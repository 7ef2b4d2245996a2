------------------------------- MODULE Caches -------------------------------
(***************************************************************************)
(* The three disk caches of resolved answers: metadata (resolver_cache.rs, *)
(* one directory per MetadataOnlyOptions), text (paper_text.rs) and TeX    *)
(* source (paper_tex_source.rs).  A call looks its entry up, asks the      *)
(* network when there is none, and leaves what it got for the next call.   *)
(* Nothing locks an entry, so two calls may write one at the same time: a  *)
(* metadata entry through a temporary file both of them use, the others in *)
(* place.  Writing is best effort; an entry that does not parse is none.   *)
(*                                                                         *)
(* A file is an inode in a directory, because a writer that has opened the *)
(* temporary file keeps writing to it after another has renamed it.        *)
(***************************************************************************)
EXTENDS Integers, FiniteSets

CONSTANTS
  Callers, CacheRefs,
  safekey,        \* ref -> the name of its files
  CacheKinds,     \* of {"metadata", "oa", "text", "tex"}
  TTL,            \* kind -> how long an entry is served
  Lengths,        \* lengths an answer may have
  Limits,         \* max_chars
  MaxAsks, MaxClock, MaxCrashes

ASSUME CacheAssumption ==
  /\ CacheKinds \subseteq {"metadata", "oa", "text", "tex"}
  /\ TTL \in [CacheKinds -> Nat] /\ Lengths \subseteq Nat \ {0}
  /\ Limits \subseteq Nat /\ MaxAsks \in Nat /\ MaxClock \in Nat /\ MaxCrashes \in Nat

VARIABLES
  dir,       \* path -> its inode, 0 when there is no such file
  bytes,     \* inode -> what it holds
  call,      \* caller -> its call
  asks, clock, crashes

cacheVars == <<dir, bytes, call, asks, clock, crashes>>

Atomic(kind) == kind \in {"metadata", "oa"}
Paths == [kind : CacheKinds, key : {safekey[r] : r \in CacheRefs}, tmp : BOOLEAN]
Inodes == 1..(Cardinality(Paths) + Cardinality(Callers))

\* What a resolve gives: an answer to one question, of some length, at a time.
Answer == [ref : CacheRefs, kind : CacheKinds, len : Lengths, at : 0..MaxClock]
\* A file that does not parse is Empty or Torn.
Empty == [len |-> 0, ref |-> "none", kind |-> "none", at |-> 0]
Torn == [Empty EXCEPT !.ref = "torn"]
NoLimit == 1000
NoAnswer == [val |-> Empty, len |-> 0, truncated |-> FALSE]

IdleCall == [pc |-> "idle", ref |-> "none", kind |-> "none", max |-> NoLimit, cached |-> FALSE,
             val |-> Empty, inode |-> 0, answer |-> NoAnswer, asked |-> FALSE, since |-> 0]

CacheInit ==
  /\ dir = [p \in Paths |-> 0] /\ bytes = [i \in Inodes |-> Empty]
  /\ call = [c \in Callers |-> IdleCall] /\ asks = 0 /\ clock = 0 /\ crashes = 0

\* cache_file: the entry of a question about a ref.
cache_file(kind, ref) == [kind |-> kind, key |-> safekey[ref], tmp |-> FALSE]
Entry(c) == cache_file(call[c].kind, call[c].ref)
Target(c) == [Entry(c) EXCEPT !.tmp = Atomic(call[c].kind)]

\* apply_max_chars: the caller's own limit, after the cache.
apply_max_chars(val, max) ==
  [val |-> val, len |-> IF max < val.len THEN max ELSE val.len, truncated |-> max < val.len]

\* A question; a base override keeps it off the cache.
Ask(c, ref, kind, max, cached) ==
  /\ call[c].pc = "idle" /\ asks < MaxAsks /\ asks' = asks + 1
  /\ Atomic(kind) => max = NoLimit
  /\ ~Atomic(kind) => cached
  /\ call' = [call EXCEPT ![c] = [IdleCall EXCEPT !.pc = IF cached THEN "read" ELSE "resolve",
                !.ref = ref, !.kind = kind, !.max = max, !.cached = cached, !.since = clock]]
  /\ UNCHANGED <<dir, bytes, clock, crashes>>

Answered(c, val) == [call[c] EXCEPT !.pc = "answered", !.inode = 0, !.val = Empty, !.answer = apply_max_chars(val, call[c].max)]

Fresh(val, kind) == clock <= val.at + TTL[kind]
Parses(i) == i # 0 /\ bytes[i].len > 0

\* Mutant: the age of an entry is not looked at.
CacheReadStale(c) ==
  /\ call[c].pc = "read"
  /\ LET i == dir[Entry(c)] IN
     IF Parses(i)
     THEN call' = [call EXCEPT ![c] = Answered(c, bytes[i])]
     ELSE call' = [call EXCEPT ![c].pc = "resolve"]
  /\ UNCHANGED <<dir, bytes, asks, clock, crashes>>

\* read_at_with_options, cache_read_at.
CacheRead(c) ==
  /\ call[c].pc = "read"
  /\ LET i == dir[Entry(c)] IN
     IF Parses(i) /\ Fresh(bytes[i], call[c].kind)
     THEN call' = [call EXCEPT ![c] = Answered(c, bytes[i])]
     ELSE call' = [call EXCEPT ![c].pc = "resolve"]
  /\ UNCHANGED <<dir, bytes, asks, clock, crashes>>

\* The network answers, or the call fails.
CacheResolve(c) ==
  /\ call[c].pc = "resolve"
  /\ \/ \E n \in Lengths :
          LET val == [ref |-> call[c].ref, kind |-> call[c].kind, len |-> n, at |-> clock] IN
          call' = [call EXCEPT ![c] =
            IF @.cached THEN [@ EXCEPT !.pc = "open", !.val = val, !.asked = TRUE]
            ELSE [Answered(c, val) EXCEPT !.asked = TRUE]]
     \/ call' = [call EXCEPT ![c].pc = "failed", ![c].asked = TRUE]
  /\ UNCHANGED <<dir, bytes, asks, clock, crashes>>

\* A new file gets the first inode that is neither in the directory nor open.
Unused(i) == (\A p \in Paths : dir[p] # i) /\ \A d \in Callers : call[d].inode # i
FirstUnused(i) == Unused(i) /\ \A j \in 1..(i - 1) : ~Unused(j)

\* The file is created, or emptied if it is there; when it cannot be, the answer
\* goes out uncached.
OpenEntry(c) ==
  /\ call[c].pc = "open"
  /\ \/ \E i \in Inodes :
          /\ IF dir[Target(c)] # 0 THEN i = dir[Target(c)] ELSE FirstUnused(i)
          /\ dir' = [dir EXCEPT ![Target(c)] = i]
          /\ bytes' = [bytes EXCEPT ![i] = Empty]
          /\ call' = [call EXCEPT ![c].inode = i, ![c].pc = "write"]
     \/ call' = [call EXCEPT ![c] = Answered(c, call[c].val)] /\ UNCHANGED <<dir, bytes>>
  /\ UNCHANGED <<asks, clock, crashes>>

\* The bytes go in from the start of the file: over what another writer put there
\* since, whose longer tail stays.  A full disk cuts them short.
Overwrite(old, new) == IF old.len > new.len \/ old = Torn THEN Torn ELSE new

WriteEntry(c) ==
  /\ call[c].pc = "write"
  /\ \/ /\ bytes' = [bytes EXCEPT ![call[c].inode] = Overwrite(@, call[c].val)]
        /\ call' = [call EXCEPT ![c] = IF Atomic(@.kind) THEN [@ EXCEPT !.pc = "rename"] ELSE Answered(c, @.val)]
     \/ /\ bytes' = [bytes EXCEPT ![call[c].inode] = Torn]
        /\ call' = [call EXCEPT ![c] = Answered(c, call[c].val)]
  /\ UNCHANGED <<dir, asks, clock, crashes>>

\* rename moves whatever file has the temporary name now; it fails if another
\* call has moved it away.  A replaced file nobody has open is gone.
RenameEntry(c) ==
  /\ call[c].pc = "rename"
  /\ \/ /\ dir[Target(c)] # 0
        /\ dir' = [dir EXCEPT ![Entry(c)] = dir[Target(c)], ![Target(c)] = 0]
        /\ bytes' = [i \in Inodes |-> IF i = dir[Entry(c)] /\ \A d \in Callers : call[d].inode # i
                                     THEN Empty ELSE bytes[i]]
     \/ dir[Target(c)] = 0 /\ UNCHANGED <<dir, bytes>>
  /\ call' = [call EXCEPT ![c] = Answered(c, call[c].val)]
  /\ UNCHANGED <<asks, clock, crashes>>

\* The answer is given and the caller may ask again.
CacheReturn(c) ==
  /\ call[c].pc \in {"answered", "failed"}
  /\ call' = [call EXCEPT ![c] = IdleCall]
  /\ UNCHANGED <<dir, bytes, asks, clock, crashes>>

\* The process ends in the middle of a call; a write it had begun is cut short.
CacheCrash(c) ==
  /\ crashes < MaxCrashes /\ crashes' = crashes + 1
  /\ call[c].pc \in {"open", "write", "rename"}
  /\ call' = [call EXCEPT ![c] = IdleCall]
  /\ bytes' \in {bytes} \cup {[bytes EXCEPT ![i] = Torn] : i \in {call[c].inode} \ {0}}
  /\ UNCHANGED <<dir, asks, clock>>

CacheTick ==
  /\ clock < MaxClock /\ clock' = clock + 1
  /\ UNCHANGED <<dir, bytes, call, asks, crashes>>

CacheStep(c) ==
  CacheRead(c) \/ CacheResolve(c) \/ OpenEntry(c) \/ WriteEntry(c) \/ RenameEntry(c)

CacheNext ==
  \/ \E c \in Callers :
       \/ \E ref \in CacheRefs, kind \in CacheKinds, max \in Limits \cup {NoLimit}, cached \in BOOLEAN :
            Ask(c, ref, kind, max, cached)
       \/ CacheStep(c) \/ CacheReturn(c) \/ CacheCrash(c)
  \/ CacheTick

CacheSpec == CacheInit /\ [][CacheNext]_cacheVars

-----------------------------------------------------------------------------
(* Properties.                                                             *)

\* Whoever wrote the entry, in whatever order with other calls and crashes, an
\* answer is a whole answer to the question asked (cache_file_with_options: "two
\* entries"), no older when the call was made than its cache allows, cut by this
\* caller's limit alone and marked as cut exactly then.
ServedIsWhole ==
  \A c \in Callers : LET a == call[c].answer IN
    call[c].pc = "answered" =>
      /\ a.val \in Answer /\ a.val.ref = call[c].ref /\ a.val.kind = call[c].kind
      /\ a.val.at + TTL[call[c].kind] >= call[c].since
      /\ a.len <= call[c].max /\ a.truncated = (a.len < a.val.len)
      /\ a.len = a.val.len \/ a.len = call[c].max

\* A call fails only when its own question to the network did.
FailsOnlyByAsking == \A c \in Callers : call[c].pc = "failed" => call[c].asked

\* "tmp + rename, not a plain write": the file a reader finds under a metadata
\* entry's name always parses.
EntryIsWhole ==
  \A p \in Paths : Atomic(p.kind) /\ ~p.tmp /\ dir[p] # 0 => bytes[dir[p]].len > 0
=============================================================================
