--------------------------- MODULE ProvenanceLog ---------------------------
(***************************************************************************)
(* The append-only provenance log of doiget-core (src/provenance.rs): one  *)
(* JSON row per line, each row carrying the hash of the row before it,     *)
(* rotated to gzip segments when the file is full and pruned at open.      *)
(*                                                                         *)
(* A process (a CLI invocation or an MCP server) keeps next_seq/last_hash  *)
(* in memory behind a mutex and never re-reads the file after open; its    *)
(* threads (tokio tasks) call append.  Several processes may share one     *)
(* file: nothing but the operating system orders their steps.              *)
(*                                                                         *)
(* this_hash is a digest of the row, the creation time included, so every  *)
(* row built gets a digest of its own: here a fresh positive number.       *)
(* Sizes are counted in lines and retention in clock ticks of one second.  *)
(***************************************************************************)
EXTENDS Integers, Sequences, FiniteSets

CONSTANTS
  Procs,       \* processes that open the log
  Threads,     \* threads that call append
  ProcOf,      \* the process each thread belongs to
  NoThread,    \* "nobody holds the mutex"
  RotateAt,    \* rotation threshold in lines; 0 disables rotation
  Retention,   \* retention in ticks; 0 disables pruning
  Faults,      \* which byte-level faults the disk may show, see AllFaults
  MaxRows,     \* bound: rows ever built
  MaxPerSec,   \* rows that can be written in one tick
  MaxTime,     \* bound: clock
  MaxCrashes   \* bound: crashes

\* err_*: the write or the fsync fails and append returns Err to its caller;
\* crash_*: the process dies during the write.  "part": a proper prefix of
\* the row's JSON reached the file; "nonl": all of it but the final newline.
\* err_prune: an aged segment cannot be removed.
ErrFault == [part |-> "err_part", nonl |-> "err_nonl"]
CrashFault == [part |-> "crash_part", nonl |-> "crash_nonl"]
AllFaults == {"err_part", "err_nonl", "err_fsync", "err_prune", "crash_part",
              "crash_nonl"}

ASSUME ProcAssumption == ProcOf \in [Threads -> Procs] /\ NoThread \notin Threads
ASSUME BoundAssumption ==
  /\ RotateAt \in Nat /\ Retention \in Nat /\ MaxRows \in Nat
  /\ MaxPerSec \in Nat /\ MaxTime \in Nat /\ MaxCrashes \in Nat
ASSUME FaultAssumption == Faults \subseteq AllFaults
\* The rotated file's name has a resolution of one second; a second is too
\* short to fill a file of 100 MiB at five fetches per second.
ASSUME SlowFillAssumption == RotateAt > 0 => MaxPerSec < RotateAt

VARIABLES
  log,       \* the lines of access.log; <<>> when the file is absent or empty
  eol,       \* whether the file ends at an end of line
  segs,      \* rotated segments: [at |-> second in the name, lines |-> content]
  isOpen,    \* process -> has an open ProvenanceLog
  mem,       \* process -> LogState {next_seq, last_hash}
  holder,    \* process -> thread that holds the state mutex
  pc,        \* thread -> where its append is
  row,       \* thread -> the row its append built
  observed,  \* process -> digests of the rows given to RepeatIndex::observe
  minted,    \* digests used so far
  now,       \* wall clock, seconds
  inSec,     \* rows written since the clock last ticked
  crashes,   \* crashes so far
  acked,     \* history: digests of the rows whose append returned Ok
  retired    \* history: digests of the rows deleted by retention

vars == <<log, eol, segs, isOpen, mem, holder, pc, row, observed, minted, now,
          inSec, crashes, acked, retired>>

GENESIS == 0

\* LogEvent: the end of a session, which repeat suppression hears of, or another.
LogEvent == {"session_end", "other"}
LogRow == [event : LogEvent, ts_seq : Nat \ {0}, prev_hash : Nat,
           this_hash : Nat \ {0}]
\* A line serde cannot parse: a torn row, or two rows run together.
Garbage == [event |-> "unparsable", ts_seq |-> 0, prev_hash |-> 0,
            this_hash |-> 0]
Line == LogRow \cup {Garbage}
IsRow(l) == l.event # "unparsable"
LogState == [next_seq : Nat \ {0}, last_hash : Nat]
\* The state of a new or empty file.
FreshState == [next_seq |-> 1, last_hash |-> GENESIS]

Digests(lines) == {lines[i].this_hash : i \in {j \in 1..Len(lines) : IsRow(lines[j])}}
----------------------------------------------------------------------------
(* Recovery and verification: what a reader makes of the lines on disk.    *)

Parses(lines) == \A i \in 1..Len(lines) : IsRow(lines[i])

\* recover_state on a file every line of which parses.
RecoverState(lines) ==
  IF lines = <<>> THEN FreshState
  ELSE [next_seq  |-> lines[Len(lines)].ts_seq + 1,
        last_hash |-> lines[Len(lines)].this_hash]

\* verify's chain anchor for line i: the last line before it that parses.
IsAnchor(lines, j, i) ==
  /\ j \in 1..(i - 1) /\ IsRow(lines[j])
  /\ \A k \in (j + 1)..(i - 1) : ~IsRow(lines[k])

\* verify reports nothing on line i (digests are never wrong here: no step
\* of the program edits a line that is already on disk).
LineVerifies(lines, i) ==
  /\ IsRow(lines[i])
  /\ (\A j \in 1..(i - 1) : ~IsRow(lines[j])) => lines[i].prev_hash = GENESIS
  /\ \A j \in 1..(i - 1) :
       (IsAnchor(lines, j, i) /\ lines[i].prev_hash # GENESIS) =>
          /\ lines[i].prev_hash = lines[j].this_hash
          /\ lines[i].ts_seq > lines[j].ts_seq

Verifies(lines) == \A i \in 1..Len(lines) : LineVerifies(lines, i)
----------------------------------------------------------------------------
Init ==
  /\ log = <<>> /\ eol = TRUE /\ segs = {}
  /\ isOpen = [p \in Procs |-> FALSE]
  /\ mem = [p \in Procs |-> FreshState]
  /\ holder = [p \in Procs |-> NoThread]
  /\ pc = [t \in Threads |-> "idle"]
  /\ row = [t \in Threads |-> Garbage]
  /\ observed = [p \in Procs |-> {}]
  /\ minted = 0 /\ now = 0 /\ inSec = 0 /\ crashes = 0
  /\ acked = {} /\ retired = {}

\* prune_rotated_segments: segments past the retention window.
Aged == {s \in segs : Retention > 0 /\ now - s.at > Retention}

\* A removal that fails is skipped.
Prunable == IF "err_prune" \in Faults THEN SUBSET Aged ELSE {Aged}

\* Bug: the segments are listed in the directory's order.
AnyAged == SUBSET Aged

\* What may be gone when the removals, oldest segment first, are interrupted.
OldestAged == {gone \in SUBSET Aged : \A s \in gone, u \in Aged \ gone : s.at < u.at}

Prune(gone) ==
  /\ segs' = segs \ gone
  /\ retired' = retired \cup UNION {Digests(s.lines) : s \in gone}

\* ProvenanceLog::open: recover the state, then prune.  A line that does not
\* parse makes open fail ("corrupted log at line N") before it prunes.
Open(p) ==
  /\ ~isOpen[p]
  /\ Parses(log)
  /\ isOpen' = [isOpen EXCEPT ![p] = TRUE]
  /\ mem' = [mem EXCEPT ![p] = RecoverState(log)]
  /\ \E gone \in Prunable : Prune(gone)
  /\ UNCHANGED <<log, eol, holder, pc, row, observed, minted, now, inSec,
                 crashes, acked>>

\* The process is killed while open prunes.
KillPruning(p) ==
  /\ ~isOpen[p]
  /\ Parses(log)
  /\ crashes < MaxCrashes /\ crashes' = crashes + 1
  /\ \E gone \in OldestAged : Prune(gone)
  /\ UNCHANGED <<log, eol, isOpen, mem, holder, pc, row, observed, minted, now,
                 inSec, acked>>

\* append, first part: take the mutex, stat the file, decide on rotation.
Enter(t) ==
  LET p == ProcOf[t] IN
  /\ pc[t] = "idle" /\ isOpen[p] /\ holder[p] = NoThread
  /\ holder' = [holder EXCEPT ![p] = t]
  /\ pc' = [pc EXCEPT ![t] = IF RotateAt > 0 /\ Len(log) >= RotateAt
                             THEN "gz" ELSE "write"]
  /\ UNCHANGED <<log, eol, segs, isOpen, mem, row, observed, minted, now,
                 inSec, crashes, acked, retired>>

Return(t) ==
  /\ pc' = [pc EXCEPT ![t] = "idle"]
  /\ row' = [row EXCEPT ![t] = Garbage]
  /\ holder' = [holder EXCEPT ![ProcOf[t]] = NoThread]

\* Bug: the gzip is left under its temporary name.
RotateGzNoRename(t) ==
  /\ pc[t] = "gz" /\ log # <<>>
  /\ pc' = [pc EXCEPT ![t] = "unlink"]
  /\ UNCHANGED <<log, eol, segs, isOpen, mem, holder, row, observed, minted,
                 now, inSec, crashes, acked, retired>>

\* rotate_log, up to the rename of the gzip over <name>.<second>.gz.
RotateGz(t) ==
  /\ pc[t] = "gz" /\ log # <<>>
  /\ segs' = {s \in segs : s.at # now} \cup {[at |-> now, lines |-> log]}
  /\ pc' = [pc EXCEPT ![t] = "unlink"]
  /\ UNCHANGED <<log, eol, isOpen, mem, holder, row, observed, minted, now,
                 inSec, crashes, acked, retired>>

\* rotate_log's remove_file, then the chain restarts in memory.
RotateUnlink(t) ==
  /\ pc[t] = "unlink" /\ log # <<>>
  /\ log' = <<>> /\ eol' = TRUE
  /\ mem' = [mem EXCEPT ![ProcOf[t]] = FreshState]
  /\ pc' = [pc EXCEPT ![t] = "write"]
  /\ UNCHANGED <<segs, isOpen, holder, row, observed, minted, now, inSec,
                 crashes, acked, retired>>

\* A step of rotate_log fails: append returns Err, the chain state is as it was.
RotateErr(t) ==
  /\ pc[t] \in {"gz", "unlink"}
  /\ Return(t)
  /\ UNCHANGED <<log, eol, segs, isOpen, mem, observed, minted, now, inSec,
                 crashes, acked, retired>>

\* The row append builds from the in-memory chain state.
NewRow(t, event) ==
  [event |-> event, ts_seq |-> mem[ProcOf[t]].next_seq,
   prev_hash |-> mem[ProcOf[t]].last_hash, this_hash |-> minted + 1]

\* The file after a write in append mode of r, cut short as in cut: bytes go
\* after whatever the file ends with, be it a torn line.
PutBytes(r, cut) ==
  Append(IF eol THEN log ELSE SubSeq(log, 1, Len(log) - 1),
         IF eol /\ cut # "part" THEN r ELSE Garbage)

CanBuild == minted < MaxRows /\ inSec < MaxPerSec

\* append, second part: build the row, write it with its newline and flush.
WriteRow(t, event) ==
  /\ pc[t] = "write" /\ CanBuild
  /\ row' = [row EXCEPT ![t] = NewRow(t, event)]
  /\ log' = PutBytes(NewRow(t, event), "full") /\ eol' = TRUE
  /\ minted' = minted + 1 /\ inSec' = inSec + 1
  /\ pc' = [pc EXCEPT ![t] = "sync"]
  /\ UNCHANGED <<segs, isOpen, mem, holder, observed, now, crashes, acked,
                 retired>>

\* The write fails before any byte is in the file: append returns Err.
WriteErr(t) ==
  /\ pc[t] = "write"
  /\ Return(t)
  /\ UNCHANGED <<log, eol, segs, isOpen, mem, observed, minted, now, inSec,
                 crashes, acked, retired>>

\* The write fails part of the way (disk full): append returns Err, the bytes
\* stay in the file and the process goes on.
WriteErrTorn(t, cut) ==
  /\ pc[t] = "write" /\ CanBuild
  /\ ErrFault[cut] \in Faults
  /\ log' = PutBytes(NewRow(t, "other"), cut) /\ eol' = FALSE
  /\ minted' = minted + 1 /\ inSec' = inSec + 1
  /\ Return(t)
  /\ UNCHANGED <<segs, isOpen, mem, observed, now, crashes, acked, retired>>

\* Bug: the last hash is not carried over to the next row.
CommitNoHash(t) ==
  LET p == ProcOf[t] IN
  /\ pc[t] = "sync"
  /\ mem' = [mem EXCEPT ![p] = [next_seq  |-> row[t].ts_seq + 1,
                                last_hash |-> mem[p].last_hash]]
  /\ observed' = [observed EXCEPT ![p] =
                    IF row[t].event = "session_end" THEN @ \cup {row[t].this_hash} ELSE @]
  /\ acked' = acked \cup {row[t].this_hash}
  /\ Return(t)
  /\ UNCHANGED <<log, eol, segs, isOpen, minted, now, inSec, crashes, retired>>

\* append, last part: fsync succeeded; advance the chain state, feed repeat
\* suppression with a session_end row, release the mutex, return Ok.
Commit(t) ==
  LET p == ProcOf[t] IN
  /\ pc[t] = "sync"
  /\ mem' = [mem EXCEPT ![p] = [next_seq  |-> row[t].ts_seq + 1,
                                last_hash |-> row[t].this_hash]]
  /\ observed' = [observed EXCEPT ![p] =
                    IF row[t].event = "session_end" THEN @ \cup {row[t].this_hash} ELSE @]
  /\ acked' = acked \cup {row[t].this_hash}
  /\ Return(t)
  /\ UNCHANGED <<log, eol, segs, isOpen, minted, now, inSec, crashes, retired>>

\* fsync fails: append returns Err and leaves the chain state as it was, with
\* the whole row in the file.
SyncErr(t) ==
  /\ pc[t] = "sync" /\ "err_fsync" \in Faults
  /\ Return(t)
  /\ UNCHANGED <<log, eol, segs, isOpen, mem, observed, minted, now, inSec,
                 crashes, acked, retired>>

\* What the death of process p does to its threads, its mutex and its memory.
Die(p) ==
  /\ crashes < MaxCrashes
  /\ crashes' = crashes + 1
  /\ isOpen' = [isOpen EXCEPT ![p] = FALSE]
  /\ holder' = [holder EXCEPT ![p] = NoThread]
  /\ pc' = [t \in Threads |-> IF ProcOf[t] = p THEN "idle" ELSE pc[t]]
  /\ row' = [t \in Threads |-> IF ProcOf[t] = p THEN Garbage ELSE row[t]]
  /\ observed' = [observed EXCEPT ![p] = {}]
  /\ mem' = [mem EXCEPT ![p] = FreshState]

\* The process ends or is killed between two steps.
Crash(p) ==
  /\ isOpen[p]
  /\ Die(p)
  /\ UNCHANGED <<log, eol, segs, minted, now, inSec, acked, retired>>

\* The process is killed while thread t writes its row.
CrashTorn(t, cut) ==
  /\ pc[t] = "write" /\ CanBuild
  /\ CrashFault[cut] \in Faults
  /\ Die(ProcOf[t])
  /\ log' = PutBytes(NewRow(t, "other"), cut) /\ eol' = FALSE
  /\ minted' = minted + 1 /\ inSec' = inSec + 1
  /\ UNCHANGED <<segs, now, acked, retired>>

Tick ==
  /\ now < MaxTime
  /\ now' = now + 1 /\ inSec' = 0
  /\ UNCHANGED <<log, eol, segs, isOpen, mem, holder, pc, row, observed,
                 minted, crashes, acked, retired>>

Next ==
  \/ \E p \in Procs : Open(p) \/ KillPruning(p) \/ Crash(p)
  \/ \E t \in Threads :
       \/ Enter(t) \/ RotateGz(t) \/ RotateUnlink(t) \/ RotateErr(t)
       \/ \E event \in LogEvent : WriteRow(t, event)
       \/ WriteErr(t) \/ Commit(t) \/ SyncErr(t)
       \/ \E cut \in {"part", "nonl"} : WriteErrTorn(t, cut) \/ CrashTorn(t, cut)
  \/ Tick

Spec == Init /\ [][Next]_vars
----------------------------------------------------------------------------
(* Properties.                                                             *)

TypeOK ==
  /\ log \in Seq(Line) /\ eol \in BOOLEAN
  /\ segs \subseteq [at : Nat, lines : Seq(Line)]
  /\ isOpen \in [Procs -> BOOLEAN]
  /\ mem \in [Procs -> LogState]
  /\ holder \in [Procs -> Threads \cup {NoThread}]
  /\ pc \in [Threads -> {"idle", "gz", "unlink", "write", "sync"}]
  /\ row \in [Threads -> Line]
  /\ observed \in [Procs -> SUBSET Nat]
  /\ minted \in Nat /\ now \in Nat /\ inSec \in Nat /\ crashes \in Nat
  /\ acked \subseteq Nat /\ retired \subseteq Nat

\* The lines of the file that end in a newline.
WholeLines == IF eol THEN log ELSE SubSeq(log, 1, Len(log) - 1)

OnDisk == Digests(log) \cup UNION {Digests(s.lines) : s \in segs}

\* What append says of a failed attempt, "at most a torn last line on disk":
\* audit-log --verify finds nothing wrong with any rotated segment, nor with
\* the live file up to a last line without its newline.
AtMostTornLastLine ==
  /\ Verifies(WholeLines)
  /\ \A s \in segs : Verifies(s.lines)

\* A row whose append returned Ok can be read back, from the live file or from
\* a segment, until retention deletes its segment: rotations, crashes in the
\* middle of one and failed appends in between lose nothing.
AckedReadable == acked \subseteq OnDisk \cup retired

\* Between two appends the chain state in memory is the one a restart would
\* recover from the file: a crash is invisible in the chain.
MemoryIsWhatRestartRecovers ==
  \A p \in Procs : isOpen[p] /\ holder[p] = NoThread =>
     /\ eol /\ Parses(log)
     /\ mem[p] = RecoverState(log)

\* "Only a row that is durably on disk feeds repeat suppression": what a
\* process remembers of the answers it gave is a subset of the fsynced rows.
ObservedIsDurable == \A p \in Procs : observed[p] \subseteq acked

\* A row is lost only where verify shows it: if every segment and the file
\* verify, every acknowledged row is still there (any fault, one process).
LossIsDetected ==
  (Verifies(log) /\ \A s \in segs : Verifies(s.lines)) => AckedReadable

\* A rotated segment is never overwritten with other content, not even by a
\* rotation retried within the second after its unlink failed, nor deleted
\* before its retention is over.
SegmentsKept ==
  [][\A s \in segs : s \in segs' \/ (Retention > 0 /\ now - s.at > Retention)]_vars

\* The comment on the write: a crash in the middle of it leaves a partial line
\* "which is detectable on recovery as a corrupted final line", so that open
\* does not succeed on a file that ends in the middle of a line.
OpenRefusesTornTail ==
  [][\A p \in Procs : ~isOpen[p] /\ isOpen'[p] => eol]_vars

\* Rows leave oldest first: whoever reads a row reads every acknowledged row
\* written after it, from the segments and the live file together, so an audit
\* of what is left has no gap.
NoGap == \A d \in OnDisk, e \in acked : d < e => e \in OnDisk

(* The refinement: what an auditor sees of the log.                        *)

Progress == [t \in Threads |-> CASE pc[t] = "idle" -> "idle"
                                 [] pc[t] = "sync" -> "written"
                                 [] OTHER          -> "begun"]
Made == [t \in Threads |-> IF pc[t] = "sync" THEN row[t].this_hash ELSE 0]

Trail == INSTANCE AuditTrail
           WITH Names <- 1..MaxRows, call <- Progress, made <- Made,
                readable <- OnDisk

\* One process on a clean disk keeps the trail: rotation is invisible, pruning
\* takes whole prefixes, a refused or interrupted append costs no other row.
KeepsTrail == Trail!Spec
=============================================================================
