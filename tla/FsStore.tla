------------------------------ MODULE FsStore ------------------------------
(***************************************************************************)
(* One entry of the filesystem store (store/fs_store.rs) and the programs  *)
(* that write it: a fetch (Store::write), doiget add (user_pdf.rs), doiget *)
(* tag and annotate and their MCP tools (write_user_authored).  Entries    *)
(* with different keys share no file and no lock.                          *)
(*                                                                         *)
(* Each writer is a process or task of its own.  A write takes the         *)
(* advisory lock of the entry, merges with what is on disk, renames the    *)
(* PDF into place, then the metadata, and releases the lock.  tag and add  *)
(* first read the entry under a lock they give back before they write.     *)
(***************************************************************************)
EXTENDS StoreMerge, FiniteSets

CONSTANTS
  Clients,     \* writers
  NoClient,    \* nobody holds the lock
  NoEntry,     \* there is no <safekey>.toml
  Foreign,     \* entries another tool may have left in the store
  Fetched,     \* metadata a fetch may produce, without the PDF's identity
  Ops,         \* which operations run: a subset of AllOps
  MaxPdfs,     \* bound: PDFs produced
  MaxCrashes   \* bound: crashes

AllOps == {"fetch", "tag", "add", "newer"}

ASSUME ClientAssumption == NoClient \notin Clients
ASSUME EntryAssumption ==
  /\ NoEntry \notin Metadata /\ NoTable \notin DoigetExtension
  /\ Foreign \subseteq Metadata
  /\ \A e \in Foreign : e.pdf_path = "none" /\ e.doiget = NoTable
ASSUME FetchedAssumption ==
  /\ Fetched \subseteq Metadata
  /\ \A m \in Fetched : /\ m.schema = "ours" /\ m.pdf_path = "none"
                        /\ m.doiget # NoTable
ASSUME OpsAssumption ==
  Ops \subseteq AllOps /\ MaxPdfs \in Nat /\ MaxCrashes \in Nat

VARIABLES
  meta,      \* <safekey>.toml, or NoEntry
  pdf,       \* identity of <safekey>.pdf, 0 if there is none
  lock,      \* who holds <safekey>.toml.lock exclusively
  pc,        \* client -> step it is at
  job,       \* client -> what it is writing
  made,      \* PDFs produced so far
  crashes,   \* crashes so far
  orphan,    \* history: the PDF on disk was renamed in by a write whose
             \* metadata never followed
  tagged     \* history: tags whose add returned Ok and whose removal did not

vars == <<meta, pdf, lock, pc, job, made, crashes, orphan, tagged>>

\* kind, metadata to write, PDF to write (0: none), --force of an add, the tag
\* an edit adds or removes.
NoJob == [kind |-> "none", m |-> NoEntry, pdf |-> 0, force |-> "no",
          add |-> {}, remove |-> {}]

Init ==
  /\ meta \in Foreign \cup {NoEntry}
  /\ pdf = 0 /\ lock = NoClient
  /\ pc = [c \in Clients |-> "idle"]
  /\ job = [c \in Clients |-> NoJob]
  /\ made = 0 /\ crashes = 0 /\ orphan = FALSE /\ tagged = {}

UserFieldsOf(kind) == IF kind = "tag" THEN "Authored" ELSE "Preserve"

\* A fetch has its metadata, with a PDF (id # 0) or without, and calls
\* Store::write.
FetchBegin(c, m, id) ==
  /\ "fetch" \in Ops /\ pc[c] = "idle"
  /\ id # 0 => made < MaxPdfs
  /\ job' = [job EXCEPT ![c] =
       [NoJob EXCEPT !.kind = "fetch", !.pdf = id,
          !.m = [m EXCEPT !.pdf_path = IF id = 0 THEN "none" ELSE "set",
                          !.doiget.size_bytes = id]]]
  /\ made' = IF id = 0 THEN made ELSE id
  /\ pc' = [pc EXCEPT ![c] = "lock"]
  /\ UNCHANGED <<meta, pdf, lock, crashes, orphan, tagged>>

\* doiget tag: Store::read under a shared lock that is released on return, then
\* the edit of the copy.  An entry that is absent or has no [doiget] table is
\* an error.
TagRead(c, add, remove) ==
  /\ "tag" \in Ops /\ pc[c] = "idle" /\ lock = NoClient
  /\ meta # NoEntry /\ meta.doiget # NoTable
  /\ add \cup remove # {}
  /\ job' = [job EXCEPT ![c] =
       [NoJob EXCEPT !.kind = "tag", !.add = add, !.remove = remove,
          !.m = [meta EXCEPT !.doiget.tags = (@ \cup add) \ remove]]]
  /\ pc' = [pc EXCEPT ![c] = "lock"]
  /\ UNCHANGED <<meta, pdf, lock, made, crashes, orphan, tagged>>

\* doiget add: refuse if a PDF is there and --force is not given.
AddCheck(c, force) ==
  /\ "add" \in Ops /\ pc[c] = "idle" /\ made < MaxPdfs
  /\ pdf = 0 \/ force = "yes"
  /\ job' = [job EXCEPT ![c] = [NoJob EXCEPT !.kind = "add", !.force = force]]
  /\ pc' = [pc EXCEPT ![c] = "read"]
  /\ UNCHANGED <<meta, pdf, lock, made, crashes, orphan, tagged>>

\* What add writes: the stored entry, or m from the resolver, with a [doiget]
\* table for the user's file.
AddedEntry(base, id) ==
  LET prior == base.doiget IN
  [base EXCEPT !.pdf_path = "set",
     !.doiget = [license |-> "unknown", origin |-> "user-supplied",
                 size_bytes |-> id,
                 oa_status |-> IF prior = NoTable THEN "none" ELSE prior.oa_status,
                 short_venue |-> IF prior = NoTable THEN "none" ELSE prior.short_venue,
                 repaired |-> IF prior = NoTable THEN "no" ELSE prior.repaired,
                 tags |-> IF prior = NoTable THEN {} ELSE prior.tags]]

\* Store::read under a shared lock, or the resolver if there is no entry.
AddRead(c, m) ==
  /\ pc[c] = "read" /\ lock = NoClient /\ made < MaxPdfs
  /\ job' = [job EXCEPT ![c].m = AddedEntry(IF meta = NoEntry THEN m ELSE meta, made + 1),
                        ![c].pdf = made + 1]
  /\ made' = made + 1
  /\ pc' = [pc EXCEPT ![c] = "lock"]
  /\ UNCHANGED <<meta, pdf, lock, crashes, orphan, tagged>>

Return(c) ==
  /\ pc' = [pc EXCEPT ![c] = "idle"]
  /\ job' = [job EXCEPT ![c] = NoJob]

\* Bug: the write takes the lock as a reader does, and others may have it too.
LockShared(c) ==
  /\ pc[c] = "lock"
  /\ lock' = c
  /\ pc' = [pc EXCEPT ![c] = "merge"]
  /\ UNCHANGED <<meta, pdf, job, made, crashes, orphan, tagged>>

\* write_with_impl: the exclusive lock.
Lock(c) ==
  /\ pc[c] = "lock" /\ lock = NoClient
  /\ lock' = c
  /\ pc' = [pc EXCEPT ![c] = "merge"]
  /\ UNCHANGED <<meta, pdf, job, made, crashes, orphan, tagged>>

\* The lock stayed taken for five seconds: LockTimeout, for a reader as well.
LockTimeout(c) ==
  /\ pc[c] \in {"lock", "read"} /\ lock \notin {NoClient, c}
  /\ Return(c)
  /\ UNCHANGED <<meta, pdf, lock, made, crashes, orphan, tagged>>

\* Bug: the metadata is renamed into place before the PDF it points at.
MergeAndPublish(c) ==
  /\ pc[c] = "merge"
  /\ meta # NoEntry => meta.schema # "newer"
  /\ LET mm == IF meta = NoEntry THEN job[c].m
               ELSE merge_metadata(meta, job[c].m, UserFieldsOf(job[c].kind))
     IN  /\ job' = [job EXCEPT ![c].m = mm]
         /\ meta' = mm
  /\ pc' = [pc EXCEPT ![c] = IF job[c].pdf = 0 THEN "meta" ELSE "pdf"]
  /\ UNCHANGED <<pdf, lock, made, crashes, orphan, tagged>>

\* Re-read the entry under the lock and merge; a newer schema is read-only.
Merge(c) ==
  /\ pc[c] = "merge"
  /\ meta # NoEntry => meta.schema # "newer"
  /\ job' = [job EXCEPT ![c].m =
       IF meta = NoEntry THEN @ ELSE merge_metadata(meta, @, UserFieldsOf(job[c].kind))]
  /\ pc' = [pc EXCEPT ![c] = IF job[c].pdf = 0 THEN "meta" ELSE "pdf"]
  /\ UNCHANGED <<meta, pdf, lock, made, crashes, orphan, tagged>>

\* SchemaTooNew: the write is refused and the lock released.
MergeRefused(c) ==
  /\ pc[c] = "merge" /\ meta # NoEntry /\ meta.schema = "newer"
  /\ lock' = NoClient
  /\ Return(c)
  /\ UNCHANGED <<meta, pdf, made, crashes, orphan, tagged>>

\* atomic_write of the PDF: visible at the rename.
RenamePdf(c) ==
  /\ pc[c] = "pdf"
  /\ pdf' = job[c].pdf
  /\ orphan' = TRUE
  /\ pc' = [pc EXCEPT ![c] = "meta"]
  /\ UNCHANGED <<meta, lock, job, made, crashes, tagged>>

\* atomic_write of the metadata, then unlock and return Ok.
RenameMeta(c) ==
  /\ pc[c] = "meta"
  /\ meta' = job[c].m
  /\ orphan' = IF job[c].pdf = 0 THEN orphan ELSE FALSE
  /\ tagged' = (tagged \cup job[c].add) \ job[c].remove
  /\ lock' = NoClient
  /\ Return(c)
  /\ UNCHANGED <<pdf, made, crashes>>

\* An error of the disk or the resolver at any step (opening the lock file, the
\* read, either atomic_write): Err, and a lock goes with its handle.
WriteErr(c) ==
  /\ pc[c] # "idle"
  /\ lock' = IF lock = c THEN NoClient ELSE lock
  /\ Return(c)
  /\ UNCHANGED <<meta, pdf, made, crashes, orphan, tagged>>

\* The process dies; the operating system releases its lock.
Crash(c) ==
  /\ pc[c] # "idle" /\ crashes < MaxCrashes
  /\ crashes' = crashes + 1
  /\ lock' = IF lock = c THEN NoClient ELSE lock
  /\ Return(c)
  /\ UNCHANGED <<meta, pdf, made, orphan, tagged>>

\* A later version of doiget or of the other tool, which honours the lock,
\* moves the entry to a newer schema.
NewerTool ==
  /\ "newer" \in Ops /\ lock = NoClient
  /\ meta # NoEntry /\ meta.schema = "ours"
  /\ meta' = [meta EXCEPT !.schema = "newer"]
  /\ UNCHANGED <<pdf, lock, pc, job, made, crashes, orphan, tagged>>

Next ==
  \/ \E c \in Clients :
       \/ \E m \in Fetched, id \in {0, made + 1} : FetchBegin(c, m, id)
       \/ \E add, remove \in SUBSET Tags : TagRead(c, add, remove)
       \/ \E force \in {"no", "yes"} : AddCheck(c, force)
       \/ \E m \in Fetched : AddRead(c, m)
       \/ Lock(c) \/ LockTimeout(c) \/ Merge(c) \/ MergeRefused(c)
       \/ RenamePdf(c) \/ RenameMeta(c) \/ WriteErr(c) \/ Crash(c)
  \/ NewerTool

Spec == Init /\ [][Next]_vars
----------------------------------------------------------------------------
(* Properties.                                                             *)

Job == [kind : {"none", "fetch", "tag", "add"}, m : Metadata \cup {NoEntry},
        pdf : Nat, force : {"no", "yes"}, add : SUBSET Tags, remove : SUBSET Tags]

TypeOK ==
  /\ meta \in Metadata \cup {NoEntry}
  /\ pdf \in Nat
  /\ lock \in Clients \cup {NoClient}
  /\ pc \in [Clients -> {"idle", "read", "lock", "merge", "pdf", "meta"}]
  /\ job \in [Clients -> Job]
  /\ made \in Nat /\ crashes \in Nat
  /\ orphan \in BOOLEAN /\ tagged \subseteq Tags

HasTable == meta # NoEntry /\ meta.doiget # NoTable
HasTableNext == meta' # NoEntry /\ meta'.doiget # NoTable

\* "Guaranteed not to happen: metadata becoming visible while its pdf_path
\* points at a .pdf that is absent": no crash, error or interleaving publishes
\* a pointer to a PDF that is not there, nor a size for a PDF never stored.
NoDanglingPdf ==
  /\ meta # NoEntry /\ meta.pdf_path = "set" => pdf # 0
  /\ HasTable /\ meta.doiget.size_bytes # 0 => pdf # 0

\* The [doiget] table describes the PDF on disk, or none; the one exception is
\* the orphan of a write that stopped between its two renames.
RecordDescribesPdf ==
  HasTable /\ ~orphan => meta.doiget.size_bytes \in {0, pdf}

\* A tag whose addition was reported as done is on the entry until a removal
\* is reported as done.
TagsNotLost == HasTable => tagged \subseteq meta.doiget.tags

\* The abbreviation on record is that of the venue on record.
ShortFollowsVenue ==
  HasTable /\ meta.doiget.short_venue # "none" =>
    meta.doiget.short_venue = ShortOf[meta.venue]

\* A table that says a field was repaired goes with the repaired field.
RepairedMeansApplied ==
  HasTable /\ meta.doiget.repaired = "yes" => meta.title = "good"

\* A user-supplied PDF carries no license claim.
UserPdfClaimsNoLicense ==
  HasTable /\ meta.doiget.origin = "user-supplied" => meta.doiget.license = "unknown"

\* Entry b has all that entry a had: every reserved field that had a value (but
\* for cleaning it), the PDF pointer, the table, a known license or OA status.
Keeps(a, b) ==
  /\ a.title # "none" /\ b.title # a.title => is_cleaned_form(a.title, b.title)
  /\ a.venue # "none" => b.venue = a.venue
  /\ a.pdf_path = "set" => b.pdf_path = "set"
  /\ a.doiget # NoTable =>
       /\ b.doiget # NoTable
       /\ a.doiget.license # "unknown" => b.doiget.license # "unknown"
       /\ a.doiget.oa_status # "none" => b.doiget.oa_status # "none"

\* No writer, however stale what it read, makes the entry forget something
\* ("doiget may upgrade a missing field, but never overwrite an existing one";
\* an undetermined license or OA status does not replace a determined one).
NothingForgotten ==
  [][meta # NoEntry => meta' # NoEntry /\ Keeps(meta, meta')]_vars

\* Only a writer that authored them changes the user's tags; a fetch or an add
\* that read the entry before the tag was set does not undo it.
OnlyTagChangesTags ==
  [][(HasTable /\ HasTableNext /\ meta'.doiget.tags # meta.doiget.tags) =>
       \E c \in Clients : pc[c] = "meta" /\ job[c].kind = "tag"]_vars

\* The record of a hand-added PDF goes only when another PDF has taken its
\* place on disk.
UserPdfKept ==
  [][(HasTable /\ HasTableNext /\ ~orphan /\ meta.doiget.origin = "user-supplied") =>
       meta'.doiget.origin = "user-supplied"]_vars

\* doiget leaves an entry of a newer schema as it is, PDF included.
NewerIsReadOnly ==
  [][meta # NoEntry /\ meta.schema = "newer" => UNCHANGED <<meta, pdf>>]_vars

\* Without --force, add does not replace a PDF that is in the store.
AddNeedsForce ==
  [][\A c \in Clients :
       (pc[c] = "pdf" /\ job[c].kind = "add" /\ job[c].force = "no" /\ pdf' # pdf
          /\ pc'[c] = "meta") => pdf = 0]_vars
=============================================================================
