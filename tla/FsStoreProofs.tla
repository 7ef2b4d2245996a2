--------------------------- MODULE FsStoreProofs ---------------------------
(***************************************************************************)
(* Proofs about FsStore for any number of writers, any metadata they may   *)
(* bring, any crashes and any bounds.                                      *)
(***************************************************************************)
EXTENDS FsStore, TLAPS

\* An entry that points at a PDF or gives its size.
Points(m) ==
  \/ m.pdf_path = "set"
  \/ m.doiget # NoTable /\ m.doiget.size_bytes # 0

\* A writer past the lock holds it.
LockInv == \A c \in Clients : pc[c] \in {"merge", "pdf", "meta"} => lock = c

\* What a writer carries: an entry from the moment it asks for the lock, a PDF
\* when it is about to rename one, and a pointer only to a PDF it still has to
\* rename or that is already there.
JobInv ==
  \A c \in Clients : pc[c] \in {"lock", "merge", "pdf", "meta"} =>
    /\ job[c].m \in Metadata
    /\ pc[c] = "pdf" => job[c].pdf # 0
    /\ Points(job[c].m) => pdf # 0 \/ (pc[c] # "meta" /\ job[c].pdf # 0)

\* Between its merge and its rename a writer's entry extends the one on disk,
\* which has a schema it may write.
MergedInv ==
  \A c \in Clients : pc[c] \in {"pdf", "meta"} /\ meta # NoEntry =>
    meta.schema # "newer" /\ Keeps(meta, job[c].m)

\* The entry on disk points at a PDF only if there is one.
PointsInv == meta # NoEntry /\ Points(meta) => pdf # 0

IInv == TypeOK /\ LockInv /\ JobInv /\ MergedInv /\ PointsInv
----------------------------------------------------------------------------
(* The merge rule.                                                         *)

\* The merge of two tables is a table.
LEMMA MergeDoigetType ==
  ASSUME NEW ed \in DoigetExtension, NEW id \in DoigetExtension,
         NEW kept \in BOOLEAN, NEW uf
  PROVE  MergeDoiget(ed, id, kept, uf) \in DoigetExtension
BY DEF MergeDoiget, MergeLicense, MergeShort, MergeTags, UserPdfStays,
       DoigetExtension

\* The merge of two entries is an entry.
LEMMA MergeType ==
  ASSUME NEW e \in Metadata, NEW i \in Metadata, NEW uf
  PROVE  merge_metadata(e, i, uf) \in Metadata
<1> DEFINE v == KeepReserved(e.venue, i.venue)
           t == KeepReserved(e.title, i.title)
           d == IF e.doiget = NoTable THEN i.doiget
                ELSE IF i.doiget = NoTable THEN e.doiget
                ELSE MergeDoiget(e.doiget, i.doiget, v # i.venue, uf)
           p == IF e.pdf_path = "set" THEN "set" ELSE i.pdf_path
<1>1. v \in Venues /\ t \in Titles
  BY DEF KeepReserved, Metadata
<1>2. d \in DoigetExtension \cup {NoTable}
  <2>1. CASE e.doiget # NoTable /\ i.doiget # NoTable
    <3>1. e.doiget \in DoigetExtension /\ i.doiget \in DoigetExtension
      BY <2>1 DEF Metadata
    <3>2. (v # i.venue) \in BOOLEAN
      OBVIOUS
    <3>3. MergeDoiget(e.doiget, i.doiget, v # i.venue, uf) \in DoigetExtension
      BY <3>1, <3>2, MergeDoigetType
    <3> QED
      BY <2>1, <3>3
  <2>2. CASE e.doiget = NoTable \/ i.doiget = NoTable
    BY <2>2 DEF Metadata
  <2> QED
    BY <2>1, <2>2
<1>3. p \in {"none", "set"} /\ i.schema \in {"ours", "newer"}
  BY DEF Metadata
<1> HIDE DEF v, t, d, p
<1>4. [schema |-> i.schema, title |-> t, venue |-> v, pdf_path |-> p, doiget |-> d]
        \in Metadata
  BY <1>1, <1>2, <1>3 DEF Metadata
<1> QED
  BY <1>4 DEF merge_metadata, v, t, d, p

\* A merge forgets nothing of the stored entry.
LEMMA MergeKeeps ==
  ASSUME NEW e \in Metadata, NEW i \in Metadata, NEW uf
  PROVE  Keeps(e, merge_metadata(e, i, uf))
<1> DEFINE b == merge_metadata(e, i, uf)
<1>1. /\ b.title = KeepReserved(e.title, i.title)
      /\ b.venue = KeepReserved(e.venue, i.venue)
      /\ b.pdf_path = IF e.pdf_path = "set" THEN "set" ELSE i.pdf_path
  BY DEF merge_metadata
<1>2. e.title # "none" /\ b.title # e.title => is_cleaned_form(e.title, b.title)
  BY <1>1 DEF KeepReserved
<1>3. e.venue # "none" => b.venue = e.venue
  <2>1. ~is_cleaned_form(e.venue, i.venue)
    BY DEF is_cleaned_form, Metadata, Venues
  <2> QED
    BY <1>1, <2>1 DEF KeepReserved
<1>4. ASSUME e.doiget # NoTable
      PROVE  /\ b.doiget # NoTable
             /\ e.doiget.license # "unknown" => b.doiget.license # "unknown"
             /\ e.doiget.oa_status # "none" => b.doiget.oa_status # "none"
  <2>1. CASE i.doiget = NoTable
    <3>1. b.doiget = e.doiget
      BY <1>4, <2>1 DEF merge_metadata
    <3> QED
      BY <1>4, <3>1
  <2>2. CASE i.doiget # NoTable
    <3> DEFINE kept == KeepReserved(e.venue, i.venue) # i.venue
               d == MergeDoiget(e.doiget, i.doiget, kept, uf)
    <3>1. e.doiget \in DoigetExtension /\ i.doiget \in DoigetExtension
      BY <1>4, <2>2 DEF Metadata
    <3>2. kept \in BOOLEAN
      OBVIOUS
    <3>3. b.doiget = d
      BY <1>4, <2>2 DEF merge_metadata
    <3>4. d \in DoigetExtension
      BY <3>1, <3>2, MergeDoigetType
    <3>5. d # NoTable
      BY <3>4, EntryAssumption
    <3>6. e.doiget.license # "unknown" => d.license # "unknown"
      BY DEF MergeDoiget, MergeLicense
    <3>7. e.doiget.oa_status # "none" => d.oa_status # "none"
      BY DEF MergeDoiget
    <3> HIDE DEF d, b
    <3> QED
      BY <3>3, <3>5, <3>6, <3>7
  <2> QED
    BY <2>1, <2>2
<1>5. e.pdf_path = "set" => b.pdf_path = "set"
  BY <1>1
<1> HIDE DEF b
<1>6. Keeps(e, b)
  BY <1>2, <1>3, <1>4, <1>5 DEF Keeps
<1> QED
  BY <1>6 DEF b

\* A merge points at a PDF only if one of the two entries does.
LEMMA MergePoints ==
  ASSUME NEW e \in Metadata, NEW i \in Metadata, NEW uf,
         Points(merge_metadata(e, i, uf))
  PROVE  Points(e) \/ Points(i)
<1> DEFINE b == merge_metadata(e, i, uf)
<1>1. CASE b.pdf_path = "set"
  BY <1>1 DEF merge_metadata, Points
<1>2. CASE b.doiget # NoTable /\ b.doiget.size_bytes # 0
  <2>1. CASE e.doiget = NoTable
    <3>1. b.doiget = i.doiget
      BY <2>1 DEF merge_metadata
    <3> QED
      BY <1>2, <3>1 DEF Points
  <2>2. CASE e.doiget # NoTable /\ i.doiget = NoTable
    <3>1. b.doiget = e.doiget
      BY <2>2 DEF merge_metadata
    <3> QED
      BY <1>2, <3>1 DEF Points
  <2>3. CASE e.doiget # NoTable /\ i.doiget # NoTable
    <3>1. b.doiget.size_bytes \in {e.doiget.size_bytes, i.doiget.size_bytes}
      BY <2>3 DEF merge_metadata, MergeDoiget
    <3> QED
      BY <1>2, <2>3, <3>1 DEF Points
  <2> QED
    BY <2>1, <2>2, <2>3
<1> QED
  BY <1>1, <1>2 DEF Points

\* What a fetch writes is an entry, and points at a PDF only if it has one.
LEMMA FetchedEntry ==
  ASSUME NEW m \in Fetched, NEW id \in Nat
  PROVE  LET e == [m EXCEPT !.pdf_path = IF id = 0 THEN "none" ELSE "set",
                            !.doiget.size_bytes = id]
         IN  e \in Metadata /\ (Points(e) => id # 0)
<1> DEFINE d == [m.doiget EXCEPT !.size_bytes = id]
           p == IF id = 0 THEN "none" ELSE "set"
           e == [m EXCEPT !.pdf_path = p, !.doiget.size_bytes = id]
<1>0. p \in {"none", "set"} /\ (p = "set" => id # 0)
  OBVIOUS
<1> HIDE DEF p
<1>1. m \in Metadata /\ m.doiget \in DoigetExtension
  BY FetchedAssumption DEF Metadata
<1>2. d \in DoigetExtension /\ d.size_bytes = id
  BY <1>1 DEF DoigetExtension
<1>3. /\ e.doiget = d /\ e.schema = m.schema /\ e.title = m.title
      /\ e.venue = m.venue /\ e.pdf_path = p
  BY <1>1 DEF Metadata
<1>4. e = [m EXCEPT !.pdf_path = p, !.doiget = d]
  OBVIOUS
<1>5. e \in Metadata
  <2> HIDE DEF d
  <2> QED
    BY <1>0, <1>1, <1>2, <1>4 DEF Metadata
<1>6. Points(e) => id # 0
  <2> HIDE DEF d, e
  <2> QED
    BY <1>0, <1>2, <1>3 DEF Points
<1> QED
  BY <1>5, <1>6 DEF p

\* What an edit of the tags writes is an entry that points where it did.
LEMMA TaggedEntry ==
  ASSUME NEW m \in Metadata, m.doiget # NoTable, NEW ts \in SUBSET Tags
  PROVE  LET e == [m EXCEPT !.doiget.tags = ts]
         IN  e \in Metadata /\ (Points(e) => Points(m))
<1> DEFINE d == [m.doiget EXCEPT !.tags = ts]
           e == [m EXCEPT !.doiget.tags = ts]
<1>1. m.doiget \in DoigetExtension
  BY DEF Metadata
<1>2. d \in DoigetExtension /\ d.size_bytes = m.doiget.size_bytes
  BY <1>1 DEF DoigetExtension
<1>3. e.doiget = d /\ e.pdf_path = m.pdf_path
  BY DEF Metadata
<1>4. e = [schema |-> m.schema, title |-> m.title, venue |-> m.venue,
           pdf_path |-> m.pdf_path, doiget |-> d]
  BY DEF Metadata
<1>5. e \in Metadata
  <2> HIDE DEF d
  <2> QED
    BY <1>2, <1>4 DEF Metadata
<1>6. Points(e) => Points(m)
  <2> HIDE DEF d, e
  <2> QED
    BY <1>2, <1>3 DEF Points
<1> QED
  BY <1>5, <1>6

\* What add writes is an entry.
LEMMA AddedEntryType ==
  ASSUME NEW m \in Metadata, NEW id \in Nat
  PROVE  AddedEntry(m, id) \in Metadata
<1> DEFINE prior == m.doiget
           d == [license |-> "unknown", origin |-> "user-supplied",
                 size_bytes |-> id,
                 oa_status |-> IF prior = NoTable THEN "none" ELSE prior.oa_status,
                 short_venue |-> IF prior = NoTable THEN "none" ELSE prior.short_venue,
                 repaired |-> IF prior = NoTable THEN "no" ELSE prior.repaired,
                 tags |-> IF prior = NoTable THEN {} ELSE prior.tags]
<1>1. prior \in DoigetExtension \cup {NoTable}
  BY DEF Metadata
<1>2. d \in DoigetExtension
  BY <1>1 DEF DoigetExtension, Shorts
<1>3. AddedEntry(m, id) = [m EXCEPT !.pdf_path = "set", !.doiget = d]
  BY DEF AddedEntry
<1> HIDE DEF d
<1> QED
  BY <1>2, <1>3 DEF Metadata
----------------------------------------------------------------------------
(* The inductive invariant.                                                *)

\* The initial states have it: what another tool left has no PDF.
LEMMA InitIInv == Init => IInv
<1> SUFFICES ASSUME Init PROVE IInv
  OBVIOUS
<1> USE DEF Init
<1>1. NoJob \in Job
  BY DEF NoJob, Job
<1>2. TypeOK
  <2>1. meta \in Metadata \cup {NoEntry}
    BY EntryAssumption
  <2>2. job \in [Clients -> Job]
    BY <1>1
  <2> QED
    BY <2>1, <2>2 DEF TypeOK
<1>3. LockInv /\ JobInv /\ MergedInv
  BY DEF LockInv, JobInv, MergedInv
<1>4. PointsInv
  <2>1. ASSUME meta \in Foreign PROVE ~Points(meta)
    BY <2>1, EntryAssumption DEF Points
  <2> QED
    BY <2>1 DEF PointsInv
<1> QED
  BY <1>2, <1>3, <1>4 DEF IInv

\* A writer that gives up, for whatever reason, leaves the entry as it is and
\* takes its lock with it.
LEMMA GiveUp ==
  ASSUME IInv, NEW c \in Clients, Return(c), crashes' \in Nat,
         lock' = (IF lock = c THEN NoClient ELSE lock),
         UNCHANGED <<meta, pdf, made, orphan, tagged>>
  PROVE  IInv'
<1> USE DEF Return
<1>0. /\ meta' = meta /\ pdf' = pdf /\ made' = made /\ orphan' = orphan
      /\ tagged' = tagged
  OBVIOUS
<1>1. NoJob \in Job
  BY DEF NoJob, Job
<1>2. TypeOK'
  BY <1>0, <1>1 DEF IInv, TypeOK
<1>3. \A d \in Clients : pc'[d] # "idle" => d # c /\ pc'[d] = pc[d] /\ job'[d] = job[d]
  BY DEF IInv, TypeOK
<1>4. LockInv'
  BY <1>3 DEF IInv, LockInv
<1>5. JobInv'
  BY <1>0, <1>3 DEF IInv, JobInv
<1>6. MergedInv'
  BY <1>0, <1>3 DEF IInv, MergedInv
<1>7. PointsInv'
  BY <1>0 DEF IInv, PointsInv
<1> QED
  BY <1>2, <1>4, <1>5, <1>6, <1>7 DEF IInv

\* A writer that now holds the entry it means to write, and asks for the lock.
LEMMA Begin ==
  ASSUME IInv, NEW c \in Clients, pc[c] \in {"idle", "read"},
         NEW j \in Job, j.m \in Metadata, Points(j.m) => pdf # 0 \/ j.pdf # 0,
         job' = [job EXCEPT ![c] = j], pc' = [pc EXCEPT ![c] = "lock"],
         made' \in Nat, UNCHANGED <<meta, pdf, lock, crashes, orphan, tagged>>
  PROVE  IInv'
<1>0. /\ meta' = meta /\ pdf' = pdf /\ lock' = lock /\ crashes' = crashes
      /\ orphan' = orphan /\ tagged' = tagged
  OBVIOUS
<1>2. TypeOK'
  BY <1>0 DEF IInv, TypeOK
<1>3. \A d \in Clients : d # c => pc'[d] = pc[d] /\ job'[d] = job[d]
  BY DEF IInv, TypeOK
<1>4. pc'[c] = "lock" /\ job'[c] = j
  BY DEF IInv, TypeOK
<1>5. LockInv'
  BY <1>0, <1>3, <1>4 DEF IInv, LockInv
<1>6. JobInv'
  BY <1>0, <1>3, <1>4 DEF IInv, JobInv
<1>7. MergedInv'
  BY <1>0, <1>3, <1>4 DEF IInv, MergedInv
<1>8. PointsInv'
  BY <1>0 DEF IInv, PointsInv
<1> QED
  BY <1>2, <1>5, <1>6, <1>7, <1>8 DEF IInv

\* The operations before the lock.
LEMMA FetchBeginStep ==
  ASSUME IInv, NEW c \in Clients, NEW m \in Fetched, NEW id \in {0, made + 1},
         FetchBegin(c, m, id)
  PROVE  IInv'
<1> DEFINE e == [m EXCEPT !.pdf_path = IF id = 0 THEN "none" ELSE "set",
                          !.doiget.size_bytes = id]
           j == [NoJob EXCEPT !.kind = "fetch", !.pdf = id, !.m = e]
<1>1. id \in Nat /\ made \in Nat
  BY DEF IInv, TypeOK
<1>2. e \in Metadata /\ (Points(e) => id # 0)
  BY <1>1, FetchedEntry
<1>3. /\ pc[c] = "idle" /\ job' = [job EXCEPT ![c] = j]
      /\ pc' = [pc EXCEPT ![c] = "lock"] /\ made' \in Nat
      /\ UNCHANGED <<meta, pdf, lock, crashes, orphan, tagged>>
  BY <1>1 DEF FetchBegin
<1> HIDE DEF e
<1>4. j \in Job /\ j.m = e /\ j.pdf = id
  BY <1>1, <1>2 DEF NoJob, Job
<1> HIDE DEF j
<1> QED
  BY <1>2, <1>3, <1>4, Begin

\* tag reads the entry and edits its copy.
LEMMA TagReadStep ==
  ASSUME IInv, NEW c \in Clients, NEW add \in SUBSET Tags,
         NEW remove \in SUBSET Tags, TagRead(c, add, remove)
  PROVE  IInv'
<1> DEFINE ts == (meta.doiget.tags \cup add) \ remove
           e == [meta EXCEPT !.doiget.tags = ts]
           j == [NoJob EXCEPT !.kind = "tag", !.add = add, !.remove = remove, !.m = e]
<1>1. meta \in Metadata /\ meta.doiget # NoTable
  BY DEF IInv, TypeOK, TagRead
<1>2. ts \in SUBSET Tags
  BY <1>1 DEF Metadata, DoigetExtension
<1>3. e \in Metadata /\ (Points(e) => Points(meta))
  <2> HIDE DEF ts
  <2> QED
    BY <1>1, <1>2, TaggedEntry
<1>4. Points(meta) => pdf # 0
  BY DEF IInv, PointsInv, TagRead
<1>5. job' = [job EXCEPT ![c] = j]
  BY <1>1 DEF TagRead
<1>6. /\ pc[c] = "idle" /\ pc' = [pc EXCEPT ![c] = "lock"] /\ made' \in Nat
      /\ UNCHANGED <<meta, pdf, lock, crashes, orphan, tagged>>
  BY DEF TagRead, IInv, TypeOK
<1> HIDE DEF e
<1>7. j \in Job /\ j.m = e
  BY <1>3 DEF NoJob, Job
<1> HIDE DEF j
<1> QED
  BY <1>3, <1>4, <1>5, <1>6, <1>7, Begin

\* add looks whether a PDF is stored.
LEMMA AddCheckStep ==
  ASSUME IInv, NEW c \in Clients, NEW force \in {"no", "yes"}, AddCheck(c, force)
  PROVE  IInv'
<1> DEFINE j == [NoJob EXCEPT !.kind = "add", !.force = force]
<1>0. /\ meta' = meta /\ pdf' = pdf /\ lock' = lock /\ crashes' = crashes
      /\ made' = made /\ orphan' = orphan /\ tagged' = tagged
      /\ job' = [job EXCEPT ![c] = j] /\ pc' = [pc EXCEPT ![c] = "read"]
  BY DEF AddCheck
<1>1. j \in Job
  BY DEF NoJob, Job
<1> HIDE DEF j
<1>2. TypeOK'
  BY <1>0, <1>1 DEF IInv, TypeOK
<1>3. /\ \A d \in Clients : d # c => pc'[d] = pc[d] /\ job'[d] = job[d]
      /\ pc'[c] = "read"
  BY <1>0 DEF IInv, TypeOK
<1>4. LockInv'
  BY <1>0, <1>3 DEF IInv, LockInv
<1>5. JobInv'
  BY <1>0, <1>3 DEF IInv, JobInv
<1>6. MergedInv'
  BY <1>0, <1>3 DEF IInv, MergedInv
<1>7. PointsInv'
  BY <1>0 DEF IInv, PointsInv
<1> QED
  BY <1>2, <1>4, <1>5, <1>6, <1>7 DEF IInv

\* add reads the entry and fills in the user's PDF.
LEMMA AddReadStep ==
  ASSUME IInv, NEW c \in Clients, NEW m \in Fetched, AddRead(c, m)
  PROVE  IInv'
<1> DEFINE e == AddedEntry(IF meta = NoEntry THEN m ELSE meta, made + 1)
           j == [job[c] EXCEPT !.m = e, !.pdf = made + 1]
<1>1. made \in Nat /\ job[c] \in Job /\ meta \in Metadata \cup {NoEntry}
      /\ job \in [Clients -> Job]
  BY DEF IInv, TypeOK
<1>2. e \in Metadata
  BY <1>1, AddedEntryType, FetchedAssumption
<1>3. /\ pc[c] = "read" /\ pc' = [pc EXCEPT ![c] = "lock"] /\ made' \in Nat
      /\ UNCHANGED <<meta, pdf, lock, crashes, orphan, tagged>>
  BY <1>1 DEF AddRead
<1>4. job' = [job EXCEPT ![c] = j]
  BY <1>1 DEF AddRead
<1> HIDE DEF e
<1>5. j.m = e /\ j.pdf = made + 1
  BY <1>1 DEF Job
<1>6. j.pdf # 0
  BY <1>1, <1>5
<1>7. j \in Job
  <2> DEFINE n == made + 1
             r == [job[c] EXCEPT !.m = e]
  <2>1. n \in Nat
    BY <1>1
  <2> HIDE DEF n
  <2>2. r \in Job
    BY <1>1, <1>2 DEF Job
  <2>3. j = [r EXCEPT !.pdf = n]
    BY <1>1 DEF Job, n
  <2> HIDE DEF r, j
  <2>4. [r EXCEPT !.pdf = n] \in Job
    BY <2>1, <2>2 DEF Job
  <2> QED
    BY <2>3, <2>4
<1> HIDE DEF j
<1> QED
  BY <1>2, <1>3, <1>4, <1>5, <1>6, <1>7, Begin

\* The steps under the lock.
LEMMA LockStep ==
  ASSUME IInv, NEW c \in Clients, Lock(c)
  PROVE  IInv'
<1>0. /\ pc[c] = "lock" /\ lock = NoClient /\ lock' = c
      /\ pc' = [pc EXCEPT ![c] = "merge"]
      /\ meta' = meta /\ pdf' = pdf /\ job' = job /\ crashes' = crashes
      /\ made' = made /\ orphan' = orphan /\ tagged' = tagged
  BY DEF Lock
<1>1. TypeOK'
  BY <1>0 DEF IInv, TypeOK
<1>2. /\ \A d \in Clients : d # c => pc'[d] = pc[d]
      /\ pc'[c] = "merge"
  BY <1>0 DEF IInv, TypeOK
<1>3. \A d \in Clients : pc[d] \notin {"merge", "pdf", "meta"}
  BY <1>0, ClientAssumption DEF IInv, LockInv
<1>4. LockInv'
  BY <1>0, <1>2, <1>3 DEF LockInv
<1>5. JobInv'
  BY <1>0, <1>2 DEF IInv, JobInv
<1>6. MergedInv'
  BY <1>0, <1>2, <1>3 DEF MergedInv
<1>7. PointsInv'
  BY <1>0 DEF IInv, PointsInv
<1> QED
  BY <1>1, <1>4, <1>5, <1>6, <1>7 DEF IInv

\* The merge under the lock.
LEMMA MergeStep ==
  ASSUME IInv, NEW c \in Clients, Merge(c)
  PROVE  IInv'
<1> DEFINE m == job[c].m
           uf == UserFieldsOf(job[c].kind)
           e == IF meta = NoEntry THEN m ELSE merge_metadata(meta, m, uf)
           next == IF job[c].pdf = 0 THEN "meta" ELSE "pdf"
<1>0. /\ pc[c] = "merge" /\ (meta # NoEntry => meta.schema # "newer")
      /\ job' = [job EXCEPT ![c].m = e]
      /\ pc' = [pc EXCEPT ![c] = next]
      /\ meta' = meta /\ pdf' = pdf /\ lock' = lock /\ crashes' = crashes
      /\ made' = made /\ orphan' = orphan /\ tagged' = tagged
  BY DEF Merge
<1>1. /\ job \in [Clients -> Job] /\ job[c] \in Job
      /\ meta \in Metadata \cup {NoEntry} /\ m \in Metadata
      /\ pc \in [Clients -> {"idle", "read", "lock", "merge", "pdf", "meta"}]
  BY <1>0 DEF IInv, TypeOK, JobInv
<1>2. e \in Metadata /\ (meta # NoEntry => Keeps(meta, e))
  BY <1>1, MergeType, MergeKeeps
<1>3. Points(e) => pdf # 0 \/ job[c].pdf # 0
  <2>1. Points(m) => pdf # 0 \/ job[c].pdf # 0
    BY <1>0 DEF IInv, JobInv
  <2>2. meta # NoEntry /\ Points(meta) => pdf # 0
    BY DEF IInv, PointsInv
  <2> QED
    BY <1>1, <2>1, <2>2, MergePoints
<1> HIDE DEF e, m, uf
<1>4. job' \in [Clients -> Job] /\ job'[c].m = e /\ job'[c].pdf = job[c].pdf
  BY <1>0, <1>1, <1>2 DEF Job
<1>5. /\ \A d \in Clients : d # c => pc'[d] = pc[d] /\ job'[d] = job[d]
      /\ pc'[c] = next
  BY <1>0, <1>1
<1>6. TypeOK'
  <2>1. pc' \in [Clients -> {"idle", "read", "lock", "merge", "pdf", "meta"}]
    BY <1>0, <1>1
  <2> QED
    BY <1>0, <1>4, <2>1 DEF IInv, TypeOK
<1>7. LockInv'
  BY <1>0, <1>5 DEF IInv, LockInv
<1>8. JobInv'
  BY <1>0, <1>2, <1>3, <1>4, <1>5 DEF IInv, JobInv
<1>9. MergedInv'
  BY <1>0, <1>2, <1>4, <1>5 DEF IInv, MergedInv
<1>10. PointsInv'
  BY <1>0 DEF IInv, PointsInv
<1> QED
  BY <1>6, <1>7, <1>8, <1>9, <1>10 DEF IInv

\* The rename of the PDF: there is one from now on.
LEMMA RenamePdfStep ==
  ASSUME IInv, NEW c \in Clients, RenamePdf(c)
  PROVE  IInv'
<1>0. /\ pc[c] = "pdf" /\ pdf' = job[c].pdf /\ orphan' = TRUE
      /\ pc' = [pc EXCEPT ![c] = "meta"]
      /\ meta' = meta /\ job' = job /\ lock' = lock /\ crashes' = crashes
      /\ made' = made /\ tagged' = tagged
  BY DEF RenamePdf
<1>1. pdf' \in Nat /\ pdf' # 0
  BY <1>0 DEF IInv, TypeOK, Job, JobInv
<1>2. TypeOK'
  BY <1>0, <1>1 DEF IInv, TypeOK
<1>3. /\ \A d \in Clients : d # c => pc'[d] = pc[d]
      /\ pc'[c] = "meta"
  BY <1>0 DEF IInv, TypeOK
<1>4. LockInv'
  BY <1>0, <1>3 DEF IInv, LockInv
<1>5. JobInv'
  BY <1>0, <1>1, <1>3 DEF IInv, JobInv
<1>6. MergedInv'
  BY <1>0, <1>3 DEF IInv, MergedInv
<1>7. PointsInv'
  BY <1>1 DEF PointsInv
<1> QED
  BY <1>2, <1>4, <1>5, <1>6, <1>7 DEF IInv

\* The rename of the metadata publishes a merged entry.
LEMMA RenameMetaStep ==
  ASSUME IInv, NEW c \in Clients, RenameMeta(c)
  PROVE  IInv'
<1>0. /\ pc[c] = "meta" /\ meta' = job[c].m /\ lock' = NoClient
      /\ pc' = [pc EXCEPT ![c] = "idle"] /\ job' = [job EXCEPT ![c] = NoJob]
      /\ pdf' = pdf /\ made' = made /\ crashes' = crashes
      /\ tagged' = (tagged \cup job[c].add) \ job[c].remove
      /\ orphan' = IF job[c].pdf = 0 THEN orphan ELSE FALSE
  BY DEF RenameMeta, Return
<1>1. meta' \in Metadata /\ (Points(meta') => pdf # 0)
  BY <1>0 DEF IInv, JobInv
<1>2. NoJob \in Job /\ job[c] \in Job
  BY DEF NoJob, Job, IInv, TypeOK
<1>3. TypeOK'
  <2>1. tagged' \subseteq Tags
    BY <1>0, <1>2 DEF IInv, TypeOK, Job
  <2>2. orphan' \in BOOLEAN
    BY <1>0, Zenon DEF IInv, TypeOK
  <2> QED
    BY <1>0, <1>1, <1>2, <2>1, <2>2 DEF IInv, TypeOK
<1>4. /\ \A d \in Clients : d # c => pc'[d] = pc[d] /\ job'[d] = job[d]
      /\ pc'[c] = "idle"
  BY <1>0 DEF IInv, TypeOK
<1>5. \A d \in Clients : pc'[d] \notin {"merge", "pdf", "meta"}
  BY <1>0, <1>4 DEF IInv, LockInv
<1>6. LockInv' /\ MergedInv'
  BY <1>5 DEF LockInv, MergedInv
<1>7. JobInv'
  BY <1>0, <1>4 DEF IInv, JobInv
<1>8. PointsInv'
  BY <1>0, <1>1 DEF PointsInv
<1> QED
  BY <1>3, <1>6, <1>7, <1>8 DEF IInv

\* The newer tool takes the lock and keeps every field.
LEMMA NewerToolStep ==
  ASSUME IInv, NewerTool
  PROVE  IInv' /\ Keeps(meta, meta')
<1>0. /\ lock = NoClient /\ meta # NoEntry
      /\ meta' = [meta EXCEPT !.schema = "newer"]
      /\ pdf' = pdf /\ lock' = lock /\ pc' = pc /\ job' = job /\ made' = made
      /\ crashes' = crashes /\ orphan' = orphan /\ tagged' = tagged
  BY DEF NewerTool
<1>1. /\ meta \in Metadata /\ meta' \in Metadata
      /\ meta'.title = meta.title /\ meta'.venue = meta.venue
      /\ meta'.pdf_path = meta.pdf_path /\ meta'.doiget = meta.doiget
  BY <1>0 DEF IInv, TypeOK, Metadata
<1>2. TypeOK'
  BY <1>0, <1>1 DEF IInv, TypeOK
<1>3. \A d \in Clients : pc[d] \notin {"merge", "pdf", "meta"}
  BY <1>0, ClientAssumption DEF IInv, LockInv
<1>4. LockInv' /\ JobInv'
  BY <1>0, <1>3 DEF IInv, LockInv, JobInv
<1>5. MergedInv'
  BY <1>0, <1>3 DEF MergedInv
<1>6. PointsInv'
  BY <1>0, <1>1 DEF IInv, PointsInv, Points
<1>7. Keeps(meta, meta')
  BY <1>1 DEF Keeps
<1> QED
  BY <1>2, <1>4, <1>5, <1>6, <1>7 DEF IInv

\* A step that does not touch anything keeps the invariant.
LEMMA StutterStep ==
  ASSUME IInv, UNCHANGED vars
  PROVE  IInv'
<1> USE DEF vars
<1>1. TypeOK'
  BY DEF IInv, TypeOK
<1>2. LockInv' /\ JobInv' /\ MergedInv'
  BY DEF IInv, LockInv, JobInv, MergedInv
<1>3. PointsInv'
  BY DEF IInv, PointsInv
<1> QED
  BY <1>1, <1>2, <1>3 DEF IInv

\* The four ways to give up: the lock stayed taken, the entry is of a newer
\* schema, a write failed, the process died.
LEMMA GiveUpStep ==
  ASSUME IInv, NEW c \in Clients,
         LockTimeout(c) \/ MergeRefused(c) \/ WriteErr(c) \/ Crash(c)
  PROVE  IInv'
<1>0. pc[c] \in {"merge", "pdf", "meta"} => lock = c
  BY DEF IInv, LockInv
<1>1. crashes \in Nat
  BY DEF IInv, TypeOK
<1>2. CASE LockTimeout(c)
  BY <1>1, <1>2, GiveUp DEF LockTimeout
<1>3. CASE MergeRefused(c)
  BY <1>0, <1>1, <1>3, GiveUp DEF MergeRefused
<1>4. CASE WriteErr(c)
  BY <1>0, <1>1, <1>4, GiveUp DEF WriteErr
<1>5. CASE Crash(c)
  <2>1. crashes' \in Nat
    BY <1>1, <1>5 DEF Crash
  <2> QED
    BY <1>5, <2>1, GiveUp DEF Crash
<1> QED
  BY <1>2, <1>3, <1>4, <1>5

\* Every step of every writer keeps the invariant.
LEMMA NextIInv == IInv /\ [Next]_vars => IInv'
<1> SUFFICES ASSUME IInv, [Next]_vars PROVE IInv'
  OBVIOUS
<1>1. ASSUME NEW c \in Clients, NEW m \in Fetched, NEW id \in {0, made + 1},
             FetchBegin(c, m, id)
      PROVE  IInv'
  BY <1>1, FetchBeginStep
<1>2. ASSUME NEW c \in Clients, NEW add \in SUBSET Tags,
             NEW remove \in SUBSET Tags, TagRead(c, add, remove)
      PROVE  IInv'
  BY <1>2, TagReadStep
<1>3. ASSUME NEW c \in Clients, NEW force \in {"no", "yes"}, AddCheck(c, force)
      PROVE  IInv'
  BY <1>3, AddCheckStep
<1>4. ASSUME NEW c \in Clients, NEW m \in Fetched, AddRead(c, m)
      PROVE  IInv'
  BY <1>4, AddReadStep
<1>5. ASSUME NEW c \in Clients, Lock(c) PROVE IInv'
  BY <1>5, LockStep
<1>6. ASSUME NEW c \in Clients, Merge(c) PROVE IInv'
  BY <1>6, MergeStep
<1>7. ASSUME NEW c \in Clients, RenamePdf(c) PROVE IInv'
  BY <1>7, RenamePdfStep
<1>8. ASSUME NEW c \in Clients, RenameMeta(c) PROVE IInv'
  BY <1>8, RenameMetaStep
<1>9. ASSUME NEW c \in Clients,
             LockTimeout(c) \/ MergeRefused(c) \/ WriteErr(c) \/ Crash(c)
      PROVE  IInv'
  BY <1>9, GiveUpStep
<1>10. CASE NewerTool
  BY <1>10, NewerToolStep
<1>11. CASE UNCHANGED vars
  BY <1>11, StutterStep
<1> QED
  BY <1>1, <1>2, <1>3, <1>4, <1>5, <1>6, <1>7, <1>8, <1>9, <1>10, <1>11 DEF Next

\* Only a rename of a merged entry, or the newer tool, changes the entry, and
\* neither makes it forget anything.
LEMMA StepKeeps ==
  ASSUME IInv, [Next]_vars, meta # NoEntry
  PROVE  /\ meta' # NoEntry /\ Keeps(meta, meta')
         /\ meta.schema = "newer" => UNCHANGED <<meta, pdf>>
<1>0. meta \in Metadata
  BY DEF IInv, TypeOK
<1>1. Keeps(meta, meta)
  BY DEF Keeps
<1>2. ASSUME NEW c \in Clients, RenameMeta(c)
      PROVE  meta' \in Metadata /\ Keeps(meta, meta') /\ meta.schema # "newer"
  BY <1>2 DEF IInv, JobInv, MergedInv, RenameMeta
<1>3. ASSUME NEW c \in Clients, RenamePdf(c)
      PROVE  meta' = meta /\ meta.schema # "newer"
  BY <1>3 DEF IInv, MergedInv, RenamePdf
<1>4. ASSUME NewerTool
      PROVE  meta' \in Metadata /\ Keeps(meta, meta') /\ meta.schema # "newer"
  <2>1. IInv' /\ Keeps(meta, meta')
    BY <1>4, NewerToolStep
  <2>2. meta' \in Metadata
    BY <1>0, <1>4 DEF NewerTool, Metadata
  <2>3. meta.schema # "newer"
    BY <1>4 DEF NewerTool
  <2> QED
    BY <2>1, <2>2, <2>3
<1>5. \/ meta' = meta /\ pdf' = pdf
      \/ \E c \in Clients : RenameMeta(c) \/ RenamePdf(c)
      \/ NewerTool
  BY DEF Next, vars, FetchBegin, TagRead, AddCheck, AddRead, Lock, LockTimeout,
         Merge, MergeRefused, WriteErr, Crash
<1> QED
  BY <1>0, <1>1, <1>2, <1>3, <1>4, <1>5, EntryAssumption
----------------------------------------------------------------------------
(* What a rewrite does to a repaired field and to a user's PDF.            *)

\* An entry in which a repaired field goes with its repair.
Sound(m) ==
  /\ m.title # "other"
  /\ m.doiget # NoTable /\ m.doiget.repaired = "yes" => m.title = "good"

\* All the records of the work, whoever brings them, are about one title: lost
\* characters and their repair, never another title.
OneTitle == \A m \in Fetched \cup Foreign : Sound(m)

RepairedInv ==
  /\ meta # NoEntry => Sound(meta)
  /\ \A c \in Clients : pc[c] \in {"lock", "merge", "pdf", "meta"} => Sound(job[c].m)

\* Where tag runs, nothing else writes the entry.
TagsAlone == "tag" \in Ops => \A c, d \in Clients : c = d

\* A writer without a PDF brings no record of one, or the record it has read;
\* once it has merged, the user's record is in it.  A writer with a PDF has put
\* it into place before it writes its record.
UserInv ==
  \A c \in Clients :
    /\ pc[c] = "meta" /\ job[c].pdf # 0 => orphan
    /\ pc[c] \in {"lock", "merge"} /\ job[c].pdf = 0 =>
         /\ job[c].m.doiget # NoTable
         /\ \/ job[c].m.doiget.size_bytes = 0
            \/ "tag" \in Ops /\ HasTable /\ meta.doiget.origin = job[c].m.doiget.origin
    /\ pc[c] = "meta" /\ job[c].pdf = 0 /\ HasTable /\ meta.doiget.origin = "user-supplied" =>
         job[c].m.doiget.origin = "user-supplied"

\* A merge of two sound entries is sound.
LEMMA MergeSound ==
  ASSUME NEW e \in Metadata, NEW i \in Metadata, NEW uf, Sound(e), Sound(i)
  PROVE  Sound(merge_metadata(e, i, uf))
<1> DEFINE b == merge_metadata(e, i, uf)
<1>1. b.title = KeepReserved(e.title, i.title)
  BY DEF merge_metadata
<1>2. b.title # "other"
  BY <1>1 DEF KeepReserved, Sound
<1>3. i.title = "good" /\ e.title # "none" /\ e.title # "lossy" => e.title = "good"
  BY DEF Sound, Metadata, Titles
<1>4. e.title = "good" \/ (i.title = "good" /\ e.title \in {"none", "lossy", "good"}) => b.title = "good"
  BY <1>1 DEF KeepReserved, is_cleaned_form
<1>5. ASSUME b.doiget # NoTable, b.doiget.repaired = "yes" PROVE b.title = "good"
  <2>1. \/ e.doiget # NoTable /\ e.doiget.repaired = "yes"
        \/ i.doiget # NoTable /\ i.doiget.repaired = "yes"
    BY <1>5 DEF merge_metadata, MergeDoiget
  <2>2. e.title = "good" \/ i.title = "good"
    BY <2>1 DEF Sound
  <2> QED
    BY <1>3, <1>4, <2>2
<1> HIDE DEF b
<1>6. Sound(b)
  BY <1>2, <1>5 DEF Sound
<1> QED
  BY <1>6 DEF b

\* What a fetch, an edit of the tags and an add make of an entry.
WithPdf(m, p, id) == [m EXCEPT !.pdf_path = p, !.doiget.size_bytes = id]

LEMMA FetchedTable ==
  ASSUME NEW m \in Fetched, NEW id \in Nat, NEW p
  PROVE  /\ Sound(m) => Sound(WithPdf(m, p, id))
         /\ WithPdf(m, p, id).doiget # NoTable /\ WithPdf(m, p, id).doiget.size_bytes = id
<1> DEFINE d == [m.doiget EXCEPT !.size_bytes = id]
           e == WithPdf(m, p, id)
<1>1. m \in Metadata /\ m.doiget \in DoigetExtension /\ m.doiget # NoTable
  BY FetchedAssumption DEF Metadata
<1>2. d \in DoigetExtension /\ d.size_bytes = id /\ d.repaired = m.doiget.repaired
  BY <1>1 DEF DoigetExtension
<1>3. e.doiget = d /\ e.title = m.title
  BY <1>1 DEF Metadata, WithPdf
<1>4. d # NoTable
  BY <1>2, EntryAssumption
<1> HIDE DEF d, e
<1>5. (Sound(m) => Sound(e)) /\ e.doiget # NoTable /\ e.doiget.size_bytes = id
  BY <1>1, <1>2, <1>3, <1>4 DEF Sound
<1> QED
  BY <1>5 DEF e

LEMMA TaggedSound ==
  ASSUME NEW m \in Metadata, m.doiget # NoTable, NEW ts \in SUBSET Tags
  PROVE  LET e == [m EXCEPT !.doiget.tags = ts]
         IN  /\ Sound(m) => Sound(e)
             /\ e.doiget # NoTable /\ e.doiget.origin = m.doiget.origin
<1> DEFINE d == [m.doiget EXCEPT !.tags = ts]
           e == [m EXCEPT !.doiget.tags = ts]
<1>1. m.doiget \in DoigetExtension
  BY DEF Metadata
<1>2. d \in DoigetExtension /\ d.origin = m.doiget.origin /\ d.repaired = m.doiget.repaired
  BY <1>1 DEF DoigetExtension
<1>3. e.doiget = d /\ e.title = m.title
  BY DEF Metadata
<1>4. d # NoTable
  BY <1>2, EntryAssumption
<1> HIDE DEF d, e
<1>5. (Sound(m) => Sound(e)) /\ e.doiget # NoTable /\ e.doiget.origin = m.doiget.origin
  BY <1>2, <1>3, <1>4 DEF Sound
<1> QED
  BY <1>5 DEF e

LEMMA AddedSound ==
  ASSUME NEW m \in Metadata, NEW id, Sound(m)
  PROVE  Sound(AddedEntry(m, id))
<1> DEFINE e == AddedEntry(m, id)
<1>1. e.title = m.title
  BY DEF AddedEntry, Metadata
<1>2. e.doiget.repaired = IF m.doiget = NoTable THEN "no" ELSE m.doiget.repaired
  BY DEF AddedEntry, Metadata
<1> HIDE DEF e
<1>3. Sound(e)
  BY <1>1, <1>2 DEF Sound
<1> QED
  BY <1>3 DEF e

\* One writer's step, and what it may make of the entry.
LEMMA SoundFrame ==
  ASSUME IInv, RepairedInv, NEW c \in Clients, NEW x, NEW j,
         pc' = [pc EXCEPT ![c] = x], job' = [job EXCEPT ![c] = j],
         x \in {"lock", "merge", "pdf", "meta"} => Sound(j.m),
         meta' # NoEntry => Sound(meta')
  PROVE  RepairedInv'
<1>1. /\ \A d \in Clients : d # c => pc'[d] = pc[d] /\ job'[d] = job[d]
      /\ pc'[c] = x /\ job'[c] = j
  BY DEF IInv, TypeOK
<1> QED
  BY <1>1 DEF RepairedInv

LEMMA RepairedStep ==
  ASSUME OneTitle, IInv, RepairedInv, [Next]_vars
  PROVE  RepairedInv'
<1>0. /\ job \in [Clients -> Job] /\ made \in Nat /\ meta \in Metadata \cup {NoEntry}
      /\ pc \in [Clients -> {"idle", "read", "lock", "merge", "pdf", "meta"}]
      /\ meta # NoEntry => Sound(meta) /\ meta \in Metadata
      /\ \A c \in Clients : pc[c] \in {"lock", "merge", "pdf", "meta"} => Sound(job[c].m) /\ job[c].m \in Metadata
      /\ \A m \in Fetched : m \in Metadata /\ Sound(m)
  BY FetchedAssumption DEF IInv, TypeOK, JobInv, RepairedInv, OneTitle
<1>1. ASSUME NEW c \in Clients, NEW m \in Fetched, NEW id \in {0, made + 1}, FetchBegin(c, m, id)
      PROVE  RepairedInv'
  <2> DEFINE p == IF id = 0 THEN "none" ELSE "set"
             e == WithPdf(m, p, id)
             j == [NoJob EXCEPT !.kind = "fetch", !.pdf = id, !.m = e]
  <2>1. pc' = [pc EXCEPT ![c] = "lock"] /\ job' = [job EXCEPT ![c] = j] /\ meta' = meta
    BY <1>1 DEF FetchBegin, WithPdf
  <2>2. id \in Nat
    BY <1>0
  <2>3. Sound(e)
    BY <1>0, <2>2, FetchedTable
  <2>4. j.m = e
    BY DEF NoJob
  <2> HIDE DEF e, j
  <2> QED
    BY <1>0, <2>1, <2>3, <2>4, SoundFrame
<1>2. ASSUME NEW c \in Clients, NEW add \in SUBSET Tags, NEW remove \in SUBSET Tags, TagRead(c, add, remove)
      PROVE  RepairedInv'
  <2> DEFINE ts == (meta.doiget.tags \cup add) \ remove
             e == [meta EXCEPT !.doiget.tags = (@ \cup add) \ remove]
             j == [NoJob EXCEPT !.kind = "tag", !.add = add, !.remove = remove, !.m = e]
  <2>1. pc' = [pc EXCEPT ![c] = "lock"] /\ job' = [job EXCEPT ![c] = j] /\ meta' = meta
        /\ meta # NoEntry /\ meta.doiget # NoTable
    BY <1>2 DEF TagRead
  <2>2. meta \in Metadata /\ ts \in SUBSET Tags
    BY <1>0, <2>1 DEF Metadata, DoigetExtension
  <2>3. e = [meta EXCEPT !.doiget.tags = ts]
    BY <2>2 DEF Metadata, DoigetExtension
  <2> HIDE DEF ts
  <2>4. Sound(e)
    BY <1>0, <2>1, <2>2, <2>3, TaggedSound
  <2>5. j.m = e
    BY DEF NoJob
  <2> HIDE DEF e, j
  <2> QED
    BY <1>0, <2>1, <2>4, <2>5, SoundFrame
<1>3. ASSUME NEW c \in Clients, NEW force \in {"no", "yes"}, AddCheck(c, force) PROVE RepairedInv'
  <2> DEFINE j == [NoJob EXCEPT !.kind = "add", !.force = force]
  <2>1. pc' = [pc EXCEPT ![c] = "read"] /\ job' = [job EXCEPT ![c] = j] /\ meta' = meta
    BY <1>3 DEF AddCheck
  <2> HIDE DEF j
  <2> QED
    BY <1>0, <2>1, SoundFrame
<1>4. ASSUME NEW c \in Clients, NEW m \in Fetched, AddRead(c, m) PROVE RepairedInv'
  <2> DEFINE e == AddedEntry(IF meta = NoEntry THEN m ELSE meta, made + 1)
             j == [job[c] EXCEPT !.m = e, !.pdf = made + 1]
  <2>1. pc' = [pc EXCEPT ![c] = "lock"] /\ job' = [job EXCEPT ![c] = j] /\ meta' = meta
    BY <1>0, <1>4 DEF AddRead
  <2>2. Sound(e)
    BY <1>0, AddedSound
  <2> HIDE DEF e
  <2>3. j.m = e
    BY <1>0 DEF Job
  <2> HIDE DEF j
  <2> QED
    BY <1>0, <2>1, <2>2, <2>3, SoundFrame
<1>5. ASSUME NEW c \in Clients, Lock(c) PROVE RepairedInv'
  <2>1. pc[c] = "lock" /\ pc' = [pc EXCEPT ![c] = "merge"] /\ job' = [job EXCEPT ![c] = job[c]] /\ meta' = meta
    BY <1>0, <1>5 DEF Lock
  <2> QED
    BY <1>0, <2>1, SoundFrame
<1>6. ASSUME NEW c \in Clients, Merge(c) PROVE RepairedInv'
  <2> DEFINE m == job[c].m
             uf == UserFieldsOf(job[c].kind)
             e == IF meta = NoEntry THEN m ELSE merge_metadata(meta, m, uf)
             j == [job[c] EXCEPT !.m = e]
             x == IF job[c].pdf = 0 THEN "meta" ELSE "pdf"
  <2>1. pc[c] = "merge" /\ pc' = [pc EXCEPT ![c] = x] /\ job' = [job EXCEPT ![c] = j] /\ meta' = meta
    BY <1>0, <1>6 DEF Merge
  <2>2. m \in Metadata /\ Sound(m)
    BY <1>0, <2>1
  <2> HIDE DEF m, uf
  <2>3. Sound(e)
    BY <1>0, <2>2, MergeSound
  <2> HIDE DEF e
  <2>4. j.m = e
    BY <1>0 DEF Job
  <2> HIDE DEF j, x
  <2> QED
    BY <1>0, <2>1, <2>3, <2>4, SoundFrame
<1>7. ASSUME NEW c \in Clients, RenamePdf(c) PROVE RepairedInv'
  <2>1. pc[c] = "pdf" /\ pc' = [pc EXCEPT ![c] = "meta"] /\ job' = [job EXCEPT ![c] = job[c]] /\ meta' = meta
    BY <1>0, <1>7 DEF RenamePdf
  <2> QED
    BY <1>0, <2>1, SoundFrame
<1>8. ASSUME NEW c \in Clients, RenameMeta(c) PROVE RepairedInv'
  <2>1. pc[c] = "meta" /\ pc' = [pc EXCEPT ![c] = "idle"] /\ job' = [job EXCEPT ![c] = NoJob] /\ meta' = job[c].m
    BY <1>8 DEF RenameMeta, Return
  <2> QED
    BY <1>0, <2>1, SoundFrame
<1>9. ASSUME NEW c \in Clients, LockTimeout(c) \/ MergeRefused(c) \/ WriteErr(c) \/ Crash(c) PROVE RepairedInv'
  <2>1. pc' = [pc EXCEPT ![c] = "idle"] /\ job' = [job EXCEPT ![c] = NoJob] /\ meta' = meta
    BY <1>9 DEF LockTimeout, MergeRefused, WriteErr, Crash, Return
  <2> QED
    BY <1>0, <2>1, SoundFrame
<1>10. CASE NewerTool
  <2>1. /\ pc' = pc /\ job' = job /\ meta \in Metadata /\ Sound(meta)
        /\ meta' = [meta EXCEPT !.schema = "newer"]
    BY <1>0, <1>10 DEF NewerTool
  <2>2. meta'.title = meta.title /\ meta'.doiget = meta.doiget
    BY <2>1 DEF Metadata
  <2>3. Sound(meta')
    BY <2>1, <2>2 DEF Sound
  <2> QED
    BY <2>1, <2>3 DEF RepairedInv
<1>11. CASE UNCHANGED vars
  BY <1>11 DEF vars, RepairedInv
<1> QED
  BY <1>1, <1>2, <1>3, <1>4, <1>5, <1>6, <1>7, <1>8, <1>9, <1>10, <1>11 DEF Next

\* One writer's step that leaves the entry as it is.
LEMMA UserFrame ==
  ASSUME IInv, UserInv, NEW c \in Clients, NEW x, NEW j,
         pc' = [pc EXCEPT ![c] = x], job' = [job EXCEPT ![c] = j],
         meta' = meta, orphan \in BOOLEAN, orphan' \in BOOLEAN, orphan => orphan',
         x = "meta" /\ j.pdf # 0 => orphan',
         x \in {"lock", "merge"} /\ j.pdf = 0 =>
           /\ j.m.doiget # NoTable
           /\ \/ j.m.doiget.size_bytes = 0
              \/ "tag" \in Ops /\ HasTable /\ meta.doiget.origin = j.m.doiget.origin,
         x = "meta" /\ j.pdf = 0 /\ HasTable /\ meta.doiget.origin = "user-supplied" =>
           j.m.doiget.origin = "user-supplied"
  PROVE  UserInv'
<1>1. /\ \A d \in Clients : d # c => pc'[d] = pc[d] /\ job'[d] = job[d]
      /\ pc'[c] = x /\ job'[c] = j
  BY DEF IInv, TypeOK
<1>2. HasTable' <=> HasTable
  BY DEF HasTable
<1> SUFFICES ASSUME NEW d \in Clients
             PROVE  /\ pc'[d] = "meta" /\ job'[d].pdf # 0 => orphan'
                    /\ pc'[d] \in {"lock", "merge"} /\ job'[d].pdf = 0 =>
                         /\ job'[d].m.doiget # NoTable
                         /\ \/ job'[d].m.doiget.size_bytes = 0
                            \/ "tag" \in Ops /\ HasTable /\ meta.doiget.origin = job'[d].m.doiget.origin
                    /\ pc'[d] = "meta" /\ job'[d].pdf = 0 /\ HasTable /\ meta.doiget.origin = "user-supplied" =>
                         job'[d].m.doiget.origin = "user-supplied"
  BY <1>2 DEF UserInv
<1>3. CASE d = c
  BY <1>1, <1>3
<1>4. CASE d # c
  <2>1. pc'[d] = pc[d] /\ job'[d] = job[d]
    BY <1>1, <1>4
  <2>2. /\ pc[d] = "meta" /\ job[d].pdf # 0 => orphan
        /\ pc[d] \in {"lock", "merge"} /\ job[d].pdf = 0 =>
             /\ job[d].m.doiget # NoTable
             /\ \/ job[d].m.doiget.size_bytes = 0
                \/ "tag" \in Ops /\ HasTable /\ meta.doiget.origin = job[d].m.doiget.origin
        /\ pc[d] = "meta" /\ job[d].pdf = 0 /\ HasTable /\ meta.doiget.origin = "user-supplied" =>
             job[d].m.doiget.origin = "user-supplied"
    BY DEF UserInv
  <2> QED
    BY <2>1, <2>2
<1> QED
  BY <1>3, <1>4

\* A merge by a writer without a PDF keeps the user's record.
LEMMA MergeUser ==
  ASSUME NEW e \in Metadata, NEW i \in Metadata, NEW uf,
         e.doiget # NoTable, i.doiget # NoTable, e.doiget.origin = "user-supplied",
         i.doiget.size_bytes = 0 \/ i.doiget.origin = "user-supplied"
  PROVE  merge_metadata(e, i, uf).doiget.origin = "user-supplied"
<1> DEFINE kept == KeepReserved(e.venue, i.venue) # i.venue
<1>1. merge_metadata(e, i, uf).doiget = MergeDoiget(e.doiget, i.doiget, kept, uf)
  BY DEF merge_metadata
<1>2. MergeDoiget(e.doiget, i.doiget, kept, uf).origin = "user-supplied"
  BY DEF MergeDoiget, UserPdfStays
<1> QED
  BY <1>1, <1>2

LEMMA UserStep ==
  ASSUME TagsAlone, IInv, UserInv, [Next]_vars
  PROVE  UserInv'
<1>0. /\ job \in [Clients -> Job] /\ made \in Nat /\ meta \in Metadata \cup {NoEntry}
      /\ pc \in [Clients -> {"idle", "read", "lock", "merge", "pdf", "meta"}]
      /\ orphan \in BOOLEAN
      /\ \A c \in Clients : pc[c] \in {"lock", "merge", "pdf", "meta"} => job[c].m \in Metadata
  BY DEF IInv, TypeOK, JobInv
<1>1. ASSUME NEW c \in Clients, NEW m \in Fetched, NEW id \in {0, made + 1}, FetchBegin(c, m, id)
      PROVE  UserInv'
  <2> DEFINE p == IF id = 0 THEN "none" ELSE "set"
             e == WithPdf(m, p, id)
             j == [NoJob EXCEPT !.kind = "fetch", !.pdf = id, !.m = e]
  <2>1. pc' = [pc EXCEPT ![c] = "lock"] /\ job' = [job EXCEPT ![c] = j] /\ meta' = meta /\ orphan' = orphan
    BY <1>1 DEF FetchBegin, WithPdf
  <2>2. id \in Nat
    BY <1>0
  <2>3. e.doiget # NoTable /\ e.doiget.size_bytes = id
    BY <2>2, FetchedTable
  <2>4. j.m = e /\ j.pdf = id
    BY DEF NoJob
  <2> HIDE DEF e, j
  <2> QED
    BY <1>0, <2>1, <2>3, <2>4, UserFrame
<1>2. ASSUME NEW c \in Clients, NEW add \in SUBSET Tags, NEW remove \in SUBSET Tags, TagRead(c, add, remove)
      PROVE  UserInv'
  <2> DEFINE ts == (meta.doiget.tags \cup add) \ remove
             e == [meta EXCEPT !.doiget.tags = (@ \cup add) \ remove]
             j == [NoJob EXCEPT !.kind = "tag", !.add = add, !.remove = remove, !.m = e]
  <2>1. /\ pc' = [pc EXCEPT ![c] = "lock"] /\ job' = [job EXCEPT ![c] = j] /\ meta' = meta
        /\ orphan' = orphan /\ meta # NoEntry /\ meta.doiget # NoTable /\ "tag" \in Ops
    BY <1>2 DEF TagRead
  <2>2. meta \in Metadata /\ ts \in SUBSET Tags
    BY <1>0, <2>1 DEF Metadata, DoigetExtension
  <2>3. e = [meta EXCEPT !.doiget.tags = ts]
    BY <2>2 DEF Metadata, DoigetExtension
  <2> HIDE DEF ts
  <2>4. e.doiget # NoTable /\ e.doiget.origin = meta.doiget.origin
    BY <2>1, <2>2, <2>3, TaggedSound
  <2>5. j.m = e
    BY DEF NoJob
  <2>6. HasTable
    BY <2>1 DEF HasTable
  <2> HIDE DEF e, j
  <2> QED
    BY <1>0, <2>1, <2>4, <2>5, <2>6, UserFrame
<1>3. ASSUME NEW c \in Clients, NEW force \in {"no", "yes"}, AddCheck(c, force) PROVE UserInv'
  <2> DEFINE j == [NoJob EXCEPT !.kind = "add", !.force = force]
  <2>1. /\ pc' = [pc EXCEPT ![c] = "read"] /\ job' = [job EXCEPT ![c] = j] /\ meta' = meta
        /\ orphan' = orphan
    BY <1>3 DEF AddCheck
  <2> HIDE DEF j
  <2> QED
    BY <1>0, <2>1, UserFrame
<1>4. ASSUME NEW c \in Clients, NEW m \in Fetched, AddRead(c, m) PROVE UserInv'
  <2> DEFINE e == AddedEntry(IF meta = NoEntry THEN m ELSE meta, made + 1)
             j == [job[c] EXCEPT !.m = e, !.pdf = made + 1]
  <2>1. /\ pc' = [pc EXCEPT ![c] = "lock"] /\ job' = [job EXCEPT ![c] = j] /\ meta' = meta
        /\ orphan' = orphan
    BY <1>0, <1>4 DEF AddRead
  <2> HIDE DEF e
  <2>2. j.pdf # 0
    BY <1>0 DEF Job
  <2> HIDE DEF j
  <2> QED
    BY <1>0, <2>1, <2>2, UserFrame
<1>5. ASSUME NEW c \in Clients, Lock(c) PROVE UserInv'
  <2>1. /\ pc[c] = "lock" /\ pc' = [pc EXCEPT ![c] = "merge"] /\ job' = [job EXCEPT ![c] = job[c]]
        /\ meta' = meta /\ orphan' = orphan
    BY <1>0, <1>5 DEF Lock
  <2>2. job[c].pdf = 0 =>
           /\ job[c].m.doiget # NoTable
           /\ \/ job[c].m.doiget.size_bytes = 0
              \/ "tag" \in Ops /\ HasTable /\ meta.doiget.origin = job[c].m.doiget.origin
    BY <2>1 DEF UserInv
  <2> QED
    BY <1>0, <2>1, <2>2, UserFrame
<1>6. ASSUME NEW c \in Clients, Merge(c) PROVE UserInv'
  <2> DEFINE m == job[c].m
             uf == UserFieldsOf(job[c].kind)
             e == IF meta = NoEntry THEN m ELSE merge_metadata(meta, m, uf)
             j == [job[c] EXCEPT !.m = e]
             x == IF job[c].pdf = 0 THEN "meta" ELSE "pdf"
  <2>1. /\ pc[c] = "merge" /\ pc' = [pc EXCEPT ![c] = x] /\ job' = [job EXCEPT ![c] = j] /\ meta' = meta
        /\ orphan' = orphan
    BY <1>0, <1>6 DEF Merge
  <2>2. /\ m \in Metadata
        /\ job[c].pdf = 0 => /\ m.doiget # NoTable
                             /\ \/ m.doiget.size_bytes = 0
                                \/ "tag" \in Ops /\ HasTable /\ meta.doiget.origin = m.doiget.origin
    BY <1>0, <2>1 DEF UserInv
  <2> HIDE DEF m, uf
  <2>3. job[c].pdf = 0 /\ HasTable /\ meta.doiget.origin = "user-supplied" => e.doiget.origin = "user-supplied"
    <3> SUFFICES ASSUME job[c].pdf = 0, HasTable, meta.doiget.origin = "user-supplied"
                 PROVE  e.doiget.origin = "user-supplied"
      OBVIOUS
    <3>1. meta \in Metadata /\ meta # NoEntry /\ meta.doiget # NoTable
      BY <1>0 DEF HasTable
    <3>2. merge_metadata(meta, m, uf).doiget.origin = "user-supplied"
      BY <2>2, <3>1, MergeUser
    <3> QED
      BY <3>1, <3>2
  <2> HIDE DEF e
  <2>4. j.m = e /\ j.pdf = job[c].pdf
    BY <1>0 DEF Job
  <2>5. x = "meta" => job[c].pdf = 0
    OBVIOUS
  <2>6. x \notin {"lock", "merge"}
    OBVIOUS
  <2> HIDE DEF j, x
  <2> QED
    BY <1>0, <2>1, <2>3, <2>4, <2>5, <2>6, UserFrame
<1>7. ASSUME NEW c \in Clients, RenamePdf(c) PROVE UserInv'
  <2>1. /\ pc[c] = "pdf" /\ pc' = [pc EXCEPT ![c] = "meta"] /\ job' = [job EXCEPT ![c] = job[c]]
        /\ meta' = meta /\ orphan' = TRUE
    BY <1>0, <1>7 DEF RenamePdf
  <2>2. job[c].pdf # 0
    BY <2>1 DEF IInv, JobInv
  <2> QED
    BY <1>0, <2>1, <2>2, UserFrame
<1>8. ASSUME NEW c \in Clients, RenameMeta(c) PROVE UserInv'
  <2>1. /\ pc[c] = "meta" /\ pc' = [pc EXCEPT ![c] = "idle"] /\ job' = [job EXCEPT ![c] = NoJob]
    BY <1>8 DEF RenameMeta, Return
  <2>2. /\ \A d \in Clients : d # c => pc'[d] = pc[d] /\ job'[d] = job[d]
        /\ pc'[c] = "idle"
    BY <1>0, <2>1
  <2>3. \A d \in Clients : d # c => pc[d] \notin {"merge", "pdf", "meta"}
    BY <2>1 DEF IInv, LockInv
  <2>4. ASSUME NEW d \in Clients, pc'[d] \in {"lock", "merge"}, job'[d].pdf = 0
        PROVE  job'[d].m.doiget # NoTable /\ job'[d].m.doiget.size_bytes = 0
    <3>1. d # c /\ pc[d] = "lock" /\ job'[d] = job[d]
      BY <2>2, <2>3, <2>4
    <3>2. "tag" \notin Ops
      BY <3>1 DEF TagsAlone
    <3> QED
      BY <2>4, <3>1, <3>2 DEF UserInv
  <2>5. \A d \in Clients : pc'[d] # "meta"
    BY <2>2, <2>3
  <2> QED
    BY <2>4, <2>5 DEF UserInv
<1>9. ASSUME NEW c \in Clients, LockTimeout(c) \/ MergeRefused(c) \/ WriteErr(c) \/ Crash(c) PROVE UserInv'
  <2>1. /\ pc' = [pc EXCEPT ![c] = "idle"] /\ job' = [job EXCEPT ![c] = NoJob] /\ meta' = meta
        /\ orphan' = orphan
    BY <1>9 DEF LockTimeout, MergeRefused, WriteErr, Crash, Return
  <2> QED
    BY <1>0, <2>1, UserFrame
<1>10. CASE NewerTool
  <2>1. /\ pc' = pc /\ job' = job /\ meta \in Metadata /\ meta # NoEntry /\ orphan' = orphan
        /\ meta' = [meta EXCEPT !.schema = "newer"] /\ lock = NoClient
    BY <1>0, <1>10 DEF NewerTool
  <2>2. meta'.doiget = meta.doiget /\ meta' \in Metadata
    BY <2>1 DEF Metadata
  <2>3. HasTable' <=> HasTable
    BY <2>1, <2>2, EntryAssumption DEF HasTable
  <2>4. \A d \in Clients : pc[d] # "meta"
    BY <2>1, ClientAssumption DEF IInv, LockInv
  <2> QED
    BY <2>1, <2>2, <2>3, <2>4 DEF UserInv
<1>11. CASE UNCHANGED vars
  BY <1>11 DEF vars, UserInv, HasTable
<1> QED
  BY <1>1, <1>2, <1>3, <1>4, <1>5, <1>6, <1>7, <1>8, <1>9, <1>10, <1>11 DEF Next

\* A step leaves the user's record in place.
LEMMA StepKeepsUser ==
  ASSUME IInv, UserInv, [Next]_vars, HasTable, HasTableNext, ~orphan, meta.doiget.origin = "user-supplied"
  PROVE  meta'.doiget.origin = "user-supplied"
<1>0. meta \in Metadata
  BY DEF IInv, TypeOK, HasTable
<1>1. ASSUME NEW c \in Clients, RenameMeta(c) PROVE meta'.doiget.origin = "user-supplied"
  <2>1. pc[c] = "meta" /\ meta' = job[c].m
    BY <1>1 DEF RenameMeta
  <2>2. job[c].pdf = 0
    BY <2>1 DEF UserInv
  <2> QED
    BY <2>1, <2>2 DEF UserInv
<1>2. CASE NewerTool
  <2>1. meta'.doiget = meta.doiget
    BY <1>0, <1>2 DEF NewerTool, Metadata
  <2> QED
    BY <2>1
<1>3. \/ meta' = meta
      \/ \E c \in Clients : RenameMeta(c)
      \/ NewerTool
  BY DEF Next, vars, FetchBegin, TagRead, AddCheck, AddRead, Lock, LockTimeout,
         Merge, MergeRefused, RenamePdf, WriteErr, Crash
<1> QED
  BY <1>1, <1>2, <1>3
----------------------------------------------------------------------------
(* Which PDF the record describes.                                         *)

\* Entry e is on record with the size of PDF s.
Records(e, s) == e # NoEntry /\ e.doiget # NoTable /\ e.doiget.size_bytes = s

\* What a writer at x brings, with e and p on disk: with a PDF of its own, the
\* record of that PDF, which is in place when the record is about to be; without
\* one, no size, or the one on record.
Brings(x, j, e, p) ==
  /\ x \in {"lock", "merge", "pdf", "meta"} /\ j.pdf # 0 =>
       j.m.doiget # NoTable /\ j.m.doiget.size_bytes = j.pdf
  /\ x = "meta" /\ j.pdf # 0 => p = j.pdf
  /\ x \in {"lock", "merge"} /\ j.pdf = 0 =>
       /\ j.m.doiget # NoTable
       /\ j.m.doiget.size_bytes = 0 \/ ("tag" \in Ops /\ Records(e, j.m.doiget.size_bytes))
  /\ x = "meta" /\ j.pdf = 0 /\ j.m.doiget # NoTable =>
       j.m.doiget.size_bytes = 0 \/ Records(e, j.m.doiget.size_bytes)

RecordInv == RecordDescribesPdf /\ \A c \in Clients : Brings(pc[c], job[c], meta, pdf)

\* One writer's step that leaves the two files as they are.
LEMMA RecordFrame ==
  ASSUME IInv, RecordInv, NEW c \in Clients, NEW x, NEW j,
         pc' = [pc EXCEPT ![c] = x], job' = [job EXCEPT ![c] = j],
         meta' = meta, pdf' = pdf, orphan' = orphan, Brings(x, j, meta, pdf)
  PROVE  RecordInv'
<1>1. /\ \A d \in Clients : d # c => pc'[d] = pc[d] /\ job'[d] = job[d]
      /\ pc'[c] = x /\ job'[c] = j
  BY DEF IInv, TypeOK
<1>2. ASSUME NEW d \in Clients PROVE Brings(pc'[d], job'[d], meta', pdf')
  <2>1. CASE d = c
    BY <1>1, <2>1, Zenon
  <2>2. CASE d # c
    <3>1. Brings(pc[d], job[d], meta, pdf)
      BY Zenon DEF RecordInv
    <3> QED
      BY <1>1, <2>2, <3>1, Zenon
  <2> QED
    BY <2>1, <2>2
<1>3. RecordDescribesPdf'
  BY DEF RecordInv, RecordDescribesPdf, HasTable
<1> QED
  BY <1>2, <1>3, Zenon DEF RecordInv

\* The size a merge records: the user's PDF's while it stays, or the incoming one.
LEMMA MergeRecords ==
  ASSUME NEW e \in Metadata, NEW i \in Metadata, NEW uf, i.doiget # NoTable
  PROVE  LET d == merge_metadata(e, i, uf).doiget IN
         /\ d # NoTable
         /\ i.doiget.size_bytes # 0 => d.size_bytes = i.doiget.size_bytes
         /\ \/ d.size_bytes = i.doiget.size_bytes
            \/ e.doiget # NoTable /\ d.size_bytes = e.doiget.size_bytes
<1> DEFINE kept == KeepReserved(e.venue, i.venue) # i.venue
           d == merge_metadata(e, i, uf).doiget
<1>1. CASE e.doiget = NoTable
  <2>1. d = i.doiget
    BY <1>1 DEF merge_metadata
  <2> QED
    BY <2>1
<1>2. CASE e.doiget # NoTable
  <2>1. d = MergeDoiget(e.doiget, i.doiget, kept, uf)
    BY <1>2 DEF merge_metadata
  <2>2. d.size_bytes = IF UserPdfStays(e.doiget, i.doiget) THEN e.doiget.size_bytes ELSE i.doiget.size_bytes
    BY <2>1 DEF MergeDoiget
  <2>3. d # NoTable
    <3>1. e.doiget \in DoigetExtension /\ i.doiget \in DoigetExtension
      BY <1>2 DEF Metadata
    <3>2. kept \in BOOLEAN
      OBVIOUS
    <3>3. MergeDoiget(e.doiget, i.doiget, kept, uf) \in DoigetExtension
      BY <3>1, <3>2, MergeDoigetType
    <3> HIDE DEF d, kept
    <3> QED
      BY <2>1, <3>3, EntryAssumption
  <2> HIDE DEF d
  <2>4. /\ d # NoTable
        /\ i.doiget.size_bytes # 0 => d.size_bytes = i.doiget.size_bytes
        /\ \/ d.size_bytes = i.doiget.size_bytes
           \/ e.doiget # NoTable /\ d.size_bytes = e.doiget.size_bytes
    BY <1>2, <2>2, <2>3 DEF UserPdfStays
  <2> QED
    BY <2>4 DEF d
<1> QED
  BY <1>1, <1>2

\* What an edit of the tags, and an add, record.
LEMMA TaggedRecords ==
  ASSUME NEW m \in Metadata, m.doiget # NoTable, NEW ts \in SUBSET Tags
  PROVE  LET e == [m EXCEPT !.doiget.tags = ts]
         IN  e.doiget # NoTable /\ e.doiget.size_bytes = m.doiget.size_bytes
<1> DEFINE d == [m.doiget EXCEPT !.tags = ts]
           e == [m EXCEPT !.doiget.tags = ts]
<1>1. m.doiget \in DoigetExtension
  BY DEF Metadata
<1>2. d \in DoigetExtension /\ d.size_bytes = m.doiget.size_bytes
  BY <1>1 DEF DoigetExtension
<1>3. e.doiget = d
  BY DEF Metadata
<1>4. d # NoTable
  BY <1>2, EntryAssumption
<1> HIDE DEF d, e
<1>5. e.doiget # NoTable /\ e.doiget.size_bytes = m.doiget.size_bytes
  BY <1>2, <1>3, <1>4
<1> QED
  BY <1>5 DEF e

LEMMA AddedRecords ==
  ASSUME NEW m \in Metadata, NEW id \in Nat
  PROVE  AddedEntry(m, id).doiget # NoTable /\ AddedEntry(m, id).doiget.size_bytes = id
<1> DEFINE prior == m.doiget
           d == [license |-> "unknown", origin |-> "user-supplied",
                 size_bytes |-> id,
                 oa_status |-> IF prior = NoTable THEN "none" ELSE prior.oa_status,
                 short_venue |-> IF prior = NoTable THEN "none" ELSE prior.short_venue,
                 repaired |-> IF prior = NoTable THEN "no" ELSE prior.repaired,
                 tags |-> IF prior = NoTable THEN {} ELSE prior.tags]
<1>1. prior \in DoigetExtension \cup {NoTable}
  BY DEF Metadata
<1>2. d \in DoigetExtension
  BY <1>1 DEF DoigetExtension, Shorts
<1>3. AddedEntry(m, id) = [m EXCEPT !.pdf_path = "set", !.doiget = d]
  BY DEF AddedEntry
<1>4. d.size_bytes = id
  OBVIOUS
<1> HIDE DEF d
<1>5. AddedEntry(m, id).doiget = d
  BY <1>3 DEF Metadata
<1> QED
  BY <1>2, <1>4, <1>5, EntryAssumption

\* Between its merge and its rename a writer that did not author the tags has
\* those on record.
TagsInv ==
  \A c \in Clients : pc[c] \in {"pdf", "meta"} /\ job[c].kind # "tag" /\ HasTable =>
    job[c].m.doiget.tags = meta.doiget.tags

LEMMA MergeKeepsTags ==
  ASSUME NEW e \in Metadata, NEW i \in Metadata, e.doiget # NoTable
  PROVE  merge_metadata(e, i, "Preserve").doiget.tags = e.doiget.tags
<1> DEFINE kept == KeepReserved(e.venue, i.venue) # i.venue
<1>1. CASE i.doiget = NoTable
  <2>1. merge_metadata(e, i, "Preserve").doiget = e.doiget
    BY <1>1 DEF merge_metadata
  <2> QED
    BY <2>1
<1>2. CASE i.doiget # NoTable
  <2>1. merge_metadata(e, i, "Preserve").doiget = MergeDoiget(e.doiget, i.doiget, kept, "Preserve")
    BY <1>2 DEF merge_metadata
  <2>2. MergeDoiget(e.doiget, i.doiget, kept, "Preserve").tags = e.doiget.tags
    BY DEF MergeDoiget, MergeTags
  <2> QED
    BY <2>1, <2>2
<1> QED
  BY <1>1, <1>2

LEMMA TagsStep ==
  ASSUME IInv, TagsInv, [Next]_vars
  PROVE  TagsInv'
<1>0. /\ job \in [Clients -> Job] /\ meta \in Metadata \cup {NoEntry}
      /\ pc \in [Clients -> {"idle", "read", "lock", "merge", "pdf", "meta"}]
      /\ \A c \in Clients : pc[c] \in {"lock", "merge", "pdf", "meta"} => job[c].m \in Metadata
  BY DEF IInv, TypeOK, JobInv
\* A step of one writer that is not a rename of the entry.
<1>1. ASSUME NEW c \in Clients, meta' = meta, NEW x, NEW j,
             pc' = [pc EXCEPT ![c] = x], job' = [job EXCEPT ![c] = j],
             x \in {"pdf", "meta"} /\ j.kind # "tag" /\ HasTable => j.m.doiget.tags = meta.doiget.tags
      PROVE  TagsInv'
  <2>1. /\ \A d \in Clients : d # c => pc'[d] = pc[d] /\ job'[d] = job[d]
        /\ pc'[c] = x /\ job'[c] = j
    BY <1>0, <1>1
  <2>2. HasTable' <=> HasTable
    BY <1>1 DEF HasTable
  <2> QED
    BY <1>1, <2>1, <2>2 DEF TagsInv
<1>2. ASSUME NEW c \in Clients, NEW m \in Fetched, NEW id \in {0, made + 1}, FetchBegin(c, m, id)
      PROVE  TagsInv'
  <2>1. PICK j : /\ pc' = [pc EXCEPT ![c] = "lock"] /\ job' = [job EXCEPT ![c] = j] /\ meta' = meta
    BY <1>2 DEF FetchBegin
  <2> QED
    BY <1>1, <2>1
<1>3. ASSUME NEW c \in Clients, NEW add \in SUBSET Tags, NEW remove \in SUBSET Tags, TagRead(c, add, remove)
      PROVE  TagsInv'
  <2>1. PICK j : /\ pc' = [pc EXCEPT ![c] = "lock"] /\ job' = [job EXCEPT ![c] = j] /\ meta' = meta
    BY <1>3 DEF TagRead
  <2> QED
    BY <1>1, <2>1
<1>4. ASSUME NEW c \in Clients, NEW force \in {"no", "yes"}, AddCheck(c, force) PROVE TagsInv'
  <2>1. PICK j : /\ pc' = [pc EXCEPT ![c] = "read"] /\ job' = [job EXCEPT ![c] = j] /\ meta' = meta
    BY <1>4 DEF AddCheck
  <2> QED
    BY <1>1, <2>1
<1>5. ASSUME NEW c \in Clients, NEW m \in Fetched, AddRead(c, m) PROVE TagsInv'
  <2> DEFINE j == [job[c] EXCEPT !.m = AddedEntry(IF meta = NoEntry THEN m ELSE meta, made + 1),
                                 !.pdf = made + 1]
  <2>1. /\ pc' = [pc EXCEPT ![c] = "lock"] /\ job' = [job EXCEPT ![c] = j] /\ meta' = meta
    BY <1>0, <1>5 DEF AddRead
  <2> HIDE DEF j
  <2> QED
    BY <1>1, <2>1
<1>6. ASSUME NEW c \in Clients, Lock(c) PROVE TagsInv'
  <2>1. pc' = [pc EXCEPT ![c] = "merge"] /\ job' = [job EXCEPT ![c] = job[c]] /\ meta' = meta
    BY <1>0, <1>6 DEF Lock
  <2> QED
    BY <1>1, <2>1
<1>7. ASSUME NEW c \in Clients, Merge(c) PROVE TagsInv'
  <2> DEFINE m == job[c].m
             uf == UserFieldsOf(job[c].kind)
             e == IF meta = NoEntry THEN m ELSE merge_metadata(meta, m, uf)
             j == [job[c] EXCEPT !.m = e]
             x == IF job[c].pdf = 0 THEN "meta" ELSE "pdf"
  <2>1. pc[c] = "merge" /\ pc' = [pc EXCEPT ![c] = x] /\ job' = [job EXCEPT ![c] = j] /\ meta' = meta
    BY <1>0, <1>7 DEF Merge
  <2>2. m \in Metadata
    BY <1>0, <2>1
  <2>3. job[c].kind # "tag" => uf = "Preserve"
    BY DEF UserFieldsOf
  <2> HIDE DEF m, uf
  <2>4. job[c].kind # "tag" /\ HasTable => e.doiget.tags = meta.doiget.tags
    <3> SUFFICES ASSUME job[c].kind # "tag", HasTable PROVE e.doiget.tags = meta.doiget.tags
      OBVIOUS
    <3>1. meta \in Metadata /\ meta # NoEntry /\ meta.doiget # NoTable
      BY <1>0 DEF HasTable
    <3>2. merge_metadata(meta, m, "Preserve").doiget.tags = meta.doiget.tags
      BY <2>2, <3>1, MergeKeepsTags
    <3> QED
      BY <2>3, <3>1, <3>2
  <2> HIDE DEF e
  <2>5. j.m = e /\ j.kind = job[c].kind
    BY <1>0 DEF Job
  <2> HIDE DEF j, x
  <2> QED
    BY <1>1, <2>1, <2>4, <2>5
<1>8. ASSUME NEW c \in Clients, RenamePdf(c) PROVE TagsInv'
  <2>1. /\ pc[c] = "pdf" /\ pc' = [pc EXCEPT ![c] = "meta"] /\ job' = [job EXCEPT ![c] = job[c]]
        /\ meta' = meta
    BY <1>0, <1>8 DEF RenamePdf
  <2>2. job[c].kind # "tag" /\ HasTable => job[c].m.doiget.tags = meta.doiget.tags
    BY <2>1 DEF TagsInv
  <2> QED
    BY <1>1, <2>1, <2>2
<1>9. ASSUME NEW c \in Clients, RenameMeta(c) PROVE TagsInv'
  <2>1. pc[c] = "meta" /\ pc' = [pc EXCEPT ![c] = "idle"]
    BY <1>9 DEF RenameMeta, Return
  <2>2. \A d \in Clients : d # c => pc[d] \notin {"merge", "pdf", "meta"}
    BY <2>1 DEF IInv, LockInv
  <2>3. \A d \in Clients : pc'[d] \notin {"pdf", "meta"}
    BY <1>0, <2>1, <2>2
  <2> QED
    BY <2>3 DEF TagsInv
<1>10. ASSUME NEW c \in Clients, LockTimeout(c) \/ MergeRefused(c) \/ WriteErr(c) \/ Crash(c) PROVE TagsInv'
  <2>1. pc' = [pc EXCEPT ![c] = "idle"] /\ job' = [job EXCEPT ![c] = NoJob] /\ meta' = meta
    BY <1>10 DEF LockTimeout, MergeRefused, WriteErr, Crash, Return
  <2> QED
    BY <1>1, <2>1
<1>11. CASE NewerTool
  <2>1. pc' = pc /\ lock = NoClient
    BY <1>11 DEF NewerTool
  <2>2. \A d \in Clients : pc'[d] \notin {"pdf", "meta"}
    BY <2>1, ClientAssumption DEF IInv, LockInv
  <2> QED
    BY <2>2 DEF TagsInv
<1>12. CASE UNCHANGED vars
  BY <1>12 DEF vars, TagsInv, HasTable
<1> QED
  BY <1>2, <1>3, <1>4, <1>5, <1>6, <1>7, <1>8, <1>9, <1>10, <1>11, <1>12 DEF Next

LEMMA RecordStep ==
  ASSUME TagsAlone, IInv, RecordInv, [Next]_vars
  PROVE  RecordInv'
<1>0. /\ job \in [Clients -> Job] /\ made \in Nat /\ meta \in Metadata \cup {NoEntry}
      /\ pc \in [Clients -> {"idle", "read", "lock", "merge", "pdf", "meta"}]
      /\ \A c \in Clients : pc[c] \in {"lock", "merge", "pdf", "meta"} => job[c].m \in Metadata
  BY DEF IInv, TypeOK, JobInv
<1>1. ASSUME NEW c \in Clients, NEW m \in Fetched, NEW id \in {0, made + 1}, FetchBegin(c, m, id)
      PROVE  RecordInv'
  <2> DEFINE p == IF id = 0 THEN "none" ELSE "set"
             e == WithPdf(m, p, id)
             j == [NoJob EXCEPT !.kind = "fetch", !.pdf = id, !.m = e]
  <2>1. /\ pc' = [pc EXCEPT ![c] = "lock"] /\ job' = [job EXCEPT ![c] = j] /\ meta' = meta /\ pdf' = pdf
        /\ orphan' = orphan
    BY <1>1 DEF FetchBegin, WithPdf
  <2>2. id \in Nat
    BY <1>0
  <2>3. e.doiget # NoTable /\ e.doiget.size_bytes = id
    BY <2>2, FetchedTable
  <2>4. j.m = e /\ j.pdf = id
    BY DEF NoJob
  <2> HIDE DEF e, j
  <2>5. Brings("lock", j, meta, pdf)
    BY <2>3, <2>4 DEF Brings
  <2> QED
    BY <2>1, <2>5, RecordFrame
<1>2. ASSUME NEW c \in Clients, NEW add \in SUBSET Tags, NEW remove \in SUBSET Tags, TagRead(c, add, remove)
      PROVE  RecordInv'
  <2> DEFINE ts == (meta.doiget.tags \cup add) \ remove
             e == [meta EXCEPT !.doiget.tags = (@ \cup add) \ remove]
             j == [NoJob EXCEPT !.kind = "tag", !.add = add, !.remove = remove, !.m = e]
  <2>1. /\ pc' = [pc EXCEPT ![c] = "lock"] /\ job' = [job EXCEPT ![c] = j] /\ meta' = meta /\ pdf' = pdf
        /\ orphan' = orphan /\ meta # NoEntry /\ meta.doiget # NoTable /\ "tag" \in Ops
    BY <1>2 DEF TagRead
  <2>2. meta \in Metadata /\ ts \in SUBSET Tags
    BY <1>0, <2>1 DEF Metadata, DoigetExtension
  <2>3. e = [meta EXCEPT !.doiget.tags = ts]
    BY <2>2 DEF Metadata, DoigetExtension
  <2> HIDE DEF ts
  <2>4. e.doiget # NoTable /\ e.doiget.size_bytes = meta.doiget.size_bytes
    BY <2>1, <2>2, <2>3, TaggedRecords
  <2>5. j.m = e /\ j.pdf = 0
    BY DEF NoJob
  <2> HIDE DEF e, j
  <2>6. Brings("lock", j, meta, pdf)
    BY <2>1, <2>4, <2>5 DEF Brings, Records
  <2> QED
    BY <2>1, <2>6, RecordFrame
<1>3. ASSUME NEW c \in Clients, NEW force \in {"no", "yes"}, AddCheck(c, force) PROVE RecordInv'
  <2> DEFINE j == [NoJob EXCEPT !.kind = "add", !.force = force]
  <2>1. /\ pc' = [pc EXCEPT ![c] = "read"] /\ job' = [job EXCEPT ![c] = j] /\ meta' = meta /\ pdf' = pdf
        /\ orphan' = orphan
    BY <1>3 DEF AddCheck
  <2> HIDE DEF j
  <2>2. Brings("read", j, meta, pdf)
    BY DEF Brings
  <2> QED
    BY <2>1, <2>2, RecordFrame
<1>4. ASSUME NEW c \in Clients, NEW m \in Fetched, AddRead(c, m) PROVE RecordInv'
  <2> DEFINE b == IF meta = NoEntry THEN m ELSE meta
             e == AddedEntry(b, made + 1)
             j == [job[c] EXCEPT !.m = e, !.pdf = made + 1]
  <2>1. /\ pc' = [pc EXCEPT ![c] = "lock"] /\ job' = [job EXCEPT ![c] = j] /\ meta' = meta /\ pdf' = pdf
        /\ orphan' = orphan
    BY <1>0, <1>4 DEF AddRead
  <2>2. b \in Metadata /\ made + 1 \in Nat
    BY <1>0, FetchedAssumption
  <2> HIDE DEF b
  <2>3. e.doiget # NoTable /\ e.doiget.size_bytes = made + 1
    BY <2>2, AddedRecords
  <2> HIDE DEF e
  <2>4. j.pdf = made + 1 /\ j.m = e /\ made + 1 # 0
    BY <1>0 DEF Job
  <2> HIDE DEF j
  <2>5. Brings("lock", j, meta, pdf)
    BY <2>3, <2>4 DEF Brings
  <2> QED
    BY <2>1, <2>5, RecordFrame
<1>5. ASSUME NEW c \in Clients, Lock(c) PROVE RecordInv'
  <2>1. /\ pc[c] = "lock" /\ pc' = [pc EXCEPT ![c] = "merge"] /\ job' = [job EXCEPT ![c] = job[c]]
        /\ meta' = meta /\ pdf' = pdf /\ orphan' = orphan
    BY <1>0, <1>5 DEF Lock
  <2>2. Brings("merge", job[c], meta, pdf)
    BY <2>1 DEF RecordInv, Brings
  <2> QED
    BY <2>1, <2>2, RecordFrame
<1>6. ASSUME NEW c \in Clients, Merge(c) PROVE RecordInv'
  <2> DEFINE m == job[c].m
             uf == UserFieldsOf(job[c].kind)
             e == IF meta = NoEntry THEN m ELSE merge_metadata(meta, m, uf)
             j == [job[c] EXCEPT !.m = e]
             x == IF job[c].pdf = 0 THEN "meta" ELSE "pdf"
  <2>1. /\ pc[c] = "merge" /\ pc' = [pc EXCEPT ![c] = x] /\ job' = [job EXCEPT ![c] = j] /\ meta' = meta
        /\ pdf' = pdf /\ orphan' = orphan
    BY <1>0, <1>6 DEF Merge
  <2>2. m \in Metadata /\ Brings("merge", job[c], meta, pdf)
    BY <1>0, <2>1 DEF RecordInv
  <2>3. /\ m.doiget # NoTable
        /\ job[c].pdf # 0 => m.doiget.size_bytes = job[c].pdf
        /\ job[c].pdf = 0 => m.doiget.size_bytes = 0 \/ Records(meta, m.doiget.size_bytes)
    BY <2>2 DEF Brings
  <2> HIDE DEF m, uf
  <2>4. /\ e.doiget # NoTable
        /\ job[c].pdf # 0 => e.doiget.size_bytes = job[c].pdf
        /\ job[c].pdf = 0 => e.doiget.size_bytes = 0 \/ Records(meta, e.doiget.size_bytes)
    <3>1. CASE meta = NoEntry
      <4>1. e = m
        BY <3>1
      <4> QED
        BY <2>3, <4>1
    <3>2. CASE meta # NoEntry
      <4>1. meta \in Metadata
        BY <1>0, <3>2
      <4>2. e = merge_metadata(meta, m, uf)
        BY <3>2
      <4> HIDE DEF e
      <4>3. /\ e.doiget # NoTable
            /\ m.doiget.size_bytes # 0 => e.doiget.size_bytes = m.doiget.size_bytes
            /\ \/ e.doiget.size_bytes = m.doiget.size_bytes
               \/ meta.doiget # NoTable /\ e.doiget.size_bytes = meta.doiget.size_bytes
        BY <2>2, <2>3, <4>1, <4>2, MergeRecords
      <4> QED
        BY <2>3, <3>2, <4>3 DEF Records
    <3> QED
      BY <3>1, <3>2
  <2> HIDE DEF e
  <2>5. j.m = e /\ j.pdf = job[c].pdf
    BY <1>0 DEF Job
  <2> HIDE DEF j
  <2>6. Brings(x, j, meta, pdf)
    BY <2>4, <2>5 DEF Brings
  <2> HIDE DEF x
  <2> QED
    BY <2>1, <2>6, RecordFrame
<1>7. ASSUME NEW c \in Clients, RenamePdf(c) PROVE RecordInv'
  <2>1. /\ pc[c] = "pdf" /\ pc' = [pc EXCEPT ![c] = "meta"] /\ job' = job /\ pdf' = job[c].pdf
        /\ meta' = meta /\ orphan' = TRUE
    BY <1>7 DEF RenamePdf
  <2>2. job[c].pdf # 0
    BY <2>1 DEF IInv, JobInv
  <2>3. \A d \in Clients : d # c => pc[d] \notin {"merge", "pdf", "meta"} /\ pc'[d] = pc[d]
    BY <1>0, <2>1 DEF IInv, LockInv
  <2>4. pc'[c] = "meta"
    BY <1>0, <2>1
  <2>5. ASSUME NEW d \in Clients PROVE Brings(pc'[d], job'[d], meta', pdf')
    <3>0. Brings(pc[d], job[d], meta, pdf)
      BY Zenon DEF RecordInv
    <3>1. CASE d = c
      BY <3>0, <3>1, <2>1, <2>2, <2>4 DEF Brings
    <3>2. CASE d # c
      BY <3>0, <3>2, <2>1, <2>3 DEF Brings
    <3> QED
      BY <3>1, <3>2
  <2>6. RecordDescribesPdf'
    BY <2>1 DEF RecordDescribesPdf
  <2> QED
    BY <2>5, <2>6, Zenon DEF RecordInv
<1>8. ASSUME NEW c \in Clients, RenameMeta(c) PROVE RecordInv'
  <2>1. /\ pc[c] = "meta" /\ pc' = [pc EXCEPT ![c] = "idle"] /\ job' = [job EXCEPT ![c] = NoJob]
        /\ meta' = job[c].m /\ pdf' = pdf /\ orphan' = (IF job[c].pdf = 0 THEN orphan ELSE FALSE)
    BY <1>8 DEF RenameMeta, Return
  <2>2. /\ \A d \in Clients : d # c => pc'[d] = pc[d] /\ job'[d] = job[d]
        /\ pc'[c] = "idle"
    BY <1>0, <2>1
  <2>3. \A d \in Clients : d # c => pc[d] \notin {"merge", "pdf", "meta"}
    BY <2>1 DEF IInv, LockInv
  <2>4. ASSUME NEW d \in Clients PROVE Brings(pc'[d], job'[d], meta', pdf')
    <3>0. Brings(pc[d], job[d], meta, pdf)
      BY Zenon DEF RecordInv
    <3>1. CASE d = c
      BY <3>1, <2>2 DEF Brings
    <3>2. CASE d # c
      <4>1. "tag" \notin Ops
        BY <3>2 DEF TagsAlone
      <4> QED
        BY <3>0, <3>2, <4>1, <2>1, <2>2, <2>3 DEF Brings
    <3> QED
      BY <3>1, <3>2
  <2>5. Brings("meta", job[c], meta, pdf)
    BY <2>1, Zenon DEF RecordInv
  <2>6. RecordDescribesPdf'
    <3> SUFFICES ASSUME job[c].m.doiget # NoTable, ~orphan'
                 PROVE  job[c].m.doiget.size_bytes \in {0, pdf}
      BY <2>1 DEF RecordDescribesPdf, HasTable
    <3>1. CASE job[c].pdf # 0
      BY <3>1, <2>5 DEF Brings
    <3>2. CASE job[c].pdf = 0
      <4>1. ~orphan
        BY <3>2, <2>1
      <4>2. job[c].m.doiget.size_bytes = 0 \/ Records(meta, job[c].m.doiget.size_bytes)
        BY <3>2, <2>5 DEF Brings
      <4> QED
        BY <4>1, <4>2 DEF Records, RecordInv, RecordDescribesPdf, HasTable
    <3> QED
      BY <3>1, <3>2
  <2> QED
    BY <2>4, <2>6, Zenon DEF RecordInv
<1>9. ASSUME NEW c \in Clients, LockTimeout(c) \/ MergeRefused(c) \/ WriteErr(c) \/ Crash(c) PROVE RecordInv'
  <2>1. /\ pc' = [pc EXCEPT ![c] = "idle"] /\ job' = [job EXCEPT ![c] = NoJob] /\ meta' = meta
        /\ pdf' = pdf /\ orphan' = orphan
    BY <1>9 DEF LockTimeout, MergeRefused, WriteErr, Crash, Return
  <2>2. Brings("idle", NoJob, meta, pdf)
    BY DEF Brings
  <2> QED
    BY <2>1, <2>2, RecordFrame
<1>10. CASE NewerTool
  <2>1. /\ pc' = pc /\ job' = job /\ meta \in Metadata /\ meta # NoEntry /\ orphan' = orphan /\ pdf' = pdf
        /\ meta' = [meta EXCEPT !.schema = "newer"]
    BY <1>0, <1>10 DEF NewerTool
  <2>2. meta'.doiget = meta.doiget /\ meta' \in Metadata
    BY <2>1 DEF Metadata
  <2>3. meta' # NoEntry
    BY <2>2, EntryAssumption
  <2>4. ASSUME NEW d \in Clients PROVE Brings(pc'[d], job'[d], meta', pdf')
    <3>1. Brings(pc[d], job[d], meta, pdf)
      BY Zenon DEF RecordInv
    <3> QED
      BY <3>1, <2>1, <2>2, <2>3 DEF Brings, Records
  <2>5. RecordDescribesPdf'
    BY <2>1, <2>2, <2>3 DEF RecordInv, RecordDescribesPdf, HasTable
  <2> QED
    BY <2>4, <2>5, Zenon DEF RecordInv
<1>11. CASE UNCHANGED vars
  BY <1>11 DEF vars, RecordInv, RecordDescribesPdf, HasTable
<1> QED
  BY <1>1, <1>2, <1>3, <1>4, <1>5, <1>6, <1>7, <1>8, <1>9, <1>10, <1>11 DEF Next
----------------------------------------------------------------------------
(* The theorems.                                                           *)

\* The inductive invariant holds in every reachable state.
THEOREM Invariant == Spec => []IInv
BY InitIInv, NextIInv, PTL DEF Spec

\* Every variable keeps its type: in particular a writer past the lock always
\* holds a well-formed entry to publish.
THEOREM TypeCorrect == Spec => []TypeOK
<1>1. IInv => TypeOK
  BY DEF IInv
<1> QED
  BY <1>1, Invariant, PTL

\* write_with_impl never publishes a pointer to, or the size of, a PDF that is
\* not in the store, for any number of writers, crashes and I/O errors.
THEOREM NeverDangling == Spec => []NoDanglingPdf
<1>1. IInv => NoDanglingPdf
  BY DEF IInv, PointsInv, Points, NoDanglingPdf, HasTable
<1> QED
  BY <1>1, Invariant, PTL

\* No step of any writer makes the stored entry forget a reserved field, its
\* PDF pointer, its table, a determined license or OA status.
THEOREM ForgetsNothing == Spec => NothingForgotten
<1>1. IInv /\ [Next]_vars =>
        [meta # NoEntry => meta' # NoEntry /\ Keeps(meta, meta')]_vars
  BY StepKeeps
<1> QED
  BY <1>1, Invariant, PTL DEF Spec, NothingForgotten

\* An entry of a newer schema, and its PDF, are left as they are, even when
\* the schema moved between a writer's read and its write.
THEOREM NewerStaysReadOnly == Spec => NewerIsReadOnly
<1>1. IInv /\ [Next]_vars =>
        [meta # NoEntry /\ meta.schema = "newer" => UNCHANGED <<meta, pdf>>]_vars
  BY StepKeeps
<1> QED
  BY <1>1, Invariant, PTL DEF Spec, NewerIsReadOnly
\* Whoever writes, and however stale what it read: a table that says a field was
\* repaired goes with the repaired field (merge_metadata), as long as all records of
\* the work are about one title.
THEOREM RepairsAreApplied ==
  ASSUME OneTitle
  PROVE  Spec => []RepairedMeansApplied
<1>1. Init => RepairedInv
  BY DEF Init, RepairedInv, OneTitle
<1>2. IInv /\ RepairedInv /\ [Next]_vars => RepairedInv'
  BY RepairedStep
<1>3. RepairedInv => RepairedMeansApplied
  BY DEF RepairedInv, RepairedMeansApplied, HasTable, Sound
<1> QED
  BY <1>1, <1>2, <1>3, Invariant, PTL DEF Spec

\* The record of a PDF added by hand outlives every fetch and every other add that
\* does not put a PDF of its own in its place, for any number of writers and crashes
\* between the renames (UserPdfStays); a tag, which writes a copy back, must be alone.
THEOREM UserPdfStaysOnRecord ==
  ASSUME TagsAlone
  PROVE  Spec => UserPdfKept
<1>1. Init => UserInv
  BY DEF Init, UserInv
<1>2. IInv /\ UserInv /\ [Next]_vars => UserInv'
  BY UserStep
<1>3. IInv /\ UserInv /\ [Next]_vars =>
        [(HasTable /\ HasTableNext /\ ~orphan /\ meta.doiget.origin = "user-supplied") =>
           meta'.doiget.origin = "user-supplied"]_vars
  BY StepKeepsUser
<1> QED
  BY <1>1, <1>2, <1>3, Invariant, PTL DEF Spec, UserPdfKept

\* The table describes the PDF that is on disk, or none, for any number of fetches
\* and adds, whatever each had read before the other wrote, and crashes anywhere but
\* between a write's two renames (whose orphan the next write replaces); a tag, which
\* writes a copy back, must be alone.
THEOREM RecordFitsPdf ==
  ASSUME TagsAlone
  PROVE  Spec => []RecordDescribesPdf
<1>1. Init => RecordInv
  <2> SUFFICES ASSUME Init PROVE RecordInv
    OBVIOUS
  <2>1. \A c \in Clients : pc[c] = "idle"
    BY DEF Init
  <2>2. \A c \in Clients : Brings(pc[c], job[c], meta, pdf)
    BY <2>1 DEF Brings
  <2>3. meta = NoEntry \/ meta.doiget = NoTable
    BY EntryAssumption DEF Init
  <2> QED
    BY <2>2, <2>3 DEF RecordInv, RecordDescribesPdf, HasTable
<1>2. IInv /\ RecordInv /\ [Next]_vars => RecordInv'
  BY RecordStep
<1>3. RecordInv => RecordDescribesPdf
  BY DEF RecordInv
<1> QED
  BY <1>1, <1>2, <1>3, Invariant, PTL DEF Spec

\* A fetch or an add never changes the user's tags, however stale the tags it read
\* (MergeTags under Preserve): for any number of writers.
THEOREM TagsAreTheUsers == Spec => OnlyTagChangesTags
<1>1. Init => TagsInv
  BY DEF Init, TagsInv
<1>2. IInv /\ TagsInv /\ [Next]_vars => TagsInv'
  BY TagsStep
<1>3. IInv /\ TagsInv /\ [Next]_vars =>
        [(HasTable /\ HasTableNext /\ meta'.doiget.tags # meta.doiget.tags) =>
           \E c \in Clients : pc[c] = "meta" /\ job[c].kind = "tag"]_vars
  <2> SUFFICES ASSUME IInv, TagsInv, [Next]_vars, HasTable, HasTableNext, meta'.doiget.tags # meta.doiget.tags
               PROVE  \E c \in Clients : pc[c] = "meta" /\ job[c].kind = "tag"
    OBVIOUS
  <2>1. \/ meta' = meta
        \/ \E c \in Clients : RenameMeta(c)
        \/ NewerTool
    BY DEF Next, vars, FetchBegin, TagRead, AddCheck, AddRead, Lock, LockTimeout,
           Merge, MergeRefused, RenamePdf, WriteErr, Crash
  <2>2. ~NewerTool
    <3>1. meta \in Metadata
      BY DEF IInv, TypeOK, HasTable
    <3> QED
      BY <3>1 DEF NewerTool, Metadata
  <2>3. PICK c \in Clients : RenameMeta(c)
    BY <2>1, <2>2
  <2>4. pc[c] = "meta" /\ meta' = job[c].m
    BY <2>3 DEF RenameMeta
  <2> QED
    BY <2>4 DEF TagsInv
<1> QED
  BY <1>1, <1>2, <1>3, Invariant, PTL DEF Spec, OnlyTagChangesTags
=============================================================================
