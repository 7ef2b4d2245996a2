------------------------ MODULE ProvenanceLogProofs ------------------------
(***************************************************************************)
(* Proofs about ProvenanceLog for every number of threads, every rotation  *)
(* threshold and retention, and every bound.                               *)
(***************************************************************************)
EXTENDS ProvenanceLog, TLAPS

\* One process at a time uses the log, and the disk shows no fault other than
\* a write cut short by the death of the process before the row is complete.
OneProcess == \A p, q \in Procs : p = q
CleanDisk == Faults \subseteq {"crash_part"}

\* What the file looks like when nothing went wrong: row i has sequence i and
\* the digest of row i - 1.
Chained(lines) ==
  \A i \in 1..Len(lines) :
    /\ lines[i] \in LogRow
    /\ lines[i].ts_seq = i
    /\ lines[i].prev_hash = IF i = 1 THEN GENESIS ELSE lines[i-1].this_hash

\* A thread inside append holds the mutex of its process, which is open.
MutexInv ==
  \A t \in Threads : pc[t] # "idle" =>
    isOpen[ProcOf[t]] /\ holder[ProcOf[t]] = t
HolderInv ==
  \A p \in Procs : holder[p] # NoThread =>
    ProcOf[holder[p]] = p /\ pc[holder[p]] # "idle"

ChainInv ==
  /\ Chained(WholeLines)
  /\ ~eol => log # <<>> /\ log[Len(log)] = Garbage
  /\ \A s \in segs : Chained(s.lines)

\* An open process has a file without a torn tail and the chain state of its
\* last row, except between the write of a row and its commit.
MemInv ==
  \A p \in Procs : isOpen[p] =>
    /\ eol
    /\ (\A t \in Threads : ProcOf[t] = p => pc[t] # "sync") =>
          mem[p] = RecoverState(log)
SyncInv ==
  \A t \in Threads : pc[t] = "sync" => log # <<>> /\ row[t] = log[Len(log)]

\* Rotation: who is past the size check, and what the segments hold.
RotateInv ==
  /\ \A t \in Threads :
       /\ pc[t] \in {"gz", "unlink"} => RotateAt > 0 /\ Len(log) >= RotateAt
       /\ pc[t] = "write" /\ RotateAt > 0 => Len(log) < RotateAt
       /\ pc[t] = "unlink" => \E s \in segs : s.lines = log
  /\ inSec <= MaxPerSec
  /\ \A s \in segs :
       /\ RotateAt > 0 /\ Len(s.lines) >= RotateAt
       /\ s.at <= now
       /\ s.at = now => s.lines = log \/ Len(log) <= inSec

IInv ==
  /\ TypeOK /\ MutexInv /\ HolderInv /\ ChainInv /\ MemInv /\ SyncInv
  /\ RotateInv /\ AckedReadable
----------------------------------------------------------------------------
(* Type correctness, for any number of processes and any faults.           *)

\* A line is a row, or it does not parse.
LEMMA LineFacts ==
  ASSUME NEW l \in Line
  PROVE  /\ l.this_hash \in Nat /\ l.ts_seq \in Nat
         /\ IsRow(l) <=> l \in LogRow
<1>1. CASE l \in LogRow
  BY <1>1 DEF LogRow, LogEvent, IsRow
<1>2. CASE l = Garbage
  BY <1>2 DEF Garbage, LogRow, LogEvent, IsRow
<1> QED
  BY <1>1, <1>2 DEF Line

\* A row built from well-typed state is a log row.
LEMMA NewRowType ==
  ASSUME TypeOK, NEW t \in Threads, NEW event \in LogEvent
  PROVE  NewRow(t, event) \in LogRow
BY ProcAssumption DEF TypeOK, NewRow, LogRow, LogState

\* Appending bytes to a sequence of lines gives a sequence of lines.
LEMMA PutBytesType ==
  ASSUME TypeOK, NEW r \in LogRow, NEW cut
  PROVE  PutBytes(r, cut) \in Seq(Line)
<1>1. r \in Line /\ Garbage \in Line
  BY DEF Line
<1>2. SubSeq(log, 1, Len(log) - 1) \in Seq(Line)
  BY DEF TypeOK
<1> QED
  BY <1>1, <1>2 DEF PutBytes, TypeOK

\* The state recovered from lines that all parse is a chain state.
LEMMA RecoverType ==
  ASSUME NEW lines \in Seq(Line), Parses(lines)
  PROVE  RecoverState(lines) \in LogState
<1>1. CASE lines = <<>>
  BY <1>1 DEF RecoverState, FreshState, LogState, GENESIS
<1>2. CASE lines # <<>>
  <2>1. Len(lines) \in 1..Len(lines)
    BY <1>2
  <2>2. lines[Len(lines)] \in Line /\ IsRow(lines[Len(lines)])
    BY <2>1 DEF Parses
  <2>3. lines[Len(lines)] \in LogRow
    BY <2>2, LineFacts
  <2>4. /\ lines[Len(lines)].ts_seq + 1 \in Nat \ {0}
        /\ lines[Len(lines)].this_hash \in Nat
    BY <2>3 DEF LogRow
  <2> QED
    BY <1>2, <2>4 DEF RecoverState, LogState
<1> QED
  BY <1>1, <1>2

\* Digests are numbers.
LEMMA DigestsType ==
  ASSUME NEW lines \in Seq(Line)
  PROVE  Digests(lines) \subseteq Nat
<1>1. \A i \in 1..Len(lines) : lines[i] \in Line
  OBVIOUS
<1> QED
  BY <1>1, LineFacts DEF Digests

\* What is pruned is past its retention.
LEMMA OpenPrunes ==
  ASSUME NEW p, Open(p)
  PROVE  \E gone \in SUBSET Aged : Prune(gone)
BY DEF Open, Prunable

\* So is what an interrupted prune has deleted.
LEMMA KillPrunes ==
  ASSUME NEW p, KillPruning(p)
  PROVE  \E gone \in SUBSET Aged : Prune(gone)
BY DEF KillPruning, OldestAged

\* Pruning keeps the types.
LEMMA PruneType ==
  ASSUME TypeOK, \E gone \in SUBSET Aged : Prune(gone)
  PROVE  segs' \subseteq [at : Nat, lines : Seq(Line)] /\ retired' \subseteq Nat
<1>1. PICK gone \in SUBSET Aged : Prune(gone)
  OBVIOUS
<1>2. \A s \in gone : Digests(s.lines) \subseteq Nat
  BY DigestsType DEF Aged, TypeOK
<1>3. UNION {Digests(s.lines) : s \in gone} \subseteq Nat
  BY <1>2
<1> QED
  BY <1>1, <1>3 DEF Prune, TypeOK

\* Leaving append keeps the types.
LEMMA ReturnType ==
  ASSUME TypeOK, NEW t \in Threads, Return(t)
  PROVE  /\ pc' \in [Threads -> {"idle", "gz", "unlink", "write", "sync"}]
         /\ row' \in [Threads -> Line]
         /\ holder' \in [Procs -> Threads \cup {NoThread}]
<1>1. Garbage \in Line
  BY DEF Line
<1>2. pc' \in [Threads -> {"idle", "gz", "unlink", "write", "sync"}]
  BY DEF Return, TypeOK
<1>3. row' \in [Threads -> Line]
  BY <1>1 DEF Return, TypeOK
<1>4. holder' \in [Procs -> Threads \cup {NoThread}]
  BY DEF Return, TypeOK
<1> QED
  BY <1>2, <1>3, <1>4

\* Every reachable state is well typed.
THEOREM TypeCorrect == Spec => []TypeOK
<1>1. Init => TypeOK
  BY DEF Init, TypeOK, FreshState, LogState, GENESIS, Line
<1>2. TypeOK /\ [Next]_vars => TypeOK'
  <2> SUFFICES ASSUME TypeOK, [Next]_vars PROVE TypeOK'
    OBVIOUS
  <2> USE ProcAssumption, BoundAssumption
  <2> Garbage \in Line /\ FreshState \in LogState
    BY DEF Line, FreshState, LogState, GENESIS
  <2>1. ASSUME NEW p \in Procs, Open(p) PROVE TypeOK'
    <3>1. RecoverState(log) \in LogState
      BY <2>1, RecoverType DEF Open, TypeOK
    <3>2. segs' \subseteq [at : Nat, lines : Seq(Line)] /\ retired' \subseteq Nat
      BY <2>1, OpenPrunes, PruneType
    <3> QED
      BY <2>1, <3>1, <3>2 DEF Open, TypeOK
  <2>12. ASSUME NEW p \in Procs, KillPruning(p) PROVE TypeOK'
    <3>1. segs' \subseteq [at : Nat, lines : Seq(Line)] /\ retired' \subseteq Nat
      BY <2>12, KillPrunes, PruneType
    <3> QED
      BY <2>12, <3>1 DEF KillPruning, TypeOK
  <2>2. ASSUME NEW p \in Procs, Crash(p) PROVE TypeOK'
    BY <2>2 DEF Crash, Die, TypeOK
  <2>3. ASSUME NEW t \in Threads, Enter(t) PROVE TypeOK'
    BY <2>3 DEF Enter, TypeOK
  <2>4. ASSUME NEW t \in Threads, RotateGz(t) PROVE TypeOK'
    BY <2>4 DEF RotateGz, TypeOK
  <2>5. ASSUME NEW t \in Threads, RotateUnlink(t) PROVE TypeOK'
    BY <2>5 DEF RotateUnlink, TypeOK
  <2>6. ASSUME NEW t \in Threads, RotateErr(t) \/ WriteErr(t) \/ SyncErr(t)
        PROVE TypeOK'
    BY <2>6, ReturnType DEF RotateErr, WriteErr, SyncErr, TypeOK
  <2>7. ASSUME NEW t \in Threads, NEW event \in LogEvent, WriteRow(t, event)
        PROVE TypeOK'
    <3>1. NewRow(t, event) \in LogRow /\ NewRow(t, event) \in Line
      BY NewRowType DEF Line
    <3>2. PutBytes(NewRow(t, event), "full") \in Seq(Line)
      BY <3>1, PutBytesType
    <3> QED
      BY <2>7, <3>1, <3>2 DEF WriteRow, CanBuild, TypeOK
  <2>8. ASSUME NEW t \in Threads, Commit(t) PROVE TypeOK'
    <3>1. row[t].this_hash \in Nat /\ row[t].ts_seq \in Nat
      BY LineFacts DEF TypeOK
    <3>2. mem' \in [Procs -> LogState]
      BY <2>8, <3>1 DEF Commit, TypeOK, LogState
    <3>3. observed' \in [Procs -> SUBSET Nat] /\ acked' \subseteq Nat
      BY <2>8, <3>1 DEF Commit, TypeOK
    <3> QED
      BY <2>8, <3>2, <3>3, ReturnType DEF Commit, TypeOK
  <2>9. ASSUME NEW t \in Threads, NEW cut \in {"part", "nonl"},
               WriteErrTorn(t, cut) \/ CrashTorn(t, cut)
        PROVE TypeOK'
    <3>1. NewRow(t, "other") \in LogRow
      BY NewRowType DEF LogEvent
    <3>2. PutBytes(NewRow(t, "other"), cut) \in Seq(Line)
      BY <3>1, PutBytesType
    <3>3. log' \in Seq(Line) /\ eol' \in BOOLEAN
      BY <2>9, <3>2 DEF WriteErrTorn, CrashTorn
    <3>4. minted' \in Nat /\ inSec' \in Nat
      BY <2>9 DEF WriteErrTorn, CrashTorn, TypeOK
    <3>5. CASE WriteErrTorn(t, cut)
      <4>1. Return(t) /\ UNCHANGED <<segs, isOpen, mem, observed, now, crashes,
                                    acked, retired>>
        BY <3>5 DEF WriteErrTorn
      <4> QED
        BY <3>3, <3>4, <4>1, ReturnType DEF TypeOK
    <3>6. CASE CrashTorn(t, cut)
      <4>1. Die(ProcOf[t]) /\ UNCHANGED <<segs, now, acked, retired>>
        BY <3>6 DEF CrashTorn
      <4> QED
        BY <3>3, <3>4, <4>1 DEF Die, TypeOK
    <3> QED
      BY <2>9, <3>5, <3>6
  <2>10. CASE Tick
    BY <2>10 DEF Tick, TypeOK
  <2>11. CASE UNCHANGED vars
    BY <2>11 DEF vars, TypeOK
  <2> QED
    BY <2>1, <2>2, <2>3, <2>4, <2>5, <2>6, <2>7, <2>8, <2>9, <2>10, <2>11, <2>12
       DEF Next
<1> QED
  BY <1>1, <1>2, PTL DEF Spec
----------------------------------------------------------------------------
(* Facts about sequences of lines.                                         *)

\* Dropping the line just appended gives the lines there were before.
LEMMA FrontOfAppend ==
  ASSUME NEW lines \in Seq(Line), NEW l \in Line
  PROVE  /\ SubSeq(Append(lines, l), 1, Len(Append(lines, l)) - 1) = lines
         /\ Append(lines, l) # <<>>
         /\ Append(lines, l)[Len(Append(lines, l))] = l
<1> DEFINE a == Append(lines, l)
<1>1. a \in Seq(Line) /\ Len(a) = Len(lines) + 1
  OBVIOUS
<1>2. a[Len(a)] = l /\ a # <<>>
  BY <1>1
<1>3. SubSeq(a, 1, Len(a) - 1) \in Seq(Line) /\ Len(SubSeq(a, 1, Len(a) - 1)) = Len(lines)
  BY <1>1
<1>4. \A i \in 1..Len(lines) : SubSeq(a, 1, Len(a) - 1)[i] = lines[i]
  BY <1>1
<1> QED
  BY <1>2, <1>3, <1>4

\* verify accepts a chained file.
LEMMA ChainedVerifies ==
  ASSUME NEW lines \in Seq(Line), Chained(lines)
  PROVE  Verifies(lines)
<1> SUFFICES ASSUME NEW i \in 1..Len(lines) PROVE LineVerifies(lines, i)
  BY DEF Verifies
<1>1. \A j \in 1..Len(lines) : lines[j] \in LogRow /\ IsRow(lines[j])
  BY DEF Chained, IsRow, LogRow, LogEvent
<1>2. IsRow(lines[i])
  BY <1>1
<1>3. ASSUME \A j \in 1..(i - 1) : ~IsRow(lines[j])
      PROVE  lines[i].prev_hash = GENESIS
  <2>1. i = 1
    <3> SUFFICES ASSUME i # 1 PROVE FALSE
      OBVIOUS
    <3>1. i - 1 \in 1..(i - 1) /\ i - 1 \in 1..Len(lines)
      OBVIOUS
    <3> QED
      BY <1>1, <1>3, <3>1
  <2> QED
    BY <2>1 DEF Chained
<1>4. ASSUME NEW j \in 1..(i - 1), IsAnchor(lines, j, i)
      PROVE  /\ lines[i].prev_hash = lines[j].this_hash
             /\ lines[i].ts_seq > lines[j].ts_seq
  <2>1. j = i - 1
    <3> SUFFICES ASSUME j # i - 1 PROVE FALSE
      OBVIOUS
    <3>1. i - 1 \in (j + 1)..(i - 1) /\ i - 1 \in 1..Len(lines)
      OBVIOUS
    <3>2. ~IsRow(lines[i - 1])
      BY <1>4, <3>1 DEF IsAnchor
    <3> QED
      BY <1>1, <3>1, <3>2
  <2>2. lines[i].prev_hash = lines[j].this_hash
    BY <2>1 DEF Chained
  <2>3. lines[i].ts_seq = i /\ lines[j].ts_seq = j
    BY <2>1 DEF Chained
  <2> QED
    BY <2>1, <2>2, <2>3
<1> QED
  BY <1>2, <1>3, <1>4 DEF LineVerifies

\* A row built from the recovered state extends the chain.
LEMMA ChainedAppend ==
  ASSUME NEW lines \in Seq(Line), Chained(lines), NEW r \in LogRow,
         r.ts_seq = RecoverState(lines).next_seq,
         r.prev_hash = RecoverState(lines).last_hash
  PROVE  Chained(Append(lines, r))
<1> DEFINE a == Append(lines, r)
<1>1. r \in Line /\ Len(lines) \in Nat
  BY DEF Line
<1>2. a \in Seq(Line) /\ Len(a) = Len(lines) + 1
  BY <1>1
<1>3. (\A i \in 1..Len(lines) : a[i] = lines[i]) /\ a[Len(lines) + 1] = r
  BY <1>1
<1>4. /\ r.ts_seq = Len(lines) + 1
      /\ r.prev_hash = IF Len(lines) = 0 THEN GENESIS ELSE lines[Len(lines)].this_hash
  <2>1. CASE lines = <<>>
    BY <2>1 DEF RecoverState, FreshState
  <2>2. CASE lines # <<>>
    <3>1. Len(lines) \in 1..Len(lines) /\ Len(lines) # 0
      BY <2>2
    <3>2. lines[Len(lines)].ts_seq = Len(lines)
      BY <3>1 DEF Chained
    <3> QED
      BY <2>2, <3>1, <3>2 DEF RecoverState
  <2> QED
    BY <2>1, <2>2
<1> SUFFICES ASSUME NEW i \in 1..Len(a)
             PROVE  /\ a[i] \in LogRow
                    /\ a[i].ts_seq = i
                    /\ a[i].prev_hash = IF i = 1 THEN GENESIS ELSE a[i-1].this_hash
  BY DEF Chained
<1>5. CASE i \in 1..Len(lines)
  <2>1. i # 1 => i - 1 \in 1..Len(lines)
    BY <1>5
  <2> QED
    BY <1>3, <1>5, <2>1 DEF Chained
<1>6. CASE i = Len(lines) + 1
  <2>1. i # 1 => Len(lines) \in 1..Len(lines) /\ Len(lines) # 0
    BY <1>1, <1>6
  <2>2. i # 1 => a[i-1] = lines[Len(lines)]
    BY <1>1, <1>3, <1>6, <2>1
  <2> QED
    BY <1>1, <1>3, <1>4, <1>6, <2>1, <2>2
<1> QED
  BY <1>1, <1>2, <1>5, <1>6

\* Appending keeps the digests that were there and adds the row's own.
LEMMA DigestsAppend ==
  ASSUME NEW lines \in Seq(Line), NEW l \in Line
  PROVE  /\ Digests(lines) \subseteq Digests(Append(lines, l))
         /\ IsRow(l) => l.this_hash \in Digests(Append(lines, l))
<1>1. /\ Len(Append(lines, l)) = Len(lines) + 1 /\ Len(lines) \in Nat
      /\ \A i \in 1..Len(lines) : Append(lines, l)[i] = lines[i]
      /\ Append(lines, l)[Len(lines) + 1] = l
  OBVIOUS
<1>2. Digests(lines) \subseteq Digests(Append(lines, l))
  <2> SUFFICES ASSUME NEW i \in 1..Len(lines), IsRow(lines[i])
               PROVE  lines[i].this_hash \in Digests(Append(lines, l))
    BY DEF Digests
  <2>1. i \in 1..Len(Append(lines, l)) /\ Append(lines, l)[i] = lines[i]
    BY <1>1
  <2> QED
    BY <2>1 DEF Digests
<1>3. ASSUME IsRow(l) PROVE l.this_hash \in Digests(Append(lines, l))
  <2>1. Len(lines) + 1 \in 1..Len(Append(lines, l))
    BY <1>1
  <2> QED
    BY <1>1, <1>3, <2>1 DEF Digests
<1> QED
  BY <1>2, <1>3
----------------------------------------------------------------------------
(* The mutex, for any number of processes and any faults.                  *)

\* Leaving append with the mutex keeps the holders and the threads inside
\* append in agreement.
LEMMA MutexReturn ==
  ASSUME TypeOK, MutexInv, HolderInv, NEW t \in Threads, pc[t] # "idle",
         Return(t), UNCHANGED isOpen
  PROVE  MutexInv' /\ HolderInv'
<1>1. ProcOf[t] \in Procs /\ holder[ProcOf[t]] = t
  BY ProcAssumption DEF MutexInv
<1>2. ASSUME NEW u \in Threads, pc'[u] # "idle"
      PROVE  isOpen'[ProcOf[u]] /\ holder'[ProcOf[u]] = u
  <2>1. u # t /\ pc[u] # "idle"
    BY <1>2 DEF Return, TypeOK
  <2>2. isOpen[ProcOf[u]] /\ holder[ProcOf[u]] = u /\ ProcOf[u] \in Procs
    BY <2>1, ProcAssumption DEF MutexInv
  <2>3. ProcOf[u] # ProcOf[t]
    BY <1>1, <2>1, <2>2
  <2> QED
    BY <2>2, <2>3 DEF Return, TypeOK
<1>3. ASSUME NEW p \in Procs, holder'[p] # NoThread
      PROVE  ProcOf[holder'[p]] = p /\ pc'[holder'[p]] # "idle"
  <2>1. p # ProcOf[t] /\ holder'[p] = holder[p]
    BY <1>1, <1>3 DEF Return, TypeOK
  <2>2. ProcOf[holder[p]] = p /\ pc[holder[p]] # "idle" /\ holder[p] \in Threads
    BY <1>3, <2>1 DEF HolderInv, TypeOK
  <2>3. holder[p] # t
    BY <2>1, <2>2
  <2> QED
    BY <2>1, <2>2, <2>3 DEF Return, TypeOK
<1> QED
  BY <1>2, <1>3 DEF MutexInv, HolderInv

\* Moving on inside append keeps them in agreement.
LEMMA MutexMove ==
  ASSUME TypeOK, MutexInv, HolderInv, NEW t \in Threads, pc[t] # "idle",
         NEW l \in {"gz", "unlink", "write", "sync"},
         pc' = [pc EXCEPT ![t] = l], UNCHANGED <<isOpen, holder>>
  PROVE  MutexInv' /\ HolderInv'
<1>1. \A u \in Threads : pc'[u] # "idle" <=> pc[u] # "idle"
  BY DEF TypeOK
<1>2. \A p \in Procs : holder[p] # NoThread => holder[p] \in Threads
  BY DEF TypeOK
<1> QED
  BY <1>1, <1>2 DEF MutexInv, HolderInv

\* The death of a process frees its mutex and its threads only.
LEMMA MutexDie ==
  ASSUME TypeOK, MutexInv, HolderInv, NEW p \in Procs, Die(p)
  PROVE  MutexInv' /\ HolderInv'
<1>1. ASSUME NEW u \in Threads, pc'[u] # "idle"
      PROVE  isOpen'[ProcOf[u]] /\ holder'[ProcOf[u]] = u
  <2>1. ProcOf[u] # p /\ pc[u] # "idle" /\ ProcOf[u] \in Procs
    BY <1>1, ProcAssumption DEF Die
  <2> QED
    BY <2>1 DEF Die, MutexInv, TypeOK
<1>2. ASSUME NEW q \in Procs, holder'[q] # NoThread
      PROVE  ProcOf[holder'[q]] = q /\ pc'[holder'[q]] # "idle"
  <2>1. q # p /\ holder'[q] = holder[q] /\ holder[q] \in Threads
    BY <1>2 DEF Die, TypeOK
  <2> QED
    BY <2>1, <1>2 DEF Die, HolderInv
<1> QED
  BY <1>1, <1>2 DEF MutexInv, HolderInv

\* Every step of the log keeps the mutex exclusive.
LEMMA MutexStep ==
  ASSUME TypeOK, MutexInv, HolderInv, [Next]_vars
  PROVE  MutexInv' /\ HolderInv'
<1>1. ASSUME NEW p \in Procs, Open(p) PROVE MutexInv' /\ HolderInv'
  BY <1>1, ProcAssumption DEF Open, MutexInv, HolderInv, TypeOK
<1>11. ASSUME NEW p \in Procs, KillPruning(p) PROVE MutexInv' /\ HolderInv'
  BY <1>11 DEF KillPruning, MutexInv, HolderInv
<1>2. ASSUME NEW p \in Procs, Crash(p) PROVE MutexInv' /\ HolderInv'
  BY <1>2, MutexDie DEF Crash
<1>3. ASSUME NEW t \in Threads, Enter(t) PROVE MutexInv' /\ HolderInv'
  <2>1. ProcOf[t] \in Procs /\ isOpen[ProcOf[t]] /\ holder[ProcOf[t]] = NoThread
    BY <1>3, ProcAssumption DEF Enter
  <2>2. /\ holder' = [holder EXCEPT ![ProcOf[t]] = t]
        /\ pc'[t] # "idle" /\ \A u \in Threads : u # t => pc'[u] = pc[u]
        /\ isOpen' = isOpen
    BY <1>3 DEF Enter, TypeOK
  <2>3. ASSUME NEW u \in Threads, pc'[u] # "idle"
        PROVE  isOpen'[ProcOf[u]] /\ holder'[ProcOf[u]] = u
    <3>1. CASE u = t
      BY <3>1, <2>1, <2>2 DEF TypeOK
    <3>2. CASE u # t
      <4>1. isOpen[ProcOf[u]] /\ holder[ProcOf[u]] = u /\ ProcOf[u] \in Procs
        BY <3>2, <2>2, <2>3, ProcAssumption DEF MutexInv
      <4>2. ProcOf[u] # ProcOf[t]
        BY <4>1, <2>1, ProcAssumption
      <4> QED
        BY <4>1, <4>2, <2>2 DEF TypeOK
    <3> QED
      BY <3>1, <3>2
  <2>4. ASSUME NEW p \in Procs, holder'[p] # NoThread
        PROVE  ProcOf[holder'[p]] = p /\ pc'[holder'[p]] # "idle"
    <3>1. CASE p = ProcOf[t]
      BY <3>1, <2>2 DEF TypeOK
    <3>2. CASE p # ProcOf[t]
      <4>1. holder'[p] = holder[p] /\ holder[p] \in Threads
        BY <3>2, <2>2, <2>4 DEF TypeOK
      <4>2. ProcOf[holder[p]] = p /\ pc[holder[p]] # "idle"
        BY <4>1, <2>4 DEF HolderInv
      <4> QED
        BY <4>1, <4>2, <3>2, <2>2
    <3> QED
      BY <3>1, <3>2
  <2> QED
    BY <2>3, <2>4 DEF MutexInv, HolderInv
<1>4. ASSUME NEW t \in Threads, RotateGz(t) \/ RotateUnlink(t)
      PROVE  MutexInv' /\ HolderInv'
  BY <1>4, MutexMove DEF RotateGz, RotateUnlink
<1>5. ASSUME NEW t \in Threads, RotateErr(t) \/ WriteErr(t) \/ SyncErr(t) \/ Commit(t)
      PROVE  MutexInv' /\ HolderInv'
  <2>1. pc[t] # "idle" /\ Return(t) /\ UNCHANGED isOpen
    BY <1>5 DEF RotateErr, WriteErr, SyncErr, Commit
  <2> QED
    BY <2>1, MutexReturn
<1>6. ASSUME NEW t \in Threads, NEW event \in LogEvent, WriteRow(t, event)
      PROVE  MutexInv' /\ HolderInv'
  <2>1. pc[t] # "idle" /\ pc' = [pc EXCEPT ![t] = "sync"] /\ UNCHANGED <<isOpen, holder>>
    BY <1>6 DEF WriteRow
  <2> QED
    BY <2>1, MutexMove
<1>7. ASSUME NEW t \in Threads, NEW cut \in {"part", "nonl"}, WriteErrTorn(t, cut)
      PROVE  MutexInv' /\ HolderInv'
  <2>1. pc[t] # "idle" /\ Return(t) /\ UNCHANGED isOpen
    BY <1>7 DEF WriteErrTorn
  <2> QED
    BY <2>1, MutexReturn
<1>8. ASSUME NEW t \in Threads, NEW cut \in {"part", "nonl"}, CrashTorn(t, cut)
      PROVE  MutexInv' /\ HolderInv'
  <2>1. Die(ProcOf[t]) /\ ProcOf[t] \in Procs
    BY <1>8, ProcAssumption DEF CrashTorn
  <2> QED
    BY <2>1, MutexDie
<1>9. CASE Tick
  BY <1>9 DEF Tick, MutexInv, HolderInv
<1>10. CASE UNCHANGED vars
  BY <1>10 DEF vars, MutexInv, HolderInv
<1> QED
  BY <1>1, <1>2, <1>3, <1>4, <1>5, <1>6, <1>7, <1>8, <1>9, <1>10, <1>11 DEF Next
----------------------------------------------------------------------------
(* One process, a clean disk: the inductive invariant.                     *)

\* Where an acknowledged row is, row by row.
LEMMA AckedDef ==
  AckedReadable <=>
    \A d \in acked : \/ d \in Digests(log)
                     \/ \E s \in segs : d \in Digests(s.lines)
                     \/ d \in retired
BY DEF AckedReadable, OnDisk

\* At most one thread is inside append.
LEMMA Exclusive ==
  ASSUME OneProcess, MutexInv, NEW t \in Threads, NEW u \in Threads,
         pc[t] # "idle", pc[u] # "idle"
  PROVE  t = u
<1>1. ProcOf[t] = ProcOf[u]
  BY ProcAssumption DEF OneProcess
<1> QED
  BY <1>1 DEF MutexInv

\* While no process has the log open, no thread is inside append.
LEMMA ClosedIdle ==
  ASSUME OneProcess, MutexInv, NEW p \in Procs, ~isOpen[p], NEW t \in Threads
  PROVE  pc[t] = "idle"
BY ProcAssumption DEF OneProcess, MutexInv

\* A step that leaves the disk alone and takes no thread further keeps the
\* invariant, whatever it does to memory it has to justify.
LEMMA QuietStep ==
  ASSUME IInv, MutexInv', TypeOK', HolderInv',
         UNCHANGED <<log, eol, segs, now, inSec, retired>>,
         acked' = acked,
         \A t \in Threads : pc'[t] = pc[t] \/ pc'[t] = "idle",
         \A t \in Threads : pc'[t] = "sync" => row'[t] = row[t],
         MemInv'
  PROVE  IInv'
<1>1. ChainInv'
  BY DEF IInv, ChainInv, WholeLines
<1>2. SyncInv'
  BY DEF IInv, SyncInv
<1>3. RotateInv'
  BY DEF IInv, RotateInv
<1>4. AckedReadable'
  BY DEF IInv, AckedReadable, OnDisk
<1> QED
  BY <1>1, <1>2, <1>3, <1>4 DEF IInv

\* Pruning forgets no segment that retention does not retire, complete or not.
LEMMA PruneStep ==
  ASSUME OneProcess, IInv, NEW p \in Procs, ~isOpen[p], NEW gone \in SUBSET Aged, Prune(gone),
         UNCHANGED <<log, eol, pc, row, now, inSec, acked>>
  PROVE  ChainInv' /\ SyncInv' /\ RotateInv' /\ AckedReadable'
<1>1. \A t \in Threads : pc[t] = "idle"
  BY ClosedIdle DEF IInv
<1>2. segs' = segs \ gone /\ retired' = retired \cup UNION {Digests(s.lines) : s \in gone}
  BY DEF Prune
<1>3. ChainInv'
  BY <1>2 DEF IInv, ChainInv, WholeLines
<1>4. SyncInv'
  BY <1>1 DEF SyncInv
<1>5. RotateInv'
  BY <1>1, <1>2 DEF IInv, RotateInv
<1>6. AckedReadable'
  <2> SUFFICES ASSUME NEW d \in acked'
               PROVE  \/ d \in Digests(log')
                      \/ \E s \in segs' : d \in Digests(s.lines)
                      \/ d \in retired'
    BY DEF AckedReadable, OnDisk
  <2>1. \/ d \in Digests(log)
        \/ \E s \in segs : d \in Digests(s.lines)
        \/ d \in retired
    BY AckedDef DEF IInv
  <2>2. ASSUME NEW s \in segs, d \in Digests(s.lines), s \in gone
        PROVE  d \in retired'
    BY <1>2, <2>2
  <2>3. \A s \in segs : s \in gone \/ s \in segs'
    BY <1>2
  <2>4. retired \subseteq retired'
    BY <1>2
  <2> QED
    BY <2>1, <2>2, <2>3, <2>4
<1> QED
  BY <1>3, <1>4, <1>5, <1>6

\* open recovers exactly the state of the last row.
LEMMA OpenStep ==
  ASSUME OneProcess, IInv, TypeOK', MutexInv', HolderInv', NEW p \in Procs, Open(p)
  PROVE  IInv'
<1>1. ~isOpen[p] /\ UNCHANGED <<log, eol, pc, row, now, inSec, acked>>
  BY DEF Open
<1>2. PICK gone \in SUBSET Aged : Prune(gone)
  BY OpenPrunes
<1>3. ChainInv' /\ SyncInv' /\ RotateInv' /\ AckedReadable'
  BY <1>1, <1>2, PruneStep
<1>4. eol
  <2> SUFFICES ASSUME ~eol PROVE FALSE
    OBVIOUS
  <2>1. log # <<>> /\ log[Len(log)] = Garbage
    BY DEF IInv, ChainInv
  <2>2. Len(log) \in 1..Len(log)
    BY <2>1 DEF IInv, TypeOK
  <2> QED
    BY <2>1, <2>2 DEF Open, Parses, IsRow, Garbage
<1>5. MemInv'
  <2> SUFFICES ASSUME NEW q \in Procs PROVE mem'[q] = RecoverState(log) /\ eol'
    BY <1>1 DEF MemInv
  <2>1. q = p
    BY DEF OneProcess
  <2> QED
    BY <1>1, <1>4, <2>1 DEF Open, IInv, TypeOK
<1> QED
  BY <1>3, <1>5 DEF IInv

\* A process killed while it prunes leaves memory and file alone.
LEMMA KillStep ==
  ASSUME OneProcess, IInv, TypeOK', MutexInv', HolderInv', NEW p \in Procs, KillPruning(p)
  PROVE  IInv'
<1>1. ~isOpen[p] /\ UNCHANGED <<log, eol, isOpen, mem, pc, row, now, inSec, acked>>
  BY DEF KillPruning
<1>2. PICK gone \in SUBSET Aged : Prune(gone)
  BY KillPrunes
<1>3. ChainInv' /\ SyncInv' /\ RotateInv' /\ AckedReadable'
  BY <1>1, <1>2, PruneStep
<1>4. MemInv'
  BY <1>1 DEF IInv, MemInv
<1> QED
  BY <1>3, <1>4 DEF IInv

\* Taking the mutex and reading the size changes nothing on disk.
LEMMA EnterStep ==
  ASSUME OneProcess, IInv, TypeOK', MutexInv', HolderInv', NEW t \in Threads, Enter(t)
  PROVE  IInv'
<1>0. /\ UNCHANGED <<log, eol, segs, isOpen, mem, row, now, inSec, acked, retired>>
      /\ pc' = [pc EXCEPT ![t] = IF RotateAt > 0 /\ Len(log) >= RotateAt
                                 THEN "gz" ELSE "write"]
      /\ pc[t] = "idle"
  BY DEF Enter
<1>1. pc'[t] \in {"gz", "write"} /\ \A u \in Threads : u # t => pc'[u] = pc[u]
  BY <1>0 DEF IInv, TypeOK
<1>2. ChainInv'
  BY <1>0 DEF IInv, ChainInv, WholeLines
<1>3. \A u \in Threads : pc'[u] = "sync" <=> pc[u] = "sync"
  BY <1>0, <1>1
<1>4. MemInv'
  BY <1>0, <1>3 DEF IInv, MemInv
<1>5. SyncInv'
  BY <1>0, <1>3 DEF IInv, SyncInv
<1>6. RotateInv'
  <2>1. ASSUME NEW u \in Threads
        PROVE /\ pc'[u] \in {"gz", "unlink"} => RotateAt > 0 /\ Len(log) >= RotateAt
              /\ pc'[u] = "write" /\ RotateAt > 0 => Len(log) < RotateAt
              /\ pc'[u] = "unlink" => \E s \in segs : s.lines = log
    <3>1. CASE u = t
      BY <1>0, <1>1, <3>1, BoundAssumption DEF IInv, TypeOK
    <3>2. CASE u # t
      BY <1>1, <3>2 DEF IInv, RotateInv
    <3> QED
      BY <3>1, <3>2
  <2> QED
    BY <1>0, <2>1 DEF IInv, RotateInv
<1>7. AckedReadable'
  BY <1>0 DEF IInv, AckedReadable, OnDisk
<1> QED
  BY <1>2, <1>4, <1>5, <1>6, <1>7 DEF IInv

\* An error return that leaves the files alone.
LEMMA ErrStep ==
  ASSUME OneProcess, IInv, TypeOK', MutexInv', HolderInv', NEW t \in Threads,
         RotateErr(t) \/ WriteErr(t)
  PROVE  IInv'
<1>1. /\ Return(t) /\ pc[t] # "idle" /\ pc[t] # "sync"
      /\ UNCHANGED <<log, eol, segs, isOpen, mem, now, inSec, acked, retired>>
  BY DEF RotateErr, WriteErr
<1>2. \A u \in Threads : pc'[u] = pc[u] \/ pc'[u] = "idle"
  BY <1>1 DEF Return, IInv, TypeOK
<1>3. \A u \in Threads : u # t => row'[u] = row[u]
  BY <1>1 DEF Return, IInv, TypeOK
<1>4. pc'[t] = "idle"
  BY <1>1 DEF Return, IInv, TypeOK
<1>5. \A u \in Threads : pc[u] # "sync" /\ pc'[u] # "sync"
  BY <1>1, <1>2, Exclusive DEF IInv
<1>6. MemInv'
  BY <1>1, <1>5 DEF IInv, MemInv
<1> QED
  BY <1>1, <1>2, <1>5, <1>6, QuietStep

\* A process that dies between two steps leaves a chained file behind.
LEMMA CrashStep ==
  ASSUME OneProcess, IInv, TypeOK', MutexInv', HolderInv', NEW p \in Procs, Crash(p)
  PROVE  IInv'
<1>1. /\ UNCHANGED <<log, eol, segs, now, inSec, acked, retired>>
      /\ pc' = [t \in Threads |-> IF ProcOf[t] = p THEN "idle" ELSE pc[t]]
      /\ row' = [t \in Threads |-> IF ProcOf[t] = p THEN Garbage ELSE row[t]]
      /\ isOpen' = [isOpen EXCEPT ![p] = FALSE]
  BY DEF Crash, Die
<1>2. \A t \in Threads : pc'[t] = "idle"
  BY <1>1, ProcAssumption DEF OneProcess
<1>3. MemInv'
  BY <1>1 DEF OneProcess, MemInv, IInv, TypeOK
<1> QED
  BY <1>1, <1>2, <1>3, QuietStep

\* The rename of the gzip: a segment of the same second can only be an earlier
\* copy of the same file, so nothing is lost under it.
LEMMA RotateGzStep ==
  ASSUME OneProcess, IInv, TypeOK', MutexInv', HolderInv', NEW t \in Threads,
         RotateGz(t)
  PROVE  /\ IInv'
         /\ \A s \in segs : s \in segs'
<1> DEFINE new == [at |-> now, lines |-> log]
<1>0. /\ UNCHANGED <<log, eol, isOpen, mem, row, now, inSec, acked, retired>>
      /\ pc[t] = "gz" /\ pc' = [pc EXCEPT ![t] = "unlink"]
      /\ segs' = {s \in segs : s.at # now} \cup {new}
  BY DEF RotateGz
<1>1. pc'[t] = "unlink" /\ \A u \in Threads : u # t => pc'[u] = pc[u]
  BY <1>0 DEF IInv, TypeOK
<1>2. RotateAt > 0 /\ Len(log) >= RotateAt
  BY <1>0 DEF IInv, RotateInv
<1>3. Len(log) > inSec
  BY <1>2, SlowFillAssumption, BoundAssumption DEF IInv, RotateInv, TypeOK
<1>4. ASSUME NEW s \in segs PROVE s \in segs'
  <2>1. CASE s.at # now
    BY <1>0, <2>1
  <2>2. CASE s.at = now
    <3>1. s.lines = log
      BY <1>3, <2>2 DEF IInv, RotateInv, TypeOK
    <3>2. s = new
      BY <2>2, <3>1 DEF IInv, TypeOK
    <3> QED
      BY <1>0, <3>2
  <2> QED
    BY <2>1, <2>2
<1>5. \A s \in segs' : s \in segs \/ s = new
  BY <1>0
<1>6. eol
  <2>1. isOpen[ProcOf[t]] /\ ProcOf[t] \in Procs
    BY <1>0, ProcAssumption DEF IInv, MutexInv
  <2> QED
    BY <2>1 DEF IInv, MemInv
<1>7. ChainInv'
  <2>1. Chained(log)
    BY <1>6 DEF IInv, ChainInv, WholeLines
  <2>2. \A s \in segs' : Chained(s.lines)
    BY <1>5, <2>1 DEF IInv, ChainInv
  <2> QED
    BY <1>0, <2>2 DEF IInv, ChainInv, WholeLines
<1>8. \A u \in Threads : pc'[u] = "sync" <=> pc[u] = "sync"
  BY <1>0, <1>1
<1>9. MemInv' /\ SyncInv'
  BY <1>0, <1>8 DEF IInv, MemInv, SyncInv
<1>10. RotateInv'
  <2>1. new \in segs' /\ new.lines = log /\ new.at = now
    BY <1>0
  <2>2. ASSUME NEW u \in Threads
        PROVE /\ pc'[u] \in {"gz", "unlink"} => RotateAt > 0 /\ Len(log) >= RotateAt
              /\ pc'[u] = "write" /\ RotateAt > 0 => Len(log) < RotateAt
              /\ pc'[u] = "unlink" => \E s \in segs' : s.lines = log
    <3>1. CASE u = t
      BY <1>1, <1>2, <2>1, <3>1
    <3>2. CASE u # t
      <4>1. pc[u] = "idle"
        BY <1>0, <3>2, Exclusive DEF IInv
      <4> QED
        BY <1>1, <3>2, <4>1
    <3> QED
      BY <3>1, <3>2
  <2>3. ASSUME NEW s \in segs'
        PROVE /\ RotateAt > 0 /\ Len(s.lines) >= RotateAt
              /\ s.at <= now
              /\ s.at = now => s.lines = log \/ Len(log) <= inSec
    <3>1. CASE s \in segs
      BY <3>1 DEF IInv, RotateInv
    <3>2. CASE s = new
      BY <1>2, <2>1, <3>2 DEF IInv, TypeOK
    <3> QED
      BY <1>5, <3>1, <3>2
  <2> QED
    BY <1>0, <2>2, <2>3 DEF IInv, RotateInv
<1>11. AckedReadable'
  <2> SUFFICES ASSUME NEW d \in acked'
               PROVE  \/ d \in Digests(log')
                      \/ \E s \in segs' : d \in Digests(s.lines)
                      \/ d \in retired'
    BY DEF AckedReadable, OnDisk
  <2> QED
    BY <1>0, <1>4, AckedDef DEF IInv
<1> QED
  BY <1>4, <1>7, <1>9, <1>10, <1>11 DEF IInv

\* The unlink: every row of the file is in the segment just written.
LEMMA RotateUnlinkStep ==
  ASSUME OneProcess, IInv, TypeOK', MutexInv', HolderInv', NEW t \in Threads,
         RotateUnlink(t)
  PROVE  IInv'
<1>0. /\ UNCHANGED <<segs, isOpen, row, now, inSec, acked, retired>>
      /\ log' = <<>> /\ eol' = TRUE
      /\ pc[t] = "unlink" /\ pc' = [pc EXCEPT ![t] = "write"]
      /\ mem' = [mem EXCEPT ![ProcOf[t]] = FreshState]
  BY DEF RotateUnlink
<1>1. pc'[t] = "write" /\ \A u \in Threads : u # t => pc'[u] = pc[u]
  BY <1>0 DEF IInv, TypeOK
<1>2. \A u \in Threads : u # t => pc'[u] = "idle"
  BY <1>0, <1>1, Exclusive DEF IInv
<1>3. RotateAt > 0
  BY <1>0 DEF IInv, RotateInv
<1>4. ChainInv'
  BY <1>0 DEF IInv, ChainInv, WholeLines, Chained
<1>5. MemInv'
  <2> SUFFICES ASSUME NEW p \in Procs PROVE mem'[p] = RecoverState(log')
    BY <1>0 DEF MemInv
  <2>1. p = ProcOf[t]
    BY ProcAssumption DEF OneProcess
  <2> QED
    BY <1>0, <2>1 DEF RecoverState, IInv, TypeOK
<1>6. SyncInv'
  BY <1>1, <1>2 DEF SyncInv
<1>7. RotateInv'
  <2>1. Len(log') = 0
    BY <1>0
  <2>2. ASSUME NEW u \in Threads
        PROVE /\ pc'[u] \notin {"gz", "unlink"}
              /\ pc'[u] = "write" /\ RotateAt > 0 => Len(log') < RotateAt
    BY <1>1, <1>2, <2>1
  <2>3. \A s \in segs : Len(log') <= inSec
    BY <2>1 DEF IInv, TypeOK
  <2> QED
    BY <1>0, <2>2, <2>3 DEF IInv, RotateInv
<1>8. AckedReadable'
  <2> SUFFICES ASSUME NEW d \in acked'
               PROVE  \/ d \in Digests(log')
                      \/ \E s \in segs' : d \in Digests(s.lines)
                      \/ d \in retired'
    BY DEF AckedReadable, OnDisk
  <2>1. PICK c \in segs : c.lines = log
    BY <1>0 DEF IInv, RotateInv
  <2> QED
    BY <1>0, <2>1, AckedDef DEF IInv
<1> QED
  BY <1>4, <1>5, <1>6, <1>7, <1>8 DEF IInv

\* What a line more does to the size bookkeeping, whole or torn.
LEMMA GrowStep ==
  ASSUME OneProcess, IInv, NEW t \in Threads, pc[t] = "write", CanBuild,
         NEW l \in Line, log' = Append(log, l), inSec' = inSec + 1,
         UNCHANGED <<segs, now, acked, retired>>,
         \A u \in Threads : pc'[u] \in {"idle", "sync"}
  PROVE  RotateInv' /\ AckedReadable'
<1>0. log \in Seq(Line) /\ Len(log) \in Nat /\ Len(log') = Len(log) + 1
  BY DEF IInv, TypeOK
<1>1. inSec' <= MaxPerSec
  BY BoundAssumption DEF CanBuild, IInv, TypeOK
<1>2. ASSUME NEW s \in segs
      PROVE  s.at = now => Len(log') <= inSec'
  <2>1. Len(s.lines) >= RotateAt /\ Len(log) < RotateAt
    BY DEF IInv, RotateInv
  <2>2. s.lines # log
    BY <1>0, <2>1, BoundAssumption
  <2>3. s.at = now => Len(log) <= inSec
    BY <2>2 DEF IInv, RotateInv
  <2> QED
    BY <1>0, <2>3 DEF IInv, TypeOK
<1>3. RotateInv'
  BY <1>1, <1>2 DEF IInv, RotateInv
<1>4. Digests(log) \subseteq Digests(log')
  BY <1>0, DigestsAppend
<1>5. AckedReadable'
  <2> SUFFICES ASSUME NEW d \in acked'
               PROVE  \/ d \in Digests(log')
                      \/ \E s \in segs' : d \in Digests(s.lines)
                      \/ d \in retired'
    BY DEF AckedReadable, OnDisk
  <2> QED
    BY <1>4, AckedDef DEF IInv
<1> QED
  BY <1>3, <1>5

\* The write of a whole row extends the chain.
LEMMA WriteStep ==
  ASSUME OneProcess, IInv, TypeOK', MutexInv', HolderInv', NEW t \in Threads,
         NEW event \in LogEvent, WriteRow(t, event)
  PROVE  IInv'
<1> DEFINE r == NewRow(t, event)
<1>0. /\ UNCHANGED <<segs, isOpen, mem, now, acked, retired>>
      /\ pc[t] = "write" /\ CanBuild /\ inSec' = inSec + 1
      /\ pc' = [pc EXCEPT ![t] = "sync"] /\ row' = [row EXCEPT ![t] = r]
      /\ log' = PutBytes(r, "full") /\ eol' = TRUE
  BY DEF WriteRow
<1>1. r \in LogRow /\ r \in Line
  BY NewRowType DEF IInv, Line
<1>2. isOpen[ProcOf[t]] /\ ProcOf[t] \in Procs
  BY <1>0, ProcAssumption DEF IInv, MutexInv
<1>3. eol
  BY <1>2 DEF IInv, MemInv
<1>4. log' = Append(log, r)
  BY <1>0, <1>3 DEF PutBytes
<1>5. \A u \in Threads : u # t => pc[u] = "idle"
  BY <1>0, Exclusive DEF IInv
<1>6. pc'[t] = "sync" /\ \A u \in Threads : u # t => pc'[u] = "idle"
  BY <1>0, <1>5 DEF IInv, TypeOK
<1>7. mem[ProcOf[t]] = RecoverState(log)
  BY <1>0, <1>2, <1>5 DEF IInv, MemInv
<1>8. ChainInv'
  <2>1. Chained(log) /\ log \in Seq(Line)
    BY <1>3 DEF IInv, ChainInv, WholeLines, TypeOK
  <2>2. r.ts_seq = RecoverState(log).next_seq /\ r.prev_hash = RecoverState(log).last_hash
    BY <1>7 DEF NewRow
  <2>3. Chained(Append(log, r))
    BY <1>1, <2>1, <2>2, ChainedAppend
  <2> QED
    BY <1>0, <1>4, <2>3 DEF IInv, ChainInv, WholeLines
<1>9. MemInv'
  <2> SUFFICES ASSUME NEW p \in Procs PROVE eol' /\ ProcOf[t] = p
    BY <1>6 DEF MemInv
  <2> QED
    BY <1>0, ProcAssumption DEF OneProcess
<1>10. SyncInv'
  <2>1. log' # <<>> /\ log'[Len(log')] = r
    BY <1>1, <1>4, FrontOfAppend DEF IInv, TypeOK
  <2>2. row'[t] = r
    BY <1>0 DEF IInv, TypeOK
  <2> QED
    BY <1>6, <2>1, <2>2 DEF SyncInv
<1>11. RotateInv' /\ AckedReadable'
  BY <1>0, <1>1, <1>4, <1>6, GrowStep
<1> QED
  BY <1>8, <1>9, <1>10, <1>11 DEF IInv

\* A row torn by the death of its process leaves the rows before it as they were.
LEMMA CrashTornStep ==
  ASSUME OneProcess, CleanDisk, IInv, TypeOK', MutexInv', HolderInv',
         NEW t \in Threads, NEW cut \in {"part", "nonl"}, CrashTorn(t, cut)
  PROVE  IInv'
<1>0. /\ UNCHANGED <<segs, now, acked, retired>>
      /\ pc[t] = "write" /\ CanBuild /\ inSec' = inSec + 1
      /\ Die(ProcOf[t])
      /\ log' = PutBytes(NewRow(t, "other"), cut) /\ eol' = FALSE
  BY DEF CrashTorn
<1>1. cut = "part"
  BY DEF CrashTorn, CleanDisk, CrashFault
<1>2. isOpen[ProcOf[t]] /\ ProcOf[t] \in Procs
  BY <1>0, ProcAssumption DEF IInv, MutexInv
<1>3. eol
  BY <1>2 DEF IInv, MemInv
<1>4. log' = Append(log, Garbage) /\ Garbage \in Line
  BY <1>0, <1>1, <1>3 DEF PutBytes, Line
<1>5. \A u \in Threads : pc'[u] = "idle"
  BY <1>0, ProcAssumption DEF Die, OneProcess
<1>6. \A p \in Procs : ~isOpen'[p]
  BY <1>0, <1>2 DEF Die, OneProcess, IInv, TypeOK
<1>7. ChainInv'
  <2>1. WholeLines' = log
    BY <1>0, <1>4, FrontOfAppend DEF WholeLines, IInv, TypeOK
  <2>2. log' # <<>> /\ log'[Len(log')] = Garbage
    BY <1>4, FrontOfAppend DEF IInv, TypeOK
  <2>3. Chained(log)
    BY <1>3 DEF IInv, ChainInv, WholeLines
  <2> QED
    BY <1>0, <2>1, <2>2, <2>3 DEF IInv, ChainInv
<1>8. MemInv' /\ SyncInv'
  BY <1>5, <1>6 DEF MemInv, SyncInv
<1>9. RotateInv' /\ AckedReadable'
  BY <1>0, <1>4, <1>5, GrowStep
<1> QED
  BY <1>7, <1>8, <1>9 DEF IInv

\* The commit brings memory up to the row on disk and acknowledges it.
LEMMA CommitStep ==
  ASSUME OneProcess, IInv, TypeOK', MutexInv', HolderInv', NEW t \in Threads,
         Commit(t)
  PROVE  IInv'
<1>0. /\ UNCHANGED <<log, eol, segs, isOpen, now, inSec, retired>>
      /\ pc[t] = "sync" /\ Return(t)
      /\ mem' = [mem EXCEPT ![ProcOf[t]] = [next_seq  |-> row[t].ts_seq + 1,
                                            last_hash |-> row[t].this_hash]]
      /\ acked' = acked \cup {row[t].this_hash}
  BY DEF Commit
<1>1. log # <<>> /\ row[t] = log[Len(log)]
  BY <1>0 DEF IInv, SyncInv
<1>2. \A u \in Threads : pc'[u] = "idle"
  <2>1. \A u \in Threads : u # t => pc[u] = "idle"
    BY <1>0, Exclusive DEF IInv
  <2> QED
    BY <1>0, <2>1 DEF Return, IInv, TypeOK
<1>3. ChainInv'
  BY <1>0 DEF IInv, ChainInv, WholeLines
<1>4. MemInv'
  <2> SUFFICES ASSUME NEW p \in Procs, isOpen[p] PROVE eol /\ mem'[p] = RecoverState(log)
    BY <1>0 DEF MemInv
  <2>1. p = ProcOf[t]
    BY ProcAssumption DEF OneProcess
  <2>2. mem'[p] = RecoverState(log)
    BY <1>0, <1>1, <2>1 DEF RecoverState, IInv, TypeOK
  <2> QED
    BY <2>2 DEF IInv, MemInv
<1>5. SyncInv'
  BY <1>2 DEF SyncInv
<1>6. RotateInv'
  BY <1>0, <1>2 DEF IInv, RotateInv
<1>7. AckedReadable'
  <2>1. row[t].this_hash \in Digests(log)
    <3>1. Len(log) \in 1..Len(log)
      BY <1>1 DEF IInv, TypeOK
    <3>2. eol
      BY <1>0, ProcAssumption DEF IInv, MutexInv, MemInv
    <3>3. log[Len(log)] \in LogRow
      BY <3>1, <3>2 DEF IInv, ChainInv, WholeLines, Chained
    <3>4. IsRow(log[Len(log)])
      BY <3>3 DEF IsRow, LogRow, LogEvent
    <3> QED
      BY <1>1, <3>1, <3>4 DEF Digests
  <2> SUFFICES ASSUME NEW d \in acked'
               PROVE  \/ d \in Digests(log')
                      \/ \E s \in segs' : d \in Digests(s.lines)
                      \/ d \in retired'
    BY DEF AckedReadable, OnDisk
  <2> QED
    BY <1>0, <2>1, AckedDef DEF IInv
<1> QED
  BY <1>3, <1>4, <1>5, <1>6, <1>7 DEF IInv

\* The clock: a segment is never named after a second to come.
LEMMA TickStep ==
  ASSUME IInv, TypeOK', MutexInv', HolderInv', Tick
  PROVE  IInv'
<1>1. /\ UNCHANGED <<log, eol, segs, isOpen, mem, pc, row, acked, retired>>
      /\ now' = now + 1 /\ inSec' = 0
  BY DEF Tick
<1>2. ChainInv' /\ MemInv' /\ SyncInv'
  BY <1>1 DEF IInv, ChainInv, MemInv, SyncInv, WholeLines
<1>3. RotateInv'
  <2>1. \A s \in segs : s.at <= now' /\ s.at # now'
    BY <1>1 DEF IInv, RotateInv, TypeOK
  <2> QED
    BY <1>1, <2>1, BoundAssumption DEF IInv, RotateInv
<1>4. AckedReadable'
  BY <1>1 DEF IInv, AckedReadable, OnDisk
<1> QED
  BY <1>2, <1>3, <1>4 DEF IInv

\* The invariant holds initially.
LEMMA IInvInit ==
  ASSUME Init, TypeOK
  PROVE  IInv
<1>1. MutexInv /\ HolderInv
  BY DEF Init, MutexInv, HolderInv
<1>2. ChainInv /\ MemInv /\ SyncInv
  BY DEF Init, ChainInv, MemInv, SyncInv, WholeLines, Chained
<1>3. RotateInv
  BY BoundAssumption DEF Init, RotateInv
<1>4. AckedReadable
  BY DEF Init, AckedReadable
<1> QED
  BY <1>1, <1>2, <1>3, <1>4 DEF IInv

\* Every step keeps the invariant.
LEMMA IInvStep ==
  ASSUME OneProcess, CleanDisk, IInv, TypeOK', [Next]_vars
  PROVE  IInv'
<1>0. MutexInv' /\ HolderInv'
  BY MutexStep DEF IInv
<1>1. ASSUME NEW p \in Procs, Open(p) \/ KillPruning(p) \/ Crash(p) PROVE IInv'
  BY <1>0, <1>1, OpenStep, KillStep, CrashStep
<1>2. ASSUME NEW t \in Threads,
             \/ Enter(t) \/ RotateGz(t) \/ RotateUnlink(t) \/ RotateErr(t)
             \/ WriteErr(t) \/ Commit(t)
      PROVE IInv'
  BY <1>0, <1>2, EnterStep, RotateGzStep, RotateUnlinkStep, ErrStep, CommitStep
<1>3. ASSUME NEW t \in Threads, NEW event \in LogEvent, WriteRow(t, event)
      PROVE IInv'
  BY <1>0, <1>3, WriteStep
<1>4. ASSUME NEW t \in Threads PROVE ~SyncErr(t)
  BY DEF SyncErr, CleanDisk
<1>5. ASSUME NEW t \in Threads, NEW cut \in {"part", "nonl"}
      PROVE ~WriteErrTorn(t, cut)
  BY DEF WriteErrTorn, CleanDisk, ErrFault
<1>6. ASSUME NEW t \in Threads, NEW cut \in {"part", "nonl"}, CrashTorn(t, cut)
      PROVE IInv'
  BY <1>0, <1>6, CrashTornStep
<1>7. CASE Tick
  BY <1>0, <1>7, TickStep
<1>8. CASE UNCHANGED vars
  BY <1>8 DEF vars, IInv, TypeOK, MutexInv, HolderInv, ChainInv, MemInv,
              SyncInv, RotateInv, AckedReadable, OnDisk, WholeLines
<1> QED
  BY <1>1, <1>2, <1>3, <1>4, <1>5, <1>6, <1>7, <1>8 DEF Next

\* The invariant implies the three safety properties of the log.
LEMMA IInvImplies ==
  ASSUME IInv
  PROVE  AtMostTornLastLine /\ AckedReadable /\ MemoryIsWhatRestartRecovers
<1>1. AtMostTornLastLine
  <2>1. WholeLines \in Seq(Line)
    BY DEF IInv, TypeOK, WholeLines
  <2>2. \A s \in segs : s.lines \in Seq(Line)
    BY DEF IInv, TypeOK
  <2> QED
    BY <2>1, <2>2, ChainedVerifies DEF IInv, ChainInv, AtMostTornLastLine
<1>2. ASSUME NEW p \in Procs, isOpen[p], holder[p] = NoThread
      PROVE  eol /\ Parses(log) /\ mem[p] = RecoverState(log)
  <2>1. eol
    BY <1>2 DEF IInv, MemInv
  <2>2. Parses(log)
    BY <2>1 DEF IInv, ChainInv, WholeLines, Chained, Parses, IsRow, LogRow, LogEvent
  <2>3. \A t \in Threads : ProcOf[t] = p => pc[t] # "sync"
    BY <1>2, ProcAssumption DEF IInv, MutexInv
  <2> QED
    BY <1>2, <2>1, <2>2, <2>3 DEF IInv, MemInv
<1> QED
  BY <1>1, <1>2 DEF IInv, MemoryIsWhatRestartRecovers
----------------------------------------------------------------------------
(* One process, a clean disk: the log keeps the audit trail.               *)

\* Digests are given out in order, and to rows that are built.
Numbered == OnDisk \cup retired \cup acked \subseteq 1..minted /\ minted <= MaxRows

\* Two segments, and a segment and the live file, hold the same lines (a failed
\* unlink has left the file behind) or one is older than the other throughout.
SegOrder ==
  \A s1, s2 \in segs : s1.at < s2.at =>
    s1.lines = s2.lines \/ Trail!Before(Digests(s1.lines), Digests(s2.lines))
LiveOrder ==
  \A s \in segs : s.lines = log \/ Trail!Before(Digests(s.lines), Digests(log))

\* The acknowledged rows that are gone are older than all that is left.
MissingOld == Trail!Before(acked \ OnDisk, OnDisk)

TrailInv == IInv /\ Numbered /\ SegOrder /\ LiveOrder /\ MissingOld

\* Where the rows that can be read are.
LEMMA OnDiskDef ==
  ASSUME NEW d
  PROVE  d \in OnDisk <=> d \in Digests(log) \/ \E s \in segs : d \in Digests(s.lines)
BY DEF OnDisk

\* The digests of a file with one line more.
LEMMA DigestsOfAppend ==
  ASSUME NEW lines \in Seq(Line), NEW l \in Line, NEW d \in Digests(Append(lines, l))
  PROVE  d \in Digests(lines) \/ (IsRow(l) /\ d = l.this_hash)
<1>1. /\ Len(Append(lines, l)) = Len(lines) + 1 /\ Len(lines) \in Nat
      /\ \A i \in 1..Len(lines) : Append(lines, l)[i] = lines[i]
      /\ Append(lines, l)[Len(lines) + 1] = l
  OBVIOUS
<1>2. PICK i \in 1..(Len(lines) + 1) :
        IsRow(Append(lines, l)[i]) /\ d = Append(lines, l)[i].this_hash
  BY <1>1 DEF Digests
<1>3. CASE i \in 1..Len(lines)
  BY <1>1, <1>2, <1>3 DEF Digests
<1>4. CASE i = Len(lines) + 1
  BY <1>1, <1>2, <1>4
<1> QED
  BY <1>1, <1>2, <1>3, <1>4

\* A step that changes what can be read in no way keeps the order of the rows.
LEMMA TrailSame ==
  ASSUME TrailInv, IInv', OnDisk' = OnDisk, SegOrder', LiveOrder',
         UNCHANGED <<acked, retired, minted>>
  PROVE  TrailInv'
<1>1. Numbered' /\ MissingOld'
  BY DEF TrailInv, Numbered, MissingOld, Trail!Before
<1> QED
  BY <1>1 DEF TrailInv

\* A step that leaves the rows alone.
LEMMA TrailQuiet ==
  ASSUME TrailInv, IInv', UNCHANGED <<log, segs, acked, retired, minted>>
  PROVE  TrailInv' /\ OnDisk' = OnDisk
<1>1. OnDisk' = OnDisk
  BY DEF OnDisk
<1>2. SegOrder' /\ LiveOrder'
  BY DEF TrailInv, SegOrder, LiveOrder, Trail!Before
<1> QED
  BY <1>1, <1>2, TrailSame

\* Whole segments are deleted, oldest first, while nobody appends.
LEMMA TrailPrune ==
  ASSUME OneProcess, TrailInv, IInv', NEW p \in Procs, ~isOpen[p],
         NEW cut \in OldestAged, Prune(cut), UNCHANGED <<log, pc, row, acked, minted>>
  PROVE  TrailInv' /\ Trail!Prune
<1> DEFINE old == UNION {Digests(s.lines) : s \in cut}
           gone == old \ OnDisk'
<1>0. segs' = segs \ cut /\ retired' = retired \cup old
  BY DEF Prune
<1>1. \A t \in Threads : pc[t] = "idle"
  BY ClosedIdle DEF TrailInv, IInv
<1>2. \A d \in old : \E s \in cut : d \in Digests(s.lines)
  OBVIOUS
<1>3. cut \subseteq Aged /\ \A s \in cut : s \in segs
  BY DEF OldestAged, Aged
<1>4. old \subseteq OnDisk
  BY <1>2, <1>3, OnDiskDef
<1>5. \A d : d \in OnDisk' <=> d \in Digests(log) \/ \E s \in segs \ cut : d \in Digests(s.lines)
  BY <1>0 DEF OnDisk
<1>6. \A d \in OnDisk : d \in OnDisk' \/ d \in old
  <2> SUFFICES ASSUME NEW d \in OnDisk, d \notin OnDisk' PROVE d \in old
    OBVIOUS
  <2>1. PICK s \in segs : d \in Digests(s.lines)
    BY <1>5, OnDiskDef
  <2>2. s \in cut
    BY <1>5, <2>1
  <2> QED
    BY <2>1, <2>2
<1>7. OnDisk' \subseteq OnDisk
  BY <1>5, OnDiskDef
<1>8. ASSUME NEW a \in gone, NEW b \in OnDisk' PROVE a < b
  <2>1. PICK s1 \in cut : a \in Digests(s1.lines)
    BY <1>2
  <2>2. s1 \in segs /\ Retention > 0 /\ now - s1.at > Retention
    BY <1>3, <2>1 DEF Aged
  <2>3. CASE b \in Digests(log)
    <3>1. s1.lines # log
      BY <1>5, <2>1
    <3> QED
      BY <2>1, <2>2, <2>3, <3>1 DEF TrailInv, LiveOrder, Trail!Before
  <2>4. ASSUME NEW s2 \in segs \ cut, b \in Digests(s2.lines) PROVE a < b
    <3>1. s1.lines # s2.lines
      BY <1>5, <2>1
    <3>2. s2 \in Aged => s1.at < s2.at
      BY <2>1, <2>4 DEF OldestAged
    <3>3. s1.at \in Nat /\ s2.at \in Nat /\ now \in Nat /\ Retention \in Nat
      BY <2>2, BoundAssumption DEF TrailInv, IInv, TypeOK
    <3>4. s1.at < s2.at
      BY <2>2, <3>2, <3>3 DEF Aged
    <3> QED
      BY <2>1, <2>2, <2>4, <3>1, <3>4 DEF TrailInv, SegOrder, Trail!Before
  <2> QED
    BY <1>5, <2>3, <2>4
<1> HIDE DEF old
<1>9. Numbered'
  <2>1. OnDisk' \cup retired' \cup acked' \subseteq OnDisk \cup retired \cup acked
    BY <1>0, <1>4, <1>7
  <2> QED
    BY <1>0, <2>1 DEF TrailInv, Numbered
<1>10. MissingOld'
  <2> SUFFICES ASSUME NEW a \in acked, a \notin OnDisk', NEW b \in OnDisk' PROVE a < b
    BY <1>0 DEF MissingOld, Trail!Before
  <2>1. CASE a \in OnDisk
    BY <1>6, <1>8, <2>1
  <2>2. CASE a \notin OnDisk
    BY <1>7, <2>2 DEF TrailInv, MissingOld, Trail!Before
  <2> QED
    BY <2>1, <2>2
<1>11. SegOrder' /\ LiveOrder'
  BY <1>0 DEF TrailInv, SegOrder, LiveOrder, Trail!Before
<1>12. Trail!Prune
  <2>1. OnDisk' = OnDisk \ gone
    BY <1>6, <1>7
  <2>2. Trail!Before(gone, OnDisk \ gone)
    BY <1>8, <2>1 DEF Trail!Before
  <2>3. Trail!Quiet
    BY <1>1 DEF Trail!Quiet, Progress
  <2>4. UNCHANGED <<Progress, Made, acked>>
    BY <1>0 DEF Progress, Made
  <2>5. gone \in SUBSET old /\ old \in SUBSET OnDisk
    BY <1>4
  <2> HIDE DEF gone
  <2> QED
    BY <1>0, <2>1, <2>2, <2>3, <2>4, <2>5 DEF Trail!Prune
<1> QED
  BY <1>9, <1>10, <1>11, <1>12 DEF TrailInv

\* open prunes to the end, or is killed on the way.
LEMMA TrailOpen ==
  ASSUME OneProcess, CleanDisk, TrailInv, IInv', NEW p \in Procs, Open(p) \/ KillPruning(p)
  PROVE  TrailInv' /\ Trail!Prune
<1>1. ~isOpen[p] /\ UNCHANGED <<log, pc, row, acked, minted>>
  BY DEF Open, KillPruning
<1>2. Prunable = {Aged} /\ Aged \in OldestAged
  BY DEF CleanDisk, Prunable, OldestAged
<1>3. PICK cut \in OldestAged : Prune(cut)
  BY <1>2 DEF Open, KillPruning
<1> QED
  BY <1>1, <1>3, TrailPrune

\* The gzip is one more copy of the live file.
LEMMA TrailGz ==
  ASSUME OneProcess, TrailInv, TypeOK', MutexInv', HolderInv', NEW t \in Threads, RotateGz(t)
  PROVE  TrailInv' /\ UNCHANGED <<Progress, Made, OnDisk, acked, retired>>
<1> DEFINE new == [at |-> now, lines |-> log]
<1>0. /\ UNCHANGED <<log, row, acked, retired, minted>>
      /\ pc[t] = "gz" /\ pc' = [pc EXCEPT ![t] = "unlink"]
      /\ segs' = {s \in segs : s.at # now} \cup {new}
  BY DEF RotateGz
<1>1. IInv' /\ \A s \in segs : s \in segs'
  BY RotateGzStep DEF TrailInv
<1>2. \A s \in segs' : s \in segs \/ s = new
  BY <1>0
<1>3. new.at = now /\ new.lines = log
  OBVIOUS
<1>4. \A s \in segs : s.at \in Nat /\ now \in Nat /\ s.at <= now
  BY DEF TrailInv, IInv, TypeOK, RotateInv
<1>11. now \in Nat
  BY DEF TrailInv, IInv, TypeOK
<1> HIDE DEF new
<1>5. OnDisk' = OnDisk
  <2>1. ASSUME NEW d \in OnDisk PROVE d \in OnDisk'
    BY <1>0, <1>1, OnDiskDef DEF OnDisk
  <2>2. ASSUME NEW d \in OnDisk' PROVE d \in OnDisk
    <3>1. d \in Digests(log) \/ \E s \in segs' : d \in Digests(s.lines)
      BY <1>0 DEF OnDisk
    <3> QED
      BY <1>2, <1>3, <3>1, OnDiskDef
  <2> QED
    BY <2>1, <2>2
<1>6. LiveOrder'
  BY <1>0, <1>2, <1>3 DEF TrailInv, LiveOrder, Trail!Before
<1>7. SegOrder'
  <2> SUFFICES ASSUME NEW s1 \in segs', NEW s2 \in segs', s1.at < s2.at
               PROVE  \/ s1.lines = s2.lines
                      \/ Trail!Before(Digests(s1.lines), Digests(s2.lines))
    BY DEF SegOrder, Trail!Before
  <2>1. s1 \in segs
    <3> SUFFICES ASSUME s1 = new PROVE FALSE
      BY <1>2
    <3> QED
      BY <1>2, <1>3, <1>4, <1>11
  <2>2. CASE s2 \in segs
    BY <2>1, <2>2 DEF TrailInv, SegOrder
  <2>3. CASE s2 = new
    BY <1>3, <2>1, <2>3 DEF TrailInv, LiveOrder
  <2> QED
    BY <1>2, <2>2, <2>3
<1>8. TrailInv'
  BY <1>0, <1>1, <1>5, <1>6, <1>7, TrailSame
<1>9. pc'[t] = "unlink" /\ \A u \in Threads : u # t => pc'[u] = pc[u]
  BY <1>0 DEF TrailInv, IInv, TypeOK
<1>10. Progress' = Progress /\ Made' = Made
  BY <1>0, <1>9 DEF Progress, Made
<1> QED
  BY <1>0, <1>5, <1>8, <1>10

\* The unlink leaves the rows to the segment.
LEMMA TrailUnlink ==
  ASSUME OneProcess, TrailInv, IInv', NEW t \in Threads, RotateUnlink(t)
  PROVE  TrailInv' /\ UNCHANGED <<Progress, Made, OnDisk, acked, retired>>
<1>0. /\ UNCHANGED <<segs, row, acked, retired, minted>>
      /\ log' = <<>> /\ pc[t] = "unlink" /\ pc' = [pc EXCEPT ![t] = "write"]
  BY DEF RotateUnlink
<1>1. PICK c \in segs : c.lines = log
  BY <1>0 DEF TrailInv, IInv, RotateInv
<1>2. Digests(log') = {}
  BY <1>0 DEF Digests
<1>3. OnDisk' = OnDisk
  <2>1. ASSUME NEW d \in OnDisk PROVE d \in OnDisk'
    <3>1. \E s \in segs : d \in Digests(s.lines)
      BY <1>1, OnDiskDef
    <3> QED
      BY <1>0, <3>1 DEF OnDisk
  <2>2. ASSUME NEW d \in OnDisk' PROVE d \in OnDisk
    BY <1>0, <1>2 DEF OnDisk
  <2> QED
    BY <2>1, <2>2
<1>4. SegOrder' /\ LiveOrder'
  BY <1>0, <1>2 DEF TrailInv, SegOrder, LiveOrder, Trail!Before
<1>5. TrailInv'
  BY <1>0, <1>3, <1>4, TrailSame
<1>6. pc'[t] = "write" /\ \A u \in Threads : u # t => pc'[u] = pc[u]
  BY <1>0 DEF TrailInv, IInv, TypeOK
<1>7. Progress' = Progress /\ Made' = Made
  BY <1>0, <1>6 DEF Progress, Made
<1> QED
  BY <1>0, <1>3, <1>5, <1>7

\* Taking the mutex begins a call, which no other call overlaps.
LEMMA TrailEnter ==
  ASSUME OneProcess, TrailInv, IInv', NEW t \in Threads, Enter(t)
  PROVE  TrailInv' /\ Trail!Begin(t)
<1>0. /\ UNCHANGED <<log, segs, row, acked, retired, minted>>
      /\ pc[t] = "idle" /\ holder[ProcOf[t]] = NoThread
      /\ pc' = [pc EXCEPT ![t] = IF RotateAt > 0 /\ Len(log) >= RotateAt THEN "gz" ELSE "write"]
  BY DEF Enter
<1>1. TrailInv' /\ OnDisk' = OnDisk
  BY <1>0, TrailQuiet
<1>2. \A u \in Threads : pc[u] = "idle"
  <2> SUFFICES ASSUME NEW u \in Threads, pc[u] # "idle" PROVE FALSE
    OBVIOUS
  <2>1. holder[ProcOf[u]] = u /\ ProcOf[u] = ProcOf[t]
    BY ProcAssumption DEF OneProcess, TrailInv, IInv, MutexInv
  <2> QED
    BY <1>0, <2>1, ProcAssumption
<1>3. pc'[t] \in {"gz", "write"} /\ \A u \in Threads : u # t => pc'[u] = pc[u]
  BY <1>0 DEF TrailInv, IInv, TypeOK
<1>4. Progress' = [Progress EXCEPT ![t] = "begun"]
  BY <1>2, <1>3 DEF Progress
<1>5. Made' = Made
  BY <1>0, <1>2, <1>3 DEF Made
<1>6. Trail!Quiet
  BY <1>2 DEF Trail!Quiet, Progress
<1> QED
  BY <1>0, <1>1, <1>4, <1>5, <1>6 DEF Trail!Begin

\* An append that fails before it writes.
LEMMA TrailRefuse ==
  ASSUME OneProcess, TrailInv, IInv', NEW t \in Threads, RotateErr(t) \/ WriteErr(t)
  PROVE  TrailInv' /\ Trail!Refuse(t)
<1>0. /\ UNCHANGED <<log, segs, acked, retired, minted>>
      /\ pc[t] \in {"gz", "unlink", "write"}
      /\ pc' = [pc EXCEPT ![t] = "idle"] /\ row' = [row EXCEPT ![t] = Garbage]
  BY DEF RotateErr, WriteErr, Return
<1>1. TrailInv' /\ OnDisk' = OnDisk
  BY <1>0, TrailQuiet
<1>2. /\ pc'[t] = "idle"
      /\ \A u \in Threads : u # t => pc'[u] = pc[u] /\ row'[u] = row[u]
  BY <1>0 DEF TrailInv, IInv, TypeOK
<1>3. Progress[t] = "begun" /\ Progress' = [Progress EXCEPT ![t] = "idle"]
  BY <1>0, <1>2 DEF Progress
<1>4. Made' = Made
  BY <1>0, <1>2 DEF Made
<1> QED
  BY <1>0, <1>1, <1>3, <1>4 DEF Trail!Refuse

\* The death of the process interrupts every call.
LEMMA TrailDie ==
  ASSUME OneProcess, NEW p \in Procs, Die(p)
  PROVE  Progress' = [t \in Threads |-> "idle"] /\ Made' = [t \in Threads |-> 0]
<1>1. \A t \in Threads : pc'[t] = "idle"
  BY ProcAssumption DEF Die, OneProcess
<1> QED
  BY <1>1 DEF Progress, Made

\* A process that dies between two steps takes no row with it.
LEMMA TrailCrash ==
  ASSUME OneProcess, TrailInv, IInv', NEW p \in Procs, Crash(p)
  PROVE  TrailInv' /\ Trail!Stop
<1>0. UNCHANGED <<log, segs, acked, retired, minted>> /\ Die(p)
  BY DEF Crash
<1>1. TrailInv' /\ OnDisk' = OnDisk
  BY <1>0, TrailQuiet
<1> QED
  BY <1>0, <1>1, TrailDie DEF Trail!Stop

\* One line more: a row gets a digest greater than every digest there is.
LEMMA TrailGrow ==
  ASSUME TrailInv, IInv', NEW t \in Threads, pc[t] = "write", CanBuild,
         NEW l \in Line, log' = Append(log, l), minted' = minted + 1,
         IsRow(l) => l.this_hash = minted + 1,
         UNCHANGED <<segs, acked, retired>>
  PROVE  /\ TrailInv'
         /\ OnDisk' = IF IsRow(l) THEN OnDisk \cup {minted + 1} ELSE OnDisk
         /\ Trail!Before(OnDisk \cup acked \cup retired, {minted + 1})
         /\ minted + 1 \in 1..MaxRows
<1>0. /\ log \in Seq(Line) /\ minted \in Nat /\ Len(log) \in Nat
      /\ MaxRows \in Nat /\ RotateAt \in Nat
  BY BoundAssumption DEF TrailInv, IInv, TypeOK
<1>1. minted + 1 \in 1..MaxRows
  BY <1>0 DEF CanBuild
<1>2. \A d \in OnDisk \cup acked \cup retired : d \in Nat /\ d < minted + 1
  BY <1>0 DEF TrailInv, Numbered
<1>3. Digests(log') = IF IsRow(l) THEN Digests(log) \cup {minted + 1} ELSE Digests(log)
  <2>1. Digests(log) \subseteq Digests(log') /\ (IsRow(l) => minted + 1 \in Digests(log'))
    BY <1>0, DigestsAppend
  <2>2. \A d \in Digests(log') : d \in Digests(log) \/ (IsRow(l) /\ d = minted + 1)
    BY <1>0, DigestsOfAppend
  <2> QED
    BY <2>1, <2>2
<1>4. OnDisk' = IF IsRow(l) THEN OnDisk \cup {minted + 1} ELSE OnDisk
  BY <1>3 DEF OnDisk
<1>5. \A s \in segs : s.lines # log
  <2> SUFFICES ASSUME NEW s \in segs PROVE Len(s.lines) # Len(log)
    OBVIOUS
  <2>1. RotateAt > 0 /\ Len(s.lines) >= RotateAt /\ Len(log) < RotateAt
    BY DEF TrailInv, IInv, RotateInv
  <2> QED
    BY <1>0, <2>1
<1>6. LiveOrder'
  <2> SUFFICES ASSUME NEW s \in segs, NEW a \in Digests(s.lines), NEW b \in Digests(log')
               PROVE  a < b
    BY DEF LiveOrder, Trail!Before
  <2>1. a \in OnDisk
    BY OnDiskDef
  <2>2. CASE b \in Digests(log)
    BY <1>5, <2>2 DEF TrailInv, LiveOrder, Trail!Before
  <2>3. CASE b = minted + 1
    BY <1>2, <2>1, <2>3
  <2> QED
    BY <1>3, <2>2, <2>3
<1>7. SegOrder'
  BY DEF TrailInv, SegOrder, Trail!Before
<1>8. Numbered'
  <2>1. minted' <= MaxRows /\ minted' = minted + 1
    BY <1>0, <1>1
  <2>2. \A d \in OnDisk' \cup acked' \cup retired' : d \in OnDisk \cup acked \cup retired \/ d = minted + 1
    BY <1>4
  <2>3. \A d \in OnDisk \cup acked \cup retired : d \in 1..minted
    BY DEF TrailInv, Numbered
  <2>4. \A d \in OnDisk' \cup acked' \cup retired' : d \in 1..minted'
    BY <1>0, <2>1, <2>2, <2>3
  <2> QED
    BY <2>1, <2>4 DEF Numbered
<1>9. MissingOld'
  <2> SUFFICES ASSUME NEW a \in acked, a \notin OnDisk', NEW b \in OnDisk' PROVE a < b
    BY DEF MissingOld, Trail!Before
  <2>1. a \notin OnDisk /\ a < minted + 1
    BY <1>2, <1>4
  <2>2. CASE b \in OnDisk
    BY <2>1, <2>2 DEF TrailInv, MissingOld, Trail!Before
  <2>3. CASE b = minted + 1
    BY <2>1, <2>3
  <2> QED
    BY <1>4, <2>2, <2>3
<1>10. TrailInv'
  BY <1>6, <1>7, <1>8, <1>9 DEF TrailInv
<1>11. Trail!Before(OnDisk \cup acked \cup retired, {minted + 1})
  BY <1>2 DEF Trail!Before
<1> QED
  BY <1>1, <1>4, <1>10, <1>11

\* The write of a whole row.
LEMMA TrailWrite ==
  ASSUME OneProcess, TrailInv, IInv', NEW t \in Threads, NEW event \in LogEvent, WriteRow(t, event)
  PROVE  TrailInv' /\ Trail!Write(t)
<1> DEFINE r == NewRow(t, event)
<1>0. /\ UNCHANGED <<segs, acked, retired>>
      /\ pc[t] = "write" /\ CanBuild /\ minted' = minted + 1
      /\ pc' = [pc EXCEPT ![t] = "sync"] /\ row' = [row EXCEPT ![t] = r]
      /\ log' = PutBytes(r, "full")
  BY DEF WriteRow
<1>1. r \in LogRow /\ r \in Line
  BY NewRowType DEF TrailInv, IInv, Line
<1>2. r.this_hash = minted + 1
  BY DEF NewRow
<1>3. IsRow(r)
  BY <1>1 DEF IsRow, LogRow, LogEvent
<1>4. eol
  BY <1>0, ProcAssumption DEF TrailInv, IInv, MutexInv, MemInv
<1>5. log' = Append(log, r)
  BY <1>0, <1>4 DEF PutBytes
<1> HIDE DEF r
<1>6. /\ TrailInv' /\ OnDisk' = OnDisk \cup {minted + 1} /\ minted + 1 \in 1..MaxRows
      /\ Trail!Before(OnDisk \cup acked \cup retired, {minted + 1})
  BY <1>0, <1>1, <1>2, <1>3, <1>5, TrailGrow
<1>7. /\ pc'[t] = "sync" /\ row'[t] = r
      /\ \A u \in Threads : u # t => pc'[u] = pc[u] /\ row'[u] = row[u]
  BY <1>0 DEF TrailInv, IInv, TypeOK
<1>8. Progress[t] = "begun" /\ Progress' = [Progress EXCEPT ![t] = "written"]
  BY <1>0, <1>7 DEF Progress
<1>9. Made' = [Made EXCEPT ![t] = minted + 1]
  BY <1>2, <1>7 DEF Made
<1> QED
  BY <1>0, <1>6, <1>8, <1>9 DEF Trail!Write

\* The row an append acknowledges is the one it has written.
LEMMA TrailCommit ==
  ASSUME OneProcess, TrailInv, IInv', NEW t \in Threads, Commit(t)
  PROVE  TrailInv' /\ Trail!Ok(t)
<1>0. /\ UNCHANGED <<log, segs, retired, minted>> /\ pc[t] = "sync"
      /\ pc' = [pc EXCEPT ![t] = "idle"] /\ row' = [row EXCEPT ![t] = Garbage]
      /\ acked' = acked \cup {row[t].this_hash}
  BY DEF Commit, Return
<1>1. row[t].this_hash \in OnDisk
  <2>1. log # <<>> /\ row[t] = log[Len(log)] /\ log \in Seq(Line)
    BY <1>0 DEF TrailInv, IInv, SyncInv, TypeOK
  <2>2. Len(log) \in 1..Len(log)
    BY <2>1
  <2>3. eol
    BY <1>0, ProcAssumption DEF TrailInv, IInv, MutexInv, MemInv
  <2>4. log[Len(log)] \in LogRow
    BY <2>2, <2>3 DEF TrailInv, IInv, ChainInv, WholeLines, Chained
  <2>5. IsRow(log[Len(log)])
    BY <2>4 DEF IsRow, LogRow, LogEvent
  <2> QED
    BY <2>1, <2>2, <2>5, OnDiskDef DEF Digests
<1>2. OnDisk' = OnDisk
  BY <1>0 DEF OnDisk
<1>3. SegOrder' /\ LiveOrder'
  BY <1>0 DEF TrailInv, SegOrder, LiveOrder, Trail!Before
<1>4. Numbered' /\ MissingOld'
  <2>1. OnDisk' \cup retired' \cup acked' = OnDisk \cup retired \cup acked
    BY <1>0, <1>1, <1>2
  <2>2. acked' \ OnDisk' = acked \ OnDisk
    BY <1>0, <1>1, <1>2
  <2> QED
    BY <1>0, <1>2, <2>1, <2>2 DEF TrailInv, Numbered, MissingOld, Trail!Before
<1>5. /\ pc'[t] = "idle"
      /\ \A u \in Threads : u # t => pc'[u] = pc[u] /\ row'[u] = row[u]
  BY <1>0 DEF TrailInv, IInv, TypeOK
<1>6. Progress[t] = "written" /\ Progress' = [Progress EXCEPT ![t] = "idle"]
  BY <1>0, <1>5 DEF Progress
<1>7. Made' = [Made EXCEPT ![t] = 0] /\ Made[t] = row[t].this_hash
  <2>1. Made[t] = row[t].this_hash
    BY <1>0 DEF Made
  <2>2. \A u \in Threads : Made'[u] = IF u = t THEN 0 ELSE Made[u]
    BY <1>5 DEF Made
  <2>3. Made' = [u \in Threads |-> Made'[u]]
    BY DEF Made
  <2> QED
    BY <2>1, <2>2, <2>3 DEF Made
<1> QED
  BY <1>0, <1>2, <1>3, <1>4, <1>6, <1>7 DEF TrailInv, Trail!Ok

\* A row torn by the death of its process was never readable.
LEMMA TrailTorn ==
  ASSUME OneProcess, CleanDisk, TrailInv, IInv', NEW t \in Threads,
         NEW cut \in {"part", "nonl"}, CrashTorn(t, cut)
  PROVE  TrailInv' /\ Trail!Stop
<1>0. /\ UNCHANGED <<segs, acked, retired>>
      /\ pc[t] = "write" /\ CanBuild /\ minted' = minted + 1 /\ Die(ProcOf[t])
      /\ log' = PutBytes(NewRow(t, "other"), cut)
  BY DEF CrashTorn
<1>1. cut = "part"
  BY DEF CrashTorn, CleanDisk, CrashFault
<1>2. eol /\ ProcOf[t] \in Procs
  BY <1>0, ProcAssumption DEF TrailInv, IInv, MutexInv, MemInv
<1>3. log' = Append(log, Garbage) /\ Garbage \in Line /\ ~IsRow(Garbage)
  BY <1>0, <1>1, <1>2 DEF PutBytes, Line, IsRow, Garbage
<1>4. TrailInv' /\ OnDisk' = OnDisk
  BY <1>0, <1>3, TrailGrow
<1> QED
  BY <1>0, <1>2, <1>4, TrailDie DEF Trail!Stop

\* Every step keeps the order of the rows and is a step of the trail, or none.
LEMMA TrailStep ==
  ASSUME OneProcess, CleanDisk, TrailInv, IInv', [Next]_vars
  PROVE  TrailInv' /\ [Trail!Next]_<<Progress, Made, OnDisk, acked, retired>>
<1>1. ASSUME NEW p \in Procs, Open(p) \/ KillPruning(p) PROVE TrailInv' /\ Trail!Next
  BY <1>1, TrailOpen DEF Trail!Next
<1>2. ASSUME NEW p \in Procs, Crash(p) PROVE TrailInv' /\ Trail!Next
  BY <1>2, TrailCrash DEF Trail!Next
<1>3. ASSUME NEW t \in Threads, Enter(t) PROVE TrailInv' /\ Trail!Next
  BY <1>3, TrailEnter DEF Trail!Next
<1>4. ASSUME NEW t \in Threads, RotateGz(t) \/ RotateUnlink(t)
      PROVE  TrailInv' /\ UNCHANGED <<Progress, Made, OnDisk, acked, retired>>
  <2>1. TypeOK' /\ MutexInv' /\ HolderInv'
    BY DEF IInv
  <2> QED
    BY <1>4, <2>1, TrailGz, TrailUnlink
<1>5. ASSUME NEW t \in Threads, RotateErr(t) \/ WriteErr(t) PROVE TrailInv' /\ Trail!Next
  BY <1>5, TrailRefuse DEF Trail!Next
<1>6. ASSUME NEW t \in Threads, NEW event \in LogEvent, WriteRow(t, event)
      PROVE  TrailInv' /\ Trail!Next
  BY <1>6, TrailWrite DEF Trail!Next
<1>7. ASSUME NEW t \in Threads, Commit(t) PROVE TrailInv' /\ Trail!Next
  BY <1>7, TrailCommit DEF Trail!Next
<1>8. ASSUME NEW t \in Threads PROVE ~SyncErr(t)
  BY DEF SyncErr, CleanDisk
<1>9. ASSUME NEW t \in Threads, NEW cut \in {"part", "nonl"} PROVE ~WriteErrTorn(t, cut)
  BY DEF WriteErrTorn, CleanDisk, ErrFault
<1>10. ASSUME NEW t \in Threads, NEW cut \in {"part", "nonl"}, CrashTorn(t, cut)
       PROVE  TrailInv' /\ Trail!Next
  BY <1>10, TrailTorn DEF Trail!Next
<1>11. ASSUME Tick \/ UNCHANGED vars
       PROVE  TrailInv' /\ UNCHANGED <<Progress, Made, OnDisk, acked, retired>>
  <2>1. UNCHANGED <<log, segs, acked, retired, minted, pc, row>>
    BY <1>11 DEF Tick, vars
  <2>2. TrailInv' /\ OnDisk' = OnDisk
    BY <2>1, TrailQuiet
  <2> QED
    BY <2>1, <2>2 DEF Progress, Made
<1> QED
  BY <1>1, <1>2, <1>3, <1>4, <1>5, <1>6, <1>7, <1>8, <1>9, <1>10, <1>11 DEF Next

\* An empty log keeps an empty trail.
LEMMA TrailInit ==
  ASSUME Init, IInv
  PROVE  TrailInv /\ Trail!Init
<1>1. OnDisk = {} /\ acked = {} /\ retired = {}
  BY DEF Init, OnDisk, Digests
<1>2. Numbered
  BY <1>1, BoundAssumption DEF Init, Numbered
<1>3. SegOrder /\ LiveOrder
  BY DEF Init, SegOrder, LiveOrder
<1>4. MissingOld
  BY <1>1 DEF MissingOld, Trail!Before
<1>5. Progress = [t \in Threads |-> "idle"] /\ Made = [t \in Threads |-> 0]
  BY DEF Init, Progress, Made
<1>6. Trail!Init
  BY <1>1, <1>5 DEF Trail!Init, Trail!Quiet
<1> QED
  BY <1>2, <1>3, <1>4, <1>6 DEF TrailInv
----------------------------------------------------------------------------
(* One process, any faults: what is lost leaves a trace.                   *)

\* A line of the file, or of a segment, does not parse.
Torn(lines) == \E i \in 1..Len(lines) : ~IsRow(lines[i])
Damaged == Torn(log) \/ \E s \in segs : Torn(s.lines)

\* A row can only go missing by running into a torn one.
LostOnlyTorn == Damaged \/ AckedReadable
WrittenInv == \A t \in Threads : pc[t] = "sync" => Damaged \/ row[t].this_hash \in Digests(log)

FaultInv == TypeOK /\ MutexInv /\ HolderInv /\ RotateInv /\ LostOnlyTorn /\ WrittenInv

\* A step that leaves the disk alone and takes no thread further.
LEMMA FaultQuiet ==
  ASSUME FaultInv, TypeOK', MutexInv', HolderInv', UNCHANGED <<log, segs, now, inSec, acked, retired>>,
         \A t \in Threads : pc'[t] = pc[t] \/ pc'[t] = "idle",
         \A t \in Threads : pc'[t] = "sync" => row'[t] = row[t]
  PROVE  FaultInv'
<1>1. Damaged' <=> Damaged
  BY DEF Damaged
<1>2. LostOnlyTorn'
  BY <1>1 DEF FaultInv, LostOnlyTorn, AckedReadable, OnDisk
<1>3. WrittenInv'
  BY <1>1 DEF FaultInv, WrittenInv
<1>4. RotateInv'
  BY DEF FaultInv, RotateInv
<1> QED
  BY <1>2, <1>3, <1>4 DEF FaultInv

LEMMA FaultEnter ==
  ASSUME OneProcess, FaultInv, TypeOK', MutexInv', HolderInv', NEW t \in Threads, Enter(t)
  PROVE  FaultInv'
<1>0. /\ pc[t] = "idle" /\ UNCHANGED <<log, segs, now, inSec, acked, retired, row>>
      /\ pc' = [pc EXCEPT ![t] = IF RotateAt > 0 /\ Len(log) >= RotateAt THEN "gz" ELSE "write"]
  BY DEF Enter
<1>1. /\ pc'[t] = IF RotateAt > 0 /\ Len(log) >= RotateAt THEN "gz" ELSE "write"
      /\ \A u \in Threads : u # t => pc'[u] = pc[u]
  BY <1>0 DEF FaultInv, TypeOK
<1>2. Damaged' <=> Damaged
  BY <1>0 DEF Damaged
<1>3. LostOnlyTorn'
  BY <1>0, <1>2 DEF FaultInv, LostOnlyTorn, AckedReadable, OnDisk
<1>4. \A u \in Threads : pc'[u] = "sync" => pc[u] = "sync"
  BY <1>1
<1>5. WrittenInv'
  BY <1>0, <1>2, <1>4 DEF FaultInv, WrittenInv
<1>6. Len(log) \in Nat /\ RotateAt \in Nat
  BY BoundAssumption DEF FaultInv, TypeOK
<1>7. RotateInv'
  <2>1. ASSUME NEW u \in Threads
        PROVE /\ pc'[u] \in {"gz", "unlink"} => RotateAt > 0 /\ Len(log) >= RotateAt
              /\ pc'[u] = "write" /\ RotateAt > 0 => Len(log) < RotateAt
              /\ pc'[u] = "unlink" => \E s \in segs : s.lines = log
    <3>1. CASE u = t
      BY <1>1, <1>6, <3>1
    <3>2. CASE u # t
      BY <1>1, <3>2 DEF FaultInv, RotateInv
    <3> QED
      BY <3>1, <3>2
  <2> QED
    BY <1>0, <2>1 DEF FaultInv, RotateInv
<1> QED
  BY <1>3, <1>5, <1>7 DEF FaultInv

\* open prunes nothing.
LEMMA FaultOpen ==
  ASSUME Retention = 0, FaultInv, TypeOK', MutexInv', HolderInv', NEW p \in Procs,
         Open(p) \/ KillPruning(p)
  PROVE  FaultInv'
<1>1. PICK gone \in SUBSET Aged : Prune(gone)
  BY OpenPrunes, KillPrunes
<1>2. gone = {}
  BY DEF Aged
<1>3. segs' = segs /\ retired' = retired
  BY <1>1, <1>2 DEF Prune
<1>4. UNCHANGED <<log, now, inSec, acked, pc, row>>
  BY DEF Open, KillPruning
<1> QED
  BY <1>3, <1>4, FaultQuiet

\* The gzip takes the place of no other content.
LEMMA FaultGz ==
  ASSUME OneProcess, FaultInv, TypeOK', MutexInv', HolderInv', NEW t \in Threads, RotateGz(t)
  PROVE  FaultInv'
<1> DEFINE new == [at |-> now, lines |-> log]
<1>0. /\ UNCHANGED <<log, row, now, inSec, acked, retired>>
      /\ pc[t] = "gz" /\ pc' = [pc EXCEPT ![t] = "unlink"]
      /\ segs' = {s \in segs : s.at # now} \cup {new}
  BY DEF RotateGz
<1>1. pc'[t] = "unlink" /\ \A u \in Threads : u # t => pc'[u] = pc[u]
  BY <1>0 DEF FaultInv, TypeOK
<1>2. RotateAt > 0 /\ Len(log) >= RotateAt
  BY <1>0 DEF FaultInv, RotateInv
<1>3. Len(log) > inSec
  BY <1>2, SlowFillAssumption, BoundAssumption DEF FaultInv, RotateInv, TypeOK
<1>4. ASSUME NEW s \in segs PROVE s \in segs'
  <2>1. CASE s.at # now
    BY <1>0, <2>1
  <2>2. CASE s.at = now
    <3>1. s.lines = log
      BY <1>3, <2>2 DEF FaultInv, RotateInv, TypeOK
    <3>2. s = new
      BY <2>2, <3>1 DEF FaultInv, TypeOK
    <3> QED
      BY <1>0, <3>2
  <2> QED
    BY <2>1, <2>2
<1>5. \A s \in segs' : s \in segs \/ s = new
  BY <1>0
<1>6. Damaged => Damaged'
  BY <1>0, <1>4 DEF Damaged
<1>7. LostOnlyTorn'
  <2>1. CASE Damaged
    BY <1>6, <2>1 DEF LostOnlyTorn
  <2>2. CASE AckedReadable
    <3> SUFFICES ASSUME NEW d \in acked'
                 PROVE  \/ d \in Digests(log')
                        \/ \E s \in segs' : d \in Digests(s.lines)
                        \/ d \in retired'
      BY DEF LostOnlyTorn, AckedReadable, OnDisk
    <3> QED
      BY <1>0, <1>4, <2>2, AckedDef
  <2> QED
    BY <2>1, <2>2 DEF FaultInv, LostOnlyTorn
<1>8. WrittenInv'
  BY <1>0, <1>1, <1>6 DEF FaultInv, WrittenInv
<1>9. RotateInv'
  <2>1. new \in segs' /\ new.lines = log /\ new.at = now
    BY <1>0
  <2>2. ASSUME NEW u \in Threads
        PROVE /\ pc'[u] \in {"gz", "unlink"} => RotateAt > 0 /\ Len(log) >= RotateAt
              /\ pc'[u] = "write" /\ RotateAt > 0 => Len(log) < RotateAt
              /\ pc'[u] = "unlink" => \E s \in segs' : s.lines = log
    <3>1. CASE u = t
      BY <1>1, <1>2, <2>1, <3>1
    <3>2. CASE u # t
      <4>1. pc[u] = "idle"
        BY <1>0, <3>2, Exclusive DEF FaultInv
      <4> QED
        BY <1>1, <3>2, <4>1
    <3> QED
      BY <3>1, <3>2
  <2>3. ASSUME NEW s \in segs'
        PROVE /\ RotateAt > 0 /\ Len(s.lines) >= RotateAt
              /\ s.at <= now
              /\ s.at = now => s.lines = log \/ Len(log) <= inSec
    <3>1. CASE s \in segs
      BY <3>1 DEF FaultInv, RotateInv
    <3>2. CASE s = new
      BY <1>2, <2>1, <3>2 DEF FaultInv, TypeOK
    <3> QED
      BY <1>5, <3>1, <3>2
  <2> QED
    BY <1>0, <2>2, <2>3 DEF FaultInv, RotateInv
<1> QED
  BY <1>7, <1>8, <1>9 DEF FaultInv

\* The file is in the segment when it goes.
LEMMA FaultUnlink ==
  ASSUME OneProcess, FaultInv, TypeOK', MutexInv', HolderInv', NEW t \in Threads, RotateUnlink(t)
  PROVE  FaultInv'
<1>0. /\ UNCHANGED <<segs, row, now, inSec, acked, retired>>
      /\ log' = <<>> /\ pc[t] = "unlink" /\ pc' = [pc EXCEPT ![t] = "write"]
  BY DEF RotateUnlink
<1>1. pc'[t] = "write" /\ \A u \in Threads : u # t => pc'[u] = pc[u]
  BY <1>0 DEF FaultInv, TypeOK
<1>2. \A u \in Threads : u # t => pc'[u] = "idle"
  BY <1>0, <1>1, Exclusive DEF FaultInv
<1>3. PICK c \in segs : c.lines = log
  BY <1>0 DEF FaultInv, RotateInv
<1>4. Damaged => Damaged'
  BY <1>0, <1>3 DEF Damaged
<1>5. LostOnlyTorn'
  <2>1. CASE Damaged
    BY <1>4, <2>1 DEF LostOnlyTorn
  <2>2. CASE AckedReadable
    <3> SUFFICES ASSUME NEW d \in acked'
                 PROVE  \/ d \in Digests(log')
                        \/ \E s \in segs' : d \in Digests(s.lines)
                        \/ d \in retired'
      BY DEF LostOnlyTorn, AckedReadable, OnDisk
    <3> QED
      BY <1>0, <1>3, <2>2, AckedDef
  <2> QED
    BY <2>1, <2>2 DEF FaultInv, LostOnlyTorn
<1>6. WrittenInv'
  BY <1>1, <1>2 DEF WrittenInv
<1>7. RotateInv'
  <2>1. Len(log') = 0
    BY <1>0
  <2>2. RotateAt > 0
    BY <1>0 DEF FaultInv, RotateInv
  <2>3. ASSUME NEW u \in Threads
        PROVE /\ pc'[u] \notin {"gz", "unlink"}
              /\ pc'[u] = "write" /\ RotateAt > 0 => Len(log') < RotateAt
    BY <1>1, <1>2, <2>1, <2>2
  <2>4. \A s \in segs : Len(log') <= inSec
    BY <2>1 DEF FaultInv, TypeOK
  <2> QED
    BY <1>0, <2>3, <2>4 DEF FaultInv, RotateInv
<1> QED
  BY <1>5, <1>6, <1>7 DEF FaultInv

\* Bytes go to the end of the file: they add a line, or spoil the last one.
LEMMA PutBytesFacts ==
  ASSUME TypeOK, NEW r \in LogRow, NEW cut
  PROVE  /\ PutBytes(r, cut) \in Seq(Line) /\ Len(PutBytes(r, cut)) <= Len(log) + 1
         /\ \/ Torn(PutBytes(r, cut))
            \/ eol /\ cut # "part" /\ PutBytes(r, cut) = Append(log, r)
<1> DEFINE base == IF eol THEN log ELSE SubSeq(log, 1, Len(log) - 1)
           last == IF eol /\ cut # "part" THEN r ELSE Garbage
           a == Append(base, last)
<1>1. PutBytes(r, cut) = a
  BY DEF PutBytes
<1>2. log \in Seq(Line) /\ Len(log) \in Nat /\ r \in Line /\ Garbage \in Line
  BY DEF TypeOK, Line
<1>3. base \in Seq(Line) /\ Len(base) <= Len(log) /\ Len(base) \in Nat
  BY <1>2
<1>4. last \in Line
  BY <1>2
<1>5. CASE eol /\ cut # "part"
  BY <1>1, <1>2, <1>5
<1>6. CASE ~(eol /\ cut # "part")
  <2>1. last = Garbage
    BY <1>6
  <2> HIDE DEF base, last
  <2>2. a \in Seq(Line) /\ Len(a) = Len(base) + 1 /\ a[Len(a)] = Garbage
    BY <1>3, <1>4, <2>1
  <2>3. ~IsRow(Garbage)
    BY DEF IsRow, Garbage
  <2>4. Len(a) \in 1..Len(a) /\ Len(a) <= Len(log) + 1
    BY <1>2, <1>3, <2>2
  <2>5. Torn(a)
    BY <2>2, <2>3, <2>4 DEF Torn
  <2> QED
    BY <1>1, <2>2, <2>4, <2>5
<1> QED
  BY <1>5, <1>6

\* A row is written, whole or not, and its thread moves on or gives up.
LEMMA FaultPut ==
  ASSUME OneProcess, FaultInv, TypeOK', MutexInv', HolderInv', NEW t \in Threads, pc[t] = "write", CanBuild,
         NEW r \in LogRow, NEW cut, log' = PutBytes(r, cut), inSec' = inSec + 1,
         UNCHANGED <<segs, now, acked, retired>>,
         \A u \in Threads : pc'[u] \in {"idle", "sync"},
         \A u \in Threads : pc'[u] = "sync" => row'[u] = r
  PROVE  FaultInv'
<1>0. /\ Len(log) \in Nat /\ Len(log') <= Len(log) + 1 /\ Len(log') \in Nat /\ log \in Seq(Line)
      /\ Torn(log') \/ log' = Append(log, r)
  BY PutBytesFacts DEF FaultInv, TypeOK
<1>1. ASSUME Torn(log') PROVE LostOnlyTorn' /\ WrittenInv'
  BY <1>1 DEF Damaged, LostOnlyTorn, WrittenInv
<1>2. ASSUME log' = Append(log, r) PROVE LostOnlyTorn' /\ WrittenInv'
  <2>1. r \in Line /\ IsRow(r)
    BY DEF Line, IsRow, LogRow, LogEvent
  <2>2. Digests(log) \subseteq Digests(log') /\ r.this_hash \in Digests(log')
    BY <1>0, <1>2, <2>1, DigestsAppend
  <2>3. Torn(log) => Torn(log')
    <3>1. Len(log') = Len(log) + 1 /\ \A i \in 1..Len(log) : log'[i] = log[i] /\ i \in 1..Len(log')
      BY <1>0, <1>2, <2>1
    <3> QED
      BY <3>1 DEF Torn
  <2>4. Damaged => Damaged'
    BY <2>3 DEF Damaged
  <2>5. AckedReadable => AckedReadable'
    <3> SUFFICES ASSUME AckedReadable, NEW d \in acked'
                 PROVE  \/ d \in Digests(log')
                        \/ \E s \in segs' : d \in Digests(s.lines)
                        \/ d \in retired'
      BY DEF AckedReadable, OnDisk
    <3> QED
      BY <2>2, AckedDef
  <2>6. LostOnlyTorn'
    BY <2>4, <2>5 DEF FaultInv, LostOnlyTorn
  <2> QED
    BY <2>2, <2>6 DEF WrittenInv
<1>3. LostOnlyTorn' /\ WrittenInv'
  BY <1>0, <1>1, <1>2
<1>4. inSec' <= MaxPerSec
  BY BoundAssumption DEF CanBuild, FaultInv, TypeOK
<1>5. ASSUME NEW s \in segs
      PROVE  s.at = now => Len(log') <= inSec'
  <2>1. Len(s.lines) >= RotateAt /\ Len(log) < RotateAt
    BY DEF FaultInv, RotateInv
  <2>2. s.lines # log
    BY <1>0, <2>1, BoundAssumption
  <2>3. s.at = now => Len(log) <= inSec
    BY <2>2 DEF FaultInv, RotateInv
  <2> QED
    BY <1>0, <2>3 DEF FaultInv, TypeOK
<1>6. RotateInv'
  BY <1>4, <1>5 DEF FaultInv, RotateInv
<1> QED
  BY <1>3, <1>6 DEF FaultInv

\* An append that returns Ok: its row is in the file, or has run into a torn one.
LEMMA FaultCommit ==
  ASSUME OneProcess, FaultInv, TypeOK', MutexInv', HolderInv', NEW t \in Threads, Commit(t)
  PROVE  FaultInv'
<1>0. /\ pc[t] = "sync" /\ UNCHANGED <<log, segs, now, inSec, retired>>
      /\ acked' = acked \cup {row[t].this_hash} /\ pc' = [pc EXCEPT ![t] = "idle"]
  BY DEF Commit, Return
<1>1. \A u \in Threads : pc'[u] = "idle"
  BY <1>0, Exclusive DEF FaultInv, TypeOK
<1>2. Damaged' <=> Damaged
  BY <1>0 DEF Damaged
<1>3. LostOnlyTorn'
  <2>1. CASE Damaged
    BY <1>2, <2>1 DEF LostOnlyTorn
  <2>2. CASE ~Damaged
    <3>1. AckedReadable /\ row[t].this_hash \in Digests(log)
      BY <1>0, <2>2 DEF FaultInv, LostOnlyTorn, WrittenInv
    <3> SUFFICES ASSUME NEW d \in acked'
                 PROVE  \/ d \in Digests(log')
                        \/ \E s \in segs' : d \in Digests(s.lines)
                        \/ d \in retired'
      BY DEF LostOnlyTorn, AckedReadable, OnDisk
    <3> QED
      BY <1>0, <3>1, AckedDef
  <2> QED
    BY <2>1, <2>2
<1>4. WrittenInv' /\ RotateInv'
  BY <1>0, <1>1 DEF FaultInv, WrittenInv, RotateInv
<1> QED
  BY <1>3, <1>4 DEF FaultInv

LEMMA FaultTick ==
  ASSUME FaultInv, TypeOK', MutexInv', HolderInv', Tick
  PROVE  FaultInv'
<1>0. UNCHANGED <<log, segs, pc, row, acked, retired>> /\ now' = now + 1 /\ inSec' = 0
  BY DEF Tick
<1>1. Damaged' <=> Damaged
  BY <1>0 DEF Damaged
<1>2. LostOnlyTorn' /\ WrittenInv'
  BY <1>0, <1>1 DEF FaultInv, LostOnlyTorn, AckedReadable, OnDisk, WrittenInv
<1>3. \A s \in segs : s.at <= now' /\ s.at # now'
  BY <1>0 DEF FaultInv, RotateInv, TypeOK
<1>4. RotateInv'
  BY <1>0, <1>3, BoundAssumption DEF FaultInv, RotateInv
<1> QED
  BY <1>2, <1>4 DEF FaultInv

LEMMA FaultStep ==
  ASSUME OneProcess, Retention = 0, FaultInv, TypeOK', [Next]_vars
  PROVE  FaultInv'
<1>0. MutexInv' /\ HolderInv' /\ TypeOK /\ MutexInv
  BY MutexStep DEF FaultInv
<1>1. ASSUME NEW p \in Procs, Open(p) \/ KillPruning(p) PROVE FaultInv'
  BY <1>0, <1>1, FaultOpen
<1>2. ASSUME NEW p \in Procs, Crash(p) PROVE FaultInv'
  <2>1. UNCHANGED <<log, segs, now, inSec, acked, retired>>
    BY <1>2 DEF Crash
  <2>2. \A t \in Threads : (pc'[t] = pc[t] \/ pc'[t] = "idle") /\ (pc'[t] = "sync" => row'[t] = row[t])
    BY <1>2 DEF Crash, Die
  <2> QED
    BY <1>0, <2>1, <2>2, FaultQuiet
<1>3. ASSUME NEW t \in Threads, RotateErr(t) \/ WriteErr(t) \/ SyncErr(t) PROVE FaultInv'
  <2>1. UNCHANGED <<log, segs, now, inSec, acked, retired>> /\ Return(t)
    BY <1>3 DEF RotateErr, WriteErr, SyncErr
  <2>2. \A u \in Threads : (pc'[u] = pc[u] \/ pc'[u] = "idle") /\ (pc'[u] = "sync" => row'[u] = row[u])
    BY <1>0, <2>1 DEF Return, TypeOK
  <2> QED
    BY <1>0, <2>1, <2>2, FaultQuiet
<1>4. ASSUME NEW t \in Threads, NEW event \in LogEvent, WriteRow(t, event) PROVE FaultInv'
  <2> DEFINE r == NewRow(t, event)
  <2>1. r \in LogRow
    BY <1>0, NewRowType
  <2> HIDE DEF r
  <2>2. /\ pc[t] = "write" /\ CanBuild /\ log' = PutBytes(r, "full") /\ inSec' = inSec + 1
        /\ UNCHANGED <<segs, now, acked, retired>>
        /\ pc' = [pc EXCEPT ![t] = "sync"] /\ row' = [row EXCEPT ![t] = r]
    BY <1>4 DEF WriteRow, r
  <2>3. \A u \in Threads : pc'[u] \in {"idle", "sync"} /\ (pc'[u] = "sync" => row'[u] = r)
    BY <1>0, <2>2, Exclusive DEF TypeOK
  <2> QED
    BY <1>0, <2>1, <2>2, <2>3, FaultPut
<1>5. ASSUME NEW t \in Threads, NEW cut \in {"part", "nonl"}, WriteErrTorn(t, cut) PROVE FaultInv'
  <2> DEFINE r == NewRow(t, "other")
  <2>1. r \in LogRow
    BY <1>0, NewRowType DEF LogEvent
  <2> HIDE DEF r
  <2>2. /\ pc[t] = "write" /\ CanBuild /\ log' = PutBytes(r, cut) /\ inSec' = inSec + 1
        /\ UNCHANGED <<segs, now, acked, retired>> /\ pc' = [pc EXCEPT ![t] = "idle"]
    BY <1>5 DEF WriteErrTorn, Return, r
  <2>3. \A u \in Threads : pc'[u] = "idle"
    BY <1>0, <2>2, Exclusive DEF TypeOK
  <2> QED
    BY <1>0, <2>1, <2>2, <2>3, FaultPut
<1>6. ASSUME NEW t \in Threads, NEW cut \in {"part", "nonl"}, CrashTorn(t, cut) PROVE FaultInv'
  <2> DEFINE r == NewRow(t, "other")
  <2>1. r \in LogRow
    BY <1>0, NewRowType DEF LogEvent
  <2> HIDE DEF r
  <2>2. /\ pc[t] = "write" /\ CanBuild /\ log' = PutBytes(r, cut) /\ inSec' = inSec + 1
        /\ UNCHANGED <<segs, now, acked, retired>> /\ Die(ProcOf[t])
    BY <1>6 DEF CrashTorn, r
  <2>3. \A u \in Threads : ProcOf[u] = ProcOf[t]
    BY ProcAssumption DEF OneProcess
  <2>4. \A u \in Threads : pc'[u] = "idle"
    BY <2>2, <2>3 DEF Die
  <2> QED
    BY <1>0, <2>1, <2>2, <2>4, FaultPut
<1>7. CASE UNCHANGED vars
  BY <1>0, <1>7, FaultQuiet DEF vars
<1>8. ASSUME NEW t \in Threads, Enter(t) \/ RotateGz(t) \/ RotateUnlink(t) \/ Commit(t) PROVE FaultInv'
  BY <1>0, <1>8, FaultEnter, FaultGz, FaultUnlink, FaultCommit
<1>9. CASE Tick
  BY <1>0, <1>9, FaultTick
<1> QED
  BY <1>1, <1>2, <1>3, <1>4, <1>5, <1>6, <1>7, <1>8, <1>9 DEF Next
----------------------------------------------------------------------------
(* The theorems.                                                           *)

\* The inductive invariant, for one process on a clean disk.
THEOREM Invariant ==
  ASSUME OneProcess, CleanDisk
  PROVE  Spec => []IInv
<1>1. Init /\ TypeOK => IInv
  BY IInvInit
<1>2. IInv /\ TypeOK' /\ [Next]_vars => IInv'
  BY IInvStep
<1> QED
  BY <1>1, <1>2, TypeCorrect, PTL DEF Spec

\* One process that never meets an I/O error other than a refused write keeps a
\* log that audit-log --verify accepts, whatever crashes and rotations happen,
\* up to a last line torn by a crash.
THEOREM LogVerifies ==
  ASSUME OneProcess, CleanDisk
  PROVE  Spec => []AtMostTornLastLine
<1>1. IInv => AtMostTornLastLine
  BY IInvImplies
<1> QED
  BY <1>1, Invariant, PTL

\* No acknowledged row is lost before retention deletes it.
THEOREM NoAckedRowLost ==
  ASSUME OneProcess, CleanDisk
  PROVE  Spec => []AckedReadable
<1>1. IInv => AckedReadable
  BY IInvImplies
<1> QED
  BY <1>1, Invariant, PTL

\* A restart is invisible in the chain.
THEOREM RestartIsInvisible ==
  ASSUME OneProcess, CleanDisk
  PROVE  Spec => []MemoryIsWhatRestartRecovers
<1>1. IInv => MemoryIsWhatRestartRecovers
  BY IInvImplies
<1> QED
  BY <1>1, Invariant, PTL

\* Rotated segments stay as they were written until their retention is over.
THEOREM SegmentsAreKept ==
  ASSUME OneProcess, CleanDisk
  PROVE  Spec => SegmentsKept
<1> DEFINE Kept ==
      \A s \in segs : s \in segs' \/ (Retention > 0 /\ now - s.at > Retention)
<1>1. IInv /\ TypeOK' /\ [Next]_vars => [Kept]_vars
  <2> SUFFICES ASSUME IInv, TypeOK', Next PROVE Kept
    OBVIOUS
  <2>1. ASSUME NEW p \in Procs, Open(p) \/ KillPruning(p) PROVE Kept
    <3>1. PICK gone \in SUBSET Aged : Prune(gone)
      BY <2>1, OpenPrunes, KillPrunes
    <3> QED
      BY <3>1 DEF Prune, Aged
  <2>2. ASSUME NEW t \in Threads, RotateGz(t) PROVE Kept
    <3>1. MutexInv' /\ HolderInv'
      BY MutexStep DEF IInv
    <3> QED
      BY <2>2, <3>1, RotateGzStep
  <2>3. ASSUME UNCHANGED segs PROVE Kept
    BY <2>3
  <2>4. ASSUME NEW p \in Procs, Crash(p) PROVE UNCHANGED segs
    BY <2>4 DEF Crash
  <2>5. ASSUME NEW t \in Threads,
               \/ Enter(t) \/ RotateUnlink(t) \/ RotateErr(t) \/ WriteErr(t)
               \/ Commit(t) \/ SyncErr(t) \/ Tick
               \/ \E event \in LogEvent : WriteRow(t, event)
               \/ \E cut \in {"part", "nonl"} : WriteErrTorn(t, cut) \/ CrashTorn(t, cut)
        PROVE UNCHANGED segs
    BY <2>5 DEF Enter, RotateUnlink, RotateErr, WriteErr, Commit, SyncErr, Tick,
                WriteRow, WriteErrTorn, CrashTorn
  <2>6. Tick => UNCHANGED segs
    BY DEF Tick
  <2> QED
    BY <2>1, <2>2, <2>3, <2>4, <2>5, <2>6 DEF Next
<1> QED
  BY <1>1, Invariant, TypeCorrect, PTL DEF Spec, SegmentsKept

\* Short writes, failed fsyncs and crashes included: as long as no segment has been
\* deleted, an acknowledged row that cannot be read back has left a line that
\* audit-log --verify reports, so a log that verifies has lost nothing.
THEOREM LossShows ==
  ASSUME OneProcess, Retention = 0
  PROVE  Spec => []LossIsDetected
<1>1. Init /\ TypeOK => FaultInv
  <2> SUFFICES ASSUME Init, TypeOK PROVE FaultInv
    OBVIOUS
  <2>1. MutexInv /\ HolderInv /\ WrittenInv
    BY DEF Init, MutexInv, HolderInv, WrittenInv
  <2>2. LostOnlyTorn
    BY DEF Init, LostOnlyTorn, AckedReadable
  <2>3. RotateInv
    BY BoundAssumption DEF Init, RotateInv
  <2> QED
    BY <2>1, <2>2, <2>3 DEF FaultInv
<1>2. FaultInv /\ TypeOK' /\ [Next]_vars => FaultInv'
  BY FaultStep
<1>3. FaultInv => LossIsDetected
  BY DEF FaultInv, LostOnlyTorn, Damaged, Torn, LossIsDetected, Verifies, LineVerifies
<1> QED
  BY <1>1, <1>2, <1>3, TypeCorrect, PTL DEF Spec

\* Rotation and retention take rows oldest first: no acknowledged row is missing
\* between two rows that can be read.
THEOREM TrailHasNoGap ==
  ASSUME OneProcess, CleanDisk
  PROVE  Spec => []NoGap
<1>1. Init /\ IInv => TrailInv
  BY TrailInit
<1>2. TrailInv /\ IInv' /\ [Next]_vars => TrailInv'
  BY TrailStep
<1>3. TrailInv => NoGap
  <2> SUFFICES ASSUME TrailInv, NEW d \in OnDisk, NEW e \in acked, d < e, e \notin OnDisk
               PROVE  FALSE
    BY DEF NoGap
  <2>1. d \in Nat /\ e \in Nat
    BY DEF TrailInv, Numbered
  <2>2. e < d
    BY DEF TrailInv, MissingOld, Trail!Before
  <2> QED
    BY <2>1, <2>2
<1> QED
  BY <1>1, <1>2, <1>3, Invariant, PTL DEF Spec

\* One process that never meets an I/O error other than a refused write keeps
\* the audit trail: every step of the log is a step of AuditTrail, or none.
THEOREM KeepsTheTrail ==
  ASSUME OneProcess, CleanDisk
  PROVE  Spec => KeepsTrail
<1>1. Init /\ IInv => TrailInv /\ Trail!Init
  BY TrailInit
<1>2. TrailInv /\ IInv' /\ [Next]_vars =>
        TrailInv' /\ [Trail!Next]_<<Progress, Made, OnDisk, acked, retired>>
  BY TrailStep
<1>3. Spec => []IInv
  BY Invariant
<1>4. [Trail!Next]_<<Progress, Made, OnDisk, acked, retired>> => [Trail!Next]_(Trail!trailVars)
  BY DEF Trail!trailVars
<1> QED
  BY <1>1, <1>2, <1>3, <1>4, PTL DEF Spec, KeepsTrail, Trail!Spec
=============================================================================
