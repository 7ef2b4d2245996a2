---------------------------- MODULE BatchProofs ----------------------------
(***************************************************************************)
(* Proofs about Batch for every file, window, number of slots and bound on *)
(* the panics.  The invariant relates a task to the queues it is in        *)
(* (Guarded, Queued), and what was told so far to what has been taken from *)
(* the file (Named, Counted); Phase says what the main task may rely on    *)
(* where it is.                                                            *)
(***************************************************************************)
EXTENDS Batch, FiniteSetTheorems, SequenceTheorems, TLAPS

-----------------------------------------------------------------------------
(* Queues.                                                                 *)

LEMMA ElementOf == \A T : \A q \in Seq(T) : Len(q) \in Nat /\ \A i \in 1..Len(q) : q[i] \in T
  OBVIOUS

LEMMA Appended ==
  ASSUME NEW T, NEW q \in Seq(T), NEW x \in T
  PROVE  /\ Append(q, x) \in Seq(T) /\ Len(Append(q, x)) = Len(q) + 1
         /\ Append(q, x)[Len(q) + 1] = x
         /\ \A i \in 1..Len(q) : Append(q, x)[i] = q[i]
  OBVIOUS

LEMMA Concatenated ==
  ASSUME NEW T, NEW x \in Seq(T), NEW y \in Seq(T)
  PROVE  /\ x \o y \in Seq(T) /\ Len(x \o y) = Len(x) + Len(y)
         /\ \A i \in 1..Len(x) + Len(y) : (x \o y)[i] = IF i <= Len(x) THEN x[i] ELSE y[i - Len(x)]
  BY ConcatProperties

\* What is in a queue after Without(q, k), if k was in it once.
LEMMA Removed ==
  ASSUME NEW T, NEW q \in Seq(T), NEW k, \E i \in 1..Len(q) : q[i] = k,
         \A i, j \in 1..Len(q) : q[i] = q[j] => i = j
  PROVE  LET w == Without(q, k) IN
         /\ w \in Seq(T)
         /\ \A i \in 1..Len(w) : w[i] # k /\ \E j \in 1..Len(q) : w[i] = q[j]
         /\ \A i, j \in 1..Len(w) : w[i] = w[j] => i = j
         /\ \A j \in 1..Len(q) : q[j] # k => \E i \in 1..Len(w) : w[i] = q[j]
<1> DEFINE n == CHOOSE i \in 1..Len(q) : q[i] = k
           x == SubSeq(q, 1, n - 1)
           y == SubSeq(q, n + 1, Len(q))
           w == x \o y
<1>1. n \in 1..Len(q) /\ q[n] = k
  OBVIOUS
<1>2. Len(q) \in Nat
  OBVIOUS
<1> HIDE DEF n
<1>3. x \in Seq(T) /\ Len(x) = n - 1 /\ \A i \in 1..(n - 1) : x[i] = q[i]
  BY <1>1, <1>2
<1>4. y \in Seq(T) /\ Len(y) = Len(q) - n /\ \A i \in 1..(Len(q) - n) : y[i] = q[n + i]
  BY <1>1, <1>2
<1> HIDE DEF x, y
<1>5. /\ w \in Seq(T) /\ Len(w) = Len(x) + Len(y)
      /\ \A i \in 1..Len(x) + Len(y) : w[i] = IF i <= Len(x) THEN x[i] ELSE y[i - Len(x)]
  <2>1. x \in Seq(T) /\ y \in Seq(T)
    BY <1>3, <1>4
  <2> QED
    BY <2>1, Concatenated
<1> HIDE DEF w
<1>6. Len(w) = Len(q) - 1 /\ Len(x) + Len(y) = Len(q) - 1
  BY <1>1, <1>2, <1>3, <1>4, <1>5
<1>7. \A i \in 1..(Len(q) - 1) : w[i] = q[IF i < n THEN i ELSE i + 1]
  <2> TAKE i \in 1..(Len(q) - 1)
  <2>0. w[i] = IF i <= n - 1 THEN x[i] ELSE y[i - (n - 1)]
    <3>1. i \in 1..Len(x) + Len(y)
      BY <1>6
    <3>2. w[i] = IF i <= Len(x) THEN x[i] ELSE y[i - Len(x)]
      BY <3>1, <1>5
    <3>3. Len(x) = n - 1
      BY <1>3
    <3> QED
      BY <3>2, <3>3
  <2>1. CASE i < n
    <3>1. i \in 1..(n - 1) /\ i <= n - 1
      BY <2>1, <1>1, <1>2
    <3>2. x[i] = q[i]
      BY <3>1, <1>3
    <3> QED
      BY <3>1, <3>2, <2>0, <2>1
  <2>2. CASE ~(i < n)
    <3>1. i - (n - 1) \in 1..(Len(q) - n) /\ n + (i - (n - 1)) = i + 1 /\ ~(i <= n - 1)
      BY <2>2, <1>1, <1>2
    <3>2. w[i] = y[i - (n - 1)]
      BY <3>1, <2>0
    <3> QED
      BY <3>1, <3>2, <2>2, <1>4
  <2> QED
    BY <2>1, <2>2
<1>8. \A j \in 1..Len(q) : j # n => \E i \in 1..(Len(q) - 1) : w[i] = q[j]
  <2> SUFFICES ASSUME NEW j \in 1..Len(q), j # n
               PROVE  \E i \in 1..(Len(q) - 1) : w[i] = q[j]
    OBVIOUS
  <2>1. CASE j < n
    BY <2>1, <1>1, <1>2, <1>7
  <2>2. CASE j > n
    <3>1. j - 1 \in 1..(Len(q) - 1) /\ ~(j - 1 < n) /\ (j - 1) + 1 = j
      BY <2>2, <1>1, <1>2
    <3> QED
      BY <3>1, <1>7
  <2> QED
    BY <2>1, <2>2, <1>1, <1>2
<1>9. Without(q, k) = w
  BY DEF Without, RemoveAt, w, x, y, n
<1>10. \A i \in 1..(Len(q) - 1) : (IF i < n THEN i ELSE i + 1) \in 1..Len(q) \ {n}
  BY <1>1, <1>2
<1>11. \A i, j \in 1..(Len(q) - 1) :
         (IF i < n THEN i ELSE i + 1) = (IF j < n THEN j ELSE j + 1) => i = j
  BY <1>1, <1>2
<1>12. \A i, j \in 1..Len(w) : w[i] = w[j] => i = j
  <2> SUFFICES ASSUME NEW i \in 1..(Len(q) - 1), NEW j \in 1..(Len(q) - 1), w[i] = w[j]
               PROVE  i = j
    BY <1>6
  <2> DEFINE a == IF i < n THEN i ELSE i + 1
             b == IF j < n THEN j ELSE j + 1
  <2>1. a \in 1..Len(q) /\ b \in 1..Len(q) /\ q[a] = q[b]
    BY <1>7, <1>10
  <2>2. a = b
    BY <2>1
  <2> QED
    BY <2>2, <1>11
<1>13. \A i \in 1..Len(w) : w[i] # k /\ \E j \in 1..Len(q) : w[i] = q[j]
  <2> SUFFICES ASSUME NEW i \in 1..(Len(q) - 1)
               PROVE  w[i] # k /\ \E j \in 1..Len(q) : w[i] = q[j]
    BY <1>6
  <2> DEFINE a == IF i < n THEN i ELSE i + 1
  <2>1. a \in 1..Len(q) /\ a # n /\ w[i] = q[a]
    BY <1>7, <1>10
  <2> QED
    BY <2>1, <1>1
<1>14. \A j \in 1..Len(q) : q[j] # k => \E i \in 1..Len(w) : w[i] = q[j]
  BY <1>1, <1>6, <1>8
<1> QED
  BY <1>5, <1>9, <1>12, <1>13, <1>14

-----------------------------------------------------------------------------
(* The invariant.                                                          *)

TaskStates == {"none", "spawned", "locking", "admitted", "asking", "answered", "over", "joined"}
Working == {"admitted", "asking", "answered"}
Pending == {k \in Positions : task[k] \notin {"none", "joined"}}
AllCodes == Codes \cup {"none", "FETCH_ERROR", "INVALID_REF", "NOT_IMPLEMENTED", "NOT_FOUND"}
Verdicts == {Taken(r) : r \in Refs} \cup {Rejected(c) : c \in AllCodes \ {"none"}}
OutcomeKinds == {"none", "clean", "blocked", "err", "lost"}
Size == IF file = "undecodable" THEN 0 ELSE Len(file)

Shape ==
  /\ (file = "undecodable" \/ file \in Seq(Entries))
  /\ inputs \in Seq(Verdicts) /\ N <= Size
  /\ taken \in Nat /\ upto \in Nat /\ taken <= upto /\ upto <= N
  /\ task \in [Positions -> TaskStates]
  /\ outcome \in [Positions -> [kind : OutcomeKinds, code : AllCodes]]
  /\ locked \in [Refs -> Seq(Positions)] /\ permits \in Seq(Positions)
  /\ index \in [Refs -> AllCodes]
  /\ ledger \in [ok : Nat, parse_errors : Nat, fetch_errors : Nat, skipped : Nat]
  /\ told \in Seq([entry : Nat, ok : BOOLEAN])

\* Where the main task is, and what it has seen to by then.
Phase ==
  /\ main \in {"read", "resolve", "dispatch", "join", "over", "aborted"}
  /\ main \in {"read", "resolve"} => rows = <<>> /\ taken = 0 /\ upto = 0
  /\ main \in {"dispatch", "join"} => N = Size
  /\ main \in {"resolve", "dispatch", "join"} => file # "undecodable"
  /\ main = "dispatch" /\ taken = upto => Pending = {}
  /\ main = "over" => rows = <<>> \/ (taken = Size /\ Pending = {} /\ file # "undecodable")

\* There is a task only for an entry that was taken and has a ref.
Placed ==
  \A k \in Positions :
    /\ task[k] # "none" => k <= taken /\ inputs[k].code = "none"
    /\ outcome[k].kind = "lost" => task[k] \in {"over", "joined"}

\* Whoever is past the lock is at the head of its queue: alone with its ref.
Guarded == \A k \in Positions : task[k] \in Working => HoldsLock(k)

\* The semaphore's queue holds the tasks past the lock, each once.
Queued ==
  /\ \A i \in 1..Len(permits) : task[permits[i]] \in Working
  /\ \A i, j \in 1..Len(permits) : permits[i] = permits[j] => i = j
  /\ \A k \in Positions : task[k] \in Working => \E i \in 1..Len(permits) : permits[i] = k

\* The entries that are dealt with, and the reports that name one.
Settled(k) == k <= taken /\ task[k] \in {"none", "joined"}
Named ==
  /\ \A k \in Positions : Settled(k) /\ outcome[k].kind # "lost" =>
       \E i \in 1..Len(told) : told[i].entry = k
  /\ \A i \in 1..Len(told) : told[i].entry # 0 =>
       /\ told[i].entry \in Positions /\ Settled(told[i].entry)
       /\ outcome[told[i].entry].kind # "lost"
  /\ \A i, j \in 1..Len(told) : told[i].entry = told[j].entry /\ told[i].entry # 0 => i = j

LostAndJoined == {k \in Lost : task[k] = "joined"}
LedgerSum == ledger.ok + ledger.parse_errors + ledger.fetch_errors + ledger.skipped
Counted ==
  /\ Cardinality(Told(0)) = Cardinality(LostAndJoined)
  /\ LedgerSum = Len(told)
  /\ Len(told) + Cardinality(Pending) = taken

IInv == Shape /\ Phase /\ Placed /\ Guarded /\ Queued /\ NotAskedInVain /\ Named /\ Counted

LEMMA Known ==
  ASSUME Shape
  PROVE  /\ Size \in Nat /\ N \in Nat /\ Positions = 1..Size
         /\ \A k \in 1..N : inputs[k] \in Verdicts
         /\ \A k \in 1..N : inputs[k].code = "none" => RefOf(k) \in Refs
         /\ IsFiniteSet(Positions) /\ Len(told) \in Nat
<1>1. Size \in Nat /\ N \in Nat /\ Positions = 1..Size /\ Len(told) \in Nat
  BY ElementOf DEF Shape, Size, N, Positions
<1>2. \A k \in 1..N : inputs[k] \in Verdicts
  BY ElementOf DEF Shape, N
<1>3. \A b \in Verdicts : b.code = "none" => b.ref \in Refs
  BY DEF Verdicts, Taken, Rejected
<1>4. IsFiniteSet(Positions)
  BY <1>1, FS_Interval
<1> QED
  BY <1>1, <1>2, <1>3, <1>4 DEF RefOf

\* A task that works has a ref.
LEMMA TaskHasRef ==
  ASSUME Shape, Placed, NEW k \in Positions, task[k] # "none"
  PROVE  RefOf(k) \in Refs
<1>1. k \in 1..N
  BY Known DEF Shape, Placed
<1> QED
  BY <1>1, Known DEF Placed

\* Two tasks past the lock have different refs.
LEMMA AloneWithRef ==
  ASSUME Guarded, NEW k \in Positions, NEW j \in Positions,
         task[k] \in Working, task[j] \in Working, RefOf(k) = RefOf(j)
  PROVE  k = j
  BY DEF Guarded, HoldsLock

-----------------------------------------------------------------------------
(* What is reported does not change while a task goes on.                  *)

Busy == {"spawned", "locking", "admitted", "asking", "answered"}
LEMMA TaskGoesOn ==
  ASSUME Shape, Placed, Named, Counted, NEW k \in Positions, task[k] \in Busy,
         NEW w \in Busy \cup {"over"}, task' = [task EXCEPT ![k] = w],
         \A j \in Positions \ {k} : outcome'[j] = outcome[j],
         UNCHANGED <<file, taken, told, ledger>>
  PROVE  Positions' = Positions /\ Pending' = Pending /\ Named' /\ Counted'
<1>1. Positions' = Positions /\ Size' = Size
  BY DEF Positions, Size
<1>2. task'[k] = w /\ \A j \in Positions \ {k} : task'[j] = task[j] /\ outcome'[j] = outcome[j]
  BY DEF Shape
<1>3. task[k] \notin {"none", "joined"} /\ task'[k] \notin {"none", "joined"}
  BY <1>2 DEF Busy
<1>4. Pending' = Pending
  BY <1>1, <1>2, <1>3 DEF Pending
<1>5. \A j \in Positions : Settled(j)' <=> Settled(j)
  BY <1>2, <1>3 DEF Settled
<1>6. \A j \in Positions : Settled(j) => j # k /\ outcome'[j] = outcome[j]
  BY <1>2, <1>3 DEF Settled
<1>7. Named'
  <2>1. \A j \in Positions : Settled(j)' /\ outcome'[j].kind # "lost" =>
          \E i \in 1..Len(told) : told[i].entry = j
    BY <1>5, <1>6 DEF Named
  <2>2. \A i \in 1..Len(told) : told[i].entry # 0 =>
          /\ told[i].entry \in Positions /\ Settled(told[i].entry)'
          /\ outcome'[told[i].entry].kind # "lost"
    <3> SUFFICES ASSUME NEW i \in 1..Len(told), told[i].entry # 0
                 PROVE  /\ told[i].entry \in Positions /\ Settled(told[i].entry)'
                        /\ outcome'[told[i].entry].kind # "lost"
      OBVIOUS
    <3>1. /\ told[i].entry \in Positions /\ Settled(told[i].entry)
          /\ outcome[told[i].entry].kind # "lost"
      BY DEF Named
    <3> QED
      BY <3>1, <1>5, <1>6
  <2> QED
    BY <1>1, <2>1, <2>2 DEF Named
<1>8. LostAndJoined' = LostAndJoined
  BY <1>1, <1>2, <1>3 DEF LostAndJoined, Lost
<1>9. Counted'
  BY <1>4, <1>8 DEF Counted, Told, LedgerSum
<1> QED
  BY <1>1, <1>4, <1>7, <1>9

\* The main task does not see it either, unless a panic ends the process.
LEMMA MainUndisturbed ==
  ASSUME Phase, Pending' = Pending, main' \in {main, "aborted"},
         UNCHANGED <<file, inputs, taken, upto, rows>>
  PROVE  Phase'
  BY DEF Phase, Size, N

\* A step of a task that keeps its place in the queues.
LEMMA StaysInLine ==
  ASSUME Shape, Placed, Guarded, Queued, NEW k \in Positions, task[k] \in Working,
         NEW w \in Working, task' = [task EXCEPT ![k] = w],
         UNCHANGED <<file, inputs, locked, permits>>
  PROVE  Guarded' /\ Queued'
<1>1. Positions' = Positions
  BY DEF Positions
<1>2. \A j \in Positions : task'[j] \in Working <=> task[j] \in Working
  BY DEF Shape
<1>3. \A j : HoldsLock(j)' <=> HoldsLock(j)
  BY DEF HoldsLock, RefOf
<1>4. Guarded'
  BY <1>1, <1>2, <1>3 DEF Guarded
<1>5. \A i \in 1..Len(permits) : permits[i] \in Positions
  BY ElementOf DEF Shape
<1>6. Queued'
  BY <1>1, <1>2, <1>5 DEF Queued
<1> QED
  BY <1>4, <1>6

\* The end of a task: the next in line for its ref takes the lock, and the
\* semaphore's queue closes up.
LEMMA Released ==
  ASSUME Shape, Placed, Guarded, Queued, NEW k \in Positions, task[k] \in Working,
         task' = [task EXCEPT ![k] = "over"], Release(k), UNCHANGED <<file, inputs>>
  PROVE  /\ Guarded' /\ Queued'
         /\ locked' \in [Refs -> Seq(Positions)] /\ permits' \in Seq(Positions)
<1>0. "over" \notin Working /\ "none" \notin Working
  BY DEF Working
<1>1. Positions' = Positions
  BY DEF Positions
<1>2. task'[k] = "over" /\ \A j \in Positions \ {k} : task'[j] = task[j]
  BY DEF Shape
<1>3. RefOf(k) \in Refs
  BY <1>0, TaskHasRef
<1>4. locked[RefOf(k)] # <<>> /\ locked[RefOf(k)] \in Seq(Positions)
  BY <1>3 DEF Guarded, HoldsLock, Shape
<1>5. /\ locked' \in [Refs -> Seq(Positions)]
      /\ \A r \in Refs \ {RefOf(k)} : locked'[r] = locked[r]
  <2>1. Tail(locked[RefOf(k)]) \in Seq(Positions)
    BY <1>4, HeadTailProperties
  <2>2. locked' = [locked EXCEPT ![RefOf(k)] = Tail(locked[RefOf(k)])]
    BY DEF Release
  <2>3. locked \in [Refs -> Seq(Positions)]
    BY DEF Shape
  <2> QED
    BY <2>1, <2>2, <2>3, <1>3
<1>6. Guarded'
  <2> SUFFICES ASSUME NEW j \in Positions, task'[j] \in Working
               PROVE  HoldsLock(j)'
    BY <1>1 DEF Guarded
  <2>1. j # k /\ task[j] \in Working
    BY <1>0, <1>2
  <2>2. RefOf(j) \in Refs /\ RefOf(j) # RefOf(k)
    BY <2>1, <1>0, TaskHasRef, AloneWithRef
  <2>3. locked'[RefOf(j)] = locked[RefOf(j)] /\ RefOf(j)' = RefOf(j)
    BY <2>2, <1>5 DEF RefOf
  <2> QED
    BY <2>1, <2>3 DEF Guarded, HoldsLock
<1>7. permits \in Seq(Positions) /\ \A i \in 1..Len(permits) : permits[i] \in Positions
  BY ElementOf DEF Shape
<1>8. LET w == Without(permits, k) IN
      /\ w \in Seq(Positions)
      /\ \A i \in 1..Len(w) : w[i] # k /\ \E j \in 1..Len(permits) : w[i] = permits[j]
      /\ \A i, j \in 1..Len(w) : w[i] = w[j] => i = j
      /\ \A j \in 1..Len(permits) : permits[j] # k => \E i \in 1..Len(w) : w[i] = permits[j]
  <2>1. \E i \in 1..Len(permits) : permits[i] = k
    BY DEF Queued
  <2>2. \A i, j \in 1..Len(permits) : permits[i] = permits[j] => i = j
    BY DEF Queued
  <2> QED
    BY <1>7, <2>1, <2>2, Removed
<1>9. permits' = Without(permits, k)
  BY DEF Release
<1>10. Queued'
  <2>1. \A i \in 1..Len(permits') : task'[permits'[i]] \in Working
    <3> SUFFICES ASSUME NEW i \in 1..Len(permits')
                 PROVE  task'[permits'[i]] \in Working
      OBVIOUS
    <3>1. PICK j \in 1..Len(permits) : permits'[i] = permits[j] /\ permits[j] # k
      BY <1>8, <1>9
    <3>2. permits[j] \in Positions \ {k} /\ task[permits[j]] \in Working
      BY <3>1, <1>7 DEF Queued
    <3> QED
      BY <3>1, <3>2, <1>2
  <2>2. \A i, j \in 1..Len(permits') : permits'[i] = permits'[j] => i = j
    BY <1>8, <1>9
  <2>3. \A j \in Positions : task'[j] \in Working => \E i \in 1..Len(permits') : permits'[i] = j
    <3> SUFFICES ASSUME NEW j \in Positions, task'[j] \in Working
                 PROVE  \E i \in 1..Len(permits') : permits'[i] = j
      OBVIOUS
    <3>1. j # k /\ task[j] \in Working
      BY <1>0, <1>2
    <3>2. PICK n \in 1..Len(permits) : permits[n] = j
      BY <3>1 DEF Queued
    <3> QED
      BY <3>1, <3>2, <1>8, <1>9
  <2> QED
    BY <1>1, <2>1, <2>2, <2>3 DEF Queued
<1> QED
  BY <1>5, <1>6, <1>8, <1>9, <1>10

-----------------------------------------------------------------------------
(* The steps of a task.                                                    *)

LEMMA TakeLockKeeps ==
  ASSUME IInv, NEW k \in Positions, TakeLock(k)
  PROVE  IInv'
<1>1. /\ Shape /\ Phase /\ Placed /\ Guarded /\ Queued /\ NotAskedInVain /\ Named /\ Counted
      /\ UNCHANGED <<file, opts, main, inputs, taken, upto, ledger, told, rows, outcome, permits, index>>
      /\ task[k] = "spawned" /\ task' = [task EXCEPT ![k] = "locking"]
      /\ locked' = [locked EXCEPT ![RefOf(k)] = Append(locked[RefOf(k)], k)]
  BY DEF IInv, TakeLock, Goes, mainVars, reportVars
<1>2. Positions' = Positions /\ Pending' = Pending /\ Named' /\ Counted'
  BY <1>1, TaskGoesOn DEF Busy
<1>3. Phase'
  BY <1>1, <1>2, MainUndisturbed
<1>4. RefOf(k) \in Refs
  BY <1>1, TaskHasRef
<1>5. locked[RefOf(k)] \in Seq(Positions) /\ Append(locked[RefOf(k)], k) \in Seq(Positions)
  BY <1>1, <1>4, Appended DEF Shape
<1>6. task'[k] = "locking" /\ \A j \in Positions \ {k} : task'[j] = task[j]
  BY <1>1 DEF Shape
<1>7. task' \in [Positions -> TaskStates]
  BY <1>1 DEF Shape, TaskStates
<1>8. locked' \in [Refs -> Seq(Positions)]
  BY <1>1, <1>4, <1>5 DEF Shape
<1>9. Shape'
  BY <1>1, <1>2, <1>7, <1>8 DEF Shape, N, Size
<1>10. Placed'
  BY <1>1, <1>2, <1>6 DEF Placed
<1>11. Guarded'
  <2> SUFFICES ASSUME NEW j \in Positions, task'[j] \in Working
               PROVE  HoldsLock(j)'
    BY <1>2 DEF Guarded
  <2>1. task[j] \in Working
    BY <1>6 DEF Working
  <2>2. RefOf(j) \in Refs /\ RefOf(j)' = RefOf(j)
    BY <1>1, <2>1, TaskHasRef DEF Working, RefOf
  <2>3. locked[RefOf(j)] # <<>> /\ Head(locked[RefOf(j)]) = j
    BY <1>1, <2>1 DEF Guarded, HoldsLock
  <2>4. CASE RefOf(j) = RefOf(k)
    <3>1. locked'[RefOf(j)] = Append(locked[RefOf(j)], k)
      BY <1>1, <1>4, <2>4 DEF Shape
    <3>2. /\ Append(locked[RefOf(j)], k) # <<>>
          /\ Head(Append(locked[RefOf(j)], k)) = Head(locked[RefOf(j)])
      BY <1>5, <2>3, <2>4
    <3> QED
      BY <2>2, <2>3, <3>1, <3>2 DEF HoldsLock
  <2>5. CASE RefOf(j) # RefOf(k)
    <3>1. locked'[RefOf(j)] = locked[RefOf(j)]
      BY <1>1, <2>2, <2>5 DEF Shape
    <3> QED
      BY <2>2, <2>3, <3>1 DEF HoldsLock
  <2> QED
    BY <2>4, <2>5
<1>12. Queued'
  <2>1. \A j \in Positions : task'[j] \in Working <=> task[j] \in Working
    BY <1>1, <1>6 DEF Working
  <2>2. \A i \in 1..Len(permits) : permits[i] \in Positions
    BY <1>1, ElementOf DEF Shape
  <2> QED
    BY <1>1, <1>2, <2>1, <2>2 DEF Queued
<1>13. NotAskedInVain'
  BY <1>1, <1>2, <1>6 DEF NotAskedInVain, RefOf
<1> QED
  BY <1>2, <1>3, <1>9, <1>10, <1>11, <1>12, <1>13 DEF IInv

LEMMA TakePermitKeeps ==
  ASSUME IInv, NEW k \in Positions, TakePermit(k)
  PROVE  IInv'
<1>1. /\ Shape /\ Phase /\ Placed /\ Guarded /\ Queued /\ NotAskedInVain /\ Named /\ Counted
      /\ UNCHANGED <<file, opts, main, inputs, taken, upto, ledger, told, rows, outcome, locked, index>>
      /\ task[k] = "locking" /\ HoldsLock(k) /\ task' = [task EXCEPT ![k] = "admitted"]
      /\ permits' = Append(permits, k)
  BY DEF IInv, TakePermit, Goes, mainVars, reportVars
<1>2. Positions' = Positions /\ Pending' = Pending /\ Named' /\ Counted'
  BY <1>1, TaskGoesOn DEF Busy
<1>3. Phase'
  BY <1>1, <1>2, MainUndisturbed
<1>4. task'[k] = "admitted" /\ \A j \in Positions \ {k} : task'[j] = task[j]
  BY <1>1 DEF Shape
<1>5. task' \in [Positions -> TaskStates]
  BY <1>1 DEF Shape, TaskStates
<1>6. /\ permits \in Seq(Positions) /\ permits' \in Seq(Positions) /\ Len(permits') = Len(permits) + 1
      /\ Len(permits) \in Nat /\ permits'[Len(permits) + 1] = k
      /\ \A i \in 1..Len(permits) : permits'[i] = permits[i] /\ permits[i] \in Positions
  BY <1>1, Appended, ElementOf DEF Shape
<1>7. Shape'
  BY <1>1, <1>2, <1>5, <1>6 DEF Shape, N, Size
<1>8. Placed'
  BY <1>1, <1>2, <1>4 DEF Placed
<1>9. Guarded'
  <2>1. \A j : HoldsLock(j)' <=> HoldsLock(j)
    BY <1>1 DEF HoldsLock, RefOf
  <2> QED
    BY <1>1, <1>2, <1>4, <2>1 DEF Guarded
<1>10. Queued'
  <2>1. \A i \in 1..Len(permits) : permits[i] # k /\ task[permits[i]] \in Working
    BY <1>1 DEF Queued, Working
  <2>2. \A i \in 1..Len(permits') : i \in 1..Len(permits) \/ i = Len(permits) + 1
    BY <1>6
  <2>3. \A i \in 1..Len(permits') : task'[permits'[i]] \in Working
    BY <1>4, <1>6, <2>1, <2>2 DEF Working
  <2>4. \A i, j \in 1..Len(permits') : permits'[i] = permits'[j] => i = j
    <3> SUFFICES ASSUME NEW i \in 1..Len(permits'), NEW j \in 1..Len(permits'), permits'[i] = permits'[j]
                 PROVE  i = j
      OBVIOUS
    <3>1. CASE i \in 1..Len(permits) /\ j \in 1..Len(permits)
      BY <1>1, <1>6, <3>1 DEF Queued
    <3>2. CASE i = Len(permits) + 1 \/ j = Len(permits) + 1
      BY <1>6, <2>1, <2>2, <3>2
    <3> QED
      BY <2>2, <3>1, <3>2
  <2>5. \A j \in Positions : task'[j] \in Working => \E i \in 1..Len(permits') : permits'[i] = j
    <3> SUFFICES ASSUME NEW j \in Positions, task'[j] \in Working
                 PROVE  \E i \in 1..Len(permits') : permits'[i] = j
      OBVIOUS
    <3>1. CASE j = k
      <4>1. Len(permits) + 1 \in 1..Len(permits')
        BY <1>6
      <4> QED
        BY <1>6, <3>1, <4>1
    <3>2. CASE j # k
      <4>1. PICK i \in 1..Len(permits) : permits[i] = j
        BY <1>1, <1>4, <3>2 DEF Queued
      <4>2. i \in 1..Len(permits')
        BY <1>6
      <4> QED
        BY <1>6, <4>1, <4>2
    <3> QED
      BY <3>1, <3>2
  <2> QED
    BY <1>2, <2>3, <2>4, <2>5 DEF Queued
<1>11. NotAskedInVain'
  BY <1>1, <1>2, <1>4 DEF NotAskedInVain, RefOf
<1> QED
  BY <1>2, <1>3, <1>7, <1>8, <1>9, <1>10, <1>11 DEF IInv

LEMMA FetchOneKeeps ==
  ASSUME IInv, NEW k \in Positions, FetchOne(k)
  PROVE  IInv'
<1>1. /\ Shape /\ Phase /\ Placed /\ Guarded /\ Queued /\ NotAskedInVain /\ Named /\ Counted
      /\ UNCHANGED <<file, opts, main, inputs, taken, upto, ledger, told, rows, locked, permits, index>>
      /\ task[k] = "admitted"
  BY DEF IInv, FetchOne, mainVars, reportVars
<1>2. RefOf(k) \in Refs
  BY <1>1, TaskHasRef
<1> DEFINE o == [kind |-> "err", code |-> index[RefOf(k)]]
<1>3. PICK w \in {"asking", "answered"} :
        /\ task' = [task EXCEPT ![k] = w]
        /\ outcome' \in {outcome, [outcome EXCEPT ![k] = o]}
        /\ w = "asking" => index[RefOf(k)] = "none" \/ "refetch" \in opts
  <2>1. CASE index[RefOf(k)] # "none" /\ "refetch" \notin opts
    BY <2>1 DEF FetchOne, Goes
  <2>2. CASE ~(index[RefOf(k)] # "none" /\ "refetch" \notin opts)
    BY <2>2 DEF FetchOne, Goes
  <2> QED
    BY <2>1, <2>2
<1>4. o \in [kind : OutcomeKinds, code : AllCodes] /\ o.kind # "lost"
  BY <1>1, <1>2 DEF Shape, OutcomeKinds
<1> HIDE DEF o
<1>5. w \in Working /\ w \in Busy /\ task[k] \in Working /\ task[k] \in Busy
  BY <1>1, <1>3 DEF Working, Busy
<1>6. task'[k] = w /\ \A j \in Positions \ {k} : task'[j] = task[j] /\ outcome'[j] = outcome[j]
  BY <1>1, <1>3 DEF Shape
<1>7. Positions' = Positions /\ Pending' = Pending /\ Named' /\ Counted'
  BY <1>1, <1>3, <1>5, <1>6, TaskGoesOn
<1>8. Phase'
  BY <1>1, <1>7, MainUndisturbed
<1>9. Guarded' /\ Queued'
  BY <1>1, <1>3, <1>5, StaysInLine
<1>10. /\ task' \in [Positions -> TaskStates]
       /\ outcome' \in [Positions -> [kind : OutcomeKinds, code : AllCodes]]
       /\ outcome'[k].kind = "lost" => outcome[k].kind = "lost"
  BY <1>1, <1>3, <1>4 DEF Shape, TaskStates
<1>11. Shape'
  BY <1>1, <1>7, <1>10 DEF Shape, N, Size
<1>12. Placed'
  BY <1>1, <1>7, <1>6, <1>10 DEF Placed
<1>13. NotAskedInVain'
  BY <1>1, <1>3, <1>7, <1>6 DEF NotAskedInVain, RefOf
<1> QED
  BY <1>7, <1>8, <1>9, <1>11, <1>12, <1>13 DEF IInv

LEMMA AnsweredKeeps ==
  ASSUME IInv, NEW k \in Positions, NEW o \in Outcomes, Answered(k, o)
  PROVE  IInv'
<1>1. /\ Shape /\ Phase /\ Placed /\ Guarded /\ Queued /\ NotAskedInVain /\ Named /\ Counted
      /\ UNCHANGED <<file, opts, main, inputs, taken, upto, ledger, told, rows, locked, permits, index>>
      /\ task[k] = "asking" /\ task' = [task EXCEPT ![k] = "answered"]
      /\ outcome' = [outcome EXCEPT ![k] = o]
  BY DEF IInv, Answered, Goes, mainVars, reportVars
<1>2. o \in [kind : OutcomeKinds, code : AllCodes] /\ o.kind # "lost"
  BY DEF Outcomes, OutcomeKinds, AllCodes
<1>3. task'[k] = "answered" /\ \A j \in Positions \ {k} : task'[j] = task[j] /\ outcome'[j] = outcome[j]
  BY <1>1 DEF Shape
<1>4. Positions' = Positions /\ Pending' = Pending /\ Named' /\ Counted'
  BY <1>1, <1>3, TaskGoesOn DEF Busy
<1>5. Phase'
  BY <1>1, <1>4, MainUndisturbed
<1>6. Guarded' /\ Queued'
  BY <1>1, StaysInLine DEF Working
<1>7. /\ task' \in [Positions -> TaskStates]
      /\ outcome' \in [Positions -> [kind : OutcomeKinds, code : AllCodes]]
      /\ outcome'[k].kind # "lost"
  BY <1>1, <1>2 DEF Shape, TaskStates
<1>8. Shape'
  BY <1>1, <1>4, <1>7 DEF Shape, N, Size
<1>9. Placed'
  BY <1>1, <1>4, <1>3, <1>7 DEF Placed
<1>10. NotAskedInVain'
  BY <1>1, <1>4, <1>3 DEF NotAskedInVain, RefOf
<1> QED
  BY <1>4, <1>5, <1>6, <1>8, <1>9, <1>10 DEF IInv

LEMMA ObserveKeeps ==
  ASSUME IInv, NEW k \in Positions, Observe(k)
  PROVE  IInv'
<1>1. /\ Shape /\ Phase /\ Placed /\ Guarded /\ Queued /\ NotAskedInVain /\ Named /\ Counted
      /\ UNCHANGED <<file, opts, main, inputs, taken, upto, ledger, told, rows, outcome>>
      /\ task[k] = "answered" /\ task' = [task EXCEPT ![k] = "over"] /\ Release(k)
      /\ index' = [index EXCEPT ![RefOf(k)] = outcome[k].code]
  BY DEF IInv, Observe, Goes, mainVars, reportVars
<1>2. RefOf(k) \in Refs
  BY <1>1, TaskHasRef
<1>3. Positions' = Positions /\ Pending' = Pending /\ Named' /\ Counted'
  BY <1>1, TaskGoesOn DEF Busy
<1>4. Phase'
  BY <1>1, <1>3, MainUndisturbed
<1>5. /\ Guarded' /\ Queued'
      /\ locked' \in [Refs -> Seq(Positions)] /\ permits' \in Seq(Positions)
  BY <1>1, Released DEF Working
<1>6. task'[k] = "over" /\ \A j \in Positions \ {k} : task'[j] = task[j]
  BY <1>1 DEF Shape
<1>7. task' \in [Positions -> TaskStates]
  BY <1>1 DEF Shape, TaskStates
<1>8. index' \in [Refs -> AllCodes] /\ \A r \in Refs \ {RefOf(k)} : index'[r] = index[r]
  BY <1>1, <1>2 DEF Shape
<1>9. Shape'
  BY <1>1, <1>3, <1>5, <1>7, <1>8 DEF Shape, N, Size
<1>10. Placed'
  BY <1>1, <1>3, <1>6 DEF Placed
<1>11. NotAskedInVain'
  <2> SUFFICES ASSUME "refetch" \notin opts, NEW j \in Positions, task'[j] = "asking"
               PROVE  index'[RefOf(j)'] = "none"
    BY <1>1, <1>3 DEF NotAskedInVain
  <2>1. j # k /\ task[j] = "asking" /\ index[RefOf(j)] = "none" /\ RefOf(j)' = RefOf(j)
    BY <1>1, <1>6 DEF NotAskedInVain, RefOf
  <2>2. RefOf(j) \in Refs /\ RefOf(j) # RefOf(k)
    BY <1>1, <2>1, TaskHasRef, AloneWithRef DEF Working
  <2> QED
    BY <1>8, <2>1, <2>2
<1> QED
  BY <1>3, <1>4, <1>5, <1>9, <1>10, <1>11 DEF IInv

LEMMA PanicKeeps ==
  ASSUME IInv, NEW k \in Positions, Panic(k)
  PROVE  IInv'
<1>1. /\ Shape /\ Phase /\ Placed /\ Guarded /\ Queued /\ NotAskedInVain /\ Named /\ Counted
      /\ UNCHANGED <<file, opts, inputs, taken, upto, ledger, told, rows, index>>
      /\ task[k] = "asking"
  BY DEF IInv, Panic, mainVars, reportVars
<1>2. CASE main' = "aborted" /\ UNCHANGED <<task, outcome, locked, permits>>
  <2>1. Positions' = Positions /\ Pending' = Pending
    BY <1>1, <1>2 DEF Positions, Pending
  <2>2. Phase'
    BY <1>1, <1>2, <2>1, MainUndisturbed
  <2>3. Shape' /\ Placed'
    BY <1>1, <1>2, <2>1 DEF Shape, Placed, N, Size
  <2>4. Guarded' /\ Queued' /\ NotAskedInVain'
    BY <1>1, <1>2, <2>1 DEF Guarded, Queued, NotAskedInVain, HoldsLock, RefOf
  <2>5. Named' /\ Counted'
    BY <1>1, <1>2, <2>1 DEF Named, Counted, Settled, LostAndJoined, Lost, Told, LedgerSum
  <2> QED
    BY <2>2, <2>3, <2>4, <2>5 DEF IInv
<1> DEFINE o == [kind |-> "lost", code |-> "FETCH_ERROR"]
<1>3. CASE /\ task' = [task EXCEPT ![k] = "over"] /\ outcome' = [outcome EXCEPT ![k] = o]
           /\ Release(k) /\ main' = main
  <2>1. o \in [kind : OutcomeKinds, code : AllCodes]
    BY DEF OutcomeKinds, AllCodes
  <2> HIDE DEF o
  <2>2. task'[k] = "over" /\ \A j \in Positions \ {k} : task'[j] = task[j] /\ outcome'[j] = outcome[j]
    BY <1>1, <1>3 DEF Shape
  <2>3. Positions' = Positions /\ Pending' = Pending /\ Named' /\ Counted'
    BY <1>1, <1>3, <2>2, TaskGoesOn DEF Busy
  <2>4. Phase'
    BY <1>1, <1>3, <2>3, MainUndisturbed
  <2>5. /\ Guarded' /\ Queued'
        /\ locked' \in [Refs -> Seq(Positions)] /\ permits' \in Seq(Positions)
    BY <1>1, <1>3, Released DEF Working
  <2>6. /\ task' \in [Positions -> TaskStates]
        /\ outcome' \in [Positions -> [kind : OutcomeKinds, code : AllCodes]]
    BY <1>1, <1>3, <2>1 DEF Shape, TaskStates
  <2>7. Shape'
    BY <1>1, <2>3, <2>5, <2>6 DEF Shape, N, Size
  <2>8. Placed'
    BY <1>1, <2>3, <2>2 DEF Placed
  <2>9. NotAskedInVain'
    BY <1>1, <2>3, <2>2 DEF NotAskedInVain, RefOf
  <2> QED
    BY <2>3, <2>4, <2>5, <2>7, <2>8, <2>9 DEF IInv
<1>4. \/ main' = "aborted" /\ UNCHANGED <<task, outcome, locked, permits>>
      \/ /\ task' = [task EXCEPT ![k] = "over"] /\ outcome' = [outcome EXCEPT ![k] = o]
         /\ Release(k) /\ main' = main
  BY DEF Panic, Goes, mainVars
<1> QED
  BY <1>2, <1>3, <1>4

LEMMA LapseKeeps ==
  ASSUME IInv, NEW r \in Refs, Lapse(r)
  PROVE  IInv'
<1>1. /\ Shape /\ Phase /\ Placed /\ Guarded /\ Queued /\ NotAskedInVain /\ Named /\ Counted
      /\ UNCHANGED <<file, opts, main, inputs, taken, upto, ledger, told, rows, task, outcome, locked, permits>>
      /\ index' = [index EXCEPT ![r] = "none"]
  BY DEF IInv, Lapse, mainVars, reportVars
<1>2. Positions' = Positions /\ Pending' = Pending
  BY <1>1 DEF Positions, Pending
<1>3. Phase'
  BY <1>1, <1>2, MainUndisturbed
<1>4. index' \in [Refs -> AllCodes]
  BY <1>1 DEF Shape, AllCodes
<1>5. Shape' /\ Placed'
  BY <1>1, <1>2, <1>4 DEF Shape, Placed, N, Size
<1>6. Guarded' /\ Queued'
  BY <1>1, <1>2 DEF Guarded, Queued, HoldsLock, RefOf
<1>7. NotAskedInVain'
  <2> SUFFICES ASSUME "refetch" \notin opts, NEW j \in Positions, task[j] = "asking"
               PROVE  index'[RefOf(j)] = "none"
    BY <1>1, <1>2 DEF NotAskedInVain, RefOf
  <2>1. RefOf(j) \in Refs /\ index[RefOf(j)] = "none"
    BY <1>1, TaskHasRef DEF NotAskedInVain
  <2> QED
    BY <1>1, <2>1 DEF Shape
<1>8. Named' /\ Counted'
  BY <1>1, <1>2 DEF Named, Counted, Settled, LostAndJoined, Lost, Told, LedgerSum
<1> QED
  BY <1>3, <1>5, <1>6, <1>7, <1>8 DEF IInv

-----------------------------------------------------------------------------
(* The steps of the main task that leave the tasks and the reports alone.  *)

LEMMA MainAlone ==
  ASSUME IInv, upto' \in Nat, taken <= upto', upto' <= N,
         UNCHANGED <<file, opts, inputs, taken, task, outcome, locked, permits, index, ledger, told>>
  PROVE  /\ Shape' /\ Placed' /\ Guarded' /\ Queued' /\ NotAskedInVain' /\ Named' /\ Counted'
         /\ Pending' = Pending /\ Size' = Size /\ N' = N
<1>1. Positions' = Positions /\ Pending' = Pending /\ Size' = Size /\ N' = N
  BY DEF Positions, Pending, Size, N
<1>2. Shape' /\ Placed'
  BY <1>1 DEF IInv, Shape, Placed
<1>3. Guarded' /\ Queued' /\ NotAskedInVain'
  BY <1>1 DEF IInv, Guarded, Queued, NotAskedInVain, HoldsLock, RefOf
<1>4. Named' /\ Counted'
  BY <1>1 DEF IInv, Named, Counted, Settled, LostAndJoined, Lost, Told, LedgerSum
<1> QED
  BY <1>1, <1>2, <1>3, <1>4

LEMMA ReadFileKeeps ==
  ASSUME IInv, ReadFile
  PROVE  IInv'
<1>1. /\ Shape' /\ Placed' /\ Guarded' /\ Queued' /\ NotAskedInVain' /\ Named' /\ Counted'
      /\ Pending' = Pending /\ Size' = Size /\ N' = N
  BY MainAlone DEF ReadFile, taskVars, IInv, Shape
<1>2. Phase'
  BY <1>1 DEF ReadFile, Abandon, IInv, Phase
<1> QED
  BY <1>1, <1>2 DEF IInv

LEMMA DryRunKeeps ==
  ASSUME IInv, DryRun
  PROVE  IInv'
<1>1. /\ Shape' /\ Placed' /\ Guarded' /\ Queued' /\ NotAskedInVain' /\ Named' /\ Counted'
      /\ Pending' = Pending /\ Size' = Size /\ N' = N
  BY MainAlone DEF DryRun, taskVars, IInv, Shape
<1>2. Phase'
  BY <1>1 DEF DryRun, IInv, Phase
<1> QED
  BY <1>1, <1>2 DEF IInv

\* Nothing was taken yet, and so no task is about.
LEMMA NobodyYet ==
  ASSUME IInv, main \in {"read", "resolve"}
  PROVE  Pending = {} /\ \A k \in Positions : task[k] = "none"
<1>1. \A k \in Positions : task[k] = "none"
  BY Known DEF IInv, Phase, Placed
<1> QED
  BY <1>1 DEF Pending

LEMMA OpenSessionKeeps ==
  ASSUME IInv, OpenSession
  PROVE  IInv'
<1>1. /\ Shape' /\ Placed' /\ Guarded' /\ Queued' /\ NotAskedInVain' /\ Named' /\ Counted'
      /\ Pending' = Pending /\ Size' = Size /\ N' = N
  BY MainAlone DEF OpenSession, taskVars, IInv, Shape
<1>2. Pending = {} /\ N = Size
  BY NobodyYet DEF OpenSession, Size, IInv, Phase
<1>3. Phase'
  BY <1>1, <1>2 DEF OpenSession, Abandon, IInv, Phase
<1> QED
  BY <1>1, <1>3 DEF IInv

LEMMA NextWindowKeeps ==
  ASSUME IInv, NextWindow
  PROVE  IInv'
<1>1. upto' \in Nat /\ taken < upto' /\ upto' <= N /\ N \in Nat /\ taken \in Nat
  BY Known, BatchAssumption DEF NextWindow, Least, IInv, Shape
<1>2. /\ Shape' /\ Placed' /\ Guarded' /\ Queued' /\ NotAskedInVain' /\ Named' /\ Counted'
      /\ Pending' = Pending /\ Size' = Size /\ N' = N
  BY <1>1, MainAlone DEF NextWindow, taskVars, reportVars
<1>3. Phase'
  BY <1>1, <1>2 DEF NextWindow, reportVars, IInv, Phase
<1> QED
  BY <1>2, <1>3 DEF IInv

LEMMA CloseKeeps ==
  ASSUME IInv, Close
  PROVE  IInv'
<1>1. /\ Shape' /\ Placed' /\ Guarded' /\ Queued' /\ NotAskedInVain' /\ Named' /\ Counted'
      /\ Pending' = Pending /\ Size' = Size /\ N' = N
  BY MainAlone DEF Close, taskVars, IInv, Shape
<1>2. main = "dispatch" /\ taken = N /\ main' = "over" /\ UNCHANGED <<taken, upto, file>>
  BY DEF Close
<1>3. taken = upto
  BY <1>2, Known DEF IInv, Shape
<1>4. Phase'
  BY <1>1, <1>2, <1>3 DEF IInv, Phase
<1> QED
  BY <1>1, <1>4 DEF IInv

\* What an entry becomes is one of the Verdicts.
LEMMA EntryBecomes ==
  ASSUME NEW e \in Entries
  PROVE  /\ entry_of(e) \in Verdicts
         /\ e.kind = "pmid" => resolve_entry(e) \subseteq Verdicts
<1>1. Codes \subseteq AllCodes \ {"none"} /\ {"INVALID_REF", "NOT_IMPLEMENTED", "NOT_FOUND"} \subseteq AllCodes \ {"none"}
  BY BatchAssumption DEF AllCodes
<1>2. \A c \in AllCodes \ {"none"} : Rejected(c) \in Verdicts
  BY DEF Verdicts
<1>3. \A r \in Refs : Taken(r) \in Verdicts
  BY DEF Verdicts
<1>4. e.kind \in {"ref", "pmid"} => e.ref \in Refs
  BY DEF Entries, Entry
<1>5. entry_of(e) \in Verdicts
  <2>1. CASE e.kind = "ref"
    BY <2>1, <1>3, <1>4 DEF entry_of
  <2>2. CASE e.kind \in {"invalid", "noid"}
    BY <2>2, <1>1, <1>2 DEF entry_of
  <2>3. CASE e.kind \notin {"ref", "invalid", "noid"}
    BY <2>3, <1>1, <1>2 DEF entry_of
  <2> QED
    BY <2>1, <2>2, <2>3
<1>6. e.kind = "pmid" => resolve_entry(e) \subseteq Verdicts
  BY <1>1, <1>2, <1>3, <1>4 DEF resolve_entry
<1> QED
  BY <1>5, <1>6

LEMMA ResolveEntryKeeps ==
  ASSUME IInv, ResolveEntry
  PROVE  IInv'
<1>1. /\ Shape /\ Phase /\ Placed /\ Guarded /\ Queued /\ NotAskedInVain /\ Named /\ Counted
      /\ UNCHANGED <<file, opts, taken, upto, task, outcome, locked, permits, index, ledger, told, rows>>
      /\ main = "resolve" /\ N < Len(file)
  BY DEF IInv, ResolveEntry, taskVars
<1>2. Positions' = Positions /\ Pending' = Pending /\ Size' = Size
  BY <1>1 DEF Positions, Pending, Size
<1>3. \A k \in Positions : task[k] = "none"
  BY <1>1, NobodyYet
<1>4. file \in Seq(Entries) /\ Size = Len(file) /\ N \in Nat /\ Len(file) \in Nat
  BY <1>1, Known DEF Phase, Shape, Size
<1>5. inputs' \in Seq(Verdicts) /\ N' \in Nat /\ N' \in {N, N + 1}
  <2>1. CASE UNCHANGED inputs
    BY <2>1, <1>1, <1>4 DEF N, Shape
  <2>2. CASE \E b \in Verdicts : inputs' = Append(inputs, b)
    <3>1. PICK b \in Verdicts : inputs' = Append(inputs, b)
      BY <2>2
    <3>2. inputs \in Seq(Verdicts)
      BY <1>1 DEF Shape
    <3> QED
      BY <3>1, <3>2, <1>4, Appended DEF N
  <2>3. file[N + 1] \in Entries
    BY <1>1, <1>4, ElementOf
  <2>4. UNCHANGED inputs \/ \E b \in Verdicts : inputs' = Append(inputs, b)
    <3> DEFINE e == file[N + 1]
    <3>1. CASE UNCHANGED inputs
      BY <3>1
    <3>2. CASE \E b \in IF e.kind = "pmid" /\ "dry_run" \notin opts THEN resolve_entry(e) ELSE {entry_of(e)} :
                 inputs' = Append(inputs, b)
      <4>1. (IF e.kind = "pmid" /\ "dry_run" \notin opts THEN resolve_entry(e) ELSE {entry_of(e)}) \subseteq Verdicts
        BY <2>3, EntryBecomes
      <4> QED
        BY <3>2, <4>1
    <3> QED
      BY <3>1, <3>2 DEF ResolveEntry
  <2> QED
    BY <2>1, <2>2, <2>4
<1>6. N' <= Size' /\ upto <= N'
  BY <1>1, <1>2, <1>4, <1>5 DEF Shape
<1>7. Shape'
  BY <1>1, <1>2, <1>5, <1>6 DEF Shape
<1>8. main' \in {"resolve", "over"}
  BY <1>1 DEF ResolveEntry, Abandon
<1>9. Phase'
  BY <1>1, <1>2, <1>8 DEF Phase
<1>10. Placed' /\ Guarded' /\ NotAskedInVain'
  BY <1>1, <1>2, <1>3 DEF Placed, Guarded, NotAskedInVain, Working
<1>11. Queued'
  BY <1>1, <1>2 DEF Queued
<1>12. Named' /\ Counted'
  BY <1>1, <1>2 DEF Named, Counted, Settled, LostAndJoined, Lost, Told, LedgerSum
<1> QED
  BY <1>7, <1>9, <1>10, <1>11, <1>12 DEF IInv

-----------------------------------------------------------------------------
(* The steps that report.                                                  *)

LEMMA OneMoreReport ==
  ASSUME Shape, NEW e \in Nat, NEW b \in BOOLEAN, told' = Append(told, [entry |-> e, ok |-> b])
  PROVE  /\ told' \in Seq([entry : Nat, ok : BOOLEAN]) /\ Len(told') = Len(told) + 1
         /\ told'[Len(told) + 1].entry = e /\ \A i \in 1..Len(told) : told'[i] = told[i]
         /\ \A i \in 1..Len(told') : i \in 1..Len(told) \/ i = Len(told) + 1
         /\ Len(told) + 1 \in 1..Len(told') /\ 1..Len(told) \subseteq 1..Len(told')
         /\ e # 0 => Told(0)' = Told(0)
         /\ e = 0 => Cardinality(Told(0)') = Cardinality(Told(0)) + 1
<1> DEFINE x == [entry |-> e, ok |-> b]
<1>1. x \in [entry : Nat, ok : BOOLEAN] /\ x.entry = e
  OBVIOUS
<1>2. told \in Seq([entry : Nat, ok : BOOLEAN]) /\ Len(told) \in Nat
  BY Known DEF Shape
<1> HIDE DEF x
<1>3. told' = Append(told, x)
  BY DEF x
<1>4. /\ told' \in Seq([entry : Nat, ok : BOOLEAN]) /\ Len(told') = Len(told) + 1
      /\ told'[Len(told) + 1] = x /\ \A i \in 1..Len(told) : told'[i] = told[i]
  BY <1>1, <1>2, <1>3, Appended
<1>5. /\ \A i \in 1..Len(told') : i \in 1..Len(told) \/ i = Len(told) + 1
      /\ Len(told) + 1 \in 1..Len(told') /\ 1..Len(told) \subseteq 1..Len(told')
  BY <1>2, <1>4
<1>6. e # 0 => Told(0)' = Told(0)
  BY <1>1, <1>4, <1>5 DEF Told
<1>7. e = 0 => Told(0)' = Told(0) \cup {Len(told) + 1}
  BY <1>1, <1>4, <1>5 DEF Told
<1>8. IsFiniteSet(Told(0)) /\ Len(told) + 1 \notin Told(0)
  <2>1. IsFiniteSet(1..Len(told)) /\ Told(0) \subseteq 1..Len(told)
    BY <1>2, FS_Interval DEF Told
  <2> QED
    BY <1>2, <2>1, FS_Subset
<1>9. e = 0 => Cardinality(Told(0)') = Cardinality(Told(0)) + 1
  BY <1>7, <1>8, FS_AddElement
<1> QED
  BY <1>1, <1>4, <1>5, <1>6, <1>9

\* What one more of a count makes of the ledger.
LEMMA OneMoreCounted ==
  ASSUME Shape,
         \/ ledger' = [ledger EXCEPT !.ok = @ + 1] \/ ledger' = [ledger EXCEPT !.parse_errors = @ + 1]
         \/ ledger' = [ledger EXCEPT !.fetch_errors = @ + 1] \/ ledger' = [ledger EXCEPT !.skipped = @ + 1]
  PROVE  /\ ledger' \in [ok : Nat, parse_errors : Nat, fetch_errors : Nat, skipped : Nat]
         /\ LedgerSum' = LedgerSum + 1
<1>1. ledger \in [ok : Nat, parse_errors : Nat, fetch_errors : Nat, skipped : Nat]
  BY DEF Shape
<1>2. CASE ledger' = [ledger EXCEPT !.ok = @ + 1]
  BY <1>1, <1>2 DEF LedgerSum
<1>3. CASE ledger' = [ledger EXCEPT !.parse_errors = @ + 1]
  BY <1>1, <1>3 DEF LedgerSum
<1>4. CASE ledger' = [ledger EXCEPT !.fetch_errors = @ + 1]
  BY <1>1, <1>4 DEF LedgerSum
<1>5. CASE ledger' = [ledger EXCEPT !.skipped = @ + 1]
  BY <1>1, <1>5 DEF LedgerSum
<1> QED
  BY <1>2, <1>3, <1>4, <1>5

\* An entry that is dispatched has no task yet and was not told of.
LEMMA NextIsNew ==
  ASSUME IInv, main = "dispatch", taken < upto
  PROVE  /\ taken + 1 \in Positions /\ taken + 1 \in 1..N /\ taken + 1 \in Nat \ {0}
         /\ task[taken + 1] = "none" /\ outcome[taken + 1].kind # "lost"
         /\ \A i \in 1..Len(told) : told[i].entry # taken + 1
<1>1. /\ taken + 1 \in Positions /\ taken + 1 \in 1..N /\ taken + 1 \in Nat \ {0}
      /\ ~(taken + 1 <= taken)
  BY Known DEF IInv, Shape
<1>2. task[taken + 1] = "none"
  BY <1>1 DEF IInv, Placed
<1>3. outcome[taken + 1].kind # "lost"
  BY <1>1, <1>2 DEF IInv, Placed
<1>4. \A i \in 1..Len(told) : told[i].entry # taken + 1
  BY <1>1 DEF IInv, Named, Settled
<1> QED
  BY <1>1, <1>2, <1>3, <1>4

\* The part of Dispatch that all its cases share.
LEMMA Dispatched ==
  ASSUME IInv, Dispatch
  PROVE  /\ main = "dispatch" /\ taken < upto /\ taken' = taken + 1
         /\ UNCHANGED <<file, opts, inputs, upto, outcome, locked, permits, index>>
         /\ Positions' = Positions /\ Size' = Size /\ N' = N
         /\ taken' \in Nat /\ taken' <= upto
         /\ main' \in {"dispatch", "join"} /\ (main' = "dispatch" => taken' # upto)
<1>1. /\ main = "dispatch" /\ taken < upto /\ taken' = taken + 1
      /\ UNCHANGED <<file, opts, inputs, upto, outcome, locked, permits, index>>
      /\ main' = IF taken + 1 = upto THEN "join" ELSE main
  BY DEF Dispatch
<1>2. Positions' = Positions /\ Size' = Size /\ N' = N
  BY <1>1 DEF Positions, Size, N
<1>3. taken' \in Nat /\ taken' <= upto
  BY <1>1 DEF IInv, Shape
<1> QED
  BY <1>1, <1>2, <1>3

LEMMA DispatchReported ==
  ASSUME IInv, Dispatch, UNCHANGED task, NEW b \in BOOLEAN, Report(taken + 1, b),
         \/ ledger' = [ledger EXCEPT !.parse_errors = @ + 1]
         \/ ledger' = [ledger EXCEPT !.skipped = @ + 1]
  PROVE  IInv'
<1> DEFINE k == taken + 1
<1>1. /\ Shape /\ Phase /\ Placed /\ Guarded /\ Queued /\ NotAskedInVain /\ Named /\ Counted
      /\ UNCHANGED task
  BY DEF IInv
<1>2. /\ main = "dispatch" /\ taken < upto /\ taken' = k
      /\ UNCHANGED <<file, opts, inputs, upto, outcome, locked, permits, index>>
      /\ Positions' = Positions /\ Size' = Size /\ N' = N
      /\ taken' \in Nat /\ taken' <= upto
      /\ main' \in {"dispatch", "join"} /\ (main' = "dispatch" => taken' # upto)
  BY Dispatched
<1>3. /\ k \in Positions /\ k \in 1..N /\ k \in Nat \ {0}
      /\ task[k] = "none" /\ outcome[k].kind # "lost"
      /\ \A i \in 1..Len(told) : told[i].entry # k
  BY <1>2, NextIsNew
<1>4. /\ told' \in Seq([entry : Nat, ok : BOOLEAN]) /\ Len(told') = Len(told) + 1
      /\ told'[Len(told) + 1].entry = k /\ \A i \in 1..Len(told) : told'[i] = told[i]
      /\ \A i \in 1..Len(told') : i \in 1..Len(told) \/ i = Len(told) + 1
      /\ Len(told) + 1 \in 1..Len(told') /\ 1..Len(told) \subseteq 1..Len(told')
      /\ Told(0)' = Told(0)
  BY <1>1, <1>3, OneMoreReport DEF Report
<1>5. /\ ledger' \in [ok : Nat, parse_errors : Nat, fetch_errors : Nat, skipped : Nat]
      /\ LedgerSum' = LedgerSum + 1
  BY <1>1, OneMoreCounted
<1>6. Shape'
  BY <1>1, <1>2, <1>4, <1>5 DEF Shape
<1>7. Phase'
  BY <1>1, <1>2 DEF Phase
<1>8. \A j \in Positions : j <= taken => j <= k
  BY <1>1, <1>2, Known DEF Shape
<1>9. Placed'
  BY <1>1, <1>2, <1>8 DEF Placed
<1>10. Guarded' /\ Queued' /\ NotAskedInVain'
  BY <1>1, <1>2 DEF Guarded, Queued, NotAskedInVain, HoldsLock, RefOf
<1>11. Named'
  <2> DEFINE Dealt(j) == j <= taken' /\ task'[j] \in {"none", "joined"}
  <2>1. \A j \in Positions : Dealt(j) <=> Settled(j) \/ j = k
    BY <1>1, <1>2, <1>3, Known DEF Settled, Shape
  <2> HIDE DEF Dealt
  <2>2. \A j \in Positions : Dealt(j) /\ outcome'[j].kind # "lost" =>
          \E i \in 1..Len(told') : told'[i].entry = j
    <3> SUFFICES ASSUME NEW j \in Positions, Dealt(j), outcome[j].kind # "lost"
                 PROVE  \E i \in 1..Len(told') : told'[i].entry = j
      BY <1>2
    <3>1. CASE j = k
      BY <3>1, <1>4
    <3>2. CASE j # k
      <4>1. PICK i \in 1..Len(told) : told[i].entry = j
        BY <3>2, <2>1, <1>1 DEF Named
      <4> QED
        BY <4>1, <1>4
    <3> QED
      BY <3>1, <3>2
  <2>3. \A i \in 1..Len(told') : told'[i].entry # 0 =>
          /\ told'[i].entry \in Positions /\ Dealt(told'[i].entry)
          /\ outcome'[told'[i].entry].kind # "lost"
    <3> SUFFICES ASSUME NEW i \in 1..Len(told'), told'[i].entry # 0
                 PROVE  /\ told'[i].entry \in Positions /\ Dealt(told'[i].entry)
                        /\ outcome[told'[i].entry].kind # "lost"
      BY <1>2
    <3>1. CASE i \in 1..Len(told)
      BY <3>1, <2>1, <1>1, <1>4 DEF Named
    <3>2. CASE i = Len(told) + 1
      BY <3>2, <2>1, <1>3, <1>4
    <3> QED
      BY <3>1, <3>2, <1>4
  <2>4. \A i, j \in 1..Len(told') : told'[i].entry = told'[j].entry /\ told'[i].entry # 0 => i = j
    <3> SUFFICES ASSUME NEW i \in 1..Len(told'), NEW j \in 1..Len(told'),
                        told'[i].entry = told'[j].entry, told'[i].entry # 0
                 PROVE  i = j
      OBVIOUS
    <3>1. CASE i \in 1..Len(told) /\ j \in 1..Len(told)
      BY <3>1, <1>1, <1>4 DEF Named
    <3>2. CASE i = Len(told) + 1 \/ j = Len(told) + 1
      BY <3>2, <1>3, <1>4
    <3> QED
      BY <3>1, <3>2, <1>4
  <2> QED
    BY <1>2, <2>2, <2>3, <2>4 DEF Named, Settled, Dealt
<1>12. Counted'
  <2>1. Pending' = Pending /\ LostAndJoined' = LostAndJoined
    BY <1>1, <1>2 DEF Pending, LostAndJoined, Lost
  <2>2. IsFiniteSet(Pending) /\ Cardinality(Pending) \in Nat
    <3>1. IsFiniteSet(Positions) /\ Pending \subseteq Positions
      BY <1>1, Known DEF Pending
    <3> QED
      BY <3>1, FS_Subset, FS_CardinalityType
  <2>3. Len(told') + Cardinality(Pending) = taken'
    BY <2>2, <1>1, <1>2, <1>4, Known DEF Counted, Shape
  <2> QED
    BY <2>1, <2>3, <1>1, <1>4, <1>5 DEF Counted
<1> QED
  BY <1>6, <1>7, <1>9, <1>10, <1>11, <1>12 DEF IInv

LEMMA DispatchSpawned ==
  ASSUME IInv, Dispatch, inputs[taken + 1].code = "none",
         task' = [task EXCEPT ![taken + 1] = "spawned"], UNCHANGED <<ledger, told, rows>>
  PROVE  IInv'
<1> DEFINE k == taken + 1
<1>1. /\ Shape /\ Phase /\ Placed /\ Guarded /\ Queued /\ NotAskedInVain /\ Named /\ Counted
      /\ UNCHANGED <<ledger, told, rows>> /\ inputs[k].code = "none"
  BY DEF IInv
<1>2. /\ main = "dispatch" /\ taken < upto /\ taken' = k
      /\ UNCHANGED <<file, opts, inputs, upto, outcome, locked, permits, index>>
      /\ Positions' = Positions /\ Size' = Size /\ N' = N
      /\ taken' \in Nat /\ taken' <= upto
      /\ main' \in {"dispatch", "join"} /\ (main' = "dispatch" => taken' # upto)
  BY Dispatched
<1>3. /\ k \in Positions /\ k \in 1..N /\ k \in Nat \ {0}
      /\ task[k] = "none" /\ outcome[k].kind # "lost"
      /\ \A i \in 1..Len(told) : told[i].entry # k
  BY <1>2, NextIsNew
<1>4. /\ task' \in [Positions -> TaskStates]
      /\ task'[k] = "spawned" /\ \A j \in Positions \ {k} : task'[j] = task[j]
  BY <1>1, <1>3 DEF Shape, TaskStates
<1>5. Shape'
  BY <1>1, <1>2, <1>4 DEF Shape
<1>6. Phase'
  BY <1>1, <1>2 DEF Phase
<1>7. \A j \in Positions : (j <= taken => j <= k) /\ (j <= k => j <= taken \/ j = k)
  BY <1>1, <1>2, Known DEF Shape
<1>8. Placed'
  BY <1>1, <1>2, <1>3, <1>4, <1>7 DEF Placed
<1>9. \A j \in Positions : task'[j] \in Working <=> task[j] \in Working
  BY <1>3, <1>4 DEF Working
<1>10. Guarded'
  BY <1>1, <1>2, <1>9 DEF Guarded, HoldsLock, RefOf
<1>11. Queued'
  <2>1. \A i \in 1..Len(permits) : permits[i] \in Positions
    BY <1>1, ElementOf DEF Shape
  <2> QED
    BY <2>1, <1>1, <1>2, <1>9 DEF Queued
<1>12. NotAskedInVain'
  BY <1>1, <1>2, <1>4 DEF NotAskedInVain, RefOf
<1>13. \A j \in Positions : Settled(j)' <=> Settled(j)
  BY <1>1, <1>2, <1>3, <1>4, <1>7, Known DEF Settled, Shape
<1>14. Named'
  BY <1>1, <1>2, <1>13 DEF Named
<1>15. Counted'
  <2>1. Pending' = Pending \cup {k} /\ k \notin Pending
    BY <1>2, <1>3, <1>4 DEF Pending
  <2>2. LostAndJoined' = LostAndJoined
    BY <1>1, <1>2, <1>3, <1>4 DEF LostAndJoined, Lost
  <2>3. IsFiniteSet(Pending)
    <3>1. IsFiniteSet(Positions) /\ Pending \subseteq Positions
      BY <1>1, Known DEF Pending
    <3> QED
      BY <3>1, FS_Subset
  <2>4. Cardinality(Pending') = Cardinality(Pending) + 1 /\ Cardinality(Pending) \in Nat
    BY <2>1, <2>3, FS_AddElement, FS_CardinalityType
  <2>5. Len(told') + Cardinality(Pending') = taken'
    <3>1. Len(told) + Cardinality(Pending) = taken /\ Len(told) \in Nat /\ told' = told
      BY <1>1, Known DEF Counted
    <3> QED
      BY <3>1, <2>4, <1>2
  <2> QED
    BY <2>2, <2>5, <1>1 DEF Counted, Told, LedgerSum
<1> QED
  BY <1>5, <1>6, <1>8, <1>10, <1>11, <1>12, <1>14, <1>15 DEF IInv

LEMMA DispatchKeeps ==
  ASSUME IInv, Dispatch
  PROVE  IInv'
<1>1. CASE /\ UNCHANGED task /\ \E b \in BOOLEAN : Report(taken + 1, b)
           /\ \/ ledger' = [ledger EXCEPT !.parse_errors = @ + 1]
              \/ ledger' = [ledger EXCEPT !.skipped = @ + 1]
  BY <1>1, DispatchReported
<1>2. CASE /\ inputs[taken + 1].code = "none" /\ task' = [task EXCEPT ![taken + 1] = "spawned"]
           /\ UNCHANGED <<ledger, told, rows>>
  BY <1>2, DispatchSpawned
<1> QED
  BY <1>1, <1>2 DEF Dispatch

\* A task that is joined: it was pending, and its entry is settled from now on,
\* by a report that names it unless the task was lost.
LEMMA JoinReported ==
  ASSUME IInv, Join, NEW k \in Positions, task[k] = "over", task' = [task EXCEPT ![k] = "joined"],
         UNCHANGED main, NEW b \in BOOLEAN, Report(IF outcome[k].kind = "lost" THEN 0 ELSE k, b),
         \/ ledger' = [ledger EXCEPT !.ok = @ + 1] \/ ledger' = [ledger EXCEPT !.fetch_errors = @ + 1]
  PROVE  IInv'
<1> DEFINE e == IF outcome[k].kind = "lost" THEN 0 ELSE k
<1>1. /\ Shape /\ Phase /\ Placed /\ Guarded /\ Queued /\ NotAskedInVain /\ Named /\ Counted
      /\ UNCHANGED <<main, file, opts, inputs, taken, upto, outcome, locked, permits, index, rows>>
      /\ main = "join"
  BY DEF IInv, Join
<1>2. Positions' = Positions /\ Size' = Size /\ N' = N
  BY <1>1 DEF Positions, Size, N
<1>3. k \in Nat \ {0} /\ k <= taken /\ e \in Nat /\ (e # 0 => e = k /\ outcome[k].kind # "lost")
  BY <1>1, Known DEF Placed
<1>4. \A i \in 1..Len(told) : told[i].entry # k
  BY <1>1, <1>3 DEF Named, Settled
<1>5. e = 0 <=> outcome[k].kind = "lost"
  BY <1>3
<1> HIDE DEF e
<1>6. /\ told' \in Seq([entry : Nat, ok : BOOLEAN]) /\ Len(told') = Len(told) + 1
      /\ told'[Len(told) + 1].entry = e /\ \A i \in 1..Len(told) : told'[i] = told[i]
      /\ \A i \in 1..Len(told') : i \in 1..Len(told) \/ i = Len(told) + 1
      /\ Len(told) + 1 \in 1..Len(told') /\ 1..Len(told) \subseteq 1..Len(told')
      /\ e # 0 => Told(0)' = Told(0)
      /\ e = 0 => Cardinality(Told(0)') = Cardinality(Told(0)) + 1
  <2>1. told' = Append(told, [entry |-> e, ok |-> b])
    BY DEF Report, e
  <2> QED
    BY <1>1, <1>3, <2>1, OneMoreReport
<1>7. /\ ledger' \in [ok : Nat, parse_errors : Nat, fetch_errors : Nat, skipped : Nat]
      /\ LedgerSum' = LedgerSum + 1
  BY <1>1, OneMoreCounted
<1>8. /\ task' \in [Positions -> TaskStates]
      /\ task'[k] = "joined" /\ \A j \in Positions \ {k} : task'[j] = task[j]
  BY <1>1 DEF Shape, TaskStates
<1>9. Shape'
  BY <1>1, <1>2, <1>6, <1>7, <1>8 DEF Shape
<1>10. Phase'
  BY <1>1, <1>2 DEF Phase
<1>11. Placed'
  BY <1>1, <1>2, <1>8 DEF Placed
<1>12. \A j \in Positions : task'[j] \in Working <=> task[j] \in Working
  BY <1>8 DEF Working
<1>13. Guarded'
  BY <1>1, <1>2, <1>12 DEF Guarded, HoldsLock, RefOf
<1>14. Queued'
  <2>1. \A i \in 1..Len(permits) : permits[i] \in Positions
    BY <1>1, ElementOf DEF Shape
  <2> QED
    BY <2>1, <1>1, <1>2, <1>12 DEF Queued
<1>15. NotAskedInVain'
  BY <1>1, <1>2, <1>8 DEF NotAskedInVain, RefOf
<1>16. Named'
  <2> DEFINE Dealt(j) == j <= taken' /\ task'[j] \in {"none", "joined"}
  <2>1. \A j \in Positions : Dealt(j) <=> Settled(j) \/ j = k
    BY <1>1, <1>3, <1>8 DEF Settled
  <2> HIDE DEF Dealt
  <2>2. \A j \in Positions : Dealt(j) /\ outcome'[j].kind # "lost" =>
          \E i \in 1..Len(told') : told'[i].entry = j
    <3> SUFFICES ASSUME NEW j \in Positions, Dealt(j), outcome[j].kind # "lost"
                 PROVE  \E i \in 1..Len(told') : told'[i].entry = j
      BY <1>1
    <3>1. CASE j = k
      BY <3>1, <1>3, <1>5, <1>6
    <3>2. CASE j # k
      <4>1. PICK i \in 1..Len(told) : told[i].entry = j
        BY <3>2, <2>1, <1>1 DEF Named
      <4> QED
        BY <4>1, <1>6
    <3> QED
      BY <3>1, <3>2
  <2>3. \A i \in 1..Len(told') : told'[i].entry # 0 =>
          /\ told'[i].entry \in Positions /\ Dealt(told'[i].entry)
          /\ outcome'[told'[i].entry].kind # "lost"
    <3> SUFFICES ASSUME NEW i \in 1..Len(told'), told'[i].entry # 0
                 PROVE  /\ told'[i].entry \in Positions /\ Dealt(told'[i].entry)
                        /\ outcome[told'[i].entry].kind # "lost"
      BY <1>1
    <3>1. CASE i \in 1..Len(told)
      BY <3>1, <2>1, <1>1, <1>6 DEF Named
    <3>2. CASE i = Len(told) + 1
      BY <3>2, <2>1, <1>3, <1>6
    <3> QED
      BY <3>1, <3>2, <1>6
  <2>4. \A i, j \in 1..Len(told') : told'[i].entry = told'[j].entry /\ told'[i].entry # 0 => i = j
    <3> SUFFICES ASSUME NEW i \in 1..Len(told'), NEW j \in 1..Len(told'),
                        told'[i].entry = told'[j].entry, told'[i].entry # 0
                 PROVE  i = j
      OBVIOUS
    <3>1. CASE i \in 1..Len(told) /\ j \in 1..Len(told)
      BY <3>1, <1>1, <1>6 DEF Named
    <3>2. CASE i = Len(told) + 1 \/ j = Len(told) + 1
      BY <3>2, <1>3, <1>4, <1>6
    <3> QED
      BY <3>1, <3>2, <1>6
  <2> QED
    BY <1>2, <2>2, <2>3, <2>4 DEF Named, Settled, Dealt
<1>17. Counted'
  <2>1. IsFiniteSet(Pending) /\ IsFiniteSet(LostAndJoined)
    <3>1. IsFiniteSet(Positions) /\ Pending \subseteq Positions /\ LostAndJoined \subseteq Positions
      BY <1>1, Known DEF Pending, LostAndJoined, Lost
    <3> QED
      BY <3>1, FS_Subset
  <2>2. Pending' = Pending \ {k} /\ k \in Pending
    BY <1>2, <1>8 DEF Pending
  <2>3. Cardinality(Pending') = Cardinality(Pending) - 1 /\ Cardinality(Pending) \in Nat
    BY <2>1, <2>2, FS_RemoveElement, FS_CardinalityType
  <2>4. Len(told') + Cardinality(Pending') = taken'
    <3>1. Len(told) + Cardinality(Pending) = taken /\ Len(told) \in Nat /\ taken' = taken
      BY <1>1, Known DEF Counted
    <3> QED
      BY <3>1, <2>3, <1>6
  <2>5. Cardinality(Told(0)') = Cardinality(LostAndJoined')
    <3>1. CASE outcome[k].kind = "lost"
      <4>1. LostAndJoined' = LostAndJoined \cup {k} /\ k \notin LostAndJoined
        BY <3>1, <1>1, <1>2, <1>8 DEF LostAndJoined, Lost
      <4>2. Cardinality(LostAndJoined') = Cardinality(LostAndJoined) + 1
        BY <4>1, <2>1, FS_AddElement
      <4> QED
        BY <4>2, <3>1, <1>1, <1>5, <1>6 DEF Counted
    <3>2. CASE outcome[k].kind # "lost"
      <4>1. LostAndJoined' = LostAndJoined
        BY <3>2, <1>1, <1>2, <1>8 DEF LostAndJoined, Lost
      <4> QED
        BY <4>1, <3>2, <1>1, <1>5, <1>6 DEF Counted
    <3> QED
      BY <3>1, <3>2
  <2> QED
    BY <2>4, <2>5, <1>1, <1>6, <1>7 DEF Counted
<1> QED
  BY <1>9, <1>10, <1>11, <1>13, <1>14, <1>15, <1>16, <1>17 DEF IInv

LEMMA JoinKeeps ==
  ASSUME IInv, Join
  PROVE  IInv'
<1>1. CASE /\ \A k \in Positions : task[k] \in {"none", "joined"}
           /\ main' = "dispatch" /\ UNCHANGED <<task, ledger, told>>
  <2>1. /\ main = "join" /\ UNCHANGED <<upto, rows, exit>>
        /\ UNCHANGED <<file, opts, inputs, taken, task, outcome, locked, permits, index, ledger, told>>
    BY <1>1 DEF Join
  <2>2. /\ Shape' /\ Placed' /\ Guarded' /\ Queued' /\ NotAskedInVain' /\ Named' /\ Counted'
        /\ Pending' = Pending /\ Size' = Size /\ N' = N
    BY <2>1, MainAlone DEF IInv, Shape
  <2>3. Pending = {}
    BY <1>1 DEF Pending
  <2>4. Phase'
    BY <1>1, <2>1, <2>2, <2>3 DEF IInv, Phase
  <2> QED
    BY <2>2, <2>4 DEF IInv
<1>2. CASE \E k \in Positions :
             /\ task[k] = "over" /\ Goes(k, "joined") /\ UNCHANGED main
             /\ IF is_error(k) THEN ledger' = [ledger EXCEPT !.fetch_errors = @ + 1]
                ELSE ledger' = [ledger EXCEPT !.ok = @ + 1]
             /\ Report(IF outcome[k].kind = "lost" THEN 0 ELSE k, ~is_error(k))
  <2>1. PICK k \in Positions :
             /\ task[k] = "over" /\ Goes(k, "joined") /\ UNCHANGED main
             /\ IF is_error(k) THEN ledger' = [ledger EXCEPT !.fetch_errors = @ + 1]
                ELSE ledger' = [ledger EXCEPT !.ok = @ + 1]
             /\ Report(IF outcome[k].kind = "lost" THEN 0 ELSE k, ~is_error(k))
    BY <1>2
  <2>2. (~is_error(k)) \in BOOLEAN
    BY DEF is_error
  <2>3. \/ ledger' = [ledger EXCEPT !.ok = @ + 1]
        \/ ledger' = [ledger EXCEPT !.fetch_errors = @ + 1]
    BY <2>1
  <2> QED
    BY <2>1, <2>2, <2>3, JoinReported DEF Goes
<1> QED
  BY <1>1, <1>2 DEF Join

-----------------------------------------------------------------------------
(* The theorems.                                                           *)

LEMMA InitialIInv == Init => IInv
<1> SUFFICES ASSUME Init PROVE IInv
  OBVIOUS
<1>1. file = "undecodable" \/ file \in Seq(Entries)
  BY FileAssumption DEF Init
<1>2. Size \in Nat /\ Positions = 1..Size /\ Len(<<>>) = 0
  BY <1>1, ElementOf DEF Size, Positions
<1>3. NoOutcome \in [kind : OutcomeKinds, code : AllCodes] /\ NoOutcome.kind = "none"
  BY DEF NoOutcome, OutcomeKinds, AllCodes
<1>4. <<>> \in Seq(Verdicts) /\ <<>> \in Seq(Positions) /\ <<>> \in Seq([entry : Nat, ok : BOOLEAN])
  OBVIOUS
<1>5. Shape
  BY <1>1, <1>2, <1>3, <1>4 DEF Init, Shape, TaskStates, AllCodes, N
<1>6. \A k \in Positions : task[k] = "none" /\ outcome[k].kind = "none"
  BY <1>3 DEF Init
<1>7. Pending = {} /\ Lost = {} /\ Told(0) = {} /\ LostAndJoined = {}
  BY <1>2, <1>6 DEF Init, Pending, Lost, Told, LostAndJoined
<1>8. Phase /\ Placed
  BY <1>6, <1>7 DEF Init, Phase, Placed
<1>9. Guarded /\ Queued /\ NotAskedInVain
  BY <1>2, <1>6 DEF Init, Guarded, Queued, NotAskedInVain, Working
<1>10. Named
  BY <1>2 DEF Init, Named, Settled
<1>11. Counted
  <2>1. Cardinality({}) = 0
    BY FS_EmptySet
  <2>2. Len(told) = 0 /\ taken = 0
    BY <1>2 DEF Init
  <2>3. LedgerSum = 0
    BY DEF Init, LedgerSum
  <2>4. Cardinality(Told(0)) = 0 /\ Cardinality(LostAndJoined) = 0 /\ Cardinality(Pending) = 0
    BY <2>1, <1>7, Zenon
  <2> QED
    BY <2>2, <2>3, <2>4 DEF Counted
<1> QED
  BY <1>5, <1>8, <1>9, <1>10, <1>11 DEF IInv

LEMMA NextKeepsIInv == IInv /\ [Next]_vars => IInv'
<1> SUFFICES ASSUME IInv, [Next]_vars PROVE IInv'
  OBVIOUS
<1>1. CASE UNCHANGED vars
  <2>1. /\ Shape' /\ Placed' /\ Guarded' /\ Queued' /\ NotAskedInVain' /\ Named' /\ Counted'
        /\ Pending' = Pending /\ Size' = Size /\ N' = N
    BY <1>1, MainAlone DEF vars, taskVars, reportVars, IInv, Shape
  <2>2. Phase'
    BY <1>1, <2>1 DEF vars, taskVars, reportVars, IInv, Phase
  <2> QED
    BY <2>1, <2>2 DEF IInv
<1>2. CASE MainStep
  BY <1>2, ReadFileKeeps, ResolveEntryKeeps, DryRunKeeps, OpenSessionKeeps, NextWindowKeeps,
     DispatchKeeps, JoinKeeps, CloseKeeps DEF MainStep
<1>3. CASE \E k \in Positions : TaskStep(k)
  BY <1>3, TakeLockKeeps, TakePermitKeeps, FetchOneKeeps, PanicKeeps, ObserveKeeps, AnsweredKeeps DEF TaskStep
<1>4. CASE \E r \in Refs : Lapse(r)
  BY <1>4, LapseKeeps
<1> QED
  BY <1>1, <1>2, <1>3, <1>4 DEF Next, Finished

LEMMA Invariance == Spec => []IInv
<1> QED
  BY InitialIInv, NextKeepsIInv, PTL DEF Spec

\* However many tasks a ref has and however they are scheduled, none of them asks
\* the network while the index holds an answer that would have refused it
\* (batch.rs's per-ref lock around check, fetch and observe).
THEOREM NeverAskedInVain == Spec => []NotAskedInVain
<1>1. IInv => NotAskedInVain
  BY DEF IInv
<1> QED
  BY <1>1, Invariance, PTL

\* For any number of slots, no slot is held by a task that still waits for the
\* lock of its ref (the lock is taken before the permit in batch.rs).
THEOREM NoSlotIdles == Spec => []SlotsGoToWork
<1>1. IInv => SlotsGoToWork
  <2> SUFFICES ASSUME IInv, NEW i \in 1..Least(Slots, Len(permits))
               PROVE  HoldsLock(permits[i]) /\ task[permits[i]] \in {"admitted", "asking", "answered"}
    BY DEF SlotsGoToWork
  <2>1. i \in 1..Len(permits) /\ permits[i] \in Positions
    BY BatchAssumption, ElementOf DEF IInv, Shape, Least
  <2>2. task[permits[i]] \in Working
    BY <2>1 DEF IInv, Queued
  <2> QED
    BY <2>1, <2>2 DEF IInv, Guarded, Working
<1> QED
  BY <1>1, Invariance, PTL

\* A run that ends has reported each entry of a file of any length once, over any
\* number of windows, and once without a ref for every task that was lost
\* (run_with_options and classify_joined).
THEOREM EachEntryReportedOnce == Spec => []EveryEntryOnce
<1>1. IInv => EveryEntryOnce
  <2> SUFFICES ASSUME IInv, main = "over", "start" \in ToSet(rows)
               PROVE  /\ \A k \in Positions : Cardinality(Told(k)) = IF k \in Lost THEN 0 ELSE 1
                      /\ Cardinality(Told(0)) = Cardinality(Lost)
                      /\ LedgerSum = Len(file)
    BY DEF EveryEntryOnce, LedgerSum
  <2>1. Shape /\ Phase /\ Placed /\ Named /\ Counted
    BY DEF IInv
  <2>2. taken = Size /\ Pending = {} /\ file # "undecodable"
    <3>1. ToSet(<<>>) = {}
      BY DEF ToSet
    <3> QED
      BY <2>1, <3>1 DEF Phase
  <2>3. /\ Positions = 1..Size /\ Size \in Nat /\ Len(told) \in Nat
        /\ \A k \in Positions : task[k] \in {"none", "joined"} /\ Settled(k)
    BY <2>1, <2>2, Known DEF Pending, Settled
  <2>4. \A k \in Positions : Cardinality(Told(k)) = IF k \in Lost THEN 0 ELSE 1
    <3> SUFFICES ASSUME NEW k \in Positions
                 PROVE  Cardinality(Told(k)) = IF k \in Lost THEN 0 ELSE 1
      OBVIOUS
    <3>1. k # 0
      BY <2>3
    <3>2. CASE k \in Lost
      <4>1. Told(k) = {}
        BY <2>1, <3>1, <3>2 DEF Told, Lost, Named
      <4> QED
        BY <4>1, <3>2, FS_EmptySet
    <3>3. CASE k \notin Lost
      <4>1. PICK i \in 1..Len(told) : told[i].entry = k
        BY <2>1, <2>3, <3>3 DEF Lost, Named
      <4>2. Told(k) = {i}
        BY <2>1, <3>1, <4>1 DEF Told, Named
      <4> QED
        BY <4>2, <3>3, FS_Singleton
    <3> QED
      BY <3>2, <3>3
  <2>5. Lost = LostAndJoined
    BY <2>1, <2>3 DEF Lost, LostAndJoined, Placed
  <2>6. LedgerSum = Size
    BY <2>1, <2>2, <2>3, FS_EmptySet DEF Counted
  <2>7. Size = Len(file)
    BY <2>2 DEF Size
  <2> QED
    BY <2>1, <2>4, <2>5, <2>6, <2>7 DEF Counted
<1> QED
  BY <1>1, Invariance, PTL
=============================================================================
