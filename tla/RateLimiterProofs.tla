------------------------- MODULE RateLimiterProofs -------------------------
(***************************************************************************)
(* Proofs about RateLimiter for any number of fetches, sources and limits. *)
(***************************************************************************)
EXTENDS RateLimiter, FiniteSetTheorems, WellFoundedInduction, TLAPS

\* A source whose terms allow one connection at a time.
Single(s) == Cap[s] = 1 /\ MaxConcurrent > 1

\* The types the argument needs; a task that is in acquire or pace has a
\* request it is doing.
LedgerType ==
  /\ ssem \in [Sources -> Int] /\ next \in [Sources -> Nat]
  /\ since \in [Sources -> Nat] /\ timer = [t \in Tasks |-> timer[t]]
  /\ \A t \in Tasks : pc[t] = "sleep" => timer[t] \in Nat
  /\ pc \in [Tasks -> {"idle", "window", "wsleep", "source", "next", "sleep",
                       "push", "held"}]
  /\ todo \in [Tasks -> Seq(Request)]
  /\ \A t \in Tasks : pc[t] # "idle" => todo[t] # <<>>

\* One task at most is past the semaphore of a single-connection source.
SlotInv ==
  \A s \in Sources : Single(s) =>
    /\ ssem[s] \in {0, 1}
    /\ \A t \in Tasks : HasSourceSlot(t) /\ Source(t) = s => ssem[s] = 0
    /\ \A t, u \in Tasks : HasSourceSlot(t) /\ Source(t) = s /\ HasSourceSlot(u) /\ Source(u) = s => t = u

\* Until the next start is allowed, and until a sleeper wakes, the time since
\* the last start falls short of the backoff by no more than what is left.
SpaceInv ==
  \A s \in Sources : Single(s) =>
    /\ since[s] + next[s] >= Backoff[s]
    /\ \A t \in Tasks : pc[t] = "sleep" /\ Source(t) = s => since[s] + timer[t] >= Backoff[s]

\* pace runs only under a permit.
PhaseInv ==
  /\ phase \in [Tasks -> {"acquire", "pace"}]
  /\ \A t \in Tasks : phase[t] = "pace" => HasSourceSlot(t)

IInv == LedgerType /\ PhaseInv /\ SlotInv /\ SpaceInv
----------------------------------------------------------------------------
\* A task with a request has a source.
LEMMA SourceType ==
  ASSUME IInv, NEW t \in Tasks, todo[t] # <<>>
  PROVE  Source(t) \in Sources
<1>1. todo[t] \in Seq(Request)
  BY DEF IInv, LedgerType
<1>2. Head(todo[t]) \in Request
  BY <1>1
<1> QED
  BY <1>2 DEF Source, Request

\* The limiter starts with every slot free and no start behind it.
LEMMA InitIInv == Init => IInv
<1> SUFFICES ASSUME Init PROVE IInv
  OBVIOUS
<1> USE DEF Init
<1>1. LedgerType
  BY LimitAssumption, PlanAssumption DEF LedgerType
<1>2. PhaseInv
  BY DEF PhaseInv
<1>3. SlotInv
  BY LimitAssumption DEF SlotInv, Single, HasSourceSlot
<1>4. SpaceInv
  BY LimitAssumption DEF SpaceInv, Single
<1> QED
  BY <1>1, <1>2, <1>3, <1>4 DEF IInv

\* A step of one task that neither takes nor gives back a source slot and
\* starts nothing; if it goes to sleep, it is until the next allowed start.
LEMMA Quiet ==
  ASSUME IInv, NEW t \in Tasks, todo[t] # <<>>,
         NEW x \in {"window", "wsleep", "source", "next", "sleep", "push", "held"},
         NEW y \in {"acquire", "pace"}, NEW z,
         pc' = [pc EXCEPT ![t] = x], phase' = [phase EXCEPT ![t] = y],
         timer' = [timer EXCEPT ![t] = z],
         HasSourceSlot(t)' <=> HasSourceSlot(t), y = "pace" => HasSourceSlot(t),
         x = "sleep" => z = next[Source(t)],
         ssem' = ssem, next' = next, since' = since, todo' = todo
  PROVE  IInv'
<1>1. \A u \in Tasks : u # t => pc'[u] = pc[u] /\ phase'[u] = phase[u] /\ timer'[u] = timer[u]
  BY DEF IInv, LedgerType, PhaseInv
<1>2. pc'[t] = x /\ phase'[t] = y /\ timer'[t] = z
  BY DEF IInv, LedgerType, PhaseInv
<1>3. \A u \in Tasks : HasSourceSlot(u)' <=> HasSourceSlot(u)
  BY <1>1 DEF HasSourceSlot
<1>4. \A u \in Tasks : Source(u)' = Source(u)
  BY DEF Source
<1>5. LedgerType'
  <2>1. timer' = [u \in Tasks |-> timer'[u]]
    BY DEF IInv, LedgerType
  <2>2. next[Source(t)] \in Nat
    BY SourceType DEF IInv, LedgerType
  <2>3. \A u \in Tasks : pc'[u] = "sleep" => timer'[u] \in Nat
    BY <1>1, <1>2, <2>2 DEF IInv, LedgerType
  <2> QED
    BY <1>1, <2>1, <2>3 DEF IInv, LedgerType
<1>6. PhaseInv'
  BY <1>1, <1>2, <1>3 DEF IInv, PhaseInv
<1>7. SlotInv'
  BY <1>3, <1>4 DEF IInv, SlotInv, Single
<1>8. SpaceInv'
  BY <1>1, <1>2, <1>4 DEF IInv, SpaceInv, Single
<1> QED
  BY <1>5, <1>6, <1>7, <1>8 DEF IInv

\* A start of a task past the semaphore: alone there if the source is single,
\* so that nobody else sleeps towards an earlier start.
LEMMA StartStep ==
  ASSUME IInv, NEW t \in Tasks, pc[t] \in {"next", "sleep"}, Start(t),
         UNCHANGED <<ssem, phase, todo, timer>>
  PROVE  IInv'
<1> DEFINE s == Source(t)
<1>0. /\ next' = [next EXCEPT ![s] = Backoff[s]] /\ since' = [since EXCEPT ![s] = 0]
      /\ pc' = [pc EXCEPT ![t] = "push"]
      /\ ssem' = ssem /\ phase' = phase /\ todo' = todo /\ timer' = timer
  BY DEF Start
<1>1. todo[t] # <<>> /\ s \in Sources
  BY SourceType DEF IInv, LedgerType
<1>2. /\ \A u \in Tasks : u # t => pc'[u] = pc[u]
      /\ pc'[t] = "push"
  BY <1>0 DEF IInv, LedgerType
<1>3. \A u \in Tasks : HasSourceSlot(u)' <=> HasSourceSlot(u)
  BY <1>0, <1>2 DEF HasSourceSlot
<1>4. \A u \in Tasks : Source(u)' = Source(u)
  BY <1>0 DEF Source
<1>5. LedgerType'
  BY <1>0, <1>1, <1>2, LimitAssumption DEF IInv, LedgerType
<1>6. PhaseInv'
  BY <1>0, <1>3 DEF IInv, PhaseInv
<1>7. SlotInv'
  BY <1>0, <1>3, <1>4 DEF IInv, SlotInv, Single
<1>8. SpaceInv'
  <2> SUFFICES ASSUME NEW r \in Sources, Single(r)
               PROVE  /\ since'[r] + next'[r] >= Backoff[r]
                      /\ \A u \in Tasks : pc'[u] = "sleep" /\ Source(u) = r =>
                           since'[r] + timer[u] >= Backoff[r]
    BY <1>0, <1>4 DEF SpaceInv, Single
  <2>1. CASE r # s
    <3>1. since'[r] = since[r] /\ next'[r] = next[r]
      BY <1>0, <1>1, <2>1 DEF IInv, LedgerType
    <3> QED
      BY <1>2, <3>1 DEF IInv, SpaceInv
  <2>2. CASE r = s
    <3>1. since'[r] = 0 /\ next'[r] = Backoff[r] /\ Backoff[r] \in Nat
      BY <1>0, <1>1, <2>2, LimitAssumption DEF IInv, LedgerType
    <3>2. ASSUME NEW u \in Tasks, pc'[u] = "sleep", Source(u) = r PROVE FALSE
      <4>1. u # t /\ pc[u] = "sleep"
        BY <1>2, <3>2
      <4>2. HasSourceSlot(u) /\ HasSourceSlot(t)
        BY <4>1 DEF HasSourceSlot
      <4> QED
        BY <2>2, <3>2, <4>1, <4>2 DEF IInv, SlotInv
    <3> QED
      BY <3>1, <3>2
  <2> QED
    BY <2>1, <2>2
<1> QED
  BY <1>5, <1>6, <1>7, <1>8 DEF IInv

\* A task takes the slot of its source.
LEMMA SourceSlotStep ==
  ASSUME IInv, NEW t \in Tasks, SourceSlot(t)
  PROVE  IInv'
<1> DEFINE s == Source(t)
<1>0. /\ pc[t] = "source" /\ (Capped(s) => ssem[s] > 0)
      /\ ssem' = IF Capped(s) THEN [ssem EXCEPT ![s] = @ - 1] ELSE ssem
      /\ pc' = [pc EXCEPT ![t] = "next"] /\ next' = next /\ since' = since
      /\ phase' = phase /\ todo' = todo /\ timer' = timer
  BY DEF SourceSlot
<1>1. todo[t] # <<>> /\ s \in Sources
  BY <1>0, SourceType DEF IInv, LedgerType
<1>2. /\ \A u \in Tasks : u # t => pc'[u] = pc[u]
      /\ pc'[t] = "next"
  BY <1>0 DEF IInv, LedgerType
<1>3. /\ \A u \in Tasks : u # t => (HasSourceSlot(u)' <=> HasSourceSlot(u))
      /\ HasSourceSlot(t)'
  BY <1>0, <1>2 DEF HasSourceSlot
<1>4. \A u \in Tasks : Source(u)' = Source(u)
  BY <1>0 DEF Source
<1>5. LedgerType'
  <2>1. ssem' \in [Sources -> Int]
    BY <1>0, <1>1 DEF IInv, LedgerType
  <2> QED
    BY <1>0, <1>2, <2>1 DEF IInv, LedgerType
<1>6. PhaseInv'
  BY <1>0, <1>3 DEF IInv, PhaseInv
<1>7. SlotInv'
  <2> SUFFICES ASSUME NEW r \in Sources, Single(r)
               PROVE  /\ ssem'[r] \in {0, 1}
                      /\ \A u \in Tasks : HasSourceSlot(u)' /\ Source(u) = r => ssem'[r] = 0
                      /\ \A u, v \in Tasks : HasSourceSlot(u)' /\ Source(u) = r
                                    /\ HasSourceSlot(v)' /\ Source(v) = r => u = v
    BY <1>4 DEF SlotInv, Single
  <2>1. CASE r # s
    <3>1. ssem'[r] = ssem[r]
      BY <1>0, <1>1, <2>1 DEF IInv, LedgerType
    <3>2. /\ ssem[r] \in {0, 1}
          /\ \A u \in Tasks : HasSourceSlot(u) /\ Source(u) = r => ssem[r] = 0
          /\ \A u, v \in Tasks : HasSourceSlot(u) /\ Source(u) = r
                               /\ HasSourceSlot(v) /\ Source(v) = r => u = v
      BY DEF IInv, SlotInv
    <3> QED
      BY <1>3, <2>1, <3>1, <3>2
  <2>2. CASE r = s
    <3>1. Capped(s)
      BY <2>2 DEF Single, Capped
    <3>2. ssem[r] = 1 /\ ssem'[r] = 0
      BY <1>0, <1>1, <2>2, <3>1 DEF IInv, LedgerType, SlotInv
    <3>3. \A u \in Tasks : ~(HasSourceSlot(u) /\ Source(u) = r)
      BY <3>2 DEF IInv, SlotInv
    <3> QED
      BY <1>3, <3>2, <3>3
  <2> QED
    BY <2>1, <2>2
<1>8. SpaceInv'
  BY <1>0, <1>2, <1>4 DEF IInv, SpaceInv, Single
<1> QED
  BY <1>5, <1>6, <1>7, <1>8 DEF IInv

\* The permit is dropped, with the slot of its source.
LEMMA DropStep ==
  ASSUME IInv, NEW t \in Tasks, DropPermit(t)
  PROVE  IInv'
<1> DEFINE s == Source(t)
<1>0. /\ pc[t] = "held"
      /\ ssem' = IF Capped(s) THEN [ssem EXCEPT ![s] = @ + 1] ELSE ssem
      /\ todo' = [todo EXCEPT ![t] = Tail(@)]
      /\ phase' = [phase EXCEPT ![t] = "acquire"]
      /\ pc' = [pc EXCEPT ![t] = "idle"] /\ next' = next /\ since' = since
      /\ timer' = timer
  BY DEF DropPermit
<1>1. todo[t] # <<>> /\ s \in Sources /\ todo[t] \in Seq(Request)
  BY <1>0, SourceType DEF IInv, LedgerType
<1>2. /\ \A u \in Tasks : u # t => pc'[u] = pc[u] /\ phase'[u] = phase[u] /\ todo'[u] = todo[u]
      /\ pc'[t] = "idle" /\ phase'[t] = "acquire"
  BY <1>0 DEF IInv, LedgerType, PhaseInv
<1>3. /\ \A u \in Tasks : u # t => (HasSourceSlot(u)' <=> HasSourceSlot(u))
      /\ ~HasSourceSlot(t)' /\ HasSourceSlot(t)
  BY <1>0, <1>2 DEF HasSourceSlot
<1>4. \A u \in Tasks : u # t => Source(u)' = Source(u)
  BY <1>2 DEF Source
<1>5. LedgerType'
  <2>1. ssem' \in [Sources -> Int]
    BY <1>0, <1>1 DEF IInv, LedgerType
  <2>2. Tail(todo[t]) \in Seq(Request)
    BY <1>1
  <2>3. todo' \in [Tasks -> Seq(Request)]
    BY <1>0, <2>2 DEF IInv, LedgerType
  <2>4. \A u \in Tasks : pc'[u] # "idle" => todo'[u] # <<>>
    BY <1>2 DEF IInv, LedgerType
  <2>5. timer' = [u \in Tasks |-> timer'[u]]
    BY <1>0 DEF IInv, LedgerType
  <2>6. \A u \in Tasks : pc'[u] = "sleep" => timer'[u] \in Nat
    BY <1>0, <1>2 DEF IInv, LedgerType
  <2> QED
    BY <1>0, <2>1, <2>3, <2>4, <2>5, <2>6 DEF IInv, LedgerType
<1>6. PhaseInv'
  BY <1>0, <1>2, <1>3 DEF IInv, PhaseInv
<1>7. SlotInv'
  <2> SUFFICES ASSUME NEW r \in Sources, Single(r)
               PROVE  /\ ssem'[r] \in {0, 1}
                      /\ \A u \in Tasks : u # t /\ HasSourceSlot(u)' /\ Source(u) = r => ssem'[r] = 0
                      /\ \A u, v \in Tasks : u # t /\ HasSourceSlot(u)' /\ Source(u) = r
                                    /\ v # t /\ HasSourceSlot(v)' /\ Source(v) = r => u = v
    BY <1>3, <1>4 DEF SlotInv, Single
  <2>1. CASE r # s
    <3>1. ssem'[r] = ssem[r]
      BY <1>0, <1>1, <2>1 DEF IInv, LedgerType
    <3>2. /\ ssem[r] \in {0, 1}
          /\ \A u \in Tasks : HasSourceSlot(u) /\ Source(u) = r => ssem[r] = 0
          /\ \A u, v \in Tasks : HasSourceSlot(u) /\ Source(u) = r
                               /\ HasSourceSlot(v) /\ Source(v) = r => u = v
      BY DEF IInv, SlotInv
    <3> QED
      BY <1>3, <2>1, <3>1, <3>2
  <2>2. CASE r = s
    <3>1. Capped(s)
      BY <2>2 DEF Single, Capped
    <3>2. ssem[r] = 0
      BY <1>3, <2>2 DEF IInv, SlotInv
    <3>3. ssem'[r] = 1
      BY <1>0, <1>1, <2>2, <3>1, <3>2 DEF IInv, LedgerType
    <3>4. \A u \in Tasks : u # t => ~(HasSourceSlot(u) /\ Source(u) = r)
      BY <1>3, <2>2 DEF IInv, SlotInv
    <3> QED
      BY <1>3, <3>3, <3>4
  <2> QED
    BY <2>1, <2>2
<1>8. SpaceInv'
  <2>1. \A u \in Tasks : pc'[u] = "sleep" => u # t /\ pc[u] = "sleep" /\ Source(u)' = Source(u)
    BY <1>2, <1>4
  <2> QED
    BY <1>0, <2>1 DEF IInv, SpaceInv, Single
<1> QED
  BY <1>5, <1>6, <1>7, <1>8 DEF IInv

\* A Retry-After only moves the next start of a source away.
LEMMA SleepForStep ==
  ASSUME IInv, NEW s \in Sources, NEW d \in 1..MaxDelay, SleepFor(s, d)
  PROVE  IInv'
<1>0. /\ next' = [next EXCEPT ![s] = IF @ < d THEN d ELSE @]
      /\ ssem' = ssem /\ pc' = pc /\ phase' = phase /\ todo' = todo
      /\ timer' = timer /\ since' = since
  BY DEF SleepFor
<1>1. d \in Nat
  BY LimitAssumption
<1>2. next' \in [Sources -> Nat] /\ \A r \in Sources : next'[r] >= next[r]
  BY <1>0, <1>1 DEF IInv, LedgerType
<1>3. LedgerType'
  BY <1>0, <1>2 DEF IInv, LedgerType
<1>4. PhaseInv' /\ SlotInv'
  BY <1>0 DEF IInv, PhaseInv, SlotInv, HasSourceSlot, Source, Single
<1>5. SpaceInv'
  <2>1. ASSUME NEW r \in Sources, Single(r) PROVE since[r] + next'[r] >= Backoff[r]
    <3>1. /\ since[r] \in Nat /\ next[r] \in Nat /\ next'[r] \in Nat
          /\ Backoff[r] \in Nat /\ next'[r] >= next[r]
      BY <1>2, LimitAssumption DEF IInv, LedgerType
    <3>2. since[r] + next[r] >= Backoff[r]
      BY <2>1 DEF IInv, SpaceInv
    <3> QED
      BY <3>1, <3>2
  <2> QED
    BY <1>0, <2>1 DEF IInv, SpaceInv, Source, Single
<1> QED
  BY <1>3, <1>4, <1>5 DEF IInv

\* The clock takes from what is left what it adds to the time since.
LEMMA TickStep ==
  ASSUME IInv, Tick
  PROVE  IInv'
<1>0. /\ next' = [s \in Sources |-> Sooner(next[s])]
      /\ timer' = [t \in Tasks |-> Sooner(timer[t])]
      /\ since' = [s \in Sources |-> Older(since[s], Backoff[s])]
      /\ ssem' = ssem /\ pc' = pc /\ phase' = phase /\ todo' = todo
  BY DEF Tick
<1>1. ASSUME NEW n \in Nat, NEW m \in Nat, NEW b \in Nat, n + m >= b
      PROVE  /\ Older(n, b) \in Nat /\ Sooner(m) \in Nat
             /\ Older(n, b) + Sooner(m) >= b
  BY <1>1 DEF Older, Sooner
<1>2. LedgerType'
  BY <1>0, LimitAssumption DEF IInv, LedgerType, Older, Sooner
<1>3. PhaseInv' /\ SlotInv'
  BY <1>0 DEF IInv, PhaseInv, SlotInv, HasSourceSlot, Source, Single
<1>4. SpaceInv'
  <2> SUFFICES ASSUME NEW s \in Sources, Single(s)
               PROVE  /\ since'[s] + next'[s] >= Backoff[s]
                      /\ \A t \in Tasks : pc[t] = "sleep" /\ Source(t) = s =>
                           since'[s] + timer'[t] >= Backoff[s]
    BY <1>0 DEF SpaceInv, Source, Single
  <2>1. Backoff[s] \in Nat /\ since[s] \in Nat /\ next[s] \in Nat
    BY LimitAssumption DEF IInv, LedgerType
  <2>2. since'[s] + next'[s] >= Backoff[s]
    BY <1>0, <1>1, <2>1 DEF IInv, SpaceInv
  <2>3. ASSUME NEW t \in Tasks, pc[t] = "sleep", Source(t) = s
        PROVE  since'[s] + timer'[t] >= Backoff[s]
    <3>1. timer[t] \in Nat /\ since[s] + timer[t] >= Backoff[s]
      BY <2>3 DEF IInv, LedgerType, SpaceInv
    <3> QED
      BY <1>0, <1>1, <2>1, <3>1
  <2> QED
    BY <2>2, <2>3
<1> QED
  BY <1>2, <1>3, <1>4 DEF IInv

\* The steps that leave slots and ledgers of the sources alone.
LEMMA QuietStep ==
  ASSUME IInv, NEW t \in Tasks,
         \/ AcquireSlot(t) \/ WindowOk(t) \/ WindowFull(t) \/ WindowWake(t)
         \/ StartLater(t) \/ Push(t) \/ Pace(t)
  PROVE  IInv'
<1>0. /\ pc \in [Tasks -> {"idle", "window", "wsleep", "source", "next", "sleep",
                           "push", "held"}]
      /\ phase \in [Tasks -> {"acquire", "pace"}]
      /\ timer = [u \in Tasks |-> timer[u]]
      /\ pc[t] # "idle" => todo[t] # <<>>
      /\ phase[t] = "pace" => HasSourceSlot(t)
  BY DEF IInv, LedgerType, PhaseInv
<1>1. CASE AcquireSlot(t)
  <2>1. /\ pc' = [pc EXCEPT ![t] = "window"] /\ phase' = [phase EXCEPT ![t] = "acquire"]
        /\ timer' = [timer EXCEPT ![t] = timer[t]] /\ todo[t] # <<>>
    BY <1>0, <1>1 DEF AcquireSlot, HasSourceSlot
  <2>2. ~HasSourceSlot(t) /\ ~HasSourceSlot(t)'
    BY <1>0, <1>1, <2>1 DEF AcquireSlot, HasSourceSlot
  <2> QED
    BY <1>0, <1>1, <2>1, <2>2, Quiet DEF AcquireSlot
<1>2. CASE WindowOk(t)
  <2>1. CASE phase[t] = "acquire"
    <3>1. /\ pc' = [pc EXCEPT ![t] = "source"] /\ phase' = [phase EXCEPT ![t] = "acquire"]
          /\ timer' = [timer EXCEPT ![t] = timer[t]] /\ todo[t] # <<>>
      BY <1>0, <1>2, <2>1 DEF WindowOk
    <3>2. ~HasSourceSlot(t) /\ ~HasSourceSlot(t)'
      BY <1>0, <1>2, <2>1, <3>1 DEF WindowOk, HasSourceSlot
    <3> QED
      BY <1>0, <1>2, <3>1, <3>2, Quiet DEF WindowOk
  <2>2. CASE phase[t] = "pace"
    <3>1. /\ pc' = [pc EXCEPT ![t] = "next"] /\ phase' = [phase EXCEPT ![t] = "pace"]
          /\ timer' = [timer EXCEPT ![t] = timer[t]] /\ todo[t] # <<>>
      BY <1>0, <1>2, <2>2 DEF WindowOk
    <3>2. HasSourceSlot(t) /\ HasSourceSlot(t)'
      BY <1>0, <1>2, <2>2, <3>1 DEF WindowOk, HasSourceSlot
    <3> QED
      BY <1>0, <1>2, <3>1, <3>2, Quiet DEF WindowOk
  <2> QED
    BY <1>0, <2>1, <2>2
<1>3. CASE WindowFull(t)
  <2> DEFINE z == Window - Pruned[1]
  <2>1. /\ pc' = [pc EXCEPT ![t] = "wsleep"] /\ phase' = [phase EXCEPT ![t] = phase[t]]
        /\ timer' = [timer EXCEPT ![t] = z] /\ todo[t] # <<>>
        /\ ssem' = ssem /\ next' = next /\ since' = since /\ todo' = todo
    BY <1>0, <1>3 DEF WindowFull
  <2> HIDE DEF z
  <2>2. HasSourceSlot(t)' <=> HasSourceSlot(t)
    BY <1>0, <1>3, <2>1 DEF WindowFull, HasSourceSlot
  <2> QED
    BY <1>0, <2>1, <2>2, Quiet
<1>4. CASE WindowWake(t)
  <2>1. /\ pc' = [pc EXCEPT ![t] = "window"] /\ phase' = [phase EXCEPT ![t] = phase[t]]
        /\ timer' = [timer EXCEPT ![t] = timer[t]] /\ todo[t] # <<>>
    BY <1>0, <1>4 DEF WindowWake
  <2>2. HasSourceSlot(t)' <=> HasSourceSlot(t)
    BY <1>0, <1>4, <2>1 DEF WindowWake, HasSourceSlot
  <2> QED
    BY <1>0, <1>4, <2>1, <2>2, Quiet DEF WindowWake
<1>5. CASE StartLater(t)
  <2>1. /\ pc' = [pc EXCEPT ![t] = "sleep"] /\ phase' = [phase EXCEPT ![t] = phase[t]]
        /\ timer' = [timer EXCEPT ![t] = next[Source(t)]] /\ todo[t] # <<>>
    BY <1>0, <1>5 DEF StartLater
  <2>2. HasSourceSlot(t) /\ HasSourceSlot(t)'
    BY <1>0, <1>5, <2>1 DEF StartLater, HasSourceSlot
  <2>3. next[Source(t)] \in Nat
    BY <2>1, SourceType DEF IInv, LedgerType
  <2> QED
    BY <1>0, <1>5, <2>1, <2>2, <2>3, Quiet DEF StartLater
<1>6. CASE Push(t)
  <2>1. /\ pc' = [pc EXCEPT ![t] = "held"] /\ phase' = [phase EXCEPT ![t] = phase[t]]
        /\ timer' = [timer EXCEPT ![t] = timer[t]] /\ todo[t] # <<>>
    BY <1>0, <1>6 DEF Push
  <2>2. HasSourceSlot(t) /\ HasSourceSlot(t)'
    BY <1>0, <1>6, <2>1 DEF Push, HasSourceSlot
  <2> QED
    BY <1>0, <1>6, <2>1, <2>2, Quiet DEF Push
<1>7. CASE Pace(t)
  <2>1. /\ pc' = [pc EXCEPT ![t] = "window"] /\ phase' = [phase EXCEPT ![t] = "pace"]
        /\ timer' = [timer EXCEPT ![t] = timer[t]] /\ todo[t] # <<>>
    BY <1>0, <1>7 DEF Pace
  <2>2. HasSourceSlot(t) /\ HasSourceSlot(t)'
    BY <1>0, <1>7, <2>1 DEF Pace, HasSourceSlot
  <2> QED
    BY <1>0, <1>7, <2>1, <2>2, Quiet DEF Pace
<1> QED
  BY <1>1, <1>2, <1>3, <1>4, <1>5, <1>6, <1>7

\* Every step keeps the invariant.
LEMMA NextIInv == IInv /\ [Next]_vars => IInv'
<1> SUFFICES ASSUME IInv, [Next]_vars PROVE IInv'
  OBVIOUS
<1>1. ASSUME NEW t \in Tasks, Step(t) PROVE IInv'
  <2>1. CASE SourceSlot(t)
    BY <2>1, SourceSlotStep
  <2>2. CASE StartNow(t)
    BY <2>2, StartStep DEF StartNow
  <2>3. CASE WakeAndStart(t)
    BY <2>3, StartStep DEF WakeAndStart
  <2>4. CASE DropPermit(t)
    BY <2>4, DropStep
  <2> QED
    BY <1>1, <2>1, <2>2, <2>3, <2>4, QuietStep DEF Step
<1>2. ASSUME NEW s \in Sources, NEW d \in 1..MaxDelay, SleepFor(s, d) PROVE IInv'
  BY <1>2, SleepForStep
<1>3. CASE Tick
  BY <1>3, TickStep
<1>4. CASE UNCHANGED vars
  <2> USE <1>4 DEF vars
  <2>1. LedgerType'
    BY DEF IInv, LedgerType
  <2>2. PhaseInv' /\ SlotInv'
    BY DEF IInv, PhaseInv, SlotInv, HasSourceSlot, Source, Single
  <2>3. SpaceInv'
    BY DEF IInv, SpaceInv, Source, Single
  <2> QED
    BY <2>1, <2>2, <2>3 DEF IInv
<1> QED
  BY <1>1, <1>2, <1>3, <1>4 DEF Next

\* When a task starts at a single-connection source, the backoff has passed.
LEMMA StartsSpaced ==
  ASSUME IInv, [Next]_vars, NEW s \in Sources, Single(s), StartsAt(s)
  PROVE  since[s] >= Backoff[s]
<1>1. PICK t \in Tasks : pc[t] # "push" /\ pc'[t] = "push" /\ Source(t) = s
  BY DEF StartsAt
<1>2. pc \in [Tasks -> {"idle", "window", "wsleep", "source", "next", "sleep",
                        "push", "held"}]
  BY DEF IInv, LedgerType
<1>3. StartNow(t) \/ WakeAndStart(t)
  <2>1. ASSUME NEW u \in Tasks, Step(u)
        PROVE  StartNow(t) \/ WakeAndStart(t)
    BY <1>1, <1>2, <2>1 DEF Step, AcquireSlot, WindowOk, WindowFull, WindowWake,
       SourceSlot, StartNow, StartLater, WakeAndStart, Start, Push, Pace, DropPermit
  <2>2. pc' # pc
    BY <1>1
  <2> QED
    BY <2>1, <2>2 DEF Next, vars, SleepFor, Tick
<1>4. since[s] \in Nat /\ next[s] \in Nat /\ Backoff[s] \in Nat
  BY LimitAssumption DEF IInv, LedgerType
<1>5. CASE StartNow(t)
  <2>1. next[s] = 0 /\ since[s] + next[s] >= Backoff[s]
    BY <1>1, <1>5 DEF StartNow, IInv, SpaceInv
  <2> QED
    BY <1>4, <2>1
<1>6. CASE WakeAndStart(t)
  <2>1. timer[t] = 0 /\ since[s] + timer[t] >= Backoff[s]
    BY <1>1, <1>6 DEF WakeAndStart, IInv, SpaceInv
  <2> QED
    BY <1>4, <2>1
<1> QED
  BY <1>3, <1>5, <1>6
----------------------------------------------------------------------------
(* Counting: the slots that are out and the starts of the last second.     *)

Busy == {t \in Tasks : pc[t] # "idle"}

\* Past the window and not in it yet: the start is still to be pushed.
Ahead == {t \in Tasks : pc[t] \in {"source", "next", "sleep", "push"}}
Recent == {i \in 1..Len(starts) : starts[i] < Window}
At(s) == {t \in Tasks : HasSourceSlot(t) /\ Source(t) = s}

\* A task that is not idle stands for a slot that is not free.
SlotsCounted ==
  /\ sem \in Nat /\ IsFiniteSet(Busy)
  /\ Cardinality(Busy) + sem = MaxConcurrent

\* The same at a source with a semaphore of its own.
SourceCounted ==
  \A s \in Sources : Capped(s) =>
    /\ ssem[s] \in Nat /\ IsFiniteSet(At(s))
    /\ Cardinality(At(s)) + ssem[s] = Cap[s]

\* Whoever is about to start has seen room when it looked; then at most the
\* other fetches in flight had seen the same room.
WindowCounted ==
  /\ starts \in Seq(Nat) /\ age \in [Tasks -> Nat]
  /\ Cardinality(Recent) + Cardinality(Ahead) <= MaxPerSec + MaxConcurrent - 1

Before == {pair \in Nat \X Nat : pair[1] < pair[2]}

\* A set of naturals has a least member.
LEMMA LeastOf ==
  ASSUME NEW S, S \subseteq Nat, S # {}
  PROVE  \E m \in S : \A k \in S : m <= k
<1>1. Before = OpToRel(<, Nat)
  BY Zenon DEF Before, OpToRel
<1>2. IsWellFoundedOn(Before, Nat)
  BY <1>1, NatLessThanWellFounded, Zenon
<1>3. PICK m \in S : \A k \in S : ~(<<k, m>> \in Before)
  BY <1>2, WFMin, Zenon
<1>4. \A k \in S : ~(k < m)
  BY <1>3 DEF Before
<1>5. \A k \in S : m <= k
  BY <1>4
<1> QED
  BY <1>5

\* The recent starts are finitely many.
LEMMA RecentFinite ==
  ASSUME starts \in Seq(Nat)
  PROVE  IsFiniteSet(Recent) /\ Cardinality(Recent) \in Nat
<1>1. Len(starts) \in Nat /\ Recent \subseteq 1..Len(starts)
  BY DEF Recent
<1>2. IsFiniteSet(1..Len(starts))
  BY <1>1, FS_Interval
<1>3. IsFiniteSet(Recent)
  BY <1>1, <1>2, FS_Subset
<1> QED
  BY <1>3, FS_CardinalityType

\* Pruning leaves a suffix of the ledger.
LEMMA PrunedIsSuffix ==
  ASSUME starts \in Seq(Nat)
  PROVE  \E n \in 0..Len(starts) : Pruned = SubSeq(starts, n + 1, Len(starts))
<1> DEFINE P(n) == /\ \A i \in 1..n : starts[i] >= Window
                   /\ n < Len(starts) => starts[n + 1] < Window
<1>0. Window \in Nat /\ Len(starts) \in Nat /\ \A i \in 1..Len(starts) : starts[i] \in Nat
  BY LimitAssumption
<1>1. \E n \in 0..Len(starts) : P(n)
  <2>1. CASE Recent = {}
    <3>1. P(Len(starts))
      BY <1>0, <2>1 DEF Recent
    <3> QED
      BY <1>0, <3>1
  <2>2. CASE Recent # {}
    <3>1. PICK m \in Recent : \A k \in Recent : m <= k
      <4>1. Recent \subseteq Nat
        BY <1>0 DEF Recent
      <4> QED
        BY <2>2, <4>1, LeastOf
    <3>2. m - 1 \in 0..Len(starts) /\ m \in 1..Len(starts) /\ starts[m] < Window
      BY <1>0, <3>1 DEF Recent
    <3>3. ASSUME NEW i \in 1..(m - 1) PROVE starts[i] >= Window
      BY <1>0, <3>1, <3>2, <3>3 DEF Recent
    <3>4. P(m - 1)
      BY <1>0, <3>2, <3>3
    <3> QED
      BY <3>2, <3>4
  <2> QED
    BY <2>1, <2>2
<1>2. (CHOOSE n \in 0..Len(starts) : P(n)) \in 0..Len(starts)
  BY <1>1, Zenon
<1> QED
  BY <1>2, Zenon DEF Pruned

\* Pruning drops no recent start, and brings none in.
LEMMA PrunedCounts ==
  ASSUME starts \in Seq(Nat), starts' = Pruned
  PROVE  /\ starts' \in Seq(Nat)
         /\ IsFiniteSet(Recent') /\ Cardinality(Recent') \in Nat
         /\ Cardinality(Recent') <= Cardinality(Recent)
         /\ Cardinality(Recent') <= Len(Pruned) /\ Len(Pruned) \in Nat
<1>1. PICK n \in 0..Len(starts) : Pruned = SubSeq(starts, n + 1, Len(starts))
  BY PrunedIsSuffix
<1>2. /\ Len(starts) \in Nat /\ n \in Nat /\ Window \in Nat
      /\ Pruned \in Seq(Nat) /\ Len(Pruned) = Len(starts) - n /\ Len(Pruned) \in Nat
      /\ \A i \in 1..Len(Pruned) : Pruned[i] = starts[i + n]
  BY <1>1, LimitAssumption
<1>3. IsFiniteSet(Recent) /\ Cardinality(Recent) \in Nat
  BY RecentFinite
<1> DEFINE f == [i \in Recent' |-> i + n]
<1>4. f \in Injection(Recent', Recent)
  <2>1. Recent' = {i \in 1..Len(Pruned) : Pruned[i] < Window}
    BY DEF Recent
  <2>2. \A i \in Recent' : i \in Nat /\ i + n \in Recent
    BY <1>2, <2>1 DEF Recent
  <2>3. f \in [Recent' -> Recent]
    BY <2>2
  <2>4. \A i, j \in Recent' : f[i] = f[j] => i = j
    BY <1>2, <2>2
  <2> QED
    BY <2>3, <2>4 DEF Injection, IsInjective
<1>5. IsFiniteSet(Recent') /\ Cardinality(Recent') <= Cardinality(Recent)
  BY <1>3, <1>4, FS_Injection
<1>6. Cardinality(Recent') \in Nat
  BY <1>5, FS_CardinalityType
<1>7. Cardinality(Recent') <= Len(Pruned)
  <2>1. Recent' \in SUBSET (1..Len(Pruned))
    BY DEF Recent
  <2> DEFINE m == Len(Pruned)
  <2>2. m \in Nat
    BY <1>2
  <2> HIDE DEF m
  <2>3. IsFiniteSet(1..m) /\ Cardinality(1..m) = m
    BY <2>2, FS_Interval
  <2> USE DEF m
  <2> QED
    BY <2>1, <2>3, FS_Subset
<1> QED
  BY <1>2, <1>5, <1>6, <1>7

\* The slots of the process.
LEMMA SlotsStep ==
  ASSUME IInv, SlotsCounted, [Next]_vars
  PROVE  SlotsCounted'
<1>0. /\ pc \in [Tasks -> {"idle", "window", "wsleep", "source", "next", "sleep", "push", "held"}]
      /\ Cardinality(Busy) \in Nat /\ MaxConcurrent \in Nat
  BY FS_CardinalityType, LimitAssumption DEF IInv, LedgerType, SlotsCounted
<1>1. ASSUME NEW t \in Tasks, AcquireSlot(t) PROVE SlotsCounted'
  <2>1. Busy' = Busy \cup {t} /\ t \notin Busy /\ sem' = sem - 1 /\ sem > 0
    BY <1>0, <1>1 DEF AcquireSlot, Busy
  <2>2. IsFiniteSet(Busy') /\ Cardinality(Busy') = Cardinality(Busy) + 1
    BY <2>1, FS_AddElement DEF SlotsCounted
  <2> QED
    BY <1>0, <2>1, <2>2 DEF SlotsCounted
<1>2. ASSUME NEW t \in Tasks, DropPermit(t) PROVE SlotsCounted'
  <2>1. Busy' = Busy \ {t} /\ t \in Busy /\ sem' = sem + 1
    BY <1>0, <1>2 DEF DropPermit, Busy
  <2> QED
    BY <1>0, <2>1, FS_RemoveElement DEF SlotsCounted
<1>3. ASSUME Busy' = Busy, sem' = sem PROVE SlotsCounted'
  BY <1>3 DEF SlotsCounted
<1>4. ASSUME NEW t \in Tasks, Step(t) PROVE SlotsCounted'
  <2>1. CASE WindowOk(t)
    BY <1>0, <1>3, <2>1 DEF WindowOk, Busy
  <2>2. CASE WindowFull(t)
    BY <1>0, <1>3, <2>2 DEF WindowFull, Busy
  <2>3. CASE WindowWake(t)
    BY <1>0, <1>3, <2>3 DEF WindowWake, Busy
  <2>4. CASE SourceSlot(t)
    BY <1>0, <1>3, <2>4 DEF SourceSlot, Busy
  <2>5. CASE StartNow(t)
    BY <1>0, <1>3, <2>5 DEF StartNow, Start, Busy
  <2>6. CASE StartLater(t)
    BY <1>0, <1>3, <2>6 DEF StartLater, Busy
  <2>7. CASE WakeAndStart(t)
    BY <1>0, <1>3, <2>7 DEF WakeAndStart, Start, Busy
  <2>8. CASE Push(t)
    BY <1>0, <1>3, <2>8 DEF Push, Busy
  <2>9. CASE Pace(t)
    BY <1>0, <1>3, <2>9 DEF Pace, Busy
  <2> QED
    BY <1>1, <1>2, <1>4, <2>1, <2>2, <2>3, <2>4, <2>5, <2>6, <2>7, <2>8, <2>9 DEF Step
<1>5. ASSUME UNCHANGED <<sem, pc>> PROVE SlotsCounted'
  BY <1>3, <1>5 DEF Busy
<1> QED
  BY <1>4, <1>5 DEF Next, SleepFor, Tick, vars

\* Whoever is past the window is not idle.
LEMMA AheadIsBusy ==
  ASSUME SlotsCounted
  PROVE  IsFiniteSet(Ahead) /\ Cardinality(Ahead) \in Nat /\ Cardinality(Ahead) <= MaxConcurrent
<1>1. Ahead \in SUBSET Busy
  BY DEF Ahead, Busy
<1>2. IsFiniteSet(Ahead) /\ Cardinality(Ahead) <= Cardinality(Busy) /\ Cardinality(Busy) \in Nat
  BY <1>1, FS_Subset, FS_CardinalityType DEF SlotsCounted
<1>3. Cardinality(Ahead) \in Nat
  BY <1>2, FS_CardinalityType
<1> QED
  BY <1>2, <1>3, LimitAssumption DEF SlotsCounted

\* The starts of the last second and those about to be made.
LEMMA WindowStep ==
  ASSUME IInv, SlotsCounted, WindowCounted, [Next]_vars
  PROVE  WindowCounted'
<1>0. /\ pc \in [Tasks -> {"idle", "window", "wsleep", "source", "next", "sleep", "push", "held"}]
      /\ starts \in Seq(Nat) /\ age \in [Tasks -> Nat] /\ Len(starts) \in Nat
      /\ MaxConcurrent \in Nat /\ MaxPerSec \in Nat /\ Window \in Nat
      /\ Cardinality(Recent) + Cardinality(Ahead) <= MaxPerSec + MaxConcurrent - 1
  BY LimitAssumption DEF IInv, LedgerType, WindowCounted
<1>1. IsFiniteSet(Recent) /\ Cardinality(Recent) \in Nat
  BY <1>0, RecentFinite
<1>2. IsFiniteSet(Ahead) /\ Cardinality(Ahead) \in Nat
  BY AheadIsBusy
<1>3. SlotsCounted'
  BY SlotsStep
<1>4. ASSUME NEW t \in Tasks, WindowOk(t) PROVE WindowCounted'
  <2>1. starts' = Pruned /\ Len(Pruned) < MaxPerSec /\ age' = age
    BY <1>4 DEF WindowOk
  <2>2. Cardinality(Ahead') \in Nat /\ Cardinality(Ahead') <= MaxConcurrent
    <3>1. (IsFiniteSet(Ahead) /\ Cardinality(Ahead) \in Nat /\ Cardinality(Ahead) <= MaxConcurrent)'
      <4>1. Ahead' \in SUBSET Busy'
        BY DEF Ahead, Busy
      <4>2. /\ IsFiniteSet(Ahead') /\ Cardinality(Ahead') <= Cardinality(Busy')
            /\ Cardinality(Busy') \in Nat /\ Cardinality(Busy') + sem' = MaxConcurrent /\ sem' \in Nat
        BY <1>3, <4>1, FS_Subset, FS_CardinalityType DEF SlotsCounted
      <4>3. Cardinality(Ahead') \in Nat
        BY <4>2, FS_CardinalityType
      <4> QED
        BY <1>0, <4>2, <4>3
    <3> QED
      BY <3>1
  <2>3. /\ starts' \in Seq(Nat) /\ Cardinality(Recent') \in Nat
        /\ Cardinality(Recent') <= Len(Pruned) /\ Len(Pruned) \in Nat
    BY <1>0, <2>1, PrunedCounts
  <2> QED
    BY <1>0, <2>1, <2>2, <2>3 DEF WindowCounted
<1>5. ASSUME NEW t \in Tasks, WindowFull(t) PROVE WindowCounted'
  <2>1. starts' = Pruned /\ age' = age /\ Ahead' = Ahead
    BY <1>0, <1>5 DEF WindowFull, Ahead
  <2>2. /\ starts' \in Seq(Nat) /\ Cardinality(Recent') \in Nat
        /\ Cardinality(Recent') <= Cardinality(Recent)
    BY <1>0, <2>1, PrunedCounts
  <2> QED
    BY <1>0, <1>1, <1>2, <2>1, <2>2 DEF WindowCounted
<1>6. ASSUME NEW t \in Tasks, Push(t) PROVE WindowCounted'
  <2>1. /\ starts' = Append(starts, age[t]) /\ age' = age /\ age[t] \in Nat
        /\ Ahead' = Ahead \ {t} /\ t \in Ahead
    BY <1>0, <1>6 DEF Push, Ahead
  <2>2. starts' \in Seq(Nat) /\ Len(starts') = Len(starts) + 1
    BY <1>0, <2>1
  <2>3. Recent' \in SUBSET (Recent \cup {Len(starts) + 1})
    BY <1>0, <2>1, <2>2 DEF Recent
  <2>4. /\ IsFiniteSet(Recent \cup {Len(starts) + 1})
        /\ Cardinality(Recent \cup {Len(starts) + 1}) <= Cardinality(Recent) + 1
    <3> DEFINE new == Len(starts) + 1
    <3> HIDE DEF new
    <3>1. /\ IsFiniteSet(Recent \cup {new})
          /\ Cardinality(Recent \cup {new}) = IF new \in Recent THEN Cardinality(Recent) ELSE Cardinality(Recent) + 1
      BY <1>1, FS_AddElement
    <3>2. Cardinality(Recent \cup {new}) <= Cardinality(Recent) + 1
      BY <1>1, <3>1
    <3> QED
      BY <3>1, <3>2 DEF new
  <2>5. IsFiniteSet(Recent') /\ Cardinality(Recent') <= Cardinality(Recent \cup {Len(starts) + 1})
    BY <2>3, <2>4, FS_Subset
  <2>6. Cardinality(Recent') \in Nat /\ Cardinality(Recent \cup {Len(starts) + 1}) \in Nat
    BY <2>4, <2>5, FS_CardinalityType
  <2>7. Cardinality(Ahead') = Cardinality(Ahead) - 1
    BY <1>2, <2>1, FS_RemoveElement
  <2> QED
    BY <1>0, <1>1, <1>2, <2>1, <2>2, <2>4, <2>5, <2>6, <2>7 DEF WindowCounted
<1>7. CASE Tick
  <2>1. /\ starts' \in Seq(Nat) /\ Len(starts') = Len(starts)
        /\ \A i \in 1..Len(starts) : starts'[i] \in Nat /\ starts'[i] >= starts[i]
    BY <1>0, <1>7 DEF Tick, Older
  <2>2. age' \in [Tasks -> Nat]
    BY <1>0, <1>7 DEF Tick, Older
  <2>3. Recent' \in SUBSET Recent
    BY <1>0, <2>1 DEF Recent
  <2>4. IsFiniteSet(Recent') /\ Cardinality(Recent') <= Cardinality(Recent)
    BY <1>1, <2>3, FS_Subset
  <2>5. Cardinality(Recent') \in Nat
    BY <2>4, FS_CardinalityType
  <2>6. Ahead' = Ahead
    BY <1>7 DEF Tick, Ahead
  <2> QED
    BY <1>0, <1>1, <1>2, <2>1, <2>2, <2>4, <2>5, <2>6 DEF WindowCounted
<1>8. ASSUME starts' = starts, age' \in [Tasks -> Nat], Ahead' = Ahead PROVE WindowCounted'
  BY <1>0, <1>8 DEF WindowCounted, Recent
<1>9. ASSUME NEW t \in Tasks, Step(t) PROVE WindowCounted'
  <2>1. CASE AcquireSlot(t)
    BY <1>0, <1>8, <2>1 DEF AcquireSlot, Ahead
  <2>2. CASE WindowWake(t)
    BY <1>0, <1>8, <2>2 DEF WindowWake, Ahead
  <2>3. CASE SourceSlot(t)
    BY <1>0, <1>8, <2>3 DEF SourceSlot, Ahead
  <2>4. CASE StartNow(t)
    BY <1>0, <1>8, <2>4 DEF StartNow, Start, Ahead
  <2>5. CASE StartLater(t)
    BY <1>0, <1>8, <2>5 DEF StartLater, Ahead
  <2>6. CASE WakeAndStart(t)
    BY <1>0, <1>8, <2>6 DEF WakeAndStart, Start, Ahead
  <2>7. CASE Pace(t)
    BY <1>0, <1>8, <2>7 DEF Pace, Ahead
  <2>8. CASE DropPermit(t)
    BY <1>0, <1>8, <2>8 DEF DropPermit, Ahead
  <2> QED
    BY <1>4, <1>5, <1>6, <1>9, <2>1, <2>2, <2>3, <2>4, <2>5, <2>6, <2>7, <2>8 DEF Step
<1>10. ASSUME UNCHANGED <<starts, age, pc>> PROVE WindowCounted'
  BY <1>0, <1>8, <1>10 DEF Ahead
<1> QED
  BY <1>7, <1>9, <1>10 DEF Next, SleepFor, vars

\* The slots of a capped source.
LEMMA SourceStep ==
  ASSUME IInv, SourceCounted, [Next]_vars
  PROVE  SourceCounted'
<1>0. /\ pc \in [Tasks -> {"idle", "window", "wsleep", "source", "next", "sleep", "push", "held"}]
      /\ phase \in [Tasks -> {"acquire", "pace"}] /\ ssem \in [Sources -> Int]
      /\ todo \in [Tasks -> Seq(Request)]
      /\ \A t \in Tasks : phase[t] = "pace" => HasSourceSlot(t)
      /\ \A t \in Tasks : pc[t] # "idle" => todo[t] # <<>>
      /\ Cap \in [Sources -> Nat]
  BY LimitAssumption DEF IInv, LedgerType, PhaseInv
<1>1. ASSUME NEW t \in Tasks, SourceSlot(t) PROVE SourceCounted'
  <2>1. Source(t) \in Sources
    BY <1>0, <1>1, SourceType DEF SourceSlot
  <2>2. pc[t] = "source" /\ phase' = phase /\ todo' = todo /\ pc' = [pc EXCEPT ![t] = "next"]
    BY <1>1 DEF SourceSlot
  <2>3. ~HasSourceSlot(t) /\ \A u \in Tasks : (HasSourceSlot(u)' <=> HasSourceSlot(u) \/ u = t) /\ Source(u)' = Source(u)
    BY <1>0, <2>2 DEF HasSourceSlot, Source
  <2> SUFFICES ASSUME NEW s \in Sources, Capped(s)
               PROVE  /\ ssem'[s] \in Nat /\ IsFiniteSet(At(s)')
                      /\ Cardinality(At(s)') + ssem'[s] = Cap[s]
    BY DEF SourceCounted, Capped
  <2>4. ssem[s] \in Nat /\ IsFiniteSet(At(s)) /\ Cardinality(At(s)) + ssem[s] = Cap[s] /\ Cardinality(At(s)) \in Nat
    BY FS_CardinalityType DEF SourceCounted
  <2>5. CASE s = Source(t)
    <3>1. At(s)' = At(s) \cup {t} /\ t \notin At(s)
      BY <2>3, <2>5 DEF At
    <3>2. ssem'[s] = ssem[s] - 1 /\ ssem[s] > 0
      BY <1>0, <1>1, <2>5 DEF SourceSlot
    <3>3. IsFiniteSet(At(s)') /\ Cardinality(At(s)') = Cardinality(At(s)) + 1
      BY <2>4, <3>1, FS_AddElement
    <3> QED
      BY <2>4, <3>2, <3>3
  <2>6. CASE s # Source(t)
    <3>1. At(s)' = At(s)
      BY <2>3, <2>6 DEF At
    <3>2. ssem'[s] = ssem[s]
      BY <1>0, <1>1, <2>1, <2>6 DEF SourceSlot
    <3> QED
      BY <2>4, <3>1, <3>2
  <2> QED
    BY <2>5, <2>6
<1>2. ASSUME NEW t \in Tasks, DropPermit(t) PROVE SourceCounted'
  <2>1. Source(t) \in Sources
    BY <1>0, <1>2, SourceType DEF DropPermit
  <2>2. /\ pc[t] = "held" /\ phase' = [phase EXCEPT ![t] = "acquire"]
        /\ todo' = [todo EXCEPT ![t] = Tail(@)] /\ pc' = [pc EXCEPT ![t] = "idle"]
    BY <1>2 DEF DropPermit
  <2>3. /\ HasSourceSlot(t) /\ ~HasSourceSlot(t)'
        /\ \A u \in Tasks : u # t => (HasSourceSlot(u)' <=> HasSourceSlot(u)) /\ Source(u)' = Source(u)
    BY <1>0, <2>2 DEF HasSourceSlot, Source
  <2> SUFFICES ASSUME NEW s \in Sources, Capped(s)
               PROVE  /\ ssem'[s] \in Nat /\ IsFiniteSet(At(s)')
                      /\ Cardinality(At(s)') + ssem'[s] = Cap[s]
    BY DEF SourceCounted, Capped
  <2>4. ssem[s] \in Nat /\ IsFiniteSet(At(s)) /\ Cardinality(At(s)) + ssem[s] = Cap[s] /\ Cardinality(At(s)) \in Nat
    BY FS_CardinalityType DEF SourceCounted
  <2>5. CASE s = Source(t)
    <3>1. At(s)' = At(s) \ {t} /\ t \in At(s)
      BY <2>3, <2>5 DEF At
    <3>2. ssem'[s] = ssem[s] + 1
      BY <1>0, <1>2, <2>5 DEF DropPermit
    <3>3. IsFiniteSet(At(s)') /\ Cardinality(At(s)') = Cardinality(At(s)) - 1
      BY <2>4, <3>1, FS_RemoveElement
    <3> QED
      BY <2>4, <3>2, <3>3
  <2>6. CASE s # Source(t)
    <3>1. At(s)' = At(s)
      BY <2>3, <2>6 DEF At
    <3>2. ssem'[s] = ssem[s]
      BY <1>0, <1>2, <2>1, <2>6 DEF DropPermit
    <3> QED
      BY <2>4, <3>1, <3>2
  <2> QED
    BY <2>5, <2>6
<1>3. ASSUME ssem' = ssem, todo' = todo, \A u \in Tasks : HasSourceSlot(u)' <=> HasSourceSlot(u)
      PROVE  SourceCounted'
  <2>1. \A s : At(s)' = At(s)
    BY <1>3 DEF At, Source
  <2> QED
    BY <1>3, <2>1 DEF SourceCounted, Capped
<1>4. ASSUME NEW t \in Tasks, Step(t) PROVE SourceCounted'
  <2>1. CASE AcquireSlot(t)
    BY <1>0, <1>3, <2>1 DEF AcquireSlot, HasSourceSlot
  <2>2. CASE WindowOk(t)
    BY <1>0, <1>3, <2>2 DEF WindowOk, HasSourceSlot
  <2>3. CASE WindowFull(t)
    BY <1>0, <1>3, <2>3 DEF WindowFull, HasSourceSlot
  <2>4. CASE WindowWake(t)
    BY <1>0, <1>3, <2>4 DEF WindowWake, HasSourceSlot
  <2>5. CASE StartNow(t)
    BY <1>0, <1>3, <2>5 DEF StartNow, Start, HasSourceSlot
  <2>6. CASE StartLater(t)
    BY <1>0, <1>3, <2>6 DEF StartLater, HasSourceSlot
  <2>7. CASE WakeAndStart(t)
    BY <1>0, <1>3, <2>7 DEF WakeAndStart, Start, HasSourceSlot
  <2>8. CASE Push(t)
    BY <1>0, <1>3, <2>8 DEF Push, HasSourceSlot
  <2>9. CASE Pace(t)
    BY <1>0, <1>3, <2>9 DEF Pace, HasSourceSlot
  <2> QED
    BY <1>1, <1>2, <1>4, <2>1, <2>2, <2>3, <2>4, <2>5, <2>6, <2>7, <2>8, <2>9 DEF Step
<1>5. ASSUME UNCHANGED <<ssem, pc, phase, todo>> PROVE SourceCounted'
  BY <1>3, <1>5 DEF HasSourceSlot
<1> QED
  BY <1>4, <1>5 DEF Next, SleepFor, Tick, vars

\* All slots are free and nothing has started.
LEMMA CountedInit == Init => SlotsCounted /\ SourceCounted /\ WindowCounted
<1> SUFFICES ASSUME Init PROVE SlotsCounted /\ SourceCounted /\ WindowCounted
  OBVIOUS
<1>1. Busy = {} /\ Ahead = {} /\ Recent = {}
  BY DEF Init, Busy, Ahead, Recent
<1>2. \A s : At(s) = {}
  BY DEF Init, At, HasSourceSlot
<1>3. SlotsCounted
  BY <1>1, FS_EmptySet, LimitAssumption DEF Init, SlotsCounted
<1>4. SourceCounted
  <2>1. \A s \in Sources : ssem[s] = Cap[s] /\ Cap[s] \in Nat
    BY LimitAssumption DEF Init
  <2>2. \A s \in Sources : IsFiniteSet(At(s)) /\ Cardinality(At(s)) = 0
    BY <1>2, FS_EmptySet
  <2> QED
    BY <2>1, <2>2 DEF SourceCounted
<1>5. WindowCounted
  BY <1>1, FS_EmptySet, LimitAssumption DEF Init, WindowCounted
<1> QED
  BY <1>3, <1>4, <1>5
----------------------------------------------------------------------------
\* The inductive invariant holds in every reachable state.
THEOREM Invariant == Spec => []IInv
BY InitIInv, NextIInv, PTL DEF Spec

\* Two starts at a source capped at one connection, the paced request of a
\* permit included, are at least its backoff apart, for any number of fetches.
THEOREM SingleConnectionIsSpaced == Spec => SingleConnectionSpaced
<1>1. IInv /\ [Next]_vars =>
        [\A s \in Sources : Cap[s] = 1 /\ MaxConcurrent > 1 /\ StartsAt(s) =>
           since[s] >= Backoff[s]]_vars
  BY StartsSpaced DEF Single
<1> QED
  BY <1>1, Invariant, PTL DEF Spec, SingleConnectionSpaced
\* The counts hold in every reachable state.
THEOREM Counted == Spec => [](SlotsCounted /\ SourceCounted /\ WindowCounted)
<1>1. IInv /\ (SlotsCounted /\ SourceCounted /\ WindowCounted) /\ [Next]_vars =>
        (SlotsCounted /\ SourceCounted /\ WindowCounted)'
  BY SlotsStep, SourceStep, WindowStep
<1> QED
  BY <1>1, CountedInit, Invariant, PTL DEF Spec

\* However many fetches wait and however late they wake, no more starts fall in
\* a rolling second than max_fetches_per_second and the other fetches in flight:
\* await_global_rate_window looks at the window and reserves nothing.
THEOREM WindowIsSlack == Spec => []WindowSlack
<1>1. SlotsCounted /\ WindowCounted => WindowSlack
  <2> SUFFICES ASSUME SlotsCounted, WindowCounted PROVE WindowSlack
    OBVIOUS
  <2> DEFINE Pushing == {t \in Tasks : pc[t] = "push" /\ age[t] < Window}
  <2>1. Pushing \in SUBSET Ahead
    BY DEF Ahead
  <2>2. IsFiniteSet(Ahead) /\ Cardinality(Ahead) \in Nat
    BY AheadIsBusy
  <2>3. IsFiniteSet(Pushing) /\ Cardinality(Pushing) <= Cardinality(Ahead)
    BY <2>1, <2>2, FS_Subset
  <2>4. Cardinality(Pushing) \in Nat
    BY <2>3, FS_CardinalityType
  <2>5. IsFiniteSet(Recent) /\ Cardinality(Recent) \in Nat
    BY RecentFinite DEF WindowCounted
  <2>6. InWindow = Cardinality(Recent) + Cardinality(Pushing)
    BY DEF InWindow, Recent
  <2> HIDE DEF Pushing
  <2> QED
    BY <2>2, <2>3, <2>4, <2>5, <2>6, LimitAssumption DEF WindowSlack, WindowCounted
<1> QED
  BY <1>1, Counted, PTL

\* A permit stands for a slot from acquire to its drop, through pace and slow
\* starts: no more fetches are past the semaphores than they have slots, for
\* the process and for every source, whether it has a semaphore of its own or not.
THEOREM SlotsBoundFlights == Spec => []InFlightBounded
<1>1. SlotsCounted /\ SourceCounted /\ IInv => InFlightBounded
  <2> SUFFICES ASSUME SlotsCounted, SourceCounted, IInv PROVE InFlightBounded
    OBVIOUS
  <2>1. Cardinality(Busy) \in Nat /\ IsFiniteSet(Busy) /\ Cardinality(Busy) <= MaxConcurrent /\ MaxConcurrent \in Nat
    BY FS_CardinalityType, LimitAssumption DEF SlotsCounted
  <2>2. ASSUME NEW s \in Sources PROVE Cardinality(At(s)) <= Cap[s]
    <3>1. Cap[s] \in 1..MaxConcurrent
      BY LimitAssumption
    <3>2. CASE Capped(s)
      <4>1. IsFiniteSet(At(s)) /\ ssem[s] \in Nat /\ Cardinality(At(s)) + ssem[s] = Cap[s]
        BY <2>2, <3>2 DEF SourceCounted
      <4>2. Cardinality(At(s)) \in Nat
        BY <4>1, FS_CardinalityType
      <4> QED
        BY <2>1, <3>1, <4>1, <4>2
    <3>3. CASE ~Capped(s)
      <4>1. Cap[s] = MaxConcurrent
        BY <2>1, <3>1, <3>3 DEF Capped
      <4>2. At(s) \in SUBSET Busy
        BY DEF At, Busy, HasSourceSlot
      <4>3. IsFiniteSet(At(s)) /\ Cardinality(At(s)) <= Cardinality(Busy)
        BY <2>1, <4>2, FS_Subset
      <4>4. Cardinality(At(s)) \in Nat
        BY <4>3, FS_CardinalityType
      <4> QED
        BY <2>1, <4>1, <4>3, <4>4
    <3> QED
      BY <3>2, <3>3
  <2> QED
    BY <2>1, <2>2 DEF InFlightBounded, Busy, At
<1> QED
  BY <1>1, Counted, Invariant, PTL
=============================================================================
