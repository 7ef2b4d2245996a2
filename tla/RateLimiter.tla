---------------------------- MODULE RateLimiter ----------------------------
(***************************************************************************)
(* The process-wide rate limiter (rate_limiter.rs): every fetch acquires a *)
(* permit for its source before its request and drops it afterwards; the   *)
(* arXiv fetch paces a second request under the same permit.               *)
(*                                                                         *)
(* acquire waits, in this order, for a global slot, for room in the window *)
(* of recent starts, for a slot of the source if the source is capped, and *)
(* for the source's next allowed start.  The two ledgers (global_starts,   *)
(* per_source_next) have a mutex each, never held across a wait, so each   *)
(* critical section is one step.                                           *)
(*                                                                         *)
(* An Instant is kept as its distance to now: ages of past starts, time    *)
(* left until a future one.  Sleepers may wake late, never early.          *)
(***************************************************************************)
EXTENDS Integers, Sequences, FiniteSets

CONSTANTS
  Tasks,          \* fetches in progress, one tokio task each
  Sources,        \* source names
  Plan,           \* task -> the requests it makes, one permit each
  MaxConcurrent,  \* max_concurrent_fetches
  MaxPerSec,      \* max_fetches_per_second
  Window,         \* one second, in ticks
  Backoff,        \* source -> backoff_ms_for, in ticks
  Cap,            \* source -> max_concurrent_for
  MaxDelay,       \* bound: Retry-After durations, in ticks
  MaxDelays       \* bound: calls of sleep_for

Request == [source : Sources, paced : {"no", "yes"}]

ASSUME LimitAssumption ==
  /\ MaxConcurrent \in Nat \ {0} /\ MaxPerSec \in Nat \ {0} /\ Window \in Nat \ {0}
  /\ Backoff \in [Sources -> Nat \ {0}] /\ Cap \in [Sources -> 1..MaxConcurrent]
  /\ MaxDelay \in Nat /\ MaxDelays \in Nat
ASSUME PlanAssumption == Plan \in [Tasks -> Seq(Request)]

VARIABLES
  sem,      \* free global slots
  ssem,     \* source -> free slots of the source
  starts,   \* global_starts: ages of the recorded starts, oldest push first
  next,     \* per_source_next: source -> ticks until the next start is allowed
  pc,       \* task -> where it is in acquire or pace
  phase,    \* task -> "acquire" or "pace"
  todo,     \* task -> requests not yet done
  timer,    \* task -> ticks it still has to sleep
  age,      \* task -> age of its start, until it is pushed
  delays,   \* calls of sleep_for so far
  since     \* history: source -> ticks since its last start, up to Backoff

vars == <<sem, ssem, starts, next, pc, phase, todo, timer, age, delays, since>>

Init ==
  /\ sem = MaxConcurrent /\ ssem = Cap
  /\ starts = <<>> /\ next = [s \in Sources |-> 0]
  /\ pc = [t \in Tasks |-> "idle"] /\ phase = [t \in Tasks |-> "acquire"]
  /\ todo = Plan
  /\ timer = [t \in Tasks |-> 0] /\ age = [t \in Tasks |-> 0]
  /\ delays = 0 /\ since = Backoff

Source(t) == Head(todo[t]).source
\* A source without an override has the global cap and no semaphore of its own.
Capped(s) == Cap[s] < MaxConcurrent

\* acquire, step 1: the global semaphore.
AcquireSlot(t) ==
  /\ pc[t] = "idle" /\ todo[t] # <<>> /\ sem > 0
  /\ sem' = sem - 1
  /\ pc' = [pc EXCEPT ![t] = "window"]
  /\ UNCHANGED <<ssem, starts, next, phase, todo, timer, age, delays, since>>

\* The ledger without its expired prefix.
Pruned ==
  LET n == CHOOSE n \in 0..Len(starts) :
             /\ \A i \in 1..n : starts[i] >= Window
             /\ n < Len(starts) => starts[n + 1] < Window
  IN  SubSeq(starts, n + 1, Len(starts))

\* Bug: the window is pruned but its length is not looked at.
WindowOkAlways(t) ==
  /\ pc[t] = "window"
  /\ starts' = Pruned
  /\ pc' = [pc EXCEPT ![t] = IF phase[t] = "acquire" THEN "source" ELSE "next"]
  /\ UNCHANGED <<sem, ssem, next, phase, todo, timer, age, delays, since>>

\* await_global_rate_window, used by acquire (step 2) and by pace: the window
\* has room.  Nothing is reserved.
WindowOk(t) ==
  /\ pc[t] = "window" /\ Len(Pruned) < MaxPerSec
  /\ starts' = Pruned
  /\ pc' = [pc EXCEPT ![t] = IF phase[t] = "acquire" THEN "source" ELSE "next"]
  /\ UNCHANGED <<sem, ssem, next, phase, todo, timer, age, delays, since>>

\* The window is full: sleep until its first entry expires, then look again.
WindowFull(t) ==
  /\ pc[t] = "window" /\ Len(Pruned) >= MaxPerSec
  /\ starts' = Pruned
  /\ timer' = [timer EXCEPT ![t] = Window - Pruned[1]]
  /\ pc' = [pc EXCEPT ![t] = "wsleep"]
  /\ UNCHANGED <<sem, ssem, next, phase, todo, age, delays, since>>

WindowWake(t) ==
  /\ pc[t] = "wsleep" /\ timer[t] = 0
  /\ pc' = [pc EXCEPT ![t] = "window"]
  /\ UNCHANGED <<sem, ssem, starts, next, phase, todo, timer, age, delays, since>>

\* Bug: the permit of the source is dropped as soon as it is obtained.
SourceSlotDropped(t) ==
  /\ pc[t] = "source"
  /\ Capped(Source(t)) => ssem[Source(t)] > 0
  /\ pc' = [pc EXCEPT ![t] = "next"]
  /\ UNCHANGED <<sem, ssem, starts, next, phase, todo, timer, age, delays, since>>

\* acquire, step 2b: the semaphore of a capped source.
SourceSlot(t) ==
  /\ pc[t] = "source"
  /\ Capped(Source(t)) => ssem[Source(t)] > 0
  /\ ssem' = IF Capped(Source(t)) THEN [ssem EXCEPT ![Source(t)] = @ - 1] ELSE ssem
  /\ pc' = [pc EXCEPT ![t] = "next"]
  /\ UNCHANGED <<sem, starts, next, phase, todo, timer, age, delays, since>>

\* Record the start with the source; the next one is a backoff away.
Start(t) ==
  /\ next' = [next EXCEPT ![Source(t)] = Backoff[Source(t)]]
  /\ since' = [since EXCEPT ![Source(t)] = 0]
  /\ age' = [age EXCEPT ![t] = 0]
  /\ pc' = [pc EXCEPT ![t] = "push"]

\* acquire, step 3, and pace: the source's next start is due.
StartNow(t) ==
  /\ pc[t] = "next" /\ next[Source(t)] = 0
  /\ Start(t)
  /\ UNCHANGED <<sem, ssem, starts, phase, todo, timer, delays>>

\* It is not due: release the mutex and sleep until then.
StartLater(t) ==
  /\ pc[t] = "next" /\ next[Source(t)] > 0
  /\ timer' = [timer EXCEPT ![t] = next[Source(t)]]
  /\ pc' = [pc EXCEPT ![t] = "sleep"]
  /\ UNCHANGED <<sem, ssem, starts, next, phase, todo, age, delays, since>>

\* After the sleep the start goes ahead without another look at the ledger.
WakeAndStart(t) ==
  /\ pc[t] = "sleep" /\ timer[t] = 0
  /\ Start(t)
  /\ UNCHANGED <<sem, ssem, starts, phase, todo, timer, delays>>

\* Push the start into the global window; the permit is the caller's.
Push(t) ==
  /\ pc[t] = "push"
  /\ starts' = Append(starts, age[t])
  /\ pc' = [pc EXCEPT ![t] = "held"]
  /\ UNCHANGED <<sem, ssem, next, phase, todo, timer, age, delays, since>>

\* The arXiv fetch has its feed and paces the request for the PDF.
Pace(t) ==
  /\ pc[t] = "held" /\ phase[t] = "acquire" /\ Head(todo[t]).paced = "yes"
  /\ phase' = [phase EXCEPT ![t] = "pace"]
  /\ pc' = [pc EXCEPT ![t] = "window"]
  /\ UNCHANGED <<sem, ssem, starts, next, todo, timer, age, delays, since>>

\* Bug: the permit holds on to the slot of the source.
DropPermitLeak(t) ==
  /\ pc[t] = "held"
  /\ sem' = sem + 1
  /\ todo' = [todo EXCEPT ![t] = Tail(@)]
  /\ phase' = [phase EXCEPT ![t] = "acquire"]
  /\ pc' = [pc EXCEPT ![t] = "idle"]
  /\ UNCHANGED <<ssem, starts, next, timer, age, delays, since>>

\* The fetch is over, or failed: the permit goes with its scope.
DropPermit(t) ==
  /\ pc[t] = "held"
  /\ sem' = sem + 1
  /\ ssem' = IF Capped(Source(t)) THEN [ssem EXCEPT ![Source(t)] = @ + 1] ELSE ssem
  /\ todo' = [todo EXCEPT ![t] = Tail(@)]
  /\ phase' = [phase EXCEPT ![t] = "acquire"]
  /\ pc' = [pc EXCEPT ![t] = "idle"]
  /\ UNCHANGED <<starts, next, timer, age, delays, since>>

\* sleep_for: a 429 with Retry-After moves the next start of s away.
SleepFor(s, d) ==
  /\ delays < MaxDelays
  /\ delays' = delays + 1
  /\ next' = [next EXCEPT ![s] = IF @ < d THEN d ELSE @]
  /\ UNCHANGED <<sem, ssem, starts, pc, phase, todo, timer, age, since>>

Older(n, cap) == IF n < cap THEN n + 1 ELSE n
Sooner(n) == IF n > 0 THEN n - 1 ELSE 0

Tick ==
  /\ starts' = [i \in 1..Len(starts) |-> Older(starts[i], Window)]
  /\ age' = [t \in Tasks |-> IF pc[t] = "push" THEN Older(age[t], Window) ELSE age[t]]
  /\ next' = [s \in Sources |-> Sooner(next[s])]
  /\ timer' = [t \in Tasks |-> Sooner(timer[t])]
  /\ since' = [s \in Sources |-> Older(since[s], Backoff[s])]
  /\ UNCHANGED <<sem, ssem, pc, phase, todo, delays>>

Step(t) ==
  \/ AcquireSlot(t) \/ WindowOk(t) \/ WindowFull(t) \/ WindowWake(t)
  \/ SourceSlot(t) \/ StartNow(t) \/ StartLater(t) \/ WakeAndStart(t)
  \/ Push(t) \/ Pace(t) \/ DropPermit(t)

Next ==
  \/ \E t \in Tasks : Step(t)
  \/ \E s \in Sources, d \in 1..MaxDelay : SleepFor(s, d)
  \/ Tick

Spec == Init /\ [][Next]_vars

\* The runtime polls every task that can go on, the clock runs, and a fetch
\* ends (http.rs gives every request a total timeout).
FairSpec == Spec /\ WF_vars(Tick) /\ \A t \in Tasks : WF_vars(Step(t))
----------------------------------------------------------------------------
(* Properties.                                                             *)

TypeOK ==
  /\ sem \in 0..MaxConcurrent
  /\ ssem \in [Sources -> Nat] /\ \A s \in Sources : ssem[s] <= Cap[s]
  /\ starts \in Seq(0..Window)
  /\ next \in [Sources -> Nat]
  /\ pc \in [Tasks -> {"idle", "window", "wsleep", "source", "next", "sleep",
                       "push", "held"}]
  /\ phase \in [Tasks -> {"acquire", "pace"}]
  /\ todo \in [Tasks -> Seq(Request)]
  /\ timer \in [Tasks -> Nat] /\ age \in [Tasks -> 0..Window]
  /\ delays \in Nat
  /\ since \in [Sources -> Nat]

\* A task past the semaphore of its source: pace looks at the window again with
\* the slot in hand.
HasSourceSlot(t) ==
  \/ pc[t] \in {"next", "sleep", "push", "held"}
  \/ pc[t] \in {"window", "wsleep"} /\ phase[t] = "pace"

\* Invariant 1 of the limiter, for the process and for a capped source: a
\* permit stands for a slot through pace, errors and slow starts.
InFlightBounded ==
  /\ Cardinality({t \in Tasks : pc[t] # "idle"}) <= MaxConcurrent
  /\ \A s \in Sources : Cardinality({t \in Tasks : HasSourceSlot(t) /\ Source(t) = s}) <= Cap[s]

\* The starts of the last second, pushed or not.
InWindow ==
  Cardinality({i \in 1..Len(starts) : starts[i] < Window})
    + Cardinality({t \in Tasks : pc[t] = "push" /\ age[t] < Window})

\* Invariant 2 as documented: at most max_fetches_per_second starts in any
\* rolling one-second window.
RollingWindow == InWindow <= MaxPerSec

\* What the code guarantees: the window is only looked at, so all the fetches
\* in flight may have seen the same room.
WindowSlack == InWindow <= MaxPerSec + MaxConcurrent - 1

StartsAt(s) == \E t \in Tasks : pc[t] # "push" /\ pc'[t] = "push" /\ Source(t) = s

\* Invariant 3 as documented: at least the backoff between consecutive starts
\* to the same source.
SourceSpaced == [][\A s \in Sources : StartsAt(s) => since[s] >= Backoff[s]]_vars

\* Invariant 3 where the vendor's terms depend on it (arXiv, bioRxiv, ADS,
\* INSPIRE, NCBI): one connection at a time, and the paced request included.
SingleConnectionSpaced ==
  [][\A s \in Sources : Cap[s] = 1 /\ MaxConcurrent > 1 /\ StartsAt(s) =>
       since[s] >= Backoff[s]]_vars

\* "Delay further starts to source by at least dur": no start brings the next
\* allowed start of a source forward.
DelayKept == [][\A s \in Sources : next'[s] >= next[s] - 1]_vars

\* Every fetch gets all its permits: no order of waits (global slot, source
\* slot, window, pace under a permit) blocks for good.
AllFinish == <>(\A t \in Tasks : todo[t] = <<>>)
=============================================================================
