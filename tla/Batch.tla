------------------------------- MODULE Batch -------------------------------
(***************************************************************************)
(* doiget batch: a file of refs is read, its PubMed ids are looked up, and *)
(* its entries are dispatched in windows.  Each entry that names a paper   *)
(* becomes a task; a task takes the lock of its ref, then one of the       *)
(* process's slots, fetches, and records the answer in the session's       *)
(* repeat index, which a second listing of the ref then finds.  A window   *)
(* is joined before the next one is taken from the file.                   *)
(*                                                                         *)
(* tokio's Mutex and Semaphore serve in the order in which they were asked: *)
(* a lock is a queue whose head holds it, and the semaphore a queue of     *)
(* which the first Slots hold a permit.  The rows of the lookups' session   *)
(* are those of Calls, the rows of a fetch those of FetchPaper.            *)
(***************************************************************************)
EXTENDS Integers, Sequences, SequencesExt, FiniteSets

CONSTANTS
  Files,              \* the files a batch may be given
  Options,            \* sets of "dry_run", "only_failed", "refetch" it may be run with
  Refs,               \* papers, as Ref::as_input_str tells them apart
  MCP_BATCH_MAX_SIZE, \* entries in a window
  Slots,              \* max_concurrent_fetches
  MaxExit,            \* 255, or where a test of the cap wants it
  Codes,              \* the error codes a fetch may end in
  MaxPanics           \* bound: tasks that panic

ASSUME BatchAssumption ==
  /\ MCP_BATCH_MAX_SIZE \in Nat \ {0} /\ Slots \in Nat \ {0} /\ MaxExit \in Nat \ {0}
  /\ MaxPanics \in Nat /\ Codes \subseteq STRING \ {"none"}

\* An entry of the file, kind "ref", "pmid" (ref is what NCBI may list for it),
\* "invalid", "unsupported", "noid" or "software".
Entry(kind, ref) == [kind |-> kind, ref |-> ref]
Entries == {Entry(kind, ref) : kind \in {"ref", "pmid"}, ref \in Refs}
             \cup {Entry(kind, "none") : kind \in {"invalid", "unsupported", "noid", "software"}}
ASSUME FileAssumption == \A f \in Files : f = "undecodable" \/ f \in Seq(Entries)

\* What becomes of it: BatchEntry::Ref, or Rejected with its code.
Taken(ref) == [ref |-> ref, code |-> "none"]
Rejected(code) == [ref |-> "none", code |-> code]

VARIABLES
  file,     \* the entries of the file, or "undecodable"
  opts,     \* the flags of the run
  main,     \* where run_with_options is
  inputs,   \* the BatchEntry values so far
  taken,    \* how many of inputs have been dispatched
  upto,     \* where the current window ends
  task,     \* entry -> where its task is
  outcome,  \* entry -> what its task came to: [kind, code]
  locked,   \* ref -> the queue for its lock
  permits,  \* the queue for the semaphore
  index,    \* ref -> the answer the repeat index would refuse it with, or "none"
  pdfs,     \* the refs whose PDF is on disk
  ledger,   \* what was counted: [ok, parse_errors, fetch_errors, skipped]
  told,     \* the per-entry reports, in order: [entry, ok]
  rows,     \* the rows of the session, without those of the fetches
  exit,     \* the exit status
  asks,     \* history: ref -> how often the network was asked
  panics

taskVars == <<task, outcome, locked, permits, index, pdfs, asks, panics>>
reportVars == <<ledger, told, rows, exit>>
vars == <<file, opts, main, inputs, taken, upto, taskVars, reportVars>>

N == Len(inputs)
Positions == 1..(IF file = "undecodable" THEN 0 ELSE Len(file))
NoOutcome == [kind |-> "none", code |-> "none"]
RefOf(k) == inputs[k].ref

Init ==
  /\ file \in Files
  /\ opts \in Options
  /\ main = "read" /\ inputs = <<>> /\ taken = 0 /\ upto = 0
  /\ task = [k \in Positions |-> "none"] /\ outcome = [k \in Positions |-> NoOutcome]
  /\ locked = [r \in Refs |-> <<>>] /\ permits = <<>>
  /\ index = [r \in Refs |-> "none"] /\ pdfs \in SUBSET Refs
  /\ ledger = [ok |-> 0, parse_errors |-> 0, fetch_errors |-> 0, skipped |-> 0]
  /\ told = <<>> /\ rows = <<>> /\ exit = -1
  /\ asks = [r \in Refs |-> 0] /\ panics = 0

-----------------------------------------------------------------------------
(* The file.                                                               *)

\* An anyhow error: exit status 1.
Abandon == main' = "over" /\ exit' = 1

\* A file that does not decode ends the run before anything is asked.
ReadFile ==
  /\ main = "read"
  /\ \/ (file = "undecodable" /\ Abandon /\ UNCHANGED rows)
     \/ (file # "undecodable" /\ main' = "resolve" /\ UNCHANGED <<exit, rows>>)
  /\ UNCHANGED <<file, opts, inputs, taken, upto, taskVars, ledger, told>>

\* The ParseError arms; a malformed identifier stays a Ref, and fails to parse
\* when it is dispatched.
entry_of(e) ==
  CASE e.kind = "ref" -> Taken(e.ref)
    [] e.kind \in {"invalid", "noid"} -> Rejected("INVALID_REF")
    [] OTHER -> Rejected("NOT_IMPLEMENTED")

\* pubmed::resolve_entries, for a PubMed id of a run that may ask: the DOI that
\* NCBI lists, or the code of having none.
resolve_entry(e) == {Taken(e.ref), Rejected("NOT_FOUND"), Rejected("NOT_IMPLEMENTED")}
                      \cup {Rejected(c) : c \in Codes}

\* A lookup whose row cannot be written ends the run.
ResolveEntry ==
  /\ main = "resolve" /\ N < Len(file)
  /\ LET e == file[N + 1]
         asks_ncbi == e.kind = "pmid" /\ "dry_run" \notin opts
     IN \/ /\ \E b \in IF asks_ncbi THEN resolve_entry(e) ELSE {entry_of(e)} :
                inputs' = Append(inputs, b)
           /\ UNCHANGED <<main, exit>>
        \/ asks_ncbi /\ Abandon /\ UNCHANGED inputs
  /\ UNCHANGED <<file, opts, taken, upto, taskVars, ledger, told, rows>>

Unfetchable == {k \in 1..N : inputs[k].code # "none"}

\* A dry run prints the plans, and fails if an entry has none.
DryRun ==
  /\ main = "resolve" /\ N = Len(file) /\ "dry_run" \in opts
  /\ main' = "over" /\ exit' = IF Unfetchable = {} THEN 0 ELSE 1
  /\ UNCHANGED <<file, opts, inputs, taken, upto, taskVars, ledger, told, rows>>

\* FetchHarness::from_env and the session_start row: without its settings, log,
\* client, store and first row a run does not go on.
OpenSession ==
  /\ main = "resolve" /\ N = Len(file) /\ "dry_run" \notin opts
  /\ \/ main' = "dispatch" /\ rows' = Append(rows, "start") /\ UNCHANGED exit
     \/ Abandon /\ UNCHANGED rows
  /\ UNCHANGED <<file, opts, inputs, taken, upto, taskVars, ledger, told>>

-----------------------------------------------------------------------------
(* The windows.                                                            *)

Least(a, b) == IF a < b THEN a ELSE b

\* The next window, once the tasks of the last one have been joined.
NextWindow ==
  /\ main = "dispatch" /\ taken = upto /\ taken < N
  /\ upto' = Least(N, taken + MCP_BATCH_MAX_SIZE)
  /\ UNCHANGED <<file, opts, main, inputs, taken, taskVars, reportVars>>

Report(k, ok) == told' = Append(told, [entry |-> k, ok |-> ok])
\* A row that may fail to be appended, which nobody minds.
BestEffort(row) == rows' \in {rows, Append(rows, row)}

\* An entry without a ref is reported and logged; one whose PDF is on disk is
\* skipped under --only-failed; any other is spawned.
Dispatch ==
  LET k == taken + 1 IN
  /\ main = "dispatch" /\ taken < upto
  /\ taken' = k
  /\ \/ /\ inputs[k].code # "none"
        /\ ledger' = [ledger EXCEPT !.parse_errors = @ + 1]
        /\ Report(k, FALSE) /\ BestEffort("resolve") /\ UNCHANGED task
     \/ /\ inputs[k].code = "none" /\ "only_failed" \in opts /\ RefOf(k) \in pdfs
        /\ ledger' = [ledger EXCEPT !.skipped = @ + 1]
        /\ Report(k, TRUE) /\ UNCHANGED <<rows, task>>
     \/ /\ inputs[k].code = "none" /\ ("only_failed" \in opts => RefOf(k) \notin pdfs)
        /\ task' = [task EXCEPT ![k] = "spawned"] /\ UNCHANGED <<ledger, told, rows>>
  /\ main' = IF k = upto THEN "join" ELSE main
  /\ UNCHANGED <<file, opts, inputs, upto, outcome, locked, permits, index, pdfs, asks, panics, exit>>

-----------------------------------------------------------------------------
(* A task.                                                                 *)

mainVars == <<file, opts, main, inputs, taken, upto, reportVars>>
HoldsLock(k) == locked[RefOf(k)] # <<>> /\ Head(locked[RefOf(k)]) = k
HoldsPermit(k) == \E i \in 1..Least(Slots, Len(permits)) : permits[i] = k
Goes(k, where) == task' = [task EXCEPT ![k] = where]

\* Mutant: the permit is asked for before the lock.
TakeLockLate(k) ==
  /\ task[k] = "spawned" /\ Goes(k, "locking")
  /\ locked' = [locked EXCEPT ![RefOf(k)] = Append(@, k)]
  /\ permits' = Append(permits, k)
  /\ UNCHANGED <<mainVars, outcome, index, pdfs, asks, panics>>

TakeLock(k) ==
  /\ task[k] = "spawned" /\ Goes(k, "locking")
  /\ locked' = [locked EXCEPT ![RefOf(k)] = Append(@, k)]
  /\ UNCHANGED <<mainVars, outcome, permits, index, pdfs, asks, panics>>

\* Mutant: tasks of one ref do not wait for each other.
TakePermitUnlocked(k) ==
  /\ task[k] = "locking"
  /\ Goes(k, "admitted") /\ permits' = Append(permits, k)
  /\ UNCHANGED <<mainVars, outcome, locked, index, pdfs, asks, panics>>

TakePermit(k) ==
  /\ task[k] = "locking" /\ HoldsLock(k)
  /\ Goes(k, "admitted") /\ permits' = Append(permits, k)
  /\ UNCHANGED <<mainVars, outcome, locked, index, pdfs, asks, panics>>

\* fetch_one: what the repeat index refuses is answered with what it recorded,
\* unless --refetch asks anyway.
FetchOne(k) ==
  /\ task[k] = "admitted" /\ HoldsPermit(k)
  /\ IF index[RefOf(k)] # "none" /\ "refetch" \notin opts
     THEN /\ Goes(k, "answered") /\ UNCHANGED asks
          /\ outcome' = [outcome EXCEPT ![k] = [kind |-> "err", code |-> index[RefOf(k)]]]
     ELSE /\ Goes(k, "asking") /\ asks' = [asks EXCEPT ![RefOf(k)] = @ + 1]
          /\ UNCHANGED outcome
  /\ UNCHANGED <<mainVars, locked, permits, index, pdfs, panics>>

Outcomes == {[kind |-> "clean", code |-> "none"]}
              \cup [kind : {"blocked", "err"}, code : Codes]
Answered(k, o) ==
  /\ task[k] = "asking" /\ Goes(k, "answered")
  /\ outcome' = [outcome EXCEPT ![k] = o]
  /\ pdfs' \in IF o.kind = "clean" THEN {pdfs, pdfs \cup {RefOf(k)}} ELSE {pdfs}
  /\ UNCHANGED <<mainVars, locked, permits, index, asks, panics>>

\* The permit and the guard of the lock are dropped: the lock's queue loses its
\* head, and the semaphore's queue the task, wherever it is among the first.
Without(q, k) == RemoveAt(q, CHOOSE i \in 1..Len(q) : q[i] = k)
Release(k) ==
  /\ locked' = [locked EXCEPT ![RefOf(k)] = Tail(@)]
  /\ permits' = Without(permits, k)

\* Mutant: the guard of the lock outlives the task.
ObserveKeeping(k) ==
  /\ task[k] = "answered" /\ Goes(k, "over")
  /\ index' = [index EXCEPT ![RefOf(k)] = outcome[k].code]
  /\ permits' = Without(permits, k)
  /\ UNCHANGED <<mainVars, outcome, locked, pdfs, asks, panics>>

\* RepeatIndex::observe, under the lock, and the end of the task.
Observe(k) ==
  /\ task[k] = "answered" /\ Goes(k, "over")
  /\ index' = [index EXCEPT ![RefOf(k)] = outcome[k].code]
  /\ Release(k)
  /\ UNCHANGED <<mainVars, outcome, pdfs, asks, panics>>

\* A panic unwinds the task in a debug build and ends the process in a release
\* build (panic = "abort").
Panic(k) ==
  /\ task[k] = "asking" /\ panics < MaxPanics /\ panics' = panics + 1
  /\ \/ /\ Goes(k, "over") /\ outcome' = [outcome EXCEPT ![k] = [kind |-> "lost", code |-> "FETCH_ERROR"]]
        /\ Release(k) /\ UNCHANGED mainVars
     \/ /\ main' = "aborted"
        /\ UNCHANGED <<file, opts, inputs, taken, upto, reportVars, task, outcome, locked, permits>>
  /\ UNCHANGED <<index, pdfs, asks>>

\* An entry of the index outlives its window.
Lapse(r) ==
  /\ index[r] # "none" /\ index' = [index EXCEPT ![r] = "none"]
  /\ UNCHANGED <<mainVars, task, outcome, locked, permits, pdfs, asks, panics>>

-----------------------------------------------------------------------------
(* The end.                                                                *)

\* classify_joined: a refused copy is an error, and so is a task that was lost,
\* which is reported without its ref.
is_error(k) == outcome[k].kind # "clean"

Join ==
  /\ main = "join"
  /\ \/ \E k \in Positions :
          /\ task[k] = "over" /\ Goes(k, "joined") /\ UNCHANGED main
          /\ IF is_error(k) THEN ledger' = [ledger EXCEPT !.fetch_errors = @ + 1]
             ELSE ledger' = [ledger EXCEPT !.ok = @ + 1]
          /\ Report(IF outcome[k].kind = "lost" THEN 0 ELSE k, ~is_error(k))
     \/ /\ \A k \in Positions : task[k] \in {"none", "joined"}
        /\ main' = "dispatch" /\ UNCHANGED <<task, ledger, told>>
  /\ UNCHANGED <<file, opts, inputs, taken, upto, outcome, locked, permits, index, pdfs, asks, panics,
                 rows, exit>>

\* Mutant: what does not fit into the windows so far is left.
CloseEarly ==
  LET errors == ledger.parse_errors + ledger.fetch_errors IN
  /\ main = "dispatch" /\ taken = upto
  /\ BestEffort(IF errors = 0 THEN "end_ok" ELSE "end_err")
  /\ exit' = Least(errors, MaxExit) /\ main' = "over"
  /\ UNCHANGED <<file, opts, inputs, taken, upto, taskVars, ledger, told>>

\* session_end, and the number of failures as exit status.
Close ==
  LET errors == ledger.parse_errors + ledger.fetch_errors IN
  /\ main = "dispatch" /\ taken = N
  /\ BestEffort(IF errors = 0 THEN "end_ok" ELSE "end_err")
  /\ exit' = Least(errors, MaxExit) /\ main' = "over"
  /\ UNCHANGED <<file, opts, inputs, taken, upto, taskVars, ledger, told>>

Ended == main \in {"over", "aborted"}
Finished == Ended /\ UNCHANGED vars

Live == main \notin {"over", "aborted"}
TaskStep(k) ==
  /\ Live
  /\ \/ TakeLock(k) \/ TakePermit(k) \/ FetchOne(k) \/ Panic(k) \/ Observe(k)
     \/ \E o \in Outcomes : Answered(k, o)
MainStep == ReadFile \/ ResolveEntry \/ DryRun \/ OpenSession \/ NextWindow \/ Dispatch \/ Join \/ Close

Next ==
  \/ MainStep \/ Finished
  \/ \E k \in Positions : TaskStep(k)
  \/ Live /\ \E r \in Refs : Lapse(r)

\* The main task and the spawned ones are run by tokio; a request is bounded by
\* the client's timeouts, so that a fetch is answered.
Fairness == WF_vars(MainStep) /\ WF_vars(\E k \in Positions : TaskStep(k))
Spec == Init /\ [][Next]_vars /\ Fairness

-----------------------------------------------------------------------------
(* Properties.                                                             *)

\* "two tasks for the same ref could both pass `check` and both fetch": while a
\* task asks the network about a ref, no answer about that ref has come in that
\* would have refused it, however the tasks of one ref are scheduled.
NotAskedInVain ==
  "refetch" \notin opts =>
    \A k \in Positions : task[k] = "asking" => index[RefOf(k)] = "none"

\* "a waiting duplicate does not hold one of the five slots": every slot that is
\* taken is taken by a task that has nothing else to wait for.
SlotsGoToWork ==
  \A i \in 1..Least(Slots, Len(permits)) :
    HoldsLock(permits[i]) /\ task[permits[i]] \in {"admitted", "asking", "answered"}

Told(k) == {i \in 1..Len(told) : told[i].entry = k}
Lost == {k \in Positions : outcome[k].kind = "lost"}

\* "The ENTIRE input is processed": a run that ends has reported every entry of
\* its file exactly once, over however many windows, and one report without a
\* ref for each task that was lost.
EveryEntryOnce ==
  (main = "over" /\ "start" \in ToSet(rows)) =>
    /\ \A k \in Positions : Cardinality(Told(k)) = IF k \in Lost THEN 0 ELSE 1
    /\ Cardinality(Told(0)) = Cardinality(Lost)
    /\ ledger.ok + ledger.parse_errors + ledger.fetch_errors + ledger.skipped = Len(file)

\* The exit status is the number of entries that were not brought in, up to its
\* cap, and the session's end row agrees: a run of which one copy was refused or
\* one entry had no ref does not end well.
FailuresAreCounted ==
  (main = "over" /\ "start" \in ToSet(rows)) =>
    LET failed == {k \in Positions : \/ inputs[k].code # "none"
                                     \/ outcome[k].kind \in {"blocked", "err", "lost"}}
    IN /\ exit = Least(Cardinality(failed), MaxExit)
       /\ "end_ok" \in ToSet(rows) => failed = {}
       /\ "end_err" \in ToSet(rows) => exit > 0

\* Locks and slots never wait for each other in a circle: the run comes to an
\* end, or a panic ends the process.
BatchEnds == <>Ended

\* "a DOI listed twice is then replayed, not fetched twice".
FetchedOnce == \A r \in Refs : panics = 0 => asks[r] <= 1
=============================================================================
