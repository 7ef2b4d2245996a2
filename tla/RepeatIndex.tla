---------------------------- MODULE RepeatIndex ----------------------------
(***************************************************************************)
(* Repeat suppression (repeat.rs) and the calls that use it: before any    *)
(* network, fetch_paper_with asks the session's index about the ref        *)
(* (check); when the call is over, its session_end row, or its place in a  *)
(* batch, records what the caller was told (observe).  Fetchers are the    *)
(* tool calls of one doiget serve process or the entries of one run; the   *)
(* index has a mutex, but nothing is held between check and observe.       *)
(*                                                                         *)
(* The time of an entry is kept as its age.  config_fp is the fingerprint  *)
(* of config.toml, which check and observe each read for themselves.       *)
(***************************************************************************)
EXTENDS Integers, FiniteSets

CONSTANTS
  Fetchers, Refs,
  None,          \* no entry
  ReplayWindow,  \* REPLAY_WINDOW, in ticks
  RetryAfterGap, \* RETRY_AFTER_GAP, in ticks
  SweepFloor,    \* SWEEP_FLOOR
  Answers,       \* what the network may answer: error codes and "ok"
  MaxConfig      \* bound: edits of config.toml

ASSUME WindowAssumption ==
  /\ RetryAfterGap \in Nat \ {0} /\ ReplayWindow \in Nat
  /\ RetryAfterGap <= ReplayWindow
  /\ SweepFloor \in Nat \ {0} /\ MaxConfig \in Nat

\* ErrorCode::disposition, on codes that stand for their kind.
Codes == {"NOT_FOUND", "INTERNAL_ERROR", "CAPABILITY_DENIED", "RATE_LIMITED",
          "NETWORK_ERROR"}
Disposition(code) ==
  IF code \in {"NOT_FOUND", "INTERNAL_ERROR"} THEN "terminal"
  ELSE IF code = "CAPABILITY_DENIED" THEN "needs_config"
  ELSE "retry_after"

ASSUME AnswerAssumption == Answers \subseteq Codes \cup {"ok"}

VARIABLES
  entries,    \* ref -> IndexEntry or None
  swept,      \* swept_len
  config_fp,  \* fingerprint of config.toml
  pc,         \* fetcher -> where its call is
  fetch,      \* fetcher -> [ref, told, fp]: told is an error code or "ok", fp the
              \* configuration the call began under
  went_out,   \* fetcher -> whether its call went to the network
  last        \* history: ref -> the last answer of the network that was observed

vars == <<entries, swept, config_fp, pc, fetch, went_out, last>>

IndexEntry == [code : Codes, age : 0..ReplayWindow, fingerprint : Nat]
\* What a history entry is.
Heard == [told : Codes \cup {"ok"}, age : 0..ReplayWindow, fp : Nat]

ASSUME NoneAssumption == None \notin IndexEntry \cup Heard

NoCall == [ref |-> None, told |-> "ok", fp |-> 0]

Init ==
  /\ entries = [r \in Refs |-> None] /\ swept = 0 /\ config_fp = 0
  /\ pc = [c \in Fetchers |-> "idle"] /\ fetch = [c \in Fetchers |-> NoCall]
  /\ went_out = [c \in Fetchers |-> FALSE]
  /\ last = [r \in Refs |-> None]

Present == {r \in Refs : entries[r] # None}

\* check_at.
Verdict(r) ==
  IF entries[r] = None \/ entries[r].fingerprint # config_fp THEN "proceed"
  ELSE IF Disposition(entries[r].code) # "retry_after" /\ entries[r].age < ReplayWindow
       THEN "replay"
  ELSE IF Disposition(entries[r].code) = "retry_after" /\ entries[r].age < RetryAfterGap
       THEN "wait"
  ELSE "proceed"

\* fetch_paper_with asks the network: the index has nothing against it, or the
\* caller forces it.
AskNetwork(c, r, force) ==
  /\ pc[c] = "idle"
  /\ (force = "yes") # (Verdict(r) = "proceed")
  /\ fetch' = [fetch EXCEPT ![c] = [ref |-> r, told |-> "ok", fp |-> config_fp]]
  /\ went_out' = [went_out EXCEPT ![c] = TRUE]
  /\ pc' = [pc EXCEPT ![c] = "asking"]
  /\ UNCHANGED <<entries, swept, config_fp, last>>

\* What the call comes to: an error code (a refusal of the network, or of the
\* store, or of the log for the row that a forced call writes first), or a
\* success.
NetworkAnswers(c, told) ==
  /\ pc[c] = "asking"
  /\ fetch' = [fetch EXCEPT ![c].told = told]
  /\ pc' = [pc EXCEPT ![c] = "told"]
  /\ UNCHANGED <<entries, swept, config_fp, went_out, last>>

\* FetchError::Replayed: the recorded code, or RATE_LIMITED for a wait.
Replayed(c, r) ==
  /\ pc[c] = "idle" /\ Verdict(r) # "proceed"
  /\ fetch' = [fetch EXCEPT ![c] =
       [ref |-> r, fp |-> config_fp,
        told |-> IF Verdict(r) = "replay" THEN entries[r].code ELSE "RATE_LIMITED"]]
  /\ pc' = [pc EXCEPT ![c] = "told"]
  /\ UNCHANGED <<entries, swept, config_fp, went_out, last>>

\* Same disposition under the same configuration.
Same(e, code) ==
  e # None /\ e.fingerprint = config_fp /\ Disposition(e.code) = Disposition(code)

\* The entries a sweep leaves.
Retained == {r \in Present : entries[r].age < ReplayWindow}

\* A new entry sweeps the map first if it has doubled since the last sweep.
SweepDue == Cardinality(Present) >= IF SweepFloor > 2 * swept THEN SweepFloor ELSE 2 * swept

\* Bug: every answer, a replayed one too, restarts the clock of its entry.
ObserveErrorRestamp(r, code) ==
  /\ entries' = [q \in Refs |->
                   IF q = r THEN [code |-> code, age |-> 0, fingerprint |-> config_fp]
                   ELSE IF SweepDue /\ q \notin Retained THEN None ELSE entries[q]]
  /\ swept' = IF SweepDue THEN Cardinality(Retained) ELSE swept

\* observe_at with an error code.
ObserveError(r, code) ==
  IF Same(entries[r], code)
  THEN /\ entries' = [entries EXCEPT ![r].code =
                        IF Disposition(code) = "retry_after" THEN @ ELSE code]
       /\ swept' = swept
  ELSE /\ entries' = [q \in Refs |->
                        IF q = r THEN [code |-> code, age |-> 0, fingerprint |-> config_fp]
                        ELSE IF SweepDue /\ q \notin Retained THEN None ELSE entries[q]]
       /\ swept' = IF SweepDue THEN Cardinality(Retained) ELSE swept

Return(c) ==
  /\ pc' = [pc EXCEPT ![c] = "idle"]
  /\ fetch' = [fetch EXCEPT ![c] = NoCall]
  /\ went_out' = [went_out EXCEPT ![c] = FALSE]

\* The bookend of a call: a success clears the ref.
Observe(c) ==
  LET r == fetch[c].ref IN
  /\ pc[c] = "told"
  /\ \/ /\ fetch[c].told = "ok"
        /\ entries' = [entries EXCEPT ![r] = None] /\ swept' = swept
     \/ /\ fetch[c].told # "ok"
        /\ ObserveError(r, fetch[c].told)
  /\ last' = IF went_out[c]
             THEN [last EXCEPT ![r] = [told |-> fetch[c].told, age |-> 0, fp |-> fetch[c].fp]]
             ELSE last
  /\ Return(c)
  /\ UNCHANGED config_fp

\* The session_end row could not be written: nothing is observed.
BookendLost(c) ==
  /\ pc[c] = "told"
  /\ Return(c)
  /\ UNCHANGED <<entries, swept, config_fp, last>>

\* The user edits config.toml.
EditConfigFile ==
  /\ config_fp < MaxConfig
  /\ config_fp' = config_fp + 1
  /\ UNCHANGED <<entries, swept, pc, fetch, went_out, last>>

Older(e) == IF e = None \/ e.age = ReplayWindow THEN e ELSE [e EXCEPT !.age = @ + 1]

Tick ==
  /\ entries' = [r \in Refs |-> Older(entries[r])]
  /\ last' = [r \in Refs |-> Older(last[r])]
  /\ UNCHANGED <<swept, config_fp, pc, fetch, went_out>>

Next ==
  \/ \E c \in Fetchers :
       \/ \E r \in Refs : Replayed(c, r) \/ \E force \in {"no", "yes"} : AskNetwork(c, r, force)
       \/ \E told \in Answers : NetworkAnswers(c, told)
       \/ Observe(c) \/ BookendLost(c)
  \/ EditConfigFile \/ Tick

Spec == Init /\ [][Next]_vars

\* The clock runs.
FairSpec == Spec /\ WF_vars(Tick)
----------------------------------------------------------------------------
(* Properties.                                                             *)

TypeOK ==
  /\ entries \in [Refs -> IndexEntry \cup {None}]
  /\ swept \in Nat /\ config_fp \in Nat
  /\ pc \in [Fetchers -> {"idle", "asking", "told"}]
  /\ fetch \in [Fetchers -> [ref : Refs \cup {None}, told : Codes \cup {"ok"}, fp : Nat]]
  /\ went_out \in [Fetchers -> BOOLEAN]
  /\ last \in [Refs -> Heard \cup {None}]

\* What a caller is refused with is the last answer the network gave for the
\* ref, still inside its window: neither a replay's own bookend nor a sweep
\* nor another ref keeps a refusal alive ("a loop cannot slide the window").
ReplayIsJustified ==
  \A r \in Refs : Verdict(r) # "proceed" /\ (last[r] # None => last[r].fp = config_fp) =>
    /\ last[r] # None /\ last[r].told # "ok"
    /\ Disposition(last[r].told) = Disposition(entries[r].code)
    /\ last[r].age <= entries[r].age
    /\ Verdict(r) = "replay" => entries[r].code = last[r].told

\* "A changed file lifts the replay": nobody is refused on the strength of an
\* answer to a request made under another configuration.
RefusedUnderSameConfig ==
  \A r \in Refs : Verdict(r) # "proceed" => last[r] # None /\ last[r].fp = config_fp

\* The index stays within twice what the last sweep left, whatever number of
\* refs a session is refused.
IndexBounded ==
  Cardinality(Present) <= IF SweepFloor > 2 * swept THEN SweepFloor ELSE 2 * swept

\* An entry that could still be acted on leaves the index only through a
\* success of its own ref.
SweepKeepsLive ==
  [][\A r \in Refs : entries[r] # None /\ entries'[r] = None =>
       \/ entries[r].age = ReplayWindow
       \/ \E c \in Fetchers : pc[c] = "told" /\ fetch[c].ref = r /\ fetch[c].told = "ok"]_vars

\* "Backoff keeps working; hammering does not": without force, the network is
\* not asked again within the gap of an answer that said to come back later.
RetryGapKept ==
  [][\A c \in Fetchers, r \in Refs :
       (pc[c] = "idle" /\ pc'[c] = "asking" /\ fetch'[c].ref = r /\ Verdict(r) = "proceed"
          /\ last[r] # None /\ last[r].fp = config_fp /\ last[r].told # "ok") =>
       (Disposition(last[r].told) = "retry_after" => last[r].age >= RetryAfterGap)]_vars

\* No ref is refused for good, however often it is asked for: again and again
\* it is let through, or somebody forces it.
NeverRefusedForGood ==
  \A r \in Refs : []<>( \/ Verdict(r) = "proceed"
                       \/ \E c \in Fetchers : pc[c] = "asking" /\ fetch[c].ref = r )
=============================================================================
