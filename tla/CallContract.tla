---------------------------- MODULE CallContract ----------------------------
(***************************************************************************)
(* What a call promises whoever audits it afterwards.  It is refused, or   *)
(* answered, without a session; or it opens a session, comes to a verdict  *)
(* when the session is over, and gives its caller that very verdict.  It   *)
(* never answers from inside a session and never revises a verdict.        *)
(***************************************************************************)
CONSTANT Callers

VARIABLES phase, verdict

contractVars == <<phase, verdict>>

Verdicts == {"ok", "err"}

Init == phase = [c \in Callers |-> "new"] /\ verdict = [c \in Callers |-> "none"]

Begin(c) ==
  /\ phase[c] = "new" /\ phase' = [phase EXCEPT ![c] = "open"]
  /\ UNCHANGED verdict

Judge(c, v) ==
  /\ phase[c] = "open" /\ phase' = [phase EXCEPT ![c] = "judged"]
  /\ verdict' = [verdict EXCEPT ![c] = v]

Tell(c) ==
  /\ phase[c] = "judged" /\ phase' = [phase EXCEPT ![c] = "told"]
  /\ UNCHANGED verdict

\* An answer without a session.
TellAtOnce(c, v) ==
  /\ phase[c] = "new" /\ phase' = [phase EXCEPT ![c] = "told"]
  /\ verdict' = [verdict EXCEPT ![c] = v]

Next == \E c \in Callers :
  Begin(c) \/ Tell(c) \/ \E v \in Verdicts : Judge(c, v) \/ TellAtOnce(c, v)

Spec == Init /\ [][Next]_contractVars
=============================================================================
