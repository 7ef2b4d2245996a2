----------------------------- MODULE AuditTrail -----------------------------
(***************************************************************************)
(* What the provenance log promises whoever audits it, with files, chain   *)
(* state and rotation left out.  Calls of append follow one another.  A    *)
(* row becomes readable before its append says Ok and stays readable until *)
(* retention takes the oldest rows; a call that is refused, or cut off by  *)
(* the end of the process, takes nothing with it.                          *)
(*                                                                         *)
(* A row is named by a number; a row written later has a greater one.      *)
(***************************************************************************)
EXTENDS Integers

CONSTANTS Threads, Names

VARIABLES
  call,      \* thread -> how far its append is
  made,      \* thread -> the row its append has written, 0 if none
  readable,  \* rows that can be read back
  acked,     \* rows whose append returned Ok
  retired    \* rows that retention has deleted a copy of

trailVars == <<call, made, readable, acked, retired>>

Quiet == call = [t \in Threads |-> "idle"]
Before(A, B) == \A a \in A, b \in B : a < b

Init ==
  /\ Quiet /\ made = [t \in Threads |-> 0]
  /\ readable = {} /\ acked = {} /\ retired = {}

Begin(t) ==
  /\ Quiet
  /\ call' = [call EXCEPT ![t] = "begun"]
  /\ UNCHANGED <<made, readable, acked, retired>>

Write(t) ==
  /\ call[t] = "begun"
  /\ \E d \in Names :
       /\ Before(readable \cup acked \cup retired, {d})
       /\ readable' = readable \cup {d}
       /\ made' = [made EXCEPT ![t] = d]
  /\ call' = [call EXCEPT ![t] = "written"]
  /\ UNCHANGED <<acked, retired>>

Ok(t) ==
  /\ call[t] = "written"
  /\ acked' = acked \cup {made[t]}
  /\ call' = [call EXCEPT ![t] = "idle"] /\ made' = [made EXCEPT ![t] = 0]
  /\ UNCHANGED <<readable, retired>>

\* A call that fails has written nothing.
Refuse(t) ==
  /\ call[t] = "begun"
  /\ call' = [call EXCEPT ![t] = "idle"]
  /\ UNCHANGED <<made, readable, acked, retired>>

\* The process ends, whatever its threads are doing.
Stop ==
  /\ call' = [t \in Threads |-> "idle"] /\ made' = [t \in Threads |-> 0]
  /\ UNCHANGED <<readable, acked, retired>>

\* Retention deletes old rows between two calls.  A row may have a second copy
\* that stays; those that are gone are older than all that can still be read.
Prune ==
  /\ Quiet
  /\ \E old \in SUBSET readable : \E gone \in SUBSET old :
       /\ Before(gone, readable \ gone)
       /\ readable' = readable \ gone
       /\ retired' = retired \cup old
  /\ UNCHANGED <<call, made, acked>>

Next ==
  \/ \E t \in Threads : Begin(t) \/ Write(t) \/ Ok(t) \/ Refuse(t)
  \/ Stop \/ Prune

Spec == Init /\ [][Next]_trailVars
=============================================================================
