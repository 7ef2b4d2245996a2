-------------------------- MODULE MCProvenanceLog --------------------------
(* Instances of ProvenanceLog for TLC.                                     *)
EXTENDS ProvenanceLog, TLC

CONSTANTS p1, p2, t1, t2

OneProcess == t1 :> p1 @@ t2 :> p1
TwoProcesses == t1 :> p1 @@ t2 :> p2

\* The two threads of one process are interchangeable.
ThreadSymmetry == Permutations({t1, t2})
=============================================================================
