--------------------------- MODULE MCErrorRecovery ---------------------------
(* Instances of ErrorRecovery: callers t1..t3 report errors e1..e3.         *)
EXTENDS ErrorRecovery, TLC

CONSTANTS t1, t2, t3, e1, e2, e3

MCCallers2 == {t1, t2}
MCCallers3 == {t1, t2, t3}
MCErrorIDs2 == {e1, e2}
MCErrorIDs3 == {e1, e2, e3}

(* Lost connections only: the recovery goroutine has nothing to do.         *)
MCLostConnections == [e \in ErrorIDs |-> "connection"]
(* A publish that is retried and an authentication failure that is not.     *)
MCMixed == [e \in ErrorIDs |-> IF e = e1 THEN "publish" ELSE "authentication"]

MCSymmetry == Permutations(Callers) \cup Permutations(ErrorIDs)
MCCallerSymmetry == Permutations(Callers)

=============================================================================
