---------------------------- MODULE MCRunCommand ----------------------------
EXTENDS RunCommand

CONSTANTS p1, p2, p3

(* One run that everything happens to, two that find nothing.  What a      *)
(* serial run does, an exclusive one may do, until it gives up.            *)
AnyMode == [p \in Processes |-> IF p = p1 THEN {"parallel", "exclusive"} ELSE {"serial"}]
AllOutcomes ==
    [p \in Processes |-> IF p = p1 THEN {"issues", "failed", "panicked", "warned", "logged"}
                         ELSE {"clean"}]
=============================================================================
