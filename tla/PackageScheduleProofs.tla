----------------------- MODULE PackageScheduleProofs -----------------------
(***************************************************************************)
(* What the schedule guarantees to the code that loads a package, for      *)
(* every import graph and every number of tokens.                          *)
(***************************************************************************)
EXTENDS PackageSchedule, TLAPS

(* What has been started has its direct imports behind it. *)
ImportsFirst ==
    \A p \in Packages : stage[p] # "waiting" =>
        \A imp \in Imports[p] : stage[imp] = "finished"

(* What is forgotten has nobody above it who still needs it. *)
ForgottenBehind ==
    \A q \in Packages \ held : \A p \in Packages :
        q \in Below(p) => stage[p] \in {"analysed", "finished"}

SInv == ScheduleTypeOK /\ ImportsFirst /\ ForgottenBehind

LEMMA ScheduleInitSInv == ScheduleInit => SInv
BY DEF ScheduleInit, SInv, ScheduleTypeOK, ImportsFirst, ForgottenBehind, Stages

LEMMA ScheduleNextSInv == SInv /\ [ScheduleNext]_<<stage, held>> => SInv'
<1> SUFFICES ASSUME SInv, [ScheduleNext]_<<stage, held>> PROVE SInv'
  OBVIOUS
<1> USE PackagesAssumption DEF SInv, ScheduleTypeOK, Stages
<1>1. ASSUME NEW p \in Packages, Start(p) PROVE SInv'
  <2>1. stage' = [stage EXCEPT ![p] = "analysing"] /\ held' = held
    BY <1>1 DEF Start
  <2>2. ImportsFirst'
    BY <1>1, <2>1 DEF Start, ImportsFirst
  <2>3. ForgottenBehind'
    BY <1>1, <2>1 DEF Start, ForgottenBehind, Below, ClosedUnderImports
  <2> QED
    BY <2>1, <2>2, <2>3
<1>2. ASSUME NEW p \in Packages, Conclude(p) PROVE SInv'
  <2>1. ImportsFirst' /\ ForgottenBehind'
    BY <1>2 DEF Conclude, ImportsFirst, ForgottenBehind, Below, ClosedUnderImports
  <2> QED
    BY <1>2, <2>1 DEF Conclude
<1>3. ASSUME NEW q \in Packages, Forget(q) PROVE SInv'
  <2>1. ImportsFirst' /\ ForgottenBehind'
    BY <1>3 DEF Forget, ImportsFirst, ForgottenBehind, Below, ClosedUnderImports
  <2> QED
    BY <1>3, <2>1 DEF Forget
<1>4. ASSUME NEW p \in Packages, Leave(p) PROVE SInv'
  <2>1. ImportsFirst' /\ ForgottenBehind'
    BY <1>4 DEF Leave, ImportsFirst, ForgottenBehind, Below, ClosedUnderImports
  <2> QED
    BY <1>4, <2>1 DEF Leave
<1>5. CASE UNCHANGED <<stage, held>>
  BY <1>5 DEF ImportsFirst, ForgottenBehind, Below, ClosedUnderImports
<1> QED
  BY <1>1, <1>2, <1>3, <1>4, <1>5 DEF ScheduleNext

LEMMA SInvMeansBuiltOnFinished == SInv => BuiltOnFinished
<1> SUFFICES ASSUME SInv, NEW p \in Packages, stage[p] = "analysing", NEW q \in Below(p)
             PROVE  q \in held /\ (q = p \/ stage[q] = "finished")
  BY DEF BuiltOnFinished
<1> DEFINE Done == {r \in Packages : stage[r] = "finished"} \cup {p}
<1>1. Done \in SUBSET Packages /\ p \in Done
  OBVIOUS
<1>2. ClosedUnderImports(Done)
  BY PackagesAssumption DEF SInv, ImportsFirst, ClosedUnderImports
<1>3. q \in Done
  BY <1>1, <1>2 DEF Below
<1>4. q \in held
  BY <1>1, <1>3 DEF SInv, ForgottenBehind
<1> QED
  BY <1>3, <1>4

(* A package under analysis finds everything below it analysed and still   *)
(* referenced, whatever the import graph and the number of tokens.         *)
THEOREM ScheduleBuildsOnFinished == ScheduleSpec => []BuiltOnFinished
BY ScheduleInitSInv, ScheduleNextSInv, SInvMeansBuiltOnFinished, PTL DEF ScheduleSpec
=============================================================================
