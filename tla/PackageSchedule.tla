-------------------------- MODULE PackageSchedule --------------------------
(***************************************************************************)
(* What the go/analysis runner promises about the order in which packages  *)
(* are analysed and forgotten, whatever its goroutines do: a package is    *)
(* analysed once, after its imports, with a bounded number of others, and  *)
(* is kept until everything above it has been analysed.                    *)
(***************************************************************************)
EXTENDS PackageGraph

CONSTANT MaxParallel    \* the most packages in memory with their syntax trees

VARIABLES
    stage,      \* stage[p]: how far the analysis of p has come
    held        \* the packages that are still referenced

Stages == {"waiting", "analysing", "analysed", "finished"}

ScheduleTypeOK ==
    /\ stage \in [Packages -> Stages]
    /\ held \subseteq Packages

Occupied == {p \in Packages : stage[p] \in {"analysing", "analysed"}}

ScheduleInit ==
    /\ stage = [p \in Packages |-> "waiting"]
    /\ held = Packages

Start(p) ==
    /\ stage[p] = "waiting"
    /\ \A imp \in Imports[p] : stage[imp] = "finished"
    /\ Cardinality(Occupied) < MaxParallel
    /\ stage' = [stage EXCEPT ![p] = "analysing"]
    /\ UNCHANGED held

Conclude(p) ==
    /\ stage[p] = "analysing"
    /\ stage' = [stage EXCEPT ![p] = "analysed"]
    /\ UNCHANGED held

Forget(q) ==
    /\ q \in held
    /\ \A p \in Packages : q \in Below(p) => stage[p] \in {"analysed", "finished"}
    /\ held' = held \ {q}
    /\ UNCHANGED stage

Leave(p) ==
    /\ stage[p] = "analysed"
    /\ stage' = [stage EXCEPT ![p] = "finished"]
    /\ UNCHANGED held

ScheduleNext == \E p \in Packages : Start(p) \/ Conclude(p) \/ Forget(p) \/ Leave(p)

ScheduleSpec == ScheduleInit /\ [][ScheduleNext]_<<stage, held>>

(* A package that has been started finds all of its transitive imports     *)
(* analysed and, until it is analysed itself, still referenced.            *)
BuiltOnFinished ==
    \A p \in Packages : stage[p] = "analysing" =>
        \A q \in Below(p) : q \in held /\ (q = p \/ stage[q] = "finished")
=============================================================================
