---------------------------- MODULE Applications ----------------------------
(***************************************************************************)
(* The applications of one profile on one platform (core.ApplicationID),   *)
(* the index of every table the submission works on.                       *)
(***************************************************************************)
EXTENDS Integers, FiniteSets

CONSTANTS
    Apps,       \* applications
    NoApp       \* no application

ASSUME ApplicationsAssumption == IsFiniteSet(Apps) /\ NoApp \notin Apps
=============================================================================
