------------------------- MODULE MCDRClusterController -------------------------
(***************************************************************************)
(* Instances of DRClusterController for TLC.  No value of a constant set   *)
(* is special, so the values of the first specification are chosen.        *)
(***************************************************************************)
EXTENDS DRClusterController

CONSTANTS prod, watch, s1

FirstInit ==
    /\ Init
    /\ latest.spec.role = prod /\ latest.spec.adapter = watch /\ latest.spec.settings = s1

FairSpecFromFirst == FirstInit /\ [][Next]_vars /\ Fairness
================================================================================
