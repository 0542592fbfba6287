------------------------ MODULE MCDRNamespaceController ------------------------
(***************************************************************************)
(* Instances of DRNamespaceController for TLC.                             *)
(***************************************************************************)
EXTENDS DRNamespaceController
===============================================================================
