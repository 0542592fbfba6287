--------------------------- MODULE MCConfigContainer ---------------------------
(***************************************************************************)
(* An instance of ConfigContainer for TLC: two workers of one namespace,   *)
(* started one after the other, and one worker of another.                 *)
(***************************************************************************)
EXTENDS ConfigContainer

CONSTANTS ns1, ns2, w1, w2, w3

MCNamespaces == {ns1, ns2}
MCWorkers == {w1, w2, w3}
MCNsOf == [w \in MCWorkers |-> IF w = w3 THEN ns2 ELSE ns1]
================================================================================
