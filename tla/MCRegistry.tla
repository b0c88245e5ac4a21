----------------------------- MODULE MCRegistry -----------------------------
(***************************************************************************)
(* A small package for module Registry: 2 retracts 1, 3 moves the package, *)
(* and breaks what 2 admits.                                               *)
(***************************************************************************)
EXTENDS Registry, TLC

MCBuilds == [p \in Publisher |-> IF p = "p" THEN {1, 3} ELSE {2}]
AllBuilds == [p \in Publisher |-> Version]
MCRetracts == [v \in Version |-> IF v = 2 THEN {1} ELSE {}]
MCMoved == {3}
MCBreaking == {<<2, 3>>}
=============================================================================
