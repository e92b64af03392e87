----------------------------- MODULE MCRegistry -----------------------------
(***************************************************************************)
(* Registry for TLC: the connections are interchangeable.                  *)
(***************************************************************************)
EXTENDS Registry, TLC

Interchangeable == Permutations(Connections)
=============================================================================
