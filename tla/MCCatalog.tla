----------------------------- MODULE MCCatalog -----------------------------
(* Catalog for TLC.  Nothing tells two names of indexes apart, and every   *)
(* property is a safety property, so they may be interchanged.             *)
EXTENDS Catalog, TLC

Interchangeable == Permutations(Indexes)
=============================================================================
