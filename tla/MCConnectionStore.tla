------------------------- MODULE MCConnectionStore -------------------------
(****************************************************************************)
(* ConnectionStore for TLC: configurations are interchangeable.             *)
(****************************************************************************)
EXTENDS ConnectionStore, TLC

Interchangeable == Permutations(Config)
=============================================================================
