----------------------------- MODULE MCCliprdr -----------------------------
(****************************************************************************)
(* Cliprdr for TLC: every constant gets its value in the cfg.               *)
(****************************************************************************)
EXTENDS Cliprdr
=============================================================================
