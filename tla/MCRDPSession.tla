--------------------------- MODULE MCRDPSession ---------------------------
(****************************************************************************)
(* RDPSession for TLC: every constant gets its value in the cfg.            *)
(****************************************************************************)
EXTENDS RDPSession
=============================================================================
