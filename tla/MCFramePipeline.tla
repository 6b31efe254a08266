-------------------------- MODULE MCFramePipeline --------------------------
(****************************************************************************)
(* FramePipeline for TLC.  Two sizes with rows of different lengths, which  *)
(* also differ in the other dimension when a mix of the two is to be a      *)
(* third size.  The other constants get their values in the cfgs.           *)
(****************************************************************************)
EXTENDS FramePipeline

WideAndNarrow == {<<2, 1>>, <<1, 1>>}
WideAndHigh == {<<2, 1>>, <<1, 2>>}
=============================================================================
