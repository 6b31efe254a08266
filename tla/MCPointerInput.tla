--------------------------- MODULE MCPointerInput ---------------------------
(****************************************************************************)
(* PointerInput for TLC: a square and a wide view, a texture that is as     *)
(* wide as high and one that is wider than both views, every point of the   *)
(* views and those around them, pinches up to and beyond the largest wheel  *)
(* rotation.                                                                *)
(****************************************************************************)
EXTENDS PointerInput

SquareAndWide == {<<3, 3>>, <<4, 2>>}
SquareAndWider == {<<2, 2>>, <<3, 1>>}
InAndAround == (-1 .. 4) \X (-1 .. 4)
SmallAndLarge == {-119, -1, 0, 1, 255, 256, 300}
=============================================================================
