------------------------------ MODULE Viewport ------------------------------
(****************************************************************************)
(* Where the picture of the remote desktop is in the view, and which pixel  *)
(* of it a point of the view stands for.  MetalRenderer answers the two     *)
(* questions separately, with fractions: calculateVertexData places the     *)
(* quad that is drawn, viewToTextureCoordinate converts a gesture's point.  *)
(*                                                                          *)
(* A size, a point, a pixel is a pair; a length is a fraction <<n, d>>.     *)
(****************************************************************************)
EXTENDS Integers

ScaleMode == {"fit", "fill", "native"}

NoPixel == <<-1, -1>>

(* A size or a point of the view, in units of which k make one.             *)
Scaled(k, p) == <<k * p[1], k * p[2]>>

(* textureAspect > viewAspect.                                              *)
Wider(view, texture) == texture[1] * view[2] > view[1] * texture[2]

(* calculateVertexData: the lengths the quad takes in a drawable of that    *)
(* size, which is its scale on each axis times the drawable's length.       *)
QuadSize(mode, view, texture) ==
    LET full == <<view[1], 1>>
        fullY == <<view[2], 1>>
        byHeight == <<view[1] * texture[1] * view[2], texture[2] * view[1]>>
        byWidth == <<view[2] * view[1] * texture[2], view[2] * texture[1]>>
    IN CASE mode = "fit" ->
              IF Wider(view, texture) THEN <<full, byWidth>> ELSE <<byHeight, fullY>>
         [] mode = "fill" ->
              IF Wider(view, texture) THEN <<byHeight, fullY>> ELSE <<full, byWidth>>
         [] mode = "native" -> <<<<texture[1], 1>>, <<texture[2], 1>>>>

(* Mutant: the bars are taken off both axes.                                *)
ConvertedSizeBothAxes(mode, view, texture) ==
    IF mode = "fit"
    THEN <<<<view[2] * texture[1], texture[2]>>, <<view[1] * texture[2], texture[1]>>>>
    ELSE <<<<view[1], 1>>, <<view[2], 1>>>>

(* viewToTextureCoordinate: the view's lengths without the bars.  Only .fit *)
(* has bars; .fill and .native are taken to show the picture in the whole   *)
(* view.                                                                    *)
ConvertedSize(mode, view, texture) ==
    IF mode = "fit"
    THEN IF Wider(view, texture)
         THEN <<<<view[1], 1>>, <<view[1] * texture[2], texture[1]>>>>
         ELSE <<<<view[2] * texture[1], texture[2]>>, <<view[2], 1>>>>
    ELSE <<<<view[1], 1>>, <<view[2], 1>>>>

(* A picture of the given length, centred on an axis of the view: is p in   *)
(* it, and how many of its n pixels does p leave behind?                    *)
Numerator(length, shown, p) == (2 * p - length) * shown[2] + shown[1]

(* Mutant: a point before the picture counts as on it.                      *)
OnAxisOrBefore(length, shown, p) == Numerator(length, shown, p) <= 2 * shown[1]

OnAxis(length, shown, p) == Numerator(length, shown, p) \in 0 .. 2 * shown[1]

PixelsBefore(length, shown, n, p) == (Numerator(length, shown, p) * n) \div (2 * shown[1])

OnPicture(view, shown, point) ==
    OnAxis(view[1], shown[1], point[1]) /\ OnAxis(view[2], shown[2], point[2])

Coordinate(view, shown, texture, point) ==
    <<PixelsBefore(view[1], shown[1], texture[1], point[1]),
      PixelsBefore(view[2], shown[2], texture[2], point[2])>>

(* viewToTextureCoordinate and the truncation to integers of what it gives. *)
ViewToTexture(mode, view, texture, point) ==
    LET shown == ConvertedSize(mode, view, texture)
    IN IF texture # <<0, 0>> /\ OnPicture(view, shown, point)
       THEN Coordinate(view, shown, texture, point)
       ELSE NoPixel

Least(a, b) == IF a < b THEN a ELSE b

(* The pixel the sampler shows at a point of the drawable, or of a view     *)
(* with the same units: beyond the far edge it repeats the last one.        *)
PixelShown(mode, view, texture, point) ==
    LET shown == QuadSize(mode, view, texture)
        c == Coordinate(view, shown, texture, point)
    IN IF texture # <<0, 0>> /\ OnPicture(view, shown, point)
       THEN <<Least(c[1], texture[1] - 1), Least(c[2], texture[2] - 1)>>
       ELSE NoPixel

=============================================================================
