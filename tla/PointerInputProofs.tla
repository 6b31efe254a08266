------------------------- MODULE PointerInputProofs -------------------------
(****************************************************************************)
(* What holds of PointerInput for every size of the view and the texture,   *)
(* every point and every pinch.  First the arithmetic of Viewport: fitted   *)
(* to the window, what is converted and what is drawn are the same pixel.   *)
(****************************************************************************)
EXTENDS PointerInput, TLAPS

Size == Positive \X Positive

(* A common factor of dividend and divisor cancels.                         *)
LEMMA FactorCancels ==
    ASSUME NEW a \in Nat, NEW b \in Positive, NEW k \in Positive
    PROVE  (k * a) \div (k * b) = a \div b
<1> DEFINE q == a \div b
           r == a % b
<1>1. q \in Nat /\ r \in 0 .. b - 1 /\ a = b * q + r
  BY DEF Positive
<1>2. k * a = (k * b) * q + k * r
  BY <1>1 DEF Positive
<1>3. 0 <= k * r /\ k * r < k * b
  BY <1>1 DEF Positive
<1>4. k * b \in Positive
  BY DEF Positive
<1> HIDE DEF q, r
<1>5. \A d \in Positive, s \in Nat, e \in Nat :
         s < d /\ e = d * q + s => e \div d = q
  BY <1>1 DEF Positive
<1>6. k * r \in Nat /\ k * a \in Nat
  BY <1>1 DEF Positive
<1>7. (k * a) \div (k * b) = q
  BY <1>2, <1>3, <1>4, <1>5, <1>6
<1> QED
  BY <1>7 DEF q

(* So in units k times smaller, a picture whose length is then given by an  *)
(* expanded fraction is where it was.                                       *)
LEMMA ScaledLength ==
    ASSUME NEW length \in Positive, NEW n \in Positive, NEW d \in Positive,
           NEW k \in Positive, NEW pixels \in Positive, NEW p \in Int,
           OnAxis(length, <<n, d>>, p),
           NEW j \in Positive, NEW e \in Positive, k * e = j * d
    PROVE  /\ OnAxis(k * length, <<j * n, e>>, k * p)
           /\ PixelsBefore(k * length, <<j * n, e>>, pixels, k * p)
                = PixelsBefore(length, <<n, d>>, pixels, p)
<1> DEFINE m == Numerator(length, <<n, d>>, p)
<1>1. m \in 0 .. 2 * n
  BY DEF OnAxis
<1>2. Numerator(k * length, <<j * n, e>>, k * p) = j * m
  <2>1. (2 * (k * p) - k * length) * e = (2 * p - length) * (k * e)
    BY DEF Positive
  <2>2. (2 * p - length) * (j * d) + j * n = j * ((2 * p - length) * d + n)
    BY DEF Positive
  <2> QED
    BY <2>1, <2>2 DEF Numerator
<1> HIDE DEF m
<1>3. j * m \in 0 .. 2 * (j * n)
  BY <1>1 DEF Positive
<1>4. m * pixels \in Nat /\ 2 * n \in Positive
  BY <1>1 DEF Positive
<1>5. (j * (m * pixels)) \div (j * (2 * n)) = (m * pixels) \div (2 * n)
  BY <1>4, FactorCancels
<1>6. j * (m * pixels) = (j * m) * pixels /\ j * (2 * n) = 2 * (j * n)
  BY <1>1 DEF Positive
<1> QED
  BY <1>2, <1>3, <1>5, <1>6 DEF OnAxis, PixelsBefore, m

(* An axis the picture fills, it fills in smaller units too.                *)
LEMMA ScaledFullLength ==
    ASSUME NEW length \in Positive, NEW k \in Positive, NEW pixels \in Positive,
           NEW p \in Int, OnAxis(length, <<length, 1>>, p)
    PROVE  /\ OnAxis(k * length, <<k * length, 1>>, k * p)
           /\ PixelsBefore(k * length, <<k * length, 1>>, pixels, k * p)
                = PixelsBefore(length, <<length, 1>>, pixels, p)
<1>1. 1 \in Positive /\ k * 1 = k
  BY DEF Positive
<1> QED
  BY <1>1, ScaledLength

(* Which of the two is the wider does not depend on the units.              *)
LEMMA WiderInAnyUnits ==
    ASSUME NEW view \in Size, NEW texture \in Size, NEW k \in Positive
    PROVE  Wider(Scaled(k, view), texture) <=> Wider(view, texture)
<1> DEFINE a == texture[1] * view[2]
           b == view[1] * texture[2]
<1>1. /\ view[1] \in Nat /\ view[2] \in Nat /\ texture[1] \in Nat /\ texture[2] \in Nat
      /\ k \in Nat /\ k > 0
  BY DEF Size, Positive
<1>2. texture[1] * (k * view[2]) = k * a /\ (k * view[1]) * texture[2] = k * b
  BY <1>1
<1>3. a \in Nat /\ b \in Nat
  BY <1>1
<1> HIDE DEF a, b
<1>4. a > b => k * a > k * b
  BY <1>1, <1>3
<1>5. ~(a > b) => ~(k * a > k * b)
  BY <1>1, <1>3
<1> QED
  BY <1>2, <1>4, <1>5 DEF Wider, Scaled, a, b

(* What is converted is a coordinate: no component is negative.             *)
LEMMA CoordinatesNatural ==
    ASSUME NEW length \in Positive, NEW n \in Positive, NEW d \in Positive,
           NEW pixels \in Positive, NEW p \in Int, OnAxis(length, <<n, d>>, p)
    PROVE  PixelsBefore(length, <<n, d>>, pixels, p) \in Nat
<1> DEFINE m == Numerator(length, <<n, d>>, p)
<1>1. m \in Nat
  BY DEF OnAxis, Positive
<1> HIDE DEF m
<1>2. m * pixels \in Nat /\ 2 * n \in Positive
  BY <1>1 DEF Positive
<1>3. \A a \in Nat, b \in Positive : a \div b \in Nat
  BY DEF Positive
<1>4. (m * pixels) \div (2 * n) \in Nat
  BY <1>2, <1>3
<1> QED
  BY <1>4 DEF PixelsBefore, m

LEMMA ConvertedLengths ==
    ASSUME NEW mode \in ScaleMode, NEW view \in Size, NEW texture \in Size
    PROVE  ConvertedSize(mode, view, texture) \in Size \X Size
<1>1. \A i, j \in Positive : i * j \in Positive
  BY DEF Positive
<1>2. view[1] \in Positive /\ view[2] \in Positive
      /\ texture[1] \in Positive /\ texture[2] \in Positive
  BY DEF Size
<1>3. 1 \in Positive
  BY DEF Positive
<1>4. view[1] * texture[2] \in Positive /\ view[2] * texture[1] \in Positive
  BY <1>1, <1>2
<1> QED
  BY <1>2, <1>3, <1>4 DEF ConvertedSize, Size

(* A point that is converted has a coordinate.                              *)
LEMMA ConversionTyped ==
    ASSUME NEW mode \in ScaleMode, NEW view \in Size, NEW texture \in Size \cup {<<0, 0>>},
           NEW point \in Int \X Int,
           ViewToTexture(mode, view, texture, point) # NoPixel
    PROVE  /\ texture \in Size
           /\ OnPicture(view, ConvertedSize(mode, view, texture), point)
           /\ ViewToTexture(mode, view, texture, point)
                = Coordinate(view, ConvertedSize(mode, view, texture), texture, point)
           /\ ViewToTexture(mode, view, texture, point) \in Nat \X Nat
<1> DEFINE shown == ConvertedSize(mode, view, texture)
           at == ViewToTexture(mode, view, texture, point)
<1>1. texture # <<0, 0>> /\ OnPicture(view, shown, point)
      /\ at = Coordinate(view, shown, texture, point)
  BY DEF ViewToTexture
<1>2. texture \in Size
  BY <1>1
<1>3. PICK s \in Size \X Size : s = shown
  BY <1>2, ConvertedLengths
<1>4. /\ s[1] = <<s[1][1], s[1][2]>> /\ s[1][1] \in Positive /\ s[1][2] \in Positive
      /\ s[2] = <<s[2][1], s[2][2]>> /\ s[2][1] \in Positive /\ s[2][2] \in Positive
  BY DEF Size
<1>5. /\ view[1] \in Positive /\ view[2] \in Positive /\ point[1] \in Int /\ point[2] \in Int
      /\ texture[1] \in Positive /\ texture[2] \in Positive
  BY <1>2 DEF Size
<1>6. OnAxis(view[1], s[1], point[1]) /\ OnAxis(view[2], s[2], point[2])
  BY <1>1, <1>3 DEF OnPicture
<1>7. PixelsBefore(view[1], s[1], texture[1], point[1]) \in Nat
  BY <1>4, <1>5, <1>6, CoordinatesNatural
<1>8. PixelsBefore(view[2], s[2], texture[2], point[2]) \in Nat
  BY <1>4, <1>5, <1>6, CoordinatesNatural
<1>9. at \in Nat \X Nat
  BY <1>1, <1>3, <1>7, <1>8 DEF Coordinate
<1> QED
  BY <1>1, <1>2, <1>9

(* Fitted to the window, a gesture's point is converted to the pixel that   *)
(* is drawn there, for every size of the view and of the desktop and for    *)
(* every number k of the drawable's pixels to a point of the view; at the   *)
(* far edge of the picture, to the one beyond the last.                     *)
THEOREM FittedPointIsPixelShown ==
    ASSUME NEW view \in Size, NEW texture \in Size \cup {<<0, 0>>},
           NEW point \in Int \X Int, NEW k \in Positive,
           ViewToTexture("fit", view, texture, point) # NoPixel
    PROVE  \A axis \in {1, 2} :
              PixelShown("fit", Scaled(k, view), texture, Scaled(k, point))[axis]
                = Least(ViewToTexture("fit", view, texture, point)[axis], texture[axis] - 1)
<1> DEFINE shown == ConvertedSize("fit", view, texture)
           drawable == Scaled(k, view)
           there == Scaled(k, point)
           quad == QuadSize("fit", drawable, texture)
<1>1. texture \in Size /\ OnPicture(view, shown, point)
      /\ ViewToTexture("fit", view, texture, point) = Coordinate(view, shown, texture, point)
  BY ConversionTyped DEF ScaleMode
<1>2. /\ view[1] \in Positive /\ view[2] \in Positive /\ point[1] \in Int /\ point[2] \in Int
      /\ texture[1] \in Positive /\ texture[2] \in Positive
  BY <1>1 DEF Size
<1>3. /\ drawable[1] = k * view[1] /\ drawable[2] = k * view[2]
      /\ there[1] = k * point[1] /\ there[2] = k * point[2]
  BY DEF Scaled
<1>4. Wider(drawable, texture) <=> Wider(view, texture)
  BY <1>1, WiderInAnyUnits
<1>5. \A i, l \in Positive : i * l \in Positive
  BY DEF Positive
<1> HIDE DEF drawable, there
<1>6. OnPicture(drawable, quad, there)
      /\ Coordinate(drawable, quad, texture, there) = Coordinate(view, shown, texture, point)
  <2>1. CASE Wider(view, texture)
    <3> DEFINE n == view[1] * texture[2]
               d == texture[1]
               j == k * (k * view[2])
               e == (k * view[2]) * d
    <3>1. shown = <<<<view[1], 1>>, <<n, d>>>>
      BY <2>1 DEF ConvertedSize
    <3>2. quad = <<<<k * view[1], 1>>, <<j * n, e>>>>
      <4>1. (k * view[2]) * (k * view[1]) * texture[2] = j * n
        BY <1>2 DEF Positive
      <4> QED
        BY <1>3, <1>4, <2>1, <4>1 DEF QuadSize
    <3>3. n \in Positive /\ d \in Positive /\ j \in Positive /\ e \in Positive
      BY <1>2, <1>5
    <3>4. k * e = j * d
      BY <1>2 DEF Positive
    <3>5. OnAxis(view[2], <<n, d>>, point[2]) /\ OnAxis(view[1], <<view[1], 1>>, point[1])
      BY <1>1, <3>1 DEF OnPicture
    <3> HIDE DEF n, d, j, e
    <3>6. /\ OnAxis(k * view[2], <<j * n, e>>, k * point[2])
          /\ PixelsBefore(k * view[2], <<j * n, e>>, texture[2], k * point[2])
               = PixelsBefore(view[2], <<n, d>>, texture[2], point[2])
      BY <1>2, <3>3, <3>4, <3>5, ScaledLength
    <3>7. /\ OnAxis(k * view[1], <<k * view[1], 1>>, k * point[1])
          /\ PixelsBefore(k * view[1], <<k * view[1], 1>>, texture[1], k * point[1])
               = PixelsBefore(view[1], <<view[1], 1>>, texture[1], point[1])
      BY <1>2, <3>5, ScaledFullLength
    <3> QED
      BY <1>3, <3>1, <3>2, <3>6, <3>7 DEF OnPicture, Coordinate
  <2>2. CASE ~Wider(view, texture)
    <3> DEFINE n == view[2] * texture[1]
               d == texture[2]
               j == k * (k * view[1])
               e == d * (k * view[1])
    <3>1. shown = <<<<n, d>>, <<view[2], 1>>>>
      BY <2>2 DEF ConvertedSize
    <3>2. quad = <<<<j * n, e>>, <<k * view[2], 1>>>>
      <4>1. (k * view[1]) * texture[1] * (k * view[2]) = j * n
        BY <1>2 DEF Positive
      <4> QED
        BY <1>3, <1>4, <2>2, <4>1 DEF QuadSize
    <3>3. n \in Positive /\ d \in Positive /\ j \in Positive /\ e \in Positive
      BY <1>2, <1>5
    <3>4. k * e = j * d
      BY <1>2 DEF Positive
    <3>5. OnAxis(view[1], <<n, d>>, point[1]) /\ OnAxis(view[2], <<view[2], 1>>, point[2])
      BY <1>1, <3>1 DEF OnPicture
    <3> HIDE DEF n, d, j, e
    <3>6. /\ OnAxis(k * view[1], <<j * n, e>>, k * point[1])
          /\ PixelsBefore(k * view[1], <<j * n, e>>, texture[1], k * point[1])
               = PixelsBefore(view[1], <<n, d>>, texture[1], point[1])
      BY <1>2, <3>3, <3>4, <3>5, ScaledLength
    <3>7. /\ OnAxis(k * view[2], <<k * view[2], 1>>, k * point[2])
          /\ PixelsBefore(k * view[2], <<k * view[2], 1>>, texture[2], k * point[2])
               = PixelsBefore(view[2], <<view[2], 1>>, texture[2], point[2])
      BY <1>2, <3>5, ScaledFullLength
    <3> QED
      BY <1>3, <3>1, <3>2, <3>6, <3>7 DEF OnPicture, Coordinate
  <2> QED
    BY <2>1, <2>2
<1>7. texture # <<0, 0>>
  BY <1>1 DEF Size, Positive
<1> HIDE DEF shown, quad
<1>8. PICK c : c = Coordinate(view, shown, texture, point)
  OBVIOUS
<1>9. PixelShown("fit", drawable, texture, there)
        = <<Least(c[1], texture[1] - 1), Least(c[2], texture[2] - 1)>>
  BY <1>6, <1>7, <1>8 DEF PixelShown, quad
<1> QED
  BY <1>1, <1>8, <1>9 DEF drawable, there

----------------------------------------------------------------------------
(* The state machine.  The button needs more than ButtonsKnown: an          *)
(* InputManager that is no longer bound cannot release it, so there must be *)
(* none to release.                                                         *)
UnboundHoldsNothing == link = "up" /\ ~bound => ~leftDown

IInv == TypeOK /\ ButtonsKnown /\ UnboundHoldsNothing /\ ScrollsTheWayPinched

(* What the remote side can have been sent last.                            *)
EventOK(e, c) ==
    \/ e = None /\ c = None
    \/ /\ e \in [kind : {"pointer"}, pixel : Nat \X Nat]
       /\ c \in [kind : {"touch"}, point : Point]
    \/ /\ e \in [kind : {"wheel"}, rotation : -255 .. 255]
       /\ c \in [kind : {"pinch"}, delta : Delta]

ScrollOK(e, c) ==
    e.kind = "wheel" =>
        /\ c.delta > 0 => e.rotation > 0
        /\ c.delta < 0 => e.rotation < 0
        /\ c.delta = 0 => e.rotation = 0

(* A point on the desktop gives a position, which is no wheel event.        *)
LEMMA PositionSent ==
    ASSUME TypeOK, NEW p \in Point, OnDesktop(p), NEW down \in BOOLEAN, SendAt(down, p)
    PROVE  /\ Reaches => leftDown' = down
           /\ ~Reaches => leftDown' = leftDown
           /\ EventOK(event', cause')
           /\ ScrollsTheWayPinched => ScrollOK(event', cause')
<1>1. p \in Int \X Int
  BY GestureAssumption
<1>2. picture.mode \in ScaleMode /\ picture.view \in Size
      /\ picture.texture \in Size \cup {<<0, 0>>}
  BY PictureAssumption DEF TypeOK, Size
<1>3. TextureCoordinate(p) \in Nat \X Nat
  BY <1>1, <1>2, ConversionTyped DEF OnDesktop, TextureCoordinate
<1>4. PICK c \in Nat \X Nat : c = TextureCoordinate(p)
  BY <1>3
<1>5. CASE Reaches
  <2>1. leftDown' = down /\ event' = Pointer(c) /\ cause' = Touch(p)
    BY <1>4, <1>5 DEF SendAt, Send
  <2> QED
    BY <1>5, <2>1 DEF EventOK, ScrollOK, Pointer, Touch
<1>6. CASE ~Reaches
  BY <1>6 DEF SendAt, Send, remoteVars, TypeOK, EventOK, ScrollOK, ScrollsTheWayPinched
<1> QED
  BY <1>5, <1>6

(* Nine bits hold what a pinch asks for, and its sign.                      *)
LEMMA RotationSigned ==
    ASSUME NEW delta \in Int
    PROVE  LET r == Rotation(WheelRotation(delta))
           IN /\ r \in -255 .. 255
              /\ delta > 0 => r > 0
              /\ delta < 0 => r < 0
              /\ delta = 0 => r = 0
BY DEF Rotation, WheelRotation, Least

LEMMA WheelSent ==
    ASSUME TypeOK, NEW delta \in Delta, NEW down \in BOOLEAN,
           Send(down, Wheel(Rotation(WheelRotation(delta))), Pinch(delta))
    PROVE  /\ Reaches => leftDown' = down
           /\ ~Reaches => leftDown' = leftDown
           /\ EventOK(event', cause')
           /\ ScrollsTheWayPinched => ScrollOK(event', cause')
<1>1. delta \in Int
  BY GestureAssumption
<1>2. PICK r : r = Rotation(WheelRotation(delta))
  OBVIOUS
<1>3. r \in -255 .. 255 /\ (delta > 0 => r > 0) /\ (delta < 0 => r < 0) /\ (delta = 0 => r = 0)
  BY <1>1, <1>2, RotationSigned
<1>4. CASE Reaches
  <2>1. leftDown' = down /\ event' = Wheel(r) /\ cause' = Pinch(delta)
    BY <1>2, <1>4 DEF Send
  <2> QED
    BY <1>3, <1>4, <2>1 DEF EventOK, ScrollOK, Wheel, Pinch
<1>5. CASE ~Reaches
  BY <1>5 DEF Send, remoteVars, TypeOK, EventOK, ScrollOK, ScrollsTheWayPinched
<1> QED
  BY <1>4, <1>5

LEMMA Initially == Init => IInv
<1> SUFFICES ASSUME Init PROVE IInv
  OBVIOUS
<1>1. TypeOK
  BY DEF Init, TypeOK, ScaleMode
<1>2. ButtonsKnown /\ UnboundHoldsNothing
  BY DEF Init, ButtonsKnown, UnboundHoldsNothing
<1>3. ScrollsTheWayPinched
  BY DEF Init, ScrollsTheWayPinched, None
<1> QED
  BY <1>1, <1>2, <1>3 DEF IInv

(* A gesture that moves the pointer or turns the wheel and leaves the       *)
(* button and the InputManager as they are.                                 *)
LEMMA ButtonLeftAlone ==
    ASSUME IInv, leftDown' = leftDown, EventOK(event', cause'), ScrollOK(event', cause'),
           UNCHANGED <<picture, link, managerVars, panning>>
    PROVE  IInv'
BY DEF IInv, TypeOK, EventOK, ScrollOK, ButtonsKnown, UnboundHoldsNothing,
       ScrollsTheWayPinched, managerVars

(* A gesture whose button events leave the tracking intact.                 *)
LEMMA Tracked ==
    ASSUME IInv, EventOK(event', cause'), ScrollOK(event', cause'),
           UNCHANGED <<picture, link, bound>>,
           isMouseDown' \in BOOLEAN, panning' \in BOOLEAN, leftDown' \in BOOLEAN,
           ButtonsKnown', UnboundHoldsNothing'
    PROVE  IInv'
<1>1. TypeOK'
  BY DEF IInv, TypeOK, EventOK
<1>2. ScrollsTheWayPinched'
  BY DEF ScrollOK, ScrollsTheWayPinched
<1> QED
  BY <1>1, <1>2 DEF IInv

LEMMA GesturePreserves == IInv /\ Gesture => IInv'
<1> SUFFICES ASSUME IInv, Gesture PROVE IInv'
  OBVIOUS
<1> USE DEF IInv
<1>1. leftDown \in BOOLEAN
  BY DEF TypeOK
<1>2. ASSUME NEW p \in Point, HandleTap(p) PROVE IInv'
  <2>1. OnDesktop(p) /\ SendAt(FALSE, p) /\ UNCHANGED <<picture, link, managerVars, panning>>
    BY <1>2 DEF HandleTap
  <2>2. /\ Reaches => leftDown' = FALSE
        /\ ~Reaches => leftDown' = leftDown
        /\ EventOK(event', cause') /\ ScrollOK(event', cause')
    BY <2>1, PositionSent
  <2> QED
    <3>1. isMouseDown' \in BOOLEAN /\ panning' \in BOOLEAN /\ leftDown' \in BOOLEAN
      BY <2>1, <2>2 DEF TypeOK, managerVars
    <3>2. ButtonsKnown' /\ UnboundHoldsNothing'
      BY <2>1, <2>2 DEF Reaches, ButtonsKnown, UnboundHoldsNothing, managerVars
    <3> QED
      BY <2>1, <2>2, <3>1, <3>2, Tracked DEF managerVars
<1>3. ASSUME NEW p \in Point, HandleLongPress(p) \/ PanMoves(p) PROVE IInv'
  <2>1. OnDesktop(p) /\ SendAt(leftDown, p) /\ UNCHANGED <<picture, link, managerVars, panning>>
    BY <1>3 DEF HandleLongPress, PanMoves
  <2>2. leftDown' = leftDown /\ EventOK(event', cause') /\ ScrollOK(event', cause')
    BY <1>1, <2>1, PositionSent
  <2> QED
    BY <2>1, <2>2, ButtonLeftAlone
<1>4. ASSUME NEW p \in Point, PanBegins(p) PROVE IInv'
  <2>1. panning' = TRUE /\ UNCHANGED <<picture, link, bound>>
    BY <1>4 DEF PanBegins
  <2>2. CASE OnDesktop(p)
    <3>1. isMouseDown' = TRUE /\ SendAt(TRUE, p)
      BY <1>4, <2>2 DEF PanBegins
    <3>2. /\ Reaches => leftDown' = TRUE
          /\ ~Reaches => leftDown' = leftDown
          /\ EventOK(event', cause') /\ ScrollOK(event', cause')
      BY <2>2, <3>1, PositionSent
    <3>3. isMouseDown' \in BOOLEAN /\ panning' \in BOOLEAN /\ leftDown' \in BOOLEAN
      BY <2>1, <3>1, <3>2 DEF TypeOK
    <3>4. ButtonsKnown' /\ UnboundHoldsNothing'
      BY <2>1, <3>1, <3>2 DEF Reaches, ButtonsKnown, UnboundHoldsNothing
    <3> QED
      BY <2>1, <3>2, <3>3, <3>4, Tracked
  <2>3. CASE ~OnDesktop(p)
    <3>1. UNCHANGED <<isMouseDown, leftDown, event, cause>>
      BY <1>4, <2>3 DEF PanBegins, remoteVars
    <3>2. EventOK(event', cause') /\ ScrollOK(event', cause')
      BY <3>1 DEF TypeOK, EventOK, ScrollOK, ScrollsTheWayPinched
    <3>3. isMouseDown' \in BOOLEAN /\ panning' \in BOOLEAN /\ leftDown' \in BOOLEAN
      BY <2>1, <3>1 DEF TypeOK
    <3>4. ButtonsKnown' /\ UnboundHoldsNothing'
      BY <2>1, <3>1 DEF ButtonsKnown, UnboundHoldsNothing
    <3> QED
      BY <2>1, <3>2, <3>3, <3>4, Tracked
  <2> QED
    BY <2>2, <2>3
<1>5. ASSUME NEW p \in Point, PanEnds(p) PROVE IInv'
  <2>1. panning' = FALSE /\ UNCHANGED <<picture, link, bound>>
    BY <1>5 DEF PanEnds
  <2>2. CASE OnDesktop(p)
    <3>1. isMouseDown' = FALSE /\ SendAt(FALSE, p)
      BY <1>5, <2>2 DEF PanEnds
    <3>2. /\ Reaches => leftDown' = FALSE
          /\ ~Reaches => leftDown' = leftDown
          /\ EventOK(event', cause') /\ ScrollOK(event', cause')
      BY <2>2, <3>1, PositionSent
    <3>3. isMouseDown' \in BOOLEAN /\ panning' \in BOOLEAN /\ leftDown' \in BOOLEAN
      BY <2>1, <3>1, <3>2 DEF TypeOK
    <3>4. ButtonsKnown' /\ UnboundHoldsNothing'
      BY <2>1, <3>1, <3>2 DEF Reaches, ButtonsKnown, UnboundHoldsNothing
    <3> QED
      BY <2>1, <3>2, <3>3, <3>4, Tracked
  <2>3. CASE ~OnDesktop(p)
    <3>1. UNCHANGED <<isMouseDown, leftDown, event, cause>>
      BY <1>5, <2>3 DEF PanEnds, remoteVars
    <3>2. EventOK(event', cause') /\ ScrollOK(event', cause')
      BY <3>1 DEF TypeOK, EventOK, ScrollOK, ScrollsTheWayPinched
    <3>3. isMouseDown' \in BOOLEAN /\ panning' \in BOOLEAN /\ leftDown' \in BOOLEAN
      BY <2>1, <3>1 DEF TypeOK
    <3>4. ButtonsKnown' /\ UnboundHoldsNothing'
      BY <2>1, <3>1 DEF ButtonsKnown, UnboundHoldsNothing
    <3> QED
      BY <2>1, <3>2, <3>3, <3>4, Tracked
  <2> QED
    BY <2>2, <2>3
<1>6. ASSUME NEW delta \in Delta, HandlePinch(delta) PROVE IInv'
  <2>1. Send(leftDown, Wheel(Rotation(WheelRotation(delta))), Pinch(delta))
        /\ UNCHANGED <<picture, link, managerVars, panning>>
    BY <1>6 DEF HandlePinch
  <2>2. leftDown' = leftDown /\ EventOK(event', cause') /\ ScrollOK(event', cause')
    BY <1>1, <2>1, WheelSent
  <2> QED
    BY <2>1, <2>2, ButtonLeftAlone
<1> QED
  BY <1>2, <1>3, <1>4, <1>5, <1>6 DEF Gesture

LEMMA EnvironmentPreserves == IInv /\ Environment => IInv'
<1> SUFFICES ASSUME IInv, Environment PROVE IInv'
  OBVIOUS
<1> USE DEF IInv, TypeOK, ButtonsKnown, UnboundHoldsNothing, ScrollsTheWayPinched,
            managerVars, remoteVars
<1>1. ASSUME NEW view \in View, ViewResized(view) PROVE IInv'
  BY <1>1 DEF ViewResized
<1>2. ASSUME NEW texture \in Texture, CreateTexture(texture) PROVE IInv'
  BY <1>2 DEF CreateTexture
<1>3. ASSUME NEW mode \in ScaleMode, SetScaleMode(mode) PROVE IInv'
  BY <1>3 DEF SetScaleMode
<1>4. ASSUME CanvasReplaced PROVE IInv'
  BY <1>4 DEF CanvasReplaced
<1>5. ASSUME SessionConnected PROVE IInv'
  BY <1>5 DEF SessionConnected
<1>6. ASSUME LinkLost PROVE IInv'
  BY <1>6 DEF LinkLost
<1>7. ASSUME SessionDisconnected PROVE IInv'
  BY <1>7 DEF SessionDisconnected
<1>8. ASSUME ViewModelDisconnect PROVE IInv'
  BY <1>8 DEF ViewModelDisconnect
<1>9. ASSUME DrawableSizeWillChange PROVE IInv'
  BY <1>9 DEF DrawableSizeWillChange
<1> QED
  BY <1>1, <1>2, <1>3, <1>4, <1>5, <1>6, <1>7, <1>8, <1>9 DEF Environment

LEMMA StepPreserves == IInv /\ [Next]_vars => IInv'
<1> SUFFICES ASSUME IInv, [Next]_vars PROVE IInv'
  OBVIOUS
<1>1. CASE UNCHANGED vars
  BY <1>1 DEF IInv, TypeOK, ButtonsKnown, UnboundHoldsNothing, ScrollsTheWayPinched,
              vars, managerVars, remoteVars
<1> QED
  BY <1>1, GesturePreserves, EnvironmentPreserves DEF Next

(* The inductive invariant holds in every reachable state.                  *)
THEOREM Invariance == Spec => []IInv
<1>1. Init => IInv
  BY Initially
<1>2. IInv /\ [Next]_vars => IInv'
  BY StepPreserves
<1> QED
  BY <1>1, <1>2, PTL DEF Spec

(* Every variable keeps its type; no coordinate sent is negative.           *)
THEOREM TypeCorrectness == Spec => []TypeOK
<1>1. IInv => TypeOK
  BY DEF IInv
<1> QED
  BY <1>1, Invariance, PTL

(* The InputManager knows of a button the remote side holds down.           *)
THEOREM ButtonsTracked == Spec => []ButtonsKnown
<1>1. IInv => ButtonsKnown
  BY DEF IInv
<1> QED
  BY <1>1, Invariance, PTL

(* A pinch of any size scrolls the way it was made.                         *)
THEOREM ScrollDirection == Spec => []ScrollsTheWayPinched
<1>1. IInv => ScrollsTheWayPinched
  BY DEF IInv
<1> QED
  BY <1>1, Invariance, PTL

(* Fitted to the window, the remote pointer goes to the pixel under the     *)
(* finger, for every size of the view and of the desktop and every scale of *)
(* the display, once the drawable is as large as the view.                  *)
THEOREM PointerFollowsFinger == Spec => PointerUnderFinger
<1> DEFINE Follows ==
       event' # event /\ event'.kind = "pointer"
       /\ picture.mode = "fit" /\ DrawableFollowsView =>
          LET seen == PixelShown("fit", picture.drawable, picture.texture,
                                 Scaled(ContentScale, cause'.point))
          IN \A axis \in {1, 2} :
                seen[axis] = Least(event'.pixel[axis], picture.texture[axis] - 1)
<1>1. TypeOK /\ [Next]_vars => [Follows]_vars
  <2> SUFFICES ASSUME TypeOK, Next, event' # event, event'.kind = "pointer",
                      picture.mode = "fit", DrawableFollowsView
               PROVE  Follows
    BY DEF vars, remoteVars
  <2>1. ASSUME NEW p \in Point, NEW down, OnDesktop(p), SendAt(down, p) PROVE Follows
    <3>1. event' = Pointer(TextureCoordinate(p)) /\ cause' = Touch(p)
      BY <2>1 DEF SendAt, Send, remoteVars
    <3>2. PICK c : c = TextureCoordinate(p)
      OBVIOUS
    <3>3. event'.pixel = c /\ cause'.point = p
      BY <3>1, <3>2 DEF Pointer, Touch
    <3>4. p \in Int \X Int /\ picture.view \in Size /\ picture.texture \in Size \cup {<<0, 0>>}
      BY PictureAssumption, GestureAssumption DEF TypeOK, Size
    <3>5. PICK view \in Size, texture \in Size \cup {<<0, 0>>} :
             view = picture.view /\ texture = picture.texture
      BY <3>4
    <3>6. c = ViewToTexture("fit", view, texture, p) /\ c # NoPixel
      BY <2>1, <3>2, <3>5 DEF TextureCoordinate, OnDesktop
    <3>7. \A axis \in {1, 2} :
             PixelShown("fit", Scaled(ContentScale, view), texture, Scaled(ContentScale, p))[axis]
               = Least(c[axis], texture[axis] - 1)
      BY <3>4, <3>6, PictureAssumption, FittedPointIsPixelShown
    <3> QED
      BY <3>3, <3>5, <3>7 DEF DrawableFollowsView
  <2>2. ASSUME NEW p \in Point,
               HandleTap(p) \/ HandleLongPress(p) \/ PanBegins(p) \/ PanMoves(p) \/ PanEnds(p)
        PROVE  \E down : OnDesktop(p) /\ SendAt(down, p)
    BY <2>2 DEF HandleTap, HandleLongPress, PanBegins, PanMoves, PanEnds, remoteVars
  <2>3. ASSUME NEW delta \in Delta, HandlePinch(delta) PROVE FALSE
    BY <2>3 DEF HandlePinch, Send, Wheel, remoteVars
  <2>4. ~Environment
    BY DEF Environment, ViewResized, DrawableSizeWillChange, CreateTexture,
           SetScaleMode, CanvasReplaced, SessionConnected, LinkLost, SessionDisconnected,
           ViewModelDisconnect, remoteVars
  <2> QED
    BY <2>1, <2>2, <2>3, <2>4 DEF Next, Gesture
<1> QED
  BY <1>1, TypeCorrectness, PTL DEF Spec, PointerUnderFinger

=============================================================================
