---------------------------- MODULE PointerInput ----------------------------
(****************************************************************************)
(* From a gesture on the canvas to the mouse of the remote side.  The       *)
(* canvas's coordinator converts the gesture's point, the InputManager      *)
(* turns the gesture into mouse events, the session forwards them while it  *)
(* is connected, the C layer encodes them, and the remote side gets them if *)
(* the link is up.  Meanwhile the picture, the session and the binding of   *)
(* the InputManager change under the gesture.                               *)
(*                                                                          *)
(* Everything here runs on the main thread: a handler is one step.  UIKit   *)
(* recognises one gesture at a time.                                        *)
(****************************************************************************)
EXTENDS Viewport

CONSTANTS
    View,           \* sizes of the view, in points
    ContentScale,   \* pixels of the drawable to a point of the view
    Texture,        \* sizes of the renderer's texture
    Point,          \* where a finger can be; a pan may leave the view
    Delta           \* what (scale - 1) * 120 of a pinch truncates to

Positive == Nat \ {0}

ASSUME PictureAssumption ==
    /\ View \subseteq Positive \X Positive /\ Texture \subseteq Positive \X Positive
    /\ ContentScale \in Positive
ASSUME GestureAssumption == Point \subseteq Int \X Int /\ Delta \subseteq Int

VARIABLES
    picture,        \* the view's bounds, the size the renderer was told of its
                    \* drawable, the texture's (<<0, 0>>: none), the scale mode
    link,           \* "down"; "up"; "lost": the session does not know yet
    bound,          \* InputManager.session is set
    isMouseDown,    \* InputManager.isMouseDown
    panning,        \* a pan gesture is under way
    leftDown,       \* the remote side's left button
    event,          \* the last mouse event that reached the remote side
    cause           \* the gesture it came from (history)

managerVars == <<bound, isMouseDown>>
remoteVars == <<leftDown, event, cause>>
vars == <<picture, link, managerVars, panning, remoteVars>>

None == [kind |-> "none"]
Pointer(pixel) == [kind |-> "pointer", pixel |-> pixel]
Wheel(rotation) == [kind |-> "wheel", rotation |-> rotation]
Touch(point) == [kind |-> "touch", point |-> point]
Pinch(delta) == [kind |-> "pinch", delta |-> delta]

Init ==
    /\ picture \in [view : View, drawable : {<<0, 0>>}, texture : {<<0, 0>>}, mode : {"fit"}]
    /\ link = "down"
    /\ bound = TRUE
    /\ isMouseDown = FALSE
    /\ panning = FALSE
    /\ leftDown = FALSE
    /\ event = None
    /\ cause = None

----------------------------------------------------------------------------
(* The C layer and the remote side.                                         *)

(* Mutant: the magnitude is masked, not limited.                            *)
WheelRotationMasked(delta) ==
    IF delta < 0 THEN 256 + ((-delta) % 256) ELSE delta % 256

(* viDesk_sendMouseWheel: the low nine bits of the flags, a sign flag and a *)
(* magnitude.                                                               *)
WheelRotation(delta) ==
    IF delta < 0 THEN 256 + Least(-delta, 255) ELSE Least(delta, 255)

(* The remote side takes the nine bits for a number in two's complement.    *)
Rotation(bits) == IF bits < 256 THEN bits ELSE bits - 512

(* RDPSession forwards what it is given while it is connected; what is      *)
(* written to a link that is lost reaches no one.                           *)
Reaches == bound /\ link = "up"

Send(down, e, c) ==
    IF Reaches
    THEN leftDown' = down /\ event' = e /\ cause' = c
    ELSE UNCHANGED remoteVars

----------------------------------------------------------------------------
(* The coordinator's handlers.  A gesture whose point is not on the picture *)
(* goes no further.                                                         *)

TextureCoordinate(point) ==
    ViewToTexture(picture.mode, picture.view, picture.texture, point)

OnDesktop(point) == TextureCoordinate(point) # NoPixel

SendAt(down, point) == Send(down, Pointer(TextureCoordinate(point)), Touch(point))

(* handleTap, handleDoubleTap: press and release of the left button, once   *)
(* or twice.                                                                *)
HandleTap(point) ==
    /\ ~panning
    /\ OnDesktop(point)
    /\ SendAt(FALSE, point)
    /\ UNCHANGED <<picture, link, managerVars, panning>>

(* handleLongPress: press and release of the right button.                  *)
HandleLongPress(point) ==
    /\ ~panning
    /\ OnDesktop(point)
    /\ SendAt(leftDown, point)
    /\ UNCHANGED <<picture, link, managerVars, panning>>

(* handlePan, .began.                                                       *)
PanBegins(point) ==
    /\ ~panning
    /\ panning' = TRUE
    /\ IF OnDesktop(point)
       THEN isMouseDown' = TRUE /\ SendAt(TRUE, point)
       ELSE UNCHANGED <<isMouseDown, remoteVars>>
    /\ UNCHANGED <<picture, link, bound>>

(* handlePan, .changed.                                                     *)
PanMoves(point) ==
    /\ panning
    /\ OnDesktop(point)
    /\ SendAt(leftDown, point)
    /\ UNCHANGED <<picture, link, managerVars, panning>>

(* Mutant: off the picture the drag is over for the InputManager alone.     *)
PanEndsLocally(point) ==
    /\ panning
    /\ panning' = FALSE
    /\ isMouseDown' = FALSE
    /\ IF OnDesktop(point)
       THEN SendAt(FALSE, point)
       ELSE UNCHANGED remoteVars
    /\ UNCHANGED <<picture, link, bound>>

(* handlePan, .ended and .cancelled: off the picture endDrag is not called. *)
PanEnds(point) ==
    /\ panning
    /\ panning' = FALSE
    /\ IF OnDesktop(point)
       THEN isMouseDown' = FALSE /\ SendAt(FALSE, point)
       ELSE UNCHANGED <<isMouseDown, remoteVars>>
    /\ UNCHANGED <<picture, link, bound>>

(* handlePinch, .ended.                                                     *)
HandlePinch(delta) ==
    /\ ~panning
    /\ Send(leftDown, Wheel(Rotation(WheelRotation(delta))), Pinch(delta))
    /\ UNCHANGED <<picture, link, managerVars, panning>>

Gesture ==
    \/ \E p \in Point :
          \/ HandleTap(p) \/ HandleLongPress(p)
          \/ PanBegins(p) \/ PanMoves(p) \/ PanEnds(p)
    \/ \E delta \in Delta : HandlePinch(delta)

----------------------------------------------------------------------------
(* What changes under a gesture.                                            *)

(* The view gets new bounds.  A gesture's point is converted with these.    *)
ViewResized(view) ==
    /\ picture' = [picture EXCEPT !.view = view]
    /\ UNCHANGED <<link, managerVars, panning, remoteVars>>

(* mtkView(drawableSizeWillChange:): the quad is placed by the size of the  *)
(* drawable, which follows the bounds when the view is laid out.            *)
DrawableSizeWillChange ==
    /\ picture' = [picture EXCEPT !.drawable = Scaled(ContentScale, picture.view)]
    /\ UNCHANGED <<link, managerVars, panning, remoteVars>>

(* createTexture, setScaleMode.                                             *)
CreateTexture(texture) ==
    /\ link = "up"
    /\ picture' = [picture EXCEPT !.texture = texture]
    /\ UNCHANGED <<link, managerVars, panning, remoteVars>>

SetScaleMode(mode) ==
    /\ picture' = [picture EXCEPT !.mode = mode]
    /\ UNCHANGED <<link, managerVars, panning, remoteVars>>

(* While an error is shown there is no canvas; the one after it has a       *)
(* renderer of its own, which has been told of no size.  A pan is cancelled *)
(* first.                                                                   *)
CanvasReplaced ==
    /\ link = "down" /\ ~panning
    /\ picture' = [picture EXCEPT !.drawable = <<0, 0>>, !.texture = <<0, 0>>]
    /\ UNCHANGED <<link, managerVars, panning, remoteVars>>

(* The session connects, for the first time or again: automatically, even   *)
(* after the user's disconnect.  The remote side starts with no button down.*)
SessionConnected ==
    /\ link = "down"
    /\ link' = "up"
    /\ leftDown' = FALSE
    /\ UNCHANGED <<picture, managerVars, panning, event, cause>>

LinkLost ==
    /\ link = "up"
    /\ link' = "lost"
    /\ UNCHANGED <<picture, managerVars, panning, remoteVars>>

(* The session leaves connected without the view model's disconnect.        *)
SessionDisconnected ==
    /\ link # "down"
    /\ link' = "down"
    /\ UNCHANGED <<picture, managerVars, panning, remoteVars>>

(* RemoteDesktopViewModel.disconnect: nothing binds the InputManager again. *)
ViewModelDisconnect ==
    /\ link' = "down"
    /\ bound' = FALSE
    /\ UNCHANGED <<picture, isMouseDown, panning, remoteVars>>

Environment ==
    \/ (\E view \in View : ViewResized(view)) \/ DrawableSizeWillChange
    \/ \E texture \in Texture : CreateTexture(texture)
    \/ \E mode \in ScaleMode : SetScaleMode(mode)
    \/ CanvasReplaced
    \/ SessionConnected \/ LinkLost \/ SessionDisconnected \/ ViewModelDisconnect

Next == Gesture \/ Environment

Spec == Init /\ [][Next]_vars

----------------------------------------------------------------------------
(* What has to hold.                                                        *)

(* Every variable has the values the code can give it: a coordinate is not  *)
(* negative.                                                                *)
TypeOK ==
    /\ picture \in [view : View, drawable : {Scaled(ContentScale, v) : v \in View} \cup {<<0, 0>>},
                    texture : Texture \cup {<<0, 0>>}, mode : ScaleMode]
    /\ link \in {"down", "up", "lost"}
    /\ {bound, isMouseDown, panning, leftDown} \subseteq BOOLEAN
    /\ \/ event = None /\ cause = None
       \/ /\ event \in [kind : {"pointer"}, pixel : Nat \X Nat]
          /\ cause \in [kind : {"touch"}, point : Point]
       \/ /\ event \in [kind : {"wheel"}, rotation : -255 .. 255]
          /\ cause \in [kind : {"pinch"}, delta : Delta]

(* A button that is down on the remote side is one the InputManager knows   *)
(* it has left down: no gesture, lost event or reconnection loses track of  *)
(* it.                                                                      *)
ButtonsKnown == link = "up" /\ leftDown => isMouseDown

(* A pinch scrolls the way it was made, however far.                        *)
ScrollsTheWayPinched ==
    event.kind = "wheel" =>
        /\ cause.delta > 0 => event.rotation > 0
        /\ cause.delta < 0 => event.rotation < 0
        /\ cause.delta = 0 => event.rotation = 0

(* The drawable is as large as the view.                                    *)
DrawableFollowsView == picture.drawable = Scaled(ContentScale, picture.view)

(* Fitted to the window, and with the drawable as large as the view, the    *)
(* remote pointer is at the pixel the user touches; at the far edge of the  *)
(* picture it may be one beyond the last.  The point is converted in the    *)
(* view's points, the picture is drawn in the drawable's pixels.            *)
PointerUnderFinger ==
    [][event' # event /\ event'.kind = "pointer"
       /\ picture.mode = "fit" /\ DrawableFollowsView =>
          LET seen == PixelShown("fit", picture.drawable, picture.texture,
                                 Scaled(ContentScale, cause'.point))
          IN \A axis \in {1, 2} :
                seen[axis] = Least(event'.pixel[axis], picture.texture[axis] - 1)]_vars

(* README.md, the table of gestures: pinch and move is a mouse drag.  When  *)
(* the pan is over, so is the drag.                                         *)
DragEnds == link = "up" /\ ~panning => ~leftDown

=============================================================================
