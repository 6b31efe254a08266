--------------------------- MODULE FramePipeline ---------------------------
(****************************************************************************)
(* How a pixel gets from the remote screen to the texture.  FreeRDP paints  *)
(* into its primary buffer on the event loop's thread and reports what it   *)
(* has painted; the main actor copies the reported rectangle into the       *)
(* session's FrameBuffer, which remembers it as dirty; the renderer, drawing *)
(* on the main thread, uploads what is dirty.  A resize replaces the        *)
(* primary buffer at once, the FrameBuffer when its notification is         *)
(* handled, and the texture when SwiftUI next updates the view.             *)
(*                                                                          *)
(* A rectangle is the set of its pixels.  The two tasks of a notification   *)
(* are one entry of mainq: they keep the order of the notifications, and    *)
(* how long they take is left open.                                         *)
(****************************************************************************)
EXTENDS Integers, Sequences

CONSTANTS
    Size,           \* sizes of the remote desktop, as <<width, height>>
    Colour,         \* what a pixel can be painted
    Blank,          \* what a pixel holds before it is painted: zeros
    Junk,           \* what a copy leaves that reads the wrong memory
    Buffer,         \* FrameBuffer objects; one no one refers to is used again
    NoBuffer,       \* nil
    MaxChanges,     \* bound: paints and resizes the remote side makes unasked
    MaxConnects,    \* bound: connections
    MaxQueue        \* bound: notifications under way

ASSUME SizeAssumption == Size \subseteq (Nat \ {0}) \X (Nat \ {0})
ASSUME ColourAssumption == Blank \notin Colour /\ Junk \notin Colour \cup {Blank}
ASSUME BufferAssumption ==
    /\ NoBuffer \notin Buffer
    /\ \A b \in Buffer \cup {NoBuffer} : \E other \in Buffer : other # b
ASSUME BoundAssumption == MaxChanges \in Nat /\ MaxConnects \in Nat /\ MaxQueue \in Nat

Pixels(size) == (0 .. size[1] - 1) \X (0 .. size[2] - 1)

Rects(size) ==
    {(x1 .. x2) \X (y1 .. y2) : x1, x2 \in 0 .. size[1] - 1, y1, y2 \in 0 .. size[2] - 1}
        \ {{}}

Content == Colour \cup {Blank, Junk}

Image(size) == [size : {size}, pixels : [Pixels(size) -> Content]]
BlankImage(size) == [size |-> size, pixels |-> [p \in Pixels(size) |-> Blank]]

(* FrameBuffer.init: zeros, and nothing to upload.                          *)
BlankBuffer(size) ==
    [size |-> size, pixels |-> [p \in Pixels(size) |-> Blank], dirty |-> {}]

(* A frame size read between the two stores of a resize may mix two sizes.  *)
MixedSize == {<<s[1], t[2]>> : s, t \in Size}

NoImage == BlankImage(<<0, 0>>)

VARIABLES
    primary,        \* FreeRDP's primary buffer, NoImage without a gdi
    owed,           \* pixels the remote side has yet to send after a resize
    thread,         \* where the connect or event-loop thread is
    ctx,            \* the frame fields of ViDeskContext
    mainq,          \* notifications the main actor has yet to handle
    frameBuffer,    \* the session's FrameBuffer, or nil
    buffers,        \* the FrameBuffer objects
    shown,          \* the FrameBuffer the renderer holds, or nil
    texture,        \* the renderer's texture, NoImage before there is one
    changes, connects

remoteVars == <<primary, owed, thread, ctx>>
sessionVars == <<frameBuffer, buffers>>
rendererVars == <<shown, texture>>
vars == <<remoteVars, mainq, sessionVars, rendererVars, changes, connects>>

----------------------------------------------------------------------------
(* The thread's records.  While it paints, a pixel of the rectangle holds   *)
(* the old colour or the new one, and whoever copies may get either.        *)

At(pc) == [pc |-> pc, rect |-> {}, colour |-> Blank]
Painting(rect, colour) == [pc |-> "painting", rect |-> rect, colour |-> colour]

(* Inside viDesk_DesktopResize, after gdi_resize.                           *)
Resizing == {"resized", "widthStored", "heightStored", "stored"}

(* The notifications: a rectangle was painted, the desktop has a new size.  *)
FrameUpdate(rect) == [kind |-> "frame", rect |-> rect]
DesktopResize == [kind |-> "resize", rect |-> {}]

Init ==
    /\ primary = NoImage
    /\ owed = {}
    /\ thread = At("off")
    /\ ctx = [frameBuffer |-> "null", size |-> <<0, 0>>]
    /\ mainq = <<>>
    /\ frameBuffer = NoBuffer
    /\ buffers = [b \in Buffer |-> BlankBuffer(<<0, 0>>)]
    /\ shown = NoBuffer
    /\ texture = NoImage
    /\ changes = 0
    /\ connects = 0

----------------------------------------------------------------------------
(* The connection's threads.                                                *)

(* There is a gdi, with a primary buffer.                                   *)
HasGdi == primary.size # <<0, 0>>

(* viDesk_PostConnect: gdi_init, then the frame fields.                     *)
PostConnect(size) ==
    /\ thread.pc = "off" /\ ~HasGdi
    /\ connects < MaxConnects
    /\ connects' = connects + 1
    /\ primary' = BlankImage(size)
    /\ owed' = Pixels(size)
    /\ ctx' = [frameBuffer |-> "primary", size |-> size]
    /\ thread' = At("connected")
    /\ UNCHANGED <<mainq, sessionVars, rendererVars, changes>>

(* FreeRDP decodes a rectangle into the primary buffer.  What it owes after *)
(* a resize it sends without being asked; anything else is a change.        *)
PaintBegins(rect, colour) ==
    /\ thread.pc = "idle" /\ HasGdi
    /\ Len(mainq) < MaxQueue
    /\ \/ rect \cap owed # {} /\ changes' = changes
       \/ rect \cap owed = {} /\ changes < MaxChanges /\ changes' = changes + 1
    /\ thread' = Painting(rect, colour)
    /\ UNCHANGED <<primary, owed, ctx, mainq, sessionVars, rendererVars, connects>>

PaintEnds ==
    /\ thread.pc = "painting" /\ HasGdi
    /\ primary' = [primary EXCEPT !.pixels =
                      [p \in DOMAIN @ |-> IF p \in thread.rect THEN thread.colour ELSE @[p]]]
    /\ owed' = owed \ thread.rect
    /\ thread' = [thread EXCEPT !.pc = "painted"]
    /\ UNCHANGED <<ctx, mainq, sessionVars, rendererVars, changes, connects>>

(* Mutant: nothing is reported while the main actor is behind.              *)
EndPaintUnlessBusy ==
    /\ thread.pc = "painted" /\ HasGdi
    /\ ctx' = [ctx EXCEPT !.frameBuffer = "primary"]
    /\ mainq' = IF mainq = <<>> THEN <<FrameUpdate(thread.rect)>> ELSE mainq
    /\ thread' = At("idle")
    /\ UNCHANGED <<primary, owed, sessionVars, rendererVars, changes, connects>>

(* viDesk_EndPaint.                                                         *)
EndPaint ==
    /\ thread.pc = "painted" /\ HasGdi
    /\ ctx' = [ctx EXCEPT !.frameBuffer = "primary"]
    /\ mainq' = Append(mainq, FrameUpdate(thread.rect))
    /\ thread' = At("idle")
    /\ UNCHANGED <<primary, owed, sessionVars, rendererVars, changes, connects>>

(* viDesk_DesktopResize begins with gdi_resize, which keeps the primary     *)
(* buffer when the size is the one it has; otherwise it frees the old one,  *)
(* to which ctx still points.  The remote side sends the whole desktop      *)
(* again.                                                                   *)
GdiResize(size) ==
    /\ thread.pc = "idle" /\ HasGdi
    /\ Len(mainq) < MaxQueue
    /\ changes < MaxChanges
    /\ changes' = changes + 1
    /\ IF size = primary.size
       THEN UNCHANGED <<primary, ctx>>
       ELSE primary' = BlankImage(size) /\ ctx' = [ctx EXCEPT !.frameBuffer = "freed"]
    /\ owed' = Pixels(size)
    /\ thread' = At("resized")
    /\ UNCHANGED <<mainq, sessionVars, rendererVars, connects>>

(* gdi_resize gets no memory: there is no primary buffer any more, FreeRDP  *)
(* fails, and the event loop ends.                                          *)
GdiResizeFails ==
    /\ thread.pc = "idle" /\ HasGdi
    /\ changes < MaxChanges
    /\ changes' = changes + 1
    /\ primary' = NoImage
    /\ owed' = {}
    /\ ctx' = [ctx EXCEPT !.frameBuffer = "freed"]
    /\ thread' = At("failed")
    /\ UNCHANGED <<mainq, sessionVars, rendererVars, connects>>

(* Then the width, the height and the pointer are stored one after another. *)
FrameWidthStored ==
    /\ thread.pc = "resized" /\ HasGdi
    /\ ctx' = [ctx EXCEPT !.size[1] = primary.size[1]]
    /\ thread' = At("widthStored")
    /\ UNCHANGED <<primary, owed, mainq, sessionVars, rendererVars, changes, connects>>

FrameHeightStored ==
    /\ thread.pc = "widthStored" /\ HasGdi
    /\ ctx' = [ctx EXCEPT !.size[2] = primary.size[2]]
    /\ thread' = At("heightStored")
    /\ UNCHANGED <<primary, owed, mainq, sessionVars, rendererVars, changes, connects>>

FramePointerStored ==
    /\ thread.pc = "heightStored" /\ HasGdi
    /\ ctx' = [ctx EXCEPT !.frameBuffer = "primary"]
    /\ thread' = At("stored")
    /\ UNCHANGED <<primary, owed, mainq, sessionVars, rendererVars, changes, connects>>

(* notifyDesktopResize.                                                     *)
ResizeReported ==
    /\ thread.pc = "stored" /\ HasGdi
    /\ mainq' = Append(mainq, DesktopResize)
    /\ thread' = At("idle")
    /\ UNCHANGED <<primary, owed, ctx, sessionVars, rendererVars, changes, connects>>

(* The main thread has freed the gdi under the thread.  It leaves at the    *)
(* next test of context->gdi, or is past that test and stores and reports   *)
(* what it finds where the gdi was.                                         *)
LeavesFreedGdi ==
    /\ thread.pc \notin {"off", "connected", "failed"} /\ ~HasGdi
    /\ thread' = At("off")
    /\ \/ UNCHANGED <<ctx, mainq>>
       \/ /\ thread.pc \in {"painting", "painted"}
          /\ ctx' = [ctx EXCEPT !.frameBuffer = "freed"]
          /\ mainq' = Append(mainq, FrameUpdate(thread.rect))
       \/ /\ thread.pc \in Resizing
          /\ \E size \in MixedSize : ctx' = [frameBuffer |-> "freed", size |-> size]
          /\ mainq' = Append(mainq, DesktopResize)
    /\ UNCHANGED <<primary, owed, sessionVars, rendererVars, changes, connects>>

Thread ==
    \/ PaintEnds \/ EndPaint
    \/ FrameWidthStored \/ FrameHeightStored \/ FramePointerStored \/ ResizeReported
    \/ LeavesFreedGdi

----------------------------------------------------------------------------
(* The session, on the main actor.                                          *)

(* An object the renderer does not hold: the session lets go of its own.    *)
Unused == CHOOSE b \in Buffer : b # shown

(* initializeFrameBuffer: a FrameBuffer of the size the C layer has now,    *)
(* filled with zeros and with nothing dirty.                                *)
InitializeFrameBuffer ==
    /\ frameBuffer' = Unused
    /\ buffers' = [buffers EXCEPT ![Unused] = BlankBuffer(ctx.size)]

(* Mutant: a FrameBuffer that is there already is kept.                     *)
SessionConnectedKeepingBuffer ==
    /\ thread.pc = "connected"
    /\ IF frameBuffer = NoBuffer THEN InitializeFrameBuffer ELSE UNCHANGED sessionVars
    /\ thread' = At("idle")
    /\ UNCHANGED <<primary, owed, ctx, mainq, rendererVars, changes, connects>>

(* performConnect after its await: the event loop starts.                   *)
SessionConnected ==
    /\ thread.pc = "connected"
    /\ InitializeFrameBuffer
    /\ thread' = At("idle")
    /\ UNCHANGED <<primary, owed, ctx, mainq, rendererVars, changes, connects>>

(* What a copy of rect from ctx's pointer may leave in pixel p of a buffer  *)
(* that is size large.  The source is read with the buffer's own row        *)
(* length: unless the widths agree and the row exists, what is read is not  *)
(* the pixel, and may lie beyond the end.                                   *)
Copied(size, p) ==
    IF ctx.frameBuffer = "primary" /\ size[1] = primary.size[1] /\ p \in Pixels(primary.size)
    THEN IF thread.pc = "painting" /\ p \in thread.rect
         THEN {primary.pixels[p], thread.colour}
         ELSE {primary.pixels[p]}
    ELSE {Junk}

Copies(size, rect) == {f \in [rect -> Content] : \A p \in rect : f[p] \in Copied(size, p)}

(* Mutant: the rectangle is copied and not remembered as dirty if some of   *)
(* it is dirty already.                                                     *)
DirtyUnlessOverlapping(dirty, rect) ==
    IF \E r \in dirty : r \cap rect # {} THEN dirty ELSE dirty \cup {rect}

Dirty(dirty, rect) == dirty \cup {rect}

(* FrameBuffer.update, with a bounds check of its own.                      *)
Updated(buffer, rect, copy) ==
    IF rect \subseteq Pixels(buffer.size)
    THEN [buffer EXCEPT !.pixels = [p \in DOMAIN @ |-> IF p \in rect THEN copy[p] ELSE @[p]],
                        !.dirty = Dirty(@, rect)]
    ELSE buffer

(* handleFrameUpdate: a rectangle that does not fit the session's buffer is *)
(* skipped.                                                                 *)
HandleFrameUpdate ==
    /\ mainq # <<>> /\ Head(mainq).kind = "frame"
    /\ mainq' = Tail(mainq)
    /\ LET rect == Head(mainq).rect IN
       IF frameBuffer # NoBuffer /\ ctx.frameBuffer # "null"
              /\ rect \subseteq Pixels(buffers[frameBuffer].size)
       THEN \E copy \in Copies(buffers[frameBuffer].size, rect) :
               buffers' = [buffers EXCEPT ![frameBuffer] = Updated(@, rect, copy)]
       ELSE buffers' = buffers
    /\ UNCHANGED <<remoteVars, frameBuffer, rendererVars, changes, connects>>

(* Mutant: the buffer is resized in place and its dirty regions are kept.   *)
HandleDesktopResizeInPlace ==
    /\ mainq # <<>> /\ Head(mainq).kind = "resize"
    /\ mainq' = Tail(mainq)
    /\ IF frameBuffer = NoBuffer
       THEN InitializeFrameBuffer
       ELSE /\ frameBuffer' = frameBuffer
            /\ buffers' = [buffers EXCEPT ![frameBuffer] =
                              [BlankBuffer(ctx.size) EXCEPT !.dirty = buffers[frameBuffer].dirty]]
    /\ UNCHANGED <<remoteVars, rendererVars, changes, connects>>

(* handleDesktopResize.                                                     *)
HandleDesktopResize ==
    /\ mainq # <<>> /\ Head(mainq).kind = "resize"
    /\ mainq' = Tail(mainq)
    /\ InitializeFrameBuffer
    /\ UNCHANGED <<remoteVars, rendererVars, changes, connects>>

(* disconnect: freerdp_disconnect runs PostDisconnect on the main thread,   *)
(* which frees the gdi wherever the event loop's thread is.                 *)
Disconnect ==
    /\ HasGdi \/ thread.pc = "failed"
    /\ primary' = NoImage
    /\ owed' = {}
    /\ ctx' = [ctx EXCEPT !.frameBuffer = "null"]
    /\ frameBuffer' = NoBuffer
    /\ thread' = IF thread.pc = "failed" THEN At("off") ELSE thread
    /\ UNCHANGED <<mainq, buffers, rendererVars, changes, connects>>

----------------------------------------------------------------------------
(* The renderer, on the main thread.                                        *)

(* Mutant: a texture is good enough if one side has the right length.       *)
NeedsTextureIfBothDiffer(size) ==
    texture.size[1] # size[1] /\ texture.size[2] # size[2]

(* The guard of createTexture: a texture of the right size is kept, and     *)
(* with it the picture of the buffer before.                                *)
NeedsTexture(size) ==
    texture.size[1] # size[1] \/ texture.size[2] # size[2]

(* SwiftUI calls updateUIView because the session's frameBuffer has         *)
(* changed.  No one refers to the one that was shown any more.              *)
UpdateUIView ==
    /\ shown # frameBuffer
    /\ shown' = frameBuffer
    /\ texture' = IF frameBuffer # NoBuffer /\ NeedsTexture(buffers[frameBuffer].size)
                  THEN BlankImage(buffers[frameBuffer].size)
                  ELSE texture
    /\ buffers' = [b \in Buffer |-> IF b = shown THEN BlankBuffer(<<0, 0>>) ELSE buffers[b]]
    /\ UNCHANGED <<remoteVars, mainq, frameBuffer, changes, connects>>

(* draw calls updateTexture: the dirty regions are taken off the buffer and *)
(* what it holds there now is uploaded.                                     *)
Draw ==
    /\ shown # NoBuffer
    /\ buffers[shown].dirty # {}
    /\ texture' = [texture EXCEPT !.pixels =
          [p \in DOMAIN @ |-> IF \E r \in buffers[shown].dirty : p \in r
                              THEN buffers[shown].pixels[p] ELSE @[p]]]
    /\ buffers' = [buffers EXCEPT ![shown].dirty = {}]
    /\ UNCHANGED <<remoteVars, mainq, frameBuffer, shown, changes, connects>>

----------------------------------------------------------------------------
Next ==
    \/ \E size \in Size : PostConnect(size) \/ GdiResize(size)
    \/ \E rect \in Rects(primary.size), colour \in Colour : PaintBegins(rect, colour)
    \/ GdiResizeFails
    \/ Thread
    \/ SessionConnected \/ HandleFrameUpdate \/ HandleDesktopResize \/ Disconnect
    \/ UpdateUIView \/ Draw

Spec == Init /\ [][Next]_vars

(* What was owed is painted: the remote side repaints a desktop it has      *)
(* resized.                                                                 *)
Repaints ==
    \E rect \in Rects(primary.size), colour \in Colour :
        rect \cap owed # {} /\ PaintBegins(rect, colour)

(* The thread goes on, the remote side repaints, the main actor runs what   *)
(* it is given, SwiftUI updates a view whose state has changed and the      *)
(* display link draws.  Nothing is assumed of disconnects.                  *)
Fairness ==
    /\ WF_vars(Repaints) /\ WF_vars(Thread)
    /\ WF_vars(SessionConnected)
    /\ WF_vars(HandleFrameUpdate) /\ WF_vars(HandleDesktopResize)
    /\ WF_vars(UpdateUIView) /\ WF_vars(Draw)

FairSpec == Spec /\ Fairness

----------------------------------------------------------------------------
(* What has to hold.                                                        *)

Places == UNION {Pixels(s) : s \in Size}
Job == [kind : {"frame"}, rect : SUBSET Places] \cup {DesktopResize}
BufferOf(size) ==
    [size : {size}, pixels : [Pixels(size) -> Content], dirty : SUBSET SUBSET Pixels(size)]

(* Every variable has the values the code can give it.                      *)
TypeOK ==
    /\ \E s \in Size \cup {<<0, 0>>} : primary \in Image(s)
    /\ owed \subseteq Pixels(primary.size)
    /\ thread \in [pc : {"off", "connected", "idle", "painting", "painted", "failed"}
                           \cup Resizing,
                   rect : SUBSET Places, colour : Colour \cup {Blank}]
    /\ ctx \in [frameBuffer : {"null", "primary", "freed"},
                size : MixedSize \cup {<<0, 0>>}]
    /\ mainq \in Seq(Job)
    /\ {frameBuffer, shown} \subseteq Buffer \cup {NoBuffer}
    /\ DOMAIN buffers = Buffer
    /\ \A b \in Buffer : \E s \in MixedSize \cup {<<0, 0>>} : buffers[b] \in BufferOf(s)
    /\ \E s \in MixedSize \cup {<<0, 0>>} : texture \in Image(s)
    /\ changes \in 0 .. MaxChanges /\ connects \in 0 .. MaxConnects

(* Connected, and nothing is under way between the remote screen and the    *)
(* texture: nothing left to repaint, to handle, to hand over or to upload.  *)
AtRest ==
    /\ HasGdi /\ thread.pc = "idle" /\ owed = {}
    /\ mainq = <<>>
    /\ frameBuffer # NoBuffer /\ shown = frameBuffer
    /\ buffers[frameBuffer].dirty = {}

(* When nothing is under way the user sees what the remote screen shows:    *)
(* resizes and buffers replaced, skipped frames and copies of the wrong     *)
(* memory leave nothing behind.                                             *)
PictureCurrentAtRest == AtRest => texture = primary

(* The rectangles the renderer is about to upload lie inside its texture.   *)
UploadsFit ==
    shown # NoBuffer =>
        \A r \in buffers[shown].dirty : r \subseteq Pixels(texture.size)

(* What is painted reaches the texture while the connection lasts.          *)
ScreenCatchesUp == HasGdi ~> ~HasGdi \/ texture = primary

(* The session's FrameBuffer is still to be replaced: the C layer has a new *)
(* primary buffer the main actor has not heard of.                          *)
RebuildPending ==
    \/ thread.pc \in {"connected"} \cup Resizing
    \/ \E i \in DOMAIN mainq : mainq[i].kind = "resize"

(* What was read from the wrong place stays in no buffer: while there is a  *)
(* desktop, only one that is about to be replaced ever holds it.            *)
JunkIsReplaced ==
    HasGdi /\ frameBuffer # NoBuffer /\ ~RebuildPending =>
        \A p \in DOMAIN buffers[frameBuffer].pixels :
            buffers[frameBuffer].pixels[p] # Junk

(* RDPSession.swift, handleFrameUpdate: frames whose size does not match    *)
(* are skipped until the resize has rebuilt the FrameBuffer, so that it     *)
(* never holds what was read from the wrong place.                          *)
MismatchedFramesSkipped ==
    frameBuffer # NoBuffer =>
        \A p \in DOMAIN buffers[frameBuffer].pixels :
            buffers[frameBuffer].pixels[p] # Junk

=============================================================================
