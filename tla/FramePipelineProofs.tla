------------------------ MODULE FramePipelineProofs ------------------------
(****************************************************************************)
(* For any sizes, colours and bounds: the picture is current whenever       *)
(* nothing is under way, what is uploaded fits the texture, and pixels read *)
(* from the wrong memory stay in no buffer.                                 *)
(*                                                                          *)
(* The inductive invariant says of each pixel where the difference between  *)
(* the remote screen and the texture is accounted for (Accounted): it is    *)
(* owed, being painted, in a rectangle still to be handled after the last   *)
(* resize, or in the FrameBuffer and there dirty or already uploaded.       *)
(****************************************************************************)
EXTENDS FramePipeline, SequenceTheorems, TLAPS

(* A queued notification will copy pixel p once the FrameBuffer has its     *)
(* final size: no resize comes after it.                                    *)
Reported(q, p, size) ==
    \E i \in DOMAIN q :
        /\ q[i].kind = "frame" /\ p \in q[i].rect /\ q[i].rect \subseteq Pixels(size)
        /\ \A j \in DOMAIN q : j > i => q[j].kind = "frame"

ResizeIn(q) == \E i \in DOMAIN q : q[i].kind = "resize"

Pending(p) ==
    \/ p \in owed
    \/ thread.pc \in {"painting", "painted"} /\ p \in thread.rect
    \/ Reported(mainq, p, primary.size)

Settled(p) ==
    /\ ~RebuildPending
    /\ buffers[frameBuffer].pixels[p] = primary.pixels[p]
    /\ \/ \E r \in buffers[frameBuffer].dirty : p \in r
       \/ shown = frameBuffer /\ texture.pixels[p] = primary.pixels[p]

ThreadInv ==
    HasGdi =>
        /\ thread.pc # "off"
        /\ thread.pc \in {"painting", "painted"} =>
               thread.rect \subseteq Pixels(primary.size) /\ thread.colour \in Colour
        /\ thread.pc \in {"connected"} \cup Resizing => owed = Pixels(primary.size)
        /\ \A p \in Pixels(primary.size) : primary.pixels[p] # Junk

CtxInv ==
    HasGdi =>
        /\ ctx.size \in MixedSize
        /\ thread.pc # "resized" => ctx.size[1] = primary.size[1]
        /\ thread.pc \notin {"resized", "widthStored"} => ctx.size = primary.size
        /\ thread.pc \notin {"resized", "widthStored", "heightStored"} => ctx.frameBuffer = "primary"

BufferInv ==
    HasGdi /\ ~RebuildPending =>
        /\ frameBuffer # NoBuffer
        /\ buffers[frameBuffer].size = primary.size
        /\ \A p \in Pixels(primary.size) : buffers[frameBuffer].pixels[p] # Junk

TextureInv == shown # NoBuffer => texture.size = buffers[shown].size

Accounted == HasGdi => \A p \in Pixels(primary.size) : Pending(p) \/ Settled(p)

IInv == TypeOK /\ ThreadInv /\ CtxInv /\ BufferInv /\ TextureInv /\ Accounted

----------------------------------------------------------------------------
(* The queue.                                                               *)

LEMMA ReportedAppended ==
    ASSUME NEW q \in Seq(Job), NEW rect, NEW size, NEW p
    PROVE  /\ p \in rect /\ rect \subseteq Pixels(size)
                 => Reported(Append(q, FrameUpdate(rect)), p, size)
           /\ Reported(q, p, size) => Reported(Append(q, FrameUpdate(rect)), p, size)
           /\ ResizeIn(Append(q, FrameUpdate(rect))) <=> ResizeIn(q)
           /\ ResizeIn(Append(q, DesktopResize))
<1> DEFINE qq == Append(q, FrameUpdate(rect))
           qr == Append(q, DesktopResize)
<1>1. /\ DOMAIN q = 1 .. Len(q) /\ Len(q) \in Nat
      /\ DOMAIN qq = 1 .. Len(q) + 1 /\ \A i \in 1 .. Len(q) : qq[i] = q[i]
      /\ qq[Len(q) + 1] = FrameUpdate(rect)
      /\ DOMAIN qr = 1 .. Len(q) + 1 /\ qr[Len(q) + 1] = DesktopResize
  OBVIOUS
<1> HIDE DEF qq, qr
<1>2. FrameUpdate(rect).kind = "frame" /\ FrameUpdate(rect).rect = rect
      /\ DesktopResize.kind = "resize"
  BY DEF FrameUpdate, DesktopResize
<1>3. p \in rect /\ rect \subseteq Pixels(size) => Reported(qq, p, size)
  BY <1>1, <1>2 DEF Reported
<1>4. Reported(q, p, size) => Reported(qq, p, size)
  BY <1>1, <1>2 DEF Reported
<1>5. ResizeIn(qq) <=> ResizeIn(q)
  BY <1>1, <1>2 DEF ResizeIn
<1>6. ResizeIn(qr)
  BY <1>1, <1>2 DEF ResizeIn
<1> QED BY <1>3, <1>4, <1>5, <1>6 DEF qq, qr

LEMMA ReportedTail ==
    ASSUME NEW q \in Seq(Job), q # <<>>, NEW size, NEW p
    PROVE  /\ Tail(q) \in Seq(Job) /\ Head(q) \in Job
           /\ Reported(q, p, size) =>
                 \/ Reported(Tail(q), p, size)
                 \/ /\ Head(q).kind = "frame" /\ p \in Head(q).rect
                    /\ Head(q).rect \subseteq Pixels(size) /\ ~ResizeIn(q)
           /\ ResizeIn(Tail(q)) => ResizeIn(q)
           /\ ResizeIn(q) /\ Head(q).kind = "frame" => ResizeIn(Tail(q))
<1> DEFINE t == Tail(q)
<1>1. /\ DOMAIN q = 1 .. Len(q) /\ Len(q) \in Nat /\ Len(q) > 0
      /\ DOMAIN t = 1 .. Len(q) - 1 /\ \A i \in 1 .. Len(q) - 1 : t[i] = q[i + 1]
      /\ Head(q) = q[1]
  OBVIOUS
<1>2. Tail(q) \in Seq(Job) /\ Head(q) \in Job
  OBVIOUS
<1> HIDE DEF t
<1>3. ASSUME Reported(q, p, size), ~Reported(t, p, size)
      PROVE  /\ q[1].kind = "frame" /\ p \in q[1].rect
             /\ q[1].rect \subseteq Pixels(size) /\ ~ResizeIn(q)
  <2>1. PICK i \in DOMAIN q :
          /\ q[i].kind = "frame" /\ p \in q[i].rect /\ q[i].rect \subseteq Pixels(size)
          /\ \A j \in DOMAIN q : j > i => q[j].kind = "frame"
    BY <1>3 DEF Reported
  <2>2. i = 1
    <3> SUFFICES ASSUME i # 1 PROVE FALSE
      OBVIOUS
    <3>1. i - 1 \in DOMAIN t /\ t[i - 1] = q[i]
      BY <1>1
    <3>2. \A j \in DOMAIN t : j > i - 1 => t[j].kind = "frame"
      <4> TAKE j \in DOMAIN t
      <4> HAVE j > i - 1
      <4>1. j + 1 \in DOMAIN q /\ j + 1 > i /\ t[j] = q[j + 1]
        BY <1>1
      <4> QED BY <2>1, <4>1
    <3> QED BY <1>3, <2>1, <3>1, <3>2 DEF Reported
  <2> QED BY <1>1, <2>1, <2>2 DEF ResizeIn
<1>4. ResizeIn(t) => ResizeIn(q)
  BY <1>1 DEF ResizeIn
<1>5. ResizeIn(q) /\ q[1].kind = "frame" => ResizeIn(t)
  <2> SUFFICES ASSUME ResizeIn(q), q[1].kind = "frame" PROVE ResizeIn(t)
    OBVIOUS
  <2>1. PICK i \in DOMAIN q : q[i].kind = "resize"
    BY DEF ResizeIn
  <2>2. i # 1 /\ i - 1 \in DOMAIN t /\ t[i - 1] = q[i]
    BY <1>1, <2>1
  <2> QED BY <2>1, <2>2 DEF ResizeIn
<1> QED BY <1>1, <1>2, <1>3, <1>4, <1>5 DEF t

----------------------------------------------------------------------------
(* Types.                                                                   *)

LEMMA SizeFacts ==
    /\ Size \subseteq MixedSize
    /\ \A s \in Size : s # <<0, 0>> /\ s[1] \in Nat /\ s[2] \in Nat /\ s = <<s[1], s[2]>>
    /\ \A s \in MixedSize : s # <<0, 0>> /\ s = <<s[1], s[2]>>
    /\ \A s \in Size, t \in MixedSize : <<s[1], t[2]>> \in MixedSize /\ t = <<t[1], t[2]>>
    /\ Pixels(<<0, 0>>) = {}
<1>1. \A s \in Size : s # <<0, 0>> /\ s[1] \in Nat \ {0} /\ s[2] \in Nat \ {0} /\ s = <<s[1], s[2]>>
  BY SizeAssumption
<1>2. Size \subseteq MixedSize
  BY <1>1 DEF MixedSize
<1>3. \A t \in MixedSize : t # <<0, 0>> /\ t = <<t[1], t[2]>>
  BY <1>1 DEF MixedSize
<1>4. \A s \in Size, t \in MixedSize : <<s[1], t[2]>> \in MixedSize
  BY <1>1 DEF MixedSize
<1>5. Pixels(<<0, 0>>) = {}
  BY DEF Pixels
<1> QED BY <1>1, <1>2, <1>3, <1>4, <1>5

LEMMA BlankFacts ==
    ASSUME NEW size
    PROVE  /\ BlankImage(size) \in Image(size) /\ BlankBuffer(size) \in BufferOf(size)
           /\ BlankImage(size).size = size /\ BlankBuffer(size).size = size
           /\ BlankBuffer(size).dirty = {}
           /\ \A p \in Pixels(size) : /\ BlankImage(size).pixels[p] = Blank
                                      /\ BlankBuffer(size).pixels[p] = Blank
  BY DEF BlankImage, BlankBuffer, Image, BufferOf, Content

LEMMA UnusedFacts ==
    ASSUME TypeOK
    PROVE  Unused \in Buffer /\ Unused # shown
<1>1. \E b \in Buffer : b # shown
  BY BufferAssumption DEF TypeOK
<1> QED BY <1>1 DEF Unused

LEMMA RectsInside ==
    ASSUME NEW size \in Size, NEW rect \in Rects(size)
    PROVE  rect \subseteq Pixels(size)
<1> DEFINE w == size[1] - 1
           h == size[2] - 1
<1>2. w \in Int /\ h \in Int
  BY SizeFacts
<1> HIDE DEF w, h
<1>1. PICK x1, x2 \in 0 .. w, y1, y2 \in 0 .. h : rect = (x1 .. x2) \X (y1 .. y2)
  BY DEF Rects, w, h
<1>3. x1 .. x2 \subseteq 0 .. w /\ y1 .. y2 \subseteq 0 .. h
  BY <1>1, <1>2
<1>4. rect \subseteq (0 .. w) \X (0 .. h)
  BY <1>1, <1>3
<1> QED BY <1>4 DEF Pixels, w, h

LEMMA PrimaryPlaces ==
    ASSUME TypeOK
    PROVE  /\ primary \in Image(primary.size) /\ Pixels(primary.size) \subseteq Places
           /\ HasGdi => primary.size \in Size
<1>1. PICK s \in Size \cup {<<0, 0>>} : primary \in Image(s)
  BY DEF TypeOK
<1>2. primary.size = s
  BY <1>1 DEF Image
<1>3. Pixels(s) \subseteq Places
  BY SizeFacts DEF Places
<1> QED BY <1>1, <1>2, <1>3 DEF HasGdi

(* A buffer and the texture have the shape of their own size.               *)
LEMMA OwnShape ==
    ASSUME TypeOK
    PROVE  /\ \A b \in Buffer : /\ buffers[b] \in BufferOf(buffers[b].size)
                                /\ buffers[b].size \in MixedSize \cup {<<0, 0>>}
           /\ texture \in Image(texture.size) /\ texture.size \in MixedSize \cup {<<0, 0>>}
  BY DEF TypeOK, BufferOf, Image

LEMMA InitInv ==
    ASSUME Init PROVE IInv
<1>1. TypeOK
  BY BlankFacts, BoundAssumption
     DEF Init, TypeOK, NoImage, At, Content
<1>2. ~HasGdi
  BY BlankFacts DEF Init, NoImage, HasGdi
<1> QED BY <1>1, <1>2 DEF Init, IInv, ThreadInv, CtxInv, BufferInv, TextureInv, Accounted

LEMMA InitializeType ==
    ASSUME TypeOK, InitializeFrameBuffer
    PROVE  /\ frameBuffer' = Unused /\ frameBuffer' \in Buffer /\ frameBuffer' # shown
           /\ buffers'[frameBuffer'] = BlankBuffer(ctx.size)
           /\ \A b \in Buffer \ {frameBuffer'} : buffers'[b] = buffers[b]
           /\ DOMAIN buffers' = Buffer
           /\ \A b \in Buffer : \E s \in MixedSize \cup {<<0, 0>>} : buffers'[b] \in BufferOf(s)
<1>1. frameBuffer' = Unused /\ Unused \in Buffer /\ Unused # shown
  BY UnusedFacts DEF InitializeFrameBuffer
<1>2. /\ DOMAIN buffers' = Buffer /\ buffers'[Unused] = BlankBuffer(ctx.size)
      /\ \A b \in Buffer \ {Unused} : buffers'[b] = buffers[b]
  BY <1>1 DEF InitializeFrameBuffer, TypeOK
<1>3. ctx.size \in MixedSize \cup {<<0, 0>>}
  BY DEF TypeOK
<1>4. BlankBuffer(ctx.size) \in BufferOf(ctx.size)
  BY BlankFacts
<1> QED BY <1>1, <1>2, <1>3, <1>4 DEF TypeOK

CopyStored(rect, copy) == buffers' = [buffers EXCEPT ![frameBuffer] = Updated(@, rect, copy)]

(* What a copy leaves in a buffer of the session.                           *)
LEMMA CopyType ==
    ASSUME TypeOK, NEW copy, NEW rect,
           frameBuffer # NoBuffer,
           rect \subseteq Pixels(buffers[frameBuffer].size),
           copy \in Copies(buffers[frameBuffer].size, rect),
           CopyStored(rect, copy)
    PROVE  /\ DOMAIN buffers' = Buffer
           /\ \A b \in Buffer \ {frameBuffer} : buffers'[b] = buffers[b]
           /\ \A b \in Buffer : buffers'[b].size = buffers[b].size
           /\ buffers'[frameBuffer].dirty = buffers[frameBuffer].dirty \cup {rect}
           /\ \A p \in Pixels(buffers[frameBuffer].size) :
                 buffers'[frameBuffer].pixels[p] =
                     IF p \in rect THEN copy[p] ELSE buffers[frameBuffer].pixels[p]
           /\ \A b \in Buffer : buffers'[b] \in BufferOf(buffers[b].size)
<1> DEFINE old == buffers[frameBuffer]
           new == buffers'[frameBuffer]
<1>1. frameBuffer \in Buffer /\ DOMAIN buffers = Buffer
  BY DEF TypeOK
<1>2. /\ DOMAIN buffers' = Buffer
      /\ \A b \in Buffer \ {frameBuffer} : buffers'[b] = buffers[b]
      /\ new = Updated(old, rect, copy)
  BY <1>1 DEF CopyStored
<1>3. old \in BufferOf(old.size)
  BY <1>1, OwnShape
<1>4. DOMAIN old.pixels = Pixels(old.size) /\ old.pixels \in [Pixels(old.size) -> Content]
  BY <1>3 DEF BufferOf
<1> DEFINE px == [p \in Pixels(old.size) |-> IF p \in rect THEN copy[p] ELSE old.pixels[p]]
<1>5. new = [old EXCEPT !.pixels = px, !.dirty = @ \cup {rect}]
  BY <1>2, <1>4 DEF Dirty, Updated
<1>6. \A p \in rect : copy[p] \in Content
  BY DEF Copies
<1>7. px \in [Pixels(old.size) -> Content]
  BY <1>4, <1>6
<1>8. \A p \in Pixels(old.size) : px[p] = IF p \in rect THEN copy[p] ELSE old.pixels[p]
  OBVIOUS
<1> DEFINE d == old.dirty \cup {rect}
<1>11. d \in SUBSET SUBSET Pixels(old.size)
  BY <1>3 DEF BufferOf
<1> HIDE DEF px, old, new
<1>12. new = [old EXCEPT !.pixels = px, !.dirty = d]
  BY <1>5
<1> HIDE DEF d
<1>9. /\ new.size = old.size /\ new.dirty = d /\ new.pixels = px
      /\ new \in BufferOf(old.size)
  BY <1>3, <1>7, <1>11, <1>12 DEF BufferOf
<1> USE DEF old, new, d
<1>10. \A b \in Buffer : buffers'[b].size = buffers[b].size /\ buffers'[b] \in BufferOf(buffers[b].size)
  BY <1>2, <1>9, OwnShape
<1> QED BY <1>1, <1>2, <1>8, <1>9, <1>10


(* What is uploaded.                                                        *)
LEMMA DrawType ==
    ASSUME TypeOK, Draw
    PROVE  /\ shown \in Buffer
           /\ DOMAIN buffers' = Buffer
           /\ \A b \in Buffer \ {shown} : buffers'[b] = buffers[b]
           /\ \A b \in Buffer : /\ buffers'[b].size = buffers[b].size
                                /\ buffers'[b].pixels = buffers[b].pixels
                                /\ buffers'[b] \in BufferOf(buffers[b].size)
           /\ texture'.size = texture.size /\ texture' \in Image(texture.size)
           /\ \A p \in Pixels(texture.size) :
                 texture'.pixels[p] = IF \E r \in buffers[shown].dirty : p \in r
                                      THEN buffers[shown].pixels[p] ELSE texture.pixels[p]
<1> DEFINE old == buffers[shown]
<1>1. shown \in Buffer /\ DOMAIN buffers = Buffer
  BY DEF TypeOK, Draw
<1>2. /\ DOMAIN buffers' = Buffer
      /\ \A b \in Buffer \ {shown} : buffers'[b] = buffers[b]
      /\ buffers'[shown] = [old EXCEPT !.dirty = {}]
  BY <1>1 DEF Draw
<1>3. old \in BufferOf(old.size)
  BY <1>1, OwnShape
<1>4. /\ buffers'[shown].size = old.size /\ buffers'[shown].pixels = old.pixels
      /\ buffers'[shown] \in BufferOf(old.size)
  BY <1>2, <1>3 DEF BufferOf
<1>5. texture \in Image(texture.size)
  BY OwnShape
<1>6. DOMAIN texture.pixels = Pixels(texture.size)
  BY <1>5 DEF Image
<1> DEFINE up == [p \in Pixels(texture.size) |-> IF \E r \in old.dirty : p \in r
                                               THEN old.pixels[p] ELSE texture.pixels[p]]
<1>7. texture' = [texture EXCEPT !.pixels = up]
  BY <1>6 DEF Draw
<1>8. \A p : (\E r \in old.dirty : p \in r) => old.pixels[p] \in Content
  BY <1>3 DEF BufferOf
<1>9. up \in [Pixels(texture.size) -> Content]
  BY <1>5, <1>8 DEF Image
<1> HIDE DEF up
<1>10. texture'.size = texture.size /\ texture'.pixels = up /\ texture' \in Image(texture.size)
  BY <1>5, <1>7, <1>9 DEF Image
<1>11. \A b \in Buffer : /\ buffers'[b].size = buffers[b].size
                         /\ buffers'[b].pixels = buffers[b].pixels
                         /\ buffers'[b] \in BufferOf(buffers[b].size)
  BY <1>2, <1>4, OwnShape
<1> QED BY <1>1, <1>2, <1>10, <1>11 DEF up

(* The session hands its buffer over.                                       *)
LEMMA UpdateUIViewType ==
    ASSUME TypeOK, UpdateUIView
    PROVE  /\ \E s \in MixedSize \cup {<<0, 0>>} : texture' \in Image(s)
           /\ shown' # NoBuffer => texture'.size = buffers[shown'].size
<1>1. CASE frameBuffer # NoBuffer /\ NeedsTexture(buffers[frameBuffer].size)
  BY <1>1, BlankFacts, OwnShape DEF UpdateUIView, TypeOK
<1>2. CASE ~(frameBuffer # NoBuffer /\ NeedsTexture(buffers[frameBuffer].size))
  <2>1. texture' = texture /\ shown' = frameBuffer
    BY <1>2 DEF UpdateUIView
  <2>2. ASSUME shown' # NoBuffer PROVE texture.size = buffers[frameBuffer].size
    <3>1. frameBuffer \in Buffer
      BY <2>1, <2>2 DEF TypeOK
    <3>2. /\ texture.size \in MixedSize \cup {<<0, 0>>}
          /\ buffers[frameBuffer].size \in MixedSize \cup {<<0, 0>>}
      BY <3>1, OwnShape
    <3>3. /\ texture.size[1] = buffers[frameBuffer].size[1]
          /\ texture.size[2] = buffers[frameBuffer].size[2]
      BY <1>2, <2>1, <2>2 DEF NeedsTexture
    <3>6. <<0, 0>> = <<<<0, 0>>[1], <<0, 0>>[2]>>
      OBVIOUS
    <3>5. \A s \in MixedSize \cup {<<0, 0>>} : s = <<s[1], s[2]>>
      BY <3>6, SizeFacts
    <3>4. \A s, t \in MixedSize \cup {<<0, 0>>} : s[1] = t[1] /\ s[2] = t[2] => s = t
      BY <3>5
    <3> QED BY <3>2, <3>3, <3>4
  <2> QED BY <2>1, <2>2 DEF TypeOK
<1> QED BY <1>1, <1>2

----------------------------------------------------------------------------
(* Steps of the connection's threads.  None touches a buffer or the texture.*)

LEMMA PostConnectStep ==
    ASSUME IInv, NEW size \in Size, PostConnect(size)
    PROVE  IInv'
<1>1. /\ primary' = BlankImage(size) /\ primary'.size = size /\ owed' = Pixels(size)
      /\ thread' = At("connected") /\ thread'.pc = "connected"
      /\ ctx' = [frameBuffer |-> "primary", size |-> size]
  BY BlankFacts DEF PostConnect, At
<1>2. TypeOK'
  BY <1>1, SizeFacts, BlankFacts, BoundAssumption DEF IInv, TypeOK, PostConnect, At,
     sessionVars, rendererVars
<1>3. ThreadInv' /\ CtxInv'
  BY <1>1, SizeFacts, BlankFacts, ColourAssumption DEF ThreadInv, CtxInv
<1>4. RebuildPending'
  BY <1>1 DEF RebuildPending
<1>5. BufferInv' /\ TextureInv' /\ Accounted'
  BY <1>1, <1>4 DEF IInv, BufferInv, TextureInv, Accounted, Pending, PostConnect,
     sessionVars, rendererVars
<1> QED BY <1>2, <1>3, <1>5 DEF IInv

LEMMA PaintBeginsStep ==
    ASSUME IInv, NEW rect \in Rects(primary.size), NEW colour \in Colour,
           PaintBegins(rect, colour)
    PROVE  IInv'
<1>1. rect \subseteq Pixels(primary.size) /\ rect \subseteq Places
  BY RectsInside, PrimaryPlaces DEF IInv, PaintBegins
<1>2. TypeOK'
  BY <1>1, BoundAssumption DEF IInv, TypeOK, PaintBegins, Painting, sessionVars, rendererVars
<1>3. ThreadInv' /\ CtxInv' /\ BufferInv' /\ TextureInv'
  BY <1>1 DEF IInv, ThreadInv, CtxInv, BufferInv, TextureInv, RebuildPending, HasGdi, Resizing,
     PaintBegins, Painting, sessionVars, rendererVars
<1>4. Accounted'
  BY DEF IInv, Accounted, Pending, Settled, RebuildPending, HasGdi, Resizing,
     PaintBegins, Painting, sessionVars, rendererVars
<1> QED BY <1>2, <1>3, <1>4 DEF IInv

LEMMA PaintEndsStep ==
    ASSUME IInv, PaintEnds
    PROVE  IInv'
<1> DEFINE painted == [p \in Pixels(primary.size) |->
                          IF p \in thread.rect THEN thread.colour ELSE primary.pixels[p]]
<1>1. primary \in Image(primary.size) /\ HasGdi /\ thread.pc = "painting"
  BY PrimaryPlaces DEF IInv, PaintEnds
<1>2. thread.colour \in Colour /\ thread.rect \subseteq Pixels(primary.size)
  BY <1>1 DEF IInv, ThreadInv
<1>3. DOMAIN primary.pixels = Pixels(primary.size)
  BY <1>1 DEF Image
<1>4. primary' = [primary EXCEPT !.pixels = painted]
  BY <1>3 DEF PaintEnds
<1>5. painted \in [Pixels(primary.size) -> Content]
  BY <1>1, <1>2 DEF Image, Content
<1> HIDE DEF painted
<1>6. primary'.size = primary.size /\ primary'.pixels = painted /\ primary' \in Image(primary.size)
  BY <1>1, <1>4, <1>5 DEF Image
<1>7. TypeOK'
  BY <1>1, <1>6, PrimaryPlaces DEF IInv, TypeOK, PaintEnds, sessionVars, rendererVars
<1>8. \A p \in Pixels(primary.size) : /\ p \notin thread.rect => primary'.pixels[p] = primary.pixels[p]
                                      /\ p \in thread.rect => primary'.pixels[p] \in Colour
  BY <1>2, <1>6 DEF painted
<1>9. ThreadInv' /\ CtxInv' /\ BufferInv' /\ TextureInv'
  BY <1>1, <1>2, <1>6, <1>8, ColourAssumption
     DEF IInv, TypeOK, ThreadInv, CtxInv, BufferInv, TextureInv, RebuildPending, HasGdi, Resizing,
     PaintEnds, sessionVars, rendererVars
<1>10. Accounted'
  BY <1>1, <1>6, <1>8 DEF IInv, TypeOK, Accounted, Pending, Settled, RebuildPending, HasGdi, Resizing,
     PaintEnds, sessionVars, rendererVars
<1> QED BY <1>7, <1>9, <1>10 DEF IInv

LEMMA EndPaintStep ==
    ASSUME IInv, EndPaint
    PROVE  IInv'
<1>1. /\ mainq \in Seq(Job) /\ mainq' = Append(mainq, FrameUpdate(thread.rect))
      /\ thread.rect \subseteq Places /\ thread.pc = "painted" /\ thread'.pc = "idle"
      /\ HasGdi /\ primary' = primary /\ owed' = owed
  BY DEF IInv, TypeOK, EndPaint, At
<1>2. FrameUpdate(thread.rect) \in Job
  BY <1>1 DEF FrameUpdate, Job
<1>3. TypeOK'
  BY <1>1, <1>2 DEF IInv, TypeOK, EndPaint, At, sessionVars, rendererVars
<1>4. RebuildPending' <=> RebuildPending
  <2>1. ResizeIn(mainq') <=> ResizeIn(mainq)
    BY <1>1, ReportedAppended
  <2>2. \A s \in {thread.pc, thread'.pc} : s \notin {"connected"} \cup Resizing
    BY <1>1 DEF Resizing
  <2> QED BY <2>1, <2>2 DEF RebuildPending, ResizeIn
<1>5. ThreadInv' /\ CtxInv' /\ BufferInv' /\ TextureInv'
  BY <1>1, <1>4 DEF IInv, TypeOK, ThreadInv, CtxInv, BufferInv, TextureInv, HasGdi, Resizing,
     EndPaint, At, sessionVars, rendererVars
<1>6. ASSUME NEW p \in Pixels(primary.size)
      PROVE  Pending(p)' \/ Settled(p)'
  <2>1. CASE p \in owed
    BY <1>1, <2>1 DEF Pending
  <2>2. CASE p \in thread.rect
    <3>1. thread.rect \subseteq Pixels(primary.size)
      BY <1>1 DEF IInv, ThreadInv
    <3> QED BY <1>1, <2>2, <3>1, ReportedAppended DEF Pending
  <2>3. CASE Reported(mainq, p, primary.size)
    BY <1>1, <2>3, ReportedAppended DEF Pending
  <2>4. CASE Settled(p)
    BY <1>1, <1>4, <2>4 DEF Settled, EndPaint, sessionVars, rendererVars
  <2> QED BY <1>1, <2>1, <2>2, <2>3, <2>4 DEF IInv, Accounted, Pending
<1> QED BY <1>1, <1>3, <1>5, <1>6 DEF IInv, Accounted, HasGdi

LEMMA GdiResizeStep ==
    ASSUME IInv, NEW size \in Size, GdiResize(size)
    PROVE  IInv'
<1>1. /\ owed' = Pixels(size) /\ HasGdi /\ thread' = At("resized") /\ thread'.pc = "resized"
      /\ thread'.pc \in Resizing /\ mainq' = mainq /\ frameBuffer' = frameBuffer
      /\ buffers' = buffers /\ shown' = shown /\ texture' = texture
  BY DEF GdiResize, At, Resizing, sessionVars, rendererVars
<1>2. /\ primary'.size = size /\ primary' \in Image(size)
      /\ \A p \in Pixels(size) : primary'.pixels[p] # Junk
  <2>1. CASE size = primary.size
    BY <1>1, <2>1, PrimaryPlaces DEF IInv, ThreadInv, GdiResize
  <2>2. CASE size # primary.size
    BY <2>2, BlankFacts, ColourAssumption DEF GdiResize
  <2> QED BY <2>1, <2>2
<1>3. /\ ctx'.size = ctx.size
      /\ ctx' \in [frameBuffer : {"null", "primary", "freed"}, size : MixedSize \cup {<<0, 0>>}]
  BY DEF IInv, TypeOK, GdiResize
<1>4. TypeOK'
  BY <1>1, <1>2, <1>3, SizeFacts, BoundAssumption DEF IInv, TypeOK, GdiResize, At
<1>5. ThreadInv' /\ CtxInv'
  BY <1>1, <1>2, <1>3 DEF IInv, ThreadInv, CtxInv
<1>6. RebuildPending'
  BY <1>1 DEF RebuildPending
<1>7. BufferInv' /\ TextureInv' /\ Accounted'
  BY <1>1, <1>2, <1>6 DEF IInv, BufferInv, TextureInv, Accounted, Pending
<1> QED BY <1>4, <1>5, <1>7 DEF IInv

LEMMA GdiResizeFailsStep ==
    ASSUME IInv, GdiResizeFails
    PROVE  IInv'
<1>1. /\ ~HasGdi' /\ primary' = NoImage /\ owed' = {} /\ thread' = At("failed")
      /\ ctx' = [ctx EXCEPT !.frameBuffer = "freed"]
  BY BlankFacts DEF GdiResizeFails, HasGdi, NoImage
<1>2. ctx' \in [frameBuffer : {"null", "primary", "freed"}, size : MixedSize \cup {<<0, 0>>}]
  BY <1>1 DEF IInv, TypeOK
<1>3. TypeOK'
  BY <1>1, <1>2, BlankFacts, BoundAssumption
     DEF IInv, TypeOK, GdiResizeFails, NoImage, At, sessionVars, rendererVars
<1>4. TextureInv'
  BY DEF IInv, TextureInv, GdiResizeFails, sessionVars, rendererVars
<1> QED BY <1>1, <1>3, <1>4 DEF IInv, ThreadInv, CtxInv, BufferInv, Accounted

(* While the fields are being stored, everything is owed and a rebuild is   *)
(* pending.                                                                 *)
LEMMA WhileStoring ==
    ASSUME IInv, HasGdi, thread.pc \in Resizing, thread'.pc \in Resizing, primary' = primary,
           owed' = owed, UNCHANGED <<sessionVars, rendererVars>>
    PROVE  ThreadInv' /\ BufferInv' /\ TextureInv' /\ Accounted'
<1>1. owed = Pixels(primary.size)
  BY DEF IInv, ThreadInv
<1>2. RebuildPending'
  BY DEF RebuildPending
<1>3. ThreadInv'
  BY <1>1 DEF IInv, ThreadInv, HasGdi, Resizing
<1> QED BY <1>1, <1>2, <1>3 DEF IInv, BufferInv, TextureInv, Accounted, Pending, sessionVars,
       rendererVars

LEMMA FrameWidthStoredStep ==
    ASSUME IInv, FrameWidthStored
    PROVE  IInv'
<1>1. /\ HasGdi /\ thread.pc = "resized" /\ thread'.pc = "widthStored" /\ thread' = At("widthStored")
      /\ primary' = primary /\ owed' = owed
      /\ ctx' = [ctx EXCEPT !.size[1] = primary.size[1]]
      /\ primary.size \in Size /\ ctx.size \in MixedSize
  BY PrimaryPlaces DEF IInv, CtxInv, FrameWidthStored, At
<1>2. ctx.size = <<ctx.size[1], ctx.size[2]>> /\ <<primary.size[1], ctx.size[2]>> \in MixedSize
  BY <1>1, SizeFacts
<1>3. [ctx.size EXCEPT ![1] = primary.size[1]] = <<primary.size[1], ctx.size[2]>>
  BY <1>2
<1>4. ctx' = [ctx EXCEPT !.size = <<primary.size[1], ctx.size[2]>>]
  BY <1>1, <1>3
<1>5. /\ ctx'.size \in MixedSize /\ ctx'.size[1] = primary.size[1]
      /\ ctx' \in [frameBuffer : {"null", "primary", "freed"}, size : MixedSize \cup {<<0, 0>>}]
  BY <1>2, <1>4 DEF IInv, TypeOK
<1>6. TypeOK'
  BY <1>1, <1>5 DEF IInv, TypeOK, FrameWidthStored, At, Resizing, sessionVars, rendererVars
<1>7. CtxInv'
  BY <1>1, <1>5 DEF CtxInv
<1>8. ThreadInv' /\ BufferInv' /\ TextureInv' /\ Accounted'
  BY <1>1, WhileStoring DEF FrameWidthStored, Resizing
<1> QED BY <1>6, <1>7, <1>8 DEF IInv

LEMMA FrameHeightStoredStep ==
    ASSUME IInv, FrameHeightStored
    PROVE  IInv'
<1>1. /\ HasGdi /\ thread.pc = "widthStored" /\ thread'.pc = "heightStored"
      /\ thread' = At("heightStored") /\ primary' = primary /\ owed' = owed
      /\ ctx' = [ctx EXCEPT !.size[2] = primary.size[2]]
      /\ primary.size \in Size /\ ctx.size \in MixedSize /\ ctx.size[1] = primary.size[1]
  BY PrimaryPlaces DEF IInv, CtxInv, FrameHeightStored, At
<1>2. ctx.size = <<ctx.size[1], ctx.size[2]>> /\ primary.size = <<primary.size[1], primary.size[2]>>
  BY <1>1, SizeFacts
<1>3. [ctx.size EXCEPT ![2] = primary.size[2]] = <<ctx.size[1], primary.size[2]>>
  BY <1>2
<1>4. ctx' = [ctx EXCEPT !.size = primary.size]
  BY <1>1, <1>2, <1>3
<1>5. /\ ctx'.size = primary.size
      /\ ctx' \in [frameBuffer : {"null", "primary", "freed"}, size : MixedSize \cup {<<0, 0>>}]
  BY <1>1, <1>4, SizeFacts DEF IInv, TypeOK
<1>6. TypeOK'
  BY <1>1, <1>5 DEF IInv, TypeOK, FrameHeightStored, At, Resizing, sessionVars, rendererVars
<1>7. CtxInv'
  BY <1>1, <1>5, SizeFacts DEF CtxInv
<1>8. ThreadInv' /\ BufferInv' /\ TextureInv' /\ Accounted'
  BY <1>1, WhileStoring DEF FrameHeightStored, Resizing
<1> QED BY <1>6, <1>7, <1>8 DEF IInv

LEMMA FramePointerStoredStep ==
    ASSUME IInv, FramePointerStored
    PROVE  IInv'
<1>1. /\ HasGdi /\ thread.pc = "heightStored" /\ thread'.pc = "stored"
      /\ thread' = At("stored") /\ primary' = primary /\ owed' = owed
      /\ ctx' = [ctx EXCEPT !.frameBuffer = "primary"]
  BY DEF FramePointerStored, At
<1>2. /\ ctx'.size = ctx.size /\ ctx'.frameBuffer = "primary"
      /\ ctx' \in [frameBuffer : {"null", "primary", "freed"}, size : MixedSize \cup {<<0, 0>>}]
  BY <1>1 DEF IInv, TypeOK
<1>3. TypeOK'
  BY <1>1, <1>2 DEF IInv, TypeOK, FramePointerStored, At, Resizing, sessionVars, rendererVars
<1>4. CtxInv'
  BY <1>1, <1>2 DEF IInv, CtxInv
<1>5. ThreadInv' /\ BufferInv' /\ TextureInv' /\ Accounted'
  BY <1>1, WhileStoring DEF FramePointerStored, Resizing
<1> QED BY <1>3, <1>4, <1>5 DEF IInv

LEMMA ResizeReportedStep ==
    ASSUME IInv, ResizeReported
    PROVE  IInv'
<1>1. /\ HasGdi /\ thread.pc = "stored" /\ thread'.pc = "idle" /\ thread' = At("idle")
      /\ primary' = primary /\ owed' = owed /\ ctx' = ctx
      /\ mainq \in Seq(Job) /\ mainq' = Append(mainq, DesktopResize)
  BY DEF IInv, TypeOK, ResizeReported, At
<1>2. DesktopResize \in Job
  BY DEF Job
<1>3. TypeOK'
  BY <1>1, <1>2 DEF IInv, TypeOK, ResizeReported, At, sessionVars, rendererVars
<1>4. RebuildPending'
  BY <1>1, ReportedAppended DEF RebuildPending, ResizeIn
<1>5. ThreadInv' /\ CtxInv'
  BY <1>1 DEF IInv, ThreadInv, CtxInv, HasGdi, Resizing
<1>6. owed = Pixels(primary.size)
  BY <1>1 DEF IInv, ThreadInv, Resizing
<1>7. BufferInv' /\ TextureInv' /\ Accounted'
  BY <1>1, <1>4, <1>6 DEF IInv, BufferInv, TextureInv, Accounted, Pending, ResizeReported,
     sessionVars, rendererVars
<1> QED BY <1>3, <1>5, <1>7 DEF IInv

LEMMA LeavesFreedGdiStep ==
    ASSUME IInv, LeavesFreedGdi
    PROVE  IInv'
<1>1. ~HasGdi /\ ~HasGdi' /\ primary' = primary /\ owed' = owed /\ thread' = At("off")
  BY DEF LeavesFreedGdi, HasGdi
<1>2. ctx' \in [frameBuffer : {"null", "primary", "freed"}, size : MixedSize \cup {<<0, 0>>}]
  BY DEF IInv, TypeOK, LeavesFreedGdi
<1>3. mainq' \in Seq(Job)
  <2>1. FrameUpdate(thread.rect) \in Job
    BY DEF IInv, TypeOK, FrameUpdate, Job
  <2>2. DesktopResize \in Job
    BY DEF Job
  <2>3. mainq \in Seq(Job)
    BY DEF IInv, TypeOK
  <2>4. \A j \in Job : Append(mainq, j) \in Seq(Job)
    BY <2>3
  <2>5. mainq' \in {mainq, Append(mainq, FrameUpdate(thread.rect)), Append(mainq, DesktopResize)}
    BY DEF LeavesFreedGdi
  <2> QED BY <2>1, <2>2, <2>3, <2>4, <2>5
<1>4. TypeOK'
  BY <1>1, <1>2, <1>3 DEF IInv, TypeOK, LeavesFreedGdi, At, sessionVars, rendererVars
<1>5. TextureInv'
  BY DEF IInv, TextureInv, LeavesFreedGdi, sessionVars, rendererVars
<1> QED BY <1>1, <1>4, <1>5 DEF IInv, ThreadInv, CtxInv, BufferInv, Accounted

----------------------------------------------------------------------------
(* Steps of the session.                                                    *)

LEMMA SessionConnectedStep ==
    ASSUME IInv, SessionConnected
    PROVE  IInv'
<1>1. /\ InitializeFrameBuffer /\ thread.pc = "connected" /\ thread' = At("idle") /\ thread'.pc = "idle"
      /\ primary' = primary /\ owed' = owed /\ mainq' = mainq /\ ctx' = ctx
      /\ shown' = shown /\ texture' = texture
  BY DEF SessionConnected, At, rendererVars
<1>2. TypeOK'
  BY <1>1, InitializeType DEF IInv, TypeOK, SessionConnected, At, rendererVars
<1>3. ThreadInv' /\ CtxInv'
  BY <1>1 DEF IInv, ThreadInv, CtxInv, HasGdi
<1>4. HasGdi => ctx.size = primary.size
  BY <1>1 DEF IInv, CtxInv
<1>5. BufferInv'
  BY <1>1, <1>4, InitializeType, BlankFacts, ColourAssumption, BufferAssumption
     DEF IInv, BufferInv, HasGdi
<1>6. TextureInv'
  BY <1>1, InitializeType DEF IInv, TypeOK, TextureInv
<1>7. HasGdi => owed = Pixels(primary.size)
  BY <1>1 DEF IInv, ThreadInv
<1>8. Accounted'
  BY <1>1, <1>7 DEF Accounted, Pending, HasGdi
<1> QED BY <1>2, <1>3, <1>5, <1>6, <1>8 DEF IInv

LEMMA HandleDesktopResizeStep ==
    ASSUME IInv, HandleDesktopResize
    PROVE  IInv'
<1>1. /\ InitializeFrameBuffer /\ mainq \in Seq(Job) /\ mainq # <<>>
      /\ Head(mainq).kind = "resize" /\ mainq' = Tail(mainq)
      /\ thread' = thread /\ primary' = primary /\ owed' = owed /\ ctx' = ctx
      /\ shown' = shown /\ texture' = texture
  BY DEF IInv, TypeOK, HandleDesktopResize, remoteVars, rendererVars
<1>2. TypeOK'
  <2>1. mainq' \in Seq(Job)
    BY <1>1
  <2>2. /\ DOMAIN buffers' = Buffer /\ frameBuffer' \in Buffer
        /\ \A b \in Buffer : \E s \in MixedSize \cup {<<0, 0>>} : buffers'[b] \in BufferOf(s)
    BY <1>1, InitializeType DEF IInv
  <2> QED BY <1>1, <2>1, <2>2 DEF IInv, TypeOK, HandleDesktopResize
<1>3. ThreadInv' /\ CtxInv'
  BY <1>1 DEF IInv, ThreadInv, CtxInv, HasGdi
<1>4. HasGdi /\ ~RebuildPending' => ctx.size = primary.size
  BY <1>1 DEF IInv, CtxInv, RebuildPending, Resizing
<1>5. BufferInv'
  BY <1>1, <1>4, InitializeType, BlankFacts, ColourAssumption, BufferAssumption
     DEF IInv, BufferInv, HasGdi
<1>6. TextureInv'
  BY <1>1, InitializeType DEF IInv, TypeOK, TextureInv
<1>7. RebuildPending
  BY <1>1 DEF RebuildPending
<1>8. ASSUME NEW p \in Pixels(primary.size), HasGdi PROVE Pending(p)'
  <2>1. Pending(p)
    BY <1>7, <1>8 DEF IInv, Accounted, Settled
  <2> QED BY <1>1, <2>1, ReportedTail DEF Pending
<1>9. Accounted'
  BY <1>1, <1>8 DEF Accounted, HasGdi
<1> QED BY <1>2, <1>3, <1>5, <1>6, <1>9 DEF IInv

LEMMA HandleFrameUpdateStep ==
    ASSUME IInv, HandleFrameUpdate
    PROVE  IInv'
<1>0. PICK rect : rect = Head(mainq).rect
  OBVIOUS
<1> DEFINE Fits == /\ frameBuffer # NoBuffer /\ ctx.frameBuffer # "null"
                   /\ rect \subseteq Pixels(buffers[frameBuffer].size)
<1>1. /\ mainq \in Seq(Job) /\ mainq # <<>> /\ Head(mainq).kind = "frame" /\ mainq' = Tail(mainq)
      /\ thread' = thread /\ primary' = primary /\ owed' = owed /\ ctx' = ctx
      /\ shown' = shown /\ texture' = texture /\ frameBuffer' = frameBuffer
      /\ changes' = changes /\ connects' = connects
  BY DEF IInv, TypeOK, HandleFrameUpdate, remoteVars, rendererVars
<1>2. RebuildPending' <=> RebuildPending
  BY <1>1, ReportedTail DEF RebuildPending, ResizeIn
<1>3. ThreadInv' /\ CtxInv'
  BY <1>1 DEF IInv, ThreadInv, CtxInv, HasGdi
<1>4. HasGdi /\ ~RebuildPending
          => /\ frameBuffer # NoBuffer /\ frameBuffer \in Buffer
             /\ buffers[frameBuffer].size = primary.size
             /\ ctx.frameBuffer = "primary"
             /\ \A p \in Pixels(primary.size) :
                   buffers[frameBuffer].pixels[p] # Junk /\ primary.pixels[p] # Junk
  BY DEF IInv, TypeOK, BufferInv, CtxInv, ThreadInv, RebuildPending
(* A reported pixel is pending after the step too, or it was reported by    *)
(* the notification that is being handled.                                  *)
<1>5. ASSUME HasGdi, NEW p \in Pixels(primary.size), Pending(p)
      PROVE  \/ Pending(p)'
             \/ /\ p \in rect /\ rect \subseteq Pixels(primary.size) /\ ~ResizeIn(mainq)
                /\ p \notin owed /\ ~(thread.pc = "painting" /\ p \in thread.rect)
  BY <1>0, <1>1, <1>5, ReportedTail DEF Pending
<1>6. ASSUME HasGdi, NEW p \in Pixels(primary.size), p \notin owed, ~ResizeIn(mainq)
      PROVE  ~RebuildPending
  BY <1>6 DEF IInv, ThreadInv, RebuildPending, ResizeIn
<1>7. CASE ~Fits
  <2>1. buffers' = buffers
    BY <1>0, <1>7 DEF HandleFrameUpdate
  <2>2. TypeOK'
    BY <1>1, <2>1, ReportedTail DEF IInv, TypeOK
  <2>3. BufferInv' /\ TextureInv'
    BY <1>1, <1>2, <2>1 DEF IInv, BufferInv, TextureInv, HasGdi
  <2>4. ASSUME HasGdi, NEW p \in Pixels(primary.size) PROVE Pending(p)' \/ Settled(p)'
    <3>1. CASE Settled(p)
      BY <1>1, <1>2, <2>1, <3>1 DEF Settled
    <3>2. CASE Pending(p)
      <4> SUFFICES ASSUME ~Pending(p)' PROVE FALSE
        OBVIOUS
      <4>1. rect \subseteq Pixels(primary.size) /\ ~RebuildPending
        BY <1>5, <1>6, <2>4, <3>2
      <4> QED BY <1>4, <1>7, <2>4, <4>1
    <3> QED BY <2>4, <3>1, <3>2 DEF IInv, Accounted
  <2> QED BY <1>1, <1>3, <2>2, <2>3, <2>4 DEF IInv, Accounted, HasGdi
<1>8. CASE Fits
  <2> DEFINE size == buffers[frameBuffer].size
  <2>1. PICK copy \in Copies(size, rect) :
          buffers' = [buffers EXCEPT ![frameBuffer] = Updated(@, rect, copy)]
    BY <1>0, <1>8 DEF HandleFrameUpdate
  <2>2. /\ DOMAIN buffers' = Buffer
        /\ \A b \in Buffer : /\ buffers'[b].size = buffers[b].size
                             /\ buffers'[b] \in BufferOf(buffers[b].size)
        /\ buffers'[frameBuffer].dirty = buffers[frameBuffer].dirty \cup {rect}
        /\ \A p \in Pixels(size) :
              buffers'[frameBuffer].pixels[p] =
                  IF p \in rect THEN copy[p] ELSE buffers[frameBuffer].pixels[p]
    <3>1. /\ TypeOK /\ frameBuffer # NoBuffer /\ rect \subseteq Pixels(buffers[frameBuffer].size)
          /\ copy \in Copies(buffers[frameBuffer].size, rect)
          /\ CopyStored(rect, copy)
      BY <1>8, <2>1 DEF IInv, CopyStored
    <3> QED BY <3>1, CopyType
  <2>3. TypeOK'
    <3>1. \A b \in Buffer : \E s \in MixedSize \cup {<<0, 0>>} : buffers'[b] \in BufferOf(s)
      BY <2>2, OwnShape DEF IInv
    <3> QED BY <1>1, <2>2, <3>1, ReportedTail DEF IInv, TypeOK
  <2>4. \A p \in rect : copy[p] \in Copied(size, p)
    BY <2>1 DEF Copies
  (* With no rebuild pending, what is copied is the pixel.                  *)
  <2>5. ASSUME HasGdi, ~RebuildPending, NEW p \in Pixels(primary.size), p \in rect
        PROVE  /\ copy[p] # Junk
               /\ ~(thread.pc = "painting" /\ p \in thread.rect) => copy[p] = primary.pixels[p]
    <3>1. size = primary.size /\ ctx.frameBuffer = "primary" /\ primary.pixels[p] # Junk
      BY <1>4, <2>5
    <3>2. thread.pc = "painting" => thread.colour # Junk
      BY <2>5, ColourAssumption DEF IInv, ThreadInv
    <3>3. copy[p] \in IF thread.pc = "painting" /\ p \in thread.rect
                      THEN {primary.pixels[p], thread.colour} ELSE {primary.pixels[p]}
      BY <2>4, <2>5, <3>1 DEF Copied
    <3> QED BY <3>1, <3>2, <3>3
  <2>6. BufferInv'
    BY <1>1, <1>2, <1>4, <2>2, <2>5 DEF BufferInv, HasGdi
  <2>7. TextureInv'
    BY <1>1, <2>2 DEF IInv, TypeOK, TextureInv
  <2>8. ASSUME HasGdi, NEW p \in Pixels(primary.size), ~Pending(p)' PROVE Settled(p)'
    <3>1. ~(thread.pc = "painting" /\ p \in thread.rect)
      BY <1>1, <2>8 DEF Pending
    <3>2. ~RebuildPending
      <4>1. CASE Settled(p)
        BY <4>1 DEF Settled
      <4>2. CASE Pending(p)
        BY <1>5, <1>6, <2>8, <4>2
      <4> QED BY <2>8, <4>1, <4>2 DEF IInv, Accounted
    <3>3. size = primary.size /\ frameBuffer \in Buffer
      BY <1>4, <2>8, <3>2
    <3>4. CASE p \in rect
      <4>1. buffers'[frameBuffer].pixels[p] = primary.pixels[p]
        BY <2>2, <2>5, <2>8, <3>1, <3>2, <3>3, <3>4
      <4>2. \E r \in buffers'[frameBuffer].dirty : p \in r
        BY <2>2, <3>4
      <4> QED BY <1>1, <1>2, <3>2, <4>1, <4>2 DEF Settled
    <3>5. CASE p \notin rect
      <4>1. Settled(p)
        BY <1>5, <2>8, <3>5 DEF IInv, Accounted
      <4>2. buffers'[frameBuffer].pixels[p] = buffers[frameBuffer].pixels[p]
        BY <2>2, <2>8, <3>3, <3>5
      <4> QED BY <1>1, <1>2, <2>2, <4>1, <4>2 DEF Settled
    <3> QED BY <3>4, <3>5
  <2> QED BY <1>1, <1>3, <2>3, <2>6, <2>7, <2>8 DEF IInv, Accounted, HasGdi
<1> QED BY <1>7, <1>8

LEMMA DisconnectStep ==
    ASSUME IInv, Disconnect
    PROVE  IInv'
<1>1. ~HasGdi' /\ primary' = NoImage /\ owed' = {}
  BY BlankFacts DEF Disconnect, HasGdi, NoImage
<1>2. ctx' \in [frameBuffer : {"null", "primary", "freed"}, size : MixedSize \cup {<<0, 0>>}]
  BY DEF IInv, TypeOK, Disconnect
<1>3. TypeOK'
  BY <1>1, <1>2, BlankFacts DEF IInv, TypeOK, Disconnect, NoImage, At, rendererVars
<1>4. TextureInv'
  BY DEF IInv, TextureInv, Disconnect, rendererVars
<1> QED BY <1>1, <1>3, <1>4 DEF IInv, ThreadInv, CtxInv, BufferInv, Accounted

----------------------------------------------------------------------------
(* Steps of the renderer.                                                   *)

LEMMA UpdateUIViewStep ==
    ASSUME IInv, UpdateUIView
    PROVE  IInv'
<1>1. /\ shown # frameBuffer /\ shown' = frameBuffer
      /\ thread' = thread /\ primary' = primary /\ owed' = owed /\ ctx' = ctx /\ mainq' = mainq
      /\ frameBuffer' = frameBuffer /\ changes' = changes /\ connects' = connects
  BY DEF UpdateUIView, remoteVars
<1>2. /\ DOMAIN buffers' = Buffer
      /\ \A b \in Buffer : buffers'[b] = buffers[b] \/ buffers'[b] = BlankBuffer(<<0, 0>>)
      /\ frameBuffer # NoBuffer => buffers'[frameBuffer] = buffers[frameBuffer]
  <2>1. buffers' = [b \in Buffer |-> IF b = shown THEN BlankBuffer(<<0, 0>>) ELSE buffers[b]]
    BY DEF UpdateUIView
  <2>2. frameBuffer \in Buffer \cup {NoBuffer}
    BY DEF IInv, TypeOK
  <2> QED BY <1>1, <2>1, <2>2
<1>3. \A b \in Buffer : \E s \in MixedSize \cup {<<0, 0>>} : buffers'[b] \in BufferOf(s)
  BY <1>2, BlankFacts DEF IInv, TypeOK
<1>4. TypeOK'
  BY <1>1, <1>2, <1>3, UpdateUIViewType DEF IInv, TypeOK
<1>5. ThreadInv' /\ CtxInv' /\ BufferInv'
  BY <1>1, <1>2 DEF IInv, ThreadInv, CtxInv, BufferInv, RebuildPending, HasGdi
<1>6. TextureInv'
  BY <1>1, <1>2, UpdateUIViewType DEF IInv, TextureInv
<1>7. Accounted'
  BY <1>1, <1>2 DEF IInv, Accounted, BufferInv, Pending, Settled, RebuildPending, HasGdi
<1> QED BY <1>4, <1>5, <1>6, <1>7 DEF IInv

LEMMA DrawStep ==
    ASSUME IInv, Draw
    PROVE  IInv'
<1>1. /\ thread' = thread /\ primary' = primary /\ owed' = owed /\ ctx' = ctx /\ mainq' = mainq
      /\ frameBuffer' = frameBuffer /\ shown' = shown /\ changes' = changes /\ connects' = connects
  BY DEF Draw, remoteVars
<1>2. TypeOK'
  <2>1. \A b \in Buffer : \E s \in MixedSize \cup {<<0, 0>>} : buffers'[b] \in BufferOf(s)
    BY DrawType, OwnShape DEF IInv
  <2>2. \E s \in MixedSize \cup {<<0, 0>>} : texture' \in Image(s)
    BY DrawType, OwnShape DEF IInv
  <2> QED BY <1>1, <2>1, <2>2, DrawType DEF IInv, TypeOK
<1>3. ThreadInv' /\ CtxInv'
  BY <1>1 DEF IInv, ThreadInv, CtxInv, HasGdi
<1>4. BufferInv' /\ TextureInv'
  BY <1>1, DrawType DEF IInv, TypeOK, BufferInv, TextureInv, RebuildPending, HasGdi
<1>5. ASSUME HasGdi, NEW p \in Pixels(primary.size), Settled(p) PROVE Settled(p)'
  <2>1. ~RebuildPending' /\ frameBuffer \in Buffer /\ buffers[frameBuffer].size = primary.size
    BY <1>1, <1>5 DEF IInv, TypeOK, BufferInv, Settled, RebuildPending
  <2>2. buffers'[frameBuffer].pixels[p] = primary.pixels[p]
    BY <1>5, <2>1, DrawType DEF IInv, Settled
  <2>3. CASE shown = frameBuffer
    <3>1. texture.size = primary.size
      BY <2>1, <2>3, BufferAssumption DEF IInv, TextureInv
    <3>2. texture'.pixels[p] = primary.pixels[p]
      BY <1>5, <2>1, <2>3, <3>1, DrawType DEF IInv, Settled
    <3> QED BY <1>1, <2>1, <2>2, <2>3, <3>2 DEF Settled
  <2>4. CASE shown # frameBuffer
    <3>1. buffers'[frameBuffer] = buffers[frameBuffer]
      BY <2>1, <2>4, DrawType DEF IInv
    <3> QED BY <1>1, <1>5, <2>1, <2>2, <2>4, <3>1 DEF Settled
  <2> QED BY <2>3, <2>4
<1>6. Accounted'
  BY <1>1, <1>5 DEF IInv, Accounted, Pending, HasGdi
<1> QED BY <1>2, <1>3, <1>4, <1>6 DEF IInv

----------------------------------------------------------------------------
(* The theorems.                                                            *)

LEMMA StepInv ==
    ASSUME IInv, [Next]_vars
    PROVE  IInv'
<1>1. CASE Next
  <2>1. ASSUME NEW size \in Size, PostConnect(size) PROVE IInv'
    BY <2>1, PostConnectStep
  <2>2. ASSUME NEW size \in Size, GdiResize(size) PROVE IInv'
    BY <2>2, GdiResizeStep
  <2>3. ASSUME NEW rect \in Rects(primary.size), NEW colour \in Colour, PaintBegins(rect, colour)
        PROVE  IInv'
    <3>1. PICK r, c : r = rect /\ c = colour
      OBVIOUS
    <3> QED BY <2>3, PaintBeginsStep
  <2>4. CASE Thread
    BY <2>4, PaintEndsStep, EndPaintStep, FrameWidthStoredStep, FrameHeightStoredStep,
       FramePointerStoredStep, ResizeReportedStep, LeavesFreedGdiStep DEF Thread
  <2>5. CASE SessionConnected \/ HandleFrameUpdate \/ HandleDesktopResize \/ Disconnect
    BY <2>5, SessionConnectedStep, HandleFrameUpdateStep, HandleDesktopResizeStep, DisconnectStep
  <2>6. CASE UpdateUIView \/ Draw
    BY <2>6, UpdateUIViewStep, DrawStep
  <2>7. CASE GdiResizeFails
    BY <2>7, GdiResizeFailsStep
  <2> QED BY <1>1, <2>1, <2>2, <2>3, <2>4, <2>5, <2>6, <2>7 DEF Next
<1>2. CASE UNCHANGED vars
  BY <1>2 DEF vars, remoteVars, sessionVars, rendererVars, IInv, TypeOK, ThreadInv, CtxInv,
     BufferInv, TextureInv, Accounted, Pending, Settled, RebuildPending, HasGdi
<1> QED BY <1>1, <1>2

THEOREM Invariance == Spec => []IInv
  BY InitInv, StepInv, PTL DEF Spec

(* Every variable keeps the values the code can give it: in particular no   *)
(* frame size is ever one that is neither a desktop size nor a mix of two.  *)
THEOREM TypeCorrectness == Spec => []TypeOK
<1>1. IInv => TypeOK
  BY DEF IInv
<1> QED BY <1>1, Invariance, PTL

(* Whatever is resized, skipped, copied late or copied from the wrong       *)
(* memory: once nothing is under way the texture is the remote screen.      *)
THEOREM CurrentAtRest == Spec => []PictureCurrentAtRest
<1>1. ASSUME IInv PROVE PictureCurrentAtRest
  <2> SUFFICES ASSUME AtRest PROVE texture = primary
    BY DEF PictureCurrentAtRest
  <2>1. HasGdi /\ ~RebuildPending
    BY DEF AtRest, RebuildPending, Resizing
  <2>2. /\ shown # NoBuffer /\ texture.size = buffers[shown].size
        /\ buffers[frameBuffer].size = primary.size /\ shown = frameBuffer
    BY <1>1, <2>1 DEF IInv, BufferInv, TextureInv, AtRest
  <2>3. texture.size = primary.size
    BY <2>2
  <2>4. ASSUME NEW p \in Pixels(primary.size) PROVE texture.pixels[p] = primary.pixels[p]
    <3>1. ~Pending(p)
      BY DEF Pending, Reported, AtRest
    <3>2. Settled(p)
      BY <1>1, <2>1, <3>1 DEF IInv, Accounted
    <3> QED BY <3>2 DEF Settled, AtRest
  <2>5. primary \in Image(primary.size) /\ texture \in Image(primary.size)
    BY <1>1, <2>3, PrimaryPlaces, OwnShape DEF IInv
  <2>6. texture.pixels = primary.pixels
    <3>1. /\ texture.pixels \in [Pixels(primary.size) -> Content]
          /\ primary.pixels \in [Pixels(primary.size) -> Content]
      BY <2>5 DEF Image
    <3> QED BY <2>4, <3>1
  <2> QED BY <2>3, <2>5, <2>6 DEF Image
<1> QED BY <1>1, Invariance, PTL

(* No upload writes outside the texture.                                    *)
THEOREM UploadsInside == Spec => []UploadsFit
<1>1. ASSUME IInv PROVE UploadsFit
  <2> SUFFICES ASSUME shown # NoBuffer, NEW r \in buffers[shown].dirty
               PROVE  r \subseteq Pixels(texture.size)
    BY DEF UploadsFit
  <2>1. shown \in Buffer /\ texture.size = buffers[shown].size
    BY <1>1 DEF IInv, TypeOK, TextureInv
  <2>2. buffers[shown] \in BufferOf(buffers[shown].size)
    BY <1>1, <2>1, OwnShape DEF IInv
  <2> QED BY <2>1, <2>2 DEF BufferOf
<1> QED BY <1>1, Invariance, PTL

(* What was read from the wrong memory goes with the buffer it is in.       *)
THEOREM JunkGoes == Spec => []JunkIsReplaced
<1>1. ASSUME IInv PROVE JunkIsReplaced
  <2> SUFFICES ASSUME HasGdi, frameBuffer # NoBuffer, ~RebuildPending,
                      NEW p \in DOMAIN buffers[frameBuffer].pixels
               PROVE  buffers[frameBuffer].pixels[p] # Junk
    BY DEF JunkIsReplaced
  <2>1. frameBuffer \in Buffer /\ buffers[frameBuffer].size = primary.size
    BY <1>1 DEF IInv, TypeOK, BufferInv
  <2>2. p \in Pixels(primary.size)
    BY <1>1, <2>1, OwnShape DEF IInv, BufferOf
  <2> QED BY <1>1, <2>2 DEF IInv, BufferInv
<1> QED BY <1>1, Invariance, PTL

=============================================================================
