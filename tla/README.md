# ViDesk: TLA+ models and proofs

ViDesk is a remote desktop client for visionOS and iOS: a SwiftUI application
over FreeRDP, with a C layer (`FreeRDPBridge.c`) in between. This directory
holds TLA+ models of its concurrent core, the TLC runs that check them on small
instances, and TLAPS proofs for every value of their constants.

Paths below are relative to `src/ViDesk/` of the repository unless they say
otherwise.

## 1. The system

### Parts, their state and how they interact

| Part | State it keeps | Operations | Talks to |
|---|---|---|---|
| `RDPSession` (`Core/RDP/RDPSession.swift`) | `state`, `eventLoopTask`, `statisticsTimer`, `reconnectAttempt`, `frameBuffer` | connect, disconnect, reconnect, the handlers of four notifications, the reconnect task | owns one `FreeRDPContext`; observed by the view |
| `FreeRDPContext` (`Core/RDP/FreeRDPWrapper/FreeRDPContext.swift`) | the raw C pointer, a retained reference to itself while the pointer exists | create, destroy, connect (on a background queue), disconnect, setters, input | calls the bridge; turns C callbacks into main-actor tasks |
| C layer (`FreeRDPBridge.c`) | per context `isConnected`, frame pointer and size, clipboard texts; global callbacks, error string, log | create/destroy, connect/disconnect, processEvents, input, clipboard, and FreeRDP's callbacks (PreConnect, PostConnect, PostDisconnect, EndPaint, DesktopResize, cliprdr) | FreeRDP; notifies through C function pointers on whichever thread it runs |
| View and view model (`Features/RemoteDesktop`) | `errorMessage`, view presence, toolbar state | connect on appearance, disconnect, dismiss, retry | `RDPSession`, `InputManager` |
| Frame pipeline (`FrameBuffer.swift`, `MetalRenderer.swift`) | pixel buffer, dirty regions, texture | update, pop dirty regions, upload, resize | fed by `RDPSession`, drained by the display link |
| Input (`InputManager`, `DesktopCanvasView`; `GestureTranslator` and `KeyboardMapper` exist and no view uses them) | cursor, mouse button, the binding to a session | gestures to mouse and wheel | `RDPSession`, `MetalRenderer` for coordinates |
| Connections (`ConnectionStorageService`, `KeychainService`, `ConnectionManagerViewModel`, `AddConnectionView`) | SwiftData store, keychain, cached lists | add, update, delete, duplicate, search, mark as connected | two stores that fail independently |
| Settings, audio and clipboard channels, debug view, log | user defaults, a buffer queue, a text file | load/save/reset, enqueue/schedule | `AudioChannel` and `ClipboardChannel` are constructed by nothing |

`src/App`, `src/Core`, `src/Features`, `src/Models` and `src/Services` at the top
of the repository are an earlier copy of the application with a stub C layer.
The models follow `src/ViDesk`.

### What is hard

Three kinds of thread share a session. The main actor runs jobs between
suspension points. A global-queue thread runs `viDesk_connect`, for up to the
30 s connect timeout and longer. A detached task runs the event loop and
everything FreeRDP calls from it. The raw C pointer is shared by all three
without a lock. A notification of the C layer reaches the session through two
unstructured tasks (`FreeRDPContext.swift:328`, `RDPSession.swift:183`), so
whatever it reports may be out of date when it is handled. Cancellation of the
event loop is cooperative and is not waited for, and the reconnect logic compares
a counter in one task and increments it in another.

Away from the session's life the hard things are of three kinds. Pixels cross three
clocks (the event loop's thread, the main actor, the display link) while a resize
replaces each of three buffers at a different moment. A gesture lasts while the
picture, the link and the binding change under it. A saved connection is in two stores,
each of which may fail or be cut off between two calls. `PROJECT.json` lists the
hazards with their lines.

### What makes each part correct

- Session and wrapper: no C call on a freed context; while the session lives, no context
  lost and no loop or timer that it cannot stop, and none that gets out of its reach; one
  connect per context; the state the user sees
  agrees with the connection underneath once nothing is under way; no spinner for
  ever; attempts stay within the maximum; a disconnect stays a disconnect; a loss
  is noticed.
- Clipboard: the text that is served is one the user copied; once nothing is under
  way the text held is the one last copied on the remote side, and it gets there.
- Frames: the user ends up seeing what the remote screen shows; nothing is uploaded
  outside the texture; what was read from the wrong memory does not stay.
- Input: the remote pointer is where the finger is; a pinch scrolls the way it was
  made; a button that is down is one the client knows to be down, and a drag ends.
- Connections: an operation that reports no error has left list, context and disk
  equal; no failure and no crash leaves a password behind without its entry.

## 2. The plan

| Order | Module | What it adds | Status |
|---|---|---|---|
| 1 | `FreeRDPBridge` | contexts of the C layer as operators on a table | done |
| 2 | `RDPSession` | session, wrapper, view and threads over it | done |
| 3 | `ContextLifetime` | abstract owner of a native resource, implemented by `RDPSession` | done |
| 4 | `RDPSessionProofs` | ownership, refinement, no use after destroy | done |
| 5 | `Cliprdr`, `CliprdrProofs` | clipboard channel, main thread against channel thread; every safety property proved | done |
| 6 | `FramePipeline`, `FramePipelineProofs` | paint, resize, copy, dirty regions, texture; every safety property proved | done |
| 7 | `Viewport`, `PointerInput`, `PointerInputProofs` | where a touch goes, through letterboxing and session states; every property but one finding proved | done |
| 8 | `ConnectionStore`, `ConnectionStoreProofs` | SwiftData and keychain with failures and restarts; every property proved | done |
| 9 | `RDPSessionManualProofs` | stoppability, what outlives its session, and one connect at a time, without automatic reconnection | done |
| 10 | `RDPSessionOrderProofs` | no spinner and no hidden connection at rest, with tasks in order | done |
| 11 | `RDPSessionAttemptsProofs` | how many attempts are made and how many connects run, with automatic reconnection | done |
| - | `KeyboardMapper`, `Settings`, `ErrorText` | dropped: section 7 says why | - |

Every safety property that a passing run checks is stated by a theorem.

## 3. The modules

### `FreeRDPBridge`

The C layer's table of contexts. One Swift function often makes several bridge
calls without giving up the main thread, so a bridge function is an operator from
the table to the table it leaves, and the notifications it posts are an operator
of their own (`DisconnectPosts`). `life` says whether `viDesk_createContext` or
`viDesk_destroyContext` has run; an identity is used once, so a stale pointer is
recognised as stale whatever `malloc` does. `isConnected` is the bridge's flag.
`transport` is what FreeRDP has underneath, and is external: the peer or the
network may cut it at any time (`TransportLost`). On a context that has been freed
`viDesk_processEvents` may return anything (`ProcessEventsResults`).

### `RDPSession`

| Model | Code |
|---|---|
| `mainq`, `Ready` | the main actor's queue. `OrderedTasks` chooses between the order tasks were made in, which the executor gives in practice, and any order, which is all the language promises |
| `DeliverNotification`, `HandleNotification` | the wrapper's task, and the session's task with `handleConnectionStateChange` and `handleDisconnection` |
| `ViewModelConnect`, `ViewModelReconnect`, `PerformConnect` | `RemoteDesktopViewModel.connect` and `reconnect`, `RDPSession.connect`, `performConnect` up to its `await`: creation fails, a setter fails (`SettersMayFail`) or a call is dispatched |
| `ConnectStarts` ... `ConnectFailsLate` | `viDesk_connect` on its thread. Whether `freerdp_connect` calls PostDisconnect when it fails before PostConnect is FreeRDP's affair: `FailurePostsToo` has both |
| `PerformConnectResumed` | `performConnect` after its `await`; `startEventLoop` and `startStatisticsTimer` overwrite what they remember |
| `ReconnectTask`, `SleepOver`, `ReconnectTaskWakes` | the task of `handleDisconnection`: count, disconnect, destroy; sleep; connect again |
| `LoopTop`, `ProcessEventsReturns` | the event loop, inside and outside the C call |
| `ToolbarDisconnect`, `DisconnectAndDismiss`, `OnDisappear`, `TapRetry` | what the user can do to a session |
| `ConnectionLost` | the link is cut |

A main-actor job is one step up to its next suspension point: the main actor is
not reentrant before that. A background thread interleaves with everything at the
points where it reads or writes shared state: `viDesk_PostConnect` is two steps
(`PostConnect` stores `isConnected`, `PostConnectNotifies` calls back), as the main actor may
disconnect between them.

`SessionAlive` is why a handler may find no session: handlers hold it weakly, suspended calls
hold it strongly. `eventLoopTask` and `statisticsTimer` are fields of the session
(`RDPSession.swift:29-30`) and die with it, while the detached task and the scheduled timer
run on; `OwnedLoop` and `OwnedTimer` are what a session that lives can still stop. Nothing
is stopped or freed when it dies: the task that `deinit` starts finds `self` nil, so `cleanup()`
(`RDPSession.swift:44-48`, `396-399`) never runs, and the wrapper, which retains itself
(`FreeRDPContext.swift:304`), stays with its context. So the end of a session is no action; it is
the moment `SessionAlive` becomes false.

### `ContextLifetime`

What the owner of a native resource promises, in two variables. In `RDPSession`,
`Lifetime == INSTANCE ContextLifetime` maps `owned` to the wrapper's pointer and
`destroyed` to the contexts that have been freed. A second allocation while one
exists, a lost pointer or a double free would be no step of it.

### `Cliprdr`

The clipboard of one session, over a connection that is only as detailed as the
clipboard needs. A text in the C layer is a pointer that two threads free and
read without a lock, so `viDesk_setClipboardText` is three steps (free, `_strdup`,
announce), `viDesk_getClipboardText` two, and a callback that reads or replaces a text
two or three. `torn` marks a read whose text has been freed or filled
meanwhile; `ReadResults` lists what such a read may give.

| Model | Code |
|---|---|
| `SetClipboardText`, `TextStored`, `TextNotStored`, `TextAnnounced` | `syncClipboardToRemote`, `viDesk_setClipboardText` |
| `GetClipboardText`, `TextReturned` | `getRemoteClipboard`, `viDesk_getClipboardText`, the toolbar's button |
| `HandleMonitorReady` | `viDesk_cliprdr_MonitorReady` |
| `HandleServerFormatList`, `BestFormat` | `viDesk_cliprdr_ServerFormatList` |
| `HandleServerFormatDataRequest`, `Answer`, `DataResponseSent` | `viDesk_cliprdr_ServerFormatDataRequest` |
| `HandleServerFormatDataResponse`, `UnicodeDecoded`, `AnsiAllocated`, `AnsiFilled` | `viDesk_cliprdr_ServerFormatDataResponse` |
| `HandleRemoteClipboardChanged`, `mainq` | the two tasks of the notification and the session's handler |
| `ChannelConnected`, `Disconnect` | the channel event handlers with `viDesk_cliprdr_init` and `viDesk_cliprdr_uninit` |
| `ServerCopies`, `ServerPastes`, `ServerReceives` | the remote side, external: it owns its clipboard or has given it to the client, answers a request from what it owns in that format or refuses |

That FreeRDP's `ClientFormatDataRequest` sets `lastRequestedFormatId`, and that
`freerdp_disconnect` ends the channel's thread before it raises
ChannelDisconnected, is FreeRDP's behaviour and taken as such.

### `FramePipeline`

How a pixel gets from the remote screen to the texture, through three buffers
that a resize replaces at three different moments. A rectangle is the set of its
pixels; two tasks of a notification are one entry of `mainq`.

| Model | Code |
|---|---|
| `primary`, `PaintBegins`, `PaintEnds` | FreeRDP's primary buffer and its decoder, external. While it paints, a copy may get the old or the new colour of a pixel |
| `PostConnect`, `EndPaint` | `viDesk_PostConnect` and `viDesk_EndPaint` with the callback that posts the rectangle |
| `GdiResize`, `FrameWidthStored`, `FrameHeightStored`, `FramePointerStored`, `ResizeReported` | `viDesk_DesktopResize` in the steps another thread can tell apart: `gdi_resize`, which frees the old buffer unless the size is the one it has; the stores of width, height and pointer; the notification |
| `GdiResizeFails` | `gdi_resize` gets no memory: the gdi has no primary buffer any more, and the event loop ends. The session keeps a picture that no one updates |
| `Disconnect`, `LeavesFreedGdi` | `RDPSession.disconnect` with `viDesk_PostDisconnect`, which frees the gdi on the main thread wherever the loop's thread is; that thread leaves, or reports once more what it painted |
| `InitializeFrameBuffer`, `HandleFrameUpdate`, `HandleDesktopResize` | the session's handlers of the same names |
| `Copied`, `Updated` | `FrameBuffer.update` with its own bounds check: the source is read with the destination's row length, so anything but an equal width and an existing row is `Junk` |
| `NeedsTexture`, `UpdateUIView` | the renderer's `frameBuffer` and the guard of `createTexture`; the buffer it lets go of is freed |
| `Draw` | `updateTexture`: pop the dirty regions and upload them |

### `Viewport` and `PointerInput`

`Viewport` has the two places in `MetalRenderer` that say where the picture is:
`calculateVertexData` (`QuadSize`, `PixelShown`) and `viewToTextureCoordinate`
(`ConvertedSize`, `ViewToTexture`). Lengths are exact fractions: rounding of the
floating-point numbers is left out, the truncation to whole pixels is not.

`PointerInput` takes a gesture to the mouse of the remote side.

| Model | Code |
|---|---|
| `HandleTap`, `HandleLongPress`, `PanBegins`, `PanMoves`, `PanEnds`, `HandlePinch` | the coordinator's handlers in `DesktopCanvasView.swift` with the `InputManager` methods they call. A single and a double tap are one action: they differ in how often the button goes down and up |
| `Reaches`, `Send` | the session's guard on `.connected`, the binding of the `InputManager`, and a link that may be lost without the session knowing |
| `WheelRotation`, `Rotation` | the nine bits `viDesk_sendMouseWheel` makes, and what the receiver takes them for |
| `ViewResized`, `DrawableSizeWillChange` | the view's bounds change, in points, and some time later the drawable, in pixels: `ContentScale` of them to a point. The picture is drawn for the drawable, a touch is converted by the bounds |
| `CreateTexture`, `SetScaleMode`, `CanvasReplaced` | the desktop changes size, the user picks a scale mode, an error view takes the canvas's place |
| `SessionConnected`, `LinkLost`, `SessionDisconnected`, `ViewModelDisconnect` | what `RDPSession` does, as far as input can tell; the last one unbinds for good |

### `ConnectionStore`

A configuration is an object of the model context, a row on disk and, perhaps, an item
of the keychain. An operation is a sequence of the calls that can fail; which ones may fail
is chosen at the start of a behaviour (`faults`), and the application may end between any two.

| Model | Code |
|---|---|
| `AddConnection`, `DeleteConnection`, `MarkAsConnected`, `ListAppears`, `PerformSearch` | the view model's operations up to their first call that can fail; duplication is an addition without a password |
| `UpdateConnection` | `AddConnectionView.saveConnection`, which writes into the object before it asks for a save, and `updateConnection` |
| `Save`, `LoadConnections`, `LoadRecent`, `LoadRecentFails` | `save`, `update`, `delete`, `fetchAll` and `fetchRecent` of the storage service; the second fetch may fail when the list has been replaced by the first |
| `DeletePassword`, `AddPassword`, `PasswordIsDuplicate` | `savePassword`: the old item is deleted with `try?`, the new one added, an item that is still there is an error; also the delete of a configuration |
| `Listed` | the objects the user can pick: the list, the recent connections and the search results, which are not reloaded by a deletion |
| `Autosave`, `Restart` | SwiftData's main context saves by itself; the application ends and starts |

### Modules for TLC and modules of proofs

`MCRDPSession`, `MCCliprdr`, `MCFramePipeline`, `MCPointerInput` and `MCConnectionStore` extend
the component and define the values a `.cfg` cannot write down, and the symmetry of
`ConnectionStore`. The eight modules whose names end in `Proofs` are in section 6; of the four about
`RDPSession`, `RDPSessionManualProofs` and `RDPSessionAttemptsProofs` extend `RDPSessionProofs`,
and `RDPSessionOrderProofs` extends `RDPSessionManualProofs`. The definitions marked
"Mutant" stand beside the definition they would replace; each one is a plausible bug that
breaks a property of a run.

## 4. The runs

`CHECK_DEADLOCK FALSE` appears where the system really stops: a session whose view has gone,
users who copy and paste no more, a remote side that has used up its changes.

| Run | Question | Constants | Distinct states |
|---|---|---|---|
| `manual` | Automatic reconnection off, setters that may fail: does the state agree with the connection underneath (`NoHiddenConnection`), is `freerdp_connect` entered once at a time (`OneConnectPerContext`), do threads, loops and timers stay under control (`NoUseAfterDestroy`, `LoopsStoppable`, `TimersStoppable`), and how can one get out of reach (`OrphansComeLate`)? | 2 contexts, 3 calls, 2 retries | 7,378 |
| `reconnect` | Automatic reconnection against a user's retry: one owned context, no spinner left, `LifetimeSpec`; how far past the maximum do retries take the attempts (`AttemptsWithinRetries`), and is it a retry that takes two threads into one connect (`OneConnectUntilRetry`)? | 3 contexts, 3 calls, 1 attempt, 1 retry | 6,734,548 |
| `live` | Does a session leave its spinner, does a cancelled loop end, and do attempts stay within the maximum although compared and counted in two tasks? | 2 contexts, 3 calls, 1 attempt, fair | 64,030 |
| `clip` | Does a paste on the remote side get what the user sent, however the threads meet (`PasteGetsCopiedText`), does the application end with the text last copied there, however the messages cross (`RemoteTextCurrentAtRest`), and does it get it (`SyncsEventually`)? | 3 texts, 2 copies here, 2 there, 2 pastes, 4 of them together, 2 connections, fair | 1,142,027 |
| `frames` | Does the user end up seeing the remote screen (`PictureCurrentAtRest`, `ScreenCatchesUp`), do uploads fit (`UploadsFit`), does what was read from the wrong place go away (`JunkIsReplaced`)? | a 2 x 1 and a 1 x 2 desktop, 1 change, 2 notifications, 2 connections, fair | 810,769 |
| `input` | Is the pointer under the finger (`PointerUnderFinger`), does a pinch scroll its own way (`ScrollsTheWayPinched`), is a button that is down known to be (`ButtonsKnown`)? | 2 views, 2 textures, 36 points, 7 pinches, 2 pixels to a point | 112,104 |
| `store` | Does success mean that lists, context and disk agree (`SuccessSettles`), and when does a password outlive its configuration (`OrphanedByEditOnly`)? | 2 configurations, 1 password, every set of failing calls | 2,524,080 |
| `destroy`, `disconnect`, `loss`, `frames_skip`, `drag` | The five findings below | as `live`, `frames` and `input`; the first three with 1 attempt and no retry, `frames_skip` with a 2 x 1 and a 1 x 1 desktop, 2 changes and 1 connection | counterexamples |

Every run that passes checks `TypeOK` in addition, except `reconnect` and `live`.

### Bounds

- `Call` bounds how many connect calls a behaviour makes: the next one is not
  dispatched. With `k` attempts and `r` retries and each attempt made once, a
  behaviour makes at most `1 + k + r(1 + k)` calls, so nothing is cut in `manual`
  and `live`. In `reconnect` a fourth call is cut: the
  three that remain are the first connect, the automatic one and the user's retry
  in every interleaving.
- `Context` bounds how often a context can be created. When identities run out,
  creation fails, which the code can also do.
- `MaxReconnectAttempts` is 3 in the source and 1 where automatic reconnection
  is on. The guard compares with it and nothing else depends on its value.
- `MaxRetries` bounds the user's taps of "retry".
- `AutoReconnect` is a constant because `config` does not change while a session
  runs.
- `MaxCopies`, `MaxServerCopies`, `MaxPastes` and `MaxActs` bound what the two users do: each at
  most twice, and four times together. Two copies on one side make one overtake the other;
  two here free and replace a text while it is read, and a copy overtakes the paste of an
  earlier one; the second paste gets what the first met. Four acts leave room for two and two,
  and for two of one kind beside one each of the others. Three texts tell the
  empty one, the old one and the new one apart.
- `MaxChanges` bounds the resizes, and the paints that are not the repainting a resize asks
  for. The two desktops differ in both dimensions, so that copies meet another row length, and
  a size read between the two stores of a resize is a third one. The second connection may have
  the other size: frames and resizes reported for the first are handled in it, which is also
  how a frame arrives that does not fit the session's buffer. Two changes within one
  connection are in `frames_skip` and in the proofs, which hold for all sizes and bounds.
- `View`, `Texture`, `Point` and `Delta` have a case on each side of every comparison: pictures with bars
  at the sides, above and below, and none; points on, at the edge of and outside the picture and the view;
  pinches at and beyond the largest rotation. With `ContentScale` 1 points and pixels would be the same numbers.
- Two configurations interfere through the shared context; one password suffices because nothing compares two.

### Fairness

`live` and `loss` assume weak fairness of the main actor's executor, of the end of
a sleep, of each connect thread and of each event loop. The first three are the
Swift runtime's scheduling. A connect thread ends because `viDesk_PreConnect`
sets a 30 s `TcpConnectTimeout` (`FreeRDPBridge.c:526`), a loop's turn because
`viDesk_processEvents` waits at most the 16 ms it is given
(`RDPSession.swift:361`). Nothing is assumed of the user or of the network.

`clip` assumes that a bridge call ends, that the channel's thread goes on and
that a message arrives while the connection lasts. The main actor's fairness is
strong there: its queue is first in, first out, so a user who keeps tapping does
not keep a task waiting.

`frames` assumes that the thread and the main actor go on, that SwiftUI updates a view
whose observed state has changed, that the display link draws, and that the remote side paints a
desktop it has resized. Nothing is assumed of further paints, resizes and disconnects.

### What holds, and under what

With automatic reconnection off, all of `ContextOwned`, `OrphansComeLate`, `NoUseAfterDestroy`,
`LoopsStoppable`, `TimersStoppable`, `OneConnectPerContext`, `AttemptsBounded`,
`NoHiddenConnection` and `NoSpinnerAtRest` hold when tasks run in order. `LoopsStoppable`
and `TimersStoppable` speak of a session that lives; what happens to a loop whose session
does not is `OrphansComeLate`: one that the session could stop never gets out of reach, and one that no one
can stop was started after the view had gone. In any order
`NoHiddenConnection` and `NoSpinnerAtRest` are lost: a late "connecting" or
"disconnected" overwrites what the session has become. The runs keep the order; of the proofs
of section 6 only those of `RDPSessionOrderProofs` need it.

With it on, `ContextOwned` and `NoSpinnerAtRest` still hold. `OneConnectPerContext`
and `AttemptsBounded` hold as long as the user does not retry; a retry while a reconnect
task sleeps makes a second call on the context the task will use, and resets the counter
that task has already passed. What holds whatever the user does and in whatever order the
tasks run is `OneConnectUntilRetry` (two threads in one connect means that the user has retried)
and `AttemptsWithinRetries` (each retry adds at most one attempt to the maximum).
`NoUseAfterDestroy`, `LoopsStoppable`, `TimersStoppable`, `OrphansComeLate` and
`NoHiddenConnection` do not hold. The runs above check each property where it is a property of the
code; the `violation` runs show what a reader of the documentation would
expect and not get.

When a setter fails, `performConnect` throws and leaves the state at `.connecting`
(`RDPSession.swift:214-247`). When the user's call fails in this way the error view covers the spinner; in an
automatic reconnection `try?` (`RDPSession.swift:352`) drops the error and the spinner stays.
`SettersMayFail` is therefore on in `manual` and off where `NoSpinnerAtRest` and
`SpinnerEnds` are checked.

`ContextOwned` and `LifetimeSpec` say that the wrapper's pointer is the one live context. No
one frees it when the session ends (section 3), so "no context is lost" is true of a session
that lives and of no other.

`PointerUnderFinger` is about `.fit`, the mode a session starts in, and about a drawable that has
followed the view's bounds (`DrawableFollowsView`).
`JunkIsReplaced` and `PictureCurrentAtRest` are about a desktop that exists: after a failed resize there is
none, and what was copied wrongly may stay in the frozen picture until the session ends.
`OrphanedByEditOnly` is about a keychain whose delete works: `deletePassword` is always called with
`try?`.

## 5. Findings

1. `destroy`: `handleDisconnection`'s task calls `context.destroy()` while a
   cancelled event loop or a connect thread is still in a C call on that context.
   `stopEventLoop` cancels and does not wait.
2. `disconnect`: `disconnect()` makes the C layer post "disconnected"; it is handled
   after `disconnect()` has returned and is taken for a loss. With
   `autoReconnect` on, the user's disconnect reconnects. The repository's
   `README.md:145` draws it to Disconnected.
3. `loss`: when the link is cut, `viDesk_processEvents` returns false, the loop
   breaks and tells no one. The session stays connected. `README.md:148` and
   `docs/Progress.md:86` promise reconnection. Findings 2 and 3 together: automatic
   reconnection is triggered by what the user asked for and by connects that
   fail, never by a lost link.
4. `frames_skip`: `RDPSession.swift:300` says that frames of another size are skipped until
   the resize is handled. The code compares the rectangle with the session's own buffer, not the
   source with it: a frame that was reported before a resize is copied from the freed buffer,
   or from one with another row length. `JunkIsReplaced` says that this does not last.
5. `drag`: `handlePan` returns early when the finger is off the picture, before it looks at the gesture's
   state. A drag that ends on the bars or beyond the view leaves the remote side's button down;
   `ButtonsKnown` says that `isMouseDown` at least remembers it, and nothing reads that.

### Known divergences without a run

- `NothingSurvivesTheView` (`RDPSession`) is false: a view that goes away during a handshake
  disconnects a context that is not connected, which does nothing (`FreeRDPBridge.c:1250`). The connect
  then succeeds, the session is released, and a connection, its event loop and its timer remain that no one can
  stop. `RDPSession.swift:6` and `docs/Progress.md:82` speak of managing the complete life cycle.
  `OrphansComeLate` says that this is the only way.
- `DecodedAsRequested` (`Cliprdr`) is false: a response is decoded by
  `lastRequestedFormatId`, the format of the newest request (`FreeRDPBridge.c:292`). Two copies in a
  row on the remote side, offered in different formats, mangle the first text. It does not stay:
  `RemoteTextCurrentAtRest` holds all the same, because the last response answers the last request.
- `ReturnsLiveText` (`Cliprdr`) is false: `viDesk_getClipboardText` duplicates the remote text on
  the main thread while the channel's thread frees it or fills it. The mirror image, a paste
  that meets `viDesk_setClipboardText`, is in `PasteGetsCopiedText`: garbage only when the
  user was sending another text at that moment.
  (Each of these three is kept as a definition: listed as an INVARIANT, TLC prints the behaviour.)
- A setter that fails in an automatic reconnection leaves a spinner and no error (`RDPSession.swift:352`).
- After the toolbar's disconnect and an automatic reconnection the session takes no input:
  `RemoteDesktopViewModel.disconnect` unbinds the `InputManager` and only the view's appearance binds it.
- In `.fill` and `.native` a touch is converted as if the picture spanned the view, which is not how it is drawn.
- A point on the far edge of the picture converts to the width or the height, one past the last pixel.
- `viDesk_sendMouseWheel` sends a negative rotation as a magnitude with the sign flag, which the
  receiver takes for two's complement: a small pinch inward scrolls far, a large one little.
  The direction is right (`ScrollsTheWayPinched`).
- A configuration that was deleted stays in the search results, and in the recent connections if
  fetching those fails; editing it there with a password puts that password back into the keychain, for a configuration that no longer exists.
- When the keychain's delete fails, deleting a configuration leaves its password behind.
- The fields of an edit whose save failed stay in the object and are saved with the next operation.

## 6. The proofs

Every theorem is for all values of the constants that the named ASSUMEs of its
module allow: nil values outside their sets, bounds that are naturals, at least two `FrameBuffer` objects,
sizes that are not empty. TLC evaluates the assumptions in every run.

### `RDPSessionProofs`

| Theorem | States |
|---|---|
| `TypeCorrectness` | `Spec => []TypeOK` |
| `Ownership` | `Spec => []ContextOwned`: the wrapper's pointer is the one live context |
| `LifetimeRefinement` | `Spec => LifetimeSpec`: the session implements `ContextLifetime` |
| `NoUseAfterDestroyWithoutAutoReconnect` | `~AutoReconnect` implies `Spec => []NoUseAfterDestroy` |

The inductive invariant is `IInv == TypeOK /\ ContextOwned /\ ThreadsUseBorn`.
`ContextOwned` alone is not inductive: PostConnect and the failing connect write
through the pointer a thread was given, and without `ThreadsUseBorn` (a
thread holds a context that has been created) that pointer might be nil or one
still to come. There is one lemma per action, resting on lemmas about the queue
(`WithoutType`, `PostedType`) and the table (`LivesKept`, `LivesChanged`).

The refinement has one interesting case per abstract action: `PerformConnectCreates`
(performConnect creates only if it has nothing) and `ReconnectDestroys`.
`OnlyReconnectDestroys` says that nothing else frees a context, which is also
the core of the last theorem: with automatic reconnection off the queue never
holds a reconnect task (`QueueStaysWithout`), so nothing is freed, and by
`ThreadsUseBorn` a context that is used and not freed is live.

### `RDPSessionManualProofs`

| Theorem | States |
|---|---|
| `LoopsStoppableWithoutAutoReconnect` | `~AutoReconnect` implies `Spec => []LoopsStoppable` |
| `TimersStoppableWithoutAutoReconnect` | `~AutoReconnect` implies `Spec => []TimersStoppable` |
| `OrphansComeLateWithoutAutoReconnect` | `~AutoReconnect` implies `Spec => OrphansComeLate` |
| `OneConnectWithoutAutoReconnect` | `~AutoReconnect` implies `Spec => []OneConnectPerContext` |

None of these is inductive, because none says why `performConnect` never finds a loop still running.
`OneStart` does: at any moment there is at most one thing that can lead to a connection. It is the
view's appearance, a retry, the resumption of a call, a call inside `viDesk_connect`, or the error the user may answer;
each one makes the next and ends (`Resting`, `Asking`, `Starting`, `InCall`). While one is
`Starting` or `InCall` there is nothing to stop. `LoopsRemembered` and `TimersRemembered` say of the two
fields what `LoopsStoppable` and `TimersStoppable` say of a session that lives, and are true whether
it does or not. `OrphansComeLate` adds what happens when the view goes: it stops what
runs, and while a session without a view still lives there is nothing to stop (`GoneStopped`, with
`RestingDies`: a session no one uses dies with its view). What its last call starts is out of reach from
the start. The order of the tasks plays no part.

### `RDPSessionOrderProofs`

| Theorem | States |
|---|---|
| `NoSpinnerInOrder` | `OrderedTasks` and `~SettersMayFail` imply `Spec => []NoSpinnerAtRest`, with automatic reconnection on or off |
| `NoHiddenConnectionWithoutAutoReconnect` | `OrderedTasks` and `~AutoReconnect` imply `Spec => []NoHiddenConnection`, setters that fail included |

Both properties speak of a session at rest and say nothing while something is under way. The invariants
say what is awaited then. For the spinner (`SpinInv`): a call, a job or a sleep that will end it,
or a notification whose handler finds the session alive; and "connecting" is the last notification still to be
handled only while a thread is between the start of the handshake and the notification of PostConnect
(`Telling`), and will send another. That every call that
has returned has exactly one answer in the queue is an invariant of its own (`AnswersDue`). For
the connection (`HiddenInv`): one that is up belongs to a call about to return, to a successful
answer in the queue, or to a session that has settled on it (`ConnectionAccounted`), and the last
notification on the way, if any, says "connected" (`LastSaysConnected`), so that late ones do no
harm. Order is what makes "the last one" meaningful: with tasks in any order both theorems are false.

### `RDPSessionAttemptsProofs`

| Theorem | States |
|---|---|
| `AttemptsWithinRetriesAlways` | `Spec => []AttemptsWithinRetries` |
| `AttemptsBoundedWithoutRetry` | `MaxRetries = 0` implies `Spec => []AttemptsBounded` |
| `OneConnectUntilRetryAlways` | `Spec => []OneConnectUntilRetry` |

The guard compares the counter in one task and another task counts, so `AttemptsBounded` would be false if two
such tasks were ever pending at once, and nothing in its statement excludes that. `ChainInv` does, by
counting. A connect call before PostConnect, a connected context, a "disconnected" on its
way, a reconnect task, its sleep and its waking are links of a chain; a step ends a link and makes
at most one, and only a tap of retry starts a chain. Hence there are at most `1 + retries` chains, and
the counter with the reconnect tasks still to count exceeds the maximum by at most the retries.
The counting rests on lemmas about what taking and appending a job do to the number of jobs of
a kind (`CountTaken`, `CountAppended`). `OneConnectUntilRetry` follows from the one chain there is
before the first retry (`OneChain`), with the fact that a chain on its way back to a connect has let go of its context.

### `CliprdrProofs`

| Theorem | States |
|---|---|
| `TypeCorrectness` | `Spec => []TypeOK` |
| `PasteGetsWhatWasCopied` | `Spec => []PasteGetsCopiedText` |
| `RemoteTextCurrent` | `Spec => []RemoteTextCurrentAtRest` |

Three invariants, each proved action by action over the ones before it. `Types` adds to
`TypeOK` what the threads hold where they are and which messages a wire carries.
`PasteInv` follows an answer: a paste under way is one request, one callback at work or one
response (`OneAnswer`), and whatever it has become is justified by what the user has sent
since (`AnswerInv`), because what is served is the text sent last unless that is just being
stored (`LocalInv`). `PasteGetsCopiedText` alone says nothing while a paste is open, which is
when things go wrong. `SyncInv` follows a text of the remote side along the places it passes:
the last format list, the last request, the last response, the decoder, the client's text.
It is in the first of them that is not over, and the format asked for is the one that list
calls for, so a response decoded in the wrong format is never the last. Both rest on lemmas about
queues: what sending and taking a message do to the last one of a kind (`Sent`, `Taken`).

### `FramePipelineProofs`

| Theorem | States |
|---|---|
| `TypeCorrectness` | `Spec => []TypeOK` |
| `CurrentAtRest` | `Spec => []PictureCurrentAtRest` |
| `UploadsInside` | `Spec => []UploadsFit` |
| `JunkGoes` | `Spec => []JunkIsReplaced` |

`PictureCurrentAtRest` says something only of a system at rest, so the invariant has to say for each
pixel where the difference between the remote screen and the texture is accounted for (`Accounted`): the remote
side owes it (a resize leaves everything owed, however many of its stores have been made: `WhileStoring`), it is being painted, it lies in a queued rectangle after which no resize
comes (`Reported`), or it is in the FrameBuffer and dirty or uploaded already
(`Settled`). `BufferInv` makes the FrameBuffer the right one once no resize is pending, and
`TextureInv` ties the texture to the buffer it was made for.

### `PointerInputProofs`

| Theorem | States |
|---|---|
| `FittedPointIsPixelShown` | for all sizes and points, conversion and drawing agree in `.fit` |
| `TypeCorrectness` | `Spec => []TypeOK`: no negative coordinate, no rotation beyond nine bits |
| `ButtonsTracked` | `Spec => []ButtonsKnown` |
| `ScrollDirection` | `Spec => []ScrollsTheWayPinched` |
| `PointerFollowsFinger` | `Spec => PointerUnderFinger` |

The first is arithmetic: both functions compute the same rational number over
different denominators and in different units, so a common factor has to cancel under the
integer division (`FactorCancels`, and `ScaledLength` for the pixels of a point). The others follow from `TypeOK` and the action at hand.

### `ConnectionStoreProofs`

| Theorem | States |
|---|---|
| `TypeCorrectness` | `Spec => []TypeOK` |
| `Settles` | `Spec => []SuccessSettles` |
| `OrphansComeFromEdits` | `Spec => OrphanedByEditOnly` |

`SuccessSettles` needs `SavedBeforePassword`: between an operation's save and its end nothing is pending, and what has
been fetched by then is what is there.
`OrphanedByEditOnly` needs `DeletedHasNoPassword`: if the keychain deletes what it is told to,
a configuration that is on disk and no longer in the context has lost its password, so
that neither a restart nor the save can orphan one.

### Only model-checked

Liveness under fairness (`SpinnerEnds`, `CancelledLoopsEnd`, `SyncsEventually`, `ScreenCatchesUp`) is
outside what the prover does and stays with TLC.

## 7. What is not modelled

- One session per model: the global callback table and error string of the C
  layer are shared by sessions, and only one exists at a time
  (`App/ContentView.swift` shows one view). The error string itself, which two threads free and read, is a listed
  hazard without a property: a model would say what the two functions say.
- The keyboard: `InputManager.handleKeyEvent` is called by no view, so neither is `KeyboardMapper`, whose
  table gives one scan code to several keys (left Shift and left Alt, and keys of the number pad).
  The same is true of `moveCursor`, the gaze and two-finger methods and `GestureTranslator`'s handlers.
  `sendText` (`RemoteDesktopView.swift:248`) and `sendSpecialKey` (`SessionToolbarView.swift:122`) are called; they
  pass keys on to the session and keep no state.
- `Settings`: values written to and read from the user defaults one by one, none of which
  depends on another.
- Connections: import, export and folders, which no view calls; `credentialKeyRef` is
  modelled as a flag that is written; no code reads it.
- Statistics, certificates, error texts and logging, which decide nothing.
- `AudioChannel` and `ClipboardChannel`: nothing constructs them.
- In `Cliprdr`: the capabilities of both sides, which nothing reads; a send that
  fails; a link lost under the channel (nothing arrives any more, and the session
  stays connected: finding 3).
- In `FramePipeline`: how large the dirty list grows while nothing is drawn; pixel formats; `updateFull`,
  `copyToTexture` and `resize`, which nothing calls.
- What two threads inside FreeRDP on one instance do to each other. That a
  connect is not entered twice is `OneConnectPerContext`; what the frame
  pipeline does when the gdi is freed under the loop's thread is `LeavesFreedGdi`.
- Reuse of a freed address by a later allocation.
- Most of the repository's lines: the headers of FreeRDP, WinPR and OpenSSL and
  the build scripts are third-party code without behaviour of their own here, and the earlier
  copy of the application is not built.
