------------------------------ MODULE Cliprdr ------------------------------
(****************************************************************************)
(* The clipboard of a session: the cliprdr callbacks of FreeRDPBridge.c,    *)
(* viDesk_setClipboardText and viDesk_getClipboardText, and what the        *)
(* session does with them.                                                  *)
(*                                                                          *)
(* Two threads of the application share the texts without a lock: the main  *)
(* thread, which serves the toolbar's two buttons, and the thread on which  *)
(* FreeRDP calls the callbacks of the channel.  Between the free, the       *)
(* allocation and the use of a text a thread can be overtaken, so these are *)
(* steps of their own.  The remote side is external: it is modelled as far  *)
(* as the callbacks depend on it.                                           *)
(****************************************************************************)
EXTENDS Sequences, Naturals

CONSTANTS
    Text,       \* the texts somebody copies
    EmptyText,  \* the text without characters
    MaxCopies,       \* bound: texts the user sends to the remote side
    MaxServerCopies, \* bound: times something is copied on the remote side
    MaxPastes,       \* bound: times the remote side pastes
    MaxActs,         \* bound: the three of them together
    MaxConnections   \* bound: connections of the session

(* What a pointer or a message may hold instead of a text.                  *)
NoText == "no text"    \* NULL
Dangling == "dangling" \* a pointer to a text that has been freed
Garbage == "garbage"   \* what a read finds of a text freed or filled meanwhile
Mangled == "mangled"   \* what decoding in the wrong format leaves
Refused == "refused"   \* CB_RESPONSE_FAIL

Value == Text \cup {NoText, Dangling, Garbage, Mangled, Refused}

ASSUME EmptyTextAssumption == EmptyText \in Text
ASSUME TextAssumption == Text \cap {NoText, Dangling, Garbage, Mangled, Refused} = {}
ASSUME BoundsAssumption ==
    {MaxCopies, MaxServerCopies, MaxPastes, MaxActs, MaxConnections} \subseteq Nat

VARIABLES
    state,               \* RDPSession.state
    isConnected,         \* ViDeskContext.isConnected
    cliprdr,             \* ViDeskClientContext.cliprdr # NULL
    localClipboardText,  \* the text served to the remote side
    remoteClipboardText, \* the text fetched from the remote side
    lastRequestedFormatId,
    main,                \* the main thread's bridge call
    channel,             \* the channel thread's callback
    mainq,               \* texts on their way to the session, oldest first
    sessionText,         \* RDPSession.remoteClipboardText
    pasteboard,          \* what getRemoteClipboard last returned
    toServer, toClient,  \* the channel's messages, in the order sent
    server,              \* the remote side
    paste,               \* its last paste, with what that might get (history)
    count                \* what has happened so far (bounds)

linkVars == <<state, isConnected, cliprdr>>
textVars == <<localClipboardText, remoteClipboardText, lastRequestedFormatId>>
swiftVars == <<mainq, sessionText, pasteboard>>
threadVars == <<main, channel>>
wires == <<toServer, toClient>>
remoteVars == <<server, paste>>
vars == <<linkVars, textVars, swiftVars, threadVars, wires, remoteVars, count>>

----------------------------------------------------------------------------
(* Formats and messages. *)

Unicode == "CF_UNICODETEXT"
Ansi == "CF_TEXT"
TextFormat == {Unicode, Ansi}

(* A format list names any formats, a request and a response just one, and  *)
(* a response also carries a text, or Refused.                              *)
Message == [kind : {"monitor_ready", "format_list", "data_request", "data_response"},
            formats : SUBSET TextFormat, text : Value]

MonitorReady == [kind |-> "monitor_ready", formats |-> {}, text |-> NoText]
FormatList(fs) == [kind |-> "format_list", formats |-> fs, text |-> NoText]
DataRequest(fs) == [kind |-> "data_request", formats |-> fs, text |-> NoText]
DataResponse(fs, t) == [kind |-> "data_response", formats |-> fs, text |-> t]

(* viDesk_cliprdr_send_client_format_list always offers both formats.       *)
ClientFormatList == FormatList(TextFormat)

(* A thread inside a call: where it is, the text or format it holds, and    *)
(* whether what it is reading has been changed under it.                    *)
Idle == [at |-> "idle", text |-> NoText, formats |-> {}, torn |-> FALSE]
Thread == [at : {"idle", "freed", "stored", "copying", "answering", "decoding", "filling"},
           text : Value, formats : SUBSET TextFormat, torn : BOOLEAN]

(* What a read that began with value v ends with when the pointer, which is *)
(* read again after it has been tested, is now something else.  Garbage     *)
(* stands for whatever freed memory holds, old characters included.         *)
ReadResults(v, torn, now) ==
    IF torn THEN {v, now, Garbage} \ {Dangling} ELSE {v}

TypeOK ==
    /\ state \in {"disconnected", "connecting", "connected"}
    /\ isConnected \in BOOLEAN /\ cliprdr \in BOOLEAN
    /\ localClipboardText \in Text \cup {NoText, Dangling}
    /\ remoteClipboardText \in Text \cup {NoText, Mangled}
    /\ lastRequestedFormatId \subseteq TextFormat
    /\ main \in Thread /\ channel \in Thread
    /\ mainq \in Seq(Text \cup {Mangled})
    /\ sessionText \in Text \cup {NoText, Mangled}
    /\ pasteboard \in Text \cup {NoText, Mangled, Garbage}
    /\ toServer \in Seq(Message) /\ toClient \in Seq(Message)
    /\ server \in [owner : {"nobody", "client", "server"},
                   formats : SUBSET TextFormat, text : Value]
    /\ paste \in [open : BOOLEAN, got : Value, mayGet : SUBSET Value, latest : Value]
    /\ count \in [copies : 0..MaxCopies, serverCopies : 0..MaxServerCopies,
                  pastes : 0..MaxPastes, connections : 0..MaxConnections]

NoServer == [owner |-> "nobody", formats |-> {}, text |-> NoText]
NoPaste == [open |-> FALSE, got |-> NoText, mayGet |-> {}, latest |-> NoText]

Init ==
    /\ state = "disconnected"
    /\ isConnected = FALSE /\ cliprdr = FALSE
    /\ localClipboardText = NoText /\ remoteClipboardText = NoText
    /\ lastRequestedFormatId = {}
    /\ main = Idle /\ channel = Idle
    /\ mainq = <<>> /\ sessionText = NoText /\ pasteboard = NoText
    /\ toServer = <<>> /\ toClient = <<>>
    /\ server = NoServer /\ paste = NoPaste
    /\ count = [copies |-> 0, serverCopies |-> 0, pastes |-> 0, connections |-> 0]

(* What the two users have done so far, for the bound.                      *)
Acts == count.copies + count.serverCopies + count.pastes

----------------------------------------------------------------------------
(* The connection, as far as the clipboard sees it. *)

(* performConnect up to its await.                                          *)
Connect ==
    /\ state = "disconnected" /\ main = Idle
    /\ count.connections < MaxConnections
    /\ count' = [count EXCEPT !.connections = @ + 1]
    /\ state' = "connecting"
    /\ UNCHANGED <<isConnected, cliprdr, textVars, swiftVars, threadVars, wires, remoteVars>>

(* viDesk_PostConnect, inside freerdp_connect.                              *)
PostConnect ==
    /\ state = "connecting" /\ ~isConnected
    /\ isConnected' = TRUE
    /\ UNCHANGED <<state, cliprdr, textVars, swiftVars, threadVars, wires, remoteVars, count>>

(* viDesk_OnChannelConnectedEventHandler with viDesk_cliprdr_init, still    *)
(* inside freerdp_connect, but the session may have handled the             *)
(* notification of PostConnect by then.  The remote side opens with         *)
(* MonitorReady.                                                            *)
ChannelConnected ==
    /\ isConnected /\ ~cliprdr
    /\ cliprdr' = TRUE
    /\ lastRequestedFormatId' = {}
    /\ toClient' = <<MonitorReady>>
    /\ UNCHANGED <<state, isConnected, localClipboardText, remoteClipboardText, swiftVars, threadVars, toServer, remoteVars, count>>

(* The session handles the notification of PostConnect, or performConnect   *)
(* goes on after its await; the remote side may have no clipboard.          *)
SessionConnected ==
    /\ state = "connecting" /\ isConnected
    /\ state' = "connected"
    /\ UNCHANGED <<isConnected, cliprdr, textVars, swiftVars, threadVars, wires, remoteVars, count>>

(* RDPSession.disconnect: freerdp_disconnect stops the channel's thread,    *)
(* raises ChannelDisconnected, whose handler is viDesk_cliprdr_uninit, and  *)
(* calls PostDisconnect.  The session keeps the text it was told.           *)
Disconnect ==
    /\ state = "connected" /\ main = Idle /\ channel = Idle
    /\ state' = "disconnected"
    /\ isConnected' = FALSE /\ cliprdr' = FALSE
    /\ localClipboardText' = NoText /\ remoteClipboardText' = NoText
    /\ toServer' = <<>> /\ toClient' = <<>>
    /\ server' = NoServer /\ paste' = NoPaste
    /\ UNCHANGED <<lastRequestedFormatId, swiftVars, threadVars, count>>

----------------------------------------------------------------------------
(* The main thread. *)

MainIdle == main = Idle /\ state = "connected" /\ isConnected

(* A reader of the channel thread loses what it is reading.                 *)
ChannelDisturbed == [channel EXCEPT !.torn = @ \/ channel.at = "answering"]
MainDisturbed == [main EXCEPT !.torn = @ \/ main.at = "copying"]

(* syncClipboardToRemote(t) and viDesk_setClipboardText up to its free.     *)
(* Without a connection or a channel both return and t is dropped.          *)
SetClipboardText(t) ==
    /\ MainIdle /\ cliprdr
    /\ count.copies < MaxCopies /\ Acts < MaxActs
    /\ count' = [count EXCEPT !.copies = @ + 1]
    /\ main' = [Idle EXCEPT !.at = "freed", !.text = t]
    /\ localClipboardText' = IF localClipboardText = NoText THEN NoText ELSE Dangling
    /\ channel' = ChannelDisturbed
    /\ paste' = [paste EXCEPT !.latest = t, !.mayGet = @ \cup {t, NoText}]
    /\ UNCHANGED <<linkVars, remoteClipboardText, lastRequestedFormatId, swiftVars, wires, server>>

(* Mutant: the text is stored under a lock that is only tried, and dropped  *)
(* when the channel's thread is reading the one before.                     *)
TextStoredUnlessBusy ==
    /\ main.at = "freed"
    /\ localClipboardText' = IF channel.at = "answering" THEN NoText ELSE main.text
    /\ main' = [main EXCEPT !.at = "stored"]
    /\ UNCHANGED <<linkVars, remoteClipboardText, lastRequestedFormatId, swiftVars, channel, wires, remoteVars, count>>

(* localClipboardText = _strdup(text).                                      *)
TextStored ==
    /\ main.at = "freed"
    /\ localClipboardText' = main.text
    /\ main' = [main EXCEPT !.at = "stored"]
    /\ UNCHANGED <<linkVars, remoteClipboardText, lastRequestedFormatId, swiftVars, channel, wires, remoteVars, count>>

(* _strdup fails: NULL is kept and the remote side is told nothing.         *)
TextNotStored ==
    /\ main.at = "freed"
    /\ localClipboardText' = NoText
    /\ main' = Idle
    /\ paste' = [paste EXCEPT !.latest = NoText]
    /\ UNCHANGED <<linkVars, remoteClipboardText, lastRequestedFormatId, swiftVars, channel, wires, server, count>>

(* The format list that announces the text.                                 *)
TextAnnounced ==
    /\ main.at = "stored"
    /\ toServer' = Append(toServer, ClientFormatList)
    /\ main' = Idle
    /\ UNCHANGED <<linkVars, textVars, swiftVars, channel, toClient, remoteVars, count>>

(* getRemoteClipboard and viDesk_getClipboardText: _strdup begins to read.  *)
GetClipboardText ==
    /\ MainIdle
    /\ remoteClipboardText # NoText
    /\ main' = [Idle EXCEPT !.at = "copying", !.text = remoteClipboardText]
    /\ UNCHANGED <<linkVars, textVars, swiftVars, channel, wires, remoteVars, count>>

(* _strdup is done and the toolbar puts the result on the pasteboard.       *)
TextReturned ==
    /\ main.at = "copying"
    /\ \E t \in ReadResults(main.text, main.torn, remoteClipboardText) :
            pasteboard' = IF t = NoText THEN pasteboard ELSE t
    /\ main' = Idle
    /\ UNCHANGED <<linkVars, textVars, mainq, sessionText, channel, wires, remoteVars, count>>

(* handleRemoteClipboardChanged, at the end of the two tasks the callback   *)
(* makes.  Both kinds of task run in the order they were made, so a text's  *)
(* place in the queue is kept across the two.                               *)
HandleRemoteClipboardChanged ==
    /\ main = Idle
    /\ mainq # <<>>
    /\ sessionText' = Head(mainq)
    /\ mainq' = Tail(mainq)
    /\ UNCHANGED <<linkVars, textVars, pasteboard, threadVars, wires, remoteVars, count>>

BridgeCall == TextStored \/ TextNotStored \/ TextAnnounced \/ TextReturned

MainThread ==
    \/ \E t \in Text : SetClipboardText(t)
    \/ GetClipboardText
    \/ BridgeCall
    \/ HandleRemoteClipboardChanged

----------------------------------------------------------------------------
(* The channel's thread. *)

ChannelReceives(kind) ==
    /\ cliprdr /\ channel = Idle
    /\ toClient # <<>> /\ Head(toClient).kind = kind
    /\ toClient' = Tail(toClient)

(* viDesk_cliprdr_MonitorReady: the client's capabilities, which the model  *)
(* leaves out, and its format list, whether or not it has a text.           *)
HandleMonitorReady ==
    /\ ChannelReceives("monitor_ready")
    /\ toServer' = Append(toServer, ClientFormatList)
    /\ UNCHANGED <<linkVars, textVars, swiftVars, threadVars, remoteVars, count>>

(* Mutant: the loop knows one format only.                                  *)
UnicodeOrNothing(fs) == fs \cap {Unicode}

(* The format viDesk_cliprdr_ServerFormatList looks for: the loop stops at  *)
(* Unicode, remembers CF_TEXT, and may find neither.                        *)
BestFormat(fs) ==
    IF Unicode \in fs THEN {Unicode} ELSE IF Ansi \in fs THEN {Ansi} ELSE {}

(* ... which is requested.  ClientFormatDataRequest (FreeRDP) remembers it. *)
HandleServerFormatList ==
    /\ ChannelReceives("format_list")
    /\ LET requestFormat == BestFormat(Head(toClient).formats) IN
        IF requestFormat = {}
          THEN UNCHANGED <<lastRequestedFormatId, toServer>>
          ELSE /\ lastRequestedFormatId' = requestFormat
               /\ toServer' = Append(toServer, DataRequest(requestFormat))
    /\ UNCHANGED <<linkVars, localClipboardText, remoteClipboardText, swiftVars, threadVars, remoteVars, count>>

(* What viDesk_cliprdr_ServerFormatDataRequest answers.  A conversion to    *)
(* UTF-16 that yields no characters counts as having no text.               *)
Answer(f, t) ==
    IF t = NoText \/ (t = EmptyText /\ f = {Unicode}) THEN Refused ELSE t

(* The request arrives: without a text it is refused at once, otherwise the *)
(* conversion, or the copy into the message, begins to read the text.       *)
HandleServerFormatDataRequest ==
    /\ ChannelReceives("data_request")
    /\ LET asked == Head(toClient).formats IN
        IF localClipboardText = NoText
          THEN /\ toServer' = Append(toServer, DataResponse(asked, Answer(asked, NoText)))
               /\ UNCHANGED channel
          ELSE /\ channel' = [at |-> "answering", formats |-> asked, text |-> localClipboardText,
                              torn |-> localClipboardText = Dangling]
               /\ UNCHANGED toServer
    /\ UNCHANGED <<linkVars, textVars, swiftVars, main, remoteVars, count>>

(* The text has been read and the response is sent.                         *)
DataResponseSent ==
    /\ channel.at = "answering"
    /\ \E t \in ReadResults(channel.text, channel.torn, localClipboardText) :
            toServer' = Append(toServer,
                            DataResponse(channel.formats, Answer(channel.formats, t)))
    /\ channel' = Idle
    /\ UNCHANGED <<linkVars, textVars, swiftVars, main, toClient, remoteVars, count>>

(* viDesk_cliprdr_ServerFormatDataResponse up to the free of the old text.  *)
(* A refusal, or a response without data, changes nothing: the old text     *)
(* stays.                                                                   *)
HandleServerFormatDataResponse ==
    /\ ChannelReceives("data_response")
    /\ IF Head(toClient).text = Refused
         THEN UNCHANGED <<remoteClipboardText, threadVars>>
         ELSE /\ remoteClipboardText' = NoText
              /\ main' = MainDisturbed
              /\ channel' = [Idle EXCEPT !.at = "decoding", !.text = Head(toClient).text,
                                        !.formats = Head(toClient).formats]
    /\ UNCHANGED <<linkVars, localClipboardText, lastRequestedFormatId, swiftVars, toServer, remoteVars, count>>

(* Bytes that were encoded as fs and are decoded as the last requested      *)
(* format: UTF-16 taken for bytes ends early, bytes taken for UTF-16 turn   *)
(* into something else or do not convert.                                   *)
Decodings(fs, t) ==
    IF fs = lastRequestedFormatId THEN {t}
    ELSE IF lastRequestedFormatId = {Unicode} THEN {Mangled, NoText}
    ELSE {Mangled}

(* Mutant: the session is told of a text that could not be decoded.         *)
NotifiedAnyway(t) == Append(mainq, t)
(* Mutant: a session that has been told of a text is not told of another.   *)
NotifiedOnce(t) ==
    IF t = NoText \/ mainq # <<>> \/ sessionText # NoText THEN mainq ELSE Append(mainq, t)

(* notifyRemoteClipboardChanged, for a text that could be decoded.          *)
Notified(t) == IF t = NoText THEN mainq ELSE Append(mainq, t)

UnicodeDecoded ==
    /\ channel.at = "decoding" /\ lastRequestedFormatId = {Unicode}
    /\ \E t \in Decodings(channel.formats, channel.text) :
            /\ remoteClipboardText' = t
            /\ mainq' = Notified(t)
    /\ channel' = Idle
    /\ UNCHANGED <<linkVars, localClipboardText, lastRequestedFormatId, sessionText, pasteboard, main, wires, remoteVars, count>>

(* CF_TEXT: calloc puts an empty text in place ...                          *)
AnsiAllocated ==
    /\ channel.at = "decoding" /\ lastRequestedFormatId # {Unicode}
    /\ remoteClipboardText' = EmptyText
    /\ channel' = [channel EXCEPT !.at = "filling"]
    /\ UNCHANGED <<linkVars, localClipboardText, lastRequestedFormatId, swiftVars, main, wires, remoteVars, count>>

(* ... which memcpy fills.                                                  *)
AnsiFilled ==
    /\ channel.at = "filling"
    /\ \E t \in Decodings(channel.formats, channel.text) :
            /\ remoteClipboardText' = t
            /\ mainq' = Notified(t)
    /\ main' = MainDisturbed
    /\ channel' = Idle
    /\ UNCHANGED <<linkVars, localClipboardText, lastRequestedFormatId, sessionText, pasteboard, wires, remoteVars, count>>

ChannelThread ==
    \/ HandleMonitorReady
    \/ HandleServerFormatList
    \/ HandleServerFormatDataRequest
    \/ DataResponseSent
    \/ HandleServerFormatDataResponse
    \/ UnicodeDecoded
    \/ AnsiAllocated
    \/ AnsiFilled

----------------------------------------------------------------------------
(* The remote side. *)

(* Something is copied there: a text, offered in one or both formats, or    *)
(* something that is no text.  The first list of the client opens the       *)
(* channel for its lists.                                                   *)
ServerCopies(fs, t) ==
    /\ cliprdr /\ server.owner # "nobody"
    /\ count.serverCopies < MaxServerCopies /\ Acts < MaxActs
    /\ count' = [count EXCEPT !.serverCopies = @ + 1]
    /\ server' = [owner |-> "server", formats |-> fs, text |-> t]
    /\ toClient' = Append(toClient, FormatList(fs))
    /\ UNCHANGED <<linkVars, textVars, swiftVars, threadVars, toServer, paste>>

(* A paste there of what the client has announced, one at a time.  It may   *)
(* get the text the user sent last, and nothing when that is being stored.  *)
ServerPastes(f) ==
    /\ cliprdr /\ server.owner = "client" /\ ~paste.open
    /\ count.pastes < MaxPastes /\ Acts < MaxActs
    /\ count' = [count EXCEPT !.pastes = @ + 1]
    /\ paste' = [paste EXCEPT
                    !.open = TRUE, !.got = NoText,
                    !.mayGet = {paste.latest} \cup (IF main.at = "freed" THEN {NoText} ELSE {})]
    /\ toClient' = Append(toClient, DataRequest({f}))
    /\ UNCHANGED <<linkVars, textVars, swiftVars, threadVars, toServer, server>>

(* A request is answered with the text the remote side owns, if it has it   *)
(* in that format.                                                          *)
ServerAnswers(fs) ==
    IF server.owner = "server" /\ fs \subseteq server.formats THEN server.text ELSE Refused

(* The remote side reads a message.  A format list makes the client the     *)
(* owner of what is pasted.                                                 *)
ServerReceives ==
    /\ toServer # <<>>
    /\ toServer' = Tail(toServer)
    /\ LET m == Head(toServer) IN
        \/ /\ m.kind = "format_list"
           /\ server' = [owner |-> "client", formats |-> m.formats, text |-> NoText]
           /\ UNCHANGED <<toClient, paste>>
        \/ /\ m.kind = "data_request"
           /\ toClient' = Append(toClient, DataResponse(m.formats, ServerAnswers(m.formats)))
           /\ UNCHANGED remoteVars
        \/ /\ m.kind = "data_response"
           /\ paste' = [paste EXCEPT !.open = FALSE, !.got = m.text]
           /\ UNCHANGED <<toClient, server>>
    /\ UNCHANGED <<linkVars, textVars, swiftVars, threadVars, count>>

RemoteSide ==
    \/ \E fs \in SUBSET TextFormat \ {{}}, t \in Text \ {EmptyText} : ServerCopies(fs, t)
    \/ ServerCopies({}, NoText)
    \/ \E f \in TextFormat : ServerPastes(f)
    \/ ServerReceives

Connection == Connect \/ PostConnect \/ ChannelConnected \/ SessionConnected \/ Disconnect

Next == Connection \/ MainThread \/ ChannelThread \/ RemoteSide

Spec == Init /\ [][Next]_vars

(* A thread that is inside a call goes on, the channel's thread and the     *)
(* main actor take what waits for them, and messages arrive.  Nobody has to *)
(* copy, paste, connect or disconnect.  The main actor's fairness is strong *)
(* because a tap queues behind the tasks that are there: taps without end   *)
(* do not keep a task waiting for ever.                                     *)
FairSpec ==
    /\ Spec
    /\ WF_vars(BridgeCall)
    /\ SF_vars(HandleRemoteClipboardChanged)
    /\ WF_vars(ChannelThread)
    /\ WF_vars(ServerReceives)

----------------------------------------------------------------------------
(* Properties. *)

(* A paste on the remote side gets the text the user sent last.  Only when  *)
(* the user sends another one between the request and its answer may it get *)
(* that one, or garbage; and it is refused only when the user has sent      *)
(* nothing, or the empty text, or a copy was under way.  This relates       *)
(* viDesk_setClipboardText to ServerFormatDataRequest across both threads.  *)
PasteGetsCopiedText ==
    ~paste.open /\ paste.got # NoText =>
        /\ paste.got \in Text => paste.got \in paste.mayGet
        /\ paste.got = Garbage => NoText \in paste.mayGet
        /\ paste.got = Refused => paste.mayGet \cap {NoText, EmptyText} # {}

Quiet == toServer = <<>> /\ toClient = <<>> /\ channel = Idle

ServerHoldsText == cliprdr /\ server.owner = "server" /\ server.formats # {}

(* When nothing is under way, the text viDesk_getClipboardText would return *)
(* is the one last copied on the remote side, however lists, requests,      *)
(* responses and refusals crossed: a response decoded in the wrong format   *)
(* is always followed by one in the right format.                           *)
RemoteTextCurrentAtRest ==
    Quiet /\ ServerHoldsText => remoteClipboardText = server.text

(* A text copied on the remote side reaches the session: as long as the     *)
(* channel lasts and the remote side keeps a text, the session has it in    *)
(* the end.                                                                 *)
SyncsEventually == []<>(ServerHoldsText => sessionText = server.text)

(* ServerFormatDataResponse "detects the requested format" of a response    *)
(* before it decodes it: the text kept is never one decoded in another      *)
(* format than the one it was requested in.                                 *)
DecodedAsRequested == remoteClipboardText # Mangled

(* viDesk_getClipboardText gets the clipboard text: what it returns is      *)
(* never read from a text that is freed or filled while it is being read.   *)
ReturnsLiveText == pasteboard # Garbage

=============================================================================
