--------------------------- MODULE CliprdrProofs ---------------------------
(****************************************************************************)
(* What holds of Cliprdr for any texts, and any number of copies, pastes    *)
(* and connections.  Two arguments run side by side.  A paste: there is     *)
(* never more than one request for the client's text under way, and what it *)
(* has become by now is justified by what the user has sent.  A copy on the *)
(* remote side: it is in the last format list, the last request, the last   *)
(* response, the decoder or the client's text, whichever comes first.       *)
(****************************************************************************)
EXTENDS Cliprdr, TLAPS

----------------------------------------------------------------------------
(* Messages on their way: one of a kind is there, no two are, m is the last *)
(* of its kind.                                                             *)

Has(q, kind) == \E i \in DOMAIN q : q[i].kind = kind

One(q, kind) == \A i, j \in DOMAIN q : q[i].kind = kind /\ q[j].kind = kind => i = j

(* m is in the queue, and nothing of its kind behind it.                    *)
LastIs(q, m) ==
    \E i \in DOMAIN q : q[i] = m /\ \A j \in DOMAIN q : j > i => q[j].kind # m.kind

(* The client never asks for nothing, and the remote side answers with a    *)
(* text or refuses.                                                         *)
ToServer == {m \in Message : m.kind = "data_request" => m.formats # {}}
ToClient == {m \in Message : m.kind = "data_response" => m.text \in Text \cup {Refused}}

(* The messages, what they are made of, and which way they go.              *)
LEMMA MessageFacts ==
    /\ \A fs : /\ FormatList(fs).kind = "format_list" /\ FormatList(fs).formats = fs
               /\ DataRequest(fs).kind = "data_request" /\ DataRequest(fs).formats = fs
    /\ \A fs, t : /\ DataResponse(fs, t).kind = "data_response"
                  /\ DataResponse(fs, t).formats = fs /\ DataResponse(fs, t).text = t
    /\ MonitorReady.kind = "monitor_ready" /\ ClientFormatList.kind = "format_list"
    /\ ClientFormatList = FormatList(TextFormat)
    /\ MonitorReady \in ToClient /\ ClientFormatList \in ToServer
    /\ \A fs \in SUBSET TextFormat :
          /\ FormatList(fs) \in ToClient /\ DataRequest(fs) \in ToClient
          /\ fs # {} => DataRequest(fs) \in ToServer
          /\ \A t \in Value : /\ DataResponse(fs, t) \in ToServer
                              /\ t \in Text \cup {Refused} => DataResponse(fs, t) \in ToClient
    /\ \A m \in ToServer \cup ToClient :
          /\ m \in Message /\ m.text \in Value /\ m.formats \in SUBSET TextFormat
          /\ m.kind \in {"monitor_ready", "format_list", "data_request", "data_response"}
    /\ \A m \in ToServer : m.kind = "data_request" => m.formats # {}
    /\ \A m \in ToClient : m.kind = "data_response" => m.text \in Text \cup {Refused}
  BY DEF FormatList, DataRequest, DataResponse, MonitorReady, ClientFormatList, Message, Value,
         ToServer, ToClient

(* What a queue holds when a message has been sent ...                      *)
LEMMA Sent ==
    ASSUME NEW S, NEW q \in Seq(S), NEW m \in S
    PROVE  /\ Append(q, m) \in Seq(S)
           /\ \A kind : Has(Append(q, m), kind) <=> Has(q, kind) \/ m.kind = kind
           /\ \A kind : One(q, kind) /\ (m.kind = kind => ~Has(q, kind)) => One(Append(q, m), kind)
           /\ LastIs(Append(q, m), m)
           /\ \A n : n.kind # m.kind /\ LastIs(q, n) => LastIs(Append(q, m), n)
<1> DEFINE r == Append(q, m)
<1>1. /\ DOMAIN q = 1 .. Len(q) /\ Len(q) \in Nat /\ r \in Seq(S)
      /\ DOMAIN r = 1 .. Len(q) + 1 /\ \A i \in 1 .. Len(q) : r[i] = q[i]
      /\ r[Len(q) + 1] = m
  OBVIOUS
<1> HIDE DEF r
<1>2. ASSUME NEW kind PROVE Has(r, kind) <=> Has(q, kind) \/ m.kind = kind
  BY <1>1 DEF Has
<1>3. ASSUME NEW kind, One(q, kind), m.kind = kind => ~Has(q, kind) PROVE One(r, kind)
  BY <1>1, <1>3 DEF One, Has
<1>4. LastIs(r, m)
  <2>1. \A j \in DOMAIN r : j > Len(q) + 1 => r[j].kind # m.kind
    BY <1>1
  <2> QED BY <1>1, <2>1 DEF LastIs
<1>5. ASSUME NEW n, n.kind # m.kind, LastIs(q, n) PROVE LastIs(r, n)
  BY <1>1, <1>5 DEF LastIs
<1> QED BY <1>1, <1>2, <1>3, <1>4, <1>5 DEF r

(* ... and when the oldest has been taken.                                  *)
LEMMA Taken ==
    ASSUME NEW S, NEW q \in Seq(S), q # <<>>
    PROVE  /\ Tail(q) \in Seq(S) /\ Head(q) \in S
           /\ \A kind : Has(q, kind) <=> Has(Tail(q), kind) \/ Head(q).kind = kind
           /\ \A kind : One(q, kind) => One(Tail(q), kind)
           /\ \A kind : One(q, kind) /\ Head(q).kind = kind => ~Has(Tail(q), kind)
           /\ \A n : LastIs(q, n) => LastIs(Tail(q), n) \/ (Head(q) = n /\ ~Has(Tail(q), n.kind))
<1> DEFINE t == Tail(q)
<1>1. /\ DOMAIN q = 1 .. Len(q) /\ Len(q) \in Nat /\ Len(q) > 0 /\ t \in Seq(S)
      /\ DOMAIN t = 1 .. Len(q) - 1 /\ \A i \in 1 .. Len(q) - 1 : t[i] = q[i + 1]
      /\ Head(q) = q[1] /\ Head(q) \in S
  OBVIOUS
<1> HIDE DEF t
<1>2. ASSUME NEW i \in DOMAIN q PROVE i = 1 \/ (i - 1 \in DOMAIN t /\ t[i - 1] = q[i])
  <2>1. i \in 1 .. Len(q)
    BY <1>1
  <2>2. i = 1 \/ i - 1 \in 1 .. Len(q) - 1
    BY <1>1, <2>1
  <2>3. (i - 1) + 1 = i
    BY <2>1
  <2> QED BY <1>1, <2>2, <2>3
<1>3. 1 \in DOMAIN q
  BY <1>1
<1>4. ASSUME NEW i \in DOMAIN t PROVE i + 1 \in DOMAIN q /\ t[i] = q[i + 1] /\ i \in Nat /\ i # 0
  BY <1>1
<1>5. ASSUME NEW kind PROVE Has(q, kind) <=> Has(t, kind) \/ q[1].kind = kind
  <2>1. ASSUME Has(q, kind) PROVE Has(t, kind) \/ q[1].kind = kind
    BY <1>2, <2>1 DEF Has
  <2>2. ASSUME Has(t, kind) \/ q[1].kind = kind PROVE Has(q, kind)
    BY <1>3, <1>4, <2>2 DEF Has
  <2> QED BY <2>1, <2>2
<1>6. ASSUME NEW kind, One(q, kind) PROVE One(t, kind)
  <2> SUFFICES ASSUME NEW i \in DOMAIN t, NEW j \in DOMAIN t, t[i].kind = kind, t[j].kind = kind
               PROVE  i = j
    BY DEF One
  <2>1. i + 1 = j + 1
    BY <1>4, <1>6 DEF One
  <2> QED BY <1>4, <2>1
<1>7. ASSUME NEW kind, One(q, kind), q[1].kind = kind PROVE ~Has(t, kind)
  <2> SUFFICES ASSUME NEW i \in DOMAIN t, t[i].kind = kind PROVE FALSE
    BY DEF Has
  <2>1. i + 1 = 1
    BY <1>3, <1>4, <1>7 DEF One
  <2> QED BY <1>4, <2>1
<1>8. ASSUME NEW n, LastIs(q, n), ~LastIs(t, n) PROVE q[1] = n /\ ~Has(t, n.kind)
  <2>1. PICK i \in DOMAIN q : q[i] = n /\ \A j \in DOMAIN q : j > i => q[j].kind # n.kind
    BY <1>8 DEF LastIs
  <2>2. i = 1
    <3> SUFFICES ASSUME i # 1 PROVE FALSE
      OBVIOUS
    <3>1. i - 1 \in DOMAIN t /\ t[i - 1] = q[i]
      BY <1>2
    <3>2. \A j \in DOMAIN t : j > i - 1 => t[j].kind # n.kind
      <4> SUFFICES ASSUME NEW j \in DOMAIN t, j > i - 1 PROVE t[j].kind # n.kind
        OBVIOUS
      <4>1. j + 1 > i
        BY <1>1, <1>4
      <4> QED BY <1>4, <2>1, <4>1
    <3> QED BY <1>8, <2>1, <3>1, <3>2 DEF LastIs
  <2>3. ASSUME NEW j \in DOMAIN t PROVE t[j].kind # n.kind
    <3>1. j + 1 > i
      BY <1>4, <2>2
    <3> QED BY <1>4, <2>1, <3>1
  <2> QED BY <2>1, <2>2, <2>3 DEF Has
<1> QED BY <1>1, <1>5, <1>6, <1>7, <1>8 DEF t

(* An empty queue holds nothing.                                            *)
LEMMA NothingSent ==
    \A kind : ~Has(<<>>, kind) /\ One(<<>>, kind)
  BY DEF Has, One

(* A queue of such messages, as a message is sent or taken.                 *)
LEMMA Wires ==
    /\ <<>> \in Seq(ToServer) /\ <<>> \in Seq(ToClient)
    /\ \A q \in Seq(ToServer) :
          /\ q \in Seq(Message)
          /\ \A m \in ToServer : Append(q, m) \in Seq(ToServer)
          /\ q # <<>> => Head(q) \in ToServer /\ Tail(q) \in Seq(ToServer)
    /\ \A q \in Seq(ToClient) :
          /\ q \in Seq(Message)
          /\ \A m \in ToClient : Append(q, m) \in Seq(ToClient)
          /\ q # <<>> => Head(q) \in ToClient /\ Tail(q) \in Seq(ToClient)
<1>1. ASSUME NEW S, S \subseteq Message, NEW q \in Seq(S) PROVE q \in Seq(Message)
  <2>1. \A i \in 1 .. Len(q) : q[i] \in Message
    BY <1>1
  <2>2. q = [i \in 1 .. Len(q) |-> q[i]] /\ Len(q) \in Nat
    OBVIOUS
  <2> QED BY <2>1, <2>2
<1>2. ToServer \subseteq Message /\ ToClient \subseteq Message
  BY DEF ToServer, ToClient
<1> QED BY <1>1, <1>2

----------------------------------------------------------------------------
(* Types: what the threads hold where they are, and what is on the wires.   *)

Counts == [copies : 0..MaxCopies, serverCopies : 0..MaxServerCopies,
           pastes : 0..MaxPastes, connections : 0..MaxConnections]
Servers == [owner : {"nobody", "client", "server"}, formats : SUBSET TextFormat, text : Value]
Pastes == [open : BOOLEAN, got : Value, mayGet : SUBSET Value, latest : Value]

Typed ==
    /\ state \in {"disconnected", "connecting", "connected"}
    /\ isConnected \in BOOLEAN /\ cliprdr \in BOOLEAN
    /\ localClipboardText \in Text \cup {NoText, Dangling}
    /\ remoteClipboardText \in Text \cup {NoText, Mangled}
    /\ lastRequestedFormatId \in SUBSET TextFormat
    /\ main \in Thread /\ channel \in Thread
    /\ mainq \in Seq(Text \cup {Mangled})
    /\ sessionText \in Text \cup {NoText, Mangled}
    /\ pasteboard \in Text \cup {NoText, Mangled, Garbage}
    /\ server \in Servers /\ paste \in Pastes /\ count \in Counts

ThreadInv ==
    /\ main.at \in {"idle", "freed", "stored", "copying"}
    /\ channel.at \in {"idle", "answering", "decoding", "filling"}
    /\ main.at = "freed" => main.text \in Text
    /\ main.at = "copying" => main.text \in Text \cup {Mangled}
    /\ channel.at = "answering" => channel.text \in Text \cup {Dangling}
    /\ channel.at \in {"decoding", "filling"} => channel.text \in Text
    /\ main.at \in {"freed", "stored"} \/ channel.at # "idle" => cliprdr

WireInv ==
    /\ toServer \in Seq(ToServer) /\ toClient \in Seq(ToClient)
    /\ server.owner = "server" /\ server.formats # {} => server.text \in Text
    /\ ~cliprdr => /\ toServer = <<>> /\ toClient = <<>>
                   /\ server.owner = "nobody" /\ ~paste.open

Types == Typed /\ ThreadInv /\ WireInv

(* A session begins with them.                                              *)
LEMMA InitTypes == Init => Types
<1> USE BoundsAssumption, Wires DEF Init, Idle, Thread, NoServer, NoPaste, Value
<1>1. ASSUME Init PROVE Typed
  <2>1. main \in Thread /\ channel \in Thread
    BY <1>1
  <2>2. count \in Counts /\ paste \in Pastes /\ server \in Servers
    BY <1>1 DEF Counts, Pastes, Servers
  <2>3. <<>> \in Seq(Text \cup {Mangled})
    OBVIOUS
  <2> QED BY <1>1, <2>1, <2>2, <2>3 DEF Typed
<1>2. Init => ThreadInv
  BY DEF ThreadInv
<1>3. Init => WireInv
  BY DEF WireInv
<1> QED BY <1>1, <1>2, <1>3 DEF Types

(* Each count within its bound.                                             *)
LEMMA Counting ==
    \A c \in Counts :
        /\ c.copies < MaxCopies => [c EXCEPT !.copies = @ + 1] \in Counts
        /\ c.serverCopies < MaxServerCopies => [c EXCEPT !.serverCopies = @ + 1] \in Counts
        /\ c.pastes < MaxPastes => [c EXCEPT !.pastes = @ + 1] \in Counts
        /\ c.connections < MaxConnections => [c EXCEPT !.connections = @ + 1] \in Counts
  BY BoundsAssumption DEF Counts

(* No step of either thread or of the remote side breaks them.              *)
LEMMA TypesStep ==
    ASSUME Types, [Next]_vars
    PROVE  Types'
<1> USE DEF linkVars, textVars, swiftVars, threadVars, wires, remoteVars
<1>1. /\ main \in Thread /\ channel \in Thread
      /\ paste \in Pastes /\ server \in Servers /\ count \in Counts
  BY DEF Types, Typed
<1>2. toServer \in Seq(ToServer) /\ toClient \in Seq(ToClient)
  BY DEF Types, WireInv
<1>3. /\ localClipboardText \in Text \cup {NoText, Dangling}
      /\ remoteClipboardText \in Text \cup {NoText, Mangled}
      /\ lastRequestedFormatId \in SUBSET TextFormat /\ mainq \in Seq(Text \cup {Mangled})
  BY DEF Types, Typed
<1>4. ThreadInv
  BY DEF Types
<1>5. ASSUME Connect PROVE Types'
  <2>1. count' \in Counts
    BY <1>5, <1>1, Counting DEF Connect
  <2> QED BY <1>5, <2>1 DEF Connect, Types, Typed, ThreadInv, WireInv
<1>6. ASSUME PostConnect PROVE Types'
  BY <1>6 DEF PostConnect, Types, Typed, ThreadInv, WireInv
<1>7. ASSUME ChannelConnected PROVE Types'
  <2>1. <<MonitorReady>> \in Seq(ToClient)
    BY MessageFacts
  <2> QED BY <1>7, <2>1 DEF ChannelConnected, Types, Typed, ThreadInv, WireInv
<1>8. ASSUME SessionConnected PROVE Types'
  BY <1>8 DEF SessionConnected, Types, Typed, ThreadInv, WireInv
<1>9. ASSUME Disconnect PROVE Types'
  <2>1. <<>> \in Seq(ToServer) /\ <<>> \in Seq(ToClient)
    BY Wires
  <2>2. NoServer \in Servers /\ NoPaste \in Pastes /\ NoServer.owner = "nobody" /\ ~NoPaste.open
    BY DEF NoServer, NoPaste, Servers, Pastes, Value
  <2>3. Typed'
    BY <1>9, <2>2 DEF Disconnect, Types, Typed
  <2>4. main'.at = "idle" /\ channel'.at = "idle"
    BY <1>9 DEF Disconnect, Idle
  <2>5. ThreadInv'
    BY <2>4 DEF ThreadInv
  <2>6. WireInv'
    BY <1>9, <2>1, <2>2 DEF Disconnect, WireInv
  <2> QED BY <2>3, <2>5, <2>6 DEF Types
<1>10. ASSUME NEW t \in Text, SetClipboardText(t) PROVE Types'
  <2>1. count' \in Counts
    BY <1>10, <1>1, Counting DEF SetClipboardText
  <2>2. {t, NoText} \subseteq Value /\ t \in Value
    BY DEF Value
  <2>3. paste' \in Pastes /\ paste'.open = paste.open
    BY <1>10, <1>1, <2>2 DEF SetClipboardText, Pastes
  <2>4. main' \in Thread /\ main'.at = "freed" /\ main'.text = t
    BY <1>10, <2>2 DEF SetClipboardText, Thread, Idle
  <2>5. channel' \in Thread /\ channel'.at = channel.at /\ channel'.text = channel.text
    BY <1>10, <1>1 DEF SetClipboardText, Thread, ChannelDisturbed
  <2> QED BY <1>10, <2>1, <2>2, <2>3, <2>4, <2>5 DEF SetClipboardText, Types, Typed, ThreadInv,
             WireInv
<1>11. ASSUME TextStored PROVE Types'
  <2>1. main' \in Thread /\ main'.at = "stored"
    BY <1>11, <1>1 DEF TextStored, Thread, Idle
  <2> QED BY <1>11, <2>1 DEF TextStored, Types, Typed, ThreadInv, WireInv
<1>12. ASSUME TextNotStored PROVE Types'
  <2>1. paste' \in Pastes /\ paste'.open = paste.open
    BY <1>12, <1>1 DEF TextNotStored, Pastes, Value
  <2>2. main' \in Thread /\ main'.at = "idle"
    BY <1>12 DEF TextNotStored, Thread, Idle, Value
  <2> QED BY <1>12, <2>1, <2>2 DEF TextNotStored, Types, Typed, ThreadInv, WireInv
<1>13. ASSUME TextAnnounced PROVE Types'
  <2>1. toServer' \in Seq(ToServer)
    BY <1>13, <1>2, Wires, MessageFacts DEF TextAnnounced
  <2>2. main' \in Thread /\ main'.at = "idle"
    BY <1>13 DEF TextAnnounced, Thread, Idle, Value
  <2> QED BY <1>13, <2>1, <2>2 DEF TextAnnounced, Types, Typed, ThreadInv, WireInv
<1>14. ASSUME GetClipboardText PROVE Types'
  <2>1. main' \in Thread /\ main'.at = "copying" /\ main'.text = remoteClipboardText
    BY <1>14, <1>3 DEF GetClipboardText, Thread, Idle, Value
  <2> QED BY <1>14, <2>1 DEF GetClipboardText, Types, Typed, ThreadInv, WireInv
<1>15. ASSUME TextReturned PROVE Types'
  <2>1. main' \in Thread /\ main'.at = "idle"
    BY <1>15 DEF TextReturned, Thread, Idle, Value
  <2>2. pasteboard' \in Text \cup {NoText, Mangled, Garbage}
    BY <1>15, <1>4 DEF TextReturned, Types, Typed, ThreadInv, ReadResults
  <2> QED BY <1>15, <2>1, <2>2 DEF TextReturned, Types, Typed, ThreadInv, WireInv
<1>16. ASSUME HandleRemoteClipboardChanged PROVE Types'
  <2>1. Head(mainq) \in Text \cup {Mangled} /\ Tail(mainq) \in Seq(Text \cup {Mangled})
    BY <1>16, <1>3 DEF HandleRemoteClipboardChanged
  <2> QED BY <1>16, <2>1 DEF HandleRemoteClipboardChanged, Types, Typed, ThreadInv, WireInv
<1>17. ASSUME HandleMonitorReady PROVE Types'
  <2>1. toClient' \in Seq(ToClient) /\ Head(toClient) \in ToClient /\ cliprdr
    BY <1>17, <1>2, Wires DEF HandleMonitorReady, ChannelReceives
  <2>2. toServer' \in Seq(ToServer)
    BY <1>17, <1>2, Wires, MessageFacts DEF HandleMonitorReady
  <2> QED BY <1>17, <2>1, <2>2 DEF HandleMonitorReady, Types, Typed, ThreadInv, WireInv
<1>18. ASSUME HandleServerFormatList PROVE Types'
  <2>1. toClient' \in Seq(ToClient) /\ Head(toClient) \in ToClient /\ cliprdr
    BY <1>18, <1>2, Wires DEF HandleServerFormatList, ChannelReceives
  <2>2. BestFormat(Head(toClient).formats) \in SUBSET TextFormat
    BY DEF BestFormat, TextFormat
  <2>3. BestFormat(Head(toClient).formats) # {}
            => DataRequest(BestFormat(Head(toClient).formats)) \in ToServer
    BY <2>2, MessageFacts
  <2>4. toServer' \in Seq(ToServer) /\ lastRequestedFormatId' \in SUBSET TextFormat
    BY <1>18, <1>2, <1>3, <2>2, <2>3, Wires DEF HandleServerFormatList
  <2> QED BY <1>18, <2>1, <2>2, <2>3, <2>4 DEF HandleServerFormatList, Types, Typed, ThreadInv,
             WireInv
<1>19. ASSUME HandleServerFormatDataRequest PROVE Types'
  <2>1. toClient' \in Seq(ToClient) /\ Head(toClient) \in ToClient /\ cliprdr
    BY <1>19, <1>2, Wires DEF HandleServerFormatDataRequest, ChannelReceives
  <2>2. Head(toClient).formats \in SUBSET TextFormat
    BY <2>1, MessageFacts
  <2>3. Answer(Head(toClient).formats, NoText) \in Value
    BY DEF Answer, Value
  <2>4. DataResponse(Head(toClient).formats, Answer(Head(toClient).formats, NoText)) \in ToServer
    BY <2>2, <2>3, MessageFacts
  <2>5. toServer' \in Seq(ToServer)
    BY <1>19, <1>2, <2>4, Wires DEF HandleServerFormatDataRequest
  <2>6. localClipboardText # NoText =>
            channel' = [at |-> "answering", formats |-> Head(toClient).formats,
                        text |-> localClipboardText, torn |-> localClipboardText = Dangling]
    BY <1>19 DEF HandleServerFormatDataRequest
  <2>7. channel = Idle /\ (localClipboardText = NoText => channel' = channel)
    BY <1>19 DEF HandleServerFormatDataRequest, ChannelReceives
  <2>8. localClipboardText # NoText => \E b \in BOOLEAN :
            channel' = [at |-> "answering", formats |-> Head(toClient).formats,
                        text |-> localClipboardText, torn |-> b]
    BY <2>6, Zenon
  <2>9. /\ channel' \in Thread /\ channel'.at \in {"idle", "answering"}
        /\ channel'.at = "answering" => channel'.text \in Text \cup {Dangling}
    <3>1. CASE localClipboardText = NoText
      <4>1. channel' = Idle
        BY <2>7, <3>1
      <4>2. Idle \in Thread /\ Idle.at = "idle"
        BY DEF Thread, Idle, Value
      <4> QED BY <4>1, <4>2
    <3>2. CASE localClipboardText # NoText
      <4>1. PICK b \in BOOLEAN : channel' = [at |-> "answering", formats |-> Head(toClient).formats,
                                            text |-> localClipboardText, torn |-> b]
        BY <2>8, <3>2
      <4>2. localClipboardText \in Text \cup {Dangling}
        BY <1>3, <3>2
      <4> QED BY <2>2, <4>1, <4>2 DEF Thread, Value
    <3> QED BY <3>1, <3>2
  <2> QED BY <1>19, <2>1, <2>2, <2>3, <2>4, <2>5, <2>6, <2>7, <2>8, <2>9
             DEF HandleServerFormatDataRequest, Types, Typed, ThreadInv, WireInv
<1>20. ASSUME DataResponseSent PROVE Types'
  <2>1. \E v \in Value : toServer' = Append(toServer, DataResponse(channel.formats, v))
    BY <1>20, <1>3, <1>4 DEF DataResponseSent, ThreadInv, ReadResults, Answer, Value
  <2>2. channel.formats \in SUBSET TextFormat
    BY <1>1 DEF Thread
  <2>3. \A v \in Value : DataResponse(channel.formats, v) \in ToServer
    BY <2>2, MessageFacts
  <2>4. toServer' \in Seq(ToServer)
    BY <1>2, <2>1, <2>3, Wires
  <2>5. channel' \in Thread /\ channel'.at = "idle"
    BY <1>20 DEF DataResponseSent, Thread, Idle, Value
  <2> QED BY <1>20, <2>1, <2>2, <2>3, <2>4, <2>5 DEF DataResponseSent, Types, Typed, ThreadInv,
             WireInv
<1>21. ASSUME HandleServerFormatDataResponse PROVE Types'
  <2>1. toClient' \in Seq(ToClient) /\ Head(toClient) \in ToClient /\ cliprdr
    BY <1>21, <1>2, Wires DEF HandleServerFormatDataResponse, ChannelReceives
  <2>2. Head(toClient).text \in Text \cup {Refused} /\ Head(toClient).formats \in SUBSET TextFormat
    BY <1>21, <2>1, MessageFacts DEF HandleServerFormatDataResponse, ChannelReceives
  <2>3. /\ channel' \in Thread /\ channel'.at \in {"idle", "decoding"}
        /\ channel'.at = "decoding" => channel'.text \in Text
    <3>1. Idle \in Thread /\ Idle.at = "idle"
      BY DEF Thread, Idle, Value
    <3>2. CASE Head(toClient).text = Refused
      <4>1. channel' = Idle
        BY <1>21, <3>2 DEF HandleServerFormatDataResponse, ChannelReceives
      <4> QED BY <3>1, <4>1
    <3>3. CASE Head(toClient).text # Refused
      <4>1. channel' = [Idle EXCEPT !.at = "decoding", !.text = Head(toClient).text,
                                    !.formats = Head(toClient).formats]
        BY <1>21, <3>3 DEF HandleServerFormatDataResponse
      <4>2. Head(toClient).text \in Text
        BY <2>2, <3>3
      <4> QED BY <2>2, <4>1, <4>2 DEF Thread, Idle, Value
    <3> QED BY <3>2, <3>3
  <2>4. main' \in Thread /\ main'.at = main.at /\ main'.text = main.text
    BY <1>21, <1>1 DEF HandleServerFormatDataResponse, Thread, MainDisturbed
  <2> QED BY <1>21, <2>1, <2>2, <2>3, <2>4 DEF HandleServerFormatDataResponse, Types, Typed,
             ThreadInv, WireInv
<1>22. ASSUME UnicodeDecoded PROVE Types'
  <2>1. \E t \in Text \cup {Mangled, NoText} : remoteClipboardText' = t /\ mainq' = Notified(t)
    BY <1>22, <1>4 DEF UnicodeDecoded, ThreadInv, Decodings
  <2>2. remoteClipboardText' \in Text \cup {NoText, Mangled} /\ mainq' \in Seq(Text \cup {Mangled})
    BY <1>3, <2>1 DEF Notified
  <2>3. channel' \in Thread /\ channel'.at = "idle"
    BY <1>22 DEF UnicodeDecoded, Thread, Idle, Value
  <2> QED BY <1>22, <2>1, <2>2, <2>3 DEF UnicodeDecoded, Types, Typed, ThreadInv, WireInv
<1>23. ASSUME AnsiAllocated PROVE Types'
  <2>1. channel' \in Thread /\ channel'.at = "filling" /\ channel'.text = channel.text
    BY <1>23, <1>1 DEF AnsiAllocated, Thread, Idle
  <2> QED BY <1>23, <2>1, EmptyTextAssumption DEF AnsiAllocated, Types, Typed, ThreadInv, WireInv
<1>24. ASSUME AnsiFilled PROVE Types'
  <2>1. \E t \in Text \cup {Mangled, NoText} : remoteClipboardText' = t /\ mainq' = Notified(t)
    BY <1>24, <1>4 DEF AnsiFilled, ThreadInv, Decodings
  <2>2. remoteClipboardText' \in Text \cup {NoText, Mangled} /\ mainq' \in Seq(Text \cup {Mangled})
    BY <1>3, <2>1 DEF Notified
  <2>3. channel' \in Thread /\ channel'.at = "idle"
    BY <1>24 DEF AnsiFilled, Thread, Idle, Value
  <2>4. main' \in Thread /\ main'.at = main.at /\ main'.text = main.text
    BY <1>24, <1>1 DEF AnsiFilled, Thread, MainDisturbed
  <2> QED BY <1>24, <2>1, <2>2, <2>3, <2>4 DEF AnsiFilled, Types, Typed, ThreadInv, WireInv
<1>25. ASSUME NEW fs \in SUBSET TextFormat, NEW t \in Text \cup {NoText}, fs # {} => t \in Text,
              ServerCopies(fs, t)
       PROVE  Types'
  <2>1. count' \in Counts
    BY <1>25, <1>1, Counting DEF ServerCopies
  <2>2. toClient' \in Seq(ToClient)
    BY <1>25, <1>2, Wires, MessageFacts DEF ServerCopies
  <2>3. server' \in Servers /\ server'.formats = fs /\ server'.text = t
    BY <1>25 DEF ServerCopies, Servers, Value
  <2> QED BY <1>25, <2>1, <2>2, <2>3 DEF ServerCopies, Types, Typed, ThreadInv, WireInv
<1>26. ASSUME NEW f \in TextFormat, ServerPastes(f) PROVE Types'
  <2>1. count' \in Counts
    BY <1>26, <1>1, Counting DEF ServerPastes
  <2>2. toClient' \in Seq(ToClient)
    BY <1>26, <1>2, Wires, MessageFacts DEF ServerPastes
  <2>3. /\ {paste.latest} \cup (IF main.at = "freed" THEN {NoText} ELSE {}) \in SUBSET Value
        /\ NoText \in Value
    BY <1>1 DEF Pastes, Value
  <2>4. paste' \in Pastes
    BY <1>26, <1>1, <2>3 DEF ServerPastes, Pastes
  <2> QED BY <1>26, <2>1, <2>2, <2>3, <2>4 DEF ServerPastes, Types, Typed, ThreadInv, WireInv
<1>27. ASSUME ServerReceives PROVE Types'
  <2>1. toServer' \in Seq(ToServer) /\ Head(toServer) \in ToServer /\ cliprdr
    BY <1>27, Wires DEF ServerReceives, Types, WireInv
  <2>2. /\ Head(toServer).formats \in SUBSET TextFormat /\ Head(toServer).text \in Value
        /\ Head(toServer).kind = "data_request" => Head(toServer).formats # {}
    BY <2>1, MessageFacts
  <2>3. Head(toServer).kind = "data_request"
            => ServerAnswers(Head(toServer).formats) \in Text \cup {Refused}
    BY <2>2 DEF Types, WireInv, ServerAnswers
  <2>4. Head(toServer).kind = "data_request" =>
            DataResponse(Head(toServer).formats, ServerAnswers(Head(toServer).formats)) \in ToClient
    BY <2>2, <2>3, MessageFacts DEF Value
  <2>5. toClient' \in Seq(ToClient)
    BY <1>27, <1>2, <2>4, Wires DEF ServerReceives
  <2>6. server' \in Servers /\ (server' = server \/ server'.owner = "client")
    BY <1>27, <1>1, <2>2 DEF ServerReceives, Servers, Value
  <2>7. paste' \in Pastes
    BY <1>27, <1>1, <2>2 DEF ServerReceives, Pastes
  <2> QED BY <1>27, <2>1, <2>2, <2>3, <2>4, <2>5, <2>6, <2>7 DEF ServerReceives, Types, Typed,
             ThreadInv, WireInv
<1>28. ASSUME UNCHANGED vars PROVE Types'
  BY <1>28 DEF vars, Types, Typed, ThreadInv, WireInv
<1> QED
  BY <1>5, <1>6, <1>7, <1>8, <1>9, <1>10, <1>11, <1>12, <1>13, <1>14, <1>15, <1>16, <1>17,
     <1>18, <1>19, <1>20, <1>21, <1>22, <1>23, <1>24, <1>25, <1>26, <1>27, <1>28
  DEF Next, Connection, MainThread, BridgeCall, ChannelThread, RemoteSide

(* The types of the model, which its runs check: whatever the two threads   *)
(* and the remote side do in whatever order, every pointer, text and        *)
(* message is of its kind, and no count leaves its bound.                   *)
THEOREM TypeCorrectness == Spec => []TypeOK
<1>1. Types => TypeOK
  <2>1. ASSUME Types PROVE toServer \in Seq(Message) /\ toClient \in Seq(Message)
    BY <2>1, Wires DEF Types, WireInv
  <2>2. ASSUME Types PROVE lastRequestedFormatId \subseteq TextFormat
    BY <2>2 DEF Types, Typed
  <2> QED BY <2>1, <2>2 DEF Types, Typed, TypeOK, Servers, Pastes, Counts
<1> QED BY <1>1, InitTypes, TypesStep, PTL DEF Spec

----------------------------------------------------------------------------
(* A paste on the remote side.                                              *)

(* What the remote side is served is the text sent last, except while that  *)
(* is being stored.                                                         *)
LocalInv ==
    /\ paste.latest \in Text \cup {NoText}
    /\ main.at = "freed" => localClipboardText \in {NoText, Dangling} /\ paste.latest = main.text
    /\ main.at # "freed" => localClipboardText = paste.latest

(* What a paste that may get one of these texts may be answered.            *)
Justified(t, texts) ==
    /\ t \in Text => t \in texts
    /\ t = Garbage => NoText \in texts
    /\ t = Refused => texts \cap {NoText, EmptyText} # {}

Answers(q, texts) == \A i \in DOMAIN q : q[i].kind = "data_response" => Justified(q[i].text, texts)

(* A paste under way is one request, or one callback at work, or one        *)
(* response.                                                                *)
OneAnswer ==
    /\ One(toClient, "data_request") /\ One(toServer, "data_response")
    /\ Has(toClient, "data_request") =>
          paste.open /\ channel.at # "answering" /\ ~Has(toServer, "data_response")
    /\ channel.at = "answering" => paste.open /\ ~Has(toServer, "data_response")
    /\ Has(toServer, "data_response") => paste.open

AnswerInv ==
    /\ paste.open => paste.latest \in paste.mayGet /\ (main.at = "freed" => NoText \in paste.mayGet)
    /\ channel.at = "answering" =>
          /\ IF channel.text = Dangling THEN channel.torn ELSE channel.text \in paste.mayGet
          /\ channel.torn => NoText \in paste.mayGet
    /\ Answers(toServer, paste.mayGet)

PasteInv == LocalInv /\ OneAnswer /\ AnswerInv /\ PasteGetsCopiedText

(* Answers under way, as the texts a paste may get become more and as       *)
(* responses are sent and read.                                             *)
LEMMA AnswersFacts ==
    ASSUME NEW texts
    PROVE  /\ Answers(<<>>, texts)
           /\ \A q : ~Has(q, "data_response") => Answers(q, texts)
           /\ \A more : texts \subseteq more =>
                /\ \A t : Justified(t, texts) => Justified(t, more)
                /\ \A q : Answers(q, texts) => Answers(q, more)
           /\ \A q \in Seq(ToServer) : Answers(q, texts) =>
                /\ \A m \in ToServer : (m.kind = "data_response" => Justified(m.text, texts))
                                          => Answers(Append(q, m), texts)
                /\ q # <<>> => /\ Answers(Tail(q), texts)
                               /\ Head(q).kind = "data_response" => Justified(Head(q).text, texts)
<1>1. Answers(<<>>, texts)
  BY DEF Answers
<1>2. \A q : ~Has(q, "data_response") => Answers(q, texts)
  BY DEF Answers, Has
<1>3. ASSUME NEW more, texts \subseteq more, NEW t, Justified(t, texts) PROVE Justified(t, more)
  BY <1>3 DEF Justified
<1>4. ASSUME NEW more, texts \subseteq more, NEW q, Answers(q, texts) PROVE Answers(q, more)
  BY <1>3, <1>4 DEF Answers
<1>5. ASSUME NEW q \in Seq(ToServer), Answers(q, texts), NEW m \in ToServer,
             m.kind = "data_response" => Justified(m.text, texts)
      PROVE  Answers(Append(q, m), texts)
  <2>1. /\ DOMAIN Append(q, m) = 1 .. Len(q) + 1 /\ DOMAIN q = 1 .. Len(q) /\ Len(q) \in Nat
        /\ \A i \in 1 .. Len(q) : Append(q, m)[i] = q[i]
        /\ Append(q, m)[Len(q) + 1] = m
    OBVIOUS
  <2>2. ASSUME NEW i \in DOMAIN Append(q, m) PROVE i \in DOMAIN q \/ i = Len(q) + 1
    BY <2>1
  <2> QED BY <1>5, <2>1, <2>2 DEF Answers
<1>6. ASSUME NEW q \in Seq(ToServer), Answers(q, texts), q # <<>>
      PROVE  /\ Answers(Tail(q), texts)
             /\ Head(q).kind = "data_response" => Justified(Head(q).text, texts)
  <2>1. /\ DOMAIN q = 1 .. Len(q) /\ DOMAIN Tail(q) = 1 .. Len(q) - 1 /\ Len(q) \in Nat /\ Len(q) > 0
        /\ Head(q) = q[1] /\ \A i \in 1 .. Len(q) - 1 : Tail(q)[i] = q[i + 1]
    BY <1>6
  <2>2. 1 \in DOMAIN q
    BY <2>1
  <2>3. ASSUME NEW i \in DOMAIN Tail(q) PROVE i + 1 \in DOMAIN q /\ Tail(q)[i] = q[i + 1]
    BY <2>1
  <2> QED BY <1>6, <2>1, <2>2, <2>3 DEF Answers
<1> QED BY <1>1, <1>2, <1>3, <1>4, <1>5, <1>6

(* Nothing is under way when a session begins.                              *)
LEMMA InitPaste == Init => PasteInv
<1>1. Init => LocalInv
  BY DEF Init, LocalInv, Idle, NoPaste
<1>2. Init => OneAnswer
  BY NothingSent DEF Init, OneAnswer, Idle
<1>3. Init => AnswerInv
  BY AnswersFacts DEF Init, AnswerInv, Idle, NoPaste
<1>4. Init => PasteGetsCopiedText
  BY DEF Init, PasteGetsCopiedText, NoPaste
<1> QED BY <1>1, <1>2, <1>3, <1>4 DEF PasteInv

(* No step breaks it: an action for each place where an answer can be.      *)
LEMMA PasteStep ==
    ASSUME Types, PasteInv, [Next]_vars
    PROVE  PasteInv'
<1> USE DEF linkVars, textVars, swiftVars, threadVars, wires, remoteVars
<1>1. /\ main \in Thread /\ channel \in Thread /\ paste \in Pastes /\ server \in Servers
      /\ localClipboardText \in Text \cup {NoText, Dangling}
      /\ toServer \in Seq(ToServer) /\ toClient \in Seq(ToClient)
  BY DEF Types, Typed, WireInv
<1>2. ThreadInv /\ LocalInv /\ OneAnswer /\ AnswerInv /\ PasteGetsCopiedText
  BY DEF Types, PasteInv
<1>3. /\ \A m \in ToClient : Has(Append(toClient, m), "data_request") <=>
                                Has(toClient, "data_request") \/ m.kind = "data_request"
      /\ \A m \in ToClient : m.kind = "data_request" /\ ~Has(toClient, "data_request")
                                => One(Append(toClient, m), "data_request")
      /\ \A m \in ToClient : m.kind # "data_request" => One(Append(toClient, m), "data_request")
      /\ toClient # <<>> =>
            /\ One(Tail(toClient), "data_request")
            /\ Has(Tail(toClient), "data_request") => Has(toClient, "data_request")
            /\ Head(toClient).kind = "data_request" =>
                  Has(toClient, "data_request") /\ ~Has(Tail(toClient), "data_request")
  BY <1>1, <1>2, Sent, Taken DEF OneAnswer
<1>4. /\ \A m \in ToServer : Has(Append(toServer, m), "data_response") <=>
                                Has(toServer, "data_response") \/ m.kind = "data_response"
      /\ \A m \in ToServer : m.kind = "data_response" /\ ~Has(toServer, "data_response")
                                => One(Append(toServer, m), "data_response")
      /\ \A m \in ToServer : m.kind # "data_response" => One(Append(toServer, m), "data_response")
      /\ toServer # <<>> =>
            /\ One(Tail(toServer), "data_response")
            /\ Has(Tail(toServer), "data_response") => Has(toServer, "data_response")
            /\ Head(toServer).kind = "data_response" =>
                  Has(toServer, "data_response") /\ ~Has(Tail(toServer), "data_response")
  BY <1>1, <1>2, Sent, Taken DEF OneAnswer
<1>5. /\ \A m \in ToServer : (m.kind = "data_response" => Justified(m.text, paste.mayGet))
                                => Answers(Append(toServer, m), paste.mayGet)
      /\ toServer # <<>> => /\ Answers(Tail(toServer), paste.mayGet)
                            /\ Head(toServer).kind = "data_response"
                                  => Justified(Head(toServer).text, paste.mayGet)
  BY <1>1, <1>2, AnswersFacts DEF AnswerInv
<1>6. ASSUME Connect PROVE PasteInv'
  BY <1>6 DEF PasteInv, LocalInv, OneAnswer, AnswerInv, PasteGetsCopiedText, Connect
<1>7. ASSUME PostConnect PROVE PasteInv'
  BY <1>7 DEF PasteInv, LocalInv, OneAnswer, AnswerInv, PasteGetsCopiedText, PostConnect
<1>8. ASSUME SessionConnected PROVE PasteInv'
  BY <1>8 DEF PasteInv, LocalInv, OneAnswer, AnswerInv, PasteGetsCopiedText, SessionConnected
<1>9. ASSUME HandleRemoteClipboardChanged PROVE PasteInv'
  BY <1>9 DEF PasteInv, LocalInv, OneAnswer, AnswerInv, PasteGetsCopiedText,
     HandleRemoteClipboardChanged
<1>10. ASSUME UNCHANGED vars PROVE PasteInv'
  BY <1>10 DEF PasteInv, LocalInv, OneAnswer, AnswerInv, PasteGetsCopiedText, vars
<1>11. ASSUME ChannelConnected PROVE PasteInv'
  <2>1. toServer = <<>> /\ ~paste.open /\ channel.at = "idle"
    BY <1>11, <1>2 DEF ChannelConnected, ThreadInv, Types, WireInv
  <2>2. ~Has(toClient', "data_request") /\ One(toClient', "data_request")
    BY <1>11, MessageFacts DEF ChannelConnected, Has, One
  <2>3. ~Has(toServer, "data_response")
    BY <2>1, NothingSent
  <2> QED BY <1>11, <1>2, <2>1, <2>2, <2>3 DEF ChannelConnected, PasteInv, LocalInv, OneAnswer,
             AnswerInv, PasteGetsCopiedText
<1>12. ASSUME Disconnect PROVE PasteInv'
  <2>1. main'.at = "idle" /\ channel'.at = "idle"
    BY <1>12 DEF Disconnect, Idle
  <2>2. ~paste'.open /\ paste'.got = NoText /\ paste'.latest = NoText /\ localClipboardText' = NoText
    BY <1>12 DEF Disconnect, NoPaste
  <2>3. toServer' = <<>> /\ toClient' = <<>>
    BY <1>12 DEF Disconnect
  <2> QED BY <2>1, <2>2, <2>3, NothingSent, AnswersFacts DEF PasteInv, LocalInv, OneAnswer,
             AnswerInv, PasteGetsCopiedText
<1>13. ASSUME NEW t \in Text, SetClipboardText(t) PROVE PasteInv'
  <2>1. main'.at = "freed" /\ main'.text = t /\ localClipboardText' \in {NoText, Dangling}
    BY <1>13 DEF SetClipboardText, Idle
  <2>2. /\ channel'.at = channel.at /\ channel'.text = channel.text
        /\ channel.at = "answering" => channel'.torn
    BY <1>13, <1>1 DEF SetClipboardText, ChannelDisturbed, Thread
  <2>3. /\ paste'.open = paste.open /\ paste'.got = paste.got /\ paste'.latest = t
        /\ paste'.mayGet = paste.mayGet \cup {t, NoText}
    BY <1>13, <1>1 DEF SetClipboardText, Pastes
  <2>4. UNCHANGED <<toServer, toClient>>
    BY <1>13 DEF SetClipboardText
  <2>5. LocalInv' /\ OneAnswer'
    BY <1>2, <2>1, <2>2, <2>3, <2>4 DEF LocalInv, OneAnswer
  <2>6. Answers(toServer', paste'.mayGet)
    BY <1>2, <2>3, <2>4, AnswersFacts DEF AnswerInv
  <2>7. AnswerInv'
    BY <1>2, <2>1, <2>2, <2>3, <2>6 DEF AnswerInv
  <2>8. PasteGetsCopiedText'
    BY <1>2, <2>3 DEF PasteGetsCopiedText
  <2> QED BY <2>5, <2>7, <2>8 DEF PasteInv
<1>14. ASSUME TextStored PROVE PasteInv'
  <2>1. main.at = "freed" /\ main'.at = "stored" /\ localClipboardText' = main.text
    BY <1>14, <1>1 DEF TextStored, Thread
  <2>2. UNCHANGED <<channel, toServer, toClient, paste>>
    BY <1>14 DEF TextStored
  <2> QED BY <1>2, <2>1, <2>2 DEF PasteInv, LocalInv, OneAnswer, AnswerInv, PasteGetsCopiedText
<1>15. ASSUME TextNotStored PROVE PasteInv'
  <2>1. main.at = "freed" /\ main'.at = "idle" /\ localClipboardText' = NoText
    BY <1>15 DEF TextNotStored, Idle
  <2>2. /\ paste'.open = paste.open /\ paste'.got = paste.got /\ paste'.latest = NoText
        /\ paste'.mayGet = paste.mayGet
    BY <1>15, <1>1 DEF TextNotStored, Pastes
  <2>3. UNCHANGED <<channel, toServer, toClient>>
    BY <1>15 DEF TextNotStored
  <2> QED BY <1>2, <2>1, <2>2, <2>3 DEF PasteInv, LocalInv, OneAnswer, AnswerInv,
             PasteGetsCopiedText
<1>16. ASSUME TextAnnounced PROVE PasteInv'
  <2>1. main.at = "stored" /\ main'.at = "idle"
    BY <1>16 DEF TextAnnounced, Idle
  <2>2. /\ Has(toServer', "data_response") <=> Has(toServer, "data_response")
        /\ One(toServer', "data_response") /\ Answers(toServer', paste.mayGet)
    BY <1>16, <1>4, <1>5, MessageFacts DEF TextAnnounced
  <2>3. UNCHANGED <<localClipboardText, channel, toClient, paste>>
    BY <1>16 DEF TextAnnounced
  <2> QED BY <1>2, <2>1, <2>2, <2>3 DEF PasteInv, LocalInv, OneAnswer, AnswerInv,
             PasteGetsCopiedText
<1>17. ASSUME GetClipboardText PROVE PasteInv'
  <2>1. main.at = "idle" /\ main'.at = "copying"
    BY <1>17 DEF GetClipboardText, Idle, MainIdle
  <2>2. UNCHANGED <<localClipboardText, channel, toServer, toClient, paste>>
    BY <1>17 DEF GetClipboardText
  <2> QED BY <1>2, <2>1, <2>2 DEF PasteInv, LocalInv, OneAnswer, AnswerInv, PasteGetsCopiedText
<1>18. ASSUME TextReturned PROVE PasteInv'
  <2>1. main.at = "copying" /\ main'.at = "idle"
    BY <1>18 DEF TextReturned, Idle
  <2>2. UNCHANGED <<localClipboardText, channel, toServer, toClient, paste>>
    BY <1>18 DEF TextReturned
  <2> QED BY <1>2, <2>1, <2>2 DEF PasteInv, LocalInv, OneAnswer, AnswerInv, PasteGetsCopiedText
<1>19. ASSUME HandleMonitorReady PROVE PasteInv'
  <2>1. toClient # <<>> /\ toClient' = Tail(toClient)
    BY <1>19 DEF HandleMonitorReady, ChannelReceives
  <2>2. /\ Has(toServer', "data_response") <=> Has(toServer, "data_response")
        /\ One(toServer', "data_response") /\ Answers(toServer', paste.mayGet)
    BY <1>19, <1>4, <1>5, MessageFacts DEF HandleMonitorReady
  <2>3. UNCHANGED <<localClipboardText, main, channel, paste>>
    BY <1>19 DEF HandleMonitorReady
  <2> QED BY <1>2, <1>3, <2>1, <2>2, <2>3 DEF PasteInv, LocalInv, OneAnswer, AnswerInv,
             PasteGetsCopiedText
<1>20. ASSUME HandleServerFormatList PROVE PasteInv'
  <2> DEFINE fs == BestFormat(Head(toClient).formats)
  <2>1. toClient # <<>> /\ toClient' = Tail(toClient)
    BY <1>20 DEF HandleServerFormatList, ChannelReceives
  <2>2. toServer' = toServer \/ (fs # {} /\ toServer' = Append(toServer, DataRequest(fs)))
    BY <1>20 DEF HandleServerFormatList
  <2>3. fs \in SUBSET TextFormat
    BY DEF BestFormat, TextFormat
  <2>4. fs # {} => DataRequest(fs) \in ToServer /\ DataRequest(fs).kind = "data_request"
    BY <2>3, MessageFacts
  <2>5. /\ Has(toServer', "data_response") <=> Has(toServer, "data_response")
        /\ One(toServer', "data_response") /\ Answers(toServer', paste.mayGet)
    BY <1>2, <1>4, <1>5, <2>2, <2>4 DEF OneAnswer, AnswerInv
  <2>6. UNCHANGED <<localClipboardText, main, channel, paste>>
    BY <1>20 DEF HandleServerFormatList
  <2> QED BY <1>2, <1>3, <2>1, <2>5, <2>6 DEF PasteInv, LocalInv, OneAnswer, AnswerInv,
             PasteGetsCopiedText
<1>21. ASSUME HandleServerFormatDataRequest PROVE PasteInv'
  <2> DEFINE fs == Head(toClient).formats
  <2>1. /\ toClient # <<>> /\ toClient' = Tail(toClient) /\ Head(toClient).kind = "data_request"
        /\ UNCHANGED <<localClipboardText, main, paste>>
    BY <1>21 DEF HandleServerFormatDataRequest, ChannelReceives
  <2>2. /\ paste.open /\ ~Has(toServer, "data_response") /\ channel.at # "answering"
        /\ ~Has(toClient', "data_request") /\ One(toClient', "data_request")
    BY <1>2, <1>3, <2>1 DEF OneAnswer
  <2>3. LocalInv' /\ PasteGetsCopiedText'
    BY <1>2, <2>1 DEF LocalInv, PasteGetsCopiedText
  <2>4. CASE localClipboardText = NoText
    <3>1. toServer' = Append(toServer, DataResponse(fs, Refused)) /\ UNCHANGED channel
      BY <1>21, <2>4 DEF HandleServerFormatDataRequest, Answer
    <3>2. NoText \in paste.mayGet
      BY <1>2, <2>2, <2>4 DEF LocalInv, AnswerInv
    <3>3. Justified(Refused, paste.mayGet)
      BY <3>2, TextAssumption DEF Justified, Refused, Garbage
    <3>4. Head(toClient) \in ToClient
      BY <1>1, <2>1, Wires
    <3>5. /\ DataResponse(fs, Refused) \in ToServer /\ DataResponse(fs, Refused).kind = "data_response"
          /\ DataResponse(fs, Refused).text = Refused
      <4>1. fs \in SUBSET TextFormat
        BY <3>4, MessageFacts
      <4>2. DataResponse(fs, Refused) \in ToServer
        BY <4>1, MessageFacts DEF Value
      <4> QED BY <4>2 DEF DataResponse
    <3>6. One(toServer', "data_response") /\ Answers(toServer', paste.mayGet)
      BY <1>4, <1>5, <2>2, <3>1, <3>3, <3>5
    <3>7. OneAnswer'
      BY <2>1, <2>2, <3>1, <3>6 DEF OneAnswer
    <3>8. AnswerInv'
      BY <1>2, <2>1, <3>1, <3>6 DEF AnswerInv
    <3> QED BY <2>3, <3>7, <3>8 DEF PasteInv
  <2>5. CASE localClipboardText # NoText
    <3>1. /\ channel'.at = "answering" /\ channel'.text = localClipboardText
          /\ channel'.torn = (localClipboardText = Dangling) /\ UNCHANGED toServer
      BY <1>21, <2>5 DEF HandleServerFormatDataRequest
    <3>2. OneAnswer'
      BY <1>2, <2>1, <2>2, <3>1 DEF OneAnswer
    <3>3. localClipboardText # Dangling => localClipboardText \in paste.mayGet
      BY <1>2, <2>2, <2>5 DEF LocalInv, AnswerInv
    <3>4. localClipboardText = Dangling => NoText \in paste.mayGet
      BY <1>2, <2>2, TextAssumption DEF LocalInv, AnswerInv, Dangling, NoText
    <3>5. AnswerInv'
      BY <1>2, <2>1, <3>1, <3>3, <3>4 DEF AnswerInv
    <3> QED BY <2>3, <3>2, <3>5 DEF PasteInv
  <2> QED BY <2>4, <2>5
<1>22. ASSUME DataResponseSent PROVE PasteInv'
  <2>1. /\ channel.at = "answering" /\ channel'.at = "idle"
        /\ UNCHANGED <<localClipboardText, main, toClient, paste>>
    BY <1>22 DEF DataResponseSent, Idle
  <2>2. PICK t \in ReadResults(channel.text, channel.torn, localClipboardText) :
            toServer' = Append(toServer, DataResponse(channel.formats, Answer(channel.formats, t)))
    BY <1>22 DEF DataResponseSent
  <2> DEFINE a == Answer(channel.formats, t)
  <2>3. /\ paste.open /\ ~Has(toServer, "data_response") /\ ~Has(toClient, "data_request")
        /\ paste.latest \in paste.mayGet
        /\ IF channel.text = Dangling THEN channel.torn ELSE channel.text \in paste.mayGet
        /\ channel.torn => NoText \in paste.mayGet
    BY <1>2, <2>1 DEF OneAnswer, AnswerInv
  <2>4. channel.text \in Text \cup {Dangling}
    BY <1>2, <2>1 DEF ThreadInv
  <2>5. localClipboardText \in Text => localClipboardText \in paste.mayGet
    BY <1>2, <2>3, TextAssumption DEF LocalInv, NoText, Dangling
  <2>6. a \in Value /\ Justified(a, paste.mayGet)
    <3>1. CASE channel.torn
      <4>1. t \in Text \cup {NoText, Garbage} /\ (t \in Text => t \in paste.mayGet)
        BY <1>1, <2>2, <2>3, <2>4, <2>5, <3>1, TextAssumption DEF ReadResults, NoText, Garbage,
           Dangling
      <4> QED BY <2>3, <3>1, <4>1, TextAssumption DEF Answer, Justified, Value, NoText, Garbage,
                 Refused
    <3>2. CASE ~channel.torn
      <4>1. t \in Text /\ t \in paste.mayGet
        BY <2>2, <2>3, <2>4, <3>2 DEF ReadResults
      <4> QED BY <4>1, TextAssumption DEF Answer, Justified, Value, NoText, Garbage, Refused
    <3> QED BY <3>1, <3>2
  <2>7. channel.formats \in SUBSET TextFormat
    BY <1>1 DEF Thread
  <2>8. /\ DataResponse(channel.formats, a) \in ToServer /\ DataResponse(channel.formats, a).text = a
        /\ DataResponse(channel.formats, a).kind = "data_response"
    <3>1. DataResponse(channel.formats, a) \in ToServer
      BY <2>6, <2>7, MessageFacts
    <3> QED BY <3>1 DEF DataResponse
  <2> HIDE DEF a
  <2>9. One(toServer', "data_response") /\ Answers(toServer', paste.mayGet)
    BY <1>4, <1>5, <2>2, <2>3, <2>6, <2>8 DEF a
  <2> QED BY <1>2, <2>1, <2>3, <2>9 DEF PasteInv, LocalInv, OneAnswer, AnswerInv,
             PasteGetsCopiedText
<1>23. ASSUME HandleServerFormatDataResponse PROVE PasteInv'
  <2>1. toClient # <<>> /\ toClient' = Tail(toClient) /\ UNCHANGED <<localClipboardText, toServer, paste>>
    BY <1>23 DEF HandleServerFormatDataResponse, ChannelReceives
  <2>2. channel'.at # "answering"
    <3>1. channel.at = "idle"
      BY <1>23 DEF HandleServerFormatDataResponse, ChannelReceives, Idle
    <3>2. CASE Head(toClient).text = Refused
      BY <1>23, <3>1, <3>2 DEF HandleServerFormatDataResponse
    <3>3. CASE Head(toClient).text # Refused
      <4>1. channel' = [Idle EXCEPT !.at = "decoding", !.text = Head(toClient).text,
                                    !.formats = Head(toClient).formats]
        BY <1>23, <3>3 DEF HandleServerFormatDataResponse
      <4> QED BY <4>1 DEF Idle
    <3> QED BY <3>2, <3>3
  <2>3. main'.at = main.at /\ main'.text = main.text
    BY <1>23, <1>1 DEF HandleServerFormatDataResponse, MainDisturbed, Thread
  <2> QED BY <1>2, <1>3, <2>1, <2>2, <2>3 DEF PasteInv, LocalInv, OneAnswer, AnswerInv,
             PasteGetsCopiedText
<1>24. ASSUME UnicodeDecoded PROVE PasteInv'
  <2>1. /\ UNCHANGED <<localClipboardText, toServer, toClient, paste>>
        /\ channel.at # "answering" /\ channel'.at # "answering"
        /\ main'.at = main.at /\ main'.text = main.text
    BY <1>24, <1>1 DEF UnicodeDecoded, Idle
  <2> QED BY <1>2, <2>1 DEF PasteInv, LocalInv, OneAnswer, AnswerInv, PasteGetsCopiedText
<1>25. ASSUME AnsiAllocated PROVE PasteInv'
  <2>1. /\ UNCHANGED <<localClipboardText, toServer, toClient, paste>>
        /\ channel.at # "answering" /\ channel'.at # "answering"
        /\ main'.at = main.at /\ main'.text = main.text
    BY <1>25, <1>1 DEF AnsiAllocated, Thread
  <2> QED BY <1>2, <2>1 DEF PasteInv, LocalInv, OneAnswer, AnswerInv, PasteGetsCopiedText
<1>26. ASSUME AnsiFilled PROVE PasteInv'
  <2>1. /\ UNCHANGED <<localClipboardText, toServer, toClient, paste>>
        /\ channel.at # "answering" /\ channel'.at # "answering"
        /\ main'.at = main.at /\ main'.text = main.text
    BY <1>26, <1>1 DEF AnsiFilled, Idle, MainDisturbed, Thread
  <2> QED BY <1>2, <2>1 DEF PasteInv, LocalInv, OneAnswer, AnswerInv, PasteGetsCopiedText
<1>27. ASSUME NEW fs \in SUBSET TextFormat, NEW t, ServerCopies(fs, t) PROVE PasteInv'
  <2>1. /\ Has(toClient', "data_request") <=> Has(toClient, "data_request")
        /\ One(toClient', "data_request")
    BY <1>27, <1>3, MessageFacts DEF ServerCopies
  <2>2. UNCHANGED <<localClipboardText, main, channel, toServer, paste>>
    BY <1>27 DEF ServerCopies
  <2> QED BY <1>2, <2>1, <2>2 DEF PasteInv, LocalInv, OneAnswer, AnswerInv, PasteGetsCopiedText
<1>28. ASSUME NEW f \in TextFormat, ServerPastes(f) PROVE PasteInv'
  <2>1. ~paste.open /\ UNCHANGED <<localClipboardText, main, channel, toServer>>
    BY <1>28 DEF ServerPastes
  <2>2. ~Has(toServer, "data_response") /\ ~Has(toClient, "data_request") /\ channel.at # "answering"
    BY <1>2, <2>1 DEF OneAnswer
  <2>3. /\ paste'.open /\ paste'.latest = paste.latest /\ paste.latest \in paste'.mayGet
        /\ main.at = "freed" => NoText \in paste'.mayGet
    BY <1>28, <1>1 DEF ServerPastes, Pastes
  <2>4. One(toClient', "data_request")
    BY <1>28, <1>3, <2>2, MessageFacts DEF ServerPastes
  <2>5. Answers(toServer', paste'.mayGet)
    BY <2>1, <2>2, AnswersFacts
  <2> QED BY <1>2, <2>1, <2>2, <2>3, <2>4, <2>5 DEF PasteInv, LocalInv, OneAnswer, AnswerInv,
             PasteGetsCopiedText
<1>29. ASSUME ServerReceives PROVE PasteInv'
  <2> DEFINE m == Head(toServer)
  <2>1. toServer # <<>> /\ toServer' = Tail(toServer) /\ UNCHANGED <<localClipboardText, main, channel>>
    BY <1>29 DEF ServerReceives
  <2>2. CASE m.kind = "format_list"
    <3>1. UNCHANGED <<toClient, paste>>
      BY <1>29, <2>2 DEF ServerReceives
    <3> QED BY <1>2, <1>4, <1>5, <2>1, <3>1 DEF PasteInv, LocalInv, OneAnswer, AnswerInv,
               PasteGetsCopiedText
  <2>3. CASE m.kind = "data_request"
    <3> DEFINE r == DataResponse(m.formats, ServerAnswers(m.formats))
    <3>1. toClient' = Append(toClient, r) /\ UNCHANGED paste
      BY <1>29, <2>3 DEF ServerReceives
    <3>2. m \in ToServer /\ m.formats \in SUBSET TextFormat /\ m.formats # {}
      BY <1>1, <2>1, <2>3, Wires, MessageFacts
    <3>3. ServerAnswers(m.formats) \in Text \cup {Refused}
      BY <1>1, <3>2 DEF ServerAnswers, Types, WireInv
    <3>4. r \in ToClient /\ r.kind = "data_response"
      BY <3>2, <3>3, MessageFacts DEF Value
    <3> HIDE DEF r
    <3>5. /\ Has(toClient', "data_request") <=> Has(toClient, "data_request")
          /\ One(toClient', "data_request")
      BY <1>3, <3>1, <3>4
    <3> QED BY <1>2, <1>4, <1>5, <2>1, <3>1, <3>5 DEF PasteInv, LocalInv, OneAnswer, AnswerInv,
               PasteGetsCopiedText
  <2>4. CASE m.kind = "data_response"
    <3>1. /\ UNCHANGED toClient /\ ~paste'.open /\ paste'.got = m.text
          /\ paste'.latest = paste.latest /\ paste'.mayGet = paste.mayGet
      BY <1>29, <1>1, <2>4 DEF ServerReceives, Pastes
    <3>2. /\ Has(toServer, "data_response") /\ ~Has(toServer', "data_response")
          /\ One(toServer', "data_response") /\ Answers(toServer', paste.mayGet)
          /\ Justified(m.text, paste.mayGet)
      BY <1>4, <1>5, <2>1, <2>4
    <3>3. OneAnswer'
      BY <1>2, <2>1, <3>1, <3>2 DEF OneAnswer
    <3>4. PasteGetsCopiedText'
      BY <3>1, <3>2 DEF PasteGetsCopiedText, Justified
    <3>5. LocalInv' /\ AnswerInv'
      BY <1>2, <2>1, <3>1, <3>2 DEF LocalInv, AnswerInv, OneAnswer
    <3> QED BY <3>3, <3>4, <3>5 DEF PasteInv
  <2> QED BY <1>29, <2>2, <2>3, <2>4 DEF ServerReceives
<1> QED
  BY <1>6, <1>7, <1>8, <1>9, <1>10, <1>11, <1>12, <1>13, <1>14, <1>15, <1>16, <1>17, <1>18,
     <1>19, <1>20, <1>21, <1>22, <1>23, <1>24, <1>25, <1>26, <1>27, <1>28, <1>29
  DEF Next, Connection, MainThread, BridgeCall, ChannelThread, RemoteSide

(* A paste on the remote side gets the text the user sent last, or, when    *)
(* another is sent before the answer, that one or garbage, and is refused   *)
(* only when there is nothing to paste: for any texts, and however the two  *)
(* threads overtake each other in viDesk_setClipboardText and               *)
(* ServerFormatDataRequest.                                                 *)
THEOREM PasteGetsWhatWasCopied == Spec => []PasteGetsCopiedText
<1>1. Init => Types /\ PasteInv
  BY InitTypes, InitPaste
<1>2. Types /\ PasteInv /\ [Next]_vars => (Types /\ PasteInv)'
  BY TypesStep, PasteStep
<1>3. PasteInv => PasteGetsCopiedText
  BY DEF PasteInv
<1> QED BY <1>1, <1>2, <1>3, PTL DEF Spec

----------------------------------------------------------------------------
(* A text on the remote side.                                               *)

(* The places where it can be, from its announcement to the client's text.  *)
Listed == LastIs(toClient, FormatList(server.formats))
Requested == LastIs(toServer, DataRequest(lastRequestedFormatId))
Responded == LastIs(toClient, DataResponse(lastRequestedFormatId, server.text))
Decoded ==
    IF channel.at \in {"decoding", "filling"}
    THEN channel.text = server.text /\ channel.formats = lastRequestedFormatId
    ELSE remoteClipboardText = server.text

SyncInv ==
    server.owner = "server" /\ server.formats # {} =>
        \/ Listed
        \/ /\ ~Has(toClient, "format_list")
           /\ lastRequestedFormatId = BestFormat(server.formats)
           /\ \/ Requested
              \/ /\ ~Has(toServer, "data_request")
                 /\ Responded \/ (~Has(toClient, "data_response") /\ Decoded)

(* No step loses the text: each hands it on to the next place.              *)
LEMMA SyncStep ==
    ASSUME Types, SyncInv, [Next]_vars
    PROVE  SyncInv'
<1> USE DEF linkVars, textVars, swiftVars, threadVars, wires, remoteVars
<1> DEFINE list == FormatList(server.formats)
           request == DataRequest(lastRequestedFormatId)
           response == DataResponse(lastRequestedFormatId, server.text)
<1>1. /\ main \in Thread /\ channel \in Thread /\ server \in Servers
      /\ toServer \in Seq(ToServer) /\ toClient \in Seq(ToClient)
  BY DEF Types, Typed, WireInv
<1>2. list.kind = "format_list" /\ request.kind = "data_request" /\ response.kind = "data_response"
  BY DEF FormatList, DataRequest, DataResponse
<1> HIDE DEF list, request, response
<1>3. ASSUME NEW m \in ToClient, toClient' = Append(toClient, m)
      PROVE  /\ m.kind # "format_list" =>
                  /\ LastIs(toClient, list) => LastIs(toClient', list)
                  /\ Has(toClient', "format_list") => Has(toClient, "format_list")
             /\ m.kind # "data_response" =>
                  /\ LastIs(toClient, response) => LastIs(toClient', response)
                  /\ Has(toClient', "data_response") => Has(toClient, "data_response")
             /\ LastIs(toClient', m)
  BY <1>1, <1>2, <1>3, Sent
<1>4. ASSUME NEW m \in ToServer, toServer' = Append(toServer, m)
      PROVE  /\ m.kind # "data_request" =>
                  /\ LastIs(toServer, request) => LastIs(toServer', request)
                  /\ Has(toServer', "data_request") => Has(toServer, "data_request")
             /\ LastIs(toServer', m)
  BY <1>1, <1>2, <1>4, Sent
<1>5. ASSUME toClient # <<>>, toClient' = Tail(toClient)
      PROVE  /\ LastIs(toClient, list) => LastIs(toClient', list)
                   \/ (Head(toClient) = list /\ ~Has(toClient', "format_list"))
             /\ LastIs(toClient, response) => LastIs(toClient', response)
                   \/ (Head(toClient) = response /\ ~Has(toClient', "data_response"))
             /\ \A kind : Has(toClient, kind) <=> Has(toClient', kind) \/ Head(toClient).kind = kind
  BY <1>1, <1>2, <1>5, Taken
<1>6. ASSUME toServer # <<>>, toServer' = Tail(toServer)
      PROVE  /\ LastIs(toServer, request) => LastIs(toServer', request)
                   \/ (Head(toServer) = request /\ ~Has(toServer', "data_request"))
             /\ \A kind : Has(toServer, kind) <=> Has(toServer', kind) \/ Head(toServer).kind = kind
  BY <1>1, <1>2, <1>6, Taken
<1> USE DEF list, request, response
<1>7. ASSUME Connect PROVE SyncInv'
  BY <1>7 DEF Connect, SyncInv, Listed, Requested, Responded, Decoded
<1>8. ASSUME PostConnect PROVE SyncInv'
  BY <1>8 DEF PostConnect, SyncInv, Listed, Requested, Responded, Decoded
<1>9. ASSUME SessionConnected PROVE SyncInv'
  BY <1>9 DEF SessionConnected, SyncInv, Listed, Requested, Responded, Decoded
<1>10. ASSUME HandleRemoteClipboardChanged PROVE SyncInv'
  BY <1>10 DEF HandleRemoteClipboardChanged, SyncInv, Listed, Requested, Responded, Decoded
<1>11. ASSUME TextStored PROVE SyncInv'
  BY <1>11 DEF TextStored, SyncInv, Listed, Requested, Responded, Decoded
<1>12. ASSUME TextNotStored PROVE SyncInv'
  BY <1>12 DEF TextNotStored, SyncInv, Listed, Requested, Responded, Decoded
<1>13. ASSUME GetClipboardText PROVE SyncInv'
  BY <1>13 DEF GetClipboardText, SyncInv, Listed, Requested, Responded, Decoded
<1>14. ASSUME TextReturned PROVE SyncInv'
  BY <1>14 DEF TextReturned, SyncInv, Listed, Requested, Responded, Decoded
<1>15. ASSUME UNCHANGED vars PROVE SyncInv'
  BY <1>15 DEF vars, SyncInv, Listed, Requested, Responded, Decoded
<1>16. ASSUME ChannelConnected PROVE SyncInv'
  BY <1>16 DEF ChannelConnected, Types, WireInv, SyncInv
<1>17. ASSUME Disconnect PROVE SyncInv'
  BY <1>17 DEF Disconnect, NoServer, SyncInv
<1>18. ASSUME NEW t \in Text, SetClipboardText(t) PROVE SyncInv'
  <2>1. channel'.at = channel.at /\ channel'.text = channel.text /\ channel'.formats = channel.formats
    BY <1>18, <1>1 DEF SetClipboardText, ChannelDisturbed, Thread
  <2>2. UNCHANGED <<remoteClipboardText, lastRequestedFormatId, toServer, toClient, server>>
    BY <1>18 DEF SetClipboardText
  <2> QED BY <2>1, <2>2 DEF SyncInv, Listed, Requested, Responded, Decoded
<1>19. ASSUME TextAnnounced PROVE SyncInv'
  <2>1. UNCHANGED <<remoteClipboardText, lastRequestedFormatId, channel, toClient, server>>
    BY <1>19 DEF TextAnnounced
  <2>2. (Requested => Requested') /\ (Has(toServer', "data_request") => Has(toServer, "data_request"))
    BY <1>19, <1>4, <2>1, MessageFacts DEF TextAnnounced, Requested
  <2> QED BY <2>1, <2>2 DEF SyncInv, Listed, Responded, Decoded
<1>20. ASSUME HandleMonitorReady PROVE SyncInv'
  <2>1. UNCHANGED <<remoteClipboardText, lastRequestedFormatId, channel, server>>
    BY <1>20 DEF HandleMonitorReady
  <2>2. (Requested => Requested') /\ (Has(toServer', "data_request") => Has(toServer, "data_request"))
    BY <1>20, <1>4, <2>1, MessageFacts DEF HandleMonitorReady, Requested
  <2>3. toClient # <<>> /\ toClient' = Tail(toClient) /\ Head(toClient).kind = "monitor_ready"
    BY <1>20 DEF HandleMonitorReady, ChannelReceives
  <2>4. /\ Listed => Listed'
        /\ Responded => Responded'
        /\ Has(toClient', "format_list") => Has(toClient, "format_list")
        /\ Has(toClient', "data_response") => Has(toClient, "data_response")
    BY <1>2, <1>5, <2>1, <2>3 DEF Listed, Responded
  <2> QED BY <2>1, <2>2, <2>4 DEF SyncInv, Decoded
<1>21. ASSUME HandleServerFormatList PROVE SyncInv'
  <2> DEFINE fs == BestFormat(Head(toClient).formats)
  <2>1. /\ toClient # <<>> /\ toClient' = Tail(toClient) /\ Head(toClient).kind = "format_list"
        /\ UNCHANGED server
    BY <1>21 DEF HandleServerFormatList, ChannelReceives
  <2>2. SUFFICES ASSUME server.owner = "server", server.formats # {}, Listed, ~Listed'
                 PROVE  SyncInv'
    BY <1>5, <2>1 DEF SyncInv
  <2>3. Head(toClient) = list /\ ~Has(toClient', "format_list")
    BY <1>5, <2>1, <2>2 DEF Listed
  <2>4. server.formats \in SUBSET TextFormat /\ fs = BestFormat(server.formats)
    BY <1>1, <2>3 DEF Servers, FormatList
  <2>5. fs \in SUBSET TextFormat /\ fs # {}
    BY <2>2, <2>4 DEF BestFormat, TextFormat
  <2>6. lastRequestedFormatId' = fs /\ toServer' = Append(toServer, DataRequest(fs))
    BY <1>21, <2>5 DEF HandleServerFormatList
  <2>7. DataRequest(fs) \in ToServer
    BY <2>5, MessageFacts
  <2>8. Requested'
    BY <1>4, <2>6, <2>7 DEF Requested
  <2> QED BY <2>1, <2>3, <2>4, <2>6, <2>8 DEF SyncInv
<1>22. ASSUME HandleServerFormatDataRequest PROVE SyncInv'
  <2> DEFINE fs == Head(toClient).formats
             a == Answer(fs, NoText)
  <2>1. /\ toClient # <<>> /\ toClient' = Tail(toClient) /\ Head(toClient).kind = "data_request"
        /\ UNCHANGED <<remoteClipboardText, lastRequestedFormatId, server>>
    BY <1>22 DEF HandleServerFormatDataRequest, ChannelReceives
  <2>2. /\ Listed => Listed'
        /\ Responded => Responded'
        /\ Has(toClient', "format_list") => Has(toClient, "format_list")
        /\ Has(toClient', "data_response") => Has(toClient, "data_response")
    BY <1>2, <1>5, <2>1 DEF Listed, Responded
  <2>3. channel.at = "idle" /\ channel'.at \in {"idle", "answering"}
    BY <1>22 DEF HandleServerFormatDataRequest, ChannelReceives, Idle
  <2>4. toServer' = toServer \/ toServer' = Append(toServer, DataResponse(fs, a))
    BY <1>22 DEF HandleServerFormatDataRequest
  <2>5. fs \in SUBSET TextFormat /\ a \in Value
    BY <1>1, <2>1, Wires, MessageFacts DEF Answer, Value
  <2>6. DataResponse(fs, a) \in ToServer
    BY <2>5, MessageFacts
  <2>7. DataResponse(fs, a).kind # "data_request"
    BY DEF DataResponse
  <2>8. (Requested => Requested') /\ (Has(toServer', "data_request") => Has(toServer, "data_request"))
    BY <1>4, <2>1, <2>4, <2>6, <2>7 DEF Requested
  <2> QED BY <2>1, <2>2, <2>3, <2>8 DEF SyncInv, Decoded
<1>23. ASSUME DataResponseSent PROVE SyncInv'
  <2>1. /\ channel.at = "answering" /\ channel'.at = "idle"
        /\ UNCHANGED <<remoteClipboardText, lastRequestedFormatId, toClient, server>>
    BY <1>23 DEF DataResponseSent, Idle
  <2>2. PICK t \in ReadResults(channel.text, channel.torn, localClipboardText) :
            toServer' = Append(toServer, DataResponse(channel.formats, Answer(channel.formats, t)))
    BY <1>23 DEF DataResponseSent
  <2> DEFINE a == Answer(channel.formats, t)
  <2>3. a \in Value
    BY <2>1, <2>2 DEF Types, Typed, ThreadInv, ReadResults, Answer, Value
  <2>4. channel.formats \in SUBSET TextFormat
    BY <1>1 DEF Thread
  <2>5. DataResponse(channel.formats, a) \in ToServer
    BY <2>3, <2>4, MessageFacts
  <2>6. DataResponse(channel.formats, a).kind # "data_request"
    BY DEF DataResponse
  <2>7. (Requested => Requested') /\ (Has(toServer', "data_request") => Has(toServer, "data_request"))
    BY <1>4, <2>1, <2>2, <2>5, <2>6 DEF Requested
  <2> QED BY <2>1, <2>7 DEF SyncInv, Listed, Responded, Decoded
<1>24. ASSUME HandleServerFormatDataResponse PROVE SyncInv'
  <2>1. /\ toClient # <<>> /\ toClient' = Tail(toClient) /\ Head(toClient).kind = "data_response"
        /\ UNCHANGED <<lastRequestedFormatId, toServer, server>>
    BY <1>24 DEF HandleServerFormatDataResponse, ChannelReceives
  <2>2. /\ Listed => Listed'
        /\ Requested => Requested'
        /\ Has(toClient', "format_list") => Has(toClient, "format_list")
        /\ Has(toClient, "data_response")
    BY <1>2, <1>5, <2>1 DEF Listed, Requested
  <2>3. ASSUME server.owner = "server", server.formats # {}, Responded, ~Responded'
        PROVE  ~Has(toClient', "data_response") /\ Decoded'
    <3>1. Head(toClient) = response /\ ~Has(toClient', "data_response")
      BY <1>5, <2>1, <2>3 DEF Responded
    <3>2. server.text \in Text /\ server.text # Refused
      BY <2>3, TextAssumption DEF Types, WireInv
    <3>3. Head(toClient).text = server.text /\ Head(toClient).formats = lastRequestedFormatId
      BY <3>1 DEF DataResponse
    <3>4. channel' = [Idle EXCEPT !.at = "decoding", !.text = server.text, !.formats = lastRequestedFormatId]
      BY <1>24, <3>2, <3>3 DEF HandleServerFormatDataResponse
    <3>5. /\ channel'.at = "decoding" /\ channel'.text = server.text
          /\ channel'.formats = lastRequestedFormatId
      BY <3>4 DEF Idle
    <3> QED BY <2>1, <3>1, <3>5 DEF Decoded
  <2> QED BY <2>1, <2>2, <2>3 DEF SyncInv
<1>25. ASSUME AnsiAllocated PROVE SyncInv'
  <2>1. /\ channel.at = "decoding" /\ channel'.at = "filling"
        /\ channel'.text = channel.text /\ channel'.formats = channel.formats
        /\ UNCHANGED <<lastRequestedFormatId, toServer, toClient, server>>
    BY <1>25, <1>1 DEF AnsiAllocated, Thread
  <2> QED BY <2>1 DEF SyncInv, Listed, Requested, Responded, Decoded
<1>26. ASSUME UnicodeDecoded PROVE SyncInv'
  <2>1. /\ channel.at \in {"decoding", "filling"} /\ channel'.at = "idle"
        /\ UNCHANGED <<lastRequestedFormatId, toServer, toClient, server>>
    BY <1>26 DEF UnicodeDecoded, Idle
  <2>2. channel.formats = lastRequestedFormatId => remoteClipboardText' = channel.text
    BY <1>26 DEF UnicodeDecoded, Decodings
  <2> QED BY <2>1, <2>2 DEF SyncInv, Listed, Requested, Responded, Decoded
<1>27. ASSUME AnsiFilled PROVE SyncInv'
  <2>1. /\ channel.at \in {"decoding", "filling"} /\ channel'.at = "idle"
        /\ UNCHANGED <<lastRequestedFormatId, toServer, toClient, server>>
    BY <1>27 DEF AnsiFilled, Idle
  <2>2. channel.formats = lastRequestedFormatId => remoteClipboardText' = channel.text
    BY <1>27 DEF AnsiFilled, Decodings
  <2> QED BY <2>1, <2>2 DEF SyncInv, Listed, Requested, Responded, Decoded
<1>28. ASSUME NEW fs \in SUBSET TextFormat, NEW t, ServerCopies(fs, t) PROVE SyncInv'
  <2>1. toClient' = Append(toClient, FormatList(fs)) /\ server'.formats = fs
    BY <1>28 DEF ServerCopies
  <2>2. FormatList(fs) \in ToClient
    BY MessageFacts
  <2>3. Listed'
    BY <1>3, <2>1, <2>2 DEF Listed
  <2> QED BY <2>3 DEF SyncInv
<1>29. ASSUME NEW f \in TextFormat, ServerPastes(f) PROVE SyncInv'
  <2>1. /\ toClient' = Append(toClient, DataRequest({f}))
        /\ UNCHANGED <<remoteClipboardText, lastRequestedFormatId, channel, toServer, server>>
    BY <1>29 DEF ServerPastes
  <2>2. DataRequest({f}) \in ToClient /\ DataRequest({f}).kind = "data_request"
    BY MessageFacts
  <2>3. /\ Listed => Listed'
        /\ Responded => Responded'
        /\ Has(toClient', "format_list") => Has(toClient, "format_list")
        /\ Has(toClient', "data_response") => Has(toClient, "data_response")
    BY <1>3, <2>1, <2>2 DEF Listed, Responded
  <2> QED BY <2>1, <2>3 DEF SyncInv, Requested, Decoded
<1>30. ASSUME ServerReceives PROVE SyncInv'
  <2> DEFINE m == Head(toServer)
  <2>1. /\ toServer # <<>> /\ toServer' = Tail(toServer)
        /\ UNCHANGED <<remoteClipboardText, lastRequestedFormatId, channel>>
    BY <1>30 DEF ServerReceives
  <2>2. CASE m.kind = "format_list"
    BY <1>30, <2>2 DEF ServerReceives, SyncInv
  <2>3. CASE m.kind = "data_request"
    <3> DEFINE r == DataResponse(m.formats, ServerAnswers(m.formats))
    <3>1. toClient' = Append(toClient, r) /\ UNCHANGED server
      BY <1>30, <2>3 DEF ServerReceives
    <3>2. m \in ToServer /\ m.formats \in SUBSET TextFormat /\ m.formats # {}
      BY <1>1, <2>1, <2>3, Wires, MessageFacts
    <3>3. ServerAnswers(m.formats) \in Text \cup {Refused}
      BY <1>1, <3>2 DEF ServerAnswers, Types, WireInv
    <3>4. r \in ToClient /\ r.kind = "data_response"
      BY <3>2, <3>3, MessageFacts DEF Value
    <3>5. /\ Listed => Listed'
          /\ Has(toClient', "format_list") => Has(toClient, "format_list")
          /\ LastIs(toClient', r) /\ Has(toServer, "data_request")
      BY <1>3, <1>6, <2>1, <2>3, <3>1, <3>4 DEF Listed
    <3>6. ASSUME server.owner = "server", server.formats # {},
                 lastRequestedFormatId = BestFormat(server.formats), Requested, ~Requested'
          PROVE  ~Has(toServer', "data_request") /\ Responded'
      <4>1. m = request /\ ~Has(toServer', "data_request")
        BY <1>6, <2>1, <3>6 DEF Requested
      <4>2. m.formats = lastRequestedFormatId /\ m.formats \subseteq server.formats
        BY <3>6, <4>1 DEF DataRequest, BestFormat
      <4>3. r = response
        BY <3>6, <4>2 DEF ServerAnswers
      <4> QED BY <2>1, <3>1, <3>5, <4>1, <4>3 DEF Responded
    <3> QED BY <2>1, <3>1, <3>5, <3>6 DEF SyncInv
  <2>4. CASE m.kind = "data_response"
    <3>1. UNCHANGED <<toClient, server>>
      BY <1>30, <2>4 DEF ServerReceives
    <3>2. (Requested => Requested') /\ (Has(toServer', "data_request") => Has(toServer, "data_request"))
      BY <1>2, <1>6, <2>1, <2>4 DEF Requested
    <3> QED BY <2>1, <3>1, <3>2 DEF SyncInv, Listed, Responded, Decoded
  <2> QED BY <1>30, <2>2, <2>3, <2>4 DEF ServerReceives
<1> QED
  BY <1>7, <1>8, <1>9, <1>10, <1>11, <1>12, <1>13, <1>14, <1>15, <1>16, <1>17, <1>18, <1>19,
     <1>20, <1>21, <1>22, <1>23, <1>24, <1>25, <1>26, <1>27, <1>28, <1>29, <1>30
  DEF Next, Connection, MainThread, BridgeCall, ChannelThread, RemoteSide

(* When nothing is under way the client's text is the one last copied on    *)
(* the remote side, however lists, requests, responses and refusals of      *)
(* ServerFormatList and ServerFormatDataResponse crossed.                   *)
THEOREM RemoteTextCurrent == Spec => []RemoteTextCurrentAtRest
<1>1. Init => Types /\ SyncInv
  BY InitTypes DEF Init, NoServer, SyncInv
<1>2. Types /\ SyncInv /\ [Next]_vars => (Types /\ SyncInv)'
  BY TypesStep, SyncStep
<1>3. SyncInv => RemoteTextCurrentAtRest
  <2>1. \A m : ~LastIs(<<>>, m)
    BY DEF LastIs
  <2> QED BY <2>1 DEF SyncInv, Listed, Requested, Responded, Decoded, RemoteTextCurrentAtRest,
                      Quiet, ServerHoldsText, Idle
<1> QED BY <1>1, <1>2, <1>3, PTL DEF Spec

=============================================================================
