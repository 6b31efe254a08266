--------------------------- MODULE FreeRDPBridge ---------------------------
(****************************************************************************)
(* The C layer of ViDesk (FreeRDPBridge.c): the native contexts that        *)
(* viDesk_createContext allocates and viDesk_destroyContext frees, with the *)
(* flag the bridge keeps about each one and the transport FreeRDP keeps     *)
(* underneath it.                                                           *)
(*                                                                          *)
(* One Swift call often makes several bridge calls in a row without giving  *)
(* up the main thread (the reconnect task disconnects and then destroys),   *)
(* so each bridge function is an operator from the table of contexts to the *)
(* table it leaves behind, and the notifications it posts are an operator   *)
(* of their own.                                                            *)
(****************************************************************************)
EXTENDS Sequences

CONSTANTS
    Context,    \* identities of the allocations viDesk_createContext can make
    NoContext   \* the nil pointer

ASSUME NoContextAssumption == NoContext \notin Context

VARIABLE bridge \* Context -> the ViDeskContext with that identity

(* The life of an allocation.  An identity is used once: a pointer that    *)
(* outlives its context is seen as such, whatever malloc does with the     *)
(* memory.                                                                 *)
Life == {"unborn", "live", "freed"}

(* What FreeRDP keeps below the bridge: no transport, one that works, or   *)
(* one the peer or the network has cut.                                    *)
Transport == {"none", "up", "lost"}

(* The states notifyStateChange is called with: 0, 1, 3 and 5.             *)
Notification == {"disconnected", "connecting", "connected", "error"}

ViDeskContext == [life : Life, isConnected : BOOLEAN, transport : Transport]

BridgeTypeOK == bridge \in [Context -> ViDeskContext]

BridgeInit ==
    bridge = [c \in Context |->
                [life |-> "unborn", isConnected |-> FALSE, transport |-> "none"]]

(* The identities not used yet, and the one the next allocation gets: which *)
(* one makes no difference.                                                 *)
Unborn(b) == {c \in Context : b[c].life = "unborn"}
NextUnborn(b) == CHOOSE c \in Unborn(b) : TRUE

----------------------------------------------------------------------------
(* viDesk_createContext: calloc, so the flags start FALSE; c is unborn.    *)
Created(b, c) ==
    [b EXCEPT ![c] = [life |-> "live", isConnected |-> FALSE, transport |-> "none"]]

(* viDesk_PostConnect, called by FreeRDP on the thread that is inside       *)
(* freerdp_connect.                                                         *)
PostConnected(b, c) ==
    [b EXCEPT ![c].isConnected = TRUE, ![c].transport = "up"]

(* freerdp_disconnect with the viDesk_PostDisconnect it calls.              *)
FreeRDPDisconnected(b, c) ==
    [b EXCEPT ![c].isConnected = FALSE, ![c].transport = "none"]

(* Mutant: viDesk_disconnect cuts the transport and leaves the flag set.    *)
DisconnectKeepingFlag(b, c) == [b EXCEPT ![c].transport = "none"]

(* viDesk_disconnect: freerdp_disconnect only for a context that is         *)
(* connected; the flag is FALSE afterwards either way.                      *)
Disconnected(b, c) ==
    IF b[c].isConnected THEN FreeRDPDisconnected(b, c)
                        ELSE [b EXCEPT ![c].isConnected = FALSE]

(* The notification viDesk_disconnect causes: PostDisconnect posts 0.       *)
DisconnectPosts(b, c) ==
    IF b[c].isConnected THEN <<"disconnected">> ELSE <<>>

(* viDesk_destroyContext: disconnects what is still connected, then frees.  *)
Destroyed(b, c) ==
    [b EXCEPT ![c] = [life |-> "freed", isConnected |-> FALSE, transport |-> "none"]]

(* What viDesk_processEvents may return.  It is false when isConnected is    *)
(* FALSE, and when FreeRDP reports that the connection has ended; true after *)
(* an ordinary wait.  Reading a context that has been freed may give either. *)
ProcessEventsResults(b, c) ==
    IF b[c].life = "freed" THEN BOOLEAN
    ELSE {b[c].isConnected /\ b[c].transport = "up"}

(* The peer or the network cuts a transport.  Nothing in the bridge runs.   *)
TransportLost(b, c) == [b EXCEPT ![c].transport = "lost"]

=============================================================================
