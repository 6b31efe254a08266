----------------------------- MODULE RDPSession -----------------------------
(****************************************************************************)
(* One remote desktop session of ViDesk: RDPSession.swift, the wrapper      *)
(* FreeRDPContext.swift it owns, the RemoteDesktopView and its view model   *)
(* that drive it, over the C layer of module FreeRDPBridge.                 *)
(*                                                                          *)
(* Three kinds of thread run here:                                          *)
(*   - the main actor, which runs one job at a time from `mainq`, and       *)
(*     handles a tap of the user between two jobs;                          *)
(*   - one background thread per viDesk_connect (a connect call);           *)
(*   - one background thread per event loop (startEventLoop).               *)
(* A job runs to its next suspension point in one step: nothing else can    *)
(* touch the main actor's state before that.  The background threads hold   *)
(* the raw context pointer they were started with.                          *)
(*                                                                          *)
(* A notification of the C layer reaches the session through two tasks, one *)
(* made by the wrapper's C callback ("deliver") and one made by the handler *)
(* the session installed ("handle").                                        *)
(****************************************************************************)
EXTENDS FreeRDPBridge, Naturals

CONSTANTS
    Call,                 \* identities of calls of FreeRDPContext.connect
    NoCall,               \* stands for nil where a call is expected
    AutoReconnect,        \* config.autoReconnect
    MaxReconnectAttempts, \* maxReconnectAttempts, 3 in the source
    OrderedTasks,         \* TRUE: main-actor tasks run in the order they were
                          \* made; FALSE: in any order (the language's promise)
    SettersMayFail,       \* a setServer ... setSecurity call may return false
    FailurePostsToo,      \* outcomes of: freerdp_connect calls PostDisconnect
                          \* when it fails before PostConnect (a set of BOOLEANs)
    MaxRetries            \* bound: how often the user taps "retry"

ASSUME NoCallAssumption == NoCall \notin Call
ASSUME AutoReconnectAssumption == AutoReconnect \in BOOLEAN
ASSUME AttemptsAssumption == MaxReconnectAttempts \in Nat
ASSUME TaskOrderAssumption == OrderedTasks \in BOOLEAN
ASSUME SettersAssumption == SettersMayFail \in BOOLEAN
ASSUME FailureAssumption == FailurePostsToo \subseteq BOOLEAN
ASSUME RetriesAssumption == MaxRetries \in Nat

VARIABLES
    state,          \* RDPSession.state, without its payloads
    context,        \* FreeRDPContext.context: the pointer the main actor uses
    reconnectAttempt,
    call,           \* Call -> a background thread running viDesk_connect
    loop,           \* Call -> the event loop started when that call succeeded
    eventLoopTask,  \* the loop the session can cancel, or NoCall
    statisticsTimer,\* the timer the session can invalidate, or NoCall
    timers,         \* the timers still scheduled on the run loop
    mainq,          \* main-actor jobs that are ready to run, oldest first
    sleepers,       \* reconnect tasks asleep for reconnectDelay
    view,           \* the RemoteDesktopView: shown, leaving, gone
    errorMessage,   \* RemoteDesktopViewModel.errorMessage # nil
    retries         \* taps of "retry" so far (bound)

sessionVars == <<state, reconnectAttempt, eventLoopTask, statisticsTimer, timers>>
viewVars == <<view, errorMessage, retries>>
vars == <<bridge, context, call, loop, mainq, sleepers, sessionVars, viewVars>>

----------------------------------------------------------------------------
(* Types. *)

SessionState ==
    {"disconnected", "connecting", "authenticating", "connected",
     "reconnecting", "error"}

(* Where a connect call is: not made, queued on the global dispatch queue,  *)
(* inside freerdp_connect before PostConnect, inside it between the flag    *)
(* and the notification, and after it, back with its continuation's         *)
(* resumption in mainq, answered.                                           *)
CallPc ==
    {"idle", "dispatched", "handshake", "flagged", "postconnected", "resuming", "answered"}

(* The places of a call whose thread is inside viDesk_connect or about to   *)
(* enter it.                                                                *)
Running == {"dispatched", "handshake", "flagged", "postconnected"}

(* Who awaits a connect call: the view model's connect or reconnect, or the *)
(* task of handleDisconnection, which ignores what performConnect throws.   *)
Caller == {"connect", "retry", "auto"}

ConnectCall == [pc : CallPc, ctx : Context \cup {NoContext}, by : Caller]

(* Where an event loop is: not started, at the top of its while loop,       *)
(* inside viDesk_processEvents, finished.                                   *)
LoopPc == {"none", "top", "inside", "ended"}

EventLoop == [pc : LoopPc, ctx : Context \cup {NoContext}, cancelled : BOOLEAN]

(* The jobs of the main actor: the two tasks of a notification, the         *)
(* resumption of a connect call's continuation, and the tasks that carry    *)
(* nothing.                                                                 *)
Job ==
    [kind : {"deliver", "handle"}, note : Notification, call : {NoCall}, ok : {FALSE}]
    \cup [kind : {"resume"}, note : {"none"}, call : Call, ok : BOOLEAN]
    \cup [kind : {"reconnect", "wake", "appear", "retry"},
          note : {"none"}, call : {NoCall}, ok : {FALSE}]

Plain(k) == [kind |-> k, note |-> "none", call |-> NoCall, ok |-> FALSE]
(* Mutant: the wrapper loses the state it is given.                         *)
DeliverNothing(n) == [kind |-> "deliver", note |-> "none", call |-> NoCall, ok |-> FALSE]

Deliver(n) == [kind |-> "deliver", note |-> n, call |-> NoCall, ok |-> FALSE]
Handle(n) == [kind |-> "handle", note |-> n, call |-> NoCall, ok |-> FALSE]
Resume(k, ok) == [kind |-> "resume", note |-> "none", call |-> k, ok |-> ok]

TypeOK ==
    /\ BridgeTypeOK
    /\ state \in SessionState
    /\ context \in Context \cup {NoContext}
    /\ reconnectAttempt \in Nat
    /\ call \in [Call -> ConnectCall]
    /\ loop \in [Call -> EventLoop]
    /\ eventLoopTask \in Call \cup {NoCall}
    /\ statisticsTimer \in Call \cup {NoCall}
    /\ timers \subseteq Call
    /\ mainq \in Seq(Job)
    /\ sleepers \in Nat
    /\ view \in {"shown", "leaving", "gone"}
    /\ errorMessage \in BOOLEAN
    /\ retries \in 0..MaxRetries

----------------------------------------------------------------------------
(* The view appears and its task to connect is ready to run.               *)
Init ==
    /\ BridgeInit
    /\ state = "disconnected"
    /\ context = NoContext
    /\ reconnectAttempt = 0
    /\ call = [k \in Call |-> [pc |-> "idle", ctx |-> NoContext, by |-> "connect"]]
    /\ loop = [k \in Call |-> [pc |-> "none", ctx |-> NoContext, cancelled |-> FALSE]]
    /\ eventLoopTask = NoCall
    /\ statisticsTimer = NoCall
    /\ timers = {}
    /\ mainq = <<Plain("appear")>>
    /\ sleepers = 0
    /\ view = "shown"
    /\ errorMessage = FALSE
    /\ retries = 0

----------------------------------------------------------------------------
(* The main-actor queue.                                                    *)

(* The positions the executor may take its next job from.                   *)
Ready == IF OrderedTasks THEN {i \in DOMAIN mainq : i = 1} ELSE DOMAIN mainq

(* The queue without its i-th job.                                          *)
Without(i) ==
    [j \in 1..(Len(mainq) - 1) |-> IF j < i THEN mainq[j] ELSE mainq[j + 1]]

(* q with the "deliver" task of every notification posted, in order.        *)
Posted(q, notes) == q \o [i \in DOMAIN notes |-> Deliver(notes[i])]

(* The session object lives while its view does, or while an async call on  *)
(* it is suspended or ready to run.  The tasks that handle notifications    *)
(* hold it weakly.                                                          *)
SessionAlive ==
    \/ view # "gone"
    \/ sleepers > 0
    \/ \E k \in Call : call[k].pc \in Running
    \/ \E i \in DOMAIN mainq :
          mainq[i].kind \in {"resume", "reconnect", "wake", "appear", "retry"}

----------------------------------------------------------------------------
(* Pieces of RDPSession that several jobs share.                            *)

(* Mutant: stopEventLoop forgets the task without cancelling it.            *)
LoopsLeftRunning == loop

(* stopEventLoop: cancels the task the session remembers; does not wait for *)
(* it to finish.                                                            *)
LoopsCancelled ==
    IF eventLoopTask = NoCall THEN loop
    ELSE [loop EXCEPT ![eventLoopTask].cancelled = TRUE]

StopEventLoop == loop' = LoopsCancelled /\ eventLoopTask' = NoCall

(* Mutant: stopStatisticsTimer forgets the timer without invalidating it.   *)
TimersLeftRunning == timers

(* stopStatisticsTimer.                                                     *)
TimersStopped == timers \ {statisticsTimer}

StopStatisticsTimer == timers' = TimersStopped /\ statisticsTimer' = NoCall

(* FreeRDPContext.disconnect and destroy do nothing without a context.      *)
ContextDisconnected == IF context = NoContext THEN bridge ELSE Disconnected(bridge, context)
ContextDisconnectPosts == IF context = NoContext THEN <<>> ELSE DisconnectPosts(bridge, context)

(* RDPSession.disconnect, called with the main queue at q.                  *)
SessionDisconnect(q) ==
    /\ StopEventLoop
    /\ StopStatisticsTimer
    /\ bridge' = ContextDisconnected
    /\ mainq' = Posted(q, ContextDisconnectPosts)
    /\ state' = "disconnected"

(* The calls not made yet, and the one to make next.                        *)
IdleCalls == {k \in Call : call[k].pc = "idle"}
NextCall == CHOOSE k \in IdleCalls : TRUE

(* What a caller of performConnect does with an error it throws; errorMessage *)
(* was e.                                                                      *)
Threw(by, e) == errorMessage' = (by # "auto" \/ e)

(* Mutant: a create() that does not look for the context it already has.    *)
NeverHasContext == FALSE

(* create() keeps a context that is already there.                          *)
HasContext == context # NoContext

(* Mutant: the first guard of performConnect throws without setting state,  *)
(* as its other guards do.                                                  *)
StateKeptOnCreateFailure == "connecting"

(* state when create() returns false.                                       *)
StateOnCreateFailure == "error"

(* performConnect up to its await, from the contexts b and an errorMessage  *)
(* e: create() fails, or a setter returns false, throws and leaves the      *)
(* state at connecting, or a connect call is dispatched.                    *)
PerformConnect(by, b, e) ==
    \/ /\ ~HasContext
       /\ state' = StateOnCreateFailure
       /\ Threw(by, e)
       /\ bridge' = b
       /\ UNCHANGED <<context, call>>
    \/ /\ HasContext \/ Unborn(b) # {}
       /\ LET c == IF HasContext THEN context ELSE NextUnborn(b) IN
             /\ context' = c
             /\ bridge' = IF HasContext THEN b ELSE Created(b, c)
             /\ \/ /\ SettersMayFail
                   /\ state' = "connecting"
                   /\ Threw(by, e)
                   /\ UNCHANGED call
                \/ /\ IdleCalls # {}
                   /\ call' = [call EXCEPT ![NextCall] =
                                    [pc |-> "dispatched", ctx |-> c, by |-> by]]
                   /\ state' = "authenticating"
                   /\ errorMessage' = e

IsActive(s) == s \in {"connected", "reconnecting"}

----------------------------------------------------------------------------
(* The jobs of the main actor.                                              *)

(* The wrapper's task calls the session's handler, which makes a task.      *)
DeliverNotification(i) ==
    /\ mainq[i].kind = "deliver"
    /\ mainq' = Append(Without(i), Handle(mainq[i].note))
    /\ UNCHANGED <<bridge, context, call, loop, sleepers, sessionVars, viewVars>>

(* Mutant: the guard of handleDisconnection without config.autoReconnect.   *)
MayReconnectWhateverConfigured == reconnectAttempt < MaxReconnectAttempts

(* Mutant: the guard of handleDisconnection off by one.                     *)
MayReconnectOnceMore == AutoReconnect /\ reconnectAttempt <= MaxReconnectAttempts

(* The guard of handleDisconnection.                                        *)
MayReconnect == AutoReconnect /\ reconnectAttempt < MaxReconnectAttempts

(* handleDisconnection, with the main queue at q.  The attempt is counted   *)
(* by the task it makes, not here.                                          *)
HandleDisconnection(q) ==
    /\ StopEventLoop
    /\ StopStatisticsTimer
    /\ IF MayReconnect
       THEN mainq' = Append(q, Plain("reconnect")) /\ UNCHANGED state
       ELSE mainq' = q /\ state' = "disconnected"

(* handleConnectionStateChange; nothing when the session is gone.           *)
HandleNotification(i) ==
    /\ mainq[i].kind = "handle"
    /\ IF SessionAlive /\ mainq[i].note = "disconnected"
       THEN HandleDisconnection(Without(i))
       ELSE /\ state' = IF SessionAlive THEN mainq[i].note ELSE state
            /\ mainq' = Without(i)
            /\ UNCHANGED <<loop, eventLoopTask, timers, statisticsTimer>>
    /\ UNCHANGED <<bridge, context, call, sleepers, reconnectAttempt, viewVars>>

(* RemoteDesktopViewModel.connect, with RDPSession.connect inside it.       *)
ViewModelConnect(i) ==
    /\ mainq[i].kind = "appear"
    /\ mainq' = Without(i)
    /\ IF IsActive(state)
       THEN /\ errorMessage' = TRUE
            /\ UNCHANGED <<bridge, context, call, state, reconnectAttempt>>
       ELSE /\ reconnectAttempt' = 0
            /\ PerformConnect("connect", bridge, FALSE)
    /\ UNCHANGED <<loop, eventLoopTask, timers, statisticsTimer, sleepers, view, retries>>

(* RemoteDesktopViewModel.reconnect: session.disconnect(), after which the  *)
(* guard of session.connect holds, and session.connect.                     *)
ViewModelReconnect(i) ==
    /\ mainq[i].kind = "retry"
    /\ StopEventLoop
    /\ StopStatisticsTimer
    /\ mainq' = Posted(Without(i), ContextDisconnectPosts)
    /\ reconnectAttempt' = 0
    /\ PerformConnect("retry", ContextDisconnected, errorMessage)
    /\ UNCHANGED <<sleepers, view, retries>>

(* startEventLoop: a detached task on the context the session has now.      *)
LoopStarted(k) ==
    [loop EXCEPT ![k] = [pc |-> "top", ctx |-> context, cancelled |-> FALSE]]

(* performConnect after its await.  startEventLoop and startStatisticsTimer *)
(* overwrite the task and the timer the session remembers.                  *)
PerformConnectResumed(i) ==
    LET k == mainq[i].call IN
    /\ mainq[i].kind = "resume"
    /\ mainq' = Without(i)
    /\ call' = [call EXCEPT ![k].pc = "answered"]
    /\ IF mainq[i].ok
       THEN /\ loop' = LoopStarted(k)
            /\ eventLoopTask' = k
            /\ timers' = timers \cup {k}
            /\ statisticsTimer' = k
            /\ state' = "connected"
            /\ errorMessage' = (errorMessage /\ call[k].by # "retry")
       ELSE /\ state' = "error"
            /\ Threw(call[k].by, errorMessage)
            /\ UNCHANGED <<loop, eventLoopTask, timers, statisticsTimer>>
    /\ UNCHANGED <<bridge, context, sleepers, reconnectAttempt, view, retries>>

(* Mutant: FreeRDPContext.destroy without `context = nil`.                  *)
PointerKept == context

(* FreeRDPContext.destroy leaves no context behind.                         *)
PointerAfterDestroy == NoContext

(* The task of handleDisconnection up to its sleep.                         *)
ReconnectTask(i) ==
    /\ mainq[i].kind = "reconnect"
    /\ reconnectAttempt' = reconnectAttempt + 1
    /\ state' = "reconnecting"
    /\ bridge' = IF context = NoContext THEN bridge
                 ELSE Destroyed(Disconnected(bridge, context), context)
    /\ context' = PointerAfterDestroy
    /\ mainq' = Posted(Without(i), ContextDisconnectPosts)
    /\ sleepers' = sleepers + 1
    /\ UNCHANGED <<call, loop, eventLoopTask, timers, statisticsTimer, viewVars>>

(* The task of handleDisconnection after its sleep.                         *)
ReconnectTaskWakes(i) ==
    /\ mainq[i].kind = "wake"
    /\ mainq' = Without(i)
    /\ PerformConnect("auto", bridge, errorMessage)
    /\ UNCHANGED <<loop, eventLoopTask, timers, statisticsTimer, sleepers,
                   reconnectAttempt, view, retries>>

MainActor ==
    \E i \in Ready :
        \/ DeliverNotification(i)
        \/ HandleNotification(i)
        \/ ViewModelConnect(i)
        \/ ViewModelReconnect(i)
        \/ PerformConnectResumed(i)
        \/ ReconnectTask(i)
        \/ ReconnectTaskWakes(i)

(* reconnectDelay is over: the task is ready to run again.                  *)
SleepOver ==
    /\ sleepers > 0
    /\ sleepers' = sleepers - 1
    /\ mainq' = Append(mainq, Plain("wake"))
    /\ UNCHANGED <<bridge, context, call, loop, sessionVars, viewVars>>

----------------------------------------------------------------------------
(* The background thread of connect call k, inside viDesk_connect.          *)

(* What the other variables do while a background thread runs.             *)
ConnectThreadFrame == UNCHANGED <<context, loop, sleepers, sessionVars, viewVars>>

(* Entry: post 1, call freerdp_connect.                                     *)
ConnectStarts(k) ==
    /\ call[k].pc = "dispatched"
    /\ call' = [call EXCEPT ![k].pc = "handshake"]
    /\ mainq' = Posted(mainq, <<"connecting">>)
    /\ UNCHANGED bridge
    /\ ConnectThreadFrame

(* FreeRDP calls viDesk_PostConnect, which sets isConnected.                *)
PostConnect(k) ==
    /\ call[k].pc = "handshake"
    /\ call' = [call EXCEPT ![k].pc = "flagged"]
    /\ bridge' = PostConnected(bridge, call[k].ctx)
    /\ UNCHANGED mainq
    /\ ConnectThreadFrame

(* viDesk_PostConnect posts 3; the main thread may have disconnected since. *)
PostConnectNotifies(k) ==
    /\ call[k].pc = "flagged"
    /\ call' = [call EXCEPT ![k].pc = "postconnected"]
    /\ mainq' = Posted(mainq, <<"connected">>)
    /\ UNCHANGED bridge
    /\ ConnectThreadFrame

(* freerdp_connect succeeds; the continuation is resumed.                   *)
ConnectSucceeds(k) ==
    /\ call[k].pc = "postconnected"
    /\ call' = [call EXCEPT ![k].pc = "resuming"]
    /\ mainq' = Append(mainq, Resume(k, TRUE))
    /\ UNCHANGED bridge
    /\ ConnectThreadFrame

(* The tail of viDesk_connect on failure: post 5, resume with false.        *)
FailurePosts(k, notes) ==
    mainq' = Append(Posted(mainq, Append(notes, "error")), Resume(k, FALSE))

(* freerdp_connect fails before PostConnect.                                *)
ConnectFailsEarly(k) ==
    /\ call[k].pc = "handshake"
    /\ call' = [call EXCEPT ![k].pc = "resuming"]
    /\ \E posts \in FailurePostsToo :
          /\ FailurePosts(k, IF posts THEN <<"disconnected">> ELSE <<>>)
          /\ bridge' = IF posts THEN FreeRDPDisconnected(bridge, call[k].ctx) ELSE bridge
    /\ ConnectThreadFrame

(* freerdp_connect fails after PostConnect: it disconnects what is still    *)
(* connected, and PostDisconnect posts 0.                                   *)
ConnectFailsLate(k) ==
    /\ call[k].pc = "postconnected"
    /\ call' = [call EXCEPT ![k].pc = "resuming"]
    /\ FailurePosts(k, DisconnectPosts(bridge, call[k].ctx))
    /\ bridge' = FreeRDPDisconnected(bridge, call[k].ctx)
    /\ ConnectThreadFrame

ConnectThread(k) ==
    \/ ConnectStarts(k)
    \/ PostConnect(k)
    \/ PostConnectNotifies(k)
    \/ ConnectSucceeds(k)
    \/ ConnectFailsEarly(k)
    \/ ConnectFailsLate(k)

----------------------------------------------------------------------------
(* The background thread of the event loop that call k started.             *)

LoopFrame == UNCHANGED <<bridge, context, call, mainq, sleepers, sessionVars, viewVars>>

(* Mutant: the loop does not look at Task.isCancelled.                      *)
LoopStopsOnNilOnly(k) == loop[k].ctx = NoContext

(* `while !Task.isCancelled` and the nil test.                              *)
LoopStops(k) == loop[k].cancelled \/ loop[k].ctx = NoContext

(* The top of the loop, with the entry tests of viDesk_processEvents.       *)
LoopTop(k) ==
    /\ loop[k].pc = "top"
    /\ \E inside \in IF LoopStops(k) THEN {FALSE}
                      ELSE ProcessEventsResults(bridge, loop[k].ctx) :
          loop' = [loop EXCEPT ![k].pc = IF inside THEN "inside" ELSE "ended"]
    /\ LoopFrame

(* viDesk_processEvents returns from its wait; on false the loop breaks and *)
(* tells no one.                                                            *)
ProcessEventsReturns(k) ==
    /\ loop[k].pc = "inside"
    /\ \E success \in ProcessEventsResults(bridge, loop[k].ctx) :
          loop' = [loop EXCEPT ![k].pc = IF success THEN "top" ELSE "ended"]
    /\ LoopFrame

EventLoopThread(k) == LoopTop(k) \/ ProcessEventsReturns(k)

----------------------------------------------------------------------------
(* The user and the network.                                                *)

(* The toolbar's button: disconnect, and the view stays.                    *)
ToolbarDisconnect ==
    /\ view = "shown" /\ ~errorMessage /\ state = "connected"
    /\ SessionDisconnect(mainq)
    /\ UNCHANGED <<context, call, sleepers, reconnectAttempt, viewVars>>

(* Cancel, disconnect and back: disconnect and onDismiss.                   *)
DisconnectAndDismiss ==
    /\ view = "shown"
    /\ SessionDisconnect(mainq)
    /\ view' = "leaving"
    /\ UNCHANGED <<context, call, sleepers, reconnectAttempt, errorMessage, retries>>

(* Mutant: a view that is taken away without disconnecting.                 *)
OnDisappearOnly ==
    /\ view # "gone"
    /\ view' = "gone"
    /\ UNCHANGED <<bridge, context, call, loop, mainq, sleepers, sessionVars, errorMessage, retries>>

(* onDisappear, after a dismissal or because the window went away.          *)
OnDisappear ==
    /\ view # "gone"
    /\ SessionDisconnect(mainq)
    /\ view' = "gone"
    /\ UNCHANGED <<context, call, sleepers, reconnectAttempt, errorMessage, retries>>

(* Mutant: the retry button without clearError.                             *)
TapRetryKeepingError ==
    /\ view = "shown" /\ errorMessage
    /\ retries < MaxRetries
    /\ retries' = retries + 1
    /\ mainq' = Append(mainq, Plain("retry"))
    /\ UNCHANGED <<bridge, context, call, loop, sleepers, sessionVars, view, errorMessage>>

(* The error view's retry button: clearError and a task that reconnects.    *)
TapRetry ==
    /\ view = "shown" /\ errorMessage
    /\ retries < MaxRetries
    /\ retries' = retries + 1
    /\ errorMessage' = FALSE
    /\ mainq' = Append(mainq, Plain("retry"))
    /\ UNCHANGED <<bridge, context, call, loop, sleepers, sessionVars, view>>

(* The connection is lost.                                                  *)
ConnectionLost(c) ==
    /\ bridge[c].transport = "up"
    /\ bridge' = TransportLost(bridge, c)
    /\ UNCHANGED <<context, call, loop, mainq, sleepers, sessionVars, viewVars>>

Environment ==
    \/ ToolbarDisconnect
    \/ DisconnectAndDismiss
    \/ OnDisappear
    \/ TapRetry
    \/ \E c \in Context : ConnectionLost(c)

----------------------------------------------------------------------------
Next ==
    \/ MainActor
    \/ SleepOver
    \/ \E k \in Call : ConnectThread(k) \/ EventLoopThread(k)
    \/ Environment

Spec == Init /\ [][Next]_vars

(* The main actor's executor runs what is ready, a sleep ends, the          *)
(* dispatch queue runs what it is given, freerdp_connect returns (it has a  *)
(* TcpConnectTimeout of 30 s) and so does viDesk_processEvents (its wait    *)
(* has a timeout of 16 ms).  Nothing is assumed of the user or the network. *)
Fairness ==
    /\ WF_vars(MainActor)
    /\ WF_vars(SleepOver)
    /\ \A k \in Call : WF_vars(ConnectThread(k)) /\ WF_vars(EventLoopThread(k))

FairSpec == Spec /\ Fairness

----------------------------------------------------------------------------
(* What has to hold.                                                        *)

(* The threads that hold context c in a C call or are about to enter one.   *)
ConnectsOn(c) == {k \in Call : call[k].ctx = c /\ call[k].pc \in Running}
LoopsOn(c) == {k \in Call : loop[k].ctx = c /\ loop[k].pc \in {"top", "inside"}}

(* The wrapper owns the only live context, and its pointer never dangles:   *)
(* every C call the main actor makes (input, clipboard, frame, disconnect)  *)
(* reaches live memory, and no reconnect leaks a context.                   *)
ContextOwned == \A c \in Context : bridge[c].life = "live" <=> context = c

(* The wrapper handles its native contexts as the owner of a resource does. *)
Lifetime == INSTANCE ContextLifetime WITH
    Resource <- Context, None <- NoContext,
    owned <- context,
    destroyed <- {c \in Context : bridge[c].life = "freed"}

LifetimeSpec == Lifetime!Spec

(* No background thread is inside, or about to enter, a C call on a context *)
(* that has been freed.                                                     *)
NoUseAfterDestroy ==
    \A c \in Context : ConnectsOn(c) \cup LoopsOn(c) # {} => bridge[c].life = "live"

(* The loop and the timer that somebody can still stop.  eventLoopTask and  *)
(* statisticsTimer die with the session, and the task its deinit makes      *)
(* finds no session any more: the detached loop and the scheduled timer of  *)
(* a session that is gone run on and belong to no one.                      *)
OwnedLoop == IF SessionAlive THEN eventLoopTask ELSE NoCall
OwnedTimer == IF SessionAlive THEN statisticsTimer ELSE NoCall

RunsOn(k) == loop[k].pc \in {"top", "inside"} /\ ~loop[k].cancelled

(* While the session lives, it can stop every event loop that runs on.      *)
LoopsStoppable == SessionAlive => \A k \in Call : RunsOn(k) => OwnedLoop = k

(* While the session lives, at most one statistics timer is scheduled: the  *)
(* one the session can stop.                                                *)
TimersStoppable == SessionAlive => timers \subseteq {OwnedTimer}

(* What the connection of call k left running that no one can stop.         *)
Orphaned(k) == (RunsOn(k) /\ OwnedLoop # k) \/ (k \in timers /\ OwnedTimer # k)

(* A loop or a timer that is within reach stays within reach until it is    *)
(* stopped: no disconnect, retry, notification or second connection loses   *)
(* it, and neither does the end of the session.  One that is out of reach   *)
(* was so from its start, for the connection of a view that had gone.       *)
OrphansComeLate ==
    [][\A k \in Call : Orphaned(k)' =>
           Orphaned(k) \/ (view = "gone" /\ ~RunsOn(k) /\ k \notin timers)]_vars

(* freerdp_connect is not entered twice on one instance.                    *)
OneConnectPerContext ==
    \A c \in Context : \A j, k \in ConnectsOn(c) : j = k

(* reconnectAttempt, which the user sees, stays within the maximum.         *)
AttemptsBounded == reconnectAttempt <= MaxReconnectAttempts

(* A tap of retry can start a second chain of reconnections beside the      *)
(* first, which counts on what connect() has just reset to 0; each tap      *)
(* brings at most one attempt above the maximum.                            *)
AttemptsWithinRetries == reconnectAttempt <= MaxReconnectAttempts + retries

(* Until the user taps retry, freerdp_connect is not entered twice on one   *)
(* instance, although automatic reconnections follow one another while an   *)
(* earlier connect call may still be running.                               *)
OneConnectUntilRetry == retries = 0 => OneConnectPerContext

(* Nothing is under way: no job, no sleeping task, no connect call.         *)
Quiescent ==
    /\ mainq = <<>>
    /\ sleepers = 0
    /\ \A k \in Call : call[k].pc \in {"idle", "answered"}

(* When nothing is under way, a connection that is up is one the user sees: *)
(* the session never shows disconnected, error or a spinner over it.        *)
NoHiddenConnection ==
    \A c \in Context :
        Quiescent /\ bridge[c].isConnected => state = "connected" /\ context = c

(* When nothing is under way, the user is not looking at a spinner.         *)
NoSpinnerAtRest ==
    Quiescent => state \notin {"connecting", "authenticating", "reconnecting"}

(* The session does not stay on a spinner: whoever connects or reconnects   *)
(* is connected, refused or disconnected in the end.                        *)
SpinnerEnds ==
    state \in {"connecting", "authenticating", "reconnecting"}
        ~> state \notin {"connecting", "authenticating", "reconnecting"}

(* A loop that has been cancelled stops using its context.                  *)
CancelledLoopsEnd ==
    \A k \in Call : loop[k].cancelled ~> loop[k].pc = "ended"

(* README, state machine: a session is reconnecting after it was connected; *)
(* disconnect() ends at disconnected.                                       *)
NoReconnectFromDisconnected ==
    [][state = "disconnected" => state' # "reconnecting"]_vars

(* README, state machine: a lost connection takes the session out of        *)
(* connected.                                                               *)
LossNoticed ==
    \A c \in Context :
        (view = "shown" /\ state = "connected" /\ context = c /\ bridge[c].transport = "lost")
            ~> (view # "shown" \/ state # "connected")

(* The session manages the connection's whole life: when the view is gone   *)
(* and nothing is under way, no connection is left behind.                  *)
NothingSurvivesTheView ==
    view = "gone" /\ Quiescent => \A c \in Context : ~bridge[c].isConnected

=============================================================================
