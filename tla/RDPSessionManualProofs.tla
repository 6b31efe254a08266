----------------------- MODULE RDPSessionManualProofs -----------------------
(****************************************************************************)
(* What holds of RDPSession when config.autoReconnect is off, for tasks in  *)
(* any order: at every moment at most one thing can lead to a connection.   *)
(* It is a job that is ready (the view appears, a retry, the resumption of  *)
(* a connect call), a call inside viDesk_connect, or the error the user may *)
(* answer with a retry; each one makes the next and ends.                   *)
(****************************************************************************)
EXTENDS RDPSessionProofs

USE NoCallAssumption

(* The jobs of a queue that are not tasks of a notification: at most one,   *)
(* and of one of these kinds.                                               *)
Starters(q) == {j \in DOMAIN q : q[j].kind \notin {"deliver", "handle"}}

Sole(q, kinds) ==
    /\ \A i, j \in Starters(q) : i = j
    /\ \A j \in Starters(q) : q[j].kind \in kinds

Connecting == {k \in Call : call[k].pc \in Running}

NothingToStop == eventLoopTask = NoCall /\ statisticsTimer = NoCall

(* Who holds the right to connect: no one or an error; the tap of the user; *)
(* the view or an answer of the C layer; the C layer.                       *)
Resting == Sole(mainq, {}) /\ Connecting = {}
Asking == Sole(mainq, {"retry"}) /\ Connecting = {} /\ ~errorMessage
Starting ==
    Sole(mainq, {"appear", "resume"}) /\ Connecting = {} /\ ~errorMessage /\ NothingToStop
InCall ==
    /\ Sole(mainq, {})
    /\ \E k \in Call : Connecting = {k}
    /\ ~errorMessage /\ NothingToStop

OneStart == sleepers = 0 /\ (Resting \/ Asking \/ Starting \/ InCall)

(* What the fields of the session hold, whether it lives or not.            *)
LoopsRemembered == \A k \in Call : RunsOn(k) => eventLoopTask = k
TimersRemembered == timers \subseteq {statisticsTimer}

ManualInv == OneStart /\ LoopsRemembered /\ TimersRemembered

(* A view that goes stops what runs.  Only an answer can start something    *)
(* after that, and no one is left to connect again then.                    *)
GoneStopped == view = "gone" => NothingToStop \/ Resting

----------------------------------------------------------------------------
(* The queue.                                                               *)

LEMMA SoleTaken ==
    ASSUME mainq \in Seq(Job), NEW kinds, Sole(mainq, kinds), NEW i \in Ready
    PROVE  /\ Sole(Without(i), kinds)
           /\ i \in Starters(mainq) => Sole(Without(i), {}) /\ mainq[i].kind \in kinds
<1> DEFINE q == Without(i)
           from(j) == IF j < i THEN j ELSE j + 1
<1>1. i \in 1..Len(mainq) /\ Len(mainq) \in Nat /\ DOMAIN mainq = 1..Len(mainq)
  BY DEF Ready
<1>2. DOMAIN q = 1..(Len(mainq) - 1)
  BY DEF Without
<1>3. \A j \in DOMAIN q : from(j) \in DOMAIN mainq \ {i} /\ q[j] = mainq[from(j)]
  BY <1>1, <1>2 DEF Without
<1>4. \A j, h \in DOMAIN q : from(j) = from(h) => j = h
  BY <1>1, <1>2
<1> HIDE DEF q, from
<1>5. \A j \in Starters(q) : from(j) \in Starters(mainq) \ {i}
  BY <1>3 DEF Starters
<1>6. Sole(q, kinds)
  BY <1>3, <1>4, <1>5 DEF Sole, Starters
<1>7. i \in Starters(mainq) => Starters(q) = {}
  BY <1>5 DEF Sole
<1> QED
  BY <1>6, <1>7 DEF Sole, q

LEMMA SoleAppended ==
    ASSUME NEW q \in Seq(Job), NEW kinds, NEW x \in Job,
           \/ Sole(q, kinds) /\ x.kind \in {"deliver", "handle"}
           \/ Sole(q, {}) /\ x.kind \in kinds
    PROVE  Sole(Append(q, x), kinds)
<1>1. /\ Len(q) \in Nat /\ DOMAIN q = 1..Len(q)
      /\ DOMAIN Append(q, x) = 1..(Len(q) + 1)
      /\ \A j \in 1..Len(q) : Append(q, x)[j] = q[j]
      /\ Append(q, x)[Len(q) + 1] = x
  OBVIOUS
<1>2. Starters(Append(q, x)) \subseteq Starters(q) \cup {Len(q) + 1}
  BY <1>1 DEF Starters
<1>3. CASE Sole(q, kinds) /\ x.kind \in {"deliver", "handle"}
  <2>1. Starters(Append(q, x)) \subseteq Starters(q)
    BY <1>1, <1>2, <1>3 DEF Starters
  <2> QED
    BY <1>1, <1>3, <2>1 DEF Sole, Starters
<1>4. CASE Sole(q, {}) /\ x.kind \in kinds
  <2>1. Starters(q) = {}
    BY <1>4 DEF Sole
  <2> QED
    BY <1>1, <1>2, <1>4, <2>1 DEF Sole
<1> QED
  BY <1>3, <1>4

LEMMA SolePosted ==
    ASSUME NEW q \in Seq(Job), NEW kinds, Sole(q, kinds), NEW notes \in Seq(Notification)
    PROVE  Sole(Posted(q, notes), kinds)
<1> DEFINE tasks == [i \in DOMAIN notes |-> Deliver(notes[i])]
<1>1. Len(notes) \in Nat /\ DOMAIN notes = 1..Len(notes)
  OBVIOUS
<1>2. \A n \in Notification : Deliver(n) \in Job /\ Deliver(n).kind = "deliver"
  BY DEF Deliver, Job
<1>3. tasks \in [1..Len(notes) -> Job] /\ \A i \in DOMAIN tasks : tasks[i].kind = "deliver"
  BY <1>1, <1>2
<1>4. tasks \in Seq(Job)
  BY <1>1, <1>3
<1> HIDE DEF tasks
<1>5. /\ DOMAIN q = 1..Len(q) /\ Len(q) \in Nat
      /\ DOMAIN (q \o tasks) = 1..(Len(q) + Len(tasks)) /\ Len(tasks) \in Nat
      /\ \A j \in 1..Len(q) : (q \o tasks)[j] = q[j]
      /\ \A j \in (Len(q) + 1)..(Len(q) + Len(tasks)) : (q \o tasks)[j] = tasks[j - Len(q)]
  BY <1>4
<1>6. \A j \in (Len(q) + 1)..(Len(q) + Len(tasks)) : (q \o tasks)[j].kind = "deliver"
  <2>1. DOMAIN tasks = 1..Len(tasks)
    BY <1>4
  <2> QED
    BY <1>3, <1>5, <2>1
<1>7. Starters(q \o tasks) \subseteq Starters(q)
  BY <1>5, <1>6 DEF Starters
<1>8. Sole(q \o tasks, kinds)
  BY <1>5, <1>7 DEF Sole, Starters
<1> QED
  BY <1>8 DEF Posted, tasks

----------------------------------------------------------------------------
(* What several steps share.                                                *)

Kinds == {{}, {"retry"}, {"appear", "resume"}}

(* A step that adds no starter and leaves the calls and the error alone.    *)
LEMMA OneStartKept ==
    ASSUME OneStart, UNCHANGED <<call, errorMessage, sleepers>>,
           NothingToStop => NothingToStop',
           \A kinds \in Kinds : Sole(mainq, kinds) => Sole(mainq', kinds)
    PROVE  OneStart' /\ (Resting => Resting')
<1>1. /\ Sole(mainq, {}) => Sole(mainq', {})
      /\ Sole(mainq, {"retry"}) => Sole(mainq', {"retry"})
      /\ Sole(mainq, {"appear", "resume"}) => Sole(mainq', {"appear", "resume"})
  BY DEF Kinds
<1>2. Connecting' = Connecting
  BY DEF Connecting
<1> QED
  BY <1>1, <1>2 DEF OneStart, Resting, Asking, Starting, InCall

(* Stopping the loop and the timer leaves nothing to stop.                  *)
LEMMA StopKeepsRemembered ==
    ASSUME TypeOK, LoopsRemembered, TimersRemembered, StopEventLoop, StopStatisticsTimer
    PROVE  LoopsRemembered' /\ TimersRemembered' /\ NothingToStop'
<1>1. NothingToStop' /\ timers' = {}
  BY DEF StopEventLoop, StopStatisticsTimer, TimersStopped, TimersRemembered, NothingToStop
<1>2. ASSUME NEW k \in Call, loop'[k].pc \in {"top", "inside"} PROVE loop'[k].cancelled
  <2>1. CASE eventLoopTask = NoCall
    BY <1>2, <2>1 DEF TypeOK, StopEventLoop, LoopsCancelled, LoopsRemembered, RunsOn
  <2>2. CASE eventLoopTask # NoCall
    <3>1. eventLoopTask \in Call /\ loop' = [loop EXCEPT ![eventLoopTask].cancelled = TRUE]
      BY <2>2 DEF TypeOK, StopEventLoop, LoopsCancelled
    <3>2. loop'[k].pc = loop[k].pc /\ (k = eventLoopTask \/ loop'[k] = loop[k])
          /\ loop'[eventLoopTask].cancelled
      BY <3>1 DEF TypeOK, EventLoop
    <3> QED
      BY <1>2, <3>2 DEF LoopsRemembered, RunsOn
  <2> QED
    BY <2>1, <2>2
<1> QED
  BY <1>1, <1>2 DEF LoopsRemembered, RunsOn, TimersRemembered

LEMMA RememberedKept ==
    ASSUME LoopsRemembered, TimersRemembered,
           UNCHANGED <<loop, eventLoopTask, timers, statisticsTimer>>
    PROVE  LoopsRemembered' /\ TimersRemembered' /\ (NothingToStop => NothingToStop')
BY DEF LoopsRemembered, RunsOn, TimersRemembered, NothingToStop

(* performConnect with no other start about makes an error or a call.       *)
LEMMA PerformConnectStarts ==
    ASSUME TypeOK, Connecting = {}, Sole(mainq, {})', NothingToStop', sleepers' = 0,
           NEW by \in {"connect", "retry"}, NEW b, NEW e, e = FALSE, PerformConnect(by, b, e)
    PROVE  OneStart'
<1>1. CASE UNCHANGED call
  <2>1. Connecting' = {}
    BY <1>1 DEF Connecting
  <2> QED
    BY <2>1 DEF OneStart, Resting
<1>2. CASE \E c : /\ IdleCalls # {}
                  /\ call' = [call EXCEPT ![NextCall] = [pc |-> "dispatched", ctx |-> c, by |-> by]]
                  /\ errorMessage' = e
  <2>1. NextCall \in Call
    BY <1>2, NextCallType
  <2>2. Connecting' = {NextCall}
    BY <1>2, <2>1 DEF Connecting, Running, TypeOK
  <2> QED
    BY <1>2, <2>1, <2>2 DEF OneStart, InCall
<1> QED
  BY <1>1, <1>2 DEF PerformConnect

----------------------------------------------------------------------------
(* The jobs of the main actor.                                              *)

LEMMA ManualMainActor ==
    ASSUME ~AutoReconnect, IInv, ManualInv, MainActor
    PROVE  ManualInv'
<1>1. PICK i \in Ready :
          \/ DeliverNotification(i)
          \/ HandleNotification(i)
          \/ ViewModelConnect(i)
          \/ ViewModelReconnect(i)
          \/ PerformConnectResumed(i)
          \/ ReconnectTask(i)
          \/ ReconnectTaskWakes(i)
  BY DEF MainActor
<1>2. TypeOK /\ mainq \in Seq(Job) /\ OneStart /\ LoopsRemembered /\ TimersRemembered
  BY DEF IInv, TypeOK, ManualInv
<1>3. i \in DOMAIN mainq /\ mainq[i] \in Job /\ Without(i) \in Seq(Job)
  BY <1>2, WithoutType
<1>4. \A kinds \in Kinds : Sole(mainq, kinds) =>
          /\ Sole(Without(i), kinds)
          /\ i \in Starters(mainq) => Sole(Without(i), {}) /\ mainq[i].kind \in kinds
  BY <1>2, SoleTaken
<1>5. i \in Starters(mainq) =>
          /\ Sole(Without(i), {}) /\ Connecting = {} /\ ~errorMessage /\ sleepers = 0
          /\ mainq[i].kind = "retry" \/ (mainq[i].kind \in {"appear", "resume"} /\ NothingToStop)
  BY <1>2, <1>4 DEF OneStart, Resting, Asking, Starting, InCall, Kinds
<1>6. CASE DeliverNotification(i)
  <2>1. mainq[i].note \in Notification
    BY <1>3, <1>6 DEF DeliverNotification, Job
  <2>2. Handle(mainq[i].note) \in Job /\ Handle(mainq[i].note).kind = "handle"
    BY <2>1 DEF Handle, Job
  <2>3. mainq' = Append(Without(i), Handle(mainq[i].note))
    BY <1>6 DEF DeliverNotification
  <2>4. ASSUME NEW kinds \in Kinds, Sole(mainq, kinds) PROVE Sole(mainq', kinds)
    BY <1>3, <1>4, <2>2, <2>3, <2>4, SoleAppended
  <2>5. UNCHANGED <<call, errorMessage, sleepers, loop, eventLoopTask, timers, statisticsTimer>>
    BY <1>6 DEF DeliverNotification, sessionVars, viewVars
  <2> QED
    BY <1>2, <2>4, <2>5, OneStartKept, RememberedKept DEF ManualInv
<1>7. CASE HandleNotification(i)
  <2>1. mainq' = Without(i)
    BY <1>7 DEF HandleNotification, HandleDisconnection, MayReconnect
  <2>2. UNCHANGED <<call, errorMessage, sleepers>>
    BY <1>7 DEF HandleNotification, viewVars
  <2>3. \/ StopEventLoop /\ StopStatisticsTimer
        \/ UNCHANGED <<loop, eventLoopTask, timers, statisticsTimer>>
    BY <1>7 DEF HandleNotification, HandleDisconnection
  <2>4. LoopsRemembered' /\ TimersRemembered' /\ (NothingToStop => NothingToStop')
    BY <1>2, <2>3, StopKeepsRemembered, RememberedKept
  <2> QED
    BY <1>2, <1>4, <2>1, <2>2, <2>4, OneStartKept DEF ManualInv
<1>8. CASE ViewModelConnect(i)
  <2>1. i \in Starters(mainq) /\ mainq[i].kind = "appear"
    BY <1>3, <1>8 DEF ViewModelConnect, Starters
  <2>2. NothingToStop /\ Connecting = {} /\ sleepers = 0 /\ Sole(Without(i), {})
    BY <1>5, <2>1
  <2>3. mainq' = Without(i) /\ UNCHANGED <<loop, eventLoopTask, timers, statisticsTimer, sleepers>>
    BY <1>8 DEF ViewModelConnect
  <2>4. LoopsRemembered' /\ TimersRemembered' /\ NothingToStop'
    BY <1>2, <2>2, <2>3, RememberedKept
  <2>5. CASE IsActive(state)
    <3>1. Connecting' = {}
      BY <1>8, <2>2, <2>5 DEF ViewModelConnect, Connecting
    <3> QED
      BY <2>2, <2>3, <2>4, <3>1 DEF ManualInv, OneStart, Resting
  <2>6. CASE ~IsActive(state)
    <3>1. PerformConnect("connect", bridge, FALSE)
      BY <1>8, <2>6 DEF ViewModelConnect
    <3> QED
      BY <1>2, <2>2, <2>3, <2>4, <3>1, PerformConnectStarts DEF ManualInv
  <2> QED
    BY <2>5, <2>6
<1>9. CASE ViewModelReconnect(i)
  <2>1. i \in Starters(mainq)
    BY <1>3, <1>9 DEF ViewModelReconnect, Starters
  <2>2. Connecting = {} /\ sleepers = 0 /\ Sole(Without(i), {}) /\ errorMessage = FALSE
    BY <1>2, <1>5, <2>1 DEF TypeOK
  <2>3. Sole(mainq', {})
    <3>1. ContextDisconnectPosts \in Seq(Notification)
      BY <1>2, ContextDisconnectType
    <3>2. Sole(Posted(Without(i), ContextDisconnectPosts), {})
      BY <1>3, <2>2, <3>1, SolePosted
    <3> QED
      BY <1>9, <3>2 DEF ViewModelReconnect
  <2>4. LoopsRemembered' /\ TimersRemembered' /\ NothingToStop'
    BY <1>2, <1>9, StopKeepsRemembered DEF ViewModelReconnect
  <2>5. PerformConnect("retry", ContextDisconnected, errorMessage) /\ sleepers' = 0
    BY <1>9, <2>2 DEF ViewModelReconnect
  <2> QED
    BY <1>2, <2>2, <2>3, <2>4, <2>5, PerformConnectStarts DEF ManualInv
<1>10. CASE PerformConnectResumed(i)
  <2>1. i \in Starters(mainq) /\ mainq[i].kind = "resume" /\ mainq[i].call \in Call
    BY <1>3, <1>10 DEF PerformConnectResumed, Starters, Job
  <2>2. NothingToStop /\ Connecting = {} /\ sleepers = 0 /\ Sole(Without(i), {})
    BY <1>5, <2>1
  <2> DEFINE k == mainq[i].call
  <2>3. /\ mainq' = Without(i) /\ sleepers' = sleepers
        /\ call' = [call EXCEPT ![k].pc = "answered"]
    BY <1>10 DEF PerformConnectResumed
  <2>4. Connecting' = {}
    BY <1>2, <2>1, <2>2, <2>3 DEF Connecting, Running, TypeOK, ConnectCall
  <2>5. OneStart'
    BY <2>2, <2>3, <2>4 DEF OneStart, Resting
  <2>6. LoopsRemembered' /\ TimersRemembered'
    <3>1. timers = {} /\ \A j \in Call : loop[j].pc \in {"top", "inside"} => loop[j].cancelled
      BY <1>2, <2>2 DEF NothingToStop, LoopsRemembered, RunsOn, TimersRemembered, TypeOK
    <3>2. CASE mainq[i].ok
      <4>1. loop' = LoopStarted(k) /\ eventLoopTask' = k /\ timers' = {k} /\ statisticsTimer' = k
        BY <1>10, <3>1, <3>2 DEF PerformConnectResumed
      <4>2. \A j \in Call : j # k => loop'[j] = loop[j]
        BY <1>2, <2>1, <4>1 DEF LoopStarted, TypeOK
      <4> QED
        BY <3>1, <4>1, <4>2 DEF LoopsRemembered, RunsOn, TimersRemembered
    <3>3. CASE ~mainq[i].ok
      BY <1>2, <1>10, <3>3, RememberedKept DEF PerformConnectResumed
    <3> QED
      BY <3>2, <3>3
  <2> QED
    BY <2>5, <2>6 DEF ManualInv
<1>11. CASE ReconnectTask(i) \/ ReconnectTaskWakes(i)
  <2>1. i \in Starters(mainq) /\ mainq[i].kind \in {"reconnect", "wake"}
    BY <1>3, <1>11 DEF ReconnectTask, ReconnectTaskWakes, Starters
  <2> QED
    BY <1>5, <2>1
<1> QED
  BY <1>1, <1>6, <1>7, <1>8, <1>9, <1>10, <1>11

----------------------------------------------------------------------------
(* The background threads.                                                  *)

LEMMA ManualConnectThread ==
    ASSUME IInv, ManualInv, NEW k \in Call, ConnectThread(k)
    PROVE  ManualInv'
<1>1. TypeOK /\ mainq \in Seq(Job) /\ OneStart /\ LoopsRemembered /\ TimersRemembered
  BY DEF IInv, TypeOK, ManualInv
<1>2. k \in Connecting
  BY DEF ConnectThread, ConnectStarts, PostConnect, PostConnectNotifies, ConnectSucceeds, ConnectFailsEarly,
     ConnectFailsLate, Connecting, Running
<1>3. Sole(mainq, {}) /\ Connecting = {k} /\ ~errorMessage /\ NothingToStop /\ sleepers = 0
  BY <1>1, <1>2 DEF OneStart, Resting, Asking, Starting, InCall
<1>4. UNCHANGED <<errorMessage, sleepers, loop, eventLoopTask, timers, statisticsTimer>>
  BY DEF ConnectThread, ConnectStarts, PostConnect, PostConnectNotifies, ConnectSucceeds, ConnectFailsEarly,
     ConnectFailsLate, ConnectThreadFrame, sessionVars, viewVars
<1>5. LoopsRemembered' /\ TimersRemembered' /\ NothingToStop'
  BY <1>1, <1>3, <1>4, RememberedKept
<1>6. CASE ConnectStarts(k) \/ PostConnect(k) \/ PostConnectNotifies(k)
  <2>1. PICK notes \in {<<>>} \cup {<<n>> : n \in Notification} : mainq' = Posted(mainq, notes)
    <3>1. Posted(mainq, <<>>) = mainq
      BY <1>1, PostedIsAppended
    <3> QED
      BY <1>6, <3>1 DEF ConnectStarts, PostConnect, PostConnectNotifies, Notification
  <2>2. notes \in Seq(Notification)
    <3>1. <<>> \in Seq(Notification) /\ \A n \in Notification : <<n>> \in Seq(Notification)
      OBVIOUS
    <3> QED
      BY <2>1, <3>1
  <2>3. Sole(mainq', {})
    BY <1>1, <1>3, <2>1, <2>2, SolePosted
  <2>4. PICK pc \in Running : call' = [call EXCEPT ![k].pc = pc]
    BY <1>6 DEF ConnectStarts, PostConnect, PostConnectNotifies, Running
  <2>5. Connecting' = {k}
    BY <1>1, <1>3, <2>4 DEF Connecting, TypeOK, ConnectCall
  <2> QED
    BY <1>3, <1>4, <1>5, <2>3, <2>5 DEF ManualInv, OneStart, InCall
<1>7. CASE ConnectSucceeds(k) \/ ConnectFailsEarly(k) \/ ConnectFailsLate(k)
  <2>1. call' = [call EXCEPT ![k].pc = "resuming"]
    BY <1>7 DEF ConnectSucceeds, ConnectFailsEarly, ConnectFailsLate
  <2>2. Connecting' = {}
    BY <1>1, <1>3, <2>1 DEF Connecting, Running, TypeOK, ConnectCall
  <2>3. \A ok \in BOOLEAN : Resume(k, ok) \in Job /\ Resume(k, ok).kind \in {"appear", "resume"}
    BY DEF Resume, Job
  <2>4. Sole(mainq', {"appear", "resume"})
    <3>1. CASE ConnectSucceeds(k)
      BY <1>1, <1>3, <2>3, <3>1, SoleAppended DEF ConnectSucceeds
    <3>2. CASE ConnectFailsEarly(k) \/ ConnectFailsLate(k)
      <4>1. PICK notes \in {<<>>, <<"disconnected">>} : FailurePosts(k, notes)
        BY <3>2 DEF ConnectFailsEarly, ConnectFailsLate, DisconnectPosts
      <4>2. Append(notes, "error") \in Seq(Notification)
        <5>1. /\ <<>> \in Seq(Notification) /\ <<"disconnected">> \in Seq(Notification)
              /\ "error" \in Notification
          BY DEF Notification
        <5>2. notes \in Seq(Notification)
          BY <4>1, <5>1
        <5> QED
          BY <5>1, <5>2, AppendType
      <4> DEFINE q == Posted(mainq, Append(notes, "error"))
      <4>3. q \in Seq(Job) /\ Sole(q, {})
        BY <1>1, <1>3, <4>2, PostedType, SolePosted
      <4>4. mainq' = Append(q, Resume(k, FALSE))
        BY <4>1 DEF FailurePosts
      <4> HIDE DEF q
      <4> QED
        BY <2>3, <4>3, <4>4, SoleAppended
    <3> QED
      BY <1>7, <3>1, <3>2
  <2> QED
    BY <1>3, <1>4, <1>5, <2>2, <2>4 DEF ManualInv, OneStart, Starting
<1> QED
  BY <1>6, <1>7 DEF ConnectThread

LEMMA ManualEventLoop ==
    ASSUME IInv, ManualInv, NEW k \in Call, EventLoopThread(k)
    PROVE  ManualInv'
<1>1. UNCHANGED <<call, mainq, sleepers, errorMessage, eventLoopTask, timers, statisticsTimer>>
  BY DEF EventLoopThread, LoopTop, ProcessEventsReturns, LoopFrame, sessionVars, viewVars
<1>2. /\ loop[k].pc \in {"top", "inside"}
      /\ \E pc \in {"top", "inside", "ended"} : loop' = [loop EXCEPT ![k].pc = pc]
  BY DEF EventLoopThread, LoopTop, ProcessEventsReturns
<1>3. LoopsRemembered'
  BY <1>1, <1>2 DEF ManualInv, LoopsRemembered, RunsOn, IInv, TypeOK, EventLoop
<1>4. OneStart'
  BY <1>1, OneStartKept DEF ManualInv, NothingToStop
<1> QED
  BY <1>1, <1>3, <1>4 DEF ManualInv, TimersRemembered

LEMMA ManualEnvironment ==
    ASSUME IInv, ManualInv, Environment
    PROVE  ManualInv'
<1>1. TypeOK /\ mainq \in Seq(Job) /\ OneStart /\ LoopsRemembered /\ TimersRemembered
  BY DEF IInv, TypeOK, ManualInv
<1>2. CASE ToolbarDisconnect \/ DisconnectAndDismiss \/ OnDisappear
  <2>1. /\ mainq' = Posted(mainq, ContextDisconnectPosts)
        /\ StopEventLoop /\ StopStatisticsTimer
        /\ UNCHANGED <<call, errorMessage, sleepers>>
    BY <1>2 DEF ToolbarDisconnect, DisconnectAndDismiss, OnDisappear, SessionDisconnect, viewVars
  <2>2. ContextDisconnectPosts \in Seq(Notification)
    BY <1>1, ContextDisconnectType
  <2>3. \A kinds \in Kinds : Sole(mainq, kinds) => Sole(mainq', kinds)
    BY <1>1, <2>1, <2>2, SolePosted
  <2> QED
    BY <1>1, <2>1, <2>3, StopKeepsRemembered, OneStartKept DEF ManualInv
<1>3. CASE TapRetry
  <2>1. /\ errorMessage /\ ~errorMessage' /\ mainq' = Append(mainq, Plain("retry"))
        /\ UNCHANGED <<call, sleepers, loop, eventLoopTask, timers, statisticsTimer>>
    BY <1>3 DEF TapRetry, sessionVars
  <2>2. Resting /\ sleepers = 0
    BY <1>1, <2>1 DEF OneStart, Asking, Starting, InCall
  <2>3. Plain("retry") \in Job /\ Plain("retry").kind \in {"retry"}
    BY DEF Plain, Job
  <2>4. Sole(mainq', {"retry"})
    BY <1>1, <2>1, <2>2, <2>3, SoleAppended DEF Resting
  <2>5. Connecting' = {}
    BY <2>1, <2>2 DEF Resting, Connecting
  <2> QED
    BY <1>1, <2>1, <2>2, <2>4, <2>5, RememberedKept DEF ManualInv, OneStart, Asking
<1>4. CASE \E c \in Context : ConnectionLost(c)
  <2>1. UNCHANGED <<call, mainq, sleepers, errorMessage, loop, eventLoopTask, timers, statisticsTimer>>
    BY <1>4 DEF ConnectionLost, sessionVars, viewVars
  <2> QED
    BY <1>1, <2>1, RememberedKept, OneStartKept DEF ManualInv
<1> QED
  BY <1>2, <1>3, <1>4 DEF Environment

LEMMA ManualStep ==
    ASSUME ~AutoReconnect, IInv, ManualInv, [Next]_vars
    PROVE  ManualInv'
<1>1. CASE SleepOver
  BY <1>1 DEF SleepOver, ManualInv, OneStart
<1>2. CASE UNCHANGED vars
  <2>1. UNCHANGED <<call, mainq, sleepers, errorMessage, loop, eventLoopTask, timers, statisticsTimer>>
    BY <1>2 DEF vars, sessionVars, viewVars
  <2> QED
    BY <2>1, RememberedKept, OneStartKept DEF ManualInv
<1> QED
  BY <1>1, <1>2, ManualMainActor, ManualConnectThread, ManualEventLoop, ManualEnvironment DEF Next

LEMMA ManualInit == Init => ManualInv
<1> SUFFICES ASSUME Init PROVE ManualInv
  OBVIOUS
<1>1. mainq = <<Plain("appear")>> /\ Plain("appear").kind = "appear"
  BY DEF Init, Plain
<1>2. Sole(mainq, {"appear", "resume"})
  BY <1>1 DEF Sole, Starters
<1>3. Connecting = {}
  BY DEF Init, Connecting, Running
<1> QED
  BY <1>2, <1>3 DEF Init, ManualInv, OneStart, Starting, NothingToStop, LoopsRemembered, RunsOn,
     TimersRemembered

LEMMA ManualInvariance ==
    ASSUME ~AutoReconnect
    PROVE  Spec => []ManualInv
<1>1. IInv /\ ManualInv /\ [Next]_vars => ManualInv'
  BY ManualStep
<1> QED
  BY <1>1, ManualInit, Invariance, PTL DEF Spec

----------------------------------------------------------------------------
(* A view that goes stops the loop and the timer.                           *)
LEMMA GoneGoesStopped ==
    ASSUME [Next]_vars, view # "gone", view' = "gone"
    PROVE  NothingToStop'
<1>1. ~MainActor /\ ~SleepOver /\ ~UNCHANGED vars
  BY DEF MainActor, DeliverNotification, HandleNotification, ViewModelConnect,
     ViewModelReconnect, PerformConnectResumed, ReconnectTask, ReconnectTaskWakes,
     SleepOver, vars, viewVars
<1>2. \A k \in Call : ~ConnectThread(k) /\ ~EventLoopThread(k)
  BY DEF ConnectThread, ConnectStarts, PostConnect, PostConnectNotifies, ConnectSucceeds,
     ConnectFailsEarly, ConnectFailsLate, ConnectThreadFrame, EventLoopThread, LoopTop,
     ProcessEventsReturns, LoopFrame, viewVars
<1>3. OnDisappear
  BY <1>1, <1>2 DEF Next, Environment, ToolbarDisconnect, DisconnectAndDismiss,
     TapRetry, ConnectionLost, viewVars
<1> QED
  BY <1>3 DEF OnDisappear, SessionDisconnect, StopEventLoop, StopStatisticsTimer,
     NothingToStop

(* What one step does to a session whose view is gone or goes.              *)
LEMMA GoneStep ==
    ASSUME IInv, ManualInv, GoneStopped, [Next]_vars, view' = "gone"
    PROVE  NothingToStop' \/ Resting'
<1>1. TypeOK /\ mainq \in Seq(Job) /\ OneStart
  BY DEF IInv, TypeOK, ManualInv
<1>2. StopEventLoop /\ StopStatisticsTimer => NothingToStop'
  BY DEF StopEventLoop, StopStatisticsTimer, NothingToStop
<1>3. CASE view # "gone"
  BY <1>3, GoneGoesStopped
<1>4. CASE view = "gone"
  <2>1. NothingToStop \/ Resting
    BY <1>4 DEF GoneStopped
  <2>2. ASSUME UNCHANGED <<eventLoopTask, statisticsTimer, call, errorMessage, sleepers>>,
               \A kinds \in Kinds : Sole(mainq, kinds) => Sole(mainq', kinds)
        PROVE  NothingToStop' \/ Resting'
    BY <1>1, <2>1, <2>2, OneStartKept DEF NothingToStop
  <2>3. CASE MainActor
    <3>1. PICK i \in Ready :
              \/ DeliverNotification(i)
              \/ HandleNotification(i)
              \/ ViewModelConnect(i)
              \/ ViewModelReconnect(i)
              \/ PerformConnectResumed(i)
              \/ ReconnectTask(i)
              \/ ReconnectTaskWakes(i)
      BY <2>3 DEF MainActor
    <3>2. i \in DOMAIN mainq /\ mainq[i] \in Job /\ Without(i) \in Seq(Job)
      BY <1>1, WithoutType
    <3>3. \A kinds \in Kinds : Sole(mainq, kinds) =>
              /\ Sole(Without(i), kinds)
              /\ i \in Starters(mainq) => Sole(Without(i), {}) /\ mainq[i].kind \in kinds
      BY <1>1, SoleTaken
    <3>4. i \in Starters(mainq) =>
              NothingToStop /\ Connecting = {} /\ Sole(Without(i), {})
      BY <1>1, <2>1, <3>3 DEF OneStart, Resting, Asking, Starting, InCall, Kinds
    <3>5. CASE DeliverNotification(i)
      <4>1. Handle(mainq[i].note) \in Job /\ Handle(mainq[i].note).kind = "handle"
        BY <3>2, <3>5 DEF DeliverNotification, Handle, Job
      <4>2. mainq' = Append(Without(i), Handle(mainq[i].note))
        BY <3>5 DEF DeliverNotification
      <4>3. ASSUME NEW kinds \in Kinds, Sole(mainq, kinds) PROVE Sole(mainq', kinds)
        BY <3>2, <3>3, <4>1, <4>2, <4>3, SoleAppended
      <4> QED
        BY <2>2, <3>5, <4>3 DEF DeliverNotification, sessionVars, viewVars
    <3>6. CASE HandleNotification(i)
      <4>1. CASE SessionAlive /\ mainq[i].note = "disconnected"
        BY <1>2, <3>6, <4>1 DEF HandleNotification, HandleDisconnection
      <4>2. CASE ~(SessionAlive /\ mainq[i].note = "disconnected")
        BY <2>2, <3>3, <3>6, <4>2 DEF HandleNotification, viewVars
      <4> QED
        BY <4>1, <4>2
    <3>7. CASE ViewModelReconnect(i)
      BY <1>2, <3>7 DEF ViewModelReconnect
    <3>8. CASE PerformConnectResumed(i)
      <4>1. i \in Starters(mainq) /\ mainq[i].call \in Call
        BY <3>2, <3>8 DEF PerformConnectResumed, Starters, Job
      <4>2. /\ mainq' = Without(i)
            /\ call' = [call EXCEPT ![mainq[i].call].pc = "answered"]
        BY <3>8 DEF PerformConnectResumed
      <4>3. Connecting' = {}
        BY <1>1, <3>4, <4>1, <4>2 DEF Connecting, Running, TypeOK, ConnectCall
      <4> QED
        BY <3>4, <4>1, <4>2, <4>3 DEF Resting
    <3>9. CASE ViewModelConnect(i) \/ ReconnectTask(i) \/ ReconnectTaskWakes(i)
      <4>1. i \in Starters(mainq)
        BY <3>2, <3>9 DEF ViewModelConnect, ReconnectTask, ReconnectTaskWakes, Starters
      <4> QED
        BY <3>4, <3>9, <4>1 DEF ViewModelConnect, ReconnectTask, ReconnectTaskWakes,
           NothingToStop
    <3> QED
      BY <3>1, <3>5, <3>6, <3>7, <3>8, <3>9
  <2>4. CASE SleepOver
    BY <1>1, <2>4 DEF SleepOver, OneStart
  <2>5. ASSUME NEW k \in Call, ConnectThread(k) PROVE NothingToStop'
    <3>1. k \in Connecting
      BY <2>5 DEF ConnectThread, ConnectStarts, PostConnect, PostConnectNotifies,
         ConnectSucceeds, ConnectFailsEarly, ConnectFailsLate, Connecting, Running
    <3>2. UNCHANGED <<eventLoopTask, statisticsTimer>>
      BY <2>5 DEF ConnectThread, ConnectStarts, PostConnect, PostConnectNotifies,
         ConnectSucceeds, ConnectFailsEarly, ConnectFailsLate, ConnectThreadFrame, sessionVars
    <3> QED
      BY <2>1, <3>1, <3>2 DEF Resting, NothingToStop
  <2>6. ASSUME NEW k \in Call, EventLoopThread(k) PROVE NothingToStop' \/ Resting'
    BY <2>2, <2>6 DEF EventLoopThread, LoopTop, ProcessEventsReturns, LoopFrame, sessionVars,
       viewVars
  <2>7. CASE Environment
    <3>1. CASE ToolbarDisconnect \/ DisconnectAndDismiss \/ OnDisappear \/ TapRetry
      BY <1>4, <3>1 DEF ToolbarDisconnect, DisconnectAndDismiss, OnDisappear, TapRetry
    <3>2. CASE \E c \in Context : ConnectionLost(c)
      BY <2>2, <3>2 DEF ConnectionLost, sessionVars, viewVars
    <3> QED
      BY <2>7, <3>1, <3>2 DEF Environment
  <2>8. CASE UNCHANGED vars
    BY <2>2, <2>8 DEF vars, sessionVars, viewVars
  <2> QED
    BY <2>3, <2>4, <2>5, <2>6, <2>7, <2>8 DEF Next
<1> QED
  BY <1>3, <1>4

LEMMA GoneInvariance ==
    ASSUME ~AutoReconnect
    PROVE  Spec => []GoneStopped
<1>1. Init => GoneStopped
  BY DEF Init, GoneStopped
<1>2. IInv /\ ManualInv /\ GoneStopped /\ [Next]_vars => GoneStopped'
  BY GoneStep DEF GoneStopped
<1> QED
  BY <1>1, <1>2, Invariance, ManualInvariance, PTL DEF Spec

(* A session that no one uses any more dies with its view.                  *)
LEMMA RestingDies ==
    ASSUME TypeOK, OneStart, Resting, view = "gone"
    PROVE  ~SessionAlive
<1>1. \A i \in DOMAIN mainq : mainq[i].kind \in {"deliver", "handle"}
  BY DEF Resting, Sole, Starters
<1> QED
  BY <1>1 DEF SessionAlive, OneStart, Resting, Connecting

----------------------------------------------------------------------------
(* With config.autoReconnect off, and while the session lives, every event  *)
(* loop that runs on is the one stopEventLoop cancels                       *)
(* (RDPSession.swift:356-373), in whatever order the tasks run.             *)
THEOREM LoopsStoppableWithoutAutoReconnect ==
    ASSUME ~AutoReconnect
    PROVE  Spec => []LoopsStoppable
<1>1. ManualInv => LoopsStoppable
  BY DEF ManualInv, LoopsRemembered, LoopsStoppable, OwnedLoop
<1> QED
  BY <1>1, ManualInvariance, PTL

(* And every timer that is scheduled is the one stopStatisticsTimer         *)
(* invalidates (RDPSession.swift:375-386).                                  *)
THEOREM TimersStoppableWithoutAutoReconnect ==
    ASSUME ~AutoReconnect
    PROVE  Spec => []TimersStoppable
<1>1. ManualInv => TimersStoppable
  BY DEF ManualInv, TimersRemembered, TimersStoppable, OwnedTimer
<1> QED
  BY <1>1, ManualInvariance, PTL

(* With config.autoReconnect off, a loop or a timer that the session can    *)
(* stop never gets out of its reach, its end included (the fields of        *)
(* RDPSession.swift:29-30 die with it): what no one can stop was started    *)
(* for a view that had gone before (RDPSession.swift:256-264).              *)
THEOREM OrphansComeLateWithoutAutoReconnect ==
    ASSUME ~AutoReconnect
    PROVE  Spec => OrphansComeLate
<1>1. ASSUME IInv, ManualInv, GoneStopped, ManualInv', GoneStopped', [Next]_vars,
             NEW k \in Call, Orphaned(k)', ~Orphaned(k)
      PROVE  view = "gone" /\ ~RunsOn(k) /\ k \notin timers
  <2>1. TypeOK /\ OneStart /\ timers \subseteq Call /\ NoCall \notin Call
    BY <1>1 DEF IInv, ManualInv, TypeOK
  <2>2. ~SessionAlive' /\ view' = "gone"
    <3>1. SessionAlive' => ~Orphaned(k)'
      BY <1>1 DEF ManualInv, LoopsRemembered, TimersRemembered, Orphaned, OwnedLoop, OwnedTimer
    <3> QED
      BY <1>1, <3>1 DEF SessionAlive
  <2>3. CASE ~SessionAlive
    <3>1. view = "gone"
      BY <2>3 DEF SessionAlive
    <3> QED
      BY <1>1, <2>1, <2>3, <3>1 DEF Orphaned, OwnedLoop, OwnedTimer
  <2>4. CASE SessionAlive /\ view = "gone"
    <3>1. NothingToStop
      BY <1>1, <2>1, <2>4, RestingDies DEF GoneStopped
    <3> QED
      BY <1>1, <2>1, <2>4, <3>1 DEF NothingToStop, ManualInv, LoopsRemembered, TimersRemembered
  <2>5. CASE view # "gone"
    <3>1. NothingToStop'
      BY <1>1, <2>2, <2>5, GoneGoesStopped
    <3>2. ~Orphaned(k)'
      BY <1>1, <2>1, <3>1 DEF NothingToStop, ManualInv, LoopsRemembered, TimersRemembered,
         Orphaned
    <3> QED
      BY <1>1, <3>2
  <2> QED
    BY <2>3, <2>4, <2>5
<1>2. /\ IInv /\ ManualInv /\ GoneStopped /\ ManualInv' /\ GoneStopped' /\ [Next]_vars
      => [\A k \in Call : Orphaned(k)' =>
              Orphaned(k) \/ (view = "gone" /\ ~RunsOn(k) /\ k \notin timers)]_vars
  BY <1>1
<1> QED
  BY <1>2, Invariance, ManualInvariance, GoneInvariance, PTL DEF Spec, OrphansComeLate

(* With config.autoReconnect off, no two threads are inside freerdp_connect *)
(* on one instance (FreeRDPBridge.c:1201), however often the user retries.  *)
THEOREM OneConnectWithoutAutoReconnect ==
    ASSUME ~AutoReconnect
    PROVE  Spec => []OneConnectPerContext
<1>1. ManualInv => OneConnectPerContext
  <2> SUFFICES ASSUME ManualInv, NEW c \in Context,
                      NEW j \in ConnectsOn(c), NEW k \in ConnectsOn(c)
               PROVE  j = k
    BY DEF OneConnectPerContext
  <2>1. j \in Connecting /\ k \in Connecting
    BY DEF ConnectsOn, Connecting, Running
  <2> QED
    BY <2>1 DEF ManualInv, OneStart, Resting, Asking, Starting, InCall
<1> QED
  BY <1>1, ManualInvariance, PTL

=============================================================================
