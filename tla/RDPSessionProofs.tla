-------------------------- MODULE RDPSessionProofs --------------------------
(****************************************************************************)
(* What holds of RDPSession for every value of its constants: any number of *)
(* contexts, connect calls, attempts and retries, tasks in any order.       *)
(****************************************************************************)
EXTENDS RDPSession, TLAPS

USE NoContextAssumption, NoCallAssumption, AutoReconnectAssumption,
    AttemptsAssumption, RetriesAssumption

----------------------------------------------------------------------------
(* The queue operators.                                                     *)

(* A job taken from the queue leaves a queue of jobs, and those were there. *)
LEMMA WithoutType ==
    ASSUME mainq \in Seq(Job), NEW i \in Ready
    PROVE  /\ i \in DOMAIN mainq
           /\ mainq[i] \in Job
           /\ Without(i) \in Seq(Job)
           /\ \A j \in DOMAIN Without(i) : \E h \in DOMAIN mainq : Without(i)[j] = mainq[h]
<1>1. i \in DOMAIN mainq
  BY DEF Ready
<1>2. i \in 1..Len(mainq) /\ Len(mainq) \in Nat
  BY <1>1
<1>3. mainq[i] \in Job
  BY <1>2
<1> DEFINE n == Len(mainq) - 1
<1>4. n \in Nat
  BY <1>2
<1>5. \A j \in 1..n : \E h \in 1..Len(mainq) : Without(i)[j] = mainq[h]
  BY <1>2 DEF Without
<1>6. \A j \in 1..n : Without(i)[j] \in Job
  BY <1>2, <1>5
<1>7. Without(i) = [j \in 1..n |-> Without(i)[j]]
  BY DEF Without
<1>8. Without(i) \in [1..n -> Job]
  BY <1>6, <1>7
<1>9. Without(i) \in Seq(Job)
  BY <1>4, <1>8
<1>10. DOMAIN Without(i) = 1..n
  BY DEF Without
<1> QED
  BY <1>1, <1>2, <1>3, <1>5, <1>9, <1>10

(* Appending a member keeps a sequence over its set.                        *)
LEMMA AppendType ==
    ASSUME NEW S, NEW q \in Seq(S), NEW x \in S
    PROVE  Append(q, x) \in Seq(S)
  OBVIOUS

(* Posting notifications on a queue of jobs gives a queue of jobs.          *)
LEMMA PostedType ==
    ASSUME NEW q \in Seq(Job), NEW notes \in Seq(Notification)
    PROVE  Posted(q, notes) \in Seq(Job)
<1> DEFINE tasks == [i \in DOMAIN notes |-> Deliver(notes[i])]
<1>1. DOMAIN notes = 1..Len(notes) /\ Len(notes) \in Nat
  OBVIOUS
<1>2. \A n \in Notification : Deliver(n) \in Job
  BY DEF Deliver, Job
<1>3. \A i \in 1..Len(notes) : Deliver(notes[i]) \in Job
  BY <1>1, <1>2
<1>4. tasks \in [1..Len(notes) -> Job]
  BY <1>1, <1>3
<1>5. tasks \in Seq(Job)
  BY <1>1, <1>4
<1> HIDE DEF tasks
<1>6. q \o tasks \in Seq(Job)
  BY <1>5
<1> QED
  BY <1>6 DEF Posted, tasks

----------------------------------------------------------------------------
(* The bridge operators.                                                    *)

Table == [Context -> ViDeskContext]

(* b2 gives every context the life that b1 gives it.                        *)
SameLives(b1, b2) == \A c \in Context : b2[c].life = b1[c].life

(* Connecting, disconnecting and losing a transport keep every life.        *)
LEMMA LivesKept ==
    ASSUME NEW b \in Table, NEW c \in Context
    PROVE  /\ PostConnected(b, c) \in Table /\ SameLives(b, PostConnected(b, c))
           /\ FreeRDPDisconnected(b, c) \in Table /\ SameLives(b, FreeRDPDisconnected(b, c))
           /\ Disconnected(b, c) \in Table /\ SameLives(b, Disconnected(b, c))
           /\ TransportLost(b, c) \in Table /\ SameLives(b, TransportLost(b, c))
<1>1. PostConnected(b, c) \in Table /\ SameLives(b, PostConnected(b, c))
  BY DEF Table, ViDeskContext, Life, Transport, SameLives, PostConnected
<1>2. FreeRDPDisconnected(b, c) \in Table /\ SameLives(b, FreeRDPDisconnected(b, c))
  BY DEF Table, ViDeskContext, Life, Transport, SameLives, FreeRDPDisconnected
<1>3. Disconnected(b, c) \in Table /\ SameLives(b, Disconnected(b, c))
  <2>1. CASE b[c].isConnected
    BY <1>2, <2>1 DEF Disconnected
  <2>2. CASE ~b[c].isConnected
    BY <2>2 DEF Table, ViDeskContext, Life, Transport, SameLives, Disconnected
  <2> QED
    BY <2>1, <2>2
<1>4. TransportLost(b, c) \in Table /\ SameLives(b, TransportLost(b, c))
  BY DEF Table, ViDeskContext, Life, Transport, SameLives, TransportLost
<1> QED
  BY <1>1, <1>2, <1>3, <1>4

(* Creating and destroying change one life.                                 *)
LEMMA LivesChanged ==
    ASSUME NEW b \in Table, NEW c \in Context
    PROVE  /\ Created(b, c) \in Table
           /\ Destroyed(b, c) \in Table
           /\ Created(b, c)[c].life = "live"
           /\ Destroyed(b, c)[c].life = "freed"
           /\ \A d \in Context \ {c} : /\ Created(b, c)[d].life = b[d].life
                                       /\ Destroyed(b, c)[d].life = b[d].life
  BY DEF Table, ViDeskContext, Life, Transport, Created, Destroyed

(* The next identity is one that has not been used.                         *)
LEMMA NextUnbornType ==
    ASSUME NEW b, Unborn(b) # {}
    PROVE  NextUnborn(b) \in Context /\ b[NextUnborn(b)].life = "unborn"
<1>1. NextUnborn(b) \in Unborn(b)
  BY DEF NextUnborn
<1> QED
  BY <1>1 DEF Unborn

(* The next connect call is one that has not been made.                     *)
LEMMA NextCallType ==
    ASSUME IdleCalls # {}
    PROVE  NextCall \in Call /\ call[NextCall].pc = "idle"
<1>1. NextCall \in IdleCalls
  BY DEF NextCall
<1> QED
  BY <1>1 DEF IdleCalls

(* What disconnecting the wrapper's context posts is a list of              *)
(* notifications, and its table one with the same lives.                    *)
LEMMA ContextDisconnectType ==
    ASSUME TypeOK
    PROVE  /\ ContextDisconnected \in Table
           /\ SameLives(bridge, ContextDisconnected)
           /\ ContextDisconnectPosts \in Seq(Notification)
<1>1. bridge \in Table
  BY DEF TypeOK, BridgeTypeOK, Table
<1>2. <<>> \in Seq(Notification) /\ <<"disconnected">> \in Seq(Notification)
  BY DEF Notification
<1>3. CASE context = NoContext
  BY <1>1, <1>2, <1>3 DEF ContextDisconnected, ContextDisconnectPosts, SameLives
<1>4. CASE context # NoContext
  <2>1. context \in Context
    BY <1>4 DEF TypeOK
  <2>2. ContextDisconnected = Disconnected(bridge, context)
    BY <1>4 DEF ContextDisconnected
  <2>3. ContextDisconnectPosts \in {<<>>, <<"disconnected">>}
    BY <1>4 DEF ContextDisconnectPosts, DisconnectPosts
  <2> QED
    BY <1>1, <1>2, <2>1, <2>2, <2>3, LivesKept
<1> QED
  BY <1>3, <1>4

(* Stopping the loop cancels at most one; it moves none and changes none's  *)
(* context.                                                                 *)
LEMMA StopEventLoopType ==
    ASSUME TypeOK, StopEventLoop
    PROVE  /\ loop' \in [Call -> EventLoop]
           /\ eventLoopTask' \in Call \cup {NoCall}
           /\ \A k \in Call : loop'[k].ctx = loop[k].ctx /\ loop'[k].pc = loop[k].pc
<1>1. loop \in [Call -> EventLoop] /\ eventLoopTask \in Call \cup {NoCall}
  BY DEF TypeOK
<1>2. loop' = LoopsCancelled /\ eventLoopTask' = NoCall
  BY DEF StopEventLoop
<1> QED
  BY <1>1, <1>2 DEF LoopsCancelled, EventLoop, LoopPc

(* Stopping the timer removes one and adds none.                            *)
LEMMA StopStatisticsTimerType ==
    ASSUME TypeOK, StopStatisticsTimer
    PROVE  timers' \subseteq Call /\ statisticsTimer' \in Call \cup {NoCall}
  BY DEF TypeOK, StopStatisticsTimer, TimersStopped

----------------------------------------------------------------------------
(* The inductive invariant.                                                 *)

(* A thread holds a context that was created, and keeps holding it: it may  *)
(* be freed by now, but it is not one still to come.                        *)
ThreadsUseBorn ==
    \A k \in Call :
        /\ call[k].pc \in Running => call[k].ctx \in Context
        /\ call[k].ctx \in Context => bridge[call[k].ctx].life # "unborn"
        /\ loop[k].ctx \in Context => bridge[loop[k].ctx].life # "unborn"

IInv == TypeOK /\ ContextOwned /\ ThreadsUseBorn

(* The view appears with no context and no thread.                          *)
LEMMA InitIInv == Init => IInv
<1> SUFFICES ASSUME Init PROVE IInv
  OBVIOUS
<1>1. BridgeTypeOK
  BY DEF Init, BridgeInit, BridgeTypeOK, ViDeskContext, Life, Transport
<1>2. mainq \in Seq(Job)
  BY DEF Init, Plain, Job
<1>6. call \in [Call -> ConnectCall] /\ loop \in [Call -> EventLoop]
  BY DEF Init, ConnectCall, CallPc, Caller, EventLoop, LoopPc
<1>7. /\ state \in SessionState
      /\ context \in Context \cup {NoContext}
      /\ reconnectAttempt \in Nat
      /\ eventLoopTask \in Call \cup {NoCall}
      /\ statisticsTimer \in Call \cup {NoCall}
      /\ timers \subseteq Call
      /\ sleepers \in Nat
      /\ view \in {"shown", "leaving", "gone"}
      /\ errorMessage \in BOOLEAN
  BY DEF Init, SessionState
<1>8. retries \in 0..MaxRetries
  BY RetriesAssumption DEF Init
<1>3. TypeOK
  BY <1>1, <1>2, <1>6, <1>7, <1>8 DEF TypeOK
<1>4. ContextOwned
  BY DEF Init, BridgeInit, ContextOwned
<1>5. ThreadsUseBorn
  BY DEF Init, ThreadsUseBorn, Running
<1> QED
  BY <1>3, <1>4, <1>5 DEF IInv

----------------------------------------------------------------------------
(* Steps that neither create nor destroy.                                   *)

(* A step that keeps every life, the session's pointer and the context of   *)
(* every thread keeps ContextOwned and ThreadsUseBorn.                      *)
LEMMA OwnershipKept ==
    ASSUME IInv, SameLives(bridge, bridge'), context' = context,
           \A k \in Call : /\ call'[k].ctx = call[k].ctx
                           /\ call'[k].pc \in Running => call[k].pc \in Running,
           \A k \in Call : loop'[k].ctx = loop[k].ctx
    PROVE  ContextOwned' /\ ThreadsUseBorn'
  BY DEF IInv, SameLives, ContextOwned, ThreadsUseBorn

(* The move of one connect call from one place to the next.                 *)
LEMMA CallMoves ==
    ASSUME TypeOK, NEW k \in Call, NEW pc \in CallPc, call[k].pc \in Running,
           call' = [call EXCEPT ![k].pc = pc]
    PROVE  /\ call' \in [Call -> ConnectCall]
           /\ \A j \in Call : /\ call'[j].ctx = call[j].ctx
                              /\ call'[j].pc \in Running => call[j].pc \in Running
  BY DEF TypeOK, ConnectCall

(* The move of one event loop.                                              *)
LEMMA LoopMoves ==
    ASSUME TypeOK, NEW k \in Call, NEW pc \in LoopPc,
           loop' = [loop EXCEPT ![k].pc = pc]
    PROVE  /\ loop' \in [Call -> EventLoop]
           /\ \A j \in Call : loop'[j].ctx = loop[j].ctx
  BY DEF TypeOK, EventLoop

(* What a background connect thread changes: its own place, the table       *)
(* without any life, and the end of the queue.                              *)
LEMMA ConnectThreadKeepsIInv ==
    ASSUME IInv, NEW k \in Call, ConnectThread(k)
    PROVE  IInv'
<1> USE DEF IInv
<1>1. /\ bridge \in Table /\ SameLives(bridge, bridge)
      /\ mainq \in Seq(Job)
  BY DEF TypeOK, BridgeTypeOK, Table, SameLives
<1>2. call[k].pc \in Running
  BY DEF Running, ConnectThread, ConnectStarts, PostConnect, PostConnectNotifies, ConnectSucceeds,
         ConnectFailsEarly, ConnectFailsLate
<1>3. call[k].ctx \in Context
  BY <1>2 DEF ThreadsUseBorn
<1>4. \E pc \in CallPc : call' = [call EXCEPT ![k].pc = pc]
  BY DEF ConnectThread, ConnectStarts, PostConnect, PostConnectNotifies, ConnectSucceeds,
         ConnectFailsEarly, ConnectFailsLate, CallPc
<1>5. /\ call' \in [Call -> ConnectCall]
      /\ \A j \in Call : /\ call'[j].ctx = call[j].ctx
                         /\ call'[j].pc \in Running => call[j].pc \in Running
  BY <1>2, <1>4, CallMoves
<1>6. bridge' \in Table /\ SameLives(bridge, bridge')
  BY <1>1, <1>3, LivesKept DEF ConnectThread, ConnectStarts, PostConnect, PostConnectNotifies,
     ConnectSucceeds, ConnectFailsEarly, ConnectFailsLate
<1>7. \A n \in Notification : <<n>> \in Seq(Notification)
  OBVIOUS
<1>8. Resume(k, TRUE) \in Job /\ Resume(k, FALSE) \in Job
  BY DEF Resume, Job
<1>9. mainq' \in Seq(Job)
  <2>1. CASE ConnectStarts(k) \/ PostConnectNotifies(k)
    <3>1. \E n \in Notification : mainq' = Posted(mainq, <<n>>)
      BY <2>1 DEF ConnectStarts, PostConnectNotifies, Notification
    <3> QED
      BY <1>1, <1>7, <3>1, PostedType
  <2>2. CASE ConnectSucceeds(k)
    BY <1>1, <1>8, <2>2, AppendType DEF ConnectSucceeds
  <2>3. CASE ConnectFailsEarly(k) \/ ConnectFailsLate(k)
    <3>1. PICK notes \in {<<>>, <<"disconnected">>} : FailurePosts(k, notes)
      BY <2>3 DEF ConnectFailsEarly, ConnectFailsLate, DisconnectPosts
    <3>2. Append(notes, "error") \in Seq(Notification)
      <4>1. notes \in Seq(Notification) /\ "error" \in Notification
        <5>1. <<>> \in Seq(Notification) /\ <<"disconnected">> \in Seq(Notification)
          BY DEF Notification
        <5>2. "error" \in Notification
          BY DEF Notification
        <5> QED
          BY <3>1, <5>1, <5>2
      <4> QED
        BY <4>1, AppendType
    <3>3. Posted(mainq, Append(notes, "error")) \in Seq(Job)
      BY <1>1, <3>2, PostedType
    <3> QED
      BY <1>8, <3>1, <3>3, AppendType DEF FailurePosts
  <2>4. CASE PostConnect(k)
    BY <1>1, <2>4 DEF PostConnect
  <2> QED
    BY <2>1, <2>2, <2>3, <2>4 DEF ConnectThread
<1>10. UNCHANGED <<context, loop, sleepers, sessionVars, viewVars>>
  BY DEF ConnectThread, ConnectStarts, PostConnect, PostConnectNotifies, ConnectSucceeds,
         ConnectFailsEarly, ConnectFailsLate, ConnectThreadFrame
<1>11. TypeOK'
  BY <1>5, <1>6, <1>9, <1>10 DEF TypeOK, BridgeTypeOK, Table, sessionVars, viewVars
<1>12. ContextOwned' /\ ThreadsUseBorn'
  BY <1>5, <1>6, <1>10, OwnershipKept
<1> QED
  BY <1>11, <1>12

(* An event loop changes its own place and nothing else.                    *)
LEMMA EventLoopKeepsIInv ==
    ASSUME IInv, NEW k \in Call, EventLoopThread(k)
    PROVE  IInv'
<1> USE DEF IInv
<1>1. \E pc \in LoopPc : loop' = [loop EXCEPT ![k].pc = pc]
  BY DEF EventLoopThread, LoopTop, ProcessEventsReturns, LoopPc
<1>2. /\ loop' \in [Call -> EventLoop]
      /\ \A j \in Call : loop'[j].ctx = loop[j].ctx
  BY <1>1, LoopMoves
<1>3. UNCHANGED <<bridge, context, call, mainq, sleepers, sessionVars, viewVars>>
  BY DEF EventLoopThread, LoopTop, ProcessEventsReturns, LoopFrame
<1>4. TypeOK'
  BY <1>2, <1>3 DEF TypeOK, BridgeTypeOK, sessionVars, viewVars
<1>5. ContextOwned' /\ ThreadsUseBorn'
  BY <1>2, <1>3, OwnershipKept DEF SameLives
<1> QED
  BY <1>4, <1>5

----------------------------------------------------------------------------
(* The steps of the main actor.                                             *)

(* performConnect up to its await: from a table b with the lives the        *)
(* invariant knows, it leaves the session's variables well typed, the new   *)
(* context owned and the new call on a context that was created.            *)
LEMMA PerformConnectKeepsOwnership ==
    ASSUME IInv, NEW by \in Caller, NEW b \in Table, SameLives(bridge, b),
           NEW e \in BOOLEAN, PerformConnect(by, b, e)
    PROVE  /\ bridge' \in Table
           /\ state' \in SessionState
           /\ context' \in Context \cup {NoContext}
           /\ call' \in [Call -> ConnectCall]
           /\ errorMessage' \in BOOLEAN
           /\ ContextOwned'
           /\ (\A k \in Call : loop'[k].ctx = loop[k].ctx) => ThreadsUseBorn'
<1> USE DEF IInv
<1>1. CASE /\ ~HasContext
           /\ state' = StateOnCreateFailure
           /\ Threw(by, e)
           /\ bridge' = b
           /\ UNCHANGED <<context, call>>
  <2>1. errorMessage' \in BOOLEAN
    BY <1>1 DEF Threw
  <2>2. state' \in SessionState
    BY <1>1 DEF StateOnCreateFailure, SessionState
  <2>3. ContextOwned'
    BY <1>1 DEF ContextOwned, SameLives
  <2>4. (\A k \in Call : loop'[k].ctx = loop[k].ctx) => ThreadsUseBorn'
    BY <1>1 DEF ThreadsUseBorn, SameLives
  <2> QED
    BY <1>1, <2>1, <2>2, <2>3, <2>4 DEF TypeOK
<1>2. CASE /\ HasContext \/ Unborn(b) # {}
           /\ LET c == IF HasContext THEN context ELSE NextUnborn(b) IN
                 /\ context' = c
                 /\ bridge' = IF HasContext THEN b ELSE Created(b, c)
                 /\ \/ /\ SettersMayFail
                       /\ state' = "connecting"
                       /\ Threw(by, e)
                       /\ UNCHANGED call
                    \/ /\ IdleCalls # {}
                       /\ call' = [call EXCEPT ![NextCall] =
                                        [pc |-> "dispatched", ctx |-> c, by |-> by]]
                       /\ state' = "authenticating"
                       /\ errorMessage' = e
  <2> DEFINE c == IF HasContext THEN context ELSE NextUnborn(b)
  <2>1. c \in Context
    BY <1>2, NextUnbornType DEF HasContext, TypeOK
  <2>2. ~HasContext => b[c].life = "unborn"
    BY <1>2, NextUnbornType
  <2> HIDE DEF c
  <2>3. context' = c
    BY <1>2 DEF c
  <2>4. bridge' = IF HasContext THEN b ELSE Created(b, c)
    BY <1>2 DEF c
  <2>5. bridge' \in Table
    BY <2>1, <2>4, LivesChanged
  <2>6. bridge'[c].life = "live"
    <3>1. CASE HasContext
      BY <3>1, <2>1, <2>3, <2>4 DEF c, ContextOwned, SameLives
    <3>2. CASE ~HasContext
      BY <3>2, <2>1, <2>4, LivesChanged
    <3> QED
      BY <3>1, <3>2
  <2>7. \A d \in Context \ {c} : bridge'[d].life = bridge[d].life
    BY <2>1, <2>4, LivesChanged DEF SameLives
  <2>8. \A d \in Context \ {c} : bridge[d].life # "live"
    BY <2>1, <2>2 DEF c, HasContext, ContextOwned
  <2>9. ContextOwned'
    BY <2>1, <2>3, <2>6, <2>7, <2>8 DEF ContextOwned
  <2>10. \A d \in Context : bridge[d].life # "unborn" => bridge'[d].life # "unborn"
    BY <2>6, <2>7
  <2>11. CASE /\ state' = "connecting"
              /\ Threw(by, e)
              /\ UNCHANGED call
    <3>1. errorMessage' \in BOOLEAN
      BY <2>11 DEF Threw
    <3>2. state' \in SessionState
      BY <2>11 DEF SessionState
    <3>3. (\A k \in Call : loop'[k].ctx = loop[k].ctx) => ThreadsUseBorn'
      BY <2>10, <2>11 DEF ThreadsUseBorn
    <3> QED
      BY <2>1, <2>3, <2>5, <2>9, <2>11, <3>1, <3>2, <3>3 DEF TypeOK
  <2>12. CASE /\ IdleCalls # {}
              /\ call' = [call EXCEPT ![NextCall] =
                               [pc |-> "dispatched", ctx |-> c, by |-> by]]
              /\ state' = "authenticating"
              /\ errorMessage' = e
    <3>1. NextCall \in Call
      BY <2>12, NextCallType
    <3>2. call' \in [Call -> ConnectCall]
      BY <2>1, <2>12, <3>1 DEF TypeOK, ConnectCall, CallPc
    <3>3. /\ call'[NextCall].ctx = c
          /\ \A k \in Call \ {NextCall} : call'[k] = call[k]
      BY <2>12, <3>1 DEF TypeOK
    <3>4. state' \in SessionState
      BY <2>12 DEF SessionState
    <3>5. (\A k \in Call : loop'[k].ctx = loop[k].ctx) => ThreadsUseBorn'
      BY <2>1, <2>6, <2>10, <3>1, <3>3 DEF ThreadsUseBorn
    <3> QED
      BY <2>1, <2>3, <2>5, <2>9, <2>12, <3>2, <3>4, <3>5
  <2> QED
    BY <1>2, <2>11, <2>12 DEF c
<1> QED
  BY <1>1, <1>2 DEF PerformConnect

(* Delivering a notification moves it to the back of the queue.             *)
LEMMA DeliverKeepsIInv ==
    ASSUME IInv, NEW i \in Ready, DeliverNotification(i)
    PROVE  IInv'
<1> USE DEF IInv
<1>1. mainq[i] \in Job /\ Without(i) \in Seq(Job)
  BY WithoutType DEF TypeOK
<1>2. mainq[i].note \in Notification
  BY <1>1 DEF Job, DeliverNotification
<1>3. Handle(mainq[i].note) \in Job
  BY <1>2 DEF Handle, Job
<1>4. mainq' \in Seq(Job)
  BY <1>1, <1>3, AppendType DEF DeliverNotification
<1>5. UNCHANGED <<bridge, context, call, loop, sleepers, sessionVars, viewVars>>
  BY DEF DeliverNotification
<1>6. TypeOK'
  BY <1>4, <1>5 DEF TypeOK, BridgeTypeOK, sessionVars, viewVars
<1> QED
  BY <1>5, <1>6, OwnershipKept DEF SameLives, sessionVars

(* Handling one: every notification is a state of the session.              *)
LEMMA HandleKeepsIInv ==
    ASSUME IInv, NEW i \in Ready, HandleNotification(i)
    PROVE  IInv'
<1> USE DEF IInv
<1>1. mainq[i] \in Job /\ Without(i) \in Seq(Job)
  BY WithoutType DEF TypeOK
<1>2. mainq[i].note \in Notification
  BY <1>1 DEF Job, HandleNotification
<1>3. UNCHANGED <<bridge, context, call, sleepers, reconnectAttempt, viewVars>>
  BY DEF HandleNotification
<1>4. /\ loop' \in [Call -> EventLoop]
      /\ eventLoopTask' \in Call \cup {NoCall}
      /\ timers' \subseteq Call
      /\ statisticsTimer' \in Call \cup {NoCall}
      /\ \A k \in Call : loop'[k].ctx = loop[k].ctx
      /\ state' \in SessionState
      /\ mainq' \in Seq(Job)
  <2>1. CASE HandleDisconnection(Without(i))
    <3>1. Plain("reconnect") \in Job
      BY DEF Plain, Job
    <3>2. mainq' \in Seq(Job)
      BY <1>1, <2>1, <3>1, AppendType DEF HandleDisconnection
    <3>3. state' \in SessionState
      BY <2>1 DEF HandleDisconnection, TypeOK, SessionState
    <3> QED
      BY <2>1, <3>2, <3>3, StopEventLoopType, StopStatisticsTimerType DEF HandleDisconnection
  <2>2. CASE /\ state' = IF SessionAlive THEN mainq[i].note ELSE state
             /\ mainq' = Without(i)
             /\ UNCHANGED <<loop, eventLoopTask, timers, statisticsTimer>>
    <3>1. state' \in SessionState
      BY <1>2, <2>2 DEF TypeOK, SessionState, Notification
    <3> QED
      BY <1>1, <2>2, <3>1 DEF TypeOK
  <2> QED
    BY <2>1, <2>2 DEF HandleNotification
<1>5. TypeOK'
  BY <1>3, <1>4 DEF TypeOK, BridgeTypeOK, viewVars
<1> QED
  BY <1>3, <1>4, <1>5, OwnershipKept DEF SameLives

(* The view's first connect.                                                *)
LEMMA ConnectKeepsIInv ==
    ASSUME IInv, NEW i \in Ready, ViewModelConnect(i)
    PROVE  IInv'
<1> USE DEF IInv
<1>1. Without(i) \in Seq(Job) /\ bridge \in Table /\ SameLives(bridge, bridge)
  BY WithoutType DEF TypeOK, BridgeTypeOK, Table, SameLives
<1>2. /\ mainq' = Without(i)
      /\ UNCHANGED <<loop, eventLoopTask, timers, statisticsTimer, sleepers, view, retries>>
  BY DEF ViewModelConnect
<1>3. CASE PerformConnect("connect", bridge, FALSE) /\ reconnectAttempt' = 0
  <2>1. TypeOK'
    BY <1>1, <1>2, <1>3, PerformConnectKeepsOwnership DEF TypeOK, BridgeTypeOK, Table, Caller
  <2> QED
    BY <1>1, <1>2, <1>3, <2>1, PerformConnectKeepsOwnership DEF Caller
<1>4. CASE /\ errorMessage' = TRUE
           /\ UNCHANGED <<bridge, context, call, state, reconnectAttempt>>
  <2>1. TypeOK'
    BY <1>1, <1>2, <1>4 DEF TypeOK, BridgeTypeOK
  <2> QED
    BY <1>1, <1>2, <1>4, <2>1, OwnershipKept
<1> QED
  BY <1>3, <1>4 DEF ViewModelConnect

(* The retry: disconnect, then connect.                                     *)
LEMMA RetryKeepsIInv ==
    ASSUME IInv, NEW i \in Ready, ViewModelReconnect(i)
    PROVE  IInv'
<1> USE DEF IInv
<1>1. Without(i) \in Seq(Job)
  BY WithoutType DEF TypeOK
<1>2. mainq' \in Seq(Job)
  BY <1>1, PostedType, ContextDisconnectType DEF ViewModelReconnect
<1>3. /\ loop' \in [Call -> EventLoop]
      /\ eventLoopTask' \in Call \cup {NoCall}
      /\ timers' \subseteq Call
      /\ statisticsTimer' \in Call \cup {NoCall}
      /\ \A k \in Call : loop'[k].ctx = loop[k].ctx
  BY StopEventLoopType, StopStatisticsTimerType DEF ViewModelReconnect
<1>4. PerformConnect("retry", ContextDisconnected, errorMessage)
  BY DEF ViewModelReconnect
<1>5. /\ "retry" \in Caller
      /\ ContextDisconnected \in Table
      /\ SameLives(bridge, ContextDisconnected)
      /\ errorMessage \in BOOLEAN
  BY ContextDisconnectType DEF Caller, TypeOK
<1>6. /\ bridge' \in Table
      /\ state' \in SessionState
      /\ context' \in Context \cup {NoContext}
      /\ call' \in [Call -> ConnectCall]
      /\ errorMessage' \in BOOLEAN
      /\ ContextOwned'
      /\ ThreadsUseBorn'
  BY <1>3, <1>4, <1>5, PerformConnectKeepsOwnership
<1>7. reconnectAttempt' = 0 /\ UNCHANGED <<sleepers, view, retries>>
  BY DEF ViewModelReconnect
<1>8. TypeOK'
  BY <1>2, <1>3, <1>6, <1>7 DEF TypeOK, BridgeTypeOK, Table
<1> QED
  BY <1>6, <1>8

(* The answer of a connect call: a loop is started on the context the       *)
(* session has now.                                                         *)
LEMMA ResumeKeepsIInv ==
    ASSUME IInv, NEW i \in Ready, PerformConnectResumed(i)
    PROVE  IInv'
<1> USE DEF IInv
<1> DEFINE k == mainq[i].call
<1>1. mainq[i] \in Job /\ Without(i) \in Seq(Job)
  BY WithoutType DEF TypeOK
<1>2. k \in Call
  BY <1>1 DEF Job, PerformConnectResumed
<1> HIDE DEF k
<1>3. /\ mainq' = Without(i)
      /\ call' = [call EXCEPT ![k].pc = "answered"]
      /\ UNCHANGED <<bridge, context, sleepers, reconnectAttempt, view, retries>>
  BY DEF PerformConnectResumed, k
<1>4. /\ call' \in [Call -> ConnectCall]
      /\ \A j \in Call : call'[j].ctx = call[j].ctx
      /\ \A j \in Call : call'[j].pc \in Running => call[j].pc \in Running
  <2>1. call \in [Call -> ConnectCall]
    BY DEF TypeOK
  <2>2. \A j \in Call : call'[j] = IF j = k THEN [call[k] EXCEPT !.pc = "answered"] ELSE call[j]
    BY <1>2, <1>3, <2>1
  <2>3. \A j \in Call : /\ call'[j] \in ConnectCall
                        /\ call'[j].ctx = call[j].ctx
                        /\ call'[j].pc = IF j = k THEN "answered" ELSE call[j].pc
    BY <1>2, <2>1, <2>2 DEF ConnectCall, CallPc
  <2>4. call' \in [Call -> ConnectCall]
    BY <1>3, <2>1, <2>3
  <2> QED
    BY <2>3, <2>4 DEF Running
<1>5. ContextOwned'
  BY <1>3 DEF ContextOwned
<1>6. CASE /\ loop' = LoopStarted(k)
           /\ eventLoopTask' = k
           /\ timers' = timers \cup {k}
           /\ statisticsTimer' = k
           /\ state' = "connected"
           /\ errorMessage' = (errorMessage /\ call[k].by # "retry")
  <2>1. /\ loop' \in [Call -> EventLoop]
        /\ loop'[k].ctx = context
        /\ \A j \in Call \ {k} : loop'[j] = loop[j]
    BY <1>2, <1>6 DEF TypeOK, LoopStarted, EventLoop, LoopPc
  <2>2. state' \in SessionState
    BY <1>6 DEF SessionState
  <2>3. errorMessage' \in BOOLEAN
    BY <1>6
  <2>4. TypeOK'
    BY <1>1, <1>2, <1>3, <1>4, <1>6, <2>1, <2>2, <2>3 DEF TypeOK, BridgeTypeOK
  <2>5. context \in Context => bridge[context].life = "live"
    BY DEF ContextOwned
  <2>6. ThreadsUseBorn'
    BY <1>2, <1>3, <1>4, <2>1, <2>5 DEF ThreadsUseBorn
  <2> QED
    BY <1>5, <2>4, <2>6
<1>7. CASE /\ state' = "error"
           /\ Threw(call[k].by, errorMessage)
           /\ UNCHANGED <<loop, eventLoopTask, timers, statisticsTimer>>
  <2>1. state' \in SessionState
    BY <1>7 DEF SessionState
  <2>2. errorMessage' \in BOOLEAN
    BY <1>7 DEF Threw
  <2>3. TypeOK'
    BY <1>1, <1>3, <1>4, <1>7, <2>1, <2>2 DEF TypeOK, BridgeTypeOK
  <2> QED
    BY <1>3, <1>4, <1>7, <2>3, OwnershipKept DEF SameLives
<1> QED
  BY <1>6, <1>7 DEF PerformConnectResumed, k

(* The reconnect task destroys the context the session had.                 *)
LEMMA ReconnectKeepsIInv ==
    ASSUME IInv, NEW i \in Ready, ReconnectTask(i)
    PROVE  IInv'
<1> USE DEF IInv
<1>1. Without(i) \in Seq(Job) /\ bridge \in Table
  BY WithoutType DEF TypeOK, BridgeTypeOK, Table
<1>2. mainq' \in Seq(Job)
  BY <1>1, PostedType, ContextDisconnectType DEF ReconnectTask
<1>3. /\ context' = NoContext
      /\ state' = "reconnecting"
      /\ reconnectAttempt' = reconnectAttempt + 1
      /\ sleepers' = sleepers + 1
      /\ UNCHANGED <<call, loop, eventLoopTask, timers, statisticsTimer, viewVars>>
  BY DEF ReconnectTask, PointerAfterDestroy
<1>4. /\ bridge' \in Table
      /\ \A c \in Context : /\ bridge'[c].life # "live"
                            /\ bridge[c].life # "unborn" => bridge'[c].life # "unborn"
  <2>1. CASE context = NoContext
    BY <1>1, <2>1 DEF ReconnectTask, ContextOwned
  <2>2. CASE context # NoContext
    <3>1. context \in Context
      BY <2>2 DEF TypeOK
    <3>2. Disconnected(bridge, context) \in Table
          /\ SameLives(bridge, Disconnected(bridge, context))
      BY <1>1, <3>1, LivesKept
    <3>3. bridge' = Destroyed(Disconnected(bridge, context), context)
      BY <2>2 DEF ReconnectTask
    <3>4. bridge' \in Table /\ bridge'[context].life = "freed"
      BY <3>1, <3>2, <3>3, LivesChanged
    <3>5. \A c \in Context \ {context} :
              Destroyed(Disconnected(bridge, context), context)[c].life
                  = Disconnected(bridge, context)[c].life
      BY <3>1, <3>2, LivesChanged
    <3>7. \A c \in Context \ {context} : bridge'[c].life = bridge[c].life
      BY <3>2, <3>3, <3>5 DEF SameLives
    <3>6. \A c \in Context \ {context} : bridge[c].life # "live"
      BY DEF ContextOwned
    <3> QED
      BY <3>4, <3>6, <3>7
  <2> QED
    BY <2>1, <2>2
<1>5. ContextOwned'
  BY <1>3, <1>4 DEF ContextOwned
<1>6. ThreadsUseBorn'
  BY <1>3, <1>4 DEF ThreadsUseBorn
<1>7. state' \in SessionState
  BY <1>3 DEF SessionState
<1>8. TypeOK'
  BY <1>2, <1>3, <1>4, <1>7 DEF TypeOK, BridgeTypeOK, Table, viewVars
<1> QED
  BY <1>5, <1>6, <1>8

(* The reconnect task connects again.                                       *)
LEMMA WakeKeepsIInv ==
    ASSUME IInv, NEW i \in Ready, ReconnectTaskWakes(i)
    PROVE  IInv'
<1> USE DEF IInv
<1>1. /\ Without(i) \in Seq(Job) /\ bridge \in Table /\ SameLives(bridge, bridge)
      /\ errorMessage \in BOOLEAN /\ "auto" \in Caller
  BY WithoutType DEF TypeOK, BridgeTypeOK, Table, SameLives, Caller
<1>2. /\ mainq' = Without(i)
      /\ PerformConnect("auto", bridge, errorMessage)
      /\ UNCHANGED <<loop, eventLoopTask, timers, statisticsTimer, sleepers,
                     reconnectAttempt, view, retries>>
  BY DEF ReconnectTaskWakes
<1>3. /\ bridge' \in Table
      /\ state' \in SessionState
      /\ context' \in Context \cup {NoContext}
      /\ call' \in [Call -> ConnectCall]
      /\ errorMessage' \in BOOLEAN
      /\ ContextOwned'
      /\ ThreadsUseBorn'
  BY <1>1, <1>2, PerformConnectKeepsOwnership
<1>4. TypeOK'
  BY <1>1, <1>2, <1>3 DEF TypeOK, BridgeTypeOK, Table
<1> QED
  BY <1>3, <1>4

(* One job of the main actor, whichever it is.                              *)
LEMMA MainActorKeepsIInv == IInv /\ MainActor => IInv'
  BY DeliverKeepsIInv, HandleKeepsIInv, ConnectKeepsIInv, RetryKeepsIInv,
     ResumeKeepsIInv, ReconnectKeepsIInv, WakeKeepsIInv DEF MainActor

----------------------------------------------------------------------------
(* The user, the network and the clock.                                     *)

(* A tap that disconnects, whatever it does to the view.                    *)
LEMMA DisconnectKeepsIInv ==
    ASSUME IInv, SessionDisconnect(mainq),
           UNCHANGED <<context, call, sleepers, reconnectAttempt, errorMessage, retries>>,
           view' \in {"shown", "leaving", "gone"}
    PROVE  IInv'
<1> USE DEF IInv
<1>1. mainq' \in Seq(Job)
  BY PostedType, ContextDisconnectType DEF SessionDisconnect, TypeOK
<1>2. /\ loop' \in [Call -> EventLoop]
      /\ eventLoopTask' \in Call \cup {NoCall}
      /\ timers' \subseteq Call
      /\ statisticsTimer' \in Call \cup {NoCall}
      /\ \A k \in Call : loop'[k].ctx = loop[k].ctx
  BY StopEventLoopType, StopStatisticsTimerType DEF SessionDisconnect
<1>3. bridge' \in Table /\ SameLives(bridge, bridge')
  BY ContextDisconnectType DEF SessionDisconnect
<1>4. state' \in SessionState
  BY DEF SessionDisconnect, SessionState
<1>5. TypeOK'
  BY <1>1, <1>2, <1>3, <1>4 DEF TypeOK, BridgeTypeOK, Table
<1> QED
  BY <1>2, <1>3, <1>5, OwnershipKept

(* Whatever the user taps, and a connection that is lost.                   *)
LEMMA EnvironmentKeepsIInv == IInv /\ Environment => IInv'
<1> SUFFICES ASSUME IInv, Environment PROVE IInv'
  OBVIOUS
<1> USE DEF IInv
<1>1. CASE ToolbarDisconnect
  BY <1>1, DisconnectKeepsIInv DEF ToolbarDisconnect, viewVars, TypeOK
<1>2. CASE DisconnectAndDismiss
  BY <1>2, DisconnectKeepsIInv DEF DisconnectAndDismiss
<1>3. CASE OnDisappear
  BY <1>3, DisconnectKeepsIInv DEF OnDisappear
<1>4. CASE TapRetry
  <2>1. Plain("retry") \in Job
    BY DEF Plain, Job
  <2>2. mainq' \in Seq(Job)
    BY <1>4, <2>1, AppendType DEF TapRetry, TypeOK
  <2>3. retries' \in 0..MaxRetries
    BY <1>4, RetriesAssumption DEF TapRetry, TypeOK
  <2>4. /\ errorMessage' = FALSE
        /\ UNCHANGED <<bridge, context, call, loop, sleepers, sessionVars, view>>
    BY <1>4 DEF TapRetry
  <2>5. TypeOK'
    BY <2>2, <2>3, <2>4 DEF TypeOK, BridgeTypeOK, sessionVars
  <2> QED
    BY <2>4, <2>5, OwnershipKept DEF SameLives
<1>5. ASSUME NEW c \in Context, ConnectionLost(c) PROVE IInv'
  <2>1. bridge' \in Table /\ SameLives(bridge, bridge')
    BY <1>5, LivesKept DEF ConnectionLost, TypeOK, BridgeTypeOK, Table
  <2>2. UNCHANGED <<context, call, loop, mainq, sleepers, sessionVars, viewVars>>
    BY <1>5 DEF ConnectionLost
  <2>3. TypeOK'
    BY <2>1, <2>2 DEF TypeOK, BridgeTypeOK, Table, sessionVars, viewVars
  <2> QED
    BY <2>1, <2>2, <2>3, OwnershipKept
<1> QED
  BY <1>1, <1>2, <1>3, <1>4, <1>5 DEF Environment

(* A reconnect task whose delay is over only queues itself.                 *)
LEMMA SleepOverKeepsIInv == IInv /\ SleepOver => IInv'
<1> SUFFICES ASSUME IInv, SleepOver PROVE IInv'
  OBVIOUS
<1> USE DEF IInv
<1>1. Plain("wake") \in Job
  BY DEF Plain, Job
<1>2. mainq' \in Seq(Job)
  BY <1>1, AppendType DEF SleepOver, TypeOK
<1>3. sleepers' \in Nat
  BY DEF SleepOver, TypeOK
<1>4. UNCHANGED <<bridge, context, call, loop, sessionVars, viewVars>>
  BY DEF SleepOver
<1>5. TypeOK'
  BY <1>2, <1>3, <1>4 DEF TypeOK, BridgeTypeOK, sessionVars, viewVars
<1> QED
  BY <1>4, <1>5, OwnershipKept DEF SameLives

(* No step of any actor breaks the inductive invariant.                     *)
LEMMA StepKeepsIInv == IInv /\ [Next]_vars => IInv'
<1> SUFFICES ASSUME IInv, [Next]_vars PROVE IInv'
  OBVIOUS
<1>1. CASE MainActor
  BY <1>1, MainActorKeepsIInv
<1>2. CASE SleepOver
  BY <1>2, SleepOverKeepsIInv
<1>3. CASE \E k \in Call : ConnectThread(k) \/ EventLoopThread(k)
  BY <1>3, ConnectThreadKeepsIInv, EventLoopKeepsIInv
<1>4. CASE Environment
  BY <1>4, EnvironmentKeepsIInv
<1>5. CASE UNCHANGED vars
  BY <1>5 DEF IInv, TypeOK, BridgeTypeOK, ContextOwned, ThreadsUseBorn, vars,
              sessionVars, viewVars
<1> QED
  BY <1>1, <1>2, <1>3, <1>4, <1>5 DEF Next

----------------------------------------------------------------------------
(* Type correctness and ownership.                                          *)

(* The inductive invariant holds of every behaviour.                        *)
LEMMA Invariance == Spec => []IInv
  BY InitIInv, StepKeepsIInv, PTL DEF Spec

(* Every variable keeps its type: no step takes a job that is not there or  *)
(* makes a call, a loop or a timer the session has no identity for.         *)
THEOREM TypeCorrectness == Spec => []TypeOK
<1>1. IInv => TypeOK
  BY DEF IInv
<1> QED
  BY <1>1, Invariance, PTL

(* FreeRDPContext.context is the one context that is live, however connects, *)
(* reconnects and disconnects interleave.                                    *)
THEOREM Ownership == Spec => []ContextOwned
<1>1. IInv => ContextOwned
  BY DEF IInv
<1> QED
  BY <1>1, Invariance, PTL

----------------------------------------------------------------------------
(* The session implements the owner of a native resource.                   *)

(* A step that keeps the pointer and every life is none of the owner's.     *)
LEMMA Stutters ==
    ASSUME SameLives(bridge, bridge'), context' = context
    PROVE  UNCHANGED Lifetime!vars
  BY DEF SameLives, Lifetime!vars

(* performConnect creates a context when the wrapper has none.              *)
LEMMA PerformConnectCreates ==
    ASSUME IInv, NEW by, NEW b \in Table, SameLives(bridge, b), NEW e,
           PerformConnect(by, b, e)
    PROVE  Lifetime!Create \/ UNCHANGED Lifetime!vars
<1>1. CASE bridge' = b /\ context' = context
  BY <1>1, Stutters
<1>2. CASE ~(bridge' = b /\ context' = context)
  <2> DEFINE c == NextUnborn(b)
  <2>1. /\ ~HasContext /\ Unborn(b) # {}
        /\ context' = c /\ bridge' = Created(b, c)
    BY <1>2 DEF PerformConnect
  <2>2. c \in Context /\ b[c].life = "unborn"
    BY <2>1, NextUnbornType
  <2> HIDE DEF c
  <2>3. /\ bridge'[c].life = "live"
        /\ \A d \in Context \ {c} : bridge'[d].life = b[d].life
    BY <2>1, <2>2, LivesChanged
  <2>4. \A d \in Context : bridge'[d].life = "freed" <=> bridge[d].life = "freed"
    BY <2>2, <2>3 DEF SameLives
  <2>5. context = NoContext
    BY <2>1 DEF HasContext
  <2>6. bridge[c].life # "freed"
    BY <2>2 DEF SameLives
  <2>7. {d \in Context : bridge'[d].life = "freed"} = {d \in Context : bridge[d].life = "freed"}
    BY <2>4
  <2>8. context' \in Context \ {d \in Context : bridge[d].life = "freed"}
    BY <2>1, <2>2, <2>6
  <2> QED
    BY <2>5, <2>7, <2>8 DEF Lifetime!Create
<1> QED
  BY <1>1, <1>2

(* The reconnect task destroys the context the wrapper has.                 *)
LEMMA ReconnectDestroys ==
    ASSUME IInv, NEW i \in Ready, ReconnectTask(i)
    PROVE  Lifetime!Destroy \/ UNCHANGED Lifetime!vars
<1>1. bridge \in Table /\ context \in Context \cup {NoContext}
  BY DEF IInv, TypeOK, BridgeTypeOK, Table
<1>2. context' = NoContext
  BY DEF ReconnectTask, PointerAfterDestroy
<1>3. CASE context = NoContext
  <2>1. SameLives(bridge, bridge') /\ context' = context
    BY <1>2, <1>3 DEF ReconnectTask, SameLives
  <2> QED
    BY <2>1, Stutters
<1>4. CASE context \in Context
  <2> DEFINE b == Disconnected(bridge, context)
  <2>1. b \in Table /\ SameLives(bridge, b)
    BY <1>1, <1>4, LivesKept
  <2>2. bridge' = Destroyed(b, context)
    BY <1>4, NoContextAssumption DEF ReconnectTask
  <2> HIDE DEF b
  <2>3. /\ bridge'[context].life = "freed"
        /\ \A d \in Context \ {context} : bridge'[d].life = b[d].life
    <3>1. /\ Destroyed(b, context)[context].life = "freed"
          /\ \A d \in Context \ {context} : Destroyed(b, context)[d].life = b[d].life
      BY <1>4, <2>1, LivesChanged
    <3> QED
      BY <2>2, <3>1
  <2>4. \A d \in Context \ {context} : bridge'[d].life = bridge[d].life
    BY <2>1, <2>3 DEF SameLives
  <2>5. {d \in Context : bridge'[d].life = "freed"}
            = {d \in Context : bridge[d].life = "freed"} \cup {context}
    BY <1>4, <2>3, <2>4
  <2> QED
    BY <1>2, <1>4, <2>5, NoContextAssumption DEF Lifetime!Destroy
<1> QED
  BY <1>1, <1>3, <1>4

(* A context is destroyed by the reconnect task and by nothing else: every  *)
(* other step creates one or leaves the owner's state alone.                *)
LEMMA OnlyReconnectDestroys ==
    ASSUME IInv, [Next]_vars
    PROVE  \/ \E i \in Ready : ReconnectTask(i)
           \/ Lifetime!Create
           \/ UNCHANGED Lifetime!vars
<1>1. bridge \in Table /\ SameLives(bridge, bridge)
  BY DEF IInv, TypeOK, BridgeTypeOK, Table, SameLives
<1>2. SameLives(bridge, ContextDisconnected) /\ ContextDisconnected \in Table
  BY ContextDisconnectType DEF IInv
<1>3. CASE UNCHANGED <<bridge, context>>
  BY <1>1, <1>3, Stutters
<1>4. CASE MainActor
  <2>1. PICK i \in Ready :
            \/ DeliverNotification(i)
            \/ HandleNotification(i)
            \/ ViewModelConnect(i)
            \/ ViewModelReconnect(i)
            \/ PerformConnectResumed(i)
            \/ ReconnectTask(i)
            \/ ReconnectTaskWakes(i)
    BY <1>4 DEF MainActor
  <2>2. CASE DeliverNotification(i) \/ HandleNotification(i) \/ PerformConnectResumed(i)
    BY <1>3, <2>2 DEF DeliverNotification, HandleNotification, PerformConnectResumed
  <2>3. CASE ViewModelConnect(i)
    BY <1>1, <1>3, <2>3, PerformConnectCreates DEF ViewModelConnect
  <2>4. CASE ViewModelReconnect(i)
    BY <1>2, <2>4, PerformConnectCreates DEF ViewModelReconnect
  <2>5. CASE ReconnectTask(i)
    BY <2>5
  <2>6. CASE ReconnectTaskWakes(i)
    BY <1>1, <2>6, PerformConnectCreates DEF ReconnectTaskWakes
  <2> QED
    BY <2>1, <2>2, <2>3, <2>4, <2>5, <2>6
<1>5. CASE SleepOver
  BY <1>3, <1>5 DEF SleepOver
<1>6. ASSUME NEW k \in Call, ConnectThread(k) PROVE UNCHANGED Lifetime!vars
  <2>1. call[k].ctx \in Context
    BY <1>6 DEF IInv, ThreadsUseBorn, Running, ConnectThread, ConnectStarts,
       PostConnect, PostConnectNotifies, ConnectSucceeds, ConnectFailsEarly, ConnectFailsLate
  <2>2. SameLives(bridge, bridge') /\ context' = context
    BY <1>1, <1>6, <2>1, LivesKept DEF ConnectThread, ConnectStarts, PostConnect, PostConnectNotifies,
       ConnectSucceeds, ConnectFailsEarly, ConnectFailsLate, ConnectThreadFrame
  <2> QED
    BY <2>2, Stutters
<1>7. ASSUME NEW k \in Call, EventLoopThread(k) PROVE UNCHANGED <<bridge, context>>
  BY <1>7 DEF EventLoopThread, LoopTop, ProcessEventsReturns, LoopFrame
<1>8. CASE Environment
  <2>1. CASE SessionDisconnect(mainq) /\ UNCHANGED context
    BY <1>2, <2>1, Stutters DEF SessionDisconnect
  <2>2. ASSUME NEW c \in Context, ConnectionLost(c) PROVE UNCHANGED Lifetime!vars
    BY <1>1, <2>2, LivesKept, Stutters DEF ConnectionLost
  <2> QED
    BY <1>3, <1>8, <2>1, <2>2 DEF Environment, ToolbarDisconnect,
       DisconnectAndDismiss, OnDisappear, TapRetry
<1>9. CASE UNCHANGED vars
  BY <1>3, <1>9 DEF vars
<1> QED
  BY <1>3, <1>4, <1>5, <1>6, <1>7, <1>8, <1>9 DEF Next

(* Every step is one of the owner's steps or none.                          *)
LEMMA StepRefines == IInv /\ [Next]_vars => [Lifetime!Next]_(Lifetime!vars)
  BY OnlyReconnectDestroys, ReconnectDestroys DEF Lifetime!Next

(* The wrapper handles its contexts as ContextLifetime says: it never makes *)
(* a second one, never loses one and never frees one twice.                 *)
THEOREM LifetimeRefinement == Spec => LifetimeSpec
<1>1. Init => Lifetime!Init
  BY DEF Init, BridgeInit, Lifetime!Init
<1>2. IInv /\ [Next]_vars => [Lifetime!Next]_(Lifetime!vars)
  BY StepRefines
<1> QED
  BY <1>1, <1>2, Invariance, PTL DEF Spec, LifetimeSpec, Lifetime!Spec

----------------------------------------------------------------------------
(* Without automatic reconnection no context is destroyed under a thread.   *)

(* No job of q is of this kind.                                             *)
Lacks(q, kind) == \A j \in DOMAIN q : q[j].kind # kind

(* What is appended or posted to a queue without a kind of task leaves it   *)
(* without one, unless it is one.                                           *)
LEMMA LacksKept ==
    ASSUME NEW q \in Seq(Job), NEW kind \in {"reconnect", "appear", "wake", "retry"},
           Lacks(q, kind)
    PROVE  /\ \A x \in Job : x.kind # kind => Lacks(Append(q, x), kind)
           /\ \A notes \in Seq(Notification) : Lacks(Posted(q, notes), kind)
<1>1. ASSUME NEW x \in Job, x.kind # kind PROVE Lacks(Append(q, x), kind)
  BY <1>1 DEF Lacks
<1>2. ASSUME NEW notes \in Seq(Notification) PROVE Lacks(Posted(q, notes), kind)
  <2> DEFINE tasks == [i \in DOMAIN notes |-> Deliver(notes[i])]
  <2>1. Len(notes) \in Nat /\ DOMAIN notes = 1..Len(notes)
    OBVIOUS
  <2>2. \A n \in Notification : Deliver(n) \in Job /\ Deliver(n).kind = "deliver"
    BY DEF Deliver, Job
  <2>3. tasks \in [1..Len(notes) -> Job]
    BY <2>1, <2>2
  <2>4. tasks \in Seq(Job)
    BY <2>1, <2>3
  <2>5. Lacks(tasks, kind)
    BY <2>2 DEF Lacks
  <2> HIDE DEF tasks
  <2>6. Lacks(q \o tasks, kind)
    BY <2>4, <2>5 DEF Lacks
  <2> QED
    BY <2>6 DEF Posted, tasks
<1> QED
  BY <1>1, <1>2

(* No context has been freed, and none is about to be.                      *)
NothingFreed ==
    /\ \A c \in Context : bridge[c].life # "freed"
    /\ Lacks(mainq, "reconnect")

(* No step puts the view's task in the queue, none a reconnect task without *)
(* automatic reconnection, only the end of a sleep a task that wakes, and   *)
(* only the user a retry.                                                   *)
LEMMA QueueStaysWithout ==
    ASSUME NEW kind \in {"reconnect", "appear", "wake", "retry"},
           kind = "reconnect" => ~AutoReconnect,
           kind = "wake" => ~SleepOver,
           kind = "retry" => ~TapRetry,
           IInv, Lacks(mainq, kind), [Next]_vars
    PROVE  Lacks(mainq', kind)
<1>1. mainq \in Seq(Job)
  BY DEF IInv, TypeOK
<1>2. \A x \in Job : x.kind # kind => Lacks(Append(mainq, x), kind)
  BY <1>1, LacksKept
<1>3. \A notes \in Seq(Notification) : Lacks(Posted(mainq, notes), kind)
  BY <1>1, LacksKept
<1>4. ContextDisconnectPosts \in Seq(Notification)
  BY ContextDisconnectType DEF IInv
<1>5. CASE mainq' = mainq
  BY <1>5
<1>6. CASE MainActor
  <2>1. PICK i \in Ready :
            \/ DeliverNotification(i)
            \/ HandleNotification(i)
            \/ ViewModelConnect(i)
            \/ ViewModelReconnect(i)
            \/ PerformConnectResumed(i)
            \/ ReconnectTask(i)
            \/ ReconnectTaskWakes(i)
    BY <1>6 DEF MainActor
  <2> DEFINE q == Without(i)
  <2>2. /\ i \in DOMAIN mainq
        /\ mainq[i] \in Job
        /\ q \in Seq(Job)
        /\ \A j \in DOMAIN q : \E h \in DOMAIN mainq : q[j] = mainq[h]
    BY <1>1, WithoutType
  <2> HIDE DEF q
  <2>3. Lacks(q, kind)
    BY <2>2 DEF Lacks
  <2>5. CASE DeliverNotification(i)
    <3>1. mainq[i].note \in Notification
      BY <2>2, <2>5 DEF DeliverNotification, Job
    <3>2. Handle(mainq[i].note) \in Job /\ Handle(mainq[i].note).kind = "handle"
      BY <3>1 DEF Handle, Job
    <3> QED
      BY <2>2, <2>3, <2>5, <3>2, LacksKept DEF DeliverNotification, q
  <2>6. CASE HandleNotification(i)
    <3>1. mainq' = q \/ (MayReconnect /\ mainq' = Append(q, Plain("reconnect")))
      BY <2>6 DEF HandleNotification, HandleDisconnection, q
    <3>2. Plain("reconnect") \in Job /\ Plain("reconnect").kind = "reconnect"
      BY DEF Plain, Job
    <3> QED
      BY <2>2, <2>3, <3>1, <3>2, LacksKept DEF MayReconnect
  <2>7. CASE ViewModelConnect(i) \/ PerformConnectResumed(i) \/ ReconnectTaskWakes(i)
    BY <2>3, <2>7 DEF ViewModelConnect, PerformConnectResumed, ReconnectTaskWakes, q
  <2>8. CASE ViewModelReconnect(i)
    BY <1>4, <2>2, <2>3, <2>8, LacksKept DEF ViewModelReconnect, q
  <2>9. CASE ReconnectTask(i)
    BY <1>4, <2>2, <2>3, <2>9, LacksKept DEF ReconnectTask, q
  <2> QED
    BY <2>1, <2>5, <2>6, <2>7, <2>8, <2>9
<1>7. CASE SleepOver
  <2>1. Plain("wake") \in Job /\ Plain("wake").kind = "wake"
    BY DEF Plain, Job
  <2> QED
    BY <1>2, <1>7, <2>1 DEF SleepOver
<1>8. ASSUME NEW k \in Call, ConnectThread(k) PROVE Lacks(mainq', kind)
  <2>1. \A ok \in BOOLEAN : Resume(k, ok) \in Job /\ Resume(k, ok).kind = "resume"
    BY DEF Resume, Job
  <2>2. CASE ConnectStarts(k) \/ PostConnectNotifies(k)
    <3>1. PICK n \in Notification : mainq' = Posted(mainq, <<n>>)
      BY <2>2 DEF ConnectStarts, PostConnectNotifies, Notification
    <3>2. <<n>> \in Seq(Notification)
      OBVIOUS
    <3> QED
      BY <1>3, <3>1, <3>2
  <2>3. CASE ConnectSucceeds(k)
    BY <1>2, <2>1, <2>3 DEF ConnectSucceeds
  <2>4. CASE ConnectFailsEarly(k) \/ ConnectFailsLate(k)
    <3>1. PICK notes \in {<<>>, <<"disconnected">>} : FailurePosts(k, notes)
      BY <2>4 DEF ConnectFailsEarly, ConnectFailsLate, DisconnectPosts
    <3>2. Append(notes, "error") \in Seq(Notification)
      <4>1. /\ <<>> \in Seq(Notification) /\ <<"disconnected">> \in Seq(Notification)
            /\ "error" \in Notification
        BY DEF Notification
      <4>2. notes \in Seq(Notification)
        BY <3>1, <4>1
      <4> QED
        BY <4>1, <4>2, AppendType
    <3> DEFINE q == Posted(mainq, Append(notes, "error"))
    <3>3. q \in Seq(Job) /\ Lacks(q, kind)
      BY <1>1, <1>3, <3>2, PostedType
    <3>4. mainq' = Append(q, Resume(k, FALSE))
      BY <3>1 DEF FailurePosts
    <3> HIDE DEF q
    <3> QED
      BY <2>1, <3>3, <3>4, LacksKept
  <2>5. CASE PostConnect(k)
    BY <1>2, <2>5 DEF PostConnect
  <2> QED
    BY <1>8, <2>2, <2>3, <2>4, <2>5 DEF ConnectThread
<1>9. ASSUME NEW k \in Call, EventLoopThread(k) PROVE mainq' = mainq
  BY <1>9 DEF EventLoopThread, LoopTop, ProcessEventsReturns, LoopFrame
<1>10. CASE Environment
  <2>1. CASE SessionDisconnect(mainq)
    BY <1>3, <1>4, <2>1 DEF SessionDisconnect
  <2>2. CASE TapRetry
    <3>1. Plain("retry") \in Job /\ Plain("retry").kind = "retry"
      BY DEF Plain, Job
    <3> QED
      BY <1>2, <2>2, <3>1 DEF TapRetry
  <2>3. CASE \E c \in Context : ConnectionLost(c)
    BY <1>5, <2>3 DEF ConnectionLost
  <2> QED
    BY <1>10, <2>1, <2>2, <2>3 DEF Environment, ToolbarDisconnect,
       DisconnectAndDismiss, OnDisappear
<1>11. CASE UNCHANGED vars
  BY <1>5, <1>11 DEF vars
<1> QED
  BY <1>5, <1>6, <1>7, <1>8, <1>9, <1>10, <1>11 DEF Next

(* Without automatic reconnection no step frees a context.                  *)
LEMMA StepKeepsNothingFreed ==
    ASSUME ~AutoReconnect, IInv, NothingFreed, [Next]_vars
    PROVE  NothingFreed'
<1>1. \A i \in Ready : ~ReconnectTask(i)
  <2> SUFFICES ASSUME NEW i \in Ready PROVE mainq[i].kind # "reconnect"
    BY DEF ReconnectTask
  <2> QED
    BY DEF Ready, NothingFreed, Lacks
<1>2. Lifetime!Create \/ UNCHANGED Lifetime!vars
  BY <1>1, OnlyReconnectDestroys
<1>3. {c \in Context : bridge'[c].life = "freed"} = {c \in Context : bridge[c].life = "freed"}
  BY <1>2 DEF Lifetime!Create, Lifetime!vars
<1>4. Lacks(mainq', "reconnect")
  BY QueueStaysWithout DEF NothingFreed
<1> QED
  BY <1>3, <1>4 DEF NothingFreed

LEMMA NothingFreedInvariance ==
    ASSUME ~AutoReconnect
    PROVE  Spec => []NothingFreed
<1>1. Init => NothingFreed
  <2> SUFFICES ASSUME Init PROVE NothingFreed
    OBVIOUS
  <2>1. mainq = <<Plain("appear")>> /\ Plain("appear").kind # "reconnect"
    BY DEF Init, Plain
  <2>2. Lacks(mainq, "reconnect")
    BY <2>1 DEF Lacks
  <2> QED
    BY <2>2 DEF Init, BridgeInit, NothingFreed
<1>2. IInv /\ NothingFreed /\ [Next]_vars => NothingFreed'
  BY StepKeepsNothingFreed
<1> QED
  BY <1>1, <1>2, Invariance, PTL DEF Spec

(* With config.autoReconnect off, no background thread is ever inside, or   *)
(* about to enter, a C call on a freed context: whatever the user does and  *)
(* in whatever order the tasks run.                                         *)
THEOREM NoUseAfterDestroyWithoutAutoReconnect ==
    ASSUME ~AutoReconnect
    PROVE  Spec => []NoUseAfterDestroy
<1>1. IInv /\ NothingFreed => NoUseAfterDestroy
  <2> SUFFICES ASSUME IInv, NothingFreed, NEW c \in Context,
                      NEW k \in ConnectsOn(c) \cup LoopsOn(c)
               PROVE  bridge[c].life = "live"
    BY DEF NoUseAfterDestroy
  <2>1. k \in Call /\ (call[k].ctx = c \/ loop[k].ctx = c)
    BY DEF ConnectsOn, LoopsOn
  <2>2. bridge[c].life # "unborn"
    BY <2>1 DEF IInv, ThreadsUseBorn
  <2>3. bridge[c].life \in Life
    BY DEF IInv, TypeOK, BridgeTypeOK, ViDeskContext
  <2> QED
    BY <2>2, <2>3 DEF Life, NothingFreed
<1> QED
  BY <1>1, Invariance, NothingFreedInvariance, PTL

----------------------------------------------------------------------------
(* The queue more closely, for the modules that extend this one.            *)

(* The jobs the session makes are jobs.                                     *)
LEMMA JobsMade ==
    /\ \A n \in Notification :
          /\ Deliver(n) \in Job /\ Deliver(n).kind = "deliver" /\ Deliver(n).note = n
          /\ Handle(n) \in Job /\ Handle(n).kind = "handle" /\ Handle(n).note = n
    /\ \A k \in Call, ok \in BOOLEAN :
          /\ Resume(k, ok) \in Job /\ Resume(k, ok).kind = "resume"
          /\ Resume(k, ok).call = k /\ Resume(k, ok).ok = ok
    /\ \A x \in {"reconnect", "wake", "appear", "retry"} :
          Plain(x) \in Job /\ Plain(x).kind = x
  BY DEF Deliver, Handle, Resume, Plain, Job

(* The jobs that are not tasks of a notification: the session's own.        *)
LEMMA JobKinds ==
    ASSUME NEW x \in Job
    PROVE  \/ x.kind \in {"deliver", "handle"} /\ x.note \in Notification
           \/ x.kind \in {"resume", "reconnect", "wake", "appear", "retry"}
  BY DEF Job

(* Posting notifications appends their tasks one by one.                    *)
LEMMA PostedIsAppended ==
    ASSUME NEW q \in Seq(Job)
    PROVE  /\ Posted(q, <<>>) = q
           /\ \A n \in Notification : Posted(q, <<n>>) = Append(q, Deliver(n))
           /\ \A m, n \in Notification :
                 Posted(q, <<m, n>>) = Append(Append(q, Deliver(m)), Deliver(n))
<1>1. Posted(q, <<>>) = q
  <2>1. [i \in DOMAIN <<>> |-> Deliver((<<>>)[i])] = <<>>
    OBVIOUS
  <2> QED
    BY <2>1 DEF Posted
<1>2. ASSUME NEW n \in Notification PROVE Posted(q, <<n>>) = Append(q, Deliver(n))
  <2>1. [i \in DOMAIN <<n>> |-> Deliver((<<n>>)[i])] = <<Deliver(n)>>
    OBVIOUS
  <2>2. Deliver(n) \in Job
    BY JobsMade
  <2>3. q \o <<Deliver(n)>> = Append(q, Deliver(n))
    BY <2>2
  <2> QED
    BY <2>1, <2>3 DEF Posted
<1>3. ASSUME NEW m \in Notification, NEW n \in Notification
      PROVE  Posted(q, <<m, n>>) = Append(Append(q, Deliver(m)), Deliver(n))
  <2>1. [i \in DOMAIN <<m, n>> |-> Deliver((<<m, n>>)[i])] = <<Deliver(m), Deliver(n)>>
    OBVIOUS
  <2>2. Deliver(m) \in Job /\ Deliver(n) \in Job
    BY JobsMade
  <2>3. q \o <<Deliver(m), Deliver(n)>> = Append(Append(q, Deliver(m)), Deliver(n))
    BY <2>2
  <2> QED
    BY <2>1, <2>3 DEF Posted
<1> QED
  BY <1>1, <1>2, <1>3

(* Disconnecting the wrapper's context appends one task, if it was          *)
(* connected.                                                               *)
LEMMA DisconnectAppends ==
    ASSUME TypeOK, NEW q \in Seq(Job)
    PROVE  Posted(q, ContextDisconnectPosts) =
              IF context # NoContext /\ bridge[context].isConnected
              THEN Append(q, Deliver("disconnected")) ELSE q
<1>1. ContextDisconnectPosts =
          IF context # NoContext /\ bridge[context].isConnected
          THEN <<"disconnected">> ELSE <<>>
  BY DEF ContextDisconnectPosts, DisconnectPosts
<1>2. "disconnected" \in Notification
  BY DEF Notification
<1> QED
  BY <1>1, <1>2, PostedIsAppended

(* The first two appends to an empty sequence.                              *)
LEMMA AppendToShort ==
    ASSUME NEW S, NEW x \in S, NEW y \in S
    PROVE  Append(<<>>, x) = <<x>> /\ Append(<<x>>, y) = <<x, y>>
<1>1. <<>> \in Seq(S) /\ <<x>> \in Seq(S) /\ <<x, y>> \in Seq(S)
  OBVIOUS
<1>2. Append(<<>>, x) \in Seq(S) /\ Len(Append(<<>>, x)) = 1 /\ Append(<<>>, x)[1] = x
  BY <1>1
<1>3. Append(<<>>, x) = <<x>>
  BY <1>1, <1>2
<1>4. Len(<<x>>) = 1
  OBVIOUS
<1>5. Append(<<x>>, y) = [i \in 1..2 |-> IF i = 2 THEN y ELSE x]
  BY <1>1, <1>4
<1>6. <<x, y>> = [i \in 1..2 |-> IF i = 2 THEN y ELSE x]
  OBVIOUS
<1> QED
  BY <1>3, <1>5, <1>6

(* A connect that fails appends its error and its answer, after what the    *)
(* disconnection it causes appends.                                         *)
LEMMA FailureAppends ==
    ASSUME TypeOK, NEW k \in Call, NEW notes, FailurePosts(k, notes)
    PROVE  /\ notes = <<>> => mainq' = Append(Append(mainq, Deliver("error")), Resume(k, FALSE))
           /\ notes = <<"disconnected">> =>
                 mainq' = Append(Append(Append(mainq, Deliver("disconnected")),
                                        Deliver("error")), Resume(k, FALSE))
<1>1. "disconnected" \in Notification /\ "error" \in Notification /\ mainq \in Seq(Job)
  BY DEF TypeOK, Notification
<1>2. mainq' = Append(Posted(mainq, Append(notes, "error")), Resume(k, FALSE))
  BY DEF FailurePosts
<1>3. ASSUME notes = <<>>
      PROVE  mainq' = Append(Append(mainq, Deliver("error")), Resume(k, FALSE))
  <2>1. Append(notes, "error") = <<"error">>
    BY <1>1, <1>3, AppendToShort
  <2>2. Posted(mainq, <<"error">>) = Append(mainq, Deliver("error"))
    BY <1>1, PostedIsAppended
  <2> QED
    BY <1>2, <2>1, <2>2
<1>4. ASSUME notes = <<"disconnected">>
      PROVE  mainq' = Append(Append(Append(mainq, Deliver("disconnected")),
                                    Deliver("error")), Resume(k, FALSE))
  <2>1. Append(notes, "error") = <<"disconnected", "error">>
    BY <1>1, <1>4, AppendToShort
  <2>2. Posted(mainq, <<"disconnected", "error">>) =
            Append(Append(mainq, Deliver("disconnected")), Deliver("error"))
    BY <1>1, PostedIsAppended
  <2> QED
    BY <1>2, <2>1, <2>2
<1> QED
  BY <1>3, <1>4

(* Where the j-th job was before the i-th was taken.                        *)
From(i, j) == IF j < i THEN j ELSE j + 1

(* Taking the i-th job leaves each of the others, once.                     *)
LEMMA WithoutIs ==
    ASSUME mainq \in Seq(Job), NEW i \in Ready
    PROVE  /\ i \in 1..Len(mainq) /\ Len(mainq) \in Nat /\ DOMAIN mainq = 1..Len(mainq)
           /\ DOMAIN Without(i) = 1..(Len(mainq) - 1)
           /\ \A j \in DOMAIN Without(i) :
                 From(i, j) \in DOMAIN mainq \ {i} /\ Without(i)[j] = mainq[From(i, j)]
           /\ \A h \in DOMAIN mainq \ {i} : \E j \in DOMAIN Without(i) : From(i, j) = h
           /\ \A j, h \in DOMAIN Without(i) : From(i, j) = From(i, h) => j = h
<1>1. i \in 1..Len(mainq) /\ Len(mainq) \in Nat /\ DOMAIN mainq = 1..Len(mainq)
  BY DEF Ready
<1>2. DOMAIN Without(i) = 1..(Len(mainq) - 1)
  BY DEF Without
<1>3. \A j \in DOMAIN Without(i) :
          From(i, j) \in DOMAIN mainq \ {i} /\ Without(i)[j] = mainq[From(i, j)]
  BY <1>1, <1>2 DEF Without, From
<1>4. ASSUME NEW h \in DOMAIN mainq \ {i}
      PROVE  \E j \in DOMAIN Without(i) : From(i, j) = h
  <2> DEFINE j == IF h < i THEN h ELSE h - 1
  <2>1. j \in 1..(Len(mainq) - 1) /\ From(i, j) = h
    BY <1>1, <1>4 DEF From
  <2> QED
    BY <1>2, <2>1
<1>5. \A j, h \in DOMAIN Without(i) : From(i, j) = From(i, h) => j = h
  BY <1>1, <1>2 DEF From
<1> QED
  BY <1>1, <1>2, <1>3, <1>4, <1>5

(* Appending a job keeps the others where they are.                         *)
LEMMA AppendIs ==
    ASSUME NEW q \in Seq(Job), NEW x \in Job
    PROVE  /\ Len(q) \in Nat /\ DOMAIN q = 1..Len(q)
           /\ Append(q, x) \in Seq(Job)
           /\ DOMAIN Append(q, x) = 1..(Len(q) + 1)
           /\ \A j \in 1..Len(q) : Append(q, x)[j] = q[j]
           /\ Append(q, x)[Len(q) + 1] = x
  OBVIOUS

(* What each step does to the queue.                                        *)
LEMMA MainActorAppends ==
    ASSUME TypeOK, NEW i \in Ready
    PROVE  /\ DeliverNotification(i) =>
                 /\ mainq[i].kind = "deliver" /\ mainq[i].note \in Notification
                 /\ mainq' = Append(Without(i), Handle(mainq[i].note))
           /\ HandleNotification(i) =>
                 /\ mainq[i].kind = "handle" /\ mainq[i].note \in Notification
                 /\ mainq' = Without(i)
                    \/ (MayReconnect /\ mainq[i].note = "disconnected"
                        /\ mainq' = Append(Without(i), Plain("reconnect")))
           /\ ViewModelConnect(i) => mainq[i].kind = "appear" /\ mainq' = Without(i)
           /\ PerformConnectResumed(i) => mainq[i].kind = "resume" /\ mainq' = Without(i)
           /\ ReconnectTaskWakes(i) => mainq[i].kind = "wake" /\ mainq' = Without(i)
           /\ ViewModelReconnect(i) \/ ReconnectTask(i) =>
                 /\ mainq[i].kind \in {"retry", "reconnect"}
                 /\ mainq' = IF context # NoContext /\ bridge[context].isConnected
                             THEN Append(Without(i), Deliver("disconnected")) ELSE Without(i)
<1>1. mainq \in Seq(Job)
  BY DEF TypeOK
<1>2. Without(i) \in Seq(Job) /\ mainq[i] \in Job
  BY <1>1, WithoutType
<1>3. mainq[i].kind \in {"deliver", "handle"} => mainq[i].note \in Notification
  BY <1>2 DEF Job
<1>4. Posted(Without(i), ContextDisconnectPosts) =
          IF context # NoContext /\ bridge[context].isConnected
          THEN Append(Without(i), Deliver("disconnected")) ELSE Without(i)
  BY <1>2, DisconnectAppends
<1>5. DeliverNotification(i) =>
          mainq[i].kind = "deliver" /\ mainq' = Append(Without(i), Handle(mainq[i].note))
  BY DEF DeliverNotification
<1>6. HandleNotification(i) =>
          /\ mainq[i].kind = "handle"
          /\ mainq' = Without(i)
             \/ (MayReconnect /\ mainq[i].note = "disconnected"
                 /\ mainq' = Append(Without(i), Plain("reconnect")))
  BY DEF HandleNotification, HandleDisconnection
<1>7. /\ ViewModelConnect(i) => mainq[i].kind = "appear" /\ mainq' = Without(i)
      /\ PerformConnectResumed(i) => mainq[i].kind = "resume" /\ mainq' = Without(i)
      /\ ReconnectTaskWakes(i) => mainq[i].kind = "wake" /\ mainq' = Without(i)
  BY DEF ViewModelConnect, PerformConnectResumed, ReconnectTaskWakes
<1>8. ViewModelReconnect(i) \/ ReconnectTask(i) =>
          /\ mainq[i].kind \in {"retry", "reconnect"}
          /\ mainq' = Posted(Without(i), ContextDisconnectPosts)
  BY DEF ViewModelReconnect, ReconnectTask
<1> QED
  BY <1>3, <1>4, <1>5, <1>6, <1>7, <1>8

LEMMA ConnectThreadAppends ==
    ASSUME TypeOK, NEW k \in Call
    PROVE  /\ ConnectStarts(k) => mainq' = Append(mainq, Deliver("connecting"))
           /\ PostConnect(k) => mainq' = mainq
           /\ PostConnectNotifies(k) => mainq' = Append(mainq, Deliver("connected"))
           /\ ConnectSucceeds(k) => mainq' = Append(mainq, Resume(k, TRUE))
           /\ ConnectFailsEarly(k) =>
                 \E q \in {mainq, Append(mainq, Deliver("disconnected"))} :
                    mainq' = Append(Append(q, Deliver("error")), Resume(k, FALSE))
           /\ ConnectFailsLate(k) =>
                 LET q == IF bridge[call[k].ctx].isConnected
                          THEN Append(mainq, Deliver("disconnected")) ELSE mainq
                 IN  mainq' = Append(Append(q, Deliver("error")), Resume(k, FALSE))
<1>1. mainq \in Seq(Job) /\ {"connecting", "connected"} \subseteq Notification
  BY DEF TypeOK, Notification
<1>2. ConnectStarts(k) => mainq' = Append(mainq, Deliver("connecting"))
  BY <1>1, PostedIsAppended DEF ConnectStarts
<1>3. /\ PostConnect(k) => mainq' = mainq
      /\ PostConnectNotifies(k) => mainq' = Append(mainq, Deliver("connected"))
  BY <1>1, PostedIsAppended DEF PostConnect, PostConnectNotifies
<1>4. ConnectSucceeds(k) => mainq' = Append(mainq, Resume(k, TRUE))
  BY DEF ConnectSucceeds
<1>5. ASSUME ConnectFailsEarly(k)
      PROVE  \E q \in {mainq, Append(mainq, Deliver("disconnected"))} :
                mainq' = Append(Append(q, Deliver("error")), Resume(k, FALSE))
  <2>1. PICK notes \in {<<>>, <<"disconnected">>} : FailurePosts(k, notes)
    BY <1>5 DEF ConnectFailsEarly
  <2> QED
    BY <2>1, FailureAppends
<1>6. ASSUME ConnectFailsLate(k)
      PROVE  mainq' = Append(Append(IF bridge[call[k].ctx].isConnected
                                    THEN Append(mainq, Deliver("disconnected")) ELSE mainq,
                                    Deliver("error")), Resume(k, FALSE))
  <2>1. FailurePosts(k, IF bridge[call[k].ctx].isConnected
                        THEN <<"disconnected">> ELSE <<>>)
    BY <1>6 DEF ConnectFailsLate, DisconnectPosts
  <2>2. CASE bridge[call[k].ctx].isConnected
    BY <2>1, <2>2, FailureAppends
  <2>3. CASE ~bridge[call[k].ctx].isConnected
    BY <2>1, <2>3, FailureAppends
  <2> QED
    BY <2>2, <2>3
<1> QED
  BY <1>2, <1>3, <1>4, <1>5, <1>6

LEMMA EnvironmentAppends ==
    ASSUME TypeOK
    PROVE  /\ ToolbarDisconnect \/ DisconnectAndDismiss \/ OnDisappear =>
                 mainq' = IF context # NoContext /\ bridge[context].isConnected
                          THEN Append(mainq, Deliver("disconnected")) ELSE mainq
           /\ TapRetry => mainq' = Append(mainq, Plain("retry"))
           /\ (\E c \in Context : ConnectionLost(c)) => mainq' = mainq
<1>1. mainq \in Seq(Job)
  BY DEF TypeOK
<1>2. ToolbarDisconnect \/ DisconnectAndDismiss \/ OnDisappear =>
          mainq' = Posted(mainq, ContextDisconnectPosts)
  BY DEF ToolbarDisconnect, DisconnectAndDismiss, OnDisappear, SessionDisconnect
<1>3. TapRetry => mainq' = Append(mainq, Plain("retry"))
  BY DEF TapRetry
<1>4. (\E c \in Context : ConnectionLost(c)) => mainq' = mainq
  BY DEF ConnectionLost
<1> QED
  BY <1>1, <1>2, <1>3, <1>4, DisconnectAppends

----------------------------------------------------------------------------
(* The connected contexts.                                                  *)

ConnectedIn(b) == {c \in Context : b[c].isConnected}

LEMMA ConnectedTables ==
    ASSUME NEW b \in Table, NEW c \in Context
    PROVE  /\ ConnectedIn(PostConnected(b, c)) = ConnectedIn(b) \cup {c}
           /\ ConnectedIn(FreeRDPDisconnected(b, c)) = ConnectedIn(b) \ {c}
           /\ ConnectedIn(Disconnected(b, c)) = ConnectedIn(b) \ {c}
           /\ ConnectedIn(TransportLost(b, c)) = ConnectedIn(b)
           /\ ConnectedIn(Created(b, c)) = ConnectedIn(b) \ {c}
           /\ ConnectedIn(Destroyed(b, c)) = ConnectedIn(b) \ {c}
<1> USE DEF Table, ViDeskContext
<1>1. ConnectedIn(PostConnected(b, c)) = ConnectedIn(b) \cup {c}
  BY DEF ConnectedIn, PostConnected
<1>2. ConnectedIn(FreeRDPDisconnected(b, c)) = ConnectedIn(b) \ {c}
  BY DEF ConnectedIn, FreeRDPDisconnected
<1>3. ConnectedIn(Disconnected(b, c)) = ConnectedIn(b) \ {c}
  BY DEF ConnectedIn, Disconnected, FreeRDPDisconnected
<1>4. ConnectedIn(TransportLost(b, c)) = ConnectedIn(b)
  BY DEF ConnectedIn, TransportLost
<1>5. ConnectedIn(Created(b, c)) = ConnectedIn(b) \ {c}
  BY DEF ConnectedIn, Created
<1>6. ConnectedIn(Destroyed(b, c)) = ConnectedIn(b) \ {c}
  BY DEF ConnectedIn, Destroyed
<1> QED
  BY <1>1, <1>2, <1>3, <1>4, <1>5, <1>6

(* After FreeRDPContext.disconnect the wrapper's context is not connected.  *)
LEMMA ContextDisconnectedTables ==
    ASSUME TypeOK
    PROVE  ConnectedIn(ContextDisconnected) = ConnectedIn(bridge) \ {context}
<1>1. bridge \in Table /\ context \in Context \cup {NoContext}
  BY DEF TypeOK, BridgeTypeOK, Table
<1>2. CASE context = NoContext
  BY <1>2 DEF ContextDisconnected, ConnectedIn
<1>3. CASE context # NoContext
  BY <1>1, <1>3, ConnectedTables DEF ContextDisconnected
<1> QED
  BY <1>2, <1>3

(* performConnect connects nothing before its await.                        *)
LEMMA PerformConnectTables ==
    ASSUME TypeOK, NEW by, NEW b \in Table, NEW e, PerformConnect(by, b, e)
    PROVE  ConnectedIn(bridge') \subseteq ConnectedIn(b)
<1>1. CASE bridge' = b
  BY <1>1
<1>2. CASE ~HasContext /\ Unborn(b) # {} /\ bridge' = Created(b, NextUnborn(b))
  BY <1>2, NextUnbornType, ConnectedTables
<1> QED
  BY <1>1, <1>2 DEF PerformConnect

----------------------------------------------------------------------------
(* The calls more closely.                                                  *)

(* performConnect up to its await moves a call that is not made yet to one  *)
(* that is dispatched, if it moves any.                                     *)
LEMMA PerformConnectCalls ==
    ASSUME TypeOK, NEW by \in Caller, NEW b, NEW e, PerformConnect(by, b, e)
    PROVE  \/ UNCHANGED call
           \/ \E k \in Call : /\ call[k].pc = "idle" /\ call'[k].pc = "dispatched"
                             /\ \A j \in Call \ {k} : call'[j] = call[j]
<1>1. CASE UNCHANGED call
  BY <1>1
<1>2. CASE \E c : /\ IdleCalls # {}
                  /\ call' = [call EXCEPT ![NextCall] =
                                [pc |-> "dispatched", ctx |-> c, by |-> by]]
  BY <1>2, NextCallType DEF TypeOK
<1> QED
  BY <1>1, <1>2 DEF PerformConnect

(* The calls under a job of the main actor: one is made, one is answered,   *)
(* or none moves.                                                           *)
LEMMA MainActorCalls ==
    ASSUME TypeOK, NEW i \in Ready
    PROVE  /\ DeliverNotification(i) \/ HandleNotification(i) \/ ReconnectTask(i)
                 => UNCHANGED call
           /\ ViewModelConnect(i) \/ ViewModelReconnect(i) \/ ReconnectTaskWakes(i) =>
                 \/ UNCHANGED call
                 \/ \E k \in Call : /\ call[k].pc = "idle" /\ call'[k].pc = "dispatched"
                                   /\ \A j \in Call \ {k} : call'[j] = call[j]
           /\ PerformConnectResumed(i) =>
                 /\ mainq[i].call \in Call /\ call'[mainq[i].call].pc = "answered"
                 /\ \A j \in Call \ {mainq[i].call} : call'[j] = call[j]
<1>1. DeliverNotification(i) \/ HandleNotification(i) \/ ReconnectTask(i) => UNCHANGED call
  BY DEF DeliverNotification, HandleNotification, ReconnectTask
<1>2. ViewModelConnect(i) \/ ViewModelReconnect(i) \/ ReconnectTaskWakes(i) =>
          UNCHANGED call \/ \E by \in Caller : \E b, e : PerformConnect(by, b, e)
  BY DEF ViewModelConnect, ViewModelReconnect, ReconnectTaskWakes, Caller
<1>3. ASSUME PerformConnectResumed(i)
      PROVE  /\ mainq[i].call \in Call /\ call'[mainq[i].call].pc = "answered"
             /\ \A j \in Call \ {mainq[i].call} : call'[j] = call[j]
  <2>1. mainq[i] \in Job /\ mainq[i].kind = "resume"
    BY <1>3, WithoutType DEF TypeOK, PerformConnectResumed
  <2>2. mainq[i].call \in Call
    BY <2>1 DEF Job
  <2>3. call' = [call EXCEPT ![mainq[i].call].pc = "answered"]
    BY <1>3 DEF PerformConnectResumed
  <2> QED
    BY <2>2, <2>3 DEF TypeOK, ConnectCall
<1> QED
  BY <1>1, <1>2, <1>3, PerformConnectCalls

(* The move of a call inside viDesk_connect.                                *)
LEMMA ConnectThreadCalls ==
    ASSUME TypeOK, NEW k \in Call
    PROVE  /\ ConnectThread(k) =>
                 call[k].pc \in Running /\ \A j \in Call \ {k} : call'[j] = call[j]
           /\ ConnectStarts(k) => call[k].pc = "dispatched" /\ call'[k].pc = "handshake"
           /\ PostConnect(k) => call[k].pc = "handshake" /\ call'[k].pc = "flagged"
           /\ PostConnectNotifies(k) =>
                 call[k].pc = "flagged" /\ call'[k].pc = "postconnected"
           /\ ConnectFailsEarly(k) => call[k].pc = "handshake" /\ call'[k].pc = "resuming"
           /\ ConnectSucceeds(k) \/ ConnectFailsLate(k) =>
                 call[k].pc = "postconnected" /\ call'[k].pc = "resuming"
<1> USE DEF TypeOK, ConnectCall
<1>1. ConnectStarts(k) => call[k].pc = "dispatched" /\ call' = [call EXCEPT ![k].pc = "handshake"]
  BY DEF ConnectStarts
<1>2. /\ PostConnect(k) =>
            call[k].pc = "handshake" /\ call' = [call EXCEPT ![k].pc = "flagged"]
      /\ PostConnectNotifies(k) =>
            call[k].pc = "flagged" /\ call' = [call EXCEPT ![k].pc = "postconnected"]
  BY DEF PostConnect, PostConnectNotifies
<1>3. ConnectFailsEarly(k) => call[k].pc = "handshake" /\ call' = [call EXCEPT ![k].pc = "resuming"]
  BY DEF ConnectFailsEarly
<1>4. ConnectSucceeds(k) \/ ConnectFailsLate(k) =>
          call[k].pc = "postconnected" /\ call' = [call EXCEPT ![k].pc = "resuming"]
  BY DEF ConnectSucceeds, ConnectFailsLate
<1> QED
  BY <1>1, <1>2, <1>3, <1>4 DEF ConnectThread, Running

----------------------------------------------------------------------------
(* Before and after the view's task to connect has run.                     *)

Unstarted ==
    /\ mainq = <<Plain("appear")>> /\ sleepers = 0 /\ ~errorMessage
    /\ state = "disconnected" /\ context = NoContext
    /\ \A k \in Call : call[k].pc = "idle"

(* The view's task runs once, on a session that has done nothing yet.       *)
AppearsFirst == Unstarted \/ Lacks(mainq, "appear")

(* Before that, a disconnect finds nothing to do and no one else can act.   *)
LEMMA UnstartedKept ==
    ASSUME IInv, Unstarted, [Next]_vars
    PROVE  AppearsFirst'
<1>1. mainq = <<Plain("appear")>> /\ Plain("appear").kind = "appear"
  BY DEF Unstarted, Plain
<1>2. CASE MainActor
  <2>1. PICK i \in Ready :
            \/ DeliverNotification(i)
            \/ HandleNotification(i)
            \/ ViewModelConnect(i)
            \/ ViewModelReconnect(i)
            \/ PerformConnectResumed(i)
            \/ ReconnectTask(i)
            \/ ReconnectTaskWakes(i)
    BY <1>2 DEF MainActor
  <2>2. i = 1 /\ mainq[i].kind = "appear" /\ Len(mainq) = 1
    BY <1>1 DEF Ready
  <2>3. mainq' = Without(i)
    BY <2>1, <2>2 DEF DeliverNotification, HandleNotification, ViewModelConnect,
       ViewModelReconnect, PerformConnectResumed, ReconnectTask, ReconnectTaskWakes
  <2>4. DOMAIN mainq' = {}
    BY <2>2, <2>3 DEF Without
  <2> QED
    BY <2>4 DEF AppearsFirst, Lacks
<1>3. CASE SleepOver
  BY <1>3 DEF SleepOver, Unstarted
<1>4. ASSUME NEW k \in Call, ConnectThread(k) PROVE FALSE
  BY <1>4 DEF Unstarted, ConnectThread, ConnectStarts, PostConnect, PostConnectNotifies, ConnectSucceeds,
     ConnectFailsEarly, ConnectFailsLate
<1>5. ASSUME NEW k \in Call, EventLoopThread(k) PROVE Unstarted'
  <2>1. UNCHANGED <<mainq, sleepers, errorMessage, state, context, call>>
    BY <1>5 DEF EventLoopThread, LoopTop, ProcessEventsReturns, LoopFrame, sessionVars,
       viewVars
  <2> QED
    BY <2>1 DEF Unstarted
<1>6. CASE Environment
  <2>1. mainq \in Seq(Job) /\ context = NoContext /\ Posted(mainq, <<>>) = mainq
    BY PostedIsAppended DEF IInv, TypeOK, Unstarted
  <2>2. CASE ToolbarDisconnect \/ DisconnectAndDismiss \/ OnDisappear
    <3>1. SessionDisconnect(mainq) /\ UNCHANGED <<context, call, sleepers, errorMessage>>
      BY <2>2 DEF ToolbarDisconnect, DisconnectAndDismiss, OnDisappear, viewVars
    <3>2. mainq' = mainq /\ state' = "disconnected"
      BY <2>1, <3>1 DEF SessionDisconnect, ContextDisconnectPosts
    <3> QED
      BY <3>1, <3>2 DEF Unstarted, AppearsFirst
  <2>3. CASE TapRetry
    BY <2>3 DEF TapRetry, Unstarted
  <2>4. CASE \E c \in Context : ConnectionLost(c)
    BY <2>4 DEF ConnectionLost, Unstarted, AppearsFirst, sessionVars, viewVars
  <2> QED
    BY <1>6, <2>2, <2>3, <2>4 DEF Environment
<1>7. CASE UNCHANGED vars
  BY <1>7 DEF vars, sessionVars, viewVars, Unstarted, AppearsFirst
<1> QED
  BY <1>2, <1>3, <1>4, <1>5, <1>6, <1>7 DEF Next, AppearsFirst

LEMMA StepKeepsAppearsFirst == IInv /\ AppearsFirst /\ [Next]_vars => AppearsFirst'
<1>1. Lacks(mainq, "appear") /\ IInv /\ [Next]_vars => Lacks(mainq', "appear")
  BY QueueStaysWithout
<1>2. Lacks(mainq', "appear") => AppearsFirst'
  BY DEF AppearsFirst
<1> QED
  BY <1>1, <1>2, UnstartedKept DEF AppearsFirst

LEMMA InitAppearsFirst == Init => AppearsFirst
  BY DEF Init, AppearsFirst, Unstarted

=============================================================================
