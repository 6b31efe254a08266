------------------------ MODULE RDPSessionOrderProofs ------------------------
(****************************************************************************)
(* What holds of RDPSession because the main actor's tasks run in the order *)
(* they were made: when nothing is under way, the state the user sees is    *)
(* that of the connection.  The proofs follow the notifications that are    *)
(* still to be handled, and above all the last of them.                     *)
(****************************************************************************)
EXTENDS RDPSessionManualProofs

USE TaskOrderAssumption

----------------------------------------------------------------------------
(* A connect call is answered once.                                         *)

(* The resumptions of the continuation of call k in the queue q.            *)
Answers(q, k) == {j \in DOMAIN q : q[j].kind = "resume" /\ q[j].call = k}

(* Every call that has returned has its one resumption in the queue, and    *)
(* no other call has any.                                                   *)
AnswersDue ==
    \A k \in Call :
        /\ call[k].pc = "resuming" <=> Answers(mainq, k) # {}
        /\ \A i, j \in Answers(mainq, k) : i = j

(* A job taken is taken from the answers; one appended is added to those of *)
(* its own call.                                                            *)
LEMMA AnswersTaken ==
    ASSUME mainq \in Seq(Job), NEW i \in Ready, NEW k,
           \A g, h \in Answers(mainq, k) : g = h
    PROVE  /\ \A g, h \in Answers(Without(i), k) : g = h
           /\ i \notin Answers(mainq, k) => (Answers(Without(i), k) # {} <=> Answers(mainq, k) # {})
           /\ i \in Answers(mainq, k) => Answers(Without(i), k) = {}
<1> DEFINE q == Without(i)
<1>1. /\ \A j \in DOMAIN q : From(i, j) \in DOMAIN mainq \ {i} /\ q[j] = mainq[From(i, j)]
      /\ \A h \in DOMAIN mainq \ {i} : \E j \in DOMAIN q : From(i, j) = h
      /\ \A j, h \in DOMAIN q : From(i, j) = From(i, h) => j = h
  BY WithoutIs
<1> HIDE DEF q
<1>2. \A j \in Answers(q, k) : From(i, j) \in Answers(mainq, k) \ {i}
  BY <1>1 DEF Answers
<1>3. \A h \in Answers(mainq, k) \ {i} : \E j \in Answers(q, k) : From(i, j) = h
  BY <1>1 DEF Answers
<1>4. \A g, h \in Answers(q, k) : g = h
  BY <1>1, <1>2 DEF Answers
<1> QED
  BY <1>2, <1>3, <1>4 DEF q

LEMMA AnswersAppended ==
    ASSUME NEW q \in Seq(Job), NEW x \in Job, NEW k,
           \A g, h \in Answers(q, k) : g = h
    PROVE  /\ x.kind # "resume" \/ x.call # k => Answers(Append(q, x), k) = Answers(q, k)
           /\ x.kind = "resume" /\ x.call = k /\ Answers(q, k) = {} =>
                 /\ Answers(Append(q, x), k) # {}
                 /\ \A g, h \in Answers(Append(q, x), k) : g = h
<1>1. /\ Len(q) \in Nat /\ DOMAIN q = 1..Len(q)
      /\ DOMAIN Append(q, x) = 1..(Len(q) + 1)
      /\ \A j \in 1..Len(q) : Append(q, x)[j] = q[j]
      /\ Append(q, x)[Len(q) + 1] = x
  BY AppendIs
<1>2. CASE x.kind # "resume" \/ x.call # k
  BY <1>1, <1>2 DEF Answers
<1>3. CASE x.kind = "resume" /\ x.call = k
  BY <1>1, <1>3 DEF Answers
<1> QED
  BY <1>2, <1>3

(* q2 has the answers of q1.                                                *)
SameAnswers(q1, q2) ==
    \A k \in Call :
        (\A g, h \in Answers(q1, k) : g = h) =>
            /\ Answers(q2, k) # {} <=> Answers(q1, k) # {}
            /\ \A g, h \in Answers(q2, k) : g = h

LEMMA SameAnswersTaken ==
    ASSUME mainq \in Seq(Job), NEW i \in Ready, mainq[i].kind # "resume"
    PROVE  SameAnswers(mainq, Without(i))
<1>1. \A k : i \notin Answers(mainq, k)
  BY DEF Answers
<1> QED
  BY <1>1, AnswersTaken DEF SameAnswers

LEMMA SameAnswersAppended ==
    ASSUME NEW q \in Seq(Job), NEW x \in Job, x.kind # "resume"
    PROVE  SameAnswers(q, Append(q, x))
  BY AnswersAppended DEF SameAnswers

(* A call that is neither answered nor called back.                         *)
LEMMA AnswersDueKept ==
    ASSUME AnswersDue, SameAnswers(mainq, mainq'),
           \A k \in Call : call'[k].pc = "resuming" <=> call[k].pc = "resuming"
    PROVE  AnswersDue'
  BY DEF AnswersDue, SameAnswers

(* No step of an actor breaks that.                                         *)
LEMMA MainActorAnswers ==
    ASSUME IInv, AnswersDue, MainActor
    PROVE  AnswersDue'
<1>1. TypeOK /\ mainq \in Seq(Job)
  BY DEF IInv, TypeOK
<1>2. PICK i \in Ready :
          \/ DeliverNotification(i)
          \/ HandleNotification(i)
          \/ ViewModelConnect(i)
          \/ ViewModelReconnect(i)
          \/ PerformConnectResumed(i)
          \/ ReconnectTask(i)
          \/ ReconnectTaskWakes(i)
  BY DEF MainActor
<1>3. Without(i) \in Seq(Job) /\ mainq[i] \in Job /\ i \in DOMAIN mainq
  BY <1>1, WithoutType
<1>4. CASE PerformConnectResumed(i)
  <2> DEFINE k == mainq[i].call
  <2>1. /\ k \in Call /\ call'[k].pc = "answered" /\ mainq' = Without(i)
        /\ \A j \in Call \ {k} : call'[j] = call[j]
        /\ i \in Answers(mainq, k) /\ \A j \in Call \ {k} : i \notin Answers(mainq, j)
    BY <1>1, <1>3, <1>4, MainActorAppends, MainActorCalls DEF Answers
  <2> HIDE DEF k
  <2>2. ASSUME NEW j \in Call
        PROVE  /\ call'[j].pc = "resuming" <=> Answers(mainq', j) # {}
               /\ \A g, h \in Answers(mainq', j) : g = h
    <3>1. /\ call[j].pc = "resuming" <=> Answers(mainq, j) # {}
          /\ \A g, h \in Answers(mainq, j) : g = h
      BY DEF AnswersDue
    <3>2. CASE j = k
      BY <1>1, <2>1, <3>1, <3>2, AnswersTaken
    <3>3. CASE j # k
      BY <1>1, <2>1, <3>1, <3>3, AnswersTaken
    <3> QED
      BY <3>2, <3>3
  <2> QED
    BY <2>2 DEF AnswersDue
<1>5. CASE ~PerformConnectResumed(i)
  <2>1. /\ mainq[i].kind # "resume"
        /\ \/ mainq' = Without(i)
           \/ \E x \in Job : x.kind # "resume" /\ mainq' = Append(Without(i), x)
    <3>1. /\ Deliver("disconnected") \in Job /\ Deliver("disconnected").kind = "deliver"
          /\ Plain("reconnect") \in Job /\ Plain("reconnect").kind = "reconnect"
          /\ mainq[i].note \in Notification =>
                Handle(mainq[i].note) \in Job /\ Handle(mainq[i].note).kind = "handle"
      BY JobsMade DEF Notification
    <3> QED
      BY <1>1, <1>2, <1>5, <3>1, MainActorAppends
  <2>2. SameAnswers(mainq, Without(i))
    BY <1>1, <2>1, SameAnswersTaken
  <2>3. SameAnswers(mainq, mainq')
    BY <1>3, <2>1, <2>2, SameAnswersAppended DEF SameAnswers
  <2>4. \A k \in Call : call'[k].pc = "resuming" <=> call[k].pc = "resuming"
    BY <1>1, <1>2, <1>5, MainActorCalls
  <2> QED
    BY <2>3, <2>4, AnswersDueKept
<1> QED
  BY <1>4, <1>5

LEMMA ConnectThreadAnswers ==
    ASSUME IInv, AnswersDue, NEW k \in Call, ConnectThread(k)
    PROVE  AnswersDue'
<1>1. TypeOK /\ mainq \in Seq(Job)
  BY DEF IInv, TypeOK
<1>2. /\ call[k].pc \in Running /\ \A j \in Call \ {k} : call'[j] = call[j]
      /\ Answers(mainq, k) = {}
  BY <1>1, ConnectThreadCalls DEF AnswersDue, Running
<1>3. CASE ConnectStarts(k) \/ PostConnectNotifies(k)
  <2>1. PICK n \in Notification : mainq' = Append(mainq, Deliver(n))
    BY <1>1, <1>3, ConnectThreadAppends DEF Notification
  <2>2. SameAnswers(mainq, mainq')
    BY <1>1, <2>1, JobsMade, SameAnswersAppended
  <2>3. call'[k].pc # "resuming"
    BY <1>1, <1>3, ConnectThreadCalls
  <2> QED
    BY <1>2, <2>2, <2>3, AnswersDueKept DEF Running
<1>4. CASE ConnectSucceeds(k) \/ ConnectFailsEarly(k) \/ ConnectFailsLate(k)
  <2>1. PICK q \in Seq(Job), ok \in BOOLEAN :
            SameAnswers(mainq, q) /\ mainq' = Append(q, Resume(k, ok))
    <3>1. /\ Deliver("disconnected") \in Job /\ Deliver("disconnected").kind = "deliver"
          /\ Deliver("error") \in Job /\ Deliver("error").kind = "deliver"
      BY JobsMade DEF Notification
    <3>2. SameAnswers(mainq, mainq)
      BY DEF SameAnswers
    <3>3. CASE ConnectSucceeds(k)
      BY <1>1, <3>2, <3>3, ConnectThreadAppends
    <3>4. CASE ConnectFailsEarly(k) \/ ConnectFailsLate(k)
      <4>1. PICK q \in {mainq, Append(mainq, Deliver("disconnected"))} :
                mainq' = Append(Append(q, Deliver("error")), Resume(k, FALSE))
        BY <1>1, <3>4, ConnectThreadAppends
      <4>2. q \in Seq(Job) /\ SameAnswers(mainq, q)
        BY <1>1, <3>1, <3>2, <4>1, AppendType, SameAnswersAppended
      <4>3. Append(q, Deliver("error")) \in Seq(Job)
            /\ SameAnswers(q, Append(q, Deliver("error")))
        BY <3>1, <4>2, AppendType, SameAnswersAppended
      <4>4. SameAnswers(mainq, Append(q, Deliver("error")))
        BY <4>2, <4>3 DEF SameAnswers
      <4> QED
        BY <4>1, <4>3, <4>4
    <3> QED
      BY <1>4, <3>3, <3>4
  <2>2. call'[k].pc = "resuming"
    BY <1>1, <1>4, ConnectThreadCalls
  <2>3. /\ Resume(k, ok) \in Job /\ Resume(k, ok).kind = "resume" /\ Resume(k, ok).call = k
    BY <2>1, JobsMade
  <2>4. ASSUME NEW j \in Call
        PROVE  /\ call'[j].pc = "resuming" <=> Answers(mainq', j) # {}
               /\ \A g, h \in Answers(mainq', j) : g = h
    <3>1. /\ call[j].pc = "resuming" <=> Answers(q, j) # {}
          /\ \A g, h \in Answers(q, j) : g = h
      BY <2>1 DEF AnswersDue, SameAnswers
    <3>2. CASE j = k
      <4>1. Answers(q, j) = {}
        BY <1>2, <3>1, <3>2 DEF Running
      <4> QED
        BY <2>1, <2>2, <2>3, <3>1, <3>2, <4>1, AnswersAppended
    <3>3. CASE j # k
      BY <1>2, <2>1, <2>3, <3>1, <3>3, AnswersAppended
    <3> QED
      BY <3>2, <3>3
  <2> QED
    BY <2>4 DEF AnswersDue
<1>5. CASE PostConnect(k)
  <2>1. mainq' = mainq /\ call'[k].pc = "flagged"
    BY <1>1, <1>5, ConnectThreadAppends, ConnectThreadCalls
  <2>2. SameAnswers(mainq, mainq')
    BY <2>1 DEF SameAnswers
  <2> QED
    BY <1>2, <2>1, <2>2, AnswersDueKept DEF Running
<1> QED
  BY <1>3, <1>4, <1>5 DEF ConnectThread

LEMMA StepKeepsAnswersDue == IInv /\ AnswersDue /\ [Next]_vars => AnswersDue'
<1> SUFFICES ASSUME IInv, AnswersDue, [Next]_vars PROVE AnswersDue'
  OBVIOUS
<1>1. TypeOK /\ mainq \in Seq(Job)
  BY DEF IInv, TypeOK
<1>2. CASE UNCHANGED <<mainq, call>>
  BY <1>2 DEF AnswersDue, Answers
<1>3. CASE UNCHANGED call /\ \E x \in Job : x.kind # "resume" /\ mainq' = Append(mainq, x)
  BY <1>1, <1>3, SameAnswersAppended, AnswersDueKept
<1>4. CASE SleepOver
  BY <1>3, <1>4, JobsMade DEF SleepOver
<1>5. CASE Environment
  <2>1. UNCHANGED call
    BY <1>5 DEF Environment, ToolbarDisconnect, DisconnectAndDismiss, OnDisappear, TapRetry,
       ConnectionLost
  <2>2. mainq' \in {mainq, Append(mainq, Deliver("disconnected")), Append(mainq, Plain("retry"))}
    BY <1>1, <1>5, EnvironmentAppends DEF Environment
  <2> QED
    BY <1>2, <1>3, <2>1, <2>2, JobsMade DEF Notification
<1>6. ASSUME NEW k \in Call, EventLoopThread(k) PROVE AnswersDue'
  BY <1>2, <1>6 DEF EventLoopThread, LoopTop, ProcessEventsReturns, LoopFrame
<1>7. CASE UNCHANGED vars
  BY <1>2, <1>7 DEF vars
<1> QED
  BY <1>4, <1>5, <1>6, <1>7, MainActorAnswers, ConnectThreadAnswers DEF Next

LEMMA InitAnswersDue == Init => AnswersDue
<1> SUFFICES ASSUME Init, NEW k \in Call
             PROVE  call[k].pc = "idle" /\ Answers(mainq, k) = {}
  BY DEF AnswersDue
<1>1. mainq = <<Plain("appear")>> /\ Plain("appear").kind = "appear"
  BY DEF Init, Plain
<1>2. \A j \in DOMAIN mainq : mainq[j].kind = "appear"
  BY <1>1
<1> QED
  BY <1>2 DEF Init, Answers

----------------------------------------------------------------------------
(* The notifications that are still to be handled.                          *)

Notes(q) == {j \in DOMAIN q : q[j].kind \in {"deliver", "handle"}}

(* Of two of them, the one whose handler runs first: tasks run in order, so *)
(* whatever the wrapper has already passed on comes before the rest.        *)
HandledBefore(q, i, j) ==
    IF q[i].kind = q[j].kind THEN i < j ELSE q[i].kind = "handle"

(* The states the last of them reports: one, or none.                       *)
LastNotes(q) ==
    {q[j].note : j \in {h \in Notes(q) : \A g \in Notes(q) : ~HandledBefore(q, h, g)}}

(* In order, the job that is taken is the first.                            *)
LEMMA FirstTaken ==
    ASSUME OrderedTasks, mainq \in Seq(Job), NEW i \in Ready
    PROVE  /\ i = 1 /\ i \in DOMAIN mainq
           /\ \A j \in DOMAIN Without(i) : /\ j + 1 \in DOMAIN mainq /\ j \in Nat
                                         /\ Without(i)[j] = mainq[j + 1]
           /\ \A h \in DOMAIN mainq \ {1} : h - 1 \in DOMAIN Without(i) /\ h \in Nat
                                         /\ Without(i)[h - 1] = mainq[h]
<1>1. i = 1 /\ i \in 1..Len(mainq) /\ Len(mainq) \in Nat /\ DOMAIN mainq = 1..Len(mainq)
  BY DEF Ready
<1>2. DOMAIN Without(i) = 1..(Len(mainq) - 1)
  BY DEF Without
<1>3. \A j \in DOMAIN Without(i) : j + 1 \in DOMAIN mainq /\ j \in Nat
  BY <1>1, <1>2
<1>4. \A j \in DOMAIN Without(i) : Without(i)[j] = mainq[j + 1]
  BY <1>1, <1>2 DEF Without
<1>5. \A h \in DOMAIN mainq \ {1} :
          h - 1 \in DOMAIN Without(i) /\ h \in Nat /\ (h - 1) + 1 = h
  BY <1>1, <1>2
<1> QED
  BY <1>1, <1>3, <1>4, <1>5

(* Handling a notification, or running another job, leaves the last         *)
(* notification the last; the one that is handled was the last if none is   *)
(* left.                                                                    *)
LEMMA LastNotesTaken ==
    ASSUME OrderedTasks, mainq \in Seq(Job), NEW i \in Ready, mainq[i].kind # "deliver"
    PROVE  /\ LastNotes(Without(i)) \subseteq LastNotes(mainq)
           /\ mainq[i].kind = "handle" /\ Notes(Without(i)) = {}
                 => mainq[i].note \in LastNotes(mainq)
           /\ mainq[i].kind # "handle" /\ Notes(mainq) # {} => Notes(Without(i)) # {}
<1> DEFINE q == Without(i)
<1>1. /\ i = 1 /\ i \in DOMAIN mainq
      /\ \A j \in DOMAIN q : j + 1 \in DOMAIN mainq /\ j \in Nat /\ q[j] = mainq[j + 1]
      /\ \A h \in DOMAIN mainq \ {1} : h - 1 \in DOMAIN q /\ h \in Nat /\ q[h - 1] = mainq[h]
  BY FirstTaken
<1> HIDE DEF q
<1>2. \A j \in Notes(q) : j + 1 \in Notes(mainq) /\ j \in Nat /\ q[j] = mainq[j + 1]
  BY <1>1 DEF Notes
<1>3. \A h \in Notes(mainq) \ {1} : h - 1 \in Notes(q) /\ h \in Nat /\ q[h - 1] = mainq[h]
  BY <1>1 DEF Notes
<1>4. ASSUME NEW j \in Notes(q), \A g \in Notes(q) : ~HandledBefore(q, j, g)
      PROVE  q[j].note \in LastNotes(mainq)
  <2>1. ASSUME NEW h \in Notes(mainq) PROVE ~HandledBefore(mainq, j + 1, h)
    <3>1. CASE h = 1
      <4>1. mainq[h].kind = "handle" /\ ~(j + 1 < h)
        BY <1>1, <1>2, <2>1, <3>1 DEF Notes
      <4> QED
        BY <4>1 DEF HandledBefore
    <3>2. CASE h # 1
      <4>1. h - 1 \in Notes(q) /\ q[h - 1] = mainq[h] /\ h \in Nat
            /\ q[j] = mainq[j + 1] /\ j \in Nat
        BY <1>2, <1>3, <2>1, <3>2
      <4>2. ~HandledBefore(q, j, h - 1)
        BY <1>4, <4>1
      <4> QED
        BY <4>1, <4>2 DEF HandledBefore
    <3> QED
      BY <3>1, <3>2
  <2> QED
    BY <1>2, <2>1 DEF LastNotes
<1>5. LastNotes(q) \subseteq LastNotes(mainq)
  BY <1>4 DEF LastNotes
<1>6. ASSUME mainq[i].kind = "handle", Notes(q) = {} PROVE mainq[i].note \in LastNotes(mainq)
  <2>1. Notes(mainq) = {1}
    BY <1>1, <1>3, <1>6 DEF Notes
  <2>2. ~HandledBefore(mainq, 1, 1)
    BY DEF HandledBefore
  <2> QED
    BY <1>1, <2>1, <2>2 DEF LastNotes
<1>7. mainq[i].kind # "handle" /\ Notes(mainq) # {} => Notes(q) # {}
  BY <1>1, <1>3 DEF Notes
<1> QED
  BY <1>5, <1>6, <1>7 DEF q

(* So does passing a notification on to its handler.                        *)
LEMMA LastNotesDelivered ==
    ASSUME OrderedTasks, mainq \in Seq(Job), NEW i \in Ready, mainq[i].kind = "deliver",
           mainq[i].note \in Notification
    PROVE  LET q == Append(Without(i), Handle(mainq[i].note))
           IN  LastNotes(q) \subseteq LastNotes(mainq) /\ Notes(q) # {}
<1> DEFINE w == Without(i)
           n == Len(w)
           x == Handle(mainq[i].note)
           q == Append(w, x)
<1>1. /\ i = 1 /\ i \in DOMAIN mainq
      /\ \A j \in DOMAIN w : j + 1 \in DOMAIN mainq /\ j \in Nat /\ w[j] = mainq[j + 1]
      /\ \A h \in DOMAIN mainq \ {1} : h - 1 \in DOMAIN w /\ h \in Nat /\ w[h - 1] = mainq[h]
  BY FirstTaken
<1>2. w \in Seq(Job) /\ x \in Job /\ x.kind = "handle" /\ x.note = mainq[i].note
  BY WithoutType, JobsMade
<1> HIDE DEF w, x
<1>3. /\ n \in Nat /\ DOMAIN w = 1..n /\ DOMAIN q = 1..(n + 1)
      /\ \A j \in 1..n : q[j] = w[j]
      /\ q[n + 1] = x
  BY <1>2, AppendIs
<1> HIDE DEF q, n
<1>4. n + 1 \in Notes(q)
  BY <1>2, <1>3 DEF Notes
<1>5. \A h \in Notes(mainq) \ {1} :
          h - 1 \in Notes(q) /\ h \in Nat /\ q[h - 1] = mainq[h] /\ h - 1 < n + 1
  <2>1. \A h \in DOMAIN mainq \ {1} :
            h - 1 \in 1..n /\ h \in Nat /\ q[h - 1] = mainq[h]
    BY <1>1, <1>3
  <2>2. \A m \in 1..n : m \in 1..(n + 1) /\ m < n + 1
    BY <1>3
  <2> QED
    BY <1>3, <2>1, <2>2 DEF Notes
<1>6. ASSUME NEW j \in Notes(q), \A g \in Notes(q) : ~HandledBefore(q, j, g)
      PROVE  q[j].note \in LastNotes(mainq)
  <2>1. CASE j = n + 1
    <3>1. ASSUME NEW h \in Notes(mainq) PROVE ~HandledBefore(mainq, 1, h)
      <4>1. CASE h = 1
        BY <4>1 DEF HandledBefore
      <4>2. CASE h # 1
        <5>1. h - 1 \in Notes(q) /\ q[h - 1] = mainq[h] /\ h - 1 < n + 1
          BY <1>5, <3>1, <4>2
        <5>2. mainq[h].kind # "deliver"
          BY <1>2, <1>3, <1>6, <2>1, <5>1 DEF HandledBefore, Notes
        <5> QED
          BY <1>1, <5>2 DEF HandledBefore
      <4> QED
        BY <4>1, <4>2
    <3>2. 1 \in Notes(mainq)
      BY <1>1 DEF Notes
    <3>3. q[j].note = mainq[1].note
      BY <1>1, <1>2, <1>3, <2>1
    <3> QED
      BY <3>1, <3>2, <3>3 DEF LastNotes
  <2>2. CASE j # n + 1
    <3>1. j \in 1..n /\ j \in Nat /\ j < n + 1 /\ q[j] = mainq[j + 1] /\ j + 1 \in DOMAIN mainq
      <4>1. j \in 1..n
        BY <1>3, <1>6, <2>2 DEF Notes
      <4>2. q[j] = w[j] /\ j \in DOMAIN w
        BY <1>3, <4>1
      <4>3. w[j] = mainq[j + 1] /\ j + 1 \in DOMAIN mainq /\ j \in Nat
        BY <1>1, <4>2
      <4>4. j < n + 1
        BY <1>3, <4>1
      <4> QED
        BY <4>1, <4>2, <4>3, <4>4
    <3>2. q[j].kind = "deliver"
      BY <1>2, <1>3, <1>4, <1>6, <3>1 DEF HandledBefore, Notes
    <3>3. ASSUME NEW h \in Notes(mainq) PROVE ~HandledBefore(mainq, j + 1, h)
      <4>1. CASE h = 1
        BY <1>1, <3>1, <3>2, <4>1 DEF HandledBefore
      <4>2. CASE h # 1
        <5>1. h - 1 \in Notes(q) /\ q[h - 1] = mainq[h] /\ h \in Nat
          BY <1>5, <3>3, <4>2
        <5>2. ~HandledBefore(q, j, h - 1)
          BY <1>6, <5>1
        <5> QED
          BY <3>1, <5>1, <5>2 DEF HandledBefore
      <4> QED
        BY <4>1, <4>2
    <3>4. j + 1 \in Notes(mainq)
      BY <3>1, <3>2 DEF Notes
    <3> QED
      BY <3>1, <3>3, <3>4 DEF LastNotes
  <2> QED
    BY <2>1, <2>2
<1>7. LastNotes(q) \subseteq LastNotes(mainq)
  BY <1>6 DEF LastNotes
<1> QED
  BY <1>4, <1>7 DEF q, w, x

(* A notification that is posted becomes the last; a job of another kind    *)
(* changes nothing.                                                         *)
LEMMA LastNotesAppended ==
    ASSUME NEW q \in Seq(Job), NEW x \in Job, x.kind # "handle"
    PROVE  /\ x.kind = "deliver" => LastNotes(Append(q, x)) \subseteq {x.note}
           /\ x.kind # "deliver" => LastNotes(Append(q, x)) \subseteq LastNotes(q)
           /\ x.kind = "deliver" \/ Notes(q) # {} => Notes(Append(q, x)) # {}
<1> DEFINE n == Len(q)
           p == Append(q, x)
<1>1. /\ n \in Nat /\ DOMAIN q = 1..n /\ DOMAIN p = 1..(n + 1)
      /\ \A j \in 1..n : p[j] = q[j]
      /\ p[n + 1] = x
  BY AppendIs
<1> HIDE DEF n, p
<1>2. \A j \in Notes(q) : j \in Notes(p) /\ p[j] = q[j] /\ j \in Nat /\ j < n + 1
  BY <1>1 DEF Notes
<1>3. \A j \in Notes(p) : j = n + 1 \/ (j \in Notes(q) /\ p[j] = q[j])
  BY <1>1 DEF Notes
<1>4. ASSUME x.kind = "deliver" PROVE LastNotes(p) \subseteq {x.note} /\ Notes(p) # {}
  <2>1. n + 1 \in Notes(p)
    BY <1>1, <1>4 DEF Notes
  <2>2. \A j \in Notes(p) : j # n + 1 => HandledBefore(p, j, n + 1)
    BY <1>1, <1>2, <1>3, <1>4 DEF HandledBefore, Notes
  <2> QED
    BY <1>1, <2>1, <2>2 DEF LastNotes
<1>5. ASSUME x.kind # "deliver" PROVE LastNotes(p) \subseteq LastNotes(q)
  <2>1. n + 1 \notin Notes(p)
    BY <1>1, <1>5 DEF Notes
  <2>2. Notes(p) = Notes(q) /\ \A j \in Notes(q) : p[j] = q[j]
    BY <1>2, <1>3, <2>1
  <2> QED
    BY <2>2 DEF LastNotes, HandledBefore
<1>6. Notes(q) # {} => Notes(p) # {}
  BY <1>2
<1> QED
  BY <1>4, <1>5, <1>6 DEF p

----------------------------------------------------------------------------
(* What keeps the session object alive while its view is gone.              *)

Kept ==
    \/ sleepers > 0
    \/ \E k \in Call : call[k].pc \in Running
    \/ Starters(mainq) # {}

LEMMA AliveIsKept ==
    ASSUME TypeOK
    PROVE  SessionAlive <=> view # "gone" \/ Kept
<1>1. DOMAIN mainq = 1..Len(mainq) /\ \A j \in DOMAIN mainq : mainq[j] \in Job
  BY DEF TypeOK
<1>2. \A j \in DOMAIN mainq :
          mainq[j].kind \in {"resume", "reconnect", "wake", "appear", "retry"}
              <=> mainq[j].kind \notin {"deliver", "handle"}
  BY <1>1, JobKinds
<1>3. (\E j \in DOMAIN mainq :
          mainq[j].kind \in {"resume", "reconnect", "wake", "appear", "retry"})
              <=> Starters(mainq) # {}
  BY <1>2 DEF Starters
<1> QED
  BY <1>3 DEF SessionAlive, Kept

(* Handling a notification takes none of the session's own jobs.            *)
LEMMA StartersTaken ==
    ASSUME mainq \in Seq(Job), NEW i \in Ready
    PROVE  /\ Starters(mainq) = {} => Starters(Without(i)) = {}
           /\ mainq[i].kind \in {"deliver", "handle"} =>
                 (Starters(Without(i)) = {} => Starters(mainq) = {})
<1> DEFINE q == Without(i)
<1>1. /\ \A j \in DOMAIN q : From(i, j) \in DOMAIN mainq \ {i} /\ q[j] = mainq[From(i, j)]
      /\ \A h \in DOMAIN mainq \ {i} : \E j \in DOMAIN q : From(i, j) = h
  BY WithoutIs
<1> HIDE DEF q
<1>2. \A j \in Starters(q) : From(i, j) \in Starters(mainq)
  BY <1>1 DEF Starters
<1>3. \A h \in Starters(mainq) \ {i} : \E j \in Starters(q) : From(i, j) = h
  BY <1>1 DEF Starters
<1>4. mainq[i].kind \in {"deliver", "handle"} => i \notin Starters(mainq)
  BY DEF Starters
<1> QED
  BY <1>2, <1>3, <1>4 DEF q

LEMMA StartersAppended ==
    ASSUME NEW q \in Seq(Job), NEW x \in Job
    PROVE  /\ Starters(Append(q, x)) = {} => Starters(q) = {}
           /\ x.kind \in {"deliver", "handle"} =>
                 (Starters(q) = {} => Starters(Append(q, x)) = {})
           /\ x.kind \notin {"deliver", "handle"} => Starters(Append(q, x)) # {}
<1> DEFINE n == Len(q)
           p == Append(q, x)
<1>1. /\ n \in Nat /\ DOMAIN q = 1..n /\ DOMAIN p = 1..(n + 1)
      /\ \A j \in 1..n : p[j] = q[j]
      /\ p[n + 1] = x
  BY AppendIs
<1> HIDE DEF n, p
<1>2. Starters(q) \subseteq Starters(p) /\ Starters(p) \subseteq Starters(q) \cup {n + 1}
  BY <1>1 DEF Starters
<1>3. n + 1 \in Starters(p) <=> x.kind \notin {"deliver", "handle"}
  BY <1>1 DEF Starters
<1> QED
  BY <1>2, <1>3 DEF p

----------------------------------------------------------------------------
(* No spinner at rest.                                                      *)

Spinner == {"connecting", "authenticating", "reconnecting"}

(* A session on a spinner waits for something that is under way, or for a   *)
(* notification that its handler will not ignore.                           *)
SpinnerAwaited == state \in Spinner => Kept \/ (view # "gone" /\ Notes(mainq) # {})

(* "connecting" is the last notification only of a connect that will send   *)
(* another.                                                                 *)
Telling == {"handshake", "flagged"}

ConnectingAwaited ==
    "connecting" \in LastNotes(mainq) => \E k \in Call : call[k].pc \in Telling

SpinInv == SpinnerAwaited /\ ConnectingAwaited

LEMMA HandshakeKept ==
    ASSUME ConnectingAwaited,
           \A k \in Call : call[k].pc \in Telling => call'[k].pc \in Telling,
           "connecting" \in LastNotes(mainq') => "connecting" \in LastNotes(mainq)
    PROVE  ConnectingAwaited'
  BY DEF ConnectingAwaited

(* When no setter fails, performConnect shows an error or makes a call.     *)
LEMMA PerformConnectAwaited ==
    ASSUME TypeOK, ~SettersMayFail, NEW by \in Caller, NEW b, NEW e, PerformConnect(by, b, e)
    PROVE  state' = "error" \/ \E k \in Call : call'[k].pc = "dispatched"
<1>1. CASE state' = StateOnCreateFailure
  BY <1>1 DEF StateOnCreateFailure
<1>2. CASE \E c : /\ IdleCalls # {}
                  /\ call' = [call EXCEPT ![NextCall] =
                                [pc |-> "dispatched", ctx |-> c, by |-> by]]
  BY <1>2, NextCallType DEF TypeOK
<1> QED
  BY <1>1, <1>2 DEF PerformConnect

LEMMA SpinMainActor ==
    ASSUME OrderedTasks, ~SettersMayFail, IInv, AnswersDue, AppearsFirst, SpinInv, MainActor
    PROVE  SpinInv'
<1>1. TypeOK /\ mainq \in Seq(Job) /\ SpinnerAwaited /\ ConnectingAwaited
  BY DEF IInv, TypeOK, SpinInv
<1>2. PICK i \in Ready :
          \/ DeliverNotification(i)
          \/ HandleNotification(i)
          \/ ViewModelConnect(i)
          \/ ViewModelReconnect(i)
          \/ PerformConnectResumed(i)
          \/ ReconnectTask(i)
          \/ ReconnectTaskWakes(i)
  BY DEF MainActor
<1>3. Without(i) \in Seq(Job) /\ mainq[i] \in Job /\ i \in DOMAIN mainq
  BY <1>1, WithoutType
<1>4. /\ "disconnected" \in Notification /\ Deliver("disconnected") \in Job
      /\ Deliver("disconnected").kind = "deliver" /\ Deliver("disconnected").note = "disconnected"
      /\ Plain("reconnect") \in Job /\ Plain("reconnect").kind = "reconnect"
  BY JobsMade DEF Notification
<1>5. CASE DeliverNotification(i)
  <2>1. /\ mainq[i].kind = "deliver" /\ mainq[i].note \in Notification
        /\ mainq' = Append(Without(i), Handle(mainq[i].note))
    BY <1>1, <1>5, MainActorAppends
  <2>2. UNCHANGED <<state, call, sleepers, view>>
    BY <1>5 DEF DeliverNotification, sessionVars, viewVars
  <2>3. LastNotes(mainq') \subseteq LastNotes(mainq) /\ Notes(mainq') # {}
    BY <1>1, <2>1, LastNotesDelivered
  <2>4. Starters(mainq) # {} => Starters(mainq') # {}
    BY <1>1, <1>3, <2>1, JobsMade, StartersTaken, StartersAppended
  <2>5. SpinnerAwaited'
    BY <1>1, <2>2, <2>3, <2>4 DEF SpinnerAwaited, Kept
  <2> QED
    BY <1>1, <2>2, <2>3, <2>5, HandshakeKept DEF SpinInv
<1>6. CASE HandleNotification(i)
  <2>1. /\ mainq[i].kind = "handle" /\ mainq[i].note \in Notification
        /\ mainq' = Without(i) \/ mainq' = Append(Without(i), Plain("reconnect"))
    BY <1>1, <1>6, MainActorAppends
  <2>2. UNCHANGED <<call, sleepers, view>>
    BY <1>6 DEF HandleNotification, viewVars
  <2>3. LastNotes(Without(i)) \subseteq LastNotes(mainq)
    BY <1>1, <2>1, LastNotesTaken
  <2>4. LastNotes(mainq') \subseteq LastNotes(mainq)
    BY <1>3, <1>4, <2>1, <2>3, LastNotesAppended
  <2>5. ConnectingAwaited'
    BY <1>1, <2>2, <2>4, HandshakeKept
  <2>6. Kept => Kept'
    <3>1. Starters(mainq) # {} => Starters(mainq') # {}
      BY <1>1, <1>3, <1>4, <2>1, StartersTaken, StartersAppended
    <3> QED
      BY <2>2, <3>1 DEF Kept
  <2>7. CASE mainq' = Append(Without(i), Plain("reconnect"))
    <3>1. Kept'
      BY <1>3, <1>4, <2>7, StartersAppended DEF Kept
    <3> QED
      BY <2>5, <3>1 DEF SpinInv, SpinnerAwaited
  <2>8. CASE SessionAlive /\ mainq[i].note = "disconnected" /\ ~MayReconnect
    <3>1. state' = "disconnected"
      BY <1>6, <2>8 DEF HandleNotification, HandleDisconnection
    <3> QED
      BY <2>5, <3>1 DEF SpinInv, SpinnerAwaited, Spinner
  <2>9. CASE SessionAlive /\ mainq[i].note # "disconnected"
    <3>1. state' = mainq[i].note /\ mainq' = Without(i)
      BY <1>6, <2>9 DEF HandleNotification
    <3>2. ASSUME state' \in Spinner PROVE Kept' \/ (view' # "gone" /\ Notes(mainq') # {})
      <4>1. mainq[i].note = "connecting"
        BY <2>1, <3>1, <3>2 DEF Notification, Spinner
      <4>2. Notes(Without(i)) = {} => \E k \in Call : call[k].pc \in Telling
        BY <1>1, <2>1, <4>1, LastNotesTaken DEF ConnectingAwaited
      <4>3. Kept \/ view # "gone"
        BY <1>1, <2>9, AliveIsKept
      <4> QED
        BY <2>2, <2>6, <3>1, <4>2, <4>3 DEF Kept, Running, Telling
    <3> QED
      BY <2>5, <3>2 DEF SpinInv, SpinnerAwaited
  <2>10. CASE ~SessionAlive
    <3>1. state' = state
      BY <1>6, <2>10 DEF HandleNotification
    <3>2. state \notin Spinner
      BY <1>1, <2>10, AliveIsKept DEF SpinnerAwaited
    <3> QED
      BY <2>5, <3>1, <3>2 DEF SpinInv, SpinnerAwaited
  <2>11. CASE SessionAlive /\ mainq[i].note = "disconnected" /\ MayReconnect
    <3>1. HandleDisconnection(Without(i))
      BY <1>6, <2>11 DEF HandleNotification
    <3>2. mainq' = Append(Without(i), Plain("reconnect"))
      BY <2>11, <3>1 DEF HandleDisconnection
    <3> QED
      BY <2>7, <3>2
  <2> QED
    BY <2>8, <2>9, <2>10, <2>11
<1>7. ASSUME mainq[i].kind \notin {"deliver", "handle"},
             mainq' = Without(i) \/ mainq' = Append(Without(i), Deliver("disconnected")),
             \A k \in Call : call[k].pc \in Telling => call'[k].pc \in Telling
      PROVE  ConnectingAwaited'
  <2>1. LastNotes(Without(i)) \subseteq LastNotes(mainq)
    BY <1>1, <1>7, LastNotesTaken
  <2>2. "connecting" \in LastNotes(mainq') => "connecting" \in LastNotes(mainq)
    BY <1>3, <1>4, <1>7, <2>1, LastNotesAppended
  <2> QED
    BY <1>1, <1>7, <2>2, HandshakeKept
<1>8. CASE ViewModelConnect(i) \/ ViewModelReconnect(i) \/ ReconnectTaskWakes(i)
  <2>1. /\ mainq[i].kind \notin {"deliver", "handle"}
        /\ mainq' = Without(i) \/ mainq' = Append(Without(i), Deliver("disconnected"))
    BY <1>1, <1>8, MainActorAppends
  <2>2. \A k \in Call : call[k].pc \in Telling => call'[k].pc \in Telling
    BY <1>1, <1>8, MainActorCalls DEF Telling
  <2>3. \E by \in Caller : \E b, e : PerformConnect(by, b, e)
    <3>1. CASE ViewModelConnect(i)
      <4>1. state = "disconnected"
        BY <1>3, <3>1 DEF ViewModelConnect, AppearsFirst, Unstarted, Lacks
      <4> QED
        BY <3>1, <4>1 DEF ViewModelConnect, IsActive, Caller
    <3>2. CASE ViewModelReconnect(i) \/ ReconnectTaskWakes(i)
      BY <3>2 DEF ViewModelReconnect, ReconnectTaskWakes, Caller
    <3> QED
      BY <1>8, <3>1, <3>2
  <2>4. state' = "error" \/ Kept'
    BY <1>1, <2>3, PerformConnectAwaited DEF Kept, Running
  <2> QED
    BY <1>7, <2>1, <2>2, <2>4 DEF SpinInv, SpinnerAwaited, Spinner
<1>9. CASE PerformConnectResumed(i)
  <2>1. /\ mainq[i].kind = "resume" /\ mainq' = Without(i)
        /\ mainq[i].call \in Call
        /\ \A j \in Call \ {mainq[i].call} : call'[j] = call[j]
    BY <1>1, <1>9, MainActorAppends, MainActorCalls
  <2>2. call[mainq[i].call].pc = "resuming"
    BY <1>3, <2>1 DEF AnswersDue, Answers
  <2>3. state' \in {"connected", "error"}
    BY <1>9 DEF PerformConnectResumed
  <2>4. \A k \in Call : call[k].pc \in Telling => call'[k].pc \in Telling
    BY <2>1, <2>2 DEF Telling
  <2> QED
    BY <1>7, <2>1, <2>3, <2>4 DEF SpinInv, SpinnerAwaited, Spinner
<1>10. CASE ReconnectTask(i)
  <2>1. /\ mainq[i].kind \notin {"deliver", "handle"}
        /\ mainq' = Without(i) \/ mainq' = Append(Without(i), Deliver("disconnected"))
    BY <1>1, <1>10, MainActorAppends
  <2>2. sleepers' > 0 /\ UNCHANGED call
    BY <1>1, <1>10 DEF ReconnectTask, TypeOK
  <2> QED
    BY <1>7, <2>1, <2>2 DEF SpinInv, SpinnerAwaited, Kept
<1> QED
  BY <1>2, <1>5, <1>6, <1>8, <1>9, <1>10

LEMMA SpinConnectThread ==
    ASSUME IInv, SpinInv, NEW k \in Call, ConnectThread(k)
    PROVE  SpinInv'
<1>1. TypeOK /\ mainq \in Seq(Job) /\ ConnectingAwaited
  BY DEF IInv, TypeOK, SpinInv
<1>2. \A j \in Call \ {k} : call'[j] = call[j]
  BY <1>1, ConnectThreadCalls
<1>3. call'[k].pc \in Running => SpinnerAwaited'
  BY DEF SpinnerAwaited, Kept
<1>4. Starters(mainq') # {} => SpinnerAwaited'
  BY DEF SpinnerAwaited, Kept
<1>5. \A n \in Notification :
          Deliver(n) \in Job /\ Deliver(n).kind = "deliver" /\ Deliver(n).note = n
  BY JobsMade
<1>6. CASE ConnectStarts(k) \/ PostConnect(k)
  <2>1. call'[k].pc \in Telling
    BY <1>1, <1>6, ConnectThreadCalls DEF Telling
  <2> QED
    BY <1>3, <2>1 DEF SpinInv, ConnectingAwaited, Telling, Running
<1>7. CASE PostConnectNotifies(k)
  <2>1. mainq' = Append(mainq, Deliver("connected")) /\ "connected" \in Notification
    BY <1>1, <1>7, ConnectThreadAppends DEF Notification
  <2>2. LastNotes(mainq') \subseteq {"connected"}
    BY <1>1, <1>5, <2>1, LastNotesAppended
  <2>3. call'[k].pc \in Running
    BY <1>1, <1>7, ConnectThreadCalls DEF Running
  <2> QED
    BY <1>3, <2>2, <2>3 DEF SpinInv, ConnectingAwaited
<1>8. CASE ConnectSucceeds(k)
  <2>1. mainq' = Append(mainq, Resume(k, TRUE)) /\ call[k].pc = "postconnected"
    BY <1>1, <1>8, ConnectThreadAppends, ConnectThreadCalls
  <2>2. LastNotes(mainq') \subseteq LastNotes(mainq) /\ Starters(mainq') # {}
    BY <1>1, <2>1, JobsMade, LastNotesAppended, StartersAppended
  <2>3. \A j \in Call : call[j].pc \in Telling => call'[j].pc \in Telling
    BY <1>2, <2>1 DEF Telling
  <2> QED
    BY <1>1, <1>4, <2>2, <2>3, HandshakeKept DEF SpinInv
<1>9. CASE ConnectFailsEarly(k) \/ ConnectFailsLate(k)
  <2>1. PICK q \in {mainq, Append(mainq, Deliver("disconnected"))} :
            mainq' = Append(Append(q, Deliver("error")), Resume(k, FALSE))
    BY <1>1, <1>9, ConnectThreadAppends
  <2> DEFINE p == Append(q, Deliver("error"))
  <2>2. q \in Seq(Job) /\ "error" \in Notification
    BY <1>1, <1>5, <2>1, AppendType DEF Notification
  <2>3. p \in Seq(Job) /\ LastNotes(p) \subseteq {"error"}
    BY <1>5, <2>2, AppendType, LastNotesAppended
  <2>4. mainq' = Append(p, Resume(k, FALSE))
    BY <2>1
  <2> HIDE DEF p
  <2>5. LastNotes(mainq') \subseteq {"error"} /\ Starters(mainq') # {}
    BY <2>3, <2>4, JobsMade, LastNotesAppended, StartersAppended
  <2> QED
    BY <1>4, <2>5 DEF SpinInv, ConnectingAwaited
<1> QED
  BY <1>6, <1>7, <1>8, <1>9 DEF ConnectThread

LEMMA SpinStep ==
    ASSUME OrderedTasks, ~SettersMayFail, IInv, AnswersDue, AppearsFirst, SpinInv, [Next]_vars
    PROVE  SpinInv'
<1>1. TypeOK /\ mainq \in Seq(Job) /\ SpinnerAwaited /\ ConnectingAwaited
  BY DEF IInv, TypeOK, SpinInv
<1>2. CASE UNCHANGED <<mainq, call, state, sleepers, view>>
  BY <1>1, <1>2, HandshakeKept DEF SpinInv, SpinnerAwaited, Kept
<1>3. ASSUME UNCHANGED call, NEW x \in {"wake", "retry"}, mainq' = Append(mainq, Plain(x))
      PROVE  SpinInv'
  <2>1. Plain(x) \in Job /\ Plain(x).kind = x
    BY JobsMade
  <2>2. LastNotes(mainq') \subseteq LastNotes(mainq) /\ Starters(mainq') # {}
    BY <1>1, <1>3, <2>1, LastNotesAppended, StartersAppended
  <2> QED
    BY <1>1, <1>3, <2>2, HandshakeKept DEF SpinInv, SpinnerAwaited, Kept
<1>4. CASE SleepOver
  BY <1>3, <1>4 DEF SleepOver
<1>5. ASSUME NEW k \in Call, EventLoopThread(k) PROVE SpinInv'
  BY <1>2, <1>5 DEF EventLoopThread, LoopTop, ProcessEventsReturns, LoopFrame, sessionVars,
     viewVars
<1>6. CASE Environment
  <2>1. CASE ToolbarDisconnect \/ DisconnectAndDismiss \/ OnDisappear
    <3>1. state' = "disconnected" /\ UNCHANGED call
      BY <2>1 DEF ToolbarDisconnect, DisconnectAndDismiss, OnDisappear, SessionDisconnect
    <3>2. mainq' = mainq \/ mainq' = Append(mainq, Deliver("disconnected"))
      BY <1>1, <2>1, EnvironmentAppends
    <3>3. /\ "disconnected" \in Notification /\ Deliver("disconnected") \in Job
          /\ Deliver("disconnected").kind = "deliver"
          /\ Deliver("disconnected").note = "disconnected"
      BY JobsMade DEF Notification
    <3>4. "connecting" \in LastNotes(mainq') => "connecting" \in LastNotes(mainq)
      BY <1>1, <3>2, <3>3, LastNotesAppended
    <3> QED
      BY <1>1, <3>1, <3>4, HandshakeKept DEF SpinInv, SpinnerAwaited, Spinner
  <2>2. CASE TapRetry
    BY <1>3, <2>2 DEF TapRetry
  <2>3. CASE \E c \in Context : ConnectionLost(c)
    BY <1>2, <2>3 DEF ConnectionLost, sessionVars, viewVars
  <2> QED
    BY <1>6, <2>1, <2>2, <2>3 DEF Environment
<1>7. CASE UNCHANGED vars
  BY <1>2, <1>7 DEF vars, sessionVars, viewVars
<1> QED
  BY <1>4, <1>5, <1>6, <1>7, SpinMainActor, SpinConnectThread DEF Next

(* Whenever nothing is under way, the user is not looking at a spinner:     *)
(* every "connecting" that is still to be handled is followed by what has   *)
(* become of the connect (RDPSession.swift:310-329), and handlers           *)
(* that come too late for their session leave the state it ended in.        *)
THEOREM NoSpinnerInOrder ==
    ASSUME OrderedTasks, ~SettersMayFail
    PROVE  Spec => []NoSpinnerAtRest
<1>1. Init => SpinInv
  <2> SUFFICES ASSUME Init PROVE SpinInv
    OBVIOUS
  <2>1. mainq = <<Plain("appear")>> /\ Plain("appear").kind = "appear"
    BY DEF Init, Plain
  <2>2. Notes(mainq) = {}
    BY <2>1 DEF Notes
  <2> QED
    BY <2>2 DEF Init, SpinInv, SpinnerAwaited, ConnectingAwaited, LastNotes, Spinner
<1>2. IInv /\ AnswersDue /\ AppearsFirst /\ SpinInv /\ [Next]_vars => SpinInv'
  BY SpinStep
<1>3. IInv /\ SpinInv => NoSpinnerAtRest
  <2> SUFFICES ASSUME IInv, SpinInv, Quiescent PROVE state \notin Spinner
    BY DEF NoSpinnerAtRest, Spinner
  <2>1. mainq = <<>> /\ sleepers = 0 /\ \A k \in Call : call[k].pc \in {"idle", "answered"}
    BY DEF Quiescent
  <2>2. Notes(mainq) = {} /\ Starters(mainq) = {}
    BY <2>1 DEF Notes, Starters
  <2> QED
    BY <2>1, <2>2 DEF SpinInv, SpinnerAwaited, Kept, Running
<1> QED
  BY <1>1, <1>2, <1>3, Invariance, InitAnswersDue, StepKeepsAnswersDue, InitAppearsFirst,
     StepKeepsAppearsFirst, PTL DEF Spec

----------------------------------------------------------------------------
(* No hidden connection.                                                    *)

(* A context that is connected has not been freed, so it is the wrapper's.  *)
ConnectedLive == \A c \in ConnectedIn(bridge) : bridge[c].life = "live"

(* The last notification about a connection that is up says so, or its      *)
(* thread is about to say so.                                               *)
LastSaysConnected ==
    ConnectedIn(bridge) # {} =>
        \/ \E k \in Call : call[k].pc = "flagged"
        \/ LastNotes(mainq) \subseteq {"connected"}

(* No call is under way, and the state is connected for good or until the   *)
(* last notification makes it so.                                           *)
Settled ==
    /\ Starters(mainq) = {} /\ Connecting = {} /\ ~errorMessage
    /\ \/ state = "connected" /\ (Notes(mainq) = {} \/ view = "gone")
       \/ view # "gone" /\ Notes(mainq) # {}

(* A successful answer that performConnect has still to take.               *)
Successes(q) == {j \in DOMAIN q : q[j].kind = "resume" /\ q[j].ok}

(* Where a connection that is up has got to: its call is about to return,   *)
(* its answer waits in the queue, or the session is settled on it.          *)
ConnectionAccounted ==
    ConnectedIn(bridge) # {} =>
        \/ \E k \in Call : call[k].pc \in {"flagged", "postconnected"}
        \/ Successes(mainq) # {}
        \/ Settled

HiddenInv == ConnectedLive /\ LastSaysConnected /\ ConnectionAccounted

(* What OneStart says of a queue with a starter, of a call inside           *)
(* viDesk_connect and of an error.                                          *)
LEMMA OneStartSays ==
    ASSUME OneStart
    PROVE  /\ \A j \in Starters(mainq) :
                 /\ Starters(mainq) = {j} /\ Connecting = {} /\ ~errorMessage
                 /\ mainq[j].kind \in {"retry", "appear", "resume"}
           /\ \A k \in Connecting : Connecting = {k} /\ Starters(mainq) = {} /\ ~errorMessage
           /\ sleepers = 0
  BY DEF OneStart, Resting, Asking, Starting, InCall, Sole

LEMMA ConnectedIsContext ==
    ASSUME IInv, ConnectedLive
    PROVE  ConnectedIn(bridge) \subseteq {context}
  BY DEF IInv, ContextOwned, ConnectedLive, ConnectedIn

(* A successful answer stays in the queue until it is taken.                *)
LEMMA SuccessesKept ==
    ASSUME NEW q \in Seq(Job), NEW x \in Job
    PROVE  Successes(q) # {} => Successes(Append(q, x)) # {}
<1>1. \A j \in DOMAIN q : j \in DOMAIN Append(q, x) /\ Append(q, x)[j] = q[j]
  BY AppendIs
<1> QED
  BY <1>1 DEF Successes

LEMMA SuccessesTaken ==
    ASSUME mainq \in Seq(Job), NEW i \in Ready, mainq[i].kind # "resume"
    PROVE  Successes(mainq) # {} => Successes(Without(i)) # {}
<1>1. \A h \in DOMAIN mainq \ {i} :
          \E j \in DOMAIN Without(i) : From(i, j) = h /\ Without(i)[j] = mainq[h]
  BY WithoutIs
<1> QED
  BY <1>1 DEF Successes

(* Once settled, the handlers find a session only while the view is there.  *)
LEMMA SettledIsNotKept ==
    ASSUME TypeOK, OneStart, Settled
    PROVE  SessionAlive <=> view # "gone"
<1>1. ~Kept
  BY OneStartSays DEF Kept, Settled, Connecting
<1> QED
  BY <1>1, AliveIsKept

(* A step after which nothing is connected.                                 *)
LEMMA NothingConnected ==
    ASSUME ConnectedIn(bridge') = {}
    PROVE  HiddenInv'
  BY DEF HiddenInv, ConnectedLive, LastSaysConnected, ConnectionAccounted

LEMMA HiddenMainActor ==
    ASSUME OrderedTasks, ~AutoReconnect, IInv, AnswersDue, AppearsFirst, ManualInv, HiddenInv,
           MainActor
    PROVE  HiddenInv'
<1>1. /\ TypeOK /\ mainq \in Seq(Job) /\ OneStart /\ bridge \in Table
      /\ ConnectedLive /\ LastSaysConnected /\ ConnectionAccounted
  BY DEF IInv, TypeOK, BridgeTypeOK, Table, HiddenInv, ManualInv
<1>2. PICK i \in Ready :
          \/ DeliverNotification(i)
          \/ HandleNotification(i)
          \/ ViewModelConnect(i)
          \/ ViewModelReconnect(i)
          \/ PerformConnectResumed(i)
          \/ ReconnectTask(i)
          \/ ReconnectTaskWakes(i)
  BY DEF MainActor
<1>3. Without(i) \in Seq(Job) /\ mainq[i] \in Job /\ i \in DOMAIN mainq
  BY <1>1, WithoutType
<1>4. CASE DeliverNotification(i)
  <2>1. /\ mainq[i].kind = "deliver" /\ mainq[i].note \in Notification
        /\ mainq' = Append(Without(i), Handle(mainq[i].note))
    BY <1>1, <1>4, MainActorAppends
  <2>2. UNCHANGED <<bridge, state, call, view, errorMessage>>
    BY <1>4 DEF DeliverNotification, sessionVars, viewVars
  <2>3. LastNotes(mainq') \subseteq LastNotes(mainq) /\ Notes(mainq') # {}
    BY <1>1, <2>1, LastNotesDelivered
  <2>4. Handle(mainq[i].note) \in Job /\ Handle(mainq[i].note).kind = "handle"
    BY <2>1, JobsMade
  <2>5. Successes(mainq) # {} => Successes(mainq') # {}
    BY <1>1, <1>3, <2>1, <2>4, SuccessesTaken, SuccessesKept
  <2>6. ASSUME Settled PROVE Settled'
    <3>1. Starters(mainq') = {}
      BY <1>1, <1>3, <2>1, <2>4, <2>6, StartersTaken, StartersAppended DEF Settled
    <3>2. i \in Notes(mainq)
      BY <1>3, <2>1 DEF Notes
    <3>3. Connecting' = {}
      BY <2>2, <2>6 DEF Settled, Connecting
    <3> QED
      BY <2>2, <2>3, <2>6, <3>1, <3>2, <3>3 DEF Settled
  <2> QED
    BY <1>1, <2>2, <2>3, <2>5, <2>6 DEF HiddenInv, ConnectedLive, LastSaysConnected,
       ConnectionAccounted
<1>5. CASE HandleNotification(i)
  <2>1. mainq[i].kind = "handle" /\ mainq[i].note \in Notification /\ mainq' = Without(i)
    BY <1>1, <1>5, MainActorAppends DEF MayReconnect
  <2>2. UNCHANGED <<bridge, call, view, errorMessage>>
    BY <1>5 DEF HandleNotification, viewVars
  <2>3. /\ LastNotes(mainq') \subseteq LastNotes(mainq)
        /\ Notes(mainq') = {} => mainq[i].note \in LastNotes(mainq)
    BY <1>1, <2>1, LastNotesTaken
  <2>4. Successes(mainq) # {} => Successes(mainq') # {}
    BY <1>1, <2>1, SuccessesTaken
  <2>5. ASSUME Settled, ConnectedIn(bridge) # {} PROVE Settled'
    <3>1. Starters(mainq') = {} /\ Connecting' = {} /\ ~errorMessage'
      BY <1>1, <2>1, <2>2, <2>5, StartersTaken DEF Settled, Connecting
    <3>2. SessionAlive <=> view # "gone"
      BY <1>1, <2>5, SettledIsNotKept
    <3>3. CASE view = "gone"
      <4>1. state' = state
        BY <1>5, <3>2, <3>3 DEF HandleNotification
      <4> QED
        BY <2>2, <2>5, <3>1, <3>3, <4>1 DEF Settled
    <3>4. CASE view # "gone" /\ Notes(mainq') = {}
      <4>1. mainq[i].note = "connected"
        BY <1>1, <2>3, <2>5, <3>4 DEF LastSaysConnected, Settled, Connecting, Running
      <4>2. state' = "connected"
        BY <1>5, <3>2, <3>4, <4>1 DEF HandleNotification
      <4> QED
        BY <3>1, <3>4, <4>2 DEF Settled
    <3>5. CASE view # "gone" /\ Notes(mainq') # {}
      BY <2>2, <3>1, <3>5 DEF Settled
    <3> QED
      BY <3>3, <3>4, <3>5
  <2> QED
    BY <1>1, <2>2, <2>3, <2>4, <2>5 DEF HiddenInv, ConnectedLive, LastSaysConnected,
       ConnectionAccounted
<1>6. CASE ViewModelConnect(i)
  <2>1. context = NoContext
    BY <1>3, <1>6 DEF ViewModelConnect, AppearsFirst, Unstarted, Lacks
  <2>2. ConnectedIn(bridge) = {}
    <3>1. ConnectedIn(bridge) \subseteq {NoContext}
      BY <1>1, <2>1, ConnectedIsContext
    <3>2. ConnectedIn(bridge) \subseteq Context
      BY DEF ConnectedIn
    <3> QED
      BY <3>1, <3>2, NoContextAssumption
  <2>3. bridge' = bridge \/ PerformConnect("connect", bridge, FALSE)
    BY <1>6 DEF ViewModelConnect
  <2>4. ConnectedIn(bridge') = {}
    BY <1>1, <2>2, <2>3, PerformConnectTables
  <2> QED
    BY <2>4, NothingConnected
<1>7. CASE ViewModelReconnect(i)
  <2>1. ConnectedIn(ContextDisconnected) = {} /\ ContextDisconnected \in Table
    BY <1>1, ConnectedIsContext, ContextDisconnectedTables, ContextDisconnectType
  <2>2. PerformConnect("retry", ContextDisconnected, errorMessage)
    BY <1>7 DEF ViewModelReconnect
  <2>3. ConnectedIn(bridge') = {}
    BY <1>1, <2>1, <2>2, PerformConnectTables
  <2> QED
    BY <2>3, NothingConnected
<1>8. CASE PerformConnectResumed(i)
  <2>1. /\ mainq[i].kind = "resume" /\ mainq' = Without(i) /\ mainq[i].call \in Call
        /\ call'[mainq[i].call].pc = "answered"
        /\ \A j \in Call \ {mainq[i].call} : call'[j] = call[j]
    BY <1>1, <1>8, MainActorAppends, MainActorCalls
  <2>2. bridge' = bridge /\ view' = view
    BY <1>8 DEF PerformConnectResumed
  <2>3. Starters(mainq) = {i} /\ Connecting = {} /\ ~errorMessage
    BY <1>1, <1>3, <2>1, OneStartSays DEF Starters
  <2>4. LastNotes(mainq') \subseteq LastNotes(mainq)
    BY <1>1, <2>1, LastNotesTaken
  <2>5. Starters(mainq') = {}
    <3>1. Sole(mainq, {"resume"})
      BY <2>1, <2>3 DEF Sole
    <3>2. Sole(Without(i), {})
      BY <1>1, <2>3, <3>1, SoleTaken
    <3> QED
      BY <2>1, <3>2 DEF Sole
  <2>6. Connecting' = {}
    BY <2>1, <2>3 DEF Connecting, Running
  <2>7. ASSUME ConnectedIn(bridge) # {} PROVE Settled'
    <3>1. \A k \in Call : call[k].pc \notin {"flagged", "postconnected"}
      BY <2>3 DEF Connecting, Running
    <3>2. ~Settled
      BY <2>3 DEF Settled
    <3>3. PICK j \in Successes(mainq) : TRUE
      BY <1>1, <2>7, <3>1, <3>2 DEF ConnectionAccounted
    <3>4. j = i /\ mainq[i].ok
      BY <2>3, <3>3 DEF Successes, Starters
    <3>5. state' = "connected"
      BY <1>8, <3>4 DEF PerformConnectResumed
    <3>6. ~errorMessage'
      <4>1. errorMessage' = (errorMessage /\ call[mainq[i].call].by # "retry")
        BY <1>8, <3>4 DEF PerformConnectResumed
      <4> QED
        BY <2>3, <4>1, Zenon
    <3> QED
      BY <2>2, <2>5, <2>6, <3>5, <3>6 DEF Settled
  <2>8. \A k \in Call : call[k].pc # "flagged"
    BY <2>3 DEF Connecting, Running
  <2> QED
    BY <1>1, <2>2, <2>4, <2>7, <2>8 DEF HiddenInv, ConnectedLive, LastSaysConnected,
       ConnectionAccounted
<1>9. CASE ReconnectTask(i) \/ ReconnectTaskWakes(i)
  <2>1. mainq[i].kind \in {"reconnect", "wake"} /\ i \in Starters(mainq)
    BY <1>3, <1>9 DEF ReconnectTask, ReconnectTaskWakes, Starters
  <2> QED
    BY <1>1, <2>1, OneStartSays
<1> QED
  BY <1>2, <1>4, <1>5, <1>6, <1>7, <1>8, <1>9

LEMMA HiddenConnectThread ==
    ASSUME IInv, NothingFreed, ManualInv, HiddenInv, NEW k \in Call, ConnectThread(k)
    PROVE  HiddenInv'
<1>1. /\ TypeOK /\ mainq \in Seq(Job) /\ OneStart /\ bridge \in Table
      /\ ConnectedLive /\ LastSaysConnected /\ ConnectionAccounted
  BY DEF IInv, TypeOK, BridgeTypeOK, Table, HiddenInv, ManualInv
<1>2. call[k].pc \in Running /\ \A j \in Call \ {k} : call'[j] = call[j]
  BY <1>1, ConnectThreadCalls
<1>3. Connecting = {k} /\ Starters(mainq) = {}
  BY <1>1, <1>2, OneStartSays DEF Connecting
<1>4. call[k].ctx \in Context /\ bridge[call[k].ctx].life = "live"
  <2>1. call[k].ctx \in Context /\ bridge[call[k].ctx].life # "unborn"
    BY <1>2 DEF IInv, ThreadsUseBorn
  <2>2. bridge[call[k].ctx].life \in Life
    BY <1>1, <2>1 DEF Table, ViDeskContext
  <2> QED
    BY <2>1, <2>2 DEF NothingFreed, Life
<1>5. call[k].pc \notin {"flagged", "postconnected"} => ConnectedIn(bridge) = {}
  <2>1. call[k].pc \notin {"flagged", "postconnected"} =>
            \A j \in Call : call[j].pc \notin {"flagged", "postconnected"}
    BY <1>3 DEF Connecting, Running
  <2>2. Successes(mainq) = {} /\ ~Settled
    BY <1>3 DEF Successes, Starters, Settled
  <2> QED
    BY <1>1, <2>1, <2>2 DEF ConnectionAccounted
<1>6. CASE ConnectStarts(k)
  <2>1. ConnectedIn(bridge') = {}
    BY <1>1, <1>5, <1>6, ConnectThreadCalls DEF ConnectStarts
  <2> QED
    BY <2>1, NothingConnected
<1>7. CASE PostConnect(k)
  <2>1. call[k].pc = "handshake" /\ call'[k].pc = "flagged"
    BY <1>1, <1>7, ConnectThreadCalls
  <2>2. bridge' = PostConnected(bridge, call[k].ctx)
    BY <1>7 DEF PostConnect
  <2>3. ConnectedIn(bridge') = {call[k].ctx}
    BY <1>1, <1>4, <1>5, <2>1, <2>2, ConnectedTables
  <2>4. ConnectedLive'
    <3>1. bridge'[call[k].ctx].life = "live"
      BY <1>1, <1>4, <2>2, LivesKept DEF SameLives
    <3>2. \A c \in ConnectedIn(bridge') : bridge'[c].life = "live"
      BY <2>3, <3>1
    <3> QED
      BY <3>2 DEF ConnectedLive
  <2> QED
    BY <2>1, <2>4 DEF HiddenInv, LastSaysConnected, ConnectionAccounted
<1>11. CASE PostConnectNotifies(k)
  <2>1. mainq' = Append(mainq, Deliver("connected")) /\ "connected" \in Notification
    BY <1>1, <1>11, ConnectThreadAppends DEF Notification
  <2>2. LastNotes(mainq') \subseteq {"connected"}
    BY <1>1, <2>1, JobsMade, LastNotesAppended
  <2>3. bridge' = bridge /\ call'[k].pc = "postconnected"
    BY <1>1, <1>11, ConnectThreadCalls DEF PostConnectNotifies
  <2> QED
    BY <1>1, <2>2, <2>3 DEF HiddenInv, ConnectedLive, LastSaysConnected, ConnectionAccounted
<1>8. CASE ConnectSucceeds(k)
  <2>1. mainq' = Append(mainq, Resume(k, TRUE)) /\ bridge' = bridge
    BY <1>1, <1>8, ConnectThreadAppends DEF ConnectSucceeds
  <2>2. /\ Resume(k, TRUE) \in Job /\ Resume(k, TRUE).kind = "resume"
        /\ Resume(k, TRUE).ok = TRUE
    BY JobsMade
  <2>3. LastNotes(mainq') \subseteq LastNotes(mainq)
    BY <1>1, <2>1, <2>2, LastNotesAppended
  <2>4. Successes(mainq') # {}
    <3>1. /\ Len(mainq) + 1 \in DOMAIN mainq'
          /\ mainq'[Len(mainq) + 1] = Resume(k, TRUE)
      <4>1. mainq \in Seq(Job)
        BY <1>1 DEF IInv, TypeOK
      <4>2. LET r == Append(mainq, Resume(k, TRUE)) IN
              /\ DOMAIN r = 1..(Len(mainq) + 1)
              /\ r[Len(mainq) + 1] = Resume(k, TRUE)
        BY <2>2, <4>1, AppendIs
      <4>3. Len(mainq) + 1 \in 1..(Len(mainq) + 1)
        BY <4>1
      <4> QED
        BY <2>1, <4>2, <4>3
    <3> QED
      BY <2>2, <3>1 DEF Successes
  <2>5. \A j \in Call : call[j].pc # "flagged"
    BY <1>1, <1>3, <1>8, ConnectThreadCalls DEF Connecting, Running
  <2> QED
    BY <1>1, <2>1, <2>3, <2>4, <2>5 DEF HiddenInv, ConnectedLive, LastSaysConnected,
       ConnectionAccounted
<1>9. CASE ConnectFailsEarly(k)
  <2>1. call[k].pc = "handshake"
    BY <1>1, <1>9, ConnectThreadCalls
  <2>2. bridge' = bridge \/ bridge' = FreeRDPDisconnected(bridge, call[k].ctx)
    BY <1>9 DEF ConnectFailsEarly
  <2>3. ConnectedIn(bridge') = {}
    BY <1>1, <1>4, <1>5, <2>1, <2>2, ConnectedTables
  <2> QED
    BY <2>3, NothingConnected
<1>10. CASE ConnectFailsLate(k)
  <2>1. bridge' = FreeRDPDisconnected(bridge, call[k].ctx)
    BY <1>10 DEF ConnectFailsLate
  <2>2. call[k].ctx = context
    BY <1>4 DEF IInv, ContextOwned
  <2>3. ConnectedIn(bridge') = {}
    BY <1>1, <1>4, <2>1, <2>2, ConnectedTables, ConnectedIsContext
  <2> QED
    BY <2>3, NothingConnected
<1> QED
  BY <1>6, <1>7, <1>8, <1>9, <1>10, <1>11 DEF ConnectThread

LEMMA HiddenEnvironment ==
    ASSUME IInv, ManualInv, HiddenInv, Environment
    PROVE  HiddenInv'
<1>1. /\ TypeOK /\ OneStart /\ bridge \in Table
      /\ ConnectedLive /\ LastSaysConnected /\ ConnectionAccounted
  BY DEF IInv, TypeOK, BridgeTypeOK, Table, HiddenInv, ManualInv
<1>2. CASE ToolbarDisconnect \/ DisconnectAndDismiss \/ OnDisappear
  <2>1. bridge' = ContextDisconnected
    BY <1>2 DEF ToolbarDisconnect, DisconnectAndDismiss, OnDisappear, SessionDisconnect
  <2>2. ConnectedIn(bridge') = {}
    BY <1>1, <2>1, ConnectedIsContext, ContextDisconnectedTables
  <2> QED
    BY <2>2, NothingConnected
<1>3. CASE TapRetry
  <2>1. errorMessage /\ bridge' = bridge
    BY <1>3 DEF TapRetry
  <2>2. Starters(mainq) = {} /\ Connecting = {}
    BY <1>1, <2>1, OneStartSays
  <2>3. /\ Successes(mainq) = {} /\ ~Settled
        /\ \A k \in Call : call[k].pc \notin {"flagged", "postconnected"}
    BY <2>1, <2>2 DEF Successes, Starters, Settled, Connecting, Running
  <2>4. ConnectedIn(bridge') = {}
    BY <1>1, <2>1, <2>3 DEF ConnectionAccounted
  <2> QED
    BY <2>4, NothingConnected
<1>4. ASSUME NEW c \in Context, ConnectionLost(c) PROVE HiddenInv'
  <2>1. /\ bridge' = TransportLost(bridge, c)
        /\ UNCHANGED <<mainq, call, state, view, errorMessage>>
    BY <1>4 DEF ConnectionLost, sessionVars, viewVars
  <2>2. ConnectedIn(bridge') = ConnectedIn(bridge) /\ SameLives(bridge, bridge')
    BY <1>1, <2>1, ConnectedTables, LivesKept
  <2>3. ConnectedLive'
    <3>1. \A d \in ConnectedIn(bridge') : d \in Context /\ bridge'[d].life = "live"
      BY <1>1, <2>2 DEF ConnectedLive, SameLives, ConnectedIn
    <3> QED
      BY <3>1 DEF ConnectedLive
  <2>4. LastSaysConnected'
    BY <1>1, <2>1, <2>2 DEF LastSaysConnected
  <2>5. Settled => Settled'
    BY <2>1 DEF Settled, Connecting
  <2>6. ConnectionAccounted'
    BY <1>1, <2>1, <2>2, <2>5 DEF ConnectionAccounted
  <2> QED
    BY <2>3, <2>4, <2>6 DEF HiddenInv
<1> QED
  BY <1>2, <1>3, <1>4 DEF Environment

LEMMA HiddenStep ==
    ASSUME OrderedTasks, ~AutoReconnect, IInv, NothingFreed, AnswersDue, AppearsFirst,
           ManualInv, HiddenInv, [Next]_vars
    PROVE  HiddenInv'
<1>1. CASE UNCHANGED <<bridge, mainq, call, state, view, errorMessage>>
  <2>1. Settled => Settled'
    BY <1>1 DEF Settled, Connecting
  <2> QED
    BY <1>1, <2>1 DEF HiddenInv, ConnectedLive, LastSaysConnected, ConnectionAccounted
<1>2. CASE SleepOver
  BY <1>2, OneStartSays DEF SleepOver, ManualInv
<1>3. ASSUME NEW k \in Call, EventLoopThread(k) PROVE HiddenInv'
  BY <1>1, <1>3 DEF EventLoopThread, LoopTop, ProcessEventsReturns, LoopFrame, sessionVars,
     viewVars
<1>4. CASE UNCHANGED vars
  BY <1>1, <1>4 DEF vars, sessionVars, viewVars
<1> QED
  BY <1>2, <1>3, <1>4, HiddenMainActor, HiddenConnectThread, HiddenEnvironment DEF Next

(* With config.autoReconnect off, whenever nothing is under way a           *)
(* connection that is up is the wrapper's and the session shows connected:  *)
(* no late notification (RDPSession.swift:310-329) leaves it at             *)
(* disconnected, error or a spinner, and a retry leaves no second one.      *)
THEOREM NoHiddenConnectionWithoutAutoReconnect ==
    ASSUME OrderedTasks, ~AutoReconnect
    PROVE  Spec => []NoHiddenConnection
<1>1. Init => HiddenInv
  BY DEF Init, BridgeInit, HiddenInv, ConnectedLive, LastSaysConnected, ConnectionAccounted,
     ConnectedIn
<1>2. IInv /\ NothingFreed /\ AnswersDue /\ AppearsFirst /\ ManualInv /\ HiddenInv
          /\ [Next]_vars => HiddenInv'
  BY HiddenStep
<1>3. IInv /\ HiddenInv => NoHiddenConnection
  <2> SUFFICES ASSUME IInv, HiddenInv, NEW c \in Context, Quiescent, bridge[c].isConnected
               PROVE  state = "connected" /\ context = c
    BY DEF NoHiddenConnection
  <2>1. c \in ConnectedIn(bridge)
    BY DEF ConnectedIn
  <2>2. context = c
    BY <2>1, ConnectedIsContext DEF HiddenInv
  <2>3. mainq = <<>> /\ \A k \in Call : call[k].pc \in {"idle", "answered"}
    BY DEF Quiescent
  <2>4. Notes(mainq) = {} /\ Successes(mainq) = {}
    BY <2>3 DEF Notes, Successes
  <2>5. Settled
    BY <2>1, <2>3, <2>4 DEF HiddenInv, ConnectionAccounted
  <2> QED
    BY <2>2, <2>4, <2>5 DEF Settled
<1> QED
  BY <1>1, <1>2, <1>3, Invariance, NothingFreedInvariance, InitAnswersDue,
     StepKeepsAnswersDue, InitAppearsFirst, StepKeepsAppearsFirst, ManualInvariance,
     PTL DEF Spec

=============================================================================
