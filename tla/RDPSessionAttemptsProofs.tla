---------------------- MODULE RDPSessionAttemptsProofs ----------------------
(****************************************************************************)
(* How often RDPSession reconnects, for every value of its constants and    *)
(* for tasks in any order.  What leads to a connection or to its loss is a  *)
(* chain: the view's task or a retry, a connect call, the context it        *)
(* connects, the two tasks of the notification that it is disconnected, the *)
(* reconnect task, its sleep, its waking, the next connect call.  Each link *)
(* makes at most one next link and ends; only a tap of retry adds a chain.  *)
(****************************************************************************)
EXTENDS RDPSessionProofs, FiniteSetTheorems

USE NoContextAssumption, NoCallAssumption, AttemptsAssumption, RetriesAssumption

----------------------------------------------------------------------------
(* Counting the jobs of a queue.                                            *)

Jobs(q, S) == {j \in DOMAIN q : q[j] \in S}
Count(q, S) == Cardinality(Jobs(q, S))

One(x, S) == IF x \in S THEN 1 ELSE 0

LEMMA CountType ==
    ASSUME NEW q \in Seq(Job), NEW S
    PROVE  IsFiniteSet(Jobs(q, S)) /\ Count(q, S) \in Nat
<1>1. Len(q) \in Nat /\ DOMAIN q = 1..Len(q)
  OBVIOUS
<1>2. IsFiniteSet(1..Len(q))
  BY <1>1, FS_Interval
<1>3. Jobs(q, S) \in SUBSET (1..Len(q))
  BY <1>1 DEF Jobs
<1>4. IsFiniteSet(Jobs(q, S))
  BY <1>2, <1>3, FS_Subset
<1> QED
  BY <1>4, FS_CardinalityType DEF Count

(* A job that is appended counts once.                                      *)
LEMMA CountAppended ==
    ASSUME NEW q \in Seq(Job), NEW x \in Job, NEW S
    PROVE  Append(q, x) \in Seq(Job) /\ Count(Append(q, x), S) = Count(q, S) + One(x, S)
<1>1. /\ Len(q) \in Nat /\ DOMAIN q = 1..Len(q)
      /\ DOMAIN Append(q, x) = 1..(Len(q) + 1)
      /\ \A j \in 1..Len(q) : Append(q, x)[j] = q[j]
      /\ Append(q, x)[Len(q) + 1] = x
      /\ Append(q, x) \in Seq(Job)
  BY AppendIs
<1>2. IsFiniteSet(Jobs(q, S)) /\ Count(q, S) \in Nat
  BY CountType
<1>3. Len(q) + 1 \notin Jobs(q, S)
  BY <1>1 DEF Jobs
<1>4. CASE x \in S
  <2>1. Jobs(Append(q, x), S) = Jobs(q, S) \cup {Len(q) + 1}
    BY <1>1, <1>4 DEF Jobs
  <2> QED
    BY <1>1, <1>2, <1>3, <1>4, <2>1, FS_AddElement DEF Count, One
<1>5. CASE x \notin S
  <2>1. Jobs(Append(q, x), S) = Jobs(q, S)
    BY <1>1, <1>5 DEF Jobs
  <2> QED
    BY <1>1, <1>2, <1>5, <2>1 DEF Count, One
<1> QED
  BY <1>4, <1>5

(* A job that is taken counted once.                                        *)
LEMMA CountTaken ==
    ASSUME mainq \in Seq(Job), NEW i \in Ready, NEW S
    PROVE  /\ Without(i) \in Seq(Job) /\ mainq[i] \in Job
           /\ Count(mainq, S) = Count(Without(i), S) + One(mainq[i], S)
<1> DEFINE q == Without(i)
           f == [j \in Jobs(q, S) |-> From(i, j)]
<1>1. q \in Seq(Job) /\ mainq[i] \in Job /\ i \in DOMAIN mainq
  BY WithoutType
<1>2. /\ \A j \in DOMAIN q : From(i, j) \in DOMAIN mainq \ {i} /\ q[j] = mainq[From(i, j)]
      /\ \A h \in DOMAIN mainq \ {i} : \E j \in DOMAIN q : From(i, j) = h
      /\ \A j, h \in DOMAIN q : From(i, j) = From(i, h) => j = h
  BY WithoutIs
<1> HIDE DEF q
<1>3. f \in [Jobs(q, S) -> Jobs(mainq, S) \ {i}]
  BY <1>2 DEF Jobs
<1>4. \A j, h \in Jobs(q, S) : f[j] = f[h] => j = h
  BY <1>2 DEF Jobs
<1>5. \A h \in Jobs(mainq, S) \ {i} : \E j \in Jobs(q, S) : f[j] = h
  BY <1>2 DEF Jobs
<1> HIDE DEF f
<1>6. f \in Bijection(Jobs(q, S), Jobs(mainq, S) \ {i})
  BY <1>3, <1>4, <1>5 DEF Bijection, Injection, Surjection, IsInjective
<1>7. ExistsBijection(Jobs(q, S), Jobs(mainq, S) \ {i})
  BY <1>6 DEF ExistsBijection
<1>8. IsFiniteSet(Jobs(q, S)) /\ IsFiniteSet(Jobs(mainq, S))
      /\ Count(q, S) \in Nat /\ Count(mainq, S) \in Nat
  BY <1>1, CountType
<1>9. Cardinality(Jobs(mainq, S) \ {i}) = Cardinality(Jobs(q, S))
  BY <1>7, <1>8, FS_Bijection
<1>10. i \in Jobs(mainq, S) <=> mainq[i] \in S
  BY <1>1 DEF Jobs
<1>11. Cardinality(Jobs(mainq, S) \ {i}) =
           IF i \in Jobs(mainq, S) THEN Count(mainq, S) - 1 ELSE Count(mainq, S)
  BY <1>8, FS_RemoveElement DEF Count
<1>12. Count(mainq, S) = Count(q, S) + One(mainq[i], S)
  BY <1>8, <1>9, <1>10, <1>11 DEF Count, One
<1> QED
  BY <1>1, <1>12 DEF q

----------------------------------------------------------------------------
(* The links of the chains.                                                 *)

(* The jobs that are links: they start a connect call, or become the task   *)
(* that does.                                                               *)
ChainJobs ==
    {x \in Job : \/ x.kind \in {"appear", "retry", "reconnect", "wake"}
                 \/ x.kind \in {"deliver", "handle"} /\ x.note = "disconnected"}
Reconnects == {x \in Job : x.kind = "reconnect"}

(* The connect calls that have not come to PostConnect or failed yet.       *)
ChainCalls == {k \in Call : call[k].pc \in {"dispatched", "handshake"}}

Chains ==
    Cardinality(ChainCalls) + Cardinality(ConnectedIn(bridge))
        + Count(mainq, ChainJobs) + sleepers

Finite == IsFiniteSet(ChainCalls) /\ IsFiniteSet(ConnectedIn(bridge))

ChainInv ==
    /\ Finite
    /\ Chains <= 1 + retries
    /\ reconnectAttempt + Count(mainq, Reconnects) <= MaxReconnectAttempts + retries

(* Which jobs count.                                                        *)
LEMMA LinksAre ==
    /\ \A x \in Job : /\ x.kind \in {"deliver", "handle"} =>
                            One(x, ChainJobs) = IF x.note = "disconnected" THEN 1 ELSE 0
                      /\ x.kind = "resume" => One(x, ChainJobs) = 0
                      /\ x.kind \in {"appear", "retry", "reconnect", "wake"} =>
                            One(x, ChainJobs) = 1
                      /\ One(x, Reconnects) = IF x.kind = "reconnect" THEN 1 ELSE 0
                      /\ One(x, Reconnects) <= One(x, ChainJobs)
                      /\ One(x, ChainJobs) \in 0..1 /\ One(x, Reconnects) \in 0..1
    /\ Reconnects \subseteq ChainJobs
  BY DEF One, ChainJobs, Reconnects

(* The tasks of a connect call's answer: none is a link but the one of a    *)
(* disconnection.                                                           *)
LEMMA AnswersCounted ==
    ASSUME NEW q \in Seq(Job)
    PROVE  /\ \A n \in {"connecting", "connected", "error"} :
                 LET r == Append(q, Deliver(n)) IN
                    /\ r \in Seq(Job) /\ Count(r, ChainJobs) = Count(q, ChainJobs)
                    /\ Count(r, Reconnects) = Count(q, Reconnects)
           /\ \A k \in Call : \A ok \in BOOLEAN :
                 LET r == Append(q, Resume(k, ok)) IN
                    /\ r \in Seq(Job) /\ Count(r, ChainJobs) = Count(q, ChainJobs)
                    /\ Count(r, Reconnects) = Count(q, Reconnects)
           /\ LET r == Append(q, Deliver("disconnected")) IN
                 /\ r \in Seq(Job) /\ Count(r, ChainJobs) = Count(q, ChainJobs) + 1
                 /\ Count(r, Reconnects) = Count(q, Reconnects)
<1>1. Count(q, ChainJobs) \in Nat /\ Count(q, Reconnects) \in Nat
  BY CountType
<1>2. ASSUME NEW n \in {"connecting", "connected", "error"}
      PROVE  LET r == Append(q, Deliver(n)) IN
                /\ r \in Seq(Job) /\ Count(r, ChainJobs) = Count(q, ChainJobs)
                /\ Count(r, Reconnects) = Count(q, Reconnects)
  <2>1. /\ Deliver(n) \in Job /\ One(Deliver(n), ChainJobs) = 0
        /\ One(Deliver(n), Reconnects) = 0
    BY <1>2, JobsMade, LinksAre DEF Notification
  <2> QED
    BY <1>1, <2>1, CountAppended
<1>3. ASSUME NEW k \in Call, NEW ok \in BOOLEAN
      PROVE  LET r == Append(q, Resume(k, ok)) IN
                /\ r \in Seq(Job) /\ Count(r, ChainJobs) = Count(q, ChainJobs)
                /\ Count(r, Reconnects) = Count(q, Reconnects)
  <2>1. /\ Resume(k, ok) \in Job /\ One(Resume(k, ok), ChainJobs) = 0
        /\ One(Resume(k, ok), Reconnects) = 0
    BY <1>3, JobsMade, LinksAre
  <2> QED
    BY <1>1, <2>1, CountAppended
<1>4. LET r == Append(q, Deliver("disconnected")) IN
         /\ r \in Seq(Job) /\ Count(r, ChainJobs) = Count(q, ChainJobs) + 1
         /\ Count(r, Reconnects) = Count(q, Reconnects)
  <2>1. /\ Deliver("disconnected") \in Job /\ One(Deliver("disconnected"), ChainJobs) = 1
        /\ One(Deliver("disconnected"), Reconnects) = 0
    BY JobsMade, LinksAre DEF Notification
  <2> QED
    BY <1>1, <2>1, CountAppended
<1> QED
  BY <1>2, <1>3, <1>4

(* A connect call that fails brings its error and its answer.               *)
LEMMA FailureCounted ==
    ASSUME NEW q \in Seq(Job), NEW k \in Call
    PROVE  LET r == Append(Append(q, Deliver("error")), Resume(k, FALSE)) IN
              /\ r \in Seq(Job) /\ Count(r, ChainJobs) = Count(q, ChainJobs)
              /\ Count(r, Reconnects) = Count(q, Reconnects)
<1> DEFINE p == Append(q, Deliver("error"))
<1>1. /\ p \in Seq(Job) /\ Count(p, ChainJobs) = Count(q, ChainJobs)
      /\ Count(p, Reconnects) = Count(q, Reconnects)
  BY AnswersCounted
<1> HIDE DEF p
<1>2. LET r == Append(p, Resume(k, FALSE)) IN
         /\ r \in Seq(Job) /\ Count(r, ChainJobs) = Count(p, ChainJobs)
         /\ Count(r, Reconnects) = Count(p, Reconnects)
  BY <1>1, AnswersCounted
<1> QED
  BY <1>1, <1>2 DEF p

(* There are no more reconnect tasks than links.                            *)
LEMMA ReconnectsAreLinks ==
    ASSUME NEW q \in Seq(Job)
    PROVE  Count(q, Reconnects) <= Count(q, ChainJobs)
<1>1. Jobs(q, Reconnects) \in SUBSET Jobs(q, ChainJobs)
  BY LinksAre DEF Jobs
<1>2. IsFiniteSet(Jobs(q, ChainJobs))
  BY CountType
<1> QED
  BY <1>1, <1>2, FS_Subset DEF Count

(* What the move of one call does to their number.                          *)
LEMMA CallsCounted ==
    ASSUME IsFiniteSet(ChainCalls), NEW k \in Call,
           \A j \in Call \ {k} : call'[j] = call[j]
    PROVE  /\ IsFiniteSet(ChainCalls')
           /\ Cardinality(ChainCalls) \in Nat /\ Cardinality(ChainCalls') \in Nat
           /\ Cardinality(ChainCalls') <= Cardinality(ChainCalls) + 1
           /\ call[k].pc \in {"dispatched", "handshake"}
                 \/ call'[k].pc \notin {"dispatched", "handshake"}
                 => Cardinality(ChainCalls') <= Cardinality(ChainCalls)
           /\ call[k].pc \in {"dispatched", "handshake"}
                 /\ call'[k].pc \notin {"dispatched", "handshake"}
                 => Cardinality(ChainCalls') = Cardinality(ChainCalls) - 1
<1>1. Cardinality(ChainCalls) \in Nat
  BY FS_CardinalityType
<1>2. k \in ChainCalls <=> call[k].pc \in {"dispatched", "handshake"}
  BY DEF ChainCalls
<1>3. CASE call'[k].pc \in {"dispatched", "handshake"}
  <2>1. ChainCalls' = ChainCalls \cup {k}
    BY <1>3 DEF ChainCalls
  <2>2. IsFiniteSet(ChainCalls \cup {k})
        /\ Cardinality(ChainCalls \cup {k}) =
               IF k \in ChainCalls THEN Cardinality(ChainCalls) ELSE Cardinality(ChainCalls) + 1
    BY FS_AddElement
  <2> QED
    BY <1>1, <1>2, <1>3, <2>1, <2>2
<1>4. CASE call'[k].pc \notin {"dispatched", "handshake"}
  <2>1. ChainCalls' = ChainCalls \ {k}
    BY <1>4 DEF ChainCalls
  <2>2. IsFiniteSet(ChainCalls \ {k})
        /\ Cardinality(ChainCalls \ {k}) =
               IF k \in ChainCalls THEN Cardinality(ChainCalls) - 1 ELSE Cardinality(ChainCalls)
    BY FS_RemoveElement
  <2>3. Cardinality(ChainCalls \ {k}) \in Nat
    BY <2>2, FS_CardinalityType
  <2> QED
    BY <1>1, <1>2, <1>4, <2>1, <2>2, <2>3
<1> QED
  BY <1>3, <1>4

(* What one context that is connected or disconnected does to theirs.       *)
LEMMA ContextsCounted ==
    ASSUME NEW b \in Table, IsFiniteSet(ConnectedIn(b)), NEW c \in Context
    PROVE  LET n == Cardinality(ConnectedIn(b))
               up == ConnectedIn(PostConnected(b, c))
               down == ConnectedIn(FreeRDPDisconnected(b, c))
           IN  /\ n \in Nat
               /\ IsFiniteSet(up) /\ Cardinality(up) \in Nat /\ Cardinality(up) <= n + 1
               /\ IsFiniteSet(down) /\ Cardinality(down) \in Nat
               /\ Cardinality(down) = IF b[c].isConnected THEN n - 1 ELSE n
<1> DEFINE n == Cardinality(ConnectedIn(b))
<1>1. n \in Nat
  BY FS_CardinalityType
<1>2. c \in ConnectedIn(b) <=> b[c].isConnected
  BY DEF ConnectedIn
<1>3. /\ ConnectedIn(PostConnected(b, c)) = ConnectedIn(b) \cup {c}
      /\ ConnectedIn(FreeRDPDisconnected(b, c)) = ConnectedIn(b) \ {c}
  BY ConnectedTables
<1>4. /\ IsFiniteSet(ConnectedIn(b) \cup {c})
      /\ Cardinality(ConnectedIn(b) \cup {c}) = IF c \in ConnectedIn(b) THEN n ELSE n + 1
  BY FS_AddElement
<1>5. /\ IsFiniteSet(ConnectedIn(b) \ {c})
      /\ Cardinality(ConnectedIn(b) \ {c}) = IF c \in ConnectedIn(b) THEN n - 1 ELSE n
  BY FS_RemoveElement
<1>6. Cardinality(ConnectedIn(b) \ {c}) \in Nat
  BY <1>5, FS_CardinalityType
<1> QED
  BY <1>1, <1>2, <1>3, <1>4, <1>5, <1>6

(* Disconnecting the wrapper's context turns one link, the connected        *)
(* context, into the next, the task of the notification.                    *)
LEMMA DisconnectCounted ==
    ASSUME TypeOK, Finite, NEW q \in Seq(Job)
    PROVE  LET p == Posted(q, ContextDisconnectPosts)
               down == ConnectedIn(ContextDisconnected)
           IN  /\ p \in Seq(Job) /\ IsFiniteSet(down) /\ Cardinality(down) \in Nat
               /\ Cardinality(down) + Count(p, ChainJobs)
                     = Cardinality(ConnectedIn(bridge)) + Count(q, ChainJobs)
               /\ Count(p, Reconnects) = Count(q, Reconnects)
<1> DEFINE p == Posted(q, ContextDisconnectPosts)
           down == ConnectedIn(ContextDisconnected)
           n == Cardinality(ConnectedIn(bridge))
<1>1. /\ bridge \in Table /\ context \in Context \cup {NoContext}
      /\ IsFiniteSet(ConnectedIn(bridge)) /\ n \in Nat
  BY FS_CardinalityType DEF TypeOK, BridgeTypeOK, Table, Finite
<1>2. p = IF context # NoContext /\ bridge[context].isConnected
          THEN Append(q, Deliver("disconnected")) ELSE q
  BY DisconnectAppends
<1>3. down = ConnectedIn(bridge) \ {context}
  BY ContextDisconnectedTables
<1>4. /\ IsFiniteSet(down)
      /\ Cardinality(down) = IF context \in ConnectedIn(bridge) THEN n - 1 ELSE n
  <2>1. /\ IsFiniteSet(ConnectedIn(bridge) \ {context})
        /\ Cardinality(ConnectedIn(bridge) \ {context}) =
               IF context \in ConnectedIn(bridge) THEN n - 1 ELSE n
    BY <1>1, FS_RemoveElement
  <2> QED
    BY <1>3, <2>1
<1>5. Cardinality(down) \in Nat
  BY <1>4, FS_CardinalityType
<1>6. context \in ConnectedIn(bridge) <=> context # NoContext /\ bridge[context].isConnected
  BY <1>1 DEF ConnectedIn
<1>7. Deliver("disconnected") \in Job /\ One(Deliver("disconnected"), ChainJobs) = 1
      /\ One(Deliver("disconnected"), Reconnects) = 0
  BY JobsMade, LinksAre DEF Notification
<1>8. /\ Append(q, Deliver("disconnected")) \in Seq(Job)
      /\ Count(Append(q, Deliver("disconnected")), ChainJobs) = Count(q, ChainJobs) + 1
      /\ Count(Append(q, Deliver("disconnected")), Reconnects) = Count(q, Reconnects) + 0
      /\ Count(q, ChainJobs) \in Nat /\ Count(q, Reconnects) \in Nat
  BY <1>7, CountAppended, CountType
<1> HIDE DEF p, down, n
<1>9. CASE context \in ConnectedIn(bridge)
  BY <1>1, <1>2, <1>4, <1>5, <1>6, <1>8, <1>9 DEF n, p, down
<1>10. CASE context \notin ConnectedIn(bridge)
  BY <1>1, <1>2, <1>4, <1>5, <1>6, <1>8, <1>10 DEF n, p, down
<1> QED
  BY <1>9, <1>10 DEF p, down

----------------------------------------------------------------------------
(* Every step keeps the number of chains or lowers it; a retry adds one.    *)

(* Everything that is counted is a number.                                  *)
LEMMA CountsType ==
    ASSUME IInv, Finite
    PROVE  /\ mainq \in Seq(Job) /\ bridge \in Table
           /\ Cardinality(ChainCalls) \in Nat /\ Cardinality(ConnectedIn(bridge)) \in Nat
           /\ Count(mainq, ChainJobs) \in Nat /\ Count(mainq, Reconnects) \in Nat
           /\ sleepers \in Nat /\ retries \in Nat /\ reconnectAttempt \in Nat
<1>1. /\ mainq \in Seq(Job) /\ bridge \in Table
      /\ sleepers \in Nat /\ retries \in 0..MaxRetries /\ reconnectAttempt \in Nat
  BY DEF IInv, TypeOK, BridgeTypeOK, Table
<1>2. Cardinality(ChainCalls) \in Nat /\ Cardinality(ConnectedIn(bridge)) \in Nat
  BY FS_CardinalityType DEF Finite
<1> QED
  BY <1>1, <1>2, CountType

(* No call, no context and no sleeper is touched: only the queue counts.    *)
LEMMA UntouchedCounted ==
    ASSUME Finite, UNCHANGED call, UNCHANGED bridge
    PROVE  /\ Finite'
           /\ Cardinality(ChainCalls') = Cardinality(ChainCalls)
           /\ Cardinality(ConnectedIn(bridge')) = Cardinality(ConnectedIn(bridge))
<1>1. ChainCalls' = ChainCalls
  BY DEF ChainCalls
<1>2. ConnectedIn(bridge') = ConnectedIn(bridge)
  OBVIOUS
<1> QED
  BY <1>1, <1>2 DEF Finite

(* performConnect up to its await turns what called it into a connect call. *)
LEMMA PerformConnectCounted ==
    ASSUME TypeOK, IsFiniteSet(ChainCalls), NEW by \in Caller, NEW b \in Table, NEW e,
           IsFiniteSet(ConnectedIn(b)), PerformConnect(by, b, e)
    PROVE  /\ Finite'
           /\ Cardinality(ChainCalls') \in Nat
           /\ Cardinality(ChainCalls') <= Cardinality(ChainCalls) + 1
           /\ Cardinality(ConnectedIn(bridge')) \in Nat
           /\ Cardinality(ConnectedIn(bridge')) <= Cardinality(ConnectedIn(b))
<1>1. /\ IsFiniteSet(ChainCalls') /\ Cardinality(ChainCalls') \in Nat
      /\ Cardinality(ChainCalls') <= Cardinality(ChainCalls) + 1
  <2>1. CASE UNCHANGED call
    <3>1. ChainCalls' = ChainCalls
      BY <2>1 DEF ChainCalls
    <3>2. Cardinality(ChainCalls) \in Nat
      BY FS_CardinalityType
    <3> QED
      BY <3>1, <3>2
  <2>2. CASE \E k \in Call : \A j \in Call \ {k} : call'[j] = call[j]
    BY <2>2, CallsCounted
  <2> QED
    BY <2>1, <2>2, PerformConnectCalls
<1>2. ConnectedIn(bridge') \in SUBSET ConnectedIn(b)
  BY PerformConnectTables
<1>3. /\ IsFiniteSet(ConnectedIn(bridge'))
      /\ Cardinality(ConnectedIn(bridge')) <= Cardinality(ConnectedIn(b))
  BY <1>2, FS_Subset
<1>4. Cardinality(ConnectedIn(bridge')) \in Nat
  BY <1>3, FS_CardinalityType
<1> QED
  BY <1>1, <1>3, <1>4 DEF Finite

(* Sums of the four counts: the job that is taken pays for the connect call *)
(* that is made, or for the sleeper, whatever a disconnection moves.        *)
LEMMA CallPaid ==
    ASSUME NEW a \in Nat, NEW b \in Nat, NEW c \in Nat, NEW s \in Nat, NEW n \in Nat,
           a + b + (c + 1) + s <= n, NEW x \in Nat, NEW y \in Nat, x <= a + 1, y <= b
    PROVE  x + y + c + s <= n
  OBVIOUS

LEMMA DisconnectionPaid ==
    ASSUME NEW a \in Nat, NEW b \in Nat, NEW c \in Nat, NEW s \in Nat, NEW n \in Nat,
           a + b + (c + 1) + s <= n, NEW d \in Nat, NEW z \in Nat, d + z = b + c
    PROVE  a + d + (z + 1) + s <= n /\ a + d + z + (s + 1) <= n
  OBVIOUS

(* While one link is counted apart the others are at most the retries.      *)
LEMMA OthersPaid ==
    ASSUME NEW a \in Nat, NEW b \in Nat, NEW c \in Nat, NEW s \in Nat, NEW n \in Nat,
           a + b + (c + 1) + s <= 1 + n, NEW r \in Nat, r <= c
    PROVE  r <= n
  OBVIOUS

(* A job of the main actor ends the link it is, and makes at most one.  The *)
(* handler counts on the link it holds: while it makes a reconnect task the *)
(* others are at most as many as the retries.                               *)
LEMMA MainActorChains ==
    ASSUME IInv, ChainInv, MainActor
    PROVE  ChainInv'
<1>1. PICK i \in Ready :
          \/ DeliverNotification(i)
          \/ HandleNotification(i)
          \/ ViewModelConnect(i)
          \/ ViewModelReconnect(i)
          \/ PerformConnectResumed(i)
          \/ ReconnectTask(i)
          \/ ReconnectTaskWakes(i)
  BY DEF MainActor
<1> DEFINE q == Without(i)
           calls == Cardinality(ChainCalls)
           ups == Cardinality(ConnectedIn(bridge))
<1>2. /\ mainq \in Seq(Job) /\ bridge \in Table /\ Finite /\ TypeOK
      /\ calls \in Nat /\ ups \in Nat /\ sleepers \in Nat /\ retries \in Nat
      /\ Count(mainq, ChainJobs) \in Nat /\ Count(mainq, Reconnects) \in Nat
      /\ reconnectAttempt \in Nat /\ MaxReconnectAttempts \in Nat
      /\ calls + ups + Count(mainq, ChainJobs) + sleepers <= 1 + retries
      /\ reconnectAttempt + Count(mainq, Reconnects) <= MaxReconnectAttempts + retries
  BY CountsType DEF IInv, ChainInv, Chains
<1>3. /\ q \in Seq(Job) /\ mainq[i] \in Job
      /\ Count(mainq, ChainJobs) = Count(q, ChainJobs) + One(mainq[i], ChainJobs)
      /\ Count(mainq, Reconnects) = Count(q, Reconnects) + One(mainq[i], Reconnects)
  BY <1>2, CountTaken
<1>4. /\ Count(q, ChainJobs) \in Nat /\ Count(q, Reconnects) \in Nat
      /\ Count(q, Reconnects) <= Count(q, ChainJobs)
  BY <1>3, CountType, ReconnectsAreLinks
<1> HIDE DEF q, calls, ups
<1>11. Chains' = Cardinality(ChainCalls') + Cardinality(ConnectedIn(bridge'))
                     + Count(mainq', ChainJobs) + sleepers'
  BY DEF Chains
<1>12. One(mainq[i], ChainJobs) = 1 => Count(q, Reconnects) <= retries
  <2> SUFFICES ASSUME One(mainq[i], ChainJobs) = 1 PROVE Count(q, Reconnects) <= retries
    OBVIOUS
  <2>1. Count(mainq, ChainJobs) = Count(q, ChainJobs) + 1
    BY <1>3
  <2>2. calls + ups + (Count(q, ChainJobs) + 1) + sleepers <= 1 + retries
    BY <1>2, <2>1
  <2> QED
    BY <1>2, <1>4, <2>2, OthersPaid
<1>5. CASE DeliverNotification(i)
  <2>1. /\ mainq[i].kind = "deliver" /\ mainq[i].note \in Notification
        /\ mainq' = Append(q, Handle(mainq[i].note))
    BY <1>2, <1>5, MainActorAppends DEF q
  <2>2. /\ Handle(mainq[i].note) \in Job
        /\ One(Handle(mainq[i].note), ChainJobs) = One(mainq[i], ChainJobs)
        /\ One(Handle(mainq[i].note), Reconnects) = 0
        /\ One(mainq[i], ChainJobs) \in 0..1 /\ One(mainq[i], Reconnects) = 0
    BY <1>3, <2>1, JobsMade, LinksAre
  <2>3. /\ Count(mainq', ChainJobs) = Count(mainq, ChainJobs)
        /\ Count(mainq', Reconnects) = Count(mainq, Reconnects)
    BY <1>3, <1>4, <2>1, <2>2, CountAppended
  <2>4. UNCHANGED <<bridge, call, sleepers, reconnectAttempt, retries>>
    BY <1>5 DEF DeliverNotification, sessionVars, viewVars
  <2> QED
    BY <1>2, <2>3, <2>4, UntouchedCounted DEF ChainInv, Chains, calls, ups
<1>6. CASE HandleNotification(i)
  <2>1. UNCHANGED <<bridge, call, sleepers, reconnectAttempt, retries>>
    BY <1>6 DEF HandleNotification, viewVars
  <2>2. /\ One(mainq[i], ChainJobs) \in 0..1 /\ One(mainq[i], Reconnects) \in 0..1
    BY <1>3, LinksAre
  <2>3. CASE mainq' = q
    <3>1. /\ Count(mainq', ChainJobs) <= Count(mainq, ChainJobs)
          /\ Count(mainq', Reconnects) <= Count(mainq, Reconnects)
          /\ Count(mainq', ChainJobs) \in Nat /\ Count(mainq', Reconnects) \in Nat
      BY <1>3, <1>4, <2>2, <2>3
    <3>2. /\ Finite' /\ Cardinality(ChainCalls') = calls
          /\ Cardinality(ConnectedIn(bridge')) = ups
      BY <1>2, <2>1, UntouchedCounted DEF calls, ups
    <3>3. Chains' <= 1 + retries
      <4>1. Chains' = calls + ups + Count(mainq', ChainJobs) + sleepers
        BY <1>11, <2>1, <3>2
      <4>2. calls + ups + Count(mainq', ChainJobs) + sleepers <= 1 + retries
        BY <1>2, <3>1
      <4> QED
        BY <4>1, <4>2
    <3>4. reconnectAttempt' + Count(mainq', Reconnects) <= MaxReconnectAttempts + retries
      <4>1. reconnectAttempt' = reconnectAttempt
        BY <2>1
      <4> QED
        BY <1>2, <3>1, <4>1
    <3> QED
      BY <2>1, <3>2, <3>3, <3>4 DEF ChainInv
  <2>4. CASE /\ MayReconnect /\ mainq[i].kind = "handle" /\ mainq[i].note = "disconnected"
             /\ mainq' = Append(q, Plain("reconnect"))
    <3>1. /\ One(mainq[i], ChainJobs) = 1 /\ One(mainq[i], Reconnects) = 0
          /\ Plain("reconnect") \in Job /\ One(Plain("reconnect"), ChainJobs) = 1
          /\ One(Plain("reconnect"), Reconnects) = 1
      BY <1>3, <2>4, JobsMade, LinksAre
    <3>2. /\ Count(mainq', ChainJobs) = Count(mainq, ChainJobs)
          /\ Count(mainq', Reconnects) = Count(q, Reconnects) + 1
      BY <1>3, <1>4, <2>4, <3>1, CountAppended
    <3>3. reconnectAttempt + 1 <= MaxReconnectAttempts
      BY <1>2, <2>4 DEF MayReconnect
    <3>4. Count(q, Reconnects) <= retries
      BY <1>12, <3>1
    <3>5. reconnectAttempt' + Count(mainq', Reconnects) <= MaxReconnectAttempts + retries
      <4>1. reconnectAttempt' = reconnectAttempt
        BY <2>1
      <4> QED
        BY <1>2, <1>4, <3>2, <3>3, <3>4, <4>1
    <3> QED
      BY <1>2, <2>1, <3>2, <3>5, UntouchedCounted DEF ChainInv, Chains, calls, ups
  <2> QED
    BY <1>2, <1>6, <2>3, <2>4, MainActorAppends DEF q
<1>7. CASE ViewModelConnect(i) \/ ReconnectTaskWakes(i)
  <2>1. mainq[i].kind \in {"appear", "wake"} /\ mainq' = q
    BY <1>2, <1>7, MainActorAppends DEF q
  <2>2. /\ One(mainq[i], ChainJobs) = 1 /\ One(mainq[i], Reconnects) = 0
    BY <1>3, <2>1, LinksAre
  <2>3. /\ Finite'
        /\ Cardinality(ChainCalls') \in Nat /\ Cardinality(ChainCalls') <= calls + 1
        /\ Cardinality(ConnectedIn(bridge')) \in Nat
        /\ Cardinality(ConnectedIn(bridge')) <= ups
    <3>1. CASE UNCHANGED <<bridge, call>>
      <4>1. Finite' /\ Cardinality(ChainCalls') = calls /\ Cardinality(ConnectedIn(bridge')) = ups
        BY <1>2, <3>1, UntouchedCounted DEF calls, ups
      <4> QED
        BY <1>2, <4>1
    <3>2. ASSUME NEW by \in Caller, NEW e, PerformConnect(by, bridge, e)
          PROVE  /\ Finite'
                 /\ Cardinality(ChainCalls') \in Nat /\ Cardinality(ChainCalls') <= calls + 1
                 /\ Cardinality(ConnectedIn(bridge')) \in Nat
                 /\ Cardinality(ConnectedIn(bridge')) <= ups
      BY <1>2, <3>2, PerformConnectCounted DEF Finite, calls, ups
    <3>3. UNCHANGED <<bridge, call>>
             \/ \E by \in Caller : \E e : PerformConnect(by, bridge, e)
      BY <1>7 DEF ViewModelConnect, ReconnectTaskWakes, Caller
    <3> QED
      BY <3>1, <3>2, <3>3
  <2>4. UNCHANGED <<sleepers, retries>> /\ reconnectAttempt' \in {0, reconnectAttempt}
    BY <1>7 DEF ViewModelConnect, ReconnectTaskWakes
  <2>5. Count(q, Reconnects) <= retries
    BY <1>12, <2>2
  <2>6. Chains' <= 1 + retries
    <3>1. Chains' = Cardinality(ChainCalls') + Cardinality(ConnectedIn(bridge'))
                        + Count(q, ChainJobs) + sleepers
      BY <1>11, <2>1, <2>4
    <3>2. Count(mainq, ChainJobs) = Count(q, ChainJobs) + 1
      BY <1>3, <2>2
    <3>3. Cardinality(ChainCalls') + Cardinality(ConnectedIn(bridge'))
              + Count(q, ChainJobs) + sleepers <= 1 + retries
      <4>1. calls + ups + (Count(q, ChainJobs) + 1) + sleepers <= 1 + retries
        BY <1>2, <3>2
      <4>2. 1 + retries \in Nat
        BY <1>2
      <4> QED
        BY <1>2, <1>4, <2>3, <4>1, <4>2, CallPaid
    <3> QED
      BY <3>1, <3>3
  <2>7. reconnectAttempt' + Count(mainq', Reconnects) <= MaxReconnectAttempts + retries
    <3>1. Count(mainq', Reconnects) = Count(q, Reconnects)
      BY <2>1
    <3>2. Count(mainq, Reconnects) = Count(q, Reconnects)
      BY <1>3, <1>4, <2>2
    <3>3. CASE reconnectAttempt' = 0
      BY <1>2, <1>4, <2>5, <3>1, <3>3
    <3>4. CASE reconnectAttempt' = reconnectAttempt
      BY <1>2, <3>1, <3>2, <3>4
    <3> QED
      BY <2>4, <3>3, <3>4
  <2> QED
    BY <2>3, <2>4, <2>6, <2>7 DEF ChainInv
<1>8. CASE ViewModelReconnect(i)
  <2>1. mainq[i].kind = "retry" /\ mainq' = Posted(q, ContextDisconnectPosts)
    BY <1>8 DEF ViewModelReconnect, q
  <2>2. /\ One(mainq[i], ChainJobs) = 1 /\ One(mainq[i], Reconnects) = 0
    BY <1>3, <2>1, LinksAre
  <2> DEFINE down == ConnectedIn(ContextDisconnected)
  <2>3. /\ mainq' \in Seq(Job) /\ IsFiniteSet(down) /\ Cardinality(down) \in Nat
        /\ Cardinality(down) + Count(mainq', ChainJobs) = ups + Count(q, ChainJobs)
        /\ Count(mainq', Reconnects) = Count(q, Reconnects)
    BY <1>2, <1>3, <2>1, DisconnectCounted DEF ups
  <2>4. Count(mainq', ChainJobs) \in Nat
    BY <2>3, CountType
  <2>5. PerformConnect("retry", ContextDisconnected, errorMessage)
        /\ ContextDisconnected \in Table /\ "retry" \in Caller
    BY <1>2, <1>8, ContextDisconnectType DEF ViewModelReconnect, Caller
  <2>6. /\ Finite'
        /\ Cardinality(ChainCalls') \in Nat /\ Cardinality(ChainCalls') <= calls + 1
        /\ Cardinality(ConnectedIn(bridge')) \in Nat
        /\ Cardinality(ConnectedIn(bridge')) <= Cardinality(down)
    BY <1>2, <2>3, <2>5, PerformConnectCounted DEF Finite, calls
  <2>7. UNCHANGED <<sleepers, retries>> /\ reconnectAttempt' = 0
    BY <1>8 DEF ViewModelReconnect
  <2> HIDE DEF down
  <2>8. Chains' <= 1 + retries
    <3>1. Chains' = Cardinality(ChainCalls') + Cardinality(ConnectedIn(bridge'))
                        + Count(mainq', ChainJobs) + sleepers
      BY <1>11, <2>7
    <3>2. Count(mainq, ChainJobs) = Count(q, ChainJobs) + 1
      BY <1>3, <2>2
    <3>3. Cardinality(ChainCalls') + Cardinality(ConnectedIn(bridge'))
              + Count(mainq', ChainJobs) + sleepers <= 1 + retries
      <4>1. calls + ups + (Count(q, ChainJobs) + 1) + sleepers <= 1 + retries
        BY <1>2, <3>2
      <4>2. 1 + retries \in Nat
        BY <1>2
      <4>3. calls + Cardinality(down) + (Count(mainq', ChainJobs) + 1) + sleepers <= 1 + retries
        BY <1>2, <1>4, <2>3, <2>4, <4>1, <4>2, DisconnectionPaid
      <4> QED
        BY <1>2, <2>3, <2>4, <2>6, <4>2, <4>3, CallPaid
    <3> QED
      BY <3>1, <3>3
  <2>9. reconnectAttempt' + Count(mainq', Reconnects) <= MaxReconnectAttempts + retries
    <3>1. Count(q, Reconnects) <= retries
      BY <1>12, <2>2
    <3>2. Count(mainq', Reconnects) = Count(q, Reconnects) /\ reconnectAttempt' = 0
      BY <2>3, <2>7
    <3> QED
      BY <1>2, <1>4, <3>1, <3>2
  <2> QED
    BY <2>6, <2>7, <2>8, <2>9 DEF ChainInv
<1>9. CASE PerformConnectResumed(i)
  <2>1. mainq[i].kind = "resume" /\ mainq' = q
    BY <1>2, <1>9, MainActorAppends DEF q
  <2>2. /\ One(mainq[i], ChainJobs) = 0 /\ One(mainq[i], Reconnects) = 0
    BY <1>3, <2>1, LinksAre
  <2>3. /\ IsFiniteSet(ChainCalls') /\ Cardinality(ChainCalls') \in Nat
        /\ Cardinality(ChainCalls') <= calls
    BY <1>2, <1>9, MainActorCalls, CallsCounted DEF Finite, calls
  <2>4. UNCHANGED <<bridge, sleepers, reconnectAttempt, retries>>
    BY <1>9 DEF PerformConnectResumed
  <2>5. Finite' /\ Cardinality(ConnectedIn(bridge')) = ups
    BY <1>2, <2>3, <2>4 DEF Finite, ups
  <2>6. Chains' <= 1 + retries
    <3>1. Chains' = Cardinality(ChainCalls') + ups + Count(q, ChainJobs) + sleepers
      BY <1>11, <2>1, <2>4, <2>5
    <3>2. Count(mainq, ChainJobs) = Count(q, ChainJobs)
      BY <1>3, <1>4, <2>2
    <3> DEFINE left == Cardinality(ChainCalls')
    <3>3. left \in Nat /\ left <= calls
      BY <2>3
    <3> HIDE DEF left
    <3>4. left + ups + Count(mainq, ChainJobs) + sleepers <= 1 + retries
      BY <1>2, <3>3
    <3> QED
      BY <3>1, <3>2, <3>4 DEF left
  <2> QED
    BY <1>2, <1>3, <1>4, <2>1, <2>2, <2>4, <2>5, <2>6 DEF ChainInv
<1>10. CASE ReconnectTask(i)
  <2>1. mainq[i].kind = "reconnect" /\ mainq' = Posted(q, ContextDisconnectPosts)
    BY <1>10 DEF ReconnectTask, q
  <2>2. /\ One(mainq[i], ChainJobs) = 1 /\ One(mainq[i], Reconnects) = 1
    BY <1>3, <2>1, LinksAre
  <2> DEFINE down == ConnectedIn(ContextDisconnected)
  <2>3. /\ mainq' \in Seq(Job) /\ IsFiniteSet(down) /\ Cardinality(down) \in Nat
        /\ Cardinality(down) + Count(mainq', ChainJobs) = ups + Count(q, ChainJobs)
        /\ Count(mainq', Reconnects) = Count(q, Reconnects)
    BY <1>2, <1>3, <2>1, DisconnectCounted DEF ups
  <2>4. Count(mainq', ChainJobs) \in Nat
    BY <2>3, CountType
  <2>5. ConnectedIn(bridge') = down
    <3>1. ContextDisconnected \in Table
      BY <1>2, ContextDisconnectType
    <3>2. down = ConnectedIn(bridge) \ {context}
      BY <1>2, ContextDisconnectedTables
    <3>3. CASE context = NoContext
      BY <1>10, <3>3 DEF ReconnectTask, ContextDisconnected
    <3>4. CASE context # NoContext
      <4>1. context \in Context /\ bridge' = Destroyed(ContextDisconnected, context)
        BY <1>2, <1>10, <3>4 DEF ReconnectTask, ContextDisconnected, TypeOK
      <4>2. ConnectedIn(bridge') = down \ {context}
        BY <3>1, <4>1, ConnectedTables
      <4> QED
        BY <3>2, <4>2
    <3> QED
      BY <3>3, <3>4
  <2>6. /\ UNCHANGED <<call, retries>> /\ sleepers' = sleepers + 1
        /\ reconnectAttempt' = reconnectAttempt + 1
    BY <1>10 DEF ReconnectTask, viewVars
  <2>7. ChainCalls' = ChainCalls
    BY <2>6 DEF ChainCalls
  <2>8. Finite'
    BY <1>2, <2>3, <2>5, <2>7 DEF Finite
  <2> HIDE DEF down
  <2>9. Chains' <= 1 + retries
    <3>1. Chains' = calls + Cardinality(down) + Count(mainq', ChainJobs) + (sleepers + 1)
      BY <1>11, <2>5, <2>6, <2>7 DEF calls
    <3>2. Count(mainq, ChainJobs) = Count(q, ChainJobs) + 1
      BY <1>3, <2>2
    <3>3. calls + Cardinality(down) + Count(mainq', ChainJobs) + (sleepers + 1) <= 1 + retries
      <4>1. calls + ups + (Count(q, ChainJobs) + 1) + sleepers <= 1 + retries
        BY <1>2, <3>2
      <4>2. 1 + retries \in Nat
        BY <1>2
      <4> QED
        BY <1>2, <1>4, <2>3, <2>4, <4>1, <4>2, DisconnectionPaid
    <3> QED
      BY <3>1, <3>3
  <2> QED
    <3>1. Count(mainq, Reconnects) = Count(mainq', Reconnects) + 1
      BY <1>3, <2>2, <2>3
    <3>2. Count(mainq', Reconnects) \in Nat
      BY <1>4, <2>3
    <3>3. reconnectAttempt' + Count(mainq', Reconnects) <= MaxReconnectAttempts + retries
      BY <1>2, <2>6, <3>1, <3>2
    <3> QED
      BY <2>6, <2>8, <2>9, <3>3 DEF ChainInv
<1> QED
  BY <1>1, <1>5, <1>6, <1>7, <1>8, <1>9, <1>10

(* A connect call becomes the connected context, and a connection that      *)
(* fails the task of its notification.                                      *)
LEMMA ConnectThreadChains ==
    ASSUME IInv, ChainInv, NEW k \in Call, ConnectThread(k)
    PROVE  ChainInv'
<1> DEFINE calls == Cardinality(ChainCalls)
           ups == Cardinality(ConnectedIn(bridge))
           jobs == Count(mainq, ChainJobs)
<1>1. /\ mainq \in Seq(Job) /\ bridge \in Table /\ Finite /\ TypeOK
      /\ calls \in Nat /\ ups \in Nat /\ jobs \in Nat /\ sleepers \in Nat /\ retries \in Nat
      /\ Count(mainq, Reconnects) \in Nat
      /\ calls + ups + jobs + sleepers <= 1 + retries
  BY CountsType DEF IInv, ChainInv, Chains
<1>2. UNCHANGED <<sleepers, retries, reconnectAttempt>>
  BY DEF ConnectThread, ConnectStarts, PostConnect, PostConnectNotifies, ConnectSucceeds, ConnectFailsEarly,
     ConnectFailsLate, ConnectThreadFrame, sessionVars, viewVars
<1>3. \A j \in Call \ {k} : call'[j] = call[j]
  BY <1>1, ConnectThreadCalls
<1>4. /\ IsFiniteSet(ChainCalls') /\ Cardinality(ChainCalls') \in Nat
      /\ Cardinality(ChainCalls') <= calls + 1
      /\ call[k].pc \in {"dispatched", "handshake"}
            \/ call'[k].pc \notin {"dispatched", "handshake"}
            => Cardinality(ChainCalls') <= calls
      /\ call[k].pc \in {"dispatched", "handshake"}
            /\ call'[k].pc \notin {"dispatched", "handshake"}
            => Cardinality(ChainCalls') = calls - 1
  BY <1>1, <1>3, CallsCounted DEF Finite
<1>7. call[k].ctx \in Context
  <2>1. call[k].pc \in Running
    BY <1>1, ConnectThreadCalls
  <2> QED
    BY <2>1 DEF IInv, ThreadsUseBorn, Running
<1> HIDE DEF calls, ups, jobs
<1>8. ASSUME mainq' \in Seq(Job), Count(mainq', Reconnects) = Count(mainq, Reconnects),
             Finite',
             Cardinality(ChainCalls') + Cardinality(ConnectedIn(bridge'))
                + Count(mainq', ChainJobs) <= calls + ups + jobs
      PROVE  ChainInv'
  <2>1. /\ Cardinality(ChainCalls') \in Nat /\ Cardinality(ConnectedIn(bridge')) \in Nat
        /\ Count(mainq', ChainJobs) \in Nat
    BY <1>8, CountType, FS_CardinalityType DEF Finite
  <2>2. Chains' = Cardinality(ChainCalls') + Cardinality(ConnectedIn(bridge'))
                      + Count(mainq', ChainJobs) + sleepers
    BY <1>2 DEF Chains
  <2>3. Cardinality(ChainCalls') + Cardinality(ConnectedIn(bridge'))
            + Count(mainq', ChainJobs) + sleepers <= 1 + retries
    BY <1>1, <1>8, <2>1
  <2>4. Chains' <= 1 + retries'
    BY <1>2, <2>2, <2>3
  <2> QED
    BY <1>2, <1>8, <2>4 DEF ChainInv
<1>9. CASE ConnectStarts(k)
  <2>1. mainq' = Append(mainq, Deliver("connecting")) /\ UNCHANGED bridge
    BY <1>1, <1>9, ConnectThreadAppends DEF ConnectStarts
  <2>2. /\ mainq' \in Seq(Job) /\ Count(mainq', ChainJobs) = jobs
        /\ Count(mainq', Reconnects) = Count(mainq, Reconnects)
    BY <1>1, <2>1, AnswersCounted DEF jobs
  <2>3. Cardinality(ChainCalls') <= calls
    BY <1>1, <1>4, <1>9, ConnectThreadCalls
  <2>4. Finite' /\ Cardinality(ConnectedIn(bridge')) = ups
    BY <1>1, <1>4, <2>1 DEF Finite, ups
  <2> QED
    BY <1>1, <1>4, <1>8, <2>2, <2>3, <2>4
<1>10. CASE PostConnect(k)
  <2>1. mainq' = mainq /\ bridge' = PostConnected(bridge, call[k].ctx)
    BY <1>1, <1>10, ConnectThreadAppends DEF PostConnect
  <2>2. /\ mainq' \in Seq(Job) /\ Count(mainq', ChainJobs) = jobs
        /\ Count(mainq', Reconnects) = Count(mainq, Reconnects)
    BY <1>1, <2>1 DEF jobs
  <2>3. Cardinality(ChainCalls') = calls - 1
    BY <1>1, <1>4, <1>10, ConnectThreadCalls
  <2>4. /\ Finite' /\ Cardinality(ConnectedIn(bridge')) \in Nat
        /\ Cardinality(ConnectedIn(bridge')) <= ups + 1
    BY <1>1, <1>4, <1>7, <2>1, ContextsCounted DEF Finite, ups
  <2> QED
    BY <1>1, <1>4, <1>8, <2>2, <2>3, <2>4
<1>15. CASE PostConnectNotifies(k)
  <2>1. mainq' = Append(mainq, Deliver("connected")) /\ UNCHANGED bridge
    BY <1>1, <1>15, ConnectThreadAppends DEF PostConnectNotifies
  <2>2. /\ mainq' \in Seq(Job) /\ Count(mainq', ChainJobs) = jobs
        /\ Count(mainq', Reconnects) = Count(mainq, Reconnects)
    BY <1>1, <2>1, AnswersCounted DEF jobs
  <2>3. Cardinality(ChainCalls') <= calls
    BY <1>1, <1>4, <1>15, ConnectThreadCalls
  <2>4. Finite' /\ Cardinality(ConnectedIn(bridge')) = ups
    BY <1>1, <1>4, <2>1 DEF Finite, ups
  <2> QED
    BY <1>1, <1>4, <1>8, <2>2, <2>3, <2>4
<1>11. CASE ConnectSucceeds(k)
  <2>1. mainq' = Append(mainq, Resume(k, TRUE)) /\ UNCHANGED bridge
    BY <1>1, <1>11, ConnectThreadAppends DEF ConnectSucceeds
  <2>2. /\ mainq' \in Seq(Job) /\ Count(mainq', ChainJobs) = jobs
        /\ Count(mainq', Reconnects) = Count(mainq, Reconnects)
    BY <1>1, <2>1, AnswersCounted DEF jobs
  <2>3. Cardinality(ChainCalls') <= calls
    BY <1>1, <1>4, <1>11, ConnectThreadCalls
  <2>4. Finite' /\ Cardinality(ConnectedIn(bridge')) = ups
    BY <1>1, <1>4, <2>1 DEF Finite, ups
  <2> QED
    BY <1>1, <1>4, <1>8, <2>2, <2>3, <2>4
<1> DEFINE lost == Append(mainq, Deliver("disconnected"))
           failed(q) == Append(Append(q, Deliver("error")), Resume(k, FALSE))
<1>5. /\ failed(mainq) \in Seq(Job) /\ Count(failed(mainq), ChainJobs) = jobs
      /\ Count(failed(mainq), Reconnects) = Count(mainq, Reconnects)
  BY <1>1, FailureCounted DEF jobs
<1>6. /\ lost \in Seq(Job) /\ Count(lost, ChainJobs) = jobs + 1
      /\ Count(lost, Reconnects) = Count(mainq, Reconnects)
  BY <1>1, AnswersCounted DEF jobs
<1> HIDE DEF lost
<1>12. /\ failed(lost) \in Seq(Job) /\ Count(failed(lost), ChainJobs) = jobs + 1
       /\ Count(failed(lost), Reconnects) = Count(mainq, Reconnects)
  BY <1>6, FailureCounted
<1> HIDE DEF failed
<1>13. CASE ConnectFailsEarly(k)
  <2>1. mainq' = failed(mainq) \/ mainq' = failed(lost)
    BY <1>1, <1>13, ConnectThreadAppends DEF failed, lost
  <2>2. /\ mainq' \in Seq(Job) /\ Count(mainq', ChainJobs) \in Nat
        /\ Count(mainq', Reconnects) = Count(mainq, Reconnects)
        /\ Count(mainq', ChainJobs) <= jobs + 1
    BY <1>1, <1>5, <1>12, <2>1
  <2>3. Cardinality(ChainCalls') = calls - 1
    BY <1>1, <1>4, <1>13, ConnectThreadCalls
  <2>4. bridge' = bridge \/ bridge' = FreeRDPDisconnected(bridge, call[k].ctx)
    BY <1>13 DEF ConnectFailsEarly
  <2>5. /\ Finite' /\ Cardinality(ConnectedIn(bridge')) \in Nat
        /\ Cardinality(ConnectedIn(bridge')) <= ups
    <3>1. CASE bridge' = bridge
      BY <1>1, <1>4, <3>1 DEF Finite, ups
    <3>2. CASE bridge' = FreeRDPDisconnected(bridge, call[k].ctx)
      <4> DEFINE down == ConnectedIn(FreeRDPDisconnected(bridge, call[k].ctx))
      <4>1. /\ IsFiniteSet(down) /\ Cardinality(down) \in Nat
            /\ Cardinality(down) = IF bridge[call[k].ctx].isConnected THEN ups - 1 ELSE ups
        BY <1>1, <1>7, ContextsCounted DEF Finite, ups
      <4>2. ConnectedIn(bridge') = down
        BY <3>2
      <4> HIDE DEF down
      <4>3. Cardinality(down) <= ups
        BY <1>1, <4>1
      <4> QED
        BY <1>4, <4>1, <4>2, <4>3 DEF Finite
    <3> QED
      BY <2>4, <3>1, <3>2
  <2> QED
    BY <1>1, <1>4, <1>8, <2>2, <2>3, <2>5
<1>14. CASE ConnectFailsLate(k)
  <2> DEFINE up == bridge[call[k].ctx].isConnected
  <2>1. mainq' = IF up THEN failed(lost) ELSE failed(mainq)
    BY <1>1, <1>14, ConnectThreadAppends DEF failed, lost
  <2>3. /\ mainq' \in Seq(Job) /\ Count(mainq', ChainJobs) \in Nat
        /\ Count(mainq', Reconnects) = Count(mainq, Reconnects)
        /\ Count(mainq', ChainJobs) = IF up THEN jobs + 1 ELSE jobs
    BY <1>1, <1>5, <1>12, <2>1
  <2>4. Cardinality(ChainCalls') <= calls
    BY <1>1, <1>4, <1>14, ConnectThreadCalls
  <2>5. bridge' = FreeRDPDisconnected(bridge, call[k].ctx)
    BY <1>14 DEF ConnectFailsLate
  <2>6. /\ Finite' /\ Cardinality(ConnectedIn(bridge')) \in Nat
        /\ Cardinality(ConnectedIn(bridge')) = IF up THEN ups - 1 ELSE ups
    BY <1>1, <1>4, <1>7, <2>5, ContextsCounted DEF Finite, ups
  <2> HIDE DEF up
  <2>7. Cardinality(ConnectedIn(bridge')) + Count(mainq', ChainJobs) <= ups + jobs
    BY <1>1, <2>3, <2>6
  <2>8. Cardinality(ChainCalls') + Cardinality(ConnectedIn(bridge')) + Count(mainq', ChainJobs)
            <= calls + ups + jobs
    BY <1>1, <1>4, <2>3, <2>4, <2>6, <2>7
  <2> QED
    BY <1>8, <2>3, <2>6, <2>8
<1> QED
  BY <1>9, <1>10, <1>11, <1>13, <1>14, <1>15 DEF ConnectThread

LEMMA SleepOverChains ==
    ASSUME IInv, ChainInv, SleepOver
    PROVE  ChainInv'
<1> DEFINE jobs == Count(mainq, ChainJobs)
<1>1. /\ mainq \in Seq(Job) /\ Finite
      /\ Cardinality(ChainCalls) \in Nat /\ Cardinality(ConnectedIn(bridge)) \in Nat
      /\ jobs \in Nat /\ Count(mainq, Reconnects) \in Nat /\ sleepers \in Nat
      /\ retries \in Nat
  BY CountsType DEF ChainInv
<1>2. /\ Plain("wake") \in Job /\ One(Plain("wake"), ChainJobs) = 1
      /\ One(Plain("wake"), Reconnects) = 0
  BY JobsMade, LinksAre
<1>3. /\ mainq' = Append(mainq, Plain("wake")) /\ sleepers' = sleepers - 1
      /\ UNCHANGED <<bridge, call, retries, reconnectAttempt>>
  BY DEF SleepOver, sessionVars, viewVars
<1>4. Count(mainq', ChainJobs) = jobs + 1 /\ Count(mainq', Reconnects) = Count(mainq, Reconnects)
  BY <1>1, <1>2, <1>3, CountAppended
<1>5. /\ Finite' /\ Cardinality(ChainCalls') = Cardinality(ChainCalls)
      /\ Cardinality(ConnectedIn(bridge')) = Cardinality(ConnectedIn(bridge))
  BY <1>1, <1>3, UntouchedCounted
<1>6. Chains' = Cardinality(ChainCalls) + Cardinality(ConnectedIn(bridge))
                    + (jobs + 1) + (sleepers - 1)
  BY <1>3, <1>4, <1>5 DEF Chains
<1>7. Chains = Cardinality(ChainCalls) + Cardinality(ConnectedIn(bridge)) + jobs + sleepers
  BY DEF Chains
<1> HIDE DEF jobs
<1>8. Chains' = Chains
  BY <1>1, <1>6, <1>7
<1> QED
  BY <1>3, <1>4, <1>5, <1>8 DEF ChainInv

(* Only a tap of retry adds a chain, and it raises what is allowed.         *)
LEMMA EnvironmentChains ==
    ASSUME IInv, ChainInv, Environment
    PROVE  ChainInv'
<1> DEFINE calls == Cardinality(ChainCalls)
           ups == Cardinality(ConnectedIn(bridge))
           jobs == Count(mainq, ChainJobs)
<1>1. /\ mainq \in Seq(Job) /\ bridge \in Table /\ Finite /\ TypeOK
      /\ calls \in Nat /\ ups \in Nat /\ jobs \in Nat /\ sleepers \in Nat /\ retries \in Nat
      /\ reconnectAttempt \in Nat /\ Count(mainq, Reconnects) \in Nat
      /\ calls + ups + jobs + sleepers <= 1 + retries
      /\ reconnectAttempt + Count(mainq, Reconnects) <= MaxReconnectAttempts + retries
  BY CountsType DEF IInv, ChainInv, Chains
<1>2. ChainCalls' = ChainCalls
  <2>1. UNCHANGED call
    BY DEF Environment, ToolbarDisconnect, DisconnectAndDismiss, OnDisappear, TapRetry,
       ConnectionLost
  <2> QED
    BY <2>1 DEF ChainCalls
<1> HIDE DEF calls, ups, jobs
<1>3. CASE ToolbarDisconnect \/ DisconnectAndDismiss \/ OnDisappear
  <2>1. /\ bridge' = ContextDisconnected /\ mainq' = Posted(mainq, ContextDisconnectPosts)
        /\ UNCHANGED <<sleepers, retries, reconnectAttempt>>
    BY <1>3 DEF ToolbarDisconnect, DisconnectAndDismiss, OnDisappear, SessionDisconnect,
       viewVars
  <2> DEFINE down == ConnectedIn(ContextDisconnected)
  <2>2. /\ mainq' \in Seq(Job) /\ IsFiniteSet(down) /\ Cardinality(down) \in Nat
        /\ Cardinality(down) + Count(mainq', ChainJobs) = ups + jobs
        /\ Count(mainq', Reconnects) = Count(mainq, Reconnects)
    BY <1>1, <2>1, DisconnectCounted DEF ups, jobs
  <2>3. ConnectedIn(bridge') = down
    BY <2>1
  <2> HIDE DEF down
  <2>4. Finite'
    BY <1>1, <1>2, <2>2, <2>3 DEF Finite
  <2>5. Count(mainq', ChainJobs) \in Nat
    BY <2>2, CountType
  <2>6. Chains' = calls + Cardinality(down) + Count(mainq', ChainJobs) + sleepers
    BY <1>2, <2>1, <2>3 DEF Chains, calls
  <2>7. calls + Cardinality(down) + Count(mainq', ChainJobs) + sleepers <= 1 + retries
    BY <1>1, <2>2, <2>5
  <2> QED
    BY <1>1, <2>1, <2>2, <2>4, <2>6, <2>7 DEF ChainInv
<1>4. CASE TapRetry
  <2>1. /\ mainq' = Append(mainq, Plain("retry")) /\ retries' = retries + 1
        /\ UNCHANGED <<bridge, sleepers, reconnectAttempt>>
    BY <1>4 DEF TapRetry, sessionVars
  <2>2. /\ Plain("retry") \in Job /\ One(Plain("retry"), ChainJobs) = 1
        /\ One(Plain("retry"), Reconnects) = 0
    BY JobsMade, LinksAre
  <2>3. /\ Count(mainq', ChainJobs) = jobs + 1
        /\ Count(mainq', Reconnects) = Count(mainq, Reconnects)
    BY <1>1, <2>1, <2>2, CountAppended DEF jobs
  <2>4. Finite' /\ Cardinality(ConnectedIn(bridge')) = ups
    BY <1>1, <1>2, <2>1 DEF Finite, ups
  <2>5. Chains' = calls + ups + (jobs + 1) + sleepers
    BY <1>2, <2>1, <2>3, <2>4 DEF Chains, calls
  <2>6. calls + ups + (jobs + 1) + sleepers <= 1 + (retries + 1)
    BY <1>1
  <2>7. reconnectAttempt + Count(mainq, Reconnects) <= MaxReconnectAttempts + (retries + 1)
    BY <1>1
  <2> QED
    BY <2>1, <2>3, <2>4, <2>5, <2>6, <2>7 DEF ChainInv
<1>5. CASE \E c \in Context : ConnectionLost(c)
  <2>1. PICK c \in Context : ConnectionLost(c)
    BY <1>5
  <2>2. UNCHANGED <<mainq, sleepers, retries, reconnectAttempt>>
    BY <2>1 DEF ConnectionLost, sessionVars, viewVars
  <2>3. ConnectedIn(bridge') = ConnectedIn(bridge)
    BY <1>1, <2>1, ConnectedTables DEF ConnectionLost
  <2>4. Finite'
    BY <1>1, <1>2, <2>3 DEF Finite
  <2>5. Chains' = Chains
    BY <1>2, <2>2, <2>3 DEF Chains
  <2> QED
    BY <2>2, <2>4, <2>5 DEF ChainInv
<1> QED
  BY <1>3, <1>4, <1>5 DEF Environment

LEMMA StepKeepsChainInv == IInv /\ ChainInv /\ [Next]_vars => ChainInv'
<1> SUFFICES ASSUME IInv, ChainInv, [Next]_vars PROVE ChainInv'
  OBVIOUS
<1>1. ASSUME UNCHANGED <<bridge, call, mainq, sleepers, retries, reconnectAttempt>>
      PROVE  ChainInv'
  <2>1. ChainCalls' = ChainCalls
    BY <1>1 DEF ChainCalls
  <2>2. Chains' = Chains /\ (Finite' <=> Finite)
    BY <1>1, <2>1 DEF Chains, Finite
  <2> QED
    BY <1>1, <2>2 DEF ChainInv
<1>2. ASSUME NEW k \in Call, EventLoopThread(k) PROVE ChainInv'
  BY <1>1, <1>2 DEF EventLoopThread, LoopTop, ProcessEventsReturns, LoopFrame, sessionVars,
     viewVars
<1>3. CASE UNCHANGED vars
  BY <1>1, <1>3 DEF vars, sessionVars, viewVars
<1> QED
  BY <1>2, <1>3, MainActorChains, SleepOverChains, ConnectThreadChains, EnvironmentChains
  DEF Next

LEMMA InitChainInv == Init => ChainInv
<1> SUFFICES ASSUME Init PROVE ChainInv
  OBVIOUS
<1>1. ChainCalls = {} /\ ConnectedIn(bridge) = {}
  BY DEF Init, BridgeInit, ChainCalls, ConnectedIn
<1>2. IsFiniteSet({}) /\ Cardinality({}) = 0
  BY FS_EmptySet
<1>3. mainq = <<Plain("appear")>>
  BY DEF Init
<1>4. Plain("appear") \in Job /\ Plain("appear").kind = "appear"
  BY JobsMade
<1>5. Plain("appear") \in ChainJobs /\ Plain("appear") \notin Reconnects
  BY <1>4 DEF ChainJobs, Reconnects
<1>6. Jobs(mainq, ChainJobs) = {1} /\ Jobs(mainq, Reconnects) = {}
  BY <1>3, <1>5 DEF Jobs
<1>7. Count(mainq, ChainJobs) = 1 /\ Count(mainq, Reconnects) = 0
  BY <1>2, <1>6, FS_Singleton DEF Count
<1>8. sleepers = 0 /\ retries = 0 /\ reconnectAttempt = 0
  BY DEF Init
<1>9. Chains = 0 + 0 + 1 + 0
  BY <1>1, <1>2, <1>7, <1>8 DEF Chains
<1> QED
  BY <1>1, <1>2, <1>7, <1>8, <1>9 DEF ChainInv, Finite

LEMMA ChainInvariance == Spec => []ChainInv
  BY InitChainInv, StepKeepsChainInv, Invariance, PTL DEF Spec

(* The number of attempts, which the user sees, is above                    *)
(* maxReconnectAttempts (RDPSession.swift:336-346) by no more than the      *)
(* number of retries: whatever the user does, and in whatever order the     *)
(* tasks run.                                                               *)
THEOREM AttemptsWithinRetriesAlways == Spec => []AttemptsWithinRetries
<1>1. IInv /\ ChainInv => AttemptsWithinRetries
  <2> SUFFICES ASSUME IInv, ChainInv PROVE AttemptsWithinRetries
    OBVIOUS
  <2>1. Finite
    BY DEF ChainInv
  <2>2. /\ reconnectAttempt \in Nat /\ retries \in Nat /\ Count(mainq, Reconnects) \in Nat
    BY <2>1, CountsType
  <2> QED
    BY <2>2 DEF ChainInv, AttemptsWithinRetries
<1> QED
  BY <1>1, Invariance, ChainInvariance, PTL

(* A user who does not retry never sees more attempts than the maximum.     *)
THEOREM AttemptsBoundedWithoutRetry ==
    ASSUME MaxRetries = 0
    PROVE  Spec => []AttemptsBounded
<1>1. IInv /\ AttemptsWithinRetries => AttemptsBounded
  BY DEF IInv, TypeOK, AttemptsWithinRetries, AttemptsBounded
<1> QED
  BY <1>1, Invariance, AttemptsWithinRetriesAlways, PTL

----------------------------------------------------------------------------
(* Until the user taps retry there is one chain: whoever is about to call   *)
(* performConnect finds no context, so each connect call has its own.       *)

Waiting == sleepers > 0 \/ ~Lacks(mainq, "appear") \/ ~Lacks(mainq, "wake")

OneChain ==
    /\ Lacks(mainq, "retry")
    /\ Waiting => context = NoContext
    /\ OneConnectPerContext

UntilRetry == retries = 0 => OneChain

(* The threads inside viDesk_connect only leave it.                         *)
LEMMA OneConnectKept ==
    ASSUME OneConnectPerContext,
           \A k \in Call : call'[k].pc \in Running =>
              call[k].pc \in Running /\ call'[k].ctx = call[k].ctx
    PROVE  OneConnectPerContext'
<1>1. \A c \in Context : ConnectsOn(c)' \subseteq ConnectsOn(c)
  BY DEF ConnectsOn, Running
<1> QED
  BY <1>1 DEF OneConnectPerContext

(* While there is one chain, no one else waits behind the job that is its   *)
(* link.                                                                    *)
LEMMA LastLinkTaken ==
    ASSUME IInv, ChainInv, retries = 0, NEW i \in Ready, mainq[i] \in ChainJobs
    PROVE  sleepers = 0 /\ \A kind \in {"appear", "wake"} : Lacks(Without(i), kind)
<1> DEFINE q == Without(i)
           calls == Cardinality(ChainCalls)
           ups == Cardinality(ConnectedIn(bridge))
<1>1. /\ mainq \in Seq(Job) /\ calls \in Nat /\ ups \in Nat /\ sleepers \in Nat
      /\ calls + ups + Count(mainq, ChainJobs) + sleepers <= 1
  BY CountsType DEF ChainInv, Chains
<1>2. q \in Seq(Job) /\ Count(mainq, ChainJobs) = Count(q, ChainJobs) + 1
  BY <1>1, CountTaken DEF One
<1>3. IsFiniteSet(Jobs(q, ChainJobs)) /\ Count(q, ChainJobs) \in Nat
  BY <1>2, CountType
<1> HIDE DEF q, calls, ups
<1>4. sleepers = 0 /\ Count(q, ChainJobs) = 0
  BY <1>1, <1>2, <1>3
<1>5. Jobs(q, ChainJobs) = {}
  BY <1>3, <1>4, FS_EmptySet DEF Count
<1>6. ASSUME NEW kind \in {"appear", "wake"}, NEW j \in DOMAIN q, q[j].kind = kind PROVE FALSE
  <2>1. q[j] \in Job
    BY <1>2, <1>6
  <2>2. q[j] \in ChainJobs
    BY <1>6, <2>1 DEF ChainJobs
  <2> QED
    BY <1>5, <2>2 DEF Jobs
<1> QED
  BY <1>4, <1>6 DEF Lacks, q

(* performConnect without a context connects a new one.                     *)
LEMMA NewContextNewCall ==
    ASSUME IInv, OneConnectPerContext, context = NoContext,
           NEW by, NEW e, PerformConnect(by, bridge, e)
    PROVE  OneConnectPerContext'
<1>1. CASE UNCHANGED call
  BY <1>1, OneConnectKept
<1>2. CASE /\ Unborn(bridge) # {} /\ IdleCalls # {}
           /\ call' = [call EXCEPT ![NextCall] =
                         [pc |-> "dispatched", ctx |-> NextUnborn(bridge), by |-> by]]
  <2> DEFINE n == NextUnborn(bridge)
             m == NextCall
  <2>1. n \in Context /\ bridge[n].life = "unborn"
    BY <1>2, NextUnbornType
  <2>2. m \in Call
    BY <1>2, NextCallType
  <2>3. \A k \in Call : call[k].ctx # n
    BY <2>1 DEF IInv, ThreadsUseBorn
  <2> HIDE DEF n, m
  <2>4. /\ call'[m].ctx = n
        /\ \A k \in Call \ {m} : call'[k] = call[k]
    BY <1>2, <2>2 DEF IInv, TypeOK, n, m
  <2> SUFFICES ASSUME NEW c \in Context, NEW j \in ConnectsOn(c)', NEW k \in ConnectsOn(c)'
               PROVE  j = k
    BY DEF OneConnectPerContext
  <2>5. /\ j \in Call /\ call'[j].ctx = c /\ call'[j].pc \in Running
        /\ k \in Call /\ call'[k].ctx = c /\ call'[k].pc \in Running
    BY DEF ConnectsOn, Running
  <2>6. CASE j # m /\ k # m
    <3>1. j \in ConnectsOn(c) /\ k \in ConnectsOn(c)
      BY <2>4, <2>5, <2>6 DEF ConnectsOn, Running
    <3> QED
      BY <3>1 DEF OneConnectPerContext
  <2> QED
    BY <2>3, <2>4, <2>5, <2>6
<1> QED
  BY <1>1, <1>2 DEF PerformConnect, HasContext

LEMMA MainActorUntilRetry ==
    ASSUME IInv, ChainInv, retries = 0, OneChain, MainActor
    PROVE  OneChain'
<1>1. PICK i \in Ready :
          \/ DeliverNotification(i)
          \/ HandleNotification(i)
          \/ ViewModelConnect(i)
          \/ ViewModelReconnect(i)
          \/ PerformConnectResumed(i)
          \/ ReconnectTask(i)
          \/ ReconnectTaskWakes(i)
  BY DEF MainActor
<1>2. /\ mainq \in Seq(Job) /\ i \in DOMAIN mainq /\ mainq[i] \in Job /\ TypeOK
  BY WithoutType DEF IInv, TypeOK
<1>3. ~SleepOver \/ sleepers' # sleepers
  BY DEF SleepOver, IInv, TypeOK
<1>4. mainq[i].kind # "retry"
  BY <1>2 DEF OneChain, Lacks
<1>5. retries' = retries
  BY <1>1 DEF DeliverNotification, HandleNotification, ViewModelConnect, ViewModelReconnect,
     PerformConnectResumed, ReconnectTask, ReconnectTaskWakes, viewVars
<1>6. Lacks(mainq', "retry") /\ (Lacks(mainq, "appear") => Lacks(mainq', "appear"))
  <2>1. ~TapRetry
    BY <1>5 DEF TapRetry
  <2> QED
    BY <2>1, QueueStaysWithout DEF OneChain, Next
<1>7. ASSUME UNCHANGED <<context, sleepers, call>> PROVE OneChain'
  <2>1. ~SleepOver
    BY <1>3, <1>7
  <2>2. Lacks(mainq, "wake") => Lacks(mainq', "wake")
    BY <2>1, QueueStaysWithout DEF Next
  <2>3. OneConnectPerContext'
    BY <1>7, OneConnectKept DEF OneChain
  <2> QED
    BY <1>6, <1>7, <2>2, <2>3 DEF OneChain, Waiting
<1>8. CASE DeliverNotification(i) \/ HandleNotification(i)
  BY <1>7, <1>8 DEF DeliverNotification, HandleNotification
<1>9. CASE ViewModelConnect(i) \/ ReconnectTaskWakes(i)
  <2>1. mainq[i].kind \in {"appear", "wake"} /\ mainq' = Without(i) /\ sleepers' = sleepers
    BY <1>2, <1>9, MainActorAppends DEF ViewModelConnect, ReconnectTaskWakes
  <2>2. mainq[i] \in ChainJobs
    BY <1>2, <2>1 DEF ChainJobs
  <2>3. ~Waiting'
    BY <2>1, <2>2, LastLinkTaken DEF Waiting
  <2>4. context = NoContext
    BY <1>2, <2>1 DEF OneChain, Waiting, Lacks
  <2>5. UNCHANGED call \/ \E by, e : PerformConnect(by, bridge, e)
    BY <1>9 DEF ViewModelConnect, ReconnectTaskWakes
  <2>6. OneConnectPerContext'
    BY <2>4, <2>5, NewContextNewCall, OneConnectKept DEF OneChain
  <2> QED
    BY <1>6, <2>3, <2>6 DEF OneChain
<1>10. CASE ViewModelReconnect(i)
  BY <1>4, <1>10 DEF ViewModelReconnect
<1>11. CASE PerformConnectResumed(i)
  <2>1. UNCHANGED <<context, sleepers>> /\ ~SleepOver
    BY <1>3, <1>11 DEF PerformConnectResumed
  <2>2. Lacks(mainq, "wake") => Lacks(mainq', "wake")
    BY <2>1, QueueStaysWithout DEF Next
  <2>3. /\ mainq[i].call \in Call /\ call'[mainq[i].call].pc = "answered"
        /\ \A j \in Call \ {mainq[i].call} : call'[j] = call[j]
    BY <1>2, <1>11, MainActorCalls
  <2>4. OneConnectPerContext'
    BY <2>3, OneConnectKept DEF OneChain, Running
  <2> QED
    BY <1>6, <2>1, <2>2, <2>4 DEF OneChain, Waiting
<1>12. CASE ReconnectTask(i)
  <2>1. context' = NoContext /\ UNCHANGED call
    BY <1>12 DEF ReconnectTask, PointerAfterDestroy
  <2>2. OneConnectPerContext'
    BY <2>1, OneConnectKept DEF OneChain
  <2> QED
    BY <1>6, <2>1, <2>2 DEF OneChain
<1> QED
  BY <1>1, <1>8, <1>9, <1>10, <1>11, <1>12

LEMMA StepKeepsUntilRetry == IInv /\ ChainInv /\ UntilRetry /\ [Next]_vars => UntilRetry'
<1> SUFFICES ASSUME IInv, ChainInv, UntilRetry, [Next]_vars, retries' = 0 PROVE OneChain'
  BY DEF UntilRetry
<1>1. retries \in Nat
  BY DEF IInv, TypeOK
<1>2. ~TapRetry
  BY <1>1 DEF TapRetry
<1>3. retries = 0
  BY <1>2 DEF Next, MainActor, DeliverNotification, HandleNotification, ViewModelConnect,
     ViewModelReconnect, PerformConnectResumed, ReconnectTask, ReconnectTaskWakes, SleepOver,
     ConnectThread, ConnectStarts, PostConnect, PostConnectNotifies, ConnectSucceeds, ConnectFailsEarly,
     ConnectFailsLate, ConnectThreadFrame, EventLoopThread, LoopTop, ProcessEventsReturns,
     LoopFrame, Environment, ToolbarDisconnect, DisconnectAndDismiss, OnDisappear,
     ConnectionLost, vars, viewVars
<1>4. OneChain
  BY <1>3 DEF UntilRetry
<1>5. Lacks(mainq', "retry") /\ (Lacks(mainq, "appear") => Lacks(mainq', "appear"))
  BY <1>2, <1>4, QueueStaysWithout DEF OneChain
<1>6. ASSUME UNCHANGED <<context, sleepers>>, ~SleepOver,
             \A k \in Call : call'[k].pc \in Running =>
                call[k].pc \in Running /\ call'[k].ctx = call[k].ctx
      PROVE  OneChain'
  <2>1. Lacks(mainq, "wake") => Lacks(mainq', "wake")
    BY <1>6, QueueStaysWithout
  <2>2. OneConnectPerContext'
    BY <1>4, <1>6, OneConnectKept DEF OneChain
  <2> QED
    BY <1>4, <1>5, <1>6, <2>1, <2>2 DEF OneChain, Waiting
<1>7. CASE SleepOver
  <2>1. sleepers > 0 /\ UNCHANGED <<context, call>>
    BY <1>7 DEF SleepOver
  <2>2. context' = NoContext
    BY <1>4, <2>1 DEF OneChain, Waiting
  <2>3. OneConnectPerContext'
    BY <1>4, <2>1, OneConnectKept DEF OneChain
  <2> QED
    BY <1>5, <2>2, <2>3 DEF OneChain
<1>8. ASSUME NEW k \in Call, ConnectThread(k), ~SleepOver PROVE OneChain'
  <2>1. UNCHANGED <<context, sleepers>>
    BY <1>8 DEF ConnectThread, ConnectStarts, PostConnect, PostConnectNotifies, ConnectSucceeds,
       ConnectFailsEarly, ConnectFailsLate, ConnectThreadFrame
  <2>2. call[k].pc \in Running /\ \A j \in Call \ {k} : call'[j] = call[j]
    BY <1>8, ConnectThreadCalls DEF IInv
  <2>3. call'[k].ctx = call[k].ctx
    <3>1. PICK pc \in {"handshake", "flagged", "postconnected", "resuming"} :
              call' = [call EXCEPT ![k].pc = pc]
      BY <1>8 DEF ConnectThread, ConnectStarts, PostConnect, PostConnectNotifies, ConnectSucceeds,
         ConnectFailsEarly, ConnectFailsLate
    <3> QED
      BY <3>1 DEF IInv, TypeOK, ConnectCall
  <2> QED
    BY <1>6, <1>8, <2>1, <2>2, <2>3
<1>9. ASSUME NEW k \in Call, EventLoopThread(k), ~SleepOver PROVE OneChain'
  BY <1>6, <1>9 DEF EventLoopThread, LoopTop, ProcessEventsReturns, LoopFrame
<1>10. CASE Environment /\ ~SleepOver
  <2>1. UNCHANGED <<context, sleepers, call>>
    BY <1>10 DEF Environment, ToolbarDisconnect, DisconnectAndDismiss, OnDisappear, TapRetry,
       ConnectionLost
  <2> QED
    BY <1>6, <1>10, <2>1
<1>11. CASE UNCHANGED vars /\ ~SleepOver
  BY <1>6, <1>11 DEF vars
<1> QED
  BY <1>3, <1>4, <1>7, <1>8, <1>9, <1>10, <1>11, MainActorUntilRetry DEF Next

(* Until the user taps retry, no two threads are inside freerdp_connect on  *)
(* one instance (FreeRDPBridge.c:1201), with config.autoReconnect on or     *)
(* off, whatever else the user does, and in whatever order the tasks run.   *)
THEOREM OneConnectUntilRetryAlways == Spec => []OneConnectUntilRetry
<1>1. Init => UntilRetry
  <2> SUFFICES ASSUME Init PROVE OneChain
    BY DEF UntilRetry
  <2>1. mainq = <<Plain("appear")>> /\ Plain("appear").kind = "appear" /\ context = NoContext
    BY DEF Init, Plain
  <2>2. Lacks(mainq, "retry")
    BY <2>1 DEF Lacks
  <2>3. \A c \in Context : ConnectsOn(c) = {}
    BY DEF Init, ConnectsOn
  <2> QED
    BY <2>1, <2>2, <2>3 DEF OneChain, OneConnectPerContext
<1>2. UntilRetry => OneConnectUntilRetry
  BY DEF UntilRetry, OneChain, OneConnectUntilRetry
<1> QED
  BY <1>1, <1>2, StepKeepsUntilRetry, Invariance, ChainInvariance, PTL DEF Spec

=============================================================================
