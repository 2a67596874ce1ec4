---------------------------- MODULE PubSubProofs ----------------------------
(***************************************************************************)
(* Proofs about PubSub for any consumers and any number of updates and     *)
(* faults: its types; that no consumer is pushed an update it knows of;    *)
(* and that a subscription made while the owner was idle misses nothing.   *)
(* The first argument is about the order of messages: while an update is   *)
(* unsent, nothing in a queue, in a copy or known to a consumer is as new  *)
(* as it is, and once it is in a queue it stays newer than what is before  *)
(* it there. The last one is about what the queue of a consumer adds to    *)
(* what it knows: all that has been published, at every step.              *)
(***************************************************************************)
EXTENDS PubSub, SequenceTheorems, TLAPS

-----------------------------------------------------------------------------
(* Queues                                                                   *)

\* What is in a queue after a message was put to its end.
LEMMA AppendedQueue ==
  ASSUME NEW S, NEW q \in Seq(S), NEW m \in S
  PROVE  /\ Append(q, m) \in Seq(S)
         /\ DOMAIN Append(q, m) = 1 .. (Len(q) + 1)
         /\ DOMAIN q = 1 .. Len(q)
         /\ \A i \in 1 .. Len(q) : Append(q, m)[i] = q[i]
         /\ Append(q, m)[Len(q) + 1] = m
         /\ Len(q) \in Nat
  OBVIOUS

\* What is in a queue after its head was taken off.
LEMMA ShortenedQueue ==
  ASSUME NEW S, NEW q \in Seq(S), q # <<>>
  PROVE  /\ Tail(q) \in Seq(S)
         /\ Head(q) \in S
         /\ Head(q) = q[1]
         /\ Len(q) \in Nat \ {0}
         /\ DOMAIN q = 1 .. Len(q)
         /\ DOMAIN Tail(q) = 1 .. (Len(q) - 1)
         /\ \A i \in 1 .. (Len(q) - 1) : Tail(q)[i] = q[i + 1]
  OBVIOUS

\* The first message of a queue that is not empty.
LEMMA HeadOfQueue ==
  ASSUME NEW S, NEW q \in Seq(S), q # <<>>
  PROVE  1 \in DOMAIN q /\ Head(q) = q[1] /\ q[1] \in S
  OBVIOUS

\* What one message teaches stays within what there is.
LEMMA LearnedIsKnown ==
  ASSUME NEW N \in Nat, NEW known \in SUBSET (1 .. N),
         NEW m \in Messages, m.n <= N
  PROVE  Learned(known, m) \in SUBSET (1 .. N)
<1>1. m.n \in 1 .. N /\ m.whole \in BOOLEAN
  BY DEF Messages
<1>2. CASE m.whole
  <2>1. Learned(known, m) = 1 .. m.n
    BY <1>2 DEF Learned
  <2> QED
    BY <1>1, <2>1
<1>3. CASE ~m.whole
  <2>1. Learned(known, m) = known \cup {m.n}
    BY <1>3 DEF Learned
  <2> QED
    BY <1>1, <2>1
<1> QED
  BY <1>1, <1>2, <1>3

\* What is sent is a message.
LEMMA SentIsMessage ==
  ASSUME TypeOK, made > 0
  PROVE  /\ Sent \in Messages
         /\ Sent.n = made
         /\ ~Sent.whole <=> serving /\ style = "two"
<1>1. made \in 1 .. MaxData
  BY PubSubAssumption DEF TypeOK
<1> QED
  BY <1>1 DEF Sent, Data, Update, Messages

-----------------------------------------------------------------------------
(* Types                                                                    *)

LEMMA TypeInit == Init => TypeOK
<1> SUFFICES ASSUME Init PROVE TypeOK
  OBVIOUS
<1>1. <<>> \in Seq(Messages)
  OBVIOUS
<1>2. queue \in [Consumers -> Seq(Messages)]
  BY <1>1 DEF Init
<1>3. /\ call \in [Consumers -> {"none", "grab", "topic", "push", "ok", "failed"}]
      /\ grabbed \in [Consumers -> 0 .. MaxData]
      /\ consumer \in [Consumers -> {"idle", "calling", "waiting", "subscribed", "gone"}]
      /\ picture \in [Consumers -> SUBSET (1 .. MaxData)]
  BY PubSubAssumption DEF Init
<1>4. made \in 0 .. MaxData /\ data \in 0 .. made /\ faults \in 0 .. MaxFaults
  BY PubSubAssumption DEF Init
<1> QED
  BY <1>2, <1>3, <1>4 DEF Init, TypeOK

\* The owner's actions keep the types, and those of queue by what they send.
LEMMA ToAllKeepsQueues ==
  ASSUME TypeOK, made > 0, ToAll
  PROVE  queue' \in [Consumers -> Seq(Messages)] /\ served' \subseteq Consumers
<1>1. Sent \in Messages
  BY SentIsMessage
<1>2. ASSUME NEW c \in Consumers
      PROVE  (IF c \in subscribers THEN Append(queue[c], Sent) ELSE queue[c]) \in Seq(Messages)
  BY <1>1, <1>2, AppendedQueue DEF TypeOK
<1> QED
  BY <1>2 DEF ToAll, TypeOK

LEMMA AfterPushPlace ==
  AfterPush \in {"serve", "set", "idle"}
  BY DEF AfterPush

LEMMA OwnerKeepsTypes ==
  ASSUME IInv,
         InitInterface \/ LocalSetAndSend \/ LocalSet \/ LocalSend \/ OwnerProceeds
  PROVE  TypeOK'
<1> USE PubSubAssumption
<1>1. CASE InitInterface
  BY <1>1 DEF IInv, TypeOK, InitInterface, stormVars, callVars, consumerVars, historyVars
<1>2. CASE LocalSetAndSend
  BY <1>2 DEF IInv, TypeOK, LocalSetAndSend, SetsFirst, Overlap, stormVars, callVars, consumerVars
<1>3. CASE LocalSet
  BY <1>3 DEF IInv, TypeOK, LocalSet, stormVars, callVars, consumerVars
<1>4. CASE LocalSend
  BY <1>4 DEF IInv, TypeOK, LocalSend, Overlap, stormVars, callVars, consumerVars
<1>5. CASE ConnectToTopic
  BY <1>5 DEF IInv, TypeOK, ConnectToTopic, stormVars, callVars, consumerVars, historyVars
<1>6. CASE Serve
  BY <1>6 DEF IInv, TypeOK, Serve, stormVars, callVars, consumerVars, historyVars
<1>7. CASE ConnectAndPush
  BY <1>7, AfterPushPlace DEF IInv, TypeOK, ConnectAndPush, stormVars, callVars, consumerVars
<1>8. CASE FirstPush
  <2>1. queue' \in [Consumers -> Seq(Messages)] /\ served' \subseteq Consumers
    BY <1>8, ToAllKeepsQueues DEF IInv, TypeOK, SomethingToSend, FirstPush
  <2> QED
    BY <1>8, <2>1, AfterPushPlace DEF IInv, TypeOK, FirstPush, callVars, consumerVars
<1>9. CASE Reconnect
  BY <1>9, AfterPushPlace DEF IInv, TypeOK, Reconnect, stormVars, callVars, consumerVars
<1>10. CASE SecondPush
  <2>1. queue' \in [Consumers -> Seq(Messages)] /\ served' \subseteq Consumers
    BY <1>10, ToAllKeepsQueues DEF IInv, TypeOK, SomethingToSend, SecondPush
  <2> QED
    BY <1>10, <2>1, AfterPushPlace DEF IInv, TypeOK, SecondPush, callVars, consumerVars
<1>11. CASE SetAfterPush
  BY <1>11 DEF IInv, TypeOK, SetAfterPush, stormVars, callVars, consumerVars, historyVars
<1> QED
  BY <1>1, <1>2, <1>3, <1>4, <1>5, <1>6, <1>7, <1>8, <1>9, <1>10, <1>11 DEF OwnerProceeds

LEMMA ConsumerKeepsTypes ==
  ASSUME IInv, NEW c \in Consumers,
         \/ Dispatch(c) \/ ConsumerProceeds(c)
         \/ Subscribe(c) \/ GiveUp(c) \/ Unsubscribe(c) \/ Destroy(c)
         \/ ReplyLost(c) \/ Deliver(c)
  PROVE  TypeOK'
<1> USE PubSubAssumption
<1>0. <<>> \in Seq(Messages)
  OBVIOUS
<1>1. CASE GrabData(c)
  BY <1>1 DEF IInv, TypeOK, GrabData, Reply, ownerVars, stormVars, consumerVars
<1>2. CASE SubscribeToTopic(c)
  BY <1>0, <1>2 DEF IInv, TypeOK, SubscribeToTopic, AlreadySubscribed, Reply, ownerVars, consumerVars
<1>3. CASE PushInitialData(c)
  <2>1. Data(grabbed[c]) \in Messages
    BY <1>3 DEF IInv, TypeOK, SomethingToSend, PushInitialData, Data, Messages
  <2>2. Append(queue[c], Data(grabbed[c])) \in Seq(Messages)
    BY <2>1, AppendedQueue DEF IInv, TypeOK
  <2> QED
    BY <1>3, <2>2 DEF IInv, TypeOK, PushInitialData, Reply, ownerVars, consumerVars
<1>4. CASE Subscribe(c)
  BY <1>4 DEF IInv, TypeOK, Subscribe, Reply, ownerVars, stormVars, historyVars
<1>5. CASE SubscribeReturns(c)
  BY <1>5 DEF IInv, TypeOK, SubscribeReturns, Reply, ownerVars, stormVars, historyVars
<1>6. CASE SubscribeThrows(c)
  BY <1>6 DEF IInv, TypeOK, SubscribeThrows, Reply, ownerVars, stormVars, historyVars
<1>7. CASE Retry(c)
  BY <1>7 DEF IInv, TypeOK, Retry, Reply, ownerVars, stormVars, historyVars
<1>8. CASE ReplyLost(c)
  BY <1>8 DEF IInv, TypeOK, ReplyLost, Reply, ownerVars, historyVars
<1>9. CASE GiveUp(c)
  BY <1>9 DEF IInv, TypeOK, GiveUp, ownerVars, stormVars, callVars, historyVars
<1>10. CASE Unsubscribe(c)
  BY <1>0, <1>10 DEF IInv, TypeOK, Unsubscribe, LeaveTopic, ownerVars, callVars
<1>11. CASE Destroy(c)
  BY <1>0, <1>11 DEF IInv, TypeOK, Destroy, LeaveTopic, ownerVars, callVars
<1>12. CASE Deliver(c)
  <2>1. queue[c] \in Seq(Messages) /\ queue[c] # <<>>
    BY <1>12 DEF IInv, TypeOK, Deliver
  <2>2. Tail(queue[c]) \in Seq(Messages) /\ Head(queue[c]) \in Messages
    BY <2>1, ShortenedQueue
  <2>3. Head(queue[c]).n <= MaxData
    BY <2>2 DEF Messages
  <2>4. Learned(picture[c], Head(queue[c])) \in SUBSET (1 .. MaxData)
    BY <2>2, <2>3, LearnedIsKnown DEF IInv, TypeOK
  <2> QED
    BY <1>0, <1>12, <2>2, <2>4 DEF IInv, TypeOK, Deliver, ownerVars, callVars, historyVars
<1> QED
  BY <1>1, <1>2, <1>3, <1>4, <1>5, <1>6, <1>7, <1>8, <1>9, <1>10, <1>11, <1>12
  DEF Dispatch, ConsumerProceeds

LEMMA TypeStep == IInv /\ [Next]_vars => TypeOK'
<1> SUFFICES ASSUME IInv, [Next]_vars PROVE TypeOK'
  OBVIOUS
<1>1. CASE Crash
  <2>1. <<>> \in Seq(Messages)
    OBVIOUS
  <2>2. queue' \in [Consumers -> Seq(Messages)]
    BY <1>1, <2>1 DEF Crash
  <2>3. faults' \in 0 .. MaxFaults
    BY <1>1, PubSubAssumption DEF IInv, TypeOK, Crash
  <2> QED
    BY <1>1, <2>2, <2>3
    DEF IInv, TypeOK, Crash, ownerVars, callVars, consumerVars
<1>2. CASE Restart
  BY <1>2 DEF IInv, TypeOK, Restart, ownerVars, callVars, consumerVars, historyVars
<1>3. CASE UNCHANGED vars
  BY <1>3 DEF IInv, TypeOK, vars, ownerVars, stormVars, callVars, consumerVars, historyVars
<1> QED
  BY <1>1, <1>2, <1>3, OwnerKeepsTypes, ConsumerKeepsTypes DEF Next
\* The owner does something, or nothing of it changes.
LEMMA OwnerOrNot ==
  ASSUME [Next]_vars
  PROVE  \/ UNCHANGED ownerVars
         \/ InitInterface \/ LocalSetAndSend \/ LocalSet \/ LocalSend
         \/ OwnerProceeds
<1>1. ASSUME NEW c \in Consumers,
             \/ Dispatch(c) \/ ConsumerProceeds(c)
             \/ Subscribe(c) \/ GiveUp(c) \/ Unsubscribe(c) \/ Destroy(c)
             \/ ReplyLost(c) \/ Deliver(c)
      PROVE  UNCHANGED ownerVars
  BY <1>1
  DEF Dispatch, GrabData, SubscribeToTopic, PushInitialData, ConsumerProceeds,
      SubscribeReturns, SubscribeThrows, Retry, Subscribe, GiveUp, Unsubscribe,
      Destroy, ReplyLost, Deliver, ownerVars
<1>2. CASE Crash \/ Restart \/ UNCHANGED vars
  BY <1>2 DEF Crash, Restart, vars, ownerVars
<1> QED
  BY <1>1, <1>2 DEF Next

-----------------------------------------------------------------------------
(* How queues change                                                        *)

\* the parts of NothingNewer and UpdatesInOrder that speak of one queue
Within(q, N) == \A i \in DOMAIN q : q[i].n <= N

InOrder(q, known) ==
  \A i \in DOMAIN q :
    ~q[i].whole =>
      /\ \A n \in known : n < q[i].n
      /\ \A k \in 1 .. (i - 1) : q[k].n < q[i].n

\* A message that is not too new can be appended.
LEMMA WithinAppend ==
  ASSUME NEW q \in Seq(Messages), NEW m \in Messages, NEW N \in Nat,
         Within(q, N), m.n <= N
  PROVE  Within(Append(q, m), N)
  BY AppendedQueue DEF Within, Messages

\* The whole can be appended to any queue, an update when nothing is as new.
LEMMA InOrderAppend ==
  ASSUME NEW q \in Seq(Messages), NEW m \in Messages, NEW known \in SUBSET Nat,
         InOrder(q, known),
         m.whole \/ (Within(q, m.n - 1) /\ \A n \in known : n < m.n)
  PROVE  InOrder(Append(q, m), known)
<1> DEFINE r == Append(q, m)
<1>1. /\ DOMAIN r = 1 .. (Len(q) + 1) /\ DOMAIN q = 1 .. Len(q) /\ Len(q) \in Nat
      /\ \A i \in 1 .. Len(q) : r[i] = q[i]
      /\ r[Len(q) + 1] = m
  BY AppendedQueue
<1>2. \A i \in DOMAIN q : q[i] \in Messages
  OBVIOUS
<1> HIDE DEF r
<1>3. ASSUME NEW i \in DOMAIN r, ~r[i].whole
      PROVE  /\ \A n \in known : n < r[i].n
             /\ \A k \in 1 .. (i - 1) : r[k].n < r[i].n
  <2>1. CASE i \in 1 .. Len(q)
    BY <1>1, <1>3, <2>1 DEF InOrder
  <2>2. CASE i = Len(q) + 1
    <3>1. ~m.whole /\ r[i] = m
      BY <1>1, <1>3, <2>2
    <3>2. \A k \in 1 .. Len(q) : q[k].n < m.n
      BY <1>1, <1>2, <3>1 DEF Within, Messages
    <3> QED
      BY <1>1, <2>2, <3>1, <3>2
  <2> QED
    BY <1>1, <1>3, <2>1, <2>2
<1> QED
  BY <1>3 DEF InOrder, r

\* What follows the head of a queue is in order with what the head teaches.
LEMMA InOrderTail ==
  ASSUME NEW q \in Seq(Messages), q # <<>>, NEW known \in SUBSET Nat,
         InOrder(q, known)
  PROVE  InOrder(Tail(q), Learned(known, Head(q)))
<1> DEFINE r == Tail(q)
<1>1. /\ Head(q) = q[1] /\ Head(q) \in Messages
      /\ Len(q) \in Nat \ {0} /\ DOMAIN q = 1 .. Len(q)
      /\ DOMAIN r = 1 .. (Len(q) - 1)
      /\ \A i \in 1 .. (Len(q) - 1) : r[i] = q[i + 1]
  BY ShortenedQueue
<1>2. \A i \in DOMAIN q : q[i] \in Messages
  OBVIOUS
<1> HIDE DEF r
<1>3. ASSUME NEW i \in DOMAIN r, ~r[i].whole
      PROVE  /\ \A n \in Learned(known, Head(q)) : n < r[i].n
             /\ \A k \in 1 .. (i - 1) : r[k].n < r[i].n
  <2>1. /\ i + 1 \in DOMAIN q /\ r[i] = q[i + 1] /\ i \in Nat \ {0}
    BY <1>1, <1>3
  <2>2. /\ \A n \in known : n < q[i + 1].n
        /\ \A k \in 1 .. i : q[k].n < q[i + 1].n
    BY <1>3, <2>1 DEF InOrder
  <2>3. Head(q).n < r[i].n /\ r[i].n \in Nat /\ Head(q).n \in Nat
    BY <1>1, <1>2, <2>1, <2>2 DEF Messages
  <2>4. \A n \in Learned(known, Head(q)) : n \in known \/ n \in 1 .. Head(q).n \/ n = Head(q).n
    BY DEF Learned
  <2>5. \A n \in Learned(known, Head(q)) : n < r[i].n
    <3>1. ASSUME NEW n \in known PROVE n < r[i].n
      BY <2>1, <2>2
    <3>2. ASSUME NEW n \in 1 .. Head(q).n PROVE n < r[i].n
      BY <2>3
    <3> QED
      BY <2>3, <2>4, <3>1, <3>2
  <2>6. ASSUME NEW k \in 1 .. (i - 1) PROVE r[k].n < r[i].n
    <3>1. k + 1 \in 1 .. i /\ r[k] = q[k + 1]
      BY <1>1, <1>3, <2>1
    <3> QED
      BY <2>1, <2>2, <3>1
  <2> QED
    BY <2>5, <2>6
<1> QED
  BY <1>3 DEF InOrder, r

\* The ways the queue of a consumer and what it knows of can change in a step.
QueueMoves(c) ==
  \/ picture'[c] = picture[c] /\ queue'[c] = queue[c]
  \/ picture'[c] = picture[c] /\ queue'[c] = <<>>
  \/ /\ picture'[c] = picture[c] /\ queue'[c] = Append(queue[c], Sent)
     /\ owner \in {"push", "again"} /\ owner' = AfterPush
     /\ UNCHANGED <<made, style, serving>>
  \/ /\ picture'[c] = picture[c] /\ queue'[c] = Append(queue[c], Data(grabbed[c]))
     /\ call[c] = "push"
  \/ /\ queue[c] # <<>>
     /\ picture'[c] = Learned(picture[c], Head(queue[c]))
     /\ queue'[c] = Tail(queue[c])

LEMMA QueuesMove ==
  ASSUME TypeOK, [Next]_vars, NEW c \in Consumers
  PROVE  QueueMoves(c)
<1>1. CASE UNCHANGED <<queue, picture>>
  BY <1>1 DEF QueueMoves
<1>2. CASE FirstPush \/ SecondPush
  BY <1>2 DEF TypeOK, FirstPush, SecondPush, ToAll, consumerVars, QueueMoves
<1>3. ASSUME NEW d \in Consumers, SubscribeToTopic(d) \/ Unsubscribe(d) \/ Destroy(d)
      PROVE  QueueMoves(c)
  BY <1>3 DEF TypeOK, SubscribeToTopic, Unsubscribe, Destroy, LeaveTopic, consumerVars, QueueMoves
<1>4. ASSUME NEW d \in Consumers, PushInitialData(d)
      PROVE  QueueMoves(c)
  BY <1>4 DEF TypeOK, PushInitialData, consumerVars, QueueMoves
<1>5. ASSUME NEW d \in Consumers, Deliver(d)
      PROVE  QueueMoves(c)
  BY <1>5 DEF TypeOK, Deliver, QueueMoves
<1>6. CASE Crash
  BY <1>6 DEF Crash, consumerVars, QueueMoves
<1>7. CASE \/ InitInterface \/ LocalSetAndSend \/ LocalSet \/ LocalSend
           \/ ConnectToTopic \/ Serve \/ ConnectAndPush \/ Reconnect \/ SetAfterPush
           \/ Restart \/ UNCHANGED vars
  BY <1>1, <1>7
  DEF InitInterface, LocalSetAndSend, LocalSet, LocalSend, ConnectToTopic, Serve,
      ConnectAndPush, Reconnect, SetAfterPush, Restart, vars, stormVars, consumerVars
<1>8. ASSUME NEW d \in Consumers,
             \/ GrabData(d) \/ Subscribe(d) \/ SubscribeReturns(d) \/ SubscribeThrows(d)
             \/ ReplyLost(d) \/ Retry(d) \/ GiveUp(d)
      PROVE  QueueMoves(c)
  BY <1>1, <1>8
  DEF GrabData, Subscribe, SubscribeReturns, SubscribeThrows, ReplyLost, Retry, GiveUp,
      stormVars, consumerVars
<1> QED
  BY <1>2, <1>3, <1>4, <1>5, <1>6, <1>7, <1>8
  DEF Next, OwnerProceeds, Dispatch, ConsumerProceeds

-----------------------------------------------------------------------------
(* What is newest                                                           *)

\* Neither the newest update outside the owner nor the data goes back, and the
\* data is not ahead.
LEMMA NewestGrows ==
  ASSUME IInv, [Next]_vars
  PROVE  /\ Newest \in Nat /\ Newest' \in Nat
         /\ Newest <= Newest' /\ data <= data' /\ data' <= Newest'
<1>1. /\ made \in Nat /\ data \in Nat /\ data <= made /\ data <= Newest
      /\ owner \in {"push", "reconnect", "again"} => made > 0
  BY PubSubAssumption DEF IInv, TypeOK, NothingNewer, SomethingToSend
<1>2. CASE UNCHANGED ownerVars
  BY <1>1, <1>2 DEF ownerVars, Newest, Unsent
<1>3. CASE InitInterface
  BY <1>1, <1>3 DEF InitInterface, Newest, Unsent
<1>4. CASE LocalSetAndSend
  BY <1>1, <1>4 DEF LocalSetAndSend, SetsFirst, Newest, Unsent
<1>5. CASE LocalSet \/ LocalSend
  BY <1>1, <1>5 DEF LocalSet, LocalSend, Newest, Unsent
<1>6. CASE ConnectToTopic \/ Serve
  BY <1>1, <1>6 DEF IInv, NotServedYet, ConnectToTopic, Serve, Newest, Unsent
<1>7. CASE ConnectAndPush \/ FirstPush \/ Reconnect \/ SecondPush
  BY <1>1, <1>7, AfterPushPlace
  DEF ConnectAndPush, FirstPush, Reconnect, SecondPush, Newest, Unsent
<1>8. CASE SetAfterPush
  BY <1>1, <1>8 DEF SetAfterPush, Newest, Unsent
<1> QED
  BY <1>2, <1>3, <1>4, <1>5, <1>6, <1>7, <1>8, OwnerOrNot DEF OwnerProceeds

\* A copy is taken from the data.
LEMMA CopiesAreData ==
  ASSUME IInv, [Next]_vars, NEW c \in Consumers
  PROVE  grabbed'[c] \in {grabbed[c], data}
<1>1. CASE UNCHANGED grabbed
  BY <1>1
<1>2. ASSUME NEW d \in Consumers, GrabData(d)
      PROVE  grabbed'[c] \in {grabbed[c], data}
  BY <1>2 DEF IInv, TypeOK, GrabData
<1>3. ASSUME NEW d \in Consumers,
             \/ SubscribeToTopic(d) \/ PushInitialData(d) \/ ConsumerProceeds(d)
             \/ Subscribe(d) \/ GiveUp(d) \/ Unsubscribe(d) \/ Destroy(d)
             \/ ReplyLost(d) \/ Deliver(d)
      PROVE  UNCHANGED grabbed
  BY <1>3
  DEF SubscribeToTopic, PushInitialData, ConsumerProceeds, SubscribeReturns,
      SubscribeThrows, Retry, Subscribe, GiveUp, Unsubscribe, Destroy, ReplyLost,
      Deliver, callVars
<1>4. CASE \/ InitInterface \/ LocalSetAndSend \/ LocalSet \/ LocalSend
           \/ OwnerProceeds \/ Crash \/ Restart \/ UNCHANGED vars
  BY <1>1, <1>4
  DEF InitInterface, LocalSetAndSend, LocalSet, LocalSend, OwnerProceeds,
      ConnectToTopic, Serve, ConnectAndPush, FirstPush, Reconnect, SecondPush,
      SetAfterPush, Crash, Restart, vars, callVars
<1> QED
  BY <1>1, <1>2, <1>3, <1>4 DEF Next, Dispatch

-----------------------------------------------------------------------------
(* The invariant                                                            *)

LEMMA InvInit == Init => IInv
<1> SUFFICES ASSUME Init PROVE IInv
  OBVIOUS
<1>1. TypeOK
  BY TypeInit
<1>2. Newest = 0
  BY DEF Init, Newest, Unsent
<1>3. NothingNewer
  BY <1>2 DEF Init, NothingNewer
<1>4. UpdatesInOrder
  BY DEF Init, UpdatesInOrder
<1> QED
  BY <1>1, <1>3, <1>4 DEF Init, IInv, SomethingToSend, NotServedYet

LEMMA SomethingToSendStep == IInv /\ [Next]_vars => SomethingToSend'
<1> SUFFICES ASSUME IInv, [Next]_vars PROVE SomethingToSend'
  OBVIOUS
<1>1. (owner \in {"push", "reconnect", "again"} => made > 0)'
  <2>1. made \in Nat /\ data \in Nat /\ data <= made
    BY PubSubAssumption DEF IInv, TypeOK
  <2>2. owner \in {"push", "reconnect", "again"} => made > 0
    BY DEF IInv, SomethingToSend
  <2>3. CASE UNCHANGED ownerVars
    BY <2>2, <2>3 DEF ownerVars
  <2>4. CASE InitInterface \/ LocalSetAndSend \/ LocalSet \/ LocalSend
    BY <2>1, <2>2, <2>4 DEF InitInterface, LocalSetAndSend, LocalSet, LocalSend
  <2>5. CASE OwnerProceeds
    BY <2>1, <2>2, <2>5, AfterPushPlace
    DEF OwnerProceeds, ConnectToTopic, Serve, ConnectAndPush, FirstPush, Reconnect,
        SecondPush, SetAfterPush
  <2> QED
    BY <2>3, <2>4, <2>5, OwnerOrNot
<1>2. ASSUME NEW c \in Consumers, (call[c] = "push")'
      PROVE  grabbed'[c] > 0
  <2>1. grabbed[c] \in Nat /\ (call[c] = "push" => grabbed[c] > 0)
    BY PubSubAssumption DEF IInv, TypeOK, SomethingToSend
  <2>2. CASE UNCHANGED <<call, grabbed>>
    BY <1>2, <2>1, <2>2
  <2>3. ASSUME NEW d \in Consumers, Dispatch(d)
        PROVE  grabbed'[c] > 0
    BY <1>2, <2>1, <2>3
    DEF IInv, TypeOK, Dispatch, GrabData, SubscribeToTopic, PushInitialData, GotData,
        AlreadySubscribed, Reply
  <2>4. ASSUME NEW d \in Consumers,
               ConsumerProceeds(d) \/ Subscribe(d) \/ ReplyLost(d)
        PROVE  grabbed'[c] > 0
    BY <1>2, <2>1, <2>4
    DEF IInv, TypeOK, ConsumerProceeds, SubscribeReturns, SubscribeThrows, Retry,
        Subscribe, ReplyLost, Reply
  <2>5. ASSUME NEW d \in Consumers,
               GiveUp(d) \/ Unsubscribe(d) \/ Destroy(d) \/ Deliver(d)
        PROVE  UNCHANGED <<call, grabbed>>
    BY <2>5 DEF GiveUp, Unsubscribe, Destroy, Deliver, callVars
  <2>6. CASE \/ InitInterface \/ LocalSetAndSend \/ LocalSet \/ LocalSend
             \/ OwnerProceeds \/ Crash \/ Restart \/ UNCHANGED vars
    BY <2>2, <2>6
    DEF InitInterface, LocalSetAndSend, LocalSet, LocalSend, OwnerProceeds,
        ConnectToTopic, Serve, ConnectAndPush, FirstPush, Reconnect, SecondPush,
        SetAfterPush, Crash, Restart, vars, callVars
  <2> QED
    BY <2>2, <2>3, <2>4, <2>5, <2>6 DEF Next
<1> QED
  BY <1>1, <1>2 DEF SomethingToSend

LEMMA NotServedYetStep == IInv /\ [Next]_vars => NotServedYet'
<1> SUFFICES ASSUME IInv, [Next]_vars PROVE NotServedYet'
  OBVIOUS
<1>1. NotServedYet
  BY DEF IInv
<1>2. CASE UNCHANGED ownerVars
  BY <1>1, <1>2 DEF NotServedYet, ownerVars
<1>3. CASE InitInterface \/ LocalSetAndSend \/ LocalSet \/ LocalSend \/ OwnerProceeds
  BY <1>1, <1>3
  DEF NotServedYet, InitInterface, LocalSetAndSend, LocalSet, LocalSend, OwnerProceeds,
      ConnectToTopic, Serve, ConnectAndPush, FirstPush, Reconnect, SecondPush,
      SetAfterPush, AfterPush
<1> QED
  BY <1>2, <1>3, OwnerOrNot

LEMMA NothingNewerStep == IInv /\ [Next]_vars => NothingNewer'
<1> SUFFICES ASSUME IInv, [Next]_vars PROVE NothingNewer'
  OBVIOUS
<1>1. /\ Newest \in Nat /\ Newest' \in Nat
      /\ Newest <= Newest' /\ data <= data' /\ data' <= Newest'
  BY NewestGrows
<1>2. ASSUME NEW c \in Consumers
      PROVE  /\ grabbed'[c] <= data'
             /\ picture'[c] \subseteq 1 .. Newest'
             /\ Within(queue'[c], Newest')
  <2>1. /\ queue[c] \in Seq(Messages) /\ grabbed[c] \in Nat /\ data \in Nat
        /\ made \in Nat
    BY PubSubAssumption DEF IInv, TypeOK
  <2>2. /\ grabbed[c] <= data /\ picture[c] \subseteq 1 .. Newest
        /\ Within(queue[c], Newest)
    BY DEF IInv, NothingNewer, Within
  <2>3. TypeOK'
    BY TypeStep
  <2>4. data' \in Nat
    BY <2>3, PubSubAssumption DEF TypeOK
  <2>5. grabbed'[c] <= data'
    BY <1>1, <2>1, <2>2, <2>4, CopiesAreData
  <2>6. Within(queue[c], Newest') /\ picture[c] \subseteq 1 .. Newest'
    <3>1. \A i \in DOMAIN queue[c] : queue[c][i] \in Messages
      BY <2>1
    <3> QED
      BY <1>1, <2>2, <3>1 DEF Within, Messages
  <2>7. QueueMoves(c)
    BY QueuesMove DEF IInv
  <2>8. CASE picture'[c] = picture[c] /\ queue'[c] \in {queue[c], <<>>}
    BY <2>5, <2>6, <2>8 DEF Within
  <2>9. CASE /\ picture'[c] = picture[c] /\ queue'[c] = Append(queue[c], Sent)
             /\ owner \in {"push", "again"} /\ owner' = AfterPush
             /\ UNCHANGED <<made, style, serving>>
    <3>1. Sent \in Messages /\ Sent.n = made
      BY <2>9, SentIsMessage DEF IInv, SomethingToSend
    <3>2. Newest' = made
      BY <2>9, AfterPushPlace DEF Newest, Unsent
    <3> QED
      BY <1>1, <2>1, <2>5, <2>6, <2>9, <3>1, <3>2, WithinAppend
  <2>10. CASE /\ picture'[c] = picture[c] /\ queue'[c] = Append(queue[c], Data(grabbed[c]))
              /\ call[c] = "push"
    <3>1. Data(grabbed[c]) \in Messages /\ Data(grabbed[c]).n = grabbed[c]
      BY <2>10 DEF IInv, TypeOK, SomethingToSend, Data, Messages
    <3>2. grabbed[c] <= Newest'
      BY <1>1, <2>1, <2>2, <2>4
    <3> QED
      BY <1>1, <2>1, <2>5, <2>6, <2>10, <3>1, <3>2, WithinAppend
  <2>11. CASE /\ queue[c] # <<>>
              /\ picture'[c] = Learned(picture[c], Head(queue[c]))
              /\ queue'[c] = Tail(queue[c])
    <3>1. /\ Head(queue[c]) = queue[c][1] /\ Head(queue[c]) \in Messages
          /\ Len(queue[c]) \in Nat \ {0}
          /\ DOMAIN queue[c] = 1 .. Len(queue[c])
          /\ DOMAIN Tail(queue[c]) = 1 .. (Len(queue[c]) - 1)
          /\ \A i \in 1 .. (Len(queue[c]) - 1) : Tail(queue[c])[i] = queue[c][i + 1]
      BY <2>1, <2>11, ShortenedQueue
    <3>2. Head(queue[c]).n <= Newest'
      BY <2>6, <3>1 DEF Within
    <3>3. picture'[c] \subseteq 1 .. Newest'
      BY <1>1, <2>6, <2>11, <3>1, <3>2, LearnedIsKnown
    <3>4. Within(queue'[c], Newest')
      BY <2>6, <2>11, <3>1 DEF Within
    <3> QED
      BY <2>5, <3>3, <3>4
  <2> QED
    BY <2>5, <2>7, <2>8, <2>9, <2>10, <2>11 DEF QueueMoves
<1> QED
  BY <1>1, <1>2 DEF NothingNewer, Within

LEMMA UpdatesInOrderStep == IInv /\ [Next]_vars => UpdatesInOrder'
<1> SUFFICES ASSUME IInv, [Next]_vars PROVE UpdatesInOrder'
  OBVIOUS
<1>1. ASSUME NEW c \in Consumers
      PROVE  InOrder(queue'[c], picture'[c])
  <2>1. queue[c] \in Seq(Messages) /\ picture[c] \in SUBSET Nat /\ made \in Nat
    BY PubSubAssumption DEF IInv, TypeOK
  <2>2. InOrder(queue[c], picture[c])
    BY DEF IInv, UpdatesInOrder, InOrder
  <2>3. QueueMoves(c)
    BY QueuesMove DEF IInv
  <2>4. CASE picture'[c] = picture[c] /\ queue'[c] \in {queue[c], <<>>}
    BY <2>2, <2>4 DEF InOrder
  <2>5. CASE /\ picture'[c] = picture[c] /\ queue'[c] = Append(queue[c], Sent)
             /\ owner \in {"push", "again"}
    <3>1. /\ Sent \in Messages /\ Sent.n = made
          /\ ~Sent.whole <=> serving /\ style = "two"
      BY <2>5, SentIsMessage DEF IInv, SomethingToSend
    <3>2. ASSUME ~Sent.whole
          PROVE  Within(queue[c], Sent.n - 1) /\ \A n \in picture[c] : n < Sent.n
      <4>1. Newest = made - 1
        BY <2>5, <3>1, <3>2 DEF Newest, Unsent
      <4>2. Within(queue[c], made - 1) /\ picture[c] \subseteq 1 .. (made - 1)
        BY <4>1 DEF IInv, NothingNewer, Within
      <4> QED
        BY <2>1, <3>1, <4>2
    <3> QED
      BY <2>1, <2>2, <2>5, <3>1, <3>2, InOrderAppend
  <2>6. CASE /\ picture'[c] = picture[c] /\ queue'[c] = Append(queue[c], Data(grabbed[c]))
             /\ call[c] = "push"
    <3>1. Data(grabbed[c]) \in Messages /\ Data(grabbed[c]).whole
      BY <2>6 DEF IInv, TypeOK, SomethingToSend, Data, Messages
    <3> QED
      BY <2>1, <2>2, <2>6, <3>1, InOrderAppend
  <2>7. CASE /\ queue[c] # <<>>
             /\ picture'[c] = Learned(picture[c], Head(queue[c]))
             /\ queue'[c] = Tail(queue[c])
    BY <2>1, <2>2, <2>7, InOrderTail
  <2> QED
    BY <2>3, <2>4, <2>5, <2>6, <2>7 DEF QueueMoves
<1> QED
  BY <1>1 DEF UpdatesInOrder, InOrder

LEMMA InvStep == IInv /\ [Next]_vars => IInv'
  BY TypeStep, NothingNewerStep, UpdatesInOrderStep, SomethingToSendStep,
     NotServedYetStep
  DEF IInv

\* The next message of a queue is in order with what the consumer knows.
LEMMA InvImpliesNoUpdateTwice == IInv => NoUpdateTwice
<1> SUFFICES ASSUME IInv, NEW c \in Consumers, queue[c] # <<>>, ~Head(queue[c]).whole,
                    Head(queue[c]).n \in picture[c]
             PROVE  FALSE
  BY DEF NoUpdateTwice
<1>1. /\ 1 \in DOMAIN queue[c] /\ Head(queue[c]) = queue[c][1]
      /\ queue[c][1] \in Messages
  BY HeadOfQueue DEF IInv, TypeOK
<1>2. queue[c][1].n < queue[c][1].n
  BY <1>1 DEF IInv, UpdatesInOrder
<1> QED
  BY <1>1, <1>2 DEF Messages

-----------------------------------------------------------------------------
(* What is known in the end                                                 *)

\* Nothing more is learnt from an empty queue.
LEMMA NothingToDeliver ==
  ASSUME NEW known \in SUBSET (1 .. MaxData)
  PROVE  AfterDelivery(known, <<>>) = known
<1>1. DOMAIN <<>> = {}
  OBVIOUS
<1> QED
  BY <1>1 DEF AfterDelivery

\* A message at the end of a queue is learnt last.
LEMMA DeliveredWithOneMore ==
  ASSUME NEW q \in Seq(Messages), NEW m \in Messages,
         NEW known \in SUBSET (1 .. MaxData)
  PROVE  AfterDelivery(known, Append(q, m)) =
           IF m.whole THEN 1 .. m.n ELSE AfterDelivery(known, q) \cup {m.n}
<1> DEFINE r == Append(q, m)
<1>1. /\ DOMAIN r = 1 .. (Len(q) + 1) /\ DOMAIN q = 1 .. Len(q) /\ Len(q) \in Nat
      /\ \A i \in 1 .. Len(q) : r[i] = q[i]
      /\ r[Len(q) + 1] = m
  BY AppendedQueue
<1>2. m.n \in 1 .. MaxData /\ m.whole \in BOOLEAN /\ MaxData \in Nat
  BY PubSubAssumption DEF Messages
<1> HIDE DEF r
<1>3. CASE m.whole
  <2>1. \A i \in DOMAIN r : (\A k \in DOMAIN r : r[k].whole => k <= i) <=> i = Len(q) + 1
    BY <1>1, <1>3
  <2>2. Learned({}, m) = 1 .. m.n
    BY <1>3 DEF Learned
  <2>3. ASSUME NEW n \in 1 .. MaxData
        PROVE  n \in AfterDelivery(known, r) <=> n \in 1 .. m.n
    <3>1. n \in AfterDelivery(known, r) <=>
            \/ n \in known /\ \A i \in DOMAIN r : ~r[i].whole
            \/ \E i \in DOMAIN r :
                 (\A k \in DOMAIN r : r[k].whole => k <= i) /\ n \in Learned({}, r[i])
      BY DEF AfterDelivery
    <3>2. Len(q) + 1 \in DOMAIN r /\ r[Len(q) + 1].whole
      BY <1>1, <1>3
    <3>3. n \in AfterDelivery(known, r) <=>
            \E i \in DOMAIN r : i = Len(q) + 1 /\ n \in Learned({}, r[i])
      BY <2>1, <3>1, <3>2
    <3> QED
      BY <1>1, <2>2, <3>2, <3>3
  <2>4. AfterDelivery(known, r) \subseteq 1 .. MaxData /\ 1 .. m.n \subseteq 1 .. MaxData
    BY <1>2 DEF AfterDelivery
  <2> QED
    BY <1>3, <2>3, <2>4 DEF r
<1>4. CASE ~m.whole
  <2>1. ASSUME NEW i \in DOMAIN q
        PROVE  (\A k \in DOMAIN r : r[k].whole => k <= i)
                 <=> (\A k \in DOMAIN q : q[k].whole => k <= i)
    BY <1>1, <1>4
  <2>2. \A k \in DOMAIN r : r[k].whole => k <= Len(q) + 1
    BY <1>1
  <2>3. (\A i \in DOMAIN r : ~r[i].whole) <=> (\A i \in DOMAIN q : ~q[i].whole)
    BY <1>1, <1>4
  <2>4. Learned({}, m) = {m.n}
    BY <1>4 DEF Learned
  <2>5. ASSUME NEW n \in 1 .. MaxData
        PROVE  n \in AfterDelivery(known, r) <=> n \in AfterDelivery(known, q) \/ n = m.n
    <3> DEFINE Lasts(s, i) == \A k \in DOMAIN s : s[k].whole => k <= i
    <3>1. \A i \in 1 .. Len(q) : Lasts(r, i) <=> Lasts(q, i)
      BY <1>1, <2>1
    <3>2. Lasts(r, Len(q) + 1)
      BY <2>2
    <3>3. n \in AfterDelivery(known, r) <=>
            \/ n \in known /\ \A i \in DOMAIN r : ~r[i].whole
            \/ \E i \in DOMAIN r : Lasts(r, i) /\ n \in Learned({}, r[i])
      BY DEF AfterDelivery
    <3>4. n \in AfterDelivery(known, q) <=>
            \/ n \in known /\ \A i \in DOMAIN q : ~q[i].whole
            \/ \E i \in DOMAIN q : Lasts(q, i) /\ n \in Learned({}, q[i])
      BY DEF AfterDelivery
    <3> HIDE DEF Lasts
    <3>5. (\E i \in DOMAIN r : Lasts(r, i) /\ n \in Learned({}, r[i])) <=>
            \/ \E i \in DOMAIN q : Lasts(q, i) /\ n \in Learned({}, q[i])
            \/ n = m.n
      BY <1>1, <2>4, <3>1, <3>2
    <3> QED
      BY <2>3, <3>3, <3>4, <3>5
  <2>6. AfterDelivery(known, r) \subseteq 1 .. MaxData /\ AfterDelivery(known, q) \subseteq 1 .. MaxData
    BY DEF AfterDelivery
  <2> QED
    BY <1>2, <1>4, <2>5, <2>6 DEF r
<1> QED
  BY <1>2, <1>3, <1>4

\* What is known in the end does not change when a message is delivered.
LEMMA DeliveredWithOneLess ==
  ASSUME NEW q \in Seq(Messages), q # <<>>, NEW known \in SUBSET (1 .. MaxData)
  PROVE  AfterDelivery(Learned(known, Head(q)), Tail(q)) = AfterDelivery(known, q)
<1> DEFINE r == Tail(q)
<1> DEFINE m == Head(q)
<1>1. /\ m = q[1] /\ m \in Messages
      /\ Len(q) \in Nat \ {0} /\ DOMAIN q = 1 .. Len(q)
      /\ DOMAIN r = 1 .. (Len(q) - 1)
      /\ \A i \in 1 .. (Len(q) - 1) : r[i] = q[i + 1]
  BY ShortenedQueue
<1>2. m.n \in 1 .. MaxData /\ m.whole \in BOOLEAN /\ MaxData \in Nat
  BY <1>1, PubSubAssumption DEF Messages
<1> HIDE DEF r, m
<1>3. \A i \in 2 .. Len(q) : i - 1 \in DOMAIN r /\ q[i] = r[i - 1]
  BY <1>1
<1> DEFINE Lasts(s, i) == \A k \in DOMAIN s : s[k].whole => k <= i
<1>4. ASSUME NEW i \in 1 .. (Len(q) - 1) PROVE Lasts(r, i) <=> Lasts(q, i + 1)
  <2>1. Lasts(r, i) => Lasts(q, i + 1)
    <3> SUFFICES ASSUME Lasts(r, i), NEW k \in DOMAIN q, q[k].whole PROVE k <= i + 1
      OBVIOUS
    <3>1. CASE k = 1
      BY <1>4, <3>1
    <3>2. CASE k # 1
      <4>1. k - 1 \in DOMAIN r /\ r[k - 1].whole
        BY <1>1, <1>3, <3>2
      <4> QED
        BY <1>1, <1>4, <4>1
    <3> QED
      BY <3>1, <3>2
  <2>2. Lasts(q, i + 1) => Lasts(r, i)
    <3> SUFFICES ASSUME Lasts(q, i + 1), NEW k \in DOMAIN r, r[k].whole PROVE k <= i
      OBVIOUS
    <3>1. k + 1 \in DOMAIN q /\ q[k + 1].whole
      BY <1>1
    <3> QED
      BY <1>1, <1>4, <3>1
  <2> QED
    BY <2>1, <2>2
<1>5. Lasts(q, 1) <=> \A i \in DOMAIN r : ~r[i].whole
  <2>1. ASSUME Lasts(q, 1), NEW i \in DOMAIN r, r[i].whole PROVE FALSE
    <3>1. i + 1 \in DOMAIN q /\ q[i + 1].whole /\ i \in Nat \ {0}
      BY <1>1, <2>1
    <3> QED
      BY <2>1, <3>1
  <2>2. ASSUME \A i \in DOMAIN r : ~r[i].whole, NEW k \in DOMAIN q, q[k].whole PROVE k <= 1
    BY <1>1, <1>3, <2>2
  <2> QED
    BY <2>1, <2>2
<1>6. (\A i \in DOMAIN q : ~q[i].whole) <=> ~m.whole /\ \A i \in DOMAIN r : ~r[i].whole
  <2>1. ASSUME \A i \in DOMAIN q : ~q[i].whole, NEW i \in DOMAIN r PROVE ~r[i].whole
    BY <1>1, <2>1
  <2>2. ASSUME ~m.whole, \A i \in DOMAIN r : ~r[i].whole, NEW i \in DOMAIN q PROVE ~q[i].whole
    BY <1>1, <1>3, <2>2
  <2> QED
    BY <1>1, <2>1, <2>2
<1>7. ASSUME NEW n \in 1 .. MaxData
      PROVE  n \in AfterDelivery(Learned(known, m), r) <=> n \in AfterDelivery(known, q)
  <2>1. n \in AfterDelivery(Learned(known, m), r) <=>
          \/ n \in Learned(known, m) /\ \A i \in DOMAIN r : ~r[i].whole
          \/ \E i \in DOMAIN r : Lasts(r, i) /\ n \in Learned({}, r[i])
    BY DEF AfterDelivery
  <2>2. n \in AfterDelivery(known, q) <=>
          \/ n \in known /\ \A i \in DOMAIN q : ~q[i].whole
          \/ \E i \in DOMAIN q : Lasts(q, i) /\ n \in Learned({}, q[i])
    BY DEF AfterDelivery
  <2> HIDE DEF Lasts
  <2>3. (\E i \in DOMAIN q : Lasts(q, i) /\ n \in Learned({}, q[i])) <=>
          \/ Lasts(q, 1) /\ n \in Learned({}, m)
          \/ \E i \in DOMAIN r : Lasts(r, i) /\ n \in Learned({}, r[i])
    <3>1. ASSUME NEW i \in DOMAIN q, Lasts(q, i), n \in Learned({}, q[i]), i # 1
          PROVE  \E k \in DOMAIN r : Lasts(r, k) /\ n \in Learned({}, r[k])
      <4>1. i - 1 \in 1 .. (Len(q) - 1) /\ r[i - 1] = q[i] /\ (i - 1) + 1 = i
        BY <1>1, <1>3, <3>1
      <4>2. Lasts(r, i - 1) <=> Lasts(q, (i - 1) + 1)
        BY <1>4, <4>1
      <4>3. Lasts(r, i - 1) /\ n \in Learned({}, r[i - 1])
        BY <3>1, <4>1, <4>2
      <4> QED
        BY <1>1, <4>1, <4>3
    <3>2. ASSUME NEW i \in DOMAIN r, Lasts(r, i), n \in Learned({}, r[i])
          PROVE  \E k \in DOMAIN q : Lasts(q, k) /\ n \in Learned({}, q[k])
      <4>1. i + 1 \in DOMAIN q /\ q[i + 1] = r[i] /\ Lasts(q, i + 1)
        BY <1>1, <1>4, <3>2
      <4> QED
        BY <3>2, <4>1
    <3>3. 1 \in DOMAIN q
      BY <1>1
    <3> QED
      BY <1>1, <3>1, <3>2, <3>3
  <2>4. n \in Learned(known, m) <=> n \in Learned({}, m) \/ (~m.whole /\ n \in known)
    BY DEF Learned
  <2> QED
    BY <1>5, <1>6, <2>1, <2>2, <2>3, <2>4
<1>8. /\ AfterDelivery(Learned(known, m), r) \subseteq 1 .. MaxData
      /\ AfterDelivery(known, q) \subseteq 1 .. MaxData
  BY DEF AfterDelivery
<1> QED
  BY <1>7, <1>8 DEF r, m

-----------------------------------------------------------------------------
(* Quiet subscriptions                                                      *)

LEMMA CallsAreWaitedForStep ==
  ASSUME IInv, CallsAreWaitedFor, [Next]_vars
  PROVE  CallsAreWaitedFor'
<1> USE DEF CallsAreWaitedFor
<1>1. CASE UNCHANGED <<call, consumer, serving>>
  BY <1>1
<1>2. CASE \/ InitInterface \/ LocalSetAndSend \/ LocalSet \/ LocalSend
           \/ ConnectToTopic \/ ConnectAndPush \/ FirstPush \/ Reconnect \/ SecondPush
           \/ SetAfterPush \/ Crash \/ Restart \/ UNCHANGED vars
  BY <1>1, <1>2
  DEF InitInterface, LocalSetAndSend, LocalSet, LocalSend, ConnectToTopic,
      ConnectAndPush, FirstPush, Reconnect, SecondPush, SetAfterPush, Crash, Restart,
      vars, ownerVars, callVars, consumerVars
<1>3. CASE Serve
  BY <1>3 DEF Serve, callVars, consumerVars
<1>4. ASSUME NEW c \in Consumers,
             \/ Dispatch(c) \/ ConsumerProceeds(c)
             \/ Subscribe(c) \/ GiveUp(c) \/ Unsubscribe(c) \/ Destroy(c)
             \/ ReplyLost(c) \/ Deliver(c)
      PROVE  CallsAreWaitedFor'
  <2>1. serving' = serving
    BY <1>4
    DEF Dispatch, GrabData, SubscribeToTopic, PushInitialData, ConsumerProceeds,
        SubscribeReturns, SubscribeThrows, Retry, Subscribe, GiveUp, Unsubscribe,
        Destroy, ReplyLost, Deliver, ownerVars
  <2>2. CASE Dispatch(c)
    BY <2>1, <2>2
    DEF IInv, TypeOK, Dispatch, GrabData, SubscribeToTopic, PushInitialData,
        AlreadySubscribed, Reply, consumerVars
  <2>3. CASE ConsumerProceeds(c) \/ ReplyLost(c)
    <3>1. /\ call'[c] # "none" => consumer'[c] = "calling"
          /\ consumer'[c] \in {"calling", "waiting"}
               => consumer[c] \in {"calling", "waiting"}
      BY <2>3
      DEF IInv, TypeOK, ConsumerProceeds, SubscribeReturns, SubscribeThrows, Retry,
          ReplyLost, Reply
    <3>2. ASSUME NEW d \in Consumers, d # c
          PROVE  call'[d] = call[d] /\ consumer'[d] = consumer[d]
      BY <2>3, <3>2
      DEF IInv, TypeOK, ConsumerProceeds, SubscribeReturns, SubscribeThrows, Retry,
          ReplyLost, Reply
    <3> QED
      BY <2>1, <3>1, <3>2
  <2>4. CASE Subscribe(c)
    BY <2>1, <2>4 DEF IInv, TypeOK, Subscribe, Reply
  <2>5. CASE GiveUp(c) \/ Unsubscribe(c) \/ Destroy(c)
    BY <2>1, <2>5 DEF IInv, TypeOK, GiveUp, Unsubscribe, Destroy, callVars
  <2>6. CASE Deliver(c)
    BY <2>1, <2>6 DEF IInv, TypeOK, Deliver, callVars
  <2> QED
    BY <1>4, <2>2, <2>3, <2>4, <2>5, <2>6
<1>5. CASE \E c \in Consumers :
             \/ Dispatch(c) \/ ConsumerProceeds(c)
             \/ Subscribe(c) \/ GiveUp(c) \/ Unsubscribe(c) \/ Destroy(c)
             \/ ReplyLost(c) \/ Deliver(c)
  BY <1>4, <1>5
<1> QED
  BY <1>2, <1>3, <1>5 DEF Next, OwnerProceeds

\* what QuietIsUndisturbed says of one consumer
Undisturbed(c) ==
  /\ serving
  /\ consumer[c] # "gone"
  /\ call[c] \in {"topic", "push"} => owner = "idle" /\ grabbed[c] = made
  /\ call[c] # "topic" => up /\ c \in subscribers
  /\ call[c] = "push" => queue[c] = <<>>
  /\ call[c] \notin {"topic", "push"} => Drained(c) = 1..Published

\* A step of another consumer, or of its call, leaves a consumer alone.
LEMMA OthersDoNotDisturb ==
  ASSUME IInv, NEW c \in Consumers, NEW d \in Consumers, d # c,
         \/ Dispatch(d) \/ ConsumerProceeds(d)
         \/ Subscribe(d) \/ GiveUp(d) \/ Unsubscribe(d) \/ Destroy(d)
         \/ ReplyLost(d) \/ Deliver(d)
  PROVE  /\ UNCHANGED <<owner, made, serving, up, consumer[c], call[c], grabbed[c],
                        queue[c], picture[c]>>
         /\ c \in subscribers' <=> c \in subscribers
         /\ c \in quiet' => c \in quiet
<1> USE DEF IInv, TypeOK, Reply, ownerVars, stormVars, callVars, consumerVars, historyVars
<1>1. CASE GrabData(d)
  BY <1>1 DEF GrabData
<1>2. CASE SubscribeToTopic(d)
  BY <1>2 DEF SubscribeToTopic, AlreadySubscribed
<1>3. CASE PushInitialData(d)
  BY <1>3 DEF PushInitialData
<1>4. CASE ConsumerProceeds(d)
  BY <1>4 DEF ConsumerProceeds, SubscribeReturns, SubscribeThrows, Retry
<1>5. CASE Subscribe(d)
  BY <1>5 DEF Subscribe
<1>6. CASE GiveUp(d)
  BY <1>6 DEF GiveUp
<1>7. CASE Unsubscribe(d) \/ Destroy(d)
  BY <1>7 DEF Unsubscribe, Destroy, LeaveTopic
<1>8. CASE ReplyLost(d)
  BY <1>8 DEF ReplyLost
<1>9. CASE Deliver(d)
  BY <1>9 DEF Deliver
<1> QED
  BY <1>1, <1>2, <1>3, <1>4, <1>5, <1>6, <1>7, <1>8, <1>9 DEF Dispatch

\* The numbers and sets of a consumer.
LEMMA ConsumerFacts ==
  ASSUME IInv, NEW c \in Consumers
  PROVE  /\ made \in Nat /\ data \in Nat /\ data <= made /\ made <= MaxData
         /\ MaxData \in Nat /\ grabbed[c] \in Nat
         /\ queue[c] \in Seq(Messages)
         /\ picture[c] \in SUBSET (1 .. MaxData) /\ picture[c] \subseteq 1 .. Newest
         /\ owner \in {"push", "reconnect", "again"} => made > 0
         /\ serving => owner \notin {"created", "connect", "serve"}
         /\ call[c] = "push" => grabbed[c] > 0
  BY PubSubAssumption DEF IInv, TypeOK, NothingNewer, SomethingToSend, NotServedYet

\* The owner and the topic keep a quiet subscription up to date, or end its being
\* quiet.
LEMMA OwnerKeepsQuiet ==
  ASSUME IInv, NEW c \in Consumers, c \in quiet, Undisturbed(c), c \in quiet',
         InitInterface \/ LocalSetAndSend \/ LocalSet \/ LocalSend \/ OwnerProceeds
  PROVE  Undisturbed(c)'
<1>0. /\ made \in Nat /\ made <= MaxData /\ MaxData \in Nat
      /\ queue[c] \in Seq(Messages)
      /\ picture[c] \in SUBSET (1 .. MaxData)
      /\ owner \in {"push", "reconnect", "again"} => made > 0
      /\ owner \notin {"created", "connect", "serve"}
  BY ConsumerFacts DEF Undisturbed
<1>1. CASE InitInterface \/ ConnectToTopic \/ Serve \/ LocalSet
  BY <1>0, <1>1 DEF InitInterface, ConnectToTopic, Serve, LocalSet
<1>2. CASE LocalSetAndSend \/ LocalSend
  <2>1. /\ owner = "idle" /\ owner' = "push" /\ made' = made + 1
        /\ UNCHANGED <<serving, up, subscribers, queue, call, consumer, picture>>
        /\ call[c] \notin {"topic", "push"}
    BY <1>2 DEF LocalSetAndSend, LocalSend, Overlap, stormVars, callVars, consumerVars
  <2>2. Published' = made /\ Published = made
    BY <1>0, <2>1 DEF Published
  <2> QED
    BY <2>1, <2>2 DEF Undisturbed, Drained
<1>3. CASE \/ ConnectAndPush \/ Reconnect
           \/ FirstPush /\ UNCHANGED queue /\ ~up
           \/ SecondPush /\ UNCHANGED queue /\ ~up
  <2>1. /\ owner \in {"push", "reconnect", "again"}
        /\ UNCHANGED <<made, serving, up, subscribers, queue, call, grabbed, consumer, picture>>
    BY <1>3
    DEF ConnectAndPush, Reconnect, FirstPush, SecondPush, stormVars, callVars, consumerVars
  <2>2. owner' \in {"push", "reconnect", "again"}
    BY <1>3 DEF ConnectAndPush, Reconnect, FirstPush, SecondPush, Undisturbed
  <2>3. Published' = Published
    BY <2>1, <2>2 DEF Published
  <2>4. call[c] \notin {"topic", "push"}
    BY <2>1 DEF Undisturbed
  <2> QED
    BY <2>1, <2>3, <2>4 DEF Undisturbed, Drained
<1>4. CASE (FirstPush \/ SecondPush) /\ up /\ ToAll
  <2>1. /\ owner \in {"push", "again"} /\ owner' = AfterPush
        /\ UNCHANGED <<made, serving, up, subscribers, call, grabbed, consumer, picture>>
    BY <1>4 DEF FirstPush, SecondPush, callVars, consumerVars
  <2>2. call[c] \notin {"topic", "push"} /\ c \in subscribers /\ Drained(c) = 1 .. (made - 1)
    BY <2>1 DEF Undisturbed, Published
  <2>3. queue'[c] = Append(queue[c], Sent)
    BY <1>4, <2>2 DEF ToAll
  <2>4. Sent \in Messages /\ Sent.n = made
    BY <1>0, <2>1, SentIsMessage DEF IInv
  <2>5. Drained(c)' = IF Sent.whole THEN 1 .. made ELSE Drained(c) \cup {made}
    BY <1>0, <2>1, <2>3, <2>4, DeliveredWithOneMore DEF Drained
  <2>6. (1 .. (made - 1)) \cup {made} = 1 .. made
    BY <1>0, <2>1
  <2>7. Published' = made
    BY <2>1, AfterPushPlace DEF Published
  <2> QED
    BY <2>1, <2>2, <2>5, <2>6, <2>7 DEF Undisturbed
<1>5. CASE SetAfterPush
  <2>1. /\ owner = "set" /\ owner' = "idle"
        /\ UNCHANGED <<made, serving, up, subscribers, queue, call, grabbed, consumer, picture>>
    BY <1>5 DEF SetAfterPush, stormVars, callVars, consumerVars
  <2>2. Published' = Published
    BY <2>1 DEF Published
  <2> QED
    BY <2>1, <2>2 DEF Undisturbed, Drained
<1>6. FirstPush \/ SecondPush =>
        \/ up /\ ToAll
        \/ ~up /\ UNCHANGED queue
  BY DEF FirstPush, SecondPush
<1> QED
  BY <1>1, <1>2, <1>3, <1>4, <1>5, <1>6 DEF OwnerProceeds

\* A subscription that is made while the owner does nothing is quiet: the copy,
\* the topic and the push of the copy follow one another with nothing between.
LEMMA ConsumerKeepsQuiet ==
  ASSUME IInv, CallsAreWaitedFor, NEW c \in Consumers,
         c \in quiet => Undisturbed(c), c \in quiet',
         \/ Dispatch(c) \/ ConsumerProceeds(c)
         \/ Subscribe(c) \/ GiveUp(c) \/ Unsubscribe(c) \/ Destroy(c)
         \/ ReplyLost(c) \/ Deliver(c)
  PROVE  Undisturbed(c)'
<1>0. /\ made \in Nat /\ data \in Nat /\ data <= made /\ made <= MaxData
      /\ MaxData \in Nat /\ grabbed[c] \in Nat
      /\ queue[c] \in Seq(Messages)
      /\ picture[c] \in SUBSET (1 .. MaxData) /\ picture[c] \subseteq 1 .. Newest
      /\ call[c] = "push" => grabbed[c] > 0
      /\ call[c] # "none" => consumer[c] = "calling" /\ serving
  BY ConsumerFacts DEF CallsAreWaitedFor
<1> USE DEF Reply, ownerVars, stormVars, callVars, consumerVars, historyVars
<1>1. CASE GrabData(c)
  BY <1>0, <1>1 DEF IInv, TypeOK, GrabData, Undisturbed
<1>2. CASE SubscribeToTopic(c)
  <2>1. /\ call[c] = "topic" /\ c \in quiet
        /\ up /\ c \in subscribers' /\ queue'[c] = <<>>
        /\ call'[c] = IF grabbed[c] # 0 THEN "push" ELSE "ok"
        /\ UNCHANGED <<owner, made, serving, up, grabbed, consumer, picture>>
    BY <1>2 DEF IInv, TypeOK, SubscribeToTopic, GotData
  <2>2. owner = "idle" /\ grabbed[c] = made
    BY <2>1 DEF Undisturbed
  <2>3. ASSUME grabbed[c] = 0 PROVE Drained(c)' = 1 .. Published'
    <3>1. picture[c] = {} /\ 1 .. made = {}
      BY <1>0, <2>2, <2>3 DEF Newest, Unsent
    <3>2. Drained(c)' = picture[c]
      BY <1>0, <2>1, NothingToDeliver DEF Drained
    <3>3. Published' = made
      BY <2>1, <2>2 DEF Published
    <3> QED
      BY <3>1, <3>2, <3>3
  <2> QED
    BY <1>0, <2>1, <2>2, <2>3 DEF Undisturbed
<1>3. CASE PushInitialData(c)
  <2>1. /\ call[c] = "push" /\ c \in quiet /\ c \in subscribers /\ up
        /\ queue'[c] = Append(queue[c], Data(grabbed[c])) /\ call'[c] = "ok"
        /\ UNCHANGED <<owner, made, serving, up, subscribers, grabbed, consumer, picture>>
    BY <1>3 DEF IInv, TypeOK, PushInitialData
  <2>2. owner = "idle" /\ grabbed[c] = made /\ made > 0
    BY <1>0, <2>1 DEF Undisturbed
  <2>3. Data(made) \in Messages /\ Data(made).n = made /\ Data(made).whole
    BY <1>0, <2>2 DEF Data, Messages
  <2>4. Drained(c)' = 1 .. made
    BY <1>0, <2>1, <2>2, <2>3, DeliveredWithOneMore DEF Drained
  <2>5. Published' = made
    BY <2>1, <2>2 DEF Published
  <2> QED
    BY <1>0, <2>1, <2>4, <2>5 DEF Undisturbed
<1>4. CASE ConsumerProceeds(c) \/ ReplyLost(c) \/ Subscribe(c)
  <2>1. /\ c \in quiet /\ call[c] \notin {"topic", "push"} /\ call'[c] \in {"none", "grab"}
        /\ consumer'[c] # "gone"
        /\ UNCHANGED <<owner, made, serving, up, subscribers, queue, picture>>
    BY <1>0, <1>4
    DEF IInv, TypeOK, ConsumerProceeds, SubscribeReturns, SubscribeThrows, Retry, ReplyLost, Subscribe
  <2>2. Published' = Published /\ Drained(c)' = Drained(c)
    BY <2>1 DEF Published, Drained
  <2> QED
    BY <2>1, <2>2 DEF Undisturbed
<1>5. CASE GiveUp(c)
  <2>1. /\ c \in quiet /\ consumer'[c] = "idle"
        /\ UNCHANGED <<owner, made, serving, up, subscribers, queue, picture, call, grabbed>>
    BY <1>5 DEF IInv, TypeOK, GiveUp
  <2>2. Published' = Published /\ Drained(c)' = Drained(c)
    BY <2>1 DEF Published, Drained
  <2> QED
    BY <2>1, <2>2 DEF Undisturbed
<1>6. CASE Unsubscribe(c) \/ Destroy(c)
  BY <1>6 DEF Unsubscribe, Destroy
<1>7. CASE Deliver(c)
  <2>1. /\ c \in quiet /\ consumer[c] # "gone" /\ queue[c] # <<>>
        /\ picture'[c] = Learned(picture[c], Head(queue[c]))
        /\ queue'[c] = Tail(queue[c])
        /\ UNCHANGED <<owner, made, serving, up, subscribers, call, grabbed, consumer>>
    BY <1>7 DEF IInv, TypeOK, Deliver, Undisturbed
  <2>2. Drained(c)' = Drained(c)
    BY <1>0, <2>1, DeliveredWithOneLess DEF Drained
  <2>3. Published' = Published
    BY <2>1 DEF Published
  <2> QED
    BY <2>1, <2>2, <2>3 DEF Undisturbed
<1> QED
  BY <1>1, <1>2, <1>3, <1>4, <1>5, <1>6, <1>7 DEF Dispatch

LEMMA QuietStep ==
  ASSUME IInv, CallsAreWaitedFor, QuietIsUndisturbed, [Next]_vars
  PROVE  QuietIsUndisturbed'
<1>1. ASSUME NEW c \in Consumers, c \in quiet'
      PROVE  Undisturbed(c)'
  <2>1. c \in quiet => Undisturbed(c)
    BY DEF QuietIsUndisturbed, Undisturbed
  <2>2. CASE InitInterface \/ LocalSetAndSend \/ LocalSet \/ LocalSend \/ OwnerProceeds
    <3>1. c \in quiet
      BY <1>1, <2>2
      DEF InitInterface, LocalSetAndSend, LocalSet, LocalSend, OwnerProceeds, Overlap,
          ConnectToTopic, Serve, ConnectAndPush, FirstPush, Reconnect, SecondPush,
          SetAfterPush, historyVars
    <3> QED
      BY <1>1, <2>1, <2>2, <3>1, OwnerKeepsQuiet
  <2>3. ASSUME NEW d \in Consumers,
               \/ Dispatch(d) \/ ConsumerProceeds(d)
               \/ Subscribe(d) \/ GiveUp(d) \/ Unsubscribe(d) \/ Destroy(d)
               \/ ReplyLost(d) \/ Deliver(d)
        PROVE  Undisturbed(c)'
    <3>1. CASE d = c
      BY <1>1, <2>1, <2>3, <3>1, ConsumerKeepsQuiet
    <3>2. CASE d # c
      <4>1. /\ UNCHANGED <<owner, made, serving, up, consumer[c], call[c], grabbed[c],
                           queue[c], picture[c]>>
            /\ c \in subscribers' <=> c \in subscribers
            /\ c \in quiet' => c \in quiet
        BY <2>3, <3>2, OthersDoNotDisturb
      <4>2. Published' = Published /\ Drained(c)' = Drained(c)
        BY <4>1 DEF Published, Drained
      <4> QED
        BY <1>1, <2>1, <4>1, <4>2 DEF Undisturbed
    <3> QED
      BY <3>1, <3>2
  <2>4. CASE Crash
    BY <1>1, <2>4 DEF Crash
  <2>5. CASE Restart
    <3>1. /\ c \in quiet /\ ~up /\ up'
          /\ UNCHANGED <<owner, made, serving, consumer, call, grabbed, queue, picture, subscribers>>
      BY <1>1, <2>5 DEF Restart, ownerVars, callVars, consumerVars, historyVars
    <3> QED
      BY <2>1, <3>1 DEF Undisturbed
  <2>6. CASE UNCHANGED vars
    <3>1. /\ c \in quiet
          /\ UNCHANGED <<owner, made, serving, up, consumer, call, grabbed, queue, picture, subscribers>>
      BY <1>1, <2>6 DEF vars, ownerVars, stormVars, callVars, consumerVars, historyVars
    <3>2. Published' = Published /\ Drained(c)' = Drained(c)
      BY <3>1 DEF Published, Drained
    <3> QED
      BY <2>1, <3>1, <3>2 DEF Undisturbed
  <2> QED
    BY <2>2, <2>3, <2>4, <2>5, <2>6 DEF Next
<1>2. quiet' \subseteq Consumers
  BY TypeStep DEF TypeOK
<1> QED
  BY <1>1, <1>2 DEF QuietIsUndisturbed, Undisturbed

-----------------------------------------------------------------------------
(* The theorems                                                             *)

\* The invariant holds in every state, whatever the numbers of consumers,
\* updates and faults.
THEOREM Invariance == Spec => []IInv
  BY InvInit, InvStep, PTL DEF Spec

\* The variables keep their types.
THEOREM TypeCorrect == Spec => []TypeOK
<1>1. IInv => TypeOK
  BY DEF IInv
<1> QED
  BY <1>1, Invariance, PTL

\* localSetAndSend() with two arguments publishes before it sets: no consumer is
\* pushed an update that it knows of, whenever it subscribed and whatever was
\* lost in between.
THEOREM EveryUpdateIsNews == Spec => []NoUpdateTwice
  BY InvImpliesNoUpdateTwice, Invariance, PTL

\* A consumer that subscribed while the owner was doing nothing has been sent all
\* that was made since (providerImpl.h, internalSubscribe() and localSetAndSend()),
\* for any consumers, updates and faults, and as long as nothing was lost.
THEOREM QuietSubscriptionsAreComplete == Spec => []QuietSubscriptionMissesNothing
<1>1. Init => QuietInv
  BY InvInit DEF Init, QuietInv, CallsAreWaitedFor, QuietIsUndisturbed
<1>2. QuietInv /\ [Next]_vars => QuietInv'
  BY InvStep, CallsAreWaitedForStep, QuietStep DEF QuietInv
<1>3. QuietInv => QuietSubscriptionMissesNothing
  BY DEF QuietInv, QuietIsUndisturbed, QuietSubscriptionMissesNothing, Published
<1> QED
  BY <1>1, <1>2, <1>3, PTL DEF Spec

-----------------------------------------------------------------------------
(* What it takes a fault to break                                            *)

\* A subscriber has its topic or is about to get it, and is sent the data there is
\* before its call is answered.
ProperlySubscribed(c) ==
  /\ c \in subscribers =>
       up /\ consumer[c] # "gone" /\ (c \in topic \/ call[c] \in {"push", "ok"})
  /\ call[c] = "push" => c \in subscribers
  /\ call[c] = "ok" /\ c \notin topic /\ GotData(c) => c \in served

FaultlessInv == faults = 0 => \A c \in Consumers : ProperlySubscribed(c)

\* A step of another consumer does not take anything from a consumer.
LEMMA OthersTakeNothing ==
  ASSUME IInv, NEW c \in Consumers, NEW d \in Consumers, d # c,
         \/ Dispatch(d) \/ ConsumerProceeds(d)
         \/ Subscribe(d) \/ GiveUp(d) \/ Unsubscribe(d) \/ Destroy(d)
         \/ ReplyLost(d) \/ Deliver(d)
  PROVE  /\ c \in topic' <=> c \in topic
         /\ c \in served => c \in served'
<1> USE DEF consumerVars, historyVars
<1>1. CASE Dispatch(d)
  BY <1>1 DEF Dispatch, GrabData, SubscribeToTopic, PushInitialData
<1>2. CASE ConsumerProceeds(d)
  BY <1>2 DEF ConsumerProceeds, SubscribeReturns, SubscribeThrows, Retry
<1>3. CASE Subscribe(d) \/ GiveUp(d) \/ Unsubscribe(d) \/ Destroy(d)
  BY <1>3 DEF Subscribe, GiveUp, Unsubscribe, Destroy
<1>4. CASE ReplyLost(d) \/ Deliver(d)
  BY <1>4 DEF ReplyLost, Deliver
<1> QED
  BY <1>1, <1>2, <1>3, <1>4

\* Nobody takes a fault back.
LEMMA FaultsStay ==
  ASSUME IInv, [Next]_vars, faults' = 0
  PROVE  faults = 0 /\ ~Crash /\ \A c \in Consumers : ~ReplyLost(c)
<1>1. faults \in Nat
  BY PubSubAssumption DEF IInv, TypeOK
<1>2. ~Crash /\ \A c \in Consumers : ~ReplyLost(c)
  BY <1>1 DEF Crash, ReplyLost
<1>3. ASSUME InitInterface \/ LocalSetAndSend \/ LocalSet \/ LocalSend \/ OwnerProceeds
      PROVE  UNCHANGED faults
  BY <1>3
  DEF InitInterface, LocalSetAndSend, LocalSet, LocalSend, OwnerProceeds, ConnectToTopic,
      Serve, ConnectAndPush, FirstPush, Reconnect, SecondPush, SetAfterPush, stormVars
<1>4. ASSUME NEW c \in Consumers,
             \/ Dispatch(c) \/ ConsumerProceeds(c)
             \/ Subscribe(c) \/ GiveUp(c) \/ Unsubscribe(c) \/ Destroy(c) \/ Deliver(c)
      PROVE  UNCHANGED faults
  BY <1>4
  DEF Dispatch, GrabData, SubscribeToTopic, PushInitialData, ConsumerProceeds,
      SubscribeReturns, SubscribeThrows, Retry, Subscribe, GiveUp, Unsubscribe,
      Destroy, Deliver, stormVars
<1>5. CASE Restart \/ UNCHANGED vars
  BY <1>2, <1>5 DEF Restart, vars, stormVars
<1> QED
  BY <1>2, <1>3, <1>4, <1>5 DEF Next

\* A consumer and its calls subscribe and unsubscribe properly.
LEMMA ConsumerStaysProper ==
  ASSUME IInv, CallsAreWaitedFor, NEW c \in Consumers, ProperlySubscribed(c),
         \/ Dispatch(c) \/ ConsumerProceeds(c)
         \/ Subscribe(c) \/ GiveUp(c) \/ Unsubscribe(c) \/ Destroy(c)
         \/ Deliver(c)
  PROVE  ProperlySubscribed(c)'
<1> USE DEF ProperlySubscribed, GotData, Reply,
            ownerVars, stormVars, callVars, consumerVars, historyVars
<1>t. /\ call \in [Consumers -> {"none", "grab", "topic", "push", "ok", "failed"}]
      /\ grabbed \in [Consumers -> 0..MaxData]
      /\ consumer \in [Consumers -> {"idle", "calling", "waiting", "subscribed", "gone"}]
  BY DEF IInv, TypeOK
<1>w. call[c] # "none" => consumer[c] = "calling"
  BY DEF CallsAreWaitedFor
<1>1. CASE GrabData(c)
  BY <1>t, <1>1 DEF GrabData
<1>2. CASE SubscribeToTopic(c)
  <2>1. CASE ~connected \/ ~up
    <3>1. /\ call'[c] = "failed" /\ call[c] = "topic"
          /\ UNCHANGED <<subscribers, up, consumer, topic>>
      BY <1>t, <1>2, <2>1 DEF SubscribeToTopic
    <3> QED
      BY <3>1
  <2>2. CASE connected /\ up /\ c \notin subscribers
    <3>1. /\ call'[c] = IF GotData(c) THEN "push" ELSE "ok"
          /\ call[c] = "topic" /\ c \in subscribers' /\ up'
          /\ UNCHANGED <<consumer, topic, grabbed>>
      BY <1>t, <1>2, <2>2 DEF SubscribeToTopic
    <3> QED
      BY <1>w, <3>1
  <2>3. CASE connected /\ up /\ c \in subscribers
    <3>1. /\ call'[c] = "ok" /\ call[c] = "topic" /\ c \in subscribers'
          /\ UNCHANGED <<consumer, topic, up>>
      BY <1>t, <1>2, <2>3 DEF SubscribeToTopic, AlreadySubscribed
    <3>2. c \in topic' /\ up' /\ consumer'[c] # "gone"
      BY <2>3, <3>1
    <3> QED
      BY <3>1, <3>2
  <2> QED
    BY <2>1, <2>2, <2>3
<1>3. CASE PushInitialData(c)
  <2>1. up /\ c \in subscribers
    BY <1>3 DEF PushInitialData
  <2>2. /\ call'[c] = "ok" /\ c \in served'
        /\ UNCHANGED <<subscribers, consumer, topic, up>>
    BY <1>t, <1>3, <2>1 DEF PushInitialData
  <2> QED
    BY <2>1, <2>2
<1>4. CASE SubscribeReturns(c)
  <2>1. /\ call'[c] = "none" /\ c \in topic' /\ consumer'[c] = "subscribed"
        /\ UNCHANGED <<subscribers, up>>
    BY <1>t, <1>4 DEF SubscribeReturns
  <2> QED
    BY <2>1
<1>5. CASE SubscribeThrows(c)
  <2>1. /\ call[c] = "failed" /\ call'[c] = "none" /\ consumer'[c] = "waiting"
        /\ UNCHANGED <<subscribers, up, topic>>
    BY <1>t, <1>5 DEF SubscribeThrows
  <2> QED
    BY <2>1
<1>6. CASE Retry(c) \/ Subscribe(c)
  <2>1. /\ call[c] = "none" /\ call'[c] = "grab" /\ consumer'[c] = "calling"
        /\ UNCHANGED <<subscribers, up, topic>>
    BY <1>t, <1>w, <1>6 DEF Retry, Subscribe
  <2> QED
    BY <2>1
<1>7. CASE GiveUp(c)
  <2>1. /\ consumer'[c] = "idle"
        /\ UNCHANGED <<subscribers, up, topic, call, grabbed, served>>
    BY <1>t, <1>7 DEF GiveUp
  <2> QED
    BY <2>1
<1>8. CASE Unsubscribe(c) \/ Destroy(c)
  <2>1. /\ call[c] = "none" /\ call' = call /\ up' = up
    BY <1>t, <1>w, <1>8 DEF Unsubscribe, Destroy
  <2>2. c \notin subscribers'
    <3>1. c \in subscribers => c \in topic /\ up
      BY <2>1
    <3> QED
      BY <1>8, <3>1 DEF Unsubscribe, Destroy, LeaveTopic
  <2> QED
    BY <2>1, <2>2
<1>9. CASE Deliver(c)
  <2>1. consumer[c] # "gone"
    BY <1>9 DEF Deliver
  <2>2. UNCHANGED <<subscribers, up, topic, call, grabbed, consumer, served>>
    BY <1>9, <2>1 DEF Deliver
  <2> QED
    BY <2>2
<1> QED
  BY <1>1, <1>2, <1>3, <1>4, <1>5, <1>6, <1>7, <1>8, <1>9 DEF Dispatch, ConsumerProceeds

\* Without a fault, every step keeps every subscription proper.
LEMMA FaultlessStep ==
  ASSUME IInv, CallsAreWaitedFor, FaultlessInv, [Next]_vars
  PROVE  FaultlessInv'
<1> SUFFICES ASSUME faults' = 0, NEW c \in Consumers PROVE ProperlySubscribed(c)'
  BY DEF FaultlessInv
<1>1. /\ faults = 0 /\ ~Crash /\ \A d \in Consumers : ~ReplyLost(d)
  BY FaultsStay
<1>2. ProperlySubscribed(c)
  BY <1>1 DEF FaultlessInv
<1>3. CASE InitInterface \/ LocalSetAndSend \/ LocalSet \/ LocalSend \/ OwnerProceeds
  <2>1. UNCHANGED <<subscribers, up, consumer, topic, call, grabbed>>
    BY <1>3
    DEF InitInterface, LocalSetAndSend, LocalSet, LocalSend, OwnerProceeds,
        ConnectToTopic, Serve, ConnectAndPush, FirstPush, Reconnect, SecondPush,
        SetAfterPush, stormVars, callVars, consumerVars
  <2>2. served \subseteq served'
    BY <1>3
    DEF InitInterface, LocalSetAndSend, LocalSet, LocalSend, OwnerProceeds, ToAll,
        ConnectToTopic, Serve, ConnectAndPush, FirstPush, Reconnect, SecondPush,
        SetAfterPush, historyVars
  <2> QED
    BY <1>2, <2>1, <2>2 DEF ProperlySubscribed, GotData
<1>4. ASSUME NEW d \in Consumers,
             \/ Dispatch(d) \/ ConsumerProceeds(d)
             \/ Subscribe(d) \/ GiveUp(d) \/ Unsubscribe(d) \/ Destroy(d)
             \/ Deliver(d)
      PROVE  ProperlySubscribed(c)'
  <2>1. CASE d = c
    BY <1>2, <1>4, <2>1, ConsumerStaysProper
  <2>2. CASE d # c
    <3>1. /\ UNCHANGED <<up, consumer[c], call[c], grabbed[c]>>
          /\ c \in subscribers' <=> c \in subscribers
      BY <1>4, <2>2, OthersDoNotDisturb
    <3>2. /\ c \in topic' <=> c \in topic
          /\ c \in served => c \in served'
      BY <1>4, <2>2, OthersTakeNothing
    <3> QED
      BY <1>2, <3>1, <3>2 DEF ProperlySubscribed, GotData
  <2> QED
    BY <2>1, <2>2
<1>5. CASE Restart \/ UNCHANGED vars
  <2>1. /\ UNCHANGED <<subscribers, consumer, topic, call, grabbed, served>>
        /\ up => up'
    BY <1>5 DEF Restart, vars, stormVars, callVars, consumerVars, historyVars
  <2> QED
    BY <1>2, <2>1 DEF ProperlySubscribed, GotData
<1> QED
  BY <1>1, <1>3, <1>4, <1>5 DEF Next

\* Without a fault, subscriptions are proper in every state of every behaviour.
THEOREM FaultlessInvariance == Spec => [](IInv /\ CallsAreWaitedFor /\ FaultlessInv)
<1>1. Init => IInv /\ CallsAreWaitedFor /\ FaultlessInv
  BY InvInit DEF Init, CallsAreWaitedFor, FaultlessInv, ProperlySubscribed
<1>2. /\ IInv /\ CallsAreWaitedFor /\ FaultlessInv /\ [Next]_vars
      => (IInv /\ CallsAreWaitedFor /\ FaultlessInv)'
  BY InvStep, CallsAreWaitedForStep, FaultlessStep
<1> QED
  BY <1>1, <1>2, PTL DEF Spec

\* Unless IceStorm went down or an answer was lost, a consumer that is gone is not
\* subscribed any more, wherever in its subscribing it gave up.
THEOREM TheGoneAreUnsubscribed == Spec => []GoneAreUnsubscribed
<1>1. IInv /\ FaultlessInv => GoneAreUnsubscribed
  BY DEF IInv, TypeOK, FaultlessInv, ProperlySubscribed, GoneAreUnsubscribed
<1> QED
  BY <1>1, FaultlessInvariance, PTL

\* What the run pubsub_served refutes holds as long as there was no fault: a new subscriber
\* has been sent the data there was when its subscribe() returns.
THEOREM FaultlessAreServed == Spec => FaultlessSubscribersAreServed
<1>1. FaultlessInv /\ [Next]_vars
      => [\A c \in Consumers :
            SubscribeReturns(c) /\ c \notin topic /\ GotData(c) /\ faults = 0
              => c \in served]_vars
  BY DEF FaultlessInv, ProperlySubscribed, SubscribeReturns
<1> QED
  BY <1>1, FaultlessInvariance, PTL DEF Spec, FaultlessSubscribersAreServed
=============================================================================
