------------------------------- MODULE PubSub -------------------------------
(***************************************************************************)
(* How data gets from a component's provided interface to its subscribers: *)
(* orcaifaceimpl::ProviderImpl and ConsumerImpl                            *)
(* (libs/orcaifaceimpl/providerImpl.h, consumerImpl.h) with the            *)
(* orcaice::TopicHandler between them (libs/orcaice/topichandler.h,        *)
(* icestormutils.h). The topic itself is IceStorm's, an external service   *)
(* that keeps a queue for each subscriber, may go down and come back.      *)
(*                                                                         *)
(* Threads: the owner of the interface, which sets and sends data; one     *)
(* dispatch thread for each subscribe() call; the consumers. ProviderImpl  *)
(* holds its mutex_ only to read or write data_, so a subscribe() call and *)
(* the owner interleave between reading, subscribing and pushing.          *)
(*                                                                         *)
(* Data is counted in updates: data_ "n" contains the updates 1..n. What   *)
(* goes through the topic is either the whole data or one update of it.    *)
(***************************************************************************)
EXTENDS Naturals, Sequences

CONSTANTS
  Consumers,    \* the subscribers
  MaxData,      \* bound: updates the owner makes
  MaxFaults     \* bound: crashes of IceStorm and replies lost

ASSUME PubSubAssumption == MaxData \in Nat /\ MaxFaults \in Nat

VARIABLES
  style,        \* localSetAndSend() with "one" argument or with "two"
  owner,        \* where the owner is in initInterface(), localSet...()
  made,         \* updates made so far
  data,         \* ProviderImpl::data_; 0: isDataSet_ is false
  connected,    \* TopicHandler::topicPrx_ and publisherPrx_ are set
  serving,      \* the interface is in the adapter
  up,           \* IceStorm runs
  subscribers,  \* the topic's subscribers
  queue,        \* what the topic has still to deliver to each of them
  faults,       \* faults so far
  call,         \* where the dispatch of a consumer's subscribe() is
  grabbed,      \* internalSubscribe()'s local copy of the data
  consumer,     \* where each consumer is in its life
  topic,        \* the consumers whose topic_ is set
  picture,      \* the updates each consumer knows of
  served,       \* history: consumers sent something since they are subscribed
  quiet         \* history: consumers whose subscription overlapped nothing

ownerVars    == <<style, owner, made, data, serving>>
stormVars    == <<up, subscribers, queue, faults>>
callVars     == <<call, grabbed>>
consumerVars == <<consumer, topic, picture>>
historyVars  == <<served, quiet>>
vars == <<ownerVars, connected, stormVars, callVars, consumerVars, historyVars>>

Data(n)   == [whole |-> TRUE, n |-> n]
Update(n) == [whole |-> FALSE, n |-> n]

Init ==
  /\ style \in {"one", "two"}
  /\ owner = "created"
  /\ made = 0
  /\ data = 0
  /\ connected = FALSE
  /\ serving = FALSE
  /\ up \in BOOLEAN
  /\ subscribers = {}
  /\ queue = [c \in Consumers |-> <<>>]
  /\ faults = 0
  /\ call = [c \in Consumers |-> "none"]
  /\ grabbed = [c \in Consumers |-> 0]
  /\ consumer = [c \in Consumers |-> "idle"]
  /\ topic = {}
  /\ picture = [c \in Consumers |-> {}]
  /\ served = {}
  /\ quiet = {}

-----------------------------------------------------------------------------
(* The owner                                                                *)

\* initInterface(): without data, or with data that is set first
InitInterface ==
  /\ owner = "created"
  /\ owner' = "connect"
  /\ \/ UNCHANGED <<made, data>>
     \/ made < MaxData /\ made' = made + 1 /\ data' = made'
  /\ UNCHANGED <<style, serving, connected, stormVars, callVars, consumerVars,
                 historyVars>>

\* connectToTopic(): when IceStorm is not there the version with an activity
\* tries again; the other, or an activity that is stopping, goes on without
ConnectToTopic ==
  /\ owner = "connect"
  /\ connected' = up
  /\ owner' = IF data = 0 THEN "serve" ELSE "push"
  /\ UNCHANGED <<style, made, data, serving, stormVars, callVars, consumerVars,
                 historyVars>>

\* createInterfaceWithString()
Serve ==
  /\ owner = "serve"
  /\ serving' = TRUE
  /\ owner' = "idle"
  /\ UNCHANGED <<style, made, data, connected, stormVars, callVars,
                 consumerVars, historyVars>>

\* The one argument version of localSetAndSend() sets, then publishes; the other
\* publishes the update, then sets the whole (mutant: the order of the first).
SetsFirstMutant == TRUE
SetsFirst == style = "one"

\* a subscription under way is no longer a quiet one
Overlap == quiet' = quiet \ {c \in Consumers : call[c] \in {"topic", "push"}}

LocalSetAndSend ==
  /\ owner = "idle"
  /\ made < MaxData
  /\ made' = made + 1
  /\ data' = IF SetsFirst THEN made' ELSE data
  /\ owner' = "push"
  /\ Overlap
  /\ UNCHANGED <<style, connected, serving, stormVars, callVars, consumerVars,
                 served>>

\* localSet() alone: subscribers are not told
LocalSet ==
  /\ owner = "idle" /\ style = "one"
  /\ made < MaxData
  /\ made' = made + 1
  /\ data' = made'
  /\ quiet' = {}
  /\ UNCHANGED <<style, owner, connected, serving, stormVars, callVars,
                 consumerVars, served>>

\* localSend() alone: data_ is left behind
LocalSend ==
  /\ owner = "idle" /\ style = "one"
  /\ made < MaxData
  /\ made' = made + 1
  /\ owner' = "push"
  /\ Overlap
  /\ UNCHANGED <<style, data, connected, serving, stormVars, callVars,
                 consumerVars, served>>

\* what the owner does once publish() has returned
AfterPush == IF ~serving THEN "serve" ELSE IF style = "two" THEN "set" ELSE "idle"

Sent == IF serving /\ style = "two" THEN Update(made) ELSE Data(made)

\* the topic takes the message in, for those subscribed at the moment
ToAll ==
  /\ queue' = [c \in Consumers |->
                 IF c \in subscribers THEN Append(queue[c], Sent) ELSE queue[c]]
  /\ served' = served \cup subscribers

\* tryPushToIceStormWithReconnect(): without a publisher it connects first
ConnectAndPush ==
  /\ owner = "push" /\ ~connected
  /\ IF up THEN connected' = TRUE /\ UNCHANGED <<owner, quiet>>
     ELSE owner' = AfterPush /\ quiet' = {} /\ UNCHANGED connected
  /\ UNCHANGED <<style, made, data, serving, stormVars, callVars, consumerVars,
                 served>>

\* setData() on the publisher, which is a oneway proxy: IceStorm gets it, or the
\* call fails, or the message is lost without the caller knowing
FirstPush ==
  /\ owner = "push" /\ connected
  /\ \/ up /\ ToAll /\ owner' = AfterPush /\ UNCHANGED quiet
     \/ ~up /\ owner' = "reconnect" /\ UNCHANGED <<queue, served, quiet>>
     \/ ~up /\ owner' = AfterPush /\ quiet' = {} /\ UNCHANGED <<queue, served>>
  /\ UNCHANGED <<style, made, data, connected, serving, up, subscribers, faults,
                 callVars, consumerVars>>

\* the catch clause: reconnect once, push once more, or ignore the problem
Reconnect ==
  /\ owner = "reconnect"
  /\ IF up THEN owner' = "again" /\ UNCHANGED quiet
     ELSE owner' = AfterPush /\ quiet' = {}
  /\ UNCHANGED <<style, made, data, connected, serving, stormVars, callVars,
                 consumerVars, served>>

SecondPush ==
  /\ owner = "again"
  /\ owner' = AfterPush
  /\ IF up THEN ToAll /\ UNCHANGED quiet
     ELSE quiet' = {} /\ UNCHANGED <<queue, served>>
  /\ UNCHANGED <<style, made, data, connected, serving, up, subscribers, faults,
                 callVars, consumerVars>>

\* the two argument version, after publish()
SetAfterPush ==
  /\ owner = "set"
  /\ data' = made
  /\ owner' = "idle"
  /\ UNCHANGED <<style, made, connected, serving, stormVars, callVars,
                 consumerVars, historyVars>>

OwnerProceeds ==
  \/ ConnectToTopic \/ Serve
  \/ ConnectAndPush \/ FirstPush \/ Reconnect \/ SecondPush \/ SetAfterPush

-----------------------------------------------------------------------------
(* ProviderImpl::internalSubscribe(), in a dispatch thread                  *)

Reply(c, answer) == call' = [call EXCEPT ![c] = answer]

\* the critical section
GrabData(c) ==
  /\ call[c] = "grab"
  /\ grabbed' = [grabbed EXCEPT ![c] = data]
  /\ quiet' = IF owner = "idle" /\ data = made THEN quiet \cup {c} ELSE quiet \ {c}
  /\ Reply(c, "topic")
  /\ UNCHANGED <<ownerVars, connected, stormVars, consumerVars, served>>

\* gotData: whether there is something to send to the new subscriber (mutant: it is
\* never set)
GotDataForgotten(c) == FALSE
GotData(c) == grabbed[c] # 0

\* IceStorm's AlreadySubscribed is caught and taken as a success: the reply that
\* the consumer never got is made good, the data is not (mutant: it is passed on)
AlreadySubscribedMutant(c) == Reply(c, "failed")
AlreadySubscribed(c) == Reply(c, "ok")

\* TopicHandler::internalSubscribe()
SubscribeToTopic(c) ==
  /\ call[c] = "topic"
  /\ IF ~connected \/ ~up
     THEN Reply(c, "failed") /\ quiet' = quiet \ {c} /\ UNCHANGED <<subscribers, queue, served>>
     ELSE /\ subscribers' = subscribers \cup {c}
          /\ served' = IF c \in subscribers THEN served ELSE served \ {c}
          /\ IF c \notin subscribers
             THEN /\ queue' = [queue EXCEPT ![c] = <<>>]
                  /\ Reply(c, IF GotData(c) THEN "push" ELSE "ok")
                  /\ UNCHANGED quiet
             ELSE /\ AlreadySubscribed(c)
                  /\ quiet' = quiet \ {c}
                  /\ UNCHANGED queue
  /\ UNCHANGED <<ownerVars, connected, up, faults, grabbed, consumerVars>>

\* individualPublisher->setData()
PushInitialData(c) ==
  /\ call[c] = "push"
  /\ IF up /\ c \in subscribers
     THEN /\ queue' = [queue EXCEPT ![c] = Append(@, Data(grabbed[c]))]
          /\ served' = served \cup {c}
          /\ Reply(c, "ok")
          /\ UNCHANGED quiet
     ELSE /\ Reply(c, "failed")
          /\ quiet' = quiet \ {c}
          /\ UNCHANGED <<queue, served>>
  /\ UNCHANGED <<ownerVars, connected, up, subscribers, faults, grabbed,
                 consumerVars>>

Dispatch(c) == GrabData(c) \/ SubscribeToTopic(c) \/ PushInitialData(c)

-----------------------------------------------------------------------------
(* ConsumerImpl                                                             *)

\* subscribeWithString(): the remote call
Subscribe(c) ==
  /\ consumer[c] \in {"idle", "subscribed"}
  /\ serving
  /\ consumer' = [consumer EXCEPT ![c] = "calling"]
  /\ Reply(c, "grab")
  /\ UNCHANGED <<ownerVars, connected, stormVars, grabbed, topic, picture,
                 historyVars>>

\* it returned: the topic is kept, to unsubscribe with
SubscribeReturns(c) ==
  /\ consumer[c] = "calling" /\ call[c] = "ok"
  /\ consumer' = [consumer EXCEPT ![c] = "subscribed"]
  /\ topic' = topic \cup {c}
  /\ Reply(c, "none")
  /\ UNCHANGED <<ownerVars, connected, stormVars, grabbed, picture, historyVars>>

\* it threw: the version with an activity waits, and tries again
SubscribeThrows(c) ==
  /\ consumer[c] = "calling" /\ call[c] = "failed"
  /\ consumer' = [consumer EXCEPT ![c] = "waiting"]
  /\ Reply(c, "none")
  /\ UNCHANGED <<ownerVars, connected, stormVars, grabbed, topic, picture,
                 historyVars>>

\* the call was carried out, but its answer does not arrive
ReplyLost(c) ==
  /\ consumer[c] = "calling" /\ call[c] \in {"ok", "failed"}
  /\ faults < MaxFaults
  /\ faults' = faults + 1
  /\ consumer' = [consumer EXCEPT ![c] = "waiting"]
  /\ Reply(c, "none")
  /\ UNCHANGED <<ownerVars, connected, up, subscribers, queue, grabbed, topic,
                 picture, historyVars>>

Retry(c) ==
  /\ consumer[c] = "waiting"
  /\ consumer' = [consumer EXCEPT ![c] = "calling"]
  /\ Reply(c, "grab")
  /\ UNCHANGED <<ownerVars, connected, stormVars, grabbed, topic, picture,
                 historyVars>>

\* the activity is stopping, or the other version let the exception through
GiveUp(c) ==
  /\ consumer[c] = "waiting"
  /\ consumer' = [consumer EXCEPT ![c] = "idle"]
  /\ UNCHANGED <<ownerVars, connected, stormVars, callVars, topic, picture,
                 historyVars>>

\* unsubscribe(): only with a topic, and it throws when IceStorm is not there
LeaveTopic(c) ==
  IF c \in topic /\ up
  THEN /\ subscribers' = subscribers \ {c}
       /\ queue' = [queue EXCEPT ![c] = <<>>]
  ELSE UNCHANGED <<subscribers, queue>>

Unsubscribe(c) ==
  /\ consumer[c] \in {"idle", "subscribed"}
  /\ LeaveTopic(c)
  /\ consumer' = [consumer EXCEPT ![c] = "idle"]
  /\ quiet' = quiet \ {c}
  /\ UNCHANGED <<ownerVars, connected, up, faults, callVars, topic, picture,
                 served>>

\* the destructor: unsubscribe(), whose exceptions are caught, and the removal
\* of the object from the adapter
Destroy(c) ==
  /\ consumer[c] \in {"idle", "subscribed"}
  /\ LeaveTopic(c)
  /\ consumer' = [consumer EXCEPT ![c] = "gone"]
  /\ quiet' = quiet \ {c}
  /\ UNCHANGED <<ownerVars, connected, up, faults, callVars, topic, picture,
                 served>>

ConsumerProceeds(c) == SubscribeReturns(c) \/ SubscribeThrows(c) \/ Retry(c)

-----------------------------------------------------------------------------
(* IceStorm                                                                 *)

\* what a consumer knows of after a message: all of it, or one update more
Learned(known, message) ==
  IF message.whole THEN 1..message.n ELSE known \cup {message.n}

\* setData() on the consumer, in the order of its queue; one that is not there
\* any more is dropped
Deliver(c) ==
  /\ up /\ c \in subscribers
  /\ queue[c] # <<>>
  /\ IF consumer[c] # "gone"
     THEN /\ picture' = [picture EXCEPT ![c] = Learned(@, Head(queue[c]))]
          /\ queue' = [queue EXCEPT ![c] = Tail(@)]
          /\ UNCHANGED subscribers
     ELSE /\ subscribers' = subscribers \ {c}
          /\ queue' = [queue EXCEPT ![c] = <<>>]
          /\ UNCHANGED picture
  /\ UNCHANGED <<ownerVars, connected, up, faults, callVars, consumer, topic,
                 historyVars>>

\* what is queued is lost; the subscriptions are in IceStorm's database, if it
\* was configured to have one
Crash ==
  /\ up
  /\ faults < MaxFaults
  /\ faults' = faults + 1
  /\ up' = FALSE
  /\ queue' = [c \in Consumers |-> <<>>]
  /\ subscribers' \in {subscribers, {}}
  /\ quiet' = {}
  /\ UNCHANGED <<ownerVars, connected, callVars, consumerVars, served>>

Restart ==
  /\ ~up
  /\ up' = TRUE
  /\ UNCHANGED <<ownerVars, connected, subscribers, queue, faults, callVars,
                 consumerVars, historyVars>>

-----------------------------------------------------------------------------

Next ==
  \/ InitInterface \/ LocalSetAndSend \/ LocalSet \/ LocalSend
  \/ OwnerProceeds
  \/ \E c \in Consumers :
       \/ Dispatch(c) \/ ConsumerProceeds(c)
       \/ Subscribe(c) \/ GiveUp(c) \/ Unsubscribe(c) \/ Destroy(c)
       \/ ReplyLost(c) \/ Deliver(c)
  \/ Crash \/ Restart

Spec == Init /\ [][Next]_vars

\* A thread that is inside one of the operations goes on, a dispatched call is
\* answered, and IceStorm is started again and delivers. Nobody has to make
\* data, to subscribe, to give up or to leave.
FairSpec ==
  /\ Spec
  /\ WF_vars(OwnerProceeds)
  /\ WF_vars(Restart)
  /\ \A c \in Consumers :
       WF_vars(Dispatch(c)) /\ WF_vars(ConsumerProceeds(c)) /\ WF_vars(Deliver(c))

-----------------------------------------------------------------------------
(* Properties                                                               *)

Messages == [whole : BOOLEAN, n : 1..MaxData]

\* The variables keep their types.
TypeOK ==
  /\ style \in {"one", "two"}
  /\ owner \in {"created", "connect", "serve", "idle", "push", "reconnect",
                "again", "set"}
  /\ made \in 0..MaxData /\ data \in 0..made
  /\ connected \in BOOLEAN /\ serving \in BOOLEAN /\ up \in BOOLEAN
  /\ subscribers \subseteq Consumers
  /\ queue \in [Consumers -> Seq(Messages)]
  /\ faults \in 0..MaxFaults
  /\ call \in [Consumers -> {"none", "grab", "topic", "push", "ok", "failed"}]
  /\ grabbed \in [Consumers -> 0..MaxData]
  /\ consumer \in [Consumers -> {"idle", "calling", "waiting", "subscribed", "gone"}]
  /\ topic \subseteq Consumers
  /\ picture \in [Consumers -> SUBSET (1..MaxData)]
  /\ served \subseteq Consumers /\ quiet \subseteq Consumers

\* providerImpl.h: "By sending first, we avoid the possibility that a client gets
\* our data on subscription then gets pushed the update." No consumer is pushed
\* an update that it knows of.
NoUpdateTwice ==
  \A c \in Consumers :
    queue[c] # <<>> /\ ~Head(queue[c]).whole => Head(queue[c]).n \notin picture[c]

\* what a consumer that knows of these updates knows of once a queue has been
\* delivered: a whole replaces all before it
AfterDelivery(known, q) ==
  LET Lasts(i) == \A k \in DOMAIN q : q[k].whole => k <= i
  IN  {n \in 1..MaxData :
         \/ n \in known /\ \A i \in DOMAIN q : ~q[i].whole
         \/ \E i \in DOMAIN q : Lasts(i) /\ n \in Learned({}, q[i])}

Drained(c) == AfterDelivery(picture[c], queue[c])

\* A consumer that subscribed while the owner was doing nothing has been sent
\* everything since, whatever the two forms of localSetAndSend(), IceStorm being
\* up: no update falls between the data of the subscription and the topic.
QuietSubscriptionMissesNothing ==
  \A c \in quiet :
    owner = "idle" /\ call[c] \notin {"topic", "push"} => Drained(c) = 1..made

\* A subscription that is tried again and again is made in the end, if only
\* IceStorm comes back and the provider has found it once.
SubscribeSucceeds ==
  \A c \in Consumers :
    consumer[c] = "calling" ~> consumer[c] \in {"subscribed", "idle"} \/ ~connected

\* Unless IceStorm went down or an answer was lost, a consumer that is gone is not
\* subscribed any more, though subscribing takes several steps and may be given up.
GoneAreUnsubscribed ==
  faults = 0 => \A c \in subscribers : consumer[c] # "gone"

\* Unless IceStorm went down or an answer was lost, a new subscriber has been sent the data
\* there was when its subscribe() returns: it takes a fault to bring about what
\* SubscriberIsServed is about.
FaultlessSubscribersAreServed ==
  [][\A c \in Consumers :
       SubscribeReturns(c) /\ c \notin topic /\ GotData(c) /\ faults = 0 => c \in served]_vars

\* providerImpl.h: "if we have data, send all the information we have to the new
\* subscriber". When the subscribe() of a new consumer returns at last and the
\* provider had data, the consumer has been sent something.
SubscriberIsServed ==
  [][\A c \in Consumers :
       SubscribeReturns(c) /\ c \notin topic /\ GotData(c) => c \in served]_vars

-----------------------------------------------------------------------------
(* What makes the safety properties inductive                               *)

\* an update is made that nobody has been sent yet
Unsent ==
  style = "two" /\ serving /\ owner \in {"push", "reconnect", "again"}

\* the newest update that may be anywhere outside the owner
Newest == IF Unsent THEN made - 1 ELSE made

\* Nothing that is stored, copied, queued or known is newer than that.
NothingNewer ==
  /\ data <= Newest
  /\ \A c \in Consumers :
       /\ grabbed[c] <= data
       /\ picture[c] \subseteq 1..Newest
       /\ \A i \in DOMAIN queue[c] : queue[c][i].n <= Newest

\* A single update is newer than what comes before it in its queue, and than all
\* the consumer knows.
UpdatesInOrder ==
  \A c \in Consumers : \A i \in DOMAIN queue[c] :
    ~queue[c][i].whole =>
      /\ \A n \in picture[c] : n < queue[c][i].n
      /\ \A k \in 1..(i - 1) : queue[c][k].n < queue[c][i].n

\* There is data where data is sent.
SomethingToSend ==
  /\ owner \in {"push", "reconnect", "again"} => made > 0
  /\ \A c \in Consumers : call[c] = "push" => grabbed[c] > 0

\* The interface is not in the adapter before initInterface() is through.
NotServedYet ==
  owner \in {"created", "connect", "serve"} => ~serving

IInv ==
  /\ TypeOK
  /\ NothingNewer
  /\ UpdatesInOrder
  /\ SomethingToSend
  /\ NotServedYet

\* A call is being waited for, and there is an interface to call.
CallsAreWaitedFor ==
  \A c \in Consumers :
    /\ call[c] # "none" => consumer[c] = "calling"
    /\ consumer[c] \in {"calling", "waiting"} => serving

\* the updates that the owner has published, one by one or with a whole
Published == IF owner \in {"push", "reconnect", "again"} THEN made - 1 ELSE made

\* While a quiet subscription is being made, the owner does nothing and the copy
\* is current; from then on the topic holds what the consumer has yet to learn.
QuietIsUndisturbed ==
  \A c \in quiet :
    /\ serving
    /\ consumer[c] # "gone"
    /\ call[c] \in {"topic", "push"} => owner = "idle" /\ grabbed[c] = made
    /\ call[c] # "topic" => up /\ c \in subscribers
    /\ call[c] = "push" => queue[c] = <<>>
    /\ call[c] \notin {"topic", "push"} => Drained(c) = 1..Published

QuietInv == IInv /\ CallsAreWaitedFor /\ QuietIsUndisturbed
=============================================================================
