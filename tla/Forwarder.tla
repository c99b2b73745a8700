------------------------------ MODULE Forwarder ------------------------------
(***************************************************************************)
(* One Forwarder of forwarder.go: the client's dispatcher calls            *)
(* handleMessage, which puts each message into a bounded channel; a worker *)
(* goroutine takes it out and publishes it to the target session; callers  *)
(* Start and Stop the forwarder meanwhile.                                 *)
(*                                                                         *)
(* Start and Stop hold sf.mu from their first line to their last, and wait *)
(* inside for the acknowledgements of the (un)subscriptions.  The client   *)
(* (paho, outside this repository) reads messages and acknowledgements     *)
(* from one stream, and hands each message to a single dispatcher before   *)
(* it reads on.                                                            *)
(***************************************************************************)
EXTENDS Integers, Sequences, FiniteSets

CONSTANTS
    Topics,       \* config.SourceTopics
    BufferSize,   \* config.BufferSize
    Objects,      \* PooledMessage objects, as many as are ever in use at once
    Workers,      \* processMessages goroutines, one per Start that succeeds
    MaxArrivals,  \* bound: messages the broker sends
    MaxBacklog,   \* bound: messages sent and not yet dispatched
    NoObject

ASSUME BufferAssumption == BufferSize \in Nat \ {0}
ASSUME ObjectsAssumption == NoObject \notin Objects /\ IsFiniteSet(Objects)
ASSUME BoundsAssumption == MaxArrivals \in Nat /\ MaxBacklog \in Nat

VARIABLES
    \* the forwarder
    running,    \* sf.running
    stopped,    \* sf.stopped; stopCh is closed with it
    messageCh,  \* the channel of pooled messages
    received, sent, dropped,  \* the metrics
    \* the holder of sf.mu
    op,        \* "none", "start" or "stop"
    todo,      \* topics it has yet to subscribe or unsubscribe
    ack,       \* the acknowledgement it waits for: "none", "due" from the
               \* broker, or "sent" by it
    ahead,     \* messages ahead of the acknowledgement in the stream
    \* the client of the source session
    routes,    \* topics with a handler
    backlog,   \* messages in the stream, not dispatched
    arrivals,  \* messages sent so far
    handler,   \* where the dispatcher is in handleMessage
    \* the worker goroutines and the pool
    worker,    \* where each is
    held,      \* the object each of the dispatcher and the workers holds
    free,      \* objects in the pool
    \* auxiliary, for what the code does not count
    failed,    \* messages whose publication failed
    refused    \* messages dropped because the forwarder was stopped

config == <<running, stopped>>
metrics == <<received, sent, dropped, failed, refused>>
waiting == <<ack, ahead>>
mutex == <<op, todo, waiting>>
client == <<routes, backlog, arrivals>>
forwarder == <<config, messageCh, metrics>>
goroutines == <<handler, worker, held, free>>
vars == <<forwarder, mutex, client, goroutines>>

Dispatcher == "dispatcher"
Holders == Workers \cup {Dispatcher}

ASSUME WorkersAssumption == IsFiniteSet(Workers) /\ Dispatcher \notin Workers

-----------------------------------------------------------------------------
Init ==
    /\ running = FALSE
    /\ stopped = FALSE
    /\ messageCh = <<>>
    /\ received = 0 /\ sent = 0 /\ dropped = 0 /\ failed = 0 /\ refused = 0
    /\ op = "none"
    /\ todo = {}
    /\ ack = "none"
    /\ ahead = 0
    /\ routes = {}
    /\ backlog = 0
    /\ arrivals = 0
    /\ handler = "idle"
    /\ worker = [w \in Workers |-> "unborn"]
    /\ held = [h \in Holders |-> NoObject]
    /\ free = Objects

(* sf.mu: whoever is in Start or Stop has it.                               *)
MutexFree == op = "none"

Unborn == {w \in Workers : worker[w] = "unborn"}
Active == {w \in Workers : worker[w] \in {"select", "publish", "record"}}

-----------------------------------------------------------------------------
(* Variant: Start does not look at running.                                 *)
StartCallAgain ==
    /\ MutexFree
    /\ Unborn # {}
    /\ op' = "start"
    /\ todo' = Topics
    /\ UNCHANGED <<forwarder, waiting, client, goroutines>>

(* Start(): refused when running; else every topic is subscribed in turn.   *)
StartCall ==
    /\ MutexFree
    /\ ~running
    /\ Unborn # {}
    /\ op' = "start"
    /\ todo' = Topics
    /\ UNCHANGED <<forwarder, waiting, client, goroutines>>

(* Subscribe on the source session: the route is there before the request   *)
(* is acknowledged.                                                         *)
StartSubscribe(topic) ==
    /\ op = "start" /\ ack = "none"
    /\ topic \in todo
    /\ routes' = routes \cup {topic}
    /\ todo' = todo \ {topic}
    /\ ack' = "due"
    /\ UNCHANGED <<forwarder, op, ahead, backlog, arrivals, goroutines>>

(* A subscription that fails, at once or by its answer, ends Start; the     *)
(* earlier ones stay.                                                       *)
StartFails ==
    /\ op = "start"
    /\ \/ ack = "none" /\ todo # {}
       \/ ack = "sent" /\ ahead = 0
    /\ op' = "none"
    /\ todo' = {}
    /\ ack' = "none"
    /\ UNCHANGED <<forwarder, ahead, client, goroutines>>

(* The worker is spawned; running is set, stopped is not looked at.         *)
StartReturn ==
    /\ op = "start" /\ ack = "none" /\ todo = {}
    /\ \E w \in Unborn : worker' = [worker EXCEPT ![w] = "select"]
    /\ running' = TRUE
    /\ op' = "none"
    /\ UNCHANGED <<stopped, messageCh, metrics, todo, waiting, client,
                   handler, held, free>>

(* Stop(): once only; the flags are set and stopCh is closed first.         *)
StopCall ==
    /\ MutexFree
    /\ running /\ ~stopped
    /\ running' = FALSE
    /\ stopped' = TRUE
    /\ op' = "stop"
    /\ todo' = Topics
    /\ UNCHANGED <<messageCh, metrics, waiting, client, goroutines>>

(* Unsubscribe: the client forgets the route and waits for the answer,      *)
StopUnsubscribe(topic) ==
    /\ op = "stop" /\ ack = "none"
    /\ topic \in todo
    /\ routes' = routes \ {topic}
    /\ todo' = todo \ {topic}
    /\ ack' = "due"
    /\ UNCHANGED <<forwarder, op, ahead, backlog, arrivals, goroutines>>

(* or the session is not connected and nothing is done; Stop ignores it.    *)
StopNotConnected(topic) ==
    /\ op = "stop" /\ ack = "none"
    /\ topic \in todo
    /\ todo' = todo \ {topic}
    /\ UNCHANGED <<forwarder, op, waiting, client, goroutines>>

(* Variant: Stop waits until the worker has ended.                          *)
StopJoinsWorker ==
    /\ op = "stop" /\ ack = "none" /\ todo = {} /\ Active = {}
    /\ op' = "none"
    /\ UNCHANGED <<forwarder, todo, waiting, client, goroutines>>

StopReturn ==
    /\ op = "stop" /\ ack = "none" /\ todo = {}
    /\ op' = "none"
    /\ UNCHANGED <<forwarder, todo, waiting, client, goroutines>>

-----------------------------------------------------------------------------
(* The broker acknowledges: the answer queues behind the messages.          *)
BrokerAnswers ==
    /\ ack = "due"
    /\ ack' = "sent"
    /\ ahead' = backlog
    /\ UNCHANGED <<forwarder, op, todo, client, goroutines>>

AckRead ==
    /\ ack = "sent" /\ ahead = 0
    /\ ack' = "none"
    /\ UNCHANGED <<forwarder, op, todo, ahead, client, goroutines>>

BrokerSends ==
    /\ routes # {} \/ ack = "due"
    /\ arrivals < MaxArrivals
    /\ backlog < MaxBacklog
    /\ arrivals' = arrivals + 1
    /\ backlog' = backlog + 1
    /\ UNCHANGED <<forwarder, mutex, routes, goroutines>>

(* The dispatcher takes the next message of the stream when it is free; one *)
(* whose topic has lost its route is nobody's.                              *)
Dispatch(routed) ==
    /\ handler = "idle"
    /\ backlog > 0
    /\ IF routed THEN routes # {} ELSE routes # Topics
    /\ handler' = IF routed THEN "entered" ELSE "idle"
    /\ backlog' = backlog - 1
    /\ ahead' = IF ahead > 0 THEN ahead - 1 ELSE 0
    /\ UNCHANGED <<forwarder, op, todo, ack, routes, arrivals, worker, held,
                   free>>

(* handleMessage: the flag is read under the read lock.                     *)
HandlerRefuses ==
    /\ handler = "entered"
    /\ MutexFree
    /\ stopped
    /\ dropped' = dropped + 1
    /\ refused' = refused + 1
    /\ handler' = "idle"
    /\ UNCHANGED <<config, messageCh, received, sent, failed, mutex, client,
                   worker, held, free>>

HandlerAccepts ==
    /\ handler = "entered"
    /\ MutexFree
    /\ ~stopped
    /\ received' = received + 1
    /\ \E o \in free : /\ held' = [held EXCEPT ![Dispatcher] = o]
                       /\ free' = free \ {o}
    /\ handler' = "send"
    /\ UNCHANGED <<config, messageCh, sent, dropped, failed, refused, mutex,
                   client, worker>>

(* Variant: the full channel is not noticed.                                *)
HandlerSendsAnyway ==
    /\ handler = "send"
    /\ messageCh' = Append(messageCh, held[Dispatcher])
    /\ held' = [held EXCEPT ![Dispatcher] = NoObject]
    /\ handler' = "idle"
    /\ UNCHANGED <<config, metrics, mutex, client, worker, free>>

(* Variant: a message that finds the channel full is dropped uncounted.     *)
HandlerDropsUncounted ==
    /\ handler = "send"
    /\ \/ /\ Len(messageCh) < BufferSize
          /\ messageCh' = Append(messageCh, held[Dispatcher])
          /\ UNCHANGED free
       \/ /\ Len(messageCh) = BufferSize
          /\ free' = free \cup {held[Dispatcher]}
          /\ UNCHANGED messageCh
    /\ held' = [held EXCEPT ![Dispatcher] = NoObject]
    /\ handler' = "idle"
    /\ UNCHANGED <<config, metrics, mutex, client, worker>>

(* Variant: a full channel makes room by losing its oldest message.         *)
HandlerReplacesOldest ==
    /\ handler = "send"
    /\ IF Len(messageCh) < BufferSize
         THEN /\ messageCh' = Append(messageCh, held[Dispatcher])
              /\ UNCHANGED <<dropped, free>>
         ELSE /\ messageCh' = Append(Tail(messageCh), held[Dispatcher])
              /\ dropped' = dropped + 1
              /\ free' = free \cup {Head(messageCh)}
    /\ held' = [held EXCEPT ![Dispatcher] = NoObject]
    /\ handler' = "idle"
    /\ UNCHANGED <<config, received, sent, failed, refused, mutex, client,
                   worker>>

(* The send that does not wait: with the lock released, a Stop may have     *)
(* come in between.                                                         *)
HandlerSends ==
    /\ handler = "send"
    /\ \/ /\ Len(messageCh) < BufferSize
          /\ messageCh' = Append(messageCh, held[Dispatcher])
          /\ UNCHANGED <<dropped, free>>
       \/ /\ Len(messageCh) = BufferSize
          /\ dropped' = dropped + 1
          /\ free' = free \cup {held[Dispatcher]}
          /\ UNCHANGED messageCh
    /\ held' = [held EXCEPT ![Dispatcher] = NoObject]
    /\ handler' = "idle"
    /\ UNCHANGED <<config, received, sent, failed, refused, mutex, client,
                   worker>>

-----------------------------------------------------------------------------
(* Variant: the stop signal is looked for only after a message came.        *)
WorkerStopsOnMessage(w) ==
    /\ worker[w] = "select"
    /\ stopped /\ messageCh # <<>>
    /\ worker' = [worker EXCEPT ![w] = "exited"]
    /\ UNCHANGED <<forwarder, mutex, client, handler, held, free>>

(* processMessages: select picks either ready branch.                       *)
WorkerStops(w) ==
    /\ worker[w] = "select"
    /\ stopped
    /\ worker' = [worker EXCEPT ![w] = "exited"]
    /\ UNCHANGED <<forwarder, mutex, client, handler, held, free>>

WorkerTakes(w) ==
    /\ worker[w] = "select"
    /\ messageCh # <<>>
    /\ held' = [held EXCEPT ![w] = Head(messageCh)]
    /\ messageCh' = Tail(messageCh)
    /\ worker' = [worker EXCEPT ![w] = "publish"]
    /\ UNCHANGED <<config, metrics, mutex, client, handler, free>>

(* Variant: the object goes back to the pool before its payload is used up. *)
WorkerPutsEarly(w) ==
    /\ worker[w] = "publish"
    /\ worker' = [worker EXCEPT ![w] = "record"]
    /\ free' = free \cup {held[w]}
    /\ UNCHANGED <<forwarder, mutex, client, handler, held>>

(* forwardMessage: PublishTo returns, and its outcome is recorded under     *)
(* sf.mu; the deferred PutMessage gives the object back.                    *)
WorkerPublishes(w) ==
    /\ worker[w] = "publish"
    /\ worker' = [worker EXCEPT ![w] = "record"]
    /\ UNCHANGED <<forwarder, mutex, client, handler, held, free>>

WorkerRecords(w, ok) ==
    /\ worker[w] = "record"
    /\ MutexFree
    /\ IF ok THEN sent' = sent + 1 /\ UNCHANGED failed
             ELSE failed' = failed + 1 /\ UNCHANGED sent
    /\ free' = free \cup {held[w]}
    /\ held' = [held EXCEPT ![w] = NoObject]
    /\ worker' = [worker EXCEPT ![w] = "select"]
    /\ UNCHANGED <<config, messageCh, received, dropped, refused, mutex,
                   client, handler>>

-----------------------------------------------------------------------------
Start ==
    \/ StartCall
    \/ \E topic \in Topics : StartSubscribe(topic)
    \/ StartFails
    \/ StartReturn

Stop ==
    \/ StopCall
    \/ \E topic \in Topics : StopUnsubscribe(topic) \/ StopNotConnected(topic)
    \/ StopReturn

HandleMessage == HandlerRefuses \/ HandlerAccepts \/ HandlerSends

Worker(w) ==
    \/ WorkerStops(w)
    \/ WorkerTakes(w)
    \/ WorkerPublishes(w)
    \/ \E ok \in BOOLEAN : WorkerRecords(w, ok)

Next ==
    \/ Start
    \/ Stop
    \/ BrokerAnswers
    \/ AckRead
    \/ BrokerSends
    \/ \E routed \in BOOLEAN : Dispatch(routed)
    \/ HandleMessage
    \/ \E w \in Workers : Worker(w)

Spec == Init /\ [][Next]_vars

(* Every goroutine that can run does, a broker that was asked answers, and  *)
(* a Stop that has begun goes on; nobody has to call anything and the       *)
(* broker does not have to send.                                            *)
FairSpec ==
    /\ Spec
    /\ WF_vars(\E topic \in Topics : StopUnsubscribe(topic))
    /\ WF_vars(StopReturn)
    /\ WF_vars(BrokerAnswers)
    /\ WF_vars(AckRead)
    /\ WF_vars(\E routed \in BOOLEAN : Dispatch(routed))
    /\ WF_vars(HandleMessage)
    /\ \A w \in Workers : WF_vars(Worker(w))

-----------------------------------------------------------------------------
TypeOK ==
    /\ running \in BOOLEAN /\ stopped \in BOOLEAN
    /\ messageCh \in Seq(Objects) /\ Len(messageCh) <= BufferSize
    /\ {received, sent, dropped, failed, refused} \subseteq Nat
    /\ op \in {"none", "start", "stop"}
    /\ todo \subseteq Topics
    /\ ack \in {"none", "due", "sent"}
    /\ ahead \in 0..MaxBacklog
    /\ routes \subseteq Topics
    /\ backlog \in 0..MaxBacklog
    /\ arrivals \in 0..MaxArrivals
    /\ handler \in {"idle", "entered", "send"}
    /\ worker \in [Workers -> {"unborn", "select", "publish", "record",
                               "exited"}]
    /\ held \in [Holders -> Objects \cup {NoObject}]
    /\ free \subseteq Objects

Holding == {h \in Holders : held[h] # NoObject}
Queued == {messageCh[i] : i \in 1..Len(messageCh)}

(* Every message received is sent, failed, dropped because the channel was  *)
(* full, waiting in the channel, or in the hands of one goroutine: the      *)
(* metrics lose none and count none twice (forwarder.go:132-207).           *)
Conservation ==
    received = sent + failed + (dropped - refused) + Len(messageCh)
                 + Cardinality(Holding)

(* A pooled object has one owner: the pool, one slot of the channel, the    *)
(* dispatcher or one worker.  An object with two would be overwritten while *)
(* it is being published (object_pool.go, forwarder.go:146-161).            *)
OneOwner ==
    /\ free \cap Queued = {}
    /\ \A i, j \in 1..Len(messageCh) : messageCh[i] = messageCh[j] => i = j
    /\ \A h \in Holding :
         /\ held[h] \notin free \cup Queued
         /\ \A g \in Holding \ {h} : held[g] # held[h]

(* Until it is stopped for the first time, a running forwarder has exactly  *)
(* one worker and one that is not has none.                                 *)
OneWorkerUntilStopped ==
    ~stopped => Cardinality(Active) = IF running THEN 1 ELSE 0

(* A message in front of the acknowledgement Stop waits for, while the      *)
(* dispatcher is in a handler that waits for the lock Stop holds, is never  *)
(* dispatched (forwarder.go:98-118, 134).                                   *)
Stuck == op = "stop" /\ handler = "entered" /\ ack = "sent" /\ ahead > 0

(* Stop "stops the forwarder" (forwarder.go:96): it returns, unless its     *)
(* acknowledgement is behind a message that waits for it.                   *)
StopReturnsUnlessBehind == op = "stop" ~> (op # "stop" \/ Stuck)

(* Once a Stop has returned, its worker ends, whatever is left in the       *)
(* channel, unless a later Start holds the lock.                            *)
WorkersEnd ==
    \A w \in Workers :
        stopped /\ op = "none" /\ w \in Active
            ~> (worker[w] = "exited" \/ op # "none")

(* However Start, Stop, the dispatcher and the workers interleave, what     *)
(* becomes of the messages handleMessage has accepted is what becomes of    *)
(* them in a bounded queue (forwarder.go:132-207).                          *)
Leaving == {held[w] : w \in Workers} \ {NoObject}

Queue == INSTANCE LossyQueue WITH
    Items <- Objects, Capacity <- BufferSize, NoItem <- NoObject,
    entering <- held[Dispatcher], queue <- messageCh,
    leaving <- Leaving,
    accepted <- received, lost <- dropped - refused, done <- sent + failed

ActsAsQueue == Queue!Spec

=============================================================================
