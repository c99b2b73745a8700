--------------------------- MODULE Forwarder_proofs ---------------------------
(***************************************************************************)
(* Proofs about the forwarder, for any topics, buffer size, pool and number*)
(* of workers: no pooled object has two owners, and every message received *)
(* is accounted for.                                                       *)
(***************************************************************************)
EXTENDS Forwarder, FiniteSetTheorems, TLAPS

(* Who holds an object follows from where he is in his code.                *)
HoldsWhenBusy ==
    /\ held[Dispatcher] # NoObject <=> handler = "send"
    /\ \A w \in Workers :
         held[w] # NoObject <=> worker[w] \in {"publish", "record"}

IInv == TypeOK /\ HoldsWhenBusy /\ OneOwner /\ Conservation

-----------------------------------------------------------------------------
(* The goroutine h takes one object up, or puts it down: one more or one    *)
(* fewer holds something.                                                   *)
LEMMA TakeUp ==
    ASSUME NEW h \in Holders, NEW o, o # NoObject, held[h] = NoObject,
           DOMAIN held = Holders, held' = [held EXCEPT ![h] = o]
    PROVE  /\ Holding' = Holding \cup {h}
           /\ Cardinality(Holding') = Cardinality(Holding) + 1
           /\ Cardinality(Holding) \in Nat
<1>1. IsFiniteSet(Holders)
  BY WorkersAssumption, FS_AddElement DEF Holders
<1>2. IsFiniteSet(Holding)
  BY <1>1, FS_Subset DEF Holding
<1>3. Holding' = Holding \cup {h}
  BY DEF Holding
<1>4. h \notin Holding
  BY DEF Holding
<1>5. QED
  BY <1>2, <1>3, <1>4, FS_AddElement, FS_CardinalityType

LEMMA PutDown ==
    ASSUME NEW h \in Holders, held[h] # NoObject,
           DOMAIN held = Holders, held' = [held EXCEPT ![h] = NoObject]
    PROVE  /\ Holding' = Holding \ {h}
           /\ Cardinality(Holding') = Cardinality(Holding) - 1
           /\ Cardinality(Holding) \in Nat
<1>1. IsFiniteSet(Holders)
  BY WorkersAssumption, FS_AddElement DEF Holders
<1>2. IsFiniteSet(Holding)
  BY <1>1, FS_Subset DEF Holding
<1>3. Holding' = Holding \ {h}
  BY DEF Holding
<1>4. h \in Holding
  BY DEF Holding
<1>5. QED
  BY <1>2, <1>3, <1>4, FS_RemoveElement, FS_CardinalityType

(* A step that moves no object and counts no message.                       *)
LEMMA NothingMoves ==
    ASSUME IInv, UNCHANGED <<messageCh, held, free, metrics>>
    PROVE  OneOwner' /\ Conservation'
<1>1. Holding' = Holding /\ Queued' = Queued
  BY DEF Holding, Queued
<1>2. OneOwner'
  BY <1>1 DEF IInv, OneOwner
<1>3. Conservation'
  BY <1>1 DEF IInv, Conservation, metrics
<1>4. QED
  BY <1>2, <1>3

LEMMA InitIInv == Init => IInv
<1> SUFFICES ASSUME Init PROVE IInv
  OBVIOUS
<1>1. TypeOK
  <2>1. messageCh \in Seq(Objects) /\ Len(messageCh) <= BufferSize
    BY BufferAssumption DEF Init
  <2>2. /\ worker \in [Workers -> {"unborn", "select", "publish", "record",
                                   "exited"}]
        /\ held \in [Holders -> Objects \cup {NoObject}]
    BY DEF Init
  <2>3. /\ ahead \in 0..MaxBacklog /\ backlog \in 0..MaxBacklog
        /\ arrivals \in 0..MaxArrivals
    BY BoundsAssumption DEF Init
  <2>4. {received, sent, dropped, failed, refused} \subseteq Nat
    BY DEF Init
  <2>5. QED
    BY <2>1, <2>2, <2>3, <2>4 DEF Init, TypeOK
<1>2. HoldsWhenBusy
  BY WorkersAssumption DEF Init, HoldsWhenBusy, Holders
<1>3. Holding = {} /\ Queued = {}
  BY DEF Init, Holding, Queued
<1>4. OneOwner
  BY <1>3 DEF Init, OneOwner
<1>5. Conservation
  BY <1>3, FS_EmptySet DEF Init, Conservation
<1>6. QED
  BY <1>1, <1>2, <1>4, <1>5 DEF IInv

-----------------------------------------------------------------------------
LEMMA NextTypeOK == TypeOK /\ HoldsWhenBusy /\ [Next]_vars => TypeOK'
<1> SUFFICES ASSUME TypeOK, HoldsWhenBusy, [Next]_vars PROVE TypeOK'
  OBVIOUS
<1> USE DEF TypeOK
<1>1. CASE Start
  <2>1. CASE StartCall
    BY <2>1
    DEF StartCall, forwarder, config, metrics, waiting, client, goroutines
  <2>2. ASSUME NEW topic \in Topics, StartSubscribe(topic) PROVE TypeOK'
    BY <2>2 DEF StartSubscribe, forwarder, config, metrics, goroutines
  <2>3. CASE StartFails
    BY <2>3 DEF StartFails, forwarder, config, metrics, client, goroutines
  <2>4. CASE StartReturn
    BY <2>4 DEF StartReturn, Unborn, metrics, waiting, client
  <2>5. QED
    BY <1>1, <2>1, <2>2, <2>3, <2>4 DEF Start
<1>2. CASE Stop
  <2>1. CASE StopCall
    BY <2>1 DEF StopCall, metrics, waiting, client, goroutines
  <2>2. ASSUME NEW topic \in Topics, StopUnsubscribe(topic) PROVE TypeOK'
    BY <2>2 DEF StopUnsubscribe, forwarder, config, metrics, goroutines
  <2>3. ASSUME NEW topic \in Topics, StopNotConnected(topic) PROVE TypeOK'
    BY <2>3 DEF StopNotConnected, forwarder, config, metrics, waiting, client,
                goroutines
  <2>4. CASE StopReturn
    BY <2>4 DEF StopReturn, forwarder, config, metrics, waiting, client,
                goroutines
  <2>5. QED
    BY <1>2, <2>1, <2>2, <2>3, <2>4 DEF Stop
<1>3. CASE BrokerAnswers
  BY <1>3 DEF BrokerAnswers, forwarder, config, metrics, client, goroutines
<1>4. CASE AckRead
  BY <1>4 DEF AckRead, forwarder, config, metrics, client, goroutines
<1>5. CASE BrokerSends
  BY <1>5, BoundsAssumption
     DEF BrokerSends, forwarder, config, metrics, mutex, waiting, goroutines
<1>6. ASSUME NEW routed \in BOOLEAN, Dispatch(routed) PROVE TypeOK'
  BY <1>6, BoundsAssumption DEF Dispatch, forwarder, config, metrics
<1>7. CASE HandleMessage
  <2>1. CASE HandlerRefuses
    BY <2>1 DEF HandlerRefuses, config, mutex, waiting, client
  <2>2. CASE HandlerAccepts
    BY <2>2 DEF HandlerAccepts, config, mutex, waiting, client, Holders
  <2>3. CASE HandlerSends
    <3>1. held[Dispatcher] \in Objects
      BY <2>3 DEF HandlerSends, HoldsWhenBusy, Holders
    <3>2. messageCh' \in Seq(Objects) /\ Len(messageCh') <= BufferSize
      <4>1. CASE Len(messageCh) < BufferSize
        <5>1. messageCh' = Append(messageCh, held[Dispatcher])
          BY <2>3, <4>1, BufferAssumption DEF HandlerSends
        <5>2. QED
          BY <3>1, <4>1, <5>1, BufferAssumption
      <4>2. CASE Len(messageCh) = BufferSize
        BY <2>3, <4>2, BufferAssumption DEF HandlerSends
      <4>3. QED
        BY <4>1, <4>2, BufferAssumption
    <3>3. QED
      BY <2>3, <3>1, <3>2
         DEF HandlerSends, config, mutex, waiting, client, Holders
  <2>4. QED
    BY <1>7, <2>1, <2>2, <2>3 DEF HandleMessage
<1>8. ASSUME NEW w \in Workers, Worker(w) PROVE TypeOK'
  <2>1. CASE WorkerStops(w)
    BY <2>1 DEF WorkerStops, forwarder, config, metrics, mutex, waiting, client
  <2>2. CASE WorkerTakes(w)
    <3>1. /\ Head(messageCh) \in Objects /\ Tail(messageCh) \in Seq(Objects)
          /\ Len(Tail(messageCh)) <= BufferSize
      BY <2>2, BufferAssumption DEF WorkerTakes
    <3>2. QED
      BY <2>2, <3>1 DEF WorkerTakes, config, metrics, mutex, waiting, client
  <2>3. CASE WorkerPublishes(w)
    BY <2>3 DEF WorkerPublishes, forwarder, config, metrics, mutex, waiting,
                client
  <2>4. ASSUME NEW ok \in BOOLEAN, WorkerRecords(w, ok) PROVE TypeOK'
    <3>1. held[w] \in Objects
      BY <2>4 DEF WorkerRecords, HoldsWhenBusy, Holders
    <3>2. free' \subseteq Objects
      BY <2>4, <3>1 DEF WorkerRecords
    <3>3. sent' \in Nat /\ failed' \in Nat
      BY <2>4 DEF WorkerRecords
    <3>4. /\ worker' \in [Workers -> {"unborn", "select", "publish", "record",
                                      "exited"}]
          /\ held' \in [Holders -> Objects \cup {NoObject}]
      BY <2>4 DEF WorkerRecords
    <3>5. QED
      BY <2>4, <3>2, <3>3, <3>4
         DEF WorkerRecords, config, mutex, waiting, client
  <2>5. QED
    BY <1>8, <2>1, <2>2, <2>3, <2>4 DEF Worker
<1>9. CASE UNCHANGED vars
  BY <1>9 DEF vars, forwarder, config, metrics, mutex, waiting, client,
              goroutines
<1>10. QED
  BY <1>1, <1>2, <1>3, <1>4, <1>5, <1>6, <1>7, <1>8, <1>9 DEF Next

LEMMA NextHoldsWhenBusy ==
    TypeOK /\ HoldsWhenBusy /\ [Next]_vars => HoldsWhenBusy'
<1> SUFFICES ASSUME TypeOK, HoldsWhenBusy, [Next]_vars PROVE HoldsWhenBusy'
  OBVIOUS
<1> USE ObjectsAssumption, WorkersAssumption DEF TypeOK, HoldsWhenBusy, Holders
<1>1. CASE Start
  BY <1>1 DEF Start, StartCall, StartSubscribe, StartFails, StartReturn,
              Unborn, goroutines
<1>2. CASE Stop
  BY <1>2 DEF Stop, StopCall, StopUnsubscribe, StopNotConnected, StopReturn,
              goroutines
<1>3. CASE BrokerAnswers \/ AckRead \/ BrokerSends
  BY <1>3 DEF BrokerAnswers, AckRead, BrokerSends, goroutines
<1>4. ASSUME NEW routed \in BOOLEAN, Dispatch(routed) PROVE HoldsWhenBusy'
  BY <1>4 DEF Dispatch
<1>5. CASE HandlerRefuses
  BY <1>5 DEF HandlerRefuses
<1>6. CASE HandlerAccepts
  BY <1>6 DEF HandlerAccepts
<1>7. CASE HandlerSends
  BY <1>7 DEF HandlerSends
<1>8. ASSUME NEW w \in Workers, Worker(w) PROVE HoldsWhenBusy'
  <2>1. CASE WorkerStops(w)
    BY <2>1 DEF WorkerStops
  <2>2. CASE WorkerTakes(w)
    <3>1. Head(messageCh) \in Objects
      BY <2>2 DEF WorkerTakes
    <3>2. QED
      BY <2>2, <3>1 DEF WorkerTakes
  <2>3. CASE WorkerPublishes(w)
    BY <2>3 DEF WorkerPublishes
  <2>4. ASSUME NEW ok \in BOOLEAN, WorkerRecords(w, ok) PROVE HoldsWhenBusy'
    BY <2>4 DEF WorkerRecords
  <2>5. QED
    BY <1>8, <2>1, <2>2, <2>3, <2>4 DEF Worker
<1>9. CASE UNCHANGED vars
  BY <1>9 DEF vars, goroutines
<1>10. QED
  BY <1>1, <1>2, <1>3, <1>4, <1>5, <1>6, <1>7, <1>8, <1>9
     DEF Next, HandleMessage

-----------------------------------------------------------------------------
(* The four steps that move an object or count a message.                   *)
LEMMA AcceptMoves ==
    ASSUME IInv, HandlerAccepts
    PROVE  OneOwner' /\ Conservation'
<1> USE DEF IInv
<1>1. PICK o \in free : /\ held' = [held EXCEPT ![Dispatcher] = o]
                        /\ free' = free \ {o}
  BY DEF HandlerAccepts
<1>2. /\ Dispatcher \in Holders /\ DOMAIN held = Holders
      /\ o # NoObject /\ held[Dispatcher] = NoObject
  BY <1>1, ObjectsAssumption DEF HandlerAccepts, HoldsWhenBusy, TypeOK, Holders
<1>3. /\ Holding' = Holding \cup {Dispatcher}
      /\ Cardinality(Holding') = Cardinality(Holding) + 1
      /\ Cardinality(Holding) \in Nat
  BY <1>1, <1>2, TakeUp
<1>4. Queued' = Queued /\ messageCh' = messageCh
  BY DEF HandlerAccepts, Queued
<1>5. OneOwner'
  <2>1. \A h \in Holding : h # Dispatcher /\ held'[h] = held[h]
    BY <1>1, <1>2 DEF Holding
  <2>2. held'[Dispatcher] = o
    BY <1>1, <1>2
  <2>3. o \notin Queued /\ \A h \in Holding : held[h] # o
    BY <1>1 DEF OneOwner
  <2>4. QED
    BY <1>1, <1>3, <1>4, <2>1, <2>2, <2>3 DEF OneOwner
<1>6. Conservation'
  <2>1. /\ received \in Nat /\ sent \in Nat /\ dropped \in Nat
        /\ failed \in Nat /\ refused \in Nat /\ Len(messageCh) \in Nat
    BY DEF TypeOK
  <2>2. /\ received' = received + 1 /\ Len(messageCh') = Len(messageCh)
        /\ UNCHANGED <<sent, dropped, failed, refused>>
    BY <1>4 DEF HandlerAccepts
  <2>3. QED
    BY <1>3, <2>1, <2>2 DEF Conservation
<1>7. QED
  BY <1>5, <1>6

LEMMA SendMoves ==
    ASSUME IInv, HandlerSends
    PROVE  OneOwner' /\ Conservation'
<1> USE DEF IInv
<1> DEFINE o == held[Dispatcher]
<1>1. /\ Dispatcher \in Holding /\ DOMAIN held = Holders
      /\ o \in Objects /\ o # NoObject
      /\ held' = [held EXCEPT ![Dispatcher] = NoObject]
  BY DEF HandlerSends, HoldsWhenBusy, TypeOK, Holders, Holding
<1>2. /\ Holding' = Holding \ {Dispatcher}
      /\ Cardinality(Holding') = Cardinality(Holding) - 1
      /\ Cardinality(Holding) \in Nat
  BY <1>1, PutDown DEF Holding
<1>3. \A h \in Holding' : h \in Holding /\ held'[h] = held[h] /\ held[h] # o
  <2>1. TAKE h \in Holding'
  <2>2. h \in Holding /\ h # Dispatcher /\ h \in Holders
    BY <1>2 DEF Holding
  <2>3. QED
    BY <1>1, <2>2 DEF OneOwner
<1>4. o \notin free \cup Queued
  BY <1>1 DEF OneOwner
<1>n. /\ received \in Nat /\ sent \in Nat /\ dropped \in Nat
      /\ failed \in Nat /\ refused \in Nat /\ Len(messageCh) \in Nat
      /\ UNCHANGED <<received, sent, failed, refused>>
  BY DEF HandlerSends, TypeOK
<1>5. CASE Len(messageCh) < BufferSize
  <2>1. messageCh' = Append(messageCh, o) /\ UNCHANGED <<dropped, free>>
    BY <1>5, BufferAssumption DEF HandlerSends
  <2>2. /\ Len(messageCh') = Len(messageCh) + 1
        /\ Len(messageCh) \in Nat
        /\ \A i \in 1..Len(messageCh) : messageCh'[i] = messageCh[i]
        /\ messageCh'[Len(messageCh) + 1] = o
    BY <1>1, <2>1 DEF TypeOK
  <2>3. Queued' = Queued \cup {o}
    BY <2>2 DEF Queued
  <2>4. \A i, j \in 1..Len(messageCh') : messageCh'[i] = messageCh'[j] => i = j
    <3>1. \A i \in 1..Len(messageCh) : messageCh[i] # o
      BY <1>4 DEF Queued
    <3>2. QED
      BY <2>2, <3>1 DEF OneOwner
  <2>5. OneOwner'
    BY <1>3, <1>4, <2>1, <2>3, <2>4 DEF OneOwner
  <2>6. Conservation'
    <3>1. Len(messageCh') + Cardinality(Holding')
              = Len(messageCh) + Cardinality(Holding)
      BY <1>2, <1>n, <2>2
    <3>2. Len(messageCh') \in Int /\ Cardinality(Holding') \in Int
      BY <1>2, <2>2
    <3>3. dropped' = dropped
      BY <2>1
    <3> HIDE DEF o
    <3>4. QED
      BY <1>2, <1>n, <3>1, <3>2, <3>3 DEF Conservation
  <2>7. QED
    BY <2>5, <2>6
<1>6. CASE Len(messageCh) = BufferSize
  <2>1. /\ messageCh' = messageCh
        /\ dropped' = dropped + 1
        /\ free' = free \cup {o}
    BY <1>6, BufferAssumption DEF HandlerSends
  <2>2. Queued' = Queued
    BY <2>1 DEF Queued
  <2>3. OneOwner'
    BY <1>3, <1>4, <2>1, <2>2 DEF OneOwner
  <2>4. Conservation'
    <3>1. Len(messageCh') = Len(messageCh) /\ dropped' = dropped + 1
      BY <2>1
    <3> HIDE DEF o
    <3>2. QED
      BY <1>2, <1>n, <3>1 DEF Conservation
  <2>5. QED
    BY <2>3, <2>4
<1>7. QED
  BY <1>5, <1>6, BufferAssumption DEF HandlerSends

LEMMA TakeMoves ==
    ASSUME IInv, NEW w \in Workers, WorkerTakes(w)
    PROVE  OneOwner' /\ Conservation'
<1> USE DEF IInv
<1> DEFINE o == Head(messageCh)
<1>1. /\ messageCh' = Tail(messageCh)
      /\ Len(messageCh) \in Nat \ {0}
      /\ Len(messageCh') = Len(messageCh) - 1
      /\ o = messageCh[1] /\ o \in Objects
      /\ \A i \in 1..Len(messageCh') : messageCh'[i] = messageCh[i + 1]
  BY DEF WorkerTakes, TypeOK
<1>2. /\ w \in Holders /\ DOMAIN held = Holders
      /\ o # NoObject /\ held[w] = NoObject
      /\ held' = [held EXCEPT ![w] = o]
  BY <1>1, ObjectsAssumption DEF WorkerTakes, HoldsWhenBusy, TypeOK, Holders
<1>3. /\ Holding' = Holding \cup {w}
      /\ Cardinality(Holding') = Cardinality(Holding) + 1
      /\ Cardinality(Holding) \in Nat
  <2> HIDE DEF o
  <2>1. QED
    BY <1>2, TakeUp
<1>4. Queued' \subseteq Queued /\ o \in Queued /\ o \notin Queued'
  <2>1. Queued' \subseteq Queued /\ o \in Queued
    BY <1>1 DEF Queued
  <2>2. \A i \in 1..Len(messageCh') : messageCh'[i] # o
    <3>1. TAKE i \in 1..Len(messageCh')
    <3>2. i + 1 \in 1..Len(messageCh) /\ 1 \in 1..Len(messageCh) /\ i + 1 # 1
      BY <1>1
    <3>3. messageCh[i + 1] # messageCh[1]
      BY <3>2 DEF OneOwner
    <3>4. QED
      BY <1>1, <3>3
  <2>3. QED
    BY <2>1, <2>2 DEF Queued
<1>5. \A i, j \in 1..Len(messageCh') : messageCh'[i] = messageCh'[j] => i = j
  <2>1. TAKE i, j \in 1..Len(messageCh')
  <2>2. HAVE messageCh'[i] = messageCh'[j]
  <2>3. i + 1 \in 1..Len(messageCh) /\ j + 1 \in 1..Len(messageCh)
    BY <1>1
  <2>4. messageCh[i + 1] = messageCh[j + 1]
    BY <1>1, <2>2
  <2>5. i + 1 = j + 1
    BY <2>3, <2>4 DEF OneOwner
  <2>6. QED
    BY <2>5
<1>6. OneOwner'
  <2> HIDE DEF o
  <2>1. \A h \in Holding : h # w /\ held'[h] = held[h]
    BY <1>2 DEF Holding
  <2>2. held'[w] = o
    BY <1>2
  <2>3. o \notin free /\ \A h \in Holding : held[h] # o
    BY <1>4 DEF OneOwner
  <2>4. free' = free
    BY DEF WorkerTakes
  <2>5. QED
    BY <1>3, <1>4, <1>5, <2>1, <2>2, <2>3, <2>4 DEF OneOwner
<1>7. Conservation'
  <2>1. /\ UNCHANGED metrics
        /\ {received, sent, dropped, failed, refused} \subseteq Nat
    BY DEF WorkerTakes, TypeOK
  <2>2. /\ received \in Nat /\ sent \in Nat /\ dropped \in Nat
        /\ failed \in Nat /\ refused \in Nat
    BY <2>1
  <2>3. Len(messageCh') + Cardinality(Holding')
            = Len(messageCh) + Cardinality(Holding)
    BY <1>1, <1>3
  <2>4. Len(messageCh') \in Int /\ Cardinality(Holding') \in Int
    BY <1>1, <1>3
  <2> HIDE DEF o
  <2>5. QED
    BY <1>1, <1>3, <2>1, <2>2, <2>3, <2>4 DEF metrics, Conservation
<1>8. QED
  BY <1>6, <1>7

LEMMA RecordMoves ==
    ASSUME IInv, NEW w \in Workers, NEW ok \in BOOLEAN, WorkerRecords(w, ok)
    PROVE  OneOwner' /\ Conservation'
<1> USE DEF IInv
<1>1. /\ w \in Holding /\ w \in Holders /\ DOMAIN held = Holders
      /\ held[w] # NoObject
      /\ held' = [held EXCEPT ![w] = NoObject]
      /\ free' = free \cup {held[w]}
      /\ UNCHANGED messageCh
  BY DEF WorkerRecords, HoldsWhenBusy, TypeOK, Holders, Holding
<1>2. /\ Holding' = Holding \ {w}
      /\ Cardinality(Holding') = Cardinality(Holding) - 1
      /\ Cardinality(Holding) \in Nat
  BY <1>1, PutDown
<1>3. Queued' = Queued
  BY <1>1 DEF Queued
<1>4. \A h \in Holding' : h \in Holding /\ held'[h] = held[h]
                                      /\ held[h] # held[w]
  <2>1. TAKE h \in Holding'
  <2>2. h \in Holding /\ h # w /\ h \in Holders
    BY <1>2 DEF Holding
  <2>3. QED
    BY <1>1, <2>2 DEF OneOwner
<1>5. OneOwner'
  BY <1>1, <1>3, <1>4 DEF OneOwner
<1>6. Conservation'
  <2>1. /\ received \in Nat /\ sent \in Nat /\ dropped \in Nat
        /\ failed \in Nat /\ refused \in Nat
        /\ Len(messageCh) \in Nat
    BY DEF TypeOK
  <2>2. UNCHANGED <<received, dropped, refused, messageCh>>
    BY DEF WorkerRecords
  <2>3. CASE ok
    <3>1. sent' = sent + 1 /\ failed' = failed
      BY <2>3 DEF WorkerRecords
    <3>2. QED
      BY <1>2, <2>1, <2>2, <3>1 DEF Conservation
  <2>4. CASE ~ok
    <3>1. sent' = sent /\ failed' = failed + 1
      BY <2>4 DEF WorkerRecords
    <3>2. QED
      BY <1>2, <2>1, <2>2, <3>1 DEF Conservation
  <2>5. QED
    BY <2>3, <2>4
<1>7. QED
  BY <1>5, <1>6

-----------------------------------------------------------------------------
LEMMA NextIInv == IInv /\ [Next]_vars => IInv'
<1> SUFFICES ASSUME IInv, [Next]_vars PROVE OneOwner' /\ Conservation'
  BY NextTypeOK, NextHoldsWhenBusy DEF IInv
<1>1. CASE Start
  <2>1. UNCHANGED <<messageCh, held, free, metrics>>
    BY <1>1 DEF Start, StartCall, StartSubscribe, StartFails, StartReturn,
                forwarder, goroutines
  <2>2. QED
    BY <2>1, NothingMoves
<1>2. CASE Stop
  <2>1. UNCHANGED <<messageCh, held, free, metrics>>
    BY <1>2 DEF Stop, StopCall, StopUnsubscribe, StopNotConnected, StopReturn,
                forwarder, goroutines
  <2>2. QED
    BY <2>1, NothingMoves
<1>3. CASE BrokerAnswers \/ AckRead \/ BrokerSends
  <2>1. UNCHANGED <<messageCh, held, free, metrics>>
    BY <1>3 DEF BrokerAnswers, AckRead, BrokerSends, forwarder, goroutines
  <2>2. QED
    BY <2>1, NothingMoves
<1>4. ASSUME NEW routed \in BOOLEAN, Dispatch(routed)
      PROVE  OneOwner' /\ Conservation'
  <2>1. UNCHANGED <<messageCh, held, free, metrics>>
    BY <1>4 DEF Dispatch, forwarder
  <2>2. QED
    BY <2>1, NothingMoves
<1>5. CASE HandleMessage
  <2>1. CASE HandlerRefuses
    <3>1. Holding' = Holding /\ Queued' = Queued
      BY <2>1 DEF HandlerRefuses, Holding, Queued
    <3>2. OneOwner'
      BY <2>1, <3>1 DEF HandlerRefuses, IInv, OneOwner
    <3>3. dropped' - refused' = dropped - refused
      BY <2>1 DEF HandlerRefuses, IInv, TypeOK
    <3>4. Conservation'
      BY <2>1, <3>1, <3>3 DEF HandlerRefuses, IInv, Conservation
    <3>5. QED
      BY <3>2, <3>4
  <2>2. QED
    BY <1>5, <2>1, AcceptMoves, SendMoves DEF HandleMessage
<1>6. ASSUME NEW w \in Workers, Worker(w)
      PROVE  OneOwner' /\ Conservation'
  <2>1. CASE WorkerStops(w) \/ WorkerPublishes(w)
    <3>1. UNCHANGED <<messageCh, held, free, metrics>>
      BY <2>1 DEF WorkerStops, WorkerPublishes, forwarder
    <3>2. QED
      BY <3>1, NothingMoves
  <2>2. QED
    BY <1>6, <2>1, TakeMoves, RecordMoves DEF Worker
<1>7. CASE UNCHANGED vars
  <2>1. UNCHANGED <<messageCh, held, free, metrics>>
    BY <1>7 DEF vars, forwarder, goroutines
  <2>2. QED
    BY <2>1, NothingMoves
<1>8. QED
  BY <1>1, <1>2, <1>3, <1>4, <1>5, <1>6, <1>7 DEF Next

(* The forwarder's state keeps its shape; the channel never exceeds its     *)
(* buffer.                                                                  *)
THEOREM TypeCorrect == Spec => []TypeOK
<1>1. Init => IInv
  BY InitIInv
<1>2. IInv /\ [Next]_vars => IInv'
  BY NextIInv
<1>3. IInv => TypeOK
  BY DEF IInv
<1>4. QED
  BY <1>1, <1>2, <1>3, PTL DEF Spec

(* A pooled message object has one owner at any time, however Start, Stop,  *)
(* the dispatcher and the workers interleave (forwarder.go:132-207).        *)
THEOREM Ownership == Spec => []OneOwner
<1>1. Init => IInv
  BY InitIInv
<1>2. IInv /\ [Next]_vars => IInv'
  BY NextIInv
<1>3. IInv => OneOwner
  BY DEF IInv
<1>4. QED
  BY <1>1, <1>2, <1>3, PTL DEF Spec

(* The metrics account for every message received, whatever fails, is       *)
(* dropped or is left behind by a Stop (forwarder.go:132-207).              *)
THEOREM Accounting == Spec => []Conservation
<1>1. Init => IInv
  BY InitIInv
<1>2. IInv /\ [Next]_vars => IInv'
  BY NextIInv
<1>3. IInv => Conservation
  BY DEF IInv
<1>4. QED
  BY <1>1, <1>2, <1>3, PTL DEF Spec

-----------------------------------------------------------------------------
(* The four steps that move an object are steps of the queue; the others    *)
(* leave it alone.                                                          *)
LEMMA Unmoved ==
    ASSUME UNCHANGED <<messageCh, held, received, sent, failed>>,
           dropped' - refused' = dropped - refused
    PROVE  UNCHANGED Queue!qvars
BY DEF Queue!qvars, Leaving

LEMMA AcceptMaps ==
    ASSUME IInv, HandlerAccepts
    PROVE  Queue!Accept
<1>1. PICK o \in free : held' = [held EXCEPT ![Dispatcher] = o]
  BY DEF HandlerAccepts
<1>2. /\ Dispatcher \in Holders /\ DOMAIN held = Holders
      /\ \A w \in Workers : w # Dispatcher /\ w \in Holders
      /\ held[Dispatcher] = NoObject /\ o \in Objects
  BY <1>1, WorkersAssumption
     DEF HandlerAccepts, IInv, HoldsWhenBusy, TypeOK, Holders
<1>3. held'[Dispatcher] = o /\ Leaving' = Leaving
  BY <1>1, <1>2 DEF Leaving
<1>4. o \notin Queued
  BY DEF IInv, OneOwner
<1>5. o \notin Leaving
  <2>1. \A w \in Workers : held[w] # NoObject => held[w] # o
    BY <1>2 DEF IInv, OneOwner, Holding
  <2>2. QED
    BY <2>1 DEF Leaving
<1>6. UNCHANGED <<messageCh, sent, dropped, failed, refused>>
      /\ received' = received + 1
  BY DEF HandlerAccepts
<1>7. QED
  BY <1>2, <1>3, <1>4, <1>5, <1>6 DEF Queue!Accept, Queue!Inside, Queued

LEMMA SendMaps ==
    ASSUME IInv, HandlerSends
    PROVE  Queue!Join \/ Queue!Lose
<1>1. /\ Dispatcher \in Holders /\ DOMAIN held = Holders
      /\ \A w \in Workers : w # Dispatcher /\ w \in Holders
      /\ held[Dispatcher] # NoObject
  BY WorkersAssumption DEF HandlerSends, IInv, HoldsWhenBusy, TypeOK, Holders
<1>2. held'[Dispatcher] = NoObject /\ Leaving' = Leaving
  BY <1>1 DEF HandlerSends, Leaving
<1>3. UNCHANGED <<received, sent, failed, refused>>
      /\ dropped \in Nat /\ refused \in Nat
  BY DEF HandlerSends, IInv, TypeOK
<1>4. CASE Len(messageCh) < BufferSize
  <2>1. messageCh' = Append(messageCh, held[Dispatcher]) /\ UNCHANGED dropped
    BY <1>4, BufferAssumption DEF HandlerSends
  <2>2. QED
    BY <1>1, <1>2, <1>3, <1>4, <2>1 DEF Queue!Join
<1>5. CASE Len(messageCh) = BufferSize
  <2>1. UNCHANGED messageCh /\ dropped' = dropped + 1
    BY <1>5, BufferAssumption DEF HandlerSends
  <2>2. dropped' - refused' = (dropped - refused) + 1
    BY <1>3, <2>1
  <2>3. QED
    BY <1>1, <1>2, <1>3, <1>5, <2>1, <2>2 DEF Queue!Lose
<1>6. QED
  BY <1>4, <1>5 DEF HandlerSends

LEMMA TakeMaps ==
    ASSUME IInv, NEW w \in Workers, WorkerTakes(w)
    PROVE  Queue!Take
<1> DEFINE o == Head(messageCh)
<1>1. messageCh # <<>> /\ messageCh' = Tail(messageCh)
      /\ held' = [held EXCEPT ![w] = o] /\ o \in Objects
  BY DEF WorkerTakes, IInv, TypeOK
<1>2. /\ w \in Holders /\ DOMAIN held = Holders /\ w # Dispatcher
      /\ \A v \in Workers : v \in Holders
      /\ o # NoObject /\ held[w] = NoObject
  BY <1>1, ObjectsAssumption, WorkersAssumption
     DEF WorkerTakes, IInv, HoldsWhenBusy, TypeOK, Holders
<1> HIDE DEF o
<1>3. held'[w] = o /\ \A v \in Workers \ {w} : held'[v] = held[v]
  BY <1>1, <1>2
<1>4. Leaving' = Leaving \cup {o}
  BY <1>2, <1>3 DEF Leaving
<1>5. held'[Dispatcher] = held[Dispatcher]
  BY <1>1, <1>2 DEF Holders
<1>6. UNCHANGED <<received, sent, dropped, failed, refused>>
  BY DEF WorkerTakes, metrics
<1>7. QED
  BY <1>1, <1>4, <1>5, <1>6 DEF Queue!Take, o

LEMMA RecordMaps ==
    ASSUME IInv, NEW w \in Workers, NEW ok \in BOOLEAN, WorkerRecords(w, ok)
    PROVE  Queue!Finish
<1> DEFINE o == held[w]
<1>1. /\ w \in Holders /\ DOMAIN held = Holders /\ w # Dispatcher
      /\ Dispatcher \in Holders /\ \A v \in Workers : v \in Holders
      /\ o # NoObject /\ held' = [held EXCEPT ![w] = NoObject]
  BY WorkersAssumption
     DEF WorkerRecords, IInv, HoldsWhenBusy, TypeOK, Holders
<1>2. \A v \in Workers \ {w} : held'[v] = held[v] /\ held[v] # o
  BY <1>1 DEF IInv, OneOwner, Holding
<1>3. held'[w] = NoObject /\ held'[Dispatcher] = held[Dispatcher]
  BY <1>1
<1>4. o \in Leaving /\ Leaving' = Leaving \ {o}
  BY <1>1, <1>2, <1>3 DEF Leaving
<1>5. UNCHANGED <<messageCh, received, dropped, refused>>
  BY DEF WorkerRecords
<1>6. sent' + failed' = (sent + failed) + 1
  <2>1. sent \in Nat /\ failed \in Nat
    BY DEF IInv, TypeOK
  <2>2. \/ sent' = sent + 1 /\ failed' = failed
        \/ sent' = sent /\ failed' = failed + 1
    BY DEF WorkerRecords
  <2>3. QED
    BY <2>1, <2>2
<1>7. QED
  BY <1>3, <1>4, <1>5, <1>6 DEF Queue!Finish

LEMMA NextMaps == IInv /\ [Next]_vars => [Queue!Next]_(Queue!qvars)
<1> SUFFICES ASSUME IInv, [Next]_vars, ~UNCHANGED Queue!qvars
             PROVE  Queue!Next
  OBVIOUS
<1>1. CASE Start \/ Stop \/ BrokerAnswers \/ AckRead \/ BrokerSends
  <2>1. UNCHANGED <<messageCh, held, received, sent, dropped, failed, refused>>
    BY <1>1 DEF Start, StartCall, StartSubscribe, StartFails, StartReturn,
                Stop, StopCall, StopUnsubscribe, StopNotConnected, StopReturn,
                BrokerAnswers, AckRead, BrokerSends, forwarder, goroutines,
                metrics
  <2>2. QED
    BY <2>1, Unmoved
<1>2. ASSUME NEW routed \in BOOLEAN, Dispatch(routed) PROVE Queue!Next
  BY <1>2, Unmoved DEF Dispatch, forwarder, metrics
<1>3. CASE HandleMessage
  <2>1. CASE HandlerRefuses
    <3>1. dropped' - refused' = dropped - refused
      BY <2>1 DEF HandlerRefuses, IInv, TypeOK
    <3>2. QED
      BY <2>1, <3>1, Unmoved DEF HandlerRefuses
  <2>2. QED
    BY <1>3, <2>1, AcceptMaps, SendMaps DEF HandleMessage, Queue!Next
<1>4. ASSUME NEW w \in Workers, Worker(w) PROVE Queue!Next
  <2>1. CASE WorkerStops(w) \/ WorkerPublishes(w)
    BY <2>1, Unmoved DEF WorkerStops, WorkerPublishes, forwarder, metrics
  <2>2. QED
    BY <1>4, <2>1, TakeMaps, RecordMaps DEF Worker, Queue!Next
<1>5. CASE UNCHANGED vars
  BY <1>5, Unmoved DEF vars, forwarder, goroutines, metrics
<1>6. QED
  BY <1>1, <1>2, <1>3, <1>4, <1>5 DEF Next

(* A forwarder is a bounded queue in order, and loses a message only when   *)
(* it enters a full one, whatever its callers, the broker and the scheduler *)
(* do (forwarder.go:132-207).                                               *)
THEOREM ForwarderIsQueue == Spec => ActsAsQueue
<1>1. Init => IInv
  BY InitIInv
<1>2. IInv /\ [Next]_vars => IInv'
  BY NextIInv
<1>3. Init => Queue!Init
  <2> SUFFICES ASSUME Init PROVE Queue!Init
    OBVIOUS
  <2>1. Leaving = {} /\ held[Dispatcher] = NoObject
    BY WorkersAssumption DEF Init, Leaving, Holders
  <2>2. messageCh = <<>> /\ received = 0
    BY DEF Init
  <2>3. dropped - refused = 0 /\ sent + failed = 0
    BY DEF Init
  <2>4. QED
    BY <2>1, <2>2, <2>3 DEF Queue!Init
<1>4. IInv /\ [Next]_vars => [Queue!Next]_(Queue!qvars)
  BY NextMaps
<1>5. QED
  BY <1>1, <1>2, <1>3, <1>4, PTL DEF Spec, ActsAsQueue, Queue!Spec

-----------------------------------------------------------------------------
(* A Start under way has found the forwarder not running, and holds the lock*)
(* so that nobody else can start it; a worker ends only when stopped is set.*)
OneWorker ==
    /\ op = "start" => ~running
    /\ ~stopped => IF running THEN \E w \in Workers : Active = {w}
                              ELSE Active = {}

LEMMA NextOneWorker ==
    ASSUME TypeOK, OneWorker, [Next]_vars
    PROVE  OneWorker'
<1> USE DEF OneWorker
<1>1. CASE StartCall \/ StartFails
  BY <1>1 DEF StartCall, StartFails, MutexFree, Active, forwarder, config,
              goroutines
<1>2. ASSUME NEW topic \in Topics, StartSubscribe(topic) PROVE OneWorker'
  BY <1>2 DEF StartSubscribe, Active, forwarder, config, goroutines
<1>3. CASE StartReturn
  <2>1. PICK w \in Unborn : worker' = [worker EXCEPT ![w] = "select"]
    BY <1>3 DEF StartReturn
  <2>2. w \in Workers /\ DOMAIN worker = Workers
    BY <2>1 DEF Unborn, TypeOK
  <2>3. Active' = Active \cup {w}
    BY <2>1, <2>2 DEF Active
  <2>4. QED
    BY <1>3, <2>2, <2>3 DEF StartReturn
<1>4. CASE Stop
  BY <1>4 DEF Stop, StopCall, StopUnsubscribe, StopNotConnected, StopReturn,
              MutexFree, forwarder, config, goroutines, Active
<1>5. CASE BrokerAnswers \/ AckRead \/ BrokerSends \/ HandleMessage
  BY <1>5 DEF BrokerAnswers, AckRead, BrokerSends, HandleMessage,
              HandlerRefuses, HandlerAccepts, HandlerSends, mutex, forwarder,
              config, goroutines, Active
<1>6. ASSUME NEW routed \in BOOLEAN, Dispatch(routed) PROVE OneWorker'
  BY <1>6 DEF Dispatch, Active, forwarder, config
<1>7. ASSUME NEW w \in Workers, Worker(w) PROVE OneWorker'
  <2>1. CASE WorkerStops(w)
    BY <2>1 DEF WorkerStops, forwarder, config, mutex
  <2>2. CASE ~WorkerStops(w)
    <3>1. UNCHANGED <<running, stopped, op>>
      BY <1>7, <2>2 DEF Worker, WorkerTakes, WorkerPublishes, WorkerRecords,
                        forwarder, config, mutex
    <3>2. worker[w] \in {"select", "publish", "record"}
          /\ worker' \in {[worker EXCEPT ![w] = "select"],
                          [worker EXCEPT ![w] = "publish"],
                          [worker EXCEPT ![w] = "record"]}
      BY <1>7, <2>2 DEF Worker, WorkerTakes, WorkerPublishes, WorkerRecords
    <3>3. Active' = Active
      BY <3>2 DEF Active, TypeOK
    <3>4. QED
      BY <3>1, <3>3
  <2>3. QED
    BY <2>1, <2>2
<1>8. CASE UNCHANGED vars
  BY <1>8 DEF vars, forwarder, config, mutex, goroutines, Active
<1>9. QED
  BY <1>1, <1>2, <1>3, <1>4, <1>5, <1>6, <1>7, <1>8 DEF Next, Start

(* Until it is stopped for the first time a forwarder has one worker while  *)
(* it runs and none before, whoever starts it and however often             *)
(* (forwarder.go:66-94, 165-177).                                           *)
THEOREM OneWorkerAtMost == Spec => []OneWorkerUntilStopped
<1>1. Init => TypeOK /\ OneWorker
  BY InitIInv DEF IInv, Init, OneWorker, Active
<1>2. OneWorker /\ TypeOK /\ [Next]_vars => OneWorker'
  BY NextOneWorker
<1>3. OneWorker => OneWorkerUntilStopped
  <2> SUFFICES ASSUME OneWorker, ~stopped
               PROVE  Cardinality(Active) = IF running THEN 1 ELSE 0
    BY DEF OneWorkerUntilStopped
  <2>1. CASE running
    BY <2>1, FS_Singleton DEF OneWorker
  <2>2. CASE ~running
    BY <2>2, FS_EmptySet DEF OneWorker
  <2>3. QED
    BY <2>1, <2>2
<1>4. Spec => []TypeOK
  BY TypeCorrect
<1>5. QED
  BY <1>1, <1>2, <1>3, <1>4, PTL DEF Spec

=============================================================================
