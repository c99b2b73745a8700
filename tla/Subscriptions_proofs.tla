------------------------ MODULE Subscriptions_proofs ------------------------
(***************************************************************************)
(* The invariants of Subscriptions, for any topics, threads and options.   *)
(***************************************************************************)
EXTENDS Subscriptions, TLAPS

-----------------------------------------------------------------------------
(* A call on a topic has not been recorded yet, or is being saved.          *)
AskingPcs == {"send", "sent", "answered", "failed", "record"}
SavingPcs == {"collect", "write"}
Pcs == AskingPcs \cup SavingPcs
         \cup {"idle", "next", "restore", "load", "close"}
Ops == {"none", "subscribe", "unsubscribe", "connect", "lost", "disconnect"}

(* A topic to subscribe, and whose handler it is to have.                   *)
Subscription == [topic : Topics, by : {"user", "stub"}]

Goroutines == [pc : Pcs, op : Ops,
               topic : {{}} \cup {{x} : x \in Topics}, by : Handlers,
               tries : Nat, snapshot : SUBSET Topics,
               todo : SUBSET Subscription]

Shapes ==
    /\ options \in OptionSets
    /\ handlers \in [Topics -> Handlers] /\ routes \in [Topics -> Handlers]
    /\ stored.topics \subseteq Topics
    /\ thread \in [Threads -> Goroutines]

(* Where a goroutine has a topic or a list of them to subscribe.            *)
OpFits(t) ==
    /\ t.topic # {} => /\ t.pc \in AskingPcs \cup SavingPcs
                       /\ t.op \in {"subscribe", "unsubscribe"}
    /\ t.pc \in AskingPcs => t.topic # {}
    /\ t.pc = "send" => t.op = "subscribe"
    /\ t.op = "subscribe" => t.by # "none"
    /\ t.op = "unsubscribe" => t.by = "none"
    /\ t.todo # {} => /\ t.pc \in AskingPcs \cup SavingPcs \cup {"next"}
                      /\ t.op # "disconnect"

OpsFit == \A t \in Threads : OpFits(thread[t])

Structure == Shapes /\ OpsFit

-----------------------------------------------------------------------------
(* The broker holds x, or forgot it with the connection.                    *)
Held(x) == x \in broker \/ options.clean
Backed(x) == handlers[x] # "none" => Held(x)
Agrees(x) == handlers[x] = routes[x] /\ Backed(x)

(* How far the only call on x has come.                                     *)
CallFits(t, x) ==
    /\ t.pc \in {"sent", "answered", "record"} => routes[x] = t.by
    /\ t.pc \in {"answered", "record"} /\ t.by # "none" => Held(x)
    /\ \/ t.pc \in {"send", "sent"}
       \/ t.pc = "failed" /\ t.op = "subscribe"
      => Backed(x)
    /\ t.pc \in SavingPcs => Agrees(x)

Concerns(t, x) == thread[t].topic = {x}

TopicFits(x) ==
    x \notin doubtful =>
        /\ \A t, u \in Threads : Concerns(t, x) /\ Concerns(u, x) => t = u
        /\ \A t \in Threads : Concerns(t, x) => CallFits(thread[t], x)
        /\ (\A t \in Threads : ~Concerns(t, x)) => Agrees(x)

TopicsFit == \A x \in Topics : TopicFits(x)

-----------------------------------------------------------------------------
(* A topic of the options is subscribed again by whoever has subscribed it  *)
(* with a stub.                                                             *)
Mine(x) == [topic |-> x, by |-> "user"]
Stub(x) == [topic |-> x, by |-> "stub"]

Subscribes(t, x, handler) ==
    t.topic = {x} /\ t.by = handler /\ t.pc \in AskingPcs

Restores(t, x) == Mine(x) \in t.todo \/ Subscribes(t, x, "user")

StubFits(t, x) ==
    Stub(x) \in t.todo \/ Subscribes(t, x, "stub") => Mine(x) \in t.todo

PresetFits(x) ==
    /\ \A t \in Threads : StubFits(thread[t], x)
    /\ x \notin doubtful /\ handlers[x] = "stub"
         => \E t \in Threads : Restores(thread[t], x)

PresetsFit == \A x \in Preset : PresetFits(x)

IInv == Structure /\ TopicsFit /\ PresetsFit

-----------------------------------------------------------------------------
LEMMA TopicIs ==
    ASSUME NEW x, NEW y
    PROVE  {x} # {} /\ ({x} = {y} <=> x = y)
  OBVIOUS

LEMMA IdleFits == Idle \in Goroutines /\ OpFits(Idle)
  BY DEF Idle, Goroutines, OpFits, Pcs, Ops, AskingPcs, SavingPcs, Handlers

LEMMA InitIInv == Init => IInv
<1> SUFFICES ASSUME Init PROVE IInv
  OBVIOUS
<1>1. Structure
  BY IdleFits DEF Init, Structure, Shapes, OpsFit, Handlers, Absent
<1>2. TopicsFit
  BY TopicIs DEF Init, TopicsFit, TopicFits, Concerns, Idle, Agrees, Backed
<1>3. PresetsFit
  BY TopicsAssumption
  DEF Init, PresetsFit, PresetFits, StubFits, Subscribes, Idle, AskingPcs
<1> QED
  BY <1>1, <1>2, <1>3 DEF IInv

-----------------------------------------------------------------------------
(* The threads: one of them steps, or all requests on their way fail.       *)
Lone(t) ==
    /\ thread' \in [Threads -> Goroutines]
    /\ OpFits(thread'[t])
    /\ \A u \in Threads \ {t} : thread'[u] = thread[u]

LEMMA BecomesLone ==
    ASSUME Structure, NEW t \in Threads, NEW u \in Goroutines, OpFits(u),
           thread' = [thread EXCEPT ![t] = u]
    PROVE  Lone(t) /\ thread'[t] = u
  BY DEF Structure, Shapes, Lone

(* The steps of a call on a topic, from its first attempt to its save.      *)
Acts(t) ==
    \/ SubscribeSends(t) \/ AttemptFails(t) \/ BrokerTakes(t)
    \/ BrokerRefuses(t) \/ AnswerRead(t) \/ Record(t) \/ Collect(t) \/ Write(t)

(* How it ends: the topic is left, the list is kept.                        *)
LEMMA EndedIs ==
    ASSUME Structure, NEW t \in Threads,
           thread[t].pc \in AskingPcs \cup SavingPcs
    PROVE  /\ Ended(t) \in Goroutines /\ OpFits(Ended(t))
           /\ Ended(t).topic = {} /\ Ended(t).todo = thread[t].todo
           /\ Ended(t).pc \in {"idle", "next", "close"}
<1>1. thread[t] \in Goroutines /\ OpFits(thread[t])
  BY DEF Structure, Shapes, OpsFit
<1> USE DEF AskingPcs, SavingPcs
<1>2. CASE thread[t].op = "disconnect"
  <2>1. Ended(t) = [thread[t] EXCEPT !.pc = "close"]
    BY <1>2 DEF Ended
  <2>2. Ended(t) \in Goroutines
    BY <1>1, <2>1 DEF Goroutines, Pcs
  <2>3. /\ Ended(t).topic = thread[t].topic /\ Ended(t).pc = "close"
        /\ Ended(t).todo = thread[t].todo /\ Ended(t).op = "disconnect"
    BY <1>1, <1>2, <2>1 DEF Goroutines
  <2> QED
    BY <1>1, <1>2, <2>2, <2>3 DEF OpFits
<1>3. CASE thread[t].op # "disconnect" /\ thread[t].todo = {}
  BY <1>3, IdleFits DEF Ended, Idle
<1>4. CASE thread[t].op # "disconnect" /\ thread[t].todo # {}
  <2>1. Ended(t) = [Idle EXCEPT !.pc = "next", !.todo = thread[t].todo]
    BY <1>4 DEF Ended
  <2>2. Ended(t) \in Goroutines
    BY <1>1, <2>1, IdleFits DEF Goroutines, Pcs
  <2>3. /\ Ended(t).topic = {} /\ Ended(t).pc = "next"
        /\ Ended(t).todo = thread[t].todo /\ Ended(t).op = "none"
    BY <2>1 DEF Idle
  <2> QED
    BY <1>4, <2>2, <2>3 DEF OpFits
<1> QED
  BY <1>2, <1>3, <1>4

LEMMA RecordedIs ==
    ASSUME Structure, NEW t \in Threads, thread[t].pc = "record"
    PROVE  /\ Recorded(t) \in Goroutines /\ OpFits(Recorded(t))
           /\ Recorded(t).topic \in {thread[t].topic, {}}
           /\ Recorded(t).todo = thread[t].todo
           /\ Recorded(t).pc \notin AskingPcs
           /\ Recorded(t).topic # {} => /\ Recorded(t).pc \in SavingPcs
                                        /\ Recorded(t).by = thread[t].by
<1> USE DEF AskingPcs, SavingPcs
<1>1. thread[t] \in Goroutines /\ OpFits(thread[t])
  BY DEF Structure, Shapes, OpsFit
<1>2. CASE options.persistent
  <2>1. Recorded(t) = [thread[t] EXCEPT !.pc = "collect"]
    BY <1>2 DEF Recorded
  <2> QED
    BY <1>1, <2>1 DEF Goroutines, Pcs, OpFits
<1>3. CASE ~options.persistent
  BY <1>3, EndedIs DEF Recorded
<1> QED
  BY <1>2, <1>3

LEMMA ActsThread ==
    ASSUME Structure, NEW t \in Threads, Acts(t)
    PROVE  /\ Lone(t) /\ thread[t].pc \in AskingPcs \cup SavingPcs
           /\ thread'[t].topic \in {thread[t].topic, {}}
           /\ thread'[t].topic # {} => thread'[t].by = thread[t].by
           /\ thread'[t].todo = thread[t].todo
<1> DEFINE u == thread[t]
           Goal == /\ Lone(t) /\ u.pc \in AskingPcs \cup SavingPcs
                   /\ thread'[t].topic \in {u.topic, {}}
                   /\ thread'[t].topic # {} => thread'[t].by = u.by
                   /\ thread'[t].todo = u.todo
<1> USE DEF AskingPcs, SavingPcs
<1>1. u \in Goroutines /\ OpFits(u)
  BY DEF Structure, Shapes, OpsFit
<1>2. ASSUME NEW pc \in AskingPcs \ {"send"}, u.pc \in AskingPcs,
             thread' = [thread EXCEPT ![t].pc = pc]
      PROVE  Goal
  <2>1. [u EXCEPT !.pc = pc] \in Goroutines
    BY <1>1 DEF Goroutines, Pcs
  <2>2. OpFits([u EXCEPT !.pc = pc])
    BY <1>1, <1>2 DEF OpFits, Goroutines
  <2>3. thread' = [thread EXCEPT ![t] = [u EXCEPT !.pc = pc]]
    BY <1>2
  <2>4. /\ [u EXCEPT !.pc = pc].topic = u.topic
        /\ [u EXCEPT !.pc = pc].by = u.by
        /\ [u EXCEPT !.pc = pc].todo = u.todo
    BY <1>1 DEF Goroutines
  <2> QED
    BY <1>2, <2>1, <2>2, <2>3, <2>4, BecomesLone
<1>3. CASE SubscribeSends(t) \/ BrokerTakes(t) \/ BrokerRefuses(t)
             \/ AnswerRead(t)
  BY <1>2, <1>3 DEF SubscribeSends, BrokerTakes, BrokerRefuses, AnswerRead
<1>4. CASE AttemptFails(t)
  <2>1. u.pc \in {"send", "failed"}
    BY <1>4 DEF AttemptFails
  <2>2. CASE /\ u.op = "subscribe"
             /\ thread' = [thread EXCEPT ![t].pc = "send", ![t].tries = @ + 1]
    <3> DEFINE v == [u EXCEPT !.pc = "send", !.tries = @ + 1]
    <3>1. v \in Goroutines
      <4>1. u.tries + 1 \in Nat
        BY <1>1 DEF Goroutines
      <4>2. v = [u EXCEPT !.pc = "send", !.tries = u.tries + 1]
        BY <1>1 DEF Goroutines
      <4> QED
        BY <1>1, <4>1, <4>2 DEF Goroutines, Pcs
    <3>2. OpFits(v) /\ v.topic = u.topic /\ v.by = u.by /\ v.todo = u.todo
      BY <1>1, <2>1, <2>2 DEF OpFits, Goroutines
    <3>3. thread' = [thread EXCEPT ![t] = v]
      BY <2>2
    <3> HIDE DEF v
    <3> QED
      BY <2>1, <3>1, <3>2, <3>3, BecomesLone
  <2>3. CASE thread' = [thread EXCEPT ![t] = Ended(t)]
    BY <2>1, <2>3, EndedIs, BecomesLone
  <2> QED
    BY <1>4, <2>2, <2>3 DEF AttemptFails
<1>5. CASE Record(t)
  BY <1>5, RecordedIs, BecomesLone DEF Record
<1>6. CASE Collect(t)
  <2> DEFINE v == [u EXCEPT !.pc = "write", !.snapshot = Registered]
  <2>1. u.pc = "collect" /\ thread' = [thread EXCEPT ![t] = v]
    BY <1>6 DEF Collect
  <2>2. v \in Goroutines
    BY <1>1 DEF Goroutines, Pcs, Registered
  <2>3. OpFits(v) /\ v.topic = u.topic /\ v.by = u.by /\ v.todo = u.todo
    BY <1>1, <2>1 DEF OpFits, Goroutines
  <2> HIDE DEF v
  <2> QED
    BY <2>1, <2>2, <2>3, BecomesLone
<1>7. CASE Write(t)
  BY <1>7, EndedIs, BecomesLone DEF Write
<1> QED
  BY <1>3, <1>4, <1>5, <1>6, <1>7 DEF Acts

(* A call begins, or a list goes on.                                        *)
Begins(t, x, rest) ==
    \/ CallSubscribe(t, x) /\ rest = {}
    \/ CallUnsubscribe(t, x) /\ rest = {}
    \/ \E s \in Due(t) : /\ x = s.topic /\ rest = thread[t].todo \ {s}
                         /\ thread[t].pc = "next"
                         /\ BeginSubscribe(t, x, s.by, rest)
                         /\ UNCHANGED <<options, status, handlers, routes,
                                        broker, stored, bounds>>

LEMMA BeginsThread ==
    ASSUME Structure, NEW t \in Threads, NEW x \in Topics,
           NEW rest \in SUBSET Subscription, Begins(t, x, rest)
    PROVE  /\ Lone(t) /\ thread[t].topic = {}
           /\ thread'[t].topic = {x} /\ thread'[t].todo = rest
           /\ \/ thread'[t].pc = "send" /\ routes' = routes
              \/ /\ thread'[t].pc = "sent" /\ thread'[t].by = "none"
                 /\ routes' = [routes EXCEPT ![x] = "none"]
           /\ OnTopic(x) # {} => x \in doubtful'
           /\ doubtful \subseteq doubtful'
<1>1. thread[t] \in Goroutines /\ OpFits(thread[t])
  BY DEF Structure, Shapes, OpsFit
<1>2. ASSUME NEW handler \in {"user", "stub"},
             BeginSubscribe(t, x, handler, rest)
      PROVE  /\ Lone(t) /\ thread'[t].topic = {x} /\ thread'[t].todo = rest
             /\ thread'[t].pc = "send"
  <2> DEFINE v == [Idle EXCEPT !.pc = "send", !.op = "subscribe",
                               !.topic = {x}, !.by = handler, !.tries = 1,
                               !.todo = rest]
  <2>1. thread' = [thread EXCEPT ![t] = v]
    BY <1>2 DEF BeginSubscribe
  <2>2. v \in Goroutines
    BY IdleFits DEF Goroutines, Pcs, Ops, AskingPcs, Handlers
  <2>3. OpFits(v) /\ v.topic = {x} /\ v.todo = rest /\ v.pc = "send"
    BY DEF Idle, OpFits, AskingPcs
  <2> HIDE DEF v
  <2> QED
    BY <2>1, <2>2, <2>3, BecomesLone
<1>3. CASE CallSubscribe(t, x) /\ rest = {}
  <2>1. thread[t].topic = {}
    BY <1>3 DEF CallSubscribe, Idle
  <2> QED
    BY <1>2, <1>3, <2>1 DEF CallSubscribe, BeginSubscribe
<1>4. CASE CallUnsubscribe(t, x) /\ rest = {}
  <2> DEFINE v == [Idle EXCEPT !.pc = "sent", !.op = "unsubscribe",
                               !.topic = {x}]
  <2>1. /\ thread' = [thread EXCEPT ![t] = v] /\ thread[t].topic = {}
        /\ doubtful' = IF OnTopic(x) = {} THEN doubtful ELSE doubtful \cup {x}
    BY <1>4 DEF CallUnsubscribe, Idle
  <2>2. v \in Goroutines
    BY IdleFits DEF Goroutines, Pcs, Ops, AskingPcs
  <2>3. /\ OpFits(v) /\ v.topic = {x} /\ v.todo = {} /\ v.pc = "sent"
        /\ v.by = "none"
    BY DEF Idle, OpFits, AskingPcs
  <2> HIDE DEF v
  <2>4. routes' = [routes EXCEPT ![x] = "none"] /\ rest = {}
    BY <1>4 DEF CallUnsubscribe
  <2> QED
    BY <2>1, <2>2, <2>3, <2>4, BecomesLone
<1>5. ASSUME NEW s \in Due(t), x = s.topic, rest = thread[t].todo \ {s},
             thread[t].pc = "next", BeginSubscribe(t, x, s.by, rest),
             routes' = routes
      PROVE  /\ Lone(t) /\ thread[t].topic = {}
             /\ thread'[t].topic = {x} /\ thread'[t].todo = rest
             /\ thread'[t].pc = "send" /\ routes' = routes
             /\ OnTopic(x) # {} => x \in doubtful'
             /\ doubtful \subseteq doubtful'
  <2>1. s \in thread[t].todo
    BY <1>5 DEF Due
  <2>2. s.by \in {"user", "stub"}
    BY <1>1, <2>1 DEF Goroutines, Subscription
  <2>3. thread[t].topic = {}
    BY <1>1, <1>5 DEF OpFits, AskingPcs, SavingPcs
  <2> QED
    BY <1>2, <1>5, <2>2, <2>3 DEF BeginSubscribe
<1> QED
  BY <1>3, <1>4, <1>5 DEF Begins

-----------------------------------------------------------------------------
(* A goroutine beside thread t: its request may fail with the connection.   *)
Stays(u) ==
    /\ thread'[u] \in Goroutines /\ OpFits(thread'[u])
    /\ thread'[u].topic = thread[u].topic /\ thread'[u].op = thread[u].op
    /\ thread'[u].by = thread[u].by /\ thread'[u].todo = thread[u].todo
    /\ \/ thread'[u].pc = thread[u].pc
       \/ InFlight(u) /\ thread'[u].pc = "failed"

(* Thread t has no topic in hand, before and after, and no list before.     *)
Aside(t) ==
    /\ thread' \in [Threads -> Goroutines]
    /\ OpFits(thread'[t])
    /\ thread[t].topic = {} /\ thread'[t].topic = {}
    /\ thread[t].todo = {}
    /\ thread'[t].todo # {} => \A x \in Preset : Mine(x) \in thread'[t].todo
    /\ \A u \in Threads \ {t} : Stays(u)

Passes(t) ==
    \/ Connected(t) \/ ConnectionLost(t) \/ LoadState(t)
    \/ CallDisconnect(t) \/ Close(t) \/ RestoreState(t)
    \/ SubscribeNext(t) /\ thread[t].todo = {}

LEMMA LoneStays ==
    ASSUME Structure, NEW t \in Threads, Lone(t)
    PROVE  \A u \in Threads \ {t} : Stays(u)
  BY DEF Structure, Shapes, OpsFit, Lone, Stays

LEMMA LoneAside ==
    ASSUME Structure, NEW t \in Threads, Lone(t),
           thread[t].topic = {}, thread[t].todo = {},
           thread'[t].topic = {}, thread'[t].todo = {}
    PROVE  Aside(t)
  BY LoneStays DEF Lone, Aside

LEMMA CutOffAside ==
    ASSUME Structure, NEW t \in Threads, NEW v \in Goroutines, OpFits(v),
           thread[t].topic = {}, thread[t].todo = {},
           v.topic = {}, v.todo = {},
           thread' = [CutOff(thread) EXCEPT ![t] = v]
    PROVE  Aside(t)
<1> USE DEF Structure, Shapes, OpsFit
<1>1. ASSUME NEW u \in Threads
      PROVE  LET w == CutOff(thread)[u]
             IN  /\ w \in Goroutines /\ OpFits(w)
                 /\ w.topic = thread[u].topic /\ w.op = thread[u].op
                 /\ w.by = thread[u].by /\ w.todo = thread[u].todo
                 /\ \/ w.pc = thread[u].pc
                    \/ InFlight(u) /\ w.pc = "failed"
  <2> DEFINE w == CutOff(thread)[u]
  <2>1. thread[u] \in Goroutines /\ OpFits(thread[u])
    OBVIOUS
  <2>2. CASE InFlight(u)
    <3>1. w = [thread[u] EXCEPT !.pc = "failed"]
      BY <2>2 DEF CutOff
    <3>2. w \in Goroutines
      BY <2>1, <3>1 DEF Goroutines, Pcs, AskingPcs
    <3>3. /\ w.pc = "failed" /\ w.topic = thread[u].topic
          /\ w.op = thread[u].op /\ w.by = thread[u].by
          /\ w.todo = thread[u].todo
      BY <2>1, <3>1 DEF Goroutines
    <3>4. OpFits(w)
      BY <2>1, <2>2, <3>3 DEF OpFits, InFlight, AskingPcs
    <3> QED
      BY <2>2, <3>2, <3>3, <3>4
  <2>3. CASE ~InFlight(u)
    <3>1. w = thread[u]
      BY <2>3 DEF CutOff
    <3> QED
      BY <2>1, <3>1
  <2> QED
    BY <2>2, <2>3
<1>2. /\ DOMAIN CutOff(thread) = Threads
      /\ CutOff(thread) \in [Threads -> Goroutines]
  BY <1>1 DEF CutOff
<1>3. /\ thread' \in [Threads -> Goroutines] /\ thread'[t] = v
      /\ \A u \in Threads \ {t} : thread'[u] = CutOff(thread)[u]
  BY <1>2
<1>4. \A u \in Threads \ {t} : Stays(u)
  BY <1>1, <1>3 DEF Stays
<1> QED
  BY <1>3, <1>4 DEF Aside

LEMMA PassesAside ==
    ASSUME Structure, NEW t \in Threads, Passes(t)
    PROVE  Aside(t)
<1>1. thread[t] \in Goroutines /\ OpFits(thread[t])
  BY DEF Structure, Shapes, OpsFit
<1>2. Idle.topic = {} /\ Idle.todo = {}
  BY DEF Idle
<1>3. CASE thread' = [thread EXCEPT ![t] = Idle] /\ thread[t].topic = {}
             /\ thread[t].todo = {}
  <2>1. Lone(t) /\ thread'[t] = Idle
    BY <1>3, IdleFits, BecomesLone
  <2> QED
    BY <1>2, <1>3, <2>1, LoneAside
<1>4. CASE Connected(t)
  <2> DEFINE v == [Idle EXCEPT !.pc = "restore", !.op = "connect"]
  <2>1. thread' = [thread EXCEPT ![t] = v] /\ thread[t] = Idle
    BY <1>4 DEF Connected
  <2>2. v \in Goroutines
    BY IdleFits DEF Goroutines, Pcs, Ops
  <2>3. OpFits(v) /\ v.topic = {} /\ v.todo = {}
    BY DEF Idle, OpFits, AskingPcs
  <2> HIDE DEF v
  <2>4. Lone(t) /\ thread'[t] = v
    BY <2>1, <2>2, <2>3, BecomesLone
  <2> QED
    BY <1>2, <2>1, <2>3, <2>4, LoneAside
<1>5. CASE CallDisconnect(t)
  <2> DEFINE pc == IF options.persistent /\ status = "Connected"
                     THEN "collect" ELSE "close"
             v == [Idle EXCEPT !.op = "disconnect", !.pc = pc]
  <2>1. thread' = [thread EXCEPT ![t] = v] /\ thread[t] = Idle
    BY <1>5 DEF CallDisconnect
  <2>2. pc \in {"collect", "close"}
    OBVIOUS
  <2> HIDE DEF pc
  <2>3. v \in Goroutines
    BY <2>2, IdleFits DEF Goroutines, Pcs, Ops, SavingPcs
  <2>4. OpFits(v) /\ v.topic = {} /\ v.todo = {}
    BY <2>2 DEF Idle, OpFits, AskingPcs
  <2> HIDE DEF v
  <2>5. Lone(t) /\ thread'[t] = v
    BY <2>1, <2>3, <2>4, BecomesLone
  <2> QED
    BY <1>2, <2>1, <2>4, <2>5, LoneAside
<1>6. CASE ConnectionLost(t)
  <2> DEFINE v == [Idle EXCEPT !.pc = "load", !.op = "lost"]
  <2>1. thread[t] = Idle
    BY <1>6 DEF ConnectionLost
  <2>2. CutOff(thread)[t] = Idle
    BY <2>1 DEF CutOff, InFlight, Idle
  <2>3. thread' = [CutOff(thread) EXCEPT ![t] = v]
    BY <1>6, <2>2 DEF ConnectionLost
  <2>4. v \in Goroutines
    BY IdleFits DEF Goroutines, Pcs, Ops
  <2>5. OpFits(v) /\ v.topic = {} /\ v.todo = {}
    BY DEF Idle, OpFits, AskingPcs
  <2> HIDE DEF v
  <2> QED
    BY <1>2, <2>1, <2>3, <2>4, <2>5, CutOffAside
<1>7. CASE LoadState(t)
  <2>1. thread[t].pc = "load" /\ thread[t].topic = {} /\ thread[t].todo = {}
    BY <1>1, <1>7 DEF LoadState, OpFits, AskingPcs, SavingPcs
  <2> DEFINE v == [thread[t] EXCEPT !.pc = "write",
                                    !.snapshot = stored.topics]
  <2>2. CASE thread' = [thread EXCEPT ![t].pc = "write",
                                      ![t].snapshot = stored.topics]
    <3>1. thread' = [thread EXCEPT ![t] = v]
      BY <2>2
    <3>2. v \in Goroutines
      BY <1>1 DEF Structure, Shapes, Goroutines, Pcs, SavingPcs
    <3>3. OpFits(v) /\ v.topic = {} /\ v.todo = {}
      BY <1>1, <2>1 DEF Goroutines, OpFits, AskingPcs, SavingPcs
    <3> HIDE DEF v
    <3>4. Lone(t) /\ thread'[t] = v
      BY <3>1, <3>2, <3>3, BecomesLone
    <3> QED
      BY <2>1, <3>3, <3>4, LoneAside
  <2> QED
    BY <1>3, <1>7, <2>1, <2>2 DEF LoadState
<1>8. CASE Close(t)
  <2>1. thread[t].topic = {} /\ thread[t].todo = {}
    BY <1>1, <1>8 DEF Close, OpFits, AskingPcs, SavingPcs
  <2> QED
    BY <1>2, <1>8, <2>1, IdleFits, CutOffAside DEF Close
<1>9. CASE RestoreState(t)
  <2> DEFINE preset == {[topic |-> x, by |-> "user"] : x \in Preset}
             stubs == {[topic |-> x, by |-> "stub"] : x \in stored.topics}
  <2>1. thread[t].topic = {} /\ thread[t].todo = {}
    BY <1>1, <1>9 DEF RestoreState, OpFits, AskingPcs, SavingPcs
  <2>2. preset \subseteq Subscription /\ stubs \subseteq Subscription
    BY TopicsAssumption DEF Subscription, Structure, Shapes
  <2>3. PICK list \in {preset, stubs \cup preset} :
           thread' = [thread EXCEPT
                        ![t] = [Idle EXCEPT !.pc = "next", !.todo = list]]
    BY <1>9 DEF RestoreState
  <2>4. list \subseteq Subscription /\ \A x \in Preset : Mine(x) \in list
    BY <2>2, <2>3 DEF Mine
  <2> DEFINE v == [Idle EXCEPT !.pc = "next", !.todo = list]
  <2> HIDE DEF preset, stubs
  <2>5. v \in Goroutines
    BY <2>4, IdleFits DEF Goroutines, Pcs
  <2>6. OpFits(v) /\ v.topic = {} /\ v.todo = list
    BY DEF Idle, OpFits, AskingPcs, SavingPcs
  <2>7. thread' = [thread EXCEPT ![t] = v]
    BY <2>3
  <2> HIDE DEF v
  <2>8. Lone(t) /\ thread'[t] = v
    BY <2>5, <2>6, <2>7, BecomesLone
  <2> QED
    BY <2>1, <2>4, <2>6, <2>8, LoneStays DEF Lone, Aside
<1>10. CASE SubscribeNext(t) /\ thread[t].todo = {}
  <2>1. thread[t].topic = {}
    BY <1>1, <1>10 DEF SubscribeNext, OpFits, AskingPcs, SavingPcs
  <2>2. Due(t) = {}
    BY <1>10 DEF Due
  <2> QED
    BY <1>3, <1>10, <2>1, <2>2 DEF SubscribeNext
<1> QED
  BY <1>4, <1>5, <1>6, <1>7, <1>8, <1>9, <1>10 DEF Passes

-----------------------------------------------------------------------------
LEMMA NextCases ==
    ASSUME Structure, Next
    PROVE  \/ \E t \in Threads : Acts(t) \/ Passes(t)
           \/ \E t \in Threads, x \in Topics, rest \in SUBSET Subscription :
                Begins(t, x, rest)
           \/ Restart
<1> DEFINE Goal == \/ \E t \in Threads : Acts(t) \/ Passes(t)
                   \/ \E t \in Threads, x \in Topics,
                         rest \in SUBSET Subscription : Begins(t, x, rest)
                   \/ Restart
<1>1. ASSUME NEW t \in Callers, Call(t) PROVE Goal
  <2>1. t \in Threads /\ {} \in SUBSET Subscription
    BY DEF Threads
  <2>2. ASSUME NEW x \in Topics, CallSubscribe(t, x) \/ CallUnsubscribe(t, x)
        PROVE  Goal
    <3>1. Begins(t, x, {})
      BY <2>2 DEF Begins
    <3> QED
      BY <2>1, <3>1
  <2>3. CASE CallDisconnect(t)
    BY <2>1, <2>3 DEF Passes
  <2> QED
    BY <1>1, <2>2, <2>3 DEF Call
<1>2. ASSUME NEW t \in Callbacks, Callback(t) PROVE Goal
  BY <1>2 DEF Callback, Passes, Threads
<1>3. ASSUME NEW t \in Threads, Step(t) PROVE Goal
  <2>1. CASE SubscribeNext(t)
    <3>1. CASE thread[t].todo = {}
      BY <2>1, <3>1 DEF Passes
    <3>2. CASE thread[t].todo # {}
      <4>1. PICK s \in Due(t) :
               BeginSubscribe(t, s.topic, s.by, thread[t].todo \ {s})
        BY <2>1, <3>2 DEF SubscribeNext
      <4>2. thread[t].todo \subseteq Subscription
        BY DEF Structure, Shapes, Goroutines
      <4>3. /\ s.topic \in Topics
            /\ thread[t].todo \ {s} \in SUBSET Subscription
        BY <4>2 DEF Due, Subscription
      <4>4. Begins(t, s.topic, thread[t].todo \ {s})
        BY <2>1, <4>1 DEF SubscribeNext, Begins
      <4> QED
        BY <4>3, <4>4
    <3> QED
      BY <3>1, <3>2
  <2>2. CASE ~SubscribeNext(t)
    BY <1>3, <2>2 DEF Step, Acts, Passes
  <2> QED
    BY <2>1, <2>2
<1> QED
  BY <1>1, <1>2, <1>3 DEF Next

LEMMA StructureNext ==
    ASSUME Structure, Next
    PROVE  Structure'
<1>1. /\ options \in OptionSets
      /\ handlers \in [Topics -> Handlers] /\ routes \in [Topics -> Handlers]
      /\ stored.topics \subseteq Topics /\ thread \in [Threads -> Goroutines]
      /\ OpsFit
  BY DEF Structure, Shapes
<1>2. \A t \in Threads : /\ thread[t] \in Goroutines
                         /\ thread[t].by \in Handlers
                         /\ thread[t].snapshot \subseteq Topics
  BY <1>1 DEF Goroutines
<1>3. ASSUME NEW t \in Threads, \A u \in Threads \ {t} : Stays(u),
             thread' \in [Threads -> Goroutines], OpFits(thread'[t])
      PROVE  thread' \in [Threads -> Goroutines] /\ OpsFit'
  BY <1>3 DEF Stays, OpsFit
<1>4. ASSUME NEW t \in Threads, Acts(t) PROVE Structure'
  <2>1. thread' \in [Threads -> Goroutines] /\ OpsFit'
    BY <1>3, <1>4, ActsThread, LoneStays DEF Lone
  <2>2. options' = options
    BY <1>4 DEF Acts, SubscribeSends, AttemptFails, BrokerTakes, BrokerRefuses,
                AnswerRead, Record, Collect, Write
  <2>3. handlers' \in [Topics -> Handlers]
    <3>1. CASE Record(t)
      BY <1>1, <1>2, <3>1 DEF Record
    <3>2. CASE ~Record(t)
      BY <1>1, <1>4, <3>2
      DEF Acts, SubscribeSends, AttemptFails, BrokerTakes, BrokerRefuses,
          AnswerRead, Collect, Write
    <3> QED
      BY <3>1, <3>2
  <2>4. routes' \in [Topics -> Handlers]
    <3>1. CASE SubscribeSends(t)
      BY <1>1, <1>2, <3>1 DEF SubscribeSends
    <3>2. CASE ~SubscribeSends(t)
      BY <1>1, <1>4, <3>2
      DEF Acts, AttemptFails, BrokerTakes, BrokerRefuses,
          AnswerRead, Record, Collect, Write
    <3> QED
      BY <3>1, <3>2
  <2>5. stored'.topics \subseteq Topics
    <3>1. CASE Write(t)
      <4>1. options.store \in {"memory", "file", "redis"}
        BY <1>1, OptionsAssumption DEF Options
      <4>2. stored' \in {Saved(thread[t].snapshot), stored, Torn}
        BY <3>1, <4>1 DEF Write
      <4> QED
        BY <1>1, <1>2, <4>2 DEF Saved, Torn
    <3>2. CASE ~Write(t)
      BY <1>1, <1>4, <3>2
      DEF Acts, SubscribeSends, AttemptFails, BrokerTakes, BrokerRefuses,
          AnswerRead, Record, Collect
    <3> QED
      BY <3>1, <3>2
  <2> QED
    BY <1>1, <2>1, <2>2, <2>3, <2>4, <2>5 DEF Structure, Shapes
<1>5. ASSUME NEW t \in Threads, NEW x \in Topics,
             NEW rest \in SUBSET Subscription, Begins(t, x, rest)
      PROVE  Structure'
  <2>1. thread' \in [Threads -> Goroutines] /\ OpsFit'
    BY <1>3, <1>5, BeginsThread, LoneStays DEF Lone
  <2>2. UNCHANGED <<options, handlers, stored>>
    BY <1>5 DEF Begins, CallSubscribe, CallUnsubscribe
  <2>3. routes' \in [Topics -> Handlers]
    BY <1>1, <1>5, BeginsThread DEF Handlers
  <2> QED
    BY <1>1, <2>1, <2>2, <2>3 DEF Structure, Shapes
<1>6. ASSUME NEW t \in Threads, Passes(t) PROVE Structure'
  <2>1. thread' \in [Threads -> Goroutines] /\ OpsFit'
    BY <1>3, <1>6, PassesAside DEF Aside
  <2>2. UNCHANGED <<options, handlers, routes>>
    BY <1>6 DEF Passes, Connected, ConnectionLost, LoadState, CallDisconnect,
                Close, RestoreState, SubscribeNext
  <2>3. stored' \in {stored, Absent}
    BY <1>6 DEF Passes, Connected, ConnectionLost, LoadState, CallDisconnect,
                Close, RestoreState, SubscribeNext
  <2> QED
    BY <1>1, <2>1, <2>2, <2>3 DEF Structure, Shapes, Absent
<1>7. CASE Restart
  <2>1. /\ options' = options /\ stored' \in {stored, Torn, Absent}
        /\ handlers' = [x \in Topics |-> "none"]
        /\ routes' = [x \in Topics |-> "none"]
        /\ thread' = [t \in Threads |-> Idle]
    BY <1>7 DEF Restart
  <2> QED
    BY <1>1, <2>1, IdleFits
    DEF Structure, Shapes, OpsFit, Handlers, Torn, Absent
<1> QED
  BY <1>4, <1>5, <1>6, <1>7, NextCases

-----------------------------------------------------------------------------
(* The topics.  A step of one goroutine on its own topic, on which there is *)
(* no other call.                                                           *)
LEMMA OnItsTopic ==
    ASSUME NEW t \in Threads, NEW x \in Topics, Lone(t),
           \A u \in Threads \ {t} : ~Concerns(u, x),
           thread'[t].topic = {x} => CallFits(thread[t], x)',
           thread'[t].topic # {x} => Agrees(x)'
    PROVE  TopicFits(x)'
<1>1. \A u \in Threads \ {t} : ~Concerns(u, x)'
  BY DEF Lone, Concerns
<1>2. Concerns(t, x)' <=> thread'[t].topic = {x}
  BY DEF Concerns
<1> QED
  BY <1>1, <1>2 DEF TopicFits

(* A step elsewhere, after which requests on the topic may have failed.     *)
LEMMA Elsewhere ==
    ASSUME Structure, NEW x \in Topics, TopicFits(x),
           x \notin doubtful' => x \notin doubtful,
           handlers'[x] = handlers[x], routes'[x] = routes[x],
           Held(x) => Held(x)',
           \A u \in Threads : /\ Concerns(u, x)' <=> Concerns(u, x)
                              /\ Concerns(u, x) => Stays(u)
    PROVE  TopicFits(x)'
<1>1. Backed(x) => Backed(x)'
  BY DEF Backed
<1>2. Agrees(x) => Agrees(x)'
  BY <1>1 DEF Agrees
<1>3. ASSUME NEW u \in Threads, Concerns(u, x), CallFits(thread[u], x)
      PROVE  CallFits(thread[u], x)'
  <2>1. Stays(u) /\ OpFits(thread[u]) /\ thread[u].topic = {x}
    BY <1>3 DEF Structure, OpsFit, Concerns
  <2>2. thread[u].op = "subscribe" \/ thread[u].by = "none"
    BY <2>1 DEF OpFits
  <2>3. CASE thread'[u].pc = thread[u].pc
    BY <1>1, <1>2, <1>3, <2>1, <2>3 DEF Stays, CallFits
  <2>4. CASE InFlight(u) /\ thread'[u].pc = "failed"
    <3>1. thread[u].op = "subscribe" => Backed(x)
      BY <1>3, <2>1, <2>4 DEF CallFits, InFlight, OpFits, Backed
    <3> QED
      BY <1>1, <2>1, <2>4, <3>1 DEF Stays, CallFits, SavingPcs
  <2> QED
    BY <2>1, <2>3, <2>4 DEF Stays
<1> QED
  BY <1>2, <1>3 DEF TopicFits

(* A step of a call, for the topic of the call.                             *)
LEMMA ActsOnTopic ==
    ASSUME Structure, NEW t \in Threads, NEW x \in Topics, Acts(t),
           TopicFits(x), Concerns(t, x), x \notin doubtful'
    PROVE  /\ thread'[t].topic = {x} => CallFits(thread[t], x)'
           /\ thread'[t].topic # {x} => Agrees(x)'
           /\ \A u \in Threads \ {t} : ~Concerns(u, x)
<1> DEFINE u == thread[t]
<1> USE DEF AskingPcs, SavingPcs
<1>1. u \in Goroutines /\ OpFits(u) /\ u.topic = {x}
  BY DEF Structure, Shapes, OpsFit, Concerns
<1>2. x \notin doubtful
  BY DEF Acts, SubscribeSends, AttemptFails, BrokerTakes, BrokerRefuses,
         AnswerRead, Record, Collect, Write
<1>3. CallFits(u, x) /\ \A w \in Threads \ {t} : ~Concerns(w, x)
  BY <1>2 DEF TopicFits
<1>4. options' = options
  BY DEF Acts, SubscribeSends, AttemptFails, BrokerTakes, BrokerRefuses,
         AnswerRead, Record, Collect, Write
<1>5. ASSUME NEW pc \in Pcs, thread' = [thread EXCEPT ![t].pc = pc]
      PROVE  /\ thread'[t].pc = pc /\ thread'[t].by = u.by
             /\ thread'[t].op = u.op /\ thread'[t].topic = {x}
  BY <1>1, <1>5 DEF Structure, Shapes, Goroutines
<1>6. CASE SubscribeSends(t)
  <2>1. u.pc = "send" /\ routes'[x] = u.by /\ UNCHANGED <<handlers, broker>>
    BY <1>1, <1>6 DEF SubscribeSends
  <2>2. Backed(x)'
    BY <1>3, <1>4, <2>1 DEF CallFits, Backed, Held
  <2>3. thread'[t].pc = "sent" /\ thread'[t].by = u.by /\ thread'[t].topic = {x}
    BY <1>5, <1>6 DEF SubscribeSends, Pcs
  <2> QED
    BY <1>3, <2>1, <2>2, <2>3 DEF CallFits
<1>7. CASE AttemptFails(t)
  <2>1. /\ u.op = "subscribe" /\ u.pc \in {"send", "failed"}
        /\ thread' = [thread EXCEPT ![t].pc = "send", ![t].tries = @ + 1]
        /\ UNCHANGED <<handlers, routes, broker>>
    BY <1>1, <1>7 DEF AttemptFails
  <2>2. Backed(x)'
    BY <1>3, <1>4, <2>1 DEF CallFits, Backed, Held
  <2>3. thread'[t].pc = "send" /\ thread'[t].topic = {x}
    BY <1>1, <2>1 DEF Structure, Shapes, Goroutines
  <2> QED
    BY <1>3, <2>2, <2>3 DEF CallFits
<1>8. CASE BrokerTakes(t)
  <2>1. u.pc = "sent" /\ UNCHANGED <<handlers, routes>>
    BY <1>8 DEF BrokerTakes
  <2>2. u.by # "none" => Held(x)'
    BY <1>1, <1>8 DEF BrokerTakes, OpFits, Held
  <2>3. /\ thread'[t].pc = "answered" /\ thread'[t].by = u.by
        /\ thread'[t].topic = {x}
    BY <1>5, <1>8 DEF BrokerTakes, Pcs
  <2> QED
    BY <1>3, <2>1, <2>2, <2>3 DEF CallFits
<1>9. CASE BrokerRefuses(t)
  <2>1. u.pc = "sent" /\ UNCHANGED <<handlers, routes, broker>>
    BY <1>9 DEF BrokerRefuses
  <2>2. Backed(x)'
    BY <1>3, <1>4, <2>1 DEF CallFits, Backed, Held
  <2>3. thread'[t].pc = "failed" /\ thread'[t].topic = {x}
    BY <1>5, <1>9 DEF BrokerRefuses, Pcs
  <2> QED
    BY <1>3, <2>2, <2>3 DEF CallFits
<1>10. CASE AnswerRead(t)
  <2>1. u.pc = "answered" /\ UNCHANGED <<handlers, routes, broker>>
    BY <1>10 DEF AnswerRead
  <2>2. u.by # "none" => Held(x)'
    BY <1>3, <1>4, <2>1 DEF CallFits, Held
  <2>3. /\ thread'[t].pc = "record" /\ thread'[t].by = u.by
        /\ thread'[t].topic = {x}
    BY <1>5, <1>10 DEF AnswerRead, Pcs
  <2> QED
    BY <1>3, <2>1, <2>2, <2>3 DEF CallFits
<1>11. CASE Record(t)
  <2>1. /\ u.pc = "record" /\ handlers'[x] = u.by
        /\ UNCHANGED <<routes, broker>>
        /\ thread' = [thread EXCEPT ![t] = Recorded(t)]
    BY <1>1, <1>11 DEF Record
  <2>2. Agrees(x)'
    BY <1>3, <1>4, <2>1 DEF CallFits, Agrees, Backed, Held
  <2>3. thread'[t] = Recorded(t)
    BY <2>1 DEF Structure, Shapes
  <2>4. thread'[t].topic = {x} => thread'[t].pc \in SavingPcs
    BY <2>1, <2>3, RecordedIs
  <2> QED
    BY <1>3, <2>2, <2>4 DEF CallFits
<1>12. CASE Collect(t) \/ Write(t)
  <2>1. u.pc \in SavingPcs /\ UNCHANGED <<handlers, routes, broker>>
    BY <1>12 DEF Collect, Write
  <2>2. Agrees(x)'
    BY <1>3, <1>4, <2>1 DEF CallFits, Agrees, Backed, Held
  <2>3. CASE Collect(t)
    <3>1. thread'[t].pc = "write"
      BY <1>1, <2>3 DEF Collect, Structure, Shapes, Goroutines
    <3> QED
      BY <1>3, <2>2, <3>1 DEF CallFits
  <2>4. CASE Write(t)
    <3>1. thread'[t] = Ended(t)
      BY <2>4 DEF Write, Structure, Shapes
    <3>2. thread'[t].topic # {x}
      BY <2>1, <3>1, EndedIs
    <3> QED
      BY <1>3, <2>2, <3>2
  <2> QED
    BY <1>12, <2>3, <2>4
<1> QED
  BY <1>3, <1>6, <1>7, <1>8, <1>9, <1>10, <1>11, <1>12 DEF Acts

LEMMA TopicsNext ==
    ASSUME Structure, TopicsFit, Next
    PROVE  TopicsFit'
<1> SUFFICES ASSUME NEW x \in Topics PROVE TopicFits(x)'
  BY DEF TopicsFit
<1>1. TopicFits(x)
  BY DEF TopicsFit
<1>2. CASE x \in doubtful'
  BY <1>2 DEF TopicFits
<1>3. ASSUME NEW t \in Threads, Acts(t), x \notin doubtful'
      PROVE  TopicFits(x)'
  <2>1. /\ Lone(t) /\ thread'[t].topic \in {thread[t].topic, {}}
        /\ thread[t].pc \in AskingPcs \cup SavingPcs
    BY <1>3, ActsThread
  <2>2. CASE Concerns(t, x)
    BY <1>1, <1>3, <2>1, <2>2, ActsOnTopic, OnItsTopic
  <2>3. CASE ~Concerns(t, x)
    <3>1. x \notin thread[t].topic
      BY <2>3 DEF Structure, Shapes, Goroutines, Concerns
    <3>2. handlers'[x] = handlers[x] /\ routes'[x] = routes[x]
      BY <1>3, <3>1
      DEF Acts, SubscribeSends, AttemptFails, BrokerTakes, BrokerRefuses,
          AnswerRead, Record, Collect, Write
    <3>3. x \notin doubtful /\ options' = options
      BY <1>3
      DEF Acts, SubscribeSends, AttemptFails, BrokerTakes, BrokerRefuses,
          AnswerRead, Record, Collect, Write
    <3>4. Held(x) => Held(x)'
      BY <1>3, <3>1, <3>3
      DEF Acts, SubscribeSends, AttemptFails, BrokerTakes, BrokerRefuses,
          AnswerRead, Record, Collect, Write, Held
    <3>5. ~Concerns(t, x)'
      BY <2>1, <2>3 DEF Concerns
    <3>6. \A u \in Threads : /\ Concerns(u, x)' <=> Concerns(u, x)
                             /\ Concerns(u, x) => Stays(u)
      BY <2>1, <2>3, <3>5, LoneStays DEF Stays, Concerns
    <3> QED
      BY <1>1, <3>2, <3>3, <3>4, <3>6, Elsewhere
  <2> QED
    BY <2>2, <2>3
<1>4. ASSUME NEW t \in Threads, NEW y \in Topics,
             NEW rest \in SUBSET Subscription, Begins(t, y, rest),
             x \notin doubtful'
      PROVE  TopicFits(x)'
  <2>1. /\ Lone(t) /\ thread[t].topic = {} /\ thread'[t].topic = {y}
        /\ \/ thread'[t].pc = "send" /\ routes' = routes
           \/ /\ thread'[t].pc = "sent" /\ thread'[t].by = "none"
              /\ routes' = [routes EXCEPT ![y] = "none"]
        /\ OnTopic(y) # {} => y \in doubtful'
        /\ doubtful \subseteq doubtful'
    BY <1>4, BeginsThread
  <2>2. UNCHANGED <<options, handlers, broker>>
    BY <1>4 DEF Begins, CallSubscribe, CallUnsubscribe
  <2>3. x \notin doubtful
    BY <1>4, <2>1
  <2>4. CASE x = y
    <3>1. \A u \in Threads : ~Concerns(u, x)
      BY <1>4, <2>1, <2>4 DEF OnTopic, Concerns
    <3>2. Agrees(x)
      BY <1>1, <2>3, <3>1 DEF TopicFits
    <3>3. Backed(x)'
      BY <2>2, <3>2 DEF Agrees, Backed, Held
    <3>4. thread'[t].pc = "sent" => routes'[x] = thread'[t].by
      BY <2>1, <2>4 DEF Structure, Shapes
    <3>5. CallFits(thread[t], x)'
      BY <2>1, <3>3, <3>4 DEF CallFits, SavingPcs
    <3> QED
      BY <2>1, <2>4, <3>1, <3>5, OnItsTopic
  <2>5. CASE x # y
    <3>1. handlers'[x] = handlers[x] /\ routes'[x] = routes[x]
      BY <2>1, <2>2, <2>5 DEF Structure, Shapes
    <3>2. ~Concerns(t, x) /\ ~Concerns(t, x)'
      BY <2>1, <2>5, TopicIs DEF Concerns
    <3>3. \A u \in Threads : /\ Concerns(u, x)' <=> Concerns(u, x)
                             /\ Concerns(u, x) => Stays(u)
      BY <2>1, <3>2, LoneStays DEF Stays, Concerns
    <3>4. Held(x) => Held(x)'
      BY <2>2 DEF Held
    <3> QED
      BY <1>1, <2>3, <3>1, <3>3, <3>4, Elsewhere
  <2> QED
    BY <2>4, <2>5
<1>5. ASSUME NEW t \in Threads, Passes(t), x \notin doubtful'
      PROVE  TopicFits(x)'
  <2>1. /\ thread[t].topic = {} /\ thread'[t].topic = {}
        /\ \A u \in Threads \ {t} : Stays(u)
    BY <1>5, PassesAside DEF Aside
  <2>2. UNCHANGED <<options, handlers, routes>>
    BY <1>5 DEF Passes, Connected, ConnectionLost, LoadState, CallDisconnect,
                Close, RestoreState, SubscribeNext
  <2>3. doubtful \subseteq doubtful'
    BY <1>5 DEF Passes, Connected, ConnectionLost, LoadState, CallDisconnect,
                Close, RestoreState, SubscribeNext, BeginSubscribe
  <2>4. Held(x) => Held(x)'
    BY <1>5, <2>2
    DEF Passes, Connected, ConnectionLost, LoadState, CallDisconnect,
        Close, RestoreState, SubscribeNext, Held
  <2>5. \A u \in Threads : /\ Concerns(u, x)' <=> Concerns(u, x)
                           /\ Concerns(u, x) => Stays(u)
    BY <2>1, TopicIs DEF Stays, Concerns
  <2> QED
    BY <1>1, <1>5, <2>2, <2>3, <2>4, <2>5, Elsewhere
<1>6. CASE Restart
  <2>1. /\ \A u \in Threads : ~Concerns(u, x)'
        /\ Agrees(x)'
    BY <1>6, TopicIs DEF Restart, Concerns, Idle, Agrees, Backed
  <2> QED
    BY <2>1 DEF TopicFits
<1> QED
  BY <1>2, <1>3, <1>4, <1>5, <1>6, NextCases

-----------------------------------------------------------------------------
(* The topics of the options.  Beside the goroutine that steps, each still  *)
(* subscribes what it has subscribed or was to subscribe.                   *)
LEMMA StaysRestoring ==
    ASSUME NEW u \in Threads, Stays(u), NEW x \in Preset
    PROVE  /\ StubFits(thread[u], x) => StubFits(thread[u], x)'
           /\ Restores(thread[u], x) => Restores(thread[u], x)'
<1>1. thread[u].pc \in AskingPcs <=> thread'[u].pc \in AskingPcs
  BY DEF Stays, InFlight, AskingPcs
<1> QED
  BY <1>1 DEF Stays, StubFits, Restores, Subscribes

(* What is left to show of a step of thread t that leaves the handler of x, *)
(* or sets it.                                                              *)
LEMMA PresetKept ==
    ASSUME NEW t \in Threads, NEW x \in Preset, PresetFits(x),
           \A u \in Threads \ {t} : Stays(u),
           x \notin doubtful' => x \notin doubtful,
           StubFits(thread[t], x)',
           x \notin doubtful' /\ handlers'[x] = "stub"
             => \/ Restores(thread[t], x)'
                \/ handlers[x] = "stub" /\ ~Restores(thread[t], x)
    PROVE  PresetFits(x)'
<1>1. \A u \in Threads : StubFits(thread[u], x)'
  BY StaysRestoring DEF PresetFits
<1>2. ASSUME x \notin doubtful', handlers'[x] = "stub"
      PROVE  \E u \in Threads : Restores(thread[u], x)'
  <2>1. CASE Restores(thread[t], x)'
    BY <2>1
  <2>2. CASE handlers[x] = "stub" /\ ~Restores(thread[t], x)
    <3>1. PICK u \in Threads : Restores(thread[u], x)
      BY <1>2, <2>2 DEF PresetFits
    <3>2. u # t
      BY <2>2, <3>1
    <3> QED
      BY <3>1, <3>2, StaysRestoring
  <2> QED
    BY <1>2, <2>1, <2>2
<1> QED
  BY <1>1, <1>2 DEF PresetFits

LEMMA PresetsNext ==
    ASSUME Structure, PresetsFit, Next
    PROVE  PresetsFit'
<1> SUFFICES ASSUME NEW x \in Preset PROVE PresetFits(x)'
  BY DEF PresetsFit
<1>1. PresetFits(x) /\ x \in Topics
  BY TopicsAssumption DEF PresetsFit
<1>2. \A t \in Threads : /\ thread[t] \in Goroutines /\ OpFits(thread[t])
                         /\ StubFits(thread[t], x)
  BY <1>1 DEF Structure, Shapes, OpsFit, PresetFits
<1>3. ASSUME NEW t \in Threads, Acts(t) PROVE PresetFits(x)'
  <2>1. /\ Lone(t) /\ thread[t].pc \in AskingPcs \cup SavingPcs
        /\ thread'[t].topic \in {thread[t].topic, {}}
        /\ thread'[t].topic # {} => thread'[t].by = thread[t].by
        /\ thread'[t].todo = thread[t].todo
    BY <1>3, ActsThread
  <2>2. doubtful \subseteq doubtful'
    BY <1>3 DEF Acts, SubscribeSends, AttemptFails, BrokerTakes, BrokerRefuses,
                AnswerRead, Record, Collect, Write
  <2>3. thread'[t].pc \in AskingPcs => thread[t].pc \in AskingPcs
    <3>1. CASE Record(t)
      BY <3>1 DEF Record, AskingPcs
    <3>2. CASE Collect(t)
      BY <1>2, <3>2 DEF Collect, Structure, Shapes, Goroutines, AskingPcs
    <3>3. CASE Write(t)
      <4>1. thread'[t] = Ended(t)
        BY <3>3 DEF Write, Structure, Shapes
      <4> QED
        BY <2>1, <4>1, EndedIs DEF AskingPcs
    <3>4. CASE \/ SubscribeSends(t) \/ AttemptFails(t) \/ BrokerTakes(t)
               \/ BrokerRefuses(t) \/ AnswerRead(t)
      BY <3>4 DEF SubscribeSends, AttemptFails, BrokerTakes, BrokerRefuses,
                  AnswerRead, AskingPcs
    <3> QED
      BY <1>3, <3>1, <3>2, <3>3, <3>4 DEF Acts
  <2>4. StubFits(thread[t], x)'
    BY <1>2, <2>1, <2>3, TopicIs DEF StubFits, Subscribes
  <2>5. CASE Record(t) /\ thread[t].topic = {x}
    <3>1. handlers'[x] = thread[t].by /\ thread[t].pc = "record"
      BY <1>1, <2>5 DEF Record
    <3>2. handlers'[x] = "stub" => Mine(x) \in thread[t].todo
      BY <1>2, <2>5, <3>1 DEF StubFits, Subscribes, AskingPcs
    <3> QED
      BY <1>1, <2>1, <2>2, <2>4, <3>2, LoneStays, PresetKept DEF Restores
  <2>6. CASE ~(Record(t) /\ thread[t].topic = {x})
    <3>1. handlers'[x] = handlers[x]
      <4>1. x \in thread[t].topic => thread[t].topic = {x}
        BY <1>2 DEF Goroutines
      <4> QED
        BY <1>1, <1>3, <2>6, <4>1
        DEF Acts, SubscribeSends, AttemptFails, BrokerTakes, BrokerRefuses,
            AnswerRead, Record, Collect, Write
    <3>2. ASSUME Subscribes(thread[t], x, "user"), x \notin doubtful'
          PROVE  Subscribes(thread[t], x, "user")'
      <4>1. thread[t].topic = {x} /\ thread[t].pc \in AskingPcs
        BY <3>2 DEF Subscribes
      <4>2. ASSUME NEW pc \in AskingPcs, thread' = [thread EXCEPT ![t].pc = pc]
            PROVE  Subscribes(thread[t], x, "user")'
        BY <1>2, <3>2, <4>2 DEF Subscribes, Structure, Shapes, Goroutines
      <4>3. CASE \/ SubscribeSends(t) \/ BrokerTakes(t) \/ BrokerRefuses(t)
                 \/ AnswerRead(t)
        BY <4>2, <4>3 DEF SubscribeSends, BrokerTakes, BrokerRefuses,
                          AnswerRead, AskingPcs
      <4>4. CASE AttemptFails(t)
        <5>1. thread' = [thread EXCEPT ![t].pc = "send", ![t].tries = @ + 1]
          BY <3>2, <4>1, <4>4 DEF AttemptFails
        <5> QED
          BY <1>2, <3>2, <5>1
          DEF Subscribes, Structure, Shapes, Goroutines, AskingPcs
      <4>5. ~Record(t) /\ ~Collect(t) /\ ~Write(t)
        BY <2>6, <4>1 DEF Collect, Write, AskingPcs
      <4> QED
        BY <1>3, <4>3, <4>4, <4>5 DEF Acts
    <3>3. Restores(thread[t], x) /\ x \notin doubtful'
            => Restores(thread[t], x)'
      BY <2>1, <3>2 DEF Restores
    <3> QED
      BY <1>1, <2>1, <2>2, <2>4, <3>1, <3>3, LoneStays, PresetKept
  <2> QED
    BY <2>5, <2>6
<1>4. ASSUME NEW t \in Threads, NEW y \in Topics,
             NEW rest \in SUBSET Subscription, Begins(t, y, rest)
      PROVE  PresetFits(x)'
  <2>1. /\ Lone(t) /\ thread[t].topic = {} /\ thread'[t].topic = {y}
        /\ thread'[t].todo = rest /\ doubtful \subseteq doubtful'
        /\ thread'[t].pc \in AskingPcs
    BY <1>4, BeginsThread DEF AskingPcs
  <2>2. handlers' = handlers
    BY <1>4 DEF Begins, CallSubscribe, CallUnsubscribe
  <2>3. ~Subscribes(thread[t], x, "user")
    BY <2>1, TopicIs DEF Subscribes
  <2>4. CASE CallSubscribe(t, y) /\ rest = {}
    <3>1. thread[t].todo = {} /\ thread'[t].by = "user"
      BY <2>4 DEF CallSubscribe, BeginSubscribe, Structure, Shapes, Idle
    <3> QED
      BY <1>1, <2>1, <2>2, <2>3, <2>4, <3>1, LoneStays, PresetKept
      DEF StubFits, Subscribes, Restores
  <2>5. CASE CallUnsubscribe(t, y) /\ rest = {}
    <3>1. thread[t].todo = {} /\ thread'[t].by = "none"
      BY <2>5 DEF CallUnsubscribe, Structure, Shapes, Idle
    <3> QED
      BY <1>1, <2>1, <2>2, <2>3, <2>5, <3>1, LoneStays, PresetKept
      DEF StubFits, Subscribes, Restores
  <2>6. ASSUME NEW s \in Due(t), y = s.topic, rest = thread[t].todo \ {s},
               BeginSubscribe(t, y, s.by, rest)
        PROVE  PresetFits(x)'
    <3>1. thread'[t].by = s.by
      BY <2>6 DEF BeginSubscribe, Structure, Shapes, Idle
    <3>2. s \in thread[t].todo /\ s \in Subscription
      BY <1>2, <2>6 DEF Due, Goroutines
    <3>3. Stub(x) \in thread[t].todo => s.by = "stub" /\ Mine(x) \in rest
      <4>1. ASSUME Stub(x) \in thread[t].todo
            PROVE  s.by = "stub"
        BY <4>1, <2>6 DEF Due, Stub
      <4>2. ASSUME Stub(x) \in thread[t].todo
            PROVE  Mine(x) \in thread[t].todo
        BY <4>2, <1>2 DEF StubFits
      <4>3. Mine(x).by = "user"
        BY DEF Mine
      <4> QED
        BY <2>6, <4>1, <4>2, <4>3
    <3>4. s.by = "stub" /\ y = x => s = Stub(x)
      BY <2>6, <3>2 DEF Subscription, Stub
    <3>5. StubFits(thread[t], x)'
      BY <2>1, <2>6, <3>1, <3>2, <3>3, <3>4, TopicIs DEF StubFits, Subscribes
    <3>6. Mine(x) \in thread[t].todo => Restores(thread[t], x)'
      <4>1. CASE s = Mine(x)
        BY <2>1, <2>6, <3>1, <4>1 DEF Mine, Restores, Subscribes
      <4>2. CASE s # Mine(x)
        BY <2>1, <2>6, <4>2 DEF Restores
      <4> QED
        BY <4>1, <4>2
    <3>7. Restores(thread[t], x) => Restores(thread[t], x)'
      BY <2>3, <3>6 DEF Restores
    <3> QED
      BY <1>1, <2>1, <2>2, <3>5, <3>7, LoneStays, PresetKept
  <2> QED
    BY <1>4, <2>4, <2>5, <2>6 DEF Begins
<1>5. ASSUME NEW t \in Threads, Passes(t) PROVE PresetFits(x)'
  <2>1. Aside(t)
    BY <1>5, PassesAside
  <2>2. /\ ~Restores(thread[t], x)
        /\ StubFits(thread[t], x)'
    BY <2>1, TopicIs DEF Aside, Restores, Subscribes, StubFits
  <2>3. handlers' = handlers /\ doubtful \subseteq doubtful'
    BY <1>5 DEF Passes, Connected, ConnectionLost, LoadState, CallDisconnect,
                Close, RestoreState, SubscribeNext, BeginSubscribe
  <2> QED
    BY <1>1, <2>1, <2>2, <2>3, PresetKept DEF Aside
<1>6. CASE Restart
  <2>1. handlers'[x] # "stub" /\ \A u \in Threads : StubFits(thread[u], x)'
    BY <1>1, <1>6, TopicIs DEF Restart, StubFits, Subscribes, Idle
  <2> QED
    BY <2>1 DEF PresetFits
<1> QED
  BY <1>3, <1>4, <1>5, <1>6, NextCases

-----------------------------------------------------------------------------
LEMMA Invariance == Spec => []IInv
<1>1. Init => IInv
  BY InitIInv
<1>2. IInv /\ [Next]_vars => IInv'
  <2> SUFFICES ASSUME IInv, [Next]_vars PROVE IInv'
    OBVIOUS
  <2>1. CASE Next
    BY <2>1, StructureNext, TopicsNext, PresetsNext DEF IInv
  <2>2. CASE UNCHANGED vars
    <3>1. Structure'
      BY <2>2 DEF IInv, Structure, Shapes, OpsFit, vars
    <3>2. TopicsFit'
      BY <2>2 DEF IInv, TopicsFit, TopicFits, Concerns, CallFits, Agrees,
                  Backed, Held, vars
    <3>3. PresetsFit'
      BY <2>2 DEF IInv, PresetsFit, PresetFits, StubFits, Restores, Subscribes,
                  vars
    <3> QED
      BY <3>1, <3>2, <3>3 DEF IInv
  <2> QED
    BY <2>1, <2>2
<1> QED
  BY <1>1, <1>2, PTL DEF Spec

(* What the other theorems are about keeps its type, for any                *)
(* topics, goroutines and options (session.go:230-629).                     *)
THEOREM TypeCorrect == Spec => []Shapes
<1>1. IInv => Shapes
  BY DEF IInv, Structure
<1> QED
  BY <1>1, Invariance, PTL

(* For any topics, goroutines, options and stores: where each call on a     *)
(* topic succeeded and no two ran at once, the registry has the handler     *)
(* that the client calls, and the broker holds what the registry holds      *)
(* (Subscribe, Unsubscribe, handleConnect: session.go:519-589, 257-277).    *)
THEOREM RegistryFollowsClient == Spec => []RegistryAgrees
<1>1. IInv => RegistryAgrees
  <2> SUFFICES ASSUME IInv, NEW x \in Topics \ doubtful, OnTopic(x) = {}
               PROVE  Agrees(x)
    BY DEF RegistryAgrees, Agrees, Backed, Held
  <2>1. TopicFits(x)
    BY DEF IInv, TopicsFit
  <2>2. \A t \in Threads : ~Concerns(t, x)
    BY DEF OnTopic, Concerns
  <2> QED
    BY <2>1, <2>2 DEF TopicFits
<1> QED
  BY <1>1, Invariance, PTL

(* And the handlers of opts.Topics outlive the restoring of the same topics *)
(* from the store, with callbacks side by side and connections lost in      *)
(* between: whoever has a stub to subscribe still has the topic of the      *)
(* options to subscribe after it (session.go:257-277).                      *)
THEOREM StubsAreReplaced == Spec => []PresetKeepsHandler
<1>1. IInv => PresetKeepsHandler
  <2> SUFFICES ASSUME IInv, Quiet, NEW x \in Preset \ doubtful
               PROVE  handlers[x] # "stub"
    BY DEF PresetKeepsHandler
  <2>1. PresetFits(x)
    BY DEF IInv, PresetsFit
  <2>2. \A t \in Threads : ~Restores(thread[t], x)
    BY DEF Quiet, Idle, Restores, Subscribes, AskingPcs
  <2> QED
    BY <2>1, <2>2 DEF PresetFits
<1> QED
  BY <1>1, Invariance, PTL

=============================================================================
