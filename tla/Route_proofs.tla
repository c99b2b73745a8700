---------------------------- MODULE Route_proofs ----------------------------
(***************************************************************************)
(* The invariants of Route, for any sessions, routes, callers, filters and *)
(* ways to open a route.  The sessions are finitely many, so that the      *)
(* messages that routes have in hand can be counted.                       *)
(***************************************************************************)
EXTENDS Route, Topics, FiniteSetTheorems, SequenceTheorems, TLAPS

-----------------------------------------------------------------------------
Stages == {"new", "opening", "open", "failed", "stopping", "stopped"}

Threads == [op : {"none", "open", "stop"},
            pc : {"idle", "next", "sent", "answered", "failed", "once",
                  "close"},
            route : Routes \cup {None}, session : Sessions \cup {None},
            todo : SUBSET Sessions, tries : Nat]

Messages == [pc : {"idle", "check", "filter", "deliver"},
             route : Routes \cup {None}, rejects : SUBSET Filters,
             owed : SUBSET Filters, late : BOOLEAN]

Stats == [received : Nat, dropped : Nat, errors : Nat]
Fates == [delivered : Nat, rejected : Nat, panicked : Nat]

Shapes ==
    /\ callback \in [Sessions -> Routes \cup {None}]
    /\ dispatcher \in [Sessions -> Messages]
    /\ stage \in [Routes -> Stages]
    /\ config \in [Routes -> Configs \cup {None}]
    /\ \A r \in Routes : Begun(r) => config[r] \in Configs
    /\ done \in [Routes -> BOOLEAN] /\ closed \in [Routes -> BOOLEAN]
    /\ stats \in [Routes -> Stats] /\ fate \in [Routes -> Fates]
    /\ added \in [Routes -> SUBSET (Filters \cup {None})]
    /\ onSpare \in [Routes -> BOOLEAN] /\ spareFilter \in Filters \cup {None}
    /\ given \in [Routes -> SUBSET Filters]
    /\ thread \in [Callers -> Threads]

-----------------------------------------------------------------------------
(* Where a goroutine is in Handle, Listen or Stop, and what it knows there. *)
OpenerFits(c) ==
    LET r == thread[c].route
    IN  /\ r \in Routes
        /\ stage[r] = "opening"
        /\ thread[c].pc \in {"next", "sent", "answered", "failed"}
        /\ thread[c].todo \subseteq config[r].target
        /\ thread[c].pc # "next"
             => thread[c].session \in config[r].target \ thread[c].todo

StopperFits(c) ==
    LET r == thread[c].route
    IN  /\ r \in Routes
        /\ stage[r] \in {"stopping", "stopped"}
        /\ thread[c].pc \in {"next", "sent", "answered", "once", "close"}
        /\ thread[c].todo \subseteq config[r].target
        /\ thread[c].pc = "close" => done[r]

ThreadsFit ==
    \A c \in Callers :
        /\ thread[c].op = "none" => thread[c].pc = "idle"
        /\ thread[c].op = "open" => OpenerFits(c)
        /\ thread[c].op = "stop" => StopperFits(c)

Opens(c, r) == thread[c].op = "open" /\ thread[c].route = r

OneOpener ==
    \A c, d \in Callers, r \in Routes : Opens(c, r) /\ Opens(d, r) => c = d

(* r.done is closed before r.messages, and both before Stop returns.        *)
DoneFirst ==
    \A r \in Routes : closed[r] \/ stage[r] = "stopped" => done[r]

CallbacksFit ==
    \A s \in Sessions : callback[s] # None =>
        Begun(callback[s]) /\ s \in config[callback[s]].target

MessageFits(s) ==
    LET r == Receiver(s)
    IN  /\ r \in Routes /\ Begun(r)
        /\ s \in config[r].target
        /\ dispatcher[s].owed \subseteq given[r]
        /\ dispatcher[s].late => done[r] /\ dispatcher[s].pc = "check"

MessagesFit ==
    \A s \in Sessions :
        IF dispatcher[s].pc = "idle" THEN ~dispatcher[s].late
                                     ELSE MessageFits(s)

-----------------------------------------------------------------------------
(* A panic is of a message that was past the check of done when the channel *)
(* was closed, and no message gets past it any more.                        *)
PanicsBounded ==
    \A r \in Routes :
        /\ fate[r].panicked > 0 => closed[r]
        /\ Begun(r) => fate[r].panicked + Past(r)
                         <= Cardinality(config[r].target)
        /\ ~Begun(r) => fate[r].panicked = 0

(* A route has the filters it was given, or they were overwritten.          *)
FiltersKept ==
    \A r \in Routes :
        /\ onSpare[r] => config[r].spare
        /\ given[r] # {} \/ onSpare[r] => Begun(r)
        /\ given[r] \subseteq FiltersOf(r) \/ Overwritten(r)

(* What the opener of a strict route is past is subscribed, unless its last *)
(* attempt failed.                                                          *)
Subscribed(r, s) ==
    /\ stage[r] = "open" => callback[s] = r
    /\ \A c \in Callers :
         /\ Opens(c, r) /\ s \notin thread[c].todo
         /\ thread[c].pc = "failed" => thread[c].session # s
         => callback[s] = r

StrictAreSubscribed ==
    \A r \in Routes, s \in Sessions :
        /\ Begun(r) /\ config[r].strict
        /\ s \in config[r].target /\ Alone(r, s)
        => Subscribed(r, s)

Structure ==
    Shapes /\ ThreadsFit /\ OneOpener /\ DoneFirst /\ CallbacksFit

IInv ==
    /\ Structure /\ MessagesFit
    /\ EveryMessageAccounted /\ PanicsBounded
    /\ FiltersKept /\ FiltersHold
    /\ StrictAreSubscribed

-----------------------------------------------------------------------------
LEMMA Absent ==
    None \notin Sessions /\ None \notin Routes /\ None \notin Filters
      /\ None \notin Configs
  BY NoneAssumption

LEMMA InitIInv == Init => IInv
<1> SUFFICES ASSUME Init PROVE IInv
  OBVIOUS
<1>1. Shapes
  BY DEF Init, Shapes, Messages, Threads, Stats, Fates, Quiet, Idle, Stages,
         Begun
<1>2. \A r \in Routes : Past(r) = 0
  <2>1. TAKE r \in Routes
  <2>2. {s \in Sessions : /\ Receiver(s) = r
                          /\ dispatcher[s].pc \in {"filter", "deliver"}} = {}
    BY DEF Init, Quiet
  <2> QED
    BY <2>2, FS_EmptySet DEF Past
<1>3. ThreadsFit /\ OneOpener /\ DoneFirst /\ CallbacksFit /\ MessagesFit
  BY DEF Init, ThreadsFit, OneOpener, DoneFirst, CallbacksFit, MessagesFit,
         Opens, Idle, Quiet
<1>4. EveryMessageAccounted /\ PanicsBounded
  BY <1>2 DEF Init, EveryMessageAccounted, PanicsBounded, Begun
<1>5. FiltersKept /\ FiltersHold /\ StrictAreSubscribed
  BY DEF Init, FiltersKept, FiltersHold, StrictAreSubscribed, Begun, Quiet
<1> QED
  BY <1>1, <1>3, <1>4, <1>5 DEF IInv, Structure

-----------------------------------------------------------------------------
LEMMA OpenShapes ==
    ASSUME Shapes, NEW c \in Callers, NEW r \in Routes, NEW form \in Configs,
           Open(c, r, form)
    PROVE  Shapes'
<1> USE DEF Open, Shapes, clients, channel, counts, filters
<1>1. form.target \in SUBSET Sessions
  BY ConfigsAssumption DEF Config
<1>2. thread' \in [Callers -> Threads]
  BY <1>1 DEF Threads, Idle
<1>3. /\ stage' \in [Routes -> Stages]
      /\ config' \in [Routes -> Configs \cup {None}]
      /\ \A q \in Routes : Begun(q)' => config'[q] \in Configs
  BY DEF Stages, Begun
<1> QED
  BY <1>2, <1>3

LEMMA StepThread ==
    ASSUME thread \in [Callers -> Threads], NEW c \in Callers,
           OpenStep(c) \/ StopStep(c) \/ Answer(c)
    PROVE  thread' \in [Callers -> Threads]
<1> DEFINE t == thread[c]
<1> USE DEF Threads, At, Goes, Returns
<1>0. t \in Threads /\ Idle \in Threads
  BY DEF Idle
<1>1. ASSUME NEW u \in Threads, thread' = [thread EXCEPT ![c] = u]
      PROVE  thread' \in [Callers -> Threads]
  BY <1>1
<1>2. ASSUME NEW s \in Sessions, OpenPassesOver(c, s)
      PROVE  thread' \in [Callers -> Threads]
  BY <1>0, <1>1, <1>2 DEF OpenPassesOver
<1>3. ASSUME NEW s \in Sessions, OpenSubscribes(c, s)
      PROVE  thread' \in [Callers -> Threads]
  <2>1. \A pc \in {"sent", "failed"} :
          [t EXCEPT !.pc = pc, !.session = s, !.todo = @ \ {s}, !.tries = 1]
            \in Threads
    BY <1>0
  <2>2. \E pc \in {"sent", "failed"} :
          thread' = [thread EXCEPT
                       ![c] = [t EXCEPT !.pc = pc, !.session = s,
                                        !.todo = @ \ {s}, !.tries = 1]]
    BY <1>3 DEF OpenSubscribes
  <2> QED
    BY <1>1, <2>1, <2>2
<1>4. CASE SubscribeAgain(c)
  <2>1. t.pc = "failed" /\ t.tries + 1 \in Nat
    BY <1>0, <1>4 DEF SubscribeAgain
  <2>2. \A pc \in {"sent", "failed"} :
          [t EXCEPT !.pc = pc, !.tries = @ + 1] \in Threads
    BY <1>0, <2>1
  <2>3. \E pc \in {"sent", "failed"} :
          thread' = [thread EXCEPT ![c] = [t EXCEPT !.pc = pc,
                                                    !.tries = @ + 1]]
    BY <1>4, <2>1 DEF SubscribeAgain
  <2> QED
    BY <1>1, <2>2, <2>3
<1>5. CASE SubscribeGivenUp(c) \/ OpenEnds(c) \/ StopAgainReturns(c)
  BY <1>0, <1>1, <1>5 DEF SubscribeGivenUp, OpenEnds, StopAgainReturns
<1>6. ASSUME NEW s \in Sessions, StopUnsubscribes(c, s)
      PROVE  thread' \in [Callers -> Threads]
  <2>1. /\ [t EXCEPT !.pc = "sent", !.session = s, !.todo = @ \ {s}]
             \in Threads
        /\ [t EXCEPT !.todo = @ \ {s}] \in Threads
    BY <1>0
  <2>2. \/ thread' = [thread EXCEPT
                        ![c] = [t EXCEPT !.pc = "sent", !.session = s,
                                         !.todo = @ \ {s}]]
        \/ thread' = [thread EXCEPT ![c] = [t EXCEPT !.todo = @ \ {s}]]
    BY <1>6 DEF StopUnsubscribes
  <2> QED
    BY <1>1, <2>1, <2>2
<1>7. CASE CloseDone(c) \/ CloseMessages(c)
  BY <1>0, <1>1, <1>7 DEF CloseDone, CloseMessages
<1>8. CASE Answer(c)
  BY <1>0, <1>8 DEF Answer, BrokerTakes, BrokerRefuses, AnswerRead
<1> QED
  BY <1>2, <1>3, <1>4, <1>5, <1>6, <1>7, <1>8 DEF OpenStep, StopStep

LEMMA StepShapes ==
    ASSUME Structure, NEW c \in Callers, OpenStep(c) \/ StopStep(c) \/ Answer(c)
    PROVE  Shapes'
<1> DEFINE t == thread[c]
<1>0. /\ Shapes /\ thread' \in [Callers -> Threads]
      /\ t.op = "open" \/ t.op = "stop" => t.route \in Routes /\ Begun(t.route)
  <2>1. ThreadsFit
    BY DEF Structure
  <2>2. t.op = "open" \/ t.op = "stop" => t.route \in Routes /\ Begun(t.route)
    BY <2>1 DEF ThreadsFit, OpenerFits, StopperFits, Begun
  <2> QED
    BY <2>2, StepThread DEF Structure, Shapes
<1> USE DEF Shapes, Begun, Stages, clients, channel, counts, filters, others, At
<1>1. ASSUME NEW stages \in Stages \ {"new"}, t.op = "open" \/ t.op = "stop",
             stage' = [stage EXCEPT ![t.route] = stages],
             UNCHANGED <<clients, dispatcher, config, channel, counts, filters>>
      PROVE  Shapes'
  BY <1>0, <1>1
<1>2. ASSUME NEW s, NEW r \in Routes \cup {None}, r # None => Begun(r),
             callback' = [callback EXCEPT ![s] = r] \/ UNCHANGED callback,
             UNCHANGED <<dispatcher, stage, config, channel, counts, filters>>
      PROVE  Shapes'
  BY <1>0, <1>2
<1>3. ASSUME NEW s \in Sessions, OpenPassesOver(c, s) PROVE Shapes'
  BY <1>0, <1>1, <1>3 DEF OpenPassesOver, Returns
<1>4. ASSUME NEW s \in Sessions, OpenSubscribes(c, s) PROVE Shapes'
  BY <1>0, <1>2, <1>4 DEF OpenSubscribes
<1>5. CASE SubscribeAgain(c)
  BY <1>0, <1>2, <1>5 DEF SubscribeAgain
<1>6. CASE SubscribeGivenUp(c) \/ OpenEnds(c)
  BY <1>0, <1>1, <1>6 DEF SubscribeGivenUp, OpenEnds, Returns
<1>7. ASSUME NEW s \in Sessions, StopUnsubscribes(c, s) PROVE Shapes'
  BY <1>0, <1>2, <1>7 DEF StopUnsubscribes
<1>8. CASE CloseDone(c)
  <2>1. /\ done' = [done EXCEPT ![t.route] = TRUE]
        /\ UNCHANGED <<clients, dispatcher, stage, config, closed, counts,
                       filters>>
    BY <1>8 DEF CloseDone
  <2>2. done' \in [Routes -> BOOLEAN]
    BY <1>0, <2>1
  <2> QED
    BY <1>0, <2>1, <2>2
<1>9. CASE CloseMessages(c)
  <2>1. /\ t.route \in Routes /\ Begun(t.route)
        /\ closed' = [closed EXCEPT ![t.route] = TRUE]
        /\ stage' = [stage EXCEPT ![t.route] = "stopped"]
        /\ UNCHANGED <<clients, dispatcher, config, done, counts, filters>>
    BY <1>0, <1>9 DEF CloseMessages
  <2>2. closed' \in [Routes -> BOOLEAN]
    BY <1>0, <2>1
  <2>3. stage' \in [Routes -> Stages]
    BY <1>0, <2>1
  <2>4. \A r \in Routes : Begun(r)' => Begun(r)
    BY <1>0, <2>1
  <2> QED
    BY <1>0, <2>1, <2>2, <2>3, <2>4
<1>10. CASE StopAgainReturns(c) \/ AnswerRead(c)
  BY <1>0, <1>10 DEF StopAgainReturns, AnswerRead
<1>11. CASE BrokerTakes(c) \/ BrokerRefuses(c)
  <2>1. UNCHANGED <<callback, dispatcher, stage, config, channel, counts,
                    filters>>
    BY <1>11 DEF BrokerTakes, BrokerRefuses
  <2> QED
    BY <1>0, <2>1
<1> QED
  BY <1>3, <1>4, <1>5, <1>6, <1>7, <1>8, <1>9, <1>10, <1>11
  DEF OpenStep, StopStep, Answer

LEMMA OtherShapes ==
    ASSUME Structure, MessagesFit,
           \/ \E c \in Callers, r \in Routes : Stop(c, r)
           \/ \E r \in Routes, f \in Filters : AddFilter(r, f)
           \/ \E r \in Routes : Read(r)
           \/ \E s \in Sessions : \/ ConnectionLost(s) \/ Reconnected(s)
                                  \/ \E rejects \in SUBSET Filters :
                                       MessageArrives(s, rejects)
                                  \/ Handling(s)
    PROVE  Shapes'
<1> USE DEF Structure, Shapes, Begun, clients, channel, counts, filters, others
<1>1. ASSUME NEW c \in Callers, NEW r \in Routes, Stop(c, r) PROVE Shapes'
  <2>1. config[r].target \in SUBSET Sessions
    BY <1>1, ConfigsAssumption DEF Stop, Config
  <2>2. thread' \in [Callers -> Threads]
    BY <1>1, <2>1 DEF Stop, Threads, Idle
  <2>3. stage' \in [Routes -> Stages]
    BY <1>1 DEF Stop, Stages
  <2> QED
    BY <1>1, <2>2, <2>3 DEF Stop
<1>2. ASSUME NEW r \in Routes, NEW f \in Filters, AddFilter(r, f) PROVE Shapes'
  <2>1. FiltersOf(r) \subseteq Filters \cup {None}
    BY DEF FiltersOf
  <2>2. /\ added' \in [Routes -> SUBSET (Filters \cup {None})]
        /\ onSpare' \in [Routes -> BOOLEAN]
        /\ spareFilter' \in Filters \cup {None}
    <3>1. CASE config[r].spare /\ FiltersOf(r) = {}
      BY <1>2, <3>1 DEF AddFilter
    <3>2. CASE ~(config[r].spare /\ FiltersOf(r) = {})
      <4>1. FiltersOf(r) \cup {f} \in SUBSET (Filters \cup {None})
        BY <2>1
      <4>2. /\ added' = [added EXCEPT ![r] = FiltersOf(r) \cup {f}]
            /\ onSpare' = [onSpare EXCEPT ![r] = FALSE]
            /\ UNCHANGED spareFilter
        BY <1>2, <3>2 DEF AddFilter
      <4> QED
        BY <4>1, <4>2
    <3> QED
      BY <3>1, <3>2
  <2>3. given' \in [Routes -> SUBSET Filters]
    BY <1>2 DEF AddFilter
  <2> QED
    BY <1>2, <2>2, <2>3 DEF AddFilter
<1>3. ASSUME NEW r \in Routes, Read(r) PROVE Shapes'
  BY <1>3 DEF Read
<1>4. ASSUME NEW s \in Sessions, ConnectionLost(s) PROVE Shapes'
  <2>1. thread' \in [Callers -> Threads]
    <3>1. ASSUME NEW c \in Callers, NEW pc \in {"failed", "next"}
          PROVE  [thread[c] EXCEPT !.pc = pc] \in Threads
      BY DEF Threads
    <3> QED
      BY <1>4, <3>1 DEF ConnectionLost
  <2> QED
    BY <1>4, <2>1 DEF ConnectionLost
<1>5. ASSUME NEW s \in Sessions, Reconnected(s) PROVE Shapes'
  BY <1>5 DEF Reconnected
<1>6. ASSUME NEW s \in Sessions, NEW rejects \in SUBSET Filters,
             MessageArrives(s, rejects)
      PROVE  Shapes'
  BY <1>6 DEF MessageArrives, Messages
<1>7. ASSUME NEW s \in Sessions, Handling(s) PROVE Shapes'
  <2>1. Receiver(s) \in Routes
    BY <1>7 DEF Handling, CheckDone, FilterAndTransform, DeliverMessage,
       DeliverPanics, HasMessage, MessagesFit, MessageFits
  <2>2. \/ UNCHANGED stats
        \/ \E counter \in {"received", "dropped", "errors"} :
              Counts(s, counter)
    BY <1>7 DEF Handling, CheckDone, FilterAndTransform, DeliverMessage,
       DeliverPanics
  <2>3. \/ UNCHANGED fate
        \/ \E end \in {"delivered", "rejected", "panicked"} : Becomes(s, end)
    BY <1>7 DEF Handling, CheckDone, FilterAndTransform, DeliverMessage,
       DeliverPanics
  <2>4. \/ MessageEnds(s)
        \/ \E pc \in {"filter", "deliver"} : MessageGoes(s, pc)
    BY <1>7 DEF Handling, CheckDone, FilterAndTransform, DeliverMessage,
       DeliverPanics
  <2>5. stats' \in [Routes -> Stats]
    <3>1. stats \in [Routes -> Stats]
      OBVIOUS
    <3> HIDE DEF Structure, Shapes
    <3>2. ASSUME NEW counter \in {"received", "dropped", "errors"},
                 Counts(s, counter)
          PROVE  stats' \in [Routes -> Stats]
      <4>1. stats[Receiver(s)] \in Stats
        BY <2>1, <3>1
      <4>2. [stats[Receiver(s)] EXCEPT ![counter] = @ + 1] \in Stats
        BY <4>1 DEF Stats
      <4> QED
        BY <3>1, <3>2, <4>2 DEF Counts
    <3> QED
      BY <2>2, <3>1, <3>2
  <2>6. fate' \in [Routes -> Fates]
    <3>1. CASE UNCHANGED fate
      BY <3>1
    <3>2. ASSUME NEW end \in {"delivered", "rejected", "panicked"},
                 Becomes(s, end)
          PROVE  fate' \in [Routes -> Fates]
      <4>1. fate[Receiver(s)] \in Fates
        BY <2>1
      <4> HIDE DEF Structure, Shapes
      <4>2. [fate[Receiver(s)] EXCEPT ![end] = @ + 1] \in Fates
        BY <4>1 DEF Fates
      <4> USE DEF Structure, Shapes
      <4> QED
        BY <2>1, <3>2, <4>2 DEF Becomes
    <3> QED
      BY <2>3, <3>1, <3>2
  <2>7. dispatcher' \in [Sessions -> Messages]
    <3>1. CASE MessageEnds(s)
      <4>1. Quiet \in Messages
        BY DEF Messages, Quiet
      <4> QED
        BY <3>1, <4>1 DEF MessageEnds
    <3>2. ASSUME NEW pc \in {"filter", "deliver"}, MessageGoes(s, pc)
          PROVE  dispatcher' \in [Sessions -> Messages]
      <4>1. [dispatcher[s] EXCEPT !.pc = pc] \in Messages
        <5>1. dispatcher[s] \in Messages
          OBVIOUS
        <5> HIDE DEF Structure, Shapes
        <5> QED
          BY <5>1 DEF Messages
      <4> QED
        BY <3>2, <4>1 DEF MessageGoes
    <3> QED
      BY <2>4, <3>1, <3>2
  <2>8. UNCHANGED <<clients, stage, config, done, closed, filters, thread>>
    BY <1>7 DEF Handling, CheckDone, FilterAndTransform, DeliverMessage,
       DeliverPanics
  <2> QED
    BY <2>5, <2>6, <2>7, <2>8
<1> QED
  BY <1>1, <1>2, <1>3, <1>4, <1>5, <1>6, <1>7

-----------------------------------------------------------------------------
(* The structure: which goroutine is where, and whose a callback is.        *)
Fits == ThreadsFit /\ OneOpener /\ DoneFirst /\ CallbacksFit

LEMMA OpenFits ==
    ASSUME Structure, NEW c \in Callers, NEW r \in Routes, NEW form \in Configs,
           Open(c, r, form)
    PROVE  Fits'
<1> USE DEF Open, Structure, Shapes, clients, channel
<1>1. ThreadsFit'
  BY DEF ThreadsFit, OpenerFits, StopperFits, Idle
<1>2. OneOpener'
  BY DEF OneOpener, Opens, Idle, ThreadsFit, OpenerFits
<1>3. DoneFirst' /\ CallbacksFit'
  BY DEF DoneFirst, CallbacksFit, Begun
<1> QED
  BY <1>1, <1>2, <1>3 DEF Fits

LEMMA StopFits ==
    ASSUME Structure, NEW c \in Callers, NEW r \in Routes, Stop(c, r)
    PROVE  Fits'
<1> USE DEF Stop, Structure, Shapes, clients, channel
<1>1. ThreadsFit'
  BY DEF ThreadsFit, OpenerFits, StopperFits, Idle
<1>2. OneOpener'
  BY DEF OneOpener, Opens, Idle
<1>3. DoneFirst' /\ CallbacksFit'
  BY DEF DoneFirst, CallbacksFit, Begun
<1> QED
  BY <1>1, <1>2, <1>3 DEF Fits

LEMMA ReturnFits ==
    ASSUME Structure, NEW c \in Callers, thread[c].op = "open",
           NEW outcome \in {"open", "failed"}, Returns(c, outcome)
    PROVE  Fits'
<1> USE DEF Returns, Structure, Shapes, clients, channel
<1>0. thread[c].route \in Routes /\ stage[thread[c].route] = "opening"
  BY DEF ThreadsFit, OpenerFits
<1>1. ThreadsFit'
  BY <1>0 DEF ThreadsFit, OpenerFits, StopperFits, Idle, OneOpener, Opens
<1>2. OneOpener'
  BY DEF OneOpener, Opens, Idle
<1>3. DoneFirst' /\ CallbacksFit'
  BY <1>0 DEF DoneFirst, CallbacksFit, Begun
<1> QED
  BY <1>1, <1>2, <1>3 DEF Fits

LEMMA StepFits ==
    ASSUME Structure, NEW c \in Callers, OpenStep(c) \/ StopStep(c) \/ Answer(c)
    PROVE  Fits'
<1>0. ASSUME thread[c].op = "open", Returns(c, "open") \/ Returns(c, "failed")
      PROVE  Fits'
  BY <1>0, ReturnFits
<1> USE DEF Structure, Shapes, Begun, clients, channel, others, At, Goes,
            Fits, ThreadsFit, OpenerFits, StopperFits, OneOpener, Opens,
            DoneFirst, CallbacksFit
<1>1. ASSUME NEW s \in Sessions, OpenPassesOver(c, s) PROVE Fits'
  <2>1. CASE Returns(c, "failed")
    BY <1>0, <1>1, <2>1 DEF OpenPassesOver
  <2>2. CASE thread' = [thread EXCEPT ![c].todo = @ \ {s}] /\ UNCHANGED others
    BY <1>1, <2>2 DEF OpenPassesOver
  <2> QED
    BY <1>1, <2>1, <2>2 DEF OpenPassesOver
<1>2. ASSUME NEW s \in Sessions, OpenSubscribes(c, s) PROVE Fits'
  <2> DEFINE q == thread[c].route
  <2>1. /\ thread[c].op = "open" /\ OpenerFits(c) /\ s \in thread[c].todo
        /\ UNCHANGED <<stage, config, done, closed>>
        /\ callback' = [callback EXCEPT ![s] = q] \/ UNCHANGED callback
        /\ \E pc \in {"sent", "failed"} :
             thread' = [thread EXCEPT ![c].pc = pc, ![c].session = s,
                                      ![c].todo = @ \ {s}, ![c].tries = 1]
    BY <1>2 DEF OpenSubscribes
  <2>2. ThreadsFit'
    <3>1. \A d \in Callers \ {c} : thread'[d] = thread[d]
      BY <2>1
    <3>2. OpenerFits(c)' /\ thread'[c].op = "open"
      BY <2>1
    <3>3. ASSUME NEW d \in Callers \ {c}
          PROVE  /\ thread'[d].op = "none" => thread'[d].pc = "idle"
                 /\ thread'[d].op = "open" => OpenerFits(d)'
                 /\ thread'[d].op = "stop" => StopperFits(d)'
      BY <2>1, <3>1
    <3> QED
      BY <3>2, <3>3
  <2>3. OneOpener' /\ DoneFirst'
    BY <2>1
  <2>4. CallbacksFit'
    BY <2>1
  <2> QED
    BY <2>2, <2>3, <2>4
<1>3. CASE SubscribeAgain(c)
  <2> DEFINE q == thread[c].route
  <2>1. /\ thread[c].op = "open" /\ OpenerFits(c) /\ thread[c].pc = "failed"
        /\ UNCHANGED <<stage, config, done, closed>>
        /\ \/ callback' = [callback EXCEPT ![thread[c].session] = q]
           \/ UNCHANGED callback
        /\ \E pc \in {"sent", "failed"} :
             thread' = [thread EXCEPT ![c].pc = pc, ![c].tries = @ + 1]
    BY <1>3 DEF SubscribeAgain
  <2>2. ThreadsFit'
    <3>1. \A d \in Callers \ {c} : thread'[d] = thread[d]
      BY <2>1
    <3>2. OpenerFits(c)' /\ thread'[c].op = "open"
      BY <2>1
    <3>3. ASSUME NEW d \in Callers \ {c}
          PROVE  /\ thread'[d].op = "none" => thread'[d].pc = "idle"
                 /\ thread'[d].op = "open" => OpenerFits(d)'
                 /\ thread'[d].op = "stop" => StopperFits(d)'
      BY <2>1, <3>1
    <3> QED
      BY <3>2, <3>3
  <2>3. OneOpener' /\ DoneFirst'
    BY <2>1
  <2>4. CallbacksFit'
    BY <2>1
  <2> QED
    BY <2>2, <2>3, <2>4
<1>4. CASE SubscribeGivenUp(c)
  <2>1. CASE Returns(c, "failed")
    BY <1>0, <1>4, <2>1 DEF SubscribeGivenUp
  <2>2. CASE Goes(c, "next") /\ UNCHANGED others
    BY <1>4, <2>2 DEF SubscribeGivenUp
  <2> QED
    BY <1>4, <2>1, <2>2 DEF SubscribeGivenUp
<1>5. CASE OpenEnds(c)
  BY <1>0, <1>5 DEF OpenEnds
<1>6. ASSUME NEW s \in Sessions, StopUnsubscribes(c, s) PROVE Fits'
  <2>1. /\ thread[c].op = "stop" /\ s \in thread[c].todo
        /\ \/ thread' = [thread EXCEPT ![c].pc = "sent", ![c].session = s,
                                      ![c].todo = @ \ {s}]
           \/ thread' = [thread EXCEPT ![c].todo = @ \ {s}]
        /\ UNCHANGED <<stage, config, done, closed>>
    BY <1>6 DEF StopUnsubscribes
  <2>2. /\ thread' \in [Callers -> Threads]
        /\ \A d \in Callers \ {c} : thread'[d] = thread[d]
        /\ thread'[c].op = "stop" /\ thread'[c].route = thread[c].route
        /\ thread'[c].todo = thread[c].todo \ {s}
        /\ thread'[c].pc \in {"next", "sent"}
    <3>1. Shapes'
      BY <1>6, StepShapes DEF StopStep
    <3>2. thread[c].pc = "next" /\ thread[c] \in Threads
      BY <1>6 DEF StopUnsubscribes
    <3>3. CASE thread' = [thread EXCEPT ![c].todo = @ \ {s}]
      BY <2>1, <3>1, <3>2, <3>3 DEF Threads
    <3>4. CASE thread' = [thread EXCEPT ![c].pc = "sent", ![c].session = s,
                                        ![c].todo = @ \ {s}]
      BY <2>1, <3>1, <3>2, <3>4 DEF Threads
    <3> QED
      BY <2>1, <3>3, <3>4
  <2>4. ThreadsFit'
    <3>1. StopperFits(c)'
      BY <2>1, <2>2
    <3>2. ASSUME NEW d \in Callers \ {c}
          PROVE  /\ thread'[d].op = "none" => thread'[d].pc = "idle"
                 /\ thread'[d].op = "open" => OpenerFits(d)'
                 /\ thread'[d].op = "stop" => StopperFits(d)'
      BY <2>1, <2>2
    <3> QED
      BY <2>2, <3>1, <3>2
  <2>5. OneOpener' /\ DoneFirst'
    BY <2>1, <2>2
  <2>3. CallbacksFit'
    BY <1>6, <2>1 DEF StopUnsubscribes
  <2> QED
    BY <2>3, <2>4, <2>5
<1>7. CASE CloseDone(c)
  BY <1>7 DEF CloseDone
<1>8. CASE CloseMessages(c)
  BY <1>8 DEF CloseMessages, Idle
<1>9. CASE StopAgainReturns(c)
  BY <1>9 DEF StopAgainReturns, Idle
<1>10. CASE BrokerTakes(c)
  BY <1>10 DEF BrokerTakes
<1>11. CASE BrokerRefuses(c)
  BY <1>11 DEF BrokerRefuses
<1>12. CASE AnswerRead(c)
  BY <1>12 DEF AnswerRead
<1> QED
  BY <1>1, <1>2, <1>3, <1>4, <1>5, <1>6, <1>7, <1>8, <1>9, <1>10, <1>11, <1>12
  DEF OpenStep, StopStep, Answer

LEMMA LossFits ==
    ASSUME Structure, NEW s \in Sessions, ConnectionLost(s)
    PROVE  Fits'
  BY DEF ConnectionLost, Structure, Shapes, Begun, clients, channel,
     Fits, ThreadsFit, OpenerFits, StopperFits, OneOpener, Opens, DoneFirst,
     CallbacksFit

LEMMA FitsUnchanged ==
    ASSUME Structure,
           UNCHANGED <<thread, callback, stage, config, done, closed>>
    PROVE  Fits'
  BY DEF Structure, Begun, Fits, ThreadsFit, OpenerFits, StopperFits,
     OneOpener, Opens, DoneFirst, CallbacksFit

LEMMA NextStructure ==
    ASSUME Structure, MessagesFit, Next
    PROVE  Structure'
<1>1. ASSUME NEW c \in Callers, NEW r \in Routes, Stop(c, r) PROVE Structure'
  BY <1>1, OtherShapes, StopFits DEF Structure, Fits
<1>2. ASSUME NEW c \in Callers, NEW r \in Routes, NEW form \in Configs,
             Open(c, r, form)
      PROVE  Structure'
  BY <1>2, OpenShapes, OpenFits DEF Structure, Fits
<1>3. ASSUME NEW c \in Callers, OpenStep(c) \/ StopStep(c) \/ Answer(c)
      PROVE  Structure'
  BY <1>3, StepShapes, StepFits DEF Structure, Fits
<1>4. ASSUME NEW s \in Sessions, ConnectionLost(s) PROVE Structure'
  BY <1>4, OtherShapes, LossFits DEF Structure, Fits
<1>5. ASSUME \/ \E r \in Routes, f \in Filters : AddFilter(r, f)
             \/ \E r \in Routes : Read(r)
             \/ \E s \in Sessions :
                  \/ Reconnected(s) \/ Handling(s)
                  \/ \E rejects \in SUBSET Filters : MessageArrives(s, rejects)
      PROVE  Structure'
  <2>1. UNCHANGED <<thread, callback, stage, config, done, closed>>
    BY <1>5 DEF AddFilter, Read, Reconnected, MessageArrives, Handling,
       CheckDone, FilterAndTransform, DeliverMessage, DeliverPanics, clients,
       channel
  <2>2. Shapes'
    BY <1>5, OtherShapes
  <2> QED
    BY <2>1, <2>2, FitsUnchanged DEF Structure, Fits
<1> QED
  BY <1>1, <1>2, <1>3, <1>4, <1>5 DEF Next

-----------------------------------------------------------------------------
(* What a step may change, seen from the messages, the filters and the      *)
(* stages of the routes.                                                    *)
LEMMA ThreadFrame ==
    ASSUME NEW c \in Callers, OpenStep(c) \/ StopStep(c) \/ Answer(c)
    PROVE  UNCHANGED <<dispatcher, config, stats, fate, filters>>
  BY DEF OpenStep, StopStep, Answer, OpenPassesOver, OpenSubscribes,
     SubscribeAgain, SubscribeGivenUp, OpenEnds, StopUnsubscribes, CloseDone,
     CloseMessages, StopAgainReturns, BrokerTakes, BrokerRefuses, AnswerRead,
     Returns, counts, others

LEMMA MessageFrame ==
    ASSUME Next
    PROVE  \/ UNCHANGED <<dispatcher, stats, fate>>
           \/ \E s \in Sessions, rejects \in SUBSET Filters :
                MessageArrives(s, rejects)
           \/ \E s \in Sessions : Handling(s)
<1>1. ASSUME NEW c \in Callers, OpenStep(c) \/ StopStep(c) \/ Answer(c)
      PROVE  UNCHANGED <<dispatcher, stats, fate>>
  BY <1>1, ThreadFrame
<1>2. ASSUME \/ \E c \in Callers, r \in Routes :
                  Stop(c, r) \/ \E form \in Configs : Open(c, r, form)
             \/ \E r \in Routes, f \in Filters : AddFilter(r, f)
             \/ \E r \in Routes : Read(r)
             \/ \E s \in Sessions : ConnectionLost(s) \/ Reconnected(s)
      PROVE  UNCHANGED <<dispatcher, stats, fate>>
  BY <1>2 DEF Stop, Open, AddFilter, Read, ConnectionLost, Reconnected, counts
<1> QED
  BY <1>1, <1>2 DEF Next

LEMMA FilterFrame ==
    ASSUME Next
    PROVE  \/ UNCHANGED filters
           \/ \E r \in Routes, f \in Filters : AddFilter(r, f)
<1>1. ASSUME NEW c \in Callers, OpenStep(c) \/ StopStep(c) \/ Answer(c)
      PROVE  UNCHANGED filters
  BY <1>1, ThreadFrame
<1>2. ASSUME \/ \E c \in Callers, r \in Routes :
                  Stop(c, r) \/ \E form \in Configs : Open(c, r, form)
             \/ \E r \in Routes : Read(r)
             \/ \E s \in Sessions :
                  \/ ConnectionLost(s) \/ Reconnected(s) \/ Handling(s)
                  \/ \E rejects \in SUBSET Filters : MessageArrives(s, rejects)
      PROVE  UNCHANGED filters
  BY <1>2 DEF Stop, Open, Read, ConnectionLost, Reconnected, Handling,
     MessageArrives, CheckDone, FilterAndTransform, DeliverMessage,
     DeliverPanics
<1> QED
  BY <1>1, <1>2 DEF Next

(* Nothing of a route is taken back: its configuration is that of its       *)
(* opening, and what is closed or given stays so.                           *)
Kept(r) ==
    /\ Begun(r) => Begun(r)' /\ config'[r] = config[r]
    /\ given[r] \subseteq given'[r]
    /\ (done[r] => done'[r]) /\ (closed[r] => closed'[r])

LEMMA NextKeeps ==
    ASSUME Structure, Next
    PROVE  \A r \in Routes : Kept(r)
<1> USE DEF Structure, Shapes, Kept, Begun
<1>1. ASSUME NEW c \in Callers, NEW r \in Routes, Stop(c, r)
      PROVE  \A q \in Routes : Kept(q)
  BY <1>1 DEF Stop, channel, filters
<1>2. ASSUME NEW c \in Callers, NEW r \in Routes, NEW form \in Configs,
             Open(c, r, form)
      PROVE  \A q \in Routes : Kept(q)
  BY <1>2 DEF Open, channel, filters
<1>3. ASSUME NEW c \in Callers, OpenStep(c) \/ StopStep(c) \/ Answer(c)
      PROVE  \A q \in Routes : Kept(q)
  <2>1. UNCHANGED <<config, given>>
    BY <1>3, ThreadFrame DEF filters
  <2>2. \/ UNCHANGED stage
        \/ \E outcome \in {"open", "failed", "stopped"} :
             stage' = [stage EXCEPT ![thread[c].route] = outcome]
    BY <1>3 DEF OpenStep, StopStep, Answer, OpenPassesOver, OpenSubscribes,
       SubscribeAgain, SubscribeGivenUp, OpenEnds, StopUnsubscribes, CloseDone,
       CloseMessages, StopAgainReturns, BrokerTakes, BrokerRefuses, AnswerRead,
       Returns, others
  <2>3. \/ UNCHANGED <<done, closed>>
        \/ CloseDone(c) \/ CloseMessages(c)
    BY <1>3 DEF OpenStep, StopStep, Answer, OpenPassesOver, OpenSubscribes,
       SubscribeAgain, SubscribeGivenUp, OpenEnds, StopUnsubscribes,
       StopAgainReturns, BrokerTakes, BrokerRefuses, AnswerRead,
       Returns, others, channel
  <2>4. \A q \in Routes : (done[q] => done'[q]) /\ (closed[q] => closed'[q])
    BY <2>3 DEF CloseDone, CloseMessages
  <2>5. \A q \in Routes : Begun(q) => Begun(q)'
    BY <2>2
  <2> QED
    BY <2>1, <2>4, <2>5
<1>4. ASSUME NEW r \in Routes, NEW f \in Filters, AddFilter(r, f)
      PROVE  \A q \in Routes : Kept(q)
  BY <1>4 DEF AddFilter, channel
<1>5. ASSUME \/ \E r \in Routes : Read(r)
             \/ \E s \in Sessions :
                  \/ ConnectionLost(s) \/ Reconnected(s) \/ Handling(s)
                  \/ \E rejects \in SUBSET Filters : MessageArrives(s, rejects)
      PROVE  \A q \in Routes : Kept(q)
  BY <1>5 DEF Read, ConnectionLost, Reconnected, Handling, MessageArrives,
     CheckDone, FilterAndTransform, DeliverMessage, DeliverPanics, channel,
     filters
<1> QED
  BY <1>1, <1>2, <1>3, <1>4, <1>5 DEF Next
-----------------------------------------------------------------------------
(* What becomes of the message a session's client is in the callback with.  *)
LEMMA HandlingMoves ==
    ASSUME Shapes, NEW s \in Sessions, Handling(s)
    PROVE  /\ dispatcher[s].pc \in {"check", "filter", "deliver"}
           /\ UNCHANGED <<stage, config, done, closed, filters>>
           /\ \A q \in Sessions \ {s} : dispatcher'[q] = dispatcher[q]
           /\ \/ dispatcher'[s] = Quiet
              \/ /\ dispatcher[s].pc = "check" /\ ~done[Receiver(s)]
                 /\ dispatcher'[s] = [dispatcher[s] EXCEPT !.pc =
                      IF config[Receiver(s)].advanced THEN "filter"
                                                      ELSE "deliver"]
              \/ /\ dispatcher[s].pc = "filter"
                 /\ dispatcher[s].rejects \cap FiltersOf(Receiver(s)) = {}
                 /\ dispatcher'[s] = [dispatcher[s] EXCEPT !.pc = "deliver"]
<1> USE DEF Shapes, HasMessage, MessageEnds, MessageGoes, Message
<1>1. CASE CheckDone(s)
  BY <1>1 DEF CheckDone, channel
<1>2. CASE FilterAndTransform(s)
  BY <1>2 DEF FilterAndTransform, channel
<1>3. CASE DeliverMessage(s)
  BY <1>3 DEF DeliverMessage
<1>4. CASE DeliverPanics(s)
  BY <1>4 DEF DeliverPanics, channel
<1> QED
  BY <1>1, <1>2, <1>3, <1>4 DEF Handling, CheckDone, channel

LEMMA ArrivalMoves ==
    ASSUME Shapes, NEW s \in Sessions, NEW rejects \in SUBSET Filters,
           MessageArrives(s, rejects)
    PROVE  /\ dispatcher[s] = Quiet /\ callback[s] \in Routes
           /\ UNCHANGED <<stage, config, done, closed, filters, stats, fate>>
           /\ \A q \in Sessions \ {s} : dispatcher'[q] = dispatcher[q]
           /\ dispatcher'[s].pc = "check" /\ dispatcher'[s].route = callback[s]
           /\ dispatcher'[s].owed = given[callback[s]]
           /\ dispatcher'[s].late => stage[callback[s]] = "stopped"
<1> DEFINE late == stage[callback[s]] = "stopped"
<1>2. dispatcher' = [dispatcher EXCEPT ![s] =
                       [pc |-> "check", route |-> callback[s],
                        rejects |-> rejects, owed |-> given[callback[s]],
                        late |-> late]]
  BY DEF MessageArrives
<1>3. late \in BOOLEAN
  OBVIOUS
<1>4. late => stage[callback[s]] = "stopped"
  OBVIOUS
<1>5. /\ dispatcher'[s].pc = "check" /\ dispatcher'[s].route = callback[s]
      /\ dispatcher'[s].owed = given[callback[s]]
      /\ dispatcher'[s].late = late
  <2> HIDE DEF late
  <2> QED
    BY <1>2, <1>3 DEF Shapes
<1>6. /\ dispatcher[s] = Quiet /\ callback[s] \in Routes
      /\ UNCHANGED <<stage, config, done, closed, filters, stats, fate>>
      /\ \A q \in Sessions \ {s} : dispatcher'[q] = dispatcher[q]
  BY DEF MessageArrives, Shapes, channel, counts
<1> QED
  BY <1>4, <1>5, <1>6

LEMMA MessageStays ==
    ASSUME Structure, MessagesFit, Next, NEW q \in Sessions,
           dispatcher'[q] = dispatcher[q], dispatcher[q].pc # "idle"
    PROVE  MessageFits(q)'
<1>1. MessageFits(q) /\ Receiver(q)' = Receiver(q)
  BY DEF MessagesFit, Receiver
<1>2. Kept(Receiver(q))
  BY <1>1, NextKeeps DEF MessageFits
<1> QED
  BY <1>1, <1>2 DEF MessageFits, Kept

LEMMA NextMessagesFit ==
    ASSUME Structure, MessagesFit, Next
    PROVE  MessagesFit'
<1>1. CASE UNCHANGED <<dispatcher, stats, fate>>
  BY <1>1, MessageStays DEF MessagesFit
<1>2. ASSUME NEW s \in Sessions, NEW rejects \in SUBSET Filters,
             MessageArrives(s, rejects)
      PROVE  MessagesFit'
  <2>1. Begun(callback[s]) /\ s \in config[callback[s]].target
    BY <1>2, ArrivalMoves, Absent DEF Structure, CallbacksFit
  <2>2. stage[callback[s]] = "stopped" => done[callback[s]]
    BY <1>2, ArrivalMoves DEF Structure, DoneFirst
  <2>3. dispatcher'[s].pc # "idle" /\ MessageFits(s)'
    <3>1. /\ dispatcher'[s].pc = "check" /\ dispatcher'[s].route = callback[s]
          /\ dispatcher'[s].owed = given[callback[s]]
          /\ dispatcher'[s].late => stage[callback[s]] = "stopped"
          /\ UNCHANGED <<stage, config, done, given>>
      BY <1>2, ArrivalMoves DEF Structure, filters
    <3>2. callback[s] \in Routes
      BY <1>2, ArrivalMoves DEF Structure
    <3>3. dispatcher'[s].late => done'[callback[s]]
      BY <2>2, <3>1
    <3> QED
      BY <2>1, <3>1, <3>2, <3>3 DEF MessageFits, Receiver, Begun
  <2>4. \A q \in Sessions \ {s} : dispatcher'[q] = dispatcher[q]
    BY <1>2, ArrivalMoves DEF Structure
  <2> QED
    BY <2>3, <2>4, MessageStays DEF MessagesFit
<1>3. ASSUME NEW s \in Sessions, Handling(s) PROVE MessagesFit'
  <2>1. MessageFits(s)
    BY <1>3, HandlingMoves DEF Structure, MessagesFit
  <2>2. \/ dispatcher'[s] = Quiet
        \/ dispatcher'[s].pc # "idle" /\ MessageFits(s)'
    <3>1. CASE /\ dispatcher[s].pc = "check" /\ ~done[Receiver(s)]
               /\ dispatcher'[s] = [dispatcher[s] EXCEPT !.pc =
                    IF config[Receiver(s)].advanced THEN "filter"
                                                    ELSE "deliver"]
      <4>1. dispatcher[s] \in Messages
        BY DEF Structure, Shapes
      <4>2. /\ dispatcher'[s].pc \in {"filter", "deliver"}
            /\ dispatcher'[s].route = dispatcher[s].route
            /\ dispatcher'[s].owed = dispatcher[s].owed
            /\ dispatcher'[s].late = dispatcher[s].late
        BY <3>1, <4>1 DEF Messages
      <4> QED
        BY <1>3, <2>1, <3>1, <4>2, HandlingMoves
        DEF Structure, MessageFits, Receiver, Begun, filters
    <3>2. CASE /\ dispatcher[s].pc = "filter"
               /\ dispatcher'[s] = [dispatcher[s] EXCEPT !.pc = "deliver"]
      <4>1. dispatcher[s] \in Messages
        BY DEF Structure, Shapes
      <4>2. /\ dispatcher'[s].pc = "deliver"
            /\ dispatcher'[s].route = dispatcher[s].route
            /\ dispatcher'[s].owed = dispatcher[s].owed
            /\ dispatcher'[s].late = dispatcher[s].late
        BY <3>2, <4>1 DEF Messages
      <4> QED
        BY <1>3, <2>1, <3>2, <4>2, HandlingMoves
        DEF Structure, MessageFits, Receiver, Begun, filters
    <3> QED
      BY <1>3, <3>1, <3>2, HandlingMoves DEF Structure
  <2>3. \A q \in Sessions \ {s} : dispatcher'[q] = dispatcher[q]
    BY <1>3, HandlingMoves DEF Structure
  <2> QED
    BY <2>2, <2>3, MessageStays DEF MessagesFit, Quiet
<1> QED
  BY <1>1, <1>2, <1>3, MessageFrame
-----------------------------------------------------------------------------
(* The filters of a route, and those in the spare element of an array.      *)
LEMMA OverwrittenStays ==
    ASSUME Structure, FiltersKept, Next, NEW r \in Routes, Begun(r),
           Overwritten(r)
    PROVE  Overwritten(r)'
<1>1. PICK q \in Routes \ {r} : given[q] # {} /\ config[q].spare
  BY DEF Overwritten
<1>2. Begun(q)
  BY <1>1 DEF FiltersKept
<1>3. Kept(q) /\ Kept(r)
  BY NextKeeps
<1> QED
  BY <1>1, <1>2, <1>3 DEF Kept, Overwritten

LEMMA AddKeeps ==
    ASSUME Structure, FiltersKept, Next, NEW r \in Routes, NEW f \in Filters,
           AddFilter(r, f)
    PROVE  FiltersKept'
<1> USE DEF Structure, Shapes
<1>1. /\ Begun(r) /\ UNCHANGED <<stage, config>>
      /\ given' = [given EXCEPT ![r] = @ \cup {f}]
  BY DEF AddFilter, Begun
<1>2. \A q \in Routes : Overwritten(q) /\ Begun(q) => Overwritten(q)'
  BY OverwrittenStays
<1>3. CASE config[r].spare /\ FiltersOf(r) = {}
  <2>1. /\ onSpare' = [onSpare EXCEPT ![r] = TRUE] /\ spareFilter' = f
        /\ UNCHANGED added
    BY <1>3 DEF AddFilter
  <2>2. \A q \in Routes : /\ onSpare'[q] => config'[q].spare
                          /\ given'[q] # {} \/ onSpare'[q] => Begun(q)'
    BY <1>1, <1>3, <2>1 DEF FiltersKept, Begun
  <2>3. given'[r] \subseteq FiltersOf(r)' \/ Overwritten(r)'
    <3>1. FiltersOf(r)' = added[r] \cup {f}
      BY <2>1 DEF FiltersOf
    <3>2. given[r] \subseteq FiltersOf(r) \/ Overwritten(r)
      BY DEF FiltersKept
    <3> QED
      BY <1>1, <1>2, <1>3, <3>1, <3>2
  <2>4. ASSUME NEW q \in Routes \ {r}
        PROVE  given'[q] \subseteq FiltersOf(q)' \/ Overwritten(q)'
    <3>1. CASE onSpare[q]
      <4>1. config[q].spare /\ given'[r] # {}
        BY <1>1, <3>1 DEF FiltersKept
      <4> QED
        BY <1>1, <1>3, <4>1 DEF Overwritten
    <3>2. CASE ~onSpare[q]
      <4>1. FiltersOf(q)' = FiltersOf(q) /\ given'[q] = given[q]
        BY <1>1, <2>1, <3>2 DEF FiltersOf
      <4>2. given[q] = {} \/ Begun(q)
        BY DEF FiltersKept
      <4> QED
        BY <1>2, <4>1, <4>2 DEF FiltersKept
    <3> QED
      BY <3>1, <3>2
  <2> QED
    BY <2>2, <2>3, <2>4 DEF FiltersKept
<1>4. CASE ~(config[r].spare /\ FiltersOf(r) = {})
  <2>1. /\ added' = [added EXCEPT ![r] = FiltersOf(r) \cup {f}]
        /\ onSpare' = [onSpare EXCEPT ![r] = FALSE] /\ UNCHANGED spareFilter
    BY <1>4 DEF AddFilter
  <2>2. \A q \in Routes : /\ onSpare'[q] => config'[q].spare
                          /\ given'[q] # {} \/ onSpare'[q] => Begun(q)'
    BY <1>1, <2>1 DEF FiltersKept, Begun
  <2>3. given'[r] \subseteq FiltersOf(r)' \/ Overwritten(r)'
    <3>1. FiltersOf(r)' = FiltersOf(r) \cup {f}
      <4>1. added'[r] = FiltersOf(r) \cup {f} /\ ~onSpare'[r]
        BY <2>1
      <4> QED
        BY <4>1 DEF FiltersOf
    <3>2. given[r] \subseteq FiltersOf(r) \/ Overwritten(r)
      BY DEF FiltersKept
    <3> QED
      BY <1>1, <1>2, <3>1, <3>2
  <2>4. ASSUME NEW q \in Routes \ {r}
        PROVE  given'[q] \subseteq FiltersOf(q)' \/ Overwritten(q)'
    <3>1. FiltersOf(q)' = FiltersOf(q) /\ given'[q] = given[q]
      BY <1>1, <2>1 DEF FiltersOf
    <3>2. given[q] = {} \/ Begun(q)
      BY DEF FiltersKept
    <3> QED
      BY <1>2, <3>1, <3>2 DEF FiltersKept
  <2> QED
    BY <2>2, <2>3, <2>4 DEF FiltersKept
<1> QED
  BY <1>3, <1>4

LEMMA NextFiltersKept ==
    ASSUME Structure, FiltersKept, Next
    PROVE  FiltersKept'
<1>1. CASE UNCHANGED filters
  <2>1. ASSUME NEW r \in Routes
        PROVE  /\ onSpare'[r] => config'[r].spare
               /\ given'[r] # {} \/ onSpare'[r] => Begun(r)'
               /\ given'[r] \subseteq FiltersOf(r)' \/ Overwritten(r)'
    <3>1. Kept(r) /\ FiltersOf(r)' = FiltersOf(r)
      BY <1>1, NextKeeps DEF filters, FiltersOf
    <3>2. Begun(r) /\ Overwritten(r) => Overwritten(r)'
      BY OverwrittenStays
    <3>3. CASE Begun(r)
      BY <1>1, <3>1, <3>2, <3>3 DEF FiltersKept, Kept, filters
    <3>4. CASE ~Begun(r)
      BY <1>1, <3>4 DEF FiltersKept, filters, Structure, Shapes
    <3> QED
      BY <3>3, <3>4
  <2> QED
    BY <2>1 DEF FiltersKept
<1>2. CASE \E r \in Routes, f \in Filters : AddFilter(r, f)
  BY <1>2, AddKeeps
<1> QED
  BY <1>1, <1>2, FilterFrame

LEMMA NextFiltersHold ==
    ASSUME Structure, MessagesFit, FiltersKept, FiltersHold, Next
    PROVE  FiltersHold'
<1> DEFINE Held(q) == /\ dispatcher[q].pc = "deliver"
                      /\ config[Receiver(q)].advanced
                      => \/ dispatcher[q].rejects \cap dispatcher[q].owed = {}
                         \/ Overwritten(Receiver(q))
<1>1. ASSUME NEW q \in Sessions, dispatcher'[q] = dispatcher[q]
      PROVE  Held(q)'
  <2>1. CASE dispatcher[q].pc = "deliver"
    <3>1. /\ Receiver(q) \in Routes /\ Begun(Receiver(q))
          /\ Receiver(q)' = Receiver(q)
      BY <1>1, <2>1 DEF MessagesFit, MessageFits, Receiver
    <3>2. /\ config'[Receiver(q)] = config[Receiver(q)]
          /\ Overwritten(Receiver(q)) => Overwritten(Receiver(q))'
      BY <3>1, NextKeeps, OverwrittenStays DEF Kept
    <3> QED
      BY <1>1, <3>1, <3>2 DEF FiltersHold
  <2>2. CASE dispatcher[q].pc # "deliver"
    BY <1>1, <2>2
  <2> QED
    BY <2>1, <2>2
<1>2. CASE UNCHANGED <<dispatcher, stats, fate>>
  BY <1>1, <1>2 DEF FiltersHold
<1>3. ASSUME NEW s \in Sessions, NEW rejects \in SUBSET Filters,
             MessageArrives(s, rejects)
      PROVE  FiltersHold'
  <2>1. dispatcher'[s].pc # "deliver"
    BY <1>3, ArrivalMoves DEF Structure
  <2>2. \A q \in Sessions \ {s} : dispatcher'[q] = dispatcher[q]
    BY <1>3, ArrivalMoves DEF Structure
  <2> QED
    BY <1>1, <2>1, <2>2 DEF FiltersHold
<1>4. ASSUME NEW s \in Sessions, Handling(s) PROVE FiltersHold'
  <2>0. dispatcher[s] \in Messages
    BY DEF Structure, Shapes
  <2>1. Held(s)'
    <3>1. CASE dispatcher'[s] = Quiet
      BY <3>1 DEF Quiet
    <3>2. CASE /\ dispatcher[s].pc = "check"
               /\ dispatcher'[s] = [dispatcher[s] EXCEPT !.pc =
                    IF config[Receiver(s)].advanced THEN "filter"
                                                    ELSE "deliver"]
      <4>1. Receiver(s)' = Receiver(s) /\ UNCHANGED config
        BY <1>4, <2>0, <3>2, HandlingMoves DEF Structure, Receiver, Messages
      <4> QED
        BY <2>0, <3>2, <4>1 DEF Messages
    <3>3. CASE /\ dispatcher[s].pc = "filter"
               /\ dispatcher[s].rejects \cap FiltersOf(Receiver(s)) = {}
               /\ dispatcher'[s] = [dispatcher[s] EXCEPT !.pc = "deliver"]
      <4>1. /\ Receiver(s)' = Receiver(s)
            /\ dispatcher'[s].rejects = dispatcher[s].rejects
            /\ dispatcher'[s].owed = dispatcher[s].owed
        BY <2>0, <3>3 DEF Receiver, Messages
      <4>2. /\ Receiver(s) \in Routes /\ Begun(Receiver(s))
            /\ dispatcher[s].owed \subseteq given[Receiver(s)]
        BY <3>3 DEF MessagesFit, MessageFits
      <4>3. \/ given[Receiver(s)] \subseteq FiltersOf(Receiver(s))
            \/ Overwritten(Receiver(s))'
        BY <4>1, <4>2, OverwrittenStays DEF FiltersKept
      <4> QED
        BY <3>3, <4>1, <4>2, <4>3
    <3> QED
      BY <1>4, <3>1, <3>2, <3>3, HandlingMoves DEF Structure
  <2>2. \A q \in Sessions \ {s} : dispatcher'[q] = dispatcher[q]
    BY <1>4, HandlingMoves DEF Structure
  <2> QED
    BY <1>1, <2>1, <2>2 DEF FiltersHold
<1> QED
  BY <1>2, <1>3, <1>4, MessageFrame
-----------------------------------------------------------------------------
(* The messages a route has in hand, past the check of done.                *)
InHand(r) == {s \in Sessions : /\ Receiver(s) = r
                               /\ dispatcher[s].pc \in {"filter", "deliver"}}

LEMMA HandsAreFinite ==
    ASSUME NEW r \in Routes
    PROVE  /\ Past(r) = Cardinality(InHand(r)) /\ IsFiniteSet(InHand(r))
           /\ Past(r) \in Nat
<1>1. Past(r) = Cardinality(InHand(r))
  BY DEF Past, InHand
<1>2. InHand(r) \subseteq Sessions
  BY DEF InHand
<1>3. IsFiniteSet(InHand(r))
  BY <1>2, SessionsAssumption, FS_Subset
<1> QED
  BY <1>1, <1>3, FS_CardinalityType

LEMMA HandsAreFiniteNext ==
    ASSUME NEW r \in Routes
    PROVE  /\ Past(r)' = Cardinality(InHand(r)') /\ IsFiniteSet(InHand(r)')
           /\ Past(r)' \in Nat
<1>1. Past(r)' = Cardinality(InHand(r)')
  BY DEF Past, InHand
<1>2. InHand(r)' \subseteq Sessions
  BY DEF InHand
<1>3. IsFiniteSet(InHand(r)')
  BY <1>2, SessionsAssumption, FS_Subset
<1> QED
  BY <1>1, <1>3, FS_CardinalityType

LEMMA PastMoves ==
    ASSUME NEW r \in Routes, NEW s \in Sessions,
           \A q \in Sessions \ {s} : dispatcher'[q] = dispatcher[q]
    PROVE  /\ (s \in InHand(r) <=> s \in InHand(r)') => Past(r)' = Past(r)
           /\ s \notin InHand(r) /\ s \in InHand(r)' => Past(r)' = Past(r) + 1
           /\ s \in InHand(r) /\ s \notin InHand(r)' => Past(r)' = Past(r) - 1
<1>1. \A q \in Sessions \ {s} : q \in InHand(r) <=> q \in InHand(r)'
  BY DEF InHand, Receiver
<1>2. InHand(r) \subseteq Sessions /\ InHand(r)' \subseteq Sessions
  BY DEF InHand
<1>3. ASSUME s \in InHand(r) <=> s \in InHand(r)'
      PROVE  Past(r)' = Past(r)
  <2>1. InHand(r)' = InHand(r)
    BY <1>1, <1>2, <1>3
  <2> QED
    BY <2>1, HandsAreFinite, HandsAreFiniteNext
<1>4. ASSUME s \notin InHand(r), s \in InHand(r)'
      PROVE  Past(r)' = Past(r) + 1
  <2>1. InHand(r)' = InHand(r) \cup {s}
    BY <1>1, <1>2, <1>4
  <2> QED
    BY <1>4, <2>1, HandsAreFinite, HandsAreFiniteNext, FS_AddElement
<1>5. ASSUME s \in InHand(r), s \notin InHand(r)'
      PROVE  Past(r)' = Past(r) - 1
  <2>1. InHand(r)' = InHand(r) \ {s}
    BY <1>1, <1>2, <1>5
  <2> QED
    BY <1>5, <2>1, HandsAreFinite, HandsAreFiniteNext, FS_RemoveElement
<1> QED
  BY <1>3, <1>4, <1>5

(* What a step of a callback changes in the books of its route, and of no   *)
(* other.                                                                   *)
Booked(s, r) ==
    \/ UNCHANGED <<stats, fate>> /\ Past(r)' = Past(r)
    \/ /\ ~done[r] /\ Counts(s, "received") /\ UNCHANGED fate
       /\ Past(r)' = Past(r) + 1
    \/ /\ Past(r)' = Past(r) - 1
       /\ \/ UNCHANGED fate /\ (Counts(s, "errors") \/ Counts(s, "dropped"))
          \/ /\ UNCHANGED stats
             /\ \/ Becomes(s, "rejected") \/ Becomes(s, "delivered")
                \/ Becomes(s, "panicked") /\ closed[r]

LEMMA HandlingBooks ==
    ASSUME Structure, MessagesFit, NEW s \in Sessions, Handling(s)
    PROVE  \E r \in Routes :
             /\ r = Receiver(s) /\ Booked(s, r)
             /\ \A q \in Routes \ {r} : Past(q)' = Past(q)
<1>1. PICK r \in Routes : r = Receiver(s)
  BY HandlingMoves DEF Structure, MessagesFit, MessageFits
<1>2. \A q \in Sessions \ {s} : dispatcher'[q] = dispatcher[q]
  BY HandlingMoves DEF Structure
<1>3. dispatcher[s] \in Messages /\ dispatcher \in [Sessions -> Messages]
  BY DEF Structure, Shapes
<1>4. MessageEnds(s) => \A q \in Routes : s \notin InHand(q)'
  BY <1>3, Absent DEF MessageEnds, InHand, Quiet
<1>5. ASSUME NEW pc \in {"filter", "deliver"}, MessageGoes(s, pc)
      PROVE  /\ s \in InHand(r)'
             /\ \A q \in Routes \ {r} : s \notin InHand(q)'
  BY <1>1, <1>3, <1>5 DEF MessageGoes, InHand, Receiver, Messages
<1>6. /\ s \in InHand(r) <=> dispatcher[s].pc \in {"filter", "deliver"}
      /\ \A q \in Routes \ {r} : s \notin InHand(q)
  BY <1>1 DEF InHand
<1>7. \/ MessageEnds(s)
      \/ \E pc \in {"filter", "deliver"} : MessageGoes(s, pc)
  BY DEF Handling, CheckDone, FilterAndTransform, DeliverMessage, DeliverPanics
<1>8. \A q \in Routes \ {r} : Past(q)' = Past(q)
  BY <1>2, <1>4, <1>5, <1>6, <1>7, PastMoves
<1>9. Booked(s, r)
  <2>1. CASE CheckDone(s)
    <3>1. s \notin InHand(r)
      BY <1>6, <2>1 DEF CheckDone, HasMessage
    <3>2. CASE done[r]
      BY <1>1, <1>2, <1>4, <2>1, <3>1, <3>2, PastMoves DEF CheckDone, Booked
    <3>3. CASE ~done[r]
      <4>1. \E pc \in {"filter", "deliver"} : MessageGoes(s, pc)
        BY <1>1, <2>1, <3>3 DEF CheckDone
      <4>2. Past(r)' = Past(r) + 1
        BY <1>2, <1>5, <3>1, <4>1, PastMoves
      <4> QED
        BY <1>1, <2>1, <3>3, <4>2 DEF CheckDone, Booked
    <3> QED
      BY <3>2, <3>3
  <2>2. CASE FilterAndTransform(s)
    <3>1. s \in InHand(r)
      BY <1>6, <2>2 DEF FilterAndTransform, HasMessage
    <3>2. CASE MessageGoes(s, "deliver") /\ UNCHANGED counts
      <4>1. Past(r)' = Past(r)
        BY <1>2, <1>5, <3>1, <3>2, PastMoves
      <4> QED
        BY <3>2, <4>1 DEF Booked, counts
    <3>3. CASE /\ MessageEnds(s)
               /\ \/ Counts(s, "errors") /\ UNCHANGED fate
                  \/ Becomes(s, "rejected") /\ UNCHANGED stats
      <4>1. Past(r)' = Past(r) - 1
        BY <1>2, <1>4, <3>1, <3>3, PastMoves
      <4> QED
        BY <3>3, <4>1 DEF Booked
    <3> QED
      BY <2>2, <3>2, <3>3 DEF FilterAndTransform
  <2>3. CASE DeliverMessage(s) \/ DeliverPanics(s)
    <3>1. s \in InHand(r) /\ MessageEnds(s)
      BY <1>6, <2>3 DEF DeliverMessage, DeliverPanics, HasMessage
    <3>2. Past(r)' = Past(r) - 1
      BY <1>2, <1>4, <3>1, PastMoves
    <3>3. \/ UNCHANGED fate /\ Counts(s, "dropped")
          \/ UNCHANGED stats /\ Becomes(s, "delivered")
          \/ UNCHANGED stats /\ Becomes(s, "panicked") /\ closed[r]
      BY <1>1, <2>3 DEF DeliverMessage, DeliverPanics
    <3> QED
      BY <3>2, <3>3 DEF Booked
  <2> QED
    BY <2>1, <2>2, <2>3 DEF Handling
<1> QED
  BY <1>1, <1>8, <1>9
LEMMA PastUnchanged ==
    ASSUME NEW r \in Routes, UNCHANGED dispatcher
    PROVE  Past(r)' = Past(r)
<1>1. InHand(r)' = InHand(r)
  BY DEF InHand, Receiver
<1> QED
  BY <1>1, HandsAreFinite, HandsAreFiniteNext

LEMMA ArrivalBooks ==
    ASSUME Structure, NEW s \in Sessions, NEW rejects \in SUBSET Filters,
           MessageArrives(s, rejects)
    PROVE  /\ UNCHANGED <<stats, fate>>
           /\ \A r \in Routes : Past(r)' = Past(r)
<1>1. \A r \in Routes : s \notin InHand(r) /\ s \notin InHand(r)'
  BY ArrivalMoves DEF Structure, InHand, Quiet
<1>2. /\ UNCHANGED <<stats, fate>>
      /\ \A q \in Sessions \ {s} : dispatcher'[q] = dispatcher[q]
  BY ArrivalMoves DEF Structure
<1> QED
  BY <1>1, <1>2, PastMoves

LEMMA NextAccounted ==
    ASSUME Structure, MessagesFit, EveryMessageAccounted, Next
    PROVE  EveryMessageAccounted'
<1>1. ASSUME UNCHANGED <<stats, fate>>,
             \A r \in Routes : Past(r)' = Past(r)
      PROVE  EveryMessageAccounted'
  BY <1>1 DEF EveryMessageAccounted
<1>2. ASSUME NEW s \in Sessions, Handling(s) PROVE EveryMessageAccounted'
  <2>1. PICK r \in Routes : /\ r = Receiver(s) /\ Booked(s, r)
                            /\ \A q \in Routes \ {r} : Past(q)' = Past(q)
    BY <1>2, HandlingBooks
  <2> DEFINE Sum(q) == stats[q].dropped + stats[q].errors + fate[q].delivered
                         + fate[q].rejected + fate[q].panicked + Past(q)
  <2>2. stats \in [Routes -> Stats] /\ fate \in [Routes -> Fates]
    BY DEF Structure, Shapes
  <2>3. \A q \in Routes \ {r} : stats'[q] = stats[q] /\ fate'[q] = fate[q]
    <3>1. \/ UNCHANGED stats
          \/ \E counter \in {"received", "dropped", "errors"} :
               Counts(s, counter)
      BY <2>1 DEF Booked
    <3>2. \/ UNCHANGED fate
          \/ \E end \in {"delivered", "rejected", "panicked"} : Becomes(s, end)
      BY <2>1 DEF Booked
    <3>3. \A q \in Routes \ {r} : stats'[q] = stats[q]
      BY <2>1, <2>2, <3>1 DEF Counts
    <3>4. \A q \in Routes \ {r} : fate'[q] = fate[q]
      BY <2>1, <2>2, <3>2 DEF Becomes
    <3> QED
      BY <3>3, <3>4
  <2>4. stats'[r].received = Sum(r)'
    <3>1. stats[r].received = Sum(r)
      BY DEF EveryMessageAccounted
    <3>2. Past(r) \in Nat /\ stats[r] \in Stats /\ fate[r] \in Fates
      BY <2>2, HandsAreFinite
    <3>3. CASE UNCHANGED <<stats, fate>> /\ Past(r)' = Past(r)
      BY <3>1, <3>3
    <3>4. CASE /\ Counts(s, "received") /\ UNCHANGED fate
               /\ Past(r)' = Past(r) + 1
      <4>1. stats'[r] = [stats[r] EXCEPT !.received = @ + 1]
        BY <2>1, <2>2, <3>4 DEF Counts
      <4>2. /\ stats'[r].received = stats[r].received + 1
            /\ stats'[r].dropped = stats[r].dropped
            /\ stats'[r].errors = stats[r].errors
        BY <3>2, <4>1 DEF Stats
      <4>3. /\ stats[r].received \in Nat /\ stats[r].dropped \in Nat
            /\ stats[r].errors \in Nat /\ fate[r].delivered \in Nat
            /\ fate[r].rejected \in Nat /\ fate[r].panicked \in Nat
        BY <3>2 DEF Stats, Fates
      <4> QED
        BY <3>1, <3>2, <3>4, <4>2, <4>3
    <3>5. CASE /\ Past(r)' = Past(r) - 1 /\ UNCHANGED fate
               /\ Counts(s, "errors") \/ Counts(s, "dropped")
      <4>1. \/ stats'[r] = [stats[r] EXCEPT !.errors = @ + 1]
            \/ stats'[r] = [stats[r] EXCEPT !.dropped = @ + 1]
        BY <2>1, <2>2, <3>5 DEF Counts
      <4> QED
        BY <3>1, <3>2, <3>5, <4>1 DEF Stats, Fates
    <3>6. CASE /\ Past(r)' = Past(r) - 1 /\ UNCHANGED stats
               /\ \/ Becomes(s, "rejected") \/ Becomes(s, "delivered")
                  \/ Becomes(s, "panicked")
      <4>1. \/ fate'[r] = [fate[r] EXCEPT !.rejected = @ + 1]
            \/ fate'[r] = [fate[r] EXCEPT !.delivered = @ + 1]
            \/ fate'[r] = [fate[r] EXCEPT !.panicked = @ + 1]
        BY <2>1, <2>2, <3>6 DEF Becomes
      <4> QED
        BY <3>1, <3>2, <3>6, <4>1 DEF Stats, Fates
    <3> QED
      BY <2>1, <3>3, <3>4, <3>5, <3>6 DEF Booked
  <2>5. ASSUME NEW q \in Routes \ {r} PROVE stats'[q].received = Sum(q)'
    BY <2>1, <2>3 DEF EveryMessageAccounted
  <2> QED
    BY <2>4, <2>5 DEF EveryMessageAccounted
<1> QED
  BY <1>1, <1>2, MessageFrame, PastUnchanged, ArrivalBooks

LEMMA NextPanicsBounded ==
    ASSUME Structure, MessagesFit, PanicsBounded, Next
    PROVE  PanicsBounded'
<1> SUFFICES ASSUME NEW r \in Routes
             PROVE  /\ fate'[r].panicked > 0 => closed'[r]
                    /\ Begun(r)' => fate'[r].panicked + Past(r)'
                                      <= Cardinality(config'[r].target)
                    /\ ~Begun(r)' => fate'[r].panicked = 0
  BY DEF PanicsBounded
<1>1. /\ fate[r] \in Fates /\ Past(r) \in Nat /\ Past(r)' \in Nat
      /\ stats \in [Routes -> Stats] /\ fate \in [Routes -> Fates]
  BY HandsAreFinite, HandsAreFiniteNext DEF Structure, Shapes
<1>2. Structure' /\ MessagesFit'
  BY NextStructure, NextMessagesFit
<1>3. Kept(r)
  BY NextKeeps
(* What a route has in hand comes from sessions of its own.                 *)
<1>4. ASSUME Begun(r)'
      PROVE  /\ Past(r)' <= Cardinality(config'[r].target)
             /\ Cardinality(config'[r].target) \in Nat
  <2>1. InHand(r)' \subseteq config'[r].target
    BY <1>2 DEF InHand, Receiver, MessagesFit, MessageFits
  <2>2. config'[r].target \subseteq Sessions
    BY <1>2, <1>4, ConfigsAssumption DEF Structure, Shapes, Config
  <2>3. IsFiniteSet(config'[r].target)
    BY <2>2, SessionsAssumption, FS_Subset
  <2> QED
    BY <2>1, <2>3, FS_Subset, FS_CardinalityType, HandsAreFiniteNext
<1>5. ASSUME fate'[r].panicked = fate[r].panicked,
             Past(r)' <= Past(r) \/ ~done[r]
      PROVE  /\ fate'[r].panicked > 0 => closed'[r]
             /\ Begun(r)' => fate'[r].panicked + Past(r)'
                               <= Cardinality(config'[r].target)
             /\ ~Begun(r)' => fate'[r].panicked = 0
  <2>1. CASE fate[r].panicked = 0
    BY <1>1, <1>4, <1>5, <2>1
  <2>2. CASE fate[r].panicked # 0
    <3>1. fate[r].panicked > 0 /\ closed[r] /\ Begun(r) /\ done[r]
      BY <1>1, <2>2 DEF PanicsBounded, Fates, Structure, DoneFirst
    <3>2. config'[r] = config[r] /\ Begun(r)' /\ closed'[r]
      BY <1>3, <3>1 DEF Kept
    <3>3. Cardinality(config[r].target) \in Nat
      BY <1>4, <3>2
    <3>4. fate[r].panicked + Past(r) <= Cardinality(config[r].target)
      BY <3>1 DEF PanicsBounded
    <3> QED
      BY <1>1, <1>5, <3>1, <3>2, <3>3, <3>4 DEF Fates
  <2> QED
    BY <2>1, <2>2
<1>6. CASE UNCHANGED <<dispatcher, stats, fate>>
  BY <1>1, <1>5, <1>6, PastUnchanged
<1>7. ASSUME NEW s \in Sessions, NEW rejects \in SUBSET Filters,
             MessageArrives(s, rejects)
      PROVE  fate'[r].panicked = fate[r].panicked /\ Past(r)' <= Past(r)
  BY <1>1, <1>7, ArrivalBooks
<1>8. ASSUME NEW s \in Sessions, Handling(s)
      PROVE  /\ fate'[r].panicked > 0 => closed'[r]
             /\ Begun(r)' => fate'[r].panicked + Past(r)'
                               <= Cardinality(config'[r].target)
             /\ ~Begun(r)' => fate'[r].panicked = 0
  <2>1. PICK q \in Routes : /\ q = Receiver(s) /\ Booked(s, q)
                            /\ \A p \in Routes \ {q} : Past(p)' = Past(p)
    BY <1>8, HandlingBooks
  <2>2. CASE Becomes(s, "panicked") /\ q = r /\ closed[q]
               /\ Past(r)' = Past(r) - 1
    <3>1. fate'[r].panicked = fate[r].panicked + 1
      BY <1>1, <2>1, <2>2 DEF Becomes, Fates
    <3>2. Begun(r)
      BY <1>8, <2>1, <2>2, HandlingMoves DEF Structure, MessagesFit, MessageFits
    <3>3. fate[r].panicked + Past(r) <= Cardinality(config[r].target)
      BY <3>2 DEF PanicsBounded
    <3>4. Begun(r)' /\ config'[r] = config[r] /\ closed'[r]
      BY <1>3, <2>2, <3>2 DEF Kept
    <3>5. Cardinality(config[r].target) \in Nat
      BY <1>4, <3>4
    <3> QED
      BY <1>1, <2>2, <3>1, <3>3, <3>4, <3>5 DEF Fates
  <2>3. CASE ~(Becomes(s, "panicked") /\ q = r /\ closed[q]
                 /\ Past(r)' = Past(r) - 1)
    <3>1. fate'[r].panicked = fate[r].panicked
      <4>1. CASE UNCHANGED fate \/ q # r
        <5>1. \/ UNCHANGED fate
              \/ \E end \in {"delivered", "rejected", "panicked"} :
                   Becomes(s, end)
          BY <2>1 DEF Booked
        <5> QED
          BY <1>1, <2>1, <4>1, <5>1 DEF Becomes
      <4>2. CASE (Becomes(s, "rejected") \/ Becomes(s, "delivered")) /\ q = r
        BY <1>1, <2>1, <4>2 DEF Becomes, Fates
      <4> QED
        BY <2>1, <2>3, <4>1, <4>2 DEF Booked
    <3>2. Past(r)' <= Past(r) \/ ~done[r]
      BY <1>1, <2>1 DEF Booked
    <3> QED
      BY <1>5, <3>1, <3>2
  <2> QED
    BY <2>2, <2>3
<1> QED
  BY <1>5, <1>6, <1>7, <1>8, MessageFrame
-----------------------------------------------------------------------------
(* A strict route with a session of its own: whoever subscribes or          *)
(* unsubscribes that session is its opener or stops it.                     *)
LEMMA BegunByOpening ==
    ASSUME Structure, Next, NEW r \in Routes, ~Begun(r), Begun(r)'
    PROVE  \E c \in Callers, form \in Configs : Open(c, r, form)
<1> USE DEF Structure, Shapes, Begun
<1>1. ASSUME NEW c \in Callers, NEW q \in Routes, Stop(c, q) PROVE FALSE
  BY <1>1 DEF Stop
<1>2. ASSUME NEW c \in Callers, OpenStep(c) \/ StopStep(c) \/ Answer(c)
      PROVE  FALSE
  <2>1. thread[c].op \in {"open", "stop"} => Begun(thread[c].route)
    BY DEF ThreadsFit, OpenerFits, StopperFits
  <2>2. \/ UNCHANGED stage
        \/ /\ thread[c].op \in {"open", "stop"}
           /\ \E outcome \in {"open", "failed", "stopped"} :
                stage' = [stage EXCEPT ![thread[c].route] = outcome]
    BY <1>2 DEF OpenStep, StopStep, Answer, OpenPassesOver, OpenSubscribes,
       SubscribeAgain, SubscribeGivenUp, OpenEnds, StopUnsubscribes, CloseDone,
       CloseMessages, StopAgainReturns, BrokerTakes, BrokerRefuses, AnswerRead,
       Returns, At, others
  <2> QED
    BY <2>1, <2>2
<1>3. ASSUME \/ \E q \in Routes, f \in Filters : AddFilter(q, f)
             \/ \E q \in Routes : Read(q)
             \/ \E s \in Sessions :
                  \/ ConnectionLost(s) \/ Reconnected(s) \/ Handling(s)
                  \/ \E rejects \in SUBSET Filters : MessageArrives(s, rejects)
      PROVE  FALSE
  <2>1. UNCHANGED stage
    BY <1>3 DEF AddFilter, Read, ConnectionLost, Reconnected, Handling,
       MessageArrives, CheckDone, FilterAndTransform, DeliverMessage,
       DeliverPanics
  <2> QED
    BY <2>1
<1>4. ASSUME NEW c \in Callers, NEW q \in Routes, NEW form \in Configs,
             Open(c, q, form)
      PROVE  q = r
  BY <1>4 DEF Open
<1> QED
  BY <1>1, <1>2, <1>3, <1>4 DEF Next

LEMMA ThreadSubscribed ==
    ASSUME Structure, NEW c \in Callers,
           OpenStep(c) \/ StopStep(c) \/ Answer(c),
           NEW r \in Routes, NEW s \in Sessions, Begun(r), config[r].strict,
           s \in config[r].target, Alone(r, s), Subscribed(r, s)
    PROVE  Subscribed(r, s)'
<1> DEFINE q == thread[c].route
<1>1. /\ callback \in [Sessions -> Routes \cup {None}]
      /\ stage \in [Routes -> Stages] /\ thread \in [Callers -> Threads]
  BY DEF Structure, Shapes
(* Of another route's sessions s is none.                                   *)
<1>2. /\ thread[c].op = "open" => OpenerFits(c)
      /\ thread[c].op = "stop" => StopperFits(c)
      /\ thread[c].op \in {"open", "stop"} => Begun(q)
      /\ thread[c].op \in {"open", "stop"} /\ s \in config[q].target => q = r
  BY DEF Structure, ThreadsFit, OpenerFits, StopperFits, Alone, Begun
<1>3. \A d \in Callers : Opens(d, r) => stage[r] = "opening"
  BY DEF Structure, ThreadsFit, OpenerFits, Opens
<1>4. ASSUME callback'[s] = callback[s],
             stage'[r] = "open" => stage[r] = "open",
             \A d \in Callers \ {c} : thread'[d] = thread[d],
             /\ Opens(c, r)' /\ s \notin thread'[c].todo
             /\ thread'[c].pc = "failed" => thread'[c].session # s
             => callback[s] = r
      PROVE  Subscribed(r, s)'
  BY <1>4 DEF Subscribed, Opens
<1> USE <1>1 DEF Threads
<1>5. ASSUME thread[c].op = "open", NEW outcome \in {"failed", "stopped"},
             Returns(c, outcome)
      PROVE  Subscribed(r, s)'
  BY <1>2, <1>4, <1>5 DEF Returns, Idle, Opens, OpenerFits, clients
<1>6. ASSUME NEW t \in Sessions, OpenPassesOver(c, t) PROVE Subscribed(r, s)'
  <2>1. CASE Returns(c, "failed")
    BY <1>5, <1>6, <2>1 DEF OpenPassesOver, At
  <2>2. CASE ~config[q].strict
    BY <1>4, <1>6, <2>2 DEF OpenPassesOver, others, clients, Opens
  <2> QED
    BY <1>6, <2>1, <2>2 DEF OpenPassesOver
<1>7. ASSUME NEW t \in Sessions, OpenSubscribes(c, t) PROVE Subscribed(r, s)'
  <2>1. /\ thread[c].op = "open" /\ thread[c].pc = "next"
        /\ t \in thread[c].todo
        /\ thread'[c].op = "open" /\ thread'[c].route = q
        /\ thread'[c].pc = IF up[t] THEN "sent" ELSE "failed"
        /\ thread'[c].session = t /\ thread'[c].todo = thread[c].todo \ {t}
        /\ \A d \in Callers \ {c} : thread'[d] = thread[d]
        /\ UNCHANGED stage
    BY <1>7 DEF OpenSubscribes, At
  <2>2. t = s => q = r
    BY <1>2, <2>1 DEF OpenerFits
  <2>3. CASE t = s
    <3>1. stage[r] = "opening" /\ Opens(c, r)
      BY <1>2, <2>1, <2>2, <2>3 DEF OpenerFits, Opens
    <3>2. \A d \in Callers : Opens(d, r)' => d = c
      BY <1>1, <2>1, <3>1 DEF Structure, OneOpener, Opens
    <3>3. up[t] => callback'[s] = r
      BY <1>7, <2>2, <2>3 DEF OpenSubscribes
    <3> QED
      BY <2>1, <2>3, <3>1, <3>2, <3>3 DEF Subscribed
  <2>4. CASE t # s
    <3>1. callback'[s] = callback[s]
      BY <1>7, <2>4 DEF OpenSubscribes
    <3>2. /\ Opens(c, r)' => Opens(c, r)
          /\ s \notin thread'[c].todo => s \notin thread[c].todo
      BY <2>1, <2>4 DEF Opens
    <3> QED
      BY <1>4, <2>1, <3>1, <3>2 DEF Subscribed
  <2> QED
    BY <2>3, <2>4
<1>8. CASE SubscribeAgain(c)
  <2> DEFINE t == thread[c].session
  <2>1. /\ thread[c].op = "open" /\ thread[c].pc = "failed"
        /\ thread'[c].op = "open" /\ thread'[c].route = q
        /\ thread'[c].pc = IF up[t] THEN "sent" ELSE "failed"
        /\ thread'[c].session = t /\ thread'[c].todo = thread[c].todo
        /\ \A d \in Callers \ {c} : thread'[d] = thread[d]
        /\ UNCHANGED stage
    BY <1>8 DEF SubscribeAgain, At
  <2>2. t = s => q = r
    BY <1>2, <2>1 DEF OpenerFits
  <2>3. CASE t = s
    <3>1. stage[r] = "opening" /\ Opens(c, r)
      BY <1>2, <2>1, <2>2, <2>3 DEF OpenerFits, Opens
    <3>2. \A d \in Callers : Opens(d, r)' => d = c
      BY <1>1, <2>1, <3>1 DEF Structure, OneOpener, Opens
    <3>3. up[t] => callback'[s] = r
      BY <1>8, <2>2, <2>3 DEF SubscribeAgain
    <3> QED
      BY <2>1, <2>3, <3>1, <3>2, <3>3 DEF Subscribed
  <2>4. CASE t # s
    <3>1. callback'[s] = callback[s]
      BY <1>8, <2>4 DEF SubscribeAgain
    <3>2. Opens(c, r)' => Opens(c, r)
      BY <2>1 DEF Opens
    <3> QED
      BY <1>4, <2>1, <2>4, <3>1, <3>2 DEF Subscribed
  <2> QED
    BY <2>3, <2>4
<1>9. CASE SubscribeGivenUp(c)
  <2>1. CASE Returns(c, "failed")
    BY <1>5, <1>9, <2>1 DEF SubscribeGivenUp, At
  <2>2. CASE ~config[q].strict
    BY <1>4, <1>9, <2>2 DEF SubscribeGivenUp, Goes, others, clients, Opens
  <2> QED
    BY <1>9, <2>1, <2>2 DEF SubscribeGivenUp
<1>10. CASE OpenEnds(c)
  <2>1. /\ thread[c].op = "open" /\ thread[c].pc = "next" /\ thread[c].todo = {}
        /\ thread'[c].op = "none" /\ UNCHANGED callback
        /\ stage' = [stage EXCEPT ![q] = "open"]
        /\ \A d \in Callers \ {c} : thread'[d] = thread[d]
    BY <1>10 DEF OpenEnds, At, Returns, Idle, clients
  <2>2. q = r => callback[s] = r
    BY <2>1 DEF Subscribed, Opens
  <2>3. stage'[r] = "open" => stage[r] = "open" \/ q = r
    BY <1>2, <2>1 DEF OpenerFits
  <2> QED
    BY <2>1, <2>2, <2>3 DEF Subscribed, Opens
<1>11. ASSUME NEW t \in Sessions, StopUnsubscribes(c, t)
       PROVE  Subscribed(r, s)'
  <2>1. /\ thread[c].op = "stop" /\ t \in thread[c].todo
        /\ thread'[c].op = "stop" /\ UNCHANGED stage
        /\ \A d \in Callers \ {c} : thread'[d] = thread[d]
        /\ t # s => callback'[s] = callback[s]
    BY <1>11 DEF StopUnsubscribes, At
  <2>2. CASE t = s
    <3>1. stage[r] \in {"stopping", "stopped"}
      BY <1>2, <2>1, <2>2 DEF StopperFits
    <3>2. \A d \in Callers : ~Opens(d, r)'
      BY <1>3, <2>1, <3>1 DEF Opens
    <3> QED
      BY <2>1, <3>1, <3>2 DEF Subscribed
  <2>3. CASE t # s
    BY <1>4, <2>1, <2>3 DEF Opens
  <2> QED
    BY <2>2, <2>3
<1>12. CASE CloseDone(c)
  BY <1>4, <1>12 DEF CloseDone, At, Goes, Opens, clients
<1>13. CASE CloseMessages(c)
  BY <1>2, <1>4, <1>13 DEF CloseMessages, At, Idle, Opens, clients, StopperFits
<1>14. CASE StopAgainReturns(c)
  BY <1>4, <1>14 DEF StopAgainReturns, Idle, Opens, others, clients
<1>15. CASE BrokerTakes(c)
  BY <1>4, <1>15 DEF BrokerTakes, Goes, Opens, Subscribed
<1>16. CASE BrokerRefuses(c)
  BY <1>4, <1>16 DEF BrokerRefuses, At, Goes, Opens, Subscribed, clients
<1>17. CASE AnswerRead(c)
  BY <1>4, <1>17 DEF AnswerRead, Goes, Opens, Subscribed, others, clients
<1> QED
  BY <1>6, <1>7, <1>8, <1>9, <1>10, <1>11, <1>12, <1>13, <1>14, <1>15, <1>16,
     <1>17
  DEF OpenStep, StopStep, Answer
LEMMA NextSubscribed ==
    ASSUME Structure, FiltersKept, StrictAreSubscribed, Next
    PROVE  StrictAreSubscribed'
<1> SUFFICES ASSUME NEW r \in Routes, NEW s \in Sessions,
                    Begun(r)', config'[r].strict, s \in config'[r].target,
                    Alone(r, s)'
             PROVE  Subscribed(r, s)'
  BY DEF StrictAreSubscribed
<1> USE DEF Structure, Shapes
<1>1. Alone(r, s)
  BY NextKeeps DEF Alone, Kept
(* The opening of r itself: no session has been dealt with.                 *)
<1>2. ASSUME ~Begun(r) PROVE Subscribed(r, s)'
  <2>1. PICK c \in Callers, form \in Configs : Open(c, r, form)
    BY <1>2, BegunByOpening
  <2>2. \A d \in Callers : ~Opens(d, r)
    BY <1>2 DEF ThreadsFit, OpenerFits, Opens, Begun
  <2>3. /\ stage'[r] = "opening" /\ thread'[c].todo = config'[r].target
        /\ \A d \in Callers \ {c} : thread'[d] = thread[d]
    BY <2>1 DEF Open, Idle
  <2> QED
    BY <2>2, <2>3 DEF Subscribed, Opens
<1>3. ASSUME Begun(r) PROVE Subscribed(r, s)'
  <2>1. /\ config[r].strict /\ s \in config[r].target /\ Subscribed(r, s)
    BY <1>1, <1>3, NextKeeps DEF Kept, StrictAreSubscribed
  <2>2. ASSUME NEW c \in Callers, OpenStep(c) \/ StopStep(c) \/ Answer(c)
        PROVE  Subscribed(r, s)'
    BY <1>1, <1>3, <2>1, <2>2, ThreadSubscribed
  <2>3. ASSUME NEW c \in Callers, NEW q \in Routes, Stop(c, q)
        PROVE  Subscribed(r, s)'
    BY <2>1, <2>3 DEF Stop, Idle, Subscribed, Opens, clients
  <2>4. ASSUME NEW c \in Callers, NEW q \in Routes, NEW form \in Configs,
               Open(c, q, form)
        PROVE  Subscribed(r, s)'
    BY <1>3, <2>1, <2>4 DEF Open, Idle, Subscribed, Opens, clients, Begun
  <2>5. ASSUME NEW t \in Sessions, ConnectionLost(t) PROVE Subscribed(r, s)'
    <3>1. \A d \in Callers :
            /\ Opens(d, r)' <=> Opens(d, r)
            /\ thread'[d].todo = thread[d].todo
            /\ thread'[d].session = thread[d].session
            /\ Opens(d, r) /\ thread[d].pc = "failed"
                 => thread'[d].pc = "failed"
      BY <2>5 DEF ConnectionLost, Opens, Threads
    <3> QED
      BY <2>1, <2>5, <3>1 DEF ConnectionLost, Subscribed
  <2>6. ASSUME \/ \E q \in Routes, f \in Filters : AddFilter(q, f)
               \/ \E q \in Routes : Read(q)
               \/ \E t \in Sessions :
                    \/ Reconnected(t) \/ Handling(t)
                    \/ \E rejects \in SUBSET Filters :
                         MessageArrives(t, rejects)
        PROVE  Subscribed(r, s)'
    <3>1. UNCHANGED <<thread, callback, stage>>
      BY <2>6 DEF AddFilter, Read, Reconnected, Handling, MessageArrives,
         CheckDone, FilterAndTransform, DeliverMessage, DeliverPanics, clients
    <3> QED
      BY <2>1, <3>1 DEF Subscribed, Opens
  <2> QED
    BY <2>2, <2>3, <2>4, <2>5, <2>6 DEF Next
<1> QED
  BY <1>2, <1>3

-----------------------------------------------------------------------------
LEMMA StutterIInv ==
    ASSUME IInv, UNCHANGED vars
    PROVE  IInv'
<1> USE DEF vars, others, clients, channel, counts, filters
<1>1. Structure'
  BY DEF IInv, Structure, Shapes, Begun, ThreadsFit, OpenerFits, StopperFits,
     OneOpener, Opens, DoneFirst, CallbacksFit
<1>2. MessagesFit'
  BY DEF IInv, MessagesFit, MessageFits, Receiver, Begun
<1>3. \A r \in Routes : Past(r)' = Past(r)
  BY PastUnchanged
<1>4. EveryMessageAccounted' /\ PanicsBounded'
  BY <1>3 DEF IInv, EveryMessageAccounted, PanicsBounded, Begun
<1>5. FiltersKept' /\ FiltersHold'
  BY DEF IInv, FiltersKept, FiltersHold, FiltersOf, Overwritten, Receiver, Begun
<1>6. StrictAreSubscribed'
  BY DEF IInv, StrictAreSubscribed, Subscribed, Opens, Alone, Begun
<1> QED
  BY <1>1, <1>2, <1>4, <1>5, <1>6 DEF IInv

LEMMA Invariance == Spec => []IInv
<1>1. IInv /\ Next => IInv'
  BY NextStructure, NextMessagesFit, NextAccounted, NextPanicsBounded,
     NextFiltersKept, NextFiltersHold, NextSubscribed DEF IInv
<1>2. IInv /\ [Next]_vars => IInv'
  BY <1>1, StutterIInv
<1> QED
  BY InitIInv, <1>2, PTL DEF Spec

(* What the other theorems are about keeps its type, for any                *)
(* sessions, routes and callers (route.go, route_advanced.go).              *)
THEOREM TypeCorrect == Spec => []Shapes
<1>1. IInv => Shapes
  BY DEF IInv, Structure
<1> QED
  BY <1>1, Invariance, PTL

-----------------------------------------------------------------------------
(* However many sessions call a route at once, what it says it received is  *)
(* what it delivered, dropped, failed to transform, was told to leave out,  *)
(* lost in a panic or has in hand (route.go:79-92,                          *)
(* route_advanced.go:124-172).                                              *)
THEOREM ReceivedIsAccounted == Spec => []EveryMessageAccounted
<1>1. IInv => EveryMessageAccounted
  BY DEF IInv
<1> QED
  BY <1>1, Invariance, PTL

(* Stopping a route that is being called costs at most one message of each  *)
(* of its sessions (route.go:49-54).                                        *)
THEOREM StopIsCheap == Spec => []StopCostsOneEach
<1>1. IInv => StopCostsOneEach
  <2> SUFFICES ASSUME IInv, NEW r \in Routes, fate[r].panicked > 0
               PROVE  fate[r].panicked <= Cardinality(config[r].target)
    BY DEF StopCostsOneEach
  <2>1. fate[r] \in Fates /\ Past(r) \in Nat
    BY HandsAreFinite DEF IInv, Structure, Shapes
  <2>2. Begun(r)
    BY <2>1 DEF IInv, PanicsBounded, Fates
  <2>3. fate[r].panicked + Past(r) <= Cardinality(config[r].target)
    BY <2>2 DEF IInv, PanicsBounded
  <2>4. Cardinality(config[r].target) \in Nat
    <3>1. config[r].target \subseteq Sessions
      BY <2>2, ConfigsAssumption DEF IInv, Structure, Shapes, Config
    <3> QED
      BY <3>1, SessionsAssumption, FS_Subset, FS_CardinalityType
  <2> QED
    BY <2>1, <2>3, <2>4 DEF Fates
<1> QED
  BY <1>1, Invariance, PTL

(* Once Stop has returned, no message that comes is received by the route,  *)
(* whoever's callback the client still has (route.go:43-51).                *)
THEOREM StopSilences == Spec => []StoppedIsSilent
<1>1. IInv => StoppedIsSilent
  BY DEF IInv, MessagesFit, MessageFits, StoppedIsSilent
<1> QED
  BY <1>1, Invariance, PTL

(* A strict route loses a session it subscribed, as far as the client is    *)
(* concerned, only to another route on the topic (route.go:43-47,           *)
(* route.go:97-122).                                                        *)
THEOREM SubscribedUnlessShared == Spec => []DeafOnlyIfShared
<1>1. IInv => DeafOnlyIfShared
  BY DEF IInv, StrictAreSubscribed, Subscribed, DeafOnlyIfShared, Begun
<1> QED
  BY <1>1, Invariance, PTL

(* A message that is handled has passed every filter its route had when it  *)
(* came, unless another route of a configuration with spare capacity has    *)
(* written to the array (route_advanced.go:47, route_advanced.go:79).       *)
THEOREM HandledHasPassed == Spec => []FiltersHold
<1>1. IInv => FiltersHold
  BY DEF IInv
<1> QED
  BY <1>1, Invariance, PTL

-----------------------------------------------------------------------------
(* The topic filter of a route (filter.go:181-230): TopicMatch decides the  *)
(* rule of its comments, for topics and filters of any length and levels.   *)

(* What strings.Split returns has at least one level.                       *)
Levels(S) == Seq(S) \ {<<>>}

LEMMA StemIs ==
    ASSUME NEW S, NEW filter \in Levels(S)
    PROVE  /\ Stem(filter) \in Seq(S)
           /\ Len(Stem(filter)) = IF EndsInHash(filter) THEN Len(filter) - 1
                                  ELSE Len(filter)
           /\ \A i \in 1..Len(Stem(filter)) : Stem(filter)[i] = filter[i]
<1>1. filter \in Seq(S) /\ Len(filter) \in Nat \ {0}
  BY DEF Levels
<1> QED
  BY <1>1 DEF Stem

(* A filter covers a topic when its stem, as it stands or before a "#",     *)
(* agrees with as many levels of the topic, and no more are left.           *)
LEMMA CoversIs ==
    ASSUME NEW S, NEW filter \in Levels(S), NEW topic \in Levels(S)
    PROVE  Covers(filter, topic) <=>
             /\ Len(Stem(filter)) <= Len(topic)
             /\ Len(Stem(filter)) # Len(topic) => EndsInHash(filter)
             /\ LevelsMatch(filter, topic, Len(Stem(filter)))
<1> DEFINE n == Len(Stem(filter))
<1>1. topic \in Seq(S) /\ Len(topic) \in Nat \ {0} /\ n \in Nat
  BY StemIs DEF Levels
<1>2. ASSUME NEW k \in 0..Len(topic)
      PROVE  /\ Len(SubSeq(topic, 1, k)) = k
             /\ \A i \in 1..k : SubSeq(topic, 1, k)[i] = topic[i]
             /\ SubSeq(topic, k + 1, Len(topic)) # <<>> <=> k # Len(topic)
  <2>1. Len(SubSeq(topic, 1, k)) = k
    BY <1>1
  <2>2. \A i \in 1..k : SubSeq(topic, 1, k)[i] = topic[i]
    BY <1>1
  <2>3. Len(SubSeq(topic, k + 1, Len(topic))) = Len(topic) - k
    BY <1>1
  <2>4. SubSeq(topic, k + 1, Len(topic)) \in Seq(S)
    BY <1>1
  <2>5. SubSeq(topic, k + 1, Len(topic)) # <<>>
          <=> Len(SubSeq(topic, k + 1, Len(topic))) # 0
    BY <2>4, EmptySeq
  <2> QED
    BY <2>1, <2>2, <2>3, <2>5, <1>1
<1>3. ASSUME Covers(filter, topic)
      PROVE  /\ n <= Len(topic)
             /\ n # Len(topic) => EndsInHash(filter)
             /\ LevelsMatch(filter, topic, n)
  <2>1. PICK k \in 0..Len(topic) :
           /\ Len(SubSeq(topic, 1, k)) = n
           /\ \A i \in 1..k : Stem(filter)[i] \in {Plus, SubSeq(topic, 1, k)[i]}
           /\ SubSeq(topic, k + 1, Len(topic)) # <<>> => EndsInHash(filter)
    BY <1>3 DEF Covers
  <2>2. k = n
    BY <2>1, <1>2
  <2> QED
    BY <2>1, <2>2, <1>1, <1>2, StemIs DEF LevelsMatch
<1>4. ASSUME n <= Len(topic), n # Len(topic) => EndsInHash(filter),
             LevelsMatch(filter, topic, n)
      PROVE  Covers(filter, topic)
  <2>1. n \in 0..Len(topic)
    BY <1>1, <1>4
  <2>2. \A i \in 1..n : Stem(filter)[i] \in {Plus, SubSeq(topic, 1, n)[i]}
    BY <1>2, <1>4, <2>1, StemIs DEF LevelsMatch
  <2> QED
    BY <1>2, <1>4, <2>1, <2>2 DEF Covers
<1> QED
  BY <1>3, <1>4

(* For any levels, TopicMatch decides the rule of its comments: one level   *)
(* for "+", any levels, none included, for a "#" at the end.                *)
THEOREM MatchIsCovers ==
    ASSUME NEW S, NEW filter \in Levels(S), NEW topic \in Levels(S)
    PROVE  TopicMatch(filter, topic) <=> Covers(filter, topic)
<1> DEFINE n == Len(Stem(filter))
<1>1. /\ filter \in Seq(S) /\ Len(filter) \in Nat \ {0}
      /\ topic \in Seq(S) /\ Len(topic) \in Nat \ {0}
  BY DEF Levels
<1>2. n = IF EndsInHash(filter) THEN Len(filter) - 1 ELSE Len(filter)
  BY StemIs
<1>3. CASE filter = topic
  <2>1. LevelsMatch(filter, topic, n)
    BY <1>3 DEF LevelsMatch
  <2> QED
    BY <2>1, <1>1, <1>2, <1>3, CoversIs DEF TopicMatch
<1>4. CASE filter = <<Hash>>
  <2>1. EndsInHash(filter) /\ n = 0
    BY <1>2, <1>4 DEF EndsInHash
  <2>2. LevelsMatch(filter, topic, n)
    BY <2>1 DEF LevelsMatch
  <2> QED
    BY <2>1, <2>2, <1>1, <1>4, CoversIs DEF TopicMatch
<1>5. CASE filter # topic /\ filter # <<Hash>>
  <2>1. TopicMatch(filter, topic) <=>
          IF EndsInHash(filter)
            THEN n <= Len(topic) /\ LevelsMatch(filter, topic, n)
            ELSE n = Len(topic) /\ LevelsMatch(filter, topic, n)
    BY <1>2, <1>5 DEF TopicMatch
  <2> QED
    BY <2>1, <1>1, <1>2, CoversIs
<1> QED
  BY <1>3, <1>4, <1>5

(* A filter without wildcards lets through its own topic and no other.      *)
THEOREM PlainMatchesItself ==
    ASSUME NEW S, NEW filter \in Levels(S), NEW topic \in Levels(S),
           \A i \in 1..Len(filter) : filter[i] \notin {Plus, Hash}
    PROVE  TopicMatch(filter, topic) <=> filter = topic
<1>1. /\ filter \in Seq(S) /\ Len(filter) \in Nat \ {0}
      /\ topic \in Seq(S) /\ Len(topic) \in Nat \ {0}
  BY DEF Levels
<1>2. ~EndsInHash(filter)
  BY <1>1 DEF EndsInHash
<1>3. filter # <<Hash>>
  BY <1>1
<1>4. ASSUME Len(filter) = Len(topic), LevelsMatch(filter, topic, Len(filter))
      PROVE  filter = topic
  <2>1. \A i \in 1..Len(filter) : filter[i] = topic[i]
    BY <1>4 DEF LevelsMatch
  <2> QED
    BY <2>1, <1>1, <1>4
<1> QED
  BY <1>2, <1>3, <1>4 DEF TopicMatch

=============================================================================
