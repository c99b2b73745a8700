------------------------------- MODULE Route -------------------------------
(***************************************************************************)
(* Routes on one topic (route.go, route_advanced.go): the application      *)
(* opens them on one session or on all, reads their channels or has their  *)
(* handlers called, adds filters and stops them.  Each session's client    *)
(* has one callback for the topic, whoever subscribed it last, and calls   *)
(* it from a goroutine of its own, so that a route may be in several       *)
(* callbacks at once, and in the middle of one when it is stopped.         *)
(*                                                                         *)
(* The requests to the broker are those of module Subscriptions, which has *)
(* the session's own registry of handlers; the manager's lock is in module *)
(* Manager.                                                                *)
(***************************************************************************)
EXTENDS Integers, FiniteSets

CONSTANTS
    Sessions,    \* the sessions of the manager
    Routes,      \* Route objects
    Callers,     \* goroutines of the application
    Filters,     \* filters that may be added
    Configs,     \* how routes may be opened
    BufferSize,  \* capacity of a route's channel
    MaxTries,    \* maxRetries of Subscribe
    Limits,      \* bounds to choose from: how many messages come, connections
                 \* are lost, requests refused and filters added in a history
    None

(* What Handle, HandleTo, Listen, ListenTo and their ...WithConfig forms    *)
(* differ in.  The filters of a RouteConfig are a slice, and all routes     *)
(* made from it share its array: if it has spare capacity, also the element *)
(* after its last.                                                          *)
Config == [target : SUBSET Sessions,
           handler : BOOLEAN,   \* a handler is called, no channel is read
           strict : BOOLEAN,    \* a failed subscription is an error
           advanced : BOOLEAN,  \* it has filters and transformers
           spare : BOOLEAN]

ASSUME SessionsAssumption == IsFiniteSet(Sessions)
ASSUME ConfigsAssumption == Configs \subseteq Config
ASSUME NoneAssumption ==
    None \notin Sessions \cup Routes \cup Filters \cup Configs
ASSUME BufferAssumption == BufferSize \in Nat \ {0}
ASSUME TriesAssumption == MaxTries \in Nat \ {0}
ASSUME LimitsAssumption ==
    Limits \subseteq [messages : Nat, drops : Nat, refusals : Nat,
                      filters : Nat]

VARIABLES
    \* the client of each session, and the broker
    up,          \* whether the session is connected
    broker,      \* whether the broker holds its subscription
    callback,    \* the route whose callback the client calls
    dispatcher,  \* the message whose callback runs
    \* the routes
    stage,       \* how far the application is with the route
    config,      \* how it was opened
    done,        \* r.done is closed
    closed,      \* r.messages is closed
    queue,       \* messages in r.messages
    stats,       \* RouteStats
    added,       \* elements of r.filters in an array of its own
    onSpare,     \* whether r.filters ends with the spare element
    spareFilter, \* the filter in the spare element
    \* the goroutines of the application
    thread,
    left,        \* what may still happen, of the limits
    \* auxiliary
    given,       \* filters AddFilter was called with
    fate         \* messages received, by what became of them

clients == <<up, broker, callback>>
channel == <<done, closed, queue>>
filters == <<added, onSpare, spareFilter, given>>
counts == <<stats, fate>>
others == <<clients, dispatcher, stage, config, channel, counts, filters,
            left>>
vars == <<thread, others>>

-----------------------------------------------------------------------------
Idle == [op |-> "none", pc |-> "idle", route |-> None, session |-> None,
         todo |-> {}, tries |-> 0]
Quiet == [pc |-> "idle", route |-> None, rejects |-> {}, owed |-> {},
          late |-> FALSE]

At(c, op, pc) == thread[c].op = op /\ thread[c].pc = pc
Goes(c, pc) == thread' = [thread EXCEPT ![c].pc = pc]

Init ==
    /\ up = [s \in Sessions |-> TRUE]
    /\ broker = [s \in Sessions |-> FALSE]
    /\ callback = [s \in Sessions |-> None]
    /\ dispatcher = [s \in Sessions |-> Quiet]
    /\ stage = [r \in Routes |-> "new"]
    /\ config = [r \in Routes |-> None]
    /\ done = [r \in Routes |-> FALSE]
    /\ closed = [r \in Routes |-> FALSE]
    /\ queue = [r \in Routes |-> 0]
    /\ stats = [r \in Routes |-> [received |-> 0, dropped |-> 0, errors |-> 0]]
    /\ added = [r \in Routes |-> {}]
    /\ onSpare = [r \in Routes |-> FALSE]
    /\ spareFilter = None
    /\ thread = [c \in Callers |-> Idle]
    /\ left \in Limits
    /\ given = [r \in Routes |-> {}]
    /\ fate = [r \in Routes |-> [delivered |-> 0, rejected |-> 0,
                                 panicked |-> 0]]

-----------------------------------------------------------------------------
(* Opening a route: its sessions are subscribed one by one.                 *)
Open(c, r, form) ==
    /\ thread[c] = Idle
    /\ stage[r] = "new"
    /\ stage' = [stage EXCEPT ![r] = "opening"]
    /\ config' = [config EXCEPT ![r] = form]
    /\ thread' = [thread EXCEPT ![c] =
                    [Idle EXCEPT !.op = "open", !.pc = "next", !.route = r,
                                 !.todo = form.target]]
    /\ UNCHANGED <<clients, dispatcher, channel, counts, filters, left>>

(* The call returns, with the route or with the error of a strict form.     *)
Returns(c, outcome) ==
    /\ stage' = [stage EXCEPT ![thread[c].route] = outcome]
    /\ thread' = [thread EXCEPT ![c] = Idle]
    /\ UNCHANGED <<clients, dispatcher, config, channel, counts, filters,
                   left>>

OpenEnds(c) ==
    /\ At(c, "open", "next")
    /\ thread[c].todo = {}
    /\ Returns(c, "open")

(* The ...WithConfig forms look at the status first: a session that is not  *)
(* connected is passed over, or an error.                                   *)
OpenPassesOver(c, s) ==
    /\ At(c, "open", "next")
    /\ s \in thread[c].todo
    /\ config[thread[c].route].advanced
    /\ ~up[s]
    /\ \/ /\ config[thread[c].route].strict
          /\ Returns(c, "failed")
       \/ /\ ~config[thread[c].route].strict
          /\ thread' = [thread EXCEPT ![c].todo = @ \ {s}]
          /\ UNCHANGED others

(* The first attempt of Session.Subscribe: the client sets the callback and *)
(* sends.                                                                   *)
OpenSubscribes(c, s) ==
    /\ At(c, "open", "next")
    /\ s \in thread[c].todo
    /\ config[thread[c].route].advanced => up[s]
    /\ callback' = IF up[s] THEN [callback EXCEPT ![s] = thread[c].route]
                            ELSE callback
    /\ thread' = [thread EXCEPT ![c].pc = IF up[s] THEN "sent" ELSE "failed",
                                ![c].session = s, ![c].todo = @ \ {s},
                                ![c].tries = 1]
    /\ UNCHANGED <<up, broker, dispatcher, stage, config, channel, counts,
                   filters, left>>

(* It is tried again.                                                       *)
SubscribeAgain(c) ==
    LET s == thread[c].session
    IN  /\ At(c, "open", "failed")
        /\ thread[c].tries < MaxTries
        /\ callback' = IF up[s] THEN [callback EXCEPT ![s] = thread[c].route]
                                ELSE callback
        /\ thread' = [thread EXCEPT ![c].pc = IF up[s] THEN "sent" ELSE @,
                                    ![c].tries = @ + 1]
        /\ UNCHANGED <<up, broker, dispatcher, stage, config, channel, counts,
                       filters, left>>

(* It is given up: an error for the strict forms, and nothing for the       *)
(* others.  The callback stays.                                             *)
SubscribeGivenUp(c) ==
    /\ At(c, "open", "failed")
    /\ thread[c].tries = MaxTries
    /\ \/ /\ config[thread[c].route].strict
          /\ Returns(c, "failed")
       \/ /\ ~config[thread[c].route].strict
          /\ Goes(c, "next")
          /\ UNCHANGED others

-----------------------------------------------------------------------------
(* Variant: the topic is unsubscribed on every session.                     *)
StopEverywhere(c, r) ==
    /\ thread[c] = Idle
    /\ stage[r] \in {"open", "stopping"}
    /\ stage' = [stage EXCEPT ![r] = "stopping"]
    /\ thread' = [thread EXCEPT ![c] =
                    [Idle EXCEPT !.op = "stop", !.route = r,
                                 !.pc = IF stage[r] = "open" THEN "next"
                                                             ELSE "once",
                                 !.todo = Sessions]]
    /\ UNCHANGED <<clients, dispatcher, config, channel, counts, filters,
                   left>>

(* Variant: the channel is closed before the topic is unsubscribed.         *)
StopClosesFirst(c, r) ==
    /\ thread[c] = Idle
    /\ stage[r] \in {"open", "stopping"}
    /\ stage' = [stage EXCEPT ![r] = "stopping"]
    /\ closed' = [closed EXCEPT ![r] = TRUE]
    /\ thread' = [thread EXCEPT ![c] =
                    [Idle EXCEPT !.op = "stop", !.route = r,
                                 !.pc = IF stage[r] = "open" THEN "next"
                                                             ELSE "once",
                                 !.todo = config[r].target]]
    /\ UNCHANGED <<clients, dispatcher, config, done, queue, counts, filters,
                   left>>

(* Stop.  r.once: a second caller waits until the first has finished.       *)
Stop(c, r) ==
    /\ thread[c] = Idle
    /\ stage[r] \in {"open", "stopping"}
    /\ stage' = [stage EXCEPT ![r] = "stopping"]
    /\ thread' = [thread EXCEPT ![c] =
                    [Idle EXCEPT !.op = "stop", !.route = r,
                                 !.pc = IF stage[r] = "open" THEN "next"
                                                             ELSE "once",
                                 !.todo = config[r].target]]
    /\ UNCHANGED <<clients, dispatcher, config, channel, counts, filters,
                   left>>

StopAgainReturns(c) ==
    /\ At(c, "stop", "once")
    /\ stage[thread[c].route] = "stopped"
    /\ thread' = [thread EXCEPT ![c] = Idle]
    /\ UNCHANGED others

(* Variant: a session that is not connected makes Stop return.              *)
StopGivesUp(c, s) ==
    /\ At(c, "stop", "next")
    /\ s \in thread[c].todo
    /\ ~up[s]
    /\ Returns(c, "stopped")

(* UnsubscribeAll or UnsubscribeTo, whose errors nobody looks at: a session *)
(* that is not connected is passed over; of another the client forgets the  *)
(* callback, whoever's it is, and sends.                                    *)
StopUnsubscribes(c, s) ==
    /\ At(c, "stop", "next")
    /\ s \in thread[c].todo
    /\ IF up[s]
       THEN /\ callback' = [callback EXCEPT ![s] = None]
            /\ thread' = [thread EXCEPT ![c].pc = "sent", ![c].session = s,
                                        ![c].todo = @ \ {s}]
       ELSE /\ thread' = [thread EXCEPT ![c].todo = @ \ {s}]
            /\ UNCHANGED callback
    /\ UNCHANGED <<up, broker, dispatcher, stage, config, channel, counts,
                   filters, left>>

CloseDone(c) ==
    /\ At(c, "stop", "next")
    /\ thread[c].todo = {}
    /\ done' = [done EXCEPT ![thread[c].route] = TRUE]
    /\ Goes(c, "close")
    /\ UNCHANGED <<clients, dispatcher, stage, config, closed, queue, counts,
                   filters, left>>

CloseMessages(c) ==
    /\ At(c, "stop", "close")
    /\ closed' = [closed EXCEPT ![thread[c].route] = TRUE]
    /\ stage' = [stage EXCEPT ![thread[c].route] = "stopped"]
    /\ thread' = [thread EXCEPT ![c] = Idle]
    /\ UNCHANGED <<clients, dispatcher, config, done, queue, counts, filters,
                   left>>

-----------------------------------------------------------------------------
(* The broker takes a request or refuses it; its answer is read behind the  *)
(* message being handled.                                                   *)
BrokerTakes(c) ==
    /\ thread[c].pc = "sent"
    /\ broker' = [broker EXCEPT ![thread[c].session] = thread[c].op = "open"]
    /\ Goes(c, "answered")
    /\ UNCHANGED <<up, callback, dispatcher, stage, config, channel, counts,
                   filters, left>>

BrokerRefuses(c) ==
    /\ At(c, "open", "sent")
    /\ left.refusals > 0
    /\ left' = [left EXCEPT !.refusals = @ - 1]
    /\ Goes(c, "failed")
    /\ UNCHANGED <<clients, dispatcher, stage, config, channel, counts,
                   filters>>

AnswerRead(c) ==
    /\ thread[c].pc = "answered"
    /\ dispatcher[thread[c].session] = Quiet
    /\ Goes(c, "next")
    /\ UNCHANGED others

(* The connection is lost, with the answers on their way; a new one may be  *)
(* that of a clean session.                                                 *)
ConnectionLost(s) ==
    /\ up[s]
    /\ left.drops > 0
    /\ left' = [left EXCEPT !.drops = @ - 1]
    /\ up' = [up EXCEPT ![s] = FALSE]
    /\ thread' = [c \in Callers |->
                    IF thread[c].session = s
                         /\ thread[c].pc \in {"sent", "answered"}
                    THEN [thread[c] EXCEPT
                            !.pc = IF thread[c].op = "open"
                                   THEN "failed" ELSE "next"]
                    ELSE thread[c]]
    /\ UNCHANGED <<broker, callback, dispatcher, stage, config, channel,
                   counts, filters>>

Reconnected(s) ==
    /\ ~up[s]
    /\ up' = [up EXCEPT ![s] = TRUE]
    /\ \E kept \in BOOLEAN : broker' = [broker EXCEPT ![s] = @ /\ kept]
    /\ UNCHANGED <<callback, dispatcher, stage, config, channel, counts,
                   filters, thread, left>>

-----------------------------------------------------------------------------
(* r.filters.                                                               *)
FiltersOf(r) == added[r] \cup IF onSpare[r] THEN {spareFilter} ELSE {}

(* Variant: the filter is appended to the slice of the configuration.       *)
AddFilterToConfig(r, f) ==
    /\ stage[r] = "open" /\ config[r].advanced
    /\ f \notin given[r]
    /\ left.filters > 0
    /\ left' = [left EXCEPT !.filters = @ - 1]
    /\ given' = [given EXCEPT ![r] = @ \cup {f}]
    /\ added' = [added EXCEPT ![r] = {f}]
    /\ UNCHANGED <<onSpare, spareFilter, clients, dispatcher, stage, config,
                   channel, counts, thread>>

(* AddFilter appends to r.filters under r.mu: into the spare element of the *)
(* array it shares with the other routes of the configuration, or else into *)
(* an array of its own, to which the elements are copied.                   *)
AddFilter(r, f) ==
    /\ stage[r] = "open" /\ config[r].advanced
    /\ f \notin given[r]
    /\ left.filters > 0
    /\ left' = [left EXCEPT !.filters = @ - 1]
    /\ given' = [given EXCEPT ![r] = @ \cup {f}]
    /\ IF config[r].spare /\ FiltersOf(r) = {}
       THEN /\ onSpare' = [onSpare EXCEPT ![r] = TRUE]
            /\ spareFilter' = f
            /\ UNCHANGED added
       ELSE /\ added' = [added EXCEPT ![r] = FiltersOf(r) \cup {f}]
            /\ onSpare' = [onSpare EXCEPT ![r] = FALSE]
            /\ UNCHANGED spareFilter
    /\ UNCHANGED <<clients, dispatcher, stage, config, channel, counts,
                   thread>>

-----------------------------------------------------------------------------
(* A message comes: the client calls the callback of the topic, if any.     *)
MessageArrives(s, rejects) ==
    /\ up[s] /\ broker[s] /\ callback[s] # None
    /\ dispatcher[s] = Quiet
    /\ rejects # {} => config[callback[s]].advanced
    /\ left.messages > 0
    /\ left' = [left EXCEPT !.messages = @ - 1]
    /\ dispatcher' = [dispatcher EXCEPT ![s] =
                        [pc |-> "check", route |-> callback[s],
                         rejects |-> rejects, owed |-> given[callback[s]],
                         late |-> stage[callback[s]] = "stopped"]]
    /\ UNCHANGED <<clients, stage, config, channel, counts, filters, thread>>

Message(s) == dispatcher[s]
Receiver(s) == dispatcher[s].route
HasMessage(s, pc) == dispatcher[s].pc = pc
MessageGoes(s, pc) == dispatcher' = [dispatcher EXCEPT ![s].pc = pc]
MessageEnds(s) == dispatcher' = [dispatcher EXCEPT ![s] = Quiet]
Becomes(s, end) == fate' = [fate EXCEPT ![Receiver(s)][end] = @ + 1]
Counts(s, counter) == stats' = [stats EXCEPT ![Receiver(s)][counter] = @ + 1]

(* The select on r.done.                                                    *)
CheckDone(s) ==
    /\ HasMessage(s, "check")
    /\ IF done[Receiver(s)]
       THEN MessageEnds(s) /\ UNCHANGED stats
       ELSE /\ Counts(s, "received")
            /\ MessageGoes(s, IF config[Receiver(s)].advanced THEN "filter"
                                                              ELSE "deliver")
    /\ UNCHANGED <<clients, stage, config, channel, fate, filters, thread,
                   left>>

(* filterMessage: all filters of the moment, under r.mu; then               *)
(* transformMessage, whose transformers make of the message what they like: *)
(* another one, an error, or nothing.                                       *)
FilterAndTransform(s) ==
    /\ HasMessage(s, "filter")
    /\ \/ /\ Message(s).rejects \cap FiltersOf(Receiver(s)) = {}
          /\ MessageGoes(s, "deliver")
          /\ UNCHANGED counts
       \/ /\ Message(s).rejects \cap FiltersOf(Receiver(s)) = {}
          /\ MessageEnds(s)
          /\ Counts(s, "errors")
          /\ UNCHANGED fate
       \/ MessageEnds(s) /\ Becomes(s, "rejected") /\ UNCHANGED stats
    /\ UNCHANGED <<clients, stage, config, channel, filters, thread, left>>

(* Variant: a message that finds the channel full is not counted.           *)
DeliverUncounted(s) ==
    /\ HasMessage(s, "deliver")
    /\ LET r == Receiver(s)
       IN  /\ config[r].handler \/ ~closed[r]
           /\ IF config[r].handler \/ queue[r] < BufferSize
              THEN Becomes(s, "delivered") ELSE UNCHANGED fate
           /\ queue' = [queue EXCEPT ![r] =
                          IF config[r].handler \/ @ = BufferSize THEN @
                                                                 ELSE @ + 1]
    /\ MessageEnds(s)
    /\ UNCHANGED <<clients, stage, config, done, closed, stats, filters,
                   thread, left>>

(* The handler is called, or the channel is offered the message.            *)
DeliverMessage(s) ==
    /\ HasMessage(s, "deliver")
    /\ LET r == Receiver(s)
       IN  \/ /\ config[r].handler
              /\ Becomes(s, "delivered")
              /\ UNCHANGED <<queue, stats>>
           \/ /\ ~config[r].handler /\ ~closed[r] /\ queue[r] < BufferSize
              /\ queue' = [queue EXCEPT ![r] = @ + 1]
              /\ Becomes(s, "delivered")
              /\ UNCHANGED stats
           \/ /\ ~config[r].handler /\ ~closed[r] /\ queue[r] = BufferSize
              /\ Counts(s, "dropped")
              /\ UNCHANGED <<queue, fate>>
    /\ MessageEnds(s)
    /\ UNCHANGED <<clients, stage, config, done, closed, filters, thread,
                   left>>

(* A send on a closed channel panics, and safelyCallHandler recovers.       *)
DeliverPanics(s) ==
    /\ HasMessage(s, "deliver")
    /\ ~config[Receiver(s)].handler /\ closed[Receiver(s)]
    /\ Becomes(s, "panicked")
    /\ MessageEnds(s)
    /\ UNCHANGED <<clients, stage, config, channel, stats, filters, thread,
                   left>>

(* The application reads the channel it was given.                          *)
Read(r) ==
    /\ stage[r] \in {"open", "stopping", "stopped"}
    /\ queue[r] > 0
    /\ queue' = [queue EXCEPT ![r] = @ - 1]
    /\ UNCHANGED <<clients, dispatcher, stage, config, done, closed, counts,
                   filters, thread, left>>

-----------------------------------------------------------------------------
OpenStep(c) ==
    \/ \E s \in Sessions : OpenPassesOver(c, s) \/ OpenSubscribes(c, s)
    \/ SubscribeAgain(c) \/ SubscribeGivenUp(c)
    \/ OpenEnds(c)

StopStep(c) ==
    \/ \E s \in Sessions : StopUnsubscribes(c, s)
    \/ CloseDone(c) \/ CloseMessages(c)
    \/ StopAgainReturns(c)

(* A request is answered, one way or the other.                             *)
Answer(c) == BrokerTakes(c) \/ BrokerRefuses(c) \/ AnswerRead(c)

Handling(s) ==
    \/ CheckDone(s)
    \/ FilterAndTransform(s)
    \/ DeliverMessage(s) \/ DeliverPanics(s)

Next ==
    \/ \E c \in Callers, r \in Routes :
         Stop(c, r) \/ \E form \in Configs : Open(c, r, form)
    \/ \E c \in Callers : OpenStep(c) \/ StopStep(c) \/ Answer(c)
    \/ \E r \in Routes, f \in Filters : AddFilter(r, f)
    \/ \E r \in Routes : Read(r)
    \/ \E s \in Sessions :
         \/ ConnectionLost(s) \/ Reconnected(s)
         \/ \E rejects \in SUBSET Filters : MessageArrives(s, rejects)
         \/ Handling(s)

Spec == Init /\ [][Next]_vars

-----------------------------------------------------------------------------
Past(r) == Cardinality({s \in Sessions :
                          /\ Receiver(s) = r
                          /\ dispatcher[s].pc \in {"filter", "deliver"}})

(* However many sessions call a route at once, what it says it received is  *)
(* what it delivered, dropped, failed to transform, was told to leave out,  *)
(* lost in a panic or still has in hand (route.go:79-92,                    *)
(* route_advanced.go:124-172).                                              *)
EveryMessageAccounted ==
    \A r \in Routes :
        stats[r].received = stats[r].dropped + stats[r].errors
                              + fate[r].delivered + fate[r].rejected
                              + fate[r].panicked + Past(r)

(* Stopping a route that is being called costs at most one message of each  *)
(* session, the one that was past the check of done: r.done is closed       *)
(* before the channel (route.go:49-54).                                     *)
StopCostsOneEach ==
    \A r \in Routes : fate[r].panicked > 0 =>
        fate[r].panicked <= Cardinality(config[r].target)

(* Once Stop has returned, no message that comes is received by the route,  *)
(* though a session that was not connected still has its callback           *)
(* (route.go:43-51).                                                        *)
StoppedIsSilent ==
    \A s \in Sessions : dispatcher[s].late => dispatcher[s].pc = "check"

(* A route loses a session that it subscribed, as far as the client is      *)
(* concerned, only to another route on the topic, whether that one was      *)
(* opened or only tried to be (route.go:43-47, route.go:97-122).            *)
Begun(r) == stage[r] # "new"
Alone(r, s) == \A q \in Routes \ {r} : Begun(q) => s \notin config[q].target
DeafOnlyIfShared ==
    \A r \in Routes, s \in Sessions :
        /\ stage[r] = "open" /\ config[r].strict
        /\ s \in config[r].target /\ Alone(r, s)
        => callback[s] = r

(* A message that is handled has passed every filter its route had when it  *)
(* came ("all filters must match", route_advanced.go:79), unless two routes *)
(* of a configuration with spare capacity have appended to its array        *)
(* (route_advanced.go:47, route_advanced.go:59).                            *)
Overwritten(r) ==
    /\ config[r].spare
    /\ \E q \in Routes \ {r} : given[q] # {} /\ config[q].spare
FiltersHold ==
    \A s \in Sessions :
        /\ dispatcher[s].pc = "deliver"
        /\ config[Receiver(s)].advanced
        => \/ dispatcher[s].rejects \cap dispatcher[s].owed = {}
           \/ Overwritten(Receiver(s))

=============================================================================
