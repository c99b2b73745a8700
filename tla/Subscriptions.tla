---------------------------- MODULE Subscriptions ----------------------------
(***************************************************************************)
(* The subscriptions of one session (session.go) in the four places that   *)
(* keep them: the handler registry of the session, the routes of its       *)
(* client, the broker, and the store that is to bring them back after a    *)
(* restart.  No lock spans two of these.  Subscribe, Unsubscribe and       *)
(* Disconnect run on the goroutines of the application; handleConnect and  *)
(* handleConnectionLost on goroutines the client spawns, beside them and   *)
(* beside each other.  The process may crash at any step and start again.  *)
(*                                                                         *)
(* The client (paho) and the broker are outside this repository.  The      *)
(* status and the connection change together here: module Session has what *)
(* happens when they do not.                                               *)
(***************************************************************************)
EXTENDS Naturals, FiniteSets

CONSTANTS
    Topics,          \* topics of the subscriptions
    Preset,          \* opts.Topics, with handlers of their own
    Callers,         \* goroutines of the application
    Callbacks,       \* goroutines of the client, one per callback under way
    OptionSets,      \* the ConnectProps and stores to choose from
    MaxTries,        \* maxRetries of Subscribe
    MaxCalls,        \* bound: calls of the application
    MaxConnections,  \* bound: connections of the client
    MaxCrashes       \* bound: crashes of the process

Options == [persistent : BOOLEAN,    \* PersistentSession
            clean : BOOLEAN,         \* CleanSession
            resume : BOOLEAN,        \* ResumeSubs
            store : {"memory", "file", "redis"}]

ASSUME TopicsAssumption == Preset \subseteq Topics
ASSUME ThreadsAssumption == Callers \cap Callbacks = {}
ASSUME OptionsAssumption == OptionSets \subseteq Options
ASSUME TriesAssumption == MaxTries \in Nat \ {0}
ASSUME BoundsAssumption == {MaxCalls, MaxConnections, MaxCrashes} \subseteq Nat

VARIABLES
    options,   \* s.opts, never changed
    status,    \* s.status, and with it the connection
    handlers,  \* s.handlers.messageHandlers, by whose handler it is
    routes,    \* the callback the client calls for each topic
    broker,    \* topics the broker holds for the client
    stored,    \* what the store holds under the session's name
    thread,    \* where each goroutine is
    calls, connections, crashes,
    \* auxiliary: topics with two calls at once, or a call that failed
    doubtful

bounds == <<calls, connections, crashes>>
vars == <<options, status, handlers, routes, broker, stored, thread, bounds,
          doubtful>>

Threads == Callers \cup Callbacks
Handlers == {"none", "user", "stub"}

-----------------------------------------------------------------------------
(* SessionState, as far as its subscriptions go.  A file that was being     *)
(* written when the process crashed cannot be read back.                    *)
Saved(topics) == [kind |-> "saved", topics |-> topics]
Absent == [kind |-> "absent", topics |-> {}]
Torn == [kind |-> "torn", topics |-> {}]

(* LoadState finds nothing that it can read, or does not reach the store.   *)
LoadMayFail == stored.kind # "saved" \/ options.store = "redis"

Idle == [pc |-> "idle", op |-> "none", topic |-> {}, by |-> "none",
         tries |-> 0, snapshot |-> {}, todo |-> {}]

(* GetAllTopics.                                                            *)
Registered == {x \in Topics : handlers[x] # "none"}

(* A call on a topic runs from its first step to the end of its save.       *)
OnTopic(x) == {t \in Threads : thread[t].topic = {x}}

InFlight(t) == thread[t].pc \in {"sent", "answered"}

(* Subscriptions handleConnect has yet to make, first those of the store.   *)
Due(t) == LET stubs == {s \in thread[t].todo : s.by = "stub"}
          IN  IF stubs # {} THEN stubs ELSE thread[t].todo

(* The connection ends: requests on their way fail.                         *)
CutOff(th) == [t \in Threads |->
                  IF InFlight(t) THEN [th[t] EXCEPT !.pc = "failed"] ELSE th[t]]

(* What thread t is after its call: handleConnect goes on with its list,    *)
(* Disconnect closes the client.                                            *)
Ended(t) ==
    IF thread[t].op = "disconnect" THEN [thread[t] EXCEPT !.pc = "close"]
    ELSE IF thread[t].todo = {} THEN Idle
    ELSE [Idle EXCEPT !.pc = "next", !.todo = thread[t].todo]

(* A persistent session saves its state before the call ends.               *)
Recorded(t) ==
    IF options.persistent THEN [thread[t] EXCEPT !.pc = "collect"]
                          ELSE Ended(t)

-----------------------------------------------------------------------------
Init ==
    /\ options \in OptionSets
    /\ status = "Disconnected"
    /\ handlers = [x \in Topics |-> "none"]
    /\ routes = [x \in Topics |-> "none"]
    /\ broker = {}
    /\ stored = Absent
    /\ thread = [t \in Threads |-> Idle]
    /\ calls = 0 /\ connections = 0 /\ crashes = 0
    /\ doubtful = {}

-----------------------------------------------------------------------------
(* A call on topic x starts, or goes on with the next topic of a list.      *)
BeginSubscribe(t, x, handler, rest) ==
    /\ thread' = [thread EXCEPT ![t] =
                    [Idle EXCEPT !.pc = "send", !.op = "subscribe",
                                 !.topic = {x}, !.by = handler,
                                 !.tries = 1, !.todo = rest]]
    /\ doubtful' = IF OnTopic(x) = {} THEN doubtful ELSE doubtful \cup {x}

CallSubscribe(t, x) ==
    /\ thread[t] = Idle
    /\ calls < MaxCalls
    /\ calls' = calls + 1
    /\ BeginSubscribe(t, x, "user", {})
    /\ UNCHANGED <<options, status, handlers, routes, broker, stored,
                   connections, crashes>>

(* An attempt of Subscribe: the client sets the route and sends.            *)
SubscribeSends(t) ==
    /\ thread[t].pc = "send"
    /\ status = "Connected"
    /\ routes' = [x \in Topics |-> IF x \in thread[t].topic THEN thread[t].by
                                                            ELSE routes[x]]
    /\ thread' = [thread EXCEPT ![t].pc = "sent"]
    /\ UNCHANGED <<options, status, handlers, broker, stored, bounds,
                   doubtful>>

(* The session is not connected, or the attempt failed: it sleeps and tries *)
(* again, or gives up.  Unsubscribe has one attempt only.                   *)
AttemptFails(t) ==
    /\ \/ thread[t].pc = "send" /\ status # "Connected"
       \/ thread[t].pc = "failed"
    /\ \/ /\ thread[t].op = "subscribe" /\ thread[t].tries < MaxTries
          /\ thread' = [thread EXCEPT ![t].pc = "send", ![t].tries = @ + 1]
          /\ UNCHANGED doubtful
       \/ /\ thread[t].op = "unsubscribe" \/ thread[t].tries = MaxTries
          /\ thread' = [thread EXCEPT ![t] = Ended(t)]
          /\ doubtful' = doubtful \cup thread[t].topic
    /\ UNCHANGED <<options, status, handlers, routes, broker, stored, bounds>>

(* Unsubscribe of a connected session: the client forgets the route and     *)
(* sends.                                                                   *)
CallUnsubscribe(t, x) ==
    /\ thread[t] = Idle
    /\ calls < MaxCalls
    /\ status = "Connected"
    /\ calls' = calls + 1
    /\ routes' = [routes EXCEPT ![x] = "none"]
    /\ thread' = [thread EXCEPT ![t] =
                    [Idle EXCEPT !.pc = "sent", !.op = "unsubscribe",
                                 !.topic = {x}]]
    /\ doubtful' = IF OnTopic(x) = {} THEN doubtful ELSE doubtful \cup {x}
    /\ UNCHANGED <<options, status, handlers, broker, stored, connections,
                   crashes>>

(* The broker takes the request and answers, or refuses a subscription; the *)
(* answer is read, or lost with the connection (see ConnectionLost).        *)
BrokerTakes(t) ==
    /\ thread[t].pc = "sent"
    /\ broker' = IF thread[t].op = "subscribe" THEN broker \cup thread[t].topic
                                               ELSE broker \ thread[t].topic
    /\ thread' = [thread EXCEPT ![t].pc = "answered"]
    /\ UNCHANGED <<options, status, handlers, routes, stored, bounds,
                   doubtful>>

BrokerRefuses(t) ==
    /\ thread[t].pc = "sent"
    /\ thread[t].op = "subscribe"
    /\ thread' = [thread EXCEPT ![t].pc = "failed"]
    /\ UNCHANGED <<options, status, handlers, routes, broker, stored, bounds,
                   doubtful>>

AnswerRead(t) ==
    /\ thread[t].pc = "answered"
    /\ thread' = [thread EXCEPT ![t].pc = "record"]
    /\ UNCHANGED <<options, status, handlers, routes, broker, stored, bounds,
                   doubtful>>

(* Variant: the handler is registered for a request just sent.              *)
RecordEarly(t) ==
    /\ thread[t].pc \in {"sent", "record"}
    /\ handlers' = [x \in Topics |-> IF x \in thread[t].topic
                                       THEN thread[t].by ELSE handlers[x]]
    /\ thread' = [thread EXCEPT ![t] = Recorded(t)]
    /\ UNCHANGED <<options, status, routes, broker, stored, bounds, doubtful>>

(* The registry is updated, by Subscribe or by Unsubscribe, under its lock. *)
Record(t) ==
    /\ thread[t].pc = "record"
    /\ handlers' = [x \in Topics |-> IF x \in thread[t].topic
                                       THEN thread[t].by ELSE handlers[x]]
    /\ thread' = [thread EXCEPT ![t] = Recorded(t)]
    /\ UNCHANGED <<options, status, routes, broker, stored, bounds, doubtful>>

-----------------------------------------------------------------------------
(* saveState: the topics are collected under the lock of the registry and   *)
(* written after it is released.                                            *)
Collect(t) ==
    /\ thread[t].pc = "collect"
    /\ thread' = [thread EXCEPT ![t].pc = "write", ![t].snapshot = Registered]
    /\ UNCHANGED <<options, status, handlers, routes, broker, stored, bounds,
                   doubtful>>

(* A save that fails is only logged.                                        *)
Write(t) ==
    /\ thread[t].pc = "write"
    /\ stored' \in {Saved(thread[t].snapshot)}
                     \cup CASE options.store = "memory" -> {}
                            [] options.store = "file" -> {stored, Torn}
                            [] options.store = "redis" -> {stored}
    /\ thread' = [thread EXCEPT ![t] = Ended(t)]
    /\ UNCHANGED <<options, status, handlers, routes, broker, bounds,
                   doubtful>>

-----------------------------------------------------------------------------
(* handleConnect: the session is connected.  A clean session is new to the  *)
(* broker.                                                                  *)
Connected(t) ==
    /\ status = "Disconnected"
    /\ thread[t] = Idle
    /\ connections < MaxConnections
    /\ connections' = connections + 1
    /\ status' = "Connected"
    /\ broker' = IF options.clean THEN {} ELSE broker
    /\ thread' = [thread EXCEPT ![t].pc = "restore", ![t].op = "connect"]
    /\ UNCHANGED <<options, handlers, routes, stored, calls, crashes, doubtful>>

(* restoreState, and the topics of the options after it: an expired state   *)
(* is deleted, one that cannot be read is left; the topics of a good one    *)
(* are subscribed with a stub that only logs, if the session is connected.  *)
RestoreState(t) ==
    LET preset == {[topic |-> x, by |-> "user"] : x \in Preset}
        stubs == {[topic |-> x, by |-> "stub"] : x \in stored.topics}
        resumes == options.persistent /\ options.resume
    IN  /\ thread[t].pc = "restore"
        /\ \/ /\ resumes /\ stored.kind = "saved" /\ status = "Connected"
              /\ thread' = [thread EXCEPT
                              ![t] = [Idle EXCEPT !.pc = "next",
                                                  !.todo = stubs \cup preset]]
              /\ UNCHANGED stored
           \/ /\ \/ resumes /\ stored.kind = "saved" /\ stored' = Absent
                 \/ ~resumes /\ UNCHANGED stored
                 \/ LoadMayFail /\ UNCHANGED stored
                 \/ status # "Connected" /\ UNCHANGED stored
              /\ thread' = [thread EXCEPT
                              ![t] = [Idle EXCEPT !.pc = "next",
                                                  !.todo = preset]]
        /\ UNCHANGED <<options, status, handlers, routes, broker, bounds,
                       doubtful>>

(* Variant: the topics of the options are not kept for last.                *)
SubscribeAnyNext(t) ==
    /\ thread[t].pc = "next"
    /\ \/ \E s \in thread[t].todo :
            BeginSubscribe(t, s.topic, s.by, thread[t].todo \ {s})
       \/ /\ thread[t].todo = {}
          /\ thread' = [thread EXCEPT ![t] = Idle]
          /\ UNCHANGED doubtful
    /\ UNCHANGED <<options, status, handlers, routes, broker, stored, bounds>>

(* The next topic of the list, until there is none.                         *)
SubscribeNext(t) ==
    /\ thread[t].pc = "next"
    /\ \/ \E s \in Due(t) :
            BeginSubscribe(t, s.topic, s.by, thread[t].todo \ {s})
       \/ /\ thread[t].todo = {}
          /\ thread' = [thread EXCEPT ![t] = Idle]
          /\ UNCHANGED doubtful
    /\ UNCHANGED <<options, status, handlers, routes, broker, stored, bounds>>

(* The connection is lost: every request on its way fails, and              *)
(* handleConnectionLost starts,                                             *)
ConnectionLost(t) ==
    /\ status = "Connected"
    /\ thread[t] = Idle
    /\ status' = "Disconnected"
    /\ thread' = [CutOff(thread) EXCEPT ![t].pc = "load", ![t].op = "lost"]
    /\ UNCHANGED <<options, handlers, routes, broker, stored, bounds,
                   doubtful>>

(* which loads the state, sets its time of disconnection, and writes it.    *)
LoadState(t) ==
    /\ thread[t].pc = "load"
    /\ \/ /\ options.persistent /\ stored.kind = "saved"
          /\ thread' = [thread EXCEPT ![t].pc = "write",
                                      ![t].snapshot = stored.topics]
       \/ /\ ~options.persistent \/ LoadMayFail
          /\ thread' = [thread EXCEPT ![t] = Idle]
    /\ UNCHANGED <<options, status, handlers, routes, broker, stored, bounds,
                   doubtful>>

-----------------------------------------------------------------------------
(* Disconnect: a connected, persistent session saves its state before.      *)
CallDisconnect(t) ==
    /\ thread[t] = Idle
    /\ calls < MaxCalls
    /\ status # "Closed"
    /\ calls' = calls + 1
    /\ thread' = [thread EXCEPT
                    ![t].op = "disconnect",
                    ![t].pc = IF options.persistent /\ status = "Connected"
                                THEN "collect" ELSE "close"]
    /\ UNCHANGED <<options, status, handlers, routes, broker, stored,
                   connections, crashes, doubtful>>

Close(t) ==
    /\ thread[t].pc = "close"
    /\ status' = "Closed"
    /\ thread' = [CutOff(thread) EXCEPT ![t] = Idle]
    /\ UNCHANGED <<options, handlers, routes, broker, stored, bounds,
                   doubtful>>

(* The process ends and is started again: a new session on the same store,  *)
(* whose newSession already deletes a state that has expired.               *)
Restart ==
    /\ crashes < MaxCrashes
    /\ crashes' = crashes + 1
    /\ status' = "Disconnected"
    /\ handlers' = [x \in Topics |-> "none"]
    /\ routes' = [x \in Topics |-> "none"]
    /\ thread' = [t \in Threads |-> Idle]
    /\ \/ options.store # "memory" /\ UNCHANGED stored
       \/ /\ options.store = "file"
          /\ \E t \in Threads : thread[t].pc = "write"
          /\ stored' = Torn
       \/ stored.kind # "torn" /\ stored' = Absent
    /\ doubtful' = {}
    /\ UNCHANGED <<options, broker, calls, connections>>

-----------------------------------------------------------------------------
Call(t) ==
    \/ \E x \in Topics : CallSubscribe(t, x) \/ CallUnsubscribe(t, x)
    \/ CallDisconnect(t)

Callback(t) == Connected(t) \/ ConnectionLost(t)

Step(t) ==
    \/ SubscribeSends(t) \/ AttemptFails(t)
    \/ BrokerTakes(t) \/ BrokerRefuses(t) \/ AnswerRead(t)
    \/ Record(t) \/ Collect(t) \/ Write(t)
    \/ RestoreState(t) \/ SubscribeNext(t) \/ LoadState(t)
    \/ Close(t)

Next ==
    \/ \E t \in Callers : Call(t)
    \/ \E t \in Callbacks : Callback(t)
    \/ \E t \in Threads : Step(t)
    \/ Restart

Spec == Init /\ [][Next]_vars

-----------------------------------------------------------------------------
Quiet == \A t \in Threads : thread[t] = Idle

(* Where every call on a topic has succeeded and no two were at once, the   *)
(* registry has the handler the client calls, and the broker holds what the *)
(* registry holds, whatever else is going on, reconnections of a session    *)
(* that is not clean included (session.go:519-549, 577-589).                *)
RegistryAgrees ==
    \A x \in Topics \ doubtful :
        OnTopic(x) = {} =>
            /\ handlers[x] = routes[x]
            /\ handlers[x] # "none" => x \in broker \/ options.clean

(* The handlers of opts.Topics outlive the restoring of the same topics     *)
(* from the store: handleConnect subscribes them last (lines 257-277).      *)
PresetKeepsHandler ==
    Quiet => \A x \in Preset \ doubtful : handlers[x] # "stub"

(* "When persistence is on, the state of the subscriptions is saved"        *)
(* (session.go:551): with every call ended, in a process that has not been  *)
(* started again, a state that is stored has the topics of the registry.    *)
SavedWhenQuiet ==
    Quiet /\ crashes = 0 /\ stored.kind = "saved" => stored.topics = Registered

=============================================================================
