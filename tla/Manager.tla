------------------------------- MODULE Manager -------------------------------
(***************************************************************************)
(* The manager (manager.go) and its events (event.go): a map of sessions   *)
(* under m.mu and lists of handlers under em.mu, both read-write locks of  *)
(* Go, where a writer that waits keeps new readers out.                    *)
(*                                                                         *)
(* AddSession and RemoveSession keep m.mu while the client connects or     *)
(* disconnects and while every event on the way is emitted; SubscribeAll   *)
(* and its like read-lock it while the broker answers; emit read-locks     *)
(* em.mu while it calls the handlers.  The callbacks of each session's     *)
(* client emit events from goroutines of their own.  What the callbacks    *)
(* do besides is in modules Session and Subscriptions.                     *)
(***************************************************************************)
EXTENDS Integers, Sequences, FiniteSets

CONSTANTS
    Names,       \* names of sessions
    Ids,         \* Session objects, each created by one AddSession
    Callers,     \* goroutines of the application
    Callbacks,   \* goroutines of the clients, one per callback under way
    AskingSets,  \* what handlers may call back into the manager for
    MaxCalls,    \* bound: calls of the application
    MaxLosses,   \* bound: connections lost
    MaxMessages, \* bound: messages whose handlers run
    None

EventTypes == {"connecting", "connected", "disconnected", "reconnecting",
               "added", "removed"}

Threads == Callers \cup Callbacks

ASSUME ThreadsAssumption == Callers \cap Callbacks = {}
ASSUME NoneAssumption ==
    None \notin Ids \cup Names \cup Threads \cup EventTypes
ASSUME AskingAssumption ==
    \A asking \in AskingSets : asking \subseteq EventTypes \cup {"message"}
ASSUME BoundsAssumption == {MaxCalls, MaxLosses, MaxMessages} \subseteq Nat

VARIABLES
    asking,    \* event types whose handlers call the manager, and "message"
               \* when message handlers do; never changed
    \* the manager
    sessions,  \* m.sessions
    active,    \* m.metrics.ActiveSessions
    mWriter, mPending, mReaders,  \* m.mu
    emPending, emReaders,         \* em.mu, whose writers only append
    \* the sessions and their clients
    nameOf,    \* the name each object was created for
    status,    \* s.status
    client,    \* the connection
    connectCalls, lostCalls,  \* callbacks spawned and not yet run
    dispatcher,               \* whether a message handler is running
    \* the goroutines
    thread,
    calls, losses, messages,
    \* auxiliary
    seen,      \* the last of added and removed an observer was told of a name
    gap        \* waiting callers whose event came before they registered

mLock == <<mWriter, mPending, mReaders>>
emLock == <<emPending, emReaders>>
locks == <<mLock, emLock>>
registry == <<sessions, active>>
clients == <<client, connectCalls, lostCalls>>
objects == <<nameOf, status, clients, dispatcher>>
bounds == <<asking, calls, losses, messages>>
told == <<seen, gap>>
others == <<registry, locks, objects, bounds, told>>
vars == <<thread, others>>

-----------------------------------------------------------------------------
(* A goroutine that still has events to emit does nothing else.             *)
Idle == [op |-> "none", name |-> None, id |-> None, pc |-> "idle",
         emits |-> <<>>, todo |-> {}, done |-> {}]

At(g, pc) == thread[g].pc = pc /\ thread[g].emits = <<>>
Returns(g) == thread' = [thread EXCEPT ![g] = Idle]
Goes(g, pc) == thread' = [thread EXCEPT ![g].pc = pc]
GoesEmitting(g, pc, events) ==
    thread' = [thread EXCEPT ![g].pc = pc, ![g].emits = events]

(* RLock: not past a writer that holds the lock or waits for it.            *)
MCanRead == mWriter = None /\ mPending = None
EmCanRead == emPending = None

(* setState.  The event of its own that it emits when the status changes    *)
(* goes right before one of EventTypes, under the same lock, and is taken   *)
(* as one with it.                                                          *)
SetState(id, new) == status' = [status EXCEPT ![id] = new]

Init ==
    /\ asking \in AskingSets
    /\ sessions = [n \in Names |-> None]
    /\ active = 0
    /\ mWriter = None /\ mPending = None /\ mReaders = {}
    /\ emPending = None /\ emReaders = {}
    /\ nameOf = [i \in Ids |-> None]
    /\ status = [i \in Ids |-> "Disconnected"]
    /\ client = [i \in Ids |-> "down"]
    /\ connectCalls = [i \in Ids |-> 0]
    /\ lostCalls = [i \in Ids |-> 0]
    /\ dispatcher = [i \in Ids |-> "idle"]
    /\ thread = [g \in Threads |-> Idle]
    /\ calls = 0 /\ losses = 0 /\ messages = 0
    /\ seen = [n \in Names |-> None]
    /\ gap = {}

-----------------------------------------------------------------------------
(* Calls.  A name is given to all that take one.                            *)
FirstStep == [add |-> "lock", remove |-> "lock", get |-> "get",
              all |-> "rlock", publishAll |-> "rlock",
              disconnectAll |-> "rlock", on |-> "on", wait |-> "get"]

Call(g, op, n) ==
    /\ thread[g] = Idle
    /\ calls < MaxCalls
    /\ calls' = calls + 1
    /\ thread' = [thread EXCEPT ![g] = [Idle EXCEPT !.op = op, !.name = n,
                                                    !.pc = FirstStep[op]]]
    /\ gap' = gap \ {g}
    /\ UNCHANGED <<registry, locks, objects, asking, losses, messages, seen>>

(* m.mu.Lock: one writer announces itself, then waits for the readers.      *)
LockAnnounce(g) ==
    /\ At(g, "lock")
    /\ MCanRead
    /\ mPending' = g
    /\ Goes(g, "locking")
    /\ UNCHANGED <<registry, mWriter, mReaders, emLock, objects, bounds, told>>

LockAcquire(g) ==
    /\ At(g, "locking")
    /\ mReaders = {}
    /\ mPending' = None
    /\ mWriter' = g
    /\ Goes(g, thread[g].op)
    /\ UNCHANGED <<registry, mReaders, emLock, objects, bounds, told>>

Unlock(g) ==
    /\ At(g, "unlock")
    /\ mWriter' = None
    /\ Returns(g)
    /\ UNCHANGED <<registry, mPending, mReaders, emLock, objects, bounds,
                   told>>

-----------------------------------------------------------------------------
(* The next object to be created.                                           *)
Unused == {id \in Ids : nameOf[id] = None}
Fresh == IF Unused = {} THEN None ELSE CHOOSE id \in Unused : TRUE

(* Variant: the refusal returns without unlocking.                          *)
AddRefusedLocked(g) ==
    /\ At(g, "add")
    /\ Returns(g)
    /\ UNCHANGED others

(* Variant: the name is looked up with GetSession, under the lock.          *)
AddLooksUp(g) ==
    /\ At(g, "add")
    /\ Goes(g, "get")
    /\ UNCHANGED others

(* AddSession: refused when the name is taken or the TLS files are bad;     *)
(* else a new object connects.                                              *)
AddRefused(g) ==
    /\ At(g, "add")
    /\ Goes(g, "unlock")
    /\ UNCHANGED others

(* Variant: a taken name is not noticed.                                    *)
AddConnectsAnyway(g, id) ==
    /\ At(g, "add")
    /\ id = Fresh
    /\ nameOf' = [nameOf EXCEPT ![id] = thread[g].name]
    /\ SetState(id, "Connecting")
    /\ client' = [client EXCEPT ![id] = "connecting"]
    /\ thread' = [thread EXCEPT ![g].id = id, ![g].pc = "connect",
                    ![g].emits = <<"connecting">>]
    /\ UNCHANGED <<registry, locks, connectCalls, lostCalls, dispatcher,
                   bounds, told>>

AddConnects(g, id) ==
    /\ At(g, "add")
    /\ sessions[thread[g].name] = None
    /\ id = Fresh
    /\ nameOf' = [nameOf EXCEPT ![id] = thread[g].name]
    /\ SetState(id, "Connecting")
    /\ client' = [client EXCEPT ![id] = "connecting"]
    /\ thread' = [thread EXCEPT ![g].id = id, ![g].pc = "connect",
                    ![g].emits = <<"connecting">>]
    /\ UNCHANGED <<registry, locks, connectCalls, lostCalls, dispatcher,
                   bounds, told>>

(* The client spawns OnConnect and completes the token, or fails.           *)
ConnectAnswered(g, ok) ==
    /\ At(g, "connect")
    /\ LET id == thread[g].id
       IN  IF ok THEN /\ client' = [client EXCEPT ![id] = "up"]
                      /\ connectCalls' = [connectCalls EXCEPT ![id] = @ + 1]
                 ELSE /\ client' = [client EXCEPT ![id] = "down"]
                      /\ UNCHANGED connectCalls
    /\ Goes(g, IF ok THEN "connected" ELSE "refused")
    /\ UNCHANGED <<registry, locks, nameOf, status, lostCalls, dispatcher,
                   bounds, told>>

(* connect() returns, with the session in the map either way.               *)
ConnectReturns(g) ==
    /\ \/ /\ At(g, "connected")
          /\ SetState(thread[g].id, "Connected")
          /\ Goes(g, "insert")
       \/ /\ At(g, "refused")
          /\ SetState(thread[g].id, "Disconnected")
          /\ GoesEmitting(g, "insert", <<"disconnected">>)
    /\ UNCHANGED <<registry, locks, nameOf, clients, dispatcher, bounds, told>>

AddInserts(g) ==
    /\ At(g, "insert")
    /\ sessions' = [sessions EXCEPT ![thread[g].name] = thread[g].id]
    /\ active' = active + 1
    /\ GoesEmitting(g, "unlock", <<"added">>)
    /\ UNCHANGED <<locks, objects, bounds, told>>

-----------------------------------------------------------------------------
(* Disconnect: the client is closed when it is connected or reconnecting.   *)
DisconnectClient(id) ==
    client' = [client EXCEPT ![id] = IF @ \in {"up", "lost"} THEN "closed"
                                                             ELSE @]

(* RemoveSession: an error when the name is not there.                      *)
RemoveUnknown(g) ==
    /\ At(g, "remove")
    /\ sessions[thread[g].name] = None
    /\ Goes(g, "unlock")
    /\ UNCHANGED others

RemoveDisconnects(g) ==
    /\ At(g, "remove")
    /\ LET id == sessions[thread[g].name]
       IN  /\ id # None
           /\ DisconnectClient(id)
           /\ SetState(id, "Closed")
           /\ thread' = [thread EXCEPT ![g].id = id, ![g].pc = "delete",
                           ![g].emits = <<"disconnected">>]
    /\ UNCHANGED <<registry, locks, nameOf, connectCalls, lostCalls,
                   dispatcher, bounds, told>>

(* Variant: the count is left alone.                                        *)
RemoveDeletesUncounted(g) ==
    /\ At(g, "delete")
    /\ sessions' = [sessions EXCEPT ![thread[g].name] = None]
    /\ GoesEmitting(g, "unlock", <<"removed">>)
    /\ UNCHANGED <<active, locks, objects, bounds, told>>

(* Variant: the event is emitted once the lock has been released.           *)
RemoveDeletesUnlocked(g) ==
    /\ At(g, "delete")
    /\ sessions' = [sessions EXCEPT ![thread[g].name] = None]
    /\ active' = active - 1
    /\ mWriter' = None
    /\ GoesEmitting(g, "end", <<"removed">>)
    /\ UNCHANGED <<mPending, mReaders, emLock, objects, bounds, told>>

RemoveDeletes(g) ==
    /\ At(g, "delete")
    /\ sessions' = [sessions EXCEPT ![thread[g].name] = None]
    /\ active' = active - 1
    /\ GoesEmitting(g, "unlock", <<"removed">>)
    /\ UNCHANGED <<locks, objects, bounds, told>>

-----------------------------------------------------------------------------
Members == {sessions[n] : n \in Names} \ {None}

ForEach(op) == IF op = "disconnectAll" THEN "disconnectAll" ELSE "all"

(* Variant: the lock is released once the sessions have been listed.        *)
AllListsUnlocked(g) ==
    /\ At(g, "rlock")
    /\ MCanRead
    /\ thread' = [thread EXCEPT ![g].pc = ForEach(thread[g].op),
                                ![g].todo = Members]
    /\ UNCHANGED others

(* SubscribeAll and UnsubscribeAll ("all"), PublishToAll, DisconnectAll: the *)
(* sessions one by one, in any order, under the read lock.                  *)
AllLocks(g) ==
    /\ At(g, "rlock")
    /\ MCanRead
    /\ mReaders' = mReaders \cup {g}
    /\ thread' = [thread EXCEPT ![g].pc = ForEach(thread[g].op),
                                ![g].todo = Members]
    /\ UNCHANGED <<registry, mWriter, mPending, emLock, objects, bounds, told>>

Visit(g, id) ==
    [thread EXCEPT ![g].todo = @ \ {id}, ![g].done = @ \cup {id}]

(* What the client takes: a publication also while it reconnects.           *)
Accepts(op, id) ==
    \/ client[id] = "up"
    \/ op = "publishAll" /\ client[id] = "lost"

(* A session that is not connected fails, as does a request that its client *)
(* does not take; else the request is sent.                                 *)
AllAsks(g, id) ==
    /\ At(g, "all")
    /\ id \in thread[g].todo
    /\ thread' = IF status[id] = "Connected" /\ Accepts(thread[g].op, id)
                 THEN [Visit(g, id) EXCEPT ![g].id = id, ![g].pc = "answer"]
                 ELSE Visit(g, id)
    /\ UNCHANGED others

(* The answer is read behind the message being handled.  A subscription     *)
(* fails when the connection is lost; a publication stays with the client,  *)
(* which sends it again after a reconnection, and is waited for without a   *)
(* timeout.                                                                 *)
AllAnswered(g) ==
    LET id == thread[g].id
    IN  /\ At(g, "answer")
        /\ \/ client[id] = "up" /\ dispatcher[id] = "idle"
           \/ client[id] # "up" /\ thread[g].op = "all"
        /\ Goes(g, "all")
        /\ UNCHANGED others

(* A client that is closed may give up its publications, or leave them.     *)
AllAbandoned(g) ==
    /\ At(g, "answer")
    /\ thread[g].op = "publishAll"
    /\ client[thread[g].id] = "closed"
    /\ Goes(g, "all")
    /\ UNCHANGED others

AllDisconnects(g, id) ==
    /\ At(g, "disconnectAll")
    /\ id \in thread[g].todo
    /\ DisconnectClient(id)
    /\ SetState(id, "Closed")
    /\ thread' = [Visit(g, id) EXCEPT
                    ![g].id = id,
                    ![g].emits = <<"disconnected">>]
    /\ UNCHANGED <<registry, locks, nameOf, connectCalls, lostCalls,
                   dispatcher, bounds, told>>

AllUnlocks(g) ==
    /\ At(g, "all") \/ At(g, "disconnectAll")
    /\ thread[g].todo = {}
    /\ mReaders' = mReaders \ {g}
    /\ Returns(g)
    /\ UNCHANGED <<registry, mWriter, mPending, emLock, objects, bounds, told>>

-----------------------------------------------------------------------------
(* GetSession, alone or as the first step of WaitForSession.  PublishTo and *)
(* SubscribeTo go on with one session and no lock.                          *)
Get(g) ==
    /\ At(g, "get")
    /\ MCanRead
    /\ LET id == sessions[thread[g].name]
       IN  thread' = IF thread[g].op = "wait" /\ id # None
                     THEN [thread EXCEPT ![g].id = id, ![g].pc = "look"]
                     ELSE [thread EXCEPT ![g] = Idle]
    /\ UNCHANGED others

(* Variant: the status is not looked at.                                    *)
WaitLooksAway(g) ==
    /\ At(g, "look")
    /\ Goes(g, "on")
    /\ UNCHANGED others

WaitLooks(g) ==
    /\ At(g, "look")
    /\ thread' = IF status[thread[g].id] = "Connected"
                 THEN [thread EXCEPT ![g] = Idle]
                 ELSE [thread EXCEPT ![g].pc = "on"]
    /\ UNCHANGED others

(* on, for OnEvent and WaitForSession: em.mu is locked to append.           *)
OnAnnounce(g) ==
    /\ At(g, "on")
    /\ EmCanRead
    /\ emPending' = g
    /\ Goes(g, "registering")
    /\ UNCHANGED <<registry, mLock, emReaders, objects, bounds, told>>

OnRegisters(g) ==
    /\ At(g, "registering")
    /\ emReaders = {}
    /\ emPending' = None
    /\ thread' = IF thread[g].op = "wait"
                 THEN [thread EXCEPT ![g].pc = "waiting"]
                 ELSE [thread EXCEPT ![g] = Idle]
    /\ UNCHANGED <<registry, mLock, emReaders, objects, bounds, told>>

(* The wait ends with the event or with the timer, in either case at once.  *)
WaitEnds(g) ==
    /\ At(g, "waiting") \/ At(g, "signalled")
    /\ Returns(g)
    /\ UNCHANGED others

-----------------------------------------------------------------------------
(* emit: the handlers are called one after the other under em.mu.           *)
EventName(g) == IF thread[g].id = None THEN thread[g].name
                                       ELSE nameOf[thread[g].id]

Deliver(g) ==
    LET event == Head(thread[g].emits)
        waits(h, pcs) == /\ event = "connected"
                         /\ thread[h].op = "wait"
                         /\ thread[h].name = EventName(g)
                         /\ thread[h].pc \in pcs
    IN  /\ seen' = IF event \in {"added", "removed"}
                   THEN [seen EXCEPT ![EventName(g)] = event] ELSE seen
        /\ gap' = gap \cup {h \in Callers :
                               waits(h, {"look", "on", "registering"})}
        /\ thread' = [h \in Threads |->
                        IF h = g THEN [thread[h] EXCEPT !.emits = Tail(@)]
                        ELSE IF waits(h, {"waiting"})
                             THEN [thread[h] EXCEPT !.pc = "signalled"]
                             ELSE thread[h]]

(* Handlers that keep to themselves,                                        *)
Emit(g) ==
    /\ thread[g].emits # <<>>
    /\ Head(thread[g].emits) \notin asking
    /\ EmCanRead
    /\ Deliver(g)
    /\ UNCHANGED <<registry, locks, objects, bounds>>

(* and handlers that call the manager, if only to get a session.            *)
EmitBegins(g) ==
    /\ thread[g].emits # <<>>
    /\ Head(thread[g].emits) \in asking
    /\ g \notin emReaders
    /\ EmCanRead
    /\ emReaders' = emReaders \cup {g}
    /\ UNCHANGED <<registry, mLock, emPending, objects, thread, bounds, told>>

EmitEnds(g) ==
    /\ g \in emReaders
    /\ MCanRead
    /\ Deliver(g)
    /\ emReaders' = emReaders \ {g}
    /\ UNCHANGED <<registry, mLock, emPending, objects, bounds>>

-----------------------------------------------------------------------------
(* The client of session id loses its connection; it calls back, and its    *)
(* reconnect loop starts.                                                   *)
ConnectionLost(id) ==
    /\ client[id] = "up"
    /\ losses < MaxLosses
    /\ losses' = losses + 1
    /\ client' = [client EXCEPT ![id] = "lost"]
    /\ lostCalls' = [lostCalls EXCEPT ![id] = @ + 1]
    /\ UNCHANGED <<registry, locks, nameOf, status, connectCalls, dispatcher,
                   thread, asking, calls, messages, told>>

(* A callback starts with the status and the events that follow.            *)
CallbackRuns(k, op, id, new, pc, event) ==
    /\ thread[k] = Idle
    /\ SetState(id, new)
    /\ thread' = [thread EXCEPT ![k] =
                    [Idle EXCEPT !.op = op, !.id = id, !.pc = pc,
                                 !.emits = <<event>>]]

HandleConnect(k, id) ==
    /\ connectCalls[id] > 0
    /\ connectCalls' = [connectCalls EXCEPT ![id] = @ - 1]
    /\ CallbackRuns(k, "handleConnect", id, "Connected", "end", "connected")
    /\ UNCHANGED <<registry, locks, nameOf, client, lostCalls, dispatcher,
                   bounds, told>>

HandleConnectionLost(k, id) ==
    /\ lostCalls[id] > 0
    /\ lostCalls' = [lostCalls EXCEPT ![id] = @ - 1]
    /\ CallbackRuns(k, "handleConnectionLost", id, "Disconnected", "end",
                    "disconnected")
    /\ UNCHANGED <<registry, locks, nameOf, client, connectCalls, dispatcher,
                   bounds, told>>

(* The reconnect loop calls handleReconnecting before each attempt.         *)
HandleReconnecting(k, id) ==
    /\ client[id] = "lost"
    /\ \A h \in Callbacks :
         ~(thread[h].op = "handleReconnecting" /\ thread[h].id = id)
    /\ CallbackRuns(k, "handleReconnecting", id, "Reconnecting", "attempt",
                    "reconnecting")
    /\ UNCHANGED <<registry, locks, nameOf, clients, dispatcher, bounds, told>>

Reconnects(k, ok) ==
    /\ At(k, "attempt")
    /\ LET id == thread[k].id
       IN  IF ok /\ client[id] = "lost"
           THEN /\ client' = [client EXCEPT ![id] = "up"]
                /\ connectCalls' = [connectCalls EXCEPT ![id] = @ + 1]
           ELSE UNCHANGED <<client, connectCalls>>
    /\ Returns(k)
    /\ UNCHANGED <<registry, locks, nameOf, status, lostCalls, dispatcher,
                   bounds, told>>

CallbackEnds(k) ==
    /\ At(k, "end")
    /\ Returns(k)
    /\ UNCHANGED others

(* A message is handed to its handler, which may call PublishTo.            *)
MessageArrives(id) ==
    /\ client[id] = "up" /\ dispatcher[id] = "idle"
    /\ messages < MaxMessages
    /\ messages' = messages + 1
    /\ dispatcher' = [dispatcher EXCEPT ![id] = "handling"]
    /\ UNCHANGED <<registry, locks, nameOf, status, clients, thread, asking,
                   calls, losses, told>>

MessageHandled(id) ==
    /\ dispatcher[id] = "handling"
    /\ "message" \in asking => MCanRead
    /\ dispatcher' = [dispatcher EXCEPT ![id] = "idle"]
    /\ UNCHANGED <<registry, locks, nameOf, status, clients, thread, bounds,
                   told>>

-----------------------------------------------------------------------------
AddSession(g) ==
    \/ AddRefused(g)
    \/ \E id \in Ids : AddConnects(g, id)
    \/ \E ok \in BOOLEAN : ConnectAnswered(g, ok)
    \/ ConnectReturns(g)
    \/ AddInserts(g)

RemoveSession(g) == RemoveUnknown(g) \/ RemoveDisconnects(g) \/ RemoveDeletes(g)

OnAllSessions(g) ==
    \/ AllLocks(g)
    \/ \E id \in Ids : AllAsks(g, id) \/ AllDisconnects(g, id)
    \/ AllAnswered(g)
    \/ AllUnlocks(g)

WaitForSession(g) ==
    Get(g) \/ WaitLooks(g) \/ OnAnnounce(g) \/ OnRegisters(g) \/ WaitEnds(g)

Emits(g) == Emit(g) \/ EmitBegins(g) \/ EmitEnds(g)

CallerStep(g) ==
    \/ LockAnnounce(g) \/ LockAcquire(g) \/ Unlock(g)
    \/ AddSession(g)
    \/ RemoveSession(g)
    \/ OnAllSessions(g)
    \/ WaitForSession(g)
    \/ Emits(g)
    \/ CallbackEnds(g)

CallbackStep(k) ==
    \/ Emits(k)
    \/ \E ok \in BOOLEAN : Reconnects(k, ok)
    \/ CallbackEnds(k)

Callback(k) ==
    \E id \in Ids : \/ HandleConnect(k, id)
                    \/ HandleConnectionLost(k, id)
                    \/ HandleReconnecting(k, id)

Next ==
    \/ \E g \in Callers, op \in DOMAIN FirstStep, n \in Names : Call(g, op, n)
    \/ \E g \in Callers : CallerStep(g) \/ AllAbandoned(g)
    \/ \E k \in Callbacks : CallbackStep(k) \/ Callback(k)
    \/ \E id \in Ids : ConnectionLost(id) \/ MessageArrives(id)
                          \/ MessageHandled(id)

Spec == Init /\ [][Next]_vars

(* Goroutines that can run do, connecting comes to an end, as do requests   *)
(* on a connection, and handlers return; nobody has to call, no connection  *)
(* has to succeed, and no client has to give up a publication.              *)
FairSpec ==
    /\ Spec
    /\ \A g \in Callers : WF_vars(CallerStep(g))
    /\ \A k \in Callbacks : WF_vars(CallbackStep(k))
    /\ \A id \in Ids : WF_vars(MessageHandled(id))

-----------------------------------------------------------------------------
Busy(g) == thread[g].pc # "idle"

(* ActiveSessions is the size of the map whenever the map can be read       *)
(* (manager.go:117, manager.go:182).                                        *)
CountIsMapSize == mWriter = None => active = Cardinality(Members)

(* An observer of the events added and removed knows the map whenever it    *)
(* can be read: however the calls interleave, the last event of a name is   *)
(* the truth about it (manager.go:119, manager.go:184).                     *)
EventsTellTheMap ==
    mWriter = None =>
        \A n \in Names : sessions[n] # None <=> seen[n] = "added"

(* A client that is or will be connected belongs to a session in the map,   *)
(* or to one that the holder of the lock is adding: no connection is left   *)
(* that nobody can reach (manager.go:110-117, manager.go:180-181).          *)
NoOrphan ==
    \A id \in Ids : client[id] \in {"up", "lost", "connecting"} =>
        \/ sessions[nameOf[id]] = id
        \/ mWriter # None /\ thread[mWriter].op = "add"
             /\ thread[mWriter].id = id

(* A call on all sessions misses none: every session in the map is one it   *)
(* has visited or will (manager.go:234-251).                                *)
AllReached ==
    \A g \in Callers : thread[g].pc \in {"all", "answer", "disconnectAll"} =>
        Members \subseteq thread[g].todo \cup thread[g].done

(* A connect callback of id that has yet to emit.                           *)
ConnectUnderWay(id) ==
    \/ connectCalls[id] > 0
    \/ \E k \in Callbacks : /\ thread[k].op = "handleConnect"
                            /\ thread[k].id = id
                            /\ thread[k].emits # <<>>

(* WaitForSession waits in vain for a session that is connected only when   *)
(* the event came between its look at the map and its registration          *)
(* (manager.go:304-331).                                                    *)
WaitMissesOnlyTheGap ==
    \A g \in Callers : At(g, "waiting") =>
        LET id == sessions[thread[g].name]
        IN  \/ id = None
            \/ status[id] # "Connected"
            \/ ConnectUnderWay(id)
            \/ g \in gap

(* The goroutines that g waits for.                                         *)
WaitsFor(g) ==
    LET t == thread[g]
        m == {mWriter, mPending} \ {None}
        em == {emPending} \ {None}
    IN  CASE g \in emReaders -> m
          [] g \notin emReaders /\ t.emits # <<>> -> em
          [] t.emits = <<>> /\ t.pc \in {"lock", "rlock", "get"} -> m
          [] t.emits = <<>> /\ t.pc = "locking" -> mReaders
          [] t.emits = <<>> /\ t.pc = "on" -> em
          [] t.emits = <<>> /\ t.pc = "registering" -> emReaders
          [] OTHER -> {}

(* How far a goroutine is from the end of what it holds.                    *)
Rank(t) ==
    CASE t.pc \in {"lock", "rlock", "get"} -> 3
      [] t.pc = "locking" -> 2
      [] t.pc = "on" \/ t.emits # <<>> -> 1
      [] OTHER -> 0

(* As long as no handler calls the manager, no goroutines wait for each     *)
(* other in a circle: a goroutine waits for a lock only behind ones that    *)
(* are at work and further on, in the order m.mu to read or to announce a   *)
(* writer, m.mu to write, em.mu (manager.go:104-121, event.go:11-25).       *)
NoCircularWait ==
    asking = {} =>
        \A g \in Threads : \A h \in WaitsFor(g) :
            Busy(h) /\ Rank(thread[h]) < Rank(thread[g])

(* PublishToAll waits for a client that is not connected.                   *)
Stranded(g) ==
    /\ At(g, "answer")
    /\ thread[g].op = "publishAll"
    /\ client[thread[g].id] # "up"

(* As long as no handler calls the manager every call comes back, unless a  *)
(* PublishToAll, which waits under m.mu and without a timeout               *)
(* (session.go:466), waits for a client that never comes back.              *)
CallsReturn ==
    \A g \in Callers :
        asking = {} => \/ []<>~Busy(g)
                       \/ <>[](\E h \in Callers : Stranded(h))

(* "All operations are concurrency-safe" (README.md:28): every call comes   *)
(* back, whatever handlers do.                                              *)
EveryCallReturns == \A g \in Callers : Busy(g) ~> ~Busy(g)

=============================================================================
