--------------------------- MODULE Manager_proofs ---------------------------
(***************************************************************************)
(* The invariants of Manager, for any names, sessions, callers, callbacks  *)
(* and handlers.                                                           *)
(***************************************************************************)
EXTENDS Manager, FiniteSetTheorems, TLAPS

-----------------------------------------------------------------------------
Pcs == {"idle", "lock", "locking", "add", "connect", "connected", "refused",
        "insert", "remove", "delete", "unlock", "get", "look", "on",
        "registering", "waiting", "signalled", "rlock", "all", "answer",
        "disconnectAll", "end", "attempt"}

CallOps == {"add", "remove", "get", "all", "publishAll", "disconnectAll", "on",
            "wait"}
Ops == CallOps \cup
         {"none", "handleConnect", "handleConnectionLost", "handleReconnecting"}

(* A goroutine has at most one event to emit at a time.                     *)
Emissions == {e \in Seq(EventTypes) : e # <<>> => Tail(e) = <<>>}
Says(t, e) == t.emits # <<>> /\ Head(t.emits) = e
Tells(t) == Says(t, "added") \/ Says(t, "removed")

Goroutines == [op : Ops, name : Names \cup {None}, id : Ids \cup {None},
               pc : Pcs, emits : Emissions, todo : SUBSET Ids,
               done : SUBSET Ids]

Clients == {"down", "connecting", "up", "lost", "closed"}
Live == {"up", "lost", "connecting"}
Statuses == {"Disconnected", "Connecting", "Connected", "Reconnecting",
             "Closed"}

Shapes ==
    /\ sessions \in [Names -> Ids \cup {None}] /\ active \in Int
    /\ mWriter \in Callers \cup {None} /\ mPending \in Callers \cup {None}
    /\ mReaders \subseteq Callers /\ emReaders \subseteq Threads
    /\ nameOf \in [Ids -> Names \cup {None}] /\ status \in [Ids -> Statuses]
    /\ client \in [Ids -> Clients] /\ connectCalls \in [Ids -> Nat]
    /\ thread \in [Threads -> Goroutines]
    /\ seen \in [Names -> {None, "added", "removed"}]
    /\ gap \subseteq Callers

-----------------------------------------------------------------------------
(* m.mu: who holds it, waits for it and reads under it.                     *)
WriterPcs == {"add", "connect", "connected", "refused", "insert", "remove",
              "delete", "unlock"}
ReaderPcs == {"all", "answer", "disconnectAll"}

LocksFit ==
    /\ \A g \in Threads :
         /\ thread[g].pc \in WriterPcs => mWriter = g
         /\ thread[g].pc = "locking" => mPending = g
         /\ thread[g].pc \in ReaderPcs => g \in mReaders
    /\ mPending # None \/ mReaders # {} => mWriter = None

(* What a goroutine knows where it is.                                      *)
OpFits(t) ==
    /\ t.pc \in {"lock", "locking"} => t.op \in {"add", "remove"}
    /\ t.pc \in {"add", "connect", "connected", "refused", "insert"}
         => t.op = "add"
    /\ t.pc \in {"remove", "delete"} => t.op = "remove"
    /\ t.pc = "rlock" => t.op \in {"all", "publishAll", "disconnectAll"}
    /\ t.pc \in {"look", "waiting"} => t.op = "wait"
    /\ t.op \in CallOps => t.name \in Names
    /\ Tells(t) => t.pc = "unlock"
    /\ t.op = "handleConnect"
         => t.id \in Ids /\ (t.emits = <<>> \/ Says(t, "connected"))

AddFits(t) ==
    t.pc \in {"connect", "connected", "refused", "insert"} =>
        /\ t.id \in Ids /\ nameOf[t.id] = t.name /\ sessions[t.name] = None
        /\ t.pc = "connect" => client[t.id] = "connecting"

RemoveFits(t) ==
    t.pc = "delete" => /\ t.id \in Ids /\ sessions[t.name] = t.id
                       /\ client[t.id] \notin Live

(* The event that is still to be emitted is the truth.                      *)
TellsTruth(t) ==
    Tells(t) =>
        /\ t.name \in Names /\ t.id \in Ids /\ nameOf[t.id] = t.name
        /\ sessions[t.name] = IF Says(t, "added") THEN t.id ELSE None

Reaches(t) == t.pc \in ReaderPcs => Members \subseteq t.todo \cup t.done

ThreadFits(g) ==
    /\ OpFits(thread[g]) /\ AddFits(thread[g]) /\ RemoveFits(thread[g])
    /\ TellsTruth(thread[g]) /\ Reaches(thread[g])
    /\ g \in emReaders => thread[g].emits # <<>>
                            /\ Head(thread[g].emits) \in asking

ThreadsFit == \A g \in Threads : ThreadFits(g)

-----------------------------------------------------------------------------
MapFits == \A n \in Names : sessions[n] # None => nameOf[sessions[n]] = n

Counted == IsFiniteSet(Members) /\ active = Cardinality(Members)

(* An observer knows the map, or is about to be told.                       *)
Told(n) ==
    \/ sessions[n] # None <=> seen[n] = "added"
    \/ \E g \in Callers : Tells(thread[g]) /\ thread[g].name = n

AllTold == \A n \in Names : Told(n)

Adding(g, id) == /\ thread[g].pc \in {"connect", "connected", "insert"}
                 /\ thread[g].id = id

Reachable(id) ==
    /\ client[id] \in Live =>
         \/ nameOf[id] \in Names /\ sessions[nameOf[id]] = id
         \/ \E g \in Callers : Adding(g, id)
    /\ client[id] = "connecting" =>
         \E g \in Callers : Adding(g, id) /\ thread[g].pc = "connect"

AllReachable == \A id \in Ids : Reachable(id)

(* A caller on its way through WaitForSession, past its look at the map: no *)
(* session of its name is connected unknown to it, be it in the map or just *)
(* being added.                                                             *)
Waits(g, n) == /\ thread[g].op = "wait" /\ thread[g].name = n
               /\ thread[g].pc \in {"look", "on", "registering", "waiting"}

Awaited(g, id) == ConnectUnderWay(id) \/ g \in gap

Known(g, n) ==
    \/ sessions[n] = None
    \/ thread[g].pc = "look" /\ thread[g].id = sessions[n]
    \/ status[sessions[n]] # "Connected"
    \/ Awaited(g, sessions[n])

Expected(g, n, h) ==
    thread[h].name = n =>
        /\ thread[h].pc = "connected" => Awaited(g, thread[h].id)
        /\ thread[h].pc = "insert" => \/ status[thread[h].id] # "Connected"
                                      \/ Awaited(g, thread[h].id)

WaitsFit ==
    \A g \in Callers, n \in Names :
        Waits(g, n) => Known(g, n) /\ \A h \in Callers : Expected(g, n, h)

Structure == Shapes /\ LocksFit /\ ThreadsFit /\ MapFits

IInv == Structure /\ Counted /\ AllTold /\ AllReachable /\ WaitsFit
-----------------------------------------------------------------------------
LEMMA Absent == /\ None \notin Ids /\ None \notin Names /\ None \notin Threads
                /\ None # "added"
  BY NoneAssumption DEF EventTypes

LEMMA Emission ==
    ASSUME NEW em \in Emissions
    PROVE  em # <<>> => Head(em) \in EventTypes /\ Tail(em) = <<>>
  BY DEF Emissions

LEMMA Silence == <<>> \in Emissions
  BY DEF Emissions

LEMMA OneEvent ==
    ASSUME NEW e \in EventTypes
    PROVE  <<e>> \in Emissions /\ <<e>> # <<>> /\ Head(<<e>>) = e
  BY DEF Emissions

LEMMA FirstSteps ==
    /\ DOMAIN FirstStep = CallOps
    /\ \A op \in CallOps :
         FirstStep[op] = CASE op \in {"add", "remove"} -> "lock"
                           [] op \in {"get", "wait"} -> "get"
                           [] op \in {"all", "publishAll", "disconnectAll"}
                                -> "rlock"
                           [] op = "on" -> "on"
  BY DEF FirstStep, CallOps

LEMMA InitIInv == Init => IInv
<1> SUFFICES ASSUME Init PROVE IInv
  OBVIOUS
<1> USE DEF Init, Idle
<1>1. Shapes
  BY Silence DEF Shapes, Statuses, Clients, Goroutines, Pcs, Ops
<1>2. LocksFit
  BY DEF LocksFit, WriterPcs, ReaderPcs
<1>4. ThreadsFit
  BY DEF ThreadsFit, ThreadFits, OpFits, AddFits, RemoveFits, TellsTruth,
         Tells, Says, Reaches, ReaderPcs, CallOps
<1>5. MapFits /\ AllTold
  BY Absent DEF MapFits, AllTold, Told
<1>6. Counted
  <2>1. Members = {}
    BY DEF Members
  <2> QED
    BY <2>1, FS_EmptySet DEF Counted
<1>7. AllReachable /\ WaitsFit
  BY DEF AllReachable, Reachable, Live, WaitsFit, Waits, Threads
<1> QED
  BY <1>1, <1>2, <1>4, <1>5, <1>6, <1>7 DEF IInv, Structure

-----------------------------------------------------------------------------
(* A request on all sessions is over with one of them.                      *)
Answered(g) == AllAnswered(g) \/ AllAbandoned(g)

(* The steps of a goroutine that touch the locks only: what it has done so  *)
(* far and the sessions stay as they are.                                   *)
Plain(g) ==
    \/ /\ g \in Callers
       /\ \/ LockAnnounce(g) \/ LockAcquire(g) \/ Unlock(g)
          \/ AddRefused(g) \/ RemoveUnknown(g)
          \/ AllLocks(g) \/ Answered(g) \/ AllUnlocks(g)
          \/ \E id \in Ids : AllAsks(g, id)
          \/ WaitForSession(g)
    \/ CallbackEnds(g)

LEMMA PlainFrame ==
    ASSUME NEW g, Plain(g)
    PROVE  /\ UNCHANGED <<registry, nameOf, status, clients, told, asking,
                          emReaders>>
           /\ thread[g].emits = <<>>
  BY DEF Plain, LockAnnounce, LockAcquire, Unlock, AddRefused, RemoveUnknown,
     AllLocks, Answered, AllAnswered, AllAbandoned, AllUnlocks, AllAsks,
     WaitForSession, CallbackEnds,
     Get, WaitLooks, OnAnnounce, OnRegisters, WaitEnds, At, others, registry,
     objects, bounds, locks, emLock, told

LEMMA PlainThread ==
    ASSUME Structure, NEW g \in Threads, Plain(g)
    PROVE  /\ thread' \in [Threads -> Goroutines]
           /\ \A h \in Threads \ {g} : thread'[h] = thread[h]
           /\ thread'[g].emits = <<>>
           /\ OpFits(thread'[g])
<1> DEFINE t == thread[g]
<1> USE DEF Goroutines, Ops, CallOps, Pcs, OpFits, Tells, Says, At, Goes,
            Returns
<1>1. /\ thread \in [Threads -> Goroutines] /\ t.emits = <<>> /\ OpFits(t)
      /\ sessions \in [Names -> Ids \cup {None}]
  BY PlainFrame DEF Structure, Shapes, ThreadsFit, ThreadFits
<1>2. /\ Idle \in Goroutines /\ OpFits(Idle) /\ Idle.emits = <<>>
  BY Silence DEF Idle
<1>3. CASE LockAnnounce(g)
  <2>1. /\ t.pc = "lock" /\ t.op \in {"add", "remove"}
        /\ thread' = [thread EXCEPT ![g].pc = "locking"]
    BY <1>1, <1>3 DEF LockAnnounce
  <2>2. /\ thread'[g] = [t EXCEPT !.pc = "locking"]
        /\ thread'[g].pc = "locking" /\ thread'[g].op = t.op
        /\ thread'[g].name = t.name /\ thread'[g].emits = t.emits
    BY <1>1, <2>1
  <2> QED
    BY <1>1, <2>1, <2>2
<1>4. CASE LockAcquire(g)
  BY <1>1, <1>4 DEF LockAcquire
<1>5. CASE Unlock(g) \/ AllUnlocks(g) \/ WaitEnds(g) \/ CallbackEnds(g)
  BY <1>1, <1>2, <1>5 DEF Unlock, AllUnlocks, WaitEnds, CallbackEnds
<1>6. CASE AddRefused(g) \/ RemoveUnknown(g)
  BY <1>1, <1>6 DEF AddRefused, RemoveUnknown
<1>7. CASE AllLocks(g)
  <2>1. Members \in SUBSET Ids
    BY <1>1 DEF Members
  <2> QED
    <3> DEFINE pc == ForEach(t.op)
    <3>1. /\ t.pc = "rlock" /\ t.op \in {"all", "publishAll", "disconnectAll"}
          /\ thread' = [thread EXCEPT ![g].pc = pc, ![g].todo = Members]
          /\ pc \in {"all", "disconnectAll"}
      BY <1>1, <1>7 DEF AllLocks, ForEach
    <3> HIDE DEF pc
    <3>2. /\ thread'[g] = [t EXCEPT !.pc = pc, !.todo = Members]
          /\ thread'[g].pc = pc /\ thread'[g].op = t.op
          /\ thread'[g].name = t.name /\ thread'[g].emits = t.emits
      BY <1>1, <3>1
    <3>3. OpFits(thread'[g])
      BY <1>1, <3>1, <3>2
    <3>4. thread'[g] \in Goroutines
      <4>1. t \in Goroutines /\ pc \in Pcs
        BY <1>1, <3>1
      <4>2. [t EXCEPT !.pc = pc, !.todo = Members] \in Goroutines
        BY <2>1, <4>1
      <4> QED
        BY <3>2, <4>2
    <3> QED
      BY <1>1, <3>1, <3>2, <3>3, <3>4
<1>8. CASE Answered(g)
  BY <1>1, <1>8 DEF Answered, AllAnswered, AllAbandoned
<1>9. ASSUME NEW id \in Ids, AllAsks(g, id)
      PROVE  /\ thread' \in [Threads -> Goroutines]
             /\ \A h \in Threads \ {g} : thread'[h] = thread[h]
             /\ thread'[g].emits = <<>>
             /\ OpFits(thread'[g])
  <2> DEFINE v == [t EXCEPT !.todo = @ \ {id}, !.done = @ \cup {id}]
  <2>1. t.pc = "all" /\ t \in Goroutines
    BY <1>1, <1>9 DEF AllAsks
  <2>2. /\ v \in Goroutines /\ v.pc = "all" /\ v.op = t.op
        /\ v.emits = <<>> /\ v.name = t.name /\ v.id = t.id
    BY <1>1, <2>1
  <2>3. \/ thread' = [thread EXCEPT ![g] = v]
        \/ thread' = [thread EXCEPT ![g] = [v EXCEPT !.id = id,
                                                     !.pc = "answer"]]
    BY <1>1, <1>9 DEF AllAsks, Visit
  <2> HIDE DEF v
  <2>4. CASE thread' = [thread EXCEPT ![g] = v]
    <3>1. thread'[g] = v /\ v.pc = "all"
      BY <1>1, <2>2, <2>4
    <3>2. OpFits(thread'[g])
      BY <1>1, <2>2, <3>1
    <3> QED
      BY <1>1, <2>2, <2>4, <3>1, <3>2
  <2>5. CASE thread' = [thread EXCEPT ![g] = [v EXCEPT !.id = id,
                                                      !.pc = "answer"]]
    <3>1. thread'[g] = [v EXCEPT !.id = id, !.pc = "answer"]
      BY <1>1, <2>5
    <3>2. /\ thread'[g].pc = "answer" /\ thread'[g].op = t.op
          /\ thread'[g].emits = <<>> /\ thread'[g].name = t.name
          /\ thread'[g] \in Goroutines /\ thread'[g].id = id
      BY <2>2, <3>1
    <3>3. OpFits(thread'[g])
      BY <1>1, <2>1, <3>2
    <3> QED
      BY <1>1, <2>5, <3>2, <3>3
  <2> QED
    BY <2>3, <2>4, <2>5
<1>10. CASE Get(g) \/ WaitLooks(g)
  BY <1>1, <1>2, <1>10 DEF Get, WaitLooks
<1>11. CASE OnAnnounce(g) \/ OnRegisters(g)
  BY <1>1, <1>2, <1>11 DEF OnAnnounce, OnRegisters
<1> QED
  BY <1>3, <1>4, <1>5, <1>6, <1>7, <1>8, <1>9, <1>10, <1>11
  DEF Plain, WaitForSession
(* The steps that deal with a session, or start a goroutine.                *)
Adds(g) == \/ \E id \in Ids : AddConnects(g, id)
           \/ \E ok \in BOOLEAN : ConnectAnswered(g, ok)
           \/ ConnectReturns(g) \/ AddInserts(g)
Removes(g) == RemoveDisconnects(g) \/ RemoveDeletes(g)
Disconnects(g) == \E id \in Ids : AllDisconnects(g, id)
CallsBack(g) == g \in Callbacks /\ (Callback(g) \/ \E ok \in BOOLEAN :
                                                     Reconnects(g, ok))
Starts(g) == \E op \in DOMAIN FirstStep, n \in Names : Call(g, op, n)
Working(g) ==
    \/ g \in Callers /\ (Adds(g) \/ Removes(g) \/ Disconnects(g) \/ Starts(g))
    \/ CallsBack(g)

(* An event is delivered.                                                   *)
Delivering(g) == Emit(g) \/ EmitEnds(g)

Changes(g) ==
    /\ thread' \in [Threads -> Goroutines]
    /\ \A h \in Threads \ {g} : thread'[h] = thread[h]
    /\ OpFits(thread'[g])

LEMMA Moved ==
    ASSUME NEW g \in Threads, NEW pc \in Pcs, NEW em \in Emissions,
           thread \in [Threads -> Goroutines],
           thread' = [thread EXCEPT ![g].pc = pc, ![g].emits = em]
    PROVE  thread' \in [Threads -> Goroutines]
<1>1. [thread[g] EXCEPT !.pc = pc, !.emits = em] \in Goroutines
  BY DEF Goroutines
<1> QED
  BY <1>1

LEMMA AddThread ==
    ASSUME Structure, NEW g \in Threads, Adds(g)
    PROVE  Changes(g) /\ thread[g].emits = <<>>
<1> DEFINE t == thread[g]
<1> USE DEF Goroutines, Ops, CallOps, Pcs, OpFits, Tells, Says, At, Goes,
            Changes
<1>1. /\ thread \in [Threads -> Goroutines] /\ OpFits(t)
      /\ \A e \in EventTypes : /\ <<e>> \in Emissions /\ <<e>> # <<>>
                               /\ Head(<<e>>) = e
      /\ {"connecting", "disconnected", "added"} \subseteq EventTypes
  BY OneEvent DEF Structure, Shapes, ThreadsFit, ThreadFits, EventTypes
<1>2. ASSUME NEW id \in Ids, AddConnects(g, id)
      PROVE  Changes(g) /\ t.emits = <<>>
  <2>1. /\ t.pc = "add" /\ t.emits = <<>>
        /\ thread' = [thread EXCEPT ![g].id = id, ![g].pc = "connect",
                                    ![g].emits = <<"connecting">>]
    BY <1>2 DEF AddConnects
  <2>2. /\ <<"connecting">> \in Emissions /\ <<"connecting">> # <<>>
        /\ Head(<<"connecting">>) = "connecting"
    BY <1>1
  <2> QED
    BY <1>1, <2>1, <2>2
<1>3. ASSUME NEW ok \in BOOLEAN, ConnectAnswered(g, ok)
      PROVE  Changes(g) /\ t.emits = <<>>
  <2>1. /\ t.pc = "connect" /\ t.emits = <<>>
        /\ \E pc \in {"connected", "refused"} :
             thread' = [thread EXCEPT ![g].pc = pc]
    BY <1>3 DEF ConnectAnswered
  <2> QED
    BY <1>1, <2>1
<1>4. CASE ConnectReturns(g)
  <2>1. CASE t.pc = "connected"
    <3>1. t.emits = <<>> /\ thread' = [thread EXCEPT ![g].pc = "insert"]
      BY <1>4, <2>1 DEF ConnectReturns
    <3> QED
      BY <1>1, <2>1, <3>1
  <2>2. CASE t.pc = "refused"
    <3>1. /\ t.emits = <<>>
          /\ thread' = [thread EXCEPT ![g].pc = "insert",
                                      ![g].emits = <<"disconnected">>]
      BY <1>4, <2>2 DEF ConnectReturns, GoesEmitting
    <3>2. /\ <<"disconnected">> \in Emissions /\ <<"disconnected">> # <<>>
          /\ Head(<<"disconnected">>) = "disconnected"
      BY <1>1
    <3>3. /\ thread'[g].pc = "insert" /\ thread'[g].op = t.op
          /\ thread'[g].name = t.name
          /\ thread'[g].emits = <<"disconnected">>
      BY <1>1, <3>1
    <3>4. OpFits(thread'[g])
      BY <1>1, <2>2, <3>2, <3>3
    <3>5. thread' \in [Threads -> Goroutines]
      <4>1. "insert" \in Pcs
        OBVIOUS
      <4> QED
        BY <1>1, <3>1, <3>2, <4>1, Moved
    <3> QED
      BY <1>1, <3>1, <3>4, <3>5
  <2> QED
    BY <1>4, <2>1, <2>2 DEF ConnectReturns
<1>5. CASE AddInserts(g)
  <2>1. /\ t.pc = "insert" /\ t.emits = <<>>
        /\ thread' = [thread EXCEPT ![g].pc = "unlock",
                                    ![g].emits = <<"added">>]
    BY <1>5 DEF AddInserts, GoesEmitting
  <2>2. <<"added">> \in Emissions
    BY <1>1
  <2>3. /\ thread'[g].pc = "unlock" /\ thread'[g].op = t.op
        /\ thread'[g].name = t.name
    BY <1>1, <2>1
  <2>4. OpFits(thread'[g])
    BY <1>1, <2>1, <2>3
  <2>5. thread' \in [Threads -> Goroutines]
    <3>1. "unlock" \in Pcs
      OBVIOUS
    <3> QED
      BY <1>1, <2>1, <2>2, <3>1, Moved
  <2> QED
    BY <1>1, <2>1, <2>4, <2>5
<1> QED
  BY <1>2, <1>3, <1>4, <1>5 DEF Adds

LEMMA RemoveThread ==
    ASSUME Structure, NEW g \in Threads, Removes(g) \/ Disconnects(g)
    PROVE  Changes(g) /\ thread[g].emits = <<>>
<1> DEFINE t == thread[g]
<1> USE DEF Goroutines, Ops, CallOps, Pcs, OpFits, Tells, Says, At, Changes
<1>1. /\ thread \in [Threads -> Goroutines] /\ OpFits(t)
      /\ sessions \in [Names -> Ids \cup {None}]
      /\ \A e \in EventTypes : /\ <<e>> \in Emissions /\ <<e>> # <<>>
                               /\ Head(<<e>>) = e
      /\ {"disconnected", "removed"} \subseteq EventTypes
  BY OneEvent DEF Structure, Shapes, ThreadsFit, ThreadFits, EventTypes
<1>2. /\ <<"disconnected">> \in Emissions /\ <<"disconnected">> # <<>>
      /\ Head(<<"disconnected">>) = "disconnected"
      /\ <<"removed">> \in Emissions
  BY <1>1
<1>3. CASE RemoveDisconnects(g)
  <2>1. /\ t.pc = "remove" /\ t.emits = <<>>
        /\ thread' = [thread EXCEPT ![g].id = sessions[t.name],
                        ![g].pc = "delete", ![g].emits = <<"disconnected">>]
    BY <1>3 DEF RemoveDisconnects
  <2>2. sessions[t.name] \in Ids \cup {None}
    BY <1>1, <2>1
  <2> QED
    BY <1>1, <1>2, <2>1, <2>2
<1>4. CASE RemoveDeletes(g)
  <2>1. /\ t.pc = "delete" /\ t.emits = <<>>
        /\ thread' = [thread EXCEPT ![g].pc = "unlock",
                                    ![g].emits = <<"removed">>]
    BY <1>4 DEF RemoveDeletes, GoesEmitting
  <2> QED
    BY <1>1, <1>2, <2>1
<1>5. ASSUME NEW id \in Ids, AllDisconnects(g, id)
      PROVE  Changes(g) /\ t.emits = <<>>
  <2>1. /\ t.pc = "disconnectAll" /\ t.emits = <<>>
        /\ thread' = [Visit(g, id) EXCEPT ![g].id = id,
                                          ![g].emits = <<"disconnected">>]
    BY <1>5 DEF AllDisconnects
  <2> QED
    BY <1>1, <1>2, <2>1 DEF Visit
<1> QED
  BY <1>3, <1>4, <1>5 DEF Removes, Disconnects

LEMMA StartThread ==
    ASSUME Structure, NEW g \in Threads, CallsBack(g) \/ Starts(g)
    PROVE  /\ Changes(g) /\ thread[g].emits = <<>>
           /\ thread[g] = Idle \/ thread'[g] = Idle
           /\ ~Tells(thread'[g])
<1> DEFINE t == thread[g]
<1> USE DEF Goroutines, Ops, CallOps, Pcs, OpFits, Tells, Says, At, Changes
<1>1. /\ thread \in [Threads -> Goroutines] /\ OpFits(t)
      /\ \A e \in EventTypes : /\ <<e>> \in Emissions /\ <<e>> # <<>>
                               /\ Head(<<e>>) = e
      /\ {"connected", "disconnected", "reconnecting"} \subseteq EventTypes
  BY OneEvent DEF Structure, Shapes, ThreadsFit, ThreadFits, EventTypes
<1>2. Idle \in Goroutines /\ Idle.emits = <<>>
  BY Silence DEF Idle
<1>3. ASSUME NEW op \in CallOps, NEW n \in Names, Call(g, op, n)
      PROVE  Changes(g) /\ t = Idle /\ ~Tells(thread'[g])
  <2>1. /\ t = Idle
        /\ thread' = [thread EXCEPT ![g] =
                        [Idle EXCEPT !.op = op, !.name = n,
                                     !.pc = FirstStep[op]]]
    BY <1>3 DEF Call
  <2>2. /\ FirstStep[op] \in {"lock", "get", "rlock", "on"}
        /\ FirstStep[op] = "lock" => op \in {"add", "remove"}
        /\ FirstStep[op] = "rlock"
             => op \in {"all", "publishAll", "disconnectAll"}
    BY FirstSteps
  <2>3. /\ thread'[g] = [Idle EXCEPT !.op = op, !.name = n,
                                     !.pc = FirstStep[op]]
        /\ \A h \in Threads \ {g} : thread'[h] = thread[h]
    BY <1>1, <2>1
  <2>4. thread'[g] \in Goroutines /\ thread' \in [Threads -> Goroutines]
    <3>1. ASSUME NEW pc \in Pcs
          PROVE  [Idle EXCEPT !.op = op, !.name = n, !.pc = pc] \in Goroutines
      <4>1. op \in Ops
        OBVIOUS
      <4> HIDE DEF Ops, CallOps, Pcs, OpFits, Changes
      <4> QED
        BY <1>2, <4>1
    <3> HIDE DEF Goroutines, OpFits
    <3>2. FirstStep[op] \in Pcs
      BY <2>2
    <3>3. thread'[g] \in Goroutines
      BY <2>3, <3>1, <3>2
    <3> QED
      BY <1>1, <2>1, <2>3, <3>3
  <2>5. OpFits(thread'[g]) /\ ~Tells(thread'[g])
    BY <1>2, <2>2, <2>3 DEF Idle
  <2> QED
    BY <2>1, <2>3, <2>4, <2>5
<1>4. ASSUME NEW op \in {"handleConnect", "handleConnectionLost",
                         "handleReconnecting"},
             NEW id \in Ids, NEW new, NEW pc \in {"end", "attempt"},
             NEW e \in {"connected", "disconnected", "reconnecting"},
             op = "handleConnect" => e = "connected",
             CallbackRuns(g, op, id, new, pc, e)
      PROVE  Changes(g) /\ t = Idle /\ ~Tells(thread'[g])
  <2>1. /\ t = Idle
        /\ thread' = [thread EXCEPT ![g] =
                        [Idle EXCEPT !.op = op, !.id = id, !.pc = pc,
                                     !.emits = <<e>>]]
    BY <1>4 DEF CallbackRuns
  <2>2. <<e>> \in Emissions /\ <<e>> # <<>> /\ Head(<<e>>) = e
    BY <1>1
  <2>3. /\ thread'[g] = [Idle EXCEPT !.op = op, !.id = id, !.pc = pc,
                                     !.emits = <<e>>]
        /\ \A h \in Threads \ {g} : thread'[h] = thread[h]
    BY <1>1, <2>1
  <2>4. thread'[g] \in Goroutines /\ thread' \in [Threads -> Goroutines]
    <3>1. [Idle EXCEPT !.op = op, !.id = id, !.pc = pc, !.emits = <<e>>]
            \in Goroutines
      BY <1>2, <2>2
    <3> QED
      BY <1>1, <2>1, <2>3, <3>1
  <2>5. /\ thread'[g].op = op /\ thread'[g].id = id /\ thread'[g].pc = pc
        /\ thread'[g].emits = <<e>>
    BY <2>3 DEF Idle
  <2>6. OpFits(thread'[g]) /\ ~Tells(thread'[g])
    BY <1>4, <2>2, <2>5
  <2> QED
    BY <2>1, <2>3, <2>4, <2>6
<1>5. ASSUME NEW ok \in BOOLEAN, Reconnects(g, ok)
      PROVE  /\ Changes(g) /\ t.emits = <<>>
             /\ thread'[g] = Idle /\ ~Tells(thread'[g])
  BY <1>1, <1>2, <1>5 DEF Reconnects, Returns, Idle
<1>6. CASE Starts(g)
  BY <1>2, <1>3, <1>6, FirstSteps DEF Starts
<1>7. CASE Callback(g)
  BY <1>2, <1>4, <1>7
  DEF Callback, HandleConnect, HandleConnectionLost, HandleReconnecting
<1> QED
  BY <1>5, <1>6, <1>7 DEF CallsBack

LEMMA DeliverThread ==
    ASSUME Structure, NEW g \in Threads, Delivering(g)
    PROVE  /\ thread' \in [Threads -> Goroutines]
           /\ thread[g].emits # <<>>
           /\ thread'[g] = [thread[g] EXCEPT !.emits = <<>>]
           /\ \A h \in Threads \ {g} :
                \/ thread'[h] = thread[h]
                \/ /\ thread[h].pc = "waiting"
                   /\ thread'[h] = [thread[h] EXCEPT !.pc = "signalled"]
           /\ \A h \in Threads : OpFits(thread'[h])
<1> DEFINE t == thread[g]
<1>1. /\ thread \in [Threads -> Goroutines]
      /\ \A h \in Threads : OpFits(thread[h])
      /\ Deliver(g) /\ t.emits # <<>>
  BY DEF Structure, Shapes, ThreadsFit, ThreadFits, Delivering, Emit, EmitEnds
<1>2. /\ t \in Goroutines /\ t.emits \in Emissions
      /\ Tail(t.emits) = <<>> /\ <<>> \in Emissions
  BY <1>1, Emission, Silence DEF Goroutines
<1>3. /\ thread' = [h \in Threads |-> thread'[h]]
      /\ thread'[g] = [t EXCEPT !.emits = Tail(@)]
      /\ \A h \in Threads \ {g} :
           \/ thread'[h] = thread[h]
           \/ /\ thread[h].pc = "waiting"
              /\ thread'[h] = [thread[h] EXCEPT !.pc = "signalled"]
  BY <1>1 DEF Deliver
<1>4. [t EXCEPT !.emits = Tail(@)] = [t EXCEPT !.emits = <<>>]
  BY <1>2
<1>5. thread'[g] \in Goroutines /\ OpFits(thread'[g])
  <2>1. /\ thread'[g] \in Goroutines
        /\ thread'[g].op = t.op /\ thread'[g].pc = t.pc
        /\ thread'[g].name = t.name /\ thread'[g].id = t.id
        /\ thread'[g].emits = <<>>
    BY <1>2, <1>3, <1>4 DEF Goroutines
  <2> QED
    BY <1>1, <2>1 DEF OpFits, Tells, Says
<1>6. ASSUME NEW h \in Threads \ {g}
      PROVE  thread'[h] \in Goroutines /\ OpFits(thread'[h])
  BY <1>1, <1>3 DEF Goroutines, OpFits, Tells, Says, Pcs
<1> QED
  BY <1>1, <1>3, <1>4, <1>5, <1>6

LEMMA NextIs ==
    ASSUME Next
    PROVE  \/ \E g \in Threads : \/ Plain(g) \/ Working(g) \/ Delivering(g)
                                 \/ EmitBegins(g)
           \/ \E id \in Ids : \/ ConnectionLost(id) \/ MessageArrives(id)
                              \/ MessageHandled(id)
  BY DEF Next, CallerStep, CallbackStep, AddSession, RemoveSession,
     OnAllSessions, Emits, Plain, Answered, Working, Adds, Removes, Disconnects,
     CallsBack, Starts, Delivering, Threads
LEMMA NextShapes ==
    ASSUME Structure, Next
    PROVE  Shapes'
<1> DEFINE Rest == /\ sessions \in [Names -> Ids \cup {None}] /\ active \in Int
                   /\ mWriter \in Callers \cup {None}
                   /\ mPending \in Callers \cup {None}
                   /\ mReaders \subseteq Callers /\ emReaders \subseteq Threads
                   /\ nameOf \in [Ids -> Names \cup {None}]
                   /\ status \in [Ids -> Statuses]
                   /\ client \in [Ids -> Clients]
                   /\ connectCalls \in [Ids -> Nat]
                   /\ seen \in [Names -> {None, "added", "removed"}]
                   /\ gap \subseteq Callers
<1>1. Rest /\ thread \in [Threads -> Goroutines]
  BY DEF Structure, Shapes
<1>2. ASSUME NEW g \in Threads, Plain(g) PROVE Rest'
  <2>1. UNCHANGED <<registry, nameOf, status, clients, told, emReaders>>
    BY <1>2, PlainFrame
  <2>2. /\ mWriter' \in Callers \cup {None} /\ mPending' \in Callers \cup {None}
        /\ mReaders' \subseteq Callers
    BY <1>1, <1>2 DEF Plain, LockAnnounce, LockAcquire, Unlock, AddRefused,
       RemoveUnknown, AllLocks, Answered, AllAnswered, AllAbandoned,
       AllUnlocks, AllAsks,
       WaitForSession, CallbackEnds, Get, WaitLooks, OnAnnounce, OnRegisters,
       WaitEnds, others, locks, mLock
  <2> QED
    BY <1>1, <2>1, <2>2 DEF registry, clients, told
<1> USE DEF registry, locks, mLock, emLock, objects, clients, bounds, told
<1>3. ASSUME NEW g \in Callers, Adds(g) PROVE Rest'
  <2>0. /\ thread[g] \in Goroutines
        /\ thread[g].pc = "insert" => thread[g].id \in Ids
        /\ thread[g].pc = "add" => thread[g].name \in Names
    BY <1>1 DEF Structure, ThreadsFit, ThreadFits, AddFits, OpFits, Threads,
       CallOps
  <2>1. ASSUME NEW id \in Ids, AddConnects(g, id) PROVE Rest'
    BY <1>1, <2>0, <2>1 DEF AddConnects, SetState, Statuses, Clients, At
  <2>2. ASSUME NEW ok \in BOOLEAN, ConnectAnswered(g, ok) PROVE Rest'
    BY <1>1, <2>2 DEF ConnectAnswered, Clients
  <2>3. CASE ConnectReturns(g)
    BY <1>1, <2>3 DEF ConnectReturns, SetState, Statuses
  <2>4. CASE AddInserts(g)
    <3>1. /\ sessions' = [sessions EXCEPT ![thread[g].name] = thread[g].id]
          /\ active' = active + 1 /\ thread[g].id \in Ids
          /\ UNCHANGED <<locks, objects, bounds, told>>
      BY <2>0, <2>4 DEF AddInserts, At
    <3>2. sessions' \in [Names -> Ids \cup {None}]
      BY <1>1, <3>1
    <3>3. active' \in Int
      BY <1>1, <3>1
    <3> QED
      BY <1>1, <3>1, <3>2, <3>3
  <2> QED
    BY <1>3, <2>1, <2>2, <2>3, <2>4 DEF Adds
<1>4. ASSUME NEW g \in Callers, Removes(g) \/ Disconnects(g) PROVE Rest'
  <2>1. ASSUME NEW id \in Ids \cup {None}, DisconnectClient(id)
        PROVE  client' \in [Ids -> Clients]
    BY <1>1, <2>1 DEF DisconnectClient, Clients
  <2>2. ASSUME NEW id \in Ids \cup {None}, SetState(id, "Closed")
        PROVE  status' \in [Ids -> Statuses]
    BY <1>1, <2>2 DEF SetState, Statuses
  <2>3. CASE RemoveDisconnects(g)
    <3>1. sessions[thread[g].name] \in Ids \cup {None}
      <4>1. thread[g].op = "remove" /\ thread[g].name \in Names
        BY <2>3 DEF RemoveDisconnects, At, Structure, ThreadsFit, ThreadFits,
           OpFits, Threads, CallOps
      <4> QED
        BY <1>1, <4>1
    <3> QED
      BY <1>1, <2>1, <2>2, <2>3, <3>1 DEF RemoveDisconnects
  <2>4. CASE RemoveDeletes(g)
    <3>1. sessions' \in [Names -> Ids \cup {None}]
      BY <1>1, <2>4 DEF RemoveDeletes
    <3>2. active' \in Int
      BY <1>1, <2>4 DEF RemoveDeletes
    <3> QED
      BY <1>1, <2>4, <3>1, <3>2 DEF RemoveDeletes
  <2>5. ASSUME NEW id \in Ids, AllDisconnects(g, id) PROVE Rest'
    BY <1>1, <2>1, <2>2, <2>5 DEF AllDisconnects
  <2> QED
    BY <1>4, <2>3, <2>4, <2>5 DEF Removes, Disconnects
<1>5. ASSUME NEW g \in Threads, CallsBack(g) PROVE Rest'
  <2>1. CASE Callback(g)
    BY <1>1, <2>1 DEF Callback, HandleConnect, HandleConnectionLost,
       HandleReconnecting, CallbackRuns, SetState, Statuses
  <2>2. ASSUME NEW ok \in BOOLEAN, Reconnects(g, ok) PROVE Rest'
    BY <1>1, <2>2 DEF Reconnects, Clients
  <2> QED
    BY <1>5, <2>1, <2>2 DEF CallsBack
<1>6. ASSUME NEW g \in Callers, Starts(g) PROVE Rest'
  BY <1>1, <1>6 DEF Starts, Call
<1>7. ASSUME NEW g \in Threads, Delivering(g) PROVE Rest'
  <2>1. /\ Deliver(g) /\ emReaders' \subseteq emReaders
        /\ UNCHANGED <<registry, mLock, objects>>
    BY <1>7 DEF Delivering, Emit, EmitEnds
  <2>2. /\ seen' \in [Names -> {None, "added", "removed"}]
        /\ gap' \subseteq Callers
    BY <1>1, <2>1 DEF Deliver
  <2> QED
    BY <1>1, <2>1, <2>2
<1>8. ASSUME NEW g \in Threads, EmitBegins(g) PROVE Rest'
  BY <1>1, <1>8 DEF EmitBegins
<1>9. ASSUME NEW id \in Ids,
             ConnectionLost(id) \/ MessageArrives(id) \/ MessageHandled(id)
      PROVE  Rest' /\ UNCHANGED thread
  BY <1>1, <1>9 DEF ConnectionLost, MessageArrives, MessageHandled, Clients
<1>10. Rest'
  BY <1>2, <1>3, <1>4, <1>5, <1>6, <1>7, <1>8, <1>9, NextIs DEF Working, Threads
<1>11. thread' \in [Threads -> Goroutines]
  <2>1. ASSUME NEW g \in Threads, Plain(g) \/ Working(g) \/ Delivering(g)
        PROVE  thread' \in [Threads -> Goroutines]
    BY <2>1, PlainThread, AddThread, RemoveThread, StartThread, DeliverThread
    DEF Working, Changes
  <2>2. ASSUME NEW g \in Threads, EmitBegins(g) PROVE UNCHANGED thread
    BY <2>2 DEF EmitBegins
  <2> QED
    BY <1>1, <1>9, <2>1, <2>2, NextIs
<1> QED
  BY <1>10, <1>11 DEF Shapes
-----------------------------------------------------------------------------
(* m.mu.                                                                    *)
LEMMA PlainLocks ==
    ASSUME Structure, NEW g \in Threads, Plain(g)
    PROVE  LocksFit'
<1> DEFINE t == thread[g]
<1> USE DEF LocksFit, WriterPcs, ReaderPcs, At, Goes, Returns, Idle, locks,
            mLock, others, Goroutines
<1>1. /\ thread \in [Threads -> Goroutines] /\ LocksFit /\ OpFits(t)
      /\ \A h \in Threads \ {g} : thread'[h] = thread[h]
      /\ thread' \in [Threads -> Goroutines]
      /\ \A h \in Threads : h # None
  BY PlainThread, Absent DEF Structure, Shapes, ThreadsFit, ThreadFits
<1>2. CASE LockAnnounce(g)
  <2>1. /\ t.pc = "lock" /\ mWriter = None /\ mPending' = g
        /\ UNCHANGED <<mWriter, mReaders>> /\ thread'[g].pc = "locking"
        /\ mPending = None
    BY <1>1, <1>2 DEF LockAnnounce, MCanRead
  <2> QED
    BY <1>1, <2>1
<1>3. CASE LockAcquire(g)
  <2>1. /\ t.pc = "locking" /\ t.op \in {"add", "remove"}
        /\ mReaders = {} /\ mPending' = None /\ mWriter' = g
        /\ UNCHANGED mReaders /\ thread'[g].pc = t.op
    BY <1>1, <1>3 DEF LockAcquire, OpFits
  <2>2. mPending = g /\ mWriter = None
    BY <1>1, <2>1
  <2> QED
    BY <1>1, <2>1, <2>2
<1>4. CASE Unlock(g)
  BY <1>1, <1>4 DEF Unlock
<1>5. CASE AddRefused(g) \/ RemoveUnknown(g)
  BY <1>1, <1>5 DEF AddRefused, RemoveUnknown
<1>6. CASE AllLocks(g)
  <2>1. /\ t.pc = "rlock" /\ mWriter = None /\ mPending = None
        /\ mReaders' = mReaders \cup {g} /\ UNCHANGED <<mWriter, mPending>>
        /\ thread'[g].pc \in {"all", "disconnectAll"}
    BY <1>1, <1>6 DEF AllLocks, ForEach, MCanRead
  <2> QED
    BY <1>1, <2>1
<1>7. CASE AllUnlocks(g)
  BY <1>1, <1>7 DEF AllUnlocks
<1>8. CASE Answered(g)
  BY <1>1, <1>8 DEF Answered, AllAnswered, AllAbandoned
<1>9. ASSUME NEW id \in Ids, AllAsks(g, id) PROVE LocksFit'
  BY <1>1, <1>9 DEF AllAsks, Visit
<1>10. CASE Get(g) \/ WaitLooks(g)
  BY <1>1, <1>10 DEF Get, WaitLooks
<1>11. CASE OnAnnounce(g) \/ OnRegisters(g) \/ WaitEnds(g) \/ CallbackEnds(g)
  BY <1>1, <1>11 DEF OnAnnounce, OnRegisters, WaitEnds, CallbackEnds
<1> QED
  BY <1>2, <1>3, <1>4, <1>5, <1>6, <1>7, <1>8, <1>9, <1>10, <1>11
  DEF Plain, WaitForSession

(* Whoever deals with a session keeps the lock it has.                      *)
LEMMA WorkPcs ==
    ASSUME Structure, NEW g \in Threads, Working(g)
    PROVE  /\ UNCHANGED <<mLock, emLock, asking>>
           /\ thread'[g].pc \in WriterPcs => thread[g].pc \in WriterPcs
           /\ thread'[g].pc \in ReaderPcs
                => /\ thread[g].pc = "disconnectAll"
                   /\ \E id \in Ids : AllDisconnects(g, id)
           /\ thread'[g].pc # "locking"
<1> USE DEF WriterPcs, ReaderPcs, At, Goes, GoesEmitting, Returns, Idle, locks,
            bounds, Goroutines
<1>1. thread \in [Threads -> Goroutines]
  BY DEF Structure, Shapes
<1>2. CASE Adds(g)
  <2>1. /\ UNCHANGED <<mLock, emLock, asking>>
        /\ thread[g].pc \in {"add", "connect", "connected", "refused", "insert"}
    BY <1>2 DEF Adds, AddConnects, ConnectAnswered, ConnectReturns, AddInserts
  <2>2. thread'[g].pc \in {"connect", "connected", "refused", "insert",
                           "unlock"}
    <3>1. ASSUME NEW id \in Ids, AddConnects(g, id)
          PROVE  thread'[g].pc = "connect"
      BY <1>1, <3>1 DEF AddConnects
    <3>2. ASSUME NEW ok \in BOOLEAN, ConnectAnswered(g, ok)
          PROVE  thread'[g].pc \in {"connected", "refused"}
      BY <1>1, <3>2 DEF ConnectAnswered
    <3>3. CASE ConnectReturns(g)
      BY <1>1, <3>3 DEF ConnectReturns
    <3>4. CASE AddInserts(g)
      BY <1>1, <3>4 DEF AddInserts
    <3> QED
      BY <1>2, <3>1, <3>2, <3>3, <3>4 DEF Adds
  <2> QED
    BY <2>1, <2>2
<1>3. CASE Removes(g)
  BY <1>1, <1>3 DEF Removes, RemoveDisconnects, RemoveDeletes
<1>4. CASE Disconnects(g)
  <2>1. PICK id \in Ids : AllDisconnects(g, id)
    BY <1>4 DEF Disconnects
  <2>2. /\ UNCHANGED <<mLock, emLock, asking>>
        /\ thread[g].pc = "disconnectAll"
    BY <2>1 DEF AllDisconnects
  <2>3. thread'[g].pc = "disconnectAll"
    BY <1>1, <2>1, <2>2 DEF AllDisconnects, Visit
  <2> QED
    BY <2>1, <2>2, <2>3
<1>5. CASE CallsBack(g)
  <2>1. UNCHANGED <<mLock, emLock, asking>>
    BY <1>5 DEF CallsBack, Callback, HandleConnect, HandleConnectionLost,
       HandleReconnecting, Reconnects
  <2>2. thread'[g].pc \in {"end", "attempt", "idle"}
    <3>1. ASSUME NEW op, NEW id, NEW new, NEW pc, NEW e,
                 CallbackRuns(g, op, id, new, pc, e)
          PROVE  thread'[g].pc = pc
      BY <1>1, <3>1 DEF CallbackRuns
    <3>2. ASSUME NEW ok \in BOOLEAN, Reconnects(g, ok)
          PROVE  thread'[g].pc = "idle"
      BY <1>1, <3>2 DEF Reconnects
    <3> QED
      BY <1>5, <3>1, <3>2 DEF CallsBack, Callback, HandleConnect,
         HandleConnectionLost, HandleReconnecting
  <2> QED
    BY <2>1, <2>2
<1>6. CASE Starts(g)
  <2>1. thread'[g].pc \in {"lock", "get", "rlock", "on"}
    <3>1. PICK op \in CallOps, n \in Names : Call(g, op, n)
      BY <1>6, FirstSteps DEF Starts
    <3>2. thread'[g].pc = FirstStep[op]
      BY <1>1, <3>1 DEF Call
    <3> QED
      BY <3>2, FirstSteps DEF CallOps
  <2> QED
    BY <1>6, <2>1 DEF Starts, Call
<1> QED
  BY <1>2, <1>3, <1>4, <1>5, <1>6 DEF Working

LEMMA NextLocks ==
    ASSUME Structure, Next
    PROVE  LocksFit'
<1>1. ASSUME UNCHANGED mLock,
             \A h \in Threads :
               /\ thread'[h].pc \in WriterPcs => thread[h].pc \in WriterPcs
               /\ thread'[h].pc \in ReaderPcs => thread[h].pc \in ReaderPcs
               /\ thread'[h].pc = "locking" => thread[h].pc = "locking"
      PROVE  LocksFit'
  BY <1>1 DEF Structure, LocksFit, mLock
<1>2. ASSUME NEW g \in Threads, Working(g) PROVE LocksFit'
  <2>1. \A h \in Threads \ {g} : thread'[h] = thread[h]
    BY <1>2, AddThread, RemoveThread, StartThread DEF Working, Changes
  <2> QED
    BY <1>1, <1>2, <2>1, WorkPcs DEF ReaderPcs
<1>3. ASSUME NEW g \in Threads, Delivering(g) PROVE LocksFit'
  <2>1. UNCHANGED mLock
    BY <1>3 DEF Delivering, Emit, EmitEnds, locks
  <2>2. \A h \in Threads :
          thread'[h].pc = thread[h].pc \/ thread'[h].pc = "signalled"
    <3>1. ASSUME NEW h \in Threads
          PROVE  thread'[h].pc = thread[h].pc \/ thread'[h].pc = "signalled"
      <4>1. thread[h] \in Goroutines
        BY DEF Structure, Shapes
      <4>2. \/ thread'[h] = thread[h]
            \/ thread'[h] = [thread[h] EXCEPT !.emits = <<>>]
            \/ thread'[h] = [thread[h] EXCEPT !.pc = "signalled"]
        BY <1>3, DeliverThread
      <4> QED
        BY <4>1, <4>2 DEF Goroutines
    <3> QED
      BY <3>1
  <2> QED
    BY <1>1, <2>1, <2>2 DEF WriterPcs, ReaderPcs
<1>4. ASSUME \/ \E g \in Threads : EmitBegins(g)
             \/ \E id \in Ids : \/ ConnectionLost(id) \/ MessageArrives(id)
                                \/ MessageHandled(id)
      PROVE  LocksFit'
  <2>1. UNCHANGED <<mLock, thread>>
    BY <1>4 DEF EmitBegins, ConnectionLost, MessageArrives, MessageHandled,
       locks
  <2> QED
    BY <1>1, <2>1
<1> QED
  BY <1>2, <1>3, <1>4, PlainLocks, NextIs
-----------------------------------------------------------------------------
(* What a goroutine knows.  Only a writer disturbs what the others know, and *)
(* then no other knows anything.                                            *)
Undisturbed ==
    /\ UNCHANGED sessions
    /\ \A id \in Ids :
         /\ nameOf[id] \in Names => nameOf'[id] = nameOf[id]
         /\ client[id] = "connecting" => client'[id] = "connecting"
         /\ client[id] \notin Live => client'[id] \notin Live

LEMMA OthersFit ==
    ASSUME Structure, NEW h \in Threads, UNCHANGED asking,
           \/ thread'[h] = thread[h]
           \/ /\ thread[h].pc = "waiting"
              /\ thread'[h] = [thread[h] EXCEPT !.pc = "signalled"],
           OpFits(thread'[h]), h \in emReaders' => h \in emReaders,
           Undisturbed \/ thread[h].pc \notin WriterPcs \cup ReaderPcs
    PROVE  ThreadFits(h)'
<1> DEFINE t == thread[h]
<1>1. /\ t \in Goroutines /\ ThreadFits(h) /\ OpFits(t)
      /\ sessions \in [Names -> Ids \cup {None}]
  BY DEF Structure, Shapes, ThreadsFit, ThreadFits
<1>2. CASE thread'[h] = t /\ t.pc \notin WriterPcs \cup ReaderPcs
  <2>1. ~Tells(t)
    BY <1>1, <1>2 DEF OpFits, WriterPcs
  <2> QED
    BY <1>1, <1>2, <2>1 DEF ThreadFits, AddFits, RemoveFits, TellsTruth,
       Reaches, WriterPcs
<1>3. CASE thread'[h] = t /\ Undisturbed
  <2>1. Members' = Members
    BY <1>3 DEF Members, Undisturbed
  <2>2. AddFits(thread[h])'
    <3>1. t.pc \in {"connect", "connected", "refused", "insert"}
            => t.name \in Names
      BY <1>1 DEF OpFits, CallOps
    <3> QED
      BY <1>1, <1>3, <3>1 DEF ThreadFits, AddFits, Undisturbed
  <2>3. RemoveFits(thread[h])' /\ TellsTruth(thread[h])'
    BY <1>1, <1>3 DEF ThreadFits, RemoveFits, TellsTruth, Undisturbed
  <2>4. Reaches(thread[h])'
    BY <1>1, <1>3, <2>1 DEF ThreadFits, Reaches
  <2> QED
    BY <1>1, <1>3, <2>2, <2>3, <2>4 DEF ThreadFits
<1>4. CASE /\ t.pc = "waiting"
           /\ thread'[h] = [t EXCEPT !.pc = "signalled"]
  <2>1. /\ thread'[h].pc = "signalled" /\ thread'[h].emits = t.emits
        /\ ~Tells(thread'[h])
    BY <1>1, <1>4 DEF Goroutines, OpFits, Tells, Says
  <2> QED
    BY <1>1, <2>1 DEF ThreadFits, AddFits, RemoveFits, TellsTruth, Reaches,
       ReaderPcs
<1> QED
  BY <1>2, <1>3, <1>4

(* A goroutine that steps has emitted its events; it reads under em.mu only *)
(* while it emits.                                                          *)
LEMMA OwnFits ==
    ASSUME Structure, NEW g \in Threads, thread[g].emits = <<>>,
           g \in emReaders' => g \in emReaders, OpFits(thread'[g]),
           AddFits(thread[g])', RemoveFits(thread[g])', TellsTruth(thread[g])',
           Reaches(thread[g])'
    PROVE  ThreadFits(g)'
<1>1. g \notin emReaders
  BY DEF Structure, ThreadsFit, ThreadFits
<1> QED
  BY <1>1 DEF ThreadFits

LEMMA PlainPcs ==
    ASSUME Structure, NEW g \in Threads, Plain(g)
    PROVE  /\ thread'[g].pc \notin {"connect", "connected", "refused", "insert",
                                   "delete"}
           /\ thread'[g].pc \in ReaderPcs
                => \/ /\ thread[g].pc \in ReaderPcs
                      /\ thread'[g].todo \cup thread'[g].done
                           = thread[g].todo \cup thread[g].done
                   \/ thread'[g].todo = Members
<1> DEFINE t == thread[g]
<1>0. /\ t \in Goroutines /\ OpFits(t)
      /\ thread \in [Threads -> Goroutines]
  BY DEF Structure, Shapes, ThreadsFit, ThreadFits
<1> USE <1>0 DEF Goroutines, At, Goes, Returns, Idle, ReaderPcs
<1>1. CASE LockAnnounce(g) \/ Unlock(g) \/ AddRefused(g) \/ RemoveUnknown(g)
             \/ AllUnlocks(g) \/ CallbackEnds(g)
  BY <1>1 DEF LockAnnounce, Unlock, AddRefused, RemoveUnknown, AllUnlocks,
     CallbackEnds
<1>2. CASE LockAcquire(g)
  BY <1>2 DEF LockAcquire, OpFits
<1>3. CASE AllLocks(g)
  BY <1>3 DEF AllLocks, ForEach
<1>4. CASE Answered(g)
  BY <1>4 DEF Answered, AllAnswered, AllAbandoned
<1>5. ASSUME NEW id \in Ids, AllAsks(g, id)
      PROVE  /\ thread'[g].pc \in {"all", "answer"} /\ t.pc = "all"
             /\ thread'[g].todo \cup thread'[g].done = t.todo \cup t.done
  <2>1. t.pc = "all" /\ id \in t.todo
    BY <1>5 DEF AllAsks
  <2>2. /\ thread'[g].pc \in {"all", "answer"}
        /\ thread'[g].todo = t.todo \ {id}
        /\ thread'[g].done = t.done \cup {id}
    BY <1>5, <2>1 DEF AllAsks, Visit
  <2> QED
    BY <2>1, <2>2
<1>6. CASE WaitForSession(g)
  BY <1>6 DEF WaitForSession, Get, WaitLooks, OnAnnounce, OnRegisters,
     WaitEnds
<1> QED
  BY <1>1, <1>2, <1>3, <1>4, <1>5, <1>6 DEF Plain

LEMMA PlainFits ==
    ASSUME Structure, NEW g \in Threads, Plain(g)
    PROVE  ThreadsFit'
<1> DEFINE t == thread[g]
<1>1. /\ t \in Goroutines /\ ThreadFits(g) /\ OpFits(t)
      /\ thread \in [Threads -> Goroutines]
  BY DEF Structure, Shapes, ThreadsFit, ThreadFits
<1>2. /\ UNCHANGED <<sessions, nameOf, client, asking, emReaders>>
      /\ t.emits = <<>> /\ thread'[g].emits = <<>> /\ OpFits(thread'[g])
      /\ \A h \in Threads \ {g} : thread'[h] = thread[h]
  BY PlainFrame, PlainThread DEF registry, clients
<1>3. Undisturbed
  BY <1>2 DEF Undisturbed
<1>4. ASSUME NEW h \in Threads \ {g} PROVE ThreadFits(h)'
  <2>1. OpFits(thread'[h])
    BY <1>2 DEF Structure, ThreadsFit, ThreadFits
  <2> QED
    BY <1>2, <1>3, <2>1, OthersFit
<1>5. /\ thread'[g].pc \notin {"connect", "connected", "refused", "insert",
                               "delete"}
      /\ thread'[g].pc \in ReaderPcs
           => \/ t.pc \in ReaderPcs
                   /\ thread'[g].todo \cup thread'[g].done = t.todo \cup t.done
              \/ thread'[g].todo = Members
  BY PlainPcs
<1>6. AddFits(thread[g])' /\ RemoveFits(thread[g])'
  BY <1>5 DEF AddFits, RemoveFits
<1>7. TellsTruth(thread[g])'
  BY <1>2 DEF TellsTruth, Tells, Says
<1>8. Reaches(thread[g])'
  <2>1. Members' = Members
    BY <1>2 DEF Members
  <2> QED
    BY <1>1, <1>5, <2>1 DEF Reaches, ThreadFits
<1>9. ThreadFits(g)'
  BY <1>2, <1>6, <1>7, <1>8, OwnFits
<1> QED
  BY <1>4, <1>9 DEF ThreadsFit
(* A writer is alone: no other goroutine knows anything of the map.         *)
LEMMA WriterAlone ==
    ASSUME Structure, NEW g \in Threads, thread[g].pc \in WriterPcs
    PROVE  /\ mWriter = g
           /\ \A h \in Threads \ {g} :
                thread[h].pc \notin WriterPcs \cup ReaderPcs
  BY Absent DEF Structure, LocksFit

LEMMA FreshIs ==
    ASSUME NEW id \in Ids, id = Fresh
    PROVE  nameOf[id] = None
  BY Absent DEF Fresh, Unused

LEMMA AddFitsNext ==
    ASSUME Structure, NEW g \in Callers, Adds(g)
    PROVE  AddFits(thread[g])' /\ RemoveFits(thread[g])'
             /\ TellsTruth(thread[g])' /\ Reaches(thread[g])'
             /\ thread[g].pc \in WriterPcs /\ UNCHANGED <<asking, emReaders>>
<1> DEFINE t == thread[g]
           Fits == AddFits(thread[g])' /\ RemoveFits(thread[g])'
                     /\ TellsTruth(thread[g])' /\ Reaches(thread[g])'
                     /\ thread[g].pc \in WriterPcs
                     /\ UNCHANGED <<asking, emReaders>>
<1>0. g \in Threads
  BY DEF Threads
<1>1. /\ t \in Goroutines /\ AddFits(t) /\ OpFits(t)
      /\ thread \in [Threads -> Goroutines]
      /\ nameOf \in [Ids -> Names \cup {None}]
      /\ client \in [Ids -> Clients]
      /\ sessions \in [Names -> Ids \cup {None}]
  BY <1>0 DEF Structure, Shapes, ThreadsFit, ThreadFits
<1>2. /\ thread'[g].pc \notin ReaderPcs
      /\ thread'[g] \in Goroutines /\ OpFits(thread'[g])
  <2>1. Changes(g) /\ t.pc \in WriterPcs
    BY <1>0, AddThread
    DEF Adds, AddConnects, ConnectAnswered, ConnectReturns, AddInserts, At,
        WriterPcs
  <2> QED
    BY <1>0, <2>1, WorkPcs DEF Changes, WriterPcs, ReaderPcs, Working
<1> USE DEF At, Goes, GoesEmitting, bounds, locks, emLock
<1>3. ASSUME NEW id \in Ids, AddConnects(g, id) PROVE Fits
  <2>1. /\ t.pc = "add" /\ sessions[t.name] = None /\ nameOf[id] = None
        /\ nameOf' = [nameOf EXCEPT ![id] = t.name]
        /\ client' = [client EXCEPT ![id] = "connecting"]
        /\ UNCHANGED <<sessions, asking, emReaders>>
    BY <1>3, FreshIs DEF AddConnects, registry
  <2>2. /\ thread'[g].pc = "connect" /\ thread'[g].id = id
        /\ thread'[g].name = t.name
    BY <1>0, <1>1, <1>3 DEF AddConnects, Goroutines
  <2>3. AddFits(thread[g])'
    BY <1>1, <2>1, <2>2 DEF AddFits
  <2>4. ~Tells(thread'[g])
    BY <1>2, <2>2 DEF OpFits
  <2> QED
    BY <1>2, <2>1, <2>2, <2>3, <2>4
    DEF RemoveFits, TellsTruth, Reaches, WriterPcs
<1>4. ASSUME NEW ok \in BOOLEAN, ConnectAnswered(g, ok) PROVE Fits
  <2>1. /\ t.pc = "connect"
        /\ UNCHANGED <<sessions, nameOf, asking, emReaders>>
    BY <1>4 DEF ConnectAnswered, registry
  <2>2. /\ thread'[g].pc \in {"connected", "refused"}
        /\ thread'[g].id = t.id /\ thread'[g].name = t.name
    BY <1>0, <1>1, <1>4 DEF ConnectAnswered, Goroutines
  <2>3. AddFits(thread[g])'
    BY <1>1, <2>1, <2>2 DEF AddFits
  <2>4. ~Tells(thread'[g])
    BY <1>2, <2>2 DEF OpFits
  <2> QED
    BY <1>2, <2>1, <2>2, <2>3, <2>4
    DEF RemoveFits, TellsTruth, Reaches, WriterPcs
<1>5. CASE ConnectReturns(g)
  <2>1. /\ t.pc \in {"connected", "refused"}
        /\ UNCHANGED <<sessions, nameOf, asking, emReaders>>
    BY <1>5 DEF ConnectReturns, registry
  <2>2. /\ thread'[g].pc = "insert"
        /\ thread'[g].id = t.id /\ thread'[g].name = t.name
    BY <1>0, <1>1, <1>5 DEF ConnectReturns, Goroutines
  <2>3. AddFits(thread[g])'
    BY <1>1, <2>1, <2>2 DEF AddFits
  <2>4. ~Tells(thread'[g])
    BY <1>2, <2>2 DEF OpFits
  <2> QED
    BY <1>2, <2>1, <2>2, <2>3, <2>4
    DEF RemoveFits, TellsTruth, Reaches, WriterPcs
<1>6. CASE AddInserts(g)
  <2>1. /\ t.pc = "insert" /\ t.name \in Names
        /\ sessions' = [sessions EXCEPT ![t.name] = t.id]
        /\ UNCHANGED <<nameOf, asking, emReaders>>
    BY <1>1, <1>6 DEF AddInserts, objects, OpFits, CallOps
  <2>2. /\ thread'[g].pc = "unlock" /\ Says(thread'[g], "added")
        /\ thread'[g].id = t.id /\ thread'[g].name = t.name
    <3>1. <<"added">> # <<>> /\ Head(<<"added">>) = "added"
      BY OneEvent DEF EventTypes
    <3> QED
      BY <1>0, <1>1, <1>6, <3>1 DEF AddInserts, Goroutines, Says
  <2>3. TellsTruth(thread[g])'
    BY <1>1, <2>1, <2>2 DEF AddFits, TellsTruth
  <2> QED
    BY <1>2, <2>1, <2>2, <2>3 DEF AddFits, RemoveFits, Reaches, WriterPcs
<1> QED
  BY <1>3, <1>4, <1>5, <1>6 DEF Adds

LEMMA RemoveFitsNext ==
    ASSUME Structure, AllReachable, NEW g \in Callers, Removes(g)
    PROVE  AddFits(thread[g])' /\ RemoveFits(thread[g])'
             /\ TellsTruth(thread[g])' /\ Reaches(thread[g])'
             /\ thread[g].pc \in WriterPcs /\ UNCHANGED <<asking, emReaders>>
<1> DEFINE t == thread[g]
<1>0. g \in Threads
  BY DEF Threads
<1>1. /\ t \in Goroutines /\ RemoveFits(t) /\ OpFits(t)
      /\ thread \in [Threads -> Goroutines]
      /\ client \in [Ids -> Clients] /\ MapFits
      /\ sessions \in [Names -> Ids \cup {None}]
  BY <1>0 DEF Structure, Shapes, ThreadsFit, ThreadFits
<1>2. /\ thread'[g].pc \notin ReaderPcs /\ OpFits(thread'[g])
  <2>1. Changes(g) /\ t.pc \in WriterPcs
    BY <1>0, RemoveThread
    DEF Removes, RemoveDisconnects, RemoveDeletes, At, WriterPcs
  <2> QED
    BY <1>0, <2>1, WorkPcs DEF Changes, WriterPcs, ReaderPcs, Working
<1> USE DEF At, GoesEmitting, bounds, locks, emLock
<1>3. CASE RemoveDisconnects(g)
  <2> DEFINE id == sessions[t.name]
  <2>1. /\ t.pc = "remove" /\ t.name \in Names /\ id \in Ids
        /\ DisconnectClient(id)
        /\ UNCHANGED <<sessions, asking, emReaders>>
    BY <1>1, <1>3 DEF RemoveDisconnects, registry, OpFits, CallOps
  <2>2. /\ thread'[g].pc = "delete" /\ thread'[g].id = id
        /\ thread'[g].name = t.name
    BY <1>0, <1>1, <1>3 DEF RemoveDisconnects, Goroutines
  <2>3. client[id] # "connecting"
    <3>1. ASSUME NEW h \in Callers, Adding(h, id), thread[h].pc = "connect"
          PROVE  FALSE
      BY <1>0, <2>1, <3>1, WriterAlone DEF WriterPcs, Threads
    <3> QED
      BY <2>1, <3>1 DEF AllReachable, Reachable
  <2>4. client'[id] \notin Live
    BY <1>1, <2>1, <2>3 DEF DisconnectClient, Clients, Live
  <2>5. ~Tells(thread'[g])
    BY <1>2, <2>2 DEF OpFits
  <2> QED
    BY <1>2, <2>1, <2>2, <2>4, <2>5
    DEF AddFits, RemoveFits, TellsTruth, Reaches, WriterPcs
<1>4. CASE RemoveDeletes(g)
  <2>1. /\ t.pc = "delete" /\ t.name \in Names
        /\ sessions' = [sessions EXCEPT ![t.name] = None]
        /\ UNCHANGED <<nameOf, asking, emReaders>>
    BY <1>1, <1>4 DEF RemoveDeletes, objects, OpFits, CallOps
  <2>2. /\ thread'[g].pc = "unlock" /\ Says(thread'[g], "removed")
        /\ ~Says(thread'[g], "added")
        /\ thread'[g].id = t.id /\ thread'[g].name = t.name
    <3>1. <<"removed">> # <<>> /\ Head(<<"removed">>) = "removed"
      BY OneEvent DEF EventTypes
    <3> QED
      BY <1>0, <1>1, <1>4, <3>1 DEF RemoveDeletes, Goroutines, Says
  <2>3. t.id \in Ids /\ sessions[t.name] = t.id /\ nameOf[t.id] = t.name
    BY <1>1, <2>1, Absent DEF RemoveFits, MapFits
  <2>4. TellsTruth(thread[g])'
    BY <1>1, <2>1, <2>2, <2>3 DEF TellsTruth
  <2> QED
    BY <1>2, <2>1, <2>2, <2>4 DEF AddFits, RemoveFits, Reaches, WriterPcs
<1> QED
  BY <1>3, <1>4 DEF Removes

LEMMA WorkFits ==
    ASSUME Structure, AllReachable, NEW g \in Threads, Working(g)
    PROVE  ThreadsFit'
<1> DEFINE t == thread[g]
<1>1. /\ t \in Goroutines /\ ThreadFits(g)
      /\ thread \in [Threads -> Goroutines] /\ client \in [Ids -> Clients]
  BY DEF Structure, Shapes, ThreadsFit, ThreadFits
<1>2. /\ t.emits = <<>> /\ OpFits(thread'[g])
      /\ \A h \in Threads \ {g} : thread'[h] = thread[h]
      /\ UNCHANGED <<asking, emReaders>>
  BY AddThread, RemoveThread, StartThread, WorkPcs
  DEF Working, Changes, emLock
<1>3. \A h \in Threads : OpFits(thread'[h])
  BY <1>2 DEF Structure, ThreadsFit, ThreadFits
<1>4. CASE g \in Callers /\ (Adds(g) \/ Removes(g))
  <2>1. ThreadFits(g)'
    BY <1>2, <1>4, OwnFits, AddFitsNext, RemoveFitsNext
  <2>2. \A h \in Threads \ {g} : thread[h].pc \notin WriterPcs \cup ReaderPcs
    BY <1>4, WriterAlone, AddFitsNext, RemoveFitsNext
  <2>3. \A h \in Threads \ {g} : ThreadFits(h)'
    BY <1>2, <1>3, <2>2, OthersFit
  <2> QED
    BY <2>1, <2>3 DEF ThreadsFit
<1>5. CASE ~(g \in Callers /\ (Adds(g) \/ Removes(g)))
  <2>1. Undisturbed
    <3> USE DEF Undisturbed, Live, Clients, registry, clients
    <3>1. ASSUME NEW id \in Ids, AllDisconnects(g, id) PROVE Undisturbed
      BY <1>1, <3>1 DEF AllDisconnects, DisconnectClient
    <3>2. ASSUME NEW ok \in BOOLEAN, Reconnects(g, ok) PROVE Undisturbed
      BY <1>1, <3>2 DEF Reconnects
    <3>3. CASE Callback(g) \/ Starts(g)
      BY <3>3 DEF Callback, HandleConnect, HandleConnectionLost,
         HandleReconnecting, Starts, Call, objects
    <3> QED
      BY <1>5, <3>1, <3>2, <3>3 DEF Working, Disconnects, CallsBack
  <2>2. \A h \in Threads \ {g} : ThreadFits(h)'
    BY <1>2, <1>3, <2>1, OthersFit
  <2>3. CASE Disconnects(g)
    <3>1. PICK id \in Ids : AllDisconnects(g, id)
      BY <2>3 DEF Disconnects
    <3>2. t.pc = "disconnectAll" /\ id \in t.todo
      BY <3>1 DEF AllDisconnects, At
    <3>3. /\ thread'[g].pc = "disconnectAll"
          /\ thread'[g].todo = t.todo \ {id}
          /\ thread'[g].done = t.done \cup {id}
      BY <1>1, <3>1, <3>2 DEF AllDisconnects, Visit, Goroutines
    <3>4. Reaches(thread[g])'
      <4>1. Members' = Members
        BY <2>1 DEF Members, Undisturbed
      <4> QED
        BY <1>1, <3>2, <3>3, <4>1 DEF Reaches, ThreadFits, ReaderPcs
    <3>5. ~Tells(thread'[g])
      BY <1>2, <3>3 DEF OpFits
    <3>6. ThreadFits(g)'
      BY <1>2, <3>3, <3>4, <3>5, OwnFits DEF AddFits, RemoveFits, TellsTruth
    <3> QED
      BY <2>2, <3>6 DEF ThreadsFit
  <2>4. CASE CallsBack(g) \/ Starts(g)
    <3>1. /\ t = Idle \/ thread'[g] = Idle
          /\ ~Tells(thread'[g])
      BY <2>4, StartThread
    <3>2. Idle.pc \notin WriterPcs /\ Idle.pc # "disconnectAll"
            /\ Idle.pc \notin ReaderPcs
      BY DEF Idle, WriterPcs, ReaderPcs
    <3>3. thread'[g].pc \notin WriterPcs \cup ReaderPcs
      BY <2>4, <3>1, <3>2, WorkPcs
    <3>4. ThreadFits(g)'
      BY <1>2, <3>1, <3>3, OwnFits
      DEF AddFits, RemoveFits, TellsTruth, Reaches, WriterPcs
    <3> QED
      BY <2>2, <3>4 DEF ThreadsFit
  <2> QED
    BY <1>5, <2>3, <2>4 DEF Working
<1> QED
  BY <1>4, <1>5

LEMMA NextThreads ==
    ASSUME Structure, AllReachable, Next
    PROVE  ThreadsFit'
<1>1. /\ thread \in [Threads -> Goroutines] /\ client \in [Ids -> Clients]
      /\ \A h \in Threads : OpFits(thread[h]) /\ ThreadFits(h)
  BY DEF Structure, Shapes, ThreadsFit, ThreadFits
<1>2. ASSUME NEW g \in Threads, Delivering(g) PROVE ThreadsFit'
  <2>1. /\ UNCHANGED <<sessions, nameOf, client, asking>>
        /\ g \notin emReaders' /\ emReaders' \subseteq emReaders
    BY <1>1, <1>2 DEF Delivering, Emit, EmitEnds, registry, objects, clients,
       bounds, locks, emLock, ThreadFits
  <2>2. Undisturbed
    BY <2>1 DEF Undisturbed
  <2>3. \A h \in Threads \ {g} : ThreadFits(h)'
    BY <1>2, <2>1, <2>2, DeliverThread, OthersFit
  <2>4. ThreadFits(g)'
    <3>1. /\ thread'[g] = [thread[g] EXCEPT !.emits = <<>>]
          /\ OpFits(thread'[g]) /\ thread[g] \in Goroutines
      BY <1>1, <1>2, DeliverThread
    <3>2. /\ thread'[g].pc = thread[g].pc /\ thread'[g].id = thread[g].id
          /\ thread'[g].name = thread[g].name /\ thread'[g].emits = <<>>
          /\ thread'[g].todo = thread[g].todo
          /\ thread'[g].done = thread[g].done
      BY <3>1 DEF Goroutines
    <3>3. Members' = Members
      BY <2>1 DEF Members
    <3>4. AddFits(thread[g])' /\ RemoveFits(thread[g])' /\ Reaches(thread[g])'
      BY <1>1, <2>1, <3>2, <3>3 DEF ThreadFits, AddFits, RemoveFits, Reaches
    <3>5. ~Tells(thread'[g])
      BY <3>2 DEF Tells, Says
    <3> QED
      BY <2>1, <3>1, <3>4, <3>5 DEF ThreadFits, TellsTruth
  <2> QED
    BY <2>3, <2>4 DEF ThreadsFit
<1>3. ASSUME NEW g \in Threads, EmitBegins(g) PROVE ThreadsFit'
  <2>1. /\ UNCHANGED <<sessions, nameOf, client, asking, thread>>
        /\ emReaders' = emReaders \cup {g}
        /\ thread[g].emits # <<>> /\ Head(thread[g].emits) \in asking
    BY <1>3 DEF EmitBegins, registry, objects, clients, bounds
  <2>2. Members' = Members
    BY <2>1 DEF Members
  <2> QED
    BY <1>1, <2>1, <2>2 DEF ThreadsFit, ThreadFits, AddFits, RemoveFits,
       TellsTruth, Reaches
<1>4. ASSUME NEW id \in Ids,
             ConnectionLost(id) \/ MessageArrives(id) \/ MessageHandled(id)
      PROVE  ThreadsFit'
  <2>1. UNCHANGED <<thread, asking, emReaders>>
    BY <1>4 DEF ConnectionLost, MessageArrives, MessageHandled, bounds, locks,
       emLock
  <2>2. Undisturbed
    BY <1>1, <1>4 DEF ConnectionLost, MessageArrives, MessageHandled,
       Undisturbed, Live, Clients, registry, clients
  <2> QED
    BY <1>1, <2>1, <2>2, OthersFit DEF ThreadsFit
<1> QED
  BY <1>2, <1>3, <1>4, PlainFits, WorkFits, NextIs

-----------------------------------------------------------------------------
(* The map of sessions: the steps that change it.                           *)
LEMMA ConnectsIs ==
    ASSUME Structure, NEW g \in Callers, NEW id \in Ids, AddConnects(g, id)
    PROVE  /\ thread[g].pc = "add" /\ thread[g].name \in Names
           /\ nameOf[id] = None
           /\ nameOf' = [nameOf EXCEPT ![id] = thread[g].name]
           /\ client' = [client EXCEPT ![id] = "connecting"]
           /\ thread'[g].pc = "connect" /\ thread'[g].id = id
           /\ UNCHANGED <<sessions, active, seen>>
<1>1. /\ g \in Threads /\ thread \in [Threads -> Goroutines]
      /\ OpFits(thread[g])
  BY DEF Threads, Structure, Shapes, ThreadsFit, ThreadFits
<1>2. thread[g].pc = "add"
  BY DEF AddConnects, At
<1> QED
  BY <1>1, <1>2, FreshIs
  DEF AddConnects, Goroutines, registry, told, OpFits, CallOps

LEMMA InsertIs ==
    ASSUME Structure, NEW g \in Callers, AddInserts(g)
    PROVE  LET t == thread[g]
           IN  /\ t.pc = "insert" /\ t.name \in Names /\ t.id \in Ids
               /\ nameOf[t.id] = t.name /\ sessions[t.name] = None
               /\ sessions' = [sessions EXCEPT ![t.name] = t.id]
               /\ active' = active + 1
               /\ thread'[g].pc = "unlock" /\ thread'[g].name = t.name
               /\ Tells(thread'[g])
               /\ UNCHANGED <<nameOf, client, status, seen>>
<1>1. /\ g \in Threads /\ thread \in [Threads -> Goroutines]
      /\ OpFits(thread[g]) /\ AddFits(thread[g])
  BY DEF Threads, Structure, Shapes, ThreadsFit, ThreadFits
<1>2. thread[g].pc = "insert"
  BY DEF AddInserts, At
<1>3. <<"added">> # <<>> /\ Head(<<"added">>) = "added"
  BY OneEvent DEF EventTypes
<1>4. /\ thread'[g].pc = "unlock" /\ thread'[g].name = thread[g].name
      /\ thread'[g].emits = <<"added">>
  BY <1>1 DEF AddInserts, GoesEmitting, Goroutines
<1> QED
  BY <1>1, <1>2, <1>3, <1>4
  DEF AddInserts, objects, clients, told, OpFits, AddFits, CallOps, Tells, Says

LEMMA DeleteIs ==
    ASSUME Structure, NEW g \in Callers, RemoveDeletes(g)
    PROVE  LET t == thread[g]
           IN  /\ t.pc = "delete" /\ t.name \in Names /\ t.id \in Ids
               /\ nameOf[t.id] = t.name /\ sessions[t.name] = t.id
               /\ client[t.id] \notin Live
               /\ sessions' = [sessions EXCEPT ![t.name] = None]
               /\ active' = active - 1
               /\ thread'[g].pc = "unlock" /\ thread'[g].name = t.name
               /\ Tells(thread'[g])
               /\ UNCHANGED <<nameOf, client, status, seen>>
<1>1. /\ g \in Threads /\ thread \in [Threads -> Goroutines] /\ MapFits
      /\ OpFits(thread[g]) /\ RemoveFits(thread[g])
  BY DEF Threads, Structure, Shapes, ThreadsFit, ThreadFits
<1>2. thread[g].pc = "delete"
  BY DEF RemoveDeletes, At
<1>3. <<"removed">> # <<>> /\ Head(<<"removed">>) = "removed"
  BY OneEvent DEF EventTypes
<1>4. /\ thread'[g].pc = "unlock" /\ thread'[g].name = thread[g].name
      /\ thread'[g].emits = <<"removed">>
  BY <1>1 DEF RemoveDeletes, GoesEmitting, Goroutines
<1>5. thread[g].name \in Names
  BY <1>1, <1>2 DEF OpFits, CallOps
<1>6. nameOf[thread[g].id] = thread[g].name
  BY <1>1, <1>2, <1>5, Absent DEF RemoveFits, MapFits
<1> QED
  BY <1>1, <1>2, <1>3, <1>4, <1>5, <1>6
  DEF RemoveDeletes, objects, clients, told, RemoveFits, Tells, Says

LEMMA RegistrySteps ==
    ASSUME Next
    PROVE  \/ UNCHANGED <<sessions, active, nameOf>>
           \/ \E g \in Callers : \/ \E id \in Ids : AddConnects(g, id)
                                 \/ AddInserts(g) \/ RemoveDeletes(g)
<1> USE DEF registry, objects, others
<1>1. ASSUME NEW g \in Threads, Plain(g)
      PROVE  UNCHANGED <<sessions, active, nameOf>>
  BY <1>1, PlainFrame
<1>2. ASSUME NEW g \in Threads, Working(g),
             ~(g \in Callers /\ \/ \E id \in Ids : AddConnects(g, id)
                                \/ AddInserts(g) \/ RemoveDeletes(g))
      PROVE  UNCHANGED <<sessions, active, nameOf>>
  BY <1>2 DEF Working, Adds, Removes, Disconnects, Starts, CallsBack,
     ConnectAnswered, ConnectReturns, RemoveDisconnects, AllDisconnects, Call,
     Callback, HandleConnect, HandleConnectionLost, HandleReconnecting,
     Reconnects
<1>3. ASSUME NEW g \in Threads, Delivering(g) \/ EmitBegins(g)
      PROVE  UNCHANGED <<sessions, active, nameOf>>
  BY <1>3 DEF Delivering, Emit, EmitEnds, EmitBegins
<1>4. ASSUME NEW id \in Ids,
             ConnectionLost(id) \/ MessageArrives(id) \/ MessageHandled(id)
      PROVE  UNCHANGED <<sessions, active, nameOf>>
  BY <1>4 DEF ConnectionLost, MessageArrives, MessageHandled
<1> QED
  BY <1>1, <1>2, <1>3, <1>4, NextIs

LEMMA NextMap ==
    ASSUME Structure, Next
    PROVE  MapFits'
<1> USE DEF MapFits
<1>1. /\ sessions \in [Names -> Ids \cup {None}] /\ MapFits
      /\ nameOf \in [Ids -> Names \cup {None}]
  BY DEF Structure, Shapes
<1>2. CASE UNCHANGED <<sessions, active, nameOf>>
  BY <1>1, <1>2
<1>3. ASSUME NEW g \in Callers, NEW id \in Ids, AddConnects(g, id)
      PROVE  MapFits'
  BY <1>1, <1>3, ConnectsIs, Absent
<1>4. ASSUME NEW g \in Callers, AddInserts(g) PROVE MapFits'
  BY <1>1, <1>4, InsertIs
<1>5. ASSUME NEW g \in Callers, RemoveDeletes(g) PROVE MapFits'
  BY <1>1, <1>5, DeleteIs
<1> QED
  BY <1>2, <1>3, <1>4, <1>5, RegistrySteps

LEMMA NextCounted ==
    ASSUME Structure, Counted, Next
    PROVE  Counted'
<1>1. /\ sessions \in [Names -> Ids \cup {None}] /\ MapFits
      /\ active = Cardinality(Members) /\ IsFiniteSet(Members)
      /\ None \notin Ids
  BY Absent DEF Structure, Shapes, Counted
<1>2. CASE UNCHANGED <<sessions, active>>
  <2>1. Members' = Members
    BY <1>2 DEF Members
  <2> QED
    BY <1>1, <1>2, <2>1 DEF Counted
<1>3. ASSUME NEW g \in Callers, AddInserts(g) PROVE Counted'
  <2> DEFINE t == thread[g]
  <2>1. /\ t.name \in Names /\ t.id \in Ids /\ nameOf[t.id] = t.name
        /\ sessions[t.name] = None /\ active' = active + 1
        /\ sessions' = [sessions EXCEPT ![t.name] = t.id]
    BY <1>3, InsertIs
  <2>2. t.id \notin Members
    BY <1>1, <2>1 DEF Members, MapFits
  <2>3. Members' = Members \cup {t.id}
    BY <1>1, <2>1 DEF Members
  <2>4. /\ IsFiniteSet(Members \cup {t.id})
        /\ Cardinality(Members \cup {t.id}) = Cardinality(Members) + 1
    BY <1>1, <2>2, FS_AddElement
  <2> QED
    BY <1>1, <2>1, <2>3, <2>4 DEF Counted
<1>4. ASSUME NEW g \in Callers, RemoveDeletes(g) PROVE Counted'
  <2> DEFINE t == thread[g]
  <2>1. /\ t.name \in Names /\ t.id \in Ids /\ nameOf[t.id] = t.name
        /\ sessions[t.name] = t.id /\ active' = active - 1
        /\ sessions' = [sessions EXCEPT ![t.name] = None]
    BY <1>4, DeleteIs
  <2>2. t.id \in Members
    BY <1>1, <2>1 DEF Members
  <2>3. Members' = Members \ {t.id}
    <3>1. \A n \in Names : sessions[n] = t.id => n = t.name
      BY <1>1, <2>1 DEF MapFits
    <3> QED
      BY <1>1, <2>1, <3>1 DEF Members
  <2>4. /\ IsFiniteSet(Members \ {t.id})
        /\ Cardinality(Members \ {t.id}) = Cardinality(Members) - 1
    BY <1>1, <2>2, FS_RemoveElement
  <2> QED
    BY <1>1, <2>1, <2>3, <2>4 DEF Counted
<1>5. ASSUME NEW g \in Callers, NEW id \in Ids, AddConnects(g, id)
      PROVE  UNCHANGED <<sessions, active>>
  BY <1>5, ConnectsIs
<1> QED
  BY <1>2, <1>3, <1>4, <1>5, RegistrySteps

LEMMA NextStructure ==
    ASSUME Structure, AllReachable, Next
    PROVE  Structure'
  BY NextShapes, NextLocks, NextThreads, NextMap DEF Structure

-----------------------------------------------------------------------------
(* A goroutine with an event to emit does not move until it has emitted it.  *)
LEMMA QuietSteps ==
    ASSUME Structure, Next
    PROVE  \/ \E g \in Threads : Delivering(g)
           \/ /\ UNCHANGED seen
              /\ \A h \in Threads :
                   thread[h].emits # <<>> => thread'[h] = thread[h]
<1> DEFINE Quiet == /\ UNCHANGED seen
                    /\ \A h \in Threads :
                         thread[h].emits # <<>> => thread'[h] = thread[h]
<1>1. ASSUME NEW g \in Threads, Plain(g) PROVE Quiet
  BY <1>1, PlainFrame, PlainThread DEF told
<1>2. ASSUME NEW g \in Threads, Working(g) PROVE Quiet
  <2>1. /\ thread[g].emits = <<>>
        /\ \A h \in Threads \ {g} : thread'[h] = thread[h]
    BY <1>2, AddThread, RemoveThread, StartThread DEF Working, Changes
  <2>2. UNCHANGED seen
    BY <1>2 DEF Working, Adds, Removes, Disconnects, Starts, CallsBack,
       AddConnects, ConnectAnswered, ConnectReturns, AddInserts,
       RemoveDisconnects, RemoveDeletes, AllDisconnects, Call, Callback,
       HandleConnect, HandleConnectionLost, HandleReconnecting, Reconnects, told
  <2> QED
    BY <2>1, <2>2
<1>3. ASSUME NEW g \in Threads, EmitBegins(g) PROVE Quiet
  BY <1>3 DEF EmitBegins, told
<1>4. ASSUME NEW id \in Ids,
             ConnectionLost(id) \/ MessageArrives(id) \/ MessageHandled(id)
      PROVE  Quiet
  BY <1>4 DEF ConnectionLost, MessageArrives, MessageHandled, told
<1> QED
  BY <1>1, <1>2, <1>3, <1>4, NextIs

LEMMA ToldStays ==
    ASSUME NEW n \in Names, Told(n), UNCHANGED <<seen[n], sessions[n]>>,
           \A h \in Callers : Tells(thread[h]) /\ thread[h].name = n
             => Tells(thread'[h]) /\ thread'[h].name = n
    PROVE  Told(n)'
  BY DEF Told

LEMMA NextTold ==
    ASSUME Structure, AllTold, Next
    PROVE  AllTold'
<1>1. /\ thread \in [Threads -> Goroutines] /\ Callers \subseteq Threads
      /\ sessions \in [Names -> Ids \cup {None}]
      /\ seen \in [Names -> {None, "added", "removed"}]
      /\ \A h \in Threads : OpFits(thread[h]) /\ TellsTruth(thread[h])
  BY DEF Structure, Shapes, ThreadsFit, ThreadFits, Threads
<1>2. ASSUME NEW g \in Threads, Delivering(g) PROVE AllTold'
  <2> DEFINE t == thread[g]
  <2>1. /\ UNCHANGED <<sessions, nameOf>> /\ Deliver(g) /\ t.emits # <<>>
    BY <1>2, DeliverThread DEF Delivering, Emit, EmitEnds, registry, objects
  <2>2. \A h \in Callers \ {g} :
          Tells(thread[h]) => /\ Tells(thread'[h])
                              /\ thread'[h].name = thread[h].name
    <3>1. ASSUME NEW h \in Callers \ {g}
          PROVE  /\ thread'[h].emits = thread[h].emits
                 /\ thread'[h].name = thread[h].name
      <4>1. thread[h] \in Goroutines
        BY <1>1
      <4>2. \/ thread'[h] = thread[h]
            \/ thread'[h] = [thread[h] EXCEPT !.pc = "signalled"]
        BY <1>1, <1>2, DeliverThread
      <4> QED
        BY <4>1, <4>2 DEF Goroutines
    <3> QED
      BY <3>1 DEF Tells, Says
  <2>3. CASE Tells(t)
    <3>1. /\ t.name \in Names /\ t.id \in Ids /\ nameOf[t.id] = t.name
          /\ sessions[t.name] = IF Says(t, "added") THEN t.id ELSE None
      BY <1>1, <2>3 DEF TellsTruth
    <3>2. EventName(g) = t.name
      BY <3>1, Absent DEF EventName
    <3>3. seen' = [seen EXCEPT ![t.name] = Head(t.emits)]
      BY <2>1, <2>3, <3>2 DEF Deliver, Tells, Says
    <3>4. ASSUME NEW n \in Names, n = t.name PROVE Told(n)'
      <4>1. seen'[n] = "added" <=> Says(t, "added")
        BY <1>1, <2>1, <3>3, <3>4 DEF Says
      <4>2. sessions'[n] # None <=> Says(t, "added")
        BY <2>1, <3>1, <3>4, Absent
      <4> QED
        BY <4>1, <4>2 DEF Told
    <3>5. ASSUME NEW n \in Names, n # t.name PROVE Told(n)'
      <4>1. UNCHANGED <<seen[n], sessions[n]>>
        BY <1>1, <2>1, <3>3, <3>5
      <4> QED
        BY <2>2, <3>5, <4>1, ToldStays DEF AllTold
    <3> QED
      BY <3>4, <3>5 DEF AllTold
  <2>4. CASE ~Tells(t)
    <3>1. UNCHANGED seen
      BY <2>1, <2>4 DEF Deliver, Tells, Says
    <3> QED
      BY <2>1, <2>2, <2>4, <3>1, ToldStays DEF AllTold
  <2> QED
    BY <2>3, <2>4
<1>3. ASSUME UNCHANGED seen,
             \A h \in Threads : thread[h].emits # <<>> => thread'[h] = thread[h]
      PROVE  AllTold'
  <2>1. \A h \in Callers :
          Tells(thread[h]) => /\ Tells(thread'[h])
                              /\ thread'[h].name = thread[h].name
    BY <1>1, <1>3 DEF Tells, Says
  <2>2. CASE UNCHANGED sessions
    BY <1>3, <2>1, <2>2, ToldStays DEF AllTold
  <2>3. ASSUME NEW g \in Callers, NEW new, thread[g].name \in Names,
               sessions' = [sessions EXCEPT ![thread[g].name] = new],
               thread'[g].name = thread[g].name, Tells(thread'[g])
        PROVE  AllTold'
    <3>1. ASSUME NEW n \in Names, n = thread[g].name PROVE Told(n)'
      BY <2>3, <3>1 DEF Told
    <3>2. ASSUME NEW n \in Names, n # thread[g].name PROVE Told(n)'
      <4>1. UNCHANGED <<seen[n], sessions[n]>>
        BY <1>1, <1>3, <2>3, <3>2
      <4> QED
        BY <2>1, <4>1, ToldStays DEF AllTold
    <3> QED
      BY <3>1, <3>2 DEF AllTold
  <2>4. ASSUME NEW g \in Callers, AddInserts(g) PROVE AllTold'
    BY <2>3, <2>4, InsertIs
  <2>5. ASSUME NEW g \in Callers, RemoveDeletes(g) PROVE AllTold'
    BY <2>3, <2>5, DeleteIs
  <2>6. ASSUME NEW g \in Callers, NEW id \in Ids, AddConnects(g, id)
        PROVE  UNCHANGED sessions
    BY <2>6, ConnectsIs
  <2> QED
    BY <2>2, <2>4, <2>5, <2>6, RegistrySteps
<1> QED
  BY <1>2, <1>3, QuietSteps

-----------------------------------------------------------------------------
(* The connections: a session that is being added keeps its caller, except  *)
(* for the steps of AddSession.                                             *)
AddPcs == {"connect", "connected", "insert"}

LEMMA AddingSteps ==
    ASSUME Structure, Next
    PROVE  \/ \E g \in Callers : Adds(g)
           \/ \A h \in Threads :
                thread[h].pc \in AddPcs => /\ thread'[h].pc = thread[h].pc
                                           /\ thread'[h].id = thread[h].id
<1> DEFINE Kept == \A h \in Threads :
                     thread[h].pc \in AddPcs
                       => /\ thread'[h].pc = thread[h].pc
                          /\ thread'[h].id = thread[h].id
<1> USE DEF AddPcs
<1>1. ASSUME NEW g \in Threads, Plain(g) PROVE Kept
  <2>1. \A h \in Threads \ {g} : thread'[h] = thread[h]
    BY <1>1, PlainThread
  <2>2. thread[g].pc \notin AddPcs
    BY <1>1 DEF Structure, ThreadsFit, ThreadFits, OpFits, At, Plain,
       LockAnnounce, LockAcquire, Unlock, AddRefused, RemoveUnknown, AllLocks,
       Answered, AllAnswered, AllAbandoned, AllUnlocks, AllAsks,
       WaitForSession, CallbackEnds, Get,
       WaitLooks, OnAnnounce, OnRegisters, WaitEnds
  <2> QED
    BY <2>1, <2>2
<1>2. ASSUME NEW g \in Threads, Working(g), ~(g \in Callers /\ Adds(g))
      PROVE  Kept
  <2>1. \A h \in Threads \ {g} : thread'[h] = thread[h]
    BY <1>2, RemoveThread, StartThread DEF Working, Changes
  <2>2. thread[g].pc \notin AddPcs
    <3>1. CASE Removes(g) \/ Disconnects(g)
      BY <3>1 DEF Removes, Disconnects, At, RemoveDisconnects, RemoveDeletes,
         AllDisconnects
    <3>2. CASE Starts(g) \/ Callback(g)
      <4>1. thread[g] = Idle
        BY <3>2 DEF Starts, Call, Callback, HandleConnect,
           HandleConnectionLost, HandleReconnecting, CallbackRuns
      <4> QED
        BY <4>1 DEF Idle
    <3>3. ASSUME NEW ok \in BOOLEAN, Reconnects(g, ok)
          PROVE  thread[g].pc \notin AddPcs
      BY <3>3 DEF Reconnects, At
    <3> QED
      BY <1>2, <3>1, <3>2, <3>3 DEF Working, CallsBack
  <2> QED
    BY <2>1, <2>2
<1>3. ASSUME NEW g \in Threads, Delivering(g) PROVE Kept
  <2>1. ASSUME NEW h \in Threads, thread[h].pc \in AddPcs
        PROVE  thread'[h].pc = thread[h].pc /\ thread'[h].id = thread[h].id
    <3>1. thread[h] \in Goroutines /\ thread[h].pc # "waiting"
      BY <2>1 DEF Structure, Shapes
    <3>2. \/ thread'[h] = thread[h]
          \/ thread'[h] = [thread[h] EXCEPT !.emits = <<>>]
      BY <1>3, <3>1, DeliverThread
    <3> QED
      BY <3>1, <3>2 DEF Goroutines
  <2> QED
    BY <2>1
<1>4. ASSUME \/ \E g \in Threads : EmitBegins(g)
             \/ \E id \in Ids : \/ ConnectionLost(id) \/ MessageArrives(id)
                                \/ MessageHandled(id)
      PROVE  Kept
  BY <1>4 DEF EmitBegins, ConnectionLost, MessageArrives, MessageHandled
<1> QED
  BY <1>1, <1>2, <1>3, <1>4, NextIs

(* Nobody else brings a connection to life.                                 *)
LEMMA ClientSteps ==
    ASSUME Structure, Next
    PROVE  \/ \E g \in Callers : Adds(g)
           \/ \A id \in Ids : /\ client'[id] \in Live => client[id] \in Live
                              /\ client'[id] = "connecting"
                                   => client[id] = "connecting"
<1> DEFINE Faded == \A id \in Ids :
                      /\ client'[id] \in Live => client[id] \in Live
                      /\ client'[id] = "connecting"
                           => client[id] = "connecting"
<1> USE DEF Live, Clients
<1>0. client \in [Ids -> Clients]
  BY DEF Structure, Shapes
<1>1. ASSUME NEW g \in Threads, Plain(g) PROVE Faded
  BY <1>1, PlainFrame DEF clients
<1>2. ASSUME NEW g \in Threads, Working(g), ~(g \in Callers /\ Adds(g))
      PROVE  Faded
  <2> USE DEF clients, objects
  <2>1. ASSUME NEW id, DisconnectClient(id) PROVE Faded
    BY <1>0, <2>1 DEF DisconnectClient
  <2>2. ASSUME NEW ok \in BOOLEAN, Reconnects(g, ok) PROVE Faded
    BY <1>0, <2>2 DEF Reconnects
  <2>3. CASE Callback(g) \/ Starts(g) \/ RemoveDeletes(g)
    BY <2>3 DEF Callback, HandleConnect, HandleConnectionLost,
       HandleReconnecting, Starts, Call, RemoveDeletes
  <2> QED
    BY <1>2, <2>1, <2>2, <2>3 DEF Working, Removes, Disconnects, CallsBack,
       RemoveDisconnects, AllDisconnects
<1>3. ASSUME NEW g \in Threads, Delivering(g) \/ EmitBegins(g) PROVE Faded
  BY <1>3 DEF Delivering, Emit, EmitEnds, EmitBegins, objects, clients
<1>4. ASSUME NEW id \in Ids,
             ConnectionLost(id) \/ MessageArrives(id) \/ MessageHandled(id)
      PROVE  Faded
  BY <1>0, <1>4 DEF ConnectionLost, MessageArrives, MessageHandled, clients
<1> QED
  BY <1>1, <1>2, <1>3, <1>4, NextIs

LEMMA NextReachable ==
    ASSUME Structure, AllReachable, Next
    PROVE  AllReachable'
<1> SUFFICES ASSUME NEW i \in Ids PROVE Reachable(i)'
  BY DEF AllReachable
<1> USE DEF Reachable, Adding, Live
<1>1. /\ Reachable(i) /\ MapFits
      /\ thread \in [Threads -> Goroutines] /\ Callers \subseteq Threads
      /\ sessions \in [Names -> Ids \cup {None}]
      /\ nameOf \in [Ids -> Names \cup {None}] /\ client \in [Ids -> Clients]
  BY DEF AllReachable, Structure, Shapes, Threads
<1>2. CASE ~\E g \in Callers : Adds(g)
  <2>1. /\ client'[i] \in Live => client[i] \in Live
        /\ client'[i] = "connecting" => client[i] = "connecting"
    BY <1>2, ClientSteps
  <2>2. \A h \in Callers : Adding(h, i) => /\ Adding(h, i)'
                                           /\ thread'[h].pc = thread[h].pc
    BY <1>1, <1>2, AddingSteps DEF AddPcs
  <2>3. CASE UNCHANGED <<sessions, nameOf>>
    BY <1>1, <2>1, <2>2, <2>3
  <2>4. ASSUME NEW g \in Callers, RemoveDeletes(g) PROVE Reachable(i)'
    <3>1. /\ thread[g].name \in Names /\ sessions[thread[g].name] = thread[g].id
          /\ client[thread[g].id] \notin Live
          /\ sessions' = [sessions EXCEPT ![thread[g].name] = None]
          /\ UNCHANGED <<nameOf, client>>
      BY <2>4, DeleteIs
    <3>2. CASE client[i] \in Live
      <4>1. i # thread[g].id
        BY <3>1, <3>2
      <4> QED
        BY <1>1, <2>2, <3>1, <4>1
    <3>3. CASE client[i] \notin Live
      BY <3>1, <3>3
    <3> QED
      BY <3>2, <3>3
  <2> QED
    BY <1>2, <2>3, <2>4, RegistrySteps DEF Adds
<1>3. ASSUME NEW g \in Callers, Adds(g) PROVE Reachable(i)'
  <2> DEFINE t == thread[g]
  <2>1. /\ g \in Threads /\ t \in Goroutines /\ AddFits(t)
        /\ \A h \in Callers \ {g} : thread[h].pc \notin WriterPcs
    <3>1. t.pc \in WriterPcs /\ g \in Threads
      BY <1>1, <1>3, AddFitsNext
    <3> QED
      BY <1>1, <3>1, WriterAlone DEF Structure, ThreadsFit, ThreadFits
  <2>2. \A h \in Callers, id \in Ids : Adding(h, id) => h = g /\ t.id = id
    BY <2>1 DEF WriterPcs
  <2>3. ASSUME NEW id \in Ids, AddConnects(g, id) PROVE Reachable(i)'
    <3>1. /\ t.pc = "add" /\ nameOf' = [nameOf EXCEPT ![id] = t.name]
          /\ client' = [client EXCEPT ![id] = "connecting"]
          /\ thread'[g].pc = "connect" /\ thread'[g].id = id
          /\ UNCHANGED sessions
      BY <2>3, ConnectsIs
    <3>2. CASE i = id
      BY <1>1, <3>1, <3>2
    <3>3. CASE i # id
      BY <1>1, <2>2, <3>1, <3>3
    <3> QED
      BY <3>2, <3>3
  <2>4. ASSUME NEW ok \in BOOLEAN, ConnectAnswered(g, ok) PROVE Reachable(i)'
    <3>1. /\ t.pc = "connect" /\ thread'[g].id = t.id
          /\ UNCHANGED <<sessions, nameOf>>
          /\ client' = [client EXCEPT ![t.id] = IF ok THEN "up" ELSE "down"]
          /\ thread'[g].pc = IF ok THEN "connected" ELSE "refused"
      BY <1>1, <2>1, <2>4 DEF ConnectAnswered, At, Goes, registry, Goroutines
    <3> QED
      BY <1>1, <2>2, <3>1
  <2>5. CASE ConnectReturns(g)
    <3>1. /\ t.pc \in {"connected", "refused"}
          /\ thread'[g].id = t.id /\ thread'[g].pc = "insert"
          /\ UNCHANGED <<sessions, nameOf, client>>
      BY <1>1, <2>1, <2>5 DEF ConnectReturns, At, Goes, GoesEmitting, registry,
         clients, Goroutines
    <3> QED
      BY <1>1, <2>2, <3>1
  <2>6. CASE AddInserts(g)
    <3>1. /\ t.pc = "insert" /\ t.name \in Names /\ t.id \in Ids
          /\ nameOf[t.id] = t.name /\ sessions[t.name] = None
          /\ sessions' = [sessions EXCEPT ![t.name] = t.id]
          /\ UNCHANGED <<nameOf, client>>
      BY <2>6, InsertIs
    <3>2. client[i] # "connecting"
      BY <1>1, <2>2, <3>1
    <3>3. CASE i = t.id
      BY <1>1, <3>1, <3>2, <3>3
    <3>4. CASE i # t.id
      BY <1>1, <2>2, <3>1, <3>2, <3>4, Absent
    <3> QED
      BY <3>3, <3>4
  <2> QED
    BY <1>3, <2>3, <2>4, <2>5, <2>6 DEF Adds
<1> QED
  BY <1>2, <1>3

-----------------------------------------------------------------------------
(* WaitForSession: what a step can do to a caller that waits.               *)
LEMMA StatusSteps ==
    ASSUME Structure, Next, NEW i \in Ids, status'[i] = "Connected"
    PROVE  \/ status[i] = "Connected"
           \/ ConnectUnderWay(i)'
           \/ \E g \in Callers : /\ ConnectReturns(g) /\ thread[g].id = i
                                 /\ thread[g].pc = "connected"
<1> DEFINE Goal == \/ status[i] = "Connected"
                   \/ ConnectUnderWay(i)'
                   \/ \E g \in Callers : /\ ConnectReturns(g)
                                         /\ thread[g].id = i
                                         /\ thread[g].pc = "connected"
<1> USE DEF SetState, objects, others
<1>0. status \in [Ids -> Statuses] /\ thread \in [Threads -> Goroutines]
  BY DEF Structure, Shapes
<1>1. ASSUME NEW g \in Threads, Plain(g) PROVE Goal
  BY <1>1, PlainFrame
<1>2. ASSUME NEW g \in Callers, Adds(g) PROVE Goal
  <2>1. CASE ConnectReturns(g)
    BY <1>0, <2>1 DEF ConnectReturns, At
  <2> QED
    BY <1>0, <1>2, <2>1 DEF Adds, AddConnects, ConnectAnswered, AddInserts
<1>3. ASSUME NEW g \in Callers, Removes(g) \/ Disconnects(g) \/ Starts(g)
      PROVE  Goal
  BY <1>0, <1>3 DEF Removes, RemoveDisconnects, RemoveDeletes, Disconnects,
     AllDisconnects, Starts, Call
<1>4. ASSUME NEW g \in Threads, CallsBack(g) PROVE Goal
  <2>1. ASSUME NEW id \in Ids, HandleConnect(g, id), i = id PROVE Goal
    <3>1. /\ g \in Callbacks
          /\ thread'[g] = [Idle EXCEPT !.op = "handleConnect", !.id = id,
                              !.pc = "end", !.emits = <<"connected">>]
      BY <1>0, <1>4, <2>1 DEF HandleConnect, CallbackRuns, CallsBack
    <3>2. <<"connected">> # <<>>
      BY OneEvent DEF EventTypes
    <3>3. /\ thread'[g].op = "handleConnect" /\ thread'[g].id = id
          /\ thread'[g].emits # <<>>
      BY <3>1, <3>2 DEF Idle
    <3> QED
      BY <2>1, <3>1, <3>3 DEF ConnectUnderWay
  <2> QED
    BY <1>0, <1>4, <2>1 DEF CallsBack, Callback, HandleConnect,
       HandleConnectionLost, HandleReconnecting, CallbackRuns, Reconnects
<1>5. ASSUME NEW g \in Threads, Delivering(g) \/ EmitBegins(g) PROVE Goal
  BY <1>5 DEF Delivering, Emit, EmitEnds, EmitBegins
<1>6. ASSUME NEW id \in Ids,
             ConnectionLost(id) \/ MessageArrives(id) \/ MessageHandled(id)
      PROVE  Goal
  BY <1>6 DEF ConnectionLost, MessageArrives, MessageHandled
<1> QED
  BY <1>1, <1>2, <1>3, <1>4, <1>5, <1>6, NextIs DEF Working

LEMMA ArrivalSteps ==
    ASSUME Structure, Next, NEW h \in Callers,
           thread'[h].pc \in {"connected", "insert"}
    PROVE  \/ /\ thread'[h].pc = thread[h].pc /\ thread'[h].id = thread[h].id
              /\ thread'[h].name = thread[h].name
           \/ ConnectAnswered(h, TRUE) \/ ConnectReturns(h)
<1> DEFINE Same == /\ thread'[h].pc = thread[h].pc
                   /\ thread'[h].id = thread[h].id
                   /\ thread'[h].name = thread[h].name
           Goal == Same \/ ConnectAnswered(h, TRUE) \/ ConnectReturns(h)
<1>0. thread \in [Threads -> Goroutines] /\ h \in Threads
  BY DEF Structure, Shapes, Threads
<1>1. ASSUME NEW g \in Threads, Plain(g) PROVE Goal
  BY <1>0, <1>1, PlainThread, PlainPcs
<1>2. ASSUME NEW g \in Threads, Working(g) PROVE Goal
  <2>1. CASE h # g
    BY <1>0, <1>2, <2>1, AddThread, RemoveThread, StartThread
    DEF Working, Changes
  <2>2. CASE h = g /\ Adds(g)
    <3>1. ASSUME NEW ok \in BOOLEAN, ConnectAnswered(g, ok)
          PROVE  ok = TRUE
      <4>1. thread'[g].pc = IF ok THEN "connected" ELSE "refused"
        BY <1>0, <3>1 DEF ConnectAnswered, Goes, Goroutines
      <4> QED
        BY <2>2, <4>1
    <3>2. CASE AddInserts(g)
      BY <2>2, <3>2, InsertIs
    <3>3. ASSUME NEW id \in Ids, AddConnects(g, id) PROVE FALSE
      BY <2>2, <3>3, ConnectsIs
    <3> QED
      BY <2>2, <3>1, <3>2, <3>3 DEF Adds
  <2>3. CASE h = g /\ ~Adds(g)
    <3>1. thread[g].pc \in WriterPcs
      BY <1>2, <2>3, WorkPcs DEF WriterPcs
    <3>2. CASE Removes(g)
      BY <1>0, <2>3, <3>2 DEF Removes, RemoveDisconnects, RemoveDeletes,
         GoesEmitting, Goroutines
    <3>3. CASE Disconnects(g)
      BY <3>1, <3>3 DEF Disconnects, AllDisconnects, At, WriterPcs
    <3>4. CASE Starts(g) \/ CallsBack(g)
      BY <2>3, <3>1, <3>4, StartThread DEF Idle, WriterPcs
    <3> QED
      BY <1>2, <2>3, <3>2, <3>3, <3>4 DEF Working
  <2> QED
    BY <2>1, <2>2, <2>3
<1>3. ASSUME NEW g \in Threads, Delivering(g) PROVE Goal
  <2>1. thread[h] \in Goroutines
    BY <1>0
  <2>2. \/ thread'[h] = thread[h]
        \/ thread'[h] = [thread[h] EXCEPT !.emits = <<>>]
        \/ thread'[h] = [thread[h] EXCEPT !.pc = "signalled"]
    BY <1>0, <1>3, DeliverThread
  <2> QED
    BY <2>1, <2>2 DEF Goroutines
<1>4. ASSUME \/ \E g \in Threads : EmitBegins(g)
             \/ \E id \in Ids : \/ ConnectionLost(id) \/ MessageArrives(id)
                                \/ MessageHandled(id)
      PROVE  Goal
  BY <1>4 DEF EmitBegins, ConnectionLost, MessageArrives, MessageHandled
<1> QED
  BY <1>1, <1>2, <1>3, <1>4, NextIs

LEMMA WaitSteps ==
    ASSUME Structure, Next, NEW g \in Callers, NEW n \in Names, Waits(g, n)'
    PROVE  \/ Get(g)
           \/ /\ Waits(g, n)
              /\ \/ thread'[g].pc = thread[g].pc /\ thread'[g].id = thread[g].id
                 \/ thread[g].pc # "look"
                 \/ status[thread[g].id] # "Connected"
<1> DEFINE t == thread[g]
           Goal == \/ Get(g)
                   \/ /\ Waits(g, n)
                      /\ \/ thread'[g].pc = t.pc /\ thread'[g].id = t.id
                         \/ t.pc # "look"
                         \/ status[t.id] # "Connected"
<1> USE DEF Waits
<1>0. /\ thread \in [Threads -> Goroutines] /\ g \in Threads
      /\ t \in Goroutines /\ OpFits(t)
  BY DEF Structure, Shapes, ThreadsFit, ThreadFits, Threads
<1>1. CASE thread'[g] = t
  BY <1>1
<1>2. CASE Plain(g)
  <2> USE <1>0 DEF Goroutines, At, Goes, Returns, Idle
  <2>1. CASE LockAnnounce(g) \/ Unlock(g) \/ AddRefused(g) \/ RemoveUnknown(g)
               \/ AllUnlocks(g) \/ Answered(g) \/ WaitEnds(g)
               \/ CallbackEnds(g)
    BY <2>1 DEF LockAnnounce, Unlock, AddRefused, RemoveUnknown, AllUnlocks,
       Answered, AllAnswered, AllAbandoned, WaitEnds, CallbackEnds
  <2>2. CASE LockAcquire(g) \/ AllLocks(g)
    BY <2>2 DEF LockAcquire, AllLocks, ForEach, OpFits
  <2>3. ASSUME NEW id \in Ids, AllAsks(g, id) PROVE Goal
    BY <2>3 DEF AllAsks, Visit
  <2>4. CASE WaitLooks(g)
    BY <2>4 DEF WaitLooks
  <2>5. CASE OnAnnounce(g) \/ OnRegisters(g)
    BY <2>5 DEF OnAnnounce, OnRegisters
  <2> QED
    BY <1>2, <2>1, <2>2, <2>3, <2>4, <2>5 DEF Plain, WaitForSession
<1>3. CASE Working(g)
  <2>1. CASE Adds(g) \/ Removes(g)
    <3>1. ASSUME NEW id \in Ids, AddConnects(g, id) PROVE Goal
      BY <3>1, ConnectsIs
    <3>2. ASSUME NEW ok \in BOOLEAN, ConnectAnswered(g, ok) PROVE Goal
      BY <1>0, <3>2 DEF ConnectAnswered, Goes, Goroutines
    <3>3. CASE ConnectReturns(g)
      BY <1>0, <3>3 DEF ConnectReturns, Goes, GoesEmitting, Goroutines
    <3>4. CASE AddInserts(g) \/ RemoveDeletes(g)
      BY <3>4, InsertIs, DeleteIs
    <3>5. CASE RemoveDisconnects(g)
      BY <1>0, <3>5 DEF RemoveDisconnects, Goroutines
    <3> QED
      BY <2>1, <3>1, <3>2, <3>3, <3>4, <3>5 DEF Adds, Removes
  <2>2. CASE Disconnects(g)
    BY <1>0, <2>2 DEF Disconnects, AllDisconnects, Visit, At, Goroutines
  <2>3. CASE Starts(g)
    <3>1. PICK op \in CallOps, m \in Names : Call(g, op, m)
      BY <2>3, FirstSteps DEF Starts
    <3>2. thread'[g].op = op /\ thread'[g].pc = FirstStep[op]
      BY <1>0, <3>1 DEF Call, Idle
    <3> QED
      BY <3>2, FirstSteps
  <2>4. g \notin Callbacks
    BY ThreadsAssumption
  <2> QED
    BY <1>3, <2>1, <2>2, <2>3, <2>4 DEF Working, CallsBack
<1>4. ASSUME NEW k \in Threads, Delivering(k) PROVE Goal
  <2>1. \/ thread'[g] = t
        \/ thread'[g] = [t EXCEPT !.emits = <<>>]
        \/ thread'[g] = [t EXCEPT !.pc = "signalled"]
    BY <1>0, <1>4, DeliverThread
  <2> QED
    BY <1>0, <2>1 DEF Goroutines
<1>5. ASSUME NEW k \in Threads \ {g}, Plain(k) \/ Working(k)
      PROVE  thread'[g] = t
  BY <1>0, <1>5, PlainThread, AddThread, RemoveThread, StartThread
  DEF Working, Changes
<1>6. ASSUME \/ \E k \in Threads : EmitBegins(k)
             \/ \E id \in Ids : \/ ConnectionLost(id) \/ MessageArrives(id)
                                \/ MessageHandled(id)
      PROVE  thread'[g] = t
  BY <1>6 DEF EmitBegins, ConnectionLost, MessageArrives, MessageHandled
<1> QED
  BY <1>1, <1>2, <1>3, <1>4, <1>5, <1>6, NextIs

(* A connect callback stays under way until its event is delivered, which   *)
(* the callers waiting for the name are told, or find in the gap.           *)
LEMMA UnderWaySteps ==
    ASSUME Structure, Next, NEW i \in Ids, ConnectUnderWay(i)
    PROVE  \/ ConnectUnderWay(i)'
           \/ \E k \in Callbacks : /\ Delivering(k) /\ thread[k].id = i
                                   /\ thread[k].op = "handleConnect"
<1>0. /\ connectCalls \in [Ids -> Nat] /\ thread \in [Threads -> Goroutines]
      /\ Callbacks \subseteq Threads
  BY DEF Structure, Shapes, Threads
<1>1. ASSUME NEW k \in Callbacks, thread[k].op = "handleConnect",
             thread[k].id = i, thread[k].emits # <<>>
      PROVE  \/ ConnectUnderWay(i)'
             \/ \E h \in Callbacks : /\ Delivering(h) /\ thread[h].id = i
                                     /\ thread[h].op = "handleConnect"
  <2>1. CASE thread'[k] = thread[k]
    BY <1>1, <2>1 DEF ConnectUnderWay
  <2>2. ASSUME NEW g \in Threads, Delivering(g), g # k
        PROVE  ConnectUnderWay(i)'
    <3>1. \/ thread'[k] = thread[k]
          \/ thread'[k] = [thread[k] EXCEPT !.pc = "signalled"]
      BY <1>0, <2>2, DeliverThread
    <3>2. thread[k] \in Goroutines
      BY <1>0
    <3>3. /\ thread'[k].op = thread[k].op /\ thread'[k].id = thread[k].id
          /\ thread'[k].emits = thread[k].emits
      BY <3>1, <3>2 DEF Goroutines
    <3> QED
      BY <1>1, <3>3 DEF ConnectUnderWay
  <2> QED
    BY <1>0, <1>1, <2>1, <2>2, QuietSteps
<1>2. ASSUME connectCalls[i] > 0 PROVE ConnectUnderWay(i)'
  <2>1. CASE connectCalls'[i] > 0
    BY <2>1 DEF ConnectUnderWay
  <2>2. ASSUME NEW k \in Callbacks, HandleConnect(k, i)
        PROVE  ConnectUnderWay(i)'
    <3>1. thread'[k] = [Idle EXCEPT !.op = "handleConnect", !.id = i,
                           !.pc = "end", !.emits = <<"connected">>]
      BY <1>0, <2>2 DEF HandleConnect, CallbackRuns
    <3>2. <<"connected">> # <<>>
      BY OneEvent DEF EventTypes
    <3>3. /\ thread'[k].op = "handleConnect" /\ thread'[k].id = i
          /\ thread'[k].emits # <<>>
      BY <3>1, <3>2 DEF Idle
    <3> QED
      BY <3>3 DEF ConnectUnderWay
  <2> USE <1>0, <1>2 DEF clients, objects
  <2>3. ASSUME NEW g \in Threads, Plain(g) PROVE connectCalls'[i] > 0
    BY <2>3, PlainFrame
  <2>4. ASSUME NEW g \in Callers,
               Adds(g) \/ Removes(g) \/ Disconnects(g) \/ Starts(g)
        PROVE  connectCalls'[i] > 0
    <3>1. ASSUME NEW ok \in BOOLEAN, ConnectAnswered(g, ok)
          PROVE  connectCalls'[i] > 0
      BY <3>1 DEF ConnectAnswered
    <3> QED
      BY <2>4, <3>1 DEF Adds, AddConnects, ConnectReturns, AddInserts, Removes,
         RemoveDisconnects, RemoveDeletes, Disconnects, AllDisconnects, Starts,
         Call
  <2>5. ASSUME NEW g \in Threads, CallsBack(g), ~HandleConnect(g, i)
        PROVE  connectCalls'[i] > 0
    BY <2>5 DEF CallsBack, Callback, HandleConnect, HandleConnectionLost,
       HandleReconnecting, Reconnects
  <2>6. ASSUME NEW g \in Threads, Delivering(g) \/ EmitBegins(g)
        PROVE  connectCalls'[i] > 0
    BY <2>6 DEF Delivering, Emit, EmitEnds, EmitBegins
  <2>7. ASSUME NEW id \in Ids,
               ConnectionLost(id) \/ MessageArrives(id) \/ MessageHandled(id)
        PROVE  connectCalls'[i] > 0
    BY <2>7 DEF ConnectionLost, MessageArrives, MessageHandled
  <2> QED
    BY <2>1, <2>2, <2>3, <2>4, <2>5, <2>6, <2>7, NextIs DEF Working, CallsBack
<1> QED
  BY <1>1, <1>2 DEF ConnectUnderWay

LEMMA GapSteps ==
    ASSUME Structure, Next, NEW g \in Callers, NEW n \in Names, Waits(g, n)',
           g \in gap
    PROVE  g \in gap'
<1> USE DEF told
<1>1. ASSUME NEW k \in Threads, Plain(k) PROVE g \in gap'
  BY <1>1, PlainFrame
<1>2. ASSUME NEW k \in Threads, Working(k), ~Starts(k) PROVE g \in gap'
  BY <1>2 DEF Working, Adds, Removes, Disconnects, CallsBack, AddConnects,
     ConnectAnswered, ConnectReturns, AddInserts, RemoveDisconnects,
     RemoveDeletes, AllDisconnects, Callback, HandleConnect,
     HandleConnectionLost, HandleReconnecting, Reconnects
<1>3. ASSUME NEW k \in Threads, Starts(k) PROVE g \in gap'
  <2>1. PICK op \in CallOps, m \in Names : Call(k, op, m)
    BY <1>3, FirstSteps DEF Starts
  <2>2. CASE k = g
    <3>1. thread'[g].op = op /\ thread'[g].pc = FirstStep[op]
      BY <2>1, <2>2 DEF Call, Idle, Structure, Shapes
    <3> QED
      BY <3>1, FirstSteps DEF Waits
  <2> QED
    BY <2>1, <2>2 DEF Call
<1>4. ASSUME NEW k \in Threads, Delivering(k) \/ EmitBegins(k)
      PROVE  g \in gap'
  BY <1>4 DEF Delivering, Emit, EmitEnds, Deliver, EmitBegins
<1>5. ASSUME NEW id \in Ids,
             ConnectionLost(id) \/ MessageArrives(id) \/ MessageHandled(id)
      PROVE  g \in gap'
  BY <1>5 DEF ConnectionLost, MessageArrives, MessageHandled
<1> QED
  BY <1>1, <1>2, <1>3, <1>4, <1>5, NextIs

LEMMA AwaitedStays ==
    ASSUME Structure, Next, NEW g \in Callers, NEW n \in Names, NEW i \in Ids,
           Waits(g, n), Waits(g, n)', nameOf[i] = n, Awaited(g, i)
    PROVE  ConnectUnderWay(i)' \/ g \in gap'
<1>1. CASE g \in gap
  BY <1>1, GapSteps
<1>2. ASSUME NEW k \in Callbacks, Delivering(k), thread[k].id = i,
             thread[k].op = "handleConnect"
      PROVE  g \in gap'
  <2>1. /\ Deliver(k) /\ thread[k].emits # <<>>
        /\ Head(thread[k].emits) = "connected"
    BY <1>2 DEF Delivering, Emit, EmitEnds, Structure, ThreadsFit, ThreadFits,
       OpFits, Says, Threads
  <2>2. EventName(k) = n
    BY <1>2, Absent DEF EventName
  <2>3. g # k /\ g \in Threads
    BY ThreadsAssumption DEF Threads
  <2>4. thread[g].pc # "waiting"
    <3>1. SUFFICES ASSUME thread[g].pc = "waiting" PROVE FALSE
      OBVIOUS
    <3>2. thread'[g] = [thread[g] EXCEPT !.pc = "signalled"]
      BY <2>1, <2>2, <2>3, <3>1 DEF Deliver, Waits
    <3> QED
      BY <2>3, <3>2 DEF Waits, Structure, Shapes, Goroutines
  <2> QED
    BY <2>1, <2>2, <2>4 DEF Deliver, Waits
<1> QED
  BY <1>1, <1>2, UnderWaySteps DEF Awaited

LEMMA NextWaits ==
    ASSUME Structure, WaitsFit, Next
    PROVE  WaitsFit'
<1> SUFFICES ASSUME NEW g \in Callers, NEW n \in Names, Waits(g, n)'
             PROVE  Known(g, n)' /\ \A h \in Callers : Expected(g, n, h)'
  BY DEF WaitsFit
<1>0. /\ thread \in [Threads -> Goroutines] /\ Callers \subseteq Threads
      /\ sessions \in [Names -> Ids \cup {None}] /\ MapFits /\ LocksFit
      /\ status \in [Ids -> Statuses] /\ connectCalls \in [Ids -> Nat]
      /\ \A h \in Threads : OpFits(thread[h]) /\ AddFits(thread[h])
  BY DEF Structure, Shapes, ThreadsFit, ThreadFits, Threads
<1>1. CASE Get(g)
  <2>1. /\ thread'[g].pc = "look" /\ thread'[g].id = sessions[n]
        /\ \A h \in Callers \ {g} : thread'[h] = thread[h]
        /\ UNCHANGED sessions /\ mWriter = None
    <3>1. thread[g] \in Goroutines /\ g \in Threads
      BY <1>0
    <3>2. Plain(g)
      BY <1>1 DEF Plain, WaitForSession
    <3> QED
      BY <1>0, <1>1, <3>1, <3>2, PlainThread
      DEF Get, MCanRead, Waits, Idle, Goroutines, others, registry
  <2>2. \A h \in Callers : thread'[h].pc \notin {"connected", "insert"}
    BY <1>0, <2>1, Absent DEF LocksFit, WriterPcs
  <2> QED
    BY <2>1, <2>2 DEF Known, Expected
<1>2. CASE ~Get(g)
  <2>1. /\ Waits(g, n)
        /\ \/ thread'[g].pc = thread[g].pc /\ thread'[g].id = thread[g].id
           \/ thread[g].pc # "look"
           \/ status[thread[g].id] # "Connected"
    BY <1>2, WaitSteps
  <2>2. Known(g, n) /\ \A h \in Callers : Expected(g, n, h)
    BY <2>1 DEF WaitsFit
  <2>3. ASSUME NEW i \in Ids, nameOf[i] = n, Awaited(g, i)
        PROVE  Awaited(g, i)'
    BY <2>1, <2>3, AwaitedStays DEF Awaited
  (* What is known of a session that is not just returning from connect.    *)
  <2>4. ASSUME NEW i \in Ids, nameOf[i] = n,
               status[i] # "Connected" \/ Awaited(g, i),
               ~\E k \in Callers : /\ ConnectReturns(k) /\ thread[k].id = i
                                   /\ thread[k].pc = "connected"
        PROVE  status'[i] # "Connected" \/ Awaited(g, i)'
    BY <2>3, <2>4, StatusSteps DEF Awaited
  <2>5. \A h \in Callers : Expected(g, n, h)'
    <3>1. SUFFICES ASSUME NEW h \in Callers, thread'[h].name = n,
                          thread'[h].pc \in {"connected", "insert"}
                   PROVE  Expected(g, n, h)'
      BY DEF Expected
    <3> DEFINE i == thread[h].id
    <3>2. thread[h] \in Goroutines /\ h \in Threads
      BY <1>0
    <3>3. CASE ConnectAnswered(h, TRUE)
      <4>1. /\ thread[h].pc = "connect" /\ thread'[h].pc = "connected"
            /\ thread'[h].id = i
            /\ connectCalls' = [connectCalls EXCEPT ![i] = @ + 1]
        BY <1>0, <3>2, <3>3 DEF ConnectAnswered, At, Goes, Goroutines
      <4>2. i \in Ids
        BY <1>0, <3>2, <4>1 DEF AddFits
      <4>3. ConnectUnderWay(i)'
        BY <1>0, <4>1, <4>2 DEF ConnectUnderWay
      <4> QED
        BY <4>1, <4>3 DEF Expected, Awaited
    <3>4. CASE ConnectReturns(h)
      <4>1. /\ thread[h].pc \in {"connected", "refused"}
            /\ thread'[h].pc = "insert" /\ thread'[h].id = i
            /\ thread[h].name = n
        BY <1>0, <3>1, <3>2, <3>4
        DEF ConnectReturns, At, Goes, GoesEmitting, Goroutines
      <4>2. i \in Ids /\ nameOf[i] = n
        BY <1>0, <3>2, <4>1 DEF AddFits
      <4>3. CASE thread[h].pc = "connected"
        <5>1. Awaited(g, i)
          BY <2>2, <4>1, <4>3 DEF Expected
        <5> QED
          BY <2>3, <4>1, <4>2, <5>1 DEF Expected, Awaited
      <4>4. CASE thread[h].pc = "refused"
        <5>1. status'[i] # "Connected"
          BY <1>0, <3>4, <4>2, <4>4 DEF ConnectReturns, At, SetState
        <5> QED
          BY <4>1, <5>1 DEF Expected
      <4> QED
        BY <4>1, <4>3, <4>4
    <3>5. CASE /\ thread'[h].pc = thread[h].pc /\ thread'[h].id = i
               /\ thread'[h].name = thread[h].name /\ ~ConnectReturns(h)
      <4>1. /\ i \in Ids /\ nameOf[i] = n
            /\ \A k \in Callers : thread[k].pc \in WriterPcs => k = h
        <5>1. thread[h].pc \in WriterPcs
          BY <3>1, <3>5 DEF WriterPcs
        <5> QED
          BY <1>0, <3>1, <3>2, <3>5, <5>1, WriterAlone DEF AddFits
      <4>2. CASE thread[h].pc = "connected"
        <5>1. Awaited(g, i)
          BY <2>2, <3>1, <3>5, <4>2 DEF Expected
        <5> QED
          BY <2>3, <3>5, <4>1, <4>2, <5>1 DEF Expected, Awaited
      <4>3. CASE thread[h].pc = "insert"
        <5>1. PICK j \in Ids : j = i
          BY <4>1
        <5>2. status[j] # "Connected" \/ Awaited(g, j)
          BY <2>2, <3>1, <3>5, <4>3, <5>1 DEF Expected
        <5>3. ~\E k \in Callers : /\ ConnectReturns(k) /\ thread[k].id = j
                                  /\ thread[k].pc = "connected"
          BY <3>5, <4>1 DEF WriterPcs
        <5>4. status'[j] # "Connected" \/ Awaited(g, j)'
          BY <2>4, <4>1, <5>1, <5>2, <5>3
        <5> QED
          BY <3>5, <4>3, <5>1, <5>4 DEF Expected, Awaited
      <4> QED
        BY <3>1, <3>5, <4>2, <4>3
    <3> QED
      BY <3>1, <3>3, <3>4, <3>5, ArrivalSteps
  <2>6. Known(g, n)'
    <3>1. CASE UNCHANGED sessions[n] /\ sessions[n] # None
      <4>1. PICK i \in Ids : i = sessions[n] /\ nameOf[i] = n
        BY <1>0, <3>1 DEF MapFits
      <4>2. CASE /\ thread[g].pc = "look" /\ thread[g].id = i
                 /\ thread'[g].pc = thread[g].pc
                 /\ thread'[g].id = thread[g].id
        BY <3>1, <4>1, <4>2 DEF Known
      <4>3. CASE status[i] # "Connected" \/ Awaited(g, i)
        <5>1. ASSUME NEW k \in Callers, ConnectReturns(k), thread[k].id = i,
                     thread[k].pc = "connected"
              PROVE  FALSE
          BY <1>0, <3>1, <4>1, <5>1 DEF AddFits
        <5>2. status'[i] # "Connected" \/ Awaited(g, i)'
          BY <2>4, <4>1, <4>3, <5>1
        <5> QED
          BY <3>1, <4>1, <5>2 DEF Known, Awaited
      <4> QED
        BY <2>1, <2>2, <3>1, <4>1, <4>2, <4>3 DEF Known
    <3>2. CASE UNCHANGED sessions[n] /\ sessions[n] = None
      BY <3>2 DEF Known
    <3>3. ASSUME NEW k \in Callers, AddInserts(k), thread[k].name = n
          PROVE  Known(g, n)'
      <4>1. PICK j \in Ids :
              /\ j = thread[k].id /\ thread[k].pc = "insert"
              /\ nameOf[j] = n /\ sessions'[n] = j /\ UNCHANGED status
        BY <1>0, <3>3, InsertIs
      <4>2. status[j] # "Connected" \/ Awaited(g, j)
        BY <2>2, <3>3, <4>1 DEF Expected
      <4>3. status'[j] # "Connected" \/ Awaited(g, j)'
        BY <2>3, <4>1, <4>2
      <4> QED
        BY <4>1, <4>3 DEF Known, Awaited
    <3>4. ASSUME NEW k \in Callers, RemoveDeletes(k), thread[k].name = n
          PROVE  Known(g, n)'
      BY <1>0, <3>4, DeleteIs DEF Known
    <3>5. ASSUME NEW k \in Callers, AddInserts(k) \/ RemoveDeletes(k),
                 thread[k].name # n
          PROVE  UNCHANGED sessions[n]
      BY <1>0, <3>5, InsertIs, DeleteIs
    <3>6. ASSUME NEW k \in Callers, NEW id \in Ids, AddConnects(k, id)
          PROVE  UNCHANGED sessions[n]
      BY <3>6, ConnectsIs
    <3> QED
      BY <3>1, <3>2, <3>3, <3>4, <3>5, <3>6, RegistrySteps
  <2> QED
    BY <2>5, <2>6
<1> QED
  BY <1>1, <1>2

-----------------------------------------------------------------------------
LEMMA StutterIInv == IInv /\ UNCHANGED vars => IInv'
<1> SUFFICES ASSUME IInv, UNCHANGED vars PROVE IInv'
  OBVIOUS
<1> USE DEF vars, others, registry, locks, mLock, emLock, objects, clients,
            bounds, told
<1>1. Members' = Members
  BY DEF Members
<1>2. Shapes' /\ LocksFit' /\ MapFits' /\ Counted'
  BY <1>1 DEF IInv, Structure, Shapes, LocksFit, MapFits, Counted
<1>3. ThreadsFit'
  BY <1>1 DEF IInv, Structure, ThreadsFit, ThreadFits, AddFits, RemoveFits,
     TellsTruth, Reaches
<1>4. AllTold' /\ AllReachable'
  BY DEF IInv, AllTold, Told, AllReachable, Reachable, Adding
<1>5. WaitsFit'
  BY DEF IInv, WaitsFit, Waits, Known, Expected, Awaited, ConnectUnderWay
<1> QED
  BY <1>2, <1>3, <1>4, <1>5 DEF IInv, Structure

LEMMA Invariance == Spec => []IInv
<1>1. IInv /\ [Next]_vars => IInv'
  <2>1. ASSUME IInv, Next PROVE IInv'
    BY <2>1, NextStructure, NextCounted, NextTold, NextReachable, NextWaits
    DEF IInv
  <2> QED
    BY <2>1, StutterIInv
<1> QED
  BY <1>1, InitIInv, PTL DEF Spec

(* What the other theorems are about keeps its type, for any                *)
(* names, sessions and goroutines (manager.go, event.go).                   *)
THEOREM TypeCorrect == Spec => []Shapes
<1>1. IInv => Shapes
  BY DEF IInv, Structure
<1> QED
  BY <1>1, Invariance, PTL

(* The metric ActiveSessions is the number of sessions in the map whenever  *)
(* the map can be read (manager.go:117, manager.go:182).                    *)
THEOREM ActiveIsMapSize == Spec => []CountIsMapSize
<1>1. IInv => CountIsMapSize
  BY DEF IInv, Counted, CountIsMapSize
<1> QED
  BY <1>1, Invariance, PTL

(* However the calls of any number of callers interleave, the last event    *)
(* of a name, added or removed, tells whether it is in the map, whenever    *)
(* the map can be read (manager.go:119, manager.go:184).                    *)
THEOREM LastEventIsTrue == Spec => []EventsTellTheMap
<1>1. IInv => EventsTellTheMap
  <2> SUFFICES ASSUME IInv, mWriter = None, NEW n \in Names
               PROVE  sessions[n] # None <=> seen[n] = "added"
    BY DEF EventsTellTheMap
  <2>1. ASSUME NEW g \in Callers, Tells(thread[g]) PROVE FALSE
    <3>1. g \in Threads /\ thread[g].pc = "unlock"
      BY <2>1 DEF Threads, IInv, Structure, ThreadsFit, ThreadFits, OpFits
    <3> QED
      BY <3>1, Absent DEF IInv, Structure, LocksFit, WriterPcs
  <2> QED
    BY <2>1 DEF IInv, AllTold, Told
<1> QED
  BY <1>1, Invariance, PTL

(* No client is or will be connected that is not that of a session in the   *)
(* map or of one that the holder of the lock is adding                      *)
(* (manager.go:110-117, manager.go:180-181).                                *)
THEOREM NobodyLost == Spec => []NoOrphan
<1>1. IInv => NoOrphan
  <2> SUFFICES ASSUME IInv, NEW id \in Ids, client[id] \in Live
               PROVE  \/ sessions[nameOf[id]] = id
                      \/ mWriter # None /\ thread[mWriter].op = "add"
                           /\ thread[mWriter].id = id
    BY DEF NoOrphan, Live
  <2>1. ASSUME NEW g \in Callers, Adding(g, id)
        PROVE  mWriter # None /\ thread[mWriter].op = "add"
                 /\ thread[mWriter].id = id
    <3>1. g \in Threads /\ mWriter = g
      BY <2>1 DEF Adding, Threads, IInv, Structure, LocksFit, WriterPcs
    <3>2. thread[g].op = "add"
      BY <2>1, <3>1 DEF Adding, IInv, Structure, ThreadsFit, ThreadFits, OpFits
    <3> QED
      BY <2>1, <3>1, <3>2, Absent DEF Adding
  <2> QED
    BY <2>1 DEF IInv, AllReachable, Reachable
<1> QED
  BY <1>1, Invariance, PTL

(* A call on all sessions has visited, or will, every session in the map    *)
(* (manager.go:234-251).                                                    *)
THEOREM NobodyMissed == Spec => []AllReached
<1>1. IInv => AllReached
  BY DEF IInv, Structure, ThreadsFit, ThreadFits, Reaches, ReaderPcs,
     AllReached, Threads
<1> QED
  BY <1>1, Invariance, PTL

(* WaitForSession waits in vain for a connected session only when its       *)
(* connected event came between the look at the map and the registration    *)
(* of the handler (manager.go:304-331).                                     *)
THEOREM GapIsTheOnlyMiss == Spec => []WaitMissesOnlyTheGap
<1>1. IInv => WaitMissesOnlyTheGap
  <2> SUFFICES ASSUME IInv, NEW g \in Callers, At(g, "waiting")
               PROVE  LET id == sessions[thread[g].name]
                      IN  \/ id = None
                          \/ status[id] # "Connected"
                          \/ ConnectUnderWay(id)
                          \/ g \in gap
    BY DEF WaitMissesOnlyTheGap
  <2>1. thread[g].op = "wait" /\ thread[g].name \in Names
    BY DEF At, Threads, IInv, Structure, ThreadsFit, ThreadFits, OpFits,
       CallOps
  <2>2. Known(g, thread[g].name)
    BY <2>1 DEF At, IInv, WaitsFit, Waits
  <2> QED
    BY <2>2 DEF Known, Awaited, At
<1> QED
  BY <1>1, Invariance, PTL

-----------------------------------------------------------------------------
(* Who holds a lock or waits to write is where the code holds it or waits,  *)
(* and events are emitted from a few places only.                           *)
EmitPcs == {"connect", "insert", "delete", "unlock", "disconnectAll", "end",
            "attempt"}

Holders ==
    /\ mWriter # None => thread[mWriter].pc \in WriterPcs
    /\ mPending # None => thread[mPending].pc = "locking"
    /\ \A g \in mReaders : thread[g].pc \in ReaderPcs
    /\ emPending # None => /\ emPending \in Threads
                           /\ thread[emPending].pc = "registering"
    /\ \A g \in Threads :
         /\ thread[g].pc = "registering" => emPending = g
         /\ thread[g].emits # <<>> => thread[g].pc \in EmitPcs

LEMMA PlainHolders ==
    ASSUME Structure, Holders, NEW g \in Threads, Plain(g)
    PROVE  Holders'
<1> DEFINE t == thread[g]
<1> USE DEF Holders, WriterPcs, ReaderPcs, At, Goes, Returns, Idle, locks,
            mLock, emLock, others, Goroutines
<1>1. /\ thread \in [Threads -> Goroutines] /\ LocksFit /\ OpFits(t)
      /\ \A h \in Threads \ {g} : thread'[h] = thread[h]
      /\ thread' \in [Threads -> Goroutines] /\ thread'[g].emits = <<>>
      /\ \A h \in Threads : h # None
      /\ mWriter \in Threads \cup {None} /\ mPending \in Threads \cup {None}
      /\ mReaders \subseteq Threads
  BY PlainThread, Absent DEF Structure, Shapes, ThreadsFit, ThreadFits, Threads
<1>2. CASE LockAnnounce(g)
  <2>1. /\ t.pc = "lock" /\ mWriter = None /\ mPending' = g
        /\ UNCHANGED <<mWriter, mReaders, emPending>>
        /\ thread'[g].pc = "locking"
    BY <1>1, <1>2 DEF LockAnnounce, MCanRead
  <2> QED
    BY <1>1, <2>1
<1>3. CASE LockAcquire(g)
  <2>1. /\ t.pc = "locking" /\ t.op \in {"add", "remove"}
        /\ mReaders = {} /\ mPending' = None /\ mWriter' = g
        /\ UNCHANGED <<mReaders, emPending>> /\ thread'[g].pc = t.op
    BY <1>1, <1>3 DEF LockAcquire, OpFits
  <2> QED
    BY <1>1, <2>1
<1>4. CASE Unlock(g)
  <2>1. /\ t.pc = "unlock" /\ mWriter' = None /\ thread'[g].pc = "idle"
        /\ UNCHANGED <<mPending, mReaders, emPending>>
    BY <1>1, <1>4 DEF Unlock
  <2> QED
    BY <1>1, <2>1
<1>5. CASE AddRefused(g) \/ RemoveUnknown(g)
  <2>1. /\ t.pc \in {"add", "remove"} /\ thread'[g].pc = "unlock"
        /\ UNCHANGED <<mWriter, mPending, mReaders, emPending>>
    BY <1>1, <1>5 DEF AddRefused, RemoveUnknown
  <2> QED
    BY <1>1, <2>1
<1>6. CASE AllLocks(g)
  <2>1. /\ t.pc = "rlock" /\ thread'[g].pc \in {"all", "disconnectAll"}
        /\ mReaders' = mReaders \cup {g}
        /\ UNCHANGED <<mWriter, mPending, emPending>>
    BY <1>1, <1>6 DEF AllLocks, ForEach
  <2> QED
    BY <1>1, <2>1
<1>7. CASE AllUnlocks(g)
  <2>1. /\ t.pc \in {"all", "disconnectAll"} /\ thread'[g].pc = "idle"
        /\ mReaders' = mReaders \ {g}
        /\ UNCHANGED <<mWriter, mPending, emPending>>
    BY <1>1, <1>7 DEF AllUnlocks
  <2> QED
    BY <1>1, <2>1
<1>8. CASE Answered(g)
  <2>1. /\ t.pc = "answer" /\ thread'[g].pc = "all"
        /\ UNCHANGED <<mWriter, mPending, mReaders, emPending>>
    BY <1>1, <1>8 DEF Answered, AllAnswered, AllAbandoned
  <2> QED
    BY <1>1, <2>1
<1>9. ASSUME NEW id \in Ids, AllAsks(g, id) PROVE Holders'
  <2>1. /\ t.pc = "all" /\ thread'[g].pc \in {"all", "answer"}
        /\ UNCHANGED <<mWriter, mPending, mReaders, emPending>>
    BY <1>1, <1>9 DEF AllAsks, Visit
  <2> QED
    BY <1>1, <2>1
<1>10. CASE Get(g) \/ WaitLooks(g) \/ WaitEnds(g) \/ CallbackEnds(g)
  <2>1. /\ t.pc \in {"get", "look", "waiting", "signalled", "end"}
        /\ thread'[g].pc \in {"look", "on", "idle"}
        /\ UNCHANGED <<mWriter, mPending, mReaders, emPending>>
    BY <1>1, <1>10 DEF Get, WaitLooks, WaitEnds, CallbackEnds
  <2> QED
    BY <1>1, <2>1
<1>11. CASE OnAnnounce(g)
  <2>1. /\ t.pc = "on" /\ thread'[g].pc = "registering"
        /\ emPending = None /\ emPending' = g
        /\ UNCHANGED <<mWriter, mPending, mReaders>>
    BY <1>1, <1>11 DEF OnAnnounce, EmCanRead
  <2> QED
    BY <1>1, <2>1
<1>12. CASE OnRegisters(g)
  <2>1. /\ t.pc = "registering" /\ thread'[g].pc \in {"waiting", "idle"}
        /\ emPending' = None
        /\ UNCHANGED <<mWriter, mPending, mReaders>>
    BY <1>1, <1>12 DEF OnRegisters
  <2> QED
    BY <1>1, <2>1
<1> QED
  BY <1>2, <1>3, <1>4, <1>5, <1>6, <1>7, <1>8, <1>9, <1>10, <1>11, <1>12
  DEF Plain, WaitForSession

(* Whoever deals with a session stays where it keeps its lock.              *)
LEMMA WorkStays ==
    ASSUME Structure, NEW g \in Threads, Working(g)
    PROVE  /\ thread[g].pc \in WriterPcs => thread'[g].pc \in WriterPcs
           /\ thread[g].pc \in ReaderPcs => thread'[g].pc \in ReaderPcs
           /\ thread[g].pc \notin {"locking", "registering"}
           /\ thread'[g].pc # "registering"
           /\ thread'[g].emits # <<>> => thread'[g].pc \in EmitPcs
<1> DEFINE t == thread[g]
<1> USE DEF WriterPcs, ReaderPcs, EmitPcs, At, Goes, GoesEmitting, Returns,
            Idle, Goroutines
<1>1. thread \in [Threads -> Goroutines]
  BY DEF Structure, Shapes
<1>2. ASSUME NEW id \in Ids, AddConnects(g, id)
      PROVE  t.pc = "add" /\ thread'[g].pc = "connect"
  BY <1>1, <1>2 DEF AddConnects
<1>3. ASSUME NEW ok \in BOOLEAN, ConnectAnswered(g, ok)
      PROVE  /\ t.pc = "connect" /\ thread'[g].pc \in {"connected", "refused"}
             /\ thread'[g].emits = <<>>
  BY <1>1, <1>3 DEF ConnectAnswered
<1>4. CASE ConnectReturns(g)
  <2>1. t.pc \in {"connected", "refused"} /\ thread'[g].pc = "insert"
    BY <1>1, <1>4 DEF ConnectReturns
  <2> QED
    BY <2>1
<1>5. CASE AddInserts(g)
  <2>1. t.pc = "insert" /\ thread'[g].pc = "unlock"
    BY <1>1, <1>5 DEF AddInserts
  <2> QED
    BY <2>1
<1>6. CASE Removes(g)
  <2>1. t.pc \in {"remove", "delete"} /\ thread'[g].pc \in {"delete", "unlock"}
    BY <1>1, <1>6 DEF Removes, RemoveDisconnects, RemoveDeletes
  <2> QED
    BY <2>1
<1>7. ASSUME NEW id \in Ids, AllDisconnects(g, id)
      PROVE  t.pc = "disconnectAll" /\ thread'[g].pc = "disconnectAll"
  BY <1>1, <1>7 DEF AllDisconnects, Visit
<1>8. ASSUME NEW op, NEW id, NEW new, NEW pc \in {"end", "attempt"}, NEW e,
             CallbackRuns(g, op, id, new, pc, e)
      PROVE  t.pc = "idle" /\ thread'[g].pc \in {"end", "attempt"}
  BY <1>1, <1>8 DEF CallbackRuns
<1>9. ASSUME NEW ok \in BOOLEAN, Reconnects(g, ok)
      PROVE  /\ t.pc = "attempt" /\ thread'[g].pc = "idle"
             /\ thread'[g].emits = <<>>
  BY <1>1, <1>9 DEF Reconnects
<1>10. ASSUME NEW op \in CallOps, NEW n \in Names, Call(g, op, n)
       PROVE  /\ t.pc = "idle" /\ thread'[g].emits = <<>>
              /\ thread'[g].pc \in {"lock", "get", "rlock", "on"}
  <2>1. /\ t.pc = "idle" /\ thread'[g].emits = <<>>
        /\ thread'[g].pc = FirstStep[op]
    BY <1>1, <1>10 DEF Call
  <2> QED
    BY <2>1, FirstSteps DEF CallOps
<1>11. CASE CallsBack(g)
  BY <1>8, <1>9, <1>11 DEF CallsBack, Callback, HandleConnect,
     HandleConnectionLost, HandleReconnecting
<1>12. CASE Starts(g)
  BY <1>10, <1>12, FirstSteps DEF Starts
<1> QED
  BY <1>2, <1>3, <1>4, <1>5, <1>6, <1>7, <1>11, <1>12
  DEF Working, Adds, Disconnects

LEMMA NextHolders ==
    ASSUME Structure, Holders, Next
    PROVE  Holders'
<1>1. /\ thread \in [Threads -> Goroutines]
      /\ mWriter \in Threads \cup {None} /\ mPending \in Threads \cup {None}
      /\ mReaders \subseteq Threads
  BY DEF Structure, Shapes, Threads
<1>2. ASSUME UNCHANGED <<mLock, emPending>>,
             \A h \in Threads :
               /\ thread[h].pc \in WriterPcs => thread'[h].pc \in WriterPcs
               /\ thread[h].pc \in ReaderPcs => thread'[h].pc \in ReaderPcs
               /\ thread[h].pc = "locking" => thread'[h].pc = "locking"
               /\ thread[h].pc = "registering" <=> thread'[h].pc = "registering"
               /\ thread'[h].emits # <<>> => thread'[h].pc \in EmitPcs
      PROVE  Holders'
  BY <1>1, <1>2 DEF Holders, mLock
<1>3. ASSUME NEW g \in Threads, Working(g) PROVE Holders'
  <2>1. \A h \in Threads \ {g} : thread'[h] = thread[h]
    BY <1>3, AddThread, RemoveThread, StartThread DEF Working, Changes
  <2>2. \A h \in Threads : thread[h].emits # <<>> => thread[h].pc \in EmitPcs
    BY DEF Holders
  <2>3. UNCHANGED <<mLock, emPending>>
    BY <1>3, WorkPcs DEF emLock
  <2> QED
    BY <1>2, <1>3, <2>1, <2>2, <2>3, WorkStays
<1>4. ASSUME NEW g \in Threads, Delivering(g) PROVE Holders'
  <2>1. UNCHANGED <<mLock, emPending>>
    BY <1>4 DEF Delivering, Emit, EmitEnds, locks, emLock
  <2>2. ASSUME NEW h \in Threads
        PROVE  /\ \/ thread'[h].pc = thread[h].pc
                  \/ thread[h].pc = "waiting" /\ thread'[h].pc = "signalled"
               /\ thread'[h].emits # <<>> => thread'[h].pc \in EmitPcs
    <3>1. /\ thread[h] \in Goroutines
          /\ thread[h].emits # <<>> => thread[h].pc \in EmitPcs
      BY <1>1 DEF Holders
    <3>2. \/ thread'[h] = thread[h]
          \/ thread'[h] = [thread[h] EXCEPT !.emits = <<>>]
          \/ /\ thread[h].pc = "waiting"
             /\ thread'[h] = [thread[h] EXCEPT !.pc = "signalled"]
      BY <1>4, DeliverThread
    <3> QED
      BY <3>1, <3>2 DEF Goroutines, EmitPcs
  <2> QED
    BY <1>2, <2>1, <2>2 DEF WriterPcs, ReaderPcs
<1>5. ASSUME \/ \E g \in Threads : EmitBegins(g)
             \/ \E id \in Ids : \/ ConnectionLost(id) \/ MessageArrives(id)
                                \/ MessageHandled(id)
      PROVE  Holders'
  <2>1. UNCHANGED <<mLock, emPending, thread>>
    BY <1>5 DEF EmitBegins, ConnectionLost, MessageArrives, MessageHandled,
       locks, emLock
  <2> QED
    BY <1>2, <2>1 DEF Holders
<1> QED
  BY <1>3, <1>4, <1>5, PlainHolders, NextIs

(* As long as no handler calls the manager, no goroutines wait for each     *)
(* other in a circle: a goroutine waits for a lock only behind ones that    *)
(* are at work and further on, in the order m.mu to read or to announce a   *)
(* writer, m.mu to write, em.mu (manager.go:104-121, event.go:11-25).      *)
THEOREM NobodyWaitsInCircle == Spec => []NoCircularWait
<1>1. Init => Holders
  BY DEF Init, Holders, Idle
<1>2. IInv /\ Holders /\ [Next]_vars => Holders'
  <2>1. Structure /\ Holders /\ Next => Holders'
    BY NextHolders
  <2>2. Holders /\ UNCHANGED vars => Holders'
    BY DEF Holders, vars, others, locks, mLock, emLock
  <2> QED
    BY <2>1, <2>2 DEF IInv
<1>3. IInv /\ Holders => NoCircularWait
  <2> SUFFICES ASSUME Structure, Holders, asking = {}, NEW g \in Threads,
                      NEW h \in WaitsFor(g)
               PROVE  Busy(h) /\ Rank(thread[h]) < Rank(thread[g])
    BY DEF NoCircularWait, IInv
  <2> DEFINE t == thread[g]
  <2>1. /\ emReaders = {}
        /\ \A k \in Threads : k # None
    BY Absent DEF Structure, Shapes, ThreadsFit, ThreadFits
  <2>2. CASE t.emits # <<>> \/ t.pc = "on"
    <3>1. /\ thread[h].pc = "registering" /\ h = emPending /\ h \in Threads
          /\ thread[h].emits = <<>>
      BY <2>1, <2>2 DEF WaitsFor, Holders, EmitPcs
    <3>2. Rank(thread[h]) = 0 /\ Rank(t) = 1
      BY <2>2, <3>1 DEF Rank, Holders, EmitPcs
    <3> QED
      BY <3>1, <3>2 DEF Busy
  <2>3. CASE t.emits = <<>> /\ t.pc \in {"lock", "rlock", "get"}
    <3>1. thread[h].pc \in WriterPcs \cup {"locking"}
      BY <2>1, <2>3 DEF WaitsFor, Holders
    <3>2. Rank(thread[h]) \in {0, 1, 2} /\ Rank(t) = 3
      BY <2>3, <3>1 DEF Rank, WriterPcs
    <3> QED
      BY <3>1, <3>2 DEF Busy, WriterPcs
  <2>4. CASE t.emits = <<>> /\ t.pc = "locking"
    <3>1. thread[h].pc \in ReaderPcs
      BY <2>1, <2>4 DEF WaitsFor, Holders
    <3>2. Rank(thread[h]) \in {0, 1} /\ Rank(t) = 2
      BY <2>4, <3>1 DEF Rank, ReaderPcs
    <3> QED
      BY <3>1, <3>2 DEF Busy, ReaderPcs
  <2> QED
    BY <2>1, <2>2, <2>3, <2>4 DEF WaitsFor
<1> QED
  BY <1>1, <1>2, <1>3, Invariance, PTL DEF Spec

=============================================================================
