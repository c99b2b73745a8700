--------------------------- MODULE Registry_proofs ---------------------------
(***************************************************************************)
(* Proofs about Registry, for any names, topics and forwarders.            *)
(***************************************************************************)
EXTENDS Registry, TLAPS

-----------------------------------------------------------------------------
(* The parts of the inductive invariant.                                    *)
Shapes ==
    /\ forwarders \in [Names -> Forwarders \cup {None}]
    /\ call \in [op : {"none", "register", "unregister", "stopall"},
                 name : Names \cup {None}, todo : SUBSET Forwarders,
                 at : Forwarders \cup {None}]
    /\ config \in [Forwarders -> SUBSET Topics]
    /\ busy \in [Forwarders -> {"none", "start", "stop"}]
    /\ todo \in [Forwarders -> SUBSET Topics]
    /\ routes \in [Topics -> Forwarders \cup {None}]

(* What the registry's call is about.                                       *)
CallIsClear ==
    /\ call.op = "none" => call = NoCall
    /\ call.op \in {"register", "unregister"} => call.name \in Names
    /\ call.op = "register"
         => /\ forwarders[call.name] = None
            /\ call.at \in Forwarders \ (running \cup stopped)
    /\ call.op = "unregister" =>
         LET f == forwarders[call.name]
         IN  /\ f \in Forwarders
             /\ call.todo \subseteq {f} /\ call.at \in {f, None}
    /\ call.at \in Forwarders =>
         busy[call.at] = IF call.op = "register" THEN "start" ELSE "stop"

(* A forwarder that was not made has done nothing.                          *)
MadeFirst ==
    /\ \A f \in Forwarders :
         config[f] = {} =>
           /\ f \notin Registered \cup handed \cup running \cup stopped
           /\ busy[f] = "none"
    /\ \A f \in Forwarders : todo[f] \subseteq config[f]
    /\ \A t \in Topics : routes[t] \in Forwarders => t \in config[routes[t]]

(* A holder starts what the registry keeps until the Start has returned.    *)
StartsAreKnown ==
    \A f \in Forwarders \ astray :
      /\ busy[f] = "start" /\ call.at # f
           => f \in Registered /\ f \notin Leaving /\ f \notin stopped
      /\ f \in running
           => f \in Registered /\ f \notin Leaving /\ f \notin stopped

(* What no call is in is known; what is being stopped still has that to do. *)
RoutesAreOwned ==
    \A t \in Topics :
      LET f == routes[t]
      IN  f \in Forwarders \ astray =>
            \/ busy[f] = "none" /\ f \in running
            \/ busy[f] = "start"
            \/ busy[f] = "stop" /\ t \in todo[f]

(* StopAll is past only what does not run, but for later Starts.            *)
PastIsStopped ==
    call.op = "stopall" =>
      \A f \in Registered \ call.todo :
        f \in running \/ busy[f] = "start" => f \in late \cup stopped

IInv ==
    /\ Shapes /\ CallIsClear /\ MadeFirst
    /\ StartsAreKnown /\ RoutesAreOwned /\ PastIsStopped

-----------------------------------------------------------------------------
LEMMA InitIInv == Init => IInv
  BY NoneAssumption
  DEF Init, IInv, Shapes, CallIsClear, MadeFirst, StartsAreKnown,
      RoutesAreOwned, PastIsStopped, NoCall, Registered, Leaving

LEMMA StartSubscribesKeeps ==
    ASSUME IInv, NEW f \in Forwarders, NEW t \in Topics, StartSubscribes(f, t)
    PROVE  IInv'
<1> USE NoneAssumption DEF IInv, Shapes, StartSubscribes, registry, state,
        locks, aux, NoCall, Registered, IsFree
<1>1. Shapes'
  BY DEF Shapes
<1>2. CallIsClear'
  BY DEF CallIsClear, MadeFirst
<1>3. MadeFirst'
  BY DEF MadeFirst, CallIsClear
<1>4. StartsAreKnown'
  BY DEF StartsAreKnown, CallIsClear, MadeFirst, Leaving
<1>5. RoutesAreOwned'
  BY DEF RoutesAreOwned, MadeFirst, CallIsClear
<1>6. PastIsStopped'
  BY DEF PastIsStopped, CallIsClear, MadeFirst
<1> QED BY <1>1, <1>2, <1>3, <1>4, <1>5, <1>6

LEMMA StartFailsKeeps ==
    ASSUME IInv, NEW f \in Forwarders, StartFails(f)
    PROVE  IInv'
<1> USE NoneAssumption DEF IInv, Shapes, StartFails, registry, state,
        locks, aux, End, NoCall, Registered, IsFree
<1>1. Shapes'
  BY DEF Shapes
<1>2. CallIsClear'
  BY DEF CallIsClear, MadeFirst
<1>3. MadeFirst'
  BY DEF MadeFirst, CallIsClear
<1>4. StartsAreKnown'
  BY DEF StartsAreKnown, CallIsClear, MadeFirst, Leaving
<1>5. RoutesAreOwned'
  BY DEF RoutesAreOwned, MadeFirst, CallIsClear
<1>6. PastIsStopped'
  BY DEF PastIsStopped, CallIsClear, MadeFirst
<1> QED BY <1>1, <1>2, <1>3, <1>4, <1>5, <1>6

LEMMA StartReturnsKeeps ==
    ASSUME IInv, NEW f \in Forwarders, StartReturns(f)
    PROVE  IInv'
<1> USE NoneAssumption DEF IInv, Shapes, StartReturns, registry, state,
        locks, aux, End, NoCall, Registered, IsFree
<1>1. Shapes'
  BY DEF Shapes
<1>2. CallIsClear'
  BY DEF CallIsClear, MadeFirst
<1>3. MadeFirst'
  BY DEF MadeFirst, CallIsClear
<1>4. StartsAreKnown'
  BY DEF StartsAreKnown, CallIsClear, MadeFirst, Leaving
<1>5. RoutesAreOwned'
  BY DEF RoutesAreOwned, MadeFirst, CallIsClear
<1>6. PastIsStopped'
  BY DEF PastIsStopped, CallIsClear, MadeFirst
<1> QED BY <1>1, <1>2, <1>3, <1>4, <1>5, <1>6

LEMMA StopUnsubscribesKeeps ==
    ASSUME IInv, NEW f \in Forwarders, NEW t \in Topics, StopUnsubscribes(f, t)
    PROVE  IInv'
<1> USE NoneAssumption DEF IInv, Shapes, StopUnsubscribes, registry, state,
        locks, aux, NoCall, Registered, IsFree
<1>1. Shapes'
  BY DEF Shapes
<1>2. CallIsClear'
  BY DEF CallIsClear, MadeFirst
<1>3. MadeFirst'
  BY DEF MadeFirst, CallIsClear
<1>4. StartsAreKnown'
  BY DEF StartsAreKnown, CallIsClear, MadeFirst, Leaving
<1>5. RoutesAreOwned'
  BY DEF RoutesAreOwned, MadeFirst, CallIsClear
<1>6. PastIsStopped'
  BY DEF PastIsStopped, CallIsClear, MadeFirst
<1> QED BY <1>1, <1>2, <1>3, <1>4, <1>5, <1>6

LEMMA StopReturnsKeeps ==
    ASSUME IInv, NEW f \in Forwarders, StopReturns(f)
    PROVE  IInv'
<1> USE NoneAssumption DEF IInv, Shapes, StopReturns, registry, state,
        locks, aux, End, NoCall, Registered, IsFree
<1>1. Shapes'
  BY DEF Shapes
<1>2. CallIsClear'
  <2>1. CASE call.at = f
    <3>1. call' = [call EXCEPT !.at = None] /\ call.op # "register"
      BY <2>1 DEF CallIsClear
    <3>2. /\ call'.op = call.op /\ call'.name = call.name
          /\ call'.todo = call.todo /\ call'.at = None
      BY <3>1
    <3>3. forwarders' = forwarders /\ call.op # "none"
      BY <2>1 DEF CallIsClear
    <3> QED BY <3>1, <3>2, <3>3 DEF CallIsClear
  <2>2. CASE call.at # f
    BY <2>2 DEF CallIsClear
  <2> QED BY <2>1, <2>2
<1>3. MadeFirst'
  BY DEF MadeFirst, CallIsClear
<1>4. StartsAreKnown'
  BY DEF StartsAreKnown, CallIsClear, MadeFirst, Leaving
<1>5. RoutesAreOwned'
  BY DEF RoutesAreOwned, MadeFirst, CallIsClear
<1>6. PastIsStopped'
  BY DEF PastIsStopped, CallIsClear, MadeFirst
<1> QED BY <1>1, <1>2, <1>3, <1>4, <1>5, <1>6

LEMMA RegisterKeeps ==
    ASSUME IInv, NEW n \in Names, NEW topics \in SUBSET Topics,
           NEW enabled \in BOOLEAN, Register(n, topics, enabled)
    PROVE  IInv'
<1> USE NoneAssumption DEF IInv, Shapes, registry, state,
        locks, aux, Begin, NoCall, Registered, IsFree
<1>1. PICK f \in Forwarders :
        /\ config[f] = {}
        /\ config' = [config EXCEPT ![f] = topics]
        /\ IF enabled
             THEN /\ call' = [NoCall EXCEPT !.op = "register", !.name = n,
                                            !.at = f]
                  /\ Begin(f, "start", topics)
                  /\ UNCHANGED <<forwarders, handed>>
             ELSE /\ forwarders' = [forwarders EXCEPT ![n] = f]
                  /\ handed' = handed \cup {f}
                  /\ UNCHANGED <<call, locks>>
  BY DEF Register
<1>2. /\ call = NoCall /\ forwarders[n] = None /\ topics # {}
      /\ UNCHANGED <<running, stopped, routes, astray, late>>
  BY DEF Register
<1>3. /\ f \notin Registered \cup handed \cup running \cup stopped
      /\ busy[f] = "none"
      /\ \A t \in Topics : routes[t] # f
  BY <1>1 DEF MadeFirst
<1>4. CASE enabled
  <2>1. /\ call' = [op |-> "register", name |-> n, todo |-> {}, at |-> f]
        /\ busy' = [busy EXCEPT ![f] = "start"]
        /\ todo' = [todo EXCEPT ![f] = topics]
        /\ UNCHANGED <<forwarders, handed>>
    BY <1>1, <1>4
  <2> HIDE DEF Begin
  <2>2. Shapes'
    BY <1>1, <1>2, <2>1
  <2>3. CallIsClear'
    BY <1>1, <1>2, <1>3, <2>1 DEF CallIsClear
  <2>4. MadeFirst'
    BY <1>1, <1>2, <1>3, <2>1 DEF MadeFirst
  <2>5. StartsAreKnown'
    BY <1>1, <1>2, <1>3, <2>1 DEF StartsAreKnown, Leaving
  <2>6. RoutesAreOwned'
    BY <1>1, <1>2, <1>3, <2>1 DEF RoutesAreOwned
  <2>7. PastIsStopped'
    BY <1>1, <1>2, <1>3, <2>1 DEF PastIsStopped
  <2> QED BY <2>2, <2>3, <2>4, <2>5, <2>6, <2>7
<1>5. CASE ~enabled
  <2>1. /\ forwarders' = [forwarders EXCEPT ![n] = f]
        /\ handed' = handed \cup {f}
        /\ UNCHANGED <<call, locks>>
    BY <1>1, <1>5
  <2> HIDE DEF Begin
  <2>2. Shapes'
    BY <1>1, <1>2, <2>1
  <2>3. CallIsClear'
    BY <1>1, <1>2, <1>3, <2>1 DEF CallIsClear
  <2>4. MadeFirst'
    BY <1>1, <1>2, <1>3, <2>1 DEF MadeFirst
  <2>5. StartsAreKnown'
    BY <1>1, <1>2, <1>3, <2>1 DEF StartsAreKnown, Leaving
  <2>6. RoutesAreOwned'
    BY <1>1, <1>2, <1>3, <2>1 DEF RoutesAreOwned
  <2>7. PastIsStopped'
    BY <1>1, <1>2, <1>3, <2>1 DEF PastIsStopped
  <2> QED BY <2>2, <2>3, <2>4, <2>5, <2>6, <2>7
<1> QED BY <1>4, <1>5

LEMMA UnregisterKeeps ==
    ASSUME IInv, NEW n \in Names, Unregister(n)
    PROVE  IInv'
<1> USE NoneAssumption DEF IInv, Shapes, Unregister, registry, state,
        locks, aux, NoCall, Registered, IsFree
<1>1. Shapes'
  <2>1. forwarders[n] \in Forwarders /\ n \in Names \cup {None}
    BY DEF Shapes
  <2>2. call' = [op |-> "unregister", name |-> n, todo |-> {forwarders[n]},
                 at |-> None]
    OBVIOUS
  <2> QED BY <2>1, <2>2 DEF Shapes
<1>2. CallIsClear'
  BY DEF CallIsClear, MadeFirst
<1>3. MadeFirst'
  BY DEF MadeFirst, CallIsClear
<1>4. StartsAreKnown'
  BY DEF StartsAreKnown, CallIsClear, MadeFirst, Leaving
<1>5. RoutesAreOwned'
  BY DEF RoutesAreOwned, MadeFirst, CallIsClear
<1>6. PastIsStopped'
  BY DEF PastIsStopped, CallIsClear, MadeFirst
<1> QED BY <1>1, <1>2, <1>3, <1>4, <1>5, <1>6

LEMMA StopAllKeeps ==
    ASSUME IInv, StopAll
    PROVE  IInv'
<1> USE NoneAssumption DEF IInv, Shapes, StopAll, registry, state,
        locks, aux, NoCall, Registered, IsFree
<1>a. Registered \subseteq Forwarders
  BY DEF Shapes
<1>1. Shapes'
  BY <1>a DEF Shapes
<1>2. CallIsClear'
  BY <1>a DEF CallIsClear, MadeFirst
<1>3. MadeFirst'
  BY <1>a DEF MadeFirst, CallIsClear
<1>4. StartsAreKnown'
  BY <1>a DEF StartsAreKnown, CallIsClear, MadeFirst, Leaving
<1>5. RoutesAreOwned'
  BY <1>a DEF RoutesAreOwned, MadeFirst, CallIsClear
<1>6. PastIsStopped'
  BY <1>a DEF PastIsStopped, CallIsClear, MadeFirst
<1> QED BY <1>1, <1>2, <1>3, <1>4, <1>5, <1>6

LEMMA CallStopsKeeps ==
    ASSUME IInv, NEW f \in Forwarders, CallStops(f)
    PROVE  IInv'
<1> USE NoneAssumption DEF IInv, Shapes, CallStops, registry, state,
        locks, aux, StopBegins, Stoppable, Begin, NoCall, Registered, IsFree
<1>a. config[f] \in SUBSET Topics
  BY DEF Shapes
<1>b. call.todo \in SUBSET Forwarders
  BY <1>a DEF Shapes
<1>c. call' =
         [call EXCEPT !.todo = call.todo \ {f},
                      !.at = IF f \in running \ stopped THEN f ELSE call.at]
  BY <1>a, <1>b DEF Shapes
<1>d. call' \in [op : {"none", "register", "unregister", "stopall"},
                   name : Names \cup {None}, todo : SUBSET Forwarders,
                   at : Forwarders \cup {None}]
  BY <1>a, <1>b, <1>c DEF Shapes
<1>e. /\ call'.op = call.op /\ call'.name = call.name
         /\ call'.todo = call.todo \ {f}
         /\ call'.at = IF f \in running \ stopped THEN f ELSE None
  BY <1>a, <1>b, <1>c, <1>d DEF Shapes
<1>f. call.op \in {"unregister", "stopall"}
  BY <1>a, <1>b, <1>c, <1>d, <1>e DEF Shapes, CallIsClear
<1>1. Shapes'
  BY <1>a, <1>b, <1>c, <1>d, <1>e, <1>f
  DEF Shapes
<1>2. CallIsClear'
  BY <1>a, <1>b, <1>c, <1>d, <1>e, <1>f
  DEF CallIsClear, MadeFirst
<1>3. MadeFirst'
  BY <1>a, <1>b, <1>c, <1>d, <1>e, <1>f
  DEF MadeFirst, CallIsClear
<1>4. StartsAreKnown'
  BY <1>a, <1>b, <1>c, <1>d, <1>e, <1>f
  DEF StartsAreKnown, CallIsClear, MadeFirst, Leaving
<1>5. RoutesAreOwned'
  BY <1>a, <1>b, <1>c, <1>d, <1>e, <1>f
  DEF RoutesAreOwned, MadeFirst, CallIsClear
<1>6. PastIsStopped'
  BY <1>a, <1>b, <1>c, <1>d, <1>e, <1>f
  DEF PastIsStopped, CallIsClear, MadeFirst
<1> QED BY <1>1, <1>2, <1>3, <1>4, <1>5, <1>6

LEMMA CallReturnsKeeps ==
    ASSUME IInv, CallReturns
    PROVE  IInv'
<1> USE NoneAssumption DEF IInv, Shapes, CallReturns, registry, state,
        locks, aux, NoCall, Registered, IsFree
<1>1. Shapes'
  BY DEF Shapes
<1>2. CallIsClear'
  BY DEF CallIsClear, MadeFirst
<1>3. MadeFirst'
  BY DEF MadeFirst, CallIsClear
<1>4. StartsAreKnown'
  BY DEF StartsAreKnown, CallIsClear, MadeFirst, Leaving
<1>5. RoutesAreOwned'
  BY DEF RoutesAreOwned, MadeFirst, CallIsClear
<1>6. PastIsStopped'
  BY DEF PastIsStopped, CallIsClear, MadeFirst
<1> QED BY <1>1, <1>2, <1>3, <1>4, <1>5, <1>6

LEMMA HolderStartKeeps ==
    ASSUME IInv, NEW f \in Forwarders, HolderStart(f)
    PROVE  IInv'
<1> USE NoneAssumption DEF IInv, Shapes, HolderStart, registry, state,
        locks, aux, Begin, NoCall, Registered, IsFree
<1>a. config[f] \in SUBSET Topics
  BY DEF Shapes
<1>1. Shapes'
  BY <1>a DEF Shapes
<1>2. CallIsClear'
  BY <1>a DEF CallIsClear, MadeFirst
<1>3. MadeFirst'
  BY <1>a DEF MadeFirst, CallIsClear
<1>4. StartsAreKnown'
  BY <1>a DEF StartsAreKnown, CallIsClear, MadeFirst, Leaving
<1>5. RoutesAreOwned'
  BY <1>a DEF RoutesAreOwned, MadeFirst, CallIsClear
<1>6. PastIsStopped'
  BY <1>a DEF PastIsStopped, CallIsClear, MadeFirst
<1> QED BY <1>1, <1>2, <1>3, <1>4, <1>5, <1>6

LEMMA HolderStopKeeps ==
    ASSUME IInv, NEW f \in Forwarders, HolderStop(f)
    PROVE  IInv'
<1> USE NoneAssumption DEF IInv, Shapes, HolderStop, registry, state,
        locks, aux, StopBegins, Stoppable, Begin, NoCall, Registered, IsFree
<1>a. config[f] \in SUBSET Topics
  BY DEF Shapes
<1>1. Shapes'
  BY <1>a DEF Shapes
<1>2. CallIsClear'
  BY <1>a DEF CallIsClear, MadeFirst
<1>3. MadeFirst'
  BY <1>a DEF MadeFirst, CallIsClear
<1>4. StartsAreKnown'
  BY <1>a DEF StartsAreKnown, CallIsClear, MadeFirst, Leaving
<1>5. RoutesAreOwned'
  BY <1>a DEF RoutesAreOwned, MadeFirst, CallIsClear
<1>6. PastIsStopped'
  BY <1>a DEF PastIsStopped, CallIsClear, MadeFirst
<1> QED BY <1>1, <1>2, <1>3, <1>4, <1>5, <1>6

-----------------------------------------------------------------------------
LEMMA NextKeeps == IInv /\ [Next]_vars => IInv'
<1> SUFFICES ASSUME IInv, [Next]_vars PROVE IInv'
  OBVIOUS
<1>1. CASE Next
  BY <1>1, RegisterKeeps, UnregisterKeeps, StopAllKeeps, CallReturnsKeeps,
     CallStopsKeeps, HolderStartKeeps, HolderStopKeeps, StartFailsKeeps,
     StartReturnsKeeps, StopReturnsKeeps, StartSubscribesKeeps,
     StopUnsubscribesKeeps
  DEF Next
<1>2. CASE UNCHANGED vars
  BY <1>2 DEF vars, registry, state, locks, aux, IInv, Shapes, CallIsClear,
     MadeFirst, StartsAreKnown, RoutesAreOwned, PastIsStopped, Registered,
     Leaving
<1> QED BY <1>1, <1>2

LEMMA Invariance == Spec => []IInv
  BY InitIInv, NextKeeps, PTL DEF Spec

(* A topic leads to no forwarder that the registry cannot end, but for the  *)
(* failures and the late Starts of holders that RoutedIsKnown names         *)
(* (forwarder.go:66-122, 245-293).                                          *)
THEOREM RoutesAreKnown == Spec => []RoutedIsKnown
<1>1. IInv => RoutedIsKnown
  BY DEF IInv, RoutesAreOwned, StartsAreKnown, RoutedIsKnown, IsFree
<1> QED BY <1>1, Invariance, PTL

(* StopAll leaves nothing running that it met running, or being started     *)
(* (forwarder.go:333-343).                                                  *)
THEOREM StopAllIsThorough == Spec => StopAllStops
<1>1. ASSUME IInv, Next, call.op = "stopall", call' = NoCall
      PROVE  Registered \cap running' \subseteq late \cup stopped
  <2>1. /\ call # NoCall
        /\ \A f \in Forwarders : call.at = f => busy[f] = "stop"
        /\ call \in [op : {"none", "register", "unregister", "stopall"},
                     name : Names \cup {None}, todo : SUBSET Forwarders,
                     at : Forwarders \cup {None}]
    BY <1>1 DEF IInv, Shapes, CallIsClear, NoCall
  <2>2. ASSUME NEW f \in Forwarders
        PROVE  ~StartFails(f) /\ ~StartReturns(f)
    BY <1>1, <2>1 DEF StartFails, StartReturns, registry
  <2>3. ASSUME NEW f \in Forwarders
        PROVE  ~StopReturns(f) /\ ~CallStops(f)
    <3>1. [call EXCEPT !.at = None].op = "stopall"
      BY <1>1, <2>1
    <3>2. /\ [call EXCEPT !.todo = @ \ {f}].op = "stopall"
          /\ [call EXCEPT !.todo = @ \ {f}, !.at = f].op = "stopall"
      BY <1>1, <2>1
    <3> QED BY <1>1, <2>1, <3>1, <3>2 DEF StopReturns, CallStops, NoCall
  <2>4. ASSUME NEW f \in Forwarders, NEW t \in Topics
        PROVE  ~StartSubscribes(f, t) /\ ~StopUnsubscribes(f, t)
    BY <1>1, <2>1 DEF StartSubscribes, StopUnsubscribes, registry
  <2>5. ASSUME NEW f \in Forwarders
        PROVE  ~HolderStart(f) /\ ~HolderStop(f)
    BY <1>1, <2>1 DEF HolderStart, HolderStop, registry
  <2>6. CallReturns
    BY <1>1, <2>1, <2>2, <2>3, <2>4, <2>5
    DEF Next, Register, Unregister, StopAll
  <2> QED BY <1>1, <2>6 DEF CallReturns, IInv, PastIsStopped, state
<1>2. IInv /\ [Next]_vars
        => [call.op = "stopall" /\ call' = NoCall
              => Registered \cap running' \subseteq late \cup stopped]_vars
  BY <1>1
<1> QED BY <1>2, Invariance, PTL DEF Spec, StopAllStops

=============================================================================
