------------------------------ MODULE Registry ------------------------------
(***************************************************************************)
(* The ForwarderRegistry (forwarder.go:229-343) over forwarders that share *)
(* one source session, while holders of a Forwarder, which Register and    *)
(* Get return, Start and Stop it on their own.  Forwarder.tla has what one *)
(* forwarder does between Start and Stop; here a forwarder is what its     *)
(* calls do to the client's routes, a topic at a time.                     *)
(*                                                                         *)
(* sfr.mu is held by a call of the registry from its first line to its     *)
(* last, sf.mu by a Start or Stop.  StopAll holds sfr.mu for reading: a    *)
(* second StopAll at the same time is a holder's Stop of each forwarder.   *)
(***************************************************************************)
EXTENDS Naturals, FiniteSets

CONSTANTS
    Names, Topics,
    Forwarders,   \* Forwarder objects, one for each Register
    None

ASSUME NoneAssumption == None \notin Forwarders

VARIABLES
    forwarders,   \* sfr.forwarders
    call,         \* the registry's call: its name, the forwarders it has yet
                  \* to stop, and the one whose Start or Stop it is in
    config,       \* the SourceTopics of each forwarder, {} before it is made
    running, stopped,
    busy,         \* the call that holds each sf.mu: "none", "start" or "stop"
    todo,         \* topics it has yet to subscribe or unsubscribe
    routes,       \* the forwarder each topic of the client leads to
    \* auxiliary
    handed,       \* forwarders the program has got hold of
    astray,       \* those that went wrong in a way the code does not undo
    late          \* those whose Start began after StopAll was past them

registry == <<forwarders, call>>
state == <<config, running, stopped>>
locks == <<busy, todo>>
aux == <<handed, astray, late>>
vars == <<registry, state, locks, routes, aux>>

NoCall == [op |-> "none", name |-> None, todo |-> {}, at |-> None]
Registered == {forwarders[n] : n \in Names} \ {None}
IsFree(f) == busy[f] = "none"

Init ==
    /\ forwarders = [n \in Names |-> None]
    /\ call = NoCall
    /\ config = [f \in Forwarders |-> {}]
    /\ running = {} /\ stopped = {}
    /\ busy = [f \in Forwarders |-> "none"]
    /\ todo = [f \in Forwarders |-> {}]
    /\ routes = [t \in Topics |-> None]
    /\ handed = {} /\ astray = {} /\ late = {}

-----------------------------------------------------------------------------
(* Start and Stop, for the registry and for a holder.                       *)
Begin(f, op, topics) ==
    /\ busy' = [busy EXCEPT ![f] = op]
    /\ todo' = [todo EXCEPT ![f] = topics]

End(f) ==
    /\ busy' = [busy EXCEPT ![f] = "none"]
    /\ todo' = [todo EXCEPT ![f] = {}]

StartSubscribes(f, t) ==
    /\ busy[f] = "start" /\ t \in todo[f]
    /\ routes' = [routes EXCEPT ![t] = f]
    /\ todo' = [todo EXCEPT ![f] = @ \ {t}]
    /\ UNCHANGED <<registry, state, busy, aux>>

(* A subscription fails, before its route is set or after; what was         *)
(* subscribed stays so.  Register then returns without its forwarder.       *)
StartFails(f) ==
    /\ busy[f] = "start" /\ todo[f] # {}
    /\ \/ UNCHANGED routes
       \/ \E t \in todo[f] : routes' = [routes EXCEPT ![t] = f]
    /\ End(f)
    /\ call' = IF call.at = f THEN NoCall ELSE call
    /\ astray' = astray \cup {f}
    /\ UNCHANGED <<forwarders, state, handed, late>>

StartReturns(f) ==
    /\ busy[f] = "start" /\ todo[f] = {}
    /\ running' = running \cup {f}
    /\ End(f)
    /\ IF call.at = f
         THEN /\ forwarders' = [forwarders EXCEPT ![call.name] = f]
              /\ call' = NoCall
              /\ handed' = handed \cup {f}
         ELSE UNCHANGED <<registry, handed>>
    /\ UNCHANGED <<config, stopped, routes, astray, late>>

Stoppable(f) == f \in running \ stopped

StopBegins(f) ==
    /\ running' = running \ {f}
    /\ stopped' = stopped \cup {f}
    /\ Begin(f, "stop", config[f])

(* Whoever the route leads to; an error is not looked at, the route stays.  *)
StopUnsubscribes(f, t) ==
    /\ busy[f] = "stop" /\ t \in todo[f]
    /\ \/ routes' = [routes EXCEPT ![t] = None] /\ UNCHANGED astray
       \/ UNCHANGED routes /\ astray' = astray \cup {f}
    /\ todo' = [todo EXCEPT ![f] = @ \ {t}]
    /\ UNCHANGED <<registry, state, busy, handed, late>>

StopReturns(f) ==
    /\ busy[f] = "stop" /\ todo[f] = {}
    /\ End(f)
    /\ call' = IF call.at = f THEN [call EXCEPT !.at = None] ELSE call
    /\ UNCHANGED <<forwarders, state, routes, aux>>

-----------------------------------------------------------------------------
(* A name that is taken and a config without topics are refused.            *)
Register(n, topics, enabled) ==
    /\ call = NoCall
    /\ forwarders[n] = None
    /\ topics # {}
    /\ \E f \in Forwarders :
         /\ config[f] = {}
         /\ config' = [config EXCEPT ![f] = topics]
         /\ IF enabled
              THEN /\ call' = [NoCall EXCEPT !.op = "register", !.name = n,
                                             !.at = f]
                   /\ Begin(f, "start", topics)
                   /\ UNCHANGED <<forwarders, handed>>
              ELSE /\ forwarders' = [forwarders EXCEPT ![n] = f]
                   /\ handed' = handed \cup {f}
                   /\ UNCHANGED <<call, locks>>
    /\ UNCHANGED <<running, stopped, routes, astray, late>>

(* Variant: the forwarder is deleted and not stopped.                       *)
UnregisterOnly(n) ==
    /\ call = NoCall
    /\ forwarders[n] # None
    /\ forwarders' = [forwarders EXCEPT ![n] = None]
    /\ UNCHANGED <<call, state, locks, routes, aux>>

Unregister(n) ==
    /\ call = NoCall
    /\ forwarders[n] # None
    /\ call' = [NoCall EXCEPT !.op = "unregister", !.name = n,
                              !.todo = {forwarders[n]}]
    /\ UNCHANGED <<forwarders, state, locks, routes, aux>>

StopAll ==
    /\ call = NoCall
    /\ call' = [NoCall EXCEPT !.op = "stopall", !.todo = Registered]
    /\ late' = {}
    /\ UNCHANGED <<forwarders, state, locks, routes, handed, astray>>

(* Variant: a forwarder is looked at without its lock.                      *)
CallStopsUnlocked(f) ==
    /\ call.at = None /\ f \in call.todo
    /\ \/ /\ IsFree(f) /\ Stoppable(f)
          /\ StopBegins(f)
          /\ call' = [call EXCEPT !.todo = @ \ {f}, !.at = f]
       \/ /\ ~Stoppable(f)
          /\ call' = [call EXCEPT !.todo = @ \ {f}]
          /\ UNCHANGED <<running, stopped, locks>>
    /\ UNCHANGED <<forwarders, config, routes, aux>>

(* Stop of the next one, when sf.mu is free.  StopAll asks IsRunning first, *)
(* which answers what Stop would find.                                      *)
CallStops(f) ==
    /\ call.at = None /\ f \in call.todo
    /\ IsFree(f)
    /\ IF Stoppable(f)
         THEN /\ StopBegins(f)
              /\ call' = [call EXCEPT !.todo = @ \ {f}, !.at = f]
         ELSE /\ call' = [call EXCEPT !.todo = @ \ {f}]
              /\ UNCHANGED <<running, stopped, locks>>
    /\ UNCHANGED <<forwarders, config, routes, aux>>

CallReturns ==
    /\ call.op \in {"unregister", "stopall"}
    /\ call.todo = {} /\ call.at = None
    /\ forwarders' = IF call.op = "unregister"
                       THEN [forwarders EXCEPT ![call.name] = None]
                       ELSE forwarders
    /\ call' = NoCall
    /\ UNCHANGED <<state, locks, routes, aux>>

-----------------------------------------------------------------------------
(* A holder's own calls.                                                    *)
Leaving == {f \in Registered :
              /\ call.op = "unregister"
              /\ forwarders[call.name] = f
              /\ f \notin call.todo}

HolderStart(f) ==
    /\ f \in handed \ running
    /\ IsFree(f)
    /\ Begin(f, "start", config[f])
    /\ astray' = IF f \in stopped \cup Leaving \/ f \notin Registered
                   THEN astray \cup {f} ELSE astray
    /\ late' = IF call.op = "stopall" /\ f \notin call.todo
                 THEN late \cup {f} ELSE late
    /\ UNCHANGED <<registry, state, routes, handed>>

HolderStop(f) ==
    /\ f \in handed
    /\ IsFree(f)
    /\ Stoppable(f)
    /\ StopBegins(f)
    /\ UNCHANGED <<registry, config, routes, aux>>

-----------------------------------------------------------------------------
Next ==
    \/ \E n \in Names :
         \/ \E topics \in SUBSET Topics, enabled \in BOOLEAN :
                Register(n, topics, enabled)
         \/ Unregister(n)
    \/ StopAll \/ CallReturns
    \/ \E f \in Forwarders :
         \/ CallStops(f) \/ HolderStart(f) \/ HolderStop(f)
         \/ StartFails(f) \/ StartReturns(f) \/ StopReturns(f)
         \/ \E t \in Topics : StartSubscribes(f, t) \/ StopUnsubscribes(f, t)

Spec == Init /\ [][Next]_vars

-----------------------------------------------------------------------------
(* A topic leads to a forwarder that runs and that the registry knows, so   *)
(* that Unregister and StopAll can end it, once no call is in it: but for a *)
(* Start that failed half-way (forwarder.go:84), an Unsubscribe that failed *)
(* (forwarder.go:119), and a Start by a holder of a forwarder that was      *)
(* stopped, or is unregistered or past the Stop of an Unregister.           *)
RoutedIsKnown ==
    \A t \in Topics :
      LET f == routes[t]
      IN  f \in Forwarders /\ IsFree(f)
            => f \in running \cap Registered \/ f \in astray

(* When StopAll returns, what the registry knows does not run, even what a  *)
(* holder was starting as StopAll came by (forwarder.go:334-343); but for a *)
(* Start that began later, and one of a stopped forwarder, which no Stop    *)
(* ends any more (forwarder.go:101).                                        *)
StopAllStops ==
    [][call.op = "stopall" /\ call' = NoCall
         => Registered \cap running' \subseteq late \cup stopped]_vars

=============================================================================
