------------------------------- MODULE Session -------------------------------
(***************************************************************************)
(* The life of one session (session.go) beside the MQTT client it drives.  *)
(*                                                                         *)
(* The session keeps its own status, an atomic that connect(), Disconnect()*)
(* and three callbacks of the client write without looking at it first.    *)
(* The client (paho, outside this repository) has a state of its own and   *)
(* calls back from goroutines it spawns: OnConnect once per connection,    *)
(* OnConnectionLost once per loss, both free to run late; OnReconnecting   *)
(* synchronously, before each attempt of its reconnect loop.               *)
(*                                                                         *)
(* AddSession holds the manager's lock until connect() has returned, so    *)
(* nobody can call Disconnect() on the session before.                     *)
(***************************************************************************)
EXTENDS Integers

CONSTANTS
    InitialInterval,  \* ConnectProps.InitialReconnectInterval
    MaxInterval,      \* ConnectProps.MaxReconnectInterval
    FactorNum,        \* ConnectProps.BackoffFactor is
    FactorDen,        \*   FactorNum / FactorDen
    MaxDrops,         \* bound: connections the network breaks
    MaxAttempts       \* bound: reconnectCount above which no attempt fails

(* What Options.Validate leaves in the options: no more than this.          *)
ASSUME OptionsAssumption ==
    /\ InitialInterval \in Nat \ {0}
    /\ MaxInterval \in Nat \ {0}
    /\ FactorNum \in Nat \ {0}
    /\ FactorDen \in Nat \ {0}

ASSUME BoundsAssumption == MaxDrops \in Nat /\ MaxAttempts \in Nat

VARIABLES
    \* the session
    autoReconnect,   \* ConnectProps.AutoReconnect, never changed
    status,          \* s.status
    reconnectCount,  \* s.reconnectCount
    nextReconnect,   \* s.nextReconnect
    opener,          \* where connect() is, on the goroutine of AddSession
    closer,          \* where Disconnect() is
    \* the client
    client,          \* its connection
    reconnector,     \* its reconnect loop
    connectCalls,    \* OnConnect goroutines that have not run yet
    connectedCalls,  \* those between setState and the reset of the backoff
    lostCalls,       \* OnConnectionLost goroutines that have not run yet
    drops,           \* connections lost so far
    \* auxiliary: the connection changed before the session had heard of
    \* its last change
    overtaken

backoff == <<reconnectCount, nextReconnect>>
calls == <<connectCalls, connectedCalls, lostCalls>>
network == <<autoReconnect, drops>>
sessionVars == <<status, backoff, opener, closer>>
clientVars == <<client, reconnector, calls, network>>
vars == <<sessionVars, clientVars, overtaken>>

Statuses == {"Disconnected", "Connecting", "Connected", "Reconnecting",
             "Closed"}

-----------------------------------------------------------------------------
(* Somebody has yet to write a status for a change of the connection.       *)
Pending ==
    \/ opener \in {"succeeded", "failed"}
    \/ reconnector = "announce"
    \/ connectCalls > 0
    \/ lostCalls > 0

(* Every action that changes the connection says so with this.              *)
ConnectionChanges == overtaken' = (overtaken \/ Pending)

(* client.IsConnected of paho: true while it reconnects, too.               *)
ClientIsConnected ==
    client = "up" \/ (autoReconnect /\ client = "reconnecting")

Scaled(interval) == (interval * FactorNum) \div FactorDen

Init ==
    /\ autoReconnect \in BOOLEAN
    /\ status = "Disconnected"
    /\ reconnectCount = 0
    /\ nextReconnect = InitialInterval
    /\ opener = "start"
    /\ closer = "none"
    /\ client = "down"
    /\ reconnector = "idle"
    /\ connectCalls = 0
    /\ connectedCalls = 0
    /\ lostCalls = 0
    /\ drops = 0
    /\ overtaken = FALSE

-----------------------------------------------------------------------------
(* connect(): announce, ask the client to connect, wait for the token, and  *)
(* write the outcome.  The wait is three steps of two goroutines.           *)
ConnectStart ==
    /\ opener = "start"
    /\ status' = "Connecting"
    /\ client' = "connecting"
    /\ opener' = "waiting"
    /\ UNCHANGED <<network, backoff, closer, reconnector, calls, overtaken>>

(* The client spawns OnConnect and only then completes the token.           *)
ClientConnected ==
    /\ client = "connecting"
    /\ client' = "up"
    /\ connectCalls' = connectCalls + 1
    /\ opener' = "succeeded"
    /\ UNCHANGED <<network, status, backoff, closer, reconnector,
                   connectedCalls, lostCalls, overtaken>>

ClientRefused ==
    /\ client = "connecting"
    /\ client' = "down"
    /\ opener' = "failed"
    /\ UNCHANGED <<network, status, backoff, closer, reconnector, calls,
                   overtaken>>

(* Variant: connect() that does not look at the token's error.              *)
ConnectReturnUnchecked ==
    /\ opener \in {"succeeded", "failed"}
    /\ status' = "Connected"
    /\ opener' = "returned"
    /\ UNCHANGED <<backoff, closer, clientVars, overtaken>>

ConnectReturn ==
    /\ \/ opener = "succeeded" /\ status' = "Connected"
       \/ opener = "failed" /\ status' = "Disconnected"
    /\ opener' = "returned"
    /\ UNCHANGED <<backoff, closer, clientVars, overtaken>>

-----------------------------------------------------------------------------
(* The network breaks the connection: the client spawns OnConnectionLost    *)
(* and, when it may reconnect, its reconnect loop.                          *)
ConnectionBreaks ==
    /\ client = "up"
    /\ drops < MaxDrops
    /\ drops' = drops + 1
    /\ lostCalls' = lostCalls + 1
    /\ IF autoReconnect
         THEN client' = "reconnecting" /\ reconnector' = "announce"
         ELSE client' = "down" /\ UNCHANGED reconnector
    /\ ConnectionChanges
    /\ UNCHANGED <<autoReconnect, sessionVars, connectCalls, connectedCalls>>

(* handleReconnecting: the status first,                                    *)
HandleReconnecting ==
    /\ reconnector = "announce"
    /\ status' = "Reconnecting"
    /\ reconnector' = "backoff"
    /\ UNCHANGED <<network, backoff, opener, closer, client, calls,
                   overtaken>>

(* Variant: the interval grows without its cap.                             *)
CountAttemptUncapped ==
    /\ reconnector = "backoff"
    /\ reconnectCount' = reconnectCount + 1
    /\ nextReconnect' = IF reconnectCount = 0 \/ nextReconnect = 0
                          THEN InitialInterval ELSE Scaled(nextReconnect)
    /\ reconnector' = "attempt"
    /\ UNCHANGED <<network, status, opener, closer, client, calls, overtaken>>

(* then, under reconnectMu, the attempt is counted and the interval grows.  *)
CountAttempt ==
    /\ reconnector = "backoff"
    /\ reconnectCount' = reconnectCount + 1
    /\ nextReconnect' =
         IF reconnectCount = 0 \/ nextReconnect = 0 THEN InitialInterval
         ELSE IF Scaled(nextReconnect) > MaxInterval THEN MaxInterval
         ELSE Scaled(nextReconnect)
    /\ reconnector' = "attempt"
    /\ UNCHANGED <<network, status, opener, closer, client, calls, overtaken>>

ReconnectSucceeds ==
    /\ reconnector = "attempt"
    /\ client = "reconnecting"
    /\ client' = "up"
    /\ reconnector' = "idle"
    /\ connectCalls' = connectCalls + 1
    /\ ConnectionChanges
    /\ UNCHANGED <<network, sessionVars, connectedCalls, lostCalls>>

(* A failed attempt, or one the client abandons as it is being closed.      *)
ReconnectFails ==
    /\ reconnector = "attempt"
    /\ reconnectCount < MaxAttempts \/ client = "closed"
    /\ reconnector' = IF client = "reconnecting" THEN "announce" ELSE "idle"
    /\ UNCHANGED <<network, sessionVars, client, calls, overtaken>>

-----------------------------------------------------------------------------
(* Variant: a handleConnect that leaves the status to connect().            *)
HandleConnectNoStatus ==
    /\ connectCalls > 0
    /\ connectCalls' = connectCalls - 1
    /\ connectedCalls' = connectedCalls + 1
    /\ UNCHANGED <<network, backoff, status, opener, closer, client,
                   reconnector, lostCalls, overtaken>>

(* handleConnect, on a goroutine of its own: the status first,              *)
HandleConnect ==
    /\ connectCalls > 0
    /\ status' = "Connected"
    /\ connectCalls' = connectCalls - 1
    /\ connectedCalls' = connectedCalls + 1
    /\ UNCHANGED <<network, backoff, opener, closer, client, reconnector,
                   lostCalls, overtaken>>

(* Variant: the count is reset and the interval is not.                     *)
ResetCountOnly ==
    /\ connectedCalls > 0
    /\ reconnectCount' = 0
    /\ connectedCalls' = connectedCalls - 1
    /\ UNCHANGED <<network, nextReconnect, status, opener, closer, client,
                   reconnector, connectCalls, lostCalls, overtaken>>

(* then, under reconnectMu, the backoff is forgotten.                       *)
ResetBackoff ==
    /\ connectedCalls > 0
    /\ reconnectCount' = 0
    /\ nextReconnect' = 0
    /\ connectedCalls' = connectedCalls - 1
    /\ UNCHANGED <<network, status, opener, closer, client, reconnector,
                   connectCalls, lostCalls, overtaken>>

(* handleConnectionLost, on a goroutine of its own.                         *)
HandleConnectionLost ==
    /\ lostCalls > 0
    /\ status' = "Disconnected"
    /\ lostCalls' = lostCalls - 1
    /\ UNCHANGED <<network, backoff, opener, closer, client, reconnector,
                   connectCalls, connectedCalls, overtaken>>

-----------------------------------------------------------------------------
(* Disconnect(): the client is closed if it says it is connected; callbacks *)
(* under way are not waited for.                                            *)
DisconnectClient ==
    /\ opener = "returned"
    /\ closer = "none"
    /\ client' = IF ClientIsConnected THEN "closed" ELSE client
    /\ closer' = "closing"
    /\ ConnectionChanges
    /\ UNCHANGED <<network, status, backoff, opener, reconnector, calls>>

DisconnectReturn ==
    /\ closer = "closing"
    /\ status' = "Closed"
    /\ closer' = "closed"
    /\ UNCHANGED <<backoff, opener, clientVars, overtaken>>

-----------------------------------------------------------------------------
Opening == ConnectStart \/ ClientConnected \/ ClientRefused \/ ConnectReturn

Reconnecting ==
    HandleReconnecting \/ CountAttempt \/ ReconnectSucceeds \/ ReconnectFails

Next ==
    \/ Opening
    \/ ConnectionBreaks
    \/ Reconnecting
    \/ HandleConnect
    \/ ResetBackoff
    \/ HandleConnectionLost
    \/ DisconnectClient
    \/ DisconnectReturn

Spec == Init /\ [][Next]_vars

(* Every goroutine that can run does; nobody has to call Disconnect and     *)
(* the network does not have to break.                                      *)
FairSpec ==
    /\ Spec
    /\ WF_vars(Opening)
    /\ WF_vars(Reconnecting)
    /\ SF_vars(ReconnectSucceeds)
    /\ WF_vars(HandleConnect)
    /\ WF_vars(ResetBackoff)
    /\ WF_vars(HandleConnectionLost)
    /\ WF_vars(DisconnectReturn)

-----------------------------------------------------------------------------
TypeOK ==
    /\ autoReconnect \in BOOLEAN
    /\ status \in Statuses
    /\ reconnectCount \in Nat
    /\ nextReconnect \in Nat
    /\ opener \in {"start", "waiting", "succeeded", "failed", "returned"}
    /\ closer \in {"none", "closing", "closed"}
    /\ client \in {"down", "connecting", "up", "reconnecting", "closed"}
    /\ reconnector \in {"idle", "announce", "backoff", "attempt"}
    /\ connectCalls \in Nat
    /\ connectedCalls \in Nat
    /\ lostCalls \in Nat
    /\ drops \in 0..MaxDrops
    /\ overtaken \in BOOLEAN

(* As long as every change of the connection found the session up to date,  *)
(* the status is the connection's as soon as the callbacks have run: the    *)
(* unguarded writes of connect(), the callbacks and Disconnect() go wrong   *)
(* only when a change overtakes the report of the one before.               *)
StatusAgrees ==
    ~overtaken /\ ~Pending =>
        CASE client = "connecting" -> status = "Connecting"
          [] client = "up" -> status = "Connected"
          [] client = "reconnecting" -> status \in {"Disconnected",
                                                    "Reconnecting"}
          [] client = "closed" -> closer = "closed" => status = "Closed"
          [] client = "down" -> opener = "returned" =>
                 status = IF closer = "closed" THEN "Closed"
                                               ELSE "Disconnected"

(* A session that says it is reconnecting while its client is connected     *)
(* again is about to be told so.                                            *)
ReconnectingIsAnswered ==
    status = "Reconnecting" /\ client = "up" => connectCalls > 0

(* Once a connection stands and handleConnect has run, the next outage      *)
(* starts its backoff afresh (session.go:243-248).                          *)
BackoffForgotten ==
    client = "up" /\ connectCalls = 0 /\ connectedCalls = 0
        => reconnectCount = 0 /\ nextReconnect = 0

(* The interval is at most MaxReconnectInterval, or is the initial one,     *)
(* which nothing caps (session.go:387-400).                                 *)
IntervalBounded ==
    nextReconnect <= MaxInterval \/ nextReconnect = InitialInterval

(* A session whose client reconnects leaves the status Reconnecting: it     *)
(* says Connected at some time, or it was closed.                           *)
ReconnectingEnds ==
    status = "Reconnecting" ~> (status = "Connected" \/ client = "closed")

=============================================================================
