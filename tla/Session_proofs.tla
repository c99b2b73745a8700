---------------------------- MODULE Session_proofs ----------------------------
(***************************************************************************)
(* The safety properties of Session, for all options and all bounds.       *)
(***************************************************************************)
EXTENDS Session, TLAPS

(* Who can be running in which state of the client.                         *)
ClientShape ==
    /\ opener = "waiting" <=> client = "connecting"
    /\ opener \in {"start", "failed"} => client = "down"
    /\ opener \in {"start", "waiting", "failed"} =>
         /\ connectCalls = 0 /\ connectedCalls = 0 /\ lostCalls = 0
         /\ reconnector = "idle" /\ reconnectCount = 0
    /\ reconnector # "idle" => client \in {"reconnecting", "closed"}
    /\ client = "reconnecting" => autoReconnect /\ reconnector # "idle"
    /\ closer # "none" => opener = "returned" /\ client \in {"down", "closed"}
    /\ client = "closed" => closer # "none"

(* StatusAgrees with the writes still pending named, state by state: the    *)
(* only writers left are those that write what the connection is.           *)
Agreement ==
    ~overtaken =>
      /\ opener = "waiting" => status = "Connecting"
      /\ client = "up" =>
           /\ lostCalls = 0
           /\ status = "Connected" \/ connectCalls > 0 \/ opener = "succeeded"
      /\ client = "reconnecting" =>
           /\ opener = "returned" /\ connectCalls = 0
           /\ \/ status \in {"Disconnected", "Reconnecting"}
              \/ reconnector = "announce"
      /\ client = "closed" =>
           /\ connectCalls = 0 /\ lostCalls = 0 /\ reconnector # "announce"
           /\ closer = "closed" => status = "Closed"
      /\ client = "down" =>
           /\ opener # "succeeded" /\ connectCalls = 0
           /\ opener = "returned" /\ closer = "none" =>
                status = "Disconnected" \/ lostCalls > 0
           /\ closer # "none" => lostCalls = 0
           /\ closer = "closing" => status = "Disconnected"
           /\ closer = "closed" => status = "Closed"

IInv ==
    /\ TypeOK
    /\ ClientShape
    /\ Agreement
    /\ ReconnectingIsAnswered
    /\ BackoffForgotten
    /\ IntervalBounded

(* The scaled interval is a number, whatever the factor.                    *)
LEMMA ScaledNat == ASSUME NEW i \in Nat PROVE Scaled(i) \in Nat
<1>1. i * FactorNum \in Nat
  BY OptionsAssumption
<1> QED
  BY <1>1, OptionsAssumption DEF Scaled

(* A change that leaves the session up to date found it up to date.         *)
LEMMA NotOvertaken ==
    ASSUME ConnectionChanges, ~overtaken'
    PROVE  ~overtaken /\ ~Pending
  BY Zenon DEF ConnectionChanges

LEMMA InitIInv == Init => IInv
<1> SUFFICES ASSUME Init PROVE IInv
  OBVIOUS
<1> USE DEF Init
<1>1. TypeOK
  <2>1. autoReconnect \in BOOLEAN /\ overtaken \in BOOLEAN
    BY Zenon
  <2>2. drops \in 0..MaxDrops
    BY BoundsAssumption
  <2> QED
    BY <2>1, <2>2, OptionsAssumption DEF TypeOK, Statuses
<1>2. ClientShape
  BY DEF ClientShape
<1>3. Agreement
  BY DEF Agreement
<1>4. ReconnectingIsAnswered /\ BackoffForgotten /\ IntervalBounded
  BY OptionsAssumption
     DEF ReconnectingIsAnswered, BackoffForgotten, IntervalBounded
<1> QED
  BY <1>1, <1>2, <1>3, <1>4 DEF IInv

(* The variables are typed after every step; the interval is the one that   *)
(* takes an argument.                                                       *)
LEMMA NextTypeOK == TypeOK /\ [Next]_vars => TypeOK'
<1> SUFFICES ASSUME TypeOK, [Next]_vars PROVE TypeOK'
  OBVIOUS
<1> USE OptionsAssumption, BoundsAssumption
    DEF TypeOK, Statuses, vars, backoff, calls, network, sessionVars,
        clientVars, ConnectionChanges
<1>1. CASE Opening
  BY <1>1 DEF Opening, ConnectStart, ClientConnected, ClientRefused,
              ConnectReturn
<1>2. CASE ConnectionBreaks
  BY <1>2 DEF ConnectionBreaks
<1>3. CASE HandleReconnecting
  BY <1>3 DEF HandleReconnecting
<1>4. CASE CountAttempt
  BY <1>4, ScaledNat DEF CountAttempt
<1>5. CASE ReconnectSucceeds
  BY <1>5 DEF ReconnectSucceeds
<1>6. CASE ReconnectFails
  BY <1>6 DEF ReconnectFails
<1>7. CASE HandleConnect
  BY <1>7 DEF HandleConnect
<1>8. CASE ResetBackoff
  BY <1>8 DEF ResetBackoff
<1>9. CASE HandleConnectionLost
  BY <1>9 DEF HandleConnectionLost
<1>10. CASE DisconnectClient \/ DisconnectReturn
  BY <1>10 DEF DisconnectClient, DisconnectReturn
<1>11. CASE UNCHANGED vars
  BY <1>11
<1> QED
  BY <1>1, <1>2, <1>3, <1>4, <1>5, <1>6, <1>7, <1>8, <1>9, <1>10, <1>11
     DEF Next, Reconnecting

(* Every step keeps the rest, given the types.                              *)
LEMMA NextIInv == IInv /\ [Next]_vars => IInv'
<1> SUFFICES ASSUME IInv, [Next]_vars PROVE IInv'
  OBVIOUS
<1>0. TypeOK'
  BY NextTypeOK DEF IInv
<1> DEFINE Rest == /\ ClientShape /\ Agreement /\ ReconnectingIsAnswered
                   /\ BackoffForgotten /\ IntervalBounded
<1> SUFFICES Rest'
  BY <1>0 DEF IInv
<1> USE OptionsAssumption
    DEF IInv, TypeOK, Statuses, ClientShape, Agreement,
        ReconnectingIsAnswered, BackoffForgotten, IntervalBounded, vars,
        backoff, calls, network, sessionVars, clientVars, Pending,
        ClientIsConnected
<1>1. CASE ConnectStart
  BY <1>1 DEF ConnectStart
<1>2. CASE ClientConnected
  BY <1>2 DEF ClientConnected
<1>3. CASE ClientRefused
  BY <1>3 DEF ClientRefused
<1>4. CASE ConnectReturn
  BY <1>4 DEF ConnectReturn
<1>5. CASE ConnectionBreaks
  <2>1. ~overtaken' => ~overtaken /\ ~Pending
    BY <1>5, NotOvertaken DEF ConnectionBreaks
  <2> QED
    BY <1>5, <2>1 DEF ConnectionBreaks
<1>6. CASE HandleReconnecting
  BY <1>6 DEF HandleReconnecting
<1>7. CASE CountAttempt
  BY <1>7, ScaledNat DEF CountAttempt
<1>8. CASE ReconnectSucceeds
  <2>1. ~overtaken' => ~overtaken /\ ~Pending
    BY <1>8, NotOvertaken DEF ReconnectSucceeds
  <2> QED
    BY <1>8, <2>1 DEF ReconnectSucceeds
<1>9. CASE ReconnectFails
  BY <1>9 DEF ReconnectFails
<1>10. CASE HandleConnect
  BY <1>10 DEF HandleConnect
<1>11. CASE ResetBackoff
  BY <1>11 DEF ResetBackoff
<1>12. CASE HandleConnectionLost
  BY <1>12 DEF HandleConnectionLost
<1>13. CASE DisconnectClient
  <2>1. ~overtaken' => ~overtaken /\ ~Pending
    BY <1>13, NotOvertaken DEF DisconnectClient
  <2> QED
    BY <1>13, <2>1 DEF DisconnectClient
<1>14. CASE DisconnectReturn
  BY <1>14 DEF DisconnectReturn
<1>15. CASE UNCHANGED vars
  BY <1>15
<1> QED
  BY <1>1, <1>2, <1>3, <1>4, <1>5, <1>6, <1>7, <1>8, <1>9, <1>10, <1>11,
     <1>12, <1>13, <1>14, <1>15
     DEF Next, Opening, Reconnecting

(* The invariant holds in every reachable state.                            *)
THEOREM Invariance == Spec => []IInv
  BY InitIInv, NextIInv, PTL DEF Spec

(* The types hold for all options.                                          *)
THEOREM TypeCorrect == Spec => []TypeOK
  BY Invariance, PTL DEF IInv

(* The status agrees with the client whenever no change of the connection   *)
(* overtook the report of an earlier one: the race is the only way for them *)
(* to differ, whatever the number of losses and attempts.                   *)
THEOREM StatusAgreement == Spec => []StatusAgrees
<1>1. IInv => StatusAgrees
  BY DEF IInv, TypeOK, ClientShape, Agreement, StatusAgrees, Pending
<1> QED
  BY <1>1, Invariance, PTL

(* A session that says it is reconnecting over a client that is connected   *)
(* has a handleConnect to come.                                             *)
THEOREM ReconnectingAnswered == Spec => []ReconnectingIsAnswered
  BY Invariance, PTL DEF IInv

(* Each outage starts its backoff afresh.                                   *)
THEOREM Backoff == Spec => []BackoffForgotten
  BY Invariance, PTL DEF IInv

(* The interval never exceeds both the initial one and the maximum.         *)
THEOREM BackoffBounded == Spec => []IntervalBounded
  BY Invariance, PTL DEF IInv

=============================================================================
