------------------------- MODULE ErrorRecovery_proofs -------------------------
(***************************************************************************)
(* For any number of callers, any keys and any limit: the count matches    *)
(* the map, and concurrent callers exceed the limit by at most one entry   *)
(* each but the first.                                                     *)
(***************************************************************************)
EXTENDS ErrorRecovery, FiniteSetTheorems, TLAPS

(* The inductive invariant: the named invariants, and what makes the        *)
(* cardinalities numbers.                                                   *)
IInv ==
    /\ TypeOK
    /\ IsFiniteSet(errors)
    /\ CountMatches
    /\ LimitWithConcurrency

(* Replacing one ErrorInfo by another of the same key keeps the types and   *)
(* the keys.                                                                *)
LEMMA InfoReplaced ==
    ASSUME info \in Seq(Info), NEW i \in DOMAIN info, NEW r \in Info,
           r.id = info[i].id, info' = [info EXCEPT ![i] = r]
    PROVE  /\ info' \in Seq(Info)
           /\ DOMAIN info' = DOMAIN info
           /\ \A j \in DOMAIN info : info'[j].id = info[j].id
<1>1. info \in [1..Len(info) -> Info] /\ Len(info) \in Nat
  OBVIOUS
<1>2. info' \in [1..Len(info) -> Info]
  BY <1>1
<1>3. info' \in Seq(Info)
  BY <1>1, <1>2
<1> QED
  BY <1>1, <1>3

(* The callers about to insert are finitely many, and at most all.          *)
LEMMA InsertingFinite ==
    /\ IsFiniteSet(Inserting)
    /\ Cardinality(Inserting) \in Nat
    /\ Cardinality(Callers) \in Nat
    /\ Cardinality(Inserting) <= Cardinality(Callers)
<1>1. Inserting \in SUBSET Callers
  BY DEF Inserting
<1> QED
  BY <1>1, CallersAssumption, FS_Subset, FS_CardinalityType

(* A caller that enters or leaves the last part of RegisterError changes    *)
(* the number of those in it by one.                                        *)
LEMMA EnterInsert ==
    ASSUME NEW t \in Callers, TypeOK, pc[t] # "insert",
           pc' = [pc EXCEPT ![t] = "insert"]
    PROVE  /\ Cardinality(Inserting') = Cardinality(Inserting) + 1
           /\ Cardinality(Inserting') <= Cardinality(Callers)
           /\ Cardinality(Inserting') \in Nat
<1>1. Inserting' = Inserting \cup {t} /\ t \notin Inserting
  BY DEF Inserting, TypeOK
<1>2. Inserting' \in SUBSET Callers
  BY DEF Inserting
<1> QED
  BY <1>1, <1>2, InsertingFinite, CallersAssumption, FS_AddElement, FS_Subset

LEMMA LeaveInsert ==
    ASSUME NEW t \in Callers, TypeOK, pc[t] = "insert",
           pc' = [pc EXCEPT ![t] = "idle"]
    PROVE  Cardinality(Inserting') = Cardinality(Inserting) - 1
<1>1. Inserting' = Inserting \ {t} /\ t \in Inserting
  BY DEF Inserting, TypeOK
<1> QED
  BY <1>1, InsertingFinite, FS_RemoveElement

(* Clearing keeps the count on the map and never grows it.                  *)
LEMMA ClearCounts ==
    ASSUME IInv, Clear
    PROVE  /\ IsFiniteSet(errors')
           /\ errorCount' = Cardinality(errors')
           /\ Cardinality(errors') <= Cardinality(errors)
           /\ errors' \subseteq errors
           /\ errorCount' \in Nat
<1>1. Recovered \in SUBSET errors /\ IsFiniteSet(errors)
  BY DEF Recovered, IInv
<1>2. IsFiniteSet(Recovered) /\ IsFiniteSet(errors')
  BY <1>1, FS_Subset DEF Clear
<1>3. Cardinality(errors' \cup Recovered)
        = Cardinality(errors') + Cardinality(Recovered)
            - Cardinality(errors' \cap Recovered)
  BY <1>2, FS_Union
<1>4. errors' \cup Recovered = errors /\ errors' \cap Recovered = {}
  BY <1>1 DEF Clear
<1>5. Cardinality(errors' \cap Recovered) = 0
  BY <1>4, FS_EmptySet
<1>6. Cardinality(errors') \in Nat /\ Cardinality(Recovered) \in Nat
  BY <1>2, FS_CardinalityType
<1>7. Cardinality(errors' \cup Recovered) = Cardinality(errors)
  BY <1>4, Zenon
<1>8. errorCount = Cardinality(errors)
  BY DEF IInv, CountMatches
<1> QED
  BY <1>1, <1>2, <1>3, <1>5, <1>6, <1>7, <1>8 DEF Clear

(* What the table and the callers leave alone, the bound and the count do.  *)
LEMMA TableUnchanged ==
    ASSUME IInv, UNCHANGED <<errors, errorCount, pc>>
    PROVE  CountMatches' /\ LimitWithConcurrency' /\ IsFiniteSet(errors')
<1>1. Inserting' = Inserting
  BY DEF Inserting
<1>2. Cardinality(Inserting') = Cardinality(Inserting)
  BY <1>1, Zenon
<1> QED
  BY <1>2 DEF IInv, CountMatches, LimitWithConcurrency

LEMMA InitIInv == Init => IInv
<1> SUFFICES ASSUME Init PROVE IInv
  OBVIOUS
<1>1. TypeOK
  BY DEF Init, TypeOK, Categories, Info
<1>2. Inserting = {}
  BY DEF Init, Inserting
<1>3. LimitWithConcurrency
  <2>1. Cardinality(Callers) \in Nat \ {0}
    BY CallersAssumption, FS_CardinalityType, FS_EmptySet
  <2>2. Cardinality(Inserting) = 0 /\ Cardinality(errors) = 0
    BY <1>2, FS_EmptySet DEF Init
  <2> QED
    BY <2>1, <2>2, LimitAssumption DEF LimitWithConcurrency
<1> QED
  BY <1>1, <1>3, FS_EmptySet DEF Init, IInv, CountMatches

(* Every step preserves the invariant: one step of the proof per action,    *)
(* and below it the conjuncts the action can disturb.                       *)
LEMMA NextIInv == IInv /\ [Next]_vars => IInv'
<1> SUFFICES ASSUME IInv, [Next]_vars PROVE IInv'
  OBVIOUS
<1> USE DEF IInv
<1>0. /\ Cardinality(errors) \in Nat
      /\ Cardinality(Inserting) \in Nat
      /\ Cardinality(Callers) \in Nat
      /\ Cardinality(Inserting) <= Cardinality(Callers)
      /\ ErrorLimit \in Nat
  BY InsertingFinite, FS_CardinalityType, LimitAssumption
<1>1. ASSUME NEW t \in Callers, NEW e \in ErrorIDs, RegisterCheck(t, e)
      PROVE  IInv'
  <2> USE <1>1 DEF RegisterCheck
  <2>1. TypeOK'
    BY DEF TypeOK
  <2>2. LimitWithConcurrency'
    <3>1. CASE errorCount >= ErrorLimit
      <4>1. Inserting' = Inserting
        BY <3>1 DEF Inserting, TypeOK
      <4> QED
        BY <4>1 DEF LimitWithConcurrency
    <3>2. CASE ~(errorCount >= ErrorLimit)
      <4>1. Cardinality(Inserting') <= Cardinality(Callers)
        BY <3>2, EnterInsert DEF TypeOK
      <4>2. Cardinality(errors) <= ErrorLimit - 1
        BY <3>2, <1>0 DEF CountMatches
      <4>3. Cardinality(Inserting') \in Nat
        BY <3>2, EnterInsert, <1>0 DEF TypeOK
      <4> QED
        BY <4>1, <4>2, <4>3, <1>0 DEF LimitWithConcurrency
    <3> QED
      BY <3>1, <3>2
  <2> QED
    BY <2>1, <2>2 DEF CountMatches
<1>2. ASSUME NEW t \in Callers, RegisterClear(t)
      PROVE  IInv'
  <2> USE <1>2 DEF RegisterClear
  <2>1. Inserting' = Inserting
    BY DEF Inserting, TypeOK
  <2>2. Cardinality(errors') \in Nat
    BY ClearCounts, FS_CardinalityType
  <2>3. TypeOK'
    BY ClearCounts DEF TypeOK
  <2>4. LimitWithConcurrency'
    BY <1>0, <2>1, <2>2, ClearCounts DEF LimitWithConcurrency
  <2> QED
    BY <2>3, <2>4, ClearCounts DEF CountMatches
<1>3. ASSUME NEW t \in Callers, RegisterEvict(t)
      PROVE  IInv'
  <2>1. /\ Cardinality(Inserting') = Cardinality(Inserting) + 1
        /\ Cardinality(Inserting') <= Cardinality(Callers)
    BY <1>3, EnterInsert DEF RegisterEvict
  <2>2. CASE /\ Cardinality(errors) >= ErrorLimit
             /\ \E i \in Oldest : errors' = errors \ {i}
             /\ errorCount' = errorCount - 1
    <3>1. PICK i \in errors : errors' = errors \ {i}
      BY <2>2 DEF Oldest
    <3>2. /\ IsFiniteSet(errors')
          /\ Cardinality(errors') = Cardinality(errors) - 1
          /\ Cardinality(errors') \in Nat
      BY <3>1, FS_RemoveElement, FS_CardinalityType
    <3>3. CountMatches'
      BY <2>2, <3>2 DEF CountMatches
    <3>4. TypeOK'
      BY <1>3, <2>2, <3>1, <3>2, <3>3 DEF TypeOK, RegisterEvict, CountMatches
    <3>5. LimitWithConcurrency'
      BY <1>0, <2>1, <3>2 DEF LimitWithConcurrency
    <3> QED
      BY <3>2, <3>3, <3>4, <3>5
  <2>3. CASE /\ Cardinality(errors) < ErrorLimit
             /\ UNCHANGED <<errors, errorCount>>
    <3>1. TypeOK'
      BY <1>3, <2>3 DEF TypeOK, RegisterEvict
    <3>2. LimitWithConcurrency'
      BY <1>0, <2>1, <2>3 DEF LimitWithConcurrency
    <3> QED
      BY <1>3, <2>3, <3>1, <3>2 DEF CountMatches, RegisterEvict
  <2> QED
    BY <1>3, <2>2, <2>3 DEF RegisterEvict
<1>4. ASSUME NEW t \in Callers, RegisterAgain(t)
      PROVE  IInv'
  <2> USE <1>4 DEF RegisterAgain, Return
  <2>1. PICK i \in errors : info' = [info EXCEPT ![i].retryCount = @ + 1]
    BY DEF Entry
  <2>2. /\ info' \in Seq(Info)
        /\ DOMAIN info' = DOMAIN info
        /\ \A j \in DOMAIN info : info'[j].id = info[j].id
    <3> DEFINE r == [info[i] EXCEPT !.retryCount = @ + 1]
    <3>1. i \in DOMAIN info /\ info[i] \in Info
      BY DEF TypeOK
    <3>2. r \in Info /\ r.id = info[i].id
      BY <3>1 DEF Info
    <3>3. info' = [info EXCEPT ![i] = r]
      BY <2>1
    <3> QED
      BY <3>1, <3>2, <3>3, InfoReplaced DEF TypeOK
  <2>3. Cardinality(Inserting') = Cardinality(Inserting) - 1
    BY LeaveInsert
  <2>4. TypeOK'
    BY <2>2 DEF TypeOK
  <2>5. LimitWithConcurrency'
    BY <1>0, <2>3 DEF LimitWithConcurrency
  <2> QED
    BY <2>4, <2>5 DEF CountMatches
<1>5. ASSUME NEW t \in Callers, RegisterNew(t)
      PROVE  IInv'
  <2> USE <1>5 DEF RegisterNew, Return
  <2> DEFINE n == Len(info) + 1
  <2>1. arg[t] \in ErrorIDs /\ NewInfo(arg[t]) \in Info
    BY DEF TypeOK, NewInfo, Info
  <2>2. /\ info' \in Seq(Info)
        /\ Len(info') = n
        /\ info'[n] = NewInfo(arg[t])
        /\ \A j \in DOMAIN info : info'[j] = info[j]
        /\ DOMAIN info = 1..Len(info) /\ DOMAIN info' = 1..n
        /\ Len(info) \in Nat
    BY <2>1 DEF TypeOK
  <2>3. n \notin errors
    BY <2>2 DEF TypeOK
  <2>4. /\ IsFiniteSet(errors')
        /\ Cardinality(errors') = Cardinality(errors) + 1
        /\ Cardinality(errors') \in Nat
    BY <2>3, FS_AddElement, FS_CardinalityType
  <2>5. CountMatches'
    BY <2>4 DEF CountMatches
  <2>6. TypeOK'
    BY <2>2, <2>4, <2>5 DEF TypeOK, CountMatches
  <2>7. LimitWithConcurrency'
    <3>1. Cardinality(Inserting') = Cardinality(Inserting) - 1
      BY LeaveInsert
    <3> QED
      BY <1>0, <2>4, <3>1 DEF LimitWithConcurrency
  <2> QED
    BY <2>4, <2>5, <2>6, <2>7
<1>6. ASSUME NEW e \in ErrorIDs, MarkErrorRecovered(e)
      PROVE  IInv'
  <2> USE <1>6 DEF MarkErrorRecovered
  <2>1. PICK i \in errors : info' = [info EXCEPT ![i].recovered = TRUE]
    BY DEF Entry
  <2>2. /\ info' \in Seq(Info)
        /\ DOMAIN info' = DOMAIN info
        /\ \A j \in DOMAIN info : info'[j].id = info[j].id
    <3> DEFINE r == [info[i] EXCEPT !.recovered = TRUE]
    <3>1. i \in DOMAIN info /\ info[i] \in Info
      BY DEF TypeOK
    <3>2. r \in Info /\ r.id = info[i].id
      BY <3>1 DEF Info
    <3>3. info' = [info EXCEPT ![i] = r]
      BY <2>1
    <3> QED
      BY <3>1, <3>2, <3>3, InfoReplaced DEF TypeOK
  <2> QED
    BY <2>2, TableUnchanged DEF TypeOK
<1>7. CASE ClearRecoveredErrors
  <2> USE <1>7 DEF ClearRecoveredErrors
  <2>1. Cardinality(errors') \in Nat
    BY ClearCounts, FS_CardinalityType
  <2>2. TypeOK'
    BY ClearCounts DEF TypeOK
  <2>3. LimitWithConcurrency'
    <3>1. Inserting' = Inserting
      BY DEF Inserting
    <3>2. Cardinality(Inserting') = Cardinality(Inserting)
      BY <3>1, Zenon
    <3> QED
      BY <1>0, <2>1, <3>2, ClearCounts DEF LimitWithConcurrency
  <2> QED
    BY <2>2, <2>3, ClearCounts DEF CountMatches
<1>8. ASSUME NEW c \in Categories, NEW n \in MaxRetryArgs, SetMaxRetries(c, n)
      PROVE  IInv'
  <2>1. TypeOK'
    BY <1>8, BoundsAssumption DEF TypeOK, SetMaxRetries
  <2> QED
    BY <1>8, <2>1, TableUnchanged DEF SetMaxRetries
<1>9. ASSUME NEW i \in DOMAIN info, Recovery(i)
      PROVE  IInv'
  <2>1. /\ info' \in Seq(Info)
        /\ DOMAIN info' = DOMAIN info
        /\ \A j \in DOMAIN info : info'[j].id = info[j].id
    <3>1. info[i] \in Info
      BY DEF TypeOK
    <3>2. PICK r \in Info : r.id = info[i].id /\ info' = [info EXCEPT ![i] = r]
      <4>1. CASE \E found \in BOOLEAN : ExecuteRecovery(i, found)
        <5>1. PICK s \in {"sleeping", "ended"} :
                info' = [info EXCEPT ![i].task = s]
          BY <4>1 DEF ExecuteRecovery
        <5> DEFINE r == [info[i] EXCEPT !.task = s]
        <5>2. r \in Info /\ r.id = info[i].id
          BY <3>1, <5>1 DEF Info
        <5>3. info' = [info EXCEPT ![i] = r]
          BY <5>1
        <5> QED
          BY <5>2, <5>3
      <4>2. CASE RetryCounted(i)
        <5> DEFINE q == [info[i] EXCEPT !.retryCount = @ + 1]
        <5> DEFINE r == [q EXCEPT !.task = "ended"]
        <5>1. r \in Info /\ r.id = info[i].id
          <6>1. q \in Info /\ q.id = info[i].id
            BY <3>1 DEF Info
          <6> HIDE DEF q
          <6> QED
            BY <6>1 DEF Info
        <5>2. info' = [info EXCEPT ![i] = r]
          BY <1>9, <4>2 DEF RetryCounted, TypeOK
        <5> QED
          BY <5>1, <5>2
      <4> QED
        BY <1>9, <4>1, <4>2 DEF Recovery
    <3> QED
      BY <3>1, <3>2, InfoReplaced DEF TypeOK
  <2>2. UNCHANGED <<errors, errorCount, maxRetries, pc, arg>>
    BY <1>9 DEF Recovery, ExecuteRecovery, RetryCounted
  <2> QED
    BY <2>1, <2>2, TableUnchanged DEF TypeOK
<1>10. CASE UNCHANGED vars
  BY <1>10, TableUnchanged DEF vars, TypeOK
<1> QED
  BY <1>1, <1>2, <1>3, <1>4, <1>5, <1>6, <1>7, <1>8, <1>9, <1>10
     DEF Next, Register

(* The invariant holds in every reachable state.                            *)
THEOREM Invariance == Spec => []IInv
  BY InitIInv, NextIInv, PTL DEF Spec

(* The types hold for every value of the constants.                         *)
THEOREM TypeCorrect == Spec => []TypeOK
  BY Invariance, PTL DEF IInv

(* The atomic count read outside the lock is the size of the map, for any   *)
(* number of callers.                                                       *)
THEOREM TableConsistent == Spec => []CountMatches
  BY Invariance, PTL DEF IInv

(* However many callers race past the check, the table and the inserts to   *)
(* come exceed the limit by at most the number of the other callers.        *)
THEOREM BoundedExcess == Spec => []LimitWithConcurrency
  BY Invariance, PTL DEF IInv

-----------------------------------------------------------------------------
(* Clear removes what is marked recovered and no active error.              *)
LEMMA ClearKeepsActive == Clear => ActiveErrors \subseteq errors'
  BY DEF Clear, ActiveErrors, Recovered

(* What a step takes from the table that is not recovered, an eviction took.*)
LEMMA LossIsEviction ==
    ASSUME IInv, [Next]_vars, NEW i \in ActiveErrors \ errors'
    PROVE  \E t \in Callers :
              /\ RegisterEvict(t)
              /\ Cardinality(errors) >= ErrorLimit
              /\ i \in Oldest
<1>1. i \in errors /\ errors' # errors /\ ~(errors \subseteq errors')
  BY DEF ActiveErrors
<1>2. ~Clear
  BY ClearKeepsActive
<1>3. PICK t \in Callers : Register(t)
  <2>1. ASSUME NEW e \in ErrorIDs
        PROVE  ~MarkErrorRecovered(e)
    BY <1>1 DEF MarkErrorRecovered
  <2>2. ~ClearRecoveredErrors
    BY <1>2 DEF ClearRecoveredErrors
  <2>3. ASSUME NEW c \in Categories, NEW n \in MaxRetryArgs
        PROVE  ~SetMaxRetries(c, n)
    BY <1>1 DEF SetMaxRetries
  <2>4. ASSUME NEW j \in DOMAIN info
        PROVE  ~Recovery(j)
    BY <1>1 DEF Recovery, ExecuteRecovery, RetryCounted
  <2> QED
    BY <1>1, <2>1, <2>2, <2>3, <2>4 DEF Next, vars
<1>4. RegisterEvict(t)
  BY <1>1, <1>2, <1>3
     DEF Register, RegisterCheck, RegisterClear, RegisterAgain, RegisterNew
<1>5. /\ Cardinality(errors) >= ErrorLimit
      /\ i \in Oldest
  BY <1>1, <1>4 DEF RegisterEvict
<1> QED
  BY <1>4, <1>5

(* An error that is not recovered leaves the table only as its oldest, and  *)
(* only when a caller finds it full under the lock (error_recovery.go:      *)
(* 94-118), for any number of callers.                                      *)
THEOREM ActiveLeavesByEviction == Spec => ActiveLossOnlyWhenFull
<1>1. ASSUME IInv, [Next]_vars, NEW i \in ActiveErrors \ errors'
      PROVE  /\ Cardinality(errors) >= ErrorLimit
             /\ \A j \in errors : i <= j
             /\ \E t \in Callers : pc[t] = "evict" /\ pc'[t] = "insert"
  <2>1. PICK t \in Callers : /\ RegisterEvict(t)
                             /\ Cardinality(errors) >= ErrorLimit
                             /\ i \in Oldest
    BY <1>1, LossIsEviction
  <2>2. pc[t] = "evict" /\ pc'[t] = "insert"
    BY <1>1, <2>1 DEF RegisterEvict, IInv, TypeOK
  <2> QED
    BY <2>1, <2>2 DEF Oldest
<1>2. IInv /\ [Next]_vars
        => [\A i \in ActiveErrors \ errors' :
              /\ Cardinality(errors) >= ErrorLimit
              /\ \A j \in errors : i <= j
              /\ \E t \in Callers : pc[t] = "evict" /\ pc'[t] = "insert"]_vars
  BY <1>1
<1> QED
  BY <1>2, Invariance, PTL DEF Spec, ActiveLossOnlyWhenFull

-----------------------------------------------------------------------------
(* A count is raised by the goroutine that sleeps on that very info, or by  *)
(* a caller that found the info in the map.                                 *)
LEMMA RaisedByOwner ==
    ASSUME IInv, [Next]_vars, NEW i \in DOMAIN info,
           info'[i].retryCount > info[i].retryCount
    PROVE  \/ RetryCounted(i)
           \/ \E t \in Callers : RegisterAgain(t) /\ i \in Entry(arg[t])
<1>1. /\ info \in [1..Len(info) -> Info] /\ Len(info) \in Nat
      /\ info[i].retryCount \in Nat
      /\ DOMAIN info = 1..Len(info)
  <2>1. /\ info \in [1..Len(info) -> Info] /\ Len(info) \in Nat
        /\ DOMAIN info = 1..Len(info)
    BY DEF IInv, TypeOK
  <2>2. info[i] \in Info
    BY <2>1
  <2> QED
    BY <2>1, <2>2 DEF Info
<1>2. info'[i].retryCount # info[i].retryCount
  BY <1>1
<1>3. \A j \in DOMAIN info : info[j] \in Info
  BY <1>1
<1>4. CASE \E t \in Callers : Register(t)
  <2>1. PICK t \in Callers : Register(t)
    BY <1>4
  <2>2. ~RegisterNew(t)
    BY <1>1, <1>2 DEF RegisterNew, IInv, TypeOK
  <2>3. RegisterAgain(t)
    BY <1>2, <2>1, <2>2
       DEF Register, RegisterCheck, RegisterClear, RegisterEvict
  <2>4. PICK j \in Entry(arg[t]) :
           info' = [info EXCEPT ![j].retryCount = @ + 1]
    BY <2>3 DEF RegisterAgain
  <2>5. j = i
    BY <1>1, <1>2, <2>4
  <2> QED
    BY <2>3, <2>4, <2>5
<1>5. ASSUME NEW j \in DOMAIN info, Recovery(j)
      PROVE  RetryCounted(i)
  <2>1. CASE \E found \in BOOLEAN : ExecuteRecovery(j, found)
    <3>1. PICK s \in {"sleeping", "ended"} :
             info' = [info EXCEPT ![j].task = s]
      BY <2>1 DEF ExecuteRecovery
    <3>2. info'[i].retryCount = info[i].retryCount
      BY <1>1, <1>3, <3>1 DEF Info
    <3> QED
      BY <1>2, <3>2
  <2>2. CASE RetryCounted(j)
    <3>1. i # j => info'[i] = info[i]
      BY <1>1, <2>2 DEF RetryCounted
    <3> QED
      BY <1>2, <2>2, <3>1
  <2> QED
    BY <1>5, <2>1, <2>2 DEF Recovery
<1>6. ASSUME NEW e \in ErrorIDs
      PROVE  ~MarkErrorRecovered(e)
  <2>1. SUFFICES ASSUME MarkErrorRecovered(e) PROVE FALSE
    OBVIOUS
  <2>2. PICK j \in Entry(e) : info' = [info EXCEPT ![j].recovered = TRUE]
    BY <2>1 DEF MarkErrorRecovered
  <2>3. info'[i].retryCount = info[i].retryCount
    BY <1>1, <1>3, <2>2 DEF Info
  <2> QED
    BY <1>2, <2>3
<1>7. info' # info
  BY <1>2
<1> QED
  BY <1>4, <1>5, <1>6, <1>7
     DEF Next, vars, ClearRecoveredErrors, SetMaxRetries

(* A retry is counted on the error it was spawned for, though that may have *)
(* left the map and its key may be registered anew (error_recovery.go:      *)
(* 216-251).                                                                *)
THEOREM RetriesAreOwned == Spec => RetriesCreditedToOwner
<1>1. ASSUME IInv, [Next]_vars, NEW i \in DOMAIN info,
             info'[i].retryCount > info[i].retryCount
      PROVE  \/ info[i].task = "sleeping" /\ info'[i].task = "ended"
             \/ /\ i \in errors
                /\ \E t \in Callers : /\ arg[t] = info[i].id
                                     /\ pc[t] = "insert"
                                     /\ pc'[t] = "idle"
  <2>1. info[i] \in Info
    BY <1>1 DEF IInv, TypeOK
  <2>2. CASE RetryCounted(i)
    BY <1>1, <2>1, <2>2 DEF RetryCounted, IInv, TypeOK, Info
  <2>3. CASE \E t \in Callers : RegisterAgain(t) /\ i \in Entry(arg[t])
    BY <1>1, <2>3 DEF RegisterAgain, Return, Entry, IInv, TypeOK
  <2> QED
    BY <1>1, <2>2, <2>3, RaisedByOwner
<1>2. IInv /\ [Next]_vars
        => [\A i \in DOMAIN info :
              info'[i].retryCount > info[i].retryCount
                => \/ info[i].task = "sleeping" /\ info'[i].task = "ended"
                   \/ /\ i \in errors
                      /\ \E t \in Callers : /\ arg[t] = info[i].id
                                           /\ pc[t] = "insert"
                                           /\ pc'[t] = "idle"]_vars
  BY <1>1
<1> QED
  BY <1>2, Invariance, PTL DEF Spec, RetriesCreditedToOwner

=============================================================================
