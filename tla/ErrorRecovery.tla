---------------------------- MODULE ErrorRecovery ----------------------------
(***************************************************************************)
(* The RecoveryManager of error_recovery.go: a bounded table of errors     *)
(* shared by every goroutine that reports one, and the recovery goroutine  *)
(* spawned for each error that is new.                                     *)
(*                                                                         *)
(* RegisterError is not one critical section.  It reads errorCount without *)
(* the lock, and when the table looks full it takes the lock twice (once   *)
(* to clear, once to evict) before it takes it a third time to insert.     *)
(* Each of these is a step here; other callers run in between.             *)
(***************************************************************************)
EXTENDS Integers, Sequences, FiniteSets

CONSTANTS
    Callers,      \* goroutines that may be inside RegisterError
    ErrorIDs,     \* the keys "session:category:error"
    NoID,         \* the argument of a caller outside RegisterError
    CategoryOf,   \* the category in each key
    ErrorLimit,   \* errorLimit
    MaxInfos,     \* bound: ErrorInfo objects ever created
    RetryCap,     \* bound: a key is registered again only below this count
    MaxRetryArgs  \* the counts SetMaxRetries is called with

Categories ==
    {"connection", "subscription", "publish", "authentication", "internal"}

ASSUME CallersAssumption == IsFiniteSet(Callers) /\ Callers # {}
ASSUME NoIDAssumption == NoID \notin ErrorIDs
ASSUME CategoryAssumption == CategoryOf \in [ErrorIDs -> Categories]
ASSUME LimitAssumption == ErrorLimit \in Nat \ {0}
ASSUME BoundsAssumption ==
    MaxInfos \in Nat /\ RetryCap \in Nat /\ MaxRetryArgs \subseteq Nat

VARIABLES
    info,        \* every ErrorInfo created, in the order of its Time
    errors,      \* rm.errors: the numbers of the infos the map holds
    errorCount,  \* rm.errorCount, an atomic kept beside the map
    maxRetries,  \* rm.maxRetries
    pc,          \* where each caller is inside RegisterError
    arg          \* the key each caller registers

vars == <<info, errors, errorCount, maxRetries, pc, arg>>

-----------------------------------------------------------------------------
(* An ErrorInfo, with the state of the goroutine executeRecovery(info).     *)
Info == [id : ErrorIDs, retryCount : Nat, recovered : BOOLEAN,
         task : {"spawned", "sleeping", "ended"}]

NewInfo(e) ==
    [id |-> e, retryCount |-> 0, recovered |-> FALSE, task |-> "spawned"]

determineSeverity(c) ==
    IF c \in {"authentication", "internal"} THEN "critical" ELSE "warning"

determineStrategy(c) ==
    CASE c = "connection" /\ determineSeverity(c) = "warning" -> "reconnect"
      [] c \in {"subscription", "publish"} -> "retry"
      [] OTHER -> "notify"

(* The entry of the map under key e.                                        *)
Entry(e) == {i \in errors : info[i].id = e}

Recovered == {i \in errors : info[i].recovered}

(* GetActiveErrors.                                                         *)
ActiveErrors == errors \ Recovered

(* The entry whose Time is before every other's.                            *)
Oldest == {i \in errors : \A j \in errors : i <= j}

InCall == {t \in Callers : pc[t] # "idle"}

(* Callers past the check, whose next step inserts.                         *)
Inserting == {t \in Callers : pc[t] = "insert"}

-----------------------------------------------------------------------------
Init ==
    /\ info = <<>>
    /\ errors = {}
    /\ errorCount = 0
    /\ maxRetries = [c \in Categories |->
                       CASE c = "connection" -> 3
                         [] c \in {"subscription", "publish"} -> 2
                         [] OTHER -> 1]
    /\ pc = [t \in Callers |-> "idle"]
    /\ arg = [t \in Callers |-> NoID]

(* RegisterError, first part: the load of errorCount without the lock       *)
(* decides whether this call makes room.                                    *)
RegisterCheck(t, e) ==
    /\ pc[t] = "idle"
    /\ Len(info) + Cardinality(InCall) < MaxInfos
    /\ \A i \in Entry(e) : info[i].retryCount < RetryCap
    /\ arg' = [arg EXCEPT ![t] = e]
    /\ pc' = [pc EXCEPT ![t] = IF errorCount >= ErrorLimit
                                 THEN "clear" ELSE "insert"]
    /\ UNCHANGED <<info, errors, errorCount, maxRetries>>

(* Variant: the count is lowered by every error ever marked recovered.      *)
ClearAllMarked ==
    /\ errors' = errors \ Recovered
    /\ errorCount' = errorCount
         - Cardinality({i \in DOMAIN info : info[i].recovered})

(* The body of ClearRecoveredErrors, under the lock.                        *)
Clear ==
    /\ errors' = errors \ Recovered
    /\ errorCount' = errorCount - Cardinality(Recovered)

RegisterClear(t) ==
    /\ pc[t] = "clear"
    /\ Clear
    /\ pc' = [pc EXCEPT ![t] = "evict"]
    /\ UNCHANGED <<info, maxRetries, arg>>

(* Variants: the eviction does not lower the count; it takes the newest     *)
(* entry; it leaves a full table as it is.                                  *)
EvictUncounted(t) ==
    /\ pc[t] = "evict"
    /\ \/ /\ Cardinality(errors) >= ErrorLimit
          /\ \E i \in Oldest : errors' = errors \ {i}
       \/ Cardinality(errors) < ErrorLimit /\ UNCHANGED errors
    /\ pc' = [pc EXCEPT ![t] = "insert"]
    /\ UNCHANGED <<info, errorCount, maxRetries, arg>>

EvictNewest(t) ==
    /\ pc[t] = "evict"
    /\ \/ /\ Cardinality(errors) >= ErrorLimit
          /\ \E i \in errors : /\ \A j \in errors : i >= j
                               /\ errors' = errors \ {i}
          /\ errorCount' = errorCount - 1
       \/ /\ Cardinality(errors) < ErrorLimit
          /\ UNCHANGED <<errors, errorCount>>
    /\ pc' = [pc EXCEPT ![t] = "insert"]
    /\ UNCHANGED <<info, maxRetries, arg>>

EvictAboveLimit(t) ==
    /\ pc[t] = "evict"
    /\ \/ /\ Cardinality(errors) > ErrorLimit
          /\ \E i \in Oldest : errors' = errors \ {i}
          /\ errorCount' = errorCount - 1
       \/ /\ Cardinality(errors) <= ErrorLimit
          /\ UNCHANGED <<errors, errorCount>>
    /\ pc' = [pc EXCEPT ![t] = "insert"]
    /\ UNCHANGED <<info, maxRetries, arg>>

(* The lock was released after the clearing: the table is looked at again.  *)
RegisterEvict(t) ==
    /\ pc[t] = "evict"
    /\ \/ /\ Cardinality(errors) >= ErrorLimit
          /\ \E i \in Oldest : errors' = errors \ {i}
          /\ errorCount' = errorCount - 1
       \/ /\ Cardinality(errors) < ErrorLimit
          /\ UNCHANGED <<errors, errorCount>>
    /\ pc' = [pc EXCEPT ![t] = "insert"]
    /\ UNCHANGED <<info, maxRetries, arg>>

Return(t) ==
    /\ pc' = [pc EXCEPT ![t] = "idle"]
    /\ arg' = [arg EXCEPT ![t] = NoID]

(* A key the map already holds only has its RetryCount raised.              *)
RegisterAgain(t) ==
    /\ pc[t] = "insert"
    /\ \E i \in Entry(arg[t]) :
         info' = [info EXCEPT ![i].retryCount = @ + 1]
    /\ Return(t)
    /\ UNCHANGED <<errors, errorCount, maxRetries>>

(* A new key: a new ErrorInfo, and its recovery goroutine.                  *)
RegisterNew(t) ==
    /\ pc[t] = "insert"
    /\ Entry(arg[t]) = {}
    /\ info' = Append(info, NewInfo(arg[t]))
    /\ errors' = errors \cup {Len(info) + 1}
    /\ errorCount' = errorCount + 1
    /\ Return(t)
    /\ UNCHANGED maxRetries

MarkErrorRecovered(e) ==
    /\ \E i \in Entry(e) : info' = [info EXCEPT ![i].recovered = TRUE]
    /\ UNCHANGED <<errors, errorCount, maxRetries, pc, arg>>

ClearRecoveredErrors ==
    /\ Clear
    /\ UNCHANGED <<info, maxRetries, pc, arg>>

SetMaxRetries(c, n) ==
    /\ maxRetries' = [maxRetries EXCEPT ![c] = n]
    /\ UNCHANGED <<info, errors, errorCount, pc, arg>>

(* executeRecovery up to its first sleep: without the session nothing is    *)
(* done; "reconnect" and "notify" only log or emit; executeRetry gives up   *)
(* when the count is used up (read without the lock) and else sleeps.  The  *)
(* goroutine holds its ErrorInfo, which the map may hold no longer.         *)
ExecuteRecovery(i, sessionFound) ==
    LET c == CategoryOf[info[i].id]
        retries == /\ sessionFound
                   /\ determineStrategy(c) = "retry"
                   /\ info[i].retryCount < maxRetries[c]
    IN  /\ info[i].task = "spawned"
        /\ info' = [info EXCEPT ![i].task = IF retries THEN "sleeping"
                                                       ELSE "ended"]
        /\ UNCHANGED <<errors, errorCount, maxRetries, pc, arg>>

(* Variant: the retry is counted on whatever holds the key by then.         *)
RetryCountedByKey(i) ==
    /\ info[i].task = "sleeping"
    /\ \/ \E j \in Entry(info[i].id) :
            info' = [info EXCEPT ![j].retryCount = @ + 1, ![i].task = "ended"]
       \/ /\ Entry(info[i].id) = {}
          /\ info' = [info EXCEPT ![i].task = "ended"]
    /\ UNCHANGED <<errors, errorCount, maxRetries, pc, arg>>

(* executeRetry after its backoff: it retries nothing, it counts.           *)
RetryCounted(i) ==
    /\ info[i].task = "sleeping"
    /\ info' = [info EXCEPT ![i].retryCount = @ + 1, ![i].task = "ended"]
    /\ UNCHANGED <<errors, errorCount, maxRetries, pc, arg>>

Register(t) ==
    \/ \E e \in ErrorIDs : RegisterCheck(t, e)
    \/ RegisterClear(t)
    \/ RegisterEvict(t)
    \/ RegisterAgain(t)
    \/ RegisterNew(t)

Recovery(i) ==
    \/ \E found \in BOOLEAN : ExecuteRecovery(i, found)
    \/ RetryCounted(i)

Next ==
    \/ \E t \in Callers : Register(t)
    \/ \E e \in ErrorIDs : MarkErrorRecovered(e)
    \/ ClearRecoveredErrors
    \/ \E c \in Categories, n \in MaxRetryArgs : SetMaxRetries(c, n)
    \/ \E i \in DOMAIN info : Recovery(i)

Spec == Init /\ [][Next]_vars

-----------------------------------------------------------------------------
TypeOK ==
    /\ info \in Seq(Info)
    /\ errors \subseteq DOMAIN info
    /\ errorCount \in Nat
    /\ maxRetries \in [Categories -> Nat]
    /\ pc \in [Callers -> {"idle", "clear", "evict", "insert"}]
    /\ arg \in [Callers -> ErrorIDs \cup {NoID}]
    /\ \A t \in Callers : pc[t] # "idle" => arg[t] \in ErrorIDs

(* The atomic that RegisterError consults without the lock always counts    *)
(* the map: every path that adds, clears or evicts adjusts both by the same *)
(* amount, however the calls interleave (error_recovery.go:90-119, 151-152, *)
(* 318-336).                                                                *)
CountMatches == errorCount = Cardinality(errors)

(* Callers past the check are the only excess: the table and the inserts    *)
(* still to come never exceed errorLimit by more than the other callers.    *)
(* This is what the unlocked check at error_recovery.go:90 really ensures.  *)
LimitWithConcurrency ==
    Cardinality(errors) + Cardinality(Inserting)
        <= ErrorLimit + Cardinality(Callers) - 1

(* A retry is counted on the ErrorInfo the goroutine was spawned for, or by *)
(* a caller that registers its key again while the map holds it: once the   *)
(* info is evicted or cleared and its key is registered anew, the sleeping  *)
(* goroutine of the old one leaves the new one alone (lines 216-251).       *)
RetriesCreditedToOwner ==
    [][\A i \in DOMAIN info :
          info'[i].retryCount > info[i].retryCount
              => \/ info[i].task = "sleeping" /\ info'[i].task = "ended"
                 \/ /\ i \in errors
                    /\ \E t \in Callers : /\ arg[t] = info[i].id
                                         /\ pc[t] = "insert"
                                         /\ pc'[t] = "idle"]_vars

(* No step makes an error that is not recovered disappear, save an eviction *)
(* by a caller that finds the table full under the lock; the error evicted  *)
(* is the oldest there (error_recovery.go:94-118).                          *)
ActiveLossOnlyWhenFull ==
    [][\A i \in ActiveErrors \ errors' :
          /\ Cardinality(errors) >= ErrorLimit
          /\ \A j \in errors : i <= j
          /\ \E t \in Callers : pc[t] = "evict" /\ pc'[t] = "insert"]_vars

=============================================================================
