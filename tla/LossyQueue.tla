------------------------------ MODULE LossyQueue ------------------------------
(***************************************************************************)
(* What the buffer of a forwarder promises, without locks, goroutines or   *)
(* pool: a message that was accepted either joins a bounded queue or, when *)
(* the queue is full, is the one that is lost; the queue is left in order; *)
(* what has left it is in somebody's hands until it is done with.  A buffer*)
(* object is in one place at a time, and every message is counted once.    *)
(***************************************************************************)
EXTENDS Naturals, Sequences

CONSTANTS
    Items,     \* buffer objects
    Capacity,
    NoItem

VARIABLES
    entering,  \* the item accepted and not yet in the queue, or NoItem
    queue,
    leaving,   \* items taken from the queue and not done with
    accepted, lost, done  \* messages so far

qvars == <<entering, queue, leaving, accepted, lost, done>>

Inside == {queue[i] : i \in 1..Len(queue)} \cup leaving

Init ==
    /\ entering = NoItem
    /\ queue = <<>>
    /\ leaving = {}
    /\ accepted = 0 /\ lost = 0 /\ done = 0

Accept ==
    /\ entering = NoItem
    /\ entering' \in Items \ Inside
    /\ accepted' = accepted + 1
    /\ UNCHANGED <<queue, leaving, lost, done>>

Join ==
    /\ entering # NoItem
    /\ Len(queue) < Capacity
    /\ queue' = Append(queue, entering)
    /\ entering' = NoItem
    /\ UNCHANGED <<leaving, accepted, lost, done>>

Lose ==
    /\ entering # NoItem
    /\ Len(queue) = Capacity
    /\ entering' = NoItem
    /\ lost' = lost + 1
    /\ UNCHANGED <<queue, leaving, accepted, done>>

Take ==
    /\ queue # <<>>
    /\ queue' = Tail(queue)
    /\ leaving' = leaving \cup {Head(queue)}
    /\ UNCHANGED <<entering, accepted, lost, done>>

Finish ==
    /\ \E item \in leaving : leaving' = leaving \ {item}
    /\ done' = done + 1
    /\ UNCHANGED <<entering, queue, accepted, lost>>

Next == Accept \/ Join \/ Lose \/ Take \/ Finish

Spec == Init /\ [][Next]_qvars

=============================================================================
