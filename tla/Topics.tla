------------------------------- MODULE Topics -------------------------------
(***************************************************************************)
(* TopicMatch of filter.go: does a topic filter match a topic?  Both are   *)
(* sequences of levels, what strings.Split makes of them at "/".           *)
(***************************************************************************)
EXTENDS Naturals, Sequences

Plus == "+"
Hash == "#"

(* The levels of the filter up to n are "+" or those of the topic.          *)
LevelsMatch(filter, topic, n) ==
    \A i \in 1..n : filter[i] \in {Plus, topic[i]}

EndsInHash(filter) == filter[Len(filter)] = Hash

(* Variant: "#" stands for at least one level.                              *)
TopicMatchDeeper(filter, topic) ==
    \/ filter = topic
    \/ filter = <<Hash>>
    \/ IF EndsInHash(filter)
         THEN /\ Len(filter) - 1 < Len(topic)
              /\ LevelsMatch(filter, topic, Len(filter) - 1)
         ELSE /\ Len(filter) = Len(topic)
              /\ LevelsMatch(filter, topic, Len(filter))

TopicMatch(filter, topic) ==
    \/ filter = topic
    \/ filter = <<Hash>>
    \/ IF EndsInHash(filter)
         THEN /\ Len(filter) - 1 <= Len(topic)
              /\ LevelsMatch(filter, topic, Len(filter) - 1)
         ELSE /\ Len(filter) = Len(topic)
              /\ LevelsMatch(filter, topic, Len(filter))

(* What the comments promise (filter.go:188-191): the topic is the filter   *)
(* with one level for each "+", and with any levels for a "#" at the end.   *)
Stem(filter) ==
    IF EndsInHash(filter) THEN SubSeq(filter, 1, Len(filter) - 1) ELSE filter

Covers(filter, topic) ==
    \E k \in 0..Len(topic) :
      LET front == SubSeq(topic, 1, k)
          rest == SubSeq(topic, k + 1, Len(topic))
      IN  /\ Len(front) = Len(Stem(filter))
          /\ \A i \in 1..k : Stem(filter)[i] \in {Plus, front[i]}
          /\ rest # <<>> => EndsInHash(filter)

=============================================================================
