----------------------------- MODULE MCForwarder -----------------------------
(* A forwarder of two topics, a buffer of one, and at most two successful   *)
(* Starts: four objects are enough for the buffer, the dispatcher and both  *)
(* workers.                                                                 *)
EXTENDS Forwarder, TLC

CONSTANTS a, b, o1, o2, o3, o4, w1, w2

MCTopics == {a, b}
MCObjects == {o1, o2, o3, o4}
MCWorkers == {w1, w2}
MCSymmetry == Permutations(Topics) \cup Permutations(Objects)
                \cup Permutations(Workers)

=============================================================================
