--------------------------- MODULE MCSubscriptions ---------------------------
EXTENDS Subscriptions, TLC

CONSTANTS a, b, c1, c2, k1, k2

MCTopics == {a, b}
MCPreset == {a}
MCNoPreset == {}
MCCallers1 == {c1}
MCCallers2 == {c1, c2}
MCCallbacks1 == {k1}
MCCallbacks2 == {k1, k2}

(* What Persistent() of the builder sets, with each store.                  *)
Persistent(store) == [persistent |-> TRUE, clean |-> FALSE, resume |-> TRUE,
                      store |-> store]
(* What DefaultOptions sets.                                                *)
Default == [persistent |-> FALSE, clean |-> TRUE, resume |-> TRUE,
            store |-> "memory"]
MCMemory == {Persistent("memory")}
MCDefault == {Default}
MCOptions == {Default, Persistent("file")}
MCSymmetry == Permutations(Callers) \cup Permutations(Callbacks)

=============================================================================
