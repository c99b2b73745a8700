------------------------------ MODULE MCRoute ------------------------------
EXTENDS Route, TLC

CONSTANTS s1, s2, r1, r2, c1, c2, f1, f2

MCSessions == {s1, s2}
MCOneSession == {s1}
MCRoutes == {r1, r2}
MCCallers == {c1, c2}
MCFilters == {f1, f2}

ListenWithConfig == [target |-> MCSessions, handler |-> FALSE, strict |-> FALSE,
                     advanced |-> TRUE, spare |-> TRUE]
HandleTo == [target |-> {s1}, handler |-> TRUE, strict |-> TRUE,
             advanced |-> FALSE, spare |-> FALSE]
ListenToWithConfig == [target |-> {s2}, handler |-> FALSE, strict |-> TRUE,
                       advanced |-> TRUE, spare |-> TRUE]

Limit(m, d, r, f) ==
    [messages |-> m, drops |-> d, refusals |-> r, filters |-> f]
MCLimits == {Limit(2, 0, 0, 0), Limit(1, 1, 0, 0), Limit(1, 0, 2, 0),
             Limit(1, 0, 0, 2)}
MCSymmetry == Permutations(MCRoutes) \cup Permutations(MCCallers)
                \cup Permutations(MCFilters)

MCConfigs == {ListenWithConfig, HandleTo, ListenToWithConfig}

=============================================================================
