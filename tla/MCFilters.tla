----------------------------- MODULE MCFilters -----------------------------
(***************************************************************************)
(* Every filter of up to three levels against every topic of up to three,  *)
(* composites two deep, and every chain of two JSON paths of up to three   *)
(* parts (an empty part included) over objects with and without them.      *)
(***************************************************************************)
EXTENDS Filters

UpTo(n, S) == UNION {[1..k -> S] : k \in 1..n}

Msg(topic, payload) == [topic |-> topic, payload |-> payload]
A == <<"a">>
AB == <<"a", "b">>

Json(tree) == [kind |-> "json", tree |-> tree]
Flat1 == Json([p \in {A} |-> "x"])
Nested == Json([p \in {A, AB, <<"b">>} |-> IF p = A THEN Object ELSE Odd])
Plain == [kind |-> "text"]
Payloads == {Flat1, Nested, Json(<<>>)}
            \cup {[kind |-> k] : k \in {"nil", "empty", "text", "null"}}

Topic(pattern) == [kind |-> "topic", pattern |-> pattern]
Leaves == {Topic(<<"a", "#">>),
           [kind |-> "regex", matches |-> {AB, <<"b">>}],
           [kind |-> "payload", matches |-> {Plain, Nested}]}
Both(S) == {[kind |-> k, of |-> fs] :
               k \in {"and", "or"}, fs \in {<<>>} \cup UpTo(2, S)}

Path(path, value) == [kind |-> "json", path |-> path, value |-> value]
Paths(value) == {Path(p, value) : p \in UpTo(3, {"a", "b", ""})}
Composite(ts) == [kind |-> "composite", of |-> ts]
ToB == [kind |-> "rewrite",
        becomes |-> [t \in {A, AB} |-> IF t = A THEN <<"b">> ELSE A]]
ToC == [kind |-> "rewrite", becomes |-> [t \in {<<"b">>} |-> AB]]
User == [kind |-> "payload", given |-> TRUE,
         returns |-> [p \in {Flat1, Plain, [kind |-> "empty"]} |->
                        CASE p = Flat1 -> Nested
                          [] p = Plain -> [kind |-> "error"]
                          [] OTHER -> [kind |-> "nil"]]]
NoFunc == [kind |-> "payload", given |-> FALSE, returns |-> <<>>]

Route(fs, ts, ms) == [filters |-> fs, transformers |-> ts, messages |-> ms]
MCCases ==
    {Route(<<Topic(f)>>, <<>>,
           {Msg(t, Plain) : t \in UpTo(3, {"a", "b", ""})}) :
        f \in UpTo(3, {"a", "b", Plus, Hash})}
    \cup
    {Route(<<f, g>>, <<>>,
           {Msg(t, p) : t \in {A, AB, <<"b">>},
                        p \in {Plain, Nested, [kind |-> "nil"]}}) :
        f \in Leaves, g \in Both(Leaves \cup Both({Topic(AB)}))}
    \cup
    {Route(<<>>, <<t, u>>, {Msg(A, p) : p \in {Flat1, Nested, Json(<<>>)}}) :
        t \in Paths(Odd), u \in Paths("z")}
    \cup
    {Route(<<>>, ts, {Msg(A, p) : p \in Payloads}) :
        ts \in UpTo(3, {ToB, ToC, User, NoFunc, Path(AB, Odd), Path(A, Chan),
                        Composite(<<>>),
                        Composite(<<Path(AB, "z"), ToB>>)})}

=============================================================================
