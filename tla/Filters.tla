------------------------------ MODULE Filters ------------------------------
(***************************************************************************)
(* What an AdvancedRoute does to one message: its filters (filter.go), its *)
(* transformers (transformer.go), one after the other, then the handler.   *)
(* A topic is the sequence of its levels.  A payload is nil, empty, text   *)
(* that json.Unmarshal refuses for an object, JSON's null, or a JSON       *)
(* object: the function from the paths it has to the scalar or the Object  *)
(* there.  Of scalars only Odd is special, an integer no float64 is equal  *)
(* to; Chan is a value JSON has no form for.                               *)
(***************************************************************************)
EXTENDS Topics, SequencesExt

CONSTANT Cases       \* routes, each with the messages it may receive

Object == "object"
Odd == "9007199254740993"
Chan == "chan"

VARIABLES route, original, message, stage, next

vars == <<route, original, message, stage, next>>

(***************************************************************************)
(* Filters.  A regular expression is the set of topics it matches, and a   *)
(* payload pattern the set of payloads that contain or match it.           *)
(***************************************************************************)
RECURSIVE Match(_, _)
Match(f, m) ==
    \/ /\ f.kind = "topic"
       /\ TopicMatch(f.pattern, m.topic)
    \/ /\ f.kind = "regex"
       /\ m.topic \in f.matches
    \/ /\ f.kind = "payload"
       /\ m.payload.kind # "nil"
       /\ m.payload \in f.matches
    \/ /\ f.kind \in {"and", "or"}
       /\ f.of = <<>>
    \/ /\ f.kind = "and"
       /\ \A i \in DOMAIN f.of : Match(f.of[i], m)
    \/ /\ f.kind = "or"
       /\ \E i \in DOMAIN f.of : Match(f.of[i], m)

(***************************************************************************)
(* setJsonValue.  Put replaces what is at a path and all below it.         *)
(***************************************************************************)
Put(tree, path, value) ==
    [p \in {path} \cup {q \in DOMAIN tree : ~IsPrefix(path, q)} |->
        IF p = path THEN value ELSE tree[p]]

IsObject(tree, path) == path \in DOMAIN tree /\ tree[path] = Object

(* Variant: a scalar on the way is left where it is.                        *)
DescendNoReplace(walk, part) ==
    LET below == Append(walk.current, part)
    IN  IF part = "" THEN walk
        ELSE [current |-> below,
              tree |-> IF below \in DOMAIN walk.tree THEN walk.tree
                       ELSE Put(walk.tree, below, Object)]

(* One turn of the loop: an empty part is skipped, what is not a map is     *)
(* replaced by one, and the walk goes down into it.                         *)
Descend(walk, part) ==
    LET below == Append(walk.current, part)
    IN  IF part = "" THEN walk
        ELSE [current |-> below,
              tree |-> IF IsObject(walk.tree, below) THEN walk.tree
                       ELSE Put(walk.tree, below, Object)]

SetJsonValue(tree, parts, value) ==
    LET walk == FoldLeft(Descend, [current |-> <<>>, tree |-> tree],
                         Front(parts))
    IN  Put(walk.tree, Append(walk.current, Last(parts)), value)

(* json.Unmarshal into interface{}: every number becomes a float64, and Odd *)
(* the one below it.                                                        *)
Decoded(v) == IF v = Odd THEN "9007199254740992" ELSE v
Unmarshal(tree) == [p \in DOMAIN tree |-> Decoded(tree[p])]

(***************************************************************************)
(* Transformers: what one returns, the message (is "ok"), nil (dropped),   *)
(* an error, or a panic (an assignment to a nil map).                      *)
(***************************************************************************)
Ok(m) == [is |-> "ok", message |-> m]
Ends(how, m) == [is |-> how, message |-> m]

(* A pattern is the topics it changes, with what they become: one topic, or *)
(* any of those a regular expression matches.                               *)
Rewrite(t, m) ==
    Ok([m EXCEPT !.topic = IF @ \in DOMAIN t.becomes THEN t.becomes[@] ELSE @])

(* The user's function: what it returns for each payload it knows.          *)
TransformPayload(t, m) ==
    IF ~t.given \/ m.payload \notin DOMAIN t.returns THEN Ok(m)
    ELSE LET r == t.returns[m.payload]
         IN  CASE r.kind = "error" -> Ends("error", m)
               [] r.kind = "nil" -> Ends("dropped", m)
               [] OTHER -> Ok([m EXCEPT !.payload = r])

(* The whole object is decoded, and encoded again with the value in it.     *)
TransformJson(t, m) ==
    CASE m.payload.kind \in {"nil", "empty"} -> Ok(m)
      [] m.payload.kind = "text" -> Ends("error", m)
      [] m.payload.kind = "null" -> Ends("panic", m)
      [] m.payload.kind = "json" /\ t.value = Chan -> Ends("error", m)
      [] OTHER -> Ok([m EXCEPT !.payload.tree =
                        SetJsonValue(Unmarshal(@), t.path, t.value)])

RECURSIVE Transform(_, _)
Transform(t, m) ==
    LET AndThen(r, u) == IF r.is = "ok" THEN Transform(u, r.message) ELSE r
    IN  CASE t.kind = "rewrite" -> Rewrite(t, m)
          [] t.kind = "payload" -> TransformPayload(t, m)
          [] t.kind = "json" -> TransformJson(t, m)
          [] t.kind = "composite" -> FoldLeft(AndThen, Ok(m), t.of)

-----------------------------------------------------------------------------
Busy == {"filter", "transform"}

Init ==
    /\ \E c \in Cases : route = c /\ original \in c.messages
    /\ message = original
    /\ stage = "filter"
    /\ next = 1

(* filterMessage: the first filter that does not match ends it.             *)
FilterMessage ==
    /\ stage = "filter"
    /\ next <= Len(route.filters)
    /\ IF Match(route.filters[next], message)
         THEN next' = next + 1 /\ stage' = stage
         ELSE next' = next /\ stage' = "filtered"
    /\ UNCHANGED <<route, original, message>>

Accepted ==
    /\ stage = "filter"
    /\ next > Len(route.filters)
    /\ stage' = "transform"
    /\ next' = 1
    /\ UNCHANGED <<route, original, message>>

(* transformMessage: the first error or nil ends it.                        *)
TransformMessage ==
    /\ stage = "transform"
    /\ next <= Len(route.transformers)
    /\ LET r == Transform(route.transformers[next], message)
       IN  /\ message' = r.message
           /\ IF r.is = "ok" THEN next' = next + 1 /\ stage' = stage
                             ELSE next' = next /\ stage' = r.is
    /\ UNCHANGED <<route, original>>

HandOver ==
    /\ stage = "transform"
    /\ next > Len(route.transformers)
    /\ stage' = "handed"
    /\ UNCHANGED <<route, original, message, next>>

(* The next message; the session recovers from a panic (safelyCallHandler). *)
Receive ==
    /\ stage \notin Busy
    /\ original' \in route.messages
    /\ message' = original'
    /\ stage' = "filter"
    /\ next' = 1
    /\ UNCHANGED route

Next ==
    \/ FilterMessage \/ Accepted \/ TransformMessage \/ HandOver \/ Receive

Spec == Init /\ [][Next]_vars

-----------------------------------------------------------------------------
(* The rule of the comments for topics, and what a filter stands for.       *)
RECURSIVE Means(_, _)
Means(f, m) ==
    CASE f.kind = "topic" -> Covers(f.pattern, m.topic)
      [] f.kind = "and" -> \A i \in DOMAIN f.of : Means(f.of[i], m)
      [] f.kind = "or" -> f.of = <<>> \/ \E i \in DOMAIN f.of :
                                            Means(f.of[i], m)
      [] OTHER -> Match(f, m)

(* A message is filtered exactly when a filter of the route, read by the    *)
(* rule TopicMatch documents (filter.go:188-191: "+" one level, "#" the     *)
(* levels that are left, none included), does not stand for it.             *)
FiltersRespected ==
    LET wanted == \A i \in DOMAIN route.filters :
                      Means(route.filters[i], original)
    IN  /\ stage = "filtered" => ~wanted
        /\ stage \notin {"filter", "filtered"} => wanted

(* The JSON fields a chain sets, composites taken apart, in their order.    *)
RECURSIVE Flat(_)
Flat(ts) ==
    FlattenSeq([i \in DOMAIN ts |-> IF ts[i].kind = "composite"
                                      THEN Flat(ts[i].of) ELSE <<ts[i]>>])
Writes == SelectSeq(Flat(route.transformers), LAMBDA t : t.kind = "json")

Target(t) ==
    Append(SelectSeq(Front(t.path), LAMBDA part : part # ""), Last(t.path))

Touches(p, q) == IsPrefix(p, q) \/ IsPrefix(q, p)

(* What the k-th of them wrote, or the sender if k is 0, as the end of the  *)
(* chain has it: decoded by those after it.                                 *)
Reread(v, k) == IF k < Len(Writes) THEN Decoded(v) ELSE v

(* A chain of JsonPath transformers (and none of the user's functions) that *)
(* hands a message over has set every field it names, unless a later one    *)
(* names a field above or below it; it has kept every field of the received *)
(* object that none of them touches, but for the rounding of what each      *)
(* transformer decodes (transformer.go:145-156); it has added nothing else, *)
(* and what has fields in the result is a map.                              *)
JsonPathsSet ==
    /\ stage = "handed"
    /\ original.payload.kind = "json"
    /\ \A i \in DOMAIN Flat(route.transformers) :
         Flat(route.transformers)[i].kind # "payload"
    =>
    LET before == original.payload.tree
        after == message.payload.tree
        at(i) == Target(Writes[i])
    IN  /\ \A i \in DOMAIN Writes : Writes[i].value # Chan
        /\ \A p \in DOMAIN after :
             Len(p) > 1 => IsObject(after, Front(p))
        /\ \A i \in DOMAIN Writes :
             (\A j \in i + 1..Len(Writes) : ~Touches(at(i), at(j))) =>
                 /\ at(i) \in DOMAIN after
                 /\ after[at(i)] = Reread(Writes[i].value, i)
        /\ \A p \in DOMAIN before :
             (\A i \in DOMAIN Writes : ~Touches(p, at(i))) =>
                 p \in DOMAIN after /\ after[p] = Reread(before[p], 0)
        /\ \A p \in DOMAIN after \ DOMAIN before :
             \E i \in DOMAIN Writes : IsPrefix(p, at(i))

=============================================================================
