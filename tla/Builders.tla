------------------------------ MODULE Builders ------------------------------
(***************************************************************************)
(* SessionBuilder and ForwarderBuilder (builder.go) and the Options they   *)
(* and the program make (options.go).  What a call changes is what its     *)
(* receiver points to, so the model has a heap: an object is the addresses *)
(* of its parts, a part the values of its fields.  A value is Bad (empty,  *)
(* nil, zero or out of range), the Default, or one that was passed.        *)
(***************************************************************************)
EXTENDS Naturals, Sequences

CONSTANTS
    Given,        \* good values the program passes
    MaxCalls      \* bound: calls of the program

Bad == "bad"
Default == "default"
Values == Given \cup {Bad}
Flags == {"on", "off"}
Nil == 0

VARIABLES
    heap,         \* the parts of all objects, by address
    objects,      \* the addresses of each one's parts
    rejected,     \* the builders with an error recorded
    sessions,     \* objects that AddSession took
    receiver,     \* of the last call
    calls

vars == <<heap, objects, rejected, sessions, receiver, calls>>

SB == 1                            \* b.opts of the SessionBuilder
FB == 2                            \* fb.config of the ForwarderBuilder
IsOptions(o) == "storage" \in DOMAIN objects[o]
Programs == {o \in DOMAIN objects : o # SB /\ IsOptions(o)}

(* The parts of new Options with this name, as DefaultOptions has them.     *)
DefaultOptions(name) ==
    << [name |-> name, brokers |-> Default, clientID |-> Default,
        auth |-> Default, tls |-> Default, topics |-> Default],
       [clean |-> "on", autoReconnect |-> "on", persistent |-> "off",
        keepAlive |-> Default, reconnect |-> Default, timeouts |-> Default],
       [buffers |-> Default, channel |-> Default],
       [type |-> "memory", path |-> Bad, addr |-> Default, login |-> Default] >>

OptionsAt(n) == [self |-> n, props |-> n + 1, perf |-> n + 2, storage |-> n + 3]

ForwarderConfig(name) ==
    [name |-> name, source |-> Bad, target |-> Bad, qos |-> Default,
     bufferSize |-> Default, enabled |-> "on"]

Init ==
    /\ \E name \in Values :
         heap = Append(DefaultOptions(name), ForwarderConfig(name))
    /\ objects = <<OptionsAt(1), [self |-> 5, topicMap |-> Nil]>>
    /\ rejected = {}
    /\ sessions = {}
    /\ receiver = SB
    /\ calls = 0

-----------------------------------------------------------------------------
(* What a call does to its receiver.                                        *)
Called(o) ==
    /\ calls < MaxCalls
    /\ calls' = calls + 1
    /\ receiver' = o

Reject(o) ==
    /\ Called(o)
    /\ rejected' = rejected \cup {o}
    /\ UNCHANGED <<heap, objects, sessions>>

Ignore(o) ==
    /\ Called(o)
    /\ UNCHANGED <<heap, objects, rejected, sessions>>

(* These fields of a part get new values.                                   *)
Set(part, fields) ==
    [f \in DOMAIN part |-> IF f \in DOMAIN fields THEN fields[f] ELSE part[f]]

Change(o, part, fields) ==
    /\ Called(o)
    /\ heap' = [heap EXCEPT ![objects[o][part]] = Set(@, fields)]
    /\ UNCHANGED <<objects, rejected, sessions>>

(* The part becomes a new one.                                              *)
Renew(o, part, fields) ==
    /\ Called(o)
    /\ heap' = Append(heap, fields)
    /\ objects' = [objects EXCEPT ![o][part] = Len(heap')]
    /\ UNCHANGED <<rejected, sessions>>

Checked(o, part, field, v) ==
    \/ v = Bad /\ Reject(o)
    \/ v # Bad /\ Change(o, part, [f \in {field} |-> v])

Defaulted(o, part, field, v) ==
    Change(o, part, [f \in {field} |-> IF v = Bad THEN Default ELSE v])

-----------------------------------------------------------------------------
(* SessionBuilder.                                                          *)
Brokers(v) == Checked(SB, "self", "brokers", v)
ClientID(v) == Checked(SB, "self", "clientID", v)
Auth(v) == Change(SB, "self", [auth |-> v])
TLS(v) == Change(SB, "self", [tls |-> v])
CleanSession(on) == Change(SB, "props", [clean |-> on])
KeepAlive(v) == Checked(SB, "props", "keepAlive", v)
AutoReconnect(on) == Change(SB, "props", [autoReconnect |-> on])
ReconnectConfig(v) == Defaulted(SB, "props", "reconnect", v)
Timeouts(v) == Defaulted(SB, "props", "timeouts", v)
Performance(v) == Defaulted(SB, "perf", "buffers", v)
MessageChannelSize(v) == Defaulted(SB, "perf", "channel", v)
Persistent == Change(SB, "props", [persistent |-> "on", clean |-> "off"])

(* Redis is nil.                                                            *)
FileStorage(v) ==
    \/ v = Bad /\ Reject(SB)
    \/ v # Bad /\ Renew(SB, "storage",
         [type |-> "file", path |-> v, addr |-> "nil", login |-> Default])

RedisStorage(v) ==
    \/ v = Bad /\ Reject(SB)
    \/ v # Bad /\ Renew(SB, "storage",
         [type |-> "redis", path |-> Bad, addr |-> v, login |-> Default])

(* A Redis that was nil is made: DefaultRedisOptions.                       *)
RedisMade(storage) == IF storage.addr = "nil" THEN Default ELSE storage.addr

RedisAuth(v) ==
    LET storage == heap[objects[SB].storage]
    IN  \/ storage.type # "redis" /\ Reject(SB)
        \/ storage.type = "redis"
           /\ Change(SB, "storage",
                     [login |-> v, addr |-> RedisMade(storage)])

Subscribe(v) == Checked(SB, "self", "topics", v)

Reset(name) ==
    /\ Called(SB)
    /\ heap' = heap \o DefaultOptions(name)
    /\ objects' = [objects EXCEPT ![SB] = OptionsAt(Len(heap) + 1)]
    /\ rejected' = rejected \ {SB}
    /\ UNCHANGED sessions

-----------------------------------------------------------------------------
(* Options.Validate.                                                        *)
Names(o) == {heap[objects[o].self][f] : f \in {"name", "brokers", "clientID"}}

StoreIsGood(storage) ==
    /\ storage.type = "file" => storage.path # Bad
    /\ storage.type = "redis" => storage.addr # Bad

Valid(o) ==
    /\ Bad \notin Names(o)
    /\ heap[objects[o].self].topics # Bad
    /\ StoreIsGood(heap[objects[o].storage])

Defaults(part) ==
    [f \in DOMAIN part |-> IF part[f] = Bad THEN Default ELSE part[f]]

StoreSet(s) ==
    CASE s.type = "redis" -> [s EXCEPT !.addr = RedisMade(s)]
      [] s.type = "other" -> [s EXCEPT !.type = "memory"]
      [] OTHER -> s

(* Variant: the performance options are taken as they are.                  *)
ValidatedProps(o) ==
    IF Bad \in Names(o) THEN heap
    ELSE [heap EXCEPT
            ![objects[o].props] = Defaults(@),
            ![objects[o].storage] = IF Valid(o) THEN StoreSet(@) ELSE @]

(* What Validate sets on the way: a bad topic or store is met only after    *)
(* the properties and the performance options have their defaults.          *)
Validated(o) ==
    IF Bad \in Names(o) THEN heap
    ELSE [heap EXCEPT
            ![objects[o].props] = Defaults(@),
            ![objects[o].perf] = Defaults(@),
            ![objects[o].storage] = IF Valid(o) THEN StoreSet(@) ELSE @]

(* Variant: Clone copies the struct alone.                                  *)
CloneShallow(o, h) ==
    /\ heap' = Append(h, h[objects[o].self])
    /\ objects' = Append(objects, [objects[o] EXCEPT !.self = Len(h) + 1])

(* Options.Clone: ConnectProps, TLS, Performance, Topics and Brokers are    *)
(* copied; Storage is the same one.                                         *)
Clone(o, h) ==
    /\ heap' = h \o << h[objects[o].self], h[objects[o].props],
                       h[objects[o].perf] >>
    /\ objects' = Append(objects, [OptionsAt(Len(h) + 1) EXCEPT
                                     !.storage = objects[o].storage])

Build ==
    /\ Called(SB)
    /\ SB \notin rejected
    /\ \/ Valid(SB) /\ Clone(SB, Validated(SB))
       \/ ~Valid(SB) /\ heap' = Validated(SB) /\ UNCHANGED objects
    /\ UNCHANGED <<rejected, sessions>>

-----------------------------------------------------------------------------
(* Options made by the program, or built.                                   *)
NewOptions ==
    /\ Called(Len(objects) + 1)
    /\ heap' = heap \o DefaultOptions(Default)
    /\ objects' = Append(objects, OptionsAt(Len(heap) + 1))
    /\ UNCHANGED <<rejected, sessions>>

WithTLS(o, v) == Change(o, "self", [tls |-> v])
(* uint(chanSize): a negative size becomes a huge one, which is positive.   *)
WithPerformance(o, v) ==
    \E c \in {v} \cup {x \in {"huge"} : v = Bad} :
        Change(o, "perf", [buffers |-> v, channel |-> c])
WithPersistence(o, on) == Change(o, "props", [persistent |-> on])
WithReconnect(o, on, v) ==
    Change(o, "props", IF v = Bad THEN [autoReconnect |-> on]
                       ELSE [autoReconnect |-> on, reconnect |-> v])
WithTimeout(o, v) == Change(o, "props", [timeouts |-> v])
WithCleanSession(o, on) == Change(o, "props", [clean |-> on])
WithAuth(o, v) == Change(o, "self", [auth |-> v])
WithStorage(o, type, v) == Change(o, "storage", [type |-> type, path |-> v])
WithRedisStorage(o, v) ==
    Change(o, "storage", [type |-> "redis", addr |-> v, login |-> v])

(* AddSession: Validate sets the program's own Options right.               *)
AddSession(o) ==
    /\ Called(o)
    /\ heap' = Validated(o)
    /\ sessions' = sessions \cup {x \in {o} : Valid(o)}
    /\ UNCHANGED <<objects, rejected>>

-----------------------------------------------------------------------------
(* ForwarderBuilder.                                                        *)
Source(v) == Checked(FB, "self", "source", v)
Target(v) == Checked(FB, "self", "target", v)
QoS(v) == Checked(FB, "self", "qos", v)
BufferSize(v) == Defaulted(FB, "self", "bufferSize", v)
(* Mappings that are nil or empty change nothing; an entry without a source *)
(* or a destination is left out, if need be all.                            *)
TopicMapping(v) ==
    \/ v = Bad /\ Ignore(FB)
    \/ Renew(FB, "topicMap", [to |-> v])
MapTopic(v) ==
    \/ v = Bad /\ Reject(FB)
    \/ /\ v # Bad
       /\ IF objects[FB].topicMap = Nil
            THEN Renew(FB, "topicMap", [to |-> v])
            ELSE Change(FB, "topicMap", [to |-> v])
Enable(on) == Change(FB, "self", [enabled |-> on])

(* The config is returned by value, its TopicMap is the builder's.          *)
BuildForwarder ==
    LET config == heap[objects[FB].self]
    IN  /\ Called(FB)
        /\ FB \notin rejected
        /\ Bad \notin {config.name, config.source, config.target}
        /\ heap' = Append(heap, config)
        /\ objects' = Append(objects, [objects[FB] EXCEPT !.self = Len(heap')])
        /\ UNCHANGED <<rejected, sessions>>

-----------------------------------------------------------------------------
BuilderCall ==
    \E v \in Values :
      \/ Brokers(v) \/ ClientID(v) \/ KeepAlive(v) \/ Subscribe(v)
      \/ Auth(v) \/ TLS(v) \/ ReconnectConfig(v) \/ Timeouts(v)
      \/ Performance(v) \/ MessageChannelSize(v)
      \/ FileStorage(v) \/ RedisStorage(v) \/ RedisAuth(v) \/ Reset(v)
      \/ Source(v) \/ Target(v) \/ QoS(v) \/ BufferSize(v)
      \/ TopicMapping(v) \/ MapTopic(v)

FlagCall ==
    \E on \in Flags : CleanSession(on) \/ AutoReconnect(on) \/ Enable(on)

OptionsCall ==
    \E o \in Programs, v \in Values, on \in Flags :
      \/ WithTLS(o, v) \/ WithPerformance(o, v) \/ WithTimeout(o, v)
      \/ WithAuth(o, v) \/ WithRedisStorage(o, v) \/ WithReconnect(o, on, v)
      \/ WithPersistence(o, on) \/ WithCleanSession(o, on)
      \/ \E type \in {"memory", "file", "redis", "other"} :
             WithStorage(o, type, v)
      \/ AddSession(o)

Next ==
    \/ BuilderCall \/ FlagCall \/ Persistent \/ Build \/ BuildForwarder
    \/ NewOptions \/ OptionsCall

Spec == Init /\ [][Next]_vars

-----------------------------------------------------------------------------
(* A call changes its receiver alone: what a builder returned stays what it *)
(* was when the builder is used again, and the other way round, but for the *)
(* Storage and the TopicMap that Clone and Build share (options.go:193,     *)
(* builder.go:291, builder.go:480).                                         *)
Shared == {"storage", "topicMap"}

OthersKept ==
    [][\A o \in DOMAIN objects \ {receiver'} :
         \A part \in DOMAIN objects[o] \ Shared :
           heap'[objects'[o][part]] = heap[objects[o][part]]]_vars

(* Options that AddSession takes are usable, whatever With... was given:    *)
(* every field Validate knows is set, and the storage has what its type     *)
(* needs, although it may be shared with others (options.go:58-154).        *)
Usable(o) ==
    /\ \A part \in {"self", "props", "perf"} :
         \A f \in DOMAIN heap[objects[o][part]] \ {"auth", "tls"} :
           heap[objects[o][part]][f] # Bad
    /\ LET s == heap[objects[o].storage]
       IN  \/ s.type = "memory"
           \/ s.type = "file" /\ s.path # Bad
           \/ s.type = "redis" /\ s.addr \notin {Bad, "nil"}

AddedIsUsable ==
    [][\A o \in sessions' \ sessions : Usable(o)']_vars

=============================================================================
