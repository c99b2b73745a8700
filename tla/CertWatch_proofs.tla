-------------------------- MODULE CertWatch_proofs --------------------------
(***************************************************************************)
(* However many sessions, watchers and replacements there are, a panic in  *)
(* StopCertWatcher needs a second one that began during the first.  Then   *)
(* the Options through which sessions come to share such a configuration:  *)
(* whatever calls make and set them, no call changes another's, and those  *)
(* that AddSession takes are usable.                                       *)
(***************************************************************************)
EXTENDS CertWatch, SharedOptions, Sequences, TLAPS

Born(w) == at[w] # "unborn"

(* Types, as far as the argument needs them.                                *)
Shapes ==
    /\ at \in [Watchers -> {"unborn", "begin", "select", "changed", "reload",
                            "reloadFunc", "ended"}]
    /\ step \in [Callers -> {"idle", "build", "watch", "check", "stop", "wait",
                             "clear"}]
    /\ watcher \in Watchers \cup {Nil}
    /\ closed \subseteq Watchers
    /\ building \in Callers \cup {NoOne}
    /\ overlapped \in BOOLEAN

(* A watcher that has not begun is neither closed nor c.watcher.            *)
ClosedAreBorn == \A w \in Watchers : w \in closed \/ w = watcher => Born(w)

(* Who builds is the manager in AddSession, or a watcher in a reload.       *)
BuilderBuilds ==
    building # NoOne =>
        \/ building = Manager /\ step[Manager] = "build"
        \/ building \in Watchers /\ at[building] = "reload"

(* A caller that is not in StopCertWatcher when the watcher reloads.        *)
ReloadIsIdle ==
    \A w \in Watchers : at[w] # "reloadFunc" => step[w] = "idle"

OneStops == \A c, d \in Callers : Stopping(c) /\ Stopping(d) => c = d

(* Before its close the caller still holds a watcher that is not closed.    *)
StopIsSafe ==
    \A c \in Callers :
        step[c] = "stop" => watcher # Nil /\ watcher \notin closed

ClosedIsBeingStopped ==
    watcher # Nil /\ watcher \in closed => \E c \in Callers : Stopping(c)

Orderly ==
    ~overlapped => /\ OneStops
                   /\ StopIsSafe
                   /\ ClosedIsBeingStopped

IInv ==
    /\ Shapes
    /\ ClosedAreBorn
    /\ BuilderBuilds
    /\ ReloadIsIdle
    /\ Orderly
    /\ PanicNeedsOverlap

-----------------------------------------------------------------------------
LEMMA Actors ==
    /\ Watchers \subseteq Nat \ {0} /\ Watchers \subseteq Callers
    /\ Manager \in Callers /\ User \in Callers
    /\ Manager \notin Watchers /\ User \notin Watchers /\ Manager # User
    /\ Nil \notin Watchers /\ NoOne \notin Callers
BY BoundsAssumption DEF Watchers, Callers, Manager, User, Nil, NoOne

LEMMA InitIInv == Init => IInv
<1> SUFFICES ASSUME Init PROVE IInv
  OBVIOUS
<1>1. Shapes
  BY Actors DEF Init, Shapes
<1>2. ClosedAreBorn /\ BuilderBuilds /\ ReloadIsIdle
  BY Actors DEF Init, ClosedAreBorn, BuilderBuilds, ReloadIsIdle
<1>3. Orderly /\ PanicNeedsOverlap
  BY Actors DEF Init, Orderly, OneStops, StopIsSafe, ClosedIsBeingStopped,
     Stopping, PanicNeedsOverlap
<1> QED
  BY <1>1, <1>2, <1>3 DEF IInv

(* What a step that touches neither a caller nor the watchers' channels     *)
(* keeps.                                                                   *)
LEMMA Frame ==
    ASSUME IInv, step' = step, UNCHANGED pointer, UNCHANGED rest
    PROVE  Orderly' /\ PanicNeedsOverlap'
BY DEF IInv, Orderly, OneStops, StopIsSafe, ClosedIsBeingStopped, Stopping,
   PanicNeedsOverlap, pointer, rest

(* The same when a caller outside StopCertWatcher stays outside.            *)
LEMMA FrameOutside ==
    ASSUME IInv, UNCHANGED pointer, UNCHANGED rest,
           NEW c \in Callers, ~Stopping(c),
           NEW s \in {"idle", "build", "watch", "check"}, Goes(c, s)
    PROVE  Orderly' /\ PanicNeedsOverlap'
<1>1. step' = [step EXCEPT ![c] = s] /\ step \in [Callers -> {"idle", "build",
        "watch", "check", "stop", "wait", "clear"}]
  BY DEF Goes, IInv, Shapes
<1>2. \A d \in Callers : /\ Stopping(d)' <=> Stopping(d)
                         /\ step'[d] = "stop" <=> step[d] = "stop"
  BY <1>1 DEF Stopping
<1>3. watcher' = watcher /\ closed' = closed /\ overlapped' = overlapped
      /\ panicked' = panicked
  BY DEF pointer, rest
<1>4. (OneStops => OneStops') /\ (StopIsSafe => StopIsSafe')
      /\ (ClosedIsBeingStopped => ClosedIsBeingStopped')
  BY <1>2, <1>3 DEF OneStops, StopIsSafe, ClosedIsBeingStopped
<1> QED
  BY <1>3, <1>4 DEF IInv, Orderly, PanicNeedsOverlap

(* A goroutine that moves on while its caller part is idle.                 *)
LEMMA FrameWatch ==
    ASSUME IInv, NEW w \in Watchers, Born(w), at[w] # "reloadFunc",
           building # w,
           NEW a \in {"select", "changed", "reload", "ended"},
           Moves(w, a), step' = step, building' = building,
           UNCHANGED pointer, UNCHANGED rest
    PROVE  IInv'
<1>1. at' = [at EXCEPT ![w] = a] /\ at' \in [Watchers -> {"unborn", "begin",
        "select", "changed", "reload", "reloadFunc", "ended"}]
  BY DEF Moves, IInv, Shapes
<1>2. \A v \in Watchers : /\ Born(v) => Born(v)'
                          /\ v # w => at'[v] = at[v]
  BY <1>1 DEF Born, IInv, Shapes
<1>3. Shapes'
  BY <1>1 DEF IInv, Shapes, pointer, rest
<1>4. ClosedAreBorn'
  BY <1>2 DEF IInv, ClosedAreBorn, pointer
<1>5. BuilderBuilds'
  BY <1>2 DEF IInv, BuilderBuilds
<1>6. ReloadIsIdle'
  BY <1>2 DEF IInv, ReloadIsIdle
<1> QED
  BY <1>3, <1>4, <1>5, <1>6, Frame DEF IInv

LEMMA ReplaceKeeps ==
    ASSUME IInv, NEW f \in Files, Replace(f)
    PROVE  IInv'
<1>1. Shapes' /\ ClosedAreBorn' /\ BuilderBuilds' /\ ReloadIsIdle'
  BY DEF IInv, Replace, Shapes, ClosedAreBorn, Born, BuilderBuilds,
     ReloadIsIdle, tls, goroutines, callers, pointer, rest
<1>2. Orderly' /\ PanicNeedsOverlap'
  BY Frame DEF Replace, callers
<1> QED
  BY <1>1, <1>2 DEF IInv

LEMMA ReadCertKeeps ==
    ASSUME IInv, NEW c \in Callers, ReadCert(c)
    PROVE  IInv'
<1>1. Shapes' /\ ClosedAreBorn' /\ ReloadIsIdle'
  BY DEF IInv, ReadCert, Shapes, ClosedAreBorn, Born, ReloadIsIdle,
     goroutines, callers, pointer, rest
<1>2. BuilderBuilds'
  BY DEF ReadCert, BuilderBuilds, goroutines, callers
<1>3. Orderly' /\ PanicNeedsOverlap'
  BY Frame DEF ReadCert, callers
<1> QED
  BY <1>1, <1>2, <1>3 DEF IInv

(* ReadKey sends the manager on to "watch", a watcher back to select or     *)
(* into the reload function: all of them outside StopCertWatcher.           *)
LEMMA ReadKeyKeeps ==
    ASSUME IInv, NEW c \in Callers, ReadKey(c)
    PROVE  IInv'
<1>1. PICK ok \in BOOLEAN : Built(c, ok)
  BY DEF ReadKey
<1>2. /\ building = c /\ building' = NoOne
      /\ UNCHANGED pointer /\ UNCHANGED rest
  BY DEF ReadKey
<1>3. CASE c = Manager
  <2>1. PICK s \in {"watch", "idle"} : Goes(c, s)
    BY <1>1, <1>3 DEF Built
  <2>2. at' = at /\ step[c] = "build"
    BY <1>1, <1>2, <1>3, Actors DEF Built, IInv, BuilderBuilds
  <2>3. Shapes'
    BY <1>2, <2>1, <2>2 DEF IInv, Shapes, Goes, pointer, rest
  <2>4. ClosedAreBorn' /\ BuilderBuilds'
    BY <1>2, <2>2 DEF IInv, ClosedAreBorn, Born, BuilderBuilds, pointer
  <2>5. ReloadIsIdle'
    BY <1>3, <2>1, <2>2, Actors DEF IInv, ReloadIsIdle, Goes, Shapes
  <2>6. Orderly' /\ PanicNeedsOverlap'
    BY <1>2, <2>1, <2>2, FrameOutside DEF Stopping
  <2> QED
    BY <2>3, <2>4, <2>5, <2>6 DEF IInv
<1>4. CASE c # Manager
  <2>1. c \in Watchers /\ at[c] = "reload"
    BY <1>2, <1>4, Actors DEF IInv, BuilderBuilds
  <2>2. step[c] = "idle"
    BY <2>1 DEF IInv, ReloadIsIdle
  <2>3. PICK a \in {"select", "reloadFunc"}, s \in {"idle", "check"} :
          /\ Moves(c, a) /\ Goes(c, s)
          /\ a = "select" => s = "idle"
    <3>1. CASE ok /\ reconnects
      BY <1>1, <1>4, <3>1 DEF Built
    <3>2. CASE ~(ok /\ reconnects)
      <4>1. Moves(c, "select") /\ step' = step
        BY <1>1, <1>4, <3>2 DEF Built
      <4>2. Goes(c, "idle")
        BY <2>2, <4>1 DEF Goes, IInv, Shapes
      <4> QED
        BY <4>1, <4>2
    <3> QED
      BY <3>1, <3>2
  <2>4. Shapes'
    BY <1>2, <2>3 DEF IInv, Shapes, Goes, Moves, pointer, rest
  <2>5. ClosedAreBorn' /\ BuilderBuilds'
    BY <1>2, <2>3 DEF IInv, ClosedAreBorn, Born, BuilderBuilds, Moves, Shapes,
       pointer
  <2>6. ReloadIsIdle'
    BY <2>1, <2>3, Actors DEF IInv, ReloadIsIdle, Goes, Moves, Shapes
  <2>7. Orderly' /\ PanicNeedsOverlap'
    BY <1>2, <2>2, <2>3, FrameOutside DEF Stopping
  <2> QED
    BY <2>4, <2>5, <2>6, <2>7 DEF IInv
<1> QED
  BY <1>3, <1>4

(* AddSession and Disconnect: the manager or the user leaves "idle".        *)
LEMMA CallKeeps ==
    ASSUME IInv, NEW c \in {Manager, User}, step[c] = "idle",
           NEW s \in {"build", "check"}, Goes(c, s),
           UNCHANGED <<tls, goroutines, pointer, rest>>
    PROVE  IInv'
<1>1. Shapes'
  BY Actors DEF IInv, Shapes, Goes, tls, goroutines, pointer, rest
<1>2. ClosedAreBorn' /\ ReloadIsIdle'
  BY Actors DEF IInv, ClosedAreBorn, Born, ReloadIsIdle, Goes, Shapes,
     goroutines, pointer
<1>3. BuilderBuilds'
  BY Actors DEF IInv, BuilderBuilds, Goes, Shapes, goroutines, tls
<1>4. Orderly' /\ PanicNeedsOverlap'
  BY FrameOutside, Actors DEF Stopping
<1> QED
  BY <1>1, <1>2, <1>3, <1>4 DEF IInv

(* The one step that makes a watcher c.watcher: it was not born, so it is   *)
(* not closed.                                                              *)
LEMMA StartKeeps ==
    ASSUME IInv, StartCertWatcher
    PROVE  IInv'
<1>1. /\ step[Manager] = "watch" /\ Goes(Manager, "idle")
      /\ closed' = closed /\ building' = building /\ UNCHANGED rest
  BY DEF StartCertWatcher, tls
<1>2. building # Manager
  BY <1>1, Actors DEF IInv, BuilderBuilds
<1>3. /\ step' \in [Callers -> {"idle", "build", "watch", "check", "stop",
                                "wait", "clear"}]
      /\ step'[Manager] = "idle"
      /\ \A d \in Callers \ {Manager} : step'[d] = step[d]
  BY <1>1, Actors DEF IInv, Shapes, Goes
<1>4. CASE watcher' = watcher /\ at' = at
  <2>1. Shapes' /\ ClosedAreBorn'
    BY <1>1, <1>3, <1>4 DEF IInv, Shapes, ClosedAreBorn, Born, rest
  <2>2. BuilderBuilds' /\ ReloadIsIdle'
    BY <1>1, <1>2, <1>3, <1>4, Actors DEF IInv, BuilderBuilds, ReloadIsIdle
  <2>3. Orderly' /\ PanicNeedsOverlap'
    BY <1>1, <1>4, FrameOutside, Actors DEF Stopping, pointer
  <2> QED
    BY <2>1, <2>2, <2>3 DEF IInv
<1>5. CASE watcher = Nil /\ \E w \in Watchers : /\ at[w] = "unborn"
                                                /\ watcher' = w
                                                /\ Moves(w, "begin")
  <2>1. PICK w \in Watchers :
           at[w] = "unborn" /\ watcher' = w /\ Moves(w, "begin")
    BY <1>5
  <2>2. at' = [at EXCEPT ![w] = "begin"]
    BY <2>1 DEF Moves
  <2>3. w \notin closed
    BY <2>1 DEF IInv, ClosedAreBorn, Born
  <2>4. Shapes'
    BY <1>1, <1>3, <2>1, <2>2 DEF IInv, Shapes, rest
  <2>5. ClosedAreBorn'
    BY <1>1, <2>1, <2>2 DEF IInv, ClosedAreBorn, Born, Shapes
  <2>6. BuilderBuilds'
    BY <1>1, <1>2, <1>3, <2>1, <2>2, Actors DEF IInv, BuilderBuilds, Shapes
  <2>7. ReloadIsIdle'
    BY <1>3, <2>1, <2>2, Actors DEF IInv, ReloadIsIdle, Shapes
  <2>8. \A d \in Callers : /\ Stopping(d)' <=> Stopping(d)
                           /\ step'[d] = "stop" <=> step[d] = "stop"
    <3> TAKE d \in Callers
    <3>1. CASE d = Manager
      BY <1>1, <1>3, <3>1 DEF Stopping
    <3>2. CASE d # Manager
      BY <1>3, <3>2 DEF Stopping
    <3> QED
      BY <3>1, <3>2
  <2>9. (OneStops => OneStops') /\ ClosedIsBeingStopped' /\ StopIsSafe'
    BY <1>1, <2>1, <2>3, <2>8, Actors
    DEF OneStops, ClosedIsBeingStopped, StopIsSafe
  <2> QED
    BY <1>1, <2>4, <2>5, <2>6, <2>7, <2>9
    DEF IInv, Orderly, PanicNeedsOverlap, rest
<1> QED
  BY <1>4, <1>5 DEF StartCertWatcher

LEMMA WatchKeeps ==
    ASSUME IInv, NEW w \in Watchers,
           \/ WatchBegins(w) \/ WatchTicks(w) \/ ReloadCertificates(w)
           \/ WatchStops(w)
    PROVE  IInv'
<1>1. PICK a \in {"select", "changed", "reload", "ended"} :
        /\ Moves(w, a)
        /\ at[w] \in {"begin", "select", "changed"}
  BY DEF WatchBegins, WatchTicks, ReloadCertificates, WatchStops
<1>2. /\ step' = step /\ building' = building
      /\ UNCHANGED pointer /\ UNCHANGED rest
  BY DEF WatchBegins, WatchTicks, ReloadCertificates, WatchStops, tls, callers
<1>3. building # w
  BY <1>1, Actors DEF IInv, BuilderBuilds
<1> QED
  BY <1>1, <1>2, <1>3, FrameWatch DEF Born

-----------------------------------------------------------------------------
(* The steps of StopCertWatcher leave the goroutines and the builder alone. *)
LEMMA StopFrame ==
    ASSUME IInv, NEW c \in Callers, step[c] # "idle", step[c] # "build",
           NEW s \in {"idle", "stop", "wait", "clear"}, Goes(c, s),
           UNCHANGED <<tls, goroutines>>,
           watcher' \in {watcher, Nil}, closed' \subseteq closed \cup {watcher},
           watcher # Nil \/ closed' = closed,
           overlapped' \in BOOLEAN
    PROVE  Shapes' /\ ClosedAreBorn' /\ BuilderBuilds' /\ ReloadIsIdle'
<1>1. Shapes'
  BY DEF IInv, Shapes, Goes, tls, goroutines
<1>2. ClosedAreBorn'
  BY Actors DEF IInv, ClosedAreBorn, Born, goroutines
<1>3. BuilderBuilds'
  BY Actors DEF IInv, BuilderBuilds, Shapes, Goes, tls, goroutines
<1>4. ReloadIsIdle'
  BY Actors DEF IInv, ReloadIsIdle, Shapes, Goes, goroutines
<1> QED
  BY <1>1, <1>2, <1>3, <1>4

LEMMA CheckKeeps ==
    ASSUME IInv, NEW c \in Callers, StopCertWatcher(c)
    PROVE  IInv'
<1> DEFINE s == IF watcher = Nil THEN "idle" ELSE "stop"
<1>1. /\ step[c] = "check" /\ Goes(c, s)
      /\ overlapped' = (overlapped \/ \E d \in Callers \ {c} : Stopping(d))
      /\ UNCHANGED pointer /\ panicked' = panicked
  BY DEF StopCertWatcher
<1>2. Shapes' /\ ClosedAreBorn' /\ BuilderBuilds' /\ ReloadIsIdle'
  BY <1>1, StopFrame DEF StopCertWatcher, pointer, IInv, Shapes
<1>3. PanicNeedsOverlap'
  BY <1>1 DEF IInv, PanicNeedsOverlap
<1>4. ASSUME ~overlapped'
      PROVE  OneStops' /\ StopIsSafe' /\ ClosedIsBeingStopped'
  <2>1. \A d \in Callers : ~Stopping(d)
    BY <1>1, <1>4 DEF Stopping
  <2>2. \A d \in Callers \ {c} : step'[d] = step[d]
    BY <1>1 DEF Goes, IInv, Shapes
  <2>3. \A d \in Callers : Stopping(d)' => d = c
    BY <2>1, <2>2 DEF Stopping
  <2>4. watcher # Nil => watcher \notin closed
    BY <1>1, <1>4, <2>1 DEF IInv, Orderly, ClosedIsBeingStopped
  <2>5. step'[c] = s
    BY <1>1 DEF Goes, IInv, Shapes
  <2>6. OneStops' /\ ClosedIsBeingStopped'
    BY <1>1, <2>3, <2>4 DEF OneStops, ClosedIsBeingStopped, pointer
  <2>7. StopIsSafe'
    BY <1>1, <2>3, <2>4, <2>5 DEF StopIsSafe, Stopping, pointer
  <2> QED
    BY <2>6, <2>7
<1> QED
  BY <1>2, <1>3, <1>4 DEF IInv, Orderly

(* Alone in StopCertWatcher, a caller closes a watcher that is not closed.  *)
LEMMA StopKeeps ==
    ASSUME IInv, NEW c \in Callers, Stop(c)
    PROVE  IInv'
<1>1. step[c] = "stop" /\ watcher' = watcher /\ overlapped' = overlapped
  BY DEF Stop
<1>2. CASE watcher = Nil \/ watcher \in closed
  <2>1. panicked' = TRUE /\ closed' = closed /\ step' = step
        /\ UNCHANGED <<tls, goroutines>>
    BY <1>2 DEF Stop
  <2>2. overlapped
    BY <1>1, <1>2 DEF IInv, Orderly, StopIsSafe, Shapes
  <2> QED
    BY <1>1, <2>1, <2>2 DEF IInv, Shapes, ClosedAreBorn, Born, BuilderBuilds,
       ReloadIsIdle, Orderly, PanicNeedsOverlap, tls, goroutines
<1>3. CASE ~(watcher = Nil \/ watcher \in closed)
  <2>1. /\ closed' = closed \cup {watcher} /\ Goes(c, "wait")
        /\ panicked' = panicked /\ UNCHANGED <<tls, goroutines>>
    BY <1>3 DEF Stop
  <2>2. Shapes' /\ ClosedAreBorn' /\ BuilderBuilds' /\ ReloadIsIdle'
    BY <1>1, <1>3, <2>1, StopFrame DEF IInv, Shapes
  <2>3. step' = [step EXCEPT ![c] = "wait"] /\ step'[c] = "wait"
        /\ \A d \in Callers \ {c} : step'[d] = step[d]
    BY <2>1 DEF Goes, IInv, Shapes
  <2>4. \A d \in Callers : Stopping(d)' <=> Stopping(d)
    <3> TAKE d \in Callers
    <3>1. CASE d = c
      BY <1>1, <2>3, <3>1 DEF Stopping
    <3>2. CASE d # c
      BY <2>3, <3>2 DEF Stopping
    <3> QED
      BY <3>1, <3>2
  <2>5. ASSUME ~overlapped
        PROVE  OneStops' /\ StopIsSafe' /\ ClosedIsBeingStopped'
    <3>1. OneStops /\ Stopping(c)
      BY <1>1, <2>5 DEF IInv, Orderly, Stopping
    <3>2. OneStops' /\ ClosedIsBeingStopped'
      BY <2>4, <3>1 DEF OneStops, ClosedIsBeingStopped
    <3>3. \A d \in Callers : step'[d] # "stop"
      BY <2>3, <3>1 DEF OneStops, Stopping
    <3> QED
      BY <3>2, <3>3 DEF StopIsSafe
  <2> QED
    BY <1>1, <2>1, <2>2, <2>5 DEF IInv, Orderly, PanicNeedsOverlap
<1> QED
  BY <1>2, <1>3

LEMMA WaitedKeeps ==
    ASSUME IInv, NEW c \in Callers, Waited(c)
    PROVE  IInv'
<1>1. /\ step[c] = "wait" /\ Goes(c, "clear")
      /\ UNCHANGED <<tls, goroutines, pointer, rest>>
  BY DEF Waited
<1>2. Shapes' /\ ClosedAreBorn' /\ BuilderBuilds' /\ ReloadIsIdle'
  BY <1>1, StopFrame DEF pointer, rest, IInv, Shapes
<1>3. step'[c] = "clear" /\ \A d \in Callers \ {c} : step'[d] = step[d]
  BY <1>1 DEF Goes, IInv, Shapes
<1>4. \A d \in Callers : /\ Stopping(d)' <=> Stopping(d)
                         /\ step'[d] = "stop" <=> step[d] = "stop"
  <2> TAKE d \in Callers
  <2>1. CASE d = c
    BY <1>1, <1>3, <2>1 DEF Stopping
  <2>2. CASE d # c
    BY <1>3, <2>2 DEF Stopping
  <2> QED
    BY <2>1, <2>2
<1>5. /\ watcher' = watcher /\ closed' = closed /\ overlapped' = overlapped
      /\ panicked' = panicked
  BY <1>1 DEF pointer, rest
<1>6. (OneStops => OneStops') /\ (StopIsSafe => StopIsSafe')
      /\ (ClosedIsBeingStopped => ClosedIsBeingStopped')
  BY <1>4, <1>5 DEF OneStops, StopIsSafe, ClosedIsBeingStopped
<1> QED
  BY <1>2, <1>5, <1>6 DEF IInv, Orderly, PanicNeedsOverlap

(* The caller that leaves StopCertWatcher was the only one in it.           *)
LEMMA ClearKeeps ==
    ASSUME IInv, NEW c \in Callers, Clear(c)
    PROVE  IInv'
<1>1. /\ step[c] = "clear" /\ Goes(c, "idle") /\ watcher' = Nil
      /\ closed' = closed /\ UNCHANGED <<tls, goroutines, rest>>
  BY DEF Clear
<1>2. Shapes' /\ ClosedAreBorn' /\ BuilderBuilds' /\ ReloadIsIdle'
  BY <1>1, StopFrame DEF rest, IInv, Shapes
<1>3. step'[c] = "idle" /\ \A d \in Callers \ {c} : step'[d] = step[d]
  BY <1>1 DEF Goes, IInv, Shapes
<1>4. ASSUME ~overlapped
      PROVE  OneStops' /\ StopIsSafe' /\ ClosedIsBeingStopped'
  <2>1. OneStops /\ Stopping(c)
    BY <1>1, <1>4 DEF IInv, Orderly, Stopping
  <2>2. \A d \in Callers : step'[d] \notin {"stop", "wait", "clear"}
    BY <1>3, <2>1 DEF OneStops, Stopping
  <2> QED
    BY <1>1, <2>2 DEF OneStops, StopIsSafe, ClosedIsBeingStopped, Stopping
<1> QED
  BY <1>1, <1>2, <1>4 DEF IInv, Orderly, PanicNeedsOverlap, rest

-----------------------------------------------------------------------------
LEMMA NextIInv == IInv /\ [Next]_vars => IInv'
<1> SUFFICES ASSUME IInv, [Next]_vars PROVE IInv'
  OBVIOUS
<1>1. ASSUME NEW f \in Files, Replace(f) PROVE IInv'
  BY <1>1, ReplaceKeeps
<1>2. CASE AddSession
  BY <1>2, CallKeeps DEF AddSession
<1>3. CASE Add
  BY <1>3, Actors, ReadCertKeeps, ReadKeyKeeps, StartKeeps DEF Add
<1>4. ASSUME NEW w \in Watchers, Watch(w) \/ WatchStops(w) PROVE IInv'
  BY <1>4, Actors, WatchKeeps, ReadCertKeeps, ReadKeyKeeps DEF Watch
<1>5. ASSUME NEW c \in Callers, Disconnect(c) PROVE IInv'
  BY <1>5, CallKeeps DEF Disconnect
<1>6. ASSUME NEW c \in Callers, Call(c) PROVE IInv'
  BY <1>6, CheckKeeps, StopKeeps, WaitedKeeps, ClearKeeps DEF Call
<1>7. CASE UNCHANGED vars
  BY <1>7 DEF vars, tls, goroutines, callers, pointer, rest, IInv, Shapes,
     ClosedAreBorn, Born, BuilderBuilds, ReloadIsIdle, Orderly, OneStops,
     StopIsSafe, ClosedIsBeingStopped, Stopping, PanicNeedsOverlap
<1> QED
  BY <1>1, <1>2, <1>3, <1>4, <1>5, <1>6, <1>7 DEF Next

(* For any number of sessions, watchers and replacements of the files: no   *)
(* stopCh is closed twice, and c.watcher is not nil after it was not, unless*)
(* a StopCertWatcher began during another.                                  *)
THEOREM PanicOnlyInOverlap == Spec => []PanicNeedsOverlap
<1>1. IInv => PanicNeedsOverlap
  BY DEF IInv
<1> QED
  BY <1>1, InitIInv, NextIInv, PTL DEF Spec

-----------------------------------------------------------------------------
(* The Options of sessions and the configurations of forwarders, as         *)
(* Builders has them.                                                       *)
Types == {"memory", "file", "redis", "other"}
Cell == Given \cup {"bad", "default", "nil", "huge", "on", "off"} \cup Types

(* The fields of the parts of Options, and of a forwarder's configuration.  *)
OptionsFields ==
    [self |-> {"name", "brokers", "clientID", "auth", "tls", "topics"},
     props |-> {"clean", "autoReconnect", "persistent", "keepAlive",
                "reconnect", "timeouts"},
     perf |-> {"buffers", "channel"},
     storage |-> {"type", "path", "addr", "login"}]
ConfigFields ==
    [self |-> {"name", "source", "target", "qos", "bufferSize", "enabled"},
     topicMap |-> {"to"}]
OptionsParts == DOMAIN OptionsFields
ConfigParts == DOMAIN ConfigFields

Fields ==
    UNION {OptionsFields.self, OptionsFields.props, OptionsFields.perf,
           OptionsFields.storage, ConfigFields.self, ConfigFields.topicMap}

(* A part: values for some fields, and a type is one of those there are.    *)
Part ==
    {p \in UNION {[F -> Cell] : F \in SUBSET Fields} :
        "type" \in DOMAIN p => p["type"] \in Types}

Objects == [OptionsParts -> Nat] \cup [ConfigParts -> Nat]
FieldsOf(o) == IF Options!IsOptions(o) THEN OptionsFields ELSE ConfigFields

Typed ==
    /\ heap \in Seq(Part)
    /\ objects \in Seq(Objects)
    /\ Len(objects) >= 2
    /\ Options!IsOptions(1) /\ ~Options!IsOptions(2)

(* Every part of an object is on the heap, with the fields it should have.  *)
Formed ==
    \A o \in DOMAIN objects : \A part \in DOMAIN objects[o] :
        \/ part = "topicMap" /\ objects[o][part] = 0
        \/ /\ objects[o][part] \in 1 .. Len(heap)
           /\ DOMAIN heap[objects[o][part]] = FieldsOf(o)[part]

(* No part that should be one object's own belongs to another.              *)
Apart ==
    \A o, p \in DOMAIN objects :
      \A k \in DOMAIN objects[o] \ Options!Shared : \A l \in DOMAIN objects[p] :
        objects[o][k] = objects[p][l] => o = p /\ k = l

OptionsInv == Typed /\ Formed /\ Apart

-----------------------------------------------------------------------------

(* A heap with the same parts, and perhaps more: their values may differ.   *)
Like(h) ==
    /\ h \in Seq(Part)
    /\ Len(h) >= Len(heap)
    /\ \A a \in 1 .. Len(heap) : DOMAIN h[a] = DOMAIN heap[a]

(* What OthersKept says of one step.                                        *)
Kept ==
    \A o \in DOMAIN objects \ {receiver'} :
      \A part \in DOMAIN objects[o] \ Options!Shared :
        heap'[objects'[o][part]] = heap[objects[o][part]]

LEMMA IsPart ==
  ASSUME NEW F \in SUBSET Fields, NEW f \in [F -> Cell],
         "type" \in F => f["type"] \in Types
  PROVE  f \in Part
BY DEF Part

LEMMA PartIs ==
  ASSUME NEW p \in Part
  PROVE  /\ p \in [DOMAIN p -> Cell]
         /\ DOMAIN p \in SUBSET Fields
         /\ "type" \in DOMAIN p => p["type"] \in Types
<1>1. PICK F \in SUBSET Fields : p \in [F -> Cell]
  BY DEF Part
<1> QED
  BY <1>1 DEF Part

LEMMA SetIsPart ==
  ASSUME NEW p \in Part, NEW f \in Part
  PROVE  Options!Set(p, f) \in Part /\ DOMAIN Options!Set(p, f) = DOMAIN p
<1> DEFINE q == Options!Set(p, f)
<1>1. /\ DOMAIN q = DOMAIN p
      /\ \A x \in DOMAIN p : q[x] = IF x \in DOMAIN f THEN f[x] ELSE p[x]
      /\ q \in [DOMAIN p -> Cell]
  BY PartIs DEF Options!Set
<1> HIDE DEF q
<1>2. "type" \in DOMAIN p => q["type"] \in Types
  BY <1>1, PartIs
<1>3. q \in Part
  BY <1>1, <1>2, PartIs, IsPart
<1> QED
  BY <1>1, <1>3 DEF q

LEMMA Addresses ==
  ASSUME OptionsInv, NEW o \in DOMAIN objects
  PROVE  /\ Len(heap) \in Nat /\ Len(objects) \in Nat
         /\ DOMAIN heap = 1 .. Len(heap)
         /\ DOMAIN objects = 1 .. Len(objects)
         /\ objects[o] \in Objects
         /\ Options!IsOptions(o) => objects[o] \in [OptionsParts -> Nat]
         /\ ~Options!IsOptions(o) => objects[o] \in [ConfigParts -> Nat]
         /\ \A part \in DOMAIN objects[o] :
              objects[o][part] \in 1 .. Len(heap) \/ objects[o][part] = 0
<1>1. /\ Len(heap) \in Nat /\ Len(objects) \in Nat
      /\ DOMAIN heap = 1 .. Len(heap)
      /\ DOMAIN objects = 1 .. Len(objects)
      /\ objects[o] \in Objects
  BY DEF OptionsInv, Typed
<1>2. /\ Options!IsOptions(o) => objects[o] \in [OptionsParts -> Nat]
      /\ ~Options!IsOptions(o) => objects[o] \in [ConfigParts -> Nat]
  BY <1>1 DEF Options!IsOptions, Objects, OptionsParts, ConfigParts,
     OptionsFields, ConfigFields
<1>3. \A part \in DOMAIN objects[o] :
        objects[o][part] \in 1 .. Len(heap) \/ objects[o][part] = 0
  BY DEF OptionsInv, Formed
<1> QED
  BY <1>1, <1>2, <1>3

(* The invariant speaks of the fields of the parts, not of their values.    *)
LEMMA RewriteKeeps ==
  ASSUME OptionsInv, Like(heap'), objects' = objects
  PROVE  OptionsInv'
<1>1. Typed'
  BY DEF OptionsInv, Typed, Like, Options!IsOptions
<1>2. Formed'
  <2> SUFFICES ASSUME NEW o \in DOMAIN objects, NEW part \in DOMAIN objects[o]
               PROVE  \/ part = "topicMap" /\ objects[o][part] = 0
                      \/ /\ objects[o][part] \in 1 .. Len(heap')
                         /\ DOMAIN heap'[objects[o][part]] = FieldsOf(o)[part]
    BY DEF Formed, FieldsOf, Options!IsOptions
  <2>1. \/ part = "topicMap" /\ objects[o][part] = 0
        \/ /\ objects[o][part] \in 1 .. Len(heap)
           /\ DOMAIN heap[objects[o][part]] = FieldsOf(o)[part]
    BY DEF OptionsInv, Formed
  <2>2. Len(heap) \in Nat /\ Len(heap') \in Nat
    BY DEF OptionsInv, Typed, Like
  <2> QED
    BY <2>1, <2>2 DEF Like
<1>3. Apart'
  BY DEF OptionsInv, Apart
<1> QED
  BY <1>1, <1>2, <1>3 DEF OptionsInv

(* Object r is new, or some of its parts are.                               *)
LEMMA ObjectKeeps ==
  ASSUME OptionsInv, Like(heap'), objects' \in Seq(Objects),
         Len(objects') >= Len(objects),
         NEW r \in DOMAIN objects',
         DOMAIN objects' \subseteq DOMAIN objects \cup {r},
         \A o \in DOMAIN objects' \ {r} : objects'[o] = objects[o],
         r \in {1, 2} => DOMAIN objects'[r] = DOMAIN objects[r],
         \A part \in DOMAIN objects'[r] :
            \/ part = "topicMap" /\ objects'[r][part] = 0
            \/ /\ objects'[r][part] \in 1 .. Len(heap')
               /\ DOMAIN heap'[objects'[r][part]] = (FieldsOf(r)')[part],
         \A p \in DOMAIN objects \ {r} :
            \A k \in DOMAIN objects'[r], l \in DOMAIN objects[p] :
               objects'[r][k] = objects[p][l] =>
                  k \in Options!Shared /\ l \in Options!Shared,
         \A k, l \in DOMAIN objects'[r] :
            objects'[r][k] = objects'[r][l] => k = l
  PROVE  OptionsInv'
<1>1. Typed'
  BY DEF OptionsInv, Typed, Like, Options!IsOptions
<1>2. Formed'
  <2> SUFFICES ASSUME NEW o \in DOMAIN objects',
                      NEW part \in DOMAIN objects'[o]
               PROVE  \/ part = "topicMap" /\ objects'[o][part] = 0
                      \/ /\ objects'[o][part] \in 1 .. Len(heap')
                         /\ DOMAIN heap'[objects'[o][part]] =
                              (FieldsOf(o)')[part]
    BY DEF Formed
  <2>1. CASE o = r
    BY <2>1
  <2>2. CASE o # r
    <3>1. o \in DOMAIN objects /\ objects'[o] = objects[o]
      BY <2>2
    <3>2. FieldsOf(o)' = FieldsOf(o)
      BY <3>1 DEF FieldsOf, Options!IsOptions
    <3>3. \/ part = "topicMap" /\ objects[o][part] = 0
          \/ /\ objects[o][part] \in 1 .. Len(heap)
             /\ DOMAIN heap[objects[o][part]] = FieldsOf(o)[part]
      BY <3>1 DEF OptionsInv, Formed
    <3>4. Len(heap) \in Nat /\ Len(heap') \in Nat
      BY DEF OptionsInv, Typed, Like
    <3> QED
      BY <3>1, <3>2, <3>3, <3>4 DEF Like
  <2> QED
    BY <2>1, <2>2
<1>3. Apart'
  <2> SUFFICES ASSUME NEW o \in DOMAIN objects', NEW p \in DOMAIN objects',
                      NEW k \in DOMAIN objects'[o] \ Options!Shared,
                      NEW l \in DOMAIN objects'[p],
                      objects'[o][k] = objects'[p][l]
               PROVE  o = p /\ k = l
    BY DEF Apart
  <2>1. CASE o # r /\ p # r
    BY <2>1 DEF OptionsInv, Apart
  <2>2. CASE o = r /\ p # r
    BY <2>2
  <2>3. CASE o # r /\ p = r
    BY <2>3
  <2>4. CASE o = r /\ p = r
    BY <2>4
  <2> QED
    BY <2>1, <2>2, <2>3, <2>4
<1> QED
  BY <1>1, <1>2, <1>3 DEF OptionsInv

(* One part of the receiver is written.                                     *)
LEMMA ChangeKeeps ==
  ASSUME OptionsInv, NEW o \in DOMAIN objects, NEW part \in DOMAIN objects[o],
         NEW f \in Part, objects[o][part] # 0, Options!Change(o, part, f)
  PROVE  OptionsInv' /\ Kept
<1> DEFINE a == objects[o][part]
<1>1. a \in 1 .. Len(heap) /\ DOMAIN heap = 1 .. Len(heap) /\ Len(heap) \in Nat
  BY Addresses
<1>2. heap[a] \in Part
  BY <1>1 DEF OptionsInv, Typed
<1>3. /\ heap' = [heap EXCEPT ![a] = Options!Set(heap[a], f)]
      /\ objects' = objects /\ receiver' = o
  BY DEF Options!Change, Options!Called
<1>4. Options!Set(heap[a], f) \in Part
      /\ DOMAIN Options!Set(heap[a], f) = DOMAIN heap[a]
  BY <1>2, SetIsPart
<1> DEFINE q == Options!Set(heap[a], f)
<1> HIDE DEF q, a
<1>5. /\ heap' \in Seq(Part) /\ Len(heap') = Len(heap)
      /\ heap'[a] = q /\ \A b \in 1 .. Len(heap) \ {a} : heap'[b] = heap[b]
  BY <1>1, <1>3, <1>4 DEF OptionsInv, Typed, q
<1>6. Like(heap')
  BY <1>1, <1>4, <1>5 DEF Like, q
<1>7. OptionsInv'
  BY <1>3, <1>6, RewriteKeeps
<1>8. Kept
  <2> SUFFICES ASSUME NEW p \in DOMAIN objects \ {o},
                      NEW k \in DOMAIN objects[p] \ Options!Shared
               PROVE  heap'[objects[p][k]] = heap[objects[p][k]]
    BY <1>3 DEF Kept
  <2>1. objects[p][k] # a
    BY DEF OptionsInv, Apart, a
  <2>2. objects[p][k] \in 1 .. Len(heap)
    BY DEF OptionsInv, Formed, Options!Shared
  <2> QED
    BY <1>5, <2>1, <2>2
<1> QED
  BY <1>7, <1>8

(* The storage or the topic map of a builder is replaced.                   *)
LEMMA RenewKeeps ==
  ASSUME OptionsInv, NEW o \in {1, 2},
         NEW part \in DOMAIN objects[o] \cap Options!Shared,
         NEW f \in Part, DOMAIN f = FieldsOf(o)[part],
         Options!Renew(o, part, f)
  PROVE  OptionsInv' /\ Kept
<1>1. o \in DOMAIN objects
  BY DEF OptionsInv, Typed
<1>2. /\ Len(heap) \in Nat /\ DOMAIN heap = 1 .. Len(heap)
      /\ Len(objects) \in Nat /\ DOMAIN objects = 1 .. Len(objects)
      /\ objects[o] \in Objects
  BY <1>1, Addresses
<1>3. heap' = Append(heap, f) /\ receiver' = o
  BY DEF Options!Renew, Options!Called
<1>4. /\ heap' \in Seq(Part) /\ Len(heap') = Len(heap) + 1
      /\ heap'[Len(heap) + 1] = f
      /\ \A a \in 1 .. Len(heap) : heap'[a] = heap[a]
  BY <1>2, <1>3 DEF OptionsInv, Typed
<1>5. Like(heap')
  BY <1>2, <1>4 DEF Like
<1> DEFINE parts == [objects[o] EXCEPT ![part] = Len(heap) + 1]
<1>6. objects' = [objects EXCEPT ![o] = parts]
  BY <1>4 DEF Options!Renew
<1>7. /\ parts \in Objects /\ DOMAIN parts = DOMAIN objects[o]
      /\ parts[part] = Len(heap) + 1
      /\ \A k \in DOMAIN objects[o] \ {part} : parts[k] = objects[o][k]
  BY <1>2 DEF Objects
<1> HIDE DEF parts
<1>8. /\ objects' \in Seq(Objects) /\ Len(objects') = Len(objects)
      /\ DOMAIN objects' = DOMAIN objects
      /\ objects'[o] = parts
      /\ \A p \in DOMAIN objects \ {o} : objects'[p] = objects[p]
  BY <1>1, <1>2, <1>6, <1>7 DEF OptionsInv, Typed
<1>9. FieldsOf(o)' = FieldsOf(o)
  BY <1>7, <1>8 DEF FieldsOf, Options!IsOptions
<1>10. \A k \in DOMAIN parts :
            \/ k = "topicMap" /\ parts[k] = 0
            \/ /\ parts[k] \in 1 .. Len(heap')
               /\ DOMAIN heap'[parts[k]] = FieldsOf(o)[k]
  <2> SUFFICES ASSUME NEW k \in DOMAIN parts
               PROVE  \/ k = "topicMap" /\ parts[k] = 0
                      \/ /\ parts[k] \in 1 .. Len(heap')
                         /\ DOMAIN heap'[parts[k]] = FieldsOf(o)[k]
    OBVIOUS
  <2>1. CASE k = part
    BY <1>2, <1>4, <1>7, <2>1
  <2>2. CASE k # part
    <3>1. \/ k = "topicMap" /\ objects[o][k] = 0
          \/ /\ objects[o][k] \in 1 .. Len(heap)
             /\ DOMAIN heap[objects[o][k]] = FieldsOf(o)[k]
      BY <1>1, <1>7, <2>2 DEF OptionsInv, Formed
    <3> QED
      BY <1>2, <1>4, <1>7, <2>2, <3>1
  <2> QED
    BY <2>1, <2>2
<1>11. \A p \in DOMAIN objects, k \in DOMAIN parts :
        \A l \in DOMAIN objects[p] :
          parts[k] = objects[p][l] =>
             k # part /\ (p # o => k \in Options!Shared /\ l \in Options!Shared)
                /\ (p = o /\ k # part => objects[o][k] = objects[o][l])
  <2> SUFFICES ASSUME NEW p \in DOMAIN objects, NEW k \in DOMAIN parts,
                      NEW l \in DOMAIN objects[p], parts[k] = objects[p][l]
               PROVE  k # part /\ (p # o => k \in Options!Shared
                                            /\ l \in Options!Shared)
                      /\ (p = o /\ k # part => objects[o][k] = objects[o][l])
    OBVIOUS
  <2>1. k # part
    BY <1>2, <1>7, Addresses
  <2>2. p # o => k \in Options!Shared
    BY <1>1, <1>7, <2>1 DEF OptionsInv, Apart
  <2>3. p # o => l \in Options!Shared
    BY <1>1, <1>7, <2>1 DEF OptionsInv, Apart
  <2> QED
    BY <1>7, <2>1, <2>2, <2>3
<1>12. \A k, l \in DOMAIN parts : parts[k] = parts[l] => k = l
  <2> SUFFICES ASSUME NEW k \in DOMAIN parts, NEW l \in DOMAIN parts,
                      parts[k] = parts[l], k # l
               PROVE  FALSE
    OBVIOUS
  <2>1. k # part /\ l # part
    BY <1>2, <1>7, <1>1, Addresses
  <2>2. k \in Options!Shared /\ l \in Options!Shared
    BY <1>1, <1>7, <2>1 DEF OptionsInv, Apart
  <2>3. ~({"storage", "topicMap"} \subseteq DOMAIN objects[o])
    BY <1>2 DEF Objects, OptionsParts, ConfigParts, OptionsFields, ConfigFields
  <2> QED
    BY <1>7, <2>1, <2>2, <2>3 DEF Options!Shared
<1>13. OptionsInv'
  BY <1>1, <1>2, <1>5, <1>7, <1>8, <1>9, <1>10, <1>11, <1>12, ObjectKeeps
<1>14. Kept
  <2> SUFFICES ASSUME NEW p \in DOMAIN objects \ {o},
                      NEW k \in DOMAIN objects[p] \ Options!Shared
               PROVE  heap'[objects'[p][k]] = heap[objects[p][k]]
    BY <1>3 DEF Kept
  <2>1. objects[p][k] \in 1 .. Len(heap)
    BY DEF OptionsInv, Formed, Options!Shared
  <2> QED
    BY <1>4, <1>8, <2>1
<1> QED
  BY <1>13, <1>14

(* A heap with n more parts.                                                *)
LEMMA LongerIsLike ==
  ASSUME NEW h \in Seq(Part), Like(h), OptionsInv, NEW new \in Seq(Part)
  PROVE  /\ Like(h \o new)
         /\ Len(h \o new) = Len(h) + Len(new)
         /\ \A a \in 1 .. Len(h) : (h \o new)[a] = h[a]
         /\ \A i \in 1 .. Len(new) : (h \o new)[Len(h) + i] = new[i]
<1>1. Len(heap) \in Nat /\ Len(h) \in Nat /\ Len(new) \in Nat
  BY DEF OptionsInv, Typed
<1>2. /\ h \o new \in Seq(Part)
      /\ Len(h \o new) = Len(h) + Len(new)
      /\ \A a \in 1 .. Len(h) : (h \o new)[a] = h[a]
      /\ \A i \in 1 .. Len(new) : (h \o new)[Len(h) + i] = new[i]
  BY <1>1
<1> QED
  BY <1>1, <1>2 DEF Like

LEMMA AppendIs ==
  ASSUME NEW S, NEW s \in Seq(S), NEW e \in S
  PROVE  /\ Append(s, e) \in Seq(S) /\ Len(Append(s, e)) = Len(s) + 1
         /\ \A i \in 1 .. Len(s) : Append(s, e)[i] = s[i]
         /\ Append(s, e)[Len(s) + 1] = e
OBVIOUS

LEMMA DefaultParts ==
  ASSUME NEW name \in Cell
  PROVE  LET new == Options!DefaultOptions(name)
         IN  /\ new \in Seq(Part) /\ Len(new) = 4
             /\ DOMAIN new[1] = OptionsFields.self
             /\ DOMAIN new[2] = OptionsFields.props
             /\ DOMAIN new[3] = OptionsFields.perf
             /\ DOMAIN new[4] = OptionsFields.storage
<1> DEFINE new == Options!DefaultOptions(name)
<1>1. new[1] \in [{"name", "brokers", "clientID", "auth", "tls", "topics"}
                    -> Cell]
  BY DEF Options!DefaultOptions, Options!Default, Cell
<1>2. new[2] \in [{"clean", "autoReconnect", "persistent", "keepAlive",
                   "reconnect", "timeouts"} -> Cell]
  BY DEF Options!DefaultOptions, Options!Default, Cell
<1>3. new[3] \in [{"buffers", "channel"} -> Cell]
  BY DEF Options!DefaultOptions, Options!Default, Cell
<1>4. new[4] \in [{"type", "path", "addr", "login"} -> Cell]
      /\ new[4]["type"] \in Types
  BY DEF Options!DefaultOptions, Options!Default, Options!Bad, Cell, Types
<1>5. new[1] \in Part
  BY <1>1, IsPart DEF Fields, OptionsFields
<1>6. new[2] \in Part
  BY <1>2, IsPart DEF Fields, OptionsFields
<1>7. new[3] \in Part
  BY <1>3, IsPart DEF Fields, OptionsFields
<1>8. new[4] \in Part
  BY <1>4, IsPart DEF Fields, OptionsFields
<1>9. new \in Seq(Part) /\ Len(new) = 4
  BY <1>5, <1>6, <1>7, <1>8 DEF Options!DefaultOptions
<1> HIDE DEF new
<1>10. /\ DOMAIN new[1] = OptionsFields.self
       /\ DOMAIN new[2] = OptionsFields.props
       /\ DOMAIN new[3] = OptionsFields.perf
       /\ DOMAIN new[4] = OptionsFields.storage
  BY <1>1, <1>2, <1>3, <1>4 DEF OptionsFields
<1> QED
  BY <1>9, <1>10 DEF new

LEMMA OptionsInit == Options!Init => OptionsInv
<1> SUFFICES ASSUME Options!Init PROVE OptionsInv
  OBVIOUS
<1>1. PICK name \in Cell :
         heap = Append(Options!DefaultOptions(name),
                       Options!ForwarderConfig(name))
  BY DEF Options!Init, Options!Values, Options!Bad, Cell
<1> DEFINE new == Options!DefaultOptions(name)
           conf == Options!ForwarderConfig(name)
<1>2. /\ new \in Seq(Part) /\ Len(new) = 4
      /\ DOMAIN new[1] = OptionsFields.self
      /\ DOMAIN new[2] = OptionsFields.props
      /\ DOMAIN new[3] = OptionsFields.perf
      /\ DOMAIN new[4] = OptionsFields.storage
  BY DefaultParts
<1>3. conf \in [{"name", "source", "target", "qos", "bufferSize", "enabled"}
                  -> Cell]
  BY DEF Options!ForwarderConfig, Options!Default, Options!Bad, Cell
<1>4. conf \in Part /\ DOMAIN conf = ConfigFields.self
  BY <1>3, IsPart DEF Fields, ConfigFields
<1>5. heap = Append(new, conf)
  BY <1>1
<1> HIDE DEF new, conf
<1>6. /\ heap \in Seq(Part) /\ Len(heap) = 5
      /\ heap[1] = new[1] /\ heap[2] = new[2] /\ heap[3] = new[3]
      /\ heap[4] = new[4] /\ heap[5] = conf
  <2>1. new \in Seq(Part) /\ conf \in Part
    BY <1>2, <1>4
  <2>2. Append(new, conf) \in Seq(Part)
    BY <2>1
  <2>3. Len(new) + 1 = 5 /\ 1 .. Len(new) = {1, 2, 3, 4}
    BY <1>2
  <2>4. Len(Append(new, conf)) = Len(new) + 1
    BY <2>1, AppendIs
  <2>5. \A a \in 1 .. Len(new) : Append(new, conf)[a] = new[a]
    BY <2>1, AppendIs
  <2>6. Append(new, conf)[Len(new) + 1] = conf
    BY <2>1, AppendIs
  <2> QED
    BY <1>5, <2>2, <2>3, <2>4, <2>5, <2>6
<1>7. /\ objects = <<Options!OptionsAt(1), [self |-> 5, topicMap |-> 0]>>
      /\ objects[1] = [self |-> 1, props |-> 2, perf |-> 3, storage |-> 4]
      /\ objects[2] = [self |-> 5, topicMap |-> 0]
      /\ Len(objects) = 2
  BY DEF Options!Init, Options!OptionsAt, Options!Nil
<1>8. /\ objects[1] \in [OptionsParts -> Nat]
      /\ objects[2] \in [ConfigParts -> Nat]
  BY <1>7 DEF OptionsParts, OptionsFields, ConfigParts, ConfigFields
<1>9. /\ Options!IsOptions(1) /\ ~Options!IsOptions(2)
      /\ FieldsOf(1) = OptionsFields /\ FieldsOf(2) = ConfigFields
  BY <1>7 DEF Options!IsOptions, FieldsOf
<1>10. /\ objects \in Seq(Objects) /\ DOMAIN objects = {1, 2}
  BY <1>7, <1>8 DEF Objects
<1>11. Typed
  BY <1>6, <1>7, <1>9, <1>10 DEF Typed
<1>12. Formed
  <2>1. \A part \in DOMAIN objects[1] :
           objects[1][part] \in 1 .. Len(heap)
           /\ DOMAIN heap[objects[1][part]] = OptionsFields[part]
    <3> SUFFICES ASSUME NEW part \in DOMAIN objects[1]
                 PROVE  objects[1][part] \in 1 .. Len(heap)
                        /\ DOMAIN heap[objects[1][part]] = OptionsFields[part]
      OBVIOUS
    <3>1. part \in {"self", "props", "perf", "storage"}
      BY <1>7
    <3>2. CASE part = "self"
      BY <1>2, <1>6, <1>7, <3>2
    <3>3. CASE part = "props"
      BY <1>2, <1>6, <1>7, <3>3
    <3>4. CASE part = "perf"
      BY <1>2, <1>6, <1>7, <3>4
    <3>5. CASE part = "storage"
      BY <1>2, <1>6, <1>7, <3>5
    <3> QED
      BY <3>1, <3>2, <3>3, <3>4, <3>5
  <2>2. \A part \in DOMAIN objects[2] :
           \/ part = "topicMap" /\ objects[2][part] = 0
           \/ objects[2][part] \in 1 .. Len(heap)
              /\ DOMAIN heap[objects[2][part]] = ConfigFields[part]
    BY <1>4, <1>6, <1>7
  <2> QED
    BY <1>9, <1>10, <2>1, <2>2 DEF Formed
<1>13. Apart
  BY <1>7, <1>10 DEF Apart, Options!Shared
<1> QED
  BY <1>11, <1>12, <1>13 DEF OptionsInv

(* The addresses that follow the heap are nobody's.                         *)
LEMMA NewAddresses ==
  ASSUME OptionsInv, NEW h, Like(h)
  PROVE  /\ Options!OptionsAt(Len(h) + 1) \in [OptionsParts -> Nat]
         /\ Options!OptionsAt(Len(h) + 1) =
              [self |-> Len(h) + 1, props |-> Len(h) + 2,
               perf |-> Len(h) + 3, storage |-> Len(h) + 4]
         /\ \A p \in DOMAIN objects : \A l \in DOMAIN objects[p] :
              objects[p][l] \in Nat /\ objects[p][l] <= Len(h)
<1>1. Len(h) \in Nat /\ Len(heap) \in Nat /\ Len(h) >= Len(heap)
  BY DEF Like, OptionsInv, Typed
<1>2. Options!OptionsAt(Len(h) + 1) =
              [self |-> Len(h) + 1, props |-> Len(h) + 2,
               perf |-> Len(h) + 3, storage |-> Len(h) + 4]
  BY <1>1 DEF Options!OptionsAt
<1>3. Options!OptionsAt(Len(h) + 1) \in [OptionsParts -> Nat]
  BY <1>1, <1>2 DEF OptionsParts, OptionsFields
<1>4. \A p \in DOMAIN objects : \A l \in DOMAIN objects[p] :
              objects[p][l] \in Nat /\ objects[p][l] <= Len(h)
  BY <1>1, Addresses
<1> QED
  BY <1>2, <1>3, <1>4

-----------------------------------------------------------------------------
(* A step keeps what is not its receiver's when it writes only to addresses *)
(* that no other object calls its own.                                      *)
LEMMA KeptWhere ==
  ASSUME OptionsInv, NEW W,
         \A o \in DOMAIN objects \ {receiver'} : objects'[o] = objects[o],
         \A a \in 1 .. Len(heap) : a \notin W => heap'[a] = heap[a],
         \A o \in DOMAIN objects \ {receiver'} :
           \A k \in DOMAIN objects[o] \ Options!Shared : objects[o][k] \notin W
  PROVE  Kept
<1> SUFFICES ASSUME NEW o \in DOMAIN objects \ {receiver'},
                    NEW k \in DOMAIN objects[o] \ Options!Shared
             PROVE  heap'[objects'[o][k]] = heap[objects[o][k]]
  BY DEF Kept
<1>1. objects[o][k] \in 1 .. Len(heap)
  BY DEF OptionsInv, Formed, Options!Shared
<1> QED
  BY <1>1

(* The parts of Options: four addresses, of parts with their fields.        *)
LEMMA FourParts ==
  ASSUME OptionsInv, NEW o \in DOMAIN objects, Options!IsOptions(o)
  PROVE  LET p == objects[o]
         IN  /\ p \in [OptionsParts -> Nat]
             /\ DOMAIN p = {"self", "props", "perf", "storage"}
             /\ {p.self, p.props, p.perf, p.storage} \subseteq DOMAIN heap
             /\ DOMAIN heap = 1 .. Len(heap)
             /\ DOMAIN heap[p.self] = OptionsFields.self
             /\ DOMAIN heap[p.props] = OptionsFields.props
             /\ DOMAIN heap[p.perf] = OptionsFields.perf
             /\ DOMAIN heap[p.storage] = OptionsFields.storage
             /\ p.props # p.self /\ p.perf # p.self /\ p.storage # p.self
             /\ p.perf # p.props /\ p.storage # p.props /\ p.storage # p.perf
<1>1. /\ objects[o] \in [OptionsParts -> Nat] /\ DOMAIN heap = 1 .. Len(heap)
      /\ FieldsOf(o) = OptionsFields
  BY Addresses DEF FieldsOf
<1>2. DOMAIN objects[o] = {"self", "props", "perf", "storage"}
  BY <1>1 DEF OptionsParts, OptionsFields
<1>3. \A k \in DOMAIN objects[o] :
         /\ objects[o][k] \in 1 .. Len(heap)
         /\ DOMAIN heap[objects[o][k]] = OptionsFields[k]
  BY <1>1, <1>2 DEF OptionsInv, Formed
<1>4. \A k \in {"self", "props", "perf"}, l \in DOMAIN objects[o] :
         objects[o][k] = objects[o][l] => k = l
  BY <1>2 DEF OptionsInv, Apart, Options!Shared
<1> QED
  BY <1>1, <1>2, <1>3, <1>4

LEMMA DefaultsIsPart ==
  ASSUME NEW p \in Part, "type" \notin DOMAIN p
  PROVE  Options!Defaults(p) \in Part /\ DOMAIN Options!Defaults(p) = DOMAIN p
<1> DEFINE q == Options!Defaults(p)
<1>1. q \in [DOMAIN p -> Cell] /\ DOMAIN q = DOMAIN p
  BY PartIs DEF Options!Defaults, Options!Default, Cell
<1> HIDE DEF q
<1>2. q \in Part
  BY <1>1, PartIs, IsPart
<1> QED
  BY <1>1, <1>2 DEF q

LEMMA StoreSetIsPart ==
  ASSUME NEW p \in Part, DOMAIN p = OptionsFields.storage
  PROVE  Options!StoreSet(p) \in Part /\ DOMAIN Options!StoreSet(p) = DOMAIN p
<1>1. /\ p \in [{"type", "path", "addr", "login"} -> Cell]
      /\ p["type"] \in Types
  BY PartIs DEF OptionsFields
<1> DEFINE q == Options!StoreSet(p)
<1>2. /\ q \in [{"type", "path", "addr", "login"} -> Cell]
      /\ q["type"] \in Types
  <2>1. CASE p.type = "redis"
    <3>1. q = [p EXCEPT !.addr = Options!RedisMade(p)]
      BY <2>1 DEF Options!StoreSet
    <3>2. Options!RedisMade(p) \in Cell
      BY <1>1 DEF Options!RedisMade, Options!Default, Cell
    <3> HIDE DEF q
    <3> QED
      BY <1>1, <3>1, <3>2
  <2>2. CASE p.type = "other"
    <3>1. q = [p EXCEPT !.type = "memory"]
      BY <2>2 DEF Options!StoreSet
    <3> HIDE DEF q
    <3> QED
      BY <1>1, <3>1 DEF Cell, Types
  <2>3. CASE p.type \notin {"redis", "other"}
    BY <1>1, <2>3 DEF Options!StoreSet
  <2> QED
    BY <2>1, <2>2, <2>3
<1> HIDE DEF q
<1>3. q \in Part /\ DOMAIN q = DOMAIN p
  BY <1>1, <1>2, IsPart DEF Fields, OptionsFields
<1> QED
  BY <1>3 DEF q

(* What Validate writes.                                                    *)
LEMMA ValidatedIs ==
  ASSUME OptionsInv, NEW o \in DOMAIN objects, Options!IsOptions(o)
  PROVE  LET h == Options!Validated(o)
             p == objects[o]
         IN  /\ Like(h) /\ Len(h) = Len(heap)
             /\ \A a \in 1 .. Len(heap) :
                  a \notin {p.props, p.perf, p.storage} => h[a] = heap[a]
             /\ Options!Bad \notin Options!Names(o) =>
                  /\ h[p.props] = Options!Defaults(heap[p.props])
                  /\ h[p.perf] = Options!Defaults(heap[p.perf])
                  /\ h[p.storage] = IF Options!Valid(o)
                                      THEN Options!StoreSet(heap[p.storage])
                                      ELSE heap[p.storage]
<1> DEFINE h == Options!Validated(o)
           a1 == objects[o].props
           a2 == objects[o].perf
           a3 == objects[o].storage
<1>1. /\ {a1, a2, a3} \subseteq 1 .. Len(heap)
      /\ DOMAIN heap = 1 .. Len(heap) /\ Len(heap) \in Nat
      /\ a1 # a2 /\ a1 # a3 /\ a2 # a3
      /\ DOMAIN heap[a1] = OptionsFields.props
      /\ DOMAIN heap[a2] = OptionsFields.perf
      /\ DOMAIN heap[a3] = OptionsFields.storage
  BY FourParts, Addresses
<1>2. heap \in Seq(Part)
  BY DEF OptionsInv, Typed
<1>3. CASE Options!Bad \in Options!Names(o)
  BY <1>1, <1>2, <1>3 DEF Options!Validated, Like
<1>4. CASE Options!Bad \notin Options!Names(o)
  <2> DEFINE d1 == Options!Defaults(heap[a1])
             d2 == Options!Defaults(heap[a2])
             d3 == IF Options!Valid(o) THEN Options!StoreSet(heap[a3])
                                       ELSE heap[a3]
  <2>1. heap[a1] \in Part /\ heap[a2] \in Part /\ heap[a3] \in Part
    BY <1>1, <1>2
  <2>2. "type" \notin DOMAIN heap[a1] /\ "type" \notin DOMAIN heap[a2]
    BY <1>1 DEF OptionsFields
  <2>3. d1 \in Part /\ DOMAIN d1 = DOMAIN heap[a1]
    BY <2>1, <2>2, DefaultsIsPart
  <2>4. d2 \in Part /\ DOMAIN d2 = DOMAIN heap[a2]
    BY <2>1, <2>2, DefaultsIsPart
  <2>5. d3 \in Part /\ DOMAIN d3 = DOMAIN heap[a3]
    BY <1>1, <2>1, StoreSetIsPart
  <2>6. h = [heap EXCEPT ![a1] = d1, ![a2] = d2, ![a3] = d3]
    BY <1>1, <1>2, <1>4 DEF Options!Validated
  <2> HIDE DEF h, a1, a2, a3, d1, d2, d3
  <2>7. /\ h \in Seq(Part) /\ Len(h) = Len(heap)
        /\ h[a1] = d1 /\ h[a2] = d2 /\ h[a3] = d3
        /\ \A a \in 1 .. Len(heap) : a \notin {a1, a2, a3} => h[a] = heap[a]
    BY <1>1, <1>2, <2>3, <2>4, <2>5, <2>6
  <2>8. Like(h)
    BY <1>1, <2>3, <2>4, <2>5, <2>7 DEF Like
  <2> QED
    BY <2>7, <2>8 DEF h, a1, a2, a3, d1, d2, d3
<1> QED
  BY <1>3, <1>4

(* The parts of one Options are nobody else's own.                          *)
LEMMA OwnParts ==
  ASSUME OptionsInv, NEW o \in DOMAIN objects, Options!IsOptions(o)
  PROVE  \A p \in DOMAIN objects \ {o} :
           \A k \in DOMAIN objects[p] \ Options!Shared :
             objects[p][k] \notin {objects[o].props, objects[o].perf,
                                   objects[o].storage}
BY FourParts DEF OptionsInv, Apart

LEMMA AddSessionKeeps ==
  ASSUME OptionsInv, NEW o \in Options!Programs, Options!AddSession(o)
  PROVE  OptionsInv' /\ Kept
<1>1. o \in DOMAIN objects /\ Options!IsOptions(o)
  BY DEF Options!Programs
<1>2. heap' = Options!Validated(o) /\ objects' = objects /\ receiver' = o
  BY DEF Options!AddSession, Options!Called
<1>3. Like(heap')
  BY <1>1, <1>2, ValidatedIs
<1>4. OptionsInv'
  BY <1>2, <1>3, RewriteKeeps
<1> DEFINE W == {objects[o].props, objects[o].perf, objects[o].storage}
<1>5. \A a \in 1 .. Len(heap) : a \notin W => heap'[a] = heap[a]
  BY <1>1, <1>2, ValidatedIs
<1>6. \A p \in DOMAIN objects \ {o} :
         \A k \in DOMAIN objects[p] \ Options!Shared : objects[p][k] \notin W
  BY <1>1, OwnParts
<1> HIDE DEF W
<1>7. Kept
  BY <1>2, <1>5, <1>6, KeptWhere
<1> QED
  BY <1>4, <1>7


(* A step that writes only to new addresses.                                *)
LEMMA KeptByAppend ==
  ASSUME OptionsInv,
         \A o \in DOMAIN objects \ {receiver'} : objects'[o] = objects[o],
         \A a \in 1 .. Len(heap) : heap'[a] = heap[a]
  PROVE  Kept
<1> SUFFICES ASSUME NEW o \in DOMAIN objects \ {receiver'},
                    NEW k \in DOMAIN objects[o] \ Options!Shared
             PROVE  heap'[objects'[o][k]] = heap[objects[o][k]]
  BY DEF Kept
<1>1. objects[o][k] \in 1 .. Len(heap)
  BY DEF OptionsInv, Formed, Options!Shared
<1> QED
  BY <1>1

(* The default Options become those at r.                                   *)
LEMMA DefaultKeeps ==
  ASSUME OptionsInv, NEW name \in Cell,
         heap' = heap \o Options!DefaultOptions(name),
         NEW r \in DOMAIN objects', receiver' = r, r # 2,
         objects' \in Seq(Objects), Len(objects') >= Len(objects),
         DOMAIN objects' \subseteq DOMAIN objects \cup {r},
         \A o \in DOMAIN objects \ {r} : objects'[o] = objects[o],
         objects'[r] = Options!OptionsAt(Len(heap) + 1)
  PROVE  OptionsInv' /\ Kept
<1> DEFINE new == Options!DefaultOptions(name)
           parts == Options!OptionsAt(Len(heap) + 1)
<1>1. /\ new \in Seq(Part) /\ Len(new) = 4
      /\ DOMAIN new[1] = OptionsFields.self
      /\ DOMAIN new[2] = OptionsFields.props
      /\ DOMAIN new[3] = OptionsFields.perf
      /\ DOMAIN new[4] = OptionsFields.storage
  BY DefaultParts
<1>2. heap \in Seq(Part) /\ Like(heap) /\ Len(heap) \in Nat
  BY DEF OptionsInv, Typed, Like
<1>3. Options!IsOptions(1)
  BY DEF OptionsInv, Typed
<1> HIDE DEF new
<1>4. new \in Seq(Part)
  BY <1>1
<1>5. /\ Like(heap \o new)
      /\ Len(heap \o new) = Len(heap) + Len(new)
      /\ \A a \in 1 .. Len(heap) : (heap \o new)[a] = heap[a]
      /\ \A i \in 1 .. Len(new) : (heap \o new)[Len(heap) + i] = new[i]
  BY <1>2, <1>4, LongerIsLike
<1>6. heap' = heap \o new
  BY DEF new
<1>7. /\ Like(heap') /\ Len(heap') = Len(heap) + 4
      /\ \A a \in 1 .. Len(heap) : heap'[a] = heap[a]
      /\ heap'[Len(heap) + 1] = new[1]
      /\ heap'[Len(heap) + 2] = new[2]
      /\ heap'[Len(heap) + 3] = new[3]
      /\ heap'[Len(heap) + 4] = new[4]
  BY <1>1, <1>5, <1>6
<1>8. /\ parts \in [OptionsParts -> Nat]
      /\ parts = [self |-> Len(heap) + 1, props |-> Len(heap) + 2,
                  perf |-> Len(heap) + 3, storage |-> Len(heap) + 4]
      /\ \A p \in DOMAIN objects : \A l \in DOMAIN objects[p] :
            objects[p][l] \in Nat /\ objects[p][l] <= Len(heap)
  BY <1>2, NewAddresses
<1> HIDE DEF parts
<1>9. objects'[r] = parts
  BY DEF parts
<1>10. (FieldsOf(r))' = OptionsFields
  <2>1. "storage" \in DOMAIN objects'[r]
    BY <1>8, <1>9
  <2> QED
    BY <2>1 DEF FieldsOf, Options!IsOptions
<1>11. \A k \in DOMAIN parts :
          /\ parts[k] \in 1 .. Len(heap')
          /\ DOMAIN heap'[parts[k]] = OptionsFields[k]
  <2>1. \A k \in DOMAIN parts : parts[k] \in 1 .. Len(heap')
    BY <1>2, <1>7, <1>8
  <2> SUFFICES ASSUME NEW k \in {"self", "props", "perf", "storage"}
               PROVE  DOMAIN heap'[parts[k]] = OptionsFields[k]
    BY <1>8, <2>1
  <2>2. CASE k = "self"
    BY <1>1, <1>7, <1>8, <2>2
  <2>3. CASE k = "props"
    BY <1>1, <1>7, <1>8, <2>3
  <2>4. CASE k = "perf"
    BY <1>1, <1>7, <1>8, <2>4
  <2>5. CASE k = "storage"
    BY <1>1, <1>7, <1>8, <2>5
  <2> QED
    BY <2>2, <2>3, <2>4, <2>5
<1>12. \A p \in DOMAIN objects :
          \A k \in DOMAIN parts, l \in DOMAIN objects[p] :
             parts[k] # objects[p][l]
  BY <1>2, <1>8
<1>13. \A k, l \in DOMAIN parts : parts[k] = parts[l] => k = l
  BY <1>2, <1>8
<1>14. r \in {1, 2} => DOMAIN parts = DOMAIN objects[r]
  <2>1. 1 \in DOMAIN objects
    BY DEF OptionsInv, Typed
  <2>2. objects[1] \in [OptionsParts -> Nat]
    BY <1>3, <2>1, Addresses
  <2> QED
    BY <1>8, <2>2
<1>15. \A o \in DOMAIN objects' \ {r} : objects'[o] = objects[o]
  OBVIOUS
<1>16. OptionsInv'
  <2>1. \A part \in DOMAIN objects'[r] :
           \/ part = "topicMap" /\ objects'[r][part] = 0
           \/ /\ objects'[r][part] \in 1 .. Len(heap')
              /\ DOMAIN heap'[objects'[r][part]] = (FieldsOf(r)')[part]
    BY <1>9, <1>10, <1>11
  <2>2. \A p \in DOMAIN objects \ {r} :
           \A k \in DOMAIN objects'[r], l \in DOMAIN objects[p] :
              objects'[r][k] = objects[p][l] =>
                 k \in Options!Shared /\ l \in Options!Shared
    BY <1>9, <1>12
  <2>3. \A k, l \in DOMAIN objects'[r] :
           objects'[r][k] = objects'[r][l] => k = l
    BY <1>9, <1>13
  <2>4. r \in {1, 2} => DOMAIN objects'[r] = DOMAIN objects[r]
    BY <1>9, <1>14
  <2> QED
    <3>1. Like(heap')
      BY <1>7
    <3> QED
      BY <1>15, <2>1, <2>2, <2>3, <2>4, <3>1, ObjectKeeps
<1>17. Kept
  BY <1>7, KeptByAppend
<1> QED
  BY <1>16, <1>17

LEMMA NewOptionsKeeps ==
  ASSUME OptionsInv, Options!NewOptions
  PROVE  OptionsInv' /\ Kept
<1> DEFINE parts == Options!OptionsAt(Len(heap) + 1)
           r == Len(objects) + 1
<1>1. /\ heap' = heap \o Options!DefaultOptions("default")
      /\ objects' = Append(objects, parts) /\ receiver' = r
  BY DEF Options!NewOptions, Options!Called, Options!Default
<1>2. /\ objects \in Seq(Objects) /\ Len(objects) \in Nat
      /\ DOMAIN objects = 1 .. Len(objects) /\ Len(objects) >= 2
      /\ Like(heap)
  BY DEF OptionsInv, Typed, Like
<1>3. parts \in Objects
  BY <1>2, NewAddresses DEF Objects
<1> HIDE DEF parts
<1>4. /\ objects' \in Seq(Objects) /\ Len(objects') = r
      /\ objects'[r] = parts
      /\ \A o \in 1 .. Len(objects) : objects'[o] = objects[o]
  BY <1>1, <1>2, <1>3, AppendIs
<1>5. DOMAIN objects' = DOMAIN objects \cup {r} /\ r # 2
  BY <1>2, <1>4
<1>6. "default" \in Cell
  BY DEF Cell
<1> QED
  BY <1>1, <1>2, <1>4, <1>5, <1>6, DefaultKeeps DEF parts

LEMMA ResetKeeps ==
  ASSUME OptionsInv, NEW name \in Cell, Options!Reset(name)
  PROVE  OptionsInv' /\ Kept
<1> DEFINE parts == Options!OptionsAt(Len(heap) + 1)
<1>1. /\ heap' = heap \o Options!DefaultOptions(name)
      /\ objects' = [objects EXCEPT ![1] = parts] /\ receiver' = 1
  BY DEF Options!Reset, Options!Called, Options!SB
<1>2. /\ objects \in Seq(Objects) /\ Len(objects) \in Nat
      /\ DOMAIN objects = 1 .. Len(objects) /\ 1 \in DOMAIN objects
      /\ Like(heap)
  BY DEF OptionsInv, Typed, Like
<1>3. parts \in Objects
  BY <1>2, NewAddresses DEF Objects
<1> HIDE DEF parts
<1>4. /\ objects' \in Seq(Objects) /\ Len(objects') = Len(objects)
      /\ DOMAIN objects' = DOMAIN objects
      /\ objects'[1] = parts
      /\ \A o \in DOMAIN objects \ {1} : objects'[o] = objects[o]
  BY <1>1, <1>2, <1>3
<1> QED
  BY <1>1, <1>2, <1>4, DefaultKeeps DEF parts

(* Build: Validate, and on success a copy of all but the Storage.           *)
LEMMA BuildKeeps ==
  ASSUME OptionsInv, Options!Build
  PROVE  OptionsInv' /\ Kept
<1> DEFINE h == Options!Validated(1)
           own == {objects[1].props, objects[1].perf, objects[1].storage}
<1>1. /\ receiver' = 1 /\ 1 \in DOMAIN objects /\ Options!IsOptions(1)
  BY DEF Options!Build, Options!Called, Options!SB, OptionsInv, Typed
<1>2. /\ Like(h) /\ Len(h) = Len(heap)
      /\ \A a \in 1 .. Len(heap) : a \notin own => h[a] = heap[a]
  BY <1>1, ValidatedIs
<1>3. \A p \in DOMAIN objects \ {1} :
         \A k \in DOMAIN objects[p] \ Options!Shared : objects[p][k] \notin own
  BY <1>1, OwnParts
<1>4. CASE heap' = h /\ objects' = objects
  <2>1. OptionsInv'
    BY <1>2, <1>4, RewriteKeeps
  <2> HIDE DEF own, h
  <2>2. Kept
    BY <1>1, <1>2, <1>3, <1>4, KeptWhere
  <2> QED
    BY <2>1, <2>2
<1>5. CASE Options!Clone(1, h)
  <2> DEFINE p == objects[1]
             new == <<h[p.self], h[p.props], h[p.perf]>>
             fresh == Options!OptionsAt(Len(h) + 1)
             parts == [fresh EXCEPT !.storage = p.storage]
  <2>1. heap' = h \o new /\ objects' = Append(objects, parts)
    BY <1>5 DEF Options!Clone
  <2>2. /\ Len(heap) \in Nat /\ h \in Seq(Part)
        /\ objects \in Seq(Objects) /\ Len(objects) \in Nat
        /\ DOMAIN objects = 1 .. Len(objects) /\ Len(objects) >= 2
    BY <1>2 DEF OptionsInv, Typed, Like
  <2>3. /\ p \in [OptionsParts -> Nat]
        /\ DOMAIN p = {"self", "props", "perf", "storage"}
        /\ {p.self, p.props, p.perf, p.storage} \subseteq 1 .. Len(heap)
        /\ DOMAIN heap[p.self] = OptionsFields.self
        /\ DOMAIN heap[p.props] = OptionsFields.props
        /\ DOMAIN heap[p.perf] = OptionsFields.perf
        /\ DOMAIN heap[p.storage] = OptionsFields.storage
        /\ p.storage # p.self /\ p.storage # p.props /\ p.storage # p.perf
    BY <1>1, FourParts
  <2>4. /\ DOMAIN h[p.self] = OptionsFields.self
        /\ DOMAIN h[p.props] = OptionsFields.props
        /\ DOMAIN h[p.perf] = OptionsFields.perf
        /\ DOMAIN h[p.storage] = OptionsFields.storage
        /\ h[p.self] \in Part /\ h[p.props] \in Part /\ h[p.perf] \in Part
    BY <1>2, <2>2, <2>3 DEF Like
  <2>5. /\ new[1] = h[p.self] /\ new[2] = h[p.props] /\ new[3] = h[p.perf]
        /\ new \in Seq(Part) /\ Len(new) = 3
    BY <2>4
  <2> HIDE DEF new, h, p
  <2>6. new \in Seq(Part)
    BY <2>5
  <2>7. /\ Like(h \o new)
        /\ Len(h \o new) = Len(h) + Len(new)
        /\ \A a \in 1 .. Len(h) : (h \o new)[a] = h[a]
        /\ \A i \in 1 .. Len(new) : (h \o new)[Len(h) + i] = new[i]
    BY <1>2, <2>2, <2>6, LongerIsLike
  <2>8. /\ Like(heap') /\ Len(heap') = Len(heap) + 3
        /\ \A a \in 1 .. Len(heap) : heap'[a] = h[a]
        /\ heap'[Len(heap) + 1] = new[1]
        /\ heap'[Len(heap) + 2] = new[2]
        /\ heap'[Len(heap) + 3] = new[3]
    BY <1>2, <2>1, <2>5, <2>7
  <2>9. /\ fresh = [self |-> Len(h) + 1, props |-> Len(h) + 2,
                    perf |-> Len(h) + 3, storage |-> Len(h) + 4]
        /\ \A o \in DOMAIN objects : \A l \in DOMAIN objects[o] :
              objects[o][l] \in Nat /\ objects[o][l] <= Len(h)
    BY <1>2, NewAddresses
  <2> HIDE DEF fresh
  <2>10. /\ parts = [self |-> Len(heap) + 1, props |-> Len(heap) + 2,
                     perf |-> Len(heap) + 3, storage |-> p.storage]
    BY <1>2, <2>9
  <2>11. parts \in [OptionsParts -> Nat]
    BY <2>2, <2>3, <2>10 DEF OptionsParts, OptionsFields
  <2> HIDE DEF parts
  <2>12. parts \in Objects
    BY <2>11 DEF Objects
  <2> PICK r \in Nat : r = Len(objects) + 1
    BY <2>2
  <2>13. /\ objects' \in Seq(Objects) /\ Len(objects') = r
         /\ objects'[r] = parts
         /\ \A o \in 1 .. Len(objects) : objects'[o] = objects[o]
    BY <2>1, <2>2, <2>12, AppendIs
  <2>14. DOMAIN objects' = DOMAIN objects \cup {r} /\ r \notin DOMAIN objects
         /\ r \notin {1, 2}
    BY <2>2, <2>13
  <2>15. (FieldsOf(r))' = OptionsFields
    <3>1. "storage" \in DOMAIN objects'[r]
      BY <2>10, <2>13
    <3> QED
      BY <3>1 DEF FieldsOf, Options!IsOptions
  <2>16. \A k \in DOMAIN parts :
            /\ parts[k] \in 1 .. Len(heap')
            /\ DOMAIN heap'[parts[k]] = OptionsFields[k]
    <3>1. \A k \in DOMAIN parts : parts[k] \in 1 .. Len(heap')
      BY <2>2, <2>3, <2>8, <2>10
    <3> SUFFICES ASSUME NEW k \in {"self", "props", "perf", "storage"}
                 PROVE  DOMAIN heap'[parts[k]] = OptionsFields[k]
      BY <2>10, <3>1
    <3>2. CASE k = "self"
      BY <2>4, <2>5, <2>8, <2>10, <3>2
    <3>3. CASE k = "props"
      BY <2>4, <2>5, <2>8, <2>10, <3>3
    <3>4. CASE k = "perf"
      BY <2>4, <2>5, <2>8, <2>10, <3>4
    <3>5. CASE k = "storage"
      BY <2>3, <2>4, <2>8, <2>10, <3>5
    <3> QED
      BY <3>2, <3>3, <3>4, <3>5
  <2>17. \A o \in DOMAIN objects :
           \A k \in DOMAIN parts, l \in DOMAIN objects[o] :
             parts[k] = objects[o][l] =>
               k \in Options!Shared /\ l \in Options!Shared
    <3> SUFFICES ASSUME NEW o \in DOMAIN objects, NEW k \in DOMAIN parts,
                        NEW l \in DOMAIN objects[o], parts[k] = objects[o][l]
                 PROVE  k = "storage" /\ l \in Options!Shared
      BY DEF Options!Shared
    <3>1. k = "storage"
      BY <1>2, <2>2, <2>9, <2>10
    <3>2. p.storage = objects[o][l] /\ p.storage = objects[1]["storage"]
      BY <2>10, <3>1 DEF p
    <3>3. l \in Options!Shared
      <4> SUFFICES ASSUME l \notin Options!Shared PROVE FALSE
        OBVIOUS
      <4>1. "storage" \in DOMAIN objects[1]
        BY <2>3 DEF p
      <4>2. Apart
        BY DEF OptionsInv
      <4>3. 1 \in DOMAIN objects /\ objects[o][l] = objects[1]["storage"]
        BY <1>1, <3>2
      <4>4. l \in DOMAIN objects[o] \ Options!Shared
        OBVIOUS
      <4> HIDE DEF own
      <4>5. l = "storage"
        BY <4>1, <4>2, <4>3, <4>4 DEF Apart
      <4> QED
        BY <4>5 DEF Options!Shared
    <3> QED
      BY <3>1, <3>3
  <2>18. \A k, l \in DOMAIN parts : parts[k] = parts[l] => k = l
    BY <2>2, <2>3, <2>10
  <2>19. OptionsInv'
    <3>1. /\ Len(objects') >= Len(objects) /\ r \in DOMAIN objects'
          /\ \A o \in DOMAIN objects' \ {r} : objects'[o] = objects[o]
      BY <2>2, <2>13, <2>14
    <3> QED
      BY <2>8, <2>13, <2>14, <2>15, <2>16, <2>17, <2>18, <3>1, ObjectKeeps
  <2>20. Kept
    <3>1. \A a \in 1 .. Len(heap) : a \notin own => heap'[a] = heap[a]
      BY <1>2, <2>8
    <3>2. \A o \in DOMAIN objects \ {receiver'} : objects'[o] = objects[o]
      BY <2>2, <2>13
    <3> HIDE DEF own
    <3> QED
      BY <1>1, <1>3, <3>1, <3>2, KeptWhere
  <2> QED
    BY <2>19, <2>20
<1> QED
  BY <1>4, <1>5 DEF Options!Build, Options!SB

(* The forwarder's configuration is copied, but for its TopicMap.           *)
LEMMA BuildForwarderKeeps ==
  ASSUME OptionsInv, Options!BuildForwarder
  PROVE  OptionsInv' /\ Kept
<1> DEFINE config == heap[objects[2].self]
           parts == [objects[2] EXCEPT !.self = Len(heap')]
<1>1. /\ heap' = Append(heap, config) /\ objects' = Append(objects, parts)
      /\ receiver' = 2
  BY DEF Options!BuildForwarder, Options!Called, Options!FB
<1>2. /\ heap \in Seq(Part) /\ Len(heap) \in Nat
      /\ objects \in Seq(Objects) /\ Len(objects) \in Nat
      /\ DOMAIN objects = 1 .. Len(objects) /\ Len(objects) >= 2
      /\ 2 \in DOMAIN objects /\ ~Options!IsOptions(2)
      /\ FieldsOf(2) = ConfigFields
  BY DEF OptionsInv, Typed, FieldsOf
<1>3. objects[2] \in [ConfigParts -> Nat]
      /\ DOMAIN objects[2] = {"self", "topicMap"}
  BY <1>2, Addresses DEF ConfigParts, ConfigFields
<1>4. /\ objects[2].self \in 1 .. Len(heap)
      /\ DOMAIN config = ConfigFields.self
      /\ \/ objects[2].topicMap = 0
         \/ /\ objects[2].topicMap \in 1 .. Len(heap)
            /\ DOMAIN heap[objects[2].topicMap] = ConfigFields.topicMap
      /\ objects[2].self # objects[2].topicMap
  BY <1>2, <1>3 DEF OptionsInv, Formed, Apart, Options!Shared
<1>5. config \in Part
  BY <1>2, <1>4
<1> HIDE DEF config
<1>6. /\ heap' \in Seq(Part) /\ Len(heap') = Len(heap) + 1
      /\ \A a \in 1 .. Len(heap) : heap'[a] = heap[a]
      /\ heap'[Len(heap) + 1] = config
  BY <1>1, <1>2, <1>5, AppendIs
<1>7. Like(heap')
  BY <1>2, <1>6 DEF Like
<1>8. parts = [self |-> Len(heap) + 1, topicMap |-> objects[2].topicMap]
  BY <1>3, <1>6 DEF ConfigParts, ConfigFields
<1>9. parts \in [ConfigParts -> Nat]
  BY <1>2, <1>4, <1>8 DEF ConfigParts, ConfigFields
<1> HIDE DEF parts
<1>10. parts \in Objects
  BY <1>9 DEF Objects
<1> PICK r \in Nat : r = Len(objects) + 1
  BY <1>2
<1>11. /\ objects' \in Seq(Objects) /\ Len(objects') = r
       /\ objects'[r] = parts
       /\ \A o \in 1 .. Len(objects) : objects'[o] = objects[o]
  BY <1>1, <1>2, <1>10, AppendIs
<1>12. /\ DOMAIN objects' = DOMAIN objects \cup {r} /\ r \notin DOMAIN objects
       /\ r \notin {1, 2} /\ r \in DOMAIN objects'
       /\ \A o \in DOMAIN objects' \ {r} : objects'[o] = objects[o]
       /\ Len(objects') >= Len(objects)
  BY <1>2, <1>11
<1>13. (FieldsOf(r))' = ConfigFields
  <2>1. "storage" \notin DOMAIN objects'[r]
    BY <1>8, <1>11
  <2> QED
    BY <2>1 DEF FieldsOf, Options!IsOptions
<1>14. \A k \in DOMAIN parts :
          \/ k = "topicMap" /\ parts[k] = 0
          \/ /\ parts[k] \in 1 .. Len(heap')
             /\ DOMAIN heap'[parts[k]] = ConfigFields[k]
  <2>1. parts.self \in 1 .. Len(heap')
        /\ DOMAIN heap'[parts.self] = ConfigFields.self
    BY <1>2, <1>4, <1>6, <1>8
  <2>2. \/ parts.topicMap = 0
        \/ /\ parts.topicMap \in 1 .. Len(heap')
           /\ DOMAIN heap'[parts.topicMap] = ConfigFields.topicMap
    BY <1>2, <1>4, <1>6, <1>8
  <2> SUFFICES ASSUME NEW k \in {"self", "topicMap"}
               PROVE  \/ k = "topicMap" /\ parts[k] = 0
                      \/ /\ parts[k] \in 1 .. Len(heap')
                         /\ DOMAIN heap'[parts[k]] = ConfigFields[k]
    BY <1>8
  <2>3. CASE k = "self"
    BY <2>1, <2>3
  <2>4. CASE k = "topicMap"
    BY <2>2, <2>4
  <2> QED
    BY <2>3, <2>4
<1>15. \A o \in DOMAIN objects :
         \A k \in DOMAIN parts, l \in DOMAIN objects[o] :
           parts[k] = objects[o][l] =>
             k \in Options!Shared /\ l \in Options!Shared
  <2> SUFFICES ASSUME NEW o \in DOMAIN objects, NEW k \in DOMAIN parts,
                      NEW l \in DOMAIN objects[o], parts[k] = objects[o][l]
               PROVE  k = "topicMap" /\ l \in Options!Shared
    BY DEF Options!Shared
  <2>1. k = "topicMap"
    <3>1. objects[o][l] # Len(heap) + 1
      BY <1>2, Addresses
    <3> QED
      BY <1>8, <3>1
  <2>2. objects[2]["topicMap"] = objects[o][l]
    BY <1>8, <2>1
  <2>3. l \in Options!Shared
    <3> SUFFICES ASSUME l \notin Options!Shared PROVE FALSE
      OBVIOUS
    <3>1. Apart
      BY DEF OptionsInv
    <3>2. l \in DOMAIN objects[o] \ Options!Shared
      OBVIOUS
    <3>3. "topicMap" \in DOMAIN objects[2]
      BY <1>3
    <3>4. l = "topicMap"
      BY <1>2, <2>2, <3>1, <3>2, <3>3 DEF Apart
    <3> QED
      BY <3>4 DEF Options!Shared
  <2> QED
    BY <2>1, <2>3
<1>16. \A k, l \in DOMAIN parts : parts[k] = parts[l] => k = l
  BY <1>2, <1>4, <1>8
<1>17. OptionsInv'
  BY <1>7, <1>11, <1>12, <1>13, <1>14, <1>15, <1>16, ObjectKeeps
<1>18. Kept
  BY <1>2, <1>6, <1>11, KeptByAppend
<1> QED
  BY <1>17, <1>18

-----------------------------------------------------------------------------
LEMMA RejectKeeps ==
  ASSUME OptionsInv, NEW o, Options!Reject(o) \/ Options!Ignore(o)
  PROVE  OptionsInv' /\ Kept
<1>1. heap' = heap /\ objects' = objects
  BY DEF Options!Reject, Options!Ignore
<1>2. Like(heap')
  BY <1>1 DEF OptionsInv, Typed, Like
<1> QED
  BY <1>1, <1>2, RewriteKeeps, KeptByAppend

LEMMA OptionsChange ==
  ASSUME OptionsInv, NEW o \in DOMAIN objects, Options!IsOptions(o),
         NEW part \in {"self", "props", "perf", "storage"},
         NEW F \in SUBSET Fields, NEW f \in [F -> Cell],
         "type" \in F => f["type"] \in Types,
         Options!Change(o, part, f)
  PROVE  OptionsInv' /\ Kept
<1>1. f \in Part
  BY IsPart
<1>2. part \in DOMAIN objects[o] /\ objects[o][part] # 0
  BY FourParts
<1> QED
  BY <1>1, <1>2, ChangeKeeps

LEMMA ConfigChange ==
  ASSUME OptionsInv, NEW part \in {"self", "topicMap"}, objects[2][part] # 0,
         NEW F \in SUBSET Fields, NEW f \in [F -> Cell], "type" \notin F,
         Options!Change(2, part, f)
  PROVE  OptionsInv' /\ Kept
<1>1. f \in Part
  BY IsPart
<1>2. 2 \in DOMAIN objects /\ ~Options!IsOptions(2)
  BY DEF OptionsInv, Typed
<1>3. part \in DOMAIN objects[2]
  BY <1>2, Addresses DEF ConfigParts, ConfigFields
<1> QED
  BY <1>1, <1>2, <1>3, ChangeKeeps

(* A field of a builder is set, or what was passed is rejected.             *)
LEMMA FieldKeeps ==
  ASSUME OptionsInv, NEW o \in {1, 2},
         NEW part \in {"self", "props", "perf"}, o = 2 => part = "self",
         NEW field \in Fields \ {"type"}, NEW v \in Options!Values,
         \/ Options!Checked(o, part, field, v)
         \/ Options!Defaulted(o, part, field, v)
  PROVE  OptionsInv' /\ Kept
<1>1. /\ 1 \in DOMAIN objects /\ Options!IsOptions(1)
      /\ 2 \in DOMAIN objects /\ ~Options!IsOptions(2)
  BY DEF OptionsInv, Typed
<1>2. objects[2]["self"] # 0
  <2>1. "self" \in DOMAIN objects[2]
    BY <1>1, Addresses DEF ConfigParts, ConfigFields
  <2> QED
    BY <1>1, <2>1 DEF OptionsInv, Formed
<1>3. ASSUME NEW c \in Cell, Options!Change(o, part, [f \in {field} |-> c])
      PROVE  OptionsInv' /\ Kept
  <2>1. [f \in {field} |-> c] \in [{field} -> Cell] /\ "type" \notin {field}
        /\ {field} \in SUBSET Fields
    OBVIOUS
  <2>2. CASE o = 1
    BY <1>1, <1>3, <2>1, <2>2, OptionsChange
  <2>3. CASE o = 2
    BY <1>2, <1>3, <2>1, <2>3, ConfigChange
  <2> QED
    BY <2>2, <2>3
<1>4. /\ v \in Cell
      /\ (IF v = Options!Bad THEN Options!Default ELSE v) \in Cell
  BY DEF Options!Values, Options!Bad, Options!Default, Cell
<1>5. CASE Options!Checked(o, part, field, v)
  BY <1>3, <1>4, <1>5, RejectKeeps DEF Options!Checked
<1>6. CASE Options!Defaulted(o, part, field, v)
  <2> DEFINE c == IF v = Options!Bad THEN Options!Default ELSE v
  <2>1. c \in Cell /\ Options!Change(o, part, [f \in {field} |-> c])
    BY <1>4, <1>6 DEF Options!Defaulted
  <2> HIDE DEF c
  <2> QED
    BY <1>3, <2>1
<1> QED
  BY <1>5, <1>6

LEMMA SessionBuilderKeeps ==
  ASSUME OptionsInv, NEW v \in Options!Values,
         \/ Options!Brokers(v) \/ Options!ClientID(v) \/ Options!KeepAlive(v)
         \/ Options!Subscribe(v) \/ Options!Auth(v) \/ Options!TLS(v)
         \/ Options!ReconnectConfig(v) \/ Options!Timeouts(v)
         \/ Options!Performance(v) \/ Options!MessageChannelSize(v)
         \/ Options!FileStorage(v) \/ Options!RedisStorage(v)
         \/ Options!RedisAuth(v) \/ Options!Reset(v)
  PROVE  OptionsInv' /\ Kept
<1>1. /\ 1 \in DOMAIN objects /\ Options!IsOptions(1) /\ v \in Cell
      /\ FieldsOf(1) = OptionsFields
  BY DEF OptionsInv, Typed, FieldsOf, Options!Values, Options!Bad, Cell
<1>2. {"name", "brokers", "clientID", "auth", "tls", "topics", "keepAlive",
       "reconnect", "timeouts", "buffers", "channel"}
        \subseteq Fields \ {"type"}
  BY DEF Fields, OptionsFields
<1>3. CASE Options!Brokers(v) \/ Options!ClientID(v) \/ Options!KeepAlive(v)
           \/ Options!Subscribe(v)
  BY <1>2, <1>3, FieldKeeps DEF Options!Brokers, Options!ClientID,
     Options!KeepAlive, Options!Subscribe, Options!SB
<1>4. CASE Options!ReconnectConfig(v) \/ Options!Timeouts(v)
           \/ Options!Performance(v) \/ Options!MessageChannelSize(v)
  BY <1>2, <1>4, FieldKeeps DEF Options!ReconnectConfig, Options!Timeouts,
     Options!Performance, Options!MessageChannelSize, Options!SB
<1>5. CASE Options!Auth(v)
  <2>1. [auth |-> v] \in [{"auth"} -> Cell] /\ {"auth"} \in SUBSET Fields
    BY <1>1, <1>2
  <2> QED
    BY <1>1, <1>5, <2>1, OptionsChange DEF Options!Auth, Options!SB
<1>6. CASE Options!TLS(v)
  <2>1. [tls |-> v] \in [{"tls"} -> Cell] /\ {"tls"} \in SUBSET Fields
    BY <1>1, <1>2
  <2> QED
    BY <1>1, <1>6, <2>1, OptionsChange DEF Options!TLS, Options!SB
<1>7. ASSUME NEW f \in [OptionsFields.storage -> Cell], f["type"] \in Types,
             Options!Renew(1, "storage", f)
      PROVE  OptionsInv' /\ Kept
  <2>1. OptionsFields.storage \in SUBSET Fields
    BY DEF Fields
  <2>2. f \in Part
    BY <1>7, <2>1, IsPart
  <2>3. "storage" \in DOMAIN objects[1] \cap Options!Shared
    BY <1>1, FourParts DEF Options!Shared
  <2>4. DOMAIN f = FieldsOf(1)["storage"]
    BY <1>1
  <2> QED
    BY <1>7, <2>2, <2>3, <2>4, RenewKeeps
<1>8. CASE Options!FileStorage(v)
  <2> DEFINE f == [type |-> "file", path |-> v, addr |-> "nil",
                   login |-> "default"]
  <2>1. f \in [OptionsFields.storage -> Cell] /\ f["type"] \in Types
    BY <1>1 DEF OptionsFields, Cell, Types
  <2>2. Options!Reject(1) \/ Options!Renew(1, "storage", f)
    BY <1>8 DEF Options!FileStorage, Options!SB, Options!Default
  <2> HIDE DEF f
  <2> QED
    BY <1>7, <2>1, <2>2, RejectKeeps
<1>9. CASE Options!RedisStorage(v)
  <2> DEFINE f == [type |-> "redis", path |-> "bad", addr |-> v,
                   login |-> "default"]
  <2>1. f \in [OptionsFields.storage -> Cell] /\ f["type"] \in Types
    BY <1>1 DEF OptionsFields, Cell, Types
  <2>2. Options!Reject(1) \/ Options!Renew(1, "storage", f)
    BY <1>9 DEF Options!RedisStorage, Options!SB, Options!Default, Options!Bad
  <2> HIDE DEF f
  <2> QED
    BY <1>7, <2>1, <2>2, RejectKeeps
<1>10. CASE Options!RedisAuth(v)
  <2> DEFINE s == heap[objects[1].storage]
             f == [login |-> v, addr |-> Options!RedisMade(s)]
  <2>1. Options!RedisMade(s) \in Cell
    <3>1. s \in Part /\ DOMAIN s = OptionsFields.storage
      BY <1>1, FourParts DEF OptionsInv, Typed
    <3>2. s["addr"] \in Cell
      BY <3>1, PartIs DEF OptionsFields
    <3> QED
      BY <3>2 DEF Options!RedisMade, Options!Default, Cell
  <2>2. f \in [{"login", "addr"} -> Cell]
    BY <1>1, <2>1
  <2>3. {"login", "addr"} \in SUBSET Fields
    BY DEF Fields, OptionsFields
  <2>4. Options!Reject(1) \/ Options!Change(1, "storage", f)
    BY <1>10 DEF Options!RedisAuth, Options!SB
  <2> HIDE DEF f
  <2> QED
    BY <1>1, <2>2, <2>3, <2>4, OptionsChange, RejectKeeps
<1>11. CASE Options!Reset(v)
  BY <1>1, <1>11, ResetKeeps
<1> QED
  BY <1>3, <1>4, <1>5, <1>6, <1>8, <1>9, <1>10, <1>11

LEMMA ForwarderBuilderKeeps ==
  ASSUME OptionsInv, NEW v \in Options!Values,
         \/ Options!Source(v) \/ Options!Target(v) \/ Options!QoS(v)
         \/ Options!BufferSize(v) \/ Options!TopicMapping(v)
         \/ Options!MapTopic(v)
  PROVE  OptionsInv' /\ Kept
<1>1. /\ 2 \in DOMAIN objects /\ ~Options!IsOptions(2) /\ v \in Cell
      /\ FieldsOf(2) = ConfigFields
  BY DEF OptionsInv, Typed, FieldsOf, Options!Values, Options!Bad, Cell
<1>2. {"source", "target", "qos", "bufferSize", "to"}
        \subseteq Fields \ {"type"}
  BY DEF Fields, ConfigFields
<1>3. CASE Options!Source(v) \/ Options!Target(v) \/ Options!QoS(v)
           \/ Options!BufferSize(v)
  BY <1>2, <1>3, FieldKeeps DEF Options!Source, Options!Target, Options!QoS,
     Options!BufferSize, Options!FB
<1> DEFINE f == [to |-> v]
<1>4. f \in [{"to"} -> Cell] /\ "type" \notin {"to"}
      /\ {"to"} \in SUBSET Fields
  BY <1>1, <1>2
<1>5. f \in Part /\ DOMAIN f = FieldsOf(2)["topicMap"]
  BY <1>1, <1>4, IsPart DEF ConfigFields
<1>6. "topicMap" \in DOMAIN objects[2] \cap Options!Shared
  BY <1>1, Addresses DEF ConfigParts, ConfigFields, Options!Shared
<1> HIDE DEF f
<1>7. CASE Options!Renew(2, "topicMap", f)
  BY <1>5, <1>6, <1>7, RenewKeeps
<1>8. CASE objects[2]["topicMap"] # 0 /\ Options!Change(2, "topicMap", f)
  BY <1>4, <1>8, ConfigChange
<1>9. CASE Options!TopicMapping(v) \/ Options!MapTopic(v)
  <2>1. \/ Options!Reject(2) \/ Options!Ignore(2)
        \/ Options!Renew(2, "topicMap", f)
        \/ objects[2]["topicMap"] # 0 /\ Options!Change(2, "topicMap", f)
    BY <1>9 DEF Options!TopicMapping, Options!MapTopic, Options!FB,
       Options!Nil, f
  <2> QED
    BY <1>7, <1>8, <2>1, RejectKeeps
<1> QED
  BY <1>3, <1>9

LEMMA FlagCallKeeps ==
  ASSUME OptionsInv, Options!FlagCall \/ Options!Persistent
  PROVE  OptionsInv' /\ Kept
<1>1. /\ 1 \in DOMAIN objects /\ Options!IsOptions(1)
      /\ 2 \in DOMAIN objects /\ ~Options!IsOptions(2)
  BY DEF OptionsInv, Typed
<1>2. {"clean", "autoReconnect", "persistent", "enabled"} \subseteq Fields
  BY DEF Fields, OptionsFields, ConfigFields
<1>3. ASSUME NEW on \in Options!Flags, Options!CleanSession(on)
      PROVE  OptionsInv' /\ Kept
  <2>1. [clean |-> on] \in [{"clean"} -> Cell] /\ {"clean"} \in SUBSET Fields
    BY <1>2 DEF Options!Flags, Cell
  <2> QED
    BY <1>1, <1>3, <2>1, OptionsChange DEF Options!CleanSession, Options!SB
<1>4. ASSUME NEW on \in Options!Flags, Options!AutoReconnect(on)
      PROVE  OptionsInv' /\ Kept
  <2>1. [autoReconnect |-> on] \in [{"autoReconnect"} -> Cell]
        /\ {"autoReconnect"} \in SUBSET Fields
    BY <1>2 DEF Options!Flags, Cell
  <2> QED
    BY <1>1, <1>4, <2>1, OptionsChange DEF Options!AutoReconnect, Options!SB
<1>5. ASSUME NEW on \in Options!Flags, Options!Enable(on)
      PROVE  OptionsInv' /\ Kept
  <2>1. [enabled |-> on] \in [{"enabled"} -> Cell] /\ "type" \notin {"enabled"}
        /\ {"enabled"} \in SUBSET Fields
    BY <1>2 DEF Options!Flags, Cell
  <2>2. "self" \in DOMAIN objects[2]
    BY <1>1, Addresses DEF ConfigParts, ConfigFields
  <2>3. objects[2]["self"] # 0
    BY <1>1, <2>2 DEF OptionsInv, Formed
  <2> QED
    BY <1>5, <2>1, <2>3, ConfigChange DEF Options!Enable, Options!FB
<1>6. CASE Options!Persistent
  <2>1. [persistent |-> "on", clean |-> "off"]
          \in [{"persistent", "clean"} -> Cell]
        /\ {"persistent", "clean"} \in SUBSET Fields
    BY <1>2 DEF Cell
  <2> QED
    BY <1>1, <1>6, <2>1, OptionsChange DEF Options!Persistent, Options!SB
<1> QED
  BY <1>3, <1>4, <1>5, <1>6 DEF Options!FlagCall

LEMMA OptionsCallKeeps ==
  ASSUME OptionsInv, Options!OptionsCall
  PROVE  OptionsInv' /\ Kept
<1>1. PICK o \in Options!Programs, v \in Options!Values, on \in Options!Flags :
      \/ Options!WithTLS(o, v) \/ Options!WithPerformance(o, v)
      \/ Options!WithTimeout(o, v) \/ Options!WithAuth(o, v)
      \/ Options!WithRedisStorage(o, v) \/ Options!WithReconnect(o, on, v)
      \/ Options!WithPersistence(o, on) \/ Options!WithCleanSession(o, on)
      \/ \E type \in Types : Options!WithStorage(o, type, v)
      \/ Options!AddSession(o)
  BY DEF Options!OptionsCall, Types
<1>2. o \in DOMAIN objects /\ Options!IsOptions(o)
  BY DEF Options!Programs
<1>3. v \in Cell /\ on \in Cell /\ "huge" \in Cell /\ Types \subseteq Cell
  BY DEF Options!Values, Options!Flags, Options!Bad, Cell, Types
<1>4. {"auth", "tls", "clean", "autoReconnect", "persistent", "reconnect",
       "timeouts", "buffers", "channel", "type", "path", "addr", "login"}
        \subseteq Fields
  BY DEF Fields, OptionsFields
<1>5. CASE Options!WithTLS(o, v)
  <2>1. [tls |-> v] \in [{"tls"} -> Cell] /\ {"tls"} \in SUBSET Fields
    BY <1>3, <1>4
  <2> QED
    BY <1>2, <1>5, <2>1, OptionsChange DEF Options!WithTLS
<1>6. CASE Options!WithAuth(o, v)
  <2>1. [auth |-> v] \in [{"auth"} -> Cell] /\ {"auth"} \in SUBSET Fields
    BY <1>3, <1>4
  <2> QED
    BY <1>2, <1>6, <2>1, OptionsChange DEF Options!WithAuth
<1>7. CASE Options!WithPerformance(o, v)
  <2>1. PICK c \in Cell :
           Options!Change(o, "perf", [buffers |-> v, channel |-> c])
    BY <1>3, <1>7 DEF Options!WithPerformance
  <2>2. [buffers |-> v, channel |-> c] \in [{"buffers", "channel"} -> Cell]
        /\ {"buffers", "channel"} \in SUBSET Fields
    BY <1>3, <1>4
  <2> QED
    BY <1>2, <2>1, <2>2, OptionsChange
<1>8. CASE Options!WithTimeout(o, v)
  <2>1. [timeouts |-> v] \in [{"timeouts"} -> Cell]
        /\ {"timeouts"} \in SUBSET Fields
    BY <1>3, <1>4
  <2> QED
    BY <1>2, <1>8, <2>1, OptionsChange DEF Options!WithTimeout
<1>9. CASE Options!WithRedisStorage(o, v)
  <2> DEFINE f == [type |-> "redis", addr |-> v, login |-> v]
  <2>1. f \in [{"type", "addr", "login"} -> Cell] /\ f["type"] \in Types
        /\ {"type", "addr", "login"} \in SUBSET Fields
    BY <1>3, <1>4 DEF Cell, Types
  <2>2. Options!Change(o, "storage", f)
    BY <1>9 DEF Options!WithRedisStorage
  <2> HIDE DEF f
  <2> QED
    BY <1>2, <2>1, <2>2, OptionsChange
<1>10. CASE Options!WithReconnect(o, on, v)
  <2>1. [autoReconnect |-> on] \in [{"autoReconnect"} -> Cell]
        /\ {"autoReconnect"} \in SUBSET Fields
    BY <1>3, <1>4
  <2>2. [autoReconnect |-> on, reconnect |-> v]
          \in [{"autoReconnect", "reconnect"} -> Cell]
        /\ {"autoReconnect", "reconnect"} \in SUBSET Fields
    BY <1>3, <1>4
  <2>3. \/ Options!Change(o, "props", [autoReconnect |-> on])
        \/ Options!Change(o, "props", [autoReconnect |-> on, reconnect |-> v])
    BY <1>10 DEF Options!WithReconnect
  <2> QED
    BY <1>2, <2>1, <2>2, <2>3, OptionsChange
<1>11. CASE Options!WithPersistence(o, on)
  <2>1. [persistent |-> on] \in [{"persistent"} -> Cell]
        /\ {"persistent"} \in SUBSET Fields
    BY <1>3, <1>4
  <2> QED
    BY <1>2, <1>11, <2>1, OptionsChange DEF Options!WithPersistence
<1>12. CASE Options!WithCleanSession(o, on)
  <2>1. [clean |-> on] \in [{"clean"} -> Cell] /\ {"clean"} \in SUBSET Fields
    BY <1>3, <1>4
  <2> QED
    BY <1>2, <1>12, <2>1, OptionsChange DEF Options!WithCleanSession
<1>13. ASSUME NEW type \in Types, Options!WithStorage(o, type, v)
       PROVE  OptionsInv' /\ Kept
  <2> DEFINE f == [type |-> type, path |-> v]
  <2>1. f \in [{"type", "path"} -> Cell] /\ f["type"] \in Types
        /\ {"type", "path"} \in SUBSET Fields
    BY <1>3, <1>4
  <2>2. Options!Change(o, "storage", f)
    BY <1>13 DEF Options!WithStorage
  <2> HIDE DEF f
  <2> QED
    BY <1>2, <2>1, <2>2, OptionsChange
<1>14. CASE Options!AddSession(o)
  BY <1>14, AddSessionKeeps
<1> QED
  BY <1>1, <1>5, <1>6, <1>7, <1>8, <1>9, <1>10, <1>11, <1>12, <1>13, <1>14

LEMMA OptionsNext ==
  ASSUME OptionsInv, Options!Next
  PROVE  OptionsInv' /\ Kept
<1>1. CASE Options!BuilderCall
  BY <1>1, SessionBuilderKeeps, ForwarderBuilderKeeps DEF Options!BuilderCall
<1> QED
  BY <1>1, FlagCallKeeps, BuildKeeps, BuildForwarderKeeps, NewOptionsKeeps,
     OptionsCallKeeps DEF Options!Next

LEMMA OptionsInvariance == OptionsSpec => []OptionsInv
<1>1. OptionsInv /\ UNCHANGED Options!vars => OptionsInv'
  BY DEF Options!vars, OptionsInv, Typed, Formed, Apart, FieldsOf,
     Options!IsOptions
<1> QED
  BY <1>1, OptionsInit, OptionsNext, PTL DEF OptionsSpec, Options!Spec

(* Whatever the calls and however many: what a builder returned, and what   *)
(* the program made, changes by no call of another receiver.                *)
THEOREM CallsKeepOthers == OptionsSpec => OthersKept
<1>1. OptionsInv /\ [Options!Next]_(Options!vars)
        => [Kept]_(Options!vars)
  BY OptionsNext
<1> QED
  BY <1>1, OptionsInvariance, PTL
  DEF OptionsSpec, Options!Spec, OthersKept, Options!OthersKept, Kept

-----------------------------------------------------------------------------
LEMMA StoreSetIsUsable ==
  ASSUME NEW s \in Part, DOMAIN s = OptionsFields.storage,
         Options!StoreIsGood(s)
  PROVE  LET t == Options!StoreSet(s)
         IN  \/ t.type = "memory"
             \/ t.type = "file" /\ t.path # Options!Bad
             \/ t.type = "redis" /\ t.addr \notin {Options!Bad, "nil"}
<1>1. /\ s \in [{"type", "path", "addr", "login"} -> Cell]
      /\ s["type"] \in Types
  BY PartIs DEF OptionsFields
<1>2. CASE s.type = "redis"
  <2>1. Options!StoreSet(s) = [s EXCEPT !.addr = Options!RedisMade(s)]
    BY <1>2 DEF Options!StoreSet
  <2>2. Options!RedisMade(s) \notin {Options!Bad, "nil"}
    BY <1>2 DEF Options!RedisMade, Options!StoreIsGood, Options!Default,
       Options!Bad
  <2> QED
    BY <1>1, <1>2, <2>1, <2>2
<1>3. CASE s.type = "other"
  <2>1. Options!StoreSet(s) = [s EXCEPT !.type = "memory"]
    BY <1>3 DEF Options!StoreSet
  <2> QED
    BY <1>1, <2>1
<1>4. CASE s.type \in {"memory", "file"}
  <2>1. Options!StoreSet(s) = s
    BY <1>4 DEF Options!StoreSet
  <2> QED
    BY <1>4, <2>1 DEF Options!StoreIsGood
<1> QED
  BY <1>1, <1>2, <1>3, <1>4 DEF Types

LEMMA AddSessionUsable ==
  ASSUME OptionsInv, NEW o \in Options!Programs, Options!AddSession(o),
         Options!Valid(o)
  PROVE  Options!Usable(o)'
<1> DEFINE p == objects[o]
           h == Options!Validated(o)
<1>1. o \in DOMAIN objects /\ Options!IsOptions(o)
  BY DEF Options!Programs
<1>2. heap' = h /\ objects' = objects
  BY DEF Options!AddSession
<1>3. Options!Bad \notin Options!Names(o)
  BY DEF Options!Valid
<1>4. /\ {p.self, p.props, p.perf, p.storage} \subseteq 1 .. Len(heap)
      /\ DOMAIN heap = 1 .. Len(heap)
      /\ DOMAIN heap[p.self] = OptionsFields.self
      /\ DOMAIN heap[p.props] = OptionsFields.props
      /\ DOMAIN heap[p.perf] = OptionsFields.perf
      /\ DOMAIN heap[p.storage] = OptionsFields.storage
      /\ p.self \notin {p.props, p.perf, p.storage}
  BY <1>1, FourParts
<1>5. /\ h[p.self] = heap[p.self]
      /\ h[p.props] = Options!Defaults(heap[p.props])
      /\ h[p.perf] = Options!Defaults(heap[p.perf])
      /\ h[p.storage] = Options!StoreSet(heap[p.storage])
  BY <1>1, <1>3, <1>4, ValidatedIs
<1>6. \A f \in DOMAIN h[p.self] \ {"auth", "tls"} :
         h[p.self][f] # Options!Bad
  <2>1. \A f \in {"name", "brokers", "clientID"} :
           heap[p.self][f] # Options!Bad
    BY <1>3 DEF Options!Names
  <2>2. heap[p.self]["topics"] # Options!Bad
    BY DEF Options!Valid
  <2> QED
    BY <1>4, <1>5, <2>1, <2>2 DEF OptionsFields
<1>7. \A f \in DOMAIN h[p.props] : h[p.props][f] # Options!Bad
  BY <1>5 DEF Options!Defaults, Options!Default, Options!Bad
<1>8. \A f \in DOMAIN h[p.perf] : h[p.perf][f] # Options!Bad
  BY <1>5 DEF Options!Defaults, Options!Default, Options!Bad
<1>9. LET t == h[p.storage]
      IN  \/ t.type = "memory"
          \/ t.type = "file" /\ t.path # Options!Bad
          \/ t.type = "redis" /\ t.addr \notin {Options!Bad, "nil"}
  <2>1. heap[p.storage] \in Part
    BY <1>4 DEF OptionsInv, Typed
  <2>2. Options!StoreIsGood(heap[p.storage])
    BY DEF Options!Valid
  <2> QED
    BY <1>4, <1>5, <2>1, <2>2, StoreSetIsUsable
<1> HIDE DEF h
<1> QED
  BY <1>2, <1>6, <1>7, <1>8, <1>9 DEF Options!Usable

(* Only AddSession takes Options.                                           *)
LEMMA OnlyAddSessionAdds ==
  ASSUME Options!Next
  PROVE  \/ sessions' = sessions
         \/ \E o \in Options!Programs :
              /\ Options!AddSession(o)
              /\ sessions' = sessions \cup {x \in {o} : Options!Valid(x)}
<1> USE DEF Options!Change, Options!Renew, Options!Reject, Options!Ignore,
    Options!Checked, Options!Defaulted
<1>1. CASE Options!BuilderCall
  BY <1>1 DEF Options!BuilderCall, Options!Brokers, Options!ClientID,
     Options!KeepAlive, Options!Subscribe, Options!Auth, Options!TLS,
     Options!ReconnectConfig, Options!Timeouts, Options!Performance,
     Options!MessageChannelSize, Options!FileStorage, Options!RedisStorage,
     Options!RedisAuth, Options!Reset, Options!Source, Options!Target,
     Options!QoS, Options!BufferSize, Options!TopicMapping, Options!MapTopic
<1>2. CASE Options!FlagCall \/ Options!Persistent
  BY <1>2 DEF Options!FlagCall, Options!CleanSession, Options!AutoReconnect,
     Options!Enable, Options!Persistent
<1>3. CASE Options!Build \/ Options!BuildForwarder \/ Options!NewOptions
  BY <1>3 DEF Options!Build, Options!BuildForwarder, Options!NewOptions
<1>4. CASE Options!OptionsCall
  <2>1. PICK o \in Options!Programs, v \in Options!Values,
             on \in Options!Flags :
      \/ Options!WithTLS(o, v) \/ Options!WithPerformance(o, v)
      \/ Options!WithTimeout(o, v) \/ Options!WithAuth(o, v)
      \/ Options!WithRedisStorage(o, v) \/ Options!WithReconnect(o, on, v)
      \/ Options!WithPersistence(o, on) \/ Options!WithCleanSession(o, on)
      \/ \E type \in Types : Options!WithStorage(o, type, v)
      \/ Options!AddSession(o)
    BY <1>4 DEF Options!OptionsCall, Types
  <2>2. CASE Options!AddSession(o)
    <3>1. sessions' = sessions \cup {x \in {o} : Options!Valid(x)}
      BY <2>2 DEF Options!AddSession
    <3> QED
      BY <2>2, <3>1
  <2>3. CASE ~Options!AddSession(o)
    BY <2>1, <2>3 DEF Options!WithTLS, Options!WithPerformance,
       Options!WithTimeout, Options!WithAuth, Options!WithRedisStorage,
       Options!WithReconnect, Options!WithPersistence,
       Options!WithCleanSession, Options!WithStorage
  <2> QED
    BY <2>2, <2>3
<1> QED
  BY <1>1, <1>2, <1>3, <1>4 DEF Options!Next

(* Whatever With... was given and whoever shares the Storage: Options that  *)
(* AddSession takes are usable when it returns.                             *)
THEOREM TakenIsUsable == OptionsSpec => AddedIsUsable
<1>1. OptionsInv /\ [Options!Next]_(Options!vars)
        => [\A o \in sessions' \ sessions : Options!Usable(o)']_(Options!vars)
  <2> SUFFICES ASSUME OptionsInv, Options!Next,
                      NEW o \in sessions' \ sessions
               PROVE  Options!Usable(o)'
    OBVIOUS
  <2>1. PICK p \in Options!Programs :
           /\ Options!AddSession(p)
           /\ sessions' = sessions \cup {x \in {p} : Options!Valid(x)}
    BY OnlyAddSessionAdds
  <2>2. o = p /\ Options!Valid(p)
    BY <2>1
  <2> QED
    BY <2>1, <2>2, AddSessionUsable
<1> QED
  BY <1>1, OptionsInvariance, PTL
  DEF OptionsSpec, Options!Spec, AddedIsUsable, Options!AddedIsUsable

=============================================================================
