----------------------------- MODULE CertWatch -----------------------------
(***************************************************************************)
(* An EnhancedTLSConfig with AutoReload (security.go), shared by sessions: *)
(* what BuildTLSConfig loaded, the watcher goroutines, StartCertWatcher    *)
(* from Session.init and StopCertWatcher from Session.Disconnect, which    *)
(* the reload function calls too.  The certificate and its key are two     *)
(* files, replaced one at a time; a file is its version, and a pair loads  *)
(* when the versions agree.  c.watcher is read and written without a lock. *)
(***************************************************************************)
EXTENDS Naturals

CONSTANTS
    MaxSessions,  \* open at once
    MaxWatchers,  \* bound: watchers ever started
    MaxVersion    \* bound: replacements of a file

ASSUME BoundsAssumption ==
    MaxSessions \in Nat /\ MaxWatchers \in Nat \ {0} /\ MaxVersion \in Nat

Files == {"cert", "key"}
Watchers == 1..MaxWatchers
Nil == 0                           \* c.watcher
NoVersion == MaxVersion + 1        \* c.tlsConfig is nil
NoOne == 0
(* AddSession and RemoveSession exclude each other under m.mu and are one   *)
(* caller.  The user holds a session from GetSession; since DisconnectAll   *)
(* takes m.mu to read only, the user also is the second of two of those.    *)
Manager == MaxWatchers + 1
User == MaxWatchers + 2
Callers == Watchers \cup {Manager, User}

VARIABLES
    files,        \* on disk
    loaded,       \* c.tlsConfig
    building,     \* who is in BuildTLSConfig, under certMutex
    half,         \* the version of the certificate it has read
    open,         \* sessions of the manager
    watcher,      \* c.watcher
    closed,       \* watchers whose stopCh is closed
    at,           \* where each watcher's goroutine is
    known,        \* the file infos it compares with
    step,         \* where each caller of AddSession or Disconnect is
    waitsFor,     \* the watcher whose goroutine it waits for
    reconnects,   \* the reload function is session.init's, or one that returns
    panicked,
    missed,       \* history: a change fell between BuildTLSConfig and start
    overlapped    \* history: a StopCertWatcher began during another

tls == <<loaded, building, half, missed>>
goroutines == <<at, known>>
callers == <<step, waitsFor, open>>
pointer == <<watcher, closed>>
rest == <<reconnects, panicked, overlapped>>
vars == <<files, tls, goroutines, callers, pointer, rest>>

Init ==
    /\ files = [f \in Files |-> 0]
    /\ loaded = NoVersion
    /\ building = NoOne
    /\ half = NoVersion
    /\ open = 0
    /\ watcher = Nil
    /\ closed = {}
    /\ at = [w \in Watchers |-> "unborn"]
    /\ known = [w \in Watchers |-> files]
    /\ step = [c \in Callers |-> "idle"]
    /\ waitsFor = [c \in Callers |-> Nil]
    /\ reconnects \in BOOLEAN
    /\ panicked = FALSE
    /\ missed = FALSE
    /\ overlapped = FALSE

Goes(c, s) == step' = [step EXCEPT ![c] = s]
Moves(w, a) == at' = [at EXCEPT ![w] = a]

Replace(f) ==
    /\ files[f] < MaxVersion
    /\ files' = [files EXCEPT ![f] = @ + 1]
    /\ UNCHANGED <<tls, goroutines, callers, pointer, rest>>

-----------------------------------------------------------------------------
(* BuildTLSConfig: with AutoReload what is cached is never used.            *)
ReadCert(c) ==
    /\ \/ c = Manager /\ step[c] = "build"
       \/ c \in Watchers /\ at[c] = "reload"
    /\ building = NoOne
    /\ building' = c
    /\ half' = files["cert"]
    /\ UNCHANGED <<files, loaded, missed, goroutines, callers, pointer, rest>>

(* Where the two builders go on, with a configuration or with an error.     *)
Built(c, ok) ==
    IF c = Manager
      THEN /\ Goes(c, IF ok THEN "watch" ELSE "idle")
           /\ UNCHANGED at
      ELSE IF ok /\ reconnects
      THEN Moves(c, "reloadFunc") /\ Goes(c, "check")
      ELSE Moves(c, "select") /\ UNCHANGED step

ReadKey(c) ==
    /\ building = c
    /\ building' = NoOne
    /\ half' = NoVersion
    /\ LET ok == files["key"] = half
       IN  /\ loaded' = IF ok THEN half ELSE loaded
           /\ missed' = (missed /\ ~ok)
           /\ Built(c, ok)
    /\ UNCHANGED <<files, known, waitsFor, open, pointer, rest>>

-----------------------------------------------------------------------------
(* AddSession: Session.init builds the configuration, then starts a watcher.*)
AddSession ==
    /\ step[Manager] = "idle"
    /\ open < MaxSessions
    /\ at[MaxWatchers] = "unborn"
    /\ Goes(Manager, "build")
    /\ UNCHANGED <<files, tls, goroutines, waitsFor, open, pointer, rest>>

(* An error of StartCertWatcher ("already started") is only logged.         *)
StartCertWatcher ==
    /\ step[Manager] = "watch"
    /\ Goes(Manager, "idle")
    /\ open' = open + 1
    /\ \/ /\ watcher # Nil
          /\ UNCHANGED <<watcher, at>>
       \/ /\ watcher = Nil
          /\ \E w \in Watchers :
                /\ at[w] = "unborn"
                /\ \A v \in 1..w - 1 : at[v] # "unborn"
                /\ watcher' = w
                /\ Moves(w, "begin")
    /\ UNCHANGED <<files, tls, known, waitsFor, closed, rest>>

(* The goroutine takes the file infos it starts from.                       *)
WatchBegins(w) ==
    /\ at[w] = "begin"
    /\ known' = [known EXCEPT ![w] = files]
    /\ missed' = (missed \/ \E f \in Files : files[f] # loaded)
    /\ Moves(w, "select")
    /\ UNCHANGED <<files, loaded, building, half, callers, pointer, rest>>

(* Variant: only the certificate's infos are compared.                      *)
WatchTicksCert(w) ==
    /\ at[w] = "select"
    /\ files["cert"] # known[w]["cert"]
    /\ known' = [known EXCEPT ![w] = files]
    /\ Moves(w, "changed")
    /\ UNCHANGED <<files, tls, callers, pointer, rest>>

(* A tick that finds a file changed; the others do nothing.                 *)
WatchTicks(w) ==
    /\ at[w] = "select"
    /\ files # known[w]
    /\ known' = [known EXCEPT ![w] = files]
    /\ Moves(w, "changed")
    /\ UNCHANGED <<files, tls, callers, pointer, rest>>

(* ReloadCertificates drops the configuration before it builds another.     *)
ReloadCertificates(w) ==
    /\ at[w] = "changed"
    /\ building = NoOne
    /\ loaded' = NoVersion
    /\ Moves(w, "reload")
    /\ UNCHANGED <<files, building, half, missed, known, callers, pointer,
                   rest>>

(* Variant: the loop looks at stopCh only after a reload.                   *)
WatchStopsOnTick(w) ==
    /\ at[w] = "select"
    /\ w \in closed
    /\ files # known[w]
    /\ Moves(w, "ended")
    /\ UNCHANGED <<files, tls, known, callers, pointer, rest>>

WatchStops(w) ==
    /\ at[w] = "select"
    /\ w \in closed
    /\ Moves(w, "ended")
    /\ UNCHANGED <<files, tls, known, callers, pointer, rest>>

-----------------------------------------------------------------------------
(* Session.Disconnect, called by RemoveSession or Close, by the user on a   *)
(* session it got once, and (Built) by the watcher of a reload.             *)
Disconnect(c) ==
    /\ step[c] = "idle"
    /\ \/ c = Manager /\ open > 0 /\ open' = open - 1
       \/ c = User /\ at[1] # "unborn" /\ open' = open
    /\ Goes(c, "check")
    /\ UNCHANGED <<files, tls, goroutines, waitsFor, pointer, rest>>

Stopping(c) == step[c] \in {"stop", "wait", "clear"}

StopCertWatcher(c) ==
    /\ step[c] = "check"
    /\ Goes(c, IF watcher = Nil THEN "idle" ELSE "stop")
    /\ overlapped' = (overlapped \/ \E d \in Callers \ {c} : Stopping(d))
    /\ UNCHANGED <<files, tls, goroutines, waitsFor, open, pointer, reconnects,
                   panicked>>

(* c.watcher.stop(): nil by now, or its stopCh closed twice, and it panics. *)
Stop(c) ==
    /\ step[c] = "stop"
    /\ IF watcher = Nil \/ watcher \in closed
         THEN /\ panicked' = TRUE
              /\ UNCHANGED <<closed, step, waitsFor>>
         ELSE /\ closed' = closed \cup {watcher}
              /\ waitsFor' = [waitsFor EXCEPT ![c] = watcher]
              /\ Goes(c, "wait")
              /\ UNCHANGED panicked
    /\ UNCHANGED <<files, tls, goroutines, open, watcher, reconnects,
                   overlapped>>

(* wg.Wait.  A watcher that waits for itself waits for ever: the rest of    *)
(* Disconnect and the connect after it are never reached from a reload.     *)
Waited(c) ==
    /\ step[c] = "wait"
    /\ at[waitsFor[c]] = "ended"
    /\ waitsFor' = [waitsFor EXCEPT ![c] = Nil]
    /\ Goes(c, "clear")
    /\ UNCHANGED <<files, tls, goroutines, open, pointer, rest>>

(* Variant: stop does not forget the watcher it stopped.                    *)
ClearKept(c) ==
    /\ step[c] = "clear"
    /\ Goes(c, "idle")
    /\ UNCHANGED <<files, tls, goroutines, waitsFor, open, pointer, rest>>

(* c.watcher = nil, then the client is disconnected.                        *)
Clear(c) ==
    /\ step[c] = "clear"
    /\ watcher' = Nil
    /\ Goes(c, "idle")
    /\ UNCHANGED <<files, tls, goroutines, waitsFor, open, closed, rest>>

-----------------------------------------------------------------------------
Watch(w) ==
    \/ WatchBegins(w) \/ WatchTicks(w) \/ ReloadCertificates(w)
    \/ ReadCert(w) \/ ReadKey(w)

Add == ReadCert(Manager) \/ ReadKey(Manager) \/ StartCertWatcher

Call(c) == StopCertWatcher(c) \/ Stop(c) \/ Waited(c) \/ Clear(c)

Next ==
    /\ ~panicked
    /\ \/ \E f \in Files : Replace(f)
       \/ AddSession
       \/ Add
       \/ \E w \in Watchers : Watch(w) \/ WatchStops(w)
       \/ \E c \in Callers : Disconnect(c) \/ Call(c)

(* Goroutines run; certMutex is not held from one who waits for it for ever *)
(* (sync.RWMutex), and select takes a closed stopCh though ticks keep coming*)
Fairness ==
    \A w \in Watchers : /\ SF_vars(~panicked /\ Watch(w))
                        /\ SF_vars(~panicked /\ WatchStops(w))

Spec == Init /\ [][Next]_vars /\ Fairness
             /\ WF_vars(~panicked /\ Add)
             /\ \A c \in Callers : WF_vars(~panicked /\ Call(c))

-----------------------------------------------------------------------------
InReloadFunc == \E w \in Watchers : at[w] = "reloadFunc"

(* One StopCertWatcher must begin during another for a stopCh to be closed  *)
(* twice, or c.watcher to be nil after it was not: called one after the     *)
(* other they never panic (security.go:359-364, :405).                      *)
PanicNeedsOverlap == panicked => overlapped

(* Disconnect returns, unless it panics or a reload has called Disconnect   *)
(* on the watcher's own goroutine, which then waits for itself              *)
(* (session.go:167).                                                        *)
DisconnectReturns ==
    \A c \in {Manager, User} :
      Stopping(c) ~> (step[c] = "idle" \/ panicked \/ InReloadFunc)

(* While a watcher runs, a pair of files that fits is loaded sooner or      *)
(* later, however their replacement interleaves with the infos taken and    *)
(* the files read; only a change between BuildTLSConfig and the first infos *)
(* goes unseen until the next (security.go:417).                            *)
Watching == watcher # Nil /\ watcher \notin closed /\ ~panicked
Stale == files["cert"] = files["key"] /\ loaded # files["cert"]

ChangeIsLoaded ==
    Watching /\ Stale ~> (~Stale \/ missed \/ ~Watching \/ InReloadFunc)

=============================================================================
