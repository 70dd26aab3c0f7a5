--------------------------- MODULE ControlServers ---------------------------
(***************************************************************************)
(* controlServerManager (cmd/thundersnapd/main.go): one control server per *)
(* frame, shared by reference count among the sessions of the frame.       *)
(*                                                                         *)
(* Sessions run in their own goroutines. The manager's mutex is modelled   *)
(* by its locked bit and not by its owner, as sync.Mutex is: Unlock frees  *)
(* it whoever locked it, and unlocking a free mutex is a fatal error that  *)
(* ends the daemon.                                                        *)
(***************************************************************************)
EXTENDS Integers, FiniteSets

CONSTANTS
    Sessions,     \* goroutines that acquire and release a control server
    Frames,       \* frame rootFS paths
    MaxServers,   \* bound: control servers started in a behaviour
    MaxReentries  \* bound: callers that resume after waiting for a stopping server

ASSUME BoundsAssumption == MaxServers \in Nat /\ MaxReentries \in Nat
ASSUME ValuesAssumption == IsFiniteSet(Sessions) /\ Frames # {}

Servers == 1..MaxServers

VARIABLES
    mu,           \* m.mu is locked
    servers,      \* m.servers: frame -> server, 0 if there is no entry
    srv,          \* server -> its managedControlServer and its listener
    started,      \* servers started so far
    sess,         \* session -> program counter and local variables
    reentries,    \* callers that have resumed so far
    fatal,        \* the runtime has aborted the daemon
    overrun       \* some call has unlocked and has another Unlock pending

vars == <<mu, servers, srv, started, sess, reentries, fatal, overrun>>

FreshServer == [refCount |-> 0, stopping |-> FALSE, stopped |-> FALSE,
                open |-> FALSE, frame |-> CHOOSE f \in Frames : TRUE]

IdleSession == [pc |-> "idle", frame |-> CHOOSE f \in Frames : TRUE, ms |-> 0,
                deferred |-> 0, then |-> "idle"]

Init ==
    /\ mu = FALSE
    /\ servers = [f \in Frames |-> 0]
    /\ srv = [i \in Servers |-> FreshServer]
    /\ started = 0
    /\ sess = [s \in Sessions |-> IdleSession]
    /\ reentries = 0
    /\ fatal = FALSE
    /\ overrun = FALSE

At(s, pc) == ~fatal /\ sess[s].pc = pc

Entry(s) == servers[sess[s].frame]

-----------------------------------------------------------------------------
(* getOrCreateControlServer. deferred counts the pending deferred Unlocks: *)
(* one for each activation of the function on the session's stack.         *)

\* A session asks for its frame's control server.
Acquire(s, f) ==
    /\ At(s, "idle")
    /\ sess' = [sess EXCEPT ![s] = [pc |-> "lock", frame |-> f, ms |-> 0, deferred |-> 0,
                                    then |-> "idle"]]
    /\ UNCHANGED <<mu, servers, srv, started, reentries, fatal, overrun>>

\* m.mu.Lock(); defer m.mu.Unlock()
Lock(s) ==
    /\ At(s, "lock")
    /\ ~mu
    /\ mu' = TRUE
    /\ sess' = [sess EXCEPT ![s].pc = "lookup", ![s].deferred = @ + 1]
    /\ UNCHANGED <<servers, srv, started, reentries, fatal, overrun>>

Reuse(s) ==
    /\ At(s, "lookup")
    /\ Entry(s) # 0 /\ ~srv[Entry(s)].stopping
    /\ srv' = [srv EXCEPT ![Entry(s)].refCount = @ + 1]
    /\ sess' = [sess EXCEPT ![s].pc = "return", ![s].ms = Entry(s), ![s].then = "using"]
    /\ UNCHANGED <<mu, servers, started, reentries, fatal, overrun>>

\* The entry is stopping: unlock explicitly and wait for stopped.
UnlockToWait(s) ==
    /\ At(s, "lookup")
    /\ Entry(s) # 0 /\ srv[Entry(s)].stopping
    /\ fatal' = ~mu
    /\ mu' = FALSE
    /\ sess' = [sess EXCEPT ![s].pc = "wait", ![s].ms = Entry(s)]
    /\ UNCHANGED <<servers, srv, started, reentries, overrun>>

\* stopped is closed: call the function again, one activation deeper.
Stopped(s) ==
    /\ At(s, "wait")
    /\ srv[sess[s].ms].stopped
    /\ reentries < MaxReentries
    /\ reentries' = reentries + 1
    /\ sess' = [sess EXCEPT ![s].pc = "lock"]
    /\ UNCHANGED <<mu, servers, srv, started, fatal, overrun>>

StartedServer(f) == [refCount |-> 1, stopping |-> FALSE, stopped |-> FALSE, open |-> TRUE,
                     frame |-> f]

\* Mutant: a stopping entry is taken for none.
StartOverStopping(s) ==
    /\ At(s, "lookup")
    /\ Entry(s) # 0 => srv[Entry(s)].stopping
    /\ started < MaxServers
    /\ started' = started + 1
    /\ srv' = [srv EXCEPT ![started + 1] = StartedServer(sess[s].frame)]
    /\ sess' = [sess EXCEPT ![s].pc = "register", ![s].ms = started + 1]
    /\ UNCHANGED <<mu, servers, reentries, fatal, overrun>>

\* startControlServer binds the frame's socket; the entry is written after it.
Start(s) ==
    /\ At(s, "lookup")
    /\ Entry(s) = 0
    /\ started < MaxServers
    /\ started' = started + 1
    /\ srv' = [srv EXCEPT ![started + 1] = StartedServer(sess[s].frame)]
    /\ sess' = [sess EXCEPT ![s].pc = "register", ![s].ms = started + 1]
    /\ UNCHANGED <<mu, servers, reentries, fatal, overrun>>

StartFails(s) ==
    /\ At(s, "lookup")
    /\ Entry(s) = 0
    /\ sess' = [sess EXCEPT ![s].pc = "return", ![s].then = "idle"]
    /\ UNCHANGED <<mu, servers, srv, started, reentries, fatal, overrun>>

Register(s) ==
    /\ At(s, "register")
    /\ servers' = [servers EXCEPT ![sess[s].frame] = sess[s].ms]
    /\ sess' = [sess EXCEPT ![s].pc = "return", ![s].then = "using"]
    /\ UNCHANGED <<mu, srv, started, reentries, fatal, overrun>>

\* The deferred Unlock of each activation, innermost first.
DeferredUnlock(s) ==
    /\ At(s, "return")
    /\ fatal' = ~mu
    /\ mu' = FALSE
    /\ sess' = [sess EXCEPT ![s].deferred = @ - 1,
                            ![s].pc = IF sess[s].deferred = 1 THEN sess[s].then ELSE "return"]
    /\ overrun' = (overrun \/ sess[s].deferred > 1)
    /\ UNCHANGED <<servers, srv, started, reentries>>

-----------------------------------------------------------------------------
(* releaseControlServer.                                                   *)

Release(s) ==
    /\ At(s, "using")
    /\ ~mu
    /\ mu' = TRUE
    /\ sess' = [sess EXCEPT ![s].pc = "release"]
    /\ UNCHANGED <<servers, srv, started, reentries, fatal, overrun>>

\* Mutant: any release stops the server.
DecrementAlwaysLast(s) ==
    /\ At(s, "release")
    /\ LET i == Entry(s)
           last == i # 0
       IN  /\ srv' = [n \in Servers |->
                 IF n = i THEN [srv[n] EXCEPT !.refCount = @ - 1, !.stopping = @ \/ last]
                          ELSE srv[n]]
           /\ sess' = [sess EXCEPT ![s].ms = i, ![s].pc = "unlock",
                                   ![s].then = IF last THEN "close" ELSE "idle"]
    /\ UNCHANGED <<mu, servers, started, reentries, fatal, overrun>>

\* Without an entry there is nothing to release; the last release marks the
\* entry stopping and goes on to close the server.
Decrement(s) ==
    /\ At(s, "release")
    /\ LET i == Entry(s)
           last == i # 0 /\ srv[i].refCount <= 1
       IN  /\ srv' = [n \in Servers |->
                 IF n = i THEN [srv[n] EXCEPT !.refCount = @ - 1, !.stopping = @ \/ last]
                          ELSE srv[n]]
           /\ sess' = [sess EXCEPT ![s].ms = i, ![s].pc = "unlock",
                                   ![s].then = IF last THEN "close" ELSE "idle"]
    /\ UNCHANGED <<mu, servers, started, reentries, fatal, overrun>>

\* ms.server.Close(), without the mutex.
Close(s) ==
    /\ At(s, "close")
    /\ srv' = [srv EXCEPT ![sess[s].ms].open = FALSE]
    /\ sess' = [sess EXCEPT ![s].pc = "relock"]
    /\ UNCHANGED <<mu, servers, started, reentries, fatal, overrun>>

Relock(s) ==
    /\ At(s, "relock")
    /\ ~mu
    /\ mu' = TRUE
    /\ sess' = [sess EXCEPT ![s].pc = "remove"]
    /\ UNCHANGED <<servers, srv, started, reentries, fatal, overrun>>

\* Mutant: stopped is not closed.
RemoveSilently(s) ==
    /\ At(s, "remove")
    /\ servers' = IF Entry(s) = sess[s].ms THEN [servers EXCEPT ![sess[s].frame] = 0] ELSE servers
    /\ sess' = [sess EXCEPT ![s].pc = "unlock", ![s].then = "idle"]
    /\ UNCHANGED <<mu, srv, started, reentries, fatal, overrun>>

\* Remove the entry if it is still this server's, and wake the waiters.
Remove(s) ==
    /\ At(s, "remove")
    /\ servers' = IF Entry(s) = sess[s].ms THEN [servers EXCEPT ![sess[s].frame] = 0] ELSE servers
    /\ srv' = [srv EXCEPT ![sess[s].ms].stopped = TRUE]
    /\ sess' = [sess EXCEPT ![s].pc = "unlock", ![s].then = "idle"]
    /\ UNCHANGED <<mu, started, reentries, fatal, overrun>>

Unlock(s) ==
    /\ At(s, "unlock")
    /\ fatal' = ~mu
    /\ mu' = FALSE
    /\ sess' = [sess EXCEPT ![s].pc = sess[s].then]
    /\ UNCHANGED <<servers, srv, started, reentries, overrun>>

-----------------------------------------------------------------------------
Step(s) ==
    \/ Lock(s) \/ Reuse(s) \/ UnlockToWait(s) \/ Stopped(s) \/ Start(s) \/ StartFails(s)
    \/ Register(s) \/ DeferredUnlock(s) \/ Release(s) \/ Decrement(s) \/ Close(s)
    \/ Relock(s) \/ Remove(s) \/ Unlock(s)

Next ==
    \/ \E s \in Sessions : Step(s)
    \/ \E s \in Sessions, f \in Frames : Acquire(s, f)

Spec == Init /\ [][Next]_vars

\* Every session keeps running, sync.Mutex starves nobody, and sessions end.
FairSpec == Spec /\ \A s \in Sessions : SF_vars(Step(s))

-----------------------------------------------------------------------------
\* The session holds a reference: it has been given a server and has not
\* given it back.
Holding(s) ==
    \/ sess[s].pc \in {"using", "release", "register"}
    \/ sess[s].pc = "return" /\ sess[s].then = "using"

\* The sessions that hold a reference to server i.
Holders(i) == {s \in Sessions : sess[s].ms = i /\ Holding(s)}

\* The session gave the last reference back and is tearing the server down.
Closing(s) ==
    \/ sess[s].pc \in {"close", "relock", "remove"}
    \/ sess[s].pc = "unlock" /\ sess[s].then = "close"

\* The session is between a Lock and the Unlock that belongs to it.
Inside(s) == sess[s].pc \in {"lookup", "register", "return", "release", "unlock", "remove"}

\* Every variable has the type of the Go field it stands for.
TypeOK ==
    /\ mu \in BOOLEAN /\ fatal \in BOOLEAN /\ overrun \in BOOLEAN
    /\ servers \in [Frames -> 0..MaxServers]
    /\ srv \in [Servers -> [refCount : IF overrun THEN Int ELSE Nat, stopping : BOOLEAN, stopped : BOOLEAN,
                            open : BOOLEAN, frame : Frames]]
    /\ started \in 0..MaxServers /\ reentries \in 0..MaxReentries
    /\ sess \in [Sessions -> [frame : Frames, ms : 0..MaxServers, deferred : Nat,
          then : {"idle", "using", "close"},
          pc : {"idle", "lock", "lookup", "wait", "register", "return", "using",
                "release", "unlock", "close", "relock", "remove"}]]

(* A session that waited for a stopping server unlocks once too often on   *)
(* its way out (fatal); from then on the mutex may exclude nobody          *)
(* (overrun), and the invariants are about the states up to that.          *)

\* A session that holds a control server finds it registered under its frame
\* and its socket open: nobody tears a server down under a session.
HeldServerOpen ==
    ~overrun => \A s \in Sessions : sess[s].pc = "using" =>
        servers[sess[s].frame] = sess[s].ms /\ srv[sess[s].ms].open

\* The reference count is the number of sessions holding the server.
RefCountExact ==
    ~overrun => \A i \in Servers : srv[i].open /\ ~srv[i].stopping => srv[i].refCount = Cardinality(Holders(i))

\* Every activation of getOrCreateControlServer that is past its Lock has an
\* Unlock pending and returns a server or an error; a release ends, or goes on
\* to the close.
UnlocksPending ==
    \A s \in Sessions :
        /\ sess[s].pc \in {"lookup", "register", "return"} => sess[s].deferred > 0
        /\ sess[s].pc = "return" => sess[s].then \in {"idle", "using"}
        /\ sess[s].pc = "unlock" => sess[s].then \in {"idle", "close"}

\* The mutex is locked exactly while one session is between Lock and Unlock.
MutexExcludes ==
    ~overrun =>
        /\ ~fatal
        /\ mu <=> \E s \in Sessions : Inside(s)
        /\ \A s, t \in Sessions : Inside(s) /\ Inside(t) => s = t

\* A server with a reference is open, is not stopping, and is the one its
\* holder's frame is registered with, or is about to be.
HoldersServed ==
    ~overrun => \A s \in Sessions : Holding(s) =>
        /\ sess[s].ms # 0
        /\ srv[sess[s].ms].open /\ ~srv[sess[s].ms].stopping
        /\ srv[sess[s].ms].frame = sess[s].frame
        /\ servers[sess[s].frame] = IF sess[s].pc = "register" THEN 0 ELSE sess[s].ms

\* A server is torn down by one session, and its entry stays until the
\* listener is closed.
ClosersOwn ==
    ~overrun =>
        /\ \A s \in Sessions : Closing(s) =>
              /\ sess[s].ms # 0
              /\ srv[sess[s].ms].stopping
              /\ servers[sess[s].frame] = sess[s].ms
              /\ sess[s].pc \in {"relock", "remove"} => ~srv[sess[s].ms].open
        /\ \A s, t \in Sessions : Closing(s) /\ Closing(t) /\ sess[s].ms = sess[t].ms => s = t

\* An entry is a server started for its frame, and open unless it is stopping.
EntriesKnown ==
    ~overrun => \A f \in Frames : servers[f] # 0 =>
        /\ servers[f] <= started
        /\ srv[servers[f]].frame = f
        /\ srv[servers[f]].stopping \/ srv[servers[f]].open

\* An open listener is registered under its frame, or is about to be.
OpenTracked ==
    ~overrun => \A i \in Servers : srv[i].open =>
        /\ i <= started
        /\ \/ servers[srv[i].frame] = i
           \/ \E s \in Sessions : sess[s].pc = "register" /\ sess[s].ms = i

\* The manager's count, its map and its sockets agree: a session that holds a
\* server finds it registered and open, and the server counts exactly its
\* holders, so the last release and no other tears it down. The other parts
\* say why: they make the conjunction one that every step preserves.
ControlInv ==
    /\ TypeOK
    /\ HeldServerOpen
    /\ RefCountExact
    /\ UnlocksPending
    /\ MutexExcludes
    /\ HoldersServed
    /\ ClosersOwn
    /\ EntriesKnown
    /\ OpenTracked

\* A frame never has two open listeners: a caller that finds the entry stopping
\* waits "instead of racing a new bind against the old listener".
OneListener ==
    ~overrun => \A i, j \in Servers : srv[i].open /\ srv[j].open /\ srv[i].frame = srv[j].frame => i = j

\* A session waiting for a stopping server is woken, unless the daemon is dead:
\* teardown never waits for the session that waits for it.
WaiterWoken ==
    \A s \in Sessions : (sess[s].pc = "wait") ~>
        (fatal \/ sess[s].pc # "wait" \/ srv[sess[s].ms].stopped)

=============================================================================
