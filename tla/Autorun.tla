------------------------------ MODULE Autorun ------------------------------
(***************************************************************************)
(* autorunManager (cmd/thundersnapd/autorun.go): one supervisor goroutine  *)
(* per ref with an autorun command, which runs the command in a vshd       *)
(* session and runs it again whenever it ends.                             *)
(*                                                                         *)
(* Callers are the ref handlers (and the scan at start-up), each in its    *)
(* own goroutine. Three kinds of actor meet on a process: the caller that  *)
(* stops it (cancel the context, then close the recorded connection), its  *)
(* supervisor (which dials first and records the connection later), and    *)
(* shutdownAutorunManager. A process is identified by its index in proc.   *)
(***************************************************************************)
EXTENDS Naturals, FiniteSets

CONSTANTS
    Keys,      \* autorunKey: user and ref name
    Configs,   \* what a process runs: frame UUID and argv
    Callers,   \* goroutines that call the manager
    Nobody,    \* nobody holds the manager's mutex
    Shutdown,  \* shutdownAutorunManager as the holder of the mutex
    MaxProcs   \* bound: processes started in a behaviour

ASSUME BoundAssumption == MaxProcs \in Nat
ASSUME ValuesAssumption == Keys # {} /\ Configs # {}
ASSUME HolderAssumption == Nobody \notin Callers /\ Shutdown \notin Callers /\ Nobody # Shutdown

Procs == 1..MaxProcs

VARIABLES
    mu,         \* holder of m.mu
    processes,  \* m.processes: key -> process, 0 if there is no entry
    proc,       \* process -> its autorunProcess and its supervisor's state
    started,    \* processes started so far
    caller,     \* caller -> program counter, call and local variables
    down,       \* how far shutdownAutorunManager has come
    control     \* control-server references held by runOnce

vars == <<mu, processes, proc, started, caller, down, control>>

NewProc(pc, k, g) == [pc |-> pc, key |-> k, cfg |-> g, cancelled |-> FALSE,
                      conn |-> FALSE, open |-> FALSE, err |-> FALSE]

Calling(pc, op, k, g) == [pc |-> pc, op |-> op, key |-> k, cfg |-> g, p |-> 0]

AnyKey == CHOOSE k \in Keys : TRUE
AnyConfig == CHOOSE g \in Configs : TRUE
NoProc == NewProc("none", AnyKey, AnyConfig)
IdleCaller == Calling("idle", "stop", AnyKey, AnyConfig)

\* initAutorunManager; the scan that follows is a sequence of Start calls.
Init ==
    /\ mu = Nobody
    /\ processes = [k \in Keys |-> 0]
    /\ proc = [i \in Procs |-> NoProc]
    /\ started = 0
    /\ caller = [c \in Callers |-> IdleCaller]
    /\ down = "no"
    /\ control = 0

\* ctx.Err() # nil: every process's context is a child of the manager's.
Cancelled(i) == proc[i].cancelled \/ down # "no"

Ended(i) == proc[i].pc \in {"none", "ended"}

\* Closing proc.conn, if one is recorded, closes the session's connection.
CloseRecorded(p) == [p EXCEPT !.open = p.open /\ ~p.conn, !.conn = FALSE]

-----------------------------------------------------------------------------
(* startProcess. The mutex is held to the end, also while an old process   *)
(* is told to stop; nobody waits for that process to end.                  *)

Entry(c) == processes[caller[c].key]

Start(c, k, g) ==
    /\ caller[c].pc = "idle"
    /\ caller' = [caller EXCEPT ![c] = Calling("start", "start", k, g)]
    /\ UNCHANGED <<mu, processes, proc, started, down, control>>

\* The same command runs in the same frame already.
StartSame(c) ==
    /\ caller[c].pc = "start" /\ mu = Nobody
    /\ Entry(c) # 0 /\ proc[Entry(c)].cfg = caller[c].cfg
    /\ caller' = [caller EXCEPT ![c] = IdleCaller]
    /\ UNCHANGED <<mu, processes, proc, started, down, control>>

\* Another command or frame: existing.stop() begins by cancelling its context.
StartReplace(c) ==
    /\ caller[c].pc = "start" /\ mu = Nobody
    /\ Entry(c) # 0 /\ proc[Entry(c)].cfg # caller[c].cfg
    /\ started < MaxProcs
    /\ mu' = c
    /\ proc' = [proc EXCEPT ![Entry(c)].cancelled = TRUE]
    /\ caller' = [caller EXCEPT ![c].pc = "replace"]
    /\ UNCHANGED <<processes, started, down, control>>

\* The entry, the goroutine and the unlock, with table ps for the processes.
Spawn(c, ps) ==
    /\ started < MaxProcs
    /\ started' = started + 1
    /\ processes' = [processes EXCEPT ![caller[c].key] = started + 1]
    /\ proc' = [ps EXCEPT ![started + 1] = NewProc("check", caller[c].key, caller[c].cfg)]
    /\ mu' = Nobody
    /\ caller' = [caller EXCEPT ![c] = IdleCaller]
    /\ UNCHANGED <<down, control>>

StartNew(c) ==
    /\ caller[c].pc = "start" /\ mu = Nobody
    /\ Entry(c) = 0
    /\ Spawn(c, proc)

\* existing.stop() closes its connection; then the new process takes its place.
StartOver(c) ==
    /\ caller[c].pc = "replace"
    /\ Spawn(c, [proc EXCEPT ![Entry(c)] = CloseRecorded(@)])

-----------------------------------------------------------------------------
(* stopProcess and restartProcess: take the entry out under the mutex, stop *)
(* the process without it, and wait for the supervisor to end.             *)

Stop(c, k) ==
    /\ caller[c].pc = "idle"
    /\ caller' = [caller EXCEPT ![c] = Calling("take", "stop", k, AnyConfig)]
    /\ UNCHANGED <<mu, processes, proc, started, down, control>>

Restart(c, k, g) ==
    /\ caller[c].pc = "idle"
    /\ caller' = [caller EXCEPT ![c] = Calling("take", "restart", k, g)]
    /\ UNCHANGED <<mu, processes, proc, started, down, control>>

\* What a stop goes on to: restartProcess starts the process in the new frame.
Then(c) == IF caller[c].op = "restart" THEN [caller[c] EXCEPT !.pc = "start", !.p = 0] ELSE IdleCaller

Take(c) ==
    /\ caller[c].pc = "take" /\ mu = Nobody
    /\ processes' = [processes EXCEPT ![caller[c].key] = 0]
    /\ caller' = [caller EXCEPT ![c] =
          IF Entry(c) = 0 THEN Then(c) ELSE [@ EXCEPT !.pc = "cancel", !.p = Entry(c)]]
    /\ UNCHANGED <<mu, proc, started, down, control>>

\* Mutant: the context is not cancelled.
CancelNothing(c) ==
    /\ caller[c].pc = "cancel"
    /\ caller' = [caller EXCEPT ![c].pc = "close"]
    /\ UNCHANGED <<mu, processes, proc, started, down, control>>

Cancel(c) ==
    /\ caller[c].pc = "cancel"
    /\ proc' = [proc EXCEPT ![caller[c].p].cancelled = TRUE]
    /\ caller' = [caller EXCEPT ![c].pc = "close"]
    /\ UNCHANGED <<mu, processes, started, down, control>>

Close(c) ==
    /\ caller[c].pc = "close"
    /\ proc' = [proc EXCEPT ![caller[c].p] = CloseRecorded(@)]
    /\ caller' = [caller EXCEPT ![c].pc = "await"]
    /\ UNCHANGED <<mu, processes, started, down, control>>

\* Mutant: the caller does not wait for the supervisor.
AwaitNothing(c) ==
    /\ caller[c].pc = "await"
    /\ caller' = [caller EXCEPT ![c].pc = "stopped"]
    /\ UNCHANGED <<mu, processes, proc, started, down, control>>

\* <-proc.done
Await(c) ==
    /\ caller[c].pc = "await"
    /\ proc[caller[c].p].pc = "ended"
    /\ caller' = [caller EXCEPT ![c].pc = "stopped"]
    /\ UNCHANGED <<mu, processes, proc, started, down, control>>

Stopped(c) ==
    /\ caller[c].pc = "stopped"
    /\ caller' = [caller EXCEPT ![c] = Then(c)]
    /\ UNCHANGED <<mu, processes, proc, started, down, control>>

-----------------------------------------------------------------------------
(* supervise and runOnce for process i.                                    *)

OnlyProc == UNCHANGED <<mu, processes, started, caller, down>>

\* The head of the loop: leave, or run one attempt.
Check(i) ==
    /\ proc[i].pc = "check"
    /\ proc' = [proc EXCEPT ![i] =
          IF Cancelled(i) THEN [CloseRecorded(@) EXCEPT !.pc = "ended"]
                          ELSE [@ EXCEPT !.pc = "prepare"]]
    /\ UNCHANGED control /\ OnlyProc

\* The frame cannot be resolved or prepared, or has no control server.
PrepareFails(i) ==
    /\ proc[i].pc = "prepare"
    /\ proc' = [proc EXCEPT ![i].pc = "over", ![i].err = TRUE]
    /\ UNCHANGED control /\ OnlyProc

TakeControl(i) ==
    /\ proc[i].pc = "prepare"
    /\ control' = control + 1
    /\ proc' = [proc EXCEPT ![i].pc = "dial"]
    /\ OnlyProc

\* Host vshd cannot be started or dialled; the control server is released.
DialFails(i) ==
    /\ proc[i].pc = "dial"
    /\ control' = control - 1
    /\ proc' = [proc EXCEPT ![i].pc = "over", ![i].err = TRUE]
    /\ OnlyProc

Dial(i) ==
    /\ proc[i].pc = "dial"
    /\ proc' = [proc EXCEPT ![i].pc = "record", ![i].open = TRUE]
    /\ UNCHANGED control /\ OnlyProc

\* From here on stop() finds the connection.
Record(i) ==
    /\ proc[i].pc = "record"
    /\ proc' = [proc EXCEPT ![i].pc = "run", ![i].conn = TRUE]
    /\ UNCHANGED control /\ OnlyProc

\* The command exits, or the connection is lost. A failed command has slept
\* its delay inside the container; a connection lost without an exit frame
\* counts as exit code 0.
SessionEnds(i, failed) ==
    /\ proc[i].pc = "run"
    /\ proc' = [proc EXCEPT ![i].pc = "return", ![i].err = failed]
    /\ UNCHANGED control /\ OnlyProc

\* runOnce's deferred calls: forget and close the connection, release.
Return(i) ==
    /\ proc[i].pc = "return"
    /\ control' = control - 1
    /\ proc' = [proc EXCEPT ![i].pc = "over", ![i].conn = FALSE, ![i].open = FALSE]
    /\ OnlyProc

\* Cancelled meanwhile: the supervisor leaves.
Leave(i) ==
    /\ proc[i].pc = "over" /\ Cancelled(i)
    /\ proc' = [proc EXCEPT ![i].pc = "ended"]
    /\ UNCHANGED control /\ OnlyProc

\* A failed attempt is followed at once by the next; after exit code 0 the
\* timer and the context race in a select.
Again(i) ==
    /\ proc[i].pc = "over"
    /\ proc[i].err => ~Cancelled(i)
    /\ proc' = [proc EXCEPT ![i].pc = "check"]
    /\ UNCHANGED control /\ OnlyProc

-----------------------------------------------------------------------------
(* shutdownAutorunManager.                                                 *)

ShutdownCancel ==
    /\ down = "no"
    /\ down' = "cancelled"
    /\ UNCHANGED <<mu, processes, proc, started, caller, control>>

ShutdownLock ==
    /\ down = "cancelled" /\ mu = Nobody
    /\ mu' = Shutdown
    /\ down' = "stopping"
    /\ UNCHANGED <<processes, proc, started, caller, control>>

Registered == {processes[k] : k \in Keys} \ {0}

\* proc.stop() of one registered process; each is stopped once.
ShutdownStop(i) ==
    /\ down = "stopping"
    /\ i \in Registered /\ ~proc[i].cancelled
    /\ proc' = [proc EXCEPT ![i] = [CloseRecorded(@) EXCEPT !.cancelled = TRUE]]
    /\ UNCHANGED <<mu, processes, started, caller, down, control>>

ShutdownUnlock ==
    /\ down = "stopping"
    /\ \A i \in Registered : proc[i].cancelled
    /\ mu' = Nobody
    /\ down' = "waiting"
    /\ UNCHANGED <<processes, proc, started, caller, control>>

\* m.wg.Wait()
ShutdownWait ==
    /\ down = "waiting"
    /\ \A i \in Procs : Ended(i)
    /\ down' = "done"
    /\ UNCHANGED <<mu, processes, proc, started, caller, control>>

-----------------------------------------------------------------------------
CallerStep(c) ==
    \/ StartSame(c) \/ StartReplace(c) \/ StartNew(c) \/ StartOver(c)
    \/ Take(c) \/ Cancel(c) \/ Close(c) \/ Await(c) \/ Stopped(c)

Supervise(i) ==
    \/ Check(i) \/ PrepareFails(i) \/ TakeControl(i) \/ DialFails(i) \/ Dial(i) \/ Record(i)
    \/ Return(i) \/ Leave(i) \/ Again(i)

ShutdownStep ==
    \/ ShutdownLock \/ ShutdownUnlock \/ ShutdownWait
    \/ \E i \in Procs : ShutdownStop(i)

Next ==
    \/ \E c \in Callers, k \in Keys, g \in Configs : Start(c, k, g) \/ Restart(c, k, g)
    \/ \E c \in Callers, k \in Keys : Stop(c, k)
    \/ \E c \in Callers : CallerStep(c)
    \/ \E i \in Procs : Supervise(i) \/ (\E failed \in BOOLEAN : SessionEnds(i, failed))
    \/ ShutdownCancel \/ ShutdownStep

Spec == Init /\ [][Next]_vars

-----------------------------------------------------------------------------
\* Every variable has the type of the Go field it stands for.
TypeOK ==
    /\ mu \in Callers \cup {Nobody, Shutdown}
    /\ processes \in [Keys -> 0..MaxProcs]
    /\ proc \in [Procs -> [key : Keys, cfg : Configs, cancelled : BOOLEAN, conn : BOOLEAN,
                           open : BOOLEAN, err : BOOLEAN,
                           pc : {"none", "check", "prepare", "dial", "record", "run",
                                 "return", "over", "ended"}]]
    /\ started \in 0..MaxProcs
    /\ caller \in [Callers -> [key : Keys, cfg : Configs, p : 0..MaxProcs,
                               op : {"start", "stop", "restart"},
                               pc : {"idle", "start", "replace", "take", "cancel", "close",
                                     "await", "stopped"}]]
    /\ down \in {"no", "cancelled", "stopping", "waiting", "done"}
    /\ control \in Nat

\* Nothing runs behind the manager's back: a supervisor that will go on restarting
\* its command is the registered one of its ref, or some caller has just taken it
\* out of the map and is about to cancel it.
ActiveTracked ==
    \A i \in Procs : ~Ended(i) /\ ~Cancelled(i) =>
        \/ processes[proc[i].key] = i
        \/ \E c \in Callers : caller[c].pc = "cancel" /\ caller[c].p = i

\* A ref that is registered is really supervised: outside the mutex its
\* supervisor has not ended and is not going to.
RegisteredSupervised ==
    mu = Nobody /\ down = "no" => \A k \in Keys : processes[k] # 0 =>
        proc[processes[k]].key = k /\ ~Ended(processes[k]) /\ ~Cancelled(processes[k])

\* After a stop has returned, and after shutdown has, no session connection of
\* the processes concerned is open: not of one that was dialling meanwhile, nor
\* of one started after the manager was shut down.
StoppedMeansClosed ==
    /\ \A c \in Callers : caller[c].pc = "stopped" => ~proc[caller[c].p].open
    /\ down = "done" => \A i \in Procs : ~proc[i].open

\* The processes with an attempt between getOrCreateControlServer and release.
Attempts == {i \in Procs : proc[i].pc \in {"dial", "record", "run", "return"}}

\* Attempts hold the control server of their frame exactly while they need it.
ControlRefsExact == control = Cardinality(Attempts)

\* An entry is a process that was started for its ref.
EntriesKnown ==
    \A k \in Keys : processes[k] # 0 => processes[k] <= started /\ proc[processes[k]].key = k

\* A process exists from its start on.
StartedKnown == \A i \in Procs : proc[i].pc = "none" <=> i > started

\* A connection is open only inside an attempt, and recorded only while it is run.
ConnsInAttempts ==
    \A i \in Procs : /\ proc[i].open => proc[i].pc \in {"record", "run", "return"}
                     /\ proc[i].conn => proc[i].pc \in {"run", "return"}

\* The mutex is held by the caller that replaces a process, which it has
\* cancelled, or by the shutdown that stops them all.
MutexHolders ==
    /\ \A c \in Callers : caller[c].pc = "replace" <=> mu = c
    /\ \A c \in Callers : caller[c].pc = "replace" => Entry(c) # 0 /\ proc[Entry(c)].cancelled
    /\ mu = Shutdown <=> down = "stopping"

\* What a stop has taken out of the map stays out, and is cancelled and ended
\* when the stop gets there.
StopsProgress ==
    \A c \in Callers : caller[c].pc \in {"cancel", "close", "await", "stopped"} =>
        /\ caller[c].p \in 1..started
        /\ \A k \in Keys : processes[k] # caller[c].p
        /\ caller[c].pc # "cancel" => proc[caller[c].p].cancelled
        /\ caller[c].pc = "stopped" => proc[caller[c].p].pc = "ended"

\* A supervisor ends only when it is told to, and a registered one is told to
\* only by shutdown or by the caller that is replacing it.
EndsWhenTold ==
    /\ \A i \in Procs : proc[i].pc = "ended" => Cancelled(i)
    /\ \A k \in Keys : processes[k] # 0 /\ proc[processes[k]].cancelled =>
          down # "no" \/ \E c \in Callers : caller[c].pc = "replace" /\ caller[c].key = k

\* After shutdown nothing is under way but supervisors that have yet to look.
QuietAfterShutdown ==
    down = "done" => \A i \in Procs : proc[i].pc \in {"none", "check", "ended"}

\* The manager's map, its supervisors and their control servers agree: every
\* supervisor that goes on is registered or about to be cancelled, every
\* registered ref has one, and each holds a control server while it needs it.
\* The other parts say why: they make the conjunction one that every step
\* preserves.
AutorunInv ==
    /\ TypeOK
    /\ ActiveTracked
    /\ RegisteredSupervised
    /\ ControlRefsExact
    /\ EntriesKnown
    /\ StartedKnown
    /\ ConnsInAttempts
    /\ MutexHolders
    /\ StopsProgress
    /\ EndsWhenTold
    /\ QuietAfterShutdown

=============================================================================
