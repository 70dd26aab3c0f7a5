---------------------------- MODULE VmxSessions ----------------------------
(***************************************************************************)
(* vmxSessionManager (cmd/thundersnapd/main.go): outer VMs shared by the   *)
(* sessions of a namespace and isolation name (the key), with a reference  *)
(* count and one monitor goroutine per VM, over the life cycle of          *)
(* thundersnap.VMSession (thundersnap/vm.go).                              *)
(*                                                                         *)
(* getOrCreateVMX holds the mutex from start to end and is one step.       *)
(* releaseVMX holds it while VMSession.Close waits for the VM to be gone,  *)
(* and the monitor closes ms.done without it, so those are several steps.  *)
(***************************************************************************)
EXTENDS Naturals

CONSTANTS
    Users,     \* SSH session goroutines
    Keys,      \* "namespace/isolation" keys
    Frames,    \* frames whose sessions run inside the shared VMs
    Nobody,    \* the mutex is free
    MaxVMs     \* bound: VMs started in a behaviour

ASSUME VmxAssumption == MaxVMs \in Nat /\ Nobody \notin Users
ASSUME ValuesAssumption == Keys # {} /\ Frames # {}

VMs == 1..MaxVMs

VARIABLES
    mu,        \* m.mu: the session inside releaseVMX waiting for a VM, or Nobody
    sessions,  \* m.sessions: key -> VM, 0 if there is no entry
    vm,        \* VM -> its managedVMXSession, VMSession and monitor
    started,   \* VMs started so far
    user       \* session -> program counter and local variables

vars == <<mu, sessions, vm, started, user>>

\* closed: releaseVMX called Close; done: ms.done is closed.
NoVM == [state |-> "none", refCount |-> 0, closed |-> FALSE, done |-> FALSE,
         monitor |-> "wait", key |-> CHOOSE k \in Keys : TRUE,
         handler |-> CHOOSE f \in Frames : TRUE]

IdleUser == [pc |-> "idle", key |-> CHOOSE k \in Keys : TRUE,
             frame |-> CHOOSE f \in Frames : TRUE, ms |-> 0]

Init ==
    /\ mu = Nobody
    /\ sessions = [k \in Keys |-> 0]
    /\ vm = [i \in VMs |-> NoVM]
    /\ started = 0
    /\ user = [u \in Users |-> IdleUser]

-----------------------------------------------------------------------------
(* getOrCreateVMX, from runVMXSession and runVMXOuterShell.                *)

\* There is an entry and its VM is not known to have exited.
Running(k) == sessions[k] # 0 /\ ~vm[sessions[k]].done

Reuse(u, k, f) ==
    /\ mu = Nobody /\ user[u].pc = "idle"
    /\ Running(k)
    /\ vm' = [vm EXCEPT ![sessions[k]].refCount = @ + 1, ![sessions[k]].handler = f]
    /\ user' = [user EXCEPT ![u] = [pc |-> "using", key |-> k, frame |-> f, ms |-> sessions[k]]]
    /\ UNCHANGED <<mu, sessions, started>>

StartedVM(k, f) == [state |-> "running", refCount |-> 1, closed |-> FALSE, done |-> FALSE,
                    monitor |-> "wait", key |-> k, handler |-> f]

Create(u, k, f) ==
    /\ mu = Nobody /\ user[u].pc = "idle"
    /\ ~Running(k)
    /\ started < MaxVMs
    /\ started' = started + 1
    /\ vm' = [vm EXCEPT ![started + 1] = StartedVM(k, f)]
    /\ sessions' = [sessions EXCEPT ![k] = started + 1]
    /\ user' = [user EXCEPT ![u] = [pc |-> "using", key |-> k, frame |-> f, ms |-> started + 1]]
    /\ UNCHANGED mu

\* StartVM failed; an entry whose VM has exited is gone all the same.
CreateFails(u, k) ==
    /\ mu = Nobody /\ user[u].pc = "idle"
    /\ ~Running(k)
    /\ sessions' = [sessions EXCEPT ![k] = 0]
    /\ UNCHANGED <<mu, vm, started, user>>

-----------------------------------------------------------------------------
(* releaseVMX looks the VM up by key, whichever VM the session was using.  *)

ReleaseNothing(u) ==
    /\ mu = Nobody /\ user[u].pc = "using"
    /\ sessions[user[u].key] = 0
    /\ user' = [user EXCEPT ![u] = IdleUser]
    /\ UNCHANGED <<mu, sessions, vm, started>>

Release(u) ==
    /\ mu = Nobody /\ user[u].pc = "using"
    /\ LET i == sessions[user[u].key]
       IN  /\ i # 0 /\ vm[i].refCount > 1
           /\ vm' = [vm EXCEPT ![i].refCount = @ - 1]
    /\ user' = [user EXCEPT ![u] = IdleUser]
    /\ UNCHANGED <<mu, sessions, started>>

\* kill: whatever is left of the cohort starts to go down.
Killed(v) == [v EXCEPT !.state = IF @ = "running" THEN "dying" ELSE @]

\* The count reached zero: kill the VM and wait, still holding the mutex.
ReleaseLast(u) ==
    /\ mu = Nobody /\ user[u].pc = "using"
    /\ LET i == sessions[user[u].key]
       IN  /\ i # 0 /\ vm[i].refCount <= 1
           /\ vm' = [vm EXCEPT ![i] = [Killed(@) EXCEPT !.refCount = 0, !.closed = TRUE]]
           /\ user' = [user EXCEPT ![u].pc = "closing", ![u].ms = i]
    /\ mu' = u
    /\ UNCHANGED <<sessions, started>>

\* Mutant: the entry of the closed VM stays.
CloseReturnsKeepingEntry(u) ==
    /\ user[u].pc = "closing"
    /\ vm[user[u].ms].state = "exited"
    /\ user' = [user EXCEPT ![u] = IdleUser]
    /\ mu' = Nobody
    /\ UNCHANGED <<sessions, vm, started>>

\* Mutant: Close waits for the monitor instead of the VM.
CloseAwaitsMonitor(u) ==
    /\ user[u].pc = "closing"
    /\ vm[user[u].ms].monitor = "end"
    /\ sessions' = [sessions EXCEPT ![user[u].key] = 0]
    /\ user' = [user EXCEPT ![u] = IdleUser]
    /\ mu' = Nobody
    /\ UNCHANGED <<vm, started>>

\* <-s.done returned: delete the entry and unlock.
CloseReturns(u) ==
    /\ user[u].pc = "closing"
    /\ vm[user[u].ms].state = "exited"
    /\ sessions' = [sessions EXCEPT ![user[u].key] = 0]
    /\ user' = [user EXCEPT ![u] = IdleUser]
    /\ mu' = Nobody
    /\ UNCHANGED <<vm, started>>

-----------------------------------------------------------------------------
(* The VM: any member of the cohort exiting takes the others down, and     *)
(* session.done is closed when all are reaped.                             *)

VmFails(i) ==
    /\ vm[i].state = "running"
    /\ vm' = [vm EXCEPT ![i] = Killed(@)]
    /\ UNCHANGED <<mu, sessions, started, user>>

VmExits(i) ==
    /\ vm[i].state = "dying"
    /\ vm' = [vm EXCEPT ![i].state = "exited"]
    /\ UNCHANGED <<mu, sessions, started, user>>

\* The monitor goroutine: close(ms.done), then delete the key's entry.
MonitorDone(i) ==
    /\ vm[i].state = "exited" /\ vm[i].monitor = "wait"
    /\ vm' = [vm EXCEPT ![i].done = TRUE, ![i].monitor = "delete"]
    /\ UNCHANGED <<mu, sessions, started, user>>

MonitorDelete(i) ==
    /\ vm[i].monitor = "delete"
    /\ mu = Nobody
    /\ sessions' = [sessions EXCEPT ![vm[i].key] = 0]
    /\ vm' = [vm EXCEPT ![i].monitor = "end"]
    /\ UNCHANGED <<mu, started, user>>

-----------------------------------------------------------------------------
Machine(i) == VmExits(i) \/ MonitorDone(i) \/ MonitorDelete(i)

Next ==
    \/ \E u \in Users, k \in Keys, f \in Frames : Reuse(u, k, f) \/ Create(u, k, f)
    \/ \E u \in Users, k \in Keys : CreateFails(u, k)
    \/ \E u \in Users : ReleaseNothing(u) \/ Release(u) \/ ReleaseLast(u) \/ CloseReturns(u)
    \/ \E i \in VMs : VmFails(i) \/ Machine(i)

Spec == Init /\ [][Next]_vars

\* A killed VM goes down, goroutines that can run are scheduled, and the mutex
\* (sync.Mutex) does not starve the monitor. Sessions need not end.
FairSpec ==
    /\ Spec
    /\ \A i \in VMs : WF_vars(VmExits(i)) /\ WF_vars(MonitorDone(i)) /\ SF_vars(MonitorDelete(i))
    /\ \A u \in Users : WF_vars(CloseReturns(u))

-----------------------------------------------------------------------------
\* Every variable has the type of the Go field it stands for.
TypeOK ==
    /\ mu \in Users \cup {Nobody}
    /\ sessions \in [Keys -> 0..MaxVMs]
    /\ vm \in [VMs -> [state : {"none", "running", "dying", "exited"}, refCount : Nat,
                       closed : BOOLEAN, done : BOOLEAN, key : Keys, handler : Frames,
                       monitor : {"wait", "delete", "end"}]]
    /\ started \in 0..MaxVMs
    /\ user \in [Users -> [pc : {"idle", "using", "closing"}, key : Keys, frame : Frames,
                           ms : 0..MaxVMs]]

\* A VM that a release has shut down is not there for the next session to find:
\* outside the mutex every registered VM has a reference and nobody closed it.
RegisteredNotClosed ==
    mu = Nobody => \A k \in Keys : sessions[k] # 0 =>
        ~vm[sessions[k]].closed /\ vm[sessions[k]].refCount > 0

\* An entry is a VM that was started for its key.
EntriesKnown ==
    \A k \in Keys : sessions[k] # 0 => sessions[k] <= started /\ vm[sessions[k]].key = k

\* Whoever waits for a VM it has closed is the one that holds the mutex, and
\* the entry it will delete is that VM's: neither the VM's monitor nor another
\* session has replaced it meanwhile.
CloserHoldsMutex ==
    /\ \A u \in Users : user[u].pc = "closing" <=> mu = u
    /\ \A u \in Users : user[u].pc = "closing" =>
          user[u].ms # 0 /\ sessions[user[u].key] = user[u].ms

\* While the mutex is held only the entry being torn down may be closed.
OnlyClosersEntryClosed ==
    \A k \in Keys : sessions[k] # 0 =>
        \/ ~vm[sessions[k]].closed /\ vm[sessions[k]].refCount > 0
        \/ \E u \in Users : user[u].pc = "closing" /\ user[u].key = k

\* What a session that takes the mutex may rely on, and why it may: the
\* conjunction is preserved by every step.
VmxInv ==
    /\ TypeOK
    /\ RegisteredNotClosed
    /\ EntriesKnown
    /\ CloserHoldsMutex
    /\ OnlyClosersEntryClosed

\* A release that shuts a VM down returns, although it waits for the VM with
\* the mutex that the VM's monitor needs too.
ReleaseReturns ==
    \A u \in Users : (user[u].pc = "closing") ~> (user[u].pc # "closing")

\* What releaseVMX logs when it shuts a VM down, "no more clients, shutting down
\* VM": no session is left that was given this VM and has not released it.  The code
\* does not keep it: a release names a key, and counts against whatever VM it finds.
ClosedWithoutClients ==
    \A u \in Users : user[u].pc = "using" => ~vm[user[u].ms].closed

=============================================================================
