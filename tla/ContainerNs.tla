---------------------------- MODULE ContainerNs ----------------------------
(***************************************************************************)
(* The shared namespaces of a frame's sessions.  The daemon keeps one host *)
(* vshd process (hostVshdManager); vshd serves every session in a          *)
(* goroutine, and its containerns.Manager keeps, per root filesystem, one  *)
(* reference-counted entry for the `ts container-init' that anchors the    *)
(* namespaces.  A session joins them through `ts nsenter' and is put into  *)
(* a cgroup leaf of its own.                                               *)
(*                                                                         *)
(* A session goroutine is one process here.  Manager.mu is a variable,     *)
(* because a creation keeps it while it waits for READY; every other       *)
(* critical section is one step.  Inits are numbered in the order they are *)
(* started, so a number stands for a process and its entry.                *)
(***************************************************************************)
EXTENDS Naturals, FiniteSets, Sequences

CONSTANTS
    Sessions,     \* the session slots of the daemon
    RootFS,       \* the root filesystems of frames
    MaxStarts,    \* bound: sessions dialled in a behaviour
    MaxDeaths,    \* bound: inits that die on their own
    MaxRestarts,  \* bound: deaths of vshd, and restarts of the daemon
    NoInit, NoOne, NoRoot

ASSUME BoundAssumption == MaxStarts \in Nat /\ MaxDeaths \in Nat /\ MaxRestarts \in Nat
ASSUME SessionsAssumption == IsFiniteSet(Sessions) /\ NoOne \notin Sessions
ASSUME ValuesAssumption == NoInit \notin Nat /\ NoRoot \notin RootFS

VARIABLES
    vshd,      \* the host vshd: "none", "up", or "dead" (an unreaped child)
    mu,        \* the session goroutine holding Manager.mu, or NoOne
    entries,   \* Manager.entries: the init registered for each root
    init,      \* the inits started, with the fields of their entries
    cg,        \* the roots whose container cgroup exists
    sess,      \* the sessions
    faults     \* how often each bounded event has happened

vars == <<vshd, mu, entries, init, cg, sess, faults>>

Idle == [pc |-> "idle", root |-> NoRoot, held |-> NoInit,
         after |-> "idle", wrapper |-> "none", inner |-> "none",
         place |-> "none", leaf |-> FALSE]

Init ==
    /\ vshd = "none"
    /\ mu = NoOne
    /\ entries = [r \in RootFS |-> NoInit]
    /\ init = << >>
    /\ cg = {}
    /\ sess = [s \in Sessions |-> Idle]
    /\ faults = [starts |-> 0, deaths |-> 0, restarts |-> 0]

At(s, label) == sess[s].pc = label
Root(s) == sess[s].root
Entry(s) == entries[Root(s)]
Held(s) == sess[s].held

\* Session s moves to a label, with some of its fields changed by the caller.
Goto(s, label) == sess' = [sess EXCEPT ![s].pc = label]

(***************************************************************************)
(* What the kernel does when the first process of a PID namespace dies:    *)
(* every process of the namespace is killed, and a `ts nsenter' that waits *)
(* for one of them exits.                                                  *)
(***************************************************************************)
Killed(ss, hit) ==
    [s \in Sessions |->
        IF s \in hit
          THEN [ss[s] EXCEPT !.inner = IF @ = "none" THEN @ ELSE "dead",
                             !.wrapper = IF ss[s].inner = "none" THEN @ ELSE "dead"]
          ELSE ss[s]]

Inside(i) == {s \in Sessions : Held(s) = i /\ sess[s].inner \in {"stage2", "joined", "running"}}

(***************************************************************************)
(* hostVshdManager.ensure and the dial.  The probe is kill(pid, 0), which  *)
(* a child that has exited and was never waited for still answers, so a    *)
(* dead vshd is taken for a live one and the dial is refused.              *)
(***************************************************************************)
Attempt == /\ faults.starts < MaxStarts
           /\ faults' = [faults EXCEPT !.starts = @ + 1]

Dial(s, r) ==
    /\ At(s, "idle") /\ vshd # "dead" /\ Attempt
    /\ vshd' = "up"
    /\ sess' = [sess EXCEPT ![s].pc = "getOrCreate", ![s].root = r]
    /\ UNCHANGED <<mu, entries, init, cg>>

DialRefused(s) ==
    /\ At(s, "idle") /\ vshd = "dead" /\ Attempt
    /\ UNCHANGED <<vshd, mu, entries, init, cg, sess>>

(***************************************************************************)
(* Manager.GetOrCreate.  The liveness probe is again kill(pid, 0) and the  *)
(* start time in /proc/<pid>/stat: both know a zombie as the process it    *)
(* was, and only stopEntry reaps one.                                      *)
(***************************************************************************)
ReallyAlive(i) == init[i].proc = "alive"
Alive(i) == init[i].proc # "reaped"

Join(s, i) ==
    /\ init' = [init EXCEPT ![i].refs = @ + 1]
    /\ sess' = [sess EXCEPT ![s].pc = "start", ![s].held = i]

\* Marks an entry with n references as stopping; s goes on in stopEntry and then
\* to "after".
BeginStop(s, i, n, after) ==
    /\ init' = [init EXCEPT ![i].stopping = TRUE, ![i].refs = n]
    /\ sess' = [sess EXCEPT ![s].pc = "stop", ![s].held = i, ![s].after = after]

GetOrCreate(s) ==
    /\ At(s, "getOrCreate") /\ mu = NoOne /\ Entry(s) # NoInit
    /\ LET i == Entry(s)
       IN  IF init[i].stopping
             THEN /\ sess' = [sess EXCEPT ![s].pc = "waitStopped", ![s].held = i]
                  /\ UNCHANGED init
             ELSE IF Alive(i) THEN Join(s, i) ELSE BeginStop(s, i, init[i].refs, "getOrCreate")
    /\ UNCHANGED <<vshd, mu, entries, cg, faults>>

WaitStopped(s) ==
    /\ At(s, "waitStopped") /\ init[Held(s)].closed
    /\ Goto(s, "getOrCreate")
    /\ UNCHANGED <<vshd, mu, entries, init, cg, faults>>

\* PrepareContainer: the container cgroup is made, or found, and opened.
PrepareContainer(r) == cg' = cg \cup {r}

\* The creation keeps Manager.mu until READY has been read or has failed.
UnlockedCreate(s) ==
    /\ At(s, "getOrCreate") /\ mu = NoOne /\ Entry(s) = NoInit
    /\ PrepareContainer(Root(s))
    /\ init' = Append(init, [root |-> Root(s), proc |-> "booting", refs |-> 0, ready |-> FALSE,
                             stopping |-> FALSE, closed |-> FALSE, died |-> FALSE])
    /\ sess' = [sess EXCEPT ![s].pc = "ready", ![s].held = Len(init) + 1]
    /\ UNCHANGED <<vshd, mu, entries, faults>>

Create(s) ==
    /\ At(s, "getOrCreate") /\ mu = NoOne /\ Entry(s) = NoInit
    /\ PrepareContainer(Root(s))
    /\ init' = Append(init, [root |-> Root(s), proc |-> "booting", refs |-> 0, ready |-> FALSE,
                             stopping |-> FALSE, closed |-> FALSE, died |-> FALSE])
    /\ mu' = s
    /\ sess' = [sess EXCEPT ![s].pc = "ready", ![s].held = Len(init) + 1]
    /\ UNCHANGED <<vshd, entries, faults>>

\* The cgroup, a pipe or the process itself could not be made.
CreateFails(s) ==
    /\ At(s, "getOrCreate") /\ mu = NoOne /\ Entry(s) = NoInit
    /\ \/ UNCHANGED cg
       \/ PrepareContainer(Root(s))
    /\ Goto(s, "idle")
    /\ UNCHANGED <<vshd, mu, entries, init, faults>>

(***************************************************************************)
(* ts container-init.  It sets up its mounts as PID 1 of the new           *)
(* namespaces and prints READY; after that it only reaps orphans, and      *)
(* exits on SIGTERM or when its standard input is closed.                  *)
(***************************************************************************)
Set(i, proc) == init' = [init EXCEPT ![i].proc = proc]

InitReady(i) ==
    /\ init[i].proc = "booting"
    /\ init' = [init EXCEPT ![i].proc = "alive", ![i].ready = TRUE]
    /\ UNCHANGED <<vshd, mu, entries, cg, sess, faults>>

\* A set-up step fails: the init exits before it has printed READY.
BootFails(i) ==
    /\ init[i].proc = "booting"
    /\ Set(i, "zombie")
    /\ UNCHANGED <<vshd, mu, entries, cg, sess, faults>>

\* SIGTERM from inside, the OOM killer, or a crash.
InitDies(i) ==
    /\ init[i].proc = "alive"
    /\ faults.deaths < MaxDeaths
    /\ faults' = [faults EXCEPT !.deaths = @ + 1]
    /\ init' = [init EXCEPT ![i].proc = "zombie", ![i].died = TRUE]
    /\ sess' = Killed(sess, Inside(i))
    /\ UNCHANGED <<vshd, mu, entries, cg>>

\* An init left by a vshd that is gone reads the end of its standard input.
OrphanExits(i) ==
    /\ init[i].proc = "orphan"
    /\ Set(i, "reaped")
    /\ UNCHANGED <<vshd, mu, entries, cg, sess, faults>>

\* READY arrives, perhaps from an init that has died since: the entry is
\* registered with one reference.
CreateReady(s) ==
    /\ At(s, "ready") /\ init[Held(s)].ready
    /\ init' = [init EXCEPT ![Held(s)].refs = 1]
    /\ entries' = [entries EXCEPT ![Root(s)] = Held(s)]
    /\ mu' = NoOne
    /\ Goto(s, "start")
    /\ UNCHANGED <<vshd, cg, faults>>

\* The delegation failed, the pipe ended, or ten seconds passed: the init is
\* killed and waited for, and the session ends with an error.
CreateAborts(s) ==
    /\ At(s, "ready")
    /\ Set(Held(s), "reaped")
    /\ mu' = NoOne
    /\ sess' = [sess EXCEPT ![s] = Idle]
    /\ UNCHANGED <<vshd, entries, cg, faults>>

(***************************************************************************)
(* A container session: spliceContainerSession starts `ts nsenter', whose  *)
(* first stage joins the namespaces of the init and forks the second; that *)
(* one joins the mounts and becomes `ts session-serve'.  ConfigureContainer*)
(* moves the first stage into the session's leaf at the same time: the     *)
(* second is in the leaf only if it was forked after the move.             *)
(***************************************************************************)
Start(s) ==
    /\ At(s, "start")
    /\ \/ sess' = [sess EXCEPT ![s].pc = "confine", ![s].wrapper = "running"]
       \/ Goto(s, "postExit")
    /\ UNCHANGED <<vshd, mu, entries, init, cg, faults>>

NsenterStage1(s) ==
    /\ sess[s].wrapper = "running" /\ sess[s].inner = "none"
    /\ sess' = IF ReallyAlive(Held(s))
                 THEN [sess EXCEPT ![s].inner = "stage2",
                                   ![s].place = IF sess[s].leaf THEN "leaf" ELSE "vshd"]
                 ELSE [sess EXCEPT ![s].wrapper = "dead"]
    /\ UNCHANGED <<vshd, mu, entries, init, cg, faults>>

NsenterStage2(s) ==
    /\ sess[s].inner = "stage2"
    /\ \/ sess' = [sess EXCEPT ![s].inner = "joined"]
       \/ sess' = [sess EXCEPT ![s].inner = "dead", ![s].wrapper = "dead"]
    /\ UNCHANGED <<vshd, mu, entries, init, cg, faults>>

\* ts join-and-run changes the root, drops capabilities and becomes session-serve.
JoinAndRun(s) ==
    /\ sess[s].inner = "joined"
    /\ \/ sess' = [sess EXCEPT ![s].inner = "running"]
       \/ sess' = [sess EXCEPT ![s].inner = "dead", ![s].wrapper = "dead"]
    /\ UNCHANGED <<vshd, mu, entries, init, cg, faults>>

ConfigureContainer(s) ==
    /\ At(s, "confine")
    /\ sess' = [sess EXCEPT ![s].pc = "run", ![s].leaf = TRUE]
    /\ UNCHANGED <<vshd, mu, entries, init, cg, faults>>

\* The confinement failed: the first stage is killed and waited for.
ConfineFails(s) ==
    /\ At(s, "confine")
    /\ sess' = [sess EXCEPT ![s].pc = "postExit", ![s].wrapper = "dead"]
    /\ UNCHANGED <<vshd, mu, entries, init, cg, faults>>

\* The command ends, and with it session-serve and the waiting first stage.
InnerExits(s) ==
    /\ sess[s].inner = "running"
    /\ sess' = Killed(sess, {s})
    /\ UNCHANGED <<vshd, mu, entries, init, cg, faults>>

\* cgroup.kill of the session's leaf.
KillSession(s) ==
    [sess EXCEPT ![s].wrapper = IF @ = "none" THEN @ ELSE "dead",
                 ![s].inner = IF sess[s].place = "leaf" THEN "dead" ELSE @]

\* The client is gone: the goroutine that copies its input kills the leaf.
Disconnect(s) ==
    /\ At(s, "run")
    /\ sess' = KillSession(s)
    /\ UNCHANGED <<vshd, mu, entries, init, cg, faults>>

\* Nobody holds the output pipe any more: the copy ends, the child is waited
\* for.
SpliceEnds(s) ==
    /\ At(s, "run")
    /\ sess[s].wrapper = "dead" /\ sess[s].inner \in {"none", "dead"}
    /\ Goto(s, "postExit")
    /\ UNCHANGED <<vshd, mu, entries, init, cg, faults>>

PostExit(s) ==
    /\ At(s, "postExit")
    /\ sess' = [KillSession(s) EXCEPT ![s].pc = "release", ![s].leaf = FALSE]
    /\ UNCHANGED <<vshd, mu, entries, init, cg, faults>>

(***************************************************************************)
(* Manager.Release, by root, and stopEntry.                                *)
(***************************************************************************)
EagerRelease(s) ==
    /\ At(s, "release") /\ mu = NoOne
    /\ LET i == Entry(s)
       IN  IF i = NoInit \/ init[i].refs > 1
             THEN /\ init' = IF i = NoInit THEN init ELSE [init EXCEPT ![i].refs = @ - 1]
                  /\ sess' = [sess EXCEPT ![s] = Idle]
                  /\ UNCHANGED entries
             ELSE /\ BeginStop(s, i, 0, "idle")
                  /\ entries' = [entries EXCEPT ![Root(s)] = NoInit]
    /\ UNCHANGED <<vshd, mu, cg, faults>>

Release(s) ==
    /\ At(s, "release") /\ mu = NoOne
    /\ LET i == Entry(s)
       IN  IF i = NoInit \/ init[i].stopping
             THEN sess' = [sess EXCEPT ![s] = Idle] /\ UNCHANGED init
             ELSE IF init[i].refs > 1
             THEN sess' = [sess EXCEPT ![s] = Idle] /\ init' = [init EXCEPT ![i].refs = @ - 1]
             ELSE BeginStop(s, i, 0, "idle")
    /\ UNCHANGED <<vshd, mu, entries, cg, faults>>

\* The init's standard input is closed and it is waited for; one that has not
\* gone after initShutdownTimeout is killed and then waited for.
StopReap(s) ==
    /\ At(s, "stop")
    /\ Set(Held(s), "reaped")
    /\ sess' = [Killed(sess, Inside(Held(s))) EXCEPT ![s].pc = "stopCgroup"]
    /\ UNCHANGED <<vshd, mu, entries, cg, faults>>

\* Whatever runs in the container cgroup of root r, under whichever entry.
Members(r) == {i \in DOMAIN init : init[i].root = r /\ init[i].proc \in {"booting", "alive"}}

\* KillContainer, then RemoveContainer, which does not wait for what was
\* killed to be gone and may find the cgroup busy.
StopCgroup(s) ==
    /\ At(s, "stopCgroup")
    /\ init' = [i \in DOMAIN init |->
                  IF i \in Members(Root(s)) THEN [init[i] EXCEPT !.proc = "zombie"] ELSE init[i]]
    /\ sess' = [Killed(sess, UNION {Inside(i) : i \in Members(Root(s))})
                  EXCEPT ![s].pc = "stopped"]
    /\ \/ cg' = cg \ {Root(s)}
       \/ UNCHANGED cg
    /\ UNCHANGED <<vshd, mu, entries, faults>>

SilentStopped(s) ==
    /\ At(s, "stopped") /\ mu = NoOne
    /\ entries' = [entries EXCEPT ![Root(s)] = IF @ = Held(s) THEN NoInit ELSE @]
    /\ sess' = [sess EXCEPT ![s] = IF @.after = "idle" THEN Idle
                                   ELSE [@ EXCEPT !.pc = sess[s].after]]
    /\ UNCHANGED <<vshd, mu, init, cg, faults>>

Stopped(s) ==
    /\ At(s, "stopped") /\ mu = NoOne
    /\ entries' = [entries EXCEPT ![Root(s)] = IF @ = Held(s) THEN NoInit ELSE @]
    /\ init' = [init EXCEPT ![Held(s)].closed = TRUE]
    /\ sess' = [sess EXCEPT ![s] = IF @.after = "idle" THEN Idle
                                   ELSE [@ EXCEPT !.pc = sess[s].after]]
    /\ UNCHANGED <<vshd, mu, cg, faults>>

(***************************************************************************)
(* vshd dies, or the daemon does and vshd exits on the end of its          *)
(* lifecycle pipe.  Every session and every entry goes with vshd; the      *)
(* inits exit once they read the end of their standard input.  A new       *)
(* daemon has no vshd yet, and its cgroups are under its own process ID.   *)
(***************************************************************************)
Reset ==
    /\ faults.restarts < MaxRestarts
    /\ faults' = [faults EXCEPT !.restarts = @ + 1]
    /\ mu' = NoOne
    /\ entries' = [r \in RootFS |-> NoInit]
    /\ sess' = [s \in Sessions |-> Idle]
    /\ init' = [i \in DOMAIN init |->
                  IF init[i].proc = "reaped" THEN init[i] ELSE [init[i] EXCEPT !.proc = "orphan"]]

VshdDies == vshd = "up" /\ vshd' = "dead" /\ Reset /\ UNCHANGED cg

DaemonRestarts == vshd # "none" /\ vshd' = "none" /\ Reset /\ cg' = {}

Served(s) ==
    \/ DialRefused(s) \/ \E r \in RootFS : Dial(s, r)
    \/ GetOrCreate(s) \/ WaitStopped(s) \/ Create(s) \/ CreateFails(s)
    \/ CreateReady(s) \/ CreateAborts(s)
    \/ Start(s) \/ NsenterStage1(s) \/ NsenterStage2(s) \/ JoinAndRun(s)
    \/ ConfigureContainer(s) \/ ConfineFails(s) \/ InnerExits(s) \/ Disconnect(s)
    \/ SpliceEnds(s) \/ PostExit(s) \/ Release(s)
    \/ StopReap(s) \/ StopCgroup(s) \/ Stopped(s)

Next ==
    \/ \E s \in Sessions : Served(s)
    \/ \E i \in DOMAIN init : InitReady(i) \/ BootFails(i) \/ InitDies(i) \/ OrphanExits(i)
    \/ VshdDies \/ DaemonRestarts

Spec == Init /\ [][Next]_vars
-----------------------------------------------------------------------------
\* Every variable has the type of the Go field, process or file it stands for.
TypeOK ==
    /\ vshd \in {"none", "up", "dead"}
    /\ mu \in Sessions \cup {NoOne}
    /\ entries \in [RootFS -> Nat \cup {NoInit}]
    /\ init \in Seq([root : RootFS, refs : Nat, ready : BOOLEAN, stopping : BOOLEAN,
                     closed : BOOLEAN, died : BOOLEAN,
                     proc : {"booting", "alive", "zombie", "orphan", "reaped"}])
    /\ cg \in SUBSET RootFS
    /\ sess \in [Sessions -> [root : RootFS \cup {NoRoot}, held : Nat \cup {NoInit},
                              after : {"idle", "getOrCreate"}, leaf : BOOLEAN,
                              wrapper : {"none", "running", "dead"},
                              inner : {"none", "stage2", "joined", "running", "dead"},
                              place : {"none", "leaf", "vshd"},
                              pc : {"idle", "getOrCreate", "waitStopped", "ready", "start",
                                    "confine", "run", "postExit", "release", "stop",
                                    "stopCgroup", "stopped"}]]
    /\ faults \in [starts : Nat, deaths : Nat, restarts : Nat]

\* The labels between the return of GetOrCreate and Release.
Holding == {s \in Sessions : sess[s].pc \in {"start", "confine", "run", "postExit", "release"}}

\* The sessions that hold init i, and those that are in stopEntry for theirs.
Holders(i) == {s \in Holding : Held(s) = i}
Stopping == {s \in Sessions : sess[s].pc \in {"stop", "stopCgroup", "stopped"}}

\* A session's reference is kept for it (containerns.go, GetOrCreate and
\* Release): until it releases, its init is the registered one, is not being
\* stopped, and is counted once for every session that holds it.  Release only
\* names the root, so this rests on an entry never being replaced under its
\* holders.
HeldEntryKept ==
    \A s \in Holding :
        /\ Entry(s) = Held(s)
        /\ ~init[Held(s)].stopping
        /\ init[Held(s)].refs = Cardinality(Holders(Held(s)))

\* No teardown reaches a session's container (stopEntry): while a session holds
\* an init, its process runs unless it died by itself, and its cgroup exists,
\* however slowly an earlier entry of the same root is being removed.
HeldInitServes ==
    \A s \in Holding :
        /\ init[Held(s)].proc = "alive" \/ init[Held(s)].died
        /\ Root(s) \in cg

\* A wait ends (GetOrCreate waits for e.stopped and retries): whoever waits for
\* an entry to stop has either been woken, or some goroutine is still in the
\* stopEntry that will close the channel; and the mutex is only ever kept by a
\* creation whose wait for READY is bounded.
WaitsEnd ==
    /\ \A s \in Sessions : At(s, "waitStopped") =>
          /\ Held(s) \in DOMAIN init
          /\ init[Held(s)].closed \/ \E t \in Stopping : Held(t) = Held(s)
    /\ \A s \in Sessions : At(s, "ready") <=> mu = s

\* A session that is served has a root filesystem, and READY is the last thing
\* an init prints before it serves.
ServedRooted ==
    /\ \A s \in Sessions : ~At(s, "idle") => Root(s) \in RootFS
    /\ \A i \in DOMAIN init : init[i].proc = "booting" => ~init[i].ready

\* A holder's init is the registered one.
HoldersRegistered ==
    \A s \in Holding : /\ Held(s) \in DOMAIN init
                       /\ Entry(s) = Held(s)
                       /\ ~init[Held(s)].stopping

\* What a registration says: the init is one of this root; it is being stopped
\* by somebody, or its references are counted, its cgroup exists, its process
\* has not been waited for, and has ended only by itself.
EntriesServe ==
    \A r \in RootFS : entries[r] # NoInit =>
        LET i == entries[r]
        IN  /\ i \in DOMAIN init
            /\ init[i].root = r
            /\ init[i].stopping => \E t \in Stopping : Held(t) = i
            /\ ~init[i].stopping => /\ init[i].refs = Cardinality(Holders(i))
                                    /\ init[i].proc = "alive" \/ init[i].died
                                    /\ init[i].proc \notin {"orphan", "reaped"}
                                    /\ r \in cg

\* A creation is alone with its root: no entry yet, and a new init that is
\* still to print READY or has served since.
CreatorsAlone ==
    \A s \in Sessions : At(s, "ready") =>
        /\ Entry(s) = NoInit
        /\ Root(s) \in cg
        /\ Held(s) \in DOMAIN init
        /\ LET e == init[Held(s)]
           IN  /\ e.root = Root(s) /\ ~e.stopping
               /\ e.proc \notin {"orphan", "reaped"}
               /\ e.ready => e.proc = "alive" \/ e.died

\* stopEntry keeps its entry registered until it is done, and nobody else is
\* in it for the same init.
StoppersOwn ==
    /\ \A s \in Stopping : /\ Held(s) \in DOMAIN init
                           /\ Entry(s) = Held(s)
                           /\ init[Held(s)].stopping
    /\ \A s, t \in Stopping : Held(s) = Held(t) => s = t

\* A wait ends, and the parts that every step preserves together: they say why
\* a session finds its own entry, with its own init, when it releases by root.
NsInv ==
    /\ TypeOK
    /\ WaitsEnd
    /\ ServedRooted
    /\ HoldersRegistered
    /\ EntriesServe
    /\ CreatorsAlone
    /\ StoppersOwn
=============================================================================
