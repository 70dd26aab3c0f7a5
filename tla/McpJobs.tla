------------------------------ MODULE McpJobs ------------------------------
(***************************************************************************)
(* Background jobs of the MCP server (cmd/thundersnapd/mcp_jobs.go): the   *)
(* job list of one conversation, the handlers that launch, wait for and    *)
(* kill jobs, the collector goroutine and the hard-timeout timer of each   *)
(* job, and the logs that outlive the daemon in the frame.                 *)
(*                                                                         *)
(* A step is a section under mcpJobList.mu, or what a goroutine does       *)
(* between two of them. Each notifyLocked closes the channel l.changed and *)
(* replaces it: sleepers are the calls asleep on the current channel, and  *)
(* the revision counter, which is only reported, is left out. A log is a   *)
(* sequence of bytes told apart only as line ends ("nl") and others ("x"). *)
(***************************************************************************)
EXTENDS Naturals, Sequences, FiniteSets

CONSTANTS
    Frames,        \* frames jobs run in
    Clients,       \* MCP calls in progress at the same time
    MaxID,         \* bound: job IDs of the conversation
    MaxOutput,     \* bound: bytes of output of a job
    MaxView,       \* mcpMaxViewOutput
    MaxRestarts,   \* bound: restarts of the daemon
    VshdMayDie     \* whether host vshd can die under a job

ASSUME McpAssumption ==
    /\ IsFiniteSet(Clients) /\ Frames # {}
    /\ MaxID \in Nat /\ MaxOutput \in Nat /\ MaxRestarts \in Nat
    /\ MaxView \in Nat \ {0}
    /\ VshdMayDie \in BOOLEAN

IDs == 1..MaxID
Byte == {"nl", "x"}
Stops == {"timed_out", "killed"}
Until == {"output", "any_exit", "all_exit"}

VARIABLES
    nextID,     \* l.nextID
    sleepers,   \* the calls asleep on the current l.changed
    jobs,       \* l.jobs, with the collector's locals and the vshd session
    logs,       \* frame -> job ID -> the log directory and its combined.log
    control,    \* frame -> references jobs hold on its control server
    call,       \* client -> the handler it is in
    restarts

vars == <<nextID, sleepers, jobs, logs, control, call, restarts>>

\* conn: "open", "closed" (by this side), "lost" (vshd went away).
\* proc: the process group of the job in its vshd session. It is "loose" when it is
\* not in a cgroup leaf of the session: vshd cannot make one, or the command was
\* forked before its wrapper was moved into it.
\* collect: where collectMCPJob is. gotExit: it has read FrameExit.
NoJob == [state |-> "none", frame |-> CHOOSE f \in Frames : TRUE, stopReason |-> "",
          closing |-> FALSE, conn |-> "none", proc |-> "none", collect |-> "none",
          gotExit |-> FALSE]

\* sel: the IDs a wait or a kill names; a wait that names none is for all jobs.
\* owner: the launch that created the directory.
NoLog == [owner |-> <<0, 0>>, data |-> <<>>]

IdleCall == [pc |-> "idle", frame |-> CHOOSE f \in Frames : TRUE, sel |-> {}, todo |-> {},
             until |-> "any_exit", id |-> 0, offset |-> [i \in IDs |-> 0]]

Init ==
    /\ nextID = 0
    /\ sleepers = {}
    /\ jobs = [i \in IDs |-> NoJob]
    /\ logs = [f \in Frames |-> [i \in IDs |-> NoLog]]
    /\ control = [f \in Frames |-> 0]
    /\ call = [c \in Clients |-> IdleCall]
    /\ restarts = 0

Known == {i \in IDs : jobs[i].state # "none"}

Terminal(j) == j.state \in {"exited", "timed_out", "killed", "lost"}

\* notifyLocked wakes every call asleep on l.changed.
Notify == sleepers' = {}

Goto(c, pc) == call' = [call EXCEPT ![c].pc = pc]

Return(c) == call' = [call EXCEPT ![c] = IdleCall]

-----------------------------------------------------------------------------
(* mcpBashToolHandler: hold the frame's control server, create the log,    *)
(* connect to vshd, register the job, start timer and collector.           *)

Launch(c, f) ==
    /\ call[c].pc = "idle"
    /\ control' = [control EXCEPT ![f] = @ + 1]
    /\ call' = [call EXCEPT ![c] = [IdleCall EXCEPT !.pc = "log", !.frame = f]]
    /\ UNCHANGED <<nextID, sleepers, jobs, logs, restarts>>

\* Mutant: an existing directory is used again.
MkdirAll(f, id) == TRUE

\* Whether the directory of a job ID can be created in a frame.
Mkdir(f, id) == logs[f][id] = NoLog

\* createMCPJobLog: one turn of its loop, taking the next ID.
CreateLog(c) ==
    LET id == nextID + 1
        f == call[c].frame
    IN  /\ call[c].pc = "log"
        /\ nextID < MaxID
        /\ nextID' = id
        /\ IF Mkdir(f, id)
           THEN /\ logs' = [logs EXCEPT ![f][id] = [owner |-> <<restarts + 1, id>>, data |-> <<>>]]
                /\ call' = [call EXCEPT ![c].pc = "dial", ![c].id = id]
           ELSE UNCHANGED <<logs, call>>
        /\ UNCHANGED <<sleepers, jobs, control, restarts>>

\* Mutant: a failed launch keeps its reference.
LaunchFailsHolding(c) ==
    /\ call[c].pc \in {"log", "dial"}
    /\ Return(c)
    /\ UNCHANGED <<nextID, sleepers, jobs, logs, control, restarts>>

\* The log or the vshd connection could not be had.
LaunchFails(c) ==
    /\ call[c].pc \in {"log", "dial"}
    /\ control' = [control EXCEPT ![call[c].frame] = @ - 1]
    /\ Return(c)
    /\ UNCHANGED <<nextID, sleepers, jobs, logs, restarts>>

Started(f, proc) == [NoJob EXCEPT !.state = "running", !.frame = f, !.conn = "open",
                                  !.proc = proc, !.collect = "read"]

Start(c) ==
    /\ call[c].pc = "dial"
    /\ \E proc \in {"alive", "loose"} :
          jobs' = [jobs EXCEPT ![call[c].id] = Started(call[c].frame, proc)]
    /\ Notify
    /\ Return(c)
    /\ UNCHANGED <<nextID, logs, control, restarts>>

-----------------------------------------------------------------------------
(* The vshd session of a job, as the daemon sees it: the process group     *)
(* runs, exits, or is killed once vshd sees the connection closed.  That   *)
(* kill reaches a leaf; a loose command has left the wrapper's process     *)
(* group, and dies only if its endpoint, which may be killed first, gets   *)
(* to hang it up.  When vshd itself is gone, the container's init exits    *)
(* and everything in the container with it.                                *)

Runs(i) == jobs[i].proc \in {"alive", "loose"}

ProcExits(i) ==
    /\ Runs(i) /\ jobs[i].conn = "open"
    /\ jobs' = [jobs EXCEPT ![i].proc = "exited"]
    /\ UNCHANGED <<nextID, sleepers, logs, control, call, restarts>>

ProcReaped(i) ==
    /\ Runs(i) /\ jobs[i].conn \in {"closed", "lost"}
    /\ jobs' = [jobs EXCEPT ![i].proc = "exited"]
    /\ UNCHANGED <<nextID, sleepers, logs, control, call, restarts>>

\* The reaping that is certain to come.
Reaping(i) == (jobs[i].proc = "loose" => jobs[i].conn = "lost") /\ ProcReaped(i)

VshdLost(i) ==
    /\ VshdMayDie
    /\ jobs[i].conn = "open"
    /\ jobs' = [jobs EXCEPT ![i].conn = "lost"]
    /\ UNCHANGED <<nextID, sleepers, logs, control, call, restarts>>

-----------------------------------------------------------------------------
(* collectMCPJob.                                                          *)

\* A FrameStdout or FrameStderr: append to the log, then count the bytes.
Output(i, b) ==
    LET f == jobs[i].frame
    IN  /\ jobs[i].collect = "read"
        /\ jobs[i].conn = "open" /\ Runs(i)
        /\ Len(logs[f][i].data) < MaxOutput
        /\ logs' = [logs EXCEPT ![f][i].data = Append(@, b)]
        /\ Notify
        /\ UNCHANGED <<nextID, jobs, control, call, restarts>>

\* FrameExit: the exit code is recorded and the loop ends.
ReadExit(i) ==
    /\ jobs[i].collect = "read"
    /\ jobs[i].conn = "open" /\ jobs[i].proc = "exited"
    /\ jobs' = [jobs EXCEPT ![i].gotExit = TRUE, ![i].collect = "final"]
    /\ UNCHANGED <<nextID, sleepers, logs, control, call, restarts>>

\* ReadFrame fails: closed by requestMCPJobStop, or vshd is gone.
ReadError(i) ==
    /\ jobs[i].collect = "read"
    /\ jobs[i].conn \in {"closed", "lost"}
    /\ jobs' = [jobs EXCEPT ![i].collect = "final"]
    /\ UNCHANGED <<nextID, sleepers, logs, control, call, restarts>>

\* The terminal state of a job.
FinalState(j) ==
    CASE j.stopReason # "" -> j.stopReason
      [] j.stopReason = "" /\ j.gotExit -> "exited"
      [] OTHER -> "lost"

\* Mutant: the end of a job is not announced.
CollectedSilently(i) ==
    /\ jobs[i].collect = "final"
    /\ jobs' = [jobs EXCEPT ![i].state = FinalState(jobs[i]), ![i].collect = "end",
                            ![i].conn = "closed"]
    /\ control' = [control EXCEPT ![jobs[i].frame] = @ - 1]
    /\ UNCHANGED <<nextID, sleepers, logs, call, restarts>>

Collected(i) ==
    /\ jobs[i].collect = "final"
    /\ jobs' = [jobs EXCEPT ![i].state = FinalState(jobs[i]), ![i].collect = "end",
                            ![i].conn = "closed"]
    /\ control' = [control EXCEPT ![jobs[i].frame] = @ - 1]
    /\ Notify
    /\ UNCHANGED <<nextID, logs, call, restarts>>

-----------------------------------------------------------------------------
(* requestMCPJobStop: note the reason under the mutex, close the           *)
(* connection after it.                                                    *)

\* Mutant: a second stop replaces the reason of the first.
MayStopAgain(i) == ~Terminal(jobs[i])

MayStop(i) == ~Terminal(jobs[i]) /\ jobs[i].stopReason = ""

NoteStop(i, reason) ==
    /\ jobs' = [jobs EXCEPT ![i].stopReason = reason, ![i].closing = TRUE]
    /\ Notify

\* The hard timeout (a fired timer still runs after timer.Stop).
TimerFires(i) ==
    /\ jobs[i].state = "running"
    /\ MayStop(i)
    /\ NoteStop(i, "timed_out")
    /\ UNCHANGED <<nextID, logs, control, call, restarts>>

\* Mutant: the connection of a stopping job is left open.
CloseConnSkipped(i) ==
    /\ jobs[i].closing
    /\ jobs' = [jobs EXCEPT ![i].closing = FALSE]
    /\ UNCHANGED <<nextID, sleepers, logs, control, call, restarts>>

\* conn.Close().
CloseConn(i) ==
    /\ jobs[i].closing
    /\ jobs' = [jobs EXCEPT ![i].closing = FALSE,
                            ![i].conn = IF @ = "open" THEN "closed" ELSE @]
    /\ UNCHANGED <<nextID, sleepers, logs, control, call, restarts>>

-----------------------------------------------------------------------------
(* mcpJobsKillToolHandler: stop the selected jobs one after the other,     *)
(* then wait until all are terminal.                                       *)

Kill(c, sel) ==
    /\ call[c].pc = "idle"
    /\ call' = [call EXCEPT ![c] = [IdleCall EXCEPT !.pc = "stop", !.sel = sel, !.todo = sel]]
    /\ UNCHANGED <<nextID, sleepers, jobs, logs, control, restarts>>

KillStop(c, i) ==
    /\ call[c].pc = "stop" /\ i \in call[c].todo
    /\ IF MayStop(i) THEN NoteStop(i, "killed") ELSE UNCHANGED <<jobs, sleepers>>
    /\ call' = [call EXCEPT ![c].todo = @ \ {i},
                            ![c].pc = IF call[c].todo = {i} THEN "killcheck" ELSE "stop"]
    /\ UNCHANGED <<nextID, logs, control, restarts>>

AllTerminal(sel) == \A i \in sel : Terminal(jobs[i])

KillDone(c) ==
    /\ call[c].pc = "killcheck"
    /\ AllTerminal(call[c].sel)
    /\ Goto(c, "killed")
    /\ UNCHANGED <<nextID, sleepers, jobs, logs, control, restarts>>

KillSleep(c) ==
    /\ call[c].pc = "killcheck"
    /\ ~AllTerminal(call[c].sel)
    /\ Goto(c, "killsleep")
    /\ sleepers' = sleepers \cup {c}
    /\ UNCHANGED <<nextID, jobs, logs, control, restarts>>

KillWake(c) ==
    /\ call[c].pc = "killsleep"
    /\ c \notin sleepers
    /\ Goto(c, "killcheck")
    /\ UNCHANGED <<nextID, sleepers, jobs, logs, control, restarts>>

-----------------------------------------------------------------------------
(* mcpJobsWaitToolHandler.                                                 *)

LogOf(i) == logs[jobs[i].frame][i].data

\* waitStatuses: how many bytes from the offset it returns. At most MaxView are
\* read; while the job runs, only what ends in a line end is returned.
View(i, off) == SubSeq(LogOf(i), off + 1, IF off + MaxView < Len(LogOf(i))
                                          THEN off + MaxView ELSE Len(LogOf(i)))

LineEnd(data) ==
    CHOOSE e \in 0..Len(data) :
        /\ e # 0 => data[e] = "nl"
        /\ \A k \in DOMAIN data : data[k] = "nl" => k <= e

Shown(i, off) ==
    IF Terminal(jobs[i]) THEN Len(View(i, off)) ELSE LineEnd(View(i, off))

\* selectJobsLocked, at every turn of the loop: a wait for all jobs is also for the
\* ones launched since it began.
Selected(w) == IF w.sel = {} THEN Known ELSE w.sel

\* The condition a wait is for.
Satisfied(w) ==
    CASE w.until = "output" ->
            \E i \in Selected(w) : Shown(i, w.offset[i]) > 0 \/ jobs[i].state # "running"
      [] w.until = "any_exit" -> \E i \in Selected(w) : Terminal(jobs[i])
      [] w.until = "all_exit" -> AllTerminal(Selected(w))

\* A client goes on from the offsets it has: the log of a job it names is read from
\* byte off on, that of another from the start.
Wait(c, sel, until, off) ==
    /\ call[c].pc = "idle"
    /\ off \in 0..MaxOutput
    /\ \A i \in sel : off <= Len(LogOf(i))
    /\ sel = {} => off = 0
    /\ call' = [call EXCEPT ![c] = [IdleCall EXCEPT !.pc = "check", !.sel = sel,
                                      !.until = until, !.offset = [i \in IDs |-> off]]]
    /\ UNCHANGED <<nextID, sleepers, jobs, logs, control, restarts>>

WaitDone(c) ==
    /\ call[c].pc = "check"
    /\ Satisfied(call[c])
    /\ Return(c)
    /\ UNCHANGED <<nextID, sleepers, jobs, logs, control, restarts>>

\* Capture l.changed before unlocking, and sleep on it.
WaitSleep(c) ==
    /\ call[c].pc = "check"
    /\ ~Satisfied(call[c])
    /\ Goto(c, "sleep")
    /\ sleepers' = sleepers \cup {c}
    /\ UNCHANGED <<nextID, jobs, logs, control, restarts>>

WaitWake(c) ==
    /\ call[c].pc = "sleep"
    /\ c \notin sleepers
    /\ Goto(c, "check")
    /\ UNCHANGED <<nextID, sleepers, jobs, logs, control, restarts>>

\* The turn ends with an error: pre_signal could not be written to a job whose
\* connection is closing, or a frame is not to be found, or a log not to be read.
WaitFails(c) ==
    /\ call[c].pc = "check"
    /\ Return(c)
    /\ UNCHANGED <<nextID, sleepers, jobs, logs, control, restarts>>

\* The wait times out, or its context is cancelled (kill's too), or the answer
\* of a kill has been received.
Leave(c) ==
    /\ call[c].pc \in {"sleep", "killsleep", "killed"}
    /\ Return(c)
    /\ sleepers' = sleepers \ {c}
    /\ UNCHANGED <<nextID, jobs, logs, control, restarts>>

-----------------------------------------------------------------------------
\* The daemon restarts: job list, timers, collectors and calls are gone, and the
\* connections are closed; logs stay in the frames.
Restart ==
    /\ restarts < MaxRestarts
    /\ restarts' = restarts + 1
    /\ nextID' = 0
    /\ sleepers' = {}
    /\ jobs' = [i \in IDs |-> NoJob]
    /\ control' = [f \in Frames |-> 0]
    /\ call' = [c \in Clients |-> IdleCall]
    /\ UNCHANGED logs

-----------------------------------------------------------------------------
Session(i) == ProcExits(i) \/ VshdLost(i) \/ TimerFires(i) \/ (\E b \in Byte : Output(i, b))

Collector(i) == ReadExit(i) \/ ReadError(i) \/ Collected(i) \/ CloseConn(i)

Handler(c) ==
    \/ CreateLog(c) \/ LaunchFails(c) \/ Start(c)
    \/ KillDone(c) \/ KillSleep(c) \/ KillWake(c) \/ (\E i \in IDs : KillStop(c, i))
    \/ WaitDone(c) \/ WaitSleep(c) \/ WaitWake(c)

Next ==
    \/ \E c \in Clients, f \in Frames : Launch(c, f)
    \/ \E c \in Clients, sel \in SUBSET Known \ {{}} : Kill(c, sel)
    \/ \E c \in Clients, sel \in SUBSET Known, u \in Until, off \in 0..MaxOutput :
          Wait(c, sel, u, off)
    \/ \E c \in Clients : Handler(c) \/ WaitFails(c) \/ Leave(c)
    \/ \E i \in IDs : Session(i) \/ Collector(i) \/ ProcReaped(i)
    \/ Restart

Spec == Init /\ [][Next]_vars

\* Goroutines that can run do run, and vshd kills the leaf of a closed connection.
\* Jobs need not exit, loose commands need not be reaped, waits need not time out,
\* and clients need not come back.
FairSpec ==
    /\ Spec
    /\ \A i \in IDs : WF_vars(Collector(i)) /\ WF_vars(Reaping(i))
    /\ \A c \in Clients : WF_vars(Handler(c))

-----------------------------------------------------------------------------
\* Every variable has the type of the Go field or file it stands for.
TypeOK ==
    /\ nextID \in 0..MaxID /\ sleepers \subseteq Clients /\ restarts \in 0..MaxRestarts
    /\ jobs \in [IDs -> [state : {"none", "running", "exited", "timed_out", "killed", "lost"},
                         frame : Frames, stopReason : {""} \cup Stops, closing : BOOLEAN,
                         conn : {"none", "open", "closed", "lost"},
                         proc : {"none", "alive", "loose", "exited"},
                         collect : {"none", "read", "final", "end"}, gotExit : BOOLEAN]]
    /\ logs \in [Frames -> [IDs -> [owner : (0..(MaxRestarts + 1)) \X (0..MaxID), data : Seq(Byte)]]]
    /\ control \in [Frames -> Nat]
    /\ call \in [Clients -> [pc : {"idle", "log", "dial", "stop", "killcheck", "killsleep",
                                   "killed", "check", "sleep"},
                             frame : Frames, sel : SUBSET IDs, todo : SUBSET IDs, until : Until,
                             id : 0..MaxID, offset : [IDs -> 0..MaxOutput]]]

\* The wake-up cannot be lost between the test and the sleep: a sleeping wait or
\* kill whose condition has come true finds its channel closed.
NoLostWakeup ==
    \A c \in Clients :
        /\ call[c].pc = "sleep" /\ Satisfied(call[c]) => c \notin sleepers
        /\ call[c].pc = "killsleep" /\ AllTerminal(call[c].sel) => c \notin sleepers

\* Who holds a frame's control server: launches that have not registered their
\* job yet, and jobs that have not ended.
Launching(f) == {c \in Clients : call[c].pc \in {"log", "dial"} /\ call[c].frame = f}

Live(f) == {i \in IDs : jobs[i].state = "running" /\ jobs[i].frame = f}

\* A frame's control server is held exactly by the launches and the jobs that
\* are not over: no path leaks the reference or gives it back twice.
ControlRefsExact ==
    \A f \in Frames : control[f] = Cardinality(Launching(f)) + Cardinality(Live(f))

\* The collector of a job is at work exactly while the job runs, a stop is only
\* asked of a registered job, and a job's ID was taken from l.nextID.
CollectedOnce ==
    \A i \in IDs :
        /\ jobs[i].collect \in {"read", "final"} <=> jobs[i].state = "running"
        /\ jobs[i].state = "none" => jobs[i].stopReason = ""
        /\ i \in Known => i <= nextID

\* A launch that has its log owns its ID: no job and no other launch has it,
\* though the list's mutex is not held while vshd is dialled.
DiallersAlone ==
    \A c \in Clients : call[c].pc = "dial" =>
        /\ call[c].id \in 1..nextID /\ call[c].id \notin Known
        /\ \A d \in Clients \ {c} : call[d].pc = "dial" => call[d].id # call[c].id

\* A launch and a job write to, and a wait reads from, a log that this daemon
\* created for that ID, never one an earlier daemon left in the frame.
OwnLogs ==
    /\ \A c \in Clients : call[c].pc = "dial" =>
          logs[call[c].frame][call[c].id].owner = <<restarts + 1, call[c].id>>
    /\ \A i \in Known : logs[jobs[i].frame][i].owner = <<restarts + 1, i>>

\* Waits and kills are about registered jobs: a job is never forgotten.
SelectedKnown == \A c \in Clients : call[c].sel \subseteq Known /\ call[c].todo \subseteq call[c].sel

\* What a conversation's handlers, collectors and timers keep between them: no
\* sleeper misses its wake-up, no path of a launch or a job leaks the control
\* server's reference, and no two jobs share an ID or a log.
JobsInv ==
    /\ TypeOK /\ NoLostWakeup /\ ControlRefsExact
    /\ CollectedOnce /\ DiallersAlone /\ OwnLogs /\ SelectedKnown

\* The log of a job is never overwritten by another, though IDs start again at 1
\* when the daemon restarts: a log keeps its owner and only grows.
LogsKept ==
    [][\A f \in Frames, i \in IDs : logs[f][i] # NoLog =>
          /\ logs'[f][i].owner = logs[f][i].owner
          /\ Len(logs'[f][i].data) >= Len(logs[f][i].data)
          /\ SubSeq(logs'[f][i].data, 1, Len(logs[f][i].data)) = logs[f][i].data]_vars

\* The first stop decides: while the daemon runs, a stop reason is never
\* replaced (kill racing the hard timeout), and a job that ended stays ended.
OutcomeFinal ==
    [][restarts' = restarts => \A i \in IDs :
          /\ jobs[i].stopReason # "" => jobs'[i].stopReason = jobs[i].stopReason
          /\ Terminal(jobs[i]) => jobs'[i].state = jobs[i].state]_vars

\* A job that is asked to stop, by a kill or by its hard timeout
\* (requestMCPJobStop), ends, and its processes with it if they are in the leaf of
\* their session, unless the daemon is restarted.
StopSettles ==
    \A i \in IDs : (jobs[i].stopReason # "") ~>
        (jobs[i].state = "none" \/ (Terminal(jobs[i]) /\ jobs[i].proc \in {"exited", "loose"}))

\* A kill call returns: nothing it waits for waits for it.
KillReturns ==
    \A c \in Clients : (call[c].pc = "stop") ~> (call[c].pc \in {"killed", "idle"})

\* What the comment in mcpJobsKillToolHandler promises, "Do not report success while
\* the process group may still be alive": when a kill reports success, nothing of the
\* jobs it names runs any more.  The code does not keep it: the collector it waits for
\* ends on the daemon's own close of the connection.
KilledJobsGone ==
    \A c \in Clients : call[c].pc = "killed" => \A i \in call[c].sel : ~Runs(i)

=============================================================================
