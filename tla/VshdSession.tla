---------------------------- MODULE VshdSession ----------------------------
(***************************************************************************)
(* One session, from its client to the command it runs.  The daemon (for   *)
(* SSH, for `ts' inside a frame through /enter, and for the MCP tools)     *)
(* connects to a vshd, writes a request and speaks TLV frames.  A direct   *)
(* session is served by vshd itself; a container session is served by      *)
(* `ts session-serve' inside the container, and vshd splices bytes to it.  *)
(* The endpoint runs the command on a pty or on pipes, ends it when the    *)
(* client goes away, and reports its exit code.                            *)
(*                                                                         *)
(* Frames are "winsize", "data" and "eof" (the empty stdin frame) towards  *)
(* the command, "out" and "exit" back.  The command, and a background job  *)
(* of its process group that ignores SIGHUP, belong to the environment:    *)
(* they read, write and end when they like.                                *)
(***************************************************************************)
EXTENDS Naturals, Sequences

CONSTANTS
    MaxInput,    \* bound: stdin frames a client sends
    MaxOutput,   \* bound: writes of the command
    PipeRoom,    \* frames that fit in a pipe towards the command
    MaxTries     \* dials of a VM's vshd before the daemon gives up

ASSUME SessionAssumption == {MaxInput, MaxOutput, PipeRoom, MaxTries} \subseteq Nat

Vias == {"ssh", "vm", "enter", "mcp"}
Modes == {"direct", "leaf", "group"}

VARIABLES
    conf,     \* [via, mode, pty]: what kind of session this is
    daemon,   \* [pc, tries, sent, code, exitSeen, got]: the daemon's end
    client,   \* "on" or "gone"
    up,       \* frames on the connection towards vshd
    upShut,   \* the daemon has closed that direction
    down,     \* frames on the connection towards the daemon
    downShut, \* "open", "daemon" or "vshd": who closed that direction
    pin,      \* frames in the pipe from vshd to session-serve
    pinShut,  \* vshd has closed that pipe
    ep,       \* [pc, reader, stdin, grace, escaped]: the serving endpoint
    child,    \* [st, code, wrote, buf, tty]: the command
    job       \* "none", "running", "holding" (the command's output) or "dead"

sessionVars == <<conf, daemon, client, up, upShut, down, downShut, pin, pinShut, ep, child, job>>
conn == <<up, upShut, down, downShut>>
procs == <<ep, child, job>>

\* mode "leaf" is a container session with a cgroup of its own; "group" one
\* whose vshd cannot make cgroups; "direct" a shell of the VM's own system.
SessionInit ==
    /\ conf \in [via : Vias, mode : Modes, pty : BOOLEAN]
    /\ conf.via = "mcp" => ~conf.pty
    /\ conf.mode = "direct" => conf.via = "vm"
    /\ daemon = [pc |-> "dial", tries |-> 0, sent |-> 0, code |-> "zero",
                 exitSeen |-> FALSE, got |-> 0]
    /\ client = "on"
    /\ up = << >> /\ upShut = FALSE /\ down = << >> /\ downShut = "open"
    /\ pin = << >> /\ pinShut = FALSE
    /\ ep = [pc |-> "none", reader |-> "reading", stdin |-> 0, grace |-> FALSE,
             escaped |-> FALSE]
    /\ child = [st |-> "none", code |-> "none", wrote |-> 0, buf |-> 0, tty |-> TRUE]
    /\ job = "none"

(***************************************************************************)
(* The daemon connects and sends the request.  Only a VM's vshd may not be *)
(* listening yet: the dial is repeated, and given up when the VM panics.   *)
(***************************************************************************)
\* The window size goes first on a pty session, before any input.
FirstFrames == IF conf.pty THEN <<"winsize">> ELSE << >>

Open(via) ==
    /\ daemon.pc = "dial" /\ conf.via = via
    /\ daemon' = [daemon EXCEPT !.pc = "proxy"]
    /\ up' = FirstFrames
    /\ UNCHANGED <<conf, client, upShut, down, downShut, pin, pinShut, procs>>

RunContainerSession == Open("ssh")
HandleEnter == Open("enter")
RunInFrame == Open("mcp")
TryConnectToVshd == Open("vm")

ConnectToVshd ==
    /\ daemon.pc = "dial" /\ conf.via = "vm"
    /\ \/ /\ daemon.tries + 1 < MaxTries
          /\ daemon' = [daemon EXCEPT !.tries = @ + 1]
       \/ daemon' = [daemon EXCEPT !.pc = "failed"]
    /\ UNCHANGED <<conf, client, conn, pin, pinShut, procs>>

(***************************************************************************)
(* The daemon's proxy.  One goroutine frames the client's input and ends   *)
(* it with the empty frame; the MCP tools send none, and `ts' sends no end *)
(* marker.  Another reads frames until the connection ends, or for MCP     *)
(* until the exit frame.                                                   *)
(***************************************************************************)
Proxying == daemon.pc = "proxy"

Forward(via) ==
    /\ Proxying /\ ~upShut /\ conf.via \in via /\ client = "on"
    /\ daemon.sent < MaxInput
    /\ up' = Append(up, "data")
    /\ daemon' = [daemon EXCEPT !.sent = @ + 1]
    /\ UNCHANGED <<conf, client, upShut, down, downShut, pin, pinShut, procs>>

SendStdin == Forward({"ssh", "vm"})
RunVsockSession == Forward({"enter"})

\* The client's input ends, because the client closed it or is gone.
SendEof ==
    /\ Proxying /\ ~upShut /\ conf.via \in {"ssh", "vm"} /\ daemon.sent <= MaxInput
    /\ up' = Append(up, "eof")
    /\ daemon' = [daemon EXCEPT !.sent = MaxInput + 1]
    /\ UNCHANGED <<conf, client, upShut, down, downShut, pin, pinShut, procs>>

ReceiveFrame ==
    /\ Proxying /\ down # << >>
    /\ down' = Tail(down)
    /\ daemon' = IF Head(down) = "out" THEN [daemon EXCEPT !.got = @ + 1]
                 ELSE [daemon EXCEPT !.code = Head(down), !.exitSeen = TRUE]
    /\ UNCHANGED <<conf, client, up, upShut, downShut, pin, pinShut, procs>>

\* The proxy returns and closes its connection.
Return ==
    /\ daemon' = [daemon EXCEPT !.pc = "returned"]
    /\ upShut' = TRUE
    /\ downShut' = IF downShut = "open" THEN "daemon" ELSE downShut
    /\ UNCHANGED <<conf, client, up, down, pin, pinShut, procs>>

GuestDone == Proxying /\ down = << >> /\ downShut = "vshd" /\ Return

ClientClosed == Proxying /\ client = "gone" /\ conf.via # "enter" /\ Return

\* /enter relays bytes: the end of the client's direction is only half a close.
EnterRelayEnds ==
    /\ Proxying /\ client = "gone" /\ conf.via = "enter" /\ ~upShut
    /\ upShut' = TRUE
    /\ UNCHANGED <<conf, daemon, client, up, down, downShut, pin, pinShut, procs>>

\* CollectFrames stops at the exit frame, or at the output that reaches its cap.
CollectFrames ==
    /\ Proxying /\ conf.via = "mcp"
    /\ daemon.exitSeen \/ daemon.got > 0
    /\ Return

\* The client disconnects, or an MCP call reaches its deadline.
ClientGone ==
    /\ Proxying /\ client = "on"
    /\ client' = "gone"
    /\ UNCHANGED <<conf, daemon, conn, pin, pinShut, procs>>

(***************************************************************************)
(* vshd.  A request is refused for its user, or because no namespace or    *)
(* process could be made; otherwise a goroutine copies the connection into *)
(* session-serve, and kills the session when the copy ends.  Only the      *)
(* wrapper is moved into the session's leaf, after it has been started: an *)
(* endpoint it has forked by then stays outside, and the command with it.  *)
(***************************************************************************)
Write(frame) == down' = IF downShut = "open" THEN Append(down, frame) ELSE down

HandleConnection ==
    /\ daemon.pc \in {"proxy", "returned"} /\ ep.pc = "none"
    /\ \/ /\ \E e \in BOOLEAN : /\ e => conf.mode = "leaf"
                               /\ ep' = [ep EXCEPT !.pc = "start", !.escaped = e]
          /\ UNCHANGED down
       \/ ep' = [ep EXCEPT !.pc = "dead"] /\ Write("one")
       \/ upShut /\ ep' = [ep EXCEPT !.pc = "dead"] /\ UNCHANGED down
    /\ UNCHANGED <<conf, daemon, client, up, upShut, downShut, pin, pinShut, child, job>>

Serving == ep.pc \notin {"none", "dead", "closed"}
Container == conf.mode # "direct"
InLeaf == conf.mode = "leaf" /\ ~ep.escaped

\* SIGKILL to the command's process group, or to all of its cgroup leaf.
KillGroup(c) == IF c.st = "running" THEN [c EXCEPT !.st = "exited", !.code = "signal"] ELSE c
DeadJob(j) == IF j = "none" THEN j ELSE "dead"

\* SIGHUP to the process group: the command may die of it or ignore it; the
\* job ignores it.
Hangup == child' \in {child, KillGroup(child)}

\* killSession: with a leaf everything in it dies, and an endpoint that escaped
\* serves on.  Without a leaf it kills the wrapper's process group, the endpoint
\* with it; the command has left that group with its own session, and is hung up
\* with its terminal, if it has one.
KillSession ==
    \/ /\ InLeaf
       /\ ep' = [ep EXCEPT !.pc = "dead"]
       /\ child' = KillGroup(child) /\ job' = DeadJob(job)
    \/ conf.mode = "leaf" /\ ep.escaped /\ UNCHANGED procs
    \/ /\ conf.mode # "leaf"
       /\ ep' = [ep EXCEPT !.pc = "dead"]
       /\ IF conf.pty THEN Hangup ELSE UNCHANGED child
       /\ UNCHANGED job

SpliceIn ==
    /\ Container /\ Serving /\ up # << >> /\ Len(pin) < PipeRoom
    /\ pin' = Append(pin, Head(up))
    /\ up' = Tail(up)
    /\ UNCHANGED <<conf, daemon, client, upShut, down, downShut, pinShut, procs>>

SpliceEofOnly ==
    /\ Container /\ Serving /\ up = << >> /\ upShut /\ ~pinShut
    /\ pinShut' = TRUE
    /\ UNCHANGED <<conf, daemon, client, conn, pin, procs>>

SpliceEof ==
    /\ Container /\ Serving /\ up = << >> /\ upShut /\ ~pinShut
    /\ pinShut' = TRUE
    /\ KillSession
    /\ UNCHANGED <<conf, daemon, client, conn, pin>>

\* The endpoint is gone: postExit clears the leaf and the connection is closed.
ConnectionClosed ==
    /\ ep.pc = "dead"
    /\ ep' = [ep EXCEPT !.pc = "closed"]
    /\ IF InLeaf
         THEN child' = KillGroup(child) /\ job' = DeadJob(job)
         ELSE UNCHANGED <<child, job>>
    /\ downShut' = IF downShut = "open" THEN "vshd" ELSE downShut
    /\ UNCHANGED <<conf, daemon, client, up, upShut, down, pin, pinShut>>

(***************************************************************************)
(* The endpoint, vshdsession.Serve: servePTY takes the first frame before  *)
(* it starts the command, servePipe starts at once.                        *)
(***************************************************************************)
InQ == IF Container THEN pin ELSE up
InShut == IF Container THEN pinShut ELSE upShut
TakeIn == IF Container THEN pin' = Tail(pin) /\ UNCHANGED up
                       ELSE up' = Tail(up) /\ UNCHANGED pin
Data(frame) == IF frame = "data" THEN 1 ELSE 0

\* A wrapper that fails on the way into the container, or finds no such command,
\* exits without a frame.
StartChild(input) ==
    \/ Container /\ ep' = [ep EXCEPT !.pc = "dead"] /\ UNCHANGED <<child, down>>
    \/ /\ child' = [child EXCEPT !.st = "running"]
       /\ ep' = [ep EXCEPT !.pc = "serve", !.stdin = input]
       /\ UNCHANGED down
    \/ /\ ep' = [ep EXCEPT !.pc = "dead"]
       /\ Write("one")
       /\ UNCHANGED child

ServePTY ==
    /\ ep.pc = "start" /\ conf.pty
    /\ IF InQ # << >> THEN TakeIn /\ StartChild(Data(Head(InQ)))
       ELSE InShut /\ StartChild(0) /\ UNCHANGED <<up, pin>>
    /\ UNCHANGED <<conf, daemon, client, upShut, downShut, pinShut, job>>

ServePipe ==
    /\ ep.pc = "start" /\ ~conf.pty
    /\ StartChild(0)
    /\ UNCHANGED <<conf, daemon, client, up, upShut, downShut, pin, pinShut, job>>

Reading == ep.pc \in {"serve", "hup", "wait"} /\ ep.reader = "reading"

\* One frame for the command.  Input waits for room; on pipes the end marker
\* closes the command's input and ends the reader, as does a command that has
\* closed its input itself.
ReadFrame ==
    /\ Reading /\ InQ # << >> /\ TakeIn
    /\ LET f == Head(InQ)
       IN  \/ /\ f = "data" => ep.stdin < PipeRoom
              /\ ep' = [ep EXCEPT !.stdin = @ + Data(f),
                                  !.reader = IF f = "eof" /\ ~conf.pty THEN "done" ELSE @]
           \/ /\ f = "data" /\ ~conf.pty
              /\ ep' = [ep EXCEPT !.reader = "done"]
    /\ UNCHANGED <<conf, daemon, client, upShut, down, downShut, pinShut, child, job>>

\* The stream ends.  On pipes the group is hung up, and killed after a grace
\* period; on a pty the reader just returns.
ReadEnds ==
    /\ Reading /\ InQ = << >> /\ InShut
    /\ ep' = [ep EXCEPT !.reader = "done", !.grace = ~conf.pty]
    /\ IF conf.pty THEN UNCHANGED child ELSE Hangup
    /\ UNCHANGED <<conf, daemon, client, conn, pin, pinShut, job>>

KillChildOnDisconnect ==
    /\ ep.grace /\ (Container => Serving)
    /\ ep' = [ep EXCEPT !.grace = FALSE]
    /\ child' = KillGroup(child) /\ job' = DeadJob(job)
    /\ UNCHANGED <<conf, daemon, client, conn, pin, pinShut>>

\* A block of output becomes a frame.  When the connection is gone the block is
\* lost: in a container, in the pipe that vshd does not empty any more; otherwise
\* with an error, which a pty session takes for its end.
FrameOutput ==
    /\ ep.pc = "serve" /\ child.buf > 0
    /\ child' = [child EXCEPT !.buf = @ - 1]
    /\ Write("out")
    /\ ep' = [ep EXCEPT !.pc = IF downShut # "open" /\ conf.pty /\ ~Container
                                  THEN "hup" ELSE @]
    /\ UNCHANGED <<conf, daemon, client, up, upShut, downShut, pin, pinShut, job>>

\* The pty hangs up when the command, its session leader, exits, or when nobody has
\* it open any more; what was written is read first.
PtyUndrained == TRUE
PtyDrained == child.buf = 0
TtyClosed == ~child.tty /\ job # "holding"

PtyDone ==
    /\ ep.pc = "serve" /\ conf.pty /\ PtyDrained
    /\ child.st = "exited" \/ (child.st = "running" /\ TtyClosed)
    /\ ep' = [ep EXCEPT !.pc = "hup"]
    /\ UNCHANGED <<conf, daemon, client, conn, pin, pinShut, child, job>>

\* SIGHUP to the group, then the exit code, or SIGKILL after two seconds.
PtyHangup ==
    /\ ep.pc = "hup" /\ Hangup
    /\ ep' = [ep EXCEPT !.pc = "wait"]
    /\ UNCHANGED <<conf, daemon, client, conn, pin, pinShut, job>>

PtyKill ==
    /\ ep.pc = "wait" /\ child.st = "running"
    /\ child' = KillGroup(child) /\ job' = DeadJob(job)
    /\ UNCHANGED <<conf, daemon, client, conn, pin, pinShut, ep>>

PtyExit == ep.pc = "wait" /\ child.st = "exited" /\ ep' = [ep EXCEPT !.pc = "exit"]
           /\ UNCHANGED <<conf, daemon, client, conn, pin, pinShut, child, job>>

\* On pipes, Wait also waits until nobody holds the command's output; then the
\* rest of the group is killed, before the exit code is reported.
OutputClosed == child.buf = 0 /\ job # "holding"

PipeExitOnly ==
    /\ ep.pc = "serve" /\ ~conf.pty /\ child.st = "exited" /\ OutputClosed
    /\ ep' = [ep EXCEPT !.pc = "exit"]
    /\ UNCHANGED <<conf, daemon, client, conn, pin, pinShut, child, job>>

PipeExit ==
    /\ ep.pc = "serve" /\ ~conf.pty /\ child.st = "exited" /\ OutputClosed
    /\ ep' = [ep EXCEPT !.pc = "exit"]
    /\ job' = DeadJob(job)
    /\ UNCHANGED <<conf, daemon, client, conn, pin, pinShut, child>>

SendExit ==
    /\ ep.pc = "exit"
    /\ Write(child.code)
    /\ ep' = [ep EXCEPT !.pc = "dead"]
    /\ UNCHANGED <<conf, daemon, client, up, upShut, downShut, pin, pinShut, child, job>>

(***************************************************************************)
(* The command and its job, and the loss of the endpoint with them: the    *)
(* leaf's OOM group kill, or the VM that held them.                        *)
(***************************************************************************)
Env(c, e, j) == child' = c /\ ep' = e /\ job' = j
                /\ UNCHANGED <<conf, daemon, client, conn, pin, pinShut>>

ChildReads == child.st = "running" /\ ep.stdin > 0
              /\ Env(child, [ep EXCEPT !.stdin = @ - 1], job)
ChildWrites == child.st = "running" /\ child.tty /\ child.wrote < MaxOutput
               /\ Env([child EXCEPT !.wrote = @ + 1, !.buf = @ + 1], ep, job)
ChildForks == child.st = "running" /\ job = "none"
              /\ \E j \in {"running", "holding"} : (j = "holding" => child.tty) /\ Env(child, ep, j)
ChildLeavesTty == child.st = "running" /\ conf.pty /\ child.tty
                  /\ Env([child EXCEPT !.tty = FALSE], ep, job)
ChildExits == child.st = "running"
              /\ \E c \in {"zero", "two"} : Env([child EXCEPT !.st = "exited", !.code = c], ep, job)
JobExits == job \in {"running", "holding"} /\ Env(child, ep, "dead")
EndpointLost ==
    /\ Serving /\ (InLeaf \/ conf.via = "vm")
    /\ Env(KillGroup(child), [ep EXCEPT !.pc = "dead"], DeadJob(job))

Daemon == RunContainerSession \/ HandleEnter \/ RunInFrame \/ TryConnectToVshd \/ ConnectToVshd
          \/ SendStdin \/ RunVsockSession \/ SendEof \/ ReceiveFrame \/ GuestDone \/ ClientClosed
          \/ EnterRelayEnds \/ CollectFrames
Vshd == HandleConnection \/ SpliceIn \/ SpliceEof \/ ConnectionClosed
Endpoint == ServePTY \/ ServePipe \/ ReadFrame \/ ReadEnds \/ KillChildOnDisconnect
            \/ FrameOutput \/ PtyDone \/ PtyHangup \/ PtyKill \/ PtyExit \/ PipeExit \/ SendExit
Environment == ClientGone \/ ChildReads \/ ChildWrites \/ ChildForks \/ ChildLeavesTty
               \/ ChildExits \/ JobExits \/ EndpointLost

SessionNext == Daemon \/ Vshd \/ Endpoint \/ Environment

SessionSpec == SessionInit /\ [][SessionNext]_sessionVars

(***************************************************************************)
(* Every goroutine that can run does, and the two-second timers fire.      *)
(* Nothing is assumed of the client, the command or its job.               *)
(***************************************************************************)
Fairness ==
    /\ WF_sessionVars(HandleConnection) /\ WF_sessionVars(ClientClosed \/ EnterRelayEnds)
    /\ WF_sessionVars(SpliceIn) /\ WF_sessionVars(SpliceEof) /\ WF_sessionVars(ConnectionClosed)
    /\ WF_sessionVars(ServePTY \/ ServePipe) /\ WF_sessionVars(ReadFrame)
    /\ WF_sessionVars(ReadEnds) /\ WF_sessionVars(KillChildOnDisconnect)
    /\ WF_sessionVars(FrameOutput) /\ WF_sessionVars(PtyDone) /\ WF_sessionVars(PtyHangup)
    /\ WF_sessionVars(PtyKill) /\ WF_sessionVars(PtyExit) /\ WF_sessionVars(PipeExit)
    /\ WF_sessionVars(SendExit)

SessionFairSpec == SessionSpec /\ Fairness
-----------------------------------------------------------------------------
\* What the exit frame means to the proxy (proxyVshdSessionGeneric, servePTY and
\* servePipe): once it has been received, everything the command wrote has been
\* delivered before it, and the code is the command's own.
ExitFaithful ==
    daemon.exitSeen /\ child.st # "none" => daemon.got = child.wrote /\ daemon.code = child.code

\* servePipe, "Reap the remainder before reporting the session closed": when the
\* endpoint reports an exit, nothing is left of the command's process group.
PipeGroupReaped == ep.pc = "exit" /\ ~conf.pty => job \notin {"running", "holding"}

Gone == child.st # "running" /\ job \notin {"running", "holding"}

\* Input the command does not read fills every pipe on the way, and the copy
\* that would notice the disconnect is stuck behind it.
InputStuck == up # << >> /\ Len(pin) = PipeRoom

\* A client that goes away ends its session if that is in its leaf
\* (spliceContainerSession's killSession, handleConnection's postExit): from some
\* point on nothing of it runs, unless unread input keeps vshd from seeing that the
\* client is gone.
LeafReaped == conf.mode = "leaf" /\ client = "gone" ~> ([]Gone \/ []InputStuck \/ ep.escaped)

\* What servePipe's comment says of a client that is gone, that the command would
\* "otherwise keep running forever, orphaned after its peer is gone": in its leaf
\* too, nothing of a session on pipes outlives its client.  The code does not keep it:
\* unread input holds up the copy that would see the client go.
UnreadReaped ==
    conf.mode = "leaf" /\ ~conf.pty /\ client = "gone" ~> ([]Gone \/ ep.escaped)

\* What spliceContainerSession's comment says of a session without a leaf, that
\* "killing the group also closes the inner protocol endpoint and triggers its own
\* reap": nothing of it outlives its client.  The code does not keep it: the endpoint
\* is killed with the group and the command has a session of its own.
GroupReaped == conf.mode = "group" /\ client = "gone" ~> ([]Gone \/ []InputStuck)
-----------------------------------------------------------------------------
(***************************************************************************)
(* The invariant behind the two safety properties.  An exit frame is the   *)
(* last frame of its connection, and as long as the proxy reads, what it   *)
(* has received, what is on the connection and what is still to be framed  *)
(* add up to what the command wrote.                                       *)
(***************************************************************************)
Codes == {"zero", "one", "two", "signal"}

DaemonType == [pc : {"dial", "proxy", "returned", "failed"}, tries : Nat, sent : Nat,
               code : Codes, exitSeen : BOOLEAN, got : Nat]
EpType == [pc : {"none", "start", "serve", "hup", "wait", "exit", "dead", "closed"},
           reader : {"reading", "done"}, stdin : Nat, grace : BOOLEAN, escaped : BOOLEAN]
ChildType == [st : {"none", "running", "exited"}, code : Codes \cup {"none"},
              wrote : Nat, buf : Nat, tty : BOOLEAN]
InFrames == Seq({"winsize", "data", "eof"})
OutFrames == Seq({"out"} \cup Codes)

SessionTypeOK ==
    /\ conf \in [via : Vias, mode : Modes, pty : BOOLEAN]
    /\ daemon \in DaemonType /\ client \in {"on", "gone"}
    /\ up \in InFrames /\ upShut \in BOOLEAN /\ pin \in InFrames /\ pinShut \in BOOLEAN
    /\ down \in OutFrames /\ downShut \in {"open", "daemon", "vshd"}
    /\ ep \in EpType /\ child \in ChildType /\ job \in {"none", "running", "holding", "dead"}

Over == ep.pc \in {"dead", "closed"}

\* The last frame on the connection is an exit frame.
ExitOnWire == down # << >> /\ down[Len(down)] # "out"
Outs == IF ExitOnWire THEN Len(down) - 1 ELSE Len(down)

\* Before the daemon is connected there is nothing at the other end; who closed
\* the connection has left it.
ConnInv ==
    /\ daemon.pc \in {"dial", "failed"} =>
          ep.pc = "none" /\ down = << >> /\ daemon.got = 0 /\ ~daemon.exitSeen
    /\ downShut = "daemon" => daemon.pc = "returned"
    /\ downShut = "vshd" => ep.pc = "closed"

\* Where the endpoint is in the life of its command.  It goes past "serve" with
\* all the output of a command that has exited or cannot write any more, unless
\* nobody is there to tell.
EndpointInv ==
    /\ ep.pc \in {"none", "start"} => child.st = "none"
    /\ child.st = "none" => child.wrote = 0 /\ child.buf = 0
    /\ child.st = "exited" => child.code \in Codes
    /\ ep.pc \in {"hup", "wait"} => conf.pty
    /\ ep.pc = "exit" => child.st = "exited"
    /\ ep.pc \in {"hup", "wait", "exit"} /\ downShut = "open"
          => child.buf = 0 /\ (child.st = "exited" \/ ~child.tty)

\* An exit frame is the last one, and comes from an endpoint that is done: with
\* the code of its command, if it started one, and after all its output.
ExitInv ==
    /\ \A i \in 1 .. Len(down) : down[i] # "out" => i = Len(down)
    /\ ExitOnWire => Over
    /\ ExitOnWire /\ child.st # "none" =>
          child.st = "exited" /\ child.buf = 0 /\ down[Len(down)] = child.code

\* Nothing of the output is lost while the proxy reads, and an exit frame it has
\* read was the last.
OutputInv ==
    /\ daemon.pc = "proxy" /\ ~daemon.exitSeen => daemon.got + Outs + child.buf = child.wrote
    /\ daemon.exitSeen => Over /\ child.st # "running" /\ down = << >>

SessionInv ==
    /\ SessionTypeOK /\ ConnInv /\ EndpointInv /\ ExitInv /\ OutputInv
    /\ ExitFaithful /\ PipeGroupReaped
=============================================================================
