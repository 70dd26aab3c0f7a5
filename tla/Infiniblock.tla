---------------------------- MODULE Infiniblock ----------------------------
(***************************************************************************)
(* The NBD server of infiniblock/server.go over a sparse file, as run by   *)
(* cmd/infiniblockd.                                                       *)
(*                                                                         *)
(* Each connection has a handler goroutine that negotiates options and     *)
(* then serves requests one after the other; handlers share the backend.   *)
(* The accept loop, Close (called by the signal handler) and main run      *)
(* beside them. A request concerns one block; longer ranges differ only in *)
(* the bounds validateRequest checks. A block's content is its version:    *)
(* every write or trim makes a new one. The backend is a file: writes go   *)
(* to the page cache, which the kernel writes back when it likes.          *)
(***************************************************************************)
EXTENDS Naturals, Sequences

CONSTANTS
    Conns,      \* client connections
    Legacy,     \* those of clients that do not speak fixed newstyle
    Blocks,     \* blocks of the export
    NoReq,      \* a handler without a request in hand
    MaxSent,    \* bound: requests and extra options clients send in a behaviour
    MaxRuns     \* bound: times the server is started

ASSUME BoundsAssumption == MaxSent \in Nat /\ MaxRuns \in Nat
ASSUME ExportAssumption == Blocks # {}

VARIABLES
    cache,     \* block -> version in the page cache (what ReadAt returns)
    disk,      \* block -> version on stable storage
    ver,       \* versions made so far
    net,       \* connection -> client's end: messages under way, phase
    handler,   \* connection -> handler goroutine: program counter, request
    conns,     \* s.conns
    shutdown,  \* s.shutdown
    listener,  \* the listening socket and s.listener
    serve,     \* Serve: the accept loop
    closer,    \* Close
    runs,      \* times the server was started
    sent,      \* messages clients have sent
    acked,     \* block -> newest version whose write was acknowledged
    promised   \* block -> newest version vouched for by an answered FLUSH or FUA

vars == <<cache, disk, ver, net, handler, conns, shutdown, listener, serve, closer, runs,
          sent, acked, promised>>

backendVars == <<cache, disk, ver, acked, promised>>
serverVars == <<conns, shutdown, listener, serve, closer, runs>>

\* "enter" is GO and EXPORT_NAME, "query" is INFO and LIST.
Options == {"enter", "query", "abort", "unknown", "toobig"}
Commands == {"read", "write", "trim", "flush", "disc", "invalid", "unknown"}

AnyBlock == CHOOSE b \in Blocks : TRUE

\* A message on the wire. base: the versions acknowledged when it was sent.
Opt(o) == [type |-> "opt", opt |-> o, block |-> AnyBlock, fua |-> FALSE,
           base |-> [b \in Blocks |-> 0]]

Request(t, b, fua) == [type |-> t, opt |-> "enter", block |-> b, fua |-> fua, base |-> acked]

NoClient == [pc |-> "none", wire |-> << >>, cut |-> FALSE]

NoHandler == [pc |-> "none", req |-> NoReq, got |-> 0, ok |-> TRUE]

NoListener == [open |-> FALSE, set |-> FALSE]

Starting == [pc |-> "start", conn |-> NoReq]

NotClosing == [pc |-> "none", todo |-> {}]

Init ==
    /\ cache = [b \in Blocks |-> 0]
    /\ disk = [b \in Blocks |-> 0]
    /\ ver = 0
    /\ acked = [b \in Blocks |-> 0]
    /\ promised = [b \in Blocks |-> 0]
    /\ runs = 1 /\ sent = 0
    /\ net = [c \in Conns |-> NoClient]
    /\ handler = [c \in Conns |-> NoHandler]
    /\ conns = {}
    /\ shutdown = FALSE
    /\ listener = NoListener
    /\ serve = Starting
    /\ closer = NotClosing

-----------------------------------------------------------------------------
(* Clients.                                                                *)

Connect(c) ==
    /\ net[c].pc = "none" /\ listener.open
    /\ net' = [net EXCEPT ![c] = [NoClient EXCEPT !.pc = "options"]]
    /\ UNCHANGED <<backendVars, sent, handler, serverVars>>

\* A client negotiates one option at a time. GO or EXPORT_NAME ends the
\* negotiation: it waits for the answer and then sends requests.
SendOption(c, o) ==
    /\ net[c].pc = "options" /\ net[c].wire = << >>
    /\ net' = [net EXCEPT ![c].wire = <<Opt(o)>>]
    /\ sent < MaxSent
    /\ sent' = sent + 1
    /\ UNCHANGED <<backendVars, handler, serverVars>>

SendEnter(c) ==
    /\ net[c].pc = "options" /\ net[c].wire = << >>
    /\ net' = [net EXCEPT ![c].wire = <<Opt("enter")>>, ![c].pc = "wait"]
    /\ UNCHANGED <<backendVars, sent, handler, serverVars>>

\* Requests are sent without waiting for the answers to earlier ones.
SendRequest(c, t, b, fua) ==
    /\ net[c].pc = "ready"
    /\ fua => t = "write"
    /\ t \notin {"read", "write", "trim"} => b = AnyBlock
    /\ net' = [net EXCEPT ![c].wire = Append(@, Request(t, b, fua))]
    /\ sent < MaxSent
    /\ sent' = sent + 1
    /\ UNCHANGED <<backendVars, handler, serverVars>>

\* The client goes away; what it sent can still be read.
Drop(c) ==
    /\ net[c].pc \in {"options", "wait", "ready"}
    /\ net' = [net EXCEPT ![c].pc = "gone"]
    /\ UNCHANGED <<backendVars, sent, handler, serverVars>>

-----------------------------------------------------------------------------
(* ListenAndServe and Serve.                                               *)

Listen ==
    /\ serve.pc = "start"
    /\ listener' = [listener EXCEPT !.open = TRUE]
    /\ serve' = [serve EXCEPT !.pc = "listen"]
    /\ UNCHANGED <<backendVars, net, sent, handler, conns, shutdown, closer, runs>>

SetListener ==
    /\ serve.pc = "listen"
    /\ listener' = [listener EXCEPT !.set = TRUE]
    /\ serve' = [serve EXCEPT !.pc = "accept"]
    /\ UNCHANGED <<backendVars, net, sent, handler, conns, shutdown, closer, runs>>

Accept(c) ==
    /\ serve.pc = "accept" /\ listener.open
    /\ net[c].pc # "none" /\ handler[c].pc = "none" /\ ~net[c].cut
    /\ serve' = [pc |-> "accepted", conn |-> c]
    /\ UNCHANGED <<backendVars, net, sent, handler, conns, shutdown, listener, closer, runs>>

\* Mutant: the connection is registered without another look at shutdown.
RegisterAlways ==
    /\ serve.pc = "accepted"
    /\ serve' = [pc |-> "accept", conn |-> NoReq]
    /\ conns' = conns \cup {serve.conn}
    /\ handler' = [handler EXCEPT ![serve.conn] = [NoHandler EXCEPT !.pc = "haggle"]]
    /\ UNCHANGED net
    /\ UNCHANGED <<backendVars, sent, shutdown, listener, closer, runs>>

\* Under s.mu: refuse the connection after shutdown, or register and serve it.
Register ==
    /\ serve.pc = "accepted"
    /\ serve' = [pc |-> "accept", conn |-> NoReq]
    /\ IF shutdown
       THEN /\ net' = [net EXCEPT ![serve.conn].cut = TRUE]
            /\ UNCHANGED <<conns, handler>>
       ELSE /\ conns' = conns \cup {serve.conn}
            /\ handler' = [handler EXCEPT ![serve.conn] = [NoHandler EXCEPT !.pc = "haggle"]]
            /\ UNCHANGED net
    /\ UNCHANGED <<backendVars, sent, shutdown, listener, closer, runs>>

\* Accept fails because the listener is closed; main returns after Serve.
ServeReturns ==
    /\ serve.pc = "accept" /\ ~listener.open /\ shutdown
    /\ serve' = [serve EXCEPT !.pc = "returned"]
    /\ UNCHANGED <<backendVars, net, sent, handler, conns, shutdown, listener, closer, runs>>

-----------------------------------------------------------------------------
(* Close.                                                                  *)

\* A signal arrives: set shutdown and copy s.conns under s.mu.
CloseBegin ==
    /\ closer.pc = "none"
    /\ shutdown' = TRUE
    /\ closer' = [pc |-> "listener", todo |-> conns]
    /\ UNCHANGED <<backendVars, net, sent, handler, conns, listener, serve, runs>>

\* A listener that ListenAndServe has not stored yet is not closed.
CloseListener ==
    /\ closer.pc = "listener"
    /\ listener' = IF listener.set THEN [listener EXCEPT !.open = FALSE] ELSE listener
    /\ closer' = [closer EXCEPT !.pc = "conns"]
    /\ UNCHANGED <<backendVars, net, sent, handler, conns, shutdown, serve, runs>>

CloseConns ==
    /\ closer.pc = "conns"
    /\ net' = [c \in Conns |-> IF c \in closer.todo THEN [net[c] EXCEPT !.cut = TRUE] ELSE net[c]]
    /\ closer' = [closer EXCEPT !.pc = "wait"]
    /\ UNCHANGED <<backendVars, sent, handler, conns, shutdown, listener, serve, runs>>

\* s.wg.Wait(): one count for each handler.
CloseReturns ==
    /\ closer.pc = "wait"
    /\ \A c \in Conns : handler[c].pc = "none"
    /\ closer' = [closer EXCEPT !.pc = "returned"]
    /\ UNCHANGED <<backendVars, net, sent, handler, conns, shutdown, listener, serve, runs>>

-----------------------------------------------------------------------------
(* handleConn for connection c.                                            *)

HasMessage(c, pc) == handler[c].pc = pc /\ ~net[c].cut /\ net[c].wire # << >>

\* The answer to GO or EXPORT_NAME lets the client send requests.
Answered(n) == [n EXCEPT !.pc = IF @ = "wait" THEN "ready" ELSE @]

\* One round of the option loop. An option that is too big is refused without
\* reading its payload, which the next round takes for an option.
Haggle(c) ==
    /\ HasMessage(c, "haggle")
    /\ LET m == Head(net[c].wire)
           rest == Tail(net[c].wire)
           enters == m.opt = "enter"
           ends == \/ m.type # "opt" \/ m.opt = "abort"
                   \/ m.opt \in {"unknown", "toobig"} /\ c \in Legacy
       IN  /\ handler' = [handler EXCEPT ![c].pc =
                             IF ends THEN "close" ELSE IF enters THEN "serve" ELSE "haggle"]
           /\ net' = [net EXCEPT ![c] =
                 IF ends THEN [@ EXCEPT !.wire = rest]
                 ELSE IF m.opt = "toobig" THEN [@ EXCEPT !.wire = <<[m EXCEPT !.type = "payload"]>> \o rest]
                 ELSE IF enters THEN [Answered(@) EXCEPT !.wire = rest]
                 ELSE [@ EXCEPT !.wire = rest]]
    /\ UNCHANGED <<backendVars, sent, serverVars>>

\* transmission: read a request. An invalid one is answered and ends the
\* connection (the data of an invalid write is never read), as does DISC.
ReadRequest(c) ==
    /\ HasMessage(c, "serve")
    /\ LET m == Head(net[c].wire)
       IN  handler' = [handler EXCEPT ![c] =
              IF m.type \in {"invalid", "disc"} THEN [@ EXCEPT !.pc = "close"]
              ELSE IF m.type = "unknown" THEN @
              ELSE [@ EXCEPT !.pc = "io", !.req = m, !.ok = TRUE]]
    /\ net' = [net EXCEPT ![c].wire = Tail(@)]
    /\ UNCHANGED <<backendVars, sent, serverVars>>

\* The connection is closed, or the client is gone and nothing is left to read.
ReadFails(c) ==
    /\ handler[c].pc \in {"haggle", "serve"}
    /\ net[c].cut \/ (net[c].pc = "gone" /\ net[c].wire = << >>)
    /\ handler' = [handler EXCEPT ![c].pc = "close"]
    /\ UNCHANGED <<backendVars, net, sent, serverVars>>

InHand(c, t) == handler[c].pc = "io" /\ handler[c].req.type = t

\* Mutant: the FUA flag is ignored.
HandleWriteUnsynced(c, ok) ==
    /\ InHand(c, "write") \/ InHand(c, "trim")
    /\ ver' = ver + 1
    /\ cache' = [cache EXCEPT ![handler[c].req.block] = ver + 1]
    /\ handler' = [handler EXCEPT ![c] = [@ EXCEPT !.got = ver + 1, !.ok = ok, !.pc = "reply"]]
    /\ UNCHANGED <<disk, acked, promised, net, sent, serverVars>>

\* WriteAt and Trim: a new version of the block in the page cache, which a
\* failed call may leave behind too. A FUA write goes on to Sync.
HandleWrite(c, ok) ==
    /\ InHand(c, "write") \/ InHand(c, "trim")
    /\ ver' = ver + 1
    /\ cache' = [cache EXCEPT ![handler[c].req.block] = ver + 1]
    /\ handler' = [handler EXCEPT ![c] = [@ EXCEPT !.got = ver + 1, !.ok = ok,
                                      !.pc = IF ok /\ handler[c].req.fua THEN "sync" ELSE "reply"]]
    /\ UNCHANGED <<disk, acked, promised, net, sent, serverVars>>

HandleRead(c) ==
    /\ InHand(c, "read")
    /\ handler' = [handler EXCEPT ![c] = [@ EXCEPT !.pc = "reply", !.got = cache[handler[c].req.block]]]
    /\ UNCHANGED <<backendVars, net, sent, serverVars>>

HandleFlush(c) ==
    /\ InHand(c, "flush")
    /\ handler' = [handler EXCEPT ![c].pc = "sync"]
    /\ UNCHANGED <<backendVars, net, sent, serverVars>>

\* Mutant: Sync is not called.
SyncNothing(c) ==
    /\ handler[c].pc = "sync"
    /\ handler' = [handler EXCEPT ![c].pc = "reply"]
    /\ UNCHANGED <<backendVars, net, sent, serverVars>>

\* backend.Sync: the cached version of every block reaches the disk.
Sync(c) ==
    /\ handler[c].pc = "sync"
    /\ disk' = cache
    /\ handler' = [handler EXCEPT ![c].pc = "reply"]
    /\ UNCHANGED <<cache, ver, acked, promised, net, sent, serverVars>>

\* The backend reports an error, which is answered with EIO.
IoFails(c) ==
    /\ handler[c].pc \in {"io", "sync"}
    /\ handler' = [handler EXCEPT ![c] = [@ EXCEPT !.pc = "reply", !.ok = FALSE]]
    /\ UNCHANGED <<backendVars, net, sent, serverVars>>

Newer(a, b) == IF a >= b THEN a ELSE b
Older(a, b) == IF a >= b THEN b ELSE a

\* What the client of c learns from a good answer to its request.
AckedBy(c) ==
    LET r == handler[c].req
    IN  [b \in Blocks |-> IF handler[c].ok /\ r.type \in {"write", "trim"} /\ b = r.block
                          THEN Newer(acked[b], handler[c].got) ELSE acked[b]]

PromisedBy(c) ==
    LET r == handler[c].req
    IN  [b \in Blocks |->
            IF handler[c].ok /\ r.type = "flush" THEN Newer(promised[b], r.base[b])
            ELSE IF handler[c].ok /\ r.fua /\ b = r.block THEN Newer(promised[b], handler[c].got)
            ELSE promised[b]]

\* Mutant: the answer to a write is sent before the write is performed.
ReplyEarly(c) ==
    /\ handler[c].pc \in {"io", "reply"}
    /\ ~net[c].cut
    /\ acked' = IF InHand(c, "write")
                THEN [acked EXCEPT ![handler[c].req.block] = Newer(@, ver + 1)] ELSE AckedBy(c)
    /\ promised' = promised
    /\ handler' = [handler EXCEPT ![c] = [NoHandler EXCEPT !.pc = "serve"]]
    /\ UNCHANGED <<cache, disk, ver, net, sent, serverVars>>

Reply(c) ==
    /\ handler[c].pc = "reply" /\ ~net[c].cut
    /\ acked' = AckedBy(c)
    /\ promised' = PromisedBy(c)
    /\ handler' = [handler EXCEPT ![c] = [NoHandler EXCEPT !.pc = "serve"]]
    /\ UNCHANGED <<cache, disk, ver, net, sent, serverVars>>

ReplyFails(c) ==
    /\ handler[c].pc = "reply" /\ (net[c].cut \/ net[c].pc = "gone")
    /\ handler' = [handler EXCEPT ![c] = [NoHandler EXCEPT !.pc = "close"]]
    /\ UNCHANGED <<backendVars, net, sent, serverVars>>

\* The deferred clean-up: close, deregister, wg.Done.
Finish(c) ==
    /\ handler[c].pc = "close"
    /\ net' = [net EXCEPT ![c].cut = TRUE]
    /\ conns' = conns \ {c}
    /\ handler' = [handler EXCEPT ![c] = NoHandler]
    /\ UNCHANGED <<backendVars, sent, shutdown, listener, serve, closer, runs>>

-----------------------------------------------------------------------------
(* The kernel and the machine.                                             *)

Writeback(b) ==
    /\ disk[b] # cache[b]
    /\ disk' = [disk EXCEPT ![b] = cache[b]]
    /\ UNCHANGED <<cache, ver, acked, promised, net, sent, handler, serverVars>>

Fresh ==
    /\ runs < MaxRuns
    /\ runs' = runs + 1
    /\ net' = [c \in Conns |-> NoClient]
    /\ handler' = [c \in Conns |-> NoHandler]
    /\ conns' = {}
    /\ shutdown' = FALSE
    /\ listener' = NoListener
    /\ serve' = Starting
    /\ closer' = NotClosing
    /\ UNCHANGED sent

\* The process ends, after main returned or because it is killed, and is
\* started again: the page cache stays.
Restart ==
    /\ Fresh
    /\ UNCHANGED backendVars

\* The machine loses power: blocks are what the disk has, and acknowledged
\* writes that did not reach it are lost.
PowerLoss ==
    /\ Fresh
    /\ cache' = disk
    /\ acked' = [b \in Blocks |-> Older(acked[b], disk[b])]
    /\ UNCHANGED <<disk, ver, promised>>

-----------------------------------------------------------------------------
HandlerStep(c) ==
    \/ Haggle(c) \/ ReadRequest(c) \/ ReadFails(c) \/ (\E ok \in BOOLEAN : HandleWrite(c, ok)) \/ HandleRead(c)
    \/ HandleFlush(c) \/ Sync(c) \/ IoFails(c) \/ Reply(c) \/ ReplyFails(c) \/ Finish(c)

ServerStep ==
    \/ Listen \/ SetListener \/ Register \/ ServeReturns
    \/ CloseListener \/ CloseConns \/ CloseReturns

Next ==
    \/ \E c \in Conns : Connect(c) \/ SendEnter(c)
    \/ \E c \in Conns, o \in Options \ {"enter"} : SendOption(c, o)
    \/ \E c \in Conns, t \in Commands, b \in Blocks, fua \in BOOLEAN : SendRequest(c, t, b, fua)
    \/ \E c \in Conns : Drop(c) \/ Accept(c) \/ HandlerStep(c)
    \/ ServerStep \/ CloseBegin
    \/ \E b \in Blocks : Writeback(b)
    \/ Restart \/ PowerLoss

Spec == Init /\ [][Next]_vars

-----------------------------------------------------------------------------
Messages == [type : {"opt", "payload"} \cup Commands,
             opt : Options, block : Blocks, fua : BOOLEAN, base : [Blocks -> Nat]]

NetType == [pc : {"none", "options", "wait", "ready", "gone"}, wire : Seq(Messages), cut : BOOLEAN]

\* A handler has a request in hand while it is in one of these states.
Busy == {"io", "sync", "reply"}

HandlerType == [pc : {"none", "haggle", "serve", "close"} \cup Busy, req : Messages \cup {NoReq},
                got : Nat, ok : BOOLEAN]

\* Every variable has the type of the Go field, the file or the socket it
\* stands for.
TypeOK ==
    /\ cache \in [Blocks -> Nat] /\ disk \in [Blocks -> Nat] /\ ver \in Nat
    /\ acked \in [Blocks -> Nat] /\ promised \in [Blocks -> Nat]
    /\ net \in [Conns -> NetType]
    /\ handler \in [Conns -> HandlerType]
    /\ conns \subseteq Conns
    /\ shutdown \in BOOLEAN
    /\ listener \in [open : BOOLEAN, set : BOOLEAN]
    /\ serve \in [pc : {"start", "listen", "accept", "accepted", "returned"}, conn : Conns \cup {NoReq}]
    /\ serve.pc = "accepted" => serve.conn \in Conns
    /\ closer \in [pc : {"none", "listener", "conns", "wait", "returned"}, todo : SUBSET Conns]
    /\ runs \in Nat /\ sent \in Nat

\* Versions vouched for are on the disk, the disk is not ahead of the cache,
\* and clients know of no version newer than the cache's.
VersionOrder ==
    \A b \in Blocks :
        /\ promised[b] <= disk[b] /\ disk[b] <= cache[b] /\ cache[b] <= ver
        /\ acked[b] <= cache[b]

\* The same, with cache ca, for what a message m says its sender knew; only
\* writes are FUA.
MessageOK(m, ca) ==
    /\ \A b \in Blocks : m.base[b] <= ca[b]
    /\ m.fua => m.type = "write"

WireOK == \A c \in Conns : \A i \in 1..Len(net[c].wire) : MessageOK(net[c].wire[i], cache)

\* What handler h has done when it is about to answer, with cache ca and disk
\* di: a write is in the cache, a FUA write and whatever a FLUSH covers are on
\* the disk, and a read has seen what its client knew of.
ServedOK(h, ca, di) ==
    h.pc \in Busy =>
        /\ h.req \in Messages /\ MessageOK(h.req, ca)
        /\ h.pc \in {"sync", "reply"} /\ h.ok /\ h.req.type \in {"write", "trim"} =>
               h.got <= ca[h.req.block]
        /\ h.pc = "reply" /\ h.ok /\ h.req.fua => h.got <= di[h.req.block]
        /\ h.pc = "reply" /\ h.ok /\ h.req.type = "flush" =>
               \A b \in Blocks : h.req.base[b] <= di[b]
        /\ h.pc = "sync" => h.req.type \in {"write", "flush"}
        /\ h.pc = "reply" /\ h.ok /\ h.req.type = "read" => h.got >= h.req.base[h.req.block]

HandlersOK == \A c \in Conns : ServedOK(handler[c], cache, disk)

\* The inductive invariant behind KeepsPromises and ReadsCurrent.
Durable == TypeOK /\ VersionOrder /\ WireOK /\ HandlersOK

\* The export keeps the promise of BlockDevice: a FLUSH that is answered covers
\* every write answered before it was sent, on whatever connection, a FUA write
\* covers itself, and no power loss undoes what is covered.
Disk == INSTANCE BlockDevice WITH cur <- cache, low <- promised
KeepsPromises == Disk!Spec

\* A read returns what was acknowledged before it was sent, to any client, or
\* something newer.
ReadsCurrent ==
    \A c \in Conns :
        handler[c].pc = "reply" /\ handler[c].ok /\ handler[c].req.type = "read" =>
            handler[c].got >= handler[c].req.base[handler[c].req.block]

\* Once Close has returned no handler uses the backend, and none ever will:
\* callers may close it.
QuietAfterClose ==
    closer.pc = "returned" => \A c \in Conns : handler[c].pc = "none"

\* With QuietAfterClose, inductive: Close has set shutdown, which keeps Register
\* from starting handlers.
CloseInv == QuietAfterClose /\ (closer.pc # "none" => shutdown)

=============================================================================
