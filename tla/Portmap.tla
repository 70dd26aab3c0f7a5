------------------------------ MODULE Portmap ------------------------------
(***************************************************************************)
(* The portmapper that lets NFS clients find the daemon's NFS and MOUNT    *)
(* services, and answers lock requests with "granted".  It is reached over *)
(* TCP, one goroutine per connection with a buffer per message, and over   *)
(* UDP, where one loop reads every datagram into the same buffer and a     *)
(* goroutine per datagram answers from it.                                 *)
(*                                                                         *)
(* A message is a record of the fields the code reads.  Its length is      *)
(* "short" (it ends inside the header), "header" (it ends before the       *)
(* arguments) or "full".  Programs and procedures keep their numbers'      *)
(* meaning: procedure 3 is GETPORT (GETADDR from version 3 on) of the      *)
(* portmapper and CANCEL of the lock manager.                              *)
(***************************************************************************)
EXTENDS Naturals, Sequences

CONSTANTS
    Clients,   \* hosts that send requests
    NfsPort,   \* the port of NFS and MOUNT
    Requests,  \* the requests they make, up to the xid and the cookie
    MaxCalls   \* bound: requests sent in a behaviour

VARIABLES
    calls,   \* requests sent so far: the next xid and cookie
    sent,    \* the requests of each client
    net,     \* datagrams on their way; they may be lost or overtake each other
    buf,     \* ServeUDP's buffer
    jobs,    \* the goroutines of handleUDPPacket
    out,     \* the packets sent back over UDP
    conn,    \* records waiting on each client's TCP connection
    tcpOut   \* the replies on each TCP connection

vars == <<calls, sent, net, buf, jobs, out, conn, tcpOut>>

Messages(x) == {[m EXCEPT !.xid = x, !.cookie = x] : m \in Requests}

\* The fields that a message of each length brings with it.
Brings ==
    [short |-> {"xid", "type"},
     header |-> {"xid", "type", "prog", "vers", "proc"},
     full |-> {"xid", "type", "prog", "vers", "proc", "arg", "proto", "cookie"}]

Blank == [xid |-> 0, type |-> "call", prog |-> "other", vers |-> 0, proc |-> 0,
          arg |-> "other", proto |-> "tcp", cookie |-> 0]

Init ==
    /\ calls = 0
    /\ sent = [c \in Clients |-> {}]
    /\ net = {} /\ buf = Blank /\ jobs = {} /\ out = {}
    /\ conn = [c \in Clients |-> << >>]
    /\ tcpOut = [c \in Clients |-> << >>]

(***************************************************************************)
(* The replies.                                                            *)
(***************************************************************************)
Reply(xid, kind, value) == [xid |-> xid, kind |-> kind, value |-> value]

makeNull(xid) == Reply(xid, "success", << >>)
makeReject(xid) == Reply(xid, "denied", << >>)

\* GETPORT: UDP is answered with port 0, except for the lock manager.
makeGetportResponse(m) ==
    Reply(m.xid, "port",
          << CASE m.arg \in {"nfs", "mount"} /\ m.proto # "udp" -> NfsPort
               [] m.arg = "nlm" -> 111
               [] OTHER -> 0 >>)

\* GETADDR: the port as two bytes of a universal address, or no address.
UniversalAddress(port) == <<port \div 256, port % 256>>

makeGetaddrResponse(m) ==
    Reply(m.xid, "address",
          CASE m.arg \in {"nfs", "mount"} /\ m.proto = "tcp" -> UniversalAddress(NfsPort)
            [] m.arg = "nlm" /\ m.proto \in {"tcp", "udp"} -> UniversalAddress(111)
            [] OTHER -> << >>)

makeNLMRes(m) == Reply(m.xid, "granted", <<m.cookie>>)

\* The callback is a call of the _RES procedure, with an xid that is always the
\* same.
callbackXid == 305419896
makeNLMCallback(m) == Reply(callbackXid, "callback", <<m.vers, m.proc + 5, m.cookie>>)

nlmResults == {1, 2, 3, 4, 5, 20, 21, 22}
nlmMessages == 6 .. 10

\* What is sent back for a message whose arguments are in reach or not, over UDP
\* or TCP: a lock message also gets a callback, which only UDP has an address
\* for.  A callback is sent even when no cookie could be extracted.
handleNLM(m, whole, udp) ==
    CASE m.proc \in nlmResults -> {IF whole THEN makeNLMRes(m) ELSE makeNull(m.xid)}
      [] m.proc \in nlmMessages /\ udp ->
            {makeNull(m.xid), makeNLMCallback(IF whole THEN m ELSE [m EXCEPT !.cookie = 0])}
      [] OTHER -> {makeNull(m.xid)}

handlePortmap(m, whole) ==
    CASE m.proc = 0 -> {makeNull(m.xid)}
      [] m.proc = 3 /\ whole ->
            {IF m.vers >= 3 THEN makeGetaddrResponse(m) ELSE makeGetportResponse(m)}
      [] OTHER -> {makeReject(m.xid)}

handleRPCMessage(m, len, udp) ==
    CASE len = "short" \/ m.type # "call" -> {}
      [] m.prog = "nlm" -> handleNLM(m, len = "full", udp)
      [] m.prog = "portmap" -> handlePortmap(m, len = "full")
      [] OTHER -> {makeReject(m.xid)}

(***************************************************************************)
(* Clients.  Every request has an xid and a cookie of its own.             *)
(***************************************************************************)
Call(c, m) ==
    /\ calls < MaxCalls
    /\ calls' = calls + 1
    /\ sent' = [sent EXCEPT ![c] = @ \cup {m}]

SendDatagram(c) ==
    \E m \in Messages(calls + 1) :
        /\ Call(c, m)
        /\ net' = net \cup {[addr |-> c, msg |-> m]}
        /\ UNCHANGED <<buf, jobs, out, conn, tcpOut>>

SendRecord(c) ==
    \E m \in Messages(calls + 1) :
        /\ Call(c, m)
        /\ conn' = [conn EXCEPT ![c] = Append(@, m)]
        /\ UNCHANGED <<net, buf, jobs, out, tcpOut>>

(***************************************************************************)
(* UDP.  The loop overwrites the buffer as far as the datagram reaches and *)
(* starts a goroutine on a slice of it; the goroutine reads the header     *)
(* first, and the arguments when it has decided what they mean.            *)
(***************************************************************************)
ServeUDP ==
    \E d \in net :
        /\ net' = net \ {d}
        /\ buf' = [f \in DOMAIN buf |-> IF f \in Brings[d.msg.len] THEN d.msg[f] ELSE buf[f]]
        /\ jobs' = jobs \cup {[addr |-> d.addr, len |-> d.msg.len, id |-> d.msg.xid,
                               head |-> Blank, pc |-> "header"]}
        /\ UNCHANGED <<calls, sent, out, conn, tcpOut>>

ReadHeader(j) ==
    /\ j \in jobs /\ j.pc = "header"
    /\ jobs' = (jobs \ {j}) \cup {[j EXCEPT !.head = buf, !.pc = "args"]}
    /\ UNCHANGED <<calls, sent, net, buf, out, conn, tcpOut>>

\* The message as the goroutine has come to see it.
Seen(j) == [j.head EXCEPT !.arg = buf.arg, !.proto = buf.proto, !.cookie = buf.cookie]

handleUDPPacket(j) ==
    /\ j \in jobs /\ j.pc = "args"
    /\ jobs' = jobs \ {j}
    /\ out' = out \cup {[addr |-> j.addr, packet |-> p] : p \in handleRPCMessage(Seen(j), j.len, TRUE)}
    /\ UNCHANGED <<calls, sent, net, buf, conn, tcpOut>>

(***************************************************************************)
(* TCP.  A connection's records are answered in order.                     *)
(***************************************************************************)
handleTCPConn(c) ==
    /\ conn[c] # << >>
    /\ conn' = [conn EXCEPT ![c] = Tail(@)]
    /\ LET m == Head(conn[c])
           replies == handleRPCMessage(m, m.len, FALSE)
       IN  tcpOut' = [tcpOut EXCEPT ![c] = IF replies = {} THEN @
                                           ELSE Append(@, CHOOSE r \in replies : TRUE)]
    /\ UNCHANGED <<calls, sent, net, buf, jobs, out>>

Next ==
    \/ \E c \in Clients : SendDatagram(c) \/ SendRecord(c) \/ handleTCPConn(c)
    \/ ServeUDP
    \/ \E j \in jobs : ReadHeader(j) \/ handleUDPPacket(j)

Spec == Init /\ [][Next]_vars
-----------------------------------------------------------------------------
\* handleNLM: "We need to echo back the cookie from the request": every packet
\* sent to a client answers a request of that client.
AnswersItsRequest ==
    \A r \in out : \E m \in sent[r.addr] : r.packet \in handleRPCMessage(m, m.len, TRUE)
=============================================================================
