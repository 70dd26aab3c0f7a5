----------------------------- MODULE MCPortmap -----------------------------
(***************************************************************************)
(* Two clients, and a request of every kind: GETPORT, GETADDR, the lock    *)
(* procedures with and without a callback, an empty call, a truncated one, *)
(* an unknown program and a message that is not a call.                    *)
(***************************************************************************)
EXTENDS Portmap
CONSTANTS c1, c2
MCClients == {c1, c2}

Ask(prog, vers, proc, arg) ==
    [xid |-> 0, type |-> "call", prog |-> prog, vers |-> vers, proc |-> proc,
     arg |-> arg, proto |-> "tcp", cookie |-> 0, len |-> "full"]

MCRequests ==
    {Ask("portmap", 2, 3, "nfs"), Ask("portmap", 4, 3, "nlm"), Ask("portmap", 2, 0, "other"),
     Ask("nlm", 4, 2, "other"), Ask("nlm", 4, 7, "other"), Ask("other", 2, 0, "other"),
     [Ask("portmap", 2, 3, "mount") EXCEPT !.proto = "udp"],
     [Ask("portmap", 2, 3, "nfs") EXCEPT !.len = "header"],
     [Ask("nlm", 4, 2, "other") EXCEPT !.len = "short"],
     [Ask("nlm", 4, 2, "other") EXCEPT !.type = "reply"]}
=============================================================================
