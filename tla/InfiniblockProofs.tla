------------------------- MODULE InfiniblockProofs -------------------------
(***************************************************************************)
(* Proofs about Infiniblock, for every set of connections and blocks and   *)
(* every bound on messages and restarts.                                   *)
(***************************************************************************)
EXTENDS Infiniblock, TLAPS

-----------------------------------------------------------------------------
(* Types.                                                                  *)

\* There is a block for messages that are about none in particular.
LEMMA AnyBlockType == AnyBlock \in Blocks
BY ExportAssumption DEF AnyBlock

\* Messages clients put on the wire are messages.
LEMMA MessageTypes ==
    ASSUME TypeOK
    PROVE  /\ \A o \in Options : Opt(o) \in Messages
           /\ \A t \in Commands, b \in Blocks, fua \in BOOLEAN : Request(t, b, fua) \in Messages
BY AnyBlockType DEF TypeOK, Messages, Opt, Request, Options

\* The idle records have their types.
LEMMA IdleTypes == NoClient \in NetType /\ NoHandler \in HandlerType
BY DEF NoClient, NetType, NoHandler, HandlerType

\* Initially every variable has its type.
LEMMA InitType == Init => TypeOK
<1>3. Init => net \in [Conns -> NetType] /\ handler \in [Conns -> HandlerType]
  BY IdleTypes DEF Init
<1>4. Init => /\ listener \in [open : BOOLEAN, set : BOOLEAN]
              /\ serve \in [pc : {"start", "listen", "accept", "accepted", "returned"},
                            conn : Conns \cup {NoReq}]
              /\ serve.pc # "accepted"
              /\ closer \in [pc : {"none", "listener", "conns", "wait", "returned"},
                             todo : SUBSET Conns]
  BY DEF Init, NoListener, Starting, NotClosing
<1>5. Init => /\ cache \in [Blocks -> Nat] /\ disk \in [Blocks -> Nat] /\ ver \in Nat
              /\ acked \in [Blocks -> Nat] /\ promised \in [Blocks -> Nat]
              /\ runs \in Nat /\ sent \in Nat
  BY DEF Init
<1>6. Init => conns \subseteq Conns /\ shutdown \in BOOLEAN
  BY DEF Init
<1> QED BY <1>3, <1>4, <1>5, <1>6 DEF TypeOK

\* What a client does keeps the types.
LEMMA ClientType ==
    ASSUME TypeOK, NEW c \in Conns,
           \/ Connect(c) \/ SendEnter(c) \/ Drop(c)
           \/ \E o \in Options \ {"enter"} : SendOption(c, o)
           \/ \E t \in Commands, b \in Blocks, fua \in BOOLEAN : SendRequest(c, t, b, fua)
    PROVE  TypeOK'
<1>0. net[c] \in NetType
  BY DEF TypeOK
<1>a. ASSUME NEW n \in NetType, NEW k \in Nat,
             net' = [net EXCEPT ![c] = n], sent' = k, UNCHANGED <<backendVars, handler, serverVars>>
      PROVE  TypeOK'
  <2>1. net' \in [Conns -> NetType]
    BY <1>a DEF TypeOK
  <2> QED BY <1>a, <2>1 DEF TypeOK, backendVars, serverVars
<1>b. sent \in Nat /\ sent + 1 \in Nat
  BY DEF TypeOK
<1>1. CASE Connect(c)
  <2>1. [NoClient EXCEPT !.pc = "options"] \in NetType
    BY IdleTypes DEF NetType
  <2> QED BY <1>1, <1>a, <1>b, <2>1 DEF Connect
<1>2. CASE SendEnter(c)
  <2>1. <<Opt("enter")>> \in Seq(Messages)
    BY MessageTypes DEF Options
  <2>2. [net[c] EXCEPT !.wire = <<Opt("enter")>>, !.pc = "wait"] \in NetType
    BY <1>0, <2>1 DEF NetType
  <2> QED BY <1>2, <1>a, <1>b, <2>2 DEF SendEnter
<1>3. CASE Drop(c)
  <2>1. [net[c] EXCEPT !.pc = "gone"] \in NetType
    BY <1>0 DEF NetType
  <2> QED BY <1>3, <1>a, <1>b, <2>1 DEF Drop
<1>4. CASE \E o \in Options \ {"enter"} : SendOption(c, o)
  <2>1. PICK o \in Options : SendOption(c, o)
    BY <1>4
  <2>2. <<Opt(o)>> \in Seq(Messages)
    BY MessageTypes
  <2>3. [net[c] EXCEPT !.wire = <<Opt(o)>>] \in NetType
    BY <1>0, <2>2 DEF NetType
  <2> QED BY <2>1, <1>a, <1>b, <2>3 DEF SendOption
<1>5. CASE \E t \in Commands, b \in Blocks, fua \in BOOLEAN : SendRequest(c, t, b, fua)
  <2>1. PICK t \in Commands, b \in Blocks, fua \in BOOLEAN : SendRequest(c, t, b, fua)
    BY <1>5
  <2>2. Request(t, b, fua) \in Messages
    BY MessageTypes
  <2>3. Append(net[c].wire, Request(t, b, fua)) \in Seq(Messages)
    BY <2>2, <1>0 DEF NetType
  <2>4. [net[c] EXCEPT !.wire = Append(@, Request(t, b, fua))] \in NetType
    BY <1>0, <2>3 DEF NetType
  <2> QED BY <2>1, <1>a, <1>b, <2>4 DEF SendRequest
<1> QED BY <1>1, <1>2, <1>3, <1>4, <1>5

\* So does what the accept loop and Close do.
LEMMA ServerType ==
    ASSUME TypeOK, ServerStep \/ CloseBegin \/ \E c \in Conns : Accept(c)
    PROVE  TypeOK'
<1> USE DEF backendVars, serverVars, TypeOK
<1>1. CASE Listen BY <1>1 DEF Listen
<1>2. CASE SetListener BY <1>2 DEF SetListener
<1>3. CASE Register
  <2>1. serve.conn \in Conns
    BY <1>3 DEF Register
  <2>2. net[serve.conn] \in NetType
    BY <2>1
  <2>3. [net[serve.conn] EXCEPT !.cut = TRUE] \in NetType
    BY <2>2 DEF NetType
  <2>4. [NoHandler EXCEPT !.pc = "haggle"] \in HandlerType
    BY IdleTypes DEF HandlerType
  <2>5. net' \in [Conns -> NetType]
    BY <1>3, <2>3 DEF Register
  <2>6. handler' \in [Conns -> HandlerType]
    BY <1>3, <2>4 DEF Register
  <2>7. conns' \subseteq Conns
    BY <1>3, <2>1 DEF Register
  <2> QED BY <1>3, <2>5, <2>6, <2>7 DEF Register
<1>4. CASE ServeReturns BY <1>4 DEF ServeReturns
<1>5. CASE CloseListener BY <1>5 DEF CloseListener
<1>6. CASE CloseConns
  <2>1. \A c \in Conns : [net[c] EXCEPT !.cut = TRUE] \in NetType
    BY ZenonT(60) DEF NetType
  <2>2. net' \in [Conns -> NetType]
    BY <1>6, <2>1 DEF CloseConns
  <2> QED BY <1>6, <2>2 DEF CloseConns
<1>7. CASE CloseReturns BY <1>7 DEF CloseReturns
<1>8. CASE CloseBegin BY <1>8 DEF CloseBegin
<1>9. CASE \E c \in Conns : Accept(c) BY <1>9 DEF Accept
<1> QED BY <1>1, <1>2, <1>3, <1>4, <1>5, <1>6, <1>7, <1>8, <1>9 DEF ServerStep

\* A step of handler c with new records for the handler and the connection.
LEMMA HandlerFrame ==
    ASSUME TypeOK, NEW c \in Conns, NEW h \in HandlerType, NEW n \in NetType,
           handler' = [handler EXCEPT ![c] = h], net' = [net EXCEPT ![c] = n],
           cache' \in [Blocks -> Nat], disk' \in [Blocks -> Nat], ver' \in Nat,
           acked' \in [Blocks -> Nat], promised' \in [Blocks -> Nat],
           conns' \subseteq Conns,
           UNCHANGED <<sent, shutdown, listener, serve, closer, runs>>
    PROVE  TypeOK'
<1>1. handler' \in [Conns -> HandlerType] /\ net' \in [Conns -> NetType]
  BY DEF TypeOK
<1> QED BY <1>1 DEF TypeOK

\* The first message of a nonempty wire, and the others.
LEMMA WireTypes ==
    ASSUME NEW n \in NetType, n.wire # << >>
    PROVE  /\ Head(n.wire) \in Messages
           /\ Tail(n.wire) \in Seq(Messages)
           /\ [n EXCEPT !.wire = Tail(n.wire)] \in NetType
<1>1. Head(n.wire) \in Messages /\ Tail(n.wire) \in Seq(Messages)
  BY DEF NetType
<1> QED BY <1>1 DEF NetType

\* And what the handlers do.
LEMMA HandlerTypes ==
    ASSUME TypeOK, HandlersOK, NEW c \in Conns, HandlerStep(c)
    PROVE  TypeOK'
<1> USE DEF backendVars, serverVars
<1>0. net[c] \in NetType /\ handler[c] \in HandlerType
  BY DEF TypeOK
<1>s. net = [net EXCEPT ![c] = net[c]] /\ handler = [handler EXCEPT ![c] = handler[c]]
  BY DEF TypeOK
<1>t. /\ cache \in [Blocks -> Nat] /\ disk \in [Blocks -> Nat] /\ ver \in Nat
      /\ acked \in [Blocks -> Nat] /\ promised \in [Blocks -> Nat]
      /\ conns \subseteq Conns
  BY DEF TypeOK
<1>p. \A x \in {"none", "haggle", "serve", "close"} \cup Busy : [handler[c] EXCEPT !.pc = x] \in HandlerType
  BY <1>0 DEF HandlerType
<1>1. CASE Haggle(c)
  <2> DEFINE m == Head(net[c].wire)
             rest == Tail(net[c].wire)
             payload == <<[m EXCEPT !.type = "payload"]>> \o rest
  <2>1. net[c].wire # << >>
    BY <1>1 DEF Haggle, HasMessage
  <2>2. m \in Messages /\ rest \in Seq(Messages) /\ [net[c] EXCEPT !.wire = rest] \in NetType
    BY <2>1, <1>0, WireTypes
  <2>3. [m EXCEPT !.type = "payload"] \in Messages
    BY <2>2 DEF Messages
  <2>4. payload \in Seq(Messages)
    BY <2>2, <2>3
  <2>5. [net[c] EXCEPT !.wire = payload] \in NetType
    BY <2>4, <1>0 DEF NetType
  <2>6. Answered(net[c]) \in NetType
    BY <1>0 DEF Answered, NetType
  <2>7. [Answered(net[c]) EXCEPT !.wire = rest] \in NetType
    BY <2>6, <2>2 DEF NetType
  <2> HIDE DEF m, rest, payload
  <2>8. \E h \in HandlerType : handler' = [handler EXCEPT ![c] = h]
    BY <1>1, <1>p DEF Haggle
  <2>9. \E n \in NetType : net' = [net EXCEPT ![c] = n]
    BY <1>1, <2>2, <2>5, <2>7 DEF Haggle, m, rest, payload
  <2> QED BY <1>1, <1>t, <2>8, <2>9, HandlerFrame DEF Haggle
<1>2. CASE ReadRequest(c)
  <2> DEFINE m == Head(net[c].wire)
  <2>1. net[c].wire # << >>
    BY <1>2 DEF ReadRequest, HasMessage
  <2>2. m \in Messages /\ [net[c] EXCEPT !.wire = Tail(net[c].wire)] \in NetType
    BY <2>1, <1>0, WireTypes
  <2>3. [handler[c] EXCEPT !.pc = "io", !.req = m, !.ok = TRUE] \in HandlerType
    BY <2>2, <1>0 DEF HandlerType, Busy
  <2> HIDE DEF m
  <2>4. \E h \in HandlerType : handler' = [handler EXCEPT ![c] = h]
    BY <1>2, <1>0, <1>p, <2>3 DEF ReadRequest, m
  <2> QED BY <1>2, <1>t, <2>2, <2>4, HandlerFrame DEF ReadRequest
<1>3. CASE ReadFails(c)
  BY <1>3, <1>0, <1>s, <1>t, <1>p, HandlerFrame DEF ReadFails
<1>4. ASSUME NEW ok \in BOOLEAN, HandleWrite(c, ok) PROVE TypeOK'
  <2>1. ver + 1 \in Nat
    BY <1>t
  <2> DEFINE x == IF ok /\ handler[c].req.fua THEN "sync" ELSE "reply"
  <2>2. [handler[c] EXCEPT !.got = ver + 1, !.ok = ok, !.pc = x] \in HandlerType
    BY <1>0, <2>1 DEF HandlerType, Busy
  <2>3. cache' \in [Blocks -> Nat] /\ ver' \in Nat
    BY <1>4, <1>t, <2>1 DEF HandleWrite
  <2> QED BY <1>4, <1>0, <1>s, <1>t, <2>2, <2>3, HandlerFrame DEF HandleWrite
<1>5. CASE HandleRead(c)
  <2>1. handler[c].req.block \in Blocks
    BY <1>5 DEF HandleRead, InHand, HandlersOK, ServedOK, Busy, Messages
  <2>2. cache[handler[c].req.block] \in Nat
    BY <2>1, <1>t
  <2>3. [handler[c] EXCEPT !.pc = "reply", !.got = cache[handler[c].req.block]] \in HandlerType
    BY <1>0, <2>2 DEF HandlerType, Busy
  <2> QED BY <1>5, <1>0, <1>s, <1>t, <2>3, HandlerFrame DEF HandleRead
<1>6. CASE HandleFlush(c)
  BY <1>6, <1>0, <1>s, <1>t, <1>p, HandlerFrame DEF HandleFlush, Busy
<1>7. CASE Sync(c)
  BY <1>7, <1>0, <1>s, <1>t, <1>p, HandlerFrame DEF Sync, Busy
<1>8. CASE IoFails(c)
  <2>1. [handler[c] EXCEPT !.pc = "reply", !.ok = FALSE] \in HandlerType
    BY <1>0 DEF HandlerType, Busy
  <2> QED BY <1>8, <1>0, <1>s, <1>t, <2>1, HandlerFrame DEF IoFails
<1>9. CASE Reply(c)
  <2>1. handler[c].got \in Nat /\ handler[c].req \in Messages
    BY <1>9, <1>0 DEF Reply, HandlersOK, ServedOK, Busy, HandlerType
  <2>2. AckedBy(c) \in [Blocks -> Nat] /\ PromisedBy(c) \in [Blocks -> Nat]
    BY <2>1, <1>t DEF AckedBy, PromisedBy, Newer, Messages
  <2>3. [NoHandler EXCEPT !.pc = "serve"] \in HandlerType
    BY IdleTypes DEF HandlerType
  <2> QED BY <1>9, <1>0, <1>s, <1>t, <2>2, <2>3, HandlerFrame DEF Reply
<1>10. CASE ReplyFails(c)
  <2>1. [NoHandler EXCEPT !.pc = "close"] \in HandlerType
    BY IdleTypes DEF HandlerType
  <2> QED BY <1>10, <1>0, <1>s, <1>t, <2>1, HandlerFrame DEF ReplyFails
<1>11. CASE Finish(c)
  <2>1. [net[c] EXCEPT !.cut = TRUE] \in NetType
    BY <1>0 DEF NetType
  <2>2. conns' \subseteq Conns
    BY <1>11, <1>t DEF Finish
  <2> QED BY <1>11, <1>t, <2>1, <2>2, IdleTypes, HandlerFrame DEF Finish
<1> QED BY <1>1, <1>2, <1>3, <1>4, <1>5, <1>6, <1>7, <1>8, <1>9, <1>10, <1>11 DEF HandlerStep

\* And what the kernel and the machine do.
LEMMA MachineType ==
    ASSUME TypeOK, (\E b \in Blocks : Writeback(b)) \/ Restart \/ PowerLoss
    PROVE  TypeOK'
<1>1. CASE \E b \in Blocks : Writeback(b)
  BY <1>1 DEF TypeOK, Writeback, serverVars
<1>2. ASSUME Fresh, cache' \in [Blocks -> Nat], acked' \in [Blocks -> Nat], UNCHANGED <<disk, ver, promised>>
      PROVE  TypeOK'
  <2>1. net' \in [Conns -> NetType] /\ handler' \in [Conns -> HandlerType]
    BY <1>2, IdleTypes DEF Fresh
  <2>2. /\ listener' \in [open : BOOLEAN, set : BOOLEAN]
        /\ closer' \in [pc : {"none", "listener", "conns", "wait", "returned"},
                        todo : SUBSET Conns]
    BY <1>2 DEF Fresh, NoListener, NotClosing
  <2>5. /\ serve' \in [pc : {"start", "listen", "accept", "accepted", "returned"},
                       conn : Conns \cup {NoReq}]
        /\ serve'.pc = "start"
    BY <1>2 DEF Fresh, Starting
  <2>3. runs' \in Nat /\ sent' \in Nat
    BY <1>2 DEF Fresh, TypeOK
  <2>6. conns' \subseteq Conns /\ shutdown' \in BOOLEAN
    BY <1>2 DEF Fresh
  <2>4. disk' \in [Blocks -> Nat] /\ ver' \in Nat /\ promised' \in [Blocks -> Nat]
    BY <1>2 DEF TypeOK
  <2> QED BY <1>2, <2>1, <2>2, <2>3, <2>4, <2>5, <2>6 DEF TypeOK
<1>3. CASE Restart
  BY <1>3, <1>2 DEF Restart, backendVars, TypeOK
<1>4. CASE PowerLoss
  <2>1. cache' \in [Blocks -> Nat] /\ acked' \in [Blocks -> Nat]
    BY <1>4 DEF PowerLoss, TypeOK, Older
  <2> QED BY <1>4, <1>2, <2>1 DEF PowerLoss
<1> QED BY <1>1, <1>3, <1>4
\* Every step of the specification keeps the types.
LEMMA TypeStep ==
    ASSUME TypeOK, HandlersOK, [Next]_vars
    PROVE  TypeOK'
<1>1. CASE UNCHANGED vars
  BY <1>1 DEF TypeOK, vars
<1> QED BY <1>1, ClientType, ServerType, HandlerTypes, MachineType DEF Next

-----------------------------------------------------------------------------
(* The order of versions.                                                  *)

\* What a message says stays true while no block in the cache gets older.
LEMMA MessageMonotone ==
    ASSUME NEW m \in Messages, NEW ca \in [Blocks -> Nat], NEW cb \in [Blocks -> Nat],
           MessageOK(m, ca), \A b \in Blocks : ca[b] <= cb[b]
    PROVE  MessageOK(m, cb)
BY DEF MessageOK, Messages

\* So does what a handler has done, if the disk does not get older either.
LEMMA ServedMonotone ==
    ASSUME NEW h \in HandlerType, NEW ca \in [Blocks -> Nat], NEW cb \in [Blocks -> Nat],
           NEW da \in [Blocks -> Nat], NEW db \in [Blocks -> Nat], ServedOK(h, ca, da),
           \A b \in Blocks : ca[b] <= cb[b] /\ da[b] <= db[b]
    PROVE  ServedOK(h, cb, db)
<1>1. CASE h.pc \notin Busy
  BY <1>1 DEF ServedOK
<1>2. CASE h.pc \in Busy
  <2>1. h.req \in Messages /\ MessageOK(h.req, ca)
    BY <1>2 DEF ServedOK
  <2>2. MessageOK(h.req, cb)
    BY <2>1, MessageMonotone
  <2>3. h.req.block \in Blocks /\ h.got \in Nat /\ h.req.base \in [Blocks -> Nat]
    BY <2>1 DEF Messages, HandlerType
  <2> QED BY <2>1, <2>2, <2>3, <1>2 DEF ServedOK
<1> QED BY <1>1, <1>2

\* A step that changes nothing but the wire of c, and adds only good messages.
LEMMA WireStep ==
    ASSUME TypeOK, TypeOK', WireOK, NEW c \in Conns, NEW n \in NetType,
           net' = [net EXCEPT ![c] = n],
           \A i \in 1..Len(n.wire) : MessageOK(n.wire[i], cache'),
           \A b \in Blocks : cache[b] <= cache'[b]
    PROVE  WireOK'
<1> SUFFICES ASSUME NEW d \in Conns, NEW i \in 1..Len(net'[d].wire)
             PROVE  MessageOK(net'[d].wire[i], cache')
  BY DEF WireOK
<1>1. CASE d = c
  BY <1>1 DEF TypeOK
<1>2. CASE d # c
  <2>1. net'[d] = net[d]
    BY <1>2 DEF TypeOK
  <2>2. net[d].wire[i] \in Messages
    BY <2>1 DEF TypeOK, NetType
  <2>3. MessageOK(net[d].wire[i], cache)
    BY <2>1 DEF WireOK
  <2>4. cache \in [Blocks -> Nat] /\ cache' \in [Blocks -> Nat]
    BY DEF TypeOK
  <2> QED BY <2>1, <2>2, <2>3, <2>4, MessageMonotone
<1> QED BY <1>1, <1>2

\* A step of handler c alone, while cache and disk do not get older.
LEMMA ServedStep ==
    ASSUME TypeOK, TypeOK', HandlersOK, NEW c \in Conns, NEW h,
           handler' = [handler EXCEPT ![c] = h], ServedOK(h, cache', disk'),
           \A b \in Blocks : cache[b] <= cache'[b] /\ disk[b] <= disk'[b]
    PROVE  HandlersOK'
<1> SUFFICES ASSUME NEW d \in Conns
             PROVE  ServedOK(handler'[d], cache', disk')
  BY DEF HandlersOK
<1>1. CASE d = c
  BY <1>1 DEF TypeOK
<1>2. CASE d # c
  <2>1. handler'[d] = handler[d] /\ handler[d] \in HandlerType
    BY <1>2 DEF TypeOK
  <2>2. ServedOK(handler[d], cache, disk)
    BY DEF HandlersOK
  <2>3. /\ cache \in [Blocks -> Nat] /\ cache' \in [Blocks -> Nat]
        /\ disk \in [Blocks -> Nat] /\ disk' \in [Blocks -> Nat]
    BY DEF TypeOK
  <2> QED BY <2>1, <2>2, <2>3, ServedMonotone
<1> QED BY <1>1, <1>2

\* A step that leaves the messages alone, while the cache does not get older.
LEMMA WireSame ==
    ASSUME TypeOK, TypeOK', WireOK,
           \A c \in Conns : net'[c].wire = net[c].wire,
           \A b \in Blocks : cache[b] <= cache'[b]
    PROVE  WireOK'
<1> SUFFICES ASSUME NEW d \in Conns, NEW i \in 1..Len(net'[d].wire)
             PROVE  MessageOK(net'[d].wire[i], cache')
  BY DEF WireOK
<1>1. net[d].wire[i] \in Messages
  BY DEF TypeOK, NetType
<1>2. MessageOK(net[d].wire[i], cache)
  BY DEF WireOK
<1>3. cache \in [Blocks -> Nat] /\ cache' \in [Blocks -> Nat]
  BY DEF TypeOK
<1> QED BY <1>1, <1>2, <1>3, MessageMonotone

\* A step that leaves the handlers alone.
LEMMA ServedSame ==
    ASSUME TypeOK, TypeOK', HandlersOK, UNCHANGED handler,
           \A b \in Blocks : cache[b] <= cache'[b] /\ disk[b] <= disk'[b]
    PROVE  HandlersOK'
<1> SUFFICES ASSUME NEW d \in Conns
             PROVE  ServedOK(handler'[d], cache', disk')
  BY DEF HandlersOK
<1>1. handler'[d] = handler[d] /\ handler[d] \in HandlerType
  BY DEF TypeOK
<1>2. ServedOK(handler[d], cache, disk)
  BY DEF HandlersOK
<1>3. /\ cache \in [Blocks -> Nat] /\ cache' \in [Blocks -> Nat]
      /\ disk \in [Blocks -> Nat] /\ disk' \in [Blocks -> Nat]
  BY DEF TypeOK
<1> QED BY <1>1, <1>2, <1>3, ServedMonotone

\* Steps that do not touch the backend keep the order of versions, and their
\* caches and disks do not get older.
LEMMA BackendSame ==
    ASSUME TypeOK, VersionOrder, UNCHANGED backendVars
    PROVE  VersionOrder' /\ \A b \in Blocks : cache[b] <= cache'[b] /\ disk[b] <= disk'[b]
BY DEF TypeOK, VersionOrder, backendVars

\* Clients say what they know.
LEMMA SentOK ==
    ASSUME TypeOK, VersionOrder
    PROVE  /\ \A o \in Options : MessageOK(Opt(o), cache)
           /\ \A t \in Commands, b \in Blocks, fua \in BOOLEAN :
                 (fua => t = "write") => MessageOK(Request(t, b, fua), cache)
BY DEF TypeOK, VersionOrder, MessageOK, Opt, Request

\* What a client does.
LEMMA ClientStep ==
    ASSUME Durable, TypeOK', NEW c \in Conns,
           \/ Connect(c) \/ SendEnter(c) \/ Drop(c)
           \/ \E o \in Options \ {"enter"} : SendOption(c, o)
           \/ \E t \in Commands, b \in Blocks, fua \in BOOLEAN : SendRequest(c, t, b, fua)
    PROVE  Durable'
<1>0. TypeOK /\ VersionOrder /\ WireOK /\ HandlersOK
  BY DEF Durable
<1>1. UNCHANGED <<backendVars, handler>>
  BY DEF Connect, SendEnter, Drop, SendOption, SendRequest
<1>2. VersionOrder' /\ \A b \in Blocks : cache[b] <= cache'[b] /\ disk[b] <= disk'[b]
  BY <1>0, <1>1, BackendSame
<1>3. HandlersOK'
  BY <1>0, <1>1, <1>2, ServedSame
<1>4. cache' = cache
  BY <1>1 DEF backendVars
<1>5. net[c] \in NetType /\ net'[c] \in NetType /\ net' = [net EXCEPT ![c] = net'[c]]
  BY <1>0 DEF TypeOK, Connect, SendEnter, Drop, SendOption, SendRequest
<1>6. \A i \in 1..Len(net'[c].wire) : MessageOK(net'[c].wire[i], cache)
  <2>1. CASE Connect(c)
    <3>1. net'[c].wire = << >>
      BY <2>1, <1>0 DEF Connect, TypeOK, NoClient
    <3> QED BY <3>1
  <2>2. CASE Drop(c)
    <3>1. net'[c].wire = net[c].wire
      BY <2>2, <1>0, <1>5 DEF Drop, TypeOK, NetType
    <3> QED BY <3>1, <1>0 DEF WireOK
  <2>3. CASE SendEnter(c) \/ \E o \in Options \ {"enter"} : SendOption(c, o)
    <3>1. PICK o \in Options : net'[c].wire = <<Opt(o)>>
      <4>1. CASE SendEnter(c)
        <5>1. net'[c].wire = <<Opt("enter")>>
          BY <4>1, <1>0, <1>5 DEF SendEnter, TypeOK, NetType
        <5> QED BY <5>1 DEF Options
      <4>2. CASE \E o \in Options \ {"enter"} : SendOption(c, o)
        BY <4>2, <1>0, <1>5 DEF SendOption, TypeOK, NetType
      <4> QED BY <2>3, <4>1, <4>2
    <3>2. MessageOK(Opt(o), cache)
      BY <1>0, SentOK
    <3> QED BY <3>1, <3>2
  <2>4. CASE \E t \in Commands, b \in Blocks, fua \in BOOLEAN : SendRequest(c, t, b, fua)
    <3>1. PICK t \in Commands, b \in Blocks, fua \in BOOLEAN : SendRequest(c, t, b, fua)
      BY <2>4
    <3>2. MessageOK(Request(t, b, fua), cache)
      BY <3>1, <1>0, SentOK DEF SendRequest
    <3> DEFINE r == Request(t, b, fua)
    <3>3. net'[c].wire = Append(net[c].wire, r)
      BY <3>1, <1>0, <1>5 DEF SendRequest, TypeOK, NetType
    <3>4. r \in Messages /\ net[c].wire \in Seq(Messages)
      BY <1>0, <1>5, MessageTypes DEF NetType
    <3> HIDE DEF r
    <3>5. \A i \in 1..Len(net'[c].wire) : net'[c].wire[i] = r \/ (i \in 1..Len(net[c].wire) /\ net'[c].wire[i] = net[c].wire[i])
      BY <3>3, <3>4
    <3> QED BY <3>2, <3>5, <1>0 DEF WireOK, r
  <2> QED BY <2>1, <2>2, <2>3, <2>4
<1>7. WireOK'
  BY <1>0, <1>2, <1>4, <1>5, <1>6, WireStep
<1> QED BY <1>2, <1>3, <1>7 DEF Durable

\* What the accept loop and Close do.
LEMMA ServerStepDurable ==
    ASSUME Durable, TypeOK', ServerStep \/ CloseBegin \/ \E c \in Conns : Accept(c)
    PROVE  Durable'
<1>0. TypeOK /\ VersionOrder /\ WireOK /\ HandlersOK
  BY DEF Durable
<1>1. UNCHANGED backendVars
  BY DEF ServerStep, Listen, SetListener, Register, ServeReturns, CloseListener, CloseConns,
         CloseReturns, CloseBegin, Accept
<1>2. VersionOrder' /\ \A b \in Blocks : cache[b] <= cache'[b] /\ disk[b] <= disk'[b]
  BY <1>0, <1>1, BackendSame
<1>3. \A c \in Conns : net'[c].wire = net[c].wire
  <2>1. CASE Register
    <3>1. serve.conn \in Conns /\ net \in [Conns -> NetType]
      BY <2>1, <1>0 DEF Register, TypeOK
    <3>2. CASE shutdown
      <4>1. net' = [net EXCEPT ![serve.conn] = [net[serve.conn] EXCEPT !.cut = TRUE]]
        BY <2>1, <3>2 DEF Register
      <4>2. [net[serve.conn] EXCEPT !.cut = TRUE].wire = net[serve.conn].wire
        BY <3>1 DEF NetType
      <4> QED BY <3>1, <4>1, <4>2
    <3>3. CASE ~shutdown
      BY <2>1, <3>3 DEF Register
    <3> QED BY <3>2, <3>3
  <2>2. CASE CloseConns
    BY <2>2, <1>0 DEF CloseConns, TypeOK, NetType
  <2>3. CASE ~Register /\ ~CloseConns
    BY <2>3 DEF ServerStep, Listen, SetListener, ServeReturns, CloseListener,
                CloseReturns, CloseBegin, Accept
  <2> QED BY <2>1, <2>2, <2>3
<1>4. WireOK'
  BY <1>0, <1>2, <1>3, WireSame
<1>5. HandlersOK'
  <2>1. CASE Register /\ ~shutdown
    <3> DEFINE h == [NoHandler EXCEPT !.pc = "haggle"]
    <3>1. serve.conn \in Conns
      BY <2>1, <1>0 DEF Register, TypeOK
    <3>2. handler' = [handler EXCEPT ![serve.conn] = h]
      BY <2>1 DEF Register
    <3>3. ServedOK(h, cache', disk')
      BY DEF ServedOK, NoHandler, Busy
    <3> HIDE DEF h
    <3> QED BY <3>1, <3>2, <3>3, <1>0, <1>2, ServedStep
  <2>2. CASE ~(Register /\ ~shutdown)
    <3>1. UNCHANGED handler
      BY <2>2 DEF ServerStep, Listen, SetListener, Register, ServeReturns, CloseListener,
                  CloseConns, CloseReturns, CloseBegin, Accept
    <3> QED BY <3>1, <1>0, <1>2, ServedSame
  <2> QED BY <2>1, <2>2
<1> QED BY <1>2, <1>4, <1>5 DEF Durable

\* What a handler does: reading from its connection.
LEMMA HandlerReads ==
    ASSUME Durable, TypeOK', NEW c \in Conns, Haggle(c) \/ ReadRequest(c) \/ ReadFails(c) \/ Finish(c)
    PROVE  Durable'
<1>0. TypeOK /\ VersionOrder /\ WireOK /\ HandlersOK
  BY DEF Durable
<1>1. UNCHANGED backendVars
  BY DEF Haggle, ReadRequest, ReadFails, Finish
<1>2. VersionOrder' /\ \A b \in Blocks : cache[b] <= cache'[b] /\ disk[b] <= disk'[b]
  BY <1>0, <1>1, BackendSame
<1>3. cache' = cache /\ disk' = disk
  BY <1>1 DEF backendVars
<1>4. /\ net[c] \in NetType /\ net'[c] \in NetType /\ net' = [net EXCEPT ![c] = net'[c]]
      /\ handler[c] \in HandlerType /\ handler' = [handler EXCEPT ![c] = handler'[c]]
  BY <1>0 DEF TypeOK, Haggle, ReadRequest, ReadFails, Finish
<1>5. \A i \in 1..Len(net[c].wire) : MessageOK(net[c].wire[i], cache)
  BY <1>0 DEF WireOK
<1>6. ASSUME net[c].wire # << >>
      PROVE  /\ Head(net[c].wire) \in Messages
             /\ MessageOK(Head(net[c].wire), cache)
             /\ Tail(net[c].wire) \in Seq(Messages)
             /\ \A i \in 1..Len(Tail(net[c].wire)) : MessageOK(Tail(net[c].wire)[i], cache)
  <2>1. net[c].wire \in Seq(Messages)
    BY <1>4 DEF NetType
  <2>2. Len(net[c].wire) >= 1 /\ Head(net[c].wire) = net[c].wire[1] /\ 1 \in 1..Len(net[c].wire)
    BY <2>1, <1>6
  <2>3. \A i \in 1..Len(Tail(net[c].wire)) : i + 1 \in 1..Len(net[c].wire) /\ Tail(net[c].wire)[i] = net[c].wire[i + 1]
    BY <2>1, <1>6
  <2> QED BY <2>1, <2>2, <2>3, <1>5, <1>6, WireTypes, <1>4
<1>7. /\ \A i \in 1..Len(net'[c].wire) : MessageOK(net'[c].wire[i], cache)
      /\ ServedOK(handler'[c], cache, disk)
  <2>1. CASE Haggle(c)
    <3> DEFINE m == Head(net[c].wire)
               rest == Tail(net[c].wire)
               p == [m EXCEPT !.type = "payload"]
    <3>1. net[c].wire # << >>
      BY <2>1 DEF Haggle, HasMessage
    <3>2. net'[c].wire = rest \/ (net'[c].wire = <<p>> \o rest /\ m.type = "opt")
      BY <2>1, <1>0, <1>4 DEF Haggle, Answered, TypeOK, NetType
    <3>3. handler'[c].pc \notin Busy
      BY <2>1, <1>0, <1>4, ZenonT(60) DEF Haggle, TypeOK, HandlerType, Busy
    <3>4. m \in Messages /\ MessageOK(m, cache) /\ rest \in Seq(Messages)
          /\ \A i \in 1..Len(rest) : MessageOK(rest[i], cache)
      BY <1>6, <3>1
    <3>5. CASE net'[c].wire = rest
      BY <3>3, <3>4, <3>5 DEF ServedOK
    <3>6. CASE net'[c].wire = <<p>> \o rest /\ m.type = "opt"
      <4>1. ~m.fua
        BY <3>4, <3>6 DEF MessageOK
      <4>2. MessageOK(p, cache) /\ p \in Messages
        BY <3>4, <4>1 DEF MessageOK, Messages
      <4> HIDE DEF m, rest, p
      <4>3. \A i \in 1..Len(<<p>> \o rest) : (<<p>> \o rest)[i] = p \/ \E k \in 1..Len(rest) : (<<p>> \o rest)[i] = rest[k]
        BY <3>4, <4>2
      <4> QED BY <3>3, <3>4, <3>6, <4>2, <4>3 DEF ServedOK
    <3> QED BY <3>2, <3>5, <3>6
  <2>2. CASE ReadRequest(c)
    <3> DEFINE m == Head(net[c].wire)
    <3>1. net[c].wire # << >> /\ handler[c].pc = "serve"
      BY <2>2 DEF ReadRequest, HasMessage
    <3>2. net'[c].wire = Tail(net[c].wire)
      BY <2>2, <1>0, <1>4 DEF ReadRequest, TypeOK, NetType
    <3>3. \/ handler'[c].pc \notin Busy
          \/ handler'[c].pc = "io" /\ handler'[c].req = m
      BY <2>2, <3>1, <1>0, <1>4 DEF ReadRequest, TypeOK, HandlerType, Busy
    <3> QED BY <3>1, <3>2, <3>3, <1>6 DEF ServedOK, Busy
  <2>3. CASE ReadFails(c)
    <3>1. net'[c].wire = net[c].wire
      BY <2>3 DEF ReadFails
    <3>2. handler'[c].pc \notin Busy
      BY <2>3, <1>0, <1>4 DEF ReadFails, TypeOK, HandlerType, Busy
    <3> QED BY <3>1, <3>2, <1>5 DEF ServedOK
  <2>4. CASE Finish(c)
    <3>1. net'[c].wire = net[c].wire
      BY <2>4, <1>0, <1>4 DEF Finish, TypeOK, NetType
    <3>2. handler'[c].pc \notin Busy
      BY <2>4, <1>0 DEF Finish, TypeOK, NoHandler, Busy
    <3> QED BY <3>1, <3>2, <1>5 DEF ServedOK
  <2> QED BY <2>1, <2>2, <2>3, <2>4
<1>8. WireOK'
  BY <1>0, <1>2, <1>3, <1>4, <1>7, WireStep
<1>9. HandlersOK'
  BY <1>0, <1>2, <1>3, <1>4, <1>7, ServedStep
<1> QED BY <1>2, <1>8, <1>9 DEF Durable

\* What a handler does: using the backend and answering.
LEMMA HandlerServes ==
    ASSUME Durable, TypeOK', NEW c \in Conns,
           \/ \E ok \in BOOLEAN : HandleWrite(c, ok)
           \/ HandleRead(c) \/ HandleFlush(c) \/ Sync(c) \/ IoFails(c) \/ Reply(c) \/ ReplyFails(c)
    PROVE  /\ Durable'
           /\ \A b \in Blocks : cache[b] <= cache'[b]
<1> DEFINE h == handler[c]
           r == handler[c].req
<1>0. TypeOK /\ VersionOrder /\ WireOK /\ HandlersOK
  BY DEF Durable
<1>1. h \in HandlerType /\ h.pc \in Busy /\ ServedOK(h, cache, disk) /\ r \in Messages
  <2>1. h.pc \in Busy
    BY DEF HandleWrite, HandleRead, HandleFlush, Sync, IoFails, Reply, ReplyFails, InHand, Busy
  <2> QED BY <2>1, <1>0 DEF HandlersOK, ServedOK, TypeOK
<1>2. /\ r.block \in Blocks /\ r.base \in [Blocks -> Nat] /\ r.fua \in BOOLEAN
      /\ h.got \in Nat /\ h.ok \in BOOLEAN
      /\ MessageOK(r, cache)
  BY <1>1 DEF Messages, HandlerType, ServedOK
<1>3. /\ cache \in [Blocks -> Nat] /\ disk \in [Blocks -> Nat] /\ ver \in Nat
      /\ acked \in [Blocks -> Nat] /\ promised \in [Blocks -> Nat]
      /\ cache' \in [Blocks -> Nat] /\ disk' \in [Blocks -> Nat]
      /\ handler \in [Conns -> HandlerType]
  BY <1>0 DEF TypeOK
<1>4. UNCHANGED net
  BY DEF HandleWrite, HandleRead, HandleFlush, Sync, IoFails, Reply, ReplyFails
<1>5. ASSUME NEW k, handler' = [handler EXCEPT ![c] = k], ServedOK(k, cache', disk'), VersionOrder',
             \A b \in Blocks : cache[b] <= cache'[b] /\ disk[b] <= disk'[b]
      PROVE  Durable' /\ \A b \in Blocks : cache[b] <= cache'[b]
  <2>1. WireOK'
    BY <1>0, <1>4, <1>5, WireSame
  <2>2. HandlersOK'
    BY <1>0, <1>5, ServedStep
  <2> QED BY <2>1, <2>2, <1>5 DEF Durable
<1>6. ASSUME UNCHANGED backendVars
      PROVE  VersionOrder' /\ \A b \in Blocks : cache[b] <= cache'[b] /\ disk[b] <= disk'[b]
  BY <1>0, <1>6, BackendSame
<1>7. ASSUME NEW ok \in BOOLEAN, HandleWrite(c, ok)
      PROVE  Durable' /\ \A b \in Blocks : cache[b] <= cache'[b]
  <2> DEFINE k == [h EXCEPT !.got = ver + 1, !.ok = ok, !.pc = IF ok /\ r.fua THEN "sync" ELSE "reply"]
  <2>1. handler' = [handler EXCEPT ![c] = k] /\ r.type \in {"write", "trim"}
    BY <1>7 DEF HandleWrite, InHand
  <2>2. cache' = [cache EXCEPT ![r.block] = ver + 1] /\ ver' = ver + 1 /\ UNCHANGED <<disk, acked, promised>>
    BY <1>7 DEF HandleWrite
  <2>3. VersionOrder' /\ \A b \in Blocks : cache[b] <= cache'[b] /\ disk[b] <= disk'[b]
    BY <2>2, <1>0, <1>2, <1>3 DEF VersionOrder
  <2>4. k.req = r /\ k.got = ver + 1 /\ k.ok = ok /\ k.pc = (IF ok /\ r.fua THEN "sync" ELSE "reply")
    BY <1>1 DEF HandlerType
  <2>5. MessageOK(r, cache')
    BY <1>1, <1>2, <1>3, <2>3, MessageMonotone
  <2>6. ver + 1 <= cache'[r.block]
    BY <2>2, <1>2, <1>3
  <2> HIDE DEF k
  <2>a. r.fua => r.type = "write"
    BY <2>5 DEF MessageOK
  <2>b. k.pc \in {"sync", "reply"} /\ (k.pc = "sync" => r.type = "write") /\ ~(k.pc = "reply" /\ k.ok /\ r.fua)
    BY <2>4, <2>a, <1>2
  <2>7. ServedOK(k, cache', disk')
    BY <1>1, <2>1, <2>4, <2>5, <2>6, <2>b DEF ServedOK
  <2> QED BY <1>5, <2>1, <2>3, <2>7
<1>8. CASE HandleRead(c)
  <2> DEFINE k == [h EXCEPT !.pc = "reply", !.got = cache[r.block]]
  <2>1. handler' = [handler EXCEPT ![c] = k] /\ r.type = "read" /\ UNCHANGED backendVars
    BY <1>8 DEF HandleRead, InHand
  <2>2. k.req = r /\ k.pc = "reply" /\ k.got = cache[r.block]
    BY <1>1 DEF HandlerType
  <2>3. cache' = cache
    BY <2>1 DEF backendVars
  <2>a. MessageOK(r, cache)
    BY <1>0, <1>1, <1>8 DEF Durable, HandlersOK, ServedOK, HandleRead, InHand, Busy
  <2>b. ~r.fua
    BY <2>1, <2>a DEF MessageOK
  <2>4. cache[r.block] >= r.base[r.block]
    BY <2>a, <1>2, <1>3 DEF MessageOK
  <2> HIDE DEF k
  <2>5. ServedOK(k, cache', disk')
    BY <1>1, <1>2, <2>1, <2>2, <2>3, <2>a, <2>b, <2>4 DEF ServedOK
  <2> QED BY <1>5, <1>6, <2>1, <2>5
<1>9. CASE HandleFlush(c)
  <2> DEFINE k == [h EXCEPT !.pc = "sync"]
  <2>1. handler' = [handler EXCEPT ![c] = k] /\ r.type = "flush" /\ UNCHANGED backendVars
    BY <1>9 DEF HandleFlush, InHand
  <2>2. k.req = r /\ k.pc = "sync"
    BY <1>1 DEF HandlerType
  <2>3. cache' = cache
    BY <2>1 DEF backendVars
  <2> HIDE DEF k
  <2>4. ServedOK(k, cache', disk')
    BY <1>1, <1>2, <2>1, <2>2, <2>3 DEF ServedOK
  <2> QED BY <1>5, <1>6, <2>1, <2>4
<1>10. CASE Sync(c)
  <2> DEFINE k == [h EXCEPT !.pc = "reply"]
  <2>1. handler' = [handler EXCEPT ![c] = k] /\ h.pc = "sync" /\ disk' = cache /\ UNCHANGED <<cache, ver, acked, promised>>
    BY <1>10 DEF Sync
  <2>2. k.req = r /\ k.pc = "reply" /\ k.got = h.got /\ k.ok = h.ok
    BY <1>1 DEF HandlerType
  <2>3. VersionOrder' /\ \A b \in Blocks : cache[b] <= cache'[b] /\ disk[b] <= disk'[b]
    BY <2>1, <1>0, <1>3 DEF VersionOrder
  <2> HIDE DEF k
  <2>4. ServedOK(k, cache', disk')
    BY <1>1, <1>2, <2>1, <2>2 DEF ServedOK, MessageOK
  <2> QED BY <1>5, <2>1, <2>3, <2>4
<1>11. CASE IoFails(c)
  <2> DEFINE k == [h EXCEPT !.pc = "reply", !.ok = FALSE]
  <2>1. handler' = [handler EXCEPT ![c] = k] /\ UNCHANGED backendVars
    BY <1>11 DEF IoFails
  <2>2. k.req = r /\ k.ok = FALSE /\ k.pc = "reply"
    BY <1>1 DEF HandlerType
  <2>3. cache' = cache
    BY <2>1 DEF backendVars
  <2> HIDE DEF k
  <2>4. ServedOK(k, cache', disk')
    BY <1>1, <1>2, <2>2, <2>3 DEF ServedOK
  <2> QED BY <1>5, <1>6, <2>1, <2>4
<1>12. CASE Reply(c)
  <2> DEFINE k == [NoHandler EXCEPT !.pc = "serve"]
  <2>1. /\ handler' = [handler EXCEPT ![c] = k] /\ h.pc = "reply"
        /\ acked' = AckedBy(c) /\ promised' = PromisedBy(c) /\ UNCHANGED <<cache, disk, ver>>
    BY <1>12 DEF Reply
  <2>2. ServedOK(k, cache', disk')
    BY DEF ServedOK, Busy, NoHandler
  <2>3. \A b \in Blocks : acked'[b] <= cache[b]
    BY <2>1, <1>0, <1>1, <1>2, <1>3 DEF AckedBy, Newer, ServedOK, VersionOrder
  <2>4. \A b \in Blocks : promised'[b] <= disk[b]
    BY <2>1, <1>0, <1>1, <1>2, <1>3 DEF PromisedBy, Newer, ServedOK, VersionOrder
  <2>5. VersionOrder' /\ \A b \in Blocks : cache[b] <= cache'[b] /\ disk[b] <= disk'[b]
    BY <2>1, <2>3, <2>4, <1>0, <1>3 DEF VersionOrder
  <2> HIDE DEF k
  <2> QED BY <1>5, <2>1, <2>2, <2>5
<1>13. CASE ReplyFails(c)
  <2> DEFINE k == [NoHandler EXCEPT !.pc = "close"]
  <2>1. handler' = [handler EXCEPT ![c] = k] /\ UNCHANGED backendVars
    BY <1>13 DEF ReplyFails
  <2>2. ServedOK(k, cache', disk')
    BY DEF ServedOK, Busy, NoHandler
  <2> HIDE DEF k
  <2> QED BY <1>5, <1>6, <2>1, <2>2
<1> QED BY <1>7, <1>8, <1>9, <1>10, <1>11, <1>12, <1>13

\* What the kernel and the machine do.
LEMMA MachineStep ==
    ASSUME Durable, TypeOK', (\E b \in Blocks : Writeback(b)) \/ Restart \/ PowerLoss
    PROVE  Durable'
<1>0. TypeOK /\ VersionOrder /\ WireOK /\ HandlersOK
  BY DEF Durable
<1>1. CASE \E b \in Blocks : Writeback(b)
  <2>1. UNCHANGED <<cache, ver, acked, promised, net, handler>>
    BY <1>1 DEF Writeback
  <2>2. VersionOrder' /\ \A b \in Blocks : cache[b] <= cache'[b] /\ disk[b] <= disk'[b]
    BY <1>1, <1>0 DEF Writeback, VersionOrder, TypeOK
  <2>3. WireOK'
    BY <2>1, <2>2, <1>0, WireSame
  <2>4. HandlersOK'
    BY <2>1, <2>2, <1>0, ServedSame
  <2> QED BY <2>2, <2>3, <2>4 DEF Durable
<1>2. ASSUME Fresh PROVE WireOK' /\ HandlersOK'
  <2>1. \A c \in Conns : net'[c].wire = << >> /\ handler'[c].pc = "none"
    BY <1>2 DEF Fresh, NoClient, NoHandler
  <2>2. WireOK'
    BY <2>1 DEF WireOK
  <2>3. HandlersOK'
    BY <2>1 DEF HandlersOK, ServedOK, Busy
  <2> QED BY <2>2, <2>3
<1>3. CASE Restart
  <2>1. VersionOrder'
    BY <1>3, <1>0, BackendSame DEF Restart
  <2> QED BY <1>2, <1>3, <2>1 DEF Restart, Durable
<1>4. CASE PowerLoss
  <2>1. VersionOrder'
    BY <1>4, <1>0 DEF PowerLoss, VersionOrder, TypeOK, Older
  <2> QED BY <1>2, <1>4, <2>1 DEF PowerLoss, Durable
<1> QED BY <1>1, <1>3, <1>4

\* Initially everything is at version 0.
LEMMA InitDurable == Init => Durable
<1> SUFFICES ASSUME Init PROVE Durable
  OBVIOUS
<1>1. TypeOK
  BY InitType
<1>2. VersionOrder
  BY DEF Init, VersionOrder
<1>3. \A c \in Conns : net[c].wire = << >> /\ handler[c].pc = "none"
  BY DEF Init, NoClient, NoHandler
<1>4. WireOK
  BY <1>3 DEF WireOK
<1>5. HandlersOK
  BY <1>3 DEF HandlersOK, ServedOK, Busy
<1> QED BY <1>1, <1>2, <1>4, <1>5 DEF Durable

\* Every step of the specification keeps the order of versions.
LEMMA DurableStep ==
    ASSUME Durable, [Next]_vars
    PROVE  Durable'
<1>1. TypeOK'
  BY TypeStep DEF Durable
<1>2. CASE UNCHANGED vars
  <2>1. TypeOK /\ VersionOrder /\ WireOK /\ HandlersOK
    BY DEF Durable
  <2>2. VersionOrder' /\ \A b \in Blocks : cache[b] <= cache'[b] /\ disk[b] <= disk'[b]
    BY <1>2, <2>1, BackendSame DEF vars, backendVars
  <2>3. WireOK' /\ HandlersOK'
    BY <1>1, <1>2, <2>1, <2>2, WireSame, ServedSame DEF vars
  <2> QED BY <1>1, <2>2, <2>3 DEF Durable
<1> QED BY <1>1, <1>2, ClientStep, ServerStepDurable, HandlerReads, HandlerServes, MachineStep
        DEF Next, HandlerStep

\* The inductive invariant: versions vouched for are on the disk, those
\* acknowledged in the cache, and every message and handler knows its place.
THEOREM DurableInvariant == Spec => []Durable
<1>1. Init => Durable
  BY InitDurable
<1>2. Durable /\ [Next]_vars => Durable'
  BY DurableStep
<1> QED BY <1>1, <1>2, PTL DEF Spec

\* No client reads a version older than one acknowledged before it asked.
THEOREM ReadsAreCurrent == Spec => []ReadsCurrent
<1>1. Durable => ReadsCurrent
  BY DEF Durable, HandlersOK, ServedOK, ReadsCurrent, Busy
<1> QED BY <1>1, DurableInvariant, PTL

-----------------------------------------------------------------------------
(* The server implements BlockDevice.                                      *)

\* Initial states are initial states of the device.
LEMMA InitRefines == Init => Disk!Init
BY DEF Init, Disk!Init

\* Every step is a step of the device, or changes nothing it shows.
LEMMA StepRefines ==
    ASSUME Durable, Durable', [Next]_vars
    PROVE  [Disk!Next]_<<cache, promised>>
<1>0. /\ TypeOK /\ TypeOK' /\ VersionOrder /\ VersionOrder'
  BY DEF Durable
<1>1. /\ cache \in [Blocks -> Nat] /\ cache' \in [Blocks -> Nat] /\ ver \in Nat
      /\ promised \in [Blocks -> Nat] /\ promised' \in [Blocks -> Nat]
      /\ disk \in [Blocks -> Nat]
  BY <1>0 DEF TypeOK
<1>2. ASSUME NEW c \in Conns, NEW ok \in BOOLEAN, HandleWrite(c, ok)
      PROVE  Disk!Next
  <2> DEFINE b == handler[c].req.block
  <2>1. b \in Blocks
    BY <1>2 DEF HandleWrite, InHand, Durable, HandlersOK, ServedOK, Busy, Messages
  <2>2. cache' = [cache EXCEPT ![b] = ver + 1] /\ UNCHANGED promised
    BY <1>2 DEF HandleWrite
  <2>3. cache[b] <= ver
    BY <2>1, <1>0 DEF VersionOrder
  <2> HIDE DEF b
  <2>4. Disk!Write(b)
    BY <2>1, <2>2, <2>3, <1>1 DEF Disk!Write
  <2> QED BY <2>1, <2>4 DEF Disk!Next
<1>3. ASSUME NEW c \in Conns, Reply(c)
      PROVE  Disk!Next
  <2>1. promised' = PromisedBy(c) /\ UNCHANGED <<cache, disk>>
    BY <1>3 DEF Reply
  <2>2. handler[c].got \in Nat /\ handler[c].req \in Messages
    BY <1>3 DEF Reply, Durable, TypeOK, HandlersOK, ServedOK, Busy, HandlerType
  <2>3. \A b \in Blocks : promised[b] <= promised'[b]
    BY <2>1, <2>2, <1>1 DEF PromisedBy, Newer, Messages
  <2>4. \A b \in Blocks : promised'[b] <= disk'[b] /\ disk'[b] <= cache'[b] /\ disk'[b] \in Nat
    BY <1>0 DEF VersionOrder, TypeOK
  <2>5. \A b \in Blocks : promised'[b] <= cache[b]
    BY <2>1, <2>4, <1>1
  <2> QED BY <2>1, <2>3, <2>5, <1>1 DEF Disk!Next, Disk!Promise
<1>4. CASE PowerLoss
  <2>1. cache' = disk /\ UNCHANGED promised
    BY <1>4 DEF PowerLoss
  <2>2. \A b \in Blocks : promised[b] <= disk[b] /\ disk[b] <= cache[b]
    BY <1>0 DEF VersionOrder
  <2> QED BY <2>1, <2>2, <1>1 DEF Disk!Next, Disk!PowerLoss
<1>5. CASE UNCHANGED vars
  BY <1>5 DEF vars
<1>6. ASSUME NEW c \in Conns, HandlerStep(c), ~Reply(c), ~\E ok \in BOOLEAN : HandleWrite(c, ok)
      PROVE  UNCHANGED <<cache, promised>>
  BY <1>6 DEF HandlerStep, Haggle, ReadRequest, ReadFails, HandleRead, HandleFlush, Sync, IoFails,
              ReplyFails, Finish, backendVars
<1>7. ASSUME ServerStep \/ CloseBegin \/ Restart \/ \E b \in Blocks : Writeback(b)
      PROVE  UNCHANGED <<cache, promised>>
  BY <1>7 DEF ServerStep, Listen, SetListener, Register, ServeReturns, CloseListener, CloseConns,
              CloseReturns, CloseBegin, Restart, Writeback, backendVars
<1>8. ASSUME NEW c \in Conns,
             \/ Connect(c) \/ SendEnter(c) \/ Drop(c) \/ Accept(c)
             \/ \E o \in Options \ {"enter"} : SendOption(c, o)
             \/ \E t \in Commands, b \in Blocks, fua \in BOOLEAN : SendRequest(c, t, b, fua)
      PROVE  UNCHANGED <<cache, promised>>
  BY <1>8 DEF Connect, SendEnter, Drop, Accept, SendOption, SendRequest, backendVars
<1> QED BY <1>2, <1>3, <1>4, <1>5, <1>6, <1>7, <1>8 DEF Next

\* The NBD server implements the block device: an answered FLUSH or FUA write
\* is never undone by a power loss, whatever clients, handlers, Close and the
\* kernel do meanwhile.
THEOREM Implements == Spec => KeepsPromises
<1>1. Init => Disk!Init
  BY InitRefines
<1>2. Durable /\ Durable' /\ [Next]_vars => [Disk!Next]_<<cache, promised>>
  BY StepRefines
<1> QED BY <1>1, <1>2, DurableInvariant, PTL DEF Spec, KeepsPromises, Disk!Spec

-----------------------------------------------------------------------------
(* Close.                                                                  *)

\* Once Close has returned, no handler touches the backend again.
THEOREM ClosedIsQuiet == Spec => []QuietAfterClose
<1>1. Init => CloseInv
  BY DEF Init, CloseInv, QuietAfterClose, NotClosing
<1>2. Durable /\ CloseInv /\ [Next]_vars => CloseInv'
  <2> SUFFICES ASSUME Durable, CloseInv, [Next]_vars PROVE CloseInv'
    OBVIOUS
  <2>0. TypeOK
    BY DEF Durable
  <2>1. CASE UNCHANGED vars
    BY <2>1 DEF vars, CloseInv, QuietAfterClose
  <2>2. ASSUME NEW c \in Conns, HandlerStep(c) PROVE CloseInv'
    <3>1. handler[c].pc # "none" /\ UNCHANGED <<closer, shutdown>>
      BY <2>2 DEF HandlerStep, Haggle, HasMessage, ReadRequest, ReadFails, HandleWrite, HandleRead,
                  HandleFlush, InHand, Sync, IoFails, Reply, ReplyFails, Finish, serverVars
    <3> QED BY <3>1 DEF CloseInv, QuietAfterClose
  <2>3. CASE Register
    BY <2>3, <2>0 DEF Register, CloseInv, QuietAfterClose, TypeOK
  <2>4. CASE CloseReturns
    BY <2>4, <2>0 DEF CloseReturns, CloseInv, QuietAfterClose, TypeOK
  <2>5. CASE Listen \/ SetListener \/ ServeReturns \/ CloseListener \/ CloseConns \/ CloseBegin
    BY <2>5, <2>0 DEF Listen, SetListener, ServeReturns, CloseListener, CloseConns, CloseBegin,
                      CloseInv, QuietAfterClose, TypeOK
  <2>6. CASE Restart \/ PowerLoss
    BY <2>6 DEF Restart, PowerLoss, Fresh, NotClosing, CloseInv, QuietAfterClose
  <2>7. CASE \E b \in Blocks : Writeback(b)
    BY <2>7 DEF Writeback, serverVars, CloseInv, QuietAfterClose
  <2>8. ASSUME NEW c \in Conns,
               \/ Connect(c) \/ SendEnter(c) \/ Drop(c) \/ Accept(c)
               \/ \E o \in Options \ {"enter"} : SendOption(c, o)
               \/ \E t \in Commands, b \in Blocks, fua \in BOOLEAN : SendRequest(c, t, b, fua)
        PROVE  CloseInv'
    BY <2>8 DEF Connect, SendEnter, Drop, Accept, SendOption, SendRequest, serverVars,
                CloseInv, QuietAfterClose
  <2> QED BY <2>1, <2>2, <2>3, <2>4, <2>5, <2>6, <2>7, <2>8 DEF Next, ServerStep
<1>3. CloseInv => QuietAfterClose
  BY DEF CloseInv
<1> QED BY <1>1, <1>2, <1>3, DurableInvariant, PTL DEF Spec

=============================================================================
