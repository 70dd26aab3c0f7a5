-------------------------- MODULE SnapStoreProofs --------------------------
(***************************************************************************)
(* Proofs about SnapStore, for every set of snaps, files and requests and  *)
(* every bound on requests.  What an index finds, what a peer sends and    *)
(* which ancestor is cloned are left open: nothing is assumed of them.     *)
(***************************************************************************)
EXTENDS SnapStore, SequenceTheorems, TLAPS

\* The shape of a request, whatever its fields hold.
Request(op, pc, s, b, i, t, l, m) ==
    [op |-> op, pc |-> pc, snap |-> s, parent |-> b, ix |-> i, todo |-> t, loc |-> l, missed |-> m]

\* A request is made of its fields.
LEMMA RequestFields ==
    ASSUME NEW op, NEW pc, NEW s, NEW b, NEW i, NEW t, NEW l, NEW m, NEW q,
           q = Request(op, pc, s, b, i, t, l, m)
    PROVE  /\ q.op = op /\ q.pc = pc /\ q.snap = s /\ q.parent = b
           /\ q.ix = i /\ q.todo = t /\ q.loc = l /\ q.missed = m
BY DEF Request

LEMMA RequestType ==
    ASSUME NEW q
    PROVE  IsRequest(q) <=>
              /\ q = Request(q.op, q.pc, q.snap, q.parent, q.ix, q.todo, q.loc, q.missed)
              /\ q.op \in {"none", "download", "index", "delete"} /\ q.pc \in Steps(q.op)
              /\ q.op # "none" => q.snap \in Snap
              /\ q.parent \in Parents
              /\ q.op = "index" /\ q.pc # "intersect" => q.parent # None
              /\ q.op = "download" => q.todo \in Seq(File)
              /\ q.op = "download" /\ q.pc = "write" => q.todo # <<>>
BY Zenon DEF IsRequest, Request

LEMMA IdleRequest ==
    IsRequest(Idle) /\ Idle.op = "none" /\ Idle.pc = "idle"
<1>1. Idle = Request("none", "idle", None, None, None, <<>>, None, {})
  BY DEF Idle, Begin, Request
<1>2. /\ Idle.op = "none" /\ Idle.pc = "idle" /\ Idle.snap = None /\ Idle.parent = None
      /\ Idle.ix = None /\ Idle.todo = <<>> /\ Idle.loc = None /\ Idle.missed = {}
  BY <1>1, RequestFields
<1>3. Idle = Request(Idle.op, Idle.pc, Idle.snap, Idle.parent, Idle.ix, Idle.todo, Idle.loc, Idle.missed)
  BY <1>1, <1>2
<1>4. "idle" \in Steps("none") /\ None \in Parents
  BY DEF Steps, Parents
<1> QED BY <1>2, <1>3, <1>4, RequestType

\* A request goes to another step of its handler.
LEMMA GotoRequest ==
    ASSUME NEW q, IsRequest(q), NEW l, l \in Steps(q.op),
           q.op = "index" /\ l # "intersect" => q.parent # None,
           q.op = "download" /\ l = "write" => q.todo # <<>>,
           NEW w, w = [q EXCEPT !.pc = l]
    PROVE  /\ IsRequest(w) /\ w.op = q.op /\ w.pc = l /\ w.snap = q.snap
           /\ w.parent = q.parent /\ w.todo = q.todo
<1>1. q = Request(q.op, q.pc, q.snap, q.parent, q.ix, q.todo, q.loc, q.missed)
  BY RequestType
<1>2. w = Request(q.op, l, q.snap, q.parent, q.ix, q.todo, q.loc, q.missed)
  <2>1. PICK op, pc, s, b, i, t, d, m :
           /\ q = Request(op, pc, s, b, i, t, d, m) /\ op = q.op /\ s = q.snap /\ b = q.parent
           /\ i = q.ix /\ t = q.todo /\ d = q.loc /\ m = q.missed
    BY <1>1, Zenon
  <2>2. w = Request(op, l, s, b, i, t, d, m)
    <3>1. [q EXCEPT !.pc = l] = Request(op, l, s, b, i, t, d, m)
      BY <2>1 DEF Request
    <3> QED BY <3>1
  <2> QED BY <2>1, <2>2
<1>3. /\ w.op = q.op /\ w.pc = l /\ w.snap = q.snap /\ w.parent = q.parent
      /\ w.ix = q.ix /\ w.todo = q.todo /\ w.loc = q.loc /\ w.missed = q.missed
  BY <1>2, RequestFields
<1>4. w = Request(w.op, w.pc, w.snap, w.parent, w.ix, w.todo, w.loc, w.missed)
  BY <1>2, <1>3
<1> QED BY <1>3, <1>4, RequestType

\* A request as it begins.
LEMMA BeginRequest ==
    ASSUME NEW op \in {"download", "index", "delete"}, NEW pc, pc \in Steps(op), pc # "write",
           NEW s \in Snap, NEW b \in Parents, op = "index" => b # None,
           NEW w, w = Begin(op, pc, s, b)
    PROVE  IsRequest(w) /\ w.op = op /\ w.pc = pc /\ w.snap = s
<1>1. w = Request(op, pc, s, b, None, <<>>, None, {})
  BY DEF Begin, Request
<1>2. /\ w.op = op /\ w.pc = pc /\ w.snap = s /\ w.parent = b
      /\ w.ix = None /\ w.todo = <<>> /\ w.loc = None /\ w.missed = {}
  BY <1>1, RequestFields
<1>3. w = Request(w.op, w.pc, w.snap, w.parent, w.ix, w.todo, w.loc, w.missed)
  BY <1>1, <1>2
<1>4. <<>> \in Seq(File)
  OBVIOUS
<1> QED BY <1>2, <1>3, <1>4, RequestType

\* One request moves, the others stay.
LEMMA OneMoves ==
    ASSUME TypeOK, NEW p \in Proc, NEW w, IsRequest(w), req' = [req EXCEPT ![p] = w]
    PROVE  /\ req'[p] = w /\ DOMAIN req' = Proc
           /\ \A x \in Proc \ {p} : req'[x] = req[x]
           /\ \A x \in Proc : IsRequest(req'[x])
<1>1. DOMAIN req = Proc /\ \A x \in Proc : IsRequest(req[x])
  BY DEF TypeOK
<1>2. req'[p] = w /\ DOMAIN req' = Proc /\ \A x \in Proc \ {p} : req'[x] = req[x]
  BY <1>1
<1> QED BY <1>1, <1>2

\* The history remembers every clash.
LEMMA Watched ==
    ASSUME TypeOK, NEW b, Watch(b)
    PROVE  /\ clashed \subseteq clashed' /\ clashed' \subseteq Snap
           /\ torn \subseteq torn' /\ torn' \subseteq Snap
           /\ Apart'
<1>1. /\ clashed \subseteq clashed' /\ clashed' \subseteq Snap
      /\ torn \subseteq torn' /\ torn' \subseteq Snap
  BY DEF Watch, TypeOK
<1>2. ASSUME NEW p \in Proc, NEW q \in Proc, NEW s \in Snap, p # q
      PROVE  /\ Working(req'[p], s) /\ Working(req'[q], s) => s \in clashed'
             /\ Publishing(req'[p], s) /\ Removing(req'[q], s) => s \in torn'
  BY <1>2 DEF Watch
<1>3. Apart'
  BY <1>2 DEF Apart
<1> QED BY <1>1, <1>3

\* The type invariant of the next state.
LEMMA TypeKept ==
    ASSUME dir' \in [Snap -> Dir \cup {None}], man' \in [Snap -> SUBSET {"tsm", "tsc"}],
           stamp' \in [Snap -> Parents], json' \in [Snap -> [parent : Parents] \cup {None}],
           tmp' \in [Snap -> TmpDirs \cup {None}],
           side' \in [Snap -> SUBSET {"stamp", "tsm", "tsc"}],
           DOMAIN req' = Proc, \A p \in Proc : IsRequest(req'[p]),
           ops' \in Nat, clashed' \subseteq Snap, torn' \subseteq Snap
    PROVE  TypeOK'
<1>1. \A p \in Proc : IsRequest(req[p])'
  BY DEF IsRequest, Parents, Snap, File
<1> QED BY <1>1 DEF TypeOK

\* A step of a request that publishes and removes nothing: it may work in the
\* download directory of its snap, and its own part of the invariant is given.
LEMMA Draft ==
    ASSUME StoreInv, NEW p \in Proc, NEW s \in Snap, NEW v, v = req[p],
           NEW w, IsRequest(w), req' = [req EXCEPT ![p] = w], Watch(FALSE),
           v.op = "none" \/ v.snap = s, w.op = "none" \/ w.snap = s,
           UNCHANGED <<dir, man, stamp>>,
           json' \in [Snap -> [parent : Parents] \cup {None}], ops' \in Nat,
           tmp' \in [Snap -> TmpDirs \cup {None}],
           side' \in [Snap -> SUBSET {"stamp", "tsm", "tsc"}],
           \A t \in Snap \ {s} : tmp'[t] = tmp[t] /\ side'[t] = side[t],
           (tmp' = tmp /\ side' = side) \/ Working(v, s) \/ Working(w, s),
           ~Publishing(w, s), ~Removing(w, s), Publishing(v, s) => v.pc = "json",
           /\ s \notin clashed' /\ w.op = "download"
           /\ w.pc \in {"index", "find", "write", "rename"}
           => /\ tmp'[s] # None /\ Missing(w) \subseteq Range(Manifest[s])
              /\ \A f \in File \ Missing(w) : Holds(tmp'[s], s, f),
           w.op = "download" /\ s \notin clashed' => ToRename(w) \subseteq side'[s]
    PROVE  StoreInv'
<1>1. /\ clashed \subseteq clashed' /\ clashed' \subseteq Snap
      /\ torn \subseteq torn' /\ torn' \subseteq Snap /\ Apart'
  BY Watched DEF StoreInv
<1>2. /\ req'[p] = w /\ DOMAIN req' = Proc
      /\ \A x \in Proc \ {p} : req'[x] = req[x]
      /\ \A x \in Proc : IsRequest(req'[x])
  BY OneMoves DEF StoreInv
<1>3. TypeOK'
  BY <1>1, <1>2, TypeKept DEF StoreInv, TypeOK
<1>4. PublishedWhole'
  BY <1>1 DEF StoreInv, PublishedWhole, Holds
<1>5. ASSUME NEW x \in Proc \ {p}, Working(req[x], s), s \notin clashed'
      PROVE  tmp' = tmp /\ side' = side
  <2>1. ~Working(v, s)
    BY <1>1, <1>5 DEF StoreInv, Apart
  <2>2. ~Working(w, s)
    BY <1>1, <1>2, <1>5 DEF Apart
  <2> QED BY <2>1, <2>2
<1>6. Assembling'
  <2>1. SUFFICES ASSUME NEW x \in Proc, NEW q, q = req'[x],
                        q.op = "download", q.pc \in {"index", "find", "write", "rename"},
                        q.snap \notin clashed'
                 PROVE  /\ tmp'[q.snap] # None /\ Missing(q) \subseteq Range(Manifest[q.snap])
                        /\ \A f \in File \ Missing(q) : Holds(tmp'[q.snap], q.snap, f)
    BY DEF Assembling, Holds
  <2>2. CASE x = p
    BY <1>2, <2>1, <2>2
  <2>3. CASE x # p
    <3>1. q = req[x] /\ q.snap \in Snap
      BY <1>2, <2>1, <2>3, RequestType
    <3>2. /\ tmp[q.snap] # None /\ Missing(q) \subseteq Range(Manifest[q.snap])
          /\ \A f \in File \ Missing(q) : Holds(tmp[q.snap], q.snap, f)
      BY <1>1, <2>1, <3>1 DEF StoreInv, Assembling
    <3>3. tmp'[q.snap] = tmp[q.snap]
      BY <1>5, <2>1, <2>3, <3>1 DEF Working
    <3> QED BY <3>2, <3>3
  <2> QED BY <2>2, <2>3
<1>7. \A t \in Snap : ~Publishing(w, t) /\ ~Removing(w, t)
  BY DEF Publishing, Removing
<1>8. Publication'
  <2>1. SUFFICES ASSUME NEW t \in Snap, t \notin clashed', t \notin torn', NEW x \in Proc
                 PROVE  /\ Publishing(req'[x], t) =>
                             /\ dir'[t] # None /\ Published(req[x], t)'
                             /\ \A q \in Proc \ {x} : ~Publishing(req'[q], t)
                        /\ req'[x].op = "download" /\ req'[x].snap = t
                             => ToRename(req'[x]) \subseteq side'[t]
                        /\ Removing(req'[x], t) => dir'[t] = None
    BY DEF Publication
  <2>2. CASE x = p
    BY <1>2, <1>7, <2>1, <2>2
  <2>3. CASE x # p
    <3>1. req'[x] = req[x] /\ t \in Snap \ (clashed \cup torn)
      BY <1>1, <1>2, <2>1, <2>3
    <3>2. /\ Publishing(req[x], t) =>
               /\ dir[t] # None /\ Published(req[x], t)
               /\ \A q \in Proc \ {x} : ~Publishing(req[q], t)
          /\ req[x].op = "download" /\ req[x].snap = t => ToRename(req[x]) \subseteq side[t]
          /\ Removing(req[x], t) => dir[t] = None
      BY <3>1 DEF StoreInv, Publication
    <3>3. Published(req[x], t) => Published(req[x], t)'
      BY <3>1 DEF Published
    <3>4. Publishing(req[x], t) => \A q \in Proc \ {x} : ~Publishing(req'[q], t)
      BY <1>2, <1>7, <3>2
    <3>5. req[x].op = "download" /\ req[x].snap = t => ToRename(req[x]) \subseteq side'[t]
      <4>1. CASE t # s
        BY <3>2, <4>1
      <4>2. CASE t = s /\ ~Working(req[x], s)
        <5>1. req[x].op = "download" /\ req[x].snap = t => ToRename(req[x]) = {}
          BY <4>2 DEF Working, ToRename
        <5> QED BY <5>1
      <4>3. CASE t = s /\ Working(req[x], s)
        BY <1>5, <2>1, <2>3, <3>2, <4>3
      <4> QED BY <4>1, <4>2, <4>3
    <3> QED BY <3>1, <3>2, <3>3, <3>4, <3>5
  <2> QED BY <2>2, <2>3
<1>9. PublishedIndexed'
  <2>1. SUFFICES ASSUME NEW t \in Snap, dir'[t] # None, t \notin clashed', t \notin torn',
                        \A x \in Proc : ~Publishing(req'[x], t)
                 PROVE  man'[t] = {"tsm", "tsc"} /\ stamp'[t] # None
    BY DEF PublishedIndexed
  <2>2. t \notin clashed \cup torn
    BY <1>1, <2>1
  <2>3. CASE Publishing(v, t)
    <3>1. t = s /\ v.pc = "json"
      BY <2>3 DEF Publishing
    <3>2. Published(v, t)
      BY <2>2, <2>3 DEF StoreInv, Publication
    <3> QED BY <3>1, <3>2 DEF Published, StoreInv, TypeOK
  <2>4. CASE ~Publishing(v, t)
    BY <1>2, <2>1, <2>2, <2>4 DEF StoreInv, PublishedIndexed
  <2> QED BY <2>3, <2>4
<1> QED BY <1>1, <1>3, <1>4, <1>6, <1>8, <1>9 DEF StoreInv

\* What is known of a request in flight.
LEMMA InFlight ==
    ASSUME StoreInv, NEW p \in Proc, req[p].op # "none"
    PROVE  IsRequest(req[p]) /\ req[p].snap \in Snap
<1>1. IsRequest(req[p])
  BY DEF StoreInv, TypeOK
<1> QED BY <1>1, RequestType

\* A request ends, leaving the store as it is.
LEMMA DoneInv ==
    ASSUME StoreInv, NEW p \in Proc, req[p].op # "none", Done(p), Watch(FALSE),
           UNCHANGED <<dir, man, stamp, tmp, side>>,
           json' \in [Snap -> [parent : Parents] \cup {None}], ops' \in Nat,
           Publishing(req[p], req[p].snap) => req[p].pc = "json"
    PROVE  StoreInv'
<1>1. PICK s \in Snap : s = req[p].snap
  BY InFlight
<1>2. /\ tmp' \in [Snap -> TmpDirs \cup {None}]
      /\ side' \in [Snap -> SUBSET {"stamp", "tsm", "tsc"}]
  BY DEF StoreInv, TypeOK
<1>3. req' = [req EXCEPT ![p] = Idle]
  BY DEF Done
<1>4. /\ ~Publishing(Idle, s) /\ ~Removing(Idle, s) /\ Idle.op # "download"
      /\ IsRequest(Idle) /\ Idle.op = "none"
  BY IdleRequest DEF Publishing, Removing
<1> QED BY <1>1, <1>2, <1>3, <1>4, Draft

\* A request goes on without touching the store, publishing or assembling.
LEMMA GotoInv ==
    ASSUME StoreInv, NEW p \in Proc, req[p].op # "none", NEW l, Goto(p, l), Watch(FALSE),
           UNCHANGED <<store, ops>>, l \in Steps(req[p].op),
           l \in {"metadata", "create", "rename", "list", "relink", "rewrite", "subvol"},
           l = "rename" => req[p].op = "index", req[p].pc # "intersect",
           ~Publishing(req[p], req[p].snap)
    PROVE  StoreInv'
<1>1. PICK s \in Snap : s = req[p].snap
  BY InFlight
<1>2. PICK v : v = req[p]
  OBVIOUS
<1>3. /\ IsRequest(v) /\ l \in Steps(v.op)
      /\ v.op = "index" /\ l # "intersect" => v.parent # None
      /\ v.op = "download" /\ l = "write" => v.todo # <<>>
  BY <1>2, InFlight, RequestType
<1>4. PICK w : w = [v EXCEPT !.pc = l]
  OBVIOUS
<1>5. IsRequest(w) /\ w.op = v.op /\ w.pc = l /\ w.snap = s
  <2>1. IsRequest(w) /\ w.op = v.op /\ w.pc = l /\ w.snap = v.snap
    BY <1>3, <1>4, GotoRequest
  <2> QED BY <1>1, <1>2, <2>1
<1>6. req' = [req EXCEPT ![p] = w]
  BY <1>2, <1>4 DEF Goto
<1>7. /\ UNCHANGED <<dir, man, stamp, tmp, side, json, ops>>
      /\ json' \in [Snap -> [parent : Parents] \cup {None}] /\ ops' \in Nat
      /\ tmp' \in [Snap -> TmpDirs \cup {None}]
      /\ side' \in [Snap -> SUBSET {"stamp", "tsm", "tsc"}]
  BY DEF store, StoreInv, TypeOK
<1>8. ~Publishing(w, s) /\ ~Removing(w, s) /\ ~Publishing(v, s)
  BY <1>1, <1>2, <1>5 DEF Publishing, Removing
<1>9. /\ w.op = "download" => w.pc \in {"metadata", "create"}
      /\ w.op = "download" => ToRename(w) = {}
  <2>1. w.op = "download" => w.pc \in {"metadata", "create"}
    BY <1>2, <1>5 DEF Steps
  <2> QED BY <2>1 DEF ToRename
<1> QED BY <1>1, <1>2, <1>5, <1>6, <1>7, <1>8, <1>9, Draft

\* A download fails and cleans up after itself.
LEMMA AbortInv ==
    ASSUME StoreInv, NEW p \in Proc, req[p].op = "download",
           Working(req[p], req[p].snap), ~Publishing(req[p], req[p].snap),
           Abort(p), Watch(FALSE)
    PROVE  StoreInv'
<1>1. PICK s \in Snap : s = req[p].snap
  BY InFlight
<1>2. /\ UNCHANGED <<dir, man, stamp, json, ops>>
      /\ req' = [req EXCEPT ![p] = Idle]
      /\ tmp' = (IF tmp[s] # None /\ tmp[s].kind = "subvol" /\ ~tmp[s].nested
                 THEN [tmp EXCEPT ![s] = None] ELSE tmp)
      /\ side' = [side EXCEPT ![s] = {}]
  BY <1>1 DEF Abort, Cleanup, Done
<1>3. /\ json' \in [Snap -> [parent : Parents] \cup {None}] /\ ops' \in Nat
      /\ tmp' \in [Snap -> TmpDirs \cup {None}]
      /\ side' \in [Snap -> SUBSET {"stamp", "tsm", "tsc"}]
      /\ \A t \in Snap \ {s} : tmp'[t] = tmp[t] /\ side'[t] = side[t]
  BY <1>2 DEF StoreInv, TypeOK
<1>4. /\ ~Publishing(Idle, s) /\ ~Removing(Idle, s) /\ Idle.op # "download"
      /\ IsRequest(Idle) /\ Idle.op = "none"
  BY IdleRequest DEF Publishing, Removing
<1> QED BY <1>1, <1>2, <1>3, <1>4, Draft

LEMMA StartInv ==
    ASSUME StoreInv, NEW p \in Proc, Start(p), Watch(FALSE)
    PROVE  StoreInv'
<1>1. PICK s \in Snap :
         \/ req' = [req EXCEPT ![p] = Begin("download", "check", s, None)]
         \/ req' = [req EXCEPT ![p] = Begin("delete", "stat", s, None)]
         \/ \E b \in (Snap \ {s}) \cup {Base} : req' = [req EXCEPT ![p] = Begin("index", "stat", s, b)]
  BY DEF Start
<1>2. req[p].op = "none" /\ ~Publishing(req[p], s)
  BY IdleRequest DEF Start, Publishing
<1>3. PICK w : /\ req' = [req EXCEPT ![p] = w] /\ IsRequest(w) /\ w.snap = s
               /\ \/ w.op = "download" /\ w.pc = "check"
                  \/ w.op = "delete" /\ w.pc = "stat"
                  \/ w.op = "index" /\ w.pc = "stat"
  <2>1. CASE req' = [req EXCEPT ![p] = Begin("download", "check", s, None)]
    <3>1. "check" \in Steps("download") /\ None \in Parents
      BY DEF Steps, Parents
    <3>2. PICK w : w = Begin("download", "check", s, None)
      OBVIOUS
    <3>3. IsRequest(w) /\ w.op = "download" /\ w.pc = "check" /\ w.snap = s
      BY <3>1, <3>2, BeginRequest
    <3> QED BY <2>1, <3>2, <3>3, Zenon
  <2>2. CASE req' = [req EXCEPT ![p] = Begin("delete", "stat", s, None)]
    <3>1. "stat" \in Steps("delete") /\ None \in Parents
      BY DEF Steps, Parents
    <3>2. PICK w : w = Begin("delete", "stat", s, None)
      OBVIOUS
    <3>3. IsRequest(w) /\ w.op = "delete" /\ w.pc = "stat" /\ w.snap = s
      BY <3>1, <3>2, BeginRequest
    <3> QED BY <2>2, <3>2, <3>3, Zenon
  <2>3. CASE \E b \in (Snap \ {s}) \cup {Base} : req' = [req EXCEPT ![p] = Begin("index", "stat", s, b)]
    <3>1. PICK b \in (Snap \ {s}) \cup {Base} : req' = [req EXCEPT ![p] = Begin("index", "stat", s, b)]
      BY <2>3
    <3>2. "stat" \in Steps("index") /\ b \in Parents /\ b # None
      BY StoreAssumption, ChunkIndexAssumption DEF Steps, Parents
    <3>3. PICK w : w = Begin("index", "stat", s, b)
      OBVIOUS
    <3>4. IsRequest(w) /\ w.op = "index" /\ w.pc = "stat" /\ w.snap = s
      BY <3>2, <3>3, BeginRequest
    <3> QED BY <3>1, <3>3, <3>4, Zenon
  <2> QED BY <1>1, <2>1, <2>2, <2>3
<1>4. /\ UNCHANGED <<dir, man, stamp, tmp, side>>
      /\ json' \in [Snap -> [parent : Parents] \cup {None}] /\ ops' \in Nat
      /\ tmp' \in [Snap -> TmpDirs \cup {None}]
      /\ side' \in [Snap -> SUBSET {"stamp", "tsm", "tsc"}]
  BY DEF Start, store, StoreInv, TypeOK
<1>5. /\ ~Publishing(w, s) /\ ~Removing(w, s)
      /\ w.op = "download" => ToRename(w) = {} /\ w.pc = "check"
  BY <1>3 DEF Publishing, Removing, ToRename
<1> QED BY <1>2, <1>3, <1>4, <1>5, Draft

LEMMA DownloadCheckInv ==
    ASSUME StoreInv, NEW p \in Proc, DownloadCheck(p) \/ DownloadMetadata(p), Watch(FALSE)
    PROVE  StoreInv'
<1>1. /\ req[p].op = "download" /\ req[p].pc \in {"check", "metadata"}
      /\ UNCHANGED <<store, ops>>
      /\ Done(p) \/ Goto(p, "metadata") \/ Goto(p, "create")
  BY DEF DownloadCheck, DownloadMetadata, At
<1>2. /\ "metadata" \in Steps(req[p].op) /\ "create" \in Steps(req[p].op)
      /\ ~Publishing(req[p], req[p].snap)
  BY <1>1 DEF Steps, Publishing
<1>3. /\ UNCHANGED <<dir, man, stamp, tmp, side>>
      /\ json' \in [Snap -> [parent : Parents] \cup {None}] /\ ops' \in Nat
  BY <1>1 DEF store, StoreInv, TypeOK
<1>4. CASE Done(p)
  BY <1>1, <1>2, <1>3, <1>4, DoneInv
<1>5. CASE Goto(p, "metadata")
  BY <1>1, <1>2, <1>5, GotoInv
<1>6. CASE Goto(p, "create")
  BY <1>1, <1>2, <1>6, GotoInv
<1> QED BY <1>1, <1>4, <1>5, <1>6

\* What is cloned is the files of a snap that is here.
LEMMA AncestorHere ==
    ASSUME TypeOK, NEW id, NEW a, a = FindLocalAncestor(id), a # None
    PROVE  a \in Snap /\ dir[a] \in Dir
<1>1. Clonable(a)
  BY Zenon DEF FindLocalAncestor
<1> QED BY <1>1 DEF Clonable, TypeOK

\* A download directory is made of its fields.
LEMMA TmpDirFields ==
    ASSUME NEW k \in {"subvol", "plain"}, NEW fs \in [File -> Chunk \cup {None}],
           NEW ls \in SUBSET File, NEW j \in BOOLEAN, NEW n \in BOOLEAN, NEW pt \in SUBSET File,
           NEW w, w = [kind |-> k, files |-> fs, links |-> ls, junk |-> j, nested |-> n, part |-> pt]
    PROVE  w \in TmpDirs /\ w # None /\ w.files = fs /\ w.links = ls /\ w.junk = j
<1>1. w \in TmpDirs
  BY DEF TmpDirs
<1> QED BY <1>1, StoreAssumption

LEMMA TmpDirUpdate ==
    ASSUME NEW t \in TmpDirs
    PROVE  /\ t.kind \in {"subvol", "plain"} /\ t.files \in [File -> Chunk \cup {None}]
           /\ t.links \in SUBSET File /\ t.junk \in BOOLEAN
           /\ t.nested \in BOOLEAN /\ t.part \in SUBSET File
           /\ t = [kind |-> t.kind, files |-> t.files, links |-> t.links, junk |-> t.junk,
                   nested |-> t.nested, part |-> t.part]
BY DEF TmpDirs

\* A directory to assemble a snap in, with nothing in it or a clone.
LEMMA NewTmpDir ==
    ASSUME NEW k \in {"subvol", "plain"}, NEW d \in Dir, NEW w, w = TmpDir(k, d)
    PROVE  w \in TmpDirs /\ w # None
<1>1. /\ d.files \in [File -> Chunk \cup {None}] /\ d.links \in SUBSET File /\ d.junk \in BOOLEAN
  BY DEF Dir
<1>2. w \in TmpDirs
  BY <1>1 DEF TmpDirs, TmpDir
<1> QED BY <1>2, StoreAssumption

LEMMA EmptyIsDir == EmptyDir \in Dir
BY DEF EmptyDir, Dir


LEMMA DraftTypes ==
    ASSUME StoreInv, UNCHANGED <<json, ops>>
    PROVE  json' \in [Snap -> [parent : Parents] \cup {None}] /\ ops' \in Nat
BY DEF StoreInv, TypeOK

\* One download directory changes.
LEMMA TmpKept ==
    ASSUME TypeOK, NEW s \in Snap, NEW d \in TmpDirs \cup {None}, tmp' = [tmp EXCEPT ![s] = d]
    PROVE  /\ tmp' \in [Snap -> TmpDirs \cup {None}] /\ tmp'[s] = d
           /\ \A t \in Snap \ {s} : tmp'[t] = tmp[t]
BY DEF TypeOK

LEMMA DownloadCreateInv ==
    ASSUME StoreInv, NEW p \in Proc, DownloadCreate(p), Watch(FALSE)
    PROVE  StoreInv'
<1>1. /\ req[p].op = "download" /\ req[p].pc = "create"
      /\ UNCHANGED <<dir, man, stamp, json, side, ops>>
  BY DEF DownloadCreate, At
<1>2. PICK s \in Snap : s = req[p].snap
  BY <1>1, InFlight
<1>3. PICK c \in CloneSources(s) :
      \/ /\ tmp[s] = None
         /\ tmp' = [tmp EXCEPT ![s] = TmpDir("subvol", IF c = None THEN EmptyDir ELSE c)]
         /\ Goto(p, "prepare")
      \/ /\ tmp[s] # None /\ tmp' = [tmp EXCEPT ![s].nested = TRUE] /\ Goto(p, "prepare")
      \/ UNCHANGED tmp /\ Done(p)
  BY <1>2, Zenon DEF DownloadCreate
<1>4. c \in Dir \cup {None}
  <2>1. PICK a : a = FindLocalAncestor(Stamp[s])
    OBVIOUS
  <2>2. a # None => dir[a] \in Dir
    BY <2>1, AncestorHere DEF StoreInv
  <2>3. IF a = None THEN c \in BaseDirs ELSE c = dir[a]
    BY <1>3, <2>1 DEF CloneSources
  <2> QED BY <2>2, <2>3, StoreAssumption
<1>5. ~Publishing(req[p], req[p].snap) /\ "prepare" \in Steps("download")
  BY <1>1 DEF Publishing, Steps
<1>6. json' \in [Snap -> [parent : Parents] \cup {None}] /\ ops' \in Nat
  BY <1>1, DraftTypes
<1>7. CASE UNCHANGED tmp /\ Done(p)
  BY <1>1, <1>5, <1>6, <1>7, DoneInv
<1>8. ASSUME NEW d \in TmpDirs, tmp' = [tmp EXCEPT ![s] = d], Goto(p, "prepare")
      PROVE  StoreInv'
  <2>1. PICK v : v = req[p]
    OBVIOUS
  <2>2. PICK w : w = [v EXCEPT !.pc = "prepare"]
    OBVIOUS
  <2>3. IsRequest(v) /\ v.op = "download" /\ v.snap = s
    BY <1>1, <1>2, <2>1, InFlight
  <2>4. IsRequest(w) /\ w.op = "download" /\ w.pc = "prepare" /\ w.snap = s
    <3>1. "prepare" \in Steps(v.op)
      BY <1>5, <2>3
    <3>2. IsRequest(w) /\ w.op = v.op /\ w.pc = "prepare" /\ w.snap = v.snap
      BY <2>2, <2>3, <3>1, GotoRequest
    <3> QED BY <2>3, <3>2
  <2>5. req' = [req EXCEPT ![p] = w]
    BY <1>8, <2>1, <2>2 DEF Goto
  <2>6. /\ tmp' \in [Snap -> TmpDirs \cup {None}]
        /\ side' \in [Snap -> SUBSET {"stamp", "tsm", "tsc"}]
        /\ \A t \in Snap \ {s} : tmp'[t] = tmp[t] /\ side'[t] = side[t]
    BY <1>1, <1>8, TmpKept DEF StoreInv, TypeOK
  <2>7. /\ ~Publishing(w, s) /\ ~Removing(w, s) /\ ~Publishing(v, s)
        /\ Working(w, s) /\ ToRename(w) = {}
    BY <1>2, <1>5, <2>1, <2>4 DEF Publishing, Removing, Working, ToRename
  <2> QED BY <1>1, <1>6, <2>1, <2>3, <2>4, <2>5, <2>6, <2>7, Draft
<1>9. CASE /\ tmp[s] = None /\ Goto(p, "prepare")
           /\ tmp' = [tmp EXCEPT ![s] = TmpDir("subvol", IF c = None THEN EmptyDir ELSE c)]
  <2>1. PICK e : e = IF c = None THEN EmptyDir ELSE c
    OBVIOUS
  <2>2. e \in Dir
    BY <1>4, <2>1, EmptyIsDir
  <2>3. PICK d : d = TmpDir("subvol", e)
    OBVIOUS
  <2>4. d \in TmpDirs
    BY <2>2, <2>3, NewTmpDir
  <2>5. tmp' = [tmp EXCEPT ![s] = d]
    BY <1>9, <2>1, <2>3
  <2> QED BY <1>8, <1>9, <2>4, <2>5
<1>10. CASE tmp[s] # None /\ tmp' = [tmp EXCEPT ![s].nested = TRUE] /\ Goto(p, "prepare")
  <2>1. PICK d : d = [tmp[s] EXCEPT !.nested = TRUE]
    OBVIOUS
  <2>2. tmp[s] \in TmpDirs
    BY <1>10 DEF StoreInv, TypeOK
  <2>3. d \in TmpDirs
    BY <2>1, <2>2 DEF TmpDirs
  <2>4. tmp' = [tmp EXCEPT ![s] = d]
    BY <1>10, <2>1
  <2> QED BY <1>8, <1>10, <2>3, <2>4
<1> QED BY <1>3, <1>7, <1>9, <1>10


\* A download goes on working in its directory.
LEMMA WorkOn ==
    ASSUME StoreInv, NEW p \in Proc, NEW s \in Snap, NEW v, v = req[p],
           v.op = "download", v.snap = s, ~Publishing(v, s), Working(v, s),
           NEW w, IsRequest(w), req' = [req EXCEPT ![p] = w], Watch(FALSE),
           w.op = "download", w.snap = s, w.pc \in {"index", "find", "write"},
           UNCHANGED <<dir, man, stamp, json, side, ops>>,
           NEW d \in TmpDirs, tmp' = [tmp EXCEPT ![s] = d],
           s \notin clashed => /\ Missing(w) \subseteq Range(Manifest[s])
                              /\ \A f \in File \ Missing(w) : Holds(d, s, f)
    PROVE  StoreInv'
<1>1. json' \in [Snap -> [parent : Parents] \cup {None}] /\ ops' \in Nat
  BY DraftTypes
<1>2. /\ tmp' \in [Snap -> TmpDirs \cup {None}] /\ tmp'[s] = d
      /\ \A t \in Snap \ {s} : tmp'[t] = tmp[t] /\ side'[t] = side[t]
      /\ side' \in [Snap -> SUBSET {"stamp", "tsm", "tsc"}]
  BY TmpKept DEF StoreInv, TypeOK
<1>3. tmp'[s] # None
  BY <1>2, StoreAssumption
<1>4. clashed \subseteq clashed'
  BY Watched DEF StoreInv
<1>5. ~Publishing(w, s) /\ ~Removing(w, s) /\ ToRename(w) = {}
  BY DEF Publishing, Removing, ToRename
<1>6. s \notin clashed' =>
         tmp'[s] # None /\ Missing(w) \subseteq Range(Manifest[s]) /\ \A f \in File \ Missing(w) : Holds(tmp'[s], s, f)
  BY <1>2, <1>3, <1>4
<1>7. ToRename(w) \subseteq side'[s]
  BY <1>5
<1> QED BY <1>1, <1>2, <1>5, <1>6, <1>7, Draft

LEMMA DownloadPrepareInv ==
    ASSUME StoreInv, NEW p \in Proc, DownloadPrepare(p), Watch(FALSE)
    PROVE  StoreInv'
<1>1. PICK v : v = req[p]
  OBVIOUS
<1>2. v.op = "download" /\ v.pc = "prepare"
  BY <1>1 DEF DownloadPrepare, At
<1>3. PICK s \in Snap : s = v.snap
  BY <1>1, <1>2, InFlight
<1>4. IsRequest(v) /\ ~Publishing(v, s) /\ Working(v, s)
  BY <1>1, <1>2, <1>3, InFlight DEF Publishing, Working
<1>5. CASE Abort(p)
  BY <1>1, <1>2, <1>3, <1>4, <1>5, AbortInv
<1>6. PICK t : t = tmp[s]
  OBVIOUS
<1>7. ASSUME tmp[s] # None, Goto(p, "index"), UNCHANGED <<dir, man, stamp, json, side, ops>>,
             NEW d \in TmpDirs, tmp' = [tmp EXCEPT ![s] = d],
             \A f \in File : Content[s][f] = None => Holds(d, s, f)
      PROVE  StoreInv'
  <2>1. PICK w : w = [v EXCEPT !.pc = "index"]
    OBVIOUS
  <2>2. IsRequest(w) /\ w.op = "download" /\ w.pc = "index" /\ w.snap = s
    <3>1. "index" \in Steps(v.op)
      BY <1>2 DEF Steps
    <3>2. IsRequest(w) /\ w.op = v.op /\ w.pc = "index" /\ w.snap = v.snap
      BY <1>2, <1>4, <2>1, <3>1, GotoRequest
    <3> QED BY <1>2, <1>3, <3>2
  <2>3. req' = [req EXCEPT ![p] = w]
    BY <1>1, <1>7, <2>1 DEF Goto
  <2>4. Missing(w) \subseteq Range(Manifest[s]) /\ \A f \in File \ Missing(w) : Holds(d, s, f)
    <3>1. Missing(w) = Range(Manifest[s])
      BY <2>2 DEF Missing
    <3> QED BY <1>7, <3>1, ManifestAssumption
  <2>5. /\ v = req[p] /\ v.op = "download" /\ v.snap = s /\ w.pc \in {"index", "find", "write"}
        /\ UNCHANGED <<dir, man, stamp, json, side, ops>>
    BY <1>1, <1>2, <1>3, <1>7, <2>2
  <2> QED BY <1>4, <1>7, <2>2, <2>3, <2>4, <2>5, WorkOn
<1>8. ASSUME tmp[s] # None, NEW stay
      PROVE  \E fs \in [File -> Chunk \cup {None}], ls \in SUBSET File :
             /\ \A f \in File : Content[s][f] = None /\ f \notin stay => fs[f] = None
             /\ Prepared(s, stay) = [kind |-> t.kind, files |-> fs, links |-> ls, junk |-> t.junk,
                                     nested |-> t.nested, part |-> {}]
  <2>1. t \in TmpDirs
    BY <1>6, <1>8 DEF StoreInv, TypeOK
  <2>2. t.files \in [File -> Chunk \cup {None}] /\ t.links \in SUBSET File
    BY <2>1, TmpDirUpdate
  <2>3. PICK fs, ls :
           /\ fs = [f \in File |-> IF Content[s][f] = None /\ f \notin stay THEN None ELSE t.files[f]]
           /\ ls = {f \in t.links : Content[s][f] # None \/ f \in stay}
    OBVIOUS
  <2>4. Prepared(s, stay) = [t EXCEPT !.files = fs, !.links = ls, !.part = {}]
    BY <1>6, <2>3 DEF Prepared
  <2>5. Prepared(s, stay) = [kind |-> t.kind, files |-> fs, links |-> ls, junk |-> t.junk,
                             nested |-> t.nested, part |-> {}]
    BY <2>1, <2>4 DEF TmpDirs
  <2>6. /\ fs \in [File -> Chunk \cup {None}] /\ ls \in SUBSET File
        /\ \A f \in File : Content[s][f] = None /\ f \notin stay => fs[f] = None
    BY <2>2, <2>3
  <2> QED BY <2>5, <2>6, Zenon
<1>9. tmp[s] # None =>
         /\ t.kind \in {"subvol", "plain"} /\ t.nested \in BOOLEAN
         /\ {} \in SUBSET File /\ TRUE \in BOOLEAN /\ FALSE \in BOOLEAN
  BY <1>6, TmpDirUpdate DEF StoreInv, TypeOK
<1>10. CASE /\ tmp[s] # None /\ Goto(p, "index") /\ UNCHANGED <<dir, man, stamp, json, side, ops>>
            /\ tmp' = [tmp EXCEPT ![s] = [Prepared(s, {}) EXCEPT !.nested = FALSE, !.junk = FALSE]]
  <2>1. PICK e : e = Prepared(s, {})
    OBVIOUS
  <2>2. PICK fs \in [File -> Chunk \cup {None}], ls \in SUBSET File :
           /\ \A f \in File : Content[s][f] = None /\ f \notin {} => fs[f] = None
           /\ e = [kind |-> t.kind, files |-> fs, links |-> ls, junk |-> t.junk,
                   nested |-> t.nested, part |-> {}]
    BY <1>8, <1>10, <2>1
  <2>3. PICK u : u = [e EXCEPT !.nested = FALSE]
    OBVIOUS
  <2>4. u = [kind |-> t.kind, files |-> fs, links |-> ls, junk |-> t.junk, nested |-> FALSE, part |-> {}]
    BY <2>2, <2>3
  <2>5. PICK d : d = [u EXCEPT !.junk = FALSE]
    OBVIOUS
  <2>6. d = [kind |-> t.kind, files |-> fs, links |-> ls, junk |-> FALSE, nested |-> FALSE, part |-> {}]
    BY <2>4, <2>5
  <2>7. d \in TmpDirs /\ d.files = fs
    BY <1>9, <1>10, <2>6 DEF TmpDirs
  <2>8. \A f \in File : Content[s][f] = None => Holds(d, s, f)
    BY <2>2, <2>7 DEF Holds
  <2>9. d = [e EXCEPT !.nested = FALSE, !.junk = FALSE]
    BY <2>3, <2>5, Zenon
  <2>10. tmp' = [tmp EXCEPT ![s] = d]
    BY <1>10, <2>1, <2>9, Zenon
  <2> QED BY <1>7, <1>10, <2>7, <2>8, <2>10
<1>11. ASSUME tmp[s] # None, Goto(p, "index"), UNCHANGED <<dir, man, stamp, json, side, ops>>, NEW stay,
              tmp' = [tmp EXCEPT ![s] = [Prepared(s, stay) EXCEPT !.junk = TRUE]]
       PROVE  StoreInv'
  <2>1. PICK e : e = Prepared(s, stay)
    OBVIOUS
  <2>2. PICK fs \in [File -> Chunk \cup {None}], ls \in SUBSET File :
           e = [kind |-> t.kind, files |-> fs, links |-> ls, junk |-> t.junk,
                nested |-> t.nested, part |-> {}]
    BY <1>8, <1>11, <2>1
  <2>3. PICK d : d = [e EXCEPT !.junk = TRUE]
    OBVIOUS
  <2>4. d = [kind |-> t.kind, files |-> fs, links |-> ls, junk |-> TRUE, nested |-> t.nested, part |-> {}]
    BY <2>2, <2>3
  <2>5. d \in TmpDirs /\ d.junk = TRUE
    BY <1>9, <1>11, <2>4 DEF TmpDirs
  <2>6. \A f \in File : Content[s][f] = None => Holds(d, s, f)
    BY <2>5 DEF Holds
  <2>7. tmp' = [tmp EXCEPT ![s] = d]
    BY <1>11, <2>1, <2>3
  <2> QED BY <1>7, <1>11, <2>5, <2>6, <2>7
<1> QED BY <1>1, <1>3, <1>5, <1>10, <1>11, Zenon DEF DownloadPrepare

\* What a download has brought in so far.
LEMMA AssemblingAt ==
    ASSUME StoreInv, NEW p \in Proc, NEW v, v = req[p], v.op = "download",
           v.pc \in {"index", "find", "write", "rename"}, v.snap \notin clashed
    PROVE  /\ tmp[v.snap] # None /\ Missing(v) \subseteq Range(Manifest[v.snap])
           /\ \A f \in File \ Missing(v) : Holds(tmp[v.snap], v.snap, f)
BY DEF StoreInv, Assembling

\* Lists of files, as a predicate the provers need not look into.
FileList(t) == t \in Seq(File)

\* A download with another index, list of files or location.
LEMMA WorkRequest ==
    ASSUME NEW v, IsRequest(v), v.op = "download", NEW pc, pc \in {"find", "write"},
           NEW i, NEW t, FileList(t), NEW l, pc = "write" => t # <<>>,
           NEW w, w = Request("download", pc, v.snap, v.parent, i, t, l, v.missed)
    PROVE  IsRequest(w)
<1>1. /\ w.op = "download" /\ w.pc = pc /\ w.snap = v.snap /\ w.parent = v.parent
      /\ w.ix = i /\ w.todo = t /\ w.loc = l /\ w.missed = v.missed
  BY RequestFields
<1>2. w = Request(w.op, w.pc, w.snap, w.parent, w.ix, w.todo, w.loc, w.missed)
  BY <1>1
<1>3. v.snap \in Snap /\ v.parent \in Parents /\ t \in Seq(File)
  BY RequestType DEF FileList
<1>4. pc \in Steps("download")
  BY DEF Steps
<1> QED BY <1>1, <1>2, <1>3, <1>4, RequestType

LEMMA DownloadIndexInv ==
    ASSUME StoreInv, NEW p \in Proc, DownloadIndex(p), Watch(FALSE)
    PROVE  StoreInv'
<1>1. PICK v : v = req[p]
  OBVIOUS
<1>2. v.op = "download" /\ v.pc = "index" /\ UNCHANGED <<dir, man, stamp, json, tmp, side, ops>>
  BY <1>1 DEF DownloadIndex, At, store
<1>3. PICK s \in Snap : s = v.snap
  BY <1>1, <1>2, InFlight
<1>4. IsRequest(v) /\ ~Publishing(v, s) /\ Working(v, s)
  BY <1>1, <1>2, <1>3, InFlight DEF Publishing, Working
<1>5. PICK i : req' = [req EXCEPT ![p].pc = "find", ![p].ix = i, ![p].todo = Manifest[s]]
  BY Zenon, <1>1, <1>3 DEF DownloadIndex
<1>6. v = Request(v.op, v.pc, v.snap, v.parent, v.ix, v.todo, v.loc, v.missed)
  BY <1>4, RequestType
<1>7. PICK w : w = [v EXCEPT !.pc = "find", !.ix = i, !.todo = Manifest[s]]
  OBVIOUS
<1>8. req' = [req EXCEPT ![p] = w]
  BY <1>1, <1>5, <1>7
<1>9. IsRequest(w) /\ w.op = "download" /\ w.pc = "find" /\ w.snap = s /\ w.todo = Manifest[s]
  <2>1. PICK t : t = Manifest[s]
    OBVIOUS
  <2>2. FileList(t)
    BY <2>1, ManifestAssumption DEF FileList
  <2>3. w = Request("download", "find", v.snap, v.parent, i, t, v.loc, v.missed)
    BY <1>2, <1>6, <1>7, <2>1 DEF Request
  <2>4. /\ IsRequest(w) /\ w.op = "download" /\ w.pc = "find" /\ w.snap = v.snap
        /\ w.todo = t
    <3>1. IsRequest(w)
      BY <1>2, <1>4, <2>2, <2>3, WorkRequest, Zenon
    <3> QED BY <2>3, <3>1, RequestFields
  <2> QED BY <1>3, <2>1, <2>4
<1>10. Missing(w) = Missing(v)
  BY <1>2, <1>3, <1>9 DEF Missing
<1>11. /\ json' \in [Snap -> [parent : Parents] \cup {None}] /\ ops' \in Nat
       /\ tmp' \in [Snap -> TmpDirs \cup {None}]
       /\ side' \in [Snap -> SUBSET {"stamp", "tsm", "tsc"}]
  BY <1>2 DEF StoreInv, TypeOK
<1>12. s \notin clashed' =>
          tmp'[s] # None /\ Missing(w) \subseteq Range(Manifest[s]) /\ \A f \in File \ Missing(w) : Holds(tmp'[s], s, f)
  <2>1. clashed \subseteq clashed'
    BY Watched DEF StoreInv
  <2> QED BY <1>1, <1>2, <1>3, <1>10, <2>1, AssemblingAt
<1>13. ~Publishing(w, s) /\ ~Removing(w, s) /\ ToRename(w) = {}
  BY <1>9 DEF Publishing, Removing, ToRename
<1>14. /\ v.snap = s /\ UNCHANGED <<dir, man, stamp>> /\ tmp' = tmp /\ side' = side
       /\ ToRename(w) \subseteq side'[s]
  BY <1>2, <1>3, <1>13
<1> QED BY <1>1, <1>4, <1>8, <1>9, <1>11, <1>12, <1>13, <1>14, Draft

\* MkdirAll leaves a download directory that is there.
LEMMA MkdirTmp ==
    ASSUME StoreInv, NEW s \in Snap, NEW d, d = Mkdir(s)
    PROVE  d \in TmpDirs /\ (tmp[s] # None => d = tmp[s])
<1>1. CASE tmp[s] = None
  BY <1>1, EmptyIsDir, NewTmpDir DEF Mkdir
<1>2. CASE tmp[s] # None
  BY <1>2 DEF Mkdir, StoreInv, TypeOK
<1> QED BY <1>1, <1>2

LEMMA DownloadFindInv ==
    ASSUME StoreInv, NEW p \in Proc, DownloadFind(p), Watch(FALSE)
    PROVE  StoreInv'
<1>1. PICK v : v = req[p]
  OBVIOUS
<1>2. v.op = "download" /\ v.pc = "find" /\ v.todo # <<>>
  BY <1>1 DEF DownloadFind, At
<1>3. PICK s \in Snap : s = v.snap
  BY <1>1, <1>2, InFlight
<1>4. IsRequest(v) /\ ~Publishing(v, s) /\ Working(v, s)
  BY <1>1, <1>2, <1>3, InFlight DEF Publishing, Working
<1>5. PICK f, r :
         /\ f = Head(v.todo)
         /\ \/ /\ tmp' = [tmp EXCEPT ![s] = [Mkdir(s) EXCEPT !.part = @ \cup {f}]]
               /\ req' = [req EXCEPT ![p].pc = "write", ![p].ix = r.ix, ![p].loc = r.loc]
               /\ UNCHANGED <<dir, man, stamp, json, side, ops>>
            \/ Abort(p)
  BY <1>1, <1>3, Zenon DEF DownloadFind
<1>6. CASE Abort(p)
  BY <1>1, <1>2, <1>3, <1>4, <1>6, AbortInv
<1>7. CASE /\ tmp' = [tmp EXCEPT ![s] = [Mkdir(s) EXCEPT !.part = @ \cup {f}]]
           /\ req' = [req EXCEPT ![p].pc = "write", ![p].ix = r.ix, ![p].loc = r.loc]
           /\ UNCHANGED <<dir, man, stamp, json, side, ops>>
  <2>1. v.todo \in Seq(File) /\ f \in File
    <3>1. v.todo \in Seq(File)
      BY <1>2, <1>4, RequestType
    <3> QED BY <1>2, <1>5, <3>1
  <2>2. PICK e : e = Mkdir(s)
    OBVIOUS
  <2>3. e \in TmpDirs /\ (tmp[s] # None => e = tmp[s])
    BY <2>2, MkdirTmp
  <2>4. PICK d : d = [e EXCEPT !.part = e.part \cup {f}]
    OBVIOUS
  <2>5. d \in TmpDirs /\ d.files = e.files /\ d.links = e.links /\ d.junk = e.junk
    BY <2>1, <2>3, <2>4 DEF TmpDirs
  <2>6. tmp' = [tmp EXCEPT ![s] = d]
    BY <1>7, <2>2, <2>4
  <2>7. PICK w : w = [v EXCEPT !.pc = "write", !.ix = r.ix, !.loc = r.loc]
    OBVIOUS
  <2>8. v = Request(v.op, v.pc, v.snap, v.parent, v.ix, v.todo, v.loc, v.missed)
    BY <1>4, RequestType
  <2>9. req' = [req EXCEPT ![p] = w]
    BY <1>1, <1>7, <2>7
  <2>10. IsRequest(w) /\ w.op = "download" /\ w.pc = "write" /\ w.snap = s /\ w.todo = v.todo
    <3>1. PICK i, l : i = r.ix /\ l = r.loc
      OBVIOUS
    <3>2. w = Request("download", "write", v.snap, v.parent, i, v.todo, l, v.missed)
      BY <1>2, <2>7, <2>8, <3>1 DEF Request
    <3>3. FileList(v.todo)
      BY <2>1 DEF FileList
    <3>4. /\ IsRequest(w) /\ w.op = "download" /\ w.pc = "write" /\ w.snap = v.snap
          /\ w.todo = v.todo
      <4>1. IsRequest(w)
        BY <1>2, <1>4, <3>2, <3>3, WorkRequest, Zenon
      <4> QED BY <3>2, <4>1, RequestFields
    <3> QED BY <1>3, <3>4
  <2>11. Missing(w) = Missing(v)
    BY <1>2, <2>10 DEF Missing
  <2>12. s \notin clashed => Missing(w) \subseteq Range(Manifest[s]) /\ \A x \in File \ Missing(w) : Holds(d, s, x)
    BY <1>1, <1>2, <1>3, <2>3, <2>5, <2>11, AssemblingAt DEF Holds
  <2>13. v.snap = s /\ UNCHANGED <<dir, man, stamp, json, side, ops>> /\ w.pc \in {"index", "find", "write"}
    BY <1>3, <1>7, <2>10
  <2> QED BY <1>1, <1>2, <1>4, <2>5, <2>6, <2>9, <2>10, <2>12, <2>13, WorkOn
<1> QED BY <1>5, <1>6, <1>7

\* A list is its head and its tail.
LEMMA RangeTail ==
    ASSUME NEW S, NEW t \in Seq(S), t # <<>>
    PROVE  Head(t) \in S /\ Tail(t) \in Seq(S) /\ Range(t) = {Head(t)} \cup Range(Tail(t))
<1>1. /\ Head(t) \in S /\ Tail(t) \in Seq(S) /\ Head(t) = t[1] /\ Len(Tail(t)) = Len(t) - 1
      /\ \A i \in 1..Len(Tail(t)) : Tail(t)[i] = t[i + 1]
  BY HeadTailProperties
<1>2. ASSUME NEW i \in 1..Len(t), i # 1
      PROVE  t[i] \in Range(Tail(t))
  <2>1. i - 1 \in 1..Len(Tail(t)) /\ Tail(t)[i - 1] = t[i]
    BY <1>1, <1>2
  <2>2. PICK u \in Seq(S) : u = Tail(t)
    BY <1>1
  <2>3. DOMAIN u = 1..Len(u)
    OBVIOUS
  <2> QED BY <2>1, <2>2, <2>3 DEF Range
<1>3. Range(t) = {t[i] : i \in 1..Len(t)} /\ 1 \in 1..Len(t)
  BY DEF Range
<1>4. ASSUME NEW x \in Range(Tail(t))
      PROVE  x \in Range(t)
  <2>1. PICK u \in Seq(S) : u = Tail(t)
    BY <1>1
  <2>2. PICK i \in 1..Len(u) : x = u[i]
    BY <1>4, <2>1 DEF Range
  <2>3. i + 1 \in 1..Len(t) /\ x = t[i + 1]
    BY <1>1, <2>1, <2>2
  <2> QED BY <1>3, <2>3
<1> QED BY <1>1, <1>2, <1>3, <1>4

\* Whatever was read, the chunk of the manifest is written.
LEMMA ChunkWritten ==
    ASSUME NEW bytes, NEW c
    PROVE  OrFetched(VerifyAndRead(bytes, c), c) = c
BY DEF OrFetched, VerifyAndRead

LEMMA DownloadWriteInv ==
    ASSUME StoreInv, NEW p \in Proc, DownloadWrite(p), Watch(FALSE)
    PROVE  StoreInv'
<1>1. PICK v : v = req[p]
  OBVIOUS
<1>2. v.op = "download" /\ v.pc = "write"
  BY Zenon, <1>1 DEF DownloadWrite, At
<1>3. PICK s \in Snap : s = v.snap
  BY <1>1, <1>2, InFlight
<1>4. IsRequest(v) /\ ~Publishing(v, s) /\ Working(v, s)
  BY <1>1, <1>2, <1>3, InFlight DEF Publishing, Working
<1>5. PICK f, c, bytes :
         /\ f = Head(v.todo) /\ c = Content[s][f]
         /\ \/ /\ InPart(s, f)
               /\ tmp' = [tmp EXCEPT ![s].part = @ \ {f},
                                     ![s].files[f] = IF f \in tmp[s].links THEN @
                                                     ELSE OrFetched(VerifyAndRead(bytes, c), c)]
               /\ req' = [req EXCEPT ![p].pc = "find", ![p].todo = Tail(@), ![p].loc = None]
               /\ UNCHANGED <<dir, man, stamp, json, side, ops>>
            \/ Abort(p)
  BY <1>1, <1>3, Zenon DEF DownloadWrite
<1>6. CASE Abort(p)
  BY <1>1, <1>2, <1>3, <1>4, <1>6, AbortInv
<1>7. CASE /\ InPart(s, f)
           /\ tmp' = [tmp EXCEPT ![s].part = @ \ {f},
                                 ![s].files[f] = IF f \in tmp[s].links THEN @
                                                     ELSE OrFetched(VerifyAndRead(bytes, c), c)]
           /\ req' = [req EXCEPT ![p].pc = "find", ![p].todo = Tail(@), ![p].loc = None]
           /\ UNCHANGED <<dir, man, stamp, json, side, ops>>
  <2>1. v.todo \in Seq(File) /\ v.todo # <<>>
    BY <1>2, <1>4, RequestType
  <2>2. PICK t : t = Tail(v.todo)
    OBVIOUS
  <2>3. f \in File /\ FileList(t) /\ Range(v.todo) = {f} \cup Range(t)
    BY <1>5, <2>1, <2>2, RangeTail DEF FileList
  <2>4. PICK e : e = tmp[s]
    OBVIOUS
  <2>5. e \in TmpDirs
    BY <1>7, <2>4 DEF InPart, StoreInv, TypeOK
  <2>6. c \in Chunk \cup {None}
    BY <1>5, <2>3, StoreAssumption
  <2>18. PICK b : b = IF f \in e.links THEN e.files[f] ELSE c
    OBVIOUS
  <2>19. b \in Chunk \cup {None}
    BY <2>3, <2>5, <2>6, <2>18, TmpDirUpdate
  <2>7. PICK d : d = [e EXCEPT !.part = e.part \ {f}, !.files[f] = b]
    OBVIOUS
  <2>8. /\ d \in TmpDirs /\ d.files = [e.files EXCEPT ![f] = b]
        /\ d.links = e.links /\ d.junk = e.junk
    BY <2>3, <2>5, <2>19, <2>7 DEF TmpDirs
  <2>9. tmp' = [tmp EXCEPT ![s] = d]
    <3>1. tmp' = [tmp EXCEPT ![s].part = @ \ {f}, ![s].files[f] = IF f \in tmp[s].links THEN @ ELSE c]
      BY <1>7, ChunkWritten
    <3> QED BY <2>4, <2>18, <2>7, <3>1, ZenonT(60) DEF StoreInv, TypeOK
  <2>10. PICK w : w = [v EXCEPT !.pc = "find", !.todo = t, !.loc = None]
    OBVIOUS
  <2>11. v = Request(v.op, v.pc, v.snap, v.parent, v.ix, v.todo, v.loc, v.missed)
    BY <1>4, RequestType
  <2>12. req' = [req EXCEPT ![p] = w]
    <3>1. DOMAIN req = Proc
      BY DEF StoreInv, TypeOK
    <3>2. v.todo = req[p].todo
      BY <1>1
    <3> QED BY <1>1, <1>7, <2>2, <2>10, <2>11, <3>1 DEF Request
  <2>13. w = Request("download", "find", v.snap, v.parent, v.ix, t, None, v.missed)
    BY <1>2, <2>10, <2>11 DEF Request
  <2>14. IsRequest(w) /\ w.op = "download" /\ w.pc = "find" /\ w.snap = s /\ w.todo = t
    <3>1. IsRequest(w)
      BY <1>2, <1>4, <2>3, <2>13, WorkRequest, Zenon
    <3>2. w.op = "download" /\ w.pc = "find" /\ w.snap = v.snap /\ w.todo = t
      BY <2>13, RequestFields
    <3> QED BY <1>3, <3>1, <3>2
  <2>15. Missing(v) = {f} \cup Missing(w)
    BY <1>2, <2>3, <2>14 DEF Missing
  <2>16. s \notin clashed => Missing(w) \subseteq Range(Manifest[s]) /\ \A x \in File \ Missing(w) : Holds(d, s, x)
    <3>1. e.files \in [File -> Chunk \cup {None}]
      BY <2>5 DEF TmpDirs
    <3>2. s \notin clashed => Missing(v) \subseteq Range(Manifest[s]) /\ \A x \in File \ Missing(v) : Holds(e, s, x)
      BY <1>1, <1>2, <1>3, <2>4, AssemblingAt
    <3>3. s \notin clashed => Content[s][f] # None
      BY <2>3, <2>15, <3>2, ManifestAssumption
    <3> QED BY <1>5, <2>8, <2>15, <2>18, <3>1, <3>2, <3>3 DEF Holds
  <2>17. v.snap = s /\ UNCHANGED <<dir, man, stamp, json, side, ops>> /\ w.pc \in {"index", "find", "write"}
    BY <1>3, <1>7, <2>14
  <2> QED BY <1>1, <1>2, <1>4, <2>8, <2>9, <2>12, <2>14, <2>16, <2>17, WorkOn, ZenonT(60)
<1> QED BY Zenon, <1>5, <1>6, <1>7

LEMMA DownloadEntriesInv ==
    ASSUME StoreInv, NEW p \in Proc, DownloadEntries(p), Watch(FALSE)
    PROVE  StoreInv'
<1>1. PICK v : v = req[p]
  OBVIOUS
<1>2. v.op = "download" /\ v.pc = "find" /\ v.todo = <<>>
  BY <1>1 DEF DownloadEntries, At
<1>3. PICK s \in Snap : s = v.snap
  BY <1>1, <1>2, InFlight
<1>4. IsRequest(v) /\ ~Publishing(v, s) /\ Working(v, s)
  BY <1>1, <1>2, <1>3, InFlight DEF Publishing, Working
<1>5. CASE Abort(p)
  BY <1>1, <1>2, <1>3, <1>4, <1>5, AbortInv
<1>6. CASE /\ tmp' = [tmp EXCEPT ![s] = [Mkdir(s) EXCEPT !.links = @ \cup Links[s]]]
           /\ side' = [side EXCEPT ![s] = {"stamp", "tsm", "tsc"}]
           /\ req' = [req EXCEPT ![p] = Begin("download", "rename", s, None)]
           /\ UNCHANGED <<dir, man, stamp, json, ops>>
  <2>12. PICK e : e = Mkdir(s)
    OBVIOUS
  <2>13. e \in TmpDirs /\ (tmp[s] # None => e = tmp[s])
    BY <2>12, MkdirTmp
  <2>1. PICK d : d = [e EXCEPT !.links = e.links \cup Links[s]]
    OBVIOUS
  <2>2. d \in TmpDirs /\ d.files = e.files /\ d.junk = e.junk /\ e.links \subseteq d.links
    BY <2>1, <2>13, ManifestAssumption DEF TmpDirs
  <2>3. PICK w : w = Begin("download", "rename", s, None)
    OBVIOUS
  <2>4. IsRequest(w) /\ w.op = "download" /\ w.pc = "rename" /\ w.snap = s
    <3>1. "rename" \in Steps("download") /\ None \in Parents
      BY DEF Steps, Parents
    <3> QED BY <2>3, <3>1, BeginRequest
  <2>5. tmp' = [tmp EXCEPT ![s] = d]
    BY <1>6, <2>1, <2>12
  <2>6. /\ tmp' \in [Snap -> TmpDirs \cup {None}] /\ tmp'[s] = d
        /\ \A t \in Snap \ {s} : tmp'[t] = tmp[t]
    BY <2>2, <2>5, TmpKept DEF StoreInv
  <2>7. /\ side' \in [Snap -> SUBSET {"stamp", "tsm", "tsc"}] /\ side'[s] = {"stamp", "tsm", "tsc"}
        /\ \A t \in Snap \ {s} : side'[t] = side[t]
    BY <1>6 DEF StoreInv, TypeOK
  <2>8. s \notin clashed' => tmp'[s] # None /\ Missing(w) \subseteq Range(Manifest[s]) /\ \A f \in File \ Missing(w) : Holds(tmp'[s], s, f)
    <3>1. Missing(v) = {}
      BY <1>2 DEF Missing, Range
    <3>2. clashed \subseteq clashed'
      BY Watched DEF StoreInv
    <3>3. Missing(w) = {} /\ d # None
      BY <2>2, <2>4, StoreAssumption DEF Missing
    <3>4. s \notin clashed => tmp[s] # None /\ \A f \in File : Holds(tmp[s], s, f)
      BY <1>1, <1>2, <1>3, <3>1, AssemblingAt
    <3>5. s \notin clashed => \A f \in File : Holds(d, s, f)
      BY <2>2, <2>13, <3>4 DEF Holds
    <3> QED BY <2>6, <3>2, <3>3, <3>5
  <2>9. /\ ~Publishing(w, s) /\ ~Removing(w, s) /\ ToRename(w) \subseteq side'[s]
    BY <2>4, <2>7 DEF Publishing, Removing, ToRename
  <2>10. /\ json' \in [Snap -> [parent : Parents] \cup {None}] /\ ops' \in Nat
         /\ UNCHANGED <<dir, man, stamp>> /\ v.snap = s
    BY <1>3, <1>6, DraftTypes
  <2>11. req' = [req EXCEPT ![p] = w]
    BY <1>6, <2>3
  <2> QED BY <1>1, <1>4, <2>4, <2>6, <2>7, <2>8, <2>9, <2>10, <2>11, Draft, ZenonT(60)
<1> QED BY <1>1, <1>3, <1>5, <1>6, Zenon DEF DownloadEntries

\* An index or a deletion with other fields.
LEMMA LocalRequest ==
    ASSUME NEW v, IsRequest(v), v.op \in {"index", "delete"}, NEW pc, pc \in Steps(v.op),
           NEW b, b \in Parents, v.op = "index" /\ pc # "intersect" => b # None,
           NEW i, NEW t, NEW l, NEW m, NEW w, w = Request(v.op, pc, v.snap, b, i, t, l, m)
    PROVE  IsRequest(w)
<1>1. /\ w.op = v.op /\ w.pc = pc /\ w.snap = v.snap /\ w.parent = b
      /\ w.ix = i /\ w.todo = t /\ w.loc = l /\ w.missed = m
  BY RequestFields
<1>2. w = Request(w.op, w.pc, w.snap, w.parent, w.ix, w.todo, w.loc, w.missed)
  BY <1>1
<1>3. v.snap \in Snap
  BY RequestType
<1> QED BY <1>1, <1>2, <1>3, RequestType

\* An index or a deletion goes on without publishing or removing.
LEMMA LocalInv ==
    ASSUME StoreInv, NEW p \in Proc, NEW v, v = req[p], v.op \in {"index", "delete"},
           Publishing(v, v.snap) => v.pc = "json", Watch(FALSE),
           UNCHANGED <<dir, man, stamp, tmp, side, ops>>,
           json' \in [Snap -> [parent : Parents] \cup {None}],
           NEW w, IsRequest(w), w.op = v.op, w.snap = v.snap,
           w.pc \in {"intersect", "list", "relink", "rewrite", "subvol"}, req' = [req EXCEPT ![p] = w]
    PROVE  StoreInv'
<1>1. PICK s \in Snap : s = v.snap
  BY InFlight
<1>2. ~Publishing(w, s) /\ ~Removing(w, s) /\ w.op # "download" /\ w.snap = s /\ v.snap = s
  BY <1>1 DEF Publishing, Removing
<1>3. /\ ops' \in Nat /\ tmp' \in [Snap -> TmpDirs \cup {None}]
      /\ side' \in [Snap -> SUBSET {"stamp", "tsm", "tsc"}]
      /\ UNCHANGED <<dir, man, stamp>> /\ tmp' = tmp /\ side' = side
  BY DEF StoreInv, TypeOK
<1>4. Publishing(v, s) => v.pc = "json"
  BY <1>1
<1> QED BY <1>2, <1>3, <1>4, Draft

\* Metadata is written with a parent.
LEMMA JsonWritten ==
    ASSUME TypeOK, NEW x, NEW b \in Parents,
           json' = json \/ json' = [json EXCEPT ![x] = [parent |-> b]]
    PROVE  json' \in [Snap -> [parent : Parents] \cup {None}]
BY DEF TypeOK

LEMMA IndexStatInv ==
    ASSUME StoreInv, NEW p \in Proc, IndexStat(p), Watch(FALSE)
    PROVE  StoreInv'
<1>1. PICK v : v = req[p]
  OBVIOUS
<1>2. /\ v.op = "index" /\ v.pc = "stat" /\ UNCHANGED <<dir, man, stamp, tmp, side, ops, json>>
      /\ UNCHANGED <<store, ops>>
  BY <1>1 DEF IndexStat, At, store
<1>3. IsRequest(v) /\ v.snap \in Snap /\ ~Publishing(v, v.snap)
  BY <1>1, <1>2, InFlight DEF Publishing
<1>4. json' \in [Snap -> [parent : Parents] \cup {None}] /\ ops' \in Nat
  BY <1>2, DraftTypes
<1>5. CASE Done(p)
  BY <1>1, <1>2, <1>3, <1>4, <1>5, DoneInv
<1>6. CASE Goto(p, "rename")
  <2>1. "rename" \in Steps(v.op)
    BY <1>2 DEF Steps
  <2> QED BY <1>1, <1>2, <1>3, <1>6, <2>1, GotoInv
<1>7. CASE /\ json[v.snap] # None
           /\ req' = [req EXCEPT ![p].pc = "intersect", ![p].parent = json[v.snap].parent]
  <2>1. PICK b : b = json[v.snap].parent
    OBVIOUS
  <2>2. b \in Parents
    BY <1>3, <1>7, <2>1 DEF StoreInv, TypeOK
  <2>3. PICK w : w = [v EXCEPT !.pc = "intersect", !.parent = b]
    OBVIOUS
  <2>4. req' = [req EXCEPT ![p] = w]
    BY <1>1, <1>7, <2>1, <2>3
  <2>5. v = Request(v.op, v.pc, v.snap, v.parent, v.ix, v.todo, v.loc, v.missed)
    BY <1>3, RequestType
  <2>6. w = Request(v.op, "intersect", v.snap, b, v.ix, v.todo, v.loc, v.missed)
    BY <2>3, <2>5 DEF Request
  <2>7. "intersect" \in Steps(v.op) /\ v.op \in {"index", "delete"}
    BY <1>2 DEF Steps
  <2>8. IsRequest(w)
    BY <1>3, <2>2, <2>6, <2>7, LocalRequest, Zenon
  <2>9. w.op = v.op /\ w.snap = v.snap /\ w.pc = "intersect"
    BY <2>6, RequestFields
  <2> QED BY <1>1, <1>2, <1>3, <1>4, <2>4, <2>7, <2>8, <2>9, LocalInv
<1> QED BY <1>1, <1>5, <1>6, <1>7 DEF IndexStat

LEMMA IndexJsonInv ==
    ASSUME StoreInv, NEW p \in Proc, IndexIntersect(p) \/ IndexMeta(p), Watch(FALSE)
    PROVE  StoreInv'
<1>1. /\ req[p].op = "index" /\ req[p].pc \in {"intersect", "json"}
      /\ json' = json \/ json' = [json EXCEPT ![req[p].snap] = [parent |-> req[p].parent]]
      /\ Done(p) /\ UNCHANGED <<dir, man, stamp, tmp, side, ops>>
  BY DEF IndexIntersect, IndexMeta, At
<1>2. IsRequest(req[p]) /\ req[p].parent \in Parents
  BY <1>1, InFlight, RequestType
<1>3. json' \in [Snap -> [parent : Parents] \cup {None}]
  BY <1>1, <1>2, JsonWritten DEF StoreInv
<1>4. ops' \in Nat /\ (Publishing(req[p], req[p].snap) => req[p].pc = "json")
  BY <1>1 DEF StoreInv, TypeOK, Publishing
<1> QED BY <1>1, <1>3, <1>4, DoneInv

LEMMA DeleteStatInv ==
    ASSUME StoreInv, NEW p \in Proc, DeleteStat(p), Watch(FALSE)
    PROVE  StoreInv'
<1>1. PICK v : v = req[p]
  OBVIOUS
<1>2. /\ v.op = "delete" /\ v.pc = "stat" /\ UNCHANGED <<dir, man, stamp, tmp, side, ops, json>>
  BY <1>1 DEF DeleteStat, At, store
<1>3. IsRequest(v) /\ v.snap \in Snap /\ ~Publishing(v, v.snap)
  BY <1>1, <1>2, InFlight DEF Publishing
<1>4. json' \in [Snap -> [parent : Parents] \cup {None}] /\ ops' \in Nat
  BY <1>2, DraftTypes
<1>5. CASE Done(p)
  BY <1>1, <1>2, <1>3, <1>4, <1>5, DoneInv
<1>6. PICK b : b = IF json[v.snap] = None THEN None ELSE json[v.snap].parent
  OBVIOUS
<1>7. CASE req' = [req EXCEPT ![p].pc = "list", ![p].parent = b]
  <2>1. b \in Parents
    BY <1>3, <1>6 DEF StoreInv, TypeOK, Parents
  <2>2. PICK w : w = [v EXCEPT !.pc = "list", !.parent = b]
    OBVIOUS
  <2>3. req' = [req EXCEPT ![p] = w]
    BY <1>1, <1>7, <2>2
  <2>4. v = Request(v.op, v.pc, v.snap, v.parent, v.ix, v.todo, v.loc, v.missed)
    BY <1>3, RequestType
  <2>5. w = Request(v.op, "list", v.snap, b, v.ix, v.todo, v.loc, v.missed)
    BY <2>2, <2>4 DEF Request
  <2>6. "list" \in Steps(v.op) /\ v.op \in {"index", "delete"} /\ v.op # "index"
    BY <1>2 DEF Steps
  <2>7. IsRequest(w)
    BY <1>3, <2>1, <2>5, <2>6, LocalRequest, Zenon
  <2>8. w.op = v.op /\ w.snap = v.snap /\ w.pc = "list"
    BY <2>5, RequestFields
  <2> QED BY <1>1, <1>2, <1>3, <1>4, <2>3, <2>6, <2>7, <2>8, LocalInv
<1> QED BY <1>1, <1>5, <1>6, <1>7 DEF DeleteStat

\* What the loop of relinkSnapChildren does with one metadata file.
LEMMA RelinkRead ==
    ASSUME NEW p, DeleteRelink(p)
    PROVE  \/ Goto(p, "subvol") \/ Goto(p, "rewrite")
           \/ \E t : req' = [req EXCEPT ![p].todo = t]
           \/ \E t, m : req' = [req EXCEPT ![p].todo = t, ![p].missed = m]
<1>1. PICK t, m : t = Tail(req[p].todo) /\ m = req[p].missed \cup {Head(req[p].todo)}
  OBVIOUS
<1>2. \/ Goto(p, "subvol") \/ Goto(p, "rewrite")
      \/ req' = [req EXCEPT ![p].todo = t]
      \/ req' = [req EXCEPT ![p].todo = t, ![p].missed = m]
  BY <1>1 DEF DeleteRelink
<1> QED BY <1>2, Zenon

LEMMA RelinkWrite ==
    ASSUME NEW p, DeleteRewrite(p)
    PROVE  \E x, t :
              \/ /\ json' = [json EXCEPT ![x] = [parent |-> req[p].parent]]
                 /\ req' = [req EXCEPT ![p].pc = "relink", ![p].todo = t]
              \/ /\ json' = json
                 /\ \E m : req' = [req EXCEPT ![p].pc = "relink", ![p].todo = t, ![p].missed = m]
<1>1. PICK x, t, m : /\ x = Head(req[p].todo) /\ t = RelinkNext(p)
                     /\ m = req[p].missed \cup {x}
  OBVIOUS
<1>2. \/ /\ json' = [json EXCEPT ![x] = [parent |-> req[p].parent]]
         /\ req' = [req EXCEPT ![p].pc = "relink", ![p].todo = t]
      \/ /\ json' = json
         /\ req' = [req EXCEPT ![p].pc = "relink", ![p].todo = t, ![p].missed = m]
  BY <1>1 DEF DeleteRewrite
<1> QED BY <1>2, Zenon

\* The assignments of the loop to the request.
PcTodo(v, l, t) == [v EXCEPT !.pc = l, !.todo = t]
PcMissed(v, l, m) == [v EXCEPT !.pc = l, !.missed = m]
OnlyTodo(v, t) == [v EXCEPT !.todo = t]
TodoMissed(v, t, m) == [v EXCEPT !.todo = t, !.missed = m]
PcTodoMissed(v, l, t, m) == [v EXCEPT !.pc = l, !.todo = t, !.missed = m]

LEMMA ListRequest ==
    ASSUME NEW v, IsRequest(v), v.op = "delete", NEW l, l = "relink" \/ l = "subvol",
           NEW t, NEW m, NEW w,
           \/ w = PcTodo(v, l, t) \/ w = PcMissed(v, l, m) \/ w = PcTodoMissed(v, l, t, m)
           \/ l = v.pc /\ (w = OnlyTodo(v, t) \/ w = TodoMissed(v, t, m))
    PROVE  IsRequest(w) /\ w.op = v.op /\ w.snap = v.snap /\ w.pc = l
<1>1. v = Request(v.op, v.pc, v.snap, v.parent, v.ix, v.todo, v.loc, v.missed)
  BY RequestType
<1>2. PICK op, pc, s, b, i, d, k, n :
         /\ op = v.op /\ pc = v.pc /\ s = v.snap /\ b = v.parent
         /\ i = v.ix /\ d = v.todo /\ k = v.loc /\ n = v.missed
  OBVIOUS
<1>3. v = Request(op, pc, s, b, i, d, k, n)
  BY <1>1, <1>2
<1>4. \E x, y : w = Request(op, l, s, b, i, x, k, y)
  <2>1. PICK u : u = [v EXCEPT !.pc = l]
    OBVIOUS
  <2>2. PICK x : x = [v EXCEPT !.todo = t]
    OBVIOUS
  <2>3. PICK y : y = [u EXCEPT !.todo = t]
    OBVIOUS
  <2>4. u = Request(op, l, s, b, i, d, k, n)
    BY <1>3, <2>1 DEF Request
  <2>5. x = Request(op, pc, s, b, i, t, k, n)
    BY <1>3, <2>2 DEF Request
  <2>6. y = Request(op, l, s, b, i, t, k, n)
    BY <2>3, <2>4 DEF Request
  <2>7. [u EXCEPT !.missed = m] = Request(op, l, s, b, i, d, k, m)
    BY <2>4 DEF Request
  <2>8. [x EXCEPT !.missed = m] = Request(op, pc, s, b, i, t, k, m)
    BY <2>5 DEF Request
  <2>9. [y EXCEPT !.missed = m] = Request(op, l, s, b, i, t, k, m)
    BY <2>6 DEF Request
  <2>10. CASE w = PcTodo(v, l, t)
    <3>1. w = y
      BY <2>1, <2>3, <2>10, Zenon DEF PcTodo
    <3> QED BY <2>6, <3>1, Zenon
  <2>11. CASE w = PcMissed(v, l, m)
    <3>1. w = [u EXCEPT !.missed = m]
      BY <2>1, <2>11, Zenon DEF PcMissed
    <3> QED BY <2>7, <3>1, Zenon
  <2>12. CASE w = OnlyTodo(v, t) /\ l = v.pc
    <3>1. w = x /\ l = pc
      BY <1>2, <2>2, <2>12, Zenon DEF OnlyTodo
    <3> QED BY <2>5, <3>1, Zenon
  <2>13. CASE w = TodoMissed(v, t, m) /\ l = v.pc
    <3>1. w = [x EXCEPT !.missed = m] /\ l = pc
      BY <1>2, <2>2, <2>13, Zenon DEF TodoMissed
    <3> QED BY <2>8, <3>1, Zenon
  <2>14. CASE w = PcTodoMissed(v, l, t, m)
    <3>1. w = [y EXCEPT !.missed = m]
      BY <2>1, <2>3, <2>14, Zenon DEF PcTodoMissed
    <3> QED BY <2>9, <3>1, Zenon
  <2> QED BY <2>10, <2>11, <2>12, <2>13, <2>14
<1>5. PICK x, y : w = Request(op, l, s, b, i, x, k, y)
  BY <1>4
<1>6. w.op = op /\ w.snap = s /\ w.pc = l
  BY <1>5, RequestFields
<1>7. l \in Steps(v.op) /\ v.op \in {"index", "delete"} /\ v.op # "index" /\ v.parent \in Parents
  BY RequestType DEF Steps
<1>8. w = Request(v.op, l, v.snap, v.parent, i, x, k, y)
  BY <1>2, <1>5
<1>9. IsRequest(w)
  BY <1>7, <1>8, LocalRequest, Zenon
<1> QED BY <1>2, <1>6, <1>9

\* A deletion with another list, or another set of snaps it could not reach.
LEMMA ListInv ==
    ASSUME StoreInv, NEW p \in Proc, NEW v, v = req[p], v.op = "delete",
           v.pc \in {"list", "relink", "rewrite"}, Watch(FALSE),
           UNCHANGED <<dir, man, stamp, tmp, side, ops>>,
           json' \in [Snap -> [parent : Parents] \cup {None}],
           NEW w, IsRequest(w), w.op = v.op, w.snap = v.snap,
           w.pc \in {"relink", "rewrite", "subvol"}, req' = [req EXCEPT ![p] = w]
    PROVE  StoreInv'
<1>1. ~Publishing(v, v.snap) /\ v.op \in {"index", "delete"}
  BY DEF Publishing
<1>2. w.pc \in {"intersect", "list", "relink", "rewrite", "subvol"}
  OBVIOUS
<1> QED BY <1>1, <1>2, LocalInv

LEMMA DeleteListInv ==
    ASSUME StoreInv, NEW p \in Proc, DeleteList(p), Watch(FALSE)
    PROVE  StoreInv'
<1>1. PICK v : v = req[p]
  OBVIOUS
<1>2. /\ v.op = "delete" /\ v.pc = "list" /\ UNCHANGED <<dir, man, stamp, tmp, side, ops, json>>
  BY <1>1, Zenon DEF DeleteList, At, store
<1>3. IsRequest(v)
  BY <1>1, <1>2, InFlight
<1>4. json' \in [Snap -> [parent : Parents] \cup {None}]
  BY <1>2, DraftTypes
<1>5. ASSUME NEW t, req' = [req EXCEPT ![p].pc = "relink", ![p].todo = t]
      PROVE  StoreInv'
  <2>1. PICK w : w = PcTodo(v, "relink", t)
    OBVIOUS
  <2>2. IsRequest(w) /\ w.op = v.op /\ w.snap = v.snap /\ w.pc = "relink"
    BY <1>2, <1>3, <2>1, ListRequest
  <2>3. req' = [req EXCEPT ![p] = w]
    BY <1>1, <1>5, <2>1 DEF PcTodo
  <2>4. v.pc \in {"list", "relink", "rewrite"} /\ w.pc \in {"relink", "rewrite", "subvol"}
    BY <1>2, <2>2
  <2> QED BY <1>1, <1>2, <1>4, <2>2, <2>3, <2>4, ListInv, Zenon
<1>6. CASE req' = [req EXCEPT ![p].pc = "subvol", ![p].missed = Snap]
  <2>1. PICK w : w = PcMissed(v, "subvol", Snap)
    OBVIOUS
  <2>2. IsRequest(w) /\ w.op = v.op /\ w.snap = v.snap /\ w.pc = "subvol"
    BY <1>2, <1>3, <2>1, ListRequest
  <2>3. req' = [req EXCEPT ![p] = w]
    BY <1>1, <1>6, <2>1 DEF PcMissed
  <2> QED BY <1>1, <1>2, <1>4, <2>2, <2>3, ListInv
<1> QED BY <1>5, <1>6, Zenon DEF DeleteList

LEMMA DeleteRelinkInv ==
    ASSUME StoreInv, NEW p \in Proc, DeleteRelink(p), Watch(FALSE)
    PROVE  StoreInv'
<1>1. PICK v : v = req[p]
  OBVIOUS
<1>2. /\ v.op = "delete" /\ v.pc = "relink" /\ UNCHANGED <<dir, man, stamp, tmp, side, ops, json>>
      /\ UNCHANGED <<store, ops>>
  BY <1>1 DEF DeleteRelink, At, store
<1>3. IsRequest(v) /\ ~Publishing(v, v.snap)
  BY <1>1, <1>2, InFlight DEF Publishing
<1>4. json' \in [Snap -> [parent : Parents] \cup {None}]
  BY <1>2, DraftTypes
<1>5. ASSUME NEW l \in {"subvol", "rewrite"}, Goto(p, l)
      PROVE  StoreInv'
  <2>1. l \in Steps(v.op)
    BY <1>2, <1>5 DEF Steps
  <2> QED BY <1>1, <1>2, <1>3, <1>5, <2>1, GotoInv
<1>6. ASSUME NEW t, req' = [req EXCEPT ![p].todo = t]
      PROVE  StoreInv'
  <2>1. PICK w : w = OnlyTodo(v, t)
    OBVIOUS
  <2>2. IsRequest(w) /\ w.op = v.op /\ w.snap = v.snap /\ w.pc = "relink"
    BY <1>2, <1>3, <2>1, ListRequest
  <2>3. req' = [req EXCEPT ![p] = w]
    BY <1>1, <1>6, <2>1 DEF OnlyTodo
  <2> QED BY <1>1, <1>2, <1>4, <2>2, <2>3, ListInv
<1>7. ASSUME NEW t, NEW m, req' = [req EXCEPT ![p].todo = t, ![p].missed = m]
      PROVE  StoreInv'
  <2>1. PICK w : w = TodoMissed(v, t, m)
    OBVIOUS
  <2>2. IsRequest(w) /\ w.op = v.op /\ w.snap = v.snap /\ w.pc = "relink"
    BY <1>2, <1>3, <2>1, ListRequest
  <2>3. req' = [req EXCEPT ![p] = w]
    BY <1>1, <1>7, <2>1 DEF TodoMissed
  <2> QED BY <1>1, <1>2, <1>4, <2>2, <2>3, ListInv
<1>8. \/ Goto(p, "subvol") \/ Goto(p, "rewrite")
      \/ \E t : req' = [req EXCEPT ![p].todo = t]
      \/ \E t, m : req' = [req EXCEPT ![p].todo = t, ![p].missed = m]
  BY RelinkRead
<1> QED BY <1>5, <1>6, <1>7, <1>8

LEMMA DeleteRewriteInv ==
    ASSUME StoreInv, NEW p \in Proc, DeleteRewrite(p), Watch(FALSE)
    PROVE  StoreInv'
<1>1. PICK v : v = req[p]
  OBVIOUS
<1>2. /\ v.op = "delete" /\ v.pc = "rewrite" /\ UNCHANGED <<dir, man, stamp, tmp, side, ops>>
  BY <1>1 DEF DeleteRewrite, At
<1>3. IsRequest(v) /\ v.parent \in Parents
  BY <1>1, <1>2, InFlight, RequestType
<1>4. PICK x, t :
         \/ /\ json' = [json EXCEPT ![x] = [parent |-> v.parent]]
            /\ req' = [req EXCEPT ![p].pc = "relink", ![p].todo = t]
         \/ /\ json' = json
            /\ \E m : req' = [req EXCEPT ![p].pc = "relink", ![p].todo = t, ![p].missed = m]
  BY <1>1, RelinkWrite, Zenon
<1>5. json' \in [Snap -> [parent : Parents] \cup {None}]
  BY <1>3, <1>4, JsonWritten DEF StoreInv
<1>6. CASE req' = [req EXCEPT ![p].pc = "relink", ![p].todo = t]
  <2>1. PICK w : w = PcTodo(v, "relink", t)
    OBVIOUS
  <2>2. IsRequest(w) /\ w.op = v.op /\ w.snap = v.snap /\ w.pc = "relink"
    BY <1>2, <1>3, <2>1, ListRequest
  <2>3. req' = [req EXCEPT ![p] = w]
    BY <1>1, <1>6, <2>1 DEF PcTodo
  <2> QED BY <1>1, <1>2, <1>5, <2>2, <2>3, ListInv
<1>7. ASSUME NEW m, req' = [req EXCEPT ![p].pc = "relink", ![p].todo = t, ![p].missed = m]
      PROVE  StoreInv'
  <2>1. PICK w : w = PcTodoMissed(v, "relink", t, m)
    OBVIOUS
  <2>2. IsRequest(w) /\ w.op = v.op /\ w.snap = v.snap /\ w.pc = "relink"
    BY <1>2, <1>3, <2>1, ListRequest
  <2>3. req' = [req EXCEPT ![p] = w]
    BY <1>1, <1>7, <2>1 DEF PcTodoMissed
  <2> QED BY <1>1, <1>2, <1>5, <2>2, <2>3, ListInv
<1> QED BY <1>4, <1>6, <1>7


-----------------------------------------------------------------------------
(* The steps that publish or remove.                                       *)

\* Publication and PublishedIndexed, as they concern one snap.
Settled(s) ==
    s \notin clashed \cup torn =>
        /\ \A x \in Proc :
              /\ Publishing(req[x], s) =>
                    /\ dir[s] # None /\ Published(req[x], s)
                    /\ \A q \in Proc \ {x} : ~Publishing(req[q], s)
              /\ req[x].op = "download" /\ req[x].snap = s => ToRename(req[x]) \subseteq side[s]
              /\ Removing(req[x], s) => dir[s] = None
        /\ dir[s] # None /\ (\A x \in Proc : ~Publishing(req[x], s))
           => man[s] = {"tsm", "tsc"} /\ stamp[s] # None

LEMMA SettledInv ==
    Publication /\ PublishedIndexed <=> \A s \in Snap : Settled(s)
BY DEF Publication, PublishedIndexed, Settled

LEMMA SettledInvNext ==
    (\A s \in Snap : Settled(s)') => Publication' /\ PublishedIndexed'
BY DEF Publication, PublishedIndexed, Settled

\* A step of a request that changes its own snap, and nothing else.
LEMMA Settle ==
    ASSUME StoreInv, NEW p \in Proc, NEW s \in Snap, NEW v, v = req[p], v.snap = s,
           NEW w, IsRequest(w), req' = [req EXCEPT ![p] = w], Watch(FALSE),
           w.op = "none" \/ w.snap = s,
           dir' \in [Snap -> Dir \cup {None}], man' \in [Snap -> SUBSET {"tsm", "tsc"}],
           stamp' \in [Snap -> Parents], json' \in [Snap -> [parent : Parents] \cup {None}],
           tmp' \in [Snap -> TmpDirs \cup {None}],
           side' \in [Snap -> SUBSET {"stamp", "tsm", "tsc"}], ops' \in Nat,
           \A t \in Snap \ {s} : /\ dir'[t] = dir[t] /\ man'[t] = man[t] /\ stamp'[t] = stamp[t]
                                 /\ tmp'[t] = tmp[t] /\ side'[t] = side[t],
           tmp' = tmp \/ Working(w, s),
           w.op = "download" => w.pc \notin {"index", "find", "write", "rename"},
           s \notin clashed' /\ dir'[s] # None => \A f \in File : Holds(dir'[s], s, f),
           Settled(s)'
    PROVE  StoreInv'
<1>1. /\ clashed \subseteq clashed' /\ clashed' \subseteq Snap
      /\ torn \subseteq torn' /\ torn' \subseteq Snap /\ Apart'
  BY Watched DEF StoreInv
<1>2. /\ req'[p] = w /\ DOMAIN req' = Proc
      /\ \A x \in Proc \ {p} : req'[x] = req[x]
      /\ \A x \in Proc : IsRequest(req'[x])
  BY OneMoves DEF StoreInv
<1>3. TypeOK'
  BY <1>1, <1>2, TypeKept
<1>4. PublishedWhole'
  BY <1>1 DEF StoreInv, PublishedWhole, Holds
<1>5. Assembling'
  <2>1. SUFFICES ASSUME NEW x \in Proc, NEW q, q = req'[x],
                        q.op = "download", q.pc \in {"index", "find", "write", "rename"},
                        q.snap \notin clashed'
                 PROVE  /\ tmp'[q.snap] # None /\ Missing(q) \subseteq Range(Manifest[q.snap])
                        /\ \A f \in File \ Missing(q) : Holds(tmp'[q.snap], q.snap, f)
    BY DEF Assembling, Holds
  <2>2. x # p
    BY <1>2, <2>1
  <2>3. q = req[x] /\ q.snap \in Snap /\ q.snap \notin clashed
    BY <1>1, <1>2, <2>1, <2>2, RequestType
  <2>4. /\ tmp[q.snap] # None /\ Missing(q) \subseteq Range(Manifest[q.snap])
        /\ \A f \in File \ Missing(q) : Holds(tmp[q.snap], q.snap, f)
    BY <2>1, <2>3, AssemblingAt
  <2>5. tmp'[q.snap] = tmp[q.snap]
    <3>1. CASE q.snap # s
      BY <2>3, <3>1
    <3>2. CASE q.snap = s
      <4>1. Working(req'[x], s) /\ s \notin clashed'
        BY <2>1, <3>2 DEF Working
      <4>2. ~Working(w, s)
        BY <1>1, <1>2, <2>2, <4>1 DEF Apart
      <4> QED BY <4>2
    <3> QED BY <3>1, <3>2
  <2> QED BY <2>4, <2>5
<1>6. ASSUME NEW t \in Snap, t # s
      PROVE  Settled(t)'
  <2>1. /\ Settled(t)
        /\ dir'[t] = dir[t] /\ man'[t] = man[t] /\ stamp'[t] = stamp[t] /\ side'[t] = side[t]
    BY <1>6, SettledInv DEF StoreInv
  <2>2. /\ ~Publishing(v, t) /\ ~Removing(v, t) /\ ~Publishing(w, t) /\ ~Removing(w, t)
        /\ ~(w.op = "download" /\ w.snap = t)
    BY <1>6 DEF Publishing, Removing
  <2>3. \A x \in Proc : /\ Publishing(req'[x], t) <=> Publishing(req[x], t)
                        /\ Publishing(req'[x], t) => req'[x] = req[x]
                        /\ Removing(req'[x], t) <=> Removing(req[x], t)
                        /\ req'[x].op = "download" /\ req'[x].snap = t => req'[x] = req[x]
    BY <1>2, <2>2
  <2>4. SUFFICES ASSUME t \notin clashed' \cup torn'
                 PROVE  /\ \A x \in Proc :
                              /\ Publishing(req'[x], t) =>
                                    /\ dir'[t] # None /\ Published(req[x], t)'
                                    /\ \A q \in Proc \ {x} : ~Publishing(req'[q], t)
                              /\ req'[x].op = "download" /\ req'[x].snap = t
                                   => ToRename(req'[x]) \subseteq side'[t]
                              /\ Removing(req'[x], t) => dir'[t] = None
                        /\ dir'[t] # None /\ (\A x \in Proc : ~Publishing(req'[x], t))
                           => man'[t] = {"tsm", "tsc"} /\ stamp'[t] # None
    BY DEF Settled
  <2>5. t \notin clashed \cup torn
    BY <1>1, <2>4
  <2>6. ASSUME NEW x \in Proc, Publishing(req'[x], t)
        PROVE  /\ dir'[t] # None /\ Published(req[x], t)'
               /\ \A q \in Proc \ {x} : ~Publishing(req'[q], t)
    <3>1. req'[x] = req[x] /\ Publishing(req[x], t)
      BY <2>3, <2>6
    <3>2. /\ dir[t] # None /\ Published(req[x], t)
          /\ \A q \in Proc \ {x} : ~Publishing(req[q], t)
      BY <2>1, <2>5, <3>1 DEF Settled
    <3>3. Published(req[x], t)'
      BY <2>1, <3>1, <3>2 DEF Published
    <3> QED BY <2>1, <2>3, <3>2, <3>3
  <2>7. ASSUME NEW x \in Proc
        PROVE  /\ req'[x].op = "download" /\ req'[x].snap = t => ToRename(req'[x]) \subseteq side'[t]
               /\ Removing(req'[x], t) => dir'[t] = None
    BY <2>1, <2>3, <2>5 DEF Settled
  <2>8. dir'[t] # None /\ (\A x \in Proc : ~Publishing(req'[x], t))
           => man'[t] = {"tsm", "tsc"} /\ stamp'[t] # None
    BY <2>1, <2>3, <2>5 DEF Settled
  <2> QED BY <2>6, <2>7, <2>8
<1>7. Publication' /\ PublishedIndexed'
  BY <1>6, SettledInvNext
<1> QED BY <1>1, <1>3, <1>4, <1>5, <1>7 DEF StoreInv

\* How Settled(s) is shown after a step.
LEMMA SettledNext ==
    ASSUME NEW s \in Snap,
           s \notin clashed' \cup torn' =>
               /\ \A x \in Proc :
                     /\ Publishing(req'[x], s) =>
                           /\ dir'[s] # None
                           /\ req'[x].pc \in {"tsm", "tsc", "json"} => stamp'[s] # None
                           /\ req'[x].pc \in {"tsc", "json"} => "tsm" \in man'[s]
                           /\ req'[x].pc = "json" => "tsc" \in man'[s]
                           /\ \A q \in Proc \ {x} : ~Publishing(req'[q], s)
                     /\ req'[x].op = "download" /\ req'[x].snap = s => ToRename(req'[x]) \subseteq side'[s]
                     /\ Removing(req'[x], s) => dir'[s] = None
               /\ dir'[s] # None /\ (\A x \in Proc : ~Publishing(req'[x], s))
                  => man'[s] = {"tsm", "tsc"} /\ stamp'[s] # None
    PROVE  Settled(s)'
<1>1. SUFFICES ASSUME s \notin clashed' \cup torn'
               PROVE  /\ \A x \in Proc :
                            /\ Publishing(req'[x], s) =>
                                  /\ dir'[s] # None /\ Published(req[x], s)'
                                  /\ \A q \in Proc \ {x} : ~Publishing(req'[q], s)
                            /\ req'[x].op = "download" /\ req'[x].snap = s
                                 => ToRename(req'[x]) \subseteq side'[s]
                            /\ Removing(req'[x], s) => dir'[s] = None
                      /\ dir'[s] # None /\ (\A x \in Proc : ~Publishing(req'[x], s))
                         => man'[s] = {"tsm", "tsc"} /\ stamp'[s] # None
  BY DEF Settled
<1>2. \A x \in Proc : Publishing(req'[x], s) => Published(req[x], s)'
  BY <1>1 DEF Published
<1> QED BY <1>1, <1>2

\* A snap that was not here is published, whole.
LEMMA PublishInv ==
    ASSUME StoreInv, NEW p \in Proc, NEW s \in Snap, NEW v, v = req[p], v.snap = s,
           v.op \in {"download", "index"}, v.pc = "rename", dir[s] = None, Watch(FALSE),
           NEW d \in Dir, dir' = [dir EXCEPT ![s] = d],
           s \notin clashed => \A f \in File : Holds(d, s, f), Goto(p, "stamp"),
           tmp' = tmp \/ (v.op = "download" /\ tmp' = [tmp EXCEPT ![s] = None]),
           UNCHANGED <<man, stamp, json, side, ops>>
    PROVE  StoreInv'
<1>1. /\ clashed \subseteq clashed' /\ clashed' \subseteq Snap
      /\ torn \subseteq torn' /\ torn' \subseteq Snap /\ Apart'
  BY Watched DEF StoreInv
<1>2. PICK w : w = [v EXCEPT !.pc = "stamp"]
  OBVIOUS
<1>3. IsRequest(w) /\ w.op = v.op /\ w.pc = "stamp" /\ w.snap = s
  <2>1. "stamp" \in Steps(v.op) /\ IsRequest(v)
    BY InFlight DEF Steps
  <2>2. /\ v.op = "index" /\ "stamp" # "intersect" => v.parent # None
        /\ v.op = "download" /\ "stamp" = "write" => v.todo # <<>>
    BY <2>1, RequestType
  <2>3. IsRequest(w) /\ w.op = v.op /\ w.pc = "stamp" /\ w.snap = v.snap
    BY <1>2, <2>1, <2>2, GotoRequest, SMTT(30)
  <2> QED BY <2>3
<1>4. req' = [req EXCEPT ![p] = w]
  BY <1>2 DEF Goto
<1>5. /\ req'[p] = w /\ \A x \in Proc \ {p} : req'[x] = req[x]
  BY <1>3, <1>4, OneMoves DEF StoreInv
<1>6. Publishing(w, s) /\ ~Removing(w, s) /\ (v.op = "download" => Working(w, s))
  BY <1>3 DEF Publishing, Removing, Working
<1>7. /\ dir' \in [Snap -> Dir \cup {None}] /\ man' \in [Snap -> SUBSET {"tsm", "tsc"}]
      /\ stamp' \in [Snap -> Parents] /\ json' \in [Snap -> [parent : Parents] \cup {None}]
      /\ side' \in [Snap -> SUBSET {"stamp", "tsm", "tsc"}] /\ ops' \in Nat
      /\ dir'[s] = d
  BY DEF StoreInv, TypeOK
<1>8. tmp' \in [Snap -> TmpDirs \cup {None}]
  BY DEF StoreInv, TypeOK
<1>9. \A t \in Snap \ {s} : /\ dir'[t] = dir[t] /\ man'[t] = man[t] /\ stamp'[t] = stamp[t]
                            /\ tmp'[t] = tmp[t] /\ side'[t] = side[t]
  BY DEF StoreInv, TypeOK
<1>10. dir'[s] # None
  BY <1>7, StoreAssumption
<1>11. ASSUME s \notin clashed' \cup torn', NEW x \in Proc
       PROVE  /\ ~Publishing(req[x], s) /\ (x # p => ~Removing(req'[x], s))
              /\ req[x].op = "download" /\ req[x].snap = s => ToRename(req[x]) \subseteq side[s]
  <2>1. Settled(s) /\ s \notin clashed \cup torn
    BY <1>1, <1>11, SettledInv DEF StoreInv
  <2>2. x # p => ~Removing(req'[x], s)
    BY <1>1, <1>5, <1>6, <1>11 DEF Apart
  <2> QED BY <2>1, <2>2 DEF Settled
<1>12. Settled(s)'
  <2>1. SUFFICES ASSUME s \notin clashed' \cup torn'
                 PROVE  /\ \A x \in Proc :
                              /\ Publishing(req'[x], s) =>
                                    /\ dir'[s] # None
                                    /\ req'[x].pc \in {"tsm", "tsc", "json"} => stamp'[s] # None
                                    /\ req'[x].pc \in {"tsc", "json"} => "tsm" \in man'[s]
                                    /\ req'[x].pc = "json" => "tsc" \in man'[s]
                                    /\ \A q \in Proc \ {x} : ~Publishing(req'[q], s)
                              /\ req'[x].op = "download" /\ req'[x].snap = s
                                   => ToRename(req'[x]) \subseteq side'[s]
                              /\ Removing(req'[x], s) => dir'[s] = None
                        /\ dir'[s] # None /\ (\A x \in Proc : ~Publishing(req'[x], s))
                           => man'[s] = {"tsm", "tsc"} /\ stamp'[s] # None
    BY SettledNext
  <2>2. \A x \in Proc : Publishing(req'[x], s) => x = p
    BY <1>5, <1>11, <2>1
  <2>3. \A x \in Proc : ~Removing(req'[x], s)
    BY <1>5, <1>6, <1>11, <2>1
  <2>4. ToRename(w) = {"stamp", "tsm", "tsc"} /\ ToRename(v) = {"stamp", "tsm", "tsc"}
    BY <1>3 DEF ToRename
  <2>5. \A x \in Proc : req'[x].op = "download" /\ req'[x].snap = s => ToRename(req'[x]) \subseteq side'[s]
    BY <1>3, <1>5, <1>11, <2>1, <2>4
  <2>6. Publishing(req'[p], s) /\ req'[p].pc = "stamp"
    BY <1>3, <1>5, <1>6
  <2> QED BY <1>10, <2>2, <2>3, <2>5, <2>6
<1>13. s \notin clashed' /\ dir'[s] # None => \A f \in File : Holds(dir'[s], s, f)
  BY <1>1, <1>7
<1>14. /\ tmp' = tmp \/ Working(w, s)
       /\ w.op = "download" => w.pc \notin {"index", "find", "write", "rename"}
  BY <1>3, <1>6
<1> QED BY <1>3, <1>4, <1>7, <1>8, <1>9, <1>12, <1>13, <1>14, Settle

LEMMA DownloadRenameInv ==
    ASSUME StoreInv, NEW p \in Proc, DownloadRename(p), Watch(FALSE)
    PROVE  StoreInv'
<1>1. PICK v : v = req[p]
  OBVIOUS
<1>2. v.op = "download" /\ v.pc = "rename"
  BY <1>1 DEF DownloadRename, At
<1>3. PICK s \in Snap : s = v.snap
  BY <1>1, <1>2, InFlight
<1>4. ~Publishing(v, s) /\ Working(v, s)
  BY <1>1, <1>2, <1>3 DEF Publishing, Working
<1>5. CASE tmp[s] = None \/ dir[s] # None
  BY <1>1, <1>2, <1>3, <1>4, <1>5, AbortInv DEF DownloadRename
<1>6. CASE ~(tmp[s] = None \/ dir[s] # None)
  <2>1. PICK e : e = tmp[s]
    OBVIOUS
  <2>2. e \in TmpDirs
    BY <1>6, <2>1 DEF StoreInv, TypeOK
  <2>3. PICK d : d = [kind |-> e.kind, files |-> e.files, links |-> e.links, junk |-> e.junk]
    OBVIOUS
  <2>4. d \in Dir /\ d.files = e.files /\ d.links = e.links /\ d.junk = e.junk
    BY <2>2, <2>3 DEF Dir, TmpDirs
  <2>5. /\ dir' = [dir EXCEPT ![s] = d] /\ tmp' = [tmp EXCEPT ![s] = None]
        /\ Goto(p, "stamp") /\ UNCHANGED <<man, stamp, json, side, ops>>
    BY <1>1, <1>3, <1>6, <2>1, <2>3 DEF DownloadRename
  <2>6. s \notin clashed => \A f \in File : Holds(d, s, f)
    <3>1. Missing(v) = {}
      BY <1>2 DEF Missing
    <3>2. s \notin clashed => \A f \in File : Holds(e, s, f)
      BY <1>1, <1>2, <1>3, <2>1, <3>1, AssemblingAt
    <3> QED BY <2>4, <3>2 DEF Holds
  <2> QED BY <1>1, <1>2, <1>3, <1>6, <2>4, <2>5, <2>6, PublishInv
<1> QED BY <1>5, <1>6

\* A captured snap has its own files.
LEMMA CapturedWhole ==
    ASSUME NEW s \in Snap, NEW d, d = Captured(s)
    PROVE  d \in Dir /\ \A f \in File : Holds(d, s, f)
<1>1. d \in Dir /\ d.files = Content[s]
  BY StoreAssumption, ManifestAssumption DEF Dir, Captured
<1> QED BY <1>1 DEF Holds

LEMMA IndexRenameInv ==
    ASSUME StoreInv, NEW p \in Proc, IndexRename(p), Watch(FALSE)
    PROVE  StoreInv'
<1>1. PICK v : v = req[p]
  OBVIOUS
<1>2. v.op = "index" /\ v.pc = "rename" /\ UNCHANGED <<man, stamp, json, tmp, side, ops>>
  BY <1>1 DEF IndexRename, At
<1>3. PICK s \in Snap : s = v.snap
  BY <1>1, <1>2, InFlight
<1>4. CASE dir[s] # None
  <2>1. Done(p) /\ UNCHANGED <<dir, man, stamp, tmp, side>>
    BY <1>1, <1>2, <1>3, <1>4 DEF IndexRename
  <2>2. /\ json' \in [Snap -> [parent : Parents] \cup {None}] /\ ops' \in Nat
        /\ ~Publishing(v, v.snap)
    BY <1>2, DraftTypes DEF Publishing
  <2> QED BY <1>1, <1>2, <2>1, <2>2, DoneInv
<1>5. CASE dir[s] = None
  <2>1. PICK d : d = Captured(s)
    OBVIOUS
  <2>2. d \in Dir /\ \A f \in File : Holds(d, s, f)
    BY <2>1, CapturedWhole
  <2>3. dir' = [dir EXCEPT ![s] = d] /\ Goto(p, "stamp")
    BY <1>1, <1>3, <1>5, <2>1 DEF IndexRename
  <2> QED BY <1>1, <1>2, <1>3, <1>5, <2>2, <2>3, PublishInv
<1> QED BY <1>4, <1>5

\* The order of the renames.
LEMMA PublishOrder ==
    ASSUME NEW op \in {"download", "index"}
    PROVE  /\ AfterPublish(op, "stamp") = "tsm" /\ AfterPublish(op, "tsm") = "tsc"
           /\ AfterPublish(op, "tsc") = IF op = "index" THEN "json" ELSE "end"
BY DEF AfterPublish

\* The request after one of its renames: at the next, or done.
LEMMA PublishMoves ==
    ASSUME StoreInv, NEW p \in Proc, PublishFile(p), NEW v, v = req[p]
    PROVE  \E w : /\ IsRequest(w) /\ req' = [req EXCEPT ![p] = w]
                  /\ \/ w.op = v.op /\ w.snap = v.snap /\ v.pc = "stamp" /\ w.pc = "tsm"
                     \/ w.op = v.op /\ w.snap = v.snap /\ v.pc = "tsm" /\ w.pc = "tsc"
                     \/ w.op = v.op /\ w.snap = v.snap /\ v.pc = "tsc" /\ w.pc = "json" /\ v.op = "index"
                     \/ w.op = "none" /\ w.pc = "idle" /\ v.pc = "tsc" /\ v.op = "download"
<1>1. v.op \in {"download", "index"} /\ v.pc \in {"stamp", "tsm", "tsc"}
  BY DEF PublishFile
<1>2. IsRequest(v) /\ v.snap \in Snap /\ (v.op = "index" => v.parent # None)
  BY <1>1, InFlight, RequestType
<1>3. PICK n : n = AfterPublish(v.op, v.pc)
  OBVIOUS
<1>4. \/ v.pc = "stamp" /\ n = "tsm"
      \/ v.pc = "tsm" /\ n = "tsc"
      \/ v.pc = "tsc" /\ v.op = "index" /\ n = "json"
      \/ v.pc = "tsc" /\ v.op = "download" /\ n = "end"
  BY <1>1, <1>3, PublishOrder
<1>5. IF n = "end" THEN Done(p) ELSE Goto(p, n)
  BY <1>3 DEF PublishFile
<1>6. CASE n = "end"
  <2>1. req' = [req EXCEPT ![p] = Idle]
    BY <1>5, <1>6 DEF Done
  <2>2. v.pc = "tsc" /\ v.op = "download"
    BY <1>4, <1>6
  <2> QED BY <2>1, <2>2, IdleRequest, Zenon
<1>7. CASE n # "end"
  <2>1. PICK w : w = [v EXCEPT !.pc = n]
    OBVIOUS
  <2>2. req' = [req EXCEPT ![p] = w]
    BY <1>5, <1>7, <2>1 DEF Goto
  <2>3. n \in Steps(v.op) /\ n # "write" /\ n # "intersect"
    BY <1>1, <1>4, <1>7 DEF Steps
  <2>4. IsRequest(w) /\ w.op = v.op /\ w.pc = n /\ w.snap = v.snap
    <3>1. /\ v.op = "index" /\ n # "intersect" => v.parent # None
          /\ v.op = "download" /\ n = "write" => v.todo # <<>>
          /\ IsRequest(v) /\ n \in Steps(v.op)
      BY <1>2, <2>3
    <3> QED BY <2>1, <3>1, GotoRequest
  <2>5. \/ w.op = v.op /\ w.snap = v.snap /\ v.pc = "stamp" /\ w.pc = "tsm"
        \/ w.op = v.op /\ w.snap = v.snap /\ v.pc = "tsm" /\ w.pc = "tsc"
        \/ w.op = v.op /\ w.snap = v.snap /\ v.pc = "tsc" /\ w.pc = "json" /\ v.op = "index"
    BY <1>4, <1>7, <2>4
  <2> QED BY <2>2, <2>4, <2>5, Zenon
<1> QED BY <1>6, <1>7

LEMMA PublishFileInv ==
    ASSUME StoreInv, NEW p \in Proc, PublishFile(p), Watch(FALSE)
    PROVE  StoreInv'
<1>1. PICK v : v = req[p]
  OBVIOUS
<1>2. v.op \in {"download", "index"} /\ v.pc \in {"stamp", "tsm", "tsc"} /\ UNCHANGED <<dir, json, tmp, ops>>
  BY <1>1 DEF PublishFile
<1>3. PICK s \in Snap : s = v.snap
  BY <1>1, <1>2, InFlight
<1>4. PICK w : /\ IsRequest(w) /\ req' = [req EXCEPT ![p] = w]
               /\ \/ w.op = v.op /\ w.snap = v.snap /\ v.pc = "stamp" /\ w.pc = "tsm"
                  \/ w.op = v.op /\ w.snap = v.snap /\ v.pc = "tsm" /\ w.pc = "tsc"
                  \/ w.op = v.op /\ w.snap = v.snap /\ v.pc = "tsc" /\ w.pc = "json" /\ v.op = "index"
                  \/ w.op = "none" /\ w.pc = "idle" /\ v.pc = "tsc" /\ v.op = "download"
  BY <1>1, PublishMoves
<1>5. /\ clashed \subseteq clashed' /\ torn \subseteq torn' /\ Apart'
  BY Watched DEF StoreInv
<1>6. req'[p] = w /\ \A x \in Proc \ {p} : req'[x] = req[x]
  BY <1>4, OneMoves DEF StoreInv
<1>7. PICK b : b = IF v.op = "index" THEN v.parent ELSE Stamp[s]
  OBVIOUS
<1>8. b \in Parents /\ b # None
  <2>1. v.parent \in Parents /\ (v.op = "index" => v.parent # None)
    BY <1>1, <1>2, InFlight, RequestType
  <2>2. Stamp[s] \in Parents /\ Stamp[s] # None
    BY StoreAssumption, ChunkIndexAssumption DEF Parents
  <2> QED BY <1>7, <2>1, <2>2
<1>10. PICK moved \in BOOLEAN :
       /\ stamp' = IF v.pc = "stamp" /\ moved THEN [stamp EXCEPT ![s] = b] ELSE stamp
       /\ man' = IF v.pc # "stamp" /\ moved THEN [man EXCEPT ![s] = @ \cup {v.pc}] ELSE man
       /\ side' = IF v.op = "download" /\ moved THEN [side EXCEPT ![s] = @ \ {v.pc}] ELSE side
  BY <1>1, <1>3, <1>7 DEF PublishFile
<1>11. /\ dir' \in [Snap -> Dir \cup {None}] /\ stamp' \in [Snap -> Parents]
       /\ json' \in [Snap -> [parent : Parents] \cup {None}]
       /\ tmp' \in [Snap -> TmpDirs \cup {None}] /\ ops' \in Nat
  BY <1>2, <1>8, <1>10 DEF StoreInv, TypeOK
<1>12. /\ man' \in [Snap -> SUBSET {"tsm", "tsc"}]
       /\ side' \in [Snap -> SUBSET {"stamp", "tsm", "tsc"}]
  BY <1>2, <1>10 DEF StoreInv, TypeOK
<1>13. \A t \in Snap \ {s} : /\ dir'[t] = dir[t] /\ man'[t] = man[t] /\ stamp'[t] = stamp[t]
                             /\ tmp'[t] = tmp[t] /\ side'[t] = side[t]
  BY <1>2, <1>10 DEF StoreInv, TypeOK
<1>14. Publishing(v, s) /\ (v.op = "download" => Working(v, s))
  BY <1>2, <1>3 DEF Publishing, Working
<1>15. Settled(s)'
  <2>1. SUFFICES ASSUME s \notin clashed' \cup torn'
                 PROVE  /\ \A x \in Proc :
                              /\ Publishing(req'[x], s) =>
                                    /\ dir'[s] # None
                                    /\ req'[x].pc \in {"tsm", "tsc", "json"} => stamp'[s] # None
                                    /\ req'[x].pc \in {"tsc", "json"} => "tsm" \in man'[s]
                                    /\ req'[x].pc = "json" => "tsc" \in man'[s]
                                    /\ \A q \in Proc \ {x} : ~Publishing(req'[q], s)
                              /\ req'[x].op = "download" /\ req'[x].snap = s
                                   => ToRename(req'[x]) \subseteq side'[s]
                              /\ Removing(req'[x], s) => dir'[s] = None
                        /\ dir'[s] # None /\ (\A x \in Proc : ~Publishing(req'[x], s))
                           => man'[s] = {"tsm", "tsc"} /\ stamp'[s] # None
    BY SettledNext
  <2>2. Settled(s) /\ s \notin clashed /\ s \notin torn
    BY <1>5, <2>1, SettledInv DEF StoreInv
  <2>3. /\ dir[s] # None /\ Published(v, s)
        /\ \A q \in Proc \ {p} : ~Publishing(req[q], s)
        /\ v.op = "download" => ToRename(v) \subseteq side[s]
    BY <1>1, <1>3, <1>14, <2>2 DEF Settled
  <2>4. IF v.pc = "stamp" THEN stamp'[s] # None ELSE v.pc \in man'[s]
    <3>1. w.pc # v.pc
      BY <1>2, <1>4
    <3>2. req'[p] # req[p]
      BY <1>1, <1>6, <3>1
    <3>3. ASSUME NEW k \in {"stamp", "tsm", "tsc"}, k = v.pc
          PROVE  Renamed(s, k)'
      BY <1>1, <1>14, <2>1, <3>2, <3>3 DEF Watch
    <3> QED BY <1>2, <3>3 DEF Renamed
  <2>5. v.pc # "stamp" => stamp'[s] = stamp[s] /\ man[s] \subseteq man'[s]
    BY <1>10 DEF StoreInv, TypeOK
  <2>6. /\ stamp'[s] # None
        /\ v.pc \in {"tsm", "tsc"} => "tsm" \in man'[s]
        /\ v.pc = "tsc" => "tsc" \in man'[s]
    BY <1>2, <2>3, <2>4, <2>5 DEF Published
  <2>7. \A x \in Proc \ {p} : ~Publishing(req'[x], s) /\ ~Removing(req'[x], s)
    <3>1. \A x \in Proc \ {p} : ~Removing(req[x], s)
      BY <1>1, <1>14, <2>2 DEF StoreInv, Apart
    <3> QED BY <1>6, <2>3, <3>1
  <2>8. ~Removing(w, s)
    BY <1>2, <1>4 DEF Removing
  <2>9. \A x \in Proc : req'[x].op = "download" /\ req'[x].snap = s => ToRename(req'[x]) \subseteq side'[s]
    <3>1. v.op = "download" => side[s] \ {v.pc} \subseteq side'[s]
      BY <1>10 DEF StoreInv, TypeOK
    <3>2. w.op = "download" => ToRename(w) \subseteq ToRename(v) \ {v.pc}
      BY <1>2, <1>4 DEF ToRename
    <3>3. w.op = "download" => ToRename(w) \subseteq side'[s]
      BY <1>4, <2>3, <3>1, <3>2
    <3>4. ASSUME NEW x \in Proc \ {p}, req[x].op = "download", req[x].snap = s
          PROVE  ToRename(req[x]) \subseteq side'[s]
      <4>1. CASE Working(req[x], s)
        <5>1. v.op # "download"
          BY <1>1, <1>14, <2>2, <4>1 DEF StoreInv, Apart
        <5>2. side' = side
          BY <1>10, <5>1
        <5> QED BY <2>2, <3>4, <5>2 DEF Settled
      <4>2. CASE ~Working(req[x], s)
        BY <3>4, <4>2 DEF Working, ToRename
      <4> QED BY <4>1, <4>2
    <3> QED BY <1>6, <3>3, <3>4
  <2>10. Publishing(w, s) => /\ w.pc \in {"tsc", "json"} => "tsm" \in man'[s]
                             /\ w.pc = "json" => "tsc" \in man'[s]
    BY <1>4, <2>6
  <2>11. ~Publishing(w, s) => v.pc = "tsc"
    BY <1>2, <1>3, <1>4 DEF Publishing
  <2>12. ~Publishing(w, s) => man'[s] = {"tsm", "tsc"}
    BY <1>12, <2>6, <2>11
  <2>13. dir'[s] # None
    BY <1>2, <2>3
  <2> QED BY <1>6, <2>6, <2>7, <2>8, <2>9, <2>10, <2>12, <2>13
<1>16. s \notin clashed' /\ dir'[s] # None => \A f \in File : Holds(dir'[s], s, f)
  BY <1>2, <1>5 DEF StoreInv, PublishedWhole
<1>17. /\ w.op = "none" \/ w.snap = s
       /\ tmp' = tmp \/ Working(w, s)
       /\ w.op = "download" => w.pc \notin {"index", "find", "write", "rename"}
       /\ v.snap = s
  BY <1>2, <1>3, <1>4
<1> QED BY <1>1, <1>4, <1>11, <1>12, <1>13, <1>15, <1>16, <1>17, Settle

\* A deletion after one of its steps: at the next, or done.
LEMMA DeleteMoves ==
    ASSUME StoreInv, NEW p \in Proc, NEW v, v = req[p], v.op = "delete", NEW l,
           \/ Done(p)
           \/ Goto(p, l) /\ l \in {"json", "stamp", "tsm", "tsc"}
    PROVE  \E w : /\ IsRequest(w) /\ req' = [req EXCEPT ![p] = w]
                  /\ \/ w.op = "none"
                     \/ w.op = "delete" /\ w.snap = v.snap /\ Removing(w, v.snap)
<1>1. CASE Done(p)
  <2>1. req' = [req EXCEPT ![p] = Idle]
    BY <1>1 DEF Done
  <2> QED BY <2>1, IdleRequest, Zenon
<1>2. CASE Goto(p, l) /\ l \in {"json", "stamp", "tsm", "tsc"}
  <2>1. PICK w : w = [v EXCEPT !.pc = l]
    OBVIOUS
  <2>2. req' = [req EXCEPT ![p] = w]
    BY <1>2, <2>1 DEF Goto
  <2>3. IsRequest(v) /\ l \in Steps(v.op)
    BY <1>2, InFlight DEF Steps
  <2>4. IsRequest(w) /\ w.op = v.op /\ w.pc = l /\ w.snap = v.snap
    BY <2>1, <2>3, GotoRequest
  <2>5. w.op = "delete" /\ w.snap = v.snap /\ Removing(w, v.snap)
    BY <1>2, <2>4 DEF Removing
  <2> QED BY <2>2, <2>4, <2>5, Zenon
<1> QED BY <1>1, <1>2

\* A step that removes something of a snap whose directory is gone.
LEMMA RemoveInv ==
    ASSUME StoreInv, NEW p \in Proc, NEW s \in Snap, NEW v, v = req[p], v.snap = s, v.op = "delete",
           NEW l, Done(p) \/ (Goto(p, l) /\ l \in {"json", "stamp", "tsm", "tsc"}), Watch(FALSE),
           dir' \in [Snap -> Dir \cup {None}], man' \in [Snap -> SUBSET {"tsm", "tsc"}],
           stamp' \in [Snap -> Parents], json' \in [Snap -> [parent : Parents] \cup {None}],
           UNCHANGED <<tmp, side, ops>>,
           \A t \in Snap \ {s} : dir'[t] = dir[t] /\ man'[t] = man[t] /\ stamp'[t] = stamp[t],
           dir'[s] = None \/ dir'[s] = dir[s],
           s \notin clashed' \cup torn' =>
               dir'[s] = None /\ \A x \in Proc \ {p} : ~Publishing(req[x], s)
    PROVE  StoreInv'
<1>1. PICK w : /\ IsRequest(w) /\ req' = [req EXCEPT ![p] = w]
               /\ \/ w.op = "none"
                  \/ w.op = "delete" /\ w.snap = v.snap /\ Removing(w, v.snap)
  BY DeleteMoves
<1>2. clashed \subseteq clashed' /\ torn \subseteq torn'
  BY Watched DEF StoreInv
<1>3. req'[p] = w /\ \A x \in Proc \ {p} : req'[x] = req[x]
  BY <1>1, OneMoves DEF StoreInv
<1>4. ~Publishing(w, s) /\ w.op # "download"
  BY <1>1 DEF Publishing
<1>5. Settled(s)'
  <2>1. SUFFICES ASSUME s \notin clashed' \cup torn'
                 PROVE  /\ \A x \in Proc :
                              /\ Publishing(req'[x], s) =>
                                    /\ dir'[s] # None
                                    /\ req'[x].pc \in {"tsm", "tsc", "json"} => stamp'[s] # None
                                    /\ req'[x].pc \in {"tsc", "json"} => "tsm" \in man'[s]
                                    /\ req'[x].pc = "json" => "tsc" \in man'[s]
                                    /\ \A q \in Proc \ {x} : ~Publishing(req'[q], s)
                              /\ req'[x].op = "download" /\ req'[x].snap = s
                                   => ToRename(req'[x]) \subseteq side'[s]
                              /\ Removing(req'[x], s) => dir'[s] = None
                        /\ dir'[s] # None /\ (\A x \in Proc : ~Publishing(req'[x], s))
                           => man'[s] = {"tsm", "tsc"} /\ stamp'[s] # None
    BY SettledNext
  <2>2. dir'[s] = None /\ \A x \in Proc : ~Publishing(req'[x], s)
    BY <1>3, <1>4, <2>1
  <2>3. \A x \in Proc : req'[x].op = "download" /\ req'[x].snap = s => ToRename(req'[x]) \subseteq side'[s]
    <3>1. Settled(s) /\ s \notin clashed \cup torn
      BY <1>2, <2>1, SettledInv DEF StoreInv
    <3> QED BY <1>3, <1>4, <3>1 DEF Settled
  <2> QED BY <2>2, <2>3
<1>6. s \notin clashed' /\ dir'[s] # None => \A f \in File : Holds(dir'[s], s, f)
  BY <1>2 DEF StoreInv, PublishedWhole
<1>7. /\ tmp' \in [Snap -> TmpDirs \cup {None}] /\ ops' \in Nat
      /\ side' \in [Snap -> SUBSET {"stamp", "tsm", "tsc"}] /\ tmp' = tmp
      /\ \A t \in Snap \ {s} : /\ dir'[t] = dir[t] /\ man'[t] = man[t] /\ stamp'[t] = stamp[t]
                               /\ tmp'[t] = tmp[t] /\ side'[t] = side[t]
  BY DEF StoreInv, TypeOK
<1>8. w.op = "none" \/ w.snap = s
  BY <1>1
<1> QED BY <1>1, <1>4, <1>5, <1>6, <1>7, <1>8, Settle

LEMMA DeleteSubvolInv ==
    ASSUME StoreInv, NEW p \in Proc, DeleteSubvol(p), Watch(FALSE)
    PROVE  StoreInv'
<1>1. PICK v : v = req[p]
  OBVIOUS
<1>2. v.op = "delete" /\ v.pc = "subvol" /\ UNCHANGED <<man, stamp, json, tmp, side, ops>>
  BY <1>1 DEF DeleteSubvol, At
<1>3. PICK s \in Snap : s = v.snap
  BY <1>1, <1>2, InFlight
<1>4. CASE UNCHANGED dir /\ Done(p)
  <2>1. /\ json' \in [Snap -> [parent : Parents] \cup {None}] /\ ops' \in Nat
        /\ ~Publishing(v, v.snap)
    BY <1>2, DraftTypes DEF Publishing
  <2> QED BY <1>1, <1>2, <1>4, <2>1, DoneInv
<1>5. CASE dir' = [dir EXCEPT ![s] = None] /\ Goto(p, "json")
  <2>1. /\ dir' \in [Snap -> Dir \cup {None}] /\ man' \in [Snap -> SUBSET {"tsm", "tsc"}]
        /\ stamp' \in [Snap -> Parents] /\ json' \in [Snap -> [parent : Parents] \cup {None}]
        /\ dir'[s] = None
        /\ \A t \in Snap \ {s} : dir'[t] = dir[t] /\ man'[t] = man[t] /\ stamp'[t] = stamp[t]
    BY <1>2, <1>5 DEF StoreInv, TypeOK
  <2>2. s \notin torn' => \A x \in Proc \ {p} : ~Publishing(req[x], s)
    <3>1. PICK w : w = [v EXCEPT !.pc = "json"]
      OBVIOUS
    <3>2. IsRequest(v) /\ "json" \in Steps(v.op)
      BY <1>1, <1>2, InFlight DEF Steps
    <3>3. IsRequest(w) /\ w.op = v.op /\ w.pc = "json" /\ w.snap = v.snap
      BY <1>2, <3>1, <3>2, GotoRequest
    <3>4. req' = [req EXCEPT ![p] = w]
      BY <1>1, <1>5, <3>1 DEF Goto
    <3>5. req'[p] = w /\ \A x \in Proc \ {p} : req'[x] = req[x]
      BY <3>3, <3>4, OneMoves DEF StoreInv
    <3>6. Removing(w, s)
      BY <1>2, <1>3, <3>3 DEF Removing
    <3>7. Apart'
      BY Watched DEF StoreInv
    <3> QED BY <3>5, <3>6, <3>7 DEF Apart
  <2>3. /\ s \notin clashed' \cup torn' =>
             dir'[s] = None /\ \A x \in Proc \ {p} : ~Publishing(req[x], s)
        /\ dir'[s] = None \/ dir'[s] = dir[s]
        /\ Done(p) \/ (Goto(p, "json") /\ "json" \in {"json", "stamp", "tsm", "tsc"})
        /\ v.snap = s /\ UNCHANGED <<tmp, side, ops>>
    BY <1>2, <1>3, <1>5, <2>1, <2>2
  <2> QED BY <1>1, <1>2, <2>1, <2>3, RemoveInv
<1> QED BY <1>1, <1>3, <1>4, <1>5, Zenon DEF DeleteSubvol

LEMMA DeleteFileInv ==
    ASSUME StoreInv, NEW p \in Proc, DeleteFile(p), Watch(FALSE)
    PROVE  StoreInv'
<1>1. PICK v : v = req[p]
  OBVIOUS
<1>2. v.op = "delete" /\ v.pc \in {"json", "stamp", "tsm", "tsc"} /\ UNCHANGED <<dir, tmp, side, ops>>
  BY <1>1 DEF DeleteFile
<1>3. PICK s \in Snap : s = v.snap
  BY <1>1, <1>2, InFlight
<1>4. /\ json' = IF v.pc = "json" THEN [json EXCEPT ![s] = None] ELSE json
      /\ stamp' = IF v.pc = "stamp" THEN [stamp EXCEPT ![s] = None] ELSE stamp
      /\ man' = [man EXCEPT ![s] = @ \ {v.pc}]
  BY <1>1, <1>3 DEF DeleteFile
<1>5. None \in Parents
  BY DEF Parents
<1>6. /\ dir' \in [Snap -> Dir \cup {None}] /\ man' \in [Snap -> SUBSET {"tsm", "tsc"}]
      /\ stamp' \in [Snap -> Parents] /\ json' \in [Snap -> [parent : Parents] \cup {None}]
      /\ dir'[s] = dir[s]
      /\ \A t \in Snap \ {s} : dir'[t] = dir[t] /\ man'[t] = man[t] /\ stamp'[t] = stamp[t]
  BY <1>2, <1>4, <1>5 DEF StoreInv, TypeOK
<1>7. s \notin clashed' \cup torn' => dir[s] = None /\ \A x \in Proc \ {p} : ~Publishing(req[x], s)
  <2>1. clashed \subseteq clashed' /\ torn \subseteq torn'
    BY Watched DEF StoreInv
  <2>2. Removing(v, s) /\ Settled(s)
    BY <1>2, <1>3, SettledInv DEF Removing, StoreInv
  <2> QED BY <1>1, <2>1, <2>2 DEF Settled
<1>8. PICK l : Done(p) \/ (Goto(p, l) /\ l \in {"json", "stamp", "tsm", "tsc"})
  <2>1. CASE v.pc = "tsc"
    BY <1>1, <2>1 DEF DeleteFile
  <2>2. CASE v.pc # "tsc"
    <3>1. PICK l : l = [json |-> "stamp", stamp |-> "tsm", tsm |-> "tsc"][v.pc]
      OBVIOUS
    <3>2. l \in {"json", "stamp", "tsm", "tsc"}
      BY <1>2, <2>2, <3>1
    <3>3. Goto(p, l)
      BY <1>1, <2>2, <3>1 DEF DeleteFile
    <3> QED BY <3>2, <3>3, Zenon
  <2> QED BY <2>1, <2>2
<1>9. v.snap = s /\ UNCHANGED <<tmp, side, ops>>
  BY <1>2, <1>3
<1> QED BY <1>1, <1>2, <1>6, <1>7, <1>8, <1>9, RemoveInv

LEMMA CrashInv ==
    ASSUME StoreInv, Crash, Watch(TRUE)
    PROVE  StoreInv'
<1>1. /\ req' = [p \in Proc |-> Idle] /\ ops' = ops + 1
      /\ UNCHANGED <<dir, man, stamp, json, tmp, side>>
  BY DEF Crash, store
<1>2. /\ clashed \subseteq clashed' /\ clashed' \subseteq Snap
      /\ torn \subseteq torn' /\ torn' \subseteq Snap /\ Apart'
  BY Watched DEF StoreInv
<1>3. \A p \in Proc : req'[p] = Idle /\ IsRequest(req'[p]) /\ req'[p].op = "none"
  BY <1>1, IdleRequest
<1>4. TypeOK'
  <2>1. DOMAIN req' = Proc
    BY <1>1
  <2>2. /\ dir' \in [Snap -> Dir \cup {None}] /\ man' \in [Snap -> SUBSET {"tsm", "tsc"}]
        /\ stamp' \in [Snap -> Parents] /\ json' \in [Snap -> [parent : Parents] \cup {None}]
        /\ tmp' \in [Snap -> TmpDirs \cup {None}]
        /\ side' \in [Snap -> SUBSET {"stamp", "tsm", "tsc"}] /\ ops' \in Nat
    BY <1>1 DEF StoreInv, TypeOK
  <2> QED BY <1>2, <1>3, <2>1, <2>2, TypeKept
<1>5. PublishedWhole'
  BY <1>1, <1>2 DEF StoreInv, PublishedWhole, Holds
<1>6. Assembling'
  BY <1>3 DEF Assembling
<1>7. \A p \in Proc, s \in Snap : ~Publishing(req'[p], s) /\ ~Removing(req'[p], s)
  BY <1>3 DEF Publishing, Removing
<1>8. Publication'
  BY <1>3, <1>7 DEF Publication
<1>9. PublishedIndexed'
  <2>1. ASSUME NEW s \in Snap, s \notin clashed', s \notin torn', dir'[s] # None
        PROVE  man'[s] = {"tsm", "tsc"} /\ stamp'[s] # None
    <3>1. \A p \in Proc : ~Publishing(req[p], s)
      BY <2>1 DEF Watch
    <3> QED BY <1>1, <1>2, <2>1, <3>1 DEF StoreInv, PublishedIndexed
  <2> QED BY <2>1 DEF PublishedIndexed
<1> QED BY <1>2, <1>4, <1>5, <1>6, <1>8, <1>9 DEF StoreInv

LEMMA InitInv ==
    Init => StoreInv
<1> SUFFICES ASSUME Init PROVE StoreInv
  OBVIOUS
<1>1. PICK local \in SUBSET Snap :
         /\ dir = [s \in Snap |-> IF s \in local THEN Captured(s) ELSE None]
         /\ man = [s \in Snap |-> IF s \in local THEN {"tsm", "tsc"} ELSE {}]
         /\ stamp = [s \in Snap |-> IF s \in local THEN Stamp[s] ELSE None]
         /\ json = [s \in Snap |-> IF s \in local THEN [parent |-> Stamp[s]] ELSE None]
  BY DEF Init
<1>2. /\ tmp = [s \in Snap |-> None] /\ side = [s \in Snap |-> {}]
      /\ req = [p \in Proc |-> Idle] /\ ops = 0 /\ clashed = {} /\ torn = {}
  BY DEF Init
<1>3. \A p \in Proc : req[p] = Idle /\ IsRequest(req[p]) /\ req[p].op = "none"
  BY <1>2, IdleRequest
<1>4. \A s \in Snap : Stamp[s] \in Parents /\ Stamp[s] # None /\ None \in Parents
  BY StoreAssumption, ChunkIndexAssumption DEF Parents
<1>5. dir \in [Snap -> Dir \cup {None}]
  BY <1>1, CapturedWhole
<1>6. TypeOK
  <2>1. /\ man \in [Snap -> SUBSET {"tsm", "tsc"}] /\ stamp \in [Snap -> Parents]
        /\ json \in [Snap -> [parent : Parents] \cup {None}]
    BY <1>1, <1>4
  <2>2. /\ tmp \in [Snap -> TmpDirs \cup {None}] /\ side \in [Snap -> SUBSET {"stamp", "tsm", "tsc"}]
        /\ DOMAIN req = Proc /\ ops \in Nat /\ clashed \subseteq Snap /\ torn \subseteq Snap
    BY <1>2
  <2> QED BY <1>3, <1>5, <2>1, <2>2 DEF TypeOK
<1>7. PublishedWhole
  BY <1>1, CapturedWhole DEF PublishedWhole
<1>8. PublishedIndexed
  BY <1>1, <1>4 DEF PublishedIndexed
<1>9. Assembling
  BY <1>3 DEF Assembling
<1>10. Apart /\ Publication
  BY <1>3 DEF Apart, Publication, Working, Publishing, Removing
<1> QED BY <1>6, <1>7, <1>8, <1>9, <1>10 DEF StoreInv

LEMMA StepInv ==
    ASSUME StoreInv, NEW p \in Proc, Step(p), Watch(FALSE)
    PROVE  StoreInv'
<1>1. CASE Start(p)
  BY <1>1, StartInv
<1>2. CASE DownloadCheck(p) \/ DownloadMetadata(p)
  BY <1>2, DownloadCheckInv
<1>3. CASE DownloadCreate(p)
  BY <1>3, DownloadCreateInv
<1>4. CASE DownloadPrepare(p)
  BY <1>4, DownloadPrepareInv
<1>5. CASE DownloadIndex(p)
  BY <1>5, DownloadIndexInv
<1>6. CASE DownloadFind(p)
  BY <1>6, DownloadFindInv
<1>7. CASE DownloadWrite(p)
  BY <1>7, DownloadWriteInv
<1>8. CASE DownloadEntries(p)
  BY <1>8, DownloadEntriesInv
<1>9. CASE DownloadRename(p)
  BY <1>9, DownloadRenameInv
<1>10. CASE PublishFile(p)
  BY <1>10, PublishFileInv
<1>11. CASE IndexStat(p)
  BY <1>11, IndexStatInv
<1>12. CASE IndexIntersect(p) \/ IndexMeta(p)
  BY <1>12, IndexJsonInv
<1>13. CASE IndexRename(p)
  BY <1>13, IndexRenameInv
<1>14. CASE DeleteStat(p)
  BY <1>14, DeleteStatInv
<1>15. CASE DeleteList(p)
  BY <1>15, DeleteListInv
<1>16. CASE DeleteRelink(p)
  BY <1>16, DeleteRelinkInv
<1>17. CASE DeleteSubvol(p)
  BY <1>17, DeleteSubvolInv
<1>18. CASE DeleteFile(p)
  BY <1>18, DeleteFileInv
<1>19. CASE DeleteRewrite(p)
  BY <1>19, DeleteRewriteInv
<1> QED BY <1>1, <1>2, <1>3, <1>4, <1>5, <1>6, <1>7, <1>8, <1>9, <1>10, <1>11, <1>12, <1>13,
           <1>14, <1>15, <1>16, <1>17, <1>18, <1>19 DEF Step

LEMMA NextInv ==
    StoreInv /\ [Next]_vars => StoreInv'
<1> SUFFICES ASSUME StoreInv, [Next]_vars PROVE StoreInv'
  OBVIOUS
<1>1. ASSUME NEW p \in Proc, Step(p), Watch(FALSE)
      PROVE  StoreInv'
  BY <1>1, StepInv
<1>2. CASE Crash /\ Watch(TRUE)
  BY <1>2, CrashInv
<1>3. CASE UNCHANGED vars
  <2>1. UNCHANGED <<dir, man, stamp, json, tmp, side, req, ops, clashed, torn>>
    BY <1>3 DEF vars, state, store
  <2>2. TypeOK'
    BY <2>1, TypeKept DEF StoreInv, TypeOK
  <2>3. PublishedWhole' /\ Apart'
    BY <2>1 DEF StoreInv, PublishedWhole, Apart, Holds
  <2>4. Assembling'
    BY <2>1 DEF StoreInv, Assembling, Holds
  <2>5. Publication' /\ PublishedIndexed'
    BY <2>1 DEF StoreInv, Publication, PublishedIndexed, Published
  <2> QED BY <2>2, <2>3, <2>4, <2>5 DEF StoreInv
<1> QED BY <1>1, <1>2, <1>3 DEF Next

\* Whatever requests and crashes interleave and whatever a handler only logs, the store
\* keeps its invariant: a published snap has its files, but for what a symlink led
\* astray or could not be removed, and once it is settled its stamp and manifests are
\* there, but for the clashes and failures the history names.
THEOREM StoreConsistent == Spec => []StoreInv
<1>1. Init => StoreInv
  BY InitInv
<1>2. StoreInv /\ [Next]_vars => StoreInv'
  BY NextInv
<1> QED BY <1>1, <1>2, PTL DEF Spec

\* A published snap holds the files of its manifest, whatever the index found, however
\* rotten what it read and whatever an earlier download had left, unless two downloads
\* worked in its directory at once: only a file whose path passes through a symlink of
\* the clone may be missing, and only one that could not be removed may be there besides.
THEOREM PublishedSnapsWhole == Spec => []PublishedWhole
<1>1. StoreInv => PublishedWhole
  BY DEF StoreInv
<1> QED BY <1>1, StoreConsistent, PTL

-----------------------------------------------------------------------------
(* What a deletion does to the metadata of others.                         *)

\* What an assignment of the handlers leaves of a request.
LEMMA FieldsKept ==
    ASSUME NEW v, IsRequest(v), NEW a, NEW b, NEW c
    PROVE  /\ [v EXCEPT !.pc = a].op = v.op
           /\ [v EXCEPT !.pc = a, !.parent = b].op = v.op
           /\ [v EXCEPT !.pc = a, !.ix = b, !.todo = c].op = v.op
           /\ [v EXCEPT !.pc = a, !.ix = b, !.loc = c].op = v.op
           /\ [v EXCEPT !.pc = a, !.todo = b, !.loc = c].op = v.op
<1>1. v = Request(v.op, v.pc, v.snap, v.parent, v.ix, v.todo, v.loc, v.missed)
  BY RequestType
<1>2. PICK op, pc, s, t, i, d, l, m : v = Request(op, pc, s, t, i, d, l, m) /\ op = v.op
  BY <1>1
<1> QED BY <1>2 DEF Request

LEMMA ListKept ==
    ASSUME NEW v, IsRequest(v), NEW a, NEW b, NEW c
    PROVE  /\ LET w == [v EXCEPT !.pc = a]
              IN  /\ w.op = v.op /\ w.pc = a /\ w.snap = v.snap /\ w.parent = v.parent
                  /\ w.todo = v.todo /\ w.missed = v.missed
           /\ LET w == [v EXCEPT !.pc = a, !.todo = b]
              IN  /\ w.op = v.op /\ w.pc = a /\ w.snap = v.snap /\ w.parent = v.parent
                  /\ w.todo = b /\ w.missed = v.missed
           /\ LET w == [v EXCEPT !.pc = a, !.missed = c]
              IN  /\ w.op = v.op /\ w.pc = a /\ w.snap = v.snap /\ w.parent = v.parent
                  /\ w.missed = c
           /\ LET w == [v EXCEPT !.todo = b]
              IN  /\ w.op = v.op /\ w.pc = v.pc /\ w.snap = v.snap /\ w.parent = v.parent
                  /\ w.todo = b /\ w.missed = v.missed
           /\ LET w == [v EXCEPT !.todo = b, !.missed = c]
              IN  /\ w.op = v.op /\ w.pc = v.pc /\ w.snap = v.snap /\ w.parent = v.parent
                  /\ w.todo = b /\ w.missed = c
           /\ LET w == [v EXCEPT !.pc = a, !.todo = b, !.missed = c]
              IN  /\ w.op = v.op /\ w.pc = a /\ w.snap = v.snap /\ w.parent = v.parent
                  /\ w.todo = b /\ w.missed = c
<1>1. v = Request(v.op, v.pc, v.snap, v.parent, v.ix, v.todo, v.loc, v.missed)
  BY RequestType
<1>2. PICK op, pc, s, t, i, d, l, m :
         /\ v = Request(op, pc, s, t, i, d, l, m)
         /\ op = v.op /\ pc = v.pc /\ s = v.snap /\ t = v.parent /\ d = v.todo /\ m = v.missed
  BY <1>1
<1> QED BY <1>2 DEF Request

\* A step of a request does not move another.
LEMMA OthersStay ==
    ASSUME StoreInv, NEW p \in Proc, Step(p), NEW x \in Proc, x # p
    PROVE  req'[x] = req[x]
<1>1. DOMAIN req = Proc
  BY DEF StoreInv, TypeOK
<1>2. \A v : req' = [req EXCEPT ![p] = v] => req'[x] = req[x]
  BY <1>1
<1>3. \A l : Goto(p, l) => req'[x] = req[x]
  BY <1>1 DEF Goto
<1>4. Done(p) => req'[x] = req[x]
  BY <1>2 DEF Done
<1>5. Abort(p) => req'[x] = req[x]
  BY <1>4 DEF Abort
<1>6. CASE Start(p)
  BY <1>2, <1>6 DEF Start
<1>7. CASE DownloadCheck(p) \/ DownloadMetadata(p) \/ DownloadCreate(p) \/ DownloadPrepare(p)
  BY <1>3, <1>4, <1>5, <1>7 DEF DownloadCheck, DownloadMetadata, DownloadCreate, DownloadPrepare
<1>8. CASE DownloadIndex(p)
  BY <1>1, <1>8 DEF DownloadIndex
<1>9. CASE DownloadFind(p)
  <2>1. Abort(p) \/ \E a, b : req' = [req EXCEPT ![p].pc = "write", ![p].ix = a, ![p].loc = b]
    BY <1>9, Zenon DEF DownloadFind
  <2> QED BY Zenon, <1>1, <1>5, <2>1
<1>10. CASE DownloadWrite(p)
  <2>1. Abort(p) \/ req' = [req EXCEPT ![p].pc = "find", ![p].todo = Tail(@), ![p].loc = None]
    BY <1>10, Zenon DEF DownloadWrite
  <2> QED BY <1>1, <1>5, <2>1
<1>11. CASE DownloadEntries(p)
  <2>1. Abort(p) \/ \E v : req' = [req EXCEPT ![p] = v]
    BY <1>11, Zenon DEF DownloadEntries
  <2> QED BY <1>2, <1>5, <2>1
<1>12. CASE DownloadRename(p) \/ PublishFile(p)
  BY <1>3, <1>4, <1>5, <1>12 DEF DownloadRename, PublishFile
<1>13. CASE IndexStat(p)
  BY <1>1, <1>3, <1>4, <1>13 DEF IndexStat
<1>14. CASE IndexIntersect(p) \/ IndexRename(p) \/ IndexMeta(p)
  BY <1>3, <1>4, <1>14 DEF IndexIntersect, IndexRename, IndexMeta
<1>15. CASE DeleteStat(p)
  BY <1>1, <1>4, <1>15 DEF DeleteStat
<1>16. CASE DeleteList(p)
  <2>1. \/ \E t : req' = [req EXCEPT ![p].pc = "relink", ![p].todo = t]
        \/ req' = [req EXCEPT ![p].pc = "subvol", ![p].missed = Snap]
    BY <1>16, Zenon DEF DeleteList
  <2> QED BY <1>1, <2>1
<1>17. CASE DeleteRelink(p)
  BY <1>1, <1>3, <1>17, RelinkRead
<1>18. CASE DeleteSubvol(p) \/ DeleteFile(p)
  BY <1>3, <1>4, <1>18 DEF DeleteSubvol, DeleteFile
<1>19. CASE DeleteRewrite(p)
  BY <1>1, <1>19, RelinkWrite
<1> QED BY <1>19, <1>6, <1>7, <1>8, <1>9, <1>10, <1>11, <1>12, <1>13, <1>14, <1>15, <1>16, <1>17, <1>18 DEF Step

\* A request that deletes was deleting already, or has just begun.
LEMMA OnlyDeletes ==
    ASSUME StoreInv, NEW p \in Proc, Step(p), req'[p].op = "delete", req'[p].pc \notin {"stat", "list"}
    PROVE  DeleteList(p) \/ DeleteRelink(p) \/ DeleteRewrite(p) \/ DeleteSubvol(p) \/ DeleteFile(p)
<1>1. DOMAIN req = Proc /\ IsRequest(req[p])
  BY DEF StoreInv, TypeOK
<1>2. PICK v : v = req[p]
  OBVIOUS
<1>3. \A w : req' = [req EXCEPT ![p] = w] => req'[p] = w
  BY <1>1
<1>4. \A l : Goto(p, l) => req'[p].op = v.op
  <2>1. ASSUME NEW l, Goto(p, l) PROVE req'[p].op = v.op
    <3>1. req'[p] = [v EXCEPT !.pc = l]
      BY <1>1, <1>2, <2>1 DEF Goto
    <3> QED BY <1>1, <1>2, <3>1, FieldsKept
  <2> QED BY <2>1
<1>5. ~Done(p)
  BY <1>3, IdleRequest DEF Done
<1>6. ~Abort(p)
  BY <1>5 DEF Abort
<1>7. ~Start(p)
  <2>1. \A op, pc, s, b : Begin(op, pc, s, b).op = op /\ Begin(op, pc, s, b).pc = pc
    BY DEF Begin
  <2>2. ASSUME NEW op, NEW pc, NEW s, NEW b, op # "delete" \/ pc = "stat"
        PROVE  req' # [req EXCEPT ![p] = Begin(op, pc, s, b)]
    BY <1>3, <2>1, <2>2
  <2> QED BY <2>2 DEF Start
<1>8. ~DownloadCheck(p) /\ ~DownloadMetadata(p) /\ ~DownloadCreate(p) /\ ~DownloadPrepare(p)
  BY <1>2, <1>4, <1>5, <1>6 DEF DownloadCheck, DownloadMetadata, DownloadCreate, DownloadPrepare, At
<1>9. ~DownloadIndex(p)
  <2>1. ASSUME DownloadIndex(p) PROVE FALSE
    <3>1. PICK a, b : req' = [req EXCEPT ![p].pc = "find", ![p].ix = a, ![p].todo = b]
      BY <2>1, Zenon DEF DownloadIndex
    <3>2. req'[p] = [v EXCEPT !.pc = "find", !.ix = a, !.todo = b] /\ v.op = "download"
      BY <1>1, <1>2, <2>1, <3>1 DEF DownloadIndex, At
    <3> QED BY <1>1, <1>2, <3>2, FieldsKept
  <2> QED BY <2>1
<1>10. ~DownloadFind(p)
  <2>1. ASSUME DownloadFind(p) PROVE FALSE
    <3>1. PICK a, b : req' = [req EXCEPT ![p].pc = "write", ![p].ix = a, ![p].loc = b]
      BY <1>6, <2>1, Zenon DEF DownloadFind
    <3>2. req'[p] = [v EXCEPT !.pc = "write", !.ix = a, !.loc = b]
      BY <1>1, <1>2, <3>1
    <3>3. v.op = "download"
      BY <1>2, <2>1, Zenon DEF DownloadFind, At
    <3> QED BY <1>1, <1>2, <3>2, <3>3, FieldsKept
  <2> QED BY <2>1
<1>11. ~DownloadWrite(p)
  <2>1. ASSUME DownloadWrite(p) PROVE FALSE
    <3>1. req' = [req EXCEPT ![p].pc = "find", ![p].todo = Tail(@), ![p].loc = None]
      BY <1>6, <2>1, Zenon DEF DownloadWrite
    <3>2. PICK t : t = Tail(v.todo)
      OBVIOUS
    <3>3. req'[p] = [v EXCEPT !.pc = "find", !.todo = t, !.loc = None]
      BY <1>1, <1>2, <3>1, <3>2
    <3>4. v.op = "download"
      BY <1>2, <2>1, Zenon DEF DownloadWrite, At
    <3> QED BY <1>1, <1>2, <3>3, <3>4, FieldsKept
  <2> QED BY <2>1
<1>12. ~DownloadEntries(p)
  <2>1. ASSUME DownloadEntries(p) PROVE FALSE
    <3>1. PICK s : req' = [req EXCEPT ![p] = Begin("download", "rename", s, None)]
      BY <1>6, <2>1, Zenon DEF DownloadEntries
    <3>2. Begin("download", "rename", s, None).op = "download"
      BY DEF Begin
    <3> QED BY <1>3, <3>1, <3>2
  <2> QED BY <2>1
<1>13. ~DownloadRename(p) /\ ~PublishFile(p)
  BY <1>2, <1>4, <1>5, <1>6 DEF DownloadRename, PublishFile, At
<1>14. ~IndexStat(p)
  <2>1. ASSUME IndexStat(p) PROVE FALSE
    <3>1. v.op = "index"
      BY <1>2, <2>1 DEF IndexStat, At
    <3>2. PICK b : req' = [req EXCEPT ![p].pc = "intersect", ![p].parent = b]
      BY <1>4, <1>5, <2>1, <3>1, Zenon DEF IndexStat
    <3>3. req'[p] = [v EXCEPT !.pc = "intersect", !.parent = b]
      BY <1>1, <1>2, <3>2
    <3> QED BY <1>1, <1>2, <3>1, <3>3, FieldsKept
  <2> QED BY <2>1
<1>15. ~IndexIntersect(p) /\ ~IndexRename(p) /\ ~IndexMeta(p)
  BY <1>2, <1>4, <1>5 DEF IndexIntersect, IndexRename, IndexMeta, At
<1>16. ~DeleteStat(p)
  <2>1. ASSUME DeleteStat(p) PROVE FALSE
    <3>1. PICK b : req' = [req EXCEPT ![p].pc = "list", ![p].parent = b]
      BY <1>5, <2>1, Zenon DEF DeleteStat
    <3>2. req'[p] = [v EXCEPT !.pc = "list", !.parent = b]
      BY <1>1, <1>2, <3>1
    <3>3. v = Request(v.op, v.pc, v.snap, v.parent, v.ix, v.todo, v.loc, v.missed)
      BY <1>1, <1>2, RequestType
    <3>4. req'[p].pc = "list"
      BY <3>2, <3>3 DEF Request
    <3> QED BY <3>4
  <2> QED BY <2>1
<1> QED BY <1>7, <1>8, <1>9, <1>10, <1>11, <1>12, <1>13, <1>14, <1>15, <1>16 DEF Step

\* What os.ReadDir lists are the names that are there.
LEMMA ListingFacts ==
    ASSUME NEW S, NEW t \in Listing(S)
    PROVE  t \in Seq(S) /\ Range(t) = S
<1>1. PICK m \in 0..Cardinality(S) : t \in [1..m -> S]
  BY DEF Listing, BoundedSeq, SeqOf
<1>2. m \in Nat
  BY <1>1
<1> QED BY <1>1, <1>2 DEF Listing

\* The part of RelinkInv about one deletion, with the metadata m and the snaps F
\* that others have rewritten.
Relinked(q, m, F) ==
    q.op = "delete" /\ q.pc \notin {"stat", "list"} =>
        /\ q.pc \in {"relink", "rewrite"} => q.todo \in Seq(Snap)
        /\ q.pc = "rewrite" => q.todo # <<>>
        /\ \A x \in Snap \ (F \cup q.missed) :
              m[x] # None /\ m[x].parent = q.snap /\ q.parent # q.snap =>
                  \/ q.pc \in {"relink", "rewrite"} /\ x \in Range(q.todo)
                  \/ q.pc \in {"relink", "rewrite", "subvol", "json"} /\ x = q.snap

\* A deletion lists the metadata files, reads or writes one, or goes on to the removal.
LEMMA RelinkOwn ==
    ASSUME StoreInv, RelinkInv, NEW p \in Proc, Step(p), req'[p].op = "delete", Watch(FALSE)
    PROVE  Relinked(req'[p], json', fresh'[p])
<1> SUFFICES ASSUME req'[p].pc \notin {"stat", "list"} PROVE Relinked(req'[p], json', fresh'[p])
  BY DEF Relinked
<1>1. PICK v, w, F, G : v = req[p] /\ w = req'[p] /\ F = fresh[p] /\ G = fresh'[p]
  OBVIOUS
<1>2. DOMAIN req = Proc /\ IsRequest(v) /\ json \in [Snap -> [parent : Parents] \cup {None}]
  BY <1>1 DEF StoreInv, TypeOK
<1>3. F \subseteq G
  BY <1>1 DEF Watch
<1>4. Relinked(v, json, F)
  BY <1>1 DEF RelinkInv, Relinked
<1>6. CASE DeleteList(p)
  <2>1. v.op = "delete" /\ v.pc = "list" /\ json' = json
    BY <1>1, <1>6, Zenon DEF DeleteList, At, store
  <2>2. CASE req' = [req EXCEPT ![p].pc = "subvol", ![p].missed = Snap]
    <3>1. w = [v EXCEPT !.pc = "subvol", !.missed = Snap]
      BY <1>1, <1>2, <2>2
    <3>2. w.op = "delete" /\ w.pc = "subvol" /\ w.missed = Snap
      BY <1>2, <2>1, <3>1, ListKept
    <3> QED BY <1>1, <3>2 DEF Relinked
  <2>3. ASSUME NEW t \in Listing({x \in Snap : json[x] # None /\ x # v.snap}),
               req' = [req EXCEPT ![p].pc = "relink", ![p].todo = t]
        PROVE  Relinked(req'[p], json', fresh'[p])
    <3>1. PICK S : S = {x \in Snap : json[x] # None /\ x # v.snap}
      OBVIOUS
    <3>2. t \in Seq(S) /\ Range(t) = S /\ S \subseteq Snap
      BY <2>3, <3>1, ListingFacts
    <3>3. t \in Seq(Snap) /\ Range(t) = {x \in Snap : json[x] # None /\ x # v.snap}
      BY <3>1, <3>2
    <3>4. w = [v EXCEPT !.pc = "relink", !.todo = t]
      BY <1>1, <1>2, <2>3
    <3>5. w.op = "delete" /\ w.pc = "relink" /\ w.snap = v.snap /\ w.todo = t
      BY <1>2, <2>1, <3>4, ListKept
    <3> QED BY <1>1, <2>1, <3>3, <3>5 DEF Relinked
  <2> QED BY <1>1, <1>6, <2>2, <2>3 DEF DeleteList
<1>7. CASE DeleteRelink(p)
  <2>1. v.op = "delete" /\ v.pc = "relink" /\ json' = json
    BY <1>1, <1>7 DEF DeleteRelink, At, store
  <2>2. /\ v.todo \in Seq(Snap)
        /\ \A x \in Snap \ (F \cup v.missed) :
              json[x] # None /\ json[x].parent = v.snap /\ v.parent # v.snap
              => x \in Range(v.todo) \/ x = v.snap
    BY <1>4, <2>1 DEF Relinked
  <2>3. CASE v.todo = <<>>
    <3>1. Goto(p, "subvol")
      BY <1>1, <1>7, <2>3 DEF DeleteRelink
    <3>2. w = [v EXCEPT !.pc = "subvol"]
      BY <1>1, <1>2, <3>1 DEF Goto
    <3>3. /\ w.op = "delete" /\ w.pc = "subvol" /\ w.snap = v.snap /\ w.parent = v.parent
          /\ w.missed = v.missed
      BY <1>2, <2>1, <3>2, ListKept
    <3>4. Range(v.todo) = {}
      BY <2>3 DEF Range
    <3> QED BY <1>1, <1>3, <2>1, <2>2, <3>3, <3>4 DEF Relinked
  <2>4. CASE v.todo # <<>>
    <3>1. PICK x, t, m : x = Head(v.todo) /\ t = Tail(v.todo) /\ m = v.missed \cup {x}
      OBVIOUS
    <3>2. x \in Snap /\ t \in Seq(Snap) /\ Range(v.todo) = {x} \cup Range(t)
      BY <2>2, <2>4, <3>1, RangeTail
    <3>3. \/ Goto(p, "rewrite")
          \/ ~(json[x] # None /\ json[x].parent = v.snap) /\ req' = [req EXCEPT ![p].todo = t]
          \/ req' = [req EXCEPT ![p].todo = t, ![p].missed = m]
      BY <1>1, <1>7, <2>4, <3>1 DEF DeleteRelink
    <3>4. CASE Goto(p, "rewrite")
      <4>1. w = [v EXCEPT !.pc = "rewrite"]
        BY <1>1, <1>2, <3>4 DEF Goto
      <4>2. /\ w.op = "delete" /\ w.pc = "rewrite" /\ w.snap = v.snap /\ w.parent = v.parent
            /\ w.todo = v.todo /\ w.missed = v.missed
        BY <1>2, <2>1, <4>1, ListKept
      <4> QED BY <1>1, <1>3, <2>1, <2>2, <2>4, <4>2 DEF Relinked
    <3>5. CASE /\ ~(json[x] # None /\ json[x].parent = v.snap)
               /\ req' = [req EXCEPT ![p].todo = t]
      <4>1. w = [v EXCEPT !.todo = t]
        BY <1>1, <1>2, <3>5
      <4>2. /\ w.op = "delete" /\ w.pc = "relink" /\ w.snap = v.snap /\ w.parent = v.parent
            /\ w.todo = t /\ w.missed = v.missed
        BY <1>2, <2>1, <4>1, ListKept
      <4> QED BY <1>1, <1>3, <2>1, <2>2, <3>2, <3>5, <4>2 DEF Relinked
    <3>6. CASE req' = [req EXCEPT ![p].todo = t, ![p].missed = m]
      <4>1. w = [v EXCEPT !.todo = t, !.missed = m]
        BY <1>1, <1>2, <3>6
      <4>2. /\ w.op = "delete" /\ w.pc = "relink" /\ w.snap = v.snap /\ w.parent = v.parent
            /\ w.todo = t /\ w.missed = m
        BY <1>2, <2>1, <4>1, ListKept
      <4> QED BY <1>1, <1>3, <2>1, <2>2, <3>1, <3>2, <4>2 DEF Relinked
    <3> QED BY <3>3, <3>4, <3>5, <3>6
  <2> QED BY <2>3, <2>4
<1>10. CASE DeleteRewrite(p)
  <2>1. v.op = "delete" /\ v.pc = "rewrite"
    BY <1>1, <1>10 DEF DeleteRewrite, At
  <2>2. /\ v.todo \in Seq(Snap) /\ v.todo # <<>>
        /\ \A x \in Snap \ (F \cup v.missed) :
              json[x] # None /\ json[x].parent = v.snap /\ v.parent # v.snap
              => x \in Range(v.todo) \/ x = v.snap
    BY <1>4, <2>1 DEF Relinked
  <2>3. PICK x, t, m : x = Head(v.todo) /\ t = Tail(v.todo) /\ m = v.missed \cup {x}
    OBVIOUS
  <2>4. x \in Snap /\ t \in Seq(Snap) /\ Range(v.todo) = {x} \cup Range(t)
    BY <2>2, <2>3, RangeTail
  <2>5. \/ /\ json' = [json EXCEPT ![x] = [parent |-> v.parent]]
           /\ req' = [req EXCEPT ![p].pc = "relink", ![p].todo = t]
        \/ /\ json' = json
           /\ req' = [req EXCEPT ![p].pc = "relink", ![p].todo = t, ![p].missed = m]
    BY <1>1, <1>10, <2>3 DEF DeleteRewrite, RelinkNext
  <2>6. CASE /\ json' = [json EXCEPT ![x] = [parent |-> v.parent]]
             /\ req' = [req EXCEPT ![p].pc = "relink", ![p].todo = t]
    <3>1. w = [v EXCEPT !.pc = "relink", !.todo = t]
      BY <1>1, <1>2, <2>6
    <3>2. /\ w.op = "delete" /\ w.pc = "relink" /\ w.snap = v.snap /\ w.parent = v.parent
          /\ w.todo = t /\ w.missed = v.missed
      BY <1>2, <2>1, <3>1, ListKept
    <3>3. /\ json'[x].parent = v.parent
          /\ \A y \in Snap : y # x => json'[y] = json[y]
      BY <1>2, <2>4, <2>6
    <3>4. ASSUME NEW y \in Snap \ (G \cup v.missed), json'[y] # None, json'[y].parent = v.snap,
                 v.parent # v.snap
          PROVE  y \in Range(t) \/ y = v.snap
      <4>1. y # x /\ json'[y] = json[y] /\ y \in Snap \ (F \cup v.missed)
        BY <1>3, <3>3, <3>4
      <4>2. y \in Range(v.todo) \/ y = v.snap
        BY <2>2, <3>4, <4>1
      <4> QED BY <2>4, <4>1, <4>2
    <3> QED BY <1>1, <2>4, <3>2, <3>4 DEF Relinked
  <2>7. CASE /\ json' = json
             /\ req' = [req EXCEPT ![p].pc = "relink", ![p].todo = t, ![p].missed = m]
    <3>1. w = [v EXCEPT !.pc = "relink", !.todo = t, !.missed = m]
      BY <1>1, <1>2, <2>7
    <3>2. /\ w.op = "delete" /\ w.pc = "relink" /\ w.snap = v.snap /\ w.parent = v.parent
          /\ w.todo = t /\ w.missed = m
      BY <1>2, <2>1, <3>1, ListKept
    <3> QED BY <1>1, <1>3, <2>2, <2>3, <2>4, <2>7, <3>2 DEF Relinked
  <2> QED BY <2>5, <2>6, <2>7
<1>8. CASE DeleteSubvol(p)
  <2>1. v.op = "delete" /\ v.pc = "subvol" /\ json' = json
    BY <1>1, <1>8 DEF DeleteSubvol, At
  <2>2. ~Done(p)
    BY <1>2, IdleRequest DEF Done
  <2>3. Goto(p, "json")
    BY <1>8, <2>2 DEF DeleteSubvol
  <2>4. w = [v EXCEPT !.pc = "json"]
    BY <1>1, <1>2, <2>3 DEF Goto
  <2>5. /\ w.op = "delete" /\ w.pc = "json" /\ w.snap = v.snap /\ w.parent = v.parent
        /\ w.missed = v.missed
    BY <1>2, <2>1, <2>4, ListKept
  <2> QED BY <1>1, <1>3, <1>4, <2>1, <2>5 DEF Relinked
<1>9. CASE DeleteFile(p)
  <2>1. v.op = "delete" /\ v.pc \in {"json", "stamp", "tsm", "tsc"} /\ v.snap \in Snap
    BY <1>1, <1>2, <1>9, RequestType DEF DeleteFile
  <2>2. ~Done(p)
    BY <1>2, IdleRequest DEF Done
  <2>3. PICK l : l = [json |-> "stamp", stamp |-> "tsm", tsm |-> "tsc"][v.pc]
    OBVIOUS
  <2>4. Goto(p, l) /\ v.pc # "tsc"
    BY <1>1, <1>9, <2>2, <2>3 DEF DeleteFile
  <2>5. l \in {"stamp", "tsm", "tsc"}
    BY <2>1, <2>3, <2>4
  <2>6. w = [v EXCEPT !.pc = l]
    BY <1>1, <1>2, <2>4 DEF Goto
  <2>7. /\ w.op = "delete" /\ w.pc = l /\ w.snap = v.snap /\ w.parent = v.parent
        /\ w.missed = v.missed
    BY <1>2, <2>1, <2>6, ListKept
  <2>8. json' = IF v.pc = "json" THEN [json EXCEPT ![v.snap] = None] ELSE json
    BY <1>1, <1>9 DEF DeleteFile
  <2>9. \A x \in Snap : /\ x # v.snap => json'[x] = json[x]
                        /\ v.pc = "json" => json'[v.snap] = None
                        /\ v.pc # "json" => json'[x] = json[x]
    BY <1>2, <2>1, <2>8
  <2>10. ASSUME NEW x \in Snap \ (G \cup v.missed), json'[x] # None, json'[x].parent = v.snap,
                v.parent # v.snap
         PROVE  FALSE
    <3>1. x \in Snap \ (F \cup v.missed) /\ json'[x] = json[x] /\ (v.pc = "json" => x # v.snap)
      BY <1>3, <2>9, <2>10
    <3> QED BY <1>4, <2>1, <2>10, <3>1 DEF Relinked
  <2> QED BY <1>1, <2>5, <2>7, <2>10 DEF Relinked
<1> QED BY <1>6, <1>7, <1>8, <1>9, <1>10, OnlyDeletes

LEMMA RelinkStep ==
    ASSUME StoreInv, RelinkInv, NEW p \in Proc, Step(p), Watch(FALSE)
    PROVE  RelinkInv'
<1>1. ASSUME NEW x \in Proc PROVE Relinked(req'[x], json', fresh'[x])
  <2>1. CASE req'[x].op # "delete"
    BY <2>1 DEF Relinked
  <2>2. CASE x = p /\ req'[x].op = "delete"
    BY <2>2, RelinkOwn
  <2>3. CASE x # p /\ req'[x].op = "delete"
    <3>1. req'[x] = req[x]
      BY <2>3, OthersStay
    <3>2. fresh'[x] = fresh[x] \cup {y \in Snap : json'[y] # json[y]}
      BY <2>3, <3>1 DEF Watch
    <3>3. Relinked(req[x], json, fresh[x])
      BY DEF RelinkInv, Relinked
    <3> QED BY <3>1, <3>2, <3>3 DEF Relinked
  <2> QED BY <2>1, <2>2, <2>3
<1>2. \A x \in Proc : Relinked(req[x], json, fresh[x])'
  BY <1>1 DEF Relinked
<1> QED BY <1>2 DEF RelinkInv, Relinked

\* Deletions keep the list of children they have yet to relink, whoever else
\* writes metadata.
THEOREM ChildrenListed == Spec => [](StoreInv /\ RelinkInv)
<1>1. ASSUME Init PROVE RelinkInv
  <2>1. \A p \in Proc : req[p] = Idle
    BY <1>1 DEF Init
  <2> QED BY <2>1, IdleRequest DEF RelinkInv
<1>2. ASSUME StoreInv, RelinkInv, [Next]_vars PROVE RelinkInv'
  <2>1. ASSUME NEW p \in Proc, Step(p), Watch(FALSE) PROVE RelinkInv'
    BY <1>2, <2>1, RelinkStep
  <2>2. CASE Crash
    <3>1. \A p \in Proc : req'[p] = Idle
      BY <2>2 DEF Crash
    <3> QED BY <3>1, IdleRequest DEF RelinkInv
  <2>3. CASE UNCHANGED vars
    <3>1. req' = req /\ json' = json /\ fresh' = fresh
      BY <2>3 DEF vars, state, store
    <3> QED BY <1>2, <3>1 DEF RelinkInv
  <2> QED BY <1>2, <2>1, <2>2, <2>3 DEF Next
<1> QED BY <1>1, <1>2, InitInv, NextInv, PTL DEF Spec

\* handleDeleteSnap leaves no snap that names the deleted one as its parent but those
\* whose metadata it could not list, read or write and those whose metadata another
\* request wrote in the meantime, for any number of snaps and of requests and crashes
\* between its file operations.
THEOREM DeletionRelinks == Spec => ChildrenRelinked
<1> DEFINE A == \A p \in Proc :
          At(p, "delete", "tsc") /\ req'[p] = Idle /\ req[p].parent # req[p].snap
          => \A x \in Snap \ (fresh[p] \cup req[p].missed) :
                json[x] # None => json[x].parent # req[p].snap
<1>1. ASSUME RelinkInv PROVE A
  BY <1>1 DEF RelinkInv, At
<1>2. ASSUME StoreInv /\ RelinkInv, [Next]_vars PROVE [A]_vars
  BY <1>1, <1>2
<1> QED BY <1>2, ChildrenListed, PTL DEF Spec, ChildrenRelinked

=============================================================================
