------------------------- MODULE ContainerNsProofs -------------------------
(***************************************************************************)
(* Proofs about ContainerNs, for every finite set of sessions, every set   *)
(* of root filesystems and every bound on starts, deaths and restarts.     *)
(***************************************************************************)
EXTENDS ContainerNs, FiniteSetTheorems, SequenceTheorems, TLAPS

\* The records of init and sess.
ProcStates == {"booting", "alive", "zombie", "orphan", "reaped"}

InitType == [root : RootFS, refs : Nat, ready : BOOLEAN, stopping : BOOLEAN,
             closed : BOOLEAN, died : BOOLEAN, proc : ProcStates]

HoldLabels == {"start", "confine", "run", "postExit", "release"}
StopLabels == {"stop", "stopCgroup", "stopped"}
FreeLabels == {"idle", "getOrCreate", "waitStopped"}
Labels == FreeLabels \cup {"ready"} \cup HoldLabels \cup StopLabels

Wrappers == {"none", "running", "dead"}
Inners == {"none", "stage2", "joined", "running", "dead"}

SessType == [root : RootFS \cup {NoRoot}, held : Nat \cup {NoInit},
             after : {"idle", "getOrCreate"}, leaf : BOOLEAN, wrapper : Wrappers,
             inner : Inners, place : {"none", "leaf", "vshd"}, pc : Labels]

FaultsType == [starts : Nat, deaths : Nat, restarts : Nat]

\* The parts of the invariant about who holds, creates and stops what.
Books == /\ WaitsEnd /\ ServedRooted /\ HoldersRegistered
         /\ EntriesServe /\ CreatorsAlone /\ StoppersOwn

\* The inits whose process and cgroup somebody counts on: registered and not
\* being stopped, or just being created.
Serving == {i \in DOMAIN init :
              \/ entries[init[i].root] = i /\ ~init[i].stopping
              \/ \E s \in Sessions : At(s, "ready") /\ Held(s) = i}

\* The type invariant in terms of these sets.
LEMMA TypeOKDef ==
    TypeOK <=> /\ vshd \in {"none", "up", "dead"}
               /\ mu \in Sessions \cup {NoOne}
               /\ entries \in [RootFS -> Nat \cup {NoInit}]
               /\ init \in Seq(InitType)
               /\ cg \in SUBSET RootFS
               /\ sess \in [Sessions -> SessType]
               /\ faults \in FaultsType
<1>1. Labels = {"idle", "getOrCreate", "waitStopped", "ready", "start", "confine", "run", "postExit",
                "release", "stop", "stopCgroup", "stopped"}
  BY DEF Labels, HoldLabels, StopLabels, FreeLabels
<1>2. SessType = [root : RootFS \cup {NoRoot}, held : Nat \cup {NoInit},
                  after : {"idle", "getOrCreate"}, leaf : BOOLEAN,
                  wrapper : {"none", "running", "dead"},
                  inner : {"none", "stage2", "joined", "running", "dead"},
                  place : {"none", "leaf", "vshd"},
                  pc : {"idle", "getOrCreate", "waitStopped", "ready", "start",
                        "confine", "run", "postExit", "release", "stop",
                        "stopCgroup", "stopped"}]
  BY <1>1, Zenon DEF SessType, Wrappers, Inners
<1> QED BY <1>2, Zenon DEF TypeOK, InitType, ProcStates, FaultsType

\* A function on the indices of a sequence is a sequence of the same length.
LEMMA SeqUpdate ==
    ASSUME NEW S, NEW q \in Seq(S), NEW f \in [DOMAIN q -> S]
    PROVE  f \in Seq(S) /\ DOMAIN f = DOMAIN q
<1>1. DOMAIN q = 1..Len(q) /\ Len(q) \in Nat
  BY LenProperties
<1> QED BY <1>1, SeqDef

\* The inits are numbered from 1, and each has its record.
LEMMA InitFacts ==
    ASSUME NEW q \in Seq(InitType)
    PROVE  /\ DOMAIN q = 1..Len(q) /\ Len(q) \in Nat
           /\ \A i \in DOMAIN q : i \in Nat /\ i # NoInit /\ q[i] \in InitType
<1>1. DOMAIN q = 1..Len(q) /\ Len(q) \in Nat
  BY LenProperties
<1>2. \A i \in DOMAIN q : q[i] \in InitType
  BY ElementOfSeq, <1>1
<1> QED BY <1>1, <1>2, ValuesAssumption

\* Assigning a field of an init's record keeps its type.
LEMMA InitUpdate ==
    ASSUME NEW r \in InitType
    PROVE  /\ \A p \in ProcStates : [r EXCEPT !.proc = p] \in InitType
           /\ \A n \in Nat : [r EXCEPT !.refs = n] \in InitType
           /\ \A b \in BOOLEAN : [r EXCEPT !.ready = b] \in InitType
           /\ \A b \in BOOLEAN : [r EXCEPT !.stopping = b] \in InitType
           /\ \A b \in BOOLEAN : [r EXCEPT !.closed = b] \in InitType
           /\ \A b \in BOOLEAN : [r EXCEPT !.died = b] \in InitType
<1> USE DEF InitType
<1>1. \A p \in ProcStates : [r EXCEPT !.proc = p] \in InitType
  OBVIOUS
<1>2. \A n \in Nat : [r EXCEPT !.refs = n] \in InitType
  OBVIOUS
<1>3. \A b \in BOOLEAN : [r EXCEPT !.ready = b] \in InitType
  OBVIOUS
<1>4. \A b \in BOOLEAN : [r EXCEPT !.stopping = b] \in InitType
  OBVIOUS
<1>5. \A b \in BOOLEAN : [r EXCEPT !.closed = b] \in InitType
  OBVIOUS
<1>6. \A b \in BOOLEAN : [r EXCEPT !.died = b] \in InitType
  OBVIOUS
<1> QED BY <1>1, <1>2, <1>3, <1>4, <1>5, <1>6

\* Assigning a field of a session's record keeps its type.
LEMMA SessUpdate ==
    ASSUME NEW r \in SessType
    PROVE  /\ \A l \in Labels : [r EXCEPT !.pc = l] \in SessType
           /\ \A x \in RootFS : [r EXCEPT !.root = x] \in SessType
           /\ \A i \in Nat : [r EXCEPT !.held = i] \in SessType
           /\ \A l \in {"idle", "getOrCreate"} : [r EXCEPT !.after = l] \in SessType
           /\ \A w \in Wrappers : [r EXCEPT !.wrapper = w] \in SessType
           /\ \A n \in Inners : [r EXCEPT !.inner = n] \in SessType
           /\ \A p \in {"none", "leaf", "vshd"} : [r EXCEPT !.place = p] \in SessType
           /\ \A b \in BOOLEAN : [r EXCEPT !.leaf = b] \in SessType
<1> USE DEF SessType
<1>1. \A l \in Labels : [r EXCEPT !.pc = l] \in SessType
  OBVIOUS
<1>2. \A x \in RootFS : [r EXCEPT !.root = x] \in SessType
  OBVIOUS
<1>3. \A i \in Nat : [r EXCEPT !.held = i] \in SessType
  OBVIOUS
<1>4. \A l \in {"idle", "getOrCreate"} : [r EXCEPT !.after = l] \in SessType
  OBVIOUS
<1>5. \A w \in Wrappers : [r EXCEPT !.wrapper = w] \in SessType
  OBVIOUS
<1>6. \A n \in Inners : [r EXCEPT !.inner = n] \in SessType
  OBVIOUS
<1>7. \A p \in {"none", "leaf", "vshd"} : [r EXCEPT !.place = p] \in SessType
  OBVIOUS
<1>8. \A b \in BOOLEAN : [r EXCEPT !.leaf = b] \in SessType
  OBVIOUS
<1> QED BY <1>1, <1>2, <1>3, <1>4, <1>5, <1>6, <1>7, <1>8

\* The state of a session slot that is not in use.
LEMMA IdleType == Idle \in SessType /\ Idle.pc = "idle"
BY DEF Idle, SessType, Labels, FreeLabels, Wrappers, Inners

\* Nothing is held before the first session.
LEMMA InitInv == Init => NsInv
<1> SUFFICES ASSUME Init PROVE NsInv
  OBVIOUS
<1>1. TypeOK
  <2>1. sess \in [Sessions -> SessType]
    BY IdleType DEF Init
  <2>2. init \in Seq(InitType)
    BY DEF Init
  <2>3. faults \in FaultsType
    BY DEF Init, FaultsType
  <2> QED BY <2>1, <2>2, <2>3, TypeOKDef DEF Init
<1>2. \A s \in Sessions : sess[s].pc = "idle"
  BY IdleType DEF Init
<1>3. DOMAIN init = {}
  BY DEF Init
<1> QED BY <1>1, <1>2, <1>3, SessionsAssumption
     DEF Init, NsInv, WaitsEnd, ServedRooted, HoldersRegistered, EntriesServe, CreatorsAlone, StoppersOwn,
         Holding, Stopping, At

-----------------------------------------------------------------------------
(* The kinds of step.                                                      *)

\* The type invariant of the next state, from the variables that changed.
LEMMA TypeKept ==
    ASSUME vshd' \in {"none", "up", "dead"}, mu' \in Sessions \cup {NoOne},
           entries' \in [RootFS -> Nat \cup {NoInit}], init' \in Seq(InitType),
           cg' \in SUBSET RootFS, sess' \in [Sessions -> SessType], faults' \in FaultsType
    PROVE  TypeOK'
<1>1. (/\ vshd \in {"none", "up", "dead"}
       /\ mu \in Sessions \cup {NoOne}
       /\ entries \in [RootFS -> Nat \cup {NoInit}]
       /\ init \in Seq(InitType)
       /\ cg \in SUBSET RootFS
       /\ sess \in [Sessions -> SessType]
       /\ faults \in FaultsType)'
  OBVIOUS
<1> QED BY <1>1, TypeOKDef, PTL

\* Sessions and inits go on, but nobody begins or ends holding, creating or
\* stopping, and what is counted on still serves.
LEMMA Moves ==
    ASSUME NsInv, sess' \in [Sessions -> SessType], init' \in Seq(InitType),
           DOMAIN init' = DOMAIN init, UNCHANGED <<mu, entries>>,
           vshd' \in {"none", "up", "dead"}, cg' \in SUBSET RootFS, faults' \in FaultsType,
           \A t \in Sessions : /\ sess'[t].root = sess[t].root /\ sess'[t].held = sess[t].held
                               /\ \/ sess'[t].pc = sess[t].pc
                                  \/ sess[t].pc \in HoldLabels /\ sess'[t].pc \in HoldLabels
                                  \/ sess[t].pc \in StopLabels /\ sess'[t].pc \in StopLabels,
           \A i \in DOMAIN init : /\ init'[i].root = init[i].root /\ init'[i].refs = init[i].refs
                                  /\ init'[i].stopping = init[i].stopping
                                  /\ init'[i].closed = init[i].closed
                                  /\ init'[i].proc = "booting" => ~init'[i].ready,
           \A i \in Serving :
              /\ (init[i].proc = "alive" \/ init[i].died) => (init'[i].proc = "alive" \/ init'[i].died)
              /\ (init[i].ready => init[i].proc = "alive" \/ init[i].died)
                    => (init'[i].ready => init'[i].proc = "alive" \/ init'[i].died)
              /\ init[i].proc \notin {"orphan", "reaped"} => init'[i].proc \notin {"orphan", "reaped"}
              /\ init[i].root \in cg => init[i].root \in cg'
    PROVE  TypeOK' /\ Books'
<1> USE DEF NsInv
<1>0. /\ TypeOK' /\ entries \in [RootFS -> Nat \cup {NoInit}]
  BY TypeKept, TypeOKDef
<1>1. Holding' = Holding /\ Stopping' = Stopping
  BY DEF Holding, Stopping, HoldLabels, StopLabels
<1>2. \A i : Holders(i)' = Holders(i)
  BY <1>1 DEF Holders, Held, Holding
<1>3. \A t \in Sessions : /\ At(t, "ready")' <=> At(t, "ready")
                          /\ At(t, "idle")' <=> At(t, "idle")
                          /\ At(t, "waitStopped")' <=> At(t, "waitStopped")
                          /\ Held(t)' = Held(t) /\ Root(t)' = Root(t) /\ Entry(t)' = Entry(t)
  BY DEF At, HoldLabels, StopLabels, Held, Root, Entry
<1>4. Stopping \subseteq Sessions /\ Holding \subseteq Sessions
  BY DEF Stopping, Holding
<1>5. WaitsEnd'
  BY <1>1, <1>3, <1>4 DEF WaitsEnd
<1>6. ServedRooted'
  BY <1>3 DEF ServedRooted
<1>7. HoldersRegistered'
  BY <1>1, <1>3, <1>4 DEF HoldersRegistered
<1>8. StoppersOwn'
  BY <1>1, <1>3, <1>4 DEF StoppersOwn
<1>9. CreatorsAlone'
  <2> SUFFICES ASSUME NEW s \in Sessions, At(s, "ready")
               PROVE  /\ Entry(s) = NoInit /\ Root(s) \in cg' /\ Held(s) \in DOMAIN init
                      /\ init'[Held(s)].root = Root(s) /\ ~init'[Held(s)].stopping
                      /\ init'[Held(s)].proc \notin {"orphan", "reaped"}
                      /\ init'[Held(s)].ready => init'[Held(s)].proc = "alive" \/ init'[Held(s)].died
    BY <1>3 DEF CreatorsAlone
  <2>1. PICK i \in DOMAIN init : i = Held(s)
    BY DEF CreatorsAlone
  <2>2. i \in Serving
    BY <2>1 DEF Serving
  <2>3. /\ Entry(s) = NoInit /\ Root(s) \in cg /\ init[i].root = Root(s) /\ ~init[i].stopping
        /\ init[i].proc \notin {"orphan", "reaped"}
        /\ init[i].ready => init[i].proc = "alive" \/ init[i].died
    BY <2>1 DEF CreatorsAlone
  <2> QED BY <2>1, <2>2, <2>3
<1>10. EntriesServe'
  <2> SUFFICES ASSUME NEW r \in RootFS, entries[r] # NoInit
               PROVE  /\ entries[r] \in DOMAIN init
                      /\ init'[entries[r]].root = r
                      /\ init'[entries[r]].stopping => \E t \in Stopping : Held(t)' = entries[r]
                      /\ ~init'[entries[r]].stopping =>
                            /\ init'[entries[r]].refs = Cardinality(Holders(entries[r]))
                            /\ init'[entries[r]].proc = "alive" \/ init'[entries[r]].died
                            /\ init'[entries[r]].proc \notin {"orphan", "reaped"}
                            /\ r \in cg'
    BY <1>1, <1>2 DEF EntriesServe
  <2>1. PICK i \in DOMAIN init : i = entries[r]
    BY DEF EntriesServe
  <2>2. init[i].root = r /\ (init[i].stopping => \E t \in Stopping : Held(t) = i)
    BY <2>1 DEF EntriesServe
  <2>3. ASSUME ~init[i].stopping
        PROVE  /\ i \in Serving
               /\ init[i].refs = Cardinality(Holders(i)) /\ init[i].proc \notin {"orphan", "reaped"}
               /\ init[i].proc = "alive" \/ init[i].died
               /\ r \in cg
    BY <2>1, <2>2, <2>3 DEF EntriesServe, Serving
  <2> QED BY <1>3, <1>4, <2>1, <2>2, <2>3
<1> QED BY <1>0, <1>5, <1>6, <1>7, <1>8, <1>9, <1>10 DEF Books

\* A session that holds nothing goes on without getting anything.
LEMMA FreeMoves ==
    ASSUME NsInv, NEW s \in Sessions, NEW w \in SessType, sess' = [sess EXCEPT ![s] = w],
           UNCHANGED <<mu, entries, init>>,
           vshd' \in {"none", "up", "dead"}, faults' \in FaultsType,
           cg' \in SUBSET RootFS, cg \subseteq cg',
           sess[s].pc \in FreeLabels, w.pc \in FreeLabels,
           w.pc # "idle" => w.root \in RootFS,
           w.pc = "waitStopped" => /\ w.held \in DOMAIN init
                                   /\ init[w.held].closed \/ \E t \in Stopping : Held(t) = w.held
    PROVE  TypeOK' /\ Books'
<1> USE DEF NsInv
<1>0. /\ sess \in [Sessions -> SessType]
  BY TypeOKDef
<1>1. sess'[s] = w /\ \A t \in Sessions : t # s => sess'[t] = sess[t]
  BY <1>0
<1>2. TypeOK'
  <2>1. sess' \in [Sessions -> SessType]
    BY <1>0
  <2> QED BY <2>1, TypeKept, TypeOKDef
<1>3. Holding' = Holding /\ Stopping' = Stopping /\ s \notin Holding /\ s \notin Stopping
  BY <1>1 DEF Holding, Stopping, FreeLabels
<1>4. \A t \in Sessions : t # s => At(t, "ready")' = At(t, "ready") /\ At(t, "idle")' = At(t, "idle")
                                   /\ At(t, "waitStopped")' = At(t, "waitStopped")
                                   /\ Held(t)' = Held(t) /\ Root(t)' = Root(t) /\ Entry(t)' = Entry(t)
  BY <1>1 DEF At, Held, Root, Entry
<1>5. \A i : Holders(i)' = Holders(i)
  BY <1>3, <1>4 DEF Holders, Holding
<1>6. /\ ~At(s, "ready") /\ ~At(s, "ready")' /\ (At(s, "waitStopped")' <=> w.pc = "waitStopped")
      /\ (At(s, "idle")' <=> w.pc = "idle") /\ Held(s)' = w.held /\ Root(s)' = w.root
  BY <1>1 DEF At, FreeLabels, Held, Root
<1>7. Stopping \subseteq Sessions /\ Holding \subseteq Sessions
  BY DEF Stopping, Holding
<1>8. WaitsEnd'
  <2>1. \A t \in Stopping : Held(t)' = Held(t)
    BY <1>3, <1>4, <1>7
  <2>2. ASSUME NEW t \in Sessions, At(t, "waitStopped")'
        PROVE  /\ Held(t)' \in DOMAIN init
               /\ init[Held(t)'].closed \/ \E u \in Stopping : Held(u)' = Held(t)'
    BY <1>4, <1>6, <2>1, <2>2 DEF WaitsEnd
  <2>3. \A t \in Sessions : At(t, "ready")' <=> mu = t
    BY <1>4, <1>6 DEF WaitsEnd
  <2> QED BY <1>3, <2>2, <2>3 DEF WaitsEnd
<1>9. ServedRooted'
  BY <1>4, <1>6 DEF ServedRooted
<1>10. HoldersRegistered'
  BY <1>3, <1>4, <1>7 DEF HoldersRegistered
<1>11. StoppersOwn'
  BY <1>3, <1>4, <1>7 DEF StoppersOwn
<1>12. CreatorsAlone'
  BY <1>4, <1>6 DEF CreatorsAlone
<1>13. EntriesServe'
  BY <1>3, <1>4, <1>5, <1>7 DEF EntriesServe
<1> QED BY <1>2, <1>8, <1>9, <1>10, <1>11, <1>12, <1>13 DEF Books

-----------------------------------------------------------------------------
(* The steps of a session's processes.                                     *)

\* Killing processes changes nothing that the manager keeps.
LEMMA KilledType ==
    ASSUME NEW ss \in [Sessions -> SessType], NEW hit
    PROVE  /\ Killed(ss, hit) \in [Sessions -> SessType]
           /\ \A t \in Sessions : /\ Killed(ss, hit)[t].pc = ss[t].pc
                                  /\ Killed(ss, hit)[t].root = ss[t].root
                                  /\ Killed(ss, hit)[t].held = ss[t].held
<1>1. ASSUME NEW t \in Sessions
      PROVE  /\ Killed(ss, hit)[t] \in SessType
             /\ Killed(ss, hit)[t].pc = ss[t].pc
             /\ Killed(ss, hit)[t].root = ss[t].root
             /\ Killed(ss, hit)[t].held = ss[t].held
  <2>1. PICK r \in SessType : r = ss[t]
    OBVIOUS
  <2>2. PICK n \in Inners : n = IF r.inner = "none" THEN r.inner ELSE "dead"
    BY DEF Inners, SessType
  <2>3. PICK w \in Wrappers : w = IF r.inner = "none" THEN r.wrapper ELSE "dead"
    BY DEF Wrappers, SessType
  <2>4. PICK q : q = [r EXCEPT !.inner = n, !.wrapper = w]
    OBVIOUS
  <2>5. q \in SessType
    <3>1. [r EXCEPT !.inner = n] \in SessType
      BY <2>2, SessUpdate
    <3> QED BY <2>3, <2>4, <3>1, SessUpdate, Zenon
  <2>6. q.pc = r.pc /\ q.root = r.root /\ q.held = r.held
    BY <2>4 DEF SessType
  <2>7. Killed(ss, hit)[t] = IF t \in hit THEN q ELSE r
    BY <2>1, <2>2, <2>3, <2>4 DEF Killed
  <2> QED BY <2>1, <2>5, <2>6, <2>7
<1>2. Killed(ss, hit) = [t \in Sessions |-> Killed(ss, hit)[t]]
  BY DEF Killed
<1>3. Killed(ss, hit) \in [Sessions -> SessType]
  BY <1>1, <1>2
<1> QED BY <1>1, <1>3

\* One session's record changes, in place.
LEMMA SessionGoesOn ==
    ASSUME NsInv, NEW s \in Sessions, NEW w \in SessType, sess' = [sess EXCEPT ![s] = w],
           UNCHANGED <<vshd, mu, entries, init, cg, faults>>,
           w.root = sess[s].root, w.held = sess[s].held,
           w.pc = sess[s].pc \/ (sess[s].pc \in HoldLabels /\ w.pc \in HoldLabels)
    PROVE  TypeOK' /\ Books'
<1> USE DEF NsInv
<1>0. sess \in [Sessions -> SessType] /\ init \in Seq(InitType) /\ faults \in FaultsType
      /\ vshd \in {"none", "up", "dead"} /\ cg \in SUBSET RootFS
  BY TypeOKDef
<1>1. sess' \in [Sessions -> SessType]
  BY <1>0
<1>2. sess'[s] = w /\ \A t \in Sessions : t # s => sess'[t] = sess[t]
  BY <1>0
<1>3. \A t \in Sessions : /\ sess'[t].root = sess[t].root /\ sess'[t].held = sess[t].held
                          /\ \/ sess'[t].pc = sess[t].pc
                             \/ sess[t].pc \in HoldLabels /\ sess'[t].pc \in HoldLabels
                             \/ sess[t].pc \in StopLabels /\ sess'[t].pc \in StopLabels
  BY <1>2
<1>4. \A i \in DOMAIN init : init[i].proc = "booting" => ~init[i].ready
  BY DEF ServedRooted
<1> QED BY <1>0, <1>1, <1>3, <1>4, Moves

\* ts nsenter is started, runs through its stages, and ends.
LEMMA ServeInv ==
    ASSUME NsInv, NEW s \in Sessions,
           \/ Start(s) \/ NsenterStage1(s) \/ NsenterStage2(s) \/ JoinAndRun(s)
           \/ ConfigureContainer(s) \/ ConfineFails(s) \/ SpliceEnds(s)
    PROVE  TypeOK' /\ Books'
<1>0. sess \in [Sessions -> SessType] /\ sess[s] \in SessType
  BY TypeOKDef DEF NsInv
<1>1. /\ HoldLabels \subseteq Labels /\ "running" \in Wrappers /\ "dead" \in Wrappers
      /\ {"stage2", "joined", "running", "dead"} \subseteq Inners
  BY DEF Labels, Wrappers, Inners
<1>2. UNCHANGED <<vshd, mu, entries, init, cg, faults>>
  BY DEF Start, NsenterStage1, NsenterStage2, JoinAndRun, ConfigureContainer, ConfineFails, SpliceEnds
<1>3. PICK r \in SessType : r = sess[s]
  BY <1>0
<1>4. ASSUME NEW l \in HoldLabels, r.pc \in HoldLabels, sess' = [sess EXCEPT ![s].pc = l]
      PROVE  TypeOK' /\ Books'
  <2>1. PICK w : w = [r EXCEPT !.pc = l]
    OBVIOUS
  <2>2. w \in SessType /\ w.pc = l /\ w.root = r.root /\ w.held = r.held
    BY <1>1, <2>1 DEF SessType
  <2>3. sess' = [sess EXCEPT ![s] = w]
    BY <1>3, <1>4, <2>1
  <2> QED BY <1>2, <1>3, <1>4, <2>2, <2>3, SessionGoesOn
<1>5. ASSUME NEW l \in HoldLabels, NEW x \in Wrappers, r.pc \in HoldLabels,
             sess' = [sess EXCEPT ![s].pc = l, ![s].wrapper = x]
      PROVE  TypeOK' /\ Books'
  <2>1. PICK w : w = [r EXCEPT !.pc = l, !.wrapper = x]
    OBVIOUS
  <2>2. w \in SessType
    <3>1. [r EXCEPT !.pc = l] \in SessType
      BY <1>1, SessUpdate
    <3> QED BY <2>1, <3>1, SessUpdate, Zenon
  <2>3. w.pc = l /\ w.root = r.root /\ w.held = r.held
    BY <2>1 DEF SessType
  <2>4. sess' = [sess EXCEPT ![s] = w]
    BY <1>3, <1>5, <2>1
  <2> QED BY <1>2, <1>3, <1>5, <2>2, <2>3, <2>4, SessionGoesOn
<1>6. ASSUME NEW n \in Inners, NEW p \in {"none", "leaf", "vshd"},
             sess' = [sess EXCEPT ![s].inner = n, ![s].place = p]
      PROVE  TypeOK' /\ Books'
  <2>1. PICK w : w = [r EXCEPT !.inner = n, !.place = p]
    OBVIOUS
  <2>2. w \in SessType
    <3>1. [r EXCEPT !.inner = n] \in SessType
      BY SessUpdate
    <3> QED BY <2>1, <3>1, SessUpdate, Zenon
  <2>3. w.pc = r.pc /\ w.root = r.root /\ w.held = r.held
    BY <2>1 DEF SessType
  <2>4. sess' = [sess EXCEPT ![s] = w]
    BY <1>3, <1>6, <2>1
  <2> QED BY <1>2, <1>3, <2>2, <2>3, <2>4, SessionGoesOn
<1>7. ASSUME NEW x \in Wrappers, sess' = [sess EXCEPT ![s].wrapper = x]
      PROVE  TypeOK' /\ Books'
  <2>1. PICK w : w = [r EXCEPT !.wrapper = x]
    OBVIOUS
  <2>2. w \in SessType /\ w.pc = r.pc /\ w.root = r.root /\ w.held = r.held
    BY <2>1 DEF SessType
  <2>3. sess' = [sess EXCEPT ![s] = w]
    BY <1>3, <1>7, <2>1
  <2> QED BY <1>2, <1>3, <2>2, <2>3, SessionGoesOn
<1>8. ASSUME NEW n \in Inners, sess' = [sess EXCEPT ![s].inner = n]
      PROVE  TypeOK' /\ Books'
  <2>1. PICK w : w = [r EXCEPT !.inner = n]
    OBVIOUS
  <2>2. w \in SessType /\ w.pc = r.pc /\ w.root = r.root /\ w.held = r.held
    BY <2>1 DEF SessType
  <2>3. sess' = [sess EXCEPT ![s] = w]
    BY <1>3, <1>8, <2>1
  <2> QED BY <1>2, <1>3, <2>2, <2>3, SessionGoesOn
<1>9. ASSUME NEW n \in Inners, NEW x \in Wrappers, sess' = [sess EXCEPT ![s].inner = n, ![s].wrapper = x]
      PROVE  TypeOK' /\ Books'
  <2>1. PICK w : w = [r EXCEPT !.inner = n, !.wrapper = x]
    OBVIOUS
  <2>2. w \in SessType
    <3>1. [r EXCEPT !.inner = n] \in SessType
      BY SessUpdate
    <3> QED BY <2>1, <3>1, SessUpdate, Zenon
  <2>3. w.pc = r.pc /\ w.root = r.root /\ w.held = r.held
    BY <2>1 DEF SessType
  <2>4. sess' = [sess EXCEPT ![s] = w]
    BY <1>3, <1>9, <2>1
  <2> QED BY <1>2, <1>3, <2>2, <2>3, <2>4, SessionGoesOn
<1>10. CASE Start(s)
  BY <1>1, <1>3, <1>4, <1>5, <1>10 DEF Start, At, Goto, HoldLabels
<1>11. CASE NsenterStage1(s)
  <2>1. CASE ReallyAlive(Held(s))
    <3>1. PICK p \in {"none", "leaf", "vshd"} : p = IF sess[s].leaf THEN "leaf" ELSE "vshd"
      OBVIOUS
    <3>2. sess' = [sess EXCEPT ![s].inner = "stage2", ![s].place = p]
      BY <1>11, <2>1, <3>1 DEF NsenterStage1
    <3> QED BY <1>1, <1>6, <3>1, <3>2
  <2>2. CASE ~ReallyAlive(Held(s))
    BY <1>1, <1>7, <1>11, <2>2 DEF NsenterStage1
  <2> QED BY <2>1, <2>2
<1>12. CASE NsenterStage2(s) \/ JoinAndRun(s)
  BY <1>1, <1>8, <1>9, <1>12 DEF NsenterStage2, JoinAndRun
<1>13. CASE ConfigureContainer(s)
  <2>1. PICK w : w = [r EXCEPT !.pc = "run", !.leaf = TRUE]
    OBVIOUS
  <2>2. w \in SessType
    <3>1. [r EXCEPT !.pc = "run"] \in SessType
      BY <1>1, SessUpdate DEF HoldLabels
    <3> QED BY <2>1, <3>1, SessUpdate, Zenon
  <2>3. w.pc = "run" /\ w.root = r.root /\ w.held = r.held
    BY <2>1 DEF SessType
  <2>4. sess' = [sess EXCEPT ![s] = w]
    BY <1>3, <1>13, <2>1 DEF ConfigureContainer
  <2> QED BY <1>2, <1>3, <1>13, <2>2, <2>3, <2>4, SessionGoesOn DEF ConfigureContainer, At, HoldLabels
<1>14. CASE ConfineFails(s)
  BY <1>1, <1>3, <1>5, <1>14 DEF ConfineFails, At, HoldLabels
<1>15. CASE SpliceEnds(s)
  BY <1>3, <1>4, <1>15 DEF SpliceEnds, At, Goto, HoldLabels
<1> QED BY <1>10, <1>11, <1>12, <1>13, <1>14, <1>15

\* The end of a session's processes: the command exits, the leaf is killed.
LEMMA EndInv ==
    ASSUME NsInv, NEW s \in Sessions, InnerExits(s) \/ Disconnect(s) \/ PostExit(s)
    PROVE  TypeOK' /\ Books'
<1>0. /\ sess \in [Sessions -> SessType] /\ init \in Seq(InitType) /\ faults \in FaultsType
      /\ vshd \in {"none", "up", "dead"} /\ cg \in SUBSET RootFS
  BY TypeOKDef DEF NsInv
<1>1. PICK r \in SessType : r = sess[s]
  BY <1>0
<1>2. PICK x \in Wrappers : x = IF r.wrapper = "none" THEN r.wrapper ELSE "dead"
  BY DEF Wrappers, SessType
<1>3. PICK n \in Inners : n = IF r.place = "leaf" THEN "dead" ELSE r.inner
  BY DEF Inners, SessType
<1>4. PICK w : w = [r EXCEPT !.wrapper = x, !.inner = n]
  OBVIOUS
<1>5. w \in SessType
  <2>1. [r EXCEPT !.wrapper = x] \in SessType
    BY SessUpdate
  <2> QED BY <1>4, <2>1, SessUpdate, Zenon
<1>6. w.pc = r.pc /\ w.root = r.root /\ w.held = r.held
  BY <1>4 DEF SessType
<1>7. KillSession(s) = [sess EXCEPT ![s] = w]
  BY <1>0, <1>1, <1>2, <1>3, <1>4 DEF KillSession
<1>8. CASE InnerExits(s)
  <2>1. /\ sess' \in [Sessions -> SessType]
        /\ \A t \in Sessions : /\ sess'[t].pc = sess[t].pc /\ sess'[t].root = sess[t].root
                               /\ sess'[t].held = sess[t].held
    BY <1>0, <1>8, KilledType DEF InnerExits
  <2>2. \A i \in DOMAIN init : init[i].proc = "booting" => ~init[i].ready
    BY DEF NsInv, ServedRooted
  <2> QED BY <1>0, <1>8, <2>1, <2>2, Moves DEF InnerExits
<1>9. CASE Disconnect(s)
  BY <1>1, <1>5, <1>6, <1>7, <1>9, SessionGoesOn DEF Disconnect
<1>10. CASE PostExit(s)
  <2>1. PICK v : v = [w EXCEPT !.pc = "release", !.leaf = FALSE]
    OBVIOUS
  <2>2. v \in SessType
    <3>1. [w EXCEPT !.pc = "release"] \in SessType
      BY <1>5, SessUpdate DEF Labels, HoldLabels
    <3> QED BY <2>1, <3>1, SessUpdate, Zenon
  <2>3. v.pc = "release" /\ v.root = r.root /\ v.held = r.held
    BY <1>5, <1>6, <2>1 DEF SessType
  <2>4. sess' = [sess EXCEPT ![s] = v]
    BY <1>0, <1>7, <1>10, <2>1 DEF PostExit
  <2> QED BY <1>1, <1>10, <2>2, <2>3, <2>4, SessionGoesOn DEF PostExit, At, HoldLabels
<1> QED BY <1>8, <1>9, <1>10

-----------------------------------------------------------------------------
(* The steps of inits, and of stopEntry before it takes the mutex again.   *)

\* One init's process changes state; sessions may lose their processes.
LEMMA InitGoesOn ==
    ASSUME NsInv, NEW i \in DOMAIN init, NEW e \in InitType, init' = [init EXCEPT ![i] = e],
           UNCHANGED <<vshd, mu, entries, cg>>, faults' \in FaultsType,
           sess' \in [Sessions -> SessType],
           \A t \in Sessions : /\ sess'[t].root = sess[t].root /\ sess'[t].held = sess[t].held
                               /\ \/ sess'[t].pc = sess[t].pc
                                  \/ sess[t].pc \in StopLabels /\ sess'[t].pc \in StopLabels,
           e.root = init[i].root, e.refs = init[i].refs, e.stopping = init[i].stopping,
           e.closed = init[i].closed, e.proc # "booting",
           i \in Serving =>
              /\ (init[i].proc = "alive" \/ init[i].died) => (e.proc = "alive" \/ e.died)
              /\ (init[i].ready => init[i].proc = "alive" \/ init[i].died)
                    => (e.ready => e.proc = "alive" \/ e.died)
              /\ init[i].proc \notin {"orphan", "reaped"} => e.proc \notin {"orphan", "reaped"}
    PROVE  TypeOK' /\ Books'
<1> USE DEF NsInv
<1>0. /\ init \in Seq(InitType) /\ vshd \in {"none", "up", "dead"} /\ cg \in SUBSET RootFS
  BY TypeOKDef
<1>1. init'[i] = e /\ \A j \in DOMAIN init : j # i => init'[j] = init[j]
  OBVIOUS
<1>2. init' \in Seq(InitType) /\ DOMAIN init' = DOMAIN init
  <2>1. init' \in [DOMAIN init -> InitType]
    BY <1>0, InitFacts
  <2> QED BY <1>0, <2>1, SeqUpdate
<1>3. \A j \in DOMAIN init : init[j].proc = "booting" => ~init[j].ready
  BY DEF ServedRooted
<1>4. \A j \in DOMAIN init : /\ init'[j].root = init[j].root /\ init'[j].refs = init[j].refs
                             /\ init'[j].stopping = init[j].stopping
                             /\ init'[j].closed = init[j].closed
                             /\ init'[j].proc = "booting" => ~init'[j].ready
  BY <1>1, <1>3
<1>5. \A j \in Serving :
         /\ (init[j].proc = "alive" \/ init[j].died) => (init'[j].proc = "alive" \/ init'[j].died)
         /\ (init[j].ready => init[j].proc = "alive" \/ init[j].died)
               => (init'[j].ready => init'[j].proc = "alive" \/ init'[j].died)
         /\ init[j].proc \notin {"orphan", "reaped"} => init'[j].proc \notin {"orphan", "reaped"}
         /\ init[j].root \in cg => init[j].root \in cg'
  <2>1. Serving \subseteq DOMAIN init
    BY DEF Serving
  <2> QED BY <1>1, <2>1
<1> QED BY <1>0, <1>2, <1>4, <1>5, Moves

\* ts container-init comes up, fails to, dies, or exits as an orphan.
LEMMA InitSteps ==
    ASSUME NsInv, NEW i \in DOMAIN init, InitReady(i) \/ BootFails(i) \/ InitDies(i) \/ OrphanExits(i)
    PROVE  TypeOK' /\ Books'
<1>0. /\ init \in Seq(InitType) /\ sess \in [Sessions -> SessType] /\ faults \in FaultsType
  BY TypeOKDef DEF NsInv
<1>1. PICK r \in InitType : r = init[i]
  BY <1>0, InitFacts
<1>2. r.proc = "booting" => ~r.ready
  BY <1>1 DEF NsInv, ServedRooted
<1>3. {"alive", "zombie", "reaped"} \subseteq ProcStates
  BY DEF ProcStates
<1>4. CASE InitReady(i)
  <2>1. PICK e : e = [r EXCEPT !.proc = "alive", !.ready = TRUE]
    OBVIOUS
  <2>2. e \in InitType
    <3>1. [r EXCEPT !.proc = "alive"] \in InitType
      BY <1>3, InitUpdate
    <3> QED BY <2>1, <3>1, InitUpdate, Zenon
  <2>3. /\ e.proc = "alive" /\ e.root = r.root /\ e.refs = r.refs /\ e.stopping = r.stopping
        /\ e.closed = r.closed
    BY <2>1 DEF InitType
  <2>4. init' = [init EXCEPT ![i] = e]
    BY <1>1, <1>4, <2>1 DEF InitReady
  <2> QED BY <1>0, <1>1, <1>4, <2>2, <2>3, <2>4, InitGoesOn DEF InitReady
<1>5. CASE BootFails(i) \/ OrphanExits(i)
  <2>1. PICK p \in {"zombie", "reaped"} : /\ init' = [init EXCEPT ![i].proc = p]
                                          /\ (r.proc = "booting" /\ p = "zombie") \/ r.proc = "orphan"
    BY <1>1, <1>5 DEF BootFails, OrphanExits, Set
  <2>2. PICK e : e = [r EXCEPT !.proc = p]
    OBVIOUS
  <2>3. /\ e \in InitType
        /\ e.proc = p /\ e.root = r.root /\ e.refs = r.refs /\ e.stopping = r.stopping
        /\ e.closed = r.closed /\ e.ready = r.ready /\ e.died = r.died
    BY <1>3, <2>2 DEF InitType
  <2>4. init' = [init EXCEPT ![i] = e]
    BY <1>1, <2>1, <2>2
  <2>5. UNCHANGED <<vshd, mu, entries, cg, sess, faults>>
    BY <1>5 DEF BootFails, OrphanExits
  <2> QED BY <1>0, <1>1, <1>2, <2>1, <2>3, <2>4, <2>5, InitGoesOn
<1>6. CASE InitDies(i)
  <2>1. PICK e : e = [r EXCEPT !.proc = "zombie", !.died = TRUE]
    OBVIOUS
  <2>2. e \in InitType
    <3>1. [r EXCEPT !.proc = "zombie"] \in InitType
      BY <1>3, InitUpdate
    <3> QED BY <2>1, <3>1, InitUpdate, Zenon
  <2>3. /\ e.proc = "zombie" /\ e.died /\ e.root = r.root /\ e.refs = r.refs /\ e.stopping = r.stopping
        /\ e.closed = r.closed
    BY <2>1 DEF InitType
  <2>4. init' = [init EXCEPT ![i] = e]
    BY <1>1, <1>6, <2>1 DEF InitDies
  <2>5. faults' \in FaultsType
    BY <1>0, <1>6 DEF InitDies, FaultsType
  <2>6. /\ sess' \in [Sessions -> SessType]
        /\ \A t \in Sessions : /\ sess'[t].pc = sess[t].pc /\ sess'[t].root = sess[t].root
                               /\ sess'[t].held = sess[t].held
    BY <1>0, <1>6, KilledType DEF InitDies
  <2> QED BY <1>1, <1>6, <2>2, <2>3, <2>4, <2>5, <2>6, InitGoesOn, ZenonT(60) DEF InitDies
<1> QED BY <1>4, <1>5, <1>6

\* Nobody counts on the init that a stopEntry stops, nor on one of its root.
LEMMA StoppedNotServing ==
    ASSUME NsInv, NEW s \in Stopping
    PROVE  /\ Held(s) \notin Serving
           /\ \A i \in Serving : init[i].root # Root(s)
<1> USE DEF NsInv
<1>1. Held(s) \in DOMAIN init /\ Entry(s) = Held(s) /\ init[Held(s)].stopping /\ Held(s) # NoInit
  BY InitFacts, TypeOKDef DEF StoppersOwn
<1>2. \A t \in Sessions : At(t, "ready") => /\ Entry(t) = NoInit /\ ~init[Held(t)].stopping
                                            /\ init[Held(t)].root = Root(t)
  BY DEF CreatorsAlone
<1>3. Held(s) \notin Serving
  BY <1>1, <1>2 DEF Serving
<1>4. \A i \in Serving : init[i].root # Root(s)
  BY <1>1, <1>2 DEF Serving, Entry
<1> QED BY <1>3, <1>4

\* stopEntry waits for the init to be gone.
LEMMA StopReapInv ==
    ASSUME NsInv, NEW s \in Sessions, StopReap(s)
    PROVE  TypeOK' /\ Books'
<1>0. /\ init \in Seq(InitType) /\ sess \in [Sessions -> SessType] /\ faults \in FaultsType
  BY TypeOKDef DEF NsInv
<1>1. s \in Stopping
  BY DEF StopReap, At, Stopping
<1>2. PICK i \in DOMAIN init : i = Held(s)
  BY <1>1 DEF NsInv, StoppersOwn
<1>3. PICK r \in InitType : r = init[i]
  BY <1>0, InitFacts
<1>4. PICK e : e = [r EXCEPT !.proc = "reaped"]
  OBVIOUS
<1>5. /\ e \in InitType
      /\ e.proc = "reaped" /\ e.root = r.root /\ e.refs = r.refs /\ e.stopping = r.stopping
      /\ e.closed = r.closed
  BY <1>4 DEF InitType, ProcStates
<1>6. init' = [init EXCEPT ![i] = e]
  BY <1>2, <1>3, <1>4 DEF StopReap, Set
<1>7. i \notin Serving
  BY <1>1, <1>2, StoppedNotServing
<1>8. PICK ks \in [Sessions -> SessType] :
         /\ ks = Killed(sess, Inside(Held(s)))
         /\ \A t \in Sessions : ks[t].pc = sess[t].pc /\ ks[t].root = sess[t].root /\ ks[t].held = sess[t].held
  BY <1>0, KilledType
<1>9. PICK w \in SessType : w = [ks[s] EXCEPT !.pc = "stopCgroup"]
  BY SessUpdate DEF Labels, StopLabels
<1>10. w.pc = "stopCgroup" /\ w.root = sess[s].root /\ w.held = sess[s].held
  BY <1>8, <1>9 DEF SessType
<1>11. sess' = [ks EXCEPT ![s] = w]
  BY <1>8, <1>9 DEF StopReap
<1>12. /\ sess' \in [Sessions -> SessType]
       /\ \A t \in Sessions : /\ sess'[t].root = sess[t].root /\ sess'[t].held = sess[t].held
                              /\ \/ sess'[t].pc = sess[t].pc
                                 \/ sess[t].pc \in StopLabels /\ sess'[t].pc \in StopLabels
  BY <1>8, <1>10, <1>11 DEF StopReap, At, StopLabels
<1> QED BY <1>0, <1>3, <1>5, <1>6, <1>7, <1>12, InitGoesOn DEF StopReap

\* KillContainer and RemoveContainer reach no container that is counted on.
LEMMA StopCgroupInv ==
    ASSUME NsInv, NEW s \in Sessions, StopCgroup(s)
    PROVE  TypeOK' /\ Books'
<1>0. /\ init \in Seq(InitType) /\ sess \in [Sessions -> SessType] /\ faults \in FaultsType
      /\ cg \in SUBSET RootFS /\ vshd \in {"none", "up", "dead"}
  BY TypeOKDef DEF NsInv
<1>1. s \in Stopping
  BY DEF StopCgroup, At, Stopping
<1>2. ASSUME NEW i \in DOMAIN init
      PROVE  /\ init'[i] \in InitType /\ init'[i].root = init[i].root /\ init'[i].refs = init[i].refs
             /\ init'[i].stopping = init[i].stopping /\ init'[i].closed = init[i].closed
             /\ init'[i].proc = "booting" => ~init'[i].ready
             /\ init[i].root # Root(s) => init'[i] = init[i]
  <2>1. init[i] \in InitType /\ (init[i].proc = "booting" => ~init[i].ready)
    BY <1>0, InitFacts DEF NsInv, ServedRooted
  <2>2. CASE i \in Members(Root(s))
    <3>1. init'[i] = [init[i] EXCEPT !.proc = "zombie"] /\ init[i].root = Root(s)
      BY <2>2 DEF StopCgroup, Members
    <3>2. init'[i] \in InitType
      BY <2>1, <3>1, InitUpdate DEF ProcStates
    <3> QED BY <2>1, <3>1, <3>2 DEF InitType
  <2>3. CASE i \notin Members(Root(s))
    BY <2>1, <2>3 DEF StopCgroup
  <2> QED BY <2>2, <2>3
<1>3. init' \in Seq(InitType) /\ DOMAIN init' = DOMAIN init
  <2>1. init' = [i \in DOMAIN init |-> init'[i]]
    BY DEF StopCgroup
  <2>2. init' \in [DOMAIN init -> InitType]
    BY <1>2, <2>1
  <2> QED BY <1>0, <2>2, SeqUpdate
<1>11. PICK hit : hit = UNION {Inside(i) : i \in Members(Root(s))}
  OBVIOUS
<1>4. PICK ks \in [Sessions -> SessType] :
         /\ ks = Killed(sess, hit)
         /\ \A t \in Sessions : ks[t].pc = sess[t].pc /\ ks[t].root = sess[t].root /\ ks[t].held = sess[t].held
  BY <1>0, KilledType
<1>5. PICK w \in SessType : w = [ks[s] EXCEPT !.pc = "stopped"]
  BY SessUpdate DEF Labels, StopLabels
<1>6. w.pc = "stopped" /\ w.root = sess[s].root /\ w.held = sess[s].held
  BY <1>4, <1>5 DEF SessType
<1>7. sess' = [ks EXCEPT ![s] = w]
  BY <1>4, <1>5, <1>11 DEF StopCgroup
<1>8. /\ sess' \in [Sessions -> SessType]
      /\ \A t \in Sessions : /\ sess'[t].root = sess[t].root /\ sess'[t].held = sess[t].held
                             /\ \/ sess'[t].pc = sess[t].pc
                                \/ sess[t].pc \in HoldLabels /\ sess'[t].pc \in HoldLabels
                                \/ sess[t].pc \in StopLabels /\ sess'[t].pc \in StopLabels
  BY <1>4, <1>6, <1>7, ZenonT(60) DEF StopCgroup, At, StopLabels
<1>9. cg' \in SUBSET RootFS /\ cg \ {Root(s)} \subseteq cg'
  BY <1>0 DEF StopCgroup
<1>10. \A i \in Serving : /\ init'[i] = init[i]
                          /\ init[i].root \in cg => init[i].root \in cg'
  <2>1. Serving \subseteq DOMAIN init
    BY DEF Serving
  <2> QED BY <1>1, <1>2, <1>9, <2>1, StoppedNotServing
<1> QED BY <1>0, <1>2, <1>3, <1>8, <1>9, <1>10, Moves DEF StopCgroup

-----------------------------------------------------------------------------
(* The steps of Manager.                                                   *)

\* The holders of an init are finitely many.
LEMMA HoldersFinite == \A i : IsFiniteSet(Holders(i)) /\ Cardinality(Holders(i)) \in Nat
<1> SUFFICES ASSUME NEW i PROVE IsFiniteSet(Holders(i)) /\ Cardinality(Holders(i)) \in Nat
  OBVIOUS
<1>1. Holders(i) \subseteq Sessions
  BY DEF Holders, Holding
<1>2. IsFiniteSet(Holders(i))
  BY <1>1, FS_Subset, SessionsAssumption
<1> QED BY <1>2, FS_CardinalityType

\* A registered init belongs to its root only, and a creation's is not registered.
LEMMA EntriesApart ==
    ASSUME NsInv
    PROVE  /\ \A r \in RootFS : entries[r] # NoInit => /\ entries[r] \in DOMAIN init
                                                       /\ init[entries[r]].root = r
           /\ \A s \in Sessions : At(s, "ready") =>
                 /\ Root(s) \in RootFS /\ Held(s) \in DOMAIN init
                 /\ \A r \in RootFS : entries[r] # Held(s)
           /\ \A i \in DOMAIN init : i # NoInit /\ init[i] \in InitType /\ init[i].root \in RootFS
           /\ Holding \subseteq Sessions /\ Stopping \subseteq Sessions
           /\ \A t \in Holding \cup Stopping : /\ Root(t) \in RootFS /\ entries[Root(t)] = Held(t)
                                               /\ Held(t) \in DOMAIN init
<1> USE DEF NsInv
<1>1. \A r \in RootFS : entries[r] # NoInit => entries[r] \in DOMAIN init /\ init[entries[r]].root = r
  BY DEF EntriesServe
<1>2. \A i \in DOMAIN init : i # NoInit /\ init[i] \in InitType /\ init[i].root \in RootFS
  BY InitFacts, TypeOKDef DEF InitType
<1>3. Holding \subseteq Sessions /\ Stopping \subseteq Sessions
  BY DEF Holding, Stopping
<1>4. ASSUME NEW s \in Sessions, At(s, "ready")
      PROVE  /\ Root(s) \in RootFS /\ Held(s) \in DOMAIN init
             /\ \A r \in RootFS : entries[r] # Held(s)
  <2>1. Root(s) \in RootFS
    BY <1>4 DEF ServedRooted, At
  <2>2. Held(s) \in DOMAIN init /\ init[Held(s)].root = Root(s) /\ entries[Root(s)] = NoInit
    BY <1>4 DEF CreatorsAlone, Entry
  <2> QED BY <1>1, <1>2, <2>1, <2>2
<1>5. \A t \in Holding \cup Stopping : /\ Root(t) \in RootFS /\ entries[Root(t)] = Held(t)
                                       /\ Held(t) \in DOMAIN init
  BY <1>3 DEF HoldersRegistered, StoppersOwn, ServedRooted, Holding, Stopping, At, Entry
<1> QED BY <1>1, <1>2, <1>3, <1>4, <1>5

\* A session is accepted.
LEMMA DialInv ==
    ASSUME NsInv, NEW s \in Sessions, NEW r \in RootFS, Dial(s, r)
    PROVE  TypeOK' /\ Books'
<1>0. /\ sess \in [Sessions -> SessType] /\ sess[s] \in SessType /\ faults \in FaultsType
      /\ vshd \in {"none", "up", "dead"} /\ cg \in SUBSET RootFS /\ sess[s].pc = "idle"
  BY TypeOKDef DEF NsInv, Dial, At
<1>1. faults' \in FaultsType
  BY <1>0 DEF Dial, Attempt, FaultsType
<1>2. PICK w : w = [sess[s] EXCEPT !.pc = "getOrCreate", !.root = r]
  OBVIOUS
<1>3. w \in SessType
  <2>1. [sess[s] EXCEPT !.pc = "getOrCreate"] \in SessType
    BY <1>0, SessUpdate DEF Labels, FreeLabels
  <2> QED BY <1>2, <2>1, SessUpdate, Zenon
<1>4. w.pc = "getOrCreate" /\ w.root = r
  BY <1>0, <1>2 DEF SessType
<1>5. sess' = [sess EXCEPT ![s] = w]
  BY <1>2 DEF Dial
<1> QED BY <1>0, <1>1, <1>3, <1>4, <1>5, FreeMoves DEF Dial, FreeLabels

\* A session is refused by a vshd that is gone.
LEMMA DialRefusedInv ==
    ASSUME NsInv, NEW s \in Sessions, DialRefused(s)
    PROVE  TypeOK' /\ Books'
<1>1. /\ sess \in [Sessions -> SessType] /\ init \in Seq(InitType) /\ faults \in FaultsType
      /\ vshd \in {"none", "up", "dead"} /\ cg \in SUBSET RootFS
  BY TypeOKDef DEF NsInv
<1>2. faults' \in FaultsType
  BY <1>1 DEF DialRefused, Attempt, FaultsType
<1>3. \A i \in DOMAIN init : init[i].proc = "booting" => ~init[i].ready
  BY DEF NsInv, ServedRooted
<1> QED BY <1>1, <1>2, <1>3, Moves DEF DialRefused

\* A wait for a stop begins and ends, and a creation fails early.
LEMMA WaitInv ==
    ASSUME NsInv, NEW s \in Sessions,
           \/ WaitStopped(s) \/ CreateFails(s)
           \/ GetOrCreate(s) /\ init[Entry(s)].stopping
    PROVE  TypeOK' /\ Books'
<1> USE DEF NsInv
<1>0. /\ sess \in [Sessions -> SessType] /\ sess[s] \in SessType /\ faults \in FaultsType
      /\ vshd \in {"none", "up", "dead"} /\ cg \in SUBSET RootFS
      /\ sess[s].pc \in {"getOrCreate", "waitStopped"} /\ Root(s) \in RootFS
  BY TypeOKDef DEF WaitStopped, CreateFails, GetOrCreate, At, ServedRooted
<1>1. FreeLabels \subseteq Labels
  BY DEF Labels
<1>2. ASSUME NEW l \in {"idle", "getOrCreate"}, Goto(s, l), UNCHANGED <<vshd, mu, entries, init, faults>>,
             cg' = cg \/ cg' = cg \cup {Root(s)}
      PROVE  TypeOK' /\ Books'
  <2>1. PICK w : w = [sess[s] EXCEPT !.pc = l]
    OBVIOUS
  <2>2. w \in SessType /\ w.pc = l /\ w.root = Root(s)
    <3>1. w \in SessType
      BY <1>0, <1>1, <2>1, SessUpdate DEF FreeLabels
    <3>2. w.pc = l /\ w.root = sess[s].root
      BY <1>0, <2>1 DEF SessType
    <3> QED BY <3>1, <3>2 DEF Root
  <2>3. sess' = [sess EXCEPT ![s] = w]
    BY <1>2, <2>1 DEF Goto
  <2>4. cg' \in SUBSET RootFS /\ cg \subseteq cg'
    BY <1>0, <1>2
  <2> QED BY <1>0, <1>2, <2>2, <2>3, <2>4, FreeMoves DEF FreeLabels
<1>3. CASE WaitStopped(s)
  BY <1>2, <1>3 DEF WaitStopped
<1>4. CASE CreateFails(s)
  BY <1>2, <1>4 DEF CreateFails, PrepareContainer
<1>5. CASE GetOrCreate(s) /\ init[Entry(s)].stopping
  <2>1. PICK i : i = Entry(s)
    OBVIOUS
  <2>2. i \in DOMAIN init /\ i \in Nat /\ \E t \in Stopping : Held(t) = i
    BY <1>0, <1>5, <2>1, InitFacts, TypeOKDef DEF GetOrCreate, EntriesServe, Entry
  <2>3. PICK w : w = [sess[s] EXCEPT !.pc = "waitStopped", !.held = i]
    OBVIOUS
  <2>4. w \in SessType
    <3>1. [sess[s] EXCEPT !.pc = "waitStopped"] \in SessType
      BY <1>0, <1>1, SessUpdate DEF FreeLabels
    <3> QED BY <2>2, <2>3, <3>1, SessUpdate, Zenon
  <2>5. w.pc = "waitStopped" /\ w.held = i /\ w.root = Root(s)
    BY <1>0, <2>3 DEF SessType, Root
  <2>6. sess' = [sess EXCEPT ![s] = w] /\ UNCHANGED <<vshd, mu, entries, init, cg, faults>>
    BY <1>5, <2>1, <2>3 DEF GetOrCreate
  <2> QED BY <1>0, <2>2, <2>4, <2>5, <2>6, FreeMoves DEF FreeLabels
<1> QED BY <1>3, <1>4, <1>5

\* A session joins the container: GetOrCreate finds a live entry.
LEMMA JoinInv ==
    ASSUME NsInv, NEW s \in Sessions, GetOrCreate(s), ~init[Entry(s)].stopping
    PROVE  TypeOK' /\ Books'
<1> USE DEF NsInv
<1>0. /\ sess \in [Sessions -> SessType] /\ sess[s] \in SessType /\ init \in Seq(InitType)
      /\ sess[s].pc = "getOrCreate" /\ Root(s) \in RootFS /\ mu = NoOne /\ Entry(s) # NoInit
      /\ UNCHANGED <<vshd, mu, entries, cg, faults>>
  BY TypeOKDef DEF GetOrCreate, At, ServedRooted
<1>1. PICK i \in DOMAIN init : i = Entry(s)
  BY <1>0, EntriesApart DEF Entry
<1>2. /\ ~init[i].stopping /\ init[i].refs = Cardinality(Holders(i)) /\ init[i].proc \notin {"orphan", "reaped"}
      /\ init[i].proc = "alive" \/ init[i].died
      /\ init[i].root = Root(s) /\ Root(s) \in cg /\ init[i] \in InitType /\ i \in Nat
      /\ entries[Root(s)] = i
  BY <1>0, <1>1, EntriesApart, InitFacts DEF EntriesServe, Entry
<1>3. Join(s, i)
  BY <1>0, <1>1, <1>2 DEF GetOrCreate, Alive
<1>4. PICK e : e = [init[i] EXCEPT !.refs = init[i].refs + 1]
  OBVIOUS
<1>5. /\ e \in InitType /\ e.refs = init[i].refs + 1 /\ e.root = init[i].root /\ e.stopping = init[i].stopping
      /\ e.closed = init[i].closed /\ e.died = init[i].died /\ e.proc = init[i].proc /\ e.ready = init[i].ready
  BY <1>2, <1>4 DEF InitType
<1>6. init' = [init EXCEPT ![i] = e]
  BY <1>3, <1>4 DEF Join
<1>7. PICK w : w = [sess[s] EXCEPT !.pc = "start", !.held = i]
  OBVIOUS
<1>8. w \in SessType
  <2>1. [sess[s] EXCEPT !.pc = "start"] \in SessType
    BY <1>0, SessUpdate DEF Labels, HoldLabels
  <2> QED BY <1>2, <1>7, <2>1, SessUpdate, Zenon
<1>9. w.pc = "start" /\ w.held = i /\ w.root = Root(s)
  BY <1>0, <1>7 DEF SessType, Root
<1>10. sess' = [sess EXCEPT ![s] = w]
  BY <1>3, <1>7 DEF Join
<1>11. sess'[s] = w /\ \A t \in Sessions : t # s => sess'[t] = sess[t]
  BY <1>0, <1>10
<1>12. init'[i] = e /\ DOMAIN init' = DOMAIN init /\ \A j \in DOMAIN init : j # i => init'[j] = init[j]
  BY <1>6
<1>13. TypeOK'
  <2>1. sess' \in [Sessions -> SessType]
    BY <1>0, <1>8, <1>10
  <2>2. init' \in Seq(InitType)
    <3>1. init' \in [DOMAIN init -> InitType]
      BY <1>0, <1>5, <1>6, InitFacts
    <3> QED BY <1>0, <3>1, SeqUpdate
  <2> QED BY <1>0, <2>1, <2>2, TypeKept, TypeOKDef
<1>14. Holding' = Holding \cup {s} /\ s \notin Holding /\ Stopping' = Stopping /\ s \notin Stopping
  BY <1>0, <1>9, <1>11 DEF Holding, Stopping
<1>15. /\ \A t \in Sessions : t # s => /\ Held(t)' = Held(t) /\ Root(t)' = Root(t) /\ Entry(t)' = Entry(t)
                                       /\ \A l : At(t, l)' = At(t, l)
       /\ Held(s)' = i /\ Root(s)' = Root(s) /\ Entry(s)' = i
       /\ ~At(s, "ready") /\ ~At(s, "ready")' /\ ~At(s, "waitStopped")'
  BY <1>0, <1>2, <1>9, <1>11 DEF Held, Root, Entry, At
<1>16. /\ Holders(i)' = Holders(i) \cup {s} /\ s \notin Holders(i)
       /\ \A j : j # i => Holders(j)' = Holders(j)
  BY <1>14, <1>15, EntriesApart DEF Holders
<1>17. init'[i].refs = Cardinality(Holders(i)')
  BY <1>2, <1>5, <1>12, <1>16, HoldersFinite, FS_AddElement, ZenonT(60)
<1>18. WaitsEnd'
  BY <1>0, <1>5, <1>12, <1>14, <1>15, EntriesApart DEF WaitsEnd
<1>19. ServedRooted'
  BY <1>0, <1>5, <1>12, <1>15 DEF ServedRooted
<1>20. HoldersRegistered'
  BY <1>1, <1>2, <1>5, <1>12, <1>14, <1>15, EntriesApart DEF HoldersRegistered
<1>21. StoppersOwn'
  BY <1>5, <1>12, <1>14, <1>15, EntriesApart DEF StoppersOwn
<1>22. CreatorsAlone'
  BY <1>0, <1>5, <1>12, <1>15 DEF CreatorsAlone
<1>23. EntriesServe'
  <2> SUFFICES ASSUME NEW r \in RootFS, NEW j, j = entries[r], j # NoInit
               PROVE  /\ j \in DOMAIN init
                      /\ init'[j].root = r
                      /\ init'[j].stopping => \E t \in Stopping : Held(t)' = j
                      /\ ~init'[j].stopping => /\ init'[j].refs = Cardinality(Holders(j)')
                                               /\ init'[j].proc = "alive" \/ init'[j].died
                                               /\ init'[j].proc \notin {"orphan", "reaped"}
                                               /\ r \in cg
    BY <1>0, <1>12, <1>14 DEF EntriesServe
  <2>1. j \in DOMAIN init /\ init[j].root = r
    BY EntriesApart
  <2>2. CASE j = i
    BY <1>2, <1>5, <1>12, <1>17, <2>1, <2>2
  <2>3. CASE j # i
    <3>1. \A t \in Stopping : Held(t)' = Held(t)
      BY <1>14, <1>15, EntriesApart
    <3>2. init'[j] = init[j] /\ Holders(j)' = Holders(j)
      BY <1>12, <1>16, <2>1, <2>3
    <3> QED BY <2>1, <3>1, <3>2 DEF EntriesServe
  <2> QED BY <2>2, <2>3
<1> QED BY <1>13, <1>18, <1>19, <1>20, <1>21, <1>22, <1>23 DEF Books

\* A creation begins: a new init, not registered, under the mutex.
LEMMA CreateInv ==
    ASSUME NsInv, NEW s \in Sessions, Create(s)
    PROVE  TypeOK' /\ Books'
<1> USE DEF NsInv
<1>0. /\ sess \in [Sessions -> SessType] /\ sess[s] \in SessType /\ init \in Seq(InitType)
      /\ sess[s].pc = "getOrCreate" /\ Root(s) \in RootFS /\ mu = NoOne /\ Entry(s) = NoInit
      /\ UNCHANGED <<vshd, entries, faults>> /\ mu' = s /\ cg' = cg \cup {Root(s)}
      /\ cg \in SUBSET RootFS
  BY TypeOKDef DEF Create, PrepareContainer, At, ServedRooted
<1>1. PICK n \in Nat : n = Len(init) + 1
  BY <1>0, InitFacts
<1>2. PICK e \in InitType : /\ init' = Append(init, e) /\ e.root = Root(s) /\ e.proc = "booting"
                            /\ ~e.ready /\ ~e.stopping
  <2>1. PICK e : e = [root |-> Root(s), proc |-> "booting", refs |-> 0, ready |-> FALSE,
                      stopping |-> FALSE, closed |-> FALSE, died |-> FALSE]
    OBVIOUS
  <2>2. e \in InitType
    BY <1>0, <2>1 DEF InitType, ProcStates
  <2> QED BY <2>1, <2>2 DEF Create
<1>3. /\ init' \in Seq(InitType) /\ init'[n] = e /\ DOMAIN init' = DOMAIN init \cup {n}
      /\ n \notin DOMAIN init /\ \A j \in DOMAIN init : init'[j] = init[j]
  <2>1. /\ init' \in Seq(InitType) /\ Len(init') = n /\ init'[n] = e
        /\ \A j \in 1..Len(init) : init'[j] = init[j]
    BY <1>0, <1>1, <1>2, AppendProperties
  <2>2. DOMAIN init' = 1..Len(init') /\ DOMAIN init = 1..Len(init) /\ Len(init) \in Nat
    BY <1>0, <2>1, LenProperties
  <2> QED BY <1>1, <2>1, <2>2
<1>4. PICK w : w = [sess[s] EXCEPT !.pc = "ready", !.held = n]
  OBVIOUS
<1>5. w \in SessType
  <2>1. [sess[s] EXCEPT !.pc = "ready"] \in SessType
    BY <1>0, SessUpdate DEF Labels
  <2> QED BY <1>4, <2>1, SessUpdate, Zenon
<1>6. w.pc = "ready" /\ w.held = n /\ w.root = Root(s)
  BY <1>0, <1>4 DEF SessType, Root
<1>7. sess' = [sess EXCEPT ![s] = w]
  BY <1>1, <1>4 DEF Create
<1>8. sess'[s] = w /\ \A t \in Sessions : t # s => sess'[t] = sess[t]
  BY <1>0, <1>7
<1>9. TypeOK'
  <2>1. sess' \in [Sessions -> SessType] /\ cg' \in SUBSET RootFS
    BY <1>0, <1>5, <1>7
  <2> QED BY <1>0, <1>3, <2>1, TypeKept, TypeOKDef
<1>10. Holding' = Holding /\ s \notin Holding /\ Stopping' = Stopping /\ s \notin Stopping
  BY <1>0, <1>6, <1>8 DEF Holding, Stopping
<1>11. /\ \A t \in Sessions : t # s => /\ Held(t)' = Held(t) /\ Root(t)' = Root(t) /\ Entry(t)' = Entry(t)
                                       /\ \A l : At(t, l)' = At(t, l)
                                       /\ ~At(t, "ready")
       /\ Held(s)' = n /\ Root(s)' = Root(s) /\ Entry(s)' = NoInit
       /\ At(s, "ready")' /\ ~At(s, "waitStopped")'
  <2>1. \A t \in Sessions : ~At(t, "ready")
    BY <1>0, SessionsAssumption DEF WaitsEnd
  <2> QED BY <1>0, <1>6, <1>8, <2>1 DEF Held, Root, Entry, At
<1>12. \A j : Holders(j)' = Holders(j)
  BY <1>10, <1>11, EntriesApart DEF Holders
<1>13. WaitsEnd'
  <2>1. \A t \in Sessions : At(t, "ready")' <=> mu' = t
    BY <1>0, <1>11
  <2> QED BY <1>3, <1>10, <1>11, <2>1, EntriesApart DEF WaitsEnd
<1>14. ServedRooted'
  BY <1>0, <1>2, <1>3, <1>11 DEF ServedRooted
<1>15. HoldersRegistered'
  BY <1>3, <1>10, <1>11, EntriesApart DEF HoldersRegistered
<1>16. StoppersOwn'
  BY <1>3, <1>10, <1>11, EntriesApart DEF StoppersOwn
<1>17. CreatorsAlone'
  BY <1>0, <1>2, <1>3, <1>11 DEF CreatorsAlone
<1>18. EntriesServe'
  <2> SUFFICES ASSUME NEW r \in RootFS, NEW j, j = entries[r], j # NoInit
               PROVE  /\ j \in DOMAIN init'
                      /\ init'[j].root = r
                      /\ init'[j].stopping => \E t \in Stopping : Held(t)' = j
                      /\ ~init'[j].stopping => /\ init'[j].refs = Cardinality(Holders(j)')
                                               /\ init'[j].proc = "alive" \/ init'[j].died
                                               /\ init'[j].proc \notin {"orphan", "reaped"}
                                               /\ r \in cg'
    BY <1>0, <1>10 DEF EntriesServe
  <2>1. j \in DOMAIN init /\ init'[j] = init[j] /\ Holders(j)' = Holders(j)
    BY <1>3, <1>12, EntriesApart
  <2>2. \A t \in Stopping : Held(t)' = Held(t)
    BY <1>10, <1>11, EntriesApart
  <2> QED BY <1>0, <1>3, <2>1, <2>2 DEF EntriesServe
<1> QED BY <1>9, <1>13, <1>14, <1>15, <1>16, <1>17, <1>18 DEF Books

\* READY arrives: the new init is registered with its first holder.
LEMMA CreateReadyInv ==
    ASSUME NsInv, NEW s \in Sessions, CreateReady(s)
    PROVE  TypeOK' /\ Books'
<1> USE DEF NsInv
<1>0. /\ sess \in [Sessions -> SessType] /\ sess[s] \in SessType /\ init \in Seq(InitType)
      /\ sess[s].pc = "ready" /\ At(s, "ready") /\ UNCHANGED <<vshd, cg, faults>> /\ mu' = NoOne
      /\ entries \in [RootFS -> Nat \cup {NoInit}]
  BY TypeOKDef DEF CreateReady, At
<1>1. PICK root \in RootFS : root = Root(s)
  BY <1>0, EntriesApart
<1>2. PICK i \in DOMAIN init : i = Held(s)
  BY <1>0, EntriesApart
<1>3. /\ entries[root] = NoInit /\ root \in cg /\ init[i].root = root /\ ~init[i].stopping
      /\ init[i].proc \notin {"orphan", "reaped"}
      /\ init[i].proc = "alive" \/ init[i].died
      /\ init[i] \in InitType /\ i \in Nat /\ i # NoInit
  BY <1>0, <1>1, <1>2, InitFacts DEF CreatorsAlone, Entry, CreateReady
<1>4. PICK e : e = [init[i] EXCEPT !.refs = 1]
  OBVIOUS
<1>5. /\ e \in InitType /\ e.refs = 1 /\ e.root = root /\ e.stopping = init[i].stopping
      /\ e.closed = init[i].closed /\ e.died = init[i].died /\ e.proc = init[i].proc /\ e.ready = init[i].ready
  BY <1>3, <1>4 DEF InitType
<1>6. init' = [init EXCEPT ![i] = e] /\ entries' = [entries EXCEPT ![root] = i]
  BY <1>1, <1>2, <1>4 DEF CreateReady
<1>7. PICK w : w = [sess[s] EXCEPT !.pc = "start"]
  OBVIOUS
<1>8. w \in SessType
  BY <1>0, <1>7, SessUpdate DEF Labels, HoldLabels
<1>9. w.pc = "start" /\ w.held = i /\ w.root = root
  BY <1>0, <1>1, <1>2, <1>7 DEF SessType, Root, Held
<1>10. sess' = [sess EXCEPT ![s] = w]
  BY <1>7 DEF CreateReady, Goto
<1>11. sess'[s] = w /\ \A t \in Sessions : t # s => sess'[t] = sess[t]
  BY <1>0, <1>10
<1>12. init'[i] = e /\ DOMAIN init' = DOMAIN init /\ \A j \in DOMAIN init : j # i => init'[j] = init[j]
  BY <1>6
<1>13. entries'[root] = i /\ \A r \in RootFS : r # root => entries'[r] = entries[r]
  BY <1>0, <1>6
<1>14. TypeOK'
  <2>1. sess' \in [Sessions -> SessType] /\ entries' \in [RootFS -> Nat \cup {NoInit}]
    BY <1>0, <1>3, <1>6, <1>8, <1>10
  <2>2. init' \in Seq(InitType)
    <3>1. init' \in [DOMAIN init -> InitType]
      BY <1>0, <1>5, <1>6, InitFacts
    <3> QED BY <1>0, <3>1, SeqUpdate
  <2> QED BY <1>0, <2>1, <2>2, TypeKept, TypeOKDef
<1>15. Holding' = Holding \cup {s} /\ s \notin Holding /\ Stopping' = Stopping /\ s \notin Stopping
  BY <1>0, <1>9, <1>11 DEF Holding, Stopping
<1>16. \A t \in Holding \cup Stopping : /\ t \in Sessions /\ t # s /\ Root(t) \in RootFS /\ Root(t) # root
                                        /\ Held(t) # i /\ entries'[Root(t)] = Held(t)
  <2>1. \A r \in RootFS : entries[r] # i
    BY <1>0, <1>2, EntriesApart
  <2> QED BY <1>3, <1>13, <1>15, <2>1, EntriesApart
<1>17. \A t \in Sessions : ~At(t, "ready")'
  <2>1. \A t \in Sessions : t # s => ~At(t, "ready")
    BY <1>0 DEF WaitsEnd
  <2> QED BY <1>9, <1>11, <2>1 DEF At
<1>18. /\ \A t \in Sessions : t # s => /\ Held(t)' = Held(t) /\ Root(t)' = Root(t)
                                       /\ \A l : At(t, l)' = At(t, l)
       /\ Held(s)' = i /\ Root(s)' = root /\ Entry(s)' = i
       /\ ~At(s, "waitStopped")'
  BY <1>9, <1>11, <1>13 DEF Held, Root, Entry, At
<1>19. \A t \in Holding \cup Stopping : Held(t)' = Held(t) /\ Root(t)' = Root(t) /\ Entry(t)' = Held(t)
  BY <1>16, <1>18 DEF Entry
<1>20. Holders(i)' = {s} /\ \A j : j # i => Holders(j)' = Holders(j)
  BY <1>15, <1>16, <1>18, <1>19 DEF Holders
<1>21. WaitsEnd'
  <2>1. \A t \in Sessions : At(t, "ready")' <=> mu' = t
    BY <1>0, <1>17, SessionsAssumption
  <2>2. ASSUME NEW t \in Sessions, At(t, "waitStopped")'
        PROVE  /\ Held(t)' \in DOMAIN init'
               /\ init'[Held(t)'].closed \/ \E u \in Stopping' : Held(u)' = Held(t)'
    <3>1. At(t, "waitStopped") /\ Held(t)' = Held(t)
      BY <1>18, <2>2
    <3>2. Held(t) \in DOMAIN init /\ (init[Held(t)].closed \/ \E u \in Stopping : Held(u) = Held(t))
      BY <3>1 DEF WaitsEnd
    <3>3. init'[Held(t)].closed = init[Held(t)].closed
      BY <1>5, <1>12, <3>2
    <3> QED BY <1>12, <1>15, <1>19, <3>1, <3>2, <3>3
  <2> QED BY <2>1, <2>2 DEF WaitsEnd
<1>22. ServedRooted'
  <2>1. \A t \in Sessions : ~At(t, "idle")' => Root(t)' \in RootFS
    BY <1>18 DEF ServedRooted
  <2>2. \A j \in DOMAIN init' : init'[j].proc = "booting" => ~init'[j].ready
    BY <1>5, <1>12 DEF ServedRooted
  <2> QED BY <2>1, <2>2 DEF ServedRooted
<1>23. HoldersRegistered'
  <2>1. Held(s)' \in DOMAIN init' /\ Entry(s)' = Held(s)' /\ ~init'[Held(s)'].stopping
    BY <1>3, <1>5, <1>12, <1>18
  <2>2. \A t \in Holding : Held(t)' \in DOMAIN init' /\ Entry(t)' = Held(t)' /\ ~init'[Held(t)'].stopping
    BY <1>12, <1>16, <1>19 DEF HoldersRegistered
  <2> QED BY <1>15, <2>1, <2>2 DEF HoldersRegistered
<1>24. StoppersOwn'
  <2>1. \A t \in Stopping : Held(t)' \in DOMAIN init' /\ Entry(t)' = Held(t)' /\ init'[Held(t)'].stopping
    BY <1>12, <1>16, <1>19 DEF StoppersOwn
  <2> QED BY <1>15, <1>19, <2>1 DEF StoppersOwn
<1>25. CreatorsAlone'
  BY <1>17 DEF CreatorsAlone
<1>26. EntriesServe'
  <2> SUFFICES ASSUME NEW r \in RootFS, NEW j, j = entries'[r], j # NoInit
               PROVE  /\ j \in DOMAIN init'
                      /\ init'[j].root = r
                      /\ init'[j].stopping => \E t \in Stopping : Held(t)' = j
                      /\ ~init'[j].stopping => /\ init'[j].refs = Cardinality(Holders(j)')
                                               /\ init'[j].proc = "alive" \/ init'[j].died
                                               /\ init'[j].proc \notin {"orphan", "reaped"}
                                               /\ r \in cg
    BY <1>0, <1>15 DEF EntriesServe
  <2>1. CASE r = root
    <3>1. j = i /\ Cardinality(Holders(i)') = 1
      BY <1>13, <1>20, <2>1, FS_Singleton
    <3> QED BY <1>3, <1>5, <1>12, <2>1, <3>1
  <2>2. CASE r # root
    <3>1. j = entries[r] /\ j \in DOMAIN init /\ init[j].root = r
      BY <1>13, <2>2, EntriesApart
    <3>2. j # i
      BY <1>3, <2>2, <3>1
    <3>3. init'[j] = init[j] /\ Holders(j)' = Holders(j)
      BY <1>12, <1>20, <3>1, <3>2
    <3> QED BY <1>12, <1>19, <3>1, <3>3 DEF EntriesServe
  <2> QED BY <2>1, <2>2
<1> QED BY <1>14, <1>21, <1>22, <1>23, <1>24, <1>25, <1>26 DEF Books

\* A creation gives up: the init that nobody has seen is killed.
LEMMA CreateAbortsInv ==
    ASSUME NsInv, NEW s \in Sessions, CreateAborts(s)
    PROVE  TypeOK' /\ Books'
<1> USE DEF NsInv
<1>0. /\ sess \in [Sessions -> SessType] /\ init \in Seq(InitType)
      /\ sess[s].pc = "ready" /\ At(s, "ready") /\ UNCHANGED <<vshd, entries, cg, faults>> /\ mu' = NoOne
      /\ sess' = [sess EXCEPT ![s] = Idle]
  BY TypeOKDef DEF CreateAborts, At
<1>1. PICK i \in DOMAIN init : i = Held(s)
  BY <1>0, EntriesApart
<1>2. /\ \A r \in RootFS : entries[r] # i
      /\ init[i] \in InitType
  BY <1>0, <1>1, EntriesApart
<1>3. PICK e : e = [init[i] EXCEPT !.proc = "reaped"]
  OBVIOUS
<1>4. /\ e \in InitType /\ e.proc = "reaped" /\ e.stopping = init[i].stopping /\ e.closed = init[i].closed
  BY <1>2, <1>3 DEF InitType, ProcStates
<1>5. init' = [init EXCEPT ![i] = e]
  BY <1>1, <1>3 DEF CreateAborts, Set
<1>6. sess'[s] = Idle /\ \A t \in Sessions : t # s => sess'[t] = sess[t]
  BY <1>0
<1>7. init'[i] = e /\ DOMAIN init' = DOMAIN init /\ \A j \in DOMAIN init : j # i => init'[j] = init[j]
  BY <1>5
<1>8. TypeOK'
  <2>1. sess' \in [Sessions -> SessType]
    BY <1>0, IdleType
  <2>2. init' \in Seq(InitType)
    <3>1. init' \in [DOMAIN init -> InitType]
      BY <1>0, <1>4, <1>5, InitFacts
    <3> QED BY <1>0, <3>1, SeqUpdate
  <2> QED BY <1>0, <2>1, <2>2, TypeKept, TypeOKDef
<1>9. Holding' = Holding /\ s \notin Holding /\ Stopping' = Stopping /\ s \notin Stopping
  BY <1>0, <1>6, IdleType DEF Holding, Stopping
<1>10. /\ \A t \in Sessions : t # s => /\ Held(t)' = Held(t) /\ Root(t)' = Root(t) /\ Entry(t)' = Entry(t)
                                       /\ \A l : At(t, l)' = At(t, l)
                                       /\ ~At(t, "ready")
       /\ At(s, "idle")' /\ ~At(s, "ready")' /\ ~At(s, "waitStopped")'
  <2>1. \A t \in Sessions : t # s => ~At(t, "ready")
    BY <1>0 DEF WaitsEnd
  <2> QED BY <1>0, <1>6, <2>1, IdleType DEF Held, Root, Entry, At
<1>11. \A t \in Holding \cup Stopping : /\ Held(t)' = Held(t) /\ Entry(t)' = Entry(t)
                                        /\ Held(t) \in DOMAIN init /\ Held(t) # i
  BY <1>2, <1>9, <1>10, EntriesApart
<1>12. \A j : Holders(j)' = Holders(j)
  BY <1>9, <1>11 DEF Holders
<1>13. WaitsEnd'
  <2>1. \A t \in Sessions : At(t, "ready")' <=> mu' = t
    BY <1>0, <1>10, SessionsAssumption
  <2>2. ASSUME NEW t \in Sessions, At(t, "waitStopped")'
        PROVE  /\ Held(t)' \in DOMAIN init'
               /\ init'[Held(t)'].closed \/ \E u \in Stopping' : Held(u)' = Held(t)'
    <3>1. At(t, "waitStopped") /\ Held(t)' = Held(t)
      BY <1>10, <2>2
    <3>2. Held(t) \in DOMAIN init /\ (init[Held(t)].closed \/ \E u \in Stopping : Held(u) = Held(t))
      BY <3>1 DEF WaitsEnd
    <3>3. init'[Held(t)].closed = init[Held(t)].closed
      BY <1>4, <1>7, <3>2
    <3> QED BY <1>7, <1>9, <1>11, <3>1, <3>2, <3>3
  <2> QED BY <2>1, <2>2 DEF WaitsEnd
<1>14. ServedRooted'
  BY <1>4, <1>7, <1>10 DEF ServedRooted
<1>15. HoldersRegistered'
  BY <1>7, <1>9, <1>11 DEF HoldersRegistered
<1>16. StoppersOwn'
  BY <1>7, <1>9, <1>11 DEF StoppersOwn
<1>17. CreatorsAlone'
  BY <1>10 DEF CreatorsAlone
<1>18. EntriesServe'
  <2> SUFFICES ASSUME NEW r \in RootFS, NEW j, j = entries[r], j # NoInit
               PROVE  /\ j \in DOMAIN init'
                      /\ init'[j].root = r
                      /\ init'[j].stopping => \E t \in Stopping : Held(t)' = j
                      /\ ~init'[j].stopping => /\ init'[j].refs = Cardinality(Holders(j)')
                                               /\ init'[j].proc = "alive" \/ init'[j].died
                                               /\ init'[j].proc \notin {"orphan", "reaped"}
                                               /\ r \in cg
    BY <1>0, <1>9 DEF EntriesServe
  <2>1. j \in DOMAIN init /\ init'[j] = init[j] /\ Holders(j)' = Holders(j)
    BY <1>2, <1>7, <1>12, EntriesApart
  <2> QED BY <1>7, <1>11, <2>1 DEF EntriesServe
<1> QED BY <1>8, <1>13, <1>14, <1>15, <1>16, <1>17, <1>18 DEF Books

\* A session releases: the count goes down with it, and the last one begins
\* to stop the entry that it finds by its root, which is its own.
LEMMA ReleaseInv ==
    ASSUME NsInv, NEW s \in Sessions, Release(s)
    PROVE  TypeOK' /\ Books'
<1> USE DEF NsInv
<1>0. /\ sess \in [Sessions -> SessType] /\ sess[s] \in SessType /\ init \in Seq(InitType)
      /\ sess[s].pc = "release" /\ s \in Holding /\ UNCHANGED <<vshd, mu, entries, cg, faults>>
      /\ s \notin Stopping
  BY TypeOKDef DEF Release, At, Holding, Stopping
<1>1. PICK i \in DOMAIN init : i = Held(s)
  BY <1>0, EntriesApart
<1>2. PICK root \in RootFS : root = Root(s) /\ entries[root] = i
  BY <1>0, <1>1, EntriesApart
<1>3. /\ ~init[i].stopping /\ init[i].refs = Cardinality(Holders(i)) /\ s \in Holders(i)
      /\ init[i].root = root /\ init[i] \in InitType /\ i \in Nat /\ i # NoInit /\ Entry(s) = i
      /\ root \in cg /\ init[i].proc \notin {"orphan", "reaped"}
      /\ init[i].proc = "alive" \/ init[i].died
  <2>1. ~init[i].stopping /\ s \in Holders(i) /\ Entry(s) = i
    BY <1>0, <1>1, <1>2 DEF HoldersRegistered, Holders, Entry
  <2>2. i # NoInit /\ init[i] \in InitType /\ i \in Nat
    BY <1>0, InitFacts
  <2> QED BY <1>2, <2>1, <2>2 DEF EntriesServe
<1>4. PICK w \in SessType, e \in InitType :
         /\ sess' = [sess EXCEPT ![s] = w] /\ init' = [init EXCEPT ![i] = e]
         /\ e.root = root /\ e.closed = init[i].closed /\ e.proc = init[i].proc /\ e.died = init[i].died
         /\ e.ready = init[i].ready
         /\ \/ /\ w.pc = "idle" /\ ~e.stopping /\ e.refs = init[i].refs - 1
            \/ /\ w.pc = "stop" /\ w.held = i /\ w.root = root /\ e.stopping /\ ~(init[i].refs > 1)
  <2>1. CASE init[i].refs > 1
    <3>1. PICK e : e = [init[i] EXCEPT !.refs = init[i].refs - 1]
      OBVIOUS
    <3>2. init[i].refs \in Nat /\ init[i].refs - 1 \in Nat
      BY <1>3, <2>1 DEF InitType
    <3>3. /\ e \in InitType /\ e.root = root /\ e.closed = init[i].closed /\ e.proc = init[i].proc
          /\ e.died = init[i].died /\ e.ready = init[i].ready /\ e.stopping = init[i].stopping
          /\ e.refs = init[i].refs - 1
      BY <1>3, <3>1, <3>2 DEF InitType
    <3>4. sess' = [sess EXCEPT ![s] = Idle] /\ init' = [init EXCEPT ![i] = e]
      BY <1>3, <2>1, <3>1 DEF Release
    <3> QED BY <1>3, <3>3, <3>4, IdleType
  <2>2. CASE ~(init[i].refs > 1)
    <3>1. BeginStop(s, i, 0, "idle")
      BY <1>3, <2>2 DEF Release
    <3>2. PICK e : e = [init[i] EXCEPT !.stopping = TRUE, !.refs = 0]
      OBVIOUS
    <3>3. e \in InitType
      <4>1. [init[i] EXCEPT !.stopping = TRUE] \in InitType
        BY <1>3, InitUpdate
      <4>2. \A x \in InitType : [x EXCEPT !.refs = 0] \in InitType
        BY InitUpdate
      <4> QED BY <3>2, <4>1, <4>2, Zenon
    <3>4. /\ e.root = root /\ e.closed = init[i].closed /\ e.proc = init[i].proc
          /\ e.died = init[i].died /\ e.ready = init[i].ready /\ e.stopping
      BY <1>3, <3>2 DEF InitType
    <3>5. PICK w : w = [sess[s] EXCEPT !.pc = "stop", !.held = i, !.after = "idle"]
      OBVIOUS
    <3>6. w \in SessType
      <4>1. [sess[s] EXCEPT !.pc = "stop"] \in SessType
        BY <1>0, SessUpdate DEF Labels, StopLabels
      <4>2. \A x \in SessType : [x EXCEPT !.held = i] \in SessType
        BY <1>3, SessUpdate
      <4>3. \A x \in SessType : [x EXCEPT !.after = "idle"] \in SessType
        BY SessUpdate
      <4> QED BY <3>5, <4>1, <4>2, <4>3, Zenon
    <3>7. w.pc = "stop" /\ w.held = i /\ w.root = root
      BY <1>0, <1>2, <3>5 DEF SessType, Root
    <3>8. sess' = [sess EXCEPT ![s] = w] /\ init' = [init EXCEPT ![i] = e]
      BY <3>1, <3>2, <3>5 DEF BeginStop
    <3> QED BY <2>2, <3>3, <3>4, <3>6, <3>7, <3>8
  <2> QED BY <2>1, <2>2
<1>5. sess'[s] = w /\ \A t \in Sessions : t # s => sess'[t] = sess[t]
  BY <1>0, <1>4
<1>6. init'[i] = e /\ DOMAIN init' = DOMAIN init /\ \A j \in DOMAIN init : j # i => init'[j] = init[j]
  BY <1>4
<1>7. TypeOK'
  <2>1. sess' \in [Sessions -> SessType]
    BY <1>0, <1>4
  <2>2. init' \in Seq(InitType)
    <3>1. init' \in [DOMAIN init -> InitType]
      BY <1>0, <1>4, InitFacts
    <3> QED BY <1>0, <3>1, SeqUpdate
  <2> QED BY <1>0, <2>1, <2>2, TypeKept, TypeOKDef
<1>8. Holding' = Holding \ {s}
  BY <1>0, <1>4, <1>5 DEF Holding
<1>9. Stopping' = IF w.pc = "stop" THEN Stopping \cup {s} ELSE Stopping
  BY <1>0, <1>4, <1>5 DEF Stopping
<1>10. /\ \A t \in Sessions : t # s => /\ Held(t)' = Held(t) /\ Root(t)' = Root(t) /\ Entry(t)' = Entry(t)
                                       /\ \A l : At(t, l)' = At(t, l)
       /\ ~At(s, "ready")' /\ ~At(s, "waitStopped")' /\ ~At(s, "ready")
       /\ w.pc = "stop" => Held(s)' = i /\ Root(s)' = root /\ Entry(s)' = i
  BY <1>0, <1>2, <1>4, <1>5 DEF Held, Root, Entry, At
<1>11. Holders(i)' = Holders(i) \ {s} /\ \A j : j # i => Holders(j)' = Holders(j)
  BY <1>1, <1>8, <1>10, EntriesApart DEF Holders
<1>12. Cardinality(Holders(i)') = Cardinality(Holders(i)) - 1
  BY <1>3, <1>11, HoldersFinite, FS_RemoveElement, ZenonT(60)
<1>13. w.pc = "stop" => Holders(i)' = {}
  <2> SUFFICES ASSUME w.pc = "stop" PROVE Holders(i)' = {}
    OBVIOUS
  <2>1. IsFiniteSet(Holders(i)') /\ Cardinality(Holders(i)') \in Nat
    BY <1>3, <1>11, HoldersFinite, FS_RemoveElement, FS_CardinalityType
  <2>2. Cardinality(Holders(i)') = 0
    BY <1>3, <1>4, <1>12, <2>1, HoldersFinite
  <2> QED BY <2>1, <2>2, FS_EmptySet
<1>14. \A t \in Stopping : t # s /\ t \in Sessions /\ Held(t)' = Held(t) /\ Entry(t)' = Entry(t) /\ Held(t) # i
  BY <1>0, <1>3, <1>10, EntriesApart DEF StoppersOwn
<1>15. \A t \in Holding' : /\ t # s /\ t \in Sessions /\ t \in Holding /\ Held(t)' = Held(t)
                           /\ Entry(t)' = Entry(t) /\ (w.pc = "stop" => Held(t) # i)
  <2>1. \A t \in Holding' : t # s /\ t \in Sessions /\ t \in Holding /\ Held(t)' = Held(t)
                           /\ Entry(t)' = Entry(t)
    BY <1>8, <1>10, EntriesApart
  <2>2. \A t \in Holding' : Held(t)' = i => t \in Holders(i)'
    BY DEF Holders
  <2> QED BY <1>13, <2>1, <2>2
<1>16. WaitsEnd'
  <2>1. \A t \in Sessions : At(t, "ready")' <=> mu' = t
    BY <1>0, <1>10 DEF WaitsEnd
  <2>2. ASSUME NEW t \in Sessions, At(t, "waitStopped")'
        PROVE  /\ Held(t)' \in DOMAIN init'
               /\ init'[Held(t)'].closed \/ \E u \in Stopping' : Held(u)' = Held(t)'
    <3>1. At(t, "waitStopped") /\ Held(t)' = Held(t)
      BY <1>10, <2>2
    <3>2. Held(t) \in DOMAIN init /\ (init[Held(t)].closed \/ \E u \in Stopping : Held(u) = Held(t))
      BY <3>1 DEF WaitsEnd
    <3>3. init'[Held(t)].closed = init[Held(t)].closed
      BY <1>4, <1>6, <3>2
    <3> QED BY <1>6, <1>9, <1>14, <3>1, <3>2, <3>3
  <2> QED BY <2>1, <2>2 DEF WaitsEnd
<1>17. ServedRooted'
  <2>1. \A t \in Sessions : ~At(t, "idle")' => Root(t)' \in RootFS
    BY <1>4, <1>5, <1>10 DEF ServedRooted, At
  <2>2. \A j \in DOMAIN init' : init'[j].proc = "booting" => ~init'[j].ready
    BY <1>4, <1>6 DEF ServedRooted
  <2> QED BY <2>1, <2>2 DEF ServedRooted
<1>18. HoldersRegistered'
  BY <1>4, <1>6, <1>15 DEF HoldersRegistered
<1>19. StoppersOwn'
  <2>1. \A t \in Stopping : Held(t)' \in DOMAIN init' /\ Entry(t)' = Held(t)' /\ init'[Held(t)'].stopping
    BY <1>6, <1>14 DEF StoppersOwn
  <2>2. w.pc = "stop" => Held(s)' \in DOMAIN init' /\ Entry(s)' = Held(s)' /\ init'[Held(s)'].stopping
    BY <1>4, <1>6, <1>10
  <2>3. \A t, u \in Stopping' : Held(t)' = Held(u)' => t = u
    BY <1>9, <1>10, <1>14 DEF StoppersOwn
  <2> QED BY <1>9, <2>1, <2>2, <2>3 DEF StoppersOwn
<1>20. CreatorsAlone'
  <2>1. \A t \in Sessions : At(t, "ready") => Held(t) # i
    BY <1>2, EntriesApart
  <2> QED BY <1>0, <1>6, <1>10, <2>1 DEF CreatorsAlone
<1>21. EntriesServe'
  <2> SUFFICES ASSUME NEW r \in RootFS, NEW j, j = entries[r], j # NoInit
               PROVE  /\ j \in DOMAIN init'
                      /\ init'[j].root = r
                      /\ init'[j].stopping => \E t \in Stopping' : Held(t)' = j
                      /\ ~init'[j].stopping => /\ init'[j].refs = Cardinality(Holders(j)')
                                               /\ init'[j].proc = "alive" \/ init'[j].died
                                               /\ init'[j].proc \notin {"orphan", "reaped"}
                                               /\ r \in cg
    BY <1>0 DEF EntriesServe
  <2>1. j \in DOMAIN init /\ init[j].root = r
    BY EntriesApart
  <2>2. CASE j = i
    <3>1. init'[j] = e /\ r = root
      BY <1>3, <1>6, <2>1, <2>2
    <3>2. e.stopping => \E t \in Stopping' : Held(t)' = i
      BY <1>4, <1>9, <1>10
    <3>3. ~e.stopping => e.refs = Cardinality(Holders(i)')
      BY <1>3, <1>4, <1>12
    <3> QED BY <1>3, <1>4, <1>6, <2>1, <2>2, <3>1, <3>2, <3>3
  <2>3. CASE j # i
    <3>1. init'[j] = init[j] /\ Holders(j)' = Holders(j)
      BY <1>6, <1>11, <2>1, <2>3
    <3>2. \A t \in Stopping : t \in Stopping' /\ Held(t)' = Held(t)
      BY <1>9, <1>14
    <3> QED BY <1>6, <2>1, <3>1, <3>2 DEF EntriesServe
  <2> QED BY <2>2, <2>3
<1> QED BY <1>7, <1>16, <1>17, <1>18, <1>19, <1>20, <1>21 DEF Books

\* stopEntry is done: the entry goes, the channel is closed, the waiters wake.
LEMMA StoppedInv ==
    ASSUME NsInv, NEW s \in Sessions, Stopped(s)
    PROVE  TypeOK' /\ Books'
<1> USE DEF NsInv
<1>0. /\ sess \in [Sessions -> SessType] /\ sess[s] \in SessType /\ init \in Seq(InitType)
      /\ sess[s].pc = "stopped" /\ s \in Stopping /\ UNCHANGED <<vshd, mu, cg, faults>>
      /\ s \notin Holding /\ entries \in [RootFS -> Nat \cup {NoInit}]
  BY TypeOKDef DEF Stopped, At, Holding, Stopping
<1>1. PICK i \in DOMAIN init : i = Held(s)
  BY <1>0, EntriesApart
<1>2. PICK root \in RootFS : root = Root(s) /\ entries[root] = i
  BY <1>0, <1>1, EntriesApart
<1>3. /\ init[i].stopping /\ init[i] \in InitType /\ i # NoInit /\ init[i].root = root
  BY <1>0, <1>1, <1>2, EntriesApart DEF StoppersOwn
<1>4. PICK e : e = [init[i] EXCEPT !.closed = TRUE]
  OBVIOUS
<1>5. /\ e \in InitType /\ e.root = init[i].root /\ e.closed /\ e.stopping = init[i].stopping
      /\ e.proc = init[i].proc /\ e.ready = init[i].ready /\ e.died = init[i].died
  BY <1>3, <1>4 DEF InitType
<1>6. init' = [init EXCEPT ![i] = e] /\ entries' = [entries EXCEPT ![root] = NoInit]
  BY <1>1, <1>2, <1>4 DEF Stopped
<1>7. PICK w \in SessType : /\ sess' = [sess EXCEPT ![s] = w] /\ w.pc \in {"idle", "getOrCreate"}
                            /\ w.pc # "idle" => w.root = root
  <2>1. CASE sess[s].after = "idle"
    BY <2>1, IdleType DEF Stopped
  <2>2. CASE sess[s].after # "idle"
    <3>1. sess[s].after = "getOrCreate"
      BY <1>0, <2>2 DEF SessType
    <3>2. PICK w : w = [sess[s] EXCEPT !.pc = "getOrCreate"]
      OBVIOUS
    <3>3. w \in SessType
      BY <1>0, <3>2, SessUpdate DEF Labels, FreeLabels
    <3>4. w.pc = "getOrCreate" /\ w.root = root
      BY <1>0, <1>2, <3>2 DEF SessType, Root
    <3>5. sess' = [sess EXCEPT ![s] = w]
      BY <2>2, <3>1, <3>2 DEF Stopped
    <3> QED BY <3>3, <3>4, <3>5
  <2> QED BY <2>1, <2>2
<1>8. sess'[s] = w /\ \A t \in Sessions : t # s => sess'[t] = sess[t]
  BY <1>0, <1>7
<1>9. init'[i] = e /\ DOMAIN init' = DOMAIN init /\ \A j \in DOMAIN init : j # i => init'[j] = init[j]
  BY <1>6
<1>10. entries'[root] = NoInit /\ \A r \in RootFS : r # root => entries'[r] = entries[r]
  BY <1>0, <1>6
<1>11. TypeOK'
  <2>1. sess' \in [Sessions -> SessType] /\ entries' \in [RootFS -> Nat \cup {NoInit}]
    BY <1>0, <1>6, <1>7
  <2>2. init' \in Seq(InitType)
    <3>1. init' \in [DOMAIN init -> InitType]
      BY <1>0, <1>5, <1>6, InitFacts
    <3> QED BY <1>0, <3>1, SeqUpdate
  <2> QED BY <1>0, <2>1, <2>2, TypeKept, TypeOKDef
<1>12. Holding' = Holding /\ Stopping' = Stopping \ {s}
  BY <1>0, <1>7, <1>8 DEF Holding, Stopping
<1>13. /\ \A t \in Sessions : t # s => /\ Held(t)' = Held(t) /\ Root(t)' = Root(t)
                                       /\ \A l : At(t, l)' = At(t, l)
       /\ ~At(s, "ready") /\ ~At(s, "ready")' /\ ~At(s, "waitStopped")'
       /\ ~At(s, "idle")' => Root(s)' = root
  BY <1>0, <1>7, <1>8 DEF Held, Root, At
<1>14. \A t \in Holding : /\ t # s /\ t \in Sessions /\ Root(t) # root /\ Held(t) # i
                          /\ Held(t)' = Held(t) /\ Entry(t)' = Entry(t)
  <2>1. \A t \in Holding : t # s /\ t \in Sessions /\ Root(t) \in RootFS /\ Held(t) # i
                           /\ entries[Root(t)] = Held(t)
    BY <1>0, <1>3, EntriesApart DEF HoldersRegistered
  <2> QED BY <1>2, <1>10, <1>13, <2>1 DEF Entry
<1>15. \A t \in Stopping' : /\ t # s /\ t \in Stopping /\ t \in Sessions /\ Root(t) # root /\ Held(t) # i
                            /\ Held(t)' = Held(t) /\ Entry(t)' = Entry(t)
  <2>1. \A t \in Stopping' : t # s /\ t \in Stopping /\ t \in Sessions /\ Root(t) \in RootFS /\ Held(t) # i
                             /\ entries[Root(t)] = Held(t)
    BY <1>0, <1>1, <1>12, EntriesApart DEF StoppersOwn
  <2> QED BY <1>2, <1>10, <1>13, <2>1 DEF Entry
<1>16. \A j : Holders(j)' = Holders(j)
  BY <1>12, <1>14 DEF Holders
<1>17. \A t \in Stopping : Held(t) # i => t \in Stopping'
  BY <1>1, <1>12
<1>18. WaitsEnd'
  <2>1. \A t \in Sessions : At(t, "ready")' <=> mu' = t
    BY <1>0, <1>13 DEF WaitsEnd
  <2>2. ASSUME NEW t \in Sessions, At(t, "waitStopped")'
        PROVE  /\ Held(t)' \in DOMAIN init'
               /\ init'[Held(t)'].closed \/ \E u \in Stopping' : Held(u)' = Held(t)'
    <3>1. At(t, "waitStopped") /\ Held(t)' = Held(t)
      BY <1>13, <2>2
    <3>2. Held(t) \in DOMAIN init /\ (init[Held(t)].closed \/ \E u \in Stopping : Held(u) = Held(t))
      BY <3>1 DEF WaitsEnd
    <3>3. CASE Held(t) = i
      BY <1>5, <1>9, <3>1, <3>3
    <3>4. CASE Held(t) # i
      BY <1>9, <1>15, <1>17, <3>1, <3>2, <3>4
    <3> QED BY <3>3, <3>4
  <2> QED BY <2>1, <2>2 DEF WaitsEnd
<1>19. ServedRooted'
  <2>1. \A t \in Sessions : ~At(t, "idle")' => Root(t)' \in RootFS
    BY <1>13 DEF ServedRooted
  <2>2. \A j \in DOMAIN init' : init'[j].proc = "booting" => ~init'[j].ready
    BY <1>5, <1>9 DEF ServedRooted
  <2> QED BY <2>1, <2>2 DEF ServedRooted
<1>20. HoldersRegistered'
  BY <1>9, <1>12, <1>14 DEF HoldersRegistered
<1>21. StoppersOwn'
  BY <1>9, <1>15 DEF StoppersOwn
<1>22. CreatorsAlone'
  <2> SUFFICES ASSUME NEW t \in Sessions, At(t, "ready")'
               PROVE  /\ Entry(t)' = NoInit /\ Root(t)' \in cg /\ Held(t)' \in DOMAIN init'
                      /\ init'[Held(t)'].root = Root(t)' /\ ~init'[Held(t)'].stopping
                      /\ init'[Held(t)'].proc \notin {"orphan", "reaped"}
                      /\ init'[Held(t)'].ready => init'[Held(t)'].proc = "alive" \/ init'[Held(t)'].died
    BY <1>0 DEF CreatorsAlone
  <2>1. At(t, "ready") /\ Held(t)' = Held(t) /\ Root(t)' = Root(t)
    BY <1>13
  <2>2. Held(t) # i /\ Root(t) \in RootFS /\ Held(t) \in DOMAIN init
    BY <1>2, <2>1, EntriesApart
  <2>3. Entry(t)' = NoInit
    BY <1>10, <2>1, <2>2 DEF CreatorsAlone, Entry
  <2> QED BY <1>9, <2>1, <2>2, <2>3 DEF CreatorsAlone
<1>23. EntriesServe'
  <2> SUFFICES ASSUME NEW r \in RootFS, NEW j, j = entries'[r], j # NoInit
               PROVE  /\ j \in DOMAIN init'
                      /\ init'[j].root = r
                      /\ init'[j].stopping => \E t \in Stopping' : Held(t)' = j
                      /\ ~init'[j].stopping => /\ init'[j].refs = Cardinality(Holders(j)')
                                               /\ init'[j].proc = "alive" \/ init'[j].died
                                               /\ init'[j].proc \notin {"orphan", "reaped"}
                                               /\ r \in cg
    BY <1>0 DEF EntriesServe
  <2>1. r # root /\ j = entries[r] /\ j \in DOMAIN init /\ init[j].root = r
    BY <1>10, EntriesApart
  <2>2. j # i
    BY <1>3, <2>1
  <2>3. init'[j] = init[j] /\ Holders(j)' = Holders(j)
    BY <1>9, <1>16, <2>1, <2>2
  <2>4. \A t \in Stopping : Held(t) = j => t \in Stopping' /\ Held(t)' = j
    BY <1>15, <1>17, <2>2
  <2> QED BY <1>9, <2>1, <2>3, <2>4 DEF EntriesServe
<1> QED BY <1>11, <1>18, <1>19, <1>20, <1>21, <1>22, <1>23 DEF Books

\* Every session and every entry goes with vshd.
LEMMA ResetInv ==
    ASSUME NsInv, VshdDies \/ DaemonRestarts
    PROVE  TypeOK' /\ Books'
<1> USE DEF NsInv
<1>0. /\ init \in Seq(InitType) /\ faults \in FaultsType /\ Reset /\ cg \in SUBSET RootFS
      /\ vshd' \in {"none", "up", "dead"} /\ cg' \in SUBSET RootFS
  BY TypeOKDef DEF VshdDies, DaemonRestarts
<1>1. \A t \in Sessions : sess'[t].pc = "idle"
  BY <1>0, IdleType DEF Reset
<1>2. \A j \in DOMAIN init : init'[j] \in InitType /\ init'[j].proc # "booting"
  <2> SUFFICES ASSUME NEW j \in DOMAIN init
               PROVE  init'[j] \in InitType /\ init'[j].proc # "booting"
    OBVIOUS
  <2>1. init[j] \in InitType
    BY <1>0, InitFacts
  <2>2. CASE init[j].proc = "reaped"
    BY <1>0, <2>1, <2>2 DEF Reset
  <2>3. CASE init[j].proc # "reaped"
    <3>1. init'[j] = [init[j] EXCEPT !.proc = "orphan"]
      BY <1>0, <2>3 DEF Reset
    <3>2. init'[j] \in InitType
      BY <2>1, <3>1, InitUpdate DEF ProcStates
    <3> QED BY <2>1, <3>1, <3>2 DEF InitType
  <2> QED BY <2>2, <2>3
<1>3. init' \in Seq(InitType) /\ DOMAIN init' = DOMAIN init
  <2>1. init' = [j \in DOMAIN init |-> init'[j]]
    BY <1>0 DEF Reset
  <2>2. init' \in [DOMAIN init -> InitType]
    BY <1>2, <2>1
  <2> QED BY <1>0, <2>2, SeqUpdate
<1>4. TypeOK'
  <2>1. sess' \in [Sessions -> SessType] /\ faults' \in FaultsType
    BY <1>0, IdleType DEF Reset, FaultsType
  <2>2. entries' \in [RootFS -> Nat \cup {NoInit}] /\ mu' \in Sessions \cup {NoOne}
    BY <1>0 DEF Reset
  <2> QED BY <1>0, <1>3, <2>1, <2>2, TypeKept
<1>5. \A r \in RootFS : entries'[r] = NoInit
  BY <1>0 DEF Reset
<1> QED BY <1>0, <1>1, <1>2, <1>3, <1>4, <1>5, SessionsAssumption
     DEF Reset, Books, WaitsEnd, ServedRooted, HoldersRegistered, EntriesServe, CreatorsAlone, StoppersOwn,
         Holding, Stopping, At

-----------------------------------------------------------------------------
(* The theorems.                                                           *)

\* Every step preserves the invariant.
LEMMA NextInv == NsInv /\ [Next]_vars => NsInv'
<1> SUFFICES ASSUME NsInv, [Next]_vars PROVE NsInv'
  OBVIOUS
<1>1. ASSUME NEW s \in Sessions, Served(s)
      PROVE  TypeOK' /\ Books'
  <2>1. CASE GetOrCreate(s)
    BY <2>1, WaitInv, JoinInv
  <2>2. CASE DialRefused(s)
    BY <2>2, DialRefusedInv
  <2>3. CASE \E r \in RootFS : Dial(s, r)
    BY <2>3, DialInv
  <2> QED BY <1>1, <2>1, <2>2, <2>3, WaitInv, CreateInv, CreateReadyInv, CreateAbortsInv, ServeInv, EndInv,
       ReleaseInv, StopReapInv, StopCgroupInv, StoppedInv DEF Served
<1>2. ASSUME NEW i \in DOMAIN init, InitReady(i) \/ BootFails(i) \/ InitDies(i) \/ OrphanExits(i)
      PROVE  TypeOK' /\ Books'
  BY <1>2, InitSteps
<1>3. CASE VshdDies \/ DaemonRestarts
  BY <1>3, ResetInv DEF NsInv, Books
<1>4. CASE UNCHANGED vars
  <2>1. TypeOK'
    BY <1>4 DEF NsInv, TypeOK, vars
  <2>2. Books'
    BY <1>4 DEF vars, NsInv, Books, WaitsEnd, ServedRooted, HoldersRegistered, EntriesServe,
       CreatorsAlone, StoppersOwn, Holding, Holders, Stopping, At, Held, Root, Entry
  <2> QED BY <2>1, <2>2 DEF NsInv, Books
<1> QED BY <1>1, <1>2, <1>3, <1>4 DEF Next, NsInv, Books

\* Waiters wake, and the manager's entries, creations, holders and stops agree,
\* in every reachable state.
THEOREM NamespacesConsistent == Spec => []NsInv
<1> QED BY InitInv, NextInv, PTL DEF Spec

\* Until a session releases, its init is the registered one of its root, is not
\* being stopped, and is counted once for every session that holds it.
THEOREM ReferencesKept == Spec => []HeldEntryKept
<1>1. NsInv => HeldEntryKept
  <2> SUFFICES ASSUME NsInv, NEW s \in Holding
               PROVE  /\ Entry(s) = Held(s) /\ ~init[Held(s)].stopping
                      /\ init[Held(s)].refs = Cardinality(Holders(Held(s)))
    BY DEF HeldEntryKept
  <2>1. Root(s) \in RootFS /\ entries[Root(s)] = Held(s) /\ Held(s) # NoInit
    BY EntriesApart
  <2> QED BY <2>1 DEF NsInv, HoldersRegistered, EntriesServe
<1> QED BY <1>1, NamespacesConsistent, PTL

\* No teardown reaches a session's container.
THEOREM ContainersServe == Spec => []HeldInitServes
<1>1. NsInv => HeldInitServes
  <2> SUFFICES ASSUME NsInv, NEW s \in Holding
               PROVE  /\ init[Held(s)].proc = "alive" \/ init[Held(s)].died
                      /\ Root(s) \in cg
    BY DEF HeldInitServes
  <2>1. Root(s) \in RootFS /\ entries[Root(s)] = Held(s) /\ Held(s) # NoInit
    BY EntriesApart
  <2> QED BY <2>1 DEF NsInv, HoldersRegistered, EntriesServe
<1> QED BY <1>1, NamespacesConsistent, PTL

=============================================================================
