--------------------------- MODULE AutorunProofs ---------------------------
(***************************************************************************)
(* Proofs about Autorun, for every set of refs, commands and callers and   *)
(* every number of processes.                                              *)
(***************************************************************************)
EXTENDS Autorun, FiniteSetTheorems, TLAPS

\* The records of proc and caller.
ProcLabels == {"none", "check", "prepare", "dial", "record", "run", "return", "over", "ended"}

ProcType == [key : Keys, cfg : Configs, cancelled : BOOLEAN, conn : BOOLEAN,
             open : BOOLEAN, err : BOOLEAN, pc : ProcLabels]

CallerLabels == {"idle", "start", "replace", "take", "cancel", "close", "await", "stopped"}

CallerType == [key : Keys, cfg : Configs, p : 0..MaxProcs, op : {"start", "stop", "restart"},
               pc : CallerLabels]

\* What the map, the supervisors, the callers and shutdown say about each other.
Books == /\ ActiveTracked /\ EntriesKnown /\ StartedKnown /\ ConnsInAttempts
         /\ MutexHolders /\ StopsProgress /\ EndsWhenTold /\ QuietAfterShutdown

\* The type invariant in terms of these sets.
LEMMA TypeOKDef ==
    TypeOK <=> /\ mu \in Callers \cup {Nobody, Shutdown}
               /\ processes \in [Keys -> 0..MaxProcs]
               /\ proc \in [Procs -> ProcType]
               /\ started \in 0..MaxProcs
               /\ caller \in [Callers -> CallerType]
               /\ down \in {"no", "cancelled", "stopping", "waiting", "done"}
               /\ control \in Nat
BY DEF TypeOK, ProcType, CallerType, ProcLabels, CallerLabels

\* Assigning a field of a process's record keeps its type.
LEMMA ProcUpdate ==
    ASSUME NEW r \in ProcType
    PROVE  /\ \A l \in ProcLabels : [r EXCEPT !.pc = l] \in ProcType
           /\ \A b \in BOOLEAN : [r EXCEPT !.cancelled = b] \in ProcType
           /\ \A b \in BOOLEAN : [r EXCEPT !.conn = b] \in ProcType
           /\ \A b \in BOOLEAN : [r EXCEPT !.open = b] \in ProcType
           /\ \A b \in BOOLEAN : [r EXCEPT !.err = b] \in ProcType
<1> USE DEF ProcType
<1>1. \A l \in ProcLabels : [r EXCEPT !.pc = l] \in ProcType
  OBVIOUS
<1>2. \A b \in BOOLEAN : [r EXCEPT !.cancelled = b] \in ProcType
  OBVIOUS
<1>3. \A b \in BOOLEAN : [r EXCEPT !.conn = b] \in ProcType
  OBVIOUS
<1>4. \A b \in BOOLEAN : [r EXCEPT !.open = b] \in ProcType
  OBVIOUS
<1>5. \A b \in BOOLEAN : [r EXCEPT !.err = b] \in ProcType
  OBVIOUS
<1> QED BY <1>1, <1>2, <1>3, <1>4, <1>5

\* Closing the recorded connection changes nothing else.
LEMMA CloseRecordedType ==
    ASSUME NEW r \in ProcType
    PROVE  LET q == CloseRecorded(r)
           IN  /\ q \in ProcType /\ q.pc = r.pc /\ q.key = r.key /\ q.cfg = r.cfg
               /\ q.cancelled = r.cancelled /\ q.open = (r.open /\ ~r.conn) /\ q.conn = FALSE
<1>0. r.open \in BOOLEAN /\ r.conn \in BOOLEAN
  BY DEF ProcType
<1>1. (r.open /\ ~r.conn) \in BOOLEAN
  OBVIOUS
<1>2. CloseRecorded(r) \in ProcType
  BY <1>1, ProcUpdate, Zenon DEF CloseRecorded
<1>3. /\ CloseRecorded(r).pc = r.pc /\ CloseRecorded(r).key = r.key /\ CloseRecorded(r).cfg = r.cfg
      /\ CloseRecorded(r).cancelled = r.cancelled
  BY DEF CloseRecorded, ProcType
<1>4. CloseRecorded(r).open = (r.open /\ ~r.conn) /\ CloseRecorded(r).conn = FALSE
  BY DEF CloseRecorded, ProcType
<1> QED BY <1>2, <1>3, <1>4

\* Fresh records have their types.
LEMMA FreshTypes ==
    /\ IdleCaller \in CallerType /\ IdleCaller.pc = "idle"
    /\ NoProc \in ProcType /\ NoProc.pc = "none" /\ ~NoProc.open /\ ~NoProc.conn /\ ~NoProc.cancelled
    /\ \A l \in ProcLabels, k \in Keys, g \in Configs : NewProc(l, k, g) \in ProcType
    /\ \A l \in CallerLabels, o \in {"start", "stop", "restart"}, k \in Keys, g \in Configs :
          Calling(l, o, k, g) \in CallerType
<1> USE ValuesAssumption, BoundAssumption
<1>1. AnyKey \in Keys /\ AnyConfig \in Configs
  BY DEF AnyKey, AnyConfig
<1>2. \A l \in ProcLabels, k \in Keys, g \in Configs : NewProc(l, k, g) \in ProcType
  BY DEF NewProc, ProcType
<1>3. \A l \in CallerLabels, o \in {"start", "stop", "restart"}, k \in Keys, g \in Configs :
          Calling(l, o, k, g) \in CallerType
  BY DEF Calling, CallerType
<1>4. IdleCaller.pc = "idle" /\ IdleCaller \in CallerType
  BY <1>1, <1>3 DEF IdleCaller, Calling, CallerLabels
<1>5. NoProc.pc = "none" /\ ~NoProc.open /\ ~NoProc.conn /\ ~NoProc.cancelled /\ NoProc \in ProcType
  BY <1>1, <1>2 DEF NoProc, NewProc, ProcLabels
<1> QED BY <1>2, <1>3, <1>4, <1>5

\* The set of attempts is finite.
LEMMA AttemptsFinite == IsFiniteSet(Attempts) /\ Cardinality(Attempts) \in Nat
<1>1. IsFiniteSet(Procs)
  BY FS_Interval, BoundAssumption DEF Procs
<1>2. Attempts \subseteq Procs
  BY DEF Attempts
<1>3. IsFiniteSet(Attempts)
  BY <1>1, <1>2, FS_Subset
<1> QED BY <1>3, FS_CardinalityType

\* initAutorunManager: no process, no caller, no attempt.
LEMMA InitInv == Init => AutorunInv
<1> SUFFICES ASSUME Init PROVE AutorunInv
  OBVIOUS
<1> USE BoundAssumption, HolderAssumption
<1>1. TypeOK
  <2>1. /\ mu \in Callers \cup {Nobody, Shutdown} /\ processes \in [Keys -> 0..MaxProcs]
        /\ started \in 0..MaxProcs /\ control \in Nat
        /\ down \in {"no", "cancelled", "stopping", "waiting", "done"}
    BY DEF Init
  <2>2. proc \in [Procs -> ProcType]
    BY FreshTypes DEF Init
  <2>3. caller \in [Callers -> CallerType]
    BY FreshTypes DEF Init
  <2> QED BY <2>1, <2>2, <2>3, TypeOKDef
<1>2. \A i \in Procs : /\ proc[i].pc = "none" /\ ~proc[i].open /\ ~proc[i].conn
                       /\ i > started
  BY FreshTypes DEF Init, Procs
<1>3. \A c \in Callers : caller[c].pc = "idle"
  BY FreshTypes DEF Init
<1>4. \A k \in Keys : processes[k] = 0
  BY DEF Init
<1>5. ControlRefsExact
  <2>1. Attempts = {}
    BY <1>2 DEF Attempts
  <2> QED BY <2>1, FS_EmptySet DEF Init, ControlRefsExact
<1>6. Books /\ RegisteredSupervised
  BY <1>2, <1>3, <1>4 DEF Init, Books, ActiveTracked, EntriesKnown, StartedKnown, ConnsInAttempts,
     MutexHolders, StopsProgress, EndsWhenTold, QuietAfterShutdown, RegisteredSupervised, Ended
<1> QED BY <1>1, <1>5, <1>6 DEF AutorunInv, Books

-----------------------------------------------------------------------------
(* The kinds of step.                                                      *)

\* A caller moves without the mutex and touches no process.
LEMMA CallerMoves ==
    ASSUME AutorunInv, NEW c \in Callers, NEW w \in CallerType,
           caller' = [caller EXCEPT ![c] = w],
           UNCHANGED <<mu, processes, proc, started, down, control>>,
           caller[c].pc \notin {"replace", "cancel"},
           w.pc \notin {"replace", "cancel", "close"},
           w.pc \in {"await", "stopped"} => /\ caller[c].pc \in {"close", "await", "stopped"}
                                            /\ w.p = caller[c].p,
           w.pc = "stopped" => proc[w.p].pc = "ended"
    PROVE  TypeOK' /\ Books' /\ ControlRefsExact'
<1> USE DEF AutorunInv
<1>0. caller \in [Callers -> CallerType]
  BY TypeOKDef
<1>1. caller'[c] = w /\ \A d \in Callers : d # c => caller'[d] = caller[d]
  BY <1>0
<1>2. TypeOK'
  <2>1. caller' \in [Callers -> CallerType]
    BY <1>0
  <2> QED BY <2>1 DEF TypeOK, CallerType, CallerLabels
<1>3. ControlRefsExact'
  BY DEF ControlRefsExact, Attempts
<1>4. ActiveTracked'
  BY <1>1 DEF ActiveTracked, Ended, Cancelled
<1>5. EntriesKnown' /\ StartedKnown' /\ ConnsInAttempts' /\ QuietAfterShutdown'
  BY DEF EntriesKnown, StartedKnown, ConnsInAttempts, QuietAfterShutdown
<1>6. MutexHolders'
  BY <1>1 DEF MutexHolders, Entry
<1>7. StopsProgress'
  BY <1>1 DEF StopsProgress
<1>8. EndsWhenTold'
  BY <1>1 DEF EndsWhenTold, Cancelled
<1> QED BY <1>2, <1>3, <1>4, <1>5, <1>6, <1>7, <1>8 DEF Books

\* A supervisor moves: its ref and its context stay what they are, and it ends
\* only if it is told to.
LEMMA SupervisorMoves ==
    ASSUME AutorunInv, NEW i \in Procs, NEW q \in ProcType,
           proc' = [proc EXCEPT ![i] = q], OnlyProc,
           proc[i].pc \notin {"none", "ended"}, q.pc # "none",
           q.key = proc[i].key, q.cancelled = proc[i].cancelled,
           q.pc = "ended" => Cancelled(i),
           q.open => q.pc \in {"record", "run", "return"},
           q.conn => q.pc \in {"run", "return"},
           down = "done" => q.pc = "ended"
    PROVE  Books'
<1> USE DEF AutorunInv, OnlyProc
<1>0. proc \in [Procs -> ProcType]
  BY TypeOKDef
<1>1. proc'[i] = q /\ \A j \in Procs : j # i => proc'[j] = proc[j]
  BY <1>0
<1>2. \A j \in Procs : proc'[j].key = proc[j].key /\ proc'[j].cancelled = proc[j].cancelled
  BY <1>1
<1>3. \A k \in Keys : processes[k] # 0 => processes[k] \in Procs
  BY TypeOKDef DEF Procs
<1>4. \A j \in Procs : Cancelled(j)' <=> Cancelled(j)
  BY <1>2 DEF Cancelled
<1>5. ActiveTracked'
  BY <1>1, <1>2, <1>4 DEF ActiveTracked, Ended
<1>6. EntriesKnown'
  BY <1>2, <1>3 DEF EntriesKnown
<1>7. StartedKnown'
  BY <1>1 DEF StartedKnown
<1>8. ConnsInAttempts'
  BY <1>1 DEF ConnsInAttempts
<1>9. MutexHolders'
  <2>1. \A c \in Callers : Entry(c) # 0 => Entry(c) \in Procs
    BY <1>3, TypeOKDef DEF Entry, CallerType
  <2> QED BY <1>2, <2>1 DEF MutexHolders, Entry
<1>10. StopsProgress'
  <2>1. \A c \in Callers : caller[c].p \in 1..started => caller[c].p \in Procs
    BY TypeOKDef, BoundAssumption DEF Procs
  <2> QED BY <1>1, <1>2, <2>1 DEF StopsProgress
<1>11. EndsWhenTold'
  BY <1>1, <1>2, <1>3, <1>4 DEF EndsWhenTold
<1>12. QuietAfterShutdown'
  BY <1>1 DEF QuietAfterShutdown
<1> QED BY <1>5, <1>6, <1>7, <1>8, <1>9, <1>10, <1>11, <1>12 DEF Books

\* A supervisor's step that neither takes nor gives back a control server.
LEMMA AttemptsStay ==
    ASSUME AutorunInv, NEW i \in Procs, NEW q \in ProcType,
           proc' = [proc EXCEPT ![i] = q], OnlyProc, control' = control,
           proc[i].pc \in {"dial", "record", "run", "return"}
              <=> q.pc \in {"dial", "record", "run", "return"}
    PROVE  TypeOK' /\ ControlRefsExact'
<1> USE DEF AutorunInv, OnlyProc
<1>0. proc \in [Procs -> ProcType]
  BY TypeOKDef
<1>1. proc'[i] = q /\ \A j \in Procs : j # i => proc'[j] = proc[j]
  BY <1>0
<1>2. Attempts' = Attempts
  BY <1>1 DEF Attempts
<1>3. proc' \in [Procs -> ProcType]
  BY <1>0
<1> QED BY <1>2, <1>3 DEF ControlRefsExact, TypeOK, ProcType, ProcLabels

\* getOrCreateControlServer in an attempt.
LEMMA AttemptBegins ==
    ASSUME AutorunInv, NEW i \in Procs, NEW q \in ProcType,
           proc' = [proc EXCEPT ![i] = q], OnlyProc, control' = control + 1,
           proc[i].pc \notin {"dial", "record", "run", "return"},
           q.pc \in {"dial", "record", "run", "return"}
    PROVE  TypeOK' /\ ControlRefsExact'
<1> USE DEF AutorunInv, OnlyProc
<1>0. proc \in [Procs -> ProcType] /\ control \in Nat
  BY TypeOKDef
<1>1. proc'[i] = q /\ \A j \in Procs : j # i => proc'[j] = proc[j]
  BY <1>0
<1>2. Attempts' = Attempts \cup {i} /\ i \notin Attempts
  BY <1>1 DEF Attempts
<1>3. Cardinality(Attempts') = Cardinality(Attempts) + 1
  BY <1>2, AttemptsFinite, FS_AddElement
<1>4. proc' \in [Procs -> ProcType] /\ control' \in Nat
  BY <1>0
<1>5. ControlRefsExact'
  BY <1>3 DEF ControlRefsExact
<1> QED BY <1>4, <1>5 DEF TypeOK, ProcType, ProcLabels

\* releaseControlServer in an attempt.
LEMMA AttemptEnds ==
    ASSUME AutorunInv, NEW i \in Procs, NEW q \in ProcType,
           proc' = [proc EXCEPT ![i] = q], OnlyProc, control' = control - 1,
           proc[i].pc \in {"dial", "record", "run", "return"},
           q.pc \notin {"dial", "record", "run", "return"}
    PROVE  TypeOK' /\ ControlRefsExact'
<1> USE DEF AutorunInv, OnlyProc
<1>0. proc \in [Procs -> ProcType] /\ control = Cardinality(Attempts)
  BY TypeOKDef DEF ControlRefsExact
<1>1. proc'[i] = q /\ \A j \in Procs : j # i => proc'[j] = proc[j]
  BY <1>0
<1>2. Attempts' = Attempts \ {i} /\ i \in Attempts
  BY <1>1 DEF Attempts
<1>3. /\ Cardinality(Attempts \ {i}) = Cardinality(Attempts) - 1
      /\ Cardinality(Attempts \ {i}) \in Nat
  <2>1. IsFiniteSet(Attempts \ {i}) /\ Cardinality(Attempts \ {i}) = Cardinality(Attempts) - 1
    BY <1>2, AttemptsFinite, FS_RemoveElement
  <2> QED BY <2>1, FS_CardinalityType
<1>4. proc' \in [Procs -> ProcType] /\ control' \in Nat
  BY <1>0, <1>3
<1>5. ControlRefsExact'
  BY <1>0, <1>2, <1>3 DEF ControlRefsExact
<1> QED BY <1>4, <1>5 DEF TypeOK, ProcType, ProcLabels

-----------------------------------------------------------------------------
(* The callers' steps.                                                     *)

\* Moving a caller, and noting its process, keeps its type and its other fields.
LEMMA CallerUpdate ==
    ASSUME NEW r \in CallerType, NEW l \in CallerLabels, NEW n \in 0..MaxProcs
    PROVE  /\ [r EXCEPT !.pc = l] \in CallerType
           /\ [r EXCEPT !.pc = l].pc = l /\ [r EXCEPT !.pc = l].p = r.p
           /\ [r EXCEPT !.pc = l].key = r.key /\ [r EXCEPT !.pc = l].cfg = r.cfg
           /\ [r EXCEPT !.pc = l, !.p = n] \in CallerType
           /\ [r EXCEPT !.pc = l, !.p = n].pc = l /\ [r EXCEPT !.pc = l, !.p = n].p = n
           /\ [r EXCEPT !.pc = l, !.p = n].key = r.key
<1> USE DEF CallerType
<1>1. [r EXCEPT !.pc = l] \in CallerType
  OBVIOUS
<1>2. /\ [r EXCEPT !.pc = l].pc = l /\ [r EXCEPT !.pc = l].p = r.p
      /\ [r EXCEPT !.pc = l].key = r.key /\ [r EXCEPT !.pc = l].cfg = r.cfg
  OBVIOUS
<1>3. \A x \in CallerType : [x EXCEPT !.p = n] \in CallerType
  OBVIOUS
<1>4. [r EXCEPT !.pc = l, !.p = n] \in CallerType
  BY <1>1, <1>3, Zenon
<1>5. /\ [r EXCEPT !.pc = l, !.p = n].pc = l /\ [r EXCEPT !.pc = l, !.p = n].p = n
      /\ [r EXCEPT !.pc = l, !.p = n].key = r.key
  OBVIOUS
<1> QED BY <1>1, <1>2, <1>4, <1>5

\* After a stop the caller starts the process again or is done.
LEMMA ThenType ==
    ASSUME TypeOK, NEW c \in Callers
    PROVE  Then(c) \in CallerType /\ Then(c).pc \in {"start", "idle"}
<1>1. caller[c] \in CallerType
  BY TypeOKDef
<1>2. 0 \in 0..MaxProcs /\ "start" \in CallerLabels
  BY BoundAssumption DEF CallerLabels
<1>3. CASE caller[c].op = "restart"
  <2> DEFINE w == [caller[c] EXCEPT !.pc = "start", !.p = 0]
  <2>1. w \in CallerType /\ w.pc = "start"
    BY <1>1, <1>2, CallerUpdate
  <2>2. Then(c) = w
    BY <1>3 DEF Then
  <2> QED BY <2>1, <2>2
<1>4. CASE caller[c].op # "restart"
  BY <1>4, FreshTypes DEF Then
<1> QED BY <1>3, <1>4

\* A caller that has taken process e out of the map.
LEMMA TakenType ==
    ASSUME TypeOK, NEW c \in Callers, NEW e \in 0..MaxProcs
    PROVE  /\ [caller[c] EXCEPT !.pc = "cancel", !.p = e] \in CallerType
           /\ [caller[c] EXCEPT !.pc = "cancel", !.p = e].pc = "cancel"
           /\ [caller[c] EXCEPT !.pc = "cancel", !.p = e].p = e
<1>1. caller[c] \in CallerType
  BY TypeOKDef
<1>2. "cancel" \in CallerLabels
  BY DEF CallerLabels
<1>3. [caller[c] EXCEPT !.pc = "cancel", !.p = e] \in CallerType
  BY <1>1, <1>2, CallerUpdate
<1>4. /\ [caller[c] EXCEPT !.pc = "cancel", !.p = e].pc = "cancel"
      /\ [caller[c] EXCEPT !.pc = "cancel", !.p = e].p = e
  BY <1>1 DEF CallerType
<1> QED BY <1>3, <1>4

\* The steps of a caller that touch nothing but its own state.
LEMMA CallerStepsAlone ==
    ASSUME AutorunInv, NEW c \in Callers, NEW k \in Keys, NEW g \in Configs,
           \/ Start(c, k, g) \/ Restart(c, k, g) \/ Stop(c, k)
           \/ StartSame(c) \/ Await(c) \/ Stopped(c)
    PROVE  TypeOK' /\ Books' /\ ControlRefsExact'
<1>0. TypeOK /\ caller[c] \in CallerType
  BY TypeOKDef DEF AutorunInv
<1>1. AnyConfig \in Configs
  BY ValuesAssumption DEF AnyConfig
<1>8. "stopped" \in CallerLabels /\ 0 \in 0..MaxProcs
  BY BoundAssumption DEF CallerLabels
<1>2. CASE Start(c, k, g)
  <2>1. Calling("start", "start", k, g) \in CallerType /\ Calling("start", "start", k, g).pc = "start"
    BY FreshTypes DEF Calling, CallerLabels
  <2> QED BY <1>2, <2>1, CallerMoves DEF Start
<1>3. CASE Restart(c, k, g)
  <2>1. Calling("take", "restart", k, g) \in CallerType /\ Calling("take", "restart", k, g).pc = "take"
    BY FreshTypes DEF Calling, CallerLabels
  <2> QED BY <1>3, <2>1, CallerMoves DEF Restart
<1>4. CASE Stop(c, k)
  <2>1. /\ Calling("take", "stop", k, AnyConfig) \in CallerType
        /\ Calling("take", "stop", k, AnyConfig).pc = "take"
    BY <1>1, FreshTypes DEF Calling, CallerLabels
  <2> QED BY <1>4, <2>1, CallerMoves DEF Stop
<1>5. CASE StartSame(c)
  BY <1>5, FreshTypes, CallerMoves DEF StartSame
<1>6. CASE Await(c)
  <2> DEFINE w == [caller[c] EXCEPT !.pc = "stopped"]
  <2>1. w \in CallerType /\ w.pc = "stopped" /\ w.p = caller[c].p
    BY <1>0, <1>8, CallerUpdate
  <2>2. caller' = [caller EXCEPT ![c] = w]
    BY <1>6 DEF Await
  <2> HIDE DEF w
  <2> QED BY <1>6, <2>1, <2>2, CallerMoves DEF Await
<1>7. CASE Stopped(c)
  BY <1>0, <1>7, ThenType, CallerMoves DEF Stopped
<1> QED BY <1>2, <1>3, <1>4, <1>5, <1>6, <1>7

\* Telling processes to stop, in any way: their supervisors have yet to move.
LEMMA ProcsTold ==
    ASSUME AutorunInv, proc' \in [Procs -> ProcType],
           \A j \in Procs : /\ proc'[j].pc = proc[j].pc /\ proc'[j].key = proc[j].key
                            /\ proc[j].cancelled => proc'[j].cancelled
                            /\ proc'[j].open => proc[j].open
                            /\ proc'[j].conn => proc[j].conn,
           UNCHANGED <<started, down, control>>
    PROVE  /\ StartedKnown' /\ ConnsInAttempts' /\ QuietAfterShutdown' /\ ControlRefsExact'
           /\ \A j \in Procs : proc'[j].pc = "ended" => Cancelled(j)'
           /\ \A j \in Procs : Cancelled(j) => Cancelled(j)'
<1> USE DEF AutorunInv
<1>1. StartedKnown' /\ ConnsInAttempts' /\ QuietAfterShutdown'
  BY DEF StartedKnown, ConnsInAttempts, QuietAfterShutdown
<1>2. Attempts' = Attempts
  BY DEF Attempts
<1>3. ControlRefsExact'
  BY <1>2 DEF ControlRefsExact
<1>4. \A j \in Procs : Cancelled(j) => Cancelled(j)'
  BY DEF Cancelled
<1>5. \A j \in Procs : proc'[j].pc = "ended" => Cancelled(j)'
  BY <1>4 DEF EndsWhenTold
<1> QED BY <1>1, <1>3, <1>4, <1>5

\* An entry, and what a stop has taken out, is the index of a process.
LEMMA IndexTypes ==
    ASSUME AutorunInv
    PROVE  /\ \A k \in Keys : processes[k] # 0 => processes[k] \in Procs
           /\ \A c \in Callers : Entry(c) # 0 => Entry(c) \in Procs
           /\ \A c \in Callers : caller[c].p \in 1..started => caller[c].p \in Procs
<1> USE DEF AutorunInv
<1>1. \A k \in Keys : processes[k] # 0 => processes[k] \in Procs
  BY TypeOKDef DEF Procs
<1>2. \A c \in Callers : caller[c].key \in Keys
  BY TypeOKDef DEF CallerType
<1>3. \A c \in Callers : caller[c].p \in 1..started => caller[c].p \in Procs
  BY TypeOKDef, BoundAssumption DEF Procs
<1> QED BY <1>1, <1>2, <1>3 DEF Entry

\* startProcess finds another command: it cancels that process under the mutex.
LEMMA StartReplaceInv ==
    ASSUME AutorunInv, NEW c \in Callers, StartReplace(c)
    PROVE  TypeOK' /\ Books' /\ ControlRefsExact'
<1> USE DEF AutorunInv, StartReplace
<1>0. /\ proc \in [Procs -> ProcType] /\ caller \in [Callers -> CallerType]
      /\ caller[c] \in CallerType /\ caller[c].key \in Keys
  BY TypeOKDef DEF CallerType
<1>1. PICK e \in Procs : e = Entry(c)
  BY IndexTypes
<1>2. proc' = [proc EXCEPT ![e] = [proc[e] EXCEPT !.cancelled = TRUE]]
  BY <1>0, <1>1
<1>3. [proc[e] EXCEPT !.cancelled = TRUE] \in ProcType
  BY <1>0, <1>1, ProcUpdate
<1>4. /\ proc'[e].pc = proc[e].pc /\ proc'[e].key = proc[e].key /\ proc'[e].cancelled
      /\ proc'[e].open = proc[e].open /\ proc'[e].conn = proc[e].conn
  BY <1>0, <1>1, <1>2 DEF ProcType
<1>5. \A j \in Procs : j # e => proc'[j] = proc[j]
  BY <1>0, <1>2
<1>6. proc' \in [Procs -> ProcType]
  BY <1>0, <1>2, <1>3
<1>7. /\ StartedKnown' /\ ConnsInAttempts' /\ QuietAfterShutdown' /\ ControlRefsExact'
      /\ \A j \in Procs : proc'[j].pc = "ended" => Cancelled(j)'
      /\ \A j \in Procs : Cancelled(j) => Cancelled(j)'
  BY <1>4, <1>5, <1>6, ProcsTold
<1>8. "replace" \in CallerLabels /\ 0 \in 0..MaxProcs
  BY BoundAssumption DEF CallerLabels
<1> DEFINE w == [caller[c] EXCEPT !.pc = "replace"]
<1>9. w \in CallerType /\ w.pc = "replace" /\ w.p = caller[c].p /\ w.key = caller[c].key
  BY <1>0, <1>8, CallerUpdate
<1>10. caller' = [caller EXCEPT ![c] = w]
  OBVIOUS
<1> HIDE DEF w
<1>11. caller'[c] = w /\ \A d \in Callers : d # c => caller'[d] = caller[d]
  BY <1>0, <1>10
<1>12. TypeOK'
  <2>1. caller' \in [Callers -> CallerType] /\ mu' \in Callers \cup {Nobody, Shutdown}
    BY <1>0, <1>9, <1>10
  <2> QED BY <1>6, <2>1 DEF TypeOK, CallerType, CallerLabels, ProcType, ProcLabels
<1>13. ActiveTracked'
  BY <1>4, <1>5, <1>7, <1>9, <1>11 DEF ActiveTracked, Ended, Cancelled
<1>14. EntriesKnown'
  BY <1>4, <1>5, IndexTypes DEF EntriesKnown
<1>15. MutexHolders'
  <2>1. Entry(c)' = e /\ proc'[e].cancelled
    BY <1>1, <1>4, <1>9, <1>11 DEF Entry
  <2>2. \A d \in Callers : caller[d].pc # "replace"
    BY HolderAssumption DEF MutexHolders
  <2>3. e # 0
    BY <1>1
  <2> QED BY <1>9, <1>11, <2>1, <2>2, <2>3, HolderAssumption DEF MutexHolders
<1>16. StopsProgress'
  BY <1>4, <1>5, <1>9, <1>11, IndexTypes DEF StopsProgress
<1>17. EndsWhenTold'
  <2>1. \A k \in Keys : processes[k] = e => k = caller[c].key
    BY <1>0, <1>1 DEF EntriesKnown, Entry
  <2>2. caller'[c].pc = "replace" /\ caller'[c].key = caller[c].key
    BY <1>9, <1>11
  <2>3. \A d \in Callers : caller[d].pc # "replace"
    BY HolderAssumption DEF MutexHolders
  <2>4. ASSUME NEW k \in Keys, processes[k] # 0, proc'[processes[k]].cancelled
        PROVE  down # "no" \/ \E d \in Callers : caller'[d].pc = "replace" /\ caller'[d].key = k
    <3>1. CASE processes[k] = e
      BY <2>1, <2>2, <3>1
    <3>2. CASE processes[k] # e
      BY <1>5, <2>3, <2>4, <3>2, IndexTypes DEF EndsWhenTold
    <3> QED BY <3>1, <3>2
  <2> QED BY <1>7, <2>4 DEF EndsWhenTold
<1> QED BY <1>7, <1>12, <1>13, <1>14, <1>15, <1>16, <1>17 DEF Books

\* stopProcess and restartProcess take the entry out under the mutex.
LEMMA TakeInv ==
    ASSUME AutorunInv, NEW c \in Callers, Take(c)
    PROVE  TypeOK' /\ Books' /\ ControlRefsExact'
<1> USE DEF AutorunInv, Take
<1>0. /\ caller \in [Callers -> CallerType] /\ processes \in [Keys -> 0..MaxProcs]
      /\ caller[c] \in CallerType /\ caller[c].key \in Keys
  BY TypeOKDef DEF CallerType
<1>1. PICK e \in 0..MaxProcs : e = Entry(c)
  BY <1>0 DEF Entry
<1>2. PICK w : w = IF e = 0 THEN Then(c) ELSE [caller[c] EXCEPT !.pc = "cancel", !.p = e]
  OBVIOUS
<1>3. caller' = [caller EXCEPT ![c] = w]
  BY <1>1, <1>2
<1>4. w \in CallerType /\ (e = 0 => w.pc \in {"start", "idle"}) /\ (e # 0 => w.pc = "cancel" /\ w.p = e)
  <2>2. CASE e = 0
    BY <1>2, <2>2, ThenType
  <2>3. CASE e # 0
    <3>1. w = [caller[c] EXCEPT !.pc = "cancel", !.p = e]
      BY <1>2, <2>3
    <3>2. /\ [caller[c] EXCEPT !.pc = "cancel", !.p = e] \in CallerType
          /\ [caller[c] EXCEPT !.pc = "cancel", !.p = e].pc = "cancel"
          /\ [caller[c] EXCEPT !.pc = "cancel", !.p = e].p = e
      BY TakenType
    <3> QED BY <2>3, <3>1, <3>2, Zenon
  <2> QED BY <2>2, <2>3
<1>5. caller'[c] = w /\ \A d \in Callers : d # c => caller'[d] = caller[d]
  BY <1>0, <1>3
<1>6. processes' \in [Keys -> 0..MaxProcs]
  BY <1>0, BoundAssumption
<1>7. processes'[caller[c].key] = 0 /\ \A k \in Keys : k # caller[c].key => processes'[k] = processes[k]
  BY <1>0
<1>8. \A k \in Keys : processes'[k] # 0 => processes'[k] = processes[k] /\ k # caller[c].key
  BY <1>7
<1>9. \A d \in Callers : caller[d].pc # "replace" /\ caller'[d].pc # "replace"
  BY <1>4, <1>5, HolderAssumption DEF MutexHolders
<1>10. \A k \in Keys : e # 0 /\ processes[k] = e => k = caller[c].key
  BY <1>0, <1>1 DEF EntriesKnown, Entry
<1>11. TypeOK'
  <2>1. caller' \in [Callers -> CallerType]
    BY <1>0, <1>3, <1>4
  <2> QED BY <1>6, <2>1 DEF TypeOK, CallerType, CallerLabels
<1>12. ControlRefsExact' /\ StartedKnown' /\ ConnsInAttempts' /\ QuietAfterShutdown'
  BY DEF ControlRefsExact, Attempts, StartedKnown, ConnsInAttempts, QuietAfterShutdown
<1>13. ActiveTracked'
  <2> SUFFICES ASSUME NEW i \in Procs, ~Ended(i), ~Cancelled(i)
               PROVE  \/ processes'[proc[i].key] = i
                      \/ \E d \in Callers : caller'[d].pc = "cancel" /\ caller'[d].p = i
    BY DEF ActiveTracked, Ended, Cancelled
  <2>1. proc[i].key \in Keys
    BY TypeOKDef DEF ProcType
  <2>2. CASE processes[proc[i].key] = i
    <3>1. CASE proc[i].key = caller[c].key
      <4>1. e = i /\ e # 0
        BY <1>1, <2>2, <3>1 DEF Entry, Procs
      <4> QED BY <1>4, <1>5, <4>1
    <3>2. CASE proc[i].key # caller[c].key
      BY <1>7, <2>1, <2>2, <3>2
    <3> QED BY <3>1, <3>2
  <2>3. CASE \E d \in Callers : caller[d].pc = "cancel" /\ caller[d].p = i
    BY <1>5, <2>3
  <2> QED BY <2>2, <2>3 DEF ActiveTracked
<1>14. EntriesKnown'
  BY <1>8 DEF EntriesKnown
<1>15. MutexHolders'
  BY <1>9 DEF MutexHolders
<1>16. StopsProgress'
  <2>1. ASSUME e # 0
        PROVE  /\ e \in 1..started /\ \A k \in Keys : processes'[k] # e
    BY <1>0, <1>1, <1>7, <1>10, <2>1 DEF EntriesKnown, Entry
  <2>2. ASSUME NEW d \in Callers, d # c,
               caller'[d].pc \in {"cancel", "close", "await", "stopped"}
        PROVE  /\ caller'[d].p \in 1..started /\ \A k \in Keys : processes'[k] # caller'[d].p
               /\ caller'[d].pc # "cancel" => proc[caller'[d].p].cancelled
               /\ caller'[d].pc = "stopped" => proc[caller'[d].p].pc = "ended"
    <3>1. caller'[d] = caller[d]
      BY <1>5, <2>2
    <3>2. caller[d].p # 0
      BY <2>2, <3>1, TypeOKDef DEF StopsProgress
    <3> QED BY <1>8, <2>2, <3>1, <3>2 DEF StopsProgress
  <2>3. caller'[c].pc \in {"start", "idle", "cancel"} /\ (caller'[c].pc = "cancel" => e # 0 /\ caller'[c].p = e)
    BY <1>4, <1>5
  <2> SUFFICES ASSUME NEW d \in Callers, caller'[d].pc \in {"cancel", "close", "await", "stopped"}
               PROVE  /\ caller'[d].p \in 1..started /\ \A k \in Keys : processes'[k] # caller'[d].p
                      /\ caller'[d].pc # "cancel" => proc[caller'[d].p].cancelled
                      /\ caller'[d].pc = "stopped" => proc[caller'[d].p].pc = "ended"
    BY DEF StopsProgress
  <2>4. CASE d = c
    BY <2>1, <2>3, <2>4
  <2>5. CASE d # c
    BY <2>2, <2>5
  <2> QED BY <2>4, <2>5
<1>17. EndsWhenTold'
  BY <1>8, <1>9 DEF EndsWhenTold, Cancelled
<1> QED BY <1>11, <1>12, <1>13, <1>14, <1>15, <1>16, <1>17 DEF Books

\* stop() outside the mutex: cancel the context, then close what is recorded.
LEMMA StopInv ==
    ASSUME AutorunInv, NEW c \in Callers, Cancel(c) \/ Close(c)
    PROVE  TypeOK' /\ Books' /\ ControlRefsExact'
<1> USE DEF AutorunInv
<1>0. /\ proc \in [Procs -> ProcType] /\ caller \in [Callers -> CallerType]
      /\ caller[c] \in CallerType
  BY TypeOKDef
<1>1. PICK p \in Procs : p = caller[c].p
  BY IndexTypes DEF StopsProgress, Cancel, Close
<1>2. proc[p] \in ProcType
  BY <1>0
<1>3. PICK q \in ProcType, l \in CallerLabels :
         /\ proc' = [proc EXCEPT ![p] = q] /\ caller' = [caller EXCEPT ![c] = [caller[c] EXCEPT !.pc = l]]
         /\ q.pc = proc[p].pc /\ q.key = proc[p].key /\ q.cancelled
         /\ (q.open => proc[p].open) /\ (q.conn => proc[p].conn)
         /\ l \in {"close", "await"}
  <2>1. CASE Cancel(c)
    <3> DEFINE q == [proc[p] EXCEPT !.cancelled = TRUE]
    <3>1. q \in ProcType
      BY <1>2, ProcUpdate
    <3>2. /\ q.pc = proc[p].pc /\ q.key = proc[p].key /\ q.cancelled
          /\ q.open = proc[p].open /\ q.conn = proc[p].conn
      BY <1>2 DEF ProcType
    <3>3. proc' = [proc EXCEPT ![p] = q] /\ caller' = [caller EXCEPT ![c] = [caller[c] EXCEPT !.pc = "close"]]
      BY <1>1, <2>1 DEF Cancel
    <3>4. "close" \in CallerLabels
      BY DEF CallerLabels
    <3> HIDE DEF q
    <3> QED BY <3>1, <3>2, <3>3, <3>4
  <2>2. CASE Close(c)
    <3>1. proc[p].cancelled
      BY <1>1, <2>2 DEF StopsProgress, Close
    <3>2. /\ proc' = [proc EXCEPT ![p] = CloseRecorded(proc[p])]
          /\ caller' = [caller EXCEPT ![c] = [caller[c] EXCEPT !.pc = "await"]]
      BY <1>1, <2>2 DEF Close
    <3>3. "await" \in CallerLabels
      BY DEF CallerLabels
    <3> QED BY <1>2, <3>1, <3>2, <3>3, CloseRecordedType
  <2> QED BY <2>1, <2>2
<1>4. UNCHANGED <<mu, processes, started, down, control>> /\ caller[c].pc \in {"cancel", "close"}
  BY DEF Cancel, Close
<1>5. proc'[p] = q /\ \A j \in Procs : j # p => proc'[j] = proc[j]
  BY <1>0, <1>3
<1>6. proc' \in [Procs -> ProcType]
  BY <1>0, <1>3
<1>7. /\ StartedKnown' /\ ConnsInAttempts' /\ QuietAfterShutdown' /\ ControlRefsExact'
      /\ \A j \in Procs : proc'[j].pc = "ended" => Cancelled(j)'
      /\ \A j \in Procs : Cancelled(j) => Cancelled(j)'
  BY <1>3, <1>4, <1>5, <1>6, ProcsTold
<1> DEFINE w == [caller[c] EXCEPT !.pc = l]
<1>8. w \in CallerType /\ w.pc = l /\ w.p = p
  <2>1. 0 \in 0..MaxProcs
    BY BoundAssumption
  <2> QED BY <1>0, <1>1, <2>1, CallerUpdate
<1>9. caller' = [caller EXCEPT ![c] = w]
  BY <1>3
<1> HIDE DEF w
<1>10. caller'[c] = w /\ \A d \in Callers : d # c => caller'[d] = caller[d]
  BY <1>0, <1>9
<1>11. TypeOK'
  <2>1. caller' \in [Callers -> CallerType]
    BY <1>0, <1>8, <1>9
  <2> QED BY <1>4, <1>6, <2>1 DEF TypeOK, CallerType, CallerLabels, ProcType, ProcLabels
<1>12. \A k \in Keys : processes[k] # p
  BY <1>1, <1>4 DEF StopsProgress
<1>13. ActiveTracked'
  BY <1>1, <1>3, <1>4, <1>5, <1>8, <1>10 DEF ActiveTracked, Ended, Cancelled
<1>14. EntriesKnown'
  BY <1>4, <1>5, <1>12, IndexTypes DEF EntriesKnown
<1>15. MutexHolders'
  <2>1. \A d \in Callers : caller'[d].pc = "replace" <=> caller[d].pc = "replace"
    BY <1>3, <1>4, <1>8, <1>10
  <2>2. \A d \in Callers : caller[d].pc = "replace" => /\ d # c /\ Entry(d)' = Entry(d)
                                                       /\ Entry(d) # 0 /\ proc'[Entry(d)].cancelled
    <3> SUFFICES ASSUME NEW d \in Callers, caller[d].pc = "replace"
                 PROVE  /\ d # c /\ Entry(d)' = Entry(d) /\ Entry(d) # 0 /\ proc'[Entry(d)].cancelled
      OBVIOUS
    <3>1. d # c /\ Entry(d) # 0 /\ proc[Entry(d)].cancelled
      BY <1>4 DEF MutexHolders
    <3>2. Entry(d)' = Entry(d)
      BY <1>4, <1>10, <3>1 DEF Entry
    <3>3. Entry(d) \in Procs
      BY <3>1, IndexTypes
    <3>4. proc'[Entry(d)].cancelled
      BY <1>3, <1>5, <3>1, <3>3
    <3> QED BY <3>1, <3>2, <3>4
  <2> QED BY <1>4, <2>1, <2>2 DEF MutexHolders
<1>16. StopsProgress'
  <2>1. ASSUME NEW d \in Callers, d # c,
               caller'[d].pc \in {"cancel", "close", "await", "stopped"}
        PROVE  /\ caller'[d].p \in 1..started /\ \A k \in Keys : processes[k] # caller'[d].p
               /\ caller'[d].pc # "cancel" => proc'[caller'[d].p].cancelled
               /\ caller'[d].pc = "stopped" => proc'[caller'[d].p].pc = "ended"
    BY <1>3, <1>5, <1>10, <2>1, IndexTypes DEF StopsProgress
  <2>2. p \in 1..started
    BY <1>1, <1>4 DEF StopsProgress
  <2>3. /\ caller'[c].pc \in {"close", "await"} /\ caller'[c].p = p /\ proc'[p].cancelled
    BY <1>3, <1>5, <1>8, <1>10
  <2> SUFFICES ASSUME NEW d \in Callers, caller'[d].pc \in {"cancel", "close", "await", "stopped"}
               PROVE  /\ caller'[d].p \in 1..started /\ \A k \in Keys : processes[k] # caller'[d].p
                      /\ caller'[d].pc # "cancel" => proc'[caller'[d].p].cancelled
                      /\ caller'[d].pc = "stopped" => proc'[caller'[d].p].pc = "ended"
    BY <1>4 DEF StopsProgress
  <2>4. CASE d = c
    BY <1>12, <2>2, <2>3, <2>4
  <2>5. CASE d # c
    BY <2>1, <2>5
  <2> QED BY <2>4, <2>5
<1>17. EndsWhenTold'
  <2>1. \A k \in Keys : processes[k] # 0 => proc'[processes[k]] = proc[processes[k]]
    BY <1>5, <1>12, IndexTypes
  <2>2. \A d \in Callers : caller[d].pc = "replace" => caller'[d] = caller[d]
    BY <1>4, <1>10
  <2>3. ASSUME NEW k \in Keys, processes[k] # 0, proc[processes[k]].cancelled
        PROVE  down # "no" \/ \E d \in Callers : caller'[d].pc = "replace" /\ caller'[d].key = k
    BY <2>2, <2>3 DEF EndsWhenTold
  <2> QED BY <1>4, <1>7, <2>1, <2>3 DEF EndsWhenTold
<1> QED BY <1>7, <1>11, <1>13, <1>14, <1>15, <1>16, <1>17 DEF Books

\* A new process is registered for the caller's ref; the one it replaces, if
\* any, has been cancelled.
LEMMA SpawnInv ==
    ASSUME AutorunInv, NEW c \in Callers, NEW ps \in [Procs -> ProcType], Spawn(c, ps),
           caller[c].pc \in {"start", "replace"}, mu \in {Nobody, c},
           Entry(c) # 0 => proc[Entry(c)].cancelled,
           \A j \in Procs : /\ ps[j].pc = proc[j].pc /\ ps[j].key = proc[j].key
                            /\ ps[j].cancelled = proc[j].cancelled
                            /\ ps[j].open => proc[j].open
                            /\ ps[j].conn => proc[j].conn
    PROVE  TypeOK' /\ Books' /\ ControlRefsExact'
<1> USE DEF AutorunInv, Spawn
<1>0. /\ caller \in [Callers -> CallerType] /\ processes \in [Keys -> 0..MaxProcs]
      /\ caller[c] \in CallerType /\ caller[c].key \in Keys /\ caller[c].cfg \in Configs
      /\ started \in 0..MaxProcs /\ proc \in [Procs -> ProcType]
  BY TypeOKDef DEF CallerType
<1>1. PICK key \in Keys : key = caller[c].key
  BY <1>0
<1>2. PICK n \in Procs : n = started + 1
  BY <1>0, BoundAssumption DEF Procs
<1>3. PICK q \in ProcType : q = NewProc("check", key, caller[c].cfg)
  <2>1. "check" \in ProcLabels
    BY DEF ProcLabels
  <2> QED BY <1>0, <1>1, <2>1, FreshTypes
<1>4. q.pc = "check" /\ q.key = key /\ ~q.cancelled /\ ~q.open /\ ~q.conn
  BY <1>3 DEF NewProc
<1>5. proc' = [ps EXCEPT ![n] = q] /\ processes' = [processes EXCEPT ![key] = n]
  BY <1>1, <1>2, <1>3
<1>6. proc'[n] = q /\ \A j \in Procs : j # n => proc'[j] = ps[j]
  BY <1>5
<1>7. processes'[key] = n /\ \A k \in Keys : k # key => processes'[k] = processes[k]
  BY <1>0, <1>5
<1>8. caller'[c].pc = "idle" /\ \A d \in Callers : d # c => caller'[d] = caller[d]
  BY <1>0, FreshTypes
<1>9. proc[n].pc = "none"
  BY <1>0, <1>2 DEF StartedKnown, Procs
<1>10. n # 0 /\ n > started /\ started' = n
  BY <1>0, <1>2
<1>11. \A d \in Callers : d # c => caller[d].pc # "replace"
  BY HolderAssumption DEF MutexHolders
<1>12. \A k \in Keys : processes[k] # 0 => processes[k] # n /\ processes[k] \in Procs /\ processes[k] <= started
  BY <1>0, <1>10, IndexTypes DEF EntriesKnown, Procs
<1>13. TypeOK'
  <2>1. caller' \in [Callers -> CallerType]
    BY <1>0, FreshTypes
  <2>2. proc' \in [Procs -> ProcType] /\ processes' \in [Keys -> 0..MaxProcs] /\ started' \in 0..MaxProcs
    BY <1>0, <1>2, <1>5, BoundAssumption DEF Procs
  <2> QED BY <2>1, <2>2 DEF TypeOK, CallerType, CallerLabels, ProcType, ProcLabels
<1>14. ControlRefsExact'
  <2>1. Attempts' = Attempts
    BY <1>4, <1>6, <1>9 DEF Attempts
  <2> QED BY <2>1 DEF ControlRefsExact
<1>15. ActiveTracked'
  <2> SUFFICES ASSUME NEW i \in Procs, ~Ended(i)', ~Cancelled(i)'
               PROVE  \/ processes'[proc'[i].key] = i
                      \/ \E d \in Callers : caller'[d].pc = "cancel" /\ caller'[d].p = i
    BY DEF ActiveTracked
  <2>1. CASE i = n
    BY <1>4, <1>6, <1>7, <2>1
  <2>2. CASE i # n
    <3>1. ~Ended(i) /\ ~Cancelled(i) /\ proc'[i].key = proc[i].key /\ proc[i].key \in Keys
      BY <1>0, <1>6, <2>2 DEF Ended, Cancelled, ProcType
    <3>2. CASE processes[proc[i].key] = i
      <4>1. proc[i].key # key
        BY <1>1, <3>1, <3>2 DEF Cancelled, Entry, Procs
      <4> QED BY <1>7, <3>1, <3>2, <4>1
    <3>3. CASE \E d \in Callers : caller[d].pc = "cancel" /\ caller[d].p = i
      BY <1>8, <3>3
    <3> QED BY <3>1, <3>2, <3>3 DEF ActiveTracked
  <2> QED BY <2>1, <2>2
<1>16. EntriesKnown'
  <2> SUFFICES ASSUME NEW k \in Keys, processes'[k] # 0
               PROVE  processes'[k] <= n /\ proc'[processes'[k]].key = k
    BY <1>10 DEF EntriesKnown
  <2>1. CASE k = key
    BY <1>0, <1>2, <1>4, <1>6, <1>7, <2>1
  <2>2. CASE k # key
    BY <1>0, <1>2, <1>6, <1>7, <1>12, <2>2 DEF EntriesKnown, Procs
  <2> QED BY <2>1, <2>2
<1>17. StartedKnown'
  BY <1>0, <1>2, <1>4, <1>6, <1>10 DEF StartedKnown, Procs
<1>18. ConnsInAttempts' /\ QuietAfterShutdown'
  BY <1>4, <1>6 DEF ConnsInAttempts, QuietAfterShutdown
<1>19. MutexHolders'
  <2>1. \A d \in Callers : caller'[d].pc # "replace"
    BY <1>8, <1>11
  <2> QED BY <2>1, HolderAssumption DEF MutexHolders
<1>20. StopsProgress'
  <2> SUFFICES ASSUME NEW d \in Callers, caller'[d].pc \in {"cancel", "close", "await", "stopped"}
               PROVE  /\ caller'[d].p \in 1..n /\ \A k \in Keys : processes'[k] # caller'[d].p
                      /\ caller'[d].pc # "cancel" => proc'[caller'[d].p].cancelled
                      /\ caller'[d].pc = "stopped" => proc'[caller'[d].p].pc = "ended"
    BY <1>10 DEF StopsProgress
  <2>1. d # c /\ caller'[d] = caller[d]
    BY <1>8
  <2>2. PICK p \in Procs : p = caller[d].p /\ p \in 1..started
    BY <2>1, IndexTypes DEF StopsProgress
  <2>3. p # n /\ p \in 1..n
    BY <1>0, <1>2, <2>2
  <2>4. \A k \in Keys : processes'[k] # p
    BY <1>7, <2>1, <2>2, <2>3 DEF StopsProgress
  <2>5. proc'[p].cancelled = proc[p].cancelled /\ proc'[p].pc = proc[p].pc
    BY <1>6, <2>3
  <2> QED BY <2>1, <2>2, <2>3, <2>4, <2>5 DEF StopsProgress
<1>21. EndsWhenTold'
  <2>1. \A i \in Procs : proc'[i].pc = "ended" => Cancelled(i)'
    BY <1>4, <1>6 DEF EndsWhenTold, Cancelled
  <2>2. ASSUME NEW k \in Keys, processes'[k] # 0, proc'[processes'[k]].cancelled
        PROVE  down # "no" \/ \E d \in Callers : caller'[d].pc = "replace" /\ caller'[d].key = k
    <3>1. k # key /\ processes'[k] = processes[k]
      BY <1>4, <1>6, <1>7, <2>2
    <3>2. proc[processes[k]].cancelled /\ processes[k] # 0
      BY <1>6, <1>12, <2>2, <3>1
    <3> QED BY <1>1, <1>8, <3>1, <3>2 DEF EndsWhenTold
  <2> QED BY <2>1, <2>2 DEF EndsWhenTold
<1> QED BY <1>13, <1>14, <1>15, <1>16, <1>17, <1>18, <1>19, <1>20, <1>21 DEF Books

\* startProcess for a ref without an entry, and after the old process was told
\* to stop.
LEMMA StartInv ==
    ASSUME AutorunInv, NEW c \in Callers, StartNew(c) \/ StartOver(c)
    PROVE  TypeOK' /\ Books' /\ ControlRefsExact'
<1> USE DEF AutorunInv
<1>0. proc \in [Procs -> ProcType]
  BY TypeOKDef
<1>1. CASE StartNew(c)
  BY <1>0, <1>1, SpawnInv DEF StartNew
<1>2. CASE StartOver(c)
  <2>1. mu = c /\ Entry(c) # 0 /\ proc[Entry(c)].cancelled /\ Entry(c) \in Procs
    BY <1>2, IndexTypes DEF StartOver, MutexHolders
  <2>2. PICK e \in Procs : e = Entry(c)
    BY <2>1
  <2>3. PICK q \in ProcType : q = CloseRecorded(proc[e])
    BY <1>0, CloseRecordedType
  <2>4. /\ q.pc = proc[e].pc /\ q.key = proc[e].key /\ q.cancelled = proc[e].cancelled
        /\ q.open => proc[e].open
        /\ q.conn => proc[e].conn
    BY <1>0, <2>3, CloseRecordedType
  <2>5. PICK ps : ps = [proc EXCEPT ![e] = q]
    OBVIOUS
  <2>6. ps \in [Procs -> ProcType] /\ ps[e] = q /\ \A j \in Procs : j # e => ps[j] = proc[j]
    BY <1>0, <2>5
  <2>7. Spawn(c, ps)
    BY <1>2, <2>2, <2>3, <2>5 DEF StartOver
  <2>8. caller[c].pc = "replace"
    BY <1>2 DEF StartOver
  <2>9. \A j \in Procs : /\ ps[j].pc = proc[j].pc /\ ps[j].key = proc[j].key
                         /\ ps[j].cancelled = proc[j].cancelled
                         /\ ps[j].open => proc[j].open
                         /\ ps[j].conn => proc[j].conn
    BY <2>4, <2>6
  <2> QED BY <2>1, <2>6, <2>7, <2>8, <2>9, SpawnInv
<1> QED BY <1>1, <1>2

-----------------------------------------------------------------------------
(* The supervisors' steps.                                                 *)

\* What supervise and runOnce do to their process outside shutdown, and that
\* after shutdown a supervisor that has yet to look is all that is left.
LEMMA SuperviseInv ==
    ASSUME AutorunInv, NEW i \in Procs,
           Supervise(i) \/ \E failed \in BOOLEAN : SessionEnds(i, failed)
    PROVE  TypeOK' /\ Books' /\ ControlRefsExact'
<1> USE DEF AutorunInv
<1>0. proc \in [Procs -> ProcType] /\ proc[i] \in ProcType
  BY TypeOKDef
<1>1. /\ "over" \in ProcLabels /\ "dial" \in ProcLabels /\ "record" \in ProcLabels /\ "run" \in ProcLabels
      /\ "return" \in ProcLabels /\ "ended" \in ProcLabels /\ "check" \in ProcLabels
      /\ "prepare" \in ProcLabels
  BY DEF ProcLabels
<1>2. /\ proc[i].open => proc[i].pc \in {"record", "run", "return"}
      /\ proc[i].conn => proc[i].pc \in {"run", "return"}
      /\ down = "done" => proc[i].pc \in {"none", "check", "ended"}
  BY DEF ConnsInAttempts, QuietAfterShutdown
<1>3. CASE Check(i) /\ Cancelled(i)
  <2>1. PICK r \in ProcType : r = CloseRecorded(proc[i])
    BY <1>0, CloseRecordedType
  <2>2. r.key = proc[i].key /\ r.cancelled = proc[i].cancelled /\ ~r.conn /\ (r.open => proc[i].open)
    BY <1>0, <2>1, CloseRecordedType
  <2>3. PICK q : q = [r EXCEPT !.pc = "ended"]
    OBVIOUS
  <2>4. q \in ProcType
    BY <1>1, <2>3, ProcUpdate
  <2>5. q.pc = "ended" /\ q.key = r.key /\ q.cancelled = r.cancelled /\ q.conn = r.conn /\ q.open = r.open
    BY <2>3 DEF ProcType
  <2>6. proc' = [proc EXCEPT ![i] = q] /\ OnlyProc /\ control' = control /\ proc[i].pc = "check"
    BY <1>3, <2>1, <2>3 DEF Check
  <2>7. Books'
    BY <1>2, <1>3, <2>2, <2>4, <2>5, <2>6, SupervisorMoves
  <2>8. TypeOK' /\ ControlRefsExact'
    BY <2>4, <2>5, <2>6, AttemptsStay
  <2> QED BY <2>7, <2>8
<1>4. CASE Check(i) /\ ~Cancelled(i)
  <2>1. PICK q : q = [proc[i] EXCEPT !.pc = "prepare"]
    OBVIOUS
  <2>2. q \in ProcType
    BY <1>0, <1>1, <2>1, ProcUpdate
  <2>3. /\ q.pc = "prepare" /\ q.key = proc[i].key /\ q.cancelled = proc[i].cancelled
        /\ q.conn = proc[i].conn /\ q.open = proc[i].open
    BY <1>0, <2>1 DEF ProcType
  <2>4. proc' = [proc EXCEPT ![i] = q] /\ OnlyProc /\ control' = control /\ proc[i].pc = "check"
    BY <1>4, <2>1 DEF Check
  <2>5. down = "no"
    BY <1>4 DEF Cancelled
  <2>6. Books'
    BY <1>2, <2>2, <2>3, <2>4, <2>5, SupervisorMoves
  <2>7. TypeOK' /\ ControlRefsExact'
    BY <2>2, <2>3, <2>4, AttemptsStay
  <2> QED BY <2>6, <2>7
<1>5. CASE PrepareFails(i)
  <2>1. PICK q : q = [proc[i] EXCEPT !.pc = "over", !.err = TRUE]
    OBVIOUS
  <2>2. q \in ProcType
    BY <1>0, <1>1, <2>1, ProcUpdate, Zenon
  <2>3. /\ q.pc = "over" /\ q.key = proc[i].key /\ q.cancelled = proc[i].cancelled
        /\ q.conn = proc[i].conn /\ q.open = proc[i].open
    BY <1>0, <2>1 DEF ProcType
  <2>4. proc' = [proc EXCEPT ![i] = q] /\ OnlyProc /\ control' = control /\ proc[i].pc = "prepare"
    BY <1>5, <2>1 DEF PrepareFails
  <2>5. Books'
    BY <1>2, <2>2, <2>3, <2>4, SupervisorMoves
  <2>6. TypeOK' /\ ControlRefsExact'
    BY <2>2, <2>3, <2>4, AttemptsStay
  <2> QED BY <2>5, <2>6
<1>6. CASE TakeControl(i)
  <2>1. PICK q : q = [proc[i] EXCEPT !.pc = "dial"]
    OBVIOUS
  <2>2. q \in ProcType
    BY <1>0, <1>1, <2>1, ProcUpdate
  <2>3. /\ q.pc = "dial" /\ q.key = proc[i].key /\ q.cancelled = proc[i].cancelled
        /\ q.conn = proc[i].conn /\ q.open = proc[i].open
    BY <1>0, <2>1 DEF ProcType
  <2>4. proc' = [proc EXCEPT ![i] = q] /\ OnlyProc /\ control' = control + 1 /\ proc[i].pc = "prepare"
    BY <1>6, <2>1 DEF TakeControl
  <2>5. Books'
    BY <1>2, <2>2, <2>3, <2>4, SupervisorMoves
  <2>6. TypeOK' /\ ControlRefsExact'
    BY <2>2, <2>3, <2>4, AttemptBegins
  <2> QED BY <2>5, <2>6
<1>7. CASE DialFails(i)
  <2>1. PICK q : q = [proc[i] EXCEPT !.pc = "over", !.err = TRUE]
    OBVIOUS
  <2>2. q \in ProcType
    BY <1>0, <1>1, <2>1, ProcUpdate, Zenon
  <2>3. /\ q.pc = "over" /\ q.key = proc[i].key /\ q.cancelled = proc[i].cancelled
        /\ q.conn = proc[i].conn /\ q.open = proc[i].open
    BY <1>0, <2>1 DEF ProcType
  <2>4. proc' = [proc EXCEPT ![i] = q] /\ OnlyProc /\ control' = control - 1 /\ proc[i].pc = "dial"
    BY <1>7, <2>1 DEF DialFails
  <2>5. Books'
    BY <1>2, <2>2, <2>3, <2>4, SupervisorMoves
  <2>6. TypeOK' /\ ControlRefsExact'
    BY <2>2, <2>3, <2>4, AttemptEnds
  <2> QED BY <2>5, <2>6
<1>8. CASE Dial(i)
  <2>1. PICK q : q = [proc[i] EXCEPT !.pc = "record", !.open = TRUE]
    OBVIOUS
  <2>2. q \in ProcType
    BY <1>0, <1>1, <2>1, ProcUpdate, Zenon
  <2>3. /\ q.pc = "record" /\ q.key = proc[i].key /\ q.cancelled = proc[i].cancelled
        /\ q.conn = proc[i].conn
    BY <1>0, <2>1 DEF ProcType
  <2>4. proc' = [proc EXCEPT ![i] = q] /\ OnlyProc /\ control' = control /\ proc[i].pc = "dial"
    BY <1>8, <2>1 DEF Dial
  <2>5. Books'
    BY <1>2, <2>2, <2>3, <2>4, SupervisorMoves
  <2>6. TypeOK' /\ ControlRefsExact'
    BY <2>2, <2>3, <2>4, AttemptsStay
  <2> QED BY <2>5, <2>6
<1>9. CASE Record(i)
  <2>1. PICK q : q = [proc[i] EXCEPT !.pc = "run", !.conn = TRUE]
    OBVIOUS
  <2>2. q \in ProcType
    BY <1>0, <1>1, <2>1, ProcUpdate, Zenon
  <2>3. /\ q.pc = "run" /\ q.key = proc[i].key /\ q.cancelled = proc[i].cancelled
    BY <1>0, <2>1 DEF ProcType
  <2>4. proc' = [proc EXCEPT ![i] = q] /\ OnlyProc /\ control' = control /\ proc[i].pc = "record"
    BY <1>9, <2>1 DEF Record
  <2>5. Books'
    BY <1>2, <2>2, <2>3, <2>4, SupervisorMoves
  <2>6. TypeOK' /\ ControlRefsExact'
    BY <2>2, <2>3, <2>4, AttemptsStay
  <2> QED BY <2>5, <2>6
<1>10. ASSUME NEW failed \in BOOLEAN, SessionEnds(i, failed)
       PROVE  TypeOK' /\ Books' /\ ControlRefsExact'
  <2>1. PICK q : q = [proc[i] EXCEPT !.pc = "return", !.err = failed]
    OBVIOUS
  <2>2. q \in ProcType
    BY <1>0, <1>1, <2>1, ProcUpdate, Zenon
  <2>3. /\ q.pc = "return" /\ q.key = proc[i].key /\ q.cancelled = proc[i].cancelled
    BY <1>0, <2>1 DEF ProcType
  <2>4. proc' = [proc EXCEPT ![i] = q] /\ OnlyProc /\ control' = control /\ proc[i].pc = "run"
    BY <1>10, <2>1 DEF SessionEnds
  <2>5. Books'
    BY <1>2, <2>2, <2>3, <2>4, SupervisorMoves
  <2>6. TypeOK' /\ ControlRefsExact'
    BY <2>2, <2>3, <2>4, AttemptsStay
  <2> QED BY <2>5, <2>6
<1>11. CASE Return(i)
  <2>1. PICK q : q = [proc[i] EXCEPT !.pc = "over", !.conn = FALSE, !.open = FALSE]
    OBVIOUS
  <2>2. q \in ProcType
    BY <1>0, <1>1, <2>1, ProcUpdate, Zenon
  <2>3. /\ q.pc = "over" /\ q.key = proc[i].key /\ q.cancelled = proc[i].cancelled
        /\ ~q.conn /\ ~q.open
    BY <1>0, <2>1 DEF ProcType
  <2>4. proc' = [proc EXCEPT ![i] = q] /\ OnlyProc /\ control' = control - 1 /\ proc[i].pc = "return"
    BY <1>11, <2>1 DEF Return
  <2>5. Books'
    BY <1>2, <2>2, <2>3, <2>4, SupervisorMoves
  <2>6. TypeOK' /\ ControlRefsExact'
    BY <2>2, <2>3, <2>4, AttemptEnds
  <2> QED BY <2>5, <2>6
<1>12. ASSUME NEW l \in {"ended", "check"}, proc[i].pc = "over", l = "ended" => Cancelled(i),
              proc' = [proc EXCEPT ![i].pc = l], control' = control, OnlyProc
       PROVE  TypeOK' /\ Books' /\ ControlRefsExact'
  <2>1. PICK q : q = [proc[i] EXCEPT !.pc = l]
    OBVIOUS
  <2>2. q \in ProcType
    BY <1>0, <1>1, <2>1, ProcUpdate
  <2>3. /\ q.pc = l /\ q.key = proc[i].key /\ q.cancelled = proc[i].cancelled
        /\ q.conn = proc[i].conn /\ q.open = proc[i].open
    BY <1>0, <2>1 DEF ProcType
  <2>4. proc' = [proc EXCEPT ![i] = q]
    BY <1>12, <2>1
  <2>5. Books'
    BY <1>2, <1>12, <2>2, <2>3, <2>4, SupervisorMoves
  <2>6. TypeOK' /\ ControlRefsExact'
    BY <1>12, <2>2, <2>3, <2>4, AttemptsStay
  <2> QED BY <2>5, <2>6
<1>13. CASE Leave(i) \/ Again(i)
  BY <1>12, <1>13 DEF Leave, Again
<1> QED BY <1>3, <1>4, <1>5, <1>6, <1>7, <1>8, <1>9, <1>10, <1>11, <1>13 DEF Supervise

-----------------------------------------------------------------------------
(* Shutdown.                                                               *)

\* shutdownAutorunManager moves on without touching a process.
LEMMA ShutdownMoves ==
    ASSUME AutorunInv, ShutdownCancel \/ ShutdownLock \/ ShutdownUnlock \/ ShutdownWait
    PROVE  TypeOK' /\ Books' /\ ControlRefsExact'
<1> USE DEF AutorunInv, ShutdownCancel, ShutdownLock, ShutdownUnlock, ShutdownWait
<1>1. UNCHANGED <<processes, proc, started, caller, control>> /\ down' # "no"
  OBVIOUS
<1>2. TypeOK'
  BY DEF TypeOK
<1>3. ControlRefsExact'
  BY <1>1 DEF ControlRefsExact, Attempts
<1>4. ActiveTracked' /\ EntriesKnown' /\ StartedKnown' /\ ConnsInAttempts' /\ StopsProgress' /\ EndsWhenTold'
  BY <1>1 DEF ActiveTracked, EntriesKnown, StartedKnown, ConnsInAttempts, StopsProgress, EndsWhenTold,
     Cancelled
<1>5. MutexHolders'
  BY <1>1, HolderAssumption DEF MutexHolders, Entry
<1>6. QuietAfterShutdown'
  BY <1>1 DEF QuietAfterShutdown, Ended
<1> QED BY <1>2, <1>3, <1>4, <1>5, <1>6 DEF Books

\* shutdownAutorunManager stops a registered process.
LEMMA ShutdownStopInv ==
    ASSUME AutorunInv, NEW i \in Procs, ShutdownStop(i)
    PROVE  TypeOK' /\ Books' /\ ControlRefsExact'
<1> USE DEF AutorunInv, ShutdownStop
<1>0. proc \in [Procs -> ProcType] /\ proc[i] \in ProcType
  BY TypeOKDef
<1>1. PICK r \in ProcType : r = CloseRecorded(proc[i])
  BY <1>0, CloseRecordedType
<1>2. /\ r.pc = proc[i].pc /\ r.key = proc[i].key /\ ~r.conn /\ (r.open => proc[i].open)
  BY <1>0, <1>1, CloseRecordedType
<1>3. PICK q : q = [r EXCEPT !.cancelled = TRUE]
  OBVIOUS
<1>4. q \in ProcType
  BY <1>3, ProcUpdate
<1>5. q.pc = r.pc /\ q.key = r.key /\ q.cancelled /\ q.conn = r.conn /\ q.open = r.open
  BY <1>3 DEF ProcType
<1>6. proc' = [proc EXCEPT ![i] = q]
  BY <1>1, <1>3
<1>7. proc'[i] = q /\ \A j \in Procs : j # i => proc'[j] = proc[j]
  BY <1>0, <1>6
<1>8. proc' \in [Procs -> ProcType]
  BY <1>0, <1>4, <1>6
<1>9. \A j \in Procs : /\ proc'[j].pc = proc[j].pc /\ proc'[j].key = proc[j].key
                       /\ proc[j].cancelled => proc'[j].cancelled
                       /\ proc'[j].open => proc[j].open
                       /\ proc'[j].conn => proc[j].conn
  BY <1>2, <1>5, <1>7
<1>10. /\ StartedKnown' /\ ConnsInAttempts' /\ QuietAfterShutdown' /\ ControlRefsExact'
       /\ \A j \in Procs : proc'[j].pc = "ended" => Cancelled(j)'
       /\ \A j \in Procs : Cancelled(j) => Cancelled(j)'
  BY <1>8, <1>9, ProcsTold
<1>11. TypeOK'
  BY <1>8 DEF TypeOK, ProcType, ProcLabels
<1>12. ActiveTracked'
  BY DEF ActiveTracked, Cancelled
<1>13. EntriesKnown'
  BY <1>9, IndexTypes DEF EntriesKnown
<1>14. MutexHolders'
  BY <1>9, IndexTypes DEF MutexHolders, Entry
<1>15. StopsProgress'
  BY <1>9, IndexTypes DEF StopsProgress
<1>16. EndsWhenTold'
  BY <1>10 DEF EndsWhenTold
<1> QED BY <1>10, <1>11, <1>12, <1>13, <1>14, <1>15, <1>16 DEF Books

-----------------------------------------------------------------------------
(* The theorems.                                                           *)

\* A registered ref is supervised: its process exists, has not ended, because
\* nobody has told it to, and nobody will but under the mutex.
LEMMA Supervised ==
    ASSUME TypeOK, Books
    PROVE  RegisteredSupervised
<1> SUFFICES ASSUME mu = Nobody, down = "no", NEW k \in Keys, processes[k] # 0
             PROVE  proc[processes[k]].key = k /\ ~Ended(processes[k]) /\ ~Cancelled(processes[k])
  BY DEF RegisteredSupervised
<1> USE DEF Books
<1>1. processes[k] \in Procs /\ processes[k] <= started /\ proc[processes[k]].key = k
  BY TypeOKDef DEF EntriesKnown, Procs
<1>2. \A c \in Callers : caller[c].pc # "replace"
  BY HolderAssumption DEF MutexHolders
<1>3. ~Cancelled(processes[k])
  BY <1>2 DEF EndsWhenTold, Cancelled
<1>4. proc[processes[k]].pc # "none"
  BY <1>1, TypeOKDef DEF StartedKnown, Procs
<1> QED BY <1>1, <1>3, <1>4 DEF EndsWhenTold, Ended

\* Every step preserves the invariant.
LEMMA NextInv == AutorunInv /\ [Next]_vars => AutorunInv'
<1> SUFFICES ASSUME AutorunInv, [Next]_vars PROVE AutorunInv'
  OBVIOUS
<1>1. TypeOK' /\ Books' /\ ControlRefsExact'
  <2>1. ASSUME NEW c \in Callers, NEW k \in Keys, NEW g \in Configs, Start(c, k, g) \/ Restart(c, k, g)
        PROVE  TypeOK' /\ Books' /\ ControlRefsExact'
    BY <2>1, CallerStepsAlone
  <2>2. ASSUME NEW c \in Callers, NEW k \in Keys, Stop(c, k)
        PROVE  TypeOK' /\ Books' /\ ControlRefsExact'
    BY <2>2, CallerStepsAlone, ValuesAssumption
  <2>3. ASSUME NEW c \in Callers, CallerStep(c)
        PROVE  TypeOK' /\ Books' /\ ControlRefsExact'
    <3>1. CASE StartSame(c) \/ Await(c) \/ Stopped(c)
      BY <3>1, CallerStepsAlone, ValuesAssumption
    <3> QED BY <2>3, <3>1, StartReplaceInv, StartInv, TakeInv, StopInv DEF CallerStep
  <2>4. ASSUME NEW i \in Procs, Supervise(i) \/ (\E failed \in BOOLEAN : SessionEnds(i, failed))
        PROVE  TypeOK' /\ Books' /\ ControlRefsExact'
    BY <2>4, SuperviseInv
  <2>5. CASE ShutdownCancel \/ ShutdownStep
    BY <2>5, ShutdownMoves, ShutdownStopInv DEF ShutdownStep
  <2>6. CASE UNCHANGED vars
    <3> USE DEF vars
    <3>1. TypeOK' /\ ControlRefsExact'
      BY <2>6 DEF AutorunInv, TypeOK, ControlRefsExact, Attempts
    <3>2. Books'
      BY <2>6 DEF AutorunInv, Books, ActiveTracked, EntriesKnown, StartedKnown, ConnsInAttempts,
         MutexHolders, StopsProgress, EndsWhenTold, QuietAfterShutdown, Ended, Cancelled, Entry
    <3> QED BY <3>1, <3>2
  <2> QED BY <2>1, <2>2, <2>3, <2>4, <2>5, <2>6 DEF Next
<1>2. (TypeOK /\ Books => RegisteredSupervised)'
  BY Supervised, PTL
<1> QED BY <1>1, <1>2 DEF AutorunInv, Books

\* The manager's map, its supervisors and their control servers agree in every
\* reachable state: no supervisor goes on unregistered, no registered ref is
\* without one.
THEOREM SupervisorsTracked == Spec => []AutorunInv
<1> QED BY InitInv, NextInv, PTL DEF Spec

\* When stopProcess returns, and when shutdown does, no session connection of
\* the processes concerned is open.
THEOREM StopCloses == Spec => []StoppedMeansClosed
<1>1. AutorunInv => StoppedMeansClosed
  BY IndexTypes DEF AutorunInv, StoppedMeansClosed, StopsProgress, ConnsInAttempts, QuietAfterShutdown
<1> QED BY <1>1, SupervisorsTracked, PTL

=============================================================================
