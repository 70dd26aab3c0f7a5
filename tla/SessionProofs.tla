--------------------------- MODULE SessionProofs ---------------------------
(***************************************************************************)
(* Proofs about the three modules a session passes through: the shared VMs *)
(* it may run in (VmxSessions), the connection and the endpoint that serve *)
(* its command (VshdSession), and the handlers that build, name and delete *)
(* the frame it enters (Frames).  The three specifications share no state; *)
(* each section proves its own.                                            *)
(***************************************************************************)
EXTENDS VmxSessions, VshdSession, Frames, SequenceTheorems, TLAPS

-----------------------------------------------------------------------------
(* VmxSessions                                                             *)

\* The invariant without its type part: what relates the map, the VMs and the
\* session that holds the mutex.
Agreement == EntriesKnown /\ CloserHoldsMutex /\ OnlyClosersEntryClosed

\* The records of vm.
VmType == [state : {"none", "running", "dying", "exited"}, refCount : Nat,
           closed : BOOLEAN, done : BOOLEAN, key : Keys, handler : Frames,
           monitor : {"wait", "delete", "end"}]

\* Assigning two fields of a VM's record keeps its type and the other fields,
\* whichever of the manager's pairs of assignments it is.
LEMMA VmUpdate ==
    ASSUME NEW v \in VmType
    PROVE  /\ \A n \in Nat : [v EXCEPT !.refCount = n] \in VmType
           /\ \A n \in Nat, f \in Frames : [v EXCEPT !.refCount = n, !.handler = f] \in VmType
           /\ \A n \in Nat : [v EXCEPT !.refCount = n, !.closed = TRUE] \in VmType
           /\ [v EXCEPT !.done = TRUE, !.monitor = "delete"] \in VmType
<1> USE DEF VmType
<1>1. \A n \in Nat : [v EXCEPT !.refCount = n] \in VmType
  OBVIOUS
<1>2. \A w \in VmType, f \in Frames : [w EXCEPT !.handler = f] \in VmType
  OBVIOUS
<1>3. \A w \in VmType : [w EXCEPT !.closed = TRUE] \in VmType /\ [w EXCEPT !.monitor = "delete"] \in VmType
  OBVIOUS
<1>4. [v EXCEPT !.done = TRUE] \in VmType
  OBVIOUS
<1> HIDE DEF VmType
<1>5. ASSUME NEW n \in Nat, NEW f \in Frames
      PROVE  [v EXCEPT !.refCount = n, !.handler = f] \in VmType
  <2>1. [v EXCEPT !.refCount = n] \in VmType
    BY <1>1
  <2> QED BY <2>1, <1>2, Zenon
<1>6. ASSUME NEW n \in Nat
      PROVE  [v EXCEPT !.refCount = n, !.closed = TRUE] \in VmType
  <2>1. [v EXCEPT !.refCount = n] \in VmType
    BY <1>1
  <2> QED BY <2>1, <1>3, Zenon
<1>7. [v EXCEPT !.done = TRUE, !.monitor = "delete"] \in VmType
  BY <1>4, <1>3, Zenon
<1> QED BY <1>1, <1>5, <1>6, <1>7, Zenon

\* The daemon starts with no VM and no session inside releaseVMX.
LEMMA InitInv == Init => VmxInv
<1> SUFFICES ASSUME Init PROVE VmxInv
  OBVIOUS
<1> USE VmxAssumption, ValuesAssumption
<1>1. (CHOOSE k \in Keys : TRUE) \in Keys /\ (CHOOSE f \in Frames : TRUE) \in Frames
  OBVIOUS
<1>2. TypeOK
  BY <1>1 DEF Init, TypeOK, NoVM, IdleUser, VMs
<1>3. Agreement /\ RegisteredNotClosed
  BY DEF Init, Agreement, EntriesKnown, CloserHoldsMutex, OnlyClosersEntryClosed,
         RegisteredNotClosed, IdleUser
<1> QED BY <1>2, <1>3 DEF VmxInv, Agreement

\* getOrCreateVMX finds the key's VM and adds a reference.
LEMMA ReuseInv ==
    ASSUME VmxInv, NEW u \in Users, NEW k \in Keys, NEW f \in Frames, Reuse(u, k, f)
    PROVE  TypeOK' /\ Agreement'
<1> USE VmxAssumption DEF VmxInv
<1> DEFINE i == sessions[k]
<1>1. i \in VMs
  BY DEF TypeOK, Reuse, Running, VMs
<1>2. /\ vm' = [vm EXCEPT ![i] = [vm[i] EXCEPT !.refCount = vm[i].refCount + 1, !.handler = f]]
      /\ user' = [user EXCEPT ![u] = [pc |-> "using", key |-> k, frame |-> f, ms |-> i]]
      /\ mu' = mu /\ sessions' = sessions /\ started' = started /\ mu = Nobody
  BY <1>1 DEF Reuse, TypeOK
<1> HIDE DEF i
<1>3. TypeOK'
  <2> DEFINE w == [vm[i] EXCEPT !.refCount = vm[i].refCount + 1, !.handler = f]
  <2>1. vm[i] \in VmType /\ vm[i].refCount + 1 \in Nat
    BY <1>1 DEF TypeOK, VmType
  <2>2. w \in VmType
    BY <2>1, VmUpdate, Zenon
  <2> HIDE DEF w
  <2>3. vm' = [vm EXCEPT ![i] = w]
    BY <1>2 DEF w
  <2> QED BY <1>1, <1>2, <2>2, <2>3 DEF TypeOK, VmType, VMs
<1>4. \A j \in VMs : /\ vm'[j].key = vm[j].key /\ vm'[j].closed = vm[j].closed
                     /\ vm[j].refCount > 0 => vm'[j].refCount > 0
  BY <1>1, <1>2 DEF TypeOK
<1>5. EntriesKnown'
  BY <1>2, <1>4 DEF TypeOK, EntriesKnown, VMs
<1>6. CloserHoldsMutex'
  BY <1>2 DEF TypeOK, CloserHoldsMutex
<1>7. OnlyClosersEntryClosed'
  BY <1>2, <1>4 DEF TypeOK, OnlyClosersEntryClosed, CloserHoldsMutex, VMs
<1> QED BY <1>3, <1>5, <1>6, <1>7 DEF Agreement

\* getOrCreateVMX starts a VM and registers it, in the place of an exited one.
LEMMA CreateInv ==
    ASSUME VmxInv, NEW u \in Users, NEW k \in Keys, NEW f \in Frames, Create(u, k, f)
    PROVE  TypeOK' /\ Agreement'
<1> USE VmxAssumption, ValuesAssumption DEF VmxInv
<1> DEFINE i == started + 1
           v == StartedVM(k, f)
<1>1. i \in VMs /\ started \in Nat /\ i \in 0..MaxVMs
  BY DEF TypeOK, Create, VMs
<1>2. /\ vm' = [vm EXCEPT ![i] = v]
      /\ user' = [user EXCEPT ![u] = [pc |-> "using", key |-> k, frame |-> f, ms |-> i]]
      /\ sessions' = [sessions EXCEPT ![k] = i]
      /\ mu' = mu /\ started' = i /\ mu = Nobody
  BY DEF Create
<1>3. v = [state |-> "running", refCount |-> 1, closed |-> FALSE, done |-> FALSE,
           monitor |-> "wait", key |-> k, handler |-> f]
  BY DEF StartedVM
<1> HIDE DEF v, i
<1>4. TypeOK'
  BY <1>1, <1>2, <1>3 DEF TypeOK
<1>5. EntriesKnown'
  <2> USE DEF EntriesKnown
  <2>1. TAKE h \in Keys
  <2>2. CASE h = k
    BY <1>1, <1>2, <1>3, <2>2 DEF TypeOK
  <2>3. CASE h # k
    <3>1. sessions'[h] = sessions[h] /\ (sessions[h] # 0 => sessions[h] \in VMs)
      BY <1>2, <2>3 DEF TypeOK, VMs
    <3>2. sessions[h] # 0 => sessions[h] <= started /\ vm[sessions[h]].key = h
      BY DEF EntriesKnown
    <3>3. sessions[h] # 0 => vm'[sessions[h]] = vm[sessions[h]]
      BY <1>1, <1>2, <3>1, <3>2 DEF TypeOK, VMs, i
    <3> QED BY <1>1, <1>2, <3>1, <3>2, <3>3, SMTT(30) DEF TypeOK, i, VMs
  <2> QED BY <2>2, <2>3
<1>6. CloserHoldsMutex'
  BY <1>2 DEF TypeOK, CloserHoldsMutex
<1>7. OnlyClosersEntryClosed'
  BY <1>1, <1>2, <1>3, SMTT(30) DEF TypeOK, OnlyClosersEntryClosed, CloserHoldsMutex, EntriesKnown, VMs, i
<1> QED BY <1>4, <1>5, <1>6, <1>7 DEF Agreement

\* StartVM fails after the stale entry has been dropped.
LEMMA CreateFailsInv ==
    ASSUME VmxInv, NEW u \in Users, NEW k \in Keys, CreateFails(u, k)
    PROVE  TypeOK' /\ Agreement'
<1> USE VmxAssumption DEF VmxInv, CreateFails
<1>1. TypeOK'
  BY DEF TypeOK
<1>2. EntriesKnown'
  BY DEF TypeOK, EntriesKnown
<1>3. CloserHoldsMutex'
  BY DEF TypeOK, CloserHoldsMutex
<1>4. OnlyClosersEntryClosed'
  BY DEF TypeOK, OnlyClosersEntryClosed
<1> QED BY <1>1, <1>2, <1>3, <1>4 DEF Agreement

\* releaseVMX finds no entry.
LEMMA ReleaseNothingInv ==
    ASSUME VmxInv, NEW u \in Users, ReleaseNothing(u)
    PROVE  TypeOK' /\ Agreement'
<1> USE VmxAssumption, ValuesAssumption DEF VmxInv, ReleaseNothing
<1>0. IdleUser \in [pc : {"idle"}, key : Keys, frame : Frames, ms : 0..MaxVMs]
  BY DEF IdleUser
<1>1. TypeOK'
  BY <1>0 DEF TypeOK
<1>2. EntriesKnown'
  BY DEF TypeOK, EntriesKnown
<1>3. CloserHoldsMutex'
  BY <1>0 DEF TypeOK, CloserHoldsMutex
<1>4. OnlyClosersEntryClosed'
  BY <1>0 DEF TypeOK, OnlyClosersEntryClosed
<1> QED BY <1>1, <1>2, <1>3, <1>4 DEF Agreement

\* releaseVMX drops a reference that is not the last.
LEMMA ReleaseInv ==
    ASSUME VmxInv, NEW u \in Users, Release(u)
    PROVE  TypeOK' /\ Agreement'
<1> USE VmxAssumption, ValuesAssumption DEF VmxInv
<1> DEFINE i == sessions[user[u].key]
<1>0. IdleUser \in [pc : {"idle"}, key : Keys, frame : Frames, ms : 0..MaxVMs]
  BY DEF IdleUser
<1>1. i \in VMs /\ vm[i].refCount > 1
  BY DEF TypeOK, Release, VMs
<1>2. /\ vm' = [vm EXCEPT ![i] = [vm[i] EXCEPT !.refCount = vm[i].refCount - 1]]
      /\ user' = [user EXCEPT ![u] = IdleUser]
      /\ mu' = mu /\ sessions' = sessions /\ started' = started /\ mu = Nobody
  BY <1>1 DEF Release, TypeOK
<1> HIDE DEF i
<1>3. TypeOK'
  <2> DEFINE w == [vm[i] EXCEPT !.refCount = vm[i].refCount - 1]
  <2>1. vm[i] \in VmType /\ vm[i].refCount - 1 \in Nat
    BY <1>1 DEF TypeOK, VmType
  <2>2. w \in VmType
    BY Zenon, <2>1, VmUpdate
  <2> HIDE DEF w
  <2>3. vm' = [vm EXCEPT ![i] = w]
    BY <1>2 DEF w
  <2>4. vm \in [VMs -> VmType]
    BY DEF TypeOK, VmType
  <2>5. vm' \in [VMs -> VmType]
    BY <1>1, <2>2, <2>3, <2>4
  <2> QED BY <1>0, <1>2, <2>5 DEF TypeOK, VmType
<1>4. \A j \in VMs : /\ vm'[j].key = vm[j].key /\ vm'[j].closed = vm[j].closed
                     /\ vm[j].refCount > 0 => vm'[j].refCount > 0
  BY <1>1, <1>2 DEF TypeOK
<1>5. EntriesKnown'
  BY <1>2, <1>4 DEF TypeOK, EntriesKnown, VMs
<1>6. CloserHoldsMutex'
  BY <1>0, <1>2 DEF TypeOK, CloserHoldsMutex
<1>7. OnlyClosersEntryClosed'
  BY <1>0, <1>2, <1>4 DEF TypeOK, OnlyClosersEntryClosed, CloserHoldsMutex, VMs
<1> QED BY <1>3, <1>5, <1>6, <1>7 DEF Agreement

\* releaseVMX drops the last reference, kills the VM and keeps the mutex.
LEMMA ReleaseLastInv ==
    ASSUME VmxInv, NEW u \in Users, ReleaseLast(u)
    PROVE  TypeOK' /\ Agreement'
<1> USE VmxAssumption DEF VmxInv
<1> DEFINE k == user[u].key
           i == sessions[k]
           v == [Killed(vm[i]) EXCEPT !.refCount = 0, !.closed = TRUE]
<1>1. i \in VMs /\ k \in Keys /\ i # 0
  BY DEF TypeOK, ReleaseLast, VMs
<1>2. /\ vm' = [vm EXCEPT ![i] = v]
      /\ user' = [user EXCEPT ![u] = [user[u] EXCEPT !.pc = "closing", !.ms = i]]
      /\ mu' = u /\ sessions' = sessions /\ started' = started /\ mu = Nobody
  BY <1>1 DEF ReleaseLast, TypeOK
<1>3. v \in VmType /\ v.key = vm[i].key
  <2>1. vm[i] \in VmType
    BY <1>1 DEF TypeOK, VmType
  <2>2. Killed(vm[i]) \in VmType /\ Killed(vm[i]).key = vm[i].key
    BY <2>1 DEF Killed, VmType
  <2>3. v \in VmType
    BY <2>2, VmUpdate, 0 \in Nat, Zenon
  <2>4. v.key = Killed(vm[i]).key
    BY <2>2 DEF VmType
  <2> QED BY <2>2, <2>3, <2>4
<1> HIDE DEF v
<1>4. TypeOK'
  <2>1. vm \in [VMs -> VmType]
    BY DEF TypeOK, VmType
  <2>2. vm' \in [VMs -> VmType]
    BY <1>1, <1>2, <1>3, <2>1
  <2>3. user' \in [Users -> [pc : {"idle", "using", "closing"}, key : Keys, frame : Frames,
                             ms : 0..MaxVMs]]
    <3> DEFINE T == [pc : {"idle", "using", "closing"}, key : Keys, frame : Frames, ms : 0..MaxVMs]
               w == [user[u] EXCEPT !.pc = "closing", !.ms = i]
    <3>1. [user[u] EXCEPT !.pc = "closing"] \in T
      BY DEF TypeOK
    <3>2. \A r \in T : [r EXCEPT !.ms = i] \in T
      BY <1>1 DEF VMs
    <3>3. user \in [Users -> T]
      BY DEF TypeOK
    <3> HIDE DEF T, i
    <3>4. w \in T
      BY <3>1, <3>2, Zenon
    <3> HIDE DEF w
    <3>5. user' = [user EXCEPT ![u] = w]
      BY <1>2 DEF w, i
    <3>6. user' \in [Users -> T]
      BY <3>3, <3>4, <3>5
    <3> QED BY <3>6 DEF T
  <2> QED BY <1>1, <1>2, <2>2, <2>3 DEF TypeOK, VmType, VMs
<1>5. EntriesKnown'
  BY <1>1, <1>2, <1>3 DEF TypeOK, EntriesKnown, VMs
<1>6. CloserHoldsMutex'
  BY <1>1, <1>2 DEF TypeOK, CloserHoldsMutex
<1>7. OnlyClosersEntryClosed'
  BY <1>1, <1>2, <1>3 DEF TypeOK, OnlyClosersEntryClosed, CloserHoldsMutex, EntriesKnown, VMs
<1> QED BY <1>4, <1>5, <1>6, <1>7 DEF Agreement

\* The VM is gone: releaseVMX deletes the entry, which is still this VM's.
LEMMA CloseReturnsInv ==
    ASSUME VmxInv, NEW u \in Users, CloseReturns(u)
    PROVE  TypeOK' /\ Agreement'
<1> USE VmxAssumption, ValuesAssumption DEF VmxInv, CloseReturns
<1>0. IdleUser \in [pc : {"idle"}, key : Keys, frame : Frames, ms : 0..MaxVMs]
  BY DEF IdleUser
<1>1. TypeOK'
  BY <1>0 DEF TypeOK
<1>2. EntriesKnown'
  BY DEF TypeOK, EntriesKnown
<1>3. CloserHoldsMutex'
  BY <1>0 DEF TypeOK, CloserHoldsMutex
<1>4. OnlyClosersEntryClosed'
  BY <1>0 DEF TypeOK, OnlyClosersEntryClosed, CloserHoldsMutex
<1> QED BY <1>1, <1>2, <1>3, <1>4 DEF Agreement

\* A step of the VM or of its monitor that leaves the map alone changes neither
\* the key, the closed flag nor the count.
LEMMA MachineKeeps ==
    ASSUME VmxInv, NEW i \in VMs, VmFails(i) \/ VmExits(i) \/ MonitorDone(i)
    PROVE  TypeOK' /\ Agreement'
<1> USE DEF VmxInv
<1>0. UNCHANGED <<mu, sessions, started, user>>
  BY DEF VmFails, VmExits, MonitorDone
<1>1. TypeOK'
  <2>1. CASE VmFails(i)
    BY <1>0, <2>1 DEF VmFails, Killed, TypeOK
  <2>2. CASE VmExits(i)
    BY <1>0, <2>2 DEF VmExits, TypeOK
  <2>3. CASE MonitorDone(i)
    <3>1. vm' = [vm EXCEPT ![i] = [vm[i] EXCEPT !.done = TRUE, !.monitor = "delete"]]
      BY <2>3 DEF MonitorDone, TypeOK
    <3>2. [vm[i] EXCEPT !.done = TRUE, !.monitor = "delete"] \in VmType
      <4>1. vm[i] \in VmType
        BY DEF TypeOK, VmType
      <4> QED BY <4>1, VmUpdate, Zenon
    <3> DEFINE w == [vm[i] EXCEPT !.done = TRUE, !.monitor = "delete"]
    <3> HIDE DEF w
    <3>3. vm' = [vm EXCEPT ![i] = w] /\ w \in VmType
      BY <3>1, <3>2 DEF w
    <3> QED BY <1>0, <3>3 DEF TypeOK, VmType
  <2> QED BY <2>1, <2>2, <2>3
<1>2. \A j \in VMs : /\ vm'[j].key = vm[j].key /\ vm'[j].closed = vm[j].closed
                     /\ vm'[j].refCount = vm[j].refCount
  <2>1. CASE VmFails(i)
    BY <2>1 DEF VmFails, Killed, TypeOK
  <2>2. CASE VmExits(i)
    BY <2>2 DEF VmExits, TypeOK
  <2>3. CASE MonitorDone(i)
    BY <2>3 DEF MonitorDone, TypeOK
  <2> QED BY <2>1, <2>2, <2>3
<1>3. EntriesKnown'
  BY <1>0, <1>2 DEF TypeOK, EntriesKnown, VMs
<1>4. CloserHoldsMutex'
  BY <1>0 DEF TypeOK, CloserHoldsMutex
<1>5. OnlyClosersEntryClosed'
  BY <1>0, <1>2 DEF TypeOK, OnlyClosersEntryClosed, VMs
<1> QED BY <1>1, <1>3, <1>4, <1>5 DEF Agreement

\* The monitor deletes its key's entry, with the mutex.
LEMMA MonitorDeleteInv ==
    ASSUME VmxInv, NEW i \in VMs, MonitorDelete(i)
    PROVE  TypeOK' /\ Agreement'
<1> USE VmxAssumption DEF VmxInv, MonitorDelete
<1>1. TypeOK'
  BY DEF TypeOK
<1>2. \A j \in VMs : /\ vm'[j].key = vm[j].key /\ vm'[j].closed = vm[j].closed
                     /\ vm'[j].refCount = vm[j].refCount
  BY DEF TypeOK
<1>3. EntriesKnown'
  BY <1>2 DEF TypeOK, EntriesKnown, VMs
<1>4. CloserHoldsMutex'
  BY DEF TypeOK, CloserHoldsMutex
<1>5. OnlyClosersEntryClosed'
  BY <1>2 DEF TypeOK, OnlyClosersEntryClosed, VMs
<1> QED BY <1>1, <1>3, <1>4, <1>5 DEF Agreement

\* Every step of the sessions, the VMs and their monitors preserves the invariant.
LEMMA NextInv == VmxInv /\ [Next]_vars => VmxInv'
<1> SUFFICES ASSUME VmxInv, [Next]_vars PROVE TypeOK' /\ Agreement'
  <2>1. TypeOK' /\ Agreement' => RegisteredNotClosed'
    BY VmxAssumption DEF TypeOK, Agreement, CloserHoldsMutex, OnlyClosersEntryClosed,
                         RegisteredNotClosed
  <2> QED BY <2>1 DEF VmxInv, Agreement
<1>1. CASE UNCHANGED vars
  BY <1>1 DEF vars, VmxInv, Agreement, TypeOK, EntriesKnown, CloserHoldsMutex,
              OnlyClosersEntryClosed
<1>2. ASSUME NEW u \in Users, NEW k \in Keys, NEW f \in Frames, Reuse(u, k, f) \/ Create(u, k, f)
      PROVE  TypeOK' /\ Agreement'
  BY <1>2, ReuseInv, CreateInv
<1>3. ASSUME NEW u \in Users, NEW k \in Keys, CreateFails(u, k)
      PROVE  TypeOK' /\ Agreement'
  BY <1>3, CreateFailsInv
<1>4. ASSUME NEW u \in Users, ReleaseNothing(u) \/ Release(u) \/ ReleaseLast(u) \/ CloseReturns(u)
      PROVE  TypeOK' /\ Agreement'
  BY <1>4, ReleaseNothingInv, ReleaseInv, ReleaseLastInv, CloseReturnsInv
<1>5. ASSUME NEW i \in VMs, VmFails(i) \/ Machine(i)
      PROVE  TypeOK' /\ Agreement'
  BY <1>5, MachineKeeps, MonitorDeleteInv DEF Machine
<1> QED BY <1>1, <1>2, <1>3, <1>4, <1>5 DEF Next

\* A session that takes vmxSessionManager's mutex never finds a VM that a
\* release has shut down, although getOrCreateVMX, releaseVMX and the VMs'
\* monitors delete and replace entries by key and not by VM; and the release
\* that waits with the mutex finds its own VM's entry when it comes back.
THEOREM RegisteredVMsLive == Spec => []VmxInv
BY InitInv, NextInv, PTL DEF Spec

-----------------------------------------------------------------------------
(* VshdSession                                                             *)

\* A queue of the session after a frame has gone in or out.
LEMMA QueueFacts ==
    ASSUME NEW S, NEW q \in Seq(S)
    PROVE  /\ Len(q) \in Nat /\ (q = << >> <=> Len(q) = 0)
           /\ q # << >> => /\ Len(q) > 0 /\ Head(q) \in S /\ Head(q) = q[1]
                           /\ Tail(q) \in Seq(S) /\ Len(Tail(q)) = Len(q) - 1
                           /\ \A i \in 1 .. Len(q) - 1 : Tail(q)[i] = q[i + 1]
           /\ \A x \in S : /\ Append(q, x) \in Seq(S) /\ Append(q, x) # << >>
                           /\ Len(Append(q, x)) = Len(q) + 1
                           /\ Append(q, x)[Len(q) + 1] = x
                           /\ \A i \in 1 .. Len(q) : Append(q, x)[i] = q[i]
OBVIOUS

\* The records of the session keep their types when a field is assigned, and
\* their other fields.
DaemonFacts(d) ==
    /\ \A x \in {"dial", "proxy", "returned", "failed"} :
          [d EXCEPT !.pc = x] \in DaemonType
    /\ \A n \in Nat : /\ [d EXCEPT !.tries = n] \in DaemonType
                      /\ [d EXCEPT !.sent = n] \in DaemonType
                      /\ [d EXCEPT !.got = n] \in DaemonType
    /\ \A x \in Codes : [d EXCEPT !.code = x, !.exitSeen = TRUE] \in DaemonType
    /\ d.tries \in Nat /\ d.sent \in Nat /\ d.got \in Nat /\ d.code \in Codes
    /\ d.exitSeen \in BOOLEAN /\ d.pc \in {"dial", "proxy", "returned", "failed"}

LEMMA DaemonUpdate == \A d \in DaemonType : DaemonFacts(d)
<1> SUFFICES ASSUME NEW d \in DaemonType PROVE DaemonFacts(d)
  OBVIOUS
<1>1. \A x \in Codes, y \in BOOLEAN : [[d EXCEPT !.code = x] EXCEPT !.exitSeen = y] \in DaemonType
  <2>1. \A x \in Codes : [d EXCEPT !.code = x] \in DaemonType
    BY DEF DaemonType
  <2>2. \A e \in DaemonType, y \in BOOLEAN : [e EXCEPT !.exitSeen = y] \in DaemonType
    BY DEF DaemonType
  <2> QED BY <2>1, <2>2, Zenon
<1> QED BY Zenon, <1>1 DEF DaemonType, DaemonFacts

EpFacts(e) ==
    /\ \A x \in {"none", "start", "serve", "hup", "wait", "exit", "dead", "closed"} :
          [e EXCEPT !.pc = x] \in EpType
    /\ \A n \in Nat : /\ [e EXCEPT !.stdin = n] \in EpType
                      /\ [e EXCEPT !.pc = "serve", !.stdin = n] \in EpType
                      /\ \A x \in {"reading", "done"} : [e EXCEPT !.stdin = n, !.reader = x] \in EpType
    /\ [e EXCEPT !.reader = "done"] \in EpType
    /\ \A b \in BOOLEAN : /\ [e EXCEPT !.reader = "done", !.grace = b] \in EpType
                          /\ [e EXCEPT !.grace = b] \in EpType
                          /\ [e EXCEPT !.pc = "start", !.escaped = b] \in EpType
    /\ e.pc \in {"none", "start", "serve", "hup", "wait", "exit", "dead", "closed"}
    /\ e.stdin \in Nat /\ e.reader \in {"reading", "done"}

LEMMA EpUpdate == \A e \in EpType : EpFacts(e)
<1> SUFFICES ASSUME NEW e \in EpType PROVE EpFacts(e)
  OBVIOUS
<1>1. \A d \in EpType, n \in Nat : [d EXCEPT !.stdin = n] \in EpType
  BY DEF EpType
<1>2. \A d \in EpType, x \in {"reading", "done"} : [d EXCEPT !.reader = x] \in EpType
  BY DEF EpType
<1>3. \A d \in EpType, b \in BOOLEAN : [d EXCEPT !.grace = b] \in EpType
  BY DEF EpType
<1>4. \A x \in {"none", "start", "serve", "hup", "wait", "exit", "dead", "closed"} :
         [e EXCEPT !.pc = x] \in EpType
  BY DEF EpType
<1>5. /\ e.pc \in {"none", "start", "serve", "hup", "wait", "exit", "dead", "closed"}
      /\ e.stdin \in Nat /\ e.reader \in {"reading", "done"}
  BY DEF EpType
<1>6. \A n \in Nat : [e EXCEPT !.pc = "serve", !.stdin = n] \in EpType
  BY <1>1, <1>4, Zenon
<1>7. \A n \in Nat, x \in {"reading", "done"} : [e EXCEPT !.stdin = n, !.reader = x] \in EpType
  BY <1>1, <1>2, Zenon
<1>8. \A b \in BOOLEAN : [e EXCEPT !.reader = "done", !.grace = b] \in EpType
  <2>1. [e EXCEPT !.reader = "done"] \in EpType
    BY <1>2
  <2> QED BY <2>1, <1>3, Zenon
<1>9. \A d \in EpType, b \in BOOLEAN : [d EXCEPT !.escaped = b] \in EpType
  BY DEF EpType
<1>10. \A b \in BOOLEAN : [e EXCEPT !.pc = "start", !.escaped = b] \in EpType
  <2>1. [e EXCEPT !.pc = "start"] \in EpType
    BY <1>4, Zenon
  <2> QED BY <2>1, <1>9, Zenon
<1> QED BY Zenon, <1>1, <1>2, <1>3, <1>4, <1>5, <1>6, <1>7, <1>8, <1>10 DEF EpFacts

ChildFacts(c) ==
    /\ [c EXCEPT !.st = "running"] \in ChildType
    /\ \A x \in Codes : [c EXCEPT !.st = "exited", !.code = x] \in ChildType
    /\ [c EXCEPT !.wrote = c.wrote + 1, !.buf = c.buf + 1] \in ChildType
    /\ c.buf > 0 => [c EXCEPT !.buf = c.buf - 1] \in ChildType
    /\ [c EXCEPT !.tty = FALSE] \in ChildType
    /\ KillGroup(c) \in ChildType
    /\ KillGroup(c).st # "running" /\ (c.st # "running" => KillGroup(c) = c)
    /\ c.st = "running" => KillGroup(c).st = "exited" /\ KillGroup(c).code \in Codes
    /\ KillGroup(c).wrote = c.wrote /\ KillGroup(c).buf = c.buf
    /\ c.wrote \in Nat /\ c.buf \in Nat /\ c.st \in {"none", "running", "exited"}

LEMMA ChildUpdate == \A c \in ChildType : ChildFacts(c)
<1> SUFFICES ASSUME NEW c \in ChildType PROVE ChildFacts(c)
  OBVIOUS
<1>1. [c EXCEPT !.st = "running"] \in ChildType
  BY DEF ChildType
<1>2. \A x \in Codes : [c EXCEPT !.st = "exited", !.code = x] \in ChildType
  <2>1. [c EXCEPT !.st = "exited"] \in ChildType
    BY DEF ChildType
  <2>2. \A d \in ChildType, x \in Codes : [d EXCEPT !.code = x] \in ChildType
    BY DEF ChildType
  <2> QED BY <2>1, <2>2, Zenon
<1>3. c.wrote \in Nat /\ c.buf \in Nat /\ c.st \in {"none", "running", "exited"}
  BY DEF ChildType
<1>4. [c EXCEPT !.wrote = c.wrote + 1, !.buf = c.buf + 1] \in ChildType
  <2>1. c.wrote + 1 \in Nat /\ c.buf + 1 \in Nat
    BY <1>3
  <2>2. \A n \in Nat : [c EXCEPT !.wrote = n] \in ChildType
    BY DEF ChildType
  <2>3. \A d \in ChildType, n \in Nat : [d EXCEPT !.buf = n] \in ChildType
    BY DEF ChildType
  <2> QED BY <2>1, <2>2, <2>3, Zenon
<1>5. c.buf > 0 => [c EXCEPT !.buf = c.buf - 1] \in ChildType
  <2>1. c.buf > 0 => c.buf - 1 \in Nat
    BY <1>3
  <2>2. \A n \in Nat : [c EXCEPT !.buf = n] \in ChildType
    BY DEF ChildType
  <2> QED BY <2>1, <2>2, Zenon
<1>6. "signal" \in Codes
  BY DEF Codes
<1>7. KillGroup(c) \in ChildType
  BY <1>2, <1>6, Zenon DEF KillGroup
<1>8. /\ KillGroup(c).st # "running" /\ (c.st # "running" => KillGroup(c) = c)
      /\ c.st = "running" => KillGroup(c).st = "exited" /\ KillGroup(c).code = "signal"
      /\ KillGroup(c).wrote = c.wrote /\ KillGroup(c).buf = c.buf
  BY DEF KillGroup, ChildType
<1>9. [c EXCEPT !.tty = FALSE] \in ChildType
  BY DEF ChildType
<1> QED BY <1>1, <1>2, <1>3, <1>4, <1>5, <1>6, <1>7, <1>8, <1>9, Zenon DEF ChildFacts

LEMMA SessionInitInv == SessionInit => SessionInv
<1> SUFFICES ASSUME SessionInit PROVE SessionInv
  OBVIOUS
<1>1. SessionTypeOK
  <2>1. daemon \in DaemonType
    BY DEF SessionInit, DaemonType, Codes
  <2>2. ep \in EpType
    BY DEF SessionInit, EpType
  <2>3. child \in ChildType
    BY DEF SessionInit, ChildType
  <2>4. << >> \in InFrames /\ << >> \in OutFrames
    BY DEF InFrames, OutFrames
  <2> QED BY <2>1, <2>2, <2>3, <2>4 DEF SessionInit, SessionTypeOK
<1>2. Len(down) = 0
  BY DEF SessionInit
<1> QED BY <1>1, <1>2 DEF SessionInit, SessionInv, ConnInv, EndpointInv, ExitInv, OutputInv, ExitFaithful, PipeGroupReaped, ExitOnWire, Outs

\* Types: the daemon's steps.
LEMMA DaemonTypes == SessionTypeOK /\ Daemon => SessionTypeOK'
<1> SUFFICES ASSUME SessionTypeOK, Daemon PROVE SessionTypeOK'
  OBVIOUS
<1>d. DaemonFacts(daemon)
  BY DaemonUpdate DEF SessionTypeOK
<1>n. /\ daemon.tries + 1 \in Nat /\ daemon.sent + 1 \in Nat
      /\ daemon.got + 1 \in Nat /\ MaxInput + 1 \in Nat
  BY SessionAssumption DEF SessionTypeOK, DaemonType
<1> USE <1>d DEF conn, procs, DaemonFacts
<1>1. /\ \A q \in InFrames : \A x \in {"winsize", "data", "eof"} : Append(q, x) \in InFrames
      /\ down # << >> => Head(down) \in {"out"} \cup Codes /\ Tail(down) \in OutFrames
  BY Zenon, QueueFacts DEF SessionTypeOK, InFrames, OutFrames
<1>a. FirstFrames \in InFrames
  <2>1. << >> \in InFrames /\ <<"winsize">> \in InFrames
    <3> HIDE <1>d
    <3> QED BY DEF InFrames
  <2> QED BY <2>1, Zenon DEF FirstFrames
<1>2. ASSUME NEW via, Open(via) PROVE SessionTypeOK'
  BY Zenon, <1>a, <1>2 DEF Open, SessionTypeOK
<1>3. CASE ConnectToVshd
  <2>1. daemon.tries + 1 \in Nat
    BY Zenon, <1>n
  <2>2. daemon' \in DaemonType
    BY Zenon, <1>3, <2>1 DEF ConnectToVshd, SessionTypeOK
  <2> QED BY Zenon, <1>3, <2>2 DEF ConnectToVshd, SessionTypeOK
<1>4. ASSUME NEW via, Forward(via) PROVE SessionTypeOK'
  <2>1. daemon.sent + 1 \in Nat
    BY Zenon, <1>n
  <2>2. daemon' \in DaemonType
    BY Zenon, <1>4, <2>1 DEF Forward, SessionTypeOK
  <2> QED BY Zenon, <1>1, <1>4, <2>2 DEF Forward, SessionTypeOK
<1>5. CASE SendEof
  <2>1. MaxInput + 1 \in Nat
    BY Zenon, <1>n
  <2>2. daemon' \in DaemonType
    BY Zenon, <1>5, <2>1 DEF SendEof, SessionTypeOK
  <2> QED BY Zenon, <1>1, <1>5, <2>2 DEF SendEof, SessionTypeOK
<1>6. CASE ReceiveFrame
  <2>1. daemon.got + 1 \in Nat
    BY Zenon, <1>n
  <2>2. daemon' \in DaemonType
    <3>1. CASE Head(down) = "out"
      BY Zenon, <1>6, <2>1, <3>1 DEF ReceiveFrame, SessionTypeOK
    <3>2. CASE Head(down) # "out"
      BY Zenon, <1>1, <1>6, <3>2 DEF ReceiveFrame, SessionTypeOK
    <3> QED BY Zenon, <3>1, <3>2
  <2> QED BY Zenon, <1>1, <1>6, <2>2 DEF ReceiveFrame, SessionTypeOK
<1>7. ASSUME Return PROVE SessionTypeOK'
  BY Zenon, <1>7 DEF Return, SessionTypeOK
<1>8. CASE EnterRelayEnds
  BY Zenon, <1>8 DEF EnterRelayEnds, SessionTypeOK
<1> QED BY Zenon, <1>2, <1>3, <1>4, <1>5, <1>6, <1>7, <1>8
        DEF Daemon, RunContainerSession, HandleEnter, RunInFrame, TryConnectToVshd,
            SendStdin, RunVsockSession, GuestDone, ClientClosed, CollectFrames

LEMMA VshdTypes == SessionTypeOK /\ (Vshd \/ Environment) => SessionTypeOK'
<1> SUFFICES ASSUME SessionTypeOK, Vshd \/ Environment PROVE SessionTypeOK'
  OBVIOUS
<1>e. EpFacts(ep) /\ ChildFacts(child)
  BY EpUpdate, ChildUpdate DEF SessionTypeOK
<1>n. /\ ep.stdin > 0 => ep.stdin - 1 \in Nat
      /\ \A n \in {0, 1} : n \in Nat /\ ep.stdin + n \in Nat
      /\ "one" \in {"out"} \cup Codes
  BY DEF SessionTypeOK, EpType, Codes
<1> USE <1>e DEF conn, procs, DeadJob, EpFacts, ChildFacts
<1>1. /\ \A x \in {"out"} \cup Codes : Append(down, x) \in OutFrames
      /\ up # << >> => Tail(up) \in InFrames /\ Append(pin, Head(up)) \in InFrames
  <2>1. \A x \in {"out"} \cup Codes : Append(down, x) \in OutFrames
    BY Zenon, QueueFacts DEF SessionTypeOK, OutFrames
  <2>2. up # << >> => Tail(up) \in InFrames /\ Head(up) \in {"winsize", "data", "eof"}
    BY Zenon, QueueFacts DEF SessionTypeOK, InFrames
  <2>3. \A x \in {"winsize", "data", "eof"} : Append(pin, x) \in InFrames
    BY Zenon, QueueFacts DEF SessionTypeOK, InFrames
  <2> QED BY <2>1, <2>2, <2>3, Zenon
<1>2. CASE HandleConnection
  <2>1. ep' \in EpType
    BY Zenon, <1>2 DEF HandleConnection, SessionTypeOK
  <2>2. down' \in OutFrames
    BY Zenon, <1>1, <1>2, <1>n DEF HandleConnection, Write, SessionTypeOK
  <2> QED BY Zenon, <1>2, <2>1, <2>2 DEF HandleConnection, SessionTypeOK
<1>3. CASE SpliceIn
  BY Zenon, <1>1, <1>3 DEF SpliceIn, SessionTypeOK
<1>4. CASE SpliceEof
  BY Zenon, <1>4 DEF SpliceEof, KillSession, Hangup, SessionTypeOK
<1>5. CASE ConnectionClosed
  BY Zenon, <1>5 DEF ConnectionClosed, SessionTypeOK
<1>6. CASE ClientGone
  BY Zenon, <1>6 DEF ClientGone, SessionTypeOK
<1>7. ASSUME NEW c \in ChildType, NEW e \in EpType, NEW j \in {"none", "running", "holding", "dead"}, Env(c, e, j)
      PROVE  SessionTypeOK'
  BY Zenon, <1>7 DEF Env, SessionTypeOK
<1>8. CASE ChildReads
  <2>1. ep.stdin > 0 => ep.stdin - 1 \in Nat
    BY Zenon, <1>n
  <2>2. ep.stdin > 0 => [ep EXCEPT !.stdin = ep.stdin - 1] \in EpType
    BY Zenon, <2>1 DEF SessionTypeOK
  <2> QED BY Zenon, <1>8, <1>7, <2>2 DEF ChildReads, SessionTypeOK
<1>9. CASE ChildWrites
  <2>1. [child EXCEPT !.wrote = child.wrote + 1, !.buf = child.buf + 1] \in ChildType
    BY Zenon DEF SessionTypeOK
  <2> QED BY Zenon, <1>9, <1>7, <2>1 DEF ChildWrites, SessionTypeOK
<1>10. CASE ChildForks
  <2>1. PICK j \in {"running", "holding"} : Env(child, ep, j)
    BY Zenon, <1>10 DEF ChildForks
  <2> QED BY Zenon, <1>7, <2>1 DEF SessionTypeOK
<1>11. CASE ChildExits
  <2>1. PICK c \in {"zero", "two"} : Env([child EXCEPT !.st = "exited", !.code = c], ep, job)
    BY Zenon, <1>11 DEF ChildExits
  <2>2. [child EXCEPT !.st = "exited", !.code = c] \in ChildType
    BY Zenon DEF SessionTypeOK, Codes
  <2> QED BY Zenon, <1>7, <2>1, <2>2 DEF SessionTypeOK
<1>12. CASE JobExits
  BY Zenon, <1>12, <1>7 DEF JobExits, SessionTypeOK
<1>13. CASE EndpointLost
  <2>1. KillGroup(child) \in ChildType /\ [ep EXCEPT !.pc = "dead"] \in EpType
    BY Zenon DEF SessionTypeOK
  <2> QED BY Zenon, <1>13, <1>7, <2>1 DEF EndpointLost, SessionTypeOK
<1>14. CASE ChildLeavesTty
  <2>1. [child EXCEPT !.tty = FALSE] \in ChildType
    BY Zenon
  <2> QED BY Zenon, <1>14, <1>7, <2>1 DEF ChildLeavesTty, SessionTypeOK
<1> QED BY Zenon, <1>2, <1>3, <1>4, <1>5, <1>6, <1>8, <1>9, <1>10, <1>11, <1>12, <1>13, <1>14
        DEF Vshd, Environment

LEMMA EndpointTypes == SessionTypeOK /\ EndpointInv /\ Endpoint => SessionTypeOK'
<1> SUFFICES ASSUME SessionTypeOK, EndpointInv, Endpoint PROVE SessionTypeOK'
  OBVIOUS
<1>e. EpFacts(ep) /\ ChildFacts(child)
  BY EpUpdate, ChildUpdate DEF SessionTypeOK
<1>n. /\ ep.stdin > 0 => ep.stdin - 1 \in Nat
      /\ \A n \in {0, 1} : n \in Nat /\ ep.stdin + n \in Nat
      /\ "one" \in {"out"} \cup Codes
  BY DEF SessionTypeOK, EpType, Codes
<1> USE <1>e DEF conn, procs, DeadJob, EpFacts, ChildFacts
<1>1. /\ \A x \in {"out"} \cup Codes : Append(down, x) \in OutFrames
      /\ up # << >> => Tail(up) \in InFrames
      /\ pin # << >> => Tail(pin) \in InFrames
  BY Zenon, QueueFacts DEF SessionTypeOK, InFrames, OutFrames
<1>2. ASSUME InQ # << >>, TakeIn PROVE up' \in InFrames /\ pin' \in InFrames
  BY Zenon, <1>1, <1>2 DEF InQ, TakeIn, SessionTypeOK
<1>3. ASSUME NEW x \in {0, 1}, StartChild(x)
      PROVE  ep' \in EpType /\ child' \in ChildType /\ down' \in OutFrames
  <2>1. x \in Nat /\ "one" \in {"out"} \cup Codes
    BY Zenon, <1>n
  <2>2. ep' \in EpType
    BY Zenon, <1>3, <2>1 DEF StartChild, SessionTypeOK
  <2>3. child' \in ChildType
    BY Zenon, <1>3 DEF StartChild, SessionTypeOK
  <2> QED BY Zenon, <1>1, <1>3, <2>1, <2>2, <2>3 DEF StartChild, Write, SessionTypeOK
<1>4. \A f : Data(f) \in {0, 1}
  BY Zenon DEF Data
<1>5. CASE ServePTY
  <2>1. up' \in InFrames /\ pin' \in InFrames
    BY Zenon, <1>5, <1>2 DEF ServePTY, SessionTypeOK
  <2>2. \E x \in {0, 1} : StartChild(x)
    BY Zenon, <1>5, <1>4 DEF ServePTY
  <2> QED BY Zenon, <1>3, <1>5, <2>1, <2>2 DEF ServePTY, SessionTypeOK
<1>6. CASE ServePipe
  BY Zenon, <1>3, <1>6 DEF ServePipe, SessionTypeOK
<1>7. CASE ReadFrame
  <2>1. ep' \in EpType
    <3>1. PICK n \in {0, 1} : n = Data(Head(InQ))
      BY Zenon, <1>4
    <3>2. ep.stdin + n \in Nat /\ ep \in EpType /\ ep.reader \in {"reading", "done"}
      BY Zenon, <1>n DEF SessionTypeOK
    <3>3. [ep EXCEPT !.reader = "done"] \in EpType
      BY Zenon, <3>2
    <3>4. \A x \in {"reading", "done"} : [ep EXCEPT !.stdin = ep.stdin + n, !.reader = x] \in EpType
      BY Zenon, <3>2
    <3> QED BY Zenon, <1>7, <3>1, <3>2, <3>3, <3>4 DEF ReadFrame
  <2> QED BY Zenon, <1>2, <1>7, <2>1 DEF ReadFrame, SessionTypeOK
<1>8. CASE ReadEnds
  BY Zenon, <1>8 DEF ReadEnds, Hangup, SessionTypeOK
<1>9. CASE KillChildOnDisconnect
  BY Zenon, <1>9 DEF KillChildOnDisconnect, SessionTypeOK
<1>10. CASE FrameOutput
  BY Zenon, <1>10, <1>1 DEF FrameOutput, Write, SessionTypeOK
<1>11. CASE PtyDone \/ PtyExit
  BY Zenon, <1>11 DEF PtyDone, PtyExit, SessionTypeOK
<1>12. CASE PtyHangup \/ PtyKill \/ PipeExit
  BY Zenon, <1>12 DEF PtyHangup, PtyKill, PipeExit, Hangup, SessionTypeOK
<1>13. CASE SendExit
  BY Zenon, <1>13, <1>1 DEF SendExit, Write, SessionTypeOK, EndpointInv
<1> QED BY Zenon, <1>5, <1>6, <1>7, <1>8, <1>9, <1>10, <1>11, <1>12, <1>13 DEF Endpoint

\* What a frame written to the connection, or read from it, does to the count.
LEMMA AfterWrite ==
    ASSUME SessionTypeOK, ExitInv, ~ExitOnWire, NEW x \in {"out"} \cup Codes, Write(x)
    PROVE  /\ downShut = "open" =>
                 /\ ExitOnWire' <=> x # "out"
                 /\ Outs' = IF x = "out" THEN Outs + 1 ELSE Outs
                 /\ down'[Len(down')] = x
                 /\ \A i \in 1 .. Len(down') : down'[i] # "out" => i = Len(down')
           /\ downShut # "open" => down' = down /\ ~ExitOnWire' /\ Outs' = Outs
<1>1. CASE downShut = "open"
  <2>1. down \in Seq({"out"} \cup Codes) /\ down' = Append(down, x)
    BY <1>1 DEF Write, SessionTypeOK, OutFrames
  <2>2. /\ Len(down) \in Nat /\ down' # << >> /\ Len(down') = Len(down) + 1
        /\ down'[Len(down')] = x /\ \A i \in 1 .. Len(down) : down'[i] = down[i]
    BY <2>1, QueueFacts
  <2>3. \A i \in 1 .. Len(down) : down[i] = "out"
    <3> SUFFICES ASSUME NEW i \in 1 .. Len(down), down[i] # "out" PROVE FALSE
      OBVIOUS
    <3>1. i = Len(down) /\ down # << >>
      BY DEF ExitInv
    <3> QED BY <3>1 DEF ExitOnWire
  <2>4. (ExitOnWire' <=> x # "out") /\ Outs' = IF x = "out" THEN Outs + 1 ELSE Outs
    BY <2>2 DEF ExitOnWire, Outs
  <2>5. \A i \in 1 .. Len(down') : down'[i] # "out" => i = Len(down')
    BY <2>2, <2>3
  <2> QED BY <1>1, <2>2, <2>4, <2>5
<1>2. CASE downShut # "open"
  BY <1>2 DEF Write, ExitOnWire, Outs
<1> QED BY <1>1, <1>2

LEMMA AfterRead ==
    ASSUME SessionTypeOK, ExitInv, down # << >>, down' = Tail(down)
    PROVE  /\ Head(down) = "out" =>
                 /\ ExitOnWire' = ExitOnWire /\ Outs' = Outs - 1
                 /\ ExitOnWire => down'[Len(down')] = down[Len(down)]
                 /\ \A i \in 1 .. Len(down') : down'[i] # "out" => i = Len(down')
           /\ Head(down) # "out" =>
                 /\ ExitOnWire /\ Outs = 0 /\ Head(down) = down[Len(down)]
                 /\ Len(down') = 0 /\ down' = << >> /\ ~ExitOnWire'
           /\ Outs \in Nat /\ Outs' \in Nat
<1>1. down \in Seq({"out"} \cup Codes)
  BY DEF SessionTypeOK, OutFrames
<1>2. /\ Len(down) \in Nat /\ Len(down) > 0 /\ Head(down) = down[1] /\ Len(down') = Len(down) - 1
      /\ \A i \in 1 .. Len(down) - 1 : down'[i] = down[i + 1]
      /\ down' \in Seq({"out"} \cup Codes)
  BY <1>1, QueueFacts
<1>3. down' = << >> <=> Len(down') = 0
  BY <1>2, QueueFacts
<1>a. \A i \in 1 .. Len(down) : down[i] # "out" => i = Len(down)
  BY DEF ExitInv
<1>4. CASE Head(down) = "out"
  <2>1. Len(down) > 1 => down' # << >> /\ down'[Len(down')] = down[Len(down)]
    BY <1>2, <1>3
  <2>2. Len(down) = 1 => down' = << >> /\ ~ExitOnWire
    BY <1>2, <1>3, <1>4 DEF ExitOnWire
  <2>3. ExitOnWire' = ExitOnWire
    BY <1>2, <2>1, <2>2 DEF ExitOnWire
  <2>4. Outs' = Outs - 1 /\ Outs \in Nat /\ Outs' \in Nat
    BY <1>2, <1>3, <2>3, <2>2 DEF Outs
  <2>5. \A i \in 1 .. Len(down') : down'[i] # "out" => i = Len(down')
    <3> SUFFICES ASSUME NEW i \in 1 .. Len(down'), down'[i] # "out" PROVE i = Len(down')
      OBVIOUS
    <3>1. i + 1 \in 1 .. Len(down) /\ down[i + 1] # "out"
      BY <1>2
    <3>2. i + 1 = Len(down)
      BY <3>1, <1>a
    <3> QED BY <3>2, <1>2
  <2>6. ExitOnWire => down'[Len(down')] = down[Len(down)]
    BY <1>2, <2>1, <2>2
  <2> QED BY <1>4, <2>3, <2>4, <2>5, <2>6
<1>5. CASE Head(down) # "out"
  <2>1. Len(down) = 1
    <3>1. 1 \in 1 .. Len(down) /\ down[1] # "out"
      BY <1>2, <1>5
    <3> QED BY <3>1, <1>a
  <2> QED BY <1>2, <1>3, <1>5, <2>1 DEF ExitOnWire, Outs
<1> QED BY <1>4, <1>5

\* The part of SessionInv that is not about types.
Reported == ConnInv /\ EndpointInv /\ ExitInv /\ OutputInv /\ ExitFaithful /\ PipeGroupReaped

LEMMA DaemonKeepsReported == SessionInv /\ Daemon => Reported'
<1> SUFFICES ASSUME SessionInv, Daemon PROVE Reported'
  OBVIOUS
<1>t. /\ daemon \in DaemonType /\ SessionTypeOK /\ ExitInv
  BY DEF SessionInv, SessionTypeOK
<1>w. down' = down => ExitOnWire' = ExitOnWire /\ Outs' = Outs
  BY DEF ExitOnWire, Outs
<1> USE DEF conn, procs, SessionInv, Reported, ConnInv, EndpointInv, ExitInv, OutputInv,
            ExitFaithful, PipeGroupReaped, Over
<1>2. ASSUME NEW via, Open(via) PROVE Reported'
  <2>1. down = << >> /\ Len(down) = 0 /\ Outs = 0
    BY <1>2 DEF Open, ExitOnWire, Outs
  <2>2. /\ daemon'.pc = "proxy" /\ daemon'.got = 0 /\ ~daemon'.exitSeen
        /\ ep.pc = "none" /\ child.st = "none" /\ child.wrote = 0 /\ child.buf = 0
    BY <1>2, <1>t DEF Open, DaemonType
  <2>3. /\ down' = down /\ downShut' = downShut /\ ep' = ep /\ child' = child /\ job' = job
        /\ conf' = conf /\ daemon.pc = "dial"
    BY <1>2 DEF Open
  <2> QED BY <1>w, <2>1, <2>2, <2>3
<1>3. CASE ConnectToVshd
  BY <1>3, <1>t, <1>w DEF ConnectToVshd, DaemonType
<1>4. ASSUME NEW via, Forward(via) PROVE Reported'
  BY <1>4, <1>t, <1>w DEF Forward, DaemonType
<1>5. CASE SendEof
  BY <1>5, <1>t, <1>w DEF SendEof, DaemonType
<1>6. CASE ReceiveFrame
  <2>1. down # << >> /\ down' = Tail(down) /\ daemon.pc = "proxy" /\ ~daemon.exitSeen
    BY <1>6 DEF ReceiveFrame, Proxying
  <2>2. CASE Head(down) = "out"
    <3>1. /\ daemon'.got = daemon.got + 1 /\ daemon'.pc = "proxy" /\ ~daemon'.exitSeen
          /\ downShut' = downShut /\ ep' = ep /\ child' = child /\ job' = job /\ conf' = conf
      BY <1>6, <1>t, <2>1, <2>2 DEF ReceiveFrame, DaemonType
    <3>2. /\ ExitOnWire' = ExitOnWire /\ Outs' = Outs - 1 /\ Outs \in Nat
          /\ ExitOnWire => down'[Len(down')] = down[Len(down)]
          /\ \A i \in 1 .. Len(down') : down'[i] # "out" => i = Len(down')
      BY <1>t, <2>1, <2>2, AfterRead
    <3>3. /\ daemon.got \in Nat /\ child.buf \in Nat /\ child.wrote \in Nat
          /\ daemon.got + Outs + child.buf = child.wrote
      BY <1>t, <2>1 DEF SessionTypeOK, DaemonType, ChildType
    <3>4. daemon'.got + Outs' + child'.buf = child'.wrote
      BY <3>1, <3>2, <3>3
    <3> QED BY <2>1, <3>1, <3>2, <3>4
  <2>3. CASE Head(down) # "out"
    BY <1>6, <1>t, <2>1, <2>3, AfterRead DEF ReceiveFrame, DaemonType
  <2> QED BY <2>2, <2>3
<1>7. ASSUME Return, Proxying PROVE Reported'
  BY <1>7, <1>t, <1>w DEF Return, Proxying, DaemonType
<1>8. CASE EnterRelayEnds
  BY <1>8, <1>w DEF EnterRelayEnds
<1> QED BY <1>2, <1>3, <1>4, <1>5, <1>6, <1>7, <1>8
        DEF Daemon, RunContainerSession, HandleEnter, RunInFrame, TryConnectToVshd,
            SendStdin, RunVsockSession, GuestDone, ClientClosed, CollectFrames

\* An endpoint that is still serving has put no exit frame on the connection.
LEMMA NotYetReported == SessionInv /\ ~Over => ~ExitOnWire /\ ~daemon.exitSeen
BY DEF SessionInv, ExitInv, OutputInv

LEMMA VshdKeepsReported == SessionInv /\ (Vshd \/ Environment) => Reported'
<1> SUFFICES ASSUME SessionInv, Vshd \/ Environment PROVE Reported'
  OBVIOUS
<1>t. /\ ep \in EpType /\ child \in ChildType /\ daemon \in DaemonType /\ SessionTypeOK /\ ExitInv
  BY DEF SessionInv, SessionTypeOK
<1>e. ChildFacts(child)
  BY <1>t, ChildUpdate
<1>w. down' = down => ExitOnWire' = ExitOnWire /\ Outs' = Outs
  BY DEF ExitOnWire, Outs
<1>k. /\ KillGroup(child).st # "running" /\ (child.st # "running" => KillGroup(child) = child)
      /\ child.st = "running" => KillGroup(child).st = "exited" /\ KillGroup(child).code \in Codes
      /\ KillGroup(child).wrote = child.wrote /\ KillGroup(child).buf = child.buf
  BY Zenon, <1>e DEF ChildFacts
<1>j. DeadJob(job) \notin {"running", "holding"}
  BY DEF DeadJob
<1> USE DEF conn, procs, SessionInv, Reported, ConnInv, EndpointInv, ExitInv, OutputInv,
            ExitFaithful, PipeGroupReaped, Over
<1>x. ASSUME ep'.pc = "dead", ep.pc \notin {"none", "dead", "closed"}, child' \in {child, KillGroup(child)},
             UNCHANGED <<conf, daemon, down, downShut>>
      PROVE  Reported'
  <2>1. /\ child'.wrote = child.wrote /\ child'.buf = child.buf
        /\ child.st # "running" => child' = child
        /\ child'.st = "exited" /\ child.st = "running" => child'.code \in Codes
        /\ child'.st = "none" => child.st = "none"
    BY <1>x, <1>k
  <2>2. ~ExitOnWire' /\ ~daemon'.exitSeen /\ Outs' = Outs
    BY <1>x, <1>w, NotYetReported
  <2> QED BY <1>x, <2>1, <2>2
<1>2. CASE HandleConnection
  <2>1. /\ daemon.pc \in {"proxy", "returned"} /\ ep.pc = "none" /\ child.st = "none"
        /\ ep'.pc \in {"start", "dead"} /\ child' = child /\ daemon' = daemon
        /\ downShut' = downShut /\ conf' = conf /\ ~ExitOnWire /\ ~daemon.exitSeen
    BY <1>2, <1>t, NotYetReported DEF HandleConnection, EpType
  <2>2. CASE down' = down
    BY <1>w, <2>1, <2>2
  <2>3. CASE Write("one") /\ ep'.pc = "dead"
    <3>1. "one" \in Codes
      BY DEF Codes
    <3>2. CASE downShut = "open"
      BY <1>t, <2>1, <2>3, <3>1, <3>2, AfterWrite
    <3>3. CASE downShut # "open"
      BY <1>w, <2>1, <3>3, <2>3, <3>1, <2>2 DEF Write
    <3> QED BY <3>2, <3>3
  <2> QED BY <1>2, <1>t, <2>2, <2>3 DEF HandleConnection, EpType
<1>3. CASE SpliceIn
  BY <1>3, <1>w DEF SpliceIn
<1>4. CASE SpliceEof
  <2>1. CASE UNCHANGED procs
    BY <1>4, <1>w, <2>1 DEF SpliceEof
  <2>2. CASE ~UNCHANGED procs
    <3>1. ep'.pc = "dead" /\ ep.pc \notin {"none", "dead", "closed"}
      BY <1>4, <1>t, <2>2 DEF SpliceEof, KillSession, EpType, Serving
    <3>2. child' \in {child, KillGroup(child)} /\ UNCHANGED <<conf, daemon, down, downShut>>
      BY <1>4 DEF SpliceEof, KillSession, Hangup
    <3> QED BY <1>x, <3>1, <3>2
  <2> QED BY <2>1, <2>2
<1>5. CASE ConnectionClosed
  BY <1>5, <1>w, <1>t, <1>k, <1>j DEF ConnectionClosed, EpType
<1>6. CASE ClientGone
  BY <1>6, <1>w DEF ClientGone
<1>8. CASE ChildReads
  BY <1>8, <1>w, <1>t DEF ChildReads, Env, EpType
<1>9. CASE ChildWrites
  <2>1. /\ child.st = "running" /\ child'.st = "running" /\ child'.code = child.code
        /\ child.tty /\ child'.tty
        /\ child'.wrote = child.wrote + 1 /\ child'.buf = child.buf + 1
        /\ UNCHANGED <<conf, daemon, down, downShut, ep, job>>
    BY <1>9, <1>t DEF ChildWrites, Env, ChildType
  <2>2. daemon.got \in Nat /\ child.buf \in Nat /\ child.wrote \in Nat /\ Outs \in Nat
    <3>1. Len(down) \in Nat /\ (down # << >> => Len(down) > 0)
      BY <1>t, QueueFacts DEF SessionTypeOK, OutFrames
    <3> QED BY <3>1, <1>t DEF DaemonType, ChildType, Outs, ExitOnWire
  <2>3. daemon.got + Outs + child.buf = child.wrote
           => daemon'.got + Outs' + child'.buf = child'.wrote
    <3>1. \A a, b, c, d \in Nat : a + b + c = d => a + b + (c + 1) = d + 1
      OBVIOUS
    <3>2. daemon' = daemon /\ Outs' = Outs
      BY <1>w, <2>1
    <3> QED BY <2>1, <2>2, <3>1, <3>2
  <2> QED BY <1>w, <2>1, <2>3
<1>10. CASE ChildForks
  BY <1>10, <1>w DEF ChildForks, Env
<1>11. CASE ChildExits
  BY <1>11, <1>w, <1>t DEF ChildExits, Env, ChildType, Codes
<1>12. CASE JobExits
  BY <1>12, <1>w DEF JobExits, Env
<1>14. CASE ChildLeavesTty
  <2>1. /\ child'.st = child.st /\ child'.code = child.code /\ child'.wrote = child.wrote
        /\ child'.buf = child.buf /\ ~child'.tty
        /\ UNCHANGED <<conf, daemon, down, downShut, ep, job>>
    BY <1>14, <1>t DEF ChildLeavesTty, Env, ChildType
  <2> QED BY <1>w, <2>1
<1>13. CASE EndpointLost
  <2>1. ep'.pc = "dead" /\ ep.pc \notin {"none", "dead", "closed"}
    BY <1>13, <1>t DEF EndpointLost, Env, EpType, Serving
  <2>2. child' \in {child, KillGroup(child)} /\ UNCHANGED <<conf, daemon, down, downShut>>
    BY <1>13 DEF EndpointLost, Env
  <2> QED BY <1>x, <2>1, <2>2
<1> QED BY <1>2, <1>3, <1>4, <1>5, <1>6, <1>8, <1>9, <1>10, <1>11, <1>12, <1>13, <1>14
        DEF Vshd, Environment

LEMMA EndpointKeepsReported == SessionInv /\ Endpoint => Reported'
<1> SUFFICES ASSUME SessionInv, Endpoint PROVE Reported'
  OBVIOUS
<1>t. /\ ep \in EpType /\ child \in ChildType /\ daemon \in DaemonType /\ SessionTypeOK /\ ExitInv
  BY DEF SessionInv, SessionTypeOK
<1>e. ChildFacts(child)
  BY <1>t, ChildUpdate
<1>w. down' = down => ExitOnWire' = ExitOnWire /\ Outs' = Outs
  BY DEF ExitOnWire, Outs
<1>k. /\ KillGroup(child).st # "running" /\ (child.st # "running" => KillGroup(child) = child)
      /\ child.st = "running" => KillGroup(child).st = "exited" /\ KillGroup(child).code \in Codes
      /\ KillGroup(child).wrote = child.wrote /\ KillGroup(child).buf = child.buf
  BY Zenon, <1>e DEF ChildFacts
<1>j. DeadJob(job) \notin {"running", "holding"}
  BY DEF DeadJob
<1>o. "out" \notin Codes /\ "one" \in Codes
  BY DEF Codes
<1> USE DEF conn, procs, SessionInv, Reported, ConnInv, EndpointInv, ExitInv, OutputInv,
            ExitFaithful, PipeGroupReaped, Over
<1>3. ASSUME NEW x \in {0, 1}, StartChild(x), ep.pc = "start",
             UNCHANGED <<conf, daemon, downShut, job>>
      PROVE  Reported'
  <2>1. child.st = "none" /\ ~ExitOnWire /\ ~daemon.exitSeen
    BY <1>3, <1>t, NotYetReported DEF EpType
  <2>2. CASE ep'.pc = "dead" /\ child' = child /\ down' = down
    BY <1>3, <1>w, <2>1, <2>2
  <2>3. CASE ep'.pc = "serve" /\ child' = [child EXCEPT !.st = "running"] /\ down' = down
    BY <1>3, <1>w, <1>t, <2>1, <2>3 DEF ChildType
  <2>4. CASE ep'.pc = "dead" /\ child' = child /\ Write("one")
    <3>2. CASE downShut = "open"
      BY <1>3, <1>t, <2>1, <2>4, <1>o, <3>2, AfterWrite
    <3>3. CASE downShut # "open"
      BY <2>2, <2>4, <3>3 DEF Write
    <3> QED BY <3>2, <3>3
  <2> QED BY <1>3, <1>t, <2>2, <2>3, <2>4 DEF StartChild, EpType
<1>4. \A f : Data(f) \in {0, 1}
  BY DEF Data
<1>5. CASE ServePTY
  BY <1>5, <1>4, <1>3 DEF ServePTY
<1>6. CASE ServePipe
  BY <1>6, <1>3 DEF ServePipe
<1>7. CASE ReadFrame
  <2>1. ep'.pc = ep.pc
    BY <1>7, <1>t DEF ReadFrame, EpType
  <2> QED BY <1>7, <1>w, <2>1 DEF ReadFrame
<1>8. CASE ReadEnds
  BY <1>8, <1>w, <1>t, <1>k DEF ReadEnds, Hangup, EpType
<1>9. CASE KillChildOnDisconnect
  BY <1>9, <1>w, <1>t, <1>k, <1>j DEF KillChildOnDisconnect, EpType
<1>10. CASE FrameOutput
  <2>1. ep.pc = "serve" /\ child.buf > 0 /\ ~ExitOnWire /\ ~daemon.exitSeen
    BY <1>10, <1>t, NotYetReported DEF FrameOutput
  <2>2. /\ child'.buf = child.buf - 1 /\ child'.st = child.st /\ child'.wrote = child.wrote
        /\ child'.code = child.code
        /\ ep'.pc = (IF downShut # "open" /\ conf.pty /\ ~Container THEN "hup" ELSE "serve")
        /\ UNCHANGED <<conf, daemon, downShut, job>>
    BY <1>10, <1>t, <2>1 DEF FrameOutput, ChildType, EpType
  <2>3. child.st # "none" /\ child.buf \in Nat /\ Outs \in Nat /\ daemon.got \in Nat
    BY <1>t, <2>1, QueueFacts DEF ChildType, DaemonType, Outs, OutFrames, SessionTypeOK
  <2>4. CASE downShut = "open"
    <3>1. ~ExitOnWire' /\ Outs' = Outs + 1
          /\ \A i \in 1 .. Len(down') : down'[i] # "out" => i = Len(down')
      BY <1>10, <1>t, <2>1, <2>4, AfterWrite DEF FrameOutput
    <3>2. daemon.got + Outs + child.buf = daemon.got + (Outs + 1) + (child.buf - 1)
      <4>1. \A a, b, c \in Nat : a + b + c = a + (b + 1) + (c - 1)
        OBVIOUS
      <4> QED BY <2>3, <4>1
    <3> QED BY <2>1, <2>2, <2>3, <2>4, <3>1, <3>2
  <2>5. CASE downShut # "open"
    <3>1. daemon.pc = "returned" /\ down' = down
      BY <1>10, <1>t, <2>1, <2>5 DEF FrameOutput, Write, SessionTypeOK
    <3> QED BY <1>w, <2>1, <2>2, <2>3, <2>5, <3>1
  <2> QED BY <2>4, <2>5
<1>11. CASE PtyDone \/ PtyExit
  BY <1>11, <1>w, <1>t DEF PtyDone, PtyExit, PtyDrained, TtyClosed, EpType
<1>12. CASE PtyHangup \/ PtyKill
  BY <1>12, <1>w, <1>t, <1>k, <1>j DEF PtyHangup, PtyKill, Hangup, EpType
<1>13. CASE PipeExit
  BY <1>13, <1>w, <1>t, <1>j DEF PipeExit, OutputClosed, EpType
<1>14. CASE SendExit
  <2>1. /\ ep.pc = "exit" /\ ~ExitOnWire /\ ~daemon.exitSeen /\ child.st = "exited"
        /\ child.code \in Codes /\ ep'.pc = "dead" /\ UNCHANGED <<conf, daemon, downShut, job, child>>
    BY <1>14, <1>t, NotYetReported DEF SendExit, EpType
  <2>2. CASE downShut = "open"
    BY <1>14, <1>t, <1>o, <2>1, <2>2, AfterWrite DEF SendExit
  <2>3. CASE downShut # "open"
    BY <1>14, <1>w, <2>1, <2>3 DEF SendExit, Write
  <2> QED BY <2>2, <2>3
<1> QED BY <1>5, <1>6, <1>7, <1>8, <1>9, <1>10, <1>11, <1>12, <1>13, <1>14 DEF Endpoint

\* The invariant of a session, for every kind of session and every bound on its
\* input, its output, its pipe and its dials: what is on the wire, in the pipes
\* and in the endpoint agrees with what the command has done.
THEOREM SessionInvariant == SessionSpec => []SessionInv
<1>1. SessionInv /\ [SessionNext]_sessionVars => SessionInv'
  <2> SUFFICES ASSUME SessionInv, [SessionNext]_sessionVars PROVE SessionInv'
    OBVIOUS
  <2>0. SessionTypeOK /\ EndpointInv
    BY DEF SessionInv
  <2>1. CASE Daemon
    BY <2>0, <2>1, DaemonTypes, DaemonKeepsReported DEF SessionInv, Reported
  <2>2. CASE Vshd \/ Environment
    BY <2>0, <2>2, VshdTypes, VshdKeepsReported DEF SessionInv, Reported
  <2>3. CASE Endpoint
    BY <2>0, <2>3, EndpointTypes, EndpointKeepsReported DEF SessionInv, Reported
  <2>4. CASE UNCHANGED sessionVars
    BY <2>4 DEF sessionVars, SessionInv, SessionTypeOK, ConnInv, EndpointInv, ExitInv, OutputInv,
                ExitFaithful, PipeGroupReaped, Over, ExitOnWire, Outs
  <2> QED BY <2>1, <2>2, <2>3, <2>4 DEF SessionNext
<1> QED BY <1>1, SessionInitInv, PTL DEF SessionSpec

\* When proxyVshdSessionGeneric has read the exit frame that servePTY or
\* servePipe sent, it has delivered everything the command wrote, and the code it
\* returns is the command's own.
THEOREM ExitsFaithful == SessionSpec => []ExitFaithful
<1>1. SessionInv => ExitFaithful
  BY DEF SessionInv
<1> QED BY <1>1, SessionInvariant, PTL

\* When servePipe reports an exit, nothing is left of the command's process
\* group, background jobs that ignored SIGHUP included.
THEOREM PipeGroupsReaped == SessionSpec => []PipeGroupReaped
<1>1. SessionInv => PipeGroupReaped
  BY DEF SessionInv
<1> QED BY <1>1, SessionInvariant, PTL

-----------------------------------------------------------------------------
(* Frames                                                                  *)

\* What no step of a request changes once it has been accepted.
Kept(n, q) ==
    /\ n.op = q.op /\ n.ref = q.ref /\ n.name = q.name /\ n.cur = q.cur /\ n.live = q.live
    /\ n.force = q.force /\ n.cmd = q.cmd /\ n.registered = q.registered

\* What most steps do not change either.
KeptToo(n, q) == Kept(n, q) /\ n.frame = q.frame /\ n.layout = q.layout
KeptReads(n, q) == n.got = q.got /\ n.copy = q.copy
KeptScan(n, q) == n.todo = q.todo /\ n.found = q.found /\ n.unread = q.unread

LEMMA FieldUpdate ==
    ASSUME NEW q \in Request
    PROVE  /\ \A l \in Pcs : [q EXCEPT !.pc = l] \in Request
           /\ \A g \in RefFile \cup {None} : [q EXCEPT !.got = g] \in Request
           /\ \A g \in RefFile \cup {None} : [q EXCEPT !.copy = g] \in Request
           /\ \A S \in SUBSET Ref : [q EXCEPT !.todo = S] \in Request
           /\ \A S \in SUBSET Ref : [q EXCEPT !.found = S] \in Request
           /\ \A S \in SUBSET Ref : [q EXCEPT !.unread = S] \in Request
           /\ \A b \in BOOLEAN : [q EXCEPT !.registered = b] \in Request
           /\ \A f \in Frame : [q EXCEPT !.frame = f] \in Request
           /\ \A l \in [Comp -> Snap \cup {None}] : [q EXCEPT !.layout = l] \in Request
<1> DEFINE RF == RefFile \cup {None}
<1> DEFINE L == [Comp -> Snap \cup {None}]
<1> DEFINE Rs == SUBSET Ref
<1> USE DEF Request
<1>1. \A l \in Pcs : [q EXCEPT !.pc = l] \in Request
  OBVIOUS
<1>2. \A g \in RF : [q EXCEPT !.got = g] \in Request
  <2> HIDE DEF RF
  <2> QED BY DEF RF
<1>3. \A g \in RefFile \cup {None} : [q EXCEPT !.copy = g] \in Request
  OBVIOUS
<1>4. \A S \in SUBSET Ref : [q EXCEPT !.todo = S] \in Request
  OBVIOUS
<1>5. \A S \in SUBSET Ref : [q EXCEPT !.found = S] \in Request
  OBVIOUS
<1>6. \A f \in Frame : [q EXCEPT !.frame = f] \in Request
  OBVIOUS
<1>7. \A l \in [Comp -> Snap \cup {None}] : [q EXCEPT !.layout = l] \in Request
  OBVIOUS
<1>8. \A S \in SUBSET Ref : [q EXCEPT !.unread = S] \in Request
  OBVIOUS
<1>9. \A b \in BOOLEAN : [q EXCEPT !.registered = b] \in Request
  OBVIOUS
<1> QED BY <1>1, <1>2, <1>3, <1>4, <1>5, <1>6, <1>7, <1>8, <1>9, Zenon

LEMMA PcsFacts ==
    Pcs = {"idle", "lookup", "stat", "write", "ensure", "get", "reread", "identity", "rename",
           "restart", "apply", "iddir", "unlink", "stop", "scrub", "list", "scan", "home", "work",
           "id", "root", "sidecar", "check", "fetch", "meta", "resolve", "go", "repair", "in"}
<1>1. /\ Steps("none") = {"idle"}
      /\ Steps("refcreate") = {"lookup", "stat", "write", "ensure"}
      /\ Steps("refmove") = {"get", "reread", "write", "identity", "rename", "restart"}
      /\ Steps("autorun") = {"get", "reread", "write", "apply"}
      /\ Steps("refdelete") = {"iddir", "get", "unlink", "stop", "scrub"}
      /\ Steps("delframe") = {"list", "scan", "home", "work", "id", "root", "sidecar"}
      /\ Steps("create") = {"check", "fetch", "root", "home", "work", "meta", "id", "stat", "write"}
      /\ Steps("enter") = {"resolve", "go", "stat", "root", "home", "work", "meta", "id", "repair", "in"}
      /\ Steps("attempt") = {"resolve", "stat", "root", "home", "work", "meta", "id", "repair", "in"}
  BY DEF Steps
<1>2. Pcs = UNION {Steps("none"), Steps("refcreate"), Steps("refmove"), Steps("autorun"),
                   Steps("refdelete"), Steps("delframe"), Steps("create"), Steps("enter"),
                   Steps("attempt")}
  BY DEF Pcs, Ops
<1> QED BY <1>1, <1>2

LEMMA IdleRequest ==
    /\ Idle \in Request
    /\ Idle.op = "none" /\ Idle.pc = "idle" /\ Idle.ref = None /\ Idle.frame = None
    /\ Idle.live = None /\ Idle.got = None /\ Idle.copy = None /\ Idle.todo = {} /\ Idle.found = {}
    /\ Idle.unread = {} /\ ~Idle.registered
<1>1. NoSnaps \in [Comp -> Snap \cup {None}]
  BY DEF NoSnaps
<1>2. Idle \in Request
  <2> DEFINE L == [Comp -> Snap \cup {None}]
             RF == RefFile \cup {None}
             Rs == SUBSET Ref
  <2>1. {} \in Rs /\ None \in RF /\ NoSnaps \in L
    BY <1>1
  <2>3. "none" \in Ops /\ "idle" \in Pcs
    BY PcsFacts DEF Ops
  <2>2. Request = [op : Ops, pc : Pcs, ref : Ref \cup {None}, frame : Frame \cup {None},
     name : Ref \cup Frame \cup {None}, cur : Frame \cup {None}, live : Frame \cup {None},
     layout : L, force : BOOLEAN, cmd : Argv \cup {None},
     got : RF, copy : RF, todo : Rs, found : Rs, unread : Rs, registered : BOOLEAN]
    BY DEF Request
  <2> HIDE DEF L, RF, Rs
  <2> QED BY <2>1, <2>2, <2>3 DEF Idle
<1> QED BY <1>2 DEF Idle

LEMMA AcceptEffect ==
    ASSUME req \in [Proc -> Request], NEW p \in Proc, NEW n \in Request, Accept(p, n)
    PROVE  /\ req' \in [Proc -> Request] /\ req'[p] = n
           /\ \A q \in Proc : q # p => req'[q] = req[q]
BY DEF Accept

LEMMA GotoEffect ==
    ASSUME req \in [Proc -> Request], NEW p \in Proc, NEW l \in Pcs, Goto(p, l)
    PROVE  /\ req' \in [Proc -> Request]
           /\ \A q \in Proc : q # p => req'[q] = req[q]
           /\ req'[p].pc = l /\ KeptToo(req'[p], req[p]) /\ KeptReads(req'[p], req[p])
           /\ KeptScan(req'[p], req[p])
<1> DEFINE n == [req[p] EXCEPT !.pc = l]
<1>1. req[p] \in Request
  OBVIOUS
<1>2. n \in Request
  BY <1>1, FieldUpdate
<1>3. Accept(p, n)
  BY DEF Goto, Accept
<1>4. n.pc = l /\ KeptToo(n, req[p]) /\ KeptReads(n, req[p]) /\ KeptScan(n, req[p])
  BY <1>1 DEF Request, Kept, KeptToo, KeptReads, KeptScan
<1> HIDE DEF n
<1> QED BY <1>2, <1>3, <1>4, AcceptEffect

LEMMA DoneEffect ==
    ASSUME req \in [Proc -> Request], NEW p \in Proc, Done(p)
    PROVE  /\ req' \in [Proc -> Request]
           /\ \A q \in Proc : q # p => req'[q] = req[q]
           /\ req'[p] = Idle
BY IdleRequest, AcceptEffect DEF Done, Accept

LEMMA GotEffect ==
    ASSUME req \in [Proc -> Request], NEW p \in Proc, NEW l \in Pcs, NEW g \in RefFile \cup {None},
           req' = [req EXCEPT ![p].pc = l, ![p].got = g]
    PROVE  /\ req' \in [Proc -> Request]
           /\ \A q \in Proc : q # p => req'[q] = req[q]
           /\ req'[p].pc = l /\ req'[p].got = g
           /\ KeptToo(req'[p], req[p]) /\ KeptScan(req'[p], req[p]) /\ req'[p].copy = req[p].copy
<1> DEFINE m == [req[p] EXCEPT !.pc = l]
           n == [m EXCEPT !.got = g]
<1>1. req[p] \in Request
  OBVIOUS
<1>2. m \in Request
  BY <1>1, FieldUpdate
<1>3. n \in Request
  <2> HIDE DEF m
  <2> QED BY <1>2, FieldUpdate
<1>4. Accept(p, n)
  BY DEF Accept
<1>5. /\ n.pc = l /\ n.got = g
      /\ KeptToo(n, req[p]) /\ KeptScan(n, req[p]) /\ n.copy = req[p].copy
  BY <1>1 DEF Request, Kept, KeptToo, KeptScan
<1> HIDE DEF n
<1> QED BY <1>3, <1>4, <1>5, AcceptEffect

LEMMA CopyEffect ==
    ASSUME req \in [Proc -> Request], NEW p \in Proc, NEW l \in Pcs, NEW g \in RefFile \cup {None},
           req' = [req EXCEPT ![p].pc = l, ![p].copy = g]
    PROVE  /\ req' \in [Proc -> Request]
           /\ \A q \in Proc : q # p => req'[q] = req[q]
           /\ req'[p].pc = l /\ req'[p].copy = g
           /\ KeptToo(req'[p], req[p]) /\ KeptScan(req'[p], req[p]) /\ req'[p].got = req[p].got
<1> DEFINE m == [req[p] EXCEPT !.pc = l]
           n == [m EXCEPT !.copy = g]
<1>1. req[p] \in Request
  OBVIOUS
<1>2. m \in Request
  BY <1>1, FieldUpdate
<1>3. n \in Request
  <2> HIDE DEF m
  <2> QED BY <1>2, FieldUpdate
<1>4. Accept(p, n)
  BY DEF Accept
<1>5. /\ n.pc = l /\ n.copy = g
      /\ KeptToo(n, req[p]) /\ KeptScan(n, req[p]) /\ n.got = req[p].got
  BY <1>1 DEF Request, Kept, KeptToo, KeptScan
<1> HIDE DEF n
<1> QED BY <1>3, <1>4, <1>5, AcceptEffect

LEMMA TodoEffect ==
    ASSUME req \in [Proc -> Request], NEW p \in Proc, NEW l \in Pcs, NEW S \in SUBSET Ref,
           req' = [req EXCEPT ![p].pc = l, ![p].todo = S]
    PROVE  /\ req' \in [Proc -> Request]
           /\ \A q \in Proc : q # p => req'[q] = req[q]
           /\ req'[p].pc = l /\ req'[p].todo = S
           /\ req'[p].found = req[p].found /\ req'[p].unread = req[p].unread
           /\ KeptToo(req'[p], req[p]) /\ KeptReads(req'[p], req[p])
<1> DEFINE m == [req[p] EXCEPT !.pc = l]
           n == [m EXCEPT !.todo = S]
<1>1. req[p] \in Request
  OBVIOUS
<1>2. m \in Request
  BY <1>1, FieldUpdate
<1>3. n \in Request
  <2> HIDE DEF m
  <2> QED BY <1>2, FieldUpdate
<1>4. Accept(p, n)
  BY DEF Accept
<1>5. /\ n.pc = l /\ n.todo = S /\ n.found = req[p].found /\ n.unread = req[p].unread
      /\ KeptToo(n, req[p]) /\ KeptReads(n, req[p])
  BY <1>1 DEF Request, Kept, KeptToo, KeptReads
<1> HIDE DEF n
<1> QED BY <1>3, <1>4, <1>5, AcceptEffect

LEMMA ScanEffect ==
    ASSUME req \in [Proc -> Request], NEW p \in Proc, NEW S \in SUBSET Ref, NEW T \in SUBSET Ref,
           req' = [req EXCEPT ![p].todo = S, ![p].found = T]
    PROVE  /\ req' \in [Proc -> Request]
           /\ \A q \in Proc : q # p => req'[q] = req[q]
           /\ req'[p].pc = req[p].pc /\ req'[p].todo = S /\ req'[p].found = T
           /\ req'[p].unread = req[p].unread
           /\ KeptToo(req'[p], req[p]) /\ KeptReads(req'[p], req[p])
<1> DEFINE m == [req[p] EXCEPT !.todo = S]
           n == [m EXCEPT !.found = T]
<1>1. req[p] \in Request
  OBVIOUS
<1>2. m \in Request
  BY <1>1, FieldUpdate
<1>3. n \in Request
  <2> HIDE DEF m
  <2> QED BY <1>2, FieldUpdate
<1>4. Accept(p, n)
  BY DEF Accept
<1>5. /\ n.pc = req[p].pc /\ n.todo = S /\ n.found = T /\ n.unread = req[p].unread
      /\ KeptToo(n, req[p]) /\ KeptReads(n, req[p])
  BY <1>1 DEF Request, Kept, KeptToo, KeptReads
<1> HIDE DEF n
<1> QED BY <1>3, <1>4, <1>5, AcceptEffect

LEMMA UnreadEffect ==
    ASSUME req \in [Proc -> Request], NEW p \in Proc, NEW T \in SUBSET Ref,
           req' = [req EXCEPT ![p].pc = "scan", ![p].unread = T]
    PROVE  /\ req' \in [Proc -> Request]
           /\ \A q \in Proc : q # p => req'[q] = req[q]
           /\ req'[p].pc = "scan" /\ req'[p].unread = T
           /\ req'[p].todo = req[p].todo /\ req'[p].found = req[p].found
           /\ KeptToo(req'[p], req[p]) /\ KeptReads(req'[p], req[p])
<1> DEFINE m == [req[p] EXCEPT !.pc = "scan"]
           n == [m EXCEPT !.unread = T]
<1>1. req[p] \in Request /\ "scan" \in Pcs
  BY PcsFacts
<1>2. m \in Request
  BY <1>1, FieldUpdate
<1>3. n \in Request
  <2> HIDE DEF m
  <2> QED BY <1>2, FieldUpdate
<1>4. Accept(p, n)
  BY DEF Accept
<1>5. /\ n.pc = "scan" /\ n.unread = T /\ n.todo = req[p].todo /\ n.found = req[p].found
      /\ KeptToo(n, req[p]) /\ KeptReads(n, req[p])
  BY <1>1 DEF Request, Kept, KeptToo, KeptReads
<1> HIDE DEF n
<1> QED BY <1>3, <1>4, <1>5, AcceptEffect

LEMMA SkipEffect ==
    ASSUME req \in [Proc -> Request], NEW p \in Proc, NEW S \in SUBSET Ref, NEW T \in SUBSET Ref,
           req' = [req EXCEPT ![p].todo = S, ![p].unread = T]
    PROVE  /\ req' \in [Proc -> Request]
           /\ \A q \in Proc : q # p => req'[q] = req[q]
           /\ req'[p].pc = req[p].pc /\ req'[p].todo = S /\ req'[p].unread = T
           /\ req'[p].found = req[p].found
           /\ KeptToo(req'[p], req[p]) /\ KeptReads(req'[p], req[p])
<1> DEFINE m == [req[p] EXCEPT !.todo = S]
           n == [m EXCEPT !.unread = T]
<1>1. req[p] \in Request
  OBVIOUS
<1>2. m \in Request
  BY <1>1, FieldUpdate
<1>3. n \in Request
  <2> HIDE DEF m
  <2> QED BY <1>2, FieldUpdate
<1>4. Accept(p, n)
  BY DEF Accept
<1>5. /\ n.pc = req[p].pc /\ n.todo = S /\ n.unread = T /\ n.found = req[p].found
      /\ KeptToo(n, req[p]) /\ KeptReads(n, req[p])
  BY <1>1 DEF Request, Kept, KeptToo, KeptReads
<1> HIDE DEF n
<1> QED BY <1>3, <1>4, <1>5, AcceptEffect

LEMMA FrameEffect ==
    ASSUME req \in [Proc -> Request], NEW p \in Proc, NEW l \in Pcs, NEW f \in Frame,
           req' = [req EXCEPT ![p].pc = l, ![p].frame = f]
    PROVE  /\ req' \in [Proc -> Request]
           /\ \A q \in Proc : q # p => req'[q] = req[q]
           /\ req'[p].pc = l /\ req'[p].frame = f /\ req'[p].layout = req[p].layout
           /\ Kept(req'[p], req[p]) /\ KeptReads(req'[p], req[p]) /\ KeptScan(req'[p], req[p])
<1> DEFINE m == [req[p] EXCEPT !.pc = l]
           n == [m EXCEPT !.frame = f]
<1>1. req[p] \in Request
  OBVIOUS
<1>2. m \in Request
  BY <1>1, FieldUpdate
<1>3. n \in Request
  <2> HIDE DEF m
  <2> QED BY <1>2, FieldUpdate
<1>4. Accept(p, n)
  BY DEF Accept
<1>5. /\ n.pc = l /\ n.frame = f /\ n.layout = req[p].layout
      /\ Kept(n, req[p]) /\ KeptReads(n, req[p]) /\ KeptScan(n, req[p])
  BY <1>1 DEF Request, Kept, KeptReads, KeptScan
<1> HIDE DEF n
<1> QED BY <1>3, <1>4, <1>5, AcceptEffect

LEMMA LayoutEffect ==
    ASSUME req \in [Proc -> Request], NEW p \in Proc, NEW l \in Pcs,
           NEW y \in [Comp -> Snap \cup {None}],
           req' = [req EXCEPT ![p].pc = l, ![p].layout = y]
    PROVE  /\ req' \in [Proc -> Request]
           /\ \A q \in Proc : q # p => req'[q] = req[q]
           /\ req'[p].pc = l /\ req'[p].frame = req[p].frame
           /\ Kept(req'[p], req[p]) /\ KeptReads(req'[p], req[p]) /\ KeptScan(req'[p], req[p])
<1> DEFINE m == [req[p] EXCEPT !.pc = l]
           n == [m EXCEPT !.layout = y]
<1>1. req[p] \in Request
  OBVIOUS
<1>2. m \in Request
  BY <1>1, FieldUpdate
<1>3. n \in Request
  <2> HIDE DEF m
  <2> QED BY <1>2, FieldUpdate
<1>4. Accept(p, n)
  BY DEF Accept
<1>5. /\ n.pc = l /\ n.frame = req[p].frame
      /\ Kept(n, req[p]) /\ KeptReads(n, req[p]) /\ KeptScan(n, req[p])
  BY <1>1 DEF Request, Kept, KeptReads, KeptScan
<1> HIDE DEF n
<1> QED BY <1>3, <1>4, <1>5, AcceptEffect

LEMMA RefFiles ==
    /\ None \notin RefFile
    /\ \A f \in Frame : /\ NewRef(f) \in RefFile /\ NewRef(f).uuid = f /\ NewRef(f).autorun = None
    /\ \A g \in RefFile, f \in Frame :
          Moved(g, f) \in RefFile /\ Moved(g, f).uuid = f /\ Moved(g, f).autorun = g.autorun
    /\ \A g \in RefFile, b \in Argv \cup {None} :
          SetAutorun(g, b) \in RefFile /\ SetAutorun(g, b).uuid = g.uuid /\ SetAutorun(g, b).autorun = b
    /\ \A g \in RefFile : g.uuid \in Frame /\ g.autorun \in Argv \cup {None}
<1>1. None \notin RefFile
  BY FramesAssumption
<1>2. \A f \in Frame : <<f>> \in Seq(Frame)
  OBVIOUS
<1>3. \A f \in Frame, s \in Seq(Frame) : <<f>> \o s \in Seq(Frame)
  OBVIOUS
<1>4. ASSUME NEW f \in Frame PROVE NewRef(f) \in RefFile /\ NewRef(f).uuid = f /\ NewRef(f).autorun = None
  <2> DEFINE S == Seq(Frame)
  <2>1. RefFile = [uuid : Frame, autorun : Argv \cup {None}, reflog : S] /\ <<f>> \in S
    BY <1>2 DEF RefFile
  <2> HIDE DEF S
  <2> QED BY <2>1 DEF NewRef
<1>5. ASSUME NEW g \in RefFile, NEW f \in Frame
      PROVE  Moved(g, f) \in RefFile /\ Moved(g, f).uuid = f /\ Moved(g, f).autorun = g.autorun
  <2> DEFINE S == Seq(Frame)
  <2>1. RefFile = [uuid : Frame, autorun : Argv \cup {None}, reflog : S]
    BY DEF RefFile
  <2>2. g.reflog \in S
    BY <2>1
  <2>3. PICK y \in S : y = <<f>> \o g.reflog
    BY <2>2, <1>3
  <2>4. Moved(g, f) = [g EXCEPT !.uuid = f, !.reflog = y]
    BY <2>3 DEF Moved
  <2> HIDE DEF S
  <2>5. [g EXCEPT !.uuid = f] \in RefFile
    BY <2>1
  <2>6. \A h \in RefFile : [h EXCEPT !.reflog = y] \in RefFile
    BY <2>1
  <2>7. Moved(g, f) \in RefFile
    BY <2>4, <2>5, <2>6, Zenon
  <2> QED BY <2>1, <2>4, <2>7
<1>6. ASSUME NEW g \in RefFile, NEW b \in Argv \cup {None}
      PROVE  SetAutorun(g, b) \in RefFile /\ SetAutorun(g, b).uuid = g.uuid /\ SetAutorun(g, b).autorun = b
  <2> DEFINE S == Seq(Frame)
  <2>1. RefFile = [uuid : Frame, autorun : Argv \cup {None}, reflog : S]
    BY DEF RefFile
  <2> HIDE DEF S
  <2> QED BY <2>1 DEF SetAutorun
<1>7. \A g \in RefFile : g.uuid \in Frame /\ g.autorun \in Argv \cup {None}
  BY DEF RefFile
<1> QED BY <1>1, <1>4, <1>5, <1>6, <1>7

LEMMA MovedFile ==
    \A g \in RefFile, f \in Frame :
       Moved(g, f) \in RefFile /\ Moved(g, f).uuid = f /\ Moved(g, f).autorun = g.autorun
BY RefFiles

LEMMA SetFile ==
    \A g \in RefFile, b \in Argv \cup {None} :
       SetAutorun(g, b) \in RefFile /\ SetAutorun(g, b).uuid = g.uuid /\ SetAutorun(g, b).autorun = b
BY RefFiles

\* The field types of a request.
LEMMA RequestFields ==
    ASSUME NEW q \in Request
    PROVE  /\ q.op \in Ops /\ q.pc \in Pcs /\ q.ref \in Ref \cup {None} /\ q.frame \in Frame \cup {None}
           /\ q.name \in Ref \cup Frame \cup {None} /\ q.live \in Frame \cup {None}
           /\ q.layout \in [Comp -> Snap \cup {None}] /\ q.force \in BOOLEAN /\ q.cmd \in Argv \cup {None}
           /\ q.got \in RefFile \cup {None} /\ q.copy \in RefFile \cup {None}
           /\ q.todo \in SUBSET Ref /\ q.found \in SUBSET Ref /\ q.unread \in SUBSET Ref
           /\ q.registered \in BOOLEAN
BY DEF Request

\* A step of p leaves the other requests alone, and takes its own to a state it
\* can be in.
StepOf(p) ==
    /\ req' \in [Proc -> Request] /\ ReqOK(req'[p])
    /\ \A q \in Proc : q # p => req'[q] = req[q]

LEMMA IdleOK == ReqOK(Idle)
BY IdleRequest DEF ReqOK, Steps

LEMMA CommandFields ==
    ASSUME NEW q \in Request
    PROVE  /\ \A o \in Ops : [q EXCEPT !.op = o] \in Request
           /\ \A l \in Pcs : [q EXCEPT !.pc = l] \in Request
           /\ \A r \in Ref \cup {None} : [q EXCEPT !.ref = r] \in Request
           /\ \A f \in Frame : /\ [q EXCEPT !.frame = f] \in Request
                               /\ [q EXCEPT !.cur = f] \in Request
                               /\ [q EXCEPT !.live = f] \in Request
           /\ \A n \in Ref \cup Frame \cup {None} : [q EXCEPT !.name = n] \in Request
           /\ \A b \in BOOLEAN : [q EXCEPT !.force = b] \in Request /\ [q EXCEPT !.registered = b] \in Request
           /\ \A b \in Argv \cup {None} : [q EXCEPT !.cmd = b] \in Request
           /\ \A l \in [Comp -> Snap \cup {None}] : [q EXCEPT !.layout = l] \in Request
<1> USE DEF Request
<1>1. \A o \in Ops : [q EXCEPT !.op = o] \in Request
  OBVIOUS
<1>2. \A r \in Ref \cup {None} : [q EXCEPT !.ref = r] \in Request
  OBVIOUS
<1>3. \A f \in Frame : [q EXCEPT !.cur = f] \in Request
  OBVIOUS
<1>4. \A f \in Frame : [q EXCEPT !.live = f] \in Request
  OBVIOUS
<1>5. \A n \in Ref \cup Frame \cup {None} : [q EXCEPT !.name = n] \in Request
  OBVIOUS
<1>6. \A b \in BOOLEAN : [q EXCEPT !.force = b] \in Request /\ [q EXCEPT !.registered = b] \in Request
  OBVIOUS
<1>7. \A b \in Argv \cup {None} : [q EXCEPT !.cmd = b] \in Request
  OBVIOUS
<1> HIDE DEF Request
<1> QED BY <1>1, <1>2, <1>3, <1>4, <1>5, <1>6, <1>7, FieldUpdate, Zenon

\* Every command is a request at the first step of its handler.
FirstStep(c) ==
    /\ c \in Request /\ ReqOK(c) /\ c.got = None /\ c.copy = None /\ c.frame \in issued \cup {None}
    /\ c.pc \in {"lookup", "get", "iddir", "list", "check", "resolve", "go"} /\ c.op # "attempt"
    /\ c.op \in {"refmove", "autorun"} => c.pc = "get"
    /\ c.op = "refdelete" => c.pc = "iddir"

LEMMA CommandRequest ==
    ASSUME StateTypeOK, NEW p \in Proc, Start(p)
    PROVE  \E c : FirstStep(c) /\ Accept(p, c)
<1>p. {"lookup", "get", "iddir", "list", "check", "resolve", "go"} \subseteq Pcs
  BY PcsFacts
<1>o. {"refcreate", "refmove", "autorun", "refdelete", "delframe", "create", "enter"} \subseteq Ops
  BY DEF Ops
<1>s. issued \subseteq Frame /\ Layouts \subseteq [Comp -> Snap \cup {None}]
  BY FramesAssumption DEF StateTypeOK
<1>i. Idle \in Request /\ Idle.frame = None /\ Idle.got = None /\ Idle.copy = None
      /\ Idle.live = None /\ Idle.ref = None
  BY IdleRequest
<1>1. ASSUME NEW r \in Ref, NEW f \in issued PROVE FirstStep(RefCreateCommand(r, f))
  <2> DEFINE c == RefCreateCommand(r, f)
  <2>2. [Idle EXCEPT !.op = "refcreate"] \in Request
    BY <1>i, <1>o, CommandFields
  <2>3. [Idle EXCEPT !.op = "refcreate", !.pc = "lookup"] \in Request
    BY <2>2, <1>p, CommandFields, Zenon
  <2>4. r \in Ref \cup {None}
    BY <1>s
  <2>5. [Idle EXCEPT !.op = "refcreate", !.pc = "lookup", !.ref = r] \in Request
    BY <2>3, <2>4, CommandFields, Zenon
  <2>6. f \in Frame
    BY <1>s
  <2>7. [Idle EXCEPT !.op = "refcreate", !.pc = "lookup", !.ref = r, !.frame = f] \in Request
    BY <2>5, <2>6, CommandFields, Zenon
  <2>8. /\ c.op = "refcreate" /\ c.pc = "lookup" /\ c.ref = r /\ c.frame = f
        /\ c.got = None /\ c.copy = None /\ c.live = None
    BY <1>i DEF Request, RefCreateCommand
  <2>9. c \in Request
    BY <2>7 DEF RefCreateCommand
  <2> HIDE DEF c
  <2>10. FirstStep(c)
    BY <2>8, <2>9, <1>s DEF FirstStep, ReqOK, Steps
  <2> QED BY <2>10 DEF c
<1>2. ASSUME NEW r \in Ref, NEW f \in issued PROVE FirstStep(RefMoveCommand(r, f))
  <2> DEFINE c == RefMoveCommand(r, f)
  <2>2. [Idle EXCEPT !.op = "refmove"] \in Request
    BY <1>i, <1>o, CommandFields
  <2>3. [Idle EXCEPT !.op = "refmove", !.pc = "get"] \in Request
    BY <2>2, <1>p, CommandFields, Zenon
  <2>4. r \in Ref \cup {None}
    BY <1>s
  <2>5. [Idle EXCEPT !.op = "refmove", !.pc = "get", !.ref = r] \in Request
    BY <2>3, <2>4, CommandFields, Zenon
  <2>6. f \in Frame
    BY <1>s
  <2>7. [Idle EXCEPT !.op = "refmove", !.pc = "get", !.ref = r, !.frame = f] \in Request
    BY <2>5, <2>6, CommandFields, Zenon
  <2>8. /\ c.op = "refmove" /\ c.pc = "get" /\ c.ref = r /\ c.frame = f
        /\ c.got = None /\ c.copy = None /\ c.live = None
    BY <1>i DEF Request, RefMoveCommand
  <2>9. c \in Request
    BY <2>7 DEF RefMoveCommand
  <2> HIDE DEF c
  <2>10. FirstStep(c)
    BY <2>8, <2>9, <1>s DEF FirstStep, ReqOK, Steps
  <2> QED BY <2>10 DEF c
<1>3. ASSUME NEW r \in Ref, NEW b \in BOOLEAN PROVE FirstStep(RefDeleteCommand(r, b))
  <2> DEFINE c == RefDeleteCommand(r, b)
  <2>2. [Idle EXCEPT !.op = "refdelete"] \in Request
    BY <1>i, <1>o, CommandFields
  <2>3. [Idle EXCEPT !.op = "refdelete", !.pc = "iddir"] \in Request
    BY <2>2, <1>p, CommandFields, Zenon
  <2>4. r \in Ref \cup {None}
    BY <1>s
  <2>5. [Idle EXCEPT !.op = "refdelete", !.pc = "iddir", !.ref = r] \in Request
    BY <2>3, <2>4, CommandFields, Zenon
  <2>6. b \in BOOLEAN
    BY <1>s
  <2>7. [Idle EXCEPT !.op = "refdelete", !.pc = "iddir", !.ref = r, !.force = b] \in Request
    BY <2>5, <2>6, CommandFields, Zenon
  <2>8. /\ c.op = "refdelete" /\ c.pc = "iddir" /\ c.ref = r /\ c.force = b
        /\ c.got = None /\ c.copy = None /\ c.live = None /\ c.frame = None
    BY <1>i DEF Request, RefDeleteCommand
  <2>9. c \in Request
    BY <2>7 DEF RefDeleteCommand
  <2> HIDE DEF c
  <2>10. FirstStep(c)
    BY <2>8, <2>9, <1>s DEF FirstStep, ReqOK, Steps
  <2> QED BY <2>10 DEF c
<1>4. ASSUME NEW r \in Ref, NEW b \in Argv \cup {None} PROVE FirstStep(AutorunCommand(r, b))
  <2> DEFINE c == AutorunCommand(r, b)
  <2>2. [Idle EXCEPT !.op = "autorun"] \in Request
    BY <1>i, <1>o, CommandFields
  <2>3. [Idle EXCEPT !.op = "autorun", !.pc = "get"] \in Request
    BY <2>2, <1>p, CommandFields, Zenon
  <2>4. r \in Ref \cup {None}
    BY <1>s
  <2>5. [Idle EXCEPT !.op = "autorun", !.pc = "get", !.ref = r] \in Request
    BY <2>3, <2>4, CommandFields, Zenon
  <2>6. b \in Argv \cup {None}
    BY <1>4
  <2>7. [Idle EXCEPT !.op = "autorun", !.pc = "get", !.ref = r, !.cmd = b] \in Request
    BY <2>5, <2>6, CommandFields, Zenon
  <2>8. /\ c.op = "autorun" /\ c.pc = "get" /\ c.ref = r /\ c.cmd = b
        /\ c.got = None /\ c.copy = None /\ c.live = None /\ c.frame = None
    BY <1>i DEF Request, AutorunCommand
  <2>9. c \in Request
    BY <2>7 DEF AutorunCommand
  <2> HIDE DEF c
  <2>10. FirstStep(c)
    BY <2>8, <2>9, <1>s DEF FirstStep, ReqOK, Steps
  <2> QED BY <2>10 DEF c
<1>5. ASSUME NEW f \in issued, NEW g \in issued PROVE FirstStep(DeleteCommand(f, g))
  <2> DEFINE c == DeleteCommand(f, g)
  <2>2. [Idle EXCEPT !.op = "delframe"] \in Request
    BY <1>i, <1>o, CommandFields
  <2>3. [Idle EXCEPT !.op = "delframe", !.pc = "list"] \in Request
    BY <2>2, <1>p, CommandFields, Zenon
  <2>4. f \in Frame
    BY <1>s
  <2>5. [Idle EXCEPT !.op = "delframe", !.pc = "list", !.frame = f] \in Request
    BY <2>3, <2>4, CommandFields, Zenon
  <2>6. g \in Frame
    BY <1>s
  <2>7. [Idle EXCEPT !.op = "delframe", !.pc = "list", !.frame = f, !.cur = g] \in Request
    BY <2>5, <2>6, CommandFields, Zenon
  <2>8. /\ c.op = "delframe" /\ c.pc = "list" /\ c.frame = f /\ c.cur = g
        /\ c.got = None /\ c.copy = None /\ c.live = None
    BY <1>i DEF Request, DeleteCommand
  <2>9. c \in Request
    BY <2>7 DEF DeleteCommand
  <2> HIDE DEF c
  <2>10. FirstStep(c)
    BY <2>8, <2>9, <1>s DEF FirstStep, ReqOK, Steps
  <2> QED BY <2>10 DEF c
<1>6. ASSUME NEW r \in Ref \cup {None}, NEW l \in Layouts PROVE FirstStep(CreateCommand(r, l))
  <2> DEFINE c == CreateCommand(r, l)
  <2>2. [Idle EXCEPT !.op = "create"] \in Request
    BY <1>i, <1>o, CommandFields
  <2>3. [Idle EXCEPT !.op = "create", !.pc = "check"] \in Request
    BY <2>2, <1>p, CommandFields, Zenon
  <2>4. r \in Ref \cup {None}
    BY <1>s
  <2>5. [Idle EXCEPT !.op = "create", !.pc = "check", !.ref = r] \in Request
    BY <2>3, <2>4, CommandFields, Zenon
  <2>6. l \in [Comp -> Snap \cup {None}]
    BY <1>s
  <2>7. [Idle EXCEPT !.op = "create", !.pc = "check", !.ref = r, !.layout = l] \in Request
    BY <2>5, <2>6, CommandFields, Zenon
  <2>8. /\ c.op = "create" /\ c.pc = "check" /\ c.ref = r /\ c.layout = l
        /\ c.got = None /\ c.copy = None /\ c.live = None /\ c.frame = None
    BY <1>i DEF Request, CreateCommand
  <2>9. c \in Request
    BY <2>7 DEF CreateCommand
  <2> HIDE DEF c
  <2>10. FirstStep(c)
    BY <2>8, <2>9, <1>s DEF FirstStep, ReqOK, Steps
  <2> QED BY <2>10 DEF c
<1>7. ASSUME NEW n \in Ref \cup issued \cup {None} PROVE FirstStep(LoginCommand(n))
  <2> DEFINE c == LoginCommand(n)
  <2>2. [Idle EXCEPT !.op = "enter"] \in Request
    BY <1>i, <1>o, CommandFields
  <2>3. [Idle EXCEPT !.op = "enter", !.pc = "resolve"] \in Request
    BY <2>2, <1>p, CommandFields, Zenon
  <2>4. n \in Ref \cup Frame \cup {None}
    BY <1>s
  <2>5. [Idle EXCEPT !.op = "enter", !.pc = "resolve", !.name = n] \in Request
    BY <2>3, <2>4, CommandFields, Zenon
  <2>6. /\ c.op = "enter" /\ c.pc = "resolve" /\ c.name = n
        /\ c.got = None /\ c.copy = None /\ c.live = None /\ c.frame = None
    BY <1>i DEF Request, LoginCommand
  <2>7. c \in Request
    BY <2>5 DEF LoginCommand
  <2> HIDE DEF c
  <2>10. FirstStep(c)
    BY <2>6, <2>7, <1>s DEF FirstStep, ReqOK, Steps
  <2> QED BY <2>10 DEF c
<1>8. ASSUME NEW n \in Ref \cup issued PROVE FirstStep(GoCommand(n))
  <2> DEFINE c == GoCommand(n)
  <2>2. [Idle EXCEPT !.op = "enter"] \in Request
    BY <1>i, <1>o, CommandFields
  <2>3. [Idle EXCEPT !.op = "enter", !.pc = "go"] \in Request
    BY <2>2, <1>p, CommandFields, Zenon
  <2>4. n \in Ref \cup Frame \cup {None}
    BY <1>s
  <2>5. [Idle EXCEPT !.op = "enter", !.pc = "go", !.name = n] \in Request
    BY <2>3, <2>4, CommandFields, Zenon
  <2>6. /\ c.op = "enter" /\ c.pc = "go" /\ c.name = n
        /\ c.got = None /\ c.copy = None /\ c.live = None /\ c.frame = None
    BY <1>i DEF Request, GoCommand
  <2>7. c \in Request
    BY <2>5 DEF GoCommand
  <2> HIDE DEF c
  <2>10. FirstStep(c)
    BY <2>6, <2>7, <1>s DEF FirstStep, ReqOK, Steps
  <2> QED BY <2>10 DEF c
<1>9. ASSUME NEW f \in FrameList PROVE FirstStep(CloneCommand(f))
  <2> DEFINE c == CloneCommand(f)
  <2>2. [Idle EXCEPT !.op = "create"] \in Request
    BY <1>i, <1>o, CommandFields
  <2>3. [Idle EXCEPT !.op = "create", !.pc = "check"] \in Request
    BY <2>2, <1>p, CommandFields, Zenon
  <2>4. PICK l \in [Comp -> Snap \cup {None}] : l = meta[f].snap
    BY DEF FrameList, StateTypeOK, Sidecar
  <2>5. [Idle EXCEPT !.op = "create", !.pc = "check", !.layout = l] \in Request
    BY <2>3, <2>4, CommandFields, Zenon
  <2>6. f \in Frame
    BY DEF FrameList
  <2>7. [Idle EXCEPT !.op = "create", !.pc = "check", !.layout = l, !.live = f] \in Request
    BY <2>5, <2>6, CommandFields, Zenon
  <2>8. c = [Idle EXCEPT !.op = "create", !.pc = "check", !.layout = l, !.live = f]
    BY <2>4 DEF CloneCommand
  <2>9. c.op = "create" /\ c.pc = "check" /\ c.got = None /\ c.copy = None /\ c.frame = None
    BY <1>i, <2>8 DEF Request
  <2> HIDE DEF c
  <2>10. FirstStep(c)
    BY <2>7, <2>8, <2>9 DEF FirstStep, ReqOK, Steps
  <2> QED BY <2>10 DEF c
<1> QED BY <1>1, <1>2, <1>3, <1>4, <1>5, <1>6, <1>7, <1>8, <1>9, Zenon DEF Start

LEMMA StartRequest ==
    ASSUME StateTypeOK, NEW p \in Proc, Start(p)
    PROVE  StepOf(p) /\ req[p] = Idle /\ FirstStep(req'[p])
<1>1. PICK c : FirstStep(c) /\ Accept(p, c)
  BY CommandRequest, Zenon
<1>2. c \in Request /\ ReqOK(c)
  BY <1>1 DEF FirstStep
<1> QED BY <1>1, <1>2, AcceptEffect DEF Start, StateTypeOK, StepOf

\* The supervisor's request, which no client sends.
AttemptBegun(c, r) ==
    /\ c \in Request /\ ReqOK(c) /\ AttemptOf(c, r) /\ c.pc = "resolve"
    /\ c.got = None /\ c.copy = None /\ c.frame = None

LEMMA AttemptRequest ==
    ASSUME StateTypeOK, NEW p \in Proc, Attempt(p)
    PROVE  /\ StepOf(p) /\ req[p] = Idle
           /\ \E r \in Ref : /\ run[r] # None /\ run[r].at = None /\ ~Attempting(r)
                              /\ AttemptBegun(req'[p], r)
<1>1. PICK r \in Ref :
          /\ run[r] # None /\ run[r].at = None /\ ~Attempting(r)
          /\ Accept(p, [Idle EXCEPT !.op = "attempt", !.pc = "resolve", !.ref = r, !.name = r,
                                    !.registered = TRUE])
  BY Zenon DEF Attempt
<1> DEFINE c == [Idle EXCEPT !.op = "attempt", !.pc = "resolve", !.ref = r, !.name = r,
                             !.registered = TRUE]
<1>i. Idle \in Request /\ Idle.frame = None /\ Idle.got = None /\ Idle.copy = None
      /\ Idle.live = None
  BY IdleRequest
<1>p. "resolve" \in Pcs /\ "attempt" \in Ops /\ r \in Ref \cup {None} /\ r \in Ref \cup Frame \cup {None}
  BY PcsFacts DEF Ops
<1>2. [Idle EXCEPT !.op = "attempt"] \in Request
  BY <1>i, <1>p, CommandFields
<1>3. [Idle EXCEPT !.op = "attempt", !.pc = "resolve"] \in Request
  BY <1>2, <1>p, CommandFields, Zenon
<1>4. [Idle EXCEPT !.op = "attempt", !.pc = "resolve", !.ref = r] \in Request
  BY <1>3, <1>p, CommandFields, Zenon
<1>a. [Idle EXCEPT !.op = "attempt", !.pc = "resolve", !.ref = r, !.name = r] \in Request
  BY <1>4, <1>p, CommandFields, Zenon
<1>5. c \in Request
  BY <1>a, CommandFields, Zenon
<1>6. /\ c.op = "attempt" /\ c.pc = "resolve" /\ c.ref = r /\ c.name = r /\ c.registered
      /\ c.got = None /\ c.copy = None /\ c.frame = None /\ c.live = None
  BY <1>i DEF Request
<1> HIDE DEF c
<1>7. AttemptBegun(c, r)
  BY <1>5, <1>6 DEF AttemptBegun, AttemptOf, ReqOK, Steps
<1>8. Accept(p, c)
  BY <1>1 DEF c
<1>9. StepOf(p) /\ req'[p] = c
  BY <1>7, <1>8, AcceptEffect DEF StateTypeOK, StepOf, AttemptBegun
<1> QED BY <1>1, <1>7, <1>9 DEF Attempt

\* /autorun's last step, unless it replaces a process that is starting.
AutorunApply(p) == AutorunStart(p) \/ AutorunStop(p)

\* A step of p leaves the other requests as they are.
Others(p) == req' \in [Proc -> Request] /\ \A q \in Proc : q # p => req'[q] = req[q]

LEMMA RefGetStep ==
    ASSUME StateTypeOK, RequestInv, NEW p \in Proc, RefGet(p)
    PROVE  \/ refs[req[p].ref] = None /\ Done(p)
           \/ /\ Others(p) /\ req[p].ref \in Ref /\ refs[req[p].ref] \in RefFile
              /\ req'[p].pc = "reread" /\ req'[p].got = refs[req[p].ref]
              /\ req'[p].copy = req[p].copy /\ KeptToo(req'[p], req[p])
<1>t. req \in [Proc -> Request] /\ req[p] \in Request /\ ReqOK(req[p])
  BY DEF StateTypeOK, RequestInv
<1>1. CASE refs[req[p].ref] = None
  BY <1>1 DEF RefGet
<1>2. CASE refs[req[p].ref] # None
  <2>1. PICK g \in RefFile \cup {None} : g = refs[req[p].ref] /\ g \in RefFile /\ req[p].ref \in Ref
    BY <1>2, <1>t DEF RefGet, StateTypeOK, ReqOK
  <2>2. req' = [req EXCEPT ![p].pc = "reread", ![p].got = g]
    BY <1>2, <2>1 DEF RefGet
  <2>3. "reread" \in Pcs
    BY PcsFacts
  <2>4. Others(p) /\ req'[p].pc = "reread" /\ KeptToo(req'[p], req[p]) /\ req'[p].copy = req[p].copy
    BY Zenon, <2>2, <2>3, <1>t, GotEffect DEF Others
  <2>5. req'[p].got = g
    BY <2>2, <1>t DEF Request
  <2> QED BY <2>1, <2>4, <2>5
<1> QED BY <1>1, <1>2

LEMMA RefRereadStep ==
    ASSUME StateTypeOK, RequestInv, NEW p \in Proc, RefReread(p)
    PROVE  \/ refs[req[p].ref] = None /\ Done(p)
           \/ /\ Others(p) /\ req[p].ref \in Ref /\ refs[req[p].ref] \in RefFile
              /\ req'[p].pc = "write" /\ req'[p].got = req[p].got /\ req'[p].copy \in RefFile
              /\ req'[p].copy = IF req[p].op = "refmove" THEN Moved(refs[req[p].ref], req[p].frame)
                                ELSE SetAutorun(refs[req[p].ref], req[p].cmd)
              /\ KeptToo(req'[p], req[p])
<1>t. req \in [Proc -> Request] /\ req[p] \in Request /\ ReqOK(req[p])
  BY DEF StateTypeOK, RequestInv
<1>1. CASE refs[req[p].ref] = None
  BY <1>1 DEF RefReread
<1>2. CASE refs[req[p].ref] # None
  <2>1. PICK g : g = refs[req[p].ref]
    OBVIOUS
  <2>2. /\ req[p].ref \in Ref /\ g \in RefFile /\ req[p].cmd \in Argv \cup {None}
        /\ req[p].op = "refmove" => req[p].frame \in Frame
    BY <1>2, <2>1, <1>t, RequestFields DEF RefReread, StateTypeOK, ReqOK
  <2>3. PICK c \in RefFile : c = IF req[p].op = "refmove" THEN Moved(g, req[p].frame)
                                  ELSE SetAutorun(g, req[p].cmd)
    BY <2>2, RefFiles
  <2>4. req' = [req EXCEPT ![p].pc = "write", ![p].copy = c]
    BY <1>2, <2>1, <2>3 DEF RefReread
  <2>5. "write" \in Pcs /\ c \in RefFile \cup {None}
    BY PcsFacts
  <2>6. Others(p) /\ req'[p].pc = "write" /\ req'[p].got = req[p].got /\ KeptToo(req'[p], req[p])
    BY Zenon, <2>4, <2>5, <1>t, CopyEffect DEF Others
  <2>7. req'[p].copy = c
    BY <2>4, <1>t DEF Request
  <2> QED BY <2>1, <2>2, <2>3, <2>6, <2>7
<1> QED BY <1>1, <1>2

LEMMA RefDeleteGetStep ==
    ASSUME StateTypeOK, RequestInv, NEW p \in Proc, RefDeleteGet(p)
    PROVE  /\ Others(p) /\ req[p].ref \in Ref /\ refs[req[p].ref] \in RefFile \cup {None}
           /\ req'[p].pc = "unlink" /\ req'[p].got \in {refs[req[p].ref], None}
           /\ req'[p].copy = req[p].copy /\ KeptToo(req'[p], req[p])
<1>t. req \in [Proc -> Request] /\ req[p] \in Request /\ ReqOK(req[p])
  BY DEF StateTypeOK, RequestInv
<1>0. req[p].ref \in Ref /\ refs[req[p].ref] \in RefFile \cup {None}
  BY <1>t DEF RefDeleteGet, StateTypeOK, ReqOK, At
<1>1. PICK g \in {refs[req[p].ref], None} : req' = [req EXCEPT ![p].pc = "unlink", ![p].got = g]
  BY Zenon DEF RefDeleteGet
<1>2. g \in RefFile \cup {None}
  BY <1>0
<1>3. "unlink" \in Pcs
  BY PcsFacts
<1>4. Others(p) /\ req'[p].pc = "unlink" /\ KeptToo(req'[p], req[p]) /\ req'[p].copy = req[p].copy
  BY Zenon, <1>1, <1>2, <1>3, <1>t, GotEffect DEF Others
<1>5. req'[p].got = g
  BY <1>1, <1>t DEF Request
<1> QED BY <1>0, <1>1, <1>4, <1>5

LEMMA DeleteListStep ==
    ASSUME StateTypeOK, RequestInv, NEW p \in Proc, DeleteList(p)
    PROVE  /\ Others(p) /\ req'[p].pc = "scan"
           /\ req'[p].todo = RefNames \/ req'[p].unread = Ref
           /\ KeptToo(req'[p], req[p]) /\ KeptReads(req'[p], req[p])
<1>t. req \in [Proc -> Request] /\ req[p] \in Request /\ ReqOK(req[p])
  BY DEF StateTypeOK, RequestInv
<1>3. "scan" \in Pcs
  BY PcsFacts
<1>1. CASE req' = [req EXCEPT ![p].pc = "scan", ![p].todo = RefNames]
  <2>1. PICK S \in SUBSET Ref : S = RefNames
    BY DEF RefNames
  <2>2. req' = [req EXCEPT ![p].pc = "scan", ![p].todo = S]
    BY <1>1, <2>1
  <2>4. Others(p) /\ req'[p].pc = "scan" /\ KeptToo(req'[p], req[p]) /\ KeptReads(req'[p], req[p])
    BY Zenon, <2>2, <1>3, <1>t, TodoEffect DEF Others
  <2>5. req'[p].todo = S
    BY <2>2, <1>t DEF Request
  <2> QED BY <2>1, <2>4, <2>5
<1>2. CASE req' = [req EXCEPT ![p].pc = "scan", ![p].unread = Ref]
  <2>1. PICK S \in SUBSET Ref : S = Ref
    OBVIOUS
  <2>2. req' = [req EXCEPT ![p].pc = "scan", ![p].unread = S]
    BY <1>2, <2>1
  <2>4. /\ Others(p) /\ req'[p].pc = "scan" /\ req'[p].unread = S
        /\ KeptToo(req'[p], req[p]) /\ KeptReads(req'[p], req[p])
    BY Zenon, <2>2, <1>t, UnreadEffect DEF Others
  <2> QED BY <2>1, <2>4
<1> QED BY <1>1, <1>2 DEF DeleteList

LEMMA DeleteScanStep ==
    ASSUME StateTypeOK, RequestInv, NEW p \in Proc, DeleteScan(p)
    PROVE  /\ Others(p) /\ req'[p].pc = req[p].pc
           /\ KeptToo(req'[p], req[p]) /\ KeptReads(req'[p], req[p])
           /\ \E r \in req[p].todo :
                 /\ req'[p].todo = req[p].todo \ {r} /\ req'[p].unread = req[p].unread
                 /\ req'[p].found = IF PointsAt(r, req[p].frame) THEN req[p].found \cup {r} ELSE req[p].found
<1>t. req \in [Proc -> Request] /\ req[p] \in Request /\ ReqOK(req[p])
  BY DEF StateTypeOK, RequestInv
<1>1. PICK r \in req[p].todo :
         req' = [req EXCEPT ![p].todo = @ \ {r},
                            ![p].found = IF PointsAt(r, req[p].frame) THEN @ \cup {r} ELSE @]
  BY DEF DeleteScan
<1>2. req[p].todo \in SUBSET Ref /\ req[p].found \in SUBSET Ref
  BY <1>t, RequestFields
<1>3. PICK S \in SUBSET Ref, T \in SUBSET Ref :
         /\ S = req[p].todo \ {r}
         /\ T = IF PointsAt(r, req[p].frame) THEN req[p].found \cup {r} ELSE req[p].found
  BY <1>1, <1>2
<1>4. req' = [req EXCEPT ![p].todo = S, ![p].found = T]
  BY <1>1, <1>3, <1>t DEF Request
<1>5. Others(p) /\ req'[p].pc = req[p].pc /\ KeptToo(req'[p], req[p]) /\ KeptReads(req'[p], req[p])
  BY Zenon, <1>4, <1>t, ScanEffect DEF Others
<1>6. req'[p].todo = S /\ req'[p].found = T /\ req'[p].unread = req[p].unread
  BY <1>4, <1>t DEF Request
<1> QED BY <1>1, <1>3, <1>5, <1>6

LEMMA DeleteScanFailsStep ==
    ASSUME StateTypeOK, RequestInv, NEW p \in Proc, DeleteScanFails(p)
    PROVE  /\ Others(p) /\ req'[p].pc = req[p].pc
           /\ KeptToo(req'[p], req[p]) /\ KeptReads(req'[p], req[p])
           /\ \E r \in req[p].todo :
                 /\ req'[p].todo = req[p].todo \ {r} /\ req'[p].found = req[p].found
                 /\ req'[p].unread = req[p].unread \cup {r}
<1>t. req \in [Proc -> Request] /\ req[p] \in Request /\ ReqOK(req[p])
  BY DEF StateTypeOK, RequestInv
<1>1. PICK r \in req[p].todo :
         req' = [req EXCEPT ![p].todo = @ \ {r}, ![p].unread = @ \cup {r}]
  BY DEF DeleteScanFails
<1>2. req[p].todo \in SUBSET Ref /\ req[p].unread \in SUBSET Ref
  BY <1>t, RequestFields
<1>3. PICK S \in SUBSET Ref, T \in SUBSET Ref :
         S = req[p].todo \ {r} /\ T = req[p].unread \cup {r}
  BY <1>1, <1>2
<1>4. req' = [req EXCEPT ![p].todo = S, ![p].unread = T]
  BY <1>1, <1>3, <1>t DEF Request
<1>5. Others(p) /\ req'[p].pc = req[p].pc /\ KeptToo(req'[p], req[p]) /\ KeptReads(req'[p], req[p])
  BY Zenon, <1>4, <1>t, SkipEffect DEF Others
<1>6. req'[p].todo = S /\ req'[p].unread = T /\ req'[p].found = req[p].found
  BY <1>4, <1>t DEF Request
<1> QED BY <1>1, <1>3, <1>5, <1>6

LEMMA FrameStep ==
    ASSUME StateTypeOK, NEW p \in Proc, NEW l \in Pcs, NEW f \in Frame,
           req' = [req EXCEPT ![p].pc = l, ![p].frame = f]
    PROVE  /\ Others(p) /\ req'[p].pc = l /\ req'[p].frame = f
           /\ Kept(req'[p], req[p]) /\ KeptReads(req'[p], req[p])
<1>t. req \in [Proc -> Request] /\ req[p] \in Request
  BY DEF StateTypeOK
<1>1. Others(p) /\ req'[p].pc = l /\ Kept(req'[p], req[p]) /\ KeptReads(req'[p], req[p])
  BY Zenon, <1>t, FrameEffect DEF Others
<1>2. req'[p].frame = f
  BY <1>t DEF Request
<1> QED BY <1>1, <1>2

\* The frame a request enters.
EntersFrame(p) ==
    \E f \in FrameList \cup {refs[r].uuid : r \in RefNames} \cup issued' :
       /\ f \in Frame /\ Others(p) /\ req'[p].pc = "stat" /\ req'[p].frame = f
       /\ Kept(req'[p], req[p]) /\ KeptReads(req'[p], req[p])

LEMMA CreateCheckStep ==
    ASSUME StateTypeOK, RequestInv, NEW p \in Proc, CreateCheck(p)
    PROVE  \/ Done(p) /\ UNCHANGED <<meta, issued>>
           \/ \E f \in Fresh :
                 /\ f \in Frame /\ issued' = issued \cup {f}
                 /\ meta' = [meta EXCEPT ![f] = [snap |-> req[p].layout, tainted |-> FALSE]]
                 /\ Others(p) /\ req'[p].pc = "fetch" /\ req'[p].frame = f
                 /\ Kept(req'[p], req[p]) /\ KeptReads(req'[p], req[p])
<1>1. "fetch" \in Pcs
  BY PcsFacts
<1>2. ASSUME NEW f \in Fresh, req' = [req EXCEPT ![p].pc = "fetch", ![p].frame = f]
      PROVE  /\ f \in Frame /\ Others(p) /\ req'[p].pc = "fetch" /\ req'[p].frame = f
             /\ Kept(req'[p], req[p]) /\ KeptReads(req'[p], req[p])
  <2>1. f \in Frame
    BY DEF Fresh
  <2> QED BY <1>1, <1>2, <2>1, FrameStep
<1> QED BY <1>2, Zenon DEF CreateCheck

LEMMA ResolveStep ==
    ASSUME StateTypeOK, RequestInv, NEW p \in Proc, Resolve(p)
    PROVE  /\ issued \subseteq issued' /\ issued' \subseteq Frame
           /\ Done(p) \/ EntersFrame(p)
<1>1. "stat" \in Pcs
  BY PcsFacts
<1>2. FrameList \subseteq Frame /\ Fresh \subseteq Frame /\ \A r \in RefNames : refs[r].uuid \in Frame
  BY RefFiles DEF FrameList, Fresh, RefNames, StateTypeOK
<1>3. ASSUME NEW f \in Frame, EnterFrame(p, f)
      PROVE  /\ Others(p) /\ req'[p].pc = "stat" /\ req'[p].frame = f
             /\ Kept(req'[p], req[p]) /\ KeptReads(req'[p], req[p])
  BY <1>1, <1>3, FrameStep DEF EnterFrame
<1>4. issued \subseteq Frame
  BY DEF StateTypeOK
<1>5. issued \subseteq issued' /\ issued' \subseteq Frame
  BY <1>4, <1>2, Zenon DEF Resolve
<1>6. \/ Done(p)
      \/ \E f \in FrameList \cup {refs[r].uuid : r \in RefNames} \cup issued' : EnterFrame(p, f)
  BY Zenon DEF Resolve
<1> QED BY <1>2, <1>3, <1>4, <1>5, <1>6, Zenon DEF EntersFrame

LEMMA GoLookupStep ==
    ASSUME StateTypeOK, RequestInv, NEW p \in Proc, GoLookup(p)
    PROVE  \/ Done(p)
           \/ EntersFrame(p) /\ meta[req'[p].frame] # None
<1>1. "stat" \in Pcs
  BY PcsFacts
<1>2. \A r \in RefNames : refs[r].uuid \in Frame
  BY RefFiles DEF RefNames, StateTypeOK
<1>3. ASSUME NEW f \in Frame, EnterFrame(p, f)
      PROVE  /\ Others(p) /\ req'[p].pc = "stat" /\ req'[p].frame = f
             /\ Kept(req'[p], req[p]) /\ KeptReads(req'[p], req[p])
  BY <1>1, <1>3, FrameStep DEF EnterFrame
<1>4. Done(p) \/ \E f \in Frame : EnterFrame(p, f) /\ meta[f] # None
  BY <1>2, Zenon DEF GoLookup
<1>5. ASSUME NEW f \in Frame, EnterFrame(p, f), meta[f] # None
      PROVE  EntersFrame(p) /\ meta[req'[p].frame] # None
  <2>1. f \in FrameList
    BY <1>5 DEF FrameList
  <2> QED BY <1>3, <1>5, <2>1 DEF EntersFrame
<1> QED BY <1>4, <1>5

LEMMA EnsureRootFSStep ==
    ASSUME StateTypeOK, RequestInv, NEW p \in Proc, EnsureRootFS(p)
    PROVE  \/ "root" \in tree[req[p].frame] /\ Goto(p, "repair")
           \/ /\ "root" \notin tree[req[p].frame]
              /\ Others(p) /\ req'[p].pc = "root" /\ req'[p].frame = req[p].frame
              /\ Kept(req'[p], req[p]) /\ KeptReads(req'[p], req[p])
<1>t. req \in [Proc -> Request] /\ req[p] \in Request /\ ReqOK(req[p])
  BY DEF StateTypeOK, RequestInv
<1> DEFINE f == req[p].frame
           m == IF meta[f] # None THEN meta[f] ELSE EmptyFrame
<1>1. CASE "root" \in tree[f]
  BY <1>1 DEF EnsureRootFS
<1>2. CASE "root" \notin tree[f]
  <2>0. req' = [req EXCEPT ![p].pc = "root", ![p].layout = m.snap]
    BY <1>2 DEF EnsureRootFS
  <2>1. f \in Frame
    BY <1>t DEF EnsureRootFS, Entering, ReqOK
  <2>2. EmptyFrame.snap \in [Comp -> Snap \cup {None}]
    BY DEF EmptyFrame, NoSnaps
  <2>3. meta[f] # None => meta[f].snap \in [Comp -> Snap \cup {None}]
    BY <2>1 DEF StateTypeOK, Sidecar
  <2>4. PICK y \in [Comp -> Snap \cup {None}] : y = m.snap
    BY <2>2, <2>3
  <2>5. req' = [req EXCEPT ![p].pc = "root", ![p].layout = y]
    BY <2>0, <2>4
  <2>6. "root" \in Pcs
    BY PcsFacts
  <2>7. /\ Others(p) /\ req'[p].pc = "root" /\ req'[p].frame = req[p].frame
        /\ Kept(req'[p], req[p]) /\ KeptReads(req'[p], req[p])
    BY Zenon, <2>5, <2>6, <1>t, LayoutEffect DEF Others
  <2> QED BY <1>2, <2>7
<1> QED BY <1>1, <1>2

LEMMA StepRequest ==
    ASSUME StateTypeOK, RequestInv, NEW p \in Proc, Step(p)
    PROVE  StepOf(p)
<1>t. req \in [Proc -> Request] /\ req[p] \in Request /\ ReqOK(req[p])
  BY DEF StateTypeOK, RequestInv
<1>p. {"stat", "write", "ensure", "reread", "identity", "rename", "restart", "apply", "get", "unlink",
       "stop", "scrub", "scan", "home", "work", "id", "root", "sidecar", "fetch", "meta",
       "repair", "in"} \subseteq Pcs
  BY PcsFacts
<1>d. Done(p) => StepOf(p)
  BY <1>t, DoneEffect, IdleOK DEF StepOf
<1>g. ASSUME NEW l \in Pcs, Goto(p, l),
             \A n \in Request : /\ n.pc = l /\ KeptToo(n, req[p]) /\ KeptReads(n, req[p])
                                   => ReqOK(n)
      PROVE  StepOf(p)
  BY <1>g, <1>t, GotoEffect DEF StepOf
<1> USE DEF ReqOK, Steps, Kept, KeptToo, KeptReads, At
<1>1. CASE Start(p)
  BY <1>1, StartRequest
<1>2. CASE RefCreateLookup(p)
  BY <1>2, <1>t, <1>p, <1>d, <1>g DEF RefCreateLookup
<1>3. CASE RefCreateStat(p)
  BY <1>3, <1>t, <1>p, <1>d, <1>g DEF RefCreateStat
<1>4. CASE RefCreateWrite(p)
  BY <1>4, <1>t, <1>p, <1>d, <1>g DEF RefCreateWrite
<1>5. CASE RefCreateEnsure(p)
  BY <1>5, <1>d DEF RefCreateEnsure
<1>6. CASE RefGet(p)
  <2>1. \/ Done(p)
        \/ /\ Others(p) /\ refs[req[p].ref] \in RefFile /\ req'[p].pc = "reread" /\ req'[p].got = refs[req[p].ref] /\ KeptToo(req'[p], req[p])
    <3> HIDE DEF ReqOK, Steps, Kept, KeptToo, KeptReads, At
    <3> QED BY <1>6, RefGetStep DEF EntersFrame
  <2>2. req[p].op \in {"refmove", "autorun"}
    BY <1>6 DEF RefGet
  <2>3. CASE ~Done(p)
    <3>1. ReqOK(req'[p])
      BY <2>1, <2>2, <2>3, <1>t
    <3> QED BY <2>1, <2>3, <3>1 DEF StepOf, Others
  <2> QED BY <2>3, <1>d
<1>7. CASE RefReread(p)
  <2>1. \/ Done(p)
        \/ /\ Others(p) /\ req'[p].pc = "write" /\ req'[p].got = req[p].got /\ req'[p].copy \in RefFile /\ KeptToo(req'[p], req[p])
    <3> HIDE DEF ReqOK, Steps, Kept, KeptToo, KeptReads, At
    <3> QED BY <1>7, RefRereadStep DEF EntersFrame
  <2>2. req[p].op \in {"refmove", "autorun"} /\ req[p].pc = "reread"
    BY <1>7 DEF RefReread
  <2>3. CASE ~Done(p)
    <3>1. ReqOK(req'[p])
      BY <2>1, <2>2, <2>3, <1>t
    <3> QED BY <2>1, <2>3, <3>1 DEF StepOf, Others
  <2> QED BY <2>3, <1>d
<1>8. CASE RefWrite(p)
  BY <1>8, <1>t, <1>p, <1>d, <1>g DEF RefWrite
<1>9. CASE MoveIdentity(p)
  BY <1>9, <1>t, <1>p, <1>g DEF MoveIdentity
<1>10. CASE MoveRename(p)
  BY <1>10, <1>t, <1>p, <1>d, <1>g DEF MoveRename
<1>11. CASE MoveRestart(p)
  BY <1>11, <1>t, <1>p, <1>d, <1>g DEF MoveRestart
<1>12. CASE AutorunApply(p)
  BY <1>12, <1>t, <1>p, <1>d, <1>g DEF AutorunApply, AutorunStart, AutorunStop
<1>13. CASE RefDeleteCheck(p)
  BY <1>13, <1>t, <1>p, <1>d, <1>g DEF RefDeleteCheck
<1>14. CASE RefDeleteGet(p)
  <2>1. \/ Done(p)
        \/ /\ Others(p) /\ req'[p].pc = "unlink" /\ KeptToo(req'[p], req[p])
    <3> HIDE DEF ReqOK, Steps, Kept, KeptToo, KeptReads, At
    <3> QED BY <1>14, RefDeleteGetStep DEF EntersFrame
  <2>2. req[p].op = "refdelete"
    BY <1>14 DEF RefDeleteGet
  <2>3. CASE ~Done(p)
    <3>1. ReqOK(req'[p])
      BY <2>1, <2>2, <2>3, <1>t
    <3> QED BY <2>1, <2>3, <3>1 DEF StepOf, Others
  <2> QED BY <2>3, <1>d
<1>15. CASE RefDeleteUnlink(p)
  BY <1>15, <1>t, <1>p, <1>d, <1>g DEF RefDeleteUnlink
<1>16. CASE RefDeleteStop(p)
  BY <1>16, <1>t, <1>p, <1>d, <1>g, RequestFields DEF RefDeleteStop
<1>17. CASE RefDeleteScrub(p)
  BY <1>17, <1>t, <1>p, <1>d, <1>g DEF RefDeleteScrub
<1>18. CASE DeleteList(p)
  <2>1. \/ Done(p)
        \/ /\ Others(p) /\ req'[p].pc = "scan" /\ KeptToo(req'[p], req[p])
    <3> HIDE DEF ReqOK, Steps, Kept, KeptToo, KeptReads, At
    <3> QED BY <1>18, DeleteListStep DEF EntersFrame
  <2>2. req[p].op = "delframe"
    BY <1>18 DEF DeleteList
  <2>3. CASE ~Done(p)
    <3>1. ReqOK(req'[p])
      BY <2>1, <2>2, <2>3, <1>t
    <3> QED BY <2>1, <2>3, <3>1 DEF StepOf, Others
  <2> QED BY <2>3, <1>d
<1>19. CASE DeleteScan(p)
  <2>1. Done(p) \/ (ReqOK(req'[p]) /\ Others(p))
    BY Zenon, <1>19, <1>t, DeleteScanStep DEF DeleteScan
  <2> QED BY <2>1, <1>d DEF StepOf, Others
<1>35. CASE DeleteScanFails(p)
  <2>1. Done(p) \/ (ReqOK(req'[p]) /\ Others(p))
    BY Zenon, <1>35, <1>t, DeleteScanFailsStep DEF DeleteScanFails
  <2> QED BY <2>1, <1>d DEF StepOf, Others
<1>20. CASE DeleteGate(p)
  BY <1>20, <1>t, <1>p, <1>d, <1>g DEF DeleteGate
<1>21. CASE DeleteNested(p)
  BY <1>21, <1>t, <1>p, <1>d, <1>g DEF DeleteNested
<1>22. CASE DeleteRoot(p)
  BY <1>22, <1>t, <1>p, <1>d, <1>g DEF DeleteRoot
<1>23. CASE DeleteSidecar(p)
  BY <1>23, <1>t, <1>p, <1>d, <1>g DEF DeleteSidecar
<1>24. CASE CreateCheck(p)
  <2>1. \/ Done(p)
        \/ /\ Others(p) /\ req'[p].pc = "fetch" /\ req'[p].frame \in Frame /\ Kept(req'[p], req[p])
    <3> HIDE DEF ReqOK, Steps, Kept, KeptToo, KeptReads, At
    <3> QED BY <1>24, CreateCheckStep DEF EntersFrame
  <2>2. req[p].op = "create"
    BY <1>24 DEF CreateCheck
  <2>3. CASE ~Done(p)
    <3>1. ReqOK(req'[p])
      BY <2>1, <2>2, <2>3, <1>t
    <3> QED BY <2>1, <2>3, <3>1 DEF StepOf, Others
  <2> QED BY <2>3, <1>d
<1>25. CASE CreateFetch(p)
  BY <1>25, <1>t, <1>p, <1>d, <1>g DEF CreateFetch
<1>26. CASE BuildComp(p)
  <2> DEFINE c == req[p].pc
             l == AfterComp(req[p], c)
  <2>1. /\ c \in {"root", "home", "work"} /\ req[p].op # "delframe"
        /\ Done(p) \/ Goto(p, l)
    BY <1>26 DEF BuildComp, Building, Comp
  <2>2. l \in {"home", "work", "meta"}
    BY <2>1 DEF AfterComp
  <2>3. req[p].op \in {"create", "enter", "attempt"}
    BY <2>1, <1>t, RequestFields DEF Ops
  <2> HIDE DEF l
  <2>4. \A n \in Request : n.pc = l /\ KeptToo(n, req[p]) /\ KeptReads(n, req[p]) => ReqOK(n)
    BY <2>1, <2>2, <2>3, <1>t
  <2>q. "id" \in Pcs /\ "home" \in Pcs /\ "work" \in Pcs /\ "meta" \in Pcs
    BY <1>p
  <2> HIDE DEF ReqOK, Steps, Kept, KeptToo, KeptReads, At
  <2> QED BY <2>1, <2>2, <2>4, <1>d, <1>g, <2>q
<1>27. CASE BuildMeta(p)
  <2>1. req[p].pc = "meta" /\ Goto(p, "id") /\ req[p].op # "delframe"
    BY <1>27 DEF BuildMeta, Building
  <2>2. req[p].op \in {"create", "enter", "attempt"}
    BY <2>1, <1>t, RequestFields DEF Ops
  <2>3. \A n \in Request : n.pc = "id" /\ KeptToo(n, req[p]) /\ KeptReads(n, req[p]) => ReqOK(n)
    BY <2>1, <2>2, <1>t
  <2>q. "id" \in Pcs /\ "home" \in Pcs /\ "work" \in Pcs /\ "meta" \in Pcs
    BY <1>p
  <2> HIDE DEF ReqOK, Steps, Kept, KeptToo, KeptReads, At
  <2> QED BY <2>1, <2>3, <1>g, <2>q
<1>28. CASE BuildID(p)
  BY <1>28, <1>t, <1>p, <1>d, <1>g, RequestFields DEF BuildID, Building, Ops
<1>29. CASE Resolve(p)
  <2>1. \/ Done(p)
        \/ /\ Others(p) /\ req'[p].pc = "stat" /\ req'[p].frame \in Frame /\ Kept(req'[p], req[p])
    <3> HIDE DEF ReqOK, Steps, Kept, KeptToo, KeptReads, At
    <3> QED BY <1>29, ResolveStep DEF EntersFrame
  <2>2. req[p].op \in {"enter", "attempt"}
    BY <1>29 DEF Resolve, Entering
  <2>3. CASE ~Done(p)
    <3>1. ReqOK(req'[p])
      BY <2>1, <2>2, <2>3, <1>t
    <3> QED BY <2>1, <2>3, <3>1 DEF StepOf, Others
  <2> QED BY <2>3, <1>d
<1>30. CASE GoLookup(p)
  <2>1. \/ Done(p)
        \/ /\ Others(p) /\ req'[p].pc = "stat" /\ req'[p].frame \in Frame /\ Kept(req'[p], req[p])
    <3> HIDE DEF ReqOK, Steps, Kept, KeptToo, KeptReads, At
    <3> QED BY <1>30, GoLookupStep DEF EntersFrame
  <2>2. req[p].op = "enter"
    BY <1>30 DEF GoLookup
  <2>3. CASE ~Done(p)
    <3>1. ReqOK(req'[p])
      BY <2>1, <2>2, <2>3, <1>t
    <3> QED BY <2>1, <2>3, <3>1 DEF StepOf, Others
  <2> QED BY <2>3, <1>d
<1>31. CASE EnsureRootFS(p)
  <2>1. CASE Goto(p, "repair")
    BY <2>1, <1>31, <1>t, <1>p, <1>g DEF EnsureRootFS, Entering
  <2>2. CASE ~Goto(p, "repair")
    <3>1. ReqOK(req'[p]) /\ Others(p)
      BY <2>2, <1>31, <1>t, EnsureRootFSStep DEF EnsureRootFS, Entering
    <3> QED BY <3>1 DEF StepOf, Others
  <2> QED BY <2>1, <2>2
<1>32. CASE EnterRepair(p)
  BY <1>32, <1>t, <1>p, <1>d, <1>g DEF EnterRepair, Entering
<1>33. CASE Leave(p)
  BY <1>33, <1>t, <1>p, <1>d, <1>g DEF Leave
<1>34. CASE Attempt(p)
  BY <1>34, AttemptRequest DEF AttemptBegun
<1> QED BY <1>1, <1>2, <1>3, <1>4, <1>5, <1>6, <1>7, <1>8, <1>9, <1>10, <1>11, <1>12, <1>13, <1>14, <1>15, <1>16, <1>17, <1>18, <1>19, <1>20, <1>21, <1>22, <1>23, <1>24, <1>25, <1>26, <1>27, <1>28, <1>29, <1>30, <1>31, <1>32, <1>33, <1>34, <1>35 DEF Step, AutorunApply
\* The steps that write each part of the state.
Touched(p) ==
    /\ refs' = refs \/ RefCreateWrite(p) \/ RefWrite(p) \/ RefDeleteUnlink(p)
    /\ meta' = meta \/ DeleteSidecar(p) \/ CreateCheck(p) \/ BuildMeta(p)
    /\ tree' = tree \/ RefCreateEnsure(p) \/ MoveIdentity(p) \/ DeleteNested(p) \/ DeleteRoot(p) \/ BuildComp(p) \/ BuildID(p) \/ EnterRepair(p)
    /\ ident' = ident \/ RefCreateEnsure(p) \/ MoveIdentity(p) \/ MoveRename(p) \/ RefDeleteScrub(p)
    /\ born' = born \/ RefCreateEnsure(p) \/ MoveIdentity(p)
    /\ snaps' = snaps \/ CreateFetch(p)
    /\ run' = run \/ MoveRestart(p) \/ AutorunApply(p) \/ RefDeleteStop(p) \/ EnterRepair(p)
    /\ ops' = ops \/ Start(p)
    /\ issued' = issued \/ CreateCheck(p) \/ Resolve(p)

LEMMA StepTouched ==
    ASSUME NEW p \in Proc, Step(p)
    PROVE  Touched(p)
<1> USE DEF Touched, disk
<1>1. CASE Start(p)
  BY <1>1 DEF Start
<1>2. CASE RefCreateLookup(p)
  BY <1>2 DEF RefCreateLookup
<1>3. CASE RefCreateStat(p)
  BY <1>3 DEF RefCreateStat
<1>4. CASE RefCreateWrite(p)
  BY <1>4 DEF RefCreateWrite
<1>5. CASE RefCreateEnsure(p)
  BY <1>5 DEF RefCreateEnsure
<1>6. CASE RefGet(p)
  BY <1>6 DEF RefGet
<1>7. CASE RefReread(p)
  BY <1>7 DEF RefReread
<1>8. CASE RefWrite(p)
  BY <1>8 DEF RefWrite
<1>9. CASE MoveIdentity(p)
  BY <1>9 DEF MoveIdentity
<1>10. CASE MoveRename(p)
  BY <1>10 DEF MoveRename
<1>11. CASE MoveRestart(p)
  BY <1>11 DEF MoveRestart
<1>12. CASE AutorunApply(p)
  BY <1>12 DEF AutorunApply, AutorunStart, AutorunStop
<1>13. CASE RefDeleteCheck(p)
  BY <1>13 DEF RefDeleteCheck
<1>14. CASE RefDeleteGet(p)
  BY <1>14 DEF RefDeleteGet
<1>15. CASE RefDeleteUnlink(p)
  BY <1>15 DEF RefDeleteUnlink
<1>16. CASE RefDeleteStop(p)
  BY <1>16 DEF RefDeleteStop
<1>17. CASE RefDeleteScrub(p)
  BY <1>17 DEF RefDeleteScrub
<1>18. CASE DeleteList(p)
  BY <1>18 DEF DeleteList
<1>19. CASE DeleteScan(p)
  BY <1>19 DEF DeleteScan
<1>35. CASE DeleteScanFails(p)
  BY <1>35 DEF DeleteScanFails
<1>20. CASE DeleteGate(p)
  BY <1>20 DEF DeleteGate
<1>21. CASE DeleteNested(p)
  BY <1>21 DEF DeleteNested
<1>22. CASE DeleteRoot(p)
  BY <1>22 DEF DeleteRoot
<1>23. CASE DeleteSidecar(p)
  BY <1>23 DEF DeleteSidecar
<1>24. CASE CreateCheck(p)
  BY <1>24 DEF CreateCheck
<1>25. CASE CreateFetch(p)
  BY <1>25 DEF CreateFetch
<1>26. CASE BuildComp(p)
  BY <1>26 DEF BuildComp
<1>27. CASE BuildMeta(p)
  BY <1>27 DEF BuildMeta
<1>28. CASE BuildID(p)
  BY <1>28 DEF BuildID
<1>29. CASE Resolve(p)
  BY <1>29 DEF Resolve
<1>30. CASE GoLookup(p)
  BY <1>30 DEF GoLookup
<1>31. CASE EnsureRootFS(p)
  BY <1>31 DEF EnsureRootFS
<1>32. CASE EnterRepair(p)
  BY <1>32 DEF EnterRepair
<1>33. CASE Leave(p)
  BY <1>33 DEF Leave
<1>34. CASE Attempt(p)
  BY <1>34 DEF Attempt
<1> QED BY <1>1, <1>2, <1>3, <1>4, <1>5, <1>6, <1>7, <1>8, <1>9, <1>10, <1>11, <1>12, <1>13, <1>14, <1>15, <1>16, <1>17, <1>18, <1>19, <1>20, <1>21, <1>22, <1>23, <1>24, <1>25, <1>26, <1>27, <1>28, <1>29, <1>30, <1>31, <1>32, <1>33, <1>34, <1>35 DEF Step, AutorunApply


\* Only the request on a ref writes its file, and what it writes is a ref file.
LEMMA RefsStep ==
    ASSUME StateTypeOK, RequestInv, NEW p \in Proc, Step(p)
    PROVE  /\ refs' \in [Ref -> RefFile \cup {None}]
           /\ \A r \in Ref : refs'[r] # refs[r] =>
                 /\ RefOn(req[p], r) /\ req[p].pc \in {"write", "unlink"}
                 /\ \/ refs'[r] = None
                    \/ refs'[r] = NewRef(req[p].frame) /\ req[p].frame \in Frame
                    \/ refs'[r] = req[p].copy /\ req[p].copy \in RefFile
<1>t. /\ refs \in [Ref -> RefFile \cup {None}] /\ req[p] \in Request /\ ReqOK(req[p])
  BY DEF StateTypeOK, RequestInv
<1>1. CASE RefCreateWrite(p)
  <2>1. /\ req[p].op \in {"refcreate", "create"} /\ req[p].pc = "write" /\ req[p].ref \in Ref
        /\ req[p].frame \in Frame /\ refs' = [refs EXCEPT ![req[p].ref] = NewRef(req[p].frame)]
    BY <1>1, <1>t DEF RefCreateWrite, ReqOK
  <2>2. PICK v \in RefFile : v = NewRef(req[p].frame)
    BY <2>1, RefFiles
  <2> QED BY <2>1, <2>2, <1>t DEF RefOn
<1>2. CASE RefWrite(p)
  <2>1. /\ req[p].op \in {"refmove", "autorun"} /\ req[p].pc = "write" /\ req[p].ref \in Ref
        /\ req[p].copy \in RefFile /\ refs' = [refs EXCEPT ![req[p].ref] = req[p].copy]
    BY <1>2, <1>t DEF RefWrite, ReqOK
  <2> QED BY <2>1, <1>t DEF RefOn
<1>3. CASE RefDeleteUnlink(p)
  <2>1. /\ req[p].op = "refdelete" /\ req[p].pc = "unlink" /\ req[p].ref \in Ref
        /\ refs' = [refs EXCEPT ![req[p].ref] = None]
    BY <1>3, <1>t DEF RefDeleteUnlink, ReqOK, At
  <2> QED BY <2>1, <1>t DEF RefOn
<1> QED BY <1>1, <1>2, <1>3, <1>t, StepTouched DEF Touched

\* What builds, enters or moves knows its frame.
LEMMA BuildingFrame ==
    ASSUME NEW q \in Request, ReqOK(q), Building(q)
    PROVE  q.op \in {"create", "enter", "attempt"} /\ q.frame \in Frame
<1>1. q.op \in Ops
  BY RequestFields
<1>2. q.op \in {"create", "enter", "attempt"}
  BY <1>1 DEF Ops, Building, ReqOK, Steps
<1> QED BY <1>2 DEF Building, ReqOK

LEMMA MoveFields ==
    ASSUME NEW q \in Request, ReqOK(q), q.op = "refmove", q.pc \in {"identity", "rename", "restart"}
    PROVE  q.frame \in Frame /\ q.ref \in Ref /\ q.got \in RefFile /\ q.got.uuid \in Frame
<1>1. q.frame \in Frame /\ q.ref \in Ref /\ q.got \in RefFile
  BY DEF ReqOK
<1> QED BY <1>1, RefFiles

LEMMA PartFacts ==
    /\ Comp = {"root", "home", "work"} /\ Comp \subseteq Part /\ "id" \in Part
    /\ \A c \in Comp : Inner[c] \in Part /\ Inner[c] \notin Comp \cup {"id"}
    /\ Inner["root"] = "root+" /\ Inner["home"] = "home+" /\ Inner["work"] = "work+"
BY DEF Part, Inner, Comp

\* Only the subvolumes of the frame a request works on change, and none of them
\* stays when the frame's own goes.
LEMMA TreeStep ==
    ASSUME StateTypeOK, RequestInv, NEW p \in Proc, Step(p)
    PROVE  /\ tree' \in [Frame -> SUBSET Part]
           /\ \A f \in Frame : tree'[f] # tree[f] =>
                 /\ req[p].frame = f
                 /\ tree'[f] # {} /\ (tree[f] # {} => "root" \in tree[f]) => "root" \in tree'[f]
<1>t. /\ tree \in [Frame -> SUBSET Part] /\ req[p] \in Request /\ ReqOK(req[p])
  BY DEF StateTypeOK, RequestInv
<1>e. ASSUME NEW f \in Frame, f = req[p].frame, tree' = WithID(f) \/ tree' = tree, CanEnsureID(f)
      PROVE  /\ tree' \in [Frame -> SUBSET Part]
             /\ \A g \in Frame : tree'[g] # tree[g] => req[p].frame = g /\ "root" \in tree'[g]
  BY <1>e, <1>t, PartFacts DEF WithID, CanEnsureID
<1>1. CASE RefCreateEnsure(p)
  <2>1. req[p].frame \in Frame /\ EnsureIdentity(req[p].frame, req[p].ref)
    BY <1>1, <1>t DEF RefCreateEnsure, ReqOK, At
  <2> QED BY <2>1, <1>e, <1>t DEF EnsureIdentity
<1>2. CASE MoveIdentity(p)
  <2>0. req[p].frame \in Frame
    BY <1>2, <1>t, MoveFields DEF MoveIdentity, At
  <2>1. EnsureIdentity(req[p].frame, req[p].ref) \/ (CanEnsureID(req[p].frame) /\ tree' = WithID(req[p].frame))
    <3>1. ASSUME ~CanEnsureID(req[p].frame) \/ ident[req[p].got.uuid][req[p].ref] = None PROVE EnsureIdentity(req[p].frame, req[p].ref)
      BY <1>2, <3>1 DEF MoveIdentity
    <3>2. ASSUME ~(~CanEnsureID(req[p].frame) \/ ident[req[p].got.uuid][req[p].ref] = None) PROVE CanEnsureID(req[p].frame) /\ tree' = WithID(req[p].frame)
      BY <1>2, <3>2 DEF MoveIdentity
    <3> QED BY <3>1, <3>2
  <2> QED BY <2>0, <2>1, <1>e, <1>t DEF EnsureIdentity
<1>3. CASE DeleteNested(p)
  <2>1. /\ req[p].frame \in Frame /\ req[p].pc \in {"home", "work", "id"}
        /\ tree' = [tree EXCEPT ![req[p].frame] = @ \ {req[p].pc}] \/ tree' = tree
    BY <1>3, <1>t DEF DeleteNested, ReqOK
  <2> QED BY <2>1, <1>t
<1>4. CASE DeleteRoot(p)
  <2>1. req[p].frame \in Frame /\ (tree' = [tree EXCEPT ![req[p].frame] = {}] \/ tree' = tree)
    BY <1>4, <1>t DEF DeleteRoot, ReqOK, At
  <2> QED BY <2>1, <1>t
<1>5. CASE BuildComp(p)
  <2> DEFINE c == req[p].pc
             f == req[p].frame
  <2>1. f \in Frame /\ c \in Comp
    BY <1>5, <1>t, BuildingFrame DEF BuildComp
  <2>2. CASE tree' = tree
    BY <2>2, <1>t
  <2>3. CASE tree' # tree
    <3>1. tree' = [tree EXCEPT ![f] = Built(req[p], c)] /\ CanBuild(req[p], c)
      BY <2>3, <1>5 DEF BuildComp
    <3>2. PICK S : S = Built(req[p], c)
      OBVIOUS
    <3>3. S \in SUBSET Part
      BY <3>2, <2>1, <1>t, PartFacts DEF Built, AfterSnapshot
    <3>4. c = "root" \/ "root" \in tree[f]
      BY <3>1, <2>1 DEF CanBuild, CanSnapshot, CanCreate, Reachable
    <3>5. "root" \in S
      BY <3>2, <3>4 DEF Built, AfterSnapshot
    <3> QED BY <3>1, <3>2, <3>3, <3>5, <2>1, <1>t
  <2> QED BY <2>2, <2>3
<1>6. CASE BuildID(p)
  <2>0. req[p].frame \in Frame
    BY <1>6, <1>t, BuildingFrame DEF BuildID
  <2>1. tree' = tree \/ (CanEnsureID(req[p].frame) /\ tree' = WithID(req[p].frame))
    <3>1. ASSUME "root" \in tree[req[p].frame] /\ (req[p].live # None /\ "id" \in tree[req[p].frame] => CanDeleteSubvol(req[p].frame, "id")) PROVE CanEnsureID(req[p].frame) /\ tree' = WithID(req[p].frame)
      BY <1>6, <3>1 DEF BuildID, CanEnsureID
    <3>2. ASSUME ~("root" \in tree[req[p].frame] /\ (req[p].live # None /\ "id" \in tree[req[p].frame] => CanDeleteSubvol(req[p].frame, "id"))) PROVE tree' = tree
      BY <1>6, <3>2 DEF BuildID, CanEnsureID
    <3> QED BY <3>1, <3>2
  <2> QED BY <2>0, <2>1, <1>e, <1>t
<1>7. CASE EnterRepair(p)
  <2>0. req[p].frame \in Frame
    BY <1>7, <1>t DEF EnterRepair, Entering, ReqOK
  <2>1. tree' = tree \/ (CanEnsureID(req[p].frame) /\ tree' = WithID(req[p].frame))
    <3>1. ASSUME CanEnsureID(req[p].frame) PROVE CanEnsureID(req[p].frame) /\ tree' = WithID(req[p].frame)
      BY <1>7, <3>1 DEF EnterRepair
    <3>2. ASSUME ~(CanEnsureID(req[p].frame)) PROVE tree' = tree
      BY <1>7, <3>2 DEF EnterRepair
    <3> QED BY <3>1, <3>2
  <2> QED BY <2>0, <2>1, <1>e, <1>t
<1> QED BY <1>1, <1>2, <1>3, <1>4, <1>5, <1>6, <1>7, <1>t, StepTouched DEF Touched

LEMMA IdentStep ==
    ASSUME StateTypeOK, RequestInv, NEW p \in Proc, Step(p)
    PROVE  /\ ident' \in [Frame -> [Ref -> Nat \cup {None}]] /\ born' \in Nat
           /\ \A f \in Frame, r \in Ref : ident'[f][r] # ident[f][r] =>
                 RefOn(req[p], r) /\ req[p].pc \in {"ensure", "identity", "rename", "scrub"}
<1> DEFINE T == [Ref -> Nat \cup {None}]
<1>t. /\ ident \in [Frame -> T] /\ born \in Nat /\ req[p] \in Request /\ ReqOK(req[p])
  BY DEF StateTypeOK, RequestInv
<1>e. ASSUME NEW f \in Frame, NEW r \in Ref, NEW v \in Nat \cup {None}, NEW i \in [Frame -> T]
      PROVE  /\ [i EXCEPT ![f][r] = v] \in [Frame -> T]
             /\ \A g \in Frame, x \in Ref : [i EXCEPT ![f][r] = v][g][x] # i[g][x] => g = f /\ x = r
  <2>1. i[f] \in T
    OBVIOUS
  <2>2. [i[f] EXCEPT ![r] = v] \in T
    BY <2>1
  <2>3. [i EXCEPT ![f][r] = v] \in [Frame -> T]
    <3> HIDE DEF T
    <3> QED BY <2>2
  <2>4. ASSUME NEW g \in Frame, NEW x \in Ref, g # f \/ x # r PROVE [i EXCEPT ![f][r] = v][g][x] = i[g][x]
    BY <2>1, <2>4
  <2> QED BY <2>3, <2>4
<1> HIDE DEF T
<1>n. born + 1 \in Nat \cup {None} /\ born + 1 \in Nat /\ \A f \in Frame, r \in Ref : ident[f][r] \in Nat \cup {None}
  BY <1>t DEF T
<1>f. ASSUME NEW f \in Frame, NEW r \in Ref, EnsureIdentity(f, r)
      PROVE  /\ ident' \in [Frame -> T] /\ born' \in Nat
             /\ \A g \in Frame, x \in Ref : ident'[g][x] # ident[g][x] => x = r
  <2>1. CASE CanEnsureID(f)
    <3>1. PICK v \in Nat \cup {None} : v = IF ident[f][r] = None THEN born + 1 ELSE ident[f][r]
      BY <1>n
    <3>2. ident' = [ident EXCEPT ![f][r] = v]
      BY <1>f, <2>1, <3>1, <1>t DEF EnsureIdentity, T
    <3>3. born' \in Nat
      BY <1>f, <2>1, <1>n, <1>t DEF EnsureIdentity
    <3>4. /\ [ident EXCEPT ![f][r] = v] \in [Frame -> T]
          /\ \A g \in Frame, x \in Ref : [ident EXCEPT ![f][r] = v][g][x] # ident[g][x] => g = f /\ x = r
      BY <1>e, <1>t
    <3> QED BY <3>2, <3>3, <3>4
  <2>2. CASE ~CanEnsureID(f)
    BY <1>f, <2>2, <1>t DEF EnsureIdentity
  <2> QED BY <2>1, <2>2
<1>1. CASE RefCreateEnsure(p)
  <2>1. /\ req[p].op = "refcreate" /\ req[p].pc = "ensure" /\ req[p].frame \in Frame /\ req[p].ref \in Ref
        /\ EnsureIdentity(req[p].frame, req[p].ref)
    BY <1>1, <1>t DEF RefCreateEnsure, ReqOK, At
  <2> QED BY <2>1, <1>f DEF RefOn, T
<1>2. CASE MoveIdentity(p)
  <2>0. req[p].op = "refmove" /\ req[p].pc = "identity" /\ req[p].frame \in Frame /\ req[p].ref \in Ref
    BY <1>2, <1>t, MoveFields DEF MoveIdentity, At
  <2>1. EnsureIdentity(req[p].frame, req[p].ref) \/ (ident' = ident /\ born' = born)
    <3>1. ASSUME ~CanEnsureID(req[p].frame) \/ ident[req[p].got.uuid][req[p].ref] = None PROVE EnsureIdentity(req[p].frame, req[p].ref)
      BY <1>2, <3>1 DEF MoveIdentity
    <3>2. ASSUME ~(~CanEnsureID(req[p].frame) \/ ident[req[p].got.uuid][req[p].ref] = None) PROVE ident' = ident /\ born' = born
      BY <1>2, <3>2 DEF MoveIdentity
    <3> QED BY <3>1, <3>2
  <2> QED BY <2>0, <2>1, <1>f, <1>t DEF RefOn, T
<1>3. CASE MoveRename(p)
  <2> DEFINE src == req[p].got.uuid
             dst == req[p].frame
             r == req[p].ref
  <2>1. /\ req[p].op = "refmove" /\ req[p].pc = "rename" /\ dst \in Frame /\ r \in Ref
        /\ req[p].got \in RefFile /\ RenameIdentity(src, dst, r) /\ born' = born
    BY <1>3, <1>t DEF MoveRename, ReqOK, At
  <2>2. src \in Frame
    BY <2>1, RefFiles
  <2>3. CASE ident' = ident
    BY <2>1, <2>3, <1>t DEF T
  <2>4. CASE ident' = [ident EXCEPT ![dst][r] = ident[src][r], ![src][r] = None]
    <3>1. PICK v \in Nat \cup {None} : v = ident[src][r]
      BY <2>1, <2>2, <1>n
    <3>a. PICK d \in Frame, s \in Frame, y \in Ref : d = dst /\ s = src /\ y = r
      BY <2>1, <2>2
    <3>b. /\ [ident EXCEPT ![d][y] = v] \in [Frame -> T]
          /\ \A g \in Frame, x \in Ref : [ident EXCEPT ![d][y] = v][g][x] # ident[g][x] => g = d /\ x = y
      BY <1>e, <1>t
    <3>2. PICK i \in [Frame -> T] : i = [ident EXCEPT ![d][y] = v]
      BY <3>b
    <3>3. \A g \in Frame, x \in Ref : i[g][x] # ident[g][x] => x = r
      BY <3>a, <3>b, <3>2
    <3>n. PICK w \in Nat \cup {None} : w = None
      OBVIOUS
    <3>4. ident' = [i EXCEPT ![s][y] = w]
      BY <2>4, <3>1, <3>2, <3>a, <3>n
    <3>c. /\ [i EXCEPT ![s][y] = w] \in [Frame -> T]
          /\ \A g \in Frame, x \in Ref : [i EXCEPT ![s][y] = w][g][x] # i[g][x] => g = s /\ x = y
      BY <1>e
    <3>5. ident' \in [Frame -> T] /\ \A g \in Frame, x \in Ref : ident'[g][x] # i[g][x] => x = r
      BY <3>4, <3>a, <3>c
    <3> HIDE DEF src, dst, r
    <3>6. \A g \in Frame, x \in Ref : ident'[g][x] # ident[g][x] => x = r
      BY <3>3, <3>5
    <3> QED BY <3>5, <3>6, <2>1, <1>t DEF RefOn, T, r
  <2>5. CASE ident' = [ident EXCEPT ![dst][r] = None]
    <3>a. PICK d \in Frame, y \in Ref, w \in Nat \cup {None} : d = dst /\ y = r /\ w = None
      BY <2>1
    <3>b. /\ [ident EXCEPT ![d][y] = w] \in [Frame -> T]
          /\ \A g \in Frame, x \in Ref : [ident EXCEPT ![d][y] = w][g][x] # ident[g][x] => g = d /\ x = y
      BY <1>e, <1>t
    <3>c. ident' = [ident EXCEPT ![d][y] = w]
      BY <2>5, <3>a
    <3> HIDE DEF dst, r
    <3> QED BY <3>a, <3>b, <3>c, <2>1, <1>t DEF RefOn, T, r
  <2> QED BY <2>1, <2>3, <2>4, <2>5 DEF RenameIdentity
<1>4. CASE RefDeleteScrub(p)
  <2>1. /\ req[p].op = "refdelete" /\ req[p].pc = "scrub" /\ req[p].ref \in Ref
        /\ req[p].got \in RefFile /\ RemoveIdentity(req[p].got.uuid, req[p].ref) /\ born' = born
    BY <1>4, <1>t DEF RefDeleteScrub, ReqOK, At
  <2>2. PICK f \in Frame : f = req[p].got.uuid
    BY <2>1, RefFiles
  <2>3. CASE ident' = [ident EXCEPT ![f][req[p].ref] = None]
    BY <2>1, <2>3, <1>e, <1>t DEF RefOn, T
  <2>4. CASE ident' = ident
    BY <2>1, <2>4, <1>t DEF T
  <2> QED BY <2>1, <2>2, <2>3, <2>4 DEF RemoveIdentity
<1> QED BY <1>1, <1>2, <1>3, <1>4, <1>t, StepTouched DEF Touched, T

LEMMA Processes ==
    /\ None \notin ProcessType
    /\ \A f \in Frame, a \in Argv :
          /\ Process(f, a) \in ProcessType
          /\ Process(f, a).uuid = f /\ Process(f, a).argv = a /\ Process(f, a).at = None
    /\ \A x \in ProcessType, f \in Frame :
          /\ [x EXCEPT !.at = f] \in ProcessType /\ [x EXCEPT !.at = f].at = f
          /\ [x EXCEPT !.at = f].uuid = x.uuid /\ [x EXCEPT !.at = f].argv = x.argv
<1>1. None \notin ProcessType
  BY FramesAssumption
<1> QED BY <1>1 DEF ProcessType, Process

\* Only the request on a ref starts and stops its program; an attempt that has
\* come through says where it runs.
LEMMA RunStep ==
    ASSUME StateTypeOK, RequestInv, NEW p \in Proc, Step(p)
    PROVE  /\ run' \in [Ref -> ProcessType \cup {None}]
           /\ \A r \in Ref : run'[r] # run[r] =>
                 \/ RefOn(req[p], r) /\ req[p].pc \in {"restart", "apply", "stop"}
                 \/ /\ EnterRepair(p) /\ AttemptOf(req[p], r)
                    /\ run[r] # None /\ run'[r] = [run[r] EXCEPT !.at = req[p].frame]
<1>t. /\ run \in [Ref -> ProcessType \cup {None}] /\ req[p] \in Request /\ ReqOK(req[p])
  BY DEF StateTypeOK, RequestInv
<1>1. CASE MoveRestart(p)
  <2>1. /\ req[p].op = "refmove" /\ req[p].pc = "restart" /\ req[p].ref \in Ref /\ req[p].frame \in Frame
        /\ req[p].got.autorun \in Argv \cup {None}
    BY <1>1, <1>t, MoveFields, RefFiles DEF MoveRestart, At
  <2>2. CASE req[p].got.autorun # None
    <3>1. PICK v \in ProcessType : v = Process(req[p].frame, req[p].got.autorun)
      BY <2>1, <2>2, Processes
    <3>2. run' = [run EXCEPT ![req[p].ref] = v]
      BY <1>1, <2>2, <3>1 DEF MoveRestart, Restarted
    <3> QED BY <2>1, <3>2, <1>t DEF RefOn
  <2>3. CASE req[p].got.autorun = None
    BY <1>1, <2>3, <1>t DEF MoveRestart
  <2> QED BY <2>2, <2>3
<1>2. CASE AutorunApply(p)
  <2>1. /\ req[p].op = "autorun" /\ req[p].pc = "apply" /\ req[p].ref \in Ref /\ req[p].got \in RefFile
    BY <1>2, <1>t DEF AutorunApply, AutorunStart, AutorunStop, At, ReqOK
  <2>2. req[p].cmd \in Argv \cup {None} /\ req[p].got.uuid \in Frame
    BY <2>1, <1>t, RefFiles, RequestFields
  <2>3. CASE req[p].cmd # None
    <3>1. PICK v \in ProcessType : v = Process(req[p].got.uuid, req[p].cmd)
      BY <2>2, <2>3, Processes
    <3>2. run' = run \/ run' = [run EXCEPT ![req[p].ref] = v]
      BY <1>2, <2>3, <3>1 DEF AutorunApply, AutorunStart, AutorunStop
    <3> QED BY <2>1, <3>2, <1>t DEF RefOn
  <2>4. CASE req[p].cmd = None
    <3>1. run' = [run EXCEPT ![req[p].ref] = None]
      BY <1>2, <2>4 DEF AutorunApply, AutorunStart, AutorunStop
    <3> QED BY <2>1, <3>1, <1>t DEF RefOn
  <2> QED BY <2>3, <2>4
<1>3. CASE RefDeleteStop(p)
  <2>1. /\ req[p].op = "refdelete" /\ req[p].pc = "stop" /\ req[p].ref \in Ref
        /\ run' = [run EXCEPT ![req[p].ref] = None]
    BY <1>3, <1>t DEF RefDeleteStop, At, ReqOK
  <2> QED BY <2>1, <1>t DEF RefOn
<1>4. CASE EnterRepair(p)
  <2>1. /\ req[p].op \in {"enter", "attempt"} /\ req[p].frame \in Frame
        /\ req[p].op = "attempt" => req[p].ref \in Ref
    BY <1>4, <1>t DEF EnterRepair, Entering, ReqOK
  <2>2. CASE run' = run
    BY <2>2, <1>t
  <2>3. CASE run' # run
    <3>1. /\ AttemptOf(req[p], req[p].ref) /\ run[req[p].ref] # None
          /\ run' = [run EXCEPT ![req[p].ref].at = req[p].frame]
      BY <1>4, <2>1, <2>3 DEF EnterRepair
    <3>2. PICK f \in Frame, r \in Ref : f = req[p].frame /\ r = req[p].ref
      BY <2>1, <3>1 DEF AttemptOf
    <3>3. PICK x \in ProcessType : x = run[r]
      BY <3>1, <3>2, <1>t
    <3>4. PICK v \in ProcessType : v = [x EXCEPT !.at = f]
      BY Processes
    <3>5. run' = [run EXCEPT ![r] = v]
      BY <3>1, <3>2, <3>3, <3>4
    <3> QED BY <1>4, <3>1, <3>2, <3>3, <3>4, <3>5, <1>t
  <2> QED BY <2>2, <2>3
<1> QED BY <1>1, <1>2, <1>3, <1>4, <1>t, StepTouched DEF Touched

\* A sidecar is written for a frame whose UUID was handed out before, or is now.
LEMMA MetaStep ==
    ASSUME StateTypeOK, RequestInv, NEW p \in Proc, Step(p)
    PROVE  /\ meta' \in [Frame -> Sidecar \cup {None}] /\ issued \subseteq issued' /\ issued' \subseteq Frame
           /\ \A f \in Frame : meta'[f] # meta[f] => f \in issued' \/ req[p].frame = f
<1>t. /\ meta \in [Frame -> Sidecar \cup {None}] /\ issued \subseteq Frame /\ req[p] \in Request /\ ReqOK(req[p])
  BY DEF StateTypeOK, RequestInv
<1>s. \A l \in [Comp -> Snap \cup {None}], b \in BOOLEAN : [snap |-> l, tainted |-> b] \in Sidecar
  BY DEF Sidecar
<1>l. req[p].layout \in [Comp -> Snap \cup {None}]
  BY <1>t, RequestFields
<1>1. CASE DeleteSidecar(p)
  <2>1. req[p].frame \in Frame /\ issued' = issued
    BY <1>1, <1>t DEF DeleteSidecar, ReqOK, At
  <2>2. CASE meta' = meta
    BY <2>1, <2>2, <1>t
  <2>3. CASE meta' = [meta EXCEPT ![req[p].frame] = None]
    BY <2>1, <2>3, <1>t
  <2> QED BY <1>1, <2>2, <2>3 DEF DeleteSidecar
<1>2. CASE CreateCheck(p)
  <2>1. CASE meta' = meta /\ issued' = issued
    BY <2>1, <1>t
  <2>2. CASE ~(meta' = meta /\ issued' = issued)
    <3>1. PICK f \in Fresh : /\ f \in Frame /\ issued' = issued \cup {f}
                             /\ meta' = [meta EXCEPT ![f] = [snap |-> req[p].layout, tainted |-> FALSE]]
      BY <2>2, <1>2, CreateCheckStep
    <3>2. PICK v \in Sidecar : v = [snap |-> req[p].layout, tainted |-> FALSE]
      BY <1>s, <1>l
    <3>3. meta' = [meta EXCEPT ![f] = v]
      BY <3>1, <3>2
    <3> QED BY <3>1, <3>3, <1>t
  <2> QED BY <2>1, <2>2
<1>3. CASE BuildMeta(p)
  <2>1. req[p].frame \in Frame /\ issued' = issued
    BY <1>3, <1>t, BuildingFrame DEF BuildMeta
  <2>2. BuildTaints(req[p]) \in BOOLEAN
    BY DEF BuildTaints, UnionTaints
  <2>3. PICK v \in Sidecar : v = [snap |-> req[p].layout, tainted |-> BuildTaints(req[p])]
    BY <2>2, <1>s, <1>l
  <2>4. meta' = meta \/ meta' = [meta EXCEPT ![req[p].frame] = v]
    BY <1>3, <2>3 DEF BuildMeta
  <2>5. CASE meta' = meta
    BY <2>1, <2>5, <1>t
  <2>6. CASE meta' = [meta EXCEPT ![req[p].frame] = v]
    BY <2>1, <2>6, <1>t
  <2> QED BY <2>4, <2>5, <2>6
<1>4. CASE Resolve(p)
  <2>1. meta' = meta
    BY <1>4 DEF Resolve, disk
  <2> QED BY <1>4, <2>1, <1>t, ResolveStep
<1> QED BY <1>1, <1>2, <1>3, <1>4, <1>t, StepTouched DEF Touched

LEMMA StepTypes ==
    ASSUME StateTypeOK, RequestInv, NEW p \in Proc, Step(p)
    PROVE  StateTypeOK' /\ RequestInv'
<1>1. StepOf(p)
  BY StepRequest
<1>2. RequestInv'
  BY <1>1 DEF StepOf, RequestInv
<1>3. snaps' \subseteq Snap
  <2>1. CASE CreateFetch(p)
    <3>1. req[p].layout \in [Comp -> Snap \cup {None}]
      BY RequestFields DEF StateTypeOK
    <3>2. req[p].layout["root"] \in Snap \cup {None}
      BY <3>1 DEF Comp
    <3>3. snaps \subseteq Snap
      BY DEF StateTypeOK
    <3>4. \/ snaps' = snaps
          \/ snaps' = snaps \cup {req[p].layout["root"]} /\ req[p].layout["root"] # None
      BY <2>1 DEF CreateFetch
    <3> QED BY <3>2, <3>3, <3>4
  <2> QED BY <2>1, StepTouched DEF Touched, StateTypeOK
<1>4. ops' \in Nat
  BY StepTouched DEF Touched, Start, StateTypeOK
<1>5. req' \in [Proc -> Request]
  BY <1>1 DEF StepOf
<1> QED BY <1>2, <1>3, <1>4, <1>5, RefsStep, TreeStep, IdentStep, RunStep, MetaStep DEF StateTypeOK

\* A request goes on as it is to its next step.
GoesOn(p) ==
    /\ KeptToo(req'[p], req[p]) /\ KeptReads(req'[p], req[p]) /\ KeptScan(req'[p], req[p])
    /\ \E l \in Pcs : Goto(p, l)

\* What a step does to its request.
ReqChange(p) ==
    \/ req'[p] = Idle /\ Done(p)
    \/ req[p] = Idle /\ FirstStep(req'[p])
    \/ Attempt(p)
    \/ GoesOn(p)
    \/ /\ KeptToo(req'[p], req[p])
       /\ \/ RefGet(p) \/ RefReread(p) \/ RefDeleteGet(p)
          \/ DeleteList(p) \/ DeleteScan(p) \/ DeleteScanFails(p)
    \/ /\ Kept(req'[p], req[p]) /\ KeptReads(req'[p], req[p])
       /\ \/ CreateCheck(p) /\ req'[p].pc = "fetch" /\ req'[p].frame \in issued'
          \/ EntersFrame(p) /\ (Resolve(p) \/ GoLookup(p))
          \/ EnsureRootFS(p) /\ req'[p].pc = "root" /\ req'[p].frame = req[p].frame

LEMMA StepChange ==
    ASSUME StateTypeOK, RequestInv, NEW p \in Proc, Step(p)
    PROVE  ReqChange(p)
<1>t. req \in [Proc -> Request] /\ req[p] \in Request /\ ReqOK(req[p])
  BY DEF StateTypeOK, RequestInv
<1>p. {"stat", "write", "ensure", "reread", "identity", "rename", "restart", "apply", "get", "unlink",
       "stop", "scrub", "scan", "home", "work", "id", "root", "sidecar", "fetch", "meta",
       "repair", "in"} \subseteq Pcs
  BY PcsFacts
<1>d. Done(p) => ReqChange(p)
  BY <1>t, DoneEffect DEF ReqChange
<1>g. ASSUME NEW l \in Pcs, Goto(p, l) PROVE ReqChange(p)
  BY <1>g, <1>t, GotoEffect DEF ReqChange, GoesOn
<1>h. Done(p) \/ (\E l \in Pcs : Goto(p, l)) => ReqChange(p)
  BY <1>d, <1>g
<1>1. CASE Start(p)
  BY <1>1, StartRequest DEF ReqChange
<1>2. CASE RefCreateLookup(p)
  BY <1>2, <1>d, <1>g, <1>p DEF RefCreateLookup
<1>3. CASE RefCreateStat(p)
  BY <1>3, <1>d, <1>g, <1>p DEF RefCreateStat
<1>4. CASE RefCreateWrite(p)
  BY <1>4, <1>d, <1>g, <1>p DEF RefCreateWrite
<1>5. CASE RefCreateEnsure(p)
  BY <1>5, <1>d, <1>g, <1>p DEF RefCreateEnsure
<1>6. CASE RefGet(p)
  BY <1>6, <1>d, RefGetStep DEF ReqChange
<1>7. CASE RefReread(p)
  BY <1>7, <1>d, RefRereadStep DEF ReqChange
<1>8. CASE RefWrite(p)
  BY <1>8, <1>d, <1>g, <1>p DEF RefWrite
<1>9. CASE MoveIdentity(p)
  BY <1>9, <1>d, <1>g, <1>p DEF MoveIdentity
<1>10. CASE MoveRename(p)
  BY <1>10, <1>d, <1>g, <1>p DEF MoveRename
<1>11. CASE MoveRestart(p)
  BY <1>11, <1>d, <1>g, <1>p DEF MoveRestart
<1>12. CASE AutorunApply(p)
  BY <1>12, <1>d, <1>g, <1>p DEF AutorunApply, AutorunStart, AutorunStop
<1>13. CASE RefDeleteCheck(p)
  BY <1>13, <1>d, <1>g, <1>p DEF RefDeleteCheck
<1>14. CASE RefDeleteGet(p)
  BY <1>14, RefDeleteGetStep DEF ReqChange
<1>15. CASE RefDeleteUnlink(p)
  BY <1>15, <1>d, <1>g, <1>p DEF RefDeleteUnlink
<1>16. CASE RefDeleteStop(p)
  BY <1>16, <1>d, <1>g, <1>p DEF RefDeleteStop
<1>17. CASE RefDeleteScrub(p)
  BY <1>17, <1>d, <1>g, <1>p DEF RefDeleteScrub
<1>18. CASE DeleteList(p)
  BY <1>18, DeleteListStep DEF ReqChange
<1>19. CASE DeleteScan(p)
  BY <1>19, DeleteScanStep DEF ReqChange
<1>35. CASE DeleteScanFails(p)
  BY <1>35, DeleteScanFailsStep DEF ReqChange
<1>20. CASE DeleteGate(p)
  BY <1>20, <1>d, <1>g, <1>p DEF DeleteGate
<1>21. CASE DeleteNested(p)
  <2>1. [home |-> "work", work |-> "id", id |-> "root"][req[p].pc] \in Pcs
    BY <1>21, <1>p DEF DeleteNested
  <2>2. Goto(p, [home |-> "work", work |-> "id", id |-> "root"][req[p].pc])
    BY <1>21 DEF DeleteNested
  <2> QED BY <2>1, <2>2, <1>h
<1>22. CASE DeleteRoot(p)
  BY <1>22, <1>d, <1>g, <1>p DEF DeleteRoot
<1>23. CASE DeleteSidecar(p)
  BY <1>23, <1>d, <1>g, <1>p DEF DeleteSidecar
<1>24. CASE CreateCheck(p)
  BY <1>24, <1>d, CreateCheckStep DEF ReqChange
<1>25. CASE CreateFetch(p)
  BY <1>25, <1>d, <1>g, <1>p DEF CreateFetch
<1>26. CASE BuildComp(p)
  <2>1. AfterComp(req[p], req[p].pc) \in Pcs
    BY <1>26, <1>p DEF BuildComp, AfterComp, Comp
  <2>2. Done(p) \/ Goto(p, AfterComp(req[p], req[p].pc))
    BY <1>26 DEF BuildComp
  <2> QED BY <2>1, <2>2, <1>h
<1>27. CASE BuildMeta(p)
  BY <1>27, <1>d, <1>g, <1>p DEF BuildMeta
<1>28. CASE BuildID(p)
  BY <1>28, <1>d, <1>g, <1>p DEF BuildID
<1>29. CASE Resolve(p)
  <2>1. EntersFrame(p) => ReqChange(p)
    BY <1>29 DEF EntersFrame, ReqChange
  <2> QED BY <1>29, <2>1, <1>d, ResolveStep
<1>30. CASE GoLookup(p)
  <2>1. EntersFrame(p) => ReqChange(p)
    BY <1>30 DEF EntersFrame, ReqChange
  <2> QED BY <1>30, <2>1, <1>d, GoLookupStep
<1>31. CASE EnsureRootFS(p)
  BY <1>31, <1>g, <1>p, EnsureRootFSStep DEF ReqChange
<1>32. CASE EnterRepair(p)
  BY <1>32, <1>d, <1>g, <1>p DEF EnterRepair
<1>33. CASE Leave(p)
  BY <1>33, <1>d, <1>g, <1>p DEF Leave
<1>34. CASE Attempt(p)
  BY <1>34 DEF ReqChange
<1> QED BY <1>1, <1>2, <1>3, <1>4, <1>5, <1>6, <1>7, <1>8, <1>9, <1>10, <1>11, <1>12, <1>13, <1>14, <1>15, <1>16, <1>17, <1>18, <1>19, <1>20, <1>21, <1>22, <1>23, <1>24, <1>25, <1>26, <1>27, <1>28, <1>29, <1>30, <1>31, <1>32, <1>33, <1>34, <1>35 DEF Step, AutorunApply


LEMMA IssuedStep ==
    ASSUME StateTypeOK, RequestInv, IssuedInv, NEW p \in Proc, Step(p)
    PROVE  IssuedInv'
<1>t. /\ req[p] \in Request /\ ReqOK(req[p]) /\ issued \subseteq issued' /\ issued' \subseteq Frame
      /\ StateTypeOK' /\ None \notin Frame
  BY StepTypes, MetaStep, FrameStoreAssumption DEF StateTypeOK, RequestInv
<1>i. /\ req[p].frame \in issued \cup {None}
      /\ req[p].got # None => req[p].got.uuid \in issued
      /\ req[p].copy # None => req[p].copy.uuid \in issued
      /\ \A r \in Ref : refs[r] # None => refs[r].uuid \in issued
  BY DEF IssuedInv
<1>o. \A q \in Proc : q # p => req'[q] = req[q]
  BY StepRequest DEF StepOf
<1>1. \A f \in Frame \ issued' : tree'[f] = {} /\ meta'[f] = None
  <2> SUFFICES ASSUME NEW f \in Frame \ issued' PROVE tree'[f] = {} /\ meta'[f] = None
    OBVIOUS
  <2>1. tree[f] = {} /\ meta[f] = None /\ f # req[p].frame
    BY <1>t, <1>i DEF IssuedInv
  <2> QED BY <2>1, TreeStep, MetaStep
<1>2. \A f \in Frame : tree'[f] # {} => "root" \in tree'[f]
  BY TreeStep DEF IssuedInv
<1>3. ASSUME NEW r \in Ref, refs'[r] # None PROVE refs'[r].uuid \in issued'
  <2>1. CASE refs'[r] = refs[r]
    BY <2>1, <1>3, <1>i, <1>t
  <2>2. CASE refs'[r] = NewRef(req[p].frame) /\ req[p].frame \in Frame
    <3>1. req[p].frame \in issued
      BY <2>2, <1>i, <1>t
    <3>2. refs'[r].uuid = req[p].frame
      BY <2>2, RefFiles
    <3> QED BY <3>1, <3>2, <1>t
  <2>3. CASE refs'[r] = req[p].copy /\ req[p].copy \in RefFile
    BY <2>3, <1>i, <1>t, RefFiles
  <2> QED BY <1>3, <2>1, <2>2, <2>3, RefsStep
<1>4. /\ req'[p].frame \in issued' \cup {None}
      /\ req'[p].got # None => req'[p].got.uuid \in issued'
      /\ req'[p].copy # None => req'[p].copy.uuid \in issued'
  <2> DEFINE n == req'[p]
             q == req[p]
  <2>1. CASE n = Idle
    BY <2>1, IdleRequest
  <2>2. CASE FirstStep(n)
    BY <2>2, <1>t DEF FirstStep
  <2>3. CASE Attempt(p)
    BY <2>3, AttemptRequest DEF AttemptBegun
  <2>4. CASE GoesOn(p)
    BY <2>4, <1>i, <1>t DEF GoesOn, KeptToo, KeptReads
  <2>5. CASE KeptToo(n, q) /\ (RefGet(p) \/ RefDeleteGet(p))
    <3>1. n.frame = q.frame
      BY <2>5 DEF KeptToo
    <3>2. n = Idle \/ (n.got \in {refs[q.ref], None} /\ n.copy = q.copy /\ q.ref \in Ref)
      BY <2>5, RefGetStep, RefDeleteGetStep, DoneEffect DEF StateTypeOK
    <3> QED BY <2>1, <3>1, <3>2, <1>i, <1>t
  <2>6. CASE KeptToo(n, q) /\ RefReread(p)
    <3>1. n.frame = q.frame
      BY <2>6 DEF KeptToo
    <3>2. \/ n = Idle
          \/ /\ n.got = q.got /\ q.ref \in Ref /\ refs[q.ref] \in RefFile
             /\ n.copy = IF q.op = "refmove" THEN Moved(refs[q.ref], q.frame)
                         ELSE SetAutorun(refs[q.ref], q.cmd)
      BY <2>6, RefRereadStep, DoneEffect DEF StateTypeOK
    <3>3. q.op = "refmove" => q.frame \in Frame
      BY <1>t DEF ReqOK
    <3>4. q.cmd \in Argv \cup {None}
      BY <1>t, RequestFields
    <3>5. n = Idle \/ (n.got = q.got /\ n.copy.uuid \in issued)
      <4> HIDE DEF n, q
      <4>1. q.frame \in issued \cup {None} /\ \A r \in Ref : refs[r] \in RefFile => refs[r].uuid \in issued
        BY <1>i, RefFiles DEF q
      <4>2. CASE n # Idle /\ q.op = "refmove"
        <5>1. q.frame \in issued /\ q.frame \in Frame
          BY <4>2, <3>3, <4>1, <1>t
        <5>2. n.copy.uuid = q.frame
          <6>1. n.copy = Moved(refs[q.ref], q.frame) /\ refs[q.ref] \in RefFile
            BY <4>2, <3>2
          <6>2. \A g \in RefFile, f \in Frame : Moved(g, f).uuid = f
            BY RefFiles
          <6> QED BY <6>1, <6>2, <5>1
        <5> QED BY <4>2, <5>1, <5>2, <3>2
      <4>3. CASE n # Idle /\ q.op # "refmove"
        <5>1. n.copy.uuid = refs[q.ref].uuid
          <6>1. n.copy = SetAutorun(refs[q.ref], q.cmd) /\ refs[q.ref] \in RefFile
            BY <4>3, <3>2
          <6>2. \A g \in RefFile, b \in Argv \cup {None} : SetAutorun(g, b).uuid = g.uuid
            BY RefFiles
          <6> QED BY <6>1, <6>2, <3>4
        <5> QED BY <4>3, <5>1, <3>2, <4>1
      <4> QED BY <4>2, <4>3
    <3> QED BY <2>1, <3>1, <3>5, <1>i, <1>t
  <2>7. CASE KeptToo(n, q) /\ (DeleteList(p) \/ DeleteScan(p) \/ DeleteScanFails(p))
    <3>1. n.frame = q.frame
      BY <2>7 DEF KeptToo
    <3>2. n.got = q.got /\ n.copy = q.copy
      BY <2>7, DeleteListStep, DeleteScanStep, DeleteScanFailsStep DEF KeptReads
    <3> QED BY <3>1, <3>2, <1>i, <1>t
  <2>8. CASE KeptReads(n, q) /\ (n.frame = q.frame \/ n.frame \in issued')
    BY <2>8, <1>i, <1>t DEF KeptReads
  <2>9. CASE KeptReads(n, q) /\ EntersFrame(p)
    <3>1. n.frame \in FrameList \cup {refs[r].uuid : r \in RefNames} \cup issued'
      BY <2>9 DEF EntersFrame
    <3>2. FrameList \subseteq issued /\ \A r \in RefNames : refs[r].uuid \in issued
      BY DEF FrameList, RefNames, IssuedInv
    <3>3. n.frame \in issued'
      BY <3>1, <3>2, <1>t
    <3> QED BY <2>8, <2>9, <3>3
  <2> HIDE DEF n, q
  <2>10. ReqChange(p)
    BY StepChange
  <2> QED BY <2>1, <2>2, <2>3, <2>4, <2>5, <2>6, <2>7, <2>8, <2>9, <2>10 DEF ReqChange, n, q
<1>5. \A q \in Proc : /\ req'[q].frame \in issued' \cup {None}
                      /\ req'[q].got # None => req'[q].got.uuid \in issued'
                      /\ req'[q].copy # None => req'[q].copy.uuid \in issued'
  <2> SUFFICES ASSUME NEW q \in Proc, q # p
               PROVE  /\ req[q].frame \in issued' \cup {None}
                      /\ req[q].got # None => req[q].got.uuid \in issued'
                      /\ req[q].copy # None => req[q].copy.uuid \in issued'
    BY <1>4, <1>o
  <2> QED BY <1>t DEF IssuedInv
<1> QED BY <1>1, <1>2, <1>3, <1>5 DEF IssuedInv

\* The steps of the handlers: from which pc to which.
StepTable(p) ==
    \/ Start(p) /\ req[p] = Idle /\ FirstStep(req'[p])
    \/ Attempt(p) /\ req[p] = Idle /\ req'[p].op = "attempt" /\ req'[p].pc = "resolve"
    \/ /\ RefCreateLookup(p) /\ req[p].op = "refcreate" /\ req[p].pc = "lookup"
       /\ req'[p] = Idle \/ (req'[p].pc = "stat" /\ Kept(req'[p], req[p]))
    \/ /\ RefCreateStat(p) /\ req[p].op \in {"refcreate", "create"} /\ req[p].pc = "stat"
       /\ req'[p] = Idle \/ (req'[p].pc = "write" /\ Kept(req'[p], req[p]))
    \/ /\ RefCreateWrite(p) /\ req[p].op \in {"refcreate", "create"} /\ req[p].pc = "write"
       /\ req'[p] = Idle \/ (req'[p].pc = "ensure" /\ Kept(req'[p], req[p]))
    \/ /\ RefCreateEnsure(p) /\ req[p].op = "refcreate" /\ req[p].pc = "ensure"
       /\ req'[p] = Idle
    \/ /\ RefGet(p) /\ req[p].op \in {"refmove", "autorun"} /\ req[p].pc = "get"
       /\ req'[p] = Idle \/ (req'[p].pc = "reread" /\ Kept(req'[p], req[p]))
    \/ /\ RefReread(p) /\ req[p].op \in {"refmove", "autorun"} /\ req[p].pc = "reread"
       /\ req'[p] = Idle \/ (req'[p].pc = "write" /\ Kept(req'[p], req[p]))
    \/ /\ RefWrite(p) /\ req[p].op \in {"refmove", "autorun"} /\ req[p].pc = "write"
       /\ req'[p] = Idle \/ (req'[p].pc \in {"identity", "apply"} /\ Kept(req'[p], req[p]))
    \/ /\ MoveIdentity(p) /\ req[p].op = "refmove" /\ req[p].pc = "identity"
       /\ req'[p] = Idle \/ (req'[p].pc \in {"rename", "restart"} /\ Kept(req'[p], req[p]))
    \/ /\ MoveRename(p) /\ req[p].op = "refmove" /\ req[p].pc = "rename"
       /\ req'[p] = Idle \/ (req'[p].pc = "restart" /\ Kept(req'[p], req[p]))
    \/ /\ MoveRestart(p) /\ req[p].op = "refmove" /\ req[p].pc = "restart"
       /\ req'[p] = Idle
    \/ /\ AutorunApply(p) /\ req[p].op = "autorun" /\ req[p].pc = "apply"
       /\ req'[p] = Idle
    \/ /\ RefDeleteCheck(p) /\ req[p].op = "refdelete" /\ req[p].pc = "iddir"
       /\ req'[p] = Idle \/ (req'[p].pc = "get" /\ Kept(req'[p], req[p]))
    \/ /\ RefDeleteGet(p) /\ req[p].op = "refdelete" /\ req[p].pc = "get"
       /\ req'[p] = Idle \/ (req'[p].pc = "unlink" /\ Kept(req'[p], req[p]))
    \/ /\ RefDeleteUnlink(p) /\ req[p].op = "refdelete" /\ req[p].pc = "unlink"
       /\ req'[p] = Idle \/ (req'[p].pc = "stop" /\ Kept(req'[p], req[p]))
    \/ /\ RefDeleteStop(p) /\ req[p].op = "refdelete" /\ req[p].pc = "stop"
       /\ req'[p] = Idle \/ (req'[p].pc = "scrub" /\ Kept(req'[p], req[p]))
    \/ /\ RefDeleteScrub(p) /\ req[p].op = "refdelete" /\ req[p].pc = "scrub"
       /\ req'[p] = Idle
    \/ /\ DeleteList(p) /\ req[p].op = "delframe" /\ req[p].pc = "list"
       /\ req'[p] = Idle \/ (req'[p].pc = "scan" /\ Kept(req'[p], req[p]))
    \/ /\ DeleteScan(p) /\ req[p].op = "delframe" /\ req[p].pc = "scan"
       /\ req'[p] = Idle \/ (req'[p].pc = "scan" /\ Kept(req'[p], req[p]))
    \/ /\ DeleteScanFails(p) /\ req[p].op = "delframe" /\ req[p].pc = "scan"
       /\ req'[p] = Idle \/ (req'[p].pc = "scan" /\ Kept(req'[p], req[p]))
    \/ /\ DeleteGate(p) /\ req[p].op = "delframe" /\ req[p].pc = "scan"
       /\ req'[p] = Idle \/ (req'[p].pc = "home" /\ Kept(req'[p], req[p]))
    \/ /\ DeleteNested(p) /\ req[p].op = "delframe" /\ req[p].pc \in {"home", "work", "id"}
       /\ req'[p] = Idle \/ (req'[p].pc \in {"work", "id", "root"} /\ Kept(req'[p], req[p]))
    \/ /\ DeleteRoot(p) /\ req[p].op = "delframe" /\ req[p].pc = "root"
       /\ req'[p] = Idle \/ (req'[p].pc = "sidecar" /\ Kept(req'[p], req[p]))
    \/ /\ DeleteSidecar(p) /\ req[p].op = "delframe" /\ req[p].pc = "sidecar"
       /\ req'[p] = Idle
    \/ /\ CreateCheck(p) /\ req[p].op = "create" /\ req[p].pc = "check"
       /\ req'[p] = Idle \/ (req'[p].pc = "fetch" /\ Kept(req'[p], req[p]))
    \/ /\ CreateFetch(p) /\ req[p].op = "create" /\ req[p].pc = "fetch"
       /\ req'[p] = Idle \/ (req'[p].pc = "root" /\ Kept(req'[p], req[p]))
    \/ /\ BuildComp(p) /\ req[p].op \in {"create", "enter", "attempt"} /\ req[p].pc \in {"root", "home", "work"}
       /\ req'[p] = Idle \/ (req'[p].pc \in {"home", "work", "meta"} /\ Kept(req'[p], req[p]))
    \/ /\ BuildMeta(p) /\ req[p].op \in {"create", "enter", "attempt"} /\ req[p].pc = "meta"
       /\ req'[p] = Idle \/ (req'[p].pc = "id" /\ Kept(req'[p], req[p]))
    \/ /\ BuildID(p) /\ req[p].op \in {"create", "enter", "attempt"} /\ req[p].pc = "id"
       /\ req'[p] = Idle \/ (req'[p].pc \in {"repair", "stat"} /\ Kept(req'[p], req[p]))
    \/ /\ Resolve(p) /\ req[p].op \in {"enter", "attempt"} /\ req[p].pc = "resolve"
       /\ req'[p] = Idle \/ (req'[p].pc = "stat" /\ Kept(req'[p], req[p]))
    \/ /\ GoLookup(p) /\ req[p].op = "enter" /\ req[p].pc = "go"
       /\ req'[p] = Idle \/ (req'[p].pc = "stat" /\ Kept(req'[p], req[p]))
    \/ /\ EnsureRootFS(p) /\ req[p].op \in {"enter", "attempt"} /\ req[p].pc = "stat"
       /\ req'[p] = Idle \/ (req'[p].pc \in {"repair", "root"} /\ Kept(req'[p], req[p]))
    \/ /\ EnterRepair(p) /\ req[p].op \in {"enter", "attempt"} /\ req[p].pc = "repair"
       /\ req'[p] = Idle \/ (req'[p].pc = "in" /\ Kept(req'[p], req[p]))
    \/ /\ Leave(p) /\ req[p].op \in {"enter", "attempt"} /\ req[p].pc = "in"
       /\ req'[p] = Idle

LEMMA StepTabled ==
    ASSUME StateTypeOK, RequestInv, NEW p \in Proc, Step(p)
    PROVE  StepTable(p)
<1>t. req \in [Proc -> Request] /\ req[p] \in Request /\ ReqOK(req[p])
  BY DEF StateTypeOK, RequestInv
<1>p. {"stat", "write", "ensure", "reread", "identity", "rename", "restart", "apply", "get", "unlink",
       "stop", "scrub", "scan", "home", "work", "id", "root", "sidecar", "fetch", "meta",
       "repair", "in"} \subseteq Pcs
  BY PcsFacts
<1>d. Done(p) => req'[p] = Idle
  BY <1>t, DoneEffect
<1>g. ASSUME NEW l \in Pcs, Goto(p, l) PROVE req'[p].pc = l /\ Kept(req'[p], req[p])
  BY <1>g, <1>t, GotoEffect DEF KeptToo
<1>1. CASE Start(p)
  BY <1>1, StartRequest DEF StepTable
<1>2. CASE RefCreateLookup(p)
  <2>1. req[p].op = "refcreate" /\ req[p].pc = "lookup"
    BY <1>2 DEF RefCreateLookup, At
  <2>2. (req'[p] = Idle \/ (req'[p].pc = "stat" /\ Kept(req'[p], req[p])))
    BY <1>2, <1>d, <1>g, <1>p DEF RefCreateLookup
  <2> QED BY <1>2, <2>1, <2>2 DEF StepTable
<1>3. CASE RefCreateStat(p)
  <2>1. req[p].op \in {"refcreate", "create"} /\ req[p].pc = "stat"
    BY <1>3 DEF RefCreateStat, At
  <2>2. (req'[p] = Idle \/ (req'[p].pc = "write" /\ Kept(req'[p], req[p])))
    BY <1>3, <1>d, <1>g, <1>p DEF RefCreateStat
  <2> QED BY <1>3, <2>1, <2>2 DEF StepTable
<1>4. CASE RefCreateWrite(p)
  <2>1. req[p].op \in {"refcreate", "create"} /\ req[p].pc = "write"
    BY <1>4 DEF RefCreateWrite, At
  <2>2. (req'[p] = Idle \/ (req'[p].pc = "ensure" /\ Kept(req'[p], req[p])))
    BY <1>4, <1>d, <1>g, <1>p DEF RefCreateWrite
  <2> QED BY <1>4, <2>1, <2>2 DEF StepTable
<1>5. CASE RefCreateEnsure(p)
  <2>1. req[p].op = "refcreate" /\ req[p].pc = "ensure"
    BY <1>5 DEF RefCreateEnsure, At
  <2>2. req'[p] = Idle
    BY <1>5, <1>d, <1>g, <1>p DEF RefCreateEnsure
  <2> QED BY <1>5, <2>1, <2>2 DEF StepTable
<1>6. CASE RefGet(p)
  <2>1. req[p].op \in {"refmove", "autorun"} /\ req[p].pc = "get"
    BY <1>6 DEF RefGet, At
  <2>2. (req'[p] = Idle \/ (req'[p].pc = "reread" /\ Kept(req'[p], req[p])))
    BY <1>6, <1>d, <2>1, RefGetStep DEF KeptToo, EntersFrame
  <2> QED BY <1>6, <2>1, <2>2 DEF StepTable
<1>7. CASE RefReread(p)
  <2>1. req[p].op \in {"refmove", "autorun"} /\ req[p].pc = "reread"
    BY <1>7 DEF RefReread, At
  <2>2. (req'[p] = Idle \/ (req'[p].pc = "write" /\ Kept(req'[p], req[p])))
    BY <1>7, <1>d, <2>1, RefRereadStep DEF KeptToo, EntersFrame
  <2> QED BY <1>7, <2>1, <2>2 DEF StepTable
<1>8. CASE RefWrite(p)
  <2>1. req[p].op \in {"refmove", "autorun"} /\ req[p].pc = "write"
    BY <1>8 DEF RefWrite, At
  <2>2. (req'[p] = Idle \/ (req'[p].pc \in {"identity", "apply"} /\ Kept(req'[p], req[p])))
    BY <1>8, <1>d, <1>g, <1>p DEF RefWrite
  <2> QED BY <1>8, <2>1, <2>2 DEF StepTable
<1>9. CASE MoveIdentity(p)
  <2>1. req[p].op = "refmove" /\ req[p].pc = "identity"
    BY <1>9 DEF MoveIdentity, At
  <2>2. (req'[p] = Idle \/ (req'[p].pc \in {"rename", "restart"} /\ Kept(req'[p], req[p])))
    BY <1>9, <1>d, <1>g, <1>p DEF MoveIdentity
  <2> QED BY <1>9, <2>1, <2>2 DEF StepTable
<1>10. CASE MoveRename(p)
  <2>1. req[p].op = "refmove" /\ req[p].pc = "rename"
    BY <1>10 DEF MoveRename, At
  <2>2. (req'[p] = Idle \/ (req'[p].pc = "restart" /\ Kept(req'[p], req[p])))
    BY <1>10, <1>d, <1>g, <1>p DEF MoveRename
  <2> QED BY <1>10, <2>1, <2>2 DEF StepTable
<1>11. CASE MoveRestart(p)
  <2>1. req[p].op = "refmove" /\ req[p].pc = "restart"
    BY <1>11 DEF MoveRestart, At
  <2>2. req'[p] = Idle
    BY <1>11, <1>d, <1>g, <1>p DEF MoveRestart
  <2> QED BY <1>11, <2>1, <2>2 DEF StepTable
<1>12. CASE AutorunApply(p)
  <2>1. req[p].op = "autorun" /\ req[p].pc = "apply"
    BY <1>12 DEF AutorunApply, AutorunStart, AutorunStop, At
  <2>2. req'[p] = Idle
    BY <1>12, <1>d, <1>g, <1>p DEF AutorunApply, AutorunStart, AutorunStop
  <2> QED BY <1>12, <2>1, <2>2 DEF StepTable
<1>13. CASE RefDeleteCheck(p)
  <2>1. req[p].op = "refdelete" /\ req[p].pc = "iddir"
    BY <1>13 DEF RefDeleteCheck, At
  <2>2. (req'[p] = Idle \/ (req'[p].pc = "get" /\ Kept(req'[p], req[p])))
    BY <1>13, <1>d, <1>g, <1>p DEF RefDeleteCheck
  <2> QED BY <1>13, <2>1, <2>2 DEF StepTable
<1>14. CASE RefDeleteGet(p)
  <2>1. req[p].op = "refdelete" /\ req[p].pc = "get"
    BY <1>14 DEF RefDeleteGet, At
  <2>2. (req'[p] = Idle \/ (req'[p].pc = "unlink" /\ Kept(req'[p], req[p])))
    BY <1>14, <1>d, <2>1, RefDeleteGetStep DEF KeptToo, EntersFrame
  <2> QED BY <1>14, <2>1, <2>2 DEF StepTable
<1>15. CASE RefDeleteUnlink(p)
  <2>1. req[p].op = "refdelete" /\ req[p].pc = "unlink"
    BY <1>15 DEF RefDeleteUnlink, At
  <2>2. (req'[p] = Idle \/ (req'[p].pc = "stop" /\ Kept(req'[p], req[p])))
    BY <1>15, <1>d, <1>g, <1>p DEF RefDeleteUnlink
  <2> QED BY <1>15, <2>1, <2>2 DEF StepTable
<1>16. CASE RefDeleteStop(p)
  <2>1. req[p].op = "refdelete" /\ req[p].pc = "stop"
    BY <1>16 DEF RefDeleteStop, At
  <2>2. (req'[p] = Idle \/ (req'[p].pc = "scrub" /\ Kept(req'[p], req[p])))
    BY <1>16, <1>d, <1>g, <1>p DEF RefDeleteStop
  <2> QED BY <1>16, <2>1, <2>2 DEF StepTable
<1>17. CASE RefDeleteScrub(p)
  <2>1. req[p].op = "refdelete" /\ req[p].pc = "scrub"
    BY <1>17 DEF RefDeleteScrub, At
  <2>2. req'[p] = Idle
    BY <1>17, <1>d, <1>g, <1>p DEF RefDeleteScrub
  <2> QED BY <1>17, <2>1, <2>2 DEF StepTable
<1>18. CASE DeleteList(p)
  <2>1. req[p].op = "delframe" /\ req[p].pc = "list"
    BY <1>18 DEF DeleteList, At
  <2>2. (req'[p] = Idle \/ (req'[p].pc = "scan" /\ Kept(req'[p], req[p])))
    BY <1>18, <1>d, <2>1, DeleteListStep DEF KeptToo, EntersFrame
  <2> QED BY <1>18, <2>1, <2>2 DEF StepTable
<1>19. CASE DeleteScan(p)
  <2>1. req[p].op = "delframe" /\ req[p].pc = "scan"
    BY <1>19 DEF DeleteScan, At
  <2>2. (req'[p] = Idle \/ (req'[p].pc = "scan" /\ Kept(req'[p], req[p])))
    BY <1>19, <1>d, <2>1, DeleteScanStep DEF KeptToo, EntersFrame
  <2> QED BY <1>19, <2>1, <2>2 DEF StepTable
<1>35. CASE DeleteScanFails(p)
  <2>1. req[p].op = "delframe" /\ req[p].pc = "scan"
    BY <1>35 DEF DeleteScanFails, At
  <2>2. (req'[p] = Idle \/ (req'[p].pc = "scan" /\ Kept(req'[p], req[p])))
    BY <1>35, <1>d, <2>1, DeleteScanFailsStep DEF KeptToo, EntersFrame
  <2> QED BY <1>35, <2>1, <2>2 DEF StepTable
<1>20. CASE DeleteGate(p)
  <2>1. req[p].op = "delframe" /\ req[p].pc = "scan"
    BY <1>20 DEF DeleteGate, At
  <2>2. (req'[p] = Idle \/ (req'[p].pc = "home" /\ Kept(req'[p], req[p])))
    BY <1>20, <1>d, <1>g, <1>p DEF DeleteGate
  <2> QED BY <1>20, <2>1, <2>2 DEF StepTable
<1>21. CASE DeleteNested(p)
  <2>1. req[p].op = "delframe" /\ req[p].pc \in {"home", "work", "id"}
    BY <1>21 DEF DeleteNested, At
  <2>2. (req'[p] = Idle \/ (req'[p].pc \in {"work", "id", "root"} /\ Kept(req'[p], req[p])))
    <3>1. [home |-> "work", work |-> "id", id |-> "root"][req[p].pc] \in {"work", "id", "root"}
      BY <2>1
    <3>2. Goto(p, [home |-> "work", work |-> "id", id |-> "root"][req[p].pc])
      BY <1>21 DEF DeleteNested
    <3> QED BY <3>1, <3>2, <1>g, <1>p
  <2> QED BY <1>21, <2>1, <2>2 DEF StepTable
<1>22. CASE DeleteRoot(p)
  <2>1. req[p].op = "delframe" /\ req[p].pc = "root"
    BY <1>22 DEF DeleteRoot, At
  <2>2. (req'[p] = Idle \/ (req'[p].pc = "sidecar" /\ Kept(req'[p], req[p])))
    BY <1>22, <1>d, <1>g, <1>p DEF DeleteRoot
  <2> QED BY <1>22, <2>1, <2>2 DEF StepTable
<1>23. CASE DeleteSidecar(p)
  <2>1. req[p].op = "delframe" /\ req[p].pc = "sidecar"
    BY <1>23 DEF DeleteSidecar, At
  <2>2. req'[p] = Idle
    BY <1>23, <1>d, <1>g, <1>p DEF DeleteSidecar
  <2> QED BY <1>23, <2>1, <2>2 DEF StepTable
<1>24. CASE CreateCheck(p)
  <2>1. req[p].op = "create" /\ req[p].pc = "check"
    BY <1>24 DEF CreateCheck, At
  <2>2. (req'[p] = Idle \/ (req'[p].pc = "fetch" /\ Kept(req'[p], req[p])))
    BY <1>24, <1>d, <2>1, CreateCheckStep DEF KeptToo, EntersFrame
  <2> QED BY <1>24, <2>1, <2>2 DEF StepTable
<1>25. CASE CreateFetch(p)
  <2>1. req[p].op = "create" /\ req[p].pc = "fetch"
    BY <1>25 DEF CreateFetch, At
  <2>2. (req'[p] = Idle \/ (req'[p].pc = "root" /\ Kept(req'[p], req[p])))
    BY <1>25, <1>d, <1>g, <1>p DEF CreateFetch
  <2> QED BY <1>25, <2>1, <2>2 DEF StepTable
<1>26. CASE BuildComp(p)
  <2>1. req[p].op \in {"create", "enter", "attempt"} /\ req[p].pc \in {"root", "home", "work"}
    BY <1>26, <1>t, BuildingFrame DEF BuildComp, Comp
  <2>2. (req'[p] = Idle \/ (req'[p].pc \in {"home", "work", "meta"} /\ Kept(req'[p], req[p])))
    <3>1. AfterComp(req[p], req[p].pc) \in {"home", "work", "meta"}
      BY <2>1 DEF AfterComp
    <3>2. Done(p) \/ Goto(p, AfterComp(req[p], req[p].pc))
      BY <1>26 DEF BuildComp
    <3> QED BY <3>1, <3>2, <1>d, <1>g, <1>p
  <2> QED BY <1>26, <2>1, <2>2 DEF StepTable
<1>27. CASE BuildMeta(p)
  <2>1. req[p].op \in {"create", "enter", "attempt"} /\ req[p].pc = "meta"
    BY <1>27, <1>t, BuildingFrame DEF BuildMeta
  <2>2. (req'[p] = Idle \/ (req'[p].pc = "id" /\ Kept(req'[p], req[p])))
    BY <1>27, <1>d, <1>g, <1>p DEF BuildMeta
  <2> QED BY <1>27, <2>1, <2>2 DEF StepTable
<1>28. CASE BuildID(p)
  <2>1. req[p].op \in {"create", "enter", "attempt"} /\ req[p].pc = "id"
    BY <1>28, <1>t, BuildingFrame DEF BuildID
  <2>2. (req'[p] = Idle \/ (req'[p].pc \in {"repair", "stat"} /\ Kept(req'[p], req[p])))
    BY <1>28, <1>d, <1>g, <1>p DEF BuildID
  <2> QED BY <1>28, <2>1, <2>2 DEF StepTable
<1>29. CASE Resolve(p)
  <2>1. req[p].op \in {"enter", "attempt"} /\ req[p].pc = "resolve"
    BY <1>29 DEF Resolve, Entering
  <2>2. (req'[p] = Idle \/ (req'[p].pc = "stat" /\ Kept(req'[p], req[p])))
    BY <1>29, <1>d, <2>1, ResolveStep DEF KeptToo, EntersFrame
  <2> QED BY <1>29, <2>1, <2>2 DEF StepTable
<1>30. CASE GoLookup(p)
  <2>1. req[p].op = "enter" /\ req[p].pc = "go"
    BY <1>30 DEF GoLookup, At
  <2>2. (req'[p] = Idle \/ (req'[p].pc = "stat" /\ Kept(req'[p], req[p])))
    BY <1>30, <1>d, <2>1, GoLookupStep DEF KeptToo, EntersFrame
  <2> QED BY <1>30, <2>1, <2>2 DEF StepTable
<1>31. CASE EnsureRootFS(p)
  <2>1. req[p].op \in {"enter", "attempt"} /\ req[p].pc = "stat"
    BY <1>31 DEF EnsureRootFS, Entering
  <2>2. (req'[p] = Idle \/ (req'[p].pc \in {"repair", "root"} /\ Kept(req'[p], req[p])))
    BY <1>31, <1>g, <1>p, EnsureRootFSStep
  <2> QED BY <1>31, <2>1, <2>2 DEF StepTable
<1>32. CASE EnterRepair(p)
  <2>1. req[p].op \in {"enter", "attempt"} /\ req[p].pc = "repair"
    BY <1>32 DEF EnterRepair, Entering
  <2>2. (req'[p] = Idle \/ (req'[p].pc = "in" /\ Kept(req'[p], req[p])))
    BY <1>32, <1>d, <1>g, <1>p DEF EnterRepair
  <2> QED BY <1>32, <2>1, <2>2 DEF StepTable
<1>33. CASE Leave(p)
  <2>1. req[p].op \in {"enter", "attempt"} /\ req[p].pc = "in"
    BY <1>33 DEF Leave, Entering
  <2>2. req'[p] = Idle
    BY <1>33, <1>d, <1>g, <1>p DEF Leave
  <2> QED BY <1>33, <2>1, <2>2 DEF StepTable
<1>34. CASE Attempt(p)
  BY <1>34, AttemptRequest DEF StepTable, AttemptBegun, AttemptOf
<1> QED BY <1>1, <1>2, <1>3, <1>4, <1>5, <1>6, <1>7, <1>8, <1>9, <1>10, <1>11, <1>12, <1>13, <1>14, <1>15, <1>16, <1>17, <1>18, <1>19, <1>20, <1>21, <1>22, <1>23, <1>24, <1>25, <1>26, <1>27, <1>28, <1>29, <1>30, <1>31, <1>32, <1>33, <1>34, <1>35 DEF Step, AutorunApply


LEMMA StepKeeps ==
    ASSUME StateTypeOK, RequestInv, NEW p \in Proc, Step(p)
    PROVE  \/ req'[p] = Idle \/ req[p] = Idle
           \/ /\ Kept(req'[p], req[p])
              /\ \/ req'[p].frame = req[p].frame
                 \/ req[p].op = "create" /\ req[p].pc = "check"
                 \/ req[p].op \in {"enter", "attempt"} /\ req[p].pc \in {"resolve", "go"}
              /\ req'[p].got = req[p].got \/ req[p].pc = "get"
<1>t. req \in [Proc -> Request]
  BY DEF StateTypeOK
<1>1. CASE GoesOn(p)
  BY <1>1 DEF GoesOn, KeptToo, KeptReads
<1>2. CASE KeptToo(req'[p], req[p]) /\ RefGet(p)
  BY <1>2 DEF KeptToo, RefGet
<1>3. CASE KeptToo(req'[p], req[p]) /\ RefReread(p)
  BY <1>3, <1>t, RefRereadStep, DoneEffect DEF KeptToo
<1>4. CASE KeptToo(req'[p], req[p]) /\ RefDeleteGet(p)
  BY <1>4 DEF KeptToo, RefDeleteGet, At
<1>5. CASE KeptToo(req'[p], req[p]) /\ DeleteList(p)
  BY <1>5, DeleteListStep DEF KeptToo, KeptReads
<1>6. CASE KeptToo(req'[p], req[p]) /\ DeleteScan(p)
  BY <1>6, DeleteScanStep DEF KeptToo, KeptReads
<1>11. CASE KeptToo(req'[p], req[p]) /\ DeleteScanFails(p)
  BY <1>11, DeleteScanFailsStep DEF KeptToo, KeptReads
<1>7. CASE Kept(req'[p], req[p]) /\ KeptReads(req'[p], req[p]) /\ CreateCheck(p)
  BY <1>7 DEF KeptReads, CreateCheck, At
<1>8. CASE Kept(req'[p], req[p]) /\ KeptReads(req'[p], req[p]) /\ req'[p].frame = req[p].frame
  BY <1>8 DEF KeptReads
<1>9. CASE Kept(req'[p], req[p]) /\ KeptReads(req'[p], req[p]) /\ (Resolve(p) \/ GoLookup(p))
  BY <1>9 DEF KeptReads, Resolve, GoLookup, At, Entering
<1>10. CASE Attempt(p)
  BY <1>10 DEF Attempt
<1> QED BY <1>1, <1>2, <1>3, <1>4, <1>5, <1>6, <1>7, <1>8, <1>9, <1>10, <1>11, StepChange DEF ReqChange

\* What the history variables say after a step.
LEMMA Watched ==
    ASSUME FramesTypeOK, StateTypeOK', NEW c \in BOOLEAN, Watch(c)
    PROVE  /\ FramesTypeOK' /\ disturbed \subseteq disturbed' /\ hurt \subseteq hurt'
           /\ \A p \in Proc : req'[p].op # "delframe" => held'[p] = {}
           /\ \A p \in Proc : \A r \in held'[p] : refs'[r] # None /\ refs'[r].uuid = req'[p].frame
           /\ \A p \in Proc : req[p].op = "delframe" => held'[p] \subseteq held[p]
<1>1. /\ disturbed \subseteq disturbed' /\ hurt \subseteq hurt'
      /\ disturbed' \subseteq Ref /\ hurt' \subseteq Frame
  BY DEF Watch, FramesTypeOK
<1>2. \A p \in Proc : held'[p] = IF req'[p].op # "delframe" THEN {}
                  ELSE {r \in Ref : /\ req[p].op = "delframe" => r \in held[p]
                                    /\ refs'[r] # None /\ refs'[r].uuid = req'[p].frame}
  BY DEF Watch
<1>3. held' \in [Proc -> SUBSET Ref]
  BY DEF Watch
<1> QED BY <1>1, <1>2, <1>3 DEF FramesTypeOK

LEMMA HeldStep ==
    ASSUME FramesTypeOK, RequestInv, HeldInv, NamedFrameSpared, NEW p \in Proc, Step(p), Watch(FALSE)
    PROVE  HeldInv' /\ NamedFrameSpared'
<1>s. StateTypeOK
  BY DEF FramesTypeOK
<1>w. /\ \A x \in Proc : req'[x].op # "delframe" => held'[x] = {}
      /\ \A x \in Proc : \A r \in held'[x] : refs'[r] # None /\ refs'[r].uuid = req'[x].frame
      /\ \A x \in Proc : req[x].op = "delframe" => held'[x] \subseteq held[x]
      /\ held' \in [Proc -> SUBSET Ref]
  BY <1>s, StepTypes, Watched DEF FramesTypeOK
<1>o. \A x \in Proc : x # p => req'[x] = req[x]
  BY <1>s, StepRequest DEF StepOf
<1>i. Idle.op = "none" /\ Idle.pc = "idle"
  BY IdleRequest
<1>t. StepTable(p)
  BY <1>s, StepTabled
<1>2. ASSUME req'[p].op = "delframe", req'[p].pc = "scan"
      PROVE  held'[p] \subseteq req'[p].todo \cup req'[p].found \cup req'[p].unread
  <2>1. DeleteList(p) \/ DeleteScan(p) \/ DeleteScanFails(p)
    BY <1>2, <1>t, <1>i DEF StepTable, FirstStep, Kept
  <2>2. refs' = refs
    BY <2>1 DEF DeleteList, DeleteScan, DeleteScanFails, disk
  <2>3. CASE DeleteList(p)
    <3>1. req'[p].todo = RefNames \/ req'[p].unread = Ref
      BY <1>s, <2>3, DeleteListStep
    <3> QED BY <3>1, <2>2, <1>w DEF RefNames
  <2>a. ASSUME DeleteScan(p) \/ DeleteScanFails(p)
        PROVE  held'[p] \subseteq held[p] /\ held[p] \subseteq req[p].todo \cup req[p].found \cup req[p].unread
    <3>1. At(p, "delframe", "scan")
      BY <2>a DEF DeleteScan, DeleteScanFails
    <3> QED BY <3>1, <1>w DEF HeldInv, At
  <2>4. CASE DeleteScan(p)
    <3>1. PICK r \in req[p].todo :
             /\ req'[p].todo = req[p].todo \ {r} /\ req'[p].unread = req[p].unread
             /\ req'[p].found = IF PointsAt(r, req[p].frame) THEN req[p].found \cup {r} ELSE req[p].found
      BY <1>s, <2>4, DeleteScanStep
    <3>2. req'[p].frame = req[p].frame
      BY <1>s, <2>4, DeleteScanStep DEF KeptToo
    <3>5. r \in held'[p] => PointsAt(r, req[p].frame)
      BY <1>w, <2>2, <3>2 DEF PointsAt
    <3> QED BY <3>1, <2>4, <2>a, <3>5
  <2>5. CASE DeleteScanFails(p)
    <3>1. PICK r \in req[p].todo :
             /\ req'[p].todo = req[p].todo \ {r} /\ req'[p].found = req[p].found
             /\ req'[p].unread = req[p].unread \cup {r}
      BY <1>s, <2>5, DeleteScanFailsStep
    <3> QED BY <3>1, <2>5, <2>a
  <2> QED BY <2>1, <2>3, <2>4, <2>5
<1>3. ASSUME NEW x \in Proc, req'[x].op = "delframe", req'[x].pc = "scan"
      PROVE  held'[x] \subseteq req'[x].todo \cup req'[x].found \cup req'[x].unread
  <2>1. CASE x = p
    BY <1>2, <1>3, <2>1
  <2>2. CASE x # p
    BY <1>3, <2>2, <1>o, <1>w DEF HeldInv, At
  <2> QED BY <2>1, <2>2
<1>4. HeldInv'
  BY <1>3, <1>w DEF HeldInv, At, PointsAt
<1>5. ASSUME Deleting(req'[p]) PROVE held'[p] \subseteq req'[p].unread
  <2>1. req'[p].op = "delframe" /\ req'[p].pc \in {"home", "work", "id", "root", "sidecar"}
    BY <1>5 DEF Deleting
  <2>2. \/ DeleteGate(p)
        \/ /\ DeleteNested(p) \/ DeleteRoot(p)
           /\ req[p].op = "delframe" /\ req[p].pc \in {"home", "work", "id", "root"}
    BY <2>1, <1>t, <1>i DEF StepTable, FirstStep, Kept
  <2>d. ~Done(p)
    BY <1>s, <2>1, <1>i, DoneEffect DEF StateTypeOK
  <2>u. req'[p].unread = req[p].unread
    <3>1. "home" \in Pcs /\ "sidecar" \in Pcs /\ {"work", "id", "root"} \subseteq Pcs
      BY PcsFacts
    <3>2. CASE DeleteGate(p) \/ DeleteRoot(p)
      <4>1. Goto(p, "home") \/ Goto(p, "sidecar")
        BY <3>2, <2>d DEF DeleteGate, DeleteRoot
      <4> QED BY <4>1, <3>1, <1>s, GotoEffect DEF KeptScan, StateTypeOK
    <3>3. CASE DeleteNested(p)
      <4>1. PICK l \in {"work", "id", "root"} : Goto(p, l)
        BY <3>3 DEF DeleteNested
      <4> QED BY <4>1, <3>1, <1>s, GotoEffect DEF KeptScan, StateTypeOK
    <3> QED BY <2>2, <3>2, <3>3
  <2>3. CASE DeleteGate(p)
    <3>1. At(p, "delframe", "scan") /\ req[p].todo = {} /\ (MayDelete(req[p]) \/ Done(p))
      BY <2>3 DEF DeleteGate
    <3>3. held[p] \subseteq req[p].unread
      BY <3>1, <2>d DEF HeldInv, MayDelete
    <3> QED BY <3>1, <3>3, <1>w, <2>u DEF At
  <2>4. CASE req[p].op = "delframe" /\ req[p].pc \in {"home", "work", "id", "root"}
    <3>1. held[p] \subseteq req[p].unread
      BY <2>4 DEF NamedFrameSpared, Deleting
    <3> QED BY <2>4, <3>1, <1>w, <2>u
  <2> QED BY <2>2, <2>3, <2>4
<1>6. ASSUME NEW x \in Proc, Deleting(req'[x]) PROVE held'[x] \subseteq req'[x].unread
  <2>1. CASE x = p
    BY <1>5, <1>6, <2>1
  <2>2. CASE x # p
    <3>1. held[x] \subseteq req[x].unread /\ req[x].op = "delframe" /\ req'[x] = req[x]
      BY <1>6, <2>2, <1>o DEF NamedFrameSpared, Deleting
    <3> QED BY <3>1, <1>w
  <2> QED BY <2>1, <2>2
<1>7. NamedFrameSpared'
  BY <1>6 DEF NamedFrameSpared, Deleting
<1> QED BY <1>4, <1>7

\* Steps at which a request on a ref knows something of it.
KnowingPcs == {"write", "ensure", "reread", "identity", "rename", "restart", "apply", "unlink", "stop", "scrub"}

LEMMA KnowsNothing ==
    ASSUME NEW q, NEW r, q.pc \notin KnowingPcs
    PROVE  Knows(q, r)
BY DEF Knows, KnowingPcs

\* An undisturbed ref has one request, which keeps its identity.
LEMMA Undisturbed ==
    ASSUME NEW c \in BOOLEAN, Watch(c), NEW r \in Ref, r \notin disturbed'
    PROVE  /\ r \notin disturbed /\ ~LosesIdentity(r)
           /\ \A p, q \in Proc : RefOn(req'[p], r) /\ RefOn(req'[q], r) => p = q
           /\ c => \A p \in Proc : ~RefOn(req[p], r)
           /\ c => refs[r] = None \/ refs[r].autorun = None \/ run'[r] # None
BY DEF Watch

LEMMA KnowsOwn ==
    ASSUME StateTypeOK, RequestInv, NEW p \in Proc, Step(p),
           NEW r \in Ref, RefOn(req'[p], r), ~LosesIdentity(r), RefOn(req[p], r) => Knows(req[p], r)
    PROVE  Knows(req[p], r)'
<1> DEFINE q == req[p]
           n == req'[p]
<1>t. req \in [Proc -> Request] /\ q \in Request /\ ReqOK(q) /\ n \in Request /\ ReqOK(n)
      /\ refs \in [Ref -> RefFile \cup {None}]
  BY StepTypes DEF StateTypeOK, RequestInv
<1>i. Idle.op = "none" /\ Idle.pc = "idle"
  BY IdleRequest
<1>n. n # Idle
  BY <1>i DEF RefOn
<1>e. Others(p)
  BY StepRequest DEF StepOf, Others
<1>1. CASE n.pc \notin KnowingPcs
  BY <1>1 DEF Knows, KnowingPcs
<1>2. CASE n.pc \in KnowingPcs
  <2>0. StepTable(p)
    BY StepTabled
  <2>1. /\ \/ RefCreateStat(p) \/ RefCreateWrite(p) \/ RefGet(p) \/ RefReread(p) \/ RefWrite(p)
           \/ MoveIdentity(p) \/ MoveRename(p) \/ RefDeleteGet(p) \/ RefDeleteUnlink(p) \/ RefDeleteStop(p)
        /\ q # Idle
    BY <2>0, <1>2, <1>n, <1>i DEF StepTable, FirstStep, KnowingPcs
  <2>2. Kept(n, q)
    BY <2>1, <1>n, StepKeeps
  <2>3. RefOn(q, r) /\ q.ref = r /\ n.ref = r /\ n.op = q.op /\ Knows(q, r)
    BY <2>2 DEF RefOn, Kept
  <2>4. ~Done(p)
    BY <1>n, <1>t, DoneEffect
  <2>k. q.op # "create" => n.frame = q.frame
    BY <2>1, <1>n, <2>3, StepKeeps DEF RefOn
  <2>5. CASE RefCreateStat(p)
    <3>1. refs[r] = None /\ refs' = refs /\ n.pc = "write" /\ n.op \in {"refcreate", "create"}
      <4>1. Goto(p, "write") /\ refs[r] = None
        BY <2>5, <2>4, <2>3 DEF RefCreateStat
      <4>2. n.pc = "write"
        BY <4>1, <1>t, GotoEffect, PcsFacts
      <4> QED BY <4>1, <4>2, <2>5, <2>3 DEF RefCreateStat, disk
    <3> QED BY <3>1 DEF Knows
  <2>6. CASE RefCreateWrite(p)
    <3>1. /\ refs' = [refs EXCEPT ![r] = NewRef(q.frame)] /\ q.op = "refcreate" /\ Goto(p, "ensure")
      BY <2>6, <2>4, <2>3 DEF RefCreateWrite
    <3>2. n.pc = "ensure" /\ n.frame = q.frame /\ q.frame \in Frame
      BY <3>1, <1>t, GotoEffect, PcsFacts DEF KeptToo, ReqOK
    <3>3. refs'[r] = NewRef(n.frame) /\ NewRef(n.frame) \in RefFile /\ NewRef(n.frame).uuid = n.frame
      BY <3>1, <3>2, <1>t, RefFiles
    <3>4. refs'[r] # None /\ refs'[r].uuid = n.frame
      BY <3>3, RefFiles
    <3> QED BY <3>1, <3>2, <3>4, <2>3 DEF Knows, PointsAt
  <2>7. CASE RefGet(p)
    <3>1. n.pc = "reread" /\ n.got = refs[r] /\ refs' = refs /\ q.op \in {"refmove", "autorun"}
      <4>1. n.pc = "reread" /\ n.got = refs[r]
        BY <2>7, <2>4, <2>3, RefGetStep
      <4> QED BY <4>1, <2>7 DEF RefGet, disk
    <3> QED BY <3>1, <2>3 DEF Knows
  <2>8. CASE RefReread(p)
    <3>1. q.op \in {"refmove", "autorun"} /\ q.pc = "reread" /\ refs' = refs
      BY <2>8 DEF RefReread, disk
    <3>2. /\ n.pc = "write" /\ n.got = q.got
          /\ n.copy = IF q.op = "refmove" THEN Moved(refs[r], q.frame) ELSE SetAutorun(refs[r], q.cmd)
      BY <2>8, <2>4, <2>3, RefRereadStep
    <3>3. refs[r] = q.got
      BY <3>1, <2>3 DEF Knows
    <3>4. n.cmd = q.cmd /\ n.frame = q.frame
      BY <2>2, <2>k, <3>1 DEF Kept
    <3>5. /\ q.op = "refmove" => n.copy = Moved(n.got, n.frame)
          /\ q.op = "autorun" => n.copy = SetAutorun(n.got, n.cmd)
      BY <3>1, <3>2, <3>3, <3>4
    <3> QED BY <3>1, <3>2, <3>3, <3>5, <2>3 DEF Knows
  <2>9. CASE RefWrite(p)
    <3>1. /\ q.op \in {"refmove", "autorun"} /\ q.pc = "write" /\ refs' = [refs EXCEPT ![r] = q.copy]
          /\ q.op = "autorun" => Goto(p, "apply")
          /\ q.op = "refmove" => q.got.uuid # q.frame /\ Goto(p, "identity")
      BY <2>9, <2>4, <2>3 DEF RefWrite
    <3>2. refs'[r] = q.copy
      BY <3>1, <1>t
    <3>3. n.got = q.got /\ n.frame = q.frame /\ n.cmd = q.cmd
      BY <3>1, <2>1, <1>n, <2>k, <2>2, StepKeeps DEF Kept
    <3>4. q.op = "refmove" => q.copy = Moved(q.got, q.frame)
      BY <3>1, <2>3 DEF Knows
    <3>5. q.op = "autorun" => q.copy = SetAutorun(q.got, q.cmd)
      BY <3>1, <2>3 DEF Knows
    <3>6. n.pc = IF q.op = "autorun" THEN "apply" ELSE "identity"
      BY <3>1, <1>t, GotoEffect, PcsFacts
    <3>7. /\ q.op = "refmove" => refs'[r] = Moved(n.got, n.frame) /\ n.got.uuid # n.frame
          /\ q.op = "autorun" => refs'[r] = SetAutorun(n.got, n.cmd)
      BY <3>1, <3>2, <3>3, <3>4, <3>5
    <3> QED BY <3>1, <3>6, <3>7, <2>3 DEF Knows
  <2>10. CASE MoveIdentity(p) \/ MoveRename(p)
    <3>1. q.op = "refmove" /\ q.pc \in {"identity", "rename"} /\ refs' = refs
      BY <2>10 DEF MoveIdentity, MoveRename, At
    <3>2. n.got = q.got /\ n.frame = q.frame
      BY <3>1, <2>1, <1>n, <2>k, StepKeeps
    <3>3. refs[r] = Moved(q.got, q.frame) /\ q.got.uuid # q.frame
      BY <3>1, <2>3 DEF Knows
    <3>4. n.pc \in {"rename", "restart"}
      BY <2>0, <3>1, <1>n, <2>1, <2>10 DEF StepTable
    <3> QED BY <3>1, <3>2, <3>3, <3>4, <2>3 DEF Knows
  <2>11. CASE RefDeleteGet(p)
    <3>1. n.pc = "unlink" /\ n.got \in {refs[r], None} /\ refs' = refs /\ q.op = "refdelete"
      <4>1. n.pc = "unlink" /\ n.got \in {refs[r], None}
        BY <2>11, <2>3, RefDeleteGetStep
      <4> QED BY <4>1, <2>11 DEF RefDeleteGet, disk, At
    <3> QED BY <3>1, <2>3 DEF Knows
  <2>12. CASE RefDeleteUnlink(p)
    <3>1. /\ q.op = "refdelete" /\ q.pc = "unlink" /\ refs' = [refs EXCEPT ![r] = None]
          /\ refs[r] # None /\ Goto(p, "stop")
      BY <2>12, <2>4, <2>3 DEF RefDeleteUnlink, At
    <3>2. refs'[r] = None /\ refs[r] \in RefFile
      BY <3>1, <1>t
    <3>3. q.force /\ q.got # None
      BY <3>1, <3>2, <2>3 DEF LosesIdentity, At
    <3>4. n.pc = "stop" /\ n.got = q.got /\ n.force = q.force
      BY <3>1, <1>t, GotoEffect, PcsFacts DEF KeptToo, Kept, KeptReads
    <3>5. refs[r] = q.got
      BY <3>1, <3>3, <2>3 DEF Knows
    <3> QED BY <3>1, <3>2, <3>3, <3>4, <3>5, <2>3 DEF Knows
  <2>13. CASE RefDeleteStop(p)
    <3>1. /\ q.op = "refdelete" /\ q.pc = "stop" /\ refs' = refs /\ Goto(p, "scrub")
      BY <2>13, <2>4 DEF RefDeleteStop, At, disk
    <3>2. n.pc = "scrub" /\ n.got = q.got /\ n.force = q.force
      BY <3>1, <1>t, GotoEffect, PcsFacts DEF KeptToo, Kept, KeptReads
    <3>3. refs[r] = None /\ q.force /\ q.got \in RefFile
      BY <3>1, <2>3 DEF Knows
    <3> QED BY <3>1, <3>2, <3>3, <2>3 DEF Knows
  <2> QED BY <2>1, <2>5, <2>6, <2>7, <2>8, <2>9, <2>10, <2>11, <2>12, <2>13
<1> QED BY <1>1, <1>2

LEMMA KnowsStep ==
    ASSUME FramesTypeOK, RequestInv, KnowsInv, NEW p \in Proc, Step(p), Watch(FALSE)
    PROVE  KnowsInv'
<1> SUFFICES ASSUME NEW r \in Ref, r \notin disturbed', NEW x \in Proc, RefOn(req'[x], r)
             PROVE  /\ Knows(req[x], r)'
                    /\ \A y \in Proc : RefOn(req'[y], r) => y = x
  BY DEF KnowsInv, RefOn
<1>s. StateTypeOK /\ Step(p)
  BY DEF FramesTypeOK
<1>u. /\ r \notin disturbed /\ ~LosesIdentity(r)
      /\ \A y, z \in Proc : RefOn(req'[y], r) /\ RefOn(req'[z], r) => y = z
  BY Undisturbed
<1>o. \A y \in Proc : y # p => req'[y] = req[y]
  BY <1>s, StepRequest DEF StepOf
<1>k. \A y \in Proc : RefOn(req[y], r) => Knows(req[y], r) /\ \A z \in Proc : RefOn(req[z], r) => z = y
  BY <1>u DEF KnowsInv
<1>1. CASE x = p
  BY <1>1, <1>s, <1>u, <1>k, KnowsOwn
<1>2. CASE x # p
  <2>1. req'[x] = req[x] /\ RefOn(req[x], r) /\ Knows(req[x], r) /\ ~RefOn(req[p], r)
    BY <1>2, <1>o, <1>k
  <2>2. refs'[r] = refs[r]
    BY <2>1, <1>s, RefsStep
  <2>3. Knows(req[x], r)'
    BY <2>1, <2>2 DEF Knows, PointsAt
  <2> QED BY <2>3, <1>u
<1> QED BY <1>1, <1>2, <1>u

\* What the steps that write identities do to one of them.
LEMMA EnsuredIdentity ==
    ASSUME ident \in [Frame -> [Ref -> Nat \cup {None}]], NEW g \in Frame, NEW f \in Frame, NEW r \in Ref,
           EnsureIdentity(g, r), ident'[f][r] # None
    PROVE  /\ f = g \/ ident[f][r] # None
           /\ CanEnsureID(g) \/ ident[f][r] # None
<1>1. CASE CanEnsureID(g)
  <2>1. PICK v : ident' = [ident EXCEPT ![g][r] = v]
    BY <1>1 DEF EnsureIdentity
  <2>2. f # g => ident'[f] = ident[f]
    BY <2>1
  <2> QED BY <1>1, <2>2
<1>2. CASE ~CanEnsureID(g)
  BY <1>2 DEF EnsureIdentity
<1> QED BY <1>1, <1>2

LEMMA RenamedIdentity ==
    ASSUME ident \in [Frame -> [Ref -> Nat \cup {None}]], NEW s \in Frame, NEW d \in Frame, NEW f \in Frame,
           NEW r \in Ref, RenameIdentity(s, d, r), ident'[f][r] # None
    PROVE  f = s \/ f = d \/ ident[f][r] # None
<1>1. PICK v : v = ident[s][r]
  OBVIOUS
<1>2. \/ ident' = [ident EXCEPT ![d][r] = v, ![s][r] = None]
      \/ ident' = [ident EXCEPT ![d][r] = None]
      \/ ident' = ident
  BY <1>1 DEF RenameIdentity
<1>3. f # s /\ f # d => ident'[f] = ident[f]
  BY <1>2
<1> QED BY <1>3

\* It leaves the source without the subvolume, or the destination without it.
LEMMA RenamedOrKept ==
    ASSUME ident \in [Frame -> [Ref -> Nat \cup {None}]], NEW s \in Frame, NEW d \in Frame, NEW r \in Ref,
           s # d, RenameIdentity(s, d, r)
    PROVE  ident'[s][r] = None \/ ident'[d][r] \in {ident[d][r], None}
<1>1. PICK v : v = ident[s][r]
  OBVIOUS
<1>2. CASE ident' = [ident EXCEPT ![d][r] = v, ![s][r] = None]
  BY <1>2
<1>3. CASE ident' = [ident EXCEPT ![d][r] = None]
  BY <1>3
<1>4. CASE ident' = ident
  BY <1>4
<1> QED BY <1>1, <1>2, <1>3, <1>4 DEF RenameIdentity

LEMMA RemovedIdentity ==
    ASSUME ident \in [Frame -> [Ref -> Nat \cup {None}]], NEW g \in Frame, NEW f \in Frame, NEW r \in Ref,
           RemoveIdentity(g, r), ident'[f][r] # None
    PROVE  f = g \/ ident[f][r] # None
<1>1. f # g => ident'[f] = ident[f]
  BY DEF RemoveIdentity
<1> QED BY <1>1

LEMMA IdentityOwn ==
    ASSUME StateTypeOK, RequestInv, IssuedInv, NEW p \in Proc, Step(p), NEW r \in Ref, NEW f \in Frame,
           RefOn(req[p], r), Knows(req[p], r), ~LosesIdentity(r),
           ident[f][r] # None => PointsAt(r, f) \/ Fetches(req[p], f),
           ident'[f][r] # None
    PROVE  \/ refs'[r] # None /\ refs'[r].uuid = f
           \/ RefOn(req'[p], r) /\ Fetches(req'[p], f)
<1> DEFINE q == req[p]
           n == req'[p]
<1>t. req \in [Proc -> Request] /\ q \in Request /\ ReqOK(q)
      /\ refs \in [Ref -> RefFile \cup {None}] /\ ident \in [Frame -> [Ref -> Nat \cup {None}]]
  BY DEF StateTypeOK, RequestInv
<1>q. q.ref = r /\ q # Idle /\ q.op \in {"refcreate", "refmove", "refdelete", "autorun", "create"}
  BY IdleRequest DEF RefOn
<1>0. StepTable(p)
  BY StepTabled
<1>d. ASSUME NEW l \in Pcs, Goto(p, l) PROVE n.pc = l /\ RefOn(n, r) /\ n.got = q.got /\ n.frame = q.frame /\ n.op = q.op
  BY <1>d, <1>t, <1>q, GotoEffect DEF KeptToo, Kept, KeptReads, RefOn
<1>p. {"identity", "rename", "restart", "stop", "scrub"} \subseteq Pcs
  BY PcsFacts
<1>1. CASE RefCreateWrite(p)
  <2>1. ident' = ident /\ refs[r] = None /\ ~Fetches(q, f)
    BY <1>1 DEF RefCreateWrite, Knows, Fetches
  <2> QED BY <2>1 DEF PointsAt
<1>2. CASE RefCreateEnsure(p)
  <2>1. /\ EnsureIdentity(q.frame, r) /\ refs' = refs /\ PointsAt(r, q.frame) /\ q.frame \in Frame
        /\ ~Fetches(q, f)
    BY <1>2, <1>q, <1>t DEF RefCreateEnsure, Knows, Fetches, At, ReqOK
  <2>2. f = q.frame \/ ident[f][r] # None
    BY <2>1, <1>t, EnsuredIdentity
  <2> QED BY <2>1, <2>2 DEF PointsAt
<1>3. CASE RefWrite(p)
  <2>1. /\ ident' = ident /\ refs[r] = q.got /\ q.op \in {"refmove", "autorun"} /\ q.pc = "write"
        /\ refs' = [refs EXCEPT ![r] = q.copy] /\ q.copy \in RefFile /\ q.got \in RefFile
    BY <1>3, <1>q, <1>t DEF RefWrite, Knows, ReqOK
  <2>2. q.got.uuid = f /\ refs'[r] = q.copy /\ refs'[r] # None
    BY <2>1, <1>t, RefFiles DEF PointsAt, Fetches
  <2>3. CASE q.op = "autorun"
    <3>1. q.copy = SetAutorun(q.got, q.cmd) /\ q.cmd \in Argv \cup {None}
      BY <2>1, <2>3, <1>t, RequestFields DEF Knows
    <3>2. q.copy.uuid = f
      BY <3>1, <2>1, <2>2, SetFile
    <3> QED BY <2>2, <3>2
  <2>4. CASE q.op = "refmove"
    <3>1. q.copy = Moved(q.got, q.frame) /\ q.frame \in Frame
      BY <2>1, <2>4, <1>t DEF Knows, ReqOK
    <3>2. q.copy.uuid = q.frame
      BY <3>1, <2>1, MovedFile
    <3>3. CASE q.got.uuid = q.frame
      BY <3>2, <3>3, <2>2
    <3>4. CASE q.got.uuid # q.frame
      <4>1. Goto(p, "identity")
        BY <1>3, <2>4, <3>4 DEF RefWrite
      <4>2. n.pc = "identity" /\ RefOn(n, r) /\ n.got = q.got /\ n.op = q.op
        BY <4>1, <1>d, <1>p
      <4> QED BY <4>2, <2>2, <2>4 DEF Fetches
    <3> QED BY <3>3, <3>4
  <2> QED BY <2>1, <2>3, <2>4
<1>4. CASE MoveIdentity(p) \/ MoveRename(p)
  <2> DEFINE s == q.got.uuid
             d == q.frame
  <2>1. /\ q.op = "refmove" /\ q.pc \in {"identity", "rename"} /\ refs' = refs
        /\ refs[r] = Moved(q.got, d) /\ s # d
    BY <1>4 DEF MoveIdentity, MoveRename, Knows, At
  <2>2. d \in Frame /\ s \in Frame /\ q.got \in RefFile
    BY <2>1, <1>t, MoveFields
  <2>3. refs'[r] # None /\ refs'[r].uuid = d
    <3>1. Moved(q.got, d) \in RefFile /\ Moved(q.got, d).uuid = d
      BY <2>2, MovedFile
    <3> QED BY <3>1, <2>1, RefFiles
  <2>4. ident[f][r] # None => f = d \/ f = s
    BY <2>1, <2>3 DEF PointsAt, Fetches
  <2>5. n.pc = "restart" /\ ident'[d][r] \in {ident[d][r], None} => f # s
    BY <2>1, <1>q DEF LosesIdentity
  <2>6. CASE MoveIdentity(p)
    <3>1. CASE ~CanEnsureID(d)
      <4>1. Goto(p, "restart") /\ ident' = ident
        BY <1>q, <2>6, <3>1 DEF MoveIdentity, EnsureIdentity
      <4>2. n.pc = "restart"
        BY <4>1, <1>d, <1>p
      <4> QED BY <4>1, <4>2, <2>3, <2>4, <2>5
    <3>2. CASE CanEnsureID(d) /\ ident[s][r] = None
      <4>1. EnsureIdentity(d, r)
        BY <2>6, <3>2, <1>q DEF MoveIdentity
      <4>2. f = d \/ ident[f][r] # None
        BY <4>1, <1>t, <2>2, EnsuredIdentity
      <4> QED BY <4>2, <3>2, <2>3, <2>4
    <3>3. CASE CanEnsureID(d) /\ ident[s][r] # None
      <4>1. Goto(p, "rename") /\ ident' = ident
        BY <2>6, <3>3, <1>q DEF MoveIdentity
      <4>2. n.pc = "rename" /\ RefOn(n, r) /\ n.got = q.got /\ n.op = q.op
        BY <4>1, <1>d, <1>p
      <4> QED BY <4>1, <4>2, <2>1, <2>3, <2>4 DEF Fetches
    <3> QED BY <3>1, <3>2, <3>3
  <2>7. CASE MoveRename(p)
    <3>1. RenameIdentity(s, d, r) /\ Goto(p, "restart")
      BY <2>7, <1>q DEF MoveRename
    <3>2. n.pc = "restart"
      BY <3>1, <1>d, <1>p
    <3>3. f = s \/ f = d \/ ident[f][r] # None
      BY <3>1, <1>t, <2>2, RenamedIdentity
    <3>4. ident'[s][r] = None \/ ident'[d][r] \in {ident[d][r], None}
      BY <3>1, <1>t, <2>1, <2>2, RenamedOrKept
    <3> QED BY <3>2, <3>3, <3>4, <2>3, <2>4, <2>5
  <2> QED BY <1>4, <2>6, <2>7
<1>5. CASE RefDeleteUnlink(p)
  <2>1. /\ ident' = ident /\ q.got \in {refs[r], None} /\ ~Fetches(q, f) /\ q.op = "refdelete"
        /\ q.pc = "unlink" /\ refs' = [refs EXCEPT ![r] = None]
    BY <1>5, <1>q DEF RefDeleteUnlink, Knows, Fetches, At
  <2>a. refs[r] # None /\ refs[r].uuid = f
    BY <2>1 DEF PointsAt
  <2>b. refs'[r] = None
    BY <2>1, <1>t
  <2>c. q.got # None
    BY <2>1, <2>a, <2>b, <1>q DEF LosesIdentity, At
  <2>2. refs[r] # None /\ q.got.uuid = f
    BY <2>1, <2>a, <2>c
  <2>3. Goto(p, "stop")
    BY <1>5, <2>2, <1>q DEF RefDeleteUnlink
  <2>4. n.pc = "stop" /\ RefOn(n, r) /\ n.got = q.got /\ n.op = q.op
    BY <2>3, <1>d, <1>p
  <2> QED BY <2>1, <2>2, <2>4 DEF Fetches
<1>6. CASE RefDeleteStop(p)
  <2>1. /\ ident' = ident /\ refs[r] = None /\ q.force /\ q.got \in RefFile /\ q.op = "refdelete"
    BY <1>6 DEF RefDeleteStop, disk, Knows, At
  <2>2. q.got.uuid = f
    BY <2>1 DEF PointsAt, Fetches
  <2>3. Goto(p, "scrub")
    BY <1>6, <2>1, RefFiles DEF RefDeleteStop
  <2>4. n.pc = "scrub" /\ RefOn(n, r) /\ n.got = q.got /\ n.op = q.op
    BY <2>3, <1>d, <1>p
  <2> QED BY <2>1, <2>2, <2>4 DEF Fetches
<1>7. CASE RefDeleteScrub(p)
  <2>1. RemoveIdentity(q.got.uuid, r) /\ refs[r] = None /\ q.got \in RefFile
    BY <1>7, <1>q DEF RefDeleteScrub, Knows, At
  <2>2. f = q.got.uuid \/ ident[f][r] # None
    BY <2>1, <1>t, RefFiles, RemovedIdentity
  <2>3. n = Idle /\ At(p, "refdelete", "scrub")
    BY <1>7, <1>t, DoneEffect DEF RefDeleteScrub
  <2>4. f # q.got.uuid
    BY <2>3, <1>q DEF LosesIdentity
  <2> QED BY <2>1, <2>2, <2>4 DEF PointsAt, Fetches
<1>8. CASE ~(\/ RefCreateWrite(p) \/ RefCreateEnsure(p) \/ RefWrite(p) \/ MoveIdentity(p) \/ MoveRename(p)
             \/ RefDeleteUnlink(p) \/ RefDeleteStop(p) \/ RefDeleteScrub(p))
  <2>1. ident' = ident /\ refs' = refs
    BY <1>8, StepTouched DEF Touched
  <2>2. ~(q.op = "refmove" /\ q.pc \in {"identity", "rename"}) /\ ~(q.op = "refdelete" /\ q.pc \in {"stop", "scrub"})
    BY <1>8, <1>0, <1>q DEF StepTable
  <2> QED BY <2>1, <2>2 DEF PointsAt, Fetches
<1> QED BY <1>1, <1>2, <1>3, <1>4, <1>5, <1>6, <1>7, <1>8

LEMMA IdentityStep ==
    ASSUME FramesTypeOK, RequestInv, IssuedInv, KnowsInv, IdentityInv, NEW p \in Proc, Step(p), Watch(FALSE)
    PROVE  IdentityInv'
<1> SUFFICES ASSUME NEW r \in Ref, r \notin disturbed', NEW f \in Frame, ident'[f][r] # None
             PROVE  \/ refs'[r] # None /\ refs'[r].uuid = f
                    \/ \E x \in Proc : RefOn(req'[x], r) /\ Fetches(req'[x], f)
  BY DEF IdentityInv, PointsAt, RefOn, Fetches
<1>s. StateTypeOK /\ Step(p)
  BY DEF FramesTypeOK
<1>u. r \notin disturbed /\ ~LosesIdentity(r)
  BY Undisturbed
<1>h. ident[f][r] # None => PointsAt(r, f) \/ \E x \in Proc : RefOn(req[x], r) /\ Fetches(req[x], f)
  BY <1>u DEF IdentityInv
<1>1. CASE RefOn(req[p], r)
  <2>1. Knows(req[p], r) /\ \A x \in Proc : RefOn(req[x], r) => x = p
    BY <1>1, <1>u DEF KnowsInv
  <2>2. ident[f][r] # None => PointsAt(r, f) \/ Fetches(req[p], f)
    BY <2>1, <1>h
  <2> QED BY <1>1, <1>s, <1>u, <2>1, <2>2, IdentityOwn
<1>2. CASE ~RefOn(req[p], r)
  <2>1. ident'[f][r] = ident[f][r]
    BY <1>2, <1>s, IdentStep
  <2>2. refs'[r] = refs[r]
    BY <1>2, <1>s, RefsStep
  <2>3. \A x \in Proc : RefOn(req[x], r) => req'[x] = req[x]
    BY <1>2, <1>s, StepRequest DEF StepOf
  <2> QED BY <2>1, <2>2, <2>3, <1>h DEF PointsAt
<1> QED BY <1>1, <1>2

\* RunsAs after the step, of a file read before or after it.
RunsThen(r, file) ==
    IF file = None \/ file.autorun = None THEN run'[r] = None
    ELSE /\ run'[r] # None /\ run'[r].uuid = file.uuid /\ run'[r].argv = file.autorun
         /\ run'[r].at \in {None, file.uuid}
         /\ \A x \in Proc : AttemptOf(req'[x], r) /\ req'[x].pc # "resolve"
                               => req'[x].frame = file.uuid

\* A program is stopped once its attempt is over.
LEMMA AttemptsStep ==
    ASSUME StateTypeOK, RequestInv, NEW p \in Proc, Step(p),
           \A r \in Ref : Attempting(r) => run[r] # None,
           NEW r \in Ref, NEW x \in Proc, AttemptOf(req'[x], r)
    PROVE  run'[r] # None
<1>o. StepOf(p)
  BY StepRequest
<1>i. Idle.op = "none"
  BY IdleRequest
<1>1. CASE Attempt(p)
  <2>1. run' = run
    BY <1>1 DEF Attempt
  <2>2. CASE x = p
    BY <2>1, <2>2, <1>1, AttemptRequest DEF AttemptBegun, AttemptOf
  <2>3. CASE x # p
    BY <2>1, <2>3, <1>o DEF StepOf, Attempting
  <2> QED BY <2>2, <2>3
<1>2. CASE ~Attempt(p)
  <2>1. AttemptOf(req[x], r)
    <3>1. CASE x # p
      BY <3>1, <1>o DEF StepOf
    <3>2. CASE x = p
      <4>1. req'[p] # Idle
        BY <3>2, <1>i DEF AttemptOf
      <4>2. req[p] = Idle => Start(p)
        BY <1>2, <1>i, StepTabled DEF StepTable
      <4>3. req[p] # Idle
        BY <4>2, <3>2, StartRequest DEF FirstStep, AttemptOf
      <4> QED BY <3>2, <4>1, <4>3, StepKeeps DEF Kept, AttemptOf
    <3> QED BY <3>1, <3>2
  <2>2. Attempting(r) /\ run[r] # None
    BY <2>1 DEF Attempting
  <2>3. CASE run'[r] = run[r]
    BY <2>2, <2>3
  <2>4. CASE EnterRepair(p) /\ run'[r] = [run[r] EXCEPT !.at = req[p].frame] /\ AttemptOf(req[p], r)
    <3>1. run[r] \in ProcessType /\ req[p].frame \in Frame
      BY <2>2, <2>4 DEF EnterRepair, AttemptOf, StateTypeOK, RequestInv, ReqOK
    <3> QED BY <2>4, <3>1, Processes
  <2>5. CASE RefOn(req[p], r) /\ req[p].pc \in {"restart", "apply", "stop"}
    <3>1. MoveRestart(p) \/ AutorunApply(p) \/ RefDeleteStop(p)
      BY <2>5, <1>i, StepTabled DEF StepTable, RefOn
    <3>2. req[p].ref = r
      BY <2>5 DEF RefOn
    <3>3. req[p] \in Request /\ ReqOK(req[p]) /\ run \in [Ref -> ProcessType \cup {None}]
      BY DEF StateTypeOK, RequestInv
    <3>4. CASE MoveRestart(p)
      <4>1. run' = run
        BY <3>2, <3>4, <2>2 DEF MoveRestart
      <4> QED BY <4>1, <2>2
    <3>5. CASE AutorunApply(p)
      <4>1. run' = run
        BY <3>2, <3>5, <2>2 DEF AutorunApply, AutorunStart, AutorunStop
      <4> QED BY <4>1, <2>2
    <3>6. CASE RefDeleteStop(p)
      BY <3>2, <3>6, <2>2 DEF RefDeleteStop
    <3> QED BY <3>1, <3>4, <3>5, <3>6
  <2> QED BY <2>3, <2>4, <2>5, RunStep
<1> QED BY <1>1, <1>2

\* An attempt enters the frame its ref names, when the name stands for nothing else.
LEMMA AttemptResolves ==
    ASSUME StateTypeOK, RequestInv, NEW p \in Proc, Step(p), NEW r \in Ref \ Shadowed,
           AttemptOf(req'[p], r), req'[p].pc # "resolve"
    PROVE  /\ AttemptOf(req[p], r)
           /\ \/ req[p].pc # "resolve" /\ req'[p].frame = req[p].frame
              \/ req[p].pc = "resolve" /\ refs[r] # None /\ req'[p].frame = refs[r].uuid
<1>i. Idle.op = "none"
  BY IdleRequest
<1>t. req \in [Proc -> Request] /\ ReqOK(req[p]) /\ None \notin Ref
  BY FrameStoreAssumption DEF StateTypeOK, RequestInv
<1>0. StepTable(p)
  BY StepTabled
<1>1. req'[p] # Idle /\ req[p] # Idle
  BY <1>0, <1>i DEF StepTable, FirstStep, AttemptOf
<1>2. /\ Kept(req'[p], req[p])
      /\ \/ req'[p].frame = req[p].frame
         \/ req[p].op = "create" /\ req[p].pc = "check"
         \/ req[p].op \in {"enter", "attempt"} /\ req[p].pc \in {"resolve", "go"}
  BY <1>1, StepKeeps
<1>3. AttemptOf(req[p], r) /\ req[p].op = "attempt" /\ req[p].ref = r
  BY <1>2 DEF Kept, AttemptOf
<1>4. req[p].pc # "go" /\ req[p].name = r
  BY <1>t, <1>3 DEF ReqOK, Steps
<1>5. CASE req[p].pc # "resolve"
  BY <1>2, <1>3, <1>4, <1>5
<1>6. CASE req[p].pc = "resolve"
  <2>1. Resolve(p)
    BY <1>0, <1>1, <1>3, <1>6 DEF StepTable
  <2>2. r \notin FrameList /\ r \notin {None, Namespace} /\ ~Done(p)
    BY <1>1, <1>t, DoneEffect DEF FrameList, Shadowed
  <2>3. r \in RefNames /\ EnterFrame(p, refs[r].uuid)
    <3>1. /\ IF r \in RefNames THEN EnterFrame(p, refs[r].uuid) ELSE Done(p)
      BY <2>1, <2>2, <1>4 DEF Resolve
    <3> QED BY <3>1, <2>2
  <2>4. refs[r] # None /\ refs[r].uuid \in Frame
    BY <2>3, RefFiles DEF RefNames, StateTypeOK
  <2>5. req'[p].frame = refs[r].uuid
    <3>1. PICK f \in Frame : f = refs[r].uuid
      BY <2>4
    <3>2. req' = [req EXCEPT ![p].pc = "stat", ![p].frame = f]
      BY <2>3, <3>1 DEF EnterFrame
    <3>3. req'[p].frame = f
      BY <3>2, <1>t DEF Request
    <3> QED BY <3>1, <3>3
  <2> QED BY <1>3, <1>6, <2>4, <2>5
<1> QED BY <1>5, <1>6

\* A step of a request on another ref, or of an attempt, leaves a program as
\* its file asks.
LEMMA RunsOn ==
    ASSUME StateTypeOK, RequestInv, NEW p \in Proc, Step(p), NEW r \in Ref \ Shadowed, ~RefOn(req[p], r),
           NEW file \in RefFile \cup {None}, RunsAs(r, file),
           file # None /\ refs[r] # None => refs[r].uuid = file.uuid
    PROVE  RunsThen(r, file)
<1>o. StepOf(p)
  BY StepRequest
<1>r. \/ run'[r] = run[r]
      \/ /\ EnterRepair(p) /\ AttemptOf(req[p], r)
         /\ run[r] # None /\ run'[r] = [run[r] EXCEPT !.at = req[p].frame]
  BY RunStep
<1>1. CASE file = None \/ file.autorun = None
  BY <1>1, <1>r DEF RunsAs, RunsThen
<1>2. CASE ~(file = None \/ file.autorun = None)
  <2>1. /\ run[r] # None /\ run[r].uuid = file.uuid /\ run[r].argv = file.autorun
        /\ run[r].at \in {None, file.uuid}
        /\ \A x \in Proc : AttemptOf(req[x], r) /\ req[x].pc # "resolve"
                              => req[x].frame = file.uuid
    BY <1>2 DEF RunsAs
  <2>2. /\ run'[r] # None /\ run'[r].uuid = file.uuid /\ run'[r].argv = file.autorun
        /\ run'[r].at \in {None, file.uuid}
    <3>1. CASE run'[r] = run[r]
      BY <3>1, <2>1
    <3>2. CASE /\ EnterRepair(p) /\ AttemptOf(req[p], r)
               /\ run'[r] = [run[r] EXCEPT !.at = req[p].frame]
      <4>1. req[p].frame = file.uuid
        BY <3>2, <2>1 DEF EnterRepair
      <4>2. run[r] \in ProcessType /\ req[p].frame \in Frame
        BY <2>1, <3>2 DEF EnterRepair, AttemptOf, StateTypeOK, RequestInv, ReqOK
      <4>3. PICK y \in ProcessType, f \in Frame : y = run[r] /\ f = req[p].frame
        BY <4>2
      <4>4. run'[r] = [y EXCEPT !.at = f]
        BY <3>2, <4>3
      <4>5. run'[r] # None /\ run'[r].uuid = y.uuid /\ run'[r].argv = y.argv /\ run'[r].at = f
        BY <4>4, Processes
      <4> QED BY <4>1, <4>3, <4>5, <2>1
    <3> QED BY <3>1, <3>2, <1>r
  <2>3. ASSUME NEW x \in Proc, AttemptOf(req'[x], r), req'[x].pc # "resolve"
        PROVE  req'[x].frame = file.uuid
    <3>1. CASE x # p
      BY <3>1, <2>1, <2>3, <1>o DEF StepOf
    <3>2. CASE x = p
      <4>2. /\ AttemptOf(req[p], r)
            /\ \/ req[p].pc # "resolve" /\ req'[p].frame = req[p].frame
               \/ req[p].pc = "resolve" /\ refs[r] # None /\ req'[p].frame = refs[r].uuid
        BY <3>2, <2>3, AttemptResolves
      <4> QED BY <3>2, <4>2, <2>1, <1>2
    <3> QED BY <3>1, <3>2
  <2> QED BY <1>2, <2>2, <2>3 DEF RunsThen
<1> QED BY <1>1, <1>2

\* The program of r after a step of the only request on r.
LEMMA AutorunOwn ==
    ASSUME StateTypeOK, RequestInv, NEW p \in Proc, Step(p), NEW r \in Ref \ Shadowed,
           RefOn(req[p], r), Knows(req[p], r), Attempting(r) => run[r] # None,
           ~Unapplied(req[p]) => RunsAs(r, refs[r]),
           req[p].op = "refmove" /\ Unapplied(req[p]) => (run[r] # None <=> req[p].got.autorun # None),
           At(p, "autorun", "apply") => RunsAs(r, req[p].got)
    PROVE  /\ ~(RefOn(req'[p], r) /\ Unapplied(req'[p])) => RunsThen(r, refs'[r])
           /\ RefOn(req'[p], r) =>
                /\ req'[p].op = "refmove" /\ Unapplied(req'[p]) => (run'[r] # None <=> req'[p].got.autorun # None)
                /\ req'[p].op = "autorun" /\ req'[p].pc = "apply" => RunsThen(r, req'[p].got)
<1> DEFINE q == req[p]
           n == req'[p]
<1>t. req \in [Proc -> Request] /\ q \in Request /\ ReqOK(q)
      /\ refs \in [Ref -> RefFile \cup {None}] /\ run \in [Ref -> ProcessType \cup {None}]
  BY DEF StateTypeOK, RequestInv
<1>q. q.ref = r /\ q # Idle /\ q.op \in {"refcreate", "refmove", "refdelete", "autorun", "create"} /\ r \in Ref
  BY IdleRequest DEF RefOn
<1>i. Idle.op = "none"
  BY IdleRequest
<1>0. StepTable(p)
  BY StepTabled
<1>o. \A x \in Proc : AttemptOf(req'[x], r) => x # p /\ req'[x] = req[x]
  <2>1. n.op # "attempt"
    BY <1>q, <1>i, StepKeeps DEF Kept
  <2> QED BY <2>1, StepRequest DEF StepOf, AttemptOf
<1>r. ASSUME NEW file, RunsAs(r, file), run'[r] = run[r] PROVE RunsThen(r, file)
  BY <1>r, <1>o DEF RunsAs, RunsThen
<1>a. ASSUME ~Attempting(r), NEW x \in Proc PROVE ~AttemptOf(req'[x], r)
  BY <1>a, <1>o DEF Attempting
<1>d. ASSUME NEW l \in Pcs, Goto(p, l) PROVE n.pc = l /\ RefOn(n, r) /\ n.got = q.got /\ n.frame = q.frame /\ n.op = q.op
  BY <1>d, <1>t, <1>q, GotoEffect DEF KeptToo, Kept, KeptReads, RefOn
<1>e. Done(p) => n = Idle /\ ~RefOn(n, r)
  BY <1>t, <1>i, DoneEffect DEF RefOn
<1>p. {"ensure", "identity", "rename", "restart", "apply", "stop", "scrub"} \subseteq Pcs
  BY PcsFacts
<1>1. CASE RefCreateWrite(p)
  <2>1. /\ q.op \in {"refcreate", "create"} /\ q.pc = "write" /\ q.frame \in Frame /\ run' = run
        /\ refs' = [refs EXCEPT ![r] = NewRef(q.frame)]
    BY <1>1, <1>q, <1>t DEF RefCreateWrite, ReqOK
  <2>2. refs[r] = None /\ ~Unapplied(q)
    BY <2>1 DEF Knows, Unapplied
  <2>3. run'[r] = None
    BY <2>1, <2>2 DEF RunsAs
  <2>4. refs'[r] = NewRef(q.frame) /\ NewRef(q.frame).autorun = None
    BY <2>1, <1>q, <1>t, RefFiles
  <2>5. RunsThen(r, refs'[r])
    BY <2>3, <2>4 DEF RunsThen
  <2>6. RefOn(n, r) => n.op \in {"refcreate", "create"}
    BY <2>1, <1>1, <1>e, <1>d, <1>p DEF RefCreateWrite
  <2> QED BY <2>5, <2>6
<1>2. CASE RefWrite(p)
  <2>1. /\ q.op \in {"refmove", "autorun"} /\ q.pc = "write" /\ run' = run /\ refs' = [refs EXCEPT ![r] = q.copy]
        /\ q.got \in RefFile /\ q.copy \in RefFile
    BY <1>2, <1>q, <1>t DEF RefWrite, ReqOK
  <2>2. refs[r] = q.got /\ ~Unapplied(q) /\ refs'[r] = q.copy
    BY <2>1, <1>q, <1>t DEF Knows, Unapplied
  <2>3. RunsThen(r, q.got)
    BY <2>1, <2>2, <1>r
  <2>4. CASE q.op = "autorun"
    <3>1. n.pc = "apply" /\ RefOn(n, r) /\ n.got = q.got /\ n.op = q.op
      BY <2>4, <1>2, <1>d, <1>p DEF RefWrite
    <3> QED BY <3>1, <2>3, <2>4 DEF Unapplied
  <2>5. CASE q.op = "refmove" /\ q.got.uuid # q.frame
    <3>1. n.pc = "identity" /\ RefOn(n, r) /\ n.got = q.got /\ n.op = q.op
      BY <2>5, <1>2, <1>d, <1>p DEF RefWrite
    <3>2. run'[r] # None <=> q.got.autorun # None
      <4>1. q.got # None
        BY <2>1, RefFiles
      <4> QED BY <4>1, <2>3 DEF RunsThen
    <3> QED BY <3>1, <3>2, <2>5 DEF Unapplied
  <2>6. CASE q.op = "refmove" /\ q.got.uuid = q.frame
    <3>1. Done(p)
      BY <2>6, <1>2 DEF RefWrite
    <3>2. q.copy = Moved(q.got, q.frame) /\ q.frame \in Frame
      BY <2>1, <2>6, <1>t DEF Knows, ReqOK
    <3>3. q.copy.uuid = q.got.uuid /\ q.copy.autorun = q.got.autorun /\ q.copy # None /\ q.got # None
      <4>1. Moved(q.got, q.frame).uuid = q.frame /\ Moved(q.got, q.frame).autorun = q.got.autorun
        BY <2>1, <3>2, MovedFile
      <4> QED BY <4>1, <3>2, <2>1, <2>6, RefFiles
    <3>4. RunsThen(r, refs'[r])
      BY <3>3, <2>2, <2>3 DEF RunsThen
    <3> QED BY <3>1, <3>4, <1>e
  <2> QED BY <2>1, <2>4, <2>5, <2>6
<1>3. CASE MoveIdentity(p) \/ MoveRename(p)
  <2>1. /\ q.op = "refmove" /\ q.pc \in {"identity", "rename"} /\ run' = run
        /\ Goto(p, "restart") \/ Goto(p, "rename")
    BY <1>3 DEF MoveIdentity, MoveRename, At
  <2>2. n.pc \in {"rename", "restart"} /\ RefOn(n, r) /\ n.got = q.got /\ n.op = q.op
    BY <2>1, <1>d, <1>p
  <2>3. run'[r] # None <=> q.got.autorun # None
    BY <2>1 DEF Unapplied
  <2> QED BY <2>1, <2>2, <2>3 DEF Unapplied
<1>4. CASE MoveRestart(p)
  <2>1. /\ q.op = "refmove" /\ q.pc = "restart" /\ Done(p)
        /\ refs' = refs /\ refs[r] = Moved(q.got, q.frame) /\ (run[r] # None <=> q.got.autorun # None)
    BY <1>4 DEF MoveRestart, At, Knows, Unapplied, disk
  <2>2. q.frame \in Frame /\ q.got \in RefFile
    BY <2>1, <1>t, MoveFields
  <2>3. /\ refs'[r] # None /\ refs'[r].uuid = q.frame /\ refs'[r].autorun = q.got.autorun
    <3>1. /\ Moved(q.got, q.frame) \in RefFile /\ Moved(q.got, q.frame).uuid = q.frame
          /\ Moved(q.got, q.frame).autorun = q.got.autorun
      BY <2>2, MovedFile
    <3> QED BY <3>1, <2>1, RefFiles
  <2>4. CASE q.got.autorun # None
    <3>1. ~Attempting(r) /\ run' = [run EXCEPT ![r] = Process(q.frame, q.got.autorun)]
      BY <1>4, <2>4, <1>q DEF MoveRestart, Restarted
    <3>2. run'[r] = Process(q.frame, q.got.autorun) /\ q.got.autorun \in Argv
      BY <3>1, <1>t, <1>q, <2>2, <2>4, RefFiles
    <3>3. run'[r] # None /\ run'[r].uuid = q.frame /\ run'[r].argv = q.got.autorun /\ run'[r].at = None
      BY <3>2, <2>2, Processes
    <3>4. RunsThen(r, refs'[r])
      BY <3>1, <3>3, <2>3, <2>4, <1>a DEF RunsThen
    <3> QED BY <3>4, <2>1, <1>e
  <2>5. CASE q.got.autorun = None
    <3>1. run' = run
      BY <1>4, <2>5 DEF MoveRestart
    <3>2. RunsThen(r, refs'[r])
      BY <3>1, <2>1, <2>3, <2>5 DEF RunsThen
    <3> QED BY <3>2, <2>1, <1>e
  <2> QED BY <2>4, <2>5
<1>5. CASE AutorunApply(p)
  <2>1. /\ q.op = "autorun" /\ q.pc = "apply" /\ Done(p) /\ q.got \in RefFile
        /\ refs' = refs /\ refs[r] = SetAutorun(q.got, q.cmd) /\ RunsAs(r, q.got)
    BY <1>5, <1>t DEF AutorunApply, AutorunStart, AutorunStop, At, Knows, Unapplied, disk, ReqOK
  <2>2. q.cmd \in Argv \cup {None}
    BY <1>t, RequestFields
  <2>3. refs'[r] # None /\ refs'[r].uuid = q.got.uuid /\ refs'[r].autorun = q.cmd
    <3>1. /\ SetAutorun(q.got, q.cmd) \in RefFile /\ SetAutorun(q.got, q.cmd).uuid = q.got.uuid
          /\ SetAutorun(q.got, q.cmd).autorun = q.cmd
      BY <2>1, <2>2, SetFile
    <3> QED BY <3>1, <2>1, RefFiles
  <2>4. CASE q.cmd = None
    <3>1. run' = [run EXCEPT ![r] = None]
      BY <1>5, <2>4, <1>q DEF AutorunApply, AutorunStart, AutorunStop
    <3>2. RunsThen(r, refs'[r])
      BY <3>1, <2>3, <2>4, <1>t, <1>q DEF RunsThen
    <3> QED BY <3>2, <2>1, <1>e
  <2>5. CASE q.cmd # None /\ AlreadyRuns(r, q.got.uuid, q.cmd)
    <3>1. run' = run
      BY <1>5, <2>5, <1>q DEF AutorunApply, AutorunStart, AutorunStop
    <3>2. q.got # None /\ q.got.autorun = q.cmd
      <4>1. run[r] # None /\ run[r].argv = q.cmd
        BY <2>5 DEF AlreadyRuns
      <4>2. q.got # None
        BY <2>1, RefFiles
      <4>3. q.got.autorun # None
        BY <4>1, <4>2, <2>1 DEF RunsAs
      <4> QED BY <4>1, <4>2, <4>3, <2>1 DEF RunsAs
    <3>3. RunsThen(r, q.got)
      BY <2>1, <3>1, <1>r
    <3>4. RunsThen(r, refs'[r])
      BY <3>2, <3>3, <2>3, <2>5 DEF RunsThen
    <3> QED BY <3>4, <2>1, <1>e
  <2>6. CASE q.cmd # None /\ ~AlreadyRuns(r, q.got.uuid, q.cmd)
    <3>1. run' = [run EXCEPT ![r] = Process(q.got.uuid, q.cmd)] /\ ~Attempting(r)
      BY <1>5, <2>6, <1>q DEF AutorunApply, AutorunStart, AutorunStop
    <3>3. run'[r] = Process(q.got.uuid, q.cmd) /\ q.got.uuid \in Frame /\ q.cmd \in Argv
      BY <3>1, <1>t, <1>q, <2>1, <2>2, <2>6, RefFiles
    <3>4. run'[r] # None /\ run'[r].uuid = q.got.uuid /\ run'[r].argv = q.cmd /\ run'[r].at = None
      BY <3>3, Processes
    <3>5. RunsThen(r, refs'[r])
      BY <3>1, <3>4, <2>3, <2>6, <1>a DEF RunsThen
    <3> QED BY <3>5, <2>1, <1>e
  <2> QED BY <2>4, <2>5, <2>6
<1>6. CASE RefDeleteUnlink(p)
  <2>1. /\ q.op = "refdelete" /\ q.pc = "unlink" /\ run' = run /\ refs' = [refs EXCEPT ![r] = None]
        /\ ~Unapplied(q)
    BY <1>6, <1>q DEF RefDeleteUnlink, At, Unapplied
  <2>2. refs'[r] = None
    BY <2>1, <1>t, <1>q
  <2>3. CASE refs[r] = None
    <3>1. Done(p)
      BY <2>3, <1>6, <1>q DEF RefDeleteUnlink
    <3>2. RunsThen(r, refs'[r])
      BY <2>1, <2>2, <2>3 DEF RunsAs, RunsThen
    <3> QED BY <3>1, <3>2, <1>e
  <2>4. CASE refs[r] # None
    <3>1. n.pc = "stop" /\ RefOn(n, r) /\ n.op = q.op
      BY <2>4, <1>6, <1>q, <1>d, <1>p DEF RefDeleteUnlink
    <3> QED BY <3>1, <2>1 DEF Unapplied
  <2> QED BY <2>3, <2>4
<1>7. CASE RefDeleteStop(p)
  <2>1. /\ q.op = "refdelete" /\ q.pc = "stop" /\ refs' = refs /\ refs[r] = None
        /\ run' = [run EXCEPT ![r] = None]
    BY <1>7, <1>q DEF RefDeleteStop, At, Knows, disk
  <2>2. RunsThen(r, refs'[r])
    BY <2>1, <1>t, <1>q DEF RunsThen
  <2>3. RefOn(n, r) => n.op = "refdelete"
    BY <1>7, <2>1, <1>d, <1>e, <1>p DEF RefDeleteStop
  <2> QED BY <2>2, <2>3
<1>8. CASE ~(\/ RefCreateWrite(p) \/ RefWrite(p) \/ MoveIdentity(p) \/ MoveRename(p)
             \/ MoveRestart(p) \/ AutorunApply(p) \/ RefDeleteUnlink(p) \/ RefDeleteStop(p))
  <2>1. refs' = refs
    BY <1>8, StepTouched DEF Touched
  <2>2. run' = run
    BY <1>8, <1>q, StepTouched DEF Touched, EnterRepair, Entering
  <2>3. ~Unapplied(q) /\ ~(RefOn(n, r) /\ Unapplied(n))
    BY <1>8, <1>0, <1>q, <1>i DEF StepTable, Unapplied, Kept, RefOn
  <2>4. RunsThen(r, refs'[r])
    BY <2>1, <2>2, <2>3, <1>r
  <2> QED BY <2>3, <2>4 DEF Unapplied
<1> QED BY <1>1, <1>2, <1>3, <1>4, <1>5, <1>6, <1>7, <1>8

LEMMA AutorunStep ==
    ASSUME FramesTypeOK, RequestInv, KnowsInv, AutorunInv, NEW p \in Proc, Step(p), Watch(FALSE)
    PROVE  AutorunInv'
<1>s. StateTypeOK /\ RequestInv /\ Step(p)
  BY DEF FramesTypeOK
<1>o. \A x \in Proc : x # p => req'[x] = req[x]
  BY <1>s, StepRequest DEF StepOf
<1>a. \A r \in Ref : Attempting(r) => run[r] # None
  BY DEF AutorunInv
<1>1. ASSUME NEW r \in Ref, NEW x \in Proc, AttemptOf(req'[x], r) PROVE run'[r] # None
  BY <1>1, <1>s, <1>a, AttemptsStep
<1>2. ASSUME NEW r \in Ref, r \notin Shadowed, r \notin disturbed'
      PROVE  /\ (\A x \in Proc : ~(RefOn(req'[x], r) /\ Unapplied(req'[x]))) => RunsThen(r, refs'[r])
             /\ \A x \in Proc : RefOn(req'[x], r) =>
                   /\ req'[x].op = "refmove" /\ Unapplied(req'[x]) => (run'[r] # None <=> req'[x].got.autorun # None)
                   /\ req'[x].op = "autorun" /\ req'[x].pc = "apply" => RunsThen(r, req'[x].got)
  <2>u. r \notin disturbed
    BY <1>2, Undisturbed
  <2>k. \A x \in Proc : RefOn(req[x], r) => Knows(req[x], r) /\ \A y \in Proc : RefOn(req[y], r) => y = x
    BY <2>u DEF KnowsInv
  <2>i. /\ (\A x \in Proc : ~(RefOn(req[x], r) /\ Unapplied(req[x]))) => RunsAs(r, refs[r])
        /\ \A x \in Proc : RefOn(req[x], r) =>
              /\ req[x].op = "refmove" /\ Unapplied(req[x]) => (run[r] # None <=> req[x].got.autorun # None)
              /\ At(x, "autorun", "apply") => RunsAs(r, req[x].got)
    BY <1>2, <2>u DEF AutorunInv
  <2>1. CASE RefOn(req[p], r)
    <3>1. \A x \in Proc : x # p => ~RefOn(req'[x], r)
      BY <2>1, <2>k, <1>o
    <3>2. ~Unapplied(req[p]) => RunsAs(r, refs[r])
      BY <2>1, <2>k, <2>i
    <3>3. /\ ~(RefOn(req'[p], r) /\ Unapplied(req'[p])) => RunsThen(r, refs'[r])
          /\ RefOn(req'[p], r) =>
                /\ req'[p].op = "refmove" /\ Unapplied(req'[p]) => (run'[r] # None <=> req'[p].got.autorun # None)
                /\ req'[p].op = "autorun" /\ req'[p].pc = "apply" => RunsThen(r, req'[p].got)
      BY <2>1, <2>k, <2>i, <3>2, <1>s, <1>a, <1>2, AutorunOwn
    <3> QED BY <3>1, <3>3
  <2>2. CASE ~RefOn(req[p], r)
    <3>1. refs'[r] = refs[r] /\ refs[r] \in RefFile \cup {None}
      BY <2>2, <1>s, RefsStep DEF StateTypeOK
    <3>2. RefOn(req'[p], r) => /\ ~Unapplied(req'[p])
                               /\ ~(req'[p].op = "autorun" /\ req'[p].pc = "apply")
      <4>1. ASSUME RefOn(req'[p], r) PROVE FirstStep(req'[p])
        <5>1. req'[p] # Idle
          BY <4>1, IdleRequest DEF RefOn
        <5>2. ~Kept(req'[p], req[p])
          BY <4>1, <2>2 DEF RefOn, Kept
        <5>3. req[p] = Idle
          BY <5>1, <5>2, <1>s, StepKeeps
        <5>4. Start(p) \/ req'[p].op = "attempt"
          BY <5>3, <1>s, StepTabled, IdleRequest DEF StepTable
        <5> QED BY <5>4, <4>1, <1>s, StartRequest DEF RefOn
      <4> QED BY <4>1 DEF FirstStep, Unapplied
    <3>3. \A x \in Proc : RefOn(req[x], r) => x # p /\ req'[x] = req[x]
      BY <2>2, <1>o
    <3>4. \A x \in Proc : RefOn(req'[x], r) /\ x # p => req'[x] = req[x] /\ RefOn(req[x], r)
      BY <1>o
    <3>5. run'[r] # None <=> run[r] # None
      <4>1. CASE run'[r] = run[r]
        BY <4>1
      <4>2. CASE /\ EnterRepair(p) /\ AttemptOf(req[p], r) /\ run[r] # None
                 /\ run'[r] = [run[r] EXCEPT !.at = req[p].frame]
        <5>1. run[r] \in ProcessType /\ req[p].frame \in Frame
          BY <4>2, <1>s DEF EnterRepair, AttemptOf, StateTypeOK, RequestInv, ReqOK
        <5> QED BY <4>2, <5>1, Processes
      <4> QED BY <4>1, <4>2, <2>2, <1>s, RunStep
    <3>6. ASSUME \A x \in Proc : ~(RefOn(req'[x], r) /\ Unapplied(req'[x])) PROVE RunsThen(r, refs'[r])
      <4>1. RunsAs(r, refs[r])
        BY <3>3, <3>6, <2>i
      <4>2. PICK file \in RefFile \cup {None} : file = refs[r]
        BY <3>1
      <4>3. RunsThen(r, file)
        BY <4>1, <4>2, <2>2, <1>s, <1>2, RunsOn
      <4> QED BY <4>2, <4>3, <3>1
    <3>7. ASSUME NEW x \in Proc, RefOn(req'[x], r), req'[x].op = "autorun", req'[x].pc = "apply"
          PROVE  RunsThen(r, req'[x].got)
      <4>1. x # p /\ req'[x] = req[x] /\ RefOn(req[x], r) /\ At(x, "autorun", "apply")
        BY <3>7, <3>2, <3>4 DEF At
      <4>2. RunsAs(r, req[x].got) /\ refs[r] = SetAutorun(req[x].got, req[x].cmd)
        BY <4>1, <2>i, <2>k DEF Knows, At
      <4>3. req[x].got \in RefFile /\ req[x].cmd \in Argv \cup {None}
        BY <4>1, <1>s, RequestFields DEF StateTypeOK, RequestInv, ReqOK, At
      <4>4. PICK file \in RefFile : file = req[x].got
        BY <4>3
      <4>5. refs[r].uuid = file.uuid
        BY <4>2, <4>3, <4>4, SetFile
      <4>6. RunsThen(r, file)
        BY <4>2, <4>4, <4>5, <2>2, <1>s, <1>2, RunsOn
      <4> QED BY <4>1, <4>4, <4>6
    <3>8. ASSUME NEW x \in Proc, RefOn(req'[x], r), req'[x].op = "refmove", Unapplied(req'[x])
          PROVE  run'[r] # None <=> req'[x].got.autorun # None
      <4>1. req'[x] = req[x] /\ RefOn(req[x], r)
        BY <3>8, <3>2, <3>4
      <4>2. run[r] # None <=> req[x].got.autorun # None
        BY <4>1, <3>8, <2>i
      <4> QED BY <4>1, <4>2, <3>5
    <3> QED BY <3>6, <3>7, <3>8
  <2> QED BY <2>1, <2>2
<1>3. (\A r \in Ref : Attempting(r) => run[r] # None)'
  BY <1>1 DEF Attempting, AttemptOf
<1>4. ASSUME NEW r \in Ref \ (Shadowed \cup disturbed')
      PROVE  /\ ((\A x \in Proc : ~(RefOn(req[x], r) /\ Unapplied(req[x]))) => RunsAs(r, refs[r]))'
             /\ (\A x \in Proc : RefOn(req[x], r) =>
                   /\ req[x].op = "refmove" /\ Unapplied(req[x]) => (run[r] # None <=> req[x].got.autorun # None)
                   /\ At(x, "autorun", "apply") => RunsAs(r, req[x].got))'
  <2>1. r \in Ref /\ r \notin Shadowed /\ r \notin disturbed'
    BY <1>4
  <2>2. /\ (\A x \in Proc : ~(RefOn(req'[x], r) /\ Unapplied(req'[x]))) => RunsThen(r, refs'[r])
        /\ \A x \in Proc : RefOn(req'[x], r) =>
              /\ req'[x].op = "refmove" /\ Unapplied(req'[x]) => (run'[r] # None <=> req'[x].got.autorun # None)
              /\ req'[x].op = "autorun" /\ req'[x].pc = "apply" => RunsThen(r, req'[x].got)
    BY <1>2, <2>1
  <2>3. RunsAs(r, refs[r])' <=> RunsThen(r, refs'[r])
    BY DEF RunsAs, RunsThen, AttemptOf
  <2>4. ASSUME NEW x \in Proc PROVE RunsAs(r, req[x].got)' <=> RunsThen(r, req'[x].got)
    BY DEF RunsAs, RunsThen, AttemptOf
  <2>5. ASSUME NEW x \in Proc PROVE At(x, "autorun", "apply")' <=> (req'[x].op = "autorun" /\ req'[x].pc = "apply")
    BY DEF At
  <2> HIDE DEF RunsThen, RunsAs
  <2> QED BY <2>2, <2>3, <2>4, <2>5 DEF RefOn, Unapplied
<1> QED BY <1>3, <1>4 DEF AutorunInv

\* A step of a request that neither builds nor deletes f only adds /id to it.
LEMMA TreeGrows ==
    ASSUME StateTypeOK, RequestInv, NEW p \in Proc, Step(p), NEW f \in Frame, ~Shaping(req[p], f)
    PROVE  /\ tree[f] \subseteq tree'[f]
           /\ tree'[f] # tree[f] => "root" \in tree[f]
<1>t. /\ tree \in [Frame -> SUBSET Part] /\ req[p] \in Request /\ ReqOK(req[p])
  BY DEF StateTypeOK, RequestInv
<1>1. CASE tree'[f] = tree[f]
  BY <1>1
<1>2. CASE tree'[f] # tree[f]
  <2>1. req[p].frame = f
    BY <1>2, TreeStep
  <2>2. ~Building(req[p]) /\ ~Deleting(req[p])
    BY <2>1 DEF Shaping
  <2>3. ~DeleteNested(p) /\ ~DeleteRoot(p)
    BY <2>2 DEF DeleteNested, DeleteRoot, Deleting, At
  <2>4. ~BuildComp(p) /\ ~BuildID(p)
    BY <2>2 DEF BuildComp, BuildID
  <2>5. RefCreateEnsure(p) \/ MoveIdentity(p) \/ EnterRepair(p)
    BY <1>2, <2>3, <2>4, StepTouched DEF Touched
  <2>6. CanEnsureID(f) /\ tree' = WithID(f)
    <3>1. ASSUME EnsureIdentity(f, req[p].ref) PROVE CanEnsureID(f) /\ tree' = WithID(f)
      BY <3>1, <1>2 DEF EnsureIdentity
    <3>2. CASE RefCreateEnsure(p)
      BY <3>1, <3>2, <2>1 DEF RefCreateEnsure
    <3>3. CASE MoveIdentity(p)
      BY <3>1, <3>3, <2>1 DEF MoveIdentity
    <3>4. CASE EnterRepair(p)
      BY <3>4, <2>1, <1>2 DEF EnterRepair
    <3> QED BY <2>5, <3>2, <3>3, <3>4
  <2> QED BY <2>6, <1>t DEF CanEnsureID, WithID
<1> QED BY <1>1, <1>2

\* Building goes component by component.
LEMMA BuildsOn ==
    ASSUME StateTypeOK, RequestInv, NEW p \in Proc, BuildComp(p), NEW f \in Frame, req[p].frame = f,
           BuiltSoFar(req[p], f), req'[p] # Idle
    PROVE  BuiltSoFar(req[p], f)'
<1> DEFINE q == req[p]
           c == q.pc
<1>t. /\ tree \in [Frame -> SUBSET Part] /\ req \in [Proc -> Request] /\ c \in {"root", "home", "work"}
      /\ ~Done(p)
  BY DoneEffect DEF StateTypeOK, BuildComp, Comp
<1>1. CanBuild(q, c) /\ tree' = [tree EXCEPT ![f] = Built(q, c)] /\ Goto(p, AfterComp(q, c))
  BY <1>t DEF BuildComp
<1>2. tree'[f] = Built(q, c)
  BY <1>1, <1>t
<1>3. tree[f] \cup {c} \subseteq tree'[f]
  BY <1>2 DEF Built, AfterSnapshot
<1>4. c = "root" \/ "root" \in tree[f]
  BY <1>t DEF BuiltSoFar
<1>5. req'[p].pc = AfterComp(q, c) /\ AfterComp(q, c) = [root |-> "home", home |-> "work", work |-> "meta"][c]
  <2>1. AfterComp(q, c) \in {"home", "work", "meta"}
    BY <1>t DEF AfterComp
  <2>2. AfterComp(q, c) \in Pcs
    BY <2>1, PcsFacts
  <2> QED BY <1>1, <1>t, <2>2, GotoEffect DEF AfterComp
<1>6. CASE c = "root"
  BY <1>3, <1>5, <1>6 DEF BuiltSoFar
<1>7. CASE c = "home"
  BY <1>3, <1>5, <1>7 DEF BuiltSoFar
<1>8. CASE c = "work"
  BY <1>3, <1>5, <1>8 DEF BuiltSoFar, Comp
<1> QED BY <1>t, <1>6, <1>7, <1>8

\* A frame outside hurt is built by one request, which nobody deletes or visits,
\* and which ends with /id.
LEMMA Unhurt ==
    ASSUME NEW c \in BOOLEAN, Watch(c), NEW f \in Frame, f \notin hurt'
    PROVE  /\ f \notin hurt
           /\ \A x, y \in Proc : x # y /\ Shaping(req'[x], f) => ~Shaping(req'[y], f) /\ ~Visiting(req'[y], f)
           /\ \A x \in Proc : Deleting(req'[x]) => req'[x].frame # f
           /\ \A x \in Proc : Shaping(req[x], f) /\ req'[x] = Idle =>
                 ~c /\ req[x].pc = "id" /\ "id" \in tree'[f]
BY DEF Watch

LEMMA WholeStep ==
    ASSUME FramesTypeOK, RequestInv, IssuedInv, WholeInv, NEW p \in Proc, Step(p), Watch(FALSE)
    PROVE  WholeInv'
<1>s. StateTypeOK /\ RequestInv /\ Step(p)
  BY DEF FramesTypeOK
<1>o. \A x \in Proc : x # p => req'[x] = req[x]
  BY <1>s, StepRequest DEF StepOf
<1>i. Idle.op = "none" /\ Idle.pc = "idle"
  BY IdleRequest
<1>0. StepTable(p)
  BY <1>s, StepTabled
<1>r. req \in [Proc -> Request] /\ req[p] \in Request /\ ReqOK(req[p]) /\ tree \in [Frame -> SUBSET Part]
  BY <1>s DEF StateTypeOK, RequestInv
<1> SUFFICES ASSUME NEW f \in Frame, f \notin hurt'
             PROVE  /\ \A x \in Proc : Shaping(req'[x], f) =>
                          /\ ~Deleting(req'[x]) /\ BuiltSoFar(req[x], f)'
                          /\ \A y \in Proc \ {x} : ~Shaping(req'[y], f) /\ ~Visiting(req'[y], f)
                    /\ (\A x \in Proc : ~Shaping(req'[x], f)) => tree'[f] = {} \/ Comp \cup {"id"} \subseteq tree'[f]
                    /\ \A x \in Proc : Visiting(req'[x], f) /\ req'[x].pc # "stat" => Comp \cup {"id"} \subseteq tree'[f]
  BY DEF WholeInv, Whole, Shaping, Visiting, Deleting, Building, Entering
<1>u. /\ f \notin hurt
      /\ \A x, y \in Proc : x # y /\ Shaping(req'[x], f) => ~Shaping(req'[y], f) /\ ~Visiting(req'[y], f)
      /\ \A x \in Proc : Deleting(req'[x]) => req'[x].frame # f
      /\ \A x \in Proc : Shaping(req[x], f) /\ req'[x] = Idle => req[x].pc = "id" /\ "id" \in tree'[f]
  BY Unhurt
<1>w. /\ \A x \in Proc : Shaping(req[x], f) =>
              /\ ~Deleting(req[x]) /\ BuiltSoFar(req[x], f)
              /\ \A y \in Proc \ {x} : ~Shaping(req[y], f) /\ ~Visiting(req[y], f)
      /\ (\A x \in Proc : ~Shaping(req[x], f)) => tree[f] = {} \/ Comp \cup {"id"} \subseteq tree[f]
      /\ \A x \in Proc : Visiting(req[x], f) /\ req[x].pc # "stat" => Comp \cup {"id"} \subseteq tree[f]
  BY <1>u DEF WholeInv, Whole
<1>g. ~Shaping(req[p], f) => tree[f] \subseteq tree'[f] /\ (tree'[f] # tree[f] => "root" \in tree[f])
  BY <1>s, TreeGrows
\* The end of a build.
<1>b. ASSUME Shaping(req[p], f), ~Shaping(req'[p], f) PROVE BuildID(p) /\ Comp \cup {"id"} \subseteq tree'[f]
  <2>1. /\ req[p].frame = f /\ ~Deleting(req[p]) /\ BuiltSoFar(req[p], f)
        /\ Building(req[p]) \/ (req[p].op = "create" /\ req[p].pc = "fetch")
    BY <1>b, <1>w DEF Shaping
  <2>2. req'[p] = Idle => req[p].pc = "id" /\ "id" \in tree'[f]
    BY <1>b, <1>u
  <2>3. req[p] # Idle
    BY <2>1, <1>i DEF Building
  <2>4. req'[p] # Idle => Kept(req'[p], req[p]) /\ req'[p].frame = f
    <3>1. req[p].op \in {"create", "enter", "attempt"}
      BY <2>1, <1>r, BuildingFrame
    <3>2. req[p].pc \notin {"check", "resolve", "go"}
      BY <2>1 DEF Building
    <3> QED BY <2>1, <2>3, <3>1, <3>2, <1>s, StepKeeps
  <2>5. req[p].pc = "id"
    <3>1. req[p].pc \in {"fetch", "root", "home", "work", "meta", "id"} /\ req[p].op # "delframe"
      BY <2>1 DEF Building
    <3>2. ASSUME req'[p] # Idle, req[p].pc # "id" PROVE FALSE
      <4>1. req'[p].pc \in {"root", "home", "work", "meta", "id"}
        BY <3>1, <3>2, <1>0, <2>3 DEF StepTable
      <4>2. req'[p].op # "delframe"
        BY <3>1, <3>2, <2>4 DEF Kept
      <4> QED BY <4>1, <4>2, <2>4, <3>2, <1>b DEF Shaping, Building
    <3> QED BY <3>2, <2>2
  <2>6. BuildID(p)
    BY <2>1, <2>3, <2>5, <1>0 DEF StepTable, Building, Deleting
  <2>7. Comp \subseteq tree[f]
    BY <2>1, <2>5 DEF BuiltSoFar
  <2>8. CASE tree' = WithID(f)
    BY <2>6, <2>7, <2>8, <1>r DEF WithID
  <2>9. CASE tree' # WithID(f)
    <3>1. tree' = tree /\ Done(p)
      BY <2>6, <2>9, <2>1 DEF BuildID
    <3>2. req'[p] = Idle
      BY <3>1, <1>r, DoneEffect
    <3> QED BY <3>1, <3>2, <2>2, <2>6, <2>7
  <2> QED BY <2>8, <2>9
<1>1. ASSUME NEW x \in Proc, Shaping(req'[x], f) PROVE ~Deleting(req'[x]) /\ BuiltSoFar(req[x], f)'
  <2>1. ~Deleting(req'[x])
    BY <1>1, <1>u DEF Shaping, Deleting, Building
  <2>2. CASE x # p
    <3>1. req'[x] = req[x] /\ BuiltSoFar(req[x], f) /\ ~Shaping(req[p], f)
      BY <1>1, <2>2, <1>o, <1>w
    <3>2. tree[f] \subseteq tree'[f] /\ (tree[f] = {} => tree'[f] = tree[f])
      BY <3>1, <1>g
    <3>3. BuiltSoFar(req[x], f)'
      BY <3>1, <3>2 DEF BuiltSoFar
    <3> QED BY <2>1, <3>3
  <2>3. CASE x = p
    <3>1. req'[p].frame = f /\ req'[p] # Idle /\ req'[p].op # "delframe"
          /\ req'[p].pc \in {"root", "home", "work", "meta", "id", "fetch"}
      BY <1>1, <2>1, <2>3, <1>i DEF Shaping, Building, Deleting
    <3>2. req[p] # Idle
      BY <3>1, <1>0, <1>i DEF StepTable, FirstStep
    <3>3. \/ CreateCheck(p) \/ CreateFetch(p) \/ BuildComp(p) \/ BuildMeta(p) \/ EnsureRootFS(p)
      <4>1. Kept(req'[p], req[p])
        BY <3>1, <3>2, <1>s, StepKeeps
      <4>2. req[p].op # "delframe"
        BY <4>1, <3>1 DEF Kept
      <4> QED BY <3>1, <3>2, <4>2, <1>0, <1>i DEF StepTable
    <3>4. ~Done(p)
      BY <3>1, <1>r, DoneEffect
    <3>5. CASE CreateCheck(p)
      <4>1. tree' = tree /\ req'[p].pc = "fetch"
        BY <3>4, <3>5, <1>s, CreateCheckStep DEF CreateCheck
      <4>2. f \in Fresh
        BY <3>1, <3>4, <3>5, <1>s, CreateCheckStep
      <4>3. tree[f] = {}
        BY <4>2 DEF Fresh, IssuedInv
      <4> QED BY <4>1, <4>3, <2>1, <2>3 DEF BuiltSoFar
    <3>6. CASE ~CreateCheck(p)
      <4>1. req'[p].frame = req[p].frame
        BY <3>1, <3>2, <3>3, <3>6, <1>s, StepKeeps, <1>0 DEF StepTable, EnsureRootFS, BuildComp, Building, BuildMeta, CreateFetch, At, Comp
      <4>2. CASE CreateFetch(p)
        <5>1. Shaping(req[p], f) /\ tree' = tree /\ req'[p].pc = "root" /\ req[p].pc = "fetch"
          <6>1. Goto(p, "root")
            BY <4>2, <3>4 DEF CreateFetch
          <6>2. req'[p].pc = "root"
            BY <6>1, <1>r, GotoEffect, PcsFacts
          <6> QED BY <4>2, <6>2, <3>1, <4>1 DEF CreateFetch, At, Shaping
        <5>2. tree[f] = {}
          BY <5>1, <1>w DEF BuiltSoFar
        <5> QED BY <5>1, <5>2, <2>1, <2>3 DEF BuiltSoFar
      <4>3. CASE BuildComp(p)
        <5>1. BuiltSoFar(req[p], f)
          BY <4>3, <4>1, <3>1, <1>w DEF BuildComp, Shaping
        <5>2. BuiltSoFar(req[p], f)'
          BY <4>1, <4>3, <5>1, <3>1, <1>s, BuildsOn
        <5> QED BY <5>2, <2>1, <2>3
      <4>4. CASE BuildMeta(p)
        <5>1. Shaping(req[p], f) /\ tree' = tree /\ req'[p].pc = "id" /\ req[p].pc = "meta"
          <6>1. Goto(p, "id")
            BY <4>4 DEF BuildMeta
          <6>2. req'[p].pc = "id"
            BY <6>1, <1>r, GotoEffect, PcsFacts
          <6> QED BY <4>4, <6>2, <3>1, <4>1 DEF BuildMeta, Shaping
        <5>2. Comp \subseteq tree[f]
          BY <5>1, <1>w DEF BuiltSoFar
        <5> QED BY <5>1, <5>2, <2>1, <2>3 DEF BuiltSoFar
      <4>5. CASE EnsureRootFS(p)
        <5>1. tree' = tree
          BY <4>5 DEF EnsureRootFS, disk
        <5>2. ~Goto(p, "repair")
          BY <3>1, <1>r, GotoEffect, PcsFacts
        <5>3. "root" \notin tree[f] /\ req'[p].pc = "root"
          BY <4>1, <4>5, <5>2, <3>1, <1>s, EnsureRootFSStep
        <5>4. tree[f] = {}
          BY <5>3 DEF IssuedInv
        <5> QED BY <5>1, <5>3, <5>4, <2>1, <2>3 DEF BuiltSoFar
      <4> QED BY <3>3, <3>6, <4>2, <4>3, <4>4, <4>5
    <3> QED BY <3>5, <3>6
  <2> QED BY <2>2, <2>3
<1>2. ASSUME \A x \in Proc : ~Shaping(req'[x], f)
      PROVE  tree'[f] = {} \/ Comp \cup {"id"} \subseteq tree'[f]
  <2>1. CASE Shaping(req[p], f)
    BY <2>1, <1>2, <1>b
  <2>2. CASE ~Shaping(req[p], f)
    <3>1. \A x \in Proc : ~Shaping(req[x], f)
      BY <2>2, <1>2, <1>o
    <3> QED BY <2>2, <3>1, <1>w, <1>g
  <2> QED BY <2>1, <2>2
<1>3. ASSUME NEW x \in Proc, Visiting(req'[x], f), req'[x].pc # "stat"
      PROVE  Comp \cup {"id"} \subseteq tree'[f]
  <2>1. CASE x # p
    <3>1. Visiting(req[x], f) /\ req[x].pc # "stat" /\ ~Shaping(req[p], f)
      BY <2>1, <1>3, <1>o, <1>w
    <3> QED BY <3>1, <1>w, <1>g
  <2>2. CASE x = p
    <3>1. req'[p].frame = f /\ req'[p].op \in {"enter", "attempt"} /\ req'[p].pc \in {"repair", "in"} /\ req'[p] # Idle
      BY <2>2, <1>3, <1>i DEF Visiting, Entering
    <3>2. req[p] # Idle
      BY <3>1, <1>0, <1>i DEF StepTable, FirstStep
    <3>3. Kept(req'[p], req[p])
      BY <3>1, <3>2, <1>s, StepKeeps
    <3>4. req[p].op \in {"enter", "attempt"}
      BY <3>1, <3>3 DEF Kept
    <3>5. BuildID(p) \/ EnsureRootFS(p) \/ EnterRepair(p)
      BY <3>1, <3>2, <3>4, <1>0 DEF StepTable
    <3>6. req'[p].frame = req[p].frame
      <4>1. req[p].pc \notin {"resolve", "go"}
        BY <3>5 DEF BuildID, EnsureRootFS, EnterRepair
      <4> QED BY <3>1, <3>2, <3>4, <4>1, <1>s, StepKeeps
    <3>7. CASE BuildID(p)
      <4>1. Shaping(req[p], f)
        BY <3>1, <3>6, <3>7 DEF BuildID, Shaping
      <4>2. ~Shaping(req'[p], f)
        BY <3>1 DEF Shaping, Building, Deleting
      <4> QED BY <4>1, <4>2, <1>b
    <3>8. CASE EnsureRootFS(p)
      <4>1. "root" \in tree[f] /\ tree' = tree /\ req[p].pc = "stat"
        BY <3>1, <3>6, <3>8, <1>s, EnsureRootFSStep DEF EnsureRootFS, disk
      <4>2. Visiting(req[p], f) /\ ~Shaping(req[p], f)
        BY <3>1, <3>4, <3>6, <4>1 DEF Visiting, Entering, Shaping, Building, Deleting
      <4>3. \A y \in Proc : ~Shaping(req[y], f)
        BY <4>2, <1>w
      <4> QED BY <4>1, <4>3, <1>w
    <3>9. CASE EnterRepair(p)
      <4>1. Visiting(req[p], f) /\ req[p].pc = "repair" /\ ~Shaping(req[p], f)
        BY <3>1, <3>4, <3>6, <3>9 DEF EnterRepair, Visiting, Entering, Shaping, Building, Deleting
      <4> QED BY <4>1, <1>w, <1>g
    <3> QED BY <3>5, <3>7, <3>8, <3>9
  <2> QED BY <2>1, <2>2
<1> QED BY <1>1, <1>2, <1>3, <1>u

\* A step that leaves the requests, the refs and the frames as they were.
LEMMA NothingMoves ==
    ASSUME FramesInv, FramesTypeOK', refs' = refs, meta' = meta, tree' = tree, ident' = ident,
           req' = req, run' = run, issued' = issued,
           disturbed \subseteq disturbed', hurt \subseteq hurt', \A p \in Proc : held'[p] \subseteq held[p]
    PROVE  FramesInv'
<1>1. RequestInv'
  BY DEF FramesInv, RequestInv
<1>2. IssuedInv'
  BY DEF FramesInv, IssuedInv
<1>3. HeldInv' /\ NamedFrameSpared'
  <2>1. HeldInv /\ NamedFrameSpared
    BY DEF FramesInv
  <2> QED BY <2>1 DEF HeldInv, NamedFrameSpared, PointsAt, At
<1>4. KnowsInv'
  <2>1. KnowsInv
    BY DEF FramesInv
  <2>2. \A r \in Ref, p \in Proc : Knows(req[p], r) => Knows(req[p], r)'
    BY DEF Knows, PointsAt
  <2> QED BY <2>1, <2>2 DEF KnowsInv
<1>5. IdentityInv'
  <2>1. IdentityInv
    BY DEF FramesInv
  <2> QED BY <2>1 DEF IdentityInv, PointsAt
<1>6. AutorunInv'
  <2>1. AutorunInv
    BY DEF FramesInv
  <2>2. \A r \in Ref : RunsAs(r, refs[r])' <=> RunsAs(r, refs[r])
    BY DEF RunsAs
  <2>3. \A r \in Ref, p \in Proc : RunsAs(r, req[p].got)' <=> RunsAs(r, req[p].got)
    BY DEF RunsAs
  <2>4. \A r \in Ref : Attempting(r)' <=> Attempting(r)
    BY DEF Attempting
  <2>5. \A p \in Proc : At(p, "autorun", "apply")' <=> At(p, "autorun", "apply")
    BY DEF At
  <2> QED BY <2>1, <2>2, <2>3, <2>4, <2>5 DEF AutorunInv
<1>7. WholeInv'
  <2>1. WholeInv
    BY DEF FramesInv
  <2>2. \A f \in Frame, p \in Proc : BuiltSoFar(req[p], f)' <=> BuiltSoFar(req[p], f)
    BY DEF BuiltSoFar
  <2> QED BY <2>1, <2>2 DEF WholeInv, Whole
<1> QED BY <1>1, <1>2, <1>3, <1>4, <1>5, <1>6, <1>7 DEF FramesInv

\* Two requests that differ at most in whose process they are an attempt of.
Alike(n, q) ==
    /\ n.op = q.op /\ n.pc = q.pc /\ n.ref = q.ref /\ n.frame = q.frame /\ n.name = q.name
    /\ n.live = q.live /\ n.layout = q.layout /\ n.force = q.force /\ n.cmd = q.cmd
    /\ KeptReads(n, q) /\ KeptScan(n, q)

LEMMA Unregistered ==
    ASSUME NEW q \in Request
    PROVE  /\ [q EXCEPT !.registered = FALSE] \in Request
           /\ Alike([q EXCEPT !.registered = FALSE], q) /\ ~[q EXCEPT !.registered = FALSE].registered
<1>1. [q EXCEPT !.registered = FALSE] \in Request
  BY FieldUpdate
<1>2. Alike([q EXCEPT !.registered = FALSE], q) /\ ~[q EXCEPT !.registered = FALSE].registered
  BY DEF Request, Alike, KeptReads, KeptScan
<1> QED BY <1>1, <1>2

\* What an attempt of a replaced process is left with.
LEMMA Replaced ==
    ASSUME StateTypeOK, NEW p \in Proc, AutorunReplace(p)
    PROVE  /\ req' \in [Proc -> Request] /\ req'[p] = Idle
           /\ \A x \in Proc : x # p => Alike(req'[x], req[x])
           /\ \A x \in Proc : x # p => (req'[x].registered <=> req[x].registered /\ ~AttemptOf(req[x], req[p].ref))
<1>1. req \in [Proc -> Request]
  BY DEF StateTypeOK
<1>2. req' = [x \in Proc |-> IF x = p THEN Idle
                             ELSE IF AttemptOf(req[x], req[p].ref) THEN [req[x] EXCEPT !.registered = FALSE]
                             ELSE req[x]]
  BY DEF AutorunReplace
<1>3. ASSUME NEW x \in Proc, x # p
      PROVE  /\ req'[x] \in Request /\ Alike(req'[x], req[x])
             /\ req'[x].registered <=> req[x].registered /\ ~AttemptOf(req[x], req[p].ref)
  <2>1. CASE AttemptOf(req[x], req[p].ref)
    <3>1. req'[x] = [req[x] EXCEPT !.registered = FALSE]
      BY <1>2, <1>3, <2>1
    <3> QED BY <1>1, <2>1, <3>1, Unregistered
  <2>2. CASE ~AttemptOf(req[x], req[p].ref)
    <3>1. req'[x] = req[x]
      BY <1>2, <1>3, <2>2
    <3> QED BY <1>1, <2>2, <3>1 DEF Alike, KeptReads, KeptScan
  <2> QED BY <2>1, <2>2
<1>4. req'[p] = Idle
  BY <1>2
<1>5. \A x \in Proc : req'[x] \in Request
  BY <1>3, <1>4, IdleRequest
<1>6. req' \in [Proc -> Request]
  BY <1>2, <1>5
<1> QED BY <1>3, <1>4, <1>6

\* Another command takes the place of the program of a ref, whose attempt, if it is
\* on its way, is from then on nobody's.
LEMMA ReplaceStep ==
    ASSUME FramesInv, NEW p \in Proc, AutorunReplace(p), Watch(FALSE)
    PROVE  FramesInv'
<1>1. /\ FramesTypeOK /\ StateTypeOK /\ RequestInv /\ IssuedInv /\ HeldInv /\ KnowsInv
      /\ IdentityInv /\ AutorunInv /\ WholeInv /\ NamedFrameSpared
  BY DEF FramesInv, FramesTypeOK
<1>2. /\ refs' = refs /\ meta' = meta /\ tree' = tree /\ ident' = ident /\ snaps' = snaps
      /\ born' = born /\ issued' = issued /\ ops' = ops
  BY DEF AutorunReplace, disk
<1>3. /\ req[p].op = "autorun" /\ req[p].pc = "apply" /\ req[p].cmd # None
      /\ run' = [run EXCEPT ![req[p].ref] = Process(req[p].got.uuid, req[p].cmd)]
  BY DEF AutorunReplace, At
<1>4. /\ req[p].ref \in Ref /\ req[p].got \in RefFile /\ req[p].got.uuid \in Frame /\ req[p].cmd \in Argv
  <2>1. req[p] \in Request /\ ReqOK(req[p])
    BY <1>1 DEF StateTypeOK, RequestInv
  <2>2. req[p].ref \in Ref /\ req[p].got \in RefFile
    BY <2>1, <1>3 DEF ReqOK
  <2> QED BY <2>1, <2>2, <1>3, RequestFields, RefFiles
<1>5. PICK r0 \in Ref, f0 \in Frame, a0 \in Argv : r0 = req[p].ref /\ f0 = req[p].got.uuid /\ a0 = req[p].cmd
  BY <1>4
<1>6. /\ run' \in [Ref -> ProcessType \cup {None}] /\ run'[r0] = Process(f0, a0)
      /\ \A r \in Ref : r # r0 => run'[r] = run[r]
  <2>1. PICK v \in ProcessType : v = Process(f0, a0)
    BY Processes
  <2> QED BY <2>1, <1>1, <1>3, <1>5 DEF StateTypeOK
<1>7. /\ req' \in [Proc -> Request] /\ req'[p] = Idle
      /\ \A x \in Proc : x # p => Alike(req'[x], req[x])
      /\ \A x \in Proc : x # p => (req'[x].registered <=> req[x].registered /\ ~AttemptOf(req[x], r0))
  BY <1>1, <1>5, Replaced
<1>i. /\ Idle.op = "none" /\ Idle.pc = "idle" /\ Idle.frame = None
      /\ Idle.got = None /\ Idle.copy = None
  BY IdleRequest
<1>8. StateTypeOK'
  BY <1>1, <1>2, <1>6, <1>7 DEF StateTypeOK
<1>9. /\ FramesTypeOK' /\ disturbed \subseteq disturbed' /\ hurt \subseteq hurt'
      /\ \A x \in Proc : req'[x].op # "delframe" => held'[x] = {}
      /\ \A x \in Proc : req[x].op = "delframe" => held'[x] \subseteq held[x]
  BY <1>1, <1>8, Watched
<1>10. RequestInv'
  <2>1. ASSUME NEW x \in Proc PROVE ReqOK(req'[x])
    <3>1. CASE x = p
      BY <3>1, <1>7, IdleOK
    <3>2. CASE x # p
      <4>1. ReqOK(req[x]) /\ Alike(req'[x], req[x])
        BY <3>2, <1>1, <1>7 DEF RequestInv
      <4> QED BY <4>1 DEF ReqOK, Alike, KeptReads
    <3> QED BY <3>1, <3>2
  <2> QED BY <2>1 DEF RequestInv, ReqOK
<1>11. IssuedInv'
  <2>1. ASSUME NEW x \in Proc
        PROVE  /\ req'[x].frame \in issued \cup {None}
               /\ req'[x].got # None => req'[x].got.uuid \in issued
               /\ req'[x].copy # None => req'[x].copy.uuid \in issued
    <3>1. CASE x = p
      BY <3>1, <1>7, <1>i
    <3>2. CASE x # p
      BY <3>2, <1>1, <1>7 DEF IssuedInv, Alike, KeptReads
    <3> QED BY <3>1, <3>2
  <2> QED BY <2>1, <1>1, <1>2 DEF IssuedInv
<1>12. HeldInv' /\ NamedFrameSpared'
  <2>1. ASSUME NEW x \in Proc, req'[x].op = "delframe"
        PROVE  /\ x # p /\ req[x].op = "delframe" /\ Alike(req'[x], req[x]) /\ held'[x] \subseteq held[x]
    BY <2>1, <1>7, <1>9, <1>i DEF Alike
  <2>2. HeldInv'
    <3>1. ASSUME NEW x \in Proc, NEW r \in held'[x] PROVE PointsAt(r, req'[x].frame)
      <4>1. req'[x].op = "delframe"
        BY <3>1, <1>9
      <4> QED BY <4>1, <3>1, <2>1, <1>1 DEF HeldInv, Alike
    <3>2. ASSUME NEW x \in Proc, req'[x].op = "delframe", req'[x].pc = "scan"
          PROVE  held'[x] \subseteq req'[x].todo \cup req'[x].found \cup req'[x].unread
      BY <3>2, <2>1, <1>1 DEF HeldInv, At, Alike, KeptScan
    <3> QED BY <3>1, <3>2, <1>9, <1>2 DEF HeldInv, At, PointsAt
  <2>3. NamedFrameSpared'
    BY <2>1, <1>1 DEF NamedFrameSpared, Deleting, Alike, KeptScan
  <2> QED BY <2>2, <2>3
<1>13. \A x \in Proc, r \in Ref : RefOn(req'[x], r) => x # p /\ RefOn(req[x], r) /\ Alike(req'[x], req[x])
  BY <1>7, <1>i DEF RefOn, Alike
<1>14. KnowsInv'
  <2>1. ASSUME NEW r \in Ref, r \notin disturbed', NEW x \in Proc, RefOn(req'[x], r)
        PROVE  Knows(req[x], r)' /\ \A y \in Proc : RefOn(req'[y], r) => y = x
    <3>1. r \notin disturbed /\ RefOn(req[x], r) /\ Alike(req'[x], req[x])
      BY <2>1, <1>9, <1>13
    <3>2. Knows(req[x], r) /\ \A y \in Proc : RefOn(req[y], r) => y = x
      BY <3>1, <1>1 DEF KnowsInv
    <3>3. Knows(req[x], r)'
      BY <3>1, <3>2, <1>2 DEF Knows, PointsAt, Alike, KeptReads
    <3> QED BY <3>2, <3>3, <1>13
  <2> QED BY <2>1 DEF KnowsInv, RefOn
<1>15. IdentityInv'
  <2>1. ASSUME NEW r \in Ref, r \notin disturbed', NEW f \in Frame, ident'[f][r] # None
        PROVE  PointsAt(r, f) \/ \E x \in Proc : RefOn(req'[x], r) /\ Fetches(req'[x], f)
    <3>1. r \notin disturbed /\ ident[f][r] # None
      BY <2>1, <1>2, <1>9
    <3>2. ASSUME ~PointsAt(r, f) PROVE \E x \in Proc : RefOn(req'[x], r) /\ Fetches(req'[x], f)
      <4>1. PICK x \in Proc : RefOn(req[x], r) /\ Fetches(req[x], f)
        BY <3>1, <3>2, <1>1 DEF IdentityInv
      <4>2. x # p
        BY <4>1, <1>3 DEF Fetches
      <4>3. RefOn(req'[x], r) /\ Fetches(req'[x], f)
        BY <4>1, <4>2, <1>7 DEF RefOn, Fetches, Alike, KeptReads
      <4> QED BY <4>3
    <3> QED BY <3>2
  <2> QED BY <2>1, <1>2 DEF IdentityInv, PointsAt, RefOn, Fetches
<1>16. AutorunInv'
  <2>1. \A x \in Proc, r \in Ref : AttemptOf(req'[x], r) => x # p /\ r # r0 /\ AttemptOf(req[x], r) /\ Alike(req'[x], req[x])
    BY <1>7, <1>i DEF AttemptOf, Alike
  <2>2. (\A r \in Ref : Attempting(r) => run[r] # None)'
    BY <2>1, <1>1, <1>6 DEF AutorunInv, Attempting, AttemptOf
  <2>3. ASSUME NEW r \in Ref, r \notin Shadowed, r \notin disturbed'
        PROVE  /\ (\A x \in Proc : ~(RefOn(req'[x], r) /\ Unapplied(req'[x]))) => RunsThen(r, refs'[r])
               /\ \A x \in Proc : RefOn(req'[x], r) =>
                     /\ req'[x].op = "refmove" /\ Unapplied(req'[x]) => (run'[r] # None <=> req'[x].got.autorun # None)
                     /\ req'[x].op = "autorun" /\ req'[x].pc = "apply" => RunsThen(r, req'[x].got)
    <3>u. r \notin disturbed
      BY <2>3, <1>9
    <3>1. CASE r = r0
      <4>1. RefOn(req[p], r)
        BY <3>1, <1>3, <1>5 DEF RefOn
      <4>2. Knows(req[p], r) /\ \A y \in Proc : RefOn(req[y], r) => y = p
        BY <4>1, <3>u, <1>1 DEF KnowsInv
      <4>3. refs[r] = SetAutorun(req[p].got, a0)
        BY <4>2, <1>3, <1>5 DEF Knows
      <4>4. refs[r] \in RefFile /\ refs[r].uuid = f0 /\ refs[r].autorun = a0 /\ refs[r] # None /\ a0 # None
        BY <4>3, <1>4, <1>5, <1>3, SetFile, FramesAssumption
      <4>5. \A x \in Proc : ~AttemptOf(req'[x], r)
        BY <2>1, <3>1
      <4>6. run'[r] # None /\ run'[r].uuid = f0 /\ run'[r].argv = a0 /\ run'[r].at = None
        BY <3>1, <1>6, Processes
      <4>7. RunsThen(r, refs'[r])
        BY <4>4, <4>5, <4>6, <1>2 DEF RunsThen
      <4> QED BY <4>2, <4>7, <1>13
    <3>2. CASE r # r0
      <4>1. run'[r] = run[r] /\ ~RefOn(req[p], r)
        BY <3>2, <1>5, <1>6 DEF RefOn
      <4>2. \A file : RunsAs(r, file) => RunsThen(r, file)
        BY <4>1, <2>1 DEF RunsAs, RunsThen, Alike
      <4>3. \A x \in Proc : RefOn(req[x], r) => RefOn(req'[x], r) /\ Alike(req'[x], req[x])
        BY <4>1, <1>7 DEF RefOn, Alike
      <4>4. \A x \in Proc : RefOn(req'[x], r) => /\ RefOn(req[x], r) /\ req'[x].got = req[x].got
                                               /\ req'[x].op = req[x].op /\ req'[x].pc = req[x].pc
        BY <1>13 DEF Alike, KeptReads
      <4>5. \A x \in Proc : RefOn(req'[x], r) => (Unapplied(req'[x]) <=> Unapplied(req[x]))
        BY <4>4 DEF Unapplied
      <4>6. /\ (\A x \in Proc : ~(RefOn(req[x], r) /\ Unapplied(req[x]))) => RunsAs(r, refs[r])
            /\ \A x \in Proc : RefOn(req[x], r) =>
                  /\ req[x].op = "refmove" /\ Unapplied(req[x]) => (run[r] # None <=> req[x].got.autorun # None)
                  /\ req[x].op = "autorun" /\ req[x].pc = "apply" => RunsAs(r, req[x].got)
        BY <2>3, <3>u, <1>1 DEF AutorunInv, At
      <4>7. ASSUME \A x \in Proc : ~(RefOn(req'[x], r) /\ Unapplied(req'[x])) PROVE RunsThen(r, refs'[r])
        BY <4>7, <4>2, <4>3, <4>5, <4>6, <1>2
      <4>8. ASSUME NEW x \in Proc, RefOn(req'[x], r)
            PROVE  /\ req'[x].op = "refmove" /\ Unapplied(req'[x]) => (run'[r] # None <=> req'[x].got.autorun # None)
                   /\ req'[x].op = "autorun" /\ req'[x].pc = "apply" => RunsThen(r, req'[x].got)
        BY <4>8, <4>1, <4>2, <4>4, <4>5, <4>6
      <4> QED BY <4>7, <4>8
    <3> QED BY <3>1, <3>2
  <2>4. ASSUME NEW r \in Ref \ (Shadowed \cup disturbed')
        PROVE  /\ ((\A x \in Proc : ~(RefOn(req[x], r) /\ Unapplied(req[x]))) => RunsAs(r, refs[r]))'
               /\ (\A x \in Proc : RefOn(req[x], r) =>
                     /\ req[x].op = "refmove" /\ Unapplied(req[x]) => (run[r] # None <=> req[x].got.autorun # None)
                     /\ At(x, "autorun", "apply") => RunsAs(r, req[x].got))'
    <3>1. r \in Ref /\ r \notin Shadowed /\ r \notin disturbed'
      BY <2>4
    <3>2. /\ (\A x \in Proc : ~(RefOn(req'[x], r) /\ Unapplied(req'[x]))) => RunsThen(r, refs'[r])
          /\ \A x \in Proc : RefOn(req'[x], r) =>
                /\ req'[x].op = "refmove" /\ Unapplied(req'[x]) => (run'[r] # None <=> req'[x].got.autorun # None)
                /\ req'[x].op = "autorun" /\ req'[x].pc = "apply" => RunsThen(r, req'[x].got)
      BY <2>3, <3>1
    <3>3. RunsAs(r, refs[r])' <=> RunsThen(r, refs'[r])
      BY DEF RunsAs, RunsThen, AttemptOf
    <3>4. ASSUME NEW x \in Proc PROVE RunsAs(r, req[x].got)' <=> RunsThen(r, req'[x].got)
      BY DEF RunsAs, RunsThen, AttemptOf
    <3>5. ASSUME NEW x \in Proc PROVE At(x, "autorun", "apply")' <=> (req'[x].op = "autorun" /\ req'[x].pc = "apply")
      BY DEF At
    <3> HIDE DEF RunsThen, RunsAs
    <3> QED BY <3>2, <3>3, <3>4, <3>5 DEF RefOn, Unapplied
  <2> QED BY <2>2, <2>4 DEF AutorunInv
<1>17. WholeInv'
  <2>1. \A f \in Frame : ~Shaping(req'[p], f) /\ ~Visiting(req'[p], f) /\ ~Shaping(req[p], f)
    BY <1>3, <1>7, <1>i DEF Shaping, Visiting, Deleting, Building, Entering
  <2>2. \A x \in Proc, f \in Frame : x # p =>
           /\ Shaping(req'[x], f) <=> Shaping(req[x], f)
           /\ Visiting(req'[x], f) <=> Visiting(req[x], f)
           /\ Deleting(req'[x]) <=> Deleting(req[x])
           /\ req'[x].pc = req[x].pc
    BY <1>7 DEF Shaping, Visiting, Deleting, Building, Entering, Alike
  <2>3. ASSUME NEW f \in Frame, f \notin hurt'
        PROVE  /\ \A x \in Proc : Shaping(req'[x], f) =>
                     /\ ~Deleting(req'[x]) /\ BuiltSoFar(req'[x], f)
                     /\ \A q \in Proc \ {x} : ~Shaping(req'[q], f) /\ ~Visiting(req'[q], f)
               /\ (\A x \in Proc : ~Shaping(req'[x], f)) => tree[f] = {} \/ Whole(f)
               /\ \A x \in Proc : Visiting(req'[x], f) /\ req'[x].pc # "stat" => Whole(f)
    <3>1. f \notin hurt
      BY <2>3, <1>9
    <3>2. /\ \A x \in Proc : Shaping(req[x], f) =>
                 /\ ~Deleting(req[x]) /\ BuiltSoFar(req[x], f)
                 /\ \A q \in Proc \ {x} : ~Shaping(req[q], f) /\ ~Visiting(req[q], f)
          /\ (\A x \in Proc : ~Shaping(req[x], f)) => tree[f] = {} \/ Whole(f)
          /\ \A x \in Proc : Visiting(req[x], f) /\ req[x].pc # "stat" => Whole(f)
      BY <3>1, <1>1 DEF WholeInv
    <3>3. \A x \in Proc : x # p => (BuiltSoFar(req'[x], f) <=> BuiltSoFar(req[x], f))
      BY <2>2 DEF BuiltSoFar
    <3> HIDE DEF Shaping, Visiting, Deleting, BuiltSoFar, Whole
    <3>4. ASSUME NEW x \in Proc, Shaping(req'[x], f)
          PROVE  /\ ~Deleting(req'[x]) /\ BuiltSoFar(req'[x], f)
                 /\ \A q \in Proc \ {x} : ~Shaping(req'[q], f) /\ ~Visiting(req'[q], f)
      BY <3>4, <2>1, <2>2, <3>2, <3>3
    <3>5. ASSUME \A x \in Proc : ~Shaping(req'[x], f) PROVE tree[f] = {} \/ Whole(f)
      BY <3>5, <2>1, <2>2, <3>2
    <3>6. ASSUME NEW x \in Proc, Visiting(req'[x], f), req'[x].pc # "stat" PROVE Whole(f)
      BY <3>6, <2>1, <2>2, <3>2
    <3> QED BY <3>4, <3>5, <3>6
  <2>4. \A x \in Proc, f \in Frame : BuiltSoFar(req[x], f)' <=> BuiltSoFar(req'[x], f)
    BY <1>2 DEF BuiltSoFar
  <2>5. \A f \in Frame : Whole(f)' <=> Whole(f)
    BY <1>2 DEF Whole
  <2>6. \A x \in Proc, f \in Frame : /\ Shaping(req[x], f)' <=> Shaping(req'[x], f)
                                     /\ Visiting(req[x], f)' <=> Visiting(req'[x], f)
                                     /\ Deleting(req[x])' <=> Deleting(req'[x])
    BY DEF Shaping, Visiting, Deleting, Building, Entering
  <2> HIDE DEF Shaping, Visiting, Deleting, BuiltSoFar, Whole
  <2> QED BY <2>3, <2>4, <2>5, <2>6, <1>2 DEF WholeInv
<1> QED BY <1>9, <1>10, <1>11, <1>12, <1>14, <1>15, <1>16, <1>17 DEF FramesInv

LEMMA SnapGoneStep ==
    ASSUME FramesInv, NEW s \in Snap, SnapGone(s), Watch(FALSE)
    PROVE  FramesInv'
<1>1. FramesTypeOK /\ StateTypeOK /\ HeldInv
  BY DEF FramesInv, FramesTypeOK
<1>2. /\ refs' = refs /\ meta' = meta /\ tree' = tree /\ ident' = ident
      /\ req' = req /\ run' = run /\ issued' = issued
      /\ born' = born /\ ops' = ops /\ snaps' = snaps \ {s}
  BY DEF SnapGone
<1>3. StateTypeOK'
  BY <1>1, <1>2 DEF StateTypeOK
<1>4. /\ FramesTypeOK' /\ disturbed \subseteq disturbed' /\ hurt \subseteq hurt'
      /\ \A p \in Proc : req'[p].op # "delframe" => held'[p] = {}
      /\ \A p \in Proc : req[p].op = "delframe" => held'[p] \subseteq held[p]
  BY <1>1, <1>3, Watched
<1>5. \A p \in Proc : held'[p] \subseteq held[p]
  BY <1>2, <1>4
<1> QED BY <1>2, <1>4, <1>5, NothingMoves

\* Every undisturbed ref that asks for a program gets one; nothing else is in flight.
LEMMA RestartStep ==
    ASSUME FramesInv, Restart, Watch(TRUE)
    PROVE  FramesInv'
<1>1. /\ FramesTypeOK /\ StateTypeOK /\ IssuedInv /\ IdentityInv /\ WholeInv
  BY DEF FramesInv, FramesTypeOK
<1>2. /\ refs' = refs /\ meta' = meta /\ tree' = tree /\ ident' = ident /\ snaps' = snaps
      /\ born' = born /\ issued' = issued /\ ops' = ops + 1
      /\ \A p \in Proc : req'[p] = Idle
  BY DEF Restart, disk
<1>3. PICK unread \in SUBSET Ref :
         run' = [r \in Ref |-> IF r \notin unread /\ refs[r] # None /\ refs[r].autorun # None
                               THEN Process(refs[r].uuid, refs[r].autorun) ELSE None]
  BY DEF Restart
<1>i. /\ Idle \in Request /\ Idle.op = "none" /\ Idle.pc = "idle" /\ Idle.frame = None
      /\ Idle.got = None /\ Idle.copy = None
  BY IdleRequest DEF Idle
<1>4. \A r \in Ref : refs[r] # None => /\ refs[r] \in RefFile /\ refs[r].uuid \in Frame
                                      /\ refs[r].autorun \in Argv \cup {None}
  BY <1>1 DEF StateTypeOK, RefFile
<1>5. \A f \in Frame, a \in Argv :
         /\ Process(f, a) \in ProcessType /\ Process(f, a) # None
         /\ Process(f, a).uuid = f /\ Process(f, a).argv = a /\ Process(f, a).at = None
  BY Processes
<1>6. run' \in [Ref -> ProcessType \cup {None}]
  BY <1>3, <1>4, <1>5
<1>7. StateTypeOK'
  <2>1. req' \in [Proc -> Request]
    BY <1>i DEF Restart
  <2>2. ops' \in Nat
    BY <1>1, <1>2 DEF StateTypeOK
  <2> QED BY <1>1, <1>2, <1>6, <2>1, <2>2 DEF StateTypeOK
<1>8. /\ FramesTypeOK' /\ \A p \in Proc : held'[p] = {}
  BY <1>1, <1>2, <1>7, <1>i, Watched
<1>9. \A p \in Proc : ReqOK(req[p])'
  BY <1>2, IdleOK DEF ReqOK
<1>10. RequestInv'
  BY <1>9 DEF RequestInv
<1>11. IssuedInv'
  BY <1>1, <1>2, <1>i DEF IssuedInv
<1>12. HeldInv' /\ NamedFrameSpared'
  BY <1>8, <1>2, <1>i DEF HeldInv, NamedFrameSpared, At
<1>13. \A p \in Proc, r \in Ref : ~RefOn(req'[p], r)
  BY <1>2, <1>i DEF RefOn
<1>14. KnowsInv'
  BY <1>13 DEF KnowsInv, RefOn
<1>15. IdentityInv'
  <2> SUFFICES ASSUME NEW r \in Ref, r \notin disturbed', NEW f \in Frame, ident'[f][r] # None
               PROVE  PointsAt(r, f)
    BY <1>2 DEF IdentityInv, PointsAt
  <2>1. r \notin disturbed /\ \A p \in Proc : ~RefOn(req[p], r)
    BY Undisturbed
  <2> QED BY <2>1, <1>1, <1>2 DEF IdentityInv
<1>16. AutorunInv'
  <2>1. \A r \in Ref : ~Attempting(r)'
    BY <1>2, <1>i DEF Attempting, AttemptOf
  <2>2. ASSUME NEW r \in Ref, r \notin disturbed' PROVE RunsAs(r, refs[r])'
    <3>0. refs[r] = None \/ refs[r].autorun = None \/ run'[r] # None
      BY <2>2, Undisturbed
    <3>1. run'[r] = IF refs[r] # None /\ refs[r].autorun # None
                    THEN Process(refs[r].uuid, refs[r].autorun) ELSE None
      BY <1>3, <3>0
    <3>2. \A p \in Proc : req'[p].op # "attempt"
      BY <1>2, <1>i
    <3> QED BY <3>1, <3>2, <1>2, <1>4, <1>5 DEF RunsAs, AttemptOf
  <2>3. \A p \in Proc, r \in Ref : ~RefOn(req[p], r)'
    BY <1>13 DEF RefOn
  <2> QED BY <2>1, <2>2, <2>3 DEF AutorunInv
<1>17. WholeInv'
  <2> SUFFICES ASSUME NEW f \in Frame, f \notin hurt'
               PROVE  /\ \A p \in Proc : ~Shaping(req'[p], f) /\ ~Visiting(req'[p], f)
                      /\ tree[f] = {} \/ Comp \cup {"id"} \subseteq tree[f]
    BY <1>2 DEF WholeInv, Whole, Shaping, Visiting, Deleting, Building, Entering
  <2>1. f \notin hurt /\ \A p \in Proc : ~Shaping(req[p], f)
    BY <1>2, Unhurt
  <2>2. tree[f] = {} \/ Comp \cup {"id"} \subseteq tree[f]
    BY <2>1, <1>1 DEF WholeInv, Whole
  <2>3. \A p \in Proc : ~Shaping(req'[p], f) /\ ~Visiting(req'[p], f)
    BY <1>2, <1>i DEF Shaping, Visiting, Deleting, Building, Entering
  <2> QED BY <2>2, <2>3
<1> QED BY <1>8, <1>10, <1>11, <1>12, <1>14, <1>15, <1>16, <1>17 DEF FramesInv

LEMMA FramesStart ==
    ASSUME FramesInit
    PROVE  FramesInv
<1>1. PICK f \in Frame, g \in Frame, r \in Ref :
          /\ f # g
          /\ issued = {f, g}
          /\ refs = [x \in Ref |-> IF x = r THEN NewRef(f) ELSE None]
          /\ \E l \in Layouts :
                meta = [x \in Frame |->
                          IF x = f THEN [snap |-> l, tainted |-> \E c \in Comp : l[c] \in TaintedSnap]
                          ELSE IF x = g THEN EmptyFrame ELSE None]
          /\ tree = [x \in Frame |-> IF x \in {f, g} THEN Comp \cup {"id"} ELSE {}]
          /\ ident = [x \in Frame |-> [y \in Ref |-> IF x = f /\ y = r THEN 1 ELSE None]]
  BY DEF FramesInit
<1>2. /\ snaps = Snap /\ born = 1
      /\ req = [p \in Proc |-> Idle] /\ ops = 0
      /\ run = [x \in Ref |-> None]
      /\ held = [p \in Proc |-> {}] /\ disturbed = {} /\ hurt = {}
  BY DEF FramesInit
<1>i. /\ Idle \in Request /\ Idle.op = "none" /\ Idle.pc = "idle" /\ Idle.frame = None
      /\ Idle.got = None /\ Idle.copy = None
  BY IdleRequest DEF Idle
<1>3. NewRef(f) \in RefFile /\ NewRef(f).uuid = f /\ NewRef(f).autorun = None
  BY DEF NewRef, RefFile
<1>q. \A p \in Proc : req[p] = Idle /\ held[p] = {}
  BY <1>2
<1>r. /\ \A x \in Ref : x # r => refs[x] = None
      /\ refs[r] = NewRef(f)
  BY <1>1
<1>4. FramesTypeOK
  <2>1. refs \in [Ref -> RefFile \cup {None}]
    BY <1>1, <1>3
  <2>2. meta \in [Frame -> Sidecar \cup {None}]
    <3>1. PICK l \in Layouts :
                meta = [x \in Frame |->
                          IF x = f THEN [snap |-> l, tainted |-> \E c \in Comp : l[c] \in TaintedSnap]
                          ELSE IF x = g THEN EmptyFrame ELSE None]
      BY <1>1
    <3>2. l \in [Comp -> Snap \cup {None}]
      BY FramesAssumption
    <3>3. PICK t \in BOOLEAN : t = (\E c \in Comp : l[c] \in TaintedSnap)
      OBVIOUS
    <3>4. [snap |-> l, tainted |-> t] \in Sidecar
      BY <3>2 DEF Sidecar
    <3>5. EmptyFrame \in Sidecar
      BY DEF EmptyFrame, NoSnaps, Sidecar
    <3> QED BY <3>1, <3>3, <3>4, <3>5
  <2>3. tree \in [Frame -> SUBSET Part]
    BY <1>1 DEF Part
  <2>4. ident \in [Frame -> [Ref -> Nat \cup {None}]]
    BY <1>1
  <2>5. issued \subseteq Frame
    BY <1>1
  <2>6. req \in [Proc -> Request] /\ run \in [Ref -> ProcessType \cup {None}]
    BY <1>2, <1>i
  <2>7. snaps \subseteq Snap /\ born \in Nat /\ ops \in Nat
    BY <1>2
  <2>8. held \in [Proc -> SUBSET Ref] /\ disturbed \subseteq Ref /\ hurt \subseteq Frame
    BY <1>2
  <2> QED BY <2>1, <2>2, <2>3, <2>4, <2>5, <2>6, <2>7, <2>8 DEF FramesTypeOK, StateTypeOK
<1>5. RequestInv
  BY <1>q, IdleOK DEF RequestInv
<1>6. IssuedInv
  <2>1. \A x \in Frame \ issued : tree[x] = {} /\ meta[x] = None
    BY <1>1
  <2>2. \A x \in Frame : tree[x] # {} => "root" \in tree[x]
    BY <1>1 DEF Comp
  <2>3. \A x \in Ref : refs[x] # None => refs[x].uuid \in issued
    BY <1>1, <1>r, <1>3
  <2> QED BY <2>1, <2>2, <2>3, <1>q, <1>i DEF IssuedInv
<1>7. HeldInv /\ NamedFrameSpared
  BY <1>q, <1>i DEF HeldInv, NamedFrameSpared, At, Deleting
<1>8. \A p \in Proc, x \in Ref : ~RefOn(req[p], x)
  BY <1>q, <1>i DEF RefOn
<1>9. KnowsInv
  BY <1>8 DEF KnowsInv
<1>10. IdentityInv
  <2>1. f \in Frame /\ refs[r] # None /\ refs[r].uuid = f
    BY <1>r, <1>3, FramesAssumption
  <2> QED BY <1>1, <2>1 DEF IdentityInv, PointsAt
<1>11. AutorunInv
  <2>1. \A x \in Ref : ~Attempting(x)
    BY <1>q, <1>i DEF Attempting, AttemptOf
  <2>2. \A x \in Ref : RunsAs(x, refs[x])
    BY <1>r, <1>2, <1>3 DEF RunsAs
  <2> QED BY <2>1, <2>2, <1>8 DEF AutorunInv
<1>12. WholeInv
  <2>1. \A p \in Proc, x \in Frame : ~Shaping(req[p], x) /\ ~Visiting(req[p], x)
    BY <1>q, <1>i DEF Shaping, Visiting, Deleting, Building, Entering
  <2>2. \A x \in Frame : tree[x] = {} \/ Comp \cup {"id"} \subseteq tree[x]
    BY <1>1
  <2> QED BY <2>1, <2>2 DEF WholeInv, Whole
<1> QED BY <1>4, <1>5, <1>6, <1>7, <1>9, <1>10, <1>11, <1>12 DEF FramesInv

\* The invariant of the frame handlers, for any number of refs, frames, snaps
\* and requests in flight.
THEOREM FramesInvariant == FramesSpec => []FramesInv
<1>1. ASSUME FramesInit PROVE FramesInv
  BY <1>1, FramesStart
<1>2. ASSUME FramesInv, [FramesNext]_framesVars PROVE FramesInv'
  <2>0. FramesTypeOK /\ RequestInv /\ IssuedInv /\ HeldInv /\ KnowsInv /\ IdentityInv
        /\ AutorunInv /\ WholeInv /\ NamedFrameSpared /\ StateTypeOK
    BY <1>2 DEF FramesInv, FramesTypeOK
  <2>1. ASSUME NEW p \in Proc, Step(p), Watch(FALSE) PROVE FramesInv'
    <3>1. StateTypeOK' /\ RequestInv'
      BY <2>0, <2>1, StepTypes
    <3>2. FramesTypeOK'
      BY <2>0, <2>1, <3>1, Watched
    <3>3. IssuedInv'
      BY <2>0, <2>1, IssuedStep
    <3>4. HeldInv' /\ NamedFrameSpared'
      BY <2>0, <2>1, HeldStep
    <3>5. KnowsInv'
      BY <2>0, <2>1, KnowsStep
    <3>6. IdentityInv'
      BY <2>0, <2>1, IdentityStep
    <3>7. AutorunInv'
      BY <2>0, <2>1, AutorunStep
    <3>8. WholeInv'
      BY <2>0, <2>1, WholeStep
    <3> QED BY <3>1, <3>2, <3>3, <3>4, <3>5, <3>6, <3>7, <3>8 DEF FramesInv
  <2>5. ASSUME NEW p \in Proc, AutorunReplace(p), Watch(FALSE) PROVE FramesInv'
    BY <1>2, <2>5, ReplaceStep
  <2>2. ASSUME NEW s \in Snap, SnapGone(s), Watch(FALSE) PROVE FramesInv'
    BY <1>2, <2>2, SnapGoneStep
  <2>3. CASE Restart /\ Watch(TRUE)
    BY <1>2, <2>3, RestartStep
  <2>4. CASE UNCHANGED framesVars
    <3>1. /\ refs' = refs /\ meta' = meta /\ tree' = tree /\ ident' = ident
          /\ req' = req /\ run' = run /\ issued' = issued
          /\ born' = born /\ ops' = ops /\ snaps' = snaps
          /\ held' = held /\ disturbed' = disturbed /\ hurt' = hurt
      BY <2>4 DEF framesVars, state, disk
    <3>2. FramesTypeOK'
      BY <3>1, <2>0 DEF FramesTypeOK, StateTypeOK
    <3> QED BY <1>2, <3>1, <3>2, NothingMoves
  <2> QED BY Zenon, <1>2, <2>1, <2>2, <2>3, <2>4, <2>5 DEF FramesNext
<1> QED BY <1>1, <1>2, PTL DEF FramesSpec

\* handleDeleteFrame never removes anything of a frame that some ref has named
\* since before the request came in, however the refs move while it reads them,
\* unless it could not list or read that very ref.
THEOREM NamedFramesSpared == FramesSpec => []NamedFrameSpared
<1>1. ASSUME FramesInv PROVE NamedFrameSpared
  BY <1>1 DEF FramesInv
<1> QED BY <1>1, FramesInvariant, PTL

\* refid keeps a ref's identity subvolume in the frame the ref names, and only
\* there, as long as the requests on the ref do not overlap and none of them had
\* to leave the identity behind.
THEOREM IdentitiesFollow == FramesSpec => []IdentityFollowsRef
<1>1. ASSUME FramesInv PROVE IdentityFollowsRef
  <2>1. IdentityInv
    BY <1>1 DEF FramesInv
  <2> QED BY <2>1 DEF IdentityInv, IdentityFollowsRef, Quiet
<1> QED BY <1>1, FramesInvariant, PTL

\* The manager's process of a ref runs the command its file asks for, if any, and in
\* the frame that file names, whenever no request on the ref is under way and those
\* there were did not overlap, for every ref whose name is resolved as a ref's;
\* replaced commands, failed attempts and daemon restarts are included.
THEOREM AutorunsFollow == FramesSpec => []AutorunFollowsRef
<1>1. ASSUME FramesInv PROVE AutorunFollowsRef
  <2>1. AutorunInv
    BY <1>1 DEF FramesInv
  <2>2. ASSUME NEW r \in Ref \ Shadowed, Quiet(r) PROVE RunsAs(r, refs[r])
    BY <2>1, <2>2 DEF AutorunInv, Quiet
  <2> QED BY <2>2 DEF RunsAs, AutorunFollowsRef
<1> QED BY <1>1, FramesInvariant, PTL

\* ensureRootFS and RepairOwnership let a session start only in a frame with all
\* its subvolumes and its /id, unless the frame's build or deletion was cut short.
THEOREM SessionsEnterWhole == FramesSpec => []EntersWhole
<1>1. ASSUME FramesInv PROVE EntersWhole
  <2>1. WholeInv /\ RequestInv
    BY <1>1 DEF FramesInv
  <2>2. ASSUME NEW p \in Proc, At(p, "enter", "in"), req[p].frame \notin hurt
        PROVE  Comp \cup {"id"} \subseteq tree[req[p].frame]
    <3>1. req[p].frame \in Frame
      BY <2>1, <2>2 DEF RequestInv, ReqOK, At
    <3>2. Visiting(req[p], req[p].frame) /\ req[p].pc # "stat"
      BY <2>2 DEF At, Visiting, Entering
    <3> QED BY <2>1, <2>2, <3>1, <3>2 DEF WholeInv, Whole
  <2> QED BY <2>2 DEF EntersWhole
<1> QED BY <1>1, FramesInvariant, PTL

=============================================================================
