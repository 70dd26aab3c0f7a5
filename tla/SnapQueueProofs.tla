-------------------------- MODULE SnapQueueProofs --------------------------
(***************************************************************************)
(* Proofs about SnapQueue, for every set of frames, trees and taints and   *)
(* every bound on jobs and crashes.                                        *)
(***************************************************************************)
EXTENDS SnapQueue, TLAPS

\* The steps besides the writing of a snap's metadata and a client that stalls.
MainFailure ==
    \/ CaptureFails
    \/ ForkCloneFails
    \/ \E g \in Forks : ForkSetupFails(g)
    \/ \E k \in AnyKind : IndexFails(k)
    \/ Crash

MainWorker ==
    \/ Pop
    \/ \E k \in AnyKind : IndexComp(k)
    \/ Finalized \/ WriteStamp \/ UpdateBegin \/ UpdateEnd \/ ForkedFrames
    \/ \E f \in Frame : NextFork(f)
    \/ FinishJob

Main == Client \/ Handler \/ MainFailure \/ MainWorker

\* The others: they leave the worker where it is.
Aside == WriteSnapMeta \/ SnapMetaUnwritten \/ ClientStalls

LEMMA NextSplit ==
    ASSUME [Next]_vars PROVE [Main]_vars \/ Aside
BY DEF Next, Failure, Worker, Main, MainFailure, MainWorker, Aside

-----------------------------------------------------------------------------
(* Partial maps over component kinds.                                      *)

\* A function whose domain is some of the kinds is a partial map.
LEMMA PartialFunIntro ==
    ASSUME NEW S, NEW D \in SUBSET AnyKind, NEW f \in [D -> S]
    PROVE  f \in PartialFun(S)
BY DEF PartialFun

\* What membership in PartialFun gives.
LEMMA PartialFunElim ==
    ASSUME NEW S, NEW f \in PartialFun(S)
    PROVE  /\ DOMAIN f \subseteq AnyKind
           /\ f \in [DOMAIN f -> S]
BY DEF PartialFun

\* The empty map.
LEMMA EmptyPartialFun == \A S : <<>> \in PartialFun(S)
<1> TAKE S
<1>1. <<>> \in [{} -> S]
  OBVIOUS
<1> QED BY <1>1 DEF PartialFun

\* Metadata with nothing in it is metadata.
LEMMA EmptyMetaType == EmptyMeta \in MetaType
BY DEF EmptyMeta, MetaType, SnapRef

\* A job record built by a capture is well typed.
LEMMA NewJobType ==
    ASSUME NEW f \in Frame, NEW sub \in BOOLEAN, NEW comps \in PartialFun(Content),
           NEW taints \in SUBSET Taints, NEW p \in Nat, NEW parents \in PartialFun(SnapRef)
    PROVE  NewJob(f, sub, comps, taints, p, parents) \in JobType
BY EmptyPartialFun DEF NewJob, JobType

\* The components and parents of a full capture are partial maps.
LEMMA FullJobType ==
    ASSUME TypeOK, NEW f \in Frame, NEW m \in MetaType \cup {None}
    PROVE  /\ FullJob(f, m) \in JobType
           /\ ~FullJob(f, m).sub
           /\ "root" \in DOMAIN FullJob(f, m).comps
           /\ FullJob(f, m).parentJob = framePendingSnap[f]
<1> DEFINE D == {"root"} \cup {o \in OptKinds : live[f][o] # Empty}
           C == CapturedComps(f)
           P == [k \in D |-> CapturedParent(f, m, k)]
<1>0. live[f] \in TreeType
  BY DEF TypeOK
<1>1. D \in SUBSET AnyKind /\ D \subseteq Kinds
  BY DEF AnyKind, Kinds
<1>2. C = [k \in D |-> live[f][k]]
  BY DEF CapturedComps
<1>3. C \in [D -> Content]
  BY <1>0, <1>1, <1>2 DEF TreeType
<1>4. C \in PartialFun(Content)
  BY <1>1, <1>3, PartialFunIntro
<1>5. \A k \in D : CapturedParent(f, m, k) \in SnapRef
  BY <1>1 DEF CapturedParent, TypeOK, SnapRef, MetaType
<1>6. P \in [D -> SnapRef]
  BY <1>5
<1>7. P \in PartialFun(SnapRef)
  BY <1>1, <1>6, PartialFunIntro
<1>8. CapturedTaints(m) \in SUBSET Taints
  BY DEF CapturedTaints, MetaType
<1>9. CaptureBase(f) \in Nat /\ CaptureBase(f) = framePendingSnap[f]
  BY DEF CaptureBase, TypeOK
<1>10. FullJob(f, m) = NewJob(f, FALSE, C, CapturedTaints(m), CaptureBase(f), P)
  BY <1>2 DEF FullJob
<1>11. "root" \in DOMAIN C
  BY <1>2
<1> HIDE DEF C, P, D
<1>12. FullJob(f, m) \in JobType
  BY <1>4, <1>7, <1>8, <1>9, <1>10, NewJobType
<1> QED BY <1>9, <1>10, <1>11, <1>12 DEF NewJob

\* The subtree job is well typed.
LEMMA SubdirJobType ==
    ASSUME NEW f \in Frame, NEW m \in MetaType \cup {None}, NEW c \in Content
    PROVE  NewJob(f, TRUE, [k \in {"subdir"} |-> c], CapturedTaints(m), 0,
                  [k \in {"subdir"} |-> NoSnap]) \in JobType
<1>1. [k \in {"subdir"} |-> c] \in PartialFun(Content)
  BY PartialFunIntro DEF AnyKind
<1>2. [k \in {"subdir"} |-> NoSnap] \in PartialFun(SnapRef)
  BY PartialFunIntro DEF AnyKind, SnapRef
<1>3. CapturedTaints(m) \in SUBSET Taints
  BY DEF CapturedTaints, MetaType
<1> QED BY <1>1, <1>2, <1>3, NewJobType

\* Enqueueing a well typed job keeps jobs, pending, tmp and qmu well typed.
LEMMA EnqueueType ==
    ASSUME TypeOK, NEW jb \in JobType, Enqueue(jb)
    PROVE  /\ jobs' \in Seq(JobType) /\ pending' \in Seq(Nat)
           /\ tmp' \subseteq Nat \X AnyKind /\ qmu' \in QmuType \cup {None}
           /\ Len(jobs) + 1 \in Nat
<1>1. jobs \in Seq(JobType) /\ pending \in Seq(Nat) /\ tmp \subseteq Nat \X AnyKind
  BY DEF TypeOK
<1>2. DOMAIN jb.comps \subseteq AnyKind
  BY PartialFunElim DEF JobType
<1>3. Len(jobs) \in Nat
  BY <1>1
<1> QED BY <1>1, <1>2, <1>3 DEF Enqueue

\* Changing one element of a sequence to another of the same type.
LEMMA SeqExcept ==
    ASSUME NEW S, NEW s \in Seq(S), NEW i \in 1..Len(s), NEW e \in S
    PROVE  /\ [s EXCEPT ![i] = e] \in Seq(S)
           /\ Len([s EXCEPT ![i] = e]) = Len(s)
OBVIOUS

\* The worker's job is in the list of jobs.
LEMMA WorkerJobIndex ==
    ASSUME TypeOK, QueueOrder, worker.pc # "idle"
    PROVE  worker.job \in 1..Len(jobs) /\ job \in JobType
BY DEF TypeOK, QueueOrder, job

\* Initially every variable has its type.
LEMMA InitType == Init => TypeOK
<1> SUFFICES ASSUME Init PROVE TypeOK
  OBVIOUS
<1>1. live \in [Frame -> TreeType]
  BY ConstantsAssumption DEF Init, Kinds, TreeType
<1>2. meta \in [Frame -> MetaType \cup {None}]
  <2>1. [k \in Kinds |-> IF k = "root" THEN InitSnap ELSE NoSnap] \in [Kinds -> SnapRef]
    BY ConstantsAssumption DEF SnapRef
  <2>2. [EmptyMeta EXCEPT !.snap = [k \in Kinds |-> IF k = "root" THEN InitSnap ELSE NoSnap]]
          \in MetaType
    BY <2>1, EmptyMetaType DEF MetaType
  <2> QED BY <2>2 DEF Init
<1>3. snapMeta \in [Content -> SnapMetaType \cup {None}]
  BY DEF Init, SnapRef, SnapMetaType
<1>4. worker \in WorkerType
  BY EmptyPartialFun DEF Init, IdleWorker, WorkerType
<1>5. fork \in [Forks -> ForkType]
  BY DEF Init, NoFork, ForkType
<1>6. stamp \in [Frame -> SnapRef]
  BY ConstantsAssumption DEF Init, SnapRef
<1>7. jobs \in Seq(JobType) /\ pending \in Seq(Nat) /\ tmp \subseteq Nat \X AnyKind
  BY DEF Init
<1>8. /\ framePendingSnap \in [Frame -> Nat] /\ rmw \in [Frame -> RmwType \cup {None}]
      /\ edit \in [Frame -> EditType \cup {None}]
  BY DEF Init
<1>9. qmu \in QmuType \cup {None} /\ crashes \in Nat
  BY DEF Init
<1> QED BY <1>1, <1>2, <1>3, <1>4, <1>5, <1>6, <1>7, <1>8, <1>9 DEF TypeOK

-----------------------------------------------------------------------------
(* Every step keeps TypeOK; the worker's steps need to know where in jobs  *)
(* it works, and what its local variables hold.                            *)

LEMMA ClientType ==
    ASSUME TypeOK, Client PROVE TypeOK'
<1>1. ASSUME NEW f \in Frame, NEW k \in Kinds, NEW c \in Content \cup {Empty}, UserWrite(f, k, c)
      PROVE  TypeOK'
  <2>1. [live[f] EXCEPT ![k] = c] \in TreeType
    <3>1. live[f] \in [Kinds -> Content \cup {Empty}] /\ live[f]["root"] # Empty
      BY DEF TypeOK, TreeType
    <3>2. k = "root" => c # Empty
      BY <1>1 DEF UserWrite
    <3>3. [live[f] EXCEPT ![k] = c] \in [Kinds -> Content \cup {Empty}]
      BY <3>1
    <3>4. [live[f] EXCEPT ![k] = c]["root"] # Empty
      BY <3>1, <3>2 DEF Kinds
    <3> QED BY <3>3, <3>4 DEF TreeType
  <2> QED BY <1>1, <2>1 DEF TypeOK, UserWrite
<1>2. ASSUME NEW f \in Frame, NEW to \in Forks \cup {None}, NEW sub \in BOOLEAN,
             CaptureBegin(f, to, sub)
      PROVE  TypeOK'
  BY <1>2 DEF TypeOK, CaptureBegin, QmuType
<1>3. ASSUME NEW f \in Frame, NEW t \in Taints, TaintBegin(f, t)
      PROVE  TypeOK'
  BY <1>3, EmptyMetaType DEF TypeOK, TaintBegin, LockAndRead, RmwType
<1>4. ASSUME NEW g \in Forks, NEW f \in Frame, ForkRead(g, f)
      PROVE  TypeOK'
  BY <1>4, EmptyMetaType DEF TypeOK, ForkRead, ForkType
<1>5. ASSUME NEW f \in Frame, NEW j \in 1..Len(jobs), PruneRead(f, j)
      PROVE  TypeOK'
  <2>1. meta[f] \in MetaType /\ meta[f].history \in Seq(Nat)
    BY <1>5 DEF PruneRead, TypeOK, MetaType
  <2>2. Shortened(meta[f].history) \subseteq Seq(Nat)
    BY <2>1, SMTT(30) DEF Shortened
  <2>3. PICK h \in Shortened(meta[f].history) :
           edit' = [edit EXCEPT ![f] = [pc |-> "write", read |-> meta[f], hist |-> h]]
    BY <1>5 DEF PruneRead
  <2>4. edit' \in [Frame -> EditType \cup {None}]
    BY <2>1, <2>2, <2>3 DEF TypeOK, EditType
  <2> QED BY <1>5, <2>4 DEF TypeOK, PruneRead
<1>6. ASSUME NEW f \in Frame, NEW s \in Frame, CloneReadSource(f, s)
      PROVE  TypeOK'
  BY <1>6 DEF TypeOK, CloneReadSource, MetaType, EditType
<1> QED BY <1>1, <1>2, <1>3, <1>4, <1>5, <1>6 DEF Client, SnapFull, SnapSubdir

LEMMA HandlerType ==
    ASSUME TypeOK, LocalsOK, Handler PROVE TypeOK'
<1>0. qmu # None => qmu.frame \in Frame /\ qmu.to \in Forks \cup {None}
                    /\ qmu.read \in MetaType \cup {None}
  BY DEF TypeOK, QmuType
<1>1. CASE CaptureFull
  BY <1>0, <1>1, FullJobType, EnqueueType DEF CaptureFull, TypeOK
<1>2. ASSUME NEW c \in Content, CaptureSubdir(c)
      PROVE  TypeOK'
  BY <1>0, <1>2, SubdirJobType, EnqueueType DEF CaptureSubdir, TypeOK
<1>3. CASE ForkLocked
  <2>1. FullJob(qmu.frame, qmu.read) \in JobType
    BY <1>0, <1>3, FullJobType DEF ForkLocked
  <2>2. qmu.to \in Forks /\ qmu.to \in Frame /\ qmu.frame \in Frame
    BY <1>0, <1>3 DEF ForkLocked, Frame
  <2>3. ClonedTree(CapturedComps(qmu.frame)) \in TreeType
    <3>1. live[qmu.frame] \in [Kinds -> Content \cup {Empty}] /\ live[qmu.frame]["root"] # Empty
      BY <2>2 DEF TypeOK, TreeType
    <3>2. ClonedTree(CapturedComps(qmu.frame)) = live[qmu.frame]
      BY <3>1 DEF ClonedTree, CapturedComps, Kinds
    <3> QED BY <2>2, <3>2 DEF TypeOK
  <2>4. /\ jobs' \in Seq(JobType) /\ pending' \in Seq(Nat)
        /\ tmp' \subseteq Nat \X AnyKind /\ qmu' \in QmuType \cup {None}
        /\ Len(jobs) + 1 \in Nat
    BY <1>3, <2>1, EnqueueType DEF ForkLocked
  <2>5. fork' \in [Forks -> ForkType]
    <3>1. fork[qmu.to].pc = "read"
      BY <1>3 DEF ForkLocked, LocalsOK
    <3>2. [fork[qmu.to] EXCEPT !.pc = "sidecar", !.job = Len(jobs) + 1] \in ForkType
      BY <2>2, <2>4, <3>1, ZenonT(60) DEF TypeOK, ForkType
    <3> QED BY <1>3, <2>2, <3>2 DEF ForkLocked, TypeOK
  <2>6. live' \in [Frame -> TreeType]
    BY <1>3, <2>2, <2>3 DEF ForkLocked, TypeOK
  <2>7. framePendingSnap' \in [Frame -> Nat]
    BY <1>3, <2>2, <2>4 DEF ForkLocked, TypeOK
  <2> QED BY <1>3, <2>4, <2>5, <2>6, <2>7 DEF ForkLocked, TypeOK
<1>4. ASSUME NEW g \in Forks, ForkCapture(g)
      PROVE  TypeOK'
  <2>1. fork[g].src \in Frame
    BY <1>4 DEF ForkCapture, TypeOK, ForkType
  <2> QED BY <1>4, <2>1 DEF TypeOK, ForkCapture, CaptureBegin, QmuType
<1>5. ASSUME NEW g \in Forks, ForkWriteSidecar(g)
      PROVE  TypeOK'
  <2>1. fork[g].clone \in MetaType /\ [fork[g] EXCEPT !.pc = "stamp"] \in ForkType
    BY <1>5 DEF ForkWriteSidecar, TypeOK, ForkType
  <2> QED BY <1>5, <2>1 DEF TypeOK, ForkWriteSidecar
<1>6. ASSUME NEW g \in Forks, ForkWriteStamp(g)
      PROVE  TypeOK'
  <2>1. fork[g].clone \in MetaType /\ [fork[g] EXCEPT !.pc = "done"] \in ForkType
    BY <1>6 DEF ForkWriteStamp, TypeOK, ForkType
  <2>2. fork[g].clone.snap["root"] \in SnapRef
    BY <2>1 DEF MetaType, Kinds
  <2> QED BY <1>6, <2>1, <2>2 DEF TypeOK, ForkWriteStamp
<1>7. ASSUME NEW f \in Frame, TaintEnd(f)
      PROVE  TypeOK'
  <2>1. rmw[f].read \in MetaType /\ rmw[f].taint \in Taints /\ stamp[f] \in SnapRef
    BY <1>7 DEF TaintEnd, TypeOK, RmwType
  <2>2. AddTaint(f, rmw[f].read, rmw[f].taint) \in MetaType
    BY <2>1 DEF AddTaint, MetaType, Kinds
  <2> QED BY <1>7, <2>2 DEF TypeOK, TaintEnd, WriteAndUnlock
<1>8. ASSUME NEW f \in Frame, CloneReadTarget(f)
      PROVE  TypeOK'
  <2>1. [edit[f] EXCEPT !.pc = "write", !.read = meta[f]] \in EditType
    BY <1>8 DEF TypeOK, CloneReadTarget, EditType
  <2> QED BY <1>8, <2>1 DEF TypeOK, CloneReadTarget
<1>9. ASSUME NEW f \in Frame, HistoryWrite(f)
      PROVE  TypeOK'
  <2>1. edit[f].read \in MetaType /\ edit[f].hist \in Seq(Nat)
    BY <1>9 DEF HistoryWrite, TypeOK, EditType
  <2>2. [edit[f].read EXCEPT !.history = edit[f].hist] \in MetaType
    BY <2>1 DEF MetaType
  <2> QED BY <1>9, <2>2 DEF TypeOK, HistoryWrite
<1> QED BY <1>1, <1>2, <1>3, <1>4, <1>5, <1>6, <1>7, <1>8, <1>9 DEF Handler

LEMMA FailureType ==
    ASSUME TypeOK, LocalsOK, QueueOrder, MainFailure PROVE TypeOK'
<1>0. qmu # None => qmu.frame \in Frame /\ qmu.to \in Forks \cup {None}
                    /\ qmu.read \in MetaType \cup {None}
  BY DEF TypeOK, QmuType
<1>1. CASE CaptureFails
  BY <1>1 DEF CaptureFails, TypeOK, NoFork, ForkType
<1>2. CASE ForkCloneFails
  <2>1. FullJob(qmu.frame, qmu.read) \in JobType
    BY <1>0, <1>2, FullJobType DEF ForkCloneFails
  <2>2. qmu.to \in Forks /\ fork[qmu.to].pc = "read"
    BY <1>0, <1>2 DEF ForkCloneFails, LocalsOK
  <2>3. [fork[qmu.to] EXCEPT !.pc = "failed", !.job = Len(jobs) + 1] \in ForkType
    <3>1. fork[qmu.to] \in ForkType /\ Len(jobs) + 1 \in Nat
      BY <2>2 DEF TypeOK
    <3> QED BY <2>2, <3>1 DEF ForkType
  <2> QED BY <1>2, <2>1, <2>3, EnqueueType DEF ForkCloneFails, TypeOK
<1>3. ASSUME NEW g \in Forks, ForkSetupFails(g)
      PROVE  TypeOK'
  <2>1. [fork[g] EXCEPT !.pc = "failed"] \in ForkType
    BY <1>3 DEF ForkSetupFails, TypeOK, ForkType
  <2> QED BY <1>3, <2>1 DEF ForkSetupFails, TypeOK
<1>4. ASSUME NEW k \in AnyKind, IndexFails(k)
      PROVE  TypeOK'
  <2>1. worker.job \in 1..Len(jobs) /\ job \in JobType
    BY <1>4, WorkerJobIndex DEF IndexFails
  <2>2. [job EXCEPT !.err = TRUE] \in JobType
    BY <2>1 DEF JobType
  <2>3. jobs' = [jobs EXCEPT ![worker.job] = [job EXCEPT !.err = TRUE]]
    BY <1>4, <2>1 DEF IndexFails, job, TypeOK
  <2>4. jobs' \in Seq(JobType)
    BY <2>1, <2>2, <2>3, SeqExcept DEF TypeOK
  <2>5. [worker EXCEPT !.pc = "finish"] \in WorkerType
    BY DEF TypeOK, WorkerType
  <2> QED BY <1>4, <2>4, <2>5 DEF IndexFails, TypeOK
<1>5. CASE Crash
  <2>1. fork' \in [Forks -> ForkType]
    <3>1. \A g \in Forks : fork[g].pc \in {"sidecar", "stamp"} =>
                              [fork[g] EXCEPT !.pc = "failed"] \in ForkType
      BY DEF TypeOK, ForkType
    <3>2. NoFork \in ForkType
      BY DEF NoFork, ForkType
    <3> QED BY <1>5, <3>1, <3>2 DEF Crash, TypeOK
  <2>2. worker' \in WorkerType
    BY <1>5, EmptyPartialFun DEF Crash, IdleWorker, WorkerType
  <2> QED BY <1>5, <2>1, <2>2 DEF Crash, TypeOK
<1> QED BY <1>1, <1>2, <1>3, <1>4, <1>5 DEF MainFailure

\* Recording a snap keeps a sidecar well typed.
LEMMA RecordSnapType ==
    ASSUME NEW m \in MetaType, NEW j \in Nat, NEW fin \in PartialFun(Content)
    PROVE  RecordSnap(m, j, fin) \in MetaType
<1>1. [k \in Kinds |-> IF k \in DOMAIN fin THEN fin[k] ELSE m.snap[k]] \in [Kinds -> SnapRef]
  BY PartialFunElim DEF MetaType, SnapRef
<1>2. <<j>> \o m.history \in Seq(Nat)
  BY DEF MetaType
<1> QED BY Zenon, <1>1, <1>2 DEF RecordSnap, MetaType

\* What indexing a component publishes is well typed.
LEMMA IndexTypes ==
    ASSUME TypeOK, LocalsOK, QueueOrder, ChainOrder, NEW k \in AnyKind, IndexComp(k)
    PROVE  /\ worker.job \in 1..Len(jobs) /\ job \in JobType /\ k \in DOMAIN job.comps
           /\ job.comps[k] \in Content
           /\ ResolvedParent(worker.job, k) \in SnapRef
           /\ IndexedTaints(worker.job, k) \in SUBSET Taints
           /\ PublishedMeta(job.comps[k], ResolvedParent(worker.job, k), job.taints) \in SnapMetaType
<1>0. worker.pc # "idle" => worker.job \in 1..Len(jobs) /\ job \in JobType
  BY WorkerJobIndex
<1>1. job \in JobType /\ k \in DOMAIN job.comps
  BY <1>0 DEF IndexComp, NextComp
<1>2. job.comps[k] \in Content
  BY <1>1, PartialFunElim DEF JobType
<1>3. ResolvedParent(worker.job, k) \in SnapRef
  <2>1. worker.job \in 1..Len(jobs) /\ Waiting(worker.job) /\ jobs[worker.job] = job
    BY <1>0 DEF IndexComp, Waiting, IsWaiting, job
  <2>2. job.parentSnap \in PartialFun(SnapRef) /\ k \in DOMAIN job.parentSnap
    BY <1>1, <2>1 DEF JobType, LocalsOK
  <2>3. job.parentSnap[k] \in SnapRef
    BY <2>2, PartialFunElim
  <2>4. CASE job.parentJob # 0 /\ k \in DOMAIN jobs[job.parentJob].finalized
    <3>1. job.parentJob \in 1..Len(jobs)
      BY <2>1, <2>4 DEF ChainOrder, TypeOK
    <3>2. jobs[job.parentJob].finalized \in PartialFun(Content)
      <4>1. jobs[job.parentJob] \in JobType
        BY <3>1 DEF TypeOK
      <4> QED BY <4>1 DEF JobType
    <3>3. jobs[job.parentJob].finalized[k] \in Content
      BY <2>4, <3>2, PartialFunElim
    <3> QED BY <2>1, <2>4, <3>3 DEF ResolvedParent, SnapRef
  <2> QED BY <2>1, <2>3, <2>4 DEF ResolvedParent
<1>4. IndexedTaints(worker.job, k) \in SUBSET Taints
  <2>1. jobs[worker.job].taints \in SUBSET Taints
    BY <1>1 DEF JobType, job
  <2>2. \A s : SnapTaints(s) \in SUBSET Taints
    BY DEF SnapTaints, Published, TypeOK, SnapMetaType
  <2> QED BY <2>1, <2>2 DEF IndexedTaints
<1>5. PublishedMeta(job.comps[k], ResolvedParent(worker.job, k), job.taints) \in SnapMetaType
  <2>1. job.taints \in SUBSET Taints
    BY <1>1 DEF JobType
  <2>2. CASE job.comps[k] \notin Published
    BY <1>3, <1>4, <2>1, <2>2 DEF PublishedMeta, SnapMetaType
  <2>3. CASE job.comps[k] \in Published
    <3>1. snapMeta[job.comps[k]] \in SnapMetaType
      BY <2>3 DEF Published, TypeOK
    <3> QED BY Zenon, <1>4, <2>1, <2>3, <3>1 DEF PublishedMeta, SnapMetaType
  <2> QED BY <2>2, <2>3
<1> QED BY <1>0, <1>1, <1>2, <1>3, <1>4, <1>5 DEF IndexComp

LEMMA WorkerStepType ==
    ASSUME TypeOK, LocalsOK, QueueOrder, ChainOrder, MainWorker PROVE TypeOK'
<1>0. worker.pc # "idle" => worker.job \in 1..Len(jobs) /\ job \in JobType
  BY WorkerJobIndex
<1>1. CASE Pop
  <2>1. pending \in Seq(Nat) /\ pending # <<>>
    BY <1>1 DEF Pop, TypeOK
  <2>2. Head(pending) \in Nat /\ Tail(pending) \in Seq(Nat)
    BY <2>1
  <2>3. worker' \in WorkerType
    BY <1>1, <2>2, EmptyPartialFun DEF Pop, IdleWorker, WorkerType
  <2> QED BY <1>1, <2>2, <2>3 DEF Pop, TypeOK
<1>2. ASSUME NEW k \in AnyKind, IndexComp(k)
      PROVE  TypeOK'
  <2>2. /\ k \in DOMAIN job.comps /\ job.comps[k] \in Content
        /\ PublishedMeta(job.comps[k], ResolvedParent(worker.job, k), job.taints) \in SnapMetaType
    BY <1>2, IndexTypes
  <2>6. worker.fin \in PartialFun(Content)
    BY DEF TypeOK, WorkerType
  <2>7. [x \in DOMAIN worker.fin \cup {k} |-> IF x = k THEN job.comps[k] ELSE worker.fin[x]]
          \in PartialFun(Content)
    <3>1. DOMAIN worker.fin \cup {k} \in SUBSET AnyKind /\ worker.fin \in [DOMAIN worker.fin -> Content]
      BY <2>6, PartialFunElim
    <3>2. [x \in DOMAIN worker.fin \cup {k} |-> IF x = k THEN job.comps[k] ELSE worker.fin[x]]
            \in [DOMAIN worker.fin \cup {k} -> Content]
      BY <2>2, <3>1
    <3> QED BY <3>1, <3>2, PartialFunIntro
  <2>8. worker' \in WorkerType
    BY <1>2, <2>7 DEF IndexComp, TypeOK, WorkerType
  <2> QED BY <1>2, <2>2, <2>8 DEF IndexComp, TypeOK
<1>3. CASE Finalized
  <2>1. worker.fin \in PartialFun(Content) /\ job \in JobType /\ worker.job \in 1..Len(jobs)
    BY <1>0, <1>3 DEF Finalized, TypeOK, WorkerType
  <2>2. [job EXCEPT !.finalized = worker.fin] \in JobType
    BY <2>1 DEF JobType
  <2>3. jobs' = [jobs EXCEPT ![worker.job] = [job EXCEPT !.finalized = worker.fin]]
    BY <1>3, <2>1 DEF Finalized, job, TypeOK
  <2>4. jobs' \in Seq(JobType)
    BY <2>1, <2>2, <2>3, SeqExcept DEF TypeOK
  <2>5. worker' \in WorkerType
    BY <1>3, <2>1 DEF Finalized, TypeOK, WorkerType, JobType
  <2> QED BY <1>3, <2>4, <2>5 DEF Finalized, TypeOK
<1>4. CASE WriteStamp
  <2>1. worker.fin["root"] \in Content
    <3>1. "root" \in DOMAIN worker.fin /\ worker.fin \in PartialFun(Content)
      BY <1>0, <1>4 DEF WriteStamp, LocalsOK, TypeOK, WorkerType, job
    <3> QED BY <3>1, PartialFunElim
  <2>2. worker' \in WorkerType
    BY <1>4 DEF WriteStamp, TypeOK, WorkerType
  <2> QED BY <1>4, <2>1, <2>2 DEF WriteStamp, TypeOK, SnapRef
<1>5. CASE UpdateBegin
  <2>1. worker' \in WorkerType
    BY <1>5 DEF UpdateBegin, TypeOK, WorkerType
  <2>2. rmw' \in [Frame -> RmwType \cup {None}]
    BY <1>5, EmptyMetaType DEF UpdateBegin, LockAndRead, LocalsOK, TypeOK, RmwType
  <2> QED BY <1>5, <2>1, <2>2 DEF UpdateBegin, TypeOK
<1>6. CASE UpdateEnd
  <2>1. worker.at \in Frame /\ rmw[worker.at].read \in MetaType
    BY <1>6 DEF UpdateEnd, LocalsOK, TypeOK, RmwType
  <2>2. worker.fin \in PartialFun(Content) /\ worker.job \in Nat
    BY DEF TypeOK, WorkerType
  <2>3. RecordSnap(rmw[worker.at].read, worker.job, worker.fin) \in MetaType
    BY <2>1, <2>2, RecordSnapType
  <2>4. worker' \in WorkerType
    BY <1>6 DEF UpdateEnd, TypeOK, WorkerType
  <2> QED BY <1>6, <2>1, <2>3, <2>4 DEF UpdateEnd, WriteAndUnlock, TypeOK
<1>7. CASE ForkedFrames
  <2>1. worker' \in WorkerType
    BY Zenon, <1>7 DEF ForkedFrames, TypeOK, WorkerType
  <2> QED BY <1>7, <2>1 DEF ForkedFrames, TypeOK
<1>8. ASSUME NEW f \in Frame, NextFork(f)
      PROVE  TypeOK'
  <2>1. worker' \in WorkerType
    BY <1>8 DEF NextFork, TypeOK, WorkerType
  <2> QED BY <1>8, <2>1 DEF NextFork, TypeOK
<1>9. CASE FinishJob
  <2>1. worker.job \in 1..Len(jobs) /\ job \in JobType
    BY <1>0, <1>9 DEF FinishJob
  <2>2. [job EXCEPT !.done = TRUE] \in JobType
    BY <2>1 DEF JobType
  <2>3. jobs' = [jobs EXCEPT ![worker.job] = [job EXCEPT !.done = TRUE]]
    BY <1>9, <2>1 DEF FinishJob, job, TypeOK
  <2>4. jobs' \in Seq(JobType)
    BY <2>1, <2>2, <2>3, SeqExcept DEF TypeOK
  <2>5. worker' \in WorkerType
    BY <1>9, EmptyPartialFun DEF FinishJob, IdleWorker, WorkerType
  <2>6. framePendingSnap' \in [Frame -> Nat]
    BY <1>9 DEF FinishJob, TypeOK
  <2> QED BY <1>9, <2>4, <2>5, <2>6 DEF FinishJob, TypeOK
<1> QED BY <1>1, <1>2, <1>3, <1>4, <1>5, <1>6, <1>7, <1>8, <1>9 DEF MainWorker

-----------------------------------------------------------------------------
(* The queue part of the invariant.                                        *)

ChainInv == QueueOrder /\ PendingIsUnfinished /\ ChainOrder

\* Waiting in the next state.
WaitingNext(j) == IsWaiting(j, Len(jobs'), Len(pending'), worker')

\* A step that leaves the queue, the jobs and the pending map alone, and the
\* worker at the same job, keeps it.
LEMMA QuietStep ==
    ASSUME ChainInv, UNCHANGED <<jobs, pending, framePendingSnap>>,
           (worker'.pc = "idle") <=> (worker.pc = "idle"), worker'.job = worker.job
    PROVE  ChainInv'
BY DEF ChainInv, QueueOrder, PendingIsUnfinished, ChainOrder, Waiting, IsWaiting

\* Enqueueing a job that is chained to the pending job of some frame, or to
\* none, keeps it: the new job is the last of the queue and of jobs.
LEMMA EnqueueStep ==
    ASSUME TypeOK, ChainInv, NEW jb \in JobType, Enqueue(jb), UNCHANGED worker,
           jb.parentJob = 0 \/ \E f \in Frame : jb.parentJob = framePendingSnap[f],
           \A f \in Frame : framePendingSnap'[f] \in {framePendingSnap[f], Len(jobs) + 1}
    PROVE  ChainInv'
<1> DEFINE n == Len(jobs)
           q == Len(pending)
<1>1. /\ jobs \in Seq(JobType) /\ pending \in Seq(Nat) /\ n \in Nat /\ q \in Nat
      /\ framePendingSnap \in [Frame -> Nat]
  BY DEF TypeOK
<1>2. /\ Len(jobs') = n + 1 /\ Len(pending') = q + 1
      /\ jobs'[n + 1] = jb /\ pending'[q + 1] = n + 1
      /\ \A j \in 1..n : jobs'[j] = jobs[j]
      /\ \A i \in 1..q : pending'[i] = pending[i]
  BY <1>1 DEF Enqueue
<1>3. worker \in WorkerType /\ worker.job \in Nat
  BY DEF TypeOK, WorkerType
<1>4. \A j \in Nat : WaitingNext(j) <=> Waiting(j)
  BY <1>1, <1>2 DEF Waiting, WaitingNext, IsWaiting
<1>5. QueueOrder'
  <2>1. Len(pending') <= Len(jobs')
    BY <1>1, <1>2 DEF ChainInv, QueueOrder
  <2>2. ASSUME NEW i \in 1..Len(pending')
        PROVE  pending'[i] = Len(jobs') - Len(pending') + i
    <3>1. CASE i = q + 1
      BY <1>1, <1>2, <3>1
    <3>2. CASE i \in 1..q
      BY <1>1, <1>2, <3>2 DEF ChainInv, QueueOrder
    <3> QED BY <1>1, <1>2, <3>1, <3>2
  <2>3. worker'.pc # "idle" => worker'.job > 0 /\ worker'.job = Len(jobs') - Len(pending')
    BY <1>1, <1>2, <1>3 DEF ChainInv, QueueOrder
  <2> QED BY <2>1, <2>2, <2>3 DEF QueueOrder
<1>6. PendingIsUnfinished'
  <2> SUFFICES ASSUME NEW f \in Frame, framePendingSnap'[f] # 0
               PROVE  framePendingSnap'[f] \in 1..(n + 1) /\ WaitingNext(framePendingSnap'[f])
    BY <1>2 DEF PendingIsUnfinished, Waiting, WaitingNext
  <2>1. CASE framePendingSnap'[f] = n + 1
    <3>1. Waiting(n + 1)
      BY <1>1 DEF Waiting, WaitingNext, IsWaiting
    <3> QED BY <1>1, <1>4, <2>1, <3>1
  <2>2. CASE framePendingSnap'[f] = framePendingSnap[f]
    BY <1>1, <1>4, <2>2 DEF ChainInv, PendingIsUnfinished
  <2> QED BY <2>1, <2>2
<1>7. ChainOrder'
  <2> SUFFICES ASSUME NEW j \in 1..(n + 1), WaitingNext(j), jobs'[j].parentJob # 0
               PROVE  /\ jobs'[j].parentJob \in 1..(j - 1)
                      /\ jobs'[jobs'[j].parentJob].done \/ WaitingNext(jobs'[j].parentJob)
    BY <1>2 DEF ChainOrder, Waiting, WaitingNext
  <2>1. CASE j = n + 1
    <3>1. PICK f \in Frame : jb.parentJob = framePendingSnap[f]
      BY <1>2, <2>1
    <3>2. jb.parentJob \in 1..n /\ Waiting(jb.parentJob)
      BY <1>2, <2>1, <3>1 DEF ChainInv, PendingIsUnfinished
    <3> QED BY <1>1, <1>2, <1>4, <2>1, <3>2
  <2>2. CASE j \in 1..n
    <3>1. Waiting(j) /\ jobs[j].parentJob # 0 /\ jobs'[j] = jobs[j]
      BY <1>1, <1>2, <1>4, <2>2
    <3>2. /\ jobs[j].parentJob \in 1..(j - 1)
          /\ jobs[jobs[j].parentJob].done \/ Waiting(jobs[j].parentJob)
      BY <2>2, <3>1 DEF ChainInv, ChainOrder
    <3>3. jobs[j].parentJob \in 1..n
      BY <1>1, <2>2, <3>2
    <3> QED BY <1>2, <1>4, <3>1, <3>2, <3>3
  <2> QED BY <1>1, <2>1, <2>2
<1> QED BY <1>5, <1>6, <1>7 DEF ChainInv

\* A step that only rewrites results of the worker's job, without reopening it,
\* keeps it as long as the worker stays with the job.
LEMMA JobResultStep ==
    ASSUME TypeOK, ChainInv, worker.pc # "idle", worker'.pc # "idle", worker'.job = worker.job,
           UNCHANGED <<pending, framePendingSnap>>,
           NEW e \in JobType, jobs' = [jobs EXCEPT ![worker.job] = e],
           e.parentJob = job.parentJob, job.done => e.done
    PROVE  ChainInv'
<1>1. worker.job \in 1..Len(jobs) /\ jobs \in Seq(JobType)
  BY WorkerJobIndex DEF ChainInv, TypeOK
<1>2. /\ Len(jobs') = Len(jobs)
      /\ \A j \in 1..Len(jobs) : jobs'[j].parentJob = jobs[j].parentJob /\ (jobs[j].done => jobs'[j].done)
  BY <1>1, SeqExcept DEF job
<1>3. \A j : WaitingNext(j) <=> Waiting(j)
  BY <1>2 DEF Waiting, WaitingNext, IsWaiting
<1>4. QueueOrder' /\ PendingIsUnfinished'
  BY <1>2, <1>3 DEF ChainInv, QueueOrder, PendingIsUnfinished, Waiting, WaitingNext
<1>5. ChainOrder'
  <2> SUFFICES ASSUME NEW j \in 1..Len(jobs), Waiting(j), jobs[j].parentJob # 0
               PROVE  /\ jobs'[j].parentJob \in 1..(j - 1)
                      /\ jobs'[jobs'[j].parentJob].done \/ Waiting(jobs'[j].parentJob)
    BY <1>2, <1>3 DEF ChainOrder, Waiting, WaitingNext
  <2>1. /\ jobs[j].parentJob \in 1..(j - 1)
        /\ jobs[jobs[j].parentJob].done \/ Waiting(jobs[j].parentJob)
    BY DEF ChainInv, ChainOrder
  <2>2. jobs[j].parentJob \in 1..Len(jobs)
    BY <1>1, <2>1
  <2> QED BY <1>2, <2>1, <2>2
<1> QED BY <1>4, <1>5 DEF ChainInv

\* run: the head of the queue becomes the worker's job.
LEMMA PopStep ==
    ASSUME TypeOK, ChainInv, Pop PROVE ChainInv'
<1>1. /\ pending \in Seq(Nat) /\ pending # <<>> /\ jobs \in Seq(JobType)
      /\ worker.pc = "idle" /\ Len(pending) \in Nat /\ Len(jobs) \in Nat
  BY DEF Pop, TypeOK
<1>2. /\ Len(pending') = Len(pending) - 1 /\ Len(pending) > 0
      /\ \A i \in 1..Len(pending') : pending'[i] = pending[i + 1]
      /\ worker'.job = pending[1] /\ worker'.pc = "index"
      /\ jobs' = jobs /\ framePendingSnap' = framePendingSnap
  BY <1>1 DEF Pop, IdleWorker
<1>3. pending[1] = Len(jobs) - Len(pending) + 1 /\ Len(pending) <= Len(jobs)
  BY <1>1, <1>2 DEF ChainInv, QueueOrder
<1>4. QueueOrder'
  BY <1>1, <1>2, <1>3 DEF ChainInv, QueueOrder
<1>5. \A j \in Nat : WaitingNext(j) <=> Waiting(j)
  <2> TAKE j \in Nat
  <2>1. Waiting(j) <=> j > Len(jobs) - Len(pending)
    BY <1>1 DEF Waiting, IsWaiting
  <2>2. WaitingNext(j) <=> j > Len(jobs) - (Len(pending) - 1) \/ j = pending[1]
    BY <1>2 DEF WaitingNext, IsWaiting
  <2> QED BY <1>1, <1>3, <2>1, <2>2
<1>6. PendingIsUnfinished'
  BY <1>2, <1>5 DEF ChainInv, PendingIsUnfinished, TypeOK, Waiting, WaitingNext
<1>7. ChainOrder'
  <2> SUFFICES ASSUME NEW j \in 1..Len(jobs), Waiting(j), jobs[j].parentJob # 0
               PROVE  /\ jobs[j].parentJob \in 1..(j - 1)
                      /\ jobs[jobs[j].parentJob].done \/ WaitingNext(jobs[j].parentJob)
    BY <1>1, <1>2, <1>5 DEF ChainOrder, Waiting, WaitingNext
  <2>1. /\ jobs[j].parentJob \in 1..(j - 1)
        /\ jobs[jobs[j].parentJob].done \/ Waiting(jobs[j].parentJob)
    BY DEF ChainInv, ChainOrder
  <2> QED BY <1>5, <2>1
<1> QED BY <1>4, <1>6, <1>7 DEF ChainInv

\* finishJob: the worker's job is done, and no frame keeps it pending.
LEMMA FinishStep ==
    ASSUME TypeOK, ChainInv, FinishJob PROVE ChainInv'
<1> DEFINE w == worker.job
<1>1. /\ w \in 1..Len(jobs) /\ jobs \in Seq(JobType) /\ pending \in Seq(Nat)
      /\ worker.pc # "idle" /\ Len(jobs) \in Nat /\ Len(pending) \in Nat
      /\ w = Len(jobs) - Len(pending)
  BY WorkerJobIndex DEF FinishJob, ChainInv, QueueOrder, TypeOK
<1>2. /\ Len(jobs') = Len(jobs) /\ jobs'[w].done
      /\ \A j \in 1..Len(jobs) : jobs'[j].parentJob = jobs[j].parentJob /\ (jobs[j].done => jobs'[j].done)
  <2>1. jobs[w] \in JobType
    BY <1>1
  <2> QED BY <1>1, <2>1 DEF FinishJob, JobType
<1>3. worker'.pc = "idle" /\ pending' = pending
  BY DEF FinishJob, IdleWorker
<1>4. \A j \in Nat : Waiting(j) => WaitingNext(j) \/ j = w
  BY <1>1, <1>2, <1>3 DEF Waiting, WaitingNext, IsWaiting
<1>5. \A j \in Nat : WaitingNext(j) => Waiting(j) /\ j # w
  BY <1>1, <1>2, <1>3 DEF Waiting, WaitingNext, IsWaiting
<1>6. QueueOrder'
  BY <1>2, <1>3 DEF ChainInv, QueueOrder
<1>7. PendingIsUnfinished'
  <2> SUFFICES ASSUME NEW f \in Frame, framePendingSnap'[f] # 0
               PROVE  framePendingSnap'[f] \in 1..Len(jobs) /\ WaitingNext(framePendingSnap'[f])
    BY <1>2 DEF PendingIsUnfinished, Waiting, WaitingNext
  <2>1. framePendingSnap'[f] = framePendingSnap[f] /\ framePendingSnap[f] # w
    BY DEF FinishJob
  <2>2. framePendingSnap[f] \in 1..Len(jobs) /\ Waiting(framePendingSnap[f])
    BY <2>1 DEF ChainInv, PendingIsUnfinished
  <2> QED BY <1>4, <2>1, <2>2
<1>8. ChainOrder'
  <2> SUFFICES ASSUME NEW j \in 1..Len(jobs), WaitingNext(j), jobs[j].parentJob # 0
               PROVE  /\ jobs[j].parentJob \in 1..(j - 1)
                      /\ jobs'[jobs[j].parentJob].done \/ WaitingNext(jobs[j].parentJob)
    BY <1>2 DEF ChainOrder, Waiting, WaitingNext
  <2>1. /\ jobs[j].parentJob \in 1..(j - 1)
        /\ jobs[jobs[j].parentJob].done \/ Waiting(jobs[j].parentJob)
    BY <1>5 DEF ChainInv, ChainOrder
  <2>2. jobs[j].parentJob \in 1..Len(jobs)
    BY <1>1, <2>1
  <2> QED BY <1>2, <1>4, <2>1, <2>2
<1> QED BY <1>6, <1>7, <1>8 DEF ChainInv

\* A crash empties the queue and the pending map, so nothing waits.
LEMMA CrashStep ==
    ASSUME TypeOK, ChainInv, Crash PROVE ChainInv'
<1>1. /\ pending' = <<>> /\ jobs' = jobs /\ worker'.pc = "idle"
      /\ \A f \in Frame : framePendingSnap'[f] = 0
      /\ Len(jobs) \in Nat
  BY DEF Crash, IdleWorker, TypeOK
<1>2. Len(pending') = 0
  BY <1>1
<1>3. \A j \in 1..Len(jobs) : ~WaitingNext(j)
  BY <1>1, <1>2 DEF Waiting, WaitingNext, IsWaiting
<1> QED BY <1>1, <1>2, <1>3 DEF ChainInv, QueueOrder, PendingIsUnfinished, ChainOrder, Waiting, WaitingNext

-----------------------------------------------------------------------------
(* The local variables.                                                    *)

\* Enqueueing a job whose component and parent maps agree keeps LocalsOK.
LEMMA EnqueueLocals ==
    ASSUME TypeOK, LocalsOK, QueueOrder, NEW jb \in JobType, Enqueue(jb), UNCHANGED <<worker, rmw>>,
           ~jb.sub => "root" \in DOMAIN jb.comps, DOMAIN jb.parentSnap = DOMAIN jb.comps
    PROVE  LocalsOK'
<1>1. jobs \in Seq(JobType) /\ Len(jobs) \in Nat
  BY DEF TypeOK
<1>2. /\ Len(jobs') = Len(jobs) + 1 /\ jobs'[Len(jobs) + 1] = jb /\ qmu' = None
      /\ \A j \in 1..Len(jobs) : jobs'[j] = jobs[j]
  BY <1>1 DEF Enqueue
<1>3. \A j \in 1..Len(jobs') : /\ ~jobs'[j].sub => "root" \in DOMAIN jobs'[j].comps
                               /\ DOMAIN jobs'[j].parentSnap = DOMAIN jobs'[j].comps
  BY <1>1, <1>2 DEF LocalsOK
<1>4. worker.pc # "idle" => job' = job
  BY <1>2, WorkerJobIndex DEF job
<1> QED BY <1>2, <1>3, <1>4 DEF LocalsOK

\* A step of a client or a handler that does not touch the jobs.
LEMMA HandlerLocals ==
    ASSUME TypeOK, LocalsOK, UNCHANGED <<jobs, worker>>,
           qmu' # None /\ qmu'.to # None => fork'[qmu'.to].pc = "read",
           worker.pc = "meta" => rmw'[worker.at] = rmw[worker.at]
    PROVE  LocalsOK'
BY DEF LocalsOK, job

\* The maps of a full capture have the same domain.
LEMMA FullJobDomains ==
    ASSUME NEW f, NEW m
    PROVE  DOMAIN FullJob(f, m).parentSnap = DOMAIN FullJob(f, m).comps
BY DEF FullJob, NewJob

LEMMA LocalsStep ==
    ASSUME QueueInv, [Main]_vars PROVE LocalsOK'
<1> USE DEF QueueInv
<1>0. qmu # None => qmu.frame \in Frame /\ qmu.to \in Forks \cup {None}
                    /\ qmu.read \in MetaType \cup {None}
  BY DEF TypeOK, QmuType
<1>00. worker.pc # "idle" => worker.job \in 1..Len(jobs) /\ job \in JobType
  BY WorkerJobIndex
<1>1. CASE Client
  <2>1. ASSUME NEW f \in Frame, NEW k \in Kinds, NEW c \in Content \cup {Empty}, UserWrite(f, k, c)
        PROVE  LocalsOK'
    BY <2>1, HandlerLocals DEF UserWrite, LocalsOK
  <2>2. ASSUME NEW f \in Frame, SnapFull(f) \/ SnapSubdir(f)
        PROVE  LocalsOK'
    BY <2>2, HandlerLocals DEF SnapFull, SnapSubdir, CaptureBegin
  <2>3. ASSUME NEW f \in Frame, NEW t \in Taints, TaintBegin(f, t)
        PROVE  LocalsOK'
    <3>1. worker.pc = "meta" => rmw'[worker.at] = rmw[worker.at]
      BY <2>3 DEF TaintBegin, LockAndRead, LocalsOK, TypeOK
    <3> QED BY <2>3, <3>1, HandlerLocals DEF TaintBegin, LocalsOK
  <2>4. ASSUME NEW g \in Forks, NEW f \in Frame, ForkRead(g, f)
        PROVE  LocalsOK'
    <3>1. qmu' # None /\ qmu'.to # None => fork'[qmu'.to].pc = "read"
      BY <1>0, <2>4 DEF ForkRead, LocalsOK, TypeOK
    <3> QED BY <2>4, <3>1, HandlerLocals DEF ForkRead
  <2>5. ASSUME NEW f \in Frame, NEW j \in 1..Len(jobs), PruneRead(f, j)
        PROVE  LocalsOK'
    BY <2>5, HandlerLocals DEF PruneRead, LocalsOK
  <2>6. ASSUME NEW f \in Frame, NEW s \in Frame, CloneReadSource(f, s)
        PROVE  LocalsOK'
    BY <2>6, HandlerLocals DEF CloneReadSource, LocalsOK
  <2> QED BY <1>1, <2>1, <2>2, <2>3, <2>4, <2>5, <2>6 DEF Client
<1>2. CASE Handler
  <2>1. ASSUME CaptureFull \/ ForkLocked
        PROVE  LocalsOK'
    BY <1>0, <2>1, FullJobType, FullJobDomains, EnqueueLocals DEF CaptureFull, ForkLocked
  <2>2. ASSUME NEW c \in Content, CaptureSubdir(c)
        PROVE  LocalsOK'
    <3> DEFINE jb == NewJob(qmu.frame, TRUE, [k \in {"subdir"} |-> c],
                            CapturedTaints(qmu.read), 0, [k \in {"subdir"} |-> NoSnap])
    <3>1. jb.sub /\ DOMAIN jb.parentSnap = DOMAIN jb.comps
      BY DEF NewJob
    <3>2. jb \in JobType
      BY <1>0, <2>2, SubdirJobType DEF CaptureSubdir
    <3>3. Enqueue(jb) /\ UNCHANGED <<worker, rmw>>
      BY <2>2 DEF CaptureSubdir
    <3> HIDE DEF jb
    <3> QED BY <3>1, <3>2, <3>3, EnqueueLocals
  <2>3. ASSUME NEW g \in Forks, ForkCapture(g)
        PROVE  LocalsOK'
    BY <2>3, HandlerLocals DEF ForkCapture, CaptureBegin
  <2>4. ASSUME NEW g \in Forks, ForkWriteSidecar(g) \/ ForkWriteStamp(g)
        PROVE  LocalsOK'
    <3>1. qmu' # None /\ qmu'.to # None => fork'[qmu'.to].pc = "read"
      <4>1. CASE ForkWriteSidecar(g)
        BY <1>0, <4>1 DEF ForkWriteSidecar, LocalsOK, TypeOK
      <4>2. CASE ForkWriteStamp(g)
        BY <1>0, <4>2 DEF ForkWriteStamp, LocalsOK, TypeOK
      <4> QED BY <2>4, <4>1, <4>2
    <3> QED BY <2>4, <3>1, HandlerLocals DEF ForkWriteSidecar, ForkWriteStamp
  <2>5. ASSUME NEW f \in Frame, TaintEnd(f)
        PROVE  LocalsOK'
    <3>1. worker.pc = "meta" => rmw'[worker.at] = rmw[worker.at]
      BY <2>5 DEF TaintEnd, WriteAndUnlock, LocalsOK, TypeOK
    <3> QED BY <2>5, <3>1, HandlerLocals DEF TaintEnd, LocalsOK
  <2>6. ASSUME NEW f \in Frame, CloneReadTarget(f) \/ HistoryWrite(f)
        PROVE  LocalsOK'
    BY <2>6, HandlerLocals DEF CloneReadTarget, HistoryWrite, LocalsOK
  <2> QED BY <1>2, <2>1, <2>2, <2>3, <2>4, <2>5, <2>6 DEF Handler
<1>3. CASE MainFailure
  <2>1. CASE CaptureFails
    BY <2>1, HandlerLocals DEF CaptureFails
  <2>2. CASE ForkCloneFails
    BY <1>0, <2>2, FullJobType, FullJobDomains, EnqueueLocals DEF ForkCloneFails
  <2>3. ASSUME NEW g \in Forks, ForkSetupFails(g)
        PROVE  LocalsOK'
    <3>1. qmu' # None /\ qmu'.to # None => fork'[qmu'.to].pc = "read"
      BY <1>0, <2>3 DEF ForkSetupFails, LocalsOK, TypeOK
    <3> QED BY <2>3, <3>1, HandlerLocals DEF ForkSetupFails
  <2>4. ASSUME NEW k \in AnyKind, IndexFails(k)
        PROVE  LocalsOK'
    <3>1. worker'.pc = "finish" /\ qmu' = qmu /\ fork' = fork
      BY <2>4 DEF IndexFails, TypeOK, WorkerType
    <3>2. \A j \in 1..Len(jobs') : jobs'[j].sub = jobs[j].sub /\ jobs'[j].comps = jobs[j].comps
                                   /\ jobs'[j].parentSnap = jobs[j].parentSnap
      BY <1>00, <2>4, SMTT(30) DEF IndexFails, TypeOK, JobType
    <3>3. Len(jobs') = Len(jobs)
      BY <1>00, <2>4 DEF IndexFails, TypeOK
    <3> QED BY <3>1, <3>2, <3>3 DEF LocalsOK
  <2>5. CASE Crash
    BY <2>5 DEF Crash, IdleWorker, LocalsOK
  <2> QED BY <1>3, <2>1, <2>2, <2>3, <2>4, <2>5 DEF MainFailure
<1>4. CASE MainWorker
  <2>1. CASE Pop
    BY <2>1 DEF Pop, IdleWorker, LocalsOK
  <2>2. ASSUME NEW k \in AnyKind, IndexComp(k)
        PROVE  LocalsOK'
    <3>1. worker'.pc = "index"
      BY <2>2 DEF IndexComp, TypeOK, WorkerType
    <3> QED BY <2>2, <3>1 DEF IndexComp, LocalsOK
  <2>3. CASE Finalized
    <3>1. /\ worker'.pc = (IF job.sub THEN "lock" ELSE "stamp") /\ worker'.at = job.frame
          /\ worker'.job = worker.job /\ worker'.fin = worker.fin
          /\ DOMAIN worker.fin = DOMAIN job.comps /\ job.frame \in Frame
          /\ qmu' = qmu /\ fork' = fork
      BY <1>00, <2>3 DEF Finalized, TypeOK, WorkerType, JobType
    <3>2. \A j \in 1..Len(jobs) : jobs'[j].sub = jobs[j].sub /\ jobs'[j].comps = jobs[j].comps
                                  /\ jobs'[j].parentSnap = jobs[j].parentSnap
      BY <1>00, <2>3, SMTT(30) DEF Finalized, TypeOK, JobType
    <3>3. Len(jobs') = Len(jobs)
      BY <1>00, <2>3 DEF Finalized, TypeOK
    <3>4. job'.sub = job.sub /\ job'.comps = job.comps
      BY <1>00, <2>3, <3>1, <3>2 DEF job, Finalized
    <3> QED BY <3>1, <3>2, <3>3, <3>4 DEF LocalsOK
  <2>4. CASE WriteStamp
    <3>1. worker' = [worker EXCEPT !.pc = "lock"] /\ worker \in WorkerType
          /\ UNCHANGED <<jobs, qmu, fork, rmw>>
      BY <2>4 DEF WriteStamp, TypeOK
    <3>2. worker'.pc = "lock" /\ worker'.at = worker.at /\ worker'.job = worker.job
          /\ worker'.fin = worker.fin
      BY <3>1 DEF WorkerType
    <3> QED BY <2>4, <3>1, <3>2 DEF WriteStamp, LocalsOK, job
  <2>5. CASE UpdateBegin
    <3>1. worker' = [worker EXCEPT !.pc = "meta"] /\ worker \in WorkerType
          /\ UNCHANGED <<jobs, qmu, fork>>
      BY <2>5 DEF UpdateBegin, TypeOK
    <3>2. worker'.pc = "meta" /\ worker'.at = worker.at /\ worker'.job = worker.job
          /\ worker'.fin = worker.fin /\ worker.at \in Frame
      BY <2>5, <3>1 DEF WorkerType, LocalsOK, UpdateBegin
    <3>3. rmw'[worker.at] \in RmwType /\ rmw'[worker.at].by = "worker"
      BY <2>5, <3>2, EmptyMetaType DEF UpdateBegin, LockAndRead, TypeOK, RmwType
    <3>4. rmw'[worker.at] # None
      BY <3>3, NoneAssumption
    <3> QED BY <2>5, <3>1, <3>2, <3>3, <3>4 DEF UpdateBegin, LocalsOK, job
  <2>6. CASE UpdateEnd
    <3>1. /\ worker'.pc \in {"finish", "forks", "next"} /\ worker'.job = worker.job
          /\ worker'.fin = worker.fin /\ (job.sub => worker'.pc = "finish")
          /\ UNCHANGED <<jobs, qmu, fork>>
      BY <2>6 DEF UpdateEnd, TypeOK, WorkerType
    <3> QED BY <2>6, <3>1 DEF UpdateEnd, LocalsOK, job
  <2>7. CASE ForkedFrames
    <3>1. /\ worker'.pc = "next" /\ worker'.job = worker.job /\ worker'.fin = worker.fin
          /\ UNCHANGED <<jobs, qmu, fork>>
      BY <2>7 DEF ForkedFrames, TypeOK, WorkerType
    <3> QED BY <2>7, <3>1 DEF ForkedFrames, LocalsOK, job
  <2>8. ASSUME NEW f \in Frame, NextFork(f)
        PROVE  LocalsOK'
    <3>1. /\ worker'.pc = "stamp" /\ worker'.job = worker.job /\ worker'.fin = worker.fin
          /\ worker'.at = f /\ UNCHANGED <<jobs, qmu, fork>>
      BY <2>8 DEF NextFork, TypeOK, WorkerType
    <3> QED BY <2>8, <3>1 DEF NextFork, LocalsOK, job
  <2>9. CASE FinishJob
    <3>1. worker'.pc = "idle" /\ qmu' = qmu /\ fork' = fork
      BY <2>9 DEF FinishJob, IdleWorker
    <3>2. \A j \in 1..Len(jobs) : jobs'[j].sub = jobs[j].sub /\ jobs'[j].comps = jobs[j].comps
                                   /\ jobs'[j].parentSnap = jobs[j].parentSnap
      BY <1>00, <2>9, SMTT(30) DEF FinishJob, TypeOK, JobType
    <3>3. Len(jobs') = Len(jobs)
      BY <1>00, <2>9 DEF FinishJob, TypeOK
    <3> QED BY <3>1, <3>2, <3>3 DEF LocalsOK
  <2> QED BY <1>4, <2>1, <2>2, <2>3, <2>4, <2>5, <2>6, <2>7, <2>8, <2>9 DEF MainWorker
<1>5. CASE UNCHANGED vars
  BY <1>5 DEF vars, LocalsOK, job
<1> QED BY <1>1, <1>2, <1>3, <1>4, <1>5 DEF Main

-----------------------------------------------------------------------------
(* Putting the parts together.                                             *)

LEMMA ChainStep ==
    ASSUME QueueInv, [Main]_vars PROVE ChainInv'
<1>0. TypeOK /\ LocalsOK /\ ChainInv
  BY DEF QueueInv, ChainInv
<1>00. qmu # None => qmu.frame \in Frame /\ qmu.to \in Forks \cup {None}
                     /\ qmu.read \in MetaType \cup {None}
  BY <1>0 DEF TypeOK, QmuType
<1>1. CASE Client
  BY <1>0, <1>1, QuietStep DEF Client, UserWrite, SnapFull, SnapSubdir, CaptureBegin,
     TaintBegin, ForkRead, PruneRead, CloneReadSource
<1>2. CASE Handler
  <2>1. ASSUME CaptureFull \/ ForkLocked
        PROVE  ChainInv'
    <3> DEFINE jb == FullJob(qmu.frame, qmu.read)
    <3>1. jb \in JobType /\ jb.parentJob = framePendingSnap[qmu.frame] /\ qmu.frame \in Frame
      BY <1>0, <1>00, <2>1, FullJobType DEF CaptureFull, ForkLocked
    <3>2. Enqueue(jb) /\ UNCHANGED worker
      BY <2>1 DEF CaptureFull, ForkLocked
    <3>3. \A f \in Frame : framePendingSnap'[f] \in {framePendingSnap[f], Len(jobs) + 1}
      BY <1>0, <2>1 DEF CaptureFull, ForkLocked, TypeOK
    <3> HIDE DEF jb
    <3> QED BY <1>0, <3>1, <3>2, <3>3, EnqueueStep
  <2>2. ASSUME NEW c \in Content, CaptureSubdir(c)
        PROVE  ChainInv'
    <3> DEFINE jb == NewJob(qmu.frame, TRUE, [k \in {"subdir"} |-> c],
                            CapturedTaints(qmu.read), 0, [k \in {"subdir"} |-> NoSnap])
    <3>1. jb.parentJob = 0
      BY DEF NewJob
    <3>2. jb \in JobType
      BY <1>00, <2>2, SubdirJobType DEF CaptureSubdir
    <3>3. Enqueue(jb) /\ UNCHANGED <<worker, framePendingSnap>>
      BY <2>2 DEF CaptureSubdir
    <3> HIDE DEF jb
    <3> QED BY <1>0, <3>1, <3>2, <3>3, EnqueueStep
  <2>3. ASSUME \/ \E g \in Forks : ForkCapture(g) \/ ForkWriteSidecar(g) \/ ForkWriteStamp(g)
               \/ \E f \in Frame : TaintEnd(f) \/ CloneReadTarget(f) \/ HistoryWrite(f)
        PROVE  ChainInv'
    BY <1>0, <2>3, QuietStep DEF ForkCapture, CaptureBegin, ForkWriteSidecar, ForkWriteStamp,
       TaintEnd, CloneReadTarget, HistoryWrite
  <2> QED BY <1>2, <2>1, <2>2, <2>3 DEF Handler
<1>3. CASE MainFailure
  <2>1. CASE CaptureFails
    BY <1>0, <2>1, QuietStep DEF CaptureFails
  <2>2. CASE ForkCloneFails
    <3> DEFINE jb == FullJob(qmu.frame, qmu.read)
    <3>1. jb \in JobType /\ jb.parentJob = framePendingSnap[qmu.frame] /\ qmu.frame \in Frame
      BY <1>0, <1>00, <2>2, FullJobType DEF ForkCloneFails
    <3>2. Enqueue(jb) /\ UNCHANGED worker
      BY <2>2 DEF ForkCloneFails
    <3>3. \A f \in Frame : framePendingSnap'[f] \in {framePendingSnap[f], Len(jobs) + 1}
      BY <1>0, <2>2 DEF ForkCloneFails, TypeOK
    <3> HIDE DEF jb
    <3> QED BY <1>0, <3>1, <3>2, <3>3, EnqueueStep
  <2>3. ASSUME NEW g \in Forks, ForkSetupFails(g)
        PROVE  ChainInv'
    BY <1>0, <2>3, QuietStep DEF ForkSetupFails
  <2>4. ASSUME NEW k \in AnyKind, IndexFails(k)
        PROVE  ChainInv'
    <3>1. worker.job \in 1..Len(jobs) /\ job \in JobType /\ worker.pc # "idle"
      BY <1>0, <2>4, WorkerJobIndex DEF IndexFails, ChainInv
    <3>2. [job EXCEPT !.err = TRUE] \in JobType
      BY <3>1 DEF JobType
    <3>3. jobs' = [jobs EXCEPT ![worker.job] = [job EXCEPT !.err = TRUE]]
      BY <1>0, <2>4, <3>1 DEF IndexFails, job, TypeOK
    <3>4. worker'.pc = "finish" /\ worker'.job = worker.job
          /\ UNCHANGED <<pending, framePendingSnap>>
      BY <1>0, <2>4 DEF IndexFails, TypeOK, WorkerType
    <3>5. [job EXCEPT !.err = TRUE].parentJob = job.parentJob
          /\ (job.done => [job EXCEPT !.err = TRUE].done)
      BY <3>1 DEF JobType
    <3> QED BY <1>0, <3>1, <3>2, <3>3, <3>4, <3>5, JobResultStep
  <2>5. CASE Crash
    BY <1>0, <2>5, CrashStep
  <2> QED BY <1>3, <2>1, <2>2, <2>3, <2>4, <2>5 DEF MainFailure
<1>4. CASE MainWorker
  <2>1. CASE Finalized
    <3>1. worker.job \in 1..Len(jobs) /\ job \in JobType /\ worker.pc # "idle"
      BY <1>0, <2>1, WorkerJobIndex DEF Finalized, ChainInv
    <3>2. [job EXCEPT !.finalized = worker.fin] \in JobType
      BY <1>0, <3>1 DEF JobType, TypeOK, WorkerType
    <3>3. jobs' = [jobs EXCEPT ![worker.job] = [job EXCEPT !.finalized = worker.fin]]
      BY <1>0, <2>1, <3>1 DEF Finalized, job, TypeOK
    <3>4. worker'.pc # "idle" /\ worker'.job = worker.job
          /\ UNCHANGED <<pending, framePendingSnap>>
      BY <1>0, <2>1 DEF Finalized, TypeOK, WorkerType
    <3>5. [job EXCEPT !.finalized = worker.fin].parentJob = job.parentJob
          /\ (job.done => [job EXCEPT !.finalized = worker.fin].done)
      BY <3>1 DEF JobType
    <3> QED BY <1>0, <3>1, <3>2, <3>3, <3>4, <3>5, JobResultStep
  <2>2. ASSUME \/ \E k \in AnyKind : IndexComp(k)
               \/ WriteStamp \/ UpdateBegin \/ UpdateEnd \/ ForkedFrames
               \/ \E f \in Frame : NextFork(f)
        PROVE  ChainInv'
    <3>1. /\ worker.pc # "idle" /\ worker'.pc # "idle" /\ worker'.job = worker.job
          /\ UNCHANGED <<jobs, pending, framePendingSnap>>
      BY Zenon, <1>0, <2>2 DEF TypeOK, WorkerType, IndexComp, WriteStamp, UpdateBegin, UpdateEnd,
         ForkedFrames, NextFork
    <3> QED BY <1>0, <3>1, QuietStep
  <2> QED BY <1>0, <1>4, <2>1, <2>2, PopStep, FinishStep DEF MainWorker
<1>5. CASE UNCHANGED vars
  BY <1>0, <1>5, QuietStep DEF vars
<1> QED BY <1>1, <1>2, <1>3, <1>4, <1>5 DEF Main

LEMMA QueueInit == Init => QueueInv
<1> SUFFICES ASSUME Init PROVE QueueInv
  OBVIOUS
<1>1. TypeOK
  BY InitType
<1>2. LocalsOK
  BY DEF Init, LocalsOK, IdleWorker
<1>3. QueueOrder /\ PendingIsUnfinished /\ ChainOrder
  BY DEF Init, QueueOrder, PendingIsUnfinished, ChainOrder, IdleWorker
<1> QED BY <1>1, <1>2, <1>3 DEF QueueInv

LEMMA QueueStep ==
    ASSUME QueueInv, [Main]_vars PROVE QueueInv'
<1>1. TypeOK'
  <2>1. CASE UNCHANGED vars
    BY <2>1 DEF QueueInv, TypeOK, vars
  <2> QED BY <2>1, ClientType, HandlerType, FailureType, WorkerStepType DEF QueueInv, Main
<1> QED BY <1>1, LocalsStep, ChainStep DEF QueueInv, ChainInv

-----------------------------------------------------------------------------
(* What the steps do to the list of jobs, for the rest of the invariant.   *)

\* The steps that append a job, and those that change one.
Capture == CaptureFull \/ ForkLocked \/ ForkCloneFails \/ \E c \in Content : CaptureSubdir(c)
Result == Finalized \/ FinishJob \/ \E k \in AnyKind : IndexFails(k)

\* jobs is a sequence of jobs.
LEMMA JobsDomain ==
    ASSUME TypeOK
    PROVE  /\ jobs \in Seq(JobType) /\ Len(jobs) \in Nat /\ DOMAIN jobs = 1..Len(jobs)
           /\ \A j \in DOMAIN jobs : jobs[j] \in JobType
BY DEF TypeOK

\* Enqueue appends to jobs and leaves the worker's job alone.
LEMMA EnqueueEffect ==
    ASSUME TypeOK, QueueOrder, NEW jb \in JobType, Enqueue(jb), UNCHANGED worker
    PROVE  /\ Len(jobs') = Len(jobs) + 1 /\ jobs'[Len(jobs) + 1] = jb
           /\ DOMAIN jobs' = DOMAIN jobs \cup {Len(jobs) + 1}
           /\ \A j \in DOMAIN jobs : jobs'[j] = jobs[j]
           /\ Len(jobs) + 1 \notin DOMAIN jobs
           /\ Taken' = Taken
           /\ worker.pc # "idle" => job' = job /\ worker.job \in DOMAIN jobs
<1>1. jobs \in Seq(JobType) /\ Len(jobs) \in Nat /\ pending \in Seq(Nat)
  BY DEF TypeOK
<1>2. /\ Len(jobs') = Len(jobs) + 1 /\ jobs'[Len(jobs) + 1] = jb
      /\ DOMAIN jobs' = DOMAIN jobs \cup {Len(jobs) + 1}
      /\ \A j \in DOMAIN jobs : jobs'[j] = jobs[j]
      /\ Len(jobs) + 1 \notin DOMAIN jobs
  BY <1>1 DEF Enqueue
<1>3. Taken' = Taken
  BY <1>1 DEF Enqueue, Taken
<1>4. worker.pc # "idle" => job' = job /\ worker.job \in DOMAIN jobs
  BY <1>1, <1>2, WorkerJobIndex DEF job
<1> QED BY <1>2, <1>3, <1>4

\* The worker's job is one of the jobs.
LEMMA WorkerJobDomain ==
    ASSUME TypeOK, QueueOrder, worker.pc # "idle"
    PROVE  /\ worker.job \in DOMAIN jobs /\ worker.job = Taken /\ job = jobs[worker.job]
           /\ job \in JobType
BY WorkerJobIndex, JobsDomain DEF job, QueueOrder, Taken

\* The three steps that change a job change one field of the worker's job.
LEMMA ResultEffect ==
    ASSUME TypeOK, QueueOrder, Result
    PROVE  /\ Len(jobs') = Len(jobs) /\ DOMAIN jobs' = DOMAIN jobs
           /\ \A j \in DOMAIN jobs : j # worker.job => jobs'[j] = jobs[j]
           /\ jobs'[worker.job] = IF Finalized THEN [job EXCEPT !.finalized = worker.fin]
                                  ELSE IF FinishJob THEN [job EXCEPT !.done = TRUE]
                                  ELSE [job EXCEPT !.err = TRUE]
           /\ \A j \in DOMAIN jobs :
                 /\ jobs'[j].frame = jobs[j].frame /\ jobs'[j].sub = jobs[j].sub
                 /\ jobs'[j].comps = jobs[j].comps /\ jobs'[j].taints = jobs[j].taints
                 /\ jobs'[j].parentJob = jobs[j].parentJob
                 /\ jobs'[j].parentSnap = jobs[j].parentSnap
           /\ worker.pc # "idle" /\ worker.job \in DOMAIN jobs /\ pending' = pending
           /\ Taken' = Taken
<1>1. worker.pc # "idle" /\ pending' = pending
  BY DEF Result, Finalized, FinishJob, IndexFails
<1>2. worker.job \in DOMAIN jobs /\ job = jobs[worker.job] /\ job \in JobType
  BY <1>1, WorkerJobDomain
<1>3. jobs \in Seq(JobType) /\ DOMAIN jobs = 1..Len(jobs)
  BY JobsDomain
<1>4. jobs' = [jobs EXCEPT ![worker.job] = IF Finalized THEN [job EXCEPT !.finalized = worker.fin]
                                           ELSE IF FinishJob THEN [job EXCEPT !.done = TRUE]
                                           ELSE [job EXCEPT !.err = TRUE]]
  <2>1. CASE Finalized
    BY <1>2, <1>3, <2>1 DEF Finalized
  <2>2. CASE ~Finalized /\ FinishJob
    BY <1>2, <1>3, <2>2 DEF FinishJob
  <2>3. CASE ~Finalized /\ ~FinishJob
    <3>1. PICK k \in AnyKind : IndexFails(k)
      BY <2>3 DEF Result
    <3> QED BY <1>2, <1>3, <2>3, <3>1 DEF IndexFails
  <2> QED BY <2>1, <2>2, <2>3
<1>5. PICK e : e = (IF Finalized THEN [job EXCEPT !.finalized = worker.fin]
                    ELSE IF FinishJob THEN [job EXCEPT !.done = TRUE]
                    ELSE [job EXCEPT !.err = TRUE])
  OBVIOUS
<1>6. /\ e.frame = job.frame /\ e.sub = job.sub /\ e.comps = job.comps /\ e.taints = job.taints
      /\ e.parentJob = job.parentJob /\ e.parentSnap = job.parentSnap
  BY <1>2, <1>5 DEF JobType
<1>7. jobs' = [jobs EXCEPT ![worker.job] = e]
  BY <1>4, <1>5
<1>8. /\ Len(jobs') = Len(jobs) /\ DOMAIN jobs' = DOMAIN jobs
      /\ \A j \in DOMAIN jobs : j # worker.job => jobs'[j] = jobs[j]
      /\ jobs'[worker.job] = e
  BY <1>2, <1>3, <1>7
<1>9. \A j \in DOMAIN jobs :
                 /\ jobs'[j].frame = jobs[j].frame /\ jobs'[j].sub = jobs[j].sub
                 /\ jobs'[j].comps = jobs[j].comps /\ jobs'[j].taints = jobs[j].taints
                 /\ jobs'[j].parentJob = jobs[j].parentJob
                 /\ jobs'[j].parentSnap = jobs[j].parentSnap
  BY <1>2, <1>6, <1>8
<1>10. Taken' = Taken
  BY <1>1, <1>8 DEF Taken
<1> QED BY <1>1, <1>2, <1>5, <1>8, <1>9, <1>10

-----------------------------------------------------------------------------
(* Captured subvolumes: TmpInv.                                            *)

\* A step that adds no capture and changes no job.
LEMMA TmpQuiet ==
    ASSUME TmpInv, UNCHANGED jobs, tmp' \subseteq tmp,
           \A p \in tmp' : worker'.pc # "idle" /\ p[1] = worker'.job =>
               worker'.pc = "index" /\ p[2] \notin DOMAIN worker'.fin
    PROVE  TmpInv'
BY DEF TmpInv

\* Enqueue adds the components of the new job.
LEMMA TmpEnqueue ==
    ASSUME TypeOK, QueueOrder, TmpInv, NEW jb \in JobType, ~jb.done, Enqueue(jb), UNCHANGED worker
    PROVE  TmpInv'
<1>1. PICK n : n = Len(jobs) + 1
  OBVIOUS
<1>2. /\ DOMAIN jobs' = DOMAIN jobs \cup {n} /\ jobs'[n] = jb /\ n \notin DOMAIN jobs
      /\ \A j \in DOMAIN jobs : jobs'[j] = jobs[j]
      /\ worker.pc # "idle" => worker.job \in DOMAIN jobs
  BY <1>1, EnqueueEffect
<1>3. tmp' = tmp \cup {<<n, k>> : k \in DOMAIN jb.comps}
  BY <1>1 DEF Enqueue
<1> SUFFICES ASSUME NEW p \in tmp'
             PROVE  /\ p[1] \in DOMAIN jobs' /\ p[2] \in DOMAIN jobs'[p[1]].comps
                    /\ ~jobs'[p[1]].done
                    /\ worker.pc # "idle" /\ p[1] = worker.job =>
                          worker.pc = "index" /\ p[2] \notin DOMAIN worker.fin
  BY DEF TmpInv
<1>4. CASE p \in tmp
  BY <1>2, <1>4 DEF TmpInv
<1>5. CASE p \in {<<n, k>> : k \in DOMAIN jb.comps}
  BY <1>2, <1>5
<1> QED BY <1>3, <1>4, <1>5

\* The four captures enqueue a job of the frame being captured, which is not
\* done. A full one is built by FullJob; a subtree one is chained to nothing.
LEMMA CaptureEffect ==
    ASSUME TypeOK, Capture
    PROVE  \E jb \in JobType :
              /\ Enqueue(jb) /\ UNCHANGED <<worker, rmw, edit, meta, stamp, snapMeta, crashes>>
              /\ qmu # None /\ qmu \in QmuType
              /\ jb.frame = qmu.frame /\ jb.done = FALSE /\ jb.err = FALSE /\ jb.finalized = <<>>
              /\ \/ jb = FullJob(qmu.frame, qmu.read) /\ jb.sub = FALSE
                 \/ /\ jb.sub = TRUE /\ jb.parentSnap = [k \in {"subdir"} |-> NoSnap]
                    /\ jb.parentJob = 0 /\ DOMAIN jb.comps = {"subdir"}
                    /\ UNCHANGED <<framePendingSnap, fork, live>>
<1>1. /\ UNCHANGED <<worker, rmw, edit, meta, stamp, snapMeta, crashes>>
      /\ qmu # None /\ qmu \in QmuType
  BY DEF Capture, CaptureFull, ForkLocked, ForkCloneFails, CaptureSubdir, TypeOK
<1>2. qmu.frame \in Frame /\ qmu.read \in MetaType \cup {None}
  BY <1>1 DEF QmuType
<1>3. CASE CaptureFull \/ ForkLocked \/ ForkCloneFails
  <2>1. PICK jb : jb = FullJob(qmu.frame, qmu.read)
    OBVIOUS
  <2>2. jb \in JobType
    BY <1>2, <2>1, FullJobType
  <2>3. Enqueue(jb)
    BY <1>3, <2>1 DEF CaptureFull, ForkLocked, ForkCloneFails
  <2>4. jb.frame = qmu.frame /\ jb.done = FALSE /\ jb.err = FALSE /\ jb.finalized = <<>> /\ jb.sub = FALSE
    BY <2>1 DEF FullJob, NewJob
  <2> QED BY <1>1, <2>1, <2>2, <2>3, <2>4
<1>4. ASSUME NEW c \in Content, CaptureSubdir(c)
      PROVE  \E jb \in JobType :
              /\ Enqueue(jb) /\ jb.frame = qmu.frame /\ jb.done = FALSE /\ jb.err = FALSE
              /\ jb.finalized = <<>>
              /\ jb.sub = TRUE /\ jb.parentSnap = [k \in {"subdir"} |-> NoSnap]
              /\ jb.parentJob = 0 /\ DOMAIN jb.comps = {"subdir"}
              /\ UNCHANGED <<framePendingSnap, fork, live>>
  <2>1. PICK jb : jb = NewJob(qmu.frame, TRUE, [k \in {"subdir"} |-> c],
                              CapturedTaints(qmu.read), 0, [k \in {"subdir"} |-> NoSnap])
    OBVIOUS
  <2>2. jb \in JobType
    BY <1>2, <2>1, SubdirJobType
  <2>3. Enqueue(jb) /\ UNCHANGED <<framePendingSnap, fork, live>>
    BY <1>4, <2>1 DEF CaptureSubdir
  <2>4. /\ jb.frame = qmu.frame /\ jb.done = FALSE /\ jb.err = FALSE /\ jb.finalized = <<>>
        /\ jb.sub = TRUE /\ jb.parentJob = 0 /\ jb.parentSnap = [k \in {"subdir"} |-> NoSnap]
        /\ jb.comps = [k \in {"subdir"} |-> c]
    BY <2>1 DEF NewJob
  <2>5. DOMAIN jb.comps = {"subdir"}
    BY <2>4
  <2> QED BY <2>2, <2>3, <2>4, <2>5
<1> QED BY <1>1, <1>3, <1>4 DEF Capture

LEMMA TmpStep ==
    ASSUME QueueInv, TmpInv, [Main]_vars PROVE TmpInv'
<1>0. TypeOK /\ QueueOrder /\ LocalsOK
  BY DEF QueueInv
<1>1. ASSUME Capture
      PROVE  TmpInv'
  <2>1. PICK jb \in JobType : Enqueue(jb) /\ UNCHANGED worker /\ jb.done = FALSE
    BY <1>0, <1>1, CaptureEffect
  <2> QED BY <1>0, <2>1, TmpEnqueue
<1>2. ASSUME UNCHANGED <<jobs, tmp, worker>>
      PROVE  TmpInv'
  BY <1>2, TmpQuiet DEF TmpInv
<1>3. CASE Client
  BY <1>2, <1>3 DEF Client, UserWrite, SnapFull, SnapSubdir, CaptureBegin, TaintBegin, ForkRead,
     PruneRead, CloneReadSource
<1>4. CASE Handler
  BY <1>1, <1>2, <1>4 DEF Capture, Handler, ForkCapture, CaptureBegin, ForkWriteSidecar, ForkWriteStamp,
     TaintEnd, CloneReadTarget, HistoryWrite
<1>5. ASSUME NEW k \in AnyKind, IndexFails(k)
      PROVE  TmpInv'
  <2>1. /\ DOMAIN jobs' = DOMAIN jobs /\ jobs'[worker.job] = [job EXCEPT !.err = TRUE]
        /\ \A j \in DOMAIN jobs : j # worker.job => jobs'[j] = jobs[j]
        /\ \A j \in DOMAIN jobs : jobs'[j].comps = jobs[j].comps
    <3>1. ~Finalized /\ ~FinishJob
      BY <1>0, <1>5 DEF IndexFails, Finalized, FinishJob, NextComp
    <3> QED BY <1>0, <1>5, <3>1, ResultEffect DEF Result
  <2>2. worker'.pc = "finish" /\ worker'.job = worker.job /\ worker.pc = "index"
    BY <1>0, <1>5 DEF IndexFails, TypeOK, WorkerType
  <2>3. tmp' = tmp \ {<<worker.job, x>> : x \in DOMAIN job.comps \ DOMAIN worker.fin}
    BY <1>5 DEF IndexFails
  <2>4. \A p \in tmp' : p[1] # worker.job
    <3> SUFFICES ASSUME NEW p \in tmp, p[1] = worker.job PROVE p \notin tmp'
      BY <2>3
    <3>1. p[2] \in DOMAIN job.comps \ DOMAIN worker.fin
      BY <2>2 DEF TmpInv, job
    <3>2. p = <<worker.job, p[2]>>
      BY <1>0 DEF TypeOK
    <3> QED BY <2>3, <3>1, <3>2
  <2> QED BY <2>1, <2>2, <2>3, <2>4 DEF TmpInv
<1>6. CASE CaptureFails \/ \E g \in Forks : ForkSetupFails(g)
  BY <1>2, <1>6 DEF CaptureFails, ForkSetupFails
<1>7. CASE Crash
  BY <1>7, TmpQuiet DEF Crash, IdleWorker
<1>8. CASE Pop
  <2>1. worker'.pc = "index" /\ worker'.fin = <<>> /\ UNCHANGED <<jobs, tmp>>
    BY <1>8 DEF Pop, IdleWorker
  <2>2. DOMAIN worker'.fin = {}
    BY <2>1
  <2> QED BY <2>1, <2>2, TmpQuiet
<1>9. ASSUME NEW k \in AnyKind, IndexComp(k)
      PROVE  TmpInv'
  <2>1. /\ worker'.pc = "index" /\ worker'.job = worker.job /\ worker.pc = "index"
        /\ DOMAIN worker'.fin = DOMAIN worker.fin \cup {k}
        /\ tmp' = tmp \ {<<worker.job, k>>} /\ jobs' = jobs
    BY <1>0, <1>9 DEF IndexComp, TypeOK, WorkerType
  <2>2. \A p \in tmp : p = <<p[1], p[2]>>
    BY <1>0 DEF TypeOK
  <2>3. \A p \in tmp' : p[1] = worker.job => p[2] # k
    BY <2>1, <2>2
  <2>4. \A p \in tmp' : p[1] = worker.job => p[2] \notin DOMAIN worker.fin
    BY <2>1 DEF TmpInv
  <2> QED BY <2>1, <2>3, <2>4, TmpQuiet
<1>10. CASE Finalized
  <2>1. /\ DOMAIN jobs' = DOMAIN jobs /\ jobs'[worker.job] = [job EXCEPT !.finalized = worker.fin]
        /\ \A j \in DOMAIN jobs : j # worker.job => jobs'[j] = jobs[j]
    BY <1>0, <1>10, ResultEffect DEF Result
  <2>2. /\ worker.pc = "index" /\ worker'.job = worker.job /\ tmp' = tmp
        /\ DOMAIN worker.fin = DOMAIN job.comps
    BY <1>0, <1>10 DEF Finalized, TypeOK, WorkerType
  <2>3. \A p \in tmp : p[1] # worker.job
    BY <2>2 DEF TmpInv, job
  <2> QED BY <2>1, <2>2, <2>3 DEF TmpInv
<1>11. ASSUME WriteStamp \/ UpdateBegin \/ UpdateEnd \/ ForkedFrames \/ \E f \in Frame : NextFork(f)
       PROVE  TmpInv'
  <2>1. /\ worker.pc \notin {"idle", "index"} /\ worker'.job = worker.job /\ UNCHANGED <<jobs, tmp>>
    BY Zenon, <1>0, <1>11 DEF WriteStamp, UpdateBegin, UpdateEnd, ForkedFrames, NextFork, TypeOK, WorkerType
  <2> QED BY <2>1, TmpQuiet DEF TmpInv
<1>12. CASE FinishJob
  <2>1. /\ DOMAIN jobs' = DOMAIN jobs
        /\ \A j \in DOMAIN jobs : j # worker.job => jobs'[j] = jobs[j]
    BY <1>0, <1>12, ResultEffect DEF Result
  <2>2. worker.pc \notin {"idle", "index"} /\ worker'.pc = "idle" /\ tmp' = tmp
    BY <1>12 DEF FinishJob, IdleWorker
  <2>3. \A p \in tmp : p[1] # worker.job
    BY <2>2 DEF TmpInv
  <2> QED BY <2>1, <2>2, <2>3 DEF TmpInv
<1>13. CASE UNCHANGED vars
  BY <1>2, <1>13 DEF vars
<1> QED BY <1>1, <1>3, <1>4, <1>5, <1>6, <1>7, <1>8, <1>9, <1>10, <1>11, <1>12, <1>13
        DEF Main, MainFailure, MainWorker, Capture

-----------------------------------------------------------------------------
(* Which steps may change what.                                            *)

LEMMA StampChange ==
    ASSUME TypeOK, [Main]_vars, NEW f \in Frame
    PROVE  \/ stamp'[f] = stamp[f]
           \/ WriteStamp /\ worker.at = f
           \/ f \in Forks /\ ForkWriteStamp(f)
<1>1. stamp' = stamp \/ WriteStamp \/ \E g \in Forks : ForkWriteStamp(g)
  BY Zenon DEF Main, vars, Client, Handler, MainFailure, MainWorker, UserWrite, SnapFull, SnapSubdir, CaptureBegin,
     TaintBegin, ForkRead, PruneRead, CloneReadSource, CaptureFull, CaptureSubdir, ForkLocked,
     ForkCapture, ForkWriteSidecar, TaintEnd, CloneReadTarget, HistoryWrite, CaptureFails,
     ForkCloneFails, ForkSetupFails, IndexFails, Crash, Pop, IndexComp, Finalized, UpdateBegin,
     UpdateEnd, ForkedFrames, NextFork, FinishJob
<1>2. WriteStamp => worker.at = f \/ stamp'[f] = stamp[f]
  BY DEF WriteStamp, TypeOK
<1>3. \A g \in Forks : ForkWriteStamp(g) => g = f \/ stamp'[f] = stamp[f]
  BY DEF ForkWriteStamp, TypeOK
<1> QED BY <1>1, <1>2, <1>3

LEMMA MetaChange ==
    ASSUME TypeOK, [Main]_vars, NEW f \in Frame
    PROVE  \/ meta'[f] = meta[f]
           \/ TaintEnd(f)
           \/ HistoryWrite(f)
           \/ UpdateEnd /\ worker.at = f
           \/ f \in Forks /\ ForkWriteSidecar(f)
<1>1. \/ meta' = meta \/ UpdateEnd \/ (\E g \in Forks : ForkWriteSidecar(g))
      \/ \E x \in Frame : TaintEnd(x) \/ HistoryWrite(x)
  BY Zenon DEF Main, vars, Client, Handler, MainFailure, MainWorker, UserWrite, SnapFull, SnapSubdir, CaptureBegin,
     TaintBegin, ForkRead, PruneRead, CloneReadSource, CaptureFull, CaptureSubdir, ForkLocked,
     ForkCapture, ForkWriteStamp, CloneReadTarget, CaptureFails,
     ForkCloneFails, ForkSetupFails, IndexFails, Crash, Pop, IndexComp, Finalized, WriteStamp,
     UpdateBegin, ForkedFrames, NextFork, FinishJob
<1>2. UpdateEnd => worker.at = f \/ meta'[f] = meta[f]
  BY DEF UpdateEnd, WriteAndUnlock, TypeOK
<1>3. \A g \in Forks : ForkWriteSidecar(g) => g = f \/ meta'[f] = meta[f]
  BY DEF ForkWriteSidecar, TypeOK
<1>4. \A x \in Frame : TaintEnd(x) => x = f \/ meta'[f] = meta[f]
  BY DEF TaintEnd, WriteAndUnlock, TypeOK
<1>5. \A x \in Frame : HistoryWrite(x) => x = f \/ meta'[f] = meta[f]
  BY DEF HistoryWrite, TypeOK
<1> QED BY <1>1, <1>2, <1>3, <1>4, <1>5

LEMMA RmwChange ==
    ASSUME TypeOK, [Main]_vars, NEW f \in Frame
    PROVE  \/ rmw'[f] = rmw[f]
           \/ rmw'[f] = None
           \/ \E t \in Taints : TaintBegin(f, t)
           \/ UpdateBegin /\ worker.at = f
<1>1. \/ rmw' = rmw \/ UpdateEnd \/ UpdateBegin \/ Crash
      \/ \E x \in Frame : TaintEnd(x) \/ \E t \in Taints : TaintBegin(x, t)
  BY Zenon DEF Main, vars, Client, Handler, MainFailure, MainWorker, UserWrite, SnapFull, SnapSubdir, CaptureBegin,
     ForkRead, PruneRead, CloneReadSource, CaptureFull, CaptureSubdir, ForkLocked,
     ForkCapture, ForkWriteSidecar, ForkWriteStamp, CloneReadTarget, HistoryWrite, CaptureFails,
     ForkCloneFails, ForkSetupFails, IndexFails, Pop, IndexComp, Finalized, WriteStamp,
     ForkedFrames, NextFork, FinishJob
<1>2. UpdateBegin => worker.at = f \/ rmw'[f] = rmw[f]
  BY DEF UpdateBegin, LockAndRead, TypeOK
<1>3. UpdateEnd \/ Crash => rmw'[f] \in {rmw[f], None}
  BY DEF UpdateEnd, Crash, WriteAndUnlock, TypeOK
<1>4. \A x \in Frame, t \in Taints : TaintBegin(x, t) => x = f \/ rmw'[f] = rmw[f]
  BY DEF TaintBegin, LockAndRead, TypeOK
<1>5. \A x \in Frame : TaintEnd(x) => rmw'[f] \in {rmw[f], None}
  BY DEF TaintEnd, WriteAndUnlock, TypeOK
<1> QED BY <1>1, <1>2, <1>3, <1>4, <1>5

LEMMA EditChange ==
    ASSUME TypeOK, [Main]_vars, NEW f \in Frame
    PROVE  \/ edit'[f] = edit[f]
           \/ edit'[f] = None
           \/ \E j \in 1..Len(jobs) : PruneRead(f, j)
           \/ \E s \in Frame : CloneReadSource(f, s)
           \/ CloneReadTarget(f)
<1>1. \/ edit' = edit \/ Crash
      \/ \E x \in Frame : \/ \E j \in 1..Len(jobs) : PruneRead(x, j)
                          \/ \E s \in Frame : CloneReadSource(x, s)
                          \/ CloneReadTarget(x) \/ HistoryWrite(x)
  BY Zenon DEF Main, vars, Client, Handler, MainFailure, MainWorker, UserWrite, SnapFull, SnapSubdir, CaptureBegin,
     TaintBegin, ForkRead, CaptureFull, CaptureSubdir, ForkLocked,
     ForkCapture, ForkWriteSidecar, ForkWriteStamp, TaintEnd, CaptureFails,
     ForkCloneFails, ForkSetupFails, IndexFails, Pop, IndexComp, Finalized, WriteStamp, UpdateBegin,
     UpdateEnd, ForkedFrames, NextFork, FinishJob
<1>2. Crash => edit'[f] = None
  BY DEF Crash
<1>3. \A x \in Frame, j \in 1..Len(jobs) : PruneRead(x, j) => x = f \/ edit'[f] = edit[f]
  BY DEF PruneRead, TypeOK
<1>4. \A x, s \in Frame : CloneReadSource(x, s) => x = f \/ edit'[f] = edit[f]
  BY DEF CloneReadSource, TypeOK
<1>5. \A x \in Frame : CloneReadTarget(x) => x = f \/ edit'[f] = edit[f]
  BY DEF CloneReadTarget, TypeOK
<1>6. \A x \in Frame : HistoryWrite(x) => edit'[f] \in {edit[f], None}
  BY DEF HistoryWrite, TypeOK
<1> QED BY <1>1, <1>2, <1>3, <1>4, <1>5, <1>6

LEMMA ForkChange ==
    ASSUME TypeOK, LocalsOK, [Main]_vars, NEW g \in Forks
    PROVE  \/ fork'[g] = fork[g]
           \/ \E f \in Frame : ForkRead(g, f)
           \/ fork[g].pc = "read" /\ fork'[g] = NoFork
           \/ /\ ForkLocked /\ qmu.to = g /\ fork[g].pc = "read"
              /\ fork'[g] = [fork[g] EXCEPT !.pc = "sidecar", !.job = Len(jobs) + 1]
           \/ /\ ForkCloneFails /\ qmu.to = g /\ fork[g].pc = "read"
              /\ fork'[g] = [fork[g] EXCEPT !.pc = "failed", !.job = Len(jobs) + 1]
           \/ /\ fork[g].pc \in {"read", "sidecar", "stamp"}
              /\ fork'[g] = [fork[g] EXCEPT !.pc = "failed"]
           \/ ForkWriteSidecar(g)
           \/ ForkWriteStamp(g)
<1>0. qmu # None => qmu.to \in Forks \cup {None}
  BY DEF TypeOK, QmuType
<1>1. \/ fork' = fork \/ Crash \/ CaptureFails \/ ForkLocked \/ ForkCloneFails
      \/ \E x \in Forks : \/ \E f \in Frame : ForkRead(x, f)
                          \/ ForkWriteSidecar(x) \/ ForkWriteStamp(x) \/ ForkSetupFails(x)
  BY Zenon DEF Main, vars, Client, Handler, MainFailure, MainWorker, UserWrite, SnapFull, SnapSubdir, CaptureBegin,
     TaintBegin, PruneRead, CloneReadSource, CaptureFull, CaptureSubdir,
     ForkCapture, TaintEnd, CloneReadTarget, HistoryWrite,
     IndexFails, Pop, IndexComp, Finalized, WriteStamp, UpdateBegin,
     UpdateEnd, ForkedFrames, NextFork, FinishJob
<1>2. CASE Crash
  BY <1>2 DEF Crash, TypeOK
<1>3. CASE CaptureFails
  BY <1>0, <1>3 DEF CaptureFails, TypeOK, LocalsOK
<1>4. CASE ForkLocked
  BY <1>0, <1>4 DEF ForkLocked, TypeOK, LocalsOK
<1>5. CASE ForkCloneFails
  BY <1>0, <1>5 DEF ForkCloneFails, TypeOK, LocalsOK
<1>6. \A x \in Forks, f \in Frame : ForkRead(x, f) => x = g \/ fork'[g] = fork[g]
  BY DEF ForkRead, TypeOK
<1>7. \A x \in Forks : ForkWriteSidecar(x) \/ ForkWriteStamp(x) => x = g \/ fork'[g] = fork[g]
  BY DEF ForkWriteSidecar, ForkWriteStamp, TypeOK
<1>8. \A x \in Forks : ForkSetupFails(x) =>
           \/ fork'[g] = fork[g]
           \/ fork[g].pc = "sidecar" /\ fork'[g] = [fork[g] EXCEPT !.pc = "failed"]
  BY DEF ForkSetupFails, TypeOK
<1> QED BY <1>1, <1>2, <1>3, <1>4, <1>5, <1>6, <1>7, <1>8

LEMMA QmuChange ==
    ASSUME TypeOK, [Main]_vars
    PROVE  \/ qmu' = qmu
           \/ qmu' = None
           \/ \E f \in Frame : \/ SnapFull(f) \/ SnapSubdir(f)
                               \/ \E g \in Forks : ForkCapture(g) /\ fork[g].src = f
<1>1. \/ qmu' \in {qmu, None} \/ (\E f \in Frame : SnapFull(f) \/ SnapSubdir(f))
      \/ \E g \in Forks : ForkCapture(g)
  BY Zenon DEF Main, vars, Client, Handler, MainFailure, MainWorker, UserWrite,
     TaintBegin, ForkRead, PruneRead, CloneReadSource, CaptureFull, CaptureSubdir, ForkLocked, Enqueue,
     ForkWriteSidecar, ForkWriteStamp, TaintEnd, CloneReadTarget, HistoryWrite, CaptureFails,
     ForkCloneFails, ForkSetupFails, IndexFails, Crash, Pop, IndexComp, Finalized, WriteStamp, UpdateBegin,
     UpdateEnd, ForkedFrames, NextFork, FinishJob
<1>2. \A g \in Forks : ForkCapture(g) => fork[g].src \in Frame
  BY DEF ForkCapture, TypeOK, ForkType
<1> QED BY <1>1, <1>2

LEMMA QueueChange ==
    ASSUME [Main]_vars
    PROVE  \/ UNCHANGED <<jobs, pending>> \/ Capture \/ Result \/ Pop \/ Crash
BY Zenon DEF Main, vars, Client, Handler, MainFailure, MainWorker, UserWrite, SnapFull, SnapSubdir, CaptureBegin,
   TaintBegin, ForkRead, PruneRead, CloneReadSource, Capture, Result,
   ForkCapture, ForkWriteSidecar, ForkWriteStamp, TaintEnd, CloneReadTarget, HistoryWrite, CaptureFails,
   ForkSetupFails, IndexComp, WriteStamp, UpdateBegin, UpdateEnd, ForkedFrames, NextFork

LEMMA WorkerChange ==
    ASSUME [Main]_vars
    PROVE  \/ worker' = worker
           \/ Crash \/ Pop \/ Result
           \/ \E k \in AnyKind : IndexComp(k)
           \/ WriteStamp \/ UpdateBegin \/ UpdateEnd \/ ForkedFrames
           \/ \E f \in Frame : NextFork(f)
BY DEF Main, vars, Client, Handler, MainFailure, MainWorker, UserWrite, SnapFull, SnapSubdir, CaptureBegin,
   TaintBegin, ForkRead, PruneRead, CloneReadSource, CaptureFull, CaptureSubdir, ForkLocked, Result,
   ForkCapture, ForkWriteSidecar, ForkWriteStamp, TaintEnd, CloneReadTarget, HistoryWrite, CaptureFails,
   ForkCloneFails, ForkSetupFails

LEMMA PendingChange ==
    ASSUME [Main]_vars
    PROVE  framePendingSnap' = framePendingSnap \/ Capture \/ FinishJob \/ Crash
BY Zenon DEF Main, vars, Client, Handler, MainFailure, MainWorker, UserWrite, SnapFull, SnapSubdir, CaptureBegin,
   TaintBegin, ForkRead, PruneRead, CloneReadSource, Capture, CaptureSubdir, IndexFails, Pop, IndexComp,
   ForkCapture, ForkWriteSidecar, ForkWriteStamp, TaintEnd, CloneReadTarget, HistoryWrite, CaptureFails,
   ForkSetupFails, Finalized, WriteStamp, UpdateBegin, UpdateEnd, ForkedFrames, NextFork

LEMMA SnapMetaChange ==
    ASSUME [Main]_vars
    PROVE  snapMeta' = snapMeta \/ \E k \in AnyKind : IndexComp(k)
BY Zenon DEF Main, vars, Client, Handler, MainFailure, MainWorker, UserWrite, SnapFull, SnapSubdir, CaptureBegin,
   TaintBegin, ForkRead, PruneRead, CloneReadSource, CaptureFull, CaptureSubdir, ForkLocked,
   ForkCapture, ForkWriteSidecar, ForkWriteStamp, TaintEnd, CloneReadTarget, HistoryWrite, CaptureFails,
   ForkCloneFails, ForkSetupFails, IndexFails, Crash, Pop, Finalized, WriteStamp, UpdateBegin,
   UpdateEnd, ForkedFrames, NextFork, FinishJob

\* Indexing a component adds one published snap, or changes the taints of one.
LEMMA PublishEffect ==
    ASSUME QueueInv, NEW k \in AnyKind, IndexComp(k)
    PROVE  LET id == job.comps[k]
               new == PublishedMeta(id, ResolvedParent(worker.job, k), job.taints)
           IN  /\ id \in Content /\ snapMeta' = [snapMeta EXCEPT ![id] = new]
               /\ Published' = Published \cup {id}
               /\ \A s \in Published : snapMeta'[s].parent = snapMeta[s].parent
               /\ id \notin Published => snapMeta'[id].parent = ResolvedParent(worker.job, k)
               /\ \A s \in Content : s # id => snapMeta'[s] = snapMeta[s]
               /\ snapMeta'[id] = new
<1> DEFINE id == job.comps[k]
           new == PublishedMeta(id, ResolvedParent(worker.job, k), job.taints)
<1>1. id \in Content /\ new \in SnapMetaType
  BY IndexTypes DEF QueueInv
<1>2. snapMeta' = [snapMeta EXCEPT ![id] = new]
  BY DEF IndexComp
<1>3. new # None
  BY <1>1, NoneAssumption
<1>4. snapMeta \in [Content -> SnapMetaType \cup {None}]
  BY DEF QueueInv, TypeOK
<1>5. id \in Published => new.parent = snapMeta[id].parent
  BY <1>4 DEF PublishedMeta, Published, SnapMetaType
<1>6. id \notin Published => new.parent = ResolvedParent(worker.job, k)
  BY DEF PublishedMeta
<1> HIDE DEF new, id
<1>7. Published' = Published \cup {id}
  BY <1>1, <1>2, <1>3, <1>4 DEF Published
<1>8. Published \subseteq Content
  BY DEF Published
<1>9. snapMeta'[id] = new /\ \A s \in Content : s # id => snapMeta'[s] = snapMeta[s]
  BY <1>1, <1>2, <1>4
<1>10. \A s \in Published : snapMeta'[s].parent = snapMeta[s].parent
  BY <1>5, <1>8, <1>9
<1> QED BY <1>1, <1>2, <1>6, <1>7, <1>9, <1>10 DEF new, id

\* Jobs, published snaps, usable frames and taken jobs only ever grow.
LEMMA Growth ==
    ASSUME QueueInv, [Main]_vars
    PROVE  /\ DOMAIN jobs \subseteq DOMAIN jobs'
           /\ Published \subseteq Published' /\ Known \subseteq Known'
           /\ \A f \in Frame : Usable(f) => Usable(f)'
           /\ Taken \in Nat /\ Taken' \in Nat /\ Taken <= Taken'
<1>0. TypeOK /\ LocalsOK /\ QueueOrder
  BY DEF QueueInv
<1>1. Published \subseteq Published'
  <2>1. CASE snapMeta' = snapMeta
    BY <2>1 DEF Published
  <2> QED BY <2>1, SnapMetaChange, PublishEffect
<1>2. \A f \in Frame : Usable(f) => Usable(f)'
  <2> SUFFICES ASSUME NEW f \in Forks, fork[f].pc = "done" PROVE fork'[f].pc = "done"
    BY DEF Usable
  <2> QED BY Zenon, <1>0, ForkChange DEF ForkRead, ForkWriteSidecar, ForkWriteStamp
<1>3. Len(jobs) \in Nat /\ Len(pending) \in Nat /\ Len(pending) <= Len(jobs) /\ Taken \in Nat
  BY <1>0 DEF TypeOK, QueueOrder, Taken
<1>4. DOMAIN jobs \subseteq DOMAIN jobs' /\ Taken' \in Nat /\ Taken <= Taken'
  <2>1. CASE UNCHANGED <<jobs, pending>>
    BY <1>3, <2>1 DEF Taken
  <2>2. CASE Capture
    <3>1. PICK jb \in JobType : Enqueue(jb) /\ UNCHANGED worker
      BY <1>0, <2>2, CaptureEffect
    <3> QED BY <1>0, <1>3, <3>1, EnqueueEffect
  <2>3. CASE Result
    BY <1>0, <1>3, <2>3, ResultEffect
  <2>4. CASE Pop
    <3>1. jobs' = jobs /\ Len(pending') = Len(pending) - 1 /\ Len(pending) > 0
      BY <1>0, <1>3, <2>4 DEF Pop, TypeOK
    <3> QED BY <1>3, <3>1 DEF Taken
  <2>5. CASE Crash
    <3>1. jobs' = jobs /\ Len(pending') = 0
      BY <2>5 DEF Crash
    <3> QED BY <1>3, <3>1 DEF Taken
  <2> QED BY <2>1, <2>2, <2>3, <2>4, <2>5, QueueChange
<1> QED BY <1>1, <1>2, <1>3, <1>4 DEF Known

-----------------------------------------------------------------------------
(* Taints of deduplicated snaps.                                           *)

LEMMA TaintsStep ==
    ASSUME QueueInv, WritingInv, TaintsNotLaundered, [Next]_vars PROVE TaintsNotLaundered'
<1>0. TypeOK
  BY DEF QueueInv
<1>1. CASE snapMeta' = snapMeta
  BY <1>1 DEF TaintsNotLaundered, Inherits, Published
<1>2. ASSUME NEW k \in AnyKind, IndexComp(k)
      PROVE  TaintsNotLaundered'
  <2> DEFINE id == job.comps[k]
             new == PublishedMeta(id, ResolvedParent(worker.job, k), job.taints)
  <2>1. /\ id \in Content /\ Published' = Published \cup {id} /\ snapMeta'[id] = new
        /\ \A s \in Content : s # id => snapMeta'[s] = snapMeta[s]
    BY <1>2, PublishEffect
  <2>2. ASSUME new.json, NEW t \in Taints, \A T \in new.seen : t \in T
        PROVE  t \in new.taints
    <3>1. CASE id \notin Published
      BY <2>2, <3>1 DEF PublishedMeta
    <3>2. CASE id \in Published
      <4>1. snapMeta[id] \in SnapMetaType
        BY <1>0, <2>1, <3>2 DEF Published, TypeOK
      <4>2. /\ new.seen = snapMeta[id].seen \cup {job.taints}
            /\ new.taints = snapMeta[id].taints /\ new.json = snapMeta[id].json
        BY <3>2, <4>1 DEF PublishedMeta, SnapMetaType
      <4> QED BY <2>2, <3>2, <4>2 DEF TaintsNotLaundered, Inherits
    <3> QED BY <3>1, <3>2
  <2>3. Published \subseteq Content
    BY DEF Published
  <2> HIDE DEF id, new
  <2> QED BY <2>1, <2>2, <2>3 DEF TaintsNotLaundered, Inherits
<1>3. CASE WriteSnapMeta
  <2> DEFINE k == worker.writing
             id == job.comps[k]
             given == IndexedTaints(worker.job, k)
             old == snapMeta[id]
             new == snapMeta'[id]
  <2>1. /\ id \in Published /\ job.taints \in old.seen /\ Published \subseteq Content
    BY <1>3 DEF WriteSnapMeta, WritingInv, Published
  <2>2. old \in SnapMetaType
    BY <1>0, <2>1 DEF Published, TypeOK
  <2>3. /\ new.json /\ new.seen = old.seen /\ new.taints = WrittenTaints(old, given)
        /\ new = [old EXCEPT !.json = TRUE, !.taints = WrittenTaints(old, given)]
        /\ \A s \in Content : s # id => snapMeta'[s] = snapMeta[s]
    BY <1>0, <1>3, <2>1, <2>2 DEF WriteSnapMeta, TypeOK, SnapMetaType
  <2>4. job.taints # {} => given = job.taints
    BY DEF IndexedTaints, job
  <2>5. ASSUME NEW t \in Taints, \A T \in new.seen : t \in T
        PROVE  t \in new.taints
    <3>1. t \in job.taints /\ t \in given
      BY <2>1, <2>3, <2>4, <2>5
    <3>2. old.json => t \in old.taints
      BY <2>1, <2>3, <2>5 DEF TaintsNotLaundered, Inherits
    <3> QED BY <2>3, <3>1, <3>2 DEF WrittenTaints
  <2>6. Published' \subseteq Published
    <3> SUFFICES ASSUME NEW s \in Content, snapMeta'[s] # None PROVE s \in Published
      BY DEF Published
    <3>1. CASE s = id
      BY <2>1, <3>1
    <3> QED BY <2>3, <3>1 DEF Published
  <2> HIDE DEF id, new, given, old
  <2>7. new = snapMeta'[id]
    BY DEF new
  <2> QED BY <2>1, <2>3, <2>5, <2>6, <2>7 DEF TaintsNotLaundered, Inherits
<1>4. CASE SnapMetaUnwritten \/ ClientStalls
  BY <1>1, <1>4 DEF SnapMetaUnwritten, ClientStalls
<1> QED BY <1>1, <1>2, <1>3, <1>4, NextSplit, SnapMetaChange DEF Aside

-----------------------------------------------------------------------------
(* References to published snaps: RefsInv.                                 *)

\* MetaKnown, with the known IDs and the jobs as parameters.
KnownIn(m, K, D) ==
    m # None => /\ \A k \in Kinds : m.snap[k] \in K
                /\ \A a \in DOMAIN m.history : m.history[a] \in D

LEMMA MetaKnownDef == \A m : MetaKnown(m) <=> KnownIn(m, Known, DOMAIN jobs)
BY DEF MetaKnown, KnownIn

\* Metadata that is known stays known.
LEMMA KnownGrows ==
    ASSUME NEW m, NEW K, NEW L, NEW D, NEW E, K \subseteq L, D \subseteq E, KnownIn(m, K, D)
    PROVE  KnownIn(m, L, E)
BY DEF KnownIn

LEMMA EmptyMetaKnown ==
    ASSUME NEW K, NEW D, NoSnap \in K
    PROVE  KnownIn(EmptyMeta, K, D)
BY DEF KnownIn, EmptyMeta

LEMMA AddTaintKnown ==
    ASSUME NEW f \in Frame, NEW m \in MetaType, NEW t, NEW K, NEW D, m # None, KnownIn(m, K, D), stamp[f] \in K
    PROVE  KnownIn(AddTaint(f, m, t), K, D)
<1>1. PICK x : x = AddTaint(f, m, t)
  OBVIOUS
<1>2. x.history = m.history /\ \A k \in Kinds : x.snap[k] \in {m.snap[k], stamp[f]}
  BY <1>1 DEF AddTaint, MetaType
<1> QED BY <1>1, <1>2 DEF KnownIn

\* The entries of a history with a job put in front.
LEMMA Prepend ==
    ASSUME NEW j \in Nat, NEW h \in Seq(Nat)
    PROVE  /\ <<j>> \o h \in Seq(Nat)
           /\ (<<j>> \o h)[1] = j /\ 1 \in DOMAIN (<<j>> \o h)
           /\ \A a \in DOMAIN (<<j>> \o h) :
                 a = 1 \/ (a \in Nat /\ a > 1 /\ a - 1 \in DOMAIN h /\ (<<j>> \o h)[a] = h[a - 1])
           /\ \A a \in DOMAIN h : a + 1 \in DOMAIN (<<j>> \o h) /\ (<<j>> \o h)[a + 1] = h[a]
<1>1. PICK x : x = <<j>> \o h
  OBVIOUS
<1>2. x \in Seq(Nat) /\ Len(x) = Len(h) + 1 /\ Len(h) \in Nat
  BY <1>1
<1>3. \A a \in 1..Len(x) : x[a] = IF a <= 1 THEN <<j>>[a] ELSE h[a - 1]
  BY <1>1, <1>2
<1>4. DOMAIN x = 1..(Len(h) + 1) /\ DOMAIN h = 1..Len(h)
  BY <1>2
<1> QED BY <1>1, <1>2, <1>3, <1>4

LEMMA RecordSnapKnown ==
    ASSUME NEW m \in MetaType, NEW j \in Nat, NEW fin, NEW K, NEW D, m # None, KnownIn(m, K, D),
           j \in D, \A k \in DOMAIN fin : fin[k] \in K
    PROVE  KnownIn(RecordSnap(m, j, fin), K, D)
<1>1. PICK x : x = RecordSnap(m, j, fin)
  OBVIOUS
<1>2. /\ x.history = <<j>> \o m.history
      /\ x.snap = [k \in Kinds |-> IF k \in DOMAIN fin THEN fin[k] ELSE m.snap[k]]
  BY <1>1 DEF RecordSnap, MetaType
<1>3. \A a \in DOMAIN x.history : x.history[a] \in D
  <2>1. m.history \in Seq(Nat)
    BY DEF MetaType
  <2>2. PICK h \in Seq(Nat) : h = m.history
    BY <2>1
  <2>3. PICK y : y = <<j>> \o h
    OBVIOUS
  <2>4. y[1] = j /\ \A a \in DOMAIN y : a = 1 \/ (a - 1 \in DOMAIN h /\ y[a] = h[a - 1])
    BY <2>3, Prepend
  <2>5. \A a \in DOMAIN h : h[a] \in D
    BY <2>2 DEF KnownIn
  <2>6. \A a \in DOMAIN y : y[a] \in D
    BY <2>4, <2>5
  <2> QED BY <1>2, <2>2, <2>3, <2>6
<1>4. \A k \in Kinds : x.snap[k] \in K
  BY <1>2 DEF KnownIn
<1> QED BY <1>1, <1>3, <1>4 DEF KnownIn

\* The parent a component is published with is known.
LEMMA ResolvedKnown ==
    ASSUME QueueInv, RefsInv, NEW k \in AnyKind, IndexComp(k)
    PROVE  ResolvedParent(worker.job, k) \in Known
<1>1. worker.job \in DOMAIN jobs /\ job = jobs[worker.job] /\ Waiting(worker.job)
      /\ DOMAIN jobs = 1..Len(jobs)
  BY WorkerJobDomain, JobsDomain DEF IndexComp, QueueInv, Waiting, IsWaiting
<1>2. k \in DOMAIN job.parentSnap
  BY <1>1 DEF IndexComp, NextComp, QueueInv, LocalsOK
<1>3. job.parentJob # 0 => job.parentJob \in DOMAIN jobs
  BY <1>1, JobsDomain DEF QueueInv, ChainOrder
<1> QED BY <1>1, <1>2, <1>3 DEF ResolvedParent, RefsInv, Known

\* The worker's results once a component is indexed.
LEMMA IndexedFin ==
    ASSUME TypeOK, NEW k \in AnyKind, IndexComp(k)
    PROVE  /\ worker'.pc = "index" /\ worker.pc = "index" /\ worker'.job = worker.job
           /\ worker'.at = worker.at /\ worker'.forks = worker.forks
           /\ DOMAIN worker'.fin = DOMAIN worker.fin \cup {k}
           /\ \A x \in DOMAIN worker'.fin : worker'.fin[x] = IF x = k THEN job.comps[k] ELSE worker.fin[x]
BY DEF IndexComp, TypeOK, WorkerType

\* The worker's record fields in every other step.
LEMMA WorkerFields ==
    ASSUME TypeOK, [Main]_vars
    PROVE  \/ /\ worker'.pc = "idle" /\ worker'.fin = <<>> /\ worker'.forks = {}
              /\ FinishJob \/ Crash
           \/ /\ worker'.pc = "index" /\ worker'.fin = <<>> /\ worker'.forks = {}
              /\ Pop /\ worker'.job = Head(pending)
           \/ \E k \in AnyKind : IndexComp(k)
           \/ /\ worker'.fin = worker.fin /\ worker'.job = worker.job
              /\ (worker'.pc = "idle") <=> (worker.pc = "idle")
<1>1. CASE Crash \/ FinishJob
  BY <1>1 DEF Crash, FinishJob, IdleWorker
<1>2. CASE Pop
  BY <1>2 DEF Pop, IdleWorker
<1>3. CASE Finalized \/ \E k \in AnyKind : IndexFails(k)
  BY <1>3 DEF Finalized, IndexFails, TypeOK, WorkerType
<1>4. CASE WriteStamp \/ UpdateBegin \/ UpdateEnd \/ ForkedFrames \/ \E f \in Frame : NextFork(f)
  BY Zenon, <1>4 DEF WriteStamp, UpdateBegin, UpdateEnd, ForkedFrames, NextFork, TypeOK, WorkerType
<1> QED BY <1>1, <1>2, <1>3, <1>4, WorkerChange DEF Result

LEMMA RefsStep ==
    ASSUME QueueInv, RefsInv, [Main]_vars PROVE RefsInv'
<1>0. TypeOK /\ LocalsOK /\ QueueOrder /\ ChainOrder
  BY DEF QueueInv
<1>1. PICK K, L, D, E : K = Known /\ L = Known' /\ D = DOMAIN jobs /\ E = DOMAIN jobs'
  OBVIOUS
<1>2. K \subseteq L /\ D \subseteq E /\ Published \subseteq Published' /\ NoSnap \in K /\ NoSnap \in L
  BY <1>1, Growth DEF Known
<1>3. \A m : KnownIn(m, K, D) => KnownIn(m, L, E)
  BY <1>2, KnownGrows
<1>4. /\ \A f \in Frame : stamp[f] \in K /\ KnownIn(meta[f], K, D)
      /\ \A f \in Frame : rmw[f] # None => KnownIn(rmw[f].read, K, D)
      /\ \A f \in Frame : edit[f] # None =>
           KnownIn(edit[f].read, K, D) /\ \A a \in DOMAIN edit[f].hist : edit[f].hist[a] \in D
      /\ \A g \in Forks : KnownIn(fork[g].clone, K, D)
      /\ qmu # None => KnownIn(qmu.read, K, D)
  BY <1>1, MetaKnownDef DEF RefsInv
<1>5. \A k \in DOMAIN worker.fin : worker.fin[k] \in Published /\ worker.fin[k] \in K
  BY <1>1 DEF RefsInv, Known
<1>6. \A f \in Frame : stamp'[f] \in L
  <2> TAKE f \in Frame
  <2>1. CASE WriteStamp /\ worker.at = f
    <3>1. "root" \in DOMAIN worker.fin
      BY <1>0, <2>1, WorkerJobDomain, JobsDomain DEF WriteStamp, LocalsOK
    <3> QED BY <1>0, <1>2, <1>5, <2>1, <3>1 DEF WriteStamp, TypeOK
  <2>2. CASE f \in Forks /\ ForkWriteStamp(f)
    <3>1. fork[f].clone \in MetaType /\ fork[f].clone # None
      BY <1>0, <2>2, NoneAssumption DEF ForkWriteStamp, TypeOK, ForkType
    <3> QED BY <1>0, <1>2, <1>4, <2>2, <3>1 DEF ForkWriteStamp, TypeOK, KnownIn, Kinds
  <2> QED BY <1>0, <1>2, <1>4, <2>1, <2>2, StampChange
<1>7. \A f \in Frame : KnownIn(meta'[f], L, E)
  <2> TAKE f \in Frame
  <2>1. CASE TaintEnd(f)
    <3>1. rmw[f].read \in MetaType /\ rmw[f].read # None /\ rmw[f] # None
      BY <1>0, <2>1, NoneAssumption DEF TaintEnd, TypeOK, RmwType
    <3>2. KnownIn(AddTaint(f, rmw[f].read, rmw[f].taint), K, D)
      BY <1>4, <3>1, AddTaintKnown
    <3>3. meta'[f] = AddTaint(f, rmw[f].read, rmw[f].taint)
      BY <1>0, <2>1 DEF TaintEnd, WriteAndUnlock, TypeOK
    <3> QED BY <1>3, <3>2, <3>3
  <2>2. CASE HistoryWrite(f)
    <3>1. edit[f].read \in MetaType /\ edit[f].read # None /\ edit[f] # None
      BY <1>0, <2>2, NoneAssumption DEF HistoryWrite, TypeOK, EditType
    <3>2. meta'[f] = [edit[f].read EXCEPT !.history = edit[f].hist]
      BY <1>0, <2>2 DEF HistoryWrite, TypeOK
    <3>3. meta'[f].snap = edit[f].read.snap /\ meta'[f].history = edit[f].hist
      BY <3>1, <3>2 DEF MetaType
    <3>4. KnownIn(meta'[f], K, D)
      BY <1>4, <3>1, <3>3 DEF KnownIn
    <3> QED BY <1>3, <3>4
  <2>3. CASE UpdateEnd /\ worker.at = f
    <3>1. rmw[f].read \in MetaType /\ rmw[f].read # None /\ rmw[f] # None
      BY <1>0, <2>3, NoneAssumption DEF UpdateEnd, LocalsOK, TypeOK, RmwType
    <3>2. worker.job \in Nat /\ worker.job \in D
      BY <1>0, <1>1, <2>3, WorkerJobDomain DEF UpdateEnd, TypeOK, WorkerType
    <3>3. KnownIn(RecordSnap(rmw[f].read, worker.job, worker.fin), K, D)
      BY <1>4, <1>5, <3>1, <3>2, RecordSnapKnown
    <3>4. meta'[f] = RecordSnap(rmw[f].read, worker.job, worker.fin)
      BY <1>0, <2>3 DEF UpdateEnd, WriteAndUnlock, TypeOK
    <3> QED BY <1>3, <3>3, <3>4
  <2>4. CASE f \in Forks /\ ForkWriteSidecar(f)
    BY <1>0, <1>3, <1>4, <2>4 DEF ForkWriteSidecar, TypeOK
  <2> QED BY <1>0, <1>3, <1>4, <2>1, <2>2, <2>3, <2>4, MetaChange
<1>8. ASSUME NEW f \in Frame, rmw'[f] # None
      PROVE  KnownIn(rmw'[f].read, L, E)
  <2>1. CASE (\E t \in Taints : TaintBegin(f, t)) \/ (UpdateBegin /\ worker.at = f)
    <3>1. rmw'[f].read = IF meta[f] = None THEN EmptyMeta ELSE meta[f]
      BY <1>0, <2>1 DEF TaintBegin, UpdateBegin, LockAndRead, TypeOK
    <3> QED BY <1>2, <1>3, <1>4, <3>1, EmptyMetaKnown
  <2> QED BY <1>0, <1>3, <1>4, <1>8, <2>1, RmwChange
<1>9. ASSUME NEW f \in Frame, edit'[f] # None
      PROVE  KnownIn(edit'[f].read, L, E) /\ \A a \in DOMAIN edit'[f].hist : edit'[f].hist[a] \in E
  <2>1. ASSUME NEW j \in 1..Len(jobs), PruneRead(f, j)
        PROVE  KnownIn(edit'[f].read, L, E) /\ \A a \in DOMAIN edit'[f].hist : edit'[f].hist[a] \in E
    <3>1. PICK h \in Shortened(meta[f].history) :
             edit' = [edit EXCEPT ![f] = [pc |-> "write", read |-> meta[f], hist |-> h]]
      BY <2>1 DEF PruneRead
    <3>2. edit'[f].read = meta[f] /\ edit'[f].hist = h /\ meta[f] # None
      BY <1>0, <2>1, <3>1 DEF TypeOK, PruneRead
    <3>3. \A a \in DOMAIN h : \E b \in DOMAIN meta[f].history : h[a] = meta[f].history[b]
      BY DEF Shortened
    <3>4. \A b \in DOMAIN meta[f].history : meta[f].history[b] \in D
      BY <1>4, <3>2 DEF KnownIn
    <3> QED BY <1>2, <1>3, <1>4, <3>2, <3>3, <3>4
  <2>2. ASSUME NEW s \in Frame, CloneReadSource(f, s)
        PROVE  KnownIn(edit'[f].read, L, E) /\ \A a \in DOMAIN edit'[f].hist : edit'[f].hist[a] \in E
    <3>1. edit'[f].read = None /\ edit'[f].hist = meta[s].history /\ meta[s] # None
      BY <1>0, <2>2 DEF CloneReadSource, TypeOK
    <3>2. \A b \in DOMAIN meta[s].history : meta[s].history[b] \in D
      BY <1>4, <3>1 DEF KnownIn
    <3> QED BY <1>2, <3>1, <3>2 DEF KnownIn
  <2>3. CASE CloneReadTarget(f)
    <3>1. edit'[f].read = meta[f] /\ edit'[f].hist = edit[f].hist /\ edit[f] # None
      BY <1>0, <2>3 DEF CloneReadTarget, TypeOK, EditType
    <3> QED BY <1>2, <1>3, <1>4, <3>1
  <2>4. CASE edit'[f] = edit[f]
    BY <1>2, <1>3, <1>4, <1>9, <2>4
  <2> QED BY <1>0, <1>9, <2>1, <2>2, <2>3, <2>4, EditChange
<1>10. ASSUME NEW g \in Forks
       PROVE  KnownIn(fork'[g].clone, L, E)
  <2>1. ASSUME NEW f \in Frame, ForkRead(g, f)
        PROVE  KnownIn(fork'[g].clone, L, E)
    <3>1. fork'[g].clone = IF meta[f] = None THEN EmptyMeta ELSE meta[f]
      BY <1>0, <2>1 DEF ForkRead, TypeOK
    <3> QED BY <1>2, <1>3, <1>4, <3>1, EmptyMetaKnown
  <2>2. CASE fork'[g] = NoFork
    BY <2>2 DEF NoFork, KnownIn
  <2>3. CASE fork'[g].clone = fork[g].clone
    BY <1>3, <1>4, <2>3
  <2>4. fork[g] \in ForkType
    BY <1>0 DEF TypeOK
  <2>5. CASE ForkWriteSidecar(g) \/ ForkWriteStamp(g)
    <3>1. fork'[g].clone = fork[g].clone
      BY <1>0, <2>5 DEF ForkWriteSidecar, ForkWriteStamp, TypeOK, ForkType
    <3> QED BY <2>3, <3>1
  <2>6. ASSUME NEW p, NEW n, fork'[g] = [fork[g] EXCEPT !.pc = p, !.job = n]
                              \/ fork'[g] = [fork[g] EXCEPT !.pc = p]
        PROVE  fork'[g].clone = fork[g].clone
    BY <2>4, <2>6 DEF ForkType
  <2> QED BY Zenon, <1>0, <2>1, <2>2, <2>3, <2>5, <2>6, ForkChange
<1>11. ASSUME qmu' # None
       PROVE  KnownIn(qmu'.read, L, E)
  <2>1. CASE qmu' = qmu
    BY <1>3, <1>4, <1>11, <2>1
  <2>2. ASSUME NEW f \in Frame, NEW to, NEW sub, CaptureBegin(f, to, sub)
        PROVE  KnownIn(qmu'.read, L, E)
    <3>1. qmu'.read = meta[f]
      BY <2>2 DEF CaptureBegin
    <3> QED BY <1>3, <1>4, <3>1
  <2> QED BY <1>0, <1>11, <2>1, <2>2, QmuChange DEF SnapFull, SnapSubdir, ForkCapture
<1>12. \A k \in DOMAIN worker'.fin : worker'.fin[k] \in Published'
  <2>1. ASSUME NEW k \in AnyKind, IndexComp(k)
        PROVE  \A x \in DOMAIN worker'.fin : worker'.fin[x] \in Published'
    BY <1>0, <1>2, <1>5, <2>1, IndexedFin, PublishEffect
  <2>2. CASE worker'.fin = <<>>
    BY <2>2
  <2> QED BY <1>0, <1>2, <1>5, <2>1, <2>2, WorkerFields
<1>13. \A s \in Published' : snapMeta'[s].parent \in L
  <2>1. CASE snapMeta' = snapMeta
    BY <1>1, <1>2, <2>1 DEF RefsInv, Published
  <2>2. ASSUME NEW k \in AnyKind, IndexComp(k)
        PROVE  \A s \in Published' : snapMeta'[s].parent \in L
    <3>1. ResolvedParent(worker.job, k) \in K
      BY <1>1, <2>2, ResolvedKnown
    <3> QED BY <1>1, <1>2, <2>2, <3>1, PublishEffect DEF RefsInv
  <2> QED BY <2>1, <2>2, SnapMetaChange
<1>14. ASSUME NEW j \in E
       PROVE  /\ \A k \in DOMAIN jobs'[j].parentSnap : jobs'[j].parentSnap[k] \in L
              /\ \A k \in DOMAIN jobs'[j].finalized : jobs'[j].finalized[k] \in Published'
  <2>1. ASSUME NEW i \in D
        PROVE  /\ \A k \in DOMAIN jobs[i].parentSnap : jobs[i].parentSnap[k] \in L
               /\ \A k \in DOMAIN jobs[i].finalized : jobs[i].finalized[k] \in Published'
    BY <1>1, <1>2, <2>1 DEF RefsInv
  <2>2. CASE jobs' = jobs
    BY <1>1, <1>14, <2>1, <2>2
  <2>3. CASE Capture
    <3>1. PICK jb \in JobType :
             /\ Enqueue(jb) /\ UNCHANGED worker /\ qmu # None /\ qmu \in QmuType /\ jb.finalized = <<>>
             /\ jb = FullJob(qmu.frame, qmu.read) \/ jb.parentSnap = [k \in {"subdir"} |-> NoSnap]
      BY <1>0, <2>3, CaptureEffect
    <3>2. \A k \in DOMAIN jb.parentSnap : jb.parentSnap[k] \in K
      <4>1. CASE jb.parentSnap = [k \in {"subdir"} |-> NoSnap]
        BY <1>2, <4>1
      <4>2. CASE jb = FullJob(qmu.frame, qmu.read)
        <5>1. /\ DOMAIN jb.parentSnap \subseteq Kinds
              /\ \A k \in DOMAIN jb.parentSnap : jb.parentSnap[k] = CapturedParent(qmu.frame, qmu.read, k)
          BY <4>2 DEF FullJob, NewJob, CapturedComps, Kinds
        <5>2. stamp[qmu.frame] \in K /\ Base \in K /\ KnownIn(qmu.read, K, D)
          BY <1>1, <1>4, <3>1 DEF QmuType, Known
        <5> QED BY <1>2, <5>1, <5>2 DEF CapturedParent, KnownIn
      <4> QED BY <3>1, <4>1, <4>2
    <3>3. E = D \cup {Len(jobs) + 1} /\ jobs'[Len(jobs) + 1] = jb /\ \A i \in D : jobs'[i] = jobs[i]
      BY <1>0, <1>1, <3>1, EnqueueEffect
    <3>4. DOMAIN jb.finalized = {}
      BY <3>1
    <3> QED BY <1>2, <1>14, <2>1, <3>2, <3>3, <3>4
  <2>4. CASE Result
    <3>1. /\ E = D /\ worker.job \in D /\ jobs'[j].parentSnap = jobs[j].parentSnap
          /\ jobs'[j].finalized = jobs[j].finalized \/ jobs'[j].finalized = worker.fin
      <4>1. E = D /\ worker.job \in D /\ jobs'[j].parentSnap = jobs[j].parentSnap
        BY <1>0, <1>1, <1>14, <2>4, ResultEffect
      <4>2. job \in JobType /\ job = jobs[worker.job]
        BY <1>0, <2>4, ResultEffect, WorkerJobDomain
      <4>3. CASE j # worker.job
        BY <1>0, <1>1, <2>4, <4>1, <4>3, ResultEffect
      <4>4. CASE j = worker.job
        <5>1. \/ jobs'[j] = [job EXCEPT !.finalized = worker.fin]
              \/ jobs'[j] = [job EXCEPT !.done = TRUE]
              \/ jobs'[j] = [job EXCEPT !.err = TRUE]
          BY <1>0, <2>4, <4>4, ResultEffect
        <5> QED BY <4>1, <4>2, <4>4, <5>1 DEF JobType
      <4> QED BY <4>1, <4>3, <4>4
    <3> QED BY <1>2, <1>5, <1>14, <2>1, <3>1
  <2> QED BY <2>2, <2>3, <2>4, QueueChange DEF Pop, Crash
<1>15. /\ \A f \in Frame : MetaKnown(meta[f])'
       /\ \A f \in Frame : rmw'[f] # None => MetaKnown(rmw[f].read)'
       /\ \A f \in Frame : edit'[f] # None => MetaKnown(edit[f].read)'
       /\ \A g \in Forks : MetaKnown(fork[g].clone)'
       /\ qmu' # None => MetaKnown(qmu.read)'
  BY <1>1, <1>7, <1>8, <1>9, <1>10, <1>11 DEF MetaKnown, KnownIn
<1> QED BY <1>1, <1>6, <1>9, <1>12, <1>13, <1>14, <1>15 DEF RefsInv

-----------------------------------------------------------------------------
(* Ancestry.                                                               *)

\* A snap is published with a parent published before it, so a set of snaps
\* closed under parent would have been closed before its newest member.
LEMMA AncestryStep ==
    ASSUME QueueInv, RefsInv, AncestryWellFounded, [Main]_vars PROVE AncestryWellFounded'
<1>1. CASE snapMeta' = snapMeta
  BY <1>1 DEF AncestryWellFounded, Published
<1>2. ASSUME NEW k \in AnyKind, IndexComp(k)
      PROVE  AncestryWellFounded'
  <2>1. PICK id : id = job.comps[k]
    OBVIOUS
  <2>2. /\ id \in Content /\ Published' = Published \cup {id}
        /\ \A s \in Published : snapMeta'[s].parent = snapMeta[s].parent
        /\ id \notin Published => snapMeta'[id].parent = ResolvedParent(worker.job, k)
    BY <1>2, <2>1, PublishEffect
  <2>3. id \notin Published => id \notin Known
    BY <2>2, ConstantsAssumption DEF Known
  <2>4. ResolvedParent(worker.job, k) \in Known /\ \A s \in Published : snapMeta[s].parent \in Known
    BY <1>2, ResolvedKnown DEF RefsInv
  <2> SUFFICES ASSUME NEW S \in SUBSET Published', S # {}
               PROVE  \E s \in S : snapMeta'[s].parent \notin S
    BY DEF AncestryWellFounded
  <2>5. CASE S \subseteq Published
    BY <2>2, <2>5 DEF AncestryWellFounded
  <2>6. CASE id \notin Published /\ S = {id}
    BY <2>2, <2>3, <2>4, <2>6
  <2>7. CASE id \notin Published /\ S \ {id} # {}
    <3>1. S \ {id} \in SUBSET Published
      BY <2>2
    <3>2. PICK s \in S \ {id} : snapMeta[s].parent \notin S \ {id}
      BY <2>7, <3>1 DEF AncestryWellFounded
    <3>3. snapMeta'[s].parent = snapMeta[s].parent /\ snapMeta[s].parent # id
      BY <2>2, <2>3, <2>4, <2>7, <3>1, <3>2
    <3> QED BY <3>2, <3>3
  <2> QED BY <2>2, <2>5, <2>6, <2>7
<1> QED BY <1>1, <1>2, SnapMetaChange

-----------------------------------------------------------------------------
(* Frames in the making, and what is pending for them.                     *)

\* A sidecar that exists stays.
LEMMA SidecarStays ==
    ASSUME TypeOK, LocalsOK, [Main]_vars, NEW f \in Frame, meta[f] # None
    PROVE  meta'[f] # None
<1>1. meta'[f] = meta[f] \/ meta'[f] \in MetaType
  <2>1. CASE TaintEnd(f)
    <3>1. rmw[f].read \in MetaType /\ rmw[f].taint \in Taints /\ stamp[f] \in SnapRef
      BY <2>1 DEF TaintEnd, TypeOK, RmwType
    <3>2. AddTaint(f, rmw[f].read, rmw[f].taint) \in MetaType
      BY <3>1 DEF AddTaint, MetaType, Kinds
    <3> QED BY <2>1, <3>2 DEF TaintEnd, WriteAndUnlock, TypeOK
  <2>2. CASE HistoryWrite(f)
    <3>1. edit[f].read \in MetaType /\ edit[f].hist \in Seq(Nat)
      BY <2>2 DEF HistoryWrite, TypeOK, EditType
    <3>2. [edit[f].read EXCEPT !.history = edit[f].hist] \in MetaType
      BY <3>1 DEF MetaType
    <3> QED BY <2>2, <3>2 DEF HistoryWrite, TypeOK
  <2>3. CASE UpdateEnd /\ worker.at = f
    <3>1. rmw[f].read \in MetaType /\ worker.fin \in PartialFun(Content) /\ worker.job \in Nat
      BY <2>3 DEF UpdateEnd, LocalsOK, TypeOK, RmwType, WorkerType
    <3>2. RecordSnap(rmw[f].read, worker.job, worker.fin) \in MetaType
      BY <3>1, RecordSnapType
    <3> QED BY <2>3, <3>2 DEF UpdateEnd, WriteAndUnlock, TypeOK
  <2>4. CASE f \in Forks /\ ForkWriteSidecar(f)
    BY <2>4 DEF ForkWriteSidecar, TypeOK, ForkType
  <2> QED BY <2>1, <2>2, <2>3, <2>4, MetaChange
<1> QED BY <1>1, NoneAssumption

LEMMA FramesStep ==
    ASSUME QueueInv, FramesInv, [Main]_vars PROVE FramesInv'
<1>0. TypeOK /\ LocalsOK /\ QueueOrder
  BY DEF QueueInv
<1>1. \A f \in Frame : Usable(f) => Usable(f)'
  BY Growth
<1>2. ASSUME qmu' # None
      PROVE  Usable(qmu.frame)' /\ qmu'.read # None
  <2>1. CASE qmu' = qmu
    <3>1. qmu.frame \in Frame /\ Usable(qmu.frame) /\ qmu.read # None
      BY <1>0, <1>2, <2>1 DEF FramesInv, TypeOK, QmuType
    <3> QED BY <1>1, <2>1, <3>1 DEF Usable
  <2>2. ASSUME NEW f \in Frame, NEW to, NEW sub, CaptureBegin(f, to, sub), Usable(f)
        PROVE  Usable(qmu.frame)' /\ qmu'.read # None
    <3>1. qmu'.frame = f /\ qmu'.read = meta[f] /\ meta[f] # None
      BY <2>2 DEF CaptureBegin, FramesInv
    <3> QED BY <1>1, <2>2, <3>1 DEF Usable
  <2>3. ASSUME NEW g \in Forks, ForkCapture(g)
        PROVE  Usable(fork[g].src)
    BY <2>3 DEF ForkCapture, FramesInv
  <2> QED BY <1>0, <1>2, <2>1, <2>2, <2>3, QmuChange DEF SnapFull, SnapSubdir, ForkCapture
<1>3. ASSUME NEW g \in Forks
      PROVE  /\ fork'[g].pc # "none" => Usable(fork[g].src)'
             /\ fork'[g].pc \in {"none", "read"} => fork'[g].job = 0
             /\ fork'[g].pc = "stamp" => meta'[g] # None
             /\ fork'[g].pc = "done" => meta'[g] # None
  <2>1. fork[g] \in ForkType /\ g \in Frame
    BY <1>0 DEF TypeOK, Frame
  <2>2. /\ fork[g].pc # "none" => Usable(fork[g].src) /\ fork[g].src \in Frame
        /\ fork[g].pc \in {"none", "read"} => fork[g].job = 0
        /\ fork[g].pc = "stamp" => meta[g] # None
        /\ fork[g].pc = "done" => meta[g] # None
    BY <2>1 DEF FramesInv, Usable, ForkType
  <2>3. meta[g] # None => meta'[g] # None
    BY <1>0, <2>1, SidecarStays
  <2>4. CASE fork'[g] = fork[g]
    BY <1>1, <2>2, <2>3, <2>4 DEF Usable
  <2>5. ASSUME NEW f \in Frame, ForkRead(g, f)
        PROVE  fork'[g].pc = "read" /\ fork'[g].src = f /\ fork'[g].job = 0 /\ Usable(f)
    BY <1>0, <2>5 DEF ForkRead, TypeOK
  <2>6. CASE fork'[g] = NoFork
    BY <2>6 DEF NoFork
  <2>7. CASE /\ ForkLocked /\ qmu.to = g /\ fork[g].pc = "read"
             /\ fork'[g] = [fork[g] EXCEPT !.pc = "sidecar", !.job = Len(jobs) + 1]
    <3>1. fork'[g].pc = "sidecar" /\ fork'[g].src = fork[g].src
      BY <2>1, <2>7 DEF ForkType
    <3> QED BY <1>1, <2>2, <2>7, <3>1 DEF Usable
  <2>8. CASE /\ fork[g].pc \in {"read", "sidecar", "stamp"}
             /\ fork'[g] = [fork[g] EXCEPT !.pc = "failed"]
    <3>1. fork'[g].pc = "failed" /\ fork'[g].src = fork[g].src
      BY <2>1, <2>8 DEF ForkType
    <3> QED BY <1>1, <2>2, <2>8, <3>1 DEF Usable
  <2>9. CASE ForkWriteSidecar(g)
    <3>1. /\ fork'[g].pc = "stamp" /\ fork'[g].src = fork[g].src /\ fork[g].pc = "sidecar"
          /\ meta'[g] = fork[g].clone /\ fork[g].clone \in MetaType
      BY <1>0, <2>1, <2>9 DEF ForkWriteSidecar, TypeOK, ForkType
    <3> QED BY <1>1, <2>2, <3>1, NoneAssumption DEF Usable
  <2>10. CASE ForkWriteStamp(g)
    <3>1. fork'[g].pc = "done" /\ fork'[g].src = fork[g].src /\ fork[g].pc = "stamp"
      BY <1>0, <2>1, <2>10 DEF ForkWriteStamp, TypeOK, ForkType
    <3> QED BY <1>1, <2>2, <2>3, <3>1 DEF Usable
  <2>11. CASE \E f \in Frame : ForkRead(g, f)
    <3>1. PICK f \in Frame : ForkRead(g, f)
      BY <2>11
    <3>2. fork'[g].pc = "read" /\ fork'[g].src = f /\ fork'[g].job = 0 /\ Usable(f)
      BY <2>5, <3>1
    <3> QED BY <1>1, <3>2 DEF Usable
  <2>12. CASE /\ fork[g].pc = "read"
              /\ fork'[g] = [fork[g] EXCEPT !.pc = "failed", !.job = Len(jobs) + 1]
    <3>1. fork'[g].pc = "failed" /\ fork'[g].src = fork[g].src
      BY <2>1, <2>12 DEF ForkType
    <3> QED BY <1>1, <2>2, <2>12, <3>1 DEF Usable
  <2> QED BY Zenon, <1>0, <2>4, <2>6, <2>7, <2>8, <2>9, <2>10, <2>11, <2>12, ForkChange
<1>4. \A j \in DOMAIN jobs' : Usable(jobs[j].frame)'
  <2>1. \A j \in DOMAIN jobs : Usable(jobs[j].frame) /\ jobs[j].frame \in Frame
    BY <1>0, JobsDomain DEF FramesInv, JobType
  <2>2. CASE jobs' = jobs
    BY <1>1, <2>1, <2>2 DEF Usable
  <2>3. CASE Capture
    <3>1. PICK jb \in JobType : Enqueue(jb) /\ UNCHANGED worker /\ qmu # None /\ jb.frame = qmu.frame
      BY <1>0, <2>3, CaptureEffect
    <3>2. Usable(jb.frame) /\ jb.frame \in Frame
      BY <3>1 DEF FramesInv, JobType
    <3>3. /\ DOMAIN jobs' = DOMAIN jobs \cup {Len(jobs) + 1} /\ jobs'[Len(jobs) + 1] = jb
          /\ \A j \in DOMAIN jobs : jobs'[j] = jobs[j]
      BY <1>0, <3>1, EnqueueEffect
    <3>4. \A j \in DOMAIN jobs' : \E f \in Frame : jobs'[j].frame = f /\ Usable(f)
      BY <2>1, <3>2, <3>3
    <3> QED BY <1>1, <3>4 DEF Usable
  <2>4. CASE Result
    <3>1. DOMAIN jobs' = DOMAIN jobs /\ \A j \in DOMAIN jobs : jobs'[j].frame = jobs[j].frame
      BY <1>0, <2>4, ResultEffect
    <3> QED BY <1>1, <2>1, <3>1 DEF Usable
  <2> QED BY <2>2, <2>3, <2>4, QueueChange DEF Pop, Crash
<1>5. \A f \in Roots : meta'[f] # None
  BY <1>0, SidecarStays DEF FramesInv, Usable, Frame
<1> QED BY <1>2, <1>3, <1>4, <1>5 DEF FramesInv, Usable, Frame

\* The worker's steps, as what they do to its local variables.
LEMMA WorkerMoves ==
    ASSUME TypeOK, [Main]_vars
    PROVE  \/ worker' = worker
           \/ /\ FinishJob \/ Crash
              /\ worker'.pc = "idle" /\ worker'.forks = {} /\ worker'.fin = <<>>
           \/ Pop /\ worker'.pc = "index" /\ worker'.forks = {} /\ worker'.fin = <<>>
           \/ (\E k \in AnyKind : IndexComp(k))
              /\ worker.pc = "index" /\ worker'.pc = "index" /\ worker'.job = worker.job
              /\ worker'.forks = worker.forks
           \/ /\ worker'.job = worker.job /\ worker'.fin = worker.fin
              /\ \/ /\ Finalized /\ worker.pc = "index" /\ worker'.forks = worker.forks
                    /\ worker'.pc = (IF job.sub THEN "lock" ELSE "stamp") /\ worker'.at = job.frame
                 \/ /\ \E k \in AnyKind : IndexFails(k)
                    /\ worker.pc = "index" /\ worker'.pc = "finish" /\ worker'.forks = worker.forks
                 \/ /\ WriteStamp /\ worker.pc = "stamp" /\ worker'.pc = "lock"
                    /\ worker'.at = worker.at /\ worker'.forks = worker.forks
                 \/ /\ UpdateBegin /\ worker.pc = "lock" /\ worker'.pc = "meta"
                    /\ worker'.at = worker.at /\ worker'.forks = worker.forks
                 \/ /\ UpdateEnd /\ worker.pc = "meta"
                    /\ worker'.pc = (IF job.sub THEN "finish"
                                     ELSE IF worker.at = job.frame THEN "forks" ELSE "next")
                    /\ worker'.at = worker.at /\ worker'.forks = worker.forks
                 \/ /\ ForkedFrames /\ worker.pc = "forks" /\ worker'.pc = "next"
                    /\ worker'.forks = {f \in Frame \ {job.frame} : framePendingSnap[f] = worker.job}
                 \/ /\ \E f \in Frame : NextFork(f) /\ f \in worker.forks /\ worker'.at = f
                                        /\ worker'.forks = worker.forks \ {f}
                    /\ worker.pc = "next" /\ worker'.pc = "stamp"
<1>1. CASE Crash \/ FinishJob
  BY <1>1 DEF Crash, FinishJob, IdleWorker
<1>2. CASE Pop
  BY <1>2 DEF Pop, IdleWorker
<1>3. CASE Finalized
  BY <1>3 DEF Finalized, TypeOK, WorkerType
<1>4. CASE \E k \in AnyKind : IndexFails(k)
  BY <1>4 DEF IndexFails, TypeOK, WorkerType
<1>5. CASE WriteStamp
  BY <1>5 DEF WriteStamp, TypeOK, WorkerType
<1>6. CASE UpdateBegin
  BY <1>6 DEF UpdateBegin, TypeOK, WorkerType
<1>7. CASE UpdateEnd
  BY <1>7 DEF UpdateEnd, TypeOK, WorkerType
<1>8. CASE ForkedFrames
  BY <1>8 DEF ForkedFrames, TypeOK, WorkerType
<1>9. CASE \E f \in Frame : NextFork(f)
  BY Zenon, <1>9 DEF NextFork, TypeOK, WorkerType
<1>10. CASE \E k \in AnyKind : IndexComp(k)
  BY <1>10, IndexedFin
<1> QED BY <1>1, <1>2, <1>3, <1>4, <1>5, <1>6, <1>7, <1>8, <1>9, <1>10, WorkerChange DEF Result

\* The worker's job stays the same job while the worker is busy with it.
LEMMA SameJob ==
    ASSUME QueueInv, [Main]_vars, worker.pc # "idle", worker'.pc # "idle"
    PROVE  /\ worker'.job = worker.job /\ worker.job \in DOMAIN jobs
           /\ job = jobs[worker.job] /\ job' = jobs'[worker.job]
           /\ job'.frame = job.frame /\ job'.sub = job.sub /\ job'.comps = job.comps
           /\ ~Result => job' = job
<1>0. TypeOK /\ QueueOrder
  BY DEF QueueInv
<1>1. worker.job \in DOMAIN jobs /\ job = jobs[worker.job]
  BY <1>0, WorkerJobDomain
<1>2. worker'.job = worker.job
  BY <1>0, WorkerMoves DEF Pop
<1>3. job' = jobs'[worker.job]
  BY <1>2 DEF job
<1>4. CASE UNCHANGED <<jobs, pending>>
  BY <1>1, <1>2, <1>3, <1>4
<1>5. CASE Capture
  <2>1. PICK jb \in JobType : Enqueue(jb) /\ UNCHANGED worker
    BY <1>0, <1>5, CaptureEffect
  <2> QED BY <1>0, <1>1, <1>2, <1>3, <2>1, EnqueueEffect
<1>6. CASE Result
  BY <1>0, <1>1, <1>2, <1>3, <1>6, ResultEffect
<1> QED BY <1>1, <1>2, <1>3, <1>4, <1>5, <1>6, QueueChange DEF Pop, Crash, IdleWorker

\* The part of the invariant about metadata to be written.
LEMMA WritingStep ==
    ASSUME QueueInv, WritingInv, [Main]_vars PROVE WritingInv'
<1>0. TypeOK /\ LocalsOK /\ QueueOrder
  BY DEF QueueInv
<1>1. ASSUME NEW k \in AnyKind, IndexComp(k)
      PROVE  WritingInv'
  <2> DEFINE id == job.comps[k]
             new == PublishedMeta(id, ResolvedParent(worker.job, k), job.taints)
  <2>1. /\ id \in Content /\ Published' = Published \cup {id} /\ snapMeta'[id] = new
        /\ \A s \in Content : s # id => snapMeta'[s] = snapMeta[s]
    BY <1>1, PublishEffect
  <2>2. /\ jobs' = jobs /\ worker'.pc = "index" /\ worker'.job = worker.job /\ k \in DOMAIN job.comps
        /\ worker'.writing \in {k, "none"}
    BY <1>0, <1>1 DEF IndexComp, NextComp, TypeOK, WorkerType
  <2>3. job.taints \in new.seen /\ (~new.json => new.taints = {})
    <3>1. CASE id \notin Published
      BY <3>1 DEF PublishedMeta
    <3>2. CASE id \in Published
      <4>1. snapMeta[id] \in SnapMetaType
        BY <1>0, <2>1, <3>2 DEF Published, TypeOK
      <4>2. /\ new.seen = snapMeta[id].seen \cup {job.taints}
            /\ new.taints = snapMeta[id].taints /\ new.json = snapMeta[id].json
        BY <3>2, <4>1 DEF PublishedMeta, SnapMetaType
      <4> QED BY <3>2, <4>2 DEF WritingInv
    <3> QED BY <3>1, <3>2
  <2>4. job' = job
    BY <2>2 DEF job
  <2>5. Published \subseteq Content
    BY DEF Published
  <2> HIDE DEF new
  <2> QED BY <2>1, <2>2, <2>3, <2>4, <2>5 DEF WritingInv
<1>2. ASSUME ~\E k \in AnyKind : IndexComp(k)
      PROVE  WritingInv'
  <2>1. snapMeta' = snapMeta /\ Published' = Published
    BY <1>2, SnapMetaChange DEF Published
  <2>2. CASE worker'.writing = "none"
    BY <2>1, <2>2 DEF WritingInv
  <2>3. CASE worker'.writing # "none"
    <3>1. worker.writing # "none" => worker.pc = "index"
      BY DEF WritingInv
    <3>2. ~(Crash \/ Pop \/ FinishJob)
      <4>1. IdleWorker.writing = "none" /\ [IdleWorker EXCEPT !.pc = "index", !.job = Head(pending)].writing = "none"
        BY DEF IdleWorker
      <4> QED BY <2>3, <4>1 DEF Crash, Pop, FinishJob
    <3>3. ~(Finalized \/ \E k \in AnyKind : IndexFails(k))
      BY <1>0, <2>3 DEF Finalized, IndexFails, TypeOK, WorkerType
    <3>4. ~(WriteStamp \/ UpdateBegin \/ UpdateEnd \/ ForkedFrames)
      BY <1>0, <2>3, <3>1 DEF WriteStamp, UpdateBegin, UpdateEnd, ForkedFrames, TypeOK, WorkerType
    <3>5. ~\E f \in Frame : NextFork(f)
      BY <1>0, <2>3, <3>1 DEF NextFork, TypeOK, WorkerType
    <3>6. worker' = worker /\ ~Result
      BY <1>2, <3>2, <3>3, <3>4, <3>5, WorkerChange DEF Result
    <3>7. job' = job
      BY <2>3, <3>1, <3>6, SameJob
    <3> QED BY <2>1, <3>6, <3>7 DEF WritingInv
  <2> QED BY <2>2, <2>3
<1> QED BY <1>1, <1>2

\* No step makes a captured job wait that did not wait before.
LEMMA WaitingStep ==
    ASSUME QueueInv, [Main]_vars, NEW j \in DOMAIN jobs, WaitingNext(j)
    PROVE  Waiting(j)
<1>0. TypeOK /\ QueueOrder /\ ChainInv
  BY DEF QueueInv, ChainInv
<1>1. /\ jobs \in Seq(JobType) /\ pending \in Seq(Nat) /\ Len(jobs) \in Nat /\ Len(pending) \in Nat
      /\ j \in Nat /\ j <= Len(jobs)
  BY <1>0 DEF TypeOK
<1>2. CASE Capture
  <2>1. PICK jb \in JobType : Enqueue(jb) /\ UNCHANGED worker
    BY <1>0, <1>2, CaptureEffect
  <2>2. Len(jobs') = Len(jobs) + 1 /\ Len(pending') = Len(pending) + 1
    BY <1>1, <2>1 DEF Enqueue
  <2> QED BY <1>1, <2>1, <2>2 DEF Waiting, WaitingNext, IsWaiting
<1>3. CASE Pop
  <2>1. /\ Len(jobs') = Len(jobs) /\ Len(pending') = Len(pending) - 1 /\ Len(pending) > 0
        /\ worker'.job = pending[1]
    BY <1>1, <1>3 DEF Pop, IdleWorker
  <2>2. pending[1] = Len(jobs) - Len(pending) + 1
    BY <1>0, <1>1, <2>1 DEF QueueOrder
  <2> QED BY <1>1, <2>1, <2>2 DEF Waiting, WaitingNext, IsWaiting
<1>4. CASE Crash
  <2>1. Len(jobs') = Len(jobs) /\ Len(pending') = 0 /\ worker'.pc = "idle"
    BY <1>4 DEF Crash, IdleWorker
  <2> QED BY <1>1, <2>1 DEF Waiting, WaitingNext, IsWaiting
<1>5. CASE ~Capture /\ ~Pop /\ ~Crash
  <2>1. Len(jobs') = Len(jobs) /\ Len(pending') = Len(pending)
    BY <1>0, <1>5, QueueChange, ResultEffect
  <2>2. worker'.pc # "idle" => worker.pc # "idle" /\ worker'.job = worker.job
    BY <1>0, <1>5, WorkerMoves
  <2> QED BY <2>1, <2>2 DEF Waiting, WaitingNext, IsWaiting
<1> QED BY <1>2, <1>3, <1>4, <1>5

\* Where a capture records the new job as pending.
LEMMA CapturePending ==
    ASSUME QueueInv, Capture
    PROVE  /\ \A f \in Frame :
                 \/ framePendingSnap'[f] = framePendingSnap[f]
                 \/ /\ framePendingSnap'[f] = Len(jobs) + 1 /\ ~jobs'[Len(jobs) + 1].sub
                    /\ f = qmu.frame \/ (f \in Forks /\ fork'[f].job = Len(jobs) + 1)
           /\ jobs'[Len(jobs) + 1].frame = qmu.frame /\ qmu.frame \in Frame
           /\ ~jobs'[Len(jobs) + 1].sub => framePendingSnap'[qmu.frame] = Len(jobs) + 1
<1>0. TypeOK /\ QueueOrder /\ LocalsOK
  BY DEF QueueInv
<1>1. PICK jb \in JobType : /\ Enqueue(jb) /\ UNCHANGED worker /\ jb.frame = qmu.frame
                            /\ qmu # None /\ qmu \in QmuType
                            /\ jb.sub = FALSE \/ (jb.sub = TRUE /\ UNCHANGED framePendingSnap)
  BY <1>0, CaptureEffect
<1>2. jobs'[Len(jobs) + 1] = jb /\ qmu.frame \in Frame
  BY <1>0, <1>1, EnqueueEffect DEF QmuType
<1>3. CASE CaptureFull \/ ForkCloneFails
  <2>1. framePendingSnap' = [framePendingSnap EXCEPT ![qmu.frame] = Len(jobs) + 1]
    BY <1>3 DEF CaptureFull, ForkCloneFails
  <2>2. ~jb.sub
    <3>1. jb = FullJob(qmu.frame, qmu.read)
      <4>1. jobs'[Len(jobs) + 1] = FullJob(qmu.frame, qmu.read)
        BY <1>0, <1>3 DEF CaptureFull, ForkCloneFails, Enqueue, TypeOK
      <4> QED BY <1>2, <4>1
    <3> QED BY <3>1 DEF FullJob, NewJob
  <2> QED BY <1>0, <1>1, <1>2, <2>1, <2>2 DEF TypeOK
<1>4. CASE ForkLocked
  <2>1. /\ framePendingSnap' = [framePendingSnap EXCEPT ![qmu.frame] = Len(jobs) + 1,
                                                        ![qmu.to] = Len(jobs) + 1]
        /\ qmu.to \in Forks /\ fork'[qmu.to].job = Len(jobs) + 1 /\ qmu.to \in Frame
    <3>1. qmu.to \in Forks /\ fork[qmu.to].pc = "read" /\ qmu.to \in Frame
      BY <1>0, <1>1, <1>4 DEF ForkLocked, LocalsOK, QmuType, Frame
    <3>2. fork' = [fork EXCEPT ![qmu.to].pc = "sidecar", ![qmu.to].job = Len(jobs) + 1]
      BY <1>4 DEF ForkLocked
    <3>3. fork[qmu.to] \in ForkType /\ fork \in [Forks -> ForkType]
      BY <1>0, <3>1 DEF TypeOK
    <3>4. fork'[qmu.to] = [fork[qmu.to] EXCEPT !.pc = "sidecar", !.job = Len(jobs) + 1]
      BY <3>1, <3>2, <3>3
    <3>5. fork'[qmu.to].job = Len(jobs) + 1
      BY <3>3, <3>4 DEF ForkType
    <3> QED BY <1>4, <3>1, <3>5 DEF ForkLocked
  <2>2. ~jb.sub
    <3>1. jobs'[Len(jobs) + 1] = FullJob(qmu.frame, qmu.read)
      BY <1>0, <1>4 DEF ForkLocked, Enqueue, TypeOK
    <3> QED BY <1>2, <3>1 DEF FullJob, NewJob
  <2> QED BY <1>0, <1>1, <1>2, <2>1, <2>2 DEF TypeOK
<1>5. ASSUME NEW c \in Content, CaptureSubdir(c)
      PROVE  UNCHANGED framePendingSnap /\ jb.sub
  <2>1. PICK e : e = NewJob(qmu.frame, TRUE, [k \in {"subdir"} |-> c],
                            CapturedTaints(qmu.read), 0, [k \in {"subdir"} |-> NoSnap])
    OBVIOUS
  <2>2. jobs' = Append(jobs, e) /\ UNCHANGED framePendingSnap
    BY <1>5, <2>1 DEF CaptureSubdir, Enqueue
  <2>3. jobs'[Len(jobs) + 1] = e
    BY <1>0, <2>2 DEF TypeOK
  <2> QED BY <1>2, <2>1, <2>2, <2>3 DEF NewJob
<1> QED BY <1>1, <1>2, <1>3, <1>4, <1>5 DEF Capture

\* A fork's job, once set, stays.
LEMMA ForkJobStays ==
    ASSUME QueueInv, FramesInv, [Main]_vars, NEW g \in Forks, fork[g].job # 0
    PROVE  fork'[g].job = fork[g].job
<1>1. fork[g] \in ForkType /\ fork[g].pc \notin {"none", "read"}
  BY DEF QueueInv, TypeOK, FramesInv
<1>2. CASE ForkWriteSidecar(g) \/ ForkWriteStamp(g)
  BY <1>1, <1>2 DEF ForkWriteSidecar, ForkWriteStamp, QueueInv, TypeOK, ForkType
<1>3. CASE fork'[g] = [fork[g] EXCEPT !.pc = "failed"]
  BY <1>1, <1>3 DEF ForkType
<1> QED BY Zenon, <1>1, <1>2, <1>3, ForkChange DEF QueueInv, ForkRead

LEMMA PendingStep ==
    ASSUME QueueInv, FramesInv, PendingInv, [Main]_vars PROVE PendingInv'
<1>0. /\ TypeOK /\ QueueOrder /\ LocalsOK /\ PendingIsUnfinished
      /\ jobs \in Seq(JobType) /\ Len(jobs) \in Nat /\ DOMAIN jobs = 1..Len(jobs)
      /\ framePendingSnap \in [Frame -> Nat]
  BY JobsDomain DEF QueueInv, TypeOK
<1>1. \A f \in Frame : framePendingSnap[f] # 0 => framePendingSnap[f] \in DOMAIN jobs
  BY <1>0 DEF PendingIsUnfinished
<1>2. \A j \in DOMAIN jobs : jobs'[j].frame = jobs[j].frame /\ jobs'[j].sub = jobs[j].sub
  <2>1. CASE Capture
    <3>1. PICK jb \in JobType : Enqueue(jb) /\ UNCHANGED worker
      BY <1>0, <2>1, CaptureEffect
    <3> QED BY <1>0, <3>1, EnqueueEffect
  <2> QED BY <1>0, <2>1, QueueChange, ResultEffect DEF Pop, Crash
<1>3. \A f \in Frame : \/ framePendingSnap'[f] \in {framePendingSnap[f], 0}
                       \/ /\ Capture /\ framePendingSnap'[f] = Len(jobs) + 1
                          /\ ~jobs'[Len(jobs) + 1].sub
                          /\ \/ f = qmu.frame /\ f = jobs'[Len(jobs) + 1].frame
                             \/ f \in Forks /\ fork'[f].job = Len(jobs) + 1
  <2>1. CASE FinishJob \/ Crash
    BY <1>0, <2>1 DEF FinishJob, Crash
  <2>2. CASE Capture
    BY <2>2, CapturePending
  <2> QED BY <2>1, <2>2, PendingChange
<1>4. ASSUME NEW f \in Frame, framePendingSnap'[f] # 0
      PROVE  /\ ~jobs'[framePendingSnap'[f]].sub
             /\ \/ jobs'[framePendingSnap'[f]].frame = f
                \/ f \in Forks /\ framePendingSnap'[f] = fork'[f].job
  <2>1. CASE framePendingSnap'[f] = framePendingSnap[f]
    <3>1. /\ framePendingSnap[f] \in DOMAIN jobs /\ ~jobs[framePendingSnap[f]].sub
          /\ \/ jobs[framePendingSnap[f]].frame = f
             \/ f \in Forks /\ framePendingSnap[f] = fork[f].job
      BY <1>1, <1>4, <2>1 DEF PendingInv
    <3>2. f \in Forks /\ framePendingSnap[f] = fork[f].job => fork'[f].job = fork[f].job
      BY <1>4, <2>1, ForkJobStays
    <3> QED BY <1>2, <2>1, <3>1, <3>2
  <2> QED BY <1>3, <1>4, <2>1
<1>8. \A j \in DOMAIN jobs : jobs[j].frame \in Frame
  BY <1>0, JobsDomain DEF JobType
<1>5. ASSUME NEW j \in DOMAIN jobs', WaitingNext(j)
      PROVE  ~jobs'[j].done /\ (~jobs'[j].sub => framePendingSnap'[jobs'[j].frame] >= j)
  <2>1. CASE Capture
    <3>1. PICK jb \in JobType : Enqueue(jb) /\ UNCHANGED worker /\ jb.done = FALSE
      BY <1>0, <2>1, CaptureEffect
    <3>2. /\ DOMAIN jobs' = DOMAIN jobs \cup {Len(jobs) + 1} /\ jobs'[Len(jobs) + 1] = jb
          /\ \A i \in DOMAIN jobs : jobs'[i] = jobs[i]
      BY <1>0, <3>1, EnqueueEffect
    <3>3. CASE j = Len(jobs) + 1
      BY <1>0, <2>1, <3>1, <3>2, <3>3, CapturePending
    <3>4. CASE j \in DOMAIN jobs
      <4>1. Waiting(j)
        BY <1>5, <3>4, WaitingStep
      <4>2. /\ ~jobs[j].done /\ (~jobs[j].sub => framePendingSnap[jobs[j].frame] >= j)
            /\ jobs[j].frame \in Frame
        <5>1. jobs[j].frame \in Frame
          BY <1>8, <3>4
        <5> QED BY <3>4, <4>1, <5>1 DEF PendingInv
      <4>3. framePendingSnap'[jobs[j].frame] \in {framePendingSnap[jobs[j].frame], Len(jobs) + 1}
        BY <2>1, <4>2, CapturePending
      <4> QED BY <1>0, <3>2, <3>4, <4>2, <4>3
    <3> QED BY <3>2, <3>3, <3>4
  <2>2. CASE ~Capture
    <3>1. DOMAIN jobs' = DOMAIN jobs
      BY <1>0, <2>2, QueueChange, ResultEffect DEF Pop, Crash
    <3>2. Waiting(j) /\ j \in DOMAIN jobs
      BY <1>5, <3>1, WaitingStep
    <3>3. /\ ~jobs[j].done /\ (~jobs[j].sub => framePendingSnap[jobs[j].frame] >= j)
          /\ jobs[j].frame \in Frame /\ jobs'[j].frame = jobs[j].frame /\ jobs'[j].sub = jobs[j].sub
      <4>1. jobs[j].frame \in Frame /\ jobs'[j].frame = jobs[j].frame /\ jobs'[j].sub = jobs[j].sub
        BY <1>2, <1>8, <3>2
      <4> QED BY <3>2, <4>1 DEF PendingInv
    <3>4. CASE Crash
      <4>1. Len(jobs') = Len(jobs) /\ Len(pending') = 0 /\ worker'.pc = "idle"
        BY <3>4 DEF Crash, IdleWorker
      <4> QED BY <1>0, <1>5, <3>2, <4>1 DEF WaitingNext, IsWaiting
    <3>5. CASE FinishJob
      <4>1. j # worker.job /\ j > worker.job
        <5>1. /\ Len(jobs') = Len(jobs) /\ pending' = pending /\ worker'.pc = "idle" /\ worker.pc # "idle"
              /\ worker.job = Len(jobs) - Len(pending)
          BY <1>0, <3>5, ResultEffect DEF FinishJob, IdleWorker, Result, QueueOrder
        <5> QED BY <1>0, <1>5, <3>2, <5>1 DEF WaitingNext, IsWaiting, TypeOK
      <4>2. jobs'[j] = jobs[j]
        BY <1>0, <3>2, <3>5, <4>1, ResultEffect DEF Result
      <4>3. framePendingSnap'[jobs[j].frame] = IF framePendingSnap[jobs[j].frame] = worker.job THEN 0
                                               ELSE framePendingSnap[jobs[j].frame]
        BY <3>3, <3>5 DEF FinishJob
      <4>4. worker.job \in Nat /\ framePendingSnap[jobs[j].frame] \in Nat
        BY <1>0, <3>3 DEF TypeOK, WorkerType
      <4> QED BY <1>0, <3>2, <3>3, <4>1, <4>2, <4>3, <4>4
    <3>6. CASE ~Crash /\ ~FinishJob
      <4>1. framePendingSnap' = framePendingSnap
        BY <2>2, <3>6, PendingChange
      <4>2. jobs'[j].done = jobs[j].done
        <5>1. CASE Result
          <6>1. \/ jobs'[j] = jobs[j]
                \/ /\ j = worker.job
                   /\ \/ jobs'[j] = [job EXCEPT !.finalized = worker.fin]
                      \/ jobs'[j] = [job EXCEPT !.err = TRUE]
            BY <1>0, <3>2, <3>6, <5>1, ResultEffect
          <6>2. j = worker.job => job = jobs[j] /\ jobs[j] \in JobType
            BY <1>0, <3>2, <5>1 DEF job
          <6> QED BY <6>1, <6>2 DEF JobType
        <5> QED BY <2>2, <3>6, <5>1, QueueChange DEF Pop
      <4> QED BY <3>3, <4>1, <4>2
    <3> QED BY <3>4, <3>5, <3>6
  <2> QED BY <2>1, <2>2
<1>6. ASSUME NEW f \in Frame,
             f \in worker'.forks \/ (worker'.pc \in {"stamp", "lock", "meta"} /\ worker'.at = f /\ f # job'.frame)
      PROVE  /\ f \in Forks /\ f # job'.frame
             /\ worker'.job = fork'[f].job /\ framePendingSnap'[f] # 0
  <2>1. worker'.pc # "idle" /\ ~FinishJob /\ ~Crash /\ ~Pop
    <3>1. ~FinishJob /\ ~Crash /\ ~Pop
      <4>1. FinishJob \/ Crash => worker'.pc = "idle" /\ worker'.forks = {}
        BY DEF FinishJob, Crash, IdleWorker
      <4>2. Pop => worker'.pc = "index" /\ worker'.forks = {}
        BY DEF Pop, IdleWorker
      <4> QED BY <1>6, <4>1, <4>2
    <3>2. f \in worker'.forks => worker'.pc # "idle"
      BY <1>0, <3>1, WorkerMoves DEF PendingInv
    <3> QED BY <1>6, <3>1, <3>2
  <2>2. worker.pc # "idle"
    BY <1>0, <1>6, <2>1, WorkerMoves DEF PendingInv
  <2>3. /\ worker'.job = worker.job /\ worker.job \in DOMAIN jobs /\ job = jobs[worker.job]
        /\ job'.frame = job.frame
    BY <2>1, <2>2, SameJob
  <2>4. framePendingSnap[f] # 0 => framePendingSnap'[f] # 0
    <3>1. framePendingSnap' = framePendingSnap \/ Capture
      BY <2>1, PendingChange
    <3> QED BY <1>0, <3>1, CapturePending
  <2>5. /\ f \in Forks /\ f # job.frame /\ worker.job = fork[f].job /\ framePendingSnap[f] # 0
    <3>1. CASE f \in worker.forks \/ (Updating(f) /\ f # job.frame)
      BY <3>1 DEF PendingInv
    <3>2. CASE ForkedFrames /\ worker'.forks = {x \in Frame \ {job.frame} : framePendingSnap[x] = worker.job}
               /\ worker'.pc = "next"
      <4>1. f # job.frame /\ framePendingSnap[f] = worker.job /\ worker.job # 0
        BY <1>0, <1>6, <2>3, <3>2
      <4> QED BY <2>3, <4>1 DEF PendingInv
    <3> QED BY <1>0, <1>6, <2>1, <2>3, <3>1, <3>2, WorkerMoves DEF Updating
  <2>6. fork[f].job # 0
    BY <1>0, <2>3, <2>5
  <2> QED BY <2>3, <2>4, <2>5, <2>6, ForkJobStays
<1>7. ASSUME NEW f \in worker'.forks
      PROVE  worker'.pc # "idle" /\ ~(worker'.pc \in {"stamp", "lock", "meta"} /\ worker'.at = f)
  <2>1. \A x \in worker.forks : x \in Frame /\ x # job.frame /\ worker.pc # "idle" /\ ~Updating(x)
    BY <1>0 DEF PendingInv, TypeOK, WorkerType
  <2> QED BY <1>0, <1>7, <2>1, WorkerMoves DEF Updating
<1> QED BY <1>4, <1>5, <1>6, <1>7 DEF PendingInv, Updating, Waiting, WaitingNext

-----------------------------------------------------------------------------
(* The sidecar lock.                                                       *)

LEMMA SidecarStep ==
    ASSUME QueueInv, FramesInv, SidecarInv, [Main]_vars PROVE SidecarInv'
<1>0. /\ TypeOK /\ meta \in [Frame -> MetaType \cup {None}] /\ rmw \in [Frame -> RmwType \cup {None}]
      /\ edit \in [Frame -> EditType \cup {None}] /\ worker \in WorkerType
  BY DEF QueueInv, TypeOK
<1> SUFFICES ASSUME NEW f \in Frame
             PROVE  /\ edit'[f] # None => f \in Editable
                    /\ rmw'[f] # None =>
                         /\ rmw'[f].by = "taint" => Usable(f)'
                         /\ rmw'[f].by = "worker" => worker'.pc = "meta" /\ worker'.at = f
                         /\ f \notin Editable /\ (rmw'[f].by = "worker" => f = job'.frame)
                                => rmw'[f].read = meta'[f]
  BY DEF SidecarInv
<1>1. edit'[f] # None => f \in Editable
  BY <1>0, EditChange DEF SidecarInv, PruneRead, CloneReadSource, CloneReadTarget
<1>2. Usable(f) => meta[f] # None /\ Usable(f)' /\ (f \in Forks => fork[f].pc = "done")
  BY Growth, ConstantsAssumption DEF FramesInv, Usable
<1>3. worker.pc # "idle" => Usable(job.frame)
  BY <1>0, WorkerJobDomain DEF FramesInv, QueueInv
<1>4. CASE \E t \in Taints : TaintBegin(f, t)
  <2>1. PICK t \in Taints : TaintBegin(f, t)
    BY <1>4
  <2>2. /\ Usable(f) /\ meta' = meta /\ meta[f] # None
        /\ rmw' = [rmw EXCEPT ![f] = [by |-> "taint", taint |-> t, read |-> meta[f]]]
    BY <1>2, <2>1 DEF TaintBegin, LockAndRead
  <2>3. rmw'[f] = [by |-> "taint", taint |-> t, read |-> meta[f]]
    BY <1>0, <2>2
  <2> QED BY <1>1, <1>2, <2>2, <2>3
<1>5. CASE UpdateBegin /\ worker.at = f
  <2>1. /\ worker.pc = "lock" /\ worker'.pc = "meta" /\ worker'.at = f /\ jobs' = jobs
        /\ worker'.job = worker.job
    BY <1>0, <1>5 DEF UpdateBegin, WorkerType
  <2>2. job' = job
    BY <2>1 DEF job
  <2>3. /\ meta' = meta
        /\ rmw'[f] = [by |-> "worker", taint |-> None,
                      read |-> IF meta[f] = None THEN EmptyMeta ELSE meta[f]]
    BY <1>0, <1>5 DEF UpdateBegin, LockAndRead
  <2> QED BY <1>1, <1>2, <1>3, <2>1, <2>2, <2>3
<1>6. ASSUME rmw'[f] = rmw[f], rmw[f] # None
      PROVE  /\ rmw[f].by = "taint" => Usable(f)'
             /\ rmw[f].by = "worker" => worker'.pc = "meta" /\ worker'.at = f
             /\ f \notin Editable /\ (rmw[f].by = "worker" => f = job'.frame) => rmw[f].read = meta'[f]
  <2>0. /\ rmw[f].by = "taint" => Usable(f)
        /\ rmw[f].by = "worker" => worker.pc = "meta" /\ worker.at = f
        /\ f \notin Editable /\ (rmw[f].by = "worker" => f = job.frame) => rmw[f].read = meta[f]
        /\ rmw[f].by \in {"taint", "worker"}
    BY <1>0, <1>6 DEF SidecarInv, RmwType
  <2>1. ~Crash /\ ~TaintEnd(f) /\ ~(UpdateEnd /\ worker.at = f)
    BY <1>0, <1>6 DEF Crash, TaintEnd, UpdateEnd, WriteAndUnlock
  <2>2. rmw[f].by = "worker" => /\ worker.pc = "meta" /\ worker.at = f
                                /\ worker'.pc = "meta" /\ worker'.at = f
    <3>1. worker.pc = "meta" /\ worker.at = f => worker' = worker
      BY <1>0, <2>1, WorkerMoves DEF FinishJob, Pop
    <3> QED BY <2>0, <3>1
  <2>3. rmw[f].by = "worker" => job'.frame = job.frame
    BY <2>2, SameJob
  <2>4. CASE HistoryWrite(f)
    BY <1>2, <2>0, <2>2, <2>4 DEF HistoryWrite, SidecarInv
  <2>5. CASE f \in Forks /\ ForkWriteSidecar(f)
    <3>1. ~Usable(f)
      BY <1>2, <2>5 DEF ForkWriteSidecar
    <3> QED BY <1>3, <2>0, <2>2, <2>3, <3>1
  <2>6. CASE meta'[f] = meta[f]
    BY <1>2, <2>0, <2>2, <2>3, <2>6
  <2> QED BY <1>0, <2>1, <2>4, <2>5, <2>6, MetaChange
<1> QED BY <1>0, <1>1, <1>4, <1>5, <1>6, RmwChange

\* Who writes the sidecar of a frame in use that nobody edits: /taint and the
\* worker, from what the file says now unless the frame is a fork being updated.
LEMMA UneditedWrite ==
    ASSUME QueueInv, FramesInv, PendingInv, SidecarInv, [Main]_vars,
           NEW f \in Frame, f \notin Editable, Usable(f)
    PROVE  /\ meta[f] \in MetaType
           /\ \/ meta'[f] = meta[f]
              \/ \E t \in Taints : TaintEnd(f) /\ meta'[f] = AddTaint(f, meta[f], t)
              \/ /\ UpdateEnd /\ worker.pc = "meta" /\ worker.at = f /\ f = job.frame
                 /\ meta'[f] = RecordSnap(meta[f], worker.job, worker.fin)
              \/ /\ UpdateEnd /\ worker.pc = "meta" /\ worker.at = f /\ f # job.frame /\ f \in Forks
                 /\ meta'[f] = RecordSnap(rmw[f].read, worker.job, worker.fin)
<1>0. /\ TypeOK /\ LocalsOK /\ meta \in [Frame -> MetaType \cup {None}]
      /\ rmw \in [Frame -> RmwType \cup {None}]
  BY DEF QueueInv, TypeOK
<1>1. meta[f] \in MetaType /\ edit[f] = None
  BY <1>0 DEF FramesInv, SidecarInv
<1>2. CASE TaintEnd(f)
  <2>1. rmw[f] # None /\ rmw[f].by = "taint" /\ rmw[f].taint \in Taints
    BY <1>0, <1>2 DEF TaintEnd, RmwType
  <2>2. rmw[f].read = meta[f]
    BY <2>1 DEF SidecarInv
  <2>3. meta'[f] = AddTaint(f, meta[f], rmw[f].taint)
    BY <1>0, <1>2, <2>2 DEF TaintEnd, WriteAndUnlock
  <2> QED BY <1>1, <1>2, <2>1, <2>3
<1>3. CASE UpdateEnd /\ worker.at = f
  <2>1. worker.pc = "meta" /\ rmw[f] # None /\ rmw[f].by = "worker"
    BY <1>0, <1>3 DEF UpdateEnd, LocalsOK
  <2>2. meta'[f] = RecordSnap(rmw[f].read, worker.job, worker.fin)
    BY <1>0, <1>3 DEF UpdateEnd, WriteAndUnlock
  <2>3. f = job.frame => rmw[f].read = meta[f]
    BY <2>1 DEF SidecarInv
  <2>4. f # job.frame => f \in Forks
    BY <1>3, <2>1 DEF PendingInv, Updating
  <2> QED BY <1>1, <1>3, <2>1, <2>2, <2>3, <2>4
<1>4. ~HistoryWrite(f)
  BY <1>1 DEF HistoryWrite
<1>5. ~(f \in Forks /\ ForkWriteSidecar(f))
  BY ConstantsAssumption DEF ForkWriteSidecar, Usable
<1> QED BY <1>0, <1>1, <1>2, <1>3, <1>4, <1>5, MetaChange

\* Taints only grow under the two mutators.
LEMMA TaintsStay ==
    ASSUME QueueInv, FramesInv, PendingInv, SidecarInv, [Main]_vars, NEW f \in Roots \ Editable
    PROVE  meta[f].taints \subseteq meta'[f].taints
<1>1. f \in Frame /\ f \notin Editable /\ Usable(f) /\ f \notin Forks
  BY ConstantsAssumption DEF Frame, Usable
<1>2. meta[f] \in MetaType
  BY <1>1, UneditedWrite
<1>3. \A t : AddTaint(f, meta[f], t).taints = meta[f].taints \cup {t}
  BY <1>2 DEF AddTaint, MetaType
<1>4. RecordSnap(meta[f], worker.job, worker.fin).taints = meta[f].taints
  BY <1>2 DEF RecordSnap, MetaType
<1> QED BY <1>1, <1>3, <1>4, UneditedWrite

-----------------------------------------------------------------------------
(* Histories: order and completeness.                                      *)

LEMMA OrderedWeaken ==
    ASSUME NEW m \in MetaType \cup {None}, NEW n \in Nat, NEW n1 \in Nat, n <= n1, MetaOrdered(m, n)
    PROVE  MetaOrdered(m, n1)
<1>1. m # None => \A a \in DOMAIN m.history : m.history[a] \in Nat
  BY DEF MetaType
<1> QED BY <1>1 DEF MetaOrdered

LEMMA EmptyOrdered == \A n : MetaOrdered(EmptyMeta, n) /\ MetaOrdered(None, n)
BY DEF MetaOrdered, EmptyMeta, Descending

LEMMA AddTaintHistory ==
    ASSUME NEW f, NEW m \in MetaType, NEW t
    PROVE  /\ AddTaint(f, m, t).history = m.history
           /\ \A j : InHistory(j, m) => InHistory(j, AddTaint(f, m, t))
           /\ \A n : MetaOrdered(m, n) => MetaOrdered(AddTaint(f, m, t), n)
<1>1. PICK x : x = AddTaint(f, m, t)
  OBVIOUS
<1>2. x.history = m.history
  BY <1>1 DEF AddTaint, MetaType
<1>3. m # None
  BY NoneAssumption
<1> QED BY <1>1, <1>2, <1>3 DEF InHistory, MetaOrdered

LEMMA RecordSnapHistory ==
    ASSUME NEW m \in MetaType, NEW j \in Nat, NEW fin
    PROVE  /\ InHistory(j, RecordSnap(m, j, fin))
           /\ \A i : InHistory(i, m) => InHistory(i, RecordSnap(m, j, fin))
           /\ MetaOrdered(m, j - 1) => MetaOrdered(RecordSnap(m, j, fin), j)
<1>1. PICK x : x = RecordSnap(m, j, fin)
  OBVIOUS
<1>2. PICK h \in Seq(Nat) : h = m.history
  BY DEF MetaType
<1>3. PICK y : y = <<j>> \o h
  OBVIOUS
<1>4. x.history = y
  BY <1>1, <1>2, <1>3 DEF RecordSnap, MetaType
<1>5. /\ y[1] = j /\ 1 \in DOMAIN y /\ \A a \in DOMAIN h : a + 1 \in DOMAIN y /\ y[a + 1] = h[a]
      /\ \A a \in DOMAIN y : a = 1 \/ (a \in Nat /\ a > 1 /\ a - 1 \in DOMAIN h /\ y[a] = h[a - 1])
  BY <1>3, Prepend
<1>6. InHistory(j, x) /\ \A i : InHistory(i, m) => InHistory(i, x)
  BY <1>2, <1>4, <1>5 DEF InHistory
<1>7. ASSUME MetaOrdered(m, j - 1) PROVE MetaOrdered(x, j)
  <2>1. /\ \A a, b \in DOMAIN h : a < b => h[a] > h[b]
        /\ \A a \in DOMAIN h : h[a] <= j - 1 /\ h[a] \in Nat
    <3>1. m # None
      BY NoneAssumption
    <3> QED BY <1>2, <1>7, <3>1 DEF MetaOrdered, Descending
  <2>2. \A a \in DOMAIN y : y[a] <= j
    BY <1>5, <2>1
  <2>3. ASSUME NEW a \in DOMAIN y, NEW b \in DOMAIN y, a < b PROVE y[a] > y[b]
    <3>1. b \in Nat /\ b > 1 /\ b - 1 \in DOMAIN h /\ y[b] = h[b - 1]
      BY <1>5, <2>3
    <3>2. CASE a = 1
      BY <1>5, <2>1, <3>1, <3>2
    <3>3. CASE a \in Nat /\ a > 1 /\ a - 1 \in DOMAIN h /\ y[a] = h[a - 1]
      BY <2>1, <2>3, <3>1, <3>3
    <3> QED BY <1>5, <3>2, <3>3
  <2> QED BY <1>4, <2>2, <2>3 DEF MetaOrdered, Descending
<1> QED BY <1>1, <1>6, <1>7

\* A history entry of a frame nobody edits stays.
LEMMA HistoryStays ==
    ASSUME QueueInv, FramesInv, PendingInv, SidecarInv, [Main]_vars,
           NEW f \in Roots \ Editable, NEW j, InHistory(j, meta[f])
    PROVE  InHistory(j, meta'[f])
<1>1. f \in Frame /\ f \notin Editable /\ Usable(f) /\ f \notin Forks
  BY ConstantsAssumption DEF Frame, Usable
<1>2. meta[f] \in MetaType /\ worker.job \in Nat
  BY <1>1, UneditedWrite DEF QueueInv, TypeOK, WorkerType
<1>3. \A t : InHistory(j, AddTaint(f, meta[f], t))
  BY <1>2, AddTaintHistory
<1>4. InHistory(j, RecordSnap(meta[f], worker.job, worker.fin))
  BY <1>2, RecordSnapHistory
<1> QED BY <1>1, <1>3, <1>4, UneditedWrite

\* The worker keeps owing what it owes and owes nothing new except by taking a job.
LEMMA OwedStep ==
    ASSUME QueueInv, PendingInv, [Main]_vars, ~Pop, NEW f \in Frame, Owed(f)'
    PROVE  /\ Owed(f) /\ worker.pc # "idle" /\ worker'.pc # "idle"
           /\ worker'.job = worker.job
           /\ ~(UpdateEnd /\ worker.at = f)
<1>0. TypeOK /\ QueueOrder /\ framePendingSnap \in [Frame -> Nat]
  BY DEF QueueInv, TypeOK
<1>1. ~FinishJob /\ ~Crash /\ worker'.pc # "idle" /\ worker.pc # "idle"
  <2>1. FinishJob \/ Crash => worker'.pc = "idle" /\ worker'.forks = {}
    BY DEF FinishJob, Crash, IdleWorker
  <2>2. ~FinishJob /\ ~Crash
    BY <2>1 DEF Owed, Updating
  <2>3. worker.pc = "idle" => worker' = worker /\ worker.forks = {}
    BY <1>0, <2>2, WorkerMoves DEF PendingInv
  <2>4. worker.pc # "idle"
    BY <2>3 DEF Owed, Updating
  <2>5. worker'.pc # "idle"
    BY <1>0, <2>2, <2>4, WorkerMoves
  <2> QED BY <2>2, <2>4, <2>5
<1>2. worker'.job = worker.job /\ job'.frame = job.frame /\ worker.job \in DOMAIN jobs
  BY <1>1, SameJob
<1>3. framePendingSnap'[f] = worker.job => framePendingSnap[f] = worker.job
  <2>1. CASE Capture
    <3>1. worker.job # Len(jobs) + 1
      BY <1>0, <1>2, JobsDomain
    <3> QED BY <2>1, <3>1, CapturePending
  <2> QED BY <1>1, <2>1, PendingChange
<1>4. \A x \in worker.forks : x # job.frame /\ ~Updating(x)
  BY <1>0 DEF PendingInv, TypeOK, WorkerType
<1>5. CASE worker' = worker
  <2>1. Owed(f)
    BY <1>2, <1>3, <1>5 DEF Owed, Updating
  <2>2. ~UpdateEnd
    BY <1>0, <1>5 DEF UpdateEnd, TypeOK, WorkerType
  <2> QED BY <1>1, <1>2, <2>1, <2>2
<1>6. CASE UpdateEnd
  <2>1. /\ worker.pc = "meta" /\ worker'.at = worker.at /\ worker'.forks = worker.forks
        /\ worker'.pc = (IF job.sub THEN "finish" ELSE IF worker.at = job.frame THEN "forks" ELSE "next")
    BY <1>0, <1>6 DEF UpdateEnd, TypeOK, WorkerType
  <2>2. Owed(f)
    BY <1>2, <1>3, <2>1 DEF Owed, Updating
  <2>3. worker.at # f
    BY <1>2, <1>4, <2>1 DEF Owed, Updating
  <2> QED BY <1>1, <1>2, <2>2, <2>3
<1>7. CASE ~UpdateEnd /\ worker' # worker
  <2>1. Owed(f)
    BY <1>0, <1>1, <1>2, <1>3, <1>4, <1>7, WorkerMoves DEF Owed, Updating
  <2> QED BY <1>1, <1>2, <1>7, <2>1
<1> QED BY <1>5, <1>6, <1>7

\* A fork whose history the worker owes its job was made from that job.
LEMMA OwedFork ==
    ASSUME QueueInv, FramesInv, PendingInv, NEW g \in Forks, fork[g].pc # "done", Owed(g)
    PROVE  worker.job = fork[g].job /\ worker.job \in Nat \ {0}
<1>0. TypeOK /\ QueueOrder /\ worker.forks \subseteq Frame
  BY DEF QueueInv, TypeOK, WorkerType
<1>1. worker.pc # "idle" /\ g \in Frame /\ g \notin Roots
  BY ConstantsAssumption DEF Owed, Updating, PendingInv, Frame
<1>2. worker.job \in DOMAIN jobs /\ job = jobs[worker.job] /\ worker.job \in Nat \ {0}
  BY <1>0, <1>1, WorkerJobDomain, JobsDomain
<1>3. g # job.frame
  BY <1>1, <1>2 DEF FramesInv, Usable
<1>4. CASE g \in worker.forks \/ Updating(g)
  BY <1>1, <1>2, <1>3, <1>4 DEF PendingInv
<1>5. CASE framePendingSnap[g] = worker.job
  BY <1>1, <1>2, <1>3, <1>5 DEF PendingInv
<1> QED BY <1>3, <1>4, <1>5 DEF Owed

\* The three steps that change a job move the worker on.
LEMMA ResultMoves ==
    ASSUME TypeOK, Result PROVE worker'.pc # worker.pc
<1>1. Finalized => worker'.pc # worker.pc
  BY DEF Finalized, TypeOK, WorkerType
<1>2. FinishJob => worker'.pc # worker.pc
  BY DEF FinishJob, IdleWorker
<1>3. \A k \in AnyKind : IndexFails(k) => worker'.pc # worker.pc
  BY DEF IndexFails, TypeOK, WorkerType
<1> QED BY <1>1, <1>2, <1>3 DEF Result

\* The histories of frames and of the copies being worked on stay in order.
LEMMA OrderStep ==
    ASSUME QueueInv, FramesInv, PendingInv, SidecarInv, SidecarInv', HistoryInv, [Main]_vars,
           NEW f \in Unedited
    PROVE  /\ MetaOrdered(meta'[f], Taken')
           /\ Owed(f)' => MetaOrdered(meta'[f], worker'.job - 1)
           /\ rmw'[f] # None /\ rmw'[f].by = "worker" => MetaOrdered(rmw'[f].read, worker'.job - 1)
<1>0. /\ TypeOK /\ LocalsOK /\ QueueOrder /\ meta \in [Frame -> MetaType \cup {None}]
      /\ rmw \in [Frame -> RmwType \cup {None}] /\ worker \in WorkerType
      /\ Taken \in Nat /\ Taken' \in Nat /\ Taken <= Taken' /\ fork \in [Forks -> ForkType]
  BY Growth DEF QueueInv, TypeOK
<1>1. f \in Frame /\ f \notin Editable /\ edit[f] = None
  BY <1>0 DEF Unedited, Frame, SidecarInv
<1>2. /\ MetaOrdered(meta[f], Taken)
      /\ Owed(f) => MetaOrdered(meta[f], worker.job - 1)
      /\ rmw[f] # None /\ rmw[f].by = "worker" => MetaOrdered(rmw[f].read, worker.job - 1)
      /\ f \in Forks => MetaOrdered(fork[f].clone, Taken)
      /\ f \in Forks /\ fork[f].job # 0 => MetaOrdered(fork[f].clone, fork[f].job - 1)
  BY DEF HistoryInv
<1>3. worker.pc # "idle" => worker.job = Taken /\ worker.job \in Nat \ {0} /\ worker.job \in DOMAIN jobs
  BY <1>0, WorkerJobDomain, JobsDomain
<1>4. TaintEnd(f) => \A n : MetaOrdered(meta[f], n) => MetaOrdered(meta'[f], n)
  <2> SUFFICES ASSUME TaintEnd(f), NEW n, MetaOrdered(meta[f], n) PROVE MetaOrdered(meta'[f], n)
    OBVIOUS
  <2>1. rmw[f] # None /\ rmw[f].by = "taint" /\ rmw[f].read \in MetaType
    BY <1>0, <1>1 DEF TaintEnd, RmwType
  <2>2. rmw[f].read = meta[f]
    BY <1>1, <2>1 DEF SidecarInv
  <2>3. meta'[f] = AddTaint(f, meta[f], rmw[f].taint)
    BY <1>0, <1>1, <2>2 DEF TaintEnd, WriteAndUnlock
  <2> QED BY <2>1, <2>2, <2>3, AddTaintHistory
<1>5. ~HistoryWrite(f)
  BY <1>1 DEF HistoryWrite
<1>6. f \in Forks /\ ForkWriteSidecar(f) =>
          meta'[f] = fork[f].clone /\ fork[f].pc # "done" /\ worker' = worker /\ fork[f].clone \in MetaType \cup {None}
  BY <1>0, <1>1 DEF ForkWriteSidecar, ForkType
<1>7. MetaOrdered(meta'[f], Taken')
  <2>1. CASE UpdateEnd /\ worker.at = f
    <3>1. worker.pc = "meta" /\ rmw[f] # None /\ rmw[f].by = "worker" /\ rmw[f].read \in MetaType
      BY <1>0, <1>1, <2>1 DEF UpdateEnd, LocalsOK, RmwType
    <3>2. meta'[f] = RecordSnap(rmw[f].read, worker.job, worker.fin)
      BY <1>0, <1>1, <2>1 DEF UpdateEnd, WriteAndUnlock
    <3>3. MetaOrdered(meta'[f], Taken)
      BY <1>2, <1>3, <3>1, <3>2, RecordSnapHistory
    <3>4. Taken' = Taken
      BY <2>1 DEF UpdateEnd, Taken
    <3> QED BY <3>3, <3>4
  <2>2. CASE f \in Forks /\ ForkWriteSidecar(f)
    BY <1>0, <1>2, <1>6, <2>2, OrderedWeaken
  <2>3. CASE meta'[f] = meta[f]
    BY <1>0, <1>1, <1>2, <2>3, OrderedWeaken
  <2>4. CASE TaintEnd(f)
    <3>1. Taken' = Taken
      BY <2>4 DEF TaintEnd, Taken
    <3> QED BY <1>2, <1>4, <2>4, <3>1
  <2> QED BY <1>0, <1>1, <1>5, <2>1, <2>2, <2>3, <2>4, MetaChange
<1>8. ASSUME Owed(f)' PROVE MetaOrdered(meta'[f], worker'.job - 1)
  <2>1. CASE Pop
    <3>1. meta' = meta /\ worker'.job = pending[1] /\ pending # <<>>
      BY <2>1 DEF Pop, IdleWorker
    <3>2. pending[1] = Len(jobs) - Len(pending) + 1 /\ Len(jobs) \in Nat /\ Len(pending) \in Nat
      BY <1>0, <3>1 DEF QueueOrder, TypeOK
    <3>3. worker'.job - 1 = Taken
      BY <1>0, <3>1, <3>2 DEF Taken
    <3> QED BY <1>2, <3>1, <3>3
  <2>2. CASE ~Pop
    <3>1. /\ Owed(f) /\ worker.pc # "idle" /\ worker'.pc # "idle"
          /\ worker'.job = worker.job /\ ~(UpdateEnd /\ worker.at = f)
      BY <1>1, <1>8, <2>2, OwedStep
    <3>2. CASE f \in Forks /\ ForkWriteSidecar(f)
      BY <1>2, <1>6, <3>1, <3>2, OwedFork
    <3> QED BY <1>0, <1>1, <1>2, <1>4, <1>5, <3>1, <3>2, MetaChange
  <2> QED BY <2>1, <2>2
<1>9. ASSUME rmw'[f] # None, rmw'[f].by = "worker"
      PROVE  MetaOrdered(rmw'[f].read, worker'.job - 1)
  <2>1. CASE rmw'[f] = rmw[f]
    <3>1. worker.pc = "meta" /\ worker'.pc = "meta"
      BY <1>1, <1>9, <2>1 DEF SidecarInv
    <3>2. worker'.job = worker.job
      BY <3>1, SameJob
    <3> QED BY <1>2, <1>9, <2>1, <3>2
  <2>2. CASE UpdateBegin /\ worker.at = f
    <3>1. worker.pc = "lock" /\ worker'.job = worker.job
      BY <1>0, <2>2 DEF UpdateBegin, WorkerType
    <3>2. rmw'[f].read = IF meta[f] = None THEN EmptyMeta ELSE meta[f]
      BY <1>0, <1>1, <2>2 DEF UpdateBegin, LockAndRead
    <3>3. Owed(f)
      BY <2>2, <3>1 DEF Owed, Updating
    <3> QED BY <1>2, <3>1, <3>2, <3>3, EmptyOrdered
  <2>3. ~\E t \in Taints : TaintBegin(f, t)
    BY <1>0, <1>1, <1>9 DEF TaintBegin, LockAndRead
  <2> QED BY <1>0, <1>1, <1>9, <2>1, <2>2, <2>3, RmwChange
<1> QED BY <1>7, <1>8, <1>9

\* So do the copies forks will write.
LEMMA CloneOrderStep ==
    ASSUME QueueInv, HistoryInv, [Main]_vars, NEW g \in Forks \cap Unedited
    PROVE  /\ MetaOrdered(fork'[g].clone, Taken')
           /\ fork'[g].job # 0 => MetaOrdered(fork'[g].clone, fork'[g].job - 1)
<1>0. /\ TypeOK /\ LocalsOK /\ QueueOrder /\ meta \in [Frame -> MetaType \cup {None}]
      /\ Taken \in Nat /\ Taken' \in Nat /\ Taken <= Taken' /\ fork[g] \in ForkType
      /\ fork \in [Forks -> ForkType]
  BY Growth DEF QueueInv, TypeOK
<1>1. Unedited = Frame
  BY ConstantsAssumption DEF Unedited
<1>2. /\ MetaOrdered(fork[g].clone, Taken)
      /\ fork[g].job # 0 => MetaOrdered(fork[g].clone, fork[g].job - 1)
      /\ fork[g].clone \in MetaType \cup {None}
  BY <1>0 DEF HistoryInv, ForkType
<1>3. CASE fork'[g].clone = fork[g].clone /\ fork'[g].job = fork[g].job
  BY <1>0, <1>2, <1>3, OrderedWeaken
<1>4. CASE \E f \in Frame : ForkRead(g, f)
  <2>1. PICK f \in Frame : ForkRead(g, f)
    BY <1>4
  <2>2. /\ fork'[g].clone = IF meta[f] = None THEN EmptyMeta ELSE meta[f]
        /\ fork'[g].job = 0
    BY <1>0, <2>1 DEF ForkRead
  <2>3. MetaOrdered(meta[f], Taken)
    BY <1>1 DEF HistoryInv
  <2> QED BY <1>0, <2>2, <2>3, EmptyOrdered, OrderedWeaken
<1>5. CASE fork'[g] = NoFork
  BY <1>5, EmptyOrdered DEF NoFork
<1>6. CASE \/ fork'[g] = [fork[g] EXCEPT !.pc = "sidecar", !.job = Len(jobs) + 1]
           \/ fork'[g] = [fork[g] EXCEPT !.pc = "failed", !.job = Len(jobs) + 1]
  <2>1. fork'[g].clone = fork[g].clone /\ fork'[g].job = Len(jobs) + 1
    BY <1>0, <1>6 DEF ForkType
  <2>2. Len(jobs) \in Nat /\ Len(pending) \in Nat /\ Taken <= Len(jobs)
    BY <1>0 DEF TypeOK, Taken
  <2> QED BY <1>0, <1>2, <2>1, <2>2, OrderedWeaken
<1>7. CASE fork'[g] = [fork[g] EXCEPT !.pc = "failed"]
  BY <1>0, <1>3, <1>7 DEF ForkType
<1>8. CASE ForkWriteSidecar(g) \/ ForkWriteStamp(g)
  BY <1>0, <1>3, <1>8 DEF ForkWriteSidecar, ForkWriteStamp, ForkType
<1> QED BY Zenon, <1>0, <1>3, <1>4, <1>5, <1>6, <1>7, <1>8, ForkChange

\* What the worker has recorded was recorded before, unless it does so now.
LEMMA RecordedStep ==
    ASSUME QueueInv, PendingInv, [Main]_vars, Recorded'
    PROVE  /\ worker.pc # "idle" /\ worker'.pc # "idle"
           /\ Recorded \/ (UpdateEnd /\ worker.pc = "meta" /\ worker.at = job.frame)
<1>0. TypeOK /\ QueueOrder /\ worker \in WorkerType
  BY DEF QueueInv, TypeOK
<1>1. worker'.pc \notin {"idle", "index"}
  BY DEF Recorded
<1>2. worker.pc # "idle"
  BY <1>0, <1>1, WorkerMoves
<1>3. worker'.job = worker.job /\ job'.frame = job.frame /\ (~Result => job' = job)
  BY <1>1, <1>2, SameJob
<1>4. CASE worker' = worker
  <2>1. ~Result
    BY <1>0, <1>4, ResultMoves
  <2> QED BY <1>1, <1>2, <1>3, <1>4, <2>1 DEF Recorded
<1>5. CASE \E k \in AnyKind : IndexFails(k)
  <2>1. worker.pc = "index" /\ worker'.pc = "finish" /\ ~Finalized /\ ~FinishJob /\ Result
    BY <1>0, <1>5 DEF IndexFails, Finalized, FinishJob, TypeOK, WorkerType, IdleWorker, Result
  <2>2. job'.err
    <3>1. job' = [job EXCEPT !.err = TRUE] /\ job \in JobType
      BY <1>0, <1>1, <1>2, <2>1, ResultEffect, SameJob, WorkerJobDomain
    <3> QED BY <3>1 DEF JobType
  <2> QED BY <2>1, <2>2 DEF Recorded
<1>6. CASE ~(\E k \in AnyKind : IndexFails(k)) /\ worker' # worker
  <2>1. CASE UpdateEnd
    <3>1. worker.pc = "meta"
      BY <2>1 DEF UpdateEnd
    <3> QED BY <1>1, <1>2, <2>1, <3>1 DEF Recorded
  <2>2. CASE ~UpdateEnd
    BY <1>0, <1>1, <1>2, <1>3, <1>6, <2>2, WorkerMoves DEF Recorded
  <2> QED BY <2>1, <2>2
<1> QED BY <1>4, <1>5, <1>6

LEMMA HistoryStep ==
    ASSUME QueueInv, FramesInv, PendingInv, SidecarInv, SidecarInv', HistoryInv, [Main]_vars
    PROVE  HistoryInv'
<1>0. TypeOK /\ QueueOrder
  BY DEF QueueInv
<1>1. ASSUME NEW j \in DOMAIN jobs', jobs'[j].frame \in Roots \ Editable, jobs'[j].done, ~jobs'[j].err
      PROVE  InHistory(j, meta'[jobs'[j].frame])
  <2>1. CASE j \in DOMAIN jobs /\ jobs[j].frame = jobs'[j].frame /\ jobs[j].done /\ ~jobs[j].err
    BY <1>1, <2>1, HistoryStays DEF HistoryInv
  <2>2. CASE Capture
    <3>1. PICK jb \in JobType : Enqueue(jb) /\ UNCHANGED worker /\ jb.done = FALSE
      BY <1>0, <2>2, CaptureEffect
    <3>2. /\ DOMAIN jobs' = DOMAIN jobs \cup {Len(jobs) + 1} /\ jobs'[Len(jobs) + 1] = jb
          /\ \A i \in DOMAIN jobs : jobs'[i] = jobs[i]
      BY <1>0, <3>1, EnqueueEffect
    <3> QED BY <1>1, <2>1, <3>1, <3>2
  <2>3. CASE Result
    <3>1. /\ worker.job \in DOMAIN jobs /\ job = jobs[worker.job] /\ job \in JobType
          /\ DOMAIN jobs' = DOMAIN jobs /\ jobs'[j].frame = jobs[j].frame
          /\ j # worker.job => jobs'[j] = jobs[j]
      BY <1>0, <1>1, <2>3, ResultEffect, WorkerJobDomain
    <3>2. CASE j = worker.job /\ Finalized
      <4>1. jobs'[j] = [job EXCEPT !.finalized = worker.fin]
        BY <1>0, <2>3, <3>2, ResultEffect
      <4>2. jobs[j].done /\ ~jobs[j].err
        BY <1>1, <3>1, <3>2, <4>1 DEF JobType
      <4> QED BY <1>1, <2>1, <3>1, <4>2
    <3>3. CASE j = worker.job /\ ~Finalized /\ FinishJob
      <4>1. jobs'[j] = [job EXCEPT !.done = TRUE]
        BY <1>0, <2>3, <3>3, ResultEffect
      <4>2. ~job.err
        BY <1>1, <3>1, <4>1 DEF JobType
      <4>3. Recorded
        BY <3>3, <4>2 DEF Recorded, FinishJob
      <4> QED BY <1>1, <3>1, <3>3, <4>3, HistoryStays DEF HistoryInv
    <3>4. CASE j = worker.job /\ ~Finalized /\ ~FinishJob
      <4>1. jobs'[j] = [job EXCEPT !.err = TRUE]
        BY <1>0, <2>3, <3>4, ResultEffect
      <4> QED BY <1>1, <3>1, <4>1 DEF JobType
    <3> QED BY <1>1, <2>1, <3>1, <3>2, <3>3, <3>4
  <2>4. CASE jobs' = jobs
    BY <1>1, <2>1, <2>4
  <2> QED BY <2>2, <2>3, <2>4, QueueChange DEF Pop, Crash
<1>2. ASSUME Recorded', job'.frame \in Roots \ Editable
      PROVE  InHistory(worker'.job, meta'[job'.frame])
  <2>1. /\ worker.pc # "idle" /\ worker'.pc # "idle"
        /\ Recorded \/ (UpdateEnd /\ worker.pc = "meta" /\ worker.at = job.frame)
    BY <1>2, RecordedStep
  <2>2. worker'.job = worker.job /\ job'.frame = job.frame
    BY <2>1, SameJob
  <2>3. CASE Recorded
    BY <1>2, <2>2, <2>3, HistoryStays DEF HistoryInv
  <2>4. CASE UpdateEnd /\ worker.pc = "meta" /\ worker.at = job.frame
    <3>1. /\ job.frame \in Frame /\ rmw[job.frame].read \in MetaType /\ worker.job \in Nat
          /\ meta'[job.frame] = RecordSnap(rmw[job.frame].read, worker.job, worker.fin)
      <4>1. job.frame \in Frame /\ rmw[job.frame] # None
        BY <1>2, <2>2, <2>4 DEF QueueInv, LocalsOK, Frame
      <4> QED BY <2>4, <4>1 DEF UpdateEnd, WriteAndUnlock, QueueInv, TypeOK, RmwType, WorkerType
    <3> QED BY <2>2, <3>1, RecordSnapHistory
  <2> QED BY <2>1, <2>3, <2>4
<1>3. \A f \in Unedited :
           /\ MetaOrdered(meta'[f], Taken')
           /\ Owed(f)' => MetaOrdered(meta'[f], worker'.job - 1)
           /\ rmw'[f] # None /\ rmw'[f].by = "worker" => MetaOrdered(rmw'[f].read, worker'.job - 1)
  BY OrderStep
<1>4. \A g \in Forks \cap Unedited :
           /\ MetaOrdered(fork'[g].clone, Taken')
           /\ fork'[g].job # 0 => MetaOrdered(fork'[g].clone, fork'[g].job - 1)
  BY CloneOrderStep
<1> QED BY <1>1, <1>2, <1>3, <1>4 DEF HistoryInv

-----------------------------------------------------------------------------
(* What the worker writes of its results.                                  *)

LEMMA AddTaintSnaps ==
    ASSUME NEW f, NEW m \in MetaType, NEW t, NEW fin, HasSnaps(m, fin)
    PROVE  HasSnaps(AddTaint(f, m, t), fin)
<1>1. PICK x : x = AddTaint(f, m, t)
  OBVIOUS
<1>2. \A k \in OptKinds : x.snap[k] = m.snap[k]
  BY <1>1, ConstantsAssumption DEF AddTaint, MetaType, Kinds
<1> QED BY <1>1, <1>2 DEF HasSnaps

LEMMA RecordSnapSnaps ==
    ASSUME NEW m \in MetaType, NEW j, NEW fin
    PROVE  /\ HasSnaps(RecordSnap(m, j, fin), fin)
           /\ \A old : HasSnaps(m, old) /\ DOMAIN fin \cap Kinds = {} => HasSnaps(RecordSnap(m, j, fin), old)
<1>1. PICK x : x = RecordSnap(m, j, fin)
  OBVIOUS
<1>2. x.snap = [k \in Kinds |-> IF k \in DOMAIN fin THEN fin[k] ELSE m.snap[k]]
  BY <1>1 DEF RecordSnap, MetaType
<1>3. OptKinds \subseteq Kinds
  BY DEF Kinds
<1>4. HasSnaps(x, fin)
  BY <1>2, <1>3 DEF HasSnaps
<1>5. \A old : HasSnaps(m, old) /\ DOMAIN fin \cap Kinds = {} => HasSnaps(x, old)
  BY <1>2, <1>3 DEF HasSnaps
<1> QED BY <1>1, <1>4, <1>5

\* The domains of a captured job.
LEMMA CaptureDomains ==
    ASSUME QueueInv, Capture
    PROVE  \E jb \in JobType :
              /\ Enqueue(jb) /\ UNCHANGED worker
              /\ jb.finalized = <<>> /\ DOMAIN jb.finalized = {}
              /\ ~jb.sub => DOMAIN jb.comps \subseteq Kinds
              /\ jb.sub => DOMAIN jb.comps = {"subdir"}
<1>1. PICK jb \in JobType :
              /\ Enqueue(jb) /\ UNCHANGED worker /\ qmu # None /\ qmu \in QmuType /\ jb.finalized = <<>>
              /\ \/ jb = FullJob(qmu.frame, qmu.read) /\ jb.sub = FALSE
                 \/ jb.sub = TRUE /\ DOMAIN jb.comps = {"subdir"}
  BY CaptureEffect DEF QueueInv
<1>2. FullJob(qmu.frame, qmu.read).comps = CapturedComps(qmu.frame)
  BY DEF FullJob, NewJob
<1>3. DOMAIN CapturedComps(qmu.frame) \subseteq Kinds
  BY DEF CapturedComps, Kinds
<1> QED BY <1>1, <1>2, <1>3

LEMMA ResultStep ==
    ASSUME QueueInv, FramesInv, PendingInv, SidecarInv, ResultInv, [Main]_vars PROVE ResultInv'
<1>0. /\ TypeOK /\ LocalsOK /\ QueueOrder /\ worker \in WorkerType /\ Taken \in Nat /\ Taken' \in Nat
      /\ Taken <= Taken'
  BY Growth DEF QueueInv, TypeOK
<1>1. ASSUME NEW j \in DOMAIN jobs'
      PROVE  /\ ~jobs'[j].sub => DOMAIN jobs'[j].comps \subseteq Kinds
             /\ jobs'[j].sub => DOMAIN jobs'[j].comps = {"subdir"}
             /\ DOMAIN jobs'[j].finalized \subseteq DOMAIN jobs'[j].comps
             /\ j > Taken' => jobs'[j].finalized = <<>>
  <2>1. CASE j \in DOMAIN jobs /\ jobs'[j] = jobs[j]
    <3>1. j > Taken' => j > Taken
      BY <1>0, <2>1, JobsDomain
    <3> QED BY <2>1, <3>1 DEF ResultInv
  <2>2. CASE Capture
    <3>1. PICK jb \in JobType :
              /\ Enqueue(jb) /\ UNCHANGED worker
              /\ jb.finalized = <<>> /\ DOMAIN jb.finalized = {}
              /\ ~jb.sub => DOMAIN jb.comps \subseteq Kinds
              /\ jb.sub => DOMAIN jb.comps = {"subdir"}
      BY <2>2, CaptureDomains
    <3>2. /\ DOMAIN jobs' = DOMAIN jobs \cup {Len(jobs) + 1} /\ jobs'[Len(jobs) + 1] = jb
          /\ \A i \in DOMAIN jobs : jobs'[i] = jobs[i]
      BY <1>0, <3>1, EnqueueEffect
    <3> QED BY <1>1, <2>1, <3>1, <3>2
  <2>3. CASE Result
    <3>1. /\ worker.job \in DOMAIN jobs /\ job = jobs[worker.job] /\ job \in JobType
          /\ DOMAIN jobs' = DOMAIN jobs /\ Taken' = Taken /\ worker.job = Taken
          /\ jobs'[j].comps = jobs[j].comps /\ jobs'[j].sub = jobs[j].sub
          /\ j # worker.job => jobs'[j] = jobs[j]
      BY <1>0, <1>1, <2>3, ResultEffect, WorkerJobDomain
    <3>2. CASE j = worker.job
      <4>1. jobs'[j].finalized \in {jobs[j].finalized, worker.fin}
        <5>1. jobs'[j] \in {[job EXCEPT !.finalized = worker.fin], [job EXCEPT !.done = TRUE],
                            [job EXCEPT !.err = TRUE]}
          BY <1>0, <2>3, <3>2, ResultEffect
        <5> QED BY <3>1, <3>2, <5>1 DEF JobType
      <4>2. Finalized \/ jobs'[j].finalized = jobs[j].finalized
        <5>1. ~Finalized => jobs'[j] \in {[job EXCEPT !.done = TRUE], [job EXCEPT !.err = TRUE]}
          BY <1>0, <2>3, <3>2, ResultEffect
        <5> QED BY <3>1, <3>2, <5>1 DEF JobType
      <4>3. Finalized => DOMAIN worker.fin = DOMAIN job.comps
        BY DEF Finalized
      <4>4. ~(j > Taken')
        BY <1>0, <3>1, <3>2
      <4> QED BY <1>1, <3>1, <3>2, <4>1, <4>2, <4>3, <4>4 DEF ResultInv
    <3> QED BY <1>1, <2>1, <3>1, <3>2
  <2>4. CASE jobs' = jobs
    BY <1>1, <2>1, <2>4
  <2> QED BY <2>2, <2>3, <2>4, QueueChange DEF Pop, Crash
<1>2. ASSUME Pop
      PROVE  worker'.pc = "index" /\ job'.finalized = <<>>
  <2>1. jobs' = jobs /\ worker'.job = pending[1] /\ pending # <<>> /\ worker'.pc = "index"
    BY <1>2 DEF Pop, IdleWorker
  <2>2. /\ pending[1] = Len(jobs) - Len(pending) + 1 /\ Len(jobs) \in Nat /\ Len(pending) \in Nat
        /\ Len(pending) > 0 /\ Len(pending) <= Len(jobs)
    BY <1>0, <2>1 DEF QueueOrder, TypeOK
  <2>3. worker'.job \in DOMAIN jobs /\ worker'.job > Taken
    BY <1>0, <2>1, <2>2, JobsDomain DEF Taken
  <2> QED BY <2>1, <2>3 DEF job, ResultInv
<1>3. ASSUME worker'.pc = "idle" PROVE ResultInv'
  BY <1>1, <1>3 DEF ResultInv
<1>4. ASSUME Pop PROVE ResultInv'
  BY <1>1, <1>2, <1>4 DEF ResultInv
<1>5. ASSUME worker'.pc # "idle", ~Pop PROVE ResultInv'
  <2>0. worker.pc # "idle"
    BY <1>0, <1>5, WorkerMoves
  <2>1. /\ worker'.job = worker.job /\ worker.job \in DOMAIN jobs
        /\ job'.frame = job.frame /\ job'.sub = job.sub /\ job'.comps = job.comps
        /\ ~Result => job' = job
        /\ job = jobs[worker.job] /\ job' = jobs'[worker.job] /\ job \in JobType
    BY <1>0, <1>5, <2>0, SameJob, WorkerJobDomain
  <2>2. /\ Finalized => job'.finalized = worker.fin
        /\ (\E k \in AnyKind : IndexFails(k)) /\ worker'.pc = "finish" => job'.finalized = job.finalized
    <3>1. Finalized => job' = [job EXCEPT !.finalized = worker.fin]
      BY <1>0, <2>1, ResultEffect DEF Result
    <3>2. (\E k \in AnyKind : IndexFails(k)) /\ worker'.pc = "finish" => job' = [job EXCEPT !.err = TRUE]
      <4>1. Finalized => worker'.pc # "finish"
        BY <1>0 DEF Finalized, WorkerType
      <4>2. ~FinishJob
        BY <1>5 DEF FinishJob, IdleWorker
      <4> QED BY <1>0, <2>1, <4>1, <4>2, ResultEffect DEF Result
    <3> QED BY <2>1, <3>1, <3>2 DEF JobType
  <2>3. /\ worker' = worker => ~Result
        /\ (\E k \in AnyKind : IndexComp(k)) => ~Result
        /\ WriteStamp \/ UpdateBegin \/ UpdateEnd \/ ForkedFrames => ~Result
        /\ (\E f \in Frame : NextFork(f)) => ~Result
    <3>1. worker' = worker => ~Result
      BY <1>0, ResultMoves
    <3>2. (\E k \in AnyKind : IndexComp(k)) => worker'.pc = "index" /\ worker.pc = "index"
      BY <1>0, IndexedFin
    <3>3. WriteStamp \/ UpdateBegin \/ UpdateEnd \/ ForkedFrames => worker.pc \notin {"index", "finish", "next"}
      BY DEF WriteStamp, UpdateBegin, UpdateEnd, ForkedFrames
    <3>4. ASSUME NEW f \in Frame, NextFork(f) PROVE worker.pc = "next" /\ worker.forks # {}
      BY <3>4 DEF NextFork
    <3>5. Result => worker.pc \in {"index", "finish"} \/ (worker.pc = "next" /\ worker.forks = {})
      BY DEF Result, Finalized, FinishJob, IndexFails
    <3> QED BY <1>0, <3>1, <3>2, <3>3, <3>4, <3>5, ResultMoves
  <2>4. /\ worker'.pc = "index" => job'.finalized = <<>>
        /\ worker'.pc \in {"stamp", "lock", "meta", "forks", "next"} => job'.finalized = worker'.fin
        /\ worker'.pc = "finish" => job'.sub \/ job'.finalized = <<>>
    <3>1. CASE worker' = worker
      BY <2>1, <2>3, <3>1 DEF ResultInv
    <3>2. CASE Finalized /\ worker'.pc \in {"lock", "stamp"} /\ worker'.fin = worker.fin
      BY <2>2, <3>2
    <3>3. CASE (\E k \in AnyKind : IndexFails(k)) /\ worker.pc = "index" /\ worker'.pc = "finish"
      BY <2>2, <3>3 DEF ResultInv
    <3>4. CASE (\E k \in AnyKind : IndexComp(k)) /\ worker.pc = "index" /\ worker'.pc = "index"
      BY <2>1, <2>3, <3>4 DEF ResultInv
    <3>5. CASE ~Result /\ worker'.fin = worker.fin /\ worker.pc \in {"stamp", "lock", "meta", "forks", "next"}
               /\ worker'.pc \in {"stamp", "lock", "meta", "forks", "next", "finish"}
               /\ (worker'.pc = "finish" => job.sub)
      BY <2>1, <3>5 DEF ResultInv
    <3>6. ~FinishJob /\ ~Crash
      BY <1>5 DEF FinishJob, Crash, IdleWorker
    <3> QED BY <1>0, <1>5, <2>3, <3>1, <3>2, <3>3, <3>4, <3>5, <3>6, WorkerMoves
  <2>5. job.frame \in Frame /\ Usable(job.frame) /\ (job.frame \in Forks => fork[job.frame].pc = "done")
    BY <2>1, ConstantsAssumption DEF FramesInv, JobType, Usable
  <2>6. ASSUME \/ worker'.pc \in {"lock", "meta", "forks", "next"}
               \/ worker'.pc = "stamp" /\ worker'.at # job'.frame,
               ~job.sub
        PROVE  stamp'[job.frame] = worker'.fin["root"]
    <3>1. CASE WriteStamp /\ worker.at = job.frame
      BY <1>0, <2>5, <3>1 DEF WriteStamp, TypeOK, WorkerType
    <3>2. CASE ~(WriteStamp /\ worker.at = job.frame)
      <4>1. /\ worker'.fin = worker.fin
            /\ \/ worker.pc \in {"lock", "meta", "forks", "next"}
               \/ worker.pc = "stamp" /\ worker.at # job.frame
        BY <1>0, <1>5, <2>0, <2>1, <2>6, <3>2, WorkerMoves
      <4>2. stamp'[job.frame] = stamp[job.frame]
        BY <1>0, <2>5, <3>2, StampChange DEF ForkWriteStamp
      <4> QED BY <2>6, <4>1, <4>2 DEF ResultInv
    <3> QED BY <3>1, <3>2
  <2>7. ASSUME \/ worker'.pc \in {"forks", "next"}
               \/ worker'.pc \in {"stamp", "lock", "meta"} /\ worker'.at # job'.frame,
               ~job.sub, job.frame \notin Editable
        PROVE  HasSnaps(meta'[job.frame], worker'.fin)
    <3>1. meta[job.frame] \in MetaType
      BY <2>5, <2>7, UneditedWrite
    <3>2. CASE UpdateEnd /\ worker.at = job.frame
      <4>1. worker'.fin = worker.fin /\ rmw[job.frame] # None
        BY <1>0, <3>2 DEF UpdateEnd, WorkerType, LocalsOK
      <4>2. /\ rmw[job.frame].read \in MetaType
            /\ meta'[job.frame] = RecordSnap(rmw[job.frame].read, worker.job, worker.fin)
        BY <1>0, <2>5, <3>2, <4>1 DEF UpdateEnd, WriteAndUnlock, TypeOK, RmwType
      <4> QED BY <4>1, <4>2, RecordSnapSnaps
    <3>3. CASE ~(UpdateEnd /\ worker.at = job.frame)
      <4>1. /\ worker'.fin = worker.fin
            /\ \/ worker.pc \in {"forks", "next"}
               \/ worker.pc \in {"stamp", "lock", "meta"} /\ worker.at # job.frame
        BY <1>0, <1>5, <2>0, <2>1, <2>7, <3>3, WorkerMoves
      <4>2. HasSnaps(meta[job.frame], worker.fin)
        BY <2>7, <4>1 DEF ResultInv
      <4>3. \A t : HasSnaps(AddTaint(job.frame, meta[job.frame], t), worker.fin)
        BY <3>1, <4>2, AddTaintSnaps
      <4> QED BY <2>5, <2>7, <3>3, <4>1, <4>2, <4>3, UneditedWrite
    <3> QED BY <3>2, <3>3
  <2> QED BY <1>1, <2>1, <2>4, <2>6, <2>7 DEF ResultInv
<1> QED BY <1>3, <1>4, <1>5

-----------------------------------------------------------------------------
(* Chaining to the previous snap.                                          *)

\* A capture makes no frame in use pending but the one captured.
LEMMA CaptureUsable ==
    ASSUME QueueInv, Capture, NEW f \in Frame, Usable(f)
    PROVE  \/ framePendingSnap'[f] = framePendingSnap[f]
           \/ /\ framePendingSnap'[f] = Len(jobs) + 1 /\ ~jobs'[Len(jobs) + 1].sub
              /\ jobs'[Len(jobs) + 1].frame = f
<1>0. /\ TypeOK /\ LocalsOK /\ qmu # None /\ framePendingSnap \in [Frame -> Nat]
  BY CaptureEffect DEF QueueInv, TypeOK
<1>1. /\ jobs'[Len(jobs) + 1].frame = qmu.frame /\ qmu.frame \in Frame
      /\ framePendingSnap'[f] # framePendingSnap[f] =>
            framePendingSnap'[f] = Len(jobs) + 1 /\ ~jobs'[Len(jobs) + 1].sub
  BY CapturePending
<1>2. f # qmu.frame => framePendingSnap'[f] = framePendingSnap[f]
  <2>1. CASE ForkLocked
    <3>1. qmu.to # f
      BY <1>0, <2>1, ConstantsAssumption DEF ForkLocked, LocalsOK, Usable, TypeOK, QmuType
    <3> QED BY <1>0, <2>1, <3>1 DEF ForkLocked
  <2>2. CASE CaptureFull \/ ForkCloneFails
    BY <1>0, <2>2 DEF CaptureFull, ForkCloneFails
  <2>3. CASE \E c \in Content : CaptureSubdir(c)
    BY <2>3 DEF CaptureSubdir
  <2> QED BY <2>1, <2>2, <2>3 DEF Capture
<1> QED BY <1>1, <1>2

\* A settled job keeps its results.
LEMMA SettledStays ==
    ASSUME QueueInv, PendingInv, [Main]_vars, NEW p \in DOMAIN jobs, jobs[p].done
    PROVE  jobs'[p].done /\ jobs'[p].finalized = jobs[p].finalized
<1>0. TypeOK /\ QueueOrder
  BY DEF QueueInv
<1>1. CASE Result
  <2>1. worker.pc # "idle" /\ worker.job \in DOMAIN jobs
    BY <1>0, <1>1, ResultEffect
  <2>2. ~jobs[worker.job].done
    BY <2>1 DEF PendingInv, Waiting, IsWaiting
  <2> QED BY <1>0, <1>1, <2>2, ResultEffect
<1>2. CASE Capture
  <2>1. PICK jb \in JobType : Enqueue(jb) /\ UNCHANGED worker
    BY <1>0, <1>2, CaptureEffect
  <2> QED BY <1>0, <2>1, EnqueueEffect
<1> QED BY <1>1, <1>2, QueueChange DEF Pop, Crash

\* While a frame is not pending only /taint and subtree snaps touch its sidecar,
\* and nobody its stamp.
LEMMA SettledFrame ==
    ASSUME QueueInv, FramesInv, PendingInv, SidecarInv, ResultInv, [Main]_vars,
           NEW f \in Frame, Usable(f), framePendingSnap[f] = 0
    PROVE  /\ stamp'[f] = stamp[f]
           /\ f \notin Editable => \A fin : HasSnaps(meta[f], fin) => HasSnaps(meta'[f], fin)
<1>0. TypeOK /\ LocalsOK /\ QueueOrder /\ framePendingSnap \in [Frame -> Nat]
  BY DEF QueueInv, TypeOK
<1>1. worker.pc \in {"stamp", "lock", "meta"} /\ worker.at = f => f = job.frame
  BY DEF PendingInv, Updating
<1>2. worker.pc # "idle" /\ f = job.frame => job.sub
  <2> SUFFICES ASSUME worker.pc # "idle", f = job.frame, ~job.sub PROVE FALSE
    OBVIOUS
  <2>1. /\ worker.job \in DOMAIN jobs /\ job = jobs[worker.job] /\ worker.job > 0 /\ worker.job \in Nat
        /\ Waiting(worker.job)
    BY <1>0, WorkerJobDomain, JobsDomain DEF Waiting, IsWaiting
  <2>2. framePendingSnap[f] >= worker.job
    BY <2>1 DEF PendingInv
  <2> QED BY <2>1, <2>2
<1>3. stamp'[f] = stamp[f]
  <2>1. ~(WriteStamp /\ worker.at = f)
    BY <1>0, <1>1, <1>2 DEF WriteStamp, LocalsOK
  <2>2. ~(f \in Forks /\ ForkWriteStamp(f))
    BY ConstantsAssumption DEF ForkWriteStamp, Usable
  <2> QED BY <1>0, <2>1, <2>2, StampChange
<1>4. ASSUME f \notin Editable, NEW fin, HasSnaps(meta[f], fin)
      PROVE  HasSnaps(meta'[f], fin)
  <2>1. meta[f] \in MetaType
    BY <1>4, UneditedWrite
  <2>2. \A t : HasSnaps(AddTaint(f, meta[f], t), fin)
    BY <1>4, <2>1, AddTaintSnaps
  <2>3. worker.pc = "meta" /\ worker.at = f => DOMAIN worker.fin \cap Kinds = {}
    <3> SUFFICES ASSUME worker.pc = "meta", worker.at = f PROVE DOMAIN worker.fin \cap Kinds = {}
      OBVIOUS
    <3>1. job.sub /\ DOMAIN worker.fin = DOMAIN job.comps
      BY <1>0, <1>1, <1>2 DEF LocalsOK
    <3>2. DOMAIN job.comps = {"subdir"}
      BY <1>0, <3>1, WorkerJobDomain DEF ResultInv
    <3> QED BY <3>1, <3>2, ConstantsAssumption DEF Kinds
  <2>4. worker.pc = "meta" /\ worker.at = f =>
            HasSnaps(RecordSnap(meta[f], worker.job, worker.fin), fin)
    BY <1>4, <2>1, <2>3, RecordSnapSnaps
  <2> QED BY <1>1, <1>4, <2>2, <2>4, UneditedWrite
<1> QED BY <1>3, <1>4

\* What finishJob finds written for a full snap.
LEMMA FinishedFrame ==
    ASSUME QueueInv, ResultInv, FinishJob, ~job.sub
    PROVE  /\ worker.job \in DOMAIN jobs /\ job = jobs[worker.job]
           /\ "root" \in DOMAIN job.finalized => stamp[job.frame] = job.finalized["root"]
           /\ job.frame \notin Editable => HasSnaps(meta[job.frame], job.finalized)
<1>1. worker.pc \in {"finish", "next"}
  BY DEF FinishJob
<1>2. worker.job \in DOMAIN jobs /\ job = jobs[worker.job]
  BY <1>1, WorkerJobDomain DEF QueueInv
<1>3. CASE worker.pc = "finish"
  <2>1. DOMAIN job.finalized = {}
    BY <1>3 DEF ResultInv
  <2> QED BY <1>2, <2>1 DEF HasSnaps
<1>4. CASE worker.pc = "next"
  BY <1>2, <1>4 DEF ResultInv
<1> QED BY <1>1, <1>3, <1>4

\* The frame and the kind of a captured job never change.
LEMMA JobStays ==
    ASSUME QueueInv, [Main]_vars
    PROVE  /\ \A j \in DOMAIN jobs :
                 /\ jobs'[j].frame = jobs[j].frame /\ jobs'[j].sub = jobs[j].sub
                 /\ jobs'[j].comps = jobs[j].comps /\ jobs'[j].parentJob = jobs[j].parentJob
                 /\ jobs'[j].parentSnap = jobs[j].parentSnap
           /\ ~Capture => Len(jobs') = Len(jobs) /\ DOMAIN jobs' = DOMAIN jobs
           /\ Capture => Len(jobs') = Len(jobs) + 1 /\ DOMAIN jobs' = DOMAIN jobs \cup {Len(jobs) + 1}
<1>0. TypeOK /\ QueueOrder
  BY DEF QueueInv
<1>1. CASE Result
  BY <1>0, <1>1, ResultEffect DEF Result, Capture, Finalized, FinishJob, IndexFails, CaptureFull,
     ForkLocked, ForkCloneFails, CaptureSubdir, Enqueue
<1>2. CASE Capture
  <2>1. PICK jb \in JobType : Enqueue(jb) /\ UNCHANGED worker
    BY <1>0, <1>2, CaptureEffect
  <2> QED BY <1>0, <1>2, <2>1, EnqueueEffect
<1> QED BY <1>1, <1>2, QueueChange DEF Pop, Crash

\* The newest full snap of a frame was its newest before, unless it is captured now.
LEMMA LastSnapBefore ==
    ASSUME QueueInv, [Main]_vars, NEW f \in Frame, NEW p \in DOMAIN jobs', LastSnap(p, f)'
    PROVE  \/ /\ p \in DOMAIN jobs /\ LastSnap(p, f)
              /\ Capture => jobs'[Len(jobs) + 1].sub \/ jobs'[Len(jobs) + 1].frame # f
           \/ Capture /\ p = Len(jobs) + 1
<1>0. Len(jobs) \in Nat /\ DOMAIN jobs = 1..Len(jobs)
  BY JobsDomain DEF QueueInv
<1>1. /\ ~jobs'[p].sub /\ jobs'[p].frame = f
      /\ \A i \in (p + 1)..Len(jobs') : jobs'[i].sub \/ jobs'[i].frame # f
  BY DEF LastSnap
<1>2. ASSUME p \in DOMAIN jobs
      PROVE  /\ LastSnap(p, f)
             /\ Capture => jobs'[Len(jobs) + 1].sub \/ jobs'[Len(jobs) + 1].frame # f
  <2>1. p \in Nat /\ p <= Len(jobs) /\ Len(jobs) <= Len(jobs') /\ Len(jobs') \in Nat
    BY <1>0, <1>2, JobStays
  <2>2. \A i \in (p + 1)..Len(jobs) : i \in DOMAIN jobs /\ (jobs'[i].sub \/ jobs'[i].frame # f)
    BY <1>0, <1>1, <1>2, <2>1
  <2>3. \A i \in (p + 1)..Len(jobs) : jobs[i].sub \/ jobs[i].frame # f
    BY <2>2, JobStays
  <2>4. ~jobs[p].sub /\ jobs[p].frame = f
    BY <1>1, <1>2, JobStays
  <2>5. Capture => Len(jobs) + 1 \in (p + 1)..Len(jobs')
    BY <1>0, <2>1, JobStays
  <2> QED BY <1>1, <2>3, <2>4, <2>5 DEF LastSnap
<1> QED BY <1>2, JobStays

LEMMA SettledStep ==
    ASSUME QueueInv, FramesInv, PendingInv, SidecarInv, ResultInv, ParentInv, [Main]_vars,
           crashes = 0, ~Crash, NEW f \in Frame, NEW p \in DOMAIN jobs', LastSnap(p, f)', framePendingSnap'[f] # p
    PROVE  /\ framePendingSnap'[f] = 0 /\ jobs'[p].done
           /\ "root" \in DOMAIN jobs'[p].finalized => stamp'[f] = jobs'[p].finalized["root"]
           /\ f \notin Editable => HasSnaps(meta'[f], jobs'[p].finalized)
           /\ f \notin Editable /\ qmu' # None /\ qmu'.frame = f => HasSnaps(qmu'.read, jobs'[p].finalized)
<1>0. /\ TypeOK /\ QueueOrder /\ framePendingSnap \in [Frame -> Nat]
      /\ Len(jobs) \in Nat /\ DOMAIN jobs = 1..Len(jobs)
  BY JobsDomain DEF QueueInv, TypeOK
<1>1. /\ p \in DOMAIN jobs /\ LastSnap(p, f)
      /\ Capture => jobs'[Len(jobs) + 1].sub \/ jobs'[Len(jobs) + 1].frame # f
  <2>1. ~(Capture /\ p = Len(jobs) + 1)
    BY CapturePending DEF LastSnap
  <2> QED BY <2>1, LastSnapBefore
<1>2. jobs[p].frame = f /\ ~jobs[p].sub /\ Usable(f)
  BY <1>1 DEF LastSnap, FramesInv
<1>3. Capture => framePendingSnap'[f] = framePendingSnap[f]
  BY <1>1, <1>2, CaptureUsable
<1>4. CASE framePendingSnap[f] # p
  <2>1. /\ framePendingSnap[f] = 0 /\ jobs[p].done
        /\ "root" \in DOMAIN jobs[p].finalized => stamp[f] = jobs[p].finalized["root"]
        /\ f \notin Editable => HasSnaps(meta[f], jobs[p].finalized)
        /\ f \notin Editable /\ qmu # None /\ qmu.frame = f => HasSnaps(qmu.read, jobs[p].finalized)
    BY <1>1, <1>4 DEF ParentInv
  <2>2. jobs'[p].done /\ jobs'[p].finalized = jobs[p].finalized
    BY <1>1, <2>1, SettledStays
  <2>3. framePendingSnap'[f] = 0
    BY <1>3, <2>1, PendingChange DEF FinishJob
  <2>4. /\ stamp'[f] = stamp[f]
        /\ f \notin Editable => HasSnaps(meta'[f], jobs[p].finalized)
    BY <1>2, <2>1, SettledFrame
  <2>5. f \notin Editable /\ qmu' # None /\ qmu'.frame = f => HasSnaps(qmu'.read, jobs[p].finalized)
    <3>1. CASE qmu' = qmu \/ qmu' = None
      BY <2>1, <3>1
    <3>2. CASE \E x \in Frame : \/ SnapFull(x) \/ SnapSubdir(x)
                                \/ \E g \in Forks : ForkCapture(g) /\ fork[g].src = x
      <4>1. PICK x \in Frame : qmu'.frame = x /\ qmu'.read = meta[x]
        BY <3>2 DEF SnapFull, SnapSubdir, ForkCapture, CaptureBegin
      <4> QED BY <2>1, <4>1
    <3> QED BY <1>0, <3>1, <3>2, QmuChange
  <2> QED BY <2>1, <2>2, <2>3, <2>4, <2>5
<1>5. CASE framePendingSnap[f] = p
  <2>1. FinishJob
    BY <1>3, <1>5, PendingChange
  <2>2. framePendingSnap'[f] = IF framePendingSnap[f] = worker.job THEN 0 ELSE framePendingSnap[f]
    BY <2>1 DEF FinishJob
  <2>3. p = worker.job /\ framePendingSnap'[f] = 0
    BY <1>5, <2>2
  <2>4. worker.pc # "idle" /\ job = jobs[p]
    BY <2>1, <2>3 DEF FinishJob, job
  <2>5. /\ "root" \in DOMAIN job.finalized => stamp[f] = job.finalized["root"]
        /\ f \notin Editable => HasSnaps(meta[f], job.finalized)
    BY <1>2, <2>1, <2>4, FinishedFrame
  <2>6. jobs'[p] = [job EXCEPT !.done = TRUE]
    <3>1. ~Finalized
      BY <2>1 DEF FinishJob, Finalized
    <3> QED BY <1>0, <2>1, <2>3, <3>1, ResultEffect DEF Result
  <2>7. jobs'[p].done /\ jobs'[p].finalized = job.finalized
    <3>1. job \in JobType
      BY <1>0, <2>4, WorkerJobDomain
    <3> QED BY <2>6, <3>1 DEF JobType
  <2>8. stamp' = stamp /\ meta' = meta /\ qmu' = None
    BY <2>1 DEF FinishJob
  <2> QED BY <2>3, <2>5, <2>7, <2>8
<1> QED BY <1>4, <1>5

\* A full capture records the snaps of the frame's newest full snap as parents.
LEMMA CaptureParents ==
    ASSUME QueueInv, FramesInv, ResultInv, ParentInv, Capture, crashes = 0,
           NEW p \in DOMAIN jobs, LastSnap(p, qmu.frame), framePendingSnap[qmu.frame] # p,
           ~jobs'[Len(jobs) + 1].sub
    PROVE  LET n == Len(jobs) + 1
           IN  /\ jobs'[n].parentJob = 0 /\ jobs[p].done
               /\ \A k \in DOMAIN jobs'[n].comps \cap DOMAIN jobs[p].finalized :
                     k = "root" \/ qmu.frame \notin Editable =>
                         jobs'[n].parentSnap[k] = jobs[p].finalized[k]
<1>0. TypeOK /\ QueueOrder
  BY DEF QueueInv
<1>1. PICK jb \in JobType :
              /\ Enqueue(jb) /\ UNCHANGED worker /\ qmu # None /\ qmu \in QmuType
              /\ \/ jb = FullJob(qmu.frame, qmu.read) /\ jb.sub = FALSE
                 \/ jb.sub = TRUE
  BY <1>0, CaptureEffect
<1>2. jobs'[Len(jobs) + 1] = jb
  BY <1>0, <1>1, EnqueueEffect
<1>3. PICK f \in Frame : f = qmu.frame
  BY <1>1 DEF QmuType
<1>4. /\ framePendingSnap[f] = 0 /\ jobs[p].done
      /\ "root" \in DOMAIN jobs[p].finalized => stamp[f] = jobs[p].finalized["root"]
      /\ f \notin Editable => HasSnaps(qmu.read, jobs[p].finalized)
  BY <1>1, <1>3 DEF ParentInv
<1>5. qmu.read # None
  BY <1>1 DEF FramesInv
<1>6. jb = FullJob(f, qmu.read)
  BY <1>1, <1>2, <1>3
<1>7. /\ jb.parentJob = framePendingSnap[f] /\ jb.comps = CapturedComps(f)
      /\ jb.parentSnap = [k \in DOMAIN CapturedComps(f) |-> CapturedParent(f, qmu.read, k)]
  BY <1>6 DEF FullJob, NewJob, CaptureBase
<1>8. DOMAIN CapturedComps(f) \subseteq Kinds
  BY DEF CapturedComps, Kinds
<1>9. ASSUME NEW k \in DOMAIN jb.comps, k \in DOMAIN jobs[p].finalized,
             k = "root" \/ f \notin Editable
      PROVE  jb.parentSnap[k] = jobs[p].finalized[k]
  <2>1. jb.parentSnap[k] = CapturedParent(f, qmu.read, k) /\ k \in Kinds
    BY <1>7, <1>8, <1>9
  <2>2. CASE k = "root"
    <3>1. jobs[p].finalized \in PartialFun(Content)
      BY <1>0, JobsDomain DEF JobType
    <3>2. jobs[p].finalized[k] \in Content
      BY <1>9, <3>1, PartialFunElim
    <3>3. stamp[f] = jobs[p].finalized[k] /\ stamp[f] # NoSnap
      BY <1>4, <1>9, <2>2, <3>2, ConstantsAssumption
    <3> QED BY <2>1, <2>2, <3>3 DEF CapturedParent
  <2>3. CASE k # "root"
    <3>1. k \in OptKinds /\ f \notin Editable
      BY <1>9, <2>1, <2>3 DEF Kinds
    <3>2. qmu.read.snap[k] = jobs[p].finalized[k]
      BY <1>4, <1>9, <3>1 DEF HasSnaps
    <3> QED BY <1>5, <2>1, <2>3, <3>2 DEF CapturedParent
  <2> QED BY <2>2, <2>3
<1> QED BY <1>2, <1>3, <1>4, <1>7, <1>9

LEMMA ParentStep ==
    ASSUME QueueInv, FramesInv, PendingInv, SidecarInv, ResultInv, ParentInv, [Main]_vars
    PROVE  ParentInv'
<1>0. /\ TypeOK /\ QueueOrder /\ crashes \in Nat
      /\ Len(jobs) \in Nat /\ DOMAIN jobs = 1..Len(jobs)
  BY JobsDomain DEF QueueInv, TypeOK
<1> SUFFICES ASSUME crashes' = 0 PROVE ParentInv'
  BY DEF ParentInv
<1>1. crashes = 0 /\ ~Crash
  <2>1. crashes' = crashes \/ Crash
    BY Zenon DEF Main, vars, Client, Handler, MainFailure, MainWorker, UserWrite, SnapFull, SnapSubdir, CaptureBegin,
       TaintBegin, ForkRead, PruneRead, CloneReadSource, CaptureFull, CaptureSubdir, ForkLocked,
       ForkCapture, ForkWriteSidecar, ForkWriteStamp, TaintEnd, CloneReadTarget, HistoryWrite, CaptureFails,
       ForkCloneFails, ForkSetupFails, IndexFails, Pop, IndexComp, Finalized, WriteStamp, UpdateBegin,
       UpdateEnd, ForkedFrames, NextFork, FinishJob
  <2>2. ~Crash
    BY <1>0 DEF Crash
  <2> QED BY <2>1, <2>2
<1>2. ASSUME NEW f \in Frame, NEW p \in DOMAIN jobs', LastSnap(p, f)', framePendingSnap'[f] # p
      PROVE  /\ framePendingSnap'[f] = 0 /\ jobs'[p].done
             /\ "root" \in DOMAIN jobs'[p].finalized => stamp'[f] = jobs'[p].finalized["root"]
             /\ f \notin Editable => HasSnaps(meta'[f], jobs'[p].finalized)
             /\ f \notin Editable /\ qmu' # None /\ qmu'.frame = f => HasSnaps(qmu'.read, jobs'[p].finalized)
  BY <1>1, <1>2, SettledStep
<1>3. ASSUME NEW j \in DOMAIN jobs', NEW p \in DOMAIN jobs', WaitingNext(j), ~jobs'[j].sub,
             PreviousSnap(p, j)', jobs'[j].parentJob # p
      PROVE  /\ jobs'[j].parentJob = 0 /\ jobs'[p].done
             /\ \A k \in DOMAIN jobs'[j].comps \cap DOMAIN jobs'[p].finalized :
                   k = "root" \/ jobs'[j].frame \notin Editable =>
                       jobs'[j].parentSnap[k] = jobs'[p].finalized[k]
  <2>1. /\ p < j /\ ~jobs'[p].sub /\ jobs'[p].frame = jobs'[j].frame
        /\ \A i \in (p + 1)..(j - 1) : jobs'[i].sub \/ jobs'[i].frame # jobs'[j].frame
    BY <1>3 DEF PreviousSnap
  <2>2. /\ j \in Nat /\ p \in Nat /\ p > 0 /\ p \in DOMAIN jobs
        /\ j \in DOMAIN jobs \/ (Capture /\ j = Len(jobs) + 1)
    BY <1>0, <1>3, <2>1, JobStays
  <2>3. \A i \in (p + 1)..(j - 1) : i \in DOMAIN jobs
    BY <1>0, <2>2
  <2>4. \A i \in (p + 1)..(j - 1) : jobs[i].sub \/ jobs[i].frame # jobs'[j].frame
    BY <2>1, <2>3, JobStays
  <2>5. ~jobs[p].sub /\ jobs[p].frame = jobs'[j].frame
    BY <2>1, <2>2, JobStays
  <2>6. CASE j \in DOMAIN jobs
    <3>1. Waiting(j) /\ ~jobs[j].sub /\ jobs[j].parentJob # p /\ jobs'[j].frame = jobs[j].frame
      BY <1>3, <2>6, WaitingStep, JobStays
    <3>2. PreviousSnap(p, j)
      BY <2>1, <2>4, <2>5, <3>1 DEF PreviousSnap
    <3>3. /\ jobs[j].parentJob = 0 /\ jobs[p].done
          /\ \A k \in DOMAIN jobs[j].comps \cap DOMAIN jobs[p].finalized :
                k = "root" \/ jobs[j].frame \notin Editable =>
                    jobs[j].parentSnap[k] = jobs[p].finalized[k]
      BY <1>1, <2>2, <2>6, <3>1, <3>2 DEF ParentInv
    <3>4. jobs'[p].done /\ jobs'[p].finalized = jobs[p].finalized
      BY <2>2, <3>3, SettledStays
    <3>5. /\ jobs'[j].parentJob = jobs[j].parentJob /\ jobs'[j].comps = jobs[j].comps
          /\ jobs'[j].parentSnap = jobs[j].parentSnap
      BY <2>6, JobStays
    <3> QED BY <3>1, <3>3, <3>4, <3>5
  <2>7. CASE Capture /\ j = Len(jobs) + 1
    <3>1. jobs'[j].frame = qmu.frame /\ qmu.frame \in Frame
      BY <2>7, CapturePending
    <3>2. LastSnap(p, qmu.frame)
      BY <1>0, <2>4, <2>5, <2>7, <3>1 DEF LastSnap
    <3>3. jobs'[j].parentJob = framePendingSnap[qmu.frame]
      <4>1. PICK jb \in JobType :
              /\ Enqueue(jb) /\ UNCHANGED worker /\ qmu # None /\ qmu \in QmuType
              /\ (jb = FullJob(qmu.frame, qmu.read) /\ jb.sub = FALSE) \/ jb.sub = TRUE
        BY <1>0, <2>7, CaptureEffect
      <4>2. jobs'[j] = jb
        BY <1>0, <2>7, <4>1, EnqueueEffect
      <4>3. jb = FullJob(qmu.frame, qmu.read)
        BY <1>3, <4>1, <4>2
      <4> QED BY <4>2, <4>3 DEF FullJob, NewJob, CaptureBase
    <3>4. /\ jobs'[j].parentJob = 0 /\ jobs[p].done
          /\ \A k \in DOMAIN jobs'[j].comps \cap DOMAIN jobs[p].finalized :
                k = "root" \/ qmu.frame \notin Editable => jobs'[j].parentSnap[k] = jobs[p].finalized[k]
      BY <1>1, <1>3, <2>2, <2>7, <3>2, <3>3, CaptureParents
    <3>5. jobs'[p].done /\ jobs'[p].finalized = jobs[p].finalized
      BY <2>2, <3>4, SettledStays
    <3> QED BY <3>1, <3>4, <3>5
  <2> QED BY <2>2, <2>6, <2>7
<1> QED BY <1>2, <1>3 DEF ParentInv, Waiting, WaitingNext

\* Nothing is pending, captured or held at start.
LEMMA SnapInit == Init => SnapInv
<1> SUFFICES ASSUME Init PROVE SnapInv
  OBVIOUS
<1>1. QueueInv /\ TypeOK
  BY QueueInit DEF QueueInv
<1>2. /\ jobs = <<>> /\ pending = <<>> /\ DOMAIN jobs = {} /\ qmu = None /\ tmp = {}
      /\ Len(jobs) = 0 /\ Len(pending) = 0 /\ Taken = 0
      /\ worker.pc = "idle" /\ worker.forks = {} /\ worker.fin = <<>> /\ DOMAIN worker.fin = {}
      /\ \A f \in Frame : framePendingSnap[f] = 0 /\ rmw[f] = None /\ edit[f] = None
      /\ \A g \in Forks : fork[g] = NoFork
  BY DEF Init, IdleWorker, Taken
<1>3. \A f \in Frame : /\ f \in Roots => /\ stamp[f] = InitSnap /\ meta[f].history = <<>>
                                         /\ \A k \in Kinds : meta[f].snap[k] \in {InitSnap, NoSnap}
                                         /\ meta[f] \in MetaType
                       /\ f \notin Roots => stamp[f] = NoSnap /\ meta[f] = None
  <2>1. \A f \in Roots : /\ meta[f].history = <<>>
                         /\ \A k \in Kinds : meta[f].snap[k] \in {InitSnap, NoSnap}
    BY DEF Init, EmptyMeta, Frame
  <2>2. \A f \in Frame : f \notin Roots => meta[f] = None
    BY DEF Init
  <2>3. \A f \in Roots : meta[f] \in MetaType
    <3>1. \A f \in Roots : meta[f] = [EmptyMeta EXCEPT !.snap = [k \in Kinds |->
                                               IF k = "root" THEN InitSnap ELSE NoSnap]]
      BY DEF Init, Frame
    <3>2. PICK e \in [Kinds -> SnapRef] : e = [k \in Kinds |-> IF k = "root" THEN InitSnap ELSE NoSnap]
      BY ConstantsAssumption DEF SnapRef
    <3>3. \A f \in Roots : meta[f] = [EmptyMeta EXCEPT !.snap = e]
      BY <3>1, <3>2
    <3> QED BY <3>3, EmptyMetaType DEF MetaType
  <2> QED BY <2>1, <2>2, <2>3 DEF Init
<1>4. Published = {InitSnap} /\ Known = {InitSnap, Base, NoSnap} /\ snapMeta[InitSnap].parent = NoSnap
  <2>1. snapMeta[InitSnap] \in SnapMetaType /\ snapMeta[InitSnap].parent = NoSnap
    BY ConstantsAssumption DEF Init, SnapMetaType, SnapRef
  <2>2. snapMeta[InitSnap] # None
    BY <2>1, NoneAssumption
  <2>3. Published = {InitSnap}
    BY <2>2, ConstantsAssumption DEF Init, Published
  <2> QED BY <2>1, <2>3 DEF Known
<1>5. TmpInv
  BY <1>2 DEF TmpInv
<1>6. RefsInv
  <2>1. \A f \in Frame : stamp[f] \in Known /\ MetaKnown(meta[f])
    <3> SUFFICES ASSUME NEW f \in Frame PROVE stamp[f] \in Known /\ MetaKnown(meta[f])
      OBVIOUS
    <3>1. CASE f \in Roots
      BY <1>3, <1>4, <3>1 DEF MetaKnown
    <3>2. CASE f \notin Roots
      BY <1>3, <1>4, <3>2 DEF MetaKnown
    <3> QED BY <3>1, <3>2
  <2>2. \A g \in Forks : MetaKnown(fork[g].clone)
    BY <1>2 DEF NoFork, MetaKnown
  <2>3. \A s \in Published : snapMeta[s].parent \in Known
    BY <1>4
  <2> QED BY <1>2, <2>1, <2>2, <2>3 DEF RefsInv
<1>7. FramesInv
  <2>1. \A g \in Forks : fork[g].pc = "none" /\ fork[g].job = 0
    BY <1>2 DEF NoFork
  <2>2. \A f \in Frame : Usable(f) => meta[f] # None
    <3>1. \A f \in Frame : Usable(f) => f \in Roots
      BY <2>1 DEF Usable
    <3> QED BY <1>3, <3>1, NoneAssumption
  <2> QED BY <1>2, <2>1, <2>2 DEF FramesInv
<1>8. PendingInv
  BY <1>2 DEF PendingInv, Updating
<1>9. SidecarInv
  BY <1>2 DEF SidecarInv
<1>10. HistoryInv
  <2>1. \A f \in Frame : ~Owed(f)
    BY <1>2 DEF Owed, Updating
  <2>2. \A f \in Frame : \A n : MetaOrdered(meta[f], n)
    BY <1>3 DEF MetaOrdered, Descending
  <2>3. \A g \in Forks : \A n : MetaOrdered(fork[g].clone, n)
    BY <1>2, EmptyOrdered DEF NoFork
  <2>4. ~Recorded
    BY <1>2 DEF Recorded
  <2>5. Unedited \subseteq Frame
    BY DEF Unedited, Frame
  <2>6. \A g \in Forks : fork[g].job = 0
    BY <1>2 DEF NoFork
  <2> QED BY <1>2, <2>1, <2>2, <2>3, <2>4, <2>5, <2>6 DEF HistoryInv
<1>11. ResultInv
  BY <1>2 DEF ResultInv
<1>12. ParentInv
  BY <1>2 DEF ParentInv
<1>13. WritingInv
  <2>1. worker.writing = "none" /\ snapMeta[InitSnap].json
    BY ConstantsAssumption DEF Init, IdleWorker
  <2> QED BY <1>4, <2>1 DEF WritingInv
<1> QED BY <1>1, <1>5, <1>6, <1>7, <1>8, <1>9, <1>10, <1>11, <1>12, <1>13 DEF SnapInv

LEMMA MainStep ==
    ASSUME SnapInv, [Main]_vars PROVE SnapInv'
<1> USE DEF SnapInv
<1>1. QueueInv'
  BY QueueStep
<1>2. TmpInv' /\ RefsInv' /\ FramesInv'
  BY TmpStep, RefsStep, FramesStep
<1>3. PendingInv' /\ SidecarInv'
  BY PendingStep, SidecarStep
<1>4. HistoryInv'
  BY <1>3, HistoryStep
<1>5. ResultInv' /\ ParentInv' /\ WritingInv'
  BY ResultStep, ParentStep, WritingStep
<1> QED BY <1>1, <1>2, <1>3, <1>4, <1>5

\* Writing metadata, or not writing it, and a stalled client change nothing that
\* the invariant speaks of but the metadata of one published snap.
LEMMA AsideFrame ==
    ASSUME QueueInv, WritingInv, Aside
    PROVE  /\ live' = live /\ jobs' = jobs /\ pending' = pending
           /\ framePendingSnap' = framePendingSnap /\ tmp' = tmp /\ stamp' = stamp /\ meta' = meta
           /\ rmw' = rmw /\ edit' = edit /\ qmu' = qmu /\ fork' = fork /\ crashes' = crashes
           /\ worker'.pc = worker.pc /\ worker'.job = worker.job /\ worker'.fin = worker.fin
           /\ worker'.forks = worker.forks /\ worker'.at = worker.at /\ worker' \in WorkerType
           /\ worker'.writing \in {worker.writing, "none"}
           /\ snapMeta' \in [Content -> SnapMetaType \cup {None}]
           /\ Published' = Published
           /\ \A s \in Published : /\ snapMeta'[s].parent = snapMeta[s].parent
                                   /\ snapMeta'[s].seen = snapMeta[s].seen
                                   /\ ~snapMeta'[s].json => ~snapMeta[s].json /\ snapMeta'[s].taints = snapMeta[s].taints
<1>0. TypeOK /\ LocalsOK /\ QueueOrder /\ ChainOrder
  BY DEF QueueInv
<1>1. CASE SnapMetaUnwritten \/ ClientStalls
  BY <1>0, <1>1 DEF SnapMetaUnwritten, ClientStalls, TypeOK, WorkerType, Published
<1>2. CASE WriteSnapMeta
  <2> DEFINE k == worker.writing
             id == job.comps[k]
             given == IndexedTaints(worker.job, k)
             old == snapMeta[id]
             new == [old EXCEPT !.json = TRUE, !.taints = WrittenTaints(old, given)]
  <2>1. /\ id \in Published /\ Published \subseteq Content
    BY <1>2 DEF WriteSnapMeta, WritingInv, Published
  <2>2. old \in SnapMetaType
    BY <1>0, <2>1 DEF Published, TypeOK
  <2>3. given \in SUBSET Taints
    <3>1. job \in JobType
      BY <1>0, <1>2, WorkerJobIndex DEF WriteSnapMeta
    <3>2. jobs[worker.job].taints \in SUBSET Taints
      BY <3>1 DEF JobType, job
    <3>3. \A s : SnapTaints(s) \in SUBSET Taints
      BY <1>0 DEF SnapTaints, Published, TypeOK, SnapMetaType
    <3> QED BY <3>2, <3>3 DEF IndexedTaints
  <2>4. WrittenTaints(old, given) \in SUBSET Taints
    BY <2>2, <2>3 DEF WrittenTaints, SnapMetaType
  <2>5. /\ new \in SnapMetaType /\ new # None /\ new.json
        /\ new.parent = old.parent /\ new.seen = old.seen
    BY <2>2, <2>4, NoneAssumption DEF SnapMetaType
  <2>6. snapMeta' = [snapMeta EXCEPT ![id] = new]
    BY <1>0, <1>2, <2>1 DEF WriteSnapMeta, TypeOK
  <2>7. snapMeta \in [Content -> SnapMetaType \cup {None}]
    BY <1>0 DEF TypeOK
  <2> HIDE DEF new
  <2>8. /\ snapMeta' \in [Content -> SnapMetaType \cup {None}] /\ Published' = Published
        /\ \A s \in Published : /\ snapMeta'[s].parent = snapMeta[s].parent
                                /\ snapMeta'[s].seen = snapMeta[s].seen
                                /\ ~snapMeta'[s].json => ~snapMeta[s].json /\ snapMeta'[s].taints = snapMeta[s].taints
    BY <2>1, <2>5, <2>6, <2>7 DEF Published
  <2>9. /\ worker'.pc = worker.pc /\ worker'.job = worker.job /\ worker'.fin = worker.fin
        /\ worker'.forks = worker.forks /\ worker'.at = worker.at /\ worker' \in WorkerType
        /\ worker'.writing = "none"
    BY <1>0, <1>2 DEF WriteSnapMeta, TypeOK, WorkerType
  <2> QED BY <1>2, <2>8, <2>9 DEF WriteSnapMeta
<1> QED BY <1>1, <1>2 DEF Aside

LEMMA AsideStep ==
    ASSUME SnapInv, Aside PROVE SnapInv'
<1>0. /\ QueueInv /\ TmpInv /\ RefsInv /\ FramesInv /\ PendingInv /\ SidecarInv
      /\ HistoryInv /\ ResultInv /\ ParentInv /\ WritingInv
  BY DEF SnapInv
<1>1. /\ live' = live /\ jobs' = jobs /\ pending' = pending
      /\ framePendingSnap' = framePendingSnap /\ tmp' = tmp /\ stamp' = stamp /\ meta' = meta
      /\ rmw' = rmw /\ edit' = edit /\ qmu' = qmu /\ fork' = fork /\ crashes' = crashes
      /\ worker'.pc = worker.pc /\ worker'.job = worker.job /\ worker'.fin = worker.fin
      /\ worker'.forks = worker.forks /\ worker'.at = worker.at
  BY <1>0, AsideFrame
<1>2. Published' = Published /\ Known' = Known /\ \A s \in Published : snapMeta'[s].parent = snapMeta[s].parent
  BY <1>0, AsideFrame DEF Known
<1>3. job' = job /\ Taken' = Taken
  BY <1>1 DEF job, Taken
<1>4. \A f : Usable(f)' <=> Usable(f)
  BY <1>1 DEF Usable
<1>5. \A j : Waiting(j)' <=> Waiting(j)
  BY <1>1 DEF Waiting, IsWaiting
<1>6. \A f : (Updating(f)' <=> Updating(f)) /\ (Owed(f)' <=> Owed(f))
  BY <1>1, <1>3 DEF Updating, Owed
<1>7. QueueInv'
  <2>1. TypeOK'
    BY <1>0, <1>1, AsideFrame DEF QueueInv, TypeOK
  <2>2. LocalsOK'
    BY <1>0, <1>1, <1>3 DEF QueueInv, LocalsOK
  <2>3. QueueOrder'
    BY <1>0, <1>1 DEF QueueInv, QueueOrder
  <2>4. PendingIsUnfinished' /\ ChainOrder'
    BY <1>0, <1>1 DEF QueueInv, PendingIsUnfinished, ChainOrder, Waiting, IsWaiting
  <2> QED BY <2>1, <2>2, <2>3, <2>4 DEF QueueInv
<1>8. TmpInv'
  BY <1>0, <1>1 DEF TmpInv
<1>9. RefsInv'
  BY <1>0, <1>1, <1>2 DEF RefsInv, MetaKnown
<1>10. FramesInv'
  BY <1>0, <1>1, <1>4 DEF FramesInv
<1>11. PendingInv'
  <2>1. \A f \in Frame : framePendingSnap'[f] # 0 =>
           /\ ~jobs'[framePendingSnap'[f]].sub
           /\ \/ jobs'[framePendingSnap'[f]].frame = f
              \/ f \in Forks /\ framePendingSnap'[f] = fork'[f].job
    BY <1>0, <1>1 DEF PendingInv
  <2>2. \A j \in DOMAIN jobs' : Waiting(j)' =>
           ~jobs'[j].done /\ (~jobs'[j].sub => framePendingSnap'[jobs'[j].frame] >= j)
    BY <1>0, <1>1, <1>5 DEF PendingInv
  <2>3. \A f \in Frame : f \in worker'.forks \/ (Updating(f)' /\ f # job'.frame) =>
           /\ f \in Forks /\ f # job'.frame
           /\ worker'.job = fork'[f].job /\ framePendingSnap'[f] # 0
    BY <1>0, <1>1, <1>3, <1>6 DEF PendingInv
  <2>4. \A f \in worker'.forks : worker'.pc # "idle" /\ ~Updating(f)'
    BY <1>0, <1>1, <1>6 DEF PendingInv
  <2> QED BY <2>1, <2>2, <2>3, <2>4 DEF PendingInv
<1>12. SidecarInv'
  BY <1>0, <1>1, <1>3, <1>4 DEF SidecarInv
<1>13. HistoryInv'
  <2>1. Recorded' <=> Recorded
    BY <1>1, <1>3 DEF Recorded
  <2>2. \A f \in Unedited :
           /\ MetaOrdered(meta'[f], Taken')
           /\ Owed(f)' => MetaOrdered(meta'[f], worker'.job - 1)
           /\ rmw'[f] # None /\ rmw'[f].by = "worker" => MetaOrdered(rmw'[f].read, worker'.job - 1)
    BY <1>0, <1>1, <1>3, <1>6 DEF HistoryInv
  <2>3. \A g \in Forks \cap Unedited :
           /\ MetaOrdered(fork'[g].clone, Taken')
           /\ fork'[g].job # 0 => MetaOrdered(fork'[g].clone, fork'[g].job - 1)
    BY <1>0, <1>1, <1>3 DEF HistoryInv
  <2>4. \A j \in DOMAIN jobs' :
           jobs'[j].frame \in Roots \ Editable /\ jobs'[j].done /\ ~jobs'[j].err
               => InHistory(j, meta'[jobs'[j].frame])
    BY <1>0, <1>1 DEF HistoryInv
  <2>5. Recorded' /\ job'.frame \in Roots \ Editable => InHistory(worker'.job, meta'[job'.frame])
    BY <1>0, <1>1, <1>3, <2>1 DEF HistoryInv
  <2> QED BY <2>2, <2>3, <2>4, <2>5 DEF HistoryInv
<1>14. ResultInv'
  BY <1>0, <1>1, <1>3 DEF ResultInv, HasSnaps
<1>15. ParentInv'
  BY <1>0, <1>1, <1>5 DEF ParentInv, LastSnap, PreviousSnap, HasSnaps
<1>16. WritingInv'
  <2>1. /\ worker'.writing \in {worker.writing, "none"}
        /\ \A s \in Published : /\ snapMeta'[s].seen = snapMeta[s].seen
                                /\ ~snapMeta'[s].json => ~snapMeta[s].json /\ snapMeta'[s].taints = snapMeta[s].taints
    BY <1>0, AsideFrame
  <2> QED BY <1>0, <1>1, <1>2, <1>3, <2>1 DEF WritingInv
<1> QED BY <1>7, <1>8, <1>9, <1>10, <1>11, <1>12, <1>13, <1>14, <1>15, <1>16 DEF SnapInv

LEMMA SnapStep ==
    ASSUME SnapInv, [Next]_vars PROVE SnapInv'
BY NextSplit, MainStep, AsideStep

-----------------------------------------------------------------------------
(* The theorems.                                                           *)

\* SnapInv is an inductive invariant: the queue, the files of every frame, the
\* copies that captures, forks, edits and the worker hold of them, and the snaps
\* published so far stay consistent with each other, crashes included.
THEOREM SnapInvariant == Spec => []SnapInv
BY SnapInit, SnapStep, PTL DEF Spec

\* QueueInv is an inductive invariant of the specification.
THEOREM QueueInvariant == Spec => []QueueInv
<1>1. SnapInv => QueueInv
  BY DEF SnapInv
<1> QED BY <1>1, SnapInvariant, PTL

\* Every variable keeps its type.
THEOREM TypeCorrect == Spec => []TypeOK
<1>1. QueueInv => TypeOK
  BY DEF QueueInv
<1> QED BY <1>1, QueueInvariant, PTL

\* FIFO chaining is safe: the job the worker's job is chained to is always
\* settled, so processJob may read its finalized IDs without a lock.
THEOREM ChainingSafe == Spec => []ParentJobSettled
<1>1. QueueInv => ParentJobSettled
  <2> SUFFICES ASSUME QueueInv, worker.pc # "idle", job.parentJob # 0
               PROVE  jobs[job.parentJob].done
    BY DEF ParentJobSettled
  <2>1. worker.job \in 1..Len(jobs) /\ worker.job = Len(jobs) - Len(pending)
        /\ Len(jobs) \in Nat /\ Len(pending) \in Nat
    BY WorkerJobIndex DEF QueueInv, QueueOrder, TypeOK
  <2>2. Waiting(worker.job)
    BY DEF Waiting, IsWaiting
  <2>3. /\ job.parentJob \in 1..(worker.job - 1)
        /\ jobs[job.parentJob].done \/ Waiting(job.parentJob)
    BY <2>1, <2>2 DEF QueueInv, ChainOrder, job
  <2>4. ~Waiting(job.parentJob)
    BY <2>1, <2>3 DEF Waiting, IsWaiting
  <2> QED BY <2>3, <2>4
<1> QED BY <1>1, QueueInvariant, PTL

\* No frame's pending entry outlives its job (finishJob clears every one).
THEOREM PendingEntriesLive == Spec => []PendingIsUnfinished
<1>1. QueueInv => PendingIsUnfinished
  BY DEF QueueInv
<1> QED BY <1>1, QueueInvariant, PTL

\* A finished job has nothing left in snaps/*.tmp, whichever way it ended.
THEOREM NoTmpLeaks == Spec => []NoTmpLeak
<1>1. SnapInv => NoTmpLeak
  BY DEF SnapInv, TmpInv, NoTmpLeak
<1> QED BY <1>1, SnapInvariant, PTL

\* Stamps, sidecars and parent links only ever name published snaps, also after
\* a crash between any two steps of the pipeline.
THEOREM ReferencesSound == Spec => []ReferencesPublished
<1>1. SnapInv => ReferencesPublished
  <2> SUFFICES ASSUME RefsInv, NEW f \in Frame
               PROVE  {stamp[f]} \cup MetaRefs(meta[f]) \subseteq Known
    BY DEF SnapInv, RefsInv, ReferencesPublished, Known
  <2>1. stamp[f] \in Known
    BY DEF RefsInv
  <2>2. CASE meta[f] = None
    BY <2>1, <2>2 DEF MetaRefs
  <2>3. CASE meta[f] # None
    <3>1. /\ \A k \in Kinds : meta[f].snap[k] \in Known
          /\ \A a \in DOMAIN meta[f].history : meta[f].history[a] \in DOMAIN jobs
      BY <2>3 DEF RefsInv, MetaKnown
    <3>2. \A j \in DOMAIN jobs : \A k : k \in DOMAIN jobs[j].finalized => jobs[j].finalized[k] \in Known
      BY DEF RefsInv, Known
    <3> QED BY <2>1, <2>3, <3>1, <3>2 DEF MetaRefs
  <2> QED BY <2>2, <2>3
<1> QED BY <1>1, SnapInvariant, PTL

\* Parent links never form a cycle: a known tree indexed again keeps the parent
\* it has, and a new one gets a parent published before it.
THEOREM AncestryEnds == Spec => []AncestryWellFounded
<1>1. Init => AncestryWellFounded
  <2> SUFFICES ASSUME Init, NEW S \in SUBSET Published, S # {}
               PROVE  \E s \in S : snapMeta[s].parent \notin S
    BY DEF AncestryWellFounded
  <2>1. Published \subseteq {InitSnap} /\ NoSnap \notin Published /\ snapMeta[InitSnap].parent = NoSnap
    BY ConstantsAssumption DEF Init, Published
  <2> QED BY <2>1
<1>2. SnapInv /\ AncestryWellFounded /\ [Next]_vars => AncestryWellFounded'
  <2> SUFFICES ASSUME QueueInv, RefsInv, WritingInv, AncestryWellFounded, [Next]_vars
               PROVE  AncestryWellFounded'
    BY DEF SnapInv
  <2>1. CASE [Main]_vars
    BY <2>1, AncestryStep
  <2>2. CASE Aside
    <3>1. Published' = Published /\ \A s \in Published : snapMeta'[s].parent = snapMeta[s].parent
      BY <2>2, AsideFrame
    <3> QED BY <3>1 DEF AncestryWellFounded
  <2> QED BY <2>1, <2>2, NextSplit
<1> QED BY <1>1, <1>2, SnapInvariant, PTL DEF Spec

\* Deduplication never drops a taint that every capture of a tree carried from a snap
\* whose metadata exists, whatever writes failed or were cut off by a crash.
THEOREM TaintsKept == Spec => []TaintsNotLaundered
<1>1. Init => TaintsNotLaundered
  <2> SUFFICES ASSUME Init, NEW s \in Published, NEW t \in Taints
               PROVE  \E T \in snapMeta[s].seen : t \notin T
    BY DEF TaintsNotLaundered, Inherits
  <2>1. snapMeta[s].seen = {{}}
    BY DEF Init, Published
  <2> QED BY <2>1
<1>2. SnapInv /\ TaintsNotLaundered /\ [Next]_vars => TaintsNotLaundered'
  BY TaintsStep DEF SnapInv
<1> QED BY <1>1, <1>2, SnapInvariant, PTL DEF Spec

\* No step, of the worker, /taint or /fork, takes a taint out of the sidecar of
\* an initial frame whose history nobody edits.
THEOREM TaintsStayInSidecar == Spec => TaintsSticky
<1>1. SnapInv /\ [Next]_vars => [\A f \in Roots \ Editable : meta[f].taints \subseteq meta'[f].taints]_vars
  <2> SUFFICES ASSUME SnapInv, [Next]_vars
               PROVE  [\A f \in Roots \ Editable : meta[f].taints \subseteq meta'[f].taints]_vars
    OBVIOUS
  <2>1. CASE [Main]_vars
    BY <2>1, TaintsStay DEF SnapInv
  <2>2. CASE Aside
    BY <2>2, AsideFrame DEF SnapInv
  <2> QED BY <2>1, <2>2, NextSplit
<1> QED BY <1>1, SnapInvariant, PTL DEF Spec, TaintsSticky

\* Unedited histories list snaps newest first and miss no finished snap of an
\* initial frame, however worker, forks, taints and crashes interleave.
THEOREM HistoriesFaithful == Spec => []HistoryFaithful
<1>1. SnapInv => HistoryFaithful
  <2> SUFFICES ASSUME SnapInv, NEW f \in Unedited, meta[f] # None
               PROVE  /\ Descending(meta[f].history)
                      /\ f \in Roots =>
                           \A j \in DOMAIN jobs :
                             jobs[j].frame = f /\ jobs[j].done /\ ~jobs[j].err => InHistory(j, meta[f])
    BY DEF HistoryFaithful
  <2>1. Descending(meta[f].history)
    BY DEF SnapInv, HistoryInv, MetaOrdered
  <2>2. f \in Roots => f \in Roots \ Editable
    BY DEF Unedited
  <2> QED BY <2>1, <2>2 DEF SnapInv, HistoryInv
<1> QED BY <1>1, SnapInvariant, PTL

\* Without a crash every full snap is published with the previous full snap of
\* its frame as parent, whether that one was still pending at capture or not.
THEOREM ChainsIncrementally == Spec => []ChainsToPreviousSnap
<1>1. SnapInv => ChainsToPreviousSnap
  <2> SUFFICES ASSUME SnapInv, crashes = 0, worker.pc = "index", ~job.sub,
                      NEW p \in DOMAIN jobs, PreviousSnap(p, worker.job),
                      NEW k \in DOMAIN job.comps \cap DOMAIN jobs[p].finalized,
                      k = "root" \/ job.frame \notin Editable
               PROVE  ResolvedParent(worker.job, k) = jobs[p].finalized[k]
    BY DEF ChainsToPreviousSnap
  <2>1. TypeOK /\ QueueOrder /\ ParentInv
    BY DEF SnapInv, QueueInv
  <2>2. worker.job \in DOMAIN jobs /\ job = jobs[worker.job] /\ Waiting(worker.job) /\ p # 0
    BY <2>1, WorkerJobDomain, JobsDomain DEF Waiting, IsWaiting
  <2>3. CASE jobs[worker.job].parentJob = p
    BY <2>2, <2>3 DEF ResolvedParent
  <2>4. CASE jobs[worker.job].parentJob # p
    <3>1. /\ jobs[worker.job].parentJob = 0
          /\ jobs[worker.job].parentSnap[k] = jobs[p].finalized[k]
      BY <2>1, <2>2, <2>4 DEF ParentInv
    <3> QED BY <3>1 DEF ResolvedParent
  <2> QED BY <2>3, <2>4
<1> QED BY <1>1, SnapInvariant, PTL

=============================================================================
