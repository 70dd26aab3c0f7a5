----------------------------- MODULE SnapQueue -----------------------------
(***************************************************************************)
(* The snap pipeline of thundersnapd (cmd/thundersnapd/snapqueue.go).      *)
(*                                                                         *)
(* A snap has an instant half, taken under snapQueue.mu (btrfs snapshots   *)
(* of a frame's root, home and work subvolumes, then enqueue), and a slow  *)
(* half run by one background worker (index, content hash, publish under   *)
(* the hash, then record the result in the frame's stamp and sidecar).     *)
(* Three other parties touch the same sidecar: /taint, /fork and the       *)
(* history endpoints /prune-history and /clone-history.                    *)
(*                                                                         *)
(* Data abstraction: a subvolume's tree is a member of Content, and the    *)
(* content-addressed snap ID (SHA-256 of the tsm manifest) is that member. *)
(* A history entry (triplet and time) is the number of the job it records. *)
(***************************************************************************)
EXTENDS Naturals, Sequences, FiniteSets

CONSTANTS
    Roots,          \* frames that exist when the daemon starts
    Forks,          \* frame UUIDs that forkFrame may generate
    OptKinds,       \* the optional components, a subset of {"home", "work"}
    Content,        \* subvolume trees, and the snap IDs they hash to
    InitSnap,       \* the snap the initial frames were created from
    Taints,         \* taint names
    Empty,          \* an empty home or work directory
    Base,           \* the literal snap ID "1" used when a stamp is missing
    NoSnap,         \* the empty snap ID
    None,           \* no metadata, no operation in progress
    Editable,       \* frames whose history clients prune or overwrite
    Streams,        \* whether clients ask /snap to stream its progress
    MaxJobs,        \* bound: snaps captured in a behaviour
    MaxCrashes      \* bound: daemon crashes in a behaviour

Frame == Roots \cup Forks
Kinds == {"root"} \cup OptKinds
AnyKind == Kinds \cup {"subdir"}
SnapRef == Content \cup {Base, NoSnap}

ASSUME ConstantsAssumption ==
    /\ Roots \cap Forks = {}
    /\ OptKinds \subseteq {"home", "work"}
    /\ InitSnap \in Content
    /\ Empty \notin Content /\ Base \notin Content /\ NoSnap \notin Content
    /\ Base # NoSnap
    /\ None \notin Frame
    /\ Editable \subseteq Frame
    /\ Streams \in BOOLEAN
    /\ MaxJobs \in Nat /\ MaxCrashes \in Nat

VARIABLES
    live,             \* frame -> component -> its current tree
    jobs,             \* every snapJob ever captured, in capture order
    pending,          \* snapQueue.pending: job numbers, oldest first
    framePendingSnap, \* frame -> its newest unfinished job, 0 if none
    tmp,              \* captured subvolumes <<job, component>> still in snaps/*.tmp
    snapMeta,         \* snap ID -> its published directory with its parent, whether
                      \* its .jsonc was written, and the taints in it; None if not
                      \* published (seen is a history field: the taint sets of the
                      \* frames whose captures hashed to this ID)
    stamp,            \* frame -> content of its .stamp file
    meta,             \* frame -> its sidecar, None if the file does not exist
    rmw,              \* frame -> the frameMetaLock critical section in progress
    edit,             \* frame -> the unlocked history edit in progress
    qmu,              \* the capture holding snapQueue.mu, None when it is free
    fork,             \* new frame -> progress of the forkFrame call making it
    worker,           \* the indexing worker
    crashes

vars == <<live, jobs, pending, framePendingSnap, tmp, snapMeta, stamp, meta,
          rmw, edit, qmu, fork, worker, crashes>>

Published == {s \in Content : snapMeta[s] # None}

EmptyMeta == [snap |-> [k \in Kinds |-> NoSnap], taints |-> {}, history |-> <<>>]

IdleWorker == [pc |-> "idle", job |-> 0, fin |-> <<>>, forks |-> {}, at |-> None,
               writing |-> "none", blocked |-> FALSE]

NoFork == [pc |-> "none", src |-> None, clone |-> None, job |-> 0]

Init ==
    /\ live = [f \in Frame |-> [k \in Kinds |-> IF k = "root" THEN InitSnap ELSE Empty]]
    /\ jobs = <<>>
    /\ pending = <<>>
    /\ framePendingSnap = [f \in Frame |-> 0]
    /\ tmp = {}
    /\ snapMeta = [s \in Content |->
                     IF s = InitSnap
                     THEN [parent |-> NoSnap, json |-> TRUE, taints |-> {}, seen |-> {{}}]
                     ELSE None]
    /\ stamp = [f \in Frame |-> IF f \in Roots THEN InitSnap ELSE NoSnap]
    /\ meta = [f \in Frame |->
                 IF f \in Roots
                 THEN [EmptyMeta EXCEPT !.snap = [k \in Kinds |->
                                               IF k = "root" THEN InitSnap ELSE NoSnap]]
                 ELSE None]
    /\ rmw = [f \in Frame |-> None]
    /\ edit = [f \in Frame |-> None]
    /\ qmu = None
    /\ fork = [f \in Forks |-> NoFork]
    /\ worker = IdleWorker
    /\ crashes = 0

\* A frame clients can use: it was there at start, or its /fork call answered.
Usable(f) == f \in Roots \/ (f \in Forks /\ fork[f].pc = "done")

-----------------------------------------------------------------------------
(* Processes inside a frame change its files.                              *)

UserWrite(f, k, c) ==
    /\ Usable(f)
    /\ live[f][k] # c
    /\ k = "root" => c # Empty
    /\ live' = [live EXCEPT ![f][k] = c]
    /\ UNCHANGED <<jobs, pending, framePendingSnap, tmp, snapMeta, stamp, meta,
                   rmw, edit, qmu, fork, worker, crashes>>

-----------------------------------------------------------------------------
(* Capture: captureSnapJobLocked, entered from /snap or from forkFrame.    *)
(* The frame sidecar is read first and the subvolumes are snapshotted      *)
(* later; snapQueue.mu is held throughout but neither the worker's sidecar *)
(* update nor /taint takes that mutex, so the two reads are two steps.     *)

CaptureBegin(f, to, sub) ==
    /\ qmu = None
    /\ Len(jobs) < MaxJobs
    /\ qmu' = [frame |-> f, to |-> to, sub |-> sub, read |-> meta[f]]
    /\ UNCHANGED <<live, jobs, pending, framePendingSnap, tmp, snapMeta, stamp,
                   meta, rmw, edit, fork, worker, crashes>>

SnapFull(f) == Usable(f) /\ CaptureBegin(f, None, FALSE)
SnapSubdir(f) == Usable(f) /\ CaptureBegin(f, None, TRUE)
ForkCapture(g) == fork[g].pc = "read" /\ CaptureBegin(fork[g].src, g, FALSE)

\* The taints a capture inherits from the sidecar it read.
CapturedTaints(m) == IF m = None THEN {} ELSE m.taints

\* The components of a full snap: root always, the others unless empty.
CapturedComps(f) ==
    [k \in {"root"} \cup {o \in OptKinds : live[f][o] # Empty} |-> live[f][k]]

\* parentSnap of a component: the stamp for root, the sidecar for the others.
CapturedParent(f, m, k) ==
    IF k = "root"
    THEN IF stamp[f] = NoSnap THEN Base ELSE stamp[f]
    ELSE IF m = None THEN NoSnap ELSE m.snap[k]

\* Mutant: the pending map is not consulted.
CaptureBaseIgnoringPending(f) == 0

\* The job a new full snap of the frame is chained to.
CaptureBase(f) == framePendingSnap[f]

NewJob(f, sub, comps, taints, parentJob, parentSnap) ==
    [frame |-> f, sub |-> sub, comps |-> comps, taints |-> taints,
     parentJob |-> parentJob, parentSnap |-> parentSnap,
     finalized |-> <<>>, err |-> FALSE, done |-> FALSE]

Enqueue(job) ==
    /\ jobs' = Append(jobs, job)
    /\ pending' = Append(pending, Len(jobs) + 1)
    /\ tmp' = tmp \cup {<<Len(jobs) + 1, k>> : k \in DOMAIN job.comps}
    /\ qmu' = None

CaptureSubdir(c) ==
    /\ qmu # None /\ qmu.sub
    /\ Enqueue(NewJob(qmu.frame, TRUE, [k \in {"subdir"} |-> c],
                      CapturedTaints(qmu.read), 0, [k \in {"subdir"} |-> NoSnap]))
    /\ UNCHANGED <<live, framePendingSnap, snapMeta, stamp, meta, rmw, edit,
                   fork, worker, crashes>>

FullJob(f, m) ==
    LET comps == CapturedComps(f)
    IN  NewJob(f, FALSE, comps, CapturedTaints(m), CaptureBase(f),
               [k \in DOMAIN comps |-> CapturedParent(f, m, k)])

CaptureFull ==
    /\ qmu # None /\ ~qmu.sub /\ qmu.to = None
    /\ Enqueue(FullJob(qmu.frame, qmu.read))
    /\ framePendingSnap' = [framePendingSnap EXCEPT ![qmu.frame] = Len(jobs) + 1]
    /\ UNCHANGED <<live, snapMeta, stamp, meta, rmw, edit, fork, worker, crashes>>

\* A capture that fails part-way deletes what it captured and answers an error.
CaptureFails ==
    /\ qmu # None
    /\ qmu' = None
    /\ fork' = IF qmu.to = None THEN fork ELSE [fork EXCEPT ![qmu.to] = NoFork]
    /\ UNCHANGED <<live, jobs, pending, framePendingSnap, tmp, snapMeta, stamp,
                   meta, rmw, edit, worker, crashes>>

-----------------------------------------------------------------------------
(* Fork: forkFrame reads the source sidecar with no lock, captures the     *)
(* source and clones the captured subvolumes under snapQueue.mu, then      *)
(* writes the new frame's sidecar and stamp with no lock (cloneFrameSetup).*)

ForkRead(g, f) ==
    /\ fork[g].pc = "none"
    /\ Usable(f)
    /\ fork' = [fork EXCEPT ![g] = [pc |-> "read", src |-> f, job |-> 0,
                                    clone |-> IF meta[f] = None THEN EmptyMeta ELSE meta[f]]]
    /\ UNCHANGED <<live, jobs, pending, framePendingSnap, tmp, snapMeta, stamp,
                   meta, rmw, edit, qmu, worker, crashes>>

\* cloneFrameSubvolsLocked: the new frame starts from the captured components.
ClonedTree(comps) ==
    [k \in Kinds |-> IF k \in DOMAIN comps THEN comps[k] ELSE Empty]

ForkLocked ==
    /\ qmu # None /\ qmu.to # None
    /\ Enqueue(FullJob(qmu.frame, qmu.read))
    /\ framePendingSnap' = [framePendingSnap EXCEPT ![qmu.frame] = Len(jobs) + 1,
                                                    ![qmu.to] = Len(jobs) + 1]
    /\ live' = [live EXCEPT ![qmu.to] = ClonedTree(CapturedComps(qmu.frame))]
    /\ fork' = [fork EXCEPT ![qmu.to].pc = "sidecar", ![qmu.to].job = Len(jobs) + 1]
    /\ UNCHANGED <<snapMeta, stamp, meta, rmw, edit, worker, crashes>>

ForkWriteSidecar(g) ==
    /\ fork[g].pc = "sidecar"
    /\ meta' = [meta EXCEPT ![g] = fork[g].clone]
    /\ fork' = [fork EXCEPT ![g].pc = "stamp"]
    /\ UNCHANGED <<live, jobs, pending, framePendingSnap, tmp, snapMeta, stamp,
                   rmw, edit, qmu, worker, crashes>>

ForkWriteStamp(g) ==
    /\ fork[g].pc = "stamp"
    /\ stamp' = [stamp EXCEPT ![g] = fork[g].clone.snap["root"]]
    /\ fork' = [fork EXCEPT ![g].pc = "done"]
    /\ UNCHANGED <<live, jobs, pending, framePendingSnap, tmp, snapMeta, meta,
                   rmw, edit, qmu, worker, crashes>>

\* Cloning the subvolumes failed: the captured job stays queued, the new frame
\* is abandoned.
ForkCloneFails ==
    /\ qmu # None /\ qmu.to # None
    /\ Enqueue(FullJob(qmu.frame, qmu.read))
    /\ framePendingSnap' = [framePendingSnap EXCEPT ![qmu.frame] = Len(jobs) + 1]
    /\ fork' = [fork EXCEPT ![qmu.to].pc = "failed", ![qmu.to].job = Len(jobs) + 1]
    /\ UNCHANGED <<live, snapMeta, stamp, meta, rmw, edit, worker, crashes>>

\* Setting up the home, work or id subvolume failed before the sidecar write.
ForkSetupFails(g) ==
    /\ fork[g].pc = "sidecar"
    /\ fork' = [fork EXCEPT ![g].pc = "failed"]
    /\ UNCHANGED <<live, jobs, pending, framePendingSnap, tmp, snapMeta, stamp,
                   meta, rmw, edit, qmu, worker, crashes>>

-----------------------------------------------------------------------------
(* The sidecar read-modify-write of updateFrameMetaLocked. The lock        *)
(* excludes other users of the lock only, so the read and the write are    *)
(* two steps.                                                              *)

LockAndRead(f, by, taint) ==
    /\ rmw[f] = None
    /\ rmw' = [rmw EXCEPT ![f] = [by |-> by, taint |-> taint,
                                  read |-> IF meta[f] = None THEN EmptyMeta ELSE meta[f]]]

WriteAndUnlock(f, m) ==
    /\ meta' = [meta EXCEPT ![f] = m]
    /\ rmw' = [rmw EXCEPT ![f] = None]

\* handleTaint (POST).
TaintBegin(f, t) ==
    /\ Usable(f)
    /\ LockAndRead(f, "taint", t)
    /\ UNCHANGED <<live, jobs, pending, framePendingSnap, tmp, snapMeta, stamp,
                   meta, edit, qmu, fork, worker, crashes>>

\* The mutator of handleTaint.
AddTaint(f, m, t) ==
    [m EXCEPT !.snap["root"] = IF @ = NoSnap THEN stamp[f] ELSE @,
              !.taints = @ \cup {t}]

TaintEnd(f) ==
    /\ rmw[f] # None /\ rmw[f].by = "taint"
    /\ WriteAndUnlock(f, AddTaint(f, rmw[f].read, rmw[f].taint))
    /\ UNCHANGED <<live, jobs, pending, framePendingSnap, tmp, snapMeta, stamp,
                   edit, qmu, fork, worker, crashes>>

-----------------------------------------------------------------------------
(* /prune-history and /clone-history read and rewrite the sidecar through  *)
(* frames.Store, without frameMetaLock.                                    *)

\* The sequences no longer than h over the entries of h.
Shortened(h) == UNION {[1..n -> {h[a] : a \in DOMAIN h}] : n \in 0..Len(h)}

\* The entries of a history whose snaps are not the pruned ones, in order.
Keep(h, pruned) == SelectSeq(h, LAMBDA j : jobs[j].finalized \notin pruned)

PruneRead(f, j) ==
    /\ f \in Editable /\ Usable(f)
    /\ edit[f] = None /\ meta[f] # None
    /\ \E h \in Shortened(meta[f].history) :
          /\ h = Keep(meta[f].history, {jobs[j].finalized})
          /\ edit' = [edit EXCEPT ![f] = [pc |-> "write", read |-> meta[f], hist |-> h]]
    /\ UNCHANGED <<live, jobs, pending, framePendingSnap, tmp, snapMeta, stamp,
                   meta, rmw, qmu, fork, worker, crashes>>

CloneReadSource(f, src) ==
    /\ f \in Editable /\ Usable(f) /\ Usable(src)
    /\ edit[f] = None /\ meta[src] # None
    /\ edit' = [edit EXCEPT ![f] = [pc |-> "read", read |-> None,
                                    hist |-> meta[src].history]]
    /\ UNCHANGED <<live, jobs, pending, framePendingSnap, tmp, snapMeta, stamp,
                   meta, rmw, qmu, fork, worker, crashes>>

CloneReadTarget(f) ==
    /\ edit[f] # None /\ edit[f].pc = "read"
    /\ meta[f] # None
    /\ edit' = [edit EXCEPT ![f].pc = "write", ![f].read = meta[f]]
    /\ UNCHANGED <<live, jobs, pending, framePendingSnap, tmp, snapMeta, stamp,
                   meta, rmw, qmu, fork, worker, crashes>>

HistoryWrite(f) ==
    /\ edit[f] # None /\ edit[f].pc = "write"
    /\ meta' = [meta EXCEPT ![f] = [edit[f].read EXCEPT !.history = edit[f].hist]]
    /\ edit' = [edit EXCEPT ![f] = None]
    /\ UNCHANGED <<live, jobs, pending, framePendingSnap, tmp, snapMeta, stamp,
                   rmw, qmu, fork, worker, crashes>>

-----------------------------------------------------------------------------
(* The worker: run, processJob, indexAndFinalizeSubvol, finishJob.         *)

job == jobs[worker.job]

\* Mutant: the worker takes the newest job.
PopNewest ==
    /\ worker.pc = "idle"
    /\ pending # <<>>
    /\ qmu = None
    /\ worker' = [IdleWorker EXCEPT !.pc = "index", !.job = pending[Len(pending)]]
    /\ pending' = SubSeq(pending, 1, Len(pending) - 1)
    /\ UNCHANGED <<live, jobs, framePendingSnap, tmp, snapMeta, stamp, meta,
                   rmw, edit, qmu, fork, crashes>>

\* run: pop the oldest pending job.
Pop ==
    /\ worker.pc = "idle"
    /\ pending # <<>>
    /\ qmu = None
    /\ worker' = [IdleWorker EXCEPT !.pc = "index", !.job = Head(pending)]
    /\ pending' = Tail(pending)
    /\ UNCHANGED <<live, jobs, framePendingSnap, tmp, snapMeta, stamp, meta,
                   rmw, edit, qmu, fork, crashes>>

\* Components are indexed in the order they were captured.
Before(k) == CASE k = "home" -> {"root"} [] k = "work" -> {"root", "home"} [] OTHER -> {}

NextComp(k) ==
    /\ k \in DOMAIN job.comps \ DOMAIN worker.fin
    /\ Before(k) \cap DOMAIN job.comps \subseteq DOMAIN worker.fin

\* The parent of component k of job j: the chained job's snap if that job has
\* one, otherwise the snap recorded at capture.
ResolvedParent(j, k) ==
    LET p == jobs[j].parentJob
    IN  IF p # 0 /\ k \in DOMAIN jobs[p].finalized
        THEN jobs[p].finalized[k]
        ELSE jobs[j].parentSnap[k]

\* getSnapTaints.
SnapTaints(s) == IF s \in Published THEN snapMeta[s].taints ELSE {}

\* A capture without taints takes those of its parent snap.
IndexedTaints(j, k) ==
    IF jobs[j].taints = {} THEN SnapTaints(ResolvedParent(j, k)) ELSE jobs[j].taints

\* Mutant: indexing a known tree again replaces its parent.
PublishedMetaReplaced(id, parent, frameTaints) ==
    IF id \notin Published
    THEN [parent |-> parent, json |-> FALSE, taints |-> {}, seen |-> {frameTaints}]
    ELSE [snapMeta[id] EXCEPT !.parent = parent, !.seen = @ \cup {frameTaints}]

\* indexAndFinalizeSubvol: the renames publish the tree under its content ID, with
\* the stamp that names its parent; when that ID exists already the capture is
\* dropped.
PublishedMeta(id, parent, frameTaints) ==
    IF id \notin Published
    THEN [parent |-> parent, json |-> FALSE, taints |-> {}, seen |-> {frameTaints}]
    ELSE [snapMeta[id] EXCEPT !.seen = @ \cup {frameTaints}]

\* A new snap gets a .jsonc; that of a known one is written only if it is there
\* and the new capture has taints to intersect with.
MetaDue(id, taints) == id \notin Published \/ (snapMeta[id].json /\ taints # {})

\* Mutant: the component's ID is handed on before its snap is published.
IndexCompUnpublished(k) ==
    /\ worker.pc = "index" /\ worker.writing = "none"
    /\ NextComp(k)
    /\ worker' = [worker EXCEPT !.fin =
          [x \in DOMAIN worker.fin \cup {k} |-> IF x = k THEN job.comps[k] ELSE worker.fin[x]]]
    /\ tmp' = tmp \ {<<worker.job, k>>}
    /\ UNCHANGED <<live, jobs, pending, framePendingSnap, snapMeta, stamp, meta, rmw,
                   edit, qmu, fork, crashes>>

\* Up to the renames. The ID counts as the component's result from here on, but
\* nobody reads it before the metadata was written or its writing failed.
IndexComp(k) ==
    /\ worker.pc = "index" /\ worker.writing = "none"
    /\ NextComp(k)
    /\ LET id == job.comps[k]
       IN  /\ snapMeta' = [snapMeta EXCEPT ![id] =
                 PublishedMeta(id, ResolvedParent(worker.job, k), job.taints)]
           /\ worker' = [worker EXCEPT
                 !.fin = [x \in DOMAIN worker.fin \cup {k} |-> IF x = k THEN id ELSE worker.fin[x]],
                 !.writing = IF MetaDue(id, IndexedTaints(worker.job, k)) THEN k ELSE "none"]
    /\ tmp' = tmp \ {<<worker.job, k>>}
    /\ UNCHANGED <<live, jobs, pending, framePendingSnap, stamp, meta, rmw, edit,
                   qmu, fork, crashes>>

\* Mutant: a tree that is already known loses its taints.
WrittenTaintsLost(m, taints) == IF m.json THEN {} ELSE taints

\* IntersectTaints for a snap that has its metadata already.
WrittenTaints(m, taints) == IF m.json THEN m.taints \cap taints ELSE taints

\* writeSnapMeta for the component just published or found.
WriteSnapMeta ==
    /\ worker.pc = "index" /\ worker.writing # "none"
    /\ LET k == worker.writing
           id == job.comps[k]
       IN  snapMeta' = [snapMeta EXCEPT
              ![id].json = TRUE,
              ![id].taints = WrittenTaints(snapMeta[id], IndexedTaints(worker.job, k))]
    /\ worker' = [worker EXCEPT !.writing = "none"]
    /\ UNCHANGED <<live, jobs, pending, framePendingSnap, tmp, stamp, meta, rmw, edit,
                   qmu, fork, crashes>>

\* It fails: the error is logged and the snap goes on without metadata, or with
\* the metadata it had.
SnapMetaUnwritten ==
    /\ worker.pc = "index" /\ worker.writing # "none"
    /\ worker' = [worker EXCEPT !.writing = "none"]
    /\ UNCHANGED <<live, jobs, pending, framePendingSnap, tmp, snapMeta, stamp, meta,
                   rmw, edit, qmu, fork, crashes>>

\* The worker writes progress and result to the client of a streaming /snap itself,
\* without a deadline: a client that stays connected and stops reading holds it up
\* for good. The snap of a fork has no such client.
ClientStalls ==
    /\ Streams /\ ~worker.blocked
    /\ \/ worker.pc = "index" /\ worker.writing = "none" /\ \E k \in AnyKind : NextComp(k)
       \/ worker.pc = "finish"
       \/ worker.pc = "next" /\ worker.forks = {}
    /\ \A g \in Forks : fork[g].job # worker.job
    /\ worker' = [worker EXCEPT !.blocked = TRUE]
    /\ UNCHANGED <<live, jobs, pending, framePendingSnap, tmp, snapMeta, stamp, meta,
                   rmw, edit, qmu, fork, crashes>>

\* Mutant: a failed job keeps its captured subvolumes.
IndexFailsKeepingTmp(k) ==
    /\ worker.pc = "index" /\ worker.writing = "none"
    /\ NextComp(k)
    /\ jobs' = [jobs EXCEPT ![worker.job].err = TRUE]
    /\ worker' = [worker EXCEPT !.pc = "finish"]
    /\ UNCHANGED <<live, pending, framePendingSnap, tmp, snapMeta, stamp, meta, rmw,
                   edit, qmu, fork, crashes>>

\* Mutant: the error path returns without finishJob.
IndexFailsUnfinished(k) ==
    /\ worker.pc = "index" /\ worker.writing = "none"
    /\ NextComp(k)
    /\ tmp' = tmp \ {<<worker.job, x>> : x \in DOMAIN job.comps \ DOMAIN worker.fin}
    /\ jobs' = [jobs EXCEPT ![worker.job].err = TRUE]
    /\ worker' = IdleWorker
    /\ UNCHANGED <<live, pending, framePendingSnap, snapMeta, stamp, meta, rmw,
                   edit, qmu, fork, crashes>>

\* A component could not be indexed: drop every capture not yet published.
IndexFails(k) ==
    /\ worker.pc = "index" /\ worker.writing = "none"
    /\ NextComp(k)
    /\ tmp' = tmp \ {<<worker.job, x>> : x \in DOMAIN job.comps \ DOMAIN worker.fin}
    /\ jobs' = [jobs EXCEPT ![worker.job].err = TRUE]
    /\ worker' = [worker EXCEPT !.pc = "finish"]
    /\ UNCHANGED <<live, pending, framePendingSnap, snapMeta, stamp, meta, rmw,
                   edit, qmu, fork, crashes>>

\* job.finalized = finalized; then the job's own frame is updated.
Finalized ==
    /\ worker.pc = "index" /\ worker.writing = "none"
    /\ DOMAIN worker.fin = DOMAIN job.comps
    /\ jobs' = [jobs EXCEPT ![worker.job].finalized = worker.fin]
    /\ worker' = [worker EXCEPT !.pc = IF job.sub THEN "lock" ELSE "stamp",
                                !.at = job.frame]
    /\ UNCHANGED <<live, pending, framePendingSnap, tmp, snapMeta, stamp, meta,
                   rmw, edit, qmu, fork, crashes>>

\* writeStampFile for the frame being updated (the source, or a fork of it).
WriteStamp ==
    /\ worker.pc = "stamp"
    /\ stamp' = [stamp EXCEPT ![worker.at] = worker.fin["root"]]
    /\ worker' = [worker EXCEPT !.pc = "lock"]
    /\ UNCHANGED <<live, jobs, pending, framePendingSnap, tmp, snapMeta, meta,
                   rmw, edit, qmu, fork, crashes>>

UpdateBegin ==
    /\ worker.pc = "lock"
    /\ LockAndRead(worker.at, "worker", None)
    /\ worker' = [worker EXCEPT !.pc = "meta"]
    /\ UNCHANGED <<live, jobs, pending, framePendingSnap, tmp, snapMeta, stamp,
                   meta, edit, qmu, fork, crashes>>

\* Mutant: the history is replaced instead of extended.
RecordSnapOnly(m, j, fin) ==
    [m EXCEPT !.snap = [k \in Kinds |-> IF k \in DOMAIN fin THEN fin[k] ELSE @[k]],
              !.history = <<j>>]

\* Mutant: the taints are those of the capture, not of the sidecar just read.
RecordSnapStale(m, j, fin) ==
    [m EXCEPT !.snap = [k \in Kinds |-> IF k \in DOMAIN fin THEN fin[k] ELSE @[k]],
              !.taints = jobs[j].taints,
              !.history = <<j>> \o @]

\* The mutators of processJob: a full snap moves the frame to the new snaps, a
\* subtree snap only adds its history entry.
RecordSnap(m, j, fin) ==
    [m EXCEPT !.snap = [k \in Kinds |-> IF k \in DOMAIN fin THEN fin[k] ELSE @[k]],
              !.history = <<j>> \o @]

\* After the source frame come the forks of a full snap (forkedFramesForJob),
\* then finishJob.
UpdateEnd ==
    /\ worker.pc = "meta"
    /\ WriteAndUnlock(worker.at, RecordSnap(rmw[worker.at].read, worker.job, worker.fin))
    /\ worker' = [worker EXCEPT !.pc = IF job.sub THEN "finish"
                                       ELSE IF worker.at = job.frame THEN "forks"
                                       ELSE "next"]
    /\ UNCHANGED <<live, jobs, pending, framePendingSnap, tmp, snapMeta, stamp,
                   edit, qmu, fork, crashes>>

\* forkedFramesForJob.
ForkedFrames ==
    /\ worker.pc = "forks"
    /\ qmu = None
    /\ worker' = [worker EXCEPT !.pc = "next",
                     !.forks = {f \in Frame \ {job.frame} : framePendingSnap[f] = worker.job}]
    /\ UNCHANGED <<live, jobs, pending, framePendingSnap, tmp, snapMeta, stamp,
                   meta, rmw, edit, qmu, fork, crashes>>

NextFork(f) ==
    /\ worker.pc = "next"
    /\ f \in worker.forks
    /\ worker' = [worker EXCEPT !.pc = "stamp", !.at = f, !.forks = @ \ {f}]
    /\ UNCHANGED <<live, jobs, pending, framePendingSnap, tmp, snapMeta, stamp,
                   meta, rmw, edit, qmu, fork, crashes>>

\* Mutant: the pending map is not cleared.
FinishJobKeepingPending ==
    /\ \/ worker.pc = "finish"
       \/ worker.pc = "next" /\ worker.forks = {}
    /\ qmu = None
    /\ jobs' = [jobs EXCEPT ![worker.job].done = TRUE]
    /\ worker' = IdleWorker
    /\ UNCHANGED <<live, pending, framePendingSnap, tmp, snapMeta, stamp, meta, rmw,
                   edit, qmu, fork, crashes>>

\* finishJob: forget the job wherever it is still pending, and close done.
FinishJob ==
    /\ \/ worker.pc = "finish"
       \/ worker.pc = "next" /\ worker.forks = {}
    /\ qmu = None
    /\ framePendingSnap' = [f \in Frame |->
          IF framePendingSnap[f] = worker.job THEN 0 ELSE framePendingSnap[f]]
    /\ jobs' = [jobs EXCEPT ![worker.job].done = TRUE]
    /\ worker' = IdleWorker
    /\ UNCHANGED <<live, pending, tmp, snapMeta, stamp, meta, rmw, edit, qmu,
                   fork, crashes>>

-----------------------------------------------------------------------------
(* The daemon dies and is restarted: the queue, the pending map, the locks *)
(* and every call in progress are gone; files stay as they are.            *)

Crash ==
    /\ crashes < MaxCrashes
    /\ crashes' = crashes + 1
    /\ pending' = <<>>
    /\ framePendingSnap' = [f \in Frame |-> 0]
    /\ rmw' = [f \in Frame |-> None]
    /\ edit' = [f \in Frame |-> None]
    /\ qmu' = None
    /\ fork' = [g \in Forks |->
                  IF fork[g].pc \in {"sidecar", "stamp"} THEN [fork[g] EXCEPT !.pc = "failed"]
                  ELSE IF fork[g].pc = "read" THEN NoFork ELSE fork[g]]
    /\ worker' = IdleWorker
    /\ UNCHANGED <<live, jobs, tmp, snapMeta, stamp, meta>>

-----------------------------------------------------------------------------
Client ==
    \/ \E f \in Frame, k \in Kinds, c \in Content \cup {Empty} : UserWrite(f, k, c)
    \/ \E f \in Frame : SnapFull(f) \/ SnapSubdir(f)
    \/ \E f \in Frame, t \in Taints : TaintBegin(f, t)
    \/ \E g \in Forks, f \in Frame : ForkRead(g, f)
    \/ \E f \in Frame : \E j \in 1..Len(jobs) : PruneRead(f, j)
    \/ \E f, s \in Frame : CloneReadSource(f, s)

\* Handlers in progress run to their end.
Handler ==
    \/ CaptureFull
    \/ \E c \in Content : CaptureSubdir(c)
    \/ ForkLocked
    \/ \E g \in Forks : ForkCapture(g) \/ ForkWriteSidecar(g) \/ ForkWriteStamp(g)
    \/ \E f \in Frame : TaintEnd(f) \/ CloneReadTarget(f) \/ HistoryWrite(f)

Failure ==
    \/ CaptureFails
    \/ ForkCloneFails
    \/ \E g \in Forks : ForkSetupFails(g)
    \/ ~worker.blocked /\ (SnapMetaUnwritten \/ \E k \in AnyKind : IndexFails(k))
    \/ ClientStalls
    \/ Crash

Worker ==
    /\ ~worker.blocked
    /\ \/ Pop
       \/ \E k \in AnyKind : IndexComp(k)
       \/ WriteSnapMeta
       \/ Finalized \/ WriteStamp \/ UpdateBegin \/ UpdateEnd \/ ForkedFrames
       \/ \E f \in Frame : NextFork(f)
       \/ FinishJob

Next == Client \/ Handler \/ Failure \/ Worker

Spec == Init /\ [][Next]_vars

\* Goroutines that can run are eventually scheduled: the worker, and whoever
\* holds snapQueue.mu or a frame's sidecar lock. A Go mutex does not starve a
\* waiter, hence strong fairness of the worker, which waits for both. Clients
\* promise nothing, not even to read what the worker sends them.
FairSpec ==
    /\ Spec
    /\ SF_vars(Worker)
    /\ WF_vars(CaptureFull \/ (\E c \in Content : CaptureSubdir(c)) \/ ForkLocked)
    /\ \A f \in Frame : WF_vars(TaintEnd(f))

-----------------------------------------------------------------------------
(* Types.                                                                  *)

\* Maps from some of the component kinds to S.
PartialFun(S) == UNION {[D -> S] : D \in SUBSET AnyKind}

MetaType == [snap : [Kinds -> SnapRef], taints : SUBSET Taints, history : Seq(Nat)]

JobType ==
    [frame : Frame, sub : BOOLEAN,
     comps : PartialFun(Content),
     taints : SUBSET Taints, parentJob : Nat,
     parentSnap : PartialFun(SnapRef),
     finalized : PartialFun(Content),
     err : BOOLEAN, done : BOOLEAN]

TreeType == {t \in [Kinds -> Content \cup {Empty}] : t["root"] # Empty}

SnapMetaType ==
    [parent : SnapRef, json : BOOLEAN, taints : SUBSET Taints, seen : SUBSET SUBSET Taints]

RmwType == [by : {"worker"}, taint : {None}, read : MetaType]
      \cup [by : {"taint"}, taint : Taints, read : MetaType]

EditType == [pc : {"read"}, hist : Seq(Nat), read : {None}]
       \cup [pc : {"write"}, hist : Seq(Nat), read : MetaType]

QmuType == [frame : Frame, to : Forks \cup {None}, sub : BOOLEAN, read : MetaType \cup {None}]

ForkType == [pc : {"none"}, src : {None}, job : Nat, clone : {None}]
       \cup [pc : {"read", "sidecar", "stamp", "done", "failed"}, src : Frame,
             job : Nat, clone : MetaType]

WorkerType ==
    [pc : {"idle", "index", "stamp", "lock", "meta", "forks", "next", "finish"},
     job : Nat, at : Frame \cup {None}, fin : PartialFun(Content), forks : SUBSET Frame,
     writing : AnyKind \cup {"none"}, blocked : BOOLEAN]

ASSUME NoneAssumption == None \notin MetaType \cup RmwType \cup EditType \cup QmuType \cup SnapMetaType

\* Every variable has the type of the Go field or file it stands for.
TypeOK ==
    /\ live \in [Frame -> TreeType]
    /\ jobs \in Seq(JobType)
    /\ pending \in Seq(Nat)
    /\ framePendingSnap \in [Frame -> Nat]
    /\ tmp \subseteq Nat \X AnyKind
    /\ snapMeta \in [Content -> SnapMetaType \cup {None}]
    /\ stamp \in [Frame -> SnapRef]
    /\ meta \in [Frame -> MetaType \cup {None}]
    /\ rmw \in [Frame -> RmwType \cup {None}]
    /\ edit \in [Frame -> EditType \cup {None}]
    /\ qmu \in QmuType \cup {None}
    /\ fork \in [Forks -> ForkType]
    /\ worker \in WorkerType
    /\ crashes \in Nat

-----------------------------------------------------------------------------
(* Safety.                                                                 *)

\* Job j, of n captured, is among the q in the queue or in the hands of worker w.
IsWaiting(j, n, q, w) == j > n - q \/ (w.pc # "idle" /\ j = w.job)

Waiting(j) == IsWaiting(j, Len(jobs), Len(pending), worker)

\* The queue is the tail of the list of captured jobs, and the worker holds the
\* job just before it (enqueueLocked and run keep FIFO order).
QueueOrder ==
    /\ Len(pending) <= Len(jobs)
    /\ \A i \in 1..Len(pending) : pending[i] = Len(jobs) - Len(pending) + i
    /\ worker.pc # "idle" => worker.job > 0 /\ worker.job = Len(jobs) - Len(pending)

\* framePendingSnap never keeps a job the worker has finished (finishJob clears
\* every entry, those of forked frames included).
PendingIsUnfinished ==
    \A f \in Frame : framePendingSnap[f] # 0 =>
        framePendingSnap[f] \in 1..Len(jobs) /\ Waiting(framePendingSnap[f])

\* A waiting job is chained to an earlier one that is finished or still waiting.
ChainOrder ==
    \A j \in 1..Len(jobs) :
        Waiting(j) /\ jobs[j].parentJob # 0 =>
            /\ jobs[j].parentJob \in 1..(j - 1)
            /\ jobs[jobs[j].parentJob].done \/ Waiting(jobs[j].parentJob)

\* What calls in progress know of each other's local variables: a capture made
\* for a fork belongs to a fork waiting for it; past indexing the worker has the
\* ID of every component, and it holds the sidecar lock while it updates one.
LocalsOK ==
    /\ qmu # None /\ qmu.to # None => fork[qmu.to].pc = "read"
    /\ worker.pc \in {"stamp", "lock", "meta"} => worker.at \in Frame
    /\ worker.pc = "meta" => rmw[worker.at] # None /\ rmw[worker.at].by = "worker"
    /\ worker.pc \in {"stamp", "forks", "next"} => ~job.sub
    /\ worker.pc \in {"stamp", "lock", "meta", "forks", "next"} =>
           DOMAIN worker.fin = DOMAIN job.comps
    /\ \A j \in 1..Len(jobs) : /\ ~jobs[j].sub => "root" \in DOMAIN jobs[j].comps
                               /\ DOMAIN jobs[j].parentSnap = DOMAIN jobs[j].comps

\* The inductive invariant behind ParentJobSettled.
QueueInv == TypeOK /\ LocalsOK /\ QueueOrder /\ PendingIsUnfinished /\ ChainOrder

\* FIFO makes chaining safe: whenever the worker processes a job, the job it
\* was chained to (parentJob) has been settled by finishJob, so reading
\* parentJob.finalized without a lock is sound (comment at run, processJob).
ParentJobSettled ==
    worker.pc # "idle" /\ job.parentJob # 0 => jobs[job.parentJob].done

\* Job p is the full snap of the same frame captured just before job j.
PreviousSnap(p, j) ==
    /\ p < j /\ ~jobs[p].sub /\ jobs[p].frame = jobs[j].frame
    /\ \A i \in (p + 1)..(j - 1) : jobs[i].sub \/ jobs[i].frame # jobs[j].frame

\* Rapid snaps of one frame chain incrementally: when the worker indexes
\* component k, its parent is the snap of k made by the frame's previous snap,
\* however capture interleaved with that snap's finalization. (After a crash a
\* frame chains to its last finalized snap instead; a history edit may put an
\* older home or work back into the sidecar, but never touches the stamp.)
ChainsToPreviousSnap ==
    crashes = 0 /\ worker.pc = "index" /\ ~job.sub =>
        \A p \in DOMAIN jobs : PreviousSnap(p, worker.job) =>
            \A k \in DOMAIN job.comps \cap DOMAIN jobs[p].finalized :
                k = "root" \/ job.frame \notin Editable =>
                    ResolvedParent(worker.job, k) = jobs[p].finalized[k]

\* The frames no edited history can reach: a fork copies the history of its
\* source, so where anyone edits histories only the unedited initial frames.
Unedited == IF Editable = {} THEN Frame ELSE Roots \ Editable

Descending(h) == \A a, b \in DOMAIN h : a < b => h[a] > h[b]

\* Job j is in the history of m.
InHistory(j, m) == \E a \in DOMAIN m.history : m.history[a] = j

\* A history that no edit can reach lists snaps newest first and, for a frame
\* nobody forked into being, no finished snap of the frame is missing from it.
HistoryFaithful ==
    \A f \in Unedited : meta[f] # None =>
        /\ Descending(meta[f].history)
        /\ f \in Roots =>
             \A j \in DOMAIN jobs :
                jobs[j].frame = f /\ jobs[j].done /\ ~jobs[j].err => InHistory(j, meta[f])

\* All snap IDs a piece of frame metadata mentions.
MetaRefs(m) ==
    IF m = None THEN {}
    ELSE {m.snap[k] : k \in Kinds} \cup
         UNION {{jobs[m.history[a]].finalized[k] : k \in DOMAIN jobs[m.history[a]].finalized}
                  : a \in DOMAIN m.history}

\* The stamp and the sidecar of a frame only ever name published snaps, also
\* after a crash anywhere in the pipeline ("only ever reference finalized
\* snaps", background-indexing.md), and so do the parents of published snaps.
ReferencesPublished ==
    /\ \A f \in Frame : {stamp[f]} \cup MetaRefs(meta[f]) \subseteq Published \cup {Base, NoSnap}
    /\ \A s \in Published : snapMeta[s].parent \in Published \cup {Base, NoSnap}

\* Following parent links from a snap always ends: no set of published snaps
\* is closed under parent, although content IDs recur.
AncestryWellFounded ==
    \A S \in SUBSET Published : S # {} => \E s \in S : snapMeta[s].parent \notin S

\* A snap has the taints that every capture which produced it carried.
Inherits(s) ==
    \A t \in Taints : (\A T \in snapMeta[s].seen : t \in T) => t \in snapMeta[s].taints

\* Deduplication never launders a taint: however often a tree is captured, and
\* whatever writes of its metadata fail, a snap whose .jsonc exists has the taints
\* that every capture of it carried.  (A snap whose .jsonc was never written has
\* none: see SnapsInheritTaints.)
TaintsNotLaundered == \A s \in Published : snapMeta[s].json => Inherits(s)

\* frames-and-taints.md: each snap inherits the frame's current taints, subject to
\* deduplication.  The code does not keep this: a snap whose metadata could not be
\* written, or was cut off by a crash, is published without taints, and no later
\* capture of the same tree brings them back.
SnapsInheritTaints == worker.writing = "none" => \A s \in Published : Inherits(s)

\* A captured subvolume outlives its job only across a crash: once a job is
\* finished nothing of it is left in snaps/*.tmp.
NoTmpLeak == \A p \in tmp : ~jobs[p[1]].done

\* A taint once in the sidecar of a frame stays there, whatever the worker,
\* /taint and /fork do to the file at the same time.
TaintsSticky ==
    [][\A f \in Roots \ Editable : meta[f].taints \subseteq meta'[f].taints]_vars

\* What the comment of frameMetaMu says, that it "serializes read-modify-write of frame
\* sidecar files", so that no taint is dropped from one.  The code does not keep this
\* for every frame: /prune-history and /clone-history write a sidecar they have read
\* without the lock.
SidecarsSerialized ==
    [][\A f \in Roots : meta[f].taints \subseteq meta'[f].taints]_vars

\* Every captured snap is eventually settled, so a client blocked on job.done
\* (ts snap --wait) is answered, unless the daemon dies or a streaming client stops
\* reading, its own or that of a snap before it in the queue.
EverySnapSettles ==
    \A j \in 1..MaxJobs, n \in 0..MaxCrashes :
        (j \in DOMAIN jobs /\ Waiting(j) /\ crashes = n)
            ~> (crashes > n \/ worker.blocked \/ (j \in DOMAIN jobs /\ jobs[j].done))

-----------------------------------------------------------------------------
(* The inductive invariant behind the safety properties.                   *)

\* A captured subvolume still in snaps/*.tmp is a component of an unfinished job,
\* and of the worker's job only those not indexed yet.
TmpInv ==
    \A p \in tmp :
        /\ p[1] \in DOMAIN jobs /\ p[2] \in DOMAIN jobs[p[1]].comps
        /\ ~jobs[p[1]].done
        /\ worker.pc # "idle" /\ p[1] = worker.job =>
               worker.pc = "index" /\ p[2] \notin DOMAIN worker.fin

\* The IDs that stamps, sidecars and captures may hold.
Known == Published \cup {Base, NoSnap}

\* The snaps of m are published, and its history entries are captured jobs.
MetaKnown(m) ==
    m # None => /\ \A k \in Kinds : m.snap[k] \in Known
                /\ \A a \in DOMAIN m.history : m.history[a] \in DOMAIN jobs

\* Every copy of a stamp, a sidecar or a result names only published snaps.
RefsInv ==
    /\ \A f \in Frame : stamp[f] \in Known /\ MetaKnown(meta[f])
    /\ \A f \in Frame : rmw[f] # None => MetaKnown(rmw[f].read)
    /\ \A f \in Frame : edit[f] # None =>
           MetaKnown(edit[f].read) /\ \A a \in DOMAIN edit[f].hist : edit[f].hist[a] \in DOMAIN jobs
    /\ \A g \in Forks : MetaKnown(fork[g].clone)
    /\ qmu # None => MetaKnown(qmu.read)
    /\ \A j \in DOMAIN jobs :
           /\ \A k \in DOMAIN jobs[j].parentSnap : jobs[j].parentSnap[k] \in Known
           /\ \A k \in DOMAIN jobs[j].finalized : jobs[j].finalized[k] \in Published
    /\ \A k \in DOMAIN worker.fin : worker.fin[k] \in Published
    /\ \A s \in Published : snapMeta[s].parent \in Known

\* The worker is writing the stamp or the sidecar of frame f.
Updating(f) == worker.pc \in {"stamp", "lock", "meta"} /\ worker.at = f

\* What a frame must have gone through before it is captured, locked or updated.
FramesInv ==
    /\ qmu # None => Usable(qmu.frame) /\ qmu.read # None
    /\ \A g \in Forks :
           /\ fork[g].pc # "none" => Usable(fork[g].src)
           /\ fork[g].pc \in {"none", "read"} => fork[g].job = 0
           /\ fork[g].pc = "stamp" => meta[g] # None
    /\ \A j \in DOMAIN jobs : Usable(jobs[j].frame)
    /\ \A f \in Frame : Usable(f) => meta[f] # None

\* A frame is pending for its own full snap or for the one it was forked from,
\* and stays pending at least until its newest snap is done.
PendingInv ==
    /\ \A f \in Frame : framePendingSnap[f] # 0 =>
           /\ ~jobs[framePendingSnap[f]].sub
           /\ \/ jobs[framePendingSnap[f]].frame = f
              \/ f \in Forks /\ framePendingSnap[f] = fork[f].job
    /\ \A j \in DOMAIN jobs : Waiting(j) =>
           ~jobs[j].done /\ (~jobs[j].sub => framePendingSnap[jobs[j].frame] >= j)
    /\ \A f \in Frame : f \in worker.forks \/ (Updating(f) /\ f # job.frame) =>
           /\ f \in Forks /\ f # job.frame
           /\ worker.job = fork[f].job /\ framePendingSnap[f] # 0
    /\ \A f \in worker.forks : worker.pc # "idle" /\ ~Updating(f)

\* Who may hold a sidecar lock, and that what was read under it is still what
\* the file says, unless its fork or a history edit wrote it.
SidecarInv ==
    \A f \in Frame :
        /\ edit[f] # None => f \in Editable
        /\ rmw[f] # None =>
             /\ rmw[f].by = "taint" => Usable(f)
             /\ rmw[f].by = "worker" => worker.pc = "meta" /\ worker.at = f
             /\ f \notin Editable /\ (rmw[f].by = "worker" => f = job.frame)
                    => rmw[f].read = meta[f]

\* The jobs the worker has taken from the queue.
Taken == Len(jobs) - Len(pending)

\* The history of m is in order and goes up to job n at most.
MetaOrdered(m, n) ==
    m # None => Descending(m.history) /\ \A a \in DOMAIN m.history : m.history[a] <= n

\* The worker has yet to record its job in the history of frame f.
Owed(f) ==
    \/ worker.pc = "index" /\ f = job.frame
    \/ Updating(f)
    \/ f \in worker.forks
    \/ /\ worker.pc \in {"index", "stamp", "lock", "meta", "forks"}
       /\ worker.pc \in {"index", "forks"} \/ worker.at = job.frame
       /\ f # job.frame /\ framePendingSnap[f] = worker.job

\* The worker has recorded its job in the history of the job's own frame.
Recorded ==
    \/ worker.pc \in {"forks", "next"}
    \/ worker.pc \in {"stamp", "lock", "meta"} /\ worker.at # job.frame
    \/ worker.pc = "finish" /\ ~job.err

\* Histories are in order, the copies a fork or the worker will write included,
\* and hold what was recorded.
HistoryInv ==
    /\ \A f \in Unedited :
           /\ MetaOrdered(meta[f], Taken)
           /\ Owed(f) => MetaOrdered(meta[f], worker.job - 1)
           /\ rmw[f] # None /\ rmw[f].by = "worker" => MetaOrdered(rmw[f].read, worker.job - 1)
    /\ \A g \in Forks \cap Unedited :
           /\ MetaOrdered(fork[g].clone, Taken)
           /\ fork[g].job # 0 => MetaOrdered(fork[g].clone, fork[g].job - 1)
    /\ \A j \in DOMAIN jobs :
           jobs[j].frame \in Roots \ Editable /\ jobs[j].done /\ ~jobs[j].err
               => InHistory(j, meta[jobs[j].frame])
    /\ Recorded /\ job.frame \in Roots \ Editable => InHistory(worker.job, meta[job.frame])

\* Job p is the newest full snap of frame f.
LastSnap(p, f) ==
    /\ ~jobs[p].sub /\ jobs[p].frame = f
    /\ \A i \in (p + 1)..Len(jobs) : jobs[i].sub \/ jobs[i].frame # f

\* m names the home and work snaps in fin.
HasSnaps(m, fin) == \A k \in DOMAIN fin \cap OptKinds : m.snap[k] = fin[k]

\* What the worker has written of the results of its job.
ResultInv ==
    /\ \A j \in DOMAIN jobs : /\ ~jobs[j].sub => DOMAIN jobs[j].comps \subseteq Kinds
                              /\ jobs[j].sub => DOMAIN jobs[j].comps = {"subdir"}
                              /\ DOMAIN jobs[j].finalized \subseteq DOMAIN jobs[j].comps
    /\ \A j \in DOMAIN jobs : j > Taken => jobs[j].finalized = <<>>
    /\ worker.pc = "index" => job.finalized = <<>>
    /\ worker.pc \in {"stamp", "lock", "meta", "forks", "next"} => job.finalized = worker.fin
    /\ worker.pc = "finish" => job.sub \/ job.finalized = <<>>
    /\ worker.pc \in {"lock", "meta", "forks", "next"} \/ (worker.pc = "stamp" /\ worker.at # job.frame) =>
           job.sub \/ stamp[job.frame] = worker.fin["root"]
    /\ worker.pc \in {"forks", "next"} \/ (worker.pc \in {"stamp", "lock", "meta"} /\ worker.at # job.frame) =>
           job.sub \/ job.frame \in Editable \/ HasSnaps(meta[job.frame], worker.fin)

\* Without a crash, a frame's newest full snap is either pending or done and
\* written to the stamp and the sidecar, also in the copy a capture works from.
ParentInv ==
    crashes = 0 =>
        /\ \A f \in Frame, p \in DOMAIN jobs : LastSnap(p, f) /\ framePendingSnap[f] # p =>
               /\ framePendingSnap[f] = 0 /\ jobs[p].done
               /\ "root" \in DOMAIN jobs[p].finalized => stamp[f] = jobs[p].finalized["root"]
               /\ f \notin Editable => HasSnaps(meta[f], jobs[p].finalized)
               /\ f \notin Editable /\ qmu # None /\ qmu.frame = f => HasSnaps(qmu.read, jobs[p].finalized)
        /\ \A j, p \in DOMAIN jobs :
               Waiting(j) /\ ~jobs[j].sub /\ PreviousSnap(p, j) /\ jobs[j].parentJob # p =>
                   /\ jobs[j].parentJob = 0 /\ jobs[p].done
                   /\ \A k \in DOMAIN jobs[j].comps \cap DOMAIN jobs[p].finalized :
                         k = "root" \/ jobs[j].frame \notin Editable =>
                             jobs[j].parentSnap[k] = jobs[p].finalized[k]

\* The component whose metadata the worker is about to write was published by this
\* capture or found to exist; without metadata a snap has no taints.
WritingInv ==
    /\ worker.writing # "none" =>
          /\ worker.pc = "index" /\ worker.writing \in DOMAIN job.comps
          /\ LET s == job.comps[worker.writing]
             IN  s \in Published /\ job.taints \in snapMeta[s].seen
    /\ \A s \in Published : ~snapMeta[s].json => snapMeta[s].taints = {}

\* The inductive invariant of the snap queue: what capture, the worker, forks, taints
\* and history edits leave in memory and on disk between any two steps, and after
\* a crash.
SnapInv ==
    /\ QueueInv /\ TmpInv /\ RefsInv /\ FramesInv /\ PendingInv /\ SidecarInv
    /\ HistoryInv /\ ResultInv /\ ParentInv /\ WritingInv

=============================================================================
