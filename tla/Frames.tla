-------------------------------- MODULE Frames --------------------------------
(***************************************************************************)
(* The handlers that create, name, enter and delete the frames of one      *)
(* namespace: refs_handlers.go, handleCreate and handleDeleteFrame of      *)
(* main.go, the entry path of rootfs.go and session.go, and the ts         *)
(* commands that call them.  None of them takes a lock: each is a sequence *)
(* of file operations, and those of different requests interleave.         *)
(*                                                                         *)
(* A request in flight is a record of what it was asked and what it has    *)
(* read; pc names its next file operation.  An autorun program is the      *)
(* frame label and the argv it was started with and the frame its session  *)
(* entered.  Reads, writes and renames whose failure the code only logs    *)
(* may fail at any time; subvolumes cannot be made or deleted exactly when *)
(* btrfs refuses.                                                          *)
(***************************************************************************)
EXTENDS FrameStore

CONSTANTS
    DefaultRef,     \* the reserved ref name "default"
    Namespace,      \* the ref whose name is that of the namespace, or None
    Layouts,        \* the rootfs:home:work specs clients ask for
    MaxOps          \* bound on the requests of a behaviour

RefFile == [uuid : Frame, autorun : Argv \cup {None}, reflog : Seq(Frame)]
ProcessType == [uuid : Frame, argv : Argv, at : Frame \cup {None}]

ASSUME FramesAssumption ==
    /\ DefaultRef \in Ref
    /\ Layouts \subseteq [Comp -> Snap \cup {None}]
    /\ None \notin RefFile \cup ProcessType

VARIABLES
    req,        \* proc -> the request it is serving
    run,        \* ref -> its autorun process, [uuid, argv, at], or None
    ops,        \* requests started
    issued      \* UUIDs handed out so far

state == <<disk, req, run, ops, issued>>

Idle == [op |-> "none", pc |-> "idle", ref |-> None, frame |-> None, name |-> None,
         cur |-> None, live |-> None, layout |-> NoSnaps, force |-> FALSE, cmd |-> None,
         got |-> None, copy |-> None, todo |-> {}, found |-> {}, unread |-> {},
         registered |-> FALSE]

Goto(p, l) == req' = [req EXCEPT ![p].pc = l]
Done(p) == req' = [req EXCEPT ![p] = Idle]

At(p, op, l) == req[p].op = op /\ req[p].pc = l

\* An autorun attempt is entering the frame of its ref; that of r's process.
AttemptOf(q, r) == q.op = "attempt" /\ q.ref = r /\ q.registered
Attempting(r) == \E p \in Proc : AttemptOf(req[p], r)

-----------------------------------------------------------------------------
(* Requests, as the ts commands send them.                                 *)

\* ts ref create resolves its target first ...
RefCreateCommand(r, f) ==
    [Idle EXCEPT !.op = "refcreate", !.pc = "lookup", !.ref = r, !.frame = f]

\* ... while ts ref move takes any UUID.  Its -f changes nothing.
RefMoveCommand(r, f) ==
    [Idle EXCEPT !.op = "refmove", !.pc = "get", !.ref = r, !.frame = f]

RefDeleteCommand(r, force) ==
    [Idle EXCEPT !.op = "refdelete", !.pc = "iddir", !.ref = r, !.force = force]

\* ts autorun, with a program or with --stop.
AutorunCommand(r, cmd) ==
    [Idle EXCEPT !.op = "autorun", !.pc = "get", !.ref = r, !.cmd = cmd]

\* ts frame --delete, from a session in another frame.
DeleteCommand(f, cur) ==
    [Idle EXCEPT !.op = "delframe", !.pc = "list", !.frame = f, !.cur = cur]

\* ts frame and ts go with a triplet of snaps.
CreateCommand(r, layout) ==
    [Idle EXCEPT !.op = "create", !.pc = "check", !.ref = r, !.layout = layout]

\* With a triplet of frames, resolveFrameTriplet names the live component as
\* the source and the snap the frame came from as the spec.
CloneCommand(f) ==
    [Idle EXCEPT !.op = "create", !.pc = "check", !.layout = meta[f].snap, !.live = f]

\* A login by ref, by UUID, or by neither.
LoginCommand(n) == [Idle EXCEPT !.op = "enter", !.pc = "resolve", !.name = n]

\* ts go to an existing frame.
GoCommand(n) == [Idle EXCEPT !.op = "enter", !.pc = "go", !.name = n]

Accept(p, c) == req' = [req EXCEPT ![p] = c]

Start(p) ==
    /\ req[p] = Idle
    /\ ops < MaxOps
    /\ ops' = ops + 1
    /\ \/ \E r \in Ref, f \in issued : Accept(p, RefCreateCommand(r, f))
       \/ \E r \in Ref, f \in issued : Accept(p, RefMoveCommand(r, f))
       \/ \E r \in Ref, force \in BOOLEAN : Accept(p, RefDeleteCommand(r, force))
       \/ \E r \in Ref, cmd \in Argv \cup {None} : Accept(p, AutorunCommand(r, cmd))
       \/ \E f, cur \in issued : Accept(p, DeleteCommand(f, cur))
       \/ \E r \in Ref \cup {None}, layout \in Layouts : Accept(p, CreateCommand(r, layout))
       \/ \E f \in FrameList : Accept(p, CloneCommand(f))
       \/ \E n \in Ref \cup issued \cup {None} : Accept(p, LoginCommand(n))
       \/ \E n \in Ref \cup issued : Accept(p, GoCommand(n))
    /\ UNCHANGED <<disk, run, issued>>

-----------------------------------------------------------------------------
(* /ref/create                                                             *)

RefCreateLookup(p) ==
    /\ At(p, "refcreate", "lookup")
    /\ IF meta[req[p].frame] # None THEN Goto(p, "stat") ELSE Done(p)
    /\ UNCHANGED <<disk, run, ops, issued>>

\* Store.Create: a stat, then a write that replaces whatever is there by then.
\* It ends /create as well when that was asked to bind a ref.
RefCreateStat(p) ==
    /\ req[p].op \in {"refcreate", "create"} /\ req[p].pc = "stat"
    /\ IF refs[req[p].ref] = None THEN Goto(p, "write") ELSE Done(p)
    /\ UNCHANGED <<disk, run, ops, issued>>

RefCreateWrite(p) ==
    /\ req[p].op \in {"refcreate", "create"} /\ req[p].pc = "write"
    /\ refs' = [refs EXCEPT ![req[p].ref] = NewRef(req[p].frame)]
    /\ IF req[p].op = "refcreate" THEN Goto(p, "ensure") ELSE Done(p)
    /\ UNCHANGED <<meta, tree, ident, snaps, born, run, ops, issued>>

\* A failure of Ensure is only logged.
RefCreateEnsure(p) ==
    /\ At(p, "refcreate", "ensure")
    /\ EnsureIdentity(req[p].frame, req[p].ref)
    /\ Done(p)
    /\ UNCHANGED <<refs, meta, snaps, run, ops, issued>>

-----------------------------------------------------------------------------
(* /ref/move                                                               *)

\* Both /ref/move and /autorun read the ref once for themselves ...
RefGet(p) ==
    /\ req[p].op \in {"refmove", "autorun"} /\ req[p].pc = "get"
    /\ IF refs[req[p].ref] = None
       THEN Done(p)
       ELSE req' = [req EXCEPT ![p].pc = "reread", ![p].got = refs[req[p].ref]]
    /\ UNCHANGED <<disk, run, ops, issued>>

\* ... and again in the store, which computes the new contents ...
RefReread(p) ==
    /\ req[p].op \in {"refmove", "autorun"} /\ req[p].pc = "reread"
    /\ LET r == req[p].ref
       IN  IF refs[r] = None
           THEN Done(p)
           ELSE req' = [req EXCEPT ![p].pc = "write",
                                   ![p].copy = IF req[p].op = "refmove"
                                               THEN Moved(refs[r], req[p].frame)
                                               ELSE SetAutorun(refs[r], req[p].cmd)]
    /\ UNCHANGED <<disk, run, ops, issued>>

\* ... and renames them into place, whatever has happened to the ref since.
RefWrite(p) ==
    /\ req[p].op \in {"refmove", "autorun"} /\ req[p].pc = "write"
    /\ refs' = [refs EXCEPT ![req[p].ref] = req[p].copy]
    /\ IF req[p].op = "autorun"
       THEN Goto(p, "apply")
       ELSE IF req[p].got.uuid = req[p].frame THEN Done(p) ELSE Goto(p, "identity")
    /\ UNCHANGED <<meta, tree, ident, snaps, born, run, ops, issued>>

\* refid.Move up to its check of the source.  A destination that does not exist
\* is a warning, and the identity stays behind.
MoveIdentity(p) ==
    /\ At(p, "refmove", "identity")
    /\ LET r == req[p].ref
           dst == req[p].frame
       IN  IF ~CanEnsureID(dst) \/ ident[req[p].got.uuid][r] = None
           THEN EnsureIdentity(dst, r) /\ Goto(p, "restart")
           ELSE tree' = WithID(dst) /\ Goto(p, "rename") /\ UNCHANGED <<ident, born>>
    /\ UNCHANGED <<refs, meta, snaps, run, ops, issued>>

MoveRename(p) ==
    /\ At(p, "refmove", "rename")
    /\ RenameIdentity(req[p].got.uuid, req[p].frame, req[p].ref)
    /\ Goto(p, "restart")
    /\ UNCHANGED <<refs, meta, tree, snaps, born, run, ops, issued>>

Process(f, cmd) == [uuid |-> f, argv |-> cmd, at |-> None]

\* Mutant: a running program is left where it is.
KeepRunning(r, f, cmd) == run[r]

\* restartProcess: the old process is stopped and waited for.
Restarted(r, f, cmd) == Process(f, cmd)

\* The autorun argv is the one read when the request came in.
MoveRestart(p) ==
    /\ At(p, "refmove", "restart")
    /\ LET r == req[p].ref
       IN  IF req[p].got.autorun # None
           THEN /\ run[r] # None => ~Attempting(r)
                /\ run' = [run EXCEPT ![r] = Restarted(r, req[p].frame, req[p].got.autorun)]
           ELSE UNCHANGED run
    /\ Done(p)
    /\ UNCHANGED <<disk, ops, issued>>

-----------------------------------------------------------------------------
(* /autorun                                                                *)

\* Nothing is started while the process of r already runs this command in f.
AlreadyRuns(r, f, cmd) == run[r] # None /\ run[r].uuid = f /\ run[r].argv = cmd

\* startProcess; the frame is the one read when the request came in.
AutorunStart(p) ==
    /\ At(p, "autorun", "apply") /\ req[p].cmd # None
    /\ LET r == req[p].ref
           f == req[p].got.uuid
       IN  \/ AlreadyRuns(r, f, req[p].cmd) /\ UNCHANGED run
           \/ /\ ~AlreadyRuns(r, f, req[p].cmd) /\ ~Attempting(r)
              /\ run' = [run EXCEPT ![r] = Process(f, req[p].cmd)]
    /\ Done(p)
    /\ UNCHANGED <<disk, ops, issued>>

\* Another process of the ref is told to stop and not waited for: an attempt of it
\* that is on its way goes on, and nobody can stop the session it will start.
AutorunReplace(p) ==
    /\ At(p, "autorun", "apply") /\ req[p].cmd # None
    /\ LET r == req[p].ref
           f == req[p].got.uuid
       IN  /\ ~AlreadyRuns(r, f, req[p].cmd) /\ Attempting(r)
           /\ run' = [run EXCEPT ![r] = Process(f, req[p].cmd)]
           /\ req' = [q \in Proc |->
                        IF q = p THEN Idle
                        ELSE IF AttemptOf(req[q], r) THEN [req[q] EXCEPT !.registered = FALSE]
                        ELSE req[q]]
    /\ UNCHANGED <<disk, ops, issued>>

\* stopProcess, which waits for the supervisor.
AutorunStop(p) ==
    /\ At(p, "autorun", "apply") /\ req[p].cmd = None
    /\ run[req[p].ref] # None => ~Attempting(req[p].ref)
    /\ run' = [run EXCEPT ![req[p].ref] = None]
    /\ Done(p)
    /\ UNCHANGED <<disk, ops, issued>>

-----------------------------------------------------------------------------
(* /ref/delete                                                             *)

\* The state directory's id/<ref>, which no handler creates or writes: identity
\* state lives in the frames.
IDDirExists(r) == FALSE

RefDeleteCheck(p) ==
    /\ At(p, "refdelete", "iddir")
    /\ IF ~req[p].force /\ IDDirExists(req[p].ref) THEN Done(p) ELSE Goto(p, "get")
    /\ UNCHANGED <<disk, run, ops, issued>>

\* A ref that cannot be read is deleted all the same.
RefDeleteGet(p) ==
    /\ At(p, "refdelete", "get")
    /\ \E got \in {refs[req[p].ref], None} :
          req' = [req EXCEPT ![p].pc = "unlink", ![p].got = got]
    /\ UNCHANGED <<disk, run, ops, issued>>

RefDeleteUnlink(p) ==
    /\ At(p, "refdelete", "unlink")
    /\ refs' = [refs EXCEPT ![req[p].ref] = None]
    /\ IF refs[req[p].ref] = None THEN Done(p) ELSE Goto(p, "stop")
    /\ UNCHANGED <<meta, tree, ident, snaps, born, run, ops, issued>>

RefDeleteStop(p) ==
    /\ At(p, "refdelete", "stop")
    /\ run[req[p].ref] # None => ~Attempting(req[p].ref)
    /\ run' = [run EXCEPT ![req[p].ref] = None]
    /\ IF req[p].force /\ req[p].got # None THEN Goto(p, "scrub") ELSE Done(p)
    /\ UNCHANGED <<disk, ops, issued>>

\* The identity is removed from the frame read before the ref was deleted.
RefDeleteScrub(p) ==
    /\ At(p, "refdelete", "scrub")
    /\ RemoveIdentity(req[p].got.uuid, req[p].ref)
    /\ Done(p)
    /\ UNCHANGED <<refs, meta, tree, snaps, born, run, ops, issued>>

-----------------------------------------------------------------------------
(* /delete-frame                                                           *)

\* A failed List is only logged: the request goes on as if there were no refs.
DeleteList(p) ==
    /\ At(p, "delframe", "list")
    /\ \/ req' = [req EXCEPT ![p].pc = "scan", ![p].todo = RefNames]
       \/ req' = [req EXCEPT ![p].pc = "scan", ![p].unread = Ref]
    /\ UNCHANGED <<disk, run, ops, issued>>

\* Each listed ref is read; one that is gone by then is skipped ...
DeleteScan(p) ==
    /\ At(p, "delframe", "scan")
    /\ \E r \in req[p].todo :
          req' = [req EXCEPT ![p].todo = @ \ {r},
                             ![p].found = IF PointsAt(r, req[p].frame) THEN @ \cup {r} ELSE @]
    /\ UNCHANGED <<disk, run, ops, issued>>

\* ... and so is one that Get cannot read.
DeleteScanFails(p) ==
    /\ At(p, "delframe", "scan")
    /\ \E r \in req[p].todo :
          req' = [req EXCEPT ![p].todo = @ \ {r}, ![p].unread = @ \cup {r}]
    /\ UNCHANGED <<disk, run, ops, issued>>

\* Mutant: only the frame the request came from is refused.
OnlyNotCurrent(q) == q.frame # q.cur

\* Neither the frame the request came from nor one a ref still names.
MayDelete(q) == q.frame # q.cur /\ q.found = {}

DeleteGate(p) ==
    /\ At(p, "delframe", "scan")
    /\ req[p].todo = {}
    /\ IF MayDelete(req[p]) THEN Goto(p, "home") ELSE Done(p)
    /\ UNCHANGED <<disk, run, ops, issued>>

\* home, work and id go first; a failure is only logged.
DeleteNested(p) ==
    /\ req[p].op = "delframe" /\ req[p].pc \in {"home", "work", "id"}
    /\ LET f == req[p].frame
           c == req[p].pc
       IN  tree' = IF CanDeleteSubvol(f, c) THEN [tree EXCEPT ![f] = @ \ {c}] ELSE tree
    /\ Goto(p, [home |-> "work", work |-> "id", id |-> "root"][req[p].pc])
    /\ UNCHANGED <<refs, meta, ident, snaps, born, run, ops, issued>>

DeleteRoot(p) ==
    /\ At(p, "delframe", "root")
    /\ IF CanDeleteSubvol(req[p].frame, "root")
       THEN tree' = [tree EXCEPT ![req[p].frame] = {}] /\ Goto(p, "sidecar")
       ELSE UNCHANGED tree /\ Done(p)
    /\ UNCHANGED <<refs, meta, ident, snaps, born, run, ops, issued>>

\* A sidecar that cannot be deleted is only logged.
DeleteSidecar(p) ==
    /\ At(p, "delframe", "sidecar")
    /\ meta' \in {meta, [meta EXCEPT ![req[p].frame] = None]}
    /\ Done(p)
    /\ UNCHANGED <<refs, tree, ident, snaps, born, run, ops, issued>>

-----------------------------------------------------------------------------
(* /create                                                                 *)

Fresh == Frame \ issued

\* The checks, a new UUID, and the sidecar, which is written before the frame
\* is built.  The rootfs snap must be in the store even when a live frame is
\* the source, and the home and work snaps are not looked for.
CreateCheck(p) ==
    /\ At(p, "create", "check")
    /\ LET q == req[p]
           root == q.layout["root"]
       IN  IF \/ root # None /\ root \notin snaps
              \/ q.ref # None /\ refs[q.ref] # None
              \/ q.live # None /\ meta[q.live] = None
           THEN Done(p) /\ UNCHANGED <<meta, issued>>
           ELSE \E f \in Fresh :
                   /\ issued' = issued \cup {f}
                   /\ meta' = [meta EXCEPT ![f] = [snap |-> q.layout, tainted |-> FALSE]]
                   /\ req' = [req EXCEPT ![p].pc = "fetch", ![p].frame = f]
    /\ UNCHANGED <<refs, tree, ident, snaps, born, run, ops>>

\* A rootfs snap that has disappeared since is downloaded from a mesh peer.
CreateFetch(p) ==
    /\ At(p, "create", "fetch")
    /\ LET root == req[p].layout["root"]
       IN  IF req[p].live # None \/ root \in snaps \cup {None}
           THEN Goto(p, "root") /\ UNCHANGED snaps
           ELSE \/ snaps' = snaps \cup {root} /\ Goto(p, "root")
                \/ UNCHANGED snaps /\ Done(p)
    /\ UNCHANGED <<refs, meta, tree, ident, born, run, ops, issued>>

-----------------------------------------------------------------------------
(* Building a frame's subvolumes: ensureFrameFS, and, for a live source,   *)
(* cloneLiveFrameComponents, which clones the components captured from it. *)

Building(q) == q.pc \in {"root", "home", "work", "meta", "id"} /\ q.op # "delframe"

\* Whether component c can be made, and the subvolumes there are then.  A live
\* source that has no such component gives an empty one, except for the root.
CanBuild(q, c) ==
    LET s == q.layout[c]
    IN  IF q.live # None
        THEN /\ "root" \in tree[q.live]
             /\ c # "root" => /\ "root" \in tree[q.frame]
                              /\ c \in tree[q.frame] => CanDeleteSubvol(q.frame, c)
        ELSE IF s # None THEN s \in snaps /\ CanSnapshot(q.frame, c)
                         ELSE CanCreate(q.frame, c)

Built(q, c) ==
    IF q.live # None /\ c # "root"
    THEN tree[q.frame] \cup {c}
    ELSE AfterSnapshot(q.frame, c)

\* Mutant: an empty work component is not created.
AfterHomeOrMeta(q, c) ==
    IF c = "home" /\ q.layout["work"] = None THEN "meta"
    ELSE [root |-> "home", home |-> "work", work |-> "meta"][c]

AfterComp(q, c) == [root |-> "home", home |-> "work", work |-> "meta"][c]

\* A build that fails leaves what it has made.
BuildComp(p) ==
    /\ Building(req[p]) /\ req[p].pc \in Comp
    /\ LET c == req[p].pc
       IN  IF CanBuild(req[p], c)
           THEN /\ tree' = [tree EXCEPT ![req[p].frame] = Built(req[p], c)]
                /\ Goto(p, AfterComp(req[p], c))
           ELSE UNCHANGED tree /\ Done(p)
    /\ UNCHANGED <<refs, meta, ident, snaps, born, run, ops, issued>>

\* The taints of a frame made from snaps are theirs; the sidecar of a frame
\* made from a live one is written as /create first wrote it.
BuildTaints(q) == q.live = None /\ UnionTaints([snap |-> q.layout])

\* The sidecar is rewritten, with the taints; a failure is only logged.
BuildMeta(p) ==
    /\ Building(req[p]) /\ req[p].pc = "meta"
    /\ meta' \in {meta, [meta EXCEPT ![req[p].frame] =
                           [snap |-> req[p].layout, tainted |-> BuildTaints(req[p])]]}
    /\ Goto(p, "id")
    /\ UNCHANGED <<refs, tree, ident, snaps, born, run, ops, issued>>

\* A fresh /id; the live path removes one that is there first.
BuildID(p) ==
    /\ Building(req[p]) /\ req[p].pc = "id"
    /\ LET f == req[p].frame
       IN  IF "root" \in tree[f] /\ (req[p].live # None /\ "id" \in tree[f] => CanDeleteSubvol(f, "id"))
           THEN /\ tree' = WithID(f)
                /\ CASE req[p].op # "create"   -> Goto(p, "repair")
                     [] req[p].ref # None      -> Goto(p, "stat")
                     [] OTHER                  -> Done(p)
           ELSE UNCHANGED tree /\ Done(p)
    /\ UNCHANGED <<refs, meta, ident, snaps, born, run, ops, issued>>

-----------------------------------------------------------------------------
(* Entering a frame: a login, ts go, or an autorun attempt.                *)

Entering(q) == q.op \in {"enter", "attempt"}

EnterFrame(p, f) ==
    req' = [req EXCEPT ![p].pc = "stat", ![p].frame = f]

\* resolveFrameForNamespace: the UUID of a frame comes before a ref of that name,
\* and the name of the namespace stands for no name.
Resolve(p) ==
    /\ Entering(req[p]) /\ req[p].pc = "resolve"
    /\ LET n == req[p].name
           isDefault == n \in {None, Namespace}
           r == IF isDefault THEN DefaultRef ELSE n
       IN  IF n \in FrameList
           THEN EnterFrame(p, n) /\ UNCHANGED issued
           ELSE IF r \in RefNames
           THEN EnterFrame(p, refs[r].uuid) /\ UNCHANGED issued
           ELSE IF ~isDefault
           THEN Done(p) /\ UNCHANGED issued
           ELSE IF Cardinality(FrameList) = 1
           THEN \E f \in FrameList : EnterFrame(p, f) /\ UNCHANGED issued
           ELSE \E f \in Fresh : EnterFrame(p, f) /\ issued' = issued \cup {f}
    /\ UNCHANGED <<disk, run, ops>>

\* handleResolveFrame, which wants the frame to have a sidecar; /enter then
\* goes to the frame's directory without looking again.
GoLookup(p) ==
    /\ At(p, "enter", "go")
    /\ LET n == req[p].name
           f == IF n \in Frame THEN n ELSE refs[n].uuid
       IN  IF n \in Frame \cup RefNames /\ meta[f] # None THEN EnterFrame(p, f) ELSE Done(p)
    /\ UNCHANGED <<disk, run, ops, issued>>

\* ensureRootFS: a directory that exists is taken as it is, a missing one is
\* built from the sidecar or, without one, as an empty frame.
EnsureRootFS(p) ==
    /\ Entering(req[p]) /\ req[p].pc = "stat"
    /\ LET f == req[p].frame
           m == IF meta[f] # None THEN meta[f] ELSE EmptyFrame
       IN  IF "root" \in tree[f]
           THEN Goto(p, "repair")
           ELSE req' = [req EXCEPT ![p].pc = "root", ![p].layout = m.snap]
    /\ UNCHANGED <<disk, run, ops, issued>>

\* RepairOwnership creates a missing /id.  The session then starts; that of an
\* autorun attempt is its process's own, unless another has taken its place.
EnterRepair(p) ==
    /\ Entering(req[p]) /\ req[p].pc = "repair"
    /\ LET f == req[p].frame
       IN  IF ~CanEnsureID(f)
           THEN Done(p) /\ UNCHANGED <<tree, run>>
           ELSE /\ tree' = WithID(f)
                /\ IF ~AttemptOf(req[p], req[p].ref)
                   THEN Goto(p, "in") /\ UNCHANGED run
                   ELSE /\ Done(p)
                        /\ run' = IF run[req[p].ref] = None THEN run
                                  ELSE [run EXCEPT ![req[p].ref].at = f]
    /\ UNCHANGED <<refs, meta, ident, snaps, born, ops, issued>>

\* A session ends, a login's or that of a replaced autorun process.
Leave(p) ==
    /\ Entering(req[p]) /\ req[p].pc = "in"
    /\ Done(p)
    /\ UNCHANGED <<disk, run, ops, issued>>

\* The supervisor of r enters the frame r names by now.
Attempt(p) ==
    /\ req[p] = Idle
    /\ \E r \in Ref :
          /\ run[r] # None /\ run[r].at = None /\ ~Attempting(r)
          /\ Accept(p, [Idle EXCEPT !.op = "attempt", !.pc = "resolve", !.ref = r, !.name = r,
                                    !.registered = TRUE])
    /\ UNCHANGED <<disk, run, ops, issued>>

-----------------------------------------------------------------------------
(* The rest of the daemon.                                                 *)

\* A snap nothing in this module looks at again is deleted.
SnapGone(s) ==
    /\ s \in snaps
    /\ snaps' = snaps \ {s}
    /\ UNCHANGED <<refs, meta, tree, ident, born, req, run, ops, issued>>

\* The daemon dies with requests in flight; the next one starts the autorun
\* program of every ref that has one and can be read.
Restart ==
    /\ ops < MaxOps
    /\ ops' = ops + 1
    /\ req' = [p \in Proc |-> Idle]
    /\ \E unread \in SUBSET Ref :
          run' = [r \in Ref |-> IF r \notin unread /\ refs[r] # None /\ refs[r].autorun # None
                                THEN Process(refs[r].uuid, refs[r].autorun) ELSE None]
    /\ UNCHANGED <<disk, issued>>

Step(p) ==
    \/ Start(p)
    \/ RefCreateLookup(p) \/ RefCreateStat(p) \/ RefCreateWrite(p) \/ RefCreateEnsure(p)
    \/ RefGet(p) \/ RefReread(p) \/ RefWrite(p)
    \/ MoveIdentity(p) \/ MoveRename(p) \/ MoveRestart(p) \/ AutorunStart(p) \/ AutorunStop(p)
    \/ RefDeleteCheck(p) \/ RefDeleteGet(p) \/ RefDeleteUnlink(p)
    \/ RefDeleteStop(p) \/ RefDeleteScrub(p)
    \/ DeleteList(p) \/ DeleteScan(p) \/ DeleteScanFails(p) \/ DeleteGate(p)
    \/ DeleteNested(p) \/ DeleteRoot(p) \/ DeleteSidecar(p)
    \/ CreateCheck(p) \/ CreateFetch(p) \/ BuildComp(p) \/ BuildMeta(p) \/ BuildID(p)
    \/ Resolve(p) \/ GoLookup(p) \/ EnsureRootFS(p) \/ EnterRepair(p) \/ Leave(p)
    \/ Attempt(p)

-----------------------------------------------------------------------------
(* History variables: what the properties need to know of the past.        *)

VARIABLES
    held,       \* proc -> refs that have named the frame it deletes all along
    disturbed,  \* refs whose requests overlapped, or that lost identity or program
    hurt        \* frames half built, half deleted, or entered meanwhile

framesVars == <<state, held, disturbed, hurt>>

RefOn(q, r) == q.op \in {"refcreate", "refmove", "refdelete", "autorun", "create"} /\ q.ref = r

Deleting(q) == q.op = "delframe" /\ q.pc \in {"home", "work", "id", "root", "sidecar"}

\* q is building or deleting frame f, or is about to build it.
Shaping(q, f) ==
    \/ Building(q) /\ q.frame = f
    \/ Deleting(q) /\ q.frame = f
    \/ q.op = "create" /\ q.pc = "fetch" /\ q.frame = f

Visiting(q, f) == Entering(q) /\ q.pc \in {"stat", "repair", "in"} /\ q.frame = f

\* A move that fails leaves the identity behind, and so does a deletion without -f,
\* of a ref that could not be read, or whose subvolume could not be removed.
LosesIdentity(r) ==
    \E p \in Proc :
       \/ /\ req[p].op = "refmove" /\ req[p].ref = r
          /\ req[p].pc \in {"identity", "rename"} /\ req'[p].pc = "restart"
          /\ ident'[req[p].got.uuid][r] # None
          /\ ident'[req[p].frame][r] \in {ident[req[p].frame][r], None}
       \/ /\ At(p, "refdelete", "unlink") /\ req[p].ref = r
          /\ refs[r] # None /\ refs'[r] = None
          /\ ~req[p].force \/ req[p].got = None
       \/ /\ At(p, "refdelete", "scrub") /\ req[p].ref = r
          /\ req'[p] = Idle /\ ident'[req[p].got.uuid][r] # None

Watch(crashed) ==
    /\ held' = [p \in Proc |->
                  IF req'[p].op # "delframe" THEN {}
                  ELSE {r \in Ref : /\ req[p].op = "delframe" => r \in held[p]
                                    /\ refs'[r] # None /\ refs'[r].uuid = req'[p].frame}]
    /\ disturbed' = disturbed \cup
          {r \in Ref : \/ \E p, q \in Proc : p # q /\ RefOn(req'[p], r) /\ RefOn(req'[q], r)
                       \/ LosesIdentity(r)
                       \/ crashed /\ \E p \in Proc : RefOn(req[p], r)
                       \/ crashed /\ refs[r] # None /\ refs[r].autorun # None /\ run'[r] = None}
    /\ hurt' = hurt \cup
          {f \in Frame :
             \/ \E p, q \in Proc : /\ p # q /\ Shaping(req'[p], f)
                                   /\ Shaping(req'[q], f) \/ Visiting(req'[q], f)
             \/ \E p \in Proc : \/ Deleting(req'[p]) /\ req'[p].frame = f
                                \/ /\ Shaping(req[p], f) /\ req'[p] = Idle
                                   /\ crashed \/ req[p].pc # "id" \/ "id" \notin tree'[f]}

FramesInit ==
    /\ \E f, g \in Frame, r \in Ref :
          /\ f # g
          /\ issued = {f, g}
          /\ refs = [x \in Ref |-> IF x = r THEN NewRef(f) ELSE None]
          /\ \E l \in Layouts :
                meta = [x \in Frame |->
                          IF x = f THEN [snap |-> l, tainted |-> \E c \in Comp : l[c] \in TaintedSnap]
                          ELSE IF x = g THEN EmptyFrame ELSE None]
          /\ tree = [x \in Frame |-> IF x \in {f, g} THEN Comp \cup {"id"} ELSE {}]
          /\ ident = [x \in Frame |-> [y \in Ref |-> IF x = f /\ y = r THEN 1 ELSE None]]
    /\ snaps = Snap /\ born = 1
    /\ req = [p \in Proc |-> Idle] /\ ops = 0
    /\ run = [r \in Ref |-> None]
    /\ held = [p \in Proc |-> {}] /\ disturbed = {} /\ hurt = {}

FramesNext ==
    \/ \E p \in Proc : (Step(p) \/ AutorunReplace(p)) /\ Watch(FALSE)
    \/ \E s \in Snap : SnapGone(s) /\ Watch(FALSE)
    \/ Restart /\ Watch(TRUE)

FramesSpec == FramesInit /\ [][FramesNext]_framesVars

-----------------------------------------------------------------------------
(* Properties                                                              *)

Quiet(r) == r \notin disturbed /\ \A p \in Proc : ~RefOn(req[p], r)

\* handleDeleteFrame refuses a frame "that still has refs pointing at it": once
\* its first subvolume is about to go, a ref that has named the frame ever since the
\* request came in is one that the request could not list or read, however the refs
\* were moved around while it read them one by one.
NamedFrameSpared ==
    \A p \in Proc : Deleting(req[p]) => held[p] \subseteq req[p].unread

\* What the handler's comment promises, "Refuse to delete a frame that still has
\* refs pointing at it", of the refs that have pointed at it all along.  The code
\* does not keep it: a List or a Get that fails counts as no ref.
NamedFrameKept ==
    \A p \in Proc : Deleting(req[p]) => held[p] = {}

\* What refs.go says of a ref, which "maintains a reflog of which UUIDs it has pointed
\* to over time": no write of the file loses an entry of it.  The code does not keep
\* it: two requests on a ref each write what they have made of the file they read.
ReflogKept ==
    [][\A r \in Ref : refs[r] # None /\ refs'[r] # None
            => \A i \in DOMAIN refs[r].reflog :
                  \E j \in DOMAIN refs'[r].reflog : refs'[r].reflog[j] = refs[r].reflog[i]]_framesVars

\* A ref's private state follows the ref (refid.Move, refid.Remove): while no
\* two requests on a ref overlapped and none of them failed to take the identity
\* along or away, the only frame with an identity subvolume of the ref is the one the
\* ref names, and there is none once it has been force-deleted.
IdentityFollowsRef ==
    \A r \in Ref : Quiet(r) =>
        \A f \in Frame : ident[f][r] # None => PointsAt(r, f)

\* The refs whose name stands for something else when it is resolved: that of a
\* frame's UUID for the frame, that of the namespace for the default.
Shadowed == Frame \cup {Namespace}

\* The manager's process for a ref runs the command the ref asks for, in the frame
\* the ref names, and there is none when the ref asks for none, after any sequence
\* of moves, deletions, autorun requests that do not overlap on the ref, and daemon
\* restarts that could read it.  (The session of a process that another command has
\* replaced is no longer the manager's: it may still start, and stay in the frame it
\* resolved.)
AutorunFollowsRef ==
    \A r \in Ref \ Shadowed : Quiet(r) =>
        IF refs[r] = None \/ refs[r].autorun = None
        THEN run[r] = None
        ELSE /\ run[r] # None /\ run[r].argv = refs[r].autorun
             /\ run[r].at # None => run[r].at = refs[r].uuid

\* runOnce's comment, "Resolve the ref to its current frame rootfs so ref moves are
\* reflected", of every ref.  The code does not keep it: a ref named like its
\* namespace is resolved as no name.
ProgramsInTheirFrame ==
    \A r \in Ref \ Frame : Quiet(r) /\ refs[r] # None /\ run[r] # None =>
        run[r].at \in {None, refs[r].uuid}

\* A session starts in a whole frame: ensureRootFS takes an existing directory
\* for a finished frame, so this holds of every frame whose build neither
\* failed nor was entered, deleted or interrupted half way.
EntersWhole ==
    \A p \in Proc : At(p, "enter", "in") /\ req[p].frame \notin hurt
                    => Comp \cup {"id"} \subseteq tree[req[p].frame]

\* What the comment of ensureRootFS says of a frame with a sidecar, that "nested /home
\* and /work subvolumes are created within the rootfs", of the frame a session starts
\* in while nobody deletes it.  The code does not keep it: any directory that exists
\* is taken for a frame.
EntersThree ==
    \A p \in Proc :
        /\ At(p, "enter", "in") /\ meta[req[p].frame] # None
        /\ \A q \in Proc : Deleting(req[q]) => req[q].frame # req[p].frame
        => Comp \subseteq tree[req[p].frame]

-----------------------------------------------------------------------------
(***************************************************************************)
(* The invariant behind the four properties.  What a request has read says *)
(* something of the present only while no other request on its ref can     *)
(* have changed it, so every part but the first two is about the refs and  *)
(* the frames that are not disturbed or hurt.                              *)
(***************************************************************************)
Steps(op) ==
    CASE op = "none" -> {"idle"}
      [] op = "refcreate" -> {"lookup", "stat", "write", "ensure"}
      [] op = "refmove" -> {"get", "reread", "write", "identity", "rename", "restart"}
      [] op = "autorun" -> {"get", "reread", "write", "apply"}
      [] op = "refdelete" -> {"iddir", "get", "unlink", "stop", "scrub"}
      [] op = "delframe" -> {"list", "scan", "home", "work", "id", "root", "sidecar"}
      [] op = "create" ->
            {"check", "fetch", "root", "home", "work", "meta", "id", "stat", "write"}
      [] op = "enter" ->
            {"resolve", "go", "stat", "root", "home", "work", "meta", "id", "repair", "in"}
      [] op = "attempt" ->
            {"resolve", "stat", "root", "home", "work", "meta", "id", "repair", "in"}

Ops == {"none", "refcreate", "refmove", "autorun", "refdelete", "delframe", "create",
        "enter", "attempt"}
Pcs == UNION {Steps(op) : op \in Ops}

Sidecar == [snap : [Comp -> Snap \cup {None}], tainted : BOOLEAN]

Request ==
    [op : Ops, pc : Pcs, ref : Ref \cup {None}, frame : Frame \cup {None},
     name : Ref \cup Frame \cup {None}, cur : Frame \cup {None}, live : Frame \cup {None},
     layout : [Comp -> Snap \cup {None}], force : BOOLEAN, cmd : Argv \cup {None},
     got : RefFile \cup {None}, copy : RefFile \cup {None}, todo : SUBSET Ref, found : SUBSET Ref,
     unread : SUBSET Ref, registered : BOOLEAN]

StateTypeOK ==
    /\ refs \in [Ref -> RefFile \cup {None}] /\ meta \in [Frame -> Sidecar \cup {None}]
    /\ tree \in [Frame -> SUBSET Part] /\ ident \in [Frame -> [Ref -> Nat \cup {None}]]
    /\ snaps \subseteq Snap /\ born \in Nat
    /\ req \in [Proc -> Request] /\ run \in [Ref -> ProcessType \cup {None}]
    /\ ops \in Nat /\ issued \subseteq Frame

FramesTypeOK ==
    /\ StateTypeOK
    /\ held \in [Proc -> SUBSET Ref] /\ disturbed \subseteq Ref /\ hurt \subseteq Frame

\* What a request has found out by the step it is at.
ReqOK(q) ==
    /\ q.pc \in Steps(q.op)
    /\ q.op \in {"refcreate", "refmove", "refdelete", "autorun", "attempt"} => q.ref \in Ref
    /\ q.op \in {"refcreate", "refmove", "delframe"} => q.frame \in Frame
    /\ q.op = "create" /\ q.pc # "check" => q.frame \in Frame
    /\ q.op = "create" /\ q.pc \in {"stat", "write"} => q.ref \in Ref
    /\ q.op \in {"enter", "attempt"} /\ q.pc \notin {"resolve", "go"} => q.frame \in Frame
    /\ q.op \in {"enter", "attempt"} => q.live = None
    /\ q.op = "attempt" => q.name = q.ref
    /\ q.op \in {"refmove", "autorun"} /\ q.pc # "get" => q.got \in RefFile
    /\ q.op \in {"refmove", "autorun"} /\ q.pc = "write" => q.copy \in RefFile
    /\ q.op = "refdelete" /\ q.pc = "scrub" => q.got \in RefFile

RequestInv == \A p \in Proc : ReqOK(req[p])

\* Whatever names a frame names one whose UUID has been handed out, and only
\* those have a directory or a sidecar; nothing is left of a frame without its
\* own subvolume.
IssuedInv ==
    /\ \A f \in Frame \ issued : tree[f] = {} /\ meta[f] = None
    /\ \A f \in Frame : tree[f] # {} => "root" \in tree[f]
    /\ \A r \in Ref : refs[r] # None => refs[r].uuid \in issued
    /\ \A p \in Proc : /\ req[p].frame \in issued \cup {None}
                       /\ req[p].got # None => req[p].got.uuid \in issued
                       /\ req[p].copy # None => req[p].copy.uuid \in issued

\* The refs that have named a frame all along are among those its deletion has
\* found, could not read, or has yet to read.
HeldInv ==
    \A p \in Proc :
        /\ req[p].op # "delframe" => held[p] = {}
        /\ \A r \in held[p] : PointsAt(r, req[p].frame)
        /\ At(p, "delframe", "scan") =>
              held[p] \subseteq req[p].todo \cup req[p].found \cup req[p].unread

\* What the only request on r knows of r.
Knows(q, r) ==
    /\ q.op \in {"refcreate", "create"} /\ q.pc = "write" => refs[r] = None
    /\ q.op = "refcreate" /\ q.pc = "ensure" => PointsAt(r, q.frame)
    /\ q.op \in {"refmove", "autorun"} /\ q.pc \in {"reread", "write"} => refs[r] = q.got
    /\ q.op = "refmove" /\ q.pc = "write" => q.copy = Moved(q.got, q.frame)
    /\ q.op = "refmove" /\ q.pc \in {"identity", "rename", "restart"} =>
          refs[r] = Moved(q.got, q.frame) /\ q.got.uuid # q.frame
    /\ q.op = "autorun" /\ q.pc = "write" => q.copy = SetAutorun(q.got, q.cmd)
    /\ q.op = "autorun" /\ q.pc = "apply" => refs[r] = SetAutorun(q.got, q.cmd)
    /\ q.op = "refdelete" /\ q.pc = "unlink" => q.got \in {refs[r], None}
    /\ q.op = "refdelete" /\ q.pc \in {"stop", "scrub"} => refs[r] = None /\ q.force /\ q.got \in RefFile

KnowsInv ==
    \A r \in Ref \ disturbed, p \in Proc : RefOn(req[p], r) =>
        /\ Knows(req[p], r)
        /\ \A q \in Proc : RefOn(req[q], r) => q = p

\* q is about to take the identity of its ref away from frame f.
Fetches(q, f) ==
    /\ \/ q.op = "refmove" /\ q.pc \in {"identity", "rename"}
       \/ q.op = "refdelete" /\ q.pc \in {"stop", "scrub"}
    /\ q.got.uuid = f

IdentityInv ==
    \A r \in Ref \ disturbed, f \in Frame : ident[f][r] # None =>
        PointsAt(r, f) \/ \E p \in Proc : RefOn(req[p], r) /\ Fetches(req[p], f)

\* The program of r is the one its ref file, or an earlier state of it, asks for.
RunsAs(r, file) ==
    IF file = None \/ file.autorun = None THEN run[r] = None
    ELSE /\ run[r] # None /\ run[r].uuid = file.uuid /\ run[r].argv = file.autorun
         /\ run[r].at \in {None, file.uuid}
         /\ \A p \in Proc : AttemptOf(req[p], r) /\ req[p].pc # "resolve"
                               => req[p].frame = file.uuid

\* q has changed the ref file and has yet to start or stop the program.
Unapplied(q) ==
    \/ q.op = "refmove" /\ q.pc \in {"identity", "rename", "restart"}
    \/ q.op = "autorun" /\ q.pc = "apply"
    \/ q.op = "refdelete" /\ q.pc = "stop"

AutorunInv ==
    /\ \A r \in Ref : Attempting(r) => run[r] # None
    /\ \A r \in Ref \ (Shadowed \cup disturbed) :
          /\ (\A p \in Proc : ~(RefOn(req[p], r) /\ Unapplied(req[p]))) => RunsAs(r, refs[r])
          /\ \A p \in Proc : RefOn(req[p], r) =>
                /\ req[p].op = "refmove" /\ Unapplied(req[p]) => (run[r] # None <=> req[p].got.autorun # None)
                /\ At(p, "autorun", "apply") => RunsAs(r, req[p].got)

Whole(f) == Comp \cup {"id"} \subseteq tree[f]

\* How far the only request that builds f has come.
BuiltSoFar(q, f) ==
    /\ q.pc \in {"fetch", "root"} => tree[f] = {}
    /\ q.pc = "home" => "root" \in tree[f]
    /\ q.pc = "work" => {"root", "home"} \subseteq tree[f]
    /\ q.pc \in {"meta", "id"} => Comp \subseteq tree[f]

WholeInv ==
    \A f \in Frame \ hurt :
        /\ \A p \in Proc : Shaping(req[p], f) =>
              /\ ~Deleting(req[p]) /\ BuiltSoFar(req[p], f)
              /\ \A q \in Proc \ {p} : ~Shaping(req[q], f) /\ ~Visiting(req[q], f)
        /\ (\A p \in Proc : ~Shaping(req[p], f)) => tree[f] = {} \/ Whole(f)
        /\ \A p \in Proc : Visiting(req[p], f) /\ req[p].pc # "stat" => Whole(f)

FramesInv ==
    /\ FramesTypeOK /\ RequestInv /\ IssuedInv /\ HeldInv /\ KnowsInv /\ IdentityInv
    /\ AutorunInv /\ WholeInv /\ NamedFrameSpared
===============================================================================
