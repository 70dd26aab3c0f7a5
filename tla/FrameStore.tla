------------------------------ MODULE FrameStore ------------------------------
(***************************************************************************)
(* The disk state of one namespace and the primitives its handlers are     *)
(* made of: the ref files of refs/, the frame sidecars of frames/, the     *)
(* subvolumes of a frame (btrfsutil, rootfs.go) and the per-ref identity   *)
(* subvolumes under a frame's /id (refid/).                                *)
(*                                                                         *)
(* A snap's and a frame's taints are reduced to whether it is tainted, an  *)
(* identity subvolume to the number of its creation, an autorun argv to a  *)
(* member of Argv.                                                         *)
(***************************************************************************)
EXTENDS Naturals, Sequences, FiniteSets

CONSTANTS
    Ref,            \* ref names
    Frame,          \* frame UUIDs
    Proc,           \* requests and session entries that may be in flight
    Snap,           \* snap IDs
    TaintedSnap,    \* the snaps whose metadata carries the taint
    Argv,           \* the commands an autorun program may have
    None

ASSUME FrameStoreAssumption ==
    /\ TaintedSnap \subseteq Snap
    /\ None \notin Ref \cup Frame \cup Proc \cup Snap \cup Argv

VARIABLES
    refs,       \* ref -> its file: [uuid, autorun, reflog], or None
    meta,       \* frame -> its sidecar: [snap, tainted], or None
    tree,       \* frame -> the subvolumes that exist for it
    ident,      \* frame -> ref -> the identity subvolume id/<ref>, or None
    snaps,      \* the published snaps
    born        \* identity subvolumes created so far

disk == <<refs, meta, tree, ident, snaps, born>>

-----------------------------------------------------------------------------
(* refs/refs.go: one file per ref, each write an atomic rename.            *)

NewRef(f) == [uuid |-> f, autorun |-> None, reflog |-> <<f>>]

\* Move: the new frame goes to the front of the reflog.
Moved(ref, f) == [ref EXCEPT !.uuid = f, !.reflog = <<f>> \o @]

SetAutorun(ref, cmd) == [ref EXCEPT !.autorun = cmd]

RefNames == {r \in Ref : refs[r] # None}

PointsAt(r, f) == refs[r] # None /\ refs[r].uuid = f

-----------------------------------------------------------------------------
(* frames/frames.go: a sidecar per frame.                                  *)

Comps == <<"root", "home", "work">>
Comp == {"root", "home", "work"}

NoSnaps == [c \in Comp |-> None]

\* A frame entered without a sidecar is built as an empty one.
EmptyFrame == [snap |-> NoSnaps, tainted |-> FALSE]

FrameList == {f \in Frame : meta[f] # None}

\* UnionTaints over the taints of the component snaps; a snap that is gone has
\* no metadata and so no taints.
UnionTaints(m) == \E c \in Comp : m.snap[c] \in TaintedSnap \cap snaps

-----------------------------------------------------------------------------
(* Subvolumes. "home", "work" and "id" are nested in the frame's own.      *)
(* btrfs refuses to create a subvolume where one is, puts a snapshot that  *)
(* is taken onto an existing directory inside it, and refuses to delete a  *)
(* subvolume another one is nested in.                                     *)

Inner == [root |-> "root+", home |-> "home+", work |-> "work+"]
Part == Comp \cup {"id"} \cup {Inner[c] : c \in Comp}

Reachable(f, c) == c = "root" \/ "root" \in tree[f]

CanCreate(f, c) == Reachable(f, c) /\ c \notin tree[f]

CanSnapshot(f, c) == Reachable(f, c)
AfterSnapshot(f, c) == tree[f] \cup {IF c \in tree[f] THEN Inner[c] ELSE c}

Identities(f) == {r \in Ref : ident[f][r] # None}

CanDeleteSubvol(f, c) ==
    /\ c \in tree[f]
    /\ CASE c = "root" -> tree[f] = {"root"}
         [] c = "id"   -> Identities(f) = {}
         [] OTHER      -> Inner[c] \notin tree[f]

-----------------------------------------------------------------------------
(* refid/refid.go                                                          *)

\* ensureIDSubvol: only a frame whose directory exists can get an /id.
CanEnsureID(f) == "root" \in tree[f]
WithID(f) == [tree EXCEPT ![f] = @ \cup {"id"}]

\* Ensure: an existing identity subvolume is kept, a missing one is created.
EnsureIdentity(f, r) ==
    IF CanEnsureID(f)
    THEN /\ tree' = WithID(f)
         /\ ident' = [ident EXCEPT ![f][r] = IF @ = None THEN born + 1 ELSE @]
         /\ born' = IF ident[f][r] = None THEN born + 1 ELSE born
    ELSE UNCHANGED <<tree, ident, born>>

\* Mutant: the subvolume is copied to the destination and stays at the source.
CopyIdentity(src, dst, r) ==
    \/ "id" \in tree[dst] /\ ident' = [ident EXCEPT ![dst][r] = ident[src][r]]
    \/ UNCHANGED ident

\* The second half of Move: what is at the destination goes, and the subvolume
\* is renamed there unless either end has disappeared.  The deletion may fail, and
\* the rename after it.
RenameIdentity(src, dst, r) ==
    \/ "id" \in tree[dst] /\ ident' = [ident EXCEPT ![dst][r] = ident[src][r], ![src][r] = None]
    \/ ident' = [ident EXCEPT ![dst][r] = None]
    \/ UNCHANGED ident

\* Remove: the subvolume is deleted, unless btrfs refuses.
RemoveIdentity(f, r) ==
    ident' = [ident EXCEPT ![f][r] = None] \/ UNCHANGED ident
===============================================================================
