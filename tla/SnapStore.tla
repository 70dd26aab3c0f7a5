------------------------------ MODULE SnapStore -------------------------------
(***************************************************************************)
(* The requests that add snaps to and remove them from the snaps directory *)
(* of one daemon: downloads from a mesh peer (doDownloadSnap of main.go,   *)
(* tsm/download.go), the publication of a snap indexed here                *)
(* (indexAndFinalizeSubvol) and handleDeleteSnap.  No lock orders them.    *)
(*                                                                         *)
(* The peer is external: any fetch from it may fail.  The stamp and the    *)
(* manifests it sends are taken to be the snap's (nothing compares them    *)
(* with the ID); the chunks are compared with the manifest.  The taints of *)
(* a snap's metadata are left out: whether a duplicate rewrites it is a    *)
(* choice.                                                                 *)
(***************************************************************************)
EXTENDS ChunkIndex

CONSTANTS
    Stamp,          \* snap -> the parent its .stamp names on the peer
    Manifest,       \* snap -> the file entries of its .tsm, in order
    Links,          \* snap -> the file paths that pass through a symlink of it
    Base,           \* the stamp "1" of a snap without a parent
    BaseDirs,       \* what may be found as the base snap "1", None for nothing
    Proc,           \* requests that may be in flight
    MaxDepth,       \* bound on the walk to a local ancestor
    MaxOps          \* bound on the requests of a behaviour

\* A published directory, a download directory and what a .stamp can name.  links
\* are the paths that pass through a symlink; junk says that something which is in
\* no manifest could not be removed.
Dir == [kind : {"subvol", "plain"}, files : [File -> Chunk \cup {None}],
        links : SUBSET File, junk : BOOLEAN]

TmpDirs == [kind : {"subvol", "plain"}, files : [File -> Chunk \cup {None}],
            links : SUBSET File, junk : BOOLEAN, nested : BOOLEAN, part : SUBSET File]

Parents == Snap \cup {Base, None}

ASSUME StoreAssumption ==
    /\ MaxOps \in Nat /\ MaxDepth \in Nat \ {0}
    /\ Stamp \in [Snap -> Snap \cup {Base}] /\ Base \notin Snap \cup {None}
    /\ Content \in [Snap -> [File -> Chunk \cup {None}]]
    /\ None \notin Dir /\ None \notin TmpDirs
    /\ BaseDirs # {} /\ BaseDirs \subseteq Dir \cup {None}

\* The manifest lists exactly the files of the snap.
ASSUME ManifestAssumption ==
    /\ Manifest \in [Snap -> Seq(File)]
    /\ \A s \in Snap, f \in File : Content[s][f] # None <=> f \in Range(Manifest[s])
    /\ Links \in [Snap -> SUBSET File]
    /\ \A s \in Snap : \A f \in Links[s] : Content[s][f] = None

VARIABLES
    stamp,      \* snap -> the contents of its .stamp, or None
    json,       \* snap -> its metadata, [parent], or None
    tmp,        \* snap -> the download directory <id>.tmp, or None
    side,       \* snap -> its temporary files, of {"stamp", "tsm", "tsc"}
    req,        \* proc -> the request it is serving
    ops         \* requests started

store == <<dir, man, stamp, json, tmp, side>>
state == <<store, req, ops>>

\* What a request keeps: its snap, a parent (of an indexed or a deleted snap), of a
\* download the index, the files to do and where the next chunk is, and of a
\* deletion the snaps to do and those whose metadata it could not reach.
Begin(op, pc, s, b) ==
    [op |-> op, pc |-> pc, snap |-> s, parent |-> b, ix |-> None, todo |-> <<>>, loc |-> None,
     missed |-> {}]

Idle == Begin("none", "idle", None, None)

Goto(p, l) == req' = [req EXCEPT ![p].pc = l]
Done(p) == req' = [req EXCEPT ![p] = Idle]
At(p, op, l) == req[p].op = op /\ req[p].pc = l

Start(p) ==
    /\ req[p] = Idle
    /\ ops < MaxOps
    /\ ops' = ops + 1
    /\ \E s \in Snap :
          \/ req' = [req EXCEPT ![p] = Begin("download", "check", s, None)]
          \/ req' = [req EXCEPT ![p] = Begin("delete", "stat", s, None)]
          \/ \E b \in (Snap \ {s}) \cup {Base} :
                req' = [req EXCEPT ![p] = Begin("index", "stat", s, b)]
    /\ UNCHANGED <<store>>

-----------------------------------------------------------------------------
(* Download                                                                *)

\* The checks of doDownloadSnap: a snap that is here is not fetched, one that
\* no known peer has cannot be.
DownloadCheck(p) ==
    /\ At(p, "download", "check")
    /\ \/ dir[req[p].snap] = None /\ Goto(p, "metadata")
       \/ Done(p)
    /\ UNCHANGED <<store, ops>>

\* The second check, and stamp, tsm and tsc from the peer; a failure leaves
\* nothing behind.
DownloadMetadata(p) ==
    /\ At(p, "download", "metadata")
    /\ \/ dir[req[p].snap] = None /\ Goto(p, "create")
       \/ Done(p)
    /\ UNCHANGED <<store, ops>>

\* A snap that is here as a subvolume can be cloned.
Clonable(x) == x \in Snap /\ dir[x] # None /\ dir[x].kind = "subvol"

\* The nearest clonable snap on the chain of stamps: the loop stops at it, at the
\* end of the chain, or after MaxDepth turns, for the chain may be circular.
FindLocalAncestor(id) ==
    LET current[n \in 0..(MaxDepth - 1)] ==
            IF n = 0 THEN id
            ELSE IF current[n - 1] \in Snap /\ ~Clonable(current[n - 1])
                 THEN stamp[current[n - 1]] ELSE current[n - 1]
        found == current[MaxDepth - 1]
    IN  IF Clonable(found) THEN found ELSE None

\* The directory there is to clone; the base snap "1" when the chain has none.
CloneSources(s) ==
    LET a == FindLocalAncestor(Stamp[s])
    IN  IF a = None THEN BaseDirs ELSE {dir[a]}

\* A download directory: nested when it was cloned onto an existing one, and
\* part the files still under their temporary names.
TmpDir(kind, d) ==
    [kind |-> kind, files |-> d.files, links |-> d.links, junk |-> d.junk,
     nested |-> FALSE, part |-> {}]
EmptyDir == [kind |-> "plain", files |-> [f \in File |-> None], links |-> {}, junk |-> FALSE]

\* createDownloadTargetDir: btrfs clones into a directory that is there, but
\* does not create a subvolume over it.  A failure is not cleaned up.
DownloadCreate(p) ==
    /\ At(p, "download", "create")
    /\ LET s == req[p].snap
       IN  \E d \in CloneSources(s) :
             \/ /\ tmp[s] = None
                /\ tmp' = [tmp EXCEPT ![s] = TmpDir("subvol", IF d = None THEN EmptyDir ELSE d)]
                /\ Goto(p, "prepare")
             \/ /\ tmp[s] # None /\ d # None /\ ~tmp[s].nested
                /\ tmp' = [tmp EXCEPT ![s].nested = TRUE]
                /\ Goto(p, "prepare")
             \/ /\ tmp[s] # None /\ (d = None \/ tmp[s].nested)
                /\ UNCHANGED tmp
                /\ Done(p)
    /\ UNCHANGED <<dir, man, stamp, json, side, ops>>

\* Mutant: the files of the published snap are removed, not the temporary ones.
CleanupFinal(s) ==
    /\ tmp' = IF tmp[s] # None /\ tmp[s].kind = "subvol" /\ ~tmp[s].nested
              THEN [tmp EXCEPT ![s] = None] ELSE tmp
    /\ man' = [man EXCEPT ![s] = {}]
    /\ side' = [side EXCEPT ![s] = {}]

\* cleanup: btrfs deletes neither a plain directory nor one that holds another
\* subvolume.
Cleanup(s) ==
    /\ tmp' = IF tmp[s] # None /\ tmp[s].kind = "subvol" /\ ~tmp[s].nested
              THEN [tmp EXCEPT ![s] = None] ELSE tmp
    /\ side' = [side EXCEPT ![s] = {}]
    /\ UNCHANGED man

Abort(p) ==
    /\ Cleanup(req[p].snap)
    /\ Done(p)
    /\ UNCHANGED <<dir, stamp, json, ops>>

\* What is in the directory and not in the manifest.
Foreign(s) ==
    {f \in File : Content[s][f] = None /\ (tmp[s].files[f] # None \/ f \in tmp[s].links)}

\* Mutant: the files of the clone are left for the download to overwrite.
KeepCloned(s, stay) == [tmp[s] EXCEPT !.part = {}]

\* prepareDownloadDir: what is at a path of the manifest stays, and so does whatever
\* is where the manifest has a directory; of the rest, only what cannot be removed.
Prepared(s, stay) ==
    [tmp[s] EXCEPT !.files = [f \in File |-> IF Content[s][f] = None /\ f \notin stay THEN None ELSE @[f]],
                   !.links = {f \in @ : Content[s][f] # None \/ f \in stay},
                   !.part = {}]

\* A failing removal is only logged.
DownloadPrepare(p) ==
    /\ At(p, "download", "prepare")
    /\ LET s == req[p].snap
       IN  \/ /\ tmp[s] # None
              /\ \/ tmp' = [tmp EXCEPT ![s] = [Prepared(s, {}) EXCEPT !.nested = FALSE, !.junk = FALSE]]
                 \/ /\ Foreign(s) # {} \/ tmp[s].nested \/ tmp[s].junk \/ tmp[s].part # {}
                    /\ \E stay \in SUBSET Foreign(s) :
                          tmp' = [tmp EXCEPT ![s] = [Prepared(s, stay) EXCEPT !.junk = TRUE]]
              /\ Goto(p, "index")
              /\ UNCHANGED <<dir, man, stamp, json, side, ops>>
           \/ Abort(p)

\* An index that cannot be opened is replaced by an empty one.
DownloadIndex(p) ==
    /\ At(p, "download", "index")
    /\ \E ix \in {OpenChunkIndex, EmptyIndex} :
          req' = [req EXCEPT ![p].pc = "find", ![p].ix = ix, ![p].todo = Manifest[req[p].snap]]
    /\ UNCHANGED <<store, ops>>

\* MkdirAll makes a plain directory of one that has vanished.
Mkdir(s) == IF tmp[s] = None THEN TmpDir("plain", EmptyDir) ELSE tmp[s]

\* The first half of downloadFile: the chunk is looked up, and fetched unless
\* the index has it.  Making or creating the file may fail as well, for instance
\* where the clone has a file for a directory.
DownloadFind(p) ==
    /\ At(p, "download", "find") /\ req[p].todo # <<>>
    /\ LET s == req[p].snap
           f == Head(req[p].todo)
           r == FindChunk(req[p].ix, Content[s][f])
       IN  \/ /\ tmp' = [tmp EXCEPT ![s] = [Mkdir(s) EXCEPT !.part = @ \cup {f}]]
              /\ req' = [req EXCEPT ![p].pc = "write", ![p].ix = r.ix, ![p].loc = r.loc]
              /\ UNCHANGED <<dir, man, stamp, json, side, ops>>
           \/ Abort(p)

\* The file is still there under its temporary name.
InPart(s, f) == tmp[s] # None /\ f \in tmp[s].part

\* A local copy that is gone or wrong is replaced by the peer's, if it has it.
OrFetched(bytes, c) == IF bytes = None THEN c ELSE bytes

\* The second half: the chunk is written and the file renamed into place, which is
\* outside the snap when its path passes through a symlink of the clone.
DownloadWrite(p) ==
    /\ At(p, "download", "write")
    /\ LET s == req[p].snap
           f == Head(req[p].todo)
           c == Content[s][f]
       IN  \/ /\ InPart(s, f)
              /\ \E bytes \in IF req[p].loc = None THEN {c} ELSE BytesAt(req[p].loc) :
                    tmp' = [tmp EXCEPT ![s].part = @ \ {f},
                                       ![s].files[f] = IF f \in tmp[s].links THEN @
                                                       ELSE OrFetched(VerifyAndRead(bytes, c), c)]
              /\ req' = [req EXCEPT ![p].pc = "find", ![p].todo = Tail(@), ![p].loc = None]
              /\ UNCHANGED <<dir, man, stamp, json, side, ops>>
           \/ Abort(p)

\* createNonFileEntries, which makes the directories and, unless there are files in
\* its place, each symlink, and the temporary files.
DownloadEntries(p) ==
    /\ At(p, "download", "find") /\ req[p].todo = <<>>
    /\ LET s == req[p].snap
       IN  \/ /\ \A f \in Links[s] : Mkdir(s).files[f] = None
              /\ tmp' = [tmp EXCEPT ![s] = [Mkdir(s) EXCEPT !.links = @ \cup Links[s]]]
              /\ side' = [side EXCEPT ![s] = {"stamp", "tsm", "tsc"}]
              /\ req' = [req EXCEPT ![p] = Begin("download", "rename", s, None)]
              /\ UNCHANGED <<dir, man, stamp, json, ops>>
           \/ Abort(p)

\* A rename onto a directory with files in it fails.
DownloadRename(p) ==
    /\ At(p, "download", "rename")
    /\ LET s == req[p].snap
       IN  IF tmp[s] = None \/ dir[s] # None
           THEN Abort(p)
           ELSE /\ dir' = [dir EXCEPT ![s] = [kind |-> tmp[s].kind, files |-> tmp[s].files,
                                              links |-> tmp[s].links, junk |-> tmp[s].junk]]
                /\ tmp' = [tmp EXCEPT ![s] = None]
                /\ Goto(p, "stamp")
                /\ UNCHANGED <<man, stamp, json, side, ops>>

\* A download leaves no metadata; an indexed snap gets its own.
AfterPublish(op, l) ==
    [stamp |-> "tsm", tsm |-> "tsc", tsc |-> IF op = "index" THEN "json" ELSE "end"][l]

\* The renames of the other files, whose failures are ignored.  The temporary
\* files of an indexed snap are its own, those of a download go by its ID.
PublishFile(p) ==
    /\ req[p].op \in {"download", "index"} /\ req[p].pc \in {"stamp", "tsm", "tsc"}
    /\ \E moved \in BOOLEAN :
       LET s == req[p].snap
           k == req[p].pc
       IN  /\ moved => req[p].op = "index" \/ k \in side[s]
           /\ stamp' = IF k = "stamp" /\ moved
                       THEN [stamp EXCEPT ![s] = IF req[p].op = "index" THEN req[p].parent ELSE Stamp[s]]
                       ELSE stamp
           /\ man' = IF k # "stamp" /\ moved THEN [man EXCEPT ![s] = @ \cup {k}] ELSE man
           /\ side' = IF req[p].op = "download" /\ moved THEN [side EXCEPT ![s] = @ \ {k}] ELSE side
           /\ IF AfterPublish(req[p].op, k) = "end" THEN Done(p) ELSE Goto(p, AfterPublish(req[p].op, k))
    /\ UNCHANGED <<dir, json, tmp, ops>>

-----------------------------------------------------------------------------
(* indexAndFinalizeSubvol, once the snap's ID is known.                    *)

\* A duplicate is dropped; intersecting the taints may rewrite the metadata.  A
\* write of metadata that fails is only logged.
IndexStat(p) ==
    /\ At(p, "index", "stat")
    /\ LET s == req[p].snap
       IN  IF dir[s] = None THEN Goto(p, "rename")
           ELSE \/ /\ json[s] # None
                   /\ req' = [req EXCEPT ![p].pc = "intersect", ![p].parent = json[s].parent]
                \/ Done(p)
    /\ UNCHANGED <<store, ops>>

IndexIntersect(p) ==
    /\ At(p, "index", "intersect")
    /\ json' \in {json, [json EXCEPT ![req[p].snap] = [parent |-> req[p].parent]]}
    /\ Done(p)
    /\ UNCHANGED <<dir, man, stamp, tmp, side, ops>>

Captured(s) == [kind |-> "subvol", files |-> Content[s], links |-> Links[s], junk |-> FALSE]

IndexRename(p) ==
    /\ At(p, "index", "rename")
    /\ LET s == req[p].snap
       IN  IF dir[s] = None
           THEN dir' = [dir EXCEPT ![s] = Captured(s)] /\ Goto(p, "stamp")
           ELSE UNCHANGED dir /\ Done(p)
    /\ UNCHANGED <<man, stamp, json, tmp, side, ops>>

IndexMeta(p) ==
    /\ At(p, "index", "json")
    /\ json' \in {json, [json EXCEPT ![req[p].snap] = [parent |-> req[p].parent]]}
    /\ Done(p)
    /\ UNCHANGED <<dir, man, stamp, tmp, side, ops>>

-----------------------------------------------------------------------------
(* handleDeleteSnap                                                        *)

DeleteStat(p) ==
    /\ At(p, "delete", "stat")
    /\ LET s == req[p].snap
       IN  IF dir[s] = None THEN Done(p)
           ELSE req' = [req EXCEPT ![p].pc = "list",
                                   ![p].parent = IF json[s] = None THEN None ELSE json[s].parent]
    /\ UNCHANGED <<store, ops>>

\* os.ReadDir: the metadata files that are there now.  They come in the order of
\* their IDs, which are hashes: any order will do.
Listing(S) == {t \in BoundedSeq(S, Cardinality(S)) : Range(t) = S}

\* A listing that fails is only logged: the deletion goes on, and nothing is relinked.
DeleteList(p) ==
    /\ At(p, "delete", "list")
    /\ \/ \E t \in Listing({x \in Snap : json[x] # None /\ x # req[p].snap}) :
             req' = [req EXCEPT ![p].pc = "relink", ![p].todo = t]
       \/ req' = [req EXCEPT ![p].pc = "subvol", ![p].missed = Snap]
    /\ UNCHANGED <<store, ops>>

\* Mutant: the loop ends with the first child.
FirstChild(p) == <<>>

RelinkNext(p) == Tail(req[p].todo)

\* relinkSnapChildren: a metadata file is read; one that is gone by then, or that is
\* of no child, is passed over, and so is one that cannot be read.
DeleteRelink(p) ==
    /\ At(p, "delete", "relink")
    /\ IF req[p].todo = <<>>
       THEN Goto(p, "subvol")
       ELSE LET x == Head(req[p].todo)
            IN  \/ IF json[x] # None /\ json[x].parent = req[p].snap
                   THEN Goto(p, "rewrite")
                   ELSE req' = [req EXCEPT ![p].todo = Tail(@)]
                \/ req' = [req EXCEPT ![p].todo = Tail(@), ![p].missed = @ \cup {x}]
    /\ UNCHANGED <<store, ops>>

\* What was read is written back with the new parent, whatever has happened to the
\* file since; a failure is only logged.
DeleteRewrite(p) ==
    /\ At(p, "delete", "rewrite")
    /\ LET x == Head(req[p].todo)
       IN  \/ /\ json' = [json EXCEPT ![x] = [parent |-> req[p].parent]]
              /\ req' = [req EXCEPT ![p].pc = "relink", ![p].todo = RelinkNext(p)]
           \/ /\ UNCHANGED json
              /\ req' = [req EXCEPT ![p].pc = "relink", ![p].todo = RelinkNext(p),
                                    ![p].missed = @ \cup {x}]
    /\ UNCHANGED <<dir, man, stamp, tmp, side, ops>>

\* Only a subvolume can be deleted; the request ends here when that fails.
DeleteSubvol(p) ==
    /\ At(p, "delete", "subvol")
    /\ LET s == req[p].snap
       IN  \/ /\ dir[s] # None /\ dir[s].kind = "subvol"
              /\ dir' = [dir EXCEPT ![s] = None] /\ Goto(p, "json")
           \/ UNCHANGED dir /\ Done(p)
    /\ UNCHANGED <<man, stamp, json, tmp, side, ops>>

\* The snap's other files go one by one, whoever has written them.
DeleteFile(p) ==
    /\ req[p].op = "delete" /\ req[p].pc \in {"json", "stamp", "tsm", "tsc"}
    /\ LET s == req[p].snap
           k == req[p].pc
       IN  /\ json' = IF k = "json" THEN [json EXCEPT ![s] = None] ELSE json
           /\ stamp' = IF k = "stamp" THEN [stamp EXCEPT ![s] = None] ELSE stamp
           /\ man' = [man EXCEPT ![s] = @ \ {k}]
           /\ IF k = "tsc" THEN Done(p)
              ELSE Goto(p, [json |-> "stamp", stamp |-> "tsm", tsm |-> "tsc"][k])
    /\ UNCHANGED <<dir, tmp, side, ops>>

-----------------------------------------------------------------------------
(* The environment.                                                        *)

\* The daemon dies.  The next one leaves temporary directories alone.
Crash ==
    /\ ops < MaxOps /\ \E p \in Proc : req[p] # Idle
    /\ ops' = ops + 1
    /\ req' = [p \in Proc |-> Idle]
    /\ UNCHANGED <<store>>

Step(p) ==
    \/ Start(p)
    \/ DownloadCheck(p) \/ DownloadMetadata(p) \/ DownloadCreate(p) \/ DownloadPrepare(p)
    \/ DownloadIndex(p) \/ DownloadFind(p) \/ DownloadWrite(p) \/ DownloadEntries(p)
    \/ DownloadRename(p) \/ PublishFile(p)
    \/ IndexStat(p) \/ IndexIntersect(p) \/ IndexRename(p) \/ IndexMeta(p)
    \/ DeleteStat(p) \/ DeleteList(p) \/ DeleteRelink(p) \/ DeleteRewrite(p)
    \/ DeleteSubvol(p) \/ DeleteFile(p)

-----------------------------------------------------------------------------
(* History variables: what the properties need to know of the past.        *)

VARIABLES
    clashed,    \* snaps two downloads of which worked at the same time
    torn,       \* snaps whose publication a crash, a deletion or a rename cut short
    steady,     \* proc -> snaps intact since its index was opened
    fresh       \* proc -> snaps whose metadata others wrote since it began

vars == <<state, clashed, torn, steady, fresh>>

Working(q, s) ==
    /\ q.op = "download" /\ q.snap = s
    /\ q.pc \notin {"check", "metadata", "create"}

Publishing(q, s) == q.op \in {"download", "index"} /\ q.snap = s /\ q.pc \in {"stamp", "tsm", "tsc", "json"}

\* The file k of a published snap is there.
Renamed(s, k) == IF k = "stamp" THEN stamp[s] # None ELSE k \in man[s]

Removing(q, s) == q.op = "delete" /\ q.snap = s /\ q.pc \in {"json", "stamp", "tsm", "tsc"}

Watch(crashed) ==
    /\ clashed' = clashed \cup
          {s \in Snap : \E p, q \in Proc : p # q /\ Working(req'[p], s) /\ Working(req'[q], s)}
    /\ torn' = torn \cup
          {s \in Snap : \/ crashed /\ \E p \in Proc : Publishing(req[p], s) \/ Removing(req[p], s)
                        \/ \E p, q \in Proc : p # q /\ Publishing(req'[p], s) /\ Removing(req'[q], s)
                        \/ \E p \in Proc, k \in {"stamp", "tsm", "tsc"} :
                              Publishing(req[p], s) /\ req[p].pc = k /\ req'[p] # req[p] /\ ~Renamed(s, k)'}
    /\ steady' = [p \in Proc |->
          IF req'[p].op # "download" \/ req'[p].pc \notin {"find", "write"} THEN {}
          ELSE {s \in Snap : /\ dir'[s] # None /\ man'[s] = {"tsm", "tsc"}
                             /\ IF req[p].pc = "index" THEN s \in Range(req'[p].ix.snaps)
                                ELSE s \in steady[p]}]
    /\ fresh' = [p \in Proc |->
          IF req'[p].op # "delete" THEN {}
          ELSE fresh[p] \cup {x \in Snap : json'[x] # json[x] /\ req'[p] = req[p]}]

Init ==
    /\ \E local \in SUBSET Snap :
          /\ dir = [s \in Snap |-> IF s \in local THEN Captured(s) ELSE None]
          /\ man = [s \in Snap |-> IF s \in local THEN {"tsm", "tsc"} ELSE {}]
          /\ stamp = [s \in Snap |-> IF s \in local THEN Stamp[s] ELSE None]
          /\ json = [s \in Snap |-> IF s \in local THEN [parent |-> Stamp[s]] ELSE None]
    /\ tmp = [s \in Snap |-> None] /\ side = [s \in Snap |-> {}]
    /\ req = [p \in Proc |-> Idle] /\ ops = 0
    /\ clashed = {} /\ torn = {}
    /\ steady = [p \in Proc |-> {}] /\ fresh = [p \in Proc |-> {}]

Next ==
    \/ \E p \in Proc : Step(p) /\ Watch(FALSE)
    \/ Crash /\ Watch(TRUE)

Spec == Init /\ [][Next]_vars

-----------------------------------------------------------------------------
(* Properties                                                              *)

\* The directory d has at f what the snap s has there, unless a symlink led the file
\* astray or what was there could not be removed.
Holds(d, s, f) ==
    \/ d.files[f] = Content[s][f]
    \/ Content[s][f] # None /\ f \in d.links
    \/ Content[s][f] = None /\ d.junk

\* A published snap holds the files of its manifest with their contents, whatever was
\* cloned, left behind by an earlier download, deleted, rotten or stale while it was
\* put together: only a file that a symlink of the clone led astray is missing, and
\* only one that could not be removed is there besides them.  It says nothing of a
\* snap two downloads of which worked in its temporary directory at once.
PublishedWhole ==
    \A s \in Snap : dir[s] # None /\ s \notin clashed =>
        \A f \in File : Holds(dir[s], s, f)

\* What the README says of a content hash, "every time you use that content hash, you
\* get exactly what you expected", of the files of the manifest.  The code does not
\* keep it, for a symlink of the clone where the new snap has a directory, and for
\* two downloads of one snap at a time.
HashGivesContent ==
    \A s \in Snap : dir[s] # None =>
        \A f \in Range(Manifest[s]) : dir[s].files[f] = Content[s][f]

\* Once nothing works on a published snap, its stamp and manifests are there
\* (without them it is neither indexed, nor offered to peers, nor fetched
\* again), unless downloads of it clashed, a crash or a deletion came between
\* its publication's renames, or one of these failed.
PublishedIndexed ==
    \A s \in Snap :
        /\ dir[s] # None /\ s \notin clashed \cup torn
        /\ \A p \in Proc : ~Publishing(req[p], s)
        => man[s] = {"tsm", "tsc"} /\ stamp[s] # None

Steps(op) ==
    CASE op = "none" -> {"idle"}
      [] op = "download" -> {"check", "metadata", "create", "prepare", "index", "find", "write",
                             "rename", "stamp", "tsm", "tsc"}
      [] op = "index" -> {"stat", "intersect", "rename", "stamp", "tsm", "tsc", "json"}
      [] op = "delete" -> {"stat", "list", "relink", "rewrite", "subvol", "json", "stamp", "tsm", "tsc"}

\* A request; the index and the location are the lookup's own business.
IsRequest(q) ==
    /\ q = [op |-> q.op, pc |-> q.pc, snap |-> q.snap, parent |-> q.parent, ix |-> q.ix,
            todo |-> q.todo, loc |-> q.loc, missed |-> q.missed]
    /\ q.op \in {"none", "download", "index", "delete"} /\ q.pc \in Steps(q.op)
    /\ q.op # "none" => q.snap \in Snap
    /\ q.parent \in Parents
    /\ q.op = "index" /\ q.pc # "intersect" => q.parent # None
    /\ q.op = "download" => q.todo \in Seq(File)
    /\ q.op = "download" /\ q.pc = "write" => q.todo # <<>>

\* Every variable has the type of the file or the request it stands for.
TypeOK ==
    /\ dir \in [Snap -> Dir \cup {None}]
    /\ man \in [Snap -> SUBSET {"tsm", "tsc"}]
    /\ stamp \in [Snap -> Parents]
    /\ json \in [Snap -> [parent : Parents] \cup {None}]
    /\ tmp \in [Snap -> TmpDirs \cup {None}]
    /\ side \in [Snap -> SUBSET {"stamp", "tsm", "tsc"}]
    /\ DOMAIN req = Proc /\ \A p \in Proc : IsRequest(req[p])
    /\ ops \in Nat /\ clashed \subseteq Snap /\ torn \subseteq Snap

\* The files a download has still to bring in.
Missing(q) ==
    CASE q.pc = "index" -> Range(Manifest[q.snap])
      [] q.pc \in {"find", "write"} -> Range(q.todo)
      [] OTHER -> {}

\* While one download works on a snap, its directory holds what the manifest
\* says but for the files that are still to come.
Assembling ==
    \A p \in Proc :
        LET q == req[p]
        IN  /\ q.op = "download" /\ q.pc \in {"index", "find", "write", "rename"}
            /\ q.snap \notin clashed
            => /\ tmp[q.snap] # None /\ Missing(q) \subseteq Range(Manifest[q.snap])
               /\ \A f \in File \ Missing(q) : Holds(tmp[q.snap], q.snap, f)

\* No two downloads work on a snap, and no deletion meets its publication, but
\* that the history says so.
Apart ==
    \A p, q \in Proc, s \in Snap : p # q =>
        /\ Working(req[p], s) /\ Working(req[q], s) => s \in clashed
        /\ Publishing(req[p], s) /\ Removing(req[q], s) => s \in torn

\* What a publication has done and what it has yet to rename.
Published(q, s) ==
    /\ q.pc \in {"tsm", "tsc", "json"} => stamp[s] # None
    /\ q.pc \in {"tsc", "json"} => "tsm" \in man[s]
    /\ q.pc = "json" => "tsc" \in man[s]

ToRename(q) ==
    CASE q.pc \in {"rename", "stamp"} -> {"stamp", "tsm", "tsc"}
      [] q.pc = "tsm" -> {"tsm", "tsc"}
      [] q.pc = "tsc" -> {"tsc"}
      [] OTHER -> {}

\* A snap is published by one request at a time, in order; a download finds the
\* temporary files it wrote; and a deletion has already removed the directory.
Publication ==
    \A s \in Snap \ (clashed \cup torn), p \in Proc :
        /\ Publishing(req[p], s) =>
              /\ dir[s] # None /\ Published(req[p], s)
              /\ \A q \in Proc \ {p} : ~Publishing(req[q], s)
        /\ req[p].op = "download" /\ req[p].snap = s => ToRename(req[p]) \subseteq side[s]
        /\ Removing(req[p], s) => dir[s] = None

\* The inductive invariant: PublishedWhole and PublishedIndexed, and what the
\* requests in flight keep for them.
StoreInv ==
    TypeOK /\ PublishedWhole /\ PublishedIndexed /\ Assembling /\ Apart /\ Publication

\* FindChunk finds a chunk in every snap that has been whole since the index
\* was opened, however its buffers and maps were evicted in between.
FoundWhenIntact ==
    [][\A p \in Proc :
          At(p, "download", "find") /\ req'[p].pc = "write" /\ req'[p].loc = None
          => \A s \in steady[p] : Content[req[p].snap][Head(req[p].todo)] \notin
                                     {Content[s][f] : f \in FilesThere(s)}]_vars

\* handleDeleteSnap keeps the parent chain: when it is done, no snap names the
\* deleted one as its parent, except one whose metadata it could not list, read or
\* write, or another request has written meanwhile.  (A snap can have become its own
\* parent: metadata is written with parents that no longer exist, so chains can close
\* into rings.)
ChildrenRelinked ==
    [][\A p \in Proc :
          At(p, "delete", "tsc") /\ req'[p] = Idle /\ req[p].parent # req[p].snap
          => \A x \in Snap \ (fresh[p] \cup req[p].missed) :
                json[x] # None => json[x].parent # req[p].snap]_vars

\* relinkSnapChildren's comment, that it "finds all snaps that have oldParent as their
\* parent and updates them", of all the metadata it could read and write.  The code
\* does not keep it: a snap indexed meanwhile names the deleted one.
NoOrphans ==
    \A p \in Proc :
        At(p, "delete", "tsc") /\ req[p].parent # req[p].snap =>
            \A x \in Snap \ req[p].missed :
                json[x] # None => json[x].parent # req[p].snap

\* What makes it so: a child that only this deletion has touched is still in its
\* list, or is the deleted snap itself, whose metadata goes with it.
RelinkInv ==
    \A p \in Proc :
        LET q == req[p]
        IN  q.op = "delete" /\ q.pc \notin {"stat", "list"} =>
            /\ q.pc \in {"relink", "rewrite"} => q.todo \in Seq(Snap)
            /\ q.pc = "rewrite" => q.todo # <<>>
            /\ \A x \in Snap \ (fresh[p] \cup q.missed) :
                  json[x] # None /\ json[x].parent = q.snap /\ q.parent # q.snap =>
                      \/ q.pc \in {"relink", "rewrite"} /\ x \in Range(q.todo)
                      \/ q.pc \in {"relink", "rewrite", "subvol", "json"} /\ x = q.snap
===============================================================================
