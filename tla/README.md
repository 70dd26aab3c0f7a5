# Thundersnap: formal models

TLA+ modules, TLC configurations and TLAPS proofs kept beside the Go code of
thundersnap. This text is for a reader who has the repository.

## 1. The system and its parts

`thundersnapd` gives every user frames: btrfs trees that can be entered as
containers or in VMs, snapshotted, forked and exchanged. Snaps are named by the
hash of their content. The parts, the state they keep and how they interact:

| part | state | operations | interacts with |
| --- | --- | --- | --- |
| snap queue (`snapqueue.go`) | in-memory FIFO of captured jobs, `framePendingSnap`, per-frame sidecar locks; on disk `snaps/*.tmp`, published snaps with `.jsonc`, frame stamps and sidecars | capture, background indexing, fork, `/taint`, history endpoints | every session through the control server |
| control servers (`main.go`) | map frame -> reference-counted HTTP server on a socket | get or create, release | SSH, MCP and autorun sessions |
| VMX sessions (`main.go`, `thundersnap/vm.go`) | map isolation name -> reference-counted VM, a monitor goroutine each | get or create, release, VM death | SSH sessions |
| MCP jobs (`mcp_jobs.go`) | per-conversation list of background jobs, log files | launch, wait, kill, list; collector and timer goroutines | host vshd, control servers |
| refs and frames (`refs/`, `refid/`, `frames/`, `refs_handlers.go`, `rootfs.go`) | ref files with reflogs, frame sidecars, the subvolumes of a frame, identity subvolumes in frames | create, move, delete, set autorun; create, enter, delete a frame | autorun, sessions, the snap queue |
| autorun (`autorun.go`) | map ref -> supervisor goroutine with a vshd connection | start, stop, restart, shutdown | refs handlers, host vshd, control servers |
| host vshd (`main.go`, `cmd/vshd`, `vshdsession/`) | child process, its socket; one process group per session | ensure, serve a session, disconnect | every container session |
| containers (`containerns/`, `cgroup/`, `cmd/ts/container_setup.go`) | anchored namespaces and cgroups of a frame | join or create, clean up | vshd |
| snap store and mesh (`main.go`, `tsm/`) | published snaps, manifests (`.tsm`), chunk lists (`.tsc`), chunk index | index, serve, download, delete | peers over tailscale |
| portmapper (`portmap.go`) | a UDP buffer, one goroutine per datagram or TCP connection | answer GETPORT, GETADDR and lock requests | NFS clients |
| NFS, Docker import, policy (`nfs.go`, `docker.go`, `policy.go`) | mounts, caches, ACL | per request | sessions |
| infiniblock (`infiniblock/`, `cmd/infiniblockd`) | an NBD export over one sparse file; a handler goroutine per connection, the set of connections, a shutdown flag | negotiate, read, write, trim, flush; accept loop, Close | NBD clients (thunderboot VMs) |
| thunderboot, `ts` | boot-time provisioning; command-line client | - | the daemon |

What is hard here: goroutines that share maps and files with several different
locks (the snap queue has one mutex for captures and one per sidecar, and some
writers take neither); reference counts with teardown outside the mutex; a queue
that lives in memory while its results live on disk; supervisors that react to a
closed connection; and read-modify-write of small files by request handlers.

`PROJECT.json` lists every component with its status, and the hazards with their
source lines.

What makes each part correct, in a sentence:

* snap queue: a snap is indexed against the snap before it, frames name only
  published snaps, ancestry is acyclic, taints and history are not lost, every
  captured snap is settled;
* managers (control servers, VMs): a user's object stays alive while it is held,
  is given up exactly once, and teardown blocks nobody for ever;
* MCP jobs: the first stop decides, nobody sleeps through a change, a stopped job
  ends, old logs survive;
* autorun: at most one tracked supervisor per ref, none that nobody can cancel;
* infiniblock: a FLUSH or FUA write that was answered survives a power loss;
* refs and frames: a frame that a ref has named all along is not deleted, a ref's
  identity and autorun program are where the ref points, moves are not undone, a
  session starts in a whole frame;
* snap store: what is published is whole and indexed, a chunk that is there is
  found, a deletion leaves no child behind;
* containers: nobody's namespaces are taken from under a session, nobody waits for
  ever for a teardown;
* sessions: the exit code is the command's and comes after its output, and what a
  client leaves behind is ended.

## 2. Modules

| module | models | correspondence | checked by |
| --- | --- | --- | --- |
| `SnapQueue` | `snapqueue.go`, sidecars, taints, fork, history endpoints | 3.1 | `snap_chain`, `snap_fork` |
| `SnapQueueProofs` | theorems about `SnapQueue` | | TLAPS |
| `ControlServers` | the control-server manager | 3.2 | `control_servers` |
| `ControlServersProofs` | theorems about `ControlServers` | | TLAPS |
| `VmxSessions` | the VMX session manager and the VM cohort | 3.3 | `vmx` |
| `McpJobs` | MCP background jobs | 3.4 | `mcp` |
| `McpJobsProofs` | theorems about `McpJobs` | | TLAPS |
| `Autorun` | the autorun manager and its supervisors | 3.5 | `autorun` |
| `AutorunProofs` | theorems about `Autorun` | | TLAPS |
| `BlockDevice` | what an NBD export promises (abstract) | 3.6 | `infiniblock` |
| `Infiniblock` | the NBD server, its clients, page cache and disk | 3.6 | `infiniblock` |
| `InfiniblockProofs` | theorems about `Infiniblock` | | TLAPS |
| `FrameStore` | ref files, sidecars, subvolumes and identities of a namespace, and the primitives on them | 3.7 | `frames` |
| `Frames` | the handlers and commands that create, name, enter and delete frames (extends `FrameStore`) | 3.7 | `frames` |
| `ChunkIndex` | the snaps directory and the index a download looks chunks up in | 3.8 | `snap_store` |
| `SnapStore` | download, publication and deletion of snaps (extends `ChunkIndex`) | 3.8 | `snap_store` |
| `SnapStoreProofs` | theorems about `SnapStore` | | TLAPS |
| `ContainerNs` | host vshd, the namespaces and cgroups of a frame's sessions | 3.9 | `container_ns` |
| `ContainerNsProofs` | theorems about `ContainerNs` | | TLAPS |
| `VshdSession` | one session from the client to its command | 3.10 | `vshd_session` |
| `SessionProofs` | theorems about `VmxSessions`, `VshdSession` and `Frames` | | TLAPS |
| `Portmap` | the portmapper and lock manager of the NFS service | 3.11 | `portmap` |

Each component has an `MC...` module that declares the model values of its
configurations and nothing else. Operators whose comment begins with "Mutant:"
are deliberately wrong variants of the definition that follows them, of the kind
a careless change of the code would introduce; no specification uses them, and
`PROJECT.json` says which property detects which.

## 3. How the modules correspond to the code

### 3.1 SnapQueue

| variable | code |
| --- | --- |
| `jobs`, `pending` | every `snapJob` ever captured; `snapQueue.pending` as job numbers |
| `framePendingSnap` | the map of the same name |
| `tmp` | the `snaps/*.tmp` subvolumes of captured jobs |
| `snapMeta` | published snaps: whether the `.jsonc` was written, its parent and taints, and the taints of the captures that produced the tree (history) |
| `stamp`, `meta` | a frame's `.stamp` file and its sidecar |
| `rmw` | a read-modify-write of a sidecar under `frameMetaLock` in progress |
| `edit` | an unlocked rewriting by `/prune-history` or `/clone-history` |
| `qmu` | `snapQueue.mu` and the capture that holds it |
| `fork`, `worker` | program counters and locals of `forkFrame` and of the worker |

A subvolume's tree is a member of `Content`, and its snap ID, the hash of its
manifest, is that same member: equal trees have equal IDs, which is all the code
relies on. `CaptureBegin`, `CaptureFull`, `CaptureSubdir` and `CaptureFails` are
`captureSnapJobLocked` (the sidecar is read first, the subvolumes are taken
later, and neither the worker nor `/taint` takes `snapQueue.mu`, so these are
two steps); `ForkRead` ... `ForkSetupFails` are `forkFrame` and
`cloneFrameSetup`; `TaintBegin`/`TaintEnd` are `/taint`; `PruneRead`,
`CloneReadSource`, `CloneReadTarget`, `HistoryWrite` the history endpoints. The
worker is `Pop`, `IndexComp` or `IndexFails` for each component in the order
root, home, work, then `WriteSnapMeta` or `SnapMetaUnwritten` where a `.jsonc` is
due (`MetaDue`), `WriteStamp`, `UpdateBegin`/`UpdateEnd` for the sidecar,
`ForkedFrames`/`NextFork` for the frames that were forked from the job, and
`FinishJob`. `Crash` loses everything in memory and keeps the files, at any
step, between the rename of a directory and the write of its metadata too.
`PublishedMeta` and `WrittenTaints` are what `indexAndFinalizeSubvol` does with the
metadata: a snap that exists already keeps its parent, its taints are intersected
with those of the new capture, and nothing is written for one that has no `.jsonc`.
`ClientStalls` is a streaming client that no longer reads: the worker writes progress
and results to its response without a deadline and is `blocked` there for good.

### 3.2 ControlServers

`servers` is the map by root path, `srv` the servers with reference count,
`stopping` flag and listener, `mu` the mutex, `sess` a session's program counter.
`Acquire`, `Lock`, `Reuse`, `UnlockToWait`, `Stopped`, `Start`, `StartFails`,
`Register`, `DeferredUnlock` are `getOrCreateControlServer` with its recursion
after a wait; `Release`, `Decrement`, `Close`, `Relock`, `Remove`, `Unlock` are
`releaseControlServer`, whose teardown runs outside the mutex. The mutex has a
locked bit and no owner, like `sync.Mutex`. `fatal` is the abort of the daemon by
an unlock of a free mutex, `overrun` says that some call has unlocked and has
another `Unlock` pending.

### 3.3 VmxSessions

`Reuse`, `Create`, `CreateFails` are `getOrCreateVMX`; `Release`, `ReleaseLast`,
`CloseReturns`, `ReleaseNothing` are `releaseVMX`, which waits for the VM with
the mutex held; `VmFails` and `VmExits` are the VM; `MonitorDone`,
`MonitorDelete` the monitor goroutine, which takes the same mutex. A session keeps
in `ms` the VM it was given; the code has only the key.

### 3.4 McpJobs

`Launch`, `CreateLog`, `Start`, `LaunchFails` are the launch with its reservation
of an ID, its log directory (`Mkdir` fails on an existing one, and the next ID is
tried) and its control-server reference. `Output`, `ReadExit`, `ReadError`,
`Collected` are the collector; `TimerFires`, `NoteStop`, `CloseConn` the stop by
kill or timeout; `Kill...` and `Wait...` the calls, sleeping on the list's
notification channel. A wait that names no job selects again at every turn
(`Selected`), and a turn can end in an error (`WaitFails`). `ProcExits`, `ProcReaped`,
`VshdLost` are the process in vshd (external): its command is in the session's cgroup
leaf (`"alive"`) or outside any (`"loose"`), where a closed connection need not reach
it (`Reaping`, 3.10). `Restart` is a new daemon, with the logs of the old one.

### 3.5 Autorun

`Start`, `StartSame`, `StartReplace`, `StartNew`, `StartOver` are
`startProcess`, which replaces an entry in one critical section and starts the
new supervisor in another; `Stop`, `Restart`, `Take`, `Cancel`, `Close`, `Await`,
`Stopped` are `stopProcess` and `restartProcess`; `Check` ... `Again` are
`supervise` and `runOnce`, where dialling and recording the connection are
separate steps; `Shutdown...` is `shutdownAutorunManager`.

### 3.6 Infiniblock and BlockDevice

`BlockDevice` says what an export promises: a block has a version `cur` that a
read returns and a version `low` that is vouched for; writes raise `cur`,
answers to FLUSH or FUA raise `low` up to `cur`, and a power loss may lower
`cur`, never below `low`.

`Infiniblock` has the page cache (`cache`) and the disk (`disk`) as block to
version maps; every write or trim makes a new version. `net` is the client's end
of a connection with the messages under way, so requests are pipelined; a
request carries as `base` the versions that had been acknowledged, to anybody,
when it was sent. `handler` is `handleConn`: `Haggle` is a turn of the option
loop, `ReadRequest` reads and validates, `HandleRead`, `HandleWrite` (which is
also TRIM), `HandleFlush`, `Sync`, `IoFails`, `Reply`, `ReplyFails`, `Finish`
follow `transmission` and the handlers. `Listen`, `SetListener`, `Accept`,
`Register`, `ServeReturns` are `ListenAndServe` and `Serve`; `CloseBegin`,
`CloseListener`, `CloseConns`, `CloseReturns` are `Close`. External actors:
`Writeback` (the kernel), `Restart` (the process ends and is started again; the
cache survives), `PowerLoss` (the cache falls back to the disk).
`acked` and `promised` are history variables: what answers have told clients.

The refinement maps `cur` to `cache` and `low` to `promised`.

### 3.7 FrameStore and Frames

`FrameStore` has the files: `refs` (ref files), `meta` (sidecars), `tree` (which
subvolumes of a frame exist: its root, home and work, the empty directories left
inside the root, and `id`), `ident` (the identity subvolumes `id/<ref>`), `snaps`.
Its operators are the btrfs calls with their failure conditions (a subvolume with
another inside it cannot be deleted, a snapshot onto an existing directory nests)
and `refid`'s `Ensure`, `Move`, `Remove`.

In `Frames` a request in flight is a record in `req`, with the same fields for every
operation; its `pc` is its next file operation, since no handler takes a lock.
`RefCreateCommand` ... `GoCommand` are what `ts ref`, `ts frame`, `ts autorun`, `ts go`
and a login ask for, and `Start` accepts one of them. A name is resolved as the code
does it (`Resolve`): a ref may be named like the UUID of a frame, and a name that is
both is taken for the frame; a name that equals the namespace is taken for no name,
hence for the default ref. `Shadowed` are the refs with such names. `RefCreate...`,
`RefGet`, `RefReread`, `RefWrite`, `Move...`, `AutorunStart`, `AutorunReplace`,
`AutorunStop` and `RefDelete...` are `refs_handlers.go`; a program is its command
(`Argv`), and one that is replaced by another command is cancelled and not waited for,
so its attempt (`AttemptOf`) can still come to a session in the frame it resolved.
`DeleteList`, `DeleteScan`, `DeleteScanFails` ... `DeleteSidecar` are
`handleDeleteFrame`, which reads the refs one by one and goes on past those it could
not list or read (`unread`); `CreateCheck`, `CreateFetch`, `BuildComp`, `BuildMeta`,
`BuildID` are frame creation from snaps or from live frames and `ensureFrameFS`;
`GoLookup`, `EnsureRootFS`, `EnterRepair`, `Leave` are the way of a session into a
frame, and `Attempt` that of an autorun program. `Restart` is a restart of the
daemon in the middle of anything, followed by the scan that starts the autorun
programs of the refs it can read.

File operations may fail where the code goes on regardless: the listing and reading
of refs, writing and removing a sidecar, moving or removing an identity. Subvolume
operations fail when btrfs refuses them. `held`, `disturbed` and `hurt` are history
variables: the refs that have named a frame since its deletion was asked for, the refs
on which requests overlapped or whose identity was lost or left behind by a failure,
and the frames whose build failed or was disturbed. The handlers keep nothing for the
last two; the properties of the run leave them out, and those of 4.2 state what the
code's comments say of them.

### 3.8 ChunkIndex and SnapStore

`dir`, `man`, `stamp`, `json` are the published directory, manifests, stamp and metadata
of a snap, `tmp` and `side` the temporary ones. A file is one chunk, and a chunk is its
own checksum; `Rot` is a chunk whose bytes no longer match. `Links` are the paths of a
snap that pass through one of its symlinks, `junk` says that a directory holds something
that is in no manifest and could not be removed. `Manifest` lists the files of a snap in
the order of its `.tsm`. An index is a record (`snaps` in most-recently-used order,
loaded `.tsc` buffers, location maps); `FindChunk` probes, loads, builds, evicts and
moves to the front as `chunkindex.go` does, and `VerifyAndRead` is the check before the
bytes are used. `DownloadCheck` ... `DownloadRename` are `doDownloadSnap` and
`tsm.Download`: metadata, clone of a local ancestor or of the base snap
(`CloneSources`), removal of what does not belong (`Prepared`: it keeps what is at a
path of the manifest, a symlink too, and what cannot be removed stays), chunks from here
or from the peer, links and directories, rename. `IndexStat` ... `IndexMeta` are the end
of `indexAndFinalizeSubvol`; `PublishFile` is one rename of stamp, tsm or tsc for
either, which may fail unnoticed. `Delete...` is `handleDeleteSnap` with
`relinkSnapChildren`, which goes through the metadata files in the order of their names,
hence in any order (`Listing`), reads each (`DeleteRelink`) and then writes it
(`DeleteRewrite`); the children it could not list, read or write are in `missed`, and
the deletion goes on. `Crash` may come between any two of them. `clashed`, `torn`,
`steady` and `fresh` are history variables: snaps two downloads worked on at once, snaps
whose publication or removal was cut short or failed, snaps that have been whole since
an index was opened, metadata written while a deletion ran.

### 3.9 ContainerNs

A session goroutine of vshd is a process with a program counter. `Dial` is
`hostVshdManager.ensure` with the dial; `GetOrCreate`, `WaitStopped`, `Create`,
`CreateFails`, `CreateReady`, `CreateAborts`, `Release`, `StopReap`, `StopCgroup`,
`Stopped` are the `containerns.Manager`, whose mutex (`mu`) a creation keeps while
it waits for READY; `InitReady`, `BootFails`, `InitDies`, `OrphanExits` are the
`ts container-init` process; `NsenterStage1`, `NsenterStage2`, `JoinAndRun` the
chain of processes that joins it; `ConfigureContainer`, `ConfineFails`,
`KillSession` the cgroup leaf. Inits are numbered in the order of their start, so
a process and its entry are never confused with their successors. `VshdDies` and
`DaemonRestarts` end everything that lives in those processes. `Alive` is the
`kill(pid, 0)` of the code, which a dead child that nobody has waited for still
answers; `ReallyAlive` is what `setns` finds.

### 3.10 VshdSession

`conf` chooses the kind of session: over SSH, to a VM's vshd, through `/enter`, or an
MCP call; on a pty or on pipes; in a container with a cgroup leaf, in one without, or
direct. `up`, `down` and `pin` are the connection and the pipe to `ts session-serve` as
sequences of frames, closed by either side. `ConnectToVshd` ... `CollectFrames` are the
daemon's end, `HandleConnection`, `SpliceIn`, `SpliceEof`, `ConnectionClosed` are vshd,
and `ServePTY` ... `SendExit` the serving endpoint with its reader, its output and its
two-second escalation. vshd moves its wrapper into the leaf after it has started it, so
an endpoint forked by then has `escaped`: `KillSession` does not reach it. The command
may close its terminal and go on (`ChildLeavesTty`, `TtyClosed`). The command, a
background job of its group that ignores SIGHUP, the client and a loss of the endpoint
are the environment.

### 3.11 Portmap

`ServeUDP` reads a datagram into the one buffer `buf` and starts a goroutine;
`ReadHeader` and `handleUDPPacket` are that goroutine, reading what the buffer
holds then; `handleTCPConn` has a buffer per message. `handleRPCMessage`,
`handlePortmap`, `handleNLM` and the `make...` operators compute the replies.

## 4. Runs

### 4.1 What the runs show

| run | shows |
| --- | --- |
| `snap_chain` | two snaps of a frame with two components, full or subtree, any component failing, while the unlocked history endpoints rewrite the sidecar: the chained job is always settled (`ParentJobSettled`), no capture outlives its job (`NoTmpLeak`), every captured snap is settled unless a streaming client stops reading (`EverySnapSettles`) |
| `snap_fork` | two snaps, `/taint`, a fork and a crash: `SnapInv` (the inductive invariant of the proofs), `HistoryFaithful`, `ChainsToPreviousSnap` (the index base is the frame's previous snap), `TaintsNotLaundered` (deduplication keeps what all captures of a tree had, in the `.jsonc` that was written), `ReferencesPublished`, `AncestryWellFounded`, and over steps `TaintsSticky` |
| `control_servers` | three sessions of a frame: `ControlInv` (inductive: a held server is registered and open, its count is exact), `OneListener`, `WaiterWoken` |
| `vmx` | three sessions of a VM that may die: `VmxInv` (inductive: a registered VM has a reference and was not shut down), `ReleaseReturns` |
| `mcp` | two calls and a job, in its leaf or loose, timeout, loss of vshd, restart: `JobsInv` (inductive: no lost wake-up, control-server references exact, no two jobs share an ID or a log), `OutcomeFinal`, `LogsKept`, `StopSettles`, `KillReturns` |
| `autorun` | two handlers and shutdown: `AutorunInv` (inductive: every live supervisor is tracked, every registered ref supervised, control-server references exact), `StoppedMeansClosed` |
| `infiniblock` | two clients, Close, write-back, restart, power loss: `Durable` (the inductive invariant), `ReadsCurrent`, `QuietAfterClose`, and the refinement `KeepsPromises` |
| `frames` | commands on refs and frames that interleave file operation by file operation, any of which may fail, and restarts of the daemon: `NamedFrameSpared` (a deletion never passes over a ref it could read), `IdentityFollowsRef`, `AutorunFollowsRef` (command and frame), `EntersWhole` |
| `snap_store` | three snaps in a chain and a base snap, two downloads, publications or deletions at a time, and crashes: `PublishedWhole` (with its two exceptions, a symlink and a failed removal), `StoreInv` (inductive: besides that, a settled snap has its stamp and manifests, `PublishedIndexed`), and over steps `FoundWhenIntact` (evictions never hide a chunk) and `ChildrenRelinked` (a deletion leaves no child it could read and write) |
| `container_ns` | sessions that come and go while inits fail, vshd dies and the daemon restarts: `HeldEntryKept`, `HeldInitServes`, `NsInv` (inductive: every wait for a teardown ends, `WaitsEnd`, and what keeps references with their holders) |
| `vshd_session` | every kind of session to its end: `ExitFaithful`, `PipeGroupReaped`, and under fairness `LeafReaped` |
| `portmap` | ends in a counterexample to `AnswersItsRequest`: `ServeUDP` reuses its buffer while the goroutine of the previous datagram still reads it, so a host is answered for somebody else's request, and the cookie echoed is not the one "from the request" (`portmap.go:388`; the finding in `PROJECT.json`) |

### 4.2 Claims of comments and documents that the code does not keep

Each of these is a definition of its module that states what a comment, a document or
a log message says. The code does otherwise: TLC gives a counterexample within a minute
when the definition takes the place of the properties in the configuration named here
(temporal and action formulas as `PROPERTY`, the others as `INVARIANT`). The properties
of 4.1 are what does hold beside them, so each leaves out the cases of this table that
concern it and says so in its comment.

| definition | configuration | what the repository says | what happens |
| --- | --- | --- | --- |
| `SnapQueue!SnapsInheritTaints` | `SnapQueueFork.cfg` | "each snap inherits the frame's current taints — subject to deduplication" (`frames-and-taints.md:223`) | the directory is renamed into place before its `.jsonc` is written; one whose write failed, or was cut off by a crash, is never written: the snap has no taints, and later captures of the tree do not bring them back (`snapqueue.go:271`, `305-320`) |
| `SnapQueue!SidecarsSerialized` | `SnapQueueChain.cfg` with `Taints = {t1}` | `frameMetaMu` "serializes read-modify-write of frame sidecar files" (`snapqueue.go:110`) | `/prune-history` and `/clone-history` write back a sidecar they read without its lock, and a taint added meanwhile is gone (`frames_handlers.go:420`) |
| `VmxSessions!ClosedWithoutClients` | `VmxSessions.cfg` | "no more clients, shutting down VM" (`main.go:360`) | a session whose VM has died releases by key and shuts down the VM another session has started since (`main.go:351`) |
| `McpJobs!KilledJobsGone` | `McpJobs.cfg` | "Do not report success while the process group may still be alive" (`mcp_jobs.go:783`) | a kill reports success when the daemon's own end of the connection is closed, with the processes still running (`mcp_jobs.go:553`) |
| `Frames!NamedFrameKept` | `Frames.cfg` | "Refuse to delete a frame that still has refs pointing at it" (`main.go:2920`) | a ref that cannot be listed or read counts as no ref, and its frame is deleted (`main.go:2881-2889`) |
| `Frames!ProgramsInTheirFrame` | `Frames.cfg` with `Ref = {r1, r2}`, `Namespace = r2`, `Proc = {p1}` | "Resolve the ref to its current frame rootfs so ref moves are reflected" (`autorun.go:297`) | the autorun program of a ref named like its namespace runs in the default ref's frame (`refs_handlers.go:91-95`) |
| `Frames!ReflogKept` | `Frames.cfg` | a ref "maintains a reflog of which UUIDs it has pointed to over time" (`refs.go:7`) | two requests on a ref read its file and write it one after the other: a move is undone and its reflog entry lost (`refs.go:221-260`) |
| `Frames!EntersThree` | `Frames.cfg` | of a frame with a sidecar: "Nested /home and /work subvolumes are created within the rootfs" (`rootfs.go:53`) | a session starts in a frame that is still being built, or whose build failed, because its directory exists (`rootfs.go:65`) |
| `SnapStore!HashGivesContent` | `SnapStore.cfg` | "every time you use that content hash, you get exactly what you expected" (`README.md:221`) | a symlink of the cloned ancestor stays where the new snap has a directory, and a file is written through it (`main.go:4072-4095`) |
| the same | the same with `Links <- NoLinks` | the same | two downloads of one snap work in the same temporary directory, and one publishes what the other has left of it (`download.go:92-106`) |
| `SnapStore!NoOrphans` | `SnapStore.cfg` | "finds all snaps that have oldParent as their parent and updates them" (`main.go:2776`) | a snap indexed while its parent is deleted is not relinked (`main.go:2779-2807`) |
| `VshdSession!UnreadReaped` | `VshdSession.cfg` (`MaxInput = 2` is enough) | a command "would otherwise keep running forever, orphaned after its peer is gone" (`vshdsession.go:266`) | input that the command does not read keeps vshd from seeing that the client is gone, and the session runs on in its leaf (`vshdsession.go:288`) |
| `VshdSession!GroupReaped` | the same | "killing the group also closes the inner protocol endpoint and triggers its own reap" (`cmd/vshd/main.go:464`) | without a leaf the endpoint is killed before it can reap the command, which has a session of its own |

### 4.3 Other disagreements that the models contain

The following were met while translating the code. The models behave like the
code, and the properties above are stated so that they hold of it.

Snap queue:

* the worker can finish the fork-point snap before `cloneFrameSetup` writes the new
  frame's sidecar from an older copy (`snapqueue.go:828`), and then the fork point
  is missing from the new frame's history for good, which the comment at
  `snapqueue.go:586` wants to prevent; for this reason `HistoryFaithful` asks for
  completeness only of frames that were not forked into being;
* the fork clones a sidecar it read before it took the queue lock, so a taint
  added in between is on the captured snap and not on the fork;
* taints of a republished tree are intersected, so a tree captured once without a taint
  loses it; the history endpoints (`SidecarsSerialized` in 4.2) drop concurrent history,
  and home and work snaps, with the taints. Hence the other properties speak of frames
  outside `Editable` where a sidecar is concerned, and `HistoryFaithful` only of frames
  that no edited history can reach (`Unedited`): a fork copies the history of its
  source, an edited one too. The stamp is never edited, so `ChainsToPreviousSnap` holds
  of the root of every frame;
* a client that asked for progress and does not read its response stops the worker,
  and every later snap of every frame with it (`worker.blocked` in
  `EverySnapSettles`).

Managers:

* a session that waits for a stopping control server calls
  `getOrCreateControlServer` again and returns through two deferred `Unlock`s
  (`main.go:144`): the daemon aborts, or the mutex is freed under its holder;
* a late monitor deletes the entry of the VM that replaced its own, which is then
  never shut down; sessions of several frames that share a VM share the control
  handler of the last;
* a view of a job's log whose limit falls within a line shows nothing and does not
  advance; `pre_signal` writes to vshd with the list locked;
* a stop of an autorun process that has dialled and not yet recorded its
  connection closes nothing and waits until the command ends; attempts that fail
  before their session are repeated without a delay.

Refs and frames:

* a frame made from the live components of a tainted frame is written without
  taints (`main.go:3500`), while `frames-and-taints.md:196` says that a taint
  "propagates through forks and snapshots unless proven otherwise";
* an autorun request with another command replaces the running process without waiting
  for it: the old supervisor may still dial, and its program then runs in the frame it
  had resolved, beside the new one, until its connection is closed;
* a failed move or removal of an identity is only logged, and the identity stays in
  the old frame; after a restart a ref that cannot be read has no program;
* deleting a ref without force never refuses; deleting a frame that still holds
  `id/<ref>` of a moved ref destroys home and work before it fails; a sidecar
  whose tree was never built cannot be deleted; the mesh download in frame creation
  is reached only when a snap vanishes after it was checked.

Snap store:

* a file of an ancestor or of an earlier attempt that cannot be removed is published
  (`junk`); a crash leaves `<id>.tmp`, and without a local ancestor later downloads
  then fail;
* a crash between the renames of a publication, or a rename that fails, which nobody
  looks at, leaves a directory without manifests, which nothing repairs; a child whose
  metadata cannot be listed, read or written keeps a parent that is deleted (`missed`);
  `writeSnapMeta` is not atomic; downloads write no metadata file;
* relinking changes the metadata of children only, not their `.stamp` nor the
  stamps of frames, and metadata is written with parents that are gone, so dangling
  parents and rings of parents are possible; the clone of an ancestor does not
  make `downloadFiles` skip unchanged files, as its comment says.

Containers and sessions:

* the `kill(pid, 0)` probes (`containerns.go:105`, `main.go:416`) do not see a dead
  child that nobody has waited for: a dead host vshd is not restarted before the
  daemon is, and the path of `GetOrCreate` for a dead init is not reached, since a
  registered init that nobody stops is never waited for (`EntriesServe`, proved);
* the second stage of `nsenter` may be forked before the first has been moved into its
  cgroup leaf, and the session then runs outside it and is not killed with it
  (`ep.escaped` in `LeafReaped`); after a restart of the daemon an old init may overlap
  the new one of the same root;
* `servePipe`'s reader stops at the EOF marker, which a disconnecting proxy
  usually sends first, so the command of a direct pipe session outlives its
  client, against the comment at `vshdsession.go:266`; `servePTY` does not signal
  its child on a disconnect before output fails, and does not escalate to SIGKILL
  when the leader has exited already;
* a session that ends without an exit frame is reported with exit code 0.

Portmapper: fragments of a TCP record are taken for whole messages.

Infiniblock: `Close` called before the listener is stored leaves it open;
`infiniblockd` closes the backend when `Serve` returns rather than when `Close`
does; the payload of an option that is refused as too big is not read, so it is
parsed as the next option; after a failed `fsync` a later FLUSH may be answered
with success by the kernel.

## 5. Bounds

Every bound is a constant named `Max...` in a guard, or the size of a constant
set; the theorems of section 7 hold without them.

* `MaxJobs` is 2: a job that waits or is being finished and one chained to it. Two
  members of `Content` let a tree recur, which is what deduplication and acyclicity
  depend on. One fork target and one crash: a second fork meets the same code with the
  same shared state, and a second crash starts from a state the first run of the queue
  also reaches. `snap_chain` has two components, the history endpoints and stalling
  clients and no crash, and `snap_fork` one component, so that the two together stay
  small.
* `ControlServers`: three sessions, so that one tears down, one waits and one comes
  late; `MaxReentries = 1` bounds the recursion, since a session that waited and found
  another stopping server is where it was. One frame in the passing run, because
  sessions of different frames share only the mutex. The behaviours of this run include
  the surplus unlock of section 4.3; from it on the mutex excludes nobody, and the
  invariants are stated for the states before it (`~overrun`).
* `VmxSessions`: three users and three VMs of one key: a dead VM, its replacement
  and the next one.
* `McpJobs`: two calls on one job (one kills while the other waits or launches),
  one byte of output with a view limit of one, one restart, which is what reusing
  an ID needs.
* `Autorun`: two callers and shutdown over one key, two processes, so that one
  replaces the other under the feet of a third party.
* `Infiniblock`: two connections, one of a client without fixed newstyle, one
  block, two messages beyond the handshake and two runs of the server: a write on
  one connection and a FLUSH, a read or a FUA write on the other. That a FLUSH
  covers all blocks is left to the theorem, which has any set of blocks.
* `Frames`: one ref, three frame UUIDs, two commands of a program, two requests in
  flight and three in a behaviour: two frames to move between and one to create or
  delete, and the shortest sequences in which a leftover identity or autorun program
  shows.
* `SnapStore`: three snaps in a chain, any of them local at the start, of which the
  third shares chunks with both others, a base snap, and two requests, together or one
  after the other with a crash between: what a download meets is a request beside it or
  what one before it has left. Caches have one entry, so that a single download already
  evicts and reloads; `MaxDepth` covers the chain.
* `ContainerNs`: three session slots and four sessions of one root: two that hold
  an entry or tear it down, one that waits, one that comes after; one init that
  dies by itself and one death of vshd or restart of the daemon. Roots share only
  the mutex, so there is one.
* `VshdSession`: three stdin frames and a pipe that holds one, so that unread input can
  fill everything on the way; one write of the command; two dials.
* `Portmap`: two requests, the fewest that can be confused.

Symmetry is used over request and session slots in runs of `Frames`, `SnapStore` and
`ContainerNs`; they check invariants, and the action properties among them quantify over
all slots. `CHECK_DEADLOCK FALSE` appears where the system may come to rest: all
sessions over, all VMs closed, all bounded operations used up. `snap_chain` and
`snap_fork` check for deadlock, since a frame's users can always write.

## 6. Fairness

Only five specifications assume any.

* `SnapQueue!FairSpec`: strong fairness of the worker goroutine, which is scheduled
  and not starved where it waits for `snapQueue.mu` or a `frameMetaLock` (Go's
  `sync.Mutex` hands over to a waiter after a millisecond).
  Critical sections of handlers that have begun end. Clients promise nothing: one that
  stops reading blocks the worker, whose fairness then asks for nothing.
* `ControlServers!FairSpec`: strong fairness of a session's steps, which includes
  that sessions end; without that a held server need not be given up, and
  `WaiterWoken` concerns only servers that are being stopped.
* `VmxSessions!FairSpec`: a killed VM exits, its monitor runs and gets the mutex,
  `Close` returns. Sessions need not end.
* `McpJobs!FairSpec`: collectors and handlers run, and vshd kills the leaf of a
  connection that was closed; when vshd itself is gone, its containers' inits exit and
  everything in them (`Reaping`). A command outside a leaf need not be reaped. Jobs
  need not exit and clients need not return.
* `VshdSession!SessionFairSpec`: goroutines of the daemon, of vshd and of the endpoint that
  can run do run, and the two-second timers fire. Client, command and job promise
  nothing: they may never read, write or end.

The other specifications are checked for safety only. `WaitsEnd` of `ContainerNs`
is the safety half of a liveness property: whoever waits has somebody to wake him.
For `Autorun` and `Infiniblock` a command, a client or a network may be silent for
ever, and then a stop or a `Close` of this code waits.

## 7. Proofs

### SnapQueueProofs

`SnapInvariant`: `Spec => []SnapInv` for any frames, components, contents, taints,
editable frames, numbers of jobs and crashes that satisfy `ConstantsAssumption`
(constants are distinct where the code tells them apart) and `NoneAssumption` (`None`
is not a record). No property of the queue is inductive as it stands: each speaks of
one file or of the job in the worker's hands, and what makes it true is in copies
that handlers read before a step of somebody else. The parts:

* `QueueInv`: types; what program counters say of local variables (`LocalsOK`); the
  queue is the tail of the list of captured jobs and the worker holds the job just
  before it (`QueueOrder`, FIFO); the map that captures chain to holds waiting jobs
  only (`PendingIsUnfinished`); a waiting job's parent is earlier in the list and done
  or waiting itself (`ChainOrder`), hence done once the later one is taken;
* `TmpInv`: a captured subvolume belongs to a component not indexed yet of an
  unfinished job;
* `RefsInv`: every copy of a stamp, a sidecar or a result, in a lock, an edit, a fork,
  a capture or the worker, names published snaps only;
* `FramesInv`: what is captured, forked or updated is a usable frame with a sidecar;
* `PendingInv`: a frame is pending for its own snap or the one it was forked from, at
  least until its newest snap is done;
* `SidecarInv`: who may hold a sidecar lock, and that what was read under it is still
  what the file says, unless a fork or an edit wrote it;
* `HistoryInv`: histories, the copies included, are in order and hold what was
  recorded;
* `ResultInv`: how much of its results the worker has written where;
* `ParentInv`: without a crash, a frame's newest snap is pending, or done and named by
  stamp and sidecar, also in the copy that a capture works from;
* `WritingInv`: the snap whose metadata is about to be written is published, with the
  taints of the capture in hand among those seen, and without metadata it has none.

From it: `ChainingSafe` (`[]ParentJobSettled`), `NoTmpLeaks` (`[]NoTmpLeak`),
`ReferencesSound` (`[]ReferencesPublished`), `HistoriesFaithful`
(`[]HistoryFaithful`), `ChainsIncrementally` (`[]ChainsToPreviousSnap`), and the action
property `TaintsStayInSidecar` (`TaintsSticky`). `TaintsKept` (`[]TaintsNotLaundered`)
and `AncestryEnds` (`[]AncestryWellFounded`) are inductive relative to the invariant: a
tree that is published again keeps its parent, and a new one gets a parent that is
published already (`RefsInv`), so no set of snaps becomes closed under parent.
`TaintsKept` covers crashes between a publication and its metadata and failed writes
of either: a `.jsonc` that exists holds what every capture of its tree carried.

There is one lemma for each action and part that the action can disturb, and frame
lemmas for the actions that leave the variables of a part alone.

### InfiniblockProofs

`DurableInvariant`: `Spec => []Durable` for any connections, blocks, number of
requests and number of runs, from `ExportAssumption` (there is a block) and
`BoundsAssumption`. `Durable` is the conjunction of

* `VersionOrder`: promised <= disk <= cache <= versions made, and acknowledged
  versions are not newer than the cache, for each block;
* `WireOK`: a message under way was sent on the knowledge of versions the cache
  has (a power loss cuts every connection, so no message outlives the cache it
  refers to), and FUA comes only with a write;
* `HandlersOK`: a handler about to answer has done what the answer says: a write
  is in the cache, a FUA write is on the disk, a FLUSH has put on the disk
  everything its sender knew of, a read has seen it.

Versions never decrease while no power is lost, so the last two survive the steps
of other handlers; these are the frame lemmas (`WireStep`, `ServedStep`). From
the invariant: `ReadsAreCurrent` (`[]ReadsCurrent`) and `Implements`
(`Spec => KeepsPromises`): every step maps to a step of `BlockDevice` or leaves
`cache` and `promised` alone.

`ClosedIsQuiet`: `Spec => []QuietAfterClose` from `CloseInv`, which adds that a
`Close` in progress has set `shutdown`; `Register`, which looks at it under the
same mutex, then starts no handler.

### ControlServersProofs

`CountsAreExact`: `Spec => []ControlInv` for any finite set of sessions and any
frames, numbers of servers and re-entries. `HeldServerOpen` and `RefCountExact` are
not inductive: a release decrements the server it finds under its frame. The
strengthening says that the mutex excludes (`MutexExcludes`, with
`UnlocksPending`), that a holder's server is registered, open and not stopping
(`HoldersServed`), that a teardown keeps its entry registered until the listener is
closed and is alone with it (`ClosersOwn`), and that entries and open listeners know
each other (`EntriesKnown`, `OpenTracked`). All but `TypeOK` and `UnlocksPending` are
claimed up to the surplus unlock of section 4.3 (`~overrun`), where `MutexExcludes`
ends. `NeverTwoListeners` (`[]OneListener`) follows from `OpenTracked`.

### SessionProofs

VmxSessions. `RegisteredVMsLive`: `Spec => []VmxInv` for any sessions, keys, frames and
number of VMs. The manager deletes entries by key, so what must be shown is that the
entry a release deletes is still that of the VM it closed: `CloserHoldsMutex` says that
it holds the mutex all along and that its entry has not been replaced, and
`OnlyClosersEntryClosed` that no other entry is of a closed VM.

VshdSession. `SessionInvariant`: `SessionSpec => []SessionInv` for any amounts of input
and output, pipe sizes and numbers of dials (`SessionAssumption`); `ExitsFaithful`
(`[]ExitFaithful`) and `PipeGroupsReaped` (`[]PipeGroupReaped`) follow. That the client
gets the exit code of the command after all its output is a fact about four places
the output can be in, so `OutputInv` counts it: while the proxy reads, what it has got,
what is on the connection and what the command's pipe holds is what the command wrote.
`ExitInv` says that an exit frame is the last frame and was sent with the pipe empty,
`EndpointInv` in which state of the command the endpoint can be where, and `ConnInv`
who can have closed the connection.

Frames. `FramesInvariant`: `FramesSpec => []FramesInv` for any refs, frames, snaps,
request slots and numbers of operations, from `FrameStoreAssumption` and
`FramesAssumption`; from it `NamedFramesSpared`, `IdentitiesFollow`, `AutorunsFollow` and
`SessionsEnterWhole` for the four properties of the run. No handler locks, so the
argument is about knowledge: as long as requests do not overlap on a ref (it is not
in `disturbed`), what the only request on it has read of it stays true up to its next
write (`KnowsInv`), and the identity and the program of the ref, with its command, are
where the ref file says or are about to be moved there by that request (`IdentityInv`,
`AutorunInv`; of the refs that are not `Shadowed`). `HeldInv` does the same for the refs
that a frame's deletion reads one by one, all but those it could not read, and
`WholeInv` for the parts of a frame under construction; `IssuedInv` says that nothing
names a frame whose UUID has not been handed out, so that a new frame is nobody's.
`StepTouched` and `StepTable` say, action by action, what a step changes of whom;
every part of the invariant is then shown against these, and only the few
actions that write its files are opened.

### AutorunProofs

`SupervisorsTracked`: `Spec => []AutorunInv` for any callers, refs, configurations and
processes; `StopCloses`: `Spec => []StoppedMeansClosed`. `ActiveTracked` needs to know
whom a stop has in hand and that it stays out of the map (`StopsProgress`),
`RegisteredSupervised` that a supervisor ends only when told to and who may tell a
registered one (`EndsWhenTold`, `MutexHolders`); `StoppedMeansClosed` needs
`ConnsInAttempts` (a connection is open inside an attempt only) and, for shutdown,
`QuietAfterShutdown`.

### ContainerNsProofs

`NamespacesConsistent`: `Spec => []NsInv` for any finite set of sessions, any roots and
bounds; from it `ReferencesKept` (`[]HeldEntryKept`) and `ContainersServe`
(`[]HeldInitServes`). Sessions release by root, not by init, so the invariant follows
an entry through its life: created alone, under the mutex (`CreatorsAlone`), counted
and serving (`EntriesServe`, `HoldersRegistered`), stopped by exactly one session that
keeps it registered until it is done (`StoppersOwn`).

### McpJobsProofs

`JobsKept`: `Spec => []JobsInv` for any finite set of clients, any frames, IDs, output
and restarts. The exact count of control-server references needs `CollectedOnce` (a
job has its collector exactly while it runs, so the reference is returned once), and
`NoLostWakeup` needs `SelectedKnown` (who waits, waits for registered jobs) and
`OwnLogs` with `DiallersAlone` (a launch never writes to the log of a job somebody
waits for). Two action properties follow with the invariant as a hypothesis:
`FirstStopDecides` (`Spec => OutcomeFinal`) and `LogsSurvive` (`Spec => LogsKept`),
which rests on `Mkdir` failing for a directory that is there.

### SnapStoreProofs

`StoreConsistent`: `Spec => []StoreInv` for any snaps, files, contents, manifests,
stamps, requests, depth of the ancestor walk and number of operations, and
`PublishedSnapsWhole`: `Spec => []PublishedWhole`. Assumed are the types of the
constants, that `None` is none of the records, and `ManifestAssumption`: a manifest
lists exactly the files of its snap, and no path through a symlink of it is one. What
the index finds, which ancestor is cloned and what is left of an earlier download are
arbitrary in the proof. The parts beyond the two claims:

* `Assembling`: the download directory holds the content of the manifest except for
  the files still to come, those that go through a link of the clone, and what could
  not be removed; `VerifyAndRead` is what makes the writing of a file keep it, and
  `prepareDownloadDir` what makes it true of a clone or of leftovers;
* `Publication`: a snap is published by one request at a time, in the order of its
  renames, a download still has its temporary files, and who removes a snap's files
  has removed its directory first;
* `Apart`: two downloads of a snap, and a deletion that meets a publication, are in
  the history variables `clashed` and `torn`. This is where the claims stop: the
  code does not order these requests, and `HashGivesContent` (4.2) fails then.

`Draft` and `Settle` are the two frame lemmas, for steps that do not touch a
published snap and for steps that do.

`ChildrenListed`: `Spec => [](StoreInv /\ RelinkInv)`, and `DeletionRelinks`: `Spec =>
ChildrenRelinked`. `RelinkInv` follows a deletion: a snap that still names the deleted
one, and whose metadata nobody else has written and the deletion did not fail to list,
read or write, is in the list it works off or is the deleted snap itself. The order of
the list is arbitrary.

### Left to TLC

Every invariant and every action property of the passing runs but one is a theorem.
What remains is liveness under fairness (`EverySnapSettles`, `WaiterWoken`,
`ReleaseReturns`, `StopSettles`, `KillReturns`, `LeafReaped`), which is out of the
prover's reach, and `FoundWhenIntact` of the snap store, which is about the recursion
of `FindChunk` over the snaps of an index and so needs induction over data.
`AnswersItsRequest` and the claims of section 4.2 are refuted by TLC.

## 8. Not modelled, and the plan

Left out of the models above: time (delays; timeouts fire at any moment), request
ranges longer than a block, files of several chunks, mounts and devices of a
container, formats, chunking and hashing. Failures that the code only logs are
modelled where a property can depend on them, with these exceptions:

* I/O errors of btrfs operations that the kernel would otherwise accept, of
  `os.Remove` in `handleDeleteSnap` and of the walk over a download directory;
* a `ConfigureContainer` that fails after the wrapper was started: `ContainerNs` has it
  (`ConfineFails`), `VshdSession` sends its exit code 1 only before the command starts,
  so `ExitFaithful` says nothing of a command that was running by then;
* the three writes and the creation of links and directories at the end of a download
  are one step, and so are the two halves of `refid`'s rename of an identity onto an
  existing one;
* frames made from components of different live frames, a peer that sends a manifest
  of another snap than the one asked for, and page-cache contents dropped by a failed
  `fsync`.

`SnapQueue` has the publication of a snap and its metadata as two steps, `SnapStore`
has the whole sequence of renames; the two are not composed, and neither are
`VshdSession` and the modules whose sessions end there (`McpJobs`, `Autorun`), which
know of vshd only that it kills the leaf of a closed connection. Parts that are I/O without
protocol state (Docker import, NFS and SFTP, packaging, thunderboot's
provisioning, the printing side of the command-line tool) stay out;
`PROJECT.json` gives the reason for each.

The order of further work:

1. An abstract specification of the snap store, a map from IDs to complete snaps,
   and the refinement of `SnapStore` outside `clashed` and `torn`.
2. `SnapQueue` over `SnapStore`'s publication, and `VshdSession` as the
   environment of `McpJobs`.
3. Pure algorithms in one module: incremental against full indexing, policy
   matching, the choice of autoclean, checked against reference definitions.
