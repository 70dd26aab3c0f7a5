------------------------------ MODULE ChunkIndex ------------------------------
(***************************************************************************)
(* The snaps directory of one daemon, and tsm/chunkindex.go: the index a   *)
(* download builds over the local snaps to find chunks it need not fetch.  *)
(*                                                                         *)
(* A file is one chunk and a checksum is the chunk itself, so rotten bytes *)
(* are Rot, and a file that is not there holds None.                       *)
(***************************************************************************)
EXTENDS Naturals, Sequences, FiniteSets, SequencesExt

CONSTANTS
    SnapOrder,      \* the content-addressed snap IDs, in directory order
    FileOrder,      \* the file paths, in manifest order
    Content,        \* snap -> file -> its chunk, or None: the manifest
    MaxOpenTSC,     \* cap on .tsc buffers held by an index
    MaxLocMaps,     \* cap on location maps held by an index
    Rot, None

Snap == Range(SnapOrder)
File == Range(FileOrder)
Chunk == {Content[s][f] : s \in Snap, f \in File} \ {None}

ASSUME ChunkIndexAssumption ==
    /\ MaxOpenTSC \in Nat \ {0} /\ MaxLocMaps \in Nat \ {0}
    /\ None \notin Snap \cup File /\ Rot \notin Chunk \cup {None}

VARIABLES
    dir,        \* snap -> its published directory, [kind, files], or None
    man         \* snap -> its manifest files, a subset of {"tsm", "tsc"}

ChunksOf(s) == {Content[s][f] : f \in File} \ {None}

-----------------------------------------------------------------------------
(* An index: the snaps in most-recently-used order, those whose .tsc is    *)
(* loaded or could not be, the location maps that have been built (None    *)
(* when that failed, else the files that were there), and the chunks known *)
(* to be absent.                                                           *)

\* OpenChunkIndex: snaps with both manifests and a directory; a snap still
\* being indexed has another name.
OpenChunkIndex ==
    [snaps  |-> SelectSeq(SnapOrder, LAMBDA s : man[s] = {"tsm", "tsc"} /\ dir[s] # None),
     tsc    |-> {}, failed |-> {}, locs |-> <<>>, absent |-> {}]

EmptyIndex == [snaps |-> <<>>, tsc |-> {}, failed |-> {}, locs |-> <<>>, absent |-> {}]

\* Over the snaps of the index, the filter never denies a chunk of theirs.
InBloom(ix, c) == \E i \in DOMAIN ix.snaps : c \in ChunksOf(ix.snaps[i])

\* The least recently used of the given snaps other than keep.
Victim(ix, held, keep) ==
    LET s == SelectSeq(ix.snaps, LAMBDA x : x \in held /\ x # keep)
    IN  IF s = <<>> THEN None ELSE Last(s)

\* Mutant: the evicted buffer is dropped and still marked as loaded.
EvictAndForget(ix, keep) ==
    IF Cardinality(ix.tsc) <= MaxOpenTSC THEN ix
    ELSE LET v == Victim(ix, ix.tsc, keep)
         IN  [ix EXCEPT !.tsc = @ \ {v}, !.failed = @ \cup {v}]

\* One load can put the index at most one over its cap.
EvictTSC(ix, keep) ==
    IF Cardinality(ix.tsc) <= MaxOpenTSC THEN ix
    ELSE [ix EXCEPT !.tsc = @ \ {Victim(ix, ix.tsc, keep)}]

LoadTSC(ix, s) ==
    IF s \in ix.tsc \cup ix.failed THEN ix
    ELSE IF "tsc" \in man[s]
    THEN EvictTSC([ix EXCEPT !.tsc = @ \cup {s}], s)
    ELSE [ix EXCEPT !.failed = @ \cup {s}]

Built(ix) == {s \in DOMAIN ix.locs : ix.locs[s] # None}

EvictLocMap(ix, keep) ==
    IF Cardinality(Built(ix)) <= MaxLocMaps THEN ix
    ELSE LET v == Victim(ix, Built(ix), keep)
         IN  [ix EXCEPT !.locs = [s \in DOMAIN ix.locs \ {v} |-> ix.locs[s]]]

\* The files of the manifest that a stat finds now.
FilesThere(s) ==
    IF dir[s] = None THEN {}
    ELSE {f \in File : Content[s][f] # None /\ dir[s].files[f] # None}

BuildLocMap(ix, s) ==
    IF s \in DOMAIN ix.locs THEN ix
    ELSE LET m == IF "tsm" \in man[s] THEN FilesThere(s) ELSE None
             add == [x \in DOMAIN ix.locs \cup {s} |-> IF x = s THEN m ELSE ix.locs[x]]
         IN  EvictLocMap([ix EXCEPT !.locs = add], s)

\* The first file of the location map with the chunk.
Location(ix, s, c) ==
    LET fs == SelectSeq(FileOrder, LAMBDA f : /\ ix.locs[s] # None
                                              /\ f \in ix.locs[s] /\ Content[s][f] = c)
    IN  IF fs = <<>> THEN None ELSE [snap |-> s, file |-> Head(fs)]

\* One turn of the loop of FindChunk.
Probe(r, s, c) ==
    LET ix1 == LoadTSC(r.ix, s)
        ix2 == BuildLocMap(ix1, s)
    IN  IF r.loc # None THEN r
        ELSE IF s \notin ix1.tsc \/ c \notin ChunksOf(s) THEN [r EXCEPT !.ix = ix1]
        ELSE [ix |-> ix2, loc |-> Location(ix2, s, c)]

MoveToFront(ix, s) == [ix EXCEPT !.snaps = <<s>> \o SelectSeq(@, LAMBDA x : x # s)]

\* FindChunk: the location of c, or None, and the index after the lookup.
FindChunk(ix, c) ==
    IF ~InBloom(ix, c) \/ c \in ix.absent
    THEN [ix |-> ix, loc |-> None]
    ELSE LET scan[i \in 0..Len(ix.snaps)] ==
                IF i = 0 THEN [ix |-> ix, loc |-> None]
                ELSE Probe(scan[i - 1], ix.snaps[i], c)
             r == scan[Len(ix.snaps)]
         IN  IF r.loc = None
             THEN [r EXCEPT !.ix.absent = @ \cup {c}]
             ELSE [r EXCEPT !.ix = MoveToFront(r.ix, r.loc.snap)]

\* What a read of a location may return: the file is gone, or it holds what was
\* written, or it has rotted.
BytesAt(loc) == IF dir[loc.snap] = None THEN {None} ELSE {dir[loc.snap].files[loc.file], Rot}

\* Mutant: the bytes are not hashed.
Unverified(bytes, c) == bytes

\* VerifyAndRead: the bytes read, unless they are not the chunk.
VerifyAndRead(bytes, c) == IF bytes = c THEN bytes ELSE None
===============================================================================
