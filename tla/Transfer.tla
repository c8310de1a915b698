------------------------------ MODULE Transfer ------------------------------
(***************************************************************************)
(* What becomes of a file's bytes: chunking, padding and sealing on the    *)
(* way in, packing of small files into epoch blobs, and the ways out       *)
(* (saved to a path, viewed in memory, prefetched, streamed by byte        *)
(* ranges), beside a push that moves blobs to the cloud and deletions.     *)
(*                                                                         *)
(* VaultStore models when rows and blobs appear and go; here an upload     *)
(* commits in one step, and bytes are followed instead.  Byte k of a file  *)
(* is <<file, k>>, so that a byte from a wrong place shows.  Cryptography  *)
(* is symbolic: a sealed chunk opens with its key, file and index only.    *)
(***************************************************************************)
EXTENDS Integers, Sequences, VaultFiles

CONSTANTS
    Tasks,
    Chunk,         \* chunk_size_bytes
    Sizes,         \* bound: the sizes source files have
    MaxSize,       \* the largest of them
    MaxView,       \* the limit of get_file_content (50 MiB)
    MaxRange,      \* MAX_RANGE_BYTES of an open-ended range
    Perils,        \* what may also happen: see the guards that name them
    None

ASSUME TransferConstants ==
    /\ Chunk \in Nat \ {0} /\ MaxSize \in Nat /\ Sizes \subseteq 0..MaxSize
    /\ MaxView \in Nat /\ MaxRange \in Nat \ {0}
    /\ EpochEnabled \in BOOLEAN /\ "epoch" \notin Files
    /\ Perils \subseteq {"changing", "flush_fails", "stage_in_flush", "read_in_flush", "push",
                         "stream_epoch", "epoch_disk", "disk", "crash", "delete_packed"}

VARIABLES
    upload,   \* of each file: the size upload_file read first, and whether it is a picture
    nodes,    \* the rows of nodes and chunks
    entries,  \* epoch_buffer, in the order of queueing
    left,     \* the entries flush_epoch_buffer read and still has to write
    sealed,   \* the blobs ever written, by name
    at,       \* where they are: pending, root, cache, cloud; rotten: damaged in the
              \* cloud; into: the directory the flush under way writes to
    task,     \* downloads
    temp,     \* tasks with a temporary file next to the destination
    dest,     \* the destination path all saves are given
    had,      \* whether the user had a file there before
    orig      \* what each source held when it was read (history)

transferVars == <<upload, nodes, entries, left, sealed, at, task, temp, dest, had, orig>>

Zero   == <<None, 0>>
NoFile == [there |-> FALSE, data |-> <<>>]
Old    == [there |-> TRUE, data |-> <<Zero>>]
NoNode == [st |-> "none", size |-> 0, key |-> None, rows |-> <<>>]
Idle   == [pc |-> "idle", file |-> None, mode |-> "none", lo |-> 0, hi |-> 0,
           todo |-> {}, rows |-> <<>>, size |-> 0, key |-> None, i |-> 1, last |-> 0,
           path |-> "none", out |-> <<>>, bak |-> NoFile, excuse |-> FALSE]

TransferInit ==
    /\ upload = [f \in Files |-> [pc |-> "none", size |-> 0, picture |-> FALSE]]
    /\ nodes = [f \in Files |-> NoNode]
    /\ entries = <<>> /\ left = <<>>
    /\ sealed = <<>>
    /\ at = [pending |-> {}, root |-> {}, cache |-> {}, cloud |-> {}, rotten |-> {},
              into |-> "pending"]
    /\ task = [t \in Tasks |-> Idle]
    /\ temp = {}
    /\ had \in BOOLEAN /\ dest = IF had THEN Old ELSE NoFile
    /\ orig = [f \in Files |-> <<>>]

-----------------------------------------------------------------------------
(* The pipeline's pure parts.                                              *)

Source(f, n) == [k \in 1..n |-> <<f, k>>]

(* strip_exif drops whole metadata segments: here, byte 2 of a picture.    *)
StripExif(s) == IF Len(s) < 2 THEN s ELSE SubSeq(s, 1, 1) \o SubSeq(s, 3, Len(s))

Pad(s) == s \o [k \in 1..(Chunk - Len(s)) |-> Zero]

NumChunks(n) == (n + Chunk - 1) \div Chunk

(* Mutant of Pieces: a loop that stops at an empty read and writes it too. *)
PiecesOneMore(s) ==
    [i \in 1..(Len(s) \div Chunk + 1) |->
        Pad(SubSeq(s, (i - 1) * Chunk + 1, IF i * Chunk < Len(s) THEN i * Chunk ELSE Len(s)))]

(* The chunks encrypt_file_inner and encrypt_bytes cut a source into.      *)
Pieces(s) ==
    [i \in 1..NumChunks(Len(s)) |->
        Pad(SubSeq(s, (i - 1) * Chunk + 1, IF i * Chunk < Len(s) THEN i * Chunk ELSE Len(s)))]

(* encrypt_chunk binds file and index; wrap_file_key binds the file.       *)
Seal(key, fid, idx, plain) == [key |-> key, fid |-> fid, idx |-> idx, plain |-> plain]
Opens(blob, key, fid, idx) == blob.key = key /\ blob.fid = fid /\ blob.idx = idx
Wrap(key, fid) == [key |-> key, fid |-> fid]

Row(b, i) == [blob |-> b, idx |-> i, off |-> 0, len |-> 0, epoch |-> FALSE]
EpochRow(b, off, len) == [blob |-> b, idx |-> 0, off |-> off, len |-> len, epoch |-> TRUE]

(* routing::decide                                                         *)
ToEpoch(n) == EpochEnabled /\ n < Chunk

-----------------------------------------------------------------------------
(* Upload.                                                                 *)

UploadStat(f) ==
    /\ upload[f].pc = "none" /\ nodes[f].st = "none"
    /\ \E n \in Sizes : \E p \in (IF n = MaxSize THEN BOOLEAN ELSE {FALSE}) :
          upload' = [upload EXCEPT ![f] = [pc |-> "stat", size |-> n, picture |-> p]]
    /\ UNCHANGED <<nodes, entries, left, sealed, at, task, temp, dest, had, orig>>

(* A picture is read once, stripped, and its new length counts.  Of any    *)
(* other file the size is the one read at first, unless it is buffered.    *)
UploadStore(f) ==
    /\ upload[f].pc = "stat"
    /\ \E n \in IF "changing" \in Perils THEN Sizes ELSE {upload[f].size} :
       LET s == IF upload[f].picture THEN StripExif(Source(f, n)) ELSE Source(f, n)
           size == IF upload[f].picture THEN Len(s) ELSE upload[f].size IN
       /\ orig' = [orig EXCEPT ![f] = s]
       /\ IF ToEpoch(size)
          THEN /\ "stage_in_flush" \notin Perils => left = <<>>
               /\ nodes' = [nodes EXCEPT ![f] = [NoNode EXCEPT !.st = "buffered",
                              !.size = Len(s), !.key = Wrap(Zero, f)]]
               /\ entries' = Append(entries, [file |-> f, plain |-> s])
               /\ UNCHANGED <<sealed, at>>
          ELSE LET names == {<<f, i>> : i \in 1..Len(Pieces(s))} IN
               /\ sealed' = [b \in DOMAIN sealed \cup names |->
                     IF b \in names THEN Seal(f, f, b[2] - 1, Pieces(s)[b[2]]) ELSE sealed[b]]
               /\ at' = [at EXCEPT !.pending = @ \cup names]
               /\ nodes' = [nodes EXCEPT ![f] =
                     [st |-> "ready", size |-> size, key |-> Wrap(f, f),
                      rows |-> [i \in 1..Len(Pieces(s)) |-> Row(<<f, i>>, i - 1)]]]
               /\ UNCHANGED entries
    /\ upload' = [upload EXCEPT ![f].pc = "ended"]
    /\ UNCHANGED <<left, task, temp, dest, had>>

-----------------------------------------------------------------------------
(* flush_epoch_buffer.                                                     *)

(* Flushing is the user's, into the staging root, or that of a push, of a  *)
(* backup or of a lock, into staging/pending.                              *)
FlushBegin ==
    /\ left = <<>> /\ entries # <<>>
    /\ left' = entries
    /\ \E dir \in {"pending", "root"} : at' = [at EXCEPT !.into = dir]
    /\ UNCHANGED <<upload, nodes, entries, sealed, task, temp, dest, had, orig>>

(* What the first j of the entries come to, one after the other.           *)
Packed(es) ==
    LET p[j \in 0..Len(es)] == IF j = 0 THEN <<>> ELSE p[j - 1] \o es[j].plain
    IN  p

(* Entries are packed in order, a batch being closed when the next entry   *)
(* would not fit: the first k of those left are one.                       *)
IsBatch(es, k) ==
    /\ k > 1 => Len(Packed(es)[k]) <= Chunk
    /\ k < Len(es) => Len(Packed(es)[k + 1]) > Chunk

(* A file's extent in its blob: after the entries packed before it.        *)
Extent(b, es, f) ==
    LET j == CHOOSE j \in DOMAIN es : es[j].file = f IN
    EpochRow(b, Len(Packed(es)[j - 1]), Len(es[j].plain))

(* flush_one_blob and commit_epoch_flush, which clears the whole buffer.   *)
(* A blob's name, key and identity are its own; its first file stands for  *)
(* them.                                                                   *)
FlushBatch ==
    /\ left # <<>>
    /\ \E k \in 1..Len(left) :
       LET b == <<"epoch", left[1].file>>
           fs == {left[j].file : j \in 1..k} IN
       /\ IsBatch(left, k)
       /\ sealed' = [c \in DOMAIN sealed \cup {b} |->
                        IF c = b THEN Seal(b, b, 0, Pad(Packed(left)[k])) ELSE sealed[c]]
       /\ at' = IF at.into = "root" THEN [at EXCEPT !.root = @ \cup {b}]
                                   ELSE [at EXCEPT !.pending = @ \cup {b}]
       /\ nodes' = [f \in Files |-> IF f \in fs
                      THEN [nodes[f] EXCEPT !.st = "ready", !.rows = <<Extent(b, left, f)>>]
                      ELSE nodes[f]]
       /\ left' = SubSeq(left, k + 1, Len(left))
    /\ entries' = <<>>
    /\ UNCHANGED <<upload, task, temp, dest, had, orig>>

(* A blob cannot be written: the entries that are left stay in the buffer, *)
(* if it is still there.                                                   *)
FlushStops ==
    /\ left # <<>>
    /\ "flush_fails" \notin Perils => entries # <<>>
    /\ left' = <<>>
    /\ UNCHANGED <<upload, nodes, entries, sealed, at, task, temp, dest, had, orig>>

-----------------------------------------------------------------------------
(* The surroundings.                                                       *)

Reads(t, b) ==
    task[t].pc \in {"fetch", "chunk", "read"} /\ \E i \in DOMAIN nodes[task[t].file].rows :
        nodes[task[t].file].rows[i].blob = b

(* A push uploads a pending blob and removes the local copy.               *)
Push(b) ==
    /\ b \in at.pending
    /\ "push" \notin Perils => \A t \in Tasks : ~Reads(t, b)
    /\ at' = [at EXCEPT !.pending = @ \ {b}, !.cloud = @ \cup {b}]
    /\ UNCHANGED <<upload, nodes, entries, left, sealed, task, temp, dest, had, orig>>

Rot(b) ==
    /\ b \in at.cloud /\ at.rotten = {}
    /\ at' = [at EXCEPT !.rotten = {b}]
    /\ UNCHANGED <<upload, nodes, entries, left, sealed, task, temp, dest, had, orig>>

(* The chunk rows of a file, in their order; an epoch row has the name of  *)
(* its epoch blob.                                                         *)
RowsOf(f) == nodes[f].rows

BlobsOf(f) == {RowsOf(f)[i].blob : i \in DOMAIN RowsOf(f)}

(* Mutant of OwnBlobs: the blob its neighbours are packed into goes too.   *)
OwnBlobsAll(f) == BlobsOf(f)

(* delete_node: an epoch blob goes with the last file it holds.            *)
OwnBlobs(f) == BlobsOf(f) \ UNION {BlobsOf(g) : g \in Files \ {f}}

(* The row in epoch_buffer goes with its node, which has one at most.      *)
Without(es, f) ==
    IF \E j \in DOMAIN es : es[j].file = f
    THEN LET j == CHOOSE j \in DOMAIN es : es[j].file = f IN
         SubSeq(es, 1, j - 1) \o SubSeq(es, j + 1, Len(es))
    ELSE es

(* vault_ops::delete_file unlinks the staged and the cached copy of every  *)
(* blob of the file, the shared ones too; only the others are queued for   *)
(* deletion in the cloud.                                                  *)
DeleteFile(f) ==
    /\ nodes[f].st \in {"buffered", "ready"}
    /\ left = <<>>   \* the race with a flush is VaultStore's
    /\ nodes' = [nodes EXCEPT ![f] = [NoNode EXCEPT !.st = "deleted"]]
    /\ entries' = Without(entries, f)
    /\ "delete_packed" \notin Perils => \A b \in BlobsOf(f) \ OwnBlobs(f) :
          b \notin at.pending \cup at.root /\ \A t \in Tasks : ~Reads(t, b)
    /\ at' = [at EXCEPT !.pending = @ \ BlobsOf(f), !.root = @ \ BlobsOf(f),
                        !.cache = @ \ BlobsOf(f), !.cloud = @ \ OwnBlobs(f)]
    /\ task' = [t \in Tasks |-> IF task[t].file = f THEN [task[t] EXCEPT !.excuse = TRUE]
                                                    ELSE task[t]]
    /\ UNCHANGED <<upload, left, sealed, temp, dest, had, orig>>

(* The process ends: tasks are gone, files stay as they are until the next *)
(* unlock, when migrate_flat_staging_blobs moves the root's to pending.    *)
Exit ==
    /\ "crash" \notin Perils => \A t \in Tasks : task[t].pc \in {"idle", "done", "failed"}
    /\ "flush_fails" \notin Perils => left = <<>> \/ entries # <<>>
    /\ task' = [t \in Tasks |-> Idle] /\ left' = <<>>
    /\ at' = [at EXCEPT !.pending = @ \cup at.root, !.root = {}]
    /\ UNCHANGED <<upload, nodes, entries, sealed, temp, dest, had, orig>>

-----------------------------------------------------------------------------
(* Downloads: what is asked for, and fetching what is not at hand.         *)

(* Of a task that has ended, only what it was asked and gave is kept.      *)
Set(t, r) ==
    task' = [task EXCEPT ![t] =
        IF r.pc \in {"done", "failed"}
        THEN [r EXCEPT !.todo = {}, !.rows = <<>>, !.size = 0, !.key = None, !.i = 1,
                       !.last = 0, !.path = "none"]
        ELSE r]

(* Mutant of Fail: the temporary file is forgotten.                        *)
FailKeeps(t, excused) ==
    /\ Set(t, [task[t] EXCEPT !.pc = "failed", !.excuse = @ \/ excused])
    /\ UNCHANGED temp

(* Failing, decrypt_file removes its temporary file.                       *)
Fail(t, excused) ==
    /\ Set(t, [task[t] EXCEPT !.pc = "failed", !.excuse = @ \/ excused])
    /\ temp' = temp \ {t}

(* parse_range_header for `bytes=lo-` and for `bytes=lo-hi`.               *)
OpenRange(lo, size) == IF lo + MaxRange - 1 < size - 1 THEN lo + MaxRange - 1 ELSE size - 1
ClosedRange(hi, size) == IF hi < size - 1 THEN hi ELSE size - 1

(* get_file_content refuses a file by its size, before anything is read.   *)
MayView(f) == nodes[f].size <= MaxView

(* serve_video_range answers a range that begins inside the file.          *)
MayStream(f, lo, hi) ==
    /\ lo < nodes[f].size
    /\ \/ hi = OpenRange(lo, nodes[f].size)
       \/ \E h \in lo..MaxSize : hi = ClosedRange(h, nodes[f].size)
    /\ "stream_epoch" \notin Perils => ~ToEpoch(nodes[f].size)

(* prefetch_video fetches the blobs of what will be streamed.              *)
MayPrefetch(f) == "stream_epoch" \in Perils \/ ~ToEpoch(nodes[f].size)

(* What the browser asks for: a file is exported, previewed, or, being a   *)
(* video, prefetched and then streamed by the player.                      *)
Asked(f, mode, lo, hi) ==
    /\ mode # "stream" => lo = 0 /\ hi = 0
    /\ mode = "view" => MayView(f)
    /\ mode = "prefetch" => MayPrefetch(f)
    /\ mode = "stream" => MayStream(f, lo, hi)

(* download_file, get_file_content, prefetch_video, serve_video_range.     *)
TaskBegin(t, f) ==
    /\ task[t].pc = "idle" /\ nodes[f].st \in {"buffered", "ready"}
    /\ \E mode \in {"save", "view", "prefetch", "stream"}, lo, hi \in 0..MaxSize :
          /\ Asked(f, mode, lo, hi)
          /\ Set(t, [Idle EXCEPT !.pc = "fetch", !.file = f, !.mode = mode, !.lo = lo,
                                 !.hi = hi, !.todo = BlobsOf(f)])
    /\ UNCHANGED <<upload, nodes, entries, left, sealed, at, temp, dest, had, orig>>

(* A copy in pending/ or cache/ is taken without looking at it; one in the *)
(* staging root is not seen.                                               *)
AtHand(b) == b \in at.pending \cup at.cache

(* verify_blob_checksum of what was downloaded.                            *)
Intact(b) == b \notin at.rotten

(* download_blob_task: into the cache, verified, and removed if it is not  *)
(* what the row says.                                                      *)
Download(b) ==
    /\ b \in at.cloud /\ Intact(b)
    /\ at' = [at EXCEPT !.cache = @ \cup {b}]

(* fetch_missing_file_blobs, a blob.  The cloud does not have what the     *)
(* user's flush wrote, which stays in the root until the next unlock.      *)
Fetch(t) ==
    /\ task[t].pc = "fetch"
    /\ \E b \in task[t].todo :
          \/ /\ AtHand(b)
             /\ Set(t, [task[t] EXCEPT !.todo = @ \ {b}]) /\ UNCHANGED <<at, temp>>
          \/ /\ ~AtHand(b) /\ Download(b)
             /\ Set(t, [task[t] EXCEPT !.todo = @ \ {b}]) /\ UNCHANGED temp
          \/ /\ ~AtHand(b)
             /\ Fail(t, b \in at.cloud \cup at.root) /\ UNCHANGED at
    /\ UNCHANGED <<upload, nodes, entries, left, sealed, dest, had, orig>>

(* prefetch_video returns the player's URL.                                *)
Prefetched(t) ==
    /\ task[t].pc = "fetch" /\ task[t].todo = {} /\ task[t].mode = "prefetch"
    /\ Set(t, [task[t] EXCEPT !.pc = "done"])
    /\ UNCHANGED <<upload, nodes, entries, left, sealed, at, temp, dest, had, orig>>

(* The first and the last chunk a range touches.                           *)
FirstChunk(r) == IF r.mode = "stream" THEN r.lo \div Chunk + 1 ELSE 1
LastChunk(r, rows) == IF r.mode = "stream" THEN r.hi \div Chunk + 1 ELSE Len(rows)

Buffered(f) == \E j \in DOMAIN entries : entries[j].file = f

IsPacked(rows) == rows # <<>> /\ rows[1].epoch

(* download_file: the node is gone, or its bytes are not in a blob yet.    *)
Waits(f) == nodes[f].st = "deleted" \/ Buffered(f)

(* download_file_range_to_memory does not cut ranges out of a packed file. *)
RangeRefused(r) == r.mode = "stream" /\ IsPacked(RowsOf(r.file))

(* The rows, read anew, and the unwrapped key, given to the pipeline.      *)
Opened(r, n) == [r EXCEPT !.pc = "chunk", !.rows = n.rows, !.size = n.size, !.key = n.key.key,
                          !.i = FirstChunk(r), !.last = LastChunk(r, n.rows)]

(* vault_ops::download_file* and read_and_validate_chunks.                 *)
Validate(t) ==
    LET r == task[t]  n == nodes[r.file]  packed == IsPacked(n.rows) IN
    /\ r.pc = "fetch" /\ r.todo = {} /\ r.mode # "prefetch"
    /\ "read_in_flush" \notin Perils => left = <<>> \/ entries # <<>>
    /\ IF \/ Waits(r.file)
          \/ RangeRefused(r)
          \/ ~packed /\ Len(n.rows) # NumChunks(n.size)
       THEN Fail(t, Waits(r.file))
       ELSE /\ Set(t, Opened(r, n))
            /\ temp' = IF r.mode = "save" /\ ~packed THEN temp \cup {t} ELSE temp
    /\ UNCHANGED <<upload, nodes, entries, left, sealed, at, dest, had, orig>>

(* resolve_blob_path: pending, else cache, else the flat directory, which  *)
(* is the staging root.                                                    *)
Resolve(t) ==
    LET b == task[t].rows[task[t].i].blob IN
    /\ task[t].pc = "chunk" /\ task[t].i <= task[t].last
    /\ Set(t, [task[t] EXCEPT !.pc = "read",
          !.path = IF b \in at.pending THEN "pending" ELSE IF b \in at.cache THEN "cache" ELSE "flat"])
    /\ UNCHANGED <<upload, nodes, entries, left, sealed, at, temp, dest, had, orig>>

(* read_encrypted_blob: the file is at the path that was resolved.         *)
There(path, b) ==
    \/ path = "pending" /\ b \in at.pending
    \/ path = "cache" /\ b \in at.cache
    \/ path = "flat" /\ b \in at.root

(* decrypt_epoch_file*: the file's extent in the packed blob.              *)
OfPacked(row, plain) == SubSeq(plain, row.off + 1, row.off + row.len)

(* Mutant of Wanted: every chunk is written whole.                         *)
WantedWhole(r, plain) ==
    IF r.rows[r.i].epoch THEN OfPacked(r.rows[r.i], plain) ELSE plain

Base(r) == r.rows[r.i].idx * Chunk

(* decrypt_file, decrypt_file_to_memory: all but the last chunk's padding. *)
RealBytes(r) == IF r.i = Len(r.rows) THEN r.size - Base(r) ELSE Chunk
OfWhole(r, plain) == SubSeq(plain, 1, RealBytes(r))

(* decrypt_file_range_to_memory: the overlap with the range.               *)
OfRange(r, plain) ==
    LET from == IF r.lo > Base(r) THEN r.lo - Base(r) ELSE 0
        to == IF r.hi - Base(r) + 1 < RealBytes(r) THEN r.hi - Base(r) + 1 ELSE RealBytes(r) IN
    SubSeq(plain, from + 1, to)

(* What is wanted of a decrypted chunk.                                    *)
Wanted(r, plain) ==
    IF r.rows[r.i].epoch THEN OfPacked(r.rows[r.i], plain)
    ELSE IF r.mode = "stream" THEN OfRange(r, plain)
    ELSE OfWhole(r, plain)

(* Read, verify_checksum, decrypt_chunk, write.  A local file that is      *)
(* there is whole; it may be gone since it was resolved.                   *)
ReadChunk(t) ==
    LET r == task[t]  row == r.rows[r.i]  b == sealed[row.blob]
        key == IF row.epoch THEN row.blob ELSE r.key
        fid == IF row.epoch THEN row.blob ELSE r.file IN
    /\ r.pc = "read"
    /\ IF There(r.path, row.blob) /\ Opens(b, key, fid, row.idx)
       THEN /\ Set(t, [r EXCEPT !.pc = "chunk", !.i = @ + 1, !.path = "none",
                                !.out = @ \o Wanted(r, b.plain)])
            /\ temp' = IF r.mode = "save" THEN temp \cup {t} ELSE temp
       ELSE Fail(t, FALSE)
    /\ UNCHANGED <<upload, nodes, entries, left, sealed, at, dest, had, orig>>

(* The disk refuses a write.  decrypt_epoch_file then returns at once.     *)
WriteFail(t) ==
    /\ task[t].pc = "chunk" /\ t \in temp
    /\ LET packed == IsPacked(task[t].rows) IN
       /\ packed => "epoch_disk" \in Perils
       /\ IF packed THEN /\ Set(t, [task[t] EXCEPT !.pc = "failed", !.excuse = TRUE])
                         /\ UNCHANGED temp
                    ELSE Fail(t, TRUE)
    /\ UNCHANGED <<upload, nodes, entries, left, sealed, at, dest, had, orig>>

-----------------------------------------------------------------------------
(* The end of a download.                                                  *)

Finish(t) ==
    /\ task[t].pc = "chunk" /\ task[t].i > task[t].last
    /\ Set(t, [task[t] EXCEPT !.pc =
          IF task[t].mode # "save" THEN "done" ELSE IF dest.there THEN "backup" ELSE "rename"])
    /\ UNCHANGED <<upload, nodes, entries, left, sealed, at, temp, dest, had, orig>>

(* replace_destination_with_temp: the old file is renamed away ...         *)
Backup(t) ==
    /\ task[t].pc = "backup"
    /\ \/ /\ dest.there
          /\ Set(t, [task[t] EXCEPT !.pc = "rename", !.bak = dest])
          /\ dest' = NoFile /\ UNCHANGED temp
       \/ Fail(t, TRUE) /\ UNCHANGED dest
    /\ UNCHANGED <<upload, nodes, entries, left, sealed, at, had, orig>>

(* ... the new one takes its place, or the old one is put back ...         *)
Restored(t) == IF task[t].bak.there /\ "disk" \notin Perils THEN task[t].bak ELSE dest

Rename(t) ==
    /\ task[t].pc = "rename"
    /\ \/ /\ dest' = [there |-> TRUE, data |-> task[t].out]
          /\ Set(t, [task[t] EXCEPT !.pc = IF task[t].bak.there THEN "unlink" ELSE "done"])
          /\ temp' = temp \ {t}
       \/ /\ dest' = Restored(t)
          /\ Set(t, [task[t] EXCEPT !.pc = "failed", !.excuse = TRUE,
                                    !.bak = IF dest' = @ THEN NoFile ELSE @])
          /\ temp' = temp \ {t}
    /\ UNCHANGED <<upload, nodes, entries, left, sealed, at, had, orig>>

(* ... and the old one is removed.                                         *)
Unlink(t) ==
    /\ task[t].pc = "unlink"
    /\ \/ Set(t, [task[t] EXCEPT !.pc = "done", !.bak = NoFile])
       \/ /\ "disk" \in Perils
          /\ Set(t, [task[t] EXCEPT !.pc = "failed", !.excuse = TRUE])
    /\ UNCHANGED <<upload, nodes, entries, left, sealed, at, temp, dest, had, orig>>

TransferNext ==
    \/ FlushBegin \/ FlushBatch \/ FlushStops \/ Exit
    \/ \E f \in Files : UploadStat(f) \/ UploadStore(f) \/ DeleteFile(f)
    \/ \E b \in DOMAIN sealed : Push(b) \/ Rot(b)
    \/ \E t \in Tasks : \/ \E f \in Files : TaskBegin(t, f)
                        \/ Fetch(t) \/ Prefetched(t) \/ Validate(t) \/ Resolve(t) \/ ReadChunk(t)
                        \/ WriteFail(t) \/ Finish(t) \/ Backup(t) \/ Rename(t) \/ Unlink(t)

TransferSpec == TransferInit /\ [][TransferNext]_transferVars

-----------------------------------------------------------------------------
Running(t) == task[t].pc \notin {"idle", "done", "failed"}

(* A download that succeeds gives exactly the bytes that were read from    *)
(* the source when the file was stored, or of a stream the range asked     *)
(* for, without padding and without another file's bytes, whatever push,   *)
(* flush or deletion ran beside it (decrypt_file*, serve_video_range).     *)
DownloadExact ==
    \A t \in Tasks : LET r == task[t] IN
        r.pc = "done" /\ r.mode # "prefetch" =>
            r.out = IF r.mode = "stream" THEN SubSeq(orig[r.file], r.lo + 1, r.hi + 1) ELSE orig[r.file]

(* What the rows of a file put together, row by row.                       *)
Joined(f) ==
    LET r == [Idle EXCEPT !.mode = "view", !.rows = nodes[f].rows, !.size = nodes[f].size]
        g[i \in 0..Len(r.rows)] ==
            IF i = 0 THEN <<>>
            ELSE g[i - 1] \o Wanted([r EXCEPT !.i = i], sealed[r.rows[i].blob].plain)
    IN  g[Len(r.rows)]

(* A stored file is never lost: its bytes are in the buffer or with the    *)
(* flush under way, or its rows put together what was stored from blobs    *)
(* that still exist somewhere, though neighbours in the same epoch blob    *)
(* are deleted and batches are committed one at a time (epoch_flush.rs,    *)
(* commit_epoch_flush, delete_node).                                       *)
ContentKept ==
    \A f \in Files :
        /\ nodes[f].st = "buffered" =>
              \E es \in {entries, left} :
                 \E j \in DOMAIN es : es[j] = [file |-> f, plain |-> orig[f]]
        /\ nodes[f].st = "ready" => /\ BlobsOf(f) \subseteq at.pending \cup at.root \cup at.cache \cup at.cloud
                                   /\ Joined(f) = orig[f]

(* A download fails only for a reason outside the program (the transport,  *)
(* a damaged blob, the disk), because the file was deleted meanwhile,      *)
(* because it is still buffered or because the user's flush put its blob   *)
(* into the staging root, where no fetch looks: never because its rows and *)
(* its size disagree, and never because a blob it saw is not where it was. *)
FailsWithCause == \A t \in Tasks : task[t].pc = "failed" => task[t].excuse

(* A save leaves no trace: no temporary plaintext and no renamed-away old  *)
(* file once it has ended, and the destination holds a whole file, old or  *)
(* new, unless a replacement is just under way                             *)
(* (replace_destination_with_temp).                                        *)
NoTrace ==
    /\ temp \subseteq {t \in Tasks : Running(t)}
    /\ \A t \in Tasks : task[t].bak.there => task[t].pc \in {"rename", "unlink"}
    /\ had /\ ~dest.there => \E t \in Tasks : task[t].pc = "rename" /\ task[t].bak.there
    /\ dest.there => dest = Old \/ \E f \in Files : dest.data = orig[f]
=============================================================================
