------------------------------- MODULE Seeding -------------------------------
(***************************************************************************)
(* Files uploaded under one name (_upload of src/cli/main_web.py), cut     *)
(* into chunks by a seeder thread each (create_manifest of                 *)
(* src/transfer/chunker.py) and read back chunk by chunk (get_chunk_data). *)
(*                                                                         *)
(* The web server handles one request at a time, so one upload writes, but *)
(* all of them write to tmp_uploads/<name>, which the seeders of earlier   *)
(* ones may be reading.                                                    *)
(*                                                                         *)
(* Abstractions.  A hash stands for the bytes it is of, and one read is a  *)
(* single step.  What a seeder sends is module Transfer's; the two `exists'*)
(* tests and the check of the form hold for any upload that gets here.     *)
(***************************************************************************)
EXTENDS Integers, Sequences

CONSTANTS
    Bytes,
    NewLine,     \* stands for \r and \n
    ChunkSize,   \* CHUNK_SIZE
    MaxSize,     \* MAX_FILE_SIZE
    MaxUploads,  \* bound: uploads
    MaxBody      \* bound: bytes of a body

ASSUME SeedingAssumption ==
    /\ NewLine \in Bytes
    /\ ChunkSize \in Nat \ {0}
    /\ MaxSize \in Nat \ {0}
    /\ MaxUploads \in Nat /\ MaxBody \in Nat

Uploads == 1 .. MaxUploads
Bodies  == UNION {[1 .. k -> Bytes] : k \in 1 .. MaxBody}

VARIABLES
    last,     \* uploads so far
    sent,     \* the file as each upload's browser sent it
    fdata,    \* what _upload makes of it
    content,  \* the bytes of tmp_uploads/<name>
    rest,     \* the bytes that _upload has not written yet
    writing,  \* is the file open for writing?
    stage,    \* of each upload's seeder
    size,     \* its file_size
    pos,      \* its position in the file
    chunks,   \* its chunks_info
    disturbed \* history: seeders below which a later upload opened the file

uploadVars == <<last, sent, fdata>>
fileVars   == <<content, rest, writing>>
seederVars == <<size, pos, chunks>>
vars == <<uploadVars, fileVars, stage, seederVars, disturbed>>

Init ==
    /\ last = 0
    /\ sent = [u \in Uploads |-> <<>>]
    /\ fdata = [u \in Uploads |-> <<>>]
    /\ content = <<>> /\ rest = <<>> /\ writing = FALSE
    /\ stage = [u \in Uploads |-> "none"]
    /\ size = [u \in Uploads |-> 0]
    /\ pos = [u \in Uploads |-> 0]
    /\ chunks = [u \in Uploads |-> <<>>]
    /\ disturbed = {}

-----------------------------------------------------------------------------
(* The handler.                                                            *)

\* body.rstrip(b'\r\n') leaves n bytes.
StripsTo(b, n) ==
    /\ n \in 0 .. Len(b)
    /\ n > 0 => b[n] # NewLine
    /\ \A i \in n + 1 .. Len(b) : b[i] = NewLine

\* open(path, 'wb'); a file of which nothing is left is refused before.
OpenUpload(b) ==
    /\ ~writing /\ last < MaxUploads
    /\ \E n \in 1 .. Len(b) :
          /\ StripsTo(b, n)
          /\ fdata' = [fdata EXCEPT ![last + 1] = SubSeq(b, 1, n)]
          /\ rest' = SubSeq(b, 1, n)
    /\ last' = last + 1
    /\ sent' = [sent EXCEPT ![last + 1] = b]
    /\ content' = <<>>
    /\ writing' = TRUE
    /\ stage' = [stage EXCEPT ![last + 1] = "uploading"]
    /\ disturbed' = disturbed \union {u \in Uploads : stage[u] \in {"check", "read"}}
    /\ UNCHANGED seederVars

\* f.write: k more bytes reach the file.
WriteUpload(k) ==
    /\ writing /\ k \in 1 .. Len(rest)
    /\ content' = content \o SubSeq(rest, 1, k)
    /\ rest' = SubSeq(rest, k + 1, Len(rest))
    /\ UNCHANGED <<uploadVars, writing, stage, seederVars, disturbed>>

\* The file is closed and the thread of send_file_bg starts.
StartSeeder ==
    /\ writing /\ rest = <<>>
    /\ writing' = FALSE
    /\ stage' = [stage EXCEPT ![last] = "check"]
    /\ UNCHANGED <<uploadVars, content, rest, seederVars, disturbed>>

\* f.write raises: the file stays as it is by now, and nobody seeds it.
UploadFails ==
    /\ writing
    /\ writing' = FALSE
    /\ rest' = <<>>
    /\ stage' = [stage EXCEPT ![last] = "failed"]
    /\ UNCHANGED <<uploadVars, content, seederVars, disturbed>>

-----------------------------------------------------------------------------
(* The seeder, and the answer to a chunk request.                          *)

\* What read(CHUNK_SIZE) returns at position p of a file.
ReadAt(c, p) ==
    SubSeq(c, p + 1, IF p + ChunkSize <= Len(c) THEN p + ChunkSize ELSE Len(c))

\* Mutant: seek takes the index for the position.
ChunkDataAtIndex(c, i) == ReadAt(c, i)

\* get_chunk_data; <<>> stands for None.
ChunkData(c, i) == ReadAt(c, i * ChunkSize)

SeederUnchanged == UNCHANGED <<uploadVars, fileVars, disturbed>>

\* Mutant: a file of exactly the largest size is refused.
CheckFileStrictly(u) ==
    /\ stage[u] = "check"
    /\ size' = [size EXCEPT ![u] = Len(content)]
    /\ stage' = [stage EXCEPT ![u] =
                    IF Len(content) \in 1 .. MaxSize - 1 THEN "read" ELSE "refused"]
    /\ UNCHANGED <<pos, chunks>> /\ SeederUnchanged

\* Mutant: an empty file is not refused.
CheckFileEmptyToo(u) ==
    /\ stage[u] = "check"
    /\ size' = [size EXCEPT ![u] = Len(content)]
    /\ stage' = [stage EXCEPT ![u] =
                    IF Len(content) <= MaxSize THEN "read" ELSE "refused"]
    /\ UNCHANGED <<pos, chunks>> /\ SeederUnchanged

\* create_manifest, up to its open.
CheckFile(u) ==
    /\ stage[u] = "check"
    /\ size' = [size EXCEPT ![u] = Len(content)]
    /\ stage' = [stage EXCEPT ![u] =
                    IF Len(content) \in 1 .. MaxSize THEN "read" ELSE "refused"]
    /\ UNCHANGED <<pos, chunks>> /\ SeederUnchanged

\* Mutant: a short read is taken for the end.
ReadChunkFull(u) ==
    /\ stage[u] = "read"
    /\ LET raw == ReadAt(content, pos[u])
       IN  IF Len(raw) < ChunkSize
           THEN stage' = [stage EXCEPT ![u] = "seeded"] /\ UNCHANGED seederVars
           ELSE /\ chunks' = [chunks EXCEPT ![u] = Append(@, raw)]
                /\ pos' = [pos EXCEPT ![u] = @ + Len(raw)]
                /\ UNCHANGED <<size, stage>>
    /\ SeederUnchanged

\* One round of the loop; the manifest is complete when nothing is read.
ReadChunk(u) ==
    /\ stage[u] = "read"
    /\ LET raw == ReadAt(content, pos[u])
       IN  IF raw = <<>>
           THEN stage' = [stage EXCEPT ![u] = "seeded"] /\ UNCHANGED seederVars
           ELSE /\ chunks' = [chunks EXCEPT ![u] = Append(@, raw)]
                /\ pos' = [pos EXCEPT ![u] = @ + Len(raw)]
                /\ UNCHANGED <<size, stage>>
    /\ SeederUnchanged

Next ==
    \/ \E b \in Bodies : OpenUpload(b)
    \/ \E k \in 1 .. MaxBody : WriteUpload(k)
    \/ StartSeeder \/ UploadFails
    \/ \E u \in Uploads : CheckFile(u) \/ ReadChunk(u)

Spec == Init /\ [][Next]_vars

-----------------------------------------------------------------------------
(* Every variable keeps its type; only the last upload writes, and what it *)
(* has written and has still to write is its file.                         *)
TypeOK ==
    /\ last \in 0 .. MaxUploads
    /\ sent \in [Uploads -> Seq(Bytes)]
    /\ fdata \in [Uploads -> Seq(Bytes)]
    /\ content \in Seq(Bytes) /\ rest \in Seq(Bytes)
    /\ writing \in BOOLEAN
    /\ stage \in [Uploads -> {"none", "uploading", "failed", "check", "read",
                              "refused", "seeded"}]
    /\ size \in [Uploads -> Nat]
    /\ pos \in [Uploads -> Nat]
    /\ chunks \in [Uploads -> Seq(Seq(Bytes))]
    /\ disturbed \subseteq Uploads
    /\ \A u \in Uploads : stage[u] = "none" <=> u > last
    /\ \A u \in Uploads : stage[u] = "uploading" <=> writing /\ u = last
    /\ \A u \in Uploads : stage[u] \in {"read", "seeded"} => size[u] \in 1 .. MaxSize
    /\ writing => last > 0 /\ content \o rest = fdata[last]

(* The chunks of a file, in order and with nothing left over.              *)
IsCut(cs, s) ==
    /\ \A i \in DOMAIN cs : cs[i] = ReadAt(s, (i - 1) * ChunkSize) /\ cs[i] # <<>>
    /\ Len(s) <= Len(cs) * ChunkSize

(* The manifest of an upload cuts the very file its browser sent, unless   *)
(* that ends in a line break or a later upload of the same name opened the *)
(* file while it was read: whatever other uploads and seeders do.          *)
ManifestIsUpload ==
    \A u \in Uploads \ disturbed :
        stage[u] = "seeded" /\ sent[u][Len(sent[u])] # NewLine =>
            IsCut(chunks[u], sent[u]) /\ size[u] = Len(sent[u])

(* What an undisturbed manifest lacks of the file that was sent is the     *)
(* line breaks it ends with, all of them and nothing else.                 *)
OnlyBreaksLost ==
    \A u \in Uploads \ disturbed :
        stage[u] = "seeded" =>
            /\ StripsTo(sent[u], size[u])
            /\ IsCut(chunks[u], SubSeq(sent[u], 1, size[u]))

(* As soon as the last upload is seeded, each of its chunks is served as   *)
(* it was hashed and none beyond them, although earlier seeders, and       *)
(* uploads that failed, used the same file.                                *)
LastIsServed ==
    last > 0 /\ stage[last] = "seeded" =>
        \A i \in 1 .. Len(chunks[last]) + 1 :
            ChunkData(content, i - 1) =
                IF i \in DOMAIN chunks[last] THEN chunks[last][i] ELSE <<>>

(* An upload answered with "ok" is refused afterwards only for its size or *)
(* for a later upload of the same name.                                    *)
RefusedHasReason ==
    \A u \in Uploads \ disturbed : stage[u] = "refused" => Len(fdata[u]) > MaxSize
=============================================================================
