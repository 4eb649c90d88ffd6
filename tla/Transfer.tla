------------------------------ MODULE Transfer ------------------------------
(***************************************************************************)
(* The FileTransferService of every node (src/transfer/file_transfer.py):  *)
(* a seeder records a file in local_files and sends its MANIFEST to its    *)
(* peers; each MANIFEST is handled by a thread of its own, which adds the  *)
(* sender to the swarm of the file or creates that swarm; the workers of   *)
(* a swarm ask the first source for chunks, and what they receive goes to  *)
(* the swarm that the dictionary `swarms' holds at that moment, which need *)
(* not be theirs.                                                          *)
(*                                                                         *)
(* The handler thread of manifest h creates at most one swarm: swarm h.    *)
(*                                                                         *)
(* Abstractions.  In the life of a chunk the steps are coarser than in     *)
(* module Swarm, which has the interleavings of its workers: the queue is  *)
(* a set, a worker's get and its check of the chunk are one step, and two  *)
(* workers of a swarm that hold the same chunk count as one.  The steps of *)
(* _finalize are those of module Swarm.  All files have NbChunks chunks,   *)
(* and what is written at the place of a chunk replaces what was there.    *)
(* The signature of a manifest made by create_manifest is valid.           *)
(***************************************************************************)
EXTENDS Integers, Sequences, FiniteSets

CONSTANTS
    Nodes, NoNode,
    Files, NoFile,
    Owners(_),     \* nodes that have the file from the start
    Name(_),       \* manifest["filename"] of a file
    NbChunks,
    NumWorkers,    \* start_workers(num_workers=3)
    MaxManifests,  \* bound: MANIFEST messages
    MaxFaults      \* bound: answers with wrong bytes, restarts, disk errors

ASSUME TransferAssumption ==
    /\ NoNode \notin Nodes /\ NoFile \notin Files
    /\ NbChunks \in Nat \ {0} /\ NumWorkers \in Nat \ {0}
    /\ MaxManifests \in Nat /\ MaxFaults \in Nat

VARIABLES
    localFiles,  \* local_files of each node
    swarms,      \* swarms of each node: file -> swarm
    disk,        \* the downloads directory of each node: name -> the file
                 \* whose chunk is at each place (NoFile: none)
    saved,       \* files each node has announced as saved
    from, to, file,  \* sender, receiver and file of each manifest
    stage,       \* where the handler of each manifest is
    sources,     \* sources of each swarm
    todo,        \* work_queue of each swarm
    asked,       \* chunks the workers of each swarm are waiting for
    answered,    \* those of them whose answer is on its way
    done,        \* chunks each swarm has marked "done"
    data,        \* chunks_data of each swarm
    completed,   \* completed of each swarm
    fin,         \* where each worker of each swarm is in _finalize
    pos,         \* its loop index there
    diskFailed,  \* writing or reading back a file has raised an exception
    bad,         \* answers with wrong bytes so far
    restarts     \* restarts so far

nodeVars     == <<localFiles, swarms>>
outputVars   == <<disk, saved, completed, fin, pos, diskFailed>>
manifestVars == <<from, to, file>>
chunkVars    == <<todo, asked, answered, done, data>>
faultVars    == <<bad, restarts>>
vars == <<nodeVars, outputVars, manifestVars, stage, sources, chunkVars, faultVars>>

Chunks    == 0 .. NbChunks - 1
Workers   == 1 .. NumWorkers
Manifests == 1 .. MaxManifests
NoSwarm   == 0
Names     == {Name(f) : f \in Files}

Stage == {"unused", "sent", "notLocal", "known", "absent",
          "registered", "sourced", "running", "ended"}

\* "loop": not in _finalize.
FilePoint == {"loop", "claim", "open", "write", "verify", "announce"}

Faults == bad + restarts + IF diskFailed THEN 1 ELSE 0

Nothing  == [c \in Chunks |-> NoFile]
Whole(f) == [c \in Chunks |-> f]

Init ==
    /\ localFiles = [n \in Nodes |-> {}]
    /\ swarms = [n \in Nodes |-> [f \in Files |-> NoSwarm]]
    /\ disk = [n \in Nodes |-> [x \in Names |-> Nothing]]
    /\ saved = [n \in Nodes |-> {}]
    /\ from = [h \in Manifests |-> NoNode]
    /\ to = [h \in Manifests |-> NoNode]
    /\ file = [h \in Manifests |-> NoFile]
    /\ stage = [h \in Manifests |-> "unused"]
    /\ sources = [h \in Manifests |-> <<>>]
    /\ todo = [h \in Manifests |-> Chunks]
    /\ asked = [h \in Manifests |-> {}]
    /\ answered = [h \in Manifests |-> {}]
    /\ done = [h \in Manifests |-> {}]
    /\ data = [h \in Manifests |-> {}]
    /\ completed = [h \in Manifests |-> FALSE]
    /\ fin = [h \in Manifests |-> [w \in Workers |-> "loop"]]
    /\ pos = [h \in Manifests |-> [w \in Workers |-> 0]]
    /\ diskFailed = FALSE
    /\ bad = 0
    /\ restarts = 0

-----------------------------------------------------------------------------
(* The seeder.                                                             *)

\* seed_file, first half: the manifest is recorded, if the file exists.
Seed(n, f) ==
    /\ n \in Owners(f) \/ f \in saved[n]
    /\ f \notin localFiles[n]
    /\ localFiles' = [localFiles EXCEPT ![n] = @ \union {f}]
    /\ UNCHANGED <<swarms, outputVars, manifestVars, stage, sources>>
    /\ UNCHANGED <<chunkVars, faultVars>>

\* Mutant: the manifest is sent before it is recorded.
SendManifestFirst(n, m, f, h) ==
    /\ stage[h] = "unused"
    /\ \A k \in 1 .. h - 1 : stage[k] # "unused"
    /\ from' = [from EXCEPT ![h] = n]
    /\ to' = [to EXCEPT ![h] = m]
    /\ file' = [file EXCEPT ![h] = f]
    /\ stage' = [stage EXCEPT ![h] = "sent"]
    /\ UNCHANGED <<nodeVars, outputVars, sources, chunkVars, faultVars>>

\* seed_file, its loop: one MANIFEST to one entry of the peer table.  A node
\* with two entries gets two, and a user can send the file again; a scan over
\* two interfaces enters the node itself.
SendManifest(n, m, f, h) ==
    /\ f \in localFiles[n]
    /\ stage[h] = "unused"
    /\ \A k \in 1 .. h - 1 : stage[k] # "unused"
    /\ from' = [from EXCEPT ![h] = n]
    /\ to' = [to EXCEPT ![h] = m]
    /\ file' = [file EXCEPT ![h] = f]
    /\ stage' = [stage EXCEPT ![h] = "sent"]
    /\ UNCHANGED <<nodeVars, outputVars, sources, chunkVars, faultVars>>

\* _send_tcp fails.
LoseManifest(h) ==
    /\ stage[h] = "sent"
    /\ stage' = [stage EXCEPT ![h] = "ended"]
    /\ UNCHANGED <<nodeVars, outputVars, manifestVars, sources, chunkVars, faultVars>>

-----------------------------------------------------------------------------
(* _handle_manifest_received, in a thread per manifest, without a lock.    *)

Advance(h, s) == stage' = [stage EXCEPT ![h] = s]

\* "Deja possede"
CheckLocal(h) ==
    /\ stage[h] = "sent"
    /\ Advance(h, IF file[h] \in localFiles[to[h]] THEN "ended" ELSE "notLocal")
    /\ UNCHANGED <<nodeVars, outputVars, manifestVars, sources, chunkVars, faultVars>>

Registered(h) == swarms[to[h]][file[h]]

\* "Deja en cours de telechargement"
CheckSwarms(h) ==
    /\ stage[h] = "notLocal"
    /\ Advance(h, IF Registered(h) = NoSwarm THEN "absent" ELSE "known")
    /\ UNCHANGED <<nodeVars, outputVars, manifestVars, sources, chunkVars, faultVars>>

AddKnownSource(h) ==
    /\ stage[h] = "known"
    /\ sources' = [sources EXCEPT ![Registered(h)] = Append(@, from[h])]
    /\ Advance(h, "ended")
    /\ UNCHANGED <<nodeVars, outputVars, manifestVars, chunkVars, faultVars>>

Register(h) ==
    /\ stage[h] = "absent"
    /\ swarms' = [swarms EXCEPT ![to[h]][file[h]] = h]
    /\ Advance(h, "registered")
    /\ UNCHANGED <<localFiles, outputVars, manifestVars, sources, chunkVars, faultVars>>

\* Mutant: the sender of the first manifest is not added.
AddFirstSourceForgotten(h) ==
    /\ stage[h] = "registered"
    /\ Advance(h, "sourced")
    /\ UNCHANGED <<nodeVars, outputVars, manifestVars, sources, chunkVars, faultVars>>

AddFirstSource(h) ==
    /\ stage[h] = "registered"
    /\ sources' = [sources EXCEPT ![h] = Append(@, from[h])]
    /\ Advance(h, "sourced")
    /\ UNCHANGED <<nodeVars, outputVars, manifestVars, chunkVars, faultVars>>

StartWorkers(h) ==
    /\ stage[h] = "sourced"
    /\ Advance(h, "running")
    /\ UNCHANGED <<nodeVars, outputVars, manifestVars, sources, chunkVars, faultVars>>

-----------------------------------------------------------------------------
(* The workers of swarm h: chunks.                                         *)

\* Workers that neither wait for a chunk nor finalize.
SomeoneIsFree(h) ==
    Cardinality(asked[h]) + Cardinality({w \in Workers : fin[h][w] # "loop"})
        < NumWorkers

\* A worker takes a chunk; one that is done already is dropped.
Ask(h, c) ==
    /\ stage[h] = "running"
    /\ ~completed[h]
    /\ c \in todo[h]
    /\ SomeoneIsFree(h)
    /\ todo' = [todo EXCEPT ![h] = @ \ {c}]
    /\ asked' = [asked EXCEPT ![h] = IF c \in done[h] THEN @ ELSE @ \union {c}]
    /\ UNCHANGED <<answered, done, data, nodeVars, outputVars, manifestVars>>
    /\ UNCHANGED <<stage, sources, faultVars>>

\* The first source still has the file in its local_files.
Served(h) == file[h] \in localFiles[Head(sources[h])]

\* _handle_chunk_req sends CHUNK_DATA, which from now on does not depend on
\* the source.
Serve(h, c) ==
    /\ stage[h] = "running"
    /\ c \in asked[h] \ answered[h]
    /\ Served(h)
    /\ answered' = [answered EXCEPT ![h] = @ \union {c}]
    /\ UNCHANGED <<todo, asked, done, data, nodeVars, outputVars, manifestVars>>
    /\ UNCHANGED <<stage, sources, faultVars>>

\* CHUNK_DATA is there: the worker no longer waits.
Arrives(h, c) ==
    /\ stage[h] = "running"
    /\ c \in answered[h]
    /\ asked' = [asked EXCEPT ![h] = @ \ {c}]
    /\ answered' = [answered EXCEPT ![h] = @ \ {c}]

\* Mutant: the answer goes to the swarm of the worker that asked, but the
\* mark "done" to the one that is registered.
AnswerSplit(h, c) ==
    /\ Arrives(h, c)
    /\ data' = [data EXCEPT ![h] = @ \union {c}]
    /\ done' = [done EXCEPT ![Registered(h)] = @ \union {c}]
    /\ UNCHANGED <<todo, nodeVars, outputVars, manifestVars, stage>>
    /\ UNCHANGED <<sources, faultVars>>

\* request_chunk_sync gives the chunk to self.swarms.get(file_id), marked and
\* stored under its lock.
Answer(h, c) ==
    /\ Arrives(h, c)
    /\ data' = [data EXCEPT ![Registered(h)] = @ \union {c}]
    /\ done' = [done EXCEPT ![Registered(h)] = @ \union {c}]
    /\ UNCHANGED <<todo, nodeVars, outputVars, manifestVars, stage>>
    /\ UNCHANGED <<sources, faultVars>>

\* The source's file has changed: the registered swarm loses its mark and
\* queues the chunk, and the worker does the same in its own swarm.
AnswerBad(h, c) ==
    /\ Arrives(h, c)
    /\ Faults < MaxFaults
    /\ bad' = bad + 1
    /\ todo' = [k \in Manifests |->
                   IF k \in {h, Registered(h)} THEN todo[k] \union {c} ELSE todo[k]]
    /\ done' = [k \in Manifests |->
                   IF k \in {h, Registered(h)} THEN done[k] \ {c} ELSE done[k]]
    /\ UNCHANGED <<data, nodeVars, outputVars, manifestVars, stage>>
    /\ UNCHANGED <<sources, restarts>>

\* Mutant: a failed request is not queued again.
FailForgotten(h, c) ==
    /\ stage[h] = "running"
    /\ c \in asked[h] \ answered[h]
    /\ asked' = [asked EXCEPT ![h] = @ \ {c}]
    /\ done' = [done EXCEPT ![h] = @ \ {c}]
    /\ UNCHANGED <<todo, answered, data, nodeVars, outputVars, manifestVars>>
    /\ UNCHANGED <<stage, sources, faultVars>>

\* ERROR "file not found", no connection, no answer in time (one that gets
\* lost was never sent): the chunk is pending and queued again, even if it
\* has become "done" meanwhile.
Fail(h, c) ==
    /\ stage[h] = "running"
    /\ c \in asked[h] \ answered[h]
    /\ todo' = [todo EXCEPT ![h] = @ \union {c}]
    /\ asked' = [asked EXCEPT ![h] = @ \ {c}]
    /\ done' = [done EXCEPT ![h] = @ \ {c}]
    /\ UNCHANGED <<answered, data, nodeVars, outputVars, manifestVars>>
    /\ UNCHANGED <<stage, sources, faultVars>>

-----------------------------------------------------------------------------
(* The workers of swarm h: _finalize, without a lock.                      *)

Goto(h, w, point) == fin' = [fin EXCEPT ![h][w] = point]

\* Mutant: done >= nb_chunks - 1.
FinalizeShort(h, w) ==
    /\ stage[h] = "running"
    /\ fin[h][w] = "loop"
    /\ \A v \in 1 .. w - 1 : fin[h][v] # "loop"
    /\ SomeoneIsFree(h)
    /\ Cardinality(done[h]) >= NbChunks - 1
    /\ ~completed[h]
    /\ Goto(h, w, "claim")
    /\ UNCHANGED <<disk, saved, completed, pos, diskFailed, nodeVars>>
    /\ UNCHANGED <<manifestVars, stage, sources, chunkVars, faultVars>>

\* A worker has found the queue empty, which it need not be any more,
\* _all_done() holds and `completed' is not set (the workers are alike: the
\* first free one enters).
Finalize(h, w) ==
    /\ stage[h] = "running"
    /\ fin[h][w] = "loop"
    /\ \A v \in 1 .. w - 1 : fin[h][v] # "loop"
    /\ SomeoneIsFree(h)
    /\ done[h] = Chunks
    /\ ~completed[h]
    /\ Goto(h, w, "claim")
    /\ UNCHANGED <<disk, saved, completed, pos, diskFailed, nodeVars>>
    /\ UNCHANGED <<manifestVars, stage, sources, chunkVars, faultVars>>

Claim(h, w) ==
    /\ fin[h][w] = "claim"
    /\ completed' = [completed EXCEPT ![h] = TRUE]
    /\ Goto(h, w, "open")
    /\ UNCHANGED <<disk, saved, pos, diskFailed, nodeVars>>
    /\ UNCHANGED <<manifestVars, stage, sources, chunkVars, faultVars>>

\* open(output_path, "wb") creates or truncates what has the file's name.
OpenFile(h, w) ==
    /\ fin[h][w] = "open"
    /\ disk' = [disk EXCEPT ![to[h]][Name(file[h])] = Nothing]
    /\ Goto(h, w, "write")
    /\ UNCHANGED <<saved, completed, pos, diskFailed, nodeVars>>
    /\ UNCHANGED <<manifestVars, stage, sources, chunkVars, faultVars>>

\* A write at this worker's own offset; a chunk without data is skipped.
WriteChunk(h, w) ==
    LET last == pos[h][w] + 1 = NbChunks
    IN  /\ fin[h][w] = "write"
        /\ disk' = IF pos[h][w] \in data[h]
                   THEN [disk EXCEPT ![to[h]][Name(file[h])][pos[h][w]] = file[h]]
                   ELSE disk
        /\ pos' = [pos EXCEPT ![h][w] = IF last THEN 0 ELSE @ + 1]
        /\ Goto(h, w, IF last THEN "verify" ELSE "write")
        /\ UNCHANGED <<saved, completed, diskFailed, nodeVars>>
        /\ UNCHANGED <<manifestVars, stage, sources, chunkVars, faultVars>>

\* Mutant: what was written is not read back.
VerifyNothing(h, w) ==
    /\ fin[h][w] = "verify"
    /\ Goto(h, w, "announce")
    /\ UNCHANGED <<disk, saved, completed, pos, diskFailed, nodeVars>>
    /\ UNCHANGED <<manifestVars, stage, sources, chunkVars, faultVars>>

\* The SHA-256 of what is on the disk is the file_id, or nothing is announced.
VerifyFile(h, w) ==
    /\ fin[h][w] = "verify"
    /\ Goto(h, w, IF disk[to[h]][Name(file[h])] = Whole(file[h])
                  THEN "announce" ELSE "loop")
    /\ UNCHANGED <<disk, saved, completed, pos, diskFailed, nodeVars>>
    /\ UNCHANGED <<manifestVars, stage, sources, chunkVars, faultVars>>

\* _on_download_complete; local_files and swarms stay as they are.
Announce(h, w) ==
    /\ fin[h][w] = "announce"
    /\ saved' = [saved EXCEPT ![to[h]] = @ \union {file[h]}]
    /\ Goto(h, w, "loop")
    /\ UNCHANGED <<disk, completed, pos, diskFailed, nodeVars>>
    /\ UNCHANGED <<manifestVars, stage, sources, chunkVars, faultVars>>

\* makedirs, open, write or read raises: nothing catches it, the thread ends
\* and `completed' stays set, whatever the file is by then.
DiskError(h, w) ==
    /\ fin[h][w] \in {"open", "write", "verify"}
    /\ Faults < MaxFaults
    /\ diskFailed' = TRUE
    /\ pos' = [pos EXCEPT ![h][w] = 0]
    /\ Goto(h, w, "loop")
    /\ UNCHANGED <<disk, saved, completed, nodeVars>>
    /\ UNCHANGED <<manifestVars, stage, sources, chunkVars, faultVars>>

-----------------------------------------------------------------------------
\* What becomes of the variable v of the swarms of n when n stops.
Forgotten(n, v, blank) == [h \in Manifests |-> IF to[h] = n THEN blank ELSE v[h]]

\* A node stops and starts again: its dictionaries, its threads and what they
\* were waiting for or writing are lost, its downloads directory is not.
Restart(n) ==
    /\ Faults < MaxFaults
    /\ restarts' = restarts + 1
    /\ localFiles' = [localFiles EXCEPT ![n] = {}]
    /\ swarms' = [swarms EXCEPT ![n] = [f \in Files |-> NoSwarm]]
    /\ stage' = Forgotten(n, stage, "ended")
    /\ sources' = Forgotten(n, sources, <<>>)
    /\ todo' = Forgotten(n, todo, Chunks)
    /\ asked' = Forgotten(n, asked, {})
    /\ answered' = Forgotten(n, answered, {})
    /\ done' = Forgotten(n, done, {})
    /\ data' = Forgotten(n, data, {})
    /\ completed' = [h \in Manifests |-> completed[h] /\ to[h] # n]
    /\ fin' = Forgotten(n, fin, [w \in Workers |-> "loop"])
    /\ pos' = Forgotten(n, pos, [w \in Workers |-> 0])
    /\ UNCHANGED <<disk, saved, diskFailed, manifestVars, bad>>

HandlerStep(h) ==
    \/ CheckLocal(h) \/ CheckSwarms(h) \/ AddKnownSource(h)
    \/ Register(h) \/ AddFirstSource(h) \/ StartWorkers(h)

ChunkStep(h, c) ==
    \/ Ask(h, c) \/ Serve(h, c) \/ Answer(h, c) \/ AnswerBad(h, c) \/ Fail(h, c)

FileStep(h, w) ==
    \/ Finalize(h, w) \/ Claim(h, w) \/ OpenFile(h, w)
    \/ WriteChunk(h, w) \/ VerifyFile(h, w) \/ Announce(h, w)

Next ==
    \/ \E n \in Nodes, f \in Files : Seed(n, f)
    \/ \E n, m \in Nodes, f \in Files, h \in Manifests : SendManifest(n, m, f, h)
    \/ \E h \in Manifests : LoseManifest(h) \/ HandlerStep(h)
    \/ \E h \in Manifests, c \in Chunks : ChunkStep(h, c)
    \/ \E h \in Manifests, w \in Workers : FileStep(h, w) \/ DiskError(h, w)
    \/ \E n \in Nodes : Restart(n)

Spec == Init /\ [][Next]_vars

(* Threads are scheduled and every request ends, by its timeout if need be *)
(* (the handler of a manifest that may still be lost has no obligation).   *)
(* A free worker of a swarm with a queue finally takes a chunk, and a      *)
(* source that serves does not fail all the retries of a swarm for ever.   *)
Fairness ==
    \A h \in Manifests :
        /\ WF_vars(stage[h] # "sent" /\ HandlerStep(h))
        /\ SF_vars(\E c \in Chunks : Ask(h, c))
        /\ SF_vars(\E c \in Chunks : Serve(h, c))
        /\ WF_vars(\E c \in Chunks : Answer(h, c) \/ AnswerBad(h, c) \/ Fail(h, c))
        /\ WF_vars(\E w \in Workers : FileStep(h, w))

FairSpec == Spec /\ Fairness

-----------------------------------------------------------------------------
(* Every variable keeps its type; a handler past CheckLocal has a file, and *)
(* past AddFirstSource its swarm has a source.                             *)
TypeOK ==
    /\ localFiles \in [Nodes -> SUBSET Files]
    /\ swarms \in [Nodes -> [Files -> Manifests \union {NoSwarm}]]
    /\ disk \in [Nodes -> [Names -> [Chunks -> Files \union {NoFile}]]]
    /\ saved \in [Nodes -> SUBSET Files]
    /\ from \in [Manifests -> Nodes \union {NoNode}]
    /\ to \in [Manifests -> Nodes \union {NoNode}]
    /\ file \in [Manifests -> Files \union {NoFile}]
    /\ stage \in [Manifests -> Stage]
    /\ sources \in [Manifests -> Seq(Nodes)]
    /\ todo \in [Manifests -> SUBSET Chunks]
    /\ asked \in [Manifests -> SUBSET Chunks]
    /\ answered \in [Manifests -> SUBSET Chunks]
    /\ done \in [Manifests -> SUBSET Chunks]
    /\ data \in [Manifests -> SUBSET Chunks]
    /\ completed \in [Manifests -> BOOLEAN]
    /\ fin \in [Manifests -> [Workers -> FilePoint]]
    /\ pos \in [Manifests -> [Workers -> Chunks]]
    /\ diskFailed \in BOOLEAN
    /\ bad \in Nat /\ restarts \in Nat
    /\ \A h \in Manifests :
          /\ stage[h] \notin {"unused", "ended"} =>
                from[h] \in Nodes /\ to[h] \in Nodes /\ file[h] \in Files
          /\ stage[h] \in {"sourced", "running"} => sources[h] # <<>>
          /\ stage[h] \in {"known", "registered", "sourced", "running"} =>
                Registered(h) # NoSwarm
          /\ \A w \in Workers : fin[h][w] # "loop" => stage[h] = "running"

(* No chunk of a download is lost: in the registered swarm it is queued,   *)
(* asked for or done, and what an orphan swarm (one replaced in `swarms')  *)
(* no longer has was given to another swarm of the same file.              *)
NothingLost ==
    \A h \in Manifests : stage[h] = "running" =>
        \A c \in Chunks \ (todo[h] \union asked[h] \union done[h]) :
            /\ Registered(h) # h
            /\ \E k \in Manifests \ {h} :
                  to[k] = to[h] /\ file[k] = file[h] /\ c \in data[k]

(* A swarm that completes has the bytes of every chunk, whoever asked for  *)
(* them.                                                                   *)
CompleteIsWhole ==
    \A h \in Manifests : completed[h] => data[h] = Chunks

(* A node that is in its own peer table never downloads its own file: what *)
(* it seeds is in local_files before the first MANIFEST leaves.            *)
NeverFromItself ==
    \A h \in Manifests : \A i \in DOMAIN sources[h] : sources[h][i] # to[h]

\* The swarms that n has had for f since it started.
SwarmsOf(n, f) == {h \in Manifests : to[h] = n /\ file[h] = f}

Sh == INSTANCE Sharing WITH
        shared <- localFiles,
        offers <- {<<from[h], to[h], file[h]>> :
                      h \in {k \in Manifests : stage[k] # "unused"}},
        coming <- [n \in Nodes |-> [f \in Files |->
                      UNION {answered[h] : h \in SwarmsOf(n, f)}]],
        got <- [n \in Nodes |-> [f \in Files |->
                      UNION {data[h] : h \in SwarmsOf(n, f)}]],
        checked <- [n \in Nodes |-> {f \in Files : \E h \in SwarmsOf(n, f) :
                      \E w \in Workers : fin[h][w] = "announce"}]

(* The handlers, the swarms and their workers implement the promise of     *)
(* module Sharing: each chunk comes from another node that has offered     *)
(* this file to this node and had it when it answered, only a file         *)
(* received whole touches the path of its name, and what is announced was  *)
(* read back whole, whatever other finalizers, failures and restarts do to *)
(* the path in between.                                                    *)
ImplementsSharing == Sh!Spec

NamesDiffer == \A f, g \in Files : Name(f) = Name(g) => f = g

(* Until the disk fails or a node restarts, and if no two files have the   *)
(* same name, a saved file is whole on the disk or will be again: what is  *)
(* missing is ahead of a worker that is still writing it.                  *)
SavedIsMended ==
    ~diskFailed /\ restarts = 0 /\ NamesDiffer =>
        \A n \in Nodes : \A f \in saved[n] :
              LET missing == {c \in Chunks : disk[n][Name(f)][c] # f}
              IN  missing # {} =>
                    \E h \in SwarmsOf(n, f), w \in Workers :
                        fin[h][w] = "write" /\ \A c \in missing : pos[h][w] <= c

(* As long as no node has restarted, the swarm in `swarms' can go on: its  *)
(* thread has started its workers or is about to, its first source still   *)
(* has the file, and each chunk is queued, asked for or done.              *)
RegisteredCanGoOn ==
    restarts = 0 =>
        \A n \in Nodes, f \in Files :
            LET h == swarms[n][f]
            IN  h # NoSwarm =>
                  /\ stage[h] \in {"registered", "sourced", "running"}
                  /\ stage[h] = "running" =>
                        Served(h) /\ Chunks = todo[h] \union asked[h] \union done[h]

Saved(h) == stage[h] # "unused" /\ file[h] \in saved[to[h]]

\* Manifest h has been let in: its thread or its swarm is at work.
LetIn(h) == stage[h] \notin {"unused", "sent", "ended"}

(* If in the end the first source of every registered swarm serves the     *)
(* file (again: a seeder that has restarted and seeds the file resumes the *)
(* download), every file that a node has let in is announced there,        *)
(* although two threads may have created two swarms for it, one of which   *)
(* never completes, as long as the disk works and no other file of its     *)
(* name is written over it.                                                *)
ManifestLeadsToFile ==
    /\ NamesDiffer
    /\ []~diskFailed
    /\ <>[](\A h \in Manifests :
              stage[h] = "running" /\ Registered(h) = h => Served(h))
    => <>[](\A h \in Manifests : LetIn(h) => Saved(h))

-----------------------------------------------------------------------------
(* What the code's texts say and the code does not do.                     *)

(* "[OK] Fichier sauvegarde" (_on_download_complete): a file that has been *)
(* saved is on the disk, at least while nobody is writing there.           *)
SavedIsOnDisk ==
    (\A h \in Manifests, w \in Workers : fin[h][w] = "loop")
        => \A n \in Nodes : \A f \in saved[n] : disk[n][Name(f)] = Whole(f)
=============================================================================
