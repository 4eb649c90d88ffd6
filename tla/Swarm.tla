------------------------------- MODULE Swarm --------------------------------
(***************************************************************************)
(* One SwarmManager of src/transfer/torrent.py: the threads that download  *)
(* one file, chunk by chunk, with the part of FileTransferService that     *)
(* serves them (request_chunk_sync, src/transfer/file_transfer.py).        *)
(*                                                                         *)
(* The threads share the chunk states and data (under self.lock), the      *)
(* FIFO work queue (queue.Queue, atomic operations), the list of sources   *)
(* (under sources_lock), the flag `completed' and the file on disk, the    *)
(* last two without a lock.  A step is what one thread does between two    *)
(* accesses to this shared state.                                          *)
(*                                                                         *)
(* Abstractions.  The bytes of a chunk are right (their SHA-256 is the     *)
(* manifest's) or wrong.  The flag workers_running is cleared right after  *)
(* `completed' is set and nowhere else, so "workers_running and not        *)
(* completed" is "~completed" for every reader.  Every caller of           *)
(* add_peer_source passes all the chunks, so a source is just a peer.      *)
(* task_done only feeds Queue.join, which nobody calls.                    *)
(***************************************************************************)
EXTENDS Integers, Sequences, FiniteSets

CONSTANTS
    Workers,      \* the threads of start_workers
    Peers,        \* nodes that can announce the file
    NoPeer,       \* "no source chosen"
    NbChunks,     \* manifest["nb_chunks"]
    MaxSources,   \* bound: entries of the list of sources
    MaxBad        \* bound: answers with wrong bytes

ASSUME SwarmAssumption ==
    /\ IsFiniteSet(Workers)
    /\ NoPeer \notin Peers
    /\ NbChunks \in Nat \ {0}
    /\ MaxSources \in Nat \ {0}
    /\ MaxBad \in Nat

VARIABLES
    state,       \* chunks_state
    data,        \* keys of chunks_data; only verified bytes are stored
    queue,       \* work_queue
    sources,     \* sources, in order of arrival
    completed,   \* completed (and not workers_running)
    pc,          \* where each worker is in _worker_loop and _finalize
    item,        \* chunk_idx of each worker while it is responsible for it
    src,         \* the source each worker has picked
    pos,         \* loop index of each worker in _finalize
    exists,      \* the output file exists
    onDisk,      \* chunks whose bytes the output file has at their place
    announced,   \* number of calls of on_complete
    diskFailed,  \* writing or reading back the file has raised an exception
    alive,       \* peers that answer requests
    bad          \* answers with wrong bytes so far

chunkVars == <<state, data, queue>>
fileVars  == <<pos, exists, onDisk, announced, diskFailed>>
jobVars   == <<item, src>>
peerVars  == <<sources, alive, bad>>
vars == <<chunkVars, fileVars, jobVars, peerVars, completed, pc>>

Chunks  == 0 .. NbChunks - 1
NoChunk == -1

ChunkState == {"pending", "downloading", "done", "error"}

\* Program points: the main loop, the life of a chunk, _finalize.
LoopPoints  == {"loop", "get", "empty", "stopped"}
ChunkPoints == {"got", "pick", "request", "requeueBad", "failed", "requeue"}
FilePoints  == {"finalize", "claim", "open", "write", "verify", "announce"}

\* Mutant: the chunks are numbered from 1.
InitialQueueFromOne == [i \in 1 .. NbChunks |-> i]

InitialQueue == [i \in 1 .. NbChunks |-> i - 1]

(* The swarm as start_workers leaves it: created from a manifest, with the *)
(* sender of the manifest as its first source.                             *)
Init ==
    /\ state = [c \in Chunks |-> "pending"]
    /\ data = {}
    /\ queue = InitialQueue
    /\ \E p \in Peers : sources = <<p>>
    /\ completed = FALSE
    /\ pc = [w \in Workers |-> "loop"]
    /\ item = [w \in Workers |-> NoChunk]
    /\ src = [w \in Workers |-> NoPeer]
    /\ pos = [w \in Workers |-> 0]
    /\ exists = FALSE
    /\ onDisk = {}
    /\ announced = 0
    /\ diskFailed = FALSE
    /\ alive = Peers
    /\ bad = 0

-----------------------------------------------------------------------------
Goto(w, point) == pc' = [pc EXCEPT ![w] = point]

SetState(w, s) == state' = [state EXCEPT ![item[w]] = s]

Put(w) == queue' = Append(queue, item[w])

\* The worker is done with its chunk and goes back to the top of the loop.
Release(w) ==
    /\ Goto(w, "loop")
    /\ item' = [item EXCEPT ![w] = NoChunk]
    /\ src' = [src EXCEPT ![w] = NoPeer]

(* The main loop.                                                          *)

\* Mutant: "while True".
ContinueAlways(w) ==
    /\ pc[w] = "loop"
    /\ Goto(w, "get")
    /\ UNCHANGED <<chunkVars, fileVars, jobVars, peerVars, completed>>

Continue(w) ==
    /\ pc[w] = "loop"
    /\ ~completed
    /\ Goto(w, "get")
    /\ UNCHANGED <<chunkVars, fileVars, jobVars, peerVars, completed>>

\* The check after the loop finalizes only if ~completed: it never does.
Leave(w) ==
    /\ pc[w] = "loop"
    /\ completed
    /\ Goto(w, "stopped")
    /\ UNCHANGED <<chunkVars, fileVars, jobVars, peerVars, completed>>

\* Mutant: the head of the queue is read but not removed.
TakeChunkPeeks(w) ==
    /\ pc[w] = "get"
    /\ queue # <<>>
    /\ item' = [item EXCEPT ![w] = Head(queue)]
    /\ Goto(w, "got")
    /\ UNCHANGED <<chunkVars, src, fileVars, peerVars, completed>>

TakeChunk(w) ==
    /\ pc[w] = "get"
    /\ queue # <<>>
    /\ item' = [item EXCEPT ![w] = Head(queue)]
    /\ queue' = Tail(queue)
    /\ Goto(w, "got")
    /\ UNCHANGED <<state, data, src, fileVars, peerVars, completed>>

\* work_queue.get(timeout=2) raises queue.Empty
QueueEmpty(w) ==
    /\ pc[w] = "get"
    /\ queue = <<>>
    /\ Goto(w, "empty")
    /\ UNCHANGED <<chunkVars, fileVars, jobVars, peerVars, completed>>

\* Mutant: done >= nb_chunks - 1.
AllDoneButOne ==
    Cardinality({c \in Chunks : state[c] = "done"}) >= NbChunks - 1

AllDone == \A c \in Chunks : state[c] = "done"

\* Mutant: an empty queue never finalizes, only the check after the loop does.
CheckAllDoneNever(w) ==
    /\ pc[w] = "empty"
    /\ Goto(w, "loop")
    /\ UNCHANGED <<chunkVars, fileVars, jobVars, peerVars, completed>>

CheckAllDone(w) ==
    /\ pc[w] = "empty"
    /\ Goto(w, IF AllDone THEN "finalize" ELSE "loop")
    /\ UNCHANGED <<chunkVars, fileVars, jobVars, peerVars, completed>>

-----------------------------------------------------------------------------
(* The life of a chunk in the hands of a worker.                           *)

SkipDone(w) ==
    /\ pc[w] = "got"
    /\ state[item[w]] = "done"
    /\ Release(w)
    /\ UNCHANGED <<chunkVars, fileVars, peerVars, completed>>

StartDownload(w) ==
    /\ pc[w] = "got"
    /\ state[item[w]] # "done"
    /\ SetState(w, "downloading")
    /\ Goto(w, "pick")
    /\ UNCHANGED <<data, queue, fileVars, jobVars, peerVars, completed>>

\* _pick_source: every source has every chunk, so the first is chosen.
PickSource(w) ==
    /\ pc[w] = "pick"
    /\ sources # <<>>
    /\ src' = [src EXCEPT ![w] = Head(sources)]
    /\ Goto(w, "request")
    /\ UNCHANGED <<chunkVars, item, fileVars, peerVars, completed>>

\* No connection, no answer within 10 s, an ERROR answer, an exception:
\* request_chunk_sync returns False.
RequestFails(w) ==
    /\ pc[w] = "request"
    /\ Goto(w, "failed")
    /\ UNCHANGED <<chunkVars, fileVars, jobVars, peerVars, completed>>

\* CHUNK_DATA with the right hash: receive_chunk stores it.
ReceiveGood(w) ==
    /\ pc[w] = "request"
    /\ src[w] \in alive
    /\ data' = data \union {item[w]}
    /\ SetState(w, "done")
    /\ Release(w)
    /\ UNCHANGED <<queue, fileVars, peerVars, completed>>

\* CHUNK_DATA with another hash (the source's file has changed since its
\* manifest): receive_chunk marks the chunk, ...
ReceiveBad(w) ==
    /\ pc[w] = "request"
    /\ src[w] \in alive
    /\ bad < MaxBad
    /\ bad' = bad + 1
    /\ SetState(w, "error")
    /\ Goto(w, "requeueBad")
    /\ UNCHANGED <<data, queue, jobVars, fileVars, sources, alive, completed>>

\* ... queues it again and returns False, so that the worker does it too.
RequeueBad(w) ==
    /\ pc[w] = "requeueBad"
    /\ Put(w)
    /\ Goto(w, "failed")
    /\ UNCHANGED <<state, data, jobVars, fileVars, peerVars, completed>>

MarkPending(w) ==
    /\ pc[w] = "failed"
    /\ SetState(w, "pending")
    /\ Goto(w, "requeue")
    /\ UNCHANGED <<data, queue, jobVars, fileVars, peerVars, completed>>

\* Mutant: a failed chunk is marked but not queued again.
RequeueForgotten(w) ==
    /\ pc[w] = "requeue"
    /\ Release(w)
    /\ UNCHANGED <<chunkVars, fileVars, peerVars, completed>>

Requeue(w) ==
    /\ pc[w] = "requeue"
    /\ Put(w)
    /\ Release(w)
    /\ UNCHANGED <<state, data, fileVars, peerVars, completed>>

-----------------------------------------------------------------------------
(* _finalize: the test and the assignment of `completed' are two steps.    *)

FinalizeCheck(w) ==
    /\ pc[w] = "finalize"
    /\ Goto(w, IF completed THEN "loop" ELSE "claim")
    /\ UNCHANGED <<chunkVars, fileVars, jobVars, peerVars, completed>>

\* Mutant: `completed' is left for the end of _finalize.
FinalizeClaimLater(w) ==
    /\ pc[w] = "claim"
    /\ Goto(w, "open")
    /\ UNCHANGED <<chunkVars, fileVars, jobVars, peerVars, completed>>

FinalizeClaim(w) ==
    /\ pc[w] = "claim"
    /\ completed' = TRUE
    /\ Goto(w, "open")
    /\ UNCHANGED <<chunkVars, fileVars, jobVars, peerVars>>

\* Mutant: the loop over the chunks starts at 1.
OpenFileFromOne(w) ==
    /\ pc[w] = "open"
    /\ exists' = TRUE
    /\ onDisk' = {}
    /\ pos' = [pos EXCEPT ![w] = 1]
    /\ Goto(w, "write")
    /\ UNCHANGED <<chunkVars, jobVars, peerVars, announced, diskFailed, completed>>

\* open(output_path, "wb") creates or truncates the file.
OpenFile(w) ==
    /\ pc[w] = "open"
    /\ exists' = TRUE
    /\ onDisk' = {}
    /\ pos' = [pos EXCEPT ![w] = 0]
    /\ Goto(w, "write")
    /\ UNCHANGED <<chunkVars, jobVars, peerVars, announced, diskFailed, completed>>

\* Mutant: the loop over the chunks stops one chunk early.
WriteChunkStopsEarly(w) ==
    /\ pc[w] = "write"
    /\ onDisk' = onDisk \union ({pos[w]} \intersect data)
    /\ pos' = [pos EXCEPT ![w] = @ + 1]
    /\ Goto(w, IF pos[w] + 2 >= NbChunks THEN "verify" ELSE "write")
    /\ UNCHANGED <<chunkVars, jobVars, peerVars>>
    /\ UNCHANGED <<exists, announced, diskFailed, completed>>

\* A write at this worker's own offset; a chunk without data is skipped.
WriteChunk(w) ==
    /\ pc[w] = "write"
    /\ onDisk' = onDisk \union ({pos[w]} \intersect data)
    /\ pos' = [pos EXCEPT ![w] = @ + 1]
    /\ Goto(w, IF pos[w] + 1 = NbChunks THEN "verify" ELSE "write")
    /\ UNCHANGED <<chunkVars, jobVars, peerVars>>
    /\ UNCHANGED <<exists, announced, diskFailed, completed>>

\* The SHA-256 of the file is the file_id exactly when every chunk is there.
VerifyFile(w) ==
    /\ pc[w] = "verify"
    /\ Goto(w, IF onDisk = Chunks THEN "announce" ELSE "loop")
    /\ UNCHANGED <<chunkVars, fileVars, jobVars, peerVars, completed>>

Announce(w) ==
    /\ pc[w] = "announce"
    /\ announced' = announced + 1
    /\ Goto(w, "loop")
    /\ UNCHANGED <<chunkVars, jobVars, peerVars>>
    /\ UNCHANGED <<pos, exists, onDisk, diskFailed, completed>>

\* makedirs, open, write or read raises (disk full, no permission): nothing
\* catches it, the thread ends and `completed' stays set.
DiskError(w) ==
    /\ pc[w] \in {"open", "write", "verify"}
    /\ diskFailed' = TRUE
    /\ Goto(w, "stopped")
    /\ UNCHANGED <<chunkVars, jobVars, peerVars>>
    /\ UNCHANGED <<pos, exists, onDisk, announced, completed>>

-----------------------------------------------------------------------------
(* The outside: another MANIFEST of the same file, a peer that goes away   *)
(* or comes back.                                                          *)

AddSource(p) ==
    /\ p \in alive
    /\ Len(sources) < MaxSources
    /\ sources' = Append(sources, p)
    /\ UNCHANGED <<chunkVars, fileVars, jobVars, alive, bad, completed, pc>>

PeerLeaves(p) ==
    /\ p \in alive
    /\ alive' = alive \ {p}
    /\ UNCHANGED <<chunkVars, fileVars, jobVars, sources, bad, completed, pc>>

PeerReturns(p) ==
    /\ p \notin alive
    /\ alive' = alive \union {p}
    /\ UNCHANGED <<chunkVars, fileVars, jobVars, sources, bad, completed, pc>>

ChunkStep(w) ==
    \/ SkipDone(w) \/ StartDownload(w) \/ PickSource(w)
    \/ RequestFails(w) \/ ReceiveGood(w) \/ ReceiveBad(w)
    \/ RequeueBad(w) \/ MarkPending(w) \/ Requeue(w)

FileStep(w) ==
    \/ FinalizeCheck(w) \/ FinalizeClaim(w) \/ OpenFile(w)
    \/ WriteChunk(w) \/ VerifyFile(w) \/ Announce(w)

WorkerStep(w) ==
    \/ Continue(w) \/ Leave(w) \/ TakeChunk(w) \/ QueueEmpty(w)
    \/ CheckAllDone(w)
    \/ ChunkStep(w)
    \/ FileStep(w)

\* All the threads have ended: the swarm has nothing left to do.
Terminated ==
    /\ \A w \in Workers : pc[w] = "stopped"
    /\ UNCHANGED vars

Next ==
    \/ \E w \in Workers : WorkerStep(w) \/ DiskError(w)
    \/ \E p \in Peers : AddSource(p) \/ PeerLeaves(p) \/ PeerReturns(p)
    \/ Terminated

Spec == Init /\ [][Next]_vars

(* A thread that can run is eventually scheduled; its waits are bounded by *)
(* timeouts (2 s on the queue, 10 s on the socket).  A source that stays   *)
(* up does not fail all the retries of a worker for ever.                  *)
Fairness ==
    /\ \A w \in Workers : WF_vars(WorkerStep(w))
    /\ \A w \in Workers : SF_vars(ReceiveGood(w))

FairSpec == Spec /\ Fairness

-----------------------------------------------------------------------------
(* Every variable keeps its type, and a worker is responsible for a chunk  *)
(* exactly while it is at one of the points between get and task_done.     *)
TypeOK ==
    /\ state \in [Chunks -> ChunkState]
    /\ data \subseteq Chunks
    /\ queue \in Seq(Chunks)
    /\ sources \in Seq(Peers) /\ sources # <<>>
    /\ completed \in BOOLEAN
    /\ pc \in [Workers -> LoopPoints \union ChunkPoints \union FilePoints]
    /\ item \in [Workers -> Chunks \union {NoChunk}]
    /\ src \in [Workers -> Peers \union {NoPeer}]
    /\ pos \in [Workers -> 0 .. NbChunks]
    /\ exists \in BOOLEAN
    /\ onDisk \subseteq Chunks
    /\ announced \in Nat
    /\ diskFailed \in BOOLEAN
    /\ alive \subseteq Peers
    /\ bad \in Nat
    /\ \A w \in Workers :
          /\ (item[w] \in Chunks) <=> (pc[w] \in ChunkPoints)
          /\ pc[w] = "write" => pos[w] \in Chunks

Queued(c) == \E i \in 1 .. Len(queue) : queue[i] = c

Held(c) == \E w \in Workers : item[w] = c

(* A chunk that is not done is in the queue or in the hands of a worker,   *)
(* whatever happens to the answers and however the workers overwrite each  *)
(* other's chunk states: no chunk is stranded and the download can always  *)
(* go on.                                                                  *)
NoChunkStranded ==
    \A c \in Chunks : state[c] # "done" => Queued(c) \/ Held(c)

(* _finalize never meets a missing chunk: whoever enters it, and ever      *)
(* after `completed' is set, the bytes of all the chunks are in memory,    *)
(* even if a late failure has put a done chunk back to "pending".          *)
FinalizeHasAll ==
    (completed \/ \E w \in Workers : pc[w] \in FilePoints) => data = Chunks

(* As long as the disk works, any gap in the file is ahead of some worker  *)
(* that is still writing: two workers that both enter _finalize and truncate each  *)
(* other's file do not leave a hole that nobody will fill.                 *)
GapHasWriter ==
    exists /\ ~diskFailed /\ onDisk # Chunks =>
        \E w \in Workers :
            /\ pc[w] = "write"
            /\ \A c \in Chunks \ onDisk : pos[w] <= c

(* When the download is complete and no worker is left in _finalize, the   *)
(* file on disk is whole and the user has been told so, even if several    *)
(* workers finalized at the same time and some of them read a file that    *)
(* another had just truncated.                                             *)
FinishedWhole ==
    completed /\ ~diskFailed /\ (\A w \in Workers : pc[w] \notin FilePoints) =>
        onDisk = Chunks /\ announced > 0

(* Every answer with wrong bytes leaves one entry more in circulation      *)
(* (receive_chunk and the worker both put the chunk back), and nothing     *)
(* else makes the queue grow.                                              *)
QueueGrowth ==
    Len(queue) + Cardinality({w \in Workers : item[w] # NoChunk})
        <= NbChunks + bad

D == INSTANCE Download WITH
        stored <- data, complete <- completed, announced <- announced > 0

(* The threads implement the promise of module Download.                   *)
ImplementsDownload == D!Spec

(* A worker gives up only when the download is complete: neither failed    *)
(* requests nor an empty queue end its thread.                             *)
StoppedIsComplete ==
    \A w \in Workers : pc[w] = "stopped" => completed

(* If the first source is up in the end, after any absences, and the disk  *)
(* works, the user is eventually told that the file is saved.              *)
DownloadCompletes ==
    []~diskFailed /\ <>[](Head(sources) \in alive) => <>(announced > 0)

(* Once the download is complete every worker ends, those that still wait  *)
(* for an answer included.                                                 *)
WorkersStop ==
    completed ~> \A w \in Workers : pc[w] = "stopped"

-----------------------------------------------------------------------------
(* What the code's texts say and the code does not do.                     *)

(* "[OK] Fichier sauvegarde" (file_transfer.py, _on_download_complete):    *)
(* once it is printed the file on disk is the one of the manifest.         *)
AnnouncedFileIntact == announced > 0 => onDisk = Chunks

(* "télécharge les chunks en parallèle depuis plusieurs pairs"             *)
(* (torrent.py): while one of the sources is up, the download completes.   *)
AnySourceSuffices ==
    [](~diskFailed /\ \E i \in DOMAIN sources : sources[i] \in alive)
        => <>(announced > 0)
=============================================================================
