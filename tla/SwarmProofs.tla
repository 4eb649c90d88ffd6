----------------------------- MODULE SwarmProofs ----------------------------
(***************************************************************************)
(* Proofs about module Swarm, for any number of workers, peers and chunks. *)
(***************************************************************************)
EXTENDS Swarm, FiniteSetTheorems, TLAPS

(* The chunk indices are 0 .. NbChunks - 1; NoChunk is none of them.        *)
LEMMA ChunkFacts ==
    /\ 0 \in Chunks
    /\ NoChunk \notin Chunks
    /\ \A c \in Chunks : c \in 0 .. NbChunks /\ c + 1 \in 0 .. NbChunks
    /\ \A c \in Chunks : c + 1 # NbChunks => c + 1 \in Chunks
BY SwarmAssumption DEF Chunks, NoChunk

(* Every variable of the swarm keeps its type.                             *)
THEOREM TypeCorrect == Spec => []TypeOK
<1>1. Init => TypeOK
  <2> SUFFICES ASSUME Init PROVE TypeOK
    OBVIOUS
  <2>1. queue \in Seq(Chunks)
    BY SwarmAssumption DEF Init, InitialQueue, Chunks
  <2>2. sources \in Seq(Peers) /\ sources # <<>>
    BY DEF Init
  <2>3. state \in [Chunks -> ChunkState] /\ pos \in [Workers -> 0 .. NbChunks]
    BY SwarmAssumption DEF Init, ChunkState
  <2>4. \A w \in Workers : item[w] = NoChunk /\ pc[w] = "loop"
    BY DEF Init
  <2> QED
    BY <2>1, <2>2, <2>3, <2>4, ChunkFacts
    DEF Init, TypeOK, LoopPoints, ChunkPoints
<1>2. TypeOK /\ [Next]_vars => TypeOK'
  <2> SUFFICES ASSUME TypeOK, [Next]_vars PROVE TypeOK'
    OBVIOUS
  <2> USE DEF TypeOK, ChunkState, LoopPoints, ChunkPoints, FilePoints
  <2>1. ASSUME NEW w \in Workers, Continue(w) PROVE TypeOK'
    BY <2>1, SwarmAssumption
    DEF Continue, Goto, chunkVars, fileVars, jobVars, peerVars
  <2>2. ASSUME NEW w \in Workers, Leave(w) PROVE TypeOK'
    BY <2>2, SwarmAssumption
    DEF Leave, Goto, chunkVars, fileVars, jobVars, peerVars
  <2>3. ASSUME NEW w \in Workers, TakeChunk(w) PROVE TypeOK'
    BY <2>3, SwarmAssumption
    DEF TakeChunk, Goto, chunkVars, fileVars, jobVars, peerVars
  <2>4. ASSUME NEW w \in Workers, QueueEmpty(w) PROVE TypeOK'
    BY <2>4, SwarmAssumption
    DEF QueueEmpty, Goto, chunkVars, fileVars, jobVars, peerVars
  <2>5. ASSUME NEW w \in Workers, CheckAllDone(w) PROVE TypeOK'
    BY <2>5, SwarmAssumption
    DEF CheckAllDone, Goto, chunkVars, fileVars, jobVars, peerVars
  <2>6. ASSUME NEW w \in Workers, SkipDone(w) PROVE TypeOK'
    BY <2>6, ChunkFacts
    DEF SkipDone, Goto, Release, chunkVars, fileVars, jobVars, peerVars
  <2>7. ASSUME NEW w \in Workers, StartDownload(w) PROVE TypeOK'
    BY <2>7, SwarmAssumption
    DEF StartDownload, Goto, SetState, chunkVars, fileVars, jobVars, peerVars
  <2>8. ASSUME NEW w \in Workers, PickSource(w) PROVE TypeOK'
    BY <2>8, SwarmAssumption
    DEF PickSource, Goto, chunkVars, fileVars, jobVars, peerVars
  <2>9. ASSUME NEW w \in Workers, RequestFails(w) PROVE TypeOK'
    BY <2>9, SwarmAssumption
    DEF RequestFails, Goto, chunkVars, fileVars, jobVars, peerVars
  <2>10. ASSUME NEW w \in Workers, ReceiveGood(w) PROVE TypeOK'
    BY <2>10, ChunkFacts
    DEF ReceiveGood, Goto, SetState, Release, chunkVars, fileVars, jobVars, peerVars
  <2>11. ASSUME NEW w \in Workers, ReceiveBad(w) PROVE TypeOK'
    BY <2>11, SwarmAssumption
    DEF ReceiveBad, Goto, SetState, chunkVars, fileVars, jobVars, peerVars
  <2>12. ASSUME NEW w \in Workers, RequeueBad(w) PROVE TypeOK'
    BY <2>12, SwarmAssumption
    DEF RequeueBad, Goto, Put, chunkVars, fileVars, jobVars, peerVars
  <2>13. ASSUME NEW w \in Workers, MarkPending(w) PROVE TypeOK'
    BY <2>13, SwarmAssumption
    DEF MarkPending, Goto, SetState, chunkVars, fileVars, jobVars, peerVars
  <2>14. ASSUME NEW w \in Workers, Requeue(w) PROVE TypeOK'
    BY <2>14, ChunkFacts
    DEF Requeue, Goto, Put, Release, chunkVars, fileVars, jobVars, peerVars
  <2>15. ASSUME NEW w \in Workers, FinalizeCheck(w) PROVE TypeOK'
    BY <2>15, SwarmAssumption
    DEF FinalizeCheck, Goto, chunkVars, fileVars, jobVars, peerVars
  <2>16. ASSUME NEW w \in Workers, FinalizeClaim(w) PROVE TypeOK'
    BY <2>16, SwarmAssumption
    DEF FinalizeClaim, Goto, chunkVars, fileVars, jobVars, peerVars
  <2>17. ASSUME NEW w \in Workers, OpenFile(w) PROVE TypeOK'
    BY <2>17, ChunkFacts, SwarmAssumption
    DEF OpenFile, Goto, chunkVars, fileVars, jobVars, peerVars
  <2>18. ASSUME NEW w \in Workers, WriteChunk(w) PROVE TypeOK'
    BY <2>18, ChunkFacts, SwarmAssumption
    DEF WriteChunk, Goto, chunkVars, fileVars, jobVars, peerVars
  <2>19. ASSUME NEW w \in Workers, VerifyFile(w) PROVE TypeOK'
    BY <2>19, SwarmAssumption
    DEF VerifyFile, Goto, chunkVars, fileVars, jobVars, peerVars
  <2>20. ASSUME NEW w \in Workers, Announce(w) PROVE TypeOK'
    BY <2>20, SwarmAssumption
    DEF Announce, Goto, chunkVars, fileVars, jobVars, peerVars
  <2>21. ASSUME NEW w \in Workers, DiskError(w) PROVE TypeOK'
    BY <2>21, SwarmAssumption
    DEF DiskError, Goto, chunkVars, fileVars, jobVars, peerVars
  <2>22. ASSUME NEW p \in Peers, AddSource(p) PROVE TypeOK'
    BY <2>22 DEF AddSource, chunkVars, fileVars, jobVars
  <2>23. ASSUME NEW p \in Peers, PeerLeaves(p) \/ PeerReturns(p) PROVE TypeOK'
    BY <2>23 DEF PeerLeaves, PeerReturns, chunkVars, fileVars, jobVars
  <2>24. CASE UNCHANGED vars
    BY <2>24 DEF vars, chunkVars, fileVars, jobVars, peerVars
  <2> QED
    BY <2>1, <2>2, <2>3, <2>4, <2>5, <2>6, <2>7, <2>8, <2>9, <2>10, <2>11, <2>12, <2>13, <2>14, <2>15, <2>16, <2>17, <2>18, <2>19, <2>20, <2>21, <2>22, <2>23, <2>24
    DEF Next, WorkerStep, ChunkStep, FileStep, Terminated
<1> QED
  BY <1>1, <1>2, PTL DEF Spec
-----------------------------------------------------------------------------
(* What is in the work queue after a put and after a get.                  *)
LEMMA PutQueues ==
    ASSUME NEW q \in Seq(Chunks), NEW d \in Chunks
    PROVE  /\ \E i \in 1 .. Len(Append(q, d)) : Append(q, d)[i] = d
           /\ \A i \in 1 .. Len(q) :
                  /\ i \in 1 .. Len(Append(q, d))
                  /\ Append(q, d)[i] = q[i]
OBVIOUS

LEMMA GetKeeps ==
    ASSUME NEW q \in Seq(Chunks), q # <<>>,
           NEW i \in 1 .. Len(q), i # 1
    PROVE  /\ i - 1 \in 1 .. Len(Tail(q))
           /\ Tail(q)[i - 1] = q[i]
OBVIOUS

(* No chunk is stranded: one that is not done is queued or held.           *)
THEOREM NothingStranded == Spec => []NoChunkStranded
<1>1. Init => NoChunkStranded
  <2> SUFFICES ASSUME Init, NEW c \in Chunks PROVE Queued(c)
    BY DEF NoChunkStranded
  <2>1. c + 1 \in 1 .. NbChunks /\ c \in Int
    BY SwarmAssumption DEF Chunks
  <2>2. queue = [i \in 1 .. NbChunks |-> i - 1] /\ Len(queue) = NbChunks
    BY SwarmAssumption DEF Init, InitialQueue
  <2>3. [i \in 1 .. NbChunks |-> i - 1][c + 1] = c
    BY <2>1
  <2> QED
    BY <2>1, <2>2, <2>3 DEF Queued
<1>2. TypeOK /\ NoChunkStranded /\ [Next]_vars => NoChunkStranded'
  <2> SUFFICES ASSUME TypeOK, NoChunkStranded, [Next]_vars
               PROVE  NoChunkStranded'
    OBVIOUS
  <2>1. ASSUME UNCHANGED <<state, queue, item>>
        PROVE  NoChunkStranded'
    BY <2>1 DEF NoChunkStranded, Queued, Held
  <2>2. ASSUME NEW w \in Workers, TakeChunk(w)
        PROVE  NoChunkStranded'
    <3> SUFFICES ASSUME NEW c \in Chunks, state'[c] # "done"
                 PROVE  Queued(c)' \/ Held(c)'
      BY DEF NoChunkStranded
    <3>1. /\ item[w] \notin Chunks
          /\ item' = [item EXCEPT ![w] = Head(queue)]
          /\ queue # <<>> /\ queue' = Tail(queue)
          /\ state' = state
      BY <2>2 DEF TakeChunk, TypeOK, ChunkPoints
    <3>2. CASE Held(c)
      BY <3>1, <3>2 DEF Held, TypeOK
    <3>3. CASE Queued(c)
      <4>1. PICK i \in 1 .. Len(queue) : queue[i] = c
        BY <3>3 DEF Queued
      <4>2. CASE i = 1
        BY <3>1, <4>1, <4>2 DEF Held, TypeOK
      <4>3. CASE i # 1
        BY <3>1, <4>1, <4>3, GetKeeps DEF Queued, TypeOK
      <4> QED
        BY <4>2, <4>3
    <3> QED
      BY <3>1, <3>2, <3>3 DEF NoChunkStranded
  <2>3. ASSUME NEW w \in Workers, UNCHANGED <<queue, item>>,
               pc[w] \in ChunkPoints, NEW s, SetState(w, s)
        PROVE  NoChunkStranded'
    <3> SUFFICES ASSUME NEW c \in Chunks, state'[c] # "done"
                 PROVE  Queued(c)' \/ Held(c)'
      BY DEF NoChunkStranded
    <3>1. CASE c = item[w]
      BY <2>3, <3>1 DEF Held
    <3>2. CASE c # item[w]
      BY <2>3, <3>2 DEF SetState, NoChunkStranded, Queued, Held, TypeOK
    <3> QED
      BY <3>1, <3>2
  <2>4. ASSUME NEW w \in Workers, SkipDone(w) \/ ReceiveGood(w)
        PROVE  NoChunkStranded'
    <3> SUFFICES ASSUME NEW c \in Chunks, state'[c] # "done"
                 PROVE  Queued(c)' \/ Held(c)'
      BY DEF NoChunkStranded
    <3>1. /\ queue' = queue
          /\ item' = [item EXCEPT ![w] = NoChunk]
          /\ c # item[w] /\ state[c] # "done"
      BY <2>4 DEF SkipDone, ReceiveGood, SetState, Release, chunkVars, TypeOK
    <3> QED
      BY <3>1 DEF NoChunkStranded, Queued, Held, TypeOK
  <2>5. ASSUME NEW w \in Workers, RequeueBad(w) \/ Requeue(w)
        PROVE  NoChunkStranded'
    <3> SUFFICES ASSUME NEW c \in Chunks, state'[c] # "done"
                 PROVE  Queued(c)' \/ Held(c)'
      BY DEF NoChunkStranded
    <3>1. /\ item[w] \in Chunks
          /\ queue' = Append(queue, item[w]) /\ state' = state
          /\ \A v \in Workers : v # w => item'[v] = item[v]
      BY <2>5
      DEF RequeueBad, Requeue, Put, Release, jobVars, TypeOK, ChunkPoints
    <3>2. CASE c = item[w]
      BY <3>1, <3>2, PutQueues DEF Queued, TypeOK
    <3>3. CASE Queued(c)
      BY <3>1, <3>3, PutQueues DEF Queued, TypeOK
    <3>4. CASE Held(c) /\ c # item[w]
      BY <3>1, <3>4 DEF Held
    <3> QED
      BY <3>1, <3>2, <3>3, <3>4 DEF NoChunkStranded
  <2>6. ASSUME NEW w \in Workers, WorkerStep(w)
        PROVE  NoChunkStranded'
    <3>1. CASE ChunkStep(w)
      <4>1. CASE StartDownload(w)
        BY <4>1, <2>3 DEF StartDownload, ChunkPoints, jobVars
      <4>2. CASE ReceiveBad(w)
        BY <4>2, <2>3 DEF ReceiveBad, ChunkPoints, jobVars
      <4>3. CASE MarkPending(w)
        BY <4>3, <2>3 DEF MarkPending, ChunkPoints, jobVars
      <4>4. CASE PickSource(w) \/ RequestFails(w)
        BY <4>4, <2>1 DEF PickSource, RequestFails, chunkVars, jobVars
      <4> QED
        BY <3>1, <4>1, <4>2, <4>3, <4>4, <2>4, <2>5 DEF ChunkStep
    <3>2. CASE FileStep(w)
      BY <3>2, <2>1
      DEF FileStep, FinalizeCheck, FinalizeClaim, OpenFile, WriteChunk,
          VerifyFile, Announce, chunkVars, jobVars
    <3>3. CASE Continue(w) \/ Leave(w) \/ QueueEmpty(w) \/ CheckAllDone(w)
      BY <3>3, <2>1
      DEF Continue, Leave, QueueEmpty, CheckAllDone, chunkVars, jobVars
    <3> QED
      BY <2>6, <2>2, <3>1, <3>2, <3>3 DEF WorkerStep
  <2>7. CASE UNCHANGED vars
    BY <2>7, <2>1 DEF vars, chunkVars, jobVars
  <2>8. ASSUME NEW w \in Workers, DiskError(w)
        PROVE  NoChunkStranded'
    BY <2>8, <2>1 DEF DiskError, chunkVars, jobVars
  <2>9. ASSUME NEW p \in Peers, AddSource(p) \/ PeerLeaves(p) \/ PeerReturns(p)
        PROVE  NoChunkStranded'
    BY <2>9, <2>1 DEF AddSource, PeerLeaves, PeerReturns, chunkVars, jobVars
  <2> QED
    BY <2>6, <2>7, <2>8, <2>9 DEF Next, Terminated
<1> QED
  BY <1>1, <1>2, TypeCorrect, PTL DEF Spec
-----------------------------------------------------------------------------
(* A chunk marked "done" has its bytes in memory: receive_chunk sets both   *)
(* under the lock, and the late failures only take the mark away.          *)
DoneStored == \A c \in Chunks : state[c] = "done" => c \in data

(* No chunk is missing when the file is put together.                      *)
THEOREM NothingMissing == Spec => []FinalizeHasAll
<1> DEFINE Inv == DoneStored /\ FinalizeHasAll
<1>1. Init => Inv
  <2> SUFFICES ASSUME Init PROVE Inv
    OBVIOUS
  <2>1. \A c \in Chunks : state[c] # "done"
    BY DEF Init
  <2>2. ~completed /\ \A w \in Workers : pc[w] \notin FilePoints
    BY DEF Init, FilePoints
  <2> QED
    BY <2>1, <2>2 DEF DoneStored, FinalizeHasAll
<1>2. TypeOK /\ TypeOK' /\ Inv /\ [Next]_vars => Inv'
  <2> SUFFICES ASSUME TypeOK, TypeOK', Inv, [Next]_vars
               PROVE  Inv'
    OBVIOUS
  <2> USE DEF DoneStored, FinalizeHasAll, FilePoints
  <2>1. ASSUME UNCHANGED <<state, data, completed>>,
               \A w \in Workers : pc'[w] \in FilePoints => pc[w] \in FilePoints
        PROVE  Inv'
    BY <2>1
  <2>2. ASSUME NEW w \in Workers, CheckAllDone(w)
        PROVE  Inv'
    <3>1. CASE AllDone
      <4>1. data = Chunks
        BY <3>1 DEF AllDone, TypeOK
      <4> QED
        BY <4>1, <2>2 DEF CheckAllDone, chunkVars
    <3>2. CASE ~AllDone
      BY <3>2, <2>2, <2>1 DEF CheckAllDone, Goto, chunkVars, TypeOK
    <3> QED
      BY <3>1, <3>2
  <2>3. ASSUME NEW w \in Workers, ReceiveGood(w)
        PROVE  Inv'
    <3>1. data \subseteq data' /\ data' \subseteq Chunks
      BY <2>3 DEF ReceiveGood, TypeOK
    <3>2. DoneStored'
      BY <2>3 DEF ReceiveGood, SetState, TypeOK
    <3>3. FinalizeHasAll'
      BY <2>3, <3>1 DEF ReceiveGood, Release, Goto, TypeOK
    <3> QED
      BY <3>2, <3>3
  <2>4. ASSUME NEW w \in Workers, NEW s, s # "done", SetState(w, s),
               UNCHANGED <<data, completed>>, NEW point, Goto(w, point),
               point \notin FilePoints
        PROVE  Inv'
    <3>1. DoneStored'
      BY <2>4 DEF SetState, TypeOK
    <3>2. FinalizeHasAll'
      BY <2>4 DEF Goto, TypeOK
    <3> QED
      BY <3>1, <3>2
  <2>5. ASSUME NEW w \in Workers, StartDownload(w) \/ ReceiveBad(w) \/ MarkPending(w)
        PROVE  Inv'
    <3>1. CASE StartDownload(w)
      BY <3>1, <2>4 DEF StartDownload
    <3>2. CASE ReceiveBad(w)
      BY <3>2, <2>4 DEF ReceiveBad
    <3>3. CASE MarkPending(w)
      BY <3>3, <2>4 DEF MarkPending
    <3> QED
      BY <2>5, <3>1, <3>2, <3>3
  <2>6. ASSUME NEW w \in Workers, FinalizeClaim(w)
        PROVE  Inv'
    BY <2>6 DEF FinalizeClaim, Goto, chunkVars, TypeOK
  <2>7. ASSUME NEW w \in Workers,
               \/ Continue(w) \/ Leave(w) \/ TakeChunk(w) \/ QueueEmpty(w)
               \/ SkipDone(w) \/ PickSource(w) \/ RequestFails(w)
               \/ RequeueBad(w) \/ Requeue(w)
        PROVE  Inv'
    BY <2>7, <2>1
    DEF Continue, Leave, TakeChunk, QueueEmpty, SkipDone, PickSource,
        RequestFails, RequeueBad, Requeue, Release, Goto, chunkVars, TypeOK
  <2>8. ASSUME NEW w \in Workers,
               \/ FinalizeCheck(w) \/ OpenFile(w) \/ WriteChunk(w)
               \/ VerifyFile(w) \/ Announce(w) \/ DiskError(w)
        PROVE  Inv'
    BY <2>8, <2>1
    DEF FinalizeCheck, OpenFile, WriteChunk, VerifyFile, Announce,
        DiskError, Goto, chunkVars, TypeOK
  <2>9. ASSUME NEW p \in Peers, AddSource(p) \/ PeerLeaves(p) \/ PeerReturns(p)
        PROVE  Inv'
    BY <2>9, <2>1 DEF AddSource, PeerLeaves, PeerReturns, chunkVars
  <2>10. CASE UNCHANGED vars
    BY <2>10, <2>1 DEF vars, chunkVars
  <2> QED
    BY <2>2, <2>3, <2>5, <2>6, <2>7, <2>8, <2>9, <2>10
    DEF Next, WorkerStep, ChunkStep, FileStep, Terminated
<1> QED
  BY <1>1, <1>2, TypeCorrect, PTL DEF Spec
-----------------------------------------------------------------------------
(* A thread that prepares the file has claimed the completion, and the     *)
(* file exists from its opening on.                                        *)
ClaimInv ==
    /\ \A w \in Workers :
          /\ pc[w] \in {"open", "write", "verify", "announce"} => completed
          /\ pc[w] \in {"write", "verify", "announce"} => exists
    /\ announced > 0 => completed /\ exists

(* Once the completion is claimed somebody will announce it, or has.       *)
AnnounceInv ==
    completed /\ ~diskFailed =>
        \/ announced > 0
        \/ \E w \in Workers :
              \/ pc[w] \in {"open", "write", "announce"}
              \/ pc[w] = "verify" /\ onDisk = Chunks

FileInv == ClaimInv /\ GapHasWriter /\ AnnounceInv

(* The steps that touch neither the file nor the part of pc that is about   *)
(* it leave the invariant of the file alone.                               *)
LEMMA FileUntouched ==
    ASSUME FileInv,
           UNCHANGED <<completed, exists, onDisk, announced, diskFailed, pos>>,
           \A w \in Workers : \/ pc'[w] = pc[w]
                              \/ /\ pc[w] \notin FilePoints
                                 /\ pc'[w] \notin {"open", "write", "verify", "announce"}
                              \/ /\ pc[w] \in {"finalize", "claim"}
                                 /\ pc'[w] \in {"loop", "claim"}
    PROVE  FileInv'
<1>1. ClaimInv'
  BY DEF FileInv, ClaimInv
<1>2. GapHasWriter'
  BY DEF FileInv, GapHasWriter, FilePoints
<1>3. AnnounceInv'
  BY DEF FileInv, AnnounceInv, FilePoints
<1> QED
  BY <1>1, <1>2, <1>3 DEF FileInv

(* The steps of a thread that writes, verifies and announces the file.     *)
LEMMA FileSteps ==
    ASSUME TypeOK, FinalizeHasAll, FileInv, NEW w \in Workers,
           \/ FinalizeClaim(w) \/ OpenFile(w) \/ WriteChunk(w)
           \/ VerifyFile(w) \/ Announce(w) \/ DiskError(w)
    PROVE  FileInv'
<1> USE DEF FileInv
<1>1. CASE FinalizeClaim(w)
  <2> USE <1>1 DEF FinalizeClaim, Goto, fileVars, TypeOK
  <2>1. ClaimInv'
    BY DEF ClaimInv
  <2>2. GapHasWriter'
    BY DEF GapHasWriter
  <2>3. pc'[w] = "open"
    OBVIOUS
  <2> QED
    BY <2>1, <2>2, <2>3 DEF AnnounceInv
<1>2. CASE OpenFile(w)
  <2> USE <1>2 DEF OpenFile, Goto, TypeOK
  <2>1. ClaimInv'
    BY DEF ClaimInv
  <2>2. pc'[w] = "write" /\ pos'[w] = 0
    OBVIOUS
  <2>3. GapHasWriter'
    BY <2>2 DEF GapHasWriter, Chunks
  <2> QED
    BY <2>1, <2>2, <2>3 DEF AnnounceInv
<1>3. CASE WriteChunk(w)
  <2> USE DEF TypeOK
  <2>1. /\ pc[w] = "write" /\ pos[w] \in Chunks /\ data = Chunks
        /\ onDisk' = onDisk \union {pos[w]} /\ onDisk' \subseteq Chunks
        /\ UNCHANGED <<exists, announced, diskFailed, completed>>
    BY <1>3 DEF WriteChunk, FinalizeHasAll, FilePoints
  <2>2. /\ pos' = [pos EXCEPT ![w] = @ + 1]
        /\ pc' = [pc EXCEPT ![w] = IF pos[w] + 1 = NbChunks THEN "verify" ELSE "write"]
    BY <1>3 DEF WriteChunk, Goto
  <2>3. ClaimInv'
    BY <2>1, <2>2 DEF ClaimInv
  <2>4. GapHasWriter'
    <3> SUFFICES ASSUME exists, ~diskFailed, onDisk' # Chunks
                 PROVE  \E v \in Workers :
                            /\ pc'[v] = "write"
                            /\ \A c \in Chunks \ onDisk' : pos'[v] <= c
      BY <2>1 DEF GapHasWriter
    <3>1. PICK v \in Workers : /\ pc[v] = "write"
                               /\ \A c \in Chunks \ onDisk : pos[v] <= c
      BY <2>1 DEF GapHasWriter
    <3>2. CASE v # w
      BY <2>1, <2>2, <3>1, <3>2
    <3>3. CASE v = w
      <4>1. \A c \in Chunks \ onDisk' : pos[w] + 1 <= c
        BY <2>1, <3>1, <3>3 DEF Chunks
      <4>2. pos[w] + 1 # NbChunks
        BY <2>1, <4>1, SwarmAssumption DEF Chunks
      <4> QED
        BY <2>2, <4>1, <4>2
    <3> QED
      BY <3>2, <3>3
  <2>5. AnnounceInv'
    <3> SUFFICES ASSUME completed, ~diskFailed, ~(announced > 0)
                 PROVE  \E v \in Workers :
                            \/ pc'[v] = "write"
                            \/ pc'[v] = "verify" /\ onDisk' = Chunks
      BY <2>1 DEF AnnounceInv
    <3>1. CASE onDisk' = Chunks
      BY <2>2, <3>1
    <3>2. CASE onDisk' # Chunks
      BY <2>1, <2>4, <3>2 DEF GapHasWriter, ClaimInv
    <3> QED
      BY <3>1, <3>2
  <2> QED
    BY <2>3, <2>4, <2>5
<1>4. CASE VerifyFile(w)
  <2> USE <1>4 DEF VerifyFile, Goto, fileVars, TypeOK
  <2>1. ClaimInv'
    BY DEF ClaimInv
  <2>2. GapHasWriter'
    BY DEF GapHasWriter
  <2>3. AnnounceInv'
    BY DEF AnnounceInv
  <2> QED
    BY <2>1, <2>2, <2>3
<1>5. CASE Announce(w)
  <2> USE <1>5 DEF Announce, Goto, TypeOK
  <2>1. ClaimInv'
    BY DEF ClaimInv
  <2>2. GapHasWriter'
    BY DEF GapHasWriter
  <2>3. AnnounceInv'
    BY DEF AnnounceInv
  <2> QED
    BY <2>1, <2>2, <2>3
<1>6. CASE DiskError(w)
  <2>1. ClaimInv'
    BY <1>6 DEF ClaimInv, DiskError, Goto, TypeOK
  <2> QED
    BY <1>6, <2>1 DEF DiskError, GapHasWriter, AnnounceInv
<1> QED
  BY <1>1, <1>2, <1>3, <1>4, <1>5, <1>6

LEMMA FileSafe == Spec => []FileInv
<1>1. Init => FileInv
  BY DEF Init, FileInv, ClaimInv, GapHasWriter, AnnounceInv
<1>2. TypeOK /\ FinalizeHasAll /\ FileInv /\ [Next]_vars => FileInv'
  <2> SUFFICES ASSUME TypeOK, FinalizeHasAll, FileInv, [Next]_vars
               PROVE  FileInv'
    OBVIOUS
  <2> USE DEF fileVars, FilePoints, TypeOK
  <2>1. ASSUME NEW w \in Workers, ChunkStep(w)
        PROVE  FileInv'
    BY <2>1, FileUntouched
    DEF ChunkStep, SkipDone, StartDownload, PickSource, RequestFails,
        ReceiveGood, ReceiveBad, RequeueBad, MarkPending, Requeue, Release, Goto
  <2>2. ASSUME NEW w \in Workers,
               \/ Continue(w) \/ Leave(w) \/ TakeChunk(w) \/ QueueEmpty(w)
               \/ CheckAllDone(w) \/ FinalizeCheck(w)
        PROVE  FileInv'
    BY <2>2, FileUntouched
    DEF Continue, Leave, TakeChunk, QueueEmpty, CheckAllDone, FinalizeCheck, Goto
  <2>3. ASSUME NEW p \in Peers, AddSource(p) \/ PeerLeaves(p) \/ PeerReturns(p)
        PROVE  FileInv'
    BY <2>3, FileUntouched DEF AddSource, PeerLeaves, PeerReturns
  <2>4. CASE UNCHANGED vars
    BY <2>4, FileUntouched DEF vars
  <2> QED
    BY <2>1, <2>2, <2>3, <2>4, FileSteps
    DEF Next, WorkerStep, FileStep, Terminated
<1> QED
  BY <1>1, <1>2, TypeCorrect, NothingMissing, PTL DEF Spec

(* As long as the disk works, a gap in the file has its writer.            *)
THEOREM GapsGetFilled == Spec => []GapHasWriter
<1>1. FileInv => GapHasWriter
  BY DEF FileInv
<1> QED
  BY <1>1, FileSafe, PTL

(* However the threads interleave in _finalize, when the last of them has  *)
(* left it the file is whole and the user has been told.                   *)
THEOREM WholeInTheEnd == Spec => []FinishedWhole
<1>1. FileInv => FinishedWhole
  BY DEF FileInv, ClaimInv, GapHasWriter, AnnounceInv, FinishedWhole, FilePoints
<1> QED
  BY <1>1, FileSafe, PTL
-----------------------------------------------------------------------------
(* The threads implement module Download: every step stores a chunk,       *)
(* completes, announces, or changes nothing the user can see.              *)
THEOREM Refinement == Spec => ImplementsDownload
<1>1. Init => D!Init
  BY DEF Init, D!Init
<1>2. TypeOK /\ FinalizeHasAll /\ FileInv /\ [Next]_vars => [D!Next]_(D!vars)
  <2> SUFFICES ASSUME TypeOK, FinalizeHasAll, FileInv, [Next]_vars
               PROVE  [D!Next]_(D!vars)
    OBVIOUS
  <2> USE DEF D!Next, D!vars
  <2>1. ASSUME UNCHANGED <<data, completed, announced>>
        PROVE  UNCHANGED D!vars
    BY <2>1
  <2>2. ASSUME NEW w \in Workers, ReceiveGood(w)
        PROVE  D!Next
    <3>1. D!Store(item[w])
      BY <2>2 DEF ReceiveGood, fileVars, D!Store
    <3>2. item[w] \in Chunks
      BY <2>2 DEF ReceiveGood, TypeOK, ChunkPoints
    <3> QED
      BY <3>1, <3>2
  <2>3. ASSUME NEW w \in Workers, FinalizeClaim(w)
        PROVE  D!Next
    <3>1. D!Complete
      BY <2>3 DEF FinalizeClaim, FinalizeHasAll, FilePoints, chunkVars,
                  fileVars, D!Complete
    <3> QED
      BY <3>1
  <2>4. ASSUME NEW w \in Workers, Announce(w)
        PROVE  D!Next
    <3>1. D!Announce
      BY <2>4 DEF Announce, TypeOK, FileInv, ClaimInv, chunkVars, D!Announce
    <3> QED
      BY <3>1
  <2>5. ASSUME NEW w \in Workers,
               \/ Continue(w) \/ Leave(w) \/ TakeChunk(w) \/ QueueEmpty(w)
               \/ CheckAllDone(w) \/ SkipDone(w) \/ StartDownload(w)
               \/ PickSource(w) \/ RequestFails(w) \/ ReceiveBad(w)
               \/ RequeueBad(w) \/ MarkPending(w) \/ Requeue(w)
        PROVE  UNCHANGED D!vars
    BY <2>5, <2>1
    DEF Continue, Leave, TakeChunk, QueueEmpty, CheckAllDone, SkipDone,
        StartDownload, PickSource, RequestFails, ReceiveBad, RequeueBad,
        MarkPending, Requeue, chunkVars, fileVars
  <2>6. ASSUME NEW w \in Workers,
               \/ FinalizeCheck(w) \/ OpenFile(w) \/ WriteChunk(w)
               \/ VerifyFile(w) \/ DiskError(w)
        PROVE  UNCHANGED D!vars
    BY <2>6, <2>1
    DEF FinalizeCheck, OpenFile, WriteChunk, VerifyFile, DiskError,
        chunkVars, fileVars
  <2>7. ASSUME NEW p \in Peers, AddSource(p) \/ PeerLeaves(p) \/ PeerReturns(p)
        PROVE  UNCHANGED D!vars
    BY <2>7, <2>1 DEF AddSource, PeerLeaves, PeerReturns, chunkVars, fileVars
  <2>8. CASE UNCHANGED vars
    BY <2>8, <2>1 DEF vars, chunkVars, fileVars
  <2> QED
    BY <2>2, <2>3, <2>4, <2>5, <2>6, <2>7, <2>8
    DEF Next, WorkerStep, ChunkStep, FileStep, Terminated
<1> QED
  BY <1>1, <1>2, TypeCorrect, NothingMissing, FileSafe, PTL
  DEF Spec, ImplementsDownload, D!Spec
-----------------------------------------------------------------------------
(* The entries of the queue in circulation.  A worker that has received     *)
(* wrong bytes and not yet queued the chunk will add an entry.              *)
Holding  == {w \in Workers : item[w] # NoChunk}
Doubling == {w \in Workers : pc[w] = "requeueBad"}

Budget ==
    Len(queue) + Cardinality(Holding) + Cardinality(Doubling) <= NbChunks + bad

(* A set of workers gains or loses one worker.                              *)
LEMMA OneWorker ==
    ASSUME NEW S \in SUBSET Workers, NEW w
    PROVE  /\ Cardinality(S) \in Nat
           /\ w \notin S => Cardinality(S \union {w}) = Cardinality(S) + 1
           /\ w \in S => Cardinality(S \ {w}) = Cardinality(S) - 1
<1>1. IsFiniteSet(S)
  BY SwarmAssumption, FS_Subset
<1> QED
  BY <1>1, FS_CardinalityType, FS_AddElement, FS_RemoveElement

(* The queue grows by one entry for each answer with wrong bytes at most:   *)
(* of the two puts of such a chunk one is the worker's own entry.           *)
THEOREM GrowsByBad == Spec => []QueueGrowth
<1>1. Init => Budget
  <2> SUFFICES ASSUME Init PROVE Budget
    OBVIOUS
  <2>1. Holding = {} /\ Doubling = {} /\ Len(queue) = NbChunks /\ bad = 0
    BY SwarmAssumption DEF Init, InitialQueue, Holding, Doubling
  <2> QED
    BY <2>1, FS_EmptySet, SwarmAssumption DEF Budget
<1>2. TypeOK /\ Budget /\ [Next]_vars => Budget'
  <2> SUFFICES ASSUME TypeOK, Budget, [Next]_vars PROVE Budget'
    OBVIOUS
  <2> USE DEF chunkVars, jobVars, fileVars, peerVars
  <2>0. /\ Cardinality(Holding) + 0 = Cardinality(Holding)
        /\ Cardinality(Doubling) + 0 = Cardinality(Doubling)
        /\ Len(queue) + 0 = Len(queue) /\ bad + 0 = bad
    <3>1. Cardinality(Holding) \in Nat /\ Cardinality(Doubling) \in Nat
      BY OneWorker DEF Holding, Doubling
    <3>2. Len(queue) \in Nat /\ bad \in Nat
      BY DEF TypeOK
    <3> QED
      BY <3>1, <3>2
  <2>1. ASSUME NEW h \in {-1, 0, 1}, NEW d \in {-1, 0, 1}, NEW q \in {-1, 0, 1},
               NEW b \in {0, 1},
               h + d + q <= b,
               Cardinality(Holding') = Cardinality(Holding) + h,
               Cardinality(Doubling') = Cardinality(Doubling) + d,
               Len(queue') = Len(queue) + q, bad' = bad + b
        PROVE  Budget'
    <3>1. Cardinality(Holding) \in Nat /\ Cardinality(Doubling) \in Nat
      BY OneWorker DEF Holding, Doubling
    <3>2. Len(queue) \in Nat /\ bad \in Nat /\ NbChunks \in Nat
      BY SwarmAssumption DEF TypeOK
    <3> QED
      BY <2>1, <3>1, <3>2 DEF Budget
  <2>2. CASE UNCHANGED <<queue, bad, Holding, Doubling>>
    BY <2>2 DEF Budget
  <2>3. ASSUME NEW w \in Workers, TakeChunk(w) PROVE Budget'
    <3>1. w \notin Holding /\ Holding' = Holding \union {w} /\ Doubling' = Doubling
      <4>1. item[w] = NoChunk
        BY <2>3 DEF TakeChunk, TypeOK, ChunkPoints
      <4>2. Head(queue) \in Chunks
        <5>1. queue \in Seq(Chunks) /\ queue # <<>>
          BY <2>3 DEF TakeChunk, TypeOK
        <5> QED
          BY <5>1
      <4>3. /\ item' = [item EXCEPT ![w] = Head(queue)]
            /\ pc' = [pc EXCEPT ![w] = "got"] /\ pc[w] = "get"
        BY <2>3 DEF TakeChunk, Goto
      <4> QED
        BY <4>1, <4>2, <4>3, ChunkFacts DEF Holding, Doubling, TypeOK
    <3>2. Len(queue') = Len(queue) + (-1) /\ bad' = bad
      BY <2>3 DEF TakeChunk, TypeOK
    <3>3. Holding \in SUBSET Workers /\ Doubling \in SUBSET Workers
      BY DEF Holding, Doubling
    <3>4. Cardinality(Holding') = Cardinality(Holding) + 1
      BY <3>1, <3>3, OneWorker
    <3>5. /\ Cardinality(Doubling') = Cardinality(Doubling) + 0
          /\ bad' = bad + 0
      BY <2>0, <3>1, <3>2, Zenon
    <3> QED
      BY <2>1, <3>2, <3>4, <3>5
  <2>4. ASSUME NEW w \in Workers, SkipDone(w) \/ ReceiveGood(w) PROVE Budget'
    <3>1. w \in Holding /\ Holding' = Holding \ {w} /\ Doubling' = Doubling
      BY <2>4, ChunkFacts
      DEF SkipDone, ReceiveGood, Release, Goto, Holding, Doubling, TypeOK, ChunkPoints
    <3>2. queue' = queue /\ bad' = bad
      BY <2>4 DEF SkipDone, ReceiveGood
    <3>3. Holding \in SUBSET Workers /\ Doubling \in SUBSET Workers
      BY DEF Holding, Doubling
    <3>4. Cardinality(Holding') = Cardinality(Holding) + (-1)
      BY <3>1, <3>3, OneWorker
    <3>5. /\ Cardinality(Doubling') = Cardinality(Doubling) + 0
          /\ Len(queue') = Len(queue) + 0 /\ bad' = bad + 0
      BY <2>0, <3>1, <3>2, Zenon
    <3> QED
      BY <2>1, <3>2, <3>4, <3>5
  <2>5. ASSUME NEW w \in Workers, ReceiveBad(w) PROVE Budget'
    <3>1. w \notin Doubling /\ Doubling' = Doubling \union {w} /\ Holding' = Holding
      BY <2>5 DEF ReceiveBad, Goto, Holding, Doubling, TypeOK
    <3>2. queue' = queue /\ bad' = bad + 1
      BY <2>5 DEF ReceiveBad
    <3>3. Holding \in SUBSET Workers /\ Doubling \in SUBSET Workers
      BY DEF Holding, Doubling
    <3>4. Cardinality(Doubling') = Cardinality(Doubling) + 1
      BY <3>1, <3>3, OneWorker
    <3>5. /\ Cardinality(Holding') = Cardinality(Holding) + 0
          /\ Len(queue') = Len(queue) + 0
      BY <2>0, <3>1, <3>2, Zenon
    <3> QED
      BY <2>1, <3>2, <3>4, <3>5
  <2>6. ASSUME NEW w \in Workers, RequeueBad(w) PROVE Budget'
    <3>1. w \in Doubling /\ Doubling' = Doubling \ {w} /\ Holding' = Holding
      BY <2>6 DEF RequeueBad, Goto, Holding, Doubling, TypeOK
    <3>2. Len(queue') = Len(queue) + 1 /\ bad' = bad
      BY <2>6 DEF RequeueBad, Put, TypeOK, ChunkPoints
    <3>3. Holding \in SUBSET Workers /\ Doubling \in SUBSET Workers
      BY DEF Holding, Doubling
    <3>4. Cardinality(Doubling') = Cardinality(Doubling) + (-1)
      BY <3>1, <3>3, OneWorker
    <3>5. Cardinality(Holding') = Cardinality(Holding) + 0 /\ bad' = bad + 0
      BY <2>0, <3>1, <3>2, Zenon
    <3> QED
      BY <2>1, <3>2, <3>4, <3>5
  <2>7. ASSUME NEW w \in Workers, Requeue(w) PROVE Budget'
    <3>1. w \in Holding /\ Holding' = Holding \ {w} /\ Doubling' = Doubling
      BY <2>7, ChunkFacts
      DEF Requeue, Release, Goto, Holding, Doubling, TypeOK, ChunkPoints
    <3>2. Len(queue') = Len(queue) + 1 /\ bad' = bad
      BY <2>7 DEF Requeue, Put, TypeOK, ChunkPoints
    <3>3. Holding \in SUBSET Workers /\ Doubling \in SUBSET Workers
      BY DEF Holding, Doubling
    <3>4. Cardinality(Holding') = Cardinality(Holding) + (-1)
      BY <3>1, <3>3, OneWorker
    <3>5. Cardinality(Doubling') = Cardinality(Doubling) + 0 /\ bad' = bad + 0
      BY <2>0, <3>1, <3>2, Zenon
    <3> QED
      BY <2>1, <3>2, <3>4, <3>5
  <2>8. ASSUME NEW w \in Workers,
               \/ StartDownload(w) \/ PickSource(w) \/ RequestFails(w) \/ MarkPending(w)
               \/ Continue(w) \/ Leave(w) \/ QueueEmpty(w) \/ CheckAllDone(w)
               \/ FileStep(w) \/ DiskError(w)
        PROVE  Budget'
    <3>1. UNCHANGED <<queue, bad, item>>
      BY <2>8
      DEF StartDownload, PickSource, RequestFails, MarkPending, Continue, Leave,
          QueueEmpty, CheckAllDone, FileStep, FinalizeCheck, FinalizeClaim, OpenFile,
          WriteChunk, VerifyFile, Announce, DiskError
    <3>2. \E point : /\ point # "requeueBad" /\ pc[w] # "requeueBad"
                     /\ Goto(w, point)
      BY <2>8
      DEF StartDownload, PickSource, RequestFails, MarkPending, Continue, Leave,
          QueueEmpty, CheckAllDone, FileStep, FinalizeCheck, FinalizeClaim, OpenFile,
          WriteChunk, VerifyFile, Announce, DiskError
    <3>3. Doubling' = Doubling
      BY <3>2 DEF Goto, Doubling, TypeOK
    <3> QED
      BY <2>2, <3>1, <3>3 DEF Holding
  <2>9. ASSUME NEW p \in Peers, AddSource(p) \/ PeerLeaves(p) \/ PeerReturns(p) PROVE Budget'
    BY <2>2, <2>9 DEF AddSource, PeerLeaves, PeerReturns, Holding, Doubling
  <2>10. CASE UNCHANGED vars
    BY <2>2, <2>10 DEF vars, Holding, Doubling
  <2> QED
    BY <2>3, <2>4, <2>5, <2>6, <2>7, <2>8, <2>9, <2>10
    DEF Next, WorkerStep, ChunkStep, Terminated
<1>3. TypeOK /\ Budget => QueueGrowth
  <2>1. Cardinality(Doubling) \in Nat /\ Cardinality(Holding) \in Nat
    BY OneWorker DEF Holding, Doubling
  <2> QED
    BY <2>1, SwarmAssumption DEF Budget, QueueGrowth, Holding, TypeOK
<1> QED
  BY <1>1, <1>2, <1>3, TypeCorrect, PTL DEF Spec
-----------------------------------------------------------------------------
(* A thread that ends has seen `completed', or has failed after it was set. *)
THEOREM WorkersPersist == Spec => []StoppedIsComplete
<1>1. Init => StoppedIsComplete
  BY DEF Init, StoppedIsComplete
<1>2. TypeOK /\ FileInv /\ StoppedIsComplete /\ [Next]_vars => StoppedIsComplete'
  <2> SUFFICES ASSUME TypeOK, FileInv, StoppedIsComplete, [Next]_vars
               PROVE  StoppedIsComplete'
    OBVIOUS
  <2>1. ASSUME NEW w \in Workers, Leave(w) \/ DiskError(w) PROVE StoppedIsComplete'
    <3>1. completed /\ completed' = completed
      BY <2>1 DEF Leave, DiskError, FileInv, ClaimInv
    <3> QED
      BY <3>1 DEF StoppedIsComplete
  <2>2. ASSUME NEW w \in Workers, NEW point, point # "stopped", Goto(w, point),
               completed => completed'
        PROVE  StoppedIsComplete'
    BY <2>2 DEF Goto, StoppedIsComplete, TypeOK
  <2>3. ASSUME NEW w \in Workers, ChunkStep(w) PROVE StoppedIsComplete'
    BY <2>2, <2>3
    DEF ChunkStep, SkipDone, StartDownload, PickSource, RequestFails, ReceiveGood,
        ReceiveBad, RequeueBad, MarkPending, Requeue, Release
  <2>4. ASSUME NEW w \in Workers, FileStep(w) PROVE StoppedIsComplete'
    BY <2>2, <2>4
    DEF FileStep, FinalizeCheck, FinalizeClaim, OpenFile, WriteChunk, VerifyFile, Announce
  <2>5. ASSUME NEW w \in Workers,
               Continue(w) \/ TakeChunk(w) \/ QueueEmpty(w) \/ CheckAllDone(w)
        PROVE  StoppedIsComplete'
    BY <2>2, <2>5 DEF Continue, TakeChunk, QueueEmpty, CheckAllDone
  <2>6. CASE UNCHANGED <<pc, completed>>
    BY <2>6 DEF StoppedIsComplete
  <2> QED
    BY <2>1, <2>3, <2>4, <2>5, <2>6
    DEF Next, WorkerStep, Terminated, AddSource, PeerLeaves, PeerReturns, vars
<1> QED
  BY <1>1, <1>2, TypeCorrect, FileSafe, PTL DEF Spec
=============================================================================
