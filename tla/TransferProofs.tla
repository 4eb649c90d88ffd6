--------------------------- MODULE TransferProofs ----------------------------
(***************************************************************************)
(* Proofs about module Transfer, for any number of nodes, files, chunks,   *)
(* workers and manifests.                                                  *)
(***************************************************************************)
EXTENDS Transfer, SequenceTheorems, TLAPS

USE DEF nodeVars, outputVars, manifestVars, chunkVars, faultVars

LEMMA ManifestFacts ==
    /\ NoSwarm \notin Manifests
    /\ \A f \in Files : Name(f) \in Names
BY TransferAssumption DEF NoSwarm, Manifests, Names

-----------------------------------------------------------------------------
(* Type correctness, one lemma per group of actions.                       *)

LEMMA InitType == Init => TypeOK
<1> SUFFICES ASSUME Init PROVE TypeOK
  OBVIOUS
<1>1. 0 \in Chunks /\ Nothing \in [Chunks -> Files \union {NoFile}]
  BY TransferAssumption DEF Chunks, Nothing
<1>2. disk \in [Nodes -> [Names -> [Chunks -> Files \union {NoFile}]]]
  BY <1>1 DEF Init
<1>3. /\ fin \in [Manifests -> [Workers -> FilePoint]]
      /\ pos \in [Manifests -> [Workers -> Chunks]]
  BY <1>1 DEF Init, FilePoint
<1>4. \A h \in Manifests :
         stage[h] = "unused" /\ \A w \in Workers : fin[h][w] = "loop"
  BY DEF Init
<1>5. /\ localFiles \in [Nodes -> SUBSET Files]
      /\ swarms \in [Nodes -> [Files -> Manifests \union {NoSwarm}]]
      /\ saved \in [Nodes -> SUBSET Files]
      /\ from \in [Manifests -> Nodes \union {NoNode}]
      /\ to \in [Manifests -> Nodes \union {NoNode}]
      /\ file \in [Manifests -> Files \union {NoFile}]
  BY DEF Init
<1>6. /\ stage \in [Manifests -> Stage]
      /\ sources \in [Manifests -> Seq(Nodes)]
      /\ todo \in [Manifests -> SUBSET Chunks]
      /\ asked \in [Manifests -> SUBSET Chunks]
      /\ answered \in [Manifests -> SUBSET Chunks]
      /\ done \in [Manifests -> SUBSET Chunks]
      /\ data \in [Manifests -> SUBSET Chunks]
  BY DEF Init, Stage
<1>7. completed \in [Manifests -> BOOLEAN] /\ diskFailed \in BOOLEAN
      /\ bad \in Nat /\ restarts \in Nat
  BY DEF Init
<1> QED
  BY <1>2, <1>3, <1>4, <1>5, <1>6, <1>7 DEF TypeOK

(* The seeder's steps.                                                     *)
LEMMA SeederType ==
    ASSUME TypeOK,
           \/ \E n \in Nodes, f \in Files : Seed(n, f)
           \/ \E n, m \in Nodes, f \in Files, h \in Manifests : SendManifest(n, m, f, h)
           \/ \E h \in Manifests : LoseManifest(h)
    PROVE  TypeOK'
<1>1. ASSUME NEW n \in Nodes, NEW f \in Files, Seed(n, f) PROVE TypeOK'
  BY <1>1 DEF Seed, TypeOK, Registered
<1>2. ASSUME NEW n \in Nodes, NEW m \in Nodes, NEW f \in Files, NEW h \in Manifests,
             SendManifest(n, m, f, h)
      PROVE  TypeOK'
  BY <1>2 DEF SendManifest, TypeOK, Registered, Stage
<1>3. ASSUME NEW h \in Manifests, LoseManifest(h) PROVE TypeOK'
  BY <1>3 DEF LoseManifest, TypeOK, Registered, Stage
<1> QED
  BY <1>1, <1>2, <1>3

(* A source is added to a swarm.                                           *)
LEMMA SourceAdded ==
    ASSUME TypeOK, NEW k \in Manifests, NEW n \in Nodes,
           sources' = [sources EXCEPT ![k] = Append(@, n)]
    PROVE  /\ sources' \in [Manifests -> Seq(Nodes)] /\ sources'[k] # <<>>
           /\ \A j \in Manifests : sources[j] # <<>> => sources'[j] # <<>>
<1>1. sources \in [Manifests -> Seq(Nodes)]
  BY DEF TypeOK
<1>2. ASSUME NEW s \in Seq(Nodes)
      PROVE  Append(s, n) \in Seq(Nodes) /\ Append(s, n) # <<>>
  BY AppendProperties
<1>3. Append(sources[k], n) \in Seq(Nodes) /\ Append(sources[k], n) # <<>>
  BY <1>1, <1>2
<1>4. \A j \in Manifests :
         sources'[j] = IF j = k THEN Append(sources[k], n) ELSE sources[j]
  BY <1>1
<1> QED
  BY <1>1, <1>3, <1>4

(* The handler's steps.                                                    *)
LEMMA HandlerType ==
    ASSUME TypeOK, NEW h \in Manifests, HandlerStep(h)
    PROVE  TypeOK'
<1>1. CASE CheckLocal(h)
  BY <1>1 DEF CheckLocal, Advance, TypeOK, Registered, Stage
<1>2. CASE CheckSwarms(h)
  BY <1>2 DEF CheckSwarms, Advance, TypeOK, Registered, Stage
<1>3. CASE AddKnownSource(h)
  <2>1. Registered(h) \in Manifests /\ from[h] \in Nodes
    <3>1. stage[h] = "known"
      BY <1>3 DEF AddKnownSource
    <3>2. to[h] \in Nodes /\ file[h] \in Files /\ from[h] \in Nodes
          /\ Registered(h) # NoSwarm
      BY <3>1 DEF TypeOK
    <3>3. swarms[to[h]][file[h]] \in Manifests \union {NoSwarm}
      BY <3>2 DEF TypeOK
    <3> QED
      BY <3>2, <3>3 DEF Registered
  <2>2. /\ sources' \in [Manifests -> Seq(Nodes)]
        /\ \A k \in Manifests : sources[k] # <<>> => sources'[k] # <<>>
    BY <1>3, <2>1, SourceAdded DEF AddKnownSource
  <2> QED
    BY <1>3, <2>2 DEF AddKnownSource, Advance, TypeOK, Registered, Stage
<1>4. CASE Register(h)
  <2>1. to[h] \in Nodes /\ file[h] \in Files
    BY <1>4 DEF Register, TypeOK
  <2>2. /\ swarms' \in [Nodes -> [Files -> Manifests \union {NoSwarm}]]
        /\ swarms'[to[h]][file[h]] = h
        /\ \A n \in Nodes, f \in Files :
              swarms[n][f] # NoSwarm => swarms'[n][f] # NoSwarm
    BY <1>4, <2>1, ManifestFacts DEF Register, TypeOK
  <2> QED
    BY <1>4, <2>1, <2>2, ManifestFacts DEF Register, Advance, TypeOK, Registered, Stage
<1>5. CASE AddFirstSource(h)
  <2>1. from[h] \in Nodes
    BY <1>5 DEF AddFirstSource, TypeOK
  <2>2. /\ sources' \in [Manifests -> Seq(Nodes)] /\ sources'[h] # <<>>
        /\ \A k \in Manifests : sources[k] # <<>> => sources'[k] # <<>>
    BY <1>5, <2>1, SourceAdded DEF AddFirstSource
  <2> QED
    BY <1>5, <2>2 DEF AddFirstSource, Advance, TypeOK, Registered, Stage
<1>6. CASE StartWorkers(h)
  BY <1>6 DEF StartWorkers, Advance, TypeOK, Registered, Stage
<1> QED
  BY <1>1, <1>2, <1>3, <1>4, <1>5, <1>6 DEF HandlerStep

(* The workers' steps: they leave all but the chunks of two swarms alone.  *)
LEMMA WorkerType ==
    ASSUME TypeOK, NEW h \in Manifests, NEW c \in Chunks, ChunkStep(h, c)
    PROVE  TypeOK'
<1>1. /\ todo' \in [Manifests -> SUBSET Chunks]
      /\ asked' \in [Manifests -> SUBSET Chunks]
      /\ answered' \in [Manifests -> SUBSET Chunks]
      /\ done' \in [Manifests -> SUBSET Chunks]
      /\ data' \in [Manifests -> SUBSET Chunks]
      /\ bad' \in Nat
  <2>1. CASE Ask(h, c)
    BY <2>1 DEF Ask, TypeOK
  <2>2. CASE Serve(h, c)
    BY <2>2 DEF Serve, TypeOK
  <2>3. CASE Answer(h, c)
    BY <2>3 DEF Answer, Arrives, TypeOK
  <2>4. CASE AnswerBad(h, c)
    <3>1. /\ todo' \in [Manifests -> SUBSET Chunks]
          /\ done' \in [Manifests -> SUBSET Chunks]
      BY <2>4 DEF AnswerBad, TypeOK
    <3> QED
      BY <2>4, <3>1 DEF AnswerBad, Arrives, TypeOK
  <2>5. CASE Fail(h, c)
    BY <2>5 DEF Fail, TypeOK
  <2> QED
    BY <2>1, <2>2, <2>3, <2>4, <2>5 DEF ChunkStep
<1>2. UNCHANGED <<nodeVars, outputVars, manifestVars, stage, sources, restarts>>
  BY DEF ChunkStep, Ask, Serve, Answer, AnswerBad, Fail
<1> QED
  BY <1>1, <1>2 DEF TypeOK, Registered

(* The steps of _finalize.                                                 *)
LEMMA FileFrame ==
    ASSUME NEW h, NEW w, FileStep(h, w) \/ DiskError(h, w)
    PROVE  UNCHANGED <<nodeVars, manifestVars, stage, sources, chunkVars, faultVars>>
BY DEF FileStep, Finalize, Claim, OpenFile, WriteChunk, VerifyFile, Announce, DiskError

LEMMA FileType ==
    ASSUME TypeOK, NEW h \in Manifests, NEW w \in Workers,
           FileStep(h, w) \/ DiskError(h, w)
    PROVE  TypeOK'
<1>1. stage[h] = "running" /\ to[h] \in Nodes /\ file[h] \in Files
      /\ Name(file[h]) \in Names
  <2>1. stage[h] = "running"
    BY DEF FileStep, Finalize, Claim, OpenFile, WriteChunk, VerifyFile, Announce,
           DiskError, TypeOK
  <2> QED
    BY <2>1, ManifestFacts DEF TypeOK
<1>2. /\ fin' \in [Manifests -> [Workers -> FilePoint]]
      /\ \A k \in Manifests \ {h} : fin'[k] = fin[k]
  <2>1. \E p \in FilePoint : Goto(h, w, p)
    BY DEF FileStep, Finalize, Claim, OpenFile, WriteChunk, VerifyFile, Announce,
           DiskError, FilePoint
  <2> QED
    BY <2>1 DEF Goto, TypeOK
<1>3. pos' \in [Manifests -> [Workers -> Chunks]]
  <2>1. CASE WriteChunk(h, w)
    <3>1. pos[h][w] \in Chunks
      BY DEF TypeOK
    <3>2. (IF pos[h][w] + 1 = NbChunks THEN 0 ELSE pos[h][w] + 1) \in Chunks
      BY <3>1, TransferAssumption DEF Chunks
    <3> QED
      BY <2>1, <3>2 DEF WriteChunk, TypeOK
  <2>2. CASE DiskError(h, w)
    BY <2>2, TransferAssumption DEF DiskError, TypeOK, Chunks
  <2>3. CASE pos' = pos
    BY <2>3 DEF TypeOK
  <2> QED
    BY <2>1, <2>2, <2>3
    DEF FileStep, Finalize, Claim, OpenFile, VerifyFile, Announce
<1>4. disk' \in [Nodes -> [Names -> [Chunks -> Files \union {NoFile}]]]
  <2>1. CASE WriteChunk(h, w)
    BY <1>1, <2>1 DEF WriteChunk, TypeOK
  <2>2. CASE OpenFile(h, w)
    <3>1. Nothing \in [Chunks -> Files \union {NoFile}]
      BY DEF Nothing
    <3> QED
      BY <1>1, <2>2, <3>1 DEF OpenFile, TypeOK
  <2>3. CASE disk' = disk
    BY <2>3 DEF TypeOK
  <2> QED
    BY <2>1, <2>2, <2>3
    DEF FileStep, Finalize, Claim, VerifyFile, Announce, DiskError
<1>5. /\ saved' \in [Nodes -> SUBSET Files]
      /\ completed' \in [Manifests -> BOOLEAN]
      /\ diskFailed' \in BOOLEAN
  <2>1. saved' \in [Nodes -> SUBSET Files]
    <3>1. saved' \in {saved, [saved EXCEPT ![to[h]] = @ \union {file[h]}]}
      BY DEF FileStep, Finalize, Claim, OpenFile, WriteChunk, VerifyFile, Announce,
             DiskError
    <3>2. saved \in [Nodes -> SUBSET Files]
      BY DEF TypeOK
    <3> QED
      BY <1>1, <3>1, <3>2
  <2>2. completed' \in [Manifests -> BOOLEAN]
    <3>1. completed' \in {completed, [completed EXCEPT ![h] = TRUE]}
      BY DEF FileStep, Finalize, Claim, OpenFile, WriteChunk, VerifyFile, Announce,
             DiskError
    <3>2. completed \in [Manifests -> BOOLEAN]
      BY DEF TypeOK
    <3> QED
      BY <3>1, <3>2
  <2>3. diskFailed' \in BOOLEAN
    <3>1. diskFailed' = diskFailed \/ diskFailed' = TRUE
      BY DEF FileStep, Finalize, Claim, OpenFile, WriteChunk, VerifyFile, Announce,
             DiskError
    <3>2. diskFailed \in BOOLEAN
      BY DEF TypeOK
    <3> QED
      BY <3>1, <3>2
  <2> QED
    BY <2>1, <2>2, <2>3
<1>6. ASSUME NEW k \in Manifests, NEW v \in Workers, fin'[k][v] # "loop"
      PROVE  stage[k] = "running"
  <2>1. CASE k = h
    BY <1>1, <2>1
  <2>2. CASE k # h
    BY <1>2, <1>6, <2>2 DEF TypeOK
  <2> QED
    BY <2>1, <2>2
<1>7. UNCHANGED <<nodeVars, manifestVars, stage, sources, chunkVars, faultVars>>
  BY FileFrame
<1> QED
  BY <1>2, <1>3, <1>4, <1>5, <1>6, <1>7 DEF TypeOK, Registered

(* A node stops and starts again.                                          *)
LEMMA RestartFrame ==
    ASSUME TypeOK, NEW n \in Nodes, Restart(n)
    PROVE  /\ UNCHANGED <<disk, saved, diskFailed, manifestVars, bad>>
           /\ localFiles' = [localFiles EXCEPT ![n] = {}]
           /\ swarms' = [swarms EXCEPT ![n] = [f \in Files |-> NoSwarm]]
           /\ restarts' = restarts + 1
           /\ \A h \in Manifests : to[h] # n =>
                 /\ stage'[h] = stage[h] /\ sources'[h] = sources[h]
                 /\ todo'[h] = todo[h] /\ asked'[h] = asked[h]
                 /\ answered'[h] = answered[h] /\ done'[h] = done[h]
                 /\ data'[h] = data[h] /\ (completed'[h] <=> completed[h])
                 /\ fin'[h] = fin[h] /\ pos'[h] = pos[h]
           /\ \A h \in Manifests : to[h] = n =>
                 /\ stage'[h] = "ended" /\ sources'[h] = <<>>
                 /\ todo'[h] = Chunks /\ asked'[h] = {} /\ answered'[h] = {}
                 /\ done'[h] = {} /\ data'[h] = {} /\ ~completed'[h]
                 /\ fin'[h] = [w \in Workers |-> "loop"]
BY DEF Restart, Forgotten

LEMMA RestartType ==
    ASSUME TypeOK, NEW n \in Nodes, Restart(n)
    PROVE  TypeOK'
<1>1. /\ localFiles' \in [Nodes -> SUBSET Files]
      /\ swarms' \in [Nodes -> [Files -> Manifests \union {NoSwarm}]]
      /\ \A m \in Nodes : m # n => swarms'[m] = swarms[m]
      /\ restarts' \in Nat
  BY DEF Restart, TypeOK
<1>2. /\ stage' \in [Manifests -> Stage]
      /\ sources' \in [Manifests -> Seq(Nodes)]
      /\ todo' \in [Manifests -> SUBSET Chunks]
      /\ asked' \in [Manifests -> SUBSET Chunks]
  BY DEF Restart, Forgotten, TypeOK, Stage
<1>3. /\ answered' \in [Manifests -> SUBSET Chunks]
      /\ done' \in [Manifests -> SUBSET Chunks]
      /\ data' \in [Manifests -> SUBSET Chunks]
      /\ completed' \in [Manifests -> BOOLEAN]
  BY DEF Restart, Forgotten, TypeOK
<1>4. /\ fin' \in [Manifests -> [Workers -> FilePoint]]
      /\ pos' \in [Manifests -> [Workers -> Chunks]]
  <2>1. 0 \in Chunks
    BY TransferAssumption DEF Chunks
  <2> QED
    BY <2>1 DEF Restart, Forgotten, TypeOK, FilePoint
<1>5. ASSUME NEW h \in Manifests
      PROVE  /\ stage'[h] \notin {"unused", "ended"} =>
                   from'[h] \in Nodes /\ to'[h] \in Nodes /\ file'[h] \in Files
             /\ stage'[h] \in {"sourced", "running"} => sources'[h] # <<>>
             /\ stage'[h] \in {"known", "registered", "sourced", "running"} =>
                   Registered(h)' # NoSwarm
             /\ \A w \in Workers : fin'[h][w] # "loop" => stage'[h] = "running"
  BY <1>1, RestartFrame DEF TypeOK, Registered
<1> QED
  BY <1>1, <1>2, <1>3, <1>4, <1>5, RestartFrame DEF TypeOK

LEMMA TypeStep == TypeOK /\ [Next]_vars => TypeOK'
<1>1. TypeOK /\ UNCHANGED vars => TypeOK'
  BY DEF TypeOK, Registered, vars
<1> QED
  BY <1>1, SeederType, HandlerType, WorkerType, FileType, RestartType DEF Next

(* Every variable keeps its type, and the threads have what their code     *)
(* dereferences: a swarm in `swarms', a first source.                      *)
THEOREM TypeCorrect == Spec => []TypeOK
BY InitType, TypeStep, PTL DEF Spec

-----------------------------------------------------------------------------
(* The inductive invariant of the swarms.                                  *)

\* A registered swarm is that of a manifest for this file of this node.
Owned ==
    \A n \in Nodes, f \in Files :
        swarms[n][f] # NoSwarm =>
            /\ stage[swarms[n][f]] # "unused"
            /\ to[swarms[n][f]] = n
            /\ file[swarms[n][f]] = f

\* Nothing has happened to the swarm of a manifest that was not sent.
Fresh ==
    \A h \in Manifests : stage[h] = "unused" =>
        sources[h] = <<>> /\ answered[h] = {} /\ data[h] = {}

\* A manifest that a node sends to itself does not get past CheckLocal.
SelfStops ==
    \A h \in Manifests : from[h] = to[h] =>
        \/ stage[h] \in {"unused", "ended"}
        \/ stage[h] = "sent" /\ file[h] \in localFiles[to[h]]

\* Before its workers start, a swarm has its whole queue.
Untouched ==
    \A h \in Manifests : stage[h] \notin {"running", "ended"} => todo[h] = Chunks

DoneHasData ==
    \A h \in Manifests : done[h] \subseteq data[h]

\* Who finalizes a swarm has all its chunks.
Finalizers ==
    \A h \in Manifests, w \in Workers : fin[h][w] # "loop" => data[h] = Chunks

IInv ==
    /\ Owned
    /\ Fresh
    /\ SelfStops
    /\ Untouched
    /\ DoneHasData
    /\ Finalizers
    /\ NothingLost
    /\ CompleteIsWhole
    /\ NeverFromItself

(* What the steps of a group have in common.                               *)
LEMMA ChunkFrame ==
    ASSUME NEW h, NEW c, ChunkStep(h, c)
    PROVE  UNCHANGED <<nodeVars, outputVars, manifestVars, stage, sources, restarts>>
BY DEF ChunkStep, Ask, Serve, Answer, AnswerBad, Fail

LEMMA HandlerFrame ==
    ASSUME TypeOK, NEW h \in Manifests, HandlerStep(h)
    PROVE  /\ UNCHANGED <<localFiles, outputVars, manifestVars, chunkVars, faultVars>>
           /\ \A k \in Manifests \ {h} : stage'[k] = stage[k]
           /\ stage[h] \notin {"unused", "running", "ended"}
           /\ stage'[h] \notin {"unused", "sent"}
           /\ \/ swarms' = swarms
              \/ /\ stage[h] = "absent"
                 /\ swarms' = [swarms EXCEPT ![to[h]][file[h]] = h]
BY DEF HandlerStep, CheckLocal, CheckSwarms, AddKnownSource, Register,
       AddFirstSource, StartWorkers, Advance, TypeOK

(* The table of swarms.                                                    *)
LEMMA OwnedStep == TypeOK /\ Owned /\ [Next]_vars => Owned'
<1> SUFFICES ASSUME TypeOK, Owned, [Next]_vars PROVE Owned'
  OBVIOUS
<1>1. ASSUME NEW n \in Nodes, NEW f \in Files, Seed(n, f) PROVE Owned'
  BY <1>1 DEF Seed, Owned
<1>2. ASSUME NEW n \in Nodes, NEW m \in Nodes, NEW f \in Files, NEW h \in Manifests,
             SendManifest(n, m, f, h)
      PROVE  Owned'
  BY <1>2 DEF SendManifest, Owned, TypeOK
<1>3. ASSUME NEW h \in Manifests, LoseManifest(h) PROVE Owned'
  BY <1>3 DEF LoseManifest, Owned, TypeOK
<1>4. ASSUME NEW h \in Manifests, HandlerStep(h) PROVE Owned'
  <2>1. CASE swarms' = swarms
    BY <1>4, <2>1, HandlerFrame DEF Owned, TypeOK
  <2>2. CASE stage[h] = "absent" /\ swarms' = [swarms EXCEPT ![to[h]][file[h]] = h]
    <3>1. to[h] \in Nodes /\ file[h] \in Files
      BY <2>2 DEF TypeOK
    <3>2. ASSUME NEW n \in Nodes, NEW f \in Files
          PROVE  swarms'[n][f] = IF n = to[h] /\ f = file[h] THEN h ELSE swarms[n][f]
      BY <2>2, <3>1 DEF TypeOK
    <3>3. /\ UNCHANGED manifestVars /\ stage'[h] # "unused"
          /\ \A k \in Manifests \ {h} : stage'[k] = stage[k]
      BY <1>4, HandlerFrame
    <3> SUFFICES ASSUME NEW n \in Nodes, NEW f \in Files, swarms'[n][f] # NoSwarm
                 PROVE  /\ stage'[swarms'[n][f]] # "unused"
                        /\ to[swarms'[n][f]] = n /\ file[swarms'[n][f]] = f
      BY <3>3 DEF Owned
    <3>4. CASE n = to[h] /\ f = file[h]
      BY <3>2, <3>3, <3>4
    <3>5. CASE ~(n = to[h] /\ f = file[h])
      <4>1. swarms'[n][f] = swarms[n][f] /\ swarms[n][f] \in Manifests \union {NoSwarm}
        BY <3>2, <3>5 DEF TypeOK
      <4> QED
        BY <3>3, <4>1 DEF Owned
    <3> QED
      BY <3>4, <3>5
  <2> QED
    BY <1>4, <2>1, <2>2, HandlerFrame
<1>5. ASSUME NEW h \in Manifests, NEW w \in Workers, FileStep(h, w) \/ DiskError(h, w)
      PROVE  Owned'
  BY <1>5, FileFrame DEF Owned
<1>6. ASSUME NEW h \in Manifests, NEW c \in Chunks, ChunkStep(h, c) PROVE Owned'
  BY <1>6, ChunkFrame DEF Owned
<1>7. ASSUME NEW n \in Nodes, Restart(n) PROVE Owned'
  <2>1. ASSUME NEW m \in Nodes, NEW f \in Files
        PROVE  swarms'[m][f] = IF m = n THEN NoSwarm ELSE swarms[m][f]
    BY <1>7, RestartFrame DEF TypeOK
  <2> QED
    BY <1>7, <2>1, RestartFrame DEF Owned, TypeOK
<1>8. CASE UNCHANGED vars
  BY <1>8 DEF Owned, vars
<1> QED
  BY <1>1, <1>2, <1>3, <1>4, <1>5, <1>6, <1>7, <1>8 DEF Next

(* Manifests that were not sent.                                           *)
LEMMA FreshStep == TypeOK /\ Owned /\ Fresh /\ [Next]_vars => Fresh'
<1> SUFFICES ASSUME TypeOK, Owned, Fresh, [Next]_vars PROVE Fresh'
  OBVIOUS
<1>1. ASSUME NEW n \in Nodes, NEW f \in Files, Seed(n, f) PROVE Fresh'
  BY <1>1 DEF Seed, Fresh
<1>2. ASSUME NEW n \in Nodes, NEW m \in Nodes, NEW f \in Files, NEW h \in Manifests,
             SendManifest(n, m, f, h)
      PROVE  Fresh'
  BY <1>2 DEF SendManifest, Fresh, TypeOK
<1>3. ASSUME NEW h \in Manifests, LoseManifest(h) PROVE Fresh'
  BY <1>3 DEF LoseManifest, Fresh, TypeOK
<1>4. ASSUME NEW h \in Manifests, HandlerStep(h) PROVE Fresh'
  <2>1. ASSUME NEW k \in Manifests, stage[k] = "unused" PROVE sources'[k] = sources[k]
    <3>1. CASE AddKnownSource(h)
      <4>1. to[h] \in Nodes /\ file[h] \in Files /\ Registered(h) # NoSwarm
        BY <3>1 DEF AddKnownSource, TypeOK
      <4>2. stage[Registered(h)] # "unused"
        BY <4>1 DEF Owned, Registered
      <4> QED
        BY <2>1, <3>1, <4>2 DEF AddKnownSource, TypeOK
    <3>2. CASE AddFirstSource(h)
      BY <2>1, <3>2 DEF AddFirstSource, TypeOK
    <3> QED
      BY <1>4, <3>1, <3>2
      DEF HandlerStep, CheckLocal, CheckSwarms, Register, StartWorkers
  <2> QED
    BY <1>4, <2>1, HandlerFrame DEF Fresh
<1>5. ASSUME NEW h \in Manifests, NEW w \in Workers, FileStep(h, w) \/ DiskError(h, w)
      PROVE  Fresh'
  BY <1>5, FileFrame DEF Fresh
<1>6. ASSUME NEW h \in Manifests, NEW c \in Chunks, ChunkStep(h, c) PROVE Fresh'
  <2>1. ASSUME NEW k \in Manifests, stage[k] = "unused" PROVE data'[k] = data[k]
    <3>1. CASE Answer(h, c)
      <4>1. to[h] \in Nodes /\ file[h] \in Files /\ Registered(h) # NoSwarm
        BY <3>1 DEF Answer, Arrives, TypeOK
      <4>2. stage[Registered(h)] # "unused"
        BY <4>1 DEF Owned, Registered
      <4> QED
        BY <2>1, <3>1, <4>2 DEF Answer, TypeOK
    <3> QED
      BY <1>6, <3>1 DEF ChunkStep, Ask, Serve, AnswerBad, Fail
  <2>2. ASSUME NEW k \in Manifests, stage[k] = "unused"
        PROVE  answered'[k] \subseteq answered[k]
    BY <1>6, <2>2 DEF ChunkStep, Ask, Serve, Answer, AnswerBad, Arrives, Fail, TypeOK
  <2> QED
    BY <1>6, <2>1, <2>2, ChunkFrame DEF Fresh
<1>7. ASSUME NEW n \in Nodes, Restart(n) PROVE Fresh'
  BY <1>7, RestartFrame DEF Fresh
<1>8. CASE UNCHANGED vars
  BY <1>8 DEF Fresh, vars
<1> QED
  BY <1>1, <1>2, <1>3, <1>4, <1>5, <1>6, <1>7, <1>8 DEF Next

(* A node and its own manifests.                                           *)
LEMMA SelfStopsStep == TypeOK /\ SelfStops /\ [Next]_vars => SelfStops'
<1> SUFFICES ASSUME TypeOK, SelfStops, [Next]_vars PROVE SelfStops'
  OBVIOUS
<1>1. ASSUME NEW n \in Nodes, NEW f \in Files, Seed(n, f) PROVE SelfStops'
  BY <1>1 DEF Seed, SelfStops, TypeOK
<1>2. ASSUME NEW n \in Nodes, NEW m \in Nodes, NEW f \in Files, NEW h \in Manifests,
             SendManifest(n, m, f, h)
      PROVE  SelfStops'
  BY <1>2 DEF SendManifest, SelfStops, TypeOK
<1>3. ASSUME NEW h \in Manifests, LoseManifest(h) PROVE SelfStops'
  BY <1>3 DEF LoseManifest, SelfStops, TypeOK
<1>4. ASSUME NEW h \in Manifests, HandlerStep(h) PROVE SelfStops'
  <2>1. from[h] = to[h] => stage'[h] = "ended"
    BY <1>4 DEF HandlerStep, CheckLocal, CheckSwarms, AddKnownSource, Register,
                AddFirstSource, StartWorkers, Advance, SelfStops, TypeOK
  <2> QED
    BY <1>4, <2>1, HandlerFrame DEF SelfStops
<1>5. ASSUME NEW h \in Manifests, NEW w \in Workers, FileStep(h, w) \/ DiskError(h, w)
      PROVE  SelfStops'
  BY <1>5, FileFrame DEF SelfStops
<1>6. ASSUME NEW h \in Manifests, NEW c \in Chunks, ChunkStep(h, c) PROVE SelfStops'
  BY <1>6, ChunkFrame DEF SelfStops
<1>7. ASSUME NEW n \in Nodes, Restart(n) PROVE SelfStops'
  BY <1>7, RestartFrame DEF SelfStops, TypeOK
<1>8. CASE UNCHANGED vars
  BY <1>8 DEF SelfStops, vars
<1> QED
  BY <1>1, <1>2, <1>3, <1>4, <1>5, <1>6, <1>7, <1>8 DEF Next

LEMMA NotAppended ==
    ASSUME NEW S, NEW s \in Seq(S), NEW e \in S, NEW x, x # e,
           \A i \in DOMAIN s : s[i] # x
    PROVE  \A i \in DOMAIN Append(s, e) : Append(s, e)[i] # x
OBVIOUS

LEMMA NeverFromItselfStep ==
    TypeOK /\ Owned /\ Fresh /\ SelfStops /\ NeverFromItself /\ [Next]_vars
        => NeverFromItself'
<1> SUFFICES ASSUME TypeOK, Owned, Fresh, SelfStops, NeverFromItself, [Next]_vars
             PROVE  NeverFromItself'
  OBVIOUS
<1>1. CASE UNCHANGED <<sources, to>>
  BY <1>1 DEF NeverFromItself
<1>2. ASSUME NEW n \in Nodes, NEW m \in Nodes, NEW f \in Files, NEW h \in Manifests,
             SendManifest(n, m, f, h)
      PROVE  NeverFromItself'
  <2>1. ASSUME NEW k \in Manifests
        PROVE  \A i \in DOMAIN sources[k] : sources[k][i] # to'[k]
    <3>1. CASE k = h
      BY <1>2, <3>1 DEF SendManifest, Fresh
    <3>2. CASE k # h
      BY <1>2, <3>2 DEF SendManifest, NeverFromItself, TypeOK
    <3> QED
      BY <3>1, <3>2
  <2> QED
    BY <1>2, <2>1 DEF SendManifest, NeverFromItself
<1>3. ASSUME NEW h \in Manifests, NEW k \in Manifests, to[k] = to[h],
             stage[h] \in {"known", "registered"},
             sources' = [sources EXCEPT ![k] = Append(@, from[h])], to' = to
      PROVE  NeverFromItself'
  <2>1. from[h] \in Nodes /\ from[h] # to[h] /\ sources \in [Manifests -> Seq(Nodes)]
    BY <1>3 DEF TypeOK, SelfStops
  <2>2. \A i \in DOMAIN sources[k] : sources[k][i] # to[k]
    BY DEF NeverFromItself
  <2>3. \A i \in DOMAIN Append(sources[k], from[h]) :
           Append(sources[k], from[h])[i] # to[k]
    <3> DEFINE s == sources[k]
               x == to[k]
               e == from[h]
    <3>1. s \in Seq(Nodes) /\ e \in Nodes /\ x # e /\ \A i \in DOMAIN s : s[i] # x
      BY <1>3, <2>1, <2>2
    <3> HIDE DEF s, x, e
    <3>2. \A i \in DOMAIN Append(s, e) : Append(s, e)[i] # x
      BY <3>1, NotAppended
    <3> QED
      BY <3>2 DEF s, x, e
  <2>4. \A j \in Manifests :
           sources'[j] = IF j = k THEN Append(sources[k], from[h]) ELSE sources[j]
    BY <1>3, <2>1
  <2> QED
    BY <1>3, <2>3, <2>4 DEF NeverFromItself
<1>4. ASSUME NEW h \in Manifests, HandlerStep(h) PROVE NeverFromItself'
  <2>1. CASE AddKnownSource(h)
    <3>1. to[h] \in Nodes /\ file[h] \in Files /\ Registered(h) # NoSwarm
      BY <2>1 DEF AddKnownSource, TypeOK
    <3>2. Registered(h) \in Manifests /\ to[Registered(h)] = to[h]
      BY <3>1 DEF Owned, Registered, TypeOK
    <3> QED
      BY <1>3, <2>1, <3>2 DEF AddKnownSource, manifestVars
  <2>2. CASE AddFirstSource(h)
    BY <1>3, <2>2 DEF AddFirstSource, manifestVars
  <2> QED
    BY <1>1, <1>4, <2>1, <2>2
    DEF HandlerStep, CheckLocal, CheckSwarms, Register, StartWorkers, manifestVars
<1>5. ASSUME NEW h \in Manifests, NEW c \in Chunks, ChunkStep(h, c)
      PROVE  NeverFromItself'
  BY <1>1, <1>5, ChunkFrame
<1>6. ASSUME NEW h \in Manifests, NEW w \in Workers, FileStep(h, w) \/ DiskError(h, w)
      PROVE  NeverFromItself'
  BY <1>1, <1>6, FileFrame
<1>7. ASSUME NEW n \in Nodes, Restart(n) PROVE NeverFromItself'
  BY <1>7, RestartFrame DEF NeverFromItself
<1> QED
  BY <1>1, <1>2, <1>4, <1>5, <1>6, <1>7
  DEF Next, vars, Seed, LoseManifest, manifestVars

(* The queue before the workers start.                                     *)
LEMMA UntouchedStep == TypeOK /\ Untouched /\ [Next]_vars => Untouched'
<1> SUFFICES ASSUME TypeOK, Untouched, [Next]_vars PROVE Untouched'
  OBVIOUS
<1>1. ASSUME NEW n \in Nodes, NEW m \in Nodes, NEW f \in Files, NEW h \in Manifests,
             SendManifest(n, m, f, h)
      PROVE  Untouched'
  BY <1>1 DEF SendManifest, Untouched, TypeOK
<1>2. ASSUME NEW h \in Manifests, LoseManifest(h) PROVE Untouched'
  BY <1>2 DEF LoseManifest, Untouched, TypeOK
<1>3. ASSUME NEW h \in Manifests, HandlerStep(h) PROVE Untouched'
  BY <1>3, HandlerFrame DEF Untouched
<1>4. ASSUME NEW h \in Manifests, NEW c \in Chunks, ChunkStep(h, c) PROVE Untouched'
  <2>1. \A k \in Manifests :
           \/ todo'[k] = todo[k]
           \/ todo'[k] = todo[k] \union {c}
           \/ k = h /\ stage[h] = "running"
    BY <1>4 DEF ChunkStep, Ask, Serve, Answer, AnswerBad, Fail, TypeOK
  <2> QED
    BY <1>4, <2>1, ChunkFrame DEF Untouched
<1>5. ASSUME NEW n \in Nodes, Restart(n) PROVE Untouched'
  BY <1>5, RestartFrame DEF Untouched
<1>6. ASSUME NEW h \in Manifests, NEW w \in Workers, FileStep(h, w) \/ DiskError(h, w)
      PROVE  Untouched'
  BY <1>6, FileFrame DEF Untouched
<1> QED
  BY <1>1, <1>2, <1>3, <1>4, <1>5, <1>6 DEF Next, vars, Seed, Untouched

(* The marks and the bytes of a swarm.                                     *)
LEMMA DoneHasDataStep == TypeOK /\ DoneHasData /\ [Next]_vars => DoneHasData'
<1> SUFFICES ASSUME TypeOK, DoneHasData, [Next]_vars PROVE DoneHasData'
  OBVIOUS
<1>1. CASE UNCHANGED <<done, data>>
  BY <1>1 DEF DoneHasData
<1>2. ASSUME NEW h \in Manifests, NEW c \in Chunks, ChunkStep(h, c) PROVE DoneHasData'
  <2>1. CASE Ask(h, c) \/ Serve(h, c)
    BY <1>1, <2>1 DEF Ask, Serve
  <2>2. CASE Answer(h, c)
    BY <2>2 DEF Answer, DoneHasData, TypeOK
  <2>3. CASE AnswerBad(h, c)
    BY <2>3 DEF AnswerBad, DoneHasData, TypeOK
  <2>4. CASE Fail(h, c)
    BY <2>4 DEF Fail, DoneHasData, TypeOK
  <2> QED
    BY <1>2, <2>1, <2>2, <2>3, <2>4 DEF ChunkStep
<1>3. ASSUME NEW h \in Manifests, HandlerStep(h) PROVE DoneHasData'
  BY <1>1, <1>3, HandlerFrame
<1>4. ASSUME NEW h \in Manifests, NEW w \in Workers, FileStep(h, w) \/ DiskError(h, w)
      PROVE  DoneHasData'
  BY <1>1, <1>4, FileFrame
<1>5. ASSUME NEW n \in Nodes, Restart(n) PROVE DoneHasData'
  BY <1>5, RestartFrame DEF DoneHasData
<1> QED
  BY <1>1, <1>2, <1>3, <1>4, <1>5 DEF Next, vars, Seed, SendManifest, LoseManifest

LEMMA DataGrows ==
    ASSUME TypeOK, NEW h \in Manifests, NEW c \in Chunks, ChunkStep(h, c),
           NEW k \in Manifests
    PROVE  data[k] \subseteq data'[k] /\ data'[k] \subseteq Chunks
<1>1. CASE Answer(h, c)
  <2>1. data'[k] = IF k = Registered(h) THEN data[k] \union {c} ELSE data[k]
    BY <1>1 DEF Answer, TypeOK
  <2> QED
    BY <2>1 DEF TypeOK
<1>2. CASE data' = data
  BY <1>2 DEF TypeOK
<1> QED
  BY <1>1, <1>2 DEF ChunkStep, Ask, Serve, AnswerBad, Fail

LEMMA FinalizersStep ==
    TypeOK /\ DoneHasData /\ Finalizers /\ [Next]_vars => Finalizers'
<1> SUFFICES ASSUME TypeOK, DoneHasData, Finalizers, [Next]_vars PROVE Finalizers'
  OBVIOUS
<1>1. CASE UNCHANGED <<fin, data>>
  BY <1>1 DEF Finalizers
<1>2. ASSUME NEW h \in Manifests, NEW c \in Chunks, ChunkStep(h, c) PROVE Finalizers'
  BY <1>2, DataGrows, ChunkFrame DEF Finalizers
<1>3. ASSUME NEW h \in Manifests, HandlerStep(h) PROVE Finalizers'
  BY <1>1, <1>3, HandlerFrame
<1>4. ASSUME NEW h \in Manifests, NEW w \in Workers, FileStep(h, w) \/ DiskError(h, w)
      PROVE  Finalizers'
  <2>1. data[h] = Chunks
    BY <1>4 DEF FileStep, Finalize, Claim, OpenFile, WriteChunk, VerifyFile, Announce,
                DiskError, Finalizers, DoneHasData, TypeOK
  <2>2. \A k \in Manifests \ {h} : fin'[k] = fin[k]
    BY <1>4 DEF FileStep, Finalize, Claim, OpenFile, WriteChunk, VerifyFile, Announce,
                DiskError, Goto, TypeOK
  <2> QED
    BY <1>4, <2>1, <2>2, FileFrame DEF Finalizers
<1>5. ASSUME NEW n \in Nodes, Restart(n) PROVE Finalizers'
  BY <1>5, RestartFrame DEF Finalizers
<1> QED
  BY <1>1, <1>2, <1>3, <1>4, <1>5 DEF Next, vars, Seed, SendManifest, LoseManifest

LEMMA CompleteIsWholeStep ==
    TypeOK /\ Finalizers /\ CompleteIsWhole /\ [Next]_vars => CompleteIsWhole'
<1> SUFFICES ASSUME TypeOK, Finalizers, CompleteIsWhole, [Next]_vars
             PROVE  CompleteIsWhole'
  OBVIOUS
<1>1. CASE UNCHANGED <<completed, data>>
  BY <1>1 DEF CompleteIsWhole
<1>2. ASSUME NEW h \in Manifests, NEW c \in Chunks, ChunkStep(h, c)
      PROVE  CompleteIsWhole'
  BY <1>2, DataGrows, ChunkFrame DEF CompleteIsWhole
<1>3. ASSUME NEW h \in Manifests, NEW w \in Workers, FileStep(h, w) \/ DiskError(h, w)
      PROVE  CompleteIsWhole'
  <2>1. CASE Claim(h, w)
    BY <2>1 DEF Claim, Finalizers, CompleteIsWhole, TypeOK
  <2>2. CASE completed' = completed
    BY <1>1, <1>3, <2>2, FileFrame
  <2> QED
    BY <1>3, <2>1, <2>2
    DEF FileStep, Finalize, OpenFile, WriteChunk, VerifyFile, Announce, DiskError
<1>4. ASSUME NEW h \in Manifests, HandlerStep(h) PROVE CompleteIsWhole'
  BY <1>1, <1>4, HandlerFrame
<1>5. ASSUME NEW n \in Nodes, Restart(n) PROVE CompleteIsWhole'
  BY <1>5, RestartFrame DEF CompleteIsWhole
<1> QED
  BY <1>1, <1>2, <1>3, <1>4, <1>5 DEF Next, vars, Seed, SendManifest, LoseManifest

(* The chunks of a running swarm.                                          *)
Has(h, c) == c \in todo[h] \union asked[h] \union done[h]

Elsewhere(h, c) ==
    \E k \in Manifests \ {h} : to[k] = to[h] /\ file[k] = file[h] /\ c \in data[k]

\* A chunk that a swarm loses has gone to the registered one.
LEMMA ChunkMoves ==
    ASSUME TypeOK, Owned, NEW h \in Manifests, NEW c \in Chunks, ChunkStep(h, c),
           NEW k \in Manifests, NEW d \in Chunks, Has(k, d), ~ Has(k, d)'
    PROVE  k = h /\ d = c /\ Registered(h) # h /\ Elsewhere(h, c)'
<1>1. CASE Ask(h, c) \/ Serve(h, c)
  BY <1>1 DEF Ask, Serve, Has, TypeOK
<1>2. CASE Answer(h, c)
  <2>1. to[h] \in Nodes /\ file[h] \in Files /\ Registered(h) # NoSwarm
    BY <1>2 DEF Answer, Arrives, TypeOK
  <2>2. /\ Registered(h) \in Manifests
        /\ to[Registered(h)] = to[h] /\ file[Registered(h)] = file[h]
    BY <2>1 DEF Owned, Registered, TypeOK
  <2>3. k = h /\ d = c /\ Registered(h) # h
    BY <1>2, <2>2 DEF Answer, Arrives, Has, TypeOK
  <2>4. c \in data'[Registered(h)]
    BY <1>2, <2>2 DEF Answer, TypeOK
  <2> QED
    BY <1>2, <2>2, <2>3, <2>4 DEF Answer, manifestVars, Elsewhere
<1>3. CASE AnswerBad(h, c)
  <2>1. todo'[k] = IF k \in {h, Registered(h)} THEN todo[k] \union {c} ELSE todo[k]
    BY <1>3 DEF AnswerBad
  <2>2. done'[k] = IF k \in {h, Registered(h)} THEN done[k] \ {c} ELSE done[k]
    BY <1>3 DEF AnswerBad
  <2>3. asked'[k] = IF k = h THEN asked[k] \ {c} ELSE asked[k]
    BY <1>3 DEF AnswerBad, Arrives, TypeOK
  <2> QED
    BY <2>1, <2>2, <2>3 DEF Has
<1>4. CASE Fail(h, c)
  BY <1>4 DEF Fail, Has, TypeOK
<1> QED
  BY <1>1, <1>2, <1>3, <1>4 DEF ChunkStep

LEMMA NothingLostStep ==
    TypeOK /\ Owned /\ Fresh /\ Untouched /\ NothingLost /\ [Next]_vars
        => NothingLost'
<1> SUFFICES ASSUME TypeOK, Owned, Fresh, Untouched, NothingLost, [Next]_vars,
                    NEW h \in Manifests, stage'[h] = "running",
                    NEW c \in Chunks, ~ Has(h, c)'
             PROVE  Registered(h)' # h /\ Elsewhere(h, c)'
  BY DEF NothingLost, Has, Elsewhere
<1>1. stage[h] = "running" /\ ~ Has(h, c) => Registered(h) # h /\ Elsewhere(h, c)
  BY DEF NothingLost, Has, Elsewhere
<1>2. CASE /\ stage[h] = "running"
           /\ UNCHANGED <<nodeVars, manifestVars, chunkVars>>
  <2>1. ~ Has(h, c)
    BY <1>2 DEF Has
  <2> QED
    BY <1>1, <1>2, <2>1 DEF Registered, Elsewhere
<1>3. ASSUME NEW n \in Nodes, NEW f \in Files, Seed(n, f)
      PROVE  Registered(h)' # h /\ Elsewhere(h, c)'
  BY <1>1, <1>3 DEF Seed, Has, Registered, Elsewhere
<1>4. ASSUME NEW n \in Nodes, NEW m \in Nodes, NEW f \in Files, NEW k \in Manifests,
             SendManifest(n, m, f, k)
      PROVE  Registered(h)' # h /\ Elsewhere(h, c)'
  <2>1. /\ k # h /\ stage[h] = "running" /\ stage[k] = "unused" /\ data' = data
        /\ to'[h] = to[h] /\ file'[h] = file[h] /\ swarms' = swarms
        /\ \A j \in Manifests \ {k} : to'[j] = to[j] /\ file'[j] = file[j]
    BY <1>4 DEF SendManifest, TypeOK
  <2>2. Registered(h) # h /\ Elsewhere(h, c)
    BY <1>1, <1>4, <2>1 DEF SendManifest, Has
  <2>3. PICK j \in Manifests \ {h} :
           to[j] = to[h] /\ file[j] = file[h] /\ c \in data[j]
    BY <2>2 DEF Elsewhere
  <2>4. j # k
    BY <2>1, <2>3 DEF Fresh
  <2> QED
    BY <2>1, <2>2, <2>3, <2>4 DEF Registered, Elsewhere
<1>5. ASSUME NEW k \in Manifests, LoseManifest(k)
      PROVE  Registered(h)' # h /\ Elsewhere(h, c)'
  <2>1. stage[h] = "running"
    BY <1>5 DEF LoseManifest, TypeOK
  <2> QED
    BY <1>2, <1>5, <2>1 DEF LoseManifest
<1>6. ASSUME NEW k \in Manifests, HandlerStep(k)
      PROVE  Registered(h)' # h /\ Elsewhere(h, c)'
  <2>1. UNCHANGED <<manifestVars, chunkVars>>
    BY <1>6, HandlerFrame
  <2>2. stage[h] = "running"
    <3>1. stage[h] \notin {"running", "ended"} => Has(h, c)'
      BY <2>1 DEF Untouched, Has
    <3>2. stage[h] = "ended" => stage'[h] = "ended"
      BY <1>6, HandlerFrame
    <3> QED
      BY <3>1, <3>2
  <2>3. Registered(h) # h /\ Elsewhere(h, c)
    BY <1>1, <2>1, <2>2 DEF Has
  <2>4. Registered(h)' # h
    <3>1. CASE swarms' = swarms
      BY <2>1, <2>3, <3>1 DEF Registered
    <3>2. CASE stage[k] = "absent" /\ swarms' = [swarms EXCEPT ![to[k]][file[k]] = k]
      <4>1. /\ to[k] \in Nodes /\ file[k] \in Files /\ k # h
            /\ to[h] \in Nodes /\ file[h] \in Files
        BY <2>2, <3>2 DEF TypeOK
      <4>2. swarms'[to[h]][file[h]] \in {k, swarms[to[h]][file[h]]}
        BY <3>2, <4>1 DEF TypeOK
      <4> QED
        BY <2>1, <2>3, <4>1, <4>2 DEF Registered
    <3> QED
      BY <1>6, <3>1, <3>2, HandlerFrame
  <2> QED
    BY <2>1, <2>3, <2>4 DEF Elsewhere
<1>7. ASSUME NEW k \in Manifests, NEW w \in Workers, FileStep(k, w) \/ DiskError(k, w)
      PROVE  Registered(h)' # h /\ Elsewhere(h, c)'
  BY <1>2, <1>7, FileFrame
<1>8. ASSUME NEW k \in Manifests, NEW d \in Chunks, ChunkStep(k, d)
      PROVE  Registered(h)' # h /\ Elsewhere(h, c)'
  <2>1. UNCHANGED <<nodeVars, manifestVars, stage>>
    BY <1>8, ChunkFrame
  <2>2. CASE Has(h, c)
    BY <1>8, <2>1, <2>2, ChunkMoves DEF Registered
  <2>3. CASE ~ Has(h, c)
    <3>1. \A j \in Manifests : data[j] \subseteq data'[j]
      BY <1>8, DataGrows
    <3>2. Registered(h) # h /\ Elsewhere(h, c)
      BY <1>1, <1>8, <2>1, <2>3
    <3> QED
      BY <2>1, <3>1, <3>2 DEF Registered, Elsewhere
  <2> QED
    BY <2>2, <2>3
<1>9. ASSUME NEW n \in Nodes, Restart(n)
      PROVE  Registered(h)' # h /\ Elsewhere(h, c)'
  <2>1. stage[h] = "running" /\ to[h] # n /\ ~ Has(h, c)
    BY <1>9, RestartFrame DEF Has
  <2>2. swarms'[to[h]][file[h]] = swarms[to[h]][file[h]]
    <3>1. to[h] \in Nodes /\ file[h] \in Files
      BY <2>1 DEF TypeOK
    <3>2. swarms' = [swarms EXCEPT ![n] = [f \in Files |-> NoSwarm]]
      BY <1>9, RestartFrame
    <3>3. swarms \in [Nodes -> [Files -> Manifests \union {NoSwarm}]]
      BY DEF TypeOK
    <3> QED
      BY <2>1, <3>1, <3>2, <3>3
  <2>3. Registered(h) # h /\ Elsewhere(h, c)
    BY <1>1, <2>1
  <2> QED
    BY <1>9, <2>1, <2>2, <2>3, RestartFrame DEF Registered, Elsewhere
<1>10. CASE UNCHANGED vars
  BY <1>2, <1>10 DEF vars
<1> QED
  BY <1>3, <1>4, <1>5, <1>6, <1>7, <1>8, <1>9, <1>10 DEF Next

-----------------------------------------------------------------------------
LEMMA IInvInit == Init => IInv
BY ManifestFacts
DEF Init, IInv, Owned, Fresh, SelfStops, Untouched, DoneHasData, Finalizers,
    NothingLost, CompleteIsWhole, NeverFromItself

LEMMA IInvStep == TypeOK /\ IInv /\ [Next]_vars => IInv'
BY OwnedStep, FreshStep, SelfStopsStep, UntouchedStep, DoneHasDataStep,
   FinalizersStep, NothingLostStep, CompleteIsWholeStep, NeverFromItselfStep DEF IInv

LEMMA Inductive == Spec => []IInv
<1>1. Init => IInv
  BY IInvInit
<1>2. TypeOK /\ IInv /\ [Next]_vars => IInv'
  BY IInvStep
<1> QED
  BY <1>1, <1>2, TypeCorrect, PTL DEF Spec

(* A chunk of a running swarm is queued, asked for or done, and if it is   *)
(* not, the swarm is an orphan and another swarm of the file got the chunk *)
(* (request_chunk_sync gives the answer to the swarm in `swarms').         *)
THEOREM NoChunkLost == Spec => []NothingLost
<1>1. IInv => NothingLost
  BY DEF IInv
<1> QED
  BY <1>1, Inductive, PTL

(* A swarm that completes has the bytes of every chunk, whichever swarm's  *)
(* workers asked for them.                                                 *)
THEOREM WholeWhenComplete == Spec => []CompleteIsWhole
<1>1. IInv => CompleteIsWhole
  BY DEF IInv
<1> QED
  BY <1>1, Inductive, PTL

(* A node is never a source of its own download: seed_file records the     *)
(* file before the first MANIFEST leaves.                                  *)
THEOREM NotItsOwnSource == Spec => []NeverFromItself
<1>1. IInv => NeverFromItself
  BY DEF IInv
<1> QED
  BY <1>1, Inductive, PTL

-----------------------------------------------------------------------------
(* Where the sources of a swarm come from.                                 *)

\* A manifest that was not sent has no receiver.
Blank ==
    \A h \in Manifests : stage[h] = "unused" => to[h] = NoNode

\* The nodes that have sent the file of manifest h to its receiver.
Offerers(h) ==
    {from[k] : k \in {j \in Manifests :
        stage[j] # "unused" /\ to[j] = to[h] /\ file[j] = file[h]}}

Sourced ==
    \A h \in Manifests : \A i \in DOMAIN sources[h] : sources[h][i] \in Offerers(h)

\* Without restarts the sender of a manifest keeps the file.
Kept ==
    restarts = 0 =>
        \A h \in Manifests : stage[h] # "unused" => file[h] \in localFiles[from[h]]

\* Without restarts a registered swarm runs, or is about to.
RegisteredRuns ==
    restarts = 0 =>
        \A n \in Nodes, f \in Files :
            swarms[n][f] # NoSwarm =>
                stage[swarms[n][f]] \in {"registered", "sourced", "running"}

Sources == Blank /\ Sourced /\ Kept /\ RegisteredRuns

(* A manifest that has been sent stays what it is.                         *)
LEMMA SentStays ==
    ASSUME TypeOK, [Next]_vars, NEW k \in Manifests, stage[k] # "unused"
    PROVE  /\ stage'[k] # "unused"
           /\ from'[k] = from[k] /\ to'[k] = to[k] /\ file'[k] = file[k]
<1>1. CASE UNCHANGED <<manifestVars, stage>>
  BY <1>1
<1>2. ASSUME NEW n \in Nodes, NEW m \in Nodes, NEW f \in Files, NEW h \in Manifests,
             SendManifest(n, m, f, h)
      PROVE  /\ stage'[k] # "unused"
             /\ from'[k] = from[k] /\ to'[k] = to[k] /\ file'[k] = file[k]
  BY <1>2 DEF SendManifest, TypeOK
<1>3. ASSUME NEW h \in Manifests, LoseManifest(h) \/ HandlerStep(h)
      PROVE  /\ stage'[k] # "unused"
             /\ from'[k] = from[k] /\ to'[k] = to[k] /\ file'[k] = file[k]
  BY <1>3, HandlerFrame DEF LoseManifest, TypeOK
<1>4. ASSUME NEW n \in Nodes, Restart(n)
      PROVE  /\ stage'[k] # "unused"
             /\ from'[k] = from[k] /\ to'[k] = to[k] /\ file'[k] = file[k]
  BY <1>4, RestartFrame
<1>5. ASSUME NEW h \in Manifests, NEW c \in Chunks, ChunkStep(h, c)
      PROVE  UNCHANGED <<manifestVars, stage>>
  BY <1>5, ChunkFrame
<1>6. ASSUME NEW h \in Manifests, NEW w \in Workers, FileStep(h, w) \/ DiskError(h, w)
      PROVE  UNCHANGED <<manifestVars, stage>>
  BY <1>6, FileFrame
<1> QED
  BY <1>1, <1>2, <1>3, <1>4, <1>5, <1>6 DEF Next, vars, Seed

LEMMA OfferersGrow ==
    ASSUME TypeOK, [Next]_vars, NEW h \in Manifests, stage[h] # "unused"
    PROVE  Offerers(h) \subseteq Offerers(h)'
BY SentStays DEF Offerers

LEMMA BlankStep == TypeOK /\ Blank /\ [Next]_vars => Blank'
<1> SUFFICES ASSUME TypeOK, Blank, [Next]_vars,
                    NEW k \in Manifests, stage'[k] = "unused"
             PROVE  to'[k] = NoNode
  BY DEF Blank
<1>1. stage[k] = "unused" /\ to[k] = NoNode
  BY SentStays DEF Blank
<1>2. ASSUME NEW n \in Nodes, NEW m \in Nodes, NEW f \in Files, NEW h \in Manifests,
             SendManifest(n, m, f, h)
      PROVE  to'[k] = to[k]
  BY <1>2 DEF SendManifest, TypeOK
<1>3. ASSUME NEW h \in Manifests, HandlerStep(h)
      PROVE  to'[k] = to[k]
  BY <1>3, HandlerFrame
<1>4. ASSUME NEW h \in Manifests, NEW c \in Chunks, ChunkStep(h, c)
      PROVE  to'[k] = to[k]
  BY <1>4, ChunkFrame
<1>5. ASSUME NEW h \in Manifests, NEW w \in Workers, FileStep(h, w) \/ DiskError(h, w)
      PROVE  to'[k] = to[k]
  BY <1>5, FileFrame
<1> QED
  BY <1>1, <1>2, <1>3, <1>4, <1>5 DEF Next, vars, Seed, LoseManifest, Restart

LEMMA AllAppended ==
    ASSUME NEW S, NEW s \in Seq(S), NEW e \in S, NEW T, e \in T,
           \A i \in DOMAIN s : s[i] \in T
    PROVE  \A i \in DOMAIN Append(s, e) : Append(s, e)[i] \in T
OBVIOUS

LEMMA SourcedStep ==
    TypeOK /\ Owned /\ Fresh /\ Sourced /\ [Next]_vars => Sourced'
<1> SUFFICES ASSUME TypeOK, Owned, Fresh, Sourced, [Next]_vars
             PROVE  Sourced'
  OBVIOUS
<1>1. CASE UNCHANGED sources
  <2> SUFFICES ASSUME NEW h \in Manifests, NEW i \in DOMAIN sources[h]
               PROVE  sources[h][i] \in Offerers(h)'
    BY <1>1 DEF Sourced
  <2>1. stage[h] # "unused"
    BY DEF Fresh
  <2> QED
    BY <2>1, OfferersGrow DEF Sourced
<1>2. ASSUME NEW h \in Manifests, NEW k \in Manifests, to[k] = to[h], file[k] = file[h],
             stage[h] \in {"known", "registered"}, stage[k] # "unused",
             sources' = [sources EXCEPT ![k] = Append(@, from[h])],
             UNCHANGED manifestVars
      PROVE  Sourced'
  <2>1. from[h] \in Nodes /\ sources \in [Manifests -> Seq(Nodes)]
    BY <1>2 DEF TypeOK
  <2>2. from[h] \in Offerers(k)
    BY <1>2 DEF Offerers
  <2>3. \A i \in DOMAIN Append(sources[k], from[h]) :
           Append(sources[k], from[h])[i] \in Offerers(k)
    <3> DEFINE s == sources[k]
               T == Offerers(k)
               e == from[h]
    <3>1. s \in Seq(Nodes) /\ e \in Nodes /\ e \in T /\ \A i \in DOMAIN s : s[i] \in T
      BY <2>1, <2>2 DEF Sourced
    <3> HIDE DEF s, T, e
    <3>2. \A i \in DOMAIN Append(s, e) : Append(s, e)[i] \in T
      BY <3>1, AllAppended
    <3> QED
      BY <3>2 DEF s, T, e
  <2>4. \A j \in Manifests :
           sources'[j] = IF j = k THEN Append(sources[k], from[h]) ELSE sources[j]
    BY <1>2, <2>1
  <2> SUFFICES ASSUME NEW j \in Manifests, NEW i \in DOMAIN sources'[j]
               PROVE  sources'[j][i] \in Offerers(j)'
    BY DEF Sourced
  <2>5. sources'[j][i] \in Offerers(j)
    BY <2>3, <2>4 DEF Sourced
  <2>6. stage[j] # "unused"
    BY <1>2, <2>4 DEF Fresh
  <2> QED
    BY <2>5, <2>6, OfferersGrow
<1>3. ASSUME NEW h \in Manifests, HandlerStep(h) PROVE Sourced'
  <2>1. CASE AddKnownSource(h)
    <3>1. to[h] \in Nodes /\ file[h] \in Files /\ Registered(h) # NoSwarm
      BY <2>1 DEF AddKnownSource, TypeOK
    <3>2. /\ Registered(h) \in Manifests /\ stage[Registered(h)] # "unused"
          /\ to[Registered(h)] = to[h] /\ file[Registered(h)] = file[h]
      BY <3>1 DEF Owned, Registered, TypeOK
    <3> QED
      BY <1>2, <2>1, <3>2 DEF AddKnownSource
  <2>2. CASE AddFirstSource(h)
    BY <1>2, <2>2 DEF AddFirstSource
  <2> QED
    BY <1>1, <1>3, <2>1, <2>2
    DEF HandlerStep, CheckLocal, CheckSwarms, Register, StartWorkers
<1>4. ASSUME NEW h \in Manifests, NEW c \in Chunks, ChunkStep(h, c)
      PROVE  Sourced'
  BY <1>1, <1>4, ChunkFrame
<1>5. ASSUME NEW h \in Manifests, NEW w \in Workers, FileStep(h, w) \/ DiskError(h, w)
      PROVE  Sourced'
  BY <1>1, <1>5, FileFrame
<1>6. ASSUME NEW n \in Nodes, Restart(n) PROVE Sourced'
  <2> SUFFICES ASSUME NEW h \in Manifests, NEW i \in DOMAIN sources'[h]
               PROVE  sources'[h][i] \in Offerers(h)'
    BY DEF Sourced
  <2>1. to[h] # n
    BY <1>6, RestartFrame
  <2>2. sources'[h] = sources[h] /\ stage[h] # "unused"
    BY <1>6, <2>1, RestartFrame DEF Fresh
  <2> QED
    BY <2>2, OfferersGrow DEF Sourced
<1> QED
  BY <1>1, <1>3, <1>4, <1>5, <1>6 DEF Next, vars, Seed, SendManifest, LoseManifest

LEMMA KeptStep == TypeOK /\ Kept /\ [Next]_vars => Kept'
<1> SUFFICES ASSUME TypeOK, Kept, [Next]_vars, restarts' = 0
             PROVE  Kept'
  BY DEF Kept
<1>1. ~ \E n \in Nodes : Restart(n)
  BY DEF Restart, TypeOK
<1>2. ASSUME NEW n \in Nodes, NEW f \in Files, Seed(n, f)
      PROVE  Kept'
  BY <1>2 DEF Seed, Kept, TypeOK
<1>3. ASSUME NEW n \in Nodes, NEW m \in Nodes, NEW f \in Files, NEW h \in Manifests,
             SendManifest(n, m, f, h)
      PROVE  Kept'
  BY <1>3 DEF SendManifest, Kept, TypeOK
<1>4. ASSUME NEW h \in Manifests, LoseManifest(h) \/ HandlerStep(h)
      PROVE  Kept'
  <2>1. UNCHANGED <<localFiles, manifestVars, restarts>>
        /\ \A k \in Manifests : stage'[k] # "unused" => stage[k] # "unused"
    BY <1>4, HandlerFrame DEF LoseManifest, TypeOK
  <2> QED
    BY <2>1 DEF Kept
<1>5. ASSUME NEW h \in Manifests, NEW c \in Chunks, ChunkStep(h, c)
      PROVE  Kept'
  BY <1>5, ChunkFrame DEF Kept
<1>6. ASSUME NEW h \in Manifests, NEW w \in Workers, FileStep(h, w) \/ DiskError(h, w)
      PROVE  Kept'
  BY <1>6, FileFrame DEF Kept
<1>7. CASE UNCHANGED vars
  BY <1>7 DEF vars, Kept
<1> QED
  BY <1>1, <1>2, <1>3, <1>4, <1>5, <1>6, <1>7 DEF Next

LEMMA RegisteredRunsStep == TypeOK /\ Owned /\ RegisteredRuns /\ [Next]_vars => RegisteredRuns'
<1> SUFFICES ASSUME TypeOK, Owned, RegisteredRuns, [Next]_vars, restarts' = 0,
                    NEW n \in Nodes, NEW f \in Files, swarms'[n][f] # NoSwarm
             PROVE  stage'[swarms'[n][f]] \in {"registered", "sourced", "running"}
  BY DEF RegisteredRuns
<1>1. ~ \E m \in Nodes : Restart(m)
  BY DEF Restart, TypeOK
<1>2. swarms[n][f] \in Manifests \union {NoSwarm}
  BY DEF TypeOK
<1>3. CASE UNCHANGED <<swarms, stage, restarts>>
  BY <1>3 DEF RegisteredRuns
<1>4. ASSUME NEW h \in Manifests, HandlerStep(h)
      PROVE  stage'[swarms'[n][f]] \in {"registered", "sourced", "running"}
  <2>1. CASE Register(h)
    <3>1. to[h] \in Nodes /\ file[h] \in Files /\ stage'[h] = "registered"
      BY <2>1 DEF Register, Advance, TypeOK
    <3>2. swarms'[n][f] = IF n = to[h] /\ f = file[h] THEN h ELSE swarms[n][f]
      BY <2>1, <3>1 DEF Register, TypeOK
    <3>3. restarts = 0
      BY <2>1 DEF Register
    <3> QED
      BY <1>2, <2>1, <3>1, <3>2, <3>3 DEF Register, Advance, RegisteredRuns, TypeOK
  <2>2. CASE ~Register(h)
    <3>1. /\ swarms' = swarms /\ restarts = 0
          /\ stage[h] \in {"registered", "sourced"} => stage'[h] \in {"sourced", "running"}
          /\ stage[h] # "running"
          /\ \A k \in Manifests \ {h} : stage'[k] = stage[k]
      BY <1>4, <2>2 DEF HandlerStep, CheckLocal, CheckSwarms, AddKnownSource,
         AddFirstSource, StartWorkers, Advance, TypeOK
    <3>2. swarms[n][f] # NoSwarm
             /\ stage[swarms[n][f]] \in {"registered", "sourced", "running"}
      BY <3>1 DEF RegisteredRuns
    <3> QED
      BY <1>2, <3>1, <3>2
  <2> QED
    BY <2>1, <2>2
<1>5. ASSUME NEW h \in Manifests,
             \/ LoseManifest(h)
             \/ \E m, k \in Nodes, g \in Files : SendManifest(m, k, g, h)
      PROVE  stage'[swarms'[n][f]] \in {"registered", "sourced", "running"}
  <2>1. /\ swarms' = swarms /\ restarts = 0 /\ stage[h] \in {"unused", "sent"}
        /\ \A k \in Manifests \ {h} : stage'[k] = stage[k]
    BY <1>5 DEF LoseManifest, SendManifest, TypeOK
  <2>2. swarms[n][f] # NoSwarm
           /\ stage[swarms[n][f]] \in {"registered", "sourced", "running"}
    BY <2>1 DEF RegisteredRuns
  <2> QED
    BY <1>2, <2>1, <2>2
<1>6. ASSUME NEW h \in Manifests, NEW c \in Chunks, ChunkStep(h, c)
      PROVE  UNCHANGED <<swarms, stage, restarts>>
  BY <1>6, ChunkFrame
<1>7. ASSUME NEW h \in Manifests, NEW w \in Workers, FileStep(h, w) \/ DiskError(h, w)
      PROVE  UNCHANGED <<swarms, stage, restarts>>
  BY <1>7, FileFrame
<1> QED
  BY <1>1, <1>3, <1>4, <1>5, <1>6, <1>7 DEF Next, vars, Seed

LEMMA SourcesInvariance == Spec => []Sources
<1>1. Init => Sources
  BY ManifestFacts
  DEF Init, Sources, Blank, Sourced, Kept, RegisteredRuns
<1>2. TypeOK /\ IInv /\ Sources /\ [Next]_vars => Sources'
  BY BlankStep, SourcedStep, KeptStep, RegisteredRunsStep DEF Sources, IInv
<1> QED
  BY <1>1, <1>2, TypeCorrect, Inductive, PTL DEF Spec

(* Without restarts no download is ever stuck: the swarm that `swarms' has *)
(* for a file runs, or its thread is about to start it, it can ask for     *)
(* every chunk that it does not have, and its first source will answer.    *)
THEOREM DownloadCanGoOn == Spec => []RegisteredCanGoOn
<1>1. TypeOK /\ IInv /\ Sources => RegisteredCanGoOn
  <2> SUFFICES ASSUME TypeOK, IInv, Sources, restarts = 0,
                      NEW n \in Nodes, NEW f \in Files, swarms[n][f] # NoSwarm
               PROVE  /\ stage[swarms[n][f]] \in {"registered", "sourced", "running"}
                      /\ stage[swarms[n][f]] = "running" =>
                            /\ Served(swarms[n][f])
                            /\ Chunks = todo[swarms[n][f]] \union asked[swarms[n][f]]
                                           \union done[swarms[n][f]]
    BY DEF RegisteredCanGoOn
  <2> DEFINE h == swarms[n][f]
  <2>1. h \in Manifests /\ to[h] = n /\ file[h] = f /\ Registered(h) = h
    BY DEF TypeOK, IInv, Owned, Registered
  <2>2. stage[h] \in {"registered", "sourced", "running"}
    BY DEF Sources, RegisteredRuns
  <2> HIDE DEF h
  <2>3. ASSUME stage[h] = "running" PROVE Served(h)
    <3>1. sources[h] \in Seq(Nodes) /\ sources[h] # <<>>
      BY <2>1, <2>3 DEF TypeOK
    <3>2. 1 \in DOMAIN sources[h] /\ Head(sources[h]) = sources[h][1]
      BY <3>1
    <3>3. Head(sources[h]) \in Offerers(h)
      BY <2>1, <3>2 DEF Sources, Sourced
    <3> QED
      BY <3>3 DEF Offerers, Sources, Kept, Served
  <2>4. ASSUME stage[h] = "running" PROVE Chunks = todo[h] \union asked[h] \union done[h]
    BY <2>1, <2>4 DEF IInv, NothingLost, TypeOK
  <2> QED
    BY <2>2, <2>3, <2>4 DEF h
<1> QED
  BY <1>1, TypeCorrect, Inductive, SourcesInvariance, PTL

-----------------------------------------------------------------------------
(* What is missing of a saved file.                                        *)

\* A worker starts to write at the beginning.
Idle ==
    \A h \in Manifests, w \in Workers : fin[h][w] # "write" => pos[h][w] = 0

WholeOnDisk(n, f) == \A c \in Chunks : disk[n][Name(f)][c] = f

\* Worker w of swarm h will write all that is missing of file f on n.
Mender(n, f, h, w) ==
    /\ to[h] = n /\ file[h] = f /\ fin[h][w] = "write"
    /\ \A c \in Chunks : disk[n][Name(f)][c] # f => pos[h][w] <= c

\* The file f has been read back whole on n.
ReadBack(n, f) ==
    \/ f \in saved[n]
    \/ \E h \in Manifests, w \in Workers :
          to[h] = n /\ file[h] = f /\ fin[h][w] = "announce"

Settled(n, f) ==
    ReadBack(n, f) =>
        WholeOnDisk(n, f) \/ \E h \in Manifests, w \in Workers : Mender(n, f, h, w)

Mended ==
    ~diskFailed /\ restarts = 0 /\ NamesDiffer =>
        \A n \in Nodes, f \in Files : Settled(n, f)

LEMMA IdleStep == TypeOK /\ Idle /\ [Next]_vars => Idle'
<1> SUFFICES ASSUME TypeOK, Idle, [Next]_vars PROVE Idle'
  OBVIOUS
<1>1. CASE UNCHANGED <<fin, pos>>
  BY <1>1 DEF Idle
<1>2. ASSUME NEW h \in Manifests, NEW w \in Workers, FileStep(h, w) \/ DiskError(h, w)
      PROVE  Idle'
  <2>1. /\ fin \in [Manifests -> [Workers -> FilePoint]]
        /\ pos \in [Manifests -> [Workers -> Chunks]]
    BY DEF TypeOK
  <2>2. ASSUME NEW p, NEW q, Goto(h, w, p), pos' = [pos EXCEPT ![h][w] = q],
               p = "write" \/ q = 0
        PROVE  Idle'
    BY <2>1, <2>2 DEF Goto, Idle
  <2>3. CASE WriteChunk(h, w)
    BY <2>2, <2>3 DEF WriteChunk
  <2>4. CASE DiskError(h, w)
    BY <2>2, <2>4 DEF DiskError
  <2>5. ASSUME NEW p, Goto(h, w, p), UNCHANGED pos, fin[h][w] # "write"
        PROVE  Idle'
    BY <2>1, <2>5 DEF Goto, Idle
  <2> QED
    BY <1>2, <2>3, <2>4, <2>5
    DEF FileStep, Finalize, Claim, OpenFile, VerifyFile, Announce
<1>3. ASSUME NEW n \in Nodes, Restart(n) PROVE Idle'
  <2>1. \A h \in Manifests, w \in Workers : to[h] = n => pos'[h][w] = 0
    BY <1>3 DEF Restart, Forgotten
  <2> QED
    BY <1>3, <2>1, RestartFrame DEF Idle
<1> QED
  BY <1>1, <1>2, <1>3, HandlerFrame, ChunkFrame
  DEF Next, vars, Seed, SendManifest, LoseManifest

(* Another file, another path.                                             *)
LEMMA SettledElsewhere ==
    ASSUME TypeOK, NamesDiffer, NEW h \in Manifests, NEW w \in Workers, FileStep(h, w),
           NEW n \in Nodes, NEW f \in Files, n # to[h] \/ f # file[h], Settled(n, f)
    PROVE  Settled(n, f)'
<1>1. to[h] \in Nodes /\ file[h] \in Files
  BY DEF FileStep, Finalize, Claim, OpenFile, WriteChunk, VerifyFile, Announce, TypeOK
<1>2. Name(f) \in Names /\ Name(file[h]) \in Names
  BY <1>1, ManifestFacts
<1>3. f # file[h] => Name(f) # Name(file[h])
  BY <1>1 DEF NamesDiffer
<1>4. disk'[n][Name(f)] = disk[n][Name(f)]
  <2>1. disk \in [Nodes -> [Names -> [Chunks -> Files \union {NoFile}]]]
    BY DEF TypeOK
  <2>2. CASE OpenFile(h, w)
    BY <1>1, <1>2, <1>3, <2>1, <2>2 DEF OpenFile
  <2>3. CASE WriteChunk(h, w)
    BY <1>1, <1>2, <1>3, <2>1, <2>3 DEF WriteChunk
  <2> QED
    BY <2>2, <2>3 DEF FileStep, Finalize, Claim, VerifyFile, Announce
<1>5. f \in saved'[n] <=> f \in saved[n]
  BY <1>1 DEF FileStep, Finalize, Claim, OpenFile, WriteChunk, VerifyFile, Announce, TypeOK
<1>6. /\ UNCHANGED <<to, file>>
      /\ \A k \in Manifests \ {h} : fin'[k] = fin[k] /\ pos'[k] = pos[k]
  BY DEF FileStep, Finalize, Claim, OpenFile, WriteChunk, VerifyFile, Announce, Goto, TypeOK
<1>7. ReadBack(n, f)' => ReadBack(n, f)
  BY <1>5, <1>6 DEF ReadBack
<1>8. WholeOnDisk(n, f) => WholeOnDisk(n, f)'
  BY <1>4 DEF WholeOnDisk
<1>9. ASSUME NEW k \in Manifests, NEW v \in Workers, Mender(n, f, k, v)
      PROVE  Mender(n, f, k, v)'
  BY <1>4, <1>6, <1>9 DEF Mender
<1> QED
  BY <1>7, <1>8, <1>9 DEF Settled

(* The file whose workers take the step.                                   *)
LEMMA SettledHere ==
    ASSUME TypeOK, IInv, Idle, NEW h \in Manifests, NEW w \in Workers, FileStep(h, w),
           NEW n \in Nodes, NEW f \in Files, n = to[h], f = file[h], Settled(n, f)
    PROVE  Settled(n, f)'
<1>1. /\ fin \in [Manifests -> [Workers -> FilePoint]]
      /\ pos \in [Manifests -> [Workers -> Chunks]]
      /\ disk \in [Nodes -> [Names -> [Chunks -> Files \union {NoFile}]]]
      /\ Name(f) \in Names
  BY ManifestFacts DEF TypeOK
<1>2. ASSUME NEW p, p # "announce", Goto(h, w, p), fin[h][w] # "write",
             UNCHANGED <<to, file, disk, saved, pos>>
      PROVE  Settled(n, f)'
  <2>1. ReadBack(n, f)' => ReadBack(n, f)
    BY <1>1, <1>2 DEF Goto, ReadBack
  <2>2. WholeOnDisk(n, f)' <=> WholeOnDisk(n, f)
    BY <1>2 DEF WholeOnDisk
  <2>3. ASSUME NEW k \in Manifests, NEW v \in Workers, Mender(n, f, k, v)
        PROVE  Mender(n, f, k, v)'
    BY <1>1, <1>2, <2>3 DEF Goto, Mender
  <2> QED
    BY <2>1, <2>2, <2>3 DEF Settled
<1>3. CASE OpenFile(h, w)
  <2>1. pos'[h][w] = 0 /\ fin'[h][w] = "write" /\ UNCHANGED <<to, file>>
    BY <1>1, <1>3 DEF OpenFile, Goto, Idle
  <2>2. Mender(n, f, h, w)'
    BY <2>1 DEF Mender, Chunks
  <2> QED
    BY <2>2 DEF Settled
<1>4. CASE WriteChunk(h, w)
  <2> DEFINE q == pos[h][w]
  <2>1. q \in Chunks /\ fin[h][w] = "write" /\ data[h] = Chunks
    BY <1>1, <1>4 DEF WriteChunk, IInv, Finalizers
  <2>2. /\ UNCHANGED <<to, file, saved>>
        /\ \A c \in Chunks :
              disk'[n][Name(f)][c] = IF c = q THEN f ELSE disk[n][Name(f)][c]
    BY <1>1, <1>4, <2>1 DEF WriteChunk
  <2>3. /\ \A k \in Manifests, v \in Workers :
              k # h \/ v # w => fin'[k][v] = fin[k][v] /\ pos'[k][v] = pos[k][v]
        /\ fin'[h][w] # "announce"
        /\ q + 1 # NbChunks => fin'[h][w] = "write" /\ pos'[h][w] = q + 1
    BY <1>1, <1>4 DEF WriteChunk, Goto
  <2> HIDE DEF q
  <2>4. ReadBack(n, f)' => ReadBack(n, f)
    BY <2>2, <2>3 DEF ReadBack
  <2>5. WholeOnDisk(n, f) => WholeOnDisk(n, f)'
    BY <2>2 DEF WholeOnDisk
  <2>6. ASSUME NEW k \in Manifests, NEW v \in Workers, k # h \/ v # w,
               Mender(n, f, k, v)
        PROVE  Mender(n, f, k, v)'
    BY <2>2, <2>3, <2>6 DEF Mender
  <2>7. ASSUME Mender(n, f, h, w)
        PROVE  WholeOnDisk(n, f)' \/ Mender(n, f, h, w)'
    <3>1. \A c \in Chunks : disk[n][Name(f)][c] # f => q <= c
      BY <2>7 DEF Mender, q
    <3>2. \A c \in Chunks : disk'[n][Name(f)][c] # f => q + 1 <= c
      BY <2>1, <2>2, <3>1 DEF Chunks
    <3>3. CASE q + 1 = NbChunks
      BY <3>2, <3>3, TransferAssumption DEF WholeOnDisk, Chunks
    <3>4. CASE q + 1 # NbChunks
      BY <2>2, <2>3, <3>2, <3>4 DEF Mender
    <3> QED
      BY <3>3, <3>4
  <2> QED
    BY <2>4, <2>5, <2>6, <2>7 DEF Settled
<1>5. CASE VerifyFile(h, w) /\ disk[n][Name(f)] = Whole(f)
  <2>1. WholeOnDisk(n, f)'
    BY <1>5 DEF VerifyFile, WholeOnDisk, Whole
  <2> QED
    BY <2>1 DEF Settled
<1>6. CASE Announce(h, w)
  <2>1. fin[h][w] = "announce" /\ Goto(h, w, "loop") /\ UNCHANGED <<to, file, disk, pos>>
    BY <1>6 DEF Announce
  <2>2. ReadBack(n, f)
    BY <2>1 DEF ReadBack
  <2>3. WholeOnDisk(n, f)' <=> WholeOnDisk(n, f)
    BY <2>1 DEF WholeOnDisk
  <2>4. ASSUME NEW k \in Manifests, NEW v \in Workers, Mender(n, f, k, v)
        PROVE  Mender(n, f, k, v)'
    BY <1>1, <2>1, <2>4 DEF Goto, Mender
  <2> QED
    BY <2>2, <2>3, <2>4 DEF Settled
<1>7. CASE \/ Finalize(h, w) \/ Claim(h, w)
           \/ VerifyFile(h, w) /\ disk[n][Name(f)] # Whole(f)
  BY <1>2, <1>7 DEF Finalize, Claim, VerifyFile
<1> QED
  BY <1>3, <1>4, <1>5, <1>6, <1>7 DEF FileStep

LEMMA MendedStep ==
    TypeOK /\ IInv /\ Blank /\ Idle /\ Mended /\ [Next]_vars => Mended'
<1> SUFFICES ASSUME TypeOK, IInv, Blank, Idle, Mended, [Next]_vars,
                    ~diskFailed', restarts' = 0, NamesDiffer,
                    NEW n \in Nodes, NEW f \in Files
             PROVE  Settled(n, f)'
  BY DEF Mended, NamesDiffer
<1>1. ASSUME ~diskFailed, restarts = 0 PROVE Settled(n, f)
  BY <1>1 DEF Mended
<1>2. CASE UNCHANGED <<to, file, outputVars, restarts>>
  BY <1>1, <1>2 DEF Settled, ReadBack, WholeOnDisk, Mender
<1>3. ASSUME NEW k \in Nodes, NEW m \in Nodes, NEW g \in Files, NEW h \in Manifests,
             SendManifest(k, m, g, h)
      PROVE  Settled(n, f)'
  <2>1. /\ to[h] # n /\ \A w \in Workers : fin[h][w] = "loop"
        /\ \A j \in Manifests \ {h} : to'[j] = to[j] /\ file'[j] = file[j]
        /\ UNCHANGED <<outputVars, restarts>>
    BY <1>3, TransferAssumption DEF SendManifest, Blank, TypeOK
  <2>2. ReadBack(n, f)' => ReadBack(n, f)
    BY <2>1 DEF ReadBack
  <2>3. WholeOnDisk(n, f) => WholeOnDisk(n, f)'
    BY <2>1 DEF WholeOnDisk
  <2>4. ASSUME NEW j \in Manifests, NEW w \in Workers, Mender(n, f, j, w)
        PROVE  Mender(n, f, j, w)'
    BY <2>1, <2>4 DEF Mender
  <2> QED
    BY <1>1, <2>1, <2>2, <2>3, <2>4 DEF Settled
<1>4. ASSUME NEW h \in Manifests, NEW w \in Workers, FileStep(h, w)
      PROVE  Settled(n, f)'
  <2>1. ~diskFailed /\ restarts = 0
    <3>1. diskFailed' = diskFailed
      BY <1>4 DEF FileStep, Finalize, Claim, OpenFile, WriteChunk, VerifyFile, Announce
    <3>2. restarts' = restarts
      BY <1>4, FileFrame
    <3> QED
      BY <3>1, <3>2
  <2> QED
    BY <1>1, <1>4, <2>1, SettledElsewhere, SettledHere
<1>5. ~ \E m \in Nodes : Restart(m)
  BY DEF Restart, TypeOK
<1>6. ~ \E h \in Manifests, w \in Workers : DiskError(h, w)
  BY DEF DiskError
<1>7. ASSUME NEW h \in Manifests, HandlerStep(h)
      PROVE  UNCHANGED <<to, file, outputVars, restarts>>
  BY <1>7, HandlerFrame
<1>8. ASSUME NEW h \in Manifests, NEW c \in Chunks, ChunkStep(h, c)
      PROVE  UNCHANGED <<to, file, outputVars, restarts>>
  BY <1>8, ChunkFrame
<1> QED
  BY <1>2, <1>3, <1>4, <1>5, <1>6, <1>7, <1>8 DEF Next, vars, Seed, LoseManifest

(* Until the disk fails or a node restarts, and if no two files have the   *)
(* same name: what is missing of a saved file is ahead of a worker that is *)
(* writing it, however many workers of however many swarms truncate and    *)
(* write the same path.                                                    *)
THEOREM SavedAreMended == Spec => []SavedIsMended
<1>1. Init => Idle /\ Mended
  BY DEF Init, Idle, Mended, Settled, ReadBack
<1>2. TypeOK /\ IInv /\ Sources /\ Idle /\ Mended /\ [Next]_vars => Idle' /\ Mended'
  BY IdleStep, MendedStep DEF Sources
<1>3. TypeOK /\ Mended => SavedIsMended
  <2> SUFFICES ASSUME TypeOK, Mended, ~diskFailed, restarts = 0, NamesDiffer,
                      NEW n \in Nodes, NEW f \in saved[n]
               PROVE  LET missing == {c \in Chunks : disk[n][Name(f)][c] # f}
                      IN  missing # {} =>
                            \E h \in SwarmsOf(n, f), w \in Workers :
                                fin[h][w] = "write" /\ \A c \in missing : pos[h][w] <= c
    BY DEF SavedIsMended
  <2>1. WholeOnDisk(n, f) \/ \E h \in Manifests, w \in Workers : Mender(n, f, h, w)
    BY DEF TypeOK, Mended, Settled, ReadBack
  <2> QED
    BY <2>1 DEF WholeOnDisk, Mender, SwarmsOf
<1> QED
  BY <1>1, <1>2, <1>3, TypeCorrect, Inductive, SourcesInvariance, PTL DEF Spec

-----------------------------------------------------------------------------
(* The refinement of module Sharing.                                       *)

Offers == {<<from[h], to[h], file[h]>> : h \in {k \in Manifests : stage[k] # "unused"}}

LEMMA SharingInit == Init => Sh!Init
BY DEF Init, Sh!Init, SwarmsOf, Names, Nothing, Sh!Nothing

(* A step that sends no manifest makes no offer.                           *)
LEMMA NothingOffered ==
    ASSUME TypeOK, UNCHANGED manifestVars,
           \A k \in Manifests : stage'[k] = "unused" <=> stage[k] = "unused"
    PROVE  Offers' = Offers
BY DEF Offers

ComingTo(n, f) == UNION {answered[h] : h \in SwarmsOf(n, f)}
GotBy(n, f)    == UNION {data[h] : h \in SwarmsOf(n, f)}
CheckedBy(n)   == {f \in Files : \E h \in SwarmsOf(n, f) :
                      \E w \in Workers : fin[h][w] = "announce"}

Coming  == [n \in Nodes |-> [f \in Files |-> ComingTo(n, f)]]
Got     == [n \in Nodes |-> [f \in Files |-> GotBy(n, f)]]
Checked == [n \in Nodes |-> CheckedBy(n)]

(* One row of a table changes.                                             *)
LEMMA CheckedChanges ==
    ASSUME NEW n \in Nodes, NEW D, CheckedBy(n)' = D,
           \A m \in Nodes \ {n} : CheckedBy(m)' = CheckedBy(m)
    PROVE  Checked' = [Checked EXCEPT ![n] = D] /\ Checked[n] = CheckedBy(n)
BY DEF Checked

LEMMA RowErased ==
    ASSUME NEW n \in Nodes,
           \A m \in Nodes, f \in Files :
               /\ ComingTo(m, f)' = IF m = n THEN {} ELSE ComingTo(m, f)
               /\ GotBy(m, f)' = IF m = n THEN {} ELSE GotBy(m, f)
    PROVE  /\ Coming' = [Coming EXCEPT ![n] = [f \in Files |-> {}]]
           /\ Got' = [Got EXCEPT ![n] = [f \in Files |-> {}]]
<1>1. Coming' = [Coming EXCEPT ![n] = [f \in Files |-> {}]]
  BY DEF Coming
<1>2. Got' = [Got EXCEPT ![n] = [f \in Files |-> {}]]
  BY DEF Got
<1> QED
  BY <1>1, <1>2

LEMMA NothingElse ==
    ASSUME UNCHANGED <<to, file>>
    PROVE  /\ answered' = answered => Coming' = Coming
           /\ data' = data => Got' = Got
           /\ fin' = fin => Checked' = Checked
BY DEF Coming, ComingTo, Got, GotBy, Checked, CheckedBy, SwarmsOf

(* A manifest brings nothing with it.                                      *)
LEMMA NothingSent ==
    ASSUME TypeOK, IInv, Sources, NEW n \in Nodes, NEW m \in Nodes, NEW f \in Files,
           NEW h \in Manifests, SendManifest(n, m, f, h)
    PROVE  Coming' = Coming /\ Got' = Got /\ Checked' = Checked
<1>1. /\ to[h] = NoNode /\ answered[h] = {} /\ data[h] = {}
      /\ \A w \in Workers : fin[h][w] = "loop"
      /\ \A k \in Manifests \ {h} : to'[k] = to[k] /\ file'[k] = file[k]
      /\ UNCHANGED <<answered, data, fin>>
  BY DEF SendManifest, TypeOK, IInv, Fresh, Sources, Blank
<1>2. to[h] \notin Nodes
  BY <1>1, TransferAssumption
<1>3. ASSUME NEW k \in Nodes, NEW g \in Files
      PROVE  ComingTo(k, g)' = ComingTo(k, g) /\ GotBy(k, g)' = GotBy(k, g)
  <2>1. ComingTo(k, g)' = ComingTo(k, g)
    BY <1>1, <1>2 DEF ComingTo, SwarmsOf
  <2>2. GotBy(k, g)' = GotBy(k, g)
    BY <1>1, <1>2 DEF GotBy, SwarmsOf
  <2> QED
    BY <2>1, <2>2
<1>4. \A k \in Nodes : CheckedBy(k)' = CheckedBy(k)
  BY <1>1, <1>2 DEF CheckedBy, SwarmsOf
<1>5. Coming' = Coming
  BY <1>3 DEF Coming
<1>6. Got' = Got
  BY <1>3 DEF Got
<1>7. Checked' = Checked
  BY <1>4 DEF Checked
<1> QED
  BY <1>5, <1>6, <1>7

(* What arrives was on its way, and may still be (to another swarm).       *)
LEMMA ArrivesImplemented ==
    ASSUME TypeOK, NEW h \in Manifests, NEW c \in Chunks, Arrives(h, c),
           UNCHANGED <<to, file>>,
           NEW n \in Nodes, NEW f \in Files, n = to[h], f = file[h]
    PROVE  /\ c \in Coming[n][f]
           /\ Coming' \in {Coming, [Coming EXCEPT ![n][f] = @ \ {c}]}
<1>1. \A k \in Manifests :
         answered'[k] = IF k = h THEN answered[k] \ {c} ELSE answered[k]
  BY DEF Arrives, TypeOK
<1>2. ASSUME NEW m \in Nodes, NEW g \in Files, m # n \/ g # f
      PROVE  ComingTo(m, g)' = ComingTo(m, g)
  BY <1>1, <1>2 DEF ComingTo, SwarmsOf
<1>3. ComingTo(n, f)' \in {ComingTo(n, f), ComingTo(n, f) \ {c}}
  <2>1. \A d : d # c => (d \in ComingTo(n, f)' <=> d \in ComingTo(n, f))
    BY <1>1 DEF ComingTo, SwarmsOf
  <2>2. c \in ComingTo(n, f)' => c \in ComingTo(n, f)
    BY <1>1 DEF ComingTo, SwarmsOf
  <2> QED
    BY <2>1, <2>2
<1>4. c \in ComingTo(n, f)
  BY DEF ComingTo, SwarmsOf, Arrives
<1>5. CASE ComingTo(n, f)' = ComingTo(n, f)
  <2>1. \A m \in Nodes, g \in Files : ComingTo(m, g)' = ComingTo(m, g)
    BY <1>2, <1>5
  <2> QED
    BY <1>4, <2>1 DEF Coming
<1>6. CASE ComingTo(n, f)' = ComingTo(n, f) \ {c}
  <2>1. Coming' = [Coming EXCEPT ![n][f] = @ \ {c}]
    BY <1>2, <1>6 DEF Coming
  <2> QED
    BY <1>4, <2>1 DEF Coming
<1> QED
  BY <1>3, <1>5, <1>6

(* The chunks' steps.                                                      *)
LEMMA ServeImplemented ==
    ASSUME TypeOK, IInv, Sources, NEW h \in Manifests, NEW c \in Chunks, Serve(h, c),
           NEW n \in Nodes, NEW f \in Files, n = to[h], f = file[h]
    PROVE  \E m \in Nodes : Sh!Supply(m, n, f, c)
<1>1. sources[h] \in Seq(Nodes) /\ sources[h] # <<>>
  BY DEF Serve, TypeOK
<1>2. 1 \in DOMAIN sources[h] /\ Head(sources[h]) = sources[h][1]
  BY <1>1
<1>3. PICK m \in Nodes : m = Head(sources[h])
  BY <1>1, <1>2
<1>4. m # n /\ m \in Offerers(h)
  BY <1>2, <1>3 DEF IInv, NeverFromItself, Sources, Sourced
<1>5. <<m, n, f>> \in Offers
  BY <1>4 DEF Offerers, Offers
<1>6. /\ UNCHANGED <<localFiles, manifestVars, stage, data, fin, disk, saved>>
      /\ \A k \in Manifests :
            answered'[k] = IF k = h THEN answered[k] \union {c} ELSE answered[k]
  BY DEF Serve, TypeOK
<1>7. Coming' = [Coming EXCEPT ![n][f] = @ \union {c}]
  <2>1. ComingTo(n, f)' = ComingTo(n, f) \union {c}
    BY <1>6 DEF ComingTo, SwarmsOf
  <2>2. ASSUME NEW k \in Nodes, NEW g \in Files, k # n \/ g # f
        PROVE  ComingTo(k, g)' = ComingTo(k, g)
    BY <1>6, <2>2 DEF ComingTo, SwarmsOf
  <2> QED
    BY <2>1, <2>2 DEF Coming
<1>8. Offers' = Offers /\ Got' = Got /\ Checked' = Checked
  BY <1>6, NothingOffered, NothingElse
<1>9. Sh!Supply(m, n, f, c)
  BY <1>3, <1>4, <1>5, <1>6, <1>7, <1>8
  DEF Serve, Served, Sh!Supply, Offers, Coming, ComingTo, Got, GotBy,
      Checked, CheckedBy
<1> QED
  BY <1>9

LEMMA AnswerImplemented ==
    ASSUME TypeOK, IInv, NEW h \in Manifests, NEW c \in Chunks, Answer(h, c),
           NEW n \in Nodes, NEW f \in Files, n = to[h], f = file[h]
    PROVE  Sh!Receive(n, f, c)
<1>1. UNCHANGED <<localFiles, manifestVars, stage, fin, disk, saved>>
  BY DEF Answer
<1>2. /\ c \in Coming[n][f]
      /\ Coming' \in {Coming, [Coming EXCEPT ![n][f] = @ \ {c}]}
  BY <1>1, ArrivesImplemented DEF Answer
<1>3. /\ Registered(h) \in Manifests
      /\ to[Registered(h)] = n /\ file[Registered(h)] = f
  <2>1. Registered(h) # NoSwarm
    BY DEF Answer, Arrives, TypeOK
  <2> QED
    BY <2>1 DEF IInv, Owned, Registered, TypeOK
<1>4. \A k \in Manifests :
         data'[k] = IF k = Registered(h) THEN data[k] \union {c} ELSE data[k]
  BY DEF Answer, TypeOK
<1>5. Got' = [Got EXCEPT ![n][f] = @ \union {c}]
  <2>1. GotBy(n, f)' = GotBy(n, f) \union {c}
    BY <1>1, <1>3, <1>4 DEF GotBy, SwarmsOf
  <2>2. ASSUME NEW m \in Nodes, NEW g \in Files, m # n \/ g # f
        PROVE  GotBy(m, g)' = GotBy(m, g)
    BY <1>1, <1>3, <1>4, <2>2 DEF GotBy, SwarmsOf
  <2> QED
    BY <2>1, <2>2 DEF Got
<1>6. Offers' = Offers /\ Checked' = Checked
  BY <1>1, NothingOffered, NothingElse
<1> QED
  BY <1>1, <1>2, <1>5, <1>6
  DEF Sh!Receive, Sh!Arrives, Offers, Coming, ComingTo, Got, GotBy,
      Checked, CheckedBy

LEMMA AnswerBadImplemented ==
    ASSUME TypeOK, NEW h \in Manifests, NEW c \in Chunks, AnswerBad(h, c),
           NEW n \in Nodes, NEW f \in Files, n = to[h], f = file[h]
    PROVE  Sh!Refuse(n, f, c)
<1>1. UNCHANGED <<localFiles, manifestVars, stage, data, fin, disk, saved>>
  BY DEF AnswerBad
<1>2. /\ c \in Coming[n][f]
      /\ Coming' \in {Coming, [Coming EXCEPT ![n][f] = @ \ {c}]}
  BY <1>1, ArrivesImplemented DEF AnswerBad
<1>3. Offers' = Offers /\ Got' = Got /\ Checked' = Checked
  BY <1>1, NothingOffered, NothingElse
<1> QED
  BY <1>1, <1>2, <1>3
  DEF Sh!Refuse, Sh!Arrives, Offers, Coming, ComingTo, Got, GotBy,
      Checked, CheckedBy

(* The steps of _finalize.                                                 *)
LEMMA FileImplemented ==
    ASSUME TypeOK, IInv, NEW h \in Manifests, NEW w \in Workers,
           FileStep(h, w) \/ DiskError(h, w),
           NEW n \in Nodes, NEW f \in Files, n = to[h], f = file[h]
    PROVE  \/ Sh!Truncate(n, f) \/ \E c \in Chunks : Sh!Write(n, f, c)
           \/ Sh!Check(n, f) \/ Sh!Save(n, f)
           \/ UNCHANGED Sh!vars
<1>1. h \in SwarmsOf(n, f)
  BY DEF SwarmsOf
<1>2. UNCHANGED <<localFiles, manifestVars, stage, answered, data>>
  BY FileFrame
<1>3. Offers' = Offers /\ Coming' = Coming /\ Got' = Got
  BY <1>2, NothingOffered, NothingElse
<1>4. ASSUME fin[h][w] # "loop"
      PROVE  data[h] = Chunks /\ Got[n][f] = Chunks
  <2>1. data[h] = Chunks /\ \A k \in Manifests : data[k] \subseteq Chunks
    BY <1>4 DEF TypeOK, IInv, Finalizers
  <2>2. GotBy(n, f) = Chunks
    BY <1>1, <2>1 DEF GotBy, SwarmsOf
  <2> QED
    BY <1>1, <2>1, <2>2 DEF Got
<1>5. ASSUME NEW p, p # "announce", Goto(h, w, p), fin[h][w] # "announce"
      PROVE  Checked' = Checked
  <2>1. \A k \in Manifests, v \in Workers :
           fin'[k][v] = "announce" <=> fin[k][v] = "announce"
    BY <1>5 DEF Goto, TypeOK
  <2> QED
    BY <1>2, <2>1 DEF Checked, CheckedBy, SwarmsOf
<1>6. CASE OpenFile(h, w)
  <2>1. Checked' = Checked /\ Got[n][f] = Chunks
    BY <1>4, <1>5, <1>6 DEF OpenFile
  <2>2. Sh!Truncate(n, f)
    BY <1>2, <1>3, <1>6, <2>1
    DEF OpenFile, Nothing, Sh!Truncate, Sh!Nothing, Offers, Coming, ComingTo, Got, GotBy,
      Checked, CheckedBy
  <2> QED
    BY <1>1, <2>2
<1>7. CASE WriteChunk(h, w)
  <2>1. Checked' = Checked /\ Got[n][f] = Chunks /\ data[h] = Chunks
    BY <1>4, <1>5, <1>7 DEF WriteChunk
  <2>2. PICK c \in Chunks : c = pos[h][w]
    BY DEF TypeOK
  <2>3. Sh!Write(n, f, c)
    BY <1>2, <1>3, <1>7, <2>1, <2>2
    DEF WriteChunk, Sh!Write, Offers, Coming, ComingTo, Got, GotBy,
      Checked, CheckedBy
  <2> QED
    BY <2>3
<1>8. CASE VerifyFile(h, w) /\ disk[n][Name(f)] = Whole(f)
  <2>1. /\ fin'[h][w] = "announce"
        /\ \A k \in Manifests, v \in Workers :
              k # h \/ v # w => fin'[k][v] = fin[k][v]
        /\ fin[h][w] # "announce"
    BY <1>8 DEF VerifyFile, Goto, TypeOK
  <2>2. Checked' = [Checked EXCEPT ![n] = @ \union {f}]
    <3>1. CheckedBy(n)' = CheckedBy(n) \union {f}
      BY <1>1, <1>2, <2>1 DEF CheckedBy, SwarmsOf
    <3>2. \A m \in Nodes \ {n} : CheckedBy(m)' = CheckedBy(m)
      BY <1>1, <1>2, <2>1 DEF CheckedBy, SwarmsOf
    <3> QED
      BY <3>1, <3>2, CheckedChanges
  <2>3. Sh!Check(n, f)
    BY <1>2, <1>3, <1>8, <2>2
    DEF VerifyFile, Whole, Sh!Check, Offers, Coming, ComingTo, Got, GotBy,
      Checked, CheckedBy
  <2> QED
    BY <1>1, <2>3
<1>9. CASE Announce(h, w)
  <2>1. /\ fin[h][w] = "announce" /\ fin'[h][w] = "loop"
        /\ \A k \in Manifests, v \in Workers :
              k # h \/ v # w => fin'[k][v] = fin[k][v]
    BY <1>9 DEF Announce, Goto, TypeOK
  <2>2. f \in CheckedBy(n) /\ Checked[n] = CheckedBy(n)
        /\ Checked' \in {Checked, [Checked EXCEPT ![n] = @ \ {f}]}
    <3>1. \A m \in Nodes \ {n} : CheckedBy(m)' = CheckedBy(m)
      BY <1>1, <1>2, <2>1 DEF CheckedBy, SwarmsOf
    <3>2. \A g \in Files : g # f => (g \in CheckedBy(n)' <=> g \in CheckedBy(n))
      BY <1>1, <1>2, <2>1 DEF CheckedBy, SwarmsOf
    <3>3. CheckedBy(n) \subseteq Files /\ CheckedBy(n)' \subseteq Files
      BY DEF CheckedBy
    <3>4. f \in CheckedBy(n) /\ Checked[n] = CheckedBy(n)
      BY <1>1, <2>1 DEF Checked, CheckedBy, SwarmsOf
    <3>5. CASE f \in CheckedBy(n)'
      <4>1. CheckedBy(n)' = CheckedBy(n)
        BY <3>2, <3>3, <3>4, <3>5
      <4>2. \A m \in Nodes : CheckedBy(m)' = CheckedBy(m)
        BY <3>1, <4>1
      <4> QED
        BY <3>4, <4>2 DEF Checked
    <3>6. CASE f \notin CheckedBy(n)'
      <4>1. CheckedBy(n)' = CheckedBy(n) \ {f}
        BY <3>2, <3>3, <3>6
      <4> QED
        BY <3>1, <3>4, <4>1, CheckedChanges
    <3> QED
      BY <3>5, <3>6
  <2>3. Sh!Save(n, f)
    BY <1>1, <1>2, <1>3, <1>9, <2>2
    DEF Announce, Sh!Save, Offers, Coming, ComingTo, Got, GotBy,
      Checked, CheckedBy
  <2> QED
    BY <2>3
<1>10. CASE \/ Finalize(h, w) \/ Claim(h, w) \/ DiskError(h, w)
            \/ VerifyFile(h, w) /\ disk[n][Name(f)] # Whole(f)
  <2>1. Checked' = Checked
    BY <1>5, <1>10 DEF Finalize, Claim, DiskError, VerifyFile
  <2>2. UNCHANGED <<saved, disk>>
    BY <1>10 DEF Finalize, Claim, DiskError, VerifyFile
  <2>3. UNCHANGED Sh!vars
    BY <1>2, <1>3, <2>1, <2>2 DEF Sh!vars, Offers, Coming, ComingTo, Got, GotBy,
      Checked, CheckedBy
  <2> QED
    BY <1>1, <2>3
<1> QED
  BY <1>6, <1>7, <1>8, <1>9, <1>10 DEF FileStep

LEMMA RestartImplemented ==
    ASSUME TypeOK, Sources, NEW n \in Nodes, Restart(n)
    PROVE  Sh!Restart(n)
<1>1. \A k \in Manifests : stage'[k] = "unused" <=> stage[k] = "unused"
  BY RestartFrame, TransferAssumption DEF Sources, Blank
<1>2. Offers' = Offers
  BY <1>1, RestartFrame, NothingOffered
<1>3. ASSUME NEW m \in Nodes, NEW f \in Files
      PROVE  /\ ComingTo(m, f)' = IF m = n THEN {} ELSE ComingTo(m, f)
             /\ GotBy(m, f)' = IF m = n THEN {} ELSE GotBy(m, f)
  <2>1. ComingTo(m, f)' = IF m = n THEN {} ELSE ComingTo(m, f)
    BY RestartFrame DEF ComingTo, SwarmsOf
  <2>2. GotBy(m, f)' = IF m = n THEN {} ELSE GotBy(m, f)
    BY RestartFrame DEF GotBy, SwarmsOf
  <2> QED
    BY <2>1, <2>2
<1>4. Coming' = [Coming EXCEPT ![n] = [f \in Files |-> {}]]
  BY <1>3, RowErased
<1>5. Got' = [Got EXCEPT ![n] = [f \in Files |-> {}]]
  BY <1>3, RowErased
<1>6. Checked' = [Checked EXCEPT ![n] = {}]
  <2>1. CheckedBy(n)' = {}
    BY RestartFrame DEF CheckedBy, SwarmsOf
  <2>2. \A m \in Nodes \ {n} : CheckedBy(m)' = CheckedBy(m)
    BY RestartFrame DEF CheckedBy, SwarmsOf
  <2> QED
    BY <2>1, <2>2, CheckedChanges
<1> QED
  BY <1>2, <1>4, <1>5, <1>6, RestartFrame
  DEF Sh!Restart, Offers, Coming, ComingTo, Got, GotBy,
      Checked, CheckedBy

\* The steps of Sharing that concern one node.
LEMMA OneNode ==
    ASSUME NEW n \in Nodes, NEW f \in Files,
           \/ Sh!Truncate(n, f) \/ Sh!Check(n, f) \/ Sh!Save(n, f)
           \/ \E c \in Chunks :
                 Sh!Receive(n, f, c) \/ Sh!Refuse(n, f, c) \/ Sh!Write(n, f, c)
    PROVE  Sh!Next
<1>1. \E a, m \in Nodes, g \in Files :
         \/ Sh!Share(a, g) \/ Sh!Offer(a, m, g)
         \/ Sh!Truncate(a, g) \/ Sh!Check(a, g) \/ Sh!Save(a, g)
         \/ \E c \in Chunks :
               \/ Sh!Supply(m, a, g, c) \/ Sh!Receive(a, g, c) \/ Sh!Refuse(a, g, c)
               \/ Sh!Write(a, g, c)
  <2> WITNESS n \in Nodes, n \in Nodes, f \in Files
  <2> QED
    OBVIOUS
<1> QED
  BY <1>1 DEF Sh!Next

LEMMA SharingStep ==
    ASSUME TypeOK, IInv, Sources, [Next]_vars
    PROVE  [Sh!Next]_Sh!vars
<1>1. ASSUME NEW n \in Nodes, NEW f \in Files, Seed(n, f)
      PROVE  Sh!Share(n, f)
  <2>1. Offers' = Offers /\ Coming' = Coming /\ Got' = Got /\ Checked' = Checked
    BY <1>1, NothingOffered, NothingElse DEF Seed
  <2> QED
    BY <1>1, <2>1 DEF Seed, Sh!Share, Offers, Coming, ComingTo, Got, GotBy,
      Checked, CheckedBy
<1>2. ASSUME NEW n \in Nodes, NEW m \in Nodes, NEW f \in Files, NEW h \in Manifests,
             SendManifest(n, m, f, h)
      PROVE  Sh!Offer(n, m, f)
  <2>1. /\ stage[h] = "unused" /\ stage'[h] # "unused"
        /\ from'[h] = n /\ to'[h] = m /\ file'[h] = f
        /\ \A k \in Manifests \ {h} : /\ stage'[k] = stage[k] /\ from'[k] = from[k]
                                    /\ to'[k] = to[k] /\ file'[k] = file[k]
    BY <1>2 DEF SendManifest, TypeOK
  <2>2. Offers' = Offers \union {<<n, m, f>>}
    BY <2>1 DEF Offers
  <2>3. Coming' = Coming /\ Got' = Got /\ Checked' = Checked
    BY <1>2, NothingSent
  <2> QED
    BY <1>2, <2>2, <2>3 DEF SendManifest, Sh!Offer, Offers, Coming, ComingTo, Got, GotBy,
      Checked, CheckedBy
<1>3. ASSUME UNCHANGED <<localFiles, manifestVars, answered, data, fin, disk, saved>>,
             \A k \in Manifests : stage'[k] = "unused" <=> stage[k] = "unused"
      PROVE  UNCHANGED Sh!vars
  <2>1. Offers' = Offers /\ Coming' = Coming /\ Got' = Got /\ Checked' = Checked
    BY <1>3, NothingOffered, NothingElse
  <2> QED
    BY <1>3, <2>1 DEF Sh!vars, Offers, Coming, ComingTo, Got, GotBy,
      Checked, CheckedBy
<1>4. ASSUME NEW h \in Manifests, LoseManifest(h) \/ HandlerStep(h)
      PROVE  UNCHANGED Sh!vars
  BY <1>3, <1>4, HandlerFrame DEF LoseManifest, TypeOK
<1>5. ASSUME NEW h \in Manifests, NEW c \in Chunks, Ask(h, c) \/ Fail(h, c)
      PROVE  UNCHANGED Sh!vars
  BY <1>3, <1>5 DEF Ask, Fail
<1>6. CASE UNCHANGED vars
  BY <1>3, <1>6 DEF vars
<1>7. ASSUME NEW n \in Nodes, NEW f \in Files, Seed(n, f) PROVE Sh!Next
  BY <1>1, <1>7 DEF Sh!Next
<1>8. ASSUME NEW n \in Nodes, NEW m \in Nodes, NEW f \in Files, NEW h \in Manifests,
             SendManifest(n, m, f, h)
      PROVE  Sh!Next
  BY <1>2, <1>8 DEF Sh!Next
<1>9. ASSUME NEW h \in Manifests, NEW c \in Chunks, ChunkStep(h, c)
      PROVE  Sh!Next \/ UNCHANGED Sh!vars
  <2>1. PICK n \in Nodes, f \in Files : n = to[h] /\ f = file[h]
    BY <1>9 DEF ChunkStep, Ask, Serve, Answer, AnswerBad, Arrives, Fail, TypeOK
  <2>2. CASE Serve(h, c)
    BY <2>1, <2>2, ServeImplemented DEF Sh!Next
  <2>3. CASE Answer(h, c)
    BY <2>1, <2>3, AnswerImplemented, OneNode
  <2>4. CASE AnswerBad(h, c)
    BY <2>1, <2>4, AnswerBadImplemented, OneNode
  <2> QED
    BY <1>5, <1>9, <2>2, <2>3, <2>4 DEF ChunkStep
<1>10. ASSUME NEW h \in Manifests, NEW w \in Workers, FileStep(h, w) \/ DiskError(h, w)
       PROVE  Sh!Next \/ UNCHANGED Sh!vars
  <2>1. stage[h] = "running"
    BY <1>10 DEF FileStep, Finalize, Claim, OpenFile, WriteChunk, VerifyFile, Announce,
                 DiskError, TypeOK
  <2>2. PICK n \in Nodes, f \in Files : n = to[h] /\ f = file[h]
    BY <2>1 DEF TypeOK
  <2> QED
    BY <1>10, <2>2, FileImplemented, OneNode
<1>11. ASSUME NEW n \in Nodes, Restart(n) PROVE Sh!Next
  BY <1>11, RestartImplemented DEF Sh!Next
<1> QED
  BY <1>4, <1>6, <1>7, <1>8, <1>9, <1>10, <1>11 DEF Next

(* The handlers, the swarms and their workers implement Sharing.           *)
THEOREM SharingImplemented == Spec => ImplementsSharing
<1>1. Init => Sh!Init
  BY SharingInit
<1>2. TypeOK /\ IInv /\ Sources /\ [Next]_vars => [Sh!Next]_Sh!vars
  BY SharingStep
<1> QED
  BY <1>1, <1>2, TypeCorrect, Inductive, SourcesInvariance, PTL
  DEF Spec, ImplementsSharing, Sh!Spec
=============================================================================
