---------------------------- MODULE SeedingProofs -----------------------------
(***************************************************************************)
(* Proofs about module Seeding, for files, chunks and numbers of uploads   *)
(* of any size.                                                            *)
(***************************************************************************)
EXTENDS Seeding, SequenceTheorems, TLAPS

USE DEF uploadVars, fileVars, seederVars, SeederUnchanged

-----------------------------------------------------------------------------
(* The inductive invariant.                                                *)

(* The chunks c[1], c[2], ... of a file s, as far as it has been read.     *)
IsCutUpTo(cs, s, p) ==
    /\ \A i \in DOMAIN cs : cs[i] = ReadAt(s, (i - 1) * ChunkSize) /\ cs[i] # <<>>
    /\ \/ p = Len(cs) * ChunkSize
       \/ p = Len(s) /\ Len(s) <= Len(cs) * ChunkSize

(* What _upload makes of what it gets.                                     *)
Stripped ==
    \A u \in Uploads : u <= last =>
        /\ fdata[u] # <<>>
        /\ sent[u][Len(sent[u])] # NewLine => fdata[u] = sent[u]

(* The last upload's seeder finds the file of its upload, and an earlier   *)
(* one that has not finished is disturbed.                                 *)
Undisturbed ==
    /\ \A u \in disturbed : u < last
    /\ \A u \in Uploads :
          /\ u = last /\ stage[u] \in {"check", "read", "refused", "seeded"} =>
                ~writing /\ content = fdata[u]
          /\ u \notin disturbed /\ stage[u] \in {"check", "read"} => u = last

(* How far an undisturbed seeder is.                                       *)
Progress ==
    \A u \in Uploads :
        /\ stage[u] \in {"none", "uploading", "check"} => chunks[u] = <<>> /\ pos[u] = 0
        /\ u \notin disturbed =>
              /\ stage[u] = "refused" => Len(fdata[u]) > MaxSize
              /\ stage[u] = "read" =>
                    size[u] = Len(fdata[u]) /\ IsCutUpTo(chunks[u], fdata[u], pos[u])
              /\ stage[u] = "seeded" =>
                    size[u] = Len(fdata[u]) /\ IsCut(chunks[u], fdata[u])

Inv == TypeOK /\ Stripped /\ Undisturbed /\ Progress

-----------------------------------------------------------------------------
(* What one read returns.                                                  *)

LEMMA ReadAtIsPiece ==
    ASSUME NEW c \in Seq(Bytes), NEW p \in Nat
    PROVE  /\ ReadAt(c, p) \in Seq(Bytes)
           /\ ReadAt(c, p) = <<>> <=> Len(c) <= p
           /\ p + ChunkSize <= Len(c) => Len(ReadAt(c, p)) = ChunkSize
           /\ p < Len(c) /\ Len(c) < p + ChunkSize => Len(ReadAt(c, p)) = Len(c) - p
<1> DEFINE n == IF p + ChunkSize <= Len(c) THEN p + ChunkSize ELSE Len(c)
<1>1. ChunkSize \in Nat \ {0}
  BY SeedingAssumption
<1>2. Len(c) \in Nat /\ \A i \in 1 .. Len(c) : c[i] \in Bytes
  BY LenProperties
<1>3. p + 1 \in Int /\ n \in Int /\ \A i \in p + 1 .. n : c[i] \in Bytes
  BY <1>1, <1>2
<1>4. /\ SubSeq(c, p + 1, n) \in Seq(Bytes)
      /\ Len(SubSeq(c, p + 1, n)) = IF p + 1 <= n THEN n - (p + 1) + 1 ELSE 0
  BY <1>3, SubSeqProperties
<1>5. ReadAt(c, p) = SubSeq(c, p + 1, n)
  BY DEF ReadAt
<1>6. n = IF p + ChunkSize <= Len(c) THEN p + ChunkSize ELSE Len(c)
  OBVIOUS
<1> HIDE DEF n
<1>7. ASSUME n < p + 1 PROVE SubSeq(c, p + 1, n) = <<>>
  BY <1>3, <1>7, SubSeqEmpty
<1>8. ASSUME p + 1 <= n PROVE SubSeq(c, p + 1, n) # <<>>
  <2>1. Len(SubSeq(c, p + 1, n)) # 0
    BY <1>3, <1>4, <1>8
  <2> QED
    BY <1>4, <2>1, EmptySeq
<1> QED
  BY <1>1, <1>2, <1>3, <1>4, <1>5, <1>6, <1>7, <1>8

(* Another read that returns bytes adds one chunk to the cut, and one that *)
(* returns none finds it complete.                                         *)
LEMMA CutGrows ==
    ASSUME NEW s \in Seq(Bytes), NEW cs \in Seq(Seq(Bytes)), NEW p \in Nat,
           IsCutUpTo(cs, s, p), ReadAt(s, p) # <<>>
    PROVE  IsCutUpTo(Append(cs, ReadAt(s, p)), s, p + Len(ReadAt(s, p)))
<1>1. ChunkSize \in Nat \ {0} /\ Len(s) \in Nat /\ Len(cs) \in Nat
  BY SeedingAssumption, LenProperties
<1>2. p < Len(s) /\ ReadAt(s, p) \in Seq(Bytes)
  BY <1>1, ReadAtIsPiece
<1>3. p = Len(cs) * ChunkSize
  BY <1>1, <1>2 DEF IsCutUpTo
<1>4. (Len(cs) + 1) * ChunkSize = p + ChunkSize
  BY <1>1, <1>3
<1> DEFINE ds == Append(cs, ReadAt(s, p))
<1>5. /\ Len(ds) = Len(cs) + 1
      /\ DOMAIN cs = 1 .. Len(cs) /\ DOMAIN ds = 1 .. Len(cs) + 1
      /\ \A i \in 1 .. Len(cs) : ds[i] = cs[i]
      /\ ds[Len(cs) + 1] = ReadAt(s, p)
  BY <1>1, <1>2, AppendProperties, LenProperties
<1>6. \A i \in DOMAIN ds : ds[i] = ReadAt(s, (i - 1) * ChunkSize) /\ ds[i] # <<>>
  <2> SUFFICES ASSUME NEW i \in DOMAIN ds
               PROVE  ds[i] = ReadAt(s, (i - 1) * ChunkSize) /\ ds[i] # <<>>
    OBVIOUS
  <2>1. CASE i \in 1 .. Len(cs)
    BY <1>5, <2>1 DEF IsCutUpTo
  <2>2. CASE i = Len(cs) + 1
    <3>1. i - 1 = Len(cs)
      BY <1>1, <2>2
    <3> QED
      BY <1>3, <1>5, <2>2, <3>1
  <2> QED
    BY <1>1, <1>5, <2>1, <2>2
<1>7. CASE p + ChunkSize <= Len(s)
  <2>1. p + Len(ReadAt(s, p)) = Len(ds) * ChunkSize
    BY <1>4, <1>5, <1>7, ReadAtIsPiece
  <2> QED
    BY <1>6, <2>1 DEF IsCutUpTo
<1>8. CASE Len(s) < p + ChunkSize
  <2>1. p + Len(ReadAt(s, p)) = Len(s)
    BY <1>1, <1>2, <1>8, ReadAtIsPiece
  <2>2. Len(s) <= Len(ds) * ChunkSize
    BY <1>1, <1>4, <1>5, <1>8
  <2> QED
    BY <1>6, <2>1, <2>2 DEF IsCutUpTo
<1> QED
  BY <1>1, <1>7, <1>8

LEMMA CutCompletes ==
    ASSUME NEW s \in Seq(Bytes), NEW cs \in Seq(Seq(Bytes)), NEW p \in Nat,
           IsCutUpTo(cs, s, p), ReadAt(s, p) = <<>>
    PROVE  IsCut(cs, s)
<1>1. ChunkSize \in Nat \ {0} /\ Len(s) \in Nat /\ Len(cs) \in Nat
  BY SeedingAssumption, LenProperties
<1>2. Len(s) <= p
  BY <1>1, ReadAtIsPiece
<1> QED
  BY <1>1, <1>2 DEF IsCutUpTo, IsCut

-----------------------------------------------------------------------------
(* The invariant, one lemma per action.                                    *)

LEMMA InitInv == Init => Inv
<1> SUFFICES ASSUME Init PROVE Inv
  OBVIOUS
<1>1. TypeOK
  <2>1. <<>> \in Seq(Bytes) /\ <<>> \in Seq(Seq(Bytes))
    BY EmptySeq
  <2>2. \A u \in Uploads : u \in Nat /\ u > 0
    BY DEF Uploads
  <2>3. 0 \in 0 .. MaxUploads
    BY SeedingAssumption
  <2> QED
    BY <2>1, <2>2, <2>3 DEF Init, TypeOK
<1>2. Stripped /\ Undisturbed /\ Progress
  BY SeedingAssumption DEF Init, Stripped, Undisturbed, Progress, Uploads
<1> QED
  BY <1>1, <1>2 DEF Inv

LEMMA BodyIsSeq ==
    ASSUME NEW b \in Bodies
    PROVE  b \in Seq(Bytes) /\ Len(b) \in Nat \ {0}
<1>1. PICK k \in 1 .. MaxBody : b \in [1 .. k -> Bytes]
  BY DEF Bodies
<1> QED
  BY <1>1, SeedingAssumption

LEMMA OpenInv ==
    ASSUME Inv, NEW b \in Bodies, OpenUpload(b)
    PROVE  Inv'
<1>1. b \in Seq(Bytes) /\ Len(b) \in Nat \ {0} /\ \A i \in 1 .. Len(b) : b[i] \in Bytes
  BY BodyIsSeq, LenProperties
<1>2. PICK n \in 1 .. Len(b) :
         /\ StripsTo(b, n)
         /\ fdata' = [fdata EXCEPT ![last + 1] = SubSeq(b, 1, n)]
         /\ rest' = SubSeq(b, 1, n)
  BY DEF OpenUpload
<1> DEFINE s == SubSeq(b, 1, n)
<1>3. s \in Seq(Bytes) /\ s # <<>>
  <2>1. s \in Seq(Bytes) /\ Len(s) = n
    BY <1>1, SubSeqProperties
  <2> QED
    BY <1>1, <2>1
<1>4. b[Len(b)] # NewLine => s = b
  <2>1. b[Len(b)] # NewLine => n = Len(b)
    BY <1>1, <1>2 DEF StripsTo
  <2> QED
    BY <1>1, <2>1, SubSeqFull
<1> HIDE DEF s
<1>5. /\ ~writing /\ last + 1 \in Uploads /\ last \in Nat
      /\ fdata' = [fdata EXCEPT ![last + 1] = s] /\ rest' = s
      /\ last' = last + 1 /\ sent' = [sent EXCEPT ![last + 1] = b]
      /\ content' = <<>> /\ writing' = TRUE
      /\ stage' = [stage EXCEPT ![last + 1] = "uploading"]
      /\ disturbed' = disturbed \union {u \in Uploads : stage[u] \in {"check", "read"}}
      /\ size' = size /\ pos' = pos /\ chunks' = chunks
  <2>1. ~writing /\ last < MaxUploads /\ last \in Nat /\ MaxUploads \in Nat
    BY SeedingAssumption DEF OpenUpload, Inv, TypeOK
  <2>2. last + 1 \in Uploads
    BY <2>1 DEF Uploads
  <2> QED
    BY <1>2, <2>1, <2>2 DEF OpenUpload, s
<1>6. \A u \in Uploads : u \in Nat
  BY DEF Uploads
<1>7. TypeOK'
  <2>1. content' \in Seq(Bytes) /\ content' \o rest' = fdata'[last'] /\ last' > 0
    BY <1>3, <1>5, EmptySeq, ConcatEmptySeq DEF Inv, TypeOK
  <2>2. last' \in 0 .. MaxUploads
    BY <1>5, SeedingAssumption DEF Uploads
  <2> QED
    <3>1. /\ sent' \in [Uploads -> Seq(Bytes)] /\ fdata' \in [Uploads -> Seq(Bytes)]
          /\ stage' \in [Uploads -> {"none", "uploading", "failed", "check", "read",
                                    "refused", "seeded"}]
          /\ disturbed' \subseteq Uploads
      BY <1>1, <1>3, <1>5 DEF Inv, TypeOK
    <3>2. \A u \in Uploads : stage'[u] = "none" <=> u > last'
      <4>1. last' = last + 1 /\ last \in Nat
        BY <1>5
      <4>2. /\ stage'[last + 1] = "uploading"
            /\ \A u \in Uploads \ {last + 1} :
                  stage'[u] = stage[u] /\ (stage[u] = "none" <=> u > last)
        BY <1>5 DEF Inv, TypeOK
      <4> QED
        BY <1>6, <4>1, <4>2
    <3>3. \A u \in Uploads : stage'[u] = "uploading" <=> writing' /\ u = last'
      BY <1>5, <1>6 DEF Inv, TypeOK
    <3>4. \A u \in Uploads : stage'[u] \in {"read", "seeded"} => size'[u] \in 1 .. MaxSize
      BY <1>5 DEF Inv, TypeOK
    <3> QED
      BY <1>3, <1>5, <2>1, <2>2, <3>1, <3>2, <3>3, <3>4 DEF Inv, TypeOK
<1>8. Stripped'
  <2>1. /\ fdata'[last + 1] = s /\ sent'[last + 1] = b
        /\ \A u \in Uploads \ {last + 1} : fdata'[u] = fdata[u] /\ sent'[u] = sent[u]
    BY <1>5 DEF Inv, TypeOK
  <2>2. \A u \in Uploads : u <= last' => u = last + 1 \/ (u <= last /\ u # last + 1)
    <3>1. last' = last + 1 /\ last \in Nat
      BY <1>5
    <3> SUFFICES ASSUME NEW u \in Uploads, u <= last'
                 PROVE  u = last + 1 \/ (u <= last /\ u # last + 1)
      OBVIOUS
    <3>2. u \in Nat
      BY <1>6
    <3> QED
      BY <3>1, <3>2
  <2> QED
    BY <1>3, <1>4, <2>1, <2>2 DEF Inv, Stripped
<1>9. Undisturbed'
  <2>1. last' = last + 1 /\ last \in Nat
    BY <1>5
  <2>2. /\ stage'[last + 1] = "uploading"
        /\ \A u \in Uploads \ {last + 1} : stage'[u] = stage[u]
    BY <1>5 DEF Inv, TypeOK
  <2>3. \A u \in Uploads : stage[u] \in {"check", "read"} => u < last + 1
    BY <1>6, <2>1 DEF Inv, TypeOK
  <2>4. \A u \in disturbed' : u < last'
    <3>1. \A u \in disturbed : u < last /\ u \in Nat
      BY <1>6 DEF Inv, TypeOK, Undisturbed
    <3> QED
      BY <1>5, <2>1, <2>3, <3>1
  <2>5. \A u \in Uploads : u = last' => stage'[u] = "uploading"
    BY <2>1, <2>2
  <2>6. \A u \in Uploads : u \notin disturbed' => stage'[u] \notin {"check", "read"}
    BY <1>5, <2>2
  <2> QED
    BY <2>4, <2>5, <2>6 DEF Undisturbed
<1>10. Progress'
  BY <1>5, <1>6, SMTT(30) DEF Inv, TypeOK, Progress
<1> QED
  BY <1>7, <1>8, <1>9, <1>10 DEF Inv

LEMMA WriteInv ==
    ASSUME Inv, NEW k \in 1 .. MaxBody, WriteUpload(k)
    PROVE  Inv'
<1> DEFINE head == SubSeq(rest, 1, k)
           tail == SubSeq(rest, k + 1, Len(rest))
<1>1. /\ rest \in Seq(Bytes) /\ content \in Seq(Bytes)
      /\ Len(rest) \in Nat /\ k \in 1 .. Len(rest)
      /\ \A i \in 1 .. Len(rest) : rest[i] \in Bytes
  BY LenProperties DEF WriteUpload, Inv, TypeOK
<1>2. head \in Seq(Bytes) /\ tail \in Seq(Bytes)
  BY <1>1, SubSeqProperties
<1>3. head \o tail = rest
  <2>1. head \o tail = SubSeq(rest, 1, Len(rest))
    BY <1>1, ConcatAdjacentSubSeq
  <2> QED
    BY <1>1, <2>1, SubSeqFull
<1>4. /\ content' = content \o head /\ rest' = tail /\ writing
      /\ UNCHANGED <<uploadVars, writing, stage, seederVars, disturbed>>
  BY DEF WriteUpload
<1> HIDE DEF head, tail
<1>5. (content \o head) \o tail = content \o rest
  <2>1. (content \o head) \o tail = content \o (head \o tail)
    <3>1. content \in Seq(Bytes) /\ head \in Seq(Bytes) /\ tail \in Seq(Bytes)
      BY <1>1, <1>2
    <3> QED
      BY <3>1, ConcatAssociative, SMTT(30)
  <2> QED
    BY <1>3, <2>1
<1>6. content \o head \in Seq(Bytes)
  BY <1>1, <1>2, ConcatProperties
<1>7. TypeOK'
  BY <1>2, <1>4, <1>5, <1>6 DEF Inv, TypeOK
<1>8. Stripped' /\ Undisturbed' /\ Progress'
  BY <1>4 DEF Inv, Stripped, Undisturbed, Progress
<1> QED
  BY <1>7, <1>8 DEF Inv

LEMMA EndInv ==
    ASSUME Inv, StartSeeder \/ UploadFails
    PROVE  Inv'
<1>1. last \in Uploads /\ stage[last] = "uploading" /\ last \notin disturbed
  <2>1. writing /\ last \in 0 .. MaxUploads
    BY DEF StartSeeder, UploadFails, Inv, TypeOK
  <2>2. last > 0
    BY <2>1 DEF Inv, TypeOK
  <2>3. last \in Uploads
    BY <2>1, <2>2, SeedingAssumption DEF Uploads
  <2> QED
    BY <2>1, <2>3 DEF Inv, TypeOK, Undisturbed
<1>2. CASE StartSeeder
  <2>1. content = fdata[last]
    BY <1>2, ConcatEmptySeq DEF StartSeeder, Inv, TypeOK
  <2>2. TypeOK'
    BY <1>1, <1>2 DEF StartSeeder, Inv, TypeOK
  <2>3. Stripped' /\ Progress'
    BY <1>1, <1>2 DEF StartSeeder, Inv, TypeOK, Stripped, Progress
  <2>4. Undisturbed'
    BY <1>1, <1>2, <2>1 DEF StartSeeder, Inv, TypeOK, Undisturbed
  <2> QED
    BY <2>2, <2>3, <2>4 DEF Inv
<1>3. CASE UploadFails
  <2>1. TypeOK'
    BY <1>1, <1>3, EmptySeq DEF UploadFails, Inv, TypeOK
  <2>2. Stripped' /\ Progress'
    BY <1>1, <1>3 DEF UploadFails, Inv, TypeOK, Stripped, Progress
  <2>3. Undisturbed'
    BY <1>1, <1>3 DEF UploadFails, Inv, TypeOK, Undisturbed
  <2> QED
    BY <2>1, <2>2, <2>3 DEF Inv
<1> QED
  BY <1>2, <1>3

LEMMA CheckInv ==
    ASSUME Inv, NEW u \in Uploads, CheckFile(u)
    PROVE  Inv'
<1>1. Len(content) \in Nat /\ MaxSize \in Nat /\ ChunkSize \in Nat
  BY LenProperties, SeedingAssumption DEF Inv, TypeOK
<1>2. u \notin disturbed => u = last /\ content = fdata[u] /\ Len(content) # 0
  <2>1. u \notin disturbed => u = last /\ content = fdata[u] /\ u <= last
    BY DEF CheckFile, Inv, TypeOK, Undisturbed
  <2>2. content \in Seq(Bytes) /\ (content # <<>> => Len(content) # 0)
    BY EmptySeq DEF Inv, TypeOK
  <2> QED
    BY <2>1, <2>2 DEF Inv, Stripped
<1>3. chunks[u] = <<>> /\ pos[u] = 0
  BY DEF CheckFile, Inv, Progress
<1>4. IsCutUpTo(chunks[u], fdata[u], pos[u])
  BY <1>1, <1>3 DEF IsCutUpTo
<1>5. TypeOK'
  BY <1>1 DEF CheckFile, Inv, TypeOK
<1>6. Stripped'
  BY DEF CheckFile, Inv, Stripped
<1>7. Undisturbed'
  BY <1>2 DEF CheckFile, Inv, TypeOK, Undisturbed
<1>8. Progress'
  <2>1. /\ stage' \in [Uploads -> {"none", "uploading", "failed", "check", "read",
                                   "refused", "seeded"}]
        /\ stage'[u] \in {"read", "refused"}
        /\ stage'[u] = "refused" => Len(content) = 0 \/ Len(content) > MaxSize
        /\ size'[u] = Len(content)
        /\ \A v \in Uploads \ {u} : stage'[v] = stage[v] /\ size'[v] = size[v]
        /\ UNCHANGED <<fdata, pos, chunks, disturbed>>
    BY <1>1 DEF CheckFile, Inv, TypeOK
  <2> SUFFICES ASSUME NEW v \in Uploads
               PROVE  /\ stage'[v] \in {"none", "uploading", "check"} =>
                            chunks'[v] = <<>> /\ pos'[v] = 0
                      /\ v \notin disturbed' =>
                            /\ stage'[v] = "refused" => Len(fdata'[v]) > MaxSize
                            /\ stage'[v] = "read" =>
                                  /\ size'[v] = Len(fdata'[v])
                                  /\ IsCutUpTo(chunks'[v], fdata'[v], pos'[v])
                            /\ stage'[v] = "seeded" =>
                                  size'[v] = Len(fdata'[v]) /\ IsCut(chunks'[v], fdata'[v])
    BY DEF Progress, IsCut, IsCutUpTo, ReadAt
  <2>2. CASE v = u
    BY <1>2, <1>4, <2>1, <2>2
  <2>3. CASE v # u
    BY <2>1, <2>3 DEF Inv, Progress
  <2> QED
    BY <2>2, <2>3
<1> QED
  BY <1>5, <1>6, <1>7, <1>8 DEF Inv

LEMMA ReadInv ==
    ASSUME Inv, NEW u \in Uploads, ReadChunk(u)
    PROVE  Inv'
<1> DEFINE raw == ReadAt(content, pos[u])
<1>1. /\ content \in Seq(Bytes) /\ pos[u] \in Nat /\ chunks[u] \in Seq(Seq(Bytes))
      /\ stage[u] = "read"
  BY DEF ReadChunk, Inv, TypeOK
<1>2. raw \in Seq(Bytes) /\ Len(raw) \in Nat
  BY <1>1, ReadAtIsPiece, LenProperties
<1>3. u \notin disturbed =>
         /\ content = fdata[u] /\ size[u] = Len(fdata[u])
         /\ IsCutUpTo(chunks[u], content, pos[u])
  BY <1>1 DEF Inv, Undisturbed, Progress
<1>4. CASE raw = <<>>
  <2>1. stage' = [stage EXCEPT ![u] = "seeded"] /\ UNCHANGED <<seederVars, uploadVars, fileVars, disturbed>>
    BY <1>4 DEF ReadChunk
  <2>2. u \notin disturbed => IsCut(chunks[u], fdata[u])
    BY <1>1, <1>3, <1>4, CutCompletes
  <2>3. TypeOK' /\ Stripped' /\ Undisturbed'
    BY <1>1, <2>1 DEF Inv, TypeOK, Stripped, Undisturbed
  <2>4. Progress'
    <3> SUFFICES ASSUME NEW v \in Uploads
                 PROVE  /\ stage'[v] \in {"none", "uploading", "check"} =>
                              chunks[v] = <<>> /\ pos[v] = 0
                        /\ v \notin disturbed =>
                              /\ stage'[v] = "refused" => Len(fdata[v]) > MaxSize
                              /\ stage'[v] = "read" =>
                                    /\ size[v] = Len(fdata[v])
                                    /\ IsCutUpTo(chunks[v], fdata[v], pos[v])
                              /\ stage'[v] = "seeded" =>
                                    size[v] = Len(fdata[v]) /\ IsCut(chunks[v], fdata[v])
      BY <2>1 DEF Progress, IsCut, IsCutUpTo, ReadAt
    <3>1. /\ stage'[u] = "seeded"
          /\ v # u => stage'[v] = stage[v]
      BY <2>1 DEF Inv, TypeOK
    <3>2. CASE v = u
      BY <1>3, <2>2, <3>1, <3>2
    <3>3. CASE v # u
      BY <3>1, <3>3 DEF Inv, Progress
    <3> QED
      BY <3>2, <3>3
  <2> QED
    BY <2>3, <2>4 DEF Inv
<1>5. CASE raw # <<>>
  <2>1. /\ chunks' = [chunks EXCEPT ![u] = Append(chunks[u], raw)]
        /\ pos' = [pos EXCEPT ![u] = pos[u] + Len(raw)]
        /\ UNCHANGED <<size, stage, uploadVars, fileVars, disturbed>>
    BY <1>5 DEF ReadChunk
  <2>2. Append(chunks[u], raw) \in Seq(Seq(Bytes))
    BY <1>1, <1>2, AppendProperties
  <2>3. u \notin disturbed =>
           IsCutUpTo(Append(chunks[u], raw), fdata[u], pos[u] + Len(raw))
    BY <1>1, <1>3, <1>5, CutGrows
  <2> HIDE DEF raw
  <2>4. /\ chunks'[u] = Append(chunks[u], raw) /\ pos'[u] = pos[u] + Len(raw)
        /\ \A v \in Uploads \ {u} : chunks'[v] = chunks[v] /\ pos'[v] = pos[v]
    BY <2>1 DEF Inv, TypeOK
  <2>5. TypeOK'
    <3>1. pos[u] + Len(raw) \in Nat
      BY <1>1, <1>2
    <3>2. chunks' \in [Uploads -> Seq(Seq(Bytes))] /\ pos' \in [Uploads -> Nat]
      BY <2>1, <2>2, <3>1 DEF Inv, TypeOK
    <3> QED
      BY <2>1, <3>2 DEF Inv, TypeOK
  <2>6. Stripped' /\ Undisturbed'
    BY <2>1 DEF Inv, Stripped, Undisturbed
  <2>7. Progress'
    <3> SUFFICES ASSUME NEW v \in Uploads
                 PROVE  /\ stage[v] \in {"none", "uploading", "check"} =>
                              chunks'[v] = <<>> /\ pos'[v] = 0
                        /\ v \notin disturbed =>
                              /\ stage[v] = "refused" => Len(fdata[v]) > MaxSize
                              /\ stage[v] = "read" =>
                                    /\ size[v] = Len(fdata[v])
                                    /\ IsCutUpTo(chunks'[v], fdata[v], pos'[v])
                              /\ stage[v] = "seeded" =>
                                    size[v] = Len(fdata[v]) /\ IsCut(chunks'[v], fdata[v])
      BY <2>1 DEF Progress, IsCut, IsCutUpTo, ReadAt
    <3>1. CASE v = u
      BY <1>1, <1>3, <2>3, <2>4, <3>1
    <3>2. CASE v # u
      BY <2>4, <3>2 DEF Inv, Progress
    <3> QED
      BY <3>1, <3>2
  <2> QED
    BY <2>5, <2>6, <2>7 DEF Inv
<1> QED
  BY <1>4, <1>5

THEOREM Invariance == Spec => []Inv
<1>1. Inv /\ [Next]_vars => Inv'
  <2> SUFFICES ASSUME Inv, [Next]_vars PROVE Inv'
    OBVIOUS
  <2>1. CASE UNCHANGED vars
    BY <2>1 DEF vars, Inv, TypeOK, Stripped, Undisturbed, Progress, IsCut, IsCutUpTo, ReadAt
  <2>2. CASE Next
    BY <2>2, OpenInv, WriteInv, EndInv, CheckInv, ReadInv DEF Next
  <2> QED
    BY <2>1, <2>2
<1> QED
  BY <1>1, InitInv, PTL DEF Spec

-----------------------------------------------------------------------------
(* Every variable keeps its type, and what the last upload has written and *)
(* has still to write is its file.                                         *)
THEOREM TypeCorrect == Spec => []TypeOK
BY Invariance, PTL DEF Inv

(* An undisturbed manifest cuts the very file that was sent.               *)
THEOREM ManifestExact == Spec => []ManifestIsUpload
<1>1. Inv => ManifestIsUpload
  <2> SUFFICES ASSUME Inv, NEW u \in Uploads \ disturbed,
                      stage[u] = "seeded", sent[u][Len(sent[u])] # NewLine
               PROVE  IsCut(chunks[u], sent[u]) /\ size[u] = Len(sent[u])
    BY DEF ManifestIsUpload
  <2>1. u <= last
    BY DEF Inv, TypeOK, Uploads
  <2>2. fdata[u] = sent[u]
    BY <2>1 DEF Inv, Stripped
  <2> QED
    BY <2>2 DEF Inv, Progress
<1> QED
  BY <1>1, Invariance, PTL

(* What _upload keeps of each body.                                        *)
LEMMA StripsBody ==
    ASSUME NEW b \in Seq(Bytes), NEW n \in 1 .. Len(b), StripsTo(b, n)
    PROVE  LET s == SubSeq(b, 1, n)
           IN  StripsTo(b, Len(s)) /\ s = SubSeq(b, 1, Len(s))
<1>1. Len(b) \in Nat
  BY LenProperties
<1>2. Len(SubSeq(b, 1, n)) = n
  BY <1>1, SubSeqProperties
<1> QED
  BY <1>2

KeptOfBodies ==
    \A u \in Uploads : u <= last =>
        /\ StripsTo(sent[u], Len(fdata[u]))
        /\ fdata[u] = SubSeq(sent[u], 1, Len(fdata[u]))

LEMMA KeptStep == Inv /\ KeptOfBodies /\ [Next]_vars => KeptOfBodies'
<1> SUFFICES ASSUME Inv, KeptOfBodies, [Next]_vars PROVE KeptOfBodies'
  OBVIOUS
<1>1. CASE UNCHANGED uploadVars
  BY <1>1 DEF KeptOfBodies, StripsTo
<1>2. ASSUME NEW b \in Bodies, OpenUpload(b) PROVE KeptOfBodies'
  <2>1. b \in Seq(Bytes)
    BY BodyIsSeq
  <2>2. PICK n \in 1 .. Len(b) :
           /\ StripsTo(b, n)
           /\ fdata' = [fdata EXCEPT ![last + 1] = SubSeq(b, 1, n)]
    BY <1>2 DEF OpenUpload
  <2> DEFINE s == SubSeq(b, 1, n)
  <2>3. StripsTo(b, Len(s)) /\ s = SubSeq(b, 1, Len(s))
    BY <2>1, <2>2, StripsBody
  <2> HIDE DEF s
  <2>4. /\ last' = last + 1 /\ last \in Nat /\ last + 1 \in Uploads
        /\ sent' = [sent EXCEPT ![last + 1] = b]
        /\ fdata' = [fdata EXCEPT ![last + 1] = s]
    <3>1. last < MaxUploads /\ last \in Nat /\ MaxUploads \in Nat
      BY <1>2, SeedingAssumption DEF OpenUpload, Inv, TypeOK
    <3>2. last + 1 \in Uploads
      BY <3>1 DEF Uploads
    <3> QED
      BY <1>2, <2>2, <3>1, <3>2 DEF OpenUpload, s
  <2>5. /\ fdata'[last + 1] = s /\ sent'[last + 1] = b
        /\ \A u \in Uploads \ {last + 1} : fdata'[u] = fdata[u] /\ sent'[u] = sent[u]
    BY <2>4 DEF Inv, TypeOK
  <2>6. \A u \in Uploads \ {last + 1} : u <= last' => u <= last
    BY <2>4 DEF Uploads
  <2>7. ASSUME NEW u \in Uploads, u <= last'
        PROVE  /\ StripsTo(sent'[u], Len(fdata'[u]))
               /\ fdata'[u] = SubSeq(sent'[u], 1, Len(fdata'[u]))
    <3>1. CASE u = last + 1
      BY <2>3, <2>5, <3>1
    <3>2. CASE u # last + 1
      <4>1. fdata'[u] = fdata[u] /\ sent'[u] = sent[u] /\ u <= last
        BY <2>5, <2>6, <2>7, <3>2
      <4> QED
        BY <4>1 DEF KeptOfBodies
    <3> QED
      BY <3>1, <3>2
  <2> QED
    BY <2>7 DEF KeptOfBodies, StripsTo
<1> QED
  BY <1>1, <1>2
  DEF Next, WriteUpload, StartSeeder, UploadFails, CheckFile, ReadChunk, vars

(* What an undisturbed manifest lacks of the file that was sent is the     *)
(* line breaks it ends with: ManifestIsUpload without its hypothesis.      *)
THEOREM NothingElseLost == Spec => []OnlyBreaksLost
<1>1. Init => KeptOfBodies
  BY SeedingAssumption DEF Init, KeptOfBodies, Uploads
<1>2. Inv /\ KeptOfBodies => OnlyBreaksLost
  <2> SUFFICES ASSUME Inv, KeptOfBodies, NEW u \in Uploads \ disturbed,
                      stage[u] = "seeded"
               PROVE  /\ StripsTo(sent[u], size[u])
                      /\ IsCut(chunks[u], SubSeq(sent[u], 1, size[u]))
    BY DEF OnlyBreaksLost
  <2>1. u <= last
    BY DEF Inv, TypeOK, Uploads
  <2>2. size[u] = Len(fdata[u]) /\ IsCut(chunks[u], fdata[u])
    BY DEF Inv, Progress
  <2>3. /\ StripsTo(sent[u], Len(fdata[u]))
        /\ fdata[u] = SubSeq(sent[u], 1, Len(fdata[u]))
    BY <2>1 DEF KeptOfBodies
  <2> QED
    BY <2>2, <2>3
<1> QED
  BY <1>1, <1>2, KeptStep, Invariance, PTL DEF Spec

(* Every chunk of the last upload is served as it was hashed.              *)
THEOREM LastServed == Spec => []LastIsServed
<1>1. Inv => LastIsServed
  <2> SUFFICES ASSUME Inv, last > 0, stage[last] = "seeded",
                      NEW i \in 1 .. Len(chunks[last]) + 1
               PROVE  ChunkData(content, i - 1) =
                         IF i \in DOMAIN chunks[last] THEN chunks[last][i] ELSE <<>>
    BY DEF LastIsServed
  <2>1. last \in Uploads /\ last \notin disturbed /\ content = fdata[last]
    BY SeedingAssumption DEF Inv, TypeOK, Undisturbed, Uploads
  <2>2. /\ IsCut(chunks[last], content) /\ content \in Seq(Bytes)
        /\ chunks[last] \in Seq(Seq(Bytes))
    BY <2>1 DEF Inv, TypeOK, Progress
  <2>3. /\ Len(chunks[last]) \in Nat /\ DOMAIN chunks[last] = 1 .. Len(chunks[last])
        /\ Len(content) \in Nat /\ ChunkSize \in Nat
    BY <2>2, LenProperties, SeedingAssumption
  <2>4. CASE i \in DOMAIN chunks[last]
    BY <2>2, <2>4 DEF IsCut, ChunkData
  <2>5. CASE i \notin DOMAIN chunks[last]
    <3>1. i - 1 = Len(chunks[last]) /\ (i - 1) * ChunkSize \in Nat
      BY <2>3, <2>5
    <3>2. Len(content) <= (i - 1) * ChunkSize
      BY <2>2, <3>1 DEF IsCut
    <3>3. ReadAt(content, (i - 1) * ChunkSize) = <<>>
      BY <2>2, <3>1, <3>2, ReadAtIsPiece
    <3> QED
      BY <2>5, <3>3 DEF ChunkData
  <2> QED
    BY <2>4, <2>5
<1> QED
  BY <1>1, Invariance, PTL

(* An undisturbed upload is refused only for its size.                     *)
THEOREM RefusedForSize == Spec => []RefusedHasReason
<1>1. Inv => RefusedHasReason
  BY DEF Inv, Progress, RefusedHasReason
<1> QED
  BY <1>1, Invariance, PTL
=============================================================================
