---------------------------- MODULE LogFeedProofs ----------------------------
(***************************************************************************)
(* Proofs about module LogFeed, for any length of the list, any number of  *)
(* entries and any number of requests at the same time.                    *)
(***************************************************************************)
EXTENDS LogFeed, FiniteSetTheorems, SequenceTheorems, TLAPS

USE DEF serverVars, pageVars, pollVars, faultVars

Entries == Nat \ {0}

(* What the operations on lists return.                                    *)
LEMMA TrimmedAppend ==
    ASSUME NEW s \in Seq(Entries), NEW e \in Entries, Len(s) <= LogCap
    PROVE  LET t == Trimmed(Append(s, e))
               d == Len(s) + 1 - Len(t)
           IN  /\ t \in Seq(Entries) /\ Len(t) <= LogCap /\ d \in {0, 1}
               /\ \A k \in 1 .. Len(t) : t[k] = Append(s, e)[k + d]
<1> DEFINE a == Append(s, e)
<1>1. a \in Seq(Entries) /\ Len(a) = Len(s) + 1 /\ Len(s) \in Nat /\ a # <<>>
  BY AppendProperties
<1>2. CASE Len(a) > LogCap
  <2>1. /\ Tail(a) \in Seq(Entries) /\ Len(Tail(a)) = Len(a) - 1
        /\ \A k \in 1 .. Len(Tail(a)) : Tail(a)[k] = a[k + 1]
    BY <1>1, HeadTailProperties
  <2>2. Trimmed(a) = Tail(a)
    BY <1>2 DEF Trimmed
  <2>3. Len(s) + 1 - Len(Tail(a)) = 1 /\ Len(Tail(a)) <= LogCap
    BY <1>1, <2>1, LogFeedAssumption
  <2> HIDE DEF a
  <2> QED
    BY <2>1, <2>2, <2>3 DEF a
<1>3. CASE ~ (Len(a) > LogCap)
  <2>1. Trimmed(a) = a
    BY <1>3 DEF Trimmed
  <2>2. Len(s) + 1 - Len(a) = 0 /\ Len(a) <= LogCap
    BY <1>1, <1>3, LogFeedAssumption
  <2>3. \A k \in 1 .. Len(a) : a[k + 0] = a[k]
    OBVIOUS
  <2> HIDE DEF a
  <2> QED
    BY <1>1, <2>1, <2>2, <2>3 DEF a
<1> QED
  BY <1>2, <1>3

LEMMA NoEntries == <<>> \in Seq(Nat \ {0}) /\ Len(<<>>) = 0
OBVIOUS

LEMMA SliceProperties ==
    ASSUME systemLog \in Seq(Entries), NEW n \in Nat
    PROVE  /\ Slice(n) \in Seq(Entries)
           /\ Len(Slice(n)) = IF n <= Len(systemLog) THEN Len(systemLog) - n ELSE 0
           /\ \A k \in 1 .. Len(Slice(n)) :
                 n + k \in 1 .. Len(systemLog) /\ Slice(n)[k] = systemLog[n + k]
<1>1. Len(systemLog) \in Nat
  OBVIOUS
<1> QED
  BY <1>1 DEF Slice

LEMMA Joined ==
    ASSUME NEW s \in Seq(Entries), NEW t \in Seq(Entries)
    PROVE  /\ s \o t \in Seq(Entries) /\ Len(s \o t) = Len(s) + Len(t)
           /\ \A k \in 1 .. Len(s \o t) :
                 (s \o t)[k] = IF k <= Len(s) THEN s[k] ELSE t[k - Len(s)]
           /\ \A k \in 1 .. Len(s \o t) :
                 k > Len(s) => k - Len(s) \in 1 .. Len(t)
OBVIOUS

LEMMA Suffix ==
    ASSUME NEW b \in Seq(Nat), NEW d \in Nat, d <= Len(b)
    PROVE  /\ SubSeq(b, d + 1, Len(b)) \in Seq(Nat)
           /\ Len(SubSeq(b, d + 1, Len(b))) = Len(b) - d
           /\ \A k \in 1 .. Len(b) - d :
                 k + d \in 1 .. Len(b) /\ SubSeq(b, d + 1, Len(b))[k] = b[k + d]
OBVIOUS

(* What is left in the box once some lines have been logged.               *)
Over(lines) == IF Len(shown) + Len(lines) > PageCap
               THEN Len(shown) + Len(lines) - PageCap ELSE 0

LEMMA LogProperties ==
    ASSUME TypeOK, NEW lines \in Seq(Nat)
    PROVE  /\ Log(lines) \in Seq(Nat) /\ Len(Log(lines)) <= PageCap
           /\ Over(lines) \in Nat
           /\ Len(Log(lines)) = Len(shown) + Len(lines) - Over(lines)
           /\ Over(lines) > 0 => Len(Log(lines)) = PageCap
           /\ \A k \in 1 .. Len(Log(lines)) :
                 Log(lines)[k] = IF k + Over(lines) <= Len(shown)
                                 THEN shown[k + Over(lines)]
                                 ELSE lines[k + Over(lines) - Len(shown)]
<1> DEFINE box == shown \o lines
<1>1. /\ shown \in Seq(Nat) /\ Len(shown) \in Nat /\ Len(lines) \in Nat
      /\ PageCap \in Nat \ {0} /\ Len(shown) <= PageCap
  BY LogFeedAssumption DEF TypeOK
<1>2. /\ box \in Seq(Nat) /\ Len(box) = Len(shown) + Len(lines)
      /\ \A k \in 1 .. Len(box) :
            box[k] = IF k <= Len(shown) THEN shown[k] ELSE lines[k - Len(shown)]
  BY <1>1
<1> HIDE DEF box
<1>3. /\ Over(lines) \in Nat /\ Over(lines) <= Len(box)
      /\ Len(box) - Over(lines) <= PageCap
      /\ Over(lines) > 0 => Len(box) - Over(lines) = PageCap
  BY <1>1, <1>2 DEF Over
<1>4. Log(lines) = SubSeq(box, Over(lines) + 1, Len(box))
  <2>1. CASE Len(box) - PageCap > 0
    <3>1. Log(lines) = SubSeq(box, (Len(box) - PageCap) + 1, Len(box))
      BY <2>1 DEF Log, box
    <3>2. Over(lines) = Len(box) - PageCap
      BY <1>1, <1>2, <2>1 DEF Over
    <3> QED
      BY <3>1, <3>2
  <2>2. CASE ~ (Len(box) - PageCap > 0)
    <3>1. Log(lines) = box /\ Over(lines) = 0
      BY <1>1, <1>2, <2>2 DEF Log, Over, box
    <3>2. SubSeq(box, 1, Len(box)) = box
      BY <1>2
    <3> QED
      BY <3>1, <3>2
  <2> QED
    BY <2>1, <2>2
<1> DEFINE o == Over(lines)
           left == Log(lines)
<1> HIDE DEF o, left
<1>5. /\ left \in Seq(Nat) /\ Len(left) = Len(box) - o
      /\ \A k \in 1 .. Len(left) : k + o \in 1 .. Len(box) /\ left[k] = box[k + o]
  <2>1. o \in Nat /\ o <= Len(box) /\ left = SubSeq(box, o + 1, Len(box))
    BY <1>3, <1>4 DEF o, left
  <2> QED
    BY <1>2, <2>1, Suffix, SMTT(30)
<1>6. ASSUME NEW k \in 1 .. Len(left)
      PROVE  left[k] = IF k + o <= Len(shown) THEN shown[k + o] ELSE lines[k + o - Len(shown)]
  <2>1. PICK j \in 1 .. Len(box) : j = k + o /\ left[k] = box[j]
    BY <1>5
  <2>2. box[j] = IF j <= Len(shown) THEN shown[j] ELSE lines[j - Len(shown)]
    BY <1>2
  <2>3. o \in Nat /\ k \in Nat /\ Len(shown) \in Nat
    BY <1>1, <1>3 DEF o
  <2> QED
    BY <2>1, <2>2, <2>3
<1> QED
  BY <1>2, <1>3, <1>5, <1>6 DEF o, left

-----------------------------------------------------------------------------
(* Type correctness.                                                       *)
LEMMA TypeStep == TypeOK /\ [Next]_vars => TypeOK'
<1> SUFFICES ASSUME TypeOK, [Next]_vars PROVE TypeOK'
  OBVIOUS
<1>1. CASE Syslog
  <2>1. total' \in Nat /\ total + 1 \in Entries /\ systemLog \in Seq(Entries)
    BY <1>1 DEF Syslog, TypeOK, Entries
  <2>2. /\ Trimmed(Append(systemLog, total + 1)) \in Seq(Entries)
        /\ Len(Trimmed(Append(systemLog, total + 1))) <= LogCap
    BY <2>1, TrimmedAppend DEF TypeOK
  <2>3. systemLog' \in Seq(Nat \ {0}) /\ Len(systemLog') <= LogCap
    BY <1>1, <2>2 DEF Syslog, Entries
  <2> QED
    BY <1>1, <2>1, <2>3 DEF Syslog, TypeOK
<1>2. ASSUME NEW i \in Slots, PollLogs(i) PROVE TypeOK'
  BY <1>2 DEF PollLogs, TypeOK
<1>3. ASSUME NEW i \in Slots, ServeLogs(i) PROVE TypeOK'
  <2>1. Slice(since[i]) \in Seq(Nat \ {0})
    BY SliceProperties DEF TypeOK, Entries
  <2> QED
    BY <1>3, <2>1 DEF ServeLogs, TypeOK
<1>4. ASSUME NEW i \in Slots, HandleLogs(i) PROVE TypeOK'
  <2>1. /\ logged \o logs[i] \in Seq(Nat \ {0})
        /\ Len(logged \o logs[i]) = Len(logged) + Len(logs[i])
    BY Joined DEF TypeOK, Entries
  <2>2. logN' \in Nat /\ logN' = Len(logged')
    BY <1>4, <2>1 DEF HandleLogs, TypeOK
  <2>3. logs[i] \in Seq(Nat)
    BY DEF TypeOK
  <2>4. shown' \in Seq(Nat) /\ Len(shown') <= PageCap
    BY <1>4, <2>3, LogProperties DEF HandleLogs
  <2> HIDE DEF Log
  <2> QED
    BY <1>4, <2>1, <2>2, <2>4 DEF HandleLogs, Free, TypeOK
<1>5. ASSUME NEW i \in Slots, LoseLogs(i) PROVE TypeOK'
  BY <1>5 DEF LoseLogs, Free, TypeOK
<1>6. CASE Reload
  <2>1. /\ logged' \in Seq(Nat \ {0}) /\ logN' \in Nat /\ logN' = Len(logged')
        /\ shown' \in Seq(Nat) /\ Len(shown') <= PageCap
    BY <1>6, NoEntries, LogFeedAssumption DEF Reload
  <2>2. logs' \in [Slots -> Seq(Nat \ {0})]
    BY <1>6, NoEntries DEF Reload
  <2>3. /\ phase' \in [Slots -> {"idle", "asked", "answered"}]
        /\ since' \in [Slots -> Nat] /\ overlapped' \in BOOLEAN
        /\ UNCHANGED <<systemLog, total, restarts>>
    BY <1>6 DEF Reload
  <2>4. reloads' \in Nat
    <3>1. reloads' = reloads + 1 /\ reloads \in Nat
      BY <1>6 DEF Reload, TypeOK
    <3> QED
      BY <3>1
  <2> QED
    BY <2>1, <2>2, <2>3, <2>4 DEF TypeOK
<1>7. CASE Restart
  BY <1>7, LogFeedAssumption DEF Restart, TypeOK
<1>8. CASE UNCHANGED vars
  BY <1>8 DEF TypeOK, vars
<1>9. CASE LogOwn
  <2>1. shown' \in Seq(Nat) /\ Len(shown') <= PageCap
    BY <1>9, LogProperties, <<0>> \in Seq(Nat) DEF LogOwn
  <2> QED
    BY <1>9, <2>1 DEF LogOwn, TypeOK
<1> QED
  BY <1>1, <1>2, <1>3, <1>4, <1>5, <1>6, <1>7, <1>8, <1>9 DEF Next

(* Every variable keeps its type and logN counts what the page has logged. *)
THEOREM TypeCorrect == Spec => []TypeOK
<1>1. Init => TypeOK
  <2> SUFFICES ASSUME Init PROVE TypeOK
    OBVIOUS
  <2>1. systemLog \in Seq(Nat \ {0}) /\ Len(systemLog) <= LogCap
    BY NoEntries, LogFeedAssumption DEF Init
  <2>2. /\ logged \in Seq(Nat \ {0}) /\ logN = Len(logged)
        /\ shown \in Seq(Nat) /\ Len(shown) <= PageCap
    BY NoEntries, LogFeedAssumption DEF Init
  <2>3. logs \in [Slots -> Seq(Nat \ {0})]
    BY NoEntries DEF Init
  <2>4. /\ phase \in [Slots -> {"idle", "asked", "answered"}]
        /\ since \in [Slots -> Nat] /\ overlapped \in BOOLEAN
        /\ total \in Nat /\ logN \in Nat /\ reloads \in Nat /\ restarts \in Nat
    BY DEF Init
  <2> QED
    BY <2>1, <2>2, <2>3, <2>4 DEF TypeOK
<1> QED
  BY <1>1, TypeStep, PTL DEF Spec

-----------------------------------------------------------------------------
(* Where the entries are.                                                  *)

\* The list is a run of entries that ends with the newest.
Numbered ==
    /\ Gone \in Nat
    /\ \A k \in 1 .. Len(systemLog) : systemLog[k] = Gone + k

\* The page and the answers to it are not ahead of the count by more than
\* the entries that are gone.
Ahead ==
    /\ \A j \in 1 .. Len(logged) : logged[j] <= logN + Gone /\ logged[j] <= total
    /\ \A i \in Slots : phase[i] # "idle" => since[i] <= logN
    /\ \A i \in Slots : phase[i] = "answered" =>
          \A k \in 1 .. Len(logs[i]) :
             logs[i][k] <= since[i] + k + Gone /\ logs[i][k] <= total

\* A step of the server lets Gone grow and nothing else.
LEMMA GoneGrows ==
    ASSUME TypeOK, Numbered, Syslog \/ Restart
    PROVE  Numbered' /\ Gone <= Gone' /\ total <= total'
<1>1. CASE Syslog
  <2> DEFINE a == Append(systemLog, total + 1)
             d == Len(systemLog) + 1 - Len(systemLog')
  <2>1. /\ systemLog \in Seq(Entries) /\ total + 1 \in Entries /\ total \in Nat
        /\ systemLog' = Trimmed(a) /\ total' = total + 1
    BY <1>1 DEF Syslog, TypeOK, Entries
  <2>2. /\ systemLog' \in Seq(Entries) /\ d \in {0, 1}
        /\ \A k \in 1 .. Len(systemLog') : systemLog'[k] = a[k + d]
    BY <2>1, TrimmedAppend DEF TypeOK
  <2>3. \A k \in 1 .. Len(systemLog) + 1 : a[k] = Gone + k
    BY <2>1 DEF Numbered, Gone
  <2>4. Len(systemLog) \in Nat /\ Len(systemLog') \in Nat
    BY <2>1, <2>2
  <2>5. Gone' = Gone + d
    BY <2>1, <2>4 DEF Gone
  <2>6. ASSUME NEW k \in 1 .. Len(systemLog') PROVE systemLog'[k] = Gone' + k
    <3>1. k + d \in 1 .. Len(systemLog) + 1
      BY <2>2, <2>4
    <3>2. systemLog'[k] = Gone + (k + d)
      BY <2>2, <2>3, <3>1
    <3> QED
      BY <2>2, <2>5, <3>2 DEF Numbered
  <2>7. Gone' \in Nat /\ Gone <= Gone'
    BY <2>2, <2>5 DEF Numbered
  <2> QED
    BY <2>1, <2>6, <2>7 DEF Numbered
<1>2. CASE Restart
  <2>1. systemLog' = <<>> /\ total' = total /\ total \in Nat /\ Len(systemLog) \in Nat
    BY <1>2 DEF Restart, TypeOK
  <2> QED
    BY <2>1 DEF Numbered, Gone
<1> QED
  BY <1>1, <1>2

LEMMA LogValues ==
    ASSUME TypeOK, NEW i \in Slots
    PROVE  /\ since[i] \in Nat /\ Len(logs[i]) \in Nat
           /\ \A k \in 1 .. Len(logs[i]) : logs[i][k] \in Nat
<1>1. logs[i] \in Seq(Nat \ {0}) /\ since[i] \in Nat
  BY DEF TypeOK
<1> QED
  BY <1>1

LEMMA Counted ==
    ASSUME NEW e \in Int, NEW s \in Int, NEW k \in Int, NEW g \in Int,
           NEW n \in Int, NEW l \in Int, e <= s + k + g, s <= n, k <= l
    PROVE  e <= (n + l) + g
OBVIOUS

LEMMA AheadStep ==
    TypeOK /\ Numbered /\ Ahead /\ [Next]_vars => Numbered' /\ Ahead'
<1> SUFFICES ASSUME TypeOK, Numbered, Ahead, [Next]_vars PROVE Numbered' /\ Ahead'
  OBVIOUS
<1>1. logN \in Nat /\ total \in Nat /\ Gone \in Nat
      /\ \A j \in 1 .. Len(logged) : logged[j] \in Nat
      /\ \A i \in Slots : since[i] \in Nat
  BY DEF TypeOK, Numbered
<1>2. CASE Syslog \/ Restart
  <2>1. Numbered' /\ Gone <= Gone' /\ total <= total' /\ Gone' \in Nat /\ total' \in Nat
    BY <1>1, <1>2, GoneGrows DEF Numbered, Syslog, Restart
  <2>2. /\ UNCHANGED <<logged, logN, logs>>
        /\ \A i \in Slots : phase'[i] # "idle" =>
              phase'[i] = phase[i] /\ since'[i] = since[i]
    BY <1>2 DEF Syslog, Restart
  <2>3. \A j \in 1 .. Len(logged') : logged'[j] <= logN' + Gone' /\ logged'[j] <= total'
    BY <1>1, <2>1, <2>2 DEF Ahead
  <2>4. ASSUME NEW i \in Slots, phase'[i] = "answered", NEW k \in 1 .. Len(logs'[i])
        PROVE  logs'[i][k] <= since'[i] + k + Gone' /\ logs'[i][k] <= total'
    <3>1. logs[i][k] <= since[i] + k + Gone /\ logs[i][k] <= total
      BY <2>2, <2>4 DEF Ahead
    <3>2. logs' = logs /\ since'[i] = since[i] /\ k \in 1 .. Len(logs[i])
      BY <2>2, <2>4
    <3>3. logs[i][k] \in Nat /\ since[i] \in Nat /\ k \in Nat
      BY <3>2, LogValues
    <3>4. since[i] + k + Gone <= since[i] + k + Gone'
      BY <1>1, <2>1, <3>3
    <3>5. logs[i][k] <= since[i] + k + Gone' /\ logs[i][k] <= total'
      BY <1>1, <2>1, <3>1, <3>3, <3>4, SMTT(30)
    <3> QED
      BY <3>2, <3>5
  <2> QED
    BY <2>1, <2>2, <2>3, <2>4 DEF Ahead
<1>3. ASSUME UNCHANGED serverVars PROVE Gone' = Gone /\ Numbered'
  BY <1>3 DEF Numbered, Gone
<1>4. ASSUME NEW i \in Slots, PollLogs(i) PROVE Numbered' /\ Ahead'
  BY <1>1, <1>3, <1>4 DEF PollLogs, Ahead, TypeOK
<1>5. ASSUME NEW i \in Slots, ServeLogs(i) PROVE Numbered' /\ Ahead'
  <2>1. ASSUME NEW k \in 1 .. Len(Slice(since[i]))
        PROVE  /\ Slice(since[i])[k] <= since[i] + k + Gone
               /\ Slice(since[i])[k] <= total
    <3>1. /\ since[i] + k \in 1 .. Len(systemLog)
          /\ Slice(since[i])[k] = systemLog[since[i] + k]
      BY <1>1, <2>1, SliceProperties DEF TypeOK, Entries
    <3>2. Slice(since[i])[k] = Gone + (since[i] + k)
      BY <3>1 DEF Numbered
    <3>3. Len(systemLog) \in Nat /\ Gone + Len(systemLog) = total
      BY <1>1 DEF TypeOK, Gone
    <3> QED
      BY <1>1, <2>1, <3>1, <3>2, <3>3
  <2>2. Gone' = Gone /\ Numbered' /\ UNCHANGED <<since, logged, logN, total>>
    BY <1>3, <1>5 DEF ServeLogs
  <2>3. \A j \in Slots : /\ phase'[j] # "idle" => phase[j] # "idle"
                         /\ phase'[j] = "answered" =>
                               \/ phase[j] = "answered" /\ logs'[j] = logs[j]
                               \/ j = i /\ logs'[j] = Slice(since[i])
    BY <1>5 DEF ServeLogs, TypeOK
  <2> QED
    BY <2>1, <2>2, <2>3 DEF Ahead
<1>6. ASSUME NEW i \in Slots, HandleLogs(i) PROVE Numbered' /\ Ahead'
  <2>1. Gone' = Gone /\ Numbered' /\ total' = total
    BY <1>3, <1>6 DEF HandleLogs
  <2>2. /\ logged' = logged \o logs[i] /\ logN' = logN + Len(logs[i])
        /\ phase[i] = "answered"
        /\ logged \in Seq(Entries) /\ logs[i] \in Seq(Entries) /\ logN = Len(logged)
    BY <1>6 DEF HandleLogs, TypeOK, Entries
  <2>3. ASSUME NEW j \in 1 .. Len(logged')
        PROVE  logged'[j] <= logN' + Gone' /\ logged'[j] <= total'
    <3>1. CASE j <= Len(logged)
      <4>1. j \in 1 .. Len(logged) /\ logged'[j] = logged[j]
        BY <2>2, <2>3, <3>1, Joined
      <4>2. logged[j] <= logN + Gone /\ logged[j] <= total /\ logged[j] \in Nat
        BY <1>1, <4>1 DEF Ahead
      <4> QED
        BY <1>1, <2>1, <2>2, <4>1, <4>2
    <3>2. CASE j > Len(logged)
      <4> DEFINE k == j - Len(logged)
      <4>1. k \in 1 .. Len(logs[i]) /\ logged'[j] = logs[i][k]
        BY <2>2, <2>3, <3>2, Joined
      <4>2. logs[i][k] <= since[i] + k + Gone /\ logs[i][k] <= total /\ since[i] <= logN
        BY <2>2, <4>1 DEF Ahead
      <4> HIDE DEF k
      <4>3. /\ logs[i][k] \in Nat /\ since[i] \in Nat /\ Len(logs[i]) \in Nat
            /\ k \in Nat /\ k <= Len(logs[i])
        BY <4>1, LogValues
      <4>4. /\ Gone \in Int /\ Gone' = Gone /\ logN \in Int
            /\ logN' = logN + Len(logs[i])
        BY <1>1, <2>1, <2>2
      <4>5. logs[i][k] <= logN' + Gone'
        <5> DEFINE e == logs[i][k]
                   s == since[i]
                   l == Len(logs[i])
                   g == Gone
        <5>1. e \in Int /\ s \in Int /\ l \in Int /\ k \in Int
          BY <4>3
        <5>2. g \in Int /\ logN \in Int /\ logN' + Gone' = (logN + l) + g
          BY <4>4
        <5>3. e <= s + k + g /\ s <= logN /\ k <= l
          BY <4>2, <4>3
        <5> HIDE DEF e, s, l, g
        <5>4. e <= (logN + l) + g
          BY <5>1, <5>2, <5>3, Counted
        <5> QED
          BY <5>2, <5>4 DEF e
      <4>6. logs[i][k] <= total'
        BY <2>1, <4>2
      <4> QED
        BY <4>1, <4>5, <4>6
    <3> QED
      BY <2>2, <2>3, <3>1, <3>2
  <2>4. /\ logN <= logN' /\ logN' \in Nat
        /\ \A j \in Slots : phase'[j] # "idle" =>
              phase'[j] = phase[j] /\ since'[j] = since[j] /\ logs'[j] = logs[j]
    BY <1>1, <1>6, <2>2 DEF HandleLogs, Free, TypeOK
  <2>5. ASSUME NEW j \in Slots, phase'[j] # "idle" PROVE since'[j] <= logN'
    <3>1. since[j] <= logN /\ since[j] \in Nat /\ since'[j] = since[j]
      BY <2>4, <2>5, LogValues DEF Ahead
    <3> QED
      BY <1>1, <2>4, <3>1
  <2> QED
    BY <2>1, <2>3, <2>4, <2>5 DEF Ahead
<1>7. ASSUME NEW i \in Slots, LoseLogs(i) PROVE Numbered' /\ Ahead'
  BY <1>3, <1>7 DEF LoseLogs, Free, Ahead, TypeOK
<1>8. CASE Reload
  BY <1>3, <1>8 DEF Reload, Ahead
<1>9. CASE LogOwn \/ UNCHANGED vars
  BY <1>3, <1>9 DEF Ahead, LogOwn, vars
<1> QED
  BY <1>2, <1>4, <1>5, <1>6, <1>7, <1>8, <1>9 DEF Next

LEMMA Whereabouts == Spec => [](Numbered /\ Ahead)
<1>1. Init => Numbered /\ Ahead
  <2> SUFFICES ASSUME Init PROVE Numbered /\ Ahead
    OBVIOUS
  <2>1. Len(systemLog) = 0 /\ Len(logged) = 0 /\ total = 0
    BY NoEntries DEF Init
  <2>2. \A i \in Slots : phase[i] = "idle"
    BY DEF Init
  <2> QED
    BY <2>1, <2>2 DEF Numbered, Ahead, Gone
<1> QED
  BY <1>1, AheadStep, TypeCorrect, PTL DEF Spec

(* A skipped entry is explained by one that has left the list or by one    *)
(* that is logged twice: what is logged or skipped is among the first logN *)
(* + Gone entries, and no entry is both.                                   *)
THEOREM NoUnexplainedSkip == Spec => []SkipsExplained
<1>1. TypeOK /\ Numbered /\ Ahead => SkipsExplained
  <2> SUFFICES ASSUME TypeOK, Numbered, Ahead PROVE SkipsExplained
    OBVIOUS
  <2> DEFINE top == logN + Gone
  <2>1. top \in Nat /\ logN \in Nat /\ Gone \in Nat /\ logN = Len(logged)
    BY DEF TypeOK, Numbered
  <2>2. ASSUME NEW d \in Logged PROVE d \in 1 .. top
    <3>1. PICK j \in 1 .. Len(logged) : d = logged[j]
      BY <2>2 DEF Logged, TypeOK
    <3>2. logged[j] \in Nat \ {0} /\ logged[j] <= top
      BY <3>1 DEF TypeOK, Ahead
    <3> QED
      BY <2>1, <3>1, <3>2
  <2> HIDE DEF top
  <2>3. Skipped \subseteq 1 .. top
    <3> SUFFICES ASSUME NEW e \in Skipped PROVE e \in 1 .. top
      OBVIOUS
    <3>1. e \in 1 .. total /\ \E d \in Logged : e < d
      BY DEF Skipped
    <3>2. PICK d \in 1 .. top : e < d
      BY <2>2, <3>1
    <3> QED
      BY <2>1, <3>1, <3>2 DEF TypeOK
  <2>4. Logged \subseteq 1 .. top /\ Skipped \intersect Logged = {}
    BY <2>2 DEF Skipped
  <2>5. IsFiniteSet(1 .. top) /\ Cardinality(1 .. top) = top
    <3>1. /\ IsFiniteSet(1 .. top)
          /\ Cardinality(1 .. top) = IF 1 > top THEN 0 ELSE top - 1 + 1
      BY <2>1, FS_Interval, 1 \in Int, top \in Int
    <3> QED
      BY <2>1, <3>1
  <2>6. IsFiniteSet(Skipped) /\ IsFiniteSet(Logged)
    BY <2>3, <2>4, <2>5, FS_Subset
  <2>7. Cardinality(Skipped \union Logged)
           = Cardinality(Skipped) + Cardinality(Logged)
                - Cardinality(Skipped \intersect Logged)
    BY <2>6, FS_Union
  <2>8. Cardinality(Skipped \intersect Logged) = 0
    BY <2>4, FS_EmptySet
  <2>9. Cardinality(Skipped \union Logged) <= top
    BY <2>3, <2>4, <2>5, FS_Subset
  <2>10. Cardinality(Skipped) \in Nat /\ Cardinality(Logged) \in Nat
    BY <2>6, FS_CardinalityType
  <2> QED
    BY <2>1, <2>7, <2>8, <2>9, <2>10 DEF SkipsExplained, Duplicates, top
<1> QED
  BY <1>1, TypeCorrect, Whereabouts, PTL

-----------------------------------------------------------------------------
(* A page whose requests do not overlap has one at most, with its count.   *)
Alone ==
    ~ overlapped =>
        /\ \A i, j \in Slots : phase[i] # "idle" /\ phase[j] # "idle" => i = j
        /\ \A i \in Slots : phase[i] # "idle" => since[i] = logN
        /\ \A i \in Slots : phase[i] = "answered" =>
              \A k \in 1 .. Len(logs[i]) :
                 /\ \A j \in 1 .. Len(logged) : logged[j] < logs[i][k]
                 /\ \A l \in 1 .. Len(logs[i]) : k < l => logs[i][k] < logs[i][l]
        /\ \A j, l \in 1 .. Len(logged) : j < l => logged[j] < logged[l]

LEMMA AloneStep ==
    TypeOK /\ Numbered /\ Ahead /\ Alone /\ [Next]_vars => Alone'
<1> SUFFICES ASSUME TypeOK, Numbered, Ahead, Alone, [Next]_vars, ~ overlapped'
             PROVE  Alone'
  BY DEF Alone
<1>1. ASSUME UNCHANGED <<overlapped, logged, logN>>,
             \A i \in Slots : phase'[i] # "idle" =>
                /\ phase'[i] = phase[i] /\ since'[i] = since[i]
                /\ logs'[i] = logs[i]
      PROVE  Alone'
  BY <1>1 DEF Alone
<1>2. ASSUME NEW i \in Slots, PollLogs(i) PROVE Alone'
  <2>1. ~ overlapped /\ \A j \in Slots : phase[j] = "idle"
    BY <1>2 DEF PollLogs, Pending
  <2>2. /\ \A j \in Slots \ {i} : phase'[j] = "idle"
        /\ phase'[i] = "asked" /\ since'[i] = logN /\ logN' = logN /\ logged' = logged
    BY <1>2, <2>1 DEF PollLogs, TypeOK
  <2> QED
    BY <2>1, <2>2 DEF Alone
<1>3. ASSUME NEW i \in Slots, ServeLogs(i) PROVE Alone'
  <2>1. /\ ~ overlapped /\ phase[i] = "asked" /\ since[i] = logN
        /\ \A j \in Slots \ {i} : phase[j] = "idle"
    BY <1>3 DEF ServeLogs, Alone
  <2>2. /\ \A j \in Slots \ {i} : phase'[j] = "idle"
        /\ logs'[i] = Slice(logN) /\ UNCHANGED <<since, logN, logged>>
    BY <1>3, <2>1 DEF ServeLogs, TypeOK
  <2>3. logN \in Nat /\ Gone \in Nat /\ Len(Slice(logN)) \in Nat
    BY SliceProperties DEF TypeOK, Numbered, Entries
  <2>4. ASSUME NEW k \in 1 .. Len(Slice(logN))
        PROVE  Slice(logN)[k] = Gone + (logN + k)
    BY <2>3, SliceProperties DEF Numbered, TypeOK, Entries
  <2>5. ASSUME NEW k \in 1 .. Len(Slice(logN))
        PROVE  /\ \A j \in 1 .. Len(logged) : logged[j] < Slice(logN)[k]
               /\ \A l \in 1 .. Len(Slice(logN)) :
                     k < l => Slice(logN)[k] < Slice(logN)[l]
    <3>1. ASSUME NEW j \in 1 .. Len(logged) PROVE logged[j] < Slice(logN)[k]
      <4>1. logged[j] \in Nat /\ logged[j] <= logN + Gone
        BY DEF Ahead, TypeOK
      <4>2. Slice(logN)[k] = Gone + (logN + k) /\ k \in Nat /\ k >= 1
        BY <2>3, <2>4
      <4> HIDE DEF Slice
      <4> QED
        BY <2>3, <4>1, <4>2
    <3> QED
      BY <2>3, <2>4, <3>1
  <2> QED
    BY <2>1, <2>2, <2>5 DEF Alone
<1>4. ASSUME NEW i \in Slots, HandleLogs(i) PROVE Alone'
  <2>1. /\ ~ overlapped /\ phase[i] = "answered"
        /\ \A j \in Slots \ {i} : phase[j] = "idle"
    BY <1>4 DEF HandleLogs, Alone
  <2>2. \A j \in Slots : phase'[j] = "idle"
    BY <1>4, <2>1 DEF HandleLogs, Free, TypeOK
  <2>3. logged' = logged \o logs[i]
    BY <1>4 DEF HandleLogs
  <2>4. logged \in Seq(Entries) /\ logs[i] \in Seq(Entries)
    BY DEF TypeOK, Entries
  <2>5. ASSUME NEW j \in 1 .. Len(logged'), NEW l \in 1 .. Len(logged'), j < l
        PROVE  logged'[j] < logged'[l]
    <3>1. CASE l <= Len(logged)
      <4>1. j \in 1 .. Len(logged) /\ l \in 1 .. Len(logged)
        BY <2>4, <2>5, <3>1
      <4>2. logged'[j] = logged[j] /\ logged'[l] = logged[l]
        BY <2>3, <2>4, <2>5, <4>1, Joined
      <4> QED
        BY <2>1, <2>5, <4>1, <4>2 DEF Alone
    <3>2. CASE l > Len(logged) /\ j <= Len(logged)
      <4>1. j \in 1 .. Len(logged) /\ l - Len(logged) \in 1 .. Len(logs[i])
        BY <2>3, <2>4, <2>5, <3>2, Joined
      <4>2. logged'[j] = logged[j] /\ logged'[l] = logs[i][l - Len(logged)]
        BY <2>3, <2>4, <2>5, <3>2, Joined
      <4> QED
        BY <2>1, <4>1, <4>2 DEF Alone
    <3>3. CASE j > Len(logged)
      <4>1. /\ j - Len(logged) \in 1 .. Len(logs[i])
            /\ l - Len(logged) \in 1 .. Len(logs[i])
            /\ j - Len(logged) < l - Len(logged)
        BY <2>3, <2>4, <2>5, <3>3, Joined
      <4>2. logged'[j] = logs[i][j - Len(logged)] /\ logged'[l] = logs[i][l - Len(logged)]
        BY <2>3, <2>4, <2>5, <3>3, Joined
      <4> QED
        BY <2>1, <4>1, <4>2 DEF Alone
    <3> QED
      BY <2>4, <3>1, <3>2, <3>3
  <2> QED
    BY <2>2, <2>5 DEF Alone
<1>5. ASSUME NEW i \in Slots, LoseLogs(i) PROVE Alone'
  BY <1>1, <1>5 DEF LoseLogs, Free, TypeOK
<1>6. CASE Reload
  <2>1. \A i \in Slots : phase'[i] = "idle"
    BY <1>6 DEF Reload
  <2>2. Len(logged') = 0
    BY <1>6, NoEntries DEF Reload
  <2> QED
    BY <2>1, <2>2 DEF Alone
<1>7. CASE Restart
  BY <1>1, <1>7 DEF Restart, TypeOK
<1>8. CASE Syslog \/ LogOwn \/ UNCHANGED vars
  BY <1>1, <1>8 DEF Syslog, LogOwn, vars
<1> QED
  BY <1>2, <1>3, <1>4, <1>5, <1>6, <1>7, <1>8 DEF Next

(* A page whose requests never overlap logs each entry once at most        *)
(* and in order, whatever the list loses meanwhile.                        *)
THEOREM OnceEach == Spec => []OnceInOrder
<1>1. Init => Alone
  <2> SUFFICES ASSUME Init PROVE Alone
    OBVIOUS
  <2>1. Len(logged) = 0 /\ \A i \in Slots : phase[i] = "idle"
    BY NoEntries DEF Init
  <2> QED
    BY <2>1 DEF Alone
<1>2. TypeOK /\ Alone => OnceInOrder
  BY DEF TypeOK, Alone, OnceInOrder
<1> QED
  BY <1>1, <1>2, AloneStep, Whereabouts, TypeCorrect, PTL DEF Spec

-----------------------------------------------------------------------------
(* An answer ends within the list, so it does not lead the count beyond    *)
(* the cap.                                                                *)
Stopped ==
    /\ \A i \in Slots : phase[i] = "answered" =>
          Len(logs[i]) = 0 \/ since[i] + Len(logs[i]) <= LogCap
    /\ StopsAtCap

LEMMA StoppedStep ==
    TypeOK /\ Alone /\ Stopped /\ [Next]_vars => Stopped'
<1> SUFFICES ASSUME TypeOK, Alone, Stopped, [Next]_vars PROVE Stopped'
  OBVIOUS
<1>1. ASSUME UNCHANGED logN, overlapped => overlapped',
             \A i \in Slots : phase'[i] = "answered" =>
                /\ phase[i] = "answered" /\ since'[i] = since[i] /\ logs'[i] = logs[i]
      PROVE  Stopped'
  BY <1>1 DEF Stopped, StopsAtCap
<1>2. ASSUME NEW i \in Slots, PollLogs(i) PROVE Stopped'
  BY <1>1, <1>2 DEF PollLogs, TypeOK
<1>3. ASSUME NEW i \in Slots, ServeLogs(i) PROVE Stopped'
  <2>1. /\ since[i] \in Nat /\ Len(systemLog) \in Nat /\ LogCap \in Nat
        /\ Len(systemLog) <= LogCap
    BY LogFeedAssumption DEF TypeOK
  <2>2. Len(Slice(since[i])) = 0 \/ since[i] + Len(Slice(since[i])) <= LogCap
    BY <2>1, SliceProperties DEF TypeOK, Entries
  <2>3. \A j \in Slots : phase'[j] = "answered" =>
           /\ since'[j] = since[j]
           /\ \/ phase[j] = "answered" /\ logs'[j] = logs[j]
              \/ j = i /\ logs'[j] = Slice(since[i])
    BY <1>3 DEF ServeLogs, TypeOK
  <2> QED
    BY <1>3, <2>2, <2>3 DEF ServeLogs, Stopped, StopsAtCap
<1>4. ASSUME NEW i \in Slots, HandleLogs(i) PROVE Stopped'
  <2>1. \A j \in Slots : phase'[j] = "answered" =>
           /\ phase[j] = "answered" /\ since'[j] = since[j] /\ logs'[j] = logs[j]
    BY <1>4 DEF HandleLogs, Free, TypeOK
  <2>2. logN \in Nat /\ Len(logs[i]) \in Nat /\ logN' = logN + Len(logs[i])
        /\ overlapped' = overlapped
    BY <1>4 DEF HandleLogs, TypeOK
  <2>3. ~ overlapped => logN' <= LogCap
    BY <1>4, <2>2 DEF HandleLogs, Alone, Stopped, StopsAtCap
  <2> QED
    BY <2>1, <2>2, <2>3 DEF Stopped, StopsAtCap
<1>5. ASSUME NEW i \in Slots, LoseLogs(i) PROVE Stopped'
  BY <1>1, <1>5 DEF LoseLogs, Free, TypeOK
<1>6. CASE Reload
  BY <1>6, LogFeedAssumption DEF Reload, Stopped, StopsAtCap
<1>7. CASE Syslog \/ Restart \/ LogOwn \/ UNCHANGED vars
  BY <1>1, <1>7 DEF Syslog, Restart, LogOwn, vars, TypeOK
<1> QED
  BY <1>2, <1>3, <1>4, <1>5, <1>6, <1>7 DEF Next

(* A page whose requests never overlap logs LogCap entries at most until   *)
(* it is loaded again.                                                     *)
THEOREM NeverBeyondCap == Spec => []StopsAtCap
<1>1. Init => Alone /\ Stopped
  <2> SUFFICES ASSUME Init PROVE Alone /\ Stopped
    OBVIOUS
  <2>1. Len(logged) = 0 /\ logN = 0 /\ \A i \in Slots : phase[i] = "idle"
    BY NoEntries DEF Init
  <2> QED
    BY <2>1, LogFeedAssumption DEF Alone, Stopped, StopsAtCap
<1>2. Stopped => StopsAtCap
  BY DEF Stopped
<1> QED
  BY <1>1, <1>2, AloneStep, StoppedStep, Whereabouts, TypeCorrect, PTL DEF Spec

-----------------------------------------------------------------------------
(* As long as no entry has left the list, a count is an index.             *)
Indexed ==
    total <= LogCap /\ restarts = 0 =>
        /\ Gone = 0
        /\ \A i \in Slots : phase[i] = "answered" =>
              \A k \in 1 .. Len(logs[i]) : logs[i][k] = since[i] + k
        /\ ~ overlapped => \A k \in 1 .. Len(logged) : logged[k] = k

LEMMA IndexedStep ==
    TypeOK /\ Numbered /\ Alone /\ Indexed /\ [Next]_vars => Indexed'
<1> SUFFICES ASSUME TypeOK, Numbered, Alone, Indexed, [Next]_vars,
                    total' <= LogCap, restarts' = 0
             PROVE  Indexed'
  BY DEF Indexed
<1>0. total \in Nat /\ restarts \in Nat /\ LogCap \in Nat /\ Len(systemLog) \in Nat
  BY LogFeedAssumption DEF TypeOK
<1>1. ~ Restart
  BY <1>0 DEF Restart
<1>2. restarts = 0 /\ total <= LogCap
  BY <1>0, <1>1
  DEF Next, Syslog, PollLogs, ServeLogs, HandleLogs, LoseLogs, LogOwn, Reload, vars
<1>3. ASSUME UNCHANGED serverVars PROVE Gone' = 0
  BY <1>2, <1>3 DEF Indexed, Gone
<1>4. CASE Syslog
  <2>1. total' = total + 1 /\ systemLog' = Trimmed(Append(systemLog, total + 1))
        /\ systemLog \in Seq(Entries) /\ total + 1 \in Entries
    BY <1>0, <1>4 DEF Syslog, TypeOK, Entries
  <2>2. Len(systemLog) = total
    BY <1>0, <1>2 DEF Indexed, Gone
  <2>3. Len(Append(systemLog, total + 1)) = total + 1
    BY <2>1, <2>2, AppendProperties
  <2>4. Trimmed(Append(systemLog, total + 1)) = Append(systemLog, total + 1)
    BY <1>0, <2>1, <2>3 DEF Trimmed
  <2>5. Gone' = 0
    BY <1>0, <2>1, <2>3, <2>4 DEF Gone
  <2> QED
    BY <1>2, <1>4, <2>5 DEF Indexed, Syslog
<1>5. ASSUME NEW i \in Slots, PollLogs(i) PROVE Indexed'
  <2>1. Gone' = 0
    BY <1>3, <1>5 DEF PollLogs
  <2> QED
    BY <1>2, <1>5, <2>1 DEF PollLogs, Indexed, TypeOK
<1>6. ASSUME NEW i \in Slots, ServeLogs(i) PROVE Indexed'
  <2>1. Gone' = 0 /\ Gone = 0
    BY <1>2, <1>3, <1>6 DEF ServeLogs, Indexed
  <2>2. since[i] \in Nat
    BY DEF TypeOK
  <2>3. ASSUME NEW k \in 1 .. Len(Slice(since[i]))
        PROVE  Slice(since[i])[k] = since[i] + k
    <3>1. /\ since[i] + k \in 1 .. Len(systemLog)
          /\ Slice(since[i])[k] = systemLog[since[i] + k]
      BY <2>2, <2>3, SliceProperties DEF TypeOK, Entries
    <3>2. systemLog[since[i] + k] = Gone + (since[i] + k)
      BY <3>1 DEF Numbered
    <3> QED
      BY <1>0, <2>1, <3>1, <3>2
  <2>4. \A j \in Slots : phase'[j] = "answered" =>
           \/ phase[j] = "answered" /\ logs'[j] = logs[j]
           \/ j = i /\ logs'[j] = Slice(since[i])
    BY <1>6 DEF ServeLogs, TypeOK
  <2> QED
    BY <1>2, <1>6, <2>1, <2>3, <2>4 DEF Indexed, ServeLogs
<1>7. ASSUME NEW i \in Slots, HandleLogs(i) PROVE Indexed'
  <2>1. Gone' = 0
    BY <1>3, <1>7 DEF HandleLogs
  <2>2. \A j \in Slots : phase'[j] = "answered" =>
           phase[j] = "answered" /\ since'[j] = since[j] /\ logs'[j] = logs[j]
    BY <1>7 DEF HandleLogs, Free, TypeOK
  <2>3. ASSUME ~ overlapped', NEW j \in 1 .. Len(logged') PROVE logged'[j] = j
    <3>1. /\ ~ overlapped /\ since[i] = logN /\ logN = Len(logged)
          /\ phase[i] = "answered"
      BY <1>7, <2>3 DEF HandleLogs, Alone, TypeOK
    <3>2. logged \in Seq(Entries) /\ logs[i] \in Seq(Entries) /\ Len(logged) \in Nat
      BY DEF TypeOK, Entries
    <3>3. logged' = logged \o logs[i]
      BY <1>7 DEF HandleLogs
    <3>4. CASE j <= Len(logged)
      <4>1. j \in 1 .. Len(logged) /\ logged'[j] = logged[j]
        BY <2>3, <3>2, <3>3, <3>4, Joined
      <4> QED
        BY <1>2, <3>1, <4>1 DEF Indexed
    <3>5. CASE j > Len(logged)
      <4>1. /\ j - Len(logged) \in 1 .. Len(logs[i])
            /\ logged'[j] = logs[i][j - Len(logged)]
        BY <2>3, <3>2, <3>3, <3>5, Joined
      <4>2. logged'[j] = Len(logged) + (j - Len(logged))
        BY <1>2, <3>1, <4>1 DEF Indexed
      <4> QED
        BY <2>3, <3>2, <4>2
    <3> QED
      BY <2>3, <3>2, <3>4, <3>5
  <2> QED
    BY <1>2, <2>1, <2>2, <2>3 DEF Indexed
<1>8. ASSUME NEW i \in Slots, LoseLogs(i) PROVE Indexed'
  <2>1. Gone' = 0
    BY <1>3, <1>8 DEF LoseLogs
  <2> QED
    BY <1>2, <1>8, <2>1 DEF LoseLogs, Free, Indexed, TypeOK
<1>9. CASE Reload
  <2>1. Gone' = 0 /\ Len(logged') = 0 /\ \A i \in Slots : phase'[i] = "idle"
    BY <1>3, <1>9, NoEntries DEF Reload
  <2> QED
    BY <2>1 DEF Indexed
<1>10. CASE LogOwn \/ UNCHANGED vars
  <2>1. Gone' = 0
    BY <1>3, <1>10 DEF LogOwn, vars
  <2> QED
    BY <1>2, <1>10, <2>1 DEF Indexed, LogOwn, vars
<1> QED
  BY <1>1, <1>4, <1>5, <1>6, <1>7, <1>8, <1>9, <1>10 DEF Next

(* The box holds its entries in order, and misses one that has been logged *)
(* only when newer lines fill it.                                          *)
Newest(n) ==
    /\ \A j, k \in 1 .. Len(shown) :
          j < k /\ shown[j] # 0 /\ shown[k] # 0 => shown[j] < shown[k]
    /\ \A k \in 1 .. Len(shown) : shown[k] <= n
    /\ \A e \in 1 .. n : InBox(e) \/ PushedOut(e)

BoxOfNewest == Undisturbed => Newest(logN)

(* Lines of the page itself, or the next n - logN entries.                 *)
LEMMA LogKeepsNewest ==
    ASSUME TypeOK, Newest(logN), NEW lines \in Seq(Nat), NEW n \in Nat,
           \/ n = logN /\ \A k \in 1 .. Len(lines) : lines[k] = 0
           \/ /\ n = logN + Len(lines)
              /\ \A k \in 1 .. Len(lines) : lines[k] = logN + k,
           shown' = Log(lines)
    PROVE  Newest(n)'
<1> DEFINE L == Len(shown)
           o == Over(lines)
           M == Len(lines)
<1>1. /\ shown \in Seq(Nat) /\ L \in Nat /\ M \in Nat /\ logN \in Nat
      /\ PageCap \in Nat \ {0} /\ L <= PageCap
  BY LogFeedAssumption DEF TypeOK
<1>2. /\ o \in Nat /\ Len(shown') = L + M - o /\ Len(shown') <= PageCap
      /\ o > 0 => Len(shown') = PageCap
      /\ \A k \in 1 .. Len(shown') :
            shown'[k] = IF k + o <= L THEN shown[k + o] ELSE lines[k + o - L]
  BY LogProperties
<1> HIDE DEF L, o, M
<1>3. \A k \in 1 .. Len(shown') :
         /\ k + o <= L => k + o \in 1 .. L
         /\ k + o > L => k + o - L \in 1 .. M
  BY <1>1, <1>2
<1>4. \A k \in 1 .. L : shown[k] \in Nat /\ shown[k] <= logN
  BY <1>1 DEF Newest, L
<1>5. \A k \in 1 .. M : lines[k] \in Nat /\ (lines[k] # 0 => lines[k] > logN /\ lines[k] = logN + k)
  BY <1>1 DEF M
<1>6. logN <= n /\ \A k \in 1 .. M : lines[k] <= n
  BY <1>1 DEF M
<1>7. ASSUME NEW k \in 1 .. Len(shown') PROVE shown'[k] \in Nat /\ shown'[k] <= n
  <2>1. CASE k + o <= L
    <3>1. shown'[k] \in Nat /\ shown'[k] <= logN
      BY <1>2, <1>3, <1>4, <2>1
    <3> QED
      BY <1>1, <1>6, <3>1
  <2>2. CASE k + o > L
    <3>1. k + o - L \in 1 .. M /\ shown'[k] = lines[k + o - L]
      BY <1>1, <1>2, <1>3, <2>2
    <3> QED
      BY <1>5, <1>6, <3>1
  <2> QED
    BY <1>1, <1>2, <2>1, <2>2
<1>8. ASSUME NEW j \in 1 .. Len(shown'), NEW k \in 1 .. Len(shown'),
             j < k, shown'[j] # 0, shown'[k] # 0
      PROVE  shown'[j] < shown'[k]
  <2>1. CASE k + o <= L
    <3>1. /\ j + o \in 1 .. L /\ k + o \in 1 .. L /\ j + o < k + o
          /\ shown'[j] = shown[j + o] /\ shown'[k] = shown[k + o]
      BY <1>1, <1>2, <1>3, <1>8, <2>1, SMTT(30)
    <3> QED
      BY <1>8, <3>1 DEF Newest, L
  <2>2. CASE j + o <= L /\ k + o > L
    <3>1. /\ j + o \in 1 .. L /\ k + o - L \in 1 .. M
          /\ shown'[j] = shown[j + o] /\ shown'[k] = lines[k + o - L]
      BY <1>1, <1>2, <1>3, <2>2
    <3>2. shown'[j] <= logN /\ shown'[k] > logN /\ shown'[j] \in Nat /\ shown'[k] \in Nat
      BY <1>4, <1>5, <1>8, <3>1
    <3> QED
      BY <1>1, <3>2
  <2>3. CASE j + o > L
    <3>1. /\ j + o - L \in 1 .. M /\ k + o - L \in 1 .. M
          /\ shown'[j] = lines[j + o - L] /\ shown'[k] = lines[k + o - L]
      BY <1>1, <1>2, <1>3, <1>8, <2>3, SMTT(30)
    <3>2. shown'[j] = logN + (j + o - L) /\ shown'[k] = logN + (k + o - L)
      BY <1>5, <1>8, <3>1
    <3> QED
      BY <1>1, <1>2, <1>8, <3>2
  <2> QED
    BY <1>1, <1>2, <1>8, <2>1, <2>2, <2>3
<1>9. ASSUME NEW e \in 1 .. n PROVE (InBox(e) \/ PushedOut(e))'
  <2>1. CASE e <= logN /\ PushedOut(e)
    <3>1. L = PageCap /\ \A k \in 1 .. L : shown[k] = 0 \/ shown[k] > e
      BY <1>1, <2>1, SMTT(30) DEF PushedOut, L
    <3>2. Len(shown') = PageCap
      BY <1>1, <1>2, <3>1
    <3>3. \A k \in 1 .. Len(shown') : shown'[k] = 0 \/ shown'[k] > e
      <4> SUFFICES ASSUME NEW k \in 1 .. Len(shown'), shown'[k] # 0 PROVE shown'[k] > e
        OBVIOUS
      <4>1. CASE k + o <= L
        BY <1>2, <1>3, <3>1, <4>1
      <4>2. CASE k + o > L
        <5>1. k + o - L \in 1 .. M /\ shown'[k] = lines[k + o - L]
          BY <1>1, <1>2, <1>3, <4>2
        <5>2. shown'[k] > logN /\ shown'[k] \in Nat
          BY <1>5, <5>1
        <5> QED
          BY <1>1, <2>1, <5>2
      <4> QED
        BY <1>1, <1>2, <4>1, <4>2
    <3>4. DOMAIN shown' = 1 .. Len(shown')
      BY LogProperties
    <3> QED
      BY <3>2, <3>3, <3>4 DEF PushedOut
  <2>2. CASE e <= logN /\ InBox(e)
    <3>1. PICK p \in 1 .. L : shown[p] = e
      BY <1>1, <2>2 DEF InBox, L
    <3>2. CASE p > o
      <4>1. p - o \in 1 .. Len(shown') /\ shown'[p - o] = e
        BY <1>1, <1>2, <3>1, <3>2
      <4>2. DOMAIN shown' = 1 .. Len(shown')
        BY LogProperties
      <4> QED
        BY <4>1, <4>2 DEF InBox
    <3>3. CASE p <= o
      <4>1. Len(shown') = PageCap
        BY <1>2, <3>1, <3>3
      <4>2. \A k \in 1 .. Len(shown') : shown'[k] = 0 \/ shown'[k] > e
        <5> SUFFICES ASSUME NEW k \in 1 .. Len(shown'), shown'[k] # 0 PROVE shown'[k] > e
          OBVIOUS
        <5>1. CASE k + o <= L
          <6>1. k + o \in 1 .. L /\ p < k + o /\ shown'[k] = shown[k + o]
            BY <1>1, <1>2, <1>3, <3>1, <3>3, <5>1
          <6> QED
            BY <3>1, <6>1, SMTT(30) DEF Newest, L
        <5>2. CASE k + o > L
          <6>1. k + o - L \in 1 .. M /\ shown'[k] = lines[k + o - L]
            BY <1>1, <1>2, <1>3, <5>2
          <6>2. shown'[k] > logN /\ shown'[k] \in Nat
            BY <1>5, <6>1
          <6> QED
            BY <1>1, <2>2, <6>2
        <5> QED
          BY <1>1, <1>2, <5>1, <5>2
      <4>3. DOMAIN shown' = 1 .. Len(shown')
        BY LogProperties
      <4> QED
        BY <4>1, <4>2, <4>3 DEF PushedOut
    <3> QED
      BY <1>1, <1>2, <3>1, <3>2, <3>3
  <2>3. CASE e > logN
    <3>1. /\ n = logN + M /\ e - logN \in 1 .. M
          /\ \A k \in 1 .. M : lines[k] = logN + k
      BY <1>1, <2>3 DEF M
    <3> DEFINE p == L + (e - logN)
    <3>2. p \in 1 .. L + M /\ p > L
      BY <1>1, <3>1
    <3>3. CASE p > o
      <4>1. p - o \in 1 .. Len(shown') /\ (p - o) + o > L
        BY <1>1, <1>2, <3>2, <3>3
      <4>2. shown'[p - o] = lines[(p - o) + o - L]
        BY <1>1, <1>2, <4>1
      <4>3. (p - o) + o - L = e - logN
        BY <1>1, <1>2
      <4>4. shown'[p - o] = e
        BY <1>1, <3>1, <4>2, <4>3
      <4>5. DOMAIN shown' = 1 .. Len(shown')
        BY LogProperties
      <4> QED
        BY <4>1, <4>4, <4>5 DEF InBox
    <3>4. CASE p <= o
      <4>1. Len(shown') = PageCap
        BY <1>1, <1>2, <3>2, <3>4
      <4>2. \A k \in 1 .. Len(shown') : shown'[k] > e
        <5> SUFFICES ASSUME NEW k \in 1 .. Len(shown') PROVE shown'[k] > e
          OBVIOUS
        <5>1. k + o > L /\ k + o - L \in 1 .. M /\ k + o - L > e - logN
          BY <1>1, <1>2, <1>3, <3>2, <3>4
        <5>2. shown'[k] = logN + (k + o - L)
          BY <1>1, <1>2, <3>1, <5>1
        <5> QED
          BY <1>1, <1>2, <5>1, <5>2
      <4>3. DOMAIN shown' = 1 .. Len(shown')
        BY LogProperties
      <4> QED
        BY <4>1, <4>2, <4>3 DEF PushedOut
    <3> QED
      BY <1>1, <1>2, <3>2, <3>3, <3>4
  <2> QED
    BY <1>1, <1>9, <2>1, <2>2, <2>3 DEF Newest
<1> QED
  BY <1>7, <1>8, <1>9 DEF Newest

LEMMA BoxStep ==
    TypeOK /\ Alone /\ Indexed /\ BoxOfNewest /\ [Next]_vars => BoxOfNewest'
<1> SUFFICES ASSUME TypeOK, Alone, Indexed, BoxOfNewest, [Next]_vars, Undisturbed'
             PROVE  Newest(logN)'
  BY DEF BoxOfNewest
<1>1. CASE Reload
  BY <1>1, NoEntries DEF Reload, Newest
<1>2. CASE ~ Reload
  <2>1. Undisturbed
    BY <1>2, LogFeedAssumption DEF TypeOK, Undisturbed, Next, Syslog, PollLogs, ServeLogs,
       HandleLogs, LoseLogs, LogOwn, Restart, vars
  <2>2. Newest(logN)
    BY <2>1 DEF BoxOfNewest
  <2>3. CASE UNCHANGED <<shown, logN>>
    BY <2>2, <2>3 DEF Newest, InBox, PushedOut
  <2>4. CASE LogOwn
    <3> DEFINE lines == <<0>>
    <3>1. lines \in Seq(Nat) /\ \A k \in 1 .. Len(lines) : lines[k] = 0
      OBVIOUS
    <3>2. shown' = Log(lines) /\ logN' = logN /\ logN \in Nat
      BY <2>4 DEF LogOwn, TypeOK
    <3> HIDE DEF lines
    <3> QED
      BY <2>2, <3>1, <3>2, LogKeepsNewest DEF Newest, InBox, PushedOut
  <2>5. ASSUME NEW i \in Slots, HandleLogs(i) PROVE Newest(logN)'
    <3>1. /\ logs[i] \in Seq(Nat) /\ Len(logs[i]) \in Nat /\ logN \in Nat
          /\ phase[i] = "answered" /\ shown' = Log(logs[i])
          /\ logN' = logN + Len(logs[i])
      BY <2>5 DEF HandleLogs, TypeOK
    <3>2. \A k \in 1 .. Len(logs[i]) : logs[i][k] = logN + k
      BY <2>1, <3>1 DEF Undisturbed, Indexed, Alone
    <3>3. logN' \in Nat
      BY <3>1
    <3> QED
      BY <2>2, <3>1, <3>2, <3>3, LogKeepsNewest DEF Newest, InBox, PushedOut
  <2> QED
    BY <1>2, <2>3, <2>4, <2>5 DEF Next, Syslog, PollLogs, ServeLogs, LoseLogs, Restart, vars
<1> QED
  BY <1>1, <1>2

(* Until the list is full, and without a restart or an overlap, the page   *)
(* has logged exactly the first logN entries, and displays the newest.     *)
THEOREM NothingSkipped == Spec => []LoggedFromFirst
<1>1. Init => Alone /\ Indexed /\ BoxOfNewest
  <2> SUFFICES ASSUME Init PROVE Alone /\ Indexed /\ BoxOfNewest
    OBVIOUS
  <2>1. /\ Len(logged) = 0 /\ Len(systemLog) = 0 /\ total = 0
        /\ Len(shown) = 0 /\ logN = 0
        /\ \A i \in Slots : phase[i] = "idle"
    BY NoEntries DEF Init
  <2> QED
    BY <2>1 DEF Alone, Indexed, Gone, BoxOfNewest, Newest
<1>2. TypeOK /\ Indexed /\ BoxOfNewest => LoggedFromFirst
  BY DEF TypeOK, Indexed, BoxOfNewest, Newest, Undisturbed, LoggedFromFirst
<1> QED
  BY <1>1, <1>2, AloneStep, IndexedStep, BoxStep, Whereabouts, TypeCorrect, PTL DEF Spec
=============================================================================
