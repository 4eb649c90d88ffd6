-------------------------- MODULE DiscoveryProofs ----------------------------
(***************************************************************************)
(* Proofs about module Discovery, for any number of peers and any          *)
(* intervals that satisfy DiscoveryAssumption.                             *)
(***************************************************************************)
EXTENDS Discovery, TLAPS

\* The time that k periods take.
Span(k) == k * Period

(* Multiplication by the period, as the proofs below use it.               *)
LEMMA SpanFacts ==
    /\ Period \in Nat
    /\ Span(0) = 0
    /\ \A k \in Nat : Span(k) \in Nat /\ Span(k + 1) = Span(k) + Period
    /\ Span(MaxLost + 1) > PeerTimeout
<1>1. Period \in Nat
  BY DiscoveryAssumption DEF Period
<1>2. ASSUME NEW k \in Nat
      PROVE  Span(k) \in Nat /\ Span(k + 1) = Span(k) + Period
  BY <1>1 DEF Span
<1>3. Span(0) = 0
  BY <1>1 DEF Span
<1>4. Span(MaxLost + 1) > PeerTimeout
  BY DiscoveryAssumption DEF Span, Period
<1> QED
  BY <1>1, <1>2, <1>3, <1>4

(* Every variable keeps its type, and no timer runs past its deadline.     *)
LEMMA InitType == Init => TypeOK
BY DiscoveryAssumption DEF Init, TypeOK, NeverHeard

(* A step keeps the types; Tick relies on its guards.                      *)
LEMMA TypeStep == TypeOK /\ [Next]_vars => TypeOK'
<1> SUFFICES ASSUME TypeOK, [Next]_vars PROVE TypeOK'
  OBVIOUS
<1> USE DEF TypeOK
<1>0. /\ HelloInterval \in Nat /\ RetryInterval \in 1 .. HelloInterval
      /\ CleanupInterval \in Nat /\ Jitter \in Nat /\ MaxLost \in Nat
  BY DiscoveryAssumption
<1>1. ASSUME NEW p \in Peers, NEW k \in Keys, Upsert(<<p, k>>)
      PROVE  table' \subseteq Entries /\ age' \in [Entries -> Nat]
  BY <1>1 DEF Upsert, Entries
<1>2. ASSUME NEW p \in Peers, MissedOne(p)
      PROVE  lost' \in [Peers -> NeverHeard .. MaxLost]
  <2>1. lost[p] \in NeverHeard .. MaxLost
    OBVIOUS
  <2>2. lost[p] \notin {NeverHeard, MaxLost} => lost[p] + 1 \in NeverHeard .. MaxLost
    BY <1>0, <2>1 DEF NeverHeard
  <2> QED
    BY <1>2, <2>1, <2>2 DEF MissedOne
<1>3. ASSUME NEW p \in Peers, Hello(p) PROVE TypeOK'
  <2>1. table' \subseteq Entries /\ age' \in [Entries -> Nat]
    BY <1>1, <1>3 DEF Hello, Keys
  <2> QED
    BY <1>0, <1>3, <2>1 DEF Hello, NeverHeard
<1>4. ASSUME NEW p \in Peers, HelloLost(p) PROVE TypeOK'
  BY <1>0, <1>2, <1>4 DEF HelloLost
<1>5. ASSUME NEW p \in Peers, HelloFails(p) PROVE TypeOK'
  BY <1>0, <1>2, <1>5 DEF HelloFails
<1>6. ASSUME NEW s \in Scans, NEW p \in Peers, Probe(s, p) \/ AddFound(s, p)
      PROVE  TypeOK'
  <2>1. CASE Probe(s, p)
    BY <2>1 DEF Probe
  <2>2. CASE AddFound(s, p)
    <3>1. table' \subseteq Entries /\ age' \in [Entries -> Nat]
      BY <1>1, <2>2 DEF AddFound, Keys
    <3> QED
      BY <2>2, <3>1 DEF AddFound
  <2> QED
    BY <1>6, <2>1, <2>2
<1>7. CASE Cleanup
  BY <1>0, <1>7 DEF Cleanup, RemoveDeadPeers
<1>8. ASSUME NEW p \in Peers, Start(p) PROVE TypeOK'
  BY <1>0, <1>8 DEF Start
<1>9. ASSUME NEW p \in Peers, Stop(p) PROVE TypeOK'
  BY <1>0, <1>9 DEF Stop, NeverHeard
<1>10. CASE Tick
  <2>1. age' \in [Entries -> Nat]
    BY <1>10 DEF Tick
  <2>2. sinceHello' \in [Peers -> 0 .. HelloInterval + Jitter]
    BY <1>0, <1>10 DEF Tick
  <2>3. sinceClean' \in 0 .. CleanupInterval + Jitter
    BY <1>0, <1>10 DEF Tick
  <2> QED
    BY <1>10, <2>1, <2>2, <2>3 DEF Tick
<1>11. CASE UNCHANGED vars
  BY <1>11 DEF vars
<1> QED
  BY <1>3, <1>4, <1>5, <1>6, <1>7, <1>8, <1>9, <1>10, <1>11 DEF Next

(* Type correctness of the peer table and its timers.                      *)
THEOREM TypeCorrect == Spec => []TypeOK
BY InitType, TypeStep, PTL DEF Spec

-----------------------------------------------------------------------------
(* Nobody is shown too long.                                               *)

(* Since the last clean-up an entry has aged by the time since then.       *)
AgeInv == \A e \in table : age[e] <= PeerTimeout + sinceClean

(* A step keeps AgeInv: what a clean-up leaves is not older than the       *)
(* timeout.                                                                *)
LEMMA AgeStep == TypeOK /\ AgeInv /\ [Next]_vars => AgeInv'
<1> SUFFICES ASSUME TypeOK, AgeInv, [Next]_vars PROVE AgeInv'
  OBVIOUS
<1>0. /\ PeerTimeout \in Nat /\ sinceClean \in Nat
      /\ table \subseteq Entries /\ age \in [Entries -> Nat]
  BY DiscoveryAssumption DEF TypeOK
<1>1. ASSUME NEW e \in Entries, Upsert(e), UNCHANGED sinceClean PROVE AgeInv'
  BY <1>0, <1>1 DEF Upsert, AgeInv
<1>2. ASSUME NEW p \in Peers, Hello(p) PROVE AgeInv'
  BY <1>1, <1>2 DEF Hello, Entries, Keys
<1>3. ASSUME NEW s \in Scans, NEW p \in Peers, AddFound(s, p) PROVE AgeInv'
  BY <1>1, <1>3 DEF AddFound, Entries, Keys
<1>4. CASE Cleanup
  BY <1>0, <1>4 DEF Cleanup, RemoveDeadPeers, Dead, AgeInv
<1>5. CASE Tick
  BY <1>0, <1>5 DEF Tick, AgeInv
<1>6. CASE UNCHANGED <<table, age, sinceClean>>
  BY <1>6 DEF AgeInv
<1> QED
  BY <1>2, <1>3, <1>4, <1>5, <1>6
  DEF Next, HelloLost, HelloFails, Probe, Start, Stop, vars

(* An entry goes at the latest PEER_TIMEOUT and one late round of the      *)
(* clean-up after it was last refreshed.                                   *)
THEOREM DeadGone == Spec => []DeadPeerGone
<1>1. Init => AgeInv
  BY DEF Init, AgeInv
<1>2. TypeOK /\ AgeInv => DeadPeerGone
  <2> SUFFICES ASSUME TypeOK, AgeInv, NEW e \in table
               PROVE  age[e] <= PeerTimeout + CleanupInterval + Jitter
    BY DEF DeadPeerGone
  <2>1. age[e] \in Nat /\ age[e] <= PeerTimeout + sinceClean
    BY DEF TypeOK, AgeInv
  <2>2. sinceClean \in Nat /\ sinceClean <= CleanupInterval + Jitter
    BY DiscoveryAssumption DEF TypeOK
  <2> QED
    BY <2>1, <2>2, DiscoveryAssumption
<1> QED
  BY InitType, TypeStep, AgeStep, <1>1, <1>2, PTL DEF Spec

-----------------------------------------------------------------------------
(* Peers that run stay.                                                    *)

(* A peer that is not up has not been heard since its start; the HELLO     *)
(* entry of a peer that was heard is as old as the HELLOs it lost take,    *)
(* and the current one.                                                    *)
HeardInv ==
    \A p \in Peers : lost[p] # NeverHeard =>
        /\ p \in up
        /\ Span(lost[p] + 1) <= PeerTimeout =>
              /\ <<p, "hello">> \in table
              /\ age[<<p, "hello">>] <= Span(lost[p]) + sinceHello[p]

(* A step keeps HeardInv.                                                  *)
LEMMA HeardStep == TypeOK /\ HeardInv /\ [Next]_vars => HeardInv'
<1> SUFFICES ASSUME TypeOK, HeardInv, [Next]_vars, NEW q \in Peers,
                    lost'[q] # NeverHeard
             PROVE  /\ q \in up'
                    /\ Span(lost'[q] + 1) <= PeerTimeout =>
                          /\ <<q, "hello">> \in table'
                          /\ age'[<<q, "hello">>] <= Span(lost'[q]) + sinceHello'[q]
  BY DEF HeardInv, Span, Period
<1> DEFINE Goal ==
              /\ q \in up'
              /\ Span(lost'[q] + 1) <= PeerTimeout =>
                    /\ <<q, "hello">> \in table'
                    /\ age'[<<q, "hello">>] <= Span(lost'[q]) + sinceHello'[q]
<1>0. /\ <<q, "hello">> \in Entries
      /\ \A p \in Peers : <<p, "hello">> = <<q, "hello">> => p = q
      /\ \A p \in Peers : <<p, "manual">> # <<q, "hello">>
  BY DEF Entries, Keys
<1>a. /\ table \subseteq Entries /\ age \in [Entries -> Nat]
      /\ sinceHello[q] \in Nat /\ sinceHello[q] <= Period
      /\ lost \in [Peers -> NeverHeard .. MaxLost]
      /\ sinceHello \in [Peers -> Nat]
  BY DiscoveryAssumption DEF TypeOK, Period
<1>b. /\ lost[q] # NeverHeard =>
            /\ q \in up
            /\ lost[q] \in Nat /\ lost[q] <= MaxLost
            /\ Span(lost[q]) \in Nat
            /\ Span(lost[q] + 1) = Span(lost[q]) + Period
      /\ age[<<q, "hello">>] \in Nat
  <2>1. lost[q] \in NeverHeard .. MaxLost /\ MaxLost \in Nat
    BY <1>a, DiscoveryAssumption
  <2>2. lost[q] # NeverHeard => lost[q] \in Nat /\ lost[q] <= MaxLost
    BY <2>1 DEF NeverHeard
  <2> QED
    BY <1>0, <1>a, <2>2, SpanFacts DEF HeardInv
<1>c. Period \in Nat /\ PeerTimeout \in Nat
  BY SpanFacts, DiscoveryAssumption
<1>1. ASSUME NEW p \in Peers, Hello(p) PROVE Goal
  <2>1. CASE p = q
    BY <1>0, <1>1, <1>a, <2>1, SpanFacts DEF Hello, HelloDue, Upsert
  <2>2. CASE p # q
    BY <1>0, <1>1, <1>a, <2>2 DEF Hello, Upsert, HeardInv
  <2> QED
    BY <2>1, <2>2
<1>2. ASSUME NEW p \in Peers, MissedOne(p), UNCHANGED <<table, age, up>>,
             NEW n \in Nat, sinceHello' = [sinceHello EXCEPT ![p] = n]
      PROVE  Goal
  <2>1. CASE p = q
    <3>1. lost'[q] = IF lost[q] \in {NeverHeard, MaxLost} THEN lost[q] ELSE lost[q] + 1
      BY <1>2, <1>a, <2>1 DEF MissedOne
    <3>2. lost[q] # NeverHeard
      BY <3>1
    <3>3. CASE lost[q] = MaxLost
      BY <1>2, <1>b, <3>1, <3>2, <3>3, <1>c, SpanFacts
    <3>4. CASE lost[q] # MaxLost
      <4>1. lost'[q] = lost[q] + 1 /\ lost'[q] \in Nat
        BY <1>b, <3>1, <3>2, <3>4
      <4>2. Span(lost'[q]) = Span(lost[q]) + Period
            /\ Span(lost'[q] + 1) = Span(lost'[q]) + Period
        BY <1>b, <3>2, <4>1, SpanFacts
      <4>3. Span(lost'[q] + 1) <= PeerTimeout => Span(lost[q] + 1) <= PeerTimeout
        BY <1>b, <1>c, <3>2, <4>2
      <4>4. sinceHello'[q] = n
        BY <1>2, <1>a, <2>1
      <4>5. Span(lost[q] + 1) <= PeerTimeout =>
               /\ <<q, "hello">> \in table
               /\ age[<<q, "hello">>] <= Span(lost[q]) + sinceHello[q]
        BY <3>2 DEF HeardInv
      <4> QED
        BY <1>2, <1>a, <1>b, <1>c, <3>2, <4>2, <4>3, <4>4, <4>5
    <3> QED
      BY <3>3, <3>4
  <2>2. CASE p # q
    BY <1>2, <1>a, <2>2 DEF MissedOne, HeardInv
  <2> QED
    BY <2>1, <2>2
<1>3. ASSUME NEW p \in Peers, HelloLost(p) PROVE Goal
  BY <1>2, <1>3 DEF HelloLost
<1>4. ASSUME NEW p \in Peers, HelloFails(p) PROVE Goal
  <2>1. HelloInterval - RetryInterval \in Nat
    BY DiscoveryAssumption
  <2> QED
    BY <1>2, <1>4, <2>1 DEF HelloFails
<1>5. ASSUME NEW s \in Scans, NEW p \in Peers, Probe(s, p) \/ AddFound(s, p)
      PROVE  Goal
  <2>1. CASE Probe(s, p)
    BY <2>1 DEF Probe, HeardInv
  <2>2. CASE AddFound(s, p)
    BY <1>0, <2>2, <1>a DEF AddFound, Upsert, HeardInv
  <2> QED
    BY <1>5, <2>1, <2>2
<1>6. CASE Cleanup
  <2>1. lost[q] # NeverHeard /\ UNCHANGED <<up, sinceHello, lost>>
    BY <1>6 DEF Cleanup
  <2>2. Span(lost[q] + 1) <= PeerTimeout => <<q, "hello">> \notin Dead
    BY <1>a, <1>b, <1>c, <2>1 DEF HeardInv, Dead
  <2> QED
    BY <1>0, <1>6, <2>1, <2>2 DEF Cleanup, RemoveDeadPeers, HeardInv
<1>7. ASSUME NEW p \in Peers, Start(p) PROVE Goal
  BY <1>7, <1>a DEF Start, HeardInv
<1>8. ASSUME NEW p \in Peers, Stop(p) PROVE Goal
  BY <1>8, <1>a DEF Stop, HeardInv
<1>9. CASE Tick
  <2>1. lost[q] # NeverHeard /\ UNCHANGED <<table, up, lost>> /\ q \in up
    BY <1>9, <1>b DEF Tick
  <2>2. sinceHello'[q] = sinceHello[q] + 1
    BY <1>9, <2>1 DEF Tick
  <2>3. <<q, "hello">> \in table =>
           age'[<<q, "hello">>] = age[<<q, "hello">>] + 1
    BY <1>0, <1>9 DEF Tick
  <2> QED
    BY <1>a, <1>b, <2>1, <2>2, <2>3 DEF HeardInv
<1>10. CASE UNCHANGED vars
  BY <1>10 DEF vars, HeardInv
<1> QED
  BY <1>1, <1>3, <1>4, <1>5, <1>6, <1>7, <1>8, <1>9, <1>10 DEF Next

(* A peer that runs and was heard stays in the table as long as the HELLOs *)
(* lost since, each late by as much as it may, fit in PEER_TIMEOUT.        *)
THEOREM LiveKept == Spec => []LivePeerKept
<1>1. Init => HeardInv
  BY DEF Init, HeardInv
<1>2. TypeOK /\ HeardInv => LivePeerKept
  <2> SUFFICES ASSUME HeardInv, NEW p \in up, lost[p] # NeverHeard,
                      (lost[p] + 1) * Period <= PeerTimeout, TypeOK
               PROVE  <<p, "hello">> \in table
    BY DEF LivePeerKept
  <2> QED
    BY DEF HeardInv, Span, TypeOK
<1> QED
  BY InitType, TypeStep, HeardStep, <1>1, <1>2, PTL DEF Spec

(* With the intervals of the code (30 s and 90 s), and threads that wake   *)
(* up at most 15 s late, a peer that runs and has been heard survives the  *)
(* loss of one HELLO.                                                      *)
THEOREM OneLossSurvived ==
    ASSUME HelloInterval = 30, PeerTimeout = 90, Jitter <= 15
    PROVE  Spec => [](\A p \in up : lost[p] \in {0, 1} => <<p, "hello">> \in table)
<1>1. Period \in Nat /\ Period <= 45
  BY DiscoveryAssumption DEF Period
<1>2. (0 + 1) * Period <= PeerTimeout /\ (1 + 1) * Period <= PeerTimeout
  BY <1>1
<1>3. LivePeerKept =>
         \A p \in up : lost[p] \in {0, 1} => <<p, "hello">> \in table
  BY <1>2 DEF LivePeerKept, NeverHeard
<1> QED
  BY <1>3, LiveKept, PTL
=============================================================================
