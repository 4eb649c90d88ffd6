--------------------------- MODULE MessagingProofs ---------------------------
(***************************************************************************)
(* Proofs about module Messaging, for any number of nodes, messages and    *)
(* crashes and any sizes of packets.                                       *)
(***************************************************************************)
EXTENDS Messaging, SequenceTheorems, TLAPS

USE DEF identityVars, processVars, recordVars, msgVars, frameVars, StartUnchanged,
        SendUnchanged, ReceiveUnchanged, Reaches, Outcome, Continue, HasIdentity

-----------------------------------------------------------------------------
(* The inductive invariant.                                                *)

(* What a starting process knows of the identity file.                     *)
Starting ==
    \A n \in Nodes :
        /\ made[n] = 0 => identity[n] = Absent
        /\ pc[n] = "create" => identity[n] = Absent
        /\ pc[n] = "read" => identity[n] # Absent
        /\ pc[n] = "write" => identity[n] = Partial /\ key[n] \notin {Absent, Partial}

(* A message carries the identity of its sender; one not yet used has left *)
(* no trace.                                                               *)
Signed ==
    \A m \in Msgs :
        /\ out[m] # "unused" => HasIdentity(from[m]) /\ sender[m] = identity[from[m]]
        /\ in[m] # "none" => out[m] # "unused"
        /\ \A n \in Nodes : <<"RECU", m>> \in journal[n] => out[m] # "unused"

(* Only what is readable gets past _handle_connection, and nothing that    *)
(* is readable has failed.                                                 *)
Delivered ==
    \A m \in Msgs :
        /\ in[m] \in {"plain", "patched", "handled"} => Readable(m)
        /\ \A n \in Nodes : <<"RECU", m>> \in journal[n] => Readable(m)
        /\ out[m] \in {"unused", "routing"} => first[m] = 0
        /\ out[m] = "failed" => ~Readable(m)

(* What is displayed, or about to be, has its line in the journal.         *)
OnRecord ==
    /\ ShownIsJournaled
    /\ \A m \in Msgs : in[m] = "handled" => <<"RECU", m>> \in journal[at[m]]

Inv == TypeOK /\ Starting /\ Signed /\ Delivered /\ OnRecord

-----------------------------------------------------------------------------
LEMMA NoNodeIsNone == NoNode \notin Nodes /\ Sizes \subseteq Nat /\ RelayMagic \in Nat
BY MessagingAssumption DEF RelayMagic

LEMMA InitInv == Init => Inv
<1> SUFFICES ASSUME Init PROVE Inv
  OBVIOUS
<1>1. TypeOK
  BY NoNodeIsNone DEF Init, TypeOK, Absent, Partial
<1>2. Starting /\ Signed /\ OnRecord
  BY DEF Init, Starting, Signed, OnRecord, ShownIsJournaled, Absent
<1>3. Delivered
  BY DEF Init, Delivered, Readable
<1> QED
  BY <1>1, <1>2, <1>3 DEF Inv

(* A process that ends takes its threads and its memory with it.           *)
LEMMA StopInv ==
    ASSUME Inv, NEW n \in Nodes, Stop(n), crashes' \in Nat
    PROVE  Inv'
<1>1. TypeOK'
  BY DEF Stop, Inv, TypeOK, Absent, Partial
<1>2. Starting'
  BY DEF Stop, Inv, TypeOK, Starting
<1>3. Signed' /\ Delivered' /\ OnRecord'
  BY DEF Stop, Inv, TypeOK, Signed, Delivered, OnRecord, ShownIsJournaled, Readable
<1> QED
  BY <1>1, <1>2, <1>3 DEF Inv

(* The steps of a starting node touch no message, unless they end it.      *)
LEMMA StartInv ==
    ASSUME Inv, NEW n \in Nodes, StartStep(n)
    PROVE  Inv'
<1>1. CASE LookForIdentity(n)
  BY <1>1 DEF LookForIdentity, Inv, TypeOK, Starting, Signed, Delivered, OnRecord,
     ShownIsJournaled, Readable, Absent, Partial
<1>2. CASE CreateIdentity(n)
  <2>1. TypeOK'
    BY <1>2 DEF CreateIdentity, Inv, TypeOK, Absent, Partial
  <2>2. Starting'
    BY <1>2 DEF CreateIdentity, Inv, TypeOK, Starting, Absent, Partial
  <2>3. Signed'
    BY <1>2 DEF CreateIdentity, Inv, TypeOK, Starting, Signed, Absent, Partial
  <2>4. Delivered' /\ OnRecord'
    BY <1>2 DEF CreateIdentity, Inv, Delivered, OnRecord, ShownIsJournaled, Readable
  <2> QED
    BY <2>1, <2>2, <2>3, <2>4 DEF Inv
<1>3. CASE WriteIdentity(n)
  <2>1. TypeOK'
    BY <1>3 DEF WriteIdentity, Inv, TypeOK, Starting, Absent, Partial
  <2>2. Starting'
    BY <1>3 DEF WriteIdentity, Inv, TypeOK, Starting, Absent, Partial
  <2>3. Signed'
    BY <1>3 DEF WriteIdentity, Inv, TypeOK, Starting, Signed, Absent, Partial
  <2>4. Delivered' /\ OnRecord'
    BY <1>3 DEF WriteIdentity, Inv, Delivered, OnRecord, ShownIsJournaled, Readable
  <2> QED
    BY <2>1, <2>2, <2>3, <2>4 DEF Inv
<1>4. CASE ReadIdentity(n)
  <2>1. identity[n] \in Nat \union {Absent} /\ identity[n] # Absent
    BY <1>4 DEF ReadIdentity, Inv, TypeOK, Starting
  <2>2. TypeOK'
    <3>1. CASE identity[n] = Partial
      BY <1>4, <3>1 DEF ReadIdentity, Inv, TypeOK
    <3>2. CASE identity[n] # Partial
      <4>1. /\ pc' = [pc EXCEPT ![n] = "loaded"]
            /\ key' = [key EXCEPT ![n] = identity[n]]
            /\ UNCHANGED <<identityVars, listening>> /\ StartUnchanged
        BY <1>4, <3>2 DEF ReadIdentity
      <4>2. key' \in [Nodes -> Nat \union {Absent}] /\ HasIdentity(n)
        BY <2>1, <3>2, <4>1 DEF Inv, TypeOK
      <4> QED
        BY <4>1, <4>2 DEF Inv, TypeOK
    <3> QED
      BY <3>1, <3>2
  <2>3. Starting'
    BY <1>4 DEF ReadIdentity, Inv, TypeOK, Starting
  <2>4. Signed' /\ Delivered' /\ OnRecord'
    BY <1>4 DEF ReadIdentity, Inv, Signed, Delivered, OnRecord, ShownIsJournaled, Readable
  <2> QED
    BY <2>2, <2>3, <2>4 DEF Inv
<1>5. CASE StartServer(n)
  <2>1. TypeOK' /\ Starting'
    BY <1>5 DEF StartServer, Inv, TypeOK, Starting, Absent, Partial
  <2>2. Signed' /\ Delivered' /\ OnRecord'
    BY <1>5 DEF StartServer, Inv, Signed, Delivered, OnRecord, ShownIsJournaled, Readable
  <2> QED
    BY <2>1, <2>2 DEF Inv
<1>6. CASE Patch(n)
  BY <1>6 DEF Patch, Inv, TypeOK, Starting, Signed, Delivered, OnRecord,
     ShownIsJournaled, Readable, Absent, Partial
<1>7. CASE StartWeb(n)
  <2>1. CASE n \in webTaken
    BY <1>7, <2>1, StopInv DEF StartWeb, Inv, TypeOK
  <2>2. CASE n \notin webTaken
    <3>1. /\ pc[n] = "patched" /\ pc' = [pc EXCEPT ![n] = "up"]
          /\ UNCHANGED <<identityVars, key, listening>> /\ StartUnchanged
      BY <1>7, <2>2 DEF StartWeb
    <3>2. TypeOK' /\ Starting'
      BY <2>2, <3>1 DEF Inv, TypeOK, Starting, Absent, Partial
    <3>3. Signed' /\ Delivered' /\ OnRecord'
      BY <3>1 DEF Inv, Signed, Delivered, OnRecord, ShownIsJournaled, Readable
    <3> QED
      BY <3>2, <3>3 DEF Inv
  <2> QED
    BY <2>1, <2>2
<1> QED
  BY <1>1, <1>2, <1>3, <1>4, <1>5, <1>6, <1>7 DEF StartStep

LEMMA EnvironmentInv ==
    ASSUME Inv, NEW n \in Nodes, ChangeWebPort(n) \/ Crash(n)
    PROVE  Inv'
<1>1. CASE ChangeWebPort(n)
  BY <1>1 DEF ChangeWebPort, Inv, TypeOK, Starting, Signed, Delivered, OnRecord,
     ShownIsJournaled, Readable
<1>2. CASE Crash(n)
  BY <1>2, StopInv, SMTT(30) DEF Crash, Inv, TypeOK
<1> QED
  BY <1>1, <1>2

(* A new message has the identity of the node that sends it, and has left  *)
(* no trace yet.                                                           *)
Fresh(m, n, d) ==
    /\ out[m] = "unused" /\ in[m] = "none" /\ first[m] = 0
    /\ \A k \in Nodes : <<"RECU", m>> \notin journal[k]
    /\ HasIdentity(n) /\ sender'[m] = identity[n]
    /\ from'[m] = n /\ to'[m] = d
    /\ \A k \in Msgs \ {m} :
          from'[k] = from[k] /\ to'[k] = to[k] /\ sender'[k] = sender[k]
    /\ sender' \in [Msgs -> Nat \union {Absent}]
    /\ from' \in [Msgs -> Nodes \union {NoNode}]
    /\ to' \in [Msgs -> Nodes \union {NoNode}]

LEMMA NewIsFresh ==
    ASSUME Inv, NEW m \in Msgs, NEW n \in Nodes, NEW d \in Nodes, New(m, n, d)
    PROVE  Fresh(m, n, d)
<1>1. /\ out[m] = "unused" /\ pc[n] = "up"
      /\ from' = [from EXCEPT ![m] = n]
      /\ to' = [to EXCEPT ![m] = d]
      /\ sender' = [sender EXCEPT ![m] = key[n]]
  BY DEF New
<1>2. in[m] = "none" /\ first[m] = 0 /\ \A k \in Nodes : <<"RECU", m>> \notin journal[k]
  BY <1>1 DEF Inv, Signed, Delivered
<1>3. HasIdentity(n) /\ key[n] = identity[n]
  BY <1>1 DEF Inv, TypeOK
<1>4. /\ from \in [Msgs -> Nodes \union {NoNode}] /\ to \in [Msgs -> Nodes \union {NoNode}]
      /\ sender \in [Msgs -> Nat \union {Absent}] /\ key[n] \in Nat \union {Absent}
  BY DEF Inv, TypeOK
<1> QED
  BY <1>1, <1>2, <1>3, <1>4 DEF Fresh

(* A frame is in a socket of a node that listens.                          *)
Sent(m, s, complete) ==
    /\ at'[m] \in listening /\ first'[m] = s /\ whole'[m] = complete /\ in'[m] = "waiting"
    /\ \A k \in Msgs \ {m} : /\ at'[k] = at[k] /\ first'[k] = first[k]
                            /\ whole'[k] = whole[k] /\ in'[k] = in[k]
    /\ at' \in [Msgs -> Nodes \union {NoNode}]
    /\ first' \in [Msgs -> Nat]
    /\ whole' \in [Msgs -> BOOLEAN]
    /\ in' \in [Msgs -> {"none", "waiting", "plain", "patched", "handled", "ended"}]

LEMMA FrameIsSent ==
    ASSUME Inv, NEW m \in Msgs, NEW d \in Nodes, NEW s \in Nat, NEW c \in BOOLEAN,
           Frame(m, d, s, c)
    PROVE  Sent(m, s, c)
<1>1. /\ at \in [Msgs -> Nodes \union {NoNode}] /\ first \in [Msgs -> Nat]
      /\ whole \in [Msgs -> BOOLEAN]
      /\ in \in [Msgs -> {"none", "waiting", "plain", "patched", "handled", "ended"}]
  BY DEF Inv, TypeOK
<1> QED
  BY <1>1 DEF Frame, Sent

(* The sender's steps.                                                     *)
LEMMA SendInv ==
    ASSUME Inv, NEW m \in Msgs, NEW n \in Nodes, NEW d \in Nodes, NEW s \in Sizes,
           SendMessage(m, n, d, s)
    PROVE  Inv'
<1>1. Fresh(m, n, d) /\ s \in Nat
  BY NewIsFresh, NoNodeIsNone DEF SendMessage
<1>2. \/ Sent(m, s, TRUE) /\ Outcome(m, "sent")
      \/ Sent(m, s, FALSE) /\ Outcome(m, "failed")
      \/ UNCHANGED frameVars /\ Outcome(m, "failed")
  BY <1>1, FrameIsSent DEF SendMessage
<1>3. UNCHANGED tried /\ SendUnchanged
  BY DEF SendMessage
<1>4. ASSUME NEW c \in BOOLEAN, Sent(m, s, c),
             Outcome(m, IF c THEN "sent" ELSE "failed")
      PROVE  Inv'
  <2>1. TypeOK'
    <3>1. \A k \in Msgs : out'[k] = IF k = m THEN IF c THEN "sent" ELSE "failed" ELSE out[k]
      BY <1>4 DEF Inv, TypeOK
    <3>2. out' \in [Msgs -> {"unused", "sent", "returned", "failed", "routing",
                             "routed", "dead"}]
      BY <1>4 DEF Inv, TypeOK
    <3>3. \A k \in Msgs : in'[k] \notin {"none", "ended"} => at'[k] \in listening
      BY <1>4 DEF Sent, Inv, TypeOK
    <3>4. \A k \in Msgs : out'[k] # "unused" => from'[k] \in Nodes /\ to'[k] \in Nodes
      BY <1>1, <3>1 DEF Fresh, Inv, TypeOK
    <3> QED
      BY <1>1, <1>3, <1>4, <3>2, <3>3, <3>4 DEF Fresh, Sent, Inv, TypeOK, HasIdentity
  <2>2. Starting'
    BY <1>3 DEF Inv, Starting
  <2>3. OnRecord'
    BY <1>1, <1>3, <1>4 DEF Fresh, Sent, Inv, TypeOK, OnRecord, ShownIsJournaled
  <2>4. Signed'
    BY <1>1, <1>3, <1>4, SMTT(30) DEF Fresh, Sent, Inv, TypeOK, Signed
  <2>5. Delivered'
    BY <1>1, <1>3, <1>4 DEF Fresh, Sent, Inv, TypeOK, Delivered, Readable
  <2> QED
    BY <2>1, <2>2, <2>3, <2>4, <2>5 DEF Inv
<1>5. CASE UNCHANGED frameVars /\ Outcome(m, "failed")
  <2>1. TypeOK'
    BY <1>1, <1>3, <1>5 DEF Fresh, Inv, TypeOK
  <2>2. Starting' /\ OnRecord'
    BY <1>1, <1>3, <1>5 DEF Fresh, Inv, TypeOK, Starting, OnRecord, ShownIsJournaled
  <2>3. Signed'
    BY <1>1, <1>3, <1>5 DEF Fresh, Inv, TypeOK, Signed
  <2>4. Delivered'
    BY <1>1, <1>3, <1>5 DEF Fresh, Inv, TypeOK, Delivered, Readable
  <2> QED
    BY <2>1, <2>2, <2>3, <2>4 DEF Inv
<1> QED
  BY <1>2, <1>4, <1>5

LEMMA RecordInv ==
    ASSUME Inv, NEW m \in Msgs, RecordSent(m)
    PROVE  Inv'
<1>1. from[m] \in Nodes
  BY DEF RecordSent, Inv, TypeOK
<1>2. messages' \in [Nodes -> Seq(Msgs)]
  BY <1>1, AppendProperties DEF RecordSent, Inv, TypeOK
<1>3. TypeOK'
  BY <1>1, <1>2 DEF RecordSent, Inv, TypeOK
<1>4. Starting' /\ Signed' /\ Delivered'
  BY <1>1, SMTT(30) DEF RecordSent, Inv, TypeOK, Starting, Signed, Delivered, Readable
<1>5. OnRecord'
  BY <1>1 DEF RecordSent, Inv, TypeOK, OnRecord, ShownIsJournaled
<1> QED
  BY <1>3, <1>4, <1>5 DEF Inv

LEMMA RouteInv ==
    ASSUME Inv, NEW m \in Msgs,
           \/ \E n, d \in Nodes : RouteMessage(m, n, d)
           \/ \E p \in Nodes : TryRoute(m, p)
           \/ NoRoute(m)
    PROVE  Inv'
<1>1. ASSUME NEW n \in Nodes, NEW d \in Nodes, RouteMessage(m, n, d) PROVE Inv'
  <2>1. Fresh(m, n, d)
    BY <1>1, NewIsFresh DEF RouteMessage
  <2>2. TypeOK'
    BY <1>1, <2>1 DEF RouteMessage, Fresh, Inv, TypeOK
  <2>3. Starting' /\ OnRecord'
    BY <1>1, <2>1 DEF RouteMessage, Fresh, Inv, TypeOK, Starting, OnRecord, ShownIsJournaled
  <2>4. Signed'
    BY <1>1, <2>1 DEF RouteMessage, Fresh, Inv, TypeOK, Signed
  <2>5. Delivered'
    BY <1>1, <2>1 DEF RouteMessage, Fresh, Inv, TypeOK, Delivered, Readable
  <2> QED
    BY <2>2, <2>3, <2>4, <2>5 DEF Inv
<1>2. ASSUME NEW p \in Nodes, TryRoute(m, p) PROVE Inv'
  <2>1. /\ out[m] = "routing" /\ first[m] = 0
        /\ in[m] \notin {"plain", "patched", "handled"}
        /\ \A k \in Nodes : <<"RECU", m>> \notin journal[k]
    BY <1>2 DEF TryRoute, Inv, Delivered, Readable
  <2>2. /\ tried' \in [Msgs -> SUBSET Nodes]
        /\ UNCHANGED msgVars /\ SendUnchanged
    BY <1>2 DEF TryRoute, Inv, TypeOK
  <2>3. \/ Sent(m, RelayMagic, TRUE) /\ Outcome(m, "routed")
        \/ UNCHANGED <<frameVars, out>>
    BY <1>2, FrameIsSent, NoNodeIsNone DEF TryRoute
  <2>4. CASE Sent(m, RelayMagic, TRUE) /\ Outcome(m, "routed")
    <3>1. Starting'
      BY <2>2 DEF Inv, Starting
    <3>2. TypeOK'
      BY <2>1, <2>2, <2>4 DEF Sent, Inv, TypeOK
    <3>3. Signed'
      BY <2>1, <2>2, <2>4, SMTT(30) DEF Sent, Inv, TypeOK, Signed
    <3>4. OnRecord'
      BY <2>1, <2>2, <2>4 DEF Sent, Inv, TypeOK, OnRecord, ShownIsJournaled
    <3>5. Delivered'
      BY <2>1, <2>2, <2>4, SMTT(30) DEF Sent, Inv, TypeOK, Delivered, Readable
    <3> QED
      BY <3>1, <3>2, <3>3, <3>4, <3>5 DEF Inv
  <2>5. CASE UNCHANGED <<frameVars, out>>
    BY <2>2, <2>5 DEF Inv, TypeOK, Starting, Signed, Delivered, OnRecord,
       ShownIsJournaled, Readable
  <2> QED
    BY <2>3, <2>4, <2>5
<1>3. CASE NoRoute(m)
  <2>1. TypeOK' /\ Starting' /\ Signed' /\ OnRecord'
    BY <1>3 DEF NoRoute, Inv, TypeOK, Starting, Signed, OnRecord, ShownIsJournaled
  <2>2. Delivered'
    BY <1>3 DEF NoRoute, Inv, TypeOK, Delivered, Readable
  <2> QED
    BY <2>1, <2>2 DEF Inv
<1> QED
  BY <1>1, <1>2, <1>3

(* The receiver's steps.                                                   *)
LEMMA ReceiveInv ==
    ASSUME Inv, NEW m \in Msgs,
           HandleConnection(m) \/ HandleMessage(m) \/ ShowReceived(m)
    PROVE  Inv'
<1>1. CASE HandleConnection(m)
  <2>1. TypeOK' /\ Starting'
    BY <1>1 DEF HandleConnection, Inv, TypeOK, Starting
  <2>2. Signed' /\ Delivered' /\ OnRecord'
    BY <1>1 DEF HandleConnection, Inv, TypeOK, Signed, Delivered, OnRecord,
       ShownIsJournaled, Readable
  <2> QED
    BY <2>1, <2>2 DEF Inv
<1>2. CASE HandleMessage(m)
  <2>1. at[m] \in Nodes /\ Readable(m) /\ out[m] # "unused"
    BY <1>2 DEF HandleMessage, Inv, TypeOK, Delivered, Signed
  <2>2. \A q \in Seq(Msgs) : q \o <<m, m>> \in Seq(Msgs)
    BY ConcatProperties
  <2>3. messages' \in [Nodes -> Seq(Msgs)]
    BY <1>2, <2>1, <2>2 DEF HandleMessage, Journaled, Inv, TypeOK
  <2>4. TypeOK'
    BY <1>2, <2>1, <2>3, SMTT(30) DEF HandleMessage, Journaled, Inv, TypeOK
  <2>5. Starting' /\ Signed'
    BY <1>2, <2>1 DEF HandleMessage, Journaled, Inv, TypeOK, Starting, Signed
  <2>6. Delivered'
    BY <1>2, <2>1 DEF HandleMessage, Journaled, Inv, TypeOK, Delivered, Readable
  <2>7. OnRecord'
    BY <1>2, <2>1 DEF HandleMessage, Journaled, Inv, TypeOK, OnRecord, ShownIsJournaled
  <2> QED
    BY <2>4, <2>5, <2>6, <2>7 DEF Inv
<1>3. CASE ShowReceived(m)
  <2>1. at[m] \in Nodes
    BY <1>3 DEF ShowReceived, Inv, TypeOK
  <2>2. TypeOK' /\ Starting'
    BY <1>3, <2>1 DEF ShowReceived, Inv, TypeOK, Starting
  <2>3. Signed' /\ Delivered' /\ OnRecord'
    BY <1>3, <2>1 DEF ShowReceived, Inv, TypeOK, Signed, Delivered, OnRecord,
       ShownIsJournaled, Readable
  <2> QED
    BY <2>2, <2>3 DEF Inv
<1> QED
  BY <1>1, <1>2, <1>3

THEOREM Invariance == Spec => []Inv
<1>1. Inv /\ [Next]_vars => Inv'
  <2> SUFFICES ASSUME Inv, [Next]_vars PROVE Inv'
    OBVIOUS
  <2>1. CASE UNCHANGED vars
    BY <2>1 DEF vars, Inv, TypeOK, Starting, Signed, Delivered, OnRecord,
       ShownIsJournaled, Readable
  <2>2. CASE Next
    BY <2>2, StartInv, EnvironmentInv, SendInv, RecordInv, RouteInv, ReceiveInv DEF Next
  <2> QED
    BY <2>1, <2>2
<1> QED
  BY <1>1, InitInv, PTL DEF Spec

-----------------------------------------------------------------------------
(* Every variable keeps its type; a process runs with the key in its file. *)
THEOREM TypeCorrect == Spec => []TypeOK
BY Invariance, PTL DEF Inv

(* What has been received carries the identity its sender still has.       *)
THEOREM SenderKnown == Spec => []SenderIsIdentity
<1>1. Inv => SenderIsIdentity
  BY DEF Inv, Signed, SenderIsIdentity
<1> QED
  BY <1>1, Invariance, PTL

(* What the page displays is in the journal file.                          *)
THEOREM NothingShownIsLost == Spec => []ShownIsJournaled
BY Invariance, PTL DEF Inv, OnRecord

(* What is reported as failed has not been received.                       *)
THEOREM FailedMayBeRepeated == Spec => []FailedIsUnreceived
<1>1. Inv => FailedIsUnreceived
  BY DEF Inv, Delivered, FailedIsUnreceived
<1> QED
  BY <1>1, Invariance, PTL

(* A complete identity never changes: it is only written where a test of   *)
(* the same process has found none.                                        *)
THEOREM IdentityForEver == Spec => IdentityKept
<1>1. Inv /\ [Next]_vars =>
         [\A n \in Nodes : HasIdentity(n) => identity'[n] = identity[n]]_vars
  <2> SUFFICES ASSUME Inv, Next, NEW n \in Nodes, HasIdentity(n)
               PROVE  identity'[n] = identity[n]
    BY DEF vars
  <2>1. CASE \E k \in Nodes : CreateIdentity(k) \/ WriteIdentity(k)
    BY <2>1 DEF CreateIdentity, WriteIdentity, Inv, TypeOK, Starting
  <2>2. CASE ~ \E k \in Nodes : CreateIdentity(k) \/ WriteIdentity(k)
    BY <2>2 DEF Next, StartStep, LookForIdentity, ReadIdentity, StartServer, Patch,
       StartWeb, Stop, ChangeWebPort, Crash, SendMessage, RouteMessage, TryRoute, NoRoute, RecordSent,
       HandleConnection, HandleMessage, ShowReceived
  <2> QED
    BY <2>1, <2>2
<1> QED
  BY <1>1, Invariance, PTL DEF Spec, IdentityKept

-----------------------------------------------------------------------------
(* Who has what on record.                                                 *)

(* What is readable is at its addressee, a routed frame never is, and the  *)
(* journal of a node names it as addressee or as author.                   *)
AddressedAt(m) ==
    /\ out[m] = "unused" => from[m] = NoNode /\ to[m] = NoNode
    /\ Readable(m) => at[m] = to[m]
    /\ out[m] = "routed" => ~Readable(m)
    /\ \A n \in Nodes : <<"RECU", m>> \in journal[n] => n = to[m]
    /\ \A n \in Nodes : <<"ENVOYE", m>> \in journal[n] =>
          n = from[m] /\ out[m] = "returned"

Addressed == \A m \in Msgs : AddressedAt(m)

LEMMA AddressedInit == Init => Addressed
BY DEF Init, Addressed, AddressedAt, Readable

(* Taken for a size, the magic of a relayed frame is above the limit.      *)
LEMMA RelayedIsTooLarge == 0 \notin 1 .. MaxFrame /\ RelayMagic \notin 1 .. MaxFrame
<1>1. MaxFrame \in Nat /\ RelayMagic \in Nat /\ RelayMagic > MaxFrame
  BY SMT DEF RelayMagic, MaxFrame
<1> QED
  BY <1>1, SMT

(* A new message is not on record anywhere.                                *)
LEMMA NewIsUnrecorded ==
    ASSUME Inv, Addressed, NEW m \in Msgs, out[m] = "unused"
    PROVE  /\ from[m] = NoNode /\ ~Readable(m)
           /\ \A n \in Nodes : /\ <<"RECU", m>> \notin journal[n]
                               /\ <<"ENVOYE", m>> \notin journal[n]
<1>1. first[m] = 0 /\ from[m] = NoNode
  BY DEF Inv, Delivered, Addressed, AddressedAt
<1>2. ~Readable(m)
  BY <1>1, RelayedIsTooLarge DEF Readable
<1> QED
  BY <1>1, <1>2 DEF Inv, Signed, Addressed, AddressedAt

LEMMA AddressedStep ==
    ASSUME Inv, Addressed, [Next]_vars
    PROVE  Addressed'
<1>1. CASE UNCHANGED vars \/ \E n \in Nodes : StartStep(n) \/ ChangeWebPort(n) \/ Crash(n)
  <2>1. ASSUME NEW n \in Nodes, Stop(n) PROVE Addressed'
    BY <2>1 DEF Stop, Inv, TypeOK, Addressed, AddressedAt, Readable
  <2>2. CASE ~ \E n \in Nodes : Stop(n)
    BY <1>1, <2>2 DEF vars, StartStep, LookForIdentity, CreateIdentity, WriteIdentity,
       ReadIdentity, StartServer, Patch, StartWeb, ChangeWebPort, Crash, Addressed,
       AddressedAt, Readable
  <2> QED
    BY <2>1, <2>2
<1>2. ASSUME NEW m \in Msgs, NEW n \in Nodes, NEW d \in Nodes, NEW s \in Sizes,
             SendMessage(m, n, d, s)
      PROVE  Addressed'
  <2>1. out[m] = "unused" /\ Fresh(m, n, d) /\ UNCHANGED journal
    BY <1>2, NewIsFresh DEF SendMessage, New
  <2>2. \/ /\ Outcome(m, "sent") \/ Outcome(m, "failed")
           /\ at' = [at EXCEPT ![m] = d]
           /\ \A k \in Msgs \ {m} : /\ first'[k] = first[k] /\ whole'[k] = whole[k]
        \/ UNCHANGED frameVars /\ Outcome(m, "failed")
    BY <1>2 DEF SendMessage, Frame, Inv, TypeOK
  <2>3. /\ out' = [out EXCEPT ![m] = out'[m]] /\ out'[m] \in {"sent", "failed"}
        /\ at'[m] = d \/ (first'[m] = first[m] /\ whole'[m] = whole[m])
        /\ \A k \in Msgs \ {m} :
              /\ at'[k] = at[k] /\ first'[k] = first[k] /\ whole'[k] = whole[k]
    BY <2>2 DEF Inv, TypeOK
  <2>4. /\ ~Readable(m)
        /\ \A k \in Nodes : <<"RECU", m>> \notin journal[k] /\ <<"ENVOYE", m>> \notin journal[k]
    BY <2>1, NewIsUnrecorded
  <2>5. ASSUME NEW k \in Msgs \ {m} PROVE AddressedAt(k)'
    BY <2>1, <2>3, <2>5 DEF Fresh, Inv, TypeOK, Addressed, AddressedAt, Readable
  <2>6. AddressedAt(m)'
    BY <2>1, <2>3, <2>4 DEF Fresh, Inv, TypeOK, AddressedAt, Readable
  <2> QED
    BY <2>5, <2>6 DEF Addressed, AddressedAt
<1>3. ASSUME NEW m \in Msgs, NEW n \in Nodes, NEW d \in Nodes, RouteMessage(m, n, d)
      PROVE  Addressed'
  <2>1. out[m] = "unused" /\ Fresh(m, n, d) /\ UNCHANGED <<journal, frameVars>>
        /\ out' = [out EXCEPT ![m] = "routing"]
    BY <1>3, NewIsFresh DEF RouteMessage, New
  <2>2. /\ ~Readable(m)
        /\ \A k \in Nodes : <<"RECU", m>> \notin journal[k] /\ <<"ENVOYE", m>> \notin journal[k]
    BY <2>1, NewIsUnrecorded
  <2>3. ASSUME NEW k \in Msgs \ {m} PROVE AddressedAt(k)'
    BY <2>1, <2>3 DEF Fresh, Inv, TypeOK, Addressed, AddressedAt, Readable
  <2>4. AddressedAt(m)'
    BY <2>1, <2>2 DEF Fresh, Inv, TypeOK, AddressedAt, Readable
  <2> QED
    BY <2>3, <2>4 DEF Addressed, AddressedAt
<1>4. ASSUME NEW m \in Msgs, NEW p \in Nodes, TryRoute(m, p)
      PROVE  Addressed'
  <2>1. /\ out[m] = "routing" /\ UNCHANGED <<journal, msgVars>>
        /\ \/ /\ Frame(m, p, RelayMagic, TRUE)
              /\ out' = [out EXCEPT ![m] = "routed"]
           \/ UNCHANGED <<frameVars, out>>
    BY <1>4 DEF TryRoute
  <2>2. CASE /\ Frame(m, p, RelayMagic, TRUE)
             /\ out' = [out EXCEPT ![m] = "routed"]
    <3>1. RelayMagic \notin 1 .. MaxFrame
      BY RelayedIsTooLarge
    <3>2. first' = [first EXCEPT ![m] = RelayMagic]
      BY <2>2 DEF Frame
    <3>3. ~Readable(m)'
      BY <3>1, <3>2 DEF Readable, Inv, TypeOK
    <3>4. \A k \in Msgs \ {m} : /\ at'[k] = at[k] /\ first'[k] = first[k]
                                /\ whole'[k] = whole[k] /\ out'[k] = out[k]
      BY <2>2 DEF Frame, Inv, TypeOK
    <3>5. out'[m] = "routed"
      BY <2>2 DEF Inv, TypeOK
    <3> QED
      BY <2>1, <3>3, <3>4, <3>5 DEF Addressed, AddressedAt, Readable
  <2> QED
    BY <2>1, <2>2 DEF Addressed, AddressedAt, Readable
<1>5. ASSUME NEW m \in Msgs, RecordSent(m) \/ NoRoute(m)
      PROVE  Addressed'
  <2>1. from[m] \in Nodes /\ out[m] \in {"sent", "routing"} /\ out'[m] # "unused" /\ out'[m] # "routed"
    BY <1>5 DEF RecordSent, NoRoute, Inv, TypeOK
  <2>2. \A k \in Msgs : Readable(k)' = Readable(k)
    BY <1>5 DEF RecordSent, NoRoute, Readable
  <2>3. \A k \in Msgs : k # m => out'[k] = out[k]
    BY <1>5 DEF RecordSent, NoRoute, Inv, TypeOK
  <2>4. \A n \in Nodes, k \in Msgs :
           /\ <<"RECU", k>> \in journal'[n] => <<"RECU", k>> \in journal[n]
           /\ <<"ENVOYE", k>> \in journal'[n] =>
                 \/ <<"ENVOYE", k>> \in journal[n]
                 \/ k = m /\ n = from[m] /\ out'[m] = "returned"
    BY <1>5, <2>1 DEF RecordSent, NoRoute, Inv, TypeOK
  <2>5. UNCHANGED <<from, to, at>>
    BY <1>5 DEF RecordSent, NoRoute
  <2>6. ASSUME NEW k \in Msgs \ {m} PROVE AddressedAt(k)'
    BY <2>2, <2>3, <2>4, <2>5, <2>6, SMTT(30) DEF Addressed, AddressedAt
  <2>7. AddressedAt(m)'
    BY <2>1, <2>2, <2>4, <2>5 DEF Addressed, AddressedAt
  <2> QED
    BY <2>6, <2>7 DEF Addressed
<1>6. ASSUME NEW m \in Msgs, HandleConnection(m) \/ HandleMessage(m) \/ ShowReceived(m)
      PROVE  Addressed'
  <2>1. CASE HandleMessage(m)
    <3>1. at[m] \in Nodes /\ at[m] = to[m]
      BY <2>1 DEF HandleMessage, Inv, TypeOK, Delivered, Addressed, AddressedAt
    <3> QED
      BY <2>1, <3>1 DEF HandleMessage, Journaled, Inv, TypeOK, Addressed, AddressedAt, Readable
  <2> QED
    BY <1>6, <2>1 DEF HandleConnection, ShowReceived, Addressed, AddressedAt, Readable
<1> QED
  BY <1>1, <1>2, <1>3, <1>4, <1>5, <1>6 DEF Next

THEOREM AddressedInvariance == Spec => []Addressed
BY AddressedInit, AddressedStep, Invariance, PTL DEF Spec

(* What route_message reports as sent is received by nobody.               *)
THEOREM RoutedNeverReceived == Spec => []RoutedIsDropped
<1>1. Inv /\ Addressed => RoutedIsDropped
  BY DEF Inv, Delivered, Addressed, AddressedAt, RoutedIsDropped
<1> QED
  BY <1>1, Invariance, AddressedInvariance, PTL

(* A node with a partial identity never starts: its process gets as far as *)
(* reading the file, and only a process that found none writes one.        *)
THEOREM BrokenNeverStarts == Spec => BrokenForGood
<1>1. Inv /\ [Next]_vars =>
         [\A n \in Nodes :
             identity[n] = Partial /\ pc[n] # "write" =>
                 identity'[n] = Partial /\ pc'[n] \in {"down", "read"}]_vars
  <2> SUFFICES ASSUME Inv, Next, NEW n \in Nodes, identity[n] = Partial, pc[n] # "write"
               PROVE  identity'[n] = Partial /\ pc'[n] \in {"down", "read"}
    BY DEF vars
  <2>1. pc[n] \in {"down", "read"} /\ made[n] # 0
    BY DEF Inv, TypeOK, Starting, Absent, Partial
  <2>2. CASE \E k \in Nodes : StartStep(k) \/ Crash(k)
    BY <2>1, <2>2 DEF StartStep, LookForIdentity, CreateIdentity, WriteIdentity,
       ReadIdentity, StartServer, Patch, StartWeb, Stop, Crash, Inv, TypeOK, Absent, Partial
  <2>3. CASE UNCHANGED <<identity, pc>>
    BY <2>1, <2>3
  <2> QED
    BY <2>2, <2>3 DEF Next, ChangeWebPort, SendMessage, RouteMessage, TryRoute, NoRoute, RecordSent,
       HandleConnection, HandleMessage, ShowReceived
<1> QED
  BY <1>1, Invariance, PTL DEF Spec, BrokenForGood

-----------------------------------------------------------------------------
(* The refinement of module Mailbox.                                       *)

LEMMA MailboxInit == Init => Mb!Init
BY DEF Init, Mb!Init, Logged

(* A step of a node, a thread or a crash is a step of Mailbox or changes    *)
(* nothing that it sees.                                                   *)
LEMMA MailboxStep ==
    ASSUME Inv, Inv', Addressed, [Next]_vars
    PROVE  [Mb!Next]_Mb!vars
<1> DEFINE Failed == {m \in Msgs : out[m] = "failed"}
<1> USE DEF Logged
<1>1. ASSUME UNCHANGED vars \/ \E n \in Nodes : StartStep(n) \/ ChangeWebPort(n) \/ Crash(n)
      PROVE  UNCHANGED Mb!vars \/ \E n \in Nodes : Mb!Restart(n)
  <2>1. ASSUME NEW n \in Nodes, Stop(n)
        PROVE  Mb!Restart(n)
    <3>1. Failed' = Failed
      BY <2>1 DEF Stop, Inv, TypeOK
    <3> QED
      BY <2>1, <3>1 DEF Stop, Mb!Restart
  <2>2. CASE ~ \E n \in Nodes : Stop(n)
    BY <1>1, <2>2 DEF vars, StartStep, LookForIdentity, CreateIdentity, WriteIdentity,
       ReadIdentity, StartServer, Patch, StartWeb, ChangeWebPort, Crash, Mb!vars
  <2> QED
    BY <2>1, <2>2
<1>2. ASSUME NEW m \in Msgs, NEW n \in Nodes, NEW d \in Nodes,
             \/ \E s \in Sizes : SendMessage(m, n, d, s)
             \/ RouteMessage(m, n, d)
      PROVE  Mb!Write(m, n, d)
  <2>1. /\ New(m, n, d) /\ UNCHANGED <<journal, ui>>
        /\ Outcome(m, "sent") \/ Outcome(m, "failed") \/ Outcome(m, "routing")
    BY <1>2 DEF SendMessage, RouteMessage
  <2>2. out[m] = "unused" /\ from[m] = NoNode
    BY <2>1 DEF New, Addressed, AddressedAt
  <2>3. CASE Outcome(m, "failed")
    <3>1. \A k \in Msgs : out'[k] = IF k = m THEN "failed" ELSE out[k]
      BY <2>3 DEF Inv, TypeOK
    <3>2. Failed' = Failed \union {m}
      BY <3>1
    <3> QED
      BY <2>1, <2>2, <3>2 DEF New, Mb!Write
  <2>4. CASE Outcome(m, "sent") \/ Outcome(m, "routing")
    <3>1. \A k \in Msgs : out'[k] = IF k = m THEN out'[m] ELSE out[k]
      BY <2>4 DEF Inv, TypeOK
    <3>2. out'[m] # "failed"
      BY <2>4 DEF Inv, TypeOK
    <3>3. Failed' = Failed
      BY <2>2, <3>1, <3>2
    <3> QED
      BY <2>1, <2>2, <3>3 DEF New, Mb!Write
  <2> QED
    BY <2>1, <2>3, <2>4
<1>3. ASSUME NEW m \in Msgs, NEW p \in Nodes, TryRoute(m, p)
      PROVE  UNCHANGED Mb!vars
  <2>1. Failed' = Failed
    <3>1. out[m] = "routing" /\ (Outcome(m, "routed") \/ out' = out)
      BY <1>3 DEF TryRoute
    <3>2. \A k \in Msgs : out'[k] = "failed" <=> out[k] = "failed"
      BY <3>1 DEF Inv, TypeOK
    <3> QED
      BY <3>2
  <2> QED
    BY <1>3, <2>1 DEF TryRoute, Mb!vars
<1>4. ASSUME NEW m \in Msgs, NoRoute(m)
      PROVE  Mb!Fail(m)
  <2>1. Failed' = Failed \union {m}
    BY <1>4 DEF NoRoute, Inv, TypeOK
  <2>2. from[m] # NoNode /\ \A n \in Nodes : /\ <<"RECU", m>> \notin journal[n]
                                           /\ <<"ENVOYE", m>> \notin journal[n]
    BY <1>4, NoNodeIsNone DEF NoRoute, Inv, TypeOK, Delivered, Readable, Addressed, AddressedAt
  <2> QED
    BY <1>4, <2>1, <2>2 DEF NoRoute, Mb!Fail
<1>5. ASSUME NEW m \in Msgs, RecordSent(m)
      PROVE  Mb!RecordSent(m)
  <2>1. out[m] = "sent" /\ from[m] \in Nodes /\ Failed' = Failed
    BY <1>5 DEF RecordSent, Inv, TypeOK
  <2>2. \A n \in Nodes : /\ Logged(n, "RECU")' = Logged(n, "RECU")
                        /\ Logged(n, "ENVOYE")' = Logged(n, "ENVOYE")
                              \union (IF n = from[m] THEN {m} ELSE {})
    BY <1>5, <2>1 DEF RecordSent, Inv, TypeOK
  <2> QED
    BY <1>5, <2>1, <2>2, NoNodeIsNone DEF RecordSent, Mb!RecordSent
<1>6. ASSUME NEW m \in Msgs, HandleConnection(m)
      PROVE  UNCHANGED Mb!vars
  BY <1>6 DEF HandleConnection, Mb!vars
<1>7. ASSUME NEW m \in Msgs, HandleMessage(m)
      PROVE  Mb!RecordReceived(m)
  <2>1. /\ at[m] = to[m] /\ at[m] \in Nodes /\ from[m] \in Nodes /\ out[m] # "failed"
    BY <1>7 DEF HandleMessage, Inv, TypeOK, Delivered, Signed, Addressed, AddressedAt
  <2>2. \A n \in Nodes : /\ Logged(n, "ENVOYE")' = Logged(n, "ENVOYE")
                        /\ Logged(n, "RECU")' = Logged(n, "RECU")
                              \union (IF n = to[m] THEN {m} ELSE {})
    BY <1>7, <2>1 DEF HandleMessage, Journaled, Inv, TypeOK
  <2> QED
    BY <1>7, <2>1, <2>2, NoNodeIsNone DEF HandleMessage, Journaled, Mb!RecordReceived
<1>8. ASSUME NEW m \in Msgs, ShowReceived(m)
      PROVE  Mb!Show(m)
  <2>1. /\ at[m] = to[m] /\ at[m] \in Nodes /\ from[m] \in Nodes
        /\ <<"RECU", m>> \in journal[to[m]]
    BY <1>8 DEF ShowReceived, Inv, TypeOK, Delivered, Signed, Addressed, AddressedAt, OnRecord
  <2> QED
    BY <1>8, <2>1, NoNodeIsNone DEF ShowReceived, Mb!Show
<1> HIDE DEF Logged
<1> QED
  BY <1>1, <1>2, <1>3, <1>4, <1>5, <1>6, <1>7, <1>8 DEF Next, Mb!Next

(* The threads, the connections and the crashes implement Mailbox.         *)
THEOREM MailboxImplemented == Spec => ImplementsMailbox
<1>1. Init => Mb!Init
  BY MailboxInit
<1>2. Inv /\ Inv' /\ Addressed /\ [Next]_vars => [Mb!Next]_Mb!vars
  BY MailboxStep
<1> QED
  BY <1>1, <1>2, Invariance, AddressedInvariance, PTL DEF Spec, ImplementsMailbox, Mb!Spec
=============================================================================
