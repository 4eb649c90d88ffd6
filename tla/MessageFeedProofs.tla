-------------------------- MODULE MessageFeedProofs --------------------------
(***************************************************************************)
(* Proofs about module MessageFeed, for any number of writers and any cap. *)
(***************************************************************************)
EXTENDS MessageFeed, FiniteSetTheorems, SequenceTheorems, TLAPS

USE DEF writerVars, pageVars

(* A pop that is decided is one of a list that was above its cap, and each *)
(* other writer takes at most one message more.                            *)
PopInv ==
    Len(messages) < total \/ Popping # {} =>
        Len(messages) - Cardinality(Popping) >= MsgCap + 1 - Cardinality(Writers)

(* A writer that becomes a member of a set of writers counts for one, and  *)
(* so does one that leaves it.                                             *)
LEMMA Counting ==
    ASSUME NEW S \in SUBSET Writers, NEW w \in Writers
    PROVE  /\ IsFiniteSet(S) /\ Cardinality(S) \in Nat
           /\ Cardinality(S) <= Cardinality(Writers)
           /\ Cardinality(Writers) \in Nat
           /\ w \notin S => Cardinality(S \union {w}) = Cardinality(S) + 1
           /\ w \in S => Cardinality(S \ {w}) = Cardinality(S) - 1
<1>1. IsFiniteSet(Writers)
  BY MessageFeedAssumption
<1>2. IsFiniteSet(S) /\ Cardinality(S) <= Cardinality(Writers)
  BY <1>1, FS_Subset
<1> QED
  BY <1>1, <1>2, FS_CardinalityType, FS_AddElement, FS_RemoveElement

(* Popping and Busy are sets of writers, and they only change with the     *)
(* program point of the writer that moves.                                 *)
LEMMA Moves ==
    ASSUME TypeOK, NEW w \in Writers, NEW point \in {"idle", "check", "pop"},
           pc' = [pc EXCEPT ![w] = point]
    PROVE  /\ point = "pop" => Popping' = Popping \union {w}
           /\ point # "pop" => Popping' = Popping \ {w}
           /\ point = "idle" => Busy' = Busy \ {w}
           /\ point # "idle" => Busy' = Busy \union {w}
BY DEF TypeOK, Popping, Busy

(* Removing what is not there, adding what is.                             *)
LEMMA SameSet ==
    ASSUME NEW S, NEW x
    PROVE  /\ x \notin S => S \ {x} = S
           /\ x \in S => S \union {x} = S
OBVIOUS

LEMMA WriterSets == Popping \in SUBSET Writers /\ Busy \in SUBSET Writers
BY DEF Popping, Busy

(* The writers that pop find a message.                                    *)
LEMMA PopFinds ==
    ASSUME TypeOK, PopInv, NEW w \in Writers, pc[w] = "pop"
    PROVE  Len(messages) >= 1
<1>1. w \in Popping /\ Popping \in SUBSET Writers
  BY DEF Popping
<1>2. Cardinality(Popping) >= 1
  <2>1. Cardinality(Popping \ {w}) \in Nat
    BY <1>1, Counting
  <2> QED
    BY <1>1, <2>1, Counting
<1>3. Len(messages) - Cardinality(Popping) >= MsgCap + 1 - Cardinality(Writers)
  BY <1>1 DEF PopInv
<1>4. Cardinality(Popping) \in Nat /\ Cardinality(Writers) \in Nat
  BY <1>1, Counting
<1>5. Len(messages) \in Nat
  BY DEF TypeOK
<1> QED
  BY <1>2, <1>3, <1>4, <1>5, MessageFeedAssumption

(* The three parts of the inductive invariant hold initially.              *)
LEMMA InitBounds == Init => TypeOK /\ MessagesBounded /\ PopInv
<1> SUFFICES ASSUME Init PROVE TypeOK /\ MessagesBounded /\ PopInv
  OBVIOUS
<1>1. TypeOK
  <2>1. messages \in Seq(Nat) /\ shown \in Seq(Nat) /\ Len(shown) = 0
    BY DEF Init
  <2>2. answers \in Seq(Seq(Nat))
    BY DEF Init
  <2> QED
    BY <2>1, <2>2 DEF Init, TypeOK
<1>2. Popping = {} /\ Busy = {}
  BY DEF Init, Popping, Busy
<1> QED
  BY <1>1, <1>2, FS_EmptySet, MessageFeedAssumption
  DEF Init, MessagesBounded, PopInv

(* A step keeps the types; a pop needs PopInv to find a message.           *)
LEMMA TypeStep == TypeOK /\ PopInv /\ [Next]_vars => TypeOK'
<1> SUFFICES ASSUME TypeOK, PopInv, [Next]_vars PROVE TypeOK'
  OBVIOUS
<1> USE DEF TypeOK
<1>1. ASSUME NEW w \in Writers, AppendMessage(w) PROVE TypeOK'
  BY <1>1 DEF AppendMessage
<1>2. ASSUME NEW w \in Writers, CheckLength(w) PROVE TypeOK'
  BY <1>2 DEF CheckLength
<1>3. ASSUME NEW w \in Writers, PopOldest(w) PROVE TypeOK'
  <2>1. messages # <<>>
    BY <1>3, PopFinds DEF PopOldest
  <2> QED
    BY <1>3, <2>1 DEF PopOldest
<1>4. CASE PollMessages
  BY <1>4 DEF PollMessages
<1>5. CASE HandleAnswer
  <2>1. Head(answers) \in Seq(Nat) /\ answers' \in Seq(Seq(Nat))
    BY <1>5 DEF HandleAnswer
  <2> QED
    BY <1>5, <2>1 DEF HandleAnswer
<1>6. CASE LoseAnswer
  BY <1>6 DEF LoseAnswer
<1>7. CASE Pick
  BY <1>7 DEF Pick
<1>8. CASE UNCHANGED vars
  BY <1>8 DEF vars
<1> QED
  BY <1>1, <1>2, <1>3, <1>4, <1>5, <1>6, <1>7, <1>8 DEF Next, WriterStep

(* A step of a writer keeps the bounds on the list.                        *)
LEMMA BoundStep ==
    TypeOK /\ MessagesBounded /\ PopInv /\ [Next]_vars => MessagesBounded' /\ PopInv'
<1> SUFFICES ASSUME TypeOK, MessagesBounded, PopInv, [Next]_vars
             PROVE  MessagesBounded' /\ PopInv'
  OBVIOUS
<1> DEFINE n == Len(messages)
<1>0. n \in Nat /\ total \in Nat /\ MsgCap \in Nat
  BY MessageFeedAssumption DEF TypeOK
<1>1. ASSUME NEW w \in Writers, AppendMessage(w) PROVE MessagesBounded' /\ PopInv'
  <2>1. pc' = [pc EXCEPT ![w] = "check"] /\ w \notin Busy /\ w \notin Popping
    BY <1>1 DEF AppendMessage, Busy, Popping
  <2>2. Popping' = Popping /\ Busy' = Busy \union {w} /\ Len(messages') = n + 1
    <3>1. Popping' = Popping /\ Busy' = Busy \union {w}
      BY <2>1, Moves, SameSet
    <3>2. Len(messages') = n + 1
      BY <1>1 DEF AppendMessage, TypeOK
    <3> QED
      BY <3>1, <3>2
  <2>3. Cardinality(Busy') = Cardinality(Busy) + 1 /\ Cardinality(Busy) \in Nat
    BY <2>1, <2>2, WriterSets, Counting
  <2>4. Cardinality(Popping) \in Nat /\ Cardinality(Writers) \in Nat
    BY <2>1, WriterSets, Counting
  <2>5. total' = total + 1
    BY <1>1 DEF AppendMessage
  <2> HIDE DEF n
  <2>6. MessagesBounded'
    BY <1>0, <2>2, <2>3 DEF MessagesBounded, n
  <2> QED
    BY <1>0, <2>2, <2>4, <2>5, <2>6 DEF PopInv, n
<1>2. ASSUME NEW w \in Writers, CheckLength(w) PROVE MessagesBounded' /\ PopInv'
  <2>1. w \in Busy /\ w \notin Popping /\ messages' = messages /\ total' = total
    BY <1>2 DEF CheckLength, Busy, Popping
  <2>2. CASE n > MsgCap
    <3>1. pc' = [pc EXCEPT ![w] = "pop"]
      BY <1>2, <2>2 DEF CheckLength
    <3>2. Popping' = Popping \union {w} /\ Busy' = Busy
      <4>1. Popping' = Popping \union {w} /\ Busy' = Busy \union {w}
        BY <3>1, Moves
      <4> QED
        BY <2>1, <4>1, SameSet
    <3>3. Popping' \in SUBSET Writers
      BY <3>2, WriterSets
    <3>4. Cardinality(Popping') \in Nat /\ Cardinality(Writers) \in Nat
          /\ Cardinality(Popping') <= Cardinality(Writers)
      BY <3>3, Counting
    <3> QED
      BY <1>0, <2>1, <2>2, <3>2, <3>4 DEF MessagesBounded, PopInv
  <2>3. CASE ~(n > MsgCap)
    <3>1. pc' = [pc EXCEPT ![w] = "idle"]
      BY <1>2, <2>3 DEF CheckLength
    <3>2. Popping' = Popping /\ Busy' = Busy \ {w}
      BY <2>1, <3>1, Moves, SameSet
    <3>3. Cardinality(Busy') \in Nat
      BY <2>1, <3>2, WriterSets, Counting
    <3> QED
      BY <1>0, <2>1, <2>3, <3>2, <3>3 DEF MessagesBounded, PopInv
  <2> QED
    BY <2>2, <2>3
<1>3. ASSUME NEW w \in Writers, PopOldest(w) PROVE MessagesBounded' /\ PopInv'
  <2>1. pc' = [pc EXCEPT ![w] = "idle"] /\ w \in Busy /\ w \in Popping
    BY <1>3 DEF PopOldest, Busy, Popping
  <2>2. n >= 1 /\ Len(messages') = n - 1
    <3>1. n >= 1
      BY <1>3, PopFinds DEF PopOldest
    <3> QED
      BY <1>3, <3>1 DEF PopOldest, TypeOK
  <2>3. Popping' = Popping \ {w} /\ Busy' = Busy \ {w}
    BY <2>1, Moves
  <2>4. Cardinality(Popping') = Cardinality(Popping) - 1
        /\ Cardinality(Busy') = Cardinality(Busy) - 1
    BY <2>1, <2>3, WriterSets, Counting
  <2>5. Cardinality(Popping) \in Nat /\ Cardinality(Busy) \in Nat
        /\ Cardinality(Writers) \in Nat
    BY <2>1, WriterSets, Counting
  <2>6. n - Cardinality(Popping) >= MsgCap + 1 - Cardinality(Writers)
    BY <2>1 DEF PopInv
  <2> QED
    BY <1>0, <2>2, <2>4, <2>5, <2>6 DEF MessagesBounded, PopInv
<1>4. CASE UNCHANGED writerVars
  BY <1>4 DEF MessagesBounded, PopInv, Busy, Popping
<1> QED
  BY <1>1, <1>2, <1>3, <1>4
  DEF Next, WriterStep, PollMessages, HandleAnswer, LoseAnswer, Pick, vars

(* Every variable keeps its type; in particular no writer pops from an     *)
(* empty list.                                                             *)
THEOREM TypeCorrect == Spec => []TypeOK
<1>1. TypeOK /\ MessagesBounded /\ PopInv /\ [Next]_vars
         => (TypeOK /\ MessagesBounded /\ PopInv)'
  BY TypeStep, BoundStep
<1> QED
  BY InitBounds, <1>1, PTL DEF Spec

(* The list exceeds its cap by no more than the writers in add_message.    *)
THEOREM Bounded == Spec => []MessagesBounded
<1>1. TypeOK /\ MessagesBounded /\ PopInv /\ [Next]_vars
         => (TypeOK /\ MessagesBounded /\ PopInv)'
  BY TypeStep, BoundStep
<1> QED
  BY InitBounds, <1>1, PTL DEF Spec

(* A trimmed list keeps all but |Writers| - 1 of the newest MsgCap.        *)
THEOREM KeepsNewest == Spec => []TrimKeepsNewest
<1>1. TypeOK /\ MessagesBounded /\ PopInv /\ [Next]_vars
         => (TypeOK /\ MessagesBounded /\ PopInv)'
  BY TypeStep, BoundStep
<1>2. PopInv => TrimKeepsNewest
  BY DEF PopInv, TrimKeepsNewest
<1> QED
  BY InitBounds, <1>1, <1>2, PTL DEF Spec

-----------------------------------------------------------------------------
(* What the page displays.                                                 *)

\* Ranks without a hole, none beyond the newest.
IsRun(s) ==
    /\ \A i \in 1 .. Len(s) - 1 : s[i + 1] = s[i] + 1
    /\ \A i \in 1 .. Len(s) : s[i] <= total

(* The list is the last messages that were added; what is on its way to    *)
(* the page or displayed there was the list once.                          *)
RunInv ==
    /\ \A i \in 1 .. Len(messages) : messages[i] = total - Len(messages) + i
    /\ \A k \in 1 .. Len(answers) : IsRun(answers[k])
    /\ IsRun(shown)

LEMMA InitRun == Init => RunInv
BY DEF Init, RunInv, IsRun

(* The list itself is a run.                                               *)
LEMMA ListIsRun == TypeOK /\ RunInv => IsRun(messages)
<1> SUFFICES ASSUME TypeOK, RunInv PROVE IsRun(messages)
  OBVIOUS
<1>1. Len(messages) \in Nat /\ total \in Nat
  BY DEF TypeOK
<1>2. \A i \in 1 .. Len(messages) : messages[i] = total - Len(messages) + i
  BY DEF RunInv
<1>3. ASSUME NEW i \in 1 .. Len(messages) - 1
      PROVE  messages[i + 1] = messages[i] + 1
  <2>1. i \in 1 .. Len(messages) /\ i + 1 \in 1 .. Len(messages)
    BY <1>1
  <2> QED
    BY <1>1, <1>2, <2>1
<1> QED
  BY <1>1, <1>2, <1>3 DEF IsRun

(* A step of a writer leaves the list the last messages.                   *)
LEMMA ListStep ==
    ASSUME TypeOK, PopInv, RunInv, NEW w \in Writers, WriterStep(w)
    PROVE  RunInv'
<1> DEFINE Newest == \A i \in 1 .. Len(messages) :
                        messages[i] = total - Len(messages) + i
<1>1. total' \in Nat /\ total \in Nat /\ total <= total'
  BY DEF WriterStep, AppendMessage, CheckLength, PopOldest, TypeOK
<1>2. UNCHANGED <<answers, shown>>
  BY DEF WriterStep, AppendMessage, CheckLength, PopOldest
<1>3. \A s \in Seq(Nat) : IsRun(s) => IsRun(s)'
  BY <1>1 DEF IsRun
<1>4. \A k \in 1 .. Len(answers) : answers[k] \in Seq(Nat)
  BY DEF TypeOK
<1>5. shown \in Seq(Nat)
  BY DEF TypeOK
<1>6. IsRun(shown)'
  BY <1>2, <1>3, <1>5 DEF RunInv, IsRun
<1>7. \A k \in 1 .. Len(answers') : IsRun(answers[k])'
  BY <1>1, <1>2, <1>4 DEF RunInv, IsRun
<1>8. Newest'
  <2>1. CASE AppendMessage(w)
    <3>1. messages \in Seq(Nat) /\ Len(messages) \in Nat
      BY DEF TypeOK
    <3>2. /\ Len(messages') = Len(messages) + 1 /\ total' = total + 1
          /\ \A i \in 1 .. Len(messages') :
                messages'[i] = IF i = Len(messages) + 1 THEN total + 1 ELSE messages[i]
      BY <2>1, <3>1 DEF AppendMessage
    <3>3. \A i \in 1 .. Len(messages') :
             i = Len(messages) + 1 \/ i \in 1 .. Len(messages)
      BY <3>1, <3>2
    <3> QED
      BY <1>1, <3>1, <3>2, <3>3 DEF RunInv
  <2>2. CASE CheckLength(w)
    BY <2>2 DEF CheckLength, RunInv
  <2>3. CASE PopOldest(w)
    <3>1. messages # <<>> /\ messages \in Seq(Nat)
      BY <2>3, PopFinds DEF PopOldest, TypeOK
    <3>2. /\ Len(Tail(messages)) = Len(messages) - 1
          /\ \A i \in 1 .. Len(messages) - 1 : Tail(messages)[i] = messages[i + 1]
      BY <3>1
    <3>3. messages' = Tail(messages) /\ total' = total
      BY <2>3 DEF PopOldest
    <3>4. Len(messages) \in Nat
      BY <3>1
    <3>5. ASSUME NEW i \in 1 .. Len(messages')
          PROVE  messages'[i] = total' - Len(messages') + i
      <4>1. i \in 1 .. Len(messages) - 1 /\ i + 1 \in 1 .. Len(messages)
        BY <3>2, <3>3, <3>4
      <4>2. messages[i + 1] = total - Len(messages) + (i + 1)
        BY <4>1 DEF RunInv
      <4>3. messages'[i] = messages[i + 1]
        BY <3>2, <3>3, <4>1
      <4>4. Len(messages') = Len(messages) - 1 /\ i \in Int
        BY <3>2, <3>3, <4>1
      <4>5. total' = total
        BY <3>3
      <4> QED
        BY <1>1, <3>4, <4>2, <4>3, <4>4, <4>5
    <3> QED
      BY <3>5
  <2> QED
    BY <2>1, <2>2, <2>3 DEF WriterStep
<1> QED
  BY <1>6, <1>7, <1>8 DEF RunInv

(* Every step keeps RunInv.                                                *)
LEMMA RunStep == TypeOK /\ PopInv /\ RunInv /\ [Next]_vars => RunInv'
<1> SUFFICES ASSUME TypeOK, PopInv, RunInv, [Next]_vars PROVE RunInv'
  OBVIOUS
<1>1. ASSUME NEW w \in Writers, WriterStep(w) PROVE RunInv'
  BY <1>1, ListStep
<1>2. CASE PollMessages
  <2>1. answers' = Append(answers, messages) /\ answers \in Seq(Seq(Nat))
        /\ messages \in Seq(Nat)
    BY <1>2 DEF PollMessages, TypeOK
  <2>2. \A k \in 1 .. Len(answers') :
           \/ answers'[k] = messages
           \/ k \in 1 .. Len(answers) /\ answers'[k] = answers[k]
    BY <2>1
  <2> QED
    BY <1>2, <2>2, ListIsRun DEF PollMessages, RunInv, IsRun
<1>3. ASSUME answers # <<>>, answers' = Tail(answers), UNCHANGED writerVars
      PROVE  \A k \in 1 .. Len(answers') : IsRun(answers[k])'
  <2>1. answers \in Seq(Seq(Nat))
    BY DEF TypeOK
  <2>2. \A k \in 1 .. Len(answers') :
           k + 1 \in 1 .. Len(answers) /\ answers'[k] = answers[k + 1]
    BY <1>3, <2>1
  <2> QED
    BY <1>3, <2>2 DEF RunInv, IsRun
<1>4. CASE HandleAnswer
  <2>1. IsRun(Head(answers))
    BY <1>4 DEF HandleAnswer, RunInv, TypeOK
  <2>2. shown' = shown \/ shown' = Head(answers)
    BY <1>4 DEF HandleAnswer
  <2>3. IsRun(shown')
    BY <2>1, <2>2 DEF RunInv
  <2>4. UNCHANGED writerVars
    BY <1>4 DEF HandleAnswer
  <2>5. IsRun(shown)'
    BY <2>3, <2>4 DEF IsRun
  <2> QED
    BY <1>3, <1>4, <2>4, <2>5 DEF HandleAnswer, RunInv
<1>5. CASE LoseAnswer
  <2>1. IsRun(shown)'
    BY <1>5 DEF LoseAnswer, RunInv, IsRun
  <2> QED
    BY <1>3, <1>5, <2>1 DEF LoseAnswer, RunInv
<1>6. CASE Pick
  BY <1>6 DEF Pick, RunInv, IsRun
<1>7. CASE UNCHANGED vars
  BY <1>7 DEF vars, RunInv, IsRun
<1> QED
  BY <1>1, <1>2, <1>4, <1>5, <1>6, <1>7 DEF Next

(* The page never displays a list with a hole.                             *)
THEOREM NoHole == Spec => []ShownIsRun
<1>1. TypeOK /\ MessagesBounded /\ PopInv /\ RunInv /\ [Next]_vars
         => (TypeOK /\ MessagesBounded /\ PopInv /\ RunInv)'
  BY TypeStep, BoundStep, RunStep
<1>2. RunInv => ShownIsRun
  BY DEF RunInv, IsRun, ShownIsRun
<1> QED
  BY InitBounds, InitRun, <1>1, <1>2, PTL DEF Spec

-----------------------------------------------------------------------------
(* What the length of an answer says.                                      *)

FromOne(s) == \A i \in 1 .. Len(s) : s[i] = i

(* Until more messages have come than the list may hold, no pop is         *)
(* decided, and every list that ever was begins with the first message.    *)
LengthInv ==
    total <= MsgCap =>
        /\ Popping = {}
        /\ Len(messages) = total
        /\ FromOne(shown)
        /\ \A k \in 1 .. Len(answers) : FromOne(answers[k])

LEMMA InitLength == Init => LengthInv
BY DEF Init, LengthInv, Popping, FromOne

(* A step of a writer.  The test of the length only decides a pop when     *)
(* more messages have come.                                                *)
LEMMA LengthWriter ==
    ASSUME TypeOK, LengthInv, NEW w \in Writers, WriterStep(w)
    PROVE  LengthInv'
<1> SUFFICES ASSUME total' <= MsgCap PROVE LengthInv'
  BY DEF LengthInv
<1>1. total \in Nat /\ Len(messages) \in Nat /\ MsgCap \in Nat
  BY MessageFeedAssumption DEF TypeOK
<1>2. total <= MsgCap
  BY <1>1 DEF WriterStep, AppendMessage, CheckLength, PopOldest
<1>3. UNCHANGED <<answers, shown>>
  BY DEF WriterStep, AppendMessage, CheckLength, PopOldest
<1>4. FromOne(shown)' /\ \A k \in 1 .. Len(answers') : FromOne(answers[k])'
  BY <1>2, <1>3 DEF LengthInv, FromOne
<1>5. ~PopOldest(w)
  BY <1>2 DEF LengthInv, PopOldest, Popping
<1>6. Popping' = {} /\ Len(messages') = total'
  <2>1. CASE AppendMessage(w)
    <3>1. pc' = [pc EXCEPT ![w] = "check"]
      BY <2>1 DEF AppendMessage
    <3>2. Popping' = {}
      BY <1>2, <3>1, Moves DEF LengthInv
    <3>3. Len(messages') = Len(messages) + 1
      BY <2>1 DEF AppendMessage, TypeOK
    <3> QED
      BY <1>2, <2>1, <3>2, <3>3 DEF LengthInv, AppendMessage
  <2>2. CASE CheckLength(w)
    <3>1. ~(Len(messages) > MsgCap)
      BY <1>1, <1>2 DEF LengthInv
    <3>2. pc' = [pc EXCEPT ![w] = "idle"]
      BY <2>2, <3>1 DEF CheckLength
    <3>3. Popping' = {}
      BY <1>2, <3>2, Moves DEF LengthInv
    <3> QED
      BY <1>2, <2>2, <3>3 DEF LengthInv, CheckLength
  <2> QED
    BY <1>5, <2>1, <2>2 DEF WriterStep
<1> QED
  BY <1>4, <1>6 DEF LengthInv

(* The list begins with the first message.                                 *)
LEMMA ListFromOne ==
    TypeOK /\ RunInv /\ LengthInv /\ total <= MsgCap => FromOne(messages)
<1> SUFFICES ASSUME TypeOK, RunInv, LengthInv, total <= MsgCap
             PROVE  FromOne(messages)
  OBVIOUS
<1>1. total \in Nat /\ Len(messages) = total
  BY DEF TypeOK, LengthInv
<1>2. \A i \in 1 .. Len(messages) : messages[i] = total - Len(messages) + i
  BY DEF RunInv
<1> QED
  BY <1>1, <1>2 DEF FromOne

(* Every step keeps LengthInv.                                             *)
LEMMA LengthStep == TypeOK /\ RunInv /\ LengthInv /\ [Next]_vars => LengthInv'
<1> SUFFICES ASSUME TypeOK, RunInv, LengthInv, [Next]_vars PROVE LengthInv'
  OBVIOUS
<1>1. ASSUME NEW w \in Writers, WriterStep(w) PROVE LengthInv'
  BY <1>1, LengthWriter
<1>2. CASE PollMessages
  <2>1. answers' = Append(answers, messages) /\ answers \in Seq(Seq(Nat))
        /\ messages \in Seq(Nat)
    BY <1>2 DEF PollMessages, TypeOK
  <2>2. \A k \in 1 .. Len(answers') :
           \/ answers'[k] = messages
           \/ k \in 1 .. Len(answers) /\ answers'[k] = answers[k]
    BY <2>1
  <2> QED
    BY <1>2, <2>2, ListFromOne DEF PollMessages, LengthInv, FromOne, Popping
<1>3. ASSUME answers # <<>>, answers' = Tail(answers), UNCHANGED writerVars,
             total <= MsgCap
      PROVE  \A k \in 1 .. Len(answers') : FromOne(answers[k])'
  <2>1. answers \in Seq(Seq(Nat))
    BY DEF TypeOK
  <2>2. \A k \in 1 .. Len(answers') :
           k + 1 \in 1 .. Len(answers) /\ answers'[k] = answers[k + 1]
    BY <1>3, <2>1
  <2> QED
    BY <1>3, <2>2 DEF LengthInv, FromOne
<1>4. CASE HandleAnswer
  <2>1. total <= MsgCap => FromOne(Head(answers))
    BY <1>4 DEF HandleAnswer, LengthInv, TypeOK
  <2>2. shown' = shown \/ shown' = Head(answers)
    BY <1>4 DEF HandleAnswer
  <2>3. total <= MsgCap => FromOne(shown')
    BY <2>1, <2>2 DEF LengthInv
  <2>4. UNCHANGED writerVars /\ answers # <<>> /\ answers' = Tail(answers)
    BY <1>4 DEF HandleAnswer
  <2> QED
    BY <1>3, <2>3, <2>4 DEF LengthInv, FromOne, Popping
<1>5. CASE LoseAnswer
  BY <1>3, <1>5 DEF LoseAnswer, LengthInv, FromOne, Popping
<1>6. CASE Pick
  BY <1>6 DEF Pick, LengthInv, FromOne, Popping
<1>7. CASE UNCHANGED vars
  BY <1>7 DEF vars, LengthInv, FromOne, Popping
<1> QED
  BY <1>1, <1>2, <1>4, <1>5, <1>6, <1>7 DEF Next

(* Until more messages have come than the list may hold, an answer as long *)
(* as what the page displays is what it displays: up to the cap it is      *)
(* sound to compare lengths.                                               *)
THEOREM LengthSuffices == Spec => []LengthTells
<1>1. TypeOK /\ MessagesBounded /\ PopInv /\ RunInv /\ LengthInv /\ [Next]_vars
         => (TypeOK /\ MessagesBounded /\ PopInv /\ RunInv /\ LengthInv)'
  BY TypeStep, BoundStep, RunStep, LengthStep
<1>2. TypeOK /\ LengthInv => LengthTells
  <2> SUFFICES ASSUME TypeOK, LengthInv, total <= MsgCap,
                      NEW k \in 1 .. Len(answers), msgN # 0, Len(answers[k]) = msgN
               PROVE  answers[k] = shown
    BY DEF LengthTells
  <2>1. answers[k] \in Seq(Nat) /\ shown \in Seq(Nat) /\ Len(answers[k]) = Len(shown)
    BY DEF TypeOK
  <2>2. \A i \in 1 .. Len(shown) : answers[k][i] = shown[i]
    BY <2>1 DEF LengthInv, FromOne
  <2> QED
    BY <2>1, <2>2, SeqEqual
<1> QED
  BY InitBounds, InitRun, InitLength, <1>1, <1>2, PTL DEF Spec
=============================================================================
