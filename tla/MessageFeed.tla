---------------------------- MODULE MessageFeed -----------------------------
(***************************************************************************)
(* The chat of the web interface (src/cli/main_web.py): add_message, which *)
(* several threads call without a lock, the list messages_log that it      *)
(* bounds, and the page that polls the whole list and redraws it when its  *)
(* length has changed.                                                     *)
(*                                                                         *)
(* A message is its rank of arrival.  append, pop, len and list() are each *)
(* one step, by the interpreter lock.  The page polls on a timer without   *)
(* waiting for the answers; the HTTP server has one thread, so the polls   *)
(* are answered, and the answers handled, in order.                        *)
(***************************************************************************)
EXTENDS Integers, Sequences, FiniteSets

CONSTANTS
    Writers,    \* threads that receive or send messages
    MsgCap,     \* 500
    MaxMsgs,    \* bound: messages
    MaxPolls    \* bound: answers on their way to the page

ASSUME MessageFeedAssumption ==
    /\ IsFiniteSet(Writers) /\ Writers # {}
    /\ MsgCap \in Nat \ {0} /\ Cardinality(Writers) <= MsgCap
    /\ MaxMsgs \in Nat /\ MaxPolls \in Nat \ {0}

VARIABLES
    messages,  \* messages_log
    total,     \* messages added so far
    pc,        \* where each writer is in add_message
    answers,   \* answers to /api/messages on their way
    chosen,    \* a peer has been picked in the page (sel)
    msgN,      \* msgN of the page
    shown      \* the messages that the page displays

writerVars == <<messages, total, pc>>
pageVars   == <<chosen, msgN, shown>>
vars == <<writerVars, pageVars, answers>>

Init ==
    /\ messages = <<>>
    /\ total = 0
    /\ pc = [w \in Writers |-> "idle"]
    /\ answers = <<>>
    /\ chosen = FALSE
    /\ msgN = 0
    /\ shown = <<>>

-----------------------------------------------------------------------------
(* add_message: append, test of the length, pop(0).                        *)

AppendMessage(w) ==
    /\ pc[w] = "idle"
    /\ total < MaxMsgs
    /\ total' = total + 1
    /\ messages' = Append(messages, total + 1)
    /\ pc' = [pc EXCEPT ![w] = "check"]
    /\ UNCHANGED <<pageVars, answers>>

\* Mutant: the length is compared with the cap by ">=".
CheckLengthEarly(w) ==
    /\ pc[w] = "check"
    /\ pc' = [pc EXCEPT ![w] = IF Len(messages) >= MsgCap THEN "pop" ELSE "idle"]
    /\ UNCHANGED <<messages, total, pageVars, answers>>

\* Mutant: the length is compared with the cap by "==".
CheckLengthExact(w) ==
    /\ pc[w] = "check"
    /\ pc' = [pc EXCEPT ![w] = IF Len(messages) = MsgCap + 1 THEN "pop" ELSE "idle"]
    /\ UNCHANGED <<messages, total, pageVars, answers>>

CheckLength(w) ==
    /\ pc[w] = "check"
    /\ pc' = [pc EXCEPT ![w] = IF Len(messages) > MsgCap THEN "pop" ELSE "idle"]
    /\ UNCHANGED <<messages, total, pageVars, answers>>

\* Mutant: pop() for pop(0).
PopNewest(w) ==
    /\ pc[w] = "pop"
    /\ messages' = SubSeq(messages, 1, Len(messages) - 1)
    /\ pc' = [pc EXCEPT ![w] = "idle"]
    /\ UNCHANGED <<total, pageVars, answers>>

PopOldest(w) ==
    /\ pc[w] = "pop"
    /\ messages' = Tail(messages)
    /\ pc' = [pc EXCEPT ![w] = "idle"]
    /\ UNCHANGED <<total, pageVars, answers>>

-----------------------------------------------------------------------------
(* The page.                                                               *)

\* pollMsgs, first half, and the server's answer.
PollMessages ==
    /\ chosen
    /\ Len(answers) < MaxPolls
    /\ answers' = Append(answers, messages)
    /\ UNCHANGED <<writerVars, pageVars>>

\* Mutant: the page only ever grows.
HandleAnswerGrowing ==
    /\ answers # <<>>
    /\ answers' = Tail(answers)
    /\ IF Len(Head(answers)) <= msgN + 1
          THEN UNCHANGED <<msgN, shown>>
          ELSE msgN' = Len(Head(answers)) /\ shown' = Head(answers)
    /\ UNCHANGED <<writerVars, chosen>>

\* Mutant: a shorter list is counted but not drawn.
HandleAnswerUndrawn ==
    /\ answers # <<>>
    /\ answers' = Tail(answers)
    /\ msgN' = Len(Head(answers))
    /\ shown' = IF Len(Head(answers)) > msgN THEN Head(answers) ELSE shown
    /\ UNCHANGED <<writerVars, chosen>>

\* pollMsgs, second half: renderMsgs unless the length is the one shown.
HandleAnswer ==
    /\ answers # <<>>
    /\ answers' = Tail(answers)
    /\ IF Len(Head(answers)) = msgN
          THEN UNCHANGED <<msgN, shown>>
          ELSE msgN' = Len(Head(answers)) /\ shown' = Head(answers)
    /\ UNCHANGED <<writerVars, chosen>>

\* The fetch fails: api() returns null.
LoseAnswer ==
    /\ answers # <<>>
    /\ answers' = Tail(answers)
    /\ UNCHANGED <<writerVars, pageVars>>

\* pick: the user chooses a peer.
Pick ==
    /\ chosen' = TRUE
    /\ msgN' = 0
    /\ UNCHANGED <<shown, writerVars, answers>>

WriterStep(w) == AppendMessage(w) \/ CheckLength(w) \/ PopOldest(w)

Next ==
    \/ \E w \in Writers : WriterStep(w)
    \/ PollMessages
    \/ HandleAnswer
    \/ LoseAnswer
    \/ Pick

Spec == Init /\ [][Next]_vars

(* A thread in add_message goes on, the timer of the page polls, and not   *)
(* every answer is lost.                                                   *)
Fairness ==
    /\ \A w \in Writers : WF_vars(CheckLength(w) \/ PopOldest(w))
    /\ WF_vars(PollMessages)
    /\ SF_vars(HandleAnswer)

FairSpec == Spec /\ Fairness

-----------------------------------------------------------------------------
(* Every variable keeps its type, and the page's count is the length of    *)
(* what it displays, or 0 to have it drawn again.                          *)
TypeOK ==
    /\ messages \in Seq(Nat)
    /\ total \in Nat
    /\ pc \in [Writers -> {"idle", "check", "pop"}]
    /\ answers \in Seq(Seq(Nat))
    /\ chosen \in BOOLEAN
    /\ msgN \in {0, Len(shown)}
    /\ shown \in Seq(Nat)

Busy    == {w \in Writers : pc[w] # "idle"}
Popping == {w \in Writers : pc[w] = "pop"}

(* However the writers interleave between append, test and pop, the list   *)
(* exceeds its cap by no more than the writers that are in the middle.     *)
MessagesBounded == Len(messages) <= MsgCap + Cardinality(Busy)

(* Writers that all see the same excess each remove a message, so more is  *)
(* removed than there is too much, but never more than one for each other  *)
(* writer: the list, once trimmed, keeps the MsgCap + 1 - |Writers| newest *)
(* even after the pops that are decided but not made.                      *)
TrimKeepsNewest ==
    Len(messages) < total =>
        Len(messages) - Cardinality(Popping) >= MsgCap + 1 - Cardinality(Writers)

(* What the page displays was the list at some moment: a run of messages   *)
(* without a hole, none of them newer than the newest.                     *)
ShownIsRun ==
    /\ \A i \in 1 .. Len(shown) - 1 : shown[i + 1] = shown[i] + 1
    /\ \A i \in 1 .. Len(shown) : shown[i] <= total

(* Until more messages have come than the list may hold, the length that   *)
(* the page compares tells two lists apart: an answer as long as what is   *)
(* displayed is what is displayed, so it is right not to draw it.          *)
LengthTells ==
    total <= MsgCap =>
        \A k \in 1 .. Len(answers) :
            msgN # 0 /\ Len(answers[k]) = msgN => answers[k] = shown

InList(m) == \E i \in 1 .. Len(messages) : messages[i] = m
Shown(m)  == \E i \in 1 .. Len(shown) : shown[i] = m

(* Once a chat is open, every message in the list is displayed, as long as *)
(* the list has not reached its cap.                                       *)
ShownBelowCap ==
    [](total < MsgCap) =>
        \A m \in 1 .. MaxMsgs : chosen /\ InList(m) ~> Shown(m)

-----------------------------------------------------------------------------
(* What the code's texts say and the code does not do.                     *)

(* "Messages chiffrés E2E reçus en temps réel" (main_web.py): a message    *)
(* that stays in the list is displayed in the open chat.                   *)
ReceivedInRealTime ==
    \A m \in 1 .. MaxMsgs : <>[](chosen /\ InList(m)) => <>Shown(m)
=============================================================================
