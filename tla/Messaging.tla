------------------------------ MODULE Messaging ------------------------------
(***************************************************************************)
(* The start of a node of the web interface (start of                      *)
(* src/cli/main_web.py, src/crypto/identity.py) and the messages nodes     *)
(* exchange (src/crypto/messaging.py, the sending side of                  *)
(* src/network/router.py), with nodes that crash at any point.             *)
(*                                                                         *)
(* A frame starts with four bytes that the receiver takes for its size; a  *)
(* relayed one starts with its magic "RLAY", as a size 1380729177.  Every  *)
(* connection has a thread of its own at the receiver.                     *)
(*                                                                         *)
(* Abstractions.  The bytes of a message are its number; keys of different *)
(* nodes differ, so a key is the number of the keys its node has made.     *)
(* The two appends of _handle_message to `messages', which only tests      *)
(* read, are one step with the line in the journal file, which is taken to *)
(* be writable.                                                            *)
(***************************************************************************)
EXTENDS Integers, Sequences, FiniteSets

CONSTANTS
    Nodes, NoNode,
    Sizes,      \* sizes of the packets that are sent
    MaxMsgs,    \* bound: messages
    MaxCrashes  \* bound: crashes

ASSUME MessagingAssumption ==
    /\ NoNode \notin Nodes
    /\ Sizes \subseteq Nat \ {0}
    /\ MaxMsgs \in Nat /\ MaxCrashes \in Nat

MaxFrame   == 10 * 1024 * 1024
RelayMagic == 1380729177
Msgs       == 1 .. MaxMsgs
Absent     == -1
Partial    == 0

VARIABLES
    identity,  \* the identity file of each node: Absent, Partial or its key
    made,      \* keys each node has made
    pc,        \* how far each node has started
    key,       \* the key each process runs with
    listening, \* nodes whose message server has its port
    webTaken,  \* nodes whose web port another program has
    journal,   \* the log file of each node
    messages,  \* `messages' of each node
    ui,        \* messages_log of each node
    from, to, sender,  \* of each message; sender is its sender_id
    at,        \* node to which its frame has been sent
    first,     \* the size its frame starts with
    whole,     \* has the frame been sent to its end?
    out,       \* the thread that sends it
    tried,     \* nodes that route_message has tried
    in,        \* the thread that receives it
    crashes

identityVars == <<identity, made>>
processVars  == <<pc, key, listening, webTaken>>
recordVars   == <<journal, messages, ui>>
msgVars      == <<from, to, sender>>
frameVars    == <<at, first, whole, in>>
vars == <<identityVars, processVars, recordVars, msgVars, frameVars,
          out, tried, crashes>>

Init ==
    /\ identity = [n \in Nodes |-> Absent]
    /\ made = [n \in Nodes |-> 0]
    /\ pc = [n \in Nodes |-> "down"]
    /\ key = [n \in Nodes |-> Absent]
    /\ listening = {}
    /\ webTaken \in SUBSET Nodes
    /\ journal = [n \in Nodes |-> {}]
    /\ messages = [n \in Nodes |-> <<>>]
    /\ ui = [n \in Nodes |-> {}]
    /\ from = [m \in Msgs |-> NoNode]
    /\ to = [m \in Msgs |-> NoNode]
    /\ sender = [m \in Msgs |-> Absent]
    /\ at = [m \in Msgs |-> NoNode]
    /\ first = [m \in Msgs |-> 0]
    /\ whole = [m \in Msgs |-> FALSE]
    /\ out = [m \in Msgs |-> "unused"]
    /\ tried = [m \in Msgs |-> {}]
    /\ in = [m \in Msgs |-> "none"]
    /\ crashes = 0

-----------------------------------------------------------------------------
(* The start of a node.                                                    *)

Reaches(n, s) == pc' = [pc EXCEPT ![n] = s]

StartUnchanged ==
    UNCHANGED <<webTaken, recordVars, msgVars, frameVars, out, tried, crashes>>

\* Mutant: an existing identity is not looked for.
LookForIdentityNot(n) ==
    /\ pc[n] = "down"
    /\ Reaches(n, "create")
    /\ UNCHANGED <<identityVars, key, listening>> /\ StartUnchanged

\* load_identity, its test of the path.
LookForIdentity(n) ==
    /\ pc[n] = "down"
    /\ Reaches(n, IF identity[n] = Absent THEN "create" ELSE "read")
    /\ UNCHANGED <<identityVars, key, listening>> /\ StartUnchanged

\* generate_identity, up to open(path, "w").
CreateIdentity(n) ==
    /\ pc[n] = "create"
    /\ made' = [made EXCEPT ![n] = @ + 1]
    /\ key' = [key EXCEPT ![n] = made[n] + 1]
    /\ identity' = [identity EXCEPT ![n] = Partial]
    /\ Reaches(n, "write")
    /\ UNCHANGED listening /\ StartUnchanged

\* Mutant: the key in the file is not the one the process goes on with.
WriteIdentityAnew(n) ==
    /\ pc[n] = "write"
    /\ identity' = [identity EXCEPT ![n] = key[n] - 1]
    /\ Reaches(n, "loaded")
    /\ UNCHANGED <<made, key, listening>> /\ StartUnchanged

\* json.dump and the end of the with.
WriteIdentity(n) ==
    /\ pc[n] = "write"
    /\ identity' = [identity EXCEPT ![n] = key[n]]
    /\ Reaches(n, "loaded")
    /\ UNCHANGED <<made, key, listening>> /\ StartUnchanged

\* load_identity, the file exists: json.load raises what ends the process
\* unless it is complete.
ReadIdentity(n) ==
    /\ pc[n] = "read"
    /\ IF identity[n] = Partial
       THEN Reaches(n, "down") /\ UNCHANGED key
       ELSE Reaches(n, "loaded") /\ key' = [key EXCEPT ![n] = identity[n]]
    /\ UNCHANGED <<identityVars, listening>> /\ StartUnchanged

\* Mutant: a server that cannot have its port ends the node.
StartServerOrDie(n) ==
    /\ pc[n] = "loaded"
    /\ \E bound \in BOOLEAN :
          /\ listening' = IF bound THEN listening \union {n} ELSE listening
          /\ Reaches(n, IF bound THEN "serving" ELSE "down")
    /\ UNCHANGED <<identityVars, key>> /\ StartUnchanged

\* start_tcp_server: the bind is in a thread of its own; where it fails the
\* thread ends and the node goes on.
StartServer(n) ==
    /\ pc[n] = "loaded"
    /\ listening' \in {listening, listening \union {n}}
    /\ Reaches(n, "serving")
    /\ UNCHANGED <<identityVars, key>> /\ StartUnchanged

\* patch_messaging.
Patch(n) ==
    /\ pc[n] = "serving"
    /\ Reaches(n, "patched")
    /\ UNCHANGED <<identityVars, key, listening>> /\ StartUnchanged

\* The process of a node ends, and its threads with it: what it has on disk
\* stays, and so do the frames it has sent.
Stop(n) ==
    /\ Reaches(n, "down")
    /\ key' = [key EXCEPT ![n] = Absent]
    /\ listening' = listening \ {n}
    /\ messages' = [messages EXCEPT ![n] = <<>>]
    /\ ui' = [ui EXCEPT ![n] = {}]
    /\ out' = [m \in Msgs |-> IF from[m] = n /\ out[m] \in {"sent", "routing"}
                              THEN "dead" ELSE out[m]]
    /\ in' = [m \in Msgs |-> IF at[m] = n /\ in[m] # "none" THEN "ended" ELSE in[m]]
    /\ UNCHANGED <<identityVars, webTaken, journal, msgVars, at, first, whole, tried>>

\* start, HTTPServer: this bind is in the main thread, so the process ends
\* where it raises.  Until then the message server works.
StartWeb(n) ==
    /\ pc[n] = "patched"
    /\ IF n \in webTaken
       THEN Stop(n) /\ UNCHANGED crashes
       ELSE /\ Reaches(n, "up")
            /\ UNCHANGED <<identityVars, key, listening>> /\ StartUnchanged

StartStep(n) ==
    \/ LookForIdentity(n) \/ CreateIdentity(n) \/ WriteIdentity(n)
    \/ ReadIdentity(n) \/ StartServer(n) \/ Patch(n) \/ StartWeb(n)

\* Another program takes the web port of a node that does not have it, or
\* leaves it.
ChangeWebPort(n) ==
    /\ pc[n] # "up"
    /\ webTaken' \in {webTaken \union {n}, webTaken \ {n}}
    /\ UNCHANGED <<identityVars, pc, key, listening, recordVars, msgVars, frameVars,
                   out, tried, crashes>>

-----------------------------------------------------------------------------
(* The sender.                                                             *)

New(m, n, d) ==
    /\ pc[n] = "up"
    /\ out[m] = "unused" /\ \A k \in 1 .. m - 1 : out[k] # "unused"
    /\ from' = [from EXCEPT ![m] = n]
    /\ to' = [to EXCEPT ![m] = d]
    /\ sender' = [sender EXCEPT ![m] = key[n]]

\* A frame that starts with the size s is in a socket of node d.
Frame(m, d, s, complete) ==
    /\ d \in listening
    /\ at' = [at EXCEPT ![m] = d]
    /\ first' = [first EXCEPT ![m] = s]
    /\ whole' = [whole EXCEPT ![m] = complete]
    /\ in' = [in EXCEPT ![m] = "waiting"]

Outcome(m, s) == out' = [out EXCEPT ![m] = s]

SendUnchanged == UNCHANGED <<identityVars, processVars, recordVars, crashes>>

\* send_message, up to the end of sendall.  It may raise after part of the
\* frame has gone, and connect may fail whether or not the node listens.
SendMessage(m, n, d, s) ==
    /\ New(m, n, d)
    /\ \/ Frame(m, d, s, TRUE) /\ Outcome(m, "sent")
       \/ Frame(m, d, s, FALSE) /\ Outcome(m, "failed")
       \/ UNCHANGED frameVars /\ Outcome(m, "failed")
    /\ UNCHANGED tried /\ SendUnchanged

\* The rest of send_message, and add_message of the web interface.
RecordSent(m) ==
    /\ out[m] = "sent"
    /\ Outcome(m, "returned")
    /\ journal' = [journal EXCEPT ![from[m]] = @ \union {<<"ENVOYE", m>>}]
    /\ messages' = [messages EXCEPT ![from[m]] = Append(@, m)]
    /\ ui' = [ui EXCEPT ![from[m]] = @ \union {m}]
    /\ UNCHANGED <<identityVars, processVars, msgVars, frameVars, tried, crashes>>

RouteMessage(m, n, d) ==
    /\ New(m, n, d)
    /\ Outcome(m, "routing")
    /\ UNCHANGED <<frameVars, tried>> /\ SendUnchanged

\* route_message tries the destination, then its peers in some order, until
\* one takes the frame.
TryRoute(m, p) ==
    /\ out[m] = "routing"
    /\ IF tried[m] = {} THEN p = to[m] ELSE p \notin tried[m] \union {from[m]}
    /\ tried' = [tried EXCEPT ![m] = @ \union {p}]
    /\ \/ Frame(m, p, RelayMagic, TRUE) /\ Outcome(m, "routed")
       \/ UNCHANGED <<frameVars, out>>
    /\ UNCHANGED msgVars /\ SendUnchanged

\* No peer is left.
NoRoute(m) ==
    /\ out[m] = "routing" /\ tried[m] # {}
    /\ Outcome(m, "failed")
    /\ UNCHANGED <<msgVars, frameVars, tried>> /\ SendUnchanged

-----------------------------------------------------------------------------
(* The receiver.                                                           *)

\* Mutant: what is not complete is not noticed.
ReadableInPart(m) == first[m] \in 1 .. MaxFrame

\* _handle_connection goes on if the size it reads is allowed, the packet has
\* the magic "ARCH" after it (a relayed one has its length there), and
\* parse_packet finds its checksum at its end.
Readable(m) == first[m] \in 1 .. MaxFrame /\ whole[m]

ReceiveUnchanged ==
    UNCHANGED <<identityVars, processVars, msgVars, at, first, whole, out, tried, crashes>>

Continue(m, s) == in' = [in EXCEPT ![m] = s]

\* Mutant: the thread holds the _handle_message of before the patch.
HandleConnectionBefore(m) ==
    /\ in[m] = "waiting"
    /\ Continue(m, IF Readable(m) THEN "plain" ELSE "ended")
    /\ UNCHANGED recordVars /\ ReceiveUnchanged

\* _handle_connection calls the _handle_message the service has by now.
HandleConnection(m) ==
    /\ in[m] = "waiting"
    /\ Continue(m, IF ~Readable(m) THEN "ended"
                   ELSE IF pc[at[m]] \in {"patched", "up"} THEN "patched" ELSE "plain")
    /\ UNCHANGED recordVars /\ ReceiveUnchanged

\* Mutant: patched shows the message before it calls orig.
HandleMessageLast(m) ==
    /\ \/ in[m] = "plain" /\ Continue(m, "ended") /\ UNCHANGED ui
       \/ /\ in[m] = "patched" /\ Continue(m, "handled")
          /\ ui' = [ui EXCEPT ![at[m]] = @ \union {m}]
    /\ UNCHANGED <<journal, messages>> /\ ReceiveUnchanged

Journaled(n, m) ==
    /\ journal' = [journal EXCEPT ![n] = @ \union {<<"RECU", m>>}]
    /\ messages' = [messages EXCEPT ![n] = @ \o <<m, m>>]

\* _handle_message; `orig' of patch_messaging.
HandleMessage(m) ==
    /\ in[m] \in {"plain", "patched"}
    /\ Continue(m, IF in[m] = "patched" THEN "handled" ELSE "ended")
    /\ Journaled(at[m], m)
    /\ UNCHANGED ui /\ ReceiveUnchanged

\* The rest of patched.
ShowReceived(m) ==
    /\ in[m] = "handled"
    /\ Continue(m, "ended")
    /\ ui' = [ui EXCEPT ![at[m]] = @ \union {m}]
    /\ UNCHANGED <<journal, messages>> /\ ReceiveUnchanged

-----------------------------------------------------------------------------
\* A node stops at any point.
Crash(n) ==
    /\ pc[n] # "down" /\ crashes < MaxCrashes
    /\ crashes' = crashes + 1
    /\ Stop(n)

Next ==
    \/ \E n \in Nodes : StartStep(n) \/ ChangeWebPort(n) \/ Crash(n)
    \/ \E m \in Msgs, n, d \in Nodes, s \in Sizes : SendMessage(m, n, d, s)
    \/ \E m \in Msgs, n, d \in Nodes : RouteMessage(m, n, d)
    \/ \E m \in Msgs, p \in Nodes : TryRoute(m, p)
    \/ \E m \in Msgs : RecordSent(m) \/ NoRoute(m)
    \/ \E m \in Msgs : HandleConnection(m) \/ HandleMessage(m) \/ ShowReceived(m)

Spec == Init /\ [][Next]_vars

(* A node is started again whenever it has stopped, and its threads run;   *)
(* nobody has to send anything, and no port has to become free.            *)
Fairness ==
    /\ \A n \in Nodes : WF_vars(StartStep(n))
    /\ \A m \in Msgs :
          /\ WF_vars(RecordSent(m))
          /\ WF_vars((\E p \in Nodes : TryRoute(m, p)) \/ NoRoute(m))
          /\ WF_vars(HandleConnection(m) \/ HandleMessage(m) \/ ShowReceived(m))

FairSpec == Spec /\ Fairness

-----------------------------------------------------------------------------
HasIdentity(n) == identity[n] \notin {Absent, Partial}

(* Every variable keeps its type; a process past its loading runs with the *)
(* key in its file, one that is up has its web port, and a frame waits or  *)
(* is handled only at a node that has its message port.                    *)
TypeOK ==
    /\ identity \in [Nodes -> Nat \union {Absent}]
    /\ made \in [Nodes -> Nat]
    /\ pc \in [Nodes -> {"down", "create", "write", "read", "loaded", "serving",
                       "patched", "up"}]
    /\ key \in [Nodes -> Nat \union {Absent}]
    /\ listening \subseteq Nodes
    /\ webTaken \subseteq Nodes
    /\ journal \in [Nodes -> SUBSET ({"ENVOYE", "RECU"} \X Msgs)]
    /\ messages \in [Nodes -> Seq(Msgs)]
    /\ ui \in [Nodes -> SUBSET Msgs]
    /\ from \in [Msgs -> Nodes \union {NoNode}]
    /\ to \in [Msgs -> Nodes \union {NoNode}]
    /\ sender \in [Msgs -> Nat \union {Absent}]
    /\ at \in [Msgs -> Nodes \union {NoNode}]
    /\ first \in [Msgs -> Nat]
    /\ whole \in [Msgs -> BOOLEAN]
    /\ out \in [Msgs -> {"unused", "sent", "returned", "failed", "routing",
                         "routed", "dead"}]
    /\ tried \in [Msgs -> SUBSET Nodes]
    /\ in \in [Msgs -> {"none", "waiting", "plain", "patched", "handled", "ended"}]
    /\ crashes \in Nat
    /\ \A n \in Nodes : pc[n] \in {"loaded", "serving", "patched", "up"} =>
          HasIdentity(n) /\ key[n] = identity[n]
    /\ \A n \in Nodes : pc[n] = "up" => n \notin webTaken
    /\ \A m \in Msgs : in[m] \notin {"none", "ended"} => at[m] \in listening
    /\ \A m \in Msgs : out[m] # "unused" => from[m] \in Nodes /\ to[m] \in Nodes

(* A complete identity stays for ever: no crash, and no later start, makes *)
(* a node someone else.                                                    *)
IdentityKept ==
    [][\A n \in Nodes : HasIdentity(n) => identity'[n] = identity[n]]_vars

(* What a node has received carries the identity its sender still has on   *)
(* disk, however often that node has crashed: a key is not used before it  *)
(* is kept.                                                                *)
SenderIsIdentity ==
    \A n \in Nodes, m \in Msgs :
        <<"RECU", m>> \in journal[n] =>
            HasIdentity(from[m]) /\ sender[m] = identity[from[m]]

(* A message on the page, sent or received, is in the journal file, so a   *)
(* crash never takes the only trace of what the user has seen.             *)
ShownIsJournaled ==
    \A n \in Nodes : \A m \in ui[n] :
        <<"ENVOYE", m>> \in journal[n] \/ <<"RECU", m>> \in journal[n]

(* A message whose sending is reported as failed has not been received,    *)
(* even when part of it has arrived: the user may send it again.           *)
FailedIsUnreceived ==
    \A m \in Msgs : out[m] = "failed" =>
        \A n \in Nodes : <<"RECU", m>> \notin journal[n]

Logged(n, way) == {m \in Msgs : <<way, m>> \in journal[n]}

Mb == INSTANCE Mailbox WITH
        failed <- {m \in Msgs : out[m] = "failed"},
        sent <- [n \in Nodes |-> Logged(n, "ENVOYE")],
        received <- [n \in Nodes |-> Logged(n, "RECU")],
        shown <- ui

(* The nodes, their threads and their crashes implement the promise of     *)
(* module Mailbox: what is received is received by its addressee alone,    *)
(* never after its author was told that it failed, and nothing on record   *)
(* is ever lost.                                                           *)
ImplementsMailbox == Mb!Spec

(* A message that route_message reports as sent is received by nobody,     *)
(* whatever the peers, the sizes and the crashes: every thread that reads  *)
(* its frame drops it.                                                     *)
RoutedIsDropped ==
    \A m \in Msgs : out[m] = "routed" =>
        \A n \in Nodes : <<"RECU", m>> \notin journal[n]

(* A node that has crashed while it wrote its first identity never starts  *)
(* again: it reads what is there, fails, and leaves it as it is.           *)
BrokenForGood ==
    [][\A n \in Nodes :
          identity[n] = Partial /\ pc[n] # "write" =>
              identity'[n] = Partial /\ pc'[n] \in {"down", "read"}]_vars

(* A message sent to a node that has started reaches its page, if it is    *)
(* not larger than a frame may be and no node crashes.                     *)
SentIsShown ==
    [](crashes = 0) =>
        \A m \in Msgs, n \in Nodes :
            in[m] = "waiting" /\ at[m] = n /\ Readable(m) /\ pc[n] = "up"
                ~> m \in ui[n]

(* A node that has its identity starts again after every crash, even when  *)
(* another program has its message port, unless others take its web port   *)
(* again and again or for ever: that one ends every start.                 *)
ComesBack ==
    \A n \in Nodes :
        <>[](n \notin webTaken) => (HasIdentity(n) ~> pc[n] = "up")

-----------------------------------------------------------------------------
(* What the code's texts say and the code does not do.                     *)

(* "Gere les paquets normaux (ARCH) ET les paquets relayes (RLAY)"         *)
(* (messaging.py): a message that route_message reports as sent is         *)
(* received by its destination, if that one is up and no node crashes.     *)
RoutedIsReceived ==
    [](crashes = 0) =>
        \A m \in Msgs, n \in Nodes :
            out[m] = "routed" /\ to[m] = n /\ pc[n] = "up"
                ~> <<"RECU", m>> \in journal[n]
=============================================================================
