------------------------------- MODULE Mailbox -------------------------------
(***************************************************************************)
(* What the exchange of messages promises to the users of the nodes,       *)
(* whatever the threads, the connections and the crashes do.  A message is *)
(* written once; it is received by the node it is addressed to, or it      *)
(* fails, never both; its author keeps a record of what has been sent and  *)
(* its addressee one of what has been received, for ever; the page shows   *)
(* nothing that is not on record, and only a restart clears it.  Module    *)
(* Messaging (src/crypto/messaging.py) implements this specification.      *)
(***************************************************************************)
CONSTANTS Nodes, NoNode, Msgs

VARIABLES
    from, to,  \* author and addressee of each message, NoNode before
    failed,    \* messages whose author has been told that they failed
    sent,      \* messages that each node has on record as sent
    received,  \* messages that each node has on record as received
    shown      \* messages on the page of each node

vars == <<from, to, failed, sent, received, shown>>

Init ==
    /\ from = [m \in Msgs |-> NoNode]
    /\ to = [m \in Msgs |-> NoNode]
    /\ failed = {}
    /\ sent = [n \in Nodes |-> {}]
    /\ received = [n \in Nodes |-> {}]
    /\ shown = [n \in Nodes |-> {}]

\* It may fail at once.
Write(m, n, d) ==
    /\ from[m] = NoNode
    /\ from' = [from EXCEPT ![m] = n]
    /\ to' = [to EXCEPT ![m] = d]
    /\ failed' \in {failed, failed \union {m}}
    /\ UNCHANGED <<sent, received, shown>>

Fail(m) ==
    /\ from[m] # NoNode
    /\ \A n \in Nodes : m \notin sent[n] \union received[n]
    /\ failed' = failed \union {m}
    /\ UNCHANGED <<from, to, sent, received, shown>>

RecordSent(m) ==
    /\ from[m] # NoNode /\ m \notin failed
    /\ sent' = [sent EXCEPT ![from[m]] = @ \union {m}]
    /\ shown' = [shown EXCEPT ![from[m]] = @ \union {m}]
    /\ UNCHANGED <<from, to, failed, received>>

RecordReceived(m) ==
    /\ from[m] # NoNode /\ m \notin failed
    /\ received' = [received EXCEPT ![to[m]] = @ \union {m}]
    /\ UNCHANGED <<from, to, failed, sent, shown>>

Show(m) ==
    /\ from[m] # NoNode /\ m \in received[to[m]]
    /\ shown' = [shown EXCEPT ![to[m]] = @ \union {m}]
    /\ UNCHANGED <<from, to, failed, sent, received>>

Restart(n) ==
    /\ shown' = [shown EXCEPT ![n] = {}]
    /\ UNCHANGED <<from, to, failed, sent, received>>

Next ==
    \/ \E m \in Msgs, n, d \in Nodes : Write(m, n, d)
    \/ \E m \in Msgs : Fail(m) \/ RecordSent(m) \/ RecordReceived(m) \/ Show(m)
    \/ \E n \in Nodes : Restart(n)

Spec == Init /\ [][Next]_vars
=============================================================================
