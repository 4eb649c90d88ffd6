------------------------------- MODULE Sharing -------------------------------
(***************************************************************************)
(* What the exchange of files promises to the users of the nodes, whatever *)
(* the handlers, the swarms and their workers do.  A node offers only what *)
(* it shares; a piece of a file comes only from another node that has      *)
(* offered it and still shared it when it sent the piece; only a file      *)
(* received whole since the node has started touches the downloads         *)
(* directory, and only the path of its name; and a file is announced only  *)
(* after it was read back whole from there.  That it stays there is not    *)
(* promised.  Module Transfer (src/transfer/file_transfer.py, torrent.py)  *)
(* implements this specification.                                          *)
(***************************************************************************)
CONSTANTS Nodes, Files, NoFile, Name(_), Chunks

VARIABLES
    shared,  \* files that each node shares
    offers,  \* <<n, m, f>>: n has offered the file f to m
    coming,  \* chunks of each file that are on their way to each node
    got,     \* chunks that each node has received of each file
    disk,    \* what each node has under each name, at the place of each chunk
    checked, \* files each node has just read back whole
    saved    \* files that each node has announced as saved

vars == <<shared, offers, coming, got, disk, checked, saved>>

Nothing == [c \in Chunks |-> NoFile]

Init ==
    /\ shared = [n \in Nodes |-> {}]
    /\ offers = {}
    /\ coming = [n \in Nodes |-> [f \in Files |-> {}]]
    /\ got = [n \in Nodes |-> [f \in Files |-> {}]]
    /\ disk = [n \in Nodes |-> [x \in {Name(f) : f \in Files} |-> Nothing]]
    /\ checked = [n \in Nodes |-> {}]
    /\ saved = [n \in Nodes |-> {}]

Share(n, f) ==
    /\ shared' = [shared EXCEPT ![n] = @ \union {f}]
    /\ UNCHANGED <<offers, coming, got, disk, checked, saved>>

Offer(n, m, f) ==
    /\ f \in shared[n]
    /\ offers' = offers \union {<<n, m, f>>}
    /\ UNCHANGED <<shared, coming, got, disk, checked, saved>>

Supply(m, n, f, c) ==
    /\ m # n /\ <<m, n, f>> \in offers /\ f \in shared[m]
    /\ coming' = [coming EXCEPT ![n][f] = @ \union {c}]
    /\ UNCHANGED <<shared, offers, got, disk, checked, saved>>

\* The same chunk may be on its way twice.
Arrives(n, f, c) ==
    /\ c \in coming[n][f]
    /\ coming' \in {coming, [coming EXCEPT ![n][f] = @ \ {c}]}
    /\ UNCHANGED <<shared, offers, disk, checked, saved>>

Receive(n, f, c) ==
    /\ Arrives(n, f, c)
    /\ got' = [got EXCEPT ![n][f] = @ \union {c}]

Refuse(n, f, c) ==
    /\ Arrives(n, f, c)
    /\ UNCHANGED got

Truncate(n, f) ==
    /\ got[n][f] = Chunks
    /\ disk' = [disk EXCEPT ![n][Name(f)] = Nothing]
    /\ UNCHANGED <<shared, offers, coming, got, checked, saved>>

Write(n, f, c) ==
    /\ got[n][f] = Chunks
    /\ disk' = [disk EXCEPT ![n][Name(f)][c] = f]
    /\ UNCHANGED <<shared, offers, coming, got, checked, saved>>

Check(n, f) ==
    /\ disk[n][Name(f)] = [c \in Chunks |-> f]
    /\ checked' = [checked EXCEPT ![n] = @ \union {f}]
    /\ UNCHANGED <<shared, offers, coming, got, disk, saved>>

\* Two threads may announce the same file.
Save(n, f) ==
    /\ f \in checked[n]
    /\ saved' = [saved EXCEPT ![n] = @ \union {f}]
    /\ checked' \in {checked, [checked EXCEPT ![n] = @ \ {f}]}
    /\ UNCHANGED <<shared, offers, coming, got, disk>>

Restart(n) ==
    /\ shared' = [shared EXCEPT ![n] = {}]
    /\ coming' = [coming EXCEPT ![n] = [f \in Files |-> {}]]
    /\ got' = [got EXCEPT ![n] = [f \in Files |-> {}]]
    /\ checked' = [checked EXCEPT ![n] = {}]
    /\ UNCHANGED <<offers, disk, saved>>

Next ==
    \/ \E n, m \in Nodes, f \in Files :
          \/ Share(n, f) \/ Offer(n, m, f)
          \/ Truncate(n, f) \/ Check(n, f) \/ Save(n, f)
          \/ \E c \in Chunks :
                \/ Supply(m, n, f, c) \/ Receive(n, f, c) \/ Refuse(n, f, c)
                \/ Write(n, f, c)
    \/ \E n \in Nodes : Restart(n)

Spec == Init /\ [][Next]_vars
=============================================================================
