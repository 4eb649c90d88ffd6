----------------------------- MODULE Discovery ------------------------------
(***************************************************************************)
(* The peer table of one node and what fills and empties it                *)
(* (src/network/discovery.py, do_scan and thread_scan of src/cli): the     *)
(* HELLO datagrams of the other nodes, the scans of the network            *)
(* (src/network/scanner.py), and the clean-up of the peers that have not   *)
(* been seen for PEER_TIMEOUT.                                             *)
(*                                                                         *)
(* Time is discrete.  A periodic thread sleeps at least its interval and   *)
(* wakes up at most Jitter later; a datagram arrives within the same unit  *)
(* or is lost.  Every operation on the table holds its lock, so it is one  *)
(* step.  A peer found by a scan and by HELLO has two keys: `manual' and   *)
(* `hello'.  A scan joins its probe threads with a timeout, so a probe may *)
(* add to the list while it is being gone through; one that is later still *)
(* has no effect and is no step.                                           *)
(***************************************************************************)
EXTENDS Integers, FiniteSets

CONSTANTS
    Peers,
    Scans,            \* threads that scan
    HelloInterval,    \* HELLO_INTERVAL
    RetryInterval,    \* the sleep after a failed send
    PeerTimeout,      \* PEER_TIMEOUT
    CleanupInterval,  \* the sleep of _cleanup
    Jitter,           \* bound: lateness of a wake-up
    MaxLost           \* bound: up to here HELLOs lost in a row are counted

ASSUME DiscoveryAssumption ==
    /\ HelloInterval \in Nat \ {0} /\ CleanupInterval \in Nat \ {0}
    /\ RetryInterval \in 1 .. HelloInterval
    /\ PeerTimeout \in Nat /\ Jitter \in Nat /\ MaxLost \in Nat
    /\ (MaxLost + 1) * (HelloInterval + Jitter) > PeerTimeout

VARIABLES
    table,     \* the entries of peer_table: <<peer, key>>
    age,       \* time since last_seen of each entry of the table
    up,        \* peers that run
    found,     \* what each scan has found and not entered yet
    sinceHello,  \* time since each peer's _hello_sender fell asleep
    sinceClean,  \* time since _cleanup fell asleep
    lost       \* HELLOs of each peer lost since the last one received;
               \* NeverHeard before the first one after its start

vars == <<table, age, up, found, sinceHello, sinceClean, lost>>

Keys       == {"hello", "manual"}
Entries    == Peers \X Keys
NeverHeard == -1

\* A node that starts sends its first HELLO at once.
Init ==
    /\ table = {}
    /\ age = [e \in Entries |-> 0]
    /\ up = {}
    /\ found = [s \in Scans |-> {}]
    /\ sinceHello = [p \in Peers |-> 0]
    /\ sinceClean = 0
    /\ lost = [p \in Peers |-> NeverHeard]

-----------------------------------------------------------------------------
(* The table.                                                              *)

\* Mutant: only a new peer gets a last_seen.
UpsertNewOnly(e) ==
    /\ table' = table \union {e}
    /\ age' = IF e \in table THEN age ELSE [age EXCEPT ![e] = 0]

\* Mutant: only a known peer is entered.
UpsertKnownOnly(e) ==
    /\ table' = table
    /\ age' = [age EXCEPT ![e] = 0]

\* upsert
Upsert(e) ==
    /\ table' = table \union {e}
    /\ age' = [age EXCEPT ![e] = 0]

Dead == {e \in table : age[e] > PeerTimeout}

\* Mutant: one dead peer is removed at a time.
RemoveOneDeadPeer ==
    \/ Dead = {} /\ UNCHANGED <<table, age>>
    \/ \E e \in Dead :
          /\ table' = table \ {e}
          /\ age' = [age EXCEPT ![e] = 0]

\* Mutant: an entry made by hand gets another period instead.
RemoveDeadHellos ==
    /\ table' = {e \in table : e \notin Dead \/ e[2] = "manual"}
    /\ age' = [e \in Entries |-> IF e \in Dead THEN 0 ELSE age[e]]

\* remove_dead_peers
RemoveDeadPeers ==
    /\ table' = table \ Dead
    /\ age' = [e \in Entries |-> IF e \in Dead THEN 0 ELSE age[e]]

-----------------------------------------------------------------------------
(* The threads.                                                            *)

HelloDue(p) == p \in up /\ sinceHello[p] >= HelloInterval

\* A peer's HELLO arrives: _hello_listener enters the peer.
Hello(p) ==
    /\ HelloDue(p)
    /\ Upsert(<<p, "hello">>)
    /\ lost' = [lost EXCEPT ![p] = 0]
    /\ sinceHello' = [sinceHello EXCEPT ![p] = 0]
    /\ UNCHANGED <<up, found, sinceClean>>

\* Counted up to MaxLost.
MissedOne(p) ==
    lost' = [lost EXCEPT ![p] = IF @ \in {NeverHeard, MaxLost} THEN @ ELSE @ + 1]

\* A peer's HELLO is lost on the way.
HelloLost(p) ==
    /\ HelloDue(p)
    /\ MissedOne(p)
    /\ sinceHello' = [sinceHello EXCEPT ![p] = 0]
    /\ UNCHANGED <<table, age, up, found, sinceClean>>

\* Mutant: the two sleeps are swapped.
HelloFailsSwapped(p) ==
    /\ HelloDue(p)
    /\ MissedOne(p)
    /\ sinceHello' = [sinceHello EXCEPT ![p] = RetryInterval - HelloInterval]
    /\ UNCHANGED <<table, age, up, found, sinceClean>>

\* The send raises an exception: it is tried again after a shorter sleep.
HelloFails(p) ==
    /\ HelloDue(p)
    /\ MissedOne(p)
    /\ sinceHello' = [sinceHello EXCEPT ![p] = HelloInterval - RetryInterval]
    /\ UNCHANGED <<table, age, up, found, sinceClean>>

\* check_host of a scan connects to a peer.
Probe(s, p) ==
    /\ p \in up
    /\ found' = [found EXCEPT ![s] = @ \union {p}]
    /\ UNCHANGED <<table, age, up, sinceHello, sinceClean, lost>>

\* add_peer_manually for a peer a scan has found; it may have stopped.
AddFound(s, p) ==
    /\ p \in found[s]
    /\ Upsert(<<p, "manual">>)
    /\ found' = [found EXCEPT ![s] = @ \ {p}]
    /\ UNCHANGED <<up, sinceHello, sinceClean, lost>>

Cleanup ==
    /\ sinceClean >= CleanupInterval
    /\ RemoveDeadPeers
    /\ sinceClean' = 0
    /\ UNCHANGED <<up, found, sinceHello, lost>>

Start(p) ==
    /\ p \notin up
    /\ up' = up \union {p}
    /\ sinceHello' = [sinceHello EXCEPT ![p] = HelloInterval]
    /\ UNCHANGED <<table, age, found, sinceClean, lost>>

\* Nothing is sent when a node stops.
Stop(p) ==
    /\ p \in up
    /\ up' = up \ {p}
    /\ sinceHello' = [sinceHello EXCEPT ![p] = 0]
    /\ lost' = [lost EXCEPT ![p] = NeverHeard]
    /\ UNCHANGED <<table, age, found, sinceClean>>

\* Time passes as long as no thread sleeps longer than it may.
Tick ==
    /\ \A p \in up : sinceHello[p] < HelloInterval + Jitter
    /\ sinceClean < CleanupInterval + Jitter
    /\ age' = [e \in Entries |-> IF e \in table THEN age[e] + 1 ELSE 0]
    /\ sinceHello' = [p \in Peers |->
                         IF p \in up THEN sinceHello[p] + 1 ELSE 0]
    /\ sinceClean' = sinceClean + 1
    /\ UNCHANGED <<table, up, found, lost>>

Next ==
    \/ \E p \in Peers : Hello(p) \/ HelloLost(p) \/ HelloFails(p)
    \/ \E s \in Scans, p \in Peers : Probe(s, p) \/ AddFound(s, p)
    \/ \E p \in Peers : Start(p) \/ Stop(p)
    \/ Cleanup
    \/ Tick

Spec == Init /\ [][Next]_vars

(* Time passes, the threads wake up, a scan enters what it has found, and  *)
(* the network does not lose every HELLO of a peer that keeps running.     *)
Fairness ==
    /\ WF_vars(Tick)
    /\ WF_vars(Cleanup)
    /\ \A s \in Scans, p \in Peers : WF_vars(AddFound(s, p))
    /\ \A p \in Peers : SF_vars(Hello(p))

FairSpec == Spec /\ Fairness

-----------------------------------------------------------------------------
(* Every variable keeps its type, and no timer runs past its deadline.     *)
TypeOK ==
    /\ table \subseteq Entries
    /\ age \in [Entries -> Nat]
    /\ up \subseteq Peers
    /\ found \in [Scans -> SUBSET Peers]
    /\ sinceHello \in [Peers -> 0 .. HelloInterval + Jitter]
    /\ sinceClean \in 0 .. CleanupInterval + Jitter
    /\ lost \in [Peers -> NeverHeard .. MaxLost]

\* The longest time from one HELLO of a peer to the next.
Period == HelloInterval + Jitter

(* A peer that runs and has been heard is in the table as long as not too  *)
(* many of its HELLOs are lost in a row: with 30 s, 90 s and some lateness *)
(* that is one, not the two that 90 = 3 * 30 suggests.                     *)
LivePeerKept ==
    \A p \in up :
        lost[p] # NeverHeard /\ (lost[p] + 1) * Period <= PeerTimeout
            => <<p, "hello">> \in table

(* Nobody is shown longer than PEER_TIMEOUT and one round of the clean-up  *)
(* after he was last seen, by HELLO or by a scan.                          *)
DeadPeerGone ==
    \A e \in table : age[e] <= PeerTimeout + CleanupInterval + Jitter

(* A peer that has stopped for good leaves the table for good, with both   *)
(* its keys, although scans that found it before enter it afterwards.      *)
StoppedPeerForgotten ==
    \A p \in Peers :
        <>[](p \notin up) => <>[](\A k \in Keys : <<p, k>> \notin table)

(* A peer that keeps running comes back to the table, however often the    *)
(* losses have removed it.                                                 *)
RunningPeerFound ==
    \A p \in Peers : <>[](p \in up) => []<>(<<p, "hello">> \in table)

=============================================================================
