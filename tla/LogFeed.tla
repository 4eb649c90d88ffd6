------------------------------- MODULE LogFeed -------------------------------
(***************************************************************************)
(* The system log of the web interface (src/cli/main_web.py): threads add  *)
(* entries to a list of bounded length, and the page polls it for what it  *)
(* does not have yet.  The page counts the entries it has logged and the   *)
(* server takes that count for an index of its list, which is the same as  *)
(* long as no entry is logged twice and none has left the list.  The page  *)
(* displays the newest lines only, fewer than the list may hold, and lines *)
(* of its own push entries out of the box as well.                         *)
(*                                                                         *)
(* pollLogs runs every 1.2 s whether or not its last request has been      *)
(* answered, and the server handles one request at a time, so requests     *)
(* overlap during a scan.  A slot is one request of the page.              *)
(*                                                                         *)
(* Entries are numbered over the life of the page, so that an entry of a   *)
(* restarted node is not one of those before.                              *)
(***************************************************************************)
EXTENDS Integers, Sequences, FiniteSets

CONSTANTS
    LogCap,       \* 300
    PageCap,      \* 200
    Slots,        \* bound: requests of the page at the same time
    MaxLogs,      \* bound: entries
    MaxReloads,   \* bound: reloads of the page
    MaxRestarts   \* bound: restarts of the node

ASSUME LogFeedAssumption ==
    /\ LogCap \in Nat \ {0} /\ PageCap \in Nat \ {0} /\ MaxLogs \in Nat
    /\ MaxReloads \in Nat /\ MaxRestarts \in Nat

VARIABLES
    systemLog,  \* system_log, the numbers of its entries
    total,      \* entries so far
    logN,       \* the page's count
    logged,     \* entries the page has logged since it was loaded
    shown,      \* the lines of its box: entries, and 0 for a line of its own
    phase,      \* of each request
    since,      \* the since of each request
    logs,       \* the answer to each request
    overlapped, \* has the page had two requests at the same time?
    reloads, restarts

serverVars == <<systemLog, total>>
pageVars   == <<logN, logged, shown, overlapped>>
pollVars   == <<phase, since, logs>>
faultVars  == <<reloads, restarts>>
vars == <<serverVars, pageVars, pollVars, faultVars>>

Init ==
    /\ systemLog = <<>>
    /\ total = 0
    /\ logN = 0
    /\ logged = <<>>
    /\ shown = <<>>
    /\ phase = [i \in Slots |-> "idle"]
    /\ since = [i \in Slots |-> 0]
    /\ logs = [i \in Slots |-> <<>>]
    /\ overlapped = FALSE
    /\ reloads = 0
    /\ restarts = 0

-----------------------------------------------------------------------------
(* The server.                                                             *)

\* Mutant: one entry more is kept.
TrimmedLate(s) == IF Len(s) > LogCap + 1 THEN Tail(s) ELSE s

\* "if len(system_log) > 300: system_log.pop(0)"
Trimmed(s) == IF Len(s) > LogCap THEN Tail(s) ELSE s

\* syslog, under its lock.
Syslog ==
    /\ total < MaxLogs
    /\ total' = total + 1
    /\ systemLog' = Trimmed(Append(systemLog, total + 1))
    /\ UNCHANGED <<pageVars, pollVars, faultVars>>

\* Mutant: the slice starts one entry late.
SliceLate(n) == SubSeq(systemLog, n + 2, Len(systemLog))

\* Mutant: the slice starts one entry early.
SliceEarly(n) == SubSeq(systemLog, IF n = 0 THEN 1 ELSE n, Len(systemLog))

\* system_log[since:]
Slice(n) == SubSeq(systemLog, n + 1, Len(systemLog))

\* GET /api/logs?since=
ServeLogs(i) ==
    /\ phase[i] = "asked"
    /\ phase' = [phase EXCEPT ![i] = "answered"]
    /\ logs' = [logs EXCEPT ![i] = Slice(since[i])]
    /\ UNCHANGED <<since, serverVars, pageVars, faultVars>>

-----------------------------------------------------------------------------
(* The page.                                                               *)

Pending == {i \in Slots : phase[i] # "idle"}

\* pollLogs, up to its await.
PollLogs(i) ==
    /\ phase[i] = "idle"
    /\ phase' = [phase EXCEPT ![i] = "asked"]
    /\ since' = [since EXCEPT ![i] = logN]
    /\ overlapped' = (overlapped \/ Pending # {})
    /\ UNCHANGED <<logs, logN, logged, shown, serverVars, faultVars>>

Free(i) ==
    /\ phase' = [phase EXCEPT ![i] = "idle"]
    /\ since' = [since EXCEPT ![i] = 0]
    /\ logs' = [logs EXCEPT ![i] = <<>>]

\* Mutant: the newest lines are removed.
LogOldest(lines) ==
    LET box == shown \o lines
    IN  IF Len(box) > PageCap THEN SubSeq(box, 1, PageCap) ELSE box

\* log, for each of some lines: append, then remove from the top what is more
\* than the box may hold.
Log(lines) == LET box == shown \o lines
                  over == Len(box) - PageCap
              IN  IF over > 0 THEN SubSeq(box, over + 1, Len(box)) ELSE box

\* init, doScan, pick and sendFile log a line of the page itself.
LogOwn ==
    /\ shown' = Log(<<0>>)
    /\ UNCHANGED <<logN, logged, overlapped, serverVars, pollVars, faultVars>>

\* Mutant: the count is increased once for each answer.
HandleLogsOnce(i) ==
    /\ phase[i] = "answered"
    /\ logged' = logged \o logs[i]
    /\ shown' = Log(logs[i])
    /\ logN' = IF logs[i] = <<>> THEN logN ELSE logN + 1
    /\ Free(i)
    /\ UNCHANGED <<overlapped, serverVars, faultVars>>

\* pollLogs, after its await: "log(l.msg,l.level);logN++".
HandleLogs(i) ==
    /\ phase[i] = "answered"
    /\ logged' = logged \o logs[i]
    /\ shown' = Log(logs[i])
    /\ logN' = logN + Len(logs[i])
    /\ Free(i)
    /\ UNCHANGED <<overlapped, serverVars, faultVars>>

\* fetch or json() fails: api returns null.
LoseLogs(i) ==
    /\ phase[i] # "idle"
    /\ Free(i)
    /\ UNCHANGED <<serverVars, pageVars, faultVars>>

-----------------------------------------------------------------------------
\* The user reloads the page: what it asked for goes nowhere.
Reload ==
    /\ reloads < MaxReloads
    /\ reloads' = reloads + 1
    /\ logN' = 0
    /\ logged' = <<>>
    /\ shown' = <<>>
    /\ overlapped' = FALSE
    /\ phase' = [i \in Slots |-> "idle"]
    /\ since' = [i \in Slots |-> 0]
    /\ logs' = [i \in Slots |-> <<>>]
    /\ UNCHANGED <<serverVars, restarts>>

\* The node stops and starts again with an empty list; the page stays open
\* with its count, and its unanswered requests fail.
Restart ==
    /\ restarts < MaxRestarts
    /\ restarts' = restarts + 1
    /\ systemLog' = <<>>
    /\ phase' = [i \in Slots |-> IF phase[i] = "asked" THEN "idle" ELSE phase[i]]
    /\ since' = [i \in Slots |-> IF phase[i] = "asked" THEN 0 ELSE since[i]]
    /\ UNCHANGED <<total, pageVars, logs, reloads>>

Next ==
    \/ Syslog
    \/ \E i \in Slots :
          PollLogs(i) \/ ServeLogs(i) \/ HandleLogs(i) \/ LoseLogs(i)
    \/ LogOwn \/ Reload \/ Restart

Spec == Init /\ [][Next]_vars

(* The page polls for ever, the server answers, an answer is handled or    *)
(* lost, and not all are lost.                                             *)
Fairness ==
    \A i \in Slots :
        /\ WF_vars(PollLogs(i))
        /\ WF_vars(ServeLogs(i) \/ LoseLogs(i))
        /\ SF_vars(ServeLogs(i))
        /\ SF_vars(HandleLogs(i))

FairSpec == Spec /\ Fairness

-----------------------------------------------------------------------------
(* Every variable keeps its type, the list and the box their bounds, and   *)
(* the page's count is that of the entries it has logged.                  *)
TypeOK ==
    /\ systemLog \in Seq(Nat \ {0}) /\ Len(systemLog) <= LogCap
    /\ total \in Nat
    /\ logN \in Nat
    /\ logged \in Seq(Nat \ {0}) /\ logN = Len(logged)
    /\ shown \in Seq(Nat) /\ Len(shown) <= PageCap
    /\ phase \in [Slots -> {"idle", "asked", "answered"}]
    /\ since \in [Slots -> Nat]
    /\ logs \in [Slots -> Seq(Nat \ {0})]
    /\ overlapped \in BOOLEAN
    /\ reloads \in Nat /\ restarts \in Nat

\* Entries that are no longer in the list.
Gone == total - Len(systemLog)

\* Entries the page has logged, whether or not they are still in its box.
Logged == {logged[i] : i \in DOMAIN logged}

Skipped == {e \in 1 .. total : e \notin Logged /\ \E d \in Logged : e < d}

Duplicates == Len(logged) - Cardinality(Logged)

(* The page skips no entry without a reason: for each one that is missing  *)
(* between two that it has logged, one has left the list or one has been   *)
(* logged twice, by requests that overlap.                                 *)
SkipsExplained == Cardinality(Skipped) <= Gone + Duplicates

(* A page whose requests never overlap logs each entry at most once and in *)
(* order, even when the list is trimmed under way or starts again.         *)
OnceInOrder ==
    ~overlapped =>
        \A i, j \in DOMAIN logged : i < j => logged[i] < logged[j]

(* A page whose requests never overlap stops at LogCap entries until it is *)
(* loaded again, however many there are to come and however often the node *)
(* is restarted: its count is never an index of the list again.            *)
StopsAtCap == ~overlapped => logN <= LogCap

\* Nothing but newer lines, as many as the box may hold, hides entry e.
PushedOut(e) == Len(shown) = PageCap /\ \A k \in DOMAIN shown : shown[k] = 0 \/ shown[k] > e

InBox(e) == \E k \in DOMAIN shown : shown[k] = e

\* No entry has left the list, and a count is an index.
Undisturbed == total <= LogCap /\ restarts = 0 /\ ~overlapped

(* As long as the list is not full, the node not restarted and requests do *)
(* not overlap, the page has logged exactly the first logN entries, each   *)
(* in its place, and each is in the box unless newer lines fill it.        *)
LoggedFromFirst ==
    Undisturbed =>
        /\ \A k \in DOMAIN logged : logged[k] = k
        /\ \A e \in 1 .. logN : InBox(e) \/ PushedOut(e)

(* As long as the list is not full, the node not restarted and requests do *)
(* not overlap, every entry is displayed, or is logged when newer lines    *)
(* already fill the box.                                                   *)
EveryEntryShown ==
    []Undisturbed =>
        \A e \in 1 .. MaxLogs :
            e <= total ~> e \in Logged /\ (InBox(e) \/ PushedOut(e))
=============================================================================
