# Archipel: TLA+ models and proofs

Archipel (`src/`) is a peer-to-peer node in Python: every node finds the others
on the local network by multicast and by scanning, sends them encrypted
messages directly or through a relay, and transfers files chunk by chunk. There
is no server; each node is a set of daemon threads that share dictionaries,
lists and a queue, a few of them under a lock. This directory models those
threads in TLA+, checks them with TLC on small instances, and proves the most
important facts for every size with TLAPS.

    tlc -config MCSwarm.cfg MCSwarm      # a run
    tlapm SwarmProofs.tla                # the proofs

## 1. Inventory

### Components, their state and their operations

| Component | Source | State | Operations |
|---|---|---|---|
| SwarmManager, one per file that is downloaded | `transfer/torrent.py` | chunk states and data (one lock), FIFO work queue, list of sources (another lock), `completed` (no lock), the output file | 3 workers: take a chunk, pick a source, request, store or put back, finalize; `add_peer_source` |
| FileTransferService | `transfer/file_transfer.py` | `local_files`, `swarms`, both without a lock; the downloads directory | `seed_file`, `_handle_manifest_received`, `_handle_chunk_req`, `request_chunk_sync`, `_on_download_complete` |
| PeerTable, DiscoveryService | `network/discovery.py` | `peers` with `last_seen` (lock) | `upsert`, `remove_dead_peers`; threads `_hello_sender`, `_hello_listener`, `_cleanup`; `add_peer_manually` after a scan |
| Web interface: chat | `cli/main_web.py` | `messages_log` (no lock), the page's `sel`, `msgN` and display | `add_message`, `/api/messages`, `pollMsgs`, `pick` |
| Web interface: log, progress | `cli/main_web.py` | `system_log` (lock), the page's `logN` and its box of lines | `syslog`, `/api/logs`, `pollLogs`, `log` |
| Web interface: upload | `cli/main_web.py` | `tmp_uploads/<name>`, one file for all uploads of a name | `_upload`, `send_file_bg` in a thread of its own |
| MessagingService | `crypto/messaging.py` | `messages`, a log file | `send_message`, `_handle_connection` (framing and dispatch), `_handle_message` |
| RelayService, RoutingTable | `network/router.py` | `_seen` packet ids (lock) | `route_message`, `handle_relay_packet`, `_forward_message`, `_deliver_message` |
| Chunker | `transfer/chunker.py` | none | `create_manifest`, `get_chunk_data`, signature |
| Scanner | `network/scanner.py` | the list `found` of one scan (lock on the append, none on the reader) | `scan_network` in batches of 150 threads |
| Identity | `crypto/identity.py` | the key file | `load_identity`, `generate_identity` |
| Session keys, packets | `crypto/handshake.py`, `crypto/packet.py` | none that matters: every session key is the same constant | `build_packet`, `parse_packet` |
| Command line | `cli/main.py` | one user's menu | starts scans, seeds, messages |

### How they interact

* `seed_file` records the file and sends a MANIFEST over TCP to every entry of
  the PeerTable. The receiving node handles it in a thread of its own, creates a
  SwarmManager or adds a source to the one that exists.
* The workers of a swarm call `request_chunk_sync` of the service: one TCP
  connection carries the CHUNK_REQ and its answer, and the answer is given to the
  swarm that is registered *at that moment*.
* Discovery and the scanner write the PeerTable; seeding, relaying and the two
  interfaces read copies of it.
* An uploaded file is written by the one thread of the HTTP server, then cut into chunks
  by a seeder thread and read again for every chunk request.
* A node starts its message server before it patches `_handle_message` for the page.
* A received message goes from the thread of its connection to the messaging
  journal and, in the web interface, to `messages_log`; the browser polls.

### What is hard, and what correctness means

* Several workers per swarm with two locks and several unlocked fields: chunk
  states are overwritten by late failures, `_finalize` is entered by two threads.
  Correct: no chunk is stranded, the bytes are complete before the file is
  written, the file is whole in the end, the download terminates, the workers end.
* Check-then-act on `swarms` by concurrent handler threads, and answers that
  reach another swarm than the one that asked. Correct: no chunk of a download
  disappears, a completed swarm has all its bytes, the file arrives anyway.
* Seeders that stop, restart and change their files; manifests lost or repeated;
  a node in its own peer table.
* An output file that is truncated and written under its final name by several workers of
  several swarms, with exceptions and restarts anywhere in between, after `completed` has been
  set. Correct: what is announced was read back whole, and what is missing of it later is being
  written, as long as the disk works, no node restarts and no other file has its name.
* Expiry of peers against lost datagrams and late threads. Correct: a running
  peer stays as long as few HELLOs are lost, a stopped one goes in bounded time.
* An unlocked bounded list and a page that polls it by length. Correct: the list
  stays near its cap, no hole is displayed, a message is displayed eventually.
* A log that the page polls by the count of what it has logged, on a timer that does
  not wait for the previous answer, from a node that trims the list and may restart.
  Correct: nothing is skipped or repeated as long as neither happens, and otherwise no
  more than what has left the list or was repeated. The box displays fewer lines than the list
  may hold, so lines may be pushed out by newer ones in the task that logs them.

* A node that crashes while it starts, while it writes its identity, with a frame or a
  received message in its hands; frames that are cut, too large, or in a format that the
  receiver does not read. Correct: a node never becomes someone else, what the page shows
  is on disk, what is reported as failed has not arrived.
* A file that is uploaded, tested, cut and served in separate steps while another upload of
  its name replaces it. Correct: without such an upload the manifest is that of the file,
  and the last upload can be served.

`PROJECT.json` lists each hazard at its line with the properties about it.

## 2. Modules

| Module | Models | Uses |
|---|---|---|
| `Download` | the promise to the user of one download: chunks are stored and never dropped, completion only with all of them, announcement only after completion | |
| `Swarm` | one SwarmManager: threads, locks, queue, output file | refines `Download` |
| `SwarmProofs` | proofs about `Swarm` | |
| `Sharing` | the promise to the users of all nodes: a node receives a file only from another node that offered it and has it, writes only what it has received whole, and announces only what it has read back whole | |
| `Transfer` | the FileTransferService of all nodes | refines `Sharing` |
| `TransferProofs` | proofs about `Transfer` | |
| `Discovery` | the peer table of one node, with time | |
| `DiscoveryProofs` | proofs about `Discovery` | |
| `MessageFeed` | the chat of the web interface | |
| `MessageFeedProofs` | proofs about `MessageFeed` | |
| `LogFeed` | the system log of the web interface | |
| `LogFeedProofs` | proofs about `LogFeed` | |
| `Mailbox` | the promise to the users of the chat: a message is received by its addressee alone or fails, never both; what is on record stays; the page shows only what is on record | |
| `Messaging` | the start of a node, its identity, and the messages between nodes that crash | refines `Mailbox` |
| `MessagingProofs` | proofs about `Messaging` | |
| `Seeding` | uploads of one name, their manifests, and the chunks that are served | |
| `SeedingProofs` | proofs about `Seeding` | |
| `MC*` | instances for TLC (`Name` of files) | |

### Swarm

The variables are the fields of the object (`state` is `chunks_state`, `data` the
keys of `chunks_data`, `queue` the work queue, `sources`, `completed`), and for
each worker a program point `pc`, its chunk `item`, its source `src` and its
index `pos` in the loop of `_finalize`. One step is what a thread does between two
accesses to shared state, so the lock sections are single steps and what the code
does without a lock is several: `FinalizeCheck` and `FinalizeClaim` are the two
lines `if self.completed: return` and `self.completed = True`. The output file is
the set of chunks that it holds at their place; opening it empties it, each writer
writes at its own offset (Python file objects have their own position).

A source whose chunk fails is picked again (`PickSource` takes the first: every
caller of `add_peer_source` passes all the chunks). Peers leave and
come back, answers fail, time out or have other bytes (`MaxBad`), the disk fails.
`workers_running` is cleared on the line after `completed` is set and nowhere
else, so "workers_running and not completed" is `~completed` for every reader.
The branch "no source" of `_pick_source` is not reached: a source is added before
the workers start and none is removed. In `Swarm` all the answers come from the
swarm's own workers; the case of two swarms is `Transfer`'s.

### Transfer

`localFiles`, `swarms` and `disk` are per node. A MANIFEST is identified by a
number `h`, which also names the thread that handles it and the swarm that this
thread may create; `stage[h]` is where the thread is. `CheckLocal`,
`CheckSwarms`, `Register`, `AddFirstSource` and `StartWorkers` are separate steps
because the code holds no lock.

In the life of a chunk the steps are coarser than in `Swarm`: the queue is a set (what is queued
twice is downloaded once here; its growth is `Swarm`'s), a worker takes a chunk and looks at it
in one step, and the workers that wait for an answer are a number (`SomeoneIsFree`). A request is
two steps: `Serve` is the source's handler, possible while the source has the file in
`localFiles`, and `Answer` or `AnswerBad` is the worker's, for which the source may meanwhile have
restarted; `Fail` is possible until the source has answered. `Answer` gives the chunk to
`Registered(h)`: when two handlers have both created a swarm the workers of the first, the
orphan, work for the second. The orphan then finds its own chunks undone for ever;
`NothingLost` says where they are. `CheckSwarms` reads `swarms` and `AddKnownSource` reads it
again, as the code does.

The end of a swarm is as fine as in `Swarm`: each worker that finds everything done tests
`completed` (`Finalize`), sets it (`Claim`), truncates the file under its final name (`OpenFile`),
writes chunk after chunk at its own offset (`WriteChunk`), reads the file back (`VerifyFile`) and
announces it (`Announce`). `disk` is what each path holds at the place of each chunk, so
two workers of a swarm, two swarms of a file and two files of a name meet there. `DiskError` may
end a worker from `OpenFile` to `VerifyFile`, which leaves `completed` set and the path as it is.
`Restart` empties the dictionaries of a node and ends its threads anywhere; the downloads
directory stays as they have left it, truncated or in part, and a file that was saved may be
downloaded again.

`Sharing` is what of this can be promised: only a file received whole touches the path
of its name, and a file is announced only after it was read back whole. That it stays there is
not promised: a restart or a failing disk during a second download, or a file of the same
name, takes it away. How far it does stay is `SavedIsMended`.

### Discovery

The table of one node: entries are pairs of a peer and the kind of key it was
entered with. Time is a discrete clock: `age` of each entry, `sinceHello` of each
peer, `sinceClean` of the node; a thread that sleeps wakes up at its interval and
at most `Jitter` later (`Tick` is not possible beyond it). A HELLO is received in
the unit it is sent, lost, or its send raises an exception. Table operations hold
the table's lock and are single steps.

A scan is a set `found[s]` that probe threads fill (`Probe`, `check_host`) and that the
thread of the scan enters one by one (`AddFound`). `scan_network` joins its probes with a
timeout and returns the list itself, so a late probe still counts if it appends while the
caller iterates, and a peer may have stopped by the time it is entered; a probe later than
that changes a list nobody reads. `Scans` are the threads that may scan at the same time:
the page's (`do_scan`, whose flag is tested without a lock) or the command line's. What a
probe connects to is port + 1000, the manifest port of `FileTransferService`, so a scan finds
nodes that transfer files.

### MessageFeed

`AppendMessage`, `CheckLength` and `PopOldest` are the three accesses of
`add_message` to the shared list, each atomic by the interpreter lock. The page
polls on a timer without waiting for the previous answer; the HTTP server has one
thread, so answers are in order. `Pick` resets `msgN`; the poll it starts
is a `PollMessages` step like those of the timer, since the server answers it
later. The list is shown as a whole whenever its length differs from `msgN`.

### LogFeed

`Syslog` is `syslog` with its lock, append and trim in one step. A slot is one request of
the page: `PollLogs` reads `logN` and sends it, `ServeLogs` is the handler of `/api/logs`
(the slice is taken under the lock), `HandleLogs` is the rest of `pollLogs` after its await,
which runs to its end in the browser's one thread, and `LoseLogs` is the `null` of `api`.
`Log` is `log`: it appends to the box and removes from the top what is beyond `PageCap` lines, 200
in the code. The box, `shown`, is therefore not what `logN` counts; that is `logged`, a history
variable with every entry that the page has logged since it was loaded. `LogOwn` is a line of
the page itself (`init`, `doScan`, `pick`, `sendFile`), which takes room in the box and is not
counted. The entries are numbered over the life of the page, the node's restarts included, so
that `total - Len(systemLog)` (`Gone`) is how many can no longer be asked for. `Reload` starts
the page anew; `Restart` empties the list and fails the requests that are not answered,
while the page keeps its count. `overlapped` is a history variable.

A page that has logged 300 entries asks beyond the end of the list from then on and
gets nothing, even from a restarted node, until it is loaded again: `StopsAtCap` says so of a page whose
requests do not overlap (one whose requests do may get there earlier).

### Messaging

`pc[n]` is how far node `n` has started: `load_identity` tests the file, reads it, or opens
it for writing (`CreateIdentity`: from then on it exists and is empty, `Partial`) and writes it
(`WriteIdentity`); then the message server starts, whose bind happens in its own thread and may
fail (`StartServer`), and `_handle_message` is patched (`Patch`). The other services start and
`HTTPServer` binds the web port (`StartWeb`), in the main thread: where another program has the
port (`webTaken`) the exception ends the process, at this start and at every other until the port
is left (`ChangeWebPort` is that program). Between `StartServer` and that end the message
server works, so frames are received and recorded by a process that never gets further. A start
that reads a partial file ends with the exception of `json.load`, and so does every later one.
`Crash` is possible between any two steps; like every end of a process (`Stop`) it keeps the
files (`identity`, `journal`).

A message is a number with its sender, its destination, the state `out` of the thread that
sends it and the state `in` of the thread that receives it. `SendMessage` is `send_message` up to
`sendall`: the frame arrives whole, in part with an exception, or not at all. `Frame` keeps what
the receiver can tell apart: the size that the frame starts with, which for a relayed packet is
its magic, and whether it is complete. `HandleConnection` reads it and picks the
`_handle_message` the service has at that moment; the patched one calls the original
(`HandleMessage`) and then shows the message (`ShowReceived`). `RecordSent` is what follows
`sendall` up to the message list of the page. `RouteMessage`, `TryRoute` and `NoRoute` are
`route_message`.

### Seeding

The bytes matter here, so a file is a sequence over a small set with one byte that stands for
`\r` and `\n`. All uploads have the same name. `OpenUpload` strips the body and truncates the
file, `WriteUpload` writes any number of further bytes, `UploadFails` stops half-way,
`StartSeeder` closes the file and starts the thread of `send_file_bg`. The seeder tests the size
(`CheckFile`) and reads one chunk per step (`ReadChunk`), as `create_manifest` does, from whatever
the file holds by then; `ChunkData` is `get_chunk_data`. `disturbed` is a history variable: the
seeders during whose work a later upload opened the file. What such a seeder produces is
unspecified: an empty manifest, or one that mixes both files.

## 3. Runs

| Run | Instance | Properties |
|---|---|---|
| `swarm` | 2 workers, 2 peers, 2 chunks, 1 wrong answer, 2 sources | `TypeOK`, `NoChunkStranded`, `FinalizeHasAll`, `GapHasWriter`, `FinishedWhole`, `QueueGrowth`, `ImplementsDownload`, `DownloadCompletes`, `WorkersStop` |
| `swarm_sources`, `swarm_intact` | small | violated: see below |
| `transfer` | 2 nodes, 1 file of 2 chunks, 2 manifests, 2 workers, 1 fault: a wrong answer, a restart or a disk error | `TypeOK`, `NothingLost`, `CompleteIsWhole`, `SavedIsMended`, `ImplementsSharing`, `ManifestLeadsToFile` |
| `transfer_names` | 2 files of 1 chunk, 2 manifests, 3 workers, no fault | violated |
| `discovery` | 1 peer with its two keys, 2 scans, unit 5 s, jitter 1 | `TypeOK`, `LivePeerKept`, `DeadPeerGone`, `StoppedPeerForgotten`, `RunningPeerFound` |
| `feed` | 3 writers, cap 3, 6 messages, 2 polls on their way | `TypeOK`, `MessagesBounded`, `TrimKeepsNewest`, `ShownBelowCap` |
| `feed_realtime` | 1 writer, cap 2, 3 messages | violated |
| `log` | cap 3, box of 2, 4 entries, 2 requests at the same time, 1 reload, 1 restart | `TypeOK`, `SkipsExplained`, `OnceInOrder`, `StopsAtCap`, `EveryEntryShown` |
| `messaging` | 2 nodes whose web ports others take and leave, 1 message of 1 byte or one byte too large, 3 crashes | `TypeOK`, `SenderIsIdentity`, `ShownIsJournaled`, `IdentityKept`, `ImplementsMailbox`, `SentIsShown`, `ComesBack` |
| `route_dropped` | 3 nodes, 1 message, no crash | violated |
| `seeding` | 2 uploads of up to 4 bytes, chunks of 2, at most 3 bytes | `TypeOK`, `ManifestIsUpload`, `LastIsServed`, `RefusedHasReason` |

**Bounds.** The code starts three workers per swarm; two are enough for every race the code
has, all of them between pairs (two in `_finalize`, a late failure against a success, the last
`task_done` against an empty queue), and the proofs of section 4 cover any number. Two chunks
are enough for a file with a gap and for a worker with a chunk while another is queued. Two
manifests are enough for two concurrent handlers, and for one before and one after a restart;
here too the proofs cover any number. One fault is each of its kinds, alone, at every
moment of the two downloads; combinations of faults are left to the proofs. `MaxBad`,
`MaxRestarts`, `MaxFaults`, `MaxManifests`, `MaxSources`, `MaxMsgs`, `MaxPolls`, `MaxCrashes`, `MaxUploads` bound counters and appear
only in guards. `MaxLost` saturates the count of lost HELLOs where it no longer
matters (an assumption says so). In units of 5 s the intervals of 30, 5, 90 and 30 s
are 6, 1, 18 and 6; peers share nothing but the clock and the clean-up, so one peer with its
two keys (two entries) is enough, and the proofs are for any number. The message list's cap of 500 is 3: the
races are between the length, the cap and the number of threads. The log's cap of 300 is 3 as
well and the box's of 200 is 2, so an answer may be longer than the box; four entries trim the
list, and two requests are enough to overlap (`Slots`). `MaxLogs`
and `MaxReloads` bound counters like the others. Two scans are enough for one that enters a
stopped peer after another has found it. In `Messaging` messages only share the state of
their nodes, so one message is enough, and three crashes let a node crash before and after it
has an identity while the other crashes with a frame; the two sizes are on both sides
of the 10 MiB limit. In `Seeding` bodies of 1 to 4 bytes (`MaxBody`) with `ChunkSize` 2 and
`MaxSize` 3 are files below, at and above the limit, with a short, a full and no last chunk, and
with line breaks at the end or in the middle; the bytes that are not a line break are symmetric,
and two uploads are all pairs of an earlier and a later one.

**Deadlock.** `Swarm` has a terminal step, so a deadlock would be reported.
`Transfer` with all its bounds used up has nothing to do, and its configurations turn
the check off: an idle network is a legal end. So do those of `Messaging` (nodes that have
started and nobody sends) and `Seeding` (no further upload). The other modules always have a clock or a
page that polls.

**Fairness.** Each thread is a daemon thread of the interpreter and is scheduled, so
the steps of a thread are weakly fair. Waits are bounded in the code: 2 s on the
queue, 10 s on the socket of a chunk request, sleeps. Two assumptions are about the
world and are strong fairness: a source that is up in the end does not fail every retry of a
chunk (`ReceiveGood`, `Serve`), and not every HELLO or HTTP answer is lost
(`Hello`, `HandleAnswer`, `ServeLogs`, `HandleLogs`). `Ask` of `Transfer` is strongly fair because the work
queue is FIFO: a chunk that is queued gets to its head, although in the model the set
`todo` has no order. Peers leaving and returning, restarts, disk errors and lost manifests have no
fairness. In `Messaging` a node that has stopped is started again by its user, and its start and
its sending and receiving threads go on; nobody has to send, and nobody has to crash or to stay
up, and no port has to become free: `ComesBack` has as its hypothesis that the web port is left to the node in the end. In `Discovery` a scan enters what it has found. `Seeding` has no liveness property.

### Violated properties: what the code's texts say and the code does not do

* `AnnouncedFileIntact`: two workers enter `_finalize`; the second truncates the file
  after the first has announced it. `FinishedWhole` shows that it is whole again
  when the last has left.
* `AnySourceSuffices`: the first source is used for ever, so the second does not help
  when the first is gone, although the module promises several.
* `SavedIsOnDisk`: a second file of the same name replaces the first. The run has no fault and the
  property looks only when nobody finalizes, so nothing else can take the file away.
* `ReceivedInRealTime`: when the chat list is full, its length is constant, and the
  page, which compares lengths, displays nothing new.
* `RoutedIsReceived`: `_send_relay_packet` sends `RLAY`, a length and JSON; the receiver takes the
  first four bytes for the size, 1380729177, which is beyond its 10 MiB, and closes the
  connection. `route_message` has returned success.

## 4. Proofs

`SwarmProofs` (no assumption but `SwarmAssumption`, any finite number of workers, any
number of peers and chunks):

* `TypeCorrect`: `TypeOK`, inductive with its last conjunct (a worker is responsible
  for a chunk exactly between `get` and `task_done`).
* `NothingStranded`: `NoChunkStranded`. The induction needs lemmas about the queue
  (`PutQueues`, `GetKeeps`): a FIFO `get` keeps every chunk but the one it returns,
  which the worker then holds.
* `NothingMissing`: `FinalizeHasAll` is not inductive alone: a chunk is marked
  "done" only with its data (`DoneStored`), and data is never removed; `ClaimInv` ties
  `completed` to the program points of `_finalize`.
* `GapsGetFilled`, `WholeInTheEnd`: `FileInv` is the invariant about the file: while
  the disk works, any gap has a writer whose index is not beyond it. The truncation by a second
  worker makes it hold with that worker; a writer that gets to the end leaves no gap
  behind it that nobody else is writing.
* `Refinement`: every step is a step of `Download` or leaves its variables
  unchanged, with the invariants above.

* `GrowsByBad`: `QueueGrowth`, from `Budget`, which also counts the workers that have
  received wrong bytes and have one of their two puts still to do.
* `WorkersPersist`: `StoppedIsComplete`, a worker thread ends only when the download is
  complete. The two ways out are the loop's test of `completed` and an exception of the disk,
  and by `ClaimInv` a thread is at the disk only when `completed` is set.

`TransferProofs` (any number of nodes, files, chunks, workers and manifests):

* `TypeCorrect`: `TypeOK`, inductive with its last conjunct: from "known" or "registered" on
  the dictionary holds a swarm, and no step but a restart of the node, which ends its threads, removes it.
* `NoChunkLost`, `WholeWhenComplete`, `NotItsOwnSource`: `NothingLost`, `CompleteIsWhole` and
  `NeverFromItself` are proved together in `IInv`: a registered swarm is that of a manifest
  for this file of this node (`Owned`), a swarm has nothing before its manifest is sent
  (`Fresh`) and its whole queue before its workers start (`Untouched`), a mark comes with
  its bytes (`DoneHasData`), and a manifest of a node to itself stops at `CheckLocal`
  (`SelfStops`). An orphan swarm stays an orphan, so what it gave away stays elsewhere.
* `SavedAreMended`: `SavedIsMended`, not inductive: a file is saved one step after it was read
  back, and in between another worker may truncate it. `Mended` therefore starts at the read
  (`ReadBack`: some worker is at "announce", or the file is saved) and says that the file is whole or some
  worker is a `Mender`, one that is writing and has nothing missing behind it. A truncation makes
  the worker that does it a mender with everything ahead of it, as `Idle` says that it
  starts at 0; every write, a mender's own or another's, leaves a mender or no gap, as
  `Finalizers` (part of `IInv`) says that a worker past `Finalize` has every chunk to write.
* `DownloadCanGoOn`: `RegisteredCanGoOn`. The second invariant, `Sources`, says that a swarm's
  sources have sent its file to its node (`Blank`, `Sourced`), that without restarts they keep
  it (`Kept`), and that a swarm in `swarms` runs or is about to (`RegisteredRuns`). With
  `NothingLost`, an orphan excluded, no chunk of it is stranded. It is the safety half of
  `ManifestLeadsToFile`, for any number of nodes and handlers.
* `SharingImplemented`: every step of the nodes is a step of `Sharing` or changes nothing it
  talks about. The steps of the handlers are stutters; `Serve` is `Supply`, which needs `Sourced` (the
  source has offered the file) and `NeverFromItself`; `Answer` and `AnswerBad` are `Receive` and `Refuse`, whatever
  the source has become since; `OpenFile` and `WriteChunk` are `Truncate` and `Write`, which need
  `Finalizers`; `VerifyFile` is `Check` where it finds the file whole, and `Announce` is `Save`. A
  disk error leaves all of this alone, and a restart is `Restart`.

`DiscoveryProofs` (any number of peers, any intervals with `DiscoveryAssumption`):

* `TypeCorrect`: `TypeOK`; the timers stay within their deadlines by the guards of `Tick`.
* `DeadGone`: `DeadPeerGone`, from `AgeInv`: an entry is at most `PEER_TIMEOUT` plus the
  time since the last clean-up old.
* `LiveKept`: `LivePeerKept`, from `HeardInv`: the entry of a peer that was heard is as old
  as the HELLOs lost since take (`Span`), and the current one.
* `OneLossSurvived`: with the code's 30 s and 90 s and a lateness of at most 15 s, a peer
  survives the loss of one HELLO; two would need `3 * 30 + 3 * Jitter <= 90`, so no lateness at all.

`MessageFeedProofs` (any number of writers up to the cap):

* `TypeCorrect`, `Bounded`, `KeepsNewest`: `TypeOK`, `MessagesBounded` and
  `TrimKeepsNewest` are proved together with `PopInv`, which extends the bound of `TrimKeepsNewest` to
  lists that have a pop decided; it is also why a pop finds a message.
* `NoHole`: `ShownIsRun`, from `RunInv`: the list is always the last messages added, and
  what travels to the page or is displayed is a run.
* `LengthSuffices`: `LengthTells`, why the page may compare lengths until more messages have come than
  the list may hold. By `LengthInv` no pop is decided until then, so the list and everything that was ever sent to
  the page begins with the first message, and such lists are equal when their lengths are.
  `ShownBelowCap` rests on it, and `ReceivedInRealTime` fails where it ends.

`LogFeedProofs` (any cap, any entries, any number of requests at the same time):

* `TypeCorrect`: `TypeOK`, inductive.
* `NoUnexplainedSkip`: `SkipsExplained`. `Numbered` says that the list is the run of entries
  that ends with the newest, `Ahead` that neither the page nor an answer under way is ahead
  of the count by more than `Gone`. So the newest entry logged is at most
  `Len(logged) + Gone`, and the cardinalities give the bound.
* `OnceEach`: `OnceInOrder`, from `Alone`: without overlap there is one request at most, with the
  page's count, and its answer is newer than everything logged.
* `NeverBeyondCap`: `StopsAtCap`; an answer to such a request is as long as what the list had beyond the
  page's count, so the count after it is at most the length the list had.
* `NothingSkipped`: `LoggedFromFirst`, that the page has logged exactly the first `logN` entries,
  each in its place, while the list is not full, the node has not restarted and requests have not overlapped, and that
  each of them is in the box unless newer lines fill it. By `Indexed` a count is then an index
  (`Gone = 0`), and `Alone` says that an answer starts where the page ends.

`MessagingProofs` (any number of nodes, messages and crashes, any sizes):

* `TypeCorrect`, `SenderKnown`, `NothingShownIsLost`, `FailedMayBeRepeated`: proved together in
  `Inv`, since `SenderIsIdentity` and `ShownIsJournaled` are not inductive. `Starting` says which
  file and which key each point of the start has, `Signed` that a message carries the identity its sender
  has on disk from the moment it is made, `Delivered` what a receiving thread that has
  gone past the frame knows of it, and `OnRecord` where a message of the page is journaled.
* `IdentityForEver`: `IdentityKept`. `Starting` shows that the two steps that write the file
  are taken only where there is no complete one.
* `BrokenNeverStarts`: `BrokenForGood`, that a node whose first identity was cut by a crash neither
  starts nor repairs it; the same invariant shows that `CreateIdentity` is never reached there.
* `RoutedNeverReceived`: `RoutedIsDropped`, the general form of the finding of `route_dropped`. It
  needs `Addressed`: what is readable is at its addressee, a routed frame is never readable, and
  a journal names a message only where it was sent or addressed.
* `MailboxImplemented`: every step is a step of `Mailbox` or changes nothing it talks about, with
  `Inv` and `Addressed`. `NoRoute` is `Fail` (a broken connection fails in `Write` already), `HandleMessage` is `RecordReceived`,
  `ShowReceived` is `Show`, and a crash is `Restart`.

`SeedingProofs` (any bytes, chunk and file sizes, any number of uploads of any length):

* `TypeCorrect`, `ManifestExact`, `LastServed`, `RefusedForSize`: proved together in `Inv`.
  `Stripped` relates what was sent to what is written, `Undisturbed` says that the file is the
  upload while its seeder reads it and afterwards until a later one, and `Progress` that the
  chunks so far are the pieces up to the seeder's position. The lemmas `ReadAtIsPiece`,
  `CutGrows` and `CutCompletes` are about the cut: a read returns a piece of the file, one more full
  piece keeps the position a multiple of the chunk size, and a read that returns nothing leaves nothing over.
* `NothingElseLost`: `OnlyBreaksLost`, which has no hypothesis on the last byte: what an undisturbed
  manifest lacks is exactly the line breaks at the end, from `KeptOfBodies`, what `_upload` keeps.

**Only model-checked:** liveness, since the prover has neither fairness nor `ENABLED`
(`DownloadCompletes`, `WorkersStop`, `ManifestLeadsToFile`, `StoppedPeerForgotten`,
`RunningPeerFound`, `ShownBelowCap`, `EveryEntryShown`, `SentIsShown`, `ComesBack`). Every
other property of the passing runs is also proved. What a violated property says is proved where it
has a general form: under the hypothesis that the violating run breaks (`LengthSuffices`), as what
holds instead (`WholeInTheEnd`, `SavedAreMended`), or as what happens in every execution
(`RoutedNeverReceived`).

Some theorems state a property that is in no configuration: `NeverFromItself` and
`FailedIsUnreceived`, which the refinements contain, and `StoppedIsComplete`, `RegisteredCanGoOn`,
`ShownIsRun`, `LengthTells`, `LoggedFromFirst`, `RoutedIsDropped`, `BrokenForGood` and
`OnlyBreaksLost`. Any of them can be added to the `INVARIANTS` or `PROPERTIES` of its component's
configuration; TLC confirms them on the instances of section 3.

## 5. Plan

Done: `Download`, `Swarm`, `Transfer`, `Discovery` with the scans, `MessageFeed`, `LogFeed`,
`Messaging` (identity, messages, the sending side of the relay) and `Seeding` (upload, manifest,
chunks), with the proofs above, and the promises `Sharing` and `Mailbox` that the
services of all the nodes implement.

What would come next:

* the composition of `Transfer` with `Discovery`'s table (who gets a manifest) and with
  `Seeding`'s files (a seeder that serves bytes another upload has replaced; `Transfer` has wrong
  answers instead);
* `handle_relay_packet`, once a frame can reach it: delivery at most once by its destination,
  and no packet without end.

## 6. Not modelled

The cryptography (encryption, signatures and hashes are assumed to do their work: a chunk's
bytes are right or wrong, and in `Seeding` a hash is the bytes themselves), the JSON and HTTP
encodings, the HTML, the menus, printing, the choice of the local address (`get_my_ip`),
`ip_utils.py`, which nothing uses. The session key is the same constant for every pair of nodes,
so `SessionManager` has no state that matters. `MANIFEST_PORT_OFFSET` is 1000 while comments
say 2000; both ends use the constant, so nothing depends on it.

`handle_relay_packet` and what it calls (`should_relay`, `_forward_message`, `_deliver_message`,
`_handle_relay_file_chunk`): nothing gets there. A frame of `_send_relay_packet` is dropped as
`RoutedIsReceived` shows. Were the magic behind the size, `handle_relay_packet` would be handed
size, magic and JSON and parse from the magic on, which raises. The set of seen ids, the TTL and
`via`, which holds prefixes of 8 characters and is compared with full keys, are therefore not
exercised by any execution of this code. `route_message`, their sending side, is modelled although
it has no caller in the repository.

The journal is taken to be writable: `_write_log` swallows every exception, so with a full disk
a message can be on the page and not in the file. A message that is received between
`start_tcp_server` and `patch_messaging` goes to the journal and not to the page (`SentIsShown`
is about a node that has started). `_upload` answers `{"ok": true}` before the file is tested and
seeded, and `send_file_bg` offers it to every known peer, not only to the one that was
chosen. `rstrip` also takes the line breaks that belong to the file, which is why
`ManifestIsUpload` leaves out files that end in one.
