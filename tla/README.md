# A TLA+ model of httppost

httppost captures the frames of HTTP POST requests on one or more network
interfaces, puts the multipart bodies together again, and passes the content of
each body to Kafka.  This directory holds TLA+ modules for its core, TLC
configurations that check them on small instances, and proofs that TLAPS checks
for all sizes.  Paths below are relative to the repository.

## The system

| Component | State | Operations | Used by |
|---|---|---|---|
| `PacketSniffer` (`src/packet_sniffer.cpp`), one per interface | `flowtable` (flow key to node), `lrukey` (keys in the order the flows opened), `m_Mempool`, `mutex` | `HandleFrame` on the sniffer's own capture thread (libpcap's callback); `LRUClear` on the main thread, once a second | `SysApp` |
| body reassembly (`RecvStart`, `RecvModify`, `RecvFinished`) | a node: `cLen`, `usedCnt` (16 bits), `data[512 KB]` | append a frame; find the part in the body; `SendMsg` | `HandleFrame` |
| `FixedContainer` (`src/FixedContainer.hpp`) | an array of nodes, a queue of the free indexes | `GetNode`, `FreeNode`, `UsedNodesCount` | `PacketSniffer` |
| `Queue` (`src/Queue.hpp`) | `m_Head`, `m_Tail`, `m_Data`, `QUEUE_SIZE` | `EnQueue`, `DeQueue`, `Count`, `GetFront`, `Resize`, `Clear` | `FixedContainer` |
| `ParseHttp` (`src/http_parse.cpp`) | none | the type and the length of a request | `HandleFrame` |
| `SysLog` | an open file, its day, the level, a lock | `PrintLog`, `SwitchLogFile` | all threads |
| `SysApp`, `main` | `bRun`, the sniffers, their threads | start, `Stop` on SIGUSR1, the loop that calls `CheckLRU` | |
| `CSysConfig` | the settings | read once | all |
| `bin/progmon.sh`, `bin/service.sh` | none but what `ps` shows | the watchdog that cron runs; start, stop, restart | cron, an operator |

Sniffers share nothing but the log and the configuration, so the model of what
they do has one; `Service` has them all.  Inside one sniffer two threads work on
the pool, the table and the list.

What is hard:

* **Two threads, part of the work under the mutex.**  `HandleFrame` looks a flow
  up, reads the node through the iterator and uses it, without the mutex; it
  takes the mutex in up to two short sections.  `LRUClear` counts without the mutex
  and evicts with it.
* **Undefined behaviour.**  A lookup that runs while the other thread erases
  may miss the flow or follow a freed pointer; an iterator may be read, or
  erased, that no longer points into the table.
* **Frames in any order.**  A sniffer sees what the network does: frames lost,
  repeated, reordered, and connections reused for the next request.
* **Processes that are looked for and then acted on.**  The scripts look at
  `ps` and start or kill later; a process may be starting, forking into a
  daemon, or ending meanwhile, or receive SIGUSR1 before it is ready for it.
* **Recycled nodes and 16-bit counters.**  Nodes are never wiped, scans read up
  to 3 bytes further than they count, `cLen` and `usedCnt` wrap around.

## Modules

| Module | Models |
|---|---|
| `Queue` | the ring, one operator per method, on a record of the class's fields |
| `Fifo` | what a queue promises: a bounded sequence |
| `QueueThreads` | `Queue` with one thread in `EnQueue` and one in `DeQueue`; implements `Fifo` |
| `FixedContainer` | the pool, on top of `Queue` |
| `FlowList` | `std::list::remove` and what lists hold |
| `PacketSniffer` | the two threads of a sniffer over the pool, the table, the list and the mutex |
| `FlowCache` | what the flow table promises: a bounded cache that evicts its oldest; `PacketSniffer` implements it |
| `LRUHistory` | `PacketSniffer` with history variables, for what comments and the README say of LRUClear |
| `HttpParse` | `ParseHttp`: what it finds in one frame's payload |
| `FlowAssembly` | the bytes of one flow: how frames become a message; uses `HttpParse` |
| `HttpTraffic` | the client and its TCP (external): a request and its frames |
| `SysLog` | the log: threads that print, midnight, files that cannot be opened |
| `SysConfig` | `CSysConfig` and `StringUtils::split`: what a configuration file says |
| `Service` | the processes: `main`, the signal handler, `SysApp`, the start and end of the capture threads; uses `SysConfig` |
| `Supervision` | `Service` composed with the watchdog and `service.sh` |
| `MC*` | small instances of these for TLC |
| `*Proofs` | the theorems about them and their lemmas |

### PacketSniffer

A step is what one thread does between two points where the other can tell the
difference.

| Code | Actions |
|---|---|
| `HandleFrame` 147-164, `flowtable.find` | `Find`; `FindMissed` and `FindFaulted` when it races with erasures |
| 167-176, `GetNode` under the mutex | `TakeNode` |
| 178-186, `cLen`, `RecvStart` | `Fill` |
| 188-193, insertion under the mutex | `Insert` |
| 196, `it->second` | `ReadNode`; `ReadNodeStale` when LRUClear evicted the flow after the lookup |
| 197-222, append, `RecvFinished` | `AppendData` |
| 224-230, release under the mutex | `Release`; `ReleaseStale` when LRUClear evicted the flow before it |
| `LRUClear` 461, 467 | `StartLRUClear`, `LoadHead`, `LoadTail`, `Evaluate`: each expression of `Queue::Count` loads the two volatile fields anew |
| 471-484 | `Lock`, `EvictOldest` (one turn of the loop), `Unlock` |

Frames are records of what these steps use: the key, whether the frame opens a
flow, the Content-Length, the bytes `RecvStart` takes, the payload's length.
The bytes are counted, not kept; whether `RecvFinished` finds a message is a
choice.  (FlowAssembly keeps the bytes.)

Undefined behaviour is a choice: a racing lookup finds the flow, misses it or
faults; reading through a stale iterator faults or gives any node; erasing one
faults or does nothing.  `aborted` says that the process has faulted, `damage`
counts how often the shared state has been damaged without a fault, which
`FindMissed`, `ReadNodeStale` and `ReleaseStale` do.  The invariants that such
damage really breaks are stated for `Intact` states: they say that nothing else
breaks them.  Two speak of damaged states as well: `EveryFlowEvictable`, and
`LossIsBounded`, by which each damage costs the pool a node at most.

`calm` is a history: the capture thread has not changed the pool since
`LRUClear` began.  Then, and only then, what LRUClear has counted is true when
it evicts, and `ClearsHalf` says what it does: it evicts from 80% of use
upwards, more than half of the nodes in use or every flow, and at most one flow
more than half.  That one is of the loop's `i++ > clearCnt`; without it a single
flow in use would stay.  (What happens when it is not calm is `lru_early`.)

`FlowCache` is what is left when threads, nodes and bytes are forgotten: a list
of open flows that never holds a flow twice nor more than the pool has nodes,
that a flow enters at its end, leaves from anywhere, and is evicted from at its
front.  `IsAFlowCache` maps `lrukey` to it, each step to one of its actions or
a stutter.

### FlowAssembly

One flow key, one node, the capture thread alone. A client sends two requests on
a connection. A request is a text (header, first boundary, part header, content,
last boundary, in symbols), the places where it is cut into frames (also within
the line of the Content-Type or of the Content-Length, behind another request's
GET, or where the content has one), and where its header ends and its content
lies; `WellFormed` says what holds of each. Any frame may arrive at any time,
one of them twice. Each frame goes through `ParseHttp` by itself (`HttpParse`):
the first Content-Type of the frame counts and the last Content-Length, wherever
they stand, so a part's length hides the request's, a GET with a Host hides the
type, and some texts make it reject a frame of a body. A frame that begins with
a GET does not get so far: `HandleFrame` drops it, also when it is the middle of
a body. A line that is cut is a symbol too: a type of the unknown kind, a length
that reads as a different number.

| Code | Definitions |
|---|---|
| 116-139, length, GET, `ParseHttp` | `Accepted`, `IgnoreFrame` |
| 153-164, no flow to open, `RecvModify` | `NoFlow`, `LooksWhole` |
| 178-193, a new flow, `RecvStart` 237-277 | `OpenFlow`, `OpenFaulted`, `StartAt`, `Taken` |
| 194-217, append | `AppendFrame`, `Added` |
| 212-230, `RecvFinished` 302-372, release | `CompleteFlow`, `MessageSpan` |
| `LRUClear` | `Evict`, at any time |

The scans read behind the frame and behind the body as the code does: `Trailers`
is what may stand behind a frame in libpcap's buffer, and the node keeps its
bytes when it is released.  Two histories serve the properties: `own`, which
frame each byte of the node comes from, and `used`, the frames in each message.

`OrderlyIsAssembled` is what the program is for: frames that arrive in order at
a closed flow become one message, the content, and not before the last of them.
It speaks of the requests that can be put together (`Assembles`): more than one
frame, none that `HandleFrame` rejects, the first one typed and with all of the
header in it, the Content-Length that counts being the body's, and a body of one
part closed by its boundary and a CRLF (`HasOnePart`); and not of bytes behind
the body that complete a marker.  `FaultNeedsCutDelimiter` says which frames
`RecvStart` cannot take: only those cut right behind the CR of a delimiter.

### QueueThreads

Each thread's accesses to a field the other uses are steps of their own.  They
take effect in program order: the makefile builds without optimisation, the
fields are volatile, and the target is an x86.  `Clear` and `Resize` run when
neither thread is inside an operation.

The program's only queue has elements of 4 bytes (`FixedContainer.h:71`), and so
has the model.  `Resize` then loses elements of a queue that wraps around, because
it copies `m_Tail` bytes of them (`Queue.hpp:146`).  `IsAFifo` says that the ring
is a `Fifo` but for exactly that step, `ResizeCuts`.

### SysLog

Several threads in `PrintLog` and `SwitchLogFile`; every access to `m_Logfp`,
`m_DayOfYear`, the lock and localtime's structure, which is one for all threads,
is a step.  `PrintLog` tests the first two without the lock.  `torn` records
that a thread's localtime structure was overwritten, with another day, between
its call and its use; `failures` counts failed calls of `fopen`.  The initial
states are those `OpenLogFile` leaves, with or without a file.

### SysConfig, Service and Supervision

`Service` has a few slots for processes.  A process is where its main thread is,
its devices, the sniffer it is at in `CheckLRU`, `bRun`, and where its capture
threads are.

| Code | Actions |
|---|---|
| `main` 40-44, `SignalHandle` | `NewSysApp`; `Sigusr1`, which ends a process that has no `SysApp` yet |
| `SysApp::Init` 39-79 | `InitApp`, `InitAborts` (an assertion), `Daemonize` (two processes until the parent has exited) |
| `SysApp::Start` 82-95 | `Start` (the flag), `StartThread`, `AllStarted` |
| `main`'s loop 49-58 | `TestRunFlag`, `CheckLRU` (one sniffer), `Wake`, `Exit` |
| `PcapSniffer` 435-455 | `OpenPcap`, `OpenFails` (`exit(1)` for all), `LoopEnds` |
| `progmon.sh` | `Watch`, then start |
| `service.sh` | `Command`, `StartLooks`, `Launch`; `StopLooks`, `Kill`; a restart is a stop and then a start |

A script's look at `ps` and what it does next are two steps, and anything may
happen between them.  `overlapped` records that the watchdog and the operator
have both been between the two at once: then they can start two processes, and
nothing in the scripts prevents it.

## Runs

| Run | Shows | Bounds |
|---|---|---|
| `sniffer` | no interleaving leaks a node, gives it to two owners, hides a flow from LRUClear, or makes a frame's bytes go to another flow, until one of the three races damages the state, and then no flow is hidden and no more than one node is lost; until then an LRUClear whose counts are not disturbed clears half, and the flow table is the cache of `FlowCache` | 3 keys, 2 nodes, 3 kinds of frame per key |
| `sniffer_live` | `HandleFrame` and `LRUClear` end; an exhausted pool recovers | 2 keys, 2 nodes, no damage |
| `queue` | the lock-free queue is a bounded FIFO, but for a Resize of elements that wrap around | 2 values of 4 bytes, sizes 1 to 4 |
| `assembly` | requests whose frames come in order to a closed flow are sent, and not early, with the right content, unless the bytes behind the body complete a marker; messages hold only their flow's bytes; no frame has its bytes in two messages unless one is repeated; `RecvStart` copies a negative count only for a frame cut behind a delimiter's CR | 7 first requests with 22 ways to cut the second, 5 odd ones with 2, 4 arrivals, 1 repetition |
| `lru_early` | **violated**: LRUClear may evict when the pool was never used to 80% | 1 key, 3 nodes |
| `lru_recency` | **violated**: a flow in use is evicted before a silent one | 2 keys, 3 nodes |
| `double_free` | **violated**: `FreeNode` accepts a node that is free already | 2 keys, 2 nodes |
| `assembly_open` | **violated**: a request that comes in one frame is never sent | as `assembly` |
| `assembly_stale` | **violated**: old bytes behind the body end up in the message, or hide it | as `assembly` |
| `log` | the assertion in `PrintLog` holds unless `fopen` has failed; lines go into the file of their day, or a later one, unless `torn`; the lock is given back | 2 threads, 2 midnights, 2 failures |
| `log_assert` | **violated**: the assertion fails after another thread's failed switch | as `log` |
| `service` | at most one process works unless two scripts launch at once; a capture thread per device of the first `dev` line; SIGUSR1 ends a process that has been started; the program always comes back, unless a thread whose `pcap_loop` returned leaves it blind; each sniffer's `LRUClear` is called again and again | 3 processes, 3 configurations (two devices, a daemon, none), 1 fault, 1 command |

**Why the bounds are enough.**  Two nodes for three keys make the pool run out,
with a flow waiting for a node; a node then has a life before and after an
eviction.  `U16` is 2, so that every count wraps around, and one wrong bit
matters.  Half plus one of 2 nodes is both of them, so in the run the upper bound
of `ClearsHalf` cannot fail, and the lower one can: the upper one rests on the
theorem, which is for any number.  (With 3 nodes and a damage the states are too
many for a run of minutes.)  LRUClear's second count and its lock are apart by several steps of
the other thread, so torn and stale counts occur: the counts wrap below zero
(`U32`).  `MaxDamage` is 1: one damage leaves a state that the `Intact`
invariants no longer speak of, and `EveryFlowEvictable` and `LossIsBounded` are
checked beyond it.
With 3 nodes 80% is 2, so there is a use below it; the 80% of 2 nodes is 1.
In `assembly`, the first request is longer than the second by the numbers that
put its last boundary, or its CRLF, behind the second one's body, has its
content in a frame of its own, is longer than `U16` (29) bytes, has a length in
the part's header, a text that `ParseHttp` rejects, or a GET where a frame begins;
or it is one of the odd five: behind a GET that begins the frame or does not, cut
within a line, or with a negative Content-Length.  The places to cut are on both
sides of each marker.  4 arrivals are two whole requests of
two frames or one of four.  A queue of size 1 is always full and empty, one of 4 wraps
around with several elements.  In `log`, two midnights let a thread be a day
late when the next one comes, and two failures let one switch fail after another.
In `service`, three slots hold a daemon's parent and child beside a process that
a second script starts.  One fault (a signal, a kill, an assertion, a device that
fails) and one command meet each other, and the watchdog, at every point.

`MAX_BUF_LEN` is 2^19 in the code and larger than any `usedCnt`, so the code's
two clamps to it never act; in `FlowAssembly` it keeps that relation, in
`PacketSniffer` it is small and they do.

**Symmetry** is used over the keys and over the values, in runs without
liveness properties.

**Deadlock** is checked in all runs except those of `FlowAssembly`, where the
bound on arrivals and a client that stops sending end a behaviour.  In
`Supervision` the watchdog looks for ever.  In
`PacketSniffer` a faulted process may stutter (`Dead`).

**Fairness** (`FairSpec`).  The operating system keeps scheduling both threads:
weak fairness for the main thread's steps, inside `LRUClear` and at its start,
because main's loop calls it again and again.  Strong fairness for the capture
thread's steps inside `HandleFrame`: it competes for the mutex, but main sleeps
a second between two calls (`src/main.cpp:54`) with the mutex free, so the
capture thread gets it.  Nothing makes frames arrive: `Lookup` has no fairness.
In `SysLog` a thread inside a call goes on (weak fairness); nothing says that a
thread that waits for the mutex gets it, so only the lock's release is claimed.
In `Supervision` the scheduler keeps each process's main thread, its capture
threads' start and a running script going (weak fairness, each for itself), and
cron runs `progmon.sh` again and again, as its own remark says
(定时脚本监控服务的执行, a script run at times that watches the service,
`src/bin/progmon.sh:4`).  Nobody has to send a command or a signal.

## Findings

The six violated runs contradict a comment or the README; PROJECT.json quotes
each line.  In short: the 80% test is torn (`packet_sniffer.cpp:461`);
eviction is first-in first-out, not LRU (472); `FreeNode` cannot recognise a
double free, and `HandleFrame` makes one (226); a request in one frame is never
sent (183); stale bytes behind a body complete markers (315); the log's
assertion can fail (`SysLog.cpp:99`).

A seventh has no run of its own: `Resize`, which nothing calls, copies `m_Tail`
bytes where `m_Tail` elements are meant, under a comment that says that it copies
the old data (对旧数据进行拷贝, `Queue.hpp:141`, 146).  `Queue!Resize` models it, and
`IsAFifo` exempts it.

## Proofs

TLAPS proves, for every value of the constants that satisfies the named
assumptions:

* `PacketSnifferProofs`: `TypeOK`, `EveryFlowEvictable`, `NodesAccountedFor`,
  `CaptureViewHolds`, `NoCrossFlowWrite`, `ClearsHalf` as invariants of `Spec`,
  and the action property `FreesAccepted`; and that it implements `FlowCache` (`IsAFlowCache`).
* `QueueThreadsProofs`: `TypeOK` and `NoSlotConflict` as invariants, and that
  `QueueThreads` implements `Fifo`, for elements of any size, but for the
  `Resize` that cuts.
* `SysLogProofs`: `TypeOK`, `AssertionHolds`, `LinesGoToTheirDay` as invariants.
* `FlowAssemblyProofs`: `TypeOK`, `NoBodyTwice` and `OrderlyIsAssembled` as
  invariants and the action properties `OwnBytesOnly` and
  `FaultNeedsCutDelimiter`, for any well-formed requests, cut anywhere.
* `SupervisionProofs`: `TypeOK`, `NoSecondProcess` and `ThreadPerDevice` as
  invariants, for any configuration and number of processes, faults and commands.

`TypeOK` of PacketSniffer is inductive; `EveryFlowEvictable` is inductive
relative to it: each action that adds to the table adds to the list, and those
that take a key from the list take it from the table in the same critical
section.  `NodesAccountedFor` is not inductive alone: that `Insert` puts a
*new* key into the table needs what the capture thread knows of its key, and
that `Release` frees the flow's *own* node needs what it knows of its node.
That knowledge begins with the read of `it->second`, not with the lookup: between
the two the capture thread knows nothing that an eviction could not undo.
`Accounting` is the conjunction of `NodesAccountedFor` and `CaptureViewHolds`,
and inductive; `NoCrossFlowWrite` and `FreesAccepted` follow from it (a queue
that lacks an element of `Nodes` has room: `FixedContainerProofs`).

`ClearsHalf` speaks of the loop only.  `LRUClearView` says, for each place in
LRUClear before it, what the main thread knows of a calm pool: that what it has
loaded is still there, on which side of the head the tail is, that the first
count was 80% or more, and that `clearCnt` is half of `InUse`, the nodes used
now and those freed by the loop.  Each turn frees one node (`EvictAccepted`,
from `Accounting`, and `FreeNodeCount`), so `InUse` stays.

`QueueProofs` describes `EnQueue`, `DeQueue` and `Resize` by their effect on
`Contents`, the sequence from head to tail; the refinement maps the ring to it,
and each store of `m_Tail` or `m_Head` to `Put` or `Take`.  `FlowListProofs`
shows that `ListRemove` removes all of a key and nothing else, keeping
`NoDuplicates`; it is written by ranks rather than recursively so that this can
be proved, and MCPacketSniffer's `ListRemoveIsRemove` compares it with
`SelectSeq`.

`LogInv` of SysLog says who holds the lock (`HolderKnown`), that without a
failed `fopen` only the holder sees no file (`FileIsOpen`), and, until a
structure is torn, that `m_DayOfYear` only grows, is never ahead of the file,
and is at least the day of each thread that has compared it (`DaysAgree`).

`AssemblyInv` of FlowAssembly adds to the types that the bytes an open flow
counts are its own (`OwnsWhatItCounts`).  An append writes from the counted
bytes onwards, so it extends both; the 16-bit wrap can only shrink the count,
and opening a flow starts both anew.  `RecvFinished` finds a message only within
the counted bytes, although its scans read behind them (`SpanIsCounted`): hence
`OwnBytesOnly`.  For `NoBodyTwice` it adds that all frames in the node and in the
messages have arrived, so that a frame that is not repeated is in neither, and
that none in an open flow's node is in a message already (`OwnIsUnused`).

`OrderlyIsAssembled` says something only when the last frame is there, so it is
not inductive.  `OrderlySoFar` says what holds on the way, while only the first
frames of one request have arrived: the flow is open and waits for the body's
length, and the node holds, and counts, exactly the bytes of the body that have
come.  Each frame but the first is of the body (`NextOfPrefix`,
`NextFrameAdded`); the count cannot wrap, because the body is shorter than
`U16`, and cannot reach the Content-Length before the last frame
(`FirstFrameTaken`).  When it does, the scans read a node that begins with the
body, and behind it what a former flow or the buffer has left.  There they find
the markers of the body and no others, unless the two bytes behind it complete
one (`MarkersOfTheBody`): a marker ends inside the body, or starts in its last
bytes, which are a closed boundary's.  Its first delimiter's end and its last
boundary's start are therefore those of the content (`MessageIsContent`).

A start in `RecvStart` beyond the frame (`NegativeCount`) is one where a marker
starts in the frame's last byte and ends in what stands behind it.

The refinement of `FlowCache` follows from `Accounting`: a key that `Insert`
appends is not in the list, and there is room for it because the node it brings
is in no flow yet (`RoomForAFlow`, a count of the nodes).

`SupervisionInv` says that a process past `Init` has the devices of its file, no
threads before `Start` and one for each device in its loop (`Configured`,
`Started`), and, until two scripts overlap, that a script about to launch still
sees no process (`OneProcess`).  Only `daemon()` and a launch add a process: the
first puts it in the place of its parent, and when the second comes there is
none.  That the threads are as many as the first `dev` line has fields needs what
`ReadFile` and `Split` return, counted in bars (`FieldsAreASequence`,
`ReadFileType`).

Only model-checked: `LossIsBounded`, liveness (fairness and ENABLED are outside TLAPS) and the
violated properties, those of `LRUHistory` among them.

## Not modelled

* The checks of a frame before that of its length (protocol, port): a frame they
  reject never comes.  The later ones (length, GET, `ParseHttp`) are in
  `FlowAssembly`; `PacketSniffer` has the frames that pass them.
* Of `ParseHttp`, what the fields say that nothing uses.
* Of `SysLog`, the path of the file and the level's change.
* What threads do to each other while a process is ending: `main` returns
  without joining them, and the statics they use are destroyed.
* What the scripts print, and `status`.
* `FixedContainer::Clear`, `SetZero`, `operator[]`, `Print`: nothing calls them.
* librdkafka and libpcap, beyond the messages passed to the one and the frames
  that come from the other.
* `pcapop.h` (in no build) and `test/` (stand-alone Kafka examples).

## Plan

Done: `Queue`, `Fifo`, `QueueThreads`, `FixedContainer`, `FlowList`,
`PacketSniffer`, `FlowCache`, `LRUHistory`, `HttpParse`, `FlowAssembly`,
`SysLog`, `SysConfig`, `Service`, `Supervision` and their runs; the proofs above.

What could follow:

1. The producer's queue: which messages it loses when the broker is away, and
   when `main` returns with messages in it.
2. The end of a process, with its threads at work while statics are destroyed.
