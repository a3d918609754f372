# Verification of Centreon Broker

Centreon Broker carries monitoring events from producers (the monitoring engine,
remote brokers) to consumers (databases, RRD files, other brokers, scripts).
What users expect of it is that no event is lost when a consumer is slow, absent
or restarted, that events keep their order, that one failing output disturbs no
other, and that what is computed from the events is right.  This directory holds
TLA+ models of the code that has to provide this, TLC runs that check them on
small instances, and TLAPS proofs for every value of the constants.

Run a model with `tlc -config X.cfg M` (section 4), a proof with
`tlapm CoreProofs.tla` (section 6).

## 1. Inventory

How events flow: an input (feeder thread of a client, failover thread that reads
its stream, module in the monitoring engine) calls `engine::publish`; the engine
gives the event to every subscribed muxer; the failover thread of each output
reads its muxer, writes the event to a stack of streams (bbdo, compression, tls,
tcp, or a database stream) and acknowledges to the muxer what the stream has
acknowledged.

| Component | State | Operations | Interacts with | Hard about it | Modelled in |
|---|---|---|---|---|---|
| `multiplexing::muxer` | list of events, read position, queue file, memory file, static limit | construct, publish, read, ack_events, nack_events, destroy | engine, failover or feeder, splitter | spill to file and back in order; restart; reload of the limit | `Muxer` |
| `file::splitter`, `persistent_file`, `compression` | part files, read and write ids and offsets, FILE handles, buffer of the reader | open, read, write, remove | muxer | reader and writer share a FILE; parts unlinked as they are read; torn records | `PersistentFile`, `EventFile` |
| `multiplexing::engine` | queue, subscribed muxers, write function, cache file | load, start, stop, publish, subscribe, unload | every thread; applier | publication during start and stop; crash | `Engine` |
| `persistent_cache` | cache file with `.new` and `.old` | open, get, transaction, add, commit | engine | replacement by two renames | `Engine` |
| `tcp::tcp_connection` | two pairs of queues, atomic flags, counter, error | write, flush, read, close and asio handlers | asio pool threads, owner of the stream | lock-free hand-over between threads | `TcpWriter`, `TcpReader`, `TcpConnection` |
| `tcp::tcp_async`, `tcp::acceptor` | acceptors, unclaimed connections | start, handle_accept, get_connection | asio, processing::acceptor | accept errors, silent peers | `Acceptor` |
| `processing::failover` | thread flags, stream, failover launched | start, exit, run | muxer shared with its failover; streams | a chain of threads that start and stop each other | `Failover` |
| `processing::acceptor`, `feeder` | thread state, client stream, list of feeders | start, exit, callback | endpoint, muxer, engine | clients that come and go | `Acceptor`, `BbdoLink` |
| `bbdo::stream` | packet buffer, acknowledgement counters, negotiation | read, write, flush, negotiate | substream, owner thread | counts without identity; long packets; timeouts | `BbdoLink`, `BbdoPackets`, `BbdoNegotiation` |
| `config::applier`, `main` | endpoints, modules, global state | init, apply, reload, deinit | all of the above | order of start and stop; a reload that is refused half-way | `EndpointApplier`, `Engine` |
| `storage::conflict_manager`, `mfifo`, sql and storage streams | fifo shared by two streams, timelines, pending actions, caches | send_event, get_acks, loop, exit | mysql | acknowledgement of two streams after a commit; broken database; rows on several connections | `ConflictManager`, `SqlActions` |
| `mysql`, `mysql_connection`, `mysql_manager` | shared connections, task lists, promises | get_connections, query, commit, finish | conflict_manager, bam | commit barrier over connections; lifetime of shared connections | `MysqlConnections` |
| `rrd::output`, `storage::rebuilder` | rebuild flag of each index, caches of values, files | rebuild, write, remove | database, engine | a rebuild while new values arrive | `RrdGraphs` |
| `bam`: business activities and KPIs | impacts and running totals, graph of KPIs, cached values of expressions | updates of sources, recompute, reload | engine, neb | incremental computation | `Ba`, `BoolExpression` |
| `bam`: reporting and availability | tables of events, durations and availabilities, thread | write, rebuild, midnight | mysql | a rebuild against a thread that reads what it deletes | `BamReporting`, `TimePeriod` |
| `neb` (module of the engine) | maps of downtimes and acknowledgements | one callback per kind of event, initial dump | monitoring engine | restarts of the engine; order of the dump | `NebCallbacks` |
| `lua` | two queues of events, count of acknowledgements | write, flush, filter, thread | failover, script | script and muxer that wait for each other | `LuaStream` |
| `watchdog` (`cbwd`) | table of child processes | start, SIGHUP, SIGTERM, SIGCHLD | brokers | signals at any time | `Watchdog` |
| `correlation`, `notification`, other outputs, `stats`, parsers, `logging`, `mapping` | | | | see section 7 | |

What makes them correct: nothing accepted is lost short of a fault that is known
to lose it; the order of first delivery is the order of publication; an event
leaves a queue only after the other side has it; resources stay within their
limits; threads can always be stopped; what must go on goes on.  The hazards,
line by line, are in `PROJECT.json`, each with the properties that would notice
it going wrong.

## 2. Plan

| # | Modules | State |
|---|---|---|
| 1 | `Muxer`, `Engine`, `PersistentFile` with `EventFile` | checked and proved (`CoreProofs`) |
| 2 | `TcpWriter`, `TcpReader`, `TcpConnection` | checked and proved (`LinkProofs`) |
| 3 | `Failover`, `EndpointApplier`, `Watchdog` | checked and proved (`FailoverProofs`) |
| 4 | `Acceptor`, `LuaStream` | checked and proved (`EndpointsProofs`) |
| 5 | `BbdoLink`, `BbdoNegotiation`, `BbdoPackets` | checked; link and negotiation proved (`LinkProofs`) |
| 6 | `ConflictManager`, `SqlActions`, `RrdGraphs` | checked and proved (`ConflictManagerProofs`; graphs in `EndpointsProofs`) |
| 7 | `MysqlConnections`, `NebCallbacks` | checked and proved (`MysqlProofs`) |
| 8 | `Ba`, `TimePeriod`, `BoolExpression` | checked; `Ba` proved (`BamReportingProofs`) |
| 9 | `BamReporting` | checked and proved (`BamReportingProofs`) |
| next | the parts of section 7 that keep state | |

Two abstract specifications are stated: `EventFile`, the queue file the muxer
relies on, which `PersistentFile` is shown to implement (a refinement TLC
checks), and, inside `BoolExpression` and `TimePeriod`, the reference definitions
(meaning of an expression, hours of an event in a period) that the algorithms of
the code are compared with.

## 3. Modules

Each module says in its head comment how its state stands for the objects of the
code; `PROJECT.json` maps every definition to its lines.  In most of them an
event is the number of its publication, so that properties can speak of order.
History variables (`seen`, `popped`, `lost`, `confirmed`, ...) are read by
properties only.  Each module has one type invariant, checked as a part of the
invariant named after the module.

A definition whose comment starts with "Mutant" is a wrong variant of the one
below it and is used by no specification: it serves to show that a property
notices it.

**Modules checked together.** A run asks one question of several modules that do
not share state.  `MCCore`, `MCFailover`, `MCEndpoints`, `MCBbdo`, `MCStorage`,
`MCTables` and `MCBa` are sums, not compositions: the variable `model`, chosen in
the initial state, says which component the behaviour is about; only its
next-state relation is enabled and the variables of the others keep one initial
value.  The number of states is the sum of those of the components.  Fairness is
restated per component, and properties of the form `[]<>P` of several components
are written as one `[]<>(P /\ Q)`, which is the same because the others never
move.  The components of such a run that theorems are about are extended by the
MC module, under their own names, so that TLC evaluates the assumptions the
proofs start from (all three of `MCCore`); the others are instances.
`TcpConnection` on the other hand is a true composition: `TcpWriter` and
`TcpReader` on one socket and one client thread.

**Muxer.** The constructor reads the memory file, then the queue file
(`Construct`, `LoadStep`); `publish`, `read`, `ack_events` (pops in `AckEvents`,
one `RefillStep` per turn of the loop, the mutex being held), `nack_events`; the
destructor, complete or interrupted; a crash in any phase, with the last write
perhaps still in the stdio buffer; a limit that changes between two calls.  The
queue file is a sequence cut in parts of `PartMax` events.  Left out: waiting
(`read` without events changes nothing), errors of the file system while the
object lives.

**PersistentFile, EventFile.** Part files of cells, the FILE that reader and
writer share or not (`OpenParts`, `OpenFirst`), whole buffers read ahead
(`ReadCells`), torn records, the resynchronising reader (`Skip`), unlinking
(`NextFile`, `LastEnd`); a crash (`Die`), a full disk or a removed part between
two steps of a call.  `ImplementsEventFile` maps this to a queue of events, those already read
whose part still exists (`again`) and those at risk.

**Engine.** The main thread goes through load, apply, start (flag, then locked
part), stop (send, then check), discard, clear, unload (three steps of commit);
any thread publishes at any time.  `PublishFails` is an exception of a muxer in
the middle of the distribution.

**TcpWriter, TcpReader, TcpConnection.** One step per access to a shared atomic
or queue.  The pool is a set of slots.  The socket may fail at any write or read.
The owner of the stream is in one call at a time and destroys the stream when it
likes.

**Failover.** All nodes of a chain with their threads; the muxer is reduced to
the queue in memory.  A stream acknowledges any prefix of what it was given, at
once (file and RRD streams) or later (bbdo and database streams).  `rewound`
records that a failed reconnection has rewound the muxer under a failover that
was consuming it.

**EndpointApplier.** main and its SIGHUP handler, comparison of the endpoints,
stop, creation, return to the configuration that was in force.  Names are distinct
in a file, so an entry of a list that `_diff_endpoints` cuts out is its place in
`target.endpoints`, and the copy `new_ep` is the set of the places left.

**Watchdog.** The loop of `cbwd` with its signals, and processes that end, do
not react or cannot be forked.

**Acceptor.** Backlog, accepted and unclaimed connections, the thread of the
acceptor with its TLS handshake, a feeder with its muxer and its queue file per
connection, `remove_queue_files`, exit and restart.

**LuaStream.** Both threads, the two queues, the counter, and a script that
acknowledges at once, in bulk, or in `flush()` only.

**BbdoLink.** A failover loop, two bbdo streams and a feeder loop over a FIFO
connection that may break.  The ack limit is chosen at the start; the receiver
cannot decode the events in `Unknown`, and `dropped` counts those it has thrown
away on this connection.

**BbdoNegotiation.** Welcome packets, choice of the extensions, the layers both
ends push, and data that arrives with the welcome packet.

**BbdoPackets.** Cutting an event into packets of at most `MaxPacket` bytes,
reading them over blocks of any size with timeouts, bytes lost in between,
resynchronisation on the next header.

**ConflictManager.** The object the singleton points to is the record `mgr`: the
fifo with its two timelines and counters, the bulk queues, the local variables
of the thread, its place in the loop, the flags `_exit` and `_broken`, the count
of users and the transaction of the connection.  The streams of the two outputs
open, write, flush and are destroyed in any order.  An object that `init_sql`
overwrites is leaked in the code and forgotten in the model; `overlap` records
that a stream was opened next to an older one.  An event stands for its query;
the connections of an instance are one; a transaction is the set `sent`.  The
database may fail while a result is awaited (`QueryFails`) or in the background
(`ConnectionError`).  The clock is a choice: a batch may end after any event, a
bulk query may be sent whenever its queue is long enough.  `InitialAcks` stands
for the memory that `mfifo` does not initialize.

**SqlActions.** Every handler of events with the actions it finishes and adds,
the rows it creates, writes and refers to, and the connection it may choose;
pollers that stop talking and come back; a stop of the process and the reload of
the caches.

**MysqlConnections.** Users that share connections, their task lists and
promises, `_cfg_mutex`, the error of a connection, dead locks, results that
cannot be stored, a server that stops and starts.

**RrdGraphs.** The storage process (checks, rebuilder) and the RRD output with a
channel between them; both may restart.  The rows of a SELECT are a set of which
the earliest is sent first (`ORDER BY ctime`); `UpdateAll` is the loop of
`output::write` that writes the list at the end of a rebuild, in closed form.

**NebCallbacks.** Every callback that publishes, the dump, restarts of the
monitoring engine, and two readers of the events: rows of the database and a KPI.

**Ba, BoolExpression, TimePeriod.** Ba is an instance of two levels of business
activities with a service KPI, a boolean KPI and a BA KPI.  BoolExpression is the
parser, the builder and the evaluation of expressions over all short texts.
TimePeriod is the walk over valid and invalid times with changes of the clock.

**BamReporting.** The reporting stream, message by message, and the availability
thread, one day at a time, on one shared connection.

## 4. Runs

| Run | Bounds | States | What it shows |
|---|---|---|---|
| `core` (MCCore) | muxer: 5 events, one filtered, 3 lives, limits 1 and 2, parts of 2 events; engine: 2 muxers, 4 events, 3 runs, 2 faults; files: 5 events of 2 cells, parts of 4 cells, buffers of 3, 1 fault | 353,000 | nothing lost, pops of read events only, order, no stranded file, memory bound; the engine between its runs; the files and the queue they implement; every event is read, calls return |
| `tcp_connection` | 2 vectors, 2 slots, 3 blocks, 2 handlers | 393,000 | one writer, order and counts of both directions, nothing left behind an error, errors reported, reading goes on |
| `failover` (MCFailover) | 3 nodes, 2 events, 3 faults; 10 configurations, 3 reloads, 2 failures; 4 files of the watchdog, 3 process numbers | 523,000 | exclusive consumption, joined threads, confirmed pops; reloads end with what is in force running; no broker forgotten; calls end, events are popped |
| `failover_nack` | 2 nodes | | violation: rewind under a running failover |
| `endpoints` (MCEndpoints) | 2 peers, 2 events, 2 lives, 1 accept error, memory of 1; script: 6 events, muxer of 3 | 280,000 | peers get what is published for them; acknowledgements of scripts; everything can be stopped |
| `bbdo` (MCBbdo) | link: limit 3, ack limits 1 and 2, event 2 undecodable, 6 events, 3 breaks; all offers of layers, 2 versions; 3 events of 2 or 3 bytes, packets of 2, 1 cut | 511,000 | pops of received events only, order, counts; same layers at both ends; events as they were written; the window moves, negotiations end |
| `storage` (MCStorage) | manager: 3 events (a query, a bulk query, perfdata), batches of 2, 2 instances, 1 failure; graphs: 3 checks, 2 requests, 1 mishap | 667,000 | counts, release after commit, nothing forgotten, drained at the end, unload returns; graphs hold every check |
| `mysql` | 2 users, 2 connections each, 1 query each, 1 failure | 173,000 | lifetime of connections and barriers, no silent loss, calls return |
| `tables` (MCTables) | 1 poller, 2 connections, 3 open transactions; 1 downtime, 2 acknowledgements, 1 change, 1 restart | 787,000 | referred rows are committed; the saved state survives; events tell the truth of the engine |
| `neb_kpi` | 1 acknowledgement | | violation: inverted flag |
| `business_activity` (MCBa) | 4 configurations, states 0, 2, 3, recomputation every 2, 2 commands; days of 4 hours, events up to 6 hours; expressions of up to three operands, texts up to 3 tokens | 326,000 | incremental totals, inherited downtimes, SLA durations, expressions |
| `bam_reporting` | 2 BAs, 3 days, 3 messages, 1 rebuild, 1 fault | 521,000 | one row per day, none from deleted durations, whole dimension tables; rebuilds are made, the stream can be destroyed |

The bounds are small but past the boundaries the code has: more events than a
memory limit plus a part, two limits so that one can be raised and lowered, a
third life to read what the second has left, records that do not fill a buffer
evenly, more vectors than one swap of queues takes, a chain with a node that is
both failover and endpoint, more events than two acknowledgements cover, an event
whose size is a multiple of a packet, a second conflict manager so that streams of
one instance meet the next, a night between two messages of a dump.  A limit of
0, which stands for no limit, is left to the proofs, which hold for any limits.

**Fairness.**  `Muxer`: the consumer reads and acknowledges again and again (loop
of `failover::run`; strong, because publications may come between), loops under
the mutex end, a muxer that is down is built again.  `PersistentFile`: a call that
has begun goes on.  `TcpConnection`: pool threads run their tasks, the strand its
handlers, the owner finishes its call; it calls `flush` (once a second) and
`read` again and again (strong: the other calls come between), and nothing says
it has more to write.  `Failover`: threads run, streams that do not fail
acknowledge; exit need never be asked for.  `EndpointApplier`, `Watchdog`: their
one thread runs; no fairness on signals.  `Acceptor`: its threads, asio and the
feeders run; peers do what they like.  `LuaStream`: both threads run, and a muxer
that has something gives it; `flush` is called again and again.  `BbdoLink`: both
loops run, a broken connection is opened again.  `BbdoNegotiation`: both ends run,
and the deadline of the welcome packet passes.  `ConflictManager`: its thread
runs, and a join returns when that thread has ended; nothing makes outputs write,
stop or start.  `RrdGraphs`: the rebuilder and the output run, a stopped server
starts again, a destructor that is waiting gets its turn (strong).
`MysqlConnections`: users finish their calls and connections their tasks as long
as the process lives; `_cfg_mutex` is given to everyone in turn (strong).
`BamReporting`: days pass and both threads run.  No fairness is put on
publication, faults, crashes, signals or breaks.

Deadlock is not checked where the system may stop for good: a bounded number of
events, a closed connection, a joined chain.  Every run has such a bound.

## 5. Findings

Two runs end in a violation, because the code and its documentation disagree;
`PROJECT.json` quotes the lines.  `failover_nack`: the muxer is rewound under a
running failover, which then pops events nobody has acknowledged.  `neb_kpi`:
`service_update` takes an acknowledgement that begins for one that has ended.

The modules define more properties of this kind, statements of a comment or of the
documentation that TLC refutes when they are put in a configuration; the passing
runs state what holds in spite of them, naming the case.

| Property | Where | What happens |
|---|---|---|
| `TcpWriter.EventuallyWritten` | `tcp_connection.cc:217`, comment 158-159 | a vector pushed while `writing()` gives up waits for the next `write()` or `flush()` |
| `TcpReader.BlocksIntact` | `tcp_connection.cc:323`, comment 253-255 | two early `read()` start two reads into one buffer; `doubled` names it |
| `BbdoLink.AccountedFor` | `bbdo/stream.cc:742`, `doc/en/dev/bbdo.rst:387-389` | events that cannot be decoded are never acknowledged; `dropped` counts them |
| `ConflictManager.ReleasedAfterCommit` | `mysql_connection.cc:154`, `mysql.cc:64` | a commit that fails does not throw, and its events are released; `failed` names them |
| `Acceptor.QueueFilesRemoved` | `feeder.cc:229`, `muxer.cc:460-467` | the muxer is still subscribed and may write the file again |
| `SqlActions.GroupCreatedFirst`, `ActionsCompatible` | `conflict_manager_sql.cc:871`, `conflict_manager.hh:54-61` | a group of which the first member is ignored is not created; two actions conflict |
| `Ba.LevelTrue` | `ba.cc`, comment of `_recompute` | the published level only follows the impacts for the impact state source |
| `BamReporting.DimensionsWhole` | `reporting_stream.cc:118` | after a restart in the middle of a dump the rest of it is replayed without the cache: the end of the dump truncates and has little to write |
| `BamReporting.BasNotMissed` | `broker20.04.rst:38-39` | an event that is closed between the two queries of a day, for closed and for open events, is found by neither |
| `NebCallbacks.KpiInDowntime` | `kpi_service.cc` | the last downtime event decides, not whether another downtime is active |
| `TimePeriod.MidnightsAreMidnights` | `timeperiod.cc:501-505` | the trick of the comment does not always end at midnight when the clock changes on that day |
| `EndpointApplier.ChainsCurrent` | `endpoint.cc:493` | a failover that changes under an unchanged root keeps its old configuration |
| `EndpointApplier.NeverStuck` | `main.cc:121` | SIGTERM while `_endpointsm` is held never ends |
| `RrdGraphs.OnlyDeletedRemoved` | `conflict_manager_storage.cc:563` | a graph may be removed though its index was not deleted |
| `Watchdog.NoHupMissed` | `watchdog/src/main.cc:258` | a SIGHUP that comes while one is served is forgotten |
| `BoolExpression.OneEventPerStatus` | `kpi_boolexp.cc:149` | a service that occurs twice makes the KPI be visited between its two objects |
| `BoolExpression.KnownWhenTold` | `bool_binary_operator.cc:96` | the test of the soft value on the right is inverted |

Other observations made while modelling, each visible in the module named:

* `Muxer`: `MemoryBound` allows one event over the limit per construction, since
  the constructor reads at least one event of the queue file.
* `Failover`: the flag `launched` stays set after the failover was joined, so a
  node that is started again and whose open fails before its failover is shut
  down does not launch it.
* `ConflictManager`: a manager that breaks after `_exit` was set is never joined
  (`UnloadReturns` names it); a stream opened while the other still uses an older
  manager may end the process or leave a manager without a thread
  (`DeadNeedsOverlap`); perfdata in memory is lost when the loop ends or fails
  (`PerfdataKept`); an incomplete batch is not committed while no event arrives;
  `mfifo::_ack` is not initialized.  The run and the theorems of `ManagerInv` and
  `PoppedIsKept` take that memory to be 0, what a fresh page holds; with another
  value TLC refutes `PoppedIsKept` within a few steps.
* `RrdGraphs`: the loss of the server leaves `must_be_rebuild` at 2; a crash of the
  storage process between start and end leaves the output keeping values back; a
  restart of the output in a rebuild loses the list; a value published before the
  start and stored after the SELECT is lost from the graph; a request made during
  a rebuild is overwritten by 0; the destructor never interrupts a rebuild.  (With
  two mishaps, 1.24 million states, `GraphKept` holds as well.)
* `Watchdog`: `freq` is set again in every turn of the loop (`main.cc:216`), so the
  slow-down of the comment at 232-236 never happens; a `fork` that returns -1 is
  not tried again, and the later `kill(-1)` and `waitpid(-1)` reach every process.
* bam: a meta service is unregistered with the id of the meta service instead of
  its metric (`applier/meta_service.cc:122`); `metric_update` never propagates;
  the arguments of `difftime` are exchanged (`meta_service.cc:366`); `reader_v2`
  gives KPIs of meta services host and service ids, so that `kpi_meta` is never
  made; the comment of `_invalidate_ba` that the BA will not be found is not true
  (`applier/kpi.cc:219-224`); the circularity check increments its iterator twice
  (`state.cc:224`); `load_from_cache` does not end on an event of a foreign type
  (`applier/ba.cc:303-304`); `_resolve_kpi` adds a parent twice when it runs again;
  the functions HOSTSTATUS, METRIC, AVERAGE of `bam_expressions.rst` are always
  rejected; a unary minus is parsed and ignored.

## 6. Proofs

Eight modules hold theorems (`QueueLemmas` among them).  Each is about the
specification of one component (`Spec`, `TcpSpec`, ...), from the named assumptions
on its constants, so for any number of events, limits, nodes, users, threads and
faults; two theorems of `ConflictManagerProofs` also assume `Zeroed`, that the
memory of `mfifo::_ack` was 0 (section 5).  All follow one pattern: an inductive
invariant that TLC has checked first on the instance of the run, a lemma for
`Init`, one lemma per action (for the large invariants one per action and group
of conjuncts), and a last theorem that combines them with PTL.

| Theorem | States | What the property lacks to be inductive |
|---|---|---|
| `CoreProofs!TypeCorrect`, `MuxerInvariant`, `MuxerLosesNothing`, `MuxerAcksOnlyRead`, `MuxerStrandsNothing`, `MuxerMemoryBounded` | `TypeOK`, `MuxerInv`, `NothingLost`, `AckedWasRead`, `NoStrandedFile`, `MemoryBound` | when the reader unlinks the first part of the queue file its events must already be elsewhere (`PartKept`); the events before the position were read (`ReadIsSeen`); the relation of memory to file in each phase (`PhaseOK`, `FileClosedMeansEmpty`); the count of constructions (`LoadSlack`) |
| `CoreProofs!MuxerReadsInOrder` | `ReadOrder` | the queue file is sorted, and no event of the first part is beyond what was written (`FileOrder`); everything not yet read is behind everything in memory, and memory is full while a file is open, unless the limit was raised (`InOrder`) |
| `CoreProofs!EngineRetains` | `EngineInv` | for every place of the main thread, which of `_kiew`, the cache file and its replacement hold the events that the muxers were not given, and in which order (`EngineFlow`, `EngineSafe`, `Faultless`) |
| `CoreProofs!FilesKept` | `FileInv` of `PersistentFile` | what the reader still gets is its buffer and then the unread end of the first part (`Stream`): its records and those of the next parts are in order, and the end of a record is behind the whole of it (`FileOrdered`); nothing given out comes again (`GivenOrdered`); what was taken from the first part was given out or is in the buffer (`FileKept`), so that unlinking it drops nothing; without torn records every cell is in a whole one (`FileSound`). At most `ChunkLen` cells of a part are not flushed, and only in the first and the last part (`FileDirty`), which gives the two events at risk |
| `LinkProofs!WriterCorrect`, `ReaderCorrect` | `WriterInv`, `ReaderInv` of `TcpConnection` | `_write_queue_has_events` tells the truth about `_write_queue` whoever writes it, what is sent is in that queue, a client takes no more acknowledgements than there are; without a doubled start at most one read is outstanding, none after an error |
| `LinkProofs!LinkCorrect` | `LinkInv` | which events the counts stand for: muxer, queue file and packets hold consecutive numbers, the events below have been received or cannot be decoded, and all counts together reach exactly from the first event of the muxer to them |
| `LinkProofs!NegotiationCorrect` | `NegotiationInv` | all that an end writes is one stream whose blocks have a fixed place; what the other end has taken, holds in `_packet` and will find on the connection is a prefix of it in order; and the ends are never so far apart that one writes through a layer which the other would take for something else |
| `EndpointsProofs!AccFeeds` | `AcceptorInv` | every connection has a number and a muxer of its own; what its peer was sent, what the muxer holds in memory and what is in its file make up, in this order, what was left in the file and then every event since it subscribed |
| `EndpointsProofs!LuaAcknowledges` | `LuaAcks` | every event is in one place between the muxer and the script, in consecutive numbers, and every acknowledgement in one of the counters of the two threads |
| `EndpointsProofs!GraphsKept` | `GraphKept` of `RrdGraphs` | the property only speaks of moments when nothing is on its way; in between, the rows in the file, in the channel and still to be sent are, in this order, the first checks, every later check not known to be missing is in the list or the channel with only smaller ones before it, and one end event follows (`Within`) |
| `FailoverProofs!FailoverCorrect` | `FailoverInv` | who has asked a node to exit waits for it, a node that was not launched does not run, behind a node that has stopped nothing runs; the position in the muxer is what the stream has acknowledged, then what it holds, then the event being written |
| `FailoverProofs!WatchdogCorrect` | `WatchdogInv` | every process is that of an instance or is the one being stopped; without a failed fork instances have processes of their own; in each phase of a reload, which instances are those of the old file and which of the new one |
| `FailoverProofs!AppliedCorrect` | `AppliedInv` | halfway through the comparison, nothing that was taken refers to what is left of the list, so that a root of what is left is a root of the whole; for each root compared, what runs is kept or will be created, so that nothing which is deleted was asked for |
| `MysqlProofs!MysqlCorrect` | `MysqlInv` | who has sent a task that others wait for waits for it himself; the commit is the last task of its user in each list; the counter of a commit is the number of connections that have not answered; a query neither stored nor reported is in a list, in an open transaction, or was in one that was undone before a commit still to come |
| `MysqlProofs!NebCorrect` | `NebInv` | the table of downtimes holds the parameters of the last event; the acknowledgement whose end is not told yet is the one the module remembers; the objects of the engine are closed under what they refer to |
| `BamReportingProofs!ReportingCorrect` | `ReportingInv` | who holds the mutex of the availability thread; deleted durations are still to be computed by a stream that is connected; the days a build has not written have no row; what is left of a dump goes on where the cache of the stream has stopped |
| `BamReportingProofs!BaTotals`, `BaDowntimes` | `BaInv`, `DowntimeInherited` of `Ba` | the types of impacts and totals, and which impacts each total counts, for each state source (`Totals`); the event of a BA carries its downtime; the last command about a BA that the engine has not executed asks for what the BA inherits, and without one its downtime is the inherited one (`LastAgrees`). For the two levels and three KPIs of the module, any of their states, limit of recomputation and number of commands |
| `ConflictManagerProofs!ManagerDrains`, `ManagerCorrect`, `ManagerKeeps` | `TypeOK`, `NothingForgotten`, `ExitDrains`, `DeadNeedsOverlap` for any memory of `_ack`; `ManagerInv` and `PoppedIsKept` when it was 0 | without an overlap the reference count is the number of open streams and only the last asks for the exit (`Alone`); a timeline goes on where what was counted ends (`Numbered`); a flag is set for what was sent or is safe while the loop can still count (`Flagged`), and what was counted is safe (`Counted`); between two batches nothing is left to commit (`Drained`) |
| `ConflictManagerProofs!SqlParentsVisible`, `SqlRealStateKept` | `ParentsVisible`, `RealStateKept` of `SqlActions` | a row that was created and not committed has its flag, and is on the connection of its poller if it has one; a row that shows the state of the timeout belongs to a poller marked outdated, which `_load_caches()` finds again |

`QueueLemmas` holds the facts the provers need about queues: the elements of a
prefix, a suffix, a concatenation, and sequences of consecutive numbers
(`Follows`).

A proof attempt has found an error in a model: with more messages than the run
has, `RebuildUnseen` of `BamReporting` was false, because an event that is written
again after a restart (opened again, or of length zero) stayed marked as having
its durations deleted.  In the code an open event has no durations to delete, and
computing those of an event without length stores none; `StoreDurations` and
`StartRebuild` now say so.

**Only model-checked**, and why:

* all liveness properties and the fairness they need, and `ENABLED`: out of the
  prover's reach;
* the refinement `ImplementsEventFile`, `PacketsExact`, `PeriodInv`,
  `ExpressionInv`: they compare recursive computations over data (folds over
  cells, bytes, hours or tokens) with a reference, which needs induction over
  data.

## 7. Not modelled

`components` in `PROJECT.json` gives every part with its state.  In short:

* `correlation`: in production its graph of nodes stays empty, `_nodes` is filled
  by `set_state()`, which only the tests call; `notification` is not built by
  default (`CMakeLists.txt:612`).
* graphite, influxdb, generator and simu outputs, `stats`, parsing of the
  configuration, `logging`, `mapping`, conversions of the fields of events in every
  module: formatting and I/O of one thread without state that lives on.
* GnuTLS, zlib, the database server, rrdcached, the Lua interpreter, the
  monitoring engine: external; the models have the outcomes the code reacts to.
* Names of endpoints are taken to be distinct, which the parser does not check.

Of the implementation files of the repository only a tenth of the lines is mapped:
most of the others convert, format, parse or test.
