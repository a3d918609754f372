--------------------------- MODULE ConflictManager ---------------------------
(***************************************************************************)
(* storage::conflict_manager, with its misc::mfifo, the streams that use   *)
(* it (sql::stream, storage::stream) and the mysql connection below it.    *)
(*                                                                         *)
(* The failover threads of the two outputs push events into the fifo of    *)
(* the singleton and receive the number of events they may release from    *)
(* their muxers.  The thread of the manager takes the events out, turns    *)
(* them into queries, and after a commit counts, for each stream, the      *)
(* handled events at the front of its timeline.                            *)
(*                                                                         *)
(* The singleton is created by the sql stream, its thread is started by    *)
(* the storage stream, and it is deleted by the last stream that is        *)
(* destroyed.  Nothing prevents a stream from being opened again before    *)
(* the other one is gone: init_sql then overwrites the pointer, and the    *)
(* old object is leaked with its thread.  Nobody asks it for               *)
(* acknowledgements any more, so the model forgets it; `mgr' is always the *)
(* object the singleton points to.                                         *)
(*                                                                         *)
(* An event <<s, n>> is the n-th event of the muxer of stream s.  Its      *)
(* flag, the bool* of the code, is its membership in `flags'.  Queries are *)
(* the events they come from; the connections of an instance are one       *)
(* connection, whose open transaction is `sent'.                           *)
(***************************************************************************)
EXTENDS Integers, Sequences, SequencesExt, FiniteSets

CONSTANTS
    SqlEvents,      \* number of events of the muxer of the sql output
    StorageEvents,  \* number of events of the muxer of the storage output
    BulkEvents,     \* sql events that are sent, and flagged, by a bulk query
    PerfdataEvents, \* storage events whose perfdata is sent by a bulk query
    IgnoredEvents,  \* storage events of a type that is thrown away
    MaxPending,     \* queries_per_transaction of the sql output
    MaxBulk,        \* queries_per_transaction of the storage output
    InitialAcks,    \* what the memory of mfifo::_ack may hold at construction
    MaxManagers,    \* bound: number of instances
    MaxFaults       \* bound: number of failures of the database

Streams == {"sql", "storage"}
Total == [s \in Streams |-> IF s = "sql" THEN SqlEvents ELSE StorageEvents]
Event == UNION {{s} \X (1 .. Total[s]) : s \in Streams}

Bulk == {"sql"} \X BulkEvents
Perfdata == {"storage"} \X PerfdataEvents
Ignored == {"storage"} \X IgnoredEvents

ASSUME EventsAssumption == SqlEvents \in Nat /\ StorageEvents \in Nat
ASSUME KindsAssumption ==
    /\ BulkEvents \subseteq 1 .. SqlEvents
    /\ PerfdataEvents \subseteq 1 .. StorageEvents
    /\ IgnoredEvents \subseteq (1 .. StorageEvents) \ PerfdataEvents
ASSUME QueriesAssumption == MaxPending \in Nat \ {0} /\ MaxBulk \in Nat
ASSUME InitialAcksAssumption == InitialAcks \subseteq Nat
ASSUME BoundsAssumption == MaxManagers \in Nat /\ MaxFaults \in Nat

VARIABLES
    mgr,            \* the object *_singleton, at "null" when there is none
    stream,         \* of each output: its stream, seen from its failover
    pending,        \* of each output: _pending_events of its stream
    pos,            \* of each output: events its muxer has given since a rewind
    popped,         \* of each output: events released from its muxer
    stored,         \* the events whose query is committed
    process,        \* "up", or "dead" after std::terminate or a null pointer
    failed,         \* history: events whose query was lost by the database
    overlap,        \* history: a stream was opened next to an older one
    made,           \* history: number of instances
    faults          \* history: number of failures of the database

vars == <<mgr, stream, pending, pos, popped, stored, process, failed, overlap,
          made, faults>>

(* The main loop, by the points at which it may be interrupted. *)
LoopPoint ==
    {"none",        \* no thread has been started
     "load",        \* _load_caches
     "check",       \* _check_deleted_index
     "top",         \* while (!_should_exit()), then the bulk queries
     "take",        \* the loop that takes events from the fifo
     "process",     \* the loop over the events that were taken
     "finish",      \* _finish_actions
     "again",       \* while (!_should_exit()) of the outer loop
     "end",         \* after the loop
     "done",        \* the thread has ended
     "null"}        \* there is no object

Instance ==
    [fifo     : Seq(Event),                  \* _fifo._events
     timeline : [Streams -> Seq(Event)],     \* _fifo._timeline, flags apart
     flags    : SUBSET Event,                \* the flags that are true
     ack      : [Streams -> Nat],            \* _fifo._ack
     events   : Seq(Event),                  \* local events of _callback
     bulk     : Seq(Event),                  \* _cv_queue and _log_queue
     perfdata : Seq(Event),                  \* _perfdata_queue and _metrics
     count    : 0 .. MaxPending,             \* local count, see HandleEvent
     at       : LoopPoint,
     exit     : BOOLEAN,                     \* _exit
     broken   : BOOLEAN,                     \* _broken
     refs     : -1 .. 2,                     \* _ref_count, -1 for its wrap
     dropped  : SUBSET Event,                \* history: lost by an exception
     sent     : SUBSET Event,                \* queries not yet committed
     db       : {"ok", "gone", "lost", "statement"}]  \* error of the connection

TypeOK ==
    /\ mgr \in Instance
    /\ stream \in [Streams -> {"closed", "open", "joining", "joining old"}]
    /\ pending \in [Streams -> Int]
    /\ pos \in [Streams -> Nat] /\ popped \in [Streams -> Nat]
    /\ \A s \in Streams : popped[s] <= pos[s] /\ pos[s] <= Total[s]
    /\ stored \subseteq Event /\ failed \subseteq Event
    /\ process \in {"up", "dead"} /\ overlap \in BOOLEAN
    /\ made \in 0 .. MaxManagers /\ faults \in 0 .. MaxFaults

(* conflict_manager::conflict_manager.  mfifo() leaves _ack uninitialized. *)
NewInstance(acks) ==
    [fifo |-> <<>>, timeline |-> [s \in Streams |-> <<>>], flags |-> {},
     ack |-> acks, events |-> <<>>, bulk |-> <<>>, perfdata |-> <<>>,
     count |-> 0, at |-> "none", exit |-> FALSE,
     broken |-> FALSE, refs |-> 1, dropped |-> {}, sent |-> {}, db |-> "ok"]

NoInstance ==
    [NewInstance([s \in Streams |-> 0]) EXCEPT !.at = "null", !.refs = 0]

Init ==
    /\ mgr = NoInstance /\ process = "up"
    /\ stream = [s \in Streams |-> "closed"]
    /\ pending = [s \in Streams |-> 0]
    /\ pos = [s \in Streams |-> 0] /\ popped = [s \in Streams |-> 0]
    /\ stored = {} /\ failed = {}
    /\ overlap = FALSE /\ made = 0 /\ faults = 0

-----------------------------------------------------------------------------
(* The streams, called by the failover threads of the two outputs. *)

loopVars == <<stored, failed, faults>>

(* sql::stream::stream with init_sql.  A thread in unload() goes on        *)
(* waiting for the object it has met.                                      *)
OpenSql ==
    /\ process = "up" /\ stream["sql"] = "closed" /\ made < MaxManagers
    /\ \E acks \in [Streams -> InitialAcks] : mgr' = NewInstance(acks)
    /\ made' = made + 1
    /\ stream' = [sql |-> "open",
                  storage |-> IF stream["storage"] = "joining" THEN "joining old"
                                                               ELSE stream["storage"]]
    /\ overlap' = (overlap \/ mgr.at # "null")
    /\ UNCHANGED <<pending, pos, popped, process, loopVars>>

(* storage::stream::stream with init_storage: waits for a singleton, then  *)
(* starts its thread.  To assign to a joinable thread is std::terminate.   *)
OpenStorage ==
    /\ process = "up" /\ stream["storage"] = "closed" /\ mgr.at # "null"
    /\ overlap' = (overlap \/ mgr.at # "none" \/ mgr.exit)
    /\ process' = IF mgr.at = "none" THEN "up" ELSE "dead"
    /\ mgr' = IF mgr.at = "none" THEN [mgr EXCEPT !.refs = @ + 1, !.at = "load"]
                                 ELSE NoInstance
    /\ stream' = [stream EXCEPT !["storage"] = "open"]
    /\ UNCHANGED <<pending, pos, popped, made, loopVars>>

(* The failover acknowledges count events to its muxer, which pops no more *)
(* than it has given.                                                      *)
Release(s, count) ==
    /\ pending' = [pending EXCEPT ![s] = @ + (pos'[s] - pos[s]) - count]
    /\ popped' = [popped EXCEPT ![s] =
                    IF @ + count <= pos'[s] THEN @ + count ELSE pos'[s]]

(* write() or flush() when instance() is a null pointer. *)
NullInstance(s) ==
    /\ process = "up" /\ stream[s] = "open" /\ mgr.at = "null"
    /\ process' = "dead"
    /\ UNCHANGED <<mgr, stream, pending, pos, popped, overlap, made, loopVars>>

(* stream::write with send_event and mfifo::push. *)
Write(s) ==
    /\ process = "up" /\ stream[s] = "open" /\ mgr.at # "null"
    /\ ~mgr.broken /\ pos[s] < Total[s]
    /\ pos' = [pos EXCEPT ![s] = @ + 1]
    /\ mgr' = [mgr EXCEPT !.fifo = Append(@, <<s, pos'[s]>>),
                          !.timeline[s] = Append(@, <<s, pos'[s]>>),
                          !.ack[s] = 0]
    /\ Release(s, mgr.ack[s])
    /\ UNCHANGED <<stream, process, overlap, made, loopVars>>

(* stream::flush with get_acks. *)
Flush(s) ==
    /\ process = "up" /\ stream[s] = "open" /\ mgr.at # "null"
    /\ ~mgr.broken /\ mgr.ack[s] > 0
    /\ pos' = pos
    /\ mgr' = [mgr EXCEPT !.ack[s] = 0]
    /\ Release(s, mgr.ack[s])
    /\ UNCHANGED <<stream, process, overlap, made, loopVars>>

(* The stream is destroyed because send_event or get_acks has thrown or    *)
(* the failover is told to stop: unload() up to the join of __exit.  The   *)
(* failover rewinds its muxer.                                             *)
Unload(s) ==
    LET last == mgr.at # "null" /\ mgr.refs = 1 IN
    /\ process = "up" /\ stream[s] = "open"
    /\ mgr' = IF mgr.at = "null" THEN mgr
              ELSE [mgr EXCEPT !.refs = @ - 1, !.exit = @ \/ last]
    /\ stream' = [stream EXCEPT ![s] = IF last THEN "joining" ELSE "closed"]
    /\ pending' = [pending EXCEPT ![s] = 0]
    /\ pos' = [pos EXCEPT ![s] = popped[s]]
    /\ UNCHANGED <<popped, process, overlap, made, loopVars>>

(* The rest of unload() when the thread it waits for has ended: it deletes *)
(* what the singleton is by then.  ~mysql commits; to destroy a joinable   *)
(* thread is std::terminate.                                               *)
Join(s) ==
    /\ process = "up"
    /\ \/ stream[s] = "joining" /\ mgr.at \in {"none", "done", "null"}
       \/ stream[s] = "joining old"
    /\ stream' = [stream EXCEPT ![s] = "closed"]
    /\ stored' = stored \union mgr.sent
    /\ process' = IF stream[s] = "joining" \/ mgr.at \in {"none", "null"}
                  THEN "up" ELSE "dead"
    /\ mgr' = NoInstance
    /\ UNCHANGED <<pending, pos, popped, overlap, made, failed, faults>>

-----------------------------------------------------------------------------
(* The thread of the manager: conflict_manager::_callback. *)

streamVars == <<stream, pending, pos, popped, process, overlap, made>>

(* _should_exit *)
ShouldExit(m) == m.broken \/ (m.exit /\ m.fifo = <<>>)

At(point) == process = "up" /\ mgr.at = point

(* Step of the manager to the state m, committing what it has sent or not. *)
(* The transaction of a connection that is gone is empty, so that a commit *)
(* that fails stores nothing; mysql::commit returns all the same.          *)
Continue(m, commit) ==
    /\ mgr' = [m EXCEPT !.sent = IF commit THEN @ \ mgr.sent ELSE @]
    /\ stored' = IF commit THEN stored \union mgr.sent ELSE stored
    /\ UNCHANGED <<failed, faults, streamVars>>

(* An exception is caught: the first two steps break the instance; in the  *)
(* main loop the local deque is destroyed.                                 *)
Caught(m) ==
    CASE m.at = "load" -> [m EXCEPT !.broken = TRUE, !.at = "check"]
      [] m.at = "check" -> [m EXCEPT !.broken = TRUE, !.at = "end"]
      [] OTHER ->
           [m EXCEPT !.events = <<>>, !.dropped = @ \union ToSet(m.events),
                     !.count = 0,
                     !.broken = @ \/ m.db = "gone", !.at = "again"]

Throw(m) == Continue(Caught(m), FALSE)

(* A query whose result is waited for fails, in state m.  The connection   *)
(* is in error already, or the server is gone or lost (the transaction is  *)
(* rolled back), or it is an error of this query only.                     *)
QueryFails(m) ==
    \/ /\ m.db # "ok"
       /\ Throw(m)
    \/ \E kind \in {"ok", "gone", "lost"} :
         /\ m.db = "ok" /\ faults < MaxFaults
         /\ faults' = faults + 1
         /\ IF kind = "ok"
            THEN mgr' = Caught(m) /\ failed' = failed
            ELSE /\ mgr' = Caught([m EXCEPT !.db = kind, !.sent = {}])
                 /\ failed' = failed \union m.sent
         /\ UNCHANGED <<stored, streamVars>>

(* _load_caches *)
LoadCaches ==
    /\ At("load")
    /\ \/ mgr.db = "ok" /\ Continue([mgr EXCEPT !.at = "check"], FALSE)
       \/ QueryFails(mgr)

(* _check_deleted_index *)
CheckDeletedIndex ==
    /\ At("check")
    /\ \/ mgr.db = "ok" /\ Continue([mgr EXCEPT !.at = "top"], FALSE)
       \/ QueryFails(mgr)

(* _insert_perfdatas and _update_metrics: one query for the queue. *)
InsertPerfdatas(m) ==
    [m EXCEPT !.sent = @ \union ToSet(m.perfdata), !.perfdata = <<>>]

(* _update_customvariables and _insert_logs: one query for the queue; its  *)
(* events have their flags from now on.                                    *)
UpdateCustomvariables(m) ==
    [m EXCEPT !.sent = @ \union ToSet(m.bulk),
              !.flags = @ \union ToSet(m.bulk), !.bulk = <<>>]

(* The top of the loop: _insert_perfdatas, _update_metrics,                *)
(* _update_customvariables (that may commit first) and _insert_logs.       *)
(* run_query throws when the connection is in error: the perfdata queue is *)
(* empty by then, and the first event of the bulk query has its flag.      *)
BulkQueries ==
    LET m == mgr IN
    /\ At("top")
    /\ IF ShouldExit(m) THEN Continue([m EXCEPT !.at = "again"], FALSE)
       ELSE \/ /\ m.db = "ok" \/ m.perfdata \o m.bulk = <<>>
               /\ \E commit \in {c \in BOOLEAN : c => m.bulk # <<>>} :
                    Continue([UpdateCustomvariables(InsertPerfdatas(m))
                                EXCEPT !.at = "take"], commit)
            \/ /\ m.db # "ok" /\ m.perfdata # <<>>
               /\ Throw([m EXCEPT !.perfdata = <<>>])
            \/ /\ m.db # "ok" /\ m.perfdata = <<>> /\ m.bulk # <<>>
               /\ Throw([m EXCEPT !.flags = @ \union {Head(m.bulk)}])

(* Mutant of FirstEvents: an empty fifo is polled even when _exit is set. *)
FirstEventsForever ==
    LET m == mgr IN
    /\ At("take")
    /\ \/ /\ m.count = MaxPending
          /\ Continue([m EXCEPT !.count = 0, !.at = "finish"], FALSE)
       \/ /\ m.count < MaxPending /\ m.fifo # <<>>
          /\ Continue([m EXCEPT !.events = m.fifo, !.fifo = <<>>,
                                !.at = "process"], FALSE)

(* The condition of the loop over the fifo and first_events.  An empty     *)
(* fifo is polled again and again: the clock is not read then.             *)
FirstEvents ==
    LET m == mgr IN
    /\ At("take")
    /\ \/ /\ m.count = MaxPending
          /\ Continue([m EXCEPT !.count = 0, !.at = "finish"], FALSE)
       \/ /\ m.count < MaxPending /\ m.fifo # <<>>
          /\ Continue([m EXCEPT !.events = m.fifo, !.fifo = <<>>,
                                !.at = "process"], FALSE)
       \/ /\ m.count < MaxPending /\ m.fifo = <<>> /\ ShouldExit(m)
          /\ Continue([m EXCEPT !.count = 0, !.at = "finish"], FALSE)

(* _process_custom_variable and _process_log queue what they have to send. *)
ProcessCustomVariable(m, e) == [m EXCEPT !.bulk = Append(@, e)]

(* _storage_process_service_status queues perfdata and sets the flag. *)
StorageProcessServiceStatus(m, e) ==
    [m EXCEPT !.perfdata = Append(@, e), !.flags = @ \union {e}]

(* The other handlers send their query, then set the flag. *)
ProcessNeb(m, e) ==
    [m EXCEPT !.sent = @ \union {e}, !.flags = @ \union {e}]

(* Mutant of Handled: a handler returns without setting the flag. *)
HandledNoFlag(m, e) ==
    CASE e \in Ignored -> m
      [] e \in Bulk -> ProcessCustomVariable(m, e)
      [] e \in Perfdata -> StorageProcessServiceStatus(m, e)
      [] OTHER -> [m EXCEPT !.sent = @ \union {e}]

(* What the handler of event e has done to m when it returns. *)
Handled(m, e) ==
    CASE e \in Ignored -> [m EXCEPT !.flags = @ \union {e}]
      [] e \in Bulk -> ProcessCustomVariable(m, e)
      [] e \in Perfdata -> StorageProcessServiceStatus(m, e)
      [] OTHER -> ProcessNeb(m, e)

(* One event of the local deque: its handler, which may commit first       *)
(* (_finish_action), and the clock.  When the time of the batch is over    *)
(* count is MaxPending, which ends it in the same way.                     *)
HandleEvent ==
    LET m == mgr
        e == Head(m.events)
        taken == [m EXCEPT !.events = Tail(@),
                           !.at = IF Tail(m.events) = <<>> THEN "take" ELSE "process"]
    IN
    /\ At("process")
    /\ \/ /\ m.db = "ok" \/ e \in Ignored \union Bulk \union Perfdata
          /\ \E count \in {IF m.count < MaxPending THEN m.count + 1 ELSE MaxPending,
                           MaxPending},
                commit \in {c \in BOOLEAN : c => e \notin Ignored \union Bulk} :
               Continue([Handled(taken, e) EXCEPT !.count = count], commit)
       \/ /\ e \notin Ignored \union Bulk
          /\ QueryFails([taken EXCEPT !.dropped = @ \union {e}])

(* A queue that has grown too long is sent after an event, at most once in *)
(* ten seconds.                                                            *)
BulkInLoop ==
    LET m == mgr IN
    /\ At("process") \/ (At("take") /\ m.count > 0)
    /\ \/ /\ Len(m.perfdata) > MaxBulk
          /\ IF m.db = "ok"
             THEN Continue(InsertPerfdatas(m), FALSE)
             ELSE Throw([m EXCEPT !.perfdata = <<>>])
       \/ /\ Len(m.bulk) > MaxBulk
          /\ IF m.db = "ok"
             THEN \E commit \in BOOLEAN :
                    Continue(UpdateCustomvariables(m), commit)
             ELSE Throw([m EXCEPT !.flags = @ \union {Head(m.bulk)}])

(* mfifo::clean: the number of events at the front that have their flag. *)
Clean(m, s) ==
    Cardinality({k \in 1 .. Len(m.timeline[s]) :
                   \A j \in 1 .. k : m.timeline[s][j] \in m.flags})

(* Mutant of FinishActions: the timelines are cleaned before the commit. *)
FinishActionsEarly ==
    LET rest == [s \in Streams |-> SubSeq(mgr.timeline[s], Clean(mgr, s) + 1,
                                          Len(mgr.timeline[s]))]
    IN
    /\ At("finish")
    /\ Continue([mgr EXCEPT
         !.ack = [s \in Streams |-> @[s] + Clean(mgr, s)],
         !.timeline = rest,
         !.flags = @ \intersect UNION {ToSet(rest[s]) : s \in Streams},
         !.at = "top"], FALSE)

(* _finish_actions: commit, then clean the two timelines.                  *)
(* _update_hosts_and_services_of_unresponsive_instances runs queries when  *)
(* an instance has become outdated.                                        *)
FinishActions ==
    LET rest == [s \in Streams |-> SubSeq(mgr.timeline[s], Clean(mgr, s) + 1,
                                          Len(mgr.timeline[s]))]
        m == [mgr EXCEPT
                !.ack = [s \in Streams |-> @[s] + Clean(mgr, s)],
                !.timeline = rest,
                !.flags = @ \intersect UNION {ToSet(rest[s]) : s \in Streams},
                !.at = "top"]
    IN
    /\ At("finish")
    /\ \/ Continue(m, TRUE)
       \/ mgr.db # "ok" /\ Continue(Caught(m), TRUE)

(* The condition of the outer loop. *)
Again ==
    /\ At("again")
    /\ Continue([mgr EXCEPT !.at = IF ShouldExit(mgr) THEN "end" ELSE "check"],
                FALSE)

(* After the loop: a broken instance waits until _exit is false, which is  *)
(* for ever when it is true.                                               *)
End ==
    /\ At("end") /\ ~(mgr.broken /\ mgr.exit)
    /\ Continue([mgr EXCEPT !.at = "done"], FALSE)

Loop ==
    \/ LoadCaches \/ CheckDeletedIndex \/ BulkQueries \/ FirstEvents
    \/ HandleEvent \/ BulkInLoop \/ FinishActions
    \/ Again \/ End

-----------------------------------------------------------------------------
(* The thread of the mysql connection meets an error while it runs the     *)
(* queries that were sent: the server is gone or lost, or one statement    *)
(* fails for good.                                                         *)
ConnectionError ==
    LET m == mgr IN
    /\ process = "up" /\ m.db = "ok" /\ m.sent # {} /\ faults < MaxFaults
    /\ \/ \E kind \in {"gone", "lost"} :
            /\ mgr' = [mgr EXCEPT !.db = kind, !.sent = {}]
            /\ failed' = failed \union m.sent
       \/ \E e \in m.sent :
            /\ mgr' = [mgr EXCEPT !.db = "statement", !.sent = @ \ {e}]
            /\ failed' = failed \union {e}
    /\ faults' = faults + 1
    /\ UNCHANGED <<stored, streamVars>>

Next ==
    \/ OpenSql \/ OpenStorage
    \/ \E s \in Streams : NullInstance(s) \/ Write(s) \/ Flush(s) \/ Unload(s)
                            \/ Join(s)
    \/ Loop \/ ConnectionError

Spec == Init /\ [][Next]_vars

(* The thread of the manager runs, and a join returns when the thread has  *)
(* ended.  Nothing makes outputs write, flush, stop or start.              *)
Fairness ==
    /\ WF_vars(Loop)
    /\ \A s \in Streams : WF_vars(Join(s))

FairSpec == Spec /\ Fairness

-----------------------------------------------------------------------------
(* Properties. *)

Popped == {e \in Event : e[2] <= popped[e[1]]}
Ended == {"again", "end", "done", "null"}

(* A stream is never told to release more events than it has written since *)
(* it was opened: _pending_events does not become negative, provided no    *)
(* output was opened next to an older one.                                 *)
PendingNotNegative ==
    overlap \/ \A s \in Streams : pending[s] >= 0

(* send_event() and get_acks() release an event only after a commit that   *)
(* covers its query, or when the database has refused that query.  Events  *)
(* without a query and the perfdata of a service status are apart.         *)
PoppedIsStored ==
    overlap \/
      \A e \in Popped : e \in stored \union failed \union Ignored \union Perfdata

(* Perfdata is released before it is sent.  Until the loop of the first    *)
(* instance has ended or the database has failed, it is in memory or       *)
(* stored.                                                                 *)
PerfdataKept ==
    (made = 1 /\ mgr.at \notin Ended /\ mgr.db = "ok") =>
      \A e \in Popped \intersect Perfdata :
        e \in stored \union mgr.sent \union ToSet(mgr.perfdata)

(* An event of a timeline without its flag, which holds back all events    *)
(* behind it, is still to be handled; only an exception of the loop makes  *)
(* the instance forget one.                                                *)
NothingForgotten ==
    \A s \in Streams :
      ToSet(mgr.timeline[s]) \subseteq
        mgr.flags \union mgr.dropped
          \union ToSet(mgr.fifo \o mgr.events \o mgr.bulk)

(* A thread that ends without being broken has taken all it was given and, *)
(* unless an exception has interrupted it, committed all its queries,      *)
(* provided no output was opened next to an older one.                     *)
ExitDrains ==
    (mgr.at = "done" /\ ~mgr.broken /\ ~overlap) =>
      /\ mgr.fifo = <<>> /\ mgr.events = <<>>
      /\ mgr.dropped = {} /\ mgr.db = "ok" => mgr.sent = {}

(* The process only dies (std::terminate, null singleton) when an output   *)
(* was opened while the other was still using an older instance.           *)
DeadNeedsOverlap == process = "dead" => overlap

(* The last unload() returns, except when the manager breaks after _exit   *)
(* was set (its thread then waits for _exit to be false) or the singleton  *)
(* is overwritten under it.                                                *)
UnloadReturns ==
    []<>(\/ \A s \in Streams : stream[s] # "joining"
         \/ process = "dead"
         \/ mgr.at = "end" /\ mgr.broken /\ mgr.exit)

(* No event is released that is not stored: mysql::commit() throws when it *)
(* fails, so that _finish_actions() counts events of commits only.         *)
ReleasedAfterCommit ==
    \A e \in Popped : e \in stored \union Ignored \union Perfdata

(* The invariant of the manager: timelines are only held back by events    *)
(* that an exception has dropped or that are still to be handled, no       *)
(* stream is told to release more than it wrote, a thread that ends has    *)
(* drained what it was given, and the process survives.                    *)
ManagerInv ==
    /\ TypeOK /\ NothingForgotten /\ PendingNotNegative
    /\ ExitDrains /\ DeadNeedsOverlap

(* An event that its output may forget is committed, was refused by the    *)
(* database, or is perfdata that is still in memory.                       *)
PoppedIsKept == PoppedIsStored /\ PerfdataKept

=============================================================================
