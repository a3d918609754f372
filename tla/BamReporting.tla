---------------------------- MODULE BamReporting ----------------------------
(***************************************************************************)
(* The reporting of business activities: bam::reporting_stream, which      *)
(* writes the events of BAs and the dimension tables to the database, and  *)
(* bam::availability_thread, which writes one row per BA and day at        *)
(* midnight or when a rebuild is asked for.  Both have a mysql object for  *)
(* the same configuration, hence the same connection and transaction       *)
(* (mysql_manager::get_connections).                                       *)
(*                                                                         *)
(* Time is a number of days: everything that happens on one day happens at *)
(* the same second.  An event, its durations and the availability of a day *)
(* are reduced to their existence, and the dimension tables to the         *)
(* reporting periods of the BAs, which are there or not.                   *)
(***************************************************************************)
EXTENDS Integers, Sequences, FiniteSets

CONSTANTS
    Bas,           \* business activities
    MaxDay,        \* days of a behaviour
    MaxPublished,  \* events the monitoring side publishes
    MaxRebuilds,   \* rebuild signals among them
    MaxFaults      \* clean destructions of the stream and losses of the
                   \* connection to the database

ASSUME ReportingAssumption ==
    /\ Bas # {} /\ IsFiniteSet(Bas) /\ MaxDay \in Nat \ {0}
    /\ MaxPublished \in Nat /\ MaxRebuilds \in Nat /\ MaxFaults \in Nat

VARIABLES
    day,        \* today
    opened,     \* start of the current event of each BA
    queue, pos, \* events not acknowledged, and how many of them are written
    published, rebuilds, faults,   \* bounds
    db, durable,   \* the tables as the connection sees them, and committed
    memory,     \* _timeperiods, _dimension_data_cache, _processing_dimensions
    spc, todo,  \* what the thread of the stream does, events to recompute
    broken,     \* users whose connection is in error
    mutex,      \* availability_thread::_mutex
    apc, first, last, found, until,   \* the availability thread in run()
    should,     \* _should_exit, _should_rebuild_all, _bas_to_rebuild
    notified    \* _wait has been notified

vars == <<day, opened, queue, pos, published, rebuilds, faults,
          db, durable, memory, spc, todo, broken, mutex, apc, first, last,
          found, until, should, notified>>
clock == <<day, opened, published, rebuilds, faults>>
streamVars == <<queue, pos, memory, spc, todo>>
threadVars == <<apc, first, last, found, until>>

Days == 1..MaxDay
NoEnd == 0          \* end_time IS NULL

BaEvents == [ba : Bas, start : Days, end : {NoEnd} \cup Days,
             durations : {"none", "computed", "deleted"}]
Messages ==
    [type : {"ba"}, ba : Bas, start : Days, end : {NoEnd} \cup Days]
        \cup [type : {"rebuild"}, bas : SUBSET Bas]
        \cup [type : {"truncate_start", "dimension", "truncate_end"}]
Tables == [events : SUBSET BaEvents, rows : [Bas \X Days -> 0..2],
           periods : BOOLEAN]

-----------------------------------------------------------------------------
(* The monitoring side, and the days.                                      *)

NextDay ==
    /\ day < MaxDay
    /\ day' = day + 1
    /\ UNCHANGED <<opened, queue, pos, published, rebuilds, faults,
                   db, durable, memory, spc, todo, broken, mutex, apc, first,
                   last, found, until, should, notified>>

Publish(messages) ==
    /\ published + Len(messages) <= MaxPublished
    /\ published' = published + Len(messages)
    /\ queue' = queue \o messages
    /\ UNCHANGED <<day, faults, pos, db, durable, memory, spc,
                   todo, broken, mutex, apc, first, last, found, until, should,
                   notified>>

\* ba::visit: a change closes the event of the old state and opens another.
BaChanges(b) ==
    LET opening == <<[type |-> "ba", ba |-> b, start |-> day, end |-> NoEnd]>>
        closing == <<[type |-> "ba", ba |-> b, start |-> opened[b],
                      end |-> day]>>
    IN  /\ Publish(closing \o opening)
        /\ opened' = [opened EXCEPT ![b] = day]
        /\ UNCHANGED rebuilds

\* reader_v2::_load_dimensions: a dump is published as a whole.
LoadDimensions ==
    /\ Publish(<<[type |-> "truncate_start"],
                 [type |-> "dimension"],
                 [type |-> "truncate_end"]>>)
    /\ UNCHANGED <<opened, rebuilds>>

\* monitoring_stream::_rebuild.
AskRebuild(bas) ==
    /\ rebuilds < MaxRebuilds
    /\ rebuilds' = rebuilds + 1
    /\ Publish(<<[type |-> "rebuild", bas |-> bas]>>)
    /\ UNCHANGED opened

-----------------------------------------------------------------------------
(* The tables.                                                             *)

Same(e, b, start) == e.ba = b /\ e.start = start

\* UPDATE ... WHERE ba_id AND start_time, and INSERT if nothing was found.
StoreEvent(events, m) ==
    IF \E e \in events : Same(e, m.ba, m.start)
    THEN {IF Same(e, m.ba, m.start) THEN [e EXCEPT !.end = m.end] ELSE e :
              e \in events}
    ELSE events \cup {[ba |-> m.ba, start |-> m.start, end |-> m.end,
                       durations |-> "none"]}

\* _compute_event_durations and _process_ba_duration_event for one event: a
\* row per reporting period of the BA, none if it has no period or no length.
StoreDurations(events, b, start) ==
    {IF ~Same(e, b, start) THEN e
     ELSE [e EXCEPT !.durations =
               IF start < e.end /\ memory.periods THEN "computed"
               ELSE IF @ = "deleted" THEN "none" ELSE @] :
         e \in events}

\* _close_inconsistent_events: an open event that is not the last of its BA
\* ends where the next one starts; _close_all_events: the others end now.
Later(events, e) ==
    {f.start : f \in {g \in events : g.ba = e.ba /\ g.start > e.start}}

CloseAllEvents(events) ==
    {IF e.end # NoEnd THEN e
     ELSE [e EXCEPT !.end =
               IF Later(events, e) = {} THEN day
               ELSE CHOOSE t \in Later(events, e) :
                        \A u \in Later(events, e) : t <= u] :
         e \in events}

-----------------------------------------------------------------------------
(* The stream.                                                             *)

Construct ==
    /\ spc = "off"
    /\ memory' = [periods |-> db.periods, cache |-> FALSE,
                  processing |-> FALSE]
    /\ db' = [db EXCEPT !.events = CloseAllEvents(@)]
    /\ pos' = 0
    /\ spc' = "idle"
    /\ broken' = broken \ {"stream"}
    /\ apc' = "start"
    /\ should' = [exit |-> FALSE, rebuild |-> FALSE, bas |-> {}]
    /\ notified' = FALSE
    /\ UNCHANGED <<clock, queue, durable, todo, mutex, first, last, found,
                   until>>

Message == queue[pos + 1]

NextIs(type) ==
    /\ spc = "idle" /\ pos < Len(queue) /\ Message.type = type

Connected == "stream" \notin broken

WriteBaEvent ==
    /\ NextIs("ba") /\ Connected
    /\ db' = [db EXCEPT !.events = StoreEvent(@, Message)]
    /\ IF Message.end # NoEnd /\ Message.start # Message.end
       THEN spc' = "durations" /\ pos' = pos
       ELSE spc' = spc /\ pos' = pos + 1
    /\ UNCHANGED <<clock, queue, memory, todo, durable, broken, mutex,
                   threadVars, should, notified>>

WriteDurations ==
    /\ spc = "durations" /\ Connected
    /\ db' = [db EXCEPT
                !.events = StoreDurations(@, Message.ba, Message.start)]
    /\ spc' = "idle"
    /\ pos' = pos + 1
    /\ UNCHANGED <<clock, queue, memory, todo, durable, broken, mutex,
                   threadVars, should, notified>>

\* _process_dimension_truncate_signal, opening.
TruncateStart ==
    /\ NextIs("truncate_start")
    /\ memory' = [memory EXCEPT !.cache = FALSE, !.processing = TRUE]
    /\ pos' = pos + 1
    /\ UNCHANGED <<clock, queue, spc, todo, db, durable, broken, mutex,
                   threadVars, should, notified>>

\* _process_dimension: kept until the end of the dump, or not handled.
WriteDimension ==
    /\ NextIs("dimension")
    /\ memory' = IF memory.processing
                 THEN [memory EXCEPT !.cache = TRUE]
                 ELSE memory
    /\ pos' = pos + 1
    /\ UNCHANGED <<clock, queue, spc, todo, db, durable, broken, mutex,
                   threadVars, should, notified>>

\* _process_dimension_truncate_signal, closing: with the availability thread
\* locked out the tables are emptied, filled from the cache and committed.
TruncateEnd ==
    /\ NextIs("truncate_end") /\ Connected
    /\ mutex = "free"
    /\ db' = [db EXCEPT !.periods = memory.cache]
    /\ durable' = db'
    /\ memory' = [periods |-> memory.cache, cache |-> FALSE,
                  processing |-> FALSE]
    /\ pos' = pos + 1
    /\ UNCHANGED <<clock, queue, spc, todo, broken, mutex, threadVars, should,
                   notified>>

\* _process_rebuild: delete the durations, compute them again one by one, with
\* the availability thread locked out; then ask it for the availabilities.
\* Those of an event that is open, because it is written once more, are not
\* computed before it is closed.
StartRebuild(lock) ==
    /\ NextIs("rebuild") /\ Connected
    /\ mutex = "free"
    /\ mutex' = lock
    /\ db' = [db EXCEPT !.events =
                {IF e.ba \in Message.bas /\ e.durations = "computed"
                 THEN [e EXCEPT !.durations = IF e.end = NoEnd THEN "none" ELSE "deleted"]
                 ELSE e : e \in @}]
    /\ todo' = {<<e.ba, e.start>> :
                  e \in {f \in db.events :
                           f.ba \in Message.bas /\ f.end # NoEnd}}
    /\ spc' = "rebuild"
    /\ UNCHANGED <<clock, queue, pos, memory, durable, broken, threadVars,
                   should, notified>>

(* Mutant: the rebuild does not take the lock of the thread. *)
RebuildUnlocked == StartRebuild("free")

RebuildLocks == StartRebuild("stream")

RebuildEvent(e) ==
    /\ spc = "rebuild" /\ Connected
    /\ e \in todo
    /\ db' = [db EXCEPT !.events = StoreDurations(@, e[1], e[2])]
    /\ todo' = todo \ {e}
    /\ UNCHANGED <<clock, queue, pos, memory, spc, durable, broken, mutex,
                   threadVars, should, notified>>

EndRebuild ==
    /\ spc = "rebuild" /\ todo = {}
    /\ mutex' = "free"
    /\ spc' = "ask"
    /\ UNCHANGED <<clock, queue, pos, memory, todo, db, durable, broken,
                   threadVars, should, notified>>

\* rebuild_availabilities: the last request replaces the one before.
RebuildAvailabilities ==
    /\ spc = "ask" /\ mutex = "free"
    /\ should' = [should EXCEPT !.rebuild = TRUE, !.bas = Message.bas]
    /\ notified' = (apc = "wait")
    /\ spc' = "idle"
    /\ pos' = pos + 1
    /\ UNCHANGED <<clock, queue, memory, todo, db, durable, broken, mutex,
                   threadVars>>

\* flush(): everything written is acknowledged, whether the commit was done or
\* the connection is lost (mysql_connection::_commit reports no error).
Flush ==
    /\ spc = "idle" /\ pos > 0
    /\ queue' = SubSeq(queue, pos + 1, Len(queue))
    /\ pos' = 0
    /\ durable' = IF Connected THEN db ELSE durable
    /\ UNCHANGED <<clock, memory, spc, todo, db, broken, mutex, threadVars,
                   should, notified>>

\* A query on a lost connection throws out of write(); the lock guard of a
\* rebuild is released and the failover destroys the stream.
Throw ==
    /\ "stream" \in broken
    /\ \/ \E t \in {"ba", "rebuild", "truncate_end"} : NextIs(t)
       \/ spc \in {"durations", "rebuild"}
    /\ mutex' = IF mutex = "stream" THEN "free" ELSE mutex
    /\ todo' = {}
    /\ spc' = "terminate"
    /\ UNCHANGED <<clock, queue, pos, memory, db, durable, broken, threadVars,
                   should, notified>>

\* The endpoint is stopped or the broker ends.
Destroy ==
    /\ spc = "idle"
    /\ faults < MaxFaults
    /\ faults' = faults + 1
    /\ spc' = "terminate"
    /\ UNCHANGED <<day, opened, published, rebuilds, queue, pos,
                   memory, todo, db, durable, broken, mutex, threadVars,
                   should, notified>>

(* Mutant: terminate() does not notify the thread. *)
TerminateSilent ==
    /\ spc = "terminate" /\ mutex = "free"
    /\ should' = [should EXCEPT !.exit = TRUE]
    /\ notified' = FALSE
    /\ spc' = "join"
    /\ UNCHANGED <<clock, queue, pos, memory, todo, db, durable, broken, mutex,
                   threadVars>>

\* availability_thread::terminate.
Terminate ==
    /\ spc = "terminate" /\ mutex = "free"
    /\ should' = [should EXCEPT !.exit = TRUE]
    /\ notified' = (apc = "wait")
    /\ spc' = "join"
    /\ UNCHANGED <<clock, queue, pos, memory, todo, db, durable, broken, mutex,
                   threadVars>>

\* wait() returns; the mysql object of the stream commits when it goes.
Joined ==
    /\ spc = "join" /\ apc = "ended"
    /\ durable' = IF Connected THEN db ELSE durable
    /\ spc' = "off"
    /\ UNCHANGED <<clock, queue, pos, memory, todo, db, broken, mutex,
                   threadVars, should, notified>>

-----------------------------------------------------------------------------
(* The availability thread.                                                *)

\* Beginning of run(), and the wait until the next midnight.
Run ==
    /\ apc = "start" /\ mutex = "free"
    /\ apc' = IF should.exit THEN "ended" ELSE "wait"
    /\ until' = day + 1
    /\ UNCHANGED <<clock, streamVars, db, durable, broken, mutex, first, last,
                   found, should, notified>>

Wake ==
    /\ apc = "wait" /\ mutex = "free"
    /\ notified \/ day >= until
    /\ notified' = FALSE
    /\ IF should.exit THEN apc' = "ended" /\ mutex' = mutex
                      ELSE apc' = "plan" /\ mutex' = "thread"
    /\ UNCHANGED <<clock, streamVars, db, durable, broken, first, last, found,
                   until, should>>

Starts(events) == {e.start : e \in events}
Ends(events) == {e.end : e \in events}
Least(S) == CHOOSE t \in S : \A u \in S : t <= u
Greatest(S) == CHOOSE t \in S : \A u \in S : u <= t
DaysWritten == {d \in Days : \E b \in Bas : db.rows[<<b, d>>] > 0}

\* Beginning of _build_availabilities.  A rebuild starts at the first event of
\* its BAs, goes on to the day of their last event, or to today if one is
\* open, and deletes what they have; otherwise the first day to write is the
\* one after the last day any BA has.
Plan ==
    LET events == {e \in db.events : e.ba \in should.bas}
    IN  /\ apc = "plan"
        /\ IF should.rebuild
           THEN /\ first' = IF events = {} THEN 1 ELSE Least(Starts(events))
                /\ last' = IF events = {} \/ NoEnd \in Ends(events) THEN day
                           ELSE Greatest(Ends(events))
                /\ db' = [db EXCEPT !.rows =
                            [k \in Bas \X Days |->
                                IF k[1] \in should.bas THEN 0 ELSE @[k]]]
           ELSE /\ first' = IF DaysWritten = {} THEN 1
                            ELSE Greatest(DaysWritten) + 1
                /\ last' = day
                /\ db' = db
        /\ apc' = "closed"
        /\ broken' = broken \ {"thread"}
        /\ UNCHANGED <<clock, streamVars, durable, mutex, found, until, should,
                       notified>>

Concerned(e) == should.rebuild => e.ba \in should.bas

\* _build_daily_availabilities, first query: the closed events of the day come
\* from the durations table.
SelectClosed ==
    /\ apc = "closed" /\ "thread" \notin broken
    /\ first < last
    /\ found' = {e.ba : e \in
                   {f \in db.events :
                      /\ Concerned(f) /\ memory.periods
                      /\ f.end # NoEnd /\ f.durations = "computed"
                      /\ f.start <= first /\ first <= f.end}}
    /\ apc' = "opened"
    /\ UNCHANGED <<clock, streamVars, db, durable, broken, mutex, first, last,
                   until, should, notified>>

\* Second query, the events that are still open, and the rows of the day.
WriteDay ==
    /\ apc = "opened" /\ "thread" \notin broken
    /\ LET open == {e.ba : e \in
                      {f \in db.events :
                         /\ Concerned(f) /\ memory.periods
                         /\ f.end = NoEnd /\ f.start <= first}}
       IN  db' = [db EXCEPT !.rows =
                    [k \in Bas \X Days |->
                        IF k[1] \in found \cup open /\ k[2] = first
                        THEN @[k] + 1 ELSE @[k]]]
    /\ first' = first + 1
    /\ found' = {}
    /\ apc' = "closed"
    /\ UNCHANGED <<clock, streamVars, durable, broken, mutex, last, until,
                   should, notified>>

\* Another turn of the loop of run(); the locals of the build are gone.
BackToWait ==
    /\ apc' = "wait" /\ until' = day + 1
    /\ mutex' = "free"
    /\ first' = 1 /\ last' = 1 /\ found' = {}

\* End of the loop of run(): ~mysql commits the connection.
EndBuild ==
    /\ apc = "closed" /\ "thread" \notin broken
    /\ first >= last
    /\ should' = [should EXCEPT !.rebuild = FALSE, !.bas = {}]
    /\ durable' = db
    /\ BackToWait
    /\ UNCHANGED <<clock, streamVars, db, broken, notified>>

\* The catch of run(): what was asked is kept for the next time.
Catch ==
    /\ apc \in {"closed", "opened"} /\ "thread" \in broken
    /\ BackToWait
    /\ broken' = broken \ {"thread"}
    /\ UNCHANGED <<clock, streamVars, db, durable, should, notified>>

\* The server or the network fails: what is not committed is undone.
ConnectionLost ==
    /\ faults < MaxFaults
    /\ faults' = faults + 1
    /\ db' = durable
    /\ broken' = (IF spc = "off" THEN {} ELSE {"stream"}) \cup
                 (IF apc \in {"closed", "opened"} THEN {"thread"} ELSE {})
    /\ UNCHANGED <<day, opened, published, rebuilds, streamVars,
                   durable, mutex, threadVars, should, notified>>

-----------------------------------------------------------------------------
\* The stream has just been constructed; every BA has had an event since the
\* first day.
ReportingInit ==
    /\ day = 1
    /\ opened = [b \in Bas |-> 1]
    /\ queue = <<>> /\ pos = 0
    /\ published = 0 /\ rebuilds = 0 /\ faults = 0
    /\ db = [events |-> [ba : Bas, start : {1}, end : {NoEnd},
                         durations : {"none"}],
             rows |-> [k \in Bas \X Days |-> 0], periods |-> TRUE]
    /\ durable = db
    /\ memory = [periods |-> TRUE, cache |-> FALSE, processing |-> FALSE]
    /\ spc = "idle" /\ todo = {}
    /\ broken = {}
    /\ mutex = "free"
    /\ apc = "start" /\ first = 1 /\ last = 1 /\ found = {} /\ until = 1
    /\ should = [exit |-> FALSE, rebuild |-> FALSE, bas |-> {}]
    /\ notified = FALSE

StreamStep ==
    \/ Construct \/ WriteBaEvent \/ WriteDurations \/ TruncateStart
    \/ WriteDimension \/ TruncateEnd \/ RebuildLocks
    \/ \E e \in todo : RebuildEvent(e)
    \/ EndRebuild \/ RebuildAvailabilities \/ Throw \/ Terminate \/ Joined

ThreadStep ==
    Run \/ Wake \/ Plan \/ SelectClosed \/ WriteDay \/ EndBuild \/ Catch

ReportingNext ==
    \/ NextDay
    \/ \E b \in Bas : BaChanges(b)
    \/ LoadDimensions
    \/ \E bas \in SUBSET Bas \ {{}} : AskRebuild(bas)
    \/ StreamStep
    \/ Flush
    \/ Destroy
    \/ ThreadStep
    \/ ConnectionLost

\* Days pass, and the two threads run.
ReportingSpec ==
    /\ ReportingInit /\ [][ReportingNext]_vars
    /\ WF_vars(NextDay) /\ WF_vars(StreamStep) /\ WF_vars(ThreadStep)

-----------------------------------------------------------------------------
ReportingTypeOK ==
    /\ day \in Days /\ opened \in [Bas -> Days]
    /\ queue \in Seq(Messages) /\ pos \in 0..Len(queue)
    /\ published \in Nat /\ rebuilds \in Nat /\ faults \in Nat
    /\ db \in Tables /\ durable \in Tables
    /\ memory \in [periods : BOOLEAN, cache : BOOLEAN, processing : BOOLEAN]
    /\ spc \in {"off", "idle", "durations", "rebuild", "ask", "terminate",
                "join"}
    /\ todo \subseteq Bas \X Days
    /\ broken \subseteq {"stream", "thread"}
    /\ mutex \in {"free", "stream", "thread"}
    /\ apc \in {"start", "wait", "plan", "closed", "opened", "ended"}
    /\ first \in Nat /\ last \in Days /\ found \subseteq Bas /\ until \in Nat
    /\ should \in [exit : BOOLEAN, rebuild : BOOLEAN, bas : SUBSET Bas]
    /\ notified \in BOOLEAN

Building == apc \in {"plan", "closed", "opened"}

\* The availability table has a unique key: no row is written twice, neither
\* by a night after a rebuild nor by a build that is done again after an error.
OneRow == \A k \in Bas \X Days : db.rows[k] <= 1

\* "We block the availability thread to prevent it waking up on truncated
\* event durations": no day is written while durations are deleted.
RebuildUnseen == Building => \A e \in db.events : e.durations # "deleted"

\* In a run without a restart of the stream the dimension tables, and the
\* reporting periods in memory, are those of a whole dump.
DimensionsKept ==
    faults = 0 /\ spc # "off"
        => db.periods /\ memory.periods

\* The tables of the reporting stay consistent: each row of availability is
\* written once, none from deleted durations, and dumps replace whole tables.
ReportingInv ==
    ReportingTypeOK /\ OneRow /\ RebuildUnseen /\ DimensionsKept

\* A rebuild that was asked for is made, after an error at the next midnight,
\* and the destruction of the stream ends, whatever the thread is doing.
ThreadAnswers ==
    /\ []<>(~should.rebuild \/ day = MaxDay)
    /\ []<>(spc \notin {"terminate", "join"})

\* "As this operation is destructive (it truncates the database), we cache the
\* data until we are sure we have all the data needed": a dump never leaves
\* the dimension tables empty.
DimensionsWhole == db.periods

\* "Bam availability reporting could miss Bas during its availabilities
\* computations. This is fixed.": a night gives a row to every BA that has had
\* an event by then, once all that was published is written.
BasNotMissed ==
    [][(WriteDay /\ ~should.rebuild /\ memory.periods /\ pos = Len(queue))
         => \A e \in db.events :
              e.start <= first => db'.rows[<<e.ba, first>>] > 0]_vars
=============================================================================
