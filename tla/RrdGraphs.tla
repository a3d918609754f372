------------------------------ MODULE RrdGraphs -----------------------------
(***************************************************************************)
(* Graphs and their rebuild: storage::rebuilder reads the history of an    *)
(* index and publishes it between a start and an end event, while the      *)
(* conflict_manager goes on publishing each new check; rrd::output writes  *)
(* both to the RRD files of the index, one for its metric and one for its  *)
(* status.                                                                 *)
(*                                                                         *)
(* A check is its number, which is also its time.  The two threads of the  *)
(* storage process publish through the engine to the RRD output, which is  *)
(* another process behind a muxer: the channel.  An RRD file takes only    *)
(* values that are later than its last.                                    *)
(***************************************************************************)
EXTENDS Naturals, Sequences, SequencesExt

CONSTANTS
    MaxChecks,      \* bound: checks of the service
    MaxAsks,        \* bound: rebuilds the user asks for
    MaxInFlight,    \* bound: events on their way when another is published
    MaxMishaps      \* bound: crashes, restarts, outages, failing queries

ASSUME GraphAssumption ==
    {MaxChecks, MaxAsks, MaxMishaps} \subseteq Nat /\ MaxInFlight \in Nat \ {0}

VARIABLES
    checks,         \* number of checks published
    perfdata,       \* _perfdata_queue
    dataBin,        \* the table data_bin
    flag,           \* must_be_rebuild of the index
    rpc, graph,     \* rebuilder::_run: where it is, and the graph it sends
    rows,           \* rows of data_bin not sent yet
    stopping,       \* the destructor of the rebuilder: "no", "asked", "joined"
    dbUp,           \* the database answers
    channel,        \* events on their way to the RRD output
    held,           \* _metrics_rebuild and _status_rebuild: NoCache or a list
    rrd,            \* what the RRD file holds, NoFile if there is none
    missing,        \* history: checks a rebuild could not know of
    started,        \* history: checks published before a start event, until the SELECT
    spoiled,        \* history: a mishap fell into a rebuild of the graph
    orphan,         \* history: a start event will get no end event
    asks, mishaps

Graph == {"metric", "status"}
NoCache == <<0>>
NoFile == {}

senderVars == <<checks, perfdata, dataBin, flag, rpc, graph, rows, stopping, dbUp>>
historyVars == <<missing, started, spoiled, orphan>>
rrdVars == <<senderVars, channel, held, rrd, historyVars, asks, mishaps>>

Checked(g, t) == [type |-> "live", graph |-> g, time |-> t]
Stored(g, t) == [type |-> "row", graph |-> g, time |-> t]
Order(type, g) == [type |-> type, graph |-> g, time |-> 0]

ChannelRoom == Len(channel) < MaxInFlight
PublishGraph(e) == ChannelRoom /\ channel' = Append(channel, e)

-----------------------------------------------------------------------------
(* conflict_manager, storage side. *)

(* _storage_process_service_status: the status goes out, the perfdata is   *)
(* queued and goes out too.                                                *)
StoragePublish ==
    /\ checks < MaxChecks /\ ChannelRoom
    /\ checks' = checks + 1
    /\ perfdata' = Append(perfdata, checks')
    /\ channel' = channel \o <<Checked("status", checks'), Checked("metric", checks')>>
    /\ UNCHANGED <<dataBin, flag, rpc, graph, rows, stopping, dbUp, held, rrd,
                   historyVars, asks, mishaps>>

StoreChecks ==
    /\ perfdata # <<>> /\ dbUp
    /\ dataBin' = dataBin \union ToSet(perfdata)
    /\ perfdata' = <<>>
    /\ UNCHANGED <<checks, flag, rpc, graph, rows, stopping, dbUp, channel, held,
                   rrd, historyVars, asks, mishaps>>

(* _check_deleted_index, for another index the user has deleted: the event *)
(* names an index_id that was never set, so that any graph may go, this    *)
(* one too.                                                                *)
RemoveGraph ==
    /\ mishaps < MaxMishaps /\ dbUp
    /\ mishaps' = mishaps + 1
    /\ PublishGraph(Order("remove", "status"))
    /\ spoiled' = [spoiled EXCEPT !["status"] = TRUE]
    /\ UNCHANGED <<senderVars, held, rrd, missing, started, orphan, asks>>

-----------------------------------------------------------------------------
(* storage::rebuilder.  Its thread holds _mutex_should_exit except while   *)
(* it waits.                                                               *)
AskRebuild ==
    /\ asks < MaxAsks /\ flag # 1
    /\ asks' = asks + 1
    /\ flag' = 1
    /\ UNCHANGED <<checks, perfdata, dataBin, rpc, graph, rows, stopping, dbUp,
                   channel, held, rrd, historyVars, mishaps>>

Proceed(place) ==
    /\ rpc' = place
    /\ UNCHANGED <<checks, perfdata, dataBin, stopping, dbUp, held, rrd, asks, mishaps>>

(* The connection is opened, which waits for the server. *)
OpenDb ==
    /\ rpc = "wait" /\ stopping # "joined" /\ dbUp
    /\ Proceed("next")
    /\ UNCHANGED <<flag, graph, rows, channel, historyVars>>

(* _next_index_to_rebuild, and must_be_rebuild is set to 2. *)
NextIndexToRebuild ==
    /\ rpc = "next" /\ dbUp
    /\ IF flag = 1 THEN Proceed("start") /\ flag' = 2
                   ELSE Proceed("wait") /\ UNCHANGED flag
    /\ UNCHANGED <<graph, rows, channel, historyVars>>

SendRebuildStart ==
    /\ rpc = "start"
    /\ PublishGraph(Order("start", graph))
    /\ started' = checks
    /\ spoiled' = [spoiled EXCEPT ![graph] = FALSE]
    /\ orphan' = [orphan EXCEPT ![graph] = FALSE]
    /\ Proceed("select")
    /\ UNCHANGED <<flag, graph, rows, missing>>

(* _rebuild_metric, _rebuild_status: the SELECT, its rows by their time,   *)
(* the end.                                                                *)
SelectData ==
    /\ rpc = "select" /\ dbUp
    /\ rows' = dataBin
    /\ missing' = [missing EXCEPT ![graph] = (1 .. started) \ dataBin]
    /\ started' = 0
    /\ Proceed("rows")
    /\ UNCHANGED <<flag, graph, channel, spoiled, orphan>>

SendRow ==
    /\ rpc = "rows"
    /\ \E t \in rows :
          /\ \A u \in rows : t <= u
          /\ PublishGraph(Stored(graph, t))
          /\ rows' = rows \ {t}
    /\ Proceed("rows")
    /\ UNCHANGED <<flag, graph, historyVars>>

SendRebuildEnd ==
    /\ rpc = "rows" /\ rows = {}
    /\ PublishGraph(Order("end", graph))
    /\ IF graph = "metric" THEN graph' = "status" /\ Proceed("start")
                           ELSE graph' = "metric" /\ Proceed("done")
    /\ UNCHANGED <<flag, rows, historyVars>>

(* A query that fails is answered by the end event and by must_be_rebuild  *)
(* = 1; without a server that update throws as well and 2 remains.         *)
RebuildFails ==
    /\ rpc \in {"select", "rows"}
    /\ dbUp => mishaps < MaxMishaps
    /\ mishaps' = IF dbUp THEN mishaps + 1 ELSE mishaps
    /\ PublishGraph(Order("end", graph))
    /\ flag' = IF dbUp THEN 1 ELSE flag
    /\ rows' = {}
    /\ spoiled' = [spoiled EXCEPT ![graph] = TRUE]
    /\ rpc' = "wait" /\ graph' = "metric" /\ started' = 0
    /\ UNCHANGED <<checks, perfdata, dataBin, stopping, dbUp, held, rrd, missing, orphan,
                   asks>>

SetRebuilt ==
    /\ rpc = "done"
    /\ flag' = IF dbUp THEN 0 ELSE flag
    /\ Proceed(IF dbUp THEN "next" ELSE "wait")
    /\ UNCHANGED <<graph, rows, channel, historyVars>>

ConnectionLost ==
    /\ rpc = "next" /\ ~dbUp
    /\ Proceed("wait")
    /\ UNCHANGED <<flag, graph, rows, channel, historyVars>>

Rebuilder ==
    \/ OpenDb \/ NextIndexToRebuild \/ SendRebuildStart \/ SelectData \/ SendRow
    \/ SendRebuildEnd \/ SetRebuilt \/ ConnectionLost
RebuilderStep == Rebuilder \/ RebuildFails

(* ~rebuilder gets the mutex when the thread waits, and joins it. *)
AskStop ==
    /\ stopping = "no" /\ stopping' = "asked"
    /\ UNCHANGED <<checks, perfdata, dataBin, flag, rpc, graph, rows, dbUp, channel,
                   held, rrd, historyVars, asks, mishaps>>

Stop ==
    /\ stopping = "asked" /\ rpc = "wait"
    /\ stopping' = "joined"
    /\ UNCHANGED <<checks, perfdata, dataBin, flag, rpc, graph, rows, dbUp, channel,
                   held, rrd, historyVars, asks, mishaps>>

(* The storage process dies and comes back: what was not acknowledged, the *)
(* perfdata that was not inserted, is processed and published again.       *)
Crash ==
    /\ mishaps < MaxMishaps
    /\ mishaps' = mishaps + 1
    /\ channel' = channel \o [i \in 1 .. 2 * Len(perfdata) |->
                     Checked(IF i % 2 = 1 THEN "status" ELSE "metric",
                             perfdata[(i + 1) \div 2])]
    /\ rpc' = "wait" /\ rows' = {} /\ stopping' = "no"
    /\ graph' = "metric" /\ started' = 0
    /\ spoiled' = [g \in Graph |-> spoiled[g] \/ (rpc \in {"select", "rows"} /\ g = graph)]
    /\ orphan' = [g \in Graph |-> orphan[g] \/ (rpc \in {"select", "rows"} /\ g = graph)]
    /\ UNCHANGED <<checks, perfdata, dataBin, flag, dbUp, held, rrd, missing, asks>>

ServerStops ==
    /\ dbUp /\ mishaps < MaxMishaps
    /\ mishaps' = mishaps + 1
    /\ dbUp' = FALSE
    /\ UNCHANGED <<checks, perfdata, dataBin, flag, rpc, graph, rows, stopping, channel,
                   held, rrd, historyVars, asks>>

ServerStarts ==
    /\ ~dbUp /\ dbUp' = TRUE
    /\ UNCHANGED <<checks, perfdata, dataBin, flag, rpc, graph, rows, stopping, channel,
                   held, rrd, historyVars, asks, mishaps>>

-----------------------------------------------------------------------------
(* rrd::output and its library backend. *)

(* open(), which creates a file that is missing, and update(), for one     *)
(* value and for the values of a list, one by one.                         *)
Update(f, t) == IF \A u \in f : u < t THEN f \union {t} ELSE f
UpdateAll(f, l) ==
    f \union {l[i] : i \in {i \in DOMAIN l : /\ \A u \in f : u < l[i]
                                          /\ \A j \in 1 .. i - 1 : l[j] < l[i]}}

(* Mutant: the start of a rebuild opens no list. *)
WriteStartOpensNothing(g) ==
    rrd' = [rrd EXCEPT ![g] = NoFile] /\ UNCHANGED held

(* A list that is left of a rebuild without end is kept. *)
WriteStart(g) ==
    /\ held' = [held EXCEPT ![g] = IF @ = NoCache THEN <<>> ELSE @]
    /\ rrd' = [rrd EXCEPT ![g] = NoFile]

WriteEnd(g) ==
    /\ held' = [held EXCEPT ![g] = NoCache]
    /\ rrd' = [rrd EXCEPT ![g] =
                  IF held[g] = NoCache THEN @ ELSE UpdateAll(@, held[g])]

WriteRemove(g) ==
    held' = [held EXCEPT ![g] = NoCache] /\ rrd' = [rrd EXCEPT ![g] = NoFile]

WriteValue(e) ==
    IF e.type = "row" \/ held[e.graph] = NoCache
    THEN rrd' = [rrd EXCEPT ![e.graph] = Update(@, e.time)] /\ UNCHANGED held
    ELSE held' = [held EXCEPT ![e.graph] = Append(@, e.time)] /\ UNCHANGED rrd

OutputWrite ==
    /\ channel # <<>>
    /\ LET e == Head(channel)
       IN  CASE e.type = "start" -> WriteStart(e.graph)
             [] e.type = "end" -> WriteEnd(e.graph)
             [] e.type = "remove" -> WriteRemove(e.graph)
             [] OTHER -> WriteValue(e)
    /\ channel' = Tail(channel)
    /\ UNCHANGED <<senderVars, historyVars, asks, mishaps>>

(* The RRD process is started again: its lists were acknowledged and are   *)
(* gone.                                                                   *)
RrdRestart ==
    /\ mishaps < MaxMishaps
    /\ mishaps' = mishaps + 1
    /\ held' = [g \in Graph |-> NoCache]
    /\ spoiled' = [g \in Graph |-> spoiled[g] \/ held[g] # NoCache]
    /\ UNCHANGED <<senderVars, channel, rrd, missing, started, orphan, asks>>

-----------------------------------------------------------------------------
(* One check is in the history and in no file: the RRD output is new. *)
RrdInit ==
    /\ checks = 1 /\ perfdata = <<>> /\ dataBin = {1}
    /\ flag = 0 /\ rpc = "wait" /\ graph = "metric" /\ rows = {}
    /\ stopping = "no" /\ dbUp = TRUE
    /\ channel = <<>>
    /\ held = [g \in Graph |-> NoCache]
    /\ rrd = [g \in Graph |-> NoFile]
    /\ missing = [g \in Graph |-> {1}] /\ started = 0
    /\ spoiled = [g \in Graph |-> FALSE] /\ orphan = [g \in Graph |-> FALSE]
    /\ asks = 0 /\ mishaps = 0

RrdNext ==
    \/ StoragePublish \/ StoreChecks \/ RemoveGraph
    \/ AskRebuild \/ RebuilderStep \/ AskStop \/ Stop
    \/ Crash \/ ServerStops \/ ServerStarts
    \/ OutputWrite \/ RrdRestart

(* Threads run, the database comes back, the stopper gets the mutex it     *)
(* waits for; nobody need ask for a rebuild or a stop.                     *)
RrdSpec ==
    /\ RrdInit /\ [][RrdNext]_rrdVars
    /\ WF_rrdVars(Rebuilder) /\ WF_rrdVars(ServerStarts) /\ WF_rrdVars(OutputWrite)
    /\ SF_rrdVars(Stop)

-----------------------------------------------------------------------------
Rebuilding(g) == rpc \in {"select", "rows"} /\ g = graph

(* When all is written, a graph holds every check, but the ones that were  *)
(* published before a rebuild began and stored after it had read the       *)
(* history; a crash, a restart or a failure in the rebuild itself, or the  *)
(* removal of another index, is excepted until the next rebuild.           *)
GraphKept ==
    \A g \in Graph :
       channel = <<>> /\ held[g] = NoCache /\ ~Rebuilding(g) /\ ~spoiled[g] =>
          (1 .. checks) \ missing[g] \subseteq rrd[g]

(* Again and again all is quiet: a rebuild that is asked for has begun and *)
(* ended, the output keeps no values back, unless the storage process died *)
(* in the rebuild, and nobody waits to destroy the rebuilder.              *)
RebuildLive ==
    []<>(/\ rpc = "wait" /\ stopping # "asked"
         /\ flag # 1 \/ stopping = "joined"
         /\ \A g \in Graph : held[g] = NoCache \/ orphan[g])

(* "Remove associated graph." (conflict_manager_storage.cc:563)  The graph *)
(* of an index that was not deleted stays.                                 *)
OnlyDeletedRemoved ==
    \A i \in DOMAIN channel : channel[i].type # "remove"

=============================================================================
