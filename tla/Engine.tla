------------------------------- MODULE Engine -------------------------------
(***************************************************************************)
(* multiplexing::engine: publication of events to the subscribed muxers,   *)
(* its start and stop, and the cache file (persistent_cache) that keeps    *)
(* the events published while the engine is stopped until the next run.    *)
(*                                                                         *)
(* The main thread loads, starts, stops and unloads the engine in the      *)
(* order of config::applier (state::apply, deinit).  Any other thread may  *)
(* publish at any time; publish() holds _engine_m and is one step.  Events *)
(* are numbered in the order of their publication.  A muxer is the         *)
(* sequence of the events its publish() was given.                         *)
(***************************************************************************)
EXTENDS Naturals, Sequences, FiniteSets, SequencesExt, Functions

CONSTANTS
    Muxers,         \* the muxers of the configured endpoints
    EngineEvents,   \* bound: number of events published
    MaxRuns,        \* bound: number of runs of the process
    MaxFaults       \* bound: number of crashes and other faults

ASSUME EngineAssumption == {EngineEvents, MaxRuns, MaxFaults} \subseteq Nat

VARIABLES
    pc,         \* where the main thread is
    wf,         \* _write_func: "nop", "write" or "cache"
    kiew,       \* _kiew
    subs,       \* _muxers
    txn,        \* _cache_file is open with a transaction
    exists,     \* which of the cache files exist
    content,    \* events in each cache file
    got,        \* events each muxer was given, over all runs
    published,  \* history: number of the next event
    forgotten,  \* history: events dropped before all muxers got them
    raced,      \* history: a publish() came between the two steps of start()
    runs,       \* history: number of runs
    faults      \* history: number of faults

memory == <<wf, kiew, subs, txn>>
files == <<exists, content>>
engineVars == <<pc, memory, files, got, published, forgotten, raced, runs, faults>>

EngineEvent == 1 .. EngineEvents
File == {"cache", "new", "old"}     \* .unprocessed and its .new and .old

(* In the order the main thread goes through them. *)
Place == {"down", "loaded", "applied", "starting", "running", "stopping",
          "stopped", "discarded", "cleared", "renaming", "removing"}

EngineTypeOK ==
    /\ pc \in Place
    /\ wf \in {"nop", "write", "cache"}
    /\ kiew \in Seq(EngineEvent)
    /\ subs \in {{}, Muxers}
    /\ txn \in BOOLEAN /\ raced \in BOOLEAN
    /\ exists \subseteq File
    /\ content \in [File -> Seq(EngineEvent)]
    /\ \A f \in File \ exists : content[f] = <<>>
    /\ got \in [Muxers -> Seq(EngineEvent)]
    /\ published \in 1 .. EngineEvents + 1
    /\ forgotten \subseteq EngineEvent
    /\ runs \in 0 .. MaxRuns /\ faults \in 0 .. MaxFaults

EngineInit ==
    /\ pc = "down" /\ wf = "nop" /\ kiew = <<>> /\ subs = {} /\ txn = FALSE
    /\ exists = {} /\ content = [f \in File |-> <<>>]
    /\ got = [m \in Muxers |-> <<>>]
    /\ published = 1 /\ forgotten = {} /\ raced = FALSE /\ runs = 0 /\ faults = 0

-----------------------------------------------------------------------------
(* Delivery. *)

(* _send_to_subscribers() with q in _kiew: every muxer gets it all. *)
Send(q) == got' = [m \in Muxers |-> IF m \in subs THEN got[m] \o q ELSE got[m]]

(* Events every muxer was given. *)
Delivered == {e \in EngineEvent : \A m \in Muxers : e \in ToSet(got[m])}

(* Events that the end of the process does not take away. *)
Safe == Delivered \union UNION {ToSet(content[f]) : f \in File}

(* Events waiting in memory vanish. *)
Forget == forgotten' = forgotten \union (ToSet(kiew) \ Safe)

-----------------------------------------------------------------------------
(* The cache files (persistent_cache). *)

Rename(a, b) ==
    /\ exists' = (exists \ {a}) \union {b}
    /\ content' = [content EXCEPT ![b] = content[a], ![a] = <<>>]

(* _open(): the name the cache file is found under.  After a commit that   *)
(* was cut between its two renames only .old is left, and taken back.      *)
Recovered == IF "cache" \notin exists /\ "old" \in exists THEN "old" ELSE "cache"

(* _open(): the recovery above, then the file is created if missing. *)
OpenCache ==
    LET f == Recovered
    IN  /\ exists' = (exists \ {f}) \union {"cache"}
        /\ content' = [content EXCEPT ![f] = <<>>, !["cache"] = content[f]]

(* _open() followed by transaction(): .new is opened in append mode, with  *)
(* what an earlier run that died before its commit has left there.         *)
OpenTransaction ==
    LET f == Recovered
    IN  /\ exists' = (exists \ {f}) \union {"cache", "new"}
        /\ content' = [content EXCEPT ![f] = <<>>, !["cache"] = content[f]]

-----------------------------------------------------------------------------
(* Publication, by any thread. *)

CanPublish == pc \notin {"down", "renaming", "removing"} /\ published <= EngineEvents

(* publish(): the event is queued, then _write_func handles it. *)
EnginePublish ==
    /\ CanPublish
    /\ published' = published + 1
    /\ raced' = (raced \/ pc = "starting")
    /\ \/ /\ wf = "nop"
          /\ kiew' = Append(kiew, published)
          /\ UNCHANGED <<got, content>>
       \/ /\ wf = "write"
          /\ Send(Append(kiew, published))
          /\ kiew' = <<>>
          /\ UNCHANGED content
       \/ /\ wf = "cache"
          /\ kiew' = Append(kiew, published)
          /\ content' = IF txn THEN [content EXCEPT !["new"] = Append(@, published)]
                               ELSE content
          /\ UNCHANGED got
    /\ UNCHANGED <<pc, wf, subs, txn, exists, forgotten, runs, faults>>

(* publish() when muxer::publish throws (its queue file cannot be opened)  *)
(* for the i-th queued event: the muxers before it in _muxers have got     *)
(* that event, which stays at the head of _kiew.                           *)
PublishFails ==
    /\ CanPublish /\ wf = "write" /\ faults < MaxFaults
    /\ published' = published + 1 /\ faults' = faults + 1
    /\ raced' = (raced \/ pc = "starting")
    /\ LET q == Append(kiew, published)
       IN  \E i \in 1 .. Len(q), before \in SUBSET subs :
             /\ before # subs
             /\ got' = [m \in Muxers |->
                          CASE m \in before -> got[m] \o SubSeq(q, 1, i)
                            [] m \in subs \ before -> got[m] \o SubSeq(q, 1, i - 1)
                            [] OTHER -> got[m]]
             /\ kiew' = SubSeq(q, i, Len(q))
    /\ UNCHANGED <<pc, wf, subs, txn, files, forgotten, runs>>

-----------------------------------------------------------------------------
(* The main thread: start. *)

Load ==
    /\ pc = "down" /\ runs < MaxRuns
    /\ pc' = "loaded" /\ wf' = "nop" /\ kiew' = <<>> /\ runs' = runs + 1
    /\ UNCHANGED <<subs, txn, files, got, published, forgotten, raced, faults>>

(* endpoint::apply: muxers subscribe, the threads of the endpoints run. *)
Apply ==
    /\ pc = "loaded"
    /\ pc' = "applied" /\ subs' = Muxers
    /\ UNCHANGED <<wf, kiew, txn, files, got, published, forgotten, raced, runs, faults>>

(* start(), before it takes _engine_m. *)
StartFlag ==
    /\ pc = "applied"
    /\ pc' = "starting" /\ wf' = "write"
    /\ UNCHANGED <<kiew, subs, txn, files, got, published, forgotten, raced, runs, faults>>

(* Mutant: the queued events are sent but not removed. *)
StartLockedKeepsQueue ==
    /\ pc = "starting"
    /\ pc' = "running"
    /\ OpenCache
    /\ Send(content'["cache"] \o kiew)
    /\ UNCHANGED <<wf, kiew, subs, txn, published, forgotten, raced, runs, faults>>

(* start(), with _engine_m: events of the cache file first, then the ones  *)
(* queued since the engine was loaded.  The cache file keeps its content.  *)
StartLocked ==
    /\ pc = "starting"
    /\ pc' = "running"
    /\ OpenCache
    /\ Send(content'["cache"] \o kiew)
    /\ kiew' = <<>>
    /\ UNCHANGED <<wf, subs, txn, published, forgotten, raced, runs, faults>>

(* The configuration is refused: the engine is unloaded without start(). *)
Abort ==
    /\ pc \in {"loaded", "applied"} /\ faults < MaxFaults
    /\ pc' = "discarded" /\ subs' = {} /\ faults' = faults + 1
    /\ UNCHANGED <<wf, kiew, txn, files, got, published, forgotten, raced, runs>>

-----------------------------------------------------------------------------
(* The main thread: stop. *)

(* stop(): what is queued is sent, _engine_m is released for a while. *)
StopSend ==
    /\ pc = "running"
    /\ pc' = "stopping"
    /\ Send(kiew) /\ kiew' = <<>>
    /\ UNCHANGED <<wf, subs, txn, files, published, forgotten, raced, runs, faults>>

(* stop(): once more as long as something was queued meanwhile, else the   *)
(* transaction on the cache file is started (or fails).                    *)
StopCheck ==
    /\ pc = "stopping"
    /\ \/ /\ kiew # <<>>
          /\ Send(kiew) /\ kiew' = <<>>
          /\ UNCHANGED <<pc, wf, txn, files, faults>>
       \/ /\ kiew = <<>>
          /\ pc' = "stopped" /\ wf' = "cache" /\ txn' = TRUE
          /\ OpenTransaction
          /\ UNCHANGED <<kiew, got, faults>>
       \/ /\ kiew = <<>> /\ faults < MaxFaults
          /\ pc' = "stopped" /\ wf' = "cache" /\ txn' = FALSE
          /\ faults' = faults + 1
          /\ UNCHANGED <<kiew, got, files>>
    /\ UNCHANGED <<subs, published, forgotten, raced, runs>>

(* endpoint::discard: the endpoints and their muxers are deleted. *)
Discard ==
    /\ pc = "stopped"
    /\ pc' = "discarded" /\ subs' = {}
    /\ UNCHANGED <<wf, kiew, txn, files, got, published, forgotten, raced, runs, faults>>

(* engine::clear. *)
Clear ==
    /\ pc = "discarded"
    /\ pc' = "cleared"
    /\ Forget /\ kiew' = <<>>
    /\ UNCHANGED <<wf, subs, txn, files, got, published, raced, runs, faults>>

(* unload() without a transaction: the instance is deleted. *)
UnloadPlain ==
    /\ pc = "cleared" /\ ~txn
    /\ pc' = "down"
    /\ Forget /\ kiew' = <<>>
    /\ UNCHANGED <<wf, subs, txn, files, got, published, raced, runs, faults>>

(* unload(), commit(): first rename. *)
CommitOld ==
    /\ pc = "cleared" /\ txn
    /\ pc' = "renaming"
    /\ Rename("cache", "old")
    /\ UNCHANGED <<memory, got, published, forgotten, raced, runs, faults>>

(* unload(), commit(): second rename. *)
CommitNew ==
    /\ pc = "renaming"
    /\ pc' = "removing"
    /\ Rename("new", "cache")
    /\ UNCHANGED <<memory, got, published, forgotten, raced, runs, faults>>

(* unload(), end of commit() and deletion of the instance. *)
CommitRemove ==
    /\ pc = "removing"
    /\ pc' = "down" /\ txn' = FALSE
    /\ exists' = exists \ {"old"}
    /\ content' = [content EXCEPT !["old"] = <<>>]
    /\ Forget /\ kiew' = <<>>
    /\ UNCHANGED <<wf, subs, got, published, raced, runs, faults>>

(* The process dies: memory is gone, and the last event written to .new    *)
(* may still have been in the stdio buffer.                                *)
EngineCrash ==
    /\ pc # "down" /\ faults < MaxFaults
    /\ pc' = "down" /\ faults' = faults + 1
    /\ wf' = "nop" /\ kiew' = <<>> /\ subs' = {} /\ txn' = FALSE
    /\ \/ UNCHANGED content
       \/ /\ wf = "cache" /\ content["new"] # <<>>
          /\ content' = [content EXCEPT !["new"] = Front(@)]
    /\ UNCHANGED <<exists, got, published, raced, runs>>
    /\ forgotten' = forgotten \union ((ToSet(kiew) \union ToSet(content["new"])) \ Safe')

-----------------------------------------------------------------------------

EngineNext ==
    \/ EnginePublish \/ PublishFails
    \/ Load \/ Apply \/ StartFlag \/ StartLocked \/ Abort
    \/ StopSend \/ StopCheck \/ Discard \/ Clear
    \/ UnloadPlain \/ CommitOld \/ CommitNew \/ CommitRemove
    \/ EngineCrash

EngineSpec == EngineInit /\ [][EngineNext]_engineVars

-----------------------------------------------------------------------------
(* Properties. *)

(* Every event published was given to all muxers, or waits in _kiew or in  *)
(* one of the cache files, or a fault has dropped it: none falls between   *)
(* the stop of one run and the start of the next, whichever step of the    *)
(* replacement of the cache file the process dies in.                      *)
NoEventLost == 1 .. published - 1 \subseteq Safe \union ToSet(kiew) \union forgotten

(* Runs without faults drop nothing: what engine::clear and unload throw   *)
(* away was given to the muxers or is in the cache file.                   *)
CleanRunLosesNothing == faults = 0 => forgotten = {}

(* Without faults no muxer is given an event twice, although an event      *)
(* published while the engine is stopped is both queued and cached.        *)
NoDuplicates == faults = 0 => \A m \in Muxers : IsInjective(got[m])

(* Without faults muxers are given events in the order of publication,     *)
(* over all runs, unless a thread publishes between the two steps of       *)
(* start(): _write_func is set before _engine_m is taken.                  *)
InOrder ==
    (faults = 0 /\ ~raced) =>
      \A m \in Muxers : \A i, j \in 1 .. Len(got[m]) : i < j => got[m][i] <= got[m][j]

(* Events published at any time of the life of the engine survive, in the  *)
(* muxers, in _kiew or in the cache files, and runs without faults drop    *)
(* none.                                                                   *)
EngineKeeps == EngineTypeOK /\ NoEventLost /\ CleanRunLosesNothing

(* What the muxers are given without faults is each event once, in order.  *)
EngineOrder == NoDuplicates /\ InOrder

(* The safety of the engine, over any number of runs and faults. *)
EngineInv == EngineKeeps /\ EngineOrder

=============================================================================
