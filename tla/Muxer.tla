------------------------------- MODULE Muxer -------------------------------
(***************************************************************************)
(* multiplexing::muxer: the event queue between the multiplexing engine    *)
(* and one endpoint.                                                       *)
(*                                                                         *)
(* The engine publishes events into the muxer; one consumer thread         *)
(* (processing::failover or processing::feeder) reads them, acknowledges   *)
(* the ones its stream has dealt with, or asks for all unacknowledged ones *)
(* again.  At most _event_queue_max_size events are meant to be in memory; *)
(* the others go to the queue file.  A persistent muxer writes the events  *)
(* left in memory to a memory file when it is destroyed and loads them     *)
(* back when it is built.                                                  *)
(*                                                                         *)
(* An event is the number of its publication (1, 2, ...), so that the      *)
(* order of events can be compared.  The queue file is the persistent_file *)
(* stack (bbdo, compression, file::splitter): a sequence of events cut in  *)
(* parts of PartMax events.  The read offset lives in memory only, a part  *)
(* is unlinked when the reader meets its end.                              *)
(***************************************************************************)
EXTENDS Naturals, Sequences, FiniteSets, SequencesExt

CONSTANTS
    MaxEvents,      \* bound: number of events the engine publishes
    MaxStarts,      \* bound: number of times the muxer is constructed
    MaxAck,         \* bound: largest count given to ack_events
    PartMax,        \* events per part of the queue file (_max_file_size)
    Limits,         \* values given to event_queue_max_size(uint32_t)
    Unlimited,      \* std::numeric_limits<uint32_t>::max()
    Filtered,       \* events whose type is not in _write_filters
    Persistent      \* _persistent: TRUE for failover, FALSE for feeder

ASSUME BoundsAssumption == /\ MaxEvents \in Nat
                           /\ MaxStarts \in Nat \ {0}
                           /\ MaxAck \in Nat \ {0}
ASSUME PartMaxAssumption == PartMax \in Nat \ {0}
ASSUME LimitsAssumption == /\ Limits \subseteq Nat
                           /\ Limits # {}
                           /\ Unlimited \in Nat \ {0}
ASSUME FilterAssumption == Filtered \subseteq Nat
ASSUME PersistentAssumption == Persistent \in BOOLEAN

VARIABLES
    phase,      \* "down", "load" (in the constructor), "ready" (_mutex free),
                \* "refill" (_mutex held by ack_events)
    events,     \* _events
    pos,        \* _pos, as the number of events before it
    file,       \* _file: "null" or "open"
    disk,       \* content of the undeleted parts of the queue file
    rd,         \* events of the first part that were read since it was opened
    unflushed,  \* number of events, 0 or 1, still in the stdio buffer of the file
    memfile,    \* content of the memory file
    limit,      \* _event_queue_max_size
    next,       \* history: number of the next event
    seen,       \* history: events returned by read()
    acked,      \* history: events popped by ack_events()
    lost,       \* history: events a fault or a non-persistent end has dropped
    starts,     \* history: number of constructions
    raised      \* history: the limit was raised while a queue file was in use

store == <<events, pos, file, disk, rd, unflushed, memfile>>
history == <<next, seen, acked, lost, starts, raised>>
vars == <<phase, store, limit, history>>

Event == 1 .. MaxEvents

(* event_queue_max_size(max): 0 stands for "no limit". *)
EffectiveLimit(max) == IF max = 0 THEN Unlimited ELSE max

LimitRange == {EffectiveLimit(l) : l \in Limits}

(* Every event that memory or a file still holds. *)
Stored == ToSet(events) \union ToSet(disk) \union ToSet(memfile)

TypeOK ==
    /\ phase \in {"down", "load", "ready", "refill"}
    /\ events \in Seq(Event) /\ disk \in Seq(Event) /\ memfile \in Seq(Event)
    /\ pos \in 0 .. Len(events)
    /\ rd \in 0 .. Len(disk) /\ rd <= PartMax
    /\ file \in {"null", "open"} /\ unflushed \in 0 .. 1 /\ raised \in BOOLEAN
    /\ limit \in LimitRange
    /\ next \in 1 .. MaxEvents + 1
    /\ seen \subseteq Event /\ acked \subseteq Event /\ lost \subseteq Event
    /\ starts \in 0 .. MaxStarts

(* The process has not been started yet: nothing in memory or on disk. *)
Init ==
    /\ phase = "down"
    /\ events = <<>> /\ pos = 0
    /\ file = "null" /\ disk = <<>> /\ rd = 0 /\ unflushed = 0
    /\ memfile = <<>>
    /\ limit \in LimitRange
    /\ next = 1 /\ seen = {} /\ acked = {} /\ lost = {}
    /\ starts = 0 /\ raised = FALSE

-----------------------------------------------------------------------------
(* The queue file. *)

(* The reader has met the end of a part that is not the last one. *)
AtPartEnd == rd = PartMax /\ rd < Len(disk)

(* splitter::read at the end of the last part: the part is unlinked, the   *)
(* shutdown exception makes _get_event_from_file release _file.            *)
ReadEof ==
    /\ rd = Len(disk)
    /\ disk' = <<>> /\ rd' = 0 /\ file' = "null" /\ unflushed' = 0

(* Mutant: a part that was read to its end is not unlinked. *)
ReadDiskKeepsParts(e) ==
    /\ rd < Len(disk)
    /\ e = disk[rd + 1]
    /\ disk' = disk
    /\ rd' = rd + 1
    /\ unflushed' = IF Len(disk') > PartMax THEN unflushed ELSE 0
    /\ file' = file

(* splitter::read of one event: a part read to its end is unlinked first.  *)
(* Reading from the part being written seeks in the same FILE, which       *)
(* flushes it.                                                             *)
ReadDisk(e) ==
    /\ rd < Len(disk)
    /\ e = disk[rd + 1]
    /\ disk' = IF AtPartEnd THEN SubSeq(disk, PartMax + 1, Len(disk)) ELSE disk
    /\ rd' = IF AtPartEnd THEN 1 ELSE rd + 1
    /\ unflushed' = IF Len(disk') > PartMax THEN unflushed ELSE 0
    /\ file' = file

-----------------------------------------------------------------------------
(* Construction. *)

(* Constructor, first part: the memory file is read to its end, hence      *)
(* unlinked, whatever its length, and the queue file is opened.            *)
Construct ==
    /\ phase = "down"
    /\ starts < MaxStarts
    /\ phase' = "load"
    /\ events' = (IF Persistent THEN memfile ELSE <<>>)
    /\ memfile' = (IF Persistent THEN <<>> ELSE memfile)
    /\ pos' = 0
    /\ file' = "open" /\ rd' = 0
    /\ starts' = starts + 1
    /\ UNCHANGED <<disk, unflushed, limit, next, seen, acked, lost, raised>>

(* Constructor, one turn of the do-while: at least one read is done, even  *)
(* when the memory file has filled the queue.                              *)
LoadStep ==
    /\ phase = "load"
    /\ \/ /\ ReadEof
          /\ phase' = "ready"
          /\ UNCHANGED events
       \/ \E e \in Event :
            /\ ReadDisk(e)
            /\ events' = Append(events, e)
            /\ phase' = IF Len(events') < limit THEN "load" ELSE "ready"
    /\ UNCHANGED <<pos, memfile, limit, history>>

-----------------------------------------------------------------------------
(* Operations of the living object. *)

(* Mutant: one event too many is kept in memory. *)
PublishOffByOne ==
    /\ phase = "ready"
    /\ next <= MaxEvents
    /\ next' = next + 1
    /\ \/ /\ next \in Filtered
          /\ UNCHANGED <<events, file, disk, unflushed>>
       \/ /\ next \notin Filtered
          /\ Len(events) > limit
          /\ file' = "open"
          /\ disk' = Append(disk, next)
          /\ unflushed' = 1
          /\ UNCHANGED events
       \/ /\ next \notin Filtered
          /\ Len(events) <= limit
          /\ events' = Append(events, next)
          /\ UNCHANGED <<file, disk, unflushed>>
    /\ UNCHANGED <<phase, pos, rd, memfile, limit,
                   seen, acked, lost, starts, raised>>

(* publish(): filter, then memory or queue file. *)
Publish ==
    /\ phase = "ready"
    /\ next <= MaxEvents
    /\ next' = next + 1
    /\ \/ /\ next \in Filtered
          /\ UNCHANGED <<events, file, disk, unflushed>>
       \/ /\ next \notin Filtered
          /\ Len(events) >= limit
          /\ file' = "open"
          /\ disk' = Append(disk, next)
          /\ unflushed' = 1
          /\ UNCHANGED events
       \/ /\ next \notin Filtered
          /\ Len(events) < limit
          /\ events' = Append(events, next)
          /\ UNCHANGED <<file, disk, unflushed>>
    /\ UNCHANGED <<phase, pos, rd, memfile, limit,
                   seen, acked, lost, starts, raised>>

(* read() with an event available. *)
Read ==
    /\ phase = "ready"
    /\ pos < Len(events)
    /\ pos' = pos + 1
    /\ seen' = seen \union {events[pos + 1]}
    /\ UNCHANGED <<phase, events, file, disk, rd, unflushed, memfile, limit,
                   next, acked, lost, starts, raised>>

(* Mutant: the check of begin() against _pos is missing. *)
PoppableUnchecked(count) == IF count < Len(events) THEN count ELSE Len(events)

(* How many of the count events ack_events pops: it stops at _pos. *)
Poppable(count) == IF count < pos THEN count ELSE pos

(* ack_events(count), the pops; the mutex stays locked for the refill. *)
AckEvents(count) ==
    /\ phase = "ready"
    /\ phase' = "refill"
    /\ LET n == Poppable(count)
       IN  /\ acked' = acked \union ToSet(SubSeq(events, 1, n))
           /\ events' = SubSeq(events, n + 1, Len(events))
           /\ pos' = IF n <= pos THEN pos - n ELSE 0
    /\ UNCHANGED <<file, disk, rd, unflushed, memfile, limit,
                   next, seen, lost, starts, raised>>

(* Mutant: the refill stops one event short of the limit. *)
RefillStepOffByOne ==
    /\ phase = "refill"
    /\ \/ /\ Len(events) + 1 < limit /\ file = "open"
          /\ ReadEof
          /\ phase' = "ready"
          /\ UNCHANGED events
       \/ /\ Len(events) + 1 < limit /\ file = "open"
          /\ \E e \in Event : ReadDisk(e) /\ events' = Append(events, e)
          /\ phase' = "refill"
       \/ /\ Len(events) + 1 >= limit \/ file = "null"
          /\ phase' = "ready"
          /\ UNCHANGED <<events, file, disk, rd, unflushed>>
    /\ UNCHANGED <<pos, memfile, limit, history>>

(* ack_events(count), one turn of the loop that fills memory from file. *)
RefillStep ==
    /\ phase = "refill"
    /\ \/ /\ Len(events) < limit /\ file = "open"
          /\ ReadEof
          /\ phase' = "ready"
          /\ UNCHANGED events
       \/ /\ Len(events) < limit /\ file = "open"
          /\ \E e \in Event : ReadDisk(e) /\ events' = Append(events, e)
          /\ phase' = "refill"
       \/ /\ Len(events) >= limit \/ file = "null"
          /\ phase' = "ready"
          /\ UNCHANGED <<events, file, disk, rd, unflushed>>
    /\ UNCHANGED <<pos, memfile, limit, history>>

(* Mutant: the events already read are given up instead of read again. *)
NackEventsDrops ==
    /\ phase = "ready"
    /\ pos' = 0
    /\ events' = SubSeq(events, pos + 1, Len(events))
    /\ UNCHANGED <<phase, file, disk, rd, unflushed, memfile, limit, history>>

(* nack_events(): every unacknowledged event is to be read again. *)
NackEvents ==
    /\ phase = "ready"
    /\ pos' = 0
    /\ UNCHANGED <<phase, events, file, disk, rd, unflushed, memfile, limit, history>>

(* The static limit, set by config::applier::state on every (re)load of    *)
(* the configuration, whatever the muxers are doing.                       *)
SetMaxSize(max) ==
    /\ limit' = EffectiveLimit(max)
    /\ raised' = (raised \/ (limit' > limit /\ file = "open"))
    /\ UNCHANGED <<phase, store, next, seen, acked, lost, starts>>

-----------------------------------------------------------------------------
(* The end of the object or of the process. *)

(* The destructor: the queue file is closed with its read offset           *)
(* forgotten, the first n events of memory reach the memory file, the      *)
(* others are dropped.  An exception, or the end of the process during     *)
(* the backup, stops it at any n.                                          *)
CleanUpTo(n) ==
    /\ phase = "ready"
    /\ starts < MaxStarts
    /\ phase' = "down"
    /\ file' = "null" /\ rd' = 0 /\ unflushed' = 0
    /\ memfile' = memfile \o SubSeq(events, 1, n)
    /\ lost' = lost \union (ToSet(SubSeq(events, n + 1, Len(events)))
                              \ (ToSet(memfile') \union ToSet(disk) \union acked))
    /\ events' = <<>> /\ pos' = 0
    /\ UNCHANGED <<disk, limit, next, seen, acked, starts, raised>>

(* ~muxer(): all of memory is saved, or nothing if not persistent. *)
Clean == CleanUpTo(IF Persistent THEN Len(events) ELSE 0)

CleanInterrupted == Persistent /\ \E n \in 0 .. Len(events) : n < Len(events) /\ CleanUpTo(n)

(* The process dies: memory is gone, and the last write to the queue file  *)
(* if it was still in the stdio buffer.                                    *)
Crash ==
    /\ phase # "down"
    /\ starts < MaxStarts
    /\ phase' = "down"
    /\ \/ disk' = disk
       \/ unflushed > 0 /\ disk # <<>> /\ disk' = Front(disk)
    /\ lost' = lost \union ((ToSet(events) \union ToSet(disk))
                              \ (ToSet(memfile) \union ToSet(disk') \union acked))
    /\ events' = <<>> /\ pos' = 0
    /\ file' = "null" /\ rd' = 0 /\ unflushed' = 0
    /\ UNCHANGED <<memfile, limit, next, seen, acked, starts, raised>>

-----------------------------------------------------------------------------

Next ==
    \/ Construct
    \/ LoadStep
    \/ Publish
    \/ Read
    \/ \E count \in 1 .. MaxAck : AckEvents(count)
    \/ RefillStep
    \/ NackEvents
    \/ \E max \in Limits : SetMaxSize(max)
    \/ Clean
    \/ CleanInterrupted
    \/ Crash

Spec == Init /\ [][Next]_vars

(* The consumer is one thread that in turn reads, hands over and           *)
(* acknowledges, so acknowledgements cannot starve reads nor the other way *)
(* round (strong fairness); loops inside a call and the restart of a       *)
(* stopped process go on (weak fairness).                                  *)
Fairness ==
    /\ WF_vars(Construct) /\ WF_vars(LoadStep) /\ WF_vars(RefillStep)
    /\ SF_vars(Read)
    /\ SF_vars(pos > 0 /\ \E count \in 1 .. MaxAck : AckEvents(count))

FairSpec == Spec /\ Fairness

-----------------------------------------------------------------------------
(* Properties. *)

(* No event disappears by the normal operations: every event published and *)
(* not filtered out has been acknowledged, or is in memory, in the queue   *)
(* file or in the memory file, or a fault has dropped it.  Restarts,       *)
(* spilling to the file, refilling and renewed reads never lose one.       *)
NothingLost ==
    \A n \in 1 .. next - 1 : n \in Filtered \union acked \union Stored \union lost

(* An event leaves the queue as acknowledged only after read() has given   *)
(* it to the consumer: ack_events never pops beyond _pos, even when it is  *)
(* asked for more than was read.                                           *)
AckedWasRead == acked \subseteq seen

(* Events are read for the first time in the order of publication, across  *)
(* memory, queue file, memory file, restarts and renewed reads, unless the *)
(* limit was raised while a queue file was in use (publish() then puts new *)
(* events in memory ahead of the older ones in the file).                  *)
FirstReadInOrder ==
    raised \/ \A n \in seen : \A m \in 1 .. n - 1 :
                 m \in Filtered \union seen \union lost

(* While a queue file is in use and _mutex is free there is something to   *)
(* acknowledge in memory: only ack_events refills memory, so with an empty *)
(* memory the events of the file would never be read.                      *)
NoStrandedFile == (phase = "ready" /\ file = "open") => events # <<>>

(* A muxer that is up without a queue file has no events on disk: _file is *)
(* null only after the end of the last part was met.                       *)
FileClosedMeansEmpty == (phase \in {"ready", "refill"} /\ file = "null") => disk = <<>>

(* Events that were acknowledged can only be found (and hence read again   *)
(* after a restart) in the first part of the queue file.                   *)
RereadOnlyFromFirstPart ==
    \A i \in 1 .. Len(disk) : disk[i] \in acked => i <= PartMax

(* The order of what the consumer reads: first readings in the order of    *)
(* publication, readings after the acknowledgement from the first part.    *)
ReadOrder == FirstReadInOrder /\ RereadOnlyFromFirstPart

(* Memory holds at most the largest limit plus one event per construction  *)
(* after the first: each may read one event more than the limit allows.    *)
MemoryBound ==
    \E l \in LimitRange : Len(events) + Len(memfile) < l + starts

(* Every event that is stored is read, or a fault drops it, provided the   *)
(* consumer does not ask for renewed reads for ever.                       *)
EventuallyRead ==
    (<>[][~NackEvents]_vars) =>
      []<>(Stored \subseteq seen \union lost)

-----------------------------------------------------------------------------
(* What makes the safety properties inductive. *)

(* The events before _pos have been read. *)
ReadIsSeen == \A i \in 1 .. pos : events[i] \in seen

(* The events of the first part that were read from the file are in memory *)
(* or acknowledged: unlinking the part drops nothing.                      *)
PartKept == \A i \in 1 .. rd : disk[i] \in ToSet(events) \union acked

(* A stopped muxer keeps nothing in memory, a live one nothing in the      *)
(* memory file; the queue file is open during the construction.            *)
PhaseOK ==
    /\ phase = "down" => events = <<>> /\ rd = 0
    /\ phase # "down" \/ ~Persistent => memfile = <<>>
    /\ phase = "load" => file = "open"
    /\ phase # "down" => starts > 0

(* The construction under way has not used its extra event yet. *)
LoadSlack ==
    phase = "load" => \E l \in LimitRange : Len(events) + 1 < l + starts

(* The inductive invariant of the muxer: the safety properties and the     *)
(* relations between memory and files that they rest on.                   *)
MuxerInv ==
    /\ TypeOK
    /\ PhaseOK
    /\ ReadIsSeen
    /\ PartKept
    /\ LoadSlack
    /\ NothingLost
    /\ AckedWasRead
    /\ NoStrandedFile
    /\ FileClosedMeansEmpty
    /\ MemoryBound

=============================================================================
