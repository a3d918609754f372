----------------------------- MODULE CoreProofs -----------------------------
(***************************************************************************)
(* Theorems about the retention of events for every value of the           *)
(* constants: any number of events, muxers, limits, part sizes, restarts   *)
(* and faults.                                                             *)
(*                                                                         *)
(* multiplexing::muxer: the inductive invariant adds to the properties     *)
(* what ties the queue file to memory: the events of the first part that   *)
(* were already read are in memory or acknowledged, so that unlinking the  *)
(* part drops nothing.                                                     *)
(*                                                                         *)
(* multiplexing::engine: the inductive invariant says for every place of   *)
(* the main thread which of the queue, the cache file and its replacement  *)
(* hold the events that the muxers were not given yet.                     *)
(*                                                                         *)
(* persistent_file: what the reader still gets is its buffer and the       *)
(* unread end of the first part.  The inductive invariant says that its    *)
(* records and those of the next parts are in order and complete, that     *)
(* what was taken from the first part was given out or is in the buffer,   *)
(* and that a file without torn records consists of whole ones.            *)
(***************************************************************************)
EXTENDS Muxer, Engine, PersistentFile, QueueLemmas, FiniteSetTheorems,
        WellFoundedInduction

(* A limit is never 0: event_queue_max_size(0) means "no limit". *)
LEMMA LimitPositive == LimitRange \subseteq Nat \ {0}
  BY LimitsAssumption DEF LimitRange, EffectiveLimit

(* One read of the queue file keeps its content and offsets well typed. *)
LEMMA ReadDiskType ==
    ASSUME TypeOK, NEW e \in Event, ReadDisk(e)
    PROVE  /\ disk' \in Seq(Event)
           /\ rd' \in 0 .. Len(disk') /\ rd' <= PartMax
           /\ unflushed' \in 0 .. 1 /\ file' \in {"null", "open"}
  <1>1. CASE AtPartEnd
    <2>1. PartMax \in 0 .. Len(disk)
      BY <1>1, PartMaxAssumption DEF AtPartEnd, TypeOK
    <2>2. /\ disk' = SubSeq(disk, PartMax + 1, Len(disk))
          /\ rd' = 1 /\ file' = file 
             /\ unflushed' = IF Len(disk') > PartMax THEN unflushed ELSE 0
      BY <1>1 DEF ReadDisk
    <2>3. disk' \in Seq(Event) /\ Len(disk') = Len(disk) - PartMax
      BY <2>1, <2>2, ToSetCut DEF TypeOK
    <2> QED
      BY <1>1, <2>1, <2>2, <2>3, PartMaxAssumption DEF AtPartEnd, TypeOK
  <1>2. CASE ~AtPartEnd
    BY <1>2, PartMaxAssumption DEF ReadDisk, AtPartEnd, TypeOK
  <1> QED
    BY <1>1, <1>2

(* The end of the queue file likewise. *)
LEMMA ReadEofType ==
    ASSUME TypeOK, ReadEof
    PROVE  /\ disk' = <<>> /\ disk' \in Seq(Event)
           /\ rd' \in 0 .. Len(disk') /\ rd' <= PartMax
           /\ unflushed' \in 0 .. 1 /\ file' \in {"null", "open"}
  BY PartMaxAssumption DEF ReadEof, TypeOK

(* Before the first start every variable has its type. *)
LEMMA TypeInit == Init => TypeOK
  <1>1. Init => raised \in BOOLEAN
    BY Zenon DEF Init
  <1> QED
    BY <1>1, BoundsAssumption, PartMaxAssumption DEF Init, TypeOK

(* Every operation of the muxer keeps the types. *)
LEMMA TypeStep == TypeOK /\ [Next]_vars => TypeOK'
  <1> SUFFICES ASSUME TypeOK, [Next]_vars PROVE TypeOK'
    OBVIOUS
  <1> USE BoundsAssumption, PartMaxAssumption
  <1>1. CASE Construct
    BY <1>1 DEF Construct, TypeOK
  <1>2. CASE LoadStep
    <2>1. CASE ReadEof /\ phase' = "ready" /\ UNCHANGED events
      BY <1>2, <2>1, ReadEofType DEF LoadStep, history, TypeOK
    <2>2. ASSUME NEW e \in Event, ReadDisk(e), events' = Append(events, e),
                 phase' = IF Len(events') < limit THEN "load" ELSE "ready"
          PROVE  TypeOK'
      <3>1. events' \in Seq(Event) /\ Len(events') = Len(events) + 1
        BY <2>2, ToSetAppend DEF TypeOK
      <3> QED
        BY <1>2, <2>2, <3>1, ReadDiskType DEF LoadStep, history, TypeOK
    <2> QED
      BY <1>2, <2>1, <2>2 DEF LoadStep
  <1>3. CASE Publish
    <2>1. next \in Event /\ next' \in 1 .. MaxEvents + 1
      BY <1>3 DEF Publish, TypeOK, Event
    <2>2. CASE next \in Filtered /\ UNCHANGED <<events, file, disk, unflushed>>
      BY <1>3, <2>1, <2>2 DEF Publish, TypeOK
    <2>3. CASE disk' = Append(disk, next) /\ file' = "open" /\ unflushed' = 1
                 /\ UNCHANGED events
      BY <1>3, <2>1, <2>3, ToSetAppend DEF Publish, TypeOK
    <2>4. CASE events' = Append(events, next) /\ UNCHANGED <<file, disk, unflushed>>
      BY <1>3, <2>1, <2>4, ToSetAppend DEF Publish, TypeOK
    <2> QED
      BY <1>3, <2>2, <2>3, <2>4 DEF Publish
  <1>4. CASE Read
    BY <1>4 DEF Read, TypeOK
  <1>5. ASSUME NEW count \in 1 .. MaxAck, AckEvents(count)
        PROVE  TypeOK'
    <2> DEFINE n == Poppable(count)
    <2>1. n \in 0 .. pos /\ n \in 0 .. Len(events)
      BY DEF Poppable, TypeOK
    <2>2. /\ events' = SubSeq(events, n + 1, Len(events))
          /\ acked' = acked \union ToSet(SubSeq(events, 1, n))
          /\ pos' = pos - n
      BY <1>5, <2>1 DEF AckEvents, TypeOK
    <2>3. /\ events' \in Seq(Event) /\ Len(events') = Len(events) - n
          /\ SubSeq(events, 1, n) \in Seq(Event)
      BY SMTT(30), <2>1, <2>2, ToSetCut DEF TypeOK
    <2>4. acked' \subseteq Event
      <3>1. ToSet(SubSeq(events, 1, n)) \subseteq Event
        BY <2>3, ToSetType
      <3> QED
        BY <2>2, <3>1 DEF TypeOK
    <2>5. pos' \in 0 .. Len(events')
      BY <2>1, <2>2, <2>3 DEF TypeOK
    <2> HIDE DEF n
    <2> QED
      BY <1>5, <2>3, <2>4, <2>5 DEF AckEvents, TypeOK
  <1>6. CASE RefillStep
    <2>1. CASE ReadEof /\ phase' = "ready" /\ UNCHANGED events
      BY <1>6, <2>1, ReadEofType DEF RefillStep, history, TypeOK
    <2>2. ASSUME NEW e \in Event, ReadDisk(e), events' = Append(events, e),
                 phase' = "refill"
          PROVE  TypeOK'
      <3>1. events' \in Seq(Event) /\ Len(events') = Len(events) + 1
        BY <2>2, ToSetAppend DEF TypeOK
      <3> QED
        BY <1>6, <2>2, <3>1, ReadDiskType DEF RefillStep, history, TypeOK
    <2>3. CASE phase' = "ready" /\ UNCHANGED <<events, file, disk, rd, unflushed>>
      BY <1>6, <2>3 DEF RefillStep, history, TypeOK
    <2> QED
      BY <1>6, <2>1, <2>2, <2>3 DEF RefillStep
  <1>7. CASE NackEvents
    BY <1>7 DEF NackEvents, history, TypeOK
  <1>8. ASSUME NEW max \in Limits, SetMaxSize(max) PROVE TypeOK'
    BY <1>8 DEF SetMaxSize, store, TypeOK, LimitRange
  <1>9. ASSUME NEW n \in 0 .. Len(events), CleanUpTo(n) PROVE TypeOK'
    <2>1. /\ SubSeq(events, 1, n) \in Seq(Event)
          /\ SubSeq(events, n + 1, Len(events)) \in Seq(Event)
      BY ToSetCut DEF TypeOK
    <2>2. ToSet(SubSeq(events, n + 1, Len(events))) \subseteq Event
      BY <2>1, ToSetType
    <2>3. memfile' \in Seq(Event)
      BY <1>9, <2>1, ToSetConcat DEF CleanUpTo, TypeOK
    <2>4. lost' \subseteq Event
      BY <1>9, <2>2 DEF CleanUpTo, TypeOK
    <2> QED
      BY <1>9, <2>3, <2>4 DEF CleanUpTo, TypeOK
  <1>10. CASE Clean
    <2>1. (IF Persistent THEN Len(events) ELSE 0) \in 0 .. Len(events)
      BY DEF TypeOK
    <2> QED
      BY <1>9, <1>10, <2>1 DEF Clean
  <1>11. CASE CleanInterrupted
    BY <1>9, <1>11 DEF CleanInterrupted
  <1>12. CASE Crash
    <2>1. disk' \in Seq(Event)
      <3>1. CASE disk' = disk
        BY <3>1 DEF TypeOK
      <3>2. CASE disk # <<>> /\ disk' = Front(disk)
        BY <3>2 DEF TypeOK, Front
      <3> QED
        BY <1>12, <3>1, <3>2 DEF Crash
    <2>2. lost' \subseteq Event
      BY <1>12, ToSetMember DEF Crash, TypeOK
    <2> QED
      BY <1>12, <2>1, <2>2 DEF Crash, TypeOK
  <1>13. CASE UNCHANGED vars
    BY <1>13 DEF vars, store, history, TypeOK
  <1> QED
    BY <1>1, <1>2, <1>3, <1>4, <1>5, <1>6, <1>7, <1>8, <1>10, <1>11,
       <1>12, <1>13 DEF Next

(* Type correctness: the positions _pos and _roffset always designate      *)
(* places of the sequences they index, whatever the interleaving.          *)
THEOREM TypeCorrect == Spec => []TypeOK
  BY TypeInit, TypeStep, PTL DEF Spec

-----------------------------------------------------------------------------
(* NothingLost is kept by a step that publishes nothing and after which    *)
(* what was stored is still stored, acknowledged or counted as lost.       *)
LEMMA KeepsAll ==
    ASSUME NothingLost, next' = next, acked \subseteq acked', lost \subseteq lost',
           Stored \subseteq Stored' \union acked' \union lost'
    PROVE  NothingLost'
  BY DEF NothingLost

(* Reading one event of the queue file into memory: a part is unlinked     *)
(* only when all its events are in memory or acknowledged.                 *)
LEMMA ReadDiskKeeps ==
    ASSUME TypeOK, PartKept, NEW e \in Event, ReadDisk(e),
           events' = Append(events, e), UNCHANGED <<memfile, acked>>
    PROVE  /\ PartKept'
           /\ Stored \subseteq Stored' \union acked'
           /\ Len(events') = Len(events) + 1
           /\ \A i \in 1 .. Len(events) : events'[i] = events[i]
           /\ events' # <<>>
  <1>1. /\ ToSet(events') = ToSet(events) \union {e}
        /\ Len(events') = Len(events) + 1
        /\ \A i \in 1 .. Len(events) : events'[i] = events[i]
    BY ToSetAppend DEF TypeOK
  <1>2. events' # <<>>
    BY <1>1 DEF TypeOK
  <1>3. CASE AtPartEnd
    <2>1. PartMax \in 0 .. Len(disk) /\ rd = PartMax
      BY <1>3, PartMaxAssumption DEF AtPartEnd, TypeOK
    <2>2. disk' = SubSeq(disk, PartMax + 1, Len(disk)) /\ rd' = 1 /\ e = disk[PartMax + 1]
      BY <1>3 DEF ReadDisk, AtPartEnd
    <2>3. ToSet(disk) = ToSet(SubSeq(disk, 1, PartMax)) \union ToSet(disk')
      BY <2>1, <2>2, ToSetCut DEF TypeOK
    <2>4. \A x \in ToSet(SubSeq(disk, 1, PartMax)) : \E i \in 1 .. PartMax : x = disk[i]
      BY <2>1, ToSetCut DEF TypeOK
    <2>5. ToSet(SubSeq(disk, 1, PartMax)) \subseteq ToSet(events) \union acked
      BY <2>1, <2>4 DEF PartKept
    <2>6. disk'[1] = e
      BY <1>3, <2>1, <2>2, PartMaxAssumption DEF AtPartEnd, TypeOK
    <2>7. PartKept'
      <3> SUFFICES ASSUME NEW i \in 1 .. rd'
                   PROVE  disk'[i] \in ToSet(events') \union acked'
        BY DEF PartKept
      <3>1. i = 1
        BY <2>2
      <3> QED
        BY <3>1, <2>6, <1>1
    <2>8. Stored \subseteq Stored' \union acked'
      BY <1>1, <2>3, <2>5 DEF Stored
    <2> QED
      BY <1>1, <1>2, <2>7, <2>8
  <1>4. CASE ~AtPartEnd
    <2>1. disk' = disk /\ rd' = rd + 1 /\ e = disk[rd + 1]
      BY <1>4 DEF ReadDisk
    <2>2. PartKept'
      <3> SUFFICES ASSUME NEW i \in 1 .. rd'
                   PROVE  disk'[i] \in ToSet(events') \union acked'
        BY DEF PartKept
      <3>1. CASE i = rd + 1
        BY <3>1, <2>1, <1>1
      <3>2. CASE i # rd + 1
        <4>1. i \in 1 .. rd
          BY <3>2, <2>1 DEF TypeOK
        <4> QED
          BY <4>1, <2>1, <1>1 DEF PartKept
      <3> QED
        BY <3>1, <3>2
    <2> QED
      BY <1>1, <1>2, <2>1, <2>2 DEF Stored
  <1> QED
    BY <1>3, <1>4

(* Meeting the end of the queue file: all its events are in memory or      *)
(* acknowledged, the last part can go.                                     *)
LEMMA ReadEofKeeps ==
    ASSUME TypeOK, PartKept, ReadEof, UNCHANGED <<events, memfile, acked>>
    PROVE  /\ PartKept' /\ disk' = <<>> /\ file' = "null"
           /\ Stored \subseteq Stored' \union acked'
  <1>1. disk' = <<>> /\ rd' = 0 /\ rd = Len(disk) /\ file' = "null"
    BY DEF ReadEof
  <1>2. ToSet(disk) \subseteq ToSet(events) \union acked
    <2>1. \A x \in ToSet(disk) : \E i \in 1 .. Len(disk) : x = disk[i]
      BY ToSetMember DEF TypeOK
    <2> QED
      BY <2>1, <1>1 DEF PartKept
  <1>3. PartKept'
    BY <1>1 DEF PartKept
  <1> QED
    BY <1>1, <1>2, <1>3 DEF Stored

(* Pushing behind the queue leaves what was read before _pos. *)
LEMMA SeenAfterPush ==
    ASSUME TypeOK, ReadIsSeen, UNCHANGED <<pos, seen>>,
           \A i \in 1 .. Len(events) : events'[i] = events[i]
    PROVE  ReadIsSeen'
  <1> SUFFICES ASSUME NEW i \in 1 .. pos PROVE events'[i] \in seen
    BY DEF ReadIsSeen
  <1>1. i \in 1 .. Len(events)
    BY DEF TypeOK
  <1> QED
    BY <1>1 DEF ReadIsSeen

(* The first start finds nothing anywhere. *)
LEMMA InvInit == Init => MuxerInv
  <1> SUFFICES ASSUME Init PROVE MuxerInv
    OBVIOUS
  <1>1. TypeOK
    BY TypeInit
  <1>2. PhaseOK /\ ReadIsSeen /\ PartKept /\ LoadSlack
    BY DEF Init, PhaseOK, ReadIsSeen, PartKept, LoadSlack
  <1>3. NothingLost /\ AckedWasRead
    BY DEF Init, NothingLost, AckedWasRead
  <1>4. NoStrandedFile /\ FileClosedMeansEmpty
    BY DEF Init, NoStrandedFile, FileClosedMeansEmpty
  <1>5. MemoryBound
    BY LimitPositive DEF Init, MemoryBound
  <1> QED
    BY <1>1, <1>2, <1>3, <1>4, <1>5 DEF MuxerInv

(* Construction: the memory file moves into memory. *)
LEMMA InvConstruct == MuxerInv /\ TypeOK' /\ Construct => MuxerInv'
  <1> SUFFICES ASSUME MuxerInv, TypeOK', Construct PROVE MuxerInv'
    OBVIOUS
  <1> USE DEF MuxerInv
  <1>1. /\ phase = "down" /\ events = <<>> /\ phase' = "load" /\ rd' = 0 /\ pos' = 0
        /\ file' = "open" /\ starts' = starts + 1
        /\ UNCHANGED <<disk, limit, next, seen, acked, lost>>
    BY DEF Construct, PhaseOK
  <1>2. events' = memfile /\ memfile' = <<>>
    BY DEF Construct, PhaseOK
  <1>3. PhaseOK' /\ ReadIsSeen' /\ PartKept'
    <2>1. starts' > 0
      BY <1>1 DEF TypeOK
    <2> QED
      BY <1>1, <1>2, <2>1 DEF PhaseOK, ReadIsSeen, PartKept
  <1>4. NothingLost'
    BY <1>1, <1>2, KeepsAll DEF Stored
  <1>5. AckedWasRead' /\ NoStrandedFile' /\ FileClosedMeansEmpty'
    BY <1>1 DEF AckedWasRead, NoStrandedFile, FileClosedMeansEmpty
  <1>6. MemoryBound' /\ LoadSlack'
    <2>1. PICK l \in LimitRange : Len(events) + Len(memfile) < l + starts
      BY DEF MemoryBound
    <2>2. Len(events') + Len(memfile') < l + starts' /\ Len(events') + 1 < l + starts'
      BY <2>1, <1>1, <1>2, LimitPositive DEF TypeOK
    <2> QED
      BY <2>1, <2>2 DEF MemoryBound, LoadSlack
  <1> QED
    BY <1>3, <1>4, <1>5, <1>6

(* Construction: one read of the queue file. *)
LEMMA InvLoadStep == MuxerInv /\ TypeOK' /\ LoadStep => MuxerInv'
  <1> SUFFICES ASSUME MuxerInv, TypeOK', LoadStep PROVE MuxerInv'
    OBVIOUS
  <1> USE DEF MuxerInv
  <1>1. /\ phase = "load" /\ memfile = <<>> /\ file = "open"
        /\ UNCHANGED <<pos, memfile, limit, next, seen, acked, lost, starts>>
    BY DEF LoadStep, PhaseOK, history
  <1>2. AckedWasRead'
    BY <1>1 DEF AckedWasRead
  <1>3. PICK l \in LimitRange : Len(events) + 1 < l + starts
    BY <1>1 DEF LoadSlack
  <1>4. CASE ReadEof /\ phase' = "ready" /\ UNCHANGED events
    <2>1. /\ PartKept' /\ disk' = <<>> /\ file' = "null"
          /\ Stored \subseteq Stored' \union acked'
      BY <1>1, <1>4, ReadEofKeeps
    <2>2. NothingLost'
      BY <1>1, <2>1, KeepsAll
    <2>3. ReadIsSeen' /\ PhaseOK' /\ LoadSlack'
      BY <1>1, <1>4 DEF ReadIsSeen, PhaseOK, LoadSlack
    <2>4. NoStrandedFile' /\ FileClosedMeansEmpty'
      BY <2>1 DEF NoStrandedFile, FileClosedMeansEmpty
    <2>5. MemoryBound'
      BY <1>1, <1>4 DEF MemoryBound
    <2> QED
      BY <1>2, <2>1, <2>2, <2>3, <2>4, <2>5
  <1>5. ASSUME NEW e \in Event, ReadDisk(e), events' = Append(events, e),
               phase' = IF Len(events') < limit THEN "load" ELSE "ready"
        PROVE  MuxerInv'
    <2>1. /\ PartKept' /\ Stored \subseteq Stored' \union acked'
          /\ Len(events') = Len(events) + 1 /\ events' # <<>>
          /\ \A i \in 1 .. Len(events) : events'[i] = events[i]
      BY <1>1, <1>5, ReadDiskKeeps
    <2>2. NothingLost'
      BY <1>1, <2>1, KeepsAll
    <2>3. file' = "open"
      BY <1>1, <1>5 DEF ReadDisk
    <2>4. ReadIsSeen'
      BY <1>1, <2>1, SeenAfterPush
    <2>5. PhaseOK' /\ NoStrandedFile' /\ FileClosedMeansEmpty'
      BY <1>1, <1>5, <2>1, <2>3 DEF PhaseOK, NoStrandedFile, FileClosedMeansEmpty
    <2>6. MemoryBound'
      <3>1. Len(events') + Len(memfile') < l + starts'
        BY <1>1, <1>3, <2>1, LimitPositive DEF TypeOK
      <3> QED
        BY <3>1 DEF MemoryBound
    <2>7. LoadSlack'
      <3> SUFFICES ASSUME phase' = "load"
                   PROVE  Len(events') + 1 < limit + starts'
        BY DEF LoadSlack, TypeOK
      <3>1. starts > 0
        BY <1>1 DEF PhaseOK
      <3>2. Len(events') < limit
        BY <1>5
      <3> QED
        BY <1>1, <2>1, <3>1, <3>2, LimitPositive DEF TypeOK
    <2> QED
      BY <1>2, <2>1, <2>2, <2>4, <2>5, <2>6, <2>7
  <1> QED
    BY <1>4, <1>5 DEF LoadStep

(* publish(): the event goes to memory or behind the queue file. *)
LEMMA InvPublish == MuxerInv /\ TypeOK' /\ Publish => MuxerInv'
  <1> SUFFICES ASSUME MuxerInv, TypeOK', Publish PROVE MuxerInv'
    OBVIOUS
  <1> USE DEF MuxerInv
  <1>1. /\ phase = "ready" /\ phase' = "ready" /\ next' = next + 1 /\ memfile = <<>>
        /\ UNCHANGED <<pos, rd, memfile, limit, seen, acked, lost, starts>>
    BY DEF Publish, PhaseOK
  <1>2. next \in Event /\ limit \in Nat \ {0}
    BY LimitPositive DEF Publish, TypeOK, Event
  <1>3. PhaseOK' /\ LoadSlack' /\ AckedWasRead'
    BY <1>1 DEF PhaseOK, LoadSlack, AckedWasRead
  <1>4. ASSUME Stored \subseteq Stored', next \in Filtered \union Stored'
        PROVE  NothingLost'
    <2> SUFFICES ASSUME NEW n \in 1 .. next' - 1
                 PROVE  n \in Filtered \union acked' \union Stored' \union lost'
      BY DEF NothingLost
    <2>1. CASE n = next
      BY <2>1, <1>4
    <2>2. CASE n # next
      <3>1. n \in 1 .. next - 1
        BY <2>2, <1>1 DEF TypeOK
      <3> QED
        BY <3>1, <1>1, <1>4 DEF NothingLost
    <2> QED
      BY <2>1, <2>2
  <1>5. CASE next \in Filtered /\ UNCHANGED <<events, file, disk, unflushed>>
    <2>1. Stored' = Stored
      BY <1>1, <1>5 DEF Stored
    <2>2. NothingLost'
      BY <1>4, <1>5, <2>1
    <2>3. ReadIsSeen' /\ PartKept' /\ NoStrandedFile' /\ FileClosedMeansEmpty' /\ MemoryBound'
      BY <1>1, <1>5 DEF ReadIsSeen, PartKept, NoStrandedFile, FileClosedMeansEmpty, MemoryBound
    <2> QED
      BY <1>3, <2>2, <2>3
  <1>6. CASE /\ Len(events) >= limit /\ file' = "open"
             /\ disk' = Append(disk, next) /\ UNCHANGED events
    <2>1. /\ ToSet(disk') = ToSet(disk) \union {next}
          /\ \A i \in 1 .. Len(disk) : disk'[i] = disk[i]
      BY SMTT(30), <1>2, <1>6, ToSetAppend DEF TypeOK
    <2>2. NothingLost'
      BY <1>1, <1>4, <1>6, <2>1 DEF Stored
    <2>3. PartKept'
      <3> SUFFICES ASSUME NEW i \in 1 .. rd
                   PROVE  disk'[i] \in ToSet(events) \union acked
        BY <1>1, <1>6 DEF PartKept
      <3>1. i \in 1 .. Len(disk)
        BY DEF TypeOK
      <3> QED
        BY <3>1, <2>1 DEF PartKept
    <2>4. events # <<>>
      BY <1>2, <1>6 DEF TypeOK
    <2>5. ReadIsSeen' /\ NoStrandedFile' /\ FileClosedMeansEmpty' /\ MemoryBound'
      BY <1>1, <1>6, <2>4 DEF ReadIsSeen, NoStrandedFile, FileClosedMeansEmpty, MemoryBound
    <2> QED
      BY <1>3, <2>2, <2>3, <2>5
  <1>7. CASE /\ Len(events) < limit
             /\ events' = Append(events, next) /\ UNCHANGED <<file, disk, unflushed>>
    <2>1. /\ ToSet(events') = ToSet(events) \union {next}
          /\ Len(events') = Len(events) + 1
          /\ \A i \in 1 .. Len(events) : events'[i] = events[i]
      BY SMTT(30), <1>2, <1>7, ToSetAppend DEF TypeOK
    <2>2. NothingLost'
      BY <1>1, <1>4, <1>7, <2>1 DEF Stored
    <2>3. PartKept'
      BY <1>1, <1>7, <2>1 DEF PartKept
    <2>4. ReadIsSeen'
      BY <1>1, <2>1, SeenAfterPush
    <2>5. events' # <<>>
      BY <2>1 DEF TypeOK
    <2>6. NoStrandedFile' /\ FileClosedMeansEmpty'
      BY <1>1, <1>7, <2>5 DEF NoStrandedFile, FileClosedMeansEmpty
    <2>7. Len(events') + Len(memfile') < limit + starts'
      <3>1. starts > 0
        BY <1>1 DEF PhaseOK
      <3> QED
        BY <1>1, <1>2, <1>7, <2>1, <3>1 DEF TypeOK
    <2>8. MemoryBound'
      BY <2>7, <1>1 DEF MemoryBound, TypeOK
    <2> QED
      BY <1>3, <2>2, <2>3, <2>4, <2>6, <2>8
  <1> QED
    BY <1>5, <1>6, <1>7 DEF Publish

(* read() and nack_events() only move _pos. *)
LEMMA InvRead == MuxerInv /\ TypeOK' /\ (Read \/ NackEvents) => MuxerInv'
  <1> SUFFICES ASSUME MuxerInv, TypeOK', Read \/ NackEvents PROVE MuxerInv'
    OBVIOUS
  <1> USE DEF MuxerInv
  <1>1. /\ UNCHANGED <<phase, events, file, disk, rd, memfile, limit, next,
                       acked, lost, starts>>
        /\ seen \subseteq seen'
    BY DEF Read, NackEvents, history
  <1>2. PhaseOK' /\ PartKept' /\ LoadSlack' /\ NoStrandedFile' /\ FileClosedMeansEmpty'
    BY <1>1 DEF PhaseOK, PartKept, LoadSlack, NoStrandedFile, FileClosedMeansEmpty
  <1>3. MemoryBound' /\ AckedWasRead'
    BY <1>1 DEF MemoryBound, AckedWasRead
  <1>4. NothingLost'
    BY <1>1, KeepsAll DEF Stored
  <1>5. ReadIsSeen'
    <2>1. CASE Read
      <3>1. pos' = pos + 1 /\ events[pos + 1] \in seen'
        BY <2>1 DEF Read
      <3> SUFFICES ASSUME NEW i \in 1 .. pos' PROVE events[i] \in seen'
        BY <1>1 DEF ReadIsSeen
      <3>2. CASE i = pos + 1
        BY <3>1, <3>2
      <3>3. CASE i # pos + 1
        <4>1. i \in 1 .. pos
          BY <3>1, <3>3 DEF TypeOK
        <4> QED
          BY <4>1, <1>1 DEF ReadIsSeen
      <3> QED
        BY <3>2, <3>3
    <2>2. CASE NackEvents
      BY <2>2 DEF NackEvents, ReadIsSeen
    <2> QED
      BY <2>1, <2>2
  <1> QED
    BY <1>2, <1>3, <1>4, <1>5

(* ack_events(), the pops: only events before _pos leave the queue. *)
LEMMA InvAckEvents ==
    ASSUME MuxerInv, TypeOK', NEW count \in 1 .. MaxAck, AckEvents(count)
    PROVE  MuxerInv'
  <1> USE DEF MuxerInv
  <1> DEFINE n == Poppable(count)
             popped == SubSeq(events, 1, n)
  <1>1. n \in 0 .. pos /\ n \in 0 .. Len(events)
    BY BoundsAssumption DEF Poppable, TypeOK
  <1>2. /\ phase = "ready" /\ phase' = "refill"
        /\ events' = SubSeq(events, n + 1, Len(events))
        /\ acked' = acked \union ToSet(popped)
        /\ pos' = pos - n
        /\ UNCHANGED <<file, disk, rd, memfile, limit, next, seen, lost, starts>>
    BY <1>1 DEF AckEvents, TypeOK
  <1>3. /\ ToSet(events) = ToSet(popped) \union ToSet(events')
        /\ Len(events') = Len(events) - n
        /\ \A e : e \in ToSet(popped) <=> \E i \in 1 .. n : e = events[i]
        /\ \A i \in 1 .. Len(events) - n : events'[i] = events[n + i]
    <2>1. events \in Seq(Event)
      BY DEF TypeOK
    <2> HIDE DEF n
    <2> QED
      BY <1>1, <1>2, <2>1, ToSetCut
  <1> HIDE DEF n, popped
  <1>4. PhaseOK' /\ LoadSlack' /\ NoStrandedFile' /\ FileClosedMeansEmpty'
    BY <1>2 DEF PhaseOK, LoadSlack, NoStrandedFile, FileClosedMeansEmpty
  <1>5. PartKept'
    BY <1>2, <1>3 DEF PartKept
  <1>6. NothingLost'
    BY <1>2, <1>3, KeepsAll DEF Stored
  <1>7. AckedWasRead'
    <2>1. \A i \in 1 .. n : events[i] \in seen
      BY <1>1 DEF ReadIsSeen, TypeOK
    <2>2. ToSet(popped) \subseteq seen
      BY <2>1, <1>3
    <2> QED
      BY <2>2, <1>2 DEF AckedWasRead
  <1>8. ReadIsSeen'
    <2> SUFFICES ASSUME NEW i \in 1 .. pos' PROVE events'[i] \in seen
      BY <1>2 DEF ReadIsSeen
    <2>1. n + i \in 1 .. pos /\ i \in 1 .. Len(events) - n
      BY <1>1, <1>2 DEF TypeOK
    <2> QED
      BY <2>1, <1>3 DEF ReadIsSeen
  <1>9. MemoryBound'
    <2>1. PICK l \in LimitRange : Len(events) + Len(memfile) < l + starts
      BY DEF MemoryBound
    <2>2. Len(events') + Len(memfile') < l + starts'
      BY <2>1, <1>1, <1>2, <1>3, LimitPositive DEF TypeOK
    <2> QED
      BY <2>1, <2>2 DEF MemoryBound
  <1> QED
    BY <1>4, <1>5, <1>6, <1>7, <1>8, <1>9

(* ack_events(), the refill: it ends with the memory full or the file gone. *)
LEMMA InvRefillStep == MuxerInv /\ TypeOK' /\ RefillStep => MuxerInv'
  <1> SUFFICES ASSUME MuxerInv, TypeOK', RefillStep PROVE MuxerInv'
    OBVIOUS
  <1> USE DEF MuxerInv
  <1>1. /\ phase = "refill" /\ memfile = <<>>
        /\ UNCHANGED <<pos, memfile, limit, next, seen, acked, lost, starts>>
    BY DEF RefillStep, PhaseOK, history
  <1>2. AckedWasRead'
    BY <1>1 DEF AckedWasRead
  <1>3. limit \in Nat \ {0}
    BY LimitPositive DEF TypeOK
  <1>4. CASE ReadEof /\ phase' = "ready" /\ UNCHANGED events
    <2>1. /\ PartKept' /\ disk' = <<>> /\ file' = "null"
          /\ Stored \subseteq Stored' \union acked'
      BY <1>1, <1>4, ReadEofKeeps
    <2>2. NothingLost'
      BY <1>1, <2>1, KeepsAll
    <2>3. ReadIsSeen' /\ PhaseOK' /\ LoadSlack'
      BY <1>1, <1>4 DEF ReadIsSeen, PhaseOK, LoadSlack
    <2>4. NoStrandedFile' /\ FileClosedMeansEmpty'
      BY <2>1 DEF NoStrandedFile, FileClosedMeansEmpty
    <2>5. MemoryBound'
      BY <1>1, <1>4 DEF MemoryBound
    <2> QED
      BY <1>2, <2>1, <2>2, <2>3, <2>4, <2>5
  <1>5. ASSUME Len(events) < limit, file = "open", phase' = "refill",
               NEW e \in Event, ReadDisk(e), events' = Append(events, e)
        PROVE  MuxerInv'
    <2>1. /\ PartKept' /\ Stored \subseteq Stored' \union acked'
          /\ Len(events') = Len(events) + 1
          /\ \A i \in 1 .. Len(events) : events'[i] = events[i]
      BY <1>1, <1>5, ReadDiskKeeps
    <2>2. NothingLost'
      BY <1>1, <2>1, KeepsAll
    <2>3. file' = "open"
      BY <1>5 DEF ReadDisk
    <2>4. ReadIsSeen'
      BY <1>1, <2>1, SeenAfterPush
    <2>5. PhaseOK' /\ LoadSlack' /\ NoStrandedFile' /\ FileClosedMeansEmpty'
      BY <1>1, <1>5, <2>3 DEF PhaseOK, LoadSlack, NoStrandedFile, FileClosedMeansEmpty
    <2>6. Len(events') + Len(memfile') < limit + starts'
      <3>1. starts > 0
        BY <1>1 DEF PhaseOK
      <3> QED
        BY <1>1, <1>3, <1>5, <2>1, <3>1 DEF TypeOK
    <2>7. MemoryBound'
      BY <2>6, <1>1 DEF MemoryBound, TypeOK
    <2> QED
      BY <1>2, <2>1, <2>2, <2>4, <2>5, <2>7
  <1>6. CASE /\ Len(events) >= limit \/ file = "null"
             /\ phase' = "ready"
             /\ UNCHANGED <<events, file, disk, rd, unflushed>>
    <2>1. Len(events) >= limit => events # <<>>
      BY SMTT(30), <1>3 DEF TypeOK
    <2>2. NoStrandedFile'
      BY <1>6, <2>1 DEF NoStrandedFile
    <2>3. FileClosedMeansEmpty'
      BY <1>1, <1>6 DEF FileClosedMeansEmpty
    <2>4. PhaseOK' /\ LoadSlack' /\ ReadIsSeen' /\ PartKept' /\ MemoryBound'
      BY <1>1, <1>6 DEF PhaseOK, LoadSlack, ReadIsSeen, PartKept, MemoryBound
    <2>5. NothingLost'
      BY <1>1, <1>6, KeepsAll DEF Stored
    <2> QED
      BY <1>2, <2>2, <2>3, <2>4, <2>5
  <1> QED
    BY <1>4, <1>5, <1>6 DEF RefillStep

(* A change of the limit touches no queue. *)
LEMMA InvSetMaxSize ==
    ASSUME MuxerInv, TypeOK', NEW max \in Limits, SetMaxSize(max)
    PROVE  MuxerInv'
  <1> USE DEF MuxerInv
  <1>1. UNCHANGED <<phase, events, pos, file, disk, rd, memfile,
                    next, seen, acked, lost, starts>>
    BY DEF SetMaxSize, store
  <1>2. PhaseOK' /\ ReadIsSeen' /\ PartKept' /\ LoadSlack' /\ MemoryBound'
    BY <1>1 DEF PhaseOK, ReadIsSeen, PartKept, LoadSlack, MemoryBound
  <1>3. NoStrandedFile' /\ FileClosedMeansEmpty' /\ AckedWasRead'
    BY <1>1 DEF NoStrandedFile, FileClosedMeansEmpty, AckedWasRead
  <1>4. NothingLost'
    BY <1>1, KeepsAll DEF Stored
  <1> QED
    BY <1>2, <1>3, <1>4

(* The destructor: what does not reach the memory file is counted as lost. *)
LEMMA InvCleanUpTo ==
    ASSUME MuxerInv, TypeOK', NEW n \in 0 .. Len(events), CleanUpTo(n),
           Persistent \/ n = 0
    PROVE  MuxerInv'
  <1> USE DEF MuxerInv
  <1> DEFINE saved == SubSeq(events, 1, n)
             rest == SubSeq(events, n + 1, Len(events))
  <1>1. /\ phase = "ready" /\ phase' = "down" /\ file' = "null" /\ rd' = 0
        /\ memfile' = memfile \o saved /\ events' = <<>> /\ pos' = 0
        /\ lost' = lost \union (ToSet(rest) \ (ToSet(memfile') \union ToSet(disk) \union acked))
        /\ UNCHANGED <<disk, limit, next, seen, acked, starts>>
    BY DEF CleanUpTo
  <1>2. /\ ToSet(events) = ToSet(saved) \union ToSet(rest)
        /\ saved \in Seq(Event) /\ Len(saved) = n
    BY SMTT(30), ToSetCut DEF TypeOK
  <1>3. memfile = <<>>
    BY <1>1 DEF PhaseOK
  <1> HIDE DEF saved, rest
  <1>4. /\ ToSet(saved) \subseteq ToSet(memfile') /\ ToSet(memfile) \subseteq ToSet(memfile')
        /\ Len(memfile') = n
    <2>1. memfile \in Seq(Event) /\ Len(memfile) = 0 /\ n \in Nat
      BY <1>3 DEF TypeOK
    <2>2. /\ ToSet(saved) \subseteq ToSet(memfile \o saved)
          /\ ToSet(memfile) \subseteq ToSet(memfile \o saved)
          /\ Len(memfile \o saved) = Len(memfile) + Len(saved)
      BY <1>2, <2>1, ToSetConcat
    <2> QED
      BY <1>1, <1>2, <2>1, <2>2
  <1>5. NothingLost'
    BY <1>1, <1>2, <1>4, KeepsAll DEF Stored
  <1>6. PhaseOK'
    <2>1. CASE Persistent
      BY <1>1, <2>1 DEF PhaseOK
    <2>2. CASE n = 0
      <3>1. memfile' = <<>>
        BY <1>4, <2>2 DEF TypeOK
      <3> QED
        BY <1>1, <3>1 DEF PhaseOK
    <2> QED
      BY <2>1, <2>2
  <1>7. ReadIsSeen' /\ PartKept' /\ LoadSlack' /\ AckedWasRead'
    BY <1>1 DEF ReadIsSeen, PartKept, LoadSlack, AckedWasRead
  <1>8. NoStrandedFile' /\ FileClosedMeansEmpty'
    BY <1>1 DEF NoStrandedFile, FileClosedMeansEmpty
  <1>9. MemoryBound'
    <2>1. PICK l \in LimitRange : Len(events) + Len(memfile) < l + starts
      BY DEF MemoryBound
    <2>2. Len(events') = 0 /\ Len(memfile) = 0
      BY <1>1, <1>3
    <2>3. Len(events') + Len(memfile') < l + starts'
      BY <2>1, <2>2, <1>1, <1>4, LimitPositive DEF TypeOK
    <2> QED
      BY <2>1, <2>3 DEF MemoryBound
  <1> QED
    BY <1>5, <1>6, <1>7, <1>8, <1>9

(* The end of the process: memory and an unflushed write are counted as lost. *)
LEMMA InvCrash == MuxerInv /\ TypeOK' /\ Crash => MuxerInv'
  <1> SUFFICES ASSUME MuxerInv, TypeOK', Crash PROVE MuxerInv'
    OBVIOUS
  <1> USE DEF MuxerInv
  <1>1. /\ phase # "down" /\ phase' = "down" /\ file' = "null" /\ rd' = 0
        /\ events' = <<>> /\ pos' = 0
        /\ lost' = lost \union ((ToSet(events) \union ToSet(disk))
                                  \ (ToSet(memfile) \union ToSet(disk') \union acked))
        /\ UNCHANGED <<memfile, limit, next, seen, acked, starts>>
    BY DEF Crash
  <1>2. memfile = <<>>
    BY <1>1 DEF PhaseOK
  <1>3. NothingLost'
    BY <1>1, KeepsAll DEF Stored
  <1>4. PhaseOK' /\ ReadIsSeen' /\ PartKept' /\ LoadSlack' /\ AckedWasRead'
    BY <1>1, <1>2 DEF PhaseOK, ReadIsSeen, PartKept, LoadSlack, AckedWasRead
  <1>5. NoStrandedFile' /\ FileClosedMeansEmpty'
    BY <1>1 DEF NoStrandedFile, FileClosedMeansEmpty
  <1>6. MemoryBound'
    <2>1. PICK l \in LimitRange : Len(events) + Len(memfile) < l + starts
      BY DEF MemoryBound
    <2>2. Len(events') = 0 /\ Len(memfile') = 0
      BY <1>1, <1>2
    <2>3. Len(events') + Len(memfile') < l + starts'
      BY <2>2, <1>1, LimitPositive DEF TypeOK
    <2> QED
      BY <2>1, <2>3 DEF MemoryBound
  <1> QED
    BY <1>3, <1>4, <1>5, <1>6

(* Every step of the muxer keeps the inductive invariant. *)
LEMMA InvStep == MuxerInv /\ [Next]_vars => MuxerInv'
  <1> SUFFICES ASSUME MuxerInv, [Next]_vars PROVE MuxerInv'
    OBVIOUS
  <1>1. TypeOK'
    BY TypeStep DEF MuxerInv
  <1>2. CASE Clean
    <2>1. (IF Persistent THEN Len(events) ELSE 0) \in 0 .. Len(events)
      BY DEF MuxerInv, TypeOK
    <2> QED
      BY <1>1, <1>2, <2>1, InvCleanUpTo DEF Clean
  <1>3. CASE CleanInterrupted
    BY <1>1, <1>3, InvCleanUpTo DEF CleanInterrupted
  <1>4. CASE UNCHANGED vars
    <2>1. Stored' = Stored
      BY <1>4 DEF vars, store, Stored
    <2> QED
      BY <1>1, <1>4, <2>1, KeepsAll
      DEF vars, store, history, MuxerInv, PhaseOK, ReadIsSeen, PartKept, LoadSlack,
          AckedWasRead, NoStrandedFile, FileClosedMeansEmpty, MemoryBound
  <1> QED
    BY <1>1, <1>2, <1>3, <1>4, InvConstruct, InvLoadStep, InvPublish, InvRead,
       InvAckEvents, InvRefillStep, InvSetMaxSize, InvCrash DEF Next

-----------------------------------------------------------------------------
(* The inductive invariant holds in every reachable state. *)
THEOREM MuxerInvariant == Spec => []MuxerInv
  BY InvInit, InvStep, PTL DEF Spec

(* No event disappears by the operations of the muxer, for any number of   *)
(* events, any limits and any part size.                                   *)
THEOREM MuxerLosesNothing == Spec => []NothingLost
  <1>1. MuxerInv => NothingLost
    BY DEF MuxerInv
  <1> QED
    BY <1>1, MuxerInvariant, PTL

(* ack_events never acknowledges an event that read() did not return. *)
THEOREM MuxerAcksOnlyRead == Spec => []AckedWasRead
  <1>1. MuxerInv => AckedWasRead
    BY DEF MuxerInv
  <1> QED
    BY <1>1, MuxerInvariant, PTL

(* The queue file never holds events that no acknowledgement can bring     *)
(* back to memory.                                                         *)
THEOREM MuxerStrandsNothing == Spec => []NoStrandedFile
  <1>1. MuxerInv => NoStrandedFile
    BY DEF MuxerInv
  <1> QED
    BY <1>1, MuxerInvariant, PTL

(* Memory holds at most the limit and one event more per restart. *)
THEOREM MuxerMemoryBounded == Spec => []MemoryBound
  <1>1. MuxerInv => MemoryBound
    BY DEF MuxerInv
  <1> QED
    BY <1>1, MuxerInvariant, PTL

-----------------------------------------------------------------------------
(* The order of first readings. *)

(* What the consumer does not wait for any more. *)
Known == Filtered \union seen \union lost

(* A queue in which no event comes before an older one that is neither in  *)
(* known nor ahead of it.                                                  *)
OrderedIn(s, known) ==
    \A i \in 1 .. Len(s) : \A m \in 1 .. s[i] - 1 :
        m \in known \union {s[j] : j \in 1 .. i - 1}

(* Only publish() writes to the queue file. *)
DiskSorted == \A i, j \in 1 .. Len(disk) : i < j => disk[i] < disk[j]

BelowNext == \A e \in Stored \union acked : e < next

(* What is elsewhere, too, comes from the part being read. *)
CopiesInFirstPart ==
    \A i \in 1 .. Len(disk) :
        disk[i] \in acked \union ToSet(events) \union ToSet(memfile) => i <= PartMax

(* Unless a raised limit lets an event overtake the queue file. *)
InReadOrder ==
    ~raised => /\ OrderedIn(events, Known)
               /\ OrderedIn(memfile, Known)
               /\ phase = "ready" /\ file = "open" => Len(events) >= limit
               /\ \A n \in seen : \A m \in 1 .. n - 1 : m \in Known

FileOrder == DiskSorted /\ BelowNext /\ CopiesInFirstPart
OrderInd == FileOrder /\ InReadOrder

(* A queue stays ordered when an event is no longer waited for. *)
LEMMA OrderedMore ==
    ASSUME NEW s, NEW known, NEW more, known \subseteq more, OrderedIn(s, known)
    PROVE  OrderedIn(s, more)
  BY DEF OrderedIn

(* An event is queued behind all older ones. *)
LEMMA OrderedAppend ==
    ASSUME NEW s \in Seq(Event), NEW e \in Event, NEW known, OrderedIn(s, known),
           \A m \in 1 .. e - 1 : m \in known \union ToSet(s)
    PROVE  OrderedIn(Append(s, e), known)
  <1>1. PICK t : t = Append(s, e)
    OBVIOUS
  <1>2. /\ Len(t) = Len(s) + 1 /\ t[Len(s) + 1] = e /\ Len(s) \in Nat
        /\ \A i \in 1 .. Len(s) : t[i] = s[i]
    BY <1>1
  <1>3. ASSUME NEW i \in 1 .. Len(t), NEW m \in 1 .. t[i] - 1, m \notin known
        PROVE  \E j \in 1 .. i - 1 : m = t[j]
    <2>1. CASE i = Len(s) + 1
      <3>1. m \in ToSet(s)
        BY <1>2, <1>3, <2>1
      <3>2. PICK j \in 1 .. Len(s) : m = s[j]
        BY <3>1, ToSetMember
      <3>3. j \in 1 .. i - 1 /\ t[j] = s[j]
        BY <1>2, <2>1
      <3> QED BY <3>2, <3>3
    <2>2. CASE i # Len(s) + 1
      <3>1. i \in 1 .. Len(s)
        BY <1>2, <2>2
      <3>2. m \in 1 .. s[i] - 1
        BY <1>2, <1>3, <3>1
      <3>3. PICK j \in 1 .. i - 1 : m = s[j]
        BY <1>3, <3>1, <3>2 DEF OrderedIn
      <3>4. j \in 1 .. Len(s)
        BY <1>2, <3>1
      <3> QED BY <1>2, <3>3, <3>4
    <2> QED BY <2>1, <2>2
  <1>4. OrderedIn(t, known)
    BY <1>3 DEF OrderedIn
  <1> QED BY <1>1, <1>4

(* The first events leave, or all but the first ones. *)
LEMMA OrderedCut ==
    ASSUME NEW s \in Seq(Event), NEW n \in 0 .. Len(s), NEW known, OrderedIn(s, known)
    PROVE  /\ OrderedIn(SubSeq(s, 1, n), known)
           /\ (\A i \in 1 .. n : s[i] \in known) => OrderedIn(SubSeq(s, n + 1, Len(s)), known)
  <1>1. PICK t : t = SubSeq(s, 1, n)
    OBVIOUS
  <1>2. PICK u : u = SubSeq(s, n + 1, Len(s))
    OBVIOUS
  <1>3. Len(s) \in Nat /\ n \in Nat /\ n <= Len(s)
    OBVIOUS
  <1>4. Len(t) = n /\ \A i \in 1 .. n : t[i] = s[i]
    BY <1>1, <1>3
  <1>5. Len(u) = Len(s) - n /\ \A i \in 1 .. Len(s) - n : u[i] = s[n + i]
    BY <1>2, <1>3
  <1>6. ASSUME NEW i \in 1 .. Len(t), NEW m \in 1 .. t[i] - 1, m \notin known
        PROVE  \E j \in 1 .. i - 1 : m = t[j]
    <2>1. i \in 1 .. Len(s) /\ t[i] = s[i]
      BY <1>3, <1>4
    <2>2. PICK j \in 1 .. i - 1 : m = s[j]
      BY <1>6, <2>1 DEF OrderedIn
    <2>3. j \in 1 .. n
      BY <1>3, <1>4
    <2> QED BY <1>4, <2>2, <2>3
  <1>7. ASSUME \A i \in 1 .. n : s[i] \in known,
               NEW i \in 1 .. Len(u), NEW m \in 1 .. u[i] - 1, m \notin known
        PROVE  \E j \in 1 .. i - 1 : m = u[j]
    <2>1. n + i \in 1 .. Len(s) /\ u[i] = s[n + i]
      BY <1>3, <1>5
    <2>2. PICK j \in 1 .. n + i - 1 : m = s[j]
      BY <1>7, <2>1 DEF OrderedIn
    <2>3. j \notin 1 .. n
      BY <1>7, <2>2
    <2>4. PICK k : k = j - n
      OBVIOUS
    <2>5. k \in 1 .. i - 1 /\ k \in 1 .. Len(s) - n /\ n + k = j
      BY <1>3, <1>5, <2>3, <2>4
    <2> QED BY <1>5, <2>2, <2>5
  <1>8. OrderedIn(t, known)
    BY <1>6 DEF OrderedIn
  <1>9. (\A i \in 1 .. n : s[i] \in known) => OrderedIn(u, known)
    BY <1>7 DEF OrderedIn
  <1> QED BY <1>1, <1>2, <1>8, <1>9

(* The next event of the queue file follows those that are waited for. *)
LEMMA NextOnDisk ==
    ASSUME MuxerInv, DiskSorted, BelowNext, memfile = <<>>, NEW e \in Event, ReadDisk(e)
    PROVE  \A m \in 1 .. e - 1 : m \in Known \union ToSet(events)
  <1>1. e = disk[rd + 1] /\ rd + 1 \in 1 .. Len(disk) /\ disk \in Seq(Event)
    BY DEF ReadDisk, MuxerInv, TypeOK
  <1>2. e \in ToSet(disk)
    BY <1>1, ToSetMember
  <1>3. e < next
    BY <1>2 DEF BelowNext, Stored
  <1>4. acked \subseteq seen /\ ToSet(memfile) = {}
    BY ToSetEmpty DEF MuxerInv, AckedWasRead
  <1>5. ASSUME NEW m \in 1 .. e - 1, m \notin Known, m \notin ToSet(events) PROVE FALSE
    <2>1. m \in 1 .. next - 1
      BY <1>3 DEF Event, MuxerInv, TypeOK
    <2>2. m \in ToSet(disk)
      BY <1>4, <1>5, <2>1 DEF MuxerInv, NothingLost, Stored, Known
    <2>3. PICK j \in 1 .. Len(disk) : m = disk[j]
      BY <1>1, <2>2, ToSetMember
    <2>4. ~(rd + 1 < j) /\ j # rd + 1
      <3>1. rd + 1 < j => e < m
        BY <1>1, <2>3 DEF DiskSorted
      <3>2. m < e /\ m \in Nat /\ e \in Nat
        BY DEF Event
      <3>3. j = rd + 1 => m = e
        BY <1>1, <2>3
      <3> QED BY <3>1, <3>2, <3>3
    <2>5. j \in 1 .. rd
      BY <2>4 DEF MuxerInv, TypeOK
    <2> QED BY <1>4, <1>5, <2>3, <2>5 DEF MuxerInv, PartKept, Known
  <1> QED BY <1>5

(* One read of the queue file keeps its order. *)
LEMMA ReadDiskOrder ==
    ASSUME MuxerInv, FileOrder, NEW e \in Event, ReadDisk(e), events' = Append(events, e),
           UNCHANGED <<memfile, acked, next>>
    PROVE  FileOrder'
  <1>1. /\ e = disk[rd + 1] /\ rd + 1 \in 1 .. Len(disk) /\ disk \in Seq(Event)
        /\ Len(disk) \in Nat /\ rd \in Nat /\ rd <= PartMax /\ PartMax \in Nat \ {0}
    BY PartMaxAssumption DEF ReadDisk, MuxerInv, TypeOK
  <1>2. ToSet(events') = ToSet(events) \union {e} /\ e \in ToSet(disk)
    BY <1>1, ToSetAppend, ToSetMember DEF MuxerInv, TypeOK
  <1>3. ASSUME NEW i \in 1 .. Len(disk), disk[i] = e PROVE i = rd + 1
    <2>1. ~(i < rd + 1) /\ ~(rd + 1 < i)
      <3>1. e \in Nat
        BY DEF Event
      <3>2. (i < rd + 1 => disk[i] < e) /\ (rd + 1 < i => e < disk[i])
        BY <1>1 DEF FileOrder, DiskSorted
      <3> QED BY <1>3, <3>1, <3>2
    <2> QED BY <1>1, <2>1
  <1>4. CASE AtPartEnd
    <2>1. rd = PartMax /\ PartMax < Len(disk) /\ disk' = SubSeq(disk, PartMax + 1, Len(disk))
      BY <1>4 DEF AtPartEnd, ReadDisk
    <2>2. /\ Len(disk') = Len(disk) - PartMax /\ ToSet(disk') \subseteq ToSet(disk)
          /\ \A i \in 1 .. Len(disk) - PartMax : disk'[i] = disk[PartMax + i]
      <3>1. PartMax \in 0 .. Len(disk)
        BY <1>1, <2>1
      <3> QED BY <1>1, <2>1, <3>1, ToSetCut
    <2>3. DiskSorted'
      <3> SUFFICES ASSUME NEW i \in 1 .. Len(disk'), NEW j \in 1 .. Len(disk'), i < j
                   PROVE  disk'[i] < disk'[j]
        BY DEF DiskSorted
      <3>1. /\ PartMax + i \in 1 .. Len(disk) /\ PartMax + j \in 1 .. Len(disk)
            /\ PartMax + i < PartMax + j
        BY <1>1, <2>2
      <3> QED BY <2>2, <3>1 DEF FileOrder, DiskSorted
    <2>4. BelowNext'
      BY <1>2, <2>2 DEF FileOrder, BelowNext, Stored
    <2>5. CopiesInFirstPart'
      <3> SUFFICES ASSUME NEW i \in 1 .. Len(disk'),
                          disk'[i] \in acked \union ToSet(events') \union ToSet(memfile)
                   PROVE  i <= PartMax
        BY DEF CopiesInFirstPart
      <3>1. PartMax + i \in 1 .. Len(disk) /\ disk'[i] = disk[PartMax + i]
        BY <1>1, <2>2
      <3>2. CASE disk'[i] = e
        <4>1. PartMax + i = PartMax + 1
          BY <1>3, <2>1, <3>1, <3>2
        <4> QED BY <1>1, <2>2, <4>1
      <3>3. CASE disk'[i] # e
        <4>1. PartMax + i <= PartMax
          BY <1>2, <3>1, <3>3 DEF FileOrder, CopiesInFirstPart
        <4> QED BY <1>1, <2>2, <4>1
      <3> QED BY <3>2, <3>3
    <2> QED BY <2>3, <2>4, <2>5 DEF FileOrder
  <1>5. CASE ~AtPartEnd
    <2>1. disk' = disk
      BY <1>5 DEF ReadDisk
    <2>2. rd + 1 <= PartMax
      BY <1>1, <1>5 DEF AtPartEnd
    <2>3. DiskSorted' /\ BelowNext'
      BY <1>2, <2>1 DEF FileOrder, DiskSorted, BelowNext, Stored
    <2>4. CopiesInFirstPart'
      BY <1>2, <1>3, <2>1, <2>2 DEF FileOrder, CopiesInFirstPart
    <2> QED BY <2>3, <2>4 DEF FileOrder
  <1> QED BY <1>4, <1>5

(* So does emptying it. *)
LEMMA EmptyFileOrder ==
    ASSUME BelowNext, disk' = <<>>, next' = next,
           Stored' \union acked' \subseteq Stored \union acked
    PROVE  FileOrder'
  <1>1. \A i : i \notin 1 .. Len(disk')
    BY DEF FileOrder
  <1> QED BY <1>1 DEF FileOrder, DiskSorted, CopiesInFirstPart, BelowNext

(* And steps after which fewer events are stored. *)
LEMMA SameFileOrder ==
    ASSUME FileOrder, disk' = disk, next' = next,
           acked' \union ToSet(events') \union ToSet(memfile')
             \subseteq acked \union ToSet(events) \union ToSet(memfile)
    PROVE  FileOrder'
  BY DEF FileOrder, DiskSorted, BelowNext, CopiesInFirstPart, Stored

(* Nothing is queued before the first start. *)
LEMMA OrderInit == Init => OrderInd
  <1> SUFFICES ASSUME Init PROVE OrderInd
    OBVIOUS
  <1>1. /\ events = <<>> /\ disk = <<>> /\ memfile = <<>> /\ phase = "down" /\ seen = {}
        /\ acked = {}
    BY DEF Init
  <1>2. Stored = {} /\ \A i : i \notin 1 .. Len(<<>>)
    BY <1>1, ToSetEmpty DEF Stored
  <1> QED BY <1>1, <1>2 DEF OrderInd, FileOrder, DiskSorted, BelowNext, CopiesInFirstPart, InReadOrder,
                            OrderedIn

(* Construction. *)
LEMMA OrderConstruct == MuxerInv /\ OrderInd /\ Construct => OrderInd'
  <1> SUFFICES ASSUME MuxerInv, OrderInd, Construct PROVE OrderInd'
    OBVIOUS
  <1>1. /\ phase' = "load" /\ events = <<>> /\ events' = memfile /\ memfile' = <<>>
        /\ UNCHANGED <<disk, limit, next, seen, acked, lost, raised>>
    BY DEF Construct, MuxerInv, PhaseOK
  <1>2. FileOrder'
    BY <1>1, SameFileOrder, ToSetEmpty DEF OrderInd
  <1>3. \A i : i \notin 1 .. Len(<<>>)
    OBVIOUS
  <1>4. OrderedIn(<<>>, Known')
    BY <1>3 DEF OrderedIn
  <1>5. InReadOrder'
    BY <1>1, <1>4 DEF OrderInd, InReadOrder, Known
  <1> QED BY <1>2, <1>5 DEF OrderInd

(* One read of the queue file, in the constructor or in a refill. *)
LEMMA OrderReadDisk ==
    ASSUME MuxerInv, OrderInd, phase # "down", NEW e \in Event, ReadDisk(e),
           events' = Append(events, e),
           UNCHANGED <<memfile, limit, next, seen, acked, lost, raised>>,
           phase' = "ready" => Len(events') >= limit
    PROVE  OrderInd'
  <1>1. FileOrder'
    BY ReadDiskOrder DEF OrderInd
  <1>2. memfile = <<>>
    BY DEF MuxerInv, PhaseOK
  <1>3. events \in Seq(Event)
    BY DEF MuxerInv, TypeOK
  <1>4. ~raised => OrderedIn(events', Known)
    BY <1>2, <1>3, NextOnDisk, OrderedAppend DEF OrderInd, FileOrder, InReadOrder
  <1>5. InReadOrder'
    BY <1>4 DEF OrderInd, InReadOrder, Known
  <1> QED BY <1>1, <1>5 DEF OrderInd

(* The end of the queue file. *)
LEMMA OrderReadEof ==
    ASSUME MuxerInv, OrderInd, ReadEof,
           UNCHANGED <<events, memfile, limit, next, seen, acked, lost, raised>>
    PROVE  OrderInd'
  <1>1. disk' = <<>> /\ file' = "null"
    BY DEF ReadEof
  <1>2. FileOrder'
    BY <1>1, EmptyFileOrder, ToSetEmpty DEF OrderInd, FileOrder, Stored
  <1>3. InReadOrder'
    BY <1>1 DEF OrderInd, InReadOrder, Known
  <1> QED BY <1>2, <1>3 DEF OrderInd

(* The loops that read the queue file. *)
LEMMA OrderLoops == MuxerInv /\ OrderInd /\ (LoadStep \/ RefillStep) => OrderInd'
  <1> SUFFICES ASSUME MuxerInv, OrderInd, LoadStep \/ RefillStep PROVE OrderInd'
    OBVIOUS
  <1>1. /\ phase # "down" /\ phase \in {"load", "refill"}
        /\ UNCHANGED <<memfile, limit, next, seen, acked, lost, raised>>
    BY DEF LoadStep, RefillStep, history
  <1>2. CASE ReadEof /\ UNCHANGED events
    BY <1>1, <1>2, OrderReadEof
  <1>3. ASSUME NEW e \in Event, ReadDisk(e), events' = Append(events, e),
               phase' = "ready" => Len(events') >= limit
        PROVE  OrderInd'
    BY <1>1, <1>3, OrderReadDisk
  <1>4. CASE /\ Len(events) >= limit \/ file = "null"
             /\ UNCHANGED <<events, file, disk>>
    <2>1. FileOrder'
      BY <1>1, <1>4, SameFileOrder DEF OrderInd
    <2>2. InReadOrder'
      BY <1>1, <1>4 DEF OrderInd, InReadOrder, Known
    <2> QED BY <2>1, <2>2 DEF OrderInd
  <1>5. CASE LoadStep
    <2>1. ASSUME NEW e \in Event, ReadDisk(e), events' = Append(events, e),
                 phase' = IF Len(events') < limit THEN "load" ELSE "ready"
          PROVE  OrderInd'
      <3>1. Len(events') \in Nat /\ limit \in Nat
        BY <2>1, LimitPositive, ToSetAppend DEF MuxerInv, TypeOK
      <3> QED BY <1>3, <2>1, <3>1
    <2> QED BY <1>2, <1>5, <2>1 DEF LoadStep
  <1>6. CASE RefillStep
    BY <1>2, <1>3, <1>4, <1>6 DEF RefillStep
  <1> QED BY <1>5, <1>6

(* publish(). *)
LEMMA OrderPublish == MuxerInv /\ OrderInd /\ Publish => OrderInd'
  <1> SUFFICES ASSUME MuxerInv, OrderInd, Publish PROVE OrderInd'
    OBVIOUS
  <1>1. /\ phase = "ready" /\ phase' = "ready" /\ next' = next + 1 /\ memfile = <<>>
        /\ UNCHANGED <<memfile, limit, seen, acked, lost, raised>>
    BY DEF Publish, MuxerInv, PhaseOK
  <1>2. /\ next \in Event /\ next \in Nat /\ events \in Seq(Event) /\ disk \in Seq(Event)
        /\ memfile \in Seq(Event)
    BY DEF Publish, MuxerInv, TypeOK, Event
  <1>3. Stored \subseteq Event /\ acked \subseteq Event
    BY <1>2, ToSetType DEF Stored, MuxerInv, TypeOK
  <1>4. \A x \in Stored \union acked : x < next' /\ x # next
    BY <1>1, <1>2, <1>3 DEF OrderInd, FileOrder, BelowNext, Event
  <1>5. CASE next \in Filtered /\ UNCHANGED <<events, file, disk, unflushed>>
    <2>1. FileOrder'
      BY <1>1, <1>4, <1>5 DEF OrderInd, FileOrder, DiskSorted, BelowNext, CopiesInFirstPart, Stored
    <2>2. InReadOrder'
      BY <1>1, <1>5 DEF OrderInd, InReadOrder, Known
    <2> QED BY <2>1, <2>2 DEF OrderInd
  <1>6. CASE /\ Len(events) >= limit /\ file' = "open"
             /\ disk' = Append(disk, next) /\ UNCHANGED events
    <2>1. /\ ToSet(disk') = ToSet(disk) \union {next} /\ Len(disk') = Len(disk) + 1
          /\ \A i \in 1 .. Len(disk) : disk'[i] = disk[i]
          /\ disk'[Len(disk) + 1] = next
      BY <1>2, <1>6, ToSetAppend
    <2>2. \A i \in 1 .. Len(disk) : disk[i] \in Stored
      BY <1>2, ToSetMember DEF Stored
    <2>3. Len(disk) \in Nat
      BY <1>2
    <2>4. DiskSorted'
      <3> SUFFICES ASSUME NEW i \in 1 .. Len(disk'), NEW j \in 1 .. Len(disk'), i < j
                   PROVE  disk'[i] < disk'[j]
        BY DEF DiskSorted
      <3>1. i \in 1 .. Len(disk) /\ (j = Len(disk) + 1 \/ j \in 1 .. Len(disk))
        BY <2>1, <2>3
      <3>2. CASE j = Len(disk) + 1
        BY <2>1, <2>2, <3>1, <3>2 DEF OrderInd, FileOrder, BelowNext
      <3>3. CASE j \in 1 .. Len(disk)
        BY <2>1, <3>1, <3>3 DEF OrderInd, FileOrder, DiskSorted
      <3> QED BY <3>1, <3>2, <3>3
    <2>5. BelowNext'
      <3>1. Stored' = Stored \union {next}
        BY <1>1, <1>6, <2>1 DEF Stored
      <3> QED BY <1>1, <1>2, <1>4, <3>1 DEF BelowNext
    <2>6. CopiesInFirstPart'
      <3> SUFFICES ASSUME NEW i \in 1 .. Len(disk'),
                          disk'[i] \in acked \union ToSet(events) \union ToSet(memfile)
                   PROVE  i <= PartMax
        BY <1>1, <1>6 DEF CopiesInFirstPart
      <3>1. i # Len(disk) + 1
        BY <1>4, <2>1 DEF Stored
      <3>2. i \in 1 .. Len(disk)
        BY <2>1, <2>3, <3>1
      <3> QED BY <2>1, <3>2 DEF OrderInd, FileOrder, CopiesInFirstPart
    <2>7. InReadOrder'
      BY <1>1, <1>6 DEF OrderInd, InReadOrder, Known
    <2> QED BY <2>4, <2>5, <2>6, <2>7 DEF OrderInd, FileOrder
  <1>7. CASE /\ Len(events) < limit
             /\ events' = Append(events, next) /\ UNCHANGED <<file, disk, unflushed>>
    <2>1. ToSet(events') = ToSet(events) \union {next} /\ Len(events') = Len(events) + 1
      BY <1>2, <1>7, ToSetAppend
    <2>2. DiskSorted'
      BY <1>7 DEF OrderInd, FileOrder, DiskSorted
    <2>3. BelowNext'
      <3>1. Stored' = Stored \union {next}
        BY <1>1, <1>7, <2>1 DEF Stored
      <3> QED BY <1>1, <1>2, <1>4, <3>1 DEF BelowNext
    <2>4. CopiesInFirstPart'
      <3>1. \A i \in 1 .. Len(disk) : disk[i] # next
        BY <1>2, <1>4, ToSetMember DEF Stored
      <3> QED BY <1>1, <1>7, <2>1, <3>1 DEF OrderInd, FileOrder, CopiesInFirstPart
    <2>5. limit \in Nat /\ Len(events) \in Nat
      BY LimitPositive DEF MuxerInv, TypeOK
    <2>6. ~raised => disk = <<>>
      <3>1. ~raised => file = "null"
        BY <1>1, <1>7, <2>5 DEF OrderInd, InReadOrder, MuxerInv, TypeOK
      <3> QED BY <1>1, <3>1 DEF MuxerInv, FileClosedMeansEmpty
    <2>7. ~raised => \A m \in 1 .. next - 1 : m \in Known \union ToSet(events)
      BY <1>1, <2>6, ToSetEmpty DEF MuxerInv, NothingLost, AckedWasRead, Stored, Known
    <2>8. ~raised => OrderedIn(events', Known)
      BY <1>2, <1>7, <2>7, OrderedAppend DEF OrderInd, InReadOrder
    <2>9. InReadOrder'
      BY <1>1, <1>7, <2>1, <2>5, <2>6, <2>8 DEF OrderInd, InReadOrder, Known
    <2> QED BY <2>2, <2>3, <2>4, <2>9 DEF OrderInd, FileOrder
  <1> QED BY <1>5, <1>6, <1>7 DEF Publish

(* read(): all events before the one that is read have been read or are    *)
(* not waited for.                                                         *)
LEMMA OrderRead == MuxerInv /\ OrderInd /\ Read => OrderInd'
  <1> SUFFICES ASSUME MuxerInv, OrderInd, Read PROVE OrderInd'
    OBVIOUS
  <1>1. /\ pos + 1 \in 1 .. Len(events) /\ pos \in Nat
        /\ seen' = seen \union {events[pos + 1]}
        /\ UNCHANGED <<phase, events, file, disk, memfile, limit, next, acked, lost, raised>>
    BY DEF Read, MuxerInv, TypeOK
  <1>2. FileOrder'
    BY <1>1, SameFileOrder DEF OrderInd
  <1>3. Known \subseteq Known'
    BY <1>1 DEF Known
  <1>4. ~raised => \A m \in 1 .. events[pos + 1] - 1 : m \in Known
    <2> SUFFICES ASSUME ~raised, NEW m \in 1 .. events[pos + 1] - 1 PROVE m \in Known
      OBVIOUS
    <2>1. m \in Known \union {events[j] : j \in 1 .. pos + 1 - 1}
      BY <1>1 DEF OrderInd, InReadOrder, OrderedIn
    <2>2. \A j \in 1 .. pos + 1 - 1 : j \in 1 .. pos
      BY <1>1
    <2>3. \A j \in 1 .. pos : events[j] \in Known
      BY DEF MuxerInv, ReadIsSeen, Known
    <2> QED BY <2>1, <2>2, <2>3
  <1>5. InReadOrder'
    <2> SUFFICES ASSUME ~raised
                 PROVE  /\ OrderedIn(events, Known') /\ OrderedIn(memfile, Known')
                        /\ phase = "ready" /\ file = "open" => Len(events) >= limit
                        /\ \A n \in seen' : \A m \in 1 .. n - 1 : m \in Known'
      BY <1>1 DEF InReadOrder
    <2>1. OrderedIn(events, Known') /\ OrderedIn(memfile, Known')
      BY <1>3, OrderedMore DEF OrderInd, InReadOrder
    <2>2. \A n \in seen' : \A m \in 1 .. n - 1 : m \in Known'
      BY <1>1, <1>3, <1>4 DEF OrderInd, InReadOrder
    <2> QED BY <2>1, <2>2 DEF OrderInd, InReadOrder
  <1> QED BY <1>2, <1>5 DEF OrderInd

(* ack_events(), the pops. *)
LEMMA OrderAckEvents ==
    ASSUME MuxerInv, OrderInd, NEW count \in 1 .. MaxAck, AckEvents(count)
    PROVE  OrderInd'
  <1>1. PICK n : n = Poppable(count)
    OBVIOUS
  <1>2. n \in 0 .. pos /\ n \in 0 .. Len(events) /\ n \in Nat
    BY <1>1, BoundsAssumption DEF Poppable, MuxerInv, TypeOK
  <1>3. /\ phase' = "refill"
        /\ events' = SubSeq(events, n + 1, Len(events))
        /\ acked' = acked \union ToSet(SubSeq(events, 1, n))
        /\ UNCHANGED <<disk, memfile, limit, next, seen, lost, raised>>
    BY <1>1 DEF AckEvents
  <1>4. events \in Seq(Event)
    BY DEF MuxerInv, TypeOK
  <1>5. ToSet(events) = ToSet(SubSeq(events, 1, n)) \union ToSet(events')
    BY <1>2, <1>3, <1>4, ToSetCut
  <1>6. FileOrder'
    BY <1>3, <1>5, SameFileOrder DEF OrderInd
  <1>7. \A i \in 1 .. n : events[i] \in Known
    <2>1. \A i \in 1 .. n : i \in 1 .. pos
      BY <1>2 DEF MuxerInv, TypeOK
    <2> QED BY <2>1 DEF MuxerInv, ReadIsSeen, Known
  <1>8. ~raised => OrderedIn(events', Known)
    BY <1>2, <1>3, <1>4, <1>7, OrderedCut DEF OrderInd, InReadOrder
  <1>9. InReadOrder'
    BY <1>3, <1>8 DEF OrderInd, InReadOrder, Known
  <1> QED BY <1>6, <1>9 DEF OrderInd

(* A limit that is raised while a queue file is in use ends the order. *)
LEMMA OrderSetMaxSize ==
    ASSUME MuxerInv, OrderInd, NEW max \in Limits, SetMaxSize(max)
    PROVE  OrderInd'
  <1>1. /\ UNCHANGED <<phase, events, file, disk, memfile, next, seen, acked, lost>>
        /\ limit' = EffectiveLimit(max)
        /\ raised' = (raised \/ (limit' > limit /\ file = "open"))
    BY DEF SetMaxSize, store
  <1>2. FileOrder'
    BY <1>1, SameFileOrder DEF OrderInd
  <1>3. limit' \in Nat /\ limit \in Nat /\ Len(events) \in Nat
    BY <1>1, LimitPositive DEF LimitRange, MuxerInv, TypeOK
  <1>4. ~raised' => ~raised /\ (file = "open" => limit' <= limit)
    <2>1. ~raised' => ~raised /\ ~(limit' > limit /\ file = "open")
      BY <1>1, Zenon
    <2>2. ~(limit' > limit) => limit' <= limit
      BY <1>3
    <2> QED BY <2>1, <2>2, Zenon
  <1>5. InReadOrder'
    BY <1>1, <1>3, <1>4 DEF OrderInd, InReadOrder, Known
  <1> QED BY <1>2, <1>5 DEF OrderInd

(* The destructor. *)
LEMMA OrderCleanUpTo ==
    ASSUME MuxerInv, OrderInd, NEW n \in 0 .. Len(events), CleanUpTo(n)
    PROVE  OrderInd'
  <1>1. /\ phase = "ready" /\ phase' = "down" /\ events' = <<>>
        /\ memfile' = memfile \o SubSeq(events, 1, n) /\ lost \subseteq lost'
        /\ UNCHANGED <<disk, limit, next, seen, acked, raised>>
    BY DEF CleanUpTo
  <1>2. memfile = <<>> /\ events \in Seq(Event)
    BY <1>1 DEF MuxerInv, PhaseOK, TypeOK
  <1>3. SubSeq(events, 1, n) \in Seq(Event)
        /\ ToSet(SubSeq(events, 1, n)) \subseteq ToSet(events)
    BY <1>2, ToSetCut
  <1>4. memfile' = SubSeq(events, 1, n)
    <2>1. PICK t : t = SubSeq(events, 1, n)
      OBVIOUS
    <2>2. t \in Seq(Event) /\ memfile' = <<>> \o t
      BY <1>1, <1>2, <1>3, <2>1
    <2> QED BY <2>1, <2>2
  <1>5. FileOrder'
    BY <1>1, <1>3, <1>4, SameFileOrder, ToSetEmpty DEF OrderInd
  <1>6. Known \subseteq Known'
    BY <1>1 DEF Known
  <1>7. ~raised => OrderedIn(memfile', Known')
    BY <1>2, <1>4, <1>6, OrderedCut, OrderedMore DEF OrderInd, InReadOrder
  <1>8. OrderedIn(events', Known')
    <2>1. \A i : i \notin 1 .. Len(<<>>)
      OBVIOUS
    <2> QED BY <1>1, <2>1 DEF OrderedIn
  <1>9. InReadOrder'
    BY <1>1, <1>6, <1>7, <1>8 DEF OrderInd, InReadOrder
  <1> QED BY <1>5, <1>9 DEF OrderInd

(* The end of the process. *)
LEMMA OrderCrash == MuxerInv /\ OrderInd /\ Crash => OrderInd'
  <1> SUFFICES ASSUME MuxerInv, OrderInd, Crash PROVE OrderInd'
    OBVIOUS
  <1>1. /\ phase' = "down" /\ events' = <<>> /\ lost \subseteq lost'
        /\ UNCHANGED <<memfile, limit, next, seen, acked, raised>>
        /\ disk' = disk \/ (disk # <<>> /\ disk' = Front(disk))
    BY DEF Crash
  <1>2. /\ Len(disk') \in Nat /\ Len(disk') <= Len(disk) /\ disk \in Seq(Event)
        /\ disk' \in Seq(Event)
        /\ \A i \in 1 .. Len(disk') : i \in 1 .. Len(disk) /\ disk'[i] = disk[i]
    <2>1. disk \in Seq(Event) /\ Len(disk) \in Nat
      BY DEF MuxerInv, TypeOK
    <2>2. CASE disk' = disk
      BY <2>1, <2>2
    <2>3. CASE disk # <<>> /\ disk' = Front(disk)
      <3>1. PICK n : n = Len(disk) - 1
        OBVIOUS
      <3>2. n \in 0 .. Len(disk)
        BY <2>1, <2>3, <3>1
      <3>3. disk' = SubSeq(disk, 1, n)
        BY <2>3, <3>1 DEF Front
      <3>4. /\ disk' \in Seq(Event) /\ Len(disk') = n
            /\ \A i \in 1 .. n : disk'[i] = disk[i]
        BY <2>1, <3>2, <3>3, ToSetCut
      <3> QED BY <2>1, <3>2, <3>4
    <2> QED BY <1>1, <2>2, <2>3
  <1>3. ToSet(disk') \subseteq ToSet(disk)
    BY <1>2, ToSetMember
  <1>4. FileOrder'
    <2>1. DiskSorted'
      BY <1>2 DEF OrderInd, FileOrder, DiskSorted
    <2>2. BelowNext'
      BY <1>1, <1>3, ToSetEmpty DEF OrderInd, FileOrder, BelowNext, Stored
    <2>3. CopiesInFirstPart'
      BY <1>1, <1>2, ToSetEmpty DEF OrderInd, FileOrder, CopiesInFirstPart
    <2> QED BY <2>1, <2>2, <2>3 DEF FileOrder
  <1>5. Known \subseteq Known'
    BY <1>1 DEF Known
  <1>6. ~raised => OrderedIn(memfile', Known')
    BY <1>1, <1>5, OrderedMore DEF OrderInd, InReadOrder
  <1>7. OrderedIn(events', Known')
    <2>1. \A i : i \notin 1 .. Len(<<>>)
      OBVIOUS
    <2> QED BY <1>1, <2>1 DEF OrderedIn
  <1>8. InReadOrder'
    BY <1>1, <1>5, <1>6, <1>7 DEF OrderInd, InReadOrder
  <1> QED BY <1>4, <1>8 DEF OrderInd

(* Every step of the muxer keeps the order. *)
LEMMA OrderStep == MuxerInv /\ OrderInd /\ [Next]_vars => OrderInd'
  <1> SUFFICES ASSUME MuxerInv, OrderInd, [Next]_vars PROVE OrderInd'
    OBVIOUS
  <1>1. CASE Clean
    <2>1. (IF Persistent THEN Len(events) ELSE 0) \in 0 .. Len(events)
      BY DEF MuxerInv, TypeOK
    <2> QED BY <1>1, <2>1, OrderCleanUpTo DEF Clean
  <1>2. CASE CleanInterrupted
    BY <1>2, OrderCleanUpTo DEF CleanInterrupted
  <1>3. CASE NackEvents \/ UNCHANGED vars
    <2>1. UNCHANGED <<phase, events, file, disk, memfile, limit, next, seen, acked, lost, raised>>
      BY <1>3 DEF NackEvents, history, vars, store
    <2>2. FileOrder'
      BY <2>1, SameFileOrder DEF OrderInd
    <2>3. InReadOrder'
      BY <2>1 DEF OrderInd, InReadOrder, Known
    <2> QED BY <2>2, <2>3 DEF OrderInd
  <1> QED BY <1>1, <1>2, <1>3, OrderConstruct, OrderLoops, OrderPublish, OrderRead, OrderAckEvents,
             OrderSetMaxSize, OrderCrash DEF Next

(* Events are read for the first time in the order they were published,    *)
(* unless the limit was raised while a queue file was in use, and only     *)
(* those of the first part of the file are ever read again after they were *)
(* acknowledged.                                                           *)
THEOREM MuxerReadsInOrder == Spec => []ReadOrder
  <1>1. MuxerInv /\ OrderInd => ReadOrder
    BY DEF MuxerInv, TypeOK, OrderInd, FileOrder, CopiesInFirstPart, InReadOrder, Known, ReadOrder,
           FirstReadInOrder, RereadOnlyFromFirstPart
  <1> QED
    BY <1>1, MuxerInvariant, OrderInit, OrderStep, PTL DEF Spec

-----------------------------------------------------------------------------
(* multiplexing::engine *)

(* a may come before b: they differ and, unless r, are in order. *)
Good(a, b, r) == a # b /\ (~r => a < b)

(* The events of s are such a sequence, and those of s may come before     *)
(* those of t.                                                             *)
Chain(s, r) == \A i, j \in 1 .. Len(s) : i < j => Good(s[i], s[j], r)
Apart(s, t, r) == \A a \in ToSet(s), b \in ToSet(t) : Good(a, b, r)

(* The events of s were published. *)
Below(s) == \A e \in ToSet(s) : e < published

(* Where the main thread is, what the engine does with events, and which  *)
(* files there are.                                                       *)
EngineFlow ==
    /\ wf = "write" <=> pc \in {"starting", "running", "stopping"}
    /\ wf = "cache" => pc \in {"down", "stopped", "discarded", "cleared", "renaming", "removing"}
    /\ pc \in {"applied", "starting", "running", "stopping"} => subs = Muxers
    /\ txn => pc \in {"stopped", "discarded", "cleared", "renaming", "removing"}
    /\ pc \in {"stopped", "renaming", "removing"} => wf = "cache"
    /\ txn => wf = "cache"
    /\ pc \in {"renaming", "removing"} => txn
    /\ pc = "down" => kiew = <<>>
    /\ pc = "renaming" => "cache" \notin exists
    /\ txn /\ pc # "removing" => "new" \in exists

(* Events are in a place that survives, or queued, or were dropped: what   *)
(* the next commit or unlink will remove was delivered before.            *)
EngineSafe ==
    /\ NoEventLost
    /\ Below(kiew) /\ (\A f \in File : Below(content[f])) /\ (\A m \in Muxers : Below(got[m]))
    /\ ToSet(content["old"]) \subseteq Delivered
    /\ pc \in {"running", "stopping"} \/ (txn /\ pc \in {"stopped", "discarded", "cleared"})
         => ToSet(content["cache"]) \subseteq Delivered

(* The sequences that muxers will be given after got[m], without a fault.  *)
Ahead ==
    /\ pc \in {"down", "loaded", "applied", "starting", "removing"} =>
         Chain(content["cache"], raced) /\ \A m \in Muxers : Apart(got[m], content["cache"], raced)
    /\ pc \in {"loaded", "applied", "starting", "running", "stopping"} =>
         Chain(kiew, raced) /\ \A m \in Muxers : Apart(got[m], kiew, raced)
    /\ pc \in {"loaded", "applied", "starting"} => Apart(content["cache"], kiew, raced)
    /\ pc \in {"stopped", "discarded", "cleared", "renaming"} =>
         Chain(content["new"], raced) /\ \A m \in Muxers : Apart(got[m], content["new"], raced)

(* Without a fault. *)
Faultless ==
    /\ forgotten = {}
    /\ pc \in {"stopped", "discarded", "cleared"} => txn
    /\ pc \in {"stopped", "discarded", "cleared", "renaming"} =>
         ToSet(kiew) \subseteq ToSet(content["new"])
    /\ pc = "removing" => ToSet(kiew) \subseteq ToSet(content["cache"])
    /\ pc \notin {"renaming", "removing"} => "old" \notin exists
    /\ pc \notin {"stopped", "discarded", "cleared", "renaming"} => content["new"] = <<>>
    /\ \A m \in Muxers : Chain(got[m], raced)
    /\ Ahead

(* The inductive invariant of the engine. *)
EngineInd == EngineTypeOK /\ EngineFlow /\ EngineSafe /\ (faults = 0 => Faultless)

(* A later event may follow an earlier one, raced or not. *)
LEMMA GoodLater ==
    ASSUME NEW a \in Nat, NEW b \in Nat, a < b, NEW r PROVE Good(a, b, r)
  BY DEF Good

(* The empty sequence is a chain. *)
LEMMA ChainEmpty == ASSUME NEW r PROVE Chain(<<>>, r)
  BY DEF Chain

(* A chain stays one when an event that may follow all of its events is    *)
(* appended.                                                               *)
LEMMA ChainAppend ==
    ASSUME NEW S, NEW s \in Seq(S), NEW e \in S, NEW r, Chain(s, r),
           \A a \in ToSet(s) : Good(a, e, r)
    PROVE  Chain(Append(s, e), r)
  <1>1. /\ Len(Append(s, e)) = Len(s) + 1 /\ Len(s) \in Nat
        /\ \A i \in 1 .. Len(s) : Append(s, e)[i] = s[i]
        /\ Append(s, e)[Len(s) + 1] = e
    BY ToSetAppend
  <1>2. \A i \in 1 .. Len(s) : s[i] \in ToSet(s)
    BY ToSetMember
  <1> DEFINE t == Append(s, e)
  <1> HIDE DEF t
  <1>3. ASSUME NEW i \in 1 .. Len(t), NEW j \in 1 .. Len(t), i < j PROVE Good(t[i], t[j], r)
    <2>1. i \in 1 .. Len(s) /\ t[i] = s[i]
      BY <1>1, <1>3 DEF t
    <2>2. CASE j = Len(s) + 1
      BY <2>1, <2>2, <1>1, <1>2 DEF t
    <2>3. CASE j # Len(s) + 1
      <3>1. j \in 1 .. Len(s)
        BY <2>3, <1>1 DEF t
      <3>2. t[j] = s[j]
        BY <3>1, <1>1 DEF t
      <3> QED
        BY <2>1, <3>1, <3>2, <1>3 DEF Chain
    <2> QED
      BY <2>2, <2>3
  <1> QED
    BY <1>3 DEF Chain, t

(* Two chains, the events of the second of which may follow those of the   *)
(* first, make one.                                                        *)
LEMMA ChainConcat ==
    ASSUME NEW S, NEW s \in Seq(S), NEW t \in Seq(S), NEW r, Chain(s, r), Chain(t, r),
           Apart(s, t, r)
    PROVE  Chain(s \o t, r)
  <1> DEFINE u == s \o t
  <1>1. /\ Len(u) = Len(s) + Len(t) /\ Len(s) \in Nat /\ Len(t) \in Nat
        /\ \A i \in 1 .. Len(u) : u[i] = IF i <= Len(s) THEN s[i] ELSE t[i - Len(s)]
    OBVIOUS
  <1> HIDE DEF u
  <1>2. \A i \in 1 .. Len(s), j \in 1 .. Len(t) : Good(s[i], t[j], r)
    BY ToSetMember DEF Apart
  <1>3. ASSUME NEW i \in 1 .. Len(u), NEW j \in 1 .. Len(u), i < j PROVE Good(u[i], u[j], r)
    <2>1. CASE j <= Len(s)
      <3>1. i \in 1 .. Len(s) /\ j \in 1 .. Len(s) /\ u[i] = s[i] /\ u[j] = s[j]
        BY <2>1, <1>1, <1>3
      <3> QED
        BY <3>1, <1>3 DEF Chain
    <2>2. CASE i <= Len(s) /\ j > Len(s)
      <3>1. i \in 1 .. Len(s) /\ j - Len(s) \in 1 .. Len(t) /\ u[i] = s[i] /\ u[j] = t[j - Len(s)]
        BY <2>2, <1>1, <1>3
      <3> QED
        BY <3>1, <1>2
    <2>3. CASE i > Len(s)
      <3>1. /\ i - Len(s) \in 1 .. Len(t) /\ j - Len(s) \in 1 .. Len(t)
            /\ u[i] = t[i - Len(s)] /\ u[j] = t[j - Len(s)] /\ i - Len(s) < j - Len(s)
        BY <2>3, <1>1, <1>3
      <3> QED
        BY <3>1 DEF Chain
    <2> QED
      BY <2>1, <2>2, <2>3, <1>1
  <1> QED
    BY <1>3 DEF Chain, u

(* What holds of the order in a run without a race holds after one: only   *)
(* the distinctness of the events is left.                                 *)
LEMMA Weaker ==
    ASSUME NEW s, NEW t, NEW r
    PROVE  /\ Chain(s, r) => Chain(s, TRUE)
           /\ Apart(s, t, r) => Apart(s, t, TRUE) /\ Apart(t, s, TRUE)
  BY DEF Chain, Apart, Good

(* No event is twice in a chain. *)
LEMMA ChainInjective ==
    ASSUME NEW S, NEW s \in Seq(S), NEW r, Chain(s, r)
    PROVE  IsInjective(s)
  <1>1. DOMAIN s = 1 .. Len(s) /\ Len(s) \in Nat
    OBVIOUS
  <1> QED
    BY <1>1 DEF Chain, Good, IsInjective

(* Events that every muxer was given stay so when the muxers are only      *)
(* given more.                                                             *)
LEMMA DeliveredGrows ==
    ASSUME \A m \in Muxers : ToSet(got[m]) \subseteq ToSet(got'[m])
    PROVE  Delivered \subseteq Delivered'
  BY DEF Delivered

(* _send_to_subscribers(): when all muxers are subscribed, the events of   *)
(* the queue are delivered.                                                *)
LEMMA Sent ==
    ASSUME EngineTypeOK, NEW q \in Seq(EngineEvent), Send(q), subs = Muxers
    PROVE  /\ got' \in [Muxers -> Seq(EngineEvent)]
           /\ \A m \in Muxers : /\ got'[m] = got[m] \o q
                                /\ ToSet(got'[m]) = ToSet(got[m]) \union ToSet(q)
           /\ Delivered \subseteq Delivered' /\ ToSet(q) \subseteq Delivered'
  <1>1. got' = [m \in Muxers |-> got[m] \o q]
    BY DEF Send
  <1>2. ASSUME NEW m \in Muxers
        PROVE  got[m] \o q \in Seq(EngineEvent) /\ ToSet(got[m] \o q) = ToSet(got[m]) \union ToSet(q)
    <2>1. got[m] \in Seq(EngineEvent)
      BY DEF EngineTypeOK
    <2> QED
      BY <2>1, ToSetUnion
  <1>3. got' \in [Muxers -> Seq(EngineEvent)]
    BY <1>1, <1>2
  <1>4. \A m \in Muxers : /\ got'[m] = got[m] \o q
                          /\ ToSet(got'[m]) = ToSet(got[m]) \union ToSet(q)
    BY <1>1, <1>2
  <1>5. Delivered \subseteq Delivered'
    BY <1>4, DeliveredGrows
  <1>6. ToSet(q) \subseteq EngineEvent
    BY ToSetType
  <1>7. ToSet(q) \subseteq Delivered'
    BY <1>4, <1>6 DEF Delivered
  <1> QED
    BY <1>3, <1>4, <1>5, <1>7

(* A muxer that was sent q next. *)
LEMMA ChainSent ==
    ASSUME EngineTypeOK, NEW q \in Seq(EngineEvent), Send(q), subs = Muxers, NEW r, Chain(q, r),
           NEW m \in Muxers, Chain(got[m], r), Apart(got[m], q, r)
    PROVE  /\ Chain(got'[m], r)
           /\ \A t : Apart(got[m], t, r) /\ Apart(q, t, r) => Apart(got'[m], t, r)
  <1>1. /\ got'[m] = got[m] \o q /\ got[m] \in Seq(EngineEvent)
        /\ ToSet(got'[m]) = ToSet(got[m]) \union ToSet(q)
    BY Sent DEF EngineTypeOK
  <1> QED
    BY <1>1, ChainConcat DEF Apart

(* The initial state of the engine. *)
LEMMA EngineInitInd == EngineInit => EngineInd
  <1> SUFFICES ASSUME EngineInit PROVE EngineInd
    OBVIOUS
  <1>1. <<>> \in Seq(EngineEvent) /\ ToSet(<<>>) = {}
    BY ToSetEmpty
  <1>2. EngineTypeOK
    <2>1. content \in [File -> Seq(EngineEvent)] /\ got \in [Muxers -> Seq(EngineEvent)]
      BY <1>1 DEF EngineInit
    <2>2. kiew \in Seq(EngineEvent) /\ \A f \in File \ exists : content[f] = <<>>
      BY <1>1 DEF EngineInit
    <2>3. published \in 1 .. EngineEvents + 1 /\ runs \in 0 .. MaxRuns /\ faults \in 0 .. MaxFaults
      BY EngineAssumption DEF EngineInit
    <2> QED
      BY <2>1, <2>2, <2>3 DEF EngineInit, EngineTypeOK, Place
  <1>3. EngineFlow
    BY DEF EngineInit, EngineFlow
  <1>4. (\A f \in File : content[f] = <<>>) /\ (\A m \in Muxers : got[m] = <<>>) /\ "cache" \in File
        /\ "new" \in File /\ "old" \in File
    BY DEF EngineInit, File
  <1>5. EngineSafe
    <2>1. 1 .. published - 1 = {}
      BY DEF EngineInit
    <2> QED
      BY <2>1, <1>1, <1>4 DEF EngineInit, EngineSafe, NoEventLost, Below
  <1>6. Faultless
    <2>1. \A s, r : Apart(<<>>, s, r) /\ Apart(s, <<>>, r)
      BY <1>1 DEF Apart
    <2> QED
      BY <2>1, <1>4, ChainEmpty DEF EngineInit, Faultless, Ahead
  <1> QED
    BY <1>2, <1>3, <1>5, <1>6 DEF EngineInd

(* Steps of the main thread that move no event: load(), the subscription   *)
(* of the muxers, the flag of start(), a refused configuration, the        *)
(* discard of the endpoints.                                               *)
LEMMA QuietStep ==
    ASSUME EngineInd, Load \/ Apply \/ StartFlag \/ Abort \/ Discard
    PROVE  EngineInd'
  <1>1. UNCHANGED <<files, got, published, forgotten, raced, kiew, txn>>
    BY DEF Load, Apply, StartFlag, Abort, Discard, EngineInd, EngineFlow
  <1>2. Delivered' = Delivered /\ Safe' = Safe
    BY <1>1 DEF Delivered, Safe, files
  <1>3. EngineTypeOK'
    <2>1. pc' \in Place /\ wf' \in {"nop", "write", "cache"} /\ subs' \in {{}, Muxers}
      BY DEF Load, Apply, StartFlag, Abort, Discard, EngineInd, EngineTypeOK, Place
    <2>2. runs' \in 0 .. MaxRuns /\ faults' \in 0 .. MaxFaults
      BY EngineAssumption
      DEF Load, Apply, StartFlag, Abort, Discard, EngineInd, EngineTypeOK
    <2> QED
      BY <1>1, <2>1, <2>2 DEF EngineInd, EngineTypeOK, files
  <1>4. EngineFlow'
    BY <1>1 DEF Load, Apply, StartFlag, Abort, Discard, EngineInd, EngineFlow, files
  <1>5. EngineSafe'
    <2>1. pc' \in {"running", "stopping"} \/ (txn' /\ pc' \in {"stopped", "discarded", "cleared"})
            => pc \in {"running", "stopping"} \/ (txn /\ pc \in {"stopped", "discarded", "cleared"})
      BY DEF Load, Apply, StartFlag, Abort, Discard, EngineInd, EngineFlow
    <2> QED
      BY <1>1, <1>2, <2>1 DEF EngineInd, EngineSafe, NoEventLost, Below, files
  <1>6. ASSUME faults' = 0 PROVE Faultless'
    <2>1. ~Abort /\ faults = 0
      BY <1>6, EngineAssumption
      DEF Load, Apply, StartFlag, Abort, Discard, EngineInd, EngineTypeOK
    <2>2. Faultless
      BY <2>1 DEF EngineInd
    <2>3. kiew = <<>> => \A s : Apart(s, kiew, raced) /\ Chain(kiew, raced)
      BY ToSetEmpty, ChainEmpty DEF Apart
    <2>4. pc = "down" => kiew = <<>>
      BY DEF EngineInd, EngineFlow
    <2>5. Load \/ Apply \/ StartFlag \/ Discard
      BY <2>1
    <2>6. Ahead'
      BY <1>1, <2>2, <2>3, <2>4, <2>5 DEF Load, Apply, StartFlag, Discard, Faultless, Ahead, files
    <2> QED
      BY <1>1, <2>2, <2>5, <2>6 DEF Load, Apply, StartFlag, Discard, Faultless, files
  <1> QED
    BY <1>3, <1>4, <1>5, <1>6 DEF EngineInd

(* The number of the next event, and the events, are natural numbers. *)
LEMMA EngineNumbers ==
    ASSUME EngineTypeOK
    PROVE  /\ published \in Nat /\ EngineEvent \subseteq Nat
           /\ published <= EngineEvents => published \in EngineEvent
           /\ published + 1 \in Nat
  BY EngineAssumption DEF EngineTypeOK, EngineEvent

(* What publish() does to the history and to _kiew whatever _write_func    *)
(* is.                                                                     *)
LEMMA PublishStep ==
    ASSUME EngineInd, EnginePublish \/ PublishFails
    PROVE  /\ published \in EngineEvent /\ published' = published + 1 /\ published' \in 1 .. EngineEvents + 1
           /\ \A e \in Nat : e < published' <=> e < published \/ e = published
           /\ Append(kiew, published) \in Seq(EngineEvent)
           /\ ToSet(Append(kiew, published)) = ToSet(kiew) \union {published}
           /\ 1 .. published' - 1 = 1 .. published - 1 \union {published}
           /\ UNCHANGED <<pc, wf, subs, txn, exists, forgotten, runs>>
           /\ raced' = (raced \/ pc = "starting") /\ raced' \in BOOLEAN
           /\ pc \notin {"down", "renaming", "removing"}
  <1>1. /\ published \in EngineEvent /\ published' = published + 1
        /\ UNCHANGED <<pc, wf, subs, txn, exists, forgotten, runs>>
        /\ raced' = (raced \/ pc = "starting")
        /\ pc \notin {"down", "renaming", "removing"}
    BY EngineNumbers DEF EnginePublish, PublishFails, CanPublish, EngineInd, files
  <1>2. published \in Nat /\ published <= EngineEvents /\ published >= 1
    BY <1>1, EngineAssumption DEF EngineEvent
  <1>3. published' \in 1 .. EngineEvents + 1
    BY <1>1, <1>2, EngineAssumption
  <1>4. Append(kiew, published) \in Seq(EngineEvent)
        /\ ToSet(Append(kiew, published)) = ToSet(kiew) \union {published}
    BY <1>1, ToSetAppend DEF EngineInd, EngineTypeOK
  <1>5. 1 .. published' - 1 = 1 .. published - 1 \union {published}
    BY <1>1, <1>2
  <1>6. \A e \in Nat : e < published' <=> e < published \/ e = published
    BY <1>1, <1>2
  <1>7. raced' \in BOOLEAN
    BY <1>1 DEF EngineInd, EngineTypeOK
  <1> QED
    BY <1>1, <1>3, <1>4, <1>5, <1>6, <1>7

(* The event that is published comes after all the others. *)
LEMMA PublishedLast ==
    ASSUME EngineTypeOK, NEW s \in Seq(EngineEvent), Below(s), NEW r
    PROVE  /\ \A e \in ToSet(s) : Good(e, published, r)
           /\ Chain(s, r) => Chain(Append(s, published), r) \/ published \notin EngineEvent
  <1>1. ToSet(s) \subseteq Nat /\ published \in Nat
    BY EngineNumbers, ToSetType
  <1>2. \A e \in ToSet(s) : Good(e, published, r)
    BY <1>1, GoodLater DEF Below
  <1> QED
    BY <1>2, ChainAppend

(* Sequences that hold at most the published event and earlier ones are    *)
(* below the next number.                                                  *)
LEMMA StillBelow ==
    ASSUME EngineInd, EnginePublish \/ PublishFails, NEW s \in Seq(EngineEvent),
           ToSet(s) \subseteq {e \in EngineEvent : e < published \/ e = published}
    PROVE  \A e \in ToSet(s) : e < published'
  BY PublishStep, EngineNumbers DEF EngineInd

(* publish() before the start: the event is queued in _kiew. *)
LEMMA PublishNop ==
    ASSUME EngineInd, EnginePublish, wf = "nop" PROVE EngineInd'
  <1> USE PublishStep
  <1>1. kiew' = Append(kiew, published) /\ UNCHANGED <<got, content, faults>>
    BY DEF EnginePublish
  <1>2. pc \in {"loaded", "applied", "discarded", "cleared"} /\ raced' = raced
    BY DEF EngineInd, EngineFlow, EngineTypeOK, Place
  <1>3. Delivered' = Delivered /\ Safe' = Safe
    BY <1>1 DEF Delivered, Safe
  <1>4. EngineTypeOK' /\ EngineFlow'
    BY <1>1, <1>2 DEF EngineInd, EngineTypeOK, EngineFlow
  <1>5. NoEventLost'
    BY <1>1, <1>3 DEF EngineInd, EngineSafe, NoEventLost
  <1>6. ASSUME NEW s \in Seq(EngineEvent), Below(s) PROVE \A e \in ToSet(s) : e < published'
    BY <1>6, StillBelow, ToSetType DEF Below
  <1>7. /\ kiew \in Seq(EngineEvent) /\ (\A f \in File : content[f] \in Seq(EngineEvent))
        /\ \A m \in Muxers : got[m] \in Seq(EngineEvent)
        /\ Below(kiew) /\ (\A f \in File : Below(content[f])) /\ (\A m \in Muxers : Below(got[m]))
    BY DEF EngineInd, EngineTypeOK, EngineSafe
  <1>8. Below(kiew)'
    BY <1>1, <1>6, <1>7, EngineNumbers DEF Below, EngineInd
  <1>9. (\A f \in File : Below(content[f])') /\ (\A m \in Muxers : Below(got[m])')
    BY <1>1, <1>6, <1>7 DEF Below
  <1>10. EngineSafe'
    BY <1>1, <1>2, <1>3, <1>5, <1>8, <1>9 DEF EngineInd, EngineSafe
  <1>11. ASSUME faults' = 0 PROVE Faultless'
    <2>1. Faultless
      BY <1>1, <1>11 DEF EngineInd
    <2>2. pc \in {"loaded", "applied"}
      BY <1>2, <2>1 DEF Faultless, EngineInd, EngineFlow
    <2>3. Chain(kiew', raced)
      BY <1>1, <1>7, <2>1, <2>2, PublishedLast DEF Faultless, Ahead, EngineInd
    <2>4. ASSUME NEW s \in Seq(EngineEvent), Below(s), Apart(s, kiew, raced)
          PROVE  Apart(s, kiew', raced)
      BY <1>1, <2>4, PublishedLast DEF Apart, EngineInd
    <2>5. Apart(content["cache"], kiew', raced) /\ \A m \in Muxers : Apart(got[m], kiew', raced)
      BY <1>7, <2>1, <2>2, <2>4 DEF Faultless, Ahead, File
    <2> QED
      BY <1>1, <1>2, <2>1, <2>2, <2>3, <2>5 DEF Faultless, Ahead
  <1> QED
    BY <1>4, <1>10, <1>11 DEF EngineInd

(* The sequences that hold events: all are typed, and hold published       *)
(* events only.                                                            *)
LEMMA Held ==
    ASSUME EngineInd
    PROVE  /\ kiew \in Seq(EngineEvent) /\ (\A f \in File : content[f] \in Seq(EngineEvent))
           /\ \A m \in Muxers : got[m] \in Seq(EngineEvent)
           /\ Below(kiew) /\ (\A f \in File : Below(content[f])) /\ (\A m \in Muxers : Below(got[m]))
           /\ {"cache", "new", "old"} \subseteq File
  BY DEF EngineInd, EngineTypeOK, EngineSafe, File

(* publish() of a running engine: the event is given to all the muxers. *)
LEMMA PublishWrite ==
    ASSUME EngineInd, EnginePublish, wf = "write" PROVE EngineInd'
  <1> USE PublishStep, Held
  <1> DEFINE q == Append(kiew, published)
  <1>1. kiew' = <<>> /\ Send(q) /\ UNCHANGED <<content, faults>>
    BY DEF EnginePublish
  <1>2. pc \in {"starting", "running", "stopping"} /\ subs = Muxers
    BY DEF EngineInd, EngineFlow
  <1>3. /\ q \in Seq(EngineEvent) /\ ToSet(q) = ToSet(kiew) \union {published}
        /\ ToSet(<<>>) = {} /\ <<>> \in Seq(EngineEvent)
    BY ToSetEmpty
  <1>4. Chain(kiew, raced) => Chain(q, raced)
    BY PublishedLast DEF EngineInd
  <1>5. ASSUME NEW s \in Seq(EngineEvent), Below(s), Apart(s, kiew, raced) PROVE Apart(s, q, raced)
    BY ZenonT(60), <1>3, <1>5, PublishedLast DEF Apart, EngineInd
  <1> HIDE DEF q
  <1>6. /\ got' \in [Muxers -> Seq(EngineEvent)]
        /\ \A m \in Muxers : ToSet(got'[m]) = ToSet(got[m]) \union ToSet(q)
        /\ Delivered \subseteq Delivered' /\ ToSet(q) \subseteq Delivered'
    BY <1>1, <1>2, <1>3, Sent DEF EngineInd
  <1>7. EngineTypeOK' /\ EngineFlow'
    BY <1>1, <1>3, <1>6 DEF EngineInd, EngineTypeOK, EngineFlow
  <1>8. NoEventLost'
    <2>1. Safe \subseteq Safe'
      BY <1>1, <1>6 DEF Safe
    <2>2. ToSet(kiew) \union {published} \subseteq Safe'
      BY <1>3, <1>6 DEF Safe
    <2> QED
      BY <2>1, <2>2 DEF EngineInd, EngineSafe, NoEventLost
  <1>9. ASSUME NEW s \in Seq(EngineEvent), Below(s) PROVE \A e \in ToSet(s) : e < published'
    BY <1>9, StillBelow, ToSetType DEF Below
  <1>10. \A e \in ToSet(q) : e < published'
    BY <1>3, <1>9, EngineNumbers DEF EngineInd
  <1>11. /\ Below(kiew)' /\ (\A f \in File : Below(content[f])')
         /\ (\A m \in Muxers : Below(got[m])')
    BY <1>1, <1>3, <1>6, <1>9, <1>10 DEF Below
  <1>12. EngineSafe'
    BY <1>1, <1>6, <1>8, <1>11 DEF EngineInd, EngineSafe
  <1>13. ASSUME faults' = 0 PROVE Faultless'
    <2>1. Faultless
      BY <1>1, <1>13 DEF EngineInd
    <2>2. /\ Chain(q, raced) /\ Chain(q, raced')
          /\ \A m \in Muxers : /\ Chain(got[m], raced')
                               /\ Apart(got[m], q, raced) /\ Apart(got[m], q, raced')
      <3>1. /\ Chain(q, raced)
            /\ \A m \in Muxers : Chain(got[m], raced) /\ Apart(got[m], q, raced)
        BY <1>2, <1>4, <1>5, <2>1 DEF Faultless, Ahead
      <3>2. raced' = raced \/ raced' = TRUE
        BY DEF EngineInd, EngineTypeOK
      <3> QED
        BY <3>1, <3>2, Weaker
    <2>3. ASSUME NEW m \in Muxers
          PROVE  /\ Chain(got'[m], raced')
                 /\ \A t : Apart(got[m], t, raced') /\ Apart(q, t, raced') => Apart(got'[m], t, raced')
      BY <1>1, <1>2, <1>3, <2>2, ChainSent DEF EngineInd
    <2>4. \A s : Chain(kiew', raced') /\ Apart(s, kiew', raced')
      BY <1>1, <1>3, ChainEmpty DEF Apart
    <2>5. ASSUME pc = "starting"
          PROVE  /\ Chain(content["cache"], raced')
                 /\ \A m \in Muxers : Apart(got'[m], content["cache"], raced')
      <3>1. raced' = TRUE
        BY <2>5
      <3>2. /\ Chain(content["cache"], raced) /\ Apart(content["cache"], kiew, raced)
            /\ \A m \in Muxers : Apart(got[m], content["cache"], raced)
        BY <2>1, <2>5 DEF Faultless, Ahead
      <3>3. Apart(q, content["cache"], TRUE)
        BY <3>2, <1>5, Weaker
      <3> QED
        BY <3>1, <3>2, <3>3, <2>3, Weaker
    <2> QED
      BY <1>1, <1>2, <2>1, <2>3, <2>4, <2>5 DEF Faultless, Ahead
  <1> QED
    BY <1>7, <1>12, <1>13 DEF EngineInd

(* publish() of a stopped engine: the event is queued, and cached when     *)
(* the cache file is open.                                                 *)
LEMMA PublishCache ==
    ASSUME EngineInd, EnginePublish, wf = "cache" PROVE EngineInd'
  <1> USE PublishStep, Held
  <1> DEFINE n == Append(content["new"], published)
  <1>1. /\ kiew' = Append(kiew, published) /\ UNCHANGED <<got, faults>>
        /\ content' = IF txn THEN [content EXCEPT !["new"] = n] ELSE content
    BY DEF EnginePublish
  <1>2. pc \in {"stopped", "discarded", "cleared"} /\ raced' = raced
    BY DEF EngineInd, EngineFlow, EngineTypeOK
  <1>3. n \in Seq(EngineEvent) /\ ToSet(n) = ToSet(content["new"]) \union {published}
    BY ToSetAppend
  <1> HIDE DEF n
  <1>4. /\ content' \in [File -> Seq(EngineEvent)]
        /\ content'["cache"] = content["cache"] /\ content'["old"] = content["old"]
        /\ content'["new"] = IF txn THEN n ELSE content["new"]
    BY <1>1, <1>3 DEF EngineInd, EngineTypeOK
  <1>5. Delivered' = Delivered
    BY <1>1 DEF Delivered
  <1>6. Safe \subseteq Safe'
    BY <1>3, <1>4, <1>5 DEF Safe, File
  <1>7. NoEventLost'
    BY <1>1, <1>6 DEF EngineInd, EngineSafe, NoEventLost
  <1>8. ASSUME NEW s \in Seq(EngineEvent), Below(s) PROVE \A e \in ToSet(s) : e < published'
    BY <1>8, StillBelow, ToSetType DEF Below
  <1>9. published < published'
    BY EngineNumbers DEF EngineInd
  <1>10. /\ Below(kiew)' /\ (\A f \in File : Below(content[f])')
         /\ (\A m \in Muxers : Below(got[m])')
    BY <1>1, <1>3, <1>4, <1>8, <1>9 DEF Below, File
  <1>11. EngineSafe'
    BY <1>4, <1>5, <1>7, <1>10 DEF EngineInd, EngineSafe
  <1>12. \A f \in File \ exists' : content'[f] = <<>>
    BY <1>2, <1>4 DEF File, EngineInd, EngineTypeOK, EngineFlow
  <1>13. EngineTypeOK' /\ EngineFlow'
    <2>1. kiew' \in Seq(EngineEvent)
      BY <1>1 DEF EngineInd, EngineTypeOK
    <2>2. EngineTypeOK'
      BY <1>1, <1>2, <1>4, <1>12, <2>1 DEF EngineInd, EngineTypeOK
    <2>3. EngineFlow'
      BY <1>1, <1>2 DEF EngineInd, EngineFlow
    <2> QED
      BY <2>2, <2>3
  <1>14. ASSUME faults' = 0 PROVE Faultless'
    <2>1. Faultless
      BY <1>1, <1>14 DEF EngineInd
    <2>2. txn
      BY <1>2, <2>1 DEF Faultless
    <2>3. Chain(n, raced)
      BY <1>2, <2>1, PublishedLast DEF Faultless, Ahead, n, EngineInd
    <2>4. ASSUME NEW m \in Muxers PROVE Apart(got[m], n, raced)
      BY <1>2, <1>3, <2>1, PublishedLast DEF Faultless, Ahead, Apart, EngineInd
    <2> QED
      BY <1>1, <1>2, <1>3, <1>4, <2>1, <2>2, <2>3, <2>4 DEF Faultless, Ahead
  <1> QED
    BY <1>11, <1>13, <1>14 DEF EngineInd

(* publish() of a running engine that a muxer breaks with an exception:    *)
(* muxers after it are not given the event.                                *)
LEMMA PublishFailsInd == ASSUME EngineInd, PublishFails PROVE EngineInd'
  <1> USE PublishStep, Held
  <1>0. PICK q \in Seq(EngineEvent) : q = Append(kiew, published)
    OBVIOUS
  <1>1. PICK i \in 1 .. Len(q), before \in SUBSET subs :
             /\ got' = [m \in Muxers |->
                          CASE m \in before -> got[m] \o SubSeq(q, 1, i)
                            [] m \in subs \ before -> got[m] \o SubSeq(q, 1, i - 1)
                            [] OTHER -> got[m]]
             /\ kiew' = SubSeq(q, i, Len(q))
    BY <1>0 DEF PublishFails
  <1>2. /\ UNCHANGED files /\ faults' = faults + 1 /\ faults < MaxFaults /\ wf = "write"
        /\ subs = Muxers /\ pc \in {"starting", "running", "stopping"}
    BY DEF PublishFails, EngineInd, EngineFlow
  <1>3. PICK k \in 0 .. Len(q) : k + 1 = i /\ k = i - 1
    <2>1. i - 1 \in 0 .. Len(q) /\ i - 1 + 1 = i
      OBVIOUS
    <2> QED
      BY <2>1
  <1>4. /\ SubSeq(q, 1, k) \in Seq(EngineEvent) /\ SubSeq(q, i, Len(q)) \in Seq(EngineEvent)
        /\ ToSet(q) = ToSet(SubSeq(q, 1, k)) \union ToSet(SubSeq(q, i, Len(q)))
    BY <1>3, ToSetCut
  <1>5. SubSeq(q, 1, i) \in Seq(EngineEvent) /\ ToSet(SubSeq(q, 1, i)) \subseteq ToSet(q)
        /\ ToSet(SubSeq(q, 1, k)) \subseteq ToSet(SubSeq(q, 1, i))
    <2>1. i \in 0 .. Len(q)
      OBVIOUS
    <2>2. /\ SubSeq(q, 1, i) \in Seq(EngineEvent) /\ ToSet(SubSeq(q, 1, i)) \subseteq ToSet(q)
          /\ \A e : e \in ToSet(SubSeq(q, 1, i)) <=> \E j \in 1 .. i : e = q[j]
      BY <2>1, ToSetCut
    <2>3. \A e : e \in ToSet(SubSeq(q, 1, k)) <=> \E j \in 1 .. k : e = q[j]
      BY ToSetCut
    <2>4. \A j \in 1 .. k : j \in 1 .. i
      BY <1>3
    <2> QED
      BY <2>2, <2>3, <2>4
  <1>6. ASSUME NEW m \in Muxers
        PROVE  /\ got'[m] \in Seq(EngineEvent)
               /\ ToSet(got[m]) \union ToSet(SubSeq(q, 1, k)) \subseteq ToSet(got'[m])
               /\ ToSet(got'[m]) \subseteq ToSet(got[m]) \union ToSet(q)
    <2>1. \E s \in {SubSeq(q, 1, i), SubSeq(q, 1, k)} : got'[m] = got[m] \o s
      <3>1. CASE m \in before
        BY <3>1, <1>1
      <3>2. CASE m \notin before
        BY <3>2, <1>1, <1>2, <1>3
      <3> QED
        BY <3>1, <3>2
    <2>2. PICK s \in {SubSeq(q, 1, i), SubSeq(q, 1, k)} : got'[m] = got[m] \o s
      BY <2>1
    <2>3. s \in Seq(EngineEvent) /\ ToSet(SubSeq(q, 1, k)) \subseteq ToSet(s)
          /\ ToSet(s) \subseteq ToSet(q)
      BY <1>4, <1>5
    <2>4. got[m] \o s \in Seq(EngineEvent) /\ ToSet(got[m] \o s) = ToSet(got[m]) \union ToSet(s)
      BY <2>3, ToSetUnion
    <2> QED
      BY <2>2, <2>3, <2>4
  <1>7. got' \in [Muxers -> Seq(EngineEvent)]
    BY <1>1, <1>6
  <1>8. Delivered \subseteq Delivered' /\ ToSet(SubSeq(q, 1, k)) \subseteq Delivered'
    <2>1. ToSet(SubSeq(q, 1, k)) \subseteq EngineEvent
      BY <1>4, ToSetType
    <2> QED
      BY <2>1, <1>6, DeliveredGrows DEF Delivered
  <1>9. Safe \subseteq Safe'
    BY <1>2, <1>8 DEF Safe, files
  <1>10. NoEventLost'
    <2>1. ToSet(kiew) \union {published} \subseteq Safe' \union ToSet(kiew')
      BY <1>0, <1>1, <1>4, <1>8 DEF Safe
    <2> QED
      BY <1>9, <2>1 DEF EngineInd, EngineSafe, NoEventLost
  <1>11. ASSUME NEW s \in Seq(EngineEvent), Below(s) PROVE \A e \in ToSet(s) : e < published'
    BY <1>11, StillBelow, ToSetType DEF Below
  <1>12. \A e \in ToSet(q) : e < published'
    BY <1>0, <1>11, EngineNumbers DEF EngineInd
  <1>13. Below(kiew)'
    BY <1>1, <1>4, <1>12 DEF Below
  <1>14. \A m \in Muxers : Below(got[m])'
    BY <1>6, <1>11, <1>12 DEF Below
  <1>15. \A f \in File : Below(content[f])'
    BY <1>2, <1>11 DEF Below, files
  <1>16. EngineSafe'
    BY <1>2, <1>8, <1>10, <1>13, <1>14, <1>15 DEF EngineInd, EngineSafe, files
  <1>17. faults' \in 0 .. MaxFaults /\ faults' # 0
    BY <1>2, EngineAssumption DEF EngineInd, EngineTypeOK
  <1>18. EngineTypeOK'
    <2>1. kiew' \in Seq(EngineEvent) /\ exists' = exists /\ content' = content
      BY <1>1, <1>2, <1>4 DEF files
    <2> QED
      BY <2>1, <1>7, <1>17 DEF EngineInd, EngineTypeOK
  <1>19. EngineFlow'
    BY <1>2 DEF EngineInd, EngineFlow, files
  <1> QED
    BY <1>16, <1>17, <1>18, <1>19 DEF EngineInd

(* persistent_cache::_open(): whatever files an earlier death has left,    *)
(* the content of one of them becomes the content of the cache file.       *)
LEMMA CacheOpened ==
    ASSUME EngineInd, OpenCache
    PROVE  /\ content' \in [File -> Seq(EngineEvent)] /\ exists' \subseteq File
           /\ \A f \in File \ exists' : content'[f] = <<>>
           /\ content'["new"] = content["new"] /\ ("new" \in exists => "new" \in exists')
           /\ {content'[f] : f \in File} \subseteq {content[f] : f \in File} \union {<<>>}
           /\ \A f \in File : content[f] = <<>> \/ \E g \in File : content'[g] = content[f]
           /\ content'["old"] \in {content["old"], <<>>}
           /\ content'["cache"] \in {content["old"], content["cache"]}
           /\ "old" \notin exists => content' = content /\ "old" \notin exists'
           /\ "cache" \in exists => content'["cache"] = content["cache"]
           /\ "cache" \in exists'
  <1>1. content \in [File -> Seq(EngineEvent)] /\ <<>> \in Seq(EngineEvent) /\ exists \subseteq File
        /\ \A f \in File \ exists : content[f] = <<>>
    BY DEF EngineInd, EngineTypeOK
  <1>2. CASE Recovered = "old"
    <2>1. "cache" \notin exists /\ "old" \in exists
      BY <1>2 DEF Recovered
    <2>2. /\ exists' = (exists \ {"old"}) \union {"cache"}
          /\ content' = [content EXCEPT !["old"] = <<>>, !["cache"] = content["old"]]
      BY <1>2 DEF OpenCache
    <2>3. /\ content' \in [File -> Seq(EngineEvent)] /\ content'["old"] = <<>>
          /\ content'["cache"] = content["old"] /\ content'["new"] = content["new"]
      BY <1>1, <2>2 DEF File
    <2>4. content["cache"] = <<>>
      BY <1>1, <2>1 DEF File
    <2> QED
      BY <1>1, <2>1, <2>2, <2>3, <2>4 DEF File
  <1>3. CASE Recovered = "cache"
    <2>1. /\ exists' = (exists \ {"cache"}) \union {"cache"}
          /\ content' = [content EXCEPT !["cache"] = <<>>, !["cache"] = content["cache"]]
      BY <1>3 DEF OpenCache
    <2>2. content' = content /\ exists' = exists \union {"cache"}
      BY <1>1, <2>1 DEF File
    <2> QED
      BY <1>1, <2>2 DEF File
  <1> QED
    BY <1>2, <1>3 DEF Recovered

(* start() under _engine_m: the cached events, then the queued ones, are   *)
(* given to the muxers.                                                    *)
LEMMA StartLockedInd == ASSUME EngineInd, StartLocked PROVE EngineInd'
  <1> USE Held
  <1>1. /\ pc = "starting" /\ pc' = "running" /\ OpenCache /\ kiew' = <<>>
        /\ Send(content'["cache"] \o kiew)
        /\ UNCHANGED <<wf, subs, txn, published, forgotten, raced, runs, faults>>
    BY DEF StartLocked
  <1>2. subs = Muxers /\ wf = "write" /\ ~txn
    BY <1>1 DEF EngineInd, EngineFlow, EngineTypeOK
  <1>3. /\ content' \in [File -> Seq(EngineEvent)] /\ exists' \subseteq File
        /\ \A f \in File \ exists' : content'[f] = <<>>
        /\ content'["new"] = content["new"]
        /\ {content'[f] : f \in File} \subseteq {content[f] : f \in File} \union {<<>>}
        /\ \A f \in File : content[f] = <<>> \/ \E g \in File : content'[g] = content[f]
        /\ content'["old"] \in {content["old"], <<>>}
        /\ "old" \notin exists => content' = content /\ "old" \notin exists'
    BY <1>1, CacheOpened
  <1>4. PICK c \in Seq(EngineEvent) : c = content'["cache"]
    BY <1>3
  <1>5. PICK q \in Seq(EngineEvent) : q = c \o kiew /\ ToSet(q) = ToSet(c) \union ToSet(kiew)
    BY <1>4, ToSetUnion
  <1>6. ToSet(<<>>) = {} /\ <<>> \in Seq(EngineEvent)
    BY ToSetEmpty
  <1>7. Send(q)
    BY <1>1, <1>4, <1>5
  <1>8. /\ got' \in [Muxers -> Seq(EngineEvent)]
        /\ \A m \in Muxers : ToSet(got'[m]) = ToSet(got[m]) \union ToSet(q)
        /\ Delivered \subseteq Delivered' /\ ToSet(q) \subseteq Delivered'
    BY <1>2, <1>7, Sent DEF EngineInd
  <1>9. EngineTypeOK'
    BY <1>1, <1>3, <1>6, <1>8 DEF EngineInd, EngineTypeOK, Place
  <1>10. EngineFlow'
    BY <1>1, <1>2 DEF EngineFlow, EngineInd
  <1>11. NoEventLost'
    <2>1. ASSUME NEW e \in Safe PROVE e \in Safe'
      <3>1. CASE e \in Delivered
        BY <3>1, <1>8 DEF Safe
      <3>2. CASE \E f \in File : e \in ToSet(content[f])
        BY <3>2, <1>3, <1>6 DEF Safe
      <3> QED
        BY <3>1, <3>2 DEF Safe
    <2>2. ToSet(kiew) \subseteq Safe'
      BY <1>5, <1>8 DEF Safe
    <2> QED
      BY <1>1, <2>1, <2>2 DEF EngineInd, EngineSafe, NoEventLost
  <1>12. \A f \in File : Below(content[f])'
    BY <1>1, <1>3, <1>6 DEF Below
  <1>13. /\ Below(kiew)' /\ (\A m \in Muxers : Below(got[m])')
    BY <1>1, <1>4, <1>5, <1>6, <1>8, <1>12 DEF Below
  <1>14. ToSet(content["old"])' \subseteq Delivered' /\ ToSet(content["cache"])' \subseteq Delivered'
    BY <1>3, <1>4, <1>5, <1>6, <1>8 DEF EngineInd, EngineSafe
  <1>15. EngineSafe'
    BY <1>11, <1>12, <1>13, <1>14 DEF EngineSafe
  <1>16. ASSUME faults' = 0 PROVE Faultless'
    <2>1. Faultless /\ content' = content /\ "old" \notin exists' /\ c = content["cache"]
      BY <1>1, <1>3, <1>4, <1>16 DEF EngineInd, Faultless
    <2>2. Chain(q, raced)
      BY <1>1, <1>4, <1>5, <2>1, ChainConcat DEF Faultless, Ahead
    <2>3. ASSUME NEW m \in Muxers PROVE Chain(got'[m], raced)
      <3>1. Apart(got[m], q, raced) /\ Chain(got[m], raced)
        BY <1>1, <1>5, <2>1 DEF Faultless, Ahead, Apart
      <3> QED
        BY <3>1, <2>2, <1>2, <1>7, ChainSent DEF EngineInd
    <2>4. \A s : Chain(kiew', raced) /\ Apart(s, kiew', raced)
      BY <1>1, <1>6, ChainEmpty DEF Apart
    <2> QED
      BY <1>1, <2>1, <2>3, <2>4 DEF Faultless, Ahead
  <1> QED
    BY <1>9, <1>10, <1>15, <1>16 DEF EngineInd

(* What is queued is sent, the files stay. *)
LEMMA SendQueue ==
    ASSUME EngineInd, Send(kiew), kiew' = <<>>, wf = "write",
           pc \in {"running", "stopping"}, pc' = "stopping",
           UNCHANGED <<wf, subs, txn, files, published, forgotten, raced, runs, faults>>
    PROVE  EngineInd'
  <1> USE Held
  <1>1. subs = Muxers /\ exists' = exists /\ content' = content
    BY DEF EngineInd, EngineFlow, files
  <1>2. ToSet(<<>>) = {} /\ <<>> \in Seq(EngineEvent)
    BY ToSetEmpty
  <1>3. /\ got' \in [Muxers -> Seq(EngineEvent)]
        /\ \A m \in Muxers : ToSet(got'[m]) = ToSet(got[m]) \union ToSet(kiew)
        /\ Delivered \subseteq Delivered' /\ ToSet(kiew) \subseteq Delivered'
    BY <1>1, Sent DEF EngineInd
  <1>4. EngineTypeOK'
    BY <1>1, <1>2, <1>3 DEF EngineInd, EngineTypeOK, Place
  <1>5. EngineFlow'
    BY <1>1 DEF EngineInd, EngineFlow
  <1>6. NoEventLost'
    BY <1>1, <1>3 DEF EngineInd, EngineSafe, NoEventLost, Safe
  <1>7. /\ Below(kiew)' /\ (\A f \in File : Below(content[f])') /\ (\A m \in Muxers : Below(got[m])')
    BY <1>1, <1>2, <1>3 DEF Below
  <1>8. EngineSafe'
    BY <1>1, <1>3, <1>6, <1>7 DEF EngineInd, EngineSafe
  <1>9. ASSUME faults' = 0 PROVE Faultless'
    <2>1. Faultless
      BY <1>9 DEF EngineInd
    <2>2. ASSUME NEW m \in Muxers PROVE Chain(got'[m], raced)
      BY <1>1, <2>1, ChainSent DEF EngineInd, Faultless, Ahead
    <2>3. \A s : Chain(kiew', raced) /\ Apart(s, kiew', raced)
      BY <1>2, ChainEmpty DEF Apart
    <2> QED
      BY <1>1, <2>1, <2>2, <2>3 DEF Faultless, Ahead
  <1> QED
    BY <1>4, <1>5, <1>8, <1>9 DEF EngineInd

(* stop() with events in _kiew: they are given to the muxers. *)
LEMMA StopSendInd == ASSUME EngineInd, StopSend \/ (StopCheck /\ kiew # <<>>) PROVE EngineInd'
  <1>1. /\ pc \in {"running", "stopping"} /\ pc' = "stopping" /\ Send(kiew) /\ kiew' = <<>>
        /\ UNCHANGED <<wf, subs, txn, files, published, forgotten, raced, runs, faults>>
    BY DEF StopSend, StopCheck
  <1>2. wf = "write"
    BY <1>1 DEF EngineInd, EngineFlow
  <1> QED
    BY <1>1, <1>2, SendQueue

(* stop() with an empty _kiew: the cache file is opened and the engine     *)
(* stops.                                                                  *)
LEMMA StopCheckInd == ASSUME EngineInd, StopCheck, kiew = <<>> PROVE EngineInd'
  <1> USE Held
  <1>1. /\ pc = "stopping" /\ pc' = "stopped" /\ wf' = "cache"
        /\ UNCHANGED <<kiew, got, subs, published, forgotten, raced, runs>>
    BY DEF StopCheck
  <1>2. subs = Muxers /\ wf = "write" /\ ~txn /\ Delivered' = Delivered
        /\ ToSet(content["cache"]) \subseteq Delivered /\ ToSet(content["old"]) \subseteq Delivered
        /\ ToSet(<<>>) = {}
    BY <1>1, ToSetEmpty DEF EngineInd, EngineFlow, EngineSafe, EngineTypeOK, Delivered
  <1>3. CASE txn' = FALSE /\ faults' = faults + 1 /\ faults < MaxFaults /\ UNCHANGED files
    <2>1. faults' \in 0 .. MaxFaults /\ faults' # 0
      BY <1>3, EngineAssumption DEF EngineInd, EngineTypeOK
    <2>2. EngineTypeOK'
      BY <1>1, <1>3, <2>1 DEF EngineInd, EngineTypeOK, Place, files
    <2>3. EngineFlow'
      BY <1>1, <1>2, <1>3 DEF EngineInd, EngineFlow
    <2>4. NoEventLost'
      BY <1>1, <1>2, <1>3 DEF EngineInd, EngineSafe, NoEventLost, Safe, files
    <2>5. EngineSafe'
      BY <1>1, <1>2, <1>3, <2>4 DEF EngineInd, EngineSafe, Below, files
    <2> QED
      BY <2>1, <2>2, <2>3, <2>5 DEF EngineInd
  <1>4. CASE txn' = TRUE /\ OpenTransaction /\ faults' = faults
    <2>1. /\ content' \in [File -> Seq(EngineEvent)] /\ exists' \subseteq File
          /\ \A f \in File \ exists' : content'[f] = <<>>
          /\ content'["new"] = content["new"] /\ "new" \in exists'
          /\ {content'[f] : f \in File} \subseteq {content[f] : f \in File} \union {<<>>}
          /\ \A f \in File : content[f] = <<>> \/ \E g \in File : content'[g] = content[f]
          /\ content'["old"] \in {content["old"], <<>>}
          /\ content'["cache"] \in {content["old"], content["cache"]}
          /\ "old" \notin exists => content' = content /\ "old" \notin exists'
      <3>1. content \in [File -> Seq(EngineEvent)] /\ <<>> \in Seq(EngineEvent) /\ exists \subseteq File
            /\ \A f \in File \ exists : content[f] = <<>>
        BY DEF EngineInd, EngineTypeOK
      <3>2. CASE Recovered = "old"
        <4>1. "cache" \notin exists /\ "old" \in exists
          BY <3>2 DEF Recovered
        <4>2. /\ exists' = (exists \ {"old"}) \union {"cache", "new"}
              /\ content' = [content EXCEPT !["old"] = <<>>, !["cache"] = content["old"]]
          BY <3>2, <1>4 DEF OpenTransaction
        <4>3. /\ content' \in [File -> Seq(EngineEvent)] /\ content'["old"] = <<>>
              /\ content'["cache"] = content["old"] /\ content'["new"] = content["new"]
          BY <3>1, <4>2 DEF File
        <4>4. content["cache"] = <<>>
          BY <3>1, <4>1 DEF File
        <4> QED
          BY <3>1, <4>1, <4>2, <4>3, <4>4 DEF File
      <3>3. CASE Recovered = "cache"
        <4>1. /\ exists' = (exists \ {"cache"}) \union {"cache", "new"}
              /\ content' = [content EXCEPT !["cache"] = <<>>, !["cache"] = content["cache"]]
          BY <3>3, <1>4 DEF OpenTransaction
        <4>2. content' = content /\ exists' = exists \union {"cache", "new"}
          BY <3>1, <4>1 DEF File
        <4> QED
          BY <3>1, <4>2 DEF File
      <3> QED
        BY <3>2, <3>3 DEF Recovered
    <2>2. EngineTypeOK'
      BY <1>1, <1>4, <2>1 DEF EngineInd, EngineTypeOK, Place
    <2>3. EngineFlow'
      BY <1>1, <1>2, <1>4, <2>1 DEF EngineInd, EngineFlow
    <2>4. NoEventLost'
      <3>1. ASSUME NEW e \in Safe PROVE e \in Safe'
        <4>1. CASE e \in Delivered
          BY <4>1, <1>2 DEF Safe
        <4>2. CASE \E f \in File : e \in ToSet(content[f])
          BY <4>2, <1>2, <2>1 DEF Safe
        <4> QED
          BY <4>1, <4>2 DEF Safe
      <3> QED
        BY <1>1, <3>1 DEF EngineInd, EngineSafe, NoEventLost
    <2>5. \A f \in File : Below(content[f])'
      BY <1>1, <1>2, <2>1 DEF Below
    <2>6. EngineSafe'
      BY <1>1, <1>2, <2>1, <2>4, <2>5 DEF EngineInd, EngineSafe, Below
    <2>7. ASSUME faults' = 0 PROVE Faultless'
      <3>1. Faultless /\ content' = content /\ "old" \notin exists' /\ content["new"] = <<>>
        BY <1>1, <1>4, <2>1, <2>7 DEF EngineInd, Faultless
      <3>2. \A s : Chain(content["new"], raced) /\ Apart(s, content["new"], raced)
        BY <1>2, <3>1, ChainEmpty DEF Apart
      <3> QED
        BY <1>1, <1>2, <1>4, <3>1, <3>2 DEF Faultless, Ahead
    <2> QED
      BY <2>2, <2>3, <2>6, <2>7 DEF EngineInd
  <1>5. (txn' = TRUE /\ OpenTransaction /\ faults' = faults)
          \/ (txn' = FALSE /\ faults' = faults + 1 /\ faults < MaxFaults /\ UNCHANGED files)
    BY DEF StopCheck
  <1> QED
    BY <1>3, <1>4, <1>5

(* engine::clear, and the deletion of the instance without a transaction. *)
LEMMA ClearInd == ASSUME EngineInd, Clear \/ UnloadPlain PROVE EngineInd'
  <1> USE Held
  <1>1. /\ kiew' = <<>> /\ forgotten' = forgotten \union (ToSet(kiew) \ Safe)
        /\ UNCHANGED <<wf, subs, txn, files, got, published, raced, runs, faults>>
        /\ (pc = "discarded" /\ pc' = "cleared") \/ (pc = "cleared" /\ pc' = "down" /\ ~txn)
    BY DEF Clear, UnloadPlain, Forget
  <1>2. /\ Delivered' = Delivered /\ Safe' = Safe /\ exists' = exists /\ content' = content
        /\ ToSet(<<>>) = {} /\ <<>> \in Seq(EngineEvent)
    BY <1>1, ToSetEmpty DEF Delivered, Safe, files
  <1>3. ToSet(kiew) \subseteq EngineEvent
    BY ToSetType
  <1>4. EngineTypeOK'
    BY <1>1, <1>2, <1>3 DEF EngineInd, EngineTypeOK, Place
  <1>5. EngineFlow'
    BY <1>1, <1>2 DEF EngineInd, EngineFlow
  <1>6. NoEventLost'
    BY <1>1, <1>2 DEF EngineInd, EngineSafe, NoEventLost
  <1>7. EngineSafe'
    BY <1>1, <1>2, <1>6 DEF EngineInd, EngineSafe, Below
  <1>8. ASSUME faults' = 0 PROVE Faultless'
    <2>1. Faultless /\ txn /\ pc = "discarded" /\ pc' = "cleared"
      BY <1>1, <1>8 DEF EngineInd, Faultless
    <2>2. ToSet(kiew) \subseteq Safe
      BY <2>1 DEF Faultless, Safe
    <2> QED
      BY <1>1, <1>2, <2>1, <2>2 DEF Faultless, Ahead
  <1> QED
    BY <1>4, <1>5, <1>7, <1>8 DEF EngineInd

(* rename() of a cache file over another one. *)
LEMMA Renamed ==
    ASSUME EngineInd, NEW a \in File, NEW b \in File, a # b, Rename(a, b)
    PROVE  /\ content' \in [File -> Seq(EngineEvent)] /\ exists' = (exists \ {a}) \union {b}
           /\ content'[b] = content[a] /\ content'[a] = <<>>
           /\ \A f \in File \ {a, b} : content'[f] = content[f]
           /\ \A f \in File \ exists' : content'[f] = <<>>
  <1>1. content \in [File -> Seq(EngineEvent)] /\ <<>> \in Seq(EngineEvent)
        /\ \A f \in File \ exists : content[f] = <<>>
    BY DEF EngineInd, EngineTypeOK
  <1>2. exists' = (exists \ {a}) \union {b}
        /\ content' = [content EXCEPT ![b] = content[a], ![a] = <<>>]
    BY DEF Rename
  <1>3. content' \in [File -> Seq(EngineEvent)] /\ content'[b] = content[a] /\ content'[a] = <<>>
        /\ \A f \in File \ {a, b} : content'[f] = content[f]
    BY <1>1, <1>2
  <1> QED
    BY <1>1, <1>2, <1>3

(* commit(): the first two renames of the cache files. *)
LEMMA CommitInd == ASSUME EngineInd, CommitOld \/ CommitNew PROVE EngineInd'
  <1> USE Held
  <1>1. UNCHANGED <<wf, kiew, subs, txn, got, published, forgotten, raced, runs, faults>>
    BY DEF CommitOld, CommitNew, memory
  <1>2. Delivered' = Delivered /\ ToSet(<<>>) = {}
    BY <1>1, ToSetEmpty DEF Delivered
  <1>3. CASE CommitOld
    <2>1. /\ pc = "cleared" /\ txn /\ pc' = "renaming"
          /\ content' \in [File -> Seq(EngineEvent)]
          /\ exists' = (exists \ {"cache"}) \union {"old"}
          /\ content'["old"] = content["cache"] /\ content'["cache"] = <<>>
          /\ content'["new"] = content["new"]
          /\ \A f \in File \ exists' : content'[f] = <<>>
      BY <1>3, Renamed DEF CommitOld, File
    <2>2. ToSet(content["cache"]) \subseteq Delivered /\ ToSet(content["old"]) \subseteq Delivered
      BY <2>1 DEF EngineInd, EngineSafe
    <2>3. Safe \subseteq Safe'
      BY <1>2, <2>1, <2>2 DEF Safe, File
    <2>4. EngineTypeOK'
      BY <1>1, <2>1 DEF EngineInd, EngineTypeOK, Place, File
    <2>5. EngineFlow'
      BY <1>1, <2>1 DEF EngineInd, EngineFlow
    <2>6. EngineSafe'
      BY <1>1, <1>2, <2>1, <2>2, <2>3 DEF EngineInd, EngineSafe, NoEventLost, Below, File
    <2>7. ASSUME faults' = 0 PROVE Faultless'
      BY <1>1, <2>1, <2>7 DEF EngineInd, Faultless, Ahead
    <2> QED
      BY <2>4, <2>5, <2>6, <2>7 DEF EngineInd
  <1>4. CASE CommitNew
    <2>1. /\ pc = "renaming" /\ pc' = "removing"
          /\ content' \in [File -> Seq(EngineEvent)]
          /\ exists' = (exists \ {"new"}) \union {"cache"}
          /\ content'["cache"] = content["new"] /\ content'["new"] = <<>>
          /\ content'["old"] = content["old"]
          /\ \A f \in File \ exists' : content'[f] = <<>>
      BY <1>4, Renamed DEF CommitNew, File
    <2>2. content["cache"] = <<>>
      BY <2>1 DEF EngineInd, EngineFlow, EngineTypeOK, File
    <2>3. Safe \subseteq Safe'
      BY <1>2, <2>1, <2>2 DEF Safe, File
    <2>4. EngineTypeOK'
      BY <1>1, <2>1 DEF EngineInd, EngineTypeOK, Place, File
    <2>5. EngineFlow'
      BY <1>1, <2>1 DEF EngineInd, EngineFlow
    <2>6. EngineSafe'
      BY <1>1, <1>2, <2>1, <2>3 DEF EngineInd, EngineSafe, NoEventLost, Below, File
    <2>7. ASSUME faults' = 0 PROVE Faultless'
      BY <1>1, <2>1, <2>7 DEF EngineInd, Faultless, Ahead
    <2> QED
      BY <2>4, <2>5, <2>6, <2>7 DEF EngineInd
  <1> QED
    BY <1>3, <1>4

(* commit(): the removal of the old file ends the replacement. *)
LEMMA CommitRemoveInd == ASSUME EngineInd, CommitRemove PROVE EngineInd'
  <1> USE Held
  <1>1. /\ pc = "removing" /\ pc' = "down" /\ txn' = FALSE /\ kiew' = <<>>
        /\ forgotten' = forgotten \union (ToSet(kiew) \ Safe)
        /\ exists' = exists \ {"old"} /\ content' = [content EXCEPT !["old"] = <<>>]
        /\ UNCHANGED <<wf, subs, got, published, raced, runs, faults>>
    BY DEF CommitRemove, Forget
  <1>2. Delivered' = Delivered /\ ToSet(<<>>) = {} /\ <<>> \in Seq(EngineEvent)
    BY <1>1, ToSetEmpty DEF Delivered
  <1>3. /\ content' \in [File -> Seq(EngineEvent)] /\ content'["old"] = <<>>
        /\ content'["cache"] = content["cache"] /\ content'["new"] = content["new"]
    BY <1>1, <1>2 DEF EngineInd, EngineTypeOK, File
  <1>4. Safe \subseteq Safe'
    BY <1>2, <1>3 DEF Safe, File, EngineInd, EngineSafe
  <1>5. ToSet(kiew) \subseteq EngineEvent
    BY ToSetType
  <1>6. EngineTypeOK'
    BY <1>1, <1>2, <1>3, <1>5 DEF EngineInd, EngineTypeOK, Place, File
  <1>7. EngineFlow'
    BY <1>1 DEF EngineInd, EngineFlow
  <1>8. NoEventLost'
    BY <1>1, <1>4 DEF EngineInd, EngineSafe, NoEventLost
  <1>9. EngineSafe'
    BY <1>1, <1>2, <1>3, <1>8 DEF EngineInd, EngineSafe, Below, File
  <1>10. ASSUME faults' = 0 PROVE Faultless'
    <2>1. Faultless
      BY <1>1, <1>10 DEF EngineInd
    <2>2. ToSet(kiew) \subseteq Safe
      BY <1>1, <2>1 DEF Faultless, Safe
    <2> QED
      BY <1>1, <1>3, <2>1, <2>2 DEF Faultless, Ahead
  <1> QED
    BY <1>6, <1>7, <1>9, <1>10 DEF EngineInd

(* A crash at any point: what only memory and the uncommitted file hold    *)
(* is dropped, the next run starts from the files.                         *)
LEMMA EngineCrashInd == ASSUME EngineInd, EngineCrash PROVE EngineInd'
  <1> USE Held
  <1>1. /\ pc' = "down" /\ faults' = faults + 1 /\ faults < MaxFaults
        /\ wf' = "nop" /\ kiew' = <<>> /\ subs' = {} /\ txn' = FALSE
        /\ UNCHANGED <<exists, got, published, raced, runs>>
        /\ forgotten' = forgotten \union ((ToSet(kiew) \union ToSet(content["new"])) \ Safe')
        /\ \/ content' = content
           \/ content["new"] # <<>> /\ content' = [content EXCEPT !["new"] = Front(@)]
    BY DEF EngineCrash
  <1>2. /\ Delivered' = Delivered /\ ToSet(<<>>) = {} /\ <<>> \in Seq(EngineEvent)
        /\ faults' \in 0 .. MaxFaults /\ faults' # 0
    BY <1>1, ToSetEmpty, EngineAssumption DEF Delivered, EngineInd, EngineTypeOK
  <1>3. /\ content' \in [File -> Seq(EngineEvent)]
        /\ content'["cache"] = content["cache"] /\ content'["old"] = content["old"]
        /\ ToSet(content'["new"]) \subseteq ToSet(content["new"])
        /\ content["new"] = <<>> => content'["new"] = <<>>
    <2>1. CASE content' = content
      BY <2>1 DEF EngineInd, EngineTypeOK
    <2>2. CASE content["new"] # <<>> /\ content' = [content EXCEPT !["new"] = Front(@)]
      <3>1. PICK k \in 0 .. Len(content["new"]) : k = Len(content["new"]) - 1
        <4>1. content["new"] \in Seq(EngineEvent) /\ content["new"] # <<>>
          BY <2>2
        <4>2. Len(content["new"]) - 1 \in 0 .. Len(content["new"])
          BY <4>1
        <4> QED
          BY <4>2
      <3>2. Front(content["new"]) = SubSeq(content["new"], 1, k)
        BY <3>1 DEF Front
      <3>3. /\ Front(content["new"]) \in Seq(EngineEvent)
            /\ ToSet(Front(content["new"])) \subseteq ToSet(content["new"])
        <4>1. content["new"] \in Seq(EngineEvent) /\ k \in Nat /\ k <= Len(content["new"])
          BY <3>1
        <4>2. /\ SubSeq(content["new"], 1, k) \in Seq(EngineEvent)
              /\ ToSet(SubSeq(content["new"], 1, k)) \subseteq ToSet(content["new"])
          BY ONLY <4>1, ToSetCut
        <4> QED
          BY ONLY <3>2, <4>2
      <3> QED
        BY <2>2, <3>3 DEF EngineInd, EngineTypeOK, File
    <2> QED
      BY <1>1, <2>1, <2>2
  <1>4. ToSet(kiew) \subseteq EngineEvent /\ ToSet(content["new"]) \subseteq EngineEvent
    BY ToSetType
  <1>5. EngineTypeOK'
    <2>1. forgotten' \subseteq EngineEvent
      BY <1>1, <1>4 DEF EngineInd, EngineTypeOK
    <2>2. \A f \in File \ exists' : content'[f] = <<>>
      BY <1>1, <1>3 DEF EngineInd, EngineTypeOK, File
    <2> QED
      BY <1>1, <1>2, <1>3, <2>1, <2>2 DEF EngineInd, EngineTypeOK, Place
  <1>6. EngineFlow'
    BY <1>1 DEF EngineInd, EngineFlow
  <1>7. NoEventLost'
    <2>1. Safe \subseteq Safe' \union ToSet(content["new"])
      BY <1>2, <1>3 DEF Safe, File
    <2>2. Safe \union ToSet(kiew) \union forgotten \subseteq Safe' \union forgotten'
      BY <1>1, <2>1
    <2> QED
      BY <1>1, <2>2 DEF EngineInd, EngineSafe, NoEventLost
  <1>8. EngineSafe'
    BY <1>1, <1>2, <1>3, <1>7 DEF EngineInd, EngineSafe, Below, File
  <1> QED
    BY <1>2, <1>5, <1>6, <1>8 DEF EngineInd

(* The inductive invariant holds in every reachable state of the engine,   *)
(* for any number of events, runs, faults and muxers.                      *)
THEOREM EngineInductive == EngineSpec => []EngineInd
  <1>1. EngineInd /\ [EngineNext]_engineVars => EngineInd'
    <2> SUFFICES ASSUME EngineInd, [EngineNext]_engineVars PROVE EngineInd'
      OBVIOUS
    <2>1. CASE UNCHANGED engineVars
      <3>1. /\ UNCHANGED <<pc, wf, kiew, subs, txn, exists, content, got, published, forgotten,
                           raced, runs, faults>>
        BY <2>1 DEF engineVars, memory, files
      <3>2. EngineTypeOK' /\ EngineFlow'
        BY <3>1 DEF EngineInd, EngineTypeOK, EngineFlow
      <3>3. EngineSafe'
        BY <3>1 DEF EngineInd, EngineSafe, NoEventLost, Below, Safe, Delivered
      <3>4. (faults = 0 => Faultless)'
        BY <3>1 DEF EngineInd, Faultless, Ahead
      <3> QED
        BY <3>2, <3>3, <3>4 DEF EngineInd
    <2>2. CASE EnginePublish
      <3>1. wf \in {"nop", "write", "cache"}
        BY DEF EngineInd, EngineTypeOK
      <3> QED
        BY <2>2, <3>1, PublishNop, PublishWrite, PublishCache
    <2>3. CASE PublishFails
      BY <2>3, PublishFailsInd
    <2>4. CASE Load \/ Apply \/ StartFlag \/ Abort \/ Discard
      BY <2>4, QuietStep
    <2>5. CASE StartLocked
      BY <2>5, StartLockedInd
    <2>6. CASE StopSend \/ StopCheck
      <3>1. CASE StopCheck /\ kiew = <<>>
        BY <3>1, StopCheckInd
      <3>2. CASE StopSend \/ (StopCheck /\ kiew # <<>>)
        BY <3>2, StopSendInd
      <3> QED
        BY <2>6, <3>1, <3>2
    <2>7. CASE Clear \/ UnloadPlain
      BY <2>7, ClearInd
    <2>8. CASE CommitOld \/ CommitNew
      BY <2>8, CommitInd
    <2>9. CASE CommitRemove
      BY <2>9, CommitRemoveInd
    <2>10. CASE EngineCrash
      BY <2>10, EngineCrashInd
    <2> QED
      BY <2>1, <2>2, <2>3, <2>4, <2>5, <2>6, <2>7, <2>8, <2>9, <2>10 DEF EngineNext
  <1> QED
    BY <1>1, EngineInitInd, PTL DEF EngineSpec

(* multiplexing::engine loses no event between its runs: each one that     *)
(* was published was given to all muxers, waits in _kiew or a cache file,  *)
(* or was dropped by a fault; without faults none is dropped and muxers    *)
(* are given each event once, in order unless a publish() races with       *)
(* start().                                                                *)
THEOREM EngineRetains == EngineSpec => []EngineInv
  <1>1. EngineInd => EngineKeeps /\ EngineOrder
    <2> SUFFICES ASSUME EngineInd PROVE EngineKeeps /\ EngineOrder
      OBVIOUS
    <2>1. EngineKeeps
      BY DEF EngineInd, EngineSafe, Faultless, EngineKeeps, CleanRunLosesNothing
    <2>2. \A m \in Muxers : got[m] \in Seq(EngineEvent)
      BY Held
    <2>3. NoDuplicates
      BY <2>2, ChainInjective DEF EngineInd, Faultless, NoDuplicates
    <2>4. InOrder
      <3> SUFFICES ASSUME faults = 0, ~raced, NEW m \in Muxers,
                          NEW i \in 1 .. Len(got[m]), NEW j \in 1 .. Len(got[m]), i < j
                   PROVE  got[m][i] <= got[m][j]
        BY DEF InOrder
      <3>1. got[m][i] < got[m][j]
        BY DEF EngineInd, Faultless, Chain, Good
      <3>2. got[m][i] \in Nat /\ got[m][j] \in Nat
        <4>1. got[m][i] \in EngineEvent /\ got[m][j] \in EngineEvent
          BY <2>2
        <4> QED
          BY <4>1 DEF EngineEvent
      <3> QED
        BY <3>1, <3>2
    <2> QED
      BY <2>1, <2>3, <2>4 DEF EngineOrder
  <1> QED
    BY <1>1, EngineInductive, PTL DEF EngineInv

-----------------------------------------------------------------------------
(* persistent_file: the queue and memory files.                            *)

(* Cells, and the parts of the file. *)
Cells == Nat \X (1 .. ChunkLen)
FileParts == [cells : Seq(Cells), dirty : Nat, gone : BOOLEAN]

(* What the reader has not got from the first part yet, and all it has got *)
(* and will get of it.                                                     *)
Rest == IF parts = <<>> THEN <<>>
        ELSE SubSeq(parts[1].cells, roffset + 1, Len(parts[1].cells))
Stream == rbuffer \o Rest

(* The end of a record is behind the whole of it. *)
Complete(s) ==
    \A j \in 1 .. Len(s) : s[j][2] = ChunkLen =>
        /\ ChunkLen <= j
        /\ \A i \in 1 .. ChunkLen : s[j - ChunkLen + i] = <<s[j][1], i>>

(* Every cell is in a whole record. *)
Whole(s) ==
    \A j \in 1 .. Len(s) :
        /\ s[j][2] <= j /\ j - s[j][2] + ChunkLen <= Len(s)
        /\ \A i \in 1 .. ChunkLen : s[j - s[j][2] + i] = <<s[j][1], i>>

(* The cell d may follow c. *)
Ordered(c, d) == c[1] <= d[1] /\ (c[2] = ChunkLen => c[1] < d[1])
Sorted(s) == \A i, j \in 1 .. Len(s) : i < j => Ordered(s[i], s[j])
Before(s, t) == \A i \in 1 .. Len(s), j \in 1 .. Len(t) : Ordered(s[i], t[j])
Behind(s, n) == \A i \in 1 .. Len(s) :
    s[i][1] <= n /\ (s[i][2] = ChunkLen => s[i][1] < n)
(* The events given are below those of s. *)
Beneath(g, s) == \A i \in 1 .. Len(g), j \in 1 .. Len(s) :
    s[j][2] = ChunkLen => g[i] < s[j][1]

FileTypes ==
    /\ fphase \in {"closed", "idle", "read", "write"}
    /\ rfile \in {"null", "shared", "own"}
    /\ parts \in Seq(FileParts) /\ roffset \in Nat /\ rbuffer \in Seq(Cells)
    /\ ended \in BOOLEAN /\ left \in 0 .. ChunkLen /\ full \in BOOLEAN
    /\ garbage \in GarbageSizes /\ wnext \in 1 .. FileEvents + 1
    /\ given \in Seq(Nat) /\ damaged \in BOOLEAN

(* How the reader, the writer and the parts stand. *)
FileShape ==
    /\ left > 0 <=> fphase = "write"
    /\ fphase = "write" => wnext <= FileEvents
    /\ fphase = "closed" => rfile = "null" /\ rbuffer = <<>> /\ ~ended
    /\ fphase # "closed" => parts # <<>> /\ roffset <= Len(parts[1].cells)
    /\ rfile = "null" => roffset = 0
    /\ rfile = "shared" => Len(parts) = 1
    /\ rfile # "null" => ~parts[1].gone
    /\ parts # <<>> => ~parts[Len(parts)].gone
    /\ ended => /\ Len(parts) = 1 /\ parts[1].cells = <<>> /\ rfile # "null"
                /\ fphase \in {"idle", "read"}

FileDirty ==
    \A p \in 1 .. Len(parts) :
        /\ parts[p].dirty <= Len(parts[p].cells) /\ parts[p].dirty <= ChunkLen
        /\ parts[p].gone => parts[p].cells = <<>>
        /\ p # 1 /\ p # Len(parts) => parts[p].dirty = 0
        /\ p = Len(parts) => parts[p].dirty + left <= ChunkLen

(* The records of the parts, and of what the reader still gets before the  *)
(* next parts, come in the order they were written, the last one is n.     *)
PartsOrder(ps, n) ==
    \A p \in 1 .. Len(ps) :
       /\ Sorted(ps[p].cells) /\ Behind(ps[p].cells, n) /\ Complete(ps[p].cells)
       /\ \A q \in 1 .. Len(ps) : p < q => Before(ps[p].cells, ps[q].cells)
StreamOrder(ps, st, n) ==
    /\ Sorted(st) /\ Behind(st, n) /\ Complete(st)
    /\ \A p \in 2 .. Len(ps) : Before(st, ps[p].cells)

FileOrdered == PartsOrder(parts, wnext) /\ StreamOrder(parts, Stream, wnext)

(* The events given out come before all that are still in the file.        *)
AllBelow(g, ps, st) ==
    Beneath(g, st) /\ \A p \in 2 .. Len(ps) : Beneath(g, ps[p].cells)

GivenOrdered ==
    /\ \A i, j \in 1 .. Len(given) : i < j => given[i] < given[j]
    /\ \A i \in 1 .. Len(given) : given[i] < wnext
    /\ fphase # "closed" => AllBelow(given, parts, Stream)

WholeParts(ps) == \A p \in 1 .. Len(ps) : Whole(ps[p].cells)

(* In a sound file all records are whole, what is in the buffer is in the  *)
(* first part as well, and the end is met when all was given out.          *)
FileSound ==
    ~damaged =>
        /\ WholeParts(parts) /\ Whole(Stream)
        /\ ended => rbuffer = <<>> /\ fphase = "read"
        /\ fphase = "write" => left = ChunkLen
        /\ \A j \in 1 .. Len(rbuffer) :
              \E i \in 1 .. Len(parts[1].cells) : parts[1].cells[i] = rbuffer[j]
        /\ refused = {}

(* What was taken from the first part was given out or is in the buffer.   *)
FileKept ==
    /\ UnlinkedWasRead
    /\ fphase # "closed" => \A i \in 1 .. roffset :
          parts[1].cells[i][2] = ChunkLen =>
              parts[1].cells[i][1] \in read \union Buffered

FileInd ==
    /\ FileTypes /\ FileShape /\ FileDirty /\ FileOrdered /\ GivenOrdered
    /\ FileSound /\ FileKept
-----------------------------------------------------------------------------
(* Sequences of cells. *)

(* The positions of a concatenation. *)
LEMMA CellsConcat ==
    ASSUME NEW s \in Seq(Cells), NEW t \in Seq(Cells)
    PROVE  /\ s \o t \in Seq(Cells) /\ Len(s \o t) = Len(s) + Len(t)
           /\ Len(s) \in Nat /\ Len(t) \in Nat
           /\ \A i \in 1 .. Len(s) : (s \o t)[i] = s[i]
           /\ \A i \in 1 .. Len(t) : (s \o t)[Len(s) + i] = t[i]
           /\ \A i \in 1 .. Len(s) + Len(t) :
                 i > Len(s) => i - Len(s) \in 1 .. Len(t) /\ (s \o t)[i] = t[i - Len(s)]
<1>1. /\ s \o t \in Seq(Cells) /\ Len(s \o t) = Len(s) + Len(t)
      /\ Len(s) \in Nat /\ Len(t) \in Nat
  OBVIOUS
<1>2. \A i \in 1 .. Len(s) : i \in 1 .. Len(s) + Len(t) /\ (s \o t)[i] = s[i]
  BY <1>1
<1>3. ASSUME NEW i \in 1 .. Len(s) + Len(t), i > Len(s)
      PROVE  i - Len(s) \in 1 .. Len(t) /\ (s \o t)[i] = t[i - Len(s)]
  BY <1>1, <1>3
<1>4. ASSUME NEW i \in 1 .. Len(t) PROVE (s \o t)[Len(s) + i] = t[i]
  <2>1. Len(s) + i \in 1 .. Len(s) + Len(t) /\ Len(s) + i > Len(s) BY <1>1
  <2>2. (Len(s) + i) - Len(s) = i BY <1>1
  <2> QED BY <2>1, <2>2, <1>3
<1> QED BY <1>1, <1>2, <1>3, <1>4

(* Two sequences of which the second may follow the first.                 *)
LEMMA SortedConcat ==
    ASSUME NEW s \in Seq(Cells), NEW t \in Seq(Cells),
           Sorted(s), Sorted(t), Before(s, t)
    PROVE  Sorted(s \o t)
<1> DEFINE u == s \o t
<1>1. /\ u \in Seq(Cells) /\ Len(u) = Len(s) + Len(t)
      /\ Len(s) \in Nat /\ Len(t) \in Nat
      /\ \A i \in 1 .. Len(s) : u[i] = s[i]
      /\ \A i \in 1 .. Len(s) + Len(t) :
            i > Len(s) => i - Len(s) \in 1 .. Len(t) /\ u[i] = t[i - Len(s)]
  BY CellsConcat
<1> HIDE DEF u
<1>2. ASSUME NEW i \in 1 .. Len(u), NEW j \in 1 .. Len(u), i < j
      PROVE  Ordered(u[i], u[j])
  <2>1. CASE j <= Len(s)
    <3>1. i \in 1 .. Len(s) /\ j \in 1 .. Len(s) BY <1>1, <1>2, <2>1
    <3> QED BY <3>1, <1>1, <1>2 DEF Sorted
  <2>2. CASE j > Len(s) /\ i <= Len(s)
    <3>1. i \in 1 .. Len(s) BY <1>1, <2>2
    <3> QED BY <3>1, <1>1, <2>2 DEF Before
  <2>3. CASE i > Len(s)
    <3>1. j > Len(s) /\ i - Len(s) < j - Len(s) BY <1>1, <1>2, <2>3
    <3>2. /\ i - Len(s) \in 1 .. Len(t) /\ u[i] = t[i - Len(s)]
          /\ j - Len(s) \in 1 .. Len(t) /\ u[j] = t[j - Len(s)]
      BY <1>1, <2>3, <3>1
    <3> QED BY <3>1, <3>2 DEF Sorted
  <2> QED BY <1>1, <2>1, <2>2, <2>3
<1> QED BY <1>2 DEF Sorted, u

(* Both behind n, before v, or after g. *)
LEMMA BoundsConcat ==
    ASSUME NEW s \in Seq(Cells), NEW t \in Seq(Cells)
    PROVE  /\ \A n : Behind(s, n) /\ Behind(t, n) => Behind(s \o t, n)
           /\ \A v \in Seq(Cells) : Before(s, v) /\ Before(t, v) => Before(s \o t, v)
           /\ \A v \in Seq(Cells) : Before(v, s) /\ Before(v, t) => Before(v, s \o t)
           /\ \A g \in Seq(Nat) : Beneath(g, s) /\ Beneath(g, t) => Beneath(g, s \o t)
<1> DEFINE u == s \o t
<1>1. /\ u \in Seq(Cells) /\ Len(u) = Len(s) + Len(t)
      /\ Len(s) \in Nat /\ Len(t) \in Nat
      /\ \A i \in 1 .. Len(s) : u[i] = s[i]
      /\ \A i \in 1 .. Len(s) + Len(t) :
            i > Len(s) => i - Len(s) \in 1 .. Len(t) /\ u[i] = t[i - Len(s)]
  BY CellsConcat
<1> HIDE DEF u
<1>2. \A i \in 1 .. Len(u) :
          \/ i \in 1 .. Len(s) /\ u[i] = s[i]
          \/ i - Len(s) \in 1 .. Len(t) /\ u[i] = t[i - Len(s)]
  BY <1>1
<1>3. ASSUME NEW n, Behind(s, n), Behind(t, n) PROVE Behind(u, n)
  BY <1>2, <1>3 DEF Behind
<1>4. ASSUME NEW v \in Seq(Cells), Before(s, v), Before(t, v) PROVE Before(u, v)
  BY <1>2, <1>4 DEF Before
<1>5. ASSUME NEW v \in Seq(Cells), Before(v, s), Before(v, t) PROVE Before(v, u)
  BY <1>2, <1>5 DEF Before
<1>6. ASSUME NEW g \in Seq(Nat), Beneath(g, s), Beneath(g, t) PROVE Beneath(g, u)
  BY <1>2, <1>6 DEF Beneath
<1> QED BY <1>3, <1>4, <1>5, <1>6 DEF u

(* Complete and whole records stay so. *)
LEMMA CompleteConcat ==
    ASSUME NEW s \in Seq(Cells), NEW t \in Seq(Cells)
    PROVE  /\ Complete(s) /\ Complete(t) => Complete(s \o t)
           /\ Whole(s) /\ Whole(t) => Whole(s \o t)
<1> DEFINE u == s \o t
<1>1. /\ u \in Seq(Cells) /\ Len(u) = Len(s) + Len(t)
      /\ Len(s) \in Nat /\ Len(t) \in Nat
      /\ \A i \in 1 .. Len(s) : u[i] = s[i]
      /\ \A i \in 1 .. Len(t) : u[Len(s) + i] = t[i]
      /\ \A i \in 1 .. Len(s) + Len(t) :
            i > Len(s) => i - Len(s) \in 1 .. Len(t) /\ u[i] = t[i - Len(s)]
  BY CellsConcat
<1>c. ChunkLen \in Nat \ {0} BY FileAssumption
<1> HIDE DEF u
<1>2. ASSUME Complete(s), Complete(t), NEW j \in 1 .. Len(u), u[j][2] = ChunkLen
      PROVE  /\ ChunkLen <= j
             /\ \A i \in 1 .. ChunkLen : u[j - ChunkLen + i] = <<u[j][1], i>>
  <2>1. CASE j <= Len(s)
    <3>1. j \in 1 .. Len(s) /\ u[j] = s[j] BY <1>1, <2>1
    <3>2. ChunkLen <= j /\ \A i \in 1 .. ChunkLen : s[j - ChunkLen + i] = <<s[j][1], i>>
      BY <3>1, <1>2 DEF Complete
    <3>3. \A i \in 1 .. ChunkLen : j - ChunkLen + i \in 1 .. Len(s)
      BY <3>1, <3>2, <1>1, <1>c
    <3> QED BY <3>1, <3>2, <3>3, <1>1
  <2>2. CASE j > Len(s)
    <3> DEFINE k == j - Len(s)
    <3>1. k \in 1 .. Len(t) /\ u[j] = t[k] BY <1>1, <2>2
    <3>2. ChunkLen <= k /\ \A i \in 1 .. ChunkLen : t[k - ChunkLen + i] = <<t[k][1], i>>
      BY <3>1, <1>2 DEF Complete
    <3>3. \A i \in 1 .. ChunkLen : /\ k - ChunkLen + i \in 1 .. Len(t)
                                   /\ Len(s) + (k - ChunkLen + i) = j - ChunkLen + i
      BY <3>1, <3>2, <1>1, <1>c
    <3>4. ChunkLen <= j BY <3>2, <1>1, <1>c
    <3>5. \A i \in 1 .. ChunkLen : u[j - ChunkLen + i] = t[k - ChunkLen + i]
      BY <3>3, <1>1
    <3> HIDE DEF k
    <3> QED BY <3>1, <3>2, <3>4, <3>5
  <2> QED BY <1>1, <2>1, <2>2
<1>3. ASSUME Whole(s), Whole(t), NEW j \in 1 .. Len(u)
      PROVE  /\ u[j][2] <= j /\ j - u[j][2] + ChunkLen <= Len(u)
             /\ \A i \in 1 .. ChunkLen : u[j - u[j][2] + i] = <<u[j][1], i>>
  <2>1. CASE j <= Len(s)
    <3>1. j \in 1 .. Len(s) /\ u[j] = s[j] BY <1>1, <2>1
    <3>2. /\ s[j][2] <= j /\ j - s[j][2] + ChunkLen <= Len(s)
          /\ \A i \in 1 .. ChunkLen : s[j - s[j][2] + i] = <<s[j][1], i>>
      BY <3>1, <1>3 DEF Whole
    <3>0. s[j][2] \in Nat BY <3>1 DEF Cells
    <3>3. \A i \in 1 .. ChunkLen : j - s[j][2] + i \in 1 .. Len(s)
      <4>1. PICK a \in Nat : a = s[j][2] BY <3>0
      <4>2. a <= j /\ j - a + ChunkLen <= Len(s) /\ j \in Nat BY <4>1, <3>1, <3>2
      <4>4. Len(s) \in Nat /\ ChunkLen \in Nat BY <1>1, <1>c
      <4>3. \A i \in 1 .. ChunkLen : j - a + i \in 1 .. Len(s)
        <5>1. PICK jj \in Nat : jj = j BY <4>2
        <5>2. PICK n \in Nat : n = Len(s) BY <4>4
        <5>3. ChunkLen \in Nat /\ a <= jj /\ jj - a + ChunkLen <= n
          BY ONLY <4>2, <4>4, <5>1, <5>2
        <5>4. \A i \in 1 .. ChunkLen : jj - a + i \in 1 .. n
          BY ONLY <5>3, RecordPositions
        <5> QED BY ONLY <5>1, <5>2, <5>4
      <4> QED BY ONLY <4>1, <4>3
    <3>4. j - s[j][2] + ChunkLen <= Len(u) BY <3>0, <3>2, <1>1, <1>c
    <3> QED BY <3>1, <3>2, <3>3, <3>4, <1>1
  <2>2. CASE j > Len(s)
    <3>1. PICK k \in 1 .. Len(t) : k = j - Len(s) /\ u[j] = t[k] BY <1>1, <2>2
    <3>0. PICK a \in Nat : a = t[k][2] BY <3>1 DEF Cells
    <3>2. /\ a <= k /\ k - a + ChunkLen <= Len(t)
          /\ \A i \in 1 .. ChunkLen : t[k - a + i] = <<t[k][1], i>>
      BY <3>0, <3>1, <1>3 DEF Whole
    <3>6. /\ Len(s) \in Nat /\ Len(t) \in Nat /\ Len(u) = Len(s) + Len(t)
          /\ k \in Nat /\ k <= Len(t) /\ j = k + Len(s) /\ ChunkLen \in Nat
      BY <1>1, <1>c, <3>1
    <3>7. a \in Nat /\ a <= k /\ k - a + ChunkLen <= Len(t) BY <3>0, <3>2
    <3>3. \A i \in 1 .. ChunkLen : /\ k - a + i \in 1 .. Len(t)
                                   /\ Len(s) + (k - a + i) = j - a + i
      BY ONLY <3>6, <3>7
    <3>4. a <= j /\ j - a + ChunkLen <= Len(u)
      BY ONLY <3>6, <3>7
    <3>5. \A i \in 1 .. ChunkLen : u[j - a + i] = t[k - a + i]
      BY <3>3, <1>1
    <3>8. u[j][2] = a /\ u[j][1] = t[k][1] BY <3>0, <3>1
    <3>9. \A i \in 1 .. ChunkLen : u[j - a + i] = <<u[j][1], i>>
      BY ONLY <3>2, <3>5, <3>8
    <3> QED BY ONLY <3>4, <3>8, <3>9
  <2>3. j <= Len(s) \/ j > Len(s) BY <1>1
  <2> QED BY ONLY <2>1, <2>2, <2>3
<1>4. Complete(s) /\ Complete(t) => Complete(u) BY <1>2 DEF Complete
<1>5. Whole(s) /\ Whole(t) => Whole(u) BY <1>3 DEF Whole
<1> QED BY <1>4, <1>5 DEF u

(* The cells of a slice of s that starts behind position m. *)
Slice(t, s, m) ==
    /\ t \in Seq(Cells) /\ m \in Nat
    /\ \A i \in 1 .. Len(t) : m + i \in 1 .. Len(s) /\ t[i] = s[m + i]

(* What holds for a sequence of cells holds for its slices. *)
LEMMA SliceFacts ==
    ASSUME NEW s \in Seq(Cells), NEW t, NEW m, Slice(t, s, m)
    PROVE  /\ Sorted(s) => Sorted(t)
           /\ \A n : Behind(s, n) => Behind(t, n)
           /\ \A v : Before(s, v) => Before(t, v)
           /\ \A v : Before(v, s) => Before(v, t)
           /\ \A g : Beneath(g, s) => Beneath(g, t)
<1>1. m \in Nat /\ \A i \in 1 .. Len(t) : m + i \in 1 .. Len(s) /\ t[i] = s[m + i]
  BY DEF Slice
<1>0. t \in Seq(Cells) /\ Len(t) \in Nat BY DEF Slice
<1>2. ASSUME Sorted(s), NEW i \in 1 .. Len(t), NEW j \in 1 .. Len(t), i < j
      PROVE  Ordered(t[i], t[j])
  <2>1. m + i < m + j BY <1>0, <1>1, <1>2
  <2> QED BY <2>1, <1>1, <1>2 DEF Sorted
<1>3. Sorted(s) => Sorted(t) BY <1>2 DEF Sorted
<1>4. \A n : Behind(s, n) => Behind(t, n) BY <1>1 DEF Behind
<1>5. \A v : Before(s, v) => Before(t, v) BY <1>1 DEF Before
<1>6. \A v : Before(v, s) => Before(v, t) BY <1>1 DEF Before
<1>7. \A g : Beneath(g, s) => Beneath(g, t) BY <1>1 DEF Beneath
<1> QED BY <1>3, <1>4, <1>5, <1>6, <1>7

(* Prefixes and suffixes are slices. *)
LEMMA CutSlices ==
    ASSUME NEW s \in Seq(Cells), NEW m \in 0 .. Len(s)
    PROVE  /\ Slice(SubSeq(s, 1, m), s, 0) /\ Len(SubSeq(s, 1, m)) = m
           /\ Slice(SubSeq(s, m + 1, Len(s)), s, m)
           /\ Len(SubSeq(s, m + 1, Len(s))) = Len(s) - m
<1>1. /\ SubSeq(s, 1, m) \in Seq(Cells)
      /\ SubSeq(s, m + 1, Len(s)) \in Seq(Cells)
      /\ Len(SubSeq(s, 1, m)) = m
      /\ Len(SubSeq(s, m + 1, Len(s))) = Len(s) - m
      /\ \A i \in 1 .. m : SubSeq(s, 1, m)[i] = s[i]
      /\ \A i \in 1 .. Len(s) - m : SubSeq(s, m + 1, Len(s))[i] = s[m + i]
  BY ToSetCut
<1>2. m \in Nat /\ Len(s) \in Nat /\ m <= Len(s) OBVIOUS
<1>3. \A i \in 1 .. m : 0 + i = i /\ i \in 1 .. Len(s) BY <1>2
<1>4. \A i \in 1 .. Len(s) - m : m + i \in 1 .. Len(s) BY <1>2
<1> QED BY <1>1, <1>2, <1>3, <1>4 DEF Slice

(* A prefix keeps the records that are complete in it, and whole ones when *)
(* it ends with a whole one.                                               *)
LEMMA PrefixRecords ==
    ASSUME NEW s \in Seq(Cells), NEW t, Slice(t, s, 0)
    PROVE  /\ Complete(s) => Complete(t)
           /\ Whole(s) /\ (t # <<>> => t[Len(t)][2] = ChunkLen) => Whole(t)
<1>0. ChunkLen \in Nat \ {0} BY FileAssumption
<1>1. /\ t \in Seq(Cells) /\ Len(t) \in Nat /\ Len(s) \in Nat
      /\ \A i \in 1 .. Len(t) : i \in 1 .. Len(s) /\ t[i] = s[i]
  BY DEF Slice
<1>2. ASSUME Complete(s), NEW j \in 1 .. Len(t), t[j][2] = ChunkLen
      PROVE  /\ ChunkLen <= j
             /\ \A i \in 1 .. ChunkLen : t[j - ChunkLen + i] = <<t[j][1], i>>
  <2>1. j \in 1 .. Len(s) /\ t[j] = s[j] BY <1>1
  <2>2. ChunkLen <= j /\ \A i \in 1 .. ChunkLen : s[j - ChunkLen + i] = <<s[j][1], i>>
    BY <2>1, <1>2 DEF Complete
  <2>3. \A i \in 1 .. ChunkLen : j - ChunkLen + i \in 1 .. Len(t)
    BY <2>1, <2>2, <1>0, <1>1
  <2> QED BY <2>1, <2>2, <2>3, <1>1
<1>3. ASSUME Whole(s), t # <<>> => t[Len(t)][2] = ChunkLen, NEW j \in 1 .. Len(t)
      PROVE  /\ t[j][2] <= j /\ j - t[j][2] + ChunkLen <= Len(t)
             /\ \A i \in 1 .. ChunkLen : t[j - t[j][2] + i] = <<t[j][1], i>>
  <2>1. j \in 1 .. Len(s) /\ t[j] = s[j] BY <1>1
  <2>2. PICK a \in Nat : a = s[j][2] /\ a >= 1 BY <2>1 DEF Cells
  <2>3. /\ a <= j /\ j - a + ChunkLen <= Len(s)
        /\ \A i \in 1 .. ChunkLen : s[j - a + i] = <<s[j][1], i>>
    BY <2>1, <2>2, <1>3 DEF Whole
  <2>4. PICK n \in Nat : n = Len(t) /\ n >= 1 BY <1>1
  <2>5. t[n][2] = ChunkLen /\ t[n] = s[n]
    <3>1. t # <<>> BY <2>4
    <3> QED BY <3>1, <2>4, <1>1, <1>3
  <2>10. /\ j \in Nat /\ a \in Nat /\ n \in Nat /\ ChunkLen \in Nat
         /\ 1 <= a /\ a <= j /\ j <= n /\ 1 <= ChunkLen /\ Len(t) = n
    BY <1>0, <2>2, <2>3, <2>4
  <2>6. j - a + ChunkLen <= n
    <3>1. SUFFICES ASSUME j - a + ChunkLen > n PROVE FALSE
      BY <2>10
    <3>2. n - (j - a) \in 1 .. ChunkLen /\ j - a + (n - (j - a)) = n
      BY ONLY <3>1, <2>10
    <3>3. s[n] = <<s[j][1], n - (j - a)>> BY <3>2, <2>3
    <3>4. n - (j - a) = ChunkLen BY <3>3, <2>5
    <3> QED BY ONLY <3>1, <3>4, <2>10
  <2>7. \A i \in 1 .. ChunkLen : j - a + i \in 1 .. Len(t)
    BY ONLY <2>10, <2>6
  <2>8. \A i \in 1 .. ChunkLen : t[j - a + i] = <<t[j][1], i>>
    BY <2>7, <2>3, <2>1, <1>1
  <2>9. t[j][2] = a BY <2>1, <2>2
  <2> QED BY ONLY <2>9, <2>8, <2>6, <2>3, <2>4
<1>4. Complete(s) => Complete(t) BY <1>2 DEF Complete
<1>5. Whole(s) /\ (t # <<>> => t[Len(t)][2] = ChunkLen) => Whole(t) BY <1>3 DEF Whole
<1> QED BY <1>4, <1>5

(* A record starts the sequence. *)
Starts(s) == ChunkLen <= Len(s) /\ \A i \in 1 .. ChunkLen : s[i] = <<s[1][1], i>>

(* What is behind a record has complete and whole records as before. *)
LEMMA BehindRecord ==
    ASSUME NEW s \in Seq(Cells), NEW t, Slice(t, s, ChunkLen),
           Len(t) = Len(s) - ChunkLen, Starts(s)
    PROVE  /\ Complete(s) => Complete(t)
           /\ Whole(s) => Whole(t)
<1>0. ChunkLen \in Nat \ {0} BY FileAssumption
<1>1. /\ t \in Seq(Cells) /\ Len(t) \in Nat /\ Len(s) \in Nat
      /\ Len(s) = Len(t) + ChunkLen
      /\ \A i \in 1 .. Len(t) : ChunkLen + i \in 1 .. Len(s) /\ t[i] = s[ChunkLen + i]
  BY <1>0 DEF Slice
<1>2. ASSUME Complete(s), NEW j \in 1 .. Len(t), t[j][2] = ChunkLen
      PROVE  /\ ChunkLen <= j
             /\ \A i \in 1 .. ChunkLen : t[j - ChunkLen + i] = <<t[j][1], i>>
  <2>1. ChunkLen + j \in 1 .. Len(s) /\ t[j] = s[ChunkLen + j] BY <1>1
  <2>2. \A i \in 1 .. ChunkLen :
            s[(ChunkLen + j) - ChunkLen + i] = <<s[ChunkLen + j][1], i>>
    BY <2>1, <1>2 DEF Complete
  <2>3. \A i \in 1 .. ChunkLen :
            (ChunkLen + j) - ChunkLen + i = j + i /\ s[j + i] = <<t[j][1], i>>
    <3>1. \A i \in 1 .. ChunkLen : (ChunkLen + j) - ChunkLen + i = j + i BY <1>0
    <3> QED BY <3>1, <2>1, <2>2
  <2>4. ChunkLen <= j
    <3>1. SUFFICES ASSUME j < ChunkLen PROVE FALSE BY <1>0
    <3>2. j + 1 \in 1 .. ChunkLen /\ 1 \in 1 .. ChunkLen BY <3>1, <1>0
    <3>3. s[j + 1] = <<s[1][1], j + 1>> BY <3>2 DEF Starts
    <3>4. s[j + 1] = <<t[j][1], 1>> BY <3>2, <2>3
    <3>5. j + 1 = 1 BY <3>3, <3>4
    <3> QED BY <3>5
  <2>5. \A i \in 1 .. ChunkLen : /\ j - ChunkLen + i \in 1 .. Len(t)
                                 /\ ChunkLen + (j - ChunkLen + i) = j + i
    BY <2>4, <1>0, <1>1
  <2> QED BY <2>3, <2>4, <2>5, <1>1
<1>3. ASSUME Whole(s), NEW j \in 1 .. Len(t)
      PROVE  /\ t[j][2] <= j /\ j - t[j][2] + ChunkLen <= Len(t)
             /\ \A i \in 1 .. ChunkLen : t[j - t[j][2] + i] = <<t[j][1], i>>
  <2>1. PICK k \in Nat : /\ k = ChunkLen + j /\ k \in 1 .. Len(s) /\ t[j] = s[k]
                         /\ k - ChunkLen = j
    BY <1>0, <1>1
  <2>9. s[k] \in Nat \X (1 .. ChunkLen) BY <2>1 DEF Cells
  <2>2. PICK a \in Nat : a = s[k][2] /\ a >= 1 /\ a <= ChunkLen
    BY <2>9, <1>0
  <2>3. /\ a <= k /\ k - a + ChunkLen <= Len(s)
        /\ \A i \in 1 .. ChunkLen : s[k - a + i] = <<s[k][1], i>>
    BY <2>1, <2>2, <1>3 DEF Whole
  <2>10. /\ j \in Nat /\ k \in Nat /\ a \in Nat /\ ChunkLen \in Nat
         /\ 1 <= j /\ k = ChunkLen + j /\ 1 <= a /\ a <= ChunkLen
         /\ Len(t) \in Nat /\ Len(s) = Len(t) + ChunkLen
         /\ k - a + ChunkLen <= Len(s)
    BY <1>0, <1>1, <2>1, <2>2, <2>3
  <2>4. a <= j
    <3>1. SUFFICES ASSUME j < a PROVE FALSE BY <2>2
    <3>2. k - a + 1 \in 1 .. ChunkLen /\ k - a + 1 > 1 /\ 1 \in 1 .. ChunkLen
      BY ONLY <3>1, <2>10
    <3>3. s[k - a + 1] = <<s[1][1], k - a + 1>> BY <3>2 DEF Starts
    <3>4. s[k - a + 1] = <<s[k][1], 1>> BY <3>2, <2>3
    <3>5. k - a + 1 = 1 BY <3>3, <3>4
    <3> QED BY <3>5, <3>2
  <2>5. \A i \in 1 .. ChunkLen : /\ j - a + i \in 1 .. Len(t)
                                 /\ ChunkLen + (j - a + i) = k - a + i
    BY ONLY <2>4, <2>10
  <2>6. \A i \in 1 .. ChunkLen : t[j - a + i] = <<t[j][1], i>>
    BY <2>5, <2>3, <2>1, <1>1
  <2>7. j - a + ChunkLen <= Len(t) BY ONLY <2>10
  <2>8. t[j][2] = a BY <2>1, <2>2
  <2> QED BY ONLY <2>4, <2>6, <2>7, <2>8
<1>4. Complete(s) => Complete(t) BY <1>2 DEF Complete
<1>5. Whole(s) => Whole(t) BY <1>3 DEF Whole
<1> QED BY <1>4, <1>5

(* A byte that starts no record may be skipped. *)
LEMMA BehindByte ==
    ASSUME NEW s \in Seq(Cells), NEW t, Slice(t, s, 1),
           Len(t) = Len(s) - 1, ~Starts(s), Complete(s), Len(s) > 0
    PROVE  Complete(t) /\ s[1][2] # ChunkLen
<1>0. ChunkLen \in Nat \ {0} BY FileAssumption
<1>1. /\ t \in Seq(Cells) /\ Len(t) \in Nat /\ Len(s) \in Nat
      /\ Len(s) = Len(t) + 1
      /\ \A i \in 1 .. Len(t) : 1 + i \in 1 .. Len(s) /\ t[i] = s[1 + i]
  BY DEF Slice
<1>2. ASSUME NEW k \in 1 .. Len(s), s[k][2] = ChunkLen
      PROVE  /\ ChunkLen < k
             /\ \A i \in 1 .. ChunkLen : s[k - ChunkLen + i] = <<s[k][1], i>>
  <2>1. ChunkLen <= k /\ \A i \in 1 .. ChunkLen : s[k - ChunkLen + i] = <<s[k][1], i>>
    BY <1>2 DEF Complete
  <2>2. ASSUME k = ChunkLen PROVE FALSE
    <3>1. \A i \in 1 .. ChunkLen : k - ChunkLen + i = i BY <1>0, <2>2
    <3>2. \A i \in 1 .. ChunkLen : s[i] = <<s[k][1], i>> BY <3>1, <2>1
    <3>3. 1 \in 1 .. ChunkLen BY <1>0
    <3>4. s[1][1] = s[k][1] BY <3>2, <3>3
    <3>5. ChunkLen <= Len(s) BY <2>2
    <3> QED BY <3>2, <3>4, <3>5 DEF Starts
  <2> QED BY <2>1, <2>2, <1>0
<1>3. ASSUME NEW j \in 1 .. Len(t), t[j][2] = ChunkLen
      PROVE  /\ ChunkLen <= j
             /\ \A i \in 1 .. ChunkLen : t[j - ChunkLen + i] = <<t[j][1], i>>
  <2>1. 1 + j \in 1 .. Len(s) /\ t[j] = s[1 + j] BY <1>1
  <2>2. /\ ChunkLen < 1 + j
        /\ \A i \in 1 .. ChunkLen : s[(1 + j) - ChunkLen + i] = <<s[1 + j][1], i>>
    BY <2>1, <1>2, <1>3
  <2>3. \A i \in 1 .. ChunkLen : /\ j - ChunkLen + i \in 1 .. Len(t)
                                 /\ 1 + (j - ChunkLen + i) = (1 + j) - ChunkLen + i
    BY <2>2, <1>0, <1>1
  <2>4. ChunkLen <= j BY <2>2, <1>0
  <2> QED BY <2>1, <2>2, <2>3, <2>4, <1>1
<1>4. 1 \in 1 .. Len(s) /\ ~(ChunkLen < 1) BY <1>0, <1>1
<1> QED BY <1>2, <1>3, <1>4 DEF Complete

(* What a write adds. *)
LEMMA ChunkCells ==
    ASSUME NEW n \in Nat, NEW k \in 0 .. ChunkLen
    PROVE  LET x == SubSeq(Chunk(n), 1, k) IN
           /\ x \in Seq(Cells) /\ Len(x) = k
           /\ \A i \in 1 .. k : x[i] = <<n, i>>
           /\ Sorted(x) /\ Complete(x)
           /\ Behind(x, n + 1) /\ (k < ChunkLen => Behind(x, n))
           /\ k \in {0, ChunkLen} => Whole(x)
<1>0. ChunkLen \in Nat \ {0} BY FileAssumption
<1> DEFINE x == SubSeq(Chunk(n), 1, k)
<1>1. Chunk(n) \in Seq(Cells) /\ Len(Chunk(n)) = ChunkLen
  <2>1. \A i \in 1 .. ChunkLen : <<n, i>> \in Cells BY DEF Cells
  <2> QED BY <2>1, <1>0 DEF Chunk
<1>2. x \in Seq(Cells) /\ Len(x) = k /\ \A i \in 1 .. k : x[i] = Chunk(n)[i]
  BY <1>1, ToSetCut
<1>3. \A i \in 1 .. k : x[i] = <<n, i>>
  <2>1. \A i \in 1 .. k : i \in 1 .. ChunkLen BY <1>0
  <2> QED BY <2>1, <1>2 DEF Chunk
<1> HIDE DEF x
<1>4. Sorted(x)
  BY <1>0, <1>2, <1>3 DEF Sorted, Ordered
<1>5. Complete(x)
  <2>1. ASSUME NEW j \in 1 .. Len(x), x[j][2] = ChunkLen
        PROVE  /\ ChunkLen <= j
               /\ \A i \in 1 .. ChunkLen : x[j - ChunkLen + i] = <<x[j][1], i>>
    <3>1. j = ChunkLen /\ j = k BY <1>0, <1>2, <1>3, <2>1
    <3>2. \A i \in 1 .. ChunkLen : j - ChunkLen + i = i BY <3>1, <1>0
    <3>3. x[j][1] = n BY <1>2, <1>3
    <3> QED BY <3>1, <3>2, <3>3, <1>3, <1>0
  <2> QED BY <2>1 DEF Complete
<1>6. Behind(x, n + 1) /\ (k < ChunkLen => Behind(x, n))
  BY <1>0, <1>2, <1>3 DEF Behind
<1>7. ASSUME k \in {0, ChunkLen} PROVE Whole(x)
  <2>1. ASSUME NEW j \in 1 .. Len(x)
        PROVE  /\ x[j][2] <= j /\ j - x[j][2] + ChunkLen <= Len(x)
               /\ \A i \in 1 .. ChunkLen : x[j - x[j][2] + i] = <<x[j][1], i>>
    <3>1. k = ChunkLen /\ j \in 1 .. k /\ x[j][2] = j /\ x[j][1] = n
      BY <1>0, <1>2, <1>3, <1>7
    <3>2. \A i \in 1 .. ChunkLen : j - j + i = i BY <3>1
    <3>3. j <= j /\ j - j + ChunkLen <= Len(x) BY <3>1, <1>0, <1>2
    <3> QED BY <3>1, <3>2, <3>3, <1>3
  <2> QED BY <2>1 DEF Whole
<1> QED BY <1>2, <1>3, <1>4, <1>5, <1>6, <1>7 DEF x

(* The events of a sequence of cells. *)
LEMMA EventSetMember ==
    ASSUME NEW s \in Seq(Cells)
    PROVE  \A e : e \in EventSet(s) <=>
               \E i \in 1 .. Len(s) : s[i][2] = ChunkLen /\ e = s[i][1]
<1>1. DOMAIN s = 1 .. Len(s) OBVIOUS
<1> QED BY <1>1 DEF EventSet

(* The events of a concatenation. *)
LEMMA EventSetConcat ==
    ASSUME NEW s \in Seq(Cells), NEW t \in Seq(Cells)
    PROVE  EventSet(s \o t) = EventSet(s) \union EventSet(t)
<1> DEFINE u == s \o t
<1>1. /\ u \in Seq(Cells) /\ Len(u) = Len(s) + Len(t)
      /\ Len(s) \in Nat /\ Len(t) \in Nat
      /\ \A i \in 1 .. Len(s) : u[i] = s[i]
      /\ \A i \in 1 .. Len(t) : u[Len(s) + i] = t[i]
      /\ \A i \in 1 .. Len(s) + Len(t) :
            i > Len(s) => i - Len(s) \in 1 .. Len(t) /\ u[i] = t[i - Len(s)]
  BY CellsConcat
<1> HIDE DEF u
<1>2. \A i \in 1 .. Len(u) :
          \/ i \in 1 .. Len(s) /\ u[i] = s[i]
          \/ i - Len(s) \in 1 .. Len(t) /\ u[i] = t[i - Len(s)]
  BY <1>1
<1>3. /\ \A i \in 1 .. Len(s) : i \in 1 .. Len(u)
      /\ \A i \in 1 .. Len(t) : Len(s) + i \in 1 .. Len(u)
  BY <1>1
<1>4. ASSUME NEW e \in EventSet(u) PROVE e \in EventSet(s) \union EventSet(t)
  <2>1. PICK i \in 1 .. Len(u) : u[i][2] = ChunkLen /\ e = u[i][1]
    BY <1>1, EventSetMember
  <2>2. CASE i \in 1 .. Len(s) /\ u[i] = s[i] BY <2>1, <2>2, EventSetMember
  <2>3. CASE i - Len(s) \in 1 .. Len(t) /\ u[i] = t[i - Len(s)]
    BY <2>1, <2>3, EventSetMember
  <2> QED BY <1>2, <2>2, <2>3
<1>5. \A e : e \in EventSet(s) => e \in EventSet(u)
  BY <1>1, <1>3, EventSetMember
<1>6. \A e : e \in EventSet(t) => e \in EventSet(u)
  BY <1>1, <1>3, EventSetMember
<1> QED BY <1>4, <1>5, <1>6 DEF u

-----------------------------------------------------------------------------
(* Parts. *)

(* The fields of a part. *)
LEMMA PartFields ==
    ASSUME NEW ps \in Seq(FileParts), NEW p \in 1 .. Len(ps)
    PROVE  /\ ps[p].cells \in Seq(Cells) /\ ps[p].dirty \in Nat /\ ps[p].gone \in BOOLEAN
           /\ Len(ps[p].cells) \in Nat
<1>1. ps[p] \in FileParts OBVIOUS
<1> QED BY <1>1 DEF FileParts

(* qs are the parts of ps behind the first m, perhaps cut at their ends. *)
Shrunk(qs, ps, m) ==
    /\ qs \in Seq(FileParts) /\ ps \in Seq(FileParts) /\ m \in Nat
    /\ \A p \in 1 .. Len(qs) : /\ m + p \in 1 .. Len(ps)
                               /\ Slice(qs[p].cells, ps[m + p].cells, 0)

(* A sequence is a slice of itself. *)
LEMMA SliceSelf ==
    ASSUME NEW s \in Seq(Cells) PROVE Slice(s, s, 0)
BY DEF Slice

(* A slice before or behind a slice. *)
LEMMA SlicesOrdered ==
    ASSUME NEW s \in Seq(Cells), NEW u \in Seq(Cells), NEW a, NEW b,
           Slice(a, s, 0), Slice(b, u, 0), Before(s, u)
    PROVE  Before(a, b)
<1>1. Before(a, u) BY SliceFacts
<1> QED BY <1>1, SliceFacts

(* Parts that are removed or cut leave the others in order. *)
LEMMA ShrunkParts ==
    ASSUME NEW qs, NEW ps, NEW m, Shrunk(qs, ps, m), NEW n, PartsOrder(ps, n)
    PROVE  /\ PartsOrder(qs, n)
           /\ qs # <<>> => StreamOrder(qs, qs[1].cells, n)
<1>1. /\ qs \in Seq(FileParts) /\ ps \in Seq(FileParts) /\ m \in Nat
      /\ \A p \in 1 .. Len(qs) : /\ m + p \in 1 .. Len(ps)
                                 /\ Slice(qs[p].cells, ps[m + p].cells, 0)
  BY DEF Shrunk
<1>2. \A p \in 1 .. Len(qs) : ps[m + p].cells \in Seq(Cells)
  BY <1>1, PartFields
<1>3. ASSUME NEW p \in 1 .. Len(qs)
      PROVE  Sorted(qs[p].cells) /\ Behind(qs[p].cells, n) /\ Complete(qs[p].cells)
  <2>1. Sorted(ps[m + p].cells) /\ Behind(ps[m + p].cells, n) /\ Complete(ps[m + p].cells)
    BY <1>1 DEF PartsOrder
  <2> QED BY <2>1, <1>1, <1>2, SliceFacts, PrefixRecords
<1>4. ASSUME NEW p \in 1 .. Len(qs), NEW q \in 1 .. Len(qs), p < q
      PROVE  Before(qs[p].cells, qs[q].cells)
  <2>1. m + p < m + q /\ m + p \in 1 .. Len(ps) /\ m + q \in 1 .. Len(ps) BY <1>1, <1>4
  <2>2. Before(ps[m + p].cells, ps[m + q].cells) BY <2>1 DEF PartsOrder
  <2> QED BY <2>2, <1>1, <1>2, SlicesOrdered
<1>5. PartsOrder(qs, n) BY <1>3, <1>4 DEF PartsOrder
<1>6. ASSUME qs # <<>> PROVE StreamOrder(qs, qs[1].cells, n)
  <2>1. Len(qs) \in Nat /\ Len(qs) > 0 BY <1>1, <1>6
  <2>2. 1 \in 1 .. Len(qs) /\ \A p \in 2 .. Len(qs) : p \in 1 .. Len(qs) /\ 1 < p
    BY <2>1
  <2> QED BY <2>2, <1>3, <1>4 DEF StreamOrder
<1> QED BY <1>5, <1>6

(* The events of parts that are all there. *)
LEMMA RecordedMember ==
    ASSUME NEW ps \in Seq(FileParts)
    PROVE  \A e : e \in Recorded(ps) <=> \E p \in 1 .. Len(ps) : e \in EventSet(ps[p].cells)
<1>1. DOMAIN ps = 1 .. Len(ps) OBVIOUS
<1> QED BY <1>1 DEF Recorded

(* The same cells in all parts. *)
SameCells(qs, ps) ==
    /\ qs \in Seq(FileParts) /\ ps \in Seq(FileParts) /\ Len(qs) = Len(ps)
    /\ \A p \in 1 .. Len(ps) : qs[p].cells = ps[p].cells /\ qs[p].gone = ps[p].gone

(* Nothing of the above depends on what stdio has written. *)
LEMMA SameCellsKeep ==
    ASSUME NEW qs, NEW ps, SameCells(qs, ps)
    PROVE  /\ \A n : PartsOrder(ps, n) => PartsOrder(qs, n)
           /\ \A st, n : StreamOrder(ps, st, n) => StreamOrder(qs, st, n)
           /\ \A g, st : AllBelow(g, ps, st) => AllBelow(g, qs, st)
           /\ WholeParts(ps) => WholeParts(qs)
           /\ Recorded(qs) = Recorded(ps)
<1>1. /\ qs \in Seq(FileParts) /\ ps \in Seq(FileParts) /\ Len(qs) = Len(ps)
      /\ Len(ps) \in Nat
      /\ \A p \in 1 .. Len(ps) : qs[p].cells = ps[p].cells
  BY DEF SameCells
<1>2. \A p \in 2 .. Len(ps) : p \in 1 .. Len(ps) BY <1>1
<1>3. ASSUME NEW n, PartsOrder(ps, n) PROVE PartsOrder(qs, n)
  BY <1>1, <1>3 DEF PartsOrder
<1>4. ASSUME NEW st, NEW n, StreamOrder(ps, st, n) PROVE StreamOrder(qs, st, n)
  BY <1>1, <1>2, <1>4 DEF StreamOrder
<1>5. ASSUME NEW g, NEW st, AllBelow(g, ps, st) PROVE AllBelow(g, qs, st)
  BY <1>1, <1>2, <1>5 DEF AllBelow
<1>6. WholeParts(ps) => WholeParts(qs) BY <1>1 DEF WholeParts
<1>7. \A e : e \in Recorded(qs) <=> e \in Recorded(ps) BY <1>1, RecordedMember
<1> QED BY <1>3, <1>4, <1>5, <1>6, <1>7

(* An empty part is added at the end, behind the parts os. *)
LEMMA PartAdded ==
    ASSUME NEW ps \in Seq(FileParts), NEW e \in FileParts, e.cells = <<>>
    PROVE  LET qs == Append(ps, e) IN
           /\ qs \in Seq(FileParts) /\ Len(qs) = Len(ps) + 1
           /\ qs[Len(ps) + 1] = e /\ \A p \in 1 .. Len(ps) : qs[p] = ps[p]
           /\ \A n : PartsOrder(ps, n) => PartsOrder(qs, n)
           /\ \A st, n : StreamOrder(ps, st, n) => StreamOrder(qs, st, n)
           /\ \A g, st : AllBelow(g, ps, st) => AllBelow(g, qs, st)
           /\ WholeParts(ps) => WholeParts(qs)
           /\ Recorded(qs) = Recorded(ps)
<1> DEFINE qs == Append(ps, e)
<1>1. /\ qs \in Seq(FileParts) /\ Len(qs) = Len(ps) + 1 /\ Len(ps) \in Nat
      /\ qs[Len(ps) + 1] = e /\ \A p \in 1 .. Len(ps) : qs[p] = ps[p]
  OBVIOUS
<1> HIDE DEF qs
<1>0. \A p \in 1 .. Len(qs) : p \in 1 .. Len(ps) \/ p = Len(ps) + 1
  BY <1>1
<1>2. \A p \in 1 .. Len(qs) : p \in 1 .. Len(ps) \/ qs[p].cells = <<>>
  BY <1>0, <1>1
<1>3. /\ \A n : Sorted(<<>>) /\ Behind(<<>>, n) /\ Complete(<<>>) /\ Whole(<<>>)
      /\ \A s : Before(s, <<>>) /\ Before(<<>>, s) /\ Beneath(s, <<>>)
  BY DEF Sorted, Behind, Complete, Whole, Before, Beneath
<1>4. ASSUME NEW n, PartsOrder(ps, n) PROVE PartsOrder(qs, n)
  <2>1. ASSUME NEW p \in 1 .. Len(qs)
        PROVE  /\ Sorted(qs[p].cells) /\ Behind(qs[p].cells, n) /\ Complete(qs[p].cells)
    <3>1. CASE p \in 1 .. Len(ps) BY <3>1, <1>1, <1>4 DEF PartsOrder
    <3>2. CASE qs[p].cells = <<>> BY <3>2, <1>3
    <3> QED BY <1>2, <3>1, <3>2
  <2>2. ASSUME NEW p \in 1 .. Len(qs), NEW q \in 1 .. Len(qs), p < q
        PROVE  Before(qs[p].cells, qs[q].cells)
    <3>1. CASE q \in 1 .. Len(ps)
      <4>1. p \in 1 .. Len(ps) BY <3>1, <2>2, <1>1
      <4> QED BY <4>1, <3>1, <2>2, <1>1, <1>4 DEF PartsOrder
    <3>2. CASE qs[q].cells = <<>> BY <3>2, <1>3
    <3> QED BY <1>2, <3>1, <3>2
  <2> QED BY <2>1, <2>2 DEF PartsOrder
<1>5. \A p \in 2 .. Len(qs) : (p \in 2 .. Len(ps) /\ p \in 1 .. Len(ps)) \/ qs[p].cells = <<>>
  BY <1>1
<1>6. ASSUME NEW st, NEW n, StreamOrder(ps, st, n) PROVE StreamOrder(qs, st, n)
  <2>1. ASSUME NEW p \in 2 .. Len(qs) PROVE Before(st, qs[p].cells)
    BY <1>1, <1>3, <1>5, <1>6 DEF StreamOrder
  <2> QED BY <2>1, <1>6 DEF StreamOrder
<1>7. ASSUME NEW g, NEW st, AllBelow(g, ps, st) PROVE AllBelow(g, qs, st)
  <2>1. ASSUME NEW p \in 2 .. Len(qs) PROVE Beneath(g, qs[p].cells)
    BY <1>1, <1>3, <1>5, <1>7 DEF AllBelow
  <2> QED BY <2>1, <1>7 DEF AllBelow
<1>8. WholeParts(ps) => WholeParts(qs) BY <1>1, <1>2, <1>3 DEF WholeParts
<1>9. EventSet(<<>>) = {} BY DEF EventSet
<1>10. \A f : f \in Recorded(qs) => f \in Recorded(ps)
  BY <1>1, <1>2, <1>9, RecordedMember
<1>11. \A f : f \in Recorded(ps) => f \in Recorded(qs)
  <2>1. \A p \in 1 .. Len(ps) : p \in 1 .. Len(qs) BY <1>1
  <2> QED BY <1>1, <2>1, RecordedMember
<1> QED BY <1>1, <1>4, <1>6, <1>7, <1>8, <1>10, <1>11 DEF qs

(* The stream is what is in the buffer and the unread end of a part.       *)
LEMMA StreamTypes ==
    ASSUME FileTypes, FileShape
    PROVE  /\ Rest \in Seq(Cells) /\ Stream \in Seq(Cells)
           /\ Stream = rbuffer \o Rest
           /\ parts = <<>> => Rest = <<>>
           /\ parts # <<>> => /\ 1 \in 1 .. Len(parts) /\ parts[1].cells \in Seq(Cells)
                              /\ Rest = SubSeq(parts[1].cells, roffset + 1, Len(parts[1].cells))
                              /\ roffset \in 0 .. Len(parts[1].cells)
                              /\ Slice(Rest, parts[1].cells, roffset)
                              /\ Len(Rest) = Len(parts[1].cells) - roffset
<1>1. parts \in Seq(FileParts) /\ rbuffer \in Seq(Cells) /\ roffset \in Nat BY DEF FileTypes
<1>2. CASE parts = <<>>
  <2>1. Rest = <<>> BY <1>2 DEF Rest
  <2>2. Rest \in Seq(Cells) BY <2>1
  <2> QED BY <1>1, <1>2, <2>1, <2>2, CellsConcat DEF Stream
<1>3. CASE parts # <<>>
  <2>1. 1 \in 1 .. Len(parts) BY <1>1, <1>3
  <2>2. parts[1].cells \in Seq(Cells) /\ Len(parts[1].cells) \in Nat BY <2>1, <1>1, PartFields
  <2>3. roffset <= Len(parts[1].cells) BY <1>1, <2>2 DEF FileShape, FileTypes
  <2>4. Rest = SubSeq(parts[1].cells, roffset + 1, Len(parts[1].cells)) BY <1>3 DEF Rest
  <2>5. roffset \in 0 .. Len(parts[1].cells) BY <2>2, <2>3, <1>1
  <2>6. /\ Slice(Rest, parts[1].cells, roffset)
        /\ Len(Rest) = Len(parts[1].cells) - roffset
    BY <2>2, <2>4, <2>5, CutSlices
  <2>7. Rest \in Seq(Cells) BY <2>6 DEF Slice
  <2> QED BY <1>1, <1>3, <2>1, <2>2, <2>4, <2>5, <2>6, <2>7, CellsConcat DEF Stream
<1> QED BY <1>2, <1>3

(* The cells of a record are added to the last part, m is the next record. *)
CellsAdded(qs, ps, n, k, m) ==
    /\ ps \in Seq(FileParts) /\ qs \in Seq(FileParts) /\ ps # <<>> /\ Len(qs) = Len(ps)
    /\ n \in Nat /\ k \in 0 .. ChunkLen /\ m \in {n, n + 1} /\ (k = ChunkLen => m = n + 1)
    /\ qs[Len(ps)].cells = ps[Len(ps)].cells \o SubSeq(Chunk(n), 1, k)
    /\ \A p \in 1 .. Len(ps) : p # Len(ps) => qs[p].cells = ps[p].cells

(* What is behind n may be followed by the cells of n. *)
LEMMA ChunkBehind ==
    ASSUME NEW n \in Nat, NEW k \in 0 .. ChunkLen, NEW s \in Seq(Cells), Behind(s, n),
           NEW m \in {n, n + 1}, k = ChunkLen => m = n + 1
    PROVE  LET x == SubSeq(Chunk(n), 1, k) IN
           /\ Before(s, x) /\ Behind(s, m) /\ Behind(x, m)
           /\ Behind(s \o x, m)
           /\ Sorted(s) => Sorted(s \o x)
           /\ Complete(s) => Complete(s \o x)
           /\ Whole(s) /\ k \in {0, ChunkLen} => Whole(s \o x)
<1> DEFINE x == SubSeq(Chunk(n), 1, k)
<1>0. ChunkLen \in Nat \ {0} BY FileAssumption
<1>1. /\ x \in Seq(Cells) /\ Len(x) = k
      /\ \A i \in 1 .. k : x[i] = <<n, i>>
      /\ Sorted(x) /\ Complete(x)
      /\ Behind(x, n + 1) /\ (k < ChunkLen => Behind(x, n))
      /\ k \in {0, ChunkLen} => Whole(x)
  BY ChunkCells
<1> HIDE DEF x
<1>2. \A i \in 1 .. Len(s) : s[i] \in Nat \X (1 .. ChunkLen) BY DEF Cells
<1>3. Before(s, x)
  <2>1. ASSUME NEW i \in 1 .. Len(s), NEW j \in 1 .. Len(x) PROVE Ordered(s[i], x[j])
    <3>1. x[j][1] = n BY <1>1
    <3>2. s[i][1] <= n /\ (s[i][2] = ChunkLen => s[i][1] < n) BY DEF Behind
    <3> QED BY <3>1, <3>2 DEF Ordered
  <2> QED BY <2>1 DEF Before
<1>4. Behind(s, m)
  <2>1. ASSUME NEW i \in 1 .. Len(s)
        PROVE  s[i][1] <= m /\ (s[i][2] = ChunkLen => s[i][1] < m)
    <3>1. s[i][1] <= n /\ (s[i][2] = ChunkLen => s[i][1] < n) BY DEF Behind
    <3>2. s[i][1] \in Nat BY <1>2
    <3> QED BY <3>1, <3>2
  <2> QED BY <2>1 DEF Behind
<1>5. Behind(x, m)
  <2>1. CASE m = n + 1 BY <2>1, <1>1
  <2>2. CASE m = n /\ k < ChunkLen BY <2>2, <1>1
  <2>3. m = n + 1 \/ (m = n /\ k < ChunkLen) BY <1>0
  <2> QED BY <2>1, <2>2, <2>3
<1>6. Behind(s \o x, m) BY <1>1, <1>4, <1>5, BoundsConcat
<1>7. Sorted(s) => Sorted(s \o x) BY <1>1, <1>3, SortedConcat
<1>8. /\ Complete(s) => Complete(s \o x)
      /\ Whole(s) /\ k \in {0, ChunkLen} => Whole(s \o x)
  BY <1>1, CompleteConcat
<1> QED BY <1>3, <1>4, <1>5, <1>6, <1>7, <1>8 DEF x

(* The parts after a write. *)
LEMMA CellsAddedParts ==
    ASSUME NEW qs, NEW ps, NEW n, NEW k, NEW m, CellsAdded(qs, ps, n, k, m),
           PartsOrder(ps, n)
    PROVE  /\ PartsOrder(qs, m)
           /\ k \in {0, ChunkLen} /\ WholeParts(ps) => WholeParts(qs)
           /\ Recorded(ps) \subseteq Recorded(qs)
           /\ k = ChunkLen => n \in Recorded(qs)
<1> DEFINE x == SubSeq(Chunk(n), 1, k)
<1>0. ChunkLen \in Nat \ {0} BY FileAssumption
<1>1. /\ ps \in Seq(FileParts) /\ qs \in Seq(FileParts) /\ Len(qs) = Len(ps)
      /\ n \in Nat /\ k \in 0 .. ChunkLen /\ m \in {n, n + 1} /\ (k = ChunkLen => m = n + 1)
      /\ qs[Len(ps)].cells = ps[Len(ps)].cells \o x
      /\ \A p \in 1 .. Len(ps) : p # Len(ps) => qs[p].cells = ps[p].cells
  BY DEF CellsAdded
<1>2. Len(ps) \in Nat /\ Len(ps) \in 1 .. Len(ps) BY DEF CellsAdded
<1>x. /\ x \in Seq(Cells) /\ Len(x) = k /\ \A i \in 1 .. k : x[i] = <<n, i>>
  BY <1>1, ChunkCells
<1> HIDE DEF x
<1>3. \A p \in 1 .. Len(ps) : ps[p].cells \in Seq(Cells) BY <1>1, PartFields
<1>4. \A p \in 1 .. Len(ps) :
          /\ Sorted(ps[p].cells) /\ Behind(ps[p].cells, n) /\ Complete(ps[p].cells)
          /\ \A q \in 1 .. Len(ps) : p < q => Before(ps[p].cells, ps[q].cells)
  BY DEF PartsOrder
<1>5. ASSUME NEW p \in 1 .. Len(ps)
      PROVE  /\ Before(ps[p].cells, x) /\ Behind(ps[p].cells, m)
             /\ Sorted(ps[p].cells \o x) /\ Behind(ps[p].cells \o x, m)
             /\ Complete(ps[p].cells \o x)
             /\ Whole(ps[p].cells) /\ k \in {0, ChunkLen} => Whole(ps[p].cells \o x)
  BY <1>1, <1>3, <1>4, ChunkBehind DEF x
<1>6. ASSUME NEW p \in 1 .. Len(qs)
      PROVE  Sorted(qs[p].cells) /\ Behind(qs[p].cells, m) /\ Complete(qs[p].cells)
  <2>1. CASE p = Len(ps) BY <2>1, <1>1, <1>2, <1>5
  <2>2. CASE p # Len(ps) BY <2>2, <1>1, <1>4, <1>5
  <2> QED BY <2>1, <2>2
<1>7. ASSUME NEW p \in 1 .. Len(qs), NEW q \in 1 .. Len(qs), p < q
      PROVE  Before(qs[p].cells, qs[q].cells)
  <2>1. p # Len(ps) /\ p \in 1 .. Len(ps) /\ q \in 1 .. Len(ps) BY <1>1, <1>2, <1>7
  <2>2. qs[p].cells = ps[p].cells /\ Before(ps[p].cells, ps[q].cells)
    BY <2>1, <1>1, <1>4, <1>7
  <2>3. CASE q = Len(ps)
    <3>1. Before(ps[p].cells, ps[q].cells \o x)
      BY <2>1, <2>2, <1>3, <1>5, <1>x, BoundsConcat
    <3> QED BY <3>1, <2>2, <2>3, <1>1
  <2>4. CASE q # Len(ps) BY <2>1, <2>2, <2>4, <1>1
  <2> QED BY <2>3, <2>4
<1>8. PartsOrder(qs, m) BY <1>6, <1>7 DEF PartsOrder
<1>9. ASSUME k \in {0, ChunkLen}, WholeParts(ps) PROVE WholeParts(qs)
  <2>1. ASSUME NEW p \in 1 .. Len(qs) PROVE Whole(qs[p].cells)
    <3>1. Whole(ps[p].cells) BY <1>1, <1>9 DEF WholeParts
    <3>2. CASE p = Len(ps) BY <3>1, <3>2, <1>1, <1>2, <1>5, <1>9
    <3>3. CASE p # Len(ps) BY <3>1, <3>3, <1>1
    <3> QED BY <3>2, <3>3
  <2> QED BY <2>1 DEF WholeParts
<1>10. \A p \in 1 .. Len(ps) : EventSet(ps[p].cells) \subseteq EventSet(qs[p].cells)
  <2>1. EventSet(ps[Len(ps)].cells \o x) = EventSet(ps[Len(ps)].cells) \union EventSet(x)
    BY <1>2, <1>3, <1>x, EventSetConcat
  <2> QED BY <2>1, <1>1
<1>11. Recorded(ps) \subseteq Recorded(qs)
  <2>1. ASSUME NEW e \in Recorded(ps) PROVE e \in Recorded(qs)
    <3>1. PICK p \in 1 .. Len(ps) : e \in EventSet(ps[p].cells) BY <1>1, RecordedMember
    <3> QED BY <3>1, <1>1, <1>10, RecordedMember
  <2> QED BY <2>1
<1>12. ASSUME k = ChunkLen PROVE n \in Recorded(qs)
  <2>1. k \in 1 .. Len(x) /\ x[k][2] = ChunkLen /\ x[k][1] = n BY <1>0, <1>x, <1>12
  <2>2. n \in EventSet(x) BY <2>1, <1>x, EventSetMember
  <2>3. EventSet(ps[Len(ps)].cells \o x) = EventSet(ps[Len(ps)].cells) \union EventSet(x)
    BY <1>2, <1>3, <1>x, EventSetConcat
  <2>4. n \in EventSet(qs[Len(ps)].cells) BY <2>2, <2>3, <1>1
  <2> QED BY <2>4, <1>1, <1>2, RecordedMember
<1> QED BY <1>8, <1>9, <1>11, <1>12

(* What the reader still gets after it. *)
Longer(st, ps, n, k) == IF Len(ps) = 1 THEN st \o SubSeq(Chunk(n), 1, k) ELSE st

(* The stream after a write: the cells are in it when there is one part. *)
LEMMA CellsAddedStream ==
    ASSUME NEW qs, NEW ps, NEW n, NEW k, NEW m, CellsAdded(qs, ps, n, k, m),
           PartsOrder(ps, n), NEW st \in Seq(Cells), StreamOrder(ps, st, n), NEW tt,
           tt = Longer(st, ps, n, k)
    PROVE  /\ StreamOrder(qs, tt, m)
           /\ k \in {0, ChunkLen} /\ Whole(st) => Whole(tt)
           /\ \A g \in Seq(Nat) :
                 AllBelow(g, ps, st) /\ (\A i \in 1 .. Len(g) : g[i] < n)
                    => AllBelow(g, qs, tt)
<1> DEFINE x == SubSeq(Chunk(n), 1, k)
<1>0. ChunkLen \in Nat \ {0} BY FileAssumption
<1>1. /\ ps \in Seq(FileParts) /\ qs \in Seq(FileParts) /\ Len(qs) = Len(ps)
      /\ n \in Nat /\ k \in 0 .. ChunkLen /\ m \in {n, n + 1} /\ (k = ChunkLen => m = n + 1)
      /\ qs[Len(ps)].cells = ps[Len(ps)].cells \o x
      /\ \A p \in 1 .. Len(ps) : p # Len(ps) => qs[p].cells = ps[p].cells
  BY DEF CellsAdded
<1>2. Len(ps) \in Nat /\ Len(ps) \in 1 .. Len(ps) BY DEF CellsAdded
<1>x. /\ x \in Seq(Cells) /\ Len(x) = k /\ \A i \in 1 .. k : x[i] = <<n, i>>
  BY <1>1, ChunkCells
<1>3. \A p \in 1 .. Len(ps) : ps[p].cells \in Seq(Cells) BY <1>1, PartFields
<1>4. /\ Sorted(st) /\ Behind(st, n) /\ Complete(st)
      /\ \A p \in 2 .. Len(ps) : Before(st, ps[p].cells)
  BY DEF StreamOrder
<1>5. /\ Before(st, x) /\ Behind(st, m)
      /\ Sorted(st \o x) /\ Behind(st \o x, m) /\ Complete(st \o x)
      /\ Whole(st) /\ k \in {0, ChunkLen} => Whole(st \o x)
  BY <1>1, <1>4, ChunkBehind
<1>t. tt = IF Len(ps) = 1 THEN st \o x ELSE st BY DEF Longer
<1> HIDE DEF x
<1>6. Sorted(tt) /\ Behind(tt, m) /\ Complete(tt) BY <1>4, <1>5, <1>t
<1>7. ASSUME NEW p \in 2 .. Len(qs) PROVE Before(tt, qs[p].cells)
  <2>0. p \in 1 .. Len(ps) /\ Len(ps) # 1
    <3>0. Len(qs) = Len(ps) BY <1>1
    <3>1. p \in 2 .. Len(ps) BY ONLY <3>0, p \in 2 .. Len(qs)
    <3>2. Len(ps) \in Nat BY <1>2
    <3>3. \A a \in Nat : \A b \in 2 .. a : b \in 1 .. a /\ a # 1 OBVIOUS
    <3> QED BY ONLY <3>1, <3>2, <3>3
  <2>4. tt = st BY <2>0, <1>t
  <2>1. tt = st /\ p \in 1 .. Len(ps) BY <2>0, <2>4
  <2>2. CASE p = Len(ps)
    <3>1. Before(st, ps[p].cells \o x) BY <2>1, <1>1, <1>3, <1>4, <1>5, <1>x, BoundsConcat
    <3> QED BY <3>1, <2>1, <2>2, <1>1
  <2>3. CASE p # Len(ps) BY <2>1, <2>3, <1>1, <1>4
  <2> QED BY <2>2, <2>3
<1>8. StreamOrder(qs, tt, m) BY <1>6, <1>7 DEF StreamOrder
<1>9. k \in {0, ChunkLen} /\ Whole(st) => Whole(tt) BY <1>5, <1>t
<1>10. ASSUME NEW g \in Seq(Nat), AllBelow(g, ps, st), \A i \in 1 .. Len(g) : g[i] < n
       PROVE  AllBelow(g, qs, tt)
  <2>1. Beneath(g, x) BY <1>x, <1>10 DEF Beneath
  <2>2. Beneath(g, st) /\ \A p \in 2 .. Len(ps) : Beneath(g, ps[p].cells)
    BY <1>10 DEF AllBelow
  <2>3. Beneath(g, tt)
    <3>1. Beneath(g, st \o x) BY <2>1, <2>2, <1>x, BoundsConcat
    <3> QED BY <3>1, <2>2, <1>t
  <2>4. ASSUME NEW p \in 2 .. Len(qs) PROVE Beneath(g, qs[p].cells)
    <3>1. p \in 1 .. Len(ps) /\ p \in 2 .. Len(ps) BY <1>1, <1>2
    <3>2. CASE p = Len(ps)
      <4>1. Beneath(g, ps[p].cells \o x) BY <3>1, <2>1, <2>2, <1>3, <1>x, BoundsConcat
      <4> QED BY <4>1, <3>2, <1>1
    <3>3. CASE p # Len(ps) BY <3>1, <3>3, <2>2, <1>1
    <3> QED BY <3>2, <3>3
  <2> QED BY <2>3, <2>4 DEF AllBelow
<1> QED BY <1>8, <1>9, <1>10

-----------------------------------------------------------------------------
(* The invariant holds at first, and each step keeps it. *)

(* No file was ever opened. *)
LEMMA FileInitInd == PfInit => FileInd
<1> SUFFICES ASSUME PfInit PROVE FileInd OBVIOUS
<1> USE DEF PfInit
<1>0. ChunkLen \in Nat \ {0} /\ FileEvents \in Nat BY FileAssumption
<1>1. FileTypes
  <2>1. <<>> \in Seq(FileParts) /\ <<>> \in Seq(Cells) /\ <<>> \in Seq(Nat) OBVIOUS
  <2>2. 0 \in 0 .. ChunkLen /\ 1 \in 1 .. FileEvents + 1 BY <1>0
  <2> QED BY <2>1, <2>2 DEF FileTypes
<1>2. FileShape BY DEF FileShape
<1>3. FileDirty BY DEF FileDirty
<1>4. Len(<<>>) = 0 /\ \A i \in 1 .. Len(<<>>) : FALSE OBVIOUS
<1>5. Stream = <<>>
  <2>1. Rest = <<>> /\ rbuffer = <<>> BY DEF Rest
  <2>2. <<>> \o <<>> = <<>> OBVIOUS
  <2> QED BY <2>1, <2>2 DEF Stream
<1>6. FileOrdered
  <2>1. PartsOrder(parts, wnext) BY <1>4 DEF PartsOrder
  <2>2. StreamOrder(parts, <<>>, wnext)
    BY DEF StreamOrder, Sorted, Behind, Complete
  <2> QED BY <1>5, <2>1, <2>2 DEF FileOrdered
<1>7. GivenOrdered BY DEF GivenOrdered
<1>8. FileSound BY <1>5 DEF FileSound, WholeParts, Whole
<1>9. FileKept BY DEF FileKept, UnlinkedWasRead
<1> QED BY <1>1, <1>2, <1>3, <1>6, <1>7, <1>8, <1>9 DEF FileInd

(* What the parts of the invariant are about. *)
LEMMA FileFrame ==
    ASSUME FileInd, UNCHANGED <<parts, rfile, roffset, rbuffer, ended, left, garbage,
                                wnext, given, read, refused, damaged>>,
           dropped \subseteq dropped',
           full' \in BOOLEAN,
           \/ fphase' = fphase
           \/ fphase = "idle" /\ fphase' = "read"
    PROVE  FileInd'
<1>1. FileTypes' BY DEF FileInd, FileTypes
<1>2. FileShape' BY DEF FileInd, FileShape
<1>3. FileDirty' BY DEF FileInd, FileDirty
<1>4. Stream' = Stream BY DEF Stream, Rest
<1>5. FileOrdered' BY <1>4 DEF FileInd, FileOrdered
<1>6. GivenOrdered' BY <1>4 DEF FileInd, GivenOrdered
<1>7. FileSound'
  <2>1. ASSUME ~damaged' PROVE ended' => rbuffer' = <<>> /\ fphase' = "read"
    BY <2>1 DEF FileInd, FileSound
  <2> QED BY <1>4, <2>1 DEF FileInd, FileSound
<1>8. OnDisk' = OnDisk /\ Buffered' = Buffered BY DEF OnDisk, Buffered
<1>9. UnlinkedWasRead' BY <1>8 DEF FileInd, FileKept, UnlinkedWasRead
<1>10. FileKept' BY <1>8, <1>9 DEF FileInd, FileKept
<1> QED BY <1>1, <1>2, <1>3, <1>5, <1>6, <1>7, <1>10 DEF FileInd

(* Nothing happens, a read begins, or the disk becomes full. *)
LEMMA QuietFile ==
    ASSUME FileInd, UNCHANGED pfVars \/ BeginRead \/ DiskFull
    PROVE  FileInd'
<1>1. full \in BOOLEAN BY DEF FileInd, FileTypes
<1>2. CASE UNCHANGED pfVars BY <1>1, <1>2, FileFrame DEF pfVars
<1>3. CASE BeginRead BY <1>1, <1>3, FileFrame DEF BeginRead
<1>4. CASE DiskFull BY <1>1, <1>4, FileFrame DEF DiskFull
<1> QED BY <1>2, <1>3, <1>4

(* A write is refused. *)
LEMMA RefusedKeeps ==
    ASSUME FileInd, BeginWrite, ended
    PROVE  FileInd'
<1>0. FileEvents \in Nat BY FileAssumption
<1>1. /\ fphase = "idle" /\ wnext <= FileEvents
      /\ refused' = refused \union {wnext} /\ wnext' = wnext + 1
      /\ UNCHANGED <<fphase, parts, rfile, left, roffset, rbuffer, ended, full, garbage,
                     given, read, dropped, damaged, openings, fileFaults>>
  BY DEF BeginWrite
<1>w. wnext \in Nat /\ wnext >= 1 BY DEF FileInd, FileTypes
<1>2. FileTypes' BY <1>0, <1>1 DEF FileInd, FileTypes
<1>3. FileShape' BY <1>1 DEF FileInd, FileShape
<1>4. FileDirty' BY <1>1 DEF FileInd, FileDirty
<1>5. Stream' = Stream BY <1>1 DEF Stream, Rest
<1>t. /\ FileTypes /\ FileShape /\ Stream \in Seq(Cells)
  BY StreamTypes DEF FileInd
<1>p. parts \in Seq(FileParts) BY <1>t DEF FileTypes
<1>6. \A s \in Seq(Cells) : Behind(s, wnext) => Behind(s, wnext + 1)
  <2>1. 0 \in 0 .. ChunkLen /\ wnext + 1 \in {wnext, wnext + 1} BY FileAssumption
  <2> QED BY <2>1, <1>w, ChunkBehind
<1>7. PartsOrder(parts, wnext + 1)
  <2>1. \A p \in 1 .. Len(parts) : parts[p].cells \in Seq(Cells) BY <1>p, PartFields
  <2>2. PartsOrder(parts, wnext) BY DEF FileInd, FileOrdered
  <2> QED BY <2>1, <2>2, <1>6 DEF PartsOrder
<1>8. StreamOrder(parts, Stream, wnext + 1)
  <2>1. StreamOrder(parts, Stream, wnext) BY DEF FileInd, FileOrdered
  <2> QED BY <2>1, <1>6, <1>t DEF StreamOrder
<1>9. FileOrdered' BY <1>1, <1>5, <1>7, <1>8 DEF FileOrdered
<1>10. GivenOrdered'
  <2>1. \A i \in 1 .. Len(given) : given[i] \in Nat /\ given[i] < wnext
    BY <1>t DEF FileInd, GivenOrdered, FileTypes
  <2>2. \A i \in 1 .. Len(given) : given[i] < wnext + 1 BY <2>1, <1>w
  <2> QED BY <2>2, <1>1, <1>5 DEF FileInd, GivenOrdered
<1>11. damaged
  BY <1>1 DEF FileInd, FileSound
<1>12. FileSound' BY <1>1, <1>11 DEF FileSound
<1>13. OnDisk' = OnDisk /\ Buffered' = Buffered BY <1>1 DEF OnDisk, Buffered
<1>14. UnlinkedWasRead'
  <2>1. ASSUME NEW e \in 1 .. wnext' - 1
        PROVE  e \in read \union dropped \union refused' \union OnDisk \union Buffered
    <3>1. e \in 1 .. wnext - 1 \/ e = wnext BY <1>1, <1>w
    <3>2. CASE e \in 1 .. wnext - 1
      BY <3>2, <1>1, <1>11 DEF FileInd, FileKept, UnlinkedWasRead
    <3>3. CASE e = wnext BY <3>3, <1>1
    <3> QED BY <3>1, <3>2, <3>3
  <2> QED BY <2>1, <1>1, <1>11, <1>13 DEF UnlinkedWasRead
<1>15. FileKept' BY <1>1, <1>13, <1>14 DEF FileInd, FileKept
<1> QED BY <1>2, <1>3, <1>4, <1>9, <1>10, <1>12, <1>15 DEF FileInd

(* A write begins, perhaps in a new part. *)
LEMMA BeginWriteKeeps ==
    ASSUME FileInd, BeginWrite, ~ended
    PROVE  FileInd'
<1>0. ChunkLen \in Nat \ {0} BY FileAssumption
<1>t. /\ FileTypes /\ FileShape /\ FileDirty /\ Stream \in Seq(Cells)
  BY StreamTypes DEF FileInd
<1>p. /\ parts \in Seq(FileParts) /\ parts # <<>>
      /\ Len(parts) \in Nat \ {0} /\ Len(parts) \in 1 .. Len(parts) /\ 1 \in 1 .. Len(parts)
  <2>1. parts \in Seq(FileParts) /\ parts # <<>> BY <1>t DEF FileTypes, FileShape, BeginWrite
  <2> QED BY <2>1
<1>1. /\ fphase = "idle" /\ fphase' = "write" /\ parts' = NextPart /\ rfile' = ReaderFile
      /\ left' = ChunkLen /\ left = 0
      /\ UNCHANGED <<refused, wnext, roffset, rbuffer, ended, full, garbage, given, read,
                     dropped, damaged, openings, fileFaults>>
  BY <1>t DEF BeginWrite, FileShape, FileTypes
<1> DEFINE clean == [parts EXCEPT ![Len(parts)].dirty = 0]
           new == Part(<<>>, 0)
<1>2. /\ clean \in Seq(FileParts) /\ Len(clean) = Len(parts)
      /\ clean[Len(parts)].dirty = 0
      /\ \A p \in 1 .. Len(parts) :
            /\ clean[p].cells = parts[p].cells /\ clean[p].gone = parts[p].gone
            /\ p # Len(parts) => clean[p] = parts[p]
  <2>1. \A p \in 1 .. Len(parts) : parts[p] \in FileParts BY <1>p
  <2>2. \A p \in 1 .. Len(parts) :
            clean[p] = IF p = Len(parts) THEN [parts[p] EXCEPT !.dirty = 0] ELSE parts[p]
    BY <1>p
  <2>3. \A r \in FileParts : /\ [r EXCEPT !.dirty = 0] \in FileParts
                             /\ [r EXCEPT !.dirty = 0].cells = r.cells
                             /\ [r EXCEPT !.dirty = 0].gone = r.gone
                             /\ [r EXCEPT !.dirty = 0].dirty = 0
    BY DEF FileParts
  <2>4. \A p \in 1 .. Len(parts) : clean[p] \in FileParts BY <2>1, <2>2, <2>3
  <2>5. clean \in Seq(FileParts) /\ Len(clean) = Len(parts)
    <3>1. clean = [p \in 1 .. Len(parts) |-> clean[p]] BY <1>p
    <3> QED BY <3>1, <2>4, <1>p
  <2> HIDE DEF clean
  <2> QED BY <2>1, <2>2, <2>3, <2>5, <1>p
<1>3. new \in FileParts /\ new.cells = <<>> /\ new.dirty = 0 /\ ~new.gone
  BY DEF Part, FileParts
<1>4. NextPart = clean \/ NextPart = Append(clean, new)
         \/ (NextPart = Append(parts, new) /\ rfile = "shared")
  BY DEF NextPart
<1> HIDE DEF clean, new
<1>5. PICK base : /\ base \in {clean, parts} /\ (base = parts => rfile = "shared" \/ base = clean)
                  /\ (NextPart = base /\ base = clean) \/ NextPart = Append(base, new)
  BY <1>4
<1>6. SameCells(base, parts)
  BY <1>2, <1>5, <1>p DEF SameCells
<1>7. /\ base \in Seq(FileParts) /\ Len(base) = Len(parts)
      /\ \A p \in 1 .. Len(parts) : /\ base[p].cells = parts[p].cells
                                    /\ base[p].gone = parts[p].gone
                                    /\ base[p].dirty = parts[p].dirty
                                          \/ (p = Len(parts) /\ base[p].dirty = 0)
                                    /\ p = Len(parts) => base[p].dirty = 0 \/ rfile = "shared"
  <2>1. base \in Seq(FileParts) /\ Len(base) = Len(parts) BY <1>2, <1>5, <1>p
  <2>2. ASSUME NEW p \in 1 .. Len(parts)
        PROVE  /\ base[p].cells = parts[p].cells
               /\ base[p].gone = parts[p].gone
               /\ base[p].dirty = parts[p].dirty \/ (p = Len(parts) /\ base[p].dirty = 0)
               /\ p = Len(parts) => base[p].dirty = 0 \/ rfile = "shared"
    <3>1. CASE base = clean /\ p = Len(parts)
      <4>1. base[p].dirty = 0 BY <3>1, <1>2
      <4>2. base[p].cells = parts[p].cells /\ base[p].gone = parts[p].gone
        BY <3>1, <1>2
      <4> QED BY ONLY <4>1, <4>2, <3>1
    <3>2. CASE base = clean /\ p # Len(parts)
      <4>1. clean[p] = parts[p] BY <3>2, <1>2
      <4> QED BY ONLY <4>1, <3>2
    <3>3. CASE base = parts /\ base # clean
      <4>1. rfile = "shared" BY <3>3, <1>5
      <4> QED BY ONLY <4>1, <3>3
    <3> QED BY <1>5, <3>1, <3>2, <3>3
  <2> QED BY ONLY <2>1, <2>2
<1>8. /\ Append(base, new) \in Seq(FileParts) /\ Len(Append(base, new)) = Len(parts) + 1
      /\ Append(base, new)[Len(parts) + 1] = new
      /\ \A p \in 1 .. Len(parts) : Append(base, new)[p] = base[p]
      /\ \A n : PartsOrder(base, n) => PartsOrder(Append(base, new), n)
      /\ \A st, n : StreamOrder(base, st, n) => StreamOrder(Append(base, new), st, n)
      /\ \A g, st : AllBelow(g, base, st) => AllBelow(g, Append(base, new), st)
      /\ WholeParts(base) => WholeParts(Append(base, new))
      /\ Recorded(Append(base, new)) = Recorded(base)
  BY <1>3, <1>7, PartAdded
<1>9. /\ \A n : PartsOrder(parts, n) => PartsOrder(parts', n)
      /\ \A st, n : StreamOrder(parts, st, n) => StreamOrder(parts', st, n)
      /\ \A g, st : AllBelow(g, parts, st) => AllBelow(g, parts', st)
      /\ WholeParts(parts) => WholeParts(parts')
      /\ Recorded(parts') = Recorded(parts)
  <2>1. /\ \A n : PartsOrder(parts, n) => PartsOrder(base, n)
        /\ \A st, n : StreamOrder(parts, st, n) => StreamOrder(base, st, n)
        /\ \A g, st : AllBelow(g, parts, st) => AllBelow(g, base, st)
        /\ WholeParts(parts) => WholeParts(base)
        /\ Recorded(base) = Recorded(parts)
    BY <1>6, SameCellsKeep
  <2>2. CASE parts' = base BY ONLY <2>1, <2>2
  <2>3. CASE parts' = Append(base, new) BY ONLY <2>1, <2>3, <1>8
  <2> QED BY <1>1, <1>5, <2>2, <2>3
<1>10. /\ parts' \in Seq(FileParts) /\ Len(parts') \in {Len(parts), Len(parts) + 1}
       /\ \A p \in 1 .. Len(parts) : parts'[p] = base[p]
       /\ Len(parts') = Len(parts) + 1 => parts'[Len(parts) + 1] = new
       /\ Len(parts') = Len(parts) => base = clean
  BY <1>1, <1>5, <1>7, <1>8, <1>p
<1>11. FileTypes'
  <2>1. rfile' \in {"null", "shared", "own"} BY <1>1, <1>t DEF ReaderFile, FileTypes
  <2> QED BY <2>1, <1>0, <1>1, <1>10, <1>t DEF FileTypes
<1>12. parts'[1].cells = parts[1].cells /\ parts'[1].gone = parts[1].gone /\ parts' # <<>>
  BY <1>7, <1>10, <1>p
<1>13. Stream' = Stream
  BY <1>1, <1>12, <1>p DEF Stream, Rest
<1>14. FileShape'
  <2>1. rfile' = "shared" => Len(parts') = 1
    <3>1. SUFFICES ASSUME rfile' = "shared" PROVE Len(parts') = 1 OBVIOUS
    <3>2. rfile = "shared" /\ ~(Len(NextPart) > Len(parts)) BY <3>1, <1>1 DEF ReaderFile
    <3>3. Len(parts) = 1 BY <3>2, <1>t DEF FileShape
    <3> QED BY <3>2, <3>3, <1>1, <1>10
  <2>2. rfile' = "null" <=> rfile = "null"
    BY <1>1 DEF ReaderFile
  <2>3. ~parts'[Len(parts')].gone
    <3>1. ~parts[Len(parts)].gone BY <1>t, <1>p DEF FileShape
    <3> QED BY <3>1, <1>3, <1>7, <1>10, <1>p
  <2>4. roffset' <= Len(parts'[1].cells) BY <1>1, <1>12, <1>t DEF FileShape
  <2>5. wnext' <= FileEvents BY <1>1 DEF BeginWrite
  <2> QED BY <2>1, <2>2, <2>3, <2>4, <2>5, <1>0, <1>1, <1>12, <1>t DEF FileShape
<1>15. FileDirty'
  <2>1. ASSUME NEW p \in 1 .. Len(parts')
        PROVE  /\ parts'[p].dirty <= Len(parts'[p].cells) /\ parts'[p].dirty <= ChunkLen
               /\ parts'[p].gone => parts'[p].cells = <<>>
               /\ p # 1 /\ p # Len(parts') => parts'[p].dirty = 0
               /\ p = Len(parts') => parts'[p].dirty + left' <= ChunkLen
    <3>1. CASE p = Len(parts) + 1 BY <3>1, <1>0, <1>1, <1>3, <1>10, <1>p
    <3>2. CASE p \in 1 .. Len(parts)
      <4>1. /\ parts[p].dirty <= Len(parts[p].cells) /\ parts[p].dirty <= ChunkLen
            /\ parts[p].gone => parts[p].cells = <<>>
            /\ p # 1 /\ p # Len(parts) => parts[p].dirty = 0
        BY <3>2, <1>t DEF FileDirty
      <4>2. /\ parts'[p].cells = parts[p].cells /\ parts'[p].gone = parts[p].gone
            /\ parts'[p].dirty = parts[p].dirty \/ parts'[p].dirty = 0
            /\ p = Len(parts) => parts'[p].dirty = 0 \/ rfile = "shared"
            /\ Len(parts[p].cells) \in Nat
        BY <3>2, <1>7, <1>10, <1>p, PartFields
      <4>3. p # 1 /\ p # Len(parts') => parts'[p].dirty = 0
        <5>1. rfile = "shared" => Len(parts) = 1 BY <1>t DEF FileShape
        <5> QED BY <4>1, <4>2, <5>1
      <4>4. p = Len(parts') => parts'[p].dirty = 0
        BY <3>2, <1>2, <1>10, <1>p
      <4> QED BY <4>1, <4>2, <4>3, <4>4, <1>0, <1>1
    <3> QED BY <3>1, <3>2, <1>10, <1>p
  <2> QED BY <2>1 DEF FileDirty
<1>16. FileOrdered' BY <1>1, <1>9, <1>13 DEF FileInd, FileOrdered
<1>17. GivenOrdered' BY <1>1, <1>9, <1>13 DEF FileInd, GivenOrdered
<1>18. FileSound'
  BY <1>1, <1>9, <1>12, <1>13 DEF FileInd, FileSound
<1>19. OnDisk' = OnDisk /\ Buffered' = Buffered BY <1>1, <1>9 DEF OnDisk, Buffered
<1>20. FileKept'
  BY <1>1, <1>12, <1>19 DEF FileInd, FileKept, UnlinkedWasRead
<1> QED BY <1>11, <1>14, <1>15, <1>16, <1>17, <1>18, <1>20 DEF FileInd

-----------------------------------------------------------------------------
(* Streams that are put together and cut. *)

(* Sequences with the same cells are equal. *)
LEMMA CellsEqual ==
    ASSUME NEW s \in Seq(Cells), NEW t \in Seq(Cells), Len(s) = Len(t),
           \A i \in 1 .. Len(s) : s[i] = t[i]
    PROVE  s = t
<1>1. s = [i \in 1 .. Len(s) |-> s[i]] /\ t = [i \in 1 .. Len(t) |-> t[i]]
  OBVIOUS
<1> QED BY <1>1

(* A suffix of a concatenation, from within the first part. *)
LEMMA SuffixOfConcat ==
    ASSUME NEW s \in Seq(Cells), NEW t \in Seq(Cells), NEW r \in 0 .. Len(s)
    PROVE  SubSeq(s \o t, r + 1, Len(s \o t)) = SubSeq(s, r + 1, Len(s)) \o t
<1> DEFINE a == SubSeq(s \o t, r + 1, Len(s \o t))
           c == SubSeq(s, r + 1, Len(s))
<1>1. /\ s \o t \in Seq(Cells) /\ Len(s \o t) = Len(s) + Len(t)
      /\ Len(s) \in Nat /\ Len(t) \in Nat
      /\ \A i \in 1 .. Len(s) : (s \o t)[i] = s[i]
      /\ \A i \in 1 .. Len(t) : (s \o t)[Len(s) + i] = t[i]
  BY CellsConcat
<1>2. r \in 0 .. Len(s \o t) /\ r \in Nat /\ r <= Len(s) BY <1>1
<1>3. /\ a \in Seq(Cells) /\ Len(a) = Len(s) + Len(t) - r
      /\ \A i \in 1 .. Len(s) + Len(t) - r : a[i] = (s \o t)[r + i]
  BY <1>1, <1>2, CutSlices DEF Slice
<1>4. /\ c \in Seq(Cells) /\ Len(c) = Len(s) - r
      /\ \A i \in 1 .. Len(s) - r : c[i] = s[r + i]
  BY <1>1, <1>2, CutSlices DEF Slice
<1> HIDE DEF a, c
<1>5. /\ c \o t \in Seq(Cells) /\ Len(c \o t) = Len(c) + Len(t)
      /\ \A i \in 1 .. Len(c) : (c \o t)[i] = c[i]
      /\ \A i \in 1 .. Len(c) + Len(t) :
            i > Len(c) => i - Len(c) \in 1 .. Len(t) /\ (c \o t)[i] = t[i - Len(c)]
  BY <1>4, CellsConcat
<1>6. Len(a) = Len(c \o t) /\ Len(c \o t) = Len(s) + Len(t) - r
  BY <1>1, <1>2, <1>3, <1>4, <1>5
<1>7. ASSUME NEW i \in 1 .. Len(a) PROVE a[i] = (c \o t)[i]
  <2>1. i \in 1 .. Len(s) + Len(t) - r /\ a[i] = (s \o t)[r + i] BY <1>3
  <2>2. CASE i <= Len(s) - r
    <3>1. i \in 1 .. Len(c) /\ i \in 1 .. Len(s) - r /\ r + i \in 1 .. Len(s)
      BY <2>1, <2>2, <1>1, <1>2, <1>4
    <3> QED BY <3>1, <2>1, <1>1, <1>4, <1>5
  <2>3. CASE i > Len(s) - r
    <3>1. /\ i > Len(c) /\ i \in 1 .. Len(c) + Len(t)
          /\ i - Len(c) = r + i - Len(s)
          /\ Len(s) + (i - Len(c)) = r + i
      BY <2>1, <2>3, <1>1, <1>2, <1>4
    <3>2. i - Len(c) \in 1 .. Len(t) /\ (c \o t)[i] = t[i - Len(c)]
      BY <3>1, <1>5
    <3>3. (s \o t)[Len(s) + (i - Len(c))] = t[i - Len(c)] BY <3>2, <1>1
    <3> QED BY <2>1, <3>1, <3>2, <3>3
  <2>4. i <= Len(s) - r \/ i > Len(s) - r
    <3>1. i \in Nat /\ Len(s) \in Nat /\ r \in Nat BY <1>1, <1>2, <1>3
    <3> QED BY ONLY <3>1
  <2> QED BY ONLY <2>2, <2>3, <2>4
<1>8. a = c \o t BY <1>3, <1>5, <1>6, <1>7, CellsEqual
<1> QED BY <1>8 DEF a, c

(* Concatenation is associative. *)
LEMMA ConcatThree ==
    ASSUME NEW s \in Seq(Cells), NEW t \in Seq(Cells), NEW u \in Seq(Cells)
    PROVE  (s \o t) \o u = s \o (t \o u)
<1> DEFINE a == s \o t
           b == t \o u
<1>1. /\ a \in Seq(Cells) /\ Len(a) = Len(s) + Len(t)
      /\ Len(s) \in Nat /\ Len(t) \in Nat /\ Len(u) \in Nat
      /\ \A i \in 1 .. Len(s) : a[i] = s[i]
      /\ \A i \in 1 .. Len(t) : a[Len(s) + i] = t[i]
  BY CellsConcat
<1>2. /\ b \in Seq(Cells) /\ Len(b) = Len(t) + Len(u)
      /\ \A i \in 1 .. Len(t) : b[i] = t[i]
      /\ \A i \in 1 .. Len(u) : b[Len(t) + i] = u[i]
  BY CellsConcat
<1> HIDE DEF a, b
<1>3. /\ a \o u \in Seq(Cells) /\ Len(a \o u) = Len(a) + Len(u)
      /\ \A i \in 1 .. Len(a) : (a \o u)[i] = a[i]
      /\ \A i \in 1 .. Len(u) : (a \o u)[Len(a) + i] = u[i]
  BY <1>1, CellsConcat
<1>4. /\ s \o b \in Seq(Cells) /\ Len(s \o b) = Len(s) + Len(b)
      /\ \A i \in 1 .. Len(s) : (s \o b)[i] = s[i]
      /\ \A i \in 1 .. Len(b) : (s \o b)[Len(s) + i] = b[i]
  BY <1>2, CellsConcat
<1>5. Len(a \o u) = Len(s \o b) BY <1>1, <1>2, <1>3, <1>4
<1>6. ASSUME NEW i \in 1 .. Len(a \o u) PROVE (a \o u)[i] = (s \o b)[i]
  <2>0. /\ i \in Nat /\ 1 <= i /\ i <= Len(s) + Len(t) + Len(u)
        /\ Len(s) \in Nat /\ Len(t) \in Nat /\ Len(u) \in Nat
    BY <1>1, <1>3
  <2>1. CASE i <= Len(s)
    <3>1. i \in 1 .. Len(s) /\ i \in 1 .. Len(a) BY <2>0, <2>1, <1>1
    <3> QED BY <3>1, <1>1, <1>3, <1>4
  <2>2. CASE i > Len(s) /\ i <= Len(s) + Len(t)
    <3>0. i - Len(s) \in 1 .. Len(t) /\ i = Len(s) + (i - Len(s)) BY ONLY <2>0, <2>2
    <3>1. PICK j \in 1 .. Len(t) : i = Len(s) + j BY ONLY <3>0
    <3>2. i \in 1 .. Len(a) /\ j \in 1 .. Len(b) BY <2>0, <2>2, <3>1, <1>1, <1>2
    <3>3. (a \o u)[i] = t[j] BY <3>1, <3>2, <1>1, <1>3
    <3>4. (s \o b)[i] = t[j] BY <3>1, <3>2, <1>2, <1>4
    <3> QED BY <3>3, <3>4
  <2>3. CASE i > Len(s) + Len(t)
    <3>0. /\ i - (Len(s) + Len(t)) \in 1 .. Len(u)
          /\ i = Len(s) + Len(t) + (i - (Len(s) + Len(t)))
      BY ONLY <2>0, <2>3
    <3>1. PICK j \in 1 .. Len(u) : i = Len(s) + Len(t) + j BY ONLY <3>0
    <3>2. Len(t) + j \in 1 .. Len(b) /\ i = Len(a) + j /\ i = Len(s) + (Len(t) + j)
      BY <3>1, <1>1, <1>2
    <3>3. (a \o u)[i] = u[j] BY <3>1, <3>2, <1>3
    <3>4. (s \o b)[i] = u[j] BY <3>1, <3>2, <1>2, <1>4
    <3> QED BY <3>3, <3>4
  <2>4. i <= Len(s) \/ (i > Len(s) /\ i <= Len(s) + Len(t)) \/ i > Len(s) + Len(t)
    BY ONLY <2>0
  <2> QED BY ONLY <2>1, <2>2, <2>3, <2>4
<1>7. a \o u = s \o b BY <1>3, <1>4, <1>5, <1>6, CellsEqual
<1> QED BY <1>7 DEF a, b

(* A suffix, cut once more. *)
LEMMA SuffixCut ==
    ASSUME NEW s \in Seq(Cells), NEW r \in 0 .. Len(s), NEW q \in r .. Len(s)
    PROVE  /\ SubSeq(s, r + 1, q) \in Seq(Cells)
           /\ SubSeq(s, r + 1, q) \o SubSeq(s, q + 1, Len(s)) = SubSeq(s, r + 1, Len(s))
           /\ \A e : e \in EventSet(SubSeq(s, r + 1, q)) <=>
                 \E i \in r + 1 .. q : s[i][2] = ChunkLen /\ e = s[i][1]
           /\ \A j \in 1 .. Len(SubSeq(s, r + 1, q)) :
                 \E i \in 1 .. Len(s) : s[i] = SubSeq(s, r + 1, q)[j]
<1> DEFINE a == SubSeq(s, r + 1, q)
           b == SubSeq(s, q + 1, Len(s))
           c == SubSeq(s, r + 1, Len(s))
<1>0. Len(s) \in Nat /\ r \in Nat /\ q \in Nat /\ r <= q /\ q <= Len(s) OBVIOUS
<1>1. /\ a \in Seq(Cells) /\ Len(a) = q - r
      /\ \A i \in 1 .. q - r : a[i] = s[r + i]
  <2>1. \A i \in r + 1 .. q : s[i] \in Cells BY <1>0
  <2>2. \A i \in 1 .. q - r : a[i] = s[r + 1 + i - 1] /\ r + 1 + i - 1 = r + i BY <1>0
  <2> QED BY <2>1, <2>2, <1>0
<1>2. /\ b \in Seq(Cells) /\ Len(b) = Len(s) - q
      /\ \A i \in 1 .. Len(s) - q : b[i] = s[q + i]
  BY <1>0, CutSlices DEF Slice
<1>3. /\ c \in Seq(Cells) /\ Len(c) = Len(s) - r
      /\ \A i \in 1 .. Len(s) - r : c[i] = s[r + i]
  BY <1>0, CutSlices DEF Slice
<1> HIDE DEF a, b, c
<1>4. /\ a \o b \in Seq(Cells) /\ Len(a \o b) = Len(a) + Len(b)
      /\ \A i \in 1 .. Len(a) : (a \o b)[i] = a[i]
      /\ \A i \in 1 .. Len(b) : (a \o b)[Len(a) + i] = b[i]
  BY <1>1, <1>2, CellsConcat
<1>5. Len(a \o b) = Len(c) BY <1>0, <1>1, <1>2, <1>3, <1>4
<1>6. ASSUME NEW i \in 1 .. Len(a \o b) PROVE (a \o b)[i] = c[i]
  <2>0. i \in Nat /\ 1 <= i /\ i <= Len(s) - r /\ c[i] = s[r + i] BY <1>0, <1>3, <1>5
  <2>1. CASE i <= q - r BY <2>0, <2>1, <1>0, <1>1, <1>4
  <2>2. CASE i > q - r
    <3>4. i \in Nat /\ i <= Len(s) - r BY <2>0
    <3>0. i - (q - r) \in 1 .. Len(s) - q /\ i = (q - r) + (i - (q - r))
      BY ONLY <3>4, <2>2, <1>0
    <3>1. PICK j \in 1 .. Len(s) - q : i = (q - r) + j BY ONLY <3>0
    <3>2. (a \o b)[i] = b[j] BY <3>1, <1>1, <1>2, <1>4
    <3>3. r + i = q + j BY <3>1, <1>0
    <3> QED BY <3>1, <3>2, <3>3, <2>0, <1>2
  <2> QED BY <2>0, <2>1, <2>2, <1>0
<1>7. a \o b = c BY <1>3, <1>4, <1>5, <1>6, CellsEqual
<1>8. ASSUME NEW e
      PROVE  e \in EventSet(a) <=> \E i \in r + 1 .. q : s[i][2] = ChunkLen /\ e = s[i][1]
  <2>1. \A i \in 1 .. Len(a) : r + i \in r + 1 .. q /\ a[i] = s[r + i] BY <1>0, <1>1
  <2>2. ASSUME NEW i \in r + 1 .. q PROVE i - r \in 1 .. Len(a) /\ a[i - r] = s[i]
    <3>1. i - r \in 1 .. Len(a) /\ r + (i - r) = i BY <1>0, <1>1
    <3> QED BY <3>1, <2>1
  <2>3. e \in EventSet(a) <=> \E i \in 1 .. Len(a) : a[i][2] = ChunkLen /\ e = a[i][1]
    BY <1>1, EventSetMember
  <2>4. ASSUME NEW i \in 1 .. Len(a), a[i][2] = ChunkLen, e = a[i][1]
        PROVE  \E j \in r + 1 .. q : s[j][2] = ChunkLen /\ e = s[j][1]
    BY <2>1, <2>4
  <2>5. ASSUME NEW i \in r + 1 .. q, s[i][2] = ChunkLen, e = s[i][1]
        PROVE  \E j \in 1 .. Len(a) : a[j][2] = ChunkLen /\ e = a[j][1]
    BY <2>2, <2>5
  <2> QED BY ONLY <2>3, <2>4, <2>5
<1>9. \A j \in 1 .. Len(a) : \E i \in 1 .. Len(s) : s[i] = a[j]
  <2>1. \A j \in 1 .. Len(a) : r + j \in 1 .. Len(s) /\ a[j] = s[r + j] BY <1>0, <1>1
  <2> QED BY <2>1
<1> QED BY <1>1, <1>7, <1>8, <1>9 DEF a, b, c

(* Cells of the record are written. *)
LEMMA WriteKeeps ==
    ASSUME FileInd, NEW k \in 0 .. ChunkLen, WriteSome(k)
    PROVE  FileInd'
<1>0. ChunkLen \in Nat \ {0} /\ FileEvents \in Nat BY FileAssumption
<1>t. /\ FileTypes /\ FileShape /\ FileDirty /\ Stream \in Seq(Cells)
      /\ Rest \in Seq(Cells) /\ Stream = rbuffer \o Rest /\ rbuffer \in Seq(Cells)
      /\ parts # <<>> => Rest = SubSeq(parts[1].cells, roffset + 1, Len(parts[1].cells))
  BY StreamTypes DEF FileInd, FileTypes
<1> DEFINE x == SubSeq(Chunk(wnext), 1, k)
           n == Len(parts)
<1>w. wnext \in Nat /\ wnext >= 1 /\ left \in Nat /\ left <= ChunkLen /\ k \in Nat
  BY <1>0, <1>t DEF FileTypes
<1>x. /\ x \in Seq(Cells) /\ Len(x) = k
  BY <1>w, ChunkCells
<1>1. /\ fphase = "write" /\ k <= left /\ left' = left - k
      /\ parts' = [parts EXCEPT ![n] = Part(@.cells \o x, @.dirty + k)]
      /\ fphase' = IF left' = 0 THEN "idle" ELSE "write"
      /\ wnext' = IF left' = 0 THEN wnext + 1 ELSE wnext
      /\ dropped' = IF left' = 0 /\ k < ChunkLen THEN dropped \union {wnext} ELSE dropped
      /\ damaged' = (damaged \/ (k > 0 /\ k < ChunkLen))
      /\ UNCHANGED <<rfile, roffset, rbuffer, ended, full, garbage, given, read,
                     refused, openings, fileFaults>>
  BY DEF WriteSome
<1> HIDE DEF x, n
<1>p. /\ parts \in Seq(FileParts) /\ parts # <<>> /\ n = Len(parts)
      /\ n \in Nat \ {0} /\ n \in 1 .. Len(parts) /\ 1 \in 1 .. Len(parts)
  <2>1. parts \in Seq(FileParts) /\ parts # <<>> BY <1>t, <1>1 DEF FileTypes, FileShape
  <2> QED BY <2>1 DEF n
<1>c. /\ \A p \in 1 .. Len(parts) : parts[p].cells \in Seq(Cells) /\ parts[p].dirty \in Nat
                                    /\ Len(parts[p].cells) \in Nat
      /\ parts[n].cells \o x \in Seq(Cells)
      /\ Len(parts[n].cells \o x) = Len(parts[n].cells) + k
      /\ \A i \in 1 .. Len(parts[n].cells) : (parts[n].cells \o x)[i] = parts[n].cells[i]
  <2>1. \A p \in 1 .. Len(parts) : parts[p].cells \in Seq(Cells) /\ parts[p].dirty \in Nat
                                   /\ Len(parts[p].cells) \in Nat
    BY <1>p, PartFields
  <2> QED BY <2>1, <1>p, <1>x, CellsConcat
<1>2. /\ parts' \in Seq(FileParts) /\ Len(parts') = Len(parts)
      /\ parts'[n].cells = parts[n].cells \o x
      /\ parts'[n].dirty = parts[n].dirty + k /\ ~parts'[n].gone
      /\ \A p \in 1 .. Len(parts) : p # n => parts'[p] = parts[p]
  <2>1. PICK v : v = Part(parts[n].cells \o x, parts[n].dirty + k) OBVIOUS
  <2>2. /\ v \in FileParts /\ v.cells = parts[n].cells \o x
        /\ v.dirty = parts[n].dirty + k /\ ~v.gone
    <3>1. parts[n].dirty + k \in Nat
      <4>1. parts[n].dirty \in Nat BY <1>c, <1>p
      <4> QED BY ONLY <4>1, <1>w
    <3>2. PICK c : c = parts[n].cells \o x OBVIOUS
    <3>3. PICK d : d = parts[n].dirty + k OBVIOUS
    <3>4. c \in Seq(Cells) /\ d \in Nat BY <3>1, <3>2, <3>3, <1>c
    <3>5. v = [cells |-> c, dirty |-> d, gone |-> FALSE] BY <2>1, <3>2, <3>3 DEF Part
    <3>6. v \in FileParts /\ v.cells = c /\ v.dirty = d /\ ~v.gone
      BY ONLY <3>4, <3>5 DEF FileParts
    <3> QED BY ONLY <3>2, <3>3, <3>6
  <2>3. parts' = [parts EXCEPT ![n] = v] BY <1>1, <2>1
  <2> QED BY <2>2, <2>3, <1>p
<1>3. wnext' \in {wnext, wnext + 1} /\ (k = ChunkLen => wnext' = wnext + 1)
  BY <1>1, <1>w, <1>0
<1>4. CellsAdded(parts', parts, wnext, k, wnext')
  BY <1>p, <1>2, <1>3, <1>w DEF CellsAdded, x
<1>5. PartsOrder(parts, wnext) /\ StreamOrder(parts, Stream, wnext)
  BY DEF FileInd, FileOrdered
<1>6. /\ PartsOrder(parts', wnext')
      /\ k \in {0, ChunkLen} /\ WholeParts(parts) => WholeParts(parts')
      /\ Recorded(parts) \subseteq Recorded(parts')
      /\ k = ChunkLen => wnext \in Recorded(parts')
  BY <1>4, <1>5, CellsAddedParts
<1>7. /\ parts' # <<>> /\ Len(parts[1].cells) <= Len(parts'[1].cells)
      /\ \A i \in 1 .. Len(parts[1].cells) : parts'[1].cells[i] = parts[1].cells[i]
      /\ Len(parts'[1].cells) \in Nat
  <2>1. CASE n = 1 BY <2>1, <1>2, <1>c, <1>p, <1>w
  <2>2. CASE n # 1 BY SMTT(30), <2>2, <1>2, <1>c, <1>p
  <2> QED BY <2>1, <2>2
<1>8. Stream' = IF Len(parts) = 1 THEN Stream \o x ELSE Stream
  <2>1. Rest' = SubSeq(parts'[1].cells, roffset + 1, Len(parts'[1].cells))
    BY <1>1, <1>7 DEF Rest
  <2>2. Stream' = rbuffer \o Rest' BY <1>1 DEF Stream
  <2>3. CASE Len(parts) = 1
    <3>1. roffset \in 0 .. Len(parts[1].cells)
      BY <1>t, <1>p, <1>1, <1>c DEF FileTypes, FileShape
    <3>2. parts'[1].cells = parts[1].cells \o x BY <2>3, <1>2, <1>p
    <3>5. PICK s : s = parts[1].cells OBVIOUS
    <3>6. s \in Seq(Cells) /\ roffset \in 0 .. Len(s) BY <3>1, <3>5, <1>c, <1>p
    <3>7. Rest = SubSeq(s, roffset + 1, Len(s)) BY <3>5, <1>t, <1>p
    <3>8. Rest' = SubSeq(s \o x, roffset + 1, Len(s \o x)) BY <3>2, <3>5, <2>1
    <3>3. Rest' = Rest \o x
      BY <3>6, <3>7, <3>8, <1>x, SuffixOfConcat
    <3>4. Stream' = Stream \o x
      BY <3>3, <2>2, <1>t, <1>x, ConcatThree
    <3> QED BY <3>4, <2>3
  <2>4. CASE Len(parts) # 1
    <3>1. parts'[1] = parts[1] BY <2>4, <1>2, <1>p
    <3>2. Rest' = Rest BY <3>1, <2>1, <1>t, <1>p
    <3> QED BY <3>2, <2>2, <2>4, <1>t
  <2> QED BY <2>3, <2>4
<1>9. /\ StreamOrder(parts', Stream', wnext')
      /\ k \in {0, ChunkLen} /\ Whole(Stream) => Whole(Stream')
      /\ \A g \in Seq(Nat) :
            AllBelow(g, parts, Stream) /\ (\A i \in 1 .. Len(g) : g[i] < wnext)
               => AllBelow(g, parts', Stream')
  <2>1. PICK tt : tt = Stream' OBVIOUS
  <2>2. PICK qs : qs = parts' OBVIOUS
  <2>3. PICK m : m = wnext' OBVIOUS
  <2>4. tt = Longer(Stream, parts, wnext, k)
    BY <2>1, <1>8 DEF x, Longer
  <2>5. CellsAdded(qs, parts, wnext, k, m) BY <2>2, <2>3, <1>4
  <2>6. /\ StreamOrder(qs, tt, m)
        /\ k \in {0, ChunkLen} /\ Whole(Stream) => Whole(tt)
        /\ \A g \in Seq(Nat) :
              AllBelow(g, parts, Stream) /\ (\A i \in 1 .. Len(g) : g[i] < wnext)
                 => AllBelow(g, qs, tt)
    <3>1. PICK st \in Seq(Cells) : st = Stream BY <1>t
    <3>2. PICK ps : ps = parts OBVIOUS
    <3>3. /\ CellsAdded(qs, ps, wnext, k, m) /\ PartsOrder(ps, wnext)
          /\ StreamOrder(ps, st, wnext)
          /\ tt = Longer(st, ps, wnext, k)
      BY ONLY <3>1, <3>2, <2>4, <2>5, <1>5
    <3>4. /\ StreamOrder(qs, tt, m)
          /\ k \in {0, ChunkLen} /\ Whole(st) => Whole(tt)
          /\ \A g \in Seq(Nat) :
                AllBelow(g, ps, st) /\ (\A i \in 1 .. Len(g) : g[i] < wnext)
                   => AllBelow(g, qs, tt)
      BY ONLY <3>1, <3>3, CellsAddedStream
    <3> QED BY ONLY <3>1, <3>2, <3>4
  <2> QED BY ONLY <2>1, <2>2, <2>3, <2>6
<1>l. wnext <= FileEvents BY <1>1, <1>t DEF FileShape
<1>10. FileTypes'
  <2>1. left' \in 0 .. ChunkLen /\ wnext' \in 1 .. FileEvents + 1
    BY <1>l, <1>0, <1>1, <1>w
  <2> QED BY <2>1, <1>1, <1>2, <1>t DEF FileTypes
<1>11. FileShape'
  <2>1. left' > 0 <=> fphase' = "write" BY <1>1, <1>w
  <2>2. roffset' <= Len(parts'[1].cells)
    <3>1. roffset <= Len(parts[1].cells) /\ roffset \in Nat /\ roffset' = roffset
      BY <1>1, <1>t DEF FileShape, FileTypes
    <3>2. Len(parts[1].cells) \in Nat BY <1>c, <1>p
    <3> QED BY ONLY <3>1, <3>2, <1>7
  <2>6. fphase' = "write" => wnext' <= FileEvents BY <1>l, <1>1, <1>w
  <2>3. ~ended BY <1>1, <1>t DEF FileShape
  <2>4. ~parts'[Len(parts')].gone BY <1>2, <1>p
  <2>5. rfile # "null" => ~parts'[1].gone BY <1>2, <1>p, <1>t DEF FileShape
  <2> QED BY <2>1, <2>2, <2>3, <2>4, <2>5, <2>6, <1>1, <1>2, <1>7, <1>t DEF FileShape
<1>12. FileDirty'
  <2>1. ASSUME NEW p \in 1 .. Len(parts')
        PROVE  /\ parts'[p].dirty <= Len(parts'[p].cells) /\ parts'[p].dirty <= ChunkLen
               /\ parts'[p].gone => parts'[p].cells = <<>>
               /\ p # 1 /\ p # Len(parts') => parts'[p].dirty = 0
               /\ p = Len(parts') => parts'[p].dirty + left' <= ChunkLen
    <3>1. /\ p \in 1 .. Len(parts)
          /\ parts[p].dirty <= Len(parts[p].cells) /\ parts[p].dirty <= ChunkLen
          /\ parts[p].gone => parts[p].cells = <<>>
          /\ p # 1 /\ p # Len(parts) => parts[p].dirty = 0
          /\ p = Len(parts) => parts[p].dirty + left <= ChunkLen
      BY <1>2, <1>t DEF FileDirty
    <3>2. CASE p = n
      <4>1. /\ parts[n].dirty + left <= ChunkLen /\ parts[n].dirty <= Len(parts[n].cells)
            /\ parts[n].dirty \in Nat /\ Len(parts[n].cells) \in Nat
            /\ Len(parts'[n].cells) = Len(parts[n].cells) + k
            /\ parts'[n].dirty = parts[n].dirty + k /\ left' = left - k /\ k <= left
        BY <3>1, <3>2, <1>1, <1>2, <1>c, <1>p
      <4>2. /\ parts'[n].dirty <= Len(parts'[n].cells) /\ parts'[n].dirty <= ChunkLen
            /\ parts'[n].dirty + left' <= ChunkLen
        <5>1. k \in Nat /\ left \in Nat /\ ChunkLen \in Nat BY <1>w, <1>0, <1>c
        <5>2. PICK d \in Nat : d = parts[n].dirty BY <4>1
        <5>3. PICK v \in Nat : v = Len(parts[n].cells) BY <4>1
        <5>4. /\ d + left <= ChunkLen /\ d <= v /\ k <= left /\ parts'[n].dirty = d + k
              /\ Len(parts'[n].cells) = v + k /\ left' = left - k
          BY ONLY <4>1, <5>2, <5>3
        <5>5. d + k <= v + k /\ d + k <= ChunkLen /\ (d + k) + (left - k) <= ChunkLen
          <6>1. PICK l \in Nat : l = left BY <5>1
          <6>2. ChunkLen \in Nat /\ k \in Nat /\ d + l <= ChunkLen /\ d <= v /\ k <= l
            BY ONLY <5>1, <5>4, <6>1
          <6>3. d + k <= v + k /\ d + k <= ChunkLen /\ (d + k) + (l - k) <= ChunkLen
            BY ONLY <6>2, SomeMore
          <6> QED BY ONLY <6>1, <6>3
        <5> QED BY ONLY <5>4, <5>5
      <4> QED BY <4>2, <3>2, <1>2, <1>p
    <3>3. CASE p # n BY <3>1, <3>3, <1>2, <1>p
    <3> QED BY <3>2, <3>3
  <2> QED BY <2>1 DEF FileDirty
<1>13. FileOrdered' BY <1>6, <1>9 DEF FileOrdered
<1>14. GivenOrdered'
  <2>1. /\ \A i, j \in 1 .. Len(given) : i < j => given[i] < given[j]
        /\ \A i \in 1 .. Len(given) : given[i] < wnext /\ given[i] \in Nat
        /\ AllBelow(given, parts, Stream) /\ given \in Seq(Nat)
    BY SMTT(30), <1>1, <1>t DEF FileInd, GivenOrdered, FileTypes
  <2>2. \A i \in 1 .. Len(given) : given[i] < wnext' BY <2>1, <1>3, <1>w
  <2>3. AllBelow(given, parts', Stream') BY <2>1, <1>9
  <2> QED BY <2>1, <2>2, <2>3, <1>1 DEF GivenOrdered
<1>15. FileSound'
  <2>1. SUFFICES ASSUME ~damaged'
        PROVE  /\ WholeParts(parts') /\ Whole(Stream')
               /\ ended' => rbuffer' = <<>> /\ fphase' = "read"
               /\ fphase' = "write" => left' = ChunkLen
               /\ \A j \in 1 .. Len(rbuffer') :
                    \E i \in 1 .. Len(parts'[1].cells) : parts'[1].cells[i] = rbuffer'[j]
               /\ refused' = {}
    BY DEF FileSound
  <2>2. ~damaged /\ k \in {0, ChunkLen}
    <3>1. ~damaged /\ ~(k > 0 /\ k < ChunkLen) BY <2>1, <1>1, Zenon
    <3>2. k \in {0, ChunkLen} BY ONLY <3>1, <1>0, k \in 0 .. ChunkLen
    <3> QED BY <3>1, <3>2
  <2>3. /\ WholeParts(parts) /\ Whole(Stream) /\ left = ChunkLen /\ refused = {}
        /\ \A j \in 1 .. Len(rbuffer) :
              \E i \in 1 .. Len(parts[1].cells) : parts[1].cells[i] = rbuffer[j]
    BY <2>2, <1>1 DEF FileInd, FileSound
  <2>4. fphase' = "write" => left' = ChunkLen BY <2>2, <2>3, <1>0, <1>1
  <2>5. ~ended BY <1>1, <1>t DEF FileShape
  <2>6. \A i \in 1 .. Len(parts[1].cells) :
           i \in 1 .. Len(parts'[1].cells) /\ parts'[1].cells[i] = parts[1].cells[i]
    BY <1>7, <1>c, <1>p
  <2> QED BY <2>2, <2>3, <2>4, <2>5, <2>6, <1>1, <1>6, <1>9
<1>16. UnlinkedWasRead'
  <2>1. ASSUME NEW e \in 1 .. wnext' - 1
        PROVE  e \in read' \union dropped' \union refused' \union OnDisk'
                     \union (IF damaged' THEN Buffered' ELSE {})
    <3>0. Buffered' = Buffered /\ OnDisk \subseteq OnDisk'
      BY <1>1, <1>6 DEF Buffered, OnDisk
    <3>1. CASE e \in 1 .. wnext - 1
      BY <3>0, <3>1, <1>1 DEF FileInd, FileKept, UnlinkedWasRead
    <3>2. CASE e = wnext /\ left' = 0
      <4>1. k = ChunkLen \/ k < ChunkLen BY <1>0, <1>w
      <4> QED BY <3>2, <4>1, <1>1, <1>6 DEF OnDisk
    <3>3. e \in 1 .. wnext - 1 \/ (e = wnext /\ left' = 0) BY <1>1, <1>w
    <3> QED BY <3>1, <3>2, <3>3
  <2> QED BY <2>1 DEF UnlinkedWasRead
<1>17. FileKept'
  <2>1. ASSUME NEW i \in 1 .. roffset, parts'[1].cells[i][2] = ChunkLen
        PROVE  parts'[1].cells[i][1] \in read \union Buffered
    <3>1. i \in 1 .. Len(parts[1].cells)
      BY <1>1, <1>t, <1>c, <1>p DEF FileShape, FileTypes
    <3>2. parts'[1].cells[i] = parts[1].cells[i] BY <3>1, <1>7
    <3> QED BY <3>2, <2>1, <1>1 DEF FileInd, FileKept
  <2>2. Buffered' = Buffered BY <1>1 DEF Buffered
  <2> QED BY <2>1, <2>2, <1>1, <1>16 DEF FileKept
<1> QED BY <1>10, <1>11, <1>12, <1>13, <1>14, <1>15, <1>17 DEF FileInd

-----------------------------------------------------------------------------
(* The first part is opened. *)
LEMMA OpenFirstKeeps ==
    ASSUME FileInd, Fetching, OpenFirst
    PROVE  FileInd'
<1>1. /\ fphase = "read" /\ ~ended /\ rfile = "null"
      /\ rfile' = OpenMode(parts) /\ rfile' \in {"shared", "own"} /\ roffset' = 0
      /\ UNCHANGED <<fphase, parts, rbuffer, ended, left, full, garbage, wnext, given,
                     read, dropped, refused, damaged, openings, fileFaults>>
  BY DEF Fetching, OpenFirst, OpenMode
<1>t. FileTypes /\ FileShape BY DEF FileInd
<1>p. parts \in Seq(FileParts) /\ parts # <<>> /\ Len(parts) \in Nat \ {0}
  <2>1. parts \in Seq(FileParts) /\ parts # <<>> BY <1>1, <1>t DEF FileTypes, FileShape
  <2> QED BY <2>1
<1>2. roffset' = roffset BY <1>1, <1>t DEF FileShape
<1>3. FileTypes' BY <1>1, <1>2, <1>t DEF FileTypes
<1>4. /\ rfile' = "shared" => Len(parts) = 1
      /\ ~parts[1].gone
  BY <1>1, <1>p, <1>t DEF OpenMode, FileShape
<1>5. FileShape' BY <1>1, <1>2, <1>4, <1>t DEF FileShape
<1>6. FileDirty' BY <1>1 DEF FileInd, FileDirty
<1>7. Stream' = Stream BY <1>1, <1>2 DEF Stream, Rest
<1>8. FileOrdered' BY <1>1, <1>7 DEF FileInd, FileOrdered
<1>9. GivenOrdered' BY <1>1, <1>7 DEF FileInd, GivenOrdered
<1>10. FileSound' BY <1>1, <1>7 DEF FileInd, FileSound
<1>11. OnDisk' = OnDisk /\ Buffered' = Buffered BY <1>1 DEF OnDisk, Buffered
<1>12. FileKept' BY <1>1, <1>2, <1>11 DEF FileInd, FileKept, UnlinkedWasRead
<1> QED BY <1>3, <1>5, <1>6, <1>8, <1>9, <1>10, <1>12 DEF FileInd

(* Cells of the first part are read. *)
LEMMA ReadCellsKeeps ==
    ASSUME FileInd, Fetching, ReadCells
    PROVE  FileInd'
<1>0. BufSize \in Nat \ {0} BY FileAssumption
<1> DEFINE c == parts[1].cells
           x == SubSeq(c, roffset + 1, roffset')
<1>1. /\ fphase = "read" /\ ~ended /\ rfile # "null" /\ roffset < Len(c)
      /\ roffset' = (IF roffset + BufSize < Len(c) THEN roffset + BufSize ELSE Len(c))
      /\ rbuffer' = rbuffer \o x
      /\ parts' = [parts EXCEPT ![1].dirty = 0]
      /\ UNCHANGED <<fphase, rfile, ended, left, full, garbage, wnext, given,
                     read, dropped, refused, damaged, openings, fileFaults>>
  BY DEF Fetching, ReadCells
<1>t. /\ FileTypes /\ FileShape /\ FileDirty /\ Stream \in Seq(Cells)
      /\ Rest \in Seq(Cells) /\ Stream = rbuffer \o Rest /\ rbuffer \in Seq(Cells)
      /\ parts # <<>> => Rest = SubSeq(c, roffset + 1, Len(c))
  BY StreamTypes DEF FileInd, FileTypes
<1>p. /\ parts \in Seq(FileParts) /\ parts # <<>> /\ Len(parts) \in Nat \ {0}
      /\ 1 \in 1 .. Len(parts)
  <2>1. parts \in Seq(FileParts) /\ parts # <<>> BY <1>1, <1>t DEF FileTypes, FileShape
  <2> QED BY <2>1
<1>c. c \in Seq(Cells) /\ Len(c) \in Nat /\ roffset \in Nat
  BY <1>p, <1>t, PartFields DEF FileTypes
<1>2. SameCells(parts', parts) /\ \A p \in 1 .. Len(parts) :
         parts'[p].dirty = IF p = 1 THEN 0 ELSE parts[p].dirty
  <2>0. PICK ps : ps = parts' OBVIOUS
  <2>9. ps = [parts EXCEPT ![1].dirty = 0] BY <2>0, <1>1
  <2>1. \A p \in 1 .. Len(parts) : parts[p] \in FileParts BY <1>p
  <2>2. \A p \in 1 .. Len(parts) :
            ps[p] = IF p = 1 THEN [parts[p] EXCEPT !.dirty = 0] ELSE parts[p]
    BY ONLY <2>9, <1>p
  <2>3. \A r \in FileParts : /\ [r EXCEPT !.dirty = 0] \in FileParts
                             /\ [r EXCEPT !.dirty = 0].cells = r.cells
                             /\ [r EXCEPT !.dirty = 0].gone = r.gone
                             /\ [r EXCEPT !.dirty = 0].dirty = 0
    BY DEF FileParts
  <2>4. \A p \in 1 .. Len(parts) : ps[p] \in FileParts BY <2>1, <2>2, <2>3
  <2>6. ps \in Seq(FileParts) /\ Len(ps) = Len(parts)
    <3>1. PICK v : v = [parts[1] EXCEPT !.dirty = 0] OBVIOUS
    <3>2. v \in FileParts BY <3>1, <2>1, <2>3, <1>p
    <3>3. ps = [parts EXCEPT ![1] = v] BY ONLY <3>1, <2>9, <1>p
    <3> QED BY ONLY <3>2, <3>3, <1>p
  <2>7. \A p \in 1 .. Len(parts) : /\ ps[p].cells = parts[p].cells
                                   /\ ps[p].gone = parts[p].gone
                                   /\ ps[p].dirty = IF p = 1 THEN 0 ELSE parts[p].dirty
    <3> SUFFICES ASSUME NEW p \in 1 .. Len(parts)
                 PROVE  /\ ps[p].cells = parts[p].cells
                        /\ ps[p].gone = parts[p].gone
                        /\ ps[p].dirty = IF p = 1 THEN 0 ELSE parts[p].dirty
      OBVIOUS
    <3>1. PICK o \in FileParts : o = parts[p] BY <2>1
    <3>2. CASE p = 1
      <4>1. ps[p] = [o EXCEPT !.dirty = 0] BY ONLY <2>2, <3>1, <3>2
      <4> QED BY ONLY <4>1, <2>3, <3>1, <3>2
    <3>3. CASE p # 1 BY ONLY <2>2, <3>1, <3>3
    <3> QED BY ONLY <3>2, <3>3
  <2>8. SameCells(ps, parts) BY <2>6, <2>7, <1>p DEF SameCells
  <2> QED BY <2>0, <2>7, <2>8
<1> HIDE DEF c, x
<1>3. PICK q \in roffset .. Len(c) : q = roffset'
  BY <1>0, <1>1, <1>c
<1>4. /\ x \in Seq(Cells) /\ x = SubSeq(c, roffset + 1, q)
      /\ x \o SubSeq(c, q + 1, Len(c)) = SubSeq(c, roffset + 1, Len(c))
      /\ \A e : e \in EventSet(x) <=> \E i \in roffset + 1 .. q : c[i][2] = ChunkLen /\ e = c[i][1]
      /\ \A j \in 1 .. Len(x) : \E i \in 1 .. Len(c) : c[i] = x[j]
  <2>1. x = SubSeq(c, roffset + 1, q) BY <1>3 DEF x
  <2>2. PICK s \in Seq(Cells) : s = c BY <1>c
  <2>3. PICK r \in 0 .. Len(s) : r = roffset BY <2>2, <1>1, <1>c
  <2>4. q \in r .. Len(s) BY <2>2, <2>3, <1>3
  <2>5. /\ SubSeq(s, r + 1, q) \in Seq(Cells)
        /\ SubSeq(s, r + 1, q) \o SubSeq(s, q + 1, Len(s)) = SubSeq(s, r + 1, Len(s))
        /\ \A e : e \in EventSet(SubSeq(s, r + 1, q)) <=>
              \E i \in r + 1 .. q : s[i][2] = ChunkLen /\ e = s[i][1]
        /\ \A j \in 1 .. Len(SubSeq(s, r + 1, q)) :
              \E i \in 1 .. Len(s) : s[i] = SubSeq(s, r + 1, q)[j]
    BY <2>4, SuffixCut
  <2> QED BY ONLY <2>1, <2>2, <2>3, <2>5
<1>5. /\ parts' \in Seq(FileParts) /\ Len(parts') = Len(parts) /\ parts' # <<>>
      /\ \A p \in 1 .. Len(parts) : /\ parts'[p].cells = parts[p].cells
                                    /\ parts'[p].gone = parts[p].gone
      /\ parts'[1].cells = c /\ parts[1].cells = c
  <2>1. /\ parts' \in Seq(FileParts) /\ Len(parts') = Len(parts)
        /\ \A p \in 1 .. Len(parts) : /\ parts'[p].cells = parts[p].cells
                                      /\ parts'[p].gone = parts[p].gone
    BY <1>2 DEF SameCells
  <2>2. parts' # <<>> BY <2>1, <1>p
  <2> QED BY <2>1, <2>2, <1>p DEF c
<1>6. Stream' = Stream
  <2>1. Rest' = SubSeq(c, q + 1, Len(c)) BY <1>3, <1>5 DEF Rest
  <2>2. SubSeq(c, q + 1, Len(c)) \in Seq(Cells)
    <3>1. q \in 0 .. Len(c) BY <1>3, <1>c
    <3> QED BY <3>1, <1>c, ToSetCut
  <2>3. Rest = x \o SubSeq(c, q + 1, Len(c)) BY <1>4, <1>5, <1>t, <1>p DEF c
  <2>4. Stream' = (rbuffer \o x) \o SubSeq(c, q + 1, Len(c)) BY <2>1, <1>1 DEF Stream
  <2>5. (rbuffer \o x) \o SubSeq(c, q + 1, Len(c))
           = rbuffer \o (x \o SubSeq(c, q + 1, Len(c)))
    BY ZenonT(60), <2>2, <1>4, <1>t, ConcatThree
  <2> QED BY <2>3, <2>4, <2>5, <1>t
<1>7. rbuffer' \in Seq(Cells) BY <1>1, <1>4, <1>t, CellsConcat
<1>8. FileTypes' BY <1>1, <1>3, <1>5, <1>7, <1>c, <1>t DEF FileTypes
<1>9. FileShape'
  <2>1. roffset' <= Len(c) BY <1>3, <1>c
  <2>2. ~parts'[Len(parts')].gone /\ ~parts'[1].gone
    BY <1>1, <1>5, <1>p, <1>t DEF FileShape
  <2> QED BY <2>1, <2>2, <1>1, <1>5, <1>t DEF FileShape
<1>10. FileDirty'
  <2>1. ASSUME NEW p \in 1 .. Len(parts')
        PROVE  /\ parts'[p].dirty <= Len(parts'[p].cells) /\ parts'[p].dirty <= ChunkLen
               /\ parts'[p].gone => parts'[p].cells = <<>>
               /\ p # 1 /\ p # Len(parts') => parts'[p].dirty = 0
               /\ p = Len(parts') => parts'[p].dirty + left' <= ChunkLen
    <3>1. /\ p \in 1 .. Len(parts)
          /\ parts[p].dirty <= Len(parts[p].cells) /\ parts[p].dirty <= ChunkLen
          /\ parts[p].gone => parts[p].cells = <<>>
          /\ p # 1 /\ p # Len(parts) => parts[p].dirty = 0
          /\ p = Len(parts) => parts[p].dirty + left <= ChunkLen
          /\ Len(parts[p].cells) \in Nat /\ parts[p].dirty \in Nat
      BY <1>5, <1>p, <1>t, PartFields DEF FileDirty
    <3>2. left \in Nat /\ left <= ChunkLen /\ ChunkLen \in Nat
      BY <1>t, FileAssumption DEF FileTypes
    <3>3. /\ parts'[p].dirty = IF p = 1 THEN 0 ELSE parts[p].dirty
          /\ parts'[p].cells = parts[p].cells /\ parts'[p].gone = parts[p].gone
          /\ Len(parts') = Len(parts) /\ left' = left
      BY <3>1, <1>1, <1>2, <1>5
    <3> QED BY ONLY <3>1, <3>2, <3>3
  <2> QED BY <2>1 DEF FileDirty
<1>11. /\ \A n : PartsOrder(parts, n) => PartsOrder(parts', n)
       /\ \A st, n : StreamOrder(parts, st, n) => StreamOrder(parts', st, n)
       /\ \A g, st : AllBelow(g, parts, st) => AllBelow(g, parts', st)
       /\ WholeParts(parts) => WholeParts(parts')
       /\ Recorded(parts') = Recorded(parts)
  BY <1>2, SameCellsKeep
<1>12. FileOrdered' BY <1>1, <1>6, <1>11 DEF FileInd, FileOrdered
<1>13. GivenOrdered' BY <1>1, <1>6, <1>11 DEF FileInd, GivenOrdered
<1>14. FileSound'
  <2>1. SUFFICES ASSUME ~damaged
        PROVE  \A j \in 1 .. Len(rbuffer') : \E i \in 1 .. Len(c) : c[i] = rbuffer'[j]
    <3>1. /\ fphase' # "write" /\ ~ended' /\ damaged' = damaged /\ refused' = refused
          /\ parts'[1].cells = c /\ Stream' = Stream
      BY <1>1, <1>5, <1>6
    <3>2. ~damaged => WholeParts(parts') /\ Whole(Stream) /\ refused = {}
      BY <1>11 DEF FileInd, FileSound
    <3> QED BY <3>1, <3>2 DEF FileSound
  <2>2. \A j \in 1 .. Len(rbuffer) : \E i \in 1 .. Len(c) : c[i] = rbuffer[j]
    BY <2>1, <1>5 DEF FileInd, FileSound
  <2>3. TAKE j \in 1 .. Len(rbuffer')
  <2>4. /\ Len(rbuffer \o x) = Len(rbuffer) + Len(x) /\ Len(rbuffer) \in Nat
        /\ Len(x) \in Nat
        /\ \A i \in 1 .. Len(rbuffer) : (rbuffer \o x)[i] = rbuffer[i]
        /\ \A i \in 1 .. Len(rbuffer) + Len(x) : i > Len(rbuffer) =>
              i - Len(rbuffer) \in 1 .. Len(x) /\ (rbuffer \o x)[i] = x[i - Len(rbuffer)]
    BY <1>4, <1>t, CellsConcat
  <2>5. CASE j \in 1 .. Len(rbuffer) BY <2>2, <2>4, <2>5, <1>1
  <2>6. CASE j > Len(rbuffer)
    <3>1. j - Len(rbuffer) \in 1 .. Len(x) /\ rbuffer'[j] = x[j - Len(rbuffer)]
      BY <2>4, <2>6, <1>1
    <3> QED BY <3>1, <1>4
  <2>7. j \in 1 .. Len(rbuffer) \/ j > Len(rbuffer) BY <2>4, <1>1
  <2> QED BY <2>5, <2>6, <2>7
<1>15. /\ Buffered' = Buffered \union EventSet(x)
       /\ OnDisk' = OnDisk
  BY <1>1, <1>4, <1>11, <1>t, EventSetConcat DEF Buffered, OnDisk
<1>16. UnlinkedWasRead'
  <2>1. UnlinkedWasRead BY DEF FileInd, FileKept
  <2> QED BY <2>1, <1>1, <1>15 DEF UnlinkedWasRead
<1>17. FileKept'
  <2>1. ASSUME NEW i \in 1 .. roffset', parts'[1].cells[i][2] = ChunkLen
        PROVE  parts'[1].cells[i][1] \in read \union Buffered'
    <3>1. CASE i \in 1 .. roffset
      BY <3>1, <2>1, <1>1, <1>5, <1>15 DEF FileInd, FileKept
    <3>2. CASE i \in roffset + 1 .. q
      BY <3>2, <2>1, <1>4, <1>5, <1>15
    <3>3. i \in 1 .. roffset \/ i \in roffset + 1 .. q BY <1>3, <1>c
    <3> QED BY <3>1, <3>2, <3>3
  <2> QED BY <2>1, <1>1, <1>16 DEF FileKept
<1> QED BY <1>8, <1>9, <1>10, <1>12, <1>13, <1>14, <1>17 DEF FileInd

(* A sequence, taken from its start, and an empty one. *)
LEMMA CellsFromStart ==
    ASSUME NEW s \in Seq(Cells)
    PROVE  /\ SubSeq(s, 0 + 1, Len(s)) = s
           /\ s \o <<>> = s /\ <<>> \o s = s
<1>1. s = [i \in 1 .. Len(s) |-> s[i]] OBVIOUS
<1>2. SubSeq(s, 0 + 1, Len(s)) = s
  <2>1. PICK t : t = SubSeq(s, 1, Len(s)) OBVIOUS
  <2>2. Len(s) \in 0 .. Len(s) OBVIOUS
  <2>3. /\ t \in Seq(Cells) /\ Len(t) = Len(s) /\ \A i \in 1 .. Len(s) : t[i] = s[i]
    BY <2>1, <2>2, ToSetCut
  <2>4. t = s BY <2>3, CellsEqual
  <2>5. 0 + 1 = 1 OBVIOUS
  <2> QED BY <2>1, <2>4, <2>5
<1> QED BY <1>2

(* A whole record starts what is whole. *)
LEMMA WholeStarts ==
    ASSUME NEW s \in Seq(Cells), Whole(s), s # <<>>
    PROVE  Starts(s) /\ s[1][2] = 1 /\ Len(s) \in Nat /\ ChunkLen <= Len(s)
<1>0. ChunkLen \in Nat \ {0} BY FileAssumption
<1>1. Len(s) \in Nat \ {0} /\ 1 \in 1 .. Len(s) OBVIOUS
<1>2. s[1] \in Nat \X (1 .. ChunkLen) BY <1>1 DEF Cells
<1>3. s[1][2] <= 1 /\ s[1][2] >= 1 /\ s[1][2] \in Nat BY <1>0, <1>1, <1>2 DEF Whole
<1>4. s[1][2] = 1 BY <1>3
<1>5. /\ 1 - 1 + ChunkLen <= Len(s)
      /\ \A i \in 1 .. ChunkLen : s[1 - 1 + i] = <<s[1][1], i>>
  BY <1>1, <1>4 DEF Whole
<1>6. \A i \in 1 .. ChunkLen : 1 - 1 + i = i BY <1>0
<1>7. ChunkLen <= Len(s) BY <1>0, <1>5
<1> QED BY <1>1, <1>4, <1>5, <1>6, <1>7 DEF Starts

(* The end of a part is met while data is waited for. *)
LEMMA EndOfPart ==
    ASSUME FileInd, Fetching, PartIsRead
    PROVE  /\ Stream = rbuffer
           /\ EventSet(parts[1].cells) \subseteq read \union Buffered
           /\ ~damaged => rbuffer = <<>>
<1>0. ChunkLen \in Nat \ {0} BY FileAssumption
<1>t. /\ FileTypes /\ FileShape /\ Stream = rbuffer \o Rest /\ rbuffer \in Seq(Cells)
      /\ Rest \in Seq(Cells)
      /\ parts # <<>> => /\ Len(Rest) = Len(parts[1].cells) - roffset
                         /\ parts[1].cells \in Seq(Cells)
  BY StreamTypes DEF FileInd, FileTypes
<1>1. /\ fphase = "read" /\ Len(rbuffer) < Wanted /\ roffset = Len(parts[1].cells)
      /\ parts # <<>>
  BY <1>t DEF Fetching, PartIsRead, FileShape
<1>2. Stream = rbuffer
  <2>1. Len(Rest) = 0 BY <1>1, <1>t
  <2>2. Rest = <<>> BY <2>1, <1>t
  <2> QED BY <2>2, <1>t, CellsFromStart
<1>3. EventSet(parts[1].cells) \subseteq read \union Buffered
  <2>1. ASSUME NEW e \in EventSet(parts[1].cells) PROVE e \in read \union Buffered
    <3>1. PICK i \in 1 .. Len(parts[1].cells) :
             parts[1].cells[i][2] = ChunkLen /\ e = parts[1].cells[i][1]
      BY <1>1, <1>t, EventSetMember
    <3> QED BY <3>1, <1>1 DEF FileInd, FileKept
  <2> QED BY <2>1
<1>4. ASSUME ~damaged, rbuffer # <<>> PROVE FALSE
  <2>1. Whole(rbuffer) BY <1>2, <1>4 DEF FileInd, FileSound
  <2>2. /\ rbuffer[1][2] = 1 /\ Len(rbuffer) \in Nat /\ ChunkLen <= Len(rbuffer)
    BY <2>1, <1>4, <1>t, WholeStarts
  <2>3. Head(rbuffer) = rbuffer[1] BY <1>4, <1>t
  <2>4. Claim(Head(rbuffer)) = ChunkLen BY <2>2, <2>3 DEF Claim
  <2>5. Wanted = ChunkLen BY <2>4, <1>0, <1>4 DEF Wanted
  <2> QED BY <2>2, <2>5, <1>0, <1>1
<1> QED BY <1>2, <1>3, <1>4

(* The next part is opened. *)
LEMMA NextFileKeeps ==
    ASSUME FileInd, Fetching, NextFile
    PROVE  FileInd'
<1>0. ChunkLen \in Nat \ {0} BY FileAssumption
<1>e. /\ Stream = rbuffer
      /\ EventSet(parts[1].cells) \subseteq read \union Buffered
      /\ ~damaged => rbuffer = <<>>
  BY EndOfPart DEF NextFile
<1>t. FileTypes /\ FileShape /\ FileDirty /\ rbuffer \in Seq(Cells) BY DEF FileInd, FileTypes
<1>1. /\ fphase = "read" /\ ~ended /\ Len(parts) > 1
      /\ parts' = Tail(parts) /\ rfile' = OpenMode(Tail(parts)) /\ roffset' = 0
      /\ UNCHANGED <<fphase, rbuffer, ended, left, full, garbage, wnext, given,
                     read, dropped, refused, damaged, openings, fileFaults>>
  BY DEF Fetching, NextFile
<1>p. parts \in Seq(FileParts) /\ parts # <<>> /\ Len(parts) \in Nat
  BY <1>1, <1>t DEF FileTypes, FileShape
<1>2. PICK qs : qs = Tail(parts) OBVIOUS
<1>3. /\ qs \in Seq(FileParts) /\ Len(qs) = Len(parts) - 1 /\ qs # <<>>
      /\ \A p \in 1 .. Len(qs) : qs[p] = parts[p + 1]
  <2>1. qs \in Seq(FileParts) /\ Len(qs) = Len(parts) - 1 BY ONLY <1>2, <1>p
  <2>2. Len(qs) > 0 BY <2>1, <1>1, <1>p
  <2>3. qs # <<>> BY <2>2
  <2>4. \A p \in 1 .. Len(parts) - 1 : Tail(parts)[p] = parts[p + 1] BY ONLY <1>p
  <2> QED BY ONLY <2>1, <2>3, <2>4, <1>2
<1>4. /\ \A p \in 1 .. Len(qs) : p + 1 \in 1 .. Len(parts) /\ p + 1 \in 2 .. Len(parts)
      /\ Len(qs) + 1 = Len(parts) /\ Len(qs) \in Nat \ {0} /\ 1 \in 1 .. Len(qs)
      /\ 2 \in 2 .. Len(parts) /\ 2 \in 1 .. Len(parts)
  BY <1>1, <1>3, <1>p
<1>5. qs[1] = parts[2] /\ qs[Len(qs)] = parts[Len(parts)]
  <2>1. 1 + 1 = 2 OBVIOUS
  <2>2. Len(qs) \in 1 .. Len(qs) BY <1>4
  <2> QED BY <2>1, <2>2, <1>3, <1>4
<1>6. \A p \in 1 .. Len(parts) : parts[p].cells \in Seq(Cells) BY <1>p, PartFields
<1>7. Shrunk(qs, parts, 1)
  <2>1. ASSUME NEW p \in 1 .. Len(qs)
        PROVE  /\ 1 + p \in 1 .. Len(parts)
               /\ Slice(qs[p].cells, parts[1 + p].cells, 0)
    <3>1. p + 1 = 1 + p /\ p + 1 \in 1 .. Len(parts) BY <1>4
    <3> QED BY <3>1, <1>3, <1>6, SliceSelf
  <2> QED BY <2>1, <1>3, <1>p DEF Shrunk
<1>8. PartsOrder(parts, wnext) /\ StreamOrder(parts, rbuffer, wnext)
  BY <1>e DEF FileInd, FileOrdered
<1>9. PartsOrder(qs, wnext) BY <1>7, <1>8, ShrunkParts
<1>10. PICK st : st = rbuffer \o parts[2].cells OBVIOUS
<1>11. Stream' = st
  <2>1. Rest' = parts[2].cells
    <3>1. Rest' = SubSeq(parts[2].cells, 0 + 1, Len(parts[2].cells))
      BY <1>1, <1>2, <1>3, <1>5 DEF Rest
    <3> QED BY <3>1, <1>4, <1>6, CellsFromStart
  <2> QED BY <2>1, <1>1, <1>10 DEF Stream
<1>12. /\ Sorted(rbuffer) /\ Behind(rbuffer, wnext) /\ Complete(rbuffer)
       /\ \A p \in 2 .. Len(parts) : Before(rbuffer, parts[p].cells)
  BY <1>8 DEF StreamOrder
<1>13. /\ Sorted(parts[2].cells) /\ Behind(parts[2].cells, wnext) /\ Complete(parts[2].cells)
       /\ \A p \in 1 .. Len(parts) : 2 < p => Before(parts[2].cells, parts[p].cells)
  BY <1>4, <1>8 DEF PartsOrder
<1>14. StreamOrder(qs, st, wnext)
  <2>1. parts[2].cells \in Seq(Cells) BY <1>4, <1>6
  <2>2. Sorted(st) BY <2>1, <1>4, <1>10, <1>12, <1>13, <1>t, SortedConcat
  <2>3. Behind(st, wnext) BY <2>1, <1>10, <1>12, <1>13, <1>t, BoundsConcat
  <2>4. Complete(st) BY <2>1, <1>10, <1>12, <1>13, <1>t, CompleteConcat
  <2>5. ASSUME NEW p \in 2 .. Len(qs) PROVE Before(st, qs[p].cells)
    <3>1. /\ p \in 1 .. Len(qs) /\ p + 1 \in 2 .. Len(parts) /\ p + 1 \in 1 .. Len(parts)
          /\ 2 < p + 1
      BY <1>4
    <3>2. parts[p + 1].cells \in Seq(Cells) /\ qs[p] = parts[p + 1] BY <3>1, <1>3, <1>6
    <3>3. Before(rbuffer, parts[p + 1].cells) /\ Before(parts[2].cells, parts[p + 1].cells)
      BY <3>1, <1>12, <1>13
    <3>4. Before(rbuffer \o parts[2].cells, parts[p + 1].cells)
      BY <2>1, <3>2, <3>3, <1>t, BoundsConcat
    <3> QED BY <3>2, <3>4, <1>10
  <2> QED BY <2>2, <2>3, <2>4, <2>5 DEF StreamOrder
<1>15. FileTypes'
  <2>1. rfile' \in {"null", "shared", "own"} BY <1>1 DEF OpenMode
  <2> QED BY <2>1, <1>1, <1>2, <1>3, <1>t DEF FileTypes
<1>16. FileShape'
  <2>1. ~qs[Len(qs)].gone BY <1>5, <1>p, <1>t DEF FileShape
  <2>2. /\ rfile' = "shared" => Len(qs) = 1
        /\ rfile' # "null" => ~qs[1].gone
    BY <2>1, <1>1, <1>2 DEF OpenMode
  <2>3. 0 <= Len(qs[1].cells)
    <3>1. Len(qs[1].cells) \in Nat BY <1>3, <1>4, PartFields
    <3> QED BY <3>1
  <2> QED BY <2>1, <2>2, <2>3, <1>1, <1>2, <1>3, <1>t DEF FileShape
<1>17. FileDirty'
  <2>1. ASSUME NEW p \in 1 .. Len(qs)
        PROVE  /\ qs[p].dirty <= Len(qs[p].cells) /\ qs[p].dirty <= ChunkLen
               /\ qs[p].gone => qs[p].cells = <<>>
               /\ p # 1 /\ p # Len(qs) => qs[p].dirty = 0
               /\ p = Len(qs) => qs[p].dirty + left <= ChunkLen
    <3>1. PICK r \in 1 .. Len(parts) :
             /\ r = p + 1 /\ qs[p] = parts[r] /\ r # 1
             /\ (p # Len(qs) => r # Len(parts)) /\ (p = Len(qs) => r = Len(parts))
      BY <1>3, <1>4
    <3>2. /\ parts[r].dirty <= Len(parts[r].cells) /\ parts[r].dirty <= ChunkLen
          /\ parts[r].gone => parts[r].cells = <<>>
          /\ r # 1 /\ r # Len(parts) => parts[r].dirty = 0
          /\ r = Len(parts) => parts[r].dirty + left <= ChunkLen
      BY <1>t DEF FileDirty
    <3> QED BY ONLY <3>1, <3>2
  <2> QED BY <2>1, <1>1, <1>2 DEF FileDirty
<1>18. FileOrdered' BY <1>1, <1>2, <1>9, <1>11, <1>14 DEF FileOrdered
<1>19. GivenOrdered'
  <2>1. /\ \A i, j \in 1 .. Len(given) : i < j => given[i] < given[j]
        /\ \A i \in 1 .. Len(given) : given[i] < wnext
        /\ AllBelow(given, parts, rbuffer) /\ given \in Seq(Nat)
    BY <1>1, <1>e, <1>t DEF FileInd, GivenOrdered, FileTypes
  <2>2. Beneath(given, rbuffer) /\ \A p \in 2 .. Len(parts) : Beneath(given, parts[p].cells)
    BY <2>1 DEF AllBelow
  <2>3. Beneath(given, st)
    <3>1. parts[2].cells \in Seq(Cells) /\ Beneath(given, parts[2].cells) BY <2>2, <1>4, <1>6
    <3> QED BY <3>1, <2>1, <2>2, <1>10, <1>t, BoundsConcat
  <2>4. \A p \in 2 .. Len(qs) : Beneath(given, qs[p].cells)
    <3>1. \A p \in 2 .. Len(qs) : p \in 1 .. Len(qs) BY <1>4
    <3> QED BY <3>1, <2>2, <1>3, <1>4
  <2>5. AllBelow(given, qs, st) BY <2>3, <2>4 DEF AllBelow
  <2> QED BY <2>1, <2>5, <1>1, <1>2, <1>11 DEF GivenOrdered
<1>20. FileSound'
  <2>1. ASSUME ~damaged PROVE WholeParts(qs) /\ Whole(st) /\ rbuffer = <<>> /\ refused = {}
    <3>1. WholeParts(parts) /\ refused = {} BY <2>1 DEF FileInd, FileSound
    <3>2. WholeParts(qs) BY <3>1, <1>3, <1>4 DEF WholeParts
    <3>3. Whole(parts[2].cells) BY <3>1, <1>4 DEF WholeParts
    <3>4. st = parts[2].cells
      <4>1. parts[2].cells \in Seq(Cells) BY <1>4, <1>6
      <4> QED BY <4>1, <2>1, <1>e, <1>10, CellsFromStart
    <3> QED BY <3>1, <3>2, <3>3, <3>4, <2>1, <1>e
  <2>2. fphase' = "read" /\ ~ended' /\ damaged' = damaged BY <1>1
  <2>3. rbuffer' = rbuffer /\ parts' = qs /\ refused' = refused BY <1>1, <1>2
  <2>4. ~damaged => \A j \in 1 .. Len(rbuffer) : FALSE
    <3>1. Len(<<>>) = 0 OBVIOUS
    <3> QED BY <3>1, <1>e
  <2> QED BY <2>1, <2>2, <2>3, <2>4, <1>11 DEF FileSound
<1>21. OnDisk \subseteq OnDisk' \union read \union Buffered /\ Buffered' = Buffered
  <2>1. ASSUME NEW e \in Recorded(parts) PROVE e \in Recorded(qs) \union read \union Buffered
    <3>1. PICK p \in 1 .. Len(parts) : e \in EventSet(parts[p].cells)
      BY <1>p, RecordedMember
    <3>2. CASE p = 1 BY <3>1, <3>2, <1>e
    <3>3. CASE p # 1
      <4>1. p - 1 \in 1 .. Len(qs) /\ (p - 1) + 1 = p BY <3>3, <1>4, <1>p
      <4>2. e \in EventSet(qs[p - 1].cells) BY <3>1, <4>1, <1>3
      <4> QED BY <4>1, <4>2, <1>3, RecordedMember
    <3> QED BY <3>2, <3>3
  <2> QED BY <2>1, <1>1, <1>2 DEF OnDisk, Buffered
<1>22. UnlinkedWasRead'
  <2>1. ~damaged => Buffered = {}
    <3>1. EventSet(<<>>) = {} BY DEF EventSet
    <3> QED BY <3>1, <1>e DEF Buffered
  <2>2. UnlinkedWasRead BY DEF FileInd, FileKept
  <2> QED BY <2>1, <2>2, <1>1, <1>21 DEF UnlinkedWasRead
<1>23. FileKept'
  <2>1. \A i \in 1 .. 0 : FALSE OBVIOUS
  <2> QED BY <2>1, <1>1, <1>22 DEF FileKept
<1> QED BY <1>15, <1>16, <1>17, <1>18, <1>19, <1>20, <1>23 DEF FileInd

(* The last part has ended. *)
LEMMA LastEndKeeps ==
    ASSUME FileInd, Fetching, LastEnd
    PROVE  FileInd'
<1>0. ChunkLen \in Nat \ {0} BY FileAssumption
<1>e. /\ Stream = rbuffer
      /\ EventSet(parts[1].cells) \subseteq read \union Buffered
      /\ ~damaged => rbuffer = <<>>
  BY EndOfPart DEF LastEnd
<1>t. FileTypes /\ FileShape /\ FileDirty /\ rbuffer \in Seq(Cells) BY DEF FileInd, FileTypes
<1> DEFINE new == Part(<<>>, 0)
<1>1. /\ fphase = "read" /\ ~ended /\ Len(parts) = 1 /\ rfile # "null"
      /\ parts' = <<new>> /\ ended' = TRUE /\ roffset' = 0
      /\ UNCHANGED <<fphase, rfile, rbuffer, left, full, garbage, wnext, given,
                     read, dropped, refused, damaged, openings, fileFaults>>
  BY DEF Fetching, LastEnd, PartIsRead
<1>p. parts \in Seq(FileParts) /\ parts # <<>>
  BY <1>1, <1>t DEF FileTypes, FileShape
<1>n. new \in FileParts /\ new.cells = <<>> /\ new.dirty = 0 /\ ~new.gone
  BY DEF Part, FileParts
<1> HIDE DEF new
<1>2. PICK qs : qs = <<new>> OBVIOUS
<1>3. /\ qs \in Seq(FileParts) /\ Len(qs) = 1 /\ qs # <<>> /\ qs[1] = new
      /\ (\A p \in 1 .. Len(qs) : p = 1) /\ \A p \in 2 .. Len(qs) : FALSE
  BY <1>2, <1>n
<1>4. Stream' = rbuffer
  <2>1. Rest' = <<>>
    <3>1. Rest' = SubSeq(<<>>, 0 + 1, Len(<<>>)) BY <1>1, <1>2, <1>3, <1>n DEF Rest
    <3>2. <<>> \in Seq(Cells) OBVIOUS
    <3> QED BY <3>1, <3>2, CellsFromStart
  <2> QED BY <2>1, <1>1, <1>t, CellsFromStart DEF Stream
<1>5. StreamOrder(parts, rbuffer, wnext)
  BY <1>e DEF FileInd, FileOrdered
<1>6. FileTypes' BY <1>1, <1>2, <1>3, <1>t DEF FileTypes
<1>7. FileShape'
  <2>1. Len(<<>>) = 0 OBVIOUS
  <2> QED BY <2>1, <1>1, <1>2, <1>3, <1>n, <1>t DEF FileShape
<1>8. FileDirty'
  <2>1. ASSUME NEW p \in 1 .. Len(qs)
        PROVE  /\ qs[p].dirty <= Len(qs[p].cells) /\ qs[p].dirty <= ChunkLen
               /\ qs[p].gone => qs[p].cells = <<>>
               /\ p # 1 /\ p # Len(qs) => qs[p].dirty = 0
               /\ p = Len(qs) => qs[p].dirty + left <= ChunkLen
    <3>1. qs[p] = new BY <1>3
    <3>2. Len(<<>>) = 0 /\ 0 <= ChunkLen BY <1>0
    <3>3. left \in Nat /\ 0 + left <= ChunkLen BY <1>0, <1>t DEF FileTypes
    <3> QED BY <3>1, <3>2, <3>3, <1>n
  <2> QED BY <2>1, <1>1, <1>2 DEF FileDirty
<1>9. FileOrdered'
  <2>1. PartsOrder(qs, wnext)
    <3>1. /\ Sorted(<<>>) /\ Behind(<<>>, wnext) /\ Complete(<<>>)
      BY DEF Sorted, Behind, Complete
    <3>2. \A p, q \in 1 .. Len(qs) : ~(p < q) BY <1>3
    <3>3. \A p \in 1 .. Len(qs) : qs[p].cells = <<>> BY <1>3, <1>n
    <3> QED BY <3>1, <3>2, <3>3 DEF PartsOrder
  <2>2. StreamOrder(qs, rbuffer, wnext) BY <1>3, <1>5 DEF StreamOrder
  <2> QED BY <2>1, <2>2, <1>1, <1>2, <1>4 DEF FileOrdered
<1>10. GivenOrdered'
  <2>1. /\ \A i, j \in 1 .. Len(given) : i < j => given[i] < given[j]
        /\ \A i \in 1 .. Len(given) : given[i] < wnext
        /\ AllBelow(given, parts, rbuffer)
    BY <1>1, <1>e DEF FileInd, GivenOrdered
  <2>2. AllBelow(given, qs, rbuffer) BY <2>1, <1>3 DEF AllBelow
  <2> QED BY <2>1, <2>2, <1>1, <1>2, <1>4 DEF GivenOrdered
<1>11. FileSound'
  <2>1. ASSUME ~damaged PROVE WholeParts(qs) /\ Whole(rbuffer) /\ rbuffer = <<>> /\ refused = {}
    <3>1. Whole(<<>>) BY DEF Whole
    <3>2. refused = {} BY <2>1 DEF FileInd, FileSound
    <3>3. WholeParts(qs) BY <3>1, <1>3, <1>n DEF WholeParts
    <3> QED BY <3>1, <3>2, <3>3, <2>1, <1>e
  <2>2. fphase' = "read" /\ damaged' = damaged BY <1>1
  <2>3. rbuffer' = rbuffer /\ parts' = qs /\ refused' = refused BY <1>1, <1>2
  <2>4. ~damaged => \A j \in 1 .. Len(rbuffer) : FALSE
    <3>1. Len(<<>>) = 0 OBVIOUS
    <3> QED BY <3>1, <1>e
  <2> QED BY <2>1, <2>2, <2>3, <2>4, <1>4 DEF FileSound
<1>12. OnDisk \subseteq read \union Buffered /\ Buffered' = Buffered
  <2>1. ASSUME NEW e \in Recorded(parts) PROVE e \in read \union Buffered
    <3>1. PICK p \in 1 .. Len(parts) : e \in EventSet(parts[p].cells)
      BY <1>p, RecordedMember
    <3>2. p = 1 BY <1>1
    <3> QED BY <3>1, <3>2, <1>e
  <2> QED BY <2>1, <1>1 DEF OnDisk, Buffered
<1>13. UnlinkedWasRead'
  <2>1. ~damaged => Buffered = {}
    <3>1. EventSet(<<>>) = {} BY DEF EventSet
    <3> QED BY <3>1, <1>e DEF Buffered
  <2>2. UnlinkedWasRead BY DEF FileInd, FileKept
  <2> QED BY <2>1, <2>2, <1>1, <1>12 DEF UnlinkedWasRead
<1>14. FileKept'
  <2>1. \A i \in 1 .. 0 : FALSE OBVIOUS
  <2> QED BY <2>1, <1>1, <1>13 DEF FileKept
<1> QED BY <1>6, <1>7, <1>8, <1>9, <1>10, <1>11, <1>14 DEF FileInd


(* A whole record in the buffer, by its cells. *)
LEMMA WholeRecordStarts ==
    ASSUME rbuffer \in Seq(Cells), rbuffer # <<>>
    PROVE  WholeRecord <=> Starts(rbuffer)
<1>0. ChunkLen \in Nat \ {0} BY FileAssumption
<1>1. PICK s \in Seq(Cells) : s = rbuffer /\ s # <<>> OBVIOUS
<1>2. Len(s) \in Nat \ {0} /\ Head(s) = s[1] /\ 1 \in 1 .. Len(s) BY <1>1
<1>3. PICK e : e = s[1][1] OBVIOUS
<1>4. e \in Nat BY <1>2, <1>3 DEF Cells
<1>5. /\ Len(Chunk(e)) = ChunkLen /\ Chunk(e) \in Seq(Cells)
      /\ \A i \in 1 .. ChunkLen : Chunk(e)[i] = <<e, i>>
  <2>1. \A i \in 1 .. ChunkLen : <<e, i>> \in Cells BY <1>4 DEF Cells
  <2> QED BY <2>1, <1>0 DEF Chunk
<1>6. WholeRecord <=> s[1][2] = 1 /\ IsPrefix(Chunk(e), s)
  BY <1>1, <1>2, <1>3 DEF WholeRecord
<1>7. PICK c \in Seq(Cells) : c = Chunk(e) BY <1>5
<1>8. IsPrefix(c, s) <=> ChunkLen <= Len(s) /\ SubSeq(c, 1, ChunkLen) = SubSeq(s, 1, ChunkLen)
  BY <1>5, <1>7 DEF IsPrefix
<1>9. ASSUME ChunkLen <= Len(s)
      PROVE  SubSeq(c, 1, ChunkLen) = SubSeq(s, 1, ChunkLen)
                <=> \A i \in 1 .. ChunkLen : s[i] = <<e, i>>
  <2>1. PICK a : a = SubSeq(c, 1, ChunkLen) OBVIOUS
  <2>2. PICK b : b = SubSeq(s, 1, ChunkLen) OBVIOUS
  <2>3. ChunkLen \in 0 .. Len(c) /\ ChunkLen \in 0 .. Len(s) BY <1>0, <1>2, <1>5, <1>7, <1>9
  <2>4. /\ a \in Seq(Cells) /\ Len(a) = ChunkLen /\ \A i \in 1 .. ChunkLen : a[i] = c[i]
    BY <2>1, <2>3, ToSetCut
  <2>5. /\ b \in Seq(Cells) /\ Len(b) = ChunkLen /\ \A i \in 1 .. ChunkLen : b[i] = s[i]
    BY <2>2, <2>3, ToSetCut
  <2>6. ASSUME a = b PROVE \A i \in 1 .. ChunkLen : s[i] = <<e, i>>
    BY <2>4, <2>5, <2>6, <1>5, <1>7
  <2>7. ASSUME \A i \in 1 .. ChunkLen : s[i] = <<e, i>> PROVE a = b
    <3>1. \A i \in 1 .. Len(a) : a[i] = b[i] BY <2>4, <2>5, <2>7, <1>5, <1>7
    <3> QED BY <3>1, <2>4, <2>5, CellsEqual
  <2> QED BY ONLY <2>1, <2>2, <2>6, <2>7
<1>10. (\A i \in 1 .. ChunkLen : s[i] = <<e, i>>) => s[1][2] = 1
  <2>1. 1 \in 1 .. ChunkLen BY <1>0
  <2> QED BY <2>1
<1>11. Starts(s) <=> ChunkLen <= Len(s) /\ \A i \in 1 .. ChunkLen : s[i] = <<e, i>>
  BY <1>3 DEF Starts
<1> QED BY ONLY <1>1, <1>6, <1>7, <1>8, <1>9, <1>10, <1>11

(* A read that has data finds a record in the buffer when the stream       *)
(* starts with one.                                                        *)
LEMMA RecordAtStart ==
    ASSUME FileInd, Fetched
    PROVE  /\ WholeRecord <=> Starts(Stream)
           /\ WholeRecord => Starts(rbuffer)
           /\ ~damaged => WholeRecord /\ ~ended
           /\ rbuffer \in Seq(Cells) /\ rbuffer # <<>> /\ Len(rbuffer) \in Nat \ {0}
           /\ Stream[1] = rbuffer[1] /\ Len(Stream) \in Nat \ {0}
<1>0. ChunkLen \in Nat \ {0} BY FileAssumption
<1>t. /\ FileTypes /\ FileShape /\ Stream = rbuffer \o Rest /\ rbuffer \in Seq(Cells)
      /\ Rest \in Seq(Cells) /\ Stream \in Seq(Cells)
      /\ parts # <<>> => Len(Rest) = Len(parts[1].cells) - roffset
  BY StreamTypes DEF FileInd, FileTypes
<1>1. fphase = "read" /\ rbuffer # <<>> /\ (Len(rbuffer) >= Wanted \/ ended)
  BY DEF Fetched
<1>2. PICK s \in Seq(Cells) : s = rbuffer /\ s # <<>> BY <1>1, <1>t
<1>3. PICK u \in Seq(Cells) : u = Stream BY <1>t
<1>4. /\ Len(s) \in Nat \ {0} /\ Len(u) = Len(s) + Len(Rest) /\ Len(Rest) \in Nat
      /\ \A i \in 1 .. Len(s) : u[i] = s[i]
  <2>1. Len(s) \in Nat \ {0} BY <1>2
  <2> QED BY <2>1, <1>2, <1>3, <1>t, CellsConcat
<1>5. u[1] = s[1] /\ Len(u) \in Nat \ {0} BY <1>4
<1>6. WholeRecord <=> Starts(s) BY <1>2, WholeRecordStarts
<1>7. ASSUME Starts(s) PROVE Starts(u)
  <2>1. ChunkLen <= Len(s) /\ \A i \in 1 .. ChunkLen : s[i] = <<s[1][1], i>>
    BY <1>7 DEF Starts
  <2>2. ChunkLen <= Len(u) BY <2>1, <1>0, <1>4
  <2>3. \A i \in 1 .. ChunkLen : i \in 1 .. Len(s) BY <2>1, <1>0, <1>4
  <2>4. \A i \in 1 .. ChunkLen : u[i] = <<u[1][1], i>> BY <2>1, <2>3, <1>4, <1>5
  <2> QED BY <2>2, <2>4 DEF Starts
<1>8. ASSUME ended PROVE u = s
  <2>1. parts # <<>> /\ parts[1].cells = <<>> /\ roffset \in Nat /\ roffset <= Len(parts[1].cells)
    BY <1>1, <1>8, <1>t DEF FileShape, FileTypes
  <2>2. Len(<<>>) = 0 OBVIOUS
  <2>3. Len(Rest) = 0 BY <2>1, <2>2, <1>t
  <2>4. Rest = <<>> BY <2>3, <1>t
  <2> QED BY <2>4, <1>2, <1>3, <1>t, CellsFromStart
<1>9. ASSUME Starts(u) PROVE Starts(s)
  <2>1. CASE ended BY <2>1, <1>8, <1>9
  <2>2. CASE Len(s) >= Wanted
    <3>1. ChunkLen <= Len(u) /\ \A i \in 1 .. ChunkLen : u[i] = <<u[1][1], i>>
      BY <1>9 DEF Starts
    <3>2. 1 \in 1 .. ChunkLen BY <1>0
    <3>3. s[1][2] = 1 /\ Head(s) = s[1]
      <4>1. u[1] = <<u[1][1], 1>> BY <3>1, <3>2
      <4>2. s[1][2] = 1 BY <4>1, <1>5
      <4>3. Head(s) = s[1] BY <1>2, <1>4
      <4> QED BY <4>2, <4>3
    <3>4. Wanted = ChunkLen
      <4>1. Claim(Head(rbuffer)) = ChunkLen BY <3>3, <1>2 DEF Claim
      <4> QED BY <4>1, <1>0, <1>2 DEF Wanted
    <3>5. \A i \in 1 .. ChunkLen : i \in 1 .. Len(s) BY <2>2, <3>4, <1>0, <1>4
    <3>6. \A i \in 1 .. ChunkLen : s[i] = <<s[1][1], i>> BY <3>1, <3>5, <1>4, <1>5
    <3>7. ChunkLen <= Len(s) BY <2>2, <3>4, <1>0, <1>4
    <3> QED BY <3>6, <3>7 DEF Starts
  <2> QED BY <2>1, <2>2, <1>1, <1>2
<1>10. ASSUME ~damaged PROVE Starts(u) /\ ~ended
  <2>1. Whole(u) /\ (ended => rbuffer = <<>>) BY <1>3, <1>10 DEF FileInd, FileSound
  <2>2. u # <<>> BY <1>5
  <2> QED BY <2>1, <2>2, <1>1, WholeStarts
<1>11. rbuffer \in Seq(Cells) /\ rbuffer # <<>> /\ Len(rbuffer) \in Nat \ {0}
  BY <1>2, <1>4
<1>12. Stream[1] = rbuffer[1] /\ Len(Stream) \in Nat \ {0} BY <1>2, <1>3, <1>5
<1> QED BY ONLY <1>2, <1>3, <1>6, <1>7, <1>9, <1>10, <1>11, <1>12

(* The buffer is cut at its start: what this means for the stream. *)
LEMMA BufferCut ==
    ASSUME FileInd, fphase # "closed", NEW k \in 0 .. Len(rbuffer),
           rbuffer' = SubSeq(rbuffer, k + 1, Len(rbuffer)),
           UNCHANGED <<parts, roffset>>
    PROVE  /\ rbuffer' \in Seq(Cells) /\ Stream \in Seq(Cells)
           /\ Slice(rbuffer', rbuffer, k) /\ Len(rbuffer') = Len(rbuffer) - k
           /\ Slice(Stream', Stream, k) /\ Len(Stream') = Len(Stream) - k
           /\ \A i \in 1 .. Len(rbuffer) : Stream[i] = rbuffer[i] /\ i \in 1 .. Len(Stream)
<1>t. /\ Stream = rbuffer \o Rest /\ rbuffer \in Seq(Cells)
      /\ Rest \in Seq(Cells) /\ Stream \in Seq(Cells)
  BY StreamTypes DEF FileInd, FileTypes
<1>1. /\ Slice(rbuffer', rbuffer, k) /\ Len(rbuffer') = Len(rbuffer) - k
      /\ rbuffer' \in Seq(Cells)
  BY <1>t, CutSlices DEF Slice
<1>2. /\ Len(Stream) = Len(rbuffer) + Len(Rest) /\ Len(rbuffer) \in Nat /\ Len(Rest) \in Nat
      /\ \A i \in 1 .. Len(rbuffer) : Stream[i] = rbuffer[i]
  BY <1>t, CellsConcat
<1>3. \A i \in 1 .. Len(rbuffer) : i \in 1 .. Len(Stream) BY <1>2
<1>4. Rest' = Rest BY DEF Rest
<1>5. Stream' = SubSeq(rbuffer, k + 1, Len(rbuffer)) \o Rest BY <1>4 DEF Stream
<1>6. PICK u : u = Stream' OBVIOUS
<1>7. u = SubSeq(Stream, k + 1, Len(Stream))
  BY <1>5, <1>6, <1>t, SuffixOfConcat
<1>8. k \in 0 .. Len(Stream) BY <1>2
<1>9. Slice(u, Stream, k) /\ Len(u) = Len(Stream) - k
  BY <1>7, <1>8, <1>t, CutSlices
<1> QED BY <1>1, <1>2, <1>3, <1>6, <1>9, <1>t


(* A record is given out. *)
LEMMA DeliverKeeps ==
    ASSUME FileInd, Deliver
    PROVE  FileInd'
<1>0. ChunkLen \in Nat \ {0} /\ FileEvents \in Nat BY FileAssumption
<1>1. /\ Fetched /\ WholeRecord /\ fphase = "read"
      /\ given' = Append(given, Head(rbuffer)[1])
      /\ read' = read \union {Head(rbuffer)[1]}
      /\ rbuffer' = SubSeq(rbuffer, ChunkLen + 1, Len(rbuffer))
      /\ fphase' = "idle"
      /\ UNCHANGED <<parts, rfile, roffset, ended, left, full, garbage, wnext,
                     dropped, refused, damaged, openings, fileFaults>>
  BY DEF Deliver, Fetched
<1>t. FileTypes /\ FileShape /\ FileDirty BY DEF FileInd
<1>2. /\ Starts(Stream) /\ Starts(rbuffer) /\ (~damaged => ~ended)
      /\ rbuffer \in Seq(Cells) /\ rbuffer # <<>> /\ Len(rbuffer) \in Nat \ {0}
      /\ Stream[1] = rbuffer[1]
  BY <1>1, RecordAtStart
<1>3. ChunkLen \in 0 .. Len(rbuffer) BY <1>0, <1>2 DEF Starts
<1>4. /\ rbuffer' \in Seq(Cells) /\ Stream \in Seq(Cells)
      /\ Slice(rbuffer', rbuffer, ChunkLen) /\ Len(rbuffer') = Len(rbuffer) - ChunkLen
      /\ Slice(Stream', Stream, ChunkLen) /\ Len(Stream') = Len(Stream) - ChunkLen
      /\ \A i \in 1 .. Len(rbuffer) : Stream[i] = rbuffer[i] /\ i \in 1 .. Len(Stream)
  BY <1>1, <1>3, BufferCut
<1>5. PICK e : e = rbuffer[1][1] OBVIOUS
<1>6. Head(rbuffer)[1] = e /\ e \in Nat
  <2>1. Head(rbuffer) = rbuffer[1] /\ rbuffer[1] \in Cells BY <1>2
  <2> QED BY <2>1, <1>5 DEF Cells
<1>7. PICK u : u = Stream' OBVIOUS
<1>8. PICK g : g = given' OBVIOUS
<1>9. PICK rb : rb = rbuffer' OBVIOUS
<1>10. \A i \in 1 .. ChunkLen : /\ i \in 1 .. Len(Stream) /\ Stream[i] = <<e, i>>
                                /\ i \in 1 .. Len(rbuffer) /\ rbuffer[i] = <<e, i>>
  <2>1. \A i \in 1 .. ChunkLen : rbuffer[i] = <<e, i>> BY <1>2, <1>5 DEF Starts
  <2>2. \A i \in 1 .. ChunkLen : i \in 1 .. Len(rbuffer) BY <1>0, <1>2, <1>3
  <2> QED BY <2>1, <2>2, <1>4
<1>11. /\ ChunkLen \in 1 .. ChunkLen /\ ChunkLen \in 1 .. Len(Stream)
       /\ Stream[ChunkLen] = <<e, ChunkLen>>
       /\ Stream[ChunkLen][1] = e /\ Stream[ChunkLen][2] = ChunkLen
  <2>1. ChunkLen \in 1 .. ChunkLen BY <1>0
  <2>2. Stream[ChunkLen] = <<e, ChunkLen>> /\ ChunkLen \in 1 .. Len(Stream) BY <2>1, <1>10
  <2> QED BY <2>1, <2>2
<1>12. /\ Sorted(Stream) /\ Behind(Stream, wnext) /\ Complete(Stream)
       /\ \A p \in 2 .. Len(parts) : Before(Stream, parts[p].cells)
  BY DEF FileInd, FileOrdered, StreamOrder
<1>13. e < wnext BY <1>11, <1>12 DEF Behind
<1>14. u \in Seq(Cells) /\ Slice(u, Stream, ChunkLen) /\ Len(u) = Len(Stream) - ChunkLen
  BY <1>4, <1>7 DEF Slice
<1>15. StreamOrder(parts, u, wnext)
  <2>1. Sorted(u) /\ Behind(u, wnext) BY <1>4, <1>12, <1>14, SliceFacts
  <2>2. Complete(u) BY <1>2, <1>4, <1>12, <1>14, BehindRecord
  <2>3. \A p \in 2 .. Len(parts) : Before(u, parts[p].cells)
    BY <1>4, <1>12, <1>14, SliceFacts
  <2> QED BY <2>1, <2>2, <2>3 DEF StreamOrder
<1>16. /\ \A i, j \in 1 .. Len(given) : i < j => given[i] < given[j]
       /\ \A i \in 1 .. Len(given) : given[i] < wnext
       /\ Beneath(given, Stream) /\ \A p \in 2 .. Len(parts) : Beneath(given, parts[p].cells)
       /\ given \in Seq(Nat) /\ Len(given) \in Nat
  <2>1. /\ \A i, j \in 1 .. Len(given) : i < j => given[i] < given[j]
        /\ \A i \in 1 .. Len(given) : given[i] < wnext
        /\ AllBelow(given, parts, Stream)
    BY <1>1 DEF FileInd, GivenOrdered
  <2>2. given \in Seq(Nat) /\ Len(given) \in Nat BY <1>t DEF FileTypes
  <2> QED BY <2>1, <2>2 DEF AllBelow
<1>17. /\ g \in Seq(Nat) /\ Len(g) = Len(given) + 1 /\ g[Len(given) + 1] = e
       /\ \A i \in 1 .. Len(given) : g[i] = given[i]
  BY <1>1, <1>6, <1>8, <1>16
<1>18. \A i \in 1 .. Len(given) : given[i] < e
  BY <1>11, <1>16 DEF Beneath
<1>c. \A i \in 1 .. Len(g) : i \in 1 .. Len(given) \/ i = Len(given) + 1
  BY <1>16, <1>17
<1>19. GivenOrdered'
  <2>1. ASSUME NEW i \in 1 .. Len(g), NEW j \in 1 .. Len(g), i < j
        PROVE  g[i] < g[j]
    <3>1. i \in 1 .. Len(given) BY <2>1, <1>16, <1>17
    <3>2. CASE j \in 1 .. Len(given) BY <3>1, <3>2, <2>1, <1>16, <1>17
    <3>3. CASE j = Len(given) + 1 BY <3>1, <3>3, <1>17, <1>18
    <3> QED BY <3>2, <3>3, <1>c
  <2>2. \A i \in 1 .. Len(g) : g[i] < wnext BY <1>c, <1>13, <1>16, <1>17
  <2>3. Beneath(g, u)
    <3>1. Beneath(given, u) BY <1>4, <1>14, <1>16, SliceFacts
    <3>2. ASSUME NEW j \in 1 .. Len(u), u[j][2] = ChunkLen PROVE e < u[j][1]
      <4>1. ChunkLen + j \in 1 .. Len(Stream) /\ u[j] = Stream[ChunkLen + j]
        BY <1>14 DEF Slice
      <4>2. ChunkLen < ChunkLen + j BY <1>0, <1>14
      <4>3. Ordered(Stream[ChunkLen], Stream[ChunkLen + j])
        BY <4>1, <4>2, <1>11, <1>12 DEF Sorted
      <4> QED BY <4>1, <4>3, <1>11 DEF Ordered
    <3> QED BY <3>1, <3>2, <1>c, <1>17 DEF Beneath
  <2>4. ASSUME NEW p \in 2 .. Len(parts) PROVE Beneath(g, parts[p].cells)
    <3>1. Beneath(given, parts[p].cells) /\ Before(Stream, parts[p].cells) BY <1>12, <1>16
    <3>2. \A j \in 1 .. Len(parts[p].cells) : Ordered(Stream[ChunkLen], parts[p].cells[j])
      BY <3>1, <1>11 DEF Before
    <3>3. \A j \in 1 .. Len(parts[p].cells) : e < parts[p].cells[j][1]
      BY <3>2, <1>11 DEF Ordered
    <3> QED BY <3>1, <3>3, <1>c, <1>17 DEF Beneath
  <2>5. AllBelow(g, parts, u) BY <2>3, <2>4 DEF AllBelow
  <2> QED BY <2>1, <2>2, <2>5, <1>1, <1>7, <1>8 DEF GivenOrdered
<1>20. FileTypes' BY <1>1, <1>4, <1>8, <1>17, <1>t DEF FileTypes
<1>21. FileShape' BY <1>1, <1>t DEF FileShape
<1>22. FileDirty' BY <1>1, <1>t DEF FileDirty
<1>23. FileOrdered'
  BY <1>1, <1>7, <1>15 DEF FileInd, FileOrdered
<1>24. FileSound'
  <2>1. ASSUME ~damaged
        PROVE  /\ WholeParts(parts) /\ Whole(u) /\ refused = {} /\ ~ended
               /\ \A j \in 1 .. Len(rb) :
                     \E i \in 1 .. Len(parts[1].cells) : parts[1].cells[i] = rb[j]
    <3>1. /\ WholeParts(parts) /\ Whole(Stream) /\ refused = {}
          /\ \A j \in 1 .. Len(rbuffer) :
                \E i \in 1 .. Len(parts[1].cells) : parts[1].cells[i] = rbuffer[j]
      BY <2>1 DEF FileInd, FileSound
    <3>2. Whole(u) BY <3>1, <1>2, <1>4, <1>14, BehindRecord
    <3>3. \A j \in 1 .. Len(rb) : /\ ChunkLen + j \in 1 .. Len(rbuffer)
                                  /\ rb[j] = rbuffer[ChunkLen + j]
      BY <1>4, <1>9 DEF Slice
    <3> QED BY <3>1, <3>2, <3>3, <2>1, <1>2
  <2> QED BY <2>1, <1>1, <1>7, <1>9 DEF FileSound
<1>25. OnDisk' = OnDisk /\ Buffered \subseteq Buffered' \union {e}
  <2>1. rb \in Seq(Cells) /\ Len(rb) = Len(rbuffer) - ChunkLen
        /\ \A i \in 1 .. Len(rb) : rb[i] = rbuffer[ChunkLen + i]
    BY <1>4, <1>9 DEF Slice
  <2>2. ASSUME NEW f \in EventSet(rbuffer), f # e PROVE f \in EventSet(rb)
    <3>1. PICK i \in 1 .. Len(rbuffer) : rbuffer[i][2] = ChunkLen /\ f = rbuffer[i][1]
      BY <1>2, EventSetMember
    <3>2. ~(i \in 1 .. ChunkLen) BY <3>1, <2>2, <1>10
    <3>3. i - ChunkLen \in 1 .. Len(rb) /\ ChunkLen + (i - ChunkLen) = i
      BY <3>2, <2>1, <1>0, <1>2, <1>3
    <3>4. rb[i - ChunkLen] = rbuffer[i] BY <3>3, <2>1
    <3> QED BY <3>1, <3>3, <3>4, <2>1, EventSetMember
  <2> QED BY <2>2, <1>1, <1>9 DEF OnDisk, Buffered
<1>26. read' = read \union {e} BY <1>1, <1>6
<1>27. UnlinkedWasRead'
  <2>1. UnlinkedWasRead BY DEF FileInd, FileKept
  <2> QED BY <2>1, <1>1, <1>25, <1>26 DEF UnlinkedWasRead
<1>28. FileKept'
  <2>1. \A i \in 1 .. roffset : parts[1].cells[i][2] = ChunkLen =>
            parts[1].cells[i][1] \in read \union Buffered
    BY <1>1 DEF FileInd, FileKept
  <2> QED BY <2>1, <1>1, <1>25, <1>26, <1>27 DEF FileKept
<1> QED BY <1>19, <1>20, <1>21, <1>22, <1>23, <1>24, <1>28 DEF FileInd

(* A byte is skipped. *)
LEMMA SkipKeeps ==
    ASSUME FileInd, Skip
    PROVE  FileInd'
<1>0. ChunkLen \in Nat \ {0} /\ FileEvents \in Nat BY FileAssumption
<1>1. /\ Fetched /\ ~WholeRecord /\ fphase = "read"
      /\ rbuffer' = Tail(rbuffer)
      /\ UNCHANGED <<fphase, parts, rfile, roffset, ended, left, full, garbage, wnext,
                     given, read, dropped, refused, damaged, openings, fileFaults>>
  BY DEF Skip, Fetched
<1>t. FileTypes /\ FileShape /\ FileDirty BY DEF FileInd
<1>2. /\ ~Starts(Stream) /\ damaged
      /\ rbuffer \in Seq(Cells) /\ rbuffer # <<>> /\ Len(rbuffer) \in Nat \ {0}
      /\ Stream[1] = rbuffer[1] /\ Len(Stream) \in Nat \ {0}
  BY <1>1, RecordAtStart
<1>3. 1 \in 0 .. Len(rbuffer) /\ rbuffer' = SubSeq(rbuffer, 1 + 1, Len(rbuffer))
  BY <1>1, <1>2
<1>4. /\ rbuffer' \in Seq(Cells) /\ Stream \in Seq(Cells)
      /\ Slice(rbuffer', rbuffer, 1) /\ Len(rbuffer') = Len(rbuffer) - 1
      /\ Slice(Stream', Stream, 1) /\ Len(Stream') = Len(Stream) - 1
  BY <1>1, <1>3, BufferCut
<1>7. PICK u : u = Stream' OBVIOUS
<1>9. PICK rb : rb = rbuffer' OBVIOUS
<1>12. /\ Sorted(Stream) /\ Behind(Stream, wnext) /\ Complete(Stream)
       /\ \A p \in 2 .. Len(parts) : Before(Stream, parts[p].cells)
  BY DEF FileInd, FileOrdered, StreamOrder
<1>14. u \in Seq(Cells) /\ Slice(u, Stream, 1) /\ Len(u) = Len(Stream) - 1
  BY <1>4, <1>7 DEF Slice
<1>15. Complete(u) /\ Stream[1][2] # ChunkLen
  <2>1. Len(Stream) > 0 BY <1>2
  <2> QED BY <2>1, <1>2, <1>4, <1>12, <1>14, BehindByte
<1>16. StreamOrder(parts, u, wnext)
  <2>1. Sorted(u) /\ Behind(u, wnext) BY <1>4, <1>12, <1>14, SliceFacts
  <2>3. \A p \in 2 .. Len(parts) : Before(u, parts[p].cells)
    BY <1>4, <1>12, <1>14, SliceFacts
  <2> QED BY <2>1, <2>3, <1>15 DEF StreamOrder
<1>19. GivenOrdered'
  <2>1. /\ \A i, j \in 1 .. Len(given) : i < j => given[i] < given[j]
        /\ \A i \in 1 .. Len(given) : given[i] < wnext
        /\ AllBelow(given, parts, Stream)
    BY <1>1 DEF FileInd, GivenOrdered
  <2>2. AllBelow(given, parts, u)
    <3>1. Beneath(given, Stream) /\ \A p \in 2 .. Len(parts) : Beneath(given, parts[p].cells)
      BY <2>1 DEF AllBelow
    <3>2. Beneath(given, u) BY <3>1, <1>4, <1>14, SliceFacts
    <3> QED BY <3>1, <3>2 DEF AllBelow
  <2> QED BY <2>1, <2>2, <1>1, <1>7 DEF GivenOrdered
<1>20. FileTypes' BY <1>1, <1>4, <1>t DEF FileTypes
<1>21. FileShape' BY <1>1, <1>t DEF FileShape
<1>22. FileDirty' BY <1>1, <1>t DEF FileDirty
<1>23. FileOrdered'
  BY <1>1, <1>7, <1>16 DEF FileInd, FileOrdered
<1>24. FileSound' BY <1>1, <1>2 DEF FileSound
<1>25. OnDisk' = OnDisk /\ Buffered \subseteq Buffered'
  <2>1. rb \in Seq(Cells) /\ Len(rb) = Len(rbuffer) - 1
        /\ \A i \in 1 .. Len(rb) : rb[i] = rbuffer[1 + i]
    BY <1>4, <1>9 DEF Slice
  <2>2. ASSUME NEW f \in EventSet(rbuffer) PROVE f \in EventSet(rb)
    <3>1. PICK i \in 1 .. Len(rbuffer) : rbuffer[i][2] = ChunkLen /\ f = rbuffer[i][1]
      BY <1>2, EventSetMember
    <3>2. i # 1 BY <3>1, <1>2, <1>15
    <3>3. i - 1 \in 1 .. Len(rb) /\ 1 + (i - 1) = i
      BY <3>2, <2>1, <1>2
    <3>4. rb[i - 1] = rbuffer[i] BY <3>3, <2>1
    <3> QED BY <3>1, <3>3, <3>4, <2>1, EventSetMember
  <2> QED BY <2>2, <1>1, <1>9 DEF OnDisk, Buffered
<1>27. UnlinkedWasRead'
  <2>1. UnlinkedWasRead BY DEF FileInd, FileKept
  <2> QED BY <2>1, <1>1, <1>25 DEF UnlinkedWasRead
<1>28. FileKept'
  <2>1. \A i \in 1 .. roffset : parts[1].cells[i][2] = ChunkLen =>
            parts[1].cells[i][1] \in read \union Buffered
    BY <1>1 DEF FileInd, FileKept
  <2> QED BY <2>1, <1>1, <1>25, <1>27 DEF FileKept
<1> QED BY <1>19, <1>20, <1>21, <1>22, <1>23, <1>24, <1>28 DEF FileInd

(* The end of the file is reported: the last part is unlinked already. *)
LEMMA ReadEndKeeps ==
    ASSUME FileInd, ReadEnd
    PROVE  FileInd'
<1>1. /\ fphase = "read" /\ rbuffer = <<>> /\ ended
      /\ fphase' = "closed" /\ parts' = <<>>
      /\ rfile' = "null" /\ roffset' = 0 /\ ended' = FALSE
      /\ UNCHANGED <<rbuffer, left, full, garbage, wnext, given, read, dropped, refused,
                     damaged, openings, fileFaults>>
  BY DEF ReadEnd
<1>t. FileTypes /\ FileShape BY DEF FileInd
<1>p. parts \in Seq(FileParts) /\ Len(parts) = 1 /\ parts[1].cells = <<>>
  BY <1>1, <1>t DEF FileTypes, FileShape
<1>2. FileTypes'
  <2>1. <<>> \in Seq(FileParts) /\ 0 \in Nat OBVIOUS
  <2> QED BY <2>1, <1>1, <1>t DEF FileTypes
<1>3. FileShape' BY <1>1, <1>t DEF FileShape
<1>4. Len(<<>>) = 0 /\ (\A i \in 1 .. Len(<<>>) : FALSE) /\ \A i \in 2 .. Len(<<>>) : FALSE
  OBVIOUS
<1>5. FileDirty' BY <1>1, <1>4 DEF FileDirty
<1>6. Stream' = <<>>
  <2>1. Rest' = <<>> BY <1>1 DEF Rest
  <2>2. <<>> \o <<>> = <<>> OBVIOUS
  <2> QED BY <2>1, <2>2, <1>1 DEF Stream
<1>7. FileOrdered'
  <2>1. PartsOrder(<<>>, wnext) BY <1>4 DEF PartsOrder
  <2>2. StreamOrder(<<>>, <<>>, wnext)
    BY <1>4 DEF StreamOrder, Sorted, Behind, Complete
  <2> QED BY <2>1, <2>2, <1>1, <1>6 DEF FileOrdered
<1>8. GivenOrdered' BY <1>1 DEF FileInd, GivenOrdered
<1>9. FileSound'
  <2>1. WholeParts(<<>>) /\ Whole(<<>>) BY <1>4 DEF WholeParts, Whole
  <2>2. ~damaged => refused = {} BY DEF FileInd, FileSound
  <2>3. \A j \in 1 .. Len(rbuffer') : FALSE BY <1>1, <1>4
  <2>4. fphase' # "write" /\ ~ended' BY <1>1
  <2> QED BY <2>1, <2>2, <2>3, <2>4, <1>1, <1>6 DEF FileSound
<1>10. OnDisk = {} /\ Buffered' = Buffered
  <2>1. EventSet(<<>>) = {} BY DEF EventSet
  <2>2. \A p \in 1 .. Len(parts) : EventSet(parts[p].cells) = {} BY <2>1, <1>p
  <2>3. \A e : e \notin Recorded(parts) BY <2>2, <1>p, RecordedMember
  <2> QED BY <2>3, <1>1 DEF OnDisk, Buffered
<1>11. UnlinkedWasRead'
  <2>1. UnlinkedWasRead BY DEF FileInd, FileKept
  <2> QED BY <2>1, <1>1, <1>10 DEF UnlinkedWasRead
<1>12. FileKept' BY <1>1, <1>11 DEF FileKept
<1> QED BY <1>2, <1>3, <1>5, <1>7, <1>8, <1>9, <1>12 DEF FileInd


(* The file is left or opened again: nothing of it was read yet. *)
LEMMA FreshReader ==
    ASSUME FileInd, NEW qs, qs = parts', qs \in Seq(FileParts),
           PartsOrder(qs, wnext), qs # <<>> => StreamOrder(qs, qs[1].cells, wnext),
           qs # <<>> => ~qs[Len(qs)].gone,
           \/ fphase' = "closed" /\ given' = given
           \/ fphase' = "idle" /\ given' = <<>> /\ qs # <<>>,
           rfile' = "null", roffset' = 0, rbuffer' = <<>>, ended' = FALSE, left' = 0,
           UNCHANGED <<full, garbage, wnext, refused>>,
           damaged' \in BOOLEAN, ~damaged' => ~damaged /\ WholeParts(qs),
           FileDirty', UnlinkedWasRead'
    PROVE  FileInd'
<1>0. ChunkLen \in Nat \ {0} BY FileAssumption
<1>t. FileTypes /\ FileShape BY DEF FileInd
<1>1. Len(<<>>) = 0 /\ (\A i \in 1 .. Len(<<>>) : FALSE) /\ \A i \in 2 .. Len(<<>>) : FALSE
  OBVIOUS
<1>2. qs # <<>> => 1 \in 1 .. Len(qs) /\ qs[1].cells \in Seq(Cells)
                   /\ Len(qs[1].cells) \in Nat
  <2>1. qs # <<>> => 1 \in 1 .. Len(qs) OBVIOUS
  <2> QED BY <2>1, PartFields
<1>3. PICK u : u = Stream' OBVIOUS
<1>4. u = IF qs = <<>> THEN <<>> ELSE qs[1].cells
  <2>1. Rest' = IF qs = <<>> THEN <<>> ELSE SubSeq(qs[1].cells, 0 + 1, Len(qs[1].cells))
    BY DEF Rest
  <2>2. Rest' = IF qs = <<>> THEN <<>> ELSE qs[1].cells
    BY <2>1, <1>2, CellsFromStart
  <2>3. <<>> \in Seq(Cells) OBVIOUS
  <2>4. u = <<>> \o Rest' BY <1>3 DEF Stream
  <2>5. Rest' \in Seq(Cells) BY <2>2, <2>3, <1>2
  <2> QED BY <2>2, <2>4, <2>5, CellsFromStart
<1>5. StreamOrder(qs, u, wnext)
  <2>1. CASE qs = <<>>
    <3>1. StreamOrder(<<>>, <<>>, wnext)
      BY <1>1 DEF StreamOrder, Sorted, Behind, Complete
    <3> QED BY <3>1, <2>1, <1>4
  <2>2. CASE qs # <<>> BY <2>2, <1>4
  <2> QED BY <2>1, <2>2
<1>6. FileTypes'
  <2>1. <<>> \in Seq(Cells) /\ <<>> \in Seq(Nat) /\ 0 \in 0 .. ChunkLen BY <1>0
  <2> QED BY <2>1, <1>t DEF FileTypes
<1>7. FileShape' BY <1>2 DEF FileShape
<1>8. FileOrdered' BY <1>3, <1>5 DEF FileOrdered
<1>9. GivenOrdered'
  <2>1. CASE fphase' = "closed" /\ given' = given
    BY <2>1 DEF FileInd, GivenOrdered
  <2>2. CASE fphase' = "idle" /\ given' = <<>>
    <3>1. AllBelow(<<>>, qs, u) BY <1>1 DEF AllBelow, Beneath
    <3> QED BY <3>1, <2>2, <1>1, <1>3 DEF GivenOrdered
  <2> QED BY <2>1, <2>2
<1>10. FileSound'
  <2>1. ASSUME ~damaged' PROVE WholeParts(qs) /\ Whole(u) /\ refused = {}
    <3>1. refused = {} BY <2>1 DEF FileInd, FileSound
    <3>2. Whole(u)
      <4>1. Whole(<<>>) BY <1>1 DEF Whole
      <4> QED BY <4>1, <2>1, <1>2, <1>4 DEF WholeParts
    <3> QED BY <3>1, <3>2, <2>1
  <2>2. fphase' # "write" /\ ~ended' OBVIOUS
  <2>3. \A j \in 1 .. Len(rbuffer') : FALSE BY <1>1
  <2> QED BY <2>1, <2>2, <2>3, <1>3 DEF FileSound
<1>11. FileKept'
  <2>1. \A i \in 1 .. 0 : FALSE OBVIOUS
  <2> QED BY <2>1 DEF FileKept
<1> QED BY <1>6, <1>7, <1>8, <1>9, <1>10, <1>11 DEF FileInd

(* What Keep leaves of the parts. *)
LEMMA KeepShrinks ==
    ASSUME FileTypes, FileDirty, NEW ks,
           \A i \in 1 .. Len(parts) : ks[i] \in Nat /\ ks[i] <= parts[i].dirty
    PROVE  /\ Shrunk(Keep(ks), parts, 0) /\ Len(Keep(ks)) = Len(parts)
           /\ \A i \in 1 .. Len(parts) :
                 /\ Keep(ks)[i].gone = parts[i].gone /\ Keep(ks)[i].dirty = 0
                 /\ Keep(ks)[i].gone => Keep(ks)[i].cells = <<>>
<1>1. parts \in Seq(FileParts) /\ Len(parts) \in Nat BY DEF FileTypes
<1>2. PICK qs : qs = Keep(ks) OBVIOUS
<1>3. ASSUME NEW i \in 1 .. Len(parts)
      PROVE  /\ qs[i] \in FileParts /\ qs[i].gone = parts[i].gone /\ qs[i].dirty = 0
             /\ qs[i].gone => qs[i].cells = <<>>
             /\ Slice(qs[i].cells, parts[i].cells, 0)
  <2>1. qs[i] = IF parts[i].gone THEN Gone
                ELSE Part(SubSeq(parts[i].cells, 1, Len(parts[i].cells) - ks[i]), 0)
    BY <1>2 DEF Keep
  <2>2. /\ parts[i].cells \in Seq(Cells) /\ Len(parts[i].cells) \in Nat
        /\ parts[i].gone \in BOOLEAN /\ parts[i].dirty \in Nat
    BY <1>1, PartFields
  <2>3. CASE parts[i].gone
    <3>1. Gone \in FileParts /\ Gone.cells = <<>> /\ Gone.dirty = 0 /\ Gone.gone
      BY DEF Gone, FileParts
    <3>2. <<>> \in Seq(Cells) /\ \A j \in 1 .. Len(<<>>) : FALSE OBVIOUS
    <3>3. Slice(<<>>, parts[i].cells, 0) BY <3>2 DEF Slice
    <3> QED BY <3>1, <3>3, <2>1, <2>2, <2>3
  <2>4. CASE ~parts[i].gone
    <3>1. PICK m : m = Len(parts[i].cells) - ks[i] OBVIOUS
    <3>2. m \in 0 .. Len(parts[i].cells)
      <4>1. /\ ks[i] \in Nat /\ ks[i] <= parts[i].dirty
            /\ parts[i].dirty <= Len(parts[i].cells)
        BY DEF FileDirty
      <4> QED BY <4>1, <3>1, <2>2
    <3>3. PICK c : c = SubSeq(parts[i].cells, 1, m) OBVIOUS
    <3>4. Slice(c, parts[i].cells, 0) BY <3>2, <3>3, <2>2, CutSlices
    <3>5. c \in Seq(Cells) BY <3>4 DEF Slice
    <3>6. qs[i] = [cells |-> c, dirty |-> 0, gone |-> FALSE]
      BY <3>1, <3>3, <2>1, <2>4 DEF Part
    <3>7. qs[i] \in FileParts /\ qs[i].cells = c /\ qs[i].dirty = 0 /\ qs[i].gone = FALSE
      BY <3>5, <3>6 DEF FileParts
    <3>8. parts[i].gone = FALSE BY <2>2, <2>4
    <3> QED BY ONLY <3>4, <3>7, <3>8
  <2> QED BY <2>3, <2>4
<1>4. qs \in Seq(FileParts) /\ Len(qs) = Len(parts)
  <2>1. qs = [i \in 1 .. Len(parts) |-> qs[i]] BY <1>2 DEF Keep
  <2> QED BY <2>1, <1>1, <1>3
<1>5. \A p \in 1 .. Len(qs) : 0 + p \in 1 .. Len(parts) /\ 0 + p = p BY <1>1, <1>4
<1>6. Shrunk(qs, parts, 0) BY <1>1, <1>3, <1>4, <1>5 DEF Shrunk
<1> QED BY <1>2, <1>3, <1>4, <1>6

(* The object or the process ends. *)
LEMMA StopKeeps ==
    ASSUME FileInd, fphase # "closed", NEW ks, StopWith(ks),
           \A i \in 1 .. Len(parts) : ks[i] \in Nat /\ ks[i] <= parts[i].dirty
    PROVE  FileInd'
<1>0. ChunkLen \in Nat \ {0} BY FileAssumption
<1>t. FileTypes /\ FileShape /\ FileDirty BY DEF FileInd
<1>1. /\ fphase' = "closed"
      /\ parts' = IF ended THEN <<>> ELSE Keep(ks)
      /\ dropped' = dropped \union
           ((OnDisk \union Buffered) \ (read \union Recorded(parts')))
      /\ damaged' = (damaged \/ \E i \in 1 .. Len(parts') : Torn(parts'[i].cells))
      /\ rfile' = "null" /\ roffset' = 0 /\ rbuffer' = <<>> /\ ended' = FALSE /\ left' = 0
      /\ UNCHANGED <<full, garbage, wnext, given, read, refused, openings, fileFaults>>
  BY DEF StopWith
<1>p. parts \in Seq(FileParts) /\ parts # <<>> /\ Len(parts) \in 1 .. Len(parts)
  <2>1. parts \in Seq(FileParts) /\ parts # <<>> BY <1>t DEF FileTypes, FileShape
  <2> QED BY <2>1
<1>2. PICK qs : qs = parts' OBVIOUS
<1>3. PartsOrder(parts, wnext) BY DEF FileInd, FileOrdered
<1>4. /\ Shrunk(qs, parts, 0)
      /\ qs # <<>> => ~qs[Len(qs)].gone
      /\ \A p \in 1 .. Len(qs) : qs[p].dirty = 0 /\ (qs[p].gone => qs[p].cells = <<>>)
  <2>1. CASE ended
    <3>1. qs = <<>> BY <2>1, <1>1, <1>2
    <3>2. <<>> \in Seq(FileParts) /\ \A j \in 1 .. Len(<<>>) : FALSE OBVIOUS
    <3>3. Shrunk(<<>>, parts, 0) BY <3>2, <1>p DEF Shrunk
    <3> QED BY <3>1, <3>2, <3>3
  <2>2. CASE ~ended
    <3>1. qs = Keep(ks) BY <2>2, <1>1, <1>2
    <3>2. /\ Shrunk(qs, parts, 0) /\ Len(qs) = Len(parts)
          /\ \A i \in 1 .. Len(parts) : /\ qs[i].gone = parts[i].gone /\ qs[i].dirty = 0
                                        /\ qs[i].gone => qs[i].cells = <<>>
      BY <3>1, <1>t, KeepShrinks
    <3>3. ~parts[Len(parts)].gone BY <1>p, <1>t DEF FileShape
    <3> QED BY <3>2, <3>3, <1>p
  <2> QED BY <2>1, <2>2
<1>5. PartsOrder(qs, wnext) /\ (qs # <<>> => StreamOrder(qs, qs[1].cells, wnext))
  BY <1>3, <1>4, ShrunkParts
<1>6. /\ qs \in Seq(FileParts)
      /\ \A p \in 1 .. Len(qs) : /\ p \in 1 .. Len(parts)
                                 /\ qs[p].cells \in Seq(Cells)
                                 /\ parts[p].cells \in Seq(Cells)
                                 /\ Slice(qs[p].cells, parts[p].cells, 0)
  <2>1. /\ qs \in Seq(FileParts)
        /\ \A p \in 1 .. Len(qs) : /\ 0 + p \in 1 .. Len(parts)
                                   /\ Slice(qs[p].cells, parts[0 + p].cells, 0)
    BY <1>4 DEF Shrunk
  <2>2. \A p \in 1 .. Len(qs) : 0 + p = p BY <2>1
  <2> QED BY <2>1, <2>2, <1>p, PartFields
<1>7. ~damaged' => ~damaged /\ \A p \in 1 .. Len(qs) : ~Torn(qs[p].cells)
  BY <1>1, <1>2, Zenon
<1>8. ASSUME ~damaged' PROVE ~damaged /\ WholeParts(qs)
  <2>1. ~damaged /\ \A p \in 1 .. Len(qs) : ~Torn(qs[p].cells) BY <1>7, <1>8
  <2>2. WholeParts(parts) BY <2>1 DEF FileInd, FileSound
  <2>3. ASSUME NEW p \in 1 .. Len(qs) PROVE Whole(qs[p].cells)
    <3>1. Whole(parts[p].cells) BY <2>2, <1>6 DEF WholeParts
    <3>2. ~Torn(qs[p].cells) BY <2>1
    <3>3. qs[p].cells # <<>> => qs[p].cells[Len(qs[p].cells)][2] = ChunkLen
      BY <3>2 DEF Torn, Last
    <3> QED BY <3>1, <3>3, <1>6, PrefixRecords
  <2> QED BY <2>1, <2>3 DEF WholeParts
<1>9. damaged' \in BOOLEAN
  <2>1. damaged \in BOOLEAN BY <1>t DEF FileTypes
  <2> QED BY <2>1, <1>1, Zenon
<1>10. FileDirty'
  <2>1. ASSUME NEW p \in 1 .. Len(qs)
        PROVE  /\ qs[p].dirty <= Len(qs[p].cells) /\ qs[p].dirty <= ChunkLen
               /\ qs[p].gone => qs[p].cells = <<>>
               /\ p # 1 /\ p # Len(qs) => qs[p].dirty = 0
               /\ p = Len(qs) => qs[p].dirty + 0 <= ChunkLen
    <3>1. qs[p].dirty = 0 /\ (qs[p].gone => qs[p].cells = <<>>) BY <1>4
    <3>2. Len(qs[p].cells) \in Nat BY <1>6
    <3>3. 0 <= Len(qs[p].cells) /\ 0 <= ChunkLen /\ 0 + 0 <= ChunkLen BY <3>2, <1>0
    <3> QED BY <3>1, <3>3
  <2> QED BY <2>1, <1>1, <1>2 DEF FileDirty
<1>11. UnlinkedWasRead'
  <2>1. UnlinkedWasRead BY DEF FileInd, FileKept
  <2>2. ASSUME NEW e \in 1 .. wnext - 1
        PROVE  e \in read \union dropped' \union refused \union Recorded(qs)
    <3>1. e \in read \union dropped \union refused \union OnDisk \union Buffered
      BY <2>1 DEF UnlinkedWasRead
    <3>2. dropped' = dropped \union ((OnDisk \union Buffered) \ (read \union Recorded(qs)))
      BY <1>1, <1>2
    <3> QED BY ONLY <3>1, <3>2
  <2> QED BY <2>2, <1>1, <1>2 DEF UnlinkedWasRead, OnDisk
<1>12. /\ qs = parts' /\ qs \in Seq(FileParts) /\ PartsOrder(qs, wnext)
       /\ qs # <<>> => StreamOrder(qs, qs[1].cells, wnext)
       /\ qs # <<>> => ~qs[Len(qs)].gone
       /\ fphase' = "closed" /\ given' = given
  BY <1>1, <1>2, <1>4, <1>5, <1>6
<1>13. /\ rfile' = "null" /\ roffset' = 0 /\ rbuffer' = <<>> /\ ended' = FALSE /\ left' = 0
       /\ UNCHANGED <<full, garbage, wnext, refused>>
  BY <1>1
<1> QED BY <1>8, <1>9, <1>10, <1>11, <1>12, <1>13, FreshReader

(* It is closed, or dies. *)
LEMMA StopsKeep ==
    ASSUME FileInd, Close \/ Die
    PROVE  FileInd'
<1>t. FileTypes /\ parts \in Seq(FileParts) BY DEF FileInd, FileTypes
<1>1. CASE Close
  <2>1. PICK ks : ks = [i \in 1 .. Len(parts) |-> 0] OBVIOUS
  <2>2. fphase # "closed" /\ StopWith(ks) BY <2>1, <1>1 DEF Close
  <2>3. \A i \in 1 .. Len(parts) : ks[i] \in Nat /\ ks[i] <= parts[i].dirty
    <3>1. \A i \in 1 .. Len(parts) : ks[i] = 0 BY <2>1
    <3>2. \A i \in 1 .. Len(parts) : parts[i].dirty \in Nat BY <1>t, PartFields
    <3>3. \A i \in 1 .. Len(parts) : 0 <= parts[i].dirty BY <3>2
    <3> QED BY <3>1, <3>3
  <2> QED BY <2>2, <2>3, StopKeeps
<1>2. CASE Die
  <2>1. PICK ks \in [1 .. Len(parts) -> 0 .. ChunkLen] :
           /\ \A i \in 1 .. Len(parts) : ks[i] <= parts[i].dirty
           /\ StopWith(ks)
    BY <1>2 DEF Die
  <2>2. fphase # "closed" BY <1>2 DEF Die
  <2>3. \A i \in 1 .. Len(parts) : ks[i] \in Nat
    <3>1. \A i \in 1 .. Len(parts) : ks[i] \in 0 .. ChunkLen OBVIOUS
    <3> QED BY <3>1, FileAssumption
  <2> QED BY <2>1, <2>2, <2>3, StopKeeps
<1> QED BY <1>1, <1>2

(* A part disappears. *)
LEMMA LosePartKeeps ==
    ASSUME FileInd, LosePart
    PROVE  FileInd'
<1>0. ChunkLen \in Nat \ {0} BY FileAssumption
<1>t. FileTypes /\ FileShape /\ FileDirty BY DEF FileInd
<1>1. PICK i \in 2 .. Len(parts) - 1 :
         /\ ~parts[i].gone
         /\ parts' = [parts EXCEPT ![i] = Gone]
         /\ dropped' = dropped \union (EventSet(parts[i].cells) \ read)
  BY DEF LosePart
<1>2. UNCHANGED <<fphase, rfile, roffset, rbuffer, ended, left, full, garbage, wnext,
                  given, read, refused, damaged, openings>>
  BY DEF LosePart
<1>g. Gone \in FileParts /\ Gone.cells = <<>> /\ Gone.dirty = 0 /\ Gone.gone
  BY DEF Gone, FileParts
<1>p. parts \in Seq(FileParts) /\ Len(parts) \in Nat BY <1>t DEF FileTypes
<1>3. PICK qs : qs = parts' OBVIOUS
<1>4. /\ qs \in Seq(FileParts) /\ Len(qs) = Len(parts)
      /\ \A p \in 1 .. Len(parts) : qs[p] = IF p = i THEN Gone ELSE parts[p]
      /\ i \in 1 .. Len(parts) /\ 1 # i /\ Len(parts) # i
      /\ 1 \in 1 .. Len(parts) /\ Len(parts) \in 1 .. Len(parts) /\ parts # <<>> /\ qs # <<>>
  <2>1. qs = [parts EXCEPT ![i] = Gone] BY <1>1, <1>3
  <2>2. /\ i \in 1 .. Len(parts) /\ 1 # i /\ Len(parts) # i
        /\ 1 \in 1 .. Len(parts) /\ Len(parts) \in 1 .. Len(parts)
    BY <1>p
  <2>3. qs \in Seq(FileParts) /\ Len(qs) = Len(parts)
        /\ \A p \in 1 .. Len(parts) : qs[p] = IF p = i THEN Gone ELSE parts[p]
    BY ONLY <2>1, <2>2, <1>g, <1>p
  <2>4. parts # <<>> /\ qs # <<>> BY <2>2, <2>3
  <2> QED BY <2>2, <2>3, <2>4
<1>5. qs[1] = parts[1] /\ qs[Len(qs)] = parts[Len(parts)] BY <1>4
<1>6. \A p \in 1 .. Len(parts) : parts[p].cells \in Seq(Cells) BY <1>p, PartFields
<1>7. Shrunk(qs, parts, 0)
  <2>1. ASSUME NEW p \in 1 .. Len(qs)
        PROVE  0 + p \in 1 .. Len(parts) /\ Slice(qs[p].cells, parts[0 + p].cells, 0)
    <3>1. 0 + p = p /\ p \in 1 .. Len(parts) BY <1>4
    <3>2. CASE p = i
      <4>1. <<>> \in Seq(Cells) /\ \A j \in 1 .. Len(<<>>) : FALSE OBVIOUS
      <4>2. Slice(<<>>, parts[p].cells, 0) BY <4>1 DEF Slice
      <4> QED BY <4>2, <3>1, <3>2, <1>4, <1>g
    <3>3. CASE p # i BY <3>1, <3>3, <1>4, <1>6, SliceSelf
    <3> QED BY <3>2, <3>3
  <2> QED BY <2>1, <1>4, <1>p DEF Shrunk
<1>8. PartsOrder(parts, wnext) /\ StreamOrder(parts, Stream, wnext)
  BY DEF FileInd, FileOrdered
<1>9. PartsOrder(qs, wnext) BY <1>7, <1>8, ShrunkParts
<1>10. Stream' = Stream BY <1>2, <1>3, <1>4, <1>5 DEF Stream, Rest
<1>11. \A p \in 2 .. Len(qs) : p \in 2 .. Len(parts) /\ p \in 1 .. Len(parts) BY <1>4, <1>p
<1>12. StreamOrder(qs, Stream, wnext)
  <2>1. \A s : Before(s, <<>>) BY DEF Before
  <2>2. ASSUME NEW p \in 2 .. Len(qs) PROVE Before(Stream, qs[p].cells)
    BY <2>1, <1>4, <1>8, <1>11, <1>g DEF StreamOrder
  <2> QED BY <2>2, <1>8 DEF StreamOrder
<1>13. FileTypes' BY <1>2, <1>3, <1>4, <1>t DEF FileTypes
<1>14. FileShape'
  <2>1. qs[1] = parts[1] /\ qs[Len(qs)] = parts[Len(parts)] /\ Len(qs) = Len(parts)
        /\ parts' = qs /\ qs # <<>> /\ parts # <<>>
    BY <1>3, <1>4, <1>5
  <2> QED BY <2>1, <1>2, <1>t DEF FileShape
<1>15. FileDirty'
  <2>1. ASSUME NEW p \in 1 .. Len(qs)
        PROVE  /\ qs[p].dirty <= Len(qs[p].cells) /\ qs[p].dirty <= ChunkLen
               /\ qs[p].gone => qs[p].cells = <<>>
               /\ p # 1 /\ p # Len(qs) => qs[p].dirty = 0
               /\ p = Len(qs) => qs[p].dirty + left <= ChunkLen
    <3>1. CASE p # i BY <3>1, <1>4, <1>t DEF FileDirty
    <3>2. CASE p = i
      <4>1. Len(<<>>) = 0 /\ 0 <= ChunkLen BY <1>0
      <4> QED BY <4>1, <3>2, <1>4, <1>g
    <3> QED BY <3>1, <3>2
  <2> QED BY <2>1, <1>2, <1>3 DEF FileDirty
<1>16. FileOrdered' BY <1>2, <1>3, <1>9, <1>10, <1>12 DEF FileOrdered
<1>17. GivenOrdered'
  <2>1. /\ \A k, j \in 1 .. Len(given) : k < j => given[k] < given[j]
        /\ \A k \in 1 .. Len(given) : given[k] < wnext
        /\ fphase # "closed" => AllBelow(given, parts, Stream)
    BY DEF FileInd, GivenOrdered
  <2>2. ASSUME AllBelow(given, parts, Stream) PROVE AllBelow(given, qs, Stream)
    <3>1. \A s : Beneath(s, <<>>) BY DEF Beneath
    <3>2. ASSUME NEW p \in 2 .. Len(qs) PROVE Beneath(given, qs[p].cells)
      BY <3>1, <2>2, <1>4, <1>11, <1>g DEF AllBelow
    <3> QED BY <3>2, <2>2 DEF AllBelow
  <2> QED BY <2>1, <2>2, <1>2, <1>3, <1>10 DEF GivenOrdered
<1>18. FileSound'
  <2>1. ~damaged => /\ WholeParts(parts) /\ Whole(Stream) /\ refused = {}
                    /\ ended => rbuffer = <<>> /\ fphase = "read"
                    /\ fphase = "write" => left = ChunkLen
                    /\ \A j \in 1 .. Len(rbuffer) :
                          \E k \in 1 .. Len(parts[1].cells) : parts[1].cells[k] = rbuffer[j]
    BY DEF FileInd, FileSound
  <2>2. WholeParts(parts) => WholeParts(qs)
    <3>1. Whole(<<>>) BY DEF Whole
    <3> QED BY <3>1, <1>4, <1>g DEF WholeParts
  <2> QED BY <2>1, <2>2, <1>2, <1>3, <1>5, <1>10 DEF FileSound
<1>19. OnDisk \subseteq OnDisk' \union EventSet(parts[i].cells) /\ Buffered' = Buffered
  <2>1. ASSUME NEW e \in Recorded(parts)
        PROVE  e \in Recorded(qs) \union EventSet(parts[i].cells)
    <3>1. PICK p \in 1 .. Len(parts) : e \in EventSet(parts[p].cells)
      BY <1>p, RecordedMember
    <3>2. CASE p = i BY <3>1, <3>2
    <3>3. CASE p # i
      <4>1. p \in 1 .. Len(qs) /\ e \in EventSet(qs[p].cells) BY <3>1, <3>3, <1>4
      <4> QED BY <4>1, <1>4, RecordedMember
    <3> QED BY <3>2, <3>3
  <2> QED BY <2>1, <1>2, <1>3 DEF OnDisk, Buffered
<1>20. UnlinkedWasRead'
  <2>1. UnlinkedWasRead BY DEF FileInd, FileKept
  <2>2. dropped' = dropped \union (EventSet(parts[i].cells) \ read) BY <1>1
  <2> QED BY <2>1, <2>2, <1>2, <1>19 DEF UnlinkedWasRead
<1>21. FileKept'
  <2>1. fphase # "closed" => \A k \in 1 .. roffset : parts[1].cells[k][2] = ChunkLen =>
            parts[1].cells[k][1] \in read \union Buffered
    BY DEF FileInd, FileKept
  <2> QED BY <2>1, <1>2, <1>3, <1>5, <1>19, <1>20 DEF FileKept
<1> QED BY <1>13, <1>14, <1>15, <1>16, <1>17, <1>18, <1>21 DEF FileInd


(* Among the parts that are there is a first one. *)
LEMMA FirstOf ==
    ASSUME NEW n \in Nat, NEW S \in SUBSET (1 .. n), S # {}
    PROVE  \E t \in S : \A u \in S : t <= u
<1>f. IsFiniteSet(S)
  <2>1. IsFiniteSet(1 .. n) BY FS_Interval
  <2> QED BY <2>1, FS_Subset
<1>1. PICK T : T = {{u \in S : u <= t} : t \in S} OBVIOUS
<1>2. T \subseteq FiniteSubsetsOf(S) BY <1>1, <1>f, FS_FiniteSubsetsOfFinite
<1>3. T # {} BY <1>1
<1>4. PICK x \in T : \A y \in T : ~ (<<y, x>> \in StrictSubsetOrdering(S))
  BY <1>2, <1>3, <1>f, FS_StrictSubsetOrderingWellFounded, WFMin
<1>5. PICK t \in S : x = {u \in S : u <= t} BY <1>1, <1>4
<1>6. ASSUME NEW u \in S, u < t PROVE FALSE
  <2>1. PICK y : y = {v \in S : v <= u} OBVIOUS
  <2>2. y \in T BY <1>1, <2>1
  <2>3. t \in x /\ t \notin y BY <1>5, <1>6, <2>1
  <2>4. ASSUME NEW v \in y PROVE v \in x
    <3>1. v \in S /\ v \in Int /\ u \in Int /\ t \in Int BY <2>1
    <3> QED BY <1>5, <1>6, <2>1, <3>1
  <2>5. y \in SUBSET S /\ x \in SUBSET S BY <1>5, <2>1
  <2>6. <<y, x>> \in StrictSubsetOrdering(S) BY <2>3, <2>4, <2>5 DEF StrictSubsetOrdering
  <2> QED BY <1>4, <2>2, <2>6
<1> QED BY <1>6

(* The file is opened. *)
LEMMA OpenPartsKeeps ==
    ASSUME FileInd, OpenParts
    PROVE  FileInd'
<1>0. ChunkLen \in Nat \ {0} BY FileAssumption
<1>t. FileTypes /\ FileShape /\ FileDirty BY DEF FileInd
<1> DEFINE present == {i \in 1 .. Len(parts) : ~parts[i].gone}
           first == CHOOSE i \in present : \A j \in present : i <= j
           new == Part(<<>>, 0)
<1>1. /\ fphase = "closed" /\ fphase' = "idle"
      /\ parts' = IF present = {} THEN <<new>> ELSE SubSeq(parts, first, Len(parts))
      /\ rfile' = "null" /\ roffset' = 0 /\ rbuffer' = <<>> /\ ended' = FALSE
      /\ given' = <<>>
      /\ UNCHANGED <<left, full, garbage, wnext, read, dropped, refused, damaged, fileFaults>>
  BY DEF OpenParts
<1>n. new \in FileParts /\ new.cells = <<>> /\ new.dirty = 0 /\ ~new.gone
  BY DEF Part, FileParts
<1>p. /\ parts \in Seq(FileParts) /\ Len(parts) \in Nat
      /\ parts # <<>> => /\ Len(parts) \in 1 .. Len(parts) /\ ~parts[Len(parts)].gone
                         /\ present # {}
  <2>1. parts \in Seq(FileParts) /\ Len(parts) \in Nat BY <1>t DEF FileTypes
  <2>2. parts # <<>> => Len(parts) \in 1 .. Len(parts) BY <2>1
  <2>3. parts # <<>> => ~parts[Len(parts)].gone BY <1>t DEF FileShape
  <2> QED BY <2>1, <2>2, <2>3
<1>2. present # {} => first \in present /\ \A j \in present : first <= j
  <2>1. present \in SUBSET (1 .. Len(parts)) OBVIOUS
  <2>2. present # {} => \E i \in present : \A j \in present : i <= j
    BY <2>1, <1>p, FirstOf
  <2> QED BY <2>2
<1>3. \A j \in 1 .. Len(parts) : j \in present <=> ~parts[j].gone OBVIOUS
<1>4. present \subseteq 1 .. Len(parts) OBVIOUS
<1>5. PICK qs : qs = parts' OBVIOUS
<1>6. PICK P : P = present OBVIOUS
<1>7. PICK f : f = first OBVIOUS
<1> HIDE DEF present, first, new
<1>8. /\ left' = 0 /\ left = 0
      /\ Buffered = {}
  <2>1. left = 0
    <3>1. left \in 0 .. ChunkLen /\ ~(left > 0) BY <1>1, <1>t DEF FileTypes, FileShape
    <3> QED BY <3>1, <1>0
  <2>2. EventSet(<<>>) = {} BY DEF EventSet
  <2>3. rbuffer = <<>> BY <1>1, <1>t DEF FileShape
  <2> QED BY <2>1, <2>2, <2>3, <1>1 DEF Buffered
<1>9. /\ qs \in Seq(FileParts) /\ qs # <<>> /\ ~qs[Len(qs)].gone
      /\ PartsOrder(qs, wnext) /\ StreamOrder(qs, qs[1].cells, wnext)
      /\ WholeParts(parts) => WholeParts(qs)
      /\ Recorded(parts) \subseteq Recorded(qs)
      /\ \A p \in 1 .. Len(qs) :
           /\ qs[p].dirty <= Len(qs[p].cells) /\ qs[p].dirty <= ChunkLen
           /\ qs[p].gone => qs[p].cells = <<>>
           /\ p # 1 /\ p # Len(qs) => qs[p].dirty = 0
           /\ p = Len(qs) => qs[p].dirty + left <= ChunkLen
  <2>0. PartsOrder(parts, wnext) BY DEF FileInd, FileOrdered
  <2>1. CASE present = {}
    <3>1. qs = <<new>> /\ parts = <<>> BY <2>1, <1>1, <1>5, <1>p
    <3>2. /\ qs \in Seq(FileParts) /\ Len(qs) = 1 /\ qs # <<>> /\ qs[1] = new
          /\ (\A p \in 1 .. Len(qs) : p = 1) /\ \A p \in 2 .. Len(qs) : FALSE
      BY <3>1, <1>n
    <3>3. PartsOrder(qs, wnext)
      <4>1. /\ Sorted(<<>>) /\ Behind(<<>>, wnext) /\ Complete(<<>>)
        BY DEF Sorted, Behind, Complete
      <4>2. \A p, q \in 1 .. Len(qs) : ~(p < q) BY <3>2
      <4>3. \A p \in 1 .. Len(qs) : qs[p].cells = <<>> BY <3>2, <1>n
      <4> QED BY <4>1, <4>2, <4>3 DEF PartsOrder
    <3>4. StreamOrder(qs, qs[1].cells, wnext)
      <4>1. 1 \in 1 .. Len(qs) BY <3>2
      <4> QED BY <4>1, <3>2, <3>3 DEF PartsOrder, StreamOrder
    <3>5. WholeParts(qs)
      <4>1. Whole(<<>>) BY DEF Whole
      <4> QED BY <4>1, <3>2, <1>n DEF WholeParts
    <3>6. Recorded(parts) = {}
      <4>1. \A p \in 1 .. Len(parts) : FALSE BY <3>1
      <4> QED BY <4>1, <1>p, RecordedMember
    <3>7. /\ new.dirty = 0 /\ Len(new.cells) = 0 /\ 0 <= 0 /\ 0 <= ChunkLen /\ 0 + left <= ChunkLen
      <4>1. Len(<<>>) = 0 OBVIOUS
      <4> QED BY <4>1, <1>n, <1>0, <1>8
    <3>8. \A p \in 1 .. Len(qs) :
           /\ qs[p].dirty <= Len(qs[p].cells) /\ qs[p].dirty <= ChunkLen
           /\ qs[p].gone => qs[p].cells = <<>>
           /\ p # 1 /\ p # Len(qs) => qs[p].dirty = 0
           /\ p = Len(qs) => qs[p].dirty + left <= ChunkLen
      BY <3>2, <3>7, <1>n
    <3>9. ~qs[Len(qs)].gone BY <3>2, <1>n
    <3> QED BY <3>2, <3>3, <3>4, <3>5, <3>6, <3>8, <3>9
  <2>2. CASE present # {}
    <3>1. /\ qs = SubSeq(parts, f, Len(parts)) /\ f \in 1 .. Len(parts)
          /\ \A j \in 1 .. Len(parts) : ~parts[j].gone => f <= j
      BY <2>2, <1>1, <1>2, <1>3, <1>4, <1>5, <1>7
    <3>2. PICK m \in Nat : f = m + 1 /\ m <= Len(parts) /\ Len(parts) - m \in Nat \ {0}
      <4>1. f - 1 \in Nat /\ f = (f - 1) + 1 /\ f - 1 <= Len(parts)
            /\ Len(parts) - (f - 1) \in Nat \ {0}
        BY <3>1, <1>p
      <4> QED BY <4>1
    <3>3. /\ qs \in Seq(FileParts) /\ Len(qs) = Len(parts) - m
          /\ \A p \in 1 .. Len(qs) : qs[p] = parts[m + p]
      <4>1. m \in 0 .. Len(parts) BY <3>2, <1>p
      <4>2. qs = SubSeq(parts, m + 1, Len(parts)) BY <3>1, <3>2
      <4> QED BY <4>1, <4>2, <1>p, ToSetCut
    <3>4. /\ \A p \in 1 .. Len(qs) : m + p \in 1 .. Len(parts)
          /\ Len(qs) \in Nat \ {0} /\ m + Len(qs) = Len(parts) /\ Len(qs) \in 1 .. Len(qs)
          /\ 1 \in 1 .. Len(qs)
      BY <3>2, <3>3, <1>p
    <3>5. Shrunk(qs, parts, m)
      <4>1. ASSUME NEW p \in 1 .. Len(qs)
            PROVE  /\ m + p \in 1 .. Len(parts)
                   /\ Slice(qs[p].cells, parts[m + p].cells, 0)
        BY <3>3, <3>4, <1>p, PartFields, SliceSelf
      <4> QED BY <4>1, <3>2, <3>3, <1>p DEF Shrunk
    <3>6. qs # <<>> BY <3>4
    <3>7. PartsOrder(qs, wnext) /\ StreamOrder(qs, qs[1].cells, wnext)
      BY <2>0, <3>5, <3>6, ShrunkParts
    <3>8. WholeParts(parts) => WholeParts(qs) BY <3>3, <3>4 DEF WholeParts
    <3>9. ~qs[Len(qs)].gone
      <4>1. parts # <<>> BY <3>1
      <4> QED BY <4>1, <3>3, <3>4, <1>p
    <3>10. Recorded(parts) \subseteq Recorded(qs)
      <4>1. ASSUME NEW e \in Recorded(parts) PROVE e \in Recorded(qs)
        <5>1. PICK j \in 1 .. Len(parts) : e \in EventSet(parts[j].cells)
          BY <1>p, RecordedMember
        <5>2. ~parts[j].gone
          <6>1. EventSet(<<>>) = {} BY DEF EventSet
          <6> QED BY <6>1, <5>1, <1>t DEF FileDirty
        <5>3. j - m \in 1 .. Len(qs) /\ m + (j - m) = j
          <6>1. f <= j BY <5>2, <3>1
          <6>2. j \in Nat /\ j <= Len(parts) /\ Len(parts) \in Nat BY <1>p
          <6> QED BY ONLY <6>1, <6>2, <3>2, <3>3
        <5>4. e \in EventSet(qs[j - m].cells) BY <5>1, <5>3, <3>3
        <5> QED BY <5>3, <5>4, <3>3, RecordedMember
      <4> QED BY <4>1
    <3>11. ASSUME NEW p \in 1 .. Len(qs)
           PROVE  /\ qs[p].dirty <= Len(qs[p].cells) /\ qs[p].dirty <= ChunkLen
                  /\ qs[p].gone => qs[p].cells = <<>>
                  /\ p # 1 /\ p # Len(qs) => qs[p].dirty = 0
                  /\ p = Len(qs) => qs[p].dirty + left <= ChunkLen
      <4>1. PICK r \in 1 .. Len(parts) :
               /\ r = m + p /\ qs[p] = parts[r] /\ (p # 1 => r # 1)
               /\ (p # Len(qs) => r # Len(parts)) /\ (p = Len(qs) => r = Len(parts))
        BY <3>2, <3>3, <3>4
      <4>2. /\ parts[r].dirty <= Len(parts[r].cells) /\ parts[r].dirty <= ChunkLen
            /\ parts[r].gone => parts[r].cells = <<>>
            /\ r # 1 /\ r # Len(parts) => parts[r].dirty = 0
            /\ r = Len(parts) => parts[r].dirty + left <= ChunkLen
        BY <1>t DEF FileDirty
      <4> QED BY ONLY <4>1, <4>2
    <3> QED BY <3>3, <3>6, <3>7, <3>8, <3>9, <3>10, <3>11
  <2> QED BY <2>1, <2>2
<1>10. FileDirty'
  BY <1>5, <1>8, <1>9 DEF FileDirty
<1>11. damaged' \in BOOLEAN /\ (~damaged' => ~damaged /\ WholeParts(qs))
  <2>1. ~damaged => WholeParts(qs) BY <1>9 DEF FileInd, FileSound
  <2> QED BY <2>1, <1>1, <1>t DEF FileTypes
<1>12. UnlinkedWasRead'
  <2>1. UnlinkedWasRead BY DEF FileInd, FileKept
  <2>2. OnDisk \subseteq OnDisk' BY <1>5, <1>9 DEF OnDisk
  <2> QED BY <2>1, <2>2, <1>1, <1>8 DEF UnlinkedWasRead
<1>13. /\ qs = parts' /\ qs \in Seq(FileParts) /\ PartsOrder(qs, wnext)
       /\ qs # <<>> => StreamOrder(qs, qs[1].cells, wnext)
       /\ qs # <<>> => ~qs[Len(qs)].gone
       /\ fphase' = "idle" /\ given' = <<>> /\ qs # <<>>
  BY <1>1, <1>5, <1>9
<1>14. /\ rfile' = "null" /\ roffset' = 0 /\ rbuffer' = <<>> /\ ended' = FALSE /\ left' = 0
       /\ UNCHANGED <<full, garbage, wnext, refused>>
  BY <1>1, <1>8
<1> QED BY <1>10, <1>11, <1>12, <1>13, <1>14, FreshReader

(* Every step. *)
LEMMA FileStep == FileInd /\ [PfNext]_pfVars => FileInd'
<1> SUFFICES ASSUME FileInd, [PfNext]_pfVars PROVE FileInd' OBVIOUS
<1>1. CASE UNCHANGED pfVars BY <1>1, QuietFile
<1>2. CASE OpenParts BY <1>2, OpenPartsKeeps
<1>3. CASE BeginWrite BY <1>3, RefusedKeeps, BeginWriteKeeps
<1>4. CASE WriteStep BY <1>4, WriteKeeps DEF WriteStep
<1>5. CASE BeginRead \/ DiskFull BY <1>5, QuietFile
<1>6. CASE Fetch BY <1>6, OpenFirstKeeps, ReadCellsKeeps, NextFileKeeps, LastEndKeeps DEF Fetch
<1>7. CASE Deliver BY <1>7, DeliverKeeps
<1>8. CASE Skip BY <1>8, SkipKeeps
<1>9. CASE ReadEnd BY <1>9, ReadEndKeeps
<1>10. CASE Close \/ Die BY <1>10, StopsKeep
<1>11. CASE LosePart BY <1>11, LosePartKeeps
<1> QED
  BY <1>1, <1>2, <1>3, <1>4, <1>5, <1>6, <1>7, <1>8, <1>9, <1>10, <1>11
     DEF PfNext, ReadStep

-----------------------------------------------------------------------------
(* What the invariant says about the files. *)

(* As many cells as a record has hold the end of one record at most. *)
LEMMA OneRecord ==
    ASSUME NEW s \in Seq(Cells), Complete(s), NEW d \in Nat, d <= Len(s), d <= ChunkLen
    PROVE  LET t == SubSeq(s, Len(s) - d + 1, Len(s)) IN
           /\ \A e, f \in EventSet(t) : e = f
           /\ d = 0 => EventSet(t) = {}
<1>0. ChunkLen \in Nat \ {0} /\ Len(s) \in Nat BY FileAssumption
<1>1. PICK m \in 0 .. Len(s) : m = Len(s) - d /\ Len(s) - m = d
  <2>1. PICK n \in Nat : n = Len(s) BY <1>0
  <2>2. d \in Nat /\ d <= n BY <2>1
  <2>3. n - d \in 0 .. n /\ n - (n - d) = d BY ONLY <2>1, <2>2
  <2> QED BY <2>1, <2>3
<1>2. PICK t : t = SubSeq(s, m + 1, Len(s)) OBVIOUS
<1>3. /\ t \in Seq(Cells) /\ Len(t) = d
      /\ \A i \in 1 .. Len(t) : m + i \in 1 .. Len(s) /\ t[i] = s[m + i]
  BY <1>1, <1>2, CutSlices DEF Slice
<1>4. ASSUME NEW i \in 1 .. Len(t), NEW j \in 1 .. Len(t), i < j,
             t[i][2] = ChunkLen, t[j][2] = ChunkLen
      PROVE  FALSE
  <2>1. PICK k \in 1 .. Len(s) : k = m + j /\ t[j] = s[k] BY <1>3
  <2>2. \A a \in 1 .. ChunkLen : s[k - ChunkLen + a] = <<s[k][1], a>>
    <3>1. s[k][2] = ChunkLen BY <2>1, <1>4
    <3> QED BY <3>1 DEF Complete
  <2>3. /\ i \in Nat /\ j \in Nat /\ 1 <= i /\ i < j /\ j <= d /\ d <= ChunkLen
        /\ d \in Nat /\ ChunkLen \in Nat /\ m \in Nat /\ k = m + j
    BY <1>0, <1>1, <1>3, <1>4, <2>1
  <2>4. /\ i - j + ChunkLen \in 1 .. ChunkLen /\ i - j + ChunkLen # ChunkLen
        /\ k - ChunkLen + (i - j + ChunkLen) = m + i
    BY ONLY <2>3
  <2>5. PICK a \in 1 .. ChunkLen : a # ChunkLen /\ k - ChunkLen + a = m + i
    BY ONLY <2>4
  <2>6. s[m + i] = <<s[k][1], a>> BY <2>2, <2>5
  <2>7. s[m + i][2] = a BY <2>6
  <2>8. t[i] = s[m + i] BY <1>3
  <2> QED BY <2>5, <2>7, <2>8, <1>4
<1>5. ASSUME NEW e \in EventSet(t), NEW f \in EventSet(t) PROVE e = f
  <2>1. PICK i \in 1 .. Len(t) : t[i][2] = ChunkLen /\ e = t[i][1] BY <1>3, EventSetMember
  <2>2. PICK j \in 1 .. Len(t) : t[j][2] = ChunkLen /\ f = t[j][1] BY <1>3, EventSetMember
  <2>3. i < j \/ j < i \/ i = j BY <1>3
  <2>4. i = j BY <2>1, <2>2, <2>3, <1>4
  <2> QED BY <2>1, <2>2, <2>4
<1>6. ASSUME d = 0 PROVE EventSet(t) = {}
  <2>1. \A i \in 1 .. Len(t) : FALSE BY <1>3, <1>6
  <2> QED BY <2>1, <1>3, EventSetMember
<1> QED BY <1>1, <1>2, <1>5, <1>6

(* In a sound file a crash loses two records at most. *)
LEMMA FewRecords == FileInd => FewAtRisk
<1> SUFFICES ASSUME FileInd, ~damaged PROVE Cardinality(AtRisk) <= 2 BY DEF FewAtRisk
<1>t. FileTypes /\ FileDirty /\ parts \in Seq(FileParts) /\ Len(parts) \in Nat
  BY DEF FileInd, FileTypes
<1>1. \A p \in 1 .. Len(parts) :
         /\ parts[p].cells \in Seq(Cells) /\ parts[p].dirty \in Nat
         /\ parts[p].dirty <= Len(parts[p].cells) /\ parts[p].dirty <= ChunkLen
         /\ p # 1 /\ p # Len(parts) => parts[p].dirty = 0
         /\ Complete(parts[p].cells)
  BY <1>t, PartFields DEF FileDirty, FileInd, FileOrdered, PartsOrder
<1> DEFINE Ends(p) == EventSet(SubSeq(parts[p].cells,
                          Len(parts[p].cells) - parts[p].dirty + 1, Len(parts[p].cells)))
<1>2. ASSUME NEW p \in 1 .. Len(parts)
      PROVE  /\ \A e, f \in Ends(p) : e = f
             /\ p # 1 /\ p # Len(parts) => Ends(p) = {}
  BY <1>1, OneRecord
<1>3. Buffered \subseteq OnDisk
  <2>1. ASSUME NEW e \in EventSet(rbuffer) PROVE e \in Recorded(parts)
    <3>1. rbuffer \in Seq(Cells) BY <1>t DEF FileTypes
    <3>2. PICK j \in 1 .. Len(rbuffer) : rbuffer[j][2] = ChunkLen /\ e = rbuffer[j][1]
      BY <3>1, EventSetMember
    <3>3. PICK i \in 1 .. Len(parts[1].cells) : parts[1].cells[i] = rbuffer[j]
      BY DEF FileInd, FileSound
    <3>4. 1 \in 1 .. Len(parts)
      <4>1. rbuffer # <<>> BY <3>2
      <4>2. parts # <<>> BY <4>1 DEF FileInd, FileShape
      <4> QED BY <4>2, <1>t
    <3>5. e \in EventSet(parts[1].cells) BY <3>2, <3>3, <3>4, <1>1, EventSetMember
    <3> QED BY <3>4, <3>5, <1>t, RecordedMember
  <2> QED BY <2>1 DEF Buffered, OnDisk
<1>4. AtRisk = UNION {Ends(p) : p \in 1 .. Len(parts)} BY <1>3 DEF AtRisk
<1> HIDE DEF Ends
<1>5. PICK a : \A p \in 1 .. Len(parts) : p = 1 => \A e \in Ends(p) : e = a
  <2>1. CASE Ends(1) = {} BY <2>1
  <2>2. CASE Ends(1) # {} /\ 1 \in 1 .. Len(parts)
    <3>1. PICK a : a \in Ends(1) BY <2>2
    <3>2. \A e \in Ends(1) : e = a BY <3>1, <2>2, <1>2
    <3> QED BY <3>2
  <2>3. CASE 1 \notin 1 .. Len(parts) BY <2>3
  <2> QED BY <2>1, <2>2, <2>3
<1>6. PICK b : \A p \in 1 .. Len(parts) : p = Len(parts) => \A e \in Ends(p) : e = b
  <2>1. CASE Ends(Len(parts)) = {} BY <2>1
  <2>2. CASE Ends(Len(parts)) # {} /\ Len(parts) \in 1 .. Len(parts)
    <3>1. PICK b : b \in Ends(Len(parts)) BY <2>2
    <3>2. \A e \in Ends(Len(parts)) : e = b BY <3>1, <2>2, <1>2
    <3> QED BY <3>2
  <2>3. CASE Len(parts) \notin 1 .. Len(parts) BY <2>3
  <2> QED BY <2>1, <2>2, <2>3
<1>7. AtRisk \subseteq {a, b}
  <2>1. ASSUME NEW e \in AtRisk PROVE e \in {a, b}
    <3>1. PICK p \in 1 .. Len(parts) : e \in Ends(p) BY <1>4
    <3>2. p = 1 \/ p = Len(parts) BY <3>1, <1>2
    <3> QED BY <3>1, <3>2, <1>5, <1>6
  <2> QED BY <2>1
<1>8. IsFiniteSet({a, b}) /\ Cardinality({a, b}) \in Nat /\ Cardinality({a, b}) <= 2
  <2>1. IsFiniteSet({a}) /\ Cardinality({a}) = 1 BY FS_Singleton
  <2>2. IsFiniteSet({a} \union {b})
        /\ Cardinality({a} \union {b})
              = IF b \in {a} THEN Cardinality({a}) ELSE Cardinality({a}) + 1
    BY <2>1, FS_AddElement
  <2>3. {a} \union {b} = {a, b} OBVIOUS
  <2>4. PICK c : c = Cardinality({a, b}) OBVIOUS
  <2>5. c = IF b \in {a} THEN 1 ELSE 1 + 1 BY ONLY <2>1, <2>2, <2>3, <2>4
  <2>6. c \in Nat /\ c <= 2 BY ONLY <2>5
  <2>7. IsFiniteSet({a, b}) BY ONLY <2>2, <2>3
  <2> QED BY ONLY <2>4, <2>6, <2>7
<1>9. Cardinality(AtRisk) <= Cardinality({a, b}) /\ Cardinality(AtRisk) \in Nat
  BY <1>7, <1>8, FS_Subset, FS_CardinalityType
<1> QED BY <1>8, <1>9

(* The invariant of the runs. *)
LEMMA FileIndSays == FileInd => FileInv
<1> SUFFICES ASSUME FileInd PROVE FileInv OBVIOUS
<1>1. PfTypeOK BY DEF FileInd, FileTypes, FileShape, PfTypeOK
<1>2. ReadInOrder BY DEF FileInd, GivenOrdered, ReadInOrder
<1>3. FewAtRisk BY FewRecords
<1>4. RefusedOnlyDamaged BY DEF FileInd, FileSound, RefusedOnlyDamaged
<1>5. UnlinkedWasRead BY DEF FileInd, FileKept
<1> QED BY <1>1, <1>2, <1>3, <1>4, <1>5 DEF FileInv

(* The queue and memory files, for any number of events, parts, restarts   *)
(* and faults, any size of a record, of a part and of a read, and whatever *)
(* bytes a torn record is read as: events are given out once and in the    *)
(* order they were written; a part is unlinked only after its events were  *)
(* given out or a fault dropped them; and while no record was torn, a      *)
(* crash loses two events at most and no write is refused.                 *)
THEOREM FilesKept == PfSpec => []FileInv
<1>1. PfInit => FileInd BY FileInitInd
<1>2. FileInd /\ [PfNext]_pfVars => FileInd' BY FileStep
<1>3. FileInd => FileInv BY FileIndSays
<1> QED BY <1>1, <1>2, <1>3, PTL DEF PfSpec

=============================================================================
