------------------------- MODULE BamReportingProofs -------------------------
(***************************************************************************)
(* The invariant of BamReporting, for any number of business activities,   *)
(* days, events, rebuilds and faults.                                      *)
(*                                                                         *)
(* What it lacks to be inductive: who holds the mutex of the availability  *)
(* thread; that deleted durations are still to be computed, by a stream    *)
(* that is connected; that the days a build has not written yet have no    *)
(* row; and that what is left of a dump in the queue goes on where the     *)
(* cache of the stream has stopped.                                        *)
(*                                                                         *)
(* The second part is about Ba: the totals of a business activity as sums  *)
(* over the impacts it caches, and what is missing for the downtimes: that *)
(* the last command sent about a BA asks for what it inherits, and that    *)
(* its event has its downtime flag.                                        *)
(***************************************************************************)
EXTENDS BamReporting, Ba, TLAPS, FiniteSetTheorems, WellFoundedInduction

(* The mutex belongs to the thread that builds, or to the rebuild.         *)
Locks ==
    /\ Building <=> mutex = "thread"
    /\ spc = "rebuild" <=> mutex = "stream"
    /\ spc = "off" => apc = "ended"

(* The stream ends, and a connection breaks, only by a fault.              *)
Faulty ==
    /\ spc \in {"terminate", "join", "off"} => faults # 0
    /\ broken # {} => faults # 0

(* The message the stream is in the middle of. *)
Busy ==
    /\ spc = "durations" => pos < Len(queue) /\ Message.type = "ba"
    /\ spc \in {"rebuild", "ask"} => pos < Len(queue) /\ Message.type = "rebuild"

(* Deleted durations are still to be computed, and are not committed.      *)
Deletions ==
    /\ \A e \in durable.events : e.durations # "deleted"
    /\ \A e \in db.events : e.durations = "deleted" =>
          spc = "rebuild" /\ Connected /\ <<e.ba, e.start>> \in todo

(* A build writes only days that have no row, of the BAs it is for.        *)
ForBa(b) == should.rebuild => b \in should.bas
Rows ==
    /\ \A k \in Bas \X Days : db.rows[k] <= 1 /\ durable.rows[k] <= 1
    /\ apc \in {"closed", "opened"} /\ "thread" \notin broken =>
          \A b \in Bas, d \in Days : d >= first /\ ForBa(b) => db.rows[<<b, d>>] = 0
    /\ apc = "opened" => \A b \in found : ForBa(b)

(* Nothing but the next message decides what the cache must have.          *)
Follows(k) ==
    /\ queue[k].type = "dimension" =>
          IF k = pos + 1 THEN memory.processing ELSE queue[k - 1].type = "truncate_start"
    /\ queue[k].type = "truncate_end" =>
          IF k = pos + 1 THEN memory.cache ELSE queue[k - 1].type = "dimension"
Dumps ==
    faults = 0 => /\ db.periods /\ memory.periods
                  /\ \A k \in pos + 1 .. Len(queue) : Follows(k)

ReportingInd == ReportingTypeOK /\ Locks /\ Faulty /\ Busy /\ Deletions /\ Rows /\ Dumps

-----------------------------------------------------------------------------
(* A finite set of numbers has a least and a greatest one: the sets of those *)
(* below each of them are well-founded.                                       *)
LEMMA HasLeast ==
    ASSUME NEW S \in SUBSET Int, IsFiniteSet(S), S # {}
    PROVE  \E t \in S : \A u \in S : t <= u
  <1>1. PICK T : T = {{u \in S : u <= t} : t \in S}
    OBVIOUS
  <1>2. T \subseteq FiniteSubsetsOf(S)
    BY <1>1, FS_FiniteSubsetsOfFinite
  <1>3. T # {}
    BY <1>1
  <1>4. PICK x \in T : \A y \in T : ~ (<<y, x>> \in StrictSubsetOrdering(S))
    BY <1>2, <1>3, FS_StrictSubsetOrderingWellFounded, WFMin
  <1>5. PICK t \in S : x = {u \in S : u <= t}
    BY <1>1, <1>4
  <1>6. ASSUME NEW u \in S, u < t PROVE FALSE
    <2>1. PICK y : y = {v \in S : v <= u}
      OBVIOUS
    <2>2. y \in T
      BY <1>1, <2>1
    <2>5. t \in x /\ t \notin y
      BY <1>5, <1>6, <2>1
    <2>6. ASSUME NEW v \in y PROVE v \in x
      <3>1. v \in S /\ v \in Int /\ u \in Int /\ t \in Int
        BY <2>1
      <3> QED BY <1>5, <1>6, <2>1, <3>1
    <2>3. y \in SUBSET S /\ x \in SUBSET S
      BY <1>5, <2>1
    <2>4. <<y, x>> \in StrictSubsetOrdering(S)
      BY <2>3, <2>5, <2>6 DEF StrictSubsetOrdering
    <2> QED BY <1>4, <2>2, <2>4
  <1> QED BY <1>6

(* ...and the sets of those above. *)
LEMMA HasGreatest ==
    ASSUME NEW S \in SUBSET Int, IsFiniteSet(S), S # {}
    PROVE  \E t \in S : \A u \in S : u <= t
  <1>1. PICK T : T = {{u \in S : t <= u} : t \in S}
    OBVIOUS
  <1>2. T \subseteq FiniteSubsetsOf(S)
    BY <1>1, FS_FiniteSubsetsOfFinite
  <1>3. T # {}
    BY <1>1
  <1>4. PICK x \in T : \A y \in T : ~ (<<y, x>> \in StrictSubsetOrdering(S))
    BY <1>2, <1>3, FS_StrictSubsetOrderingWellFounded, WFMin
  <1>5. PICK t \in S : x = {u \in S : t <= u}
    BY <1>1, <1>4
  <1>6. ASSUME NEW u \in S, t < u PROVE FALSE
    <2>1. PICK y : y = {v \in S : u <= v}
      OBVIOUS
    <2>2. y \in T
      BY <1>1, <2>1
    <2>5. t \in x /\ t \notin y
      BY <1>5, <1>6, <2>1
    <2>6. ASSUME NEW v \in y PROVE v \in x
      <3>1. v \in S /\ v \in Int /\ u \in Int /\ t \in Int
        BY <2>1
      <3> QED BY <1>5, <1>6, <2>1, <3>1
    <2>3. y \in SUBSET S /\ x \in SUBSET S
      BY <1>5, <2>1
    <2>4. <<y, x>> \in StrictSubsetOrdering(S)
      BY <2>3, <2>5, <2>6 DEF StrictSubsetOrdering
    <2> QED BY <1>4, <2>2, <2>4
  <1> QED BY <1>6

-----------------------------------------------------------------------------
(* The tables. *)

(* Other events, other rows, other periods. *)
LEMMA EventsOf ==
    ASSUME NEW t \in Tables, NEW X \in SUBSET BaEvents
    PROVE  /\ [t EXCEPT !.events = X] \in Tables
           /\ [t EXCEPT !.events = X].events = X
           /\ [t EXCEPT !.events = X].rows = t.rows
           /\ [t EXCEPT !.events = X].periods = t.periods
  BY DEF Tables

(* Other rows. *)
LEMMA RowsOf ==
    ASSUME NEW t \in Tables, NEW R \in [Bas \X Days -> 0..2]
    PROVE  /\ [t EXCEPT !.rows = R] \in Tables
           /\ [t EXCEPT !.rows = R].rows = R
           /\ [t EXCEPT !.rows = R].events = t.events
           /\ [t EXCEPT !.rows = R].periods = t.periods
  BY DEF Tables

(* Other dimension tables. *)
LEMMA PeriodsOf ==
    ASSUME NEW t \in Tables, NEW p \in BOOLEAN
    PROVE  /\ [t EXCEPT !.periods = p] \in Tables
           /\ [t EXCEPT !.periods = p].periods = p
           /\ [t EXCEPT !.periods = p].events = t.events
           /\ [t EXCEPT !.periods = p].rows = t.rows
  BY DEF Tables

(* An event is written, or written again. *)
LEMMA StoreEventGives ==
    ASSUME NEW events \in SUBSET BaEvents, NEW m \in Messages, m.type = "ba"
    PROVE  /\ StoreEvent(events, m) \in SUBSET BaEvents
           /\ (\A e \in events : e.durations # "deleted") =>
                 \A e \in StoreEvent(events, m) : e.durations # "deleted"
  <1>1. m.ba \in Bas /\ m.start \in Days /\ m.end \in {NoEnd} \cup Days
    BY DEF Messages
  <1>2. [ba |-> m.ba, start |-> m.start, end |-> m.end, durations |-> "none"] \in BaEvents
    BY <1>1 DEF BaEvents
  <1>3. \A e \in events : /\ [e EXCEPT !.end = m.end] \in BaEvents
                          /\ [e EXCEPT !.end = m.end].durations = e.durations
    BY <1>1 DEF BaEvents
  <1>4. ASSUME NEW f \in StoreEvent(events, m)
        PROVE  f \in BaEvents /\ (f.durations = "none" \/ \E e \in events : f.durations = e.durations)
    <2>1. CASE f = [ba |-> m.ba, start |-> m.start, end |-> m.end, durations |-> "none"]
      BY <1>2, <2>1
    <2>2. CASE f \in events
      BY <2>2
    <2>3. CASE \E e \in events : f = [e EXCEPT !.end = m.end]
      BY <1>3, <2>3
    <2> QED BY <1>4, <2>1, <2>2, <2>3 DEF StoreEvent
  <1> QED BY <1>4

(* The durations of an event are computed: it is not one of the deleted    *)
(* ones any more.                                                          *)
LEMMA StoreDurationsGives ==
    ASSUME NEW events \in SUBSET BaEvents, NEW b, NEW start
    PROVE  /\ StoreDurations(events, b, start) \in SUBSET BaEvents
           /\ \A f \in StoreDurations(events, b, start) :
                 f.durations = "deleted" => f \in events /\ ~Same(f, b, start)
  <1>1. ASSUME NEW f \in StoreDurations(events, b, start)
        PROVE  f \in BaEvents /\ (f.durations = "deleted" => f \in events /\ ~Same(f, b, start))
    <2>1. PICK e \in events :
             f = IF ~Same(e, b, start) THEN e
                 ELSE [e EXCEPT !.durations =
                           IF start < e.end /\ memory.periods THEN "computed"
                           ELSE IF @ = "deleted" THEN "none" ELSE @]
      BY <1>1 DEF StoreDurations
    <2>2. CASE ~Same(e, b, start)
      BY <2>1, <2>2
    <2>3. CASE Same(e, b, start)
      <3>1. e \in BaEvents /\ e.durations \in {"none", "computed", "deleted"}
        BY DEF BaEvents
      <3>2. PICK d : d = IF start < e.end /\ memory.periods THEN "computed"
                         ELSE IF e.durations = "deleted" THEN "none" ELSE e.durations
        OBVIOUS
      <3>3. d \in {"none", "computed"}
        BY <3>1, <3>2
      <3>4. f = [e EXCEPT !.durations = d]
        BY <2>1, <2>3, <3>2
      <3>5. f \in BaEvents /\ f.durations = d
        BY <3>1, <3>3, <3>4 DEF BaEvents
      <3> QED BY <3>3, <3>5
    <2> QED BY <2>2, <2>3
  <1> QED BY <1>1

(* Open events are closed when the stream is constructed. *)
LEMMA CloseAllGives ==
    ASSUME NEW events \in SUBSET BaEvents, day \in Days
    PROVE  /\ CloseAllEvents(events) \in SUBSET BaEvents
           /\ (\A e \in events : e.durations # "deleted") =>
                 \A e \in CloseAllEvents(events) : e.durations # "deleted"
  <1>1. ASSUME NEW f \in CloseAllEvents(events)
        PROVE  f \in BaEvents /\ \E e \in events : f.durations = e.durations
    <2>1. PICK e \in events :
             f = IF e.end # NoEnd THEN e
                 ELSE [e EXCEPT !.end =
                           IF Later(events, e) = {} THEN day
                           ELSE CHOOSE t \in Later(events, e) :
                                    \A u \in Later(events, e) : t <= u]
      BY <1>1 DEF CloseAllEvents
    <2>2. CASE e.end # NoEnd
      BY <2>1, <2>2
    <2>3. CASE e.end = NoEnd
      <3>1. PICK t : t = IF Later(events, e) = {} THEN day
                         ELSE CHOOSE v \in Later(events, e) :
                                  \A u \in Later(events, e) : v <= u
        OBVIOUS
      <3>2. t \in Days
        <4>1. CASE Later(events, e) = {}
          BY <3>1, <4>1
        <4>2. CASE Later(events, e) # {}
          <5>1. Later(events, e) \subseteq Days
            BY DEF Later, BaEvents
          <5>2. IsFiniteSet(Days) /\ Days \subseteq Int
            BY ReportingAssumption, FS_Interval DEF Days
          <5>3. \E v \in Later(events, e) : \A u \in Later(events, e) : v <= u
            BY <4>2, <5>1, <5>2, FS_Subset, HasLeast
          <5> QED BY <3>1, <4>2, <5>1, <5>3
        <4> QED BY <4>1, <4>2
      <3>3. f = [e EXCEPT !.end = t]
        BY <2>1, <2>3, <3>1
      <3> QED BY <3>2, <3>3 DEF BaEvents
    <2> QED BY <2>2, <2>3
  <1> QED BY <1>1

(* The next message. *)
LEMMA NextMessage ==
    ASSUME ReportingTypeOK, pos < Len(queue)
    PROVE  /\ Message \in Messages /\ Len(queue) \in Nat /\ pos \in Nat
           /\ pos + 1 \in 0..Len(queue) /\ pos + 1 \in pos + 1..Len(queue)
  <1>1. queue \in Seq(Messages) /\ pos \in 0..Len(queue)
    BY DEF ReportingTypeOK
  <1>2. Len(queue) \in Nat
    BY <1>1
  <1>3. pos \in Nat /\ pos + 1 \in 1..Len(queue)
    BY <1>1, <1>2
  <1>4. queue[pos + 1] \in Messages
    BY <1>1, <1>3
  <1> QED BY <1>2, <1>3, <1>4 DEF Message

(* What the tables are after the steps of the stream that write events. *)
LEMMA ConstructTables ==
    ASSUME ReportingTypeOK, Construct
    PROVE  /\ db' \in Tables /\ db'.rows = db.rows /\ db'.periods = db.periods
           /\ db'.events = CloseAllEvents(db.events) /\ durable' = durable
  <1>1. db \in Tables /\ db.events \in SUBSET BaEvents
    BY DEF ReportingTypeOK, Tables
  <1>2. PICK X : X = CloseAllEvents(db.events)
    OBVIOUS
  <1>3. X \in SUBSET BaEvents
    BY <1>1, <1>2, CloseAllGives DEF ReportingTypeOK
  <1>4. db' = [db EXCEPT !.events = X] /\ durable' = durable
    BY <1>2 DEF Construct
  <1> QED BY <1>1, <1>2, <1>3, <1>4, EventsOf

(* An event of a BA is written. *)
LEMMA EventTables ==
    ASSUME ReportingTypeOK, WriteBaEvent
    PROVE  /\ db' \in Tables /\ db'.rows = db.rows /\ db'.periods = db.periods
           /\ db'.events = StoreEvent(db.events, Message) /\ durable' = durable
           /\ Message \in Messages /\ Message.type = "ba"
  <1>1. db \in Tables /\ db.events \in SUBSET BaEvents
    BY DEF ReportingTypeOK, Tables
  <1>2. PICK X : X = StoreEvent(db.events, Message)
    OBVIOUS
  <1>3. Message \in Messages /\ Message.type = "ba"
    BY NextMessage DEF WriteBaEvent, NextIs
  <1>4. X \in SUBSET BaEvents
    BY <1>1, <1>2, <1>3, StoreEventGives
  <1>5. db' = [db EXCEPT !.events = X] /\ durable' = durable
    BY <1>2 DEF WriteBaEvent
  <1> QED BY <1>1, <1>2, <1>3, <1>4, <1>5, EventsOf

(* The durations of an event are computed. *)
LEMMA DurationTables ==
    ASSUME ReportingTypeOK, NEW b, NEW start,
           db' = [db EXCEPT !.events = StoreDurations(@, b, start)]
    PROVE  /\ db' \in Tables /\ db'.rows = db.rows /\ db'.periods = db.periods
           /\ db'.events = StoreDurations(db.events, b, start)
  <1>1. db \in Tables /\ db.events \in SUBSET BaEvents
    BY DEF ReportingTypeOK, Tables
  <1>2. PICK X : X = StoreDurations(db.events, b, start)
    OBVIOUS
  <1>3. X \in SUBSET BaEvents
    BY <1>1, <1>2, StoreDurationsGives
  <1>4. db' = [db EXCEPT !.events = X]
    BY <1>2
  <1> QED BY <1>1, <1>2, <1>3, <1>4, EventsOf

(* A rebuild deletes durations, and is to compute all of them again. *)
LEMMA RebuildTables ==
    ASSUME ReportingTypeOK, RebuildLocks, \A e \in db.events : e.durations # "deleted"
    PROVE  /\ db' \in Tables /\ db'.rows = db.rows /\ db'.periods = db.periods
           /\ durable' = durable
           /\ \A f \in db'.events : f.durations = "deleted" => <<f.ba, f.start>> \in todo'
           /\ todo' \in SUBSET (Bas \X Days)
           /\ Message \in Messages /\ Message.type = "rebuild" /\ pos < Len(queue)
  <1>1. db \in Tables /\ db.events \in SUBSET BaEvents
    BY DEF ReportingTypeOK, Tables
  <1>2. PICK X : X = {IF e.ba \in Message.bas /\ e.durations = "computed"
                      THEN [e EXCEPT !.durations = IF e.end = NoEnd THEN "none" ELSE "deleted"]
                      ELSE e : e \in db.events}
    OBVIOUS
  <1>3. /\ db' = [db EXCEPT !.events = X] /\ durable' = durable
        /\ todo' = {<<e.ba, e.start>> :
                      e \in {f \in db.events : f.ba \in Message.bas /\ f.end # NoEnd}}
        /\ pos < Len(queue) /\ Message.type = "rebuild"
    BY <1>2 DEF RebuildLocks, StartRebuild, NextIs
  <1>4. ASSUME NEW f \in X
        PROVE  f \in BaEvents /\ (f.durations = "deleted" => <<f.ba, f.start>> \in todo')
    <2>1. PICK e \in db.events :
             f = IF e.ba \in Message.bas /\ e.durations = "computed"
                 THEN [e EXCEPT !.durations = IF e.end = NoEnd THEN "none" ELSE "deleted"]
                 ELSE e
      BY <1>2, <1>4
    <2>2. e \in BaEvents
      BY <1>1
    <2>3. CASE ~(e.ba \in Message.bas /\ e.durations = "computed")
      BY <2>1, <2>2, <2>3
    <2>4. CASE e.ba \in Message.bas /\ e.durations = "computed"
      <3>1. PICK d : d = IF e.end = NoEnd THEN "none" ELSE "deleted"
        OBVIOUS
      <3>2. f = [e EXCEPT !.durations = d] /\ d \in {"none", "deleted"}
        BY <2>1, <2>4, <3>1
      <3>3. f \in BaEvents /\ f.ba = e.ba /\ f.start = e.start /\ f.durations = d
        BY <2>2, <3>2 DEF BaEvents
      <3> QED BY <1>3, <2>4, <3>1, <3>3
    <2> QED BY <2>3, <2>4
  <1>5. todo' \in SUBSET (Bas \X Days)
    BY <1>1, <1>3 DEF BaEvents
  <1>6. X \in SUBSET BaEvents
    BY <1>4
  <1>7. db' \in Tables /\ db'.rows = db.rows /\ db'.periods = db.periods /\ db'.events = X
    BY <1>1, <1>3, <1>6, EventsOf
  <1> QED BY <1>3, <1>4, <1>5, <1>7, NextMessage

(* The end of a dump. *)
LEMMA TruncateTables ==
    ASSUME ReportingTypeOK, TruncateEnd
    PROVE  /\ db' \in Tables /\ db'.rows = db.rows /\ db'.events = db.events
           /\ db'.periods = memory.cache /\ durable' = db'
  <1>1. db \in Tables /\ memory.cache \in BOOLEAN
    BY DEF ReportingTypeOK
  <1>2. db' = [db EXCEPT !.periods = memory.cache] /\ durable' = db'
    BY DEF TruncateEnd
  <1> QED BY <1>1, <1>2, PeriodsOf

(* The other steps of the stream leave the tables alone; some commit.      *)
LEMMA OtherTables ==
    ASSUME TruncateStart \/ WriteDimension \/ EndRebuild \/ RebuildAvailabilities \/ Throw
             \/ Terminate \/ Joined \/ Flush \/ Destroy
    PROVE  db' = db /\ durable' \in {durable, db}
  BY DEF TruncateStart, WriteDimension, EndRebuild, RebuildAvailabilities, Throw, Terminate,
         Joined, Flush, Destroy

(* The days a build begins with, and those it does not reach. *)
LEMMA SomeDays ==
    ASSUME NEW S \in SUBSET Days, S # {}
    PROVE  /\ Least(S) \in S /\ Greatest(S) \in S
           /\ \A d \in S : d <= Greatest(S)
  <1>1. IsFiniteSet(Days) /\ Days \subseteq Int
    BY ReportingAssumption, FS_Interval DEF Days
  <1>2. IsFiniteSet(S) /\ S \in SUBSET Int
    BY <1>1, FS_Subset
  <1> QED BY <1>2, HasLeast, HasGreatest DEF Least, Greatest

(* The tables when a build begins: from its first day on nothing is there. *)
LEMMA PlanTables ==
    ASSUME ReportingTypeOK, Rows, Plan
    PROVE  /\ db' \in Tables /\ db'.events = db.events /\ db'.periods = db.periods
           /\ durable' = durable /\ first' \in Nat /\ last' \in Days
           /\ \A k \in Bas \X Days : db'.rows[k] <= 1
           /\ \A b \in Bas, d \in Days :
                 d >= first' /\ ForBa(b) => db'.rows[<<b, d>>] = 0
  <1>1. db \in Tables /\ should.bas \in SUBSET Bas /\ day \in Days /\ db.events \in SUBSET BaEvents
        /\ db.rows \in [Bas \X Days -> 0..2]
    BY DEF ReportingTypeOK, Tables
  <1>2. Days \subseteq Nat /\ 1 \in Days
    BY ReportingAssumption DEF Days
  <1>3. \A k \in Bas \X Days : db.rows[k] <= 1
    BY DEF Rows
  <1>4. PICK E : E = {e \in db.events : e.ba \in should.bas}
    OBVIOUS
  <1>5. E \subseteq BaEvents
    BY <1>1, <1>4
  <1>6. CASE should.rebuild
    <2>1. /\ first' = IF E = {} THEN 1 ELSE Least(Starts(E))
          /\ last' = IF E = {} \/ NoEnd \in Ends(E) THEN day ELSE Greatest(Ends(E))
          /\ db' = [db EXCEPT !.rows = [k \in Bas \X Days |->
                                           IF k[1] \in should.bas THEN 0 ELSE @[k]]]
          /\ durable' = durable
      BY <1>4, <1>6 DEF Plan
    <2>2. first' \in Nat
      <3>1. CASE E = {}
        BY <2>1, <3>1
      <3>2. CASE E # {}
        <4>1. Starts(E) \subseteq Days /\ Starts(E) # {}
          BY <1>5, <3>2 DEF Starts, BaEvents
        <4> QED BY <1>2, <2>1, <3>2, <4>1, SomeDays
      <3> QED BY <3>1, <3>2
    <2>3. last' \in Days
      <3>1. CASE E = {} \/ NoEnd \in Ends(E)
        BY <1>1, <2>1, <3>1
      <3>2. CASE E # {} /\ NoEnd \notin Ends(E)
        <4>1. Ends(E) \subseteq Days /\ Ends(E) # {}
          BY <1>5, <3>2 DEF Ends, BaEvents
        <4> QED BY <2>1, <3>2, <4>1, SomeDays
      <3> QED BY <3>1, <3>2
    <2>4. PICK R : R = [k \in Bas \X Days |-> IF k[1] \in should.bas THEN 0 ELSE db.rows[k]]
      OBVIOUS
    <2>5. R \in [Bas \X Days -> 0..2]
      BY <1>1, <2>4
    <2>6. db' = [db EXCEPT !.rows = R]
      BY <2>1, <2>4
    <2>7. db' \in Tables /\ db'.rows = R /\ db'.events = db.events /\ db'.periods = db.periods
      BY <1>1, <2>5, <2>6, RowsOf
    <2>8. \A k \in Bas \X Days : R[k] <= 1
      BY <1>3, <2>4
    <2>9. \A b \in Bas, d \in Days : ForBa(b) => R[<<b, d>>] = 0
      BY <1>6, <2>4 DEF ForBa
    <2> QED BY <2>1, <2>2, <2>3, <2>7, <2>8, <2>9
  <1>7. CASE ~should.rebuild
    <2>1. /\ first' = IF DaysWritten = {} THEN 1 ELSE Greatest(DaysWritten) + 1
          /\ last' = day /\ db' = db /\ durable' = durable
      BY <1>7 DEF Plan
    <2>2. DaysWritten \subseteq Days
      BY DEF DaysWritten
    <2>3. first' \in Nat /\ \A d \in DaysWritten : d < first'
      <3>1. CASE DaysWritten = {}
        BY <2>1, <3>1
      <3>2. CASE DaysWritten # {}
        <4>1. Greatest(DaysWritten) \in Nat /\ \A d \in DaysWritten : d <= Greatest(DaysWritten)
          BY <1>2, <2>2, <3>2, SomeDays
        <4>2. first' = Greatest(DaysWritten) + 1
          BY <2>1, <3>2
        <4>3. \A d \in DaysWritten : d \in Nat
          BY <1>2, <2>2
        <4> QED BY <4>1, <4>2, <4>3
      <3> QED BY <3>1, <3>2
    <2>4. ASSUME NEW b \in Bas, NEW d \in Days, d >= first' PROVE db.rows[<<b, d>>] = 0
      <3>1. d \notin DaysWritten
        BY <1>2, <2>3, <2>4
      <3>2. ~(db.rows[<<b, d>>] > 0)
        BY <3>1 DEF DaysWritten
      <3>3. db.rows[<<b, d>>] \in 0..2
        BY <1>1
      <3> QED BY <3>2, <3>3
    <2> QED BY <1>1, <1>3, <2>1, <2>3, <2>4
  <1> QED BY <1>6, <1>7

(* The rows of a day. *)
LEMMA WriteDayTables ==
    ASSUME ReportingTypeOK, Rows, WriteDay
    PROVE  /\ db' \in Tables /\ db'.events = db.events /\ db'.periods = db.periods
           /\ durable' = durable
           /\ \A k \in Bas \X Days : db'.rows[k] <= 1
           /\ \A b \in Bas, d \in Days :
                 d >= first' /\ ForBa(b) => db'.rows[<<b, d>>] = 0
  <1>1. PICK open : open = {e.ba : e \in {f \in db.events :
                                           /\ Concerned(f) /\ memory.periods
                                           /\ f.end = NoEnd /\ f.start <= first}}
    OBVIOUS
  <1>2. /\ db' = [db EXCEPT !.rows = [k \in Bas \X Days |->
                                         IF k[1] \in found \cup open /\ k[2] = first
                                         THEN @[k] + 1 ELSE @[k]]]
        /\ durable' = durable /\ first' = first + 1 /\ apc = "opened" /\ "thread" \notin broken
    BY <1>1 DEF WriteDay
  <1>3. db \in Tables /\ db.rows \in [Bas \X Days -> 0..2] /\ first \in Nat /\ Days \subseteq Nat
    BY DEF ReportingTypeOK, Tables, Days
  <1>4. \A b \in found \cup open : ForBa(b)
    BY <1>1, <1>2 DEF Rows, Concerned, ForBa
  <1>5. \A b \in Bas, d \in Days : d >= first /\ ForBa(b) => db.rows[<<b, d>>] = 0
    BY <1>2 DEF Rows
  <1>6. \A k \in Bas \X Days : k[1] \in found \cup open /\ k[2] = first => db.rows[k] = 0
    <2> SUFFICES ASSUME NEW b \in Bas, NEW d \in Days, b \in found \cup open, d = first
                 PROVE  db.rows[<<b, d>>] = 0
      OBVIOUS
    <2> QED BY <1>3, <1>4, <1>5
  <1>7. PICK R : R = [k \in Bas \X Days |-> IF k[1] \in found \cup open /\ k[2] = first
                                            THEN db.rows[k] + 1 ELSE db.rows[k]]
    OBVIOUS
  <1>8. \A k \in Bas \X Days : R[k] \in 0..2 /\ R[k] <= 1
    <2> SUFFICES ASSUME NEW k \in Bas \X Days PROVE R[k] \in 0..2 /\ R[k] <= 1
      OBVIOUS
    <2>1. db.rows[k] \in 0..2 /\ db.rows[k] <= 1
      BY <1>3 DEF Rows
    <2> QED BY <1>6, <1>7, <2>1
  <1>9. R \in [Bas \X Days -> 0..2]
    BY <1>7, <1>8
  <1>10. db' = [db EXCEPT !.rows = R]
    BY <1>2, <1>7
  <1>11. db' \in Tables /\ db'.rows = R /\ db'.events = db.events /\ db'.periods = db.periods
    BY <1>3, <1>9, <1>10, RowsOf
  <1>12. ASSUME NEW b \in Bas, NEW d \in Days, d >= first', ForBa(b)
         PROVE  db'.rows[<<b, d>>] = 0
    <2>1. d >= first /\ d # first
      BY <1>2, <1>3, <1>12
    <2>2. R[<<b, d>>] = db.rows[<<b, d>>]
      BY <1>7, <2>1
    <2> QED BY <1>5, <1>11, <1>12, <2>1, <2>2
  <1> QED BY <1>2, <1>8, <1>11, <1>12

-----------------------------------------------------------------------------
(* The queue. *)

(* Messages are published at the end. *)
LEMMA PublishQueue ==
    ASSUME ReportingTypeOK, NEW messages \in Seq(Messages), Publish(messages)
    PROVE  /\ queue' \in Seq(Messages) /\ Len(queue') = Len(queue) + Len(messages)
           /\ \A k \in 1..Len(queue) : queue'[k] = queue[k]
           /\ \A k \in 1..Len(messages) : queue'[Len(queue) + k] = messages[k]
           /\ published' \in Nat /\ pos' \in 0..Len(queue')
           /\ UNCHANGED <<day, faults, pos, db, durable, memory, spc, todo, broken, mutex, apc,
                          first, last, found, until, should, notified>>
  <1>1. queue \in Seq(Messages) /\ pos \in 0..Len(queue) /\ published \in Nat
    BY DEF ReportingTypeOK
  <1>2. /\ queue' = queue \o messages /\ published' = published + Len(messages)
        /\ UNCHANGED <<day, faults, pos, db, durable, memory, spc, todo, broken, mutex, apc,
                       first, last, found, until, should, notified>>
    BY DEF Publish
  <1>3. Len(queue) \in Nat /\ Len(messages) \in Nat
    BY <1>1
  <1>4. /\ queue' \in Seq(Messages) /\ Len(queue') = Len(queue) + Len(messages)
        /\ \A k \in 1..Len(queue) : queue'[k] = queue[k]
        /\ \A k \in 1..Len(messages) : queue'[Len(queue) + k] = messages[k]
    BY <1>1, <1>2
  <1>5. published' \in Nat /\ pos' \in 0..Len(queue')
    BY <1>1, <1>2, <1>3, <1>4
  <1> QED BY <1>2, <1>4, <1>5

(* Whole dumps. *)
Whole(messages) ==
    /\ Len(messages) \in Nat \ {0}
    /\ messages[1].type \notin {"dimension", "truncate_end"}
    /\ \A k \in 2..Len(messages) :
          /\ messages[k].type = "dimension" => messages[k - 1].type = "truncate_start"
          /\ messages[k].type = "truncate_end" => messages[k - 1].type = "dimension"

(* What is published: changes, dumps and rebuilds. *)
LEMMA Published ==
    ASSUME ReportingTypeOK,
           (\E b \in Bas : BaChanges(b)) \/ LoadDimensions
             \/ \E bas \in SUBSET Bas \ {{}} : AskRebuild(bas)
    PROVE  \E messages \in Seq(Messages) :
              /\ Publish(messages) /\ opened' \in [Bas -> Days] /\ rebuilds' \in Nat
              /\ Whole(messages)
  <1>1. opened \in [Bas -> Days] /\ rebuilds \in Nat /\ day \in Days
    BY DEF ReportingTypeOK
  <1>2. ASSUME NEW b \in Bas, BaChanges(b)
        PROVE  \E messages \in Seq(Messages) :
              /\ Publish(messages) /\ opened' \in [Bas -> Days] /\ rebuilds' \in Nat
              /\ Whole(messages)
    <2>1. PICK m : m = [type |-> "ba", ba |-> b, start |-> opened[b], end |-> day]
      OBVIOUS
    <2>2. PICK n : n = [type |-> "ba", ba |-> b, start |-> day, end |-> NoEnd]
      OBVIOUS
    <2>3. m \in Messages /\ n \in Messages /\ m.type = "ba" /\ n.type = "ba"
      BY <1>1, <2>1, <2>2 DEF Messages
    <2>4. PICK s : s = <<m>> \o <<n>>
      OBVIOUS
    <2>5. s \in Seq(Messages) /\ Len(s) = 2 /\ s[1] = m /\ s[2] = n
      BY <2>3, <2>4
    <2>6. Publish(s) /\ opened' = [opened EXCEPT ![b] = day] /\ rebuilds' = rebuilds
      BY <1>2, <2>1, <2>2, <2>4 DEF BaChanges
    <2>7. \A k \in 2..2 : k = 2
      OBVIOUS
    <2>8. Whole(s)
      BY <2>3, <2>5, <2>7 DEF Whole
    <2> QED BY <1>1, <2>5, <2>6, <2>8
  <1>3. CASE LoadDimensions
    <2>1. PICK m : m = [type |-> "truncate_start"]
      OBVIOUS
    <2>2. PICK n : n = [type |-> "dimension"]
      OBVIOUS
    <2>3. PICK o : o = [type |-> "truncate_end"]
      OBVIOUS
    <2>4. /\ m \in Messages /\ n \in Messages /\ o \in Messages
          /\ m.type = "truncate_start" /\ n.type = "dimension" /\ o.type = "truncate_end"
      BY <2>1, <2>2, <2>3 DEF Messages
    <2>5. PICK s : s = <<m, n, o>>
      OBVIOUS
    <2>6. s \in Seq(Messages) /\ Len(s) = 3 /\ s[1] = m /\ s[2] = n /\ s[3] = o
      BY <2>4, <2>5
    <2>7. Publish(s) /\ UNCHANGED <<opened, rebuilds>>
      BY <1>3, <2>1, <2>2, <2>3, <2>5 DEF LoadDimensions
    <2>8. \A k \in 2..3 : (k = 2 \/ k = 3) /\ 2 - 1 = 1 /\ 3 - 1 = 2
      OBVIOUS
    <2>9. Whole(s)
      BY <2>4, <2>6, <2>8 DEF Whole
    <2> QED BY <1>1, <2>6, <2>7, <2>9
  <1>4. ASSUME NEW bas \in SUBSET Bas, AskRebuild(bas)
        PROVE  \E messages \in Seq(Messages) :
              /\ Publish(messages) /\ opened' \in [Bas -> Days] /\ rebuilds' \in Nat
              /\ Whole(messages)
    <2>1. PICK m : m = [type |-> "rebuild", bas |-> bas]
      OBVIOUS
    <2>2. m \in Messages /\ m.type = "rebuild"
      BY <2>1 DEF Messages
    <2>3. PICK s : s = <<m>>
      OBVIOUS
    <2>4. s \in Seq(Messages) /\ Len(s) = 1 /\ s[1] = m
      BY <2>2, <2>3
    <2>5. Publish(s) /\ opened' = opened /\ rebuilds' = rebuilds + 1
      BY <1>4, <2>1, <2>3 DEF AskRebuild
    <2>6. \A k : k \notin 2..1
      OBVIOUS
    <2>7. Whole(s)
      BY <2>2, <2>4, <2>6 DEF Whole
    <2> QED BY <1>1, <2>4, <2>5, <2>7
  <1> QED BY <1>2, <1>3, <1>4

-----------------------------------------------------------------------------
(* Types. *)

(* The stream. *)
LEMMA StreamTypes ==
    ASSUME ReportingTypeOK, Busy, Deletions, StreamStep \/ Flush \/ Destroy
    PROVE  ReportingTypeOK'
  <1>1. queue \in Seq(Messages) /\ Len(queue) \in Nat /\ pos \in 0..Len(queue)
    BY DEF ReportingTypeOK
  <1>2. CASE Construct
    <2>1. db' \in Tables /\ durable' = durable
      BY <1>2, ConstructTables
    <2>2. memory' \in [periods : BOOLEAN, cache : BOOLEAN, processing : BOOLEAN]
      BY <1>2 DEF Construct, ReportingTypeOK, Tables
    <2>3. should' \in [exit : BOOLEAN, rebuild : BOOLEAN, bas : SUBSET Bas]
      BY <1>2 DEF Construct
    <2>4. pos' \in 0..Len(queue')
      BY <1>1, <1>2 DEF Construct
    <2> QED BY <1>2, <2>1, <2>2, <2>3, <2>4 DEF Construct, clock, ReportingTypeOK
  <1>3. CASE WriteBaEvent
    <2>1. db' \in Tables /\ durable' = durable
      BY <1>3, EventTables
    <2>2. pos' \in 0..Len(queue')
      BY <1>3, NextMessage DEF WriteBaEvent, NextIs, ReportingTypeOK
    <2> QED BY <1>3, <2>1, <2>2 DEF WriteBaEvent, clock, threadVars, ReportingTypeOK
  <1>4. CASE WriteDurations
    <2>1. db' \in Tables /\ durable' = durable
      BY <1>4, DurationTables DEF WriteDurations
    <2>2. pos' \in 0..Len(queue')
      BY <1>4, NextMessage DEF WriteDurations, Busy
    <2> QED BY <1>4, <2>1, <2>2 DEF WriteDurations, clock, threadVars, ReportingTypeOK
  <1>5. CASE TruncateStart \/ WriteDimension \/ TruncateEnd
    <2>1. db' \in Tables /\ durable' \in Tables
      BY <1>5, OtherTables, TruncateTables DEF ReportingTypeOK
    <2>2. pos' \in 0..Len(queue')
      BY <1>5, NextMessage DEF TruncateStart, WriteDimension, TruncateEnd, NextIs
    <2>3. memory' \in [periods : BOOLEAN, cache : BOOLEAN, processing : BOOLEAN]
      <3>1. memory \in [periods : BOOLEAN, cache : BOOLEAN, processing : BOOLEAN]
        BY DEF ReportingTypeOK
      <3>2. CASE TruncateStart
        BY <3>1, <3>2 DEF TruncateStart
      <3>3. CASE WriteDimension
        BY <3>1, <3>3 DEF WriteDimension
      <3>4. CASE TruncateEnd
        BY <3>1, <3>4 DEF TruncateEnd
      <3> QED BY <1>5, <3>2, <3>3, <3>4
    <2> QED BY <1>5, <2>1, <2>2, <2>3
            DEF TruncateStart, WriteDimension, TruncateEnd, clock, threadVars, ReportingTypeOK
  <1>6. CASE RebuildLocks
    <2>1. \A e \in db.events : e.durations # "deleted"
      BY <1>6 DEF RebuildLocks, StartRebuild, NextIs, Deletions
    <2>2. db' \in Tables /\ durable' = durable /\ todo' \in SUBSET (Bas \X Days)
      BY <1>6, <2>1, RebuildTables
    <2> QED BY <1>6, <2>2 DEF RebuildLocks, StartRebuild, clock, threadVars, ReportingTypeOK
  <1>7. ASSUME NEW e \in todo, RebuildEvent(e) PROVE ReportingTypeOK'
    <2>1. db' \in Tables /\ durable' = durable
      BY <1>7, DurationTables DEF RebuildEvent
    <2> QED BY <1>7, <2>1 DEF RebuildEvent, clock, threadVars, ReportingTypeOK
  <1>8. CASE RebuildAvailabilities
    <2>1. Message \in Messages /\ Message.type = "rebuild" /\ pos' \in 0..Len(queue')
      BY <1>8, NextMessage DEF RebuildAvailabilities, Busy
    <2>2. Message.bas \in SUBSET Bas
      BY <2>1 DEF Messages
    <2>3. should' = [should EXCEPT !.rebuild = TRUE, !.bas = Message.bas]
      BY <1>8 DEF RebuildAvailabilities
    <2>4. should' \in [exit : BOOLEAN, rebuild : BOOLEAN, bas : SUBSET Bas]
      BY <2>2, <2>3 DEF ReportingTypeOK
    <2>5. notified' \in BOOLEAN
      BY <1>8 DEF RebuildAvailabilities
    <2> QED BY <1>8, <2>1, <2>4, <2>5 DEF RebuildAvailabilities, clock, threadVars, ReportingTypeOK
  <1>9. CASE EndRebuild \/ Throw \/ Destroy \/ Joined
    <2>1. db' \in Tables /\ durable' \in Tables
      BY <1>9, OtherTables DEF ReportingTypeOK
    <2>2. faults' \in Nat
      BY <1>9 DEF EndRebuild, Throw, Destroy, Joined, clock, ReportingTypeOK
    <2> QED BY <1>9, <2>1, <2>2
            DEF EndRebuild, Throw, Destroy, Joined, clock, threadVars, ReportingTypeOK
  <1>10. CASE Terminate
    <2>1. should' \in [exit : BOOLEAN, rebuild : BOOLEAN, bas : SUBSET Bas]
      BY <1>10 DEF Terminate, ReportingTypeOK
    <2>2. notified' \in BOOLEAN
      BY <1>10 DEF Terminate
    <2> QED BY <1>10, <2>1, <2>2 DEF Terminate, clock, threadVars, ReportingTypeOK
  <1>11. CASE Flush
    <2>1. db' = db /\ durable' \in Tables
      BY <1>11, OtherTables DEF ReportingTypeOK
    <2>2. pos > 0 /\ queue' = SubSeq(queue, pos + 1, Len(queue)) /\ pos' = 0
      BY <1>11 DEF Flush
    <2>3. queue' \in Seq(Messages) /\ Len(queue') \in Nat
      BY <1>1, <2>2
    <2>4. pos' \in 0..Len(queue')
      BY <2>2, <2>3
    <2> QED BY <1>11, <2>1, <2>3, <2>4 DEF Flush, clock, threadVars, ReportingTypeOK
  <1> QED BY <1>2, <1>3, <1>4, <1>5, <1>6, <1>7, <1>8, <1>9, <1>10, <1>11 DEF StreamStep

(* The availability thread. *)
LEMMA ThreadTypes ==
    ASSUME ReportingTypeOK, Rows, ThreadStep
    PROVE  ReportingTypeOK'
  <1>1. Days \subseteq Nat /\ 1 \in Days /\ day \in Nat
    BY ReportingAssumption DEF Days, ReportingTypeOK
  <1>2. CASE Run
    <2>1. until' \in Nat
      BY <1>1, <1>2 DEF Run
    <2>2. apc' \in {"start", "wait", "plan", "closed", "opened", "ended"}
      BY <1>2 DEF Run
    <2> QED BY <1>2, <2>1, <2>2 DEF Run, clock, streamVars, ReportingTypeOK
  <1>7. CASE Wake
    <2>1. /\ apc' \in {"start", "wait", "plan", "closed", "opened", "ended"}
          /\ mutex' \in {"free", "stream", "thread"} /\ notified' \in BOOLEAN
      BY <1>7 DEF Wake, ReportingTypeOK
    <2> QED BY <1>7, <2>1 DEF Wake, clock, streamVars, ReportingTypeOK
  <1>3. CASE Plan
    <2>1. db' \in Tables /\ durable' = durable /\ first' \in Nat /\ last' \in Days
      BY <1>3, PlanTables
    <2> QED BY <1>3, <2>1 DEF Plan, clock, streamVars, ReportingTypeOK
  <1>4. CASE SelectClosed
    <2>1. found' \subseteq Bas
      BY <1>4 DEF SelectClosed, ReportingTypeOK, Tables, BaEvents
    <2> QED BY <1>4, <2>1 DEF SelectClosed, clock, streamVars, ReportingTypeOK
  <1>5. CASE WriteDay
    <2>1. db' \in Tables /\ durable' = durable
      BY <1>5, WriteDayTables
    <2>2. first' \in Nat
      BY <1>5 DEF WriteDay, ReportingTypeOK
    <2> QED BY <1>5, <2>1, <2>2 DEF WriteDay, clock, streamVars, ReportingTypeOK
  <1>6. CASE EndBuild \/ Catch
    <2>1. first' \in Nat /\ last' \in Days /\ until' \in Nat
      BY <1>1, <1>6 DEF EndBuild, Catch, BackToWait
    <2>2. should' \in [exit : BOOLEAN, rebuild : BOOLEAN, bas : SUBSET Bas]
      BY <1>6 DEF EndBuild, Catch, ReportingTypeOK
    <2> QED BY <1>6, <2>1, <2>2 DEF EndBuild, Catch, BackToWait, clock, streamVars, ReportingTypeOK
  <1> QED BY <1>2, <1>3, <1>4, <1>5, <1>6, <1>7 DEF ThreadStep

(* Every step keeps the types. *)
LEMMA TypeStep ==
    ASSUME ReportingTypeOK, Busy, Deletions, Rows, ReportingNext
    PROVE  ReportingTypeOK'
  <1>1. CASE NextDay
    <2>1. day' \in Days
      <3>1. day \in 1..MaxDay /\ day < MaxDay /\ day' = day + 1 /\ MaxDay \in Nat
        BY <1>1, ReportingAssumption DEF NextDay, ReportingTypeOK, Days
      <3> QED BY <3>1 DEF Days
    <2> QED BY <1>1, <2>1 DEF NextDay, ReportingTypeOK
  <1>2. CASE (\E b \in Bas : BaChanges(b)) \/ LoadDimensions
             \/ \E bas \in SUBSET Bas \ {{}} : AskRebuild(bas)
    <2>1. PICK messages \in Seq(Messages) :
             Publish(messages) /\ opened' \in [Bas -> Days] /\ rebuilds' \in Nat
      BY <1>2, Published
    <2> QED BY <2>1, PublishQueue DEF ReportingTypeOK
  <1>3. CASE ConnectionLost
    <2>1. /\ UNCHANGED <<day, opened, published, rebuilds, streamVars, durable, mutex,
                         threadVars, should, notified>>
          /\ db' = durable /\ broken' \subseteq {"stream", "thread"} /\ faults' = faults + 1
      BY <1>3 DEF ConnectionLost
    <2> QED BY <2>1 DEF streamVars, threadVars, ReportingTypeOK
  <1> QED BY <1>1, <1>2, <1>3, StreamTypes, ThreadTypes DEF ReportingNext

-----------------------------------------------------------------------------
(* Who holds the mutex, and what the stream is doing. *)

(* The steps that publish leave all this alone. *)
LEMMA OwnersStep ==
    ASSUME ReportingTypeOK, Locks, Faulty, ReportingNext
    PROVE  Locks' /\ Faulty'
  <1>1. ASSUME UNCHANGED <<mutex, spc, apc, broken, faults>>
        PROVE  Locks' /\ Faulty'
    BY <1>1 DEF Locks, Faulty, Building
  <1>2. CASE NextDay
    BY <1>1, <1>2 DEF NextDay
  <1>3. CASE (\E b \in Bas : BaChanges(b)) \/ LoadDimensions
             \/ \E bas \in SUBSET Bas \ {{}} : AskRebuild(bas)
    BY <1>1, <1>3 DEF BaChanges, LoadDimensions, AskRebuild, Publish
  <1>4. CASE WriteDurations \/ TruncateStart \/ WriteDimension \/ TruncateEnd \/ Flush
             \/ (\E e \in todo : RebuildEvent(e)) \/ WriteBaEvent
    BY <1>4 DEF WriteDurations, TruncateStart, WriteDimension, TruncateEnd, Flush, RebuildEvent,
                WriteBaEvent, NextIs, clock, threadVars, Locks, Faulty, Building
  <1>5. CASE Construct
    BY <1>5 DEF Construct, clock, Locks, Faulty, Building
  <1>6. CASE RebuildLocks \/ EndRebuild \/ RebuildAvailabilities
    BY <1>6 DEF RebuildLocks, StartRebuild, EndRebuild, RebuildAvailabilities, NextIs, clock,
                threadVars, Locks, Faulty, Building
  <1>7. CASE Throw
    BY <1>7 DEF Throw, NextIs, clock, threadVars, Locks, Faulty, Building
  <1>8. CASE Destroy
    <2>1. faults' # 0
      BY <1>8 DEF Destroy, ReportingTypeOK
    <2> QED BY <1>8, <2>1 DEF Destroy, threadVars, Locks, Faulty, Building
  <1>9. CASE Terminate \/ Joined
    BY <1>9 DEF Terminate, Joined, clock, threadVars, Locks, Faulty, Building
  <1>10. CASE ThreadStep
    BY <1>10 DEF ThreadStep, Run, Wake, Plan, SelectClosed, WriteDay, EndBuild, Catch, BackToWait,
                 clock, streamVars, Locks, Faulty, Building
  <1>11. CASE ConnectionLost
    <2>1. faults' # 0
      BY <1>11 DEF ConnectionLost, ReportingTypeOK
    <2> QED BY <1>11, <2>1 DEF ConnectionLost, streamVars, threadVars, Locks, Faulty, Building
  <1> QED BY <1>2, <1>3, <1>4, <1>5, <1>6, <1>7, <1>8, <1>9, <1>10, <1>11
          DEF ReportingNext, StreamStep

(* The message the stream is in the middle of is the same one, or another  *)
(* one begins.                                                             *)
LEMMA BusyStep ==
    ASSUME ReportingTypeOK, Busy, ReportingNext
    PROVE  Busy'
  <1>1. queue \in Seq(Messages) /\ Len(queue) \in Nat /\ pos \in 0..Len(queue)
    BY DEF ReportingTypeOK
  <1>2. ASSUME UNCHANGED <<queue, pos, spc>> PROVE Busy'
    BY <1>2 DEF Busy, Message
  <1>3. ASSUME spc' \notin {"durations", "rebuild", "ask"} PROVE Busy'
    BY <1>3 DEF Busy
  <1>4. CASE (\E b \in Bas : BaChanges(b)) \/ LoadDimensions
             \/ \E bas \in SUBSET Bas \ {{}} : AskRebuild(bas)
    <2>1. PICK messages \in Seq(Messages) : Publish(messages)
      BY <1>4, Published
    <2>2. /\ Len(queue') = Len(queue) + Len(messages) /\ pos' = pos /\ spc' = spc
          /\ \A k \in 1..Len(queue) : queue'[k] = queue[k]
      BY <2>1, PublishQueue
    <2>3. Len(messages) \in Nat /\ pos \in Nat
      BY <1>1
    <2>4. pos < Len(queue) => pos' < Len(queue') /\ pos + 1 \in 1..Len(queue)
      BY <1>1, <2>2, <2>3
    <2>5. pos < Len(queue) => queue'[pos' + 1] = queue[pos + 1]
      BY <2>2, <2>4
    <2> QED BY <2>2, <2>4, <2>5 DEF Busy, Message
  <1>5. CASE NextDay \/ ThreadStep \/ ConnectionLost
    BY <1>2, <1>5 DEF NextDay, ThreadStep, Run, Wake, Plan, SelectClosed, WriteDay, EndBuild,
                      Catch, BackToWait, ConnectionLost, streamVars
  <1>6. CASE WriteBaEvent
    BY <1>6 DEF WriteBaEvent, NextIs, Message, Busy
  <1>7. CASE Construct \/ WriteDurations \/ TruncateStart \/ WriteDimension \/ TruncateEnd
             \/ RebuildAvailabilities \/ Throw \/ Terminate \/ Joined \/ Flush \/ Destroy
    BY <1>3, <1>7 DEF Construct, WriteDurations, TruncateStart, WriteDimension, TruncateEnd,
                      RebuildAvailabilities, Throw, Terminate, Joined, Flush, Destroy, NextIs
  <1>8. CASE RebuildLocks
    BY <1>8 DEF RebuildLocks, StartRebuild, NextIs, Message, Busy
  <1>9. CASE (\E e \in todo : RebuildEvent(e)) \/ EndRebuild
    BY <1>9 DEF RebuildEvent, EndRebuild, Message, Busy
  <1> QED BY <1>4, <1>5, <1>6, <1>7, <1>8, <1>9 DEF ReportingNext, StreamStep

-----------------------------------------------------------------------------
(* Deleted durations. *)

(* Steps that leave the events and the rebuild alone. *)
LEMMA DeletionsKept ==
    ASSUME Deletions, UNCHANGED <<spc, todo>>, Connected => Connected',
           db'.events = db.events,
           durable' = durable \/ (durable'.events = db.events /\ spc # "rebuild")
    PROVE  Deletions'
  BY DEF Deletions

(* No durations are deleted outside a rebuild, and none are when one ends. *)
LEMMA NoneDeleted ==
    ASSUME Deletions, spc # "rebuild" \/ ~Connected \/ todo = {}
    PROVE  \A e \in db.events : e.durations # "deleted"
  BY DEF Deletions

(* Steps after which nothing is deleted. *)
LEMMA DeletionsGone ==
    ASSUME Deletions, \A e \in db'.events : e.durations # "deleted",
           durable' \in {durable, db, db'}, 
           durable' = db => \A e \in db.events : e.durations # "deleted"
    PROVE  Deletions'
  BY DEF Deletions

(* The stream. *)
LEMMA DeletionsStream ==
    ASSUME ReportingTypeOK, Busy, Locks, Deletions, StreamStep \/ Flush \/ Destroy
    PROVE  Deletions'
  <1>0. db.events \in SUBSET BaEvents
    BY DEF ReportingTypeOK, Tables
  <1>1. ASSUME spc # "rebuild", db' = db, durable' \in {durable, db} PROVE Deletions'
    BY <1>1, NoneDeleted, DeletionsGone
  <1>2. CASE Construct
    <2>1. db'.events = CloseAllEvents(db.events) /\ durable' = durable
      BY <1>2, ConstructTables
    <2>2. \A e \in db.events : e.durations # "deleted"
      BY <1>2, NoneDeleted DEF Construct
    <2>3. \A e \in db'.events : e.durations # "deleted"
      BY <1>0, <2>1, <2>2, CloseAllGives DEF ReportingTypeOK
    <2> QED BY <2>1, <2>2, <2>3, DeletionsGone
  <1>3. CASE WriteBaEvent
    <2>1. /\ db'.events = StoreEvent(db.events, Message) /\ durable' = durable
          /\ Message \in Messages /\ Message.type = "ba"
      BY <1>3, EventTables
    <2>2. \A e \in db.events : e.durations # "deleted"
      BY <1>3, NoneDeleted DEF WriteBaEvent, NextIs
    <2>3. \A e \in db'.events : e.durations # "deleted"
      BY <1>0, <2>1, <2>2, StoreEventGives
    <2> QED BY <2>1, <2>2, <2>3, DeletionsGone
  <1>4. CASE WriteDurations
    <2>1. db'.events = StoreDurations(db.events, Message.ba, Message.start) /\ durable' = durable
      BY <1>4, DurationTables DEF WriteDurations
    <2>2. \A e \in db.events : e.durations # "deleted"
      BY <1>4, NoneDeleted DEF WriteDurations
    <2>3. \A e \in db'.events : e.durations # "deleted"
      BY <1>0, <2>1, <2>2, StoreDurationsGives
    <2> QED BY <2>1, <2>2, <2>3, DeletionsGone
  <1>5. CASE TruncateStart \/ WriteDimension \/ RebuildAvailabilities \/ Terminate \/ Joined
             \/ Flush \/ Destroy
    <2>1. spc # "rebuild"
      BY <1>5 DEF TruncateStart, WriteDimension, RebuildAvailabilities, Terminate, Joined, Flush,
                  Destroy, NextIs
    <2> QED BY <1>1, <1>5, <2>1, OtherTables
  <1>6. CASE TruncateEnd
    <2>1. db'.events = db.events /\ durable' = db'
      BY <1>6, TruncateTables
    <2>2. \A e \in db.events : e.durations # "deleted"
      BY <1>6, NoneDeleted DEF TruncateEnd, NextIs
    <2> QED BY <2>1, <2>2, DeletionsGone
  <1>7. CASE RebuildLocks
    <2>1. \A e \in db.events : e.durations # "deleted"
      BY <1>7, NoneDeleted DEF RebuildLocks, StartRebuild, NextIs
    <2>2. /\ durable' = durable
          /\ \A f \in db'.events : f.durations = "deleted" => <<f.ba, f.start>> \in todo'
      BY <1>7, <2>1, RebuildTables
    <2>3. spc' = "rebuild" /\ Connected'
      BY <1>7 DEF RebuildLocks, StartRebuild, Connected
    <2> QED BY <2>2, <2>3 DEF Deletions
  <1>8. ASSUME NEW e \in todo, RebuildEvent(e) PROVE Deletions'
    <2>1. db'.events = StoreDurations(db.events, e[1], e[2]) /\ durable' = durable
      BY <1>8, DurationTables DEF RebuildEvent
    <2>2. spc' = "rebuild" /\ spc = "rebuild" /\ Connected' /\ todo' = todo \ {e}
      BY <1>8 DEF RebuildEvent, Connected
    <2>3. e = <<e[1], e[2]>>
      BY <1>8 DEF ReportingTypeOK
    <2>4. ASSUME NEW f \in db'.events, f.durations = "deleted"
          PROVE  <<f.ba, f.start>> \in todo'
      <3>1. f \in db.events /\ ~(f.ba = e[1] /\ f.start = e[2])
        BY <1>0, <2>1, <2>4, StoreDurationsGives DEF Same
      <3>2. <<f.ba, f.start>> \in todo
        BY <2>4, <3>1 DEF Deletions
      <3>3. <<f.ba, f.start>> # e
        BY <2>3, <3>1
      <3> QED BY <2>2, <3>2, <3>3
    <2> QED BY <2>1, <2>2, <2>4 DEF Deletions
  <1>9. CASE EndRebuild
    <2>1. todo = {}
      BY <1>9 DEF EndRebuild
    <2>2. db' = db /\ durable' = durable
      BY <1>9 DEF EndRebuild
    <2> QED BY <2>1, <2>2, NoneDeleted, DeletionsGone
  <1>10. CASE Throw
    <2>1. ~Connected /\ db' = db /\ durable' = durable
      BY <1>10 DEF Throw, Connected
    <2> QED BY <2>1, NoneDeleted, DeletionsGone
  <1> QED BY <1>2, <1>3, <1>4, <1>5, <1>6, <1>7, <1>8, <1>9, <1>10 DEF StreamStep

(* The other steps. *)
LEMMA DeletionsStep ==
    ASSUME ReportingTypeOK, Busy, Locks, Rows, Deletions, ReportingNext
    PROVE  Deletions'
  <1>1. ASSUME UNCHANGED <<db, durable, spc, todo, broken>> PROVE Deletions'
    BY <1>1 DEF Deletions, Connected
  <1>2. CASE NextDay \/ (\E b \in Bas : BaChanges(b)) \/ LoadDimensions
             \/ \E bas \in SUBSET Bas \ {{}} : AskRebuild(bas)
    BY <1>1, <1>2 DEF NextDay, BaChanges, LoadDimensions, AskRebuild, Publish
  <1>3. CASE Run \/ Wake \/ SelectClosed
    BY <1>1, <1>3 DEF Run, Wake, SelectClosed, clock, streamVars
  <1>4. CASE Plan \/ WriteDay
    <2>1. db'.events = db.events /\ durable' = durable
      BY <1>4, PlanTables, WriteDayTables
    <2>2. UNCHANGED <<spc, todo>> /\ (Connected => Connected')
      BY <1>4 DEF Plan, WriteDay, streamVars, Connected
    <2> QED BY <2>1, <2>2, DeletionsKept
  <1>5. CASE EndBuild \/ Catch
    <2>1. spc # "rebuild"
      BY <1>5 DEF EndBuild, Catch, Locks, Building
    <2>2. db' = db /\ durable' \in {durable, db}
      BY <1>5 DEF EndBuild, Catch
    <2> QED BY <2>1, <2>2, NoneDeleted, DeletionsGone
  <1>6. CASE ConnectionLost
    <2>1. db' = durable /\ durable' = durable
      BY <1>6 DEF ConnectionLost
    <2> QED BY <2>1 DEF Deletions
  <1> QED BY <1>2, <1>3, <1>4, <1>5, <1>6, DeletionsStream DEF ReportingNext, ThreadStep

-----------------------------------------------------------------------------
(* The rows of a build. *)

(* Steps that leave the rows and the build alone. *)
LEMMA RowsKept ==
    ASSUME Rows, UNCHANGED <<apc, first, found, should>>,
           "thread" \in broken => "thread" \in broken',
           db'.rows = db.rows, durable'.rows \in {durable.rows, db.rows}
    PROVE  Rows'
  BY DEF Rows, ForBa

(* Steps outside the loop of a build. *)
LEMMA RowsOutside ==
    ASSUME Rows, apc' \notin {"closed", "opened"},
           db'.rows \in {db.rows, durable.rows}, durable'.rows \in {durable.rows, db.rows}
    PROVE  Rows'
  BY DEF Rows

(* Every step keeps the rows. *)
LEMMA RowsStep ==
    ASSUME ReportingTypeOK, Busy, Locks, Deletions, Rows, ReportingNext
    PROVE  Rows'
  <1>1. CASE NextDay \/ (\E b \in Bas : BaChanges(b)) \/ LoadDimensions
             \/ \E bas \in SUBSET Bas \ {{}} : AskRebuild(bas)
    BY <1>1, RowsKept DEF NextDay, BaChanges, LoadDimensions, AskRebuild, Publish
  <1>2. CASE Construct
    <2>1. db'.rows = db.rows /\ durable' = durable /\ apc' = "start"
      BY <1>2, ConstructTables DEF Construct
    <2> QED BY <2>1, RowsOutside
  <1>3. CASE WriteBaEvent
    <2>1. db'.rows = db.rows /\ durable' = durable
      BY <1>3, EventTables
    <2>2. UNCHANGED <<apc, first, found, should, broken>>
      BY <1>3 DEF WriteBaEvent, threadVars
    <2> QED BY <2>1, <2>2, RowsKept
  <1>4. CASE WriteDurations
    <2>1. db'.rows = db.rows
      BY <1>4, DurationTables DEF WriteDurations
    <2>2. UNCHANGED <<durable, apc, first, found, should, broken>>
      BY <1>4 DEF WriteDurations, threadVars
    <2> QED BY <2>1, <2>2, RowsKept
  <1>5. ASSUME NEW e \in todo, RebuildEvent(e) PROVE Rows'
    <2>1. db'.rows = db.rows
      BY <1>5, DurationTables DEF RebuildEvent
    <2>2. UNCHANGED <<durable, apc, first, found, should, broken>>
      BY <1>5 DEF RebuildEvent, threadVars
    <2> QED BY <2>1, <2>2, RowsKept
  <1>6. CASE TruncateEnd
    <2>1. db'.rows = db.rows /\ durable' = db'
      BY <1>6, TruncateTables
    <2>2. UNCHANGED <<apc, first, found, should, broken>>
      BY <1>6 DEF TruncateEnd, threadVars
    <2> QED BY <2>1, <2>2, RowsKept
  <1>7. CASE RebuildLocks
    <2>1. \A e \in db.events : e.durations # "deleted"
      BY <1>7, NoneDeleted DEF RebuildLocks, StartRebuild, NextIs
    <2>2. db'.rows = db.rows /\ durable' = durable
      BY <1>7, <2>1, RebuildTables
    <2>3. UNCHANGED <<apc, first, found, should, broken>>
      BY <1>7 DEF RebuildLocks, StartRebuild, threadVars
    <2> QED BY <2>2, <2>3, RowsKept
  <1>8. CASE TruncateStart \/ WriteDimension \/ EndRebuild \/ Throw \/ Joined \/ Flush \/ Destroy
    <2>1. db' = db /\ durable' \in {durable, db}
      BY <1>8, OtherTables
    <2>2. UNCHANGED <<apc, first, found, should, broken>>
      BY <1>8 DEF TruncateStart, WriteDimension, EndRebuild, Throw, Joined, Flush, Destroy,
                  threadVars
    <2> QED BY <2>1, <2>2, RowsKept
  <1>9. CASE RebuildAvailabilities \/ Terminate
    <2>1. db' = db /\ durable' = durable /\ mutex = "free" /\ apc' = apc
      BY <1>9 DEF RebuildAvailabilities, Terminate, threadVars
    <2>2. apc' \notin {"closed", "opened"}
      BY <2>1 DEF Locks, Building
    <2> QED BY <2>1, <2>2, RowsOutside
  <1>10. CASE Run \/ Wake \/ EndBuild \/ Catch
    <2>1. db' = db /\ durable' \in {durable, db} /\ apc' \in {"wait", "ended", "plan"}
      BY <1>10 DEF Run, Wake, EndBuild, Catch, BackToWait
    <2> QED BY <2>1, RowsOutside
  <1>11. CASE Plan
    <2>1. /\ durable' = durable
          /\ \A k \in Bas \X Days : db'.rows[k] <= 1
          /\ \A b \in Bas, d \in Days : d >= first' /\ ForBa(b) => db'.rows[<<b, d>>] = 0
      BY <1>11, PlanTables
    <2>2. apc' = "closed" /\ should' = should
      BY <1>11 DEF Plan
    <2> QED BY <2>1, <2>2 DEF Rows, ForBa
  <1>12. CASE SelectClosed
    <2>1. \A b \in found' : ForBa(b)
      BY <1>12 DEF SelectClosed, Concerned, ForBa
    <2>2. apc = "closed" /\ UNCHANGED <<db, durable, broken, first, should>>
      BY <1>12 DEF SelectClosed
    <2> QED BY <2>1, <2>2 DEF Rows, ForBa
  <1>13. CASE WriteDay
    <2>1. /\ durable' = durable
          /\ \A k \in Bas \X Days : db'.rows[k] <= 1
          /\ \A b \in Bas, d \in Days : d >= first' /\ ForBa(b) => db'.rows[<<b, d>>] = 0
      BY <1>13, WriteDayTables
    <2>2. apc' = "closed" /\ should' = should
      BY <1>13 DEF WriteDay
    <2> QED BY <2>1, <2>2 DEF Rows, ForBa
  <1>14. CASE ConnectionLost
    <2>1. db' = durable /\ durable' = durable /\ UNCHANGED <<apc, found, should>>
      BY <1>14 DEF ConnectionLost, threadVars
    <2>2. apc \in {"closed", "opened"} => "thread" \in broken'
      BY <1>14 DEF ConnectionLost
    <2> QED BY <2>1, <2>2 DEF Rows, ForBa
  <1> QED BY <1>1, <1>2, <1>3, <1>4, <1>5, <1>6, <1>7, <1>8, <1>9, <1>10, <1>11, <1>12, <1>13, <1>14
          DEF ReportingNext, StreamStep, ThreadStep

-----------------------------------------------------------------------------
(* Dumps. *)

(* Steps that leave the queue and the cache alone. *)
LEMMA DumpsKept ==
    ASSUME Dumps, UNCHANGED <<queue, pos>>, faults' = 0 => faults = 0,
           faults' = 0 => memory' = memory /\ db'.periods = db.periods
    PROVE  Dumps'
  BY DEF Dumps, Follows

(* The next message is consumed. *)
LEMMA DumpsConsumed ==
    ASSUME ReportingTypeOK, Dumps, pos < Len(queue), queue' = queue, pos' = pos + 1,
           faults' = faults,
           faults = 0 => db'.periods /\ memory'.periods,
           faults = 0 /\ Message.type = "truncate_start" => memory'.processing,
           faults = 0 /\ Message.type = "dimension" => memory'.cache
    PROVE  Dumps'
  <1>1. CASE faults # 0
    BY <1>1 DEF Dumps
  <1>2. CASE faults = 0
    <2>1. Len(queue) \in Nat /\ pos \in Nat
      BY NextMessage
    <2>2. ASSUME NEW k \in pos' + 1 .. Len(queue') PROVE Follows(k)'
      <3>1. k \in pos + 1 .. Len(queue) /\ k # pos + 1 /\ (k = pos' + 1 => k - 1 = pos + 1)
        BY <2>1, <2>2
      <3>2. Follows(k)
        BY <1>2, <3>1 DEF Dumps
      <3>3. /\ queue[k].type = "dimension" => queue[k - 1].type = "truncate_start"
            /\ queue[k].type = "truncate_end" => queue[k - 1].type = "dimension"
        BY <3>1, <3>2 DEF Follows
      <3>4. k = pos' + 1 => queue[k - 1] = Message
        BY <3>1 DEF Message
      <3> QED BY <1>2, <3>3, <3>4 DEF Follows
    <2> QED BY <1>2, <2>2 DEF Dumps
  <1> QED BY <1>1, <1>2

(* Messages are published, a dump as a whole. *)
LEMMA DumpsPublished ==
    ASSUME ReportingTypeOK, Dumps, NEW messages \in Seq(Messages), Publish(messages),
           Whole(messages)
    PROVE  Dumps'
  <1>1. /\ Len(queue') = Len(queue) + Len(messages)
        /\ \A k \in 1..Len(queue) : queue'[k] = queue[k]
        /\ \A k \in 1..Len(messages) : queue'[Len(queue) + k] = messages[k]
        /\ UNCHANGED <<faults, pos, db, memory>>
    BY PublishQueue
  <1>2. Len(queue) \in Nat /\ pos \in Nat /\ pos <= Len(queue) /\ Len(messages) \in Nat \ {0}
    BY DEF ReportingTypeOK, Whole
  <1>3. CASE faults # 0
    BY <1>1, <1>3 DEF Dumps
  <1>4. CASE faults = 0
    <2>1. ASSUME NEW k \in pos + 1 .. Len(queue) + Len(messages) PROVE Follows(k)'
      <3>1. CASE k <= Len(queue)
        <4>1. k \in pos + 1 .. Len(queue) /\ k \in 1..Len(queue)
              /\ (k # pos + 1 => k - 1 \in 1..Len(queue))
          BY <1>2, <2>1, <3>1
        <4>2. Follows(k) /\ queue'[k] = queue[k]
              /\ (k # pos + 1 => queue'[k - 1] = queue[k - 1])
          BY <1>1, <1>4, <4>1 DEF Dumps
        <4> QED BY <1>1, <4>2 DEF Follows
      <3>2. CASE k = Len(queue) + 1
        <4>1. 1 \in 1..Len(messages)
          BY <1>2
        <4>2. queue'[k] = messages[1]
          BY <1>1, <3>2, <4>1
        <4> QED BY <4>2 DEF Follows, Whole
      <3>3. CASE k > Len(queue) + 1
        <4>1. PICK j : j = k - Len(queue)
          OBVIOUS
        <4>2. /\ j \in 2..Len(messages) /\ j \in 1..Len(messages) /\ j - 1 \in 1..Len(messages)
              /\ k = Len(queue) + j /\ k - 1 = Len(queue) + (j - 1) /\ k # pos + 1
          BY <1>2, <2>1, <3>3, <4>1
        <4>3. queue'[k] = messages[j] /\ queue'[k - 1] = messages[j - 1]
          BY <1>1, <4>2
        <4> QED BY <1>1, <4>2, <4>3 DEF Follows, Whole
      <3> QED BY <1>2, <2>1, <3>1, <3>2, <3>3
    <2> QED BY <1>1, <1>4, <2>1 DEF Dumps
  <1> QED BY <1>3, <1>4

(* The messages that are written are acknowledged: the others keep their   *)
(* neighbours.                                                             *)
LEMMA DumpsFlush ==
    ASSUME ReportingTypeOK, Dumps, Flush
    PROVE  Dumps'
  <1>1. queue \in Seq(Messages) /\ Len(queue) \in Nat /\ pos \in Nat /\ pos <= Len(queue)
    BY DEF ReportingTypeOK
  <1>2. /\ queue' = SubSeq(queue, pos + 1, Len(queue)) /\ pos' = 0
        /\ UNCHANGED <<faults, db, memory>>
    BY DEF Flush, clock
  <1>3. /\ Len(queue') = Len(queue) - pos
        /\ \A k \in 1 .. Len(queue) - pos : queue'[k] = queue[pos + k]
    BY <1>1, <1>2
  <1>4. CASE faults # 0
    BY <1>2, <1>4 DEF Dumps
  <1>5. CASE faults = 0
    <2>1. ASSUME NEW k \in 1 .. Len(queue) - pos PROVE Follows(k)'
      <3>1. PICK j : j = pos + k
        OBVIOUS
      <3>2. /\ j \in pos + 1 .. Len(queue) /\ (k = 1 <=> j = pos + 1)
            /\ (k # 1 => k - 1 \in 1 .. Len(queue) - pos /\ pos + (k - 1) = j - 1)
        BY <1>1, <2>1, <3>1
      <3>3. queue'[k] = queue[j] /\ (k # 1 => queue'[k - 1] = queue[j - 1])
        BY <1>3, <2>1, <3>1, <3>2
      <3>4. Follows(j)
        BY <1>5, <3>2 DEF Dumps
      <3>5. pos' + 1 = 1
        BY <1>2
      <3> QED BY <1>2, <3>2, <3>3, <3>4, <3>5 DEF Follows
    <2>2. pos' + 1 = 1
      BY <1>2
    <2> QED BY <1>2, <1>3, <1>5, <2>1, <2>2 DEF Dumps
  <1> QED BY <1>4, <1>5

(* Every step keeps whole dumps. *)
LEMMA DumpsStep ==
    ASSUME ReportingTypeOK, Locks, Faulty, Busy, Deletions, Rows, Dumps, ReportingNext
    PROVE  Dumps'
  <1>0. faults \in Nat
    BY DEF ReportingTypeOK
  <1>1. CASE NextDay \/ Run \/ Wake \/ SelectClosed \/ EndBuild \/ Catch
    <2>1. UNCHANGED <<queue, pos, faults, memory, db>>
      BY <1>1 DEF NextDay, Run, Wake, SelectClosed, EndBuild, Catch, clock, streamVars
    <2> QED BY <2>1, DumpsKept
  <1>2. CASE (\E b \in Bas : BaChanges(b)) \/ LoadDimensions
             \/ \E bas \in SUBSET Bas \ {{}} : AskRebuild(bas)
    BY <1>2, Published, DumpsPublished
  <1>3. CASE Construct
    <2>1. faults' = faults /\ faults # 0
      BY <1>3 DEF Construct, clock, Faulty
    <2> QED BY <2>1 DEF Dumps
  <1>4. CASE WriteBaEvent
    <2>1. db'.periods = db.periods
      BY <1>4, EventTables
    <2>2. /\ UNCHANGED <<queue, faults, memory>> /\ pos < Len(queue) /\ Message.type = "ba"
          /\ (pos' = pos \/ pos' = pos + 1)
      BY <1>4 DEF WriteBaEvent, NextIs, clock
    <2>3. CASE pos' = pos
      BY <2>1, <2>2, <2>3, DumpsKept
    <2>4. CASE pos' = pos + 1
      <3>1. faults = 0 => db'.periods /\ memory'.periods
        BY <2>1, <2>2 DEF Dumps
      <3> QED BY <2>2, <2>4, <3>1, DumpsConsumed
    <2> QED BY <2>2, <2>3, <2>4
  <1>5. CASE WriteDurations
    <2>1. db'.periods = db.periods
      BY <1>5, DurationTables DEF WriteDurations
    <2>2. /\ UNCHANGED <<queue, faults, memory>> /\ pos < Len(queue) /\ Message.type = "ba"
          /\ pos' = pos + 1
      BY <1>5 DEF WriteDurations, Busy, clock
    <2>3. faults = 0 => db'.periods /\ memory'.periods
      BY <2>1, <2>2 DEF Dumps
    <2> QED BY <2>2, <2>3, DumpsConsumed
  <1>6. CASE TruncateStart
    <2>1. /\ UNCHANGED <<queue, faults, db>> /\ pos < Len(queue)
          /\ Message.type = "truncate_start" /\ pos' = pos + 1
          /\ memory' = [memory EXCEPT !.cache = FALSE, !.processing = TRUE]
      BY <1>6 DEF TruncateStart, NextIs, clock
    <2>2. memory'.processing /\ memory'.periods = memory.periods
      BY <2>1 DEF ReportingTypeOK
    <2>3. faults = 0 => db'.periods /\ memory'.periods
      BY <2>1, <2>2 DEF Dumps
    <2> QED BY <2>1, <2>2, <2>3, DumpsConsumed
  <1>7. CASE WriteDimension
    <2>1. /\ UNCHANGED <<queue, faults, db>> /\ pos < Len(queue)
          /\ Message.type = "dimension" /\ pos' = pos + 1
          /\ memory' = IF memory.processing THEN [memory EXCEPT !.cache = TRUE] ELSE memory
      BY <1>7 DEF WriteDimension, NextIs, clock
    <2>2. memory'.periods = memory.periods /\ (memory.processing => memory'.cache)
      BY <2>1 DEF ReportingTypeOK
    <2>3. faults = 0 => memory.processing
      <3>1. pos + 1 \in pos + 1 .. Len(queue)
        BY <2>1, NextMessage
      <3> QED BY <2>1, <3>1 DEF Dumps, Follows, Message
    <2>4. faults = 0 => db'.periods /\ memory'.periods
      BY <2>1, <2>2 DEF Dumps
    <2> QED BY <2>1, <2>2, <2>3, <2>4, DumpsConsumed
  <1>8. CASE TruncateEnd
    <2>1. /\ UNCHANGED <<queue, faults>> /\ pos < Len(queue)
          /\ Message.type = "truncate_end" /\ pos' = pos + 1
          /\ memory' = [periods |-> memory.cache, cache |-> FALSE, processing |-> FALSE]
      BY <1>8 DEF TruncateEnd, NextIs, clock
    <2>2. db'.periods = memory.cache /\ memory'.periods = memory.cache
      BY <1>8, <2>1, TruncateTables
    <2>3. faults = 0 => memory.cache
      <3>1. pos + 1 \in pos + 1 .. Len(queue)
        BY <2>1, NextMessage
      <3> QED BY <2>1, <3>1 DEF Dumps, Follows, Message
    <2> QED BY <2>1, <2>2, <2>3, DumpsConsumed
  <1>9. CASE RebuildLocks
    <2>1. \A e \in db.events : e.durations # "deleted"
      BY <1>9, NoneDeleted DEF RebuildLocks, StartRebuild, NextIs
    <2>2. db'.periods = db.periods
      BY <1>9, <2>1, RebuildTables
    <2>3. UNCHANGED <<queue, pos, faults, memory>>
      BY <1>9 DEF RebuildLocks, StartRebuild, clock
    <2> QED BY <2>2, <2>3, DumpsKept
  <1>10. ASSUME NEW e \in todo, RebuildEvent(e) PROVE Dumps'
    <2>1. db'.periods = db.periods
      BY <1>10, DurationTables DEF RebuildEvent
    <2>2. UNCHANGED <<queue, pos, faults, memory>>
      BY <1>10 DEF RebuildEvent, clock
    <2> QED BY <2>1, <2>2, DumpsKept
  <1>11. CASE EndRebuild \/ Throw \/ Terminate \/ Joined
    <2>1. UNCHANGED <<queue, pos, faults, memory, db>>
      BY <1>11 DEF EndRebuild, Throw, Terminate, Joined, clock
    <2> QED BY <2>1, DumpsKept
  <1>12. CASE RebuildAvailabilities
    <2>1. /\ UNCHANGED <<queue, faults, memory, db>> /\ pos < Len(queue)
          /\ Message.type = "rebuild" /\ pos' = pos + 1
      BY <1>12 DEF RebuildAvailabilities, Busy, clock
    <2>2. faults = 0 => db'.periods /\ memory'.periods
      BY <2>1 DEF Dumps
    <2> QED BY <2>1, <2>2, DumpsConsumed
  <1>13. CASE Destroy \/ ConnectionLost
    <2>1. faults' # 0
      BY <1>0, <1>13 DEF Destroy, ConnectionLost
    <2> QED BY <2>1 DEF Dumps
  <1>14. CASE Plan \/ WriteDay
    <2>1. db'.periods = db.periods
      BY <1>14, PlanTables, WriteDayTables
    <2>2. UNCHANGED <<queue, pos, faults, memory>>
      BY <1>14 DEF Plan, WriteDay, clock, streamVars
    <2> QED BY <2>1, <2>2, DumpsKept
  <1> QED BY <1>1, <1>2, <1>3, <1>4, <1>5, <1>6, <1>7, <1>8, <1>9, <1>10, <1>11, <1>12, <1>13,
             <1>14, DumpsFlush DEF ReportingNext, StreamStep, ThreadStep

-----------------------------------------------------------------------------
(* The first state. *)
LEMMA ReportingInitial == ReportingInit => ReportingInd
  <1> SUFFICES ASSUME ReportingInit PROVE ReportingInd
    OBVIOUS
  <1>1. 1 \in Days /\ Days \subseteq Nat
    BY ReportingAssumption DEF Days
  <1>2. PICK E : E = [ba : Bas, start : {1}, end : {NoEnd}, durations : {"none"}]
    OBVIOUS
  <1>3. PICK R : R = [k \in Bas \X Days |-> 0]
    OBVIOUS
  <1>4. db = [events |-> E, rows |-> R, periods |-> TRUE] /\ durable = db
    BY <1>2, <1>3 DEF ReportingInit
  <1>5. E \in SUBSET BaEvents /\ \A e \in E : e.durations # "deleted"
    BY <1>1, <1>2 DEF BaEvents
  <1>6. R \in [Bas \X Days -> 0..2] /\ \A k \in Bas \X Days : R[k] = 0
    BY <1>3
  <1>7. /\ db \in Tables /\ durable \in Tables /\ db.events = E /\ db.rows = R /\ db.periods
        /\ durable.events = E /\ durable.rows = R
    BY <1>4, <1>5, <1>6 DEF Tables
  <1>8. ReportingTypeOK
    <2>1. queue = <<>> /\ pos = 0
      BY DEF ReportingInit
    <2>2. queue \in Seq(Messages) /\ pos \in 0..Len(queue)
      BY <2>1
    <2>3. memory \in [periods : BOOLEAN, cache : BOOLEAN, processing : BOOLEAN]
          /\ should \in [exit : BOOLEAN, rebuild : BOOLEAN, bas : SUBSET Bas]
      BY DEF ReportingInit
    <2> QED BY <1>1, <1>7, <2>2, <2>3 DEF ReportingInit, ReportingTypeOK
  <1>9. Locks /\ Faulty /\ Busy
    BY DEF ReportingInit, Locks, Faulty, Busy, Building
  <1>10. Deletions /\ Rows
    BY <1>5, <1>6, <1>7 DEF ReportingInit, Deletions, Rows
  <1>11. Dumps
    <2>1. Len(queue) = 0 /\ pos = 0 /\ memory.periods
      BY DEF ReportingInit
    <2>2. \A k : k \notin pos + 1 .. Len(queue)
      BY <2>1
    <2> QED BY <1>7, <2>1, <2>2 DEF Dumps
  <1> QED BY <1>8, <1>9, <1>10, <1>11 DEF ReportingInd

(* A step of the reporting, or of nothing. *)
LEMMA ReportingStep == ReportingInd /\ [ReportingNext]_vars => ReportingInd'
  <1> SUFFICES ASSUME ReportingInd, [ReportingNext]_vars PROVE ReportingInd'
    OBVIOUS
  <1>1. CASE ReportingNext
    BY <1>1, TypeStep, OwnersStep, BusyStep, DeletionsStep, RowsStep, DumpsStep DEF ReportingInd
  <1>2. CASE UNCHANGED vars
    <2>1. /\ ReportingTypeOK' /\ Locks' /\ Faulty'
      BY <1>2 DEF vars, ReportingInd, ReportingTypeOK, Locks, Faulty, Building
    <2>2. Busy' /\ Deletions'
      BY <1>2 DEF vars, ReportingInd, Busy, Message, Deletions, Connected
    <2>3. Rows' /\ Dumps'
      BY <1>2 DEF vars, ReportingInd, Rows, ForBa, Dumps, Follows
    <2> QED BY <2>1, <2>2, <2>3 DEF ReportingInd
  <1> QED BY <1>1, <1>2

(* What the inductive invariant is for. *)
LEMMA ReportingImplied == ReportingInd => ReportingInv
  <1> SUFFICES ASSUME ReportingInd PROVE ReportingInv
    OBVIOUS
  <1>1. OneRow
    BY DEF ReportingInd, Rows, OneRow
  <1>2. RebuildUnseen
    <2>1. Building => spc # "rebuild"
      BY DEF ReportingInd, Locks
    <2> QED BY <2>1, NoneDeleted DEF ReportingInd, RebuildUnseen
  <1>3. DimensionsKept
    BY DEF ReportingInd, Dumps, DimensionsKept
  <1> QED BY <1>1, <1>2, <1>3 DEF ReportingInd, ReportingInv

(* The tables of the reporting stay consistent: the availability of a BA   *)
(* on a day is written once, however nights, rebuilds, lost connections    *)
(* and restarts follow one another; no day is written from durations that  *)
(* a rebuild has deleted; and without a fault a dump never leaves the      *)
(* dimension tables empty (reporting_stream.cc, availability_thread.cc).   *)
THEOREM ReportingCorrect == ReportingSpec => []ReportingInv
  BY ReportingInitial, ReportingStep, ReportingImplied, PTL DEF ReportingSpec

-----------------------------------------------------------------------------
(***************************************************************************)
(* Ba: totals, graph and inherited downtimes of the business activities.   *)
(***************************************************************************)

(* What a BA and the impacts it caches may be. *)
Sources == {"impact", "best", "worst", "ratio"}
Impacts == [nominal : Int, ack : Int, downtime : Int, state : States, inDt : BOOLEAN]
BaEventSet == [status : States, inDt : BOOLEAN]
ImpactMaps == UNION {[D -> Impacts] : D \in SUBSET (1 .. 3)}
BaRecords ==
    [source : Sources, impacts : ImpactMaps, level : Int, ack : Int, downtime : Int,
     computed : States, critical : Nat, count : Nat, inDt : BOOLEAN,
     inherited : BOOLEAN, event : BaEventSet, touched : BOOLEAN]

(* What an impact takes off the level, and adds to the critical ones. *)
Weight(imp) == IF Ignored(imp) THEN 0 ELSE imp.nominal
Critical(b, imp) ==
    IF ~Ignored(imp) /\ b.source = "ratio" /\ imp.state = 2 THEN 1 ELSE 0

(* What the computation of the totals leaves alone. *)
SameBa(a, b) ==
    /\ a.source = b.source /\ a.impacts = b.impacts
    /\ a.inDt = b.inDt /\ a.inherited = b.inherited /\ a.event = b.event

(* The state a BA keeps after one more of its impacts. *)
Picked(b, imp, x) ==
    /\ x \in {b.computed} \union (IF Ignored(imp) THEN {} ELSE {imp.state})
    /\ b.source = "worst" =>
           /\ Rank[b.computed] <= Rank[x]
           /\ ~Ignored(imp) => Rank[imp.state] <= Rank[x]
    /\ b.source = "best" =>
           /\ Rank[x] <= Rank[b.computed]
           /\ ~Ignored(imp) => Rank[x] <= Rank[imp.state]

(* c is the BA b with one more impact. *)
OneMore(c, b, imp) ==
    /\ c \in BaRecords /\ SameBa(c, b) /\ c.count = b.count /\ c.touched = b.touched
    /\ c.level = b.level - Weight(imp)
    /\ c.ack = b.ack + imp.ack /\ c.downtime = b.downtime + imp.downtime
    /\ c.critical = b.critical + Critical(b, imp)
    /\ Picked(b, imp, c.computed)

(* The order of the states. *)
LEMMA RankRange == \A s \in States : Rank[s] \in 0 .. 3
  BY DEF Rank, States

(* An impact that counts: the level, the state and the critical ones. *)
LEMMA WeighedFields ==
    ASSUME NEW b \in BaRecords, NEW imp \in Impacts, NEW c, c = Weighed(b, imp)
    PROVE  /\ c \in BaRecords /\ SameBa(c, b) /\ c.count = b.count /\ c.touched = b.touched
           /\ c.level = b.level - imp.nominal
           /\ c.ack = b.ack /\ c.downtime = b.downtime
           /\ c.critical = b.critical +
                  (IF b.source = "ratio" /\ imp.state = 2 THEN 1 ELSE 0)
           /\ c.computed \in {b.computed, imp.state}
           /\ b.source = "worst" =>
                  Rank[b.computed] <= Rank[c.computed] /\ Rank[imp.state] <= Rank[c.computed]
           /\ b.source = "best" =>
                  Rank[c.computed] <= Rank[b.computed] /\ Rank[c.computed] <= Rank[imp.state]
<1> DEFINE lv == b.level - imp.nominal
           cp == CASE b.source = "best" /\ Rank[imp.state] < Rank[b.computed] -> imp.state
                   [] b.source = "worst" /\ Rank[imp.state] > Rank[b.computed] -> imp.state
                   [] OTHER -> b.computed
           cr == IF b.source = "ratio" /\ imp.state = 2 THEN b.critical + 1 ELSE b.critical
<1>1. c = [b EXCEPT !.level = lv, !.computed = cp, !.critical = cr]
  BY DEF Weighed
<1>2. imp.state \in States /\ imp.nominal \in Int /\ b.computed \in States
      /\ b.level \in Int /\ b.critical \in Nat
  BY DEF BaRecords, Impacts
<1>3. lv \in Int /\ cp \in States /\ cr \in Nat
  BY <1>2
<1>4. /\ cp \in {b.computed, imp.state}
      /\ b.source = "worst" => Rank[b.computed] <= Rank[cp] /\ Rank[imp.state] <= Rank[cp]
      /\ b.source = "best" => Rank[cp] <= Rank[b.computed] /\ Rank[cp] <= Rank[imp.state]
  BY <1>2, RankRange
<1>5. cr = b.critical + (IF b.source = "ratio" /\ imp.state = 2 THEN 1 ELSE 0)
  BY <1>2
<1> HIDE DEF lv, cp, cr
<1>6. c \in BaRecords /\ c.level = lv /\ c.computed = cp /\ c.critical = cr
      /\ SameBa(c, b) /\ c.count = b.count /\ c.touched = b.touched
      /\ c.ack = b.ack /\ c.downtime = b.downtime
  BY <1>1, <1>3 DEF BaRecords, SameBa
<1> QED BY <1>4, <1>5, <1>6 DEF lv

(* ba::_apply_impact adds one impact to the totals. *)
LEMMA AppliedFields ==
    ASSUME NEW b \in BaRecords, NEW imp \in Impacts
    PROVE  OneMore(Applied(b, imp), b, imp)
<1> DEFINE w == IF Ignored(imp) THEN b ELSE Weighed(b, imp)
           c == Applied(b, imp)
<1>1. /\ w \in BaRecords /\ SameBa(w, b) /\ w.count = b.count /\ w.touched = b.touched
      /\ w.level = b.level - Weight(imp)
      /\ w.ack = b.ack /\ w.downtime = b.downtime
      /\ w.critical = b.critical + Critical(b, imp)
      /\ Picked(b, imp, w.computed)
  <2>1. CASE Ignored(imp)
    <3>1. w = b BY <2>1
    <3>2. b.level \in Int /\ b.critical \in Nat /\ b.computed \in States BY DEF BaRecords
    <3>3. Rank[b.computed] <= Rank[b.computed] BY <3>2, RankRange
    <3> HIDE DEF w
    <3> QED BY <3>1, <3>2, <3>3, <2>1 DEF SameBa, Weight, Critical, Picked
  <2>2. CASE ~Ignored(imp)
    <3>1. w = Weighed(b, imp) BY <2>2
    <3> HIDE DEF w
    <3> QED BY <3>1, <2>2, WeighedFields DEF Weight, Critical, Picked
  <2> QED BY <2>1, <2>2
<1>2. c = [w EXCEPT !.ack = w.ack + imp.ack, !.downtime = w.downtime + imp.downtime]
  BY DEF Applied
<1>3. imp.ack \in Int /\ imp.downtime \in Int /\ w.ack \in Int /\ w.downtime \in Int
  BY <1>1 DEF BaRecords, Impacts
<1> HIDE DEF c, w
<1>4. /\ c \in BaRecords /\ SameBa(c, w) /\ c.count = w.count /\ c.touched = w.touched
      /\ c.level = w.level /\ c.critical = w.critical /\ c.computed = w.computed
      /\ c.ack = w.ack + imp.ack /\ c.downtime = w.downtime + imp.downtime
  <2>1. w \in BaRecords BY <1>1
  <2> DEFINE x == w.ack + imp.ack
             y == w.downtime + imp.downtime
  <2>2. x \in Int /\ y \in Int BY <1>3
  <2>3. c = [w EXCEPT !.ack = x, !.downtime = y] BY <1>2
  <2> HIDE DEF x, y
  <2>4. c \in BaRecords /\ c.ack = x /\ c.downtime = y
    BY <2>1, <2>2, <2>3 DEF BaRecords
  <2>5. /\ SameBa(c, w) /\ c.count = w.count /\ c.touched = w.touched
        /\ c.level = w.level /\ c.critical = w.critical /\ c.computed = w.computed
    BY <2>1, <2>3 DEF BaRecords, SameBa
  <2> QED BY <2>4, <2>5 DEF x, y
<1>5. OneMore(c, b, imp)
  BY <1>1, <1>4 DEF OneMore, SameBa
<1> QED BY <1>5 DEF c

(* What the impacts of K, each and together, are in the totals of b. *)
WeightAt(b, K, k) == IF k \in K THEN Weight(b.impacts[k]) ELSE 0
AckAt(b, K, k) == IF k \in K THEN b.impacts[k].ack ELSE 0
DowntimeAt(b, K, k) == IF k \in K THEN b.impacts[k].downtime ELSE 0
CriticalAt(b, K, k) == IF k \in K THEN Critical(b, b.impacts[k]) ELSE 0
WeightOf(b, K) == WeightAt(b, K, 1) + WeightAt(b, K, 2) + WeightAt(b, K, 3)
AckOf(b, K) == AckAt(b, K, 1) + AckAt(b, K, 2) + AckAt(b, K, 3)
DowntimeOf(b, K) == DowntimeAt(b, K, 1) + DowntimeAt(b, K, 2) + DowntimeAt(b, K, 3)
CriticalOf(b, K) == CriticalAt(b, K, 1) + CriticalAt(b, K, 2) + CriticalAt(b, K, 3)

(* The impacts of K that are not ignored. *)
CountedIn(b, K) == {k \in K : ~Ignored(b.impacts[k])}

(* The state y that the impacts of K make of the state x. *)
Chosen(b, K, x, y) ==
    /\ y \in {x} \union {b.impacts[k].state : k \in CountedIn(b, K)}
    /\ b.source = "worst" =>
           /\ Rank[x] <= Rank[y]
           /\ \A k \in CountedIn(b, K) : Rank[b.impacts[k].state] <= Rank[y]
    /\ b.source = "best" =>
           /\ Rank[y] <= Rank[x]
           /\ \A k \in CountedIn(b, K) : Rank[y] <= Rank[b.impacts[k].state]

(* The totals of b are those of its impacts in K. *)
PartTotals(b, K) ==
    /\ b.source = "impact" =>
           /\ b.level = 100 - WeightOf(b, K)
           /\ b.ack = AckOf(b, K) /\ b.downtime = DowntimeOf(b, K)
    /\ b.source = "ratio" => b.critical = CriticalOf(b, K)
    /\ b.source = "worst" => Chosen(b, K, 0, b.computed)
    /\ b.source = "best" /\ b.touched => Chosen(b, K, 2, b.computed)

(* The impacts a BA caches. *)
LEMMA ImpactAt ==
    ASSUME NEW b \in BaRecords, NEW k \in DOMAIN b.impacts
    PROVE  /\ b.impacts[k] \in Impacts /\ k \in 1 .. 3
           /\ b.impacts[k].state \in States /\ b.impacts[k].ack \in Int
           /\ b.impacts[k].downtime \in Int /\ b.impacts[k].nominal \in Int
           /\ Weight(b.impacts[k]) \in Int /\ Critical(b, b.impacts[k]) \in {0, 1}
<1>1. b.impacts[k] \in Impacts /\ k \in 1 .. 3
  BY DEF BaRecords, ImpactMaps
<1> QED BY <1>1 DEF Impacts, Weight, Critical

(* The types of their parts in the totals. *)
LEMMA AtTypes ==
    ASSUME NEW b \in BaRecords, NEW K \in SUBSET DOMAIN b.impacts, NEW k
    PROVE  /\ WeightAt(b, K, k) \in Int /\ AckAt(b, K, k) \in Int
           /\ DowntimeAt(b, K, k) \in Int /\ CriticalAt(b, K, k) \in Nat
  BY ImpactAt DEF WeightAt, AckAt, DowntimeAt, CriticalAt

(* The state chosen from two sets of impacts, one after the other. *)
LEMMA ChosenTwice ==
    ASSUME NEW b \in BaRecords, NEW A \in SUBSET DOMAIN b.impacts,
           NEW B \in SUBSET DOMAIN b.impacts,
           NEW x \in States, NEW y \in States, NEW z \in States,
           Chosen(b, A, x, y), Chosen(b, B, y, z)
    PROVE  Chosen(b, A \union B, x, z)
<1>1. CountedIn(b, A \union B) = CountedIn(b, A) \union CountedIn(b, B)
  BY DEF CountedIn
<1>2. \A k \in CountedIn(b, A \union B) : b.impacts[k].state \in States
  BY ImpactAt DEF CountedIn
<1>3. z \in {x} \union {b.impacts[k].state : k \in CountedIn(b, A \union B)}
  BY <1>1 DEF Chosen
<1>4. ASSUME b.source = "worst"
      PROVE  /\ Rank[x] <= Rank[z]
             /\ \A k \in CountedIn(b, A \union B) : Rank[b.impacts[k].state] <= Rank[z]
  <2>1. /\ Rank[x] <= Rank[y] /\ Rank[y] <= Rank[z]
        /\ \A k \in CountedIn(b, A) : Rank[b.impacts[k].state] <= Rank[y]
        /\ \A k \in CountedIn(b, B) : Rank[b.impacts[k].state] <= Rank[z]
    BY <1>4 DEF Chosen
  <2>2. Rank[x] \in Int /\ Rank[y] \in Int /\ Rank[z] \in Int BY RankRange
  <2>3. ASSUME NEW k \in CountedIn(b, A \union B) PROVE Rank[b.impacts[k].state] <= Rank[z]
    <3>1. b.impacts[k].state \in States BY <1>2
    <3> DEFINE r == Rank[b.impacts[k].state]
    <3>2. r \in Int BY <3>1, RankRange
    <3>3. CASE k \in CountedIn(b, A)
      <4>1. r <= Rank[y] BY <2>1, <3>3
      <4> HIDE DEF r
      <4>2. r <= Rank[z] BY <2>1, <2>2, <3>2, <4>1
      <4> QED BY <4>2 DEF r
    <3>4. CASE k \in CountedIn(b, B)
      BY <2>1, <3>4
    <3> QED BY <1>1, <3>3, <3>4
  <2>4. Rank[x] <= Rank[z] BY <2>1, <2>2
  <2> QED BY <2>3, <2>4
<1>5. ASSUME b.source = "best"
      PROVE  /\ Rank[z] <= Rank[x]
             /\ \A k \in CountedIn(b, A \union B) : Rank[z] <= Rank[b.impacts[k].state]
  <2>1. /\ Rank[y] <= Rank[x] /\ Rank[z] <= Rank[y]
        /\ \A k \in CountedIn(b, A) : Rank[y] <= Rank[b.impacts[k].state]
        /\ \A k \in CountedIn(b, B) : Rank[z] <= Rank[b.impacts[k].state]
    BY <1>5 DEF Chosen
  <2>2. Rank[x] \in Int /\ Rank[y] \in Int /\ Rank[z] \in Int BY RankRange
  <2>3. ASSUME NEW k \in CountedIn(b, A \union B) PROVE Rank[z] <= Rank[b.impacts[k].state]
    <3>1. b.impacts[k].state \in States BY <1>2
    <3> DEFINE r == Rank[b.impacts[k].state]
    <3>2. r \in Int BY <3>1, RankRange
    <3>3. CASE k \in CountedIn(b, A)
      <4>1. Rank[y] <= r BY <2>1, <3>3
      <4> HIDE DEF r
      <4>2. Rank[z] <= r BY <2>1, <2>2, <3>2, <4>1
      <4> QED BY <4>2 DEF r
    <3>4. CASE k \in CountedIn(b, B)
      BY <2>1, <3>4
    <3> QED BY <1>1, <3>3, <3>4
  <2>4. Rank[z] <= Rank[x] BY <2>1, <2>2
  <2> QED BY <2>3, <2>4
<1> QED BY <1>3, <1>4, <1>5 DEF Chosen

(* c is the BA b with the impacts of K in its totals. *)
More(c, b, K) ==
    /\ c \in BaRecords /\ SameBa(c, b) /\ c.count = b.count /\ c.touched = b.touched
    /\ c.level = b.level - WeightOf(b, K)
    /\ c.ack = b.ack + AckOf(b, K) /\ c.downtime = b.downtime + DowntimeOf(b, K)
    /\ c.critical = b.critical + CriticalOf(b, K)
    /\ Chosen(b, K, b.computed, c.computed)

(* One round of the loop over the impacts, *)
LEMMA ApplyOneFields ==
    ASSUME NEW b \in BaRecords, NEW K \in SUBSET DOMAIN b.impacts, NEW k,
           NEW c, c = ApplyOne(b, K, k)
    PROVE  /\ c \in BaRecords /\ SameBa(c, b) /\ c.count = b.count
           /\ c.touched = b.touched
           /\ c.level = b.level - WeightAt(b, K, k)
           /\ c.ack = b.ack + AckAt(b, K, k)
           /\ c.downtime = b.downtime + DowntimeAt(b, K, k)
           /\ c.critical = b.critical + CriticalAt(b, K, k)
           /\ Chosen(b, K \intersect {k}, b.computed, c.computed)
<1>0. /\ b.level \in Int /\ b.ack \in Int /\ b.downtime \in Int /\ b.critical \in Nat
      /\ b.computed \in States
  BY DEF BaRecords
<1>1. CASE k \notin K
  <2>1. c = b BY <1>1 DEF ApplyOne
  <2>2. K \intersect {k} = {} BY <1>1
  <2>3. Chosen(b, {}, b.computed, b.computed)
    BY <1>0, RankRange DEF Chosen, CountedIn
  <2>4. /\ WeightAt(b, K, k) = 0 /\ AckAt(b, K, k) = 0
        /\ DowntimeAt(b, K, k) = 0 /\ CriticalAt(b, K, k) = 0
    BY <1>1 DEF WeightAt, AckAt, DowntimeAt, CriticalAt
  <2>5. SameBa(c, b) /\ c.count = b.count /\ c.touched = b.touched /\ c \in BaRecords
    BY <2>1 DEF SameBa
  <2>6. Chosen(b, K \intersect {k}, b.computed, c.computed)
    BY <2>1, <2>2, <2>3
  <2> QED BY <1>0, <2>1, <2>4, <2>5, <2>6
<1>2. CASE k \in K
  <2> DEFINE imp == b.impacts[k]
  <2>1. c = Applied(b, imp) BY <1>2 DEF ApplyOne
  <2>2. imp \in Impacts BY <1>2, ImpactAt
  <2>3. OneMore(c, b, imp) BY <2>1, <2>2, AppliedFields
  <2>4. K \intersect {k} = {k} BY <1>2
  <2>5. Picked(b, imp, c.computed) BY <2>3 DEF OneMore
  <2>6. CountedIn(b, {k}) = IF Ignored(imp) THEN {} ELSE {k} BY DEF CountedIn
  <2>7. Chosen(b, {k}, b.computed, c.computed)
    BY <2>5, <2>6, <1>0, RankRange DEF Chosen, Picked
  <2> QED
    BY <1>2, <2>3, <2>4, <2>7 DEF OneMore, WeightAt, AckAt, DowntimeAt, CriticalAt
<1> QED BY <1>1, <1>2

(* which leaves the impacts themselves alone, *)
LEMMA SameAt ==
    ASSUME NEW b, NEW c, SameBa(c, b), NEW K
    PROVE  /\ \A k : /\ WeightAt(c, K, k) = WeightAt(b, K, k)
                     /\ AckAt(c, K, k) = AckAt(b, K, k)
                     /\ DowntimeAt(c, K, k) = DowntimeAt(b, K, k)
                     /\ CriticalAt(c, K, k) = CriticalAt(b, K, k)
           /\ \A x, y : Chosen(c, K, x, y) <=> Chosen(b, K, x, y)
<1>1. c.impacts = b.impacts /\ c.source = b.source BY DEF SameBa
<1>2. ASSUME NEW k
      PROVE  /\ WeightAt(c, K, k) = WeightAt(b, K, k)
             /\ AckAt(c, K, k) = AckAt(b, K, k)
             /\ DowntimeAt(c, K, k) = DowntimeAt(b, K, k)
             /\ CriticalAt(c, K, k) = CriticalAt(b, K, k)
  BY <1>1 DEF WeightAt, AckAt, DowntimeAt, CriticalAt, Critical
<1>3. CountedIn(c, K) = CountedIn(b, K) BY <1>1 DEF CountedIn
<1>4. ASSUME NEW x, NEW y PROVE Chosen(c, K, x, y) <=> Chosen(b, K, x, y)
  BY <1>1, <1>3 DEF Chosen
<1> QED BY <1>2, <1>4

(* and the loop as a whole. *)
LEMMA ApplyAllFields ==
    ASSUME NEW b \in BaRecords, NEW K \in SUBSET DOMAIN b.impacts
    PROVE  More(ApplyAll(b, K), b, K)
<1> DEFINE c1 == ApplyOne(b, K, 1)
           c2 == ApplyOne(c1, K, 2)
           c3 == ApplyOne(c2, K, 3)
<1>1. ApplyAll(b, K) = c3 BY DEF ApplyAll
<1>2. /\ c1 \in BaRecords /\ SameBa(c1, b) /\ c1.count = b.count /\ c1.touched = b.touched
      /\ c1.level = b.level - WeightAt(b, K, 1) /\ c1.ack = b.ack + AckAt(b, K, 1)
      /\ c1.downtime = b.downtime + DowntimeAt(b, K, 1)
      /\ c1.critical = b.critical + CriticalAt(b, K, 1)
      /\ Chosen(b, K \intersect {1}, b.computed, c1.computed)
  BY ApplyOneFields
<1> HIDE DEF c1
<1>3. K \in SUBSET DOMAIN c1.impacts BY <1>2 DEF SameBa
<1>4. /\ c2 \in BaRecords /\ SameBa(c2, c1) /\ c2.count = c1.count /\ c2.touched = c1.touched
      /\ c2.level = c1.level - WeightAt(c1, K, 2) /\ c2.ack = c1.ack + AckAt(c1, K, 2)
      /\ c2.downtime = c1.downtime + DowntimeAt(c1, K, 2)
      /\ c2.critical = c1.critical + CriticalAt(c1, K, 2)
      /\ Chosen(c1, K \intersect {2}, c1.computed, c2.computed)
  BY <1>2, <1>3, ApplyOneFields
<1> HIDE DEF c2
<1>4a. c2 \in BaRecords BY <1>4
<1>5. SameBa(c2, b) BY <1>2, <1>4 DEF SameBa
<1>6. K \in SUBSET DOMAIN c2.impacts BY <1>5 DEF SameBa
<1>7. /\ c3 \in BaRecords /\ SameBa(c3, c2) /\ c3.count = c2.count /\ c3.touched = c2.touched
      /\ c3.level = c2.level - WeightAt(c2, K, 3) /\ c3.ack = c2.ack + AckAt(c2, K, 3)
      /\ c3.downtime = c2.downtime + DowntimeAt(c2, K, 3)
      /\ c3.critical = c2.critical + CriticalAt(c2, K, 3)
      /\ Chosen(c2, K \intersect {3}, c2.computed, c3.computed)
  BY <1>4a, <1>6, ApplyOneFields
<1> HIDE DEF c3
<1>8. SameBa(c3, b) BY <1>5, <1>7 DEF SameBa
<1>9. /\ WeightAt(c1, K, 2) = WeightAt(b, K, 2) /\ WeightAt(c2, K, 3) = WeightAt(b, K, 3)
      /\ AckAt(c1, K, 2) = AckAt(b, K, 2) /\ AckAt(c2, K, 3) = AckAt(b, K, 3)
      /\ DowntimeAt(c1, K, 2) = DowntimeAt(b, K, 2)
      /\ DowntimeAt(c2, K, 3) = DowntimeAt(b, K, 3)
      /\ CriticalAt(c1, K, 2) = CriticalAt(b, K, 2)
      /\ CriticalAt(c2, K, 3) = CriticalAt(b, K, 3)
  BY <1>2, <1>5, SameAt
<1>10. /\ b.level \in Int /\ b.ack \in Int /\ b.downtime \in Int /\ b.critical \in Nat
  BY DEF BaRecords
<1>11. \A k : /\ WeightAt(b, K, k) \in Int /\ AckAt(b, K, k) \in Int
              /\ DowntimeAt(b, K, k) \in Int /\ CriticalAt(b, K, k) \in Nat
  BY AtTypes
<1>12. c3.level = b.level - WeightOf(b, K)
  <2>1. c3.level = ((b.level - WeightAt(b, K, 1)) - WeightAt(b, K, 2)) - WeightAt(b, K, 3)
    BY <1>2, <1>4, <1>7, <1>9
  <2>2. WeightAt(b, K, 1) \in Int /\ WeightAt(b, K, 2) \in Int /\ WeightAt(b, K, 3) \in Int
    BY <1>11
  <2> QED BY ONLY <2>1, <2>2, <1>10 DEF WeightOf
<1>13. c3.ack = b.ack + AckOf(b, K)
  <2>1. c3.ack = ((b.ack + AckAt(b, K, 1)) + AckAt(b, K, 2)) + AckAt(b, K, 3)
    BY <1>2, <1>4, <1>7, <1>9
  <2>2. AckAt(b, K, 1) \in Int /\ AckAt(b, K, 2) \in Int /\ AckAt(b, K, 3) \in Int
    BY <1>11
  <2> QED BY ONLY <2>1, <2>2, <1>10 DEF AckOf
<1>14. c3.downtime = b.downtime + DowntimeOf(b, K)
  <2>1. c3.downtime = ((b.downtime + DowntimeAt(b, K, 1)) + DowntimeAt(b, K, 2))
                          + DowntimeAt(b, K, 3)
    BY <1>2, <1>4, <1>7, <1>9
  <2>2. DowntimeAt(b, K, 1) \in Int /\ DowntimeAt(b, K, 2) \in Int
        /\ DowntimeAt(b, K, 3) \in Int
    BY <1>11
  <2> QED BY ONLY <2>1, <2>2, <1>10 DEF DowntimeOf
<1>15. c3.critical = b.critical + CriticalOf(b, K)
  <2>1. c3.critical = ((b.critical + CriticalAt(b, K, 1)) + CriticalAt(b, K, 2))
                          + CriticalAt(b, K, 3)
    BY <1>2, <1>4, <1>7, <1>9
  <2>2. CriticalAt(b, K, 1) \in Nat /\ CriticalAt(b, K, 2) \in Nat
        /\ CriticalAt(b, K, 3) \in Nat
    BY <1>11
  <2> QED BY ONLY <2>1, <2>2, <1>10 DEF CriticalOf
<1>16. Chosen(b, K, b.computed, c3.computed)
  <2>1. /\ Chosen(b, K \intersect {2}, c1.computed, c2.computed)
        /\ Chosen(b, K \intersect {3}, c2.computed, c3.computed)
    BY <1>2, <1>4, <1>5, <1>7, SameAt
  <2>2. /\ b.computed \in States /\ c1.computed \in States /\ c2.computed \in States
        /\ c3.computed \in States
    BY <1>2, <1>4, <1>7 DEF BaRecords
  <2>3. Chosen(b, (K \intersect {1}) \union (K \intersect {2}), b.computed, c2.computed)
    <3>1. K \intersect {1} \in SUBSET DOMAIN b.impacts
          /\ K \intersect {2} \in SUBSET DOMAIN b.impacts OBVIOUS
    <3> QED BY <1>2, <2>1, <2>2, <3>1, ChosenTwice
  <2>4. Chosen(b, ((K \intersect {1}) \union (K \intersect {2})) \union (K \intersect {3}),
               b.computed, c3.computed)
    <3>1. (K \intersect {1}) \union (K \intersect {2}) \in SUBSET DOMAIN b.impacts
          /\ K \intersect {3} \in SUBSET DOMAIN b.impacts OBVIOUS
    <3> QED BY <2>1, <2>2, <2>3, <3>1, ChosenTwice
  <2>5. K \subseteq 1 .. 3 BY ImpactAt
  <2>6. ((K \intersect {1}) \union (K \intersect {2})) \union (K \intersect {3}) = K
    BY <2>5
  <2> QED BY <2>4, <2>6
<1>17. c3.count = b.count /\ c3.touched = b.touched BY <1>2, <1>4, <1>7
<1> QED BY <1>1, <1>7, <1>8, <1>12, <1>13, <1>14, <1>15, <1>16, <1>17 DEF More

(* Only the impacts of K and the totals matter. *)
LEMMA PartFrame ==
    ASSUME NEW b, NEW c, NEW K, \A k \in K : c.impacts[k] = b.impacts[k],
           c.source = b.source, c.level = b.level, c.ack = b.ack,
           c.downtime = b.downtime, c.computed = b.computed,
           c.critical = b.critical, c.touched = b.touched, PartTotals(b, K)
    PROVE  PartTotals(c, K)
<1>1. ASSUME NEW k
      PROVE  /\ WeightAt(c, K, k) = WeightAt(b, K, k)
             /\ AckAt(c, K, k) = AckAt(b, K, k)
             /\ DowntimeAt(c, K, k) = DowntimeAt(b, K, k)
             /\ CriticalAt(c, K, k) = CriticalAt(b, K, k)
  BY DEF WeightAt, AckAt, DowntimeAt, CriticalAt, Critical
<1>2. /\ WeightOf(c, K) = WeightOf(b, K) /\ AckOf(c, K) = AckOf(b, K)
      /\ DowntimeOf(c, K) = DowntimeOf(b, K) /\ CriticalOf(c, K) = CriticalOf(b, K)
  BY <1>1 DEF WeightOf, AckOf, DowntimeOf, CriticalOf
<1>3. CountedIn(c, K) = CountedIn(b, K) BY DEF CountedIn
<1>4. \A k \in CountedIn(b, K) : c.impacts[k] = b.impacts[k] BY DEF CountedIn
<1>5. ASSUME NEW x, NEW y, Chosen(b, K, x, y) PROVE Chosen(c, K, x, y)
  BY <1>3, <1>4, <1>5 DEF Chosen
<1> QED BY <1>2, <1>5 DEF PartTotals

(* The sum of a function over the three KPIs. *)
LEMMA SumAt ==
    ASSUME NEW f
    PROVE  Sum(f) = (IF 1 \in DOMAIN f THEN f[1] ELSE 0)
                        + (IF 2 \in DOMAIN f THEN f[2] ELSE 0)
                        + (IF 3 \in DOMAIN f THEN f[3] ELSE 0)
  BY DEF Sum

(* The totals of a BA are those of all of its impacts. *)
LEMMA TotalsArePart ==
    ASSUME NEW b \in BaRecords
    PROVE  Totals(b) <=> PartTotals(b, DOMAIN b.impacts)
<1> DEFINE D == DOMAIN b.impacts
           fw == [k \in Counted(b) |-> b.impacts[k].nominal]
           fa == [k \in D |-> b.impacts[k].ack]
           fd == [k \in D |-> b.impacts[k].downtime]
           fc == [k \in Counted(b) |-> IF b.impacts[k].state = 2 THEN 1 ELSE 0]
<1>1. \A k : k \in Counted(b) <=> k \in D /\ ~Ignored(b.impacts[k])
  BY DEF Counted
<1>2. \A k : (IF k \in DOMAIN fw THEN fw[k] ELSE 0) = WeightAt(b, D, k)
  BY <1>1 DEF WeightAt, Weight
<1>3. \A k : (IF k \in DOMAIN fa THEN fa[k] ELSE 0) = AckAt(b, D, k)
  BY DEF AckAt
<1>4. \A k : (IF k \in DOMAIN fd THEN fd[k] ELSE 0) = DowntimeAt(b, D, k)
  BY DEF DowntimeAt
<1>5. ASSUME b.source = "ratio"
      PROVE  \A k : (IF k \in DOMAIN fc THEN fc[k] ELSE 0) = CriticalAt(b, D, k)
  BY <1>1, <1>5 DEF CriticalAt, Critical
<1>6. CountedSum(b) = WeightOf(b, D)
  <2>1. CountedSum(b) = Sum(fw) BY DEF CountedSum
  <2> HIDE DEF fw
  <2> QED BY <2>1, <1>2, SumAt DEF WeightOf
<1>7. Sum(fa) = AckOf(b, D)
  <2> HIDE DEF fa
  <2> QED BY <1>3, SumAt DEF AckOf
<1>8. Sum(fd) = DowntimeOf(b, D)
  <2> HIDE DEF fd
  <2> QED BY <1>4, SumAt DEF DowntimeOf
<1>9. ASSUME b.source = "ratio" PROVE Sum(fc) = CriticalOf(b, D)
  <2> HIDE DEF fc
  <2> QED BY <1>5, <1>9, SumAt DEF CriticalOf
<1>10. CountedIn(b, D) = Counted(b) BY DEF CountedIn, Counted
<1>11. /\ b.source \in Sources /\ b.computed \in States
       /\ \A k \in Counted(b) : b.impacts[k].state \in States
  BY ImpactAt DEF BaRecords, Counted
<1>12. CASE b.source = "impact"
  BY <1>6, <1>7, <1>8, <1>12 DEF Totals, PartTotals
<1>13. CASE b.source = "ratio"
  BY <1>9, <1>13 DEF Totals, PartTotals
<1>14. CASE b.source = "worst"
  <2>1. Rank[0] <= Rank[b.computed] BY <1>11 DEF Rank, States
  <2> QED BY <1>10, <1>14, <2>1 DEF Totals, PartTotals, Chosen
<1>15. CASE b.source = "best"
  <2>1. Rank[b.computed] <= Rank[2] BY <1>11 DEF Rank, States
  <2> QED BY <1>10, <1>15, <2>1 DEF Totals, PartTotals, Chosen
<1> QED BY <1>11, <1>12, <1>13, <1>14, <1>15 DEF Sources

(* The totals without one of the impacts. *)
LEMMA WithoutOne ==
    ASSUME NEW b \in BaRecords, NEW K \in SUBSET DOMAIN b.impacts, NEW k \in K
    PROVE  /\ WeightOf(b, K) = WeightOf(b, K \ {k}) + Weight(b.impacts[k])
           /\ AckOf(b, K) = AckOf(b, K \ {k}) + b.impacts[k].ack
           /\ DowntimeOf(b, K) = DowntimeOf(b, K \ {k}) + b.impacts[k].downtime
           /\ CriticalOf(b, K) = CriticalOf(b, K \ {k}) + Critical(b, b.impacts[k])
           /\ WeightOf(b, K) \in Int /\ WeightOf(b, K \ {k}) \in Int
           /\ AckOf(b, K) \in Int /\ AckOf(b, K \ {k}) \in Int
           /\ DowntimeOf(b, K) \in Int /\ DowntimeOf(b, K \ {k}) \in Int
           /\ CriticalOf(b, K) \in Nat /\ CriticalOf(b, K \ {k}) \in Nat
<1> DEFINE L == K \ {k}
<1>1. ASSUME NEW j
      PROVE  /\ WeightAt(b, K, j) \in Int /\ AckAt(b, K, j) \in Int
             /\ DowntimeAt(b, K, j) \in Int /\ CriticalAt(b, K, j) \in Nat
             /\ WeightAt(b, L, j) \in Int /\ AckAt(b, L, j) \in Int
             /\ DowntimeAt(b, L, j) \in Int /\ CriticalAt(b, L, j) \in Nat
  BY AtTypes
<1>2. ASSUME NEW j, j # k
      PROVE  /\ WeightAt(b, L, j) = WeightAt(b, K, j)
             /\ AckAt(b, L, j) = AckAt(b, K, j)
             /\ DowntimeAt(b, L, j) = DowntimeAt(b, K, j)
             /\ CriticalAt(b, L, j) = CriticalAt(b, K, j)
  BY <1>2 DEF WeightAt, AckAt, DowntimeAt, CriticalAt
<1>3. /\ WeightAt(b, L, k) = 0 /\ AckAt(b, L, k) = 0
      /\ DowntimeAt(b, L, k) = 0 /\ CriticalAt(b, L, k) = 0
      /\ WeightAt(b, K, k) = Weight(b.impacts[k]) /\ AckAt(b, K, k) = b.impacts[k].ack
      /\ DowntimeAt(b, K, k) = b.impacts[k].downtime
      /\ CriticalAt(b, K, k) = Critical(b, b.impacts[k])
  BY DEF WeightAt, AckAt, DowntimeAt, CriticalAt
<1>4. k \in 1 .. 3 BY ImpactAt
<1> HIDE DEF L
<1>5. /\ WeightOf(b, K) = WeightOf(b, L) + Weight(b.impacts[k])
      /\ WeightOf(b, K) \in Int /\ WeightOf(b, L) \in Int
  BY <1>1, <1>2, <1>3, <1>4 DEF WeightOf
<1>6. /\ AckOf(b, K) = AckOf(b, L) + b.impacts[k].ack
      /\ AckOf(b, K) \in Int /\ AckOf(b, L) \in Int
  BY <1>1, <1>2, <1>3, <1>4 DEF AckOf
<1>7. /\ DowntimeOf(b, K) = DowntimeOf(b, L) + b.impacts[k].downtime
      /\ DowntimeOf(b, K) \in Int /\ DowntimeOf(b, L) \in Int
  BY <1>1, <1>2, <1>3, <1>4 DEF DowntimeOf
<1>8. /\ CriticalOf(b, K) = CriticalOf(b, L) + Critical(b, b.impacts[k])
      /\ CriticalOf(b, K) \in Nat /\ CriticalOf(b, L) \in Nat
  BY <1>1, <1>2, <1>3, <1>4 DEF CriticalOf
<1> QED BY <1>5, <1>6, <1>7, <1>8 DEF L

(* ba::_recompute counts from nothing, *)
LEMMA RecomputeTotals ==
    ASSUME NEW b \in BaRecords, b.source = "impact",
           NEW r, r = Recompute(b)
    PROVE  r \in BaRecords /\ SameBa(r, b) /\ PartTotals(r, DOMAIN b.impacts)
<1> DEFINE D == DOMAIN b.impacts
           z == [b EXCEPT !.ack = 0, !.downtime = 0, !.level = 100,
                          !.critical = 0, !.count = 0]
<1>1. z \in BaRecords /\ SameBa(z, b) /\ z.ack = 0 /\ z.downtime = 0 /\ z.level = 100
  <2>1. z \in BaRecords
    <3> DEFINE zero == 0
               full == 100
               y == [b EXCEPT !.ack = zero, !.downtime = zero, !.level = full]
    <3>1. zero \in Nat /\ zero \in Int /\ full \in Int OBVIOUS
    <3>2. z = [y EXCEPT !.critical = zero, !.count = zero] OBVIOUS
    <3> HIDE DEF zero, full, z
    <3>3. y \in BaRecords BY <3>1 DEF BaRecords
    <3> HIDE DEF y
    <3> QED BY <3>1, <3>2, <3>3 DEF BaRecords
  <2>2. z.ack = 0 /\ z.downtime = 0 /\ z.level = 100 BY DEF BaRecords
  <2>3. SameBa(z, b) BY DEF BaRecords, SameBa
  <2> QED BY <2>1, <2>2, <2>3
<1>2. r = ApplyAll(z, D) BY DEF Recompute
<1> HIDE DEF z
<1>3. D \in SUBSET DOMAIN z.impacts BY <1>1 DEF SameBa
<1>4. More(r, z, D) BY <1>1, <1>2, <1>3, ApplyAllFields
<1>5. SameBa(r, b) BY <1>1, <1>4 DEF More, SameBa
<1>6. /\ r.level = 100 - WeightOf(z, D) /\ r.ack = 0 + AckOf(z, D)
      /\ r.downtime = 0 + DowntimeOf(z, D)
  BY <1>1, <1>4 DEF More
<1>7. /\ WeightOf(z, D) = WeightOf(r, D) /\ AckOf(z, D) = AckOf(r, D)
      /\ DowntimeOf(z, D) = DowntimeOf(r, D)
  <2>1. SameBa(r, z) BY <1>4 DEF More
  <2> QED BY <2>1, SameAt DEF WeightOf, AckOf, DowntimeOf
<1>8. AckOf(r, D) \in Int /\ DowntimeOf(r, D) \in Int
  <2>1. r \in BaRecords /\ D \in SUBSET DOMAIN r.impacts
    BY <1>4, <1>5 DEF More, SameBa
  <2>2. \A k : AckAt(r, D, k) \in Int /\ DowntimeAt(r, D, k) \in Int BY <2>1, AtTypes
  <2> QED BY <2>2 DEF AckOf, DowntimeOf
<1>9. r.source = "impact" BY <1>5 DEF SameBa
<1>10. PartTotals(r, D)
  BY <1>6, <1>7, <1>8, <1>9 DEF PartTotals
<1> QED BY <1>4, <1>5, <1>10 DEF More

(* whenever it is time to. *)
LEMMA RecountedTotals ==
    ASSUME NEW b \in BaRecords, b.source = "impact", PartTotals(b, DOMAIN b.impacts),
           NEW r, r = Recounted(b)
    PROVE  r \in BaRecords /\ SameBa(r, b) /\ PartTotals(r, DOMAIN b.impacts)
<1> DEFINE c == [b EXCEPT !.count = @ + 1]
<1>1. c \in BaRecords /\ SameBa(c, b)
      /\ c.level = b.level /\ c.ack = b.ack /\ c.downtime = b.downtime
      /\ c.computed = b.computed /\ c.critical = b.critical /\ c.touched = b.touched
  BY DEF BaRecords, SameBa
<1>2. r = c \/ r = Recompute(c) BY DEF Recounted
<1> HIDE DEF c
<1>3. c.source = "impact" /\ DOMAIN c.impacts = DOMAIN b.impacts BY <1>1 DEF SameBa
<1>4. CASE r = c
  <2>1. PartTotals(c, DOMAIN b.impacts) BY <1>1, PartFrame DEF SameBa
  <2> QED BY <1>1, <1>4, <2>1
<1>5. CASE r = Recompute(c)
  <2>1. r \in BaRecords /\ SameBa(r, c) /\ PartTotals(r, DOMAIN b.impacts)
    BY <1>1, <1>3, <1>5, RecomputeTotals
  <2> QED BY <1>1, <2>1 DEF SameBa
<1> QED BY <1>2, <1>4, <1>5

(* ba::_unapply_impact leaves the totals of the other impacts, whatever    *)
(* the state source.                                                       *)
LEMMA UnappliedTotals ==
    ASSUME NEW b \in BaRecords, Totals(b), NEW k \in DOMAIN b.impacts,
           NEW u, u = Unapplied(b, k)
    PROVE  u \in BaRecords /\ SameBa(u, b) /\ PartTotals(u, DOMAIN b.impacts \ {k})
<1> DEFINE D == DOMAIN b.impacts
           L == D \ {k}
<1>0. PartTotals(b, D) BY TotalsArePart
<1>1. CASE b.source = "impact"
  <2> DEFINE r == Recounted(b)
             imp == b.impacts[k]
  <2>1. r \in BaRecords /\ SameBa(r, b) /\ PartTotals(r, D)
    BY <1>0, <1>1, RecountedTotals
  <2>2. u = GiveBack(r, b.impacts[k]) BY <1>1 DEF Unapplied
  <2> HIDE DEF r
  <2>3. r.impacts = b.impacts /\ r.source = "impact" BY <1>1, <2>1 DEF SameBa
  <2>4. imp \in Impacts BY ImpactAt
  <2> HIDE DEF imp
  <2> DEFINE lv == r.level + Weight(imp)
             ak == r.ack - imp.ack
             dt == r.downtime - imp.downtime
  <2>5. r \in BaRecords BY <2>1
  <2>6. r.level \in Int /\ r.ack \in Int /\ r.downtime \in Int BY <2>5 DEF BaRecords
  <2>7. imp.nominal \in Int /\ imp.ack \in Int /\ imp.downtime \in Int
        /\ Weight(imp) \in Int
    BY <2>4 DEF Impacts, Weight
  <2>8. u = [r EXCEPT !.ack = ak, !.downtime = dt, !.level = lv]
    <3>1. lv = IF Ignored(imp) THEN r.level ELSE r.level + imp.nominal
      BY <2>6, <2>7 DEF Weight
    <3>2. u = [r EXCEPT !.ack = ak, !.downtime = dt,
                        !.level = IF Ignored(imp) THEN @ ELSE @ + imp.nominal]
      BY <2>2 DEF GiveBack, imp
    <3> HIDE DEF lv, ak, dt
    <3> QED BY <3>1, <3>2
  <2>9. lv \in Int /\ ak \in Int /\ dt \in Int BY <2>6, <2>7
  <2> HIDE DEF lv, ak, dt
  <2>10. u \in BaRecords BY <2>5, <2>8, <2>9 DEF BaRecords
  <2>11. u.level = lv /\ u.ack = ak /\ u.downtime = dt /\ SameBa(u, r)
    BY <2>5, <2>8 DEF BaRecords, SameBa
  <2>12. SameBa(u, b) BY <2>1, <2>11 DEF SameBa
  <2>13. /\ WeightOf(r, D) = WeightOf(r, L) + Weight(imp)
         /\ AckOf(r, D) = AckOf(r, L) + imp.ack
         /\ DowntimeOf(r, D) = DowntimeOf(r, L) + imp.downtime
         /\ WeightOf(r, D) \in Int /\ WeightOf(r, L) \in Int
         /\ AckOf(r, D) \in Int /\ AckOf(r, L) \in Int
         /\ DowntimeOf(r, D) \in Int /\ DowntimeOf(r, L) \in Int
    <3>1. D \in SUBSET DOMAIN r.impacts /\ k \in D BY <2>3
    <3> HIDE DEF D
    <3> QED BY <2>3, <2>5, <3>1, WithoutOne DEF imp
  <2>14. /\ r.level = 100 - WeightOf(r, D) /\ r.ack = AckOf(r, D)
         /\ r.downtime = DowntimeOf(r, D)
    BY <2>1, <2>3 DEF PartTotals
  <2>15. /\ lv = 100 - WeightOf(r, L) /\ ak = AckOf(r, L) /\ dt = DowntimeOf(r, L)
    BY ONLY <2>7, <2>13, <2>14 DEF lv, ak, dt
  <2>16. /\ WeightOf(u, L) = WeightOf(r, L) /\ AckOf(u, L) = AckOf(r, L)
         /\ DowntimeOf(u, L) = DowntimeOf(r, L)
    BY <2>11, SameAt DEF WeightOf, AckOf, DowntimeOf
  <2>17. u.source = "impact" BY <1>1, <2>12 DEF SameBa
  <2>18. PartTotals(u, L) BY <2>11, <2>15, <2>16, <2>17 DEF PartTotals
  <2> QED BY <2>10, <2>12, <2>18
<1>2. CASE b.source # "impact"
  <2> DEFINE z == Reset(b)
  <2>1. u = ApplyAll(z, L) BY <1>2 DEF Unapplied
  <2>2. z \in BaRecords /\ SameBa(z, b) /\ z.critical = 0 /\ z.touched
        /\ (b.source = "best" => z.computed = 2)
        /\ (b.source = "worst" => z.computed = 0)
    <3> DEFINE cp == CASE b.source = "best" -> 2
                       [] b.source = "worst" -> 0
                       [] OTHER -> b.computed
    <3>1. z = [b EXCEPT !.computed = cp, !.critical = 0, !.touched = TRUE]
      BY DEF Reset
    <3>2. cp \in States BY DEF BaRecords, States
    <3>3. (b.source = "best" => cp = 2) /\ (b.source = "worst" => cp = 0) OBVIOUS
    <3> HIDE DEF cp, z
    <3> QED BY <3>1, <3>2, <3>3 DEF BaRecords, SameBa
  <2> HIDE DEF z
  <2>3. L \in SUBSET DOMAIN z.impacts BY <2>2 DEF SameBa
  <2>4. More(u, z, L) BY <2>1, <2>2, <2>3, ApplyAllFields
  <2>5. SameBa(u, z) BY <2>4 DEF More
  <2>6. SameBa(u, b) BY <2>2, <2>5 DEF SameBa
  <2>7. u.source = b.source /\ z.source = b.source BY <2>2, <2>6 DEF SameBa
  <2>8. CriticalOf(u, L) = CriticalOf(z, L)
        /\ \A x, y : Chosen(u, L, x, y) <=> Chosen(z, L, x, y)
    BY <2>5, SameAt DEF CriticalOf
  <2>9. CriticalOf(z, L) \in Nat
    <3>1. \A j : CriticalAt(z, L, j) \in Nat BY <2>2, <2>3, AtTypes
    <3> QED BY <3>1 DEF CriticalOf
  <2>10. u.critical = CriticalOf(u, L) BY <2>2, <2>4, <2>8, <2>9 DEF More
  <2>11. Chosen(u, L, z.computed, u.computed) BY <2>4, <2>8 DEF More
  <2>12. PartTotals(u, L) BY <1>2, <2>2, <2>7, <2>10, <2>11 DEF PartTotals
  <2> QED BY <2>4, <2>6, <2>12 DEF More
<1> QED BY <1>1, <1>2

(* ba::_apply_impact makes the totals whole again. *)
LEMMA AppliedTotals ==
    ASSUME NEW b \in BaRecords, NEW k \in DOMAIN b.impacts,
           PartTotals(b, DOMAIN b.impacts \ {k}), NEW c, c = Applied(b, b.impacts[k])
    PROVE  c \in BaRecords /\ SameBa(c, b) /\ Totals(c)
<1> DEFINE D == DOMAIN b.impacts
           L == D \ {k}
           imp == b.impacts[k]
<1>1. imp \in Impacts BY ImpactAt
<1>2. OneMore(c, b, imp) BY <1>1, AppliedFields
<1>3. SameBa(c, b) /\ c \in BaRecords BY <1>2 DEF OneMore
<1>4. c.impacts = b.impacts /\ c.source = b.source BY <1>3 DEF SameBa
<1>5. /\ \A K : /\ WeightOf(c, K) = WeightOf(b, K) /\ AckOf(c, K) = AckOf(b, K)
                /\ DowntimeOf(c, K) = DowntimeOf(b, K)
                /\ CriticalOf(c, K) = CriticalOf(b, K)
      /\ \A K, x, y : Chosen(c, K, x, y) <=> Chosen(b, K, x, y)
  BY <1>3, SameAt DEF WeightOf, AckOf, DowntimeOf, CriticalOf
<1>6. /\ c.level = b.level - Weight(imp)
      /\ c.ack = b.ack + imp.ack /\ c.downtime = b.downtime + imp.downtime
      /\ c.critical = b.critical + Critical(b, imp) /\ c.touched = b.touched
  BY <1>2 DEF OneMore
<1>7. /\ WeightOf(b, D) = WeightOf(b, L) + Weight(imp)
      /\ AckOf(b, D) = AckOf(b, L) + imp.ack
      /\ DowntimeOf(b, D) = DowntimeOf(b, L) + imp.downtime
      /\ CriticalOf(b, D) = CriticalOf(b, L) + Critical(b, imp)
      /\ WeightOf(b, D) \in Int /\ WeightOf(b, L) \in Int
  BY WithoutOne
<1>8. ASSUME NEW x \in States, Chosen(b, L, x, b.computed)
      PROVE  Chosen(b, D, x, c.computed)
  <2>1. ApplyOne(b, {k}, k) = c BY DEF ApplyOne
  <2>2. Chosen(b, {k} \intersect {k}, b.computed, c.computed)
    <3>1. {k} \in SUBSET DOMAIN b.impacts OBVIOUS
    <3> QED BY <2>1, <3>1, ApplyOneFields
  <2>3. {k} \intersect {k} = {k} /\ L \union {k} = D OBVIOUS
  <2>4. b.computed \in States /\ c.computed \in States BY <1>3 DEF BaRecords
  <2>5. L \in SUBSET DOMAIN b.impacts /\ {k} \in SUBSET DOMAIN b.impacts OBVIOUS
  <2> HIDE DEF L, D
  <2> QED BY <1>8, <2>2, <2>3, <2>4, <2>5, ChosenTwice
<1>9. Weight(imp) \in Int BY ImpactAt
<1> HIDE DEF imp, L, D
<1>10. PartTotals(b, L) BY DEF L, D
<1>11. PartTotals(c, D)
  <2>1. ASSUME c.source = "impact"
        PROVE  /\ c.level = 100 - WeightOf(c, D)
               /\ c.ack = AckOf(c, D) /\ c.downtime = DowntimeOf(c, D)
    <3>1. /\ b.level = 100 - WeightOf(b, L)
          /\ b.ack = AckOf(b, L) /\ b.downtime = DowntimeOf(b, L)
      BY <1>4, <1>10, <2>1 DEF PartTotals
    <3>2. c.level = 100 - WeightOf(b, D)
      BY ONLY <1>6, <1>7, <1>9, <3>1
    <3> QED BY <1>5, <1>6, <1>7, <3>1, <3>2
  <2>2. ASSUME c.source = "ratio" PROVE c.critical = CriticalOf(c, D)
    BY <1>4, <1>5, <1>6, <1>7, <1>10, <2>2 DEF PartTotals
  <2>3. ASSUME c.source = "worst" PROVE Chosen(c, D, 0, c.computed)
    BY <1>4, <1>5, <1>8, <1>10, <2>3 DEF PartTotals, States
  <2>4. ASSUME c.source = "best", c.touched PROVE Chosen(c, D, 2, c.computed)
    BY <1>4, <1>5, <1>6, <1>8, <1>10, <2>4 DEF PartTotals, States
  <2> QED BY <2>1, <2>2, <2>3, <2>4 DEF PartTotals
<1>12. DOMAIN c.impacts = D BY <1>4 DEF D
<1> QED BY <1>3, <1>11, <1>12, TotalsArePart

-----------------------------------------------------------------------------
(* A BA has a state. *)
LEMMA StateHardType == ASSUME NEW b \in BaRecords PROVE StateHard(b) \in States
  BY DEF StateHard, Threshold, BaRecords, States

(* The KPIs have impacts. *)
LEMMA KpiTypes ==
    /\ \A s \in [state : States, acked : BOOLEAN, downtimed : BOOLEAN] :
           KpiService(s) \in Impacts
    /\ \A l \in [1 .. 2 -> [critical : BOOLEAN, known : BOOLEAN, downtimed : BOOLEAN]],
          c \in [1 .. 2 -> BOOLEAN], v \in {NoVerdict, 0, 2} :
           BoolState(l, c, v) \in {0, 2} /\ KpiBoolexp(l, c, v) \in Impacts
    /\ \A b \in BaRecords : KpiBa(b) \in Impacts
<1>1. ASSUME NEW s \in [state : States, acked : BOOLEAN, downtimed : BOOLEAN]
      PROVE  KpiService(s) \in Impacts
  <2>1. s.state \in States /\ s.downtimed \in BOOLEAN OBVIOUS
  <2>2. ServiceImpact[s.state] \in Int BY <2>1 DEF ServiceImpact
  <2> QED BY <2>1, <2>2 DEF KpiService, Impact, Impacts
<1>2. ASSUME NEW l \in [1 .. 2 -> [critical : BOOLEAN, known : BOOLEAN, downtimed : BOOLEAN]],
             NEW c \in [1 .. 2 -> BOOLEAN], NEW v \in {NoVerdict, 0, 2}
      PROVE  BoolState(l, c, v) \in {0, 2} /\ KpiBoolexp(l, c, v) \in Impacts
  <2>1. BoolState(l, c, v) \in {0, 2} BY DEF BoolState, NoVerdict
  <2>2. KpiBoolexp(l, c, v) =
            Impact(IF BoolState(l, c, v) = 0 THEN 0 ELSE BoolImpact, 0, 0,
                   BoolState(l, c, v), \E i \in DOMAIN l : l[i].downtimed)
    BY DEF KpiBoolexp
  <2> DEFINE st == BoolState(l, c, v)
             dt == \E i \in DOMAIN l : l[i].downtimed
             nm == IF st = 0 THEN 0 ELSE BoolImpact
  <2>3. st \in States /\ nm \in Int /\ dt \in BOOLEAN /\ 0 \in Int
    BY <2>1 DEF States, BoolImpact
  <2>4. KpiBoolexp(l, c, v) = Impact(nm, 0, 0, st, dt) BY <2>2
  <2> HIDE DEF st, dt, nm
  <2>5. KpiBoolexp(l, c, v) \in Impacts BY <2>3, <2>4 DEF Impact, Impacts
  <2> QED BY <2>1, <2>5
<1>3. ASSUME NEW b \in BaRecords PROVE KpiBa(b) \in Impacts
  <2> DEFINE st == StateHard(b)
             nm == BaImpact[st]
             ak == (Clamp(b.ack) * nm) \div 100
             dt == (Clamp(b.downtime) * nm) \div 100
  <2>1. KpiBa(b) = Impact(nm, ak, dt, st, b.inDt) BY DEF KpiBa, ImpactOfBa
  <2>2. st \in States BY StateHardType
  <2> HIDE DEF st
  <2>3. nm \in Int BY <2>2 DEF BaImpact
  <2> HIDE DEF nm
  <2>4. b.ack \in Int /\ b.downtime \in Int /\ b.inDt \in BOOLEAN BY DEF BaRecords
  <2>5. Clamp(b.ack) \in Int /\ Clamp(b.downtime) \in Int BY <2>4 DEF Clamp
  <2>6. Clamp(b.ack) * nm \in Int /\ Clamp(b.downtime) * nm \in Int BY <2>3, <2>5
  <2>7. ak \in Int /\ dt \in Int BY <2>6
  <2> HIDE DEF ak, dt
  <2> QED BY <2>1, <2>2, <2>3, <2>4, <2>7 DEF Impact, Impacts
<1> QED BY <1>1, <1>2, <1>3

(* What the totals and the state of a BA are made of. *)
SameTotals(c, b) ==
    /\ c.source = b.source /\ c.impacts = b.impacts /\ c.level = b.level
    /\ c.ack = b.ack /\ c.downtime = b.downtime /\ c.computed = b.computed
    /\ c.critical = b.critical /\ c.touched = b.touched

(* BAs with the same impacts and totals have the same state. *)
LEMMA SameTotalsFrame ==
    ASSUME NEW b \in BaRecords, NEW c \in BaRecords, SameTotals(c, b)
    PROVE  /\ Totals(b) => Totals(c)
           /\ StateHard(c) = StateHard(b)
           /\ ShouldInherit(c) <=> ShouldInherit(b)
<1>1. StateHard(c) = StateHard(b) BY DEF SameTotals, StateHard
<1>2. ShouldInherit(c) <=> ShouldInherit(b)
  BY <1>1 DEF SameTotals, ShouldInherit, EveryKpiInDowntime
<1>3. ASSUME Totals(b) PROVE Totals(c)
  <2>1. PartTotals(b, DOMAIN b.impacts) BY <1>3, TotalsArePart
  <2>2. PartTotals(c, DOMAIN b.impacts) BY <2>1, PartFrame DEF SameTotals
  <2> QED BY <2>2, TotalsArePart DEF SameTotals
<1> QED BY <1>1, <1>2, <1>3

(* ba::visit opens an event with the present downtime flag. *)
LEMMA VisitFields ==
    ASSUME NEW b \in BaRecords, NEW c, c = Visit(b)
    PROVE  /\ c \in BaRecords /\ SameTotals(c, b)
           /\ c.inDt = b.inDt /\ c.inherited = b.inherited
           /\ c.event.inDt = c.inDt
<1> DEFINE ev == [status |-> StateHard(b), inDt |-> b.inDt]
<1>1. c = [b EXCEPT !.event = ev] BY DEF Visit
<1>2. b.inDt \in BOOLEAN BY DEF BaRecords
<1>3. ev \in BaEventSet /\ ev.inDt = b.inDt BY <1>2, StateHardType DEF BaEventSet
<1> HIDE DEF ev
<1> QED BY <1>1, <1>3 DEF BaRecords, SameTotals

(* ba::_compute_inherited_downtime, which only changes the flags of the    *)
(* downtime.                                                               *)
LEMMA InheritFields ==
    ASSUME NEW b \in BaRecords, NEW c, c = Inherit(b)
    PROVE  /\ c \in BaRecords /\ SameTotals(c, b)
           /\ c.inherited = b.inherited => c.inDt = b.inDt
           /\ behaviour = "inherit" => (c.inherited <=> ShouldInherit(b))
<1>1. b.inherited \in BOOLEAN BY DEF BaRecords
<1>2. ShouldInherit(b) \in BOOLEAN BY DEF ShouldInherit, EveryKpiInDowntime
<1>3. CASE behaviour # "inherit"
  <2>1. c = b BY <1>3 DEF Inherit
  <2> QED BY <1>3, <2>1 DEF SameTotals
<1>4. CASE behaviour = "inherit" /\ ShouldInherit(b) /\ ~b.inherited
  <2>1. c = [b EXCEPT !.inherited = TRUE, !.inDt = TRUE] BY <1>4 DEF Inherit
  <2> QED BY <1>4, <2>1 DEF BaRecords, SameTotals
<1>5. CASE behaviour = "inherit" /\ ~ShouldInherit(b) /\ b.inherited
  <2>1. c = [b EXCEPT !.inherited = FALSE] BY <1>5 DEF Inherit
  <2> QED BY <1>5, <2>1 DEF BaRecords, SameTotals
<1>6. CASE behaviour = "inherit" /\ (ShouldInherit(b) <=> b.inherited)
  <2>1. c = b BY <1>6 DEF Inherit
  <2> QED BY <1>6, <2>1 DEF SameTotals
<1> QED BY <1>1, <1>2, <1>3, <1>4, <1>5, <1>6

(* ba::service_update of a downtime. *)
LEMMA ToldFields ==
    ASSUME NEW b \in BaRecords, NEW start \in BOOLEAN, NEW c, c = EngineTold(b, start),
           b.event.inDt = b.inDt
    PROVE  /\ c \in BaRecords /\ SameTotals(c, b)
           /\ c.inDt = start /\ c.inherited = b.inherited /\ c.event.inDt = c.inDt
<1>1. CASE b.inDt = start
  BY <1>1 DEF EngineTold, SameTotals
<1>2. CASE b.inDt # start
  <2> DEFINE d == [b EXCEPT !.inDt = start]
  <2>1. c = Visit(d) BY <1>2 DEF EngineTold
  <2>2. d \in BaRecords /\ SameTotals(d, b) /\ d.inDt = start /\ d.inherited = b.inherited
    BY DEF BaRecords, SameTotals
  <2> HIDE DEF d
  <2>3. /\ c \in BaRecords /\ SameTotals(c, d)
        /\ c.inDt = d.inDt /\ c.inherited = d.inherited /\ c.event.inDt = c.inDt
    BY <2>1, <2>2, VisitFields
  <2> QED BY <2>2, <2>3 DEF SameTotals
<1> QED BY <1>1, <1>2

(* ba::child_has_update keeps the totals and decides on the downtime       *)
(* anew.                                                                   *)
LEMMA ChildFields ==
    ASSUME NEW b \in BaRecords, Totals(b), b.event.inDt = b.inDt,
           NEW k, NEW imp \in Impacts, NEW c, c = ChildHasUpdate(b, k, imp)
    PROVE  /\ c \in BaRecords /\ Totals(c) /\ c.event.inDt = c.inDt
           /\ DOMAIN c.impacts = DOMAIN b.impacts
           /\ k \in DOMAIN b.impacts => c.impacts[k] = imp
           /\ c.inherited = b.inherited => c.inDt = b.inDt
           /\ c # b /\ behaviour = "inherit" => (c.inherited <=> ShouldInherit(c))
<1>1. CASE k \notin DOMAIN b.impacts \/ b.impacts[k] = imp
  <2>1. c = b BY <1>1 DEF ChildHasUpdate
  <2> QED BY <1>1, <2>1
<1>2. CASE k \in DOMAIN b.impacts /\ b.impacts[k] # imp
  <2> DEFINE u == Unapplied(b, k)
             v == [u EXCEPT !.impacts[k] = imp]
             a == Applied(v, imp)
             i == Inherit(a)
             D == DOMAIN b.impacts
  <2>1. c = Visit(i) BY <1>2 DEF ChildHasUpdate
  <2>2. u \in BaRecords /\ SameBa(u, b) /\ PartTotals(u, D \ {k})
    BY <1>2, UnappliedTotals
  <2> HIDE DEF u
  <2>3. u.impacts = b.impacts BY <2>2 DEF SameBa
  <2>4. /\ v \in BaRecords /\ v.impacts = [b.impacts EXCEPT ![k] = imp]
        /\ v.source = u.source /\ v.level = u.level /\ v.ack = u.ack
        /\ v.downtime = u.downtime /\ v.computed = u.computed
        /\ v.critical = u.critical /\ v.touched = u.touched
        /\ v.inDt = u.inDt /\ v.inherited = u.inherited
    <3> DEFINE m == [b.impacts EXCEPT ![k] = imp]
    <3>1. m \in ImpactMaps BY <1>2 DEF BaRecords, ImpactMaps
    <3>2. v = [u EXCEPT !.impacts = m] BY <2>2, <2>3 DEF BaRecords
    <3>3. u \in BaRecords BY <2>2
    <3> HIDE DEF m, v
    <3> QED BY <3>1, <3>2, <3>3 DEF BaRecords, m
  <2> HIDE DEF v
  <2>5. DOMAIN v.impacts = D /\ v.impacts[k] = imp /\ k \in D
        /\ \A j \in D \ {k} : v.impacts[j] = u.impacts[j]
    <3>1. b.impacts \in ImpactMaps BY DEF BaRecords
    <3> QED BY <1>2, <2>3, <2>4, <3>1 DEF ImpactMaps
  <2>6. PartTotals(v, D \ {k}) BY <2>2, <2>4, <2>5, PartFrame
  <2>7. a \in BaRecords /\ SameBa(a, v) /\ Totals(a)
    BY <2>4, <2>5, <2>6, AppliedTotals
  <2> HIDE DEF a
  <2>8. /\ i \in BaRecords /\ SameTotals(i, a)
        /\ i.inherited = a.inherited => i.inDt = a.inDt
        /\ behaviour = "inherit" => (i.inherited <=> ShouldInherit(a))
    BY <2>7, InheritFields
  <2> HIDE DEF i
  <2>9. /\ c \in BaRecords /\ SameTotals(c, i)
        /\ c.inDt = i.inDt /\ c.inherited = i.inherited
        /\ c.event.inDt = c.inDt
    BY <2>1, <2>8, VisitFields
  <2>10. SameTotals(c, a) BY <2>8, <2>9 DEF SameTotals
  <2>11. Totals(c) /\ (ShouldInherit(c) <=> ShouldInherit(a))
    BY <2>7, <2>9, <2>10, SameTotalsFrame
  <2>12. a.inherited = b.inherited /\ a.inDt = b.inDt /\ c.impacts = v.impacts
    BY <2>2, <2>4, <2>7, <2>10 DEF SameBa, SameTotals
  <2> QED BY <2>5, <2>8, <2>9, <2>11, <2>12
<1> QED BY <1>1, <1>2

(* ba::add_impact keeps the totals *)
LEMMA AddFields ==
    ASSUME NEW b \in BaRecords, Totals(b), NEW k \in 1 .. 3, NEW imp \in Impacts,
           NEW c, c = AddImpact(b, k, imp)
    PROVE  /\ c \in BaRecords /\ Totals(c) /\ c.source = b.source
           /\ c.inDt = b.inDt /\ c.inherited = b.inherited /\ c.event = b.event
           /\ k \in DOMAIN c.impacts
           /\ k \notin DOMAIN b.impacts => c.impacts[k] = imp
<1>1. CASE k \in DOMAIN b.impacts
  BY <1>1 DEF AddImpact
<1>2. CASE k \notin DOMAIN b.impacts
  <2> DEFINE D == DOMAIN b.impacts
             m == [j \in D \union {k} |-> IF j = k THEN imp ELSE b.impacts[j]]
             v == [b EXCEPT !.impacts = m]
  <2>1. c = Applied(v, imp) BY <1>2 DEF AddImpact
  <2>2. m \in ImpactMaps
    <3>1. b.impacts \in ImpactMaps BY DEF BaRecords
    <3>2. D \in SUBSET (1 .. 3) /\ \A j \in D : b.impacts[j] \in Impacts
      BY <3>1 DEF ImpactMaps
    <3>3. m \in [D \union {k} -> Impacts] BY <3>2
    <3> QED BY <3>2, <3>3 DEF ImpactMaps
  <2>3. DOMAIN m = D \union {k} /\ m[k] = imp /\ \A j \in D : m[j] = b.impacts[j]
    BY <1>2
  <2> HIDE DEF m
  <2>4. /\ v \in BaRecords /\ v.impacts = m
        /\ v.source = b.source /\ v.level = b.level /\ v.ack = b.ack
        /\ v.downtime = b.downtime /\ v.computed = b.computed
        /\ v.critical = b.critical /\ v.touched = b.touched
        /\ v.inDt = b.inDt /\ v.inherited = b.inherited /\ v.event = b.event
    BY <2>2 DEF BaRecords
  <2> HIDE DEF v
  <2>5. PartTotals(b, D) BY TotalsArePart
  <2>6. PartTotals(v, D) BY <2>3, <2>4, <2>5, PartFrame
  <2>7. DOMAIN v.impacts \ {k} = D BY <1>2, <2>3, <2>4
  <2>8. k \in DOMAIN v.impacts /\ v.impacts[k] = imp BY <2>3, <2>4
  <2>9. c \in BaRecords /\ SameBa(c, v) /\ Totals(c)
    BY <2>1, <2>4, <2>6, <2>7, <2>8, AppliedTotals
  <2> QED BY <2>4, <2>8, <2>9 DEF SameBa
<1> QED BY <1>1, <1>2

(* and adds nothing but that impact. *)
LEMMA AddParts ==
    ASSUME NEW b \in BaRecords, NEW k \in 1 .. 3, NEW imp \in Impacts,
           NEW c, c = AddImpact(b, k, imp)
    PROVE  /\ c.computed \in {b.computed, imp.state}
           /\ \A j \in DOMAIN c.impacts :
                  c.impacts[j] = imp \/ (j \in DOMAIN b.impacts /\ c.impacts[j] = b.impacts[j])
<1>1. CASE k \in DOMAIN b.impacts
  BY <1>1 DEF AddImpact
<1>2. CASE k \notin DOMAIN b.impacts
  <2> DEFINE D == DOMAIN b.impacts
             m == [j \in D \union {k} |-> IF j = k THEN imp ELSE b.impacts[j]]
             v == [b EXCEPT !.impacts = m]
  <2>1. c = Applied(v, imp) BY <1>2 DEF AddImpact
  <2>2. m \in ImpactMaps
    <3>1. b.impacts \in ImpactMaps BY DEF BaRecords
    <3>2. D \in SUBSET (1 .. 3) /\ \A j \in D : b.impacts[j] \in Impacts
      BY <3>1 DEF ImpactMaps
    <3>3. m \in [D \union {k} -> Impacts] BY <3>2
    <3> QED BY <3>2, <3>3 DEF ImpactMaps
  <2>3. DOMAIN m = D \union {k} /\ m[k] = imp /\ \A j \in D : m[j] = b.impacts[j]
    BY <1>2
  <2> HIDE DEF m
  <2>4. v \in BaRecords /\ v.impacts = m /\ v.computed = b.computed
    BY <2>2 DEF BaRecords
  <2> HIDE DEF v
  <2>5. OneMore(c, v, imp) BY <2>1, <2>4, AppliedFields
  <2>6. c.impacts = m /\ c.computed \in {b.computed, imp.state}
    BY <2>4, <2>5 DEF OneMore, Picked, SameBa
  <2>7. ASSUME NEW j \in DOMAIN c.impacts
        PROVE  c.impacts[j] = imp \/ (j \in D /\ c.impacts[j] = b.impacts[j])
    <3>1. j = k \/ j \in D BY <2>3, <2>6
    <3>2. CASE j = k
      <4>1. c.impacts[j] = m[k] BY <2>6, <3>2
      <4>2. m[k] = imp BY <2>3
      <4> QED BY <4>1, <4>2
    <3>3. CASE j \in D
      <4>1. c.impacts[j] = m[j] BY <2>6
      <4> QED BY <2>3, <3>3, <4>1
    <3> QED BY <3>1, <3>2, <3>3
  <2> QED BY <2>6, <2>7
<1> QED BY <1>1, <1>2

(* ba::remove_impact keeps the totals. *)
LEMMA RemoveFields ==
    ASSUME NEW b \in BaRecords, Totals(b), NEW k \in DOMAIN b.impacts,
           NEW c, c = RemoveImpact(b, k)
    PROVE  /\ c \in BaRecords /\ Totals(c) /\ c.source = b.source
           /\ c.inDt = b.inDt /\ c.inherited = b.inherited /\ c.event = b.event
<1> DEFINE u == Unapplied(b, k)
           D == DOMAIN b.impacts \ {k}
           m == [j \in D |-> b.impacts[j]]
<1>1. c = [u EXCEPT !.impacts = m] BY DEF RemoveImpact
<1>2. u \in BaRecords /\ SameBa(u, b) /\ PartTotals(u, D) BY UnappliedTotals
<1>3. m \in ImpactMaps
  <2>1. b.impacts \in ImpactMaps BY DEF BaRecords
  <2>2. D \in SUBSET (1 .. 3) /\ \A j \in D : b.impacts[j] \in Impacts
    BY <2>1 DEF ImpactMaps
  <2>3. m \in [D -> Impacts] BY <2>2
  <2> QED BY <2>2, <2>3 DEF ImpactMaps
<1>4. DOMAIN m = D /\ \A j \in D : m[j] = b.impacts[j] OBVIOUS
<1> HIDE DEF u, m
<1>5. u \in BaRecords BY <1>2
<1>6. /\ c \in BaRecords /\ c.impacts = m
      /\ c.source = u.source /\ c.level = u.level /\ c.ack = u.ack
      /\ c.downtime = u.downtime /\ c.computed = u.computed
      /\ c.critical = u.critical /\ c.touched = u.touched
      /\ c.inDt = u.inDt /\ c.inherited = u.inherited /\ c.event = u.event
  BY <1>1, <1>3, <1>5 DEF BaRecords
<1>7. u.impacts = b.impacts BY <1>2 DEF SameBa
<1>8. PartTotals(c, D) BY <1>2, <1>4, <1>6, <1>7, PartFrame
<1>9. Totals(c) BY <1>4, <1>6, <1>8, TotalsArePart
<1> QED BY <1>2, <1>6, <1>9 DEF SameBa

-----------------------------------------------------------------------------
(* The last command about a BA asks for the downtime it inherits; when all *)
(* of them are executed, the BA is in the downtime it inherits.            *)
LastAgrees(Q, name, inherited, inDt) ==
    /\ \A i \in 1 .. Len(Q) :
           Q[i].ba = name /\ (\A j \in i + 1 .. Len(Q) : Q[j].ba # name)
               => Q[i].start = inherited
    /\ (\A j \in 1 .. Len(Q) : Q[j].ba # name) => inDt = inherited

(* The commands sent to the monitoring engine. *)
Commands == [ba : {"low", "top"}, start : BOOLEAN]

(* A new last command, *)
LEMMA AddedCommand ==
    ASSUME NEW Q \in Seq(Commands), NEW name \in {"low", "top"}, NEW r \in Commands,
           NEW inherited, NEW inDt,
           r.ba = name => r.start = inherited,
           r.ba # name => LastAgrees(Q, name, inherited, inDt)
    PROVE  Append(Q, r) \in Seq(Commands) /\ LastAgrees(Append(Q, r), name, inherited, inDt)
<1> DEFINE P == Append(Q, r)
           n == Len(Q)
<1>1. /\ P \in Seq(Commands) /\ Len(P) = n + 1 /\ n \in Nat
      /\ P[n + 1] = r /\ \A i \in 1 .. n : P[i] = Q[i]
  OBVIOUS
<1> HIDE DEF P, n
<1>2. CASE r.ba = name
  <2>1. ASSUME NEW i \in 1 .. n + 1, \A j \in i + 1 .. n + 1 : P[j].ba # name
        PROVE  i = n + 1
    <3>1. i # n + 1 => n + 1 \in i + 1 .. n + 1 BY <1>1
    <3> QED BY <1>1, <1>2, <2>1, <3>1
  <2>2. n + 1 \in 1 .. n + 1 BY <1>1
  <2> QED BY <1>1, <1>2, <2>1, <2>2 DEF LastAgrees, P
<1>3. CASE r.ba # name
  <2>1. LastAgrees(Q, name, inherited, inDt) BY <1>3
  <2>2. ASSUME NEW i \in 1 .. n + 1, P[i].ba = name,
               \A j \in i + 1 .. n + 1 : P[j].ba # name
        PROVE  P[i].start = inherited
    <3>1. i \in 1 .. n BY <1>1, <1>3, <2>2
    <3>2. ASSUME NEW j \in i + 1 .. n PROVE Q[j].ba # name
      <4>1. j \in i + 1 .. n + 1 /\ j \in 1 .. n BY <1>1, <3>1
      <4> QED BY <1>1, <2>2, <4>1
    <3>3. P[i] = Q[i] BY <1>1, <3>1
    <3> QED BY <2>1, <2>2, <3>1, <3>2, <3>3 DEF LastAgrees, n
  <2>3. ASSUME \A j \in 1 .. n + 1 : P[j].ba # name PROVE inDt = inherited
    <3>1. ASSUME NEW j \in 1 .. n PROVE Q[j].ba # name
      <4>1. j \in 1 .. n + 1 BY <1>1
      <4> QED BY <1>1, <2>3, <4>1
    <3> QED BY <2>1, <3>1 DEF LastAgrees, n
  <2> QED BY <1>1, <2>2, <2>3 DEF LastAgrees, P
<1> QED BY <1>2, <1>3

(* and the first one executed. *)
LEMMA ExecutedCommand ==
    ASSUME NEW Q \in Seq(Commands), Q # <<>>, NEW name \in {"low", "top"},
           NEW inherited, NEW inDt,
           LastAgrees(Q, name, inherited, inDt)
    PROVE  /\ Tail(Q) \in Seq(Commands) /\ Head(Q) \in Commands
           /\ LastAgrees(Tail(Q), name, inherited,
                         IF Head(Q).ba = name THEN Head(Q).start ELSE inDt)
<1> DEFINE P == Tail(Q)
           n == Len(Q)
           d == IF Head(Q).ba = name THEN Head(Q).start ELSE inDt
<1>1. /\ P \in Seq(Commands) /\ Len(P) = n - 1 /\ n \in Nat /\ n >= 1
      /\ Head(Q) = Q[1] /\ Q[1] \in Commands /\ \A i \in 1 .. n - 1 : P[i] = Q[i + 1]
  OBVIOUS
<1>2. d = IF Q[1].ba = name THEN Q[1].start ELSE inDt BY <1>1
<1> HIDE DEF P, n, d
<1>3. ASSUME NEW i \in 1 .. n - 1, P[i].ba = name,
             \A j \in i + 1 .. n - 1 : P[j].ba # name
      PROVE  P[i].start = inherited
  <2>1. i + 1 \in 1 .. n /\ P[i] = Q[i + 1] BY <1>1
  <2>2. ASSUME NEW j \in (i + 1) + 1 .. n PROVE Q[j].ba # name
    <3>1. j - 1 \in i + 1 .. n - 1 /\ j - 1 \in 1 .. n - 1 /\ (j - 1) + 1 = j BY <1>1
    <3>2. P[j - 1] = Q[j] BY <1>1, <3>1
    <3> QED BY <1>3, <3>1, <3>2
  <2> QED BY <1>3, <2>1, <2>2 DEF LastAgrees, n
<1>4. ASSUME \A j \in 1 .. n - 1 : P[j].ba # name PROVE d = inherited
  <2>1. ASSUME NEW j \in 1 + 1 .. n PROVE Q[j].ba # name
    <3>1. j - 1 \in 1 .. n - 1 /\ (j - 1) + 1 = j BY <1>1
    <3>2. P[j - 1] = Q[j] BY <1>1, <3>1
    <3> QED BY <1>4, <3>1, <3>2
  <2>2. 1 \in 1 .. n BY <1>1
  <2>3. CASE Q[1].ba = name BY <1>2, <2>1, <2>2, <2>3 DEF LastAgrees, n
  <2>4. CASE Q[1].ba # name
    <3>1. \A j \in 1 .. n : Q[j].ba # name
      <4>1. ASSUME NEW j \in 1 .. n PROVE Q[j].ba # name
        <5>1. j = 1 \/ j \in 1 + 1 .. n BY <1>1
        <5> QED BY <2>1, <2>4, <5>1
      <4> QED BY <4>1
    <3> QED BY <1>2, <2>4, <3>1 DEF LastAgrees, n
  <2> QED BY <2>3, <2>4
<1> QED BY <1>1, <1>3, <1>4 DEF LastAgrees, P, d

(* The commands about one BA say nothing of the other; *)
LEMMA CommandsOfOther ==
    ASSUME NEW Q \in Seq(Commands), NEW from \in {"low", "top"},
           NEW b \in BaRecords, NEW c \in BaRecords,
           NEW name \in {"low", "top"}, from # name,
           NEW inherited, NEW inDt, LastAgrees(Q, name, inherited, inDt)
    PROVE  LastAgrees(Q \o CommandOf(from, b, c), name, inherited, inDt)
<1> DEFINE P == Q \o CommandOf(from, b, c)
<1>1. c.inherited \in BOOLEAN
  BY DEF BaRecords
<1>2. CASE b.inherited = c.inherited
  <2>1. P = Q \o <<>> BY <1>2 DEF CommandOf
  <2>2. P = Q BY <2>1
  <2> QED BY <2>2
<1>3. CASE b.inherited # c.inherited
  <2> DEFINE r == [ba |-> from, start |-> c.inherited]
  <2>1. P = Q \o <<r>> BY <1>3 DEF CommandOf
  <2>2. r \in Commands /\ r.ba = from BY <1>1 DEF Commands
  <2> HIDE DEF r
  <2>3. P = Append(Q, r) BY <2>1, <2>2
  <2> QED BY <2>2, <2>3, AddedCommand
<1> QED BY <1>2, <1>3

(* those about a BA follow the downtime it inherits. *)
LEMMA CommandsOfOwn ==
    ASSUME NEW Q \in Seq(Commands), NEW name \in {"low", "top"},
           NEW b \in BaRecords, NEW c \in BaRecords,
           NEW inDt, c.inherited = b.inherited => c.inDt = inDt
    PROVE  /\ Q \o CommandOf(name, b, c) \in Seq(Commands)
           /\ LastAgrees(Q, name, b.inherited, inDt)
                  => LastAgrees(Q \o CommandOf(name, b, c), name, c.inherited, c.inDt)
<1> DEFINE P == Q \o CommandOf(name, b, c)
<1>1. b.inherited \in BOOLEAN /\ c.inherited \in BOOLEAN /\ c.inDt \in BOOLEAN
  BY DEF BaRecords
<1>2. CASE b.inherited = c.inherited
  <2>1. P = Q \o <<>> BY <1>2 DEF CommandOf
  <2>2. P = Q BY <2>1
  <2> QED BY <1>2, <2>2
<1>3. CASE b.inherited # c.inherited
  <2> DEFINE r == [ba |-> name, start |-> c.inherited]
  <2>1. P = Q \o <<r>> BY <1>3 DEF CommandOf
  <2>2. r \in Commands /\ r.ba = name /\ r.start = c.inherited BY <1>1 DEF Commands
  <2> HIDE DEF r
  <2>3. P = Append(Q, r) BY <2>1, <2>2
  <2>4. P \in Seq(Commands) BY <2>2, <2>3
  <2>5. LastAgrees(P, name, c.inherited, c.inDt)
    BY <1>1, <2>2, <2>3, AddedCommand
  <2> QED BY <2>4, <2>5
<1> QED BY <1>2, <1>3

-----------------------------------------------------------------------------
(* The KPIs of "low" and what they keep of their services. *)
KpisOK ==
    /\ service \in [state : States, acked : BOOLEAN, downtimed : BOOLEAN]
    /\ leaf \in [1 .. 2 -> [critical : BOOLEAN, known : BOOLEAN, downtimed : BOOLEAN]]
    /\ cached \in [1 .. 2 -> BOOLEAN]
    /\ verdict \in {0, 2}
    /\ behaviour \in {"ignore", "inherit", "none"}
    /\ \A i \in 1 .. 2 : cached[i] = leaf[i].critical

(* The two BAs. *)
GraphOK ==
    /\ low \in BaRecords /\ Totals(low) /\ low.event.inDt = low.inDt
    /\ top \in BaRecords /\ Totals(top) /\ top.event.inDt = top.inDt
    /\ 3 \in DOMAIN top.impacts
    /\ "parent" \notin stale => top.impacts[3] = KpiBa(low)

(* The inherited downtimes, and the commands that set them. *)
CommandsOK ==
    /\ commands \in Seq(Commands)
    /\ behaviour = "inherit" =>
           /\ LastAgrees(commands, "low", low.inherited, low.inDt)
           /\ LastAgrees(commands, "top", top.inherited, top.inDt)
           /\ "downtime" \notin stale => (low.inherited <=> ShouldInherit(low))

(* The inductive invariant. *)
BaInd == KpisOK /\ GraphOK /\ CommandsOK

(* The properties follow. *)
LEMMA BaIndImplies ==
    ASSUME BaInd
    PROVE  BaInv /\ DowntimeInherited
<1>1. BaTypeOK BY DEF BaInd, KpisOK, GraphOK, BaTypeOK, BaRecords
<1>2. TotalsTrue BY <1>1 DEF BaInd, GraphOK, TotalsTrue
<1>3. ParentsAgree BY DEF BaInd, KpisOK, GraphOK, ParentsAgree
<1>4. ASSUME behaviour = "inherit", commands = <<>>
      PROVE  low.inDt = low.inherited /\ top.inDt = top.inherited
  <2>1. Len(commands) = 0 BY <1>4
  <2> QED BY <1>4, <2>1 DEF BaInd, CommandsOK, LastAgrees
<1>5. DowntimeInherited BY <1>4 DEF BaInd, CommandsOK, DowntimeInherited
<1> QED BY <1>2, <1>3, <1>5 DEF BaInv

(* The downtime behaviour never changes. *)
LEMMA BehaviourFrame ==
    ASSUME behaviour' = behaviour, NEW b
    PROVE  /\ Totals(b)' <=> Totals(b)
           /\ KpiBa(b)' = KpiBa(b)
           /\ ShouldInherit(b)' <=> ShouldInherit(b)
<1>1. Totals(b)' <=> Totals(b)
  BY DEF Totals, Counted, CountedSum, Ignored, Sum
<1>2. StateHard(b)' = StateHard(b)
  BY DEF StateHard
<1>3. KpiBa(b)' = KpiBa(b)
  BY <1>2 DEF KpiBa
<1>4. ShouldInherit(b)' <=> ShouldInherit(b)
  BY <1>2 DEF ShouldInherit, EveryKpiInDowntime
<1> QED BY <1>1, <1>3, <1>4

(* A BA without KPIs. *)
LEMMA EmptyBa ==
    ASSUME NEW source \in Sources, NEW event \in BaEventSet, NEW inherited \in BOOLEAN,
           NEW b, b = NewBa(source, event, inherited)
    PROVE  /\ b \in BaRecords /\ Totals(b) /\ b.source = source /\ DOMAIN b.impacts = {}
           /\ b.inDt = event.inDt /\ b.inherited = inherited /\ b.computed = 0
<1>1. <<>> \in ImpactMaps /\ DOMAIN <<>> = {}
  <2>1. [k \in {} |-> 0] = <<>> OBVIOUS
  <2>2. [k \in {} |-> 0] \in [{} -> Impacts] OBVIOUS
  <2>3. {} \in SUBSET (1 .. 3) OBVIOUS
  <2> QED BY <2>1, <2>2, <2>3 DEF ImpactMaps
<1>2. event.inDt \in BOOLEAN BY DEF BaEventSet
<1>3. b \in BaRecords BY <1>1, <1>2 DEF NewBa, BaRecords, States
<1>4. /\ b.source = source /\ b.impacts = <<>> /\ b.level = 100 /\ b.ack = 0
      /\ b.downtime = 0 /\ b.computed = 0 /\ b.critical = 0 /\ b.touched = FALSE
      /\ b.inDt = event.inDt /\ b.inherited = inherited
  BY DEF NewBa
<1>5. /\ WeightOf(b, {}) = 0 /\ AckOf(b, {}) = 0 /\ DowntimeOf(b, {}) = 0
      /\ CriticalOf(b, {}) = 0
  BY DEF WeightOf, AckOf, DowntimeOf, CriticalOf, WeightAt, AckAt, DowntimeAt, CriticalAt
<1>6. b.source = "worst" => Chosen(b, {}, 0, 0)
  BY RankRange DEF Chosen, CountedIn, States
<1>7. PartTotals(b, {}) BY <1>4, <1>5, <1>6 DEF PartTotals
<1>8. Totals(b) BY <1>1, <1>3, <1>4, <1>7, TotalsArePart
<1> QED BY <1>1, <1>3, <1>4, <1>8

(* The two BAs as their construction leaves them. *)
Built(pair, s, l, c, v, events, inherited) ==
/\ pair[1] \in BaRecords /\ Totals(pair[1]) /\ pair[1].inDt = events[1].inDt
    /\ pair[1].inherited = inherited[1] /\ pair[1].event.inDt = pair[1].inDt
    /\ pair[2] \in BaRecords /\ Totals(pair[2]) /\ pair[2].inDt = events[2].inDt
    /\ pair[2].inherited = inherited[2] /\ pair[2].event.inDt = pair[2].inDt
    /\ 3 \in DOMAIN pair[2].impacts /\ pair[2].impacts[3] = KpiBa(pair[1])
    /\ pair[1].computed \in {0, KpiService(s).state, KpiBoolexp(l, c, v).state}
    /\ \A j \in DOMAIN pair[1].impacts :
           pair[1].impacts[j] \in {KpiService(s), KpiBoolexp(l, c, v)}

(* The BAs as they are built, at the start or again. *)
LEMMA BuildFields ==
    ASSUME NEW source \in Sources, NEW kpis,
           NEW s \in [state : States, acked : BOOLEAN, downtimed : BOOLEAN],
           NEW l \in [1 .. 2 -> [critical : BOOLEAN, known : BOOLEAN, downtimed : BOOLEAN]],
           NEW c \in [1 .. 2 -> BOOLEAN], NEW v \in {NoVerdict, 0, 2},
           NEW events \in BaEventSet \X BaEventSet, NEW inherited \in BOOLEAN \X BOOLEAN
    PROVE  Built(Build(source, kpis, s, l, c, v, events, inherited),
                 s, l, c, v, events, inherited)
<1> PICK pair : pair = Build(source, kpis, s, l, c, v, events, inherited) OBVIOUS
<1> PICK e1 \in BaEventSet : e1 = events[1] OBVIOUS
<1> PICK e2 \in BaEventSet : e2 = events[2] OBVIOUS
<1> PICK i1 \in BOOLEAN : i1 = inherited[1] OBVIOUS
<1> PICK i2 \in BOOLEAN : i2 = inherited[2] OBVIOUS
<1> DEFINE n1 == NewBa(source, e1, i1)
           a1 == IF 1 \in kpis THEN AddImpact(n1, 1, KpiService(s)) ELSE n1
           a2 == IF 2 \in kpis THEN AddImpact(a1, 2, KpiBoolexp(l, c, v)) ELSE a1
           b == Visit(a2)
           n2 == NewBa("impact", e2, i2)
           t == AddImpact(n2, 3, KpiBa(b))
           u == Visit(t)
<1>0. pair = <<b, u>> BY DEF Build
<1>1. /\ n1 \in BaRecords /\ Totals(n1) /\ n1.inDt = e1.inDt /\ n1.inherited = i1
      /\ n1.computed = 0 /\ DOMAIN n1.impacts = {}
  BY EmptyBa
<1> HIDE DEF n1
<1>2. KpiService(s) \in Impacts /\ KpiBoolexp(l, c, v) \in Impacts BY KpiTypes
<1>3. /\ a1 \in BaRecords /\ Totals(a1) /\ a1.inDt = n1.inDt /\ a1.inherited = n1.inherited
      /\ a1.computed \in {0, KpiService(s).state}
      /\ \A j \in DOMAIN a1.impacts : a1.impacts[j] = KpiService(s)
  <2>1. CASE 1 \in kpis
    <3> DEFINE imp == KpiService(s)
    <3>1. a1 = AddImpact(n1, 1, imp) BY <2>1
    <3>2. 1 \in 1 .. 3 /\ imp \in Impacts BY <1>2
    <3> HIDE DEF a1, imp
    <3>3. /\ a1 \in BaRecords /\ Totals(a1) /\ a1.inDt = n1.inDt
          /\ a1.inherited = n1.inherited /\ a1.computed \in {n1.computed, imp.state}
          /\ \A j \in DOMAIN a1.impacts :
                 a1.impacts[j] = imp \/ (j \in DOMAIN n1.impacts /\ a1.impacts[j] = n1.impacts[j])
      <4>1. /\ a1 \in BaRecords /\ Totals(a1) /\ a1.inDt = n1.inDt
            /\ a1.inherited = n1.inherited
        BY ONLY <1>1, <3>1, <3>2, AddFields
      <4>2. /\ a1.computed \in {n1.computed, imp.state}
            /\ \A j \in DOMAIN a1.impacts :
                   a1.impacts[j] = imp
                       \/ (j \in DOMAIN n1.impacts /\ a1.impacts[j] = n1.impacts[j])
        BY ONLY <1>1, <3>1, <3>2, AddParts
      <4> QED BY <4>1, <4>2
    <3> QED BY <1>1, <3>3 DEF imp
  <2>2. CASE 1 \notin kpis BY <1>1, <2>2
  <2> QED BY <2>1, <2>2
<1> HIDE DEF a1
<1>4. /\ a2 \in BaRecords /\ Totals(a2) /\ a2.inDt = a1.inDt /\ a2.inherited = a1.inherited
      /\ a2.computed \in {a1.computed, KpiBoolexp(l, c, v).state}
      /\ \A j \in DOMAIN a2.impacts :
             \/ a2.impacts[j] = KpiBoolexp(l, c, v)
             \/ (j \in DOMAIN a1.impacts /\ a2.impacts[j] = a1.impacts[j])
  <2>1. CASE 2 \in kpis
    <3> DEFINE imp == KpiBoolexp(l, c, v)
    <3>1. a2 = AddImpact(a1, 2, imp) BY <2>1
    <3>2. 2 \in 1 .. 3 /\ imp \in Impacts BY <1>2
    <3> HIDE DEF a2, imp
    <3>3. /\ a2 \in BaRecords /\ Totals(a2) /\ a2.inDt = a1.inDt
          /\ a2.inherited = a1.inherited /\ a2.computed \in {a1.computed, imp.state}
          /\ \A j \in DOMAIN a2.impacts :
                 a2.impacts[j] = imp \/ (j \in DOMAIN a1.impacts /\ a2.impacts[j] = a1.impacts[j])
      <4>1. /\ a2 \in BaRecords /\ Totals(a2) /\ a2.inDt = a1.inDt
            /\ a2.inherited = a1.inherited
        BY ONLY <1>3, <3>1, <3>2, AddFields
      <4>2. /\ a2.computed \in {a1.computed, imp.state}
            /\ \A j \in DOMAIN a2.impacts :
                   a2.impacts[j] = imp
                       \/ (j \in DOMAIN a1.impacts /\ a2.impacts[j] = a1.impacts[j])
        BY ONLY <1>3, <3>1, <3>2, AddParts
      <4> QED BY <4>1, <4>2
    <3> QED BY <3>3 DEF imp
  <2>2. CASE 2 \notin kpis BY <1>3, <2>2
  <2> QED BY <2>1, <2>2
<1> HIDE DEF a2
<1>5. /\ b \in BaRecords /\ SameTotals(b, a2) /\ b.inDt = a2.inDt
      /\ b.inherited = a2.inherited /\ b.event.inDt = b.inDt
  BY <1>4, VisitFields
<1>6. Totals(b) BY <1>4, <1>5, SameTotalsFrame
<1> HIDE DEF b
<1>7. /\ n2 \in BaRecords /\ Totals(n2) /\ n2.inDt = e2.inDt /\ n2.inherited = i2
      /\ 3 \notin DOMAIN n2.impacts
  <2>1. "impact" \in Sources BY DEF Sources
  <2>2. DOMAIN n2.impacts = {} BY <2>1, EmptyBa
  <2> QED BY <2>1, <2>2, EmptyBa
<1> HIDE DEF n2
<1>8. KpiBa(b) \in Impacts BY <1>5, KpiTypes
<1>9. /\ t \in BaRecords /\ Totals(t) /\ t.inDt = n2.inDt /\ t.inherited = n2.inherited
      /\ 3 \in DOMAIN t.impacts /\ t.impacts[3] = KpiBa(b)
  BY <1>7, <1>8, AddFields
<1> HIDE DEF t
<1>10. /\ u \in BaRecords /\ SameTotals(u, t) /\ u.inDt = t.inDt
       /\ u.inherited = t.inherited /\ u.event.inDt = u.inDt
  BY <1>9, VisitFields
<1>11. Totals(u) BY <1>9, <1>10, SameTotalsFrame
<1>12. u.impacts = t.impacts BY <1>10 DEF SameTotals
<1> HIDE DEF u
<1>13. pair[1] = b /\ pair[2] = u BY <1>0
<1>14. b.computed = a2.computed /\ b.impacts = a2.impacts BY <1>5 DEF SameTotals
<1>15. /\ b.computed \in {0, KpiService(s).state, KpiBoolexp(l, c, v).state}
       /\ \A j \in DOMAIN b.impacts : b.impacts[j] \in {KpiService(s), KpiBoolexp(l, c, v)}
  BY <1>3, <1>4, <1>14
<1>16. /\ b \in BaRecords /\ Totals(b) /\ b.inDt = e1.inDt
       /\ b.inherited = i1 /\ b.event.inDt = b.inDt
  BY <1>1, <1>3, <1>4, <1>5, <1>6
<1>17. /\ u \in BaRecords /\ Totals(u) /\ u.inDt = e2.inDt
       /\ u.inherited = i2 /\ u.event.inDt = u.inDt
       /\ 3 \in DOMAIN u.impacts /\ u.impacts[3] = KpiBa(b)
  BY <1>7, <1>9, <1>10, <1>11, <1>12
<1>18. Built(pair, s, l, c, v, events, inherited)
  BY <1>13, <1>15, <1>16, <1>17 DEF Built
<1> QED BY <1>18

(* The BA above has heard of the present state of the one below. *)
LEMMA AboveFields ==
    ASSUME GraphOK, NEW after \in BaRecords
    PROVE  /\ Above(after) \in BaRecords /\ Totals(Above(after))
           /\ Above(after).event.inDt = Above(after).inDt
           /\ 3 \in DOMAIN Above(after).impacts
           /\ after # low => Above(after).impacts[3] = KpiBa(after)
           /\ Above(after).inherited = top.inherited => Above(after).inDt = top.inDt
           /\ after = low => Above(after) = top
<1>1. /\ top \in BaRecords /\ Totals(top) /\ top.event.inDt = top.inDt
      /\ 3 \in DOMAIN top.impacts
  BY DEF GraphOK
<1>2. CASE after = low
  <2>1. Above(after) = top BY <1>2 DEF Above
  <2> QED BY <1>1, <1>2, <2>1
<1>3. CASE after # low
  <2> DEFINE imp == KpiBa(after)
             u == Above(after)
  <2>1. imp \in Impacts BY KpiTypes
  <2>2. u = ChildHasUpdate(top, 3, imp) BY <1>3 DEF Above
  <2> HIDE DEF imp, u
  <2>3. /\ u \in BaRecords /\ Totals(u) /\ u.event.inDt = u.inDt
        /\ DOMAIN u.impacts = DOMAIN top.impacts
        /\ 3 \in DOMAIN top.impacts => u.impacts[3] = imp
        /\ u.inherited = top.inherited => u.inDt = top.inDt
    BY ONLY <1>1, <2>1, <2>2, ChildFields
  <2> QED BY <1>1, <1>3, <2>3 DEF imp, u
<1> QED BY <1>2, <1>3

(* A BA that changed, the one above it, and the commands of both. *)
LEMMA AnnounceKeeps ==
    ASSUME GraphOK, CommandsOK, behaviour' = behaviour,
           NEW after \in BaRecords, Totals(after), after.event.inDt = after.inDt,
           NEW pending \in Seq(Commands), NEW d,
           behaviour = "inherit" => LastAgrees(pending, "low", low.inherited, d),
           behaviour = "inherit" => LastAgrees(pending, "top", top.inherited, top.inDt),
           after.inherited = low.inherited => after.inDt = d,
           Announce(after, Above(after), pending),
           after = low => stale' = stale,
           behaviour = "inherit" /\ "downtime" \notin stale' =>
               (after.inherited <=> ShouldInherit(after))
    PROVE  GraphOK' /\ CommandsOK'
<1>a. PICK u : u = Above(after) OBVIOUS
<1>b. PICK c1 : c1 = pending \o CommandOf("low", low, after) OBVIOUS
<1>c. PICK c2 : c2 = c1 \o CommandOf("top", top, u) OBVIOUS
<1>1. /\ u \in BaRecords /\ Totals(u) /\ u.event.inDt = u.inDt
      /\ 3 \in DOMAIN u.impacts
      /\ after # low => u.impacts[3] = KpiBa(after)
      /\ u.inherited = top.inherited => u.inDt = top.inDt
      /\ after = low => u = top
  BY <1>a, AboveFields
<1>2. low' = after /\ top' = u /\ commands' = c2 BY <1>a, <1>b, <1>c DEF Announce
<1>3. low \in BaRecords /\ top \in BaRecords BY DEF GraphOK
<1>4. GraphOK'
  <2>1. Totals(low)' /\ Totals(top)'
    <3>1. Totals(after)' /\ Totals(u)' BY <1>1, BehaviourFrame
    <3> QED BY <1>2, <3>1
  <2>2. ASSUME "parent" \notin stale' PROVE (top.impacts[3] = KpiBa(low))'
    <3>1. KpiBa(after)' = KpiBa(after) BY BehaviourFrame
    <3>2. u.impacts[3] = KpiBa(after)
      <4>1. CASE after = low BY <1>1, <2>2, <4>1 DEF GraphOK
      <4> QED BY <1>1, <4>1
    <3> QED BY <1>2, <3>1, <3>2
  <2> QED BY <1>1, <1>2, <2>1, <2>2 DEF GraphOK
<1>4a. /\ low.inherited \in BOOLEAN /\ top.inherited \in BOOLEAN /\ top.inDt \in BOOLEAN
       /\ after.inherited \in BOOLEAN /\ after.inDt \in BOOLEAN
       /\ u \in BaRecords /\ after \in BaRecords
  BY <1>1, <1>3 DEF BaRecords
<1>4b. "low" \in {"low", "top"} /\ "top" \in {"low", "top"} /\ "low" # "top" OBVIOUS
<1>5. /\ c1 \in Seq(Commands)
      /\ behaviour = "inherit" => LastAgrees(c1, "low", after.inherited, after.inDt)
      /\ behaviour = "inherit" => LastAgrees(c1, "top", top.inherited, top.inDt)
  <2> DEFINE p1 == pending \o CommandOf("low", low, after)
  <2>1. /\ p1 \in Seq(Commands)
        /\ LastAgrees(pending, "low", low.inherited, d)
               => LastAgrees(p1, "low", after.inherited, after.inDt)
    <3>1. pending \in Seq(Commands)
          /\ (after.inherited = low.inherited => after.inDt = d)
      OBVIOUS
    <3> QED BY ONLY <1>3, <1>4a, <1>4b, <3>1, CommandsOfOwn
  <2>2. ASSUME LastAgrees(pending, "top", top.inherited, top.inDt)
        PROVE  LastAgrees(p1, "top", top.inherited, top.inDt)
    <3>1. pending \in Seq(Commands) OBVIOUS
    <3> QED BY ONLY <1>3, <1>4a, <1>4b, <2>2, <3>1, CommandsOfOther
  <2> QED BY <1>b, <2>1, <2>2
<1>6. /\ c2 \in Seq(Commands)
      /\ behaviour = "inherit" => LastAgrees(c2, "low", after.inherited, after.inDt)
      /\ behaviour = "inherit" => LastAgrees(c2, "top", u.inherited, u.inDt)
  <2>1. c1 \in Seq(Commands) /\ (u.inherited = top.inherited => u.inDt = top.inDt)
    BY <1>1, <1>5
  <2> DEFINE p2 == c1 \o CommandOf("top", top, u)
  <2>2. /\ p2 \in Seq(Commands)
        /\ LastAgrees(c1, "top", top.inherited, top.inDt)
               => LastAgrees(p2, "top", u.inherited, u.inDt)
    BY ONLY <1>3, <1>4a, <1>4b, <2>1, CommandsOfOwn
  <2>3. ASSUME LastAgrees(c1, "low", after.inherited, after.inDt)
        PROVE  LastAgrees(p2, "low", after.inherited, after.inDt)
    BY ONLY <1>3, <1>4a, <1>4b, <2>1, <2>3, CommandsOfOther
  <2> QED BY <1>c, <1>5, <2>2, <2>3
<1>7. CommandsOK'
  <2>1. ASSUME behaviour = "inherit", "downtime" \notin stale'
        PROVE  (low.inherited <=> ShouldInherit(low))'
    <3>1. ShouldInherit(after)' <=> ShouldInherit(after) BY BehaviourFrame
    <3>2. after.inherited <=> ShouldInherit(after) BY <2>1
    <3> QED BY <1>2, <3>1, <3>2
  <2>2. commands' \in Seq(Commands) BY <1>2, <1>6
  <2>3. ASSUME behaviour = "inherit"
        PROVE  /\ LastAgrees(commands', "low", low'.inherited, low'.inDt)
               /\ LastAgrees(commands', "top", top'.inherited, top'.inDt)
    BY <1>2, <1>6, <2>3
  <2>4. /\ LastAgrees(commands', "low", low'.inherited, low'.inDt)
               <=> LastAgrees(commands, "low", low.inherited, low.inDt)'
        /\ LastAgrees(commands', "top", top'.inherited, top'.inDt)
               <=> LastAgrees(commands, "top", top.inherited, top.inDt)'
    BY DEF LastAgrees
  <2> QED BY <2>1, <2>2, <2>3, <2>4 DEF CommandsOK
<1> QED BY <1>4, <1>7

(* computable::propagate_update from a KPI. *)
LEMMA PropagateKeeps ==
    ASSUME GraphOK, CommandsOK, behaviour' = behaviour,
           NEW k, NEW imp \in Impacts, Propagate(k, imp)
    PROVE  GraphOK' /\ CommandsOK'
<1> DEFINE after == ChildHasUpdate(low, k, imp)
<1>1. /\ Announce(after, Above(after), commands)
      /\ stale' = IF after = low THEN stale ELSE {}
  BY DEF Propagate, Rise
<1>2. low \in BaRecords /\ Totals(low) /\ low.event.inDt = low.inDt BY DEF GraphOK
<1>3. /\ after \in BaRecords /\ Totals(after) /\ after.event.inDt = after.inDt
      /\ after.inherited = low.inherited => after.inDt = low.inDt
      /\ after # low /\ behaviour = "inherit"
             => (after.inherited <=> ShouldInherit(after))
  BY <1>2, ChildFields
<1> HIDE DEF after
<1>4. ASSUME behaviour = "inherit", "downtime" \notin stale'
      PROVE  after.inherited <=> ShouldInherit(after)
  BY <1>1, <1>3, <1>4 DEF CommandsOK
<1>5. /\ commands \in Seq(Commands) /\ low.inDt \in BOOLEAN
      /\ behaviour = "inherit" => LastAgrees(commands, "low", low.inherited, low.inDt)
      /\ behaviour = "inherit" => LastAgrees(commands, "top", top.inherited, top.inDt)
  BY <1>2 DEF CommandsOK, BaRecords
<1>6. after = low => stale' = stale BY <1>1
<1>7. Announce(after, Above(after), commands) BY <1>1
<1> QED BY <1>3, <1>4, <1>5, <1>6, <1>7, AnnounceKeeps

(* A service: its status, acknowledgement or downtime. *)
LEMMA ServiceUpdateKeeps ==
    ASSUME BaInd, NEW s \in [state : States, acked : BOOLEAN, downtimed : BOOLEAN],
           ServiceUpdate(s)
    PROVE  BaInd'
<1>1. behaviour' = behaviour /\ service' = s /\ Propagate(1, KpiService(s))
      /\ UNCHANGED <<leaf, cached, verdict>>
  BY DEF ServiceUpdate
<1>2. KpisOK' BY <1>1 DEF BaInd, KpisOK
<1>3. KpiService(s) \in Impacts BY KpiTypes
<1>4. GraphOK' /\ CommandsOK' BY <1>1, <1>3, PropagateKeeps DEF BaInd
<1> QED BY <1>2, <1>4 DEF BaInd

(* A service of the boolean expression. *)
LEMMA BoolStatusKeeps ==
    ASSUME BaInd, NEW i \in 1 .. 2, NEW critical \in BOOLEAN, NEW downtimed \in BOOLEAN,
           BoolStatus(i, critical, downtimed)
    PROVE  BaInd'
<1> DEFINE l == [leaf EXCEPT ![i] = [critical |-> critical, known |-> TRUE,
                                     downtimed |-> downtimed]]
           c == [cached EXCEPT ![i] = critical]
           v == BoolState(l, c, verdict)
           imp == KpiBoolexp(l, c, v)
<1>1. /\ leaf' = l /\ cached' = c /\ verdict' = v
      /\ Propagate(2, imp) /\ behaviour' = behaviour /\ service' = service
  BY DEF BoolStatus, BoolRefresh, BoolUpdate
<1>2. /\ l \in [1 .. 2 -> [critical : BOOLEAN, known : BOOLEAN, downtimed : BOOLEAN]]
      /\ c \in [1 .. 2 -> BOOLEAN]
      /\ \A j \in 1 .. 2 : c[j] = l[j].critical
  BY DEF BaInd, KpisOK
<1>3. verdict \in {NoVerdict, 0, 2} BY DEF BaInd, KpisOK
<1> HIDE DEF l, c
<1>4. v \in {0, 2} BY <1>2, <1>3, KpiTypes
<1> HIDE DEF v
<1>5. v \in {NoVerdict, 0, 2} BY <1>4
<1>6. imp \in Impacts BY <1>2, <1>5, KpiTypes
<1> HIDE DEF imp
<1>7. GraphOK' /\ CommandsOK' BY <1>1, <1>6, PropagateKeeps DEF BaInd
<1>8. KpisOK' BY <1>1, <1>2, <1>4 DEF BaInd, KpisOK
<1> QED BY <1>7, <1>8 DEF BaInd

(* The engine executes a command. *)
LEMMA EngineRunsKeeps ==
    ASSUME BaInd, EngineRuns
    PROVE  BaInd'
<1> DEFINE r == Head(commands)
           Q == Tail(commands)
<1>1. commands # <<>> /\ UNCHANGED <<service, leaf, cached, verdict, behaviour>>
  BY DEF EngineRuns
<1>2. commands \in Seq(Commands) BY DEF BaInd, CommandsOK
<1>3. KpisOK' BY <1>1 DEF BaInd, KpisOK
<1>4. GraphOK /\ CommandsOK BY DEF BaInd
<1>5. /\ low \in BaRecords /\ Totals(low) /\ low.event.inDt = low.inDt
      /\ top \in BaRecords /\ Totals(top) /\ top.event.inDt = top.inDt
      /\ 3 \in DOMAIN top.impacts
  BY DEF BaInd, GraphOK
<1>6. /\ low.inherited \in BOOLEAN /\ low.inDt \in BOOLEAN
      /\ top.inherited \in BOOLEAN /\ top.inDt \in BOOLEAN
  BY <1>5 DEF BaRecords
<1>7. /\ Q \in Seq(Commands) /\ r \in Commands
      /\ behaviour = "inherit" =>
             /\ LastAgrees(Q, "low", low.inherited,
                           IF r.ba = "low" THEN r.start ELSE low.inDt)
             /\ LastAgrees(Q, "top", top.inherited,
                           IF r.ba = "top" THEN r.start ELSE top.inDt)
  <2>1. "low" \in {"low", "top"} /\ "top" \in {"low", "top"} OBVIOUS
  <2>2. Q \in Seq(Commands) /\ r \in Commands BY <1>1, <1>2
  <2>3. ASSUME behaviour = "inherit"
        PROVE  /\ LastAgrees(Q, "low", low.inherited,
                             IF r.ba = "low" THEN r.start ELSE low.inDt)
               /\ LastAgrees(Q, "top", top.inherited,
                             IF r.ba = "top" THEN r.start ELSE top.inDt)
    <3>1. /\ LastAgrees(commands, "low", low.inherited, low.inDt)
          /\ LastAgrees(commands, "top", top.inherited, top.inDt)
      BY <1>4, <2>3 DEF CommandsOK
    <3> QED BY <1>1, <1>2, <1>6, <2>1, <3>1, ExecutedCommand
  <2> QED BY <2>2, <2>3
<1>8. r.ba \in {"low", "top"} /\ r.start \in BOOLEAN BY <1>7 DEF Commands
<1>9. CASE r.ba = "low"
  <2> DEFINE after == EngineTold(low, r.start)
  <2>1. /\ Announce(after, Above(after), Q)
        /\ stale' = IF after = low THEN stale ELSE stale \ {"parent"}
    BY <1>9 DEF EngineRuns, LowTold
  <2>2. /\ after \in BaRecords /\ SameTotals(after, low) /\ after.inDt = r.start
        /\ after.inherited = low.inherited /\ after.event.inDt = after.inDt
    BY <1>5, <1>8, ToldFields
  <2> HIDE DEF after, r, Q
  <2>3. Totals(after) /\ (ShouldInherit(after) <=> ShouldInherit(low))
    BY <1>5, <2>2, SameTotalsFrame
  <2>4. behaviour = "inherit" => LastAgrees(Q, "low", low.inherited, r.start)
    BY <1>7, <1>9
  <2>5. behaviour = "inherit" => LastAgrees(Q, "top", top.inherited, top.inDt)
    BY <1>7, <1>9
  <2>6. "downtime" \notin stale' => "downtime" \notin stale BY <2>1
  <2>7. behaviour = "inherit" /\ "downtime" \notin stale' =>
            (after.inherited <=> ShouldInherit(after))
    BY <1>4, <2>2, <2>3, <2>6 DEF CommandsOK
  <2>8. Announce(after, Above(after), Q) /\ (after = low => stale' = stale)
    BY <2>1
  <2>9. after \in BaRecords /\ after.event.inDt = after.inDt
        /\ (after.inherited = low.inherited => after.inDt = r.start)
    BY <2>2
  <2>10. behaviour' = behaviour /\ Q \in Seq(Commands) BY <1>1, <1>7
  <2>11. GraphOK' /\ CommandsOK'
    BY <1>4, <1>8, <2>3, <2>4, <2>5, <2>7, <2>8, <2>9, <2>10, AnnounceKeeps
  <2> QED BY <1>3, <2>11 DEF BaInd
<1>10. CASE r.ba = "top"
  <2>a. PICK u : u = EngineTold(top, r.start) OBVIOUS
  <2>1. top' = u /\ commands' = Q /\ low' = low /\ stale' = stale
    BY <1>10, <2>a DEF EngineRuns
  <2>2. /\ u \in BaRecords /\ SameTotals(u, top) /\ u.inDt = r.start
        /\ u.inherited = top.inherited /\ u.event.inDt = u.inDt
    BY <1>5, <1>8, <2>a, ToldFields
  <2> HIDE DEF r, Q
  <2>3. Totals(u) BY <1>5, <2>2, SameTotalsFrame
  <2>4. u.impacts = top.impacts BY <2>2 DEF SameTotals
  <2>5. behaviour' = behaviour BY <1>1
  <2>6. Totals(low)' /\ Totals(top)'
    <3> PICK b : b = low OBVIOUS
    <3>1. Totals(b)' /\ low' = b BY <1>5, <2>1, <2>5, BehaviourFrame
    <3>2. Totals(u)' BY <2>3, <2>5, BehaviourFrame
    <3> QED BY <2>1, <3>1, <3>2
  <2>7. KpiBa(low)' = KpiBa(low) /\ (ShouldInherit(low)' <=> ShouldInherit(low))
    <3>1. StateHard(low)' = StateHard(low) BY <2>1, <2>5 DEF StateHard
    <3> QED BY <2>1, <2>5, <3>1 DEF KpiBa, ShouldInherit, EveryKpiInDowntime
  <2>8. GraphOK' BY <1>4, <1>5, <2>1, <2>2, <2>4, <2>6, <2>7 DEF GraphOK
  <2>9. behaviour = "inherit" => LastAgrees(Q, "low", low.inherited, low.inDt)
    BY <1>7, <1>10
  <2>10. behaviour = "inherit" => LastAgrees(Q, "top", u.inherited, u.inDt)
    BY <1>7, <1>10, <2>2
  <2>11. /\ LastAgrees(Q, "low", low.inherited, low.inDt)
                => LastAgrees(commands, "low", low.inherited, low.inDt)'
         /\ LastAgrees(Q, "top", u.inherited, u.inDt)
                => LastAgrees(commands, "top", top.inherited, top.inDt)'
    BY <2>1 DEF LastAgrees
  <2>12. (low.inherited <=> ShouldInherit(low))' <=> (low.inherited <=> ShouldInherit(low))
    BY <2>1, <2>7
  <2>13. CommandsOK'
    BY <1>4, <1>7, <2>1, <2>5, <2>9, <2>10, <2>11, <2>12 DEF CommandsOK
  <2> QED BY <1>3, <2>8, <2>13 DEF BaInd
<1> QED BY <1>8, <1>9, <1>10

(* A BA that is ok inherits nothing. *)
LEMMA OkBa ==
    ASSUME NEW b \in BaRecords, Totals(b), b.computed = 0,
           \A j \in DOMAIN b.impacts : b.impacts[j].nominal = 0 /\ b.impacts[j].state = 0
    PROVE  ~ShouldInherit(b)
<1>1. PartTotals(b, DOMAIN b.impacts) BY TotalsArePart
<1>2. /\ WeightOf(b, DOMAIN b.impacts) = 0 /\ CriticalOf(b, DOMAIN b.impacts) = 0
  BY DEF WeightOf, WeightAt, Weight, CriticalOf, CriticalAt, Critical
<1>3. b.source = "impact" => b.level = 100 BY <1>1, <1>2 DEF PartTotals
<1>4. b.source = "ratio" => b.critical = 0 BY <1>1, <1>2 DEF PartTotals
<1>5. b.source \in Sources BY DEF BaRecords
<1>6. StateHard(b) = 0
  <2>1. CASE b.source = "impact"
    <3>1. StateHard(b) = Threshold(-b.level, -LevelCritical, -LevelWarning)
      BY <2>1 DEF StateHard
    <3> QED BY <1>3, <2>1, <3>1 DEF Threshold, LevelCritical, LevelWarning
  <2>2. CASE b.source = "ratio"
    <3>1. StateHard(b) = Threshold(b.critical, RatioCritical, RatioWarning)
      BY <2>2 DEF StateHard
    <3> QED BY <1>4, <2>2, <3>1 DEF Threshold, RatioCritical, RatioWarning
  <2>3. CASE b.source \in {"best", "worst"}
    BY <2>3 DEF StateHard
  <2> QED BY <1>5, <2>1, <2>2, <2>3 DEF Sources
<1> QED BY <1>6 DEF ShouldInherit

(* A KPI is removed or added by a reload. *)
LEMMA ReloadKeeps ==
    ASSUME BaInd, NEW k \in 1 .. 2, Reload(k)
    PROVE  BaInd'
<1> PICK imp : imp = IF k = 1 THEN KpiService(service) ELSE KpiBoolexp(leaf, cached, verdict)
  OBVIOUS
<1> PICK c : c = IF k \in DOMAIN low.impacts THEN RemoveImpact(low, k)
                 ELSE AddImpact(low, k, imp)
  OBVIOUS
<1> PICK v : v = Visit(c) OBVIOUS
<1> PICK u : u = Visit(top) OBVIOUS
<1>1. /\ low' = v /\ top' = u /\ stale' = {"parent", "downtime"}
      /\ UNCHANGED <<service, leaf, cached, verdict, behaviour, commands>>
  BY DEF Reload
<1>2. /\ low \in BaRecords /\ Totals(low) /\ top \in BaRecords /\ Totals(top)
      /\ 3 \in DOMAIN top.impacts
  BY DEF BaInd, GraphOK
<1>3. imp \in Impacts
  <2>1. verdict \in {NoVerdict, 0, 2} BY DEF BaInd, KpisOK
  <2> QED BY <2>1, KpiTypes DEF BaInd, KpisOK
<1>4. k \in 1 .. 3 OBVIOUS
<1>5. c \in BaRecords /\ Totals(c) /\ c.inDt = low.inDt /\ c.inherited = low.inherited
  <2>1. CASE k \in DOMAIN low.impacts
    <3>1. c = RemoveImpact(low, k) BY <2>1
    <3> QED BY ONLY <1>2, <2>1, <3>1, RemoveFields
  <2>2. CASE k \notin DOMAIN low.impacts
    <3>1. c = AddImpact(low, k, imp) BY <2>2
    <3> QED BY ONLY <1>2, <1>3, <1>4, <3>1, AddFields
  <2> QED BY <2>1, <2>2
<1>6. /\ v \in BaRecords /\ SameTotals(v, c) /\ v.inDt = c.inDt
      /\ v.inherited = c.inherited /\ v.event.inDt = v.inDt
  BY <1>5, VisitFields
<1>7. Totals(v) BY <1>5, <1>6, SameTotalsFrame
<1>8. /\ u \in BaRecords /\ SameTotals(u, top) /\ u.inDt = top.inDt
      /\ u.inherited = top.inherited /\ u.event.inDt = u.inDt
  BY <1>2, VisitFields
<1>9. Totals(u) BY <1>2, <1>8, SameTotalsFrame
<1>10. Totals(v)' /\ Totals(u)' BY <1>1, <1>7, <1>9, BehaviourFrame
<1>11. Totals(low)' /\ Totals(top)' BY <1>1, <1>10
<1>12. 3 \in DOMAIN u.impacts BY <1>2, <1>8 DEF SameTotals
<1>13. GraphOK' BY <1>1, <1>6, <1>8, <1>11, <1>12 DEF GraphOK
<1>14. KpisOK' BY <1>1 DEF BaInd, KpisOK
<1>15. /\ low'.inherited = low.inherited /\ low'.inDt = low.inDt
       /\ top'.inherited = top.inherited /\ top'.inDt = top.inDt
  BY <1>1, <1>5, <1>6, <1>8
<1>16. CommandsOK' BY <1>1, <1>15 DEF BaInd, CommandsOK, LastAgrees
<1> QED BY <1>13, <1>14, <1>16 DEF BaInd

(* The broker is stopped and started. *)
LEMMA RestartKeeps ==
    ASSUME BaInd, Restart
    PROVE  BaInd'
<1> DEFINE l == [i \in 1 .. 2 |-> Unknown]
           c == [i \in 1 .. 2 |-> FALSE]
<1> PICK events : events = <<low.event, top.event>> OBVIOUS
<1> PICK inherited : inherited = <<low.inherited, top.inherited>> OBVIOUS
<1> PICK pair : pair = Build(low.source, DOMAIN low.impacts, service, l, c, verdict,
                            events, inherited)
  OBVIOUS
<1>0. pair = Build(low.source, DOMAIN low.impacts, service, l, c, verdict,
                   events, inherited)
  OBVIOUS
<1>1. /\ leaf' = l /\ cached' = c /\ low' = pair[1] /\ top' = pair[2]
      /\ stale' = {"parent", "downtime"}
      /\ UNCHANGED <<service, verdict, behaviour, commands>>
  BY DEF Restart
<1>2. /\ l \in [1 .. 2 -> [critical : BOOLEAN, known : BOOLEAN, downtimed : BOOLEAN]]
      /\ c \in [1 .. 2 -> BOOLEAN] /\ \A i \in 1 .. 2 : c[i] = l[i].critical
  BY DEF Unknown
<1> HIDE DEF l, c
<1>3. /\ service \in [state : States, acked : BOOLEAN, downtimed : BOOLEAN]
      /\ verdict \in {NoVerdict, 0, 2}
  BY DEF BaInd, KpisOK
<1>4. low \in BaRecords /\ top \in BaRecords
      /\ low.event.inDt = low.inDt /\ top.event.inDt = top.inDt
  BY DEF BaInd, GraphOK
<1>5. /\ low.source \in Sources /\ events \in BaEventSet \X BaEventSet
      /\ inherited \in BOOLEAN \X BOOLEAN
  BY <1>4 DEF BaRecords
<1>6. /\ pair[1] \in BaRecords /\ Totals(pair[1]) /\ pair[1].inDt = events[1].inDt
      /\ pair[1].inherited = inherited[1] /\ pair[1].event.inDt = pair[1].inDt
      /\ pair[2] \in BaRecords /\ Totals(pair[2]) /\ pair[2].inDt = events[2].inDt
      /\ pair[2].inherited = inherited[2] /\ pair[2].event.inDt = pair[2].inDt
      /\ 3 \in DOMAIN pair[2].impacts
  <2>1. Built(pair, service, l, c, verdict, events, inherited)
    <3> PICK source : source = low.source OBVIOUS
    <3> PICK kpis : kpis = DOMAIN low.impacts OBVIOUS
    <3>1. pair = Build(source, kpis, service, l, c, verdict, events, inherited)
          /\ source \in Sources
      BY <1>0, <1>5
    <3>2. l \in [1 .. 2 -> [critical : BOOLEAN, known : BOOLEAN, downtimed : BOOLEAN]]
          /\ c \in [1 .. 2 -> BOOLEAN]
      BY <1>2
    <3> QED BY ONLY <1>3, <1>5, <3>1, <3>2, BuildFields
  <2> QED BY <2>1 DEF Built
<1> PICK v : v = pair[1] OBVIOUS
<1> PICK u : u = pair[2] OBVIOUS
<1>7. Totals(v)' /\ Totals(u)' BY <1>1, <1>6, BehaviourFrame
<1>8. Totals(low)' /\ Totals(top)' BY <1>1, <1>7
<1>9. GraphOK' BY <1>1, <1>6, <1>8 DEF GraphOK
<1>10. KpisOK' BY <1>1, <1>2 DEF BaInd, KpisOK
<1>11. /\ low'.inherited = low.inherited /\ low'.inDt = low.inDt
       /\ top'.inherited = top.inherited /\ top'.inDt = top.inDt
  BY <1>1, <1>4, <1>6
<1>12. CommandsOK' BY <1>1, <1>11 DEF BaInd, CommandsOK, LastAgrees
<1> QED BY <1>9, <1>10, <1>12 DEF BaInd

(* It holds at the start, *)
LEMMA BaInitInd ==
    ASSUME BaInit
    PROVE  BaInd
<1> PICK config \in Configurations :
        LET pair == Build(config[1], 1 .. 2, service, leaf, cached, NoVerdict,
                          <<NoEvent, NoEvent>>, <<FALSE, FALSE>>)
        IN /\ behaviour = config[2]
           /\ low = pair[1] /\ top = pair[2]
  BY DEF BaInit
<1> PICK pair : pair = Build(config[1], 1 .. 2, service, leaf, cached, NoVerdict,
                            <<NoEvent, NoEvent>>, <<FALSE, FALSE>>)
  OBVIOUS
<1>1. behaviour = config[2] /\ low = pair[1] /\ top = pair[2] OBVIOUS
<1>2. config[1] \in Sources /\ config[2] \in {"ignore", "inherit", "none"}
  BY BaAssumption DEF Sources
<1>3. /\ service = [state |-> 0, acked |-> FALSE, downtimed |-> FALSE]
      /\ leaf = [i \in 1 .. 2 |-> Unknown] /\ cached = [i \in 1 .. 2 |-> FALSE]
      /\ verdict = 0 /\ commands = <<>> /\ stale = {}
  BY DEF BaInit
<1>4. /\ service \in [state : States, acked : BOOLEAN, downtimed : BOOLEAN]
      /\ leaf \in [1 .. 2 -> [critical : BOOLEAN, known : BOOLEAN, downtimed : BOOLEAN]]
      /\ cached \in [1 .. 2 -> BOOLEAN] /\ verdict \in {0, 2}
      /\ \A i \in 1 .. 2 : cached[i] = leaf[i].critical
  <2>1. service \in [state : States, acked : BOOLEAN, downtimed : BOOLEAN]
    BY <1>3 DEF States
  <2>2. Unknown \in [critical : BOOLEAN, known : BOOLEAN, downtimed : BOOLEAN]
        /\ Unknown.critical = FALSE
    BY DEF Unknown
  <2>3. leaf \in [1 .. 2 -> [critical : BOOLEAN, known : BOOLEAN, downtimed : BOOLEAN]]
    BY <1>3, <2>2
  <2>4. cached \in [1 .. 2 -> BOOLEAN] /\ verdict \in {0, 2} BY <1>3
  <2>5. \A i \in 1 .. 2 : cached[i] = leaf[i].critical BY <1>3, <2>2
  <2> QED BY <2>1, <2>3, <2>4, <2>5
<1>5. KpisOK BY <1>1, <1>2, <1>4 DEF KpisOK
<1>6. NoEvent \in BaEventSet /\ NoEvent.inDt = FALSE
      /\ NoVerdict \in {NoVerdict, 0, 2} /\ FALSE \in BOOLEAN
  BY DEF NoEvent, BaEventSet, States
<1>6a. pair = Build(config[1], 1 .. 2, service, leaf, cached, NoVerdict,
                    <<NoEvent, NoEvent>>, <<FALSE, FALSE>>)
  OBVIOUS
<1>7. /\ low \in BaRecords /\ Totals(low) /\ low.inDt = FALSE
      /\ low.inherited = FALSE /\ low.event.inDt = low.inDt
      /\ top \in BaRecords /\ Totals(top) /\ top.inDt = FALSE
      /\ top.inherited = FALSE /\ top.event.inDt = top.inDt
      /\ 3 \in DOMAIN top.impacts /\ top.impacts[3] = KpiBa(low)
      /\ low.computed \in {0, KpiService(service).state,
                           KpiBoolexp(leaf, cached, NoVerdict).state}
      /\ \A j \in DOMAIN low.impacts :
             low.impacts[j] \in {KpiService(service), KpiBoolexp(leaf, cached, NoVerdict)}
  <2> PICK events : events = <<NoEvent, NoEvent>> OBVIOUS
  <2> PICK inherited : inherited = <<FALSE, FALSE>> OBVIOUS
  <2>1. pair = Build(config[1], 1 .. 2, service, leaf, cached, NoVerdict,
                     events, inherited)
    BY <1>6a
  <2>2. /\ events \in BaEventSet \X BaEventSet /\ inherited \in BOOLEAN \X BOOLEAN
        /\ events[1].inDt = FALSE /\ events[2].inDt = FALSE
        /\ inherited[1] = FALSE /\ inherited[2] = FALSE
    BY <1>6
  <2>3. NoVerdict \in {NoVerdict, 0, 2} OBVIOUS
  <2>4. /\ pair[1] \in BaRecords /\ Totals(pair[1]) /\ pair[1].inDt = events[1].inDt
        /\ pair[1].inherited = inherited[1] /\ pair[1].event.inDt = pair[1].inDt
        /\ pair[2] \in BaRecords /\ Totals(pair[2]) /\ pair[2].inDt = events[2].inDt
        /\ pair[2].inherited = inherited[2] /\ pair[2].event.inDt = pair[2].inDt
        /\ 3 \in DOMAIN pair[2].impacts /\ pair[2].impacts[3] = KpiBa(pair[1])
        /\ pair[1].computed \in {0, KpiService(service).state,
                                 KpiBoolexp(leaf, cached, NoVerdict).state}
        /\ \A j \in DOMAIN pair[1].impacts :
               pair[1].impacts[j] \in {KpiService(service),
                                       KpiBoolexp(leaf, cached, NoVerdict)}
    <3>1. Built(pair, service, leaf, cached, NoVerdict, events, inherited)
      BY ONLY <1>2, <1>4, <2>1, <2>2, <2>3, BuildFields
    <3> QED BY <3>1 DEF Built
  <2> QED BY <1>1, <2>2, <2>4
<1>8. GraphOK BY <1>7 DEF GraphOK
<1>9. KpiService(service).state = 0 /\ KpiService(service).nominal = 0
  BY <1>3 DEF KpiService, Impact, ServiceImpact, States
<1>10. KpiBoolexp(leaf, cached, NoVerdict).state = 0
       /\ KpiBoolexp(leaf, cached, NoVerdict).nominal = 0
  <2>1. BoolState(leaf, cached, NoVerdict) = 0 BY <1>3 DEF BoolState
  <2> QED BY <2>1 DEF KpiBoolexp, Impact
<1>11. ~ShouldInherit(low)
  <2>1. \A j \in DOMAIN low.impacts :
            low.impacts[j].nominal = 0 /\ low.impacts[j].state = 0
    BY <1>7, <1>9, <1>10
  <2>2. low.computed = 0 BY <1>7, <1>9, <1>10
  <2> QED BY <1>7, <2>1, <2>2, OkBa
<1>12. CommandsOK
  <2>1. commands \in Seq(Commands) /\ Len(commands) = 0 /\ "downtime" \notin stale BY <1>3
  <2>2. /\ low.inDt = low.inherited /\ top.inDt = top.inherited
        /\ ~low.inherited /\ ~ShouldInherit(low)
    BY <1>7, <1>11
  <2>3. 1 .. 0 = {} OBVIOUS
  <2>4. /\ LastAgrees(commands, "low", low.inherited, low.inDt)
        /\ LastAgrees(commands, "top", top.inherited, top.inDt)
    BY <2>1, <2>2, <2>3 DEF LastAgrees
  <2> QED BY <2>1, <2>2, <2>4 DEF CommandsOK
<1> QED BY <1>5, <1>8, <1>12 DEF BaInd

(* when nothing happens, *)
LEMMA BaQuiet ==
    ASSUME BaInd, UNCHANGED baVars
    PROVE  BaInd'
<1>1. UNCHANGED <<service, leaf, cached, verdict, low, top, behaviour, commands, stale>>
  BY DEF baVars
<1> PICK b : b = low OBVIOUS
<1> PICK t : t = top OBVIOUS
<1>2. Totals(b) /\ Totals(t) BY DEF BaInd, GraphOK
<1>3. /\ Totals(b)' /\ Totals(t)' /\ KpiBa(b)' = KpiBa(b)
      /\ (ShouldInherit(b)' <=> ShouldInherit(b))
  BY <1>1, <1>2, BehaviourFrame
<1>4. /\ Totals(low)' /\ Totals(top)' /\ KpiBa(low)' = KpiBa(low)
      /\ (ShouldInherit(low)' <=> ShouldInherit(low))
  BY <1>1, <1>3
<1>5. KpisOK' BY <1>1 DEF BaInd, KpisOK
<1>6. GraphOK' BY <1>1, <1>4 DEF BaInd, GraphOK
<1>7. CommandsOK' BY <1>1, <1>4 DEF BaInd, CommandsOK, LastAgrees
<1> QED BY <1>5, <1>6, <1>7 DEF BaInd

(* and after each step. *)
LEMMA BaStep ==
    ASSUME BaInd, [BaNext]_baVars
    PROVE  BaInd'
<1>0. service \in [state : States, acked : BOOLEAN, downtimed : BOOLEAN]
  BY DEF BaInd, KpisOK
<1>1. ASSUME NEW s \in Reported, ServiceStatus(s) PROVE BaInd'
  <2>1. [service EXCEPT !.state = s]
            \in [state : States, acked : BOOLEAN, downtimed : BOOLEAN]
    BY <1>0, BaAssumption DEF States
  <2> QED BY <1>1, <2>1, ServiceUpdateKeeps DEF ServiceStatus
<1>2. ASSUME NEW on \in BOOLEAN, ServiceAck(on) PROVE BaInd'
  <2>1. [service EXCEPT !.acked = on]
            \in [state : States, acked : BOOLEAN, downtimed : BOOLEAN]
    BY <1>0
  <2> QED BY <1>2, <2>1, ServiceUpdateKeeps DEF ServiceAck
<1>3. ASSUME NEW on \in BOOLEAN, ServiceDowntime(on) PROVE BaInd'
  <2>1. [service EXCEPT !.downtimed = on]
            \in [state : States, acked : BOOLEAN, downtimed : BOOLEAN]
    BY <1>0
  <2> QED BY <1>3, <2>1, ServiceUpdateKeeps DEF ServiceDowntime
<1>4. ASSUME NEW i \in 1 .. 2, NEW critical \in BOOLEAN, NEW downtimed \in BOOLEAN,
             BoolStatus(i, critical, downtimed)
      PROVE  BaInd'
  BY <1>4, BoolStatusKeeps
<1>5. CASE EngineRuns BY <1>5, EngineRunsKeeps
<1>6. ASSUME NEW k \in 1 .. 2, Reload(k) PROVE BaInd' BY <1>6, ReloadKeeps
<1>7. CASE Restart BY <1>7, RestartKeeps
<1>8. CASE UNCHANGED baVars BY <1>8, BaQuiet
<1> QED BY <1>1, <1>2, <1>3, <1>4, <1>5, <1>6, <1>7, <1>8 DEF BaNext

(* BaInv, the running totals of computable.cc and ba.cc: for any reported *)
(* states, configurations, limit of recomputation and number of pending   *)
(* commands they are what a computation from the impacts gives, and a     *)
(* parent has the impact its child has, unless a reload replaced it.      *)
THEOREM BaTotals == BaSpec => []BaInv
<1>1. BaInit => BaInd BY BaInitInd
<1>2. BaInd /\ [BaNext]_baVars => BaInd' BY BaStep
<1>3. BaInd => BaInv BY BaIndImplies
<1> QED BY <1>1, <1>2, <1>3, PTL DEF BaSpec

(* DowntimeInherited, ba::_compute_inherited_downtime and                 *)
(* monitoring_stream::write: when the engine has executed every command,  *)
(* the downtime of a BA is the one it inherits, and that one is what its  *)
(* KPIs ask for.                                                          *)
THEOREM BaDowntimes == BaSpec => []DowntimeInherited
<1>1. BaInit => BaInd BY BaInitInd
<1>2. BaInd /\ [BaNext]_baVars => BaInd' BY BaStep
<1>3. BaInd => DowntimeInherited BY BaIndImplies
<1> QED BY <1>1, <1>2, <1>3, PTL DEF BaSpec

==============================================================================
