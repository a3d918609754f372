----------------------- MODULE ConflictManagerProofs -----------------------
(***************************************************************************)
(* The invariants of ConflictManager, for any number of events of each     *)
(* kind, of instances and of failures.                                     *)
(*                                                                         *)
(* What they lack to be inductive.  Of the streams: the reference count of *)
(* the instance is the number of open streams, unless one was opened next  *)
(* to an older one, and only the last of them asks the thread to exit.  Of *)
(* the events: a timeline goes on exactly where what was counted ends, an  *)
(* event that has its flag has been sent, and what was counted is safe.    *)
(*                                                                         *)
(* The acknowledgements are right only when the memory of mfifo::_ack,     *)
(* which no constructor sets, happens to be 0; the theorems that need it   *)
(* say so.                                                                 *)
(*                                                                         *)
(* Then those of its handlers of events, SqlActions.  What they lack: a    *)
(* row that is created and not committed has its flag, and is on the       *)
(* connection of its poller if it has one; a row that shows the state of   *)
(* the timeout belongs to a poller that is marked outdated, so that        *)
(* _load_caches() finds it again.                                          *)
(***************************************************************************)
EXTENDS ConflictManager, SqlActions, QueueLemmas, FiniteSetTheorems

(* The memory of mfifo::_ack happens to be 0.                              *)
Zeroed == InitialAcks \subseteq {0}

(* An event that its output may forget. *)
Safe == stored \union failed \union Ignored \union Perfdata

(* Who has opened the instance, and who waits for its thread. *)
OpenStreams == (IF stream["sql"] = "open" THEN 1 ELSE 0)
                 + (IF stream["storage"] = "open" THEN 1 ELSE 0)
Opened ==
    /\ mgr.at = "null" => mgr = NoInstance
    /\ mgr.at # "null" => mgr.refs \in {OpenStreams - 1, OpenStreams}
    /\ \A s \in Streams : stream[s] # "open" => pos[s] = popped[s] /\ pending[s] = 0
    /\ made = 0 => /\ mgr.at = "null" /\ ~overlap
                   /\ \A s \in Streams : popped[s] = 0 /\ stream[s] = "closed"

(* Without an overlap there is one instance, which asks its thread to exit *)
(* when the last of its streams waits for it.                              *)
Alone ==
    ~overlap =>
      /\ process = "up"
      /\ \A s \in Streams : stream[s] # "joining old"
      /\ mgr.at = "null" => \A s \in Streams : stream[s] = "closed"
      /\ mgr.at # "null" => mgr.refs = OpenStreams
      /\ mgr.at # "null" /\ ~mgr.exit => \A s \in Streams : stream[s] # "joining"
      /\ mgr.exit => /\ \A s \in Streams : stream[s] # "open"
                     /\ \E s \in Streams : stream[s] # "joining"
      /\ mgr.at # "null" /\ ~mgr.exit => \E s \in Streams : stream[s] = "open"

(* Where the events of the loop are. *)
Taken == mgr.at = "process" <=> mgr.events # <<>>

(* A timeline goes on where what was counted ends. *)
Known == Zeroed /\ (~overlap \/ made = 1) /\ mgr.at # "null"
Counts(s) ==
    /\ \A k \in 1 .. Len(mgr.timeline[s]) :
         mgr.timeline[s][k] = <<s, popped[s] + mgr.ack[s] + k>>
    /\ stream[s] = "open" =>
         /\ pos[s] = popped[s] + mgr.ack[s] + Len(mgr.timeline[s])
         /\ pending[s] = mgr.ack[s] + Len(mgr.timeline[s])
Numbered ==
    Known =>
      /\ mgr.at = "none" => /\ stream["storage"] = "closed"
                            /\ mgr.timeline["storage"] = <<>> /\ mgr.ack["storage"] = 0
      /\ \A s \in Streams : Counts(s)

(* A flag is set when the query is sent, unless the connection is in error *)
(* and the loop never counts again.                                        *)
Live == mgr.db = "ok" \/ mgr.at \in {"top", "take", "process", "finish"}
Flagged == Live => mgr.flags \subseteq mgr.sent \union Safe

(* What was counted is safe. *)
Counted ==
    Zeroed /\ ~overlap =>
      \A e \in Event : e[2] <= popped[e[1]] + mgr.ack[e[1]] => e \in Safe

(* Perfdata that was flagged or counted is still there. *)
Here == stored \union mgr.sent \union ToSet(mgr.perfdata)
PerfdataThere ==
    Zeroed /\ made = 1 /\ mgr.at # "null" /\ mgr.db = "ok" =>
      \A e \in Perfdata :
        e \in mgr.flags \/ e[2] <= popped["storage"] + mgr.ack["storage"] => e \in Here

(* Between two batches nothing is left to commit, unless an exception has  *)
(* interrupted one; a thread that ends has taken everything.               *)
Between == {"none", "load", "check", "top", "again", "end", "done"}
Drained ==
    /\ mgr.at \in Between /\ mgr.dropped = {} /\ mgr.db = "ok" => mgr.sent = {}
    /\ mgr.at \in {"end", "done"} /\ ~mgr.broken /\ ~overlap =>
         mgr.exit /\ mgr.fifo = <<>>

(* The events of the timelines that may lack their flag. *)
Held == mgr.flags \union mgr.dropped \union ToSet(mgr.fifo)
          \union ToSet(mgr.events) \union ToSet(mgr.bulk)
Waiting == \A s \in Streams : ToSet(mgr.timeline[s]) \subseteq Held

ManagerInd ==
    /\ TypeOK /\ Opened /\ Alone /\ Taken /\ Waiting /\ Numbered
    /\ Flagged /\ Counted /\ PerfdataThere /\ Drained

-----------------------------------------------------------------------------
(* Types. *)

(* The constants are as the code has them. *)
LEMMA ConstantTypes ==
    /\ SqlEvents \in Nat /\ StorageEvents \in Nat /\ MaxPending \in Nat \ {0}
    /\ MaxBulk \in Nat /\ InitialAcks \subseteq Nat
    /\ MaxManagers \in Nat /\ MaxFaults \in Nat
  BY EventsAssumption, QueriesAssumption, InitialAcksAssumption, BoundsAssumption

(* An event is a stream and a number. *)
LEMMA EventTypes ==
    /\ \A e \in Event : e[1] \in Streams /\ e[2] \in 1 .. Total[e[1]]
    /\ \A s \in Streams : Total[s] \in Nat
    /\ \A s \in Streams : \A n \in 1 .. Total[s] :
         <<s, n>> \in Event /\ <<s, n>>[1] = s /\ <<s, n>>[2] = n
    /\ \A e \in Event : e = <<e[1], e[2]>>
  BY EventsAssumption DEF Event, Streams, Total

(* Perfdata is of the storage output. *)
LEMMA PerfdataTypes ==
    /\ Perfdata \subseteq Event
    /\ \A e \in Perfdata : e[1] = "storage"
  BY KindsAssumption, EventTypes DEF Perfdata, Streams, Total

(* The types of the fields of an instance. *)
LEMMA FieldTypes ==
    ASSUME NEW m \in Instance
    PROVE  /\ m.fifo \in Seq(Event) /\ m.events \in Seq(Event)
           /\ m.bulk \in Seq(Event) /\ m.perfdata \in Seq(Event)
           /\ m.timeline \in [Streams -> Seq(Event)] /\ m.ack \in [Streams -> Nat]
           /\ m.flags \subseteq Event /\ m.dropped \subseteq Event /\ m.sent \subseteq Event
           /\ m.count \in 0 .. MaxPending /\ m.at \in LoopPoint
           /\ m.exit \in BOOLEAN /\ m.broken \in BOOLEAN /\ m.refs \in -1 .. 2
           /\ m.db \in {"ok", "gone", "lost", "statement"}
  BY DEF Instance

(* A new instance, and none. *)
LEMMA NewTypes ==
    ASSUME NEW acks \in [Streams -> Nat]
    PROVE  NewInstance(acks) \in Instance
  <1>1. <<>> \in Seq(Event) /\ [s \in Streams |-> <<>>] \in [Streams -> Seq(Event)]
    OBVIOUS
  <1>2. 0 \in 0 .. MaxPending /\ 1 \in -1 .. 2
    BY ConstantTypes
  <1> QED BY <1>1, <1>2 DEF NewInstance, Instance, LoopPoint

(* Without an instance every part is empty.                                *)
LEMMA NoInstanceFields ==
    /\ NoInstance \in Instance
    /\ NoInstance.at = "null" /\ NoInstance.refs = 0 /\ ~NoInstance.exit /\ ~NoInstance.broken
    /\ NoInstance.fifo = <<>> /\ NoInstance.events = <<>> /\ NoInstance.bulk = <<>>
    /\ NoInstance.perfdata = <<>> /\ NoInstance.flags = {} /\ NoInstance.sent = {}
    /\ NoInstance.dropped = {} /\ NoInstance.db = "ok"
    /\ \A s \in Streams : NoInstance.timeline[s] = <<>> /\ NoInstance.ack[s] = 0
  <1> DEFINE z == [s \in Streams |-> 0]
  <1>1. z \in [Streams -> Nat] /\ NewInstance(z) \in Instance
    BY NewTypes
  <1>2. PICK n \in Instance : NoInstance = [n EXCEPT !.at = "null", !.refs = 0]
    BY <1>1 DEF NoInstance
  <1>3. NoInstance \in Instance
    <2>1. 0 \in -1 .. 2 /\ "null" \in LoopPoint
      BY DEF LoopPoint
    <2> QED BY <1>2, <2>1 DEF Instance
  <1>4. /\ NoInstance.at = "null" /\ NoInstance.refs = 0 /\ ~NoInstance.exit /\ ~NoInstance.broken
        /\ NoInstance.fifo = <<>> /\ NoInstance.events = <<>> /\ NoInstance.bulk = <<>>
        /\ NoInstance.perfdata = <<>> /\ NoInstance.flags = {} /\ NoInstance.sent = {}
        /\ NoInstance.dropped = {} /\ NoInstance.db = "ok"
        /\ \A s \in Streams : NoInstance.timeline[s] = <<>> /\ NoInstance.ack[s] = 0
    BY DEF NoInstance, NewInstance
  <1> QED BY <1>3, <1>4

(* The events behind a timeline, in the words of the property.             *)
LEMMA WaitingIsNothingForgotten ==
    ASSUME TypeOK PROVE NothingForgotten <=> Waiting
  <1>1. /\ mgr.fifo \in Seq(Event) /\ mgr.events \in Seq(Event)
    BY FieldTypes DEF TypeOK
  <1>2. PICK u \in Seq(Event) :
           u = mgr.fifo \o mgr.events /\ ToSet(u) = ToSet(mgr.fifo) \union ToSet(mgr.events)
    BY <1>1, ToSetUnion
  <1>3. ToSet(u \o mgr.bulk) = ToSet(u) \union ToSet(mgr.bulk)
    <2>1. mgr.bulk \in Seq(Event)
      BY FieldTypes DEF TypeOK
    <2> QED BY <2>1, ToSetUnion
  <1> QED BY <1>2, <1>3 DEF NothingForgotten, Waiting, Held

-----------------------------------------------------------------------------
(* What the calls of the streams do. *)

(* All of an instance but who uses it. *)
SameContent(m, n) ==
    /\ m.fifo = n.fifo /\ m.timeline = n.timeline /\ m.flags = n.flags /\ m.ack = n.ack
    /\ m.events = n.events /\ m.bulk = n.bulk /\ m.perfdata = n.perfdata
    /\ m.broken = n.broken /\ m.dropped = n.dropped /\ m.sent = n.sent /\ m.db = n.db

(* A function with another value at one place; one for each stream. *)
LEMMA ExceptType ==
    ASSUME NEW S, NEW T, NEW f \in [S -> T], NEW s \in S, NEW v \in T
    PROVE  /\ [f EXCEPT ![s] = v] \in [S -> T]
           /\ [f EXCEPT ![s] = v][s] = v
           /\ \A r \in S : r # s => [f EXCEPT ![s] = v][r] = f[r]
  OBVIOUS

(* A value for each stream.                                                *)
LEMMA PairOfStreams ==
    ASSUME NEW T, NEW a \in T, NEW b \in T
    PROVE  /\ [sql |-> a, storage |-> b] \in [Streams -> T]
           /\ [sql |-> a, storage |-> b]["sql"] = a
           /\ [sql |-> a, storage |-> b]["storage"] = b
  BY DEF Streams

(* What is known of the variables. *)
LEMMA StateTypes ==
    ASSUME TypeOK
    PROVE  /\ mgr \in Instance
           /\ stream \in [Streams -> {"closed", "open", "joining", "joining old"}]
           /\ pending \in [Streams -> Int] /\ pos \in [Streams -> Nat]
           /\ popped \in [Streams -> Nat]
           /\ \A s \in Streams : popped[s] <= pos[s] /\ pos[s] <= Total[s]
           /\ "sql" \in Streams /\ "storage" \in Streams
           /\ \A s \in Streams : s = "sql" \/ s = "storage"
           /\ made \in Nat /\ overlap \in BOOLEAN
  <1>1. /\ mgr \in Instance
        /\ stream \in [Streams -> {"closed", "open", "joining", "joining old"}]
        /\ pending \in [Streams -> Int] /\ pos \in [Streams -> Nat]
        /\ popped \in [Streams -> Nat] /\ overlap \in BOOLEAN
        /\ \A s \in Streams : popped[s] <= pos[s] /\ pos[s] <= Total[s]
    BY DEF TypeOK
  <1>2. /\ "sql" \in Streams /\ "storage" \in Streams
        /\ \A s \in Streams : s = "sql" \/ s = "storage"
    BY DEF Streams
  <1>3. made \in Nat
    <2>1. made \in 0 .. MaxManagers /\ MaxManagers \in Nat
      BY ConstantTypes DEF TypeOK
    <2> QED BY <2>1
  <1> QED BY <1>1, <1>2, <1>3

(* What OpenSql does: a new instance, of which the sql stream is the user. *)
LEMMA OpenSqlStep ==
    ASSUME TypeOK, OpenSql
    PROVE  /\ TypeOK'
           /\ stream["sql"] = "closed" /\ process' = "up"
           /\ mgr'.at = "none" /\ mgr'.refs = 1 /\ ~mgr'.exit
           /\ mgr'.fifo = <<>> /\ mgr'.events = <<>> /\ mgr'.bulk = <<>>
           /\ mgr'.flags = {} /\ mgr'.sent = {} /\ mgr'.dropped = {}
           /\ \A s \in Streams : mgr'.timeline[s] = <<>> /\ mgr'.ack[s] \in InitialAcks
           /\ made' = made + 1
           /\ stream'["sql"] = "open"
           /\ stream'["storage"] = IF stream["storage"] = "joining" THEN "joining old"
                                                                    ELSE stream["storage"]
           /\ UNCHANGED <<pending, pos, popped, stored, failed>>
           /\ ~overlap' => ~overlap /\ mgr.at = "null"
  <1>1. PICK acks \in [Streams -> InitialAcks] : mgr' = NewInstance(acks)
    BY DEF OpenSql
  <1>2. acks \in [Streams -> Nat] /\ mgr' \in Instance
    <2>1. acks \in [Streams -> Nat]
      BY ConstantTypes
    <2> QED BY <1>1, <2>1, NewTypes
  <1>3. /\ mgr'.at = "none" /\ mgr'.refs = 1 /\ ~mgr'.exit
        /\ mgr'.fifo = <<>> /\ mgr'.events = <<>> /\ mgr'.bulk = <<>>
        /\ mgr'.flags = {} /\ mgr'.sent = {} /\ mgr'.dropped = {}
        /\ \A s \in Streams : mgr'.timeline[s] = <<>> /\ mgr'.ack[s] \in InitialAcks
    BY <1>1 DEF NewInstance
  <1>4. /\ stream["sql"] = "closed" /\ process' = "up" /\ made' = made + 1 /\ made < MaxManagers
        /\ UNCHANGED <<pending, pos, popped, stored, failed, faults>>
        /\ stream' = [sql |-> "open",
                      storage |-> IF stream["storage"] = "joining" THEN "joining old"
                                                                   ELSE stream["storage"]]
    BY DEF OpenSql, loopVars
  <1>5. overlap' = (overlap \/ mgr.at # "null")
    BY DEF OpenSql
  <1>6. /\ stream'["sql"] = "open"
        /\ stream'["storage"] = IF stream["storage"] = "joining" THEN "joining old"
                                                                 ELSE stream["storage"]
        /\ stream' \in [Streams -> {"closed", "open", "joining", "joining old"}]
    <2>1. stream["storage"] \in {"closed", "open", "joining", "joining old"}
      BY StateTypes
    <2>2. PICK b \in {"closed", "open", "joining", "joining old"} :
             b = IF stream["storage"] = "joining" THEN "joining old"
                                                  ELSE stream["storage"]
      BY <2>1
    <2>3. stream' = [sql |-> "open", storage |-> b]
      BY <1>4, <2>2
    <2>4. "open" \in {"closed", "open", "joining", "joining old"}
      OBVIOUS
    <2> QED BY <2>2, <2>3, <2>4, PairOfStreams
  <1>7. made' \in 0 .. MaxManagers
    <2>1. made \in 0 .. MaxManagers /\ MaxManagers \in Nat
      BY ConstantTypes DEF TypeOK
    <2>2. made' = made + 1 /\ made < MaxManagers
      BY DEF OpenSql
    <2> QED BY <2>1, <2>2
  <1>8. overlap' \in BOOLEAN
    BY <1>5 DEF TypeOK
  <1>9. TypeOK'
    BY <1>2, <1>4, <1>6, <1>7, <1>8 DEF TypeOK
  <1>10. ~overlap' => ~overlap /\ mgr.at = "null"
    BY <1>5
  <1> QED BY <1>3, <1>4, <1>6, <1>9, <1>10

(* What OpenStorage does: it starts the thread, or the process dies.       *)
LEMMA OpenStorageStep ==
    ASSUME TypeOK, Opened, OpenStorage
    PROVE  /\ TypeOK'
           /\ stream["storage"] = "closed" /\ mgr.at # "null"
           /\ stream'["storage"] = "open" /\ stream'["sql"] = stream["sql"]
           /\ UNCHANGED <<pending, pos, popped, made, stored, failed>>
           /\ mgr.at # "none" => mgr' = NoInstance /\ overlap'
           /\ mgr.at = "none" => /\ mgr'.at = "load" /\ mgr'.refs = mgr.refs + 1
                                 /\ mgr'.exit = mgr.exit /\ process' = "up"
                                 /\ SameContent(mgr', mgr)
           /\ ~overlap' => ~overlap /\ ~mgr.exit
  <1>1. /\ stream["storage"] = "closed" /\ mgr.at # "null"
        /\ stream' = [stream EXCEPT !["storage"] = "open"]
        /\ UNCHANGED <<pending, pos, popped, made, stored, failed, faults>>
        /\ process' = IF mgr.at = "none" THEN "up" ELSE "dead"
        /\ mgr' = IF mgr.at = "none" THEN [mgr EXCEPT !.refs = @ + 1, !.at = "load"]
                                     ELSE NoInstance
    BY DEF OpenStorage, loopVars
  <1>2. overlap' = (overlap \/ mgr.at # "none" \/ mgr.exit)
    BY DEF OpenStorage
  <1>3. /\ stream'["storage"] = "open" /\ stream'["sql"] = stream["sql"]
        /\ stream' \in [Streams -> {"closed", "open", "joining", "joining old"}]
    BY <1>1, StateTypes
  <1>4. mgr.refs + 1 \in -1 .. 2
    <2>1. mgr.refs \in {OpenStreams - 1, OpenStreams} /\ OpenStreams \in 0 .. 1
      BY <1>1 DEF Opened, OpenStreams
    <2> QED BY <2>1
  <1>5. mgr' \in Instance
    <2>1. mgr \in Instance /\ "load" \in LoopPoint
      BY DEF TypeOK, LoopPoint
    <2>2. PICK r \in -1 .. 2 : r = mgr.refs + 1
      BY <1>4
    <2>3. [mgr EXCEPT !.refs = r, !.at = "load"] \in Instance
      BY <2>1 DEF Instance
    <2> QED BY <1>1, <2>2, <2>3, NoInstanceFields
  <1>6. mgr.at = "none" => /\ mgr'.at = "load" /\ mgr'.refs = mgr.refs + 1
                           /\ mgr'.exit = mgr.exit /\ process' = "up"
                           /\ SameContent(mgr', mgr)
    BY <1>1, StateTypes DEF Instance, SameContent
  <1>7. /\ overlap' \in BOOLEAN /\ (mgr.at # "none" => overlap')
        /\ ~overlap' => ~overlap /\ ~mgr.exit
    BY <1>2 DEF TypeOK
  <1>8. TypeOK'
    BY <1>1, <1>3, <1>5, <1>7 DEF TypeOK
  <1> QED BY <1>1, <1>3, <1>6, <1>7, <1>8

(* What Write does: one more event in the fifo and on the timeline.        *)
LEMMA WriteStep ==
    ASSUME TypeOK, NEW s \in Streams, Write(s)
    PROVE  /\ TypeOK'
           /\ stream[s] = "open" /\ mgr.at # "null" /\ <<s, pos[s] + 1>> \in Event
           /\ mgr'.fifo = Append(mgr.fifo, <<s, pos[s] + 1>>)
           /\ mgr'.timeline = [mgr.timeline EXCEPT ![s] = Append(@, <<s, pos[s] + 1>>)]
           /\ mgr'.ack = [mgr.ack EXCEPT ![s] = 0]
           /\ mgr'.at = mgr.at /\ mgr'.refs = mgr.refs /\ mgr'.exit = mgr.exit
           /\ mgr'.events = mgr.events /\ mgr'.bulk = mgr.bulk /\ mgr'.perfdata = mgr.perfdata
           /\ mgr'.flags = mgr.flags /\ mgr'.dropped = mgr.dropped /\ mgr'.sent = mgr.sent
           /\ mgr'.db = mgr.db /\ mgr'.broken = mgr.broken
           /\ pos' = [pos EXCEPT ![s] = @ + 1]
           /\ pending' = [pending EXCEPT ![s] = @ + 1 - mgr.ack[s]]
           /\ popped' = [popped EXCEPT ![s] = IF @ + mgr.ack[s] <= pos[s] + 1
                                              THEN @ + mgr.ack[s] ELSE pos[s] + 1]
           /\ UNCHANGED <<stream, process, overlap, made, stored, failed>>
  <1>1. /\ stream[s] = "open" /\ mgr.at # "null" /\ pos[s] < Total[s]
        /\ pos' = [pos EXCEPT ![s] = @ + 1]
        /\ UNCHANGED <<stream, process, overlap, made, stored, failed, faults>>
        /\ Release(s, mgr.ack[s])
    BY DEF Write, loopVars
  <1>2. /\ pos'[s] = pos[s] + 1 /\ pos[s] \in Nat /\ popped[s] \in Nat /\ mgr.ack[s] \in Nat
        /\ pending[s] \in Int /\ Total[s] \in Nat /\ popped[s] <= pos[s]
    <2>1. mgr.ack \in [Streams -> Nat]
      BY StateTypes, FieldTypes
    <2>2. Total[s] \in Nat
      BY EventTypes
    <2> QED BY <1>1, <2>1, <2>2, StateTypes
  <1>3. PICK e \in Event : e = <<s, pos[s] + 1>>
    <2>1. pos[s] + 1 \in 1 .. Total[s]
      BY <1>1, <1>2
    <2> QED BY <2>1, EventTypes
  <1>4. mgr' = [mgr EXCEPT !.fifo = Append(@, e), !.timeline[s] = Append(@, e), !.ack[s] = 0]
    BY <1>2, <1>3 DEF Write
  <1>5. PICK f \in Seq(Event), t \in [Streams -> Seq(Event)], a \in [Streams -> Nat] :
           /\ f = Append(mgr.fifo, e)
           /\ t = [mgr.timeline EXCEPT ![s] = Append(@, e)]
           /\ a = [mgr.ack EXCEPT ![s] = 0]
    <2>1. /\ mgr.fifo \in Seq(Event) /\ mgr.timeline \in [Streams -> Seq(Event)]
          /\ mgr.ack \in [Streams -> Nat]
      BY StateTypes, FieldTypes
    <2>2. Append(mgr.fifo, e) \in Seq(Event)
      BY <2>1
    <2>3. [mgr.timeline EXCEPT ![s] = Append(@, e)] \in [Streams -> Seq(Event)]
      BY <2>1
    <2>4. [mgr.ack EXCEPT ![s] = 0] \in [Streams -> Nat]
      BY <2>1
    <2> QED BY <2>2, <2>3, <2>4
  <1>6. mgr' = [mgr EXCEPT !.fifo = f, !.timeline = t, !.ack = a]
    BY <1>4, <1>5, StateTypes DEF Instance
  <1>7. /\ mgr' \in Instance
        /\ mgr'.fifo = f /\ mgr'.timeline = t /\ mgr'.ack = a
        /\ mgr'.at = mgr.at /\ mgr'.refs = mgr.refs /\ mgr'.exit = mgr.exit
        /\ mgr'.events = mgr.events /\ mgr'.bulk = mgr.bulk /\ mgr'.perfdata = mgr.perfdata
        /\ mgr'.flags = mgr.flags /\ mgr'.dropped = mgr.dropped /\ mgr'.sent = mgr.sent
        /\ mgr'.db = mgr.db /\ mgr'.broken = mgr.broken
    BY <1>6, StateTypes DEF Instance
  <1>8. /\ pending' = [pending EXCEPT ![s] = @ + 1 - mgr.ack[s]]
        /\ popped' = [popped EXCEPT ![s] = IF @ + mgr.ack[s] <= pos[s] + 1
                                           THEN @ + mgr.ack[s] ELSE pos[s] + 1]
    <2>1. (pos'[s] - pos[s]) = 1
      BY <1>2
    <2> QED BY <1>1, <1>2, <2>1 DEF Release
  <1>9. /\ pos' \in [Streams -> Nat] /\ popped' \in [Streams -> Nat]
        /\ pending' \in [Streams -> Int]
        /\ \A r \in Streams : popped'[r] <= pos'[r] /\ pos'[r] <= Total[r]
    <2>1. \A r \in Streams : r # s => pos'[r] = pos[r] /\ popped'[r] = popped[r]
      BY <1>1, <1>8, StateTypes
    <2>2. popped'[s] = IF popped[s] + mgr.ack[s] <= pos[s] + 1
                       THEN popped[s] + mgr.ack[s] ELSE pos[s] + 1
      BY <1>8, StateTypes
    <2>3. popped'[s] <= pos'[s] /\ pos'[s] <= Total[s] /\ popped'[s] \in Nat
      BY <1>1, <1>2, <2>2
    <2>4. \A r \in Streams : popped'[r] <= pos'[r] /\ pos'[r] <= Total[r]
      BY <2>1, <2>3, StateTypes
    <2>5. pos' \in [Streams -> Nat]
      <3>1. PICK v \in Nat : v = pos[s] + 1
        BY <1>2
      <3>2. pos' = [pos EXCEPT ![s] = v]
        BY <1>1, <3>1
      <3> QED BY <3>2, StateTypes, ExceptType
    <2>6. popped' \in [Streams -> Nat]
      <3>1. PICK v \in Nat : v = IF popped[s] + mgr.ack[s] <= pos[s] + 1
                                  THEN popped[s] + mgr.ack[s] ELSE pos[s] + 1
        BY <1>2
      <3>2. popped' = [popped EXCEPT ![s] = v]
        BY <1>8, <3>1
      <3> QED BY <3>2, StateTypes, ExceptType
    <2>7. pending' \in [Streams -> Int]
      <3>1. PICK v \in Int : v = pending[s] + 1 - mgr.ack[s]
        BY <1>2
      <3>2. pending' = [pending EXCEPT ![s] = v]
        BY <1>8, <3>1
      <3> QED BY <3>2, StateTypes, ExceptType
    <2> QED BY <2>4, <2>5, <2>6, <2>7
  <1>10. TypeOK'
    BY <1>1, <1>7, <1>9 DEF TypeOK
  <1> QED BY <1>1, <1>3, <1>5, <1>7, <1>8, <1>10

(* What Flush does: the acknowledgements are taken.                        *)
LEMMA FlushStep ==
    ASSUME TypeOK, NEW s \in Streams, Flush(s)
    PROVE  /\ TypeOK'
           /\ stream[s] = "open" /\ mgr.at # "null"
           /\ mgr'.ack = [mgr.ack EXCEPT ![s] = 0]
           /\ mgr'.fifo = mgr.fifo /\ mgr'.timeline = mgr.timeline
           /\ mgr'.at = mgr.at /\ mgr'.refs = mgr.refs /\ mgr'.exit = mgr.exit
           /\ mgr'.events = mgr.events /\ mgr'.bulk = mgr.bulk /\ mgr'.perfdata = mgr.perfdata
           /\ mgr'.flags = mgr.flags /\ mgr'.dropped = mgr.dropped /\ mgr'.sent = mgr.sent
           /\ mgr'.db = mgr.db /\ mgr'.broken = mgr.broken
           /\ pending' = [pending EXCEPT ![s] = @ - mgr.ack[s]]
           /\ popped' = [popped EXCEPT ![s] = IF @ + mgr.ack[s] <= pos[s]
                                              THEN @ + mgr.ack[s] ELSE pos[s]]
           /\ UNCHANGED <<stream, pos, process, overlap, made, stored, failed>>
  <1>1. /\ stream[s] = "open" /\ mgr.at # "null" /\ pos' = pos
        /\ UNCHANGED <<stream, process, overlap, made, stored, failed, faults>>
        /\ mgr' = [mgr EXCEPT !.ack[s] = 0]
        /\ Release(s, mgr.ack[s])
    BY DEF Flush, loopVars
  <1>2. /\ pos[s] \in Nat /\ popped[s] \in Nat /\ mgr.ack[s] \in Nat
        /\ pending[s] \in Int /\ popped[s] <= pos[s]
    BY <1>1, StateTypes, FieldTypes
  <1>3. PICK a \in [Streams -> Nat] : a = [mgr.ack EXCEPT ![s] = 0]
    BY StateTypes, FieldTypes
  <1>4. mgr' = [mgr EXCEPT !.ack = a]
    BY <1>1, <1>3, StateTypes DEF Instance
  <1>5. /\ mgr' \in Instance /\ mgr'.ack = a
        /\ mgr'.fifo = mgr.fifo /\ mgr'.timeline = mgr.timeline
        /\ mgr'.at = mgr.at /\ mgr'.refs = mgr.refs /\ mgr'.exit = mgr.exit
        /\ mgr'.events = mgr.events /\ mgr'.bulk = mgr.bulk /\ mgr'.perfdata = mgr.perfdata
        /\ mgr'.flags = mgr.flags /\ mgr'.dropped = mgr.dropped /\ mgr'.sent = mgr.sent
        /\ mgr'.db = mgr.db /\ mgr'.broken = mgr.broken
    BY <1>4, StateTypes DEF Instance
  <1>6. /\ pending' = [pending EXCEPT ![s] = @ - mgr.ack[s]]
        /\ popped' = [popped EXCEPT ![s] = IF @ + mgr.ack[s] <= pos[s]
                                           THEN @ + mgr.ack[s] ELSE pos[s]]
    <2>1. pending[s] + (pos'[s] - pos[s]) - mgr.ack[s] = pending[s] - mgr.ack[s]
      BY <1>1, <1>2
    <2> QED BY <1>1, <2>1 DEF Release
  <1>7. /\ popped' \in [Streams -> Nat] /\ pending' \in [Streams -> Int]
        /\ \A r \in Streams : popped'[r] <= pos[r]
    <2>1. \A r \in Streams : r # s => popped'[r] = popped[r]
      BY <1>6, StateTypes
    <2>2. popped'[s] = IF popped[s] + mgr.ack[s] <= pos[s]
                       THEN popped[s] + mgr.ack[s] ELSE pos[s]
      BY <1>6, StateTypes
    <2>3. popped'[s] <= pos[s] /\ popped'[s] \in Nat
      BY <1>2, <2>2
    <2>4. \A r \in Streams : popped'[r] <= pos[r]
      BY <2>1, <2>3, StateTypes
    <2>5. popped' \in [Streams -> Nat]
      <3>1. PICK v \in Nat : v = IF popped[s] + mgr.ack[s] <= pos[s]
                                  THEN popped[s] + mgr.ack[s] ELSE pos[s]
        BY <1>2
      <3>2. popped' = [popped EXCEPT ![s] = v]
        BY <1>6, <3>1
      <3> QED BY <3>2, StateTypes, ExceptType
    <2>6. pending' \in [Streams -> Int]
      <3>1. PICK v \in Int : v = pending[s] - mgr.ack[s]
        BY <1>2
      <3>2. pending' = [pending EXCEPT ![s] = v]
        BY <1>6, <3>1
      <3> QED BY <3>2, StateTypes, ExceptType
    <2> QED BY <2>4, <2>5, <2>6
  <1>8. TypeOK'
    BY <1>1, <1>5, <1>7 DEF TypeOK
  <1> QED BY <1>1, <1>3, <1>5, <1>6, <1>8

(* What Unload does: one user less; the last one asks for the exit.        *)
LEMMA UnloadStep ==
    ASSUME TypeOK, Opened, NEW s \in Streams, Unload(s)
    PROVE  /\ TypeOK'
           /\ stream[s] = "open"
           /\ mgr.at = "null" => mgr' = mgr /\ stream'[s] = "closed"
           /\ mgr.at # "null" =>
                /\ mgr'.refs = mgr.refs - 1 /\ mgr'.at = mgr.at
                /\ mgr'.exit <=> mgr.exit \/ mgr.refs = 1
                /\ SameContent(mgr', mgr)
                /\ stream'[s] = IF mgr.refs = 1 THEN "joining" ELSE "closed"
           /\ \A r \in Streams : r # s => stream'[r] = stream[r]
           /\ pending' = [pending EXCEPT ![s] = 0]
           /\ pos' = [pos EXCEPT ![s] = popped[s]]
           /\ UNCHANGED <<popped, process, overlap, made, stored, failed>>
  <1>1. /\ stream[s] = "open"
        /\ pending' = [pending EXCEPT ![s] = 0]
        /\ pos' = [pos EXCEPT ![s] = popped[s]]
        /\ UNCHANGED <<popped, process, overlap, made, stored, failed, faults>>
        /\ mgr.at = "null" => mgr' = mgr /\ stream' = [stream EXCEPT ![s] = "closed"]
        /\ mgr.at # "null" =>
             stream' = [stream EXCEPT ![s] = IF mgr.refs = 1 THEN "joining" ELSE "closed"]
    BY DEF Unload, loopVars
  <1>2. mgr.at # "null" =>
          mgr' = [mgr EXCEPT !.refs = @ - 1,
                             !.exit = @ \/ (mgr.at # "null" /\ mgr.refs = 1)]
    BY DEF Unload
  <1>3. mgr.at # "null" => mgr.refs - 1 \in -1 .. 2
    <2>1. mgr.at # "null" => mgr.refs \in {OpenStreams - 1, OpenStreams}
      BY DEF Opened
    <2>2. stream["sql"] = "open" \/ stream["storage"] = "open"
      BY <1>1, StateTypes
    <2>3. OpenStreams \in 1 .. 2
      BY <2>2 DEF OpenStreams
    <2> QED BY <2>1, <2>3
  <1>4. mgr' \in Instance
    <2>1. CASE mgr.at = "null"
      BY <1>1, <2>1, StateTypes
    <2>2. CASE mgr.at # "null"
      <3>1. PICK r \in -1 .. 2 : r = mgr.refs - 1
        BY <1>3, <2>2
      <3>2. PICK x \in BOOLEAN : x = (mgr.exit \/ (mgr.at # "null" /\ mgr.refs = 1))
        OBVIOUS
      <3>3. mgr' = [mgr EXCEPT !.refs = r, !.exit = x]
        BY <1>2, <2>2, <3>1, <3>2
      <3> QED BY <3>3, StateTypes DEF Instance
    <2> QED BY <2>1, <2>2
  <1>5. mgr.at # "null" => /\ mgr'.refs = mgr.refs - 1 /\ mgr'.at = mgr.at
                           /\ SameContent(mgr', mgr)
    BY <1>2, StateTypes DEF Instance, SameContent
  <1>6. mgr.at # "null" => (mgr'.exit <=> mgr.exit \/ mgr.refs = 1)
    BY <1>2, StateTypes DEF Instance
  <1>7. /\ mgr.at = "null" => stream'[s] = "closed"
        /\ mgr.at # "null" => stream'[s] = IF mgr.refs = 1 THEN "joining" ELSE "closed"
        /\ \A r \in Streams : r # s => stream'[r] = stream[r]
        /\ stream' \in [Streams -> {"closed", "open", "joining", "joining old"}]
    BY <1>1, StateTypes
  <1>8. /\ pos' \in [Streams -> Nat] /\ pending' \in [Streams -> Int]
        /\ \A r \in Streams : popped[r] <= pos'[r] /\ pos'[r] <= Total[r]
    <2>1. popped[s] \in Nat /\ popped[s] <= pos[s] /\ pos[s] <= Total[s] /\ pos[s] \in Nat
          /\ Total[s] \in Nat
      BY StateTypes, EventTypes
    <2>2. \A r \in Streams : pos'[r] = IF r = s THEN popped[s] ELSE pos[r]
      BY <1>1, StateTypes
    <2>3. \A r \in Streams : popped[r] <= pos'[r] /\ pos'[r] <= Total[r]
      <3>1. popped[s] <= pos'[s] /\ pos'[s] <= Total[s]
        BY <2>1, <2>2
      <3>2. \A r \in Streams : r # s => pos'[r] = pos[r]
        BY <2>2
      <3> QED BY <3>1, <3>2, StateTypes
    <2>4. pos' \in [Streams -> Nat]
      BY <1>1, <2>1, StateTypes
    <2>5. pending' \in [Streams -> Int]
      <3>1. 0 \in Int
        OBVIOUS
      <3> QED BY <1>1, <3>1, StateTypes, ExceptType
    <2> QED BY <2>3, <2>4, <2>5
  <1>9. TypeOK'
    BY <1>1, <1>4, <1>7, <1>8 DEF TypeOK
  <1> QED BY <1>1, <1>5, <1>6, <1>7, <1>9

(* What Join does: the instance is deleted, after its commit.              *)
LEMMA JoinStep ==
    ASSUME TypeOK, NEW s \in Streams, Join(s)
    PROVE  /\ TypeOK'
           /\ mgr' = NoInstance /\ stored' = stored \union mgr.sent
           /\ stream[s] \in {"joining", "joining old"}
           /\ stream[s] = "joining" =>
                process' = "up" /\ mgr.at \in {"none", "done", "null"}
           /\ stream'[s] = "closed"
           /\ \A r \in Streams : r # s => stream'[r] = stream[r]
           /\ UNCHANGED <<pending, pos, popped, overlap, made, failed>>
  <1>1. /\ mgr' = NoInstance /\ stored' = stored \union mgr.sent
        /\ stream[s] \in {"joining", "joining old"}
        /\ stream[s] = "joining" => process' = "up" /\ mgr.at \in {"none", "done", "null"}
        /\ stream' = [stream EXCEPT ![s] = "closed"]
        /\ process' \in {"up", "dead"}
        /\ UNCHANGED <<pending, pos, popped, overlap, made, failed, faults>>
    BY DEF Join
  <1>2. /\ stream'[s] = "closed" /\ \A r \in Streams : r # s => stream'[r] = stream[r]
        /\ stream' \in [Streams -> {"closed", "open", "joining", "joining old"}]
    BY <1>1, StateTypes
  <1>3. mgr.sent \subseteq Event
    BY StateTypes, FieldTypes
  <1>4. TypeOK'
    BY <1>1, <1>2, <1>3, NoInstanceFields DEF TypeOK
  <1> QED BY <1>1, <1>2, <1>4

(* write() or flush() without an instance. *)
LEMMA NullInstanceStep ==
    ASSUME TypeOK, NEW s \in Streams, NullInstance(s)
    PROVE  /\ TypeOK'
           /\ mgr.at = "null" /\ stream[s] = "open"
           /\ UNCHANGED <<mgr, stream, pending, pos, popped, overlap, made, stored, failed>>
  BY DEF NullInstance, TypeOK, loopVars

-----------------------------------------------------------------------------
(* The invariant under the calls of the streams. *)

(* A new instance has counted nothing, and its timelines are empty.        *)
LEMMA OpenSqlInd ==
    ASSUME ManagerInd, OpenSql PROVE ManagerInd'
  <1> USE DEF ManagerInd
  <1>1. /\ TypeOK'
        /\ stream["sql"] = "closed" /\ process' = "up"
        /\ mgr'.at = "none" /\ mgr'.refs = 1 /\ ~mgr'.exit
        /\ mgr'.fifo = <<>> /\ mgr'.events = <<>> /\ mgr'.bulk = <<>>
        /\ mgr'.flags = {} /\ mgr'.sent = {} /\ mgr'.dropped = {}
        /\ \A s \in Streams : mgr'.timeline[s] = <<>> /\ mgr'.ack[s] \in InitialAcks
        /\ made' = made + 1
        /\ stream'["sql"] = "open"
        /\ stream'["storage"] = IF stream["storage"] = "joining" THEN "joining old"
                                                                 ELSE stream["storage"]
        /\ UNCHANGED <<pending, pos, popped, stored, failed>>
        /\ ~overlap' => ~overlap /\ mgr.at = "null"
    BY OpenSqlStep
  <1>2. made \in Nat /\ Streams = {"sql", "storage"}
    BY StateTypes DEF Streams
  <1>3. ~overlap' \/ made' = 1 =>
          /\ ~overlap /\ mgr = NoInstance
          /\ \A s \in Streams : stream[s] = "closed" /\ pos[s] = popped[s] /\ pending[s] = 0
    <2>1. made' = 1 => made = 0
      <3>1. made' = made + 1
        BY <1>1
      <3> QED BY <1>2, <3>1
    <2>2. ~overlap' \/ made' = 1 => ~overlap /\ mgr.at = "null"
      BY <1>1, <2>1 DEF Opened
    <2> QED BY <2>2 DEF Alone, Opened
  <1>4. Opened'
    <2>1. OpenStreams' \in 1 .. 2
      <3>1. stream'["sql"] = "open"
        BY <1>1
      <3> QED BY <3>1 DEF OpenStreams
    <2>2. \A s \in Streams : stream'[s] # "open" => stream[s] # "open"
      BY <1>1, <1>2
    <2>3. mgr'.at # "null" /\ mgr'.refs \in {OpenStreams' - 1, OpenStreams'}
      <3>1. mgr'.at = "none" /\ mgr'.refs = 1
        BY <1>1
      <3> QED BY <2>1, <3>1
    <2>4. made' # 0
      <3>1. made' = made + 1
        BY <1>1
      <3> QED BY <1>2, <3>1
    <2> QED BY <1>1, <2>2, <2>3, <2>4 DEF Opened
  <1>5. Alone'
    <2> SUFFICES ASSUME ~overlap' PROVE Alone'
      BY DEF Alone
    <2>1. stream'["storage"] = "closed" /\ stream'["sql"] = "open"
      BY <1>1, <1>2, <1>3
    <2>2. OpenStreams' = 1
      BY <2>1 DEF OpenStreams
    <2> QED BY <1>1, <1>2, <2>1, <2>2 DEF Alone
  <1>6. Taken' /\ Flagged'
    BY <1>1 DEF Taken, Flagged
  <1>7. Waiting'
    <2>1. ToSet(<<>>) = {}
      BY DEF ToSet
    <2> QED BY <1>1, <2>1 DEF Waiting
  <1>8. Zeroed => \A s \in Streams : mgr'.ack[s] = 0 /\ Len(mgr'.timeline[s]) = 0
    <2>1. \A s \in Streams : mgr'.timeline[s] = <<>> /\ mgr'.ack[s] \in InitialAcks
      BY <1>1
    <2> QED BY <2>1 DEF Zeroed
  <1>9. Numbered'
    <2> SUFFICES ASSUME Known' PROVE Numbered'
      BY DEF Numbered
    <2>1. Zeroed /\ (~overlap' \/ made' = 1)
      BY DEF Known, Zeroed
    <2>2. stream'["storage"] = "closed"
      BY <1>1, <1>2, <1>3, <2>1
    <2>3. ASSUME NEW s \in Streams PROVE Counts(s)'
      <3>1. popped[s] \in Nat /\ pos[s] = popped[s] /\ pending[s] = 0
        BY <1>3, <2>1, StateTypes
      <3>2. mgr'.ack[s] = 0 /\ Len(mgr'.timeline[s]) = 0
        BY <1>8, <2>1
      <3>3. pos'[s] = popped'[s] /\ pending'[s] = 0 /\ popped'[s] \in Nat
        BY <1>1, <3>1
      <3> QED BY <3>2, <3>3 DEF Counts
    <2>4. mgr'.timeline["storage"] = <<>> /\ mgr'.ack["storage"] = 0
      BY <1>1, <1>2, <1>8, <2>1
    <2> QED BY <2>2, <2>3, <2>4 DEF Numbered
  <1>10. Counted'
    <2> SUFFICES ASSUME Zeroed, ~overlap', NEW e \in Event,
                        e[2] <= popped'[e[1]] + mgr'.ack[e[1]]
                 PROVE  e \in Safe'
      BY DEF Counted, Zeroed
    <2>1. e[1] \in Streams /\ mgr'.ack[e[1]] = 0
      BY <1>8, EventTypes
    <2>2. ~overlap /\ mgr.ack[e[1]] = 0
      BY <1>3, <2>1, NoInstanceFields
    <2>3. e \in Safe
      BY <1>1, <2>1, <2>2 DEF Counted
    <2> QED BY <1>1, <2>3 DEF Safe
  <1>11. PerfdataThere'
    <2> SUFFICES ASSUME Zeroed, made' = 1, NEW e \in Perfdata PROVE
                   ~(e \in mgr'.flags \/ e[2] <= popped'["storage"] + mgr'.ack["storage"])
      BY DEF PerfdataThere, Zeroed
    <2>1. popped["storage"] = 0 /\ mgr'.ack["storage"] = 0
      <3>1. made = 0
        <4>1. made' = made + 1
          BY <1>1
        <4> QED BY <1>2, <4>1
      <3> QED BY <1>2, <1>8, <3>1 DEF Opened
    <2>2. e[2] \in Nat /\ e[2] >= 1
      <3>1. e[2] \in 1 .. Total[e[1]] /\ Total[e[1]] \in Nat
        BY EventTypes, PerfdataTypes
      <3> QED BY <3>1
    <2>3. mgr'.flags = {} /\ popped'["storage"] = 0
      BY <1>1, <2>1
    <2> QED BY <2>1, <2>2, <2>3
  <1>12. Drained'
    BY <1>1 DEF Drained
  <1> QED BY <1>1, <1>4, <1>5, <1>6, <1>7, <1>9, <1>10, <1>11, <1>12

(* Without an instance nothing is counted, flagged or sent. *)
LEMMA NoInstanceHolds ==
    ASSUME TypeOK', mgr' = NoInstance
    PROVE  /\ Taken' /\ Waiting' /\ Numbered' /\ Flagged' /\ PerfdataThere' /\ Drained'
           /\ \A s \in Streams : mgr'.ack[s] = 0
  <1>1. /\ mgr'.at = "null" /\ mgr'.flags = {} /\ mgr'.sent = {} /\ mgr'.events = <<>>
        /\ \A s \in Streams : mgr'.timeline[s] = <<>> /\ mgr'.ack[s] = 0
    BY NoInstanceFields
  <1>2. ToSet(<<>>) = {}
    BY DEF ToSet
  <1>3. Taken' /\ Flagged' /\ Drained'
    BY <1>1 DEF Taken, Flagged, Drained
  <1>4. Waiting'
    BY <1>1, <1>2 DEF Waiting
  <1>5. Numbered' /\ PerfdataThere'
    BY <1>1 DEF Numbered, Known, PerfdataThere
  <1> QED BY <1>1, <1>3, <1>4, <1>5

(* The storage stream starts where its muxer is, with an empty timeline.   *)
LEMMA OpenStorageInd ==
    ASSUME ManagerInd, OpenStorage PROVE ManagerInd'
  <1> USE DEF ManagerInd
  <1>1. /\ TypeOK'
        /\ stream["storage"] = "closed" /\ mgr.at # "null"
        /\ stream'["storage"] = "open" /\ stream'["sql"] = stream["sql"]
        /\ UNCHANGED <<pending, pos, popped, made, stored, failed>>
        /\ mgr.at # "none" => mgr' = NoInstance /\ overlap'
        /\ mgr.at = "none" => /\ mgr'.at = "load" /\ mgr'.refs = mgr.refs + 1
                              /\ mgr'.exit = mgr.exit /\ process' = "up"
                              /\ SameContent(mgr', mgr)
        /\ ~overlap' => ~overlap /\ ~mgr.exit
    BY OpenStorageStep
  <1>2. /\ \A s \in Streams : stream'[s] # "open" => pos'[s] = popped'[s] /\ pending'[s] = 0
        /\ made' # 0
    <2>1. \A s \in Streams : stream'[s] # "open" => stream[s] # "open"
      BY <1>1, StateTypes
    <2> QED BY <1>1, <2>1 DEF Opened
  <1>3. CASE mgr.at # "none"
    <2>1. mgr' = NoInstance /\ overlap'
      BY <1>1, <1>3
    <2>2. mgr'.at = "null"
      BY <2>1, NoInstanceFields
    <2>3. Opened' /\ Alone' /\ Counted'
      BY <1>2, <2>1, <2>2 DEF Opened, Alone, Counted
    <2> QED BY <1>1, <2>1, <2>3, NoInstanceHolds
  <1>4. CASE mgr.at = "none"
    <2>1. /\ mgr'.at = "load" /\ mgr'.refs = mgr.refs + 1 /\ mgr'.exit = mgr.exit
          /\ process' = "up" /\ SameContent(mgr', mgr)
      BY <1>1, <1>4
    <2>2. OpenStreams' = OpenStreams + 1 /\ OpenStreams \in 0 .. 1
      BY <1>1 DEF OpenStreams
    <2>3. mgr'.refs \in {OpenStreams' - 1, OpenStreams'}
      <3>1. mgr.refs \in {OpenStreams - 1, OpenStreams}
        BY <1>1 DEF Opened
      <3>2. mgr'.refs = mgr.refs + 1
        BY <2>1
      <3> QED BY <2>2, <3>1, <3>2
    <2>4. Opened'
      BY <1>2, <2>1, <2>3 DEF Opened
    <2>5. Alone'
      <3> SUFFICES ASSUME ~overlap' PROVE Alone'
        BY DEF Alone
      <3>1. ~overlap /\ ~mgr.exit
        BY <1>1
      <3>2. \A s \in Streams : stream'[s] # "joining old" /\ stream'[s] # "joining"
        <4>1. \A s \in Streams : stream[s] # "joining old" /\ stream[s] # "joining"
          BY <1>1, <3>1 DEF Alone
        <4> QED BY <1>1, <4>1, StateTypes
      <3>3. mgr'.refs = OpenStreams'
        <4>1. mgr.refs = OpenStreams
          BY <1>1, <3>1 DEF Alone
        <4>2. mgr'.refs = mgr.refs + 1
          BY <2>1
        <4> QED BY <2>2, <4>1, <4>2
      <3>4. ~mgr'.exit /\ mgr'.at # "null" /\ process' = "up" /\ stream'["storage"] = "open"
        BY <1>1, <2>1, <3>1
      <3> QED BY <3>2, <3>3, <3>4, StateTypes DEF Alone
    <2>6. Taken'
      BY <1>4, <2>1 DEF Taken, SameContent
    <2>7. Waiting'
      BY <2>1 DEF Waiting, Held, SameContent
    <2>8. Numbered'
      <3> SUFFICES ASSUME Known' PROVE \A s \in Streams : Counts(s)'
        BY <2>1 DEF Numbered
      <3>1. Known
        BY <1>1 DEF Known, Zeroed
      <3>2. mgr.timeline["storage"] = <<>> /\ mgr.ack["storage"] = 0
        BY <1>4, <3>1 DEF Numbered
      <3>3. ASSUME NEW s \in Streams PROVE Counts(s)'
        <4>1. Counts(s)
          BY <3>1 DEF Numbered
        <4>2. CASE s = "sql"
          BY <1>1, <2>1, <4>1, <4>2 DEF Counts, SameContent
        <4>3. CASE s = "storage"
          <5>1. popped'[s] \in Nat /\ pos'[s] = popped'[s] /\ pending'[s] = 0
            BY <1>1, <4>3, StateTypes DEF Opened
          <5>2. mgr'.ack[s] = 0 /\ mgr'.timeline[s] = <<>>
            BY <2>1, <3>2, <4>3 DEF SameContent
          <5> QED BY <5>1, <5>2 DEF Counts
        <4> QED BY <4>2, <4>3, StateTypes
      <3> QED BY <3>3
    <2>9. Flagged' /\ Counted' /\ PerfdataThere'
      <3>1. Safe' = Safe /\ Here' = Here /\ (Live' => Live)
        BY <1>1, <2>1 DEF Safe, Here, Live, SameContent
      <3>2. mgr'.flags = mgr.flags /\ mgr'.sent = mgr.sent /\ mgr'.ack = mgr.ack
            /\ mgr'.db = mgr.db
        BY <2>1 DEF SameContent
      <3>3. Flagged'
        BY <3>1, <3>2 DEF Flagged
      <3>4. Counted'
        BY <1>1, <3>1, <3>2 DEF Counted, Zeroed
      <3>5. PerfdataThere'
        BY <1>1, <3>1, <3>2 DEF PerfdataThere, Zeroed
      <3> QED BY <3>3, <3>4, <3>5
    <2>10. Drained'
      <3>1. mgr.at \in Between
        BY <1>4 DEF Between
      <3> QED BY <2>1, <3>1 DEF Drained, SameContent
    <2> QED BY <1>1, <2>4, <2>5, <2>6, <2>7, <2>8, <2>9, <2>10
  <1> QED BY <1>3, <1>4

(* write() or flush() without an instance changes no event.                *)
LEMMA NullInstanceInd ==
    ASSUME ManagerInd, NEW s \in Streams, NullInstance(s) PROVE ManagerInd'
  <1> USE DEF ManagerInd
  <1>1. /\ TypeOK'
        /\ mgr.at = "null" /\ stream[s] = "open"
        /\ UNCHANGED <<mgr, stream, pending, pos, popped, overlap, made, stored, failed>>
    BY NullInstanceStep
  <1>2. overlap
    BY <1>1 DEF Alone
  <1>3. Alone' /\ Counted'
    BY <1>1, <1>2 DEF Alone, Counted
  <1>4. Opened'
    BY <1>1 DEF Opened, OpenStreams
  <1> QED BY <1>1, <1>3, <1>4, NoInstanceHolds DEF Opened

(* What was counted stays safe when a stream takes its acknowledgements.   *)
LEMMA ReleaseKeeps ==
    ASSUME TypeOK, TypeOK', Counted, PerfdataThere, NEW s \in Streams,
           mgr'.ack = [mgr.ack EXCEPT ![s] = 0],
           \A r \in Streams : popped'[r] + mgr'.ack[r] <= popped[r] + mgr.ack[r],
           mgr'.at = mgr.at, mgr'.flags = mgr.flags, mgr'.sent = mgr.sent,
           mgr'.perfdata = mgr.perfdata, mgr'.db = mgr.db,
           UNCHANGED <<overlap, made, stored, failed>>
    PROVE  Counted' /\ PerfdataThere'
  <1>1. Safe' = Safe /\ Here' = Here
    BY DEF Safe, Here
  <1>2. \A r \in Streams : /\ popped[r] \in Nat /\ mgr.ack[r] \in Nat
                           /\ popped'[r] \in Nat /\ mgr'.ack[r] \in Nat
    <2>1. \A r \in Streams : popped[r] \in Nat /\ mgr.ack[r] \in Nat
      BY StateTypes, FieldTypes
    <2>2. mgr' \in Instance /\ popped' \in [Streams -> Nat]
      BY DEF TypeOK
    <2>3. mgr'.ack \in [Streams -> Nat]
      BY <2>2, FieldTypes
    <2> QED BY <2>1, <2>2, <2>3
  <1>3. \A e \in Event : e[2] \in Int
    <2> TAKE e \in Event
    <2>1. e[2] \in 1 .. Total[e[1]] /\ Total[e[1]] \in Nat
      BY EventTypes
    <2> QED BY <2>1
  <1>4. \A r \in Streams : \A e \in Event :
          e[2] <= popped'[r] + mgr'.ack[r] => e[2] <= popped[r] + mgr.ack[r]
    BY <1>2, <1>3
  <1>5. Counted'
    BY <1>1, <1>4, EventTypes DEF Counted, Zeroed
  <1>6. PerfdataThere'
    BY <1>1, <1>4, PerfdataTypes, StateTypes DEF PerfdataThere, Zeroed
  <1> QED BY <1>5, <1>6

(* The event written is the one that the timeline waits for.               *)
LEMMA WriteInd ==
    ASSUME ManagerInd, NEW s \in Streams, Write(s) PROVE ManagerInd'
  <1> USE DEF ManagerInd
  <1> DEFINE e == <<s, pos[s] + 1>>
  <1>1. /\ TypeOK'
        /\ stream[s] = "open" /\ mgr.at # "null" /\ e \in Event
        /\ mgr'.fifo = Append(mgr.fifo, e)
        /\ mgr'.timeline = [mgr.timeline EXCEPT ![s] = Append(@, e)]
        /\ mgr'.ack = [mgr.ack EXCEPT ![s] = 0]
        /\ mgr'.at = mgr.at /\ mgr'.refs = mgr.refs /\ mgr'.exit = mgr.exit
        /\ mgr'.events = mgr.events /\ mgr'.bulk = mgr.bulk /\ mgr'.perfdata = mgr.perfdata
        /\ mgr'.flags = mgr.flags /\ mgr'.dropped = mgr.dropped /\ mgr'.sent = mgr.sent
        /\ mgr'.db = mgr.db /\ mgr'.broken = mgr.broken
        /\ pos' = [pos EXCEPT ![s] = @ + 1]
        /\ pending' = [pending EXCEPT ![s] = @ + 1 - mgr.ack[s]]
        /\ popped' = [popped EXCEPT ![s] = IF @ + mgr.ack[s] <= pos[s] + 1
                                           THEN @ + mgr.ack[s] ELSE pos[s] + 1]
        /\ UNCHANGED <<stream, process, overlap, made, stored, failed>>
    BY WriteStep
  <1>2. /\ mgr.fifo \in Seq(Event) /\ mgr.timeline \in [Streams -> Seq(Event)]
        /\ mgr.ack \in [Streams -> Nat] /\ popped \in [Streams -> Nat]
        /\ pos \in [Streams -> Nat] /\ pending \in [Streams -> Int]
    BY StateTypes, FieldTypes
  <1>3. /\ pos'[s] = pos[s] + 1 /\ pending'[s] = pending[s] + 1 - mgr.ack[s]
        /\ popped'[s] = IF popped[s] + mgr.ack[s] <= pos[s] + 1
                        THEN popped[s] + mgr.ack[s] ELSE pos[s] + 1
        /\ mgr'.ack[s] = 0 /\ mgr'.timeline[s] = Append(mgr.timeline[s], e)
        /\ \A r \in Streams : r # s =>
             /\ pos'[r] = pos[r] /\ pending'[r] = pending[r] /\ popped'[r] = popped[r]
             /\ mgr'.ack[r] = mgr.ack[r] /\ mgr'.timeline[r] = mgr.timeline[r]
    BY <1>1, <1>2
  <1>4. Opened'
    <2>1. OpenStreams' = OpenStreams /\ mgr'.at # "null" /\ mgr'.refs = mgr.refs
      BY <1>1 DEF OpenStreams
    <2>2. \A r \in Streams : stream'[r] # "open" => pos'[r] = popped'[r] /\ pending'[r] = 0
      BY <1>1, <1>3 DEF Opened
    <2>3. made' # 0
      BY <1>1 DEF Opened
    <2> QED BY <1>1, <2>1, <2>2, <2>3 DEF Opened
  <1>5. Alone'
    BY <1>1 DEF Alone, OpenStreams
  <1>6. Taken'
    BY <1>1 DEF Taken
  <1>7. Waiting'
    <2>1. ToSet(mgr'.fifo) = ToSet(mgr.fifo) \union {e}
      <3>1. mgr.fifo \in Seq(Event) /\ e \in Event /\ mgr'.fifo = Append(mgr.fifo, e)
        BY <1>1, <1>2
      <3> HIDE DEF e
      <3> QED BY <3>1, ToSetAppend
    <2>2. ToSet(mgr'.timeline[s]) = ToSet(mgr.timeline[s]) \union {e}
      <3>1. /\ mgr.timeline[s] \in Seq(Event) /\ e \in Event
            /\ mgr'.timeline[s] = Append(mgr.timeline[s], e)
        BY <1>1, <1>2, <1>3
      <3> HIDE DEF e
      <3> QED BY <3>1, ToSetAppend
    <2>3. Held' = Held \union {e}
      BY <1>1, <2>1 DEF Held
    <2> QED BY <1>3, <2>2, <2>3 DEF Waiting
  <1>8. Numbered'
    <2> SUFFICES ASSUME Known'
                 PROVE  /\ mgr'.at = "none" => /\ stream'["storage"] = "closed"
                                               /\ mgr'.timeline["storage"] = <<>>
                                               /\ mgr'.ack["storage"] = 0
                        /\ \A r \in Streams : Counts(r)'
      BY DEF Numbered
    <2>1. Known
      BY <1>1 DEF Known, Zeroed
    <2>2. mgr'.at = "none" => /\ stream'["storage"] = "closed"
                              /\ mgr'.timeline["storage"] = <<>>
                              /\ mgr'.ack["storage"] = 0
      BY <1>1, <1>3, <2>1, StateTypes DEF Numbered
    <2>3. \A r \in Streams : r # s => Counts(r)'
      BY <1>1, <1>3, <2>1 DEF Numbered, Counts
    <2>4. Counts(s)'
      <3> DEFINE q == mgr.timeline[s]
      <3>1. /\ \A k \in 1 .. Len(q) : q[k] = <<s, popped[s] + mgr.ack[s] + k>>
            /\ pos[s] = popped[s] + mgr.ack[s] + Len(q)
            /\ pending[s] = mgr.ack[s] + Len(q)
        BY <1>1, <2>1 DEF Numbered, Counts
      <3>2. /\ q \in Seq(Event) /\ Len(q) \in Nat /\ mgr.ack[s] \in Nat
            /\ popped[s] \in Nat
        BY <1>2
      <3>3. popped'[s] = popped[s] + mgr.ack[s]
        <4>1. popped'[s] = IF popped[s] + mgr.ack[s] <= pos[s] + 1
                           THEN popped[s] + mgr.ack[s] ELSE pos[s] + 1
          BY <1>3
        <4> HIDE DEF q
        <4> QED BY <3>1, <3>2, <4>1
      <3>4. /\ Len(mgr'.timeline[s]) = Len(q) + 1 /\ mgr'.timeline[s][Len(q) + 1] = e
            /\ \A k \in 1 .. Len(q) : mgr'.timeline[s][k] = q[k]
        <4>1. mgr'.timeline[s] = Append(q, e) /\ e \in Event /\ q \in Seq(Event)
          BY <1>1, <1>2, <1>3
        <4> HIDE DEF e, q
        <4> QED BY <4>1, ToSetAppend
      <3>4b. pos[s] = popped[s] + mgr.ack[s] + Len(q) /\ pending[s] = mgr.ack[s] + Len(q)
        BY <3>1
      <3>4c. Len(mgr'.timeline[s]) = Len(q) + 1
        BY <3>4
      <3>4a. pos'[s] = pos[s] + 1 /\ pending'[s] = pending[s] + 1 - mgr.ack[s] /\ mgr'.ack[s] = 0
        BY <1>3
      <3>5. ASSUME NEW k \in 1 .. Len(q) + 1
            PROVE  mgr'.timeline[s][k] = <<s, popped'[s] + mgr'.ack[s] + k>>
        <4>1. CASE k = Len(q) + 1
          <5>1. mgr'.timeline[s][k] = e
            BY <3>4, <4>1
          <5>2. pos[s] + 1 = popped'[s] + mgr'.ack[s] + k
            <6> HIDE DEF q
            <6>1. mgr'.ack[s] = 0
              BY <3>4a
            <6> QED BY <3>4b, <3>2, <3>3, <6>1, <4>1
          <5> QED BY <5>1, <5>2
        <4>2. CASE k # Len(q) + 1
          <5>1. k \in 1 .. Len(q)
            BY <3>2, <4>2
          <5>2. mgr'.timeline[s][k] = q[k]
            BY <3>4, <5>1
          <5>3. popped[s] + mgr.ack[s] + k = popped'[s] + mgr'.ack[s] + k
            BY <3>2, <3>3, <3>4a, <5>1
          <5> QED BY <3>1, <5>1, <5>2, <5>3
        <4> QED BY <4>1, <4>2
      <3>6. /\ pos'[s] = popped'[s] + mgr'.ack[s] + Len(mgr'.timeline[s])
            /\ pending'[s] = mgr'.ack[s] + Len(mgr'.timeline[s])
        <4>1. Len(q) \in Nat /\ mgr.ack[s] \in Nat /\ popped[s] \in Nat
          BY <3>2
        <4> HIDE DEF q
        <4> QED BY <3>4b, <4>1, <3>3, <3>4c, <3>4a
      <3> QED BY <3>4, <3>5, <3>6 DEF Counts
    <2> QED BY <2>2, <2>3, <2>4
  <1>9. Flagged'
    BY <1>1 DEF Flagged, Live, Safe
  <1>10. Counted' /\ PerfdataThere'
    <2>1. \A r \in Streams : popped'[r] + mgr'.ack[r] <= popped[r] + mgr.ack[r]
      <3>1. popped[s] \in Nat /\ mgr.ack[s] \in Nat /\ pos[s] \in Nat
        BY <1>2
      <3>2. popped'[s] + mgr'.ack[s] <= popped[s] + mgr.ack[s]
        BY <1>3, <3>1
      <3>3. \A r \in Streams : r # s =>
              popped'[r] + mgr'.ack[r] <= popped[r] + mgr.ack[r]
        <4>1. \A r \in Streams : popped[r] \in Nat /\ mgr.ack[r] \in Nat
          BY <1>2
        <4>2. \A r \in Streams : r # s => popped'[r] = popped[r] /\ mgr'.ack[r] = mgr.ack[r]
          BY <1>3
        <4> QED BY <4>1, <4>2
      <3> QED BY <3>2, <3>3
    <2> QED BY <1>1, <2>1, ReleaseKeeps
  <1>11. Drained'
    <2>1. mgr.at \in {"end", "done"} /\ ~mgr.broken => overlap
      BY <1>1 DEF Alone, Drained
    <2> QED BY <1>1, <2>1 DEF Drained
  <1> QED BY <1>1, <1>4, <1>5, <1>6, <1>7, <1>8, <1>9, <1>10, <1>11

(* What was counted is released.                                           *)
LEMMA FlushInd ==
    ASSUME ManagerInd, NEW s \in Streams, Flush(s) PROVE ManagerInd'
  <1> USE DEF ManagerInd
  <1>1. /\ TypeOK'
        /\ stream[s] = "open" /\ mgr.at # "null"
        /\ mgr'.ack = [mgr.ack EXCEPT ![s] = 0]
        /\ mgr'.fifo = mgr.fifo /\ mgr'.timeline = mgr.timeline
        /\ mgr'.at = mgr.at /\ mgr'.refs = mgr.refs /\ mgr'.exit = mgr.exit
        /\ mgr'.events = mgr.events /\ mgr'.bulk = mgr.bulk /\ mgr'.perfdata = mgr.perfdata
        /\ mgr'.flags = mgr.flags /\ mgr'.dropped = mgr.dropped /\ mgr'.sent = mgr.sent
        /\ mgr'.db = mgr.db /\ mgr'.broken = mgr.broken
        /\ pending' = [pending EXCEPT ![s] = @ - mgr.ack[s]]
        /\ popped' = [popped EXCEPT ![s] = IF @ + mgr.ack[s] <= pos[s]
                                           THEN @ + mgr.ack[s] ELSE pos[s]]
        /\ UNCHANGED <<stream, pos, process, overlap, made, stored, failed>>
    BY FlushStep
  <1>2. /\ mgr.timeline \in [Streams -> Seq(Event)]
        /\ mgr.ack \in [Streams -> Nat] /\ popped \in [Streams -> Nat]
        /\ pos \in [Streams -> Nat] /\ pending \in [Streams -> Int]
    BY StateTypes, FieldTypes
  <1>3. /\ pending'[s] = pending[s] - mgr.ack[s]
        /\ popped'[s] = IF popped[s] + mgr.ack[s] <= pos[s]
                        THEN popped[s] + mgr.ack[s] ELSE pos[s]
        /\ mgr'.ack[s] = 0
        /\ \A r \in Streams : r # s =>
             pending'[r] = pending[r] /\ popped'[r] = popped[r] /\ mgr'.ack[r] = mgr.ack[r]
    BY <1>1, <1>2
  <1>4. Opened'
    <2>1. OpenStreams' = OpenStreams /\ mgr'.at # "null" /\ mgr'.refs = mgr.refs
      BY <1>1 DEF OpenStreams
    <2>2. \A r \in Streams : stream'[r] # "open" => pos'[r] = popped'[r] /\ pending'[r] = 0
      BY <1>1, <1>3 DEF Opened
    <2>3. made' # 0
      BY <1>1 DEF Opened
    <2> QED BY <1>1, <2>1, <2>2, <2>3 DEF Opened
  <1>5. Alone'
    BY <1>1 DEF Alone, OpenStreams
  <1>6. Taken' /\ Waiting' /\ Drained'
    BY <1>1 DEF Taken, Waiting, Held, Drained
  <1>7. Numbered'
    <2> SUFFICES ASSUME Known'
                 PROVE  /\ mgr'.at = "none" => /\ stream'["storage"] = "closed"
                                               /\ mgr'.timeline["storage"] = <<>>
                                               /\ mgr'.ack["storage"] = 0
                        /\ \A r \in Streams : Counts(r)'
      BY DEF Numbered
    <2>1. Known
      BY <1>1 DEF Known, Zeroed
    <2>2. mgr'.at = "none" => /\ stream'["storage"] = "closed"
                              /\ mgr'.timeline["storage"] = <<>>
                              /\ mgr'.ack["storage"] = 0
      BY <1>1, <1>3, <2>1, StateTypes DEF Numbered
    <2>3. \A r \in Streams : r # s => Counts(r)'
      BY <1>1, <1>3, <2>1 DEF Numbered, Counts
    <2>4. Counts(s)'
      <3> DEFINE q == mgr.timeline[s]
      <3>1. /\ \A k \in 1 .. Len(q) : q[k] = <<s, popped[s] + mgr.ack[s] + k>>
            /\ pos[s] = popped[s] + mgr.ack[s] + Len(q)
            /\ pending[s] = mgr.ack[s] + Len(q)
        BY <1>1, <2>1 DEF Numbered, Counts
      <3>2. Len(q) \in Nat /\ mgr.ack[s] \in Nat /\ popped[s] \in Nat
        BY <1>2
      <3>3. popped'[s] = popped[s] + mgr.ack[s] /\ mgr'.ack[s] = 0
        BY <1>3, <3>1, <3>2
      <3>4. ASSUME NEW k \in 1 .. Len(q)
            PROVE  q[k] = <<s, popped'[s] + mgr'.ack[s] + k>>
        <4>1. popped[s] + mgr.ack[s] + k = popped'[s] + mgr'.ack[s] + k
          BY <3>2, <3>3
        <4> QED BY <3>1, <4>1
      <3>5. pos'[s] = popped'[s] + mgr'.ack[s] + Len(q) /\ pending'[s] = mgr'.ack[s] + Len(q)
        <4>1. pos'[s] = pos[s]
          BY <1>1
        <4> QED BY <1>3, <3>1, <3>2, <3>3, <4>1
      <3> QED BY <1>1, <3>4, <3>5 DEF Counts
    <2> QED BY <2>2, <2>3, <2>4
  <1>8. Flagged'
    BY <1>1 DEF Flagged, Live, Safe
  <1>9. Counted' /\ PerfdataThere'
    <2>1. \A r \in Streams : popped'[r] + mgr'.ack[r] <= popped[r] + mgr.ack[r]
      <3>1. popped[s] \in Nat /\ mgr.ack[s] \in Nat /\ pos[s] \in Nat
        BY <1>2
      <3>2. popped'[s] + mgr'.ack[s] <= popped[s] + mgr.ack[s]
        BY <1>3, <3>1
      <3>3. \A r \in Streams : r # s =>
              popped'[r] + mgr'.ack[r] <= popped[r] + mgr.ack[r]
        BY <1>2, <1>3
      <3> QED BY <3>2, <3>3
    <2> QED BY <1>1, <2>1, ReleaseKeeps
  <1> QED BY <1>1, <1>4, <1>5, <1>6, <1>7, <1>8, <1>9

(* The rewound muxer starts again behind what it has released.             *)
LEMMA UnloadInd ==
    ASSUME ManagerInd, NEW s \in Streams, Unload(s) PROVE ManagerInd'
  <1> USE DEF ManagerInd
  <1>1. /\ TypeOK'
        /\ stream[s] = "open"
        /\ mgr.at = "null" => mgr' = mgr /\ stream'[s] = "closed"
        /\ mgr.at # "null" =>
             /\ mgr'.refs = mgr.refs - 1 /\ mgr'.at = mgr.at
             /\ mgr'.exit <=> mgr.exit \/ mgr.refs = 1
             /\ SameContent(mgr', mgr)
             /\ stream'[s] = IF mgr.refs = 1 THEN "joining" ELSE "closed"
        /\ \A r \in Streams : r # s => stream'[r] = stream[r]
        /\ pending' = [pending EXCEPT ![s] = 0]
        /\ pos' = [pos EXCEPT ![s] = popped[s]]
        /\ UNCHANGED <<popped, process, overlap, made, stored, failed>>
    BY UnloadStep
  <1>2. /\ stream'[s] # "open"
        /\ \A r \in Streams : stream'[r] # "open" => pos'[r] = popped'[r] /\ pending'[r] = 0
    <2>1. stream'[s] # "open"
      BY <1>1
    <2>2. /\ pos'[s] = popped[s] /\ pending'[s] = 0
          /\ \A r \in Streams : r # s => pos'[r] = pos[r] /\ pending'[r] = pending[r]
      BY <1>1, StateTypes
    <2> QED BY <1>1, <2>1, <2>2 DEF Opened
  <1>3. made' # 0
    BY <1>1 DEF Opened
  <1>4. OpenStreams' = OpenStreams - 1 /\ OpenStreams \in 1 .. 2
    <2>1. /\ stream[s] = "open" /\ stream'[s] # "open"
          /\ \A r \in Streams : r # s => stream'[r] = stream[r]
      BY <1>1, <1>2
    <2>2. CASE s = "sql"
      <3>1. stream'["storage"] = stream["storage"]
        BY <2>1, <2>2, StateTypes
      <3> QED BY <2>1, <2>2, <3>1 DEF OpenStreams
    <2>3. CASE s = "storage"
      <3>1. stream'["sql"] = stream["sql"]
        BY <2>1, <2>3, StateTypes
      <3> QED BY <2>1, <2>3, <3>1 DEF OpenStreams
    <2> QED BY <2>2, <2>3, StateTypes
  <1>5. CASE mgr.at = "null"
    <2>1. mgr' = NoInstance /\ mgr'.at = "null"
      BY <1>1, <1>5 DEF Opened
    <2>2. overlap
      BY <1>1, <1>5 DEF Alone
    <2>3. Opened' /\ Alone' /\ Counted'
      BY <1>1, <1>2, <1>3, <2>1, <2>2 DEF Opened, Alone, Counted
    <2> QED BY <1>1, <2>1, <2>3, NoInstanceHolds
  <1>6. CASE mgr.at # "null"
    <2>1. /\ mgr'.refs = mgr.refs - 1 /\ mgr'.at = mgr.at
          /\ mgr'.exit <=> mgr.exit \/ mgr.refs = 1
          /\ SameContent(mgr', mgr)
          /\ stream'[s] = IF mgr.refs = 1 THEN "joining" ELSE "closed"
      BY <1>1, <1>6
    <2>2. Opened'
      <3>1. mgr.refs \in {OpenStreams - 1, OpenStreams}
        BY <1>6 DEF Opened
      <3>2. mgr'.refs \in {OpenStreams' - 1, OpenStreams'}
        <4>1. mgr'.refs = mgr.refs - 1
          BY <2>1
        <4> QED BY <1>4, <3>1, <4>1
      <3> QED BY <1>2, <1>3, <1>6, <2>1, <3>2 DEF Opened
    <2>3. Alone'
      <3> SUFFICES ASSUME ~overlap' PROVE Alone'
        BY DEF Alone
      <3>1. /\ process = "up" /\ mgr.refs = OpenStreams /\ ~mgr.exit
            /\ \A r \in Streams : stream[r] # "joining old" /\ stream[r] # "joining"
        BY <1>1, <1>6 DEF Alone
      <3>2. mgr'.refs = OpenStreams'
        <4>1. mgr'.refs = mgr.refs - 1 /\ mgr.refs = OpenStreams
          BY <2>1, <3>1
        <4> QED BY <1>4, <4>1
      <3>3. PICK r \in Streams : r # s /\ \A t \in Streams : t = s \/ t = r
        BY StateTypes
      <3>4. stream'[r] = stream[r] /\ process' = "up"
        BY <1>1, <3>1, <3>3
      <3>5. stream[r] \in {"closed", "open", "joining", "joining old"}
        BY StateTypes
      <3>6. (stream[r] = "open") <=> (mgr.refs # 1)
        <4>1. OpenStreams = 1 + (IF stream[r] = "open" THEN 1 ELSE 0)
          <5>1. stream[s] = "open"
            BY <1>1
          <5>2. CASE s = "sql"
            <6>1. r = "storage"
              BY <3>3, <5>2, StateTypes
            <6> QED BY <5>1, <5>2, <6>1 DEF OpenStreams
          <5>3. CASE s = "storage"
            <6>1. r = "sql"
              BY <3>3, <5>3, StateTypes
            <6> QED BY <5>1, <5>3, <6>1 DEF OpenStreams
          <5> QED BY <5>2, <5>3, StateTypes
        <4>2. mgr.refs = OpenStreams
          BY <3>1
        <4> QED BY <4>1, <4>2
      <3>7. CASE mgr.refs = 1
        <4>1. stream'[s] = "joining" /\ mgr'.exit /\ stream'[r] = "closed"
          BY <2>1, <3>1, <3>4, <3>5, <3>6, <3>7
        <4> QED BY <1>6, <2>1, <3>2, <3>3, <3>4, <4>1 DEF Alone
      <3>8. CASE mgr.refs # 1
        <4>1. stream'[s] = "closed" /\ ~mgr'.exit /\ stream'[r] = "open"
          BY <2>1, <3>1, <3>4, <3>6, <3>8
        <4> QED BY <1>6, <2>1, <3>2, <3>3, <3>4, <4>1 DEF Alone
      <3> QED BY <3>7, <3>8
    <2>4. Taken' /\ Waiting'
      BY <2>1 DEF Taken, Waiting, Held, SameContent
    <2>5. Numbered'
      <3> SUFFICES ASSUME Known'
                   PROVE  /\ mgr'.at = "none" => /\ stream'["storage"] = "closed"
                                                 /\ mgr'.timeline["storage"] = <<>>
                                                 /\ mgr'.ack["storage"] = 0
                          /\ \A r \in Streams : Counts(r)'
        BY DEF Numbered
      <3>1. Known
        BY <1>1, <1>6 DEF Known, Zeroed
      <3>2. mgr'.at = "none" => /\ stream'["storage"] = "closed"
                                /\ mgr'.timeline["storage"] = <<>>
                                /\ mgr'.ack["storage"] = 0
        BY <1>1, <2>1, <3>1, StateTypes DEF Numbered, SameContent
      <3>3. ASSUME NEW r \in Streams PROVE Counts(r)'
        <4>1. Counts(r)
          BY <3>1 DEF Numbered
        <4>2. CASE r = s
          BY <1>1, <1>2, <2>1, <4>1, <4>2 DEF Counts, SameContent
        <4>3. CASE r # s
          <5>1. pos'[r] = pos[r] /\ pending'[r] = pending[r] /\ stream'[r] = stream[r]
            BY <1>1, <4>3, StateTypes
          <5> QED BY <1>1, <2>1, <4>1, <5>1 DEF Counts, SameContent
        <4> QED BY <4>2, <4>3
      <3> QED BY <3>2, <3>3
    <2>6. Flagged' /\ Counted' /\ PerfdataThere'
      <3>1. Safe' = Safe /\ Here' = Here /\ Live' = Live
        BY <1>1, <2>1 DEF Safe, Here, Live, SameContent
      <3>2. mgr'.flags = mgr.flags /\ mgr'.sent = mgr.sent /\ mgr'.ack = mgr.ack
            /\ mgr'.db = mgr.db
        BY <2>1 DEF SameContent
      <3>3. Flagged'
        BY <3>1, <3>2 DEF Flagged
      <3>4. Counted'
        BY <1>1, <3>1, <3>2 DEF Counted, Zeroed
      <3>5. PerfdataThere'
        BY <1>1, <1>6, <3>1, <3>2 DEF PerfdataThere, Zeroed
      <3> QED BY <3>3, <3>4, <3>5
    <2>7. Drained'
      BY <1>1, <2>1 DEF Drained, SameContent
    <2> QED BY <1>1, <2>2, <2>3, <2>4, <2>5, <2>6, <2>7
  <1> QED BY <1>5, <1>6

(* What was sent is committed before the instance is forgotten.            *)
LEMMA JoinInd ==
    ASSUME ManagerInd, NEW s \in Streams, Join(s) PROVE ManagerInd'
  <1> USE DEF ManagerInd
  <1>1. /\ TypeOK'
        /\ mgr' = NoInstance /\ stored' = stored \union mgr.sent
        /\ stream[s] \in {"joining", "joining old"}
        /\ stream[s] = "joining" =>
             process' = "up" /\ mgr.at \in {"none", "done", "null"}
        /\ stream'[s] = "closed"
        /\ \A r \in Streams : r # s => stream'[r] = stream[r]
        /\ UNCHANGED <<pending, pos, popped, overlap, made, failed>>
    BY JoinStep
  <1>2. mgr'.at = "null" /\ ~mgr'.exit
    BY <1>1, NoInstanceFields
  <1>3. Opened'
    <2>1. \A r \in Streams : stream'[r] # "open" => stream[r] # "open"
      BY <1>1
    <2>2. made' # 0
      BY <1>1 DEF Opened
    <2> QED BY <1>1, <1>2, <2>1, <2>2 DEF Opened
  <1>4. Alone'
    <2> SUFFICES ASSUME ~overlap' PROVE Alone'
      BY DEF Alone
    <2>1. stream[s] = "joining" /\ mgr.at # "null"
      BY <1>1 DEF Alone
    <2>2. mgr.exit
      BY <1>1, <2>1 DEF Alone
    <2>3. \A r \in Streams : r # s => stream[r] = "closed"
      <3> SUFFICES ASSUME NEW r \in Streams, r # s PROVE stream[r] = "closed"
        OBVIOUS
      <3>1. \A t \in Streams : t = s \/ t = r
        BY StateTypes
      <3>2. stream[r] # "joining" /\ stream[r] # "open" /\ stream[r] # "joining old"
        BY <1>1, <2>1, <2>2, <3>1 DEF Alone
      <3>3. stream[r] \in {"closed", "open", "joining", "joining old"}
        BY StateTypes
      <3> QED BY <3>2, <3>3
    <2>4. \A r \in Streams : stream'[r] = "closed"
      BY <1>1, <2>3
    <2> QED BY <1>1, <1>2, <2>1, <2>4 DEF Alone
  <1>5. Counted'
    <2> SUFFICES ASSUME Zeroed, ~overlap, NEW e \in Event,
                        e[2] <= popped'[e[1]] + mgr'.ack[e[1]]
                 PROVE  e \in Safe'
      BY <1>1 DEF Counted, Zeroed
    <2>1. e[1] \in Streams /\ e[2] \in Int
      <3>1. e[1] \in Streams /\ e[2] \in 1 .. Total[e[1]] /\ Total[e[1]] \in Nat
        BY EventTypes
      <3> QED BY <3>1
    <2>2. popped[e[1]] \in Nat /\ mgr.ack[e[1]] \in Nat
      BY <2>1, StateTypes, FieldTypes
    <2>3. popped'[e[1]] = popped[e[1]] /\ mgr'.ack[e[1]] = 0
      BY <1>1, <2>1, NoInstanceFields
    <2>4. e[2] <= popped[e[1]] + mgr.ack[e[1]]
      BY <2>1, <2>2, <2>3
    <2>5. e \in Safe
      BY <2>4 DEF Counted
    <2> QED BY <1>1, <2>5 DEF Safe
  <1> QED BY <1>1, <1>3, <1>4, <1>5, NoInstanceHolds

-----------------------------------------------------------------------------
(* The steps of the loop, but for the end of a batch. *)

(* Held and Live of any state of the instance. *)
HeldIn(m) == m.flags \union m.dropped \union ToSet(m.fifo)
               \union ToSet(m.events) \union ToSet(m.bulk)
LiveIn(m) == m.db = "ok" \/ m.at \in {"top", "take", "process", "finish"}

(* The state m that a step computes: it keeps what it may not lose ... *)
MgrKept(m) ==
    /\ m \in Instance /\ mgr.at # "null"
    /\ m.timeline = mgr.timeline /\ m.ack = mgr.ack
    /\ m.exit = mgr.exit /\ m.refs = mgr.refs
    /\ HeldIn(mgr) \subseteq HeldIn(m) /\ mgr.sent \subseteq m.sent
    /\ m.db = "ok" =>
         /\ mgr.db = "ok"
         /\ m.flags \subseteq mgr.flags \union m.sent \union Ignored \union Perfdata
         /\ ToSet(mgr.perfdata) \subseteq m.sent \union ToSet(m.perfdata)
         /\ m.flags \intersect Perfdata
              \subseteq mgr.flags \union m.sent \union ToSet(m.perfdata)

(* ... and fits the point of the loop that it goes to. *)
Arrived(m) ==
    /\ m.at # "null" /\ (m.at = "none" <=> mgr.at = "none")
    /\ m.at = "process" <=> m.events # <<>>
    /\ LiveIn(m) =>
         /\ LiveIn(mgr)
         /\ m.flags \subseteq mgr.flags \union m.sent \union Ignored \union Perfdata
    /\ m.at \in Between /\ m.dropped = {} /\ m.db = "ok" => m.sent = {}
    /\ m.at \in {"end", "done"} /\ ~m.broken /\ ~overlap => m.exit /\ m.fifo = <<>>

(* What such a step does to the variables. *)
Progress ==
    /\ UNCHANGED streamVars
    /\ mgr.at # "null" /\ mgr'.at # "null" /\ (mgr'.at = "none" <=> mgr.at = "none")
    /\ mgr'.timeline = mgr.timeline /\ mgr'.ack = mgr.ack
    /\ mgr'.exit = mgr.exit /\ mgr'.refs = mgr.refs
    /\ Held \subseteq Held' /\ Safe \subseteq Safe'
    /\ mgr.sent \subseteq mgr'.sent \union Safe'
    /\ Live' => Live /\ mgr'.flags \subseteq mgr.flags \union mgr'.sent \union Safe'
    /\ mgr'.db = "ok" =>
         /\ mgr.db = "ok" /\ Here \subseteq Here'
         /\ mgr'.flags \intersect Perfdata \subseteq mgr.flags \union Here'
    /\ Taken' /\ Drained'

(* A step that makes progress keeps the invariant. *)
LEMMA ProgressInd ==
    ASSUME ManagerInd, TypeOK', Progress PROVE ManagerInd'
  <1> USE DEF ManagerInd
  <1>1. /\ UNCHANGED <<stream, pending, pos, popped, process, overlap, made>>
        /\ mgr.at # "null" /\ mgr'.at # "null" /\ (mgr'.at = "none" <=> mgr.at = "none")
        /\ mgr'.timeline = mgr.timeline /\ mgr'.ack = mgr.ack
        /\ mgr'.exit = mgr.exit /\ mgr'.refs = mgr.refs
    BY DEF Progress, streamVars
  <1>2. Opened' /\ Alone'
    BY <1>1 DEF Opened, Alone, OpenStreams
  <1>3. Taken' /\ Drained'
    BY DEF Progress
  <1>4. Waiting'
    <2>1. Held \subseteq Held'
      BY DEF Progress
    <2> QED BY <1>1, <2>1 DEF Waiting
  <1>5. Numbered'
    BY <1>1 DEF Numbered, Known, Counts, Zeroed
  <1>6. Safe \subseteq Safe'
    BY DEF Progress
  <1>7. Flagged'
    <2> SUFFICES ASSUME Live' PROVE mgr'.flags \subseteq mgr'.sent \union Safe'
      BY DEF Flagged
    <2>1. /\ Live /\ mgr'.flags \subseteq mgr.flags \union mgr'.sent \union Safe'
          /\ mgr.sent \subseteq mgr'.sent \union Safe'
      BY DEF Progress
    <2>2. mgr.flags \subseteq mgr.sent \union Safe
      BY <2>1 DEF Flagged
    <2> QED BY <1>6, <2>1, <2>2
  <1>8. Counted'
    <2> SUFFICES ASSUME Zeroed, ~overlap, NEW e \in Event,
                        e[2] <= popped[e[1]] + mgr.ack[e[1]]
                 PROVE  e \in Safe'
      BY <1>1 DEF Counted, Zeroed
    <2> QED BY <1>6 DEF Counted
  <1>9. PerfdataThere'
    <2> SUFFICES ASSUME Zeroed, made = 1, mgr'.db = "ok", NEW e \in Perfdata,
                        e \in mgr'.flags \/ e[2] <= popped["storage"] + mgr.ack["storage"]
                 PROVE  e \in Here'
      BY <1>1 DEF PerfdataThere, Zeroed
    <2>1. /\ mgr.db = "ok" /\ Here \subseteq Here'
          /\ mgr'.flags \intersect Perfdata \subseteq mgr.flags \union Here'
      BY DEF Progress
    <2>2. e \in mgr.flags \/ e[2] <= popped["storage"] + mgr.ack["storage"] => e \in Here
      BY <1>1, <2>1 DEF PerfdataThere
    <2> QED BY <2>1, <2>2
  <1> QED BY <1>2, <1>3, <1>4, <1>5, <1>7, <1>8, <1>9

(* A step to a state that keeps all and fits its point makes progress.     *)
LEMMA MoveStep ==
    ASSUME TypeOK, NEW m, MgrKept(m), Arrived(m), UNCHANGED streamVars,
           NEW X, X \subseteq m.sent, mgr' = [m EXCEPT !.sent = X],
           m.sent \subseteq X \union stored',
           stored \subseteq stored', stored' \subseteq Event, failed' = failed,
           faults' \in 0 .. MaxFaults
    PROVE  TypeOK' /\ Progress
  <1>1. m \in Instance
    BY DEF MgrKept
  <1>2. m.sent \subseteq Event
    BY <1>1, FieldTypes
  <1>3. /\ mgr' \in Instance /\ mgr'.sent = X
        /\ mgr'.fifo = m.fifo /\ mgr'.timeline = m.timeline /\ mgr'.flags = m.flags
        /\ mgr'.ack = m.ack /\ mgr'.events = m.events /\ mgr'.bulk = m.bulk
        /\ mgr'.perfdata = m.perfdata /\ mgr'.at = m.at /\ mgr'.exit = m.exit
        /\ mgr'.broken = m.broken /\ mgr'.refs = m.refs /\ mgr'.dropped = m.dropped
        /\ mgr'.db = m.db
    <2>1. X \in SUBSET Event
      BY <1>2
    <2> QED BY <1>1, <2>1 DEF Instance
  <1>4. TypeOK'
    BY <1>3 DEF TypeOK, streamVars
  <1>5. Held = HeldIn(mgr) /\ Held' = HeldIn(m) /\ Live = LiveIn(mgr) /\ Live' = LiveIn(m)
    BY <1>3 DEF Held, HeldIn, Live, LiveIn
  <1>6. Safe \subseteq Safe' /\ m.sent \subseteq mgr'.sent \union Safe'
        /\ Ignored \union Perfdata \subseteq Safe'
    BY <1>3 DEF Safe
  <1>7. mgr.sent \subseteq m.sent /\ HeldIn(mgr) \subseteq HeldIn(m)
    BY DEF MgrKept
  <1>8. Live' => Live /\ mgr'.flags \subseteq mgr.flags \union mgr'.sent \union Safe'
    <2> SUFFICES ASSUME Live'
                 PROVE  Live /\ mgr'.flags \subseteq mgr.flags \union mgr'.sent \union Safe'
      OBVIOUS
    <2>1. Live /\ m.flags \subseteq mgr.flags \union m.sent \union Ignored \union Perfdata
      BY <1>5 DEF Arrived
    <2> QED BY <1>3, <1>6, <2>1
  <1>9. mgr'.db = "ok" =>
          /\ mgr.db = "ok" /\ Here \subseteq Here'
          /\ mgr'.flags \intersect Perfdata \subseteq mgr.flags \union Here'
    <2> SUFFICES ASSUME mgr'.db = "ok"
                 PROVE  /\ mgr.db = "ok" /\ Here \subseteq Here'
                        /\ mgr'.flags \intersect Perfdata \subseteq mgr.flags \union Here'
      OBVIOUS
    <2>1. /\ mgr.db = "ok"
          /\ ToSet(mgr.perfdata) \subseteq m.sent \union ToSet(m.perfdata)
          /\ m.flags \intersect Perfdata
               \subseteq mgr.flags \union m.sent \union ToSet(m.perfdata)
      BY <1>3 DEF MgrKept
    <2>2. m.sent \union ToSet(m.perfdata) \subseteq Here' /\ stored \subseteq Here'
      BY <1>3 DEF Here
    <2>3. Here \subseteq Here'
      BY <1>7, <2>1, <2>2 DEF Here
    <2> QED BY <1>3, <2>1, <2>2, <2>3
  <1>10. Taken' /\ Drained'
    <2>1. Taken'
      BY <1>3 DEF Taken, Arrived
    <2>2. mgr'.at \in Between /\ mgr'.dropped = {} /\ mgr'.db = "ok" => mgr'.sent = {}
      BY <1>3 DEF Arrived
    <2>3. mgr'.at \in {"end", "done"} /\ ~mgr'.broken /\ ~overlap' =>
            mgr'.exit /\ mgr'.fifo = <<>>
      BY <1>3 DEF Arrived, streamVars
    <2> QED BY <2>1, <2>2, <2>3 DEF Drained
  <1>11. /\ mgr.at # "null" /\ mgr'.at # "null" /\ (mgr'.at = "none" <=> mgr.at = "none")
         /\ mgr'.timeline = mgr.timeline /\ mgr'.ack = mgr.ack
         /\ mgr'.exit = mgr.exit /\ mgr'.refs = mgr.refs
    BY <1>3 DEF MgrKept, Arrived
  <1> QED BY <1>4, <1>5, <1>6, <1>7, <1>8, <1>9, <1>10, <1>11 DEF Progress

(* Continue, with or without a commit. *)
LEMMA ContinueStep ==
    ASSUME TypeOK, NEW m, MgrKept(m), Arrived(m), NEW commit \in BOOLEAN, Continue(m, commit)
    PROVE  TypeOK' /\ Progress
  <1>1. m.sent \subseteq Event /\ mgr.sent \subseteq Event /\ stored \subseteq Event
    BY StateTypes, FieldTypes DEF MgrKept, TypeOK
  <1>2. UNCHANGED streamVars /\ failed' = failed /\ faults' \in 0 .. MaxFaults
    BY DEF Continue, TypeOK
  <1>3. CASE commit
    <2>1. mgr' = [m EXCEPT !.sent = m.sent \ mgr.sent] /\ stored' = stored \union mgr.sent
      BY <1>3 DEF Continue
    <2> DEFINE X == m.sent \ mgr.sent
    <2>2. X \subseteq m.sent /\ m.sent \subseteq X \union stored'
          /\ stored \subseteq stored' /\ stored' \subseteq Event
      BY <1>1, <2>1
    <2>3. mgr' = [m EXCEPT !.sent = X]
      BY <2>1
    <2> HIDE DEF X
    <2> QED BY <1>2, <2>2, <2>3, MoveStep
  <1>4. CASE ~commit
    <2>1. mgr' = [m EXCEPT !.sent = m.sent] /\ stored' = stored
      BY <1>4 DEF Continue
    <2> DEFINE X == m.sent
    <2>2. X \subseteq m.sent /\ m.sent \subseteq X \union stored'
          /\ stored \subseteq stored' /\ stored' \subseteq Event
      BY <1>1, <2>1
    <2> QED BY <1>2, <2>1, <2>2, MoveStep
  <1> QED BY <1>3, <1>4

(* An exception is caught: the first two steps break the instance, the     *)
(* others leave the batch, whose events are dropped.                       *)
LEMMA CaughtFields ==
    ASSUME NEW m \in Instance
    PROVE  /\ Caught(m) \in Instance
           /\ Caught(m).fifo = m.fifo /\ Caught(m).timeline = m.timeline
           /\ Caught(m).flags = m.flags /\ Caught(m).ack = m.ack
           /\ Caught(m).bulk = m.bulk /\ Caught(m).perfdata = m.perfdata
           /\ Caught(m).exit = m.exit /\ Caught(m).refs = m.refs
           /\ Caught(m).sent = m.sent /\ Caught(m).db = m.db
           /\ m.at \in {"load", "check"} =>
                /\ Caught(m).broken /\ Caught(m).events = m.events
                /\ Caught(m).dropped = m.dropped
                /\ Caught(m).at = IF m.at = "load" THEN "check" ELSE "end"
           /\ m.at \notin {"load", "check"} =>
                /\ Caught(m).events = <<>> /\ Caught(m).at = "again"
                /\ Caught(m).dropped = m.dropped \union ToSet(m.events)
  <1>1. CASE m.at = "load"
    <2>1. Caught(m) = [m EXCEPT !.broken = TRUE, !.at = "check"]
      BY <1>1 DEF Caught
    <2> QED BY <1>1, <2>1 DEF Instance, LoopPoint
  <1>2. CASE m.at = "check"
    <2>1. Caught(m) = [m EXCEPT !.broken = TRUE, !.at = "end"]
      BY <1>2 DEF Caught
    <2> QED BY <1>2, <2>1 DEF Instance, LoopPoint
  <1>3. CASE m.at \notin {"load", "check"}
    <2>1. PICK b \in BOOLEAN : b = (m.broken \/ m.db = "gone")
      OBVIOUS
    <2>2. PICK d \in SUBSET Event : d = m.dropped \union ToSet(m.events)
      <3>1. m.events \in Seq(Event) /\ m.dropped \subseteq Event
        BY FieldTypes
      <3> QED BY <3>1, ToSetType
    <2>3. Caught(m) = [m EXCEPT !.events = <<>>, !.dropped = d, !.count = 0,
                                !.broken = b, !.at = "again"]
      BY <1>3, <2>1, <2>2 DEF Caught
    <2>4. <<>> \in Seq(Event) /\ 0 \in 0 .. MaxPending
      BY ConstantTypes
    <2> QED BY <1>3, <2>2, <2>3, <2>4 DEF Instance, LoopPoint
  <1> QED BY <1>1, <1>2, <1>3

(* The state in which an exception is thrown: an event of the batch is     *)
(* dropped, or the connection is in error.                                 *)
Thrown(m) ==
    /\ MgrKept(m) /\ m.at \notin {"none", "null"} /\ mgr.at # "none"
    /\ m.at \in {"load", "check"} =>
         m.events = <<>> /\ (m.dropped = {} /\ m.db = "ok" => m.sent = {})
    /\ m.at \notin {"load", "check"} => m.dropped # {} \/ m.db # "ok"

(* After the exception: check again, or go to the end of the loop.         *)
LEMMA CaughtArrives ==
    ASSUME NEW m, Thrown(m)
    PROVE  MgrKept(Caught(m)) /\ Arrived(Caught(m)) /\ m \in Instance
  <1> DEFINE c == Caught(m)
  <1>1. m \in Instance /\ mgr.at # "null" /\ mgr.at # "none"
    BY DEF Thrown, MgrKept
  <1>2. /\ c \in Instance
        /\ c.fifo = m.fifo /\ c.timeline = m.timeline
        /\ c.flags = m.flags /\ c.ack = m.ack
        /\ c.bulk = m.bulk /\ c.perfdata = m.perfdata
        /\ c.exit = m.exit /\ c.refs = m.refs
        /\ c.sent = m.sent /\ c.db = m.db
    BY <1>1, CaughtFields
  <1>3. m.at \in {"load", "check"} =>
          /\ c.broken /\ c.events = m.events /\ c.dropped = m.dropped
          /\ c.at = IF m.at = "load" THEN "check" ELSE "end"
    BY <1>1, CaughtFields
  <1>4. m.at \notin {"load", "check"} =>
          /\ c.events = <<>> /\ c.at = "again" /\ c.dropped = m.dropped \union ToSet(m.events)
    BY <1>1, CaughtFields
  <1> HIDE DEF c
  <1>5. HeldIn(m) \subseteq HeldIn(c)
    BY <1>2, <1>3, <1>4 DEF HeldIn
  <1>6. MgrKept(c)
    <2>1. MgrKept(m)
      BY DEF Thrown
    <2> QED BY <1>2, <1>5, <2>1 DEF MgrKept
  <1>7. Arrived(c)
    <2>1. c.at \in {"check", "end", "again"} /\ c.events = <<>>
      BY <1>3, <1>4 DEF Thrown
    <2>2. LiveIn(c) =>
            /\ LiveIn(mgr)
            /\ c.flags \subseteq mgr.flags \union c.sent \union Ignored \union Perfdata
      BY <1>6, <2>1 DEF LiveIn, MgrKept
    <2>3. c.dropped = {} /\ c.db = "ok" => c.sent = {}
      BY <1>2, <1>3, <1>4 DEF Thrown
    <2>4. c.at = "end" => c.broken
      BY <1>3, <1>4
    <2> QED BY <1>1, <2>1, <2>2, <2>3, <2>4 DEF Arrived
  <1> QED BY <1>1, <1>6, <1>7 DEF c

(* A query whose result is waited for fails. *)
LEMMA QueryFailsStep ==
    ASSUME TypeOK, NEW m, Thrown(m), QueryFails(m)
    PROVE  TypeOK' /\ Progress
  <1>1. MgrKept(Caught(m)) /\ Arrived(Caught(m)) /\ m \in Instance /\ MgrKept(m)
    BY CaughtArrives DEF Thrown
  <1>2. CASE Throw(m)
    BY <1>1, <1>2, ContinueStep DEF Throw
  <1>3. CASE ~Throw(m)
    <2>1. PICK kind \in {"ok", "gone", "lost"} :
            /\ m.db = "ok" /\ faults < MaxFaults /\ faults' = faults + 1
            /\ IF kind = "ok"
               THEN mgr' = Caught(m) /\ failed' = failed
               ELSE /\ mgr' = Caught([m EXCEPT !.db = kind, !.sent = {}])
                    /\ failed' = failed \union m.sent
            /\ UNCHANGED <<stored, streamVars>>
      BY <1>3 DEF QueryFails
    <2>2. faults' \in 0 .. MaxFaults
      <3>1. faults \in 0 .. MaxFaults /\ MaxFaults \in Nat
        BY ConstantTypes DEF TypeOK
      <3>2. faults' = faults + 1 /\ faults < MaxFaults
        BY <2>1
      <3> QED BY <3>1, <3>2
    <2>3. CASE kind = "ok"
      <3> DEFINE c == Caught(m)
      <3>1. mgr' = c /\ c \in Instance /\ UNCHANGED <<stored, failed, streamVars>>
        BY <1>1, <2>1, <2>3 DEF MgrKept
      <3>2. mgr' = [c EXCEPT !.sent = c.sent] /\ stored \subseteq Event
        BY <3>1 DEF Instance, TypeOK
      <3>3. MgrKept(c) /\ Arrived(c)
        BY <1>1
      <3> HIDE DEF c
      <3> QED BY <2>2, <3>1, <3>2, <3>3, MoveStep
    <2>4. CASE kind # "ok"
      <3> DEFINE n == [m EXCEPT !.db = kind, !.sent = {}]
      <3>1. /\ n \in Instance /\ n.db # "ok" /\ n.sent = {} /\ n.at = m.at
            /\ n.fifo = m.fifo /\ n.timeline = m.timeline /\ n.flags = m.flags
            /\ n.ack = m.ack /\ n.events = m.events /\ n.bulk = m.bulk
            /\ n.exit = m.exit /\ n.refs = m.refs /\ n.dropped = m.dropped
        BY <1>1, <2>1, <2>4 DEF Instance
      <3>2. /\ mgr' = Caught(n) /\ failed' = failed \union m.sent
            /\ UNCHANGED <<stored, streamVars>>
        BY <2>1, <2>4
      <3> HIDE DEF n
      <3>3. /\ mgr' \in Instance /\ mgr'.fifo = n.fifo /\ mgr'.timeline = n.timeline
            /\ mgr'.flags = n.flags /\ mgr'.ack = n.ack /\ mgr'.bulk = n.bulk
            /\ mgr'.exit = n.exit /\ mgr'.refs = n.refs /\ mgr'.db # "ok"
        BY <3>1, <3>2, CaughtFields
      <3>4. n.at \in {"load", "check"} =>
              /\ mgr'.broken /\ mgr'.events = n.events /\ mgr'.dropped = n.dropped
              /\ mgr'.at = IF n.at = "load" THEN "check" ELSE "end"
        BY <3>1, <3>2, CaughtFields
      <3>5. n.at \notin {"load", "check"} =>
              /\ mgr'.events = <<>> /\ mgr'.at = "again"
              /\ mgr'.dropped = n.dropped \union ToSet(n.events)
        BY <3>1, <3>2, CaughtFields
      <3>6. mgr'.at \in {"check", "end", "again"} /\ mgr'.events = <<>>
            /\ (mgr'.at = "end" => mgr'.broken)
        BY <3>1, <3>4, <3>5 DEF Thrown
      <3>7. Held \subseteq Held'
        <4>1. HeldIn(mgr) \subseteq HeldIn(m) /\ HeldIn(mgr) = Held
          BY <1>1 DEF MgrKept, Held, HeldIn
        <4>2. HeldIn(m) \subseteq Held'
          BY <3>1, <3>3, <3>4, <3>5 DEF HeldIn, Held
        <4> QED BY <4>1, <4>2
      <3>8. Safe \subseteq Safe' /\ mgr.sent \subseteq Safe'
        <4>1. mgr.sent \subseteq m.sent
          BY <1>1 DEF MgrKept
        <4> QED BY <3>2, <4>1 DEF Safe
      <3>9. ~Live' /\ Taken' /\ Drained'
        BY <3>3, <3>6 DEF Live, Taken, Drained
      <3>10. /\ mgr'.timeline = mgr.timeline /\ mgr'.ack = mgr.ack
             /\ mgr'.exit = mgr.exit /\ mgr'.refs = mgr.refs
             /\ mgr.at # "null" /\ mgr.at # "none"
        BY <1>1, <3>1, <3>3 DEF MgrKept, Thrown
      <3>11. TypeOK'
        <4>1. m.sent \subseteq Event
          BY <1>1, FieldTypes
        <4> QED BY <2>2, <3>2, <3>3, <4>1 DEF TypeOK, streamVars
      <3> QED BY <3>2, <3>3, <3>6, <3>7, <3>8, <3>9, <3>10, <3>11 DEF Progress
    <2> QED BY <2>3, <2>4
  <1> QED BY <1>2, <1>3

(* Only another point of the loop. *)
Goto(p, c) == [mgr EXCEPT !.at = p, !.count = c]

(* Such a step keeps all.                                                  *)
LEMMA GotoKept ==
    ASSUME TypeOK, mgr.at # "null", NEW p \in LoopPoint, NEW c \in 0 .. MaxPending,
           NEW m, m = Goto(p, c)
    PROVE  /\ MgrKept(m) /\ m.at = p
           /\ m.events = mgr.events /\ m.dropped = mgr.dropped /\ m.db = mgr.db
           /\ m.sent = mgr.sent /\ m.flags = mgr.flags /\ m.broken = mgr.broken
           /\ m.fifo = mgr.fifo /\ m.exit = mgr.exit
  <1>1. mgr \in Instance
    BY StateTypes
  <1>2. /\ m \in Instance /\ m.at = p
        /\ m.fifo = mgr.fifo /\ m.timeline = mgr.timeline /\ m.flags = mgr.flags
        /\ m.ack = mgr.ack /\ m.events = mgr.events /\ m.bulk = mgr.bulk
        /\ m.perfdata = mgr.perfdata /\ m.exit = mgr.exit
        /\ m.broken = mgr.broken /\ m.refs = mgr.refs /\ m.dropped = mgr.dropped
        /\ m.db = mgr.db /\ m.sent = mgr.sent
    BY <1>1 DEF Instance, Goto
  <1>3. MgrKept(m)
    BY <1>2 DEF MgrKept, HeldIn
  <1> QED BY <1>2, <1>3

(* So does no step.                                                        *)
LEMMA SameKept ==
    ASSUME TypeOK, mgr.at # "null" PROVE MgrKept(mgr)
  BY StateTypes DEF MgrKept

(* The point alone.                                                        *)
LEMMA GotoFields ==
    ASSUME TypeOK, NEW p
    PROVE  [mgr EXCEPT !.at = p] = Goto(p, mgr.count) /\ mgr.count \in 0 .. MaxPending
  BY StateTypes DEF Instance, Goto

(* A query that fails before the main loop. *)
LEMMA EarlyThrown ==
    ASSUME ManagerInd, mgr.at \in {"load", "check"} PROVE Thrown(mgr)
  <1>1. MgrKept(mgr)
    BY SameKept DEF ManagerInd
  <1>2. mgr.at \in Between /\ mgr.events = <<>>
    BY DEF ManagerInd, Taken, Between
  <1>3. mgr.dropped = {} /\ mgr.db = "ok" => mgr.sent = {}
    BY <1>2 DEF ManagerInd, Drained
  <1> QED BY <1>1, <1>2, <1>3 DEF Thrown

(* _load_caches, which breaks the instance when it fails.                  *)
LEMMA LoadCachesInd ==
    ASSUME ManagerInd, LoadCaches PROVE ManagerInd'
  <1> USE DEF ManagerInd
  <1>1. mgr.at = "load"
    BY DEF LoadCaches, At
  <1>2. CASE QueryFails(mgr)
    BY <1>1, <1>2, EarlyThrown, QueryFailsStep, ProgressInd
  <1>3. CASE ~QueryFails(mgr)
    <2> DEFINE m == [mgr EXCEPT !.at = "check"]
    <2>1. mgr.db = "ok" /\ Continue(m, FALSE)
      BY <1>3 DEF LoadCaches
    <2>2. m = Goto("check", mgr.count) /\ mgr.count \in 0 .. MaxPending
      BY GotoFields
    <2> HIDE DEF m
    <2>3. "check" \in LoopPoint
      BY DEF LoopPoint
    <2>4. /\ MgrKept(m) /\ m.at = "check" /\ m.events = mgr.events
          /\ m.dropped = mgr.dropped /\ m.db = mgr.db /\ m.sent = mgr.sent
          /\ m.flags = mgr.flags
      BY <1>1, <2>2, <2>3, GotoKept
    <2>5. mgr.at \in Between /\ mgr.events = <<>>
      BY <1>1 DEF Taken, Between
    <2>6. Arrived(m)
      BY <1>1, <2>1, <2>4, <2>5 DEF Arrived, LiveIn, Drained
    <2> QED BY <2>1, <2>4, <2>6, ContinueStep, ProgressInd
  <1> QED BY <1>2, <1>3

(* _check_deleted_index likewise.                                          *)
LEMMA CheckDeletedIndexInd ==
    ASSUME ManagerInd, CheckDeletedIndex PROVE ManagerInd'
  <1> USE DEF ManagerInd
  <1>1. mgr.at = "check"
    BY DEF CheckDeletedIndex, At
  <1>2. CASE QueryFails(mgr)
    BY <1>1, <1>2, EarlyThrown, QueryFailsStep, ProgressInd
  <1>3. CASE ~QueryFails(mgr)
    <2> DEFINE m == [mgr EXCEPT !.at = "top"]
    <2>1. mgr.db = "ok" /\ Continue(m, FALSE)
      BY <1>3 DEF CheckDeletedIndex
    <2>2. m = Goto("top", mgr.count) /\ mgr.count \in 0 .. MaxPending
      BY GotoFields
    <2> HIDE DEF m
    <2>3. "top" \in LoopPoint
      BY DEF LoopPoint
    <2>4. /\ MgrKept(m) /\ m.at = "top" /\ m.events = mgr.events
          /\ m.dropped = mgr.dropped /\ m.db = mgr.db /\ m.sent = mgr.sent
          /\ m.flags = mgr.flags
      BY <1>1, <2>2, <2>3, GotoKept
    <2>5. mgr.at \in Between /\ mgr.events = <<>>
      BY <1>1 DEF Taken, Between
    <2>6. Arrived(m)
      BY <1>1, <2>1, <2>4, <2>5 DEF Arrived, LiveIn, Drained
    <2> QED BY <2>1, <2>4, <2>6, ContinueStep, ProgressInd
  <1> QED BY <1>2, <1>3

(* The outer loop ends when the thread has to exit, and only then.         *)
LEMMA AgainInd ==
    ASSUME ManagerInd, Again PROVE ManagerInd'
  <1> USE DEF ManagerInd
  <1>1. mgr.at = "again"
    BY DEF Again, At
  <1>2. PICK p \in {"end", "check"} : p = IF ShouldExit(mgr) THEN "end" ELSE "check"
    OBVIOUS
  <1> DEFINE m == [mgr EXCEPT !.at = p]
  <1>3. Continue(m, FALSE)
    BY <1>2 DEF Again
  <1>4. m = Goto(p, mgr.count) /\ mgr.count \in 0 .. MaxPending
    BY GotoFields
  <1> HIDE DEF m
  <1>5. p \in LoopPoint
    BY DEF LoopPoint
  <1>6. /\ MgrKept(m) /\ m.at = p /\ m.events = mgr.events
        /\ m.dropped = mgr.dropped /\ m.db = mgr.db /\ m.sent = mgr.sent
        /\ m.flags = mgr.flags /\ m.broken = mgr.broken /\ m.fifo = mgr.fifo
        /\ m.exit = mgr.exit
    BY <1>1, <1>4, <1>5, GotoKept
  <1>7. mgr.at \in Between /\ mgr.events = <<>>
    BY <1>1 DEF Taken, Between
  <1>8. p = "end" => m.broken \/ (m.exit /\ m.fifo = <<>>)
    BY <1>2, <1>6 DEF ShouldExit
  <1>9. LiveIn(m) => /\ LiveIn(mgr)
                     /\ m.flags \subseteq mgr.flags \union m.sent \union Ignored \union Perfdata
    BY <1>1, <1>6 DEF LiveIn
  <1>10. m.dropped = {} /\ m.db = "ok" => m.sent = {}
    BY <1>6, <1>7 DEF Drained
  <1>11. Arrived(m)
    BY <1>1, <1>6, <1>7, <1>8, <1>9, <1>10 DEF Arrived
  <1> QED BY <1>3, <1>6, <1>11, ContinueStep, ProgressInd

(* The thread ends as the loop has left it.                                *)
LEMMA EndInd ==
    ASSUME ManagerInd, End PROVE ManagerInd'
  <1> USE DEF ManagerInd
  <1>1. mgr.at = "end"
    BY DEF End, At
  <1> DEFINE m == [mgr EXCEPT !.at = "done"]
  <1>3. Continue(m, FALSE)
    BY DEF End
  <1>4. m = Goto("done", mgr.count) /\ mgr.count \in 0 .. MaxPending
    BY GotoFields
  <1> HIDE DEF m
  <1>5. "done" \in LoopPoint
    BY DEF LoopPoint
  <1>6. /\ MgrKept(m) /\ m.at = "done" /\ m.events = mgr.events
        /\ m.dropped = mgr.dropped /\ m.db = mgr.db /\ m.sent = mgr.sent
        /\ m.flags = mgr.flags /\ m.broken = mgr.broken /\ m.fifo = mgr.fifo
        /\ m.exit = mgr.exit
    BY <1>1, <1>4, <1>5, GotoKept
  <1>7. mgr.at \in Between /\ mgr.events = <<>>
    BY <1>1 DEF Taken, Between
  <1>8. ~m.broken /\ ~overlap => m.exit /\ m.fifo = <<>>
    BY <1>1, <1>6 DEF Drained
  <1>9. LiveIn(m) => /\ LiveIn(mgr)
                     /\ m.flags \subseteq mgr.flags \union m.sent \union Ignored \union Perfdata
    BY <1>1, <1>6 DEF LiveIn
  <1>10. m.dropped = {} /\ m.db = "ok" => m.sent = {}
    BY <1>6, <1>7 DEF Drained
  <1>11. Arrived(m)
    BY <1>1, <1>6, <1>7, <1>8, <1>9, <1>10 DEF Arrived
  <1> QED BY <1>3, <1>6, <1>11, ContinueStep, ProgressInd

(* first_events moves the fifo to the batch.                               *)
LEMMA FirstEventsInd ==
    ASSUME ManagerInd, FirstEvents PROVE ManagerInd'
  <1> USE DEF ManagerInd
  <1>1. mgr.at = "take" /\ mgr.events = <<>> /\ mgr \in Instance
    BY StateTypes DEF FirstEvents, At, Taken
  <1>2. CASE Continue([mgr EXCEPT !.count = 0, !.at = "finish"], FALSE)
    <2> DEFINE m == [mgr EXCEPT !.at = "finish", !.count = 0]
    <2>1. Continue(m, FALSE)
      <3>1. m = [mgr EXCEPT !.count = 0, !.at = "finish"]
        BY <1>1 DEF Instance
      <3> HIDE DEF m
      <3> QED BY <1>2, <3>1
    <2>2. "finish" \in LoopPoint /\ 0 \in 0 .. MaxPending
      BY ConstantTypes DEF LoopPoint
    <2>3. m = Goto("finish", 0)
      BY DEF Goto
    <2> HIDE DEF m
    <2>4. /\ MgrKept(m) /\ m.at = "finish" /\ m.events = mgr.events
          /\ m.sent = mgr.sent /\ m.flags = mgr.flags
      BY <1>1, <2>2, <2>3, GotoKept
    <2>5. Arrived(m)
      BY <1>1, <2>4 DEF Arrived, LiveIn, Between
    <2> QED BY <2>1, <2>4, <2>5, ContinueStep, ProgressInd
  <1>3. CASE ~Continue([mgr EXCEPT !.count = 0, !.at = "finish"], FALSE)
    <2> DEFINE m == [mgr EXCEPT !.events = mgr.fifo, !.fifo = <<>>, !.at = "process"]
    <2>1. mgr.fifo # <<>> /\ Continue(m, FALSE)
      BY <1>3 DEF FirstEvents
    <2>2. /\ m \in Instance /\ m.at = "process" /\ m.events = mgr.fifo /\ m.fifo = <<>>
          /\ m.timeline = mgr.timeline /\ m.flags = mgr.flags
          /\ m.ack = mgr.ack /\ m.bulk = mgr.bulk
          /\ m.perfdata = mgr.perfdata /\ m.exit = mgr.exit
          /\ m.refs = mgr.refs /\ m.dropped = mgr.dropped
          /\ m.db = mgr.db /\ m.sent = mgr.sent
      BY <1>1 DEF Instance, LoopPoint
    <2> HIDE DEF m
    <2>3. MgrKept(m)
      <3>1. HeldIn(mgr) \subseteq HeldIn(m)
        BY <1>1, <2>2, ToSetEmpty DEF HeldIn
      <3> QED BY <1>1, <2>2, <3>1 DEF MgrKept
    <2>4. Arrived(m)
      BY <1>1, <2>1, <2>2 DEF Arrived, LiveIn, Between
    <2> QED BY <2>1, <2>3, <2>4, ContinueStep, ProgressInd
  <1> QED BY <1>2, <1>3

(* The queries of the two queues. *)
LEMMA InsertPerfdatasFields ==
    ASSUME NEW m \in Instance
    PROVE  /\ InsertPerfdatas(m) \in Instance
           /\ InsertPerfdatas(m).sent = m.sent \union ToSet(m.perfdata)
           /\ InsertPerfdatas(m).perfdata = <<>>
           /\ InsertPerfdatas(m).fifo = m.fifo /\ InsertPerfdatas(m).timeline = m.timeline
           /\ InsertPerfdatas(m).flags = m.flags /\ InsertPerfdatas(m).ack = m.ack
           /\ InsertPerfdatas(m).events = m.events /\ InsertPerfdatas(m).bulk = m.bulk
           /\ InsertPerfdatas(m).at = m.at /\ InsertPerfdatas(m).exit = m.exit
           /\ InsertPerfdatas(m).broken = m.broken /\ InsertPerfdatas(m).refs = m.refs
           /\ InsertPerfdatas(m).dropped = m.dropped /\ InsertPerfdatas(m).db = m.db
  <1>1. PICK d \in SUBSET Event : d = m.sent \union ToSet(m.perfdata)
    <2>1. m.perfdata \in Seq(Event) /\ m.sent \subseteq Event
      BY FieldTypes
    <2> QED BY <2>1, ToSetType
  <1>2. InsertPerfdatas(m) = [m EXCEPT !.sent = d, !.perfdata = <<>>]
    BY <1>1 DEF InsertPerfdatas
  <1>3. <<>> \in Seq(Event)
    OBVIOUS
  <1> QED BY <1>1, <1>2, <1>3 DEF Instance

(* The queue of the bulk queries: its events have their flags.             *)
LEMMA UpdateCustomvariablesFields ==
    ASSUME NEW m \in Instance, NEW n, n = UpdateCustomvariables(m)
    PROVE  /\ n \in Instance
           /\ n.sent = m.sent \union ToSet(m.bulk) /\ n.flags = m.flags \union ToSet(m.bulk)
           /\ n.bulk = <<>> /\ n.perfdata = m.perfdata
           /\ n.fifo = m.fifo /\ n.timeline = m.timeline /\ n.ack = m.ack
           /\ n.events = m.events /\ n.at = m.at /\ n.exit = m.exit
           /\ n.broken = m.broken /\ n.refs = m.refs /\ n.dropped = m.dropped
           /\ n.db = m.db
  <1>1. PICK d \in SUBSET Event, f \in SUBSET Event :
           d = m.sent \union ToSet(m.bulk) /\ f = m.flags \union ToSet(m.bulk)
    <2>1. m.bulk \in Seq(Event) /\ m.sent \subseteq Event /\ m.flags \subseteq Event
      BY FieldTypes
    <2> QED BY <2>1, ToSetType
  <1>2. n = [m EXCEPT !.sent = d, !.flags = f, !.bulk = <<>>]
    BY <1>1 DEF UpdateCustomvariables
  <1>3. <<>> \in Seq(Event)
    OBVIOUS
  <1> QED BY <1>1, <1>2, <1>3 DEF Instance

(* Both queues are sent, or one. *)
LEMMA BulkKept ==
    ASSUME TypeOK, mgr.at # "null", NEW m \in Instance,
           \/ m.sent = mgr.sent \union ToSet(mgr.bulk)
           \/ m.sent = mgr.sent \union ToSet(mgr.bulk) \union ToSet(mgr.perfdata),
           ToSet(mgr.perfdata) \subseteq m.sent \union ToSet(m.perfdata),
           m.flags = mgr.flags \union ToSet(mgr.bulk),
           m.fifo = mgr.fifo, m.timeline = mgr.timeline, m.ack = mgr.ack,
           m.events = mgr.events, m.exit = mgr.exit, m.refs = mgr.refs,
           m.dropped = mgr.dropped, m.db = mgr.db
    PROVE  /\ MgrKept(m)
           /\ m.flags \subseteq mgr.flags \union m.sent \union Ignored \union Perfdata
  <1>1. HeldIn(mgr) \subseteq HeldIn(m)
    BY DEF HeldIn
  <1> QED BY <1>1 DEF MgrKept

(* An exception that leaves queue and flags as the loop does: only when    *)
(* the connection is in error.                                             *)
LEMMA BulkThrown ==
    ASSUME TypeOK, mgr.at \in {"top", "take", "process"}, mgr.db # "ok",
           NEW m \in Instance,
           m.flags = mgr.flags \/ (mgr.bulk # <<>> /\ m.flags = mgr.flags \union {Head(mgr.bulk)}),
           m.sent = mgr.sent, m.bulk = mgr.bulk, m.at = mgr.at,
           m.fifo = mgr.fifo, m.timeline = mgr.timeline, m.ack = mgr.ack,
           m.events = mgr.events, m.exit = mgr.exit, m.refs = mgr.refs,
           m.dropped = mgr.dropped, m.db = mgr.db
    PROVE  Thrown(m)
  <1>1. HeldIn(mgr) \subseteq HeldIn(m)
    BY DEF HeldIn
  <1>2. MgrKept(m)
    BY <1>1 DEF MgrKept
  <1> QED BY <1>2 DEF Thrown

(* The exception of a bulk query, with the queue of the perfdata empty or  *)
(* with the flag of the first event set.                                   *)
LEMMA PerfdataThrowStep ==
    ASSUME TypeOK, mgr.at \in {"top", "take", "process"}, mgr.db # "ok",
           Throw([mgr EXCEPT !.perfdata = <<>>])
    PROVE  TypeOK' /\ Progress
  <1> DEFINE m == [mgr EXCEPT !.perfdata = <<>>]
  <1>1. mgr \in Instance /\ <<>> \in Seq(Event)
    <2>1. <<>> \in Seq(Event)
      OBVIOUS
    <2> QED BY <2>1, StateTypes
  <1>2. /\ m \in Instance /\ m.flags = mgr.flags
        /\ m.sent = mgr.sent /\ m.bulk = mgr.bulk /\ m.at = mgr.at
        /\ m.fifo = mgr.fifo /\ m.timeline = mgr.timeline /\ m.ack = mgr.ack
        /\ m.events = mgr.events /\ m.exit = mgr.exit /\ m.refs = mgr.refs
        /\ m.dropped = mgr.dropped /\ m.db = mgr.db
    BY <1>1 DEF Instance
  <1>3. Continue(Caught(m), FALSE)
    BY DEF Throw
  <1> HIDE DEF m
  <1>4. Thrown(m)
    BY <1>2, BulkThrown
  <1>5. MgrKept(Caught(m)) /\ Arrived(Caught(m))
    BY <1>4, CaughtArrives
  <1> QED BY <1>3, <1>5, ContinueStep

(* The first event of a bulk query has its flag before the exception.      *)
LEMMA BulkThrowStep ==
    ASSUME TypeOK, mgr.at \in {"top", "take", "process"}, mgr.db # "ok", mgr.bulk # <<>>,
           Throw([mgr EXCEPT !.flags = @ \union {Head(mgr.bulk)}])
    PROVE  TypeOK' /\ Progress
  <1> DEFINE m == [mgr EXCEPT !.flags = @ \union {Head(mgr.bulk)}]
  <1>1. mgr \in Instance /\ mgr.bulk \in Seq(Event) /\ mgr.flags \subseteq Event
    BY StateTypes, FieldTypes
  <1>2. PICK f \in SUBSET Event : f = mgr.flags \union {Head(mgr.bulk)}
    <2>1. Head(mgr.bulk) \in Event
      BY <1>1
    <2> QED BY <1>1, <2>1
  <1>3. m = [mgr EXCEPT !.flags = f]
    BY <1>2
  <1>4. Continue(Caught(m), FALSE)
    BY DEF Throw
  <1> HIDE DEF m
  <1>5. /\ m \in Instance /\ m.flags = f
        /\ m.sent = mgr.sent /\ m.bulk = mgr.bulk /\ m.at = mgr.at
        /\ m.fifo = mgr.fifo /\ m.timeline = mgr.timeline /\ m.ack = mgr.ack
        /\ m.events = mgr.events /\ m.exit = mgr.exit /\ m.refs = mgr.refs
        /\ m.dropped = mgr.dropped /\ m.db = mgr.db
    BY <1>1, <1>3 DEF Instance
  <1>6. Thrown(m)
    BY <1>2, <1>5, BulkThrown
  <1>7. MgrKept(Caught(m)) /\ Arrived(Caught(m))
    BY <1>6, CaughtArrives
  <1> QED BY <1>4, <1>7, ContinueStep

(* The top of the loop.                                                    *)
LEMMA BulkQueriesInd ==
    ASSUME ManagerInd, BulkQueries PROVE ManagerInd'
  <1> USE DEF ManagerInd
  <1>1. mgr.at = "top" /\ mgr.events = <<>> /\ mgr \in Instance
    BY StateTypes DEF BulkQueries, At, Taken
  <1>2. mgr.dropped = {} /\ mgr.db = "ok" => mgr.sent = {}
    BY <1>1 DEF Drained, Between
  <1>3. \/ Continue([mgr EXCEPT !.at = "again"], FALSE)
        \/ \E commit \in BOOLEAN :
             Continue([UpdateCustomvariables(InsertPerfdatas(mgr)) EXCEPT !.at = "take"],
                      commit)
        \/ mgr.db # "ok" /\ Throw([mgr EXCEPT !.perfdata = <<>>])
        \/ mgr.db # "ok" /\ mgr.bulk # <<>>
             /\ Throw([mgr EXCEPT !.flags = @ \union {Head(mgr.bulk)}])
    BY DEF BulkQueries
  <1>4. CASE Continue([mgr EXCEPT !.at = "again"], FALSE)
    <2> DEFINE m == [mgr EXCEPT !.at = "again"]
    <2>1. Continue(m, FALSE)
      BY <1>4
    <2>2. m = Goto("again", mgr.count) /\ mgr.count \in 0 .. MaxPending
      BY GotoFields
    <2> HIDE DEF m
    <2>3. "again" \in LoopPoint
      BY DEF LoopPoint
    <2>4. /\ MgrKept(m) /\ m.at = "again" /\ m.events = mgr.events
          /\ m.dropped = mgr.dropped /\ m.db = mgr.db /\ m.sent = mgr.sent
          /\ m.flags = mgr.flags
      BY <1>1, <2>2, <2>3, GotoKept
    <2>5. Arrived(m)
      BY <1>1, <1>2, <2>4 DEF Arrived, LiveIn
    <2> QED BY <2>1, <2>4, <2>5, ContinueStep, ProgressInd
  <1>5. ASSUME NEW commit \in BOOLEAN,
               Continue([UpdateCustomvariables(InsertPerfdatas(mgr)) EXCEPT !.at = "take"],
                        commit)
        PROVE  ManagerInd'
    <2>1. PICK i \in Instance : i = InsertPerfdatas(mgr)
      BY <1>1, InsertPerfdatasFields
    <2>2. PICK n \in Instance : n = UpdateCustomvariables(i)
      BY UpdateCustomvariablesFields
    <2> DEFINE m == [n EXCEPT !.at = "take"]
    <2>3. Continue(m, commit)
      BY <1>5, <2>1, <2>2
    <2>4. /\ m \in Instance /\ m.at = "take" /\ m.sent = n.sent /\ m.flags = n.flags
          /\ m.fifo = n.fifo /\ m.timeline = n.timeline /\ m.ack = n.ack
          /\ m.events = n.events /\ m.exit = n.exit /\ m.refs = n.refs
          /\ m.dropped = n.dropped /\ m.db = n.db
      BY DEF Instance, LoopPoint
    <2> HIDE DEF m
    <2>5. /\ n.sent = i.sent \union ToSet(i.bulk) /\ n.flags = i.flags \union ToSet(i.bulk)
          /\ n.fifo = i.fifo /\ n.timeline = i.timeline /\ n.ack = i.ack
          /\ n.events = i.events /\ n.exit = i.exit /\ n.refs = i.refs
          /\ n.dropped = i.dropped /\ n.db = i.db
      BY <2>2, UpdateCustomvariablesFields
    <2>6. /\ i.sent = mgr.sent \union ToSet(mgr.perfdata)
          /\ i.bulk = mgr.bulk /\ i.flags = mgr.flags
          /\ i.fifo = mgr.fifo /\ i.timeline = mgr.timeline /\ i.ack = mgr.ack
          /\ i.events = mgr.events /\ i.exit = mgr.exit /\ i.refs = mgr.refs
          /\ i.dropped = mgr.dropped /\ i.db = mgr.db
      BY <1>1, <2>1, InsertPerfdatasFields
    <2>7. /\ m.sent = mgr.sent \union ToSet(mgr.bulk) \union ToSet(mgr.perfdata)
          /\ m.flags = mgr.flags \union ToSet(mgr.bulk)
          /\ ToSet(mgr.perfdata) \subseteq m.sent \union ToSet(m.perfdata)
      BY <2>4, <2>5, <2>6
    <2>8. /\ m.fifo = mgr.fifo /\ m.timeline = mgr.timeline /\ m.ack = mgr.ack
          /\ m.events = mgr.events /\ m.exit = mgr.exit /\ m.refs = mgr.refs
          /\ m.dropped = mgr.dropped /\ m.db = mgr.db
      BY <2>4, <2>5, <2>6
    <2>9. /\ MgrKept(m)
          /\ m.flags \subseteq mgr.flags \union m.sent \union Ignored \union Perfdata
      BY <1>1, <2>4, <2>7, <2>8, BulkKept
    <2>10. Arrived(m)
      BY <1>1, <2>4, <2>8, <2>9 DEF Arrived, LiveIn, Between
    <2> QED BY <2>3, <2>9, <2>10, ContinueStep, ProgressInd
  <1>6. CASE mgr.db # "ok" /\ Throw([mgr EXCEPT !.perfdata = <<>>])
    BY <1>1, <1>6, PerfdataThrowStep, ProgressInd
  <1>7. CASE /\ mgr.db # "ok" /\ mgr.bulk # <<>>
             /\ Throw([mgr EXCEPT !.flags = @ \union {Head(mgr.bulk)}])
    BY <1>1, <1>7, BulkThrowStep, ProgressInd
  <1> QED BY <1>3, <1>4, <1>5, <1>6, <1>7

(* A queue that has grown too long.                                        *)
LEMMA BulkInLoopInd ==
    ASSUME ManagerInd, BulkInLoop PROVE ManagerInd'
  <1> USE DEF ManagerInd
  <1>1. mgr.at \in {"process", "take"} /\ mgr \in Instance
    BY StateTypes DEF BulkInLoop, At
  <1>2. \/ mgr.db = "ok" /\ Continue(InsertPerfdatas(mgr), FALSE)
        \/ mgr.db # "ok" /\ Throw([mgr EXCEPT !.perfdata = <<>>])
        \/ /\ mgr.db = "ok"
           /\ \E commit \in BOOLEAN : Continue(UpdateCustomvariables(mgr), commit)
        \/ /\ mgr.db # "ok" /\ Len(mgr.bulk) > MaxBulk
           /\ Throw([mgr EXCEPT !.flags = @ \union {Head(mgr.bulk)}])
    BY DEF BulkInLoop
  <1>3. CASE Continue(InsertPerfdatas(mgr), FALSE)
    <2>1. PICK m \in Instance : m = InsertPerfdatas(mgr)
      BY <1>1, InsertPerfdatasFields
    <2>2. /\ m.sent = mgr.sent \union ToSet(mgr.perfdata) /\ m.at = mgr.at
          /\ m.bulk = mgr.bulk /\ m.flags = mgr.flags
          /\ m.fifo = mgr.fifo /\ m.timeline = mgr.timeline /\ m.ack = mgr.ack
          /\ m.events = mgr.events /\ m.exit = mgr.exit /\ m.refs = mgr.refs
          /\ m.dropped = mgr.dropped /\ m.db = mgr.db
      BY <1>1, <2>1, InsertPerfdatasFields
    <2>3. MgrKept(m)
      <3>1. HeldIn(mgr) = HeldIn(m)
        BY <2>2 DEF HeldIn
      <3> QED BY <1>1, <2>2, <3>1 DEF MgrKept
    <2>4. Arrived(m)
      BY <1>1, <2>2 DEF Arrived, LiveIn, Between, Taken
    <2> QED BY <1>3, <2>1, <2>3, <2>4, ContinueStep, ProgressInd
  <1>4. CASE mgr.db # "ok" /\ Throw([mgr EXCEPT !.perfdata = <<>>])
    BY <1>1, <1>4, PerfdataThrowStep, ProgressInd
  <1>5. ASSUME NEW commit \in BOOLEAN, Continue(UpdateCustomvariables(mgr), commit)
        PROVE  ManagerInd'
    <2>1. PICK m \in Instance : m = UpdateCustomvariables(mgr)
      BY <1>1, UpdateCustomvariablesFields
    <2>2. /\ m.sent = mgr.sent \union ToSet(mgr.bulk)
          /\ m.flags = mgr.flags \union ToSet(mgr.bulk)
          /\ m.at = mgr.at /\ m.perfdata = mgr.perfdata
          /\ m.fifo = mgr.fifo /\ m.timeline = mgr.timeline /\ m.ack = mgr.ack
          /\ m.events = mgr.events /\ m.exit = mgr.exit /\ m.refs = mgr.refs
          /\ m.dropped = mgr.dropped /\ m.db = mgr.db
      BY <1>1, <2>1, UpdateCustomvariablesFields
    <2>3. /\ MgrKept(m)
          /\ m.flags \subseteq mgr.flags \union m.sent \union Ignored \union Perfdata
      <3>1. ToSet(mgr.perfdata) \subseteq m.sent \union ToSet(m.perfdata)
        BY <2>2
      <3> QED BY <1>1, <2>2, <3>1, BulkKept
    <2>4. Arrived(m)
      BY <1>1, <2>2, <2>3 DEF Arrived, LiveIn, Between, Taken
    <2> QED BY <1>5, <2>1, <2>3, <2>4, ContinueStep, ProgressInd
  <1>6. CASE /\ mgr.db # "ok" /\ Len(mgr.bulk) > MaxBulk
             /\ Throw([mgr EXCEPT !.flags = @ \union {Head(mgr.bulk)}])
    <2>1. mgr.bulk # <<>>
      <3>1. MaxBulk \in Nat /\ Len(mgr.bulk) > MaxBulk
        BY <1>6, ConstantTypes
      <3> QED BY <3>1
    <2> QED BY <1>1, <1>6, <2>1, BulkThrowStep, ProgressInd
  <1> QED BY <1>2, <1>3, <1>4, <1>5, <1>6

(* The first event of a batch, and the others. *)
LEMMA HeadAndTail ==
    ASSUME NEW S, NEW s \in Seq(S), s # <<>>
    PROVE  /\ Head(s) \in S /\ Tail(s) \in Seq(S)
           /\ ToSet(s) = {Head(s)} \union ToSet(Tail(s))
  <1>1. /\ Len(s) \in Nat \ {0} /\ Head(s) = s[1] /\ Head(s) \in S
        /\ Tail(s) \in Seq(S) /\ Len(Tail(s)) = Len(s) - 1
    OBVIOUS
  <1>2. \A i \in 1 .. Len(s) - 1 : Tail(s)[i] = s[i + 1]
    OBVIOUS
  <1>3. PICK t \in Seq(S) : t = Tail(s)
    BY <1>1
  <1>4. \A e : e \in ToSet(t) <=> \E i \in 1 .. Len(s) - 1 : e = s[i + 1]
    <2>1. Len(t) = Len(s) - 1 /\ \A i \in 1 .. Len(s) - 1 : t[i] = s[i + 1]
      BY <1>1, <1>2, <1>3
    <2>2. \A e : e \in ToSet(t) <=> \E i \in 1 .. Len(t) : e = t[i]
      BY ToSetMember
    <2> QED BY <2>1, <2>2
  <1>5. \A e : e \in ToSet(s) <=> \E i \in 1 .. Len(s) : e = s[i]
    BY ToSetMember
  <1>6. ASSUME NEW i \in 1 .. Len(s) PROVE s[i] \in {Head(s)} \union ToSet(t)
    <2>1. CASE i = 1
      BY <1>1, <2>1
    <2>2. CASE i # 1
      <3>1. i - 1 \in 1 .. Len(s) - 1 /\ (i - 1) + 1 = i
        BY <1>1, <2>2
      <3> QED BY <1>4, <3>1
    <2> QED BY <2>1, <2>2
  <1>7. \A i \in 1 .. Len(s) - 1 : i + 1 \in 1 .. Len(s)
    BY <1>1
  <1>8. 1 \in 1 .. Len(s)
    BY <1>1
  <1> QED BY <1>1, <1>3, <1>4, <1>5, <1>6, <1>7, <1>8

(* What the handler of an event leaves. *)
LEMMA HandledFields ==
    ASSUME NEW m \in Instance, NEW e \in Event, NEW n, n = Handled(m, e)
    PROVE  /\ n \in Instance
           /\ n.fifo = m.fifo /\ n.timeline = m.timeline /\ n.ack = m.ack
           /\ n.events = m.events /\ n.at = m.at /\ n.exit = m.exit
           /\ n.broken = m.broken /\ n.refs = m.refs /\ n.dropped = m.dropped
           /\ n.db = m.db
           /\ m.flags \subseteq n.flags /\ m.sent \subseteq n.sent
           /\ ToSet(m.bulk) \subseteq ToSet(n.bulk)
           /\ ToSet(m.perfdata) \subseteq ToSet(n.perfdata)
           /\ e \in n.flags \union ToSet(n.bulk)
           /\ n.flags \subseteq m.flags \union n.sent \union Ignored \union Perfdata
           /\ n.flags \intersect Perfdata
                \subseteq m.flags \union n.sent \union ToSet(n.perfdata)
  <1>1. /\ m.bulk \in Seq(Event) /\ m.perfdata \in Seq(Event)
        /\ m.sent \subseteq Event /\ m.flags \subseteq Event
    BY FieldTypes
  <1>2. PICK f \in SUBSET Event, d \in SUBSET Event :
           f = m.flags \union {e} /\ d = m.sent \union {e}
    BY <1>1
  <1>3. PICK b \in Seq(Event), q \in Seq(Event) :
           b = Append(m.bulk, e) /\ q = Append(m.perfdata, e)
    <2>1. Append(m.bulk, e) \in Seq(Event)
      BY <1>1, ToSetAppend
    <2>2. Append(m.perfdata, e) \in Seq(Event)
      BY <1>1, ToSetAppend
    <2> QED BY <2>1, <2>2
  <1>4. /\ ToSet(b) = ToSet(m.bulk) \union {e}
        /\ ToSet(q) = ToSet(m.perfdata) \union {e}
    BY <1>1, <1>3, ToSetAppend
  <1>5. Ignored \intersect Perfdata = {}
    BY KindsAssumption DEF Ignored, Perfdata
  <1>5a. Bulk \intersect (Ignored \union Perfdata) = {}
    BY DEF Bulk, Ignored, Perfdata
  <1>6. CASE e \in Ignored
    <2>1. n = [m EXCEPT !.flags = f]
      <3>1. Handled(m, e) = [m EXCEPT !.flags = @ \union {e}]
        <4>1. e \in Ignored /\ e \notin Bulk /\ e \notin Perfdata
          BY <1>5, <1>5a, <1>6
        <4> QED BY <4>1 DEF Handled
      <3> QED BY <1>2, <3>1
    <2>2. /\ n \in Instance /\ n.flags = f /\ n.sent = m.sent /\ n.bulk = m.bulk
          /\ n.perfdata = m.perfdata
          /\ n.fifo = m.fifo /\ n.timeline = m.timeline /\ n.ack = m.ack
          /\ n.events = m.events /\ n.at = m.at /\ n.exit = m.exit
          /\ n.broken = m.broken /\ n.refs = m.refs /\ n.dropped = m.dropped
          /\ n.db = m.db
      BY <2>1 DEF Instance
    <2> QED BY <1>2, <1>5, <1>6, <2>2
  <1>7. CASE e \notin Ignored /\ e \in Bulk
    <2>1. n = [m EXCEPT !.bulk = b]
      <3>1. Handled(m, e) = ProcessCustomVariable(m, e)
        <4>1. e \notin Ignored /\ e \in Bulk /\ e \notin Perfdata
          BY <1>5a, <1>7
        <4> QED BY <4>1 DEF Handled
      <3> QED BY <1>3, <3>1 DEF ProcessCustomVariable
    <2>2. /\ n \in Instance /\ n.flags = m.flags /\ n.sent = m.sent /\ n.bulk = b
          /\ n.perfdata = m.perfdata
          /\ n.fifo = m.fifo /\ n.timeline = m.timeline /\ n.ack = m.ack
          /\ n.events = m.events /\ n.at = m.at /\ n.exit = m.exit
          /\ n.broken = m.broken /\ n.refs = m.refs /\ n.dropped = m.dropped
          /\ n.db = m.db
      BY <2>1 DEF Instance
    <2> QED BY <1>4, <2>2
  <1>8. CASE e \notin Ignored /\ e \notin Bulk /\ e \in Perfdata
    <2>1. n = [m EXCEPT !.perfdata = q, !.flags = f]
      BY <1>2, <1>3, <1>8 DEF Handled, StorageProcessServiceStatus
    <2>2. /\ n \in Instance /\ n.flags = f /\ n.sent = m.sent /\ n.bulk = m.bulk
          /\ n.perfdata = q
          /\ n.fifo = m.fifo /\ n.timeline = m.timeline /\ n.ack = m.ack
          /\ n.events = m.events /\ n.at = m.at /\ n.exit = m.exit
          /\ n.broken = m.broken /\ n.refs = m.refs /\ n.dropped = m.dropped
          /\ n.db = m.db
      BY <2>1 DEF Instance
    <2> QED BY <1>2, <1>4, <1>8, <2>2
  <1>9. CASE e \notin Ignored /\ e \notin Bulk /\ e \notin Perfdata
    <2>1. n = [m EXCEPT !.sent = d, !.flags = f]
      BY <1>2, <1>9 DEF Handled, ProcessNeb
    <2>2. /\ n \in Instance /\ n.flags = f /\ n.sent = d /\ n.bulk = m.bulk
          /\ n.perfdata = m.perfdata
          /\ n.fifo = m.fifo /\ n.timeline = m.timeline /\ n.ack = m.ack
          /\ n.events = m.events /\ n.at = m.at /\ n.exit = m.exit
          /\ n.broken = m.broken /\ n.refs = m.refs /\ n.dropped = m.dropped
          /\ n.db = m.db
      BY <2>1 DEF Instance
    <2> QED BY <1>2, <2>2
  <1> QED BY <1>6, <1>7, <1>8, <1>9

(* One event of the batch: its handler, or the exception that drops it.    *)
LEMMA HandleEventInd ==
    ASSUME ManagerInd, HandleEvent PROVE ManagerInd'
  <1> USE DEF ManagerInd
  <1>1. mgr.at = "process" /\ mgr.events # <<>> /\ mgr \in Instance
    BY StateTypes DEF HandleEvent, At, Taken
  <1>2. PICK e \in Event : e = Head(mgr.events)
    BY <1>1, FieldTypes, HeadAndTail
  <1>3. PICK rest \in Seq(Event) : rest = Tail(mgr.events)
    BY <1>1, FieldTypes, HeadAndTail
  <1>4. ToSet(mgr.events) = {e} \union ToSet(rest)
    BY <1>1, <1>2, <1>3, FieldTypes, HeadAndTail
  <1>5. PICK p \in {"take", "process"} : p = IF rest = <<>> THEN "take" ELSE "process"
    OBVIOUS
  <1> DEFINE taken == [mgr EXCEPT !.events = rest, !.at = p]
  <1>6. taken = [mgr EXCEPT !.events = Tail(@),
                            !.at = IF Tail(mgr.events) = <<>> THEN "take" ELSE "process"]
    BY <1>3, <1>5
  <1>7. \/ \E count \in 0 .. MaxPending, commit \in BOOLEAN :
             Continue([Handled(taken, e) EXCEPT !.count = count], commit)
        \/ QueryFails([taken EXCEPT !.dropped = @ \union {e}])
    <2>1. \/ \E count \in {IF mgr.count < MaxPending THEN mgr.count + 1 ELSE MaxPending,
                           MaxPending}, commit \in BOOLEAN :
               Continue([Handled(taken, e) EXCEPT !.count = count], commit)
          \/ QueryFails([taken EXCEPT !.dropped = @ \union {e}])
      <3> HIDE DEF taken
      <3> QED BY <1>2, <1>6 DEF HandleEvent
    <2>2. {IF mgr.count < MaxPending THEN mgr.count + 1 ELSE MaxPending, MaxPending}
             \subseteq 0 .. MaxPending
      <3>1. mgr.count \in 0 .. MaxPending /\ MaxPending \in Nat
        BY <1>1, FieldTypes, ConstantTypes
      <3> QED BY <3>1
    <2> HIDE DEF taken
    <2> QED BY <2>1, <2>2
  <1>8. /\ taken \in Instance /\ taken.events = rest /\ taken.at = p
        /\ taken.fifo = mgr.fifo /\ taken.timeline = mgr.timeline /\ taken.ack = mgr.ack
        /\ taken.flags = mgr.flags /\ taken.bulk = mgr.bulk /\ taken.perfdata = mgr.perfdata
        /\ taken.exit = mgr.exit /\ taken.broken = mgr.broken /\ taken.refs = mgr.refs
        /\ taken.dropped = mgr.dropped /\ taken.db = mgr.db /\ taken.sent = mgr.sent
    BY <1>1 DEF Instance, LoopPoint
  <1> HIDE DEF taken
  <1>9. p = "process" <=> rest # <<>>
    BY <1>5
  <1>10. ASSUME NEW count \in 0 .. MaxPending, NEW commit \in BOOLEAN,
                Continue([Handled(taken, e) EXCEPT !.count = count], commit)
         PROVE  ManagerInd'
    <2>1. PICK n \in Instance : n = Handled(taken, e)
      BY <1>8, HandledFields
    <2>2. /\ n.fifo = mgr.fifo /\ n.timeline = mgr.timeline /\ n.ack = mgr.ack
          /\ n.events = rest /\ n.at = p /\ n.exit = mgr.exit
          /\ n.refs = mgr.refs /\ n.dropped = mgr.dropped
          /\ n.db = mgr.db
      BY <1>8, <2>1, HandledFields
    <2>3. /\ mgr.flags \subseteq n.flags /\ mgr.sent \subseteq n.sent
          /\ ToSet(mgr.bulk) \subseteq ToSet(n.bulk)
          /\ ToSet(mgr.perfdata) \subseteq ToSet(n.perfdata)
          /\ e \in n.flags \union ToSet(n.bulk)
          /\ n.flags \subseteq mgr.flags \union n.sent \union Ignored \union Perfdata
          /\ n.flags \intersect Perfdata
               \subseteq mgr.flags \union n.sent \union ToSet(n.perfdata)
      <3>1. /\ taken.flags \subseteq n.flags /\ taken.sent \subseteq n.sent
            /\ ToSet(taken.bulk) \subseteq ToSet(n.bulk)
            /\ ToSet(taken.perfdata) \subseteq ToSet(n.perfdata)
            /\ e \in n.flags \union ToSet(n.bulk)
            /\ n.flags \subseteq taken.flags \union n.sent \union Ignored \union Perfdata
            /\ n.flags \intersect Perfdata
                 \subseteq taken.flags \union n.sent \union ToSet(n.perfdata)
        BY <1>8, <2>1, HandledFields
      <3>2. /\ taken.flags = mgr.flags /\ taken.sent = mgr.sent
            /\ taken.bulk = mgr.bulk /\ taken.perfdata = mgr.perfdata
        BY <1>8
      <3> QED BY <3>1, <3>2
    <2> DEFINE m == [n EXCEPT !.count = count]
    <2>4. /\ m \in Instance /\ m.fifo = n.fifo /\ m.timeline = n.timeline /\ m.ack = n.ack
          /\ m.events = n.events /\ m.at = n.at /\ m.exit = n.exit /\ m.refs = n.refs
          /\ m.dropped = n.dropped /\ m.db = n.db /\ m.flags = n.flags
          /\ m.sent = n.sent /\ m.bulk = n.bulk /\ m.perfdata = n.perfdata
      BY DEF Instance
    <2>5. Continue(m, commit)
      BY <1>10, <2>1
    <2> HIDE DEF m
    <2>6. MgrKept(m)
      <3>1. HeldIn(mgr) \subseteq HeldIn(m)
        BY <1>4, <2>2, <2>3, <2>4 DEF HeldIn
      <3> QED BY <1>1, <2>2, <2>3, <2>4, <3>1 DEF MgrKept
    <2>7. Arrived(m)
      BY <1>1, <1>9, <2>2, <2>3, <2>4 DEF Arrived, LiveIn, Between
    <2> QED BY <2>5, <2>6, <2>7, ContinueStep, ProgressInd
  <1>11. CASE QueryFails([taken EXCEPT !.dropped = @ \union {e}])
    <2>1. PICK d \in SUBSET Event : d = taken.dropped \union {e}
      BY <1>8, FieldTypes
    <2> DEFINE m == [taken EXCEPT !.dropped = d]
    <2>2. QueryFails(m)
      BY <1>11, <2>1
    <2>3. /\ m \in Instance /\ m.dropped = d /\ m.events = rest /\ m.at = p
          /\ m.fifo = mgr.fifo /\ m.timeline = mgr.timeline /\ m.ack = mgr.ack
          /\ m.flags = mgr.flags /\ m.bulk = mgr.bulk /\ m.perfdata = mgr.perfdata
          /\ m.exit = mgr.exit /\ m.refs = mgr.refs
          /\ m.db = mgr.db /\ m.sent = mgr.sent
      BY <1>8 DEF Instance
    <2> HIDE DEF m
    <2>4. MgrKept(m)
      <3>1. HeldIn(mgr) \subseteq HeldIn(m)
        BY <1>4, <1>8, <2>1, <2>3 DEF HeldIn
      <3> QED BY <1>1, <2>3, <3>1 DEF MgrKept
    <2>5. Thrown(m)
      BY <1>1, <2>1, <2>3, <2>4 DEF Thrown
    <2> QED BY <2>2, <2>5, QueryFailsStep, ProgressInd
  <1> QED BY <1>7, <1>10, <1>11

(* The connection meets an error: there is an instance, since something    *)
(* was sent.                                                               *)
LEMMA ConnectionErrorInd ==
    ASSUME ManagerInd, ConnectionError PROVE ManagerInd'
  <1> USE DEF ManagerInd
  <1>1. PICK kind \in {"gone", "lost", "statement"}, X \in SUBSET mgr.sent :
          /\ mgr' = [mgr EXCEPT !.db = kind, !.sent = X]
          /\ failed' = failed \union (mgr.sent \ X)
    <2>1. CASE \E kind \in {"gone", "lost"} :
                 /\ mgr' = [mgr EXCEPT !.db = kind, !.sent = {}]
                 /\ failed' = failed \union mgr.sent
      <3>1. {} \in SUBSET mgr.sent /\ mgr.sent \ {} = mgr.sent
        OBVIOUS
      <3> QED BY <2>1, <3>1
    <2>2. CASE \E e \in mgr.sent :
                 /\ mgr' = [mgr EXCEPT !.db = "statement", !.sent = @ \ {e}]
                 /\ failed' = failed \union {e}
      <3>1. PICK e \in mgr.sent :
              /\ mgr' = [mgr EXCEPT !.db = "statement", !.sent = @ \ {e}]
              /\ failed' = failed \union {e}
        BY <2>2
      <3>2. PICK X \in SUBSET mgr.sent : X = mgr.sent \ {e}
        OBVIOUS
      <3>3. mgr' = [mgr EXCEPT !.db = "statement", !.sent = X]
        BY <3>1, <3>2
      <3>4. mgr.sent \ X = {e}
        BY <3>2
      <3>5. failed' = failed \union (mgr.sent \ X)
        BY <3>1, <3>4
      <3> QED BY <3>3, <3>5
    <2> QED BY <2>1, <2>2 DEF ConnectionError
  <1>2. /\ mgr.sent # {} /\ mgr.db = "ok" /\ UNCHANGED <<stored, streamVars>>
        /\ faults < MaxFaults /\ faults' = faults + 1
    BY DEF ConnectionError
  <1>3. mgr.at # "null"
    BY <1>2, NoInstanceFields DEF Opened
  <1>4. mgr \in Instance /\ X \subseteq Event
    BY StateTypes, FieldTypes
  <1>5. /\ mgr' \in Instance /\ mgr'.db = kind /\ mgr'.sent = X
        /\ mgr'.fifo = mgr.fifo /\ mgr'.timeline = mgr.timeline /\ mgr'.ack = mgr.ack
        /\ mgr'.events = mgr.events /\ mgr'.at = mgr.at /\ mgr'.exit = mgr.exit
        /\ mgr'.broken = mgr.broken /\ mgr'.refs = mgr.refs /\ mgr'.dropped = mgr.dropped
        /\ mgr'.flags = mgr.flags /\ mgr'.bulk = mgr.bulk /\ mgr'.perfdata = mgr.perfdata
    BY <1>1, <1>4 DEF Instance
  <1>6. TypeOK'
    <2>1. failed' \subseteq Event
      <3>1. mgr.sent \subseteq Event /\ failed \subseteq Event
        BY <1>4, FieldTypes DEF TypeOK
      <3> QED BY <1>1, <3>1
    <2>2. faults' \in 0 .. MaxFaults
      <3>1. faults \in 0 .. MaxFaults /\ MaxFaults \in Nat
        BY ConstantTypes DEF TypeOK
      <3> QED BY <1>2, <3>1
    <2> QED BY <1>2, <1>5, <2>1, <2>2 DEF TypeOK, streamVars
  <1>7. Held' = Held /\ Safe \subseteq Safe' /\ mgr.sent \subseteq mgr'.sent \union Safe'
    BY <1>1, <1>2, <1>5 DEF Held, Safe
  <1>8. Live /\ mgr'.flags = mgr.flags /\ mgr'.db # "ok"
    BY <1>1, <1>2, <1>5 DEF Live
  <1>9. Taken' /\ Drained'
    BY <1>2, <1>5, <1>8 DEF Taken, Drained, streamVars
  <1>10. Progress
    BY <1>2, <1>3, <1>5, <1>7, <1>8, <1>9 DEF Progress
  <1> QED BY <1>6, <1>10, ProgressInd

(* The number of flagged events at the front of a timeline. *)
LEMMA CleanCounts ==
    ASSUME NEW m \in Instance, NEW s \in Streams
    PROVE  /\ Clean(m, s) \in 0 .. Len(m.timeline[s])
           /\ \A k \in 1 .. Clean(m, s) : m.timeline[s][k] \in m.flags
  <1> DEFINE n == Len(m.timeline[s])
             K == {k \in 1 .. n : \A j \in 1 .. k : m.timeline[s][j] \in m.flags}
             c == Cardinality(K)
  <1>1. n \in Nat
    <2>1. m.timeline[s] \in Seq(Event)
      BY FieldTypes
    <2> QED BY <2>1
  <1>2. \A k \in K : k \in 1 .. n /\ (\A j \in 1 .. k : m.timeline[s][j] \in m.flags)
    OBVIOUS
  <1>3. Clean(m, s) = c
    BY DEF Clean
  <1>4. \A k \in 1 .. n : (\A j \in 1 .. k : m.timeline[s][j] \in m.flags) => k \in K
    OBVIOUS
  <1>5. K \subseteq 1 .. n
    OBVIOUS
  <1> HIDE DEF n, K
  <1>6. IsFiniteSet(1 .. n) /\ Cardinality(1 .. n) = n
    <2>1. IsFiniteSet(1 .. n) /\ Cardinality(1 .. n) = IF 1 > n THEN 0 ELSE n - 1 + 1
      BY <1>1, FS_Interval
    <2> QED BY <1>1, <2>1
  <1>7. c \in 0 .. n /\ IsFiniteSet(K)
    <2>1. IsFiniteSet(K) /\ c <= n
      BY <1>5, <1>6, FS_Subset
    <2>2. c \in Nat
      BY <2>1, FS_CardinalityType
    <2> QED BY <1>1, <2>1, <2>2
  <1> HIDE DEF c
  <1>8. ASSUME NEW k \in 1 .. c PROVE k \in K
    <2> SUFFICES ASSUME k \notin K PROVE FALSE
      OBVIOUS
    <2>1. k \in Nat /\ k >= 1 /\ k <= c /\ c \in Nat /\ c <= n
      BY <1>1, <1>7
    <2>2. ASSUME NEW i \in K PROVE i \in 1 .. k - 1
      <3>1. i \in 1 .. n /\ i \in Int /\ i >= 1
        BY <1>1, <1>2
      <3>2. ~(i >= k)
        <4> SUFFICES ASSUME i >= k PROVE FALSE
          OBVIOUS
        <4>1. \A j \in 1 .. k : j \in 1 .. i
          BY <2>1, <3>1
        <4>2. \A j \in 1 .. k : m.timeline[s][j] \in m.flags
          BY <1>2, <4>1
        <4>3. k \in 1 .. n
          BY <1>1, <2>1
        <4> QED BY <1>4, <4>2, <4>3
      <3> QED BY <2>1, <3>1, <3>2
    <2>3. IsFiniteSet(1 .. k - 1) /\ Cardinality(1 .. k - 1) = k - 1
      <3>1. k - 1 \in Int /\ 1 \in Int
        BY <2>1
      <3>2. /\ IsFiniteSet(1 .. k - 1)
            /\ Cardinality(1 .. k - 1) = IF 1 > k - 1 THEN 0 ELSE (k - 1) - 1 + 1
        BY <3>1, FS_Interval
      <3> QED BY <2>1, <3>2
    <2>4. K \subseteq 1 .. k - 1
      BY <2>2
    <2>5. c <= k - 1
      BY <2>3, <2>4, FS_Subset DEF c
    <2> QED BY <2>1, <2>5
  <1>9. \A k \in 1 .. c : m.timeline[s][k] \in m.flags
    <2> SUFFICES ASSUME NEW k \in 1 .. c PROVE m.timeline[s][k] \in m.flags
      OBVIOUS
    <2>1. k \in K
      BY <1>8
    <2>2. k \in 1 .. k
      BY <1>7
    <2> QED BY <1>2, <2>1, <2>2
  <1> QED BY <1>3, <1>7, <1>9 DEF n

(* What is left of a timeline. *)
Rest == [s \in Streams |-> SubSeq(mgr.timeline[s], Clean(mgr, s) + 1, Len(mgr.timeline[s]))]

(* What was counted has its flag; the rest follows it.                     *)
LEMMA RestFacts ==
    ASSUME TypeOK, NEW s \in Streams
    PROVE  /\ Clean(mgr, s) \in Nat /\ Len(mgr.timeline[s]) \in Nat
           /\ Clean(mgr, s) <= Len(mgr.timeline[s])
           /\ \A k \in 1 .. Clean(mgr, s) : mgr.timeline[s][k] \in mgr.flags
           /\ Rest[s] \in Seq(Event) /\ Len(Rest[s]) = Len(mgr.timeline[s]) - Clean(mgr, s)
           /\ \A i \in 1 .. Len(Rest[s]) :
                /\ Clean(mgr, s) + i \in 1 .. Len(mgr.timeline[s])
                /\ Rest[s][i] = mgr.timeline[s][Clean(mgr, s) + i]
           /\ ToSet(Rest[s]) \subseteq ToSet(mgr.timeline[s])
  <1> DEFINE t == mgr.timeline[s]
             c == Clean(mgr, s)
  <1>1. t \in Seq(Event) /\ Len(t) \in Nat
    <2>1. mgr \in Instance
      BY StateTypes
    <2>2. mgr.timeline \in [Streams -> Seq(Event)]
      BY <2>1, FieldTypes
    <2>3. t \in Seq(Event)
      BY <2>2
    <2> HIDE DEF t
    <2> QED BY <2>3
  <1>2. c \in 0 .. Len(t) /\ \A k \in 1 .. c : t[k] \in mgr.flags
    BY StateTypes, CleanCounts
  <1>3. Rest[s] = SubSeq(t, c + 1, Len(t))
    BY DEF Rest
  <1> HIDE DEF t, c
  <1>4. /\ Rest[s] \in Seq(Event) /\ Len(Rest[s]) = Len(t) - c
        /\ \A i \in 1 .. Len(t) - c : Rest[s][i] = t[c + i]
        /\ ToSet(t) = ToSet(SubSeq(t, 1, c)) \union ToSet(Rest[s])
    BY <1>1, <1>2, <1>3, ToSetCut
  <1>5. \A i \in 1 .. Len(t) - c : c + i \in 1 .. Len(t)
    BY <1>1, <1>2
  <1>6. c \in Nat /\ c <= Len(t)
    BY <1>1, <1>2
  <1> QED BY <1>1, <1>2, <1>4, <1>5, <1>6 DEF t, c

(* The end of a batch: the commit, then the count. *)
LEMMA FinishStep ==
    ASSUME ManagerInd, FinishActions
    PROVE  /\ TypeOK'
           /\ mgr.at = "finish" /\ mgr'.at \in {"top", "again"}
           /\ mgr'.timeline = Rest
           /\ mgr'.ack = [s \in Streams |-> mgr.ack[s] + Clean(mgr, s)]
           /\ mgr'.flags = mgr.flags \intersect UNION {ToSet(Rest[s]) : s \in Streams}
           /\ mgr'.fifo = mgr.fifo /\ mgr'.events = <<>> /\ mgr.events = <<>>
           /\ mgr'.bulk = mgr.bulk /\ mgr'.perfdata = mgr.perfdata
           /\ mgr'.exit = mgr.exit /\ mgr'.refs = mgr.refs /\ mgr'.dropped = mgr.dropped
           /\ mgr'.sent = {} /\ mgr'.db = mgr.db
           /\ stored' = stored \union mgr.sent /\ UNCHANGED <<failed, streamVars>>
  <1> USE DEF ManagerInd
  <1>1. mgr.at = "finish" /\ mgr.events = <<>> /\ mgr \in Instance
    BY StateTypes DEF FinishActions, At, Taken
  <1>2. PICK a \in [Streams -> Nat] : a = [s \in Streams |-> mgr.ack[s] + Clean(mgr, s)]
    <2>1. ASSUME NEW s \in Streams PROVE mgr.ack[s] + Clean(mgr, s) \in Nat
      <3>1. mgr.ack[s] \in Nat /\ Clean(mgr, s) \in Nat
        BY <1>1, FieldTypes, RestFacts
      <3> QED BY <3>1
    <2> QED BY <2>1
  <1>3. PICK t \in [Streams -> Seq(Event)] : t = Rest
    <2>1. \A s \in Streams : Rest[s] \in Seq(Event)
      BY RestFacts
    <2> QED BY <2>1 DEF Rest
  <1>4. PICK f \in SUBSET Event :
           f = mgr.flags \intersect UNION {ToSet(Rest[s]) : s \in Streams}
    BY <1>1, FieldTypes
  <1> DEFINE m == [mgr EXCEPT !.ack = a, !.timeline = t, !.flags = f, !.at = "top"]
  <1>5. \/ Continue(m, TRUE)
        \/ Continue(Caught(m), TRUE)
    BY <1>2, <1>3, <1>4 DEF FinishActions, Rest
  <1>6. /\ m \in Instance /\ m.at = "top" /\ m.timeline = Rest /\ m.ack = a /\ m.flags = f
        /\ m.fifo = mgr.fifo /\ m.events = <<>> /\ m.bulk = mgr.bulk
        /\ m.perfdata = mgr.perfdata /\ m.exit = mgr.exit /\ m.refs = mgr.refs
        /\ m.dropped = mgr.dropped /\ m.sent = mgr.sent /\ m.db = mgr.db
    BY <1>1, <1>3 DEF Instance, LoopPoint
  <1> HIDE DEF m
  <1>7. PICK n \in Instance :
          /\ Continue(n, TRUE) /\ n.at \in {"top", "again"}
          /\ n.timeline = Rest /\ n.ack = a /\ n.flags = f
          /\ n.fifo = mgr.fifo /\ n.events = <<>> /\ n.bulk = mgr.bulk
          /\ n.perfdata = mgr.perfdata /\ n.exit = mgr.exit /\ n.refs = mgr.refs
          /\ n.dropped = mgr.dropped /\ n.sent = mgr.sent /\ n.db = mgr.db
    <2>1. CASE Continue(m, TRUE)
      BY <1>6, <2>1
    <2>2. CASE Continue(Caught(m), TRUE)
      <3> DEFINE k == Caught(m)
      <3>1. Continue(k, TRUE)
        BY <2>2
      <3>2. /\ k \in Instance /\ k.fifo = m.fifo /\ k.timeline = m.timeline
            /\ k.flags = m.flags /\ k.ack = m.ack
            /\ k.bulk = m.bulk /\ k.perfdata = m.perfdata
            /\ k.exit = m.exit /\ k.refs = m.refs
            /\ k.sent = m.sent /\ k.db = m.db
        BY <1>6, CaughtFields
      <3>3. /\ k.events = <<>> /\ k.at = "again"
            /\ k.dropped = m.dropped \union ToSet(m.events)
        BY <1>6, CaughtFields
      <3> HIDE DEF k
      <3>4. k.dropped = mgr.dropped
        BY <1>6, <3>3, ToSetEmpty
      <3> QED BY <1>6, <3>1, <3>2, <3>3, <3>4
    <2> QED BY <1>5, <2>1, <2>2
  <1>8. /\ mgr' = [n EXCEPT !.sent = {}] /\ stored' = stored \union mgr.sent
        /\ UNCHANGED <<failed, faults, streamVars>>
    <2>1. n.sent \ mgr.sent = {}
      BY <1>7
    <2> QED BY <1>7, <2>1 DEF Continue
  <1>9. /\ mgr' \in Instance /\ mgr'.sent = {} /\ mgr'.at = n.at
        /\ mgr'.timeline = n.timeline /\ mgr'.ack = n.ack /\ mgr'.flags = n.flags
        /\ mgr'.fifo = n.fifo /\ mgr'.events = n.events /\ mgr'.bulk = n.bulk
        /\ mgr'.perfdata = n.perfdata /\ mgr'.exit = n.exit /\ mgr'.refs = n.refs
        /\ mgr'.dropped = n.dropped /\ mgr'.db = n.db
    BY <1>8 DEF Instance
  <1>10. TypeOK'
    <2>1. mgr.sent \subseteq Event
      BY <1>1, FieldTypes
    <2> QED BY <1>8, <1>9, <2>1 DEF TypeOK, streamVars
  <1> QED BY <1>1, <1>2, <1>4, <1>7, <1>8, <1>9, <1>10

(* The flagged events that are counted have just been committed.           *)
LEMMA FinishActionsInd ==
    ASSUME ManagerInd, FinishActions PROVE ManagerInd'
  <1> USE DEF ManagerInd
  <1>1. /\ TypeOK'
        /\ mgr.at = "finish" /\ mgr'.at \in {"top", "again"}
        /\ mgr'.timeline = Rest
        /\ mgr'.ack = [s \in Streams |-> mgr.ack[s] + Clean(mgr, s)]
        /\ mgr'.flags = mgr.flags \intersect UNION {ToSet(Rest[s]) : s \in Streams}
        /\ mgr'.fifo = mgr.fifo /\ mgr'.events = <<>> /\ mgr.events = <<>>
        /\ mgr'.bulk = mgr.bulk /\ mgr'.perfdata = mgr.perfdata
        /\ mgr'.exit = mgr.exit /\ mgr'.refs = mgr.refs /\ mgr'.dropped = mgr.dropped
        /\ mgr'.sent = {} /\ mgr'.db = mgr.db
        /\ stored' = stored \union mgr.sent /\ failed' = failed
        /\ UNCHANGED <<stream, pending, pos, popped, process, overlap, made>>
    BY FinishStep DEF streamVars
  <1>2. Opened' /\ Alone'
    BY <1>1 DEF Opened, Alone, OpenStreams
  <1>3. Taken' /\ Drained'
    BY <1>1 DEF Taken, Drained
  <1>4. mgr.flags \subseteq Safe' /\ Safe \subseteq Safe'
    <2>1. mgr.flags \subseteq mgr.sent \union Safe
      BY <1>1 DEF Flagged, Live
    <2> QED BY <1>1, <2>1 DEF Safe
  <1>5. Flagged'
    BY <1>1, <1>4 DEF Flagged
  <1>6. Waiting'
    <2> SUFFICES ASSUME NEW s \in Streams, NEW e \in ToSet(Rest[s]) PROVE e \in Held'
      BY <1>1 DEF Waiting
    <2>1. e \in Held
      BY RestFacts DEF Waiting
    <2>2. e \in mgr.flags => e \in mgr'.flags
      BY <1>1
    <2> QED BY <1>1, <2>1, <2>2 DEF Held
  <1>7. ASSUME NEW s \in Streams, Known
        PROVE  /\ Counts(s)'
               /\ \A e \in Event :
                    e[1] = s /\ e[2] <= popped'[s] + mgr'.ack[s] =>
                      e \in mgr.flags \/ e[2] <= popped[s] + mgr.ack[s]
    <2> DEFINE t == mgr.timeline[s]
               c == Clean(mgr, s)
               r == Rest[s]
               b == popped[s] + mgr.ack[s]
    <2>1. /\ \A k \in 1 .. Len(t) : t[k] = <<s, b + k>>
          /\ stream[s] = "open" => /\ pos[s] = b + Len(t)
                                   /\ pending[s] = mgr.ack[s] + Len(t)
      BY <1>7 DEF Numbered, Counts
    <2>2. /\ c \in Nat /\ Len(t) \in Nat /\ c <= Len(t)
          /\ Len(r) = Len(t) - c
      BY RestFacts
    <2>3. \A k \in 1 .. c : t[k] \in mgr.flags
      BY RestFacts
    <2>4. \A i \in 1 .. Len(r) : c + i \in 1 .. Len(t) /\ r[i] = t[c + i]
      BY RestFacts
    <2>5. popped[s] \in Nat /\ mgr.ack[s] \in Nat /\ b \in Nat
      <3>1. popped[s] \in Nat /\ mgr.ack[s] \in Nat
        BY StateTypes, FieldTypes
      <3> QED BY <3>1
    <2>6. mgr'.ack[s] = mgr.ack[s] + c /\ mgr'.timeline[s] = r /\ popped'[s] = popped[s]
      BY <1>1
    <2>7. popped'[s] + mgr'.ack[s] = b + c
      BY <2>2, <2>5, <2>6
    <2>8. stream'[s] = stream[s] /\ pos'[s] = pos[s] /\ pending'[s] = pending[s]
      BY <1>1
    <2> HIDE DEF t, c, r
    <2>9. \A k \in 1 .. Len(r) : r[k] = <<s, (b + c) + k>>
      <3> SUFFICES ASSUME NEW k \in 1 .. Len(r) PROVE r[k] = <<s, (b + c) + k>>
        OBVIOUS
      <3>1. r[k] = <<s, b + (c + k)>>
        BY <2>1, <2>4
      <3>2. b + (c + k) = (b + c) + k
        BY <2>2, <2>5
      <3> QED BY <3>1, <3>2
    <2>10. stream[s] = "open" => /\ pos[s] = (b + c) + Len(r)
                                 /\ pending[s] = mgr'.ack[s] + Len(r)
      <3> SUFFICES ASSUME stream[s] = "open"
                   PROVE  /\ pos[s] = (b + c) + Len(r)
                          /\ pending[s] = mgr'.ack[s] + Len(r)
        OBVIOUS
      <3>1. pos[s] = b + Len(t) /\ pending[s] = mgr.ack[s] + Len(t)
        BY <2>1
      <3>2. mgr'.ack[s] = mgr.ack[s] + c
        BY <2>6
      <3> HIDE DEF b
      <3> QED BY <2>2, <2>5, <3>1, <3>2
    <2>11. Counts(s)'
      <3> HIDE DEF b
      <3>1. \A k \in 1 .. Len(mgr'.timeline[s]) :
              mgr'.timeline[s][k] = <<s, popped'[s] + mgr'.ack[s] + k>>
        BY <2>6, <2>7, <2>9
      <3>2. stream'[s] = "open" =>
              /\ pos'[s] = popped'[s] + mgr'.ack[s] + Len(mgr'.timeline[s])
              /\ pending'[s] = mgr'.ack[s] + Len(mgr'.timeline[s])
        BY <2>6, <2>7, <2>8, <2>10
      <3> QED BY <3>1, <3>2 DEF Counts
    <2>12. ASSUME NEW e \in Event, e[1] = s, e[2] <= popped'[s] + mgr'.ack[s], ~(e[2] <= b)
           PROVE  e \in mgr.flags
      <3>1. e[2] \in 1 .. Total[s] /\ Total[s] \in Nat /\ e = <<s, e[2]>>
        BY <2>12, EventTypes
      <3>2. e[2] \in Nat
        BY <3>1
      <3>3. e[2] <= b + c
        BY <2>7, <2>12
      <3> HIDE DEF b
      <3>4. e[2] - b \in 1 .. c /\ e[2] - b \in 1 .. Len(t) /\ b + (e[2] - b) = e[2]
        BY <2>2, <2>5, <2>12, <3>2, <3>3
      <3>5. t[e[2] - b] = e
        BY <2>1, <3>1, <3>4
      <3> QED BY <2>3, <3>4, <3>5
    <2> QED BY <2>11, <2>12
  <1>8. Numbered'
    BY <1>1, <1>7 DEF Numbered, Known, Zeroed
  <1>9. Counted'
    <2> SUFFICES ASSUME Zeroed, ~overlap, NEW e \in Event,
                        e[2] <= popped'[e[1]] + mgr'.ack[e[1]]
                 PROVE  e \in Safe'
      BY <1>1 DEF Counted, Zeroed
    <2>1. e[1] \in Streams /\ Known
      BY <1>1, EventTypes DEF Known
    <2>2. e \in mgr.flags \/ e[2] <= popped[e[1]] + mgr.ack[e[1]]
      BY <1>7, <2>1
    <2> QED BY <1>4, <2>2 DEF Counted
  <1>10. PerfdataThere'
    <2> SUFFICES ASSUME Zeroed, made = 1, mgr.db = "ok", NEW e \in Perfdata,
                        \/ e \in mgr'.flags
                        \/ e[2] <= popped'["storage"] + mgr'.ack["storage"]
                 PROVE  e \in Here'
      BY <1>1 DEF PerfdataThere, Zeroed
    <2>1. Known /\ "storage" \in Streams /\ e \in Event /\ e[1] = "storage"
      BY <1>1, StateTypes, PerfdataTypes DEF Known
    <2>2. e \in mgr.flags \/ e[2] <= popped["storage"] + mgr.ack["storage"]
      BY <1>1, <1>7, <2>1
    <2>3. e \in Here
      BY <1>1, <2>2 DEF PerfdataThere
    <2>4. Here \subseteq Here'
      BY <1>1 DEF Here
    <2> QED BY <2>3, <2>4
  <1> QED BY <1>1, <1>2, <1>3, <1>5, <1>6, <1>8, <1>9, <1>10

-----------------------------------------------------------------------------
(* The invariant. *)

(* There is no instance at first.                                          *)
LEMMA InitInd ==
    ASSUME Init PROVE ManagerInd
  <1>1. /\ mgr = NoInstance /\ process = "up" /\ overlap = FALSE /\ made = 0
        /\ \A s \in Streams : /\ stream[s] = "closed" /\ pending[s] = 0
                              /\ pos[s] = 0 /\ popped[s] = 0
    BY DEF Init
  <1>2. mgr.at = "null" /\ ~mgr.exit /\ \A s \in Streams : mgr.ack[s] = 0
    BY <1>1, NoInstanceFields
  <1>3. TypeOK
    <2>1. 0 \in 0 .. MaxManagers /\ 0 \in 0 .. MaxFaults
      BY ConstantTypes
    <2>2. /\ stream \in [Streams -> {"closed", "open", "joining", "joining old"}]
          /\ pending \in [Streams -> Int] /\ pos \in [Streams -> Nat]
          /\ popped \in [Streams -> Nat]
      BY DEF Init
    <2>3. \A s \in Streams : popped[s] <= pos[s] /\ pos[s] <= Total[s]
      <3> SUFFICES ASSUME NEW s \in Streams PROVE popped[s] <= pos[s] /\ pos[s] <= Total[s]
        OBVIOUS
      <3>1. Total[s] \in Nat /\ popped[s] = 0 /\ pos[s] = 0
        BY <1>1, EventTypes
      <3> QED BY <3>1
    <2> QED BY <1>1, <2>1, <2>2, <2>3, NoInstanceFields DEF Init, TypeOK
  <1>4. Opened /\ Alone
    BY <1>1, <1>2 DEF Opened, Alone
  <1>5. /\ mgr.flags = {} /\ mgr.sent = {} /\ mgr.events = <<>>
        /\ \A s \in Streams : mgr.timeline[s] = <<>>
    BY <1>1, NoInstanceFields
  <1>6. Taken /\ Flagged /\ Drained
    BY <1>2, <1>5 DEF Taken, Flagged, Drained, Between
  <1>7. Waiting
    BY <1>5, ToSetEmpty DEF Waiting
  <1>8. Numbered /\ PerfdataThere
    BY <1>2 DEF Numbered, Known, PerfdataThere
  <1>9. Counted
    <2> SUFFICES ASSUME NEW e \in Event, e[2] <= popped[e[1]] + mgr.ack[e[1]] PROVE FALSE
      BY DEF Counted
    <2>1. e[1] \in Streams /\ e[2] \in 1 .. Total[e[1]] /\ Total[e[1]] \in Nat
      BY EventTypes
    <2>2. popped[e[1]] = 0 /\ mgr.ack[e[1]] = 0
      BY <1>1, <1>2, <2>1
    <2> QED BY <2>1, <2>2
  <1> QED BY <1>3, <1>4, <1>6, <1>7, <1>8, <1>9 DEF ManagerInd

(* Nothing depends on anything else.                                       *)
LEMMA StutterInd ==
    ASSUME ManagerInd, UNCHANGED vars PROVE ManagerInd'
  <1> USE DEF vars
  <1>1. TypeOK'
    BY DEF ManagerInd, TypeOK
  <1>2. Opened' /\ Alone' /\ Taken' /\ Drained'
    BY DEF ManagerInd, Opened, OpenStreams, Alone, Taken, Drained
  <1>3. Waiting'
    BY DEF ManagerInd, Waiting, Held
  <1>4. Numbered'
    BY DEF ManagerInd, Numbered, Known, Counts, Zeroed
  <1>5. Flagged'
    BY DEF ManagerInd, Flagged, Live, Safe
  <1>6. Counted'
    BY DEF ManagerInd, Counted, Safe, Zeroed
  <1>7. PerfdataThere'
    BY DEF ManagerInd, PerfdataThere, Here, Zeroed
  <1> QED BY <1>1, <1>2, <1>3, <1>4, <1>5, <1>6, <1>7 DEF ManagerInd

(* The invariant holds for any memory of mfifo::_ack.                      *)
LEMMA ManagerInductive == Spec => []ManagerInd
  <1>1. Init => ManagerInd
    BY InitInd
  <1>2. ManagerInd /\ [Next]_vars => ManagerInd'
    <2> SUFFICES ASSUME ManagerInd, [Next]_vars PROVE ManagerInd'
      OBVIOUS
    <2>1. CASE OpenSql
      BY <2>1, OpenSqlInd
    <2>2. CASE OpenStorage
      BY <2>2, OpenStorageInd
    <2>3. ASSUME NEW s \in Streams, NullInstance(s) PROVE ManagerInd'
      BY <2>3, NullInstanceInd
    <2>4. ASSUME NEW s \in Streams, Write(s) PROVE ManagerInd'
      BY <2>4, WriteInd
    <2>5. ASSUME NEW s \in Streams, Flush(s) PROVE ManagerInd'
      BY <2>5, FlushInd
    <2>6. ASSUME NEW s \in Streams, Unload(s) PROVE ManagerInd'
      BY <2>6, UnloadInd
    <2>7. ASSUME NEW s \in Streams, Join(s) PROVE ManagerInd'
      BY <2>7, JoinInd
    <2>8. CASE LoadCaches
      BY <2>8, LoadCachesInd
    <2>9. CASE CheckDeletedIndex
      BY <2>9, CheckDeletedIndexInd
    <2>10. CASE BulkQueries
      BY <2>10, BulkQueriesInd
    <2>11. CASE FirstEvents
      BY <2>11, FirstEventsInd
    <2>12. CASE HandleEvent
      BY <2>12, HandleEventInd
    <2>13. CASE BulkInLoop
      BY <2>13, BulkInLoopInd
    <2>14. CASE FinishActions
      BY <2>14, FinishActionsInd
    <2>15. CASE Again
      BY <2>15, AgainInd
    <2>16. CASE End
      BY <2>16, EndInd
    <2>17. CASE ConnectionError
      BY <2>17, ConnectionErrorInd
    <2>18. CASE UNCHANGED vars
      BY <2>18, StutterInd
    <2> QED BY <2>1, <2>2, <2>3, <2>4, <2>5, <2>6, <2>7, <2>8, <2>9, <2>10, <2>11, <2>12,
               <2>13, <2>14, <2>15, <2>16, <2>17, <2>18 DEF Next, Loop
  <1> QED BY <1>1, <1>2, PTL DEF Spec

(* What needs nothing of mfifo::_ack: the events behind a timeline, the    *)
(* drained exit, the process that survives without an overlap.             *)
LEMMA IndImpliesDrained ==
    ASSUME ManagerInd
    PROVE  TypeOK /\ NothingForgotten /\ ExitDrains /\ DeadNeedsOverlap
  <1> USE DEF ManagerInd
  <1>1. TypeOK /\ NothingForgotten
    BY WaitingIsNothingForgotten
  <1>2. ExitDrains
    BY DEF ExitDrains, Drained, Taken, Between
  <1>3. DeadNeedsOverlap
    BY DEF DeadNeedsOverlap, Alone
  <1> QED BY <1>1, <1>2, <1>3

(* What the streams are told, when the memory of mfifo::_ack was 0.        *)
LEMMA IndImpliesPending ==
    ASSUME ManagerInd, Zeroed PROVE PendingNotNegative
  <1> USE DEF ManagerInd
  <1> SUFFICES ASSUME ~overlap, NEW s \in Streams PROVE pending[s] >= 0
    BY DEF PendingNotNegative
  <1>1. CASE stream[s] # "open"
    BY <1>1 DEF Opened
  <1>2. CASE stream[s] = "open"
    <2>1. mgr.at # "null"
      BY <1>2 DEF Alone
    <2>2. Counts(s)
      BY <2>1 DEF Numbered, Known
    <2>3. pending[s] = mgr.ack[s] + Len(mgr.timeline[s])
      BY <1>2, <2>2 DEF Counts
    <2>4. mgr.ack[s] \in Nat
      <3>1. mgr.ack \in [Streams -> Nat]
        BY StateTypes, FieldTypes
      <3> QED BY <3>1
    <2>5. Len(mgr.timeline[s]) \in Nat
      BY RestFacts
    <2> QED BY <2>3, <2>4, <2>5
  <1> QED BY <1>1, <1>2

(* What an output may forget, when the memory of mfifo::_ack was 0.        *)
LEMMA IndImpliesKept ==
    ASSUME ManagerInd, Zeroed PROVE PoppedIsKept
  <1> USE DEF ManagerInd
  <1>1. ASSUME NEW e \in Popped
        PROVE  e \in Event /\ e[1] \in Streams /\ e[2] <= popped[e[1]] + mgr.ack[e[1]]
    <2>1. /\ e \in Event /\ e[1] \in Streams /\ e[2] \in 1 .. Total[e[1]]
          /\ Total[e[1]] \in Nat /\ e[2] <= popped[e[1]]
      BY <1>1, EventTypes DEF Popped
    <2>2. popped[e[1]] \in Nat /\ mgr.ack[e[1]] \in Nat
      BY <2>1, StateTypes, FieldTypes
    <2> QED BY <2>1, <2>2
  <1>2. PoppedIsStored
    <2> SUFFICES ASSUME ~overlap, NEW e \in Popped PROVE e \in Safe
      BY DEF PoppedIsStored, Safe
    <2> QED BY <1>1 DEF Counted
  <1>3. PerfdataKept
    <2> SUFFICES ASSUME made = 1, mgr.at \notin Ended, mgr.db = "ok",
                        NEW e \in Popped \intersect Perfdata
                 PROVE  e \in Here
      BY DEF PerfdataKept, Here
    <2>1. e[1] = "storage" /\ e[2] <= popped["storage"] + mgr.ack["storage"]
      BY <1>1, PerfdataTypes
    <2> QED BY <2>1 DEF PerfdataThere, Ended
  <1> QED BY <1>2, <1>3 DEF PoppedIsKept

(* Whatever mfifo::_ack held: an event without its flag that holds back a  *)
(* timeline is still to be handled or was dropped by an exception, a       *)
(* thread that ends has drained what it was given (_callback), and the     *)
(* process only dies when an output was opened next to an older one.       *)
THEOREM ManagerDrains == Spec => [](TypeOK /\ NothingForgotten /\ ExitDrains /\ DeadNeedsOverlap)
  <1>1. ManagerInd => TypeOK /\ NothingForgotten /\ ExitDrains /\ DeadNeedsOverlap
    BY IndImpliesDrained
  <1> QED BY <1>1, ManagerInductive, PTL

(* When the memory of mfifo::_ack was 0, no stream is told by send_event() *)
(* or get_acks() to release more than it wrote.                            *)
THEOREM ManagerCorrect ==
    ASSUME Zeroed PROVE Spec => []ManagerInv
  <1>1. ManagerInd => ManagerInv
    BY IndImpliesDrained, IndImpliesPending DEF ManagerInv
  <1> QED BY <1>1, ManagerInductive, PTL

(* When the memory of mfifo::_ack was 0, what an output may forget was     *)
(* committed, refused by the database, or is perfdata still in memory:     *)
(* _finish_actions() counts after its commit.                              *)
THEOREM ManagerKeeps ==
    ASSUME Zeroed PROVE Spec => []PoppedIsKept
  <1>1. ManagerInd => PoppedIsKept
    BY IndImpliesKept
  <1> QED BY <1>1, ManagerInductive, PTL

-----------------------------------------------------------------------------
(***************************************************************************)
(* The handlers of events (SqlActions), for any number of pollers and of   *)
(* connections.                                                            *)
(***************************************************************************)
(* The flag that a handler adds when its query creates a row that others   *)
(* refer to.                                                               *)
Marks == [host |-> "hosts", instance |-> "instances", service |-> "services",
          hg |-> "hostgroups", sg |-> "servicegroups"]
OfPoller == {"host", "instance", "service"}

GroupState == [exists : BOOLEAN, members : SUBSET Pollers]

TxShape(t) ==
    /\ t = [action |-> t.action, open |-> t.open, view |-> t.view, disk |-> t.disk,
            group |-> t.group, groupOnDisk |-> t.groupOnDisk]
    /\ t.action \in [Conns -> SUBSET Flags]
    /\ t.open = [c \in Conns |-> t.open[c]]
    /\ t.view \in [Pollers -> Rows] /\ t.disk \in [Pollers -> Rows]
    /\ t.group \in GroupState /\ t.groupOnDisk \in GroupState

(* A created row that is not committed: its flag is set, and the rows of a *)
(* poller are created on the connection of that poller only.               *)
Tracked(t) ==
    \A d \in Conns : \A a \in t.open[d] : a[1] = "create" =>
        /\ a[2][1] \in DOMAIN Marks /\ Marks[a[2][1]] \in t.action[d]
        /\ a[2][1] \in OfPoller => d = ByInstance(a[2][2])

(* The state of the timeout is shown for outdated pollers only, and is     *)
(* never the saved one.                                                    *)
RowOK(r) == r.real # Lost /\ (r.state = Lost => r.outdated)

TxOK(t) ==
    /\ TxShape(t) /\ Tracked(t)
    /\ \A p \in Pollers : RowOK(t.view[p]) /\ RowOK(t.disk[p])

(* No row whose creation one of the flags stands for is open. *)
Committed(t, flags) ==
    \A d \in Conns : \A a \in t.open[d] : a[1] = "create" => Marks[a[2][1]] \notin flags

(* The inductive invariant of the handlers. *)
SqlInd ==
    /\ TxOK(tx) /\ SqlTypeOK
    /\ \A p \in Pollers : stamps[p] # "unresponsive" => tx.view[p].state # Lost
    /\ late \subseteq {"log"}

(* mysql::choose_connection_by_instance() returns a connection. *)
LEMMA InConns == \A p \in Pollers : ByInstance(p) \in Conns
  BY SqlAssumption DEF ByInstance, Conns

(* A commit empties the connections and saves their rows; it changes       *)
(* nothing that is shown and opens nothing.                                *)
LEMMA CommitOK ==
    ASSUME NEW t, TxOK(t), NEW done \in SUBSET Conns
    PROVE  /\ TxOK(Commit(t, done)) /\ Commit(t, done).view = t.view
           /\ \A f : Committed(t, f) => Committed(Commit(t, done), f)
           /\ \A d \in Conns : \A a \in Commit(t, done).open[d] : a \in t.open[d] /\ d \notin done
  <1> DEFINE u == Commit(t, done)
  <1>0. /\ t = [action |-> t.action, open |-> t.open, view |-> t.view, disk |-> t.disk,
                group |-> t.group, groupOnDisk |-> t.groupOnDisk]
        /\ t.action \in [Conns -> SUBSET Flags] /\ t.open = [c \in Conns |-> t.open[c]]
        /\ t.disk \in [Pollers -> Rows]
    BY DEF TxOK, TxShape
  <1>a. u = [t EXCEPT !.action = [c \in Conns |-> IF c \in done THEN {} ELSE t.action[c]],
                      !.open = [c \in Conns |-> IF c \in done THEN {} ELSE t.open[c]],
                      !.disk = [p \in Pollers |->
                                   IF p % Count \in done THEN t.view[p] ELSE t.disk[p]],
                      !.groupOnDisk =
                          IF \E c \in done, a \in UNION {t.open[d] : d \in done} :
                                 a[2][1] \in {"hg", "hgm"}
                          THEN t.group ELSE t.groupOnDisk]
    BY DEF Commit
  <1> DEFINE cut == [c \in Conns |-> IF c \in done THEN {} ELSE t.action[c]]
             left == [c \in Conns |-> IF c \in done THEN {} ELSE t.open[c]]
             saved == [p \in Pollers |-> IF p % Count \in done THEN t.view[p] ELSE t.disk[p]]
             grp == IF \E c \in done, a \in UNION {t.open[d] : d \in done} :
                                 a[2][1] \in {"hg", "hgm"}
                          THEN t.group ELSE t.groupOnDisk
  <1>b. u = [t EXCEPT !.action = cut, !.open = left, !.disk = saved, !.groupOnDisk = grp]
    BY ONLY <1>a
  <1>c. grp \in {t.group, t.groupOnDisk}
    OBVIOUS
  <1>d. /\ u = [action |-> u.action, open |-> u.open, view |-> u.view, disk |-> u.disk,
                group |-> u.group, groupOnDisk |-> u.groupOnDisk]
        /\ u.action = cut /\ u.open = left /\ u.view = t.view /\ u.group = t.group
        /\ u.disk = saved /\ u.groupOnDisk = grp
    <2> HIDE DEF u, cut, left, saved, grp
    <2> QED
      BY ONLY <1>0, <1>b
  <1>1. /\ u = [action |-> u.action, open |-> u.open, view |-> u.view, disk |-> u.disk,
                group |-> u.group, groupOnDisk |-> u.groupOnDisk]
        /\ u.action = [c \in Conns |-> IF c \in done THEN {} ELSE t.action[c]]
        /\ u.open = [c \in Conns |-> IF c \in done THEN {} ELSE t.open[c]]
        /\ u.view = t.view /\ u.group = t.group
        /\ u.disk = [p \in Pollers |-> IF p % Count \in done THEN t.view[p] ELSE t.disk[p]]
        /\ u.groupOnDisk \in {t.group, t.groupOnDisk}
    <2> HIDE DEF u, grp
    <2> QED
      BY ONLY <1>c, <1>d
  <1> HIDE DEF u
  <1>2. TxShape(u)
    BY <1>1 DEF TxOK, TxShape
  <1>3. \A d \in Conns : \A a \in u.open[d] : a \in t.open[d] /\ u.action[d] = t.action[d] /\ d \notin done
    BY <1>1
  <1>4. Tracked(u)
    BY <1>3 DEF TxOK, Tracked
  <1>5. \A p \in Pollers : RowOK(u.view[p]) /\ RowOK(u.disk[p])
    BY <1>1 DEF TxOK
  <1>6. \A f : Committed(t, f) => Committed(u, f)
    BY <1>3 DEF Committed
  <1> QED
    BY <1>1, <1>2, <1>3, <1>4, <1>5, <1>6 DEF TxOK, u

(* _finish_action() keeps the invariant of the connections, and after it   *)
(* nothing is open of what its flags stand for when it is asked of every   *)
(* connection.                                                             *)
LEMMA FinishOK ==
    ASSUME NEW t, TxOK(t), NEW conns \in SUBSET Conns, NEW flags
    PROVE  /\ TxOK(FinishAction(t, conns, flags))
           /\ FinishAction(t, conns, flags).view = t.view
           /\ \A f : Committed(t, f) => Committed(FinishAction(t, conns, flags), f)
           /\ conns = Conns => Committed(FinishAction(t, conns, flags), flags)
  <1> DEFINE done == {c \in conns : t.action[c] \cap flags # {}}
             u == Commit(t, done)
  <1>1. /\ TxOK(u) /\ u.view = t.view
        /\ \A f : Committed(t, f) => Committed(u, f)
        /\ \A d \in Conns : \A a \in u.open[d] : a \in t.open[d] /\ d \notin done
    <2>1. done \in SUBSET Conns
      OBVIOUS
    <2> HIDE DEF done
    <2> QED
      BY <2>1, CommitOK
  <1> HIDE DEF u
  <1>2. conns = Conns => Committed(u, flags)
    BY <1>1 DEF TxOK, Tracked, Committed
  <1> QED
    BY <1>1, <1>2 DEF FinishAction, u

(* The query of a handler and its flags. *)
LEMMA QueryOK ==
    ASSUME NEW t, TxOK(t), NEW c \in Conns, NEW access, NEW adds \in SUBSET Flags,
           \A a \in access : a[1] = "create" =>
               /\ a[2][1] \in DOMAIN Marks /\ Marks[a[2][1]] \in adds
               /\ a[2][1] \in OfPoller => c = ByInstance(a[2][2])
    PROVE  /\ TxOK(AddAction(RunQuery(t, c, access), c, adds))
           /\ AddAction(RunQuery(t, c, access), c, adds).view = t.view
           /\ \A f : Committed(t, f) /\ (\A a \in access : a[1] # "create")
                      => Committed(AddAction(RunQuery(t, c, access), c, adds), f)
  <1> DEFINE u == AddAction(RunQuery(t, c, access), c, adds)
  <1>0. t = [action |-> t.action, open |-> t.open, view |-> t.view, disk |-> t.disk,
             group |-> t.group, groupOnDisk |-> t.groupOnDisk]
    BY DEF TxOK, TxShape
  <1> DEFINE more == [t.action EXCEPT ![c] = t.action[c] \union adds]
             sent == [t.open EXCEPT ![c] = t.open[c] \union access]
             v == [t EXCEPT !.open = sent]
  <1>a. RunQuery(t, c, access) = v
    BY <1>0 DEF RunQuery
  <1>b. v.action = t.action
    BY <1>0
  <1>c. u = [v EXCEPT !.action = more]
    BY <1>0, <1>a, <1>b DEF AddAction
  <1>d. /\ v = [action |-> v.action, open |-> v.open, view |-> v.view, disk |-> v.disk,
                group |-> v.group, groupOnDisk |-> v.groupOnDisk]
        /\ v.open = sent /\ v.view = t.view /\ v.disk = t.disk
        /\ v.group = t.group /\ v.groupOnDisk = t.groupOnDisk
    BY ONLY <1>0
  <1>1. /\ u = [action |-> u.action, open |-> u.open, view |-> u.view, disk |-> u.disk,
                group |-> u.group, groupOnDisk |-> u.groupOnDisk]
        /\ u.action = [t.action EXCEPT ![c] = t.action[c] \union adds]
        /\ u.open = [t.open EXCEPT ![c] = t.open[c] \union access]
        /\ u.view = t.view /\ u.group = t.group /\ u.disk = t.disk
        /\ u.groupOnDisk = t.groupOnDisk
    <2> HIDE DEF u, v
    <2> QED
      BY ONLY <1>c, <1>d
  <1> HIDE DEF u
  <1>2. TxShape(u)
    <2>1. u.action \in [Conns -> SUBSET Flags]
      BY <1>1 DEF TxOK, TxShape
    <2>2. u.open = [d \in Conns |-> u.open[d]]
      BY <1>1 DEF TxOK, TxShape
    <2> QED
      BY <1>1, <2>1, <2>2 DEF TxOK, TxShape
  <1>3. \A d \in Conns : /\ t.action[d] \subseteq u.action[d]
                         /\ \A a \in u.open[d] : a \in t.open[d] \/ (d = c /\ a \in access)
    BY <1>1 DEF TxOK, TxShape
  <1>4. adds \subseteq u.action[c]
    BY <1>1 DEF TxOK, TxShape
  <1>5. Tracked(u)
    BY <1>3, <1>4 DEF TxOK, Tracked
  <1>6. \A f : Committed(t, f) /\ (\A a \in access : a[1] # "create") => Committed(u, f)
    BY <1>3 DEF Committed
  <1> QED
    BY <1>1, <1>2, <1>5, <1>6 DEF TxOK, u

(* The row of a poller changes. *)
WithRow(t, p, r) ==
    [action |-> t.action, open |-> t.open, view |-> [t.view EXCEPT ![p] = r],
     disk |-> t.disk, group |-> t.group, groupOnDisk |-> t.groupOnDisk]

(* Another row of a poller. *)
LEMMA RowChanges ==
    ASSUME NEW t, TxOK(t), NEW p \in Pollers, NEW r \in Rows, RowOK(r), NEW u,
           u = WithRow(t, p, r)
    PROVE  /\ TxOK(u) /\ u.view[p] = r /\ \A q \in Pollers \ {p} : u.view[q] = t.view[q]
           /\ \A f : Committed(t, f) => Committed(u, f)
  <1>1. /\ u = [action |-> t.action, open |-> t.open, view |-> u.view, disk |-> t.disk,
                group |-> t.group, groupOnDisk |-> t.groupOnDisk]
        /\ u.view = [t.view EXCEPT ![p] = r]
    BY DEF WithRow
  <1>2. u.action = t.action /\ u.open = t.open /\ u.disk = t.disk /\ u.group = t.group
        /\ u.groupOnDisk = t.groupOnDisk
    BY <1>1
  <1>3. u.view \in [Pollers -> Rows] /\ u.view[p] = r /\ \A q \in Pollers \ {p} : u.view[q] = t.view[q]
    BY <1>1 DEF TxOK, TxShape
  <1>4. TxShape(u)
    BY <1>1, <1>2, <1>3 DEF TxOK, TxShape
  <1>5. Tracked(u) /\ \A f : Committed(t, f) => Committed(u, f)
    BY <1>2 DEF TxOK, Tracked, Committed
  <1>6. \A q \in Pollers : RowOK(u.view[q]) /\ RowOK(u.disk[q])
    BY <1>2, <1>3 DEF TxOK
  <1> QED
    BY <1>3, <1>4, <1>5, <1>6 DEF TxOK

(* The groups are not rows of a poller. *)
LEMMA GroupChanges ==
    ASSUME NEW t, TxOK(t), NEW g \in GroupState, NEW u, u = [t EXCEPT !.group = g]
    PROVE  TxOK(u) /\ u.view = t.view /\ \A f : Committed(t, f) => Committed(u, f)
  <1>1. /\ u = [action |-> t.action, open |-> t.open, view |-> t.view, disk |-> t.disk,
                group |-> g, groupOnDisk |-> t.groupOnDisk]
    BY DEF TxOK, TxShape
  <1>2. u.action = t.action /\ u.open = t.open /\ u.disk = t.disk /\ u.group = g
        /\ u.groupOnDisk = t.groupOnDisk /\ u.view = t.view
    BY <1>1
  <1>3. TxShape(u)
    BY <1>1, <1>2 DEF TxOK, TxShape
  <1>4. Tracked(u) /\ \A f : Committed(t, f) => Committed(u, f)
    BY <1>2 DEF TxOK, Tracked, Committed
  <1> QED
    BY <1>2, <1>3, <1>4 DEF TxOK

(* The rows of a query, of one table and one poller each. *)
LEMMA InAccess ==
    ASSUME NEW mode, NEW tables, NEW p, NEW a \in Access(mode, tables, p)
    PROVE  /\ a[1] = mode /\ a[2][1] \in tables /\ a[2] = Row(a[2][1], p)
           /\ a[2][1] \notin GroupTables => a[2][2] = p
  BY DEF Access, Row

(* What the timeout wrote is shown for pollers thought unresponsive only. *)
ShownAs(t, marks) ==
    \A p \in Pollers : marks[p] # "unresponsive" => t.view[p].state # Lost

(* The query of the timeout, before the row itself. *)
UpdateSent(t, p) ==
    LET c == ByInstance(p)
        ready == FinishAction(FinishAction(t, {c}, {"hosts"}), Conns,
                              {"acknowledgements", "modules", "downtimes",
                               "comments"})
    IN AddAction(RunQuery(ready, c, Access("write", {"instance", "host", "service"}, p)),
                 c, {"instances", "hosts"})

(* The query of _update_hosts_and_services_of_instance() and its flags. *)
LEMMA SentOK ==
    ASSUME NEW t, TxOK(t), NEW p \in Pollers
    PROVE  /\ TxOK(UpdateSent(t, p)) /\ UpdateSent(t, p).view = t.view
           /\ \A f : Committed(t, f) => Committed(UpdateSent(t, p), f)
  <1> DEFINE c == ByInstance(p)
             early == FinishAction(t, {c}, {"hosts"})
             ready == FinishAction(early, Conns, {"acknowledgements", "modules", "downtimes",
                               "comments"})
             access == Access("write", {"instance", "host", "service"}, p)
             sent == AddAction(RunQuery(ready, c, access), c, {"instances", "hosts"})
  <1>1. c \in Conns
    BY InConns
  <1>2. TxOK(early) /\ early.view = t.view /\ \A f : Committed(t, f) => Committed(early, f)
    BY <1>1, FinishOK
  <1>3. TxOK(ready) /\ ready.view = t.view /\ \A f : Committed(t, f) => Committed(ready, f)
    <2> HIDE DEF early
    <2> QED
      BY <1>2, FinishOK
  <1>4. TxOK(sent) /\ sent.view = t.view /\ \A f : Committed(t, f) => Committed(sent, f)
    <2>1. \A a \in access : a[1] # "create"
      BY InAccess
    <2>2. {"instances", "hosts"} \in SUBSET Flags
      BY DEF Flags
    <2> HIDE DEF ready, access, c
    <2> QED
      BY <1>1, <1>3, <2>1, <2>2, QueryOK
  <1>5. UpdateSent(t, p) = sent
    BY DEF UpdateSent
  <1> HIDE DEF sent
  <1> QED
    BY <1>4, <1>5

(* The row of the poller, shown again or saved. *)
ShowAgain(r) == [has |-> r.has, outdated |-> FALSE, state |-> r.real, real |-> r.real]
SaveState(r) == [has |-> r.has, outdated |-> TRUE, state |-> Lost, real |-> r.state]

(* The row that is put back and the row that is saved. *)
LEMMA RowSaved ==
    ASSUME NEW t, TxOK(t), NEW p \in Pollers
    PROVE  /\ t.view[p] \in Rows
           /\ ShowAgain(t.view[p]) \in Rows /\ RowOK(ShowAgain(t.view[p]))
           /\ ShowAgain(t.view[p]).state # Lost
           /\ SaveState(t.view[p]) \in Rows
           /\ t.view[p].state # Lost => RowOK(SaveState(t.view[p]))
  <1>1. PICK old : old = t.view[p]
    OBVIOUS
  <1>2. old \in Rows /\ RowOK(old)
    BY <1>1 DEF TxOK, TxShape
  <1>3. /\ old.has \in SUBSET {"instance", "host", "service", "hg"}
        /\ old.state \in Reported \union {Lost} /\ old.real \in Reported \union {Lost}
        /\ old.real # Lost
    BY <1>2 DEF RowOK, Rows
  <1>4. ShowAgain(old) \in Rows /\ SaveState(old) \in Rows
    BY <1>3 DEF ShowAgain, SaveState, Rows
  <1>5. /\ RowOK(ShowAgain(old)) /\ ShowAgain(old).state # Lost
        /\ old.state # Lost => RowOK(SaveState(old))
    BY <1>3 DEF ShowAgain, SaveState, RowOK
  <1> QED
    BY <1>1, <1>2, <1>4, <1>5

(* _update_hosts_and_services_of_instance is its query and the new row. *)
LEMMA UpdateIs ==
    ASSUME NEW t, TxOK(t), NEW p \in Pollers, NEW s, s = UpdateSent(t, p)
    PROVE  /\ UpdateHostsAndServices(t, p, TRUE) = WithRow(s, p, ShowAgain(t.view[p]))
           /\ UpdateHostsAndServices(t, p, FALSE) = WithRow(s, p, SaveState(t.view[p]))
  <1>1. /\ s = [action |-> s.action, open |-> s.open, view |-> s.view,
                     disk |-> s.disk, group |-> s.group, groupOnDisk |-> s.groupOnDisk]
        /\ s.view \in [Pollers -> Rows] /\ s.view = t.view
    BY SentOK DEF TxOK, TxShape
  <1>2. PICK old : old = t.view[p]
    OBVIOUS
  <1>3. s.view[p] = old /\ old \in Rows
    BY <1>1, <1>2
  <1>4. PICK e \in Rows : e = [old EXCEPT !.outdated = FALSE, !.state = old.real]
    BY <1>3 DEF Rows
  <1>5. PICK f \in Rows : f = [old EXCEPT !.outdated = TRUE, !.real = old.state, !.state = Lost]
    BY <1>3 DEF Rows
  <1>6. e = ShowAgain(old)
    <2>1. e = [has |-> e.has, outdated |-> e.outdated, state |-> e.state, real |-> e.real]
      BY <1>4 DEF Rows
    <2>2. e.has = old.has /\ e.outdated = FALSE /\ e.state = old.real /\ e.real = old.real
      BY <1>3, <1>4 DEF Rows
    <2> QED
      BY <2>1, <2>2 DEF ShowAgain
  <1>7. f = SaveState(old)
    <2>1. f = [has |-> f.has, outdated |-> f.outdated, state |-> f.state, real |-> f.real]
      BY <1>5 DEF Rows
    <2>2. f.has = old.has /\ f.outdated = TRUE /\ f.state = Lost /\ f.real = old.state
      BY <1>3, <1>5 DEF Rows
    <2> QED
      BY <2>1, <2>2 DEF SaveState
  <1>8. ASSUME NEW r PROVE [s EXCEPT !.view[p] = r] = WithRow(s, p, r)
    <2>1. PICK u : u = [s EXCEPT !.view[p] = r]
      OBVIOUS
    <2>2. /\ u = [action |-> u.action, open |-> u.open, view |-> u.view,
                     disk |-> u.disk, group |-> u.group, groupOnDisk |-> u.groupOnDisk]
          /\ u.action = s.action /\ u.open = s.open /\ u.view = [s.view EXCEPT ![p] = r]
          /\ u.disk = s.disk /\ u.group = s.group /\ u.groupOnDisk = s.groupOnDisk
      BY <1>1, <2>1
    <2> QED
      BY <2>1, <2>2 DEF WithRow
  <1>9. UpdateHostsAndServices(t, p, TRUE) = [s EXCEPT !.view[p] = e]
    BY <1>2, <1>3, <1>4 DEF UpdateHostsAndServices, UpdateSent
  <1>10. UpdateHostsAndServices(t, p, FALSE) = [s EXCEPT !.view[p] = f]
    BY <1>2, <1>3, <1>5 DEF UpdateHostsAndServices, UpdateSent
  <1> QED
    BY <1>2, <1>6, <1>7, <1>8, <1>9, <1>10

Restored(t, p) == UpdateHostsAndServices(t, p, TRUE)

(* A poller that talks again is shown with its saved state. *)
LEMMA RestoreOK ==
    ASSUME NEW t, TxOK(t), NEW p \in Pollers, NEW u,
           u = Restored(t, p)
    PROVE  /\ TxOK(u)
           /\ \A f : Committed(t, f) => Committed(u, f)
           /\ \A q \in Pollers \ {p} : u.view[q] = t.view[q]
           /\ u.view[p].state # Lost
  <1>1. PICK s : s = UpdateSent(t, p)
    OBVIOUS
  <1>2. TxOK(s) /\ s.view = t.view /\ \A f : Committed(t, f) => Committed(s, f)
    BY <1>1, SentOK
  <1>3. PICK r : r = ShowAgain(t.view[p])
    OBVIOUS
  <1>4. r \in Rows /\ RowOK(r) /\ r.state # Lost /\ u = WithRow(s, p, r)
    BY <1>1, <1>3, RowSaved, UpdateIs DEF Restored
  <1>5. /\ TxOK(u) /\ u.view[p] = r /\ \A q \in Pollers \ {p} : u.view[q] = s.view[q]
        /\ \A f : Committed(s, f) => Committed(u, f)
    BY ONLY <1>2, <1>4, p \in Pollers, RowChanges
  <1> QED
    BY <1>2, <1>4, <1>5

(* A poller that stopped talking has its state saved. *)
LEMMA TimeoutOK ==
    ASSUME NEW t, TxOK(t), NEW p \in Pollers, NEW u, t.view[p].state # Lost,
           u = UpdateHostsAndServices(t, p, FALSE)
    PROVE  /\ TxOK(u)
           /\ \A q \in Pollers \ {p} : u.view[q] = t.view[q]
  <1>1. PICK s : s = UpdateSent(t, p)
    OBVIOUS
  <1>2. TxOK(s) /\ s.view = t.view
    BY <1>1, SentOK
  <1>3. PICK r : r = SaveState(t.view[p])
    OBVIOUS
  <1>4. r \in Rows /\ RowOK(r) /\ u = WithRow(s, p, r)
    BY <1>1, <1>3, RowSaved, UpdateIs
  <1>5. TxOK(u) /\ u.view[p] = r /\ \A q \in Pollers \ {p} : u.view[q] = s.view[q]
    BY ONLY <1>2, <1>4, p \in Pollers, RowChanges
  <1> QED
    BY <1>2, <1>5

(* _update_timestamp(): a poller that is thought responsive afterwards is  *)
(* shown with a state it reported.                                         *)
LEMMA TouchOK ==
    ASSUME NEW t, TxOK(t), NEW p \in Pollers, stamps \in [Pollers -> {"none", "responsive", "unresponsive"}]
    PROVE  /\ TxOK(Touch(t, p))
           /\ \A f : Committed(t, f) => Committed(Touch(t, p), f)
           /\ ShownAs(t, stamps) => ShownAs(Touch(t, p), Touched(p))
           /\ Touched(p) \in [Pollers -> {"none", "responsive", "unresponsive"}]
  <1>1. Touched(p) \in [Pollers -> {"none", "responsive", "unresponsive"}]
    BY DEF Touched
  <1>2. CASE Valid(p) /\ stamps[p] = "unresponsive"
    <2>1. PICK u : u = Restored(t, p)
      OBVIOUS
    <2>2. /\ TxOK(u)
          /\ \A f : Committed(t, f) => Committed(u, f)
          /\ \A q \in Pollers \ {p} : u.view[q] = t.view[q]
          /\ u.view[p].state # Lost
      BY ONLY <2>1, TxOK(t), p \in Pollers, RestoreOK
    <2>3. Touch(t, p) = u
      BY <1>2, <2>1 DEF Touch, Restored
    <2>4. ShownAs(t, stamps) => ShownAs(u, Touched(p))
      BY <1>2, <2>2 DEF ShownAs, Touched
    <2> QED
      BY <1>1, <2>2, <2>3, <2>4
  <1>3. CASE ~(Valid(p) /\ stamps[p] = "unresponsive")
    <2>1. Touch(t, p) = t
      BY <1>3 DEF Touch
    <2>2. ShownAs(t, stamps) => ShownAs(t, Touched(p))
      BY <1>3 DEF ShownAs, Touched
    <2> QED
      BY <1>1, <2>1, <2>2
  <1> QED
    BY <1>2, <1>3

(* What the proofs need of a handler: the flags it finishes cover what its *)
(* query refers to on any connection.                                      *)
HandlerFine(kind, h) ==
    /\ h.adds \in SUBSET Flags
    /\ h.via \in {"best", "host", "poller"}
    /\ h.creates \subseteq {"service", "sg"}
    /\ "service" \in h.creates => h.via = "host" /\ "services" \in h.adds
    /\ "sg" \in h.creates => "servicegroups" \in h.adds
    /\ h.via # "best" => h.reads \subseteq OfPoller
    /\ h.via = "best" /\ kind # "log" =>
         \A r \in h.reads : r \in DOMAIN Marks /\ Marks[r] \in h.finish

(* Every handler of conflict_manager_sql.cc but the one of the logs        *)
(* finishes the flags of what its foreign keys name, or uses the           *)
(* connection of the poller.                                               *)
LEMMA HandlersFine == \A kind \in DOMAIN Handlers : HandlerFine(kind, Handlers[kind])
  <1>1. HandlerFine("acknowledgement", Acknowledgement)
    BY DEF HandlerFine, Handler, Acknowledgement, Marks, Flags, OfPoller
  <1>2. HandlerFine("comment", Comment)
    BY DEF HandlerFine, Handler, Comment, Marks, Flags, OfPoller
  <1>3. HandlerFine("custom_variable", CustomVariable)
    BY DEF HandlerFine, Handler, CustomVariable, Marks, Flags, OfPoller
  <1>4. HandlerFine("custom_variable_status", CustomVariableStatus)
    BY DEF HandlerFine, Handler, CustomVariableStatus, CustomVariable, Marks, Flags, OfPoller
  <1>5. HandlerFine("downtime", Downtime)
    BY DEF HandlerFine, Handler, Downtime, Marks, Flags, OfPoller
  <1>6. HandlerFine("event_handler", EventHandler)
    BY DEF HandlerFine, Handler, EventHandler, Marks, Flags, OfPoller
  <1>7. HandlerFine("flapping_status", FlappingStatus)
    BY DEF HandlerFine, Handler, FlappingStatus, Marks, Flags, OfPoller
  <1>8. HandlerFine("host_check", HostCheck)
    BY DEF HandlerFine, Handler, HostCheck, Marks, Flags, OfPoller
  <1>9. HandlerFine("host_dependency", HostDependency)
    BY DEF HandlerFine, Handler, HostDependency, Marks, Flags, OfPoller
  <1>10. HandlerFine("host_parent", HostParent)
    BY DEF HandlerFine, Handler, HostParent, Marks, Flags, OfPoller
  <1>11. HandlerFine("instance_status", InstanceStatus)
    BY DEF HandlerFine, Handler, InstanceStatus, Marks, Flags, OfPoller
  <1>12. HandlerFine("log", InsertLogs)
    BY DEF HandlerFine, Handler, InsertLogs, Marks, Flags, OfPoller
  <1>13. HandlerFine("module", Module)
    BY DEF HandlerFine, Handler, Module, Marks, Flags, OfPoller
  <1>14. HandlerFine("service_check", ServiceCheck)
    BY DEF HandlerFine, Handler, ServiceCheck, Marks, Flags, OfPoller
  <1>15. HandlerFine("service_dependency", ServiceDependency)
    BY DEF HandlerFine, Handler, ServiceDependency, Marks, Flags, OfPoller
  <1>16. HandlerFine("service_group", ServiceGroup)
    BY DEF HandlerFine, Handler, ServiceGroup, Marks, Flags, OfPoller
  <1>17. HandlerFine("service_group_member", ServiceGroupMember)
    BY DEF HandlerFine, Handler, ServiceGroupMember, Marks, Flags, OfPoller
  <1>18. HandlerFine("service", Service)
    BY DEF HandlerFine, Handler, Service, Marks, Flags, OfPoller
  <1>19. HandlerFine("service_status", ServiceStatus)
    BY DEF HandlerFine, Handler, ServiceStatus, Marks, Flags, OfPoller
  <1> DEFINE Named(kind) == HandlerFine(kind, Handlers[kind])
  <1>20. Handlers["acknowledgement"] = Acknowledgement
    BY DEF Handlers
  <1>21. Handlers["comment"] = Comment
    BY DEF Handlers
  <1>22. Handlers["custom_variable"] = CustomVariable
    BY DEF Handlers
  <1>23. Handlers["custom_variable_status"] = CustomVariableStatus
    BY DEF Handlers
  <1>24. Handlers["downtime"] = Downtime
    BY DEF Handlers
  <1>25. Handlers["event_handler"] = EventHandler
    BY DEF Handlers
  <1>26. Handlers["flapping_status"] = FlappingStatus
    BY DEF Handlers
  <1>27. Handlers["host_check"] = HostCheck
    BY DEF Handlers
  <1>28. Handlers["host_dependency"] = HostDependency
    BY DEF Handlers
  <1>29. Handlers["host_parent"] = HostParent
    BY DEF Handlers
  <1>30. Handlers["instance_status"] = InstanceStatus
    BY DEF Handlers
  <1>31. Handlers["log"] = InsertLogs
    BY DEF Handlers
  <1>32. Handlers["module"] = Module
    BY DEF Handlers
  <1>33. Handlers["service_check"] = ServiceCheck
    BY DEF Handlers
  <1>34. Handlers["service_dependency"] = ServiceDependency
    BY DEF Handlers
  <1>35. Handlers["service_group"] = ServiceGroup
    BY DEF Handlers
  <1>36. Handlers["service_group_member"] = ServiceGroupMember
    BY DEF Handlers
  <1>37. Handlers["service"] = Service
    BY DEF Handlers
  <1>38. Handlers["service_status"] = ServiceStatus
    BY DEF Handlers
  <1>39. DOMAIN Handlers = {"acknowledgement", "comment", "custom_variable", "custom_variable_status", "downtime", "event_handler", "flapping_status", "host_check", "host_dependency", "host_parent", "instance_status", "log", "module", "service_check", "service_dependency", "service_group", "service_group_member", "service", "service_status"}
    BY DEF Handlers
  <1> QED
    BY <1>1, <1>2, <1>3, <1>4, <1>5, <1>6, <1>7, <1>8, <1>9, <1>10, <1>11, <1>12, <1>13, <1>14, <1>15, <1>16, <1>17, <1>18, <1>19, <1>20, <1>21, <1>22, <1>23, <1>24, <1>25, <1>26, <1>27, <1>28, <1>29, <1>30, <1>31, <1>32, <1>33, <1>34, <1>35, <1>36, <1>37, <1>38, <1>39

(* Why a query meets no row that another connection has only created: it  *)
(* is on the connection of the poller, or the creation is committed.       *)
LEMMA NotLate ==
    ASSUME NEW t, TxOK(t), NEW c \in Conns, NEW access, NEW flags, Committed(t, flags),
           \A a \in access : a[1] = "read" =>
               \/ a[2][1] \in OfPoller /\ ByInstance(a[2][2]) = c
               \/ Marks[a[2][1]] \in flags
    PROVE  ~Late(t, c, access)
  <1> SUFFICES ASSUME NEW a \in access, NEW d \in Conns \ {c}, a[1] = "read",
                      NEW b \in t.open[d], b[2] = a[2], b[1] = "create"
               PROVE  FALSE
    BY DEF Late, OpenElsewhere
  <1> QED
    BY DEF TxOK, Tracked, Committed

(* The types of the other variables. *)
OtherTypes ==
    /\ stamps \in [Pollers -> {"none", "responsive", "unresponsive"}]
    /\ cache \in [host : SUBSET Pollers, group : BOOLEAN, deleted : SUBSET Pollers]
    /\ best \in [type : Kinds \union {"none"}, conn : Conns]
    /\ orphan \in BOOLEAN

(* The parts of the invariant. *)
LEMMA SqlIndIs ==
    SqlInd <=> /\ TxOK(tx) /\ OtherTypes /\ ShownAs(tx, stamps)
               /\ late \subseteq {"log"} /\ late \subseteq Kinds /\ clash \subseteq Kinds
  BY DEF SqlInd, SqlTypeOK, OtherTypes, ShownAs, TxOK, TxShape

(* The parts of the invariant after a step. *)
LEMMA SqlIndNext ==
    ASSUME TxOK(tx'), OtherTypes', ShownAs(tx', stamps'),
           late' \subseteq {"log"}, late' \subseteq Kinds, clash' \subseteq Kinds
    PROVE  SqlInd'
  <1>1. tx'.action \in [Conns -> SUBSET Flags] /\ tx'.view \in [Pollers -> Rows]
        /\ tx'.disk \in [Pollers -> Rows]
    BY DEF TxOK, TxShape
  <1>2. SqlTypeOK'
    BY <1>1 DEF SqlTypeOK, OtherTypes
  <1> QED
    BY <1>2 DEF SqlInd, ShownAs

(* A query keeps the invariant when what it creates has its flag and what  *)
(* it refers to is visible to its connection.                              *)
LEMMA SendInd ==
    ASSUME NEW t, TxOK(t), NEW c \in Conns, NEW kind \in Kinds, NEW access,
           NEW adds \in SUBSET Flags,
           \A a \in access : a[1] = "create" =>
               /\ a[2][1] \in DOMAIN Marks /\ Marks[a[2][1]] \in adds
               /\ a[2][1] \in OfPoller => c = ByInstance(a[2][2]),
           kind = "log" \/ ~Late(t, c, access),
           Send(t, c, kind, access, adds), ShownAs(t, stamps'), OtherTypes'
    PROVE  SqlInd'
  <1>1. TxOK(tx') /\ tx'.view = t.view
    BY QueryOK DEF Send
  <1>2. late' \subseteq {"log"} /\ late' \subseteq Kinds /\ clash' \subseteq Kinds
    BY DEF Send
  <1>3. ShownAs(tx', stamps')
    BY <1>1 DEF ShownAs
  <1> QED
    BY <1>1, <1>2, <1>3, SqlIndNext

(* A step that sends nothing keeps the invariant when its rows do. *)
LEMMA KeptInd ==
    ASSUME TxOK(tx'), ShownAs(tx', stamps'), OtherTypes', Kept
    PROVE  SqlInd'
  BY SqlIndNext DEF Kept

(* What a row says of the objects of the poller does not matter here. *)
LEMMA HasChanges ==
    ASSUME NEW t, TxOK(t), NEW p \in Pollers, NEW has \in SUBSET {"instance", "host", "service", "hg"},
           NEW u, u = [t EXCEPT !.view[p].has = has]
    PROVE  /\ TxOK(u)
           /\ \A f : Committed(t, f) => Committed(u, f)
           /\ \A st : ShownAs(t, st) => ShownAs(u, st)
  <1>1. /\ t = [action |-> t.action, open |-> t.open, view |-> t.view,
                     disk |-> t.disk, group |-> t.group, groupOnDisk |-> t.groupOnDisk]
        /\ t.view \in [Pollers -> Rows] /\ RowOK(t.view[p])
    BY DEF TxOK, TxShape
  <1>2. PICK r : r = [t.view[p] EXCEPT !.has = has]
    OBVIOUS
  <1>3. r \in Rows
    BY <1>1, <1>2 DEF Rows
  <1>4. r.real = t.view[p].real /\ r.state = t.view[p].state /\ r.outdated = t.view[p].outdated
    BY <1>1, <1>2 DEF Rows
  <1>5. u.view = [t.view EXCEPT ![p] = r]
    BY <1>1, <1>2
  <1>6. /\ u = [action |-> u.action, open |-> u.open, view |-> u.view,
                     disk |-> u.disk, group |-> u.group, groupOnDisk |-> u.groupOnDisk]
        /\ u.action = t.action /\ u.open = t.open
        /\ u.disk = t.disk /\ u.group = t.group /\ u.groupOnDisk = t.groupOnDisk
    BY <1>1
  <1>7. u = WithRow(t, p, r)
    BY <1>5, <1>6 DEF WithRow
  <1>8. RowOK(r)
    BY <1>1, <1>4 DEF RowOK
  <1>9. /\ TxOK(u) /\ u.view[p] = r /\ \A q \in Pollers \ {p} : u.view[q] = t.view[q]
        /\ \A f : Committed(t, f) => Committed(u, f)
    BY ONLY <1>3, <1>7, <1>8, TxOK(t), p \in Pollers, RowChanges
  <1>10. \A q \in Pollers : u.view[q].state = t.view[q].state
    BY <1>4, <1>9
  <1> QED
    BY <1>9, <1>10 DEF ShownAs

(* The rows of the query of a handler. *)
LEMMA AccessesOf ==
    ASSUME NEW h, NEW p \in Pollers, NEW a \in AccessOf(h, p)
    PROVE  /\ a[1] = "create" => a[2][1] \in h.creates
           /\ a[1] = "read" => a[2][1] \in h.reads
           /\ a[2][1] \notin GroupTables => a[2][2] = p
  <1>1. CASE a \in Access("create", h.creates, p)
    BY <1>1, InAccess
  <1>2. CASE a \in Access("write", h.writes, p)
    BY <1>2, InAccess
  <1>3. CASE a \in Access("read", h.reads, p)
    BY <1>3, InAccess
  <1> QED
    BY <1>1, <1>2, <1>3 DEF AccessOf

(* choose_best_connection() returns a connection. *)
LEMMA BestIsConn ==
    ASSUME OtherTypes, NEW kind \in Kinds, NEW c \in BestConns(kind)
    PROVE  c \in Conns /\ [type |-> kind, conn |-> c] \in [type : Kinds \union {"none"}, conn : Conns]
  BY DEF OtherTypes, BestConns

(* The handlers that differ only in their tables. *)
LEMMA ProcessInd ==
    ASSUME SqlInd, NEW kind \in DOMAIN Handlers, NEW p \in Pollers, Process(kind, p)
    PROVE  SqlInd'
  <1>1. /\ TxOK(tx) /\ OtherTypes /\ ShownAs(tx, stamps)
    BY SqlIndIs
  <1>2. PICK h : h = Handlers[kind]
    OBVIOUS
  <1>3. HandlerFine(kind, h)
    BY <1>2, HandlersFine
  <1>4. PICK ready : ready = FinishAction(tx, Conns, h.finish)
    OBVIOUS
  <1>5. TxOK(ready) /\ Committed(ready, h.finish) /\ ShownAs(ready, stamps)
    <2>1. TxOK(ready) /\ ready.view = tx.view /\ Committed(ready, h.finish)
      BY <1>1, <1>4, FinishOK
    <2> QED
      BY <1>1, <2>1 DEF ShownAs
  <1>6. PICK checked : checked = IF h.valid THEN Touch(ready, p) ELSE ready
    OBVIOUS
  <1>7. stamps' = IF h.valid THEN Touched(p) ELSE stamps
    BY <1>2 DEF Process
  <1>8. /\ TxOK(checked) /\ Committed(checked, h.finish) /\ ShownAs(checked, stamps')
        /\ stamps' \in [Pollers -> {"none", "responsive", "unresponsive"}]
    <2>1. stamps \in [Pollers -> {"none", "responsive", "unresponsive"}]
      BY <1>1 DEF OtherTypes
    <2>2. CASE h.valid
      BY <1>5, <1>6, <1>7, <2>1, <2>2, TouchOK
    <2>3. CASE ~h.valid
      BY <1>5, <1>6, <1>7, <2>1, <2>3
    <2> QED
      BY <2>2, <2>3
  <1>9. PICK more : more = checked.view[p].has \union (h.creates \cap {"service"})
    OBVIOUS
  <1>10. more \in SUBSET {"instance", "host", "service", "hg"}
    BY <1>8, <1>9 DEF TxOK, TxShape, Rows
  <1>11. PICK sto : sto = [checked EXCEPT !.view[p].has = more]
    OBVIOUS
  <1>12. /\ TxOK(sto) /\ Committed(sto, h.finish) /\ ShownAs(sto, stamps')
    <2>1. PICK marks : marks = stamps'
      OBVIOUS
    <2>2. ShownAs(checked, marks)
      BY <1>8, <2>1
    <2>3. TxOK(sto) /\ Committed(sto, h.finish) /\ ShownAs(sto, marks)
      BY ONLY <1>8, <1>10, <1>11, <2>2, p \in Pollers, HasChanges
    <2> QED
      BY <2>1, <2>3
  <1>13. sto = [checked EXCEPT !.view[p].has = @ \union (h.creates \cap {"service"})]
    BY <1>8, <1>9, <1>11 DEF TxOK, TxShape
  <1>14. PICK c \in IF h.via = "best" THEN BestConns(kind) ELSE {ByInstance(p)} :
              /\ Send(sto, c, kind, AccessOf(h, p), h.adds)
              /\ best' = IF h.via = "best" THEN [type |-> kind, conn |-> c]
                         ELSE best
    BY <1>2, <1>4, <1>6, <1>13 DEF Process
  <1>15. kind \in Kinds
    BY DEF Kinds
  <1>16. c \in Conns /\ best' \in [type : Kinds \union {"none"}, conn : Conns]
    <2>1. CASE h.via = "best"
      BY <1>1, <1>14, <1>15, <2>1, BestIsConn
    <2>2. CASE h.via # "best"
      BY <1>1, <1>14, <2>2, InConns DEF OtherTypes
    <2> QED
      BY <2>1, <2>2
  <1>17. OtherTypes'
    BY <1>1, <1>8, <1>16 DEF OtherTypes, Process
  <1>18. h.via # "best" => c = ByInstance(p)
    BY <1>14
  <1>19. h.via \in {"best", "host", "poller"}
    BY <1>3 DEF HandlerFine
  <1>20. ASSUME NEW a \in AccessOf(h, p), a[1] = "create"
         PROVE  /\ a[2][1] \in DOMAIN Marks /\ Marks[a[2][1]] \in h.adds
                /\ a[2][1] \in OfPoller => c = ByInstance(a[2][2])
    <2>1. a[2][1] \in h.creates /\ (a[2][1] \notin GroupTables => a[2][2] = p)
      BY <1>20, AccessesOf
    <2>2. CASE a[2][1] = "service"
      BY <1>3, <1>18, <2>1, <2>2 DEF HandlerFine, Marks, GroupTables
    <2>3. CASE a[2][1] = "sg"
      BY <1>3, <2>1, <2>3 DEF HandlerFine, Marks, OfPoller
    <2> QED
      BY <1>3, <2>1, <2>2, <2>3 DEF HandlerFine
  <1>21. kind # "log" => ~Late(sto, c, AccessOf(h, p))
    <2> SUFFICES ASSUME kind # "log" PROVE ~Late(sto, c, AccessOf(h, p))
      OBVIOUS
    <2>1. ASSUME NEW a \in AccessOf(h, p), a[1] = "read"
          PROVE  \/ a[2][1] \in OfPoller /\ ByInstance(a[2][2]) = c
                 \/ Marks[a[2][1]] \in h.finish
      <3>1. a[2][1] \in h.reads /\ (a[2][1] \notin GroupTables => a[2][2] = p)
        BY <2>1, AccessesOf
      <3>2. CASE h.via = "best"
        BY <1>3, <3>1, <3>2 DEF HandlerFine
      <3>3. CASE h.via # "best"
        BY <1>3, <1>18, <3>1, <3>3 DEF HandlerFine, OfPoller, GroupTables
      <3> QED
        BY <3>2, <3>3
    <2> QED
      BY <1>12, <1>16, <2>1, NotLate
  <1>22. h.adds \in SUBSET Flags
    BY <1>3 DEF HandlerFine
  <1> QED
    BY ONLY <1>12, <1>14, <1>15, <1>16, <1>17, <1>20, <1>21, <1>22, SendInd

(* An event that is not stored. *)
LEMMA DiscardInd ==
    ASSUME SqlInd, NEW kind \in DOMAIN Handlers, NEW p \in Pollers, Discard(kind, p)
    PROVE  SqlInd'
  <1>1. /\ TxOK(tx) /\ OtherTypes /\ ShownAs(tx, stamps)
    BY SqlIndIs
  <1>2. PICK flags : tx' = FinishAction(tx, Conns, flags)
    BY DEF Discard
  <1>3. TxOK(tx') /\ tx'.view = tx.view
    BY <1>1, <1>2, FinishOK
  <1>4. ShownAs(tx', stamps') /\ OtherTypes'
    BY <1>1, <1>3 DEF ShownAs, OtherTypes, Discard, Kept
  <1> QED
    BY <1>3, <1>4, KeptInd DEF Discard

(* _finish_actions(). *)
LEMMA CommitAllInd ==
    ASSUME SqlInd, CommitAll
    PROVE  SqlInd'
  <1>1. /\ TxOK(tx) /\ OtherTypes /\ ShownAs(tx, stamps)
    BY SqlIndIs
  <1>2. TxOK(tx') /\ tx'.view = tx.view
    BY <1>1, CommitOK DEF CommitAll
  <1>3. ShownAs(tx', stamps') /\ OtherTypes'
    BY <1>1, <1>2 DEF ShownAs, OtherTypes, CommitAll, Kept
  <1> QED
    BY <1>2, <1>3, KeptInd DEF CommitAll

(* _update_hosts_and_services_of_unresponsive_instances(). *)
LEMMA UnresponsiveInd ==
    ASSUME SqlInd, NEW p \in Pollers, Unresponsive(p)
    PROVE  SqlInd'
  <1>1. /\ TxOK(tx) /\ OtherTypes /\ ShownAs(tx, stamps)
    BY SqlIndIs
  <1>2. TxOK(tx') /\ \A q \in Pollers \ {p} : tx'.view[q] = tx.view[q]
    BY <1>1, TimeoutOK DEF Unresponsive, ShownAs
  <1>3. ShownAs(tx', stamps')
    BY <1>1, <1>2 DEF ShownAs, OtherTypes, Unresponsive
  <1>4. OtherTypes'
    BY <1>1 DEF OtherTypes, Unresponsive, Kept
  <1> QED
    BY <1>2, <1>3, <1>4, KeptInd DEF Unresponsive

(* _process_host_status(). *)
LEMMA HostStatusInd ==
    ASSUME SqlInd, NEW p \in Pollers, NEW s \in Reported, HostStatus(p, s)
    PROVE  SqlInd'
  <1>1. /\ TxOK(tx) /\ OtherTypes /\ ShownAs(tx, stamps)
    BY SqlIndIs
  <1>2. PICK ready : ready = FinishAction(tx, Conns,
                     {"instances", "downtimes", "comments", "custom_variables",
                      "hostgroups", "host_dependencies", "host_parents"})
    OBVIOUS
  <1>3. TxOK(ready) /\ ready.view = tx.view
    BY <1>1, <1>2, FinishOK
  <1>4. PICK u : u = [ready EXCEPT !.view[p].state = s]
    OBVIOUS
  <1>5. TxOK(u) /\ ShownAs(u, stamps)
    <2>1. /\ ready = [action |-> ready.action, open |-> ready.open, view |-> ready.view,
                     disk |-> ready.disk, group |-> ready.group, groupOnDisk |-> ready.groupOnDisk]
          /\ ready.view \in [Pollers -> Rows] /\ RowOK(ready.view[p])
      BY <1>3 DEF TxOK, TxShape
    <2>2. PICK r : r = [ready.view[p] EXCEPT !.state = s]
      OBVIOUS
    <2>3. r \in Rows
      BY <2>1, <2>2 DEF Rows
    <2>4. r.real = ready.view[p].real /\ r.state = s
      BY <2>1, <2>2 DEF Rows
    <2>5. u.view = [ready.view EXCEPT ![p] = r]
      BY <1>4, <2>1, <2>2
    <2>6. /\ u = [action |-> u.action, open |-> u.open, view |-> u.view,
                     disk |-> u.disk, group |-> u.group, groupOnDisk |-> u.groupOnDisk]
          /\ u.action = ready.action /\ u.open = ready.open
          /\ u.disk = ready.disk /\ u.group = ready.group /\ u.groupOnDisk = ready.groupOnDisk
      BY <1>4, <2>1
    <2>7. u = WithRow(ready, p, r)
      BY <2>5, <2>6 DEF WithRow
    <2>8. RowOK(r) /\ s # Lost
      BY <2>1, <2>4, SqlAssumption DEF RowOK, Lost
    <2>9. TxOK(u) /\ u.view[p] = r /\ \A q \in Pollers \ {p} : u.view[q] = ready.view[q]
      BY ONLY <1>3, <2>3, <2>7, <2>8, p \in Pollers, RowChanges
    <2> QED
      BY <1>1, <1>3, <2>4, <2>8, <2>9 DEF ShownAs
  <1> DEFINE access == Access("write", {"host"}, p)
  <1>6. Send(u, ByInstance(p), "host_status", access, {"hosts"})
        /\ stamps' = stamps
    BY <1>2, <1>4 DEF HostStatus
  <1>7. OtherTypes'
    BY <1>1 DEF OtherTypes, HostStatus
  <1>8. \A a \in access : a[1] # "create" /\ a[1] # "read"
    BY InAccess
  <1>9. "host_status" \in Kinds /\ {"hosts"} \in SUBSET Flags /\ ByInstance(p) \in Conns
    BY InConns DEF Kinds, Flags
  <1>10. ~Late(u, ByInstance(p), access)
    BY <1>8 DEF Late, OpenElsewhere
  <1> HIDE DEF access
  <1>11. ShownAs(u, stamps')
    BY <1>5, <1>6
  <1> QED
    BY ONLY <1>5, <1>6, <1>7, <1>8, <1>9, <1>10, <1>11, SendInd

(* _process_host(). *)
LEMMA HostInd ==
    ASSUME SqlInd, NEW p \in Pollers, NEW enabled \in BOOLEAN, Host(p, enabled)
    PROVE  SqlInd'
  <1>1. /\ TxOK(tx) /\ OtherTypes /\ ShownAs(tx, stamps)
    BY SqlIndIs
  <1>2. PICK ready : ready = FinishAction(tx, Conns,
                     {"instances", "hostgroups", "host_dependencies",
                      "host_parents", "custom_variables", "downtimes",
                      "comments", "service_dependencies"})
    OBVIOUS
  <1>3. TxOK(ready) /\ ready.view = tx.view /\ ShownAs(ready, stamps)
    <2>1. TxOK(ready) /\ ready.view = tx.view
      BY <1>1, <1>2, FinishOK
    <2> QED
      BY <1>1, <2>1 DEF ShownAs
  <1>4. PICK touch : touch = Touch(ready, p)
    OBVIOUS
  <1>5. TxOK(touch) /\ ShownAs(touch, Touched(p))
        /\ Touched(p) \in [Pollers -> {"none", "responsive", "unresponsive"}]
    BY <1>1, <1>3, <1>4, TouchOK DEF OtherTypes
  <1>6. stamps' = Touched(p) /\ best' = best
    BY DEF Host
  <1>7. cache' \in [host : SUBSET Pollers, group : BOOLEAN, deleted : SUBSET Pollers]
    <2>1. cache \in [host : SUBSET Pollers, group : BOOLEAN, deleted : SUBSET Pollers]
      BY <1>1 DEF OtherTypes
    <2>2. \/ cache' = cache
          \/ cache' = [cache EXCEPT !.host = cache.host \union {p}]
          \/ cache' = [cache EXCEPT !.host = cache.host \ {p}]
      BY DEF Host
    <2> QED
      BY <2>1, <2>2
  <1>8. OtherTypes'
    BY <1>1, <1>5, <1>6, <1>7 DEF OtherTypes, Host, Kept
  <1>9. CASE Valid(p)
    <2>1. PICK has : has = touch.view[p].has \union {"host"}
      OBVIOUS
    <2>2. has \in SUBSET {"instance", "host", "service", "hg"}
      BY <1>5, <2>1 DEF TxOK, TxShape, Rows
    <2>3. PICK u : u = [touch EXCEPT !.view[p].has = has]
      OBVIOUS
    <2>4. PICK marks : marks = Touched(p)
      OBVIOUS
    <2>5. ShownAs(touch, marks)
      BY <1>5, <2>4
    <2>6. TxOK(u) /\ ShownAs(u, marks)
      BY ONLY <1>5, <2>2, <2>3, <2>5, p \in Pollers, HasChanges
    <2> DEFINE access == Access("create", {"host"}, p) \union Access("read", {"instance"}, p)
               c == ByInstance(p)
    <2>7. u = [Touch(ready, p) EXCEPT !.view[p].has = @ \union {"host"}]
      BY <1>4, <1>5, <2>1, <2>3 DEF TxOK, TxShape
    <2>8. Send(u, c, "host", access, {"hosts"})
      BY <1>2, <1>9, <2>7 DEF Host
    <2>9. c \in Conns /\ "host" \in Kinds /\ {"hosts"} \in SUBSET Flags
      BY InConns DEF Kinds, Flags
    <2>10. ASSUME NEW a \in access
           PROVE  /\ a[2][2] = p
                  /\ a[1] = "create" => a[2][1] = "host"
                  /\ a[1] = "read" => a[2][1] = "instance"
      BY InAccess DEF GroupTables
    <2>11. \A a \in access : a[1] = "create" =>
               /\ a[2][1] \in DOMAIN Marks /\ Marks[a[2][1]] \in {"hosts"}
               /\ a[2][1] \in OfPoller => c = ByInstance(a[2][2])
      BY <2>10 DEF Marks
    <2>12. ~Late(u, c, access)
      <3>1. \A a \in access : a[1] = "read" => a[2][1] \in OfPoller /\ ByInstance(a[2][2]) = c
        BY <2>10 DEF OfPoller
      <3>2. Committed(u, {})
        BY DEF Committed
      <3> HIDE DEF access, c
      <3> QED
        BY <2>6, <2>9, <3>1, <3>2, NotLate
    <2>13. ShownAs(u, stamps')
      BY <1>6, <2>4, <2>6
    <2> HIDE DEF access, c
    <2> QED
      BY ONLY <1>8, <2>6, <2>8, <2>9, <2>11, <2>12, <2>13, SendInd
  <1>10. CASE ~Valid(p)
    <2>1. tx' = ready /\ Kept
      BY <1>2, <1>10 DEF Host
    <2>2. Touched(p) = stamps
      BY <1>10 DEF Touched
    <2> QED
      BY <1>3, <1>6, <1>8, <2>1, <2>2, KeptInd
  <1> QED
    BY <1>9, <1>10

(* _clean_tables() creates no row and leaves the states alone. *)
LEMMA CleanOK ==
    ASSUME NEW t, TxOK(t), NEW p \in Pollers
    PROVE  TxOK(CleanTables(t, p)) /\ CleanTables(t, p).view = t.view
  <1> DEFINE c == ByInstance(p)
             members == t.group.members \ {p}
             g == IF members = {} THEN NoGroup ELSE [exists |-> TRUE, members |-> members]
             u == [t EXCEPT !.group = g]
             access == Access("write", {"host", "service", "hgm", "sgm",
                                           "hg", "sg", "hdep", "parent", "sdep",
                                           "module", "downtime", "comment"}, p)
             adds == {"hosts", "hostgroups", "servicegroups",
                           "host_dependencies", "host_parents",
                           "service_dependencies", "modules", "downtimes",
                           "comments"}
             cleaned == AddAction(RunQuery(u, c, access), c, adds)
             done == FinishAction(cleaned, Conns, {"custom_variables", "hosts"})
             more == Access("write", {"cv"}, p)
  <1>1. c \in Conns /\ adds \in SUBSET Flags /\ {"custom_variables"} \in SUBSET Flags
    BY InConns DEF Flags
  <1>2. g \in GroupState
    BY DEF TxOK, TxShape, GroupState, NoGroup
  <1>3. TxOK(u) /\ u.view = t.view
    <2> HIDE DEF g
    <2> QED
      BY <1>2, GroupChanges
  <1>4. (\A a \in access : a[1] # "create") /\ (\A a \in more : a[1] # "create")
    BY InAccess
  <1>5. CleanTables(t, p) = AddAction(RunQuery(done, c, more), c, {"custom_variables"})
    BY DEF CleanTables
  <1>6. TxOK(cleaned) /\ cleaned.view = t.view
    <2> HIDE DEF u, access, adds, c
    <2> QED
      BY <1>1, <1>3, <1>4, QueryOK
  <1>7. TxOK(done) /\ done.view = t.view
    <2> HIDE DEF cleaned
    <2> QED
      BY <1>6, FinishOK
  <1> HIDE DEF done, more, c
  <1>8. /\ TxOK(AddAction(RunQuery(done, c, more), c, {"custom_variables"}))
        /\ AddAction(RunQuery(done, c, more), c, {"custom_variables"}).view = done.view
    BY ONLY <1>1, <1>4, <1>7, QueryOK
  <1> QED
    BY <1>5, <1>7, <1>8

(* _process_instance(): the poller starts, its tables are cleaned. *)
LEMMA ProcessInstanceInd ==
    ASSUME SqlInd, NEW p \in Pollers, ProcessInstance(p)
    PROVE  SqlInd'
  <1>1. /\ TxOK(tx) /\ OtherTypes /\ ShownAs(tx, stamps)
    BY SqlIndIs
  <1>2. PICK ready : ready = FinishAction(tx, Conns,
                     {"hosts", "acknowledgements", "modules", "downtimes",
                      "comments", "servicegroups", "hostgroups",
                      "service_dependencies", "host_dependencies"})
    OBVIOUS
  <1>3. TxOK(ready) /\ ready.view = tx.view
    BY <1>1, <1>2, FinishOK
  <1>4. PICK cleaned : cleaned = CleanTables(ready, p)
    OBVIOUS
  <1>5. TxOK(cleaned) /\ ShownAs(cleaned, stamps)
    <2>1. TxOK(cleaned) /\ cleaned.view = tx.view
      BY <1>3, <1>4, CleanOK
    <2> QED
      BY <1>1, <2>1 DEF ShownAs
  <1>6. PICK touch : touch = Touch(cleaned, p)
    OBVIOUS
  <1>7. TxOK(touch) /\ ShownAs(touch, Touched(p))
        /\ Touched(p) \in [Pollers -> {"none", "responsive", "unresponsive"}]
    BY <1>1, <1>5, <1>6, TouchOK DEF OtherTypes
  <1>8. stamps' = Touched(p) /\ best' = best /\ cache' = cache
    BY DEF ProcessInstance
  <1>9. OtherTypes'
    BY <1>1, <1>7, <1>8 DEF OtherTypes, ProcessInstance, Kept
  <1>10. CASE Valid(p)
    <2>0. PICK has : has = {"instance"}
      OBVIOUS
    <2>a. has \in SUBSET {"instance", "host", "service", "hg"}
      BY <2>0
    <2>1. PICK u : u = [touch EXCEPT !.view[p].has = has]
      OBVIOUS
    <2>2. PICK marks : marks = Touched(p)
      OBVIOUS
    <2>3. ShownAs(touch, marks)
      BY <1>7, <2>2
    <2>4. TxOK(u) /\ ShownAs(u, marks)
      BY ONLY <1>7, <2>a, <2>1, <2>3, p \in Pollers, HasChanges
    <2> DEFINE access == Access("create", {"instance"}, p)
               c == ByInstance(p)
    <2>5. Send(u, c, "instance", access, {"instances"})
      BY <1>2, <1>4, <1>6, <1>10, <2>0, <2>1 DEF ProcessInstance
    <2>6. c \in Conns /\ "instance" \in Kinds /\ {"instances"} \in SUBSET Flags
      BY InConns DEF Kinds, Flags
    <2>7. \A a \in access : a[2][2] = p /\ a[1] = "create" /\ a[2][1] = "instance"
      BY InAccess DEF GroupTables
    <2>8. \A a \in access : a[1] = "create" =>
               /\ a[2][1] \in DOMAIN Marks /\ Marks[a[2][1]] \in {"instances"}
               /\ a[2][1] \in OfPoller => c = ByInstance(a[2][2])
      BY <2>7 DEF Marks
    <2>9. ~Late(u, c, access)
      BY <2>7 DEF Late, OpenElsewhere
    <2>10. ShownAs(u, stamps')
      BY <1>8, <2>2, <2>4
    <2> HIDE DEF access, c
    <2> QED
      BY ONLY <1>9, <2>4, <2>5, <2>6, <2>8, <2>9, <2>10, SendInd
  <1>11. CASE ~Valid(p)
    <2>1. tx' = cleaned /\ Kept
      BY <1>2, <1>4, <1>11 DEF ProcessInstance
    <2>2. Touched(p) = stamps
      BY <1>11 DEF Touched
    <2> QED
      BY <1>5, <1>8, <1>9, <2>1, <2>2, KeptInd
  <1> QED
    BY <1>10, <1>11

(* _process_host_group(): the hosts are committed first. *)
LEMMA HostGroupInd ==
    ASSUME SqlInd, NEW p \in Pollers, NEW enabled \in BOOLEAN, HostGroup(p, enabled)
    PROVE  SqlInd'
  <1>1. /\ TxOK(tx) /\ OtherTypes /\ ShownAs(tx, stamps)
    BY SqlIndIs
  <1>2. PICK ready : ready = FinishAction(tx, Conns, {"hosts"})
    OBVIOUS
  <1>3. TxOK(ready) /\ ready.view = tx.view /\ Committed(ready, {"hosts"})
    BY <1>1, <1>2, FinishOK
  <1>4. ShownAs(ready, stamps)
    BY <1>1, <1>3 DEF ShownAs
  <1>5. stamps' = stamps /\ "host_group" \in Kinds
    BY DEF HostGroup, Kinds
  <1>6. PICK c \in BestConns("host_group") :
              /\ IF enabled
                 THEN Send([ready EXCEPT !.group.exists = TRUE,
                                         !.view[p].has = @ \union {"hg"}], c,
                           "host_group", Access("create", {"hg"}, p),
                           {"hostgroups"})
                 ELSE Send([ready EXCEPT !.group.members = @ \ {p}], c,
                           "host_group", Access("write", {"hgm"}, p) \union
                               Access("read", {"host"}, p), {})
              /\ best' = [type |-> "host_group", conn |-> c]
    BY <1>2 DEF HostGroup
  <1>7. c \in Conns /\ best' \in [type : Kinds \union {"none"}, conn : Conns]
    BY <1>1, <1>5, <1>6, BestIsConn
  <1>8. OtherTypes'
    <2>1. cache' = [cache EXCEPT !.group = enabled]
      BY DEF HostGroup
    <2>2. cache' \in [host : SUBSET Pollers, group : BOOLEAN, deleted : SUBSET Pollers]
      BY <1>1, <2>1 DEF OtherTypes
    <2> QED
      BY <1>1, <1>5, <1>7, <2>2 DEF OtherTypes, HostGroup
  <1>9. /\ ready = [action |-> ready.action, open |-> ready.open, view |-> ready.view,
                     disk |-> ready.disk, group |-> ready.group, groupOnDisk |-> ready.groupOnDisk]
        /\ ready.group \in GroupState /\ ready.view \in [Pollers -> Rows]
    BY <1>3 DEF TxOK, TxShape
  <1>10. CASE enabled
    <2>1. PICK g : g = [ready.group EXCEPT !.exists = TRUE]
      OBVIOUS
    <2>2. g \in GroupState
      BY <1>9, <2>1 DEF GroupState
    <2>3. PICK v : v = [ready EXCEPT !.group = g]
      OBVIOUS
    <2>4. TxOK(v) /\ v.view = ready.view
      BY ONLY <1>3, <2>2, <2>3, GroupChanges
    <2>5. ShownAs(v, stamps)
      BY <1>4, <2>4 DEF ShownAs
    <2>6. PICK has : has = v.view[p].has \union {"hg"}
      OBVIOUS
    <2>7. has \in SUBSET {"instance", "host", "service", "hg"}
      BY <2>4, <2>6 DEF TxOK, TxShape, Rows
    <2>8. PICK u : u = [v EXCEPT !.view[p].has = has]
      OBVIOUS
    <2>9. TxOK(u) /\ ShownAs(u, stamps)
      BY ONLY <2>4, <2>5, <2>7, <2>8, p \in Pollers, HasChanges
    <2>10. u = [ready EXCEPT !.group.exists = TRUE, !.view[p].has = @ \union {"hg"}]
      <3>1. v = [ready EXCEPT !.group.exists = TRUE]
        BY <1>9, <2>1, <2>3
      <3>2. /\ v = [action |-> v.action, open |-> v.open, view |-> v.view,
                     disk |-> v.disk, group |-> v.group, groupOnDisk |-> v.groupOnDisk]
            /\ v.view \in [Pollers -> Rows]
        BY <2>4 DEF TxOK, TxShape
      <3>3. u = [v EXCEPT !.view[p].has = @ \union {"hg"}]
        BY ONLY <2>6, <2>8, <3>2, p \in Pollers
      <3> QED
        BY ONLY <3>1, <3>3
    <2> DEFINE access == Access("create", {"hg"}, p)
    <2>11. Send(u, c, "host_group", access, {"hostgroups"})
      BY <1>6, <1>10, <2>10
    <2>12. \A a \in access : a[1] = "create" /\ a[2][1] = "hg"
      BY InAccess
    <2>13. \A a \in access : a[1] = "create" =>
               /\ a[2][1] \in DOMAIN Marks /\ Marks[a[2][1]] \in {"hostgroups"}
               /\ a[2][1] \in OfPoller => c = ByInstance(a[2][2])
      BY <2>12 DEF Marks, OfPoller
    <2>14. ~Late(u, c, access)
      BY <2>12 DEF Late, OpenElsewhere
    <2>15. {"hostgroups"} \in SUBSET Flags
      BY DEF Flags
    <2>16. ShownAs(u, stamps')
      BY <1>5, <2>9
    <2> HIDE DEF access
    <2> QED
      BY ONLY <1>5, <1>7, <1>8, <2>9, <2>11, <2>13, <2>14, <2>15, <2>16, SendInd
  <1>11. CASE ~enabled
    <2>1. PICK g : g = [ready.group EXCEPT !.members = ready.group.members \ {p}]
      OBVIOUS
    <2>2. g \in GroupState
      BY <1>9, <2>1 DEF GroupState
    <2>3. PICK u : u = [ready EXCEPT !.group = g]
      OBVIOUS
    <2>4. TxOK(u) /\ u.view = ready.view /\ Committed(u, {"hosts"})
      BY ONLY <1>3, <2>2, <2>3, GroupChanges
    <2>5. u = [ready EXCEPT !.group.members = @ \ {p}]
      BY <1>9, <2>1, <2>3
    <2> DEFINE access == Access("write", {"hgm"}, p) \union Access("read", {"host"}, p)
    <2>6. Send(u, c, "host_group", access, {})
      BY <1>6, <1>11, <2>5
    <2>7. \A a \in access : a[1] # "create" /\ (a[1] = "read" => a[2][1] = "host")
      BY InAccess
    <2>8. ~Late(u, c, access)
      <3>1. \A a \in access : a[1] = "read" => Marks[a[2][1]] \in {"hosts"}
        BY <2>7 DEF Marks
      <3> HIDE DEF access
      <3> QED
        BY <1>7, <2>4, <3>1, NotLate
    <2>9. ShownAs(u, stamps')
      BY <1>4, <1>5, <2>4 DEF ShownAs
    <2>10. {} \in SUBSET Flags
      OBVIOUS
    <2> HIDE DEF access
    <2> QED
      BY ONLY <1>5, <1>7, <1>8, <2>4, <2>6, <2>7, <2>8, <2>9, <2>10, SendInd
  <1> QED
    BY <1>10, <1>11

(* _process_host_group_member(): the hosts and the groups are committed    *)
(* first.                                                                  *)
LEMMA HostGroupMemberInd ==
    ASSUME SqlInd, NEW p \in Pollers, NEW enabled \in BOOLEAN, HostGroupMember(p, enabled)
    PROVE  SqlInd'
  <1>1. /\ TxOK(tx) /\ OtherTypes /\ ShownAs(tx, stamps)
    BY SqlIndIs
  <1> DEFINE flags == {"hostgroups", "hosts"}
  <1>2. PICK ready : ready = FinishAction(tx, Conns, flags)
    OBVIOUS
  <1>3. TxOK(ready) /\ ready.view = tx.view /\ Committed(ready, flags)
    BY <1>1, <1>2, FinishOK
  <1>4. ShownAs(ready, stamps)
    BY <1>1, <1>3 DEF ShownAs
  <1>5. stamps' = stamps /\ cache' = cache /\ "host_group_member" \in Kinds
    BY DEF HostGroupMember, Kinds
  <1>9. /\ ready = [action |-> ready.action, open |-> ready.open, view |-> ready.view,
                     disk |-> ready.disk, group |-> ready.group, groupOnDisk |-> ready.groupOnDisk]
        /\ ready.group \in GroupState
    BY <1>3 DEF TxOK, TxShape
  <1> DEFINE created == [ready EXCEPT !.group.exists = @ \/ ~cache.group]
             sto == IF enabled
                  THEN [created EXCEPT !.group.members =
                            IF created.group.exists THEN @ \union {p} ELSE @]
                  ELSE [ready EXCEPT !.group.members = @ \ {p}]
             access == Access("write", {"hgm"}, p) \union
                  (IF enabled THEN Access("read", {"host", "hg"}, p) ELSE {})
  <1>10. PICK c \in BestConns("host_group_member") :
              /\ IF enabled /\ p \notin cache.host
                 THEN tx' = ready /\ Kept
                 ELSE /\ Send(sto, c, "host_group_member", access,
                              {"hostgroups"})
                      /\ orphan' = (enabled /\ ~created.group.exists)
              /\ best' = [type |-> "host_group_member", conn |-> c]
    BY <1>2 DEF HostGroupMember
  <1>11. c \in Conns /\ best' \in [type : Kinds \union {"none"}, conn : Conns]
    BY <1>1, <1>5, <1>10, BestIsConn
  <1>12. orphan' \in BOOLEAN
    BY <1>10 DEF Kept
  <1>13. OtherTypes'
    BY <1>1, <1>5, <1>11, <1>12 DEF OtherTypes
  <1>14. CASE enabled /\ p \notin cache.host
    <2>1. tx' = ready /\ Kept
      BY <1>10, <1>14
    <2> QED
      BY <1>3, <1>4, <1>5, <1>13, <2>1, KeptInd
  <1>15. CASE ~(enabled /\ p \notin cache.host)
    <2>1. \E g \in GroupState : sto = [ready EXCEPT !.group = g]
      <3>1. cache.group \in BOOLEAN
        BY <1>1 DEF OtherTypes
      <3>2. PICK e \in BOOLEAN : e = (ready.group.exists \/ ~cache.group)
        OBVIOUS
      <3>3. CASE ~enabled
        <4>1. PICK g : g = [ready.group EXCEPT !.members = ready.group.members \ {p}]
          OBVIOUS
        <4>2. g \in GroupState
          BY <1>9, <4>1 DEF GroupState
        <4>3. sto = [ready EXCEPT !.group = g]
          BY <1>9, <3>3, <4>1
        <4> QED
          BY <4>2, <4>3
      <3>4. CASE enabled
        <4>1. PICK g : g = [ready.group EXCEPT !.exists = e]
          OBVIOUS
        <4>2. g \in GroupState /\ g.exists = e
          BY <1>9, <4>1 DEF GroupState
        <4>3. created = [ready EXCEPT !.group = g]
          BY <1>9, <3>1, <3>2, <4>1 DEF GroupState
        <4>4. PICK w : w = created
          OBVIOUS
        <4>5. w = [ready EXCEPT !.group = g] /\ w.group = g
          BY <1>9, <4>3, <4>4
        <4>6. PICK m : m = IF g.exists THEN g.members \union {p} ELSE g.members
          OBVIOUS
        <4>7. PICK k : k = [g EXCEPT !.members = m]
          OBVIOUS
        <4>8. k \in GroupState
          BY <4>2, <4>6, <4>7 DEF GroupState
        <4>9. sto = [w EXCEPT !.group.members = IF w.group.exists THEN @ \union {p} ELSE @]
          BY <3>4, <4>4
        <4>10. sto = [w EXCEPT !.group = k]
          <5> HIDE DEF sto
          <5> QED
            BY ONLY <1>9, <4>5, <4>6, <4>7, <4>9
        <4>11. [w EXCEPT !.group = k] = [ready EXCEPT !.group = k]
          BY ONLY <1>9, <4>5
        <4> QED
          BY <4>8, <4>10, <4>11
      <3> QED
        BY <3>3, <3>4
    <2>2. PICK u : u = sto
      <3> HIDE DEF sto, created
      <3> QED
        OBVIOUS
    <2>3. TxOK(u) /\ u.view = ready.view /\ Committed(u, flags)
      <3>1. PICK g \in GroupState : u = [ready EXCEPT !.group = g]
        BY <2>1, <2>2
      <3> HIDE DEF flags
      <3> QED
        BY ONLY <1>3, <3>1, GroupChanges
    <2>4. Send(u, c, "host_group_member", access, {"hostgroups"})
      BY <1>10, <1>15, <2>2
    <2>5. \A a \in access : a[1] # "create" /\ (a[1] = "read" => a[2][1] \in {"host", "hg"})
      BY InAccess
    <2>6. ~Late(u, c, access)
      <3>1. \A a \in access : a[1] = "read" => Marks[a[2][1]] \in flags
        BY <2>5 DEF Marks
      <3> HIDE DEF access, flags
      <3> QED
        BY <1>11, <2>3, <3>1, NotLate
    <2>7. ShownAs(u, stamps')
      BY <1>4, <1>5, <2>3 DEF ShownAs
    <2>8. {"hostgroups"} \in SUBSET Flags
      BY DEF Flags
    <2> HIDE DEF access
    <2> QED
      BY ONLY <1>5, <1>11, <1>13, <2>3, <2>4, <2>5, <2>6, <2>7, <2>8, SendInd
  <1> QED
    BY <1>14, <1>15

(* The process stops: what was not committed is gone, and _load_caches()   *)
(* finds the outdated pollers.                                             *)
LEMMA RestartInd ==
    ASSUME SqlInd, Restart
    PROVE  SqlInd'
  <1>1. /\ TxOK(tx) /\ OtherTypes /\ ShownAs(tx, stamps)
    BY SqlIndIs
  <1>2. tx' = [action |-> [c \in Conns |-> {}], open |-> [c \in Conns |-> {}],
              view |-> tx.disk, disk |-> tx.disk,
              group |-> tx.groupOnDisk, groupOnDisk |-> tx.groupOnDisk]
    BY DEF Restart
  <1>3. /\ tx'.action = [c \in Conns |-> {}] /\ tx'.open = [c \in Conns |-> {}]
        /\ tx'.view = tx.disk /\ tx'.disk = tx.disk
        /\ tx'.group = tx.groupOnDisk /\ tx'.groupOnDisk = tx.groupOnDisk
    BY <1>2
  <1>4. TxOK(tx')
    <2>1. tx'.action \in [Conns -> SUBSET Flags] /\ tx'.open = [c \in Conns |-> tx'.open[c]]
      BY <1>3
    <2>2. TxShape(tx')
      BY <1>1, <1>2, <1>3, <2>1 DEF TxOK, TxShape
    <2>3. Tracked(tx')
      BY <1>3 DEF Tracked
    <2> QED
      BY <1>1, <1>3, <2>2, <2>3 DEF TxOK
  <1>5. stamps' = [p \in Pollers |-> IF tx.disk[p].outdated THEN "unresponsive" ELSE "none"]
    BY DEF Restart, LoadTimestamps
  <1>6. ShownAs(tx', stamps')
    BY <1>1, <1>3, <1>5 DEF ShownAs, TxOK, RowOK
  <1>7. cache' \in [host : SUBSET Pollers, group : BOOLEAN, deleted : SUBSET Pollers]
    <2>1. PICK gone \in Deletions :
           cache' = [host |-> {p \in Pollers : "host" \in tx.disk[p].has},
                     group |-> tx.groupOnDisk.exists, deleted |-> gone]
      BY DEF Restart
    <2>2. tx.groupOnDisk.exists \in BOOLEAN /\ gone \in SUBSET Pollers
      BY <1>1, SqlAssumption DEF TxOK, TxShape, GroupState, Deletions
    <2> QED
      BY <2>1, <2>2
  <1>8. best' \in [type : Kinds \union {"none"}, conn : Conns]
    BY SqlAssumption DEF Restart, Conns
  <1>9. OtherTypes'
    BY <1>5, <1>7, <1>8 DEF OtherTypes, Restart, Kept
  <1> QED
    BY <1>4, <1>6, <1>9, KeptInd DEF Restart

(* The database is empty. *)
LEMMA SqlInitInd == SqlInit => SqlInd
  <1> SUFFICES ASSUME SqlInit PROVE SqlInd
    OBVIOUS
  <1>1. PICK s \in Reported :
           LET fresh == [p \in Pollers |->
                            [has |-> {}, outdated |-> FALSE,
                             state |-> s, real |-> s]]
           IN tx = [action |-> [c \in Conns |-> {}],
                    open |-> [c \in Conns |-> {}],
                    view |-> fresh, disk |-> fresh,
                    group |-> NoGroup, groupOnDisk |-> NoGroup]
    BY DEF SqlInit
  <1>2. PICK fresh : fresh = [p \in Pollers |-> [has |-> {}, outdated |-> FALSE, state |-> s, real |-> s]]
    OBVIOUS
  <1>3. /\ tx.action = [c \in Conns |-> {}] /\ tx.open = [c \in Conns |-> {}]
        /\ tx.view = fresh /\ tx.disk = fresh /\ tx.group = NoGroup /\ tx.groupOnDisk = NoGroup
        /\ tx = [action |-> tx.action, open |-> tx.open, view |-> tx.view,
                     disk |-> tx.disk, group |-> tx.group, groupOnDisk |-> tx.groupOnDisk]
    BY <1>1, <1>2
  <1>4. fresh \in [Pollers -> Rows] /\ \A p \in Pollers : RowOK(fresh[p]) /\ fresh[p].state # Lost
    BY <1>2, SqlAssumption DEF RowOK, Rows, Lost
  <1>5. TxOK(tx)
    <2>1. tx.action \in [Conns -> SUBSET Flags] /\ tx.open = [c \in Conns |-> tx.open[c]]
      BY <1>3
    <2>2. NoGroup \in GroupState
      BY DEF NoGroup, GroupState
    <2>3. TxShape(tx)
      BY <1>3, <1>4, <2>1, <2>2 DEF TxShape
    <2>4. Tracked(tx)
      BY <1>3 DEF Tracked
    <2> QED
      BY <1>3, <1>4, <2>3, <2>4 DEF TxOK
  <1>6. ShownAs(tx, stamps)
    BY <1>3, <1>4 DEF ShownAs
  <1>7. 0 \in Conns
    BY SqlAssumption DEF Conns
  <1>8. cache \in [host : SUBSET Pollers, group : BOOLEAN, deleted : SUBSET Pollers]
    BY SqlAssumption DEF SqlInit, Deletions
  <1>9. OtherTypes
    BY <1>7, <1>8 DEF SqlInit, OtherTypes
  <1> QED
    BY <1>5, <1>6, <1>9, SqlIndIs DEF SqlInit

(* A step that changes no variable. *)
LEMMA SqlQuiet ==
    ASSUME SqlInd, UNCHANGED sqlVars
    PROVE  SqlInd'
  <1>1. tx' = tx /\ cache' = cache /\ stamps' = stamps /\ best' = best /\ late' = late
        /\ clash' = clash /\ orphan' = orphan
    BY DEF sqlVars
  <1>2. /\ TxOK(tx) /\ OtherTypes /\ ShownAs(tx, stamps)
        /\ late \subseteq {"log"} /\ late \subseteq Kinds /\ clash \subseteq Kinds
    BY SqlIndIs
  <1>3. OtherTypes'
    BY <1>1, <1>2 DEF OtherTypes
  <1> QED
    BY <1>1, <1>2, <1>3, SqlIndNext

(* The inductive invariant of the handlers: a created row that is not      *)
(* committed has its flag on its connection, and a row shows the state of  *)
(* the timeout only when the poller is outdated.                           *)
THEOREM SqlInductive == SqlSpec => []SqlInd
  <1>1. SqlInd /\ [SqlNext]_sqlVars => SqlInd'
    <2> SUFFICES ASSUME SqlInd, [SqlNext]_sqlVars PROVE SqlInd'
      OBVIOUS
    <2>1. ASSUME NEW p \in Pollers, NEW kind \in DOMAIN Handlers, Process(kind, p)
          PROVE  SqlInd'
      BY <2>1, ProcessInd
    <2>2. ASSUME NEW p \in Pollers, NEW kind \in DOMAIN Handlers, Discard(kind, p)
          PROVE  SqlInd'
      BY <2>2, DiscardInd
    <2>3. ASSUME NEW p \in Pollers, NEW s \in Reported, HostStatus(p, s)
          PROVE  SqlInd'
      BY <2>3, HostStatusInd
    <2>4. ASSUME NEW p \in Pollers, NEW enabled \in BOOLEAN,
                 Host(p, enabled) \/ HostGroup(p, enabled) \/ HostGroupMember(p, enabled)
          PROVE  SqlInd'
      BY <2>4, HostInd, HostGroupInd, HostGroupMemberInd
    <2>5. ASSUME NEW p \in Pollers, ProcessInstance(p) \/ Unresponsive(p)
          PROVE  SqlInd'
      BY <2>5, ProcessInstanceInd, UnresponsiveInd
    <2>6. CASE CommitAll
      BY <2>6, CommitAllInd
    <2>7. CASE Restart
      BY <2>7, RestartInd
    <2>8. CASE UNCHANGED sqlVars
      BY <2>8, SqlQuiet
    <2> QED
      BY <2>1, <2>2, <2>3, <2>4, <2>5, <2>6, <2>7, <2>8 DEF SqlNext
  <1> QED
    BY <1>1, SqlInitInd, PTL DEF SqlSpec

(* No query but the one of the logs refers to a row that another           *)
(* connection has created and not committed: the flags that each handler   *)
(* of conflict_manager_sql.cc finishes cover its foreign keys, whatever    *)
(* connection choose_best_connection() returns.                            *)
THEOREM SqlParentsVisible == SqlSpec => []ParentsVisible
  <1>1. SqlInd => ParentsVisible
    BY DEF SqlInd, ParentsVisible
  <1> QED
    BY <1>1, SqlInductive, PTL

(* A poller that the manager thinks responsive is never shown with the     *)
(* state of the timeout, and that state is never saved as the real one by  *)
(* _update_hosts_and_services_of_instance(), through commits, stops of     *)
(* the process and _load_caches().                                         *)
THEOREM SqlRealStateKept == SqlSpec => []RealStateKept
  <1>1. SqlInd => RealStateKept
    BY DEF SqlInd, RealStateKept, TxOK, RowOK
  <1> QED
    BY <1>1, SqlInductive, PTL

=============================================================================
