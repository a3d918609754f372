------------------------------- MODULE Failover -------------------------------
(***************************************************************************)
(* processing::failover: the thread of an output endpoint, and the chain   *)
(* of failovers behind it.  Node 1 is the endpoint, node n + 1 the         *)
(* failover of node n; the nodes of a chain share one muxer.               *)
(*                                                                         *)
(* A node opens its stream, stops its failover if that is running, and     *)
(* moves events from the muxer to the stream.  A stream acknowledges the   *)
(* events it was given in order, at once or later; write() and flush()     *)
(* return how many it has acknowledged since the last call.  When anything *)
(* throws, the node starts its failover and tries again later.             *)
(*                                                                         *)
(* Events are numbered in the order of their publication.  Queue files are *)
(* in module Muxer: here the muxer is the queue in memory.                 *)
(***************************************************************************)
EXTENDS Naturals, Sequences, FiniteSets, SequencesExt

CONSTANTS
    Length,         \* number of nodes in the chain
    MaxEvents,      \* bound: number of events published
    MaxFaults       \* bound: number of times a stream fails or cannot be opened

ASSUME LengthAssumption == Length \in Nat \ {0}
ASSUME BoundsAssumption == MaxEvents \in Nat /\ MaxFaults \in Nat

VARIABLES
    main,       \* the thread that starts and exits node 1
    pc,         \* where the thread of each node is
    started,    \* _started
    should_exit,\* _should_exit
    stopped,    \* _stopped
    launched,   \* _failover_launched
    can_read,   \* muxer_can_read
    d,          \* the event read from the muxer, 0 if none
    we,         \* the number of acknowledged events, as returned by the stream
    inflight,   \* events given to the stream and not yet acknowledged
    ready,      \* events the stream has acknowledged but not yet reported
    events,     \* _events of the muxer
    pos,        \* _pos of the muxer
    next,       \* history: number of the next event
    confirmed,  \* history: events acknowledged by some stream
    popped,     \* history: events removed from the muxer
    rewound,    \* history: the muxer was rewound under a running failover
    faults      \* history: number of faults

control == <<main, started, should_exit, stopped, launched>>
local == <<can_read, d, we>>
streams == <<inflight, ready, confirmed>>
muxer == <<events, pos, popped>>
history == <<next, rewound, faults>>
vars == <<pc, control, local, streams, muxer, history>>

Node == 1 .. Length
Event == 1 .. MaxEvents

HasFailover(n) == n < Length

(* In the order of run(). *)
Place == {"off", "open", "shutdown", "exiting", "nack", "loop", "write", "ack",
          "flush", "catch", "launch", "sleep", "end", "ending", "exit"}

TypeOK ==
    /\ main \in {"idle", "running", "waiting", "joined"}
    /\ pc \in [Node -> Place]
    /\ started \in [Node -> BOOLEAN] /\ should_exit \in [Node -> BOOLEAN]
    /\ stopped \in [Node -> BOOLEAN] /\ launched \in [Node -> BOOLEAN]
    /\ can_read \in [Node -> BOOLEAN]
    /\ d \in [Node -> 0 .. MaxEvents]
    /\ we \in [Node -> Nat] /\ ready \in [Node -> Nat]
    /\ inflight \in [Node -> Seq(Event)]
    /\ events \in Seq(Event) /\ pos \in 0 .. Len(events)
    /\ next \in 1 .. MaxEvents + 1 /\ rewound \in BOOLEAN /\ faults \in 0 .. MaxFaults
    /\ confirmed \subseteq Event /\ popped \subseteq Event

Init ==
    /\ main = "idle"
    /\ pc = [n \in Node |-> "off"]
    /\ started = [n \in Node |-> FALSE] /\ should_exit = started
    /\ stopped = started /\ launched = started /\ can_read = started
    /\ d = [n \in Node |-> 0] /\ we = d /\ ready = d
    /\ inflight = [n \in Node |-> <<>>]
    /\ events = <<>> /\ pos = 0
    /\ next = 1 /\ confirmed = {} /\ popped = {} /\ rewound = FALSE /\ faults = 0

Goto(n, place) == pc' = [pc EXCEPT ![n] = place]

(* Node n is in its event loop. *)
Consuming(n) == pc[n] \in {"nack", "loop", "write", "ack", "flush"}

-----------------------------------------------------------------------------
(* Thread control, as called by the owner of a node: the main thread for   *)
(* node 1, the thread of node n for node n + 1.                            *)

(* start(): the caller waits until the thread runs. *)
Start(n) ==
    /\ stopped' = [stopped EXCEPT ![n] = FALSE]
    /\ started' = [started EXCEPT ![n] = TRUE]
    /\ should_exit' = IF started[n] THEN should_exit
                                    ELSE [should_exit EXCEPT ![n] = FALSE]

(* exit() has to wait for the thread. *)
MustWait(n) == started[n] /\ ~should_exit[n]

(* exit(), before and after the wait. *)
RequestExit(n) == should_exit' = [should_exit EXCEPT ![n] = TRUE]
Joined(n) == stopped[n] /\ started' = [started EXCEPT ![n] = FALSE]

(* Mutant: acknowledgements of the old stream are counted for the new one. *)
DropStreamKeepsReady(n) ==
    /\ inflight' = [inflight EXCEPT ![n] = <<>>]
    /\ UNCHANGED <<ready, confirmed>>

(* The stream of node n is destroyed, with what it has not acknowledged. *)
DropStream(n) ==
    /\ inflight' = [inflight EXCEPT ![n] = <<>>]
    /\ ready' = [ready EXCEPT ![n] = 0]
    /\ UNCHANGED confirmed

-----------------------------------------------------------------------------
(* The main thread and the engine. *)

MainStart ==
    /\ main = "idle"
    /\ main' = "running"
    /\ Start(1) /\ Goto(1, "open")
    /\ UNCHANGED <<launched, local, streams, muxer, history>>

MainExit ==
    /\ main = "running"
    /\ main' = "waiting"
    /\ RequestExit(1)
    /\ UNCHANGED <<pc, started, stopped, launched, local, streams, muxer, history>>

MainJoin ==
    /\ main = "waiting" /\ pc[1] = "off"
    /\ main' = "joined"
    /\ Joined(1)
    /\ UNCHANGED <<pc, should_exit, stopped, launched, local, streams, muxer, history>>

(* muxer::publish, by the engine. *)
Publish ==
    /\ next <= MaxEvents
    /\ events' = Append(events, next) /\ next' = next + 1
    /\ UNCHANGED <<pc, control, local, streams, pos, popped, rewound, faults>>

(* The stream of node n acknowledges the oldest event it was given. *)
Acknowledge(n) ==
    /\ inflight[n] # <<>>
    /\ inflight' = [inflight EXCEPT ![n] = Tail(@)]
    /\ ready' = [ready EXCEPT ![n] = @ + 1]
    /\ confirmed' = confirmed \union {Head(inflight[n])}
    /\ UNCHANGED <<pc, control, local, muxer, history>>

-----------------------------------------------------------------------------
(* run(). *)

(* The endpoint and its secondaries are opened. *)
Open(n) ==
    /\ pc[n] = "open"
    /\ Goto(n, "shutdown")
    /\ UNCHANGED <<control, local, streams, muxer, history>>

(* The failover is shut down if it was launched. *)
ShutdownFailover(n) ==
    /\ pc[n] = "shutdown"
    /\ \/ /\ launched[n] /\ MustWait(n + 1)
          /\ RequestExit(n + 1) /\ Goto(n, "exiting")
          /\ UNCHANGED launched
       \/ /\ launched[n] => ~MustWait(n + 1)
          /\ launched' = [launched EXCEPT ![n] = FALSE]
          /\ Goto(n, "nack") /\ UNCHANGED should_exit
    /\ UNCHANGED <<main, started, stopped, local, streams, muxer, history>>

FailoverJoined(n) ==
    /\ pc[n] = "exiting" /\ pc[n + 1] = "off"
    /\ Joined(n + 1)
    /\ launched' = [launched EXCEPT ![n] = FALSE]
    /\ Goto(n, "nack")
    /\ UNCHANGED <<main, should_exit, stopped, local, streams, muxer, history>>

(* What the failover has read and not acknowledged is read again. *)
NackOnOpen(n) ==
    /\ pc[n] = "nack"
    /\ pos' = 0
    /\ can_read' = [can_read EXCEPT ![n] = TRUE]
    /\ Goto(n, "loop")
    /\ UNCHANGED <<control, d, we, streams, events, popped, history>>

(* The loop is left: the stream is cleared, there is no wait for a         *)
(* reconnection.                                                           *)
LoopExit(n) ==
    /\ pc[n] = "loop" /\ should_exit[n]
    /\ DropStream(n)
    /\ Goto(n, "end")
    /\ UNCHANGED <<control, local, muxer, history>>

(* An event is read from the muxer, or there is none. *)
ReadMuxer(n) ==
    /\ pc[n] = "loop" /\ ~should_exit[n]
    /\ \/ /\ can_read[n] /\ pos < Len(events)
          /\ d' = [d EXCEPT ![n] = events[pos + 1]]
          /\ pos' = pos + 1
          /\ Goto(n, "write")
       \/ /\ ~can_read[n] \/ pos = Len(events)
          /\ Goto(n, "flush")
          /\ UNCHANGED <<d, pos>>
    /\ UNCHANGED <<control, can_read, we, streams, events, popped, history>>

(* The stream takes the event, may acknowledge some of what it was given   *)
(* at once, and reports what it has acknowledged.                          *)
WriteStream(n) ==
    /\ pc[n] = "write"
    /\ LET given == Append(inflight[n], d[n])
       IN  \E k \in 0 .. Len(given) :
             /\ inflight' = [inflight EXCEPT ![n] = SubSeq(given, k + 1, Len(given))]
             /\ confirmed' = confirmed \union ToSet(SubSeq(given, 1, k))
             /\ we' = [we EXCEPT ![n] = ready[n] + k]
    /\ ready' = [ready EXCEPT ![n] = 0]
    /\ d' = [d EXCEPT ![n] = 0]
    /\ Goto(n, "ack")
    /\ UNCHANGED <<control, can_read, muxer, history>>

(* The stream throws exceptions::shutdown: the event is kept for later,    *)
(* the loop goes on without the muxer.                                     *)
WriteShutdown(n) ==
    /\ pc[n] = "write" /\ faults < MaxFaults
    /\ can_read' = [can_read EXCEPT ![n] = FALSE]
    /\ we' = [we EXCEPT ![n] = 0]
    /\ d' = [d EXCEPT ![n] = 0]
    /\ faults' = faults + 1
    /\ Goto(n, "ack")
    /\ UNCHANGED <<control, streams, muxer, next, rewound>>

(* Mutant: what flush() returns is ignored. *)
FlushStreamIgnored(n) ==
    /\ pc[n] = "flush"
    /\ we' = [we EXCEPT ![n] = 0]
    /\ ready' = [ready EXCEPT ![n] = 0]
    /\ Goto(n, "ack")
    /\ UNCHANGED <<control, can_read, d, inflight, confirmed, muxer, history>>

(* Nothing was read: flush(). *)
FlushStream(n) ==
    /\ pc[n] = "flush"
    /\ we' = [we EXCEPT ![n] = ready[n]]
    /\ ready' = [ready EXCEPT ![n] = 0]
    /\ Goto(n, "ack")
    /\ UNCHANGED <<control, can_read, d, inflight, confirmed, muxer, history>>

(* muxer::ack_events(we): it stops at _pos. *)
AckEvents(n) ==
    /\ pc[n] = "ack"
    /\ LET count == IF we[n] < pos THEN we[n] ELSE pos
       IN  /\ popped' = popped \union ToSet(SubSeq(events, 1, count))
           /\ events' = SubSeq(events, count + 1, Len(events))
           /\ pos' = pos - count
    /\ we' = [we EXCEPT ![n] = 0]
    /\ Goto(n, "loop")
    /\ UNCHANGED <<control, can_read, d, streams, history>>

(* open(), read(), write(), flush() or update() throws: the stream is      *)
(* destroyed.                                                              *)
StreamFails(n) ==
    /\ pc[n] \in {"open", "loop", "write", "flush"} /\ faults < MaxFaults
    /\ faults' = faults + 1
    /\ DropStream(n)
    /\ d' = [d EXCEPT ![n] = 0]
    /\ Goto(n, "catch")
    /\ UNCHANGED <<control, can_read, we, muxer, next, rewound>>

(* _launch_failover(), first part: unacknowledged events are to be read    *)
(* again, by whichever node of the chain reads next.                       *)
NackOnError(n) ==
    /\ pc[n] = "catch"
    /\ pos' = 0
    /\ rewound' = (rewound \/ \E m \in n + 1 .. Length : Consuming(m))
    /\ Goto(n, "launch")
    /\ UNCHANGED <<control, local, streams, events, popped, next, faults>>

(* _launch_failover(), second part. *)
LaunchFailover(n) ==
    /\ pc[n] = "launch"
    /\ \/ /\ HasFailover(n) /\ ~launched[n]
          /\ launched' = [launched EXCEPT ![n] = TRUE]
          /\ Start(n + 1)
          /\ pc' = [pc EXCEPT ![n] = "sleep", ![n + 1] = "open"]
       \/ /\ ~HasFailover(n) \/ launched[n]
          /\ Goto(n, "sleep")
          /\ UNCHANGED <<launched, started, should_exit, stopped>>
    /\ UNCHANGED <<main, local, streams, muxer, history>>

(* The wait before the reconnection, and the end of the outer loop. *)
Sleep(n) ==
    /\ pc[n] = "sleep"
    /\ Goto(n, IF should_exit[n] THEN "end" ELSE "open")
    /\ UNCHANGED <<control, local, streams, muxer, history>>

(* End of run(): the failover, launched or not, is told to exit. *)
EndFailover(n) ==
    /\ pc[n] = "end"
    /\ \/ /\ HasFailover(n) /\ MustWait(n + 1)
          /\ RequestExit(n + 1) /\ Goto(n, "ending")
       \/ /\ HasFailover(n) => ~MustWait(n + 1)
          /\ Goto(n, "exit") /\ UNCHANGED should_exit
    /\ UNCHANGED <<main, started, stopped, launched, local, streams, muxer, history>>

EndJoined(n) ==
    /\ pc[n] = "ending" /\ pc[n + 1] = "off"
    /\ Joined(n + 1)
    /\ Goto(n, "exit")
    /\ UNCHANGED <<main, should_exit, stopped, launched, local, streams, muxer, history>>

(* Mutant: the waiting thread is not told of the end. *)
ExitSilent(n) ==
    /\ pc[n] = "exit"
    /\ Goto(n, "off")
    /\ UNCHANGED <<control, local, streams, muxer, history>>

(* End of _callback(). *)
Exit(n) ==
    /\ pc[n] = "exit"
    /\ stopped' = [stopped EXCEPT ![n] = TRUE]
    /\ Goto(n, "off")
    /\ UNCHANGED <<main, started, should_exit, launched, local, streams, muxer, history>>

-----------------------------------------------------------------------------

Run(n) ==
    \/ Open(n) \/ ShutdownFailover(n) \/ FailoverJoined(n) \/ NackOnOpen(n)
    \/ LoopExit(n) \/ ReadMuxer(n) \/ WriteStream(n) \/ FlushStream(n)
    \/ AckEvents(n) \/ NackOnError(n) \/ LaunchFailover(n) \/ Sleep(n)
    \/ EndFailover(n) \/ EndJoined(n) \/ Exit(n)

Next ==
    \/ MainStart \/ MainExit \/ MainJoin
    \/ Publish
    \/ \E n \in Node : Run(n) \/ StreamFails(n) \/ WriteShutdown(n) \/ Acknowledge(n)

Spec == Init /\ [][Next]_vars

(* Threads are scheduled, and a stream that does not fail acknowledges     *)
(* what it was given.  The main thread need not ask for the exit.          *)
FairSpec ==
    /\ Spec
    /\ WF_vars(MainStart) /\ WF_vars(MainJoin)
    /\ \A n \in Node : WF_vars(Run(n)) /\ WF_vars(Acknowledge(n))

-----------------------------------------------------------------------------
(* Properties. *)

(* What the documentation says of a failover: it is active only when the   *)
(* endpoint it stands for has failed.  A node enters its loop only after   *)
(* its failover and everything behind it has stopped, so that a chain has  *)
(* one consumer at a time: the position and the count of acknowledged      *)
(* events of the shared muxer mean something for one stream only.          *)
FailoverOnlyOnFailure ==
    \A n \in Node : Consuming(n) => \A m \in n + 1 .. Length : pc[m] = "off"

(* When exit() has returned all threads of the chain are joined.  A thread *)
(* left behind would use the destroyed failover.                           *)
AllStopped == main = "joined" => \A n \in Node : pc[n] = "off" /\ ~started[n]

(* An event leaves the muxer only after a stream has acknowledged it,      *)
(* through any number of failures, failovers and reconnections, unless the *)
(* muxer was rewound under a running failover.                             *)
PoppedWasConfirmed == rewound \/ popped \subseteq confirmed

(* By setting up failovers no data is lost, says the documentation: an     *)
(* event that has left the muxer was acknowledged by a stream or is still  *)
(* on its way.                                                             *)
NoDataLoss == popped \subseteq confirmed \union UNION {ToSet(inflight[n]) : n \in Node}

(* An exit request always gets through, whatever the streams do.           *)
ExitReturns == []<>(main # "waiting")

(* Every event is acknowledged and leaves the muxer in the end, unless the *)
(* exit was asked for or a stream has thrown exceptions::shutdown in       *)
(* write(), after which its node reads no more.                            *)
EventuallyPopped ==
    \A e \in Event :
      []<>(e \notin ToSet(events) \/ main # "running" \/ \E n \in Node : Consuming(n) /\ ~can_read[n])

(* The safety of a chain of failovers: one consumer at a time, all threads *)
(* joined after exit(), and no event popped that no stream acknowledged.   *)
FailoverInv ==
    TypeOK /\ FailoverOnlyOnFailure /\ AllStopped /\ PoppedWasConfirmed

=============================================================================
