--------------------------- MODULE FailoverProofs ---------------------------
(***************************************************************************)
(* Theorems about what main() and cbd run: a chain of failovers of any     *)
(* length, for any number of events and of faults (FailoverInv of          *)
(* Failover); the watchdog (WatchdogInv of Watchdog) and the reload of the *)
(* configuration (AppliedInv of EndpointApplier), in sections of their own *)
(* below.                                                                  *)
(*                                                                         *)
(* What FailoverInv lacks to be inductive.  Of the threads: who has asked  *)
(* a node to exit still waits for it, a node that was not launched does    *)
(* not run, and behind a node that has stopped nothing runs, so that one   *)
(* hand over hand reaches the whole chain.  Of the data: the consumer's    *)
(* position in the muxer is exactly what its stream has acknowledged, then *)
(* what it holds, then the event that is being written.                    *)
(***************************************************************************)
EXTENDS Failover, Watchdog, EndpointApplier, QueueLemmas

(* Behind a node at these places nothing runs. *)
Quiet == {"off", "exit", "nack", "loop", "write", "ack", "flush"}
(* A node at these places has read the muxer for its stream. *)
Streaming == {"loop", "write", "ack", "flush"}
Waiting == {"exiting", "ending"}

Threads ==
    /\ \A n \in Node : pc[n] # "off" => started[n]
    /\ \A n \in Node : started[n] /\ pc[n] \in {"off", "end", "ending", "exit"}
                          => should_exit[n]
    /\ \A n \in Node : HasFailover(n) /\ started[n + 1] /\ should_exit[n + 1]
                          => pc[n] \in Waiting
    /\ started[1] /\ should_exit[1] => main = "waiting"
    /\ \A n \in Node : launched[n] \/ pc[n] \in Waiting => HasFailover(n)
    /\ \A n \in Node : HasFailover(n) /\ ~launched[n] => pc[n + 1] = "off"
    /\ \A n, m \in Node : n < m /\ pc[n] \in Quiet => pc[m] = "off"
    /\ main \in {"idle", "joined"} => ~started[1]

(* The events of the muxer before the position of node n: acknowledged,    *)
(* held by the stream, about to be written; after exceptions::shutdown     *)
(* also one that the stream has refused.                                   *)
Confirmed(n) == we[n] + ready[n]
Taken(n) == Confirmed(n) + Len(inflight[n])
Tracked(n) ==
    /\ \A i \in 1 .. Confirmed(n) : events[i] \in confirmed
    /\ \A i \in 1 .. Len(inflight[n]) : inflight[n][i] = events[Confirmed(n) + i]
    /\ IF pc[n] = "write" THEN pos = Taken(n) + 1 /\ d[n] = events[Taken(n) + 1]
                          ELSE Taken(n) <= pos
    /\ can_read[n] /\ pc[n] # "write" => pos = Taken(n)

Stream ==
    /\ \A n \in Node : pc[n] \notin Streaming => inflight[n] = <<>> /\ ready[n] = 0
    /\ \A n \in Node : pc[n] # "ack" => we[n] = 0
    /\ \A n \in Node : pc[n] = "write" => d[n] \in Event /\ can_read[n]

Data == rewound \/ ( /\ popped \subseteq confirmed
                     /\ \A n \in Node : pc[n] \in Streaming => Tracked(n) )

FailoverInd == TypeOK /\ Threads /\ Stream /\ Data

-----------------------------------------------------------------------------
(* The threads. *)

(* The node behind a node that has one. *)
LEMMA NextNode ==
    ASSUME NEW n \in Node
    PROVE  /\ n \in Nat /\ 1 \in Node
           /\ HasFailover(n) => n + 1 \in Node /\ n + 1 # 1
           /\ \A m \in Node : n < m => n + 1 = m \/ n + 1 < m
           /\ \A m \in Node : n < m => HasFailover(n)
           /\ n # 1 => n - 1 \in Node /\ HasFailover(n - 1)
  BY LengthAssumption DEF Node, HasFailover

(* A node that goes on without a word to any other, neither to the end of  *)
(* its thread nor into the loop.                                           *)
LEMMA MoveThreads ==
    ASSUME TypeOK, Threads, NEW n \in Node, NEW place \in Place \ {"off", "ending", "exit", "exiting"},
           pc' = [pc EXCEPT ![n] = place], UNCHANGED control,
           pc[n] # "off", pc[n] \notin Waiting,
           place \in Quiet => pc[n] \in Quiet,
           place = "end" => should_exit[n]
    PROVE  Threads'
  <1>1. \A m \in Node : pc'[m] = IF m = n THEN place ELSE pc[m]
    BY DEF TypeOK
  <1>2. /\ main' = main /\ started' = started /\ should_exit' = should_exit
        /\ launched' = launched
    BY DEF control
  <1>3. place \notin {"off", "ending", "exit"} /\ place \notin Waiting
    BY DEF Waiting
  <1>4. \A m \in Node : pc'[m] # "off" => started'[m]
    BY <1>1, <1>2 DEF Threads
  <1>5. \A m \in Node : started'[m] /\ pc'[m] \in {"off", "end", "ending", "exit"}
                          => should_exit'[m]
    BY <1>1, <1>2, <1>3 DEF Threads
  <1>6. \A m \in Node : HasFailover(m) /\ started'[m + 1] /\ should_exit'[m + 1]
                          => pc'[m] \in Waiting
    BY <1>1, <1>2 DEF Threads
  <1>7. \A m \in Node : launched'[m] \/ pc'[m] \in Waiting => HasFailover(m)
    BY <1>1, <1>2, <1>3 DEF Threads
  <1>8. \A m \in Node : HasFailover(m) /\ ~launched'[m] => pc'[m + 1] = "off"
    <2> SUFFICES ASSUME NEW m \in Node, HasFailover(m), ~launched'[m] PROVE pc'[m + 1] = "off"
      OBVIOUS
    <2>1. m + 1 \in Node /\ pc[m + 1] = "off"
      BY <1>2, NextNode DEF Threads
    <2> QED BY <1>1, <2>1
  <1>9. \A k, m \in Node : k < m /\ pc'[k] \in Quiet => pc'[m] = "off"
    <2> SUFFICES ASSUME NEW k \in Node, NEW m \in Node, k < m, pc'[k] \in Quiet
                 PROVE  pc'[m] = "off"
      OBVIOUS
    <2>1. pc[k] \in Quiet
      BY <1>1
    <2>2. pc[m] = "off"
      BY <2>1 DEF Threads
    <2> QED BY <1>1, <2>2
  <1> QED BY <1>2, <1>4, <1>5, <1>6, <1>7, <1>8, <1>9 DEF Threads, HasFailover

(* A node whose failover does not run, or has been joined, goes into its   *)
(* loop or to the end of its thread.                                       *)
LEMMA EnterThreads ==
    ASSUME TypeOK, Threads, NEW n \in Node, NEW place \in {"nack", "exit"},
           IF place = "nack" THEN pc[n] \in {"shutdown", "exiting"}
                             ELSE pc[n] \in {"end", "ending"},
           pc' = [pc EXCEPT ![n] = place],
           launched' \in {launched, [launched EXCEPT ![n] = FALSE]},
           HasFailover(n) => pc[n + 1] = "off",
           main' = main, should_exit' = should_exit,
           IF pc[n] \in Waiting THEN started' = [started EXCEPT ![n + 1] = FALSE]
                                ELSE started' = started
    PROVE  Threads'
  <1>1. \A m \in Node : /\ pc'[m] = IF m = n THEN place ELSE pc[m]
                        /\ launched'[m] => launched[m]
                        /\ m # n => launched'[m] = launched[m]
    BY DEF TypeOK
  <1>2. pc[n] \in Waiting => HasFailover(n) /\ n + 1 \in Node /\ n + 1 # n
    BY NextNode DEF Threads, Waiting
  <1>3. \A m \in Node : /\ started'[m] => started[m]
                        /\ m # n + 1 => started'[m] = started[m]
                        /\ m = n + 1 /\ pc[n] \in Waiting => ~started'[m]
    BY <1>2 DEF TypeOK
  <1>4. \A m \in Node : pc'[m] # "off" => started'[m]
    <2> SUFFICES ASSUME NEW m \in Node, pc'[m] # "off" PROVE started'[m]
      OBVIOUS
    <2>1. CASE m = n
      BY <1>3, <2>1, NextNode DEF Threads
    <2>2. CASE m # n
      BY <1>1, <1>2, <1>3, <2>2 DEF Threads
    <2> QED BY <2>1, <2>2
  <1>5. \A m \in Node : started'[m] /\ pc'[m] \in {"off", "end", "ending", "exit"}
                          => should_exit'[m]
    <2> SUFFICES ASSUME NEW m \in Node, started'[m],
                        pc'[m] \in {"off", "end", "ending", "exit"}
                 PROVE  should_exit'[m]
      OBVIOUS
    <2>1. CASE m = n
      <3>1. pc[n] \in {"end", "ending"}
        BY <1>1, <2>1
      <3> QED BY <1>3, <2>1, <3>1 DEF Threads
    <2>2. CASE m # n
      BY <1>1, <1>3, <2>2 DEF Threads
    <2> QED BY <2>1, <2>2
  <1>6. \A m \in Node : HasFailover(m) /\ started'[m + 1] /\ should_exit'[m + 1]
                          => pc'[m] \in Waiting
    <2> SUFFICES ASSUME NEW m \in Node, HasFailover(m), started'[m + 1], should_exit'[m + 1]
                 PROVE  pc'[m] \in Waiting
      OBVIOUS
    <2>1. m + 1 \in Node /\ started[m + 1] /\ pc[m] \in Waiting
      BY <1>3, NextNode DEF Threads
    <2>2. m # n
      <3> SUFFICES ASSUME m = n PROVE FALSE
        OBVIOUS
      <3>1. pc[n] \in Waiting
        BY <2>1
      <3> QED BY <1>3, <2>1, <3>1
    <2> QED BY <1>1, <2>1, <2>2
  <1>7. \A m \in Node : launched'[m] \/ pc'[m] \in Waiting => HasFailover(m)
    BY <1>1 DEF Threads, Waiting
  <1>8. \A m \in Node : HasFailover(m) /\ ~launched'[m] => pc'[m + 1] = "off"
    <2> SUFFICES ASSUME NEW m \in Node, HasFailover(m), ~launched'[m] PROVE pc'[m + 1] = "off"
      OBVIOUS
    <2>1. m + 1 \in Node /\ pc[m + 1] = "off"
      BY <1>1, NextNode DEF Threads
    <2> QED BY <1>1, <2>1
  <1>9. \A k, m \in Node : k < m /\ pc'[k] \in Quiet => pc'[m] = "off"
    <2> SUFFICES ASSUME NEW k \in Node, NEW m \in Node, k < m, pc'[k] \in Quiet
                 PROVE  pc'[m] = "off"
      OBVIOUS
    <2>1. CASE k = n
      <3>1. HasFailover(n) /\ n + 1 \in Node /\ (n + 1 = m \/ n + 1 < m) /\ m # n
        BY <2>1, NextNode DEF Node
      <3>2. pc[n + 1] = "off" /\ pc[n + 1] \in Quiet
        BY <3>1 DEF Quiet
      <3>3. pc[m] = "off"
        BY <3>1, <3>2 DEF Threads
      <3> QED BY <1>1, <3>1, <3>3
    <2>2. CASE k # n
      <3>1. pc[m] = "off"
        BY <1>1, <2>2 DEF Threads
      <3> QED BY <1>1, <3>1
    <2> QED BY <2>1, <2>2
  <1>10. /\ started'[1] /\ should_exit'[1] => main' = "waiting"
         /\ main' \in {"idle", "joined"} => ~started'[1]
    BY <1>3, NextNode DEF Threads
  <1> QED BY <1>4, <1>5, <1>6, <1>7, <1>8, <1>9, <1>10 DEF Threads, HasFailover

(* A node asks its failover to exit and waits for it. *)
LEMMA RequestThreads ==
    ASSUME TypeOK, Threads, NEW n \in Node, HasFailover(n),
           NEW place \in Waiting,
           pc[n] = (IF place = "exiting" THEN "shutdown" ELSE "end"),
           pc' = [pc EXCEPT ![n] = place],
           should_exit' = [should_exit EXCEPT ![n + 1] = TRUE],
           main' = main, started' = started, launched' = launched
    PROVE  Threads'
  <1>1. n + 1 \in Node /\ n + 1 # n /\ n + 1 # 1
    BY NextNode DEF Node
  <1>2. \A m \in Node : /\ pc'[m] = IF m = n THEN place ELSE pc[m]
                        /\ should_exit'[m] = IF m = n + 1 THEN TRUE ELSE should_exit[m]
    BY <1>1 DEF TypeOK
  <1>3. place \in {"exiting", "ending"} /\ place \notin Quiet
    BY DEF Waiting, Quiet
  <1>4. \A m \in Node : pc'[m] # "off" => started'[m]
    BY <1>2 DEF Threads
  <1>5. \A m \in Node : started'[m] /\ pc'[m] \in {"off", "end", "ending", "exit"}
                          => should_exit'[m]
    BY <1>2, <1>3 DEF Threads
  <1>6. \A m \in Node : HasFailover(m) /\ started'[m + 1] /\ should_exit'[m + 1]
                          => pc'[m] \in Waiting
    <2> SUFFICES ASSUME NEW m \in Node, HasFailover(m), started'[m + 1], should_exit'[m + 1]
                 PROVE  pc'[m] \in Waiting
      OBVIOUS
    <2>1. CASE m = n
      BY <1>2, <2>1
    <2>2. CASE m # n
      <3>1. m + 1 \in Node /\ m + 1 # n + 1
        BY <2>2, NextNode DEF Node
      <3> QED BY <1>2, <2>2, <3>1 DEF Threads
    <2> QED BY <2>1, <2>2
  <1>7. \A m \in Node : launched'[m] \/ pc'[m] \in Waiting => HasFailover(m)
    BY <1>2 DEF Threads
  <1>8. \A m \in Node : HasFailover(m) /\ ~launched'[m] => pc'[m + 1] = "off"
    <2> SUFFICES ASSUME NEW m \in Node, HasFailover(m), ~launched'[m] PROVE pc'[m + 1] = "off"
      OBVIOUS
    <2>1. m + 1 \in Node /\ pc[m + 1] = "off"
      BY NextNode DEF Threads
    <2>2. pc[n] # "off"
      BY <1>3
    <2> QED BY <1>2, <2>1, <2>2
  <1>9. \A k, m \in Node : k < m /\ pc'[k] \in Quiet => pc'[m] = "off"
    <2> SUFFICES ASSUME NEW k \in Node, NEW m \in Node, k < m, pc'[k] \in Quiet
                 PROVE  pc'[m] = "off"
      OBVIOUS
    <2>1. k # n /\ pc[k] \in Quiet
      BY <1>2, <1>3
    <2>2. pc[m] = "off" /\ pc[n] # "off"
      BY <1>3, <2>1 DEF Threads
    <2> QED BY <1>2, <2>2
  <1>10. /\ started'[1] /\ should_exit'[1] => main' = "waiting"
         /\ main' \in {"idle", "joined"} => ~started'[1]
    BY <1>1, <1>2, NextNode DEF Threads
  <1> QED BY <1>4, <1>5, <1>6, <1>7, <1>8, <1>9, <1>10 DEF Threads, HasFailover

(* A node that was not launched has no thread at all: it was joined.       *)
LEMMA NotLaunched ==
    ASSUME TypeOK, Threads, NEW n \in Node, HasFailover(n), pc[n] \notin Waiting,
           ~launched[n] \/ ~MustWait(n + 1)
    PROVE  pc[n + 1] = "off" /\ (~launched[n] => ~started[n + 1])
  <1>1. n + 1 \in Node
    BY NextNode
  <1>2. started[n + 1] => ~should_exit[n + 1]
    BY DEF Threads
  <1>3. CASE ~launched[n]
    <2>1. pc[n + 1] = "off"
      BY <1>3 DEF Threads
    <2>2. started[n + 1] => should_exit[n + 1]
      BY <1>1, <2>1 DEF Threads
    <2> QED BY <1>2, <2>1, <2>2
  <1>4. CASE launched[n]
    <2>1. ~started[n + 1]
      BY <1>2, <1>4 DEF MustWait
    <2> QED BY <1>1, <1>4, <2>1 DEF Threads
  <1> QED BY <1>3, <1>4

(* A node starts its failover. *)
LEMMA LaunchThreads ==
    ASSUME TypeOK, Threads, NEW n \in Node, HasFailover(n), ~launched[n], pc[n] = "launch",
           launched' = [launched EXCEPT ![n] = TRUE], Start(n + 1), main' = main,
           pc' = [pc EXCEPT ![n] = "sleep", ![n + 1] = "open"]
    PROVE  Threads'
  <1>1. n + 1 \in Node /\ n + 1 # n /\ n + 1 # 1
    BY NextNode DEF Node
  <1>2. pc[n + 1] = "off" /\ ~started[n + 1]
    BY NotLaunched DEF Waiting
  <1>3. /\ pc'[n] = "sleep" /\ pc'[n + 1] = "open"
        /\ \A m \in Node : m # n /\ m # n + 1 => pc'[m] = pc[m]
        /\ \A m \in Node : launched'[m] = IF m = n THEN TRUE ELSE launched[m]
    BY <1>1 DEF TypeOK
  <1>4. \A m \in Node : /\ started'[m] = IF m = n + 1 THEN TRUE ELSE started[m]
                        /\ should_exit'[m] = IF m = n + 1 THEN FALSE ELSE should_exit[m]
    BY <1>1, <1>2 DEF TypeOK, Start
  <1>5. \A m \in Node : pc'[m] # "off" => started'[m]
    <2>1. started[n]
      BY DEF Threads
    <2>2. \A m \in Node : m # n /\ m # n + 1 /\ pc'[m] # "off" => started[m]
      BY <1>3 DEF Threads
    <2> QED BY <1>4, <2>1, <2>2
  <1>6. \A m \in Node : started'[m] /\ pc'[m] \in {"off", "end", "ending", "exit"}
                          => should_exit'[m]
    <2> SUFFICES ASSUME NEW m \in Node, started'[m],
                        pc'[m] \in {"off", "end", "ending", "exit"}
                 PROVE  should_exit'[m]
      OBVIOUS
    <2>1. m # n /\ m # n + 1
      BY <1>3
    <2> QED BY <1>3, <1>4, <2>1 DEF Threads
  <1>7. \A m \in Node : HasFailover(m) /\ started'[m + 1] /\ should_exit'[m + 1]
                          => pc'[m] \in Waiting
    <2> SUFFICES ASSUME NEW m \in Node, HasFailover(m), started'[m + 1], should_exit'[m + 1]
                 PROVE  pc'[m] \in Waiting
      OBVIOUS
    <2>1. m + 1 \in Node /\ m + 1 # n + 1
      BY <1>4, NextNode
    <2>2. pc[m] \in Waiting
      BY <1>4, <2>1 DEF Threads
    <2>3. m # n /\ m # n + 1
      BY <1>2, <2>2 DEF Waiting
    <2> QED BY <1>3, <2>2, <2>3
  <1>8. \A m \in Node : launched'[m] \/ pc'[m] \in Waiting => HasFailover(m)
    <2> SUFFICES ASSUME NEW m \in Node, m # n, launched'[m] \/ pc'[m] \in Waiting
                 PROVE  HasFailover(m)
      OBVIOUS
    <2>1. launched[m] \/ pc[m] \in Waiting
      BY <1>1, <1>3 DEF Waiting
    <2> QED BY <2>1 DEF Threads
  <1>9. \A m \in Node : HasFailover(m) /\ ~launched'[m] => pc'[m + 1] = "off"
    <2> SUFFICES ASSUME NEW m \in Node, HasFailover(m), ~launched'[m] PROVE pc'[m + 1] = "off"
      OBVIOUS
    <2>1. m # n /\ m + 1 \in Node /\ pc[m + 1] = "off"
      BY <1>3, NextNode DEF Threads
    <2>2. m + 1 # n /\ m + 1 # n + 1
      BY <2>1 DEF Node
    <2> QED BY <1>3, <2>1, <2>2
  <1>10. \A k, m \in Node : k < m /\ pc'[k] \in Quiet => pc'[m] = "off"
    <2> SUFFICES ASSUME NEW k \in Node, NEW m \in Node, k < m, pc'[k] \in Quiet
                 PROVE  pc'[m] = "off"
      OBVIOUS
    <2>1. k # n /\ k # n + 1
      BY <1>3 DEF Quiet
    <2>4. pc[k] \in Quiet
      BY <1>3, <2>1
    <2>2. pc[m] = "off" /\ m # n
      BY <2>4 DEF Threads
    <2>3. m # n + 1
      <3> SUFFICES ASSUME m = n + 1 PROVE FALSE
        OBVIOUS
      <3>1. k < n
        BY <2>1 DEF Node
      <3> QED BY <2>4, <3>1 DEF Threads
    <2> QED BY <1>3, <2>2, <2>3
  <1>11. /\ started'[1] /\ should_exit'[1] => main' = "waiting"
         /\ main' \in {"idle", "joined"} => ~started'[1]
    BY <1>1, <1>4, NextNode DEF Threads
  <1> QED BY <1>5, <1>6, <1>7, <1>8, <1>9, <1>10, <1>11 DEF Threads, HasFailover

(* The thread of a node ends. *)
LEMMA ExitThreads ==
    ASSUME TypeOK, Threads, NEW n \in Node, Exit(n)
    PROVE  Threads'
  <1>1. /\ pc[n] = "exit" /\ main' = main /\ started' = started
        /\ should_exit' = should_exit /\ launched' = launched
        /\ \A m \in Node : pc'[m] = IF m = n THEN "off" ELSE pc[m]
    BY DEF Exit, Goto, TypeOK
  <1>2. /\ \A m \in Node : pc'[m] # "off" => started'[m]
        /\ \A m \in Node : started'[m] /\ pc'[m] \in {"off", "end", "ending", "exit"}
                             => should_exit'[m]
        /\ \A m \in Node : HasFailover(m) /\ started'[m + 1] /\ should_exit'[m + 1]
                             => pc'[m] \in Waiting
        /\ \A m \in Node : launched'[m] \/ pc'[m] \in Waiting => HasFailover(m)
    BY <1>1 DEF Threads, Waiting
  <1>3. \A m \in Node : HasFailover(m) /\ ~launched'[m] => pc'[m + 1] = "off"
    BY <1>1, NextNode DEF Threads
  <1>4. \A k, m \in Node : k < m /\ pc'[k] \in Quiet => pc'[m] = "off"
    <2> SUFFICES ASSUME NEW k \in Node, NEW m \in Node, k < m, pc'[k] \in Quiet
                 PROVE  pc'[m] = "off"
      OBVIOUS
    <2>1. pc[k] \in Quiet
      BY <1>1 DEF Quiet
    <2>2. pc[m] = "off"
      BY <2>1 DEF Threads
    <2> QED BY <1>1, <2>2
  <1> QED BY <1>1, <1>2, <1>3, <1>4 DEF Threads, HasFailover

(* The main thread. *)
LEMMA MainThreads ==
    ASSUME TypeOK, Threads, MainStart \/ MainExit \/ MainJoin
    PROVE  Threads'
  <1>1. 1 \in Node /\ \A m \in Node : HasFailover(m) => m + 1 \in Node /\ m + 1 # 1
    <2>1. 1 \in Node
      BY LengthAssumption DEF Node
    <2> QED BY <2>1, NextNode
  <1>2. CASE MainStart
    <2>1. /\ main = "idle" /\ main' = "running" /\ launched' = launched /\ ~started[1]
          /\ \A m \in Node : pc'[m] = IF m = 1 THEN "open" ELSE pc[m]
      BY <1>1, <1>2 DEF MainStart, Goto, TypeOK, Threads
    <2>2. \A m \in Node : /\ started'[m] = IF m = 1 THEN TRUE ELSE started[m]
                          /\ should_exit'[m] = IF m = 1 THEN FALSE ELSE should_exit[m]
      BY <1>1, <1>2, <2>1 DEF MainStart, Start, TypeOK
    <2>3. pc[1] = "off"
      BY <1>1, <2>1 DEF Threads
    <2>4. \A m \in Node : HasFailover(m) /\ started'[m + 1] /\ should_exit'[m + 1]
                             => pc'[m] \in Waiting
      <3> SUFFICES ASSUME NEW m \in Node, HasFailover(m), started'[m + 1], should_exit'[m + 1]
                   PROVE  pc'[m] \in Waiting
        OBVIOUS
      <3>1. pc[m] \in Waiting
        BY <1>1, <2>2 DEF Threads
      <3>2. m # 1
        BY <2>3, <3>1 DEF Waiting
      <3> QED BY <2>1, <3>1, <3>2
    <2>5. /\ \A m \in Node : pc'[m] # "off" => started'[m]
          /\ \A m \in Node : started'[m] /\ pc'[m] \in {"off", "end", "ending", "exit"}
                               => should_exit'[m]
          /\ \A m \in Node : launched'[m] \/ pc'[m] \in Waiting => HasFailover(m)
          /\ \A m \in Node : HasFailover(m) /\ ~launched'[m] => pc'[m + 1] = "off"
      BY <1>1, <2>1, <2>2 DEF Threads, Waiting
    <2>6. \A k, m \in Node : k < m /\ pc'[k] \in Quiet => pc'[m] = "off"
      <3> SUFFICES ASSUME NEW k \in Node, NEW m \in Node, k < m, pc'[k] \in Quiet
                   PROVE  pc'[m] = "off"
        OBVIOUS
      <3>1. k # 1 /\ m # 1 /\ pc[k] \in Quiet
        BY <2>1 DEF Quiet, Node
      <3> QED BY <2>1, <3>1 DEF Threads
    <2> QED BY <1>1, <2>1, <2>2, <2>4, <2>5, <2>6 DEF Threads, HasFailover
  <1>3. CASE MainExit
    <2>1. /\ main' = "waiting" /\ launched' = launched /\ pc' = pc /\ started' = started
          /\ \A m \in Node : should_exit'[m] = IF m = 1 THEN TRUE ELSE should_exit[m]
      BY <1>1, <1>3 DEF MainExit, RequestExit, TypeOK
    <2> QED BY <1>1, <2>1 DEF Threads, HasFailover
  <1>4. CASE MainJoin
    <2>1. /\ main' = "joined" /\ launched' = launched /\ pc' = pc /\ should_exit' = should_exit
          /\ pc[1] = "off"
          /\ \A m \in Node : started'[m] = IF m = 1 THEN FALSE ELSE started[m]
      BY <1>1, <1>4 DEF MainJoin, Joined, TypeOK
    <2> QED BY <1>1, <2>1 DEF Threads, HasFailover
  <1> QED BY <1>2, <1>3, <1>4

(* Every step keeps the threads in order. *)
LEMMA ThreadsStep ==
    ASSUME TypeOK, Threads, Stream, Next
    PROVE  Threads'
  <1>1. CASE MainStart \/ MainExit \/ MainJoin
    BY <1>1, MainThreads
  <1>2. CASE Publish \/ \E n \in Node : Acknowledge(n)
    BY <1>2 DEF Publish, Acknowledge, control, Threads, HasFailover
  <1>3. ASSUME NEW n \in Node, Run(n) \/ StreamFails(n) \/ WriteShutdown(n)
        PROVE  Threads'
    <2>1. CASE Open(n) \/ NackOnOpen(n) \/ WriteStream(n) \/ FlushStream(n) \/ AckEvents(n)
               \/ NackOnError(n) \/ StreamFails(n) \/ WriteShutdown(n) \/ ReadMuxer(n)
               \/ LoopExit(n) \/ Sleep(n)
      <3>1. PICK place \in {"shutdown", "loop", "ack", "launch", "catch", "write", "flush",
                            "end", "open"} :
              /\ pc' = [pc EXCEPT ![n] = place] /\ UNCHANGED control
              /\ pc[n] # "off" /\ pc[n] \notin Waiting
              /\ place \in Quiet => pc[n] \in Quiet
              /\ place = "end" => should_exit[n]
        <4>1. CASE Open(n) \/ NackOnError(n) \/ StreamFails(n)
          BY <4>1 DEF Open, NackOnError, StreamFails, Goto, Waiting, Quiet
        <4>2. CASE NackOnOpen(n) \/ WriteStream(n) \/ FlushStream(n) \/ AckEvents(n)
                   \/ WriteShutdown(n)
          BY <4>2 DEF NackOnOpen, WriteStream, FlushStream, AckEvents, WriteShutdown, Goto,
                      Waiting, Quiet
        <4>3. CASE ReadMuxer(n)
          BY <4>3 DEF ReadMuxer, Goto, Waiting, Quiet
        <4>4. CASE LoopExit(n) \/ Sleep(n)
          BY <4>4 DEF LoopExit, Sleep, Goto, Waiting, Quiet
        <4> QED BY <2>1, <4>1, <4>2, <4>3, <4>4
      <3>2. place \in Place \ {"off", "ending", "exit", "exiting"}
        BY <3>1 DEF Place
      <3> QED BY <3>1, <3>2, MoveThreads
    <2>2. CASE ShutdownFailover(n)
      <3>1. pc[n] = "shutdown" /\ pc[n] \notin Waiting /\ main' = main /\ started' = started
        BY <2>2 DEF ShutdownFailover, Waiting
      <3>2. CASE /\ launched[n] /\ MustWait(n + 1)
                 /\ RequestExit(n + 1) /\ Goto(n, "exiting") /\ UNCHANGED launched
        <4>1. HasFailover(n) /\ "exiting" \in Waiting
          BY <3>2 DEF Threads, Waiting
        <4> QED BY <3>1, <3>2, <4>1, RequestThreads DEF RequestExit, Goto
      <3>3. CASE /\ launched[n] => ~MustWait(n + 1)
                 /\ launched' = [launched EXCEPT ![n] = FALSE]
                 /\ Goto(n, "nack") /\ UNCHANGED should_exit
        <4>1. HasFailover(n) => pc[n + 1] = "off"
          BY <3>1, <3>3, NotLaunched
        <4> QED BY <3>1, <3>3, <4>1, EnterThreads DEF Goto
      <3> QED BY <2>2, <3>2, <3>3 DEF ShutdownFailover
    <2>3. CASE FailoverJoined(n)
      <3>1. /\ pc[n] = "exiting" /\ pc[n + 1] = "off" /\ pc[n] \in Waiting
            /\ pc' = [pc EXCEPT ![n] = "nack"] /\ launched' = [launched EXCEPT ![n] = FALSE]
            /\ main' = main /\ should_exit' = should_exit
            /\ started' = [started EXCEPT ![n + 1] = FALSE]
        BY <2>3 DEF FailoverJoined, Joined, Goto, Waiting
      <3> QED BY <3>1, EnterThreads
    <2>4. CASE LaunchFailover(n)
      <3>1. CASE HasFailover(n) /\ ~launched[n]
        BY <2>4, <3>1, LaunchThreads DEF LaunchFailover
      <3>2. CASE ~HasFailover(n) \/ launched[n]
        <4>1. /\ pc[n] = "launch" /\ pc' = [pc EXCEPT ![n] = "sleep"] /\ UNCHANGED control
          BY <2>4, <3>2 DEF LaunchFailover, Goto, control
        <4>2. /\ "sleep" \in Place \ {"off", "ending", "exit", "exiting"}
              /\ "sleep" \notin Quiet /\ "launch" \notin Waiting
          BY DEF Place, Quiet, Waiting
        <4> QED BY <4>1, <4>2, MoveThreads
      <3> QED BY <3>1, <3>2
    <2>5. CASE EndFailover(n)
      <3>1. /\ pc[n] = "end" /\ pc[n] \notin Waiting /\ main' = main /\ started' = started
            /\ launched' = launched
        BY <2>5 DEF EndFailover, Waiting
      <3>2. CASE HasFailover(n) /\ MustWait(n + 1) /\ RequestExit(n + 1) /\ Goto(n, "ending")
        <4>1. "ending" \in Waiting
          BY DEF Waiting
        <4> QED BY <3>1, <3>2, <4>1, RequestThreads DEF RequestExit, Goto
      <3>3. CASE /\ HasFailover(n) => ~MustWait(n + 1)
                 /\ Goto(n, "exit") /\ UNCHANGED should_exit
        <4>1. HasFailover(n) => pc[n + 1] = "off"
          BY <3>1, <3>3, NotLaunched
        <4> QED BY <3>1, <3>3, <4>1, EnterThreads DEF Goto
      <3> QED BY <2>5, <3>2, <3>3 DEF EndFailover
    <2>6. CASE EndJoined(n)
      <3>1. /\ pc[n] = "ending" /\ pc[n + 1] = "off" /\ pc[n] \in Waiting
            /\ pc' = [pc EXCEPT ![n] = "exit"] /\ launched' = launched
            /\ main' = main /\ should_exit' = should_exit
            /\ started' = [started EXCEPT ![n + 1] = FALSE]
        BY <2>6 DEF EndJoined, Joined, Goto, Waiting
      <3> QED BY <3>1, EnterThreads
    <2>7. CASE Exit(n)
      BY <2>7, ExitThreads
    <2> QED BY <1>3, <2>1, <2>2, <2>3, <2>4, <2>5, <2>6, <2>7 DEF Run
  <1> QED BY <1>1, <1>2, <1>3 DEF Next

-----------------------------------------------------------------------------
(* The streams and the muxer. *)

(* The nodes do not get in each other's way: while one is in its loop, no  *)
(* other is.                                                               *)
LEMMA OneConsumer ==
    ASSUME Threads, NEW n \in Node, pc[n] \in Streaming \union {"nack"},
           NEW m \in Node, m # n
    PROVE  pc[m] \notin Streaming
  <1>1. Streaming \subseteq Quiet /\ "nack" \in Quiet /\ "off" \notin Streaming \union {"nack"}
    BY DEF Streaming, Quiet
  <1>2. n < m \/ m < n
    BY DEF Node
  <1>3. n < m => pc[m] = "off"
    BY <1>1 DEF Threads
  <1>4. m < n /\ pc[m] \in Streaming => pc[n] = "off"
    BY <1>1 DEF Threads
  <1> QED BY <1>1, <1>2, <1>3, <1>4

ControlType ==
    /\ main \in {"idle", "running", "waiting", "joined"}
    /\ pc \in [Node -> Place]
    /\ started \in [Node -> BOOLEAN] /\ should_exit \in [Node -> BOOLEAN]
    /\ stopped \in [Node -> BOOLEAN] /\ launched \in [Node -> BOOLEAN]

DataType ==
    /\ can_read \in [Node -> BOOLEAN]
    /\ d \in [Node -> 0 .. MaxEvents]
    /\ we \in [Node -> Nat] /\ ready \in [Node -> Nat]
    /\ inflight \in [Node -> Seq(Event)]
    /\ events \in Seq(Event) /\ pos \in 0 .. Len(events)
    /\ next \in 1 .. MaxEvents + 1 /\ rewound \in BOOLEAN /\ faults \in 0 .. MaxFaults
    /\ confirmed \subseteq Event /\ popped \subseteq Event

(* Steps that move threads only. *)
LEMMA ControlStep ==
    ASSUME DataType, Stream, Data, UNCHANGED <<local, streams, muxer, history>>,
           \A m \in Node : pc'[m] \in Streaming \/ pc[m] \in Streaming => pc'[m] = pc[m]
    PROVE  DataType' /\ Stream' /\ Data'
  <1>1. /\ can_read' = can_read /\ d' = d /\ we' = we /\ inflight' = inflight
        /\ ready' = ready /\ confirmed' = confirmed /\ events' = events /\ pos' = pos
        /\ popped' = popped /\ next' = next /\ rewound' = rewound /\ faults' = faults
    BY DEF local, streams, muxer, history
  <1>2. DataType'
    BY <1>1 DEF DataType
  <1>3. "write" \in Streaming /\ "ack" \in Streaming
    BY DEF Streaming
  <1>4. Stream'
    BY <1>1, <1>3 DEF Stream
  <1>5. Data'
    BY <1>1 DEF Data, Tracked, Taken, Confirmed
  <1> QED BY <1>2, <1>4, <1>5

(* What the steps of one node leave to another. *)
LEMMA OtherTracked ==
    ASSUME NEW m \in Node, Tracked(m), pc'[m] = pc[m], we'[m] = we[m], ready'[m] = ready[m],
           inflight'[m] = inflight[m], d'[m] = d[m], can_read'[m] = can_read[m],
           events' = events, pos' = pos, confirmed \subseteq confirmed'
    PROVE  Tracked(m)'
  BY DEF Tracked, Taken, Confirmed

(* A node that drops its stream. *)
LEMMA DropData ==
    ASSUME TypeOK, DataType, Stream, Data, NEW n \in Node,
           NEW place \in Place \ Streaming,
           pc[n] # "ack", pc' = [pc EXCEPT ![n] = place], DropStream(n),
           d' \in {d, [d EXCEPT ![n] = 0]}, faults' \in 0 .. MaxFaults,
           UNCHANGED <<can_read, we, muxer, next, rewound>>
    PROVE  DataType' /\ Stream' /\ Data'
  <1>1. /\ inflight' = [inflight EXCEPT ![n] = <<>>] /\ ready' = [ready EXCEPT ![n] = 0]
        /\ confirmed' = confirmed /\ events' = events /\ pos' = pos /\ popped' = popped
        /\ can_read' = can_read /\ we' = we /\ next' = next /\ rewound' = rewound
    BY DEF DropStream, muxer
  <1>2. DataType'
    <2>1. d' \in [Node -> 0 .. MaxEvents]
      <3>1. 0 \in 0 .. MaxEvents /\ d \in [Node -> 0 .. MaxEvents]
        BY BoundsAssumption DEF DataType
      <3>2. CASE d' = d
        BY <3>1, <3>2
      <3>3. CASE d' = [d EXCEPT ![n] = 0]
        BY <3>1, <3>3
      <3> QED BY <3>2, <3>3
    <2>2. inflight' \in [Node -> Seq(Event)] /\ ready' \in [Node -> Nat]
      BY <1>1 DEF DataType
    <2> QED BY <1>1, <2>1, <2>2 DEF DataType
  <1>3. /\ \A m \in Node : /\ pc'[m] = IF m = n THEN place ELSE pc[m]
                           /\ m # n => inflight'[m] = inflight[m] /\ ready'[m] = ready[m]
                           /\ m # n => d'[m] = d[m]
        /\ inflight'[n] = <<>> /\ ready'[n] = 0
    BY <1>1 DEF DataType, TypeOK
  <1>4. place # "write" /\ place \notin Streaming
    BY DEF Streaming
  <1>5. Stream'
    BY <1>3, <1>4 DEF Stream
  <1>6. ASSUME ~rewound, NEW m \in Node, pc'[m] \in Streaming PROVE Tracked(m)'
    <2>1. m # n /\ pc[m] \in Streaming
      BY <1>3, <1>4, <1>6
    <2>2. Tracked(m)
      BY <1>6, <2>1 DEF Data
    <2> QED BY <1>1, <1>3, <2>1, <2>2, OtherTracked
  <1>7. Data'
    BY <1>1, <1>6 DEF Data
  <1> QED BY <1>2, <1>5, <1>7

(* muxer::publish. *)
LEMMA PublishData ==
    ASSUME DataType, Stream, Data, Publish
    PROVE  DataType' /\ Stream' /\ Data'
  <1> USE BoundsAssumption
  <1>1. /\ next <= MaxEvents /\ events' = Append(events, next) /\ next' = next + 1
        /\ UNCHANGED <<pc, can_read, d, we, inflight, ready, confirmed, pos, popped, rewound,
                       faults>>
    BY DEF Publish, local, streams
  <1>2. events \in Seq(Event) /\ next \in Event /\ next \in Nat /\ pos \in 0 .. Len(events)
    BY <1>1 DEF DataType, Event
  <1>3. /\ events' \in Seq(Event) /\ Len(events') = Len(events) + 1 /\ Len(events) \in Nat
        /\ \A i \in 1 .. Len(events) : events'[i] = events[i]
    BY <1>1, <1>2, ToSetAppend
  <1>4. DataType'
    BY <1>1, <1>2, <1>3 DEF DataType
  <1>5. Stream'
    BY <1>1 DEF Stream
  <1>6. ASSUME NEW m \in Node, Tracked(m), DataType PROVE Tracked(m)'
    <2>1. /\ we[m] \in Nat /\ ready[m] \in Nat /\ inflight[m] \in Seq(Event)
          /\ Len(inflight[m]) \in Nat
      BY DEF DataType
    <2>2. PICK c \in Nat, l \in Nat : c = Confirmed(m) /\ l = Len(inflight[m])
      BY <2>1 DEF Confirmed
    <2>3. /\ c + l <= pos /\ (pc[m] = "write" => c + l + 1 <= pos)
      BY <1>6, <2>1, <2>2 DEF Tracked, Taken
    <2>4. /\ \A i \in 1 .. c : i \in 1 .. Len(events)
          /\ \A i \in 1 .. l : c + i \in 1 .. Len(events)
          /\ pc[m] = "write" => c + l + 1 \in 1 .. Len(events)
      <3>1. c \in Nat /\ l \in Nat /\ pos \in Nat /\ Len(events) \in Nat /\ pos <= Len(events)
        BY <1>2, <1>3, <2>2
      <3> QED BY <2>3, <3>1
    <2>5. Confirmed(m)' = c /\ Len(inflight'[m]) = l /\ Taken(m)' = c + l /\ Taken(m) = c + l
      BY <1>1, <2>2 DEF Confirmed, Taken
    <2>6. \A i \in 1 .. c : events'[i] \in confirmed'
      BY <1>1, <1>3, <1>6, <2>2, <2>4 DEF Tracked
    <2>7. \A i \in 1 .. l : inflight'[m][i] = events'[c + i]
      BY <1>1, <1>3, <1>6, <2>2, <2>4 DEF Tracked
    <2>8. pc[m] = "write" => d'[m] = events'[c + l + 1]
      BY <1>1, <1>3, <1>6, <2>4, <2>5 DEF Tracked
    <2> QED BY <1>1, <1>6, <2>5, <2>6, <2>7, <2>8 DEF Tracked
  <1>7. Data'
    BY <1>1, <1>6 DEF Data
  <1> QED BY <1>4, <1>5, <1>7

(* muxer::nack_events, by the node that enters its loop or has failed.     *)
LEMMA NackData ==
    ASSUME TypeOK, Threads, DataType, Stream, Data, NEW n \in Node,
           NackOnOpen(n) \/ NackOnError(n)
    PROVE  DataType' /\ Stream' /\ Data'
  <1>1. /\ pos' = 0
        /\ UNCHANGED <<d, we, inflight, ready, confirmed, events, popped, next, faults>>
    BY DEF NackOnOpen, NackOnError, local, streams, history
  <1>2. CASE NackOnOpen(n)
    <2>1. /\ pc[n] = "nack" /\ rewound' = rewound
          /\ pc'[n] = "loop" /\ can_read' = [can_read EXCEPT ![n] = TRUE]
          /\ \A m \in Node : m # n => pc'[m] = pc[m]
      BY <1>2 DEF NackOnOpen, Goto, TypeOK, history
    <2>2. DataType'
      BY <1>1, <2>1 DEF DataType
    <2>3. /\ inflight[n] = <<>> /\ ready[n] = 0 /\ we[n] = 0
      BY <2>1 DEF Stream, Streaming
    <2>4. \A m \in Node : m # n => can_read'[m] = can_read[m]
      BY <2>1 DEF DataType
    <2>5. Stream'
      BY <1>1, <2>1, <2>3, <2>4 DEF Stream, Streaming
    <2>6. \A m \in Node : pc'[m] \in Streaming => m = n
      BY <2>1, OneConsumer
    <2>7. Tracked(n)'
      <3>1. Confirmed(n)' = 0 /\ Len(inflight'[n]) = 0 /\ Taken(n)' = 0
        BY <1>1, <2>3 DEF Confirmed, Taken
      <3> QED BY <1>1, <2>1, <3>1 DEF Tracked
    <2>8. Data'
      BY <1>1, <2>1, <2>6, <2>7 DEF Data
    <2> QED BY <2>2, <2>5, <2>8
  <1>3. CASE NackOnError(n)
    <2>1. /\ pc[n] = "catch" /\ can_read' = can_read /\ pc'[n] = "launch"
          /\ rewound' = (rewound \/ \E m \in n + 1 .. Length : Consuming(m))
          /\ \A m \in Node : m # n => pc'[m] = pc[m]
      BY <1>3 DEF NackOnError, Goto, TypeOK, local
    <2>2. DataType'
      <3>1. rewound' \in BOOLEAN
        BY <2>1 DEF DataType
      <3> QED BY <1>1, <2>1, <3>1 DEF DataType
    <2>3. Stream'
      BY <1>1, <2>1 DEF Stream, Streaming
    <2>4. ASSUME ~rewound', NEW m \in Node PROVE pc'[m] \notin Streaming
      <3>1. CASE m = n
        BY <2>1, <3>1 DEF Streaming
      <3>2. CASE m < n
        <4>1. pc[m] \in Quiet => pc[n] = "off"
          BY <3>2 DEF Threads
        <4>2. pc[m] \notin Streaming
          BY <2>1, <4>1 DEF Streaming, Quiet
        <4>3. m # n
          BY <3>2 DEF Node
        <4> QED BY <2>1, <4>2, <4>3
      <3>3. CASE n < m
        <4>1. m \in n + 1 .. Length /\ m # n
          BY <3>3 DEF Node
        <4>2. ~Consuming(m)
          BY <2>1, <2>4, <4>1
        <4> QED BY <2>1, <4>1, <4>2 DEF Consuming, Streaming
      <3> QED BY <3>1, <3>2, <3>3 DEF Node
    <2>5. Data'
      BY <1>1, <2>1, <2>4 DEF Data
    <2> QED BY <2>2, <2>3, <2>5
  <1> QED BY <1>2, <1>3

(* What the consumer knows, in numbers that do not depend on the state. *)
LEMMA TrackedNumbers ==
    ASSUME DataType, Stream, NEW n \in Node, Tracked(n)
    PROVE  \E c \in Nat, l \in Nat, p \in Nat :
             /\ c = Confirmed(n) /\ l = Len(inflight[n]) /\ p = pos /\ p <= Len(events)
             /\ inflight[n] \in Seq(Event) /\ events \in Seq(Event)
             /\ \A i \in 1 .. c : events[i] \in confirmed
             /\ \A i \in 1 .. l : inflight[n][i] = events[c + i]
             /\ IF pc[n] = "write" THEN p = c + l + 1 /\ d[n] = events[c + l + 1]
                                   ELSE c + l <= p
             /\ can_read[n] /\ pc[n] # "write" => p = c + l
             /\ Taken(n) = c + l
  <1>1. /\ we[n] \in Nat /\ ready[n] \in Nat /\ inflight[n] \in Seq(Event) /\ pos \in Nat
        /\ pos <= Len(events) /\ events \in Seq(Event)
    BY DEF DataType
  <1>2. PICK c \in Nat, l \in Nat, p \in Nat :
          c = Confirmed(n) /\ l = Len(inflight[n]) /\ p = pos
    BY <1>1 DEF Confirmed
  <1>3. Taken(n) = c + l
    BY <1>2 DEF Taken
  <1> WITNESS c \in Nat, l \in Nat, p \in Nat
  <1> QED BY <1>1, <1>2, <1>3 DEF Tracked

(* And what it takes to know it. *)
LEMMA TrackedFromNumbers ==
    ASSUME NEW n \in Node, NEW c \in Nat, NEW l \in Nat, NEW p \in Nat,
           c = we'[n] + ready'[n], l = Len(inflight'[n]), p = pos',
           \A i \in 1 .. c : events'[i] \in confirmed',
           \A i \in 1 .. l : inflight'[n][i] = events'[c + i],
           IF pc'[n] = "write" THEN p = c + l + 1 /\ d'[n] = events'[c + l + 1]
                               ELSE c + l <= p,
           can_read'[n] /\ pc'[n] # "write" => p = c + l
    PROVE  Tracked(n)'
  <1>1. Confirmed(n)' = c /\ Taken(n)' = c + l
    BY DEF Confirmed, Taken
  <1> QED BY <1>1 DEF Tracked

(* The stream acknowledges the oldest event it holds. *)
LEMMA AcknowledgeData ==
    ASSUME DataType, Stream, Data, NEW n \in Node, Acknowledge(n)
    PROVE  DataType' /\ Stream' /\ Data'
  <1>1. /\ inflight[n] # <<>>
        /\ UNCHANGED <<pc, can_read, d, we, events, pos, popped, next, rewound, faults>>
        /\ inflight' = [inflight EXCEPT ![n] = Tail(@)]
        /\ ready' = [ready EXCEPT ![n] = @ + 1]
        /\ confirmed' = confirmed \union {Head(inflight[n])}
    BY DEF Acknowledge, local, muxer, history
  <1>2. inflight[n] \in Seq(Event) /\ ready[n] \in Nat /\ we[n] \in Nat
    BY DEF DataType
  <1>3. /\ Head(inflight[n]) \in Event /\ Head(inflight[n]) = inflight[n][1]
        /\ Tail(inflight[n]) \in Seq(Event) /\ Len(inflight[n]) \in Nat \ {0}
        /\ Len(Tail(inflight[n])) = Len(inflight[n]) - 1
        /\ \A i \in 1 .. Len(inflight[n]) - 1 : Tail(inflight[n])[i] = inflight[n][i + 1]
    BY <1>1, <1>2
  <1>4. /\ \A m \in Node : m # n => inflight'[m] = inflight[m] /\ ready'[m] = ready[m]
        /\ inflight'[n] = Tail(inflight[n]) /\ ready'[n] = ready[n] + 1
    BY <1>1 DEF DataType
  <1>5. DataType'
    <2>1. inflight' \in [Node -> Seq(Event)] /\ ready' \in [Node -> Nat]
      BY <1>1, <1>2, <1>3 DEF DataType
    <2> QED BY <1>1, <1>3, <2>1 DEF DataType
  <1>6. pc[n] \in Streaming
    BY <1>1 DEF Stream
  <1>7. Stream'
    BY <1>1, <1>4, <1>6 DEF Stream
  <1>8. ASSUME Tracked(n) PROVE Tracked(n)'
    <2>1. PICK c \in Nat, l \in Nat, p \in Nat :
             /\ c = Confirmed(n) /\ l = Len(inflight[n]) /\ p = pos /\ p <= Len(events)
             /\ inflight[n] \in Seq(Event) /\ events \in Seq(Event)
             /\ \A i \in 1 .. c : events[i] \in confirmed
             /\ \A i \in 1 .. l : inflight[n][i] = events[c + i]
             /\ IF pc[n] = "write" THEN p = c + l + 1 /\ d[n] = events[c + l + 1]
                                   ELSE c + l <= p
             /\ can_read[n] /\ pc[n] # "write" => p = c + l
             /\ Taken(n) = c + l
      BY <1>8, TrackedNumbers
    <2>2. c \in Nat /\ l \in Nat /\ p \in Nat /\ l # 0
      BY <1>3, <2>1
    <2>3. PICK a \in Nat, b \in Nat : a = c + 1 /\ l = b + 1
      <3>1. c + 1 \in Nat /\ l - 1 \in Nat /\ l = (l - 1) + 1
        BY <2>2
      <3> QED BY <3>1, Zenon
    <2>4. a + b = c + l
      BY <2>2, <2>3
    <2>5. a = we'[n] + ready'[n] /\ b = Len(inflight'[n]) /\ p = pos'
      <3>1. c = we[n] + ready[n] /\ we'[n] = we[n]
        BY <1>1, <2>1 DEF Confirmed
      <3>2. a = we'[n] + ready'[n]
        BY <1>2, <1>4, <2>3, <3>1
      <3>3. Len(inflight'[n]) = l - 1
        BY <1>3, <1>4, <2>1
      <3> QED BY <1>1, <2>1, <2>2, <2>3, <3>2, <3>3
    <2>6. events[a] \in confirmed'
      <3>1. inflight[n][1] = events[c + 1]
        BY <2>1, <2>2
      <3> QED BY <1>1, <1>3, <2>3, <3>1
    <2>7. \A i \in 1 .. a : events'[i] \in confirmed'
      <3>1. \A i \in 1 .. a : i \in 1 .. c \/ i = a
        BY <2>2, <2>3
      <3>2. \A i \in 1 .. c : events[i] \in confirmed'
        BY <1>1, <2>1
      <3> QED BY <1>1, <2>6, <3>1, <3>2
    <2>8. \A i \in 1 .. b : inflight'[n][i] = events'[a + i]
      <3> SUFFICES ASSUME NEW i \in 1 .. b PROVE inflight'[n][i] = events'[a + i]
        OBVIOUS
      <3>1. i + 1 \in 1 .. l /\ c + (i + 1) = a + i /\ i \in 1 .. l - 1
        BY <2>2, <2>3
      <3>2. inflight'[n][i] = inflight[n][i + 1]
        BY <1>3, <1>4, <2>1, <3>1
      <3> QED BY <1>1, <2>1, <3>1, <3>2
    <2>9. /\ IF pc'[n] = "write" THEN p = a + b + 1 /\ d'[n] = events'[a + b + 1]
                                 ELSE a + b <= p
          /\ can_read'[n] /\ pc'[n] # "write" => p = a + b
      BY <1>1, <2>1, <2>4
    <2>10. Confirmed(n)' = a /\ Taken(n)' = a + b /\ Len(inflight'[n]) = b /\ p = pos'
      BY <2>5 DEF Confirmed, Taken
    <2>11. \A i \in 1 .. Len(inflight'[n]) : inflight'[n][i] = events'[Confirmed(n)' + i]
      BY <2>8, <2>10
    <2>12. \A i \in 1 .. Confirmed(n)' : events'[i] \in confirmed'
      BY <2>7, <2>10
    <2> QED BY <2>9, <2>10, <2>11, <2>12 DEF Tracked
  <1>9. ASSUME ~rewound, NEW m \in Node, pc'[m] \in Streaming PROVE Tracked(m)'
    <2>1. Tracked(m)
      BY <1>1, <1>9 DEF Data
    <2> QED BY <1>1, <1>4, <1>8, <2>1, OtherTracked
  <1>10. Data'
    BY <1>1, <1>9 DEF Data
  <1> QED BY <1>5, <1>7, <1>10

(* muxer::read by the consumer. *)
LEMMA ReadData ==
    ASSUME TypeOK, Threads, DataType, Stream, Data, NEW n \in Node, ReadMuxer(n)
    PROVE  DataType' /\ Stream' /\ Data'
  <1>1. /\ pc[n] = "loop"
        /\ UNCHANGED <<can_read, we, inflight, ready, confirmed, events, popped, next, rewound,
                       faults>>
    BY DEF ReadMuxer, streams, history
  <1>2. \A m \in Node : m # n => pc[m] \notin Streaming
    BY <1>1, OneConsumer DEF Streaming
  <1>3. ~rewound => Tracked(n) /\ popped \subseteq confirmed
    BY <1>1 DEF Data, Streaming
  <1>4. CASE /\ can_read[n] /\ pos < Len(events)
             /\ d' = [d EXCEPT ![n] = events[pos + 1]] /\ pos' = pos + 1 /\ Goto(n, "write")
    <2>1. /\ pc'[n] = "write" /\ d'[n] = events[pos + 1]
          /\ \A m \in Node : m # n => pc'[m] = pc[m] /\ d'[m] = d[m]
      BY <1>4 DEF Goto, TypeOK, DataType
    <2>2. pos \in Nat /\ pos + 1 \in 1 .. Len(events) /\ events[pos + 1] \in Event
      BY <1>4 DEF DataType
    <2>3. DataType'
      <3>1. events[pos + 1] \in 0 .. MaxEvents
        BY <2>2 DEF Event
      <3>2. d' \in [Node -> 0 .. MaxEvents]
        BY <1>4, <3>1 DEF DataType
      <3>3. pos' \in 0 .. Len(events')
        BY <1>1, <1>4, <2>2
      <3> QED BY <1>1, <3>2, <3>3 DEF DataType
    <2>4. Stream'
      BY <1>1, <1>4, <2>1, <2>2 DEF Stream, Streaming
    <2>5. ASSUME ~rewound PROVE Tracked(n)'
      <3>1. PICK c \in Nat, l \in Nat, p \in Nat :
             /\ c = Confirmed(n) /\ l = Len(inflight[n]) /\ p = pos /\ p <= Len(events)
             /\ inflight[n] \in Seq(Event) /\ events \in Seq(Event)
             /\ \A i \in 1 .. c : events[i] \in confirmed
             /\ \A i \in 1 .. l : inflight[n][i] = events[c + i]
             /\ IF pc[n] = "write" THEN p = c + l + 1 /\ d[n] = events[c + l + 1]
                                   ELSE c + l <= p
             /\ can_read[n] /\ pc[n] # "write" => p = c + l
             /\ Taken(n) = c + l
        BY <1>3, <2>5, TrackedNumbers
      <3>2. p = c + l /\ p + 1 \in Nat
        BY <1>1, <1>4, <3>1
      <3>3. c = we'[n] + ready'[n] /\ l = Len(inflight'[n]) /\ p + 1 = pos'
        BY <1>1, <1>4, <3>1 DEF Confirmed
      <3>4. p + 1 = c + l + 1 /\ d'[n] = events'[c + l + 1]
        BY <1>1, <2>1, <3>1, <3>2
      <3> QED BY <1>1, <2>1, <3>1, <3>2, <3>3, <3>4, TrackedFromNumbers
    <2>6. \A m \in Node : pc'[m] \in Streaming => m = n
      BY <1>2, <2>1
    <2>7. Data'
      BY <1>1, <1>3, <2>5, <2>6 DEF Data
    <2> QED BY <2>3, <2>4, <2>7
  <1>5. CASE (~can_read[n] \/ pos = Len(events)) /\ Goto(n, "flush") /\ UNCHANGED <<d, pos>>
    <2>1. pc'[n] = "flush" /\ \A m \in Node : m # n => pc'[m] = pc[m]
      BY <1>5 DEF Goto, TypeOK
    <2>2. DataType'
      BY <1>1, <1>5 DEF DataType
    <2>3. Stream'
      BY <1>1, <1>5, <2>1 DEF Stream, Streaming
    <2>4. ASSUME ~rewound PROVE Tracked(n)'
      BY <1>1, <1>3, <1>5, <2>1, <2>4 DEF Tracked, Taken, Confirmed
    <2>5. \A m \in Node : pc'[m] \in Streaming => m = n
      BY <1>2, <2>1
    <2>6. Data'
      BY <1>1, <1>3, <2>4, <2>5 DEF Data
    <2> QED BY <2>2, <2>3, <2>6
  <1> QED BY <1>4, <1>5 DEF ReadMuxer

(* stream::write returns: of all it was given the stream has acknowledged  *)
(* some.                                                                   *)
LEMMA WriteData ==
    ASSUME TypeOK, Threads, DataType, Stream, Data, NEW n \in Node, WriteStream(n)
    PROVE  DataType' /\ Stream' /\ Data'
  <1>1. /\ pc[n] = "write" /\ ready' = [ready EXCEPT ![n] = 0] /\ d' = [d EXCEPT ![n] = 0]
        /\ pc' = [pc EXCEPT ![n] = "ack"]
        /\ UNCHANGED <<can_read, events, pos, popped, next, rewound, faults>>
    BY DEF WriteStream, Goto, muxer, history
  <1>2. PICK given : given = Append(inflight[n], d[n])
    OBVIOUS
  <1>3. PICK k \in 0 .. Len(given) :
          /\ inflight' = [inflight EXCEPT ![n] = SubSeq(given, k + 1, Len(given))]
          /\ confirmed' = confirmed \union ToSet(SubSeq(given, 1, k))
          /\ we' = [we EXCEPT ![n] = ready[n] + k]
    BY <1>2 DEF WriteStream
  <1>4. inflight[n] \in Seq(Event) /\ d[n] \in Event /\ ready[n] \in Nat /\ we[n] = 0
    BY <1>1 DEF DataType, Stream
  <1>5. /\ given \in Seq(Event) /\ Len(given) = Len(inflight[n]) + 1
        /\ \A i \in 1 .. Len(inflight[n]) : given[i] = inflight[n][i]
        /\ given[Len(inflight[n]) + 1] = d[n]
    BY <1>2, <1>4, ToSetAppend
  <1>6. given \in Seq(Event) /\ Len(given) \in Nat /\ k \in Nat /\ k <= Len(given)
    BY <1>3, <1>5
  <1>7. PICK rest : rest = SubSeq(given, k + 1, Len(given))
    OBVIOUS
  <1>8. /\ rest \in Seq(Event) /\ Len(rest) = Len(given) - k
        /\ \A i \in 1 .. Len(given) - k : rest[i] = given[k + i]
        /\ \A e : e \in ToSet(SubSeq(given, 1, k)) <=> \E i \in 1 .. k : e = given[i]
    <2>1. k \in 0 .. Len(given)
      BY <1>3
    <2> QED BY <1>6, <1>7, <2>1, ToSetCut
  <1>9. \A i \in 1 .. k : given[i] \in Event
    <2>1. \A i \in 1 .. k : i \in 1 .. Len(given)
      BY <1>6
    <2> QED BY <1>6, <2>1
  <1>10. /\ \A m \in Node : m # n => /\ inflight'[m] = inflight[m] /\ ready'[m] = ready[m]
                                     /\ we'[m] = we[m] /\ d'[m] = d[m] /\ pc'[m] = pc[m]
         /\ inflight'[n] = rest /\ ready'[n] = 0 /\ we'[n] = ready[n] + k /\ pc'[n] = "ack"
    BY <1>1, <1>3, <1>7 DEF DataType, TypeOK
  <1>11. DataType'
    <2>1. confirmed' \subseteq Event
      <3>1. ToSet(SubSeq(given, 1, k)) \subseteq Event
        BY <1>8, <1>9
      <3> QED BY <1>3, <3>1 DEF DataType
    <2>2. d' \in [Node -> 0 .. MaxEvents]
      <3>1. 0 \in 0 .. MaxEvents
        BY BoundsAssumption
      <3> QED BY <1>1, <3>1 DEF DataType
    <2>3. inflight' \in [Node -> Seq(Event)]
      BY <1>3, <1>7, <1>8 DEF DataType
    <2>4. ready' \in [Node -> Nat] /\ we' \in [Node -> Nat]
      BY <1>1, <1>3, <1>4, <1>6 DEF DataType
    <2> QED BY <1>1, <2>1, <2>2, <2>3, <2>4 DEF DataType
  <1>12. Stream'
    BY <1>1, <1>10 DEF Stream, Streaming
  <1>13. \A m \in Node : pc'[m] \in Streaming => m = n
    <2>1. \A m \in Node : m # n => pc[m] \notin Streaming
      BY <1>1, OneConsumer DEF Streaming
    <2> QED BY <1>10, <2>1
  <1>14. ASSUME ~rewound PROVE Tracked(n)'
    <2>1. Tracked(n)
      BY <1>1, <1>14 DEF Data, Streaming
    <2>2. PICK c \in Nat, l \in Nat, p \in Nat :
             /\ c = Confirmed(n) /\ l = Len(inflight[n]) /\ p = pos /\ p <= Len(events)
             /\ inflight[n] \in Seq(Event) /\ events \in Seq(Event)
             /\ \A i \in 1 .. c : events[i] \in confirmed
             /\ \A i \in 1 .. l : inflight[n][i] = events[c + i]
             /\ IF pc[n] = "write" THEN p = c + l + 1 /\ d[n] = events[c + l + 1]
                                   ELSE c + l <= p
             /\ can_read[n] /\ pc[n] # "write" => p = c + l
             /\ Taken(n) = c + l
      BY <2>1, TrackedNumbers
    <2>3. c \in Nat /\ l \in Nat /\ k \in Nat /\ k <= l + 1 /\ Len(given) = l + 1
      BY <1>5, <1>6, <2>2
    <2>4. PICK a \in Nat, b \in Nat : a = c + k /\ l + 1 = b + k
      <3>1. c + k \in Nat /\ (l + 1) - k \in Nat /\ l + 1 = ((l + 1) - k) + k
        BY <2>3
      <3> QED BY <3>1, Zenon
    <2>5. \A i \in 1 .. l + 1 : given[i] = events[c + i]
      <3> SUFFICES ASSUME NEW i \in 1 .. l + 1 PROVE given[i] = events[c + i]
        OBVIOUS
      <3>1. CASE i = l + 1
        BY <1>1, <1>5, <2>2, <3>1
      <3>2. CASE i # l + 1
        <4>1. i \in 1 .. l
          BY <2>3, <3>2
        <4> QED BY <1>5, <2>2, <4>1
      <3> QED BY <3>1, <3>2
    <2>6. Confirmed(n)' = a
      <3>1. c = ready[n]
        BY <1>4, <2>2 DEF Confirmed
      <3> QED BY <1>6, <1>10, <2>3, <2>4, <3>1 DEF Confirmed
    <2>7. Len(inflight'[n]) = b
      BY <1>8, <1>10, <2>3, <2>4
    <2>8. Taken(n)' = a + b
      BY <2>6, <2>7 DEF Taken
    <2>9. \A i \in 1 .. a : events'[i] \in confirmed'
      <3> SUFFICES ASSUME NEW i \in 1 .. a PROVE events[i] \in confirmed'
        BY <1>1
      <3>1. CASE i <= c
        <4>1. i \in 1 .. c
          BY <2>3, <3>1
        <4> QED BY <1>3, <2>2, <4>1
      <3>2. CASE i > c
        <4>1. i - c \in 1 .. k /\ c + (i - c) = i
          BY <2>3, <2>4, <3>2
        <4>2. i - c \in 1 .. l + 1
          BY <2>3, <4>1
        <4>3. given[i - c] = events[i]
          BY <2>5, <4>1, <4>2
        <4>4. given[i - c] \in ToSet(SubSeq(given, 1, k))
          BY <1>8, <4>1
        <4> QED BY <1>3, <4>3, <4>4
      <3> QED BY <2>3, <3>1, <3>2
    <2>10. \A i \in 1 .. b : inflight'[n][i] = events'[a + i]
      <3> SUFFICES ASSUME NEW i \in 1 .. b PROVE rest[i] = events[a + i]
        BY <1>1, <1>10
      <3>1. /\ i \in 1 .. Len(given) - k /\ k + i \in 1 .. l + 1
            /\ c + (k + i) = a + i
        BY <2>3, <2>4
      <3> QED BY <1>8, <2>5, <3>1
    <2>11. pos' = a + b
      <3>1. p = c + l + 1 /\ pos' = p
        BY <1>1, <2>2
      <3> QED BY <2>3, <2>4, <3>1
    <2>12. pc'[n] # "write" /\ pos' <= pos'
      BY <1>10, <2>4, <2>11
    <2> QED BY <2>6, <2>7, <2>8, <2>9, <2>10, <2>11, <2>12 DEF Tracked
  <1>15. Data'
    <2>1. ~rewound => popped \subseteq confirmed
      BY DEF Data
    <2> QED BY <1>1, <1>3, <1>13, <1>14, <2>1 DEF Data
  <1> QED BY <1>11, <1>12, <1>15

(* stream::write throws exceptions::shutdown: one event is left to itself. *)
LEMMA ShutdownData ==
    ASSUME TypeOK, Threads, DataType, Stream, Data, NEW n \in Node, WriteShutdown(n)
    PROVE  DataType' /\ Stream' /\ Data'
  <1>1. /\ pc[n] = "write" /\ pc' = [pc EXCEPT ![n] = "ack"]
        /\ can_read' = [can_read EXCEPT ![n] = FALSE]
        /\ we' = [we EXCEPT ![n] = 0] /\ d' = [d EXCEPT ![n] = 0]
        /\ faults < MaxFaults /\ faults' = faults + 1
        /\ UNCHANGED <<inflight, ready, confirmed, events, pos, popped, next, rewound>>
    BY DEF WriteShutdown, Goto, muxer, streams
  <1>2. /\ \A m \in Node : m # n => /\ we'[m] = we[m] /\ d'[m] = d[m] /\ pc'[m] = pc[m]
                                    /\ can_read'[m] = can_read[m]
        /\ we'[n] = 0 /\ can_read'[n] = FALSE /\ pc'[n] = "ack" /\ we[n] = 0
    BY <1>1 DEF DataType, TypeOK, Stream
  <1>3. DataType'
    <2>1. 0 \in 0 .. MaxEvents
      BY BoundsAssumption
    <2>2. d' \in [Node -> 0 .. MaxEvents] /\ we' \in [Node -> Nat]
          /\ can_read' \in [Node -> BOOLEAN]
      BY <1>1, <2>1 DEF DataType
    <2>3. faults' \in 0 .. MaxFaults
      BY <1>1, BoundsAssumption DEF DataType
    <2> QED BY <1>1, <2>2, <2>3 DEF DataType
  <1>4. Stream'
    BY <1>1, <1>2 DEF Stream, Streaming
  <1>5. \A m \in Node : pc'[m] \in Streaming => m = n
    <2>1. \A m \in Node : m # n => pc[m] \notin Streaming
      BY <1>1, OneConsumer DEF Streaming
    <2> QED BY <1>2, <2>1
  <1>6. ASSUME ~rewound PROVE Tracked(n)'
    <2>1. Tracked(n)
      BY <1>1, <1>6 DEF Data, Streaming
    <2>2. PICK c \in Nat, l \in Nat, p \in Nat :
             /\ c = Confirmed(n) /\ l = Len(inflight[n]) /\ p = pos /\ p <= Len(events)
             /\ inflight[n] \in Seq(Event) /\ events \in Seq(Event)
             /\ \A i \in 1 .. c : events[i] \in confirmed
             /\ \A i \in 1 .. l : inflight[n][i] = events[c + i]
             /\ IF pc[n] = "write" THEN p = c + l + 1 /\ d[n] = events[c + l + 1]
                                   ELSE c + l <= p
             /\ can_read[n] /\ pc[n] # "write" => p = c + l
             /\ Taken(n) = c + l
      BY <2>1, TrackedNumbers
    <2>3. Confirmed(n)' = c /\ Len(inflight'[n]) = l /\ Taken(n)' = c + l /\ pos' = p
      BY <1>1, <1>2, <2>2 DEF Confirmed, Taken
    <2>4. c + l <= p
      BY <1>1, <2>2
    <2> QED BY <1>1, <1>2, <2>2, <2>3, <2>4 DEF Tracked
  <1>7. Data'
    BY <1>1, <1>5, <1>6 DEF Data
  <1> QED BY <1>3, <1>4, <1>7

(* stream::flush reports what it has acknowledged. *)
LEMMA FlushData ==
    ASSUME TypeOK, Threads, DataType, Stream, Data, NEW n \in Node, FlushStream(n)
    PROVE  DataType' /\ Stream' /\ Data'
  <1>1. /\ pc[n] = "flush" /\ pc' = [pc EXCEPT ![n] = "ack"]
        /\ we' = [we EXCEPT ![n] = ready[n]] /\ ready' = [ready EXCEPT ![n] = 0]
        /\ UNCHANGED <<can_read, d, inflight, confirmed, events, pos, popped, next, rewound,
                       faults>>
    BY DEF FlushStream, Goto, muxer, history
  <1>2. /\ \A m \in Node : m # n => /\ we'[m] = we[m] /\ ready'[m] = ready[m]
                                    /\ pc'[m] = pc[m]
        /\ we'[n] = ready[n] /\ ready'[n] = 0 /\ pc'[n] = "ack" /\ we[n] = 0
        /\ ready[n] \in Nat
    BY <1>1 DEF DataType, TypeOK, Stream
  <1>3. DataType'
    BY <1>1, <1>2 DEF DataType
  <1>4. Stream'
    BY <1>1, <1>2 DEF Stream, Streaming
  <1>5. \A m \in Node : pc'[m] \in Streaming => m = n
    <2>1. \A m \in Node : m # n => pc[m] \notin Streaming
      BY <1>1, OneConsumer DEF Streaming
    <2> QED BY <1>2, <2>1
  <1>6. ASSUME ~rewound PROVE Tracked(n)'
    <2>1. Tracked(n)
      BY <1>1, <1>6 DEF Data, Streaming
    <2>2. Confirmed(n)' = Confirmed(n) /\ Taken(n)' = Taken(n)
      BY <1>1, <1>2 DEF Confirmed, Taken
    <2> QED BY <1>1, <1>2, <2>1, <2>2 DEF Tracked
  <1>7. Data'
    BY <1>1, <1>5, <1>6 DEF Data
  <1> QED BY <1>3, <1>4, <1>7

(* muxer::ack_events pops what the stream has acknowledged. *)
LEMMA AckData ==
    ASSUME TypeOK, Threads, DataType, Stream, Data, NEW n \in Node, AckEvents(n)
    PROVE  DataType' /\ Stream' /\ Data'
  <1>1. /\ pc[n] = "ack" /\ pc' = [pc EXCEPT ![n] = "loop"]
        /\ we' = [we EXCEPT ![n] = 0]
        /\ UNCHANGED <<can_read, d, inflight, ready, confirmed, next, rewound, faults>>
    BY DEF AckEvents, Goto, streams, history
  <1>2. PICK count : /\ count = (IF we[n] < pos THEN we[n] ELSE pos)
                     /\ popped' = popped \union ToSet(SubSeq(events, 1, count))
                     /\ events' = SubSeq(events, count + 1, Len(events))
                     /\ pos' = pos - count
    BY DEF AckEvents
  <1>3. we[n] \in Nat /\ ready[n] \in Nat /\ pos \in Nat /\ pos <= Len(events)
        /\ events \in Seq(Event) /\ Len(events) \in Nat
    BY DEF DataType
  <1>4. count \in Nat /\ count <= pos /\ count \in 0 .. Len(events)
    BY <1>2, <1>3
  <1>5. /\ events' \in Seq(Event) /\ Len(events') = Len(events) - count
        /\ \A i \in 1 .. Len(events) - count : events'[i] = events[count + i]
        /\ \A e : e \in ToSet(SubSeq(events, 1, count)) <=> \E i \in 1 .. count : e = events[i]
    <2>1. /\ SubSeq(events, count + 1, Len(events)) \in Seq(Event)
          /\ Len(SubSeq(events, count + 1, Len(events))) = Len(events) - count
          /\ \A i \in 1 .. Len(events) - count :
                SubSeq(events, count + 1, Len(events))[i] = events[count + i]
          /\ \A e : e \in ToSet(SubSeq(events, 1, count)) <=> \E i \in 1 .. count : e = events[i]
      BY <1>3, <1>4, ToSetCut
    <2> QED BY <1>2, <2>1
  <1>6. \A i \in 1 .. count : i \in 1 .. Len(events) /\ events[i] \in Event
    BY <1>3, <1>4
  <1>7. /\ \A m \in Node : m # n => we'[m] = we[m] /\ pc'[m] = pc[m]
        /\ we'[n] = 0 /\ pc'[n] = "loop"
    BY <1>1 DEF DataType, TypeOK
  <1>8. DataType'
    <2>1. popped' \subseteq Event
      <3>1. ToSet(SubSeq(events, 1, count)) \subseteq Event
        BY <1>5, <1>6
      <3>2. popped' = popped \union ToSet(SubSeq(events, 1, count)) /\ popped \subseteq Event
        BY <1>2 DEF DataType
      <3> QED BY <3>1, <3>2
    <2>2. pos' \in 0 .. Len(events')
      <3>1. pos' = pos - count /\ Len(events') = Len(events) - count
        BY <1>2, <1>5
      <3> QED BY <1>3, <1>4, <3>1
    <2> QED BY <1>1, <1>5, <2>1, <2>2 DEF DataType
  <1>9. Stream'
    BY <1>1, <1>7 DEF Stream, Streaming
  <1>10. \A m \in Node : pc'[m] \in Streaming => m = n
    <2>1. \A m \in Node : m # n => pc[m] \notin Streaming
      BY <1>1, OneConsumer DEF Streaming
    <2> QED BY <1>7, <2>1
  <1>11. ASSUME ~rewound PROVE Tracked(n)' /\ popped' \subseteq confirmed'
    <2>1. Tracked(n) /\ popped \subseteq confirmed
      BY <1>1, <1>11 DEF Data, Streaming
    <2>2. PICK c \in Nat, l \in Nat, p \in Nat :
             /\ c = Confirmed(n) /\ l = Len(inflight[n]) /\ p = pos /\ p <= Len(events)
             /\ inflight[n] \in Seq(Event) /\ events \in Seq(Event)
             /\ \A i \in 1 .. c : events[i] \in confirmed
             /\ \A i \in 1 .. l : inflight[n][i] = events[c + i]
             /\ IF pc[n] = "write" THEN p = c + l + 1 /\ d[n] = events[c + l + 1]
                                   ELSE c + l <= p
             /\ can_read[n] /\ pc[n] # "write" => p = c + l
             /\ Taken(n) = c + l
      BY <2>1, TrackedNumbers
    <2>3. PICK a \in Nat, w \in Nat : a = ready[n] /\ w = we[n]
      BY <1>3
    <2>4. c = w + a /\ w <= pos /\ c + l <= p /\ p = pos
      BY <1>1, <2>2, <2>3 DEF Confirmed
    <2>5. count = w
      BY <1>2, <2>3, <2>4
    <2>6. /\ c \in Nat /\ l \in Nat /\ p \in Nat /\ a \in Nat /\ w \in Nat
          /\ Len(events) \in Nat /\ p <= Len(events)
      BY <1>3, <2>2, <2>3
    <2>7. Confirmed(n)' = a /\ Len(inflight'[n]) = l /\ Taken(n)' = a + l
      BY <1>1, <1>7, <2>2, <2>3 DEF Confirmed, Taken
    <2>8. \A i \in 1 .. w : events[i] \in confirmed
      <3>1. \A i \in 1 .. w : i \in 1 .. c
        BY <2>4, <2>6
      <3> QED BY <2>2, <3>1
    <2>9. popped' \subseteq confirmed'
      <3>1. ToSet(SubSeq(events, 1, count)) \subseteq confirmed
        BY <1>5, <2>5, <2>8
      <3>2. popped' = popped \union ToSet(SubSeq(events, 1, count)) /\ confirmed' = confirmed
        BY <1>1, <1>2
      <3> QED BY <2>1, <3>1, <3>2
    <2>10. \A i \in 1 .. a : events'[i] \in confirmed'
      <3> SUFFICES ASSUME NEW i \in 1 .. a PROVE events'[i] \in confirmed
        BY <1>1
      <3>1. w + i \in 1 .. c /\ i \in 1 .. Len(events) - w
        BY <2>4, <2>6
      <3> QED BY <1>5, <2>2, <2>5, <3>1
    <2>11. \A i \in 1 .. l : inflight'[n][i] = events'[a + i]
      <3> SUFFICES ASSUME NEW i \in 1 .. l PROVE inflight[n][i] = events'[a + i]
        BY <1>1
      <3>1. a + i \in 1 .. Len(events) - w /\ w + (a + i) = c + i
        BY <2>4, <2>6
      <3> QED BY <1>5, <2>2, <2>5, <3>1
    <2>12. pos' = p - w /\ a + l <= pos' /\ (can_read[n] => pos' = a + l)
      <3>1. pos' = p - w
        BY <1>2, <2>2, <2>5
      <3>2. can_read[n] => p = c + l
        BY <1>1, <2>2
      <3> QED BY <2>4, <2>6, <3>1, <3>2
    <2> QED BY <1>1, <1>7, <2>7, <2>9, <2>10, <2>11, <2>12 DEF Tracked
  <1>12. Data'
    BY <1>1, <1>10, <1>11 DEF Data
  <1> QED BY <1>8, <1>9, <1>12

(* The threads keep to their places. *)
LEMMA ControlTypeStep ==
    ASSUME ControlType, Next
    PROVE  ControlType'
  <1>1. CASE MainStart
    BY <1>1 DEF MainStart, Start, Goto, ControlType, Place
  <1>2. CASE MainExit \/ MainJoin
    BY <1>2 DEF MainExit, MainJoin, RequestExit, Joined, ControlType
  <1>3. CASE Publish \/ \E n \in Node : Acknowledge(n)
    BY <1>3 DEF Publish, Acknowledge, control, ControlType
  <1>4. ASSUME NEW n \in Node, Run(n) \/ StreamFails(n) \/ WriteShutdown(n)
        PROVE  ControlType'
    <2>1. CASE Open(n) \/ NackOnOpen(n) \/ WriteStream(n) \/ FlushStream(n) \/ AckEvents(n)
      BY <2>1 DEF Open, NackOnOpen, WriteStream, FlushStream, AckEvents, Goto, control,
                  ControlType, Place
    <2>2. CASE NackOnError(n) \/ StreamFails(n) \/ WriteShutdown(n) \/ ReadMuxer(n)
               \/ LoopExit(n) \/ Sleep(n)
      BY <2>2 DEF NackOnError, StreamFails, WriteShutdown, ReadMuxer, LoopExit, Sleep, Goto,
                  control, ControlType, Place
    <2>3. CASE ShutdownFailover(n)
      BY <2>3 DEF ShutdownFailover, RequestExit, Goto, ControlType, Place
    <2>4. CASE FailoverJoined(n) \/ EndJoined(n)
      BY <2>4 DEF FailoverJoined, EndJoined, Joined, Goto, ControlType, Place
    <2>5. CASE LaunchFailover(n)
      BY <2>5 DEF LaunchFailover, Start, Goto, ControlType, Place
    <2>6. CASE EndFailover(n)
      BY <2>6 DEF EndFailover, RequestExit, Goto, ControlType, Place
    <2>7. CASE Exit(n)
      BY <2>7 DEF Exit, Goto, ControlType, Place
    <2> QED BY <1>4, <2>1, <2>2, <2>3, <2>4, <2>5, <2>6, <2>7 DEF Run
  <1> QED BY <1>1, <1>2, <1>3, <1>4 DEF Next

(* One case per action. *)
LEMMA DataStep ==
    ASSUME TypeOK, Threads, DataType, Stream, Data, Next
    PROVE  DataType' /\ Stream' /\ Data'
  <1>1. CASE MainStart
    <2>1. pc' = [pc EXCEPT ![1] = "open"] /\ UNCHANGED <<local, streams, muxer, history>>
      BY <1>1 DEF MainStart, Goto
    <2>2. 1 \in Node /\ pc[1] = "off"
      BY <1>1, LengthAssumption DEF MainStart, Threads, Node
    <2>3. \A m \in Node : pc'[m] \in Streaming \/ pc[m] \in Streaming => pc'[m] = pc[m]
      BY <2>1, <2>2 DEF Streaming, TypeOK
    <2> QED BY <2>1, <2>3, ControlStep
  <1>2. CASE MainExit \/ MainJoin
    <2>1. pc' = pc /\ UNCHANGED <<local, streams, muxer, history>>
      BY <1>2 DEF MainExit, MainJoin
    <2> QED BY <2>1, ControlStep
  <1>3. CASE Publish
    BY <1>3, PublishData
  <1>4. CASE \E n \in Node : Acknowledge(n)
    BY <1>4, AcknowledgeData
  <1>5. ASSUME NEW n \in Node, Run(n) \/ StreamFails(n) \/ WriteShutdown(n)
        PROVE  DataType' /\ Stream' /\ Data'
    <2>1. CASE Open(n) \/ ShutdownFailover(n) \/ FailoverJoined(n) \/ Sleep(n)
               \/ EndFailover(n) \/ EndJoined(n) \/ Exit(n)
      <3>1. UNCHANGED <<local, streams, muxer, history>>
        BY <2>1 DEF Open, ShutdownFailover, FailoverJoined, Sleep, EndFailover, EndJoined, Exit
      <3>2. PICK place \in Place \ Streaming :
               pc' = [pc EXCEPT ![n] = place] /\ pc[n] \notin Streaming
        BY <2>1 DEF Open, ShutdownFailover, FailoverJoined, Sleep, EndFailover, EndJoined, Exit,
                    Goto, Place, Streaming
      <3>3. \A m \in Node : pc'[m] \in Streaming \/ pc[m] \in Streaming => pc'[m] = pc[m]
        BY <3>2 DEF TypeOK
      <3> QED BY <3>1, <3>3, ControlStep
    <2>2. CASE LaunchFailover(n)
      <3>1. UNCHANGED <<local, streams, muxer, history>>
        BY <2>2 DEF LaunchFailover
      <3>2. CASE HasFailover(n) /\ ~launched[n]
        <4>1. pc' = [pc EXCEPT ![n] = "sleep", ![n + 1] = "open"] /\ pc[n] = "launch"
          BY <2>2, <3>2 DEF LaunchFailover
        <4>2. n + 1 \in Node /\ pc[n + 1] = "off"
          BY <3>2, NextNode DEF Threads
        <4>3. \A m \in Node : pc'[m] \in Streaming \/ pc[m] \in Streaming => pc'[m] = pc[m]
          BY <4>1, <4>2 DEF Streaming, TypeOK
        <4> QED BY <3>1, <4>3, ControlStep
      <3>3. CASE ~HasFailover(n) \/ launched[n]
        <4>1. pc' = [pc EXCEPT ![n] = "sleep"] /\ pc[n] = "launch"
          BY <2>2, <3>3 DEF LaunchFailover, Goto
        <4>2. \A m \in Node : pc'[m] \in Streaming \/ pc[m] \in Streaming => pc'[m] = pc[m]
          BY <4>1 DEF Streaming, TypeOK
        <4> QED BY <3>1, <4>2, ControlStep
      <3> QED BY <3>2, <3>3
    <2>3. CASE NackOnOpen(n) \/ NackOnError(n)
      BY <2>3, NackData
    <2>4. CASE LoopExit(n)
      <3>1. "end" \in Place \ Streaming
        BY DEF Place, Streaming
      <3>2. /\ pc[n] # "ack" /\ pc' = [pc EXCEPT ![n] = "end"] /\ DropStream(n) /\ d' = d
            /\ faults' = faults /\ UNCHANGED <<can_read, we, muxer, next, rewound>>
        BY <2>4 DEF LoopExit, Goto, local, history
      <3>3. faults' \in 0 .. MaxFaults
        BY <3>2 DEF DataType
      <3> QED BY <3>1, <3>2, <3>3, DropData
    <2>5. CASE StreamFails(n)
      <3>1. "catch" \in Place \ Streaming
        BY DEF Place, Streaming
      <3>2. /\ pc[n] # "ack" /\ pc' = [pc EXCEPT ![n] = "catch"] /\ DropStream(n)
            /\ d' = [d EXCEPT ![n] = 0] /\ faults < MaxFaults /\ faults' = faults + 1
            /\ UNCHANGED <<can_read, we, muxer, next, rewound>>
        BY <2>5 DEF StreamFails, Goto
      <3>3. faults' \in 0 .. MaxFaults
        BY <3>2, BoundsAssumption DEF DataType
      <3> QED BY <3>1, <3>2, <3>3, DropData
    <2>6. CASE ReadMuxer(n)
      BY <2>6, ReadData
    <2>7. CASE WriteStream(n)
      BY <2>7, WriteData
    <2>8. CASE WriteShutdown(n)
      BY <2>8, ShutdownData
    <2>9. CASE FlushStream(n)
      BY <2>9, FlushData
    <2>10. CASE AckEvents(n)
      BY <2>10, AckData
    <2> QED BY <1>5, <2>1, <2>2, <2>3, <2>4, <2>5, <2>6, <2>7, <2>8, <2>9, <2>10 DEF Run
  <1> QED BY <1>1, <1>2, <1>3, <1>4, <1>5 DEF Next

-----------------------------------------------------------------------------
(* The invariant. *)

(* The invariant holds when the process starts. *)
LEMMA FailoverInit == Init => FailoverInd
  <1> SUFFICES ASSUME Init PROVE FailoverInd
    OBVIOUS
  <1>1. /\ main = "idle" /\ pc = [n \in Node |-> "off"]
        /\ started = [n \in Node |-> FALSE] /\ should_exit = started
        /\ stopped = started /\ launched = started /\ can_read = started
        /\ d = [n \in Node |-> 0] /\ we = d /\ ready = d
        /\ inflight = [n \in Node |-> <<>>]
        /\ events = <<>> /\ pos = 0 /\ next = 1
        /\ confirmed = {} /\ popped = {} /\ rewound = FALSE /\ faults = 0
    BY DEF Init
  <1>2. 1 \in Node /\ \A n \in Node : pc[n] = "off" /\ ~started[n] /\ ~launched[n]
    BY <1>1, LengthAssumption DEF Node
  <1>3. ControlType
    BY <1>1 DEF ControlType, Place
  <1>4. DataType
    <2>1. 0 \in 0 .. MaxEvents /\ 0 \in 0 .. MaxFaults /\ 1 \in 1 .. MaxEvents + 1
      BY BoundsAssumption
    <2>2. can_read \in [Node -> BOOLEAN] /\ inflight \in [Node -> Seq(Event)]
      BY <1>1
    <2>3. d \in [Node -> 0 .. MaxEvents] /\ we \in [Node -> Nat] /\ ready \in [Node -> Nat]
      BY <1>1, <2>1
    <2>4. events \in Seq(Event) /\ pos \in 0 .. Len(events)
      BY <1>1
    <2>5. next \in 1 .. MaxEvents + 1 /\ rewound \in BOOLEAN /\ faults \in 0 .. MaxFaults
      BY <1>1, <2>1
    <2> QED BY <1>1, <2>2, <2>3, <2>4, <2>5 DEF DataType
  <1>5. TypeOK
    BY <1>3, <1>4 DEF TypeOK, ControlType, DataType
  <1>6. Threads
    <2>1. \A n \in Node : HasFailover(n) => n + 1 \in Node
      BY NextNode
    <2> QED BY <1>1, <1>2, <2>1 DEF Threads, Waiting
  <1>7. Stream
    BY <1>1, <1>2 DEF Stream
  <1>8. Data
    BY <1>1, <1>2 DEF Data, Streaming
  <1> QED BY <1>5, <1>6, <1>7, <1>8 DEF FailoverInd

(* Every step keeps the invariant. *)
LEMMA FailoverStep == FailoverInd /\ [Next]_vars => FailoverInd'
  <1> SUFFICES ASSUME FailoverInd, [Next]_vars PROVE FailoverInd'
    OBVIOUS
  <1>1. TypeOK /\ Threads /\ Stream /\ Data /\ ControlType /\ DataType
    BY DEF FailoverInd, TypeOK, ControlType, DataType
  <1>2. CASE Next
    <2>1. ControlType'
      BY <1>1, <1>2, ControlTypeStep
    <2>2. DataType' /\ Stream' /\ Data'
      BY <1>1, <1>2, DataStep
    <2>3. Threads'
      BY <1>1, <1>2, ThreadsStep
    <2>4. TypeOK'
      BY <2>1, <2>2 DEF TypeOK, ControlType, DataType
    <2> QED BY <2>2, <2>3, <2>4 DEF FailoverInd
  <1>3. CASE UNCHANGED vars
    <2>1. /\ pc' = pc /\ UNCHANGED <<main, started, should_exit, stopped, launched>>
          /\ UNCHANGED <<local, streams, muxer, history>>
      BY <1>3 DEF vars, control
    <2>2. ControlType'
      BY <1>1, <2>1 DEF ControlType
    <2>3. DataType' /\ Stream' /\ Data'
      BY <1>1, <2>1, ControlStep
    <2>4. Threads'
      BY <1>1, <2>1 DEF Threads, HasFailover
    <2>5. TypeOK'
      BY <2>2, <2>3 DEF TypeOK, ControlType, DataType
    <2> QED BY <2>3, <2>4, <2>5 DEF FailoverInd
  <1> QED BY <1>2, <1>3

(* What the invariant says: once node 1 is joined nothing was told to exit *)
(* that is not off, hand over hand to the end of the chain.                *)
LEMMA FailoverImplies == FailoverInd => FailoverInv
  <1> SUFFICES ASSUME FailoverInd PROVE FailoverInv
    OBVIOUS
  <1>1. TypeOK /\ Threads /\ Data
    BY DEF FailoverInd
  <1>2. FailoverOnlyOnFailure
    <2> SUFFICES ASSUME NEW n \in Node, Consuming(n), NEW m \in n + 1 .. Length
                 PROVE  pc[m] = "off"
      BY DEF FailoverOnlyOnFailure
    <2>1. m \in Node /\ n < m
      BY LengthAssumption DEF Node
    <2>2. pc[n] \in Quiet
      BY DEF Consuming, Quiet
    <2> QED BY <1>1, <2>1, <2>2 DEF Threads
  <1>3. AllStopped
    <2> SUFFICES ASSUME main = "joined", NEW n \in Node PROVE pc[n] = "off" /\ ~started[n]
      BY DEF AllStopped
    <2>1. 1 \in Node /\ ~started[1]
      BY <1>1, LengthAssumption DEF Threads, Node
    <2>2. pc[1] = "off" /\ pc[1] \in Quiet
      BY <1>1, <2>1 DEF Threads, Quiet
    <2>3. \A m \in Node : pc[m] = "off"
      <3> SUFFICES ASSUME NEW m \in Node, m # 1 PROVE pc[m] = "off"
        BY <2>2
      <3>1. 1 < m
        BY DEF Node
      <3> QED BY <1>1, <2>1, <2>2, <3>1 DEF Threads
    <2>4. CASE n = 1
      BY <2>1, <2>2, <2>4
    <2>5. CASE n # 1
      <3> SUFFICES ASSUME started[n] PROVE FALSE
        BY <2>3
      <3>1. should_exit[n]
        BY <1>1, <2>3 DEF Threads
      <3>2. PICK k \in Node : HasFailover(k) /\ k + 1 = n
        <4>1. n - 1 \in Node /\ HasFailover(n - 1)
          BY <2>5, NextNode
        <4>2. (n - 1) + 1 = n
          BY DEF Node
        <4> QED BY <4>1, <4>2
      <3>3. pc[k] \in Waiting
        BY <1>1, <3>1, <3>2 DEF Threads
      <3> QED BY <2>3, <3>3 DEF Waiting
    <2> QED BY <2>4, <2>5
  <1>4. PoppedWasConfirmed
    BY <1>1 DEF Data, PoppedWasConfirmed
  <1> QED BY <1>1, <1>2, <1>3, <1>4 DEF FailoverInv

(* A chain of failovers has one consumer at a time, exit() leaves no       *)
(* thread behind, and ack_events() pops only what a stream has             *)
(* acknowledged unless _launch_failover() has rewound the muxer under a    *)
(* running failover: run(), exit(), start() and _launch_failover() of      *)
(* processing::failover, over read, nack_events and ack_events of the      *)
(* muxer, for chains of any length.                                        *)
THEOREM FailoverCorrect == Spec => []FailoverInv
  <1>1. FailoverInd /\ [Next]_vars => FailoverInd'
    BY FailoverStep
  <1> QED BY FailoverInit, <1>1, FailoverImplies, PTL DEF Spec

-----------------------------------------------------------------------------
(***************************************************************************)
(* The watchdog (Watchdog), for any files, numbers of processes, signals   *)
(* and failures of fork.                                                   *)
(***************************************************************************)
(* A function, whatever its domain. *)
IsMap(f) == f = [x \in DOMAIN f |-> f[x]]

(* An instance, of a broker that should run if it was started. *)
InstanceOK(i, ph) ==
    /\ i = [cfg |-> i.cfg, started |-> i.started, pid |-> i.pid]
    /\ i.cfg.run \in BOOLEAN /\ i.started \in BOOLEAN
    /\ i.pid \in Pids \union {Failed}
    /\ ph # "exit" => i.started = i.cfg.run /\ (~i.started => i.pid = Failed)

(* Types, and the phases of the thread. *)
WatchdogTypes ==
    /\ wpc \in {"main", "ended", "loop", "restart", "hup", "delete", "stop", "create",
                "clear", "exit"}
    /\ phase \in {"start", "watch", "reload", "exit"}
    /\ wpc = "main" => phase = "start"
    /\ wpc \in {"loop", "hup", "restart"} => phase = "watch"
    /\ wpc \in {"delete", "create"} => phase \in {"start", "reload"}
    /\ wpc = "stop" => phase \in {"start", "reload", "exit"}
    /\ wpc = "clear" => phase = "reload"
    /\ wpc = "exit" => phase = "exit"
    /\ forkFailures \in Nat
    /\ file \in CbdFiles /\ newConfig \in CbdFiles \union {NoCbd}
    /\ IsMap(procs) /\ DOMAIN procs \subseteq Pids
    /\ \A n \in DOMAIN instances : InstanceOK(instances[n], phase)

(* The instances that know their broker: all that are started, but for     *)
(* those that are still to be restarted.                                   *)
Knows(n) == instances[n].started /\ ~(wpc = "restart" /\ n \in left)

(* Every broker that runs is that of an instance, but for the one that is  *)
(* being stopped.                                                          *)
Own ==
    \A p \in DOMAIN procs : \/ \E n \in DOMAIN instances : Knows(n) /\ instances[n].pid = p
                            \/ wpc = "stop" /\ p = stopPid

(* Without a failed fork every instance has its own broker. *)
Alive ==
    forkFailures = 0 =>
        /\ \A n \in DOMAIN instances : Knows(n) =>
              /\ instances[n].pid \in DOMAIN procs
              /\ wpc = "stop" => instances[n].pid # stopPid
        /\ \A n, m \in DOMAIN instances :
              instances[n].started /\ instances[m].started
              /\ instances[n].pid = instances[m].pid => n = m
        /\ wpc = "stop" => stopPid # Failed

(* The instances of a broker that has ended. *)
Restarting ==
    wpc = "restart" =>
        /\ left \subseteq DOMAIN instances
        /\ \A n, m \in left : instances[n].started /\ instances[n].pid = instances[m].pid

(* Which instances there are. *)
Configured ==
    /\ wpc \in {"main", "loop", "hup", "clear", "restart"} =>
         /\ DOMAIN instances = Names(cbdConfig)
         /\ \A n \in DOMAIN instances : instances[n].cfg = cbdConfig.cbd[n]
    /\ wpc = "delete" \/ (wpc = "stop" /\ phase # "exit") =>
         /\ left \subseteq DOMAIN instances /\ creating \subseteq Names(newConfig)
         /\ DOMAIN instances \ left = Names(newConfig) \ creating
         /\ \A n \in DOMAIN instances \ left : instances[n].cfg.run = newConfig.cbd[n].run
    /\ wpc = "create" =>
         /\ creating \subseteq Names(newConfig)
         /\ DOMAIN instances = Names(newConfig) \ creating
         /\ \A n \in DOMAIN instances : instances[n].cfg = newConfig.cbd[n]

(* The end of main(). *)
Ending ==
    /\ phase = "exit" =>
         /\ wpc \in {"exit", "stop", "ended"} /\ left \subseteq DOMAIN instances
         /\ \A n \in DOMAIN instances \ left : ~instances[n].started
    /\ wpc \in {"main", "ended"} => DOMAIN procs = {}

(* The inductive invariant. *)
WatchdogInd == WatchdogTypes /\ Own /\ Alive /\ Restarting /\ Configured /\ Ending

(* What std::map::operator[] leaves. *)
LEMMA PutIs ==
    ASSUME NEW f, NEW x, NEW y, NEW g, g = Put(f, x, y)
    PROVE  /\ DOMAIN g = DOMAIN f \union {x} /\ g[x] = y
           /\ \A z \in DOMAIN f \ {x} : g[z] = f[z]
           /\ IsMap(g)
  BY DEF Put, IsMap

(* What erase() leaves. *)
LEMMA WithoutIs ==
    ASSUME NEW f, NEW x, NEW g, g = Without(f, x)
    PROVE  /\ DOMAIN g = DOMAIN f \ {x}
           /\ \A z \in DOMAIN g : g[z] = f[z]
           /\ IsMap(g)
  BY DEF Without, Restrict, IsMap

(* The phase matters to an instance only when main() ends. *)
LEMMA Renamed ==
    ASSUME NEW i, NEW ph, NEW ph2, InstanceOK(i, ph), ph # "exit" \/ ph2 = "exit"
    PROVE  InstanceOK(i, ph2)
  BY DEF InstanceOK

(* Steps of the thread that leave instances and brokers alone. *)
LEMMA Moves ==
    ASSUME WatchdogInd, UNCHANGED <<applyVars, instances, left, stopPid, procs, forkFailures>>,
           file' \in CbdFiles,
           \/ wpc' = wpc /\ phase' = phase
           \/ wpc = "loop" /\ wpc' = "hup" /\ phase' = phase
           \/ wpc = "restart" /\ left = {} /\ wpc' = "hup" /\ phase' = phase
           \/ wpc = "hup" /\ wpc' = "loop" /\ phase' = phase
           \/ wpc = "hup" /\ wpc' = "clear" /\ phase' = "reload"
           \/ wpc = "clear" /\ wpc' = "loop" /\ phase' = "watch"
           \/ wpc = "exit" /\ left = {} /\ wpc' = "ended" /\ phase' = phase
           \/ wpc = "main" /\ wpc' = "ended" /\ phase' = phase
    PROVE  WatchdogInd'
  <1> USE DEF WatchdogInd
  <1>0. UNCHANGED <<cbdConfig, newConfig, creating, instances, left, stopPid, procs, forkFailures>>
    BY DEF applyVars
  <1>1. \A n \in DOMAIN instances : InstanceOK(instances[n], phase')
    BY Renamed DEF WatchdogTypes
  <1>2. WatchdogTypes'
    BY <1>0, <1>1 DEF WatchdogTypes
  <1>3. \A n \in DOMAIN instances : Knows(n) <=> Knows(n)'
    BY <1>0 DEF Knows
  <1>4. Own'
    BY <1>0, <1>3 DEF Own
  <1>5. Alive'
    BY <1>0, <1>3 DEF Alive
  <1>6. Restarting'
    BY <1>0 DEF Restarting
  <1>7. Configured'
    BY <1>0 DEF Configured, WatchdogTypes
  <1>8. Ending'
    <2>1. wpc = "exit" /\ left = {} => DOMAIN procs = {}
      BY DEF Ending, Own, Knows, WatchdogTypes
    <2> QED
      BY <1>0, <2>1 DEF Ending, WatchdogTypes
  <1> QED
    BY <1>2, <1>4, <1>5, <1>6, <1>7, <1>8

(* apply_new_configuration() sorts the names before its first change. *)
LEMMA BeginOK ==
    ASSUME WatchdogInd, wpc \in {"main", "hup"}, NEW c \in CbdFiles, BeginApply(c),
           phase' \in {"start", "reload"}, UNCHANGED <<instances, stopPid, procs, forkFailures>>,
           file' \in CbdFiles
    PROVE  WatchdogInd'
  <1> USE DEF WatchdogInd
  <1> DEFINE changed == {n \in Names(cbdConfig) \intersect Names(c) :
                           ~SameChild(cbdConfig.cbd[n], c.cbd[n])}
  <1>1. /\ newConfig' = c /\ wpc' = "delete" /\ cbdConfig' = cbdConfig
        /\ left' = (Names(cbdConfig) \ Names(c)) \union changed
        /\ creating' = (Names(c) \ Names(cbdConfig)) \union changed
    BY DEF BeginApply
  <1>2. \A n \in DOMAIN instances : InstanceOK(instances[n], phase')
    BY Renamed DEF WatchdogTypes
  <1>3. WatchdogTypes'
    BY <1>1, <1>2 DEF WatchdogTypes
  <1>4. \A n \in DOMAIN instances : Knows(n) <=> Knows(n)'
    BY <1>1 DEF Knows
  <1>5. Own' /\ Alive'
    BY <1>1, <1>4 DEF Own, Alive
  <1>6. Configured'
    <2>1. DOMAIN instances = Names(cbdConfig)
          /\ \A n \in DOMAIN instances : instances[n].cfg = cbdConfig.cbd[n]
      BY DEF Configured
    <2>2. left' \subseteq DOMAIN instances /\ creating' \subseteq Names(c)
          /\ DOMAIN instances \ left' = Names(c) \ creating'
      BY <1>1, <2>1
    <2>3. \A n \in DOMAIN instances \ left' : instances[n].cfg.run = c.cbd[n].run
      BY <1>1, <2>1 DEF SameChild
    <2> QED
      BY <1>1, <2>2, <2>3 DEF Configured
  <1>7. Restarting' /\ Ending'
    BY <1>1 DEF Restarting, Ending
  <1> QED
    BY <1>3, <1>5, <1>6, <1>7

(* Changes of the processes alone. *)
LEMMA ReapInd ==
    ASSUME WatchdogInd, NEW p \in DOMAIN procs, Reap(p)
    PROVE  WatchdogInd'
  <1> USE DEF WatchdogInd
  <1>1. /\ wpc = "loop" /\ wpc' = "restart" /\ procs' = Without(procs, p)
        /\ left' = {n \in DOMAIN instances : instances[n].pid = p}
        /\ UNCHANGED <<phase, cbdConfig, newConfig, creating, instances, stopPid, file, forkFailures>>
    BY DEF Reap, applyVars, flagVars
  <1>2. DOMAIN procs' = DOMAIN procs \ {p} /\ IsMap(procs')
    <2>1. PICK g : g = procs'
      OBVIOUS
    <2>2. DOMAIN g = DOMAIN procs \ {p} /\ IsMap(g)
      BY <1>1, <2>1, WithoutIs
    <2> QED
      BY <2>1, <2>2
  <1>3. p # Failed /\ phase = "watch"
    BY <1>1, WatchdogAssumption DEF WatchdogTypes, Failed
  <1>4. \A n \in left' : instances[n].started
    BY <1>1, <1>3 DEF WatchdogTypes, InstanceOK
  <1>5. WatchdogTypes'
    BY <1>1, <1>2 DEF WatchdogTypes
  <1>6. \A n \in DOMAIN instances : Knows(n)' <=> Knows(n) /\ instances[n].pid # p
    BY <1>1 DEF Knows
  <1>7. Own'
    BY <1>1, <1>2, <1>6 DEF Own
  <1>8. Alive'
    BY <1>1, <1>2, <1>6 DEF Alive
  <1>9. Restarting'
    BY <1>1, <1>4 DEF Restarting
  <1>10. Configured' /\ Ending'
    BY <1>1, <1>3 DEF Configured, Ending
  <1> QED
    BY <1>5, <1>7, <1>8, <1>9, <1>10

(* A broker ends. *)
LEMMA ChildDiesInd ==
    ASSUME WatchdogInd, NEW p \in DOMAIN procs, ChildDies(p)
    PROVE  WatchdogInd'
  <1> USE DEF WatchdogInd
  <1>1. /\ procs' = [procs EXCEPT ![p] = "zombie"]
        /\ UNCHANGED <<wpc, phase, cbdConfig, newConfig, creating, instances, left, stopPid, file,
                       forkFailures>>
    BY DEF ChildDies, applyVars, flagVars
  <1>2. DOMAIN procs' = DOMAIN procs /\ IsMap(procs')
    BY <1>1 DEF IsMap
  <1>3. WatchdogTypes'
    BY <1>1, <1>2 DEF WatchdogTypes
  <1>4. \A n \in DOMAIN instances : Knows(n)' <=> Knows(n)
    BY <1>1 DEF Knows
  <1>5. Own' /\ Alive'
    BY <1>1, <1>2, <1>4 DEF Own, Alive
  <1>6. Restarting' /\ Configured'
    BY <1>1 DEF Restarting, Configured
  <1>7. Ending'
    BY <1>1, <1>2 DEF Ending
  <1> QED
    BY <1>3, <1>5, <1>6, <1>7

(* What a start does: the instance has a process of its own, or -1. *)
LEMMA StartOK ==
    ASSUME WatchdogInd, NEW n, NEW o, NEW p, StartInstance(n, o, p), phase # "exit",
           o = [cfg |-> o.cfg, started |-> o.started, pid |-> o.pid],
           o.cfg.run \in BOOLEAN, o.started = FALSE,
           ~o.cfg.run => o.pid = Failed
    PROVE  \E i : /\ instances' = Put(instances, n, i)
                  /\ InstanceOK(i, phase) /\ i.cfg = o.cfg /\ i.started = o.cfg.run
                  /\ IsMap(procs')
                  /\ \/ forkFailures' = forkFailures /\ o.cfg.run /\ i.pid \in Pids \ DOMAIN procs
                        /\ DOMAIN procs' = DOMAIN procs \union {i.pid}
                     \/ forkFailures' = forkFailures + 1 /\ procs' = procs
                     \/ forkFailures' = forkFailures /\ procs' = procs /\ ~o.cfg.run
  <1>1. IsMap(procs)
    BY DEF WatchdogInd, WatchdogTypes
  <1>2. CASE o.cfg.run
    <2>1. PICK i : i = [o EXCEPT !.started = TRUE, !.pid = p]
      OBVIOUS
    <2>2. i = [cfg |-> i.cfg, started |-> i.started, pid |-> i.pid]
          /\ i.cfg = o.cfg /\ i.started = TRUE /\ i.pid = p
      BY <2>1
    <2>3. ForkChild(p) /\ instances' = Put(instances, n, i)
      BY <1>2, <2>1 DEF StartInstance
    <2>4. InstanceOK(i, phase)
      BY <1>2, <2>2, <2>3 DEF InstanceOK, ForkChild
    <2>5. CASE p \in Pids \ DOMAIN procs /\ procs' = Put(procs, p, "up") /\ forkFailures' = forkFailures
      <3>1. DOMAIN procs' = DOMAIN procs \union {p} /\ IsMap(procs')
        <4>1. PICK g : g = procs'
          OBVIOUS
        <4>a. g = Put(procs, p, "up")
          BY <2>5, <4>1
        <4>2. DOMAIN g = DOMAIN procs \union {p} /\ IsMap(g)
          BY ONLY <4>a, PutIs
        <4> QED
          BY <4>1, <4>2
      <3> QED
        BY <1>2, <2>2, <2>3, <2>4, <2>5, <3>1
    <2>6. CASE forkFailures' = forkFailures + 1 /\ procs' = procs
      BY <1>1, <1>2, <2>2, <2>3, <2>4, <2>6
    <2> QED
      BY <2>3, <2>5, <2>6 DEF ForkChild
  <1>3. CASE ~o.cfg.run
    <2>1. instances' = Put(instances, n, o) /\ procs' = procs /\ forkFailures' = forkFailures
      BY <1>3 DEF StartInstance
    <2>2. InstanceOK(o, phase)
      BY <1>3 DEF InstanceOK
    <2> QED
      BY <1>1, <1>3, <2>1, <2>2
  <1> QED
    BY <1>2, <1>3

(* restart() of an instance. *)
LEMMA RestartInstanceInd ==
    ASSUME WatchdogInd, NEW n \in left, NEW p, RestartInstance(n, p)
    PROVE  WatchdogInd'
  <1> USE DEF WatchdogInd
  <1>1. /\ wpc = "restart" /\ wpc' = wpc /\ phase' = phase /\ phase = "watch" /\ left' = left \ {n}
        /\ cbdConfig' = cbdConfig /\ newConfig' = newConfig /\ creating' = creating
        /\ stopPid' = stopPid /\ file' = file
    BY DEF RestartInstance, WatchdogTypes, applyVars, flagVars
  <1>2. /\ n \in DOMAIN instances /\ instances[n].started
        /\ InstanceOK(instances[n], phase)
    BY <1>1 DEF Restarting, WatchdogTypes
  <1>3. PICK o : o = [instances[n] EXCEPT !.started = FALSE]
    OBVIOUS
  <1>4. /\ o = [cfg |-> o.cfg, started |-> o.started, pid |-> o.pid]
        /\ o.cfg = instances[n].cfg /\ o.started = FALSE /\ o.cfg.run \in BOOLEAN /\ o.cfg.run
    BY <1>1, <1>2, <1>3 DEF InstanceOK
  <1>5. StartInstance(n, o, p)
    BY <1>3 DEF RestartInstance
  <1>6. PICK i : /\ instances' = Put(instances, n, i)
                  /\ InstanceOK(i, phase) /\ i.cfg = o.cfg /\ i.started = o.cfg.run
                  /\ IsMap(procs')
                  /\ \/ forkFailures' = forkFailures /\ o.cfg.run /\ i.pid \in Pids \ DOMAIN procs
                        /\ DOMAIN procs' = DOMAIN procs \union {i.pid}
                     \/ forkFailures' = forkFailures + 1 /\ procs' = procs
                     \/ forkFailures' = forkFailures /\ procs' = procs /\ ~o.cfg.run
    <2>1. ~o.cfg.run => o.pid = Failed
      BY <1>4
    <2>2. phase # "exit" /\ o.cfg.run \in BOOLEAN
          /\ o = [cfg |-> o.cfg, started |-> o.started, pid |-> o.pid] /\ o.started = FALSE
      BY <1>1, <1>4
    <2> QED
      BY ONLY <2>1, <2>2, <1>5, WatchdogInd, StartOK
  <1>7. PICK g : g = instances'
    OBVIOUS
  <1>a. g = Put(instances, n, i)
    BY <1>6, <1>7
  <1>8. DOMAIN g = DOMAIN instances /\ g[n] = i /\ \A m \in DOMAIN instances \ {n} : g[m] = instances[m]
    <2>1. DOMAIN g = DOMAIN instances \union {n} /\ g[n] = i
          /\ \A m \in DOMAIN instances \ {n} : g[m] = instances[m]
      BY <1>a DEF Put
    <2> QED
      BY <1>2, <2>1
  <1>9. /\ DOMAIN instances' = DOMAIN instances /\ instances'[n] = i
        /\ \A m \in DOMAIN instances \ {n} : instances'[m] = instances[m]
    BY <1>7, <1>8
  <1>10. i.started /\ i.cfg = instances[n].cfg
    BY <1>4, <1>6
  <1>11. \/ forkFailures' = forkFailures /\ i.pid \in Pids \ DOMAIN procs
            /\ DOMAIN procs' = DOMAIN procs \union {i.pid}
         \/ forkFailures' = forkFailures + 1 /\ procs' = procs
    BY <1>4, <1>6
  <1>12. WatchdogTypes'
    <2>1. DOMAIN procs' \subseteq Pids /\ forkFailures' \in Nat
      BY <1>11 DEF WatchdogTypes
    <2>2. \A m \in DOMAIN instances' : InstanceOK(instances'[m], phase)
      BY <1>6, <1>9 DEF WatchdogTypes
    <2> QED
      BY <1>1, <1>6, <2>1, <2>2 DEF WatchdogTypes
  <1>13. /\ \A m \in DOMAIN instances \ {n} : Knows(m)' <=> Knows(m)
         /\ Knows(n)' /\ ~Knows(n)
    BY <1>1, <1>2, <1>9, <1>10 DEF Knows
  <1>14. Own'
    <2> SUFFICES ASSUME NEW q \in DOMAIN procs'
                 PROVE  \E m \in DOMAIN instances' : Knows(m)' /\ instances'[m].pid = q
      BY DEF Own
    <2>1. CASE q \in DOMAIN procs
      BY <1>1, <1>9, <1>13, <2>1 DEF Own
    <2>2. CASE q = i.pid
      BY <1>2, <1>9, <1>13, <2>2
    <2> QED
      BY <1>11, <2>1, <2>2
  <1>15. Alive'
    <2> SUFFICES ASSUME forkFailures' = 0 PROVE Alive'
      BY DEF Alive
    <2>1. /\ forkFailures = 0 /\ i.pid \in Pids \ DOMAIN procs /\ DOMAIN procs' = DOMAIN procs \union {i.pid}
      BY <1>11 DEF WatchdogTypes
    <2>2. \A m \in DOMAIN instances \ {n} : instances[m].started => instances[m].pid # i.pid
      <3> SUFFICES ASSUME NEW m \in DOMAIN instances \ {n}, instances[m].started, instances[m].pid = i.pid
                   PROVE FALSE
        OBVIOUS
      <3>1. CASE m \in left
        BY <1>1, <1>2, <2>1, <3>1 DEF Alive, Restarting
      <3>2. CASE m \notin left
        BY <2>1, <3>2 DEF Alive, Knows
      <3> QED
        BY <3>1, <3>2
    <2>3. \A m \in DOMAIN instances : Knows(m)' => instances'[m].pid \in DOMAIN procs'
      BY <1>9, <1>13, <2>1 DEF Alive
    <2>4. \A m, k \in DOMAIN instances :
              instances'[m].started /\ instances'[k].started
              /\ instances'[m].pid = instances'[k].pid => m = k
      BY <1>9, <2>1, <2>2 DEF Alive
    <2> QED
      BY <1>1, <1>9, <2>3, <2>4 DEF Alive
  <1>16. Restarting'
    BY <1>1, <1>9 DEF Restarting
  <1>17. Configured' /\ Ending'
    BY <1>1, <1>9, <1>10 DEF Configured, Ending
  <1> QED
    BY <1>12, <1>14, <1>15, <1>16, <1>17

(* A destructor or the end of main() stops the broker of an instance. *)
LEMMA TermOK ==
    ASSUME IsMap(procs), NEW pid, SendTerm(pid)
    PROVE  /\ DOMAIN procs' = DOMAIN procs /\ IsMap(procs') /\ stopPid' = pid /\ wpc' = "stop"
  BY DEF SendTerm, IsMap

(* An instance leaves the map, its destructor stops its broker. *)
LEMMA DeleteInstanceInd ==
    ASSUME WatchdogInd, NEW n \in left, DeleteInstance(n)
    PROVE  WatchdogInd'
  <1> USE DEF WatchdogInd
  <1>1. /\ wpc = "delete" /\ phase' = phase /\ phase \in {"start", "reload"} /\ left' = left \ {n}
        /\ cbdConfig' = cbdConfig /\ newConfig' = newConfig /\ creating' = creating
        /\ file' = file /\ forkFailures' = forkFailures
    BY DEF DeleteInstance, WatchdogTypes, applyVars, flagVars
  <1>2. /\ n \in DOMAIN instances /\ left \subseteq DOMAIN instances
        /\ InstanceOK(instances[n], phase)
    BY <1>1 DEF Configured, WatchdogTypes
  <1>3. PICK g : g = instances'
    OBVIOUS
  <1>4. DOMAIN g = DOMAIN instances \ {n} /\ \A m \in DOMAIN g : g[m] = instances[m]
    <2>1. g = Without(instances, n)
      BY <1>3 DEF DeleteInstance
    <2> QED
      BY <2>1 DEF Without, Restrict
  <1>5. /\ DOMAIN instances' = DOMAIN instances \ {n}
        /\ \A m \in DOMAIN instances' : instances'[m] = instances[m]
    BY <1>3, <1>4
  <1>6. \/ /\ instances[n].started /\ wpc' = "stop" /\ stopPid' = instances[n].pid
           /\ DOMAIN procs' = DOMAIN procs /\ IsMap(procs')
        \/ ~instances[n].started /\ wpc' = wpc /\ procs' = procs /\ stopPid' = stopPid
    BY TermOK DEF DeleteInstance, WatchdogTypes
  <1>7. WatchdogTypes'
    <2>1. \A m \in DOMAIN instances' : InstanceOK(instances'[m], phase)
      BY <1>5 DEF WatchdogTypes
    <2> QED
      BY <1>1, <1>6, <2>1 DEF WatchdogTypes
  <1>8. \A m \in DOMAIN instances' : Knows(m)' <=> Knows(m)
    <2>1. wpc # "restart" /\ wpc' # "restart"
      BY <1>1, <1>6
    <2>2. \A m : Knows(m) <=> instances[m].started
      BY <2>1 DEF Knows
    <2>3. \A m : Knows(m)' <=> instances'[m].started
      BY <2>1 DEF Knows
    <2> QED
      BY <1>5, <2>2, <2>3
  <1>9. Own'
    BY <1>1, <1>5, <1>6, <1>8 DEF Own, Knows
  <1>10. Alive'
    <2> SUFFICES ASSUME forkFailures = 0 PROVE Alive'
      BY <1>1 DEF Alive
    <2>1. \A m \in DOMAIN instances : instances[m].started => Knows(m)
      BY <1>1 DEF Knows
    <2>2. instances[n].started => instances[n].pid \in DOMAIN procs /\ instances[n].pid # Failed
      BY <1>1, <2>1, <1>2, WatchdogAssumption DEF Alive, WatchdogTypes, Failed
    <2>3. \A m \in DOMAIN instances' : Knows(m)' =>
              /\ instances[m].pid \in DOMAIN procs
              /\ instances[n].started => instances[m].pid # instances[n].pid
      BY <1>2, <1>5, <1>8 DEF Alive, Knows
    <2>4. \A m \in DOMAIN instances' : Knows(m)' =>
              /\ instances'[m].pid \in DOMAIN procs'
              /\ wpc' = "stop" => instances'[m].pid # stopPid'
      BY <1>1, <1>5, <1>6, <2>3
    <2>5. wpc' = "stop" => stopPid' # Failed
      BY <1>1, <1>6, <2>2
    <2>6. \A m, k \in DOMAIN instances' :
              instances'[m].started /\ instances'[k].started
              /\ instances'[m].pid = instances'[k].pid => m = k
      BY <1>5 DEF Alive
    <2> QED
      BY <2>4, <2>5, <2>6 DEF Alive
  <1>11. Configured'
    <2>1. /\ left' \subseteq DOMAIN instances' /\ creating' \subseteq Names(newConfig')
          /\ DOMAIN instances' \ left' = Names(newConfig') \ creating'
          /\ \A m \in DOMAIN instances' \ left' : instances'[m].cfg.run = newConfig'.cbd[m].run
      BY <1>1, <1>2, <1>5 DEF Configured
    <2> QED
      BY <1>1, <1>6, <2>1 DEF Configured
  <1>12. Restarting' /\ Ending'
    BY <1>1, <1>6 DEF Restarting, Ending
  <1> QED
    BY <1>7, <1>9, <1>10, <1>11, <1>12

(* At the end of main() every instance is stopped. *)
LEMMA ExitStopInd ==
    ASSUME WatchdogInd, NEW n \in left, ExitStop(n)
    PROVE  WatchdogInd'
  <1> USE DEF WatchdogInd
  <1>1. /\ wpc = "exit" /\ phase' = phase /\ phase = "exit" /\ left' = left \ {n}
        /\ cbdConfig' = cbdConfig /\ newConfig' = newConfig /\ creating' = creating
        /\ file' = file /\ forkFailures' = forkFailures
    BY DEF ExitStop, WatchdogTypes, applyVars, flagVars
  <1>2. /\ n \in DOMAIN instances /\ left \subseteq DOMAIN instances
        /\ InstanceOK(instances[n], phase)
    BY <1>1 DEF Ending, WatchdogTypes
  <1>3. PICK i : i = [instances[n] EXCEPT !.started = FALSE]
    OBVIOUS
  <1>4. /\ DOMAIN instances' = DOMAIN instances /\ instances'[n] = i
        /\ \A m \in DOMAIN instances \ {n} : instances'[m] = instances[m]
    BY <1>2, <1>3 DEF ExitStop
  <1>5. InstanceOK(i, phase) /\ ~i.started
    BY <1>1, <1>2, <1>3 DEF InstanceOK
  <1>6. \/ /\ instances[n].started /\ wpc' = "stop" /\ stopPid' = instances[n].pid
           /\ DOMAIN procs' = DOMAIN procs /\ IsMap(procs')
        \/ ~instances[n].started /\ wpc' = wpc /\ procs' = procs /\ stopPid' = stopPid
    BY TermOK DEF ExitStop, WatchdogTypes
  <1>7. WatchdogTypes'
    <2>1. \A m \in DOMAIN instances' : InstanceOK(instances'[m], phase)
      BY <1>4, <1>5 DEF WatchdogTypes
    <2> QED
      BY <1>1, <1>6, <2>1 DEF WatchdogTypes
  <1>8. \A m \in DOMAIN instances : Knows(m)' <=> Knows(m) /\ m # n
    BY <1>1, <1>4, <1>5, <1>6 DEF Knows
  <1>9. Own'
    BY <1>1, <1>4, <1>6, <1>8 DEF Own, Knows
  <1>10. Alive'
    <2> SUFFICES ASSUME forkFailures = 0 PROVE Alive'
      BY <1>1 DEF Alive
    <2>1. \A m \in DOMAIN instances : instances[m].started => Knows(m)
      BY <1>1 DEF Knows
    <2>2. instances[n].started => instances[n].pid \in DOMAIN procs /\ instances[n].pid # Failed
      BY <1>1, <2>1, <1>2, WatchdogAssumption DEF Alive, WatchdogTypes, Failed
    <2>3. \A m \in DOMAIN instances : Knows(m)' =>
              /\ instances[m].pid \in DOMAIN procs
              /\ instances[n].started => instances[m].pid # instances[n].pid
      BY <1>2, <1>8 DEF Alive, Knows
    <2>4. \A m \in DOMAIN instances' : Knows(m)' =>
              /\ instances'[m].pid \in DOMAIN procs'
              /\ wpc' = "stop" => instances'[m].pid # stopPid'
      BY <1>1, <1>4, <1>6, <1>8, <2>3
    <2>5. wpc' = "stop" => stopPid' # Failed
      BY <1>1, <1>6, <2>2
    <2>6. \A m, k \in DOMAIN instances' :
              instances'[m].started /\ instances'[k].started
              /\ instances'[m].pid = instances'[k].pid => m = k
      BY <1>4, <1>5 DEF Alive
    <2> QED
      BY <2>4, <2>5, <2>6 DEF Alive
  <1>11. Ending'
    BY <1>1, <1>4, <1>5, <1>6 DEF Ending
  <1>12. Restarting' /\ Configured'
    BY <1>1, <1>6 DEF Restarting, Configured
  <1> QED
    BY <1>7, <1>9, <1>10, <1>11, <1>12

(* stop() returns with one process less at most, its own if it has one.    *)
LEMMA StopReturns ==
    ASSUME WatchdogInd, wpc = "stop", Return, IsMap(procs'),
           \/ procs' = procs /\ Targets(stopPid) = {}
           \/ \E p \in Targets(stopPid) : DOMAIN procs' = DOMAIN procs \ {p}
    PROVE  WatchdogInd'
  <1> USE DEF WatchdogInd
  <1>1. /\ wpc' = (IF phase = "exit" THEN "exit" ELSE "delete")
        /\ cbdConfig' = cbdConfig /\ newConfig' = newConfig /\ creating' = creating
        /\ file' = file /\ forkFailures' = forkFailures /\ phase' = phase /\ left' = left
        /\ instances' = instances /\ stopPid' = stopPid
    BY DEF Return, applyVars, flagVars
  <1>2. phase \in {"start", "reload", "exit"}
    BY DEF WatchdogTypes
  <1>3. DOMAIN procs' \subseteq DOMAIN procs /\ stopPid \notin DOMAIN procs'
    <2>1. Failed \notin DOMAIN procs
      BY WatchdogAssumption DEF Failed, WatchdogTypes
    <2>2. CASE procs' = procs /\ Targets(stopPid) = {}
      BY <2>1, <2>2 DEF Targets
    <2>3. ASSUME NEW p \in Targets(stopPid), DOMAIN procs' = DOMAIN procs \ {p}
          PROVE  DOMAIN procs' \subseteq DOMAIN procs /\ stopPid \notin DOMAIN procs'
      BY <2>1, <2>3 DEF Targets
    <2> QED
      BY <2>2, <2>3
  <1>4. forkFailures = 0 => DOMAIN procs \ {stopPid} \subseteq DOMAIN procs'
    BY DEF Targets, Alive
  <1>5. WatchdogTypes'
    BY <1>1, <1>2, <1>3 DEF WatchdogTypes
  <1>6. \A n \in DOMAIN instances : Knows(n)' <=> Knows(n)
    BY <1>1, <1>2 DEF Knows
  <1>7. Own'
    BY <1>1, <1>3, <1>6 DEF Own
  <1>8. Alive'
    BY <1>1, <1>4, <1>6 DEF Alive
  <1>9. Restarting' /\ Configured' /\ Ending'
    BY <1>1, <1>2 DEF Restarting, Configured, Ending
  <1> QED
    BY <1>5, <1>7, <1>8, <1>9

(* stop() when the broker ends in time. *)
LEMMA WaitStoppedInd ==
    ASSUME WatchdogInd, WaitStopped PROVE WatchdogInd'
  <1>1. wpc = "stop" /\ Return /\ IsMap(procs)
    BY DEF WaitStopped, WatchdogInd, WatchdogTypes
  <1>2. CASE Targets(stopPid) = {} /\ procs' = procs
    BY <1>1, <1>2, StopReturns
  <1>3. ASSUME NEW p \in Targets(stopPid), procs' = Without(procs, p) PROVE WatchdogInd'
    <2>1. PICK g : g = procs'
      OBVIOUS
    <2>2. g = Without(procs, p)
      BY <1>3, <2>1
    <2>3. DOMAIN g = DOMAIN procs \ {p} /\ IsMap(g)
      BY ONLY <2>2, WithoutIs
    <2> QED
      BY <1>1, <1>3, <2>1, <2>3, StopReturns
  <1> QED
    BY <1>2, <1>3 DEF WaitStopped

(* stop() with SIGKILL. *)
LEMMA KillStoppedInd ==
    ASSUME WatchdogInd, KillStopped PROVE WatchdogInd'
  <1>1. wpc = "stop" /\ Return
    BY DEF KillStopped
  <1>2. PICK p \in Targets(stopPid) :
          procs' = [q \in DOMAIN procs \ {p} |->
                      IF q \in Targets(stopPid) THEN "zombie" ELSE procs[q]]
    BY DEF KillStopped
  <1>3. DOMAIN procs' = DOMAIN procs \ {p} /\ IsMap(procs')
    BY <1>2 DEF IsMap
  <1> QED
    BY <1>1, <1>3, StopReturns

(* What stays takes its new configuration, of the same broker. *)
LEMMA UpdateInstancesInd ==
    ASSUME WatchdogInd, UpdateInstances PROVE WatchdogInd'
  <1> USE DEF WatchdogInd
  <1>1. /\ wpc = "delete" /\ left = {} /\ wpc' = "create"
        /\ cbdConfig' = cbdConfig /\ newConfig' = newConfig /\ creating' = creating
        /\ file' = file /\ forkFailures' = forkFailures /\ phase' = phase /\ left' = left
        /\ procs' = procs /\ stopPid' = stopPid
    BY DEF UpdateInstances, applyVars, flagVars
  <1>2. /\ creating \subseteq Names(newConfig) /\ DOMAIN instances = Names(newConfig) \ creating
        /\ \A n \in DOMAIN instances : instances[n].cfg.run = newConfig.cbd[n].run
        /\ phase \in {"start", "reload"}
    BY <1>1 DEF Configured, WatchdogTypes
  <1>3. DOMAIN instances' = DOMAIN instances
    BY DEF UpdateInstances
  <1>4. ASSUME NEW n \in DOMAIN instances
        PROVE  /\ instances'[n].cfg = newConfig.cbd[n]
               /\ instances'[n].started = instances[n].started
               /\ instances'[n].pid = instances[n].pid
               /\ InstanceOK(instances'[n], phase)
    <2>1. PICK i : i = instances[n]
      OBVIOUS
    <2>2. PICK j : j = [i EXCEPT !.cfg = newConfig.cbd[n]]
      OBVIOUS
    <2>3. instances'[n] = j
      BY <1>4, <2>1, <2>2 DEF UpdateInstances
    <2>4. InstanceOK(i, phase) /\ i.cfg.run = newConfig.cbd[n].run
      BY <1>2, <1>4, <2>1 DEF WatchdogTypes
    <2>5. /\ j = [cfg |-> j.cfg, started |-> j.started, pid |-> j.pid]
          /\ j.cfg = newConfig.cbd[n] /\ j.started = i.started /\ j.pid = i.pid
      BY <2>2, <2>4 DEF InstanceOK
    <2>6. InstanceOK(j, phase)
      BY <2>4, <2>5 DEF InstanceOK
    <2> QED
      BY <2>1, <2>3, <2>5, <2>6
  <1>5. WatchdogTypes'
    BY <1>1, <1>3, <1>4 DEF WatchdogTypes
  <1>6. \A n \in DOMAIN instances : Knows(n)' <=> Knows(n)
    BY <1>1, <1>4 DEF Knows
  <1>7. Own'
    BY <1>1, <1>3, <1>4, <1>6 DEF Own
  <1>8. Alive'
    BY <1>1, <1>3, <1>4, <1>6 DEF Alive
  <1>9. Restarting' /\ Configured' /\ Ending'
    BY <1>1, <1>2, <1>3, <1>4 DEF Restarting, Configured, Ending
  <1> QED
    BY <1>5, <1>7, <1>8, <1>9

(* The constructor of an instance. *)
LEMMA CreateInstanceInd ==
    ASSUME WatchdogInd, NEW n \in creating, NEW p, CreateInstance(n, p) PROVE WatchdogInd'
  <1> USE DEF WatchdogInd
  <1>1. /\ wpc = "create" /\ wpc' = wpc /\ phase' = phase /\ phase \in {"start", "reload"}
        /\ left' = left /\ creating' = creating \ {n}
        /\ cbdConfig' = cbdConfig /\ newConfig' = newConfig
        /\ stopPid' = stopPid /\ file' = file
    BY DEF CreateInstance, WatchdogTypes, flagVars
  <1>2. creating \subseteq Names(newConfig) /\ n \notin DOMAIN instances
    BY <1>1 DEF Configured
  <1>3. PICK o : o = [cfg |-> newConfig.cbd[n], started |-> FALSE, pid |-> Failed]
    OBVIOUS
  <1>4. /\ o = [cfg |-> o.cfg, started |-> o.started, pid |-> o.pid]
        /\ o.cfg = newConfig.cbd[n] /\ o.started = FALSE /\ o.pid = Failed
    BY <1>3
  <1>5. o.cfg.run \in BOOLEAN
    <2>1. newConfig \in CbdFiles
      BY <1>2 DEF WatchdogTypes, NoCbd, Names
    <2> QED
      BY <1>2, <1>4, <2>1, WatchdogAssumption DEF Names
  <1>6. StartInstance(n, o, p)
    BY <1>3 DEF CreateInstance
  <1>7. PICK i : /\ instances' = Put(instances, n, i)
                  /\ InstanceOK(i, phase) /\ i.cfg = o.cfg /\ i.started = o.cfg.run
                  /\ IsMap(procs')
                  /\ \/ forkFailures' = forkFailures /\ o.cfg.run /\ i.pid \in Pids \ DOMAIN procs
                        /\ DOMAIN procs' = DOMAIN procs \union {i.pid}
                     \/ forkFailures' = forkFailures + 1 /\ procs' = procs
                     \/ forkFailures' = forkFailures /\ procs' = procs /\ ~o.cfg.run
    BY <1>1, <1>4, <1>5, <1>6, StartOK
  <1>8. PICK g : g = instances'
    OBVIOUS
  <1>a. g = Put(instances, n, i)
    BY <1>7, <1>8
  <1>9. DOMAIN g = DOMAIN instances \union {n} /\ g[n] = i
        /\ \A m \in DOMAIN instances \ {n} : g[m] = instances[m]
    BY <1>a DEF Put
  <1>10. /\ DOMAIN instances' = DOMAIN instances \union {n} /\ instances'[n] = i
         /\ \A m \in DOMAIN instances : instances'[m] = instances[m]
    BY <1>2, <1>8, <1>9
  <1>11. i.started \in BOOLEAN /\ i.started = o.cfg.run
    BY <1>5, <1>7
  <1>12. WatchdogTypes'
    <2>1. DOMAIN procs' \subseteq Pids /\ forkFailures' \in Nat
      BY <1>7 DEF WatchdogTypes
    <2>2. \A m \in DOMAIN instances' : InstanceOK(instances'[m], phase)
      BY <1>7, <1>10 DEF WatchdogTypes
    <2> QED
      BY <1>1, <1>7, <2>1, <2>2 DEF WatchdogTypes
  <1>13. /\ \A m \in DOMAIN instances : Knows(m)' <=> Knows(m)
         /\ Knows(n)' <=> i.started
    BY <1>1, <1>2, <1>10, <1>11 DEF Knows
  <1>14. Own'
    <2> SUFFICES ASSUME NEW q \in DOMAIN procs'
                 PROVE  \E m \in DOMAIN instances' : Knows(m)' /\ instances'[m].pid = q
      BY DEF Own
    <2>1. CASE q \in DOMAIN procs
      BY <1>1, <1>10, <1>13, <2>1 DEF Own
    <2>2. CASE q = i.pid /\ o.cfg.run
      BY <1>10, <1>11, <1>13, <2>2
    <2> QED
      BY <1>7, <2>1, <2>2
  <1>15. Alive'
    <2> SUFFICES ASSUME forkFailures' = 0 PROVE Alive'
      BY DEF Alive
    <2>1. /\ forkFailures = 0 /\ DOMAIN procs \subseteq DOMAIN procs'
          /\ i.started => i.pid \in DOMAIN procs' \ DOMAIN procs
      BY <1>7, <1>11 DEF WatchdogTypes
    <2>2. \A m \in DOMAIN instances : instances[m].started => instances[m].pid \in DOMAIN procs
      BY <1>1, <2>1 DEF Alive, Knows
    <2>3. \A m \in DOMAIN instances' : Knows(m)' => instances'[m].pid \in DOMAIN procs'
      BY <1>10, <1>13, <2>1, <2>2 DEF Knows
    <2>4. \A m, k \in DOMAIN instances' :
              instances'[m].started /\ instances'[k].started
              /\ instances'[m].pid = instances'[k].pid => m = k
      BY <1>10, <2>1, <2>2 DEF Alive
    <2> QED
      BY <1>1, <2>3, <2>4 DEF Alive
  <1>16. Configured'
    BY <1>1, <1>2, <1>4, <1>7, <1>10 DEF Configured
  <1>17. Restarting' /\ Ending'
    BY <1>1 DEF Restarting, Ending
  <1> QED
    BY <1>12, <1>14, <1>15, <1>16, <1>17

(* The end of apply_new_configuration(). *)
LEMMA SaveConfigInd ==
    ASSUME WatchdogInd, SaveConfig PROVE WatchdogInd'
  <1> USE DEF WatchdogInd
  <1>1. /\ wpc = "create" /\ creating = {} /\ cbdConfig' = newConfig /\ newConfig' = newConfig
        /\ creating' = creating /\ instances' = instances /\ left' = left /\ stopPid' = stopPid
        /\ procs' = procs /\ file' = file /\ forkFailures' = forkFailures
        /\ phase \in {"start", "reload"}
        /\ \/ phase = "reload" /\ wpc' = "clear" /\ phase' = "reload"
           \/ phase = "start" /\ wpc' = "loop" /\ phase' = "watch"
    BY DEF SaveConfig, WatchdogTypes, flagVars
  <1>2. \A n \in DOMAIN instances : InstanceOK(instances[n], phase')
    BY <1>1, Renamed DEF WatchdogTypes
  <1>3. WatchdogTypes'
    BY <1>1, <1>2 DEF WatchdogTypes
  <1>4. \A n \in DOMAIN instances : Knows(n)' <=> Knows(n)
    BY <1>1 DEF Knows
  <1>5. Own' /\ Alive'
    BY <1>1, <1>4 DEF Own, Alive
  <1>6. Configured'
    BY <1>1 DEF Configured
  <1>7. Restarting' /\ Ending'
    BY <1>1 DEF Restarting, Ending
  <1> QED
    BY <1>3, <1>5, <1>6, <1>7

(* The loop of main() ends. *)
LEMMA LeaveLoopInd ==
    ASSUME WatchdogInd, LeaveLoop PROVE WatchdogInd'
  <1> USE DEF WatchdogInd
  <1>1. /\ wpc = "loop" /\ wpc' = "exit" /\ phase' = "exit" /\ left' = DOMAIN instances
        /\ cbdConfig' = cbdConfig /\ newConfig' = newConfig
        /\ creating' = creating /\ instances' = instances /\ stopPid' = stopPid
        /\ procs' = procs /\ file' = file /\ forkFailures' = forkFailures
    BY DEF LeaveLoop, applyVars, flagVars
  <1>2. \A n \in DOMAIN instances : InstanceOK(instances[n], phase')
    BY <1>1, Renamed DEF WatchdogTypes
  <1>3. WatchdogTypes'
    BY <1>1, <1>2 DEF WatchdogTypes
  <1>4. \A n \in DOMAIN instances : Knows(n)' <=> Knows(n)
    BY <1>1 DEF Knows
  <1>5. Own' /\ Alive'
    BY <1>1, <1>4 DEF Own, Alive
  <1>6. Configured' /\ Restarting' /\ Ending'
    BY <1>1 DEF Configured, Restarting, Ending
  <1> QED
    BY <1>3, <1>5, <1>6

(* main() applies the file or returns. *)
LEMMA MainInd ==
    ASSUME WatchdogInd, Main PROVE WatchdogInd'
  <1>1. file \in CbdFiles /\ file' = file /\ phase = "start" /\ phase' = phase
    BY DEF WatchdogInd, WatchdogTypes, Main, flagVars
  <1>2. CASE file.valid
    BY <1>1, <1>2, BeginOK DEF Main
  <1>3. CASE ~file.valid
    BY <1>1, <1>3, Moves DEF Main
  <1> QED
    BY <1>2, <1>3

(* SIGHUP is served. *)
LEMMA ReloadInd ==
    ASSUME WatchdogInd, Reload PROVE WatchdogInd'
  <1>1. file \in CbdFiles /\ file' = file /\ phase' = "reload"
    BY DEF WatchdogInd, WatchdogTypes, Reload
  <1>2. CASE file.valid
    BY <1>1, <1>2, BeginOK DEF Reload
  <1>3. CASE ~file.valid
    BY <1>1, <1>3, Moves DEF Reload
  <1> QED
    BY <1>2, <1>3

(* Signals and the steps of the loop that only look. *)
LEMMA QuietInd ==
    ASSUME WatchdogInd,
           \/ NothingEnded \/ RestartsDone \/ Pause \/ ClearHup \/ EndMain \/ Term
           \/ \E c \in CbdFiles : Hup(c)
           \/ UNCHANGED watchdogVars
    PROVE  WatchdogInd'
  <1>1. file \in CbdFiles
    BY DEF WatchdogInd, WatchdogTypes
  <1>2. CASE NothingEnded
    BY <1>1, <1>2, Moves DEF NothingEnded, flagVars
  <1>3. CASE RestartsDone
    BY <1>1, <1>3, Moves DEF RestartsDone, flagVars
  <1>4. CASE Pause
    BY <1>1, <1>4, Moves DEF Pause, flagVars
  <1>5. CASE ClearHup
    BY <1>1, <1>5, Moves DEF ClearHup, flagVars
  <1>6. CASE EndMain
    BY <1>1, <1>6, Moves DEF EndMain, flagVars
  <1>7. CASE Term
    BY <1>1, <1>7, Moves DEF Term, flagVars
  <1>8. ASSUME NEW c \in CbdFiles, Hup(c) PROVE WatchdogInd'
    BY <1>8, Moves DEF Hup
  <1>9. CASE UNCHANGED watchdogVars
    BY <1>1, <1>9, Moves DEF watchdogVars, flagVars
  <1> QED
    BY <1>2, <1>3, <1>4, <1>5, <1>6, <1>7, <1>8, <1>9

(* Nothing runs when main() starts. *)
LEMMA WatchdogInitInd == WatchdogInit => WatchdogInd
  <1> SUFFICES ASSUME WatchdogInit PROVE WatchdogInd
    OBVIOUS
  <1>1. DOMAIN instances = {} /\ DOMAIN procs = {} /\ IsMap(procs) /\ Names(cbdConfig) = {}
    BY DEF WatchdogInit, IsMap, Names, NoCbd
  <1> QED
    BY <1>1 DEF WatchdogInit, WatchdogInd, WatchdogTypes, Own, Alive, Restarting, Configured, Ending

(* The inductive invariant of the watchdog: every broker is that of an     *)
(* instance, but for the one being stopped; the instances are those of     *)
(* the configuration that is applied; without a failed fork each has a     *)
(* broker of its own.                                                      *)
LEMMA WatchdogInductive == WatchdogInd /\ [WatchdogNext]_watchdogVars => WatchdogInd'
  <1> SUFFICES ASSUME WatchdogInd, [WatchdogNext]_watchdogVars PROVE WatchdogInd'
    OBVIOUS
  <1>1. CASE WatchdogStep
    BY <1>1, QuietInd, MainInd, ReloadInd, ReapInd, RestartInstanceInd, DeleteInstanceInd,
       ExitStopInd, WaitStoppedInd, KillStoppedInd, UpdateInstancesInd, CreateInstanceInd,
       SaveConfigInd, LeaveLoopInd DEF WatchdogStep
  <1>2. CASE \E p \in DOMAIN procs : ChildDies(p)
    BY <1>2, ChildDiesInd
  <1> QED
    BY <1>1, <1>2, QuietInd DEF WatchdogNext

(* The invariant of the runs follows. *)
LEMMA WatchdogIndGives == WatchdogInd => WatchdogInv
  <1> SUFFICES ASSUME WatchdogInd PROVE WatchdogInv
    OBVIOUS
  <1> USE DEF WatchdogInd
  <1>1. DOMAIN procs \subseteq Owned \union (IF wpc = "stop" THEN Targets(stopPid) ELSE {})
    BY DEF Own, Knows, Owned, Targets
  <1>2. wpc = "ended" => procs = <<>>
    <2> SUFFICES ASSUME wpc = "ended" PROVE procs = <<>>
      OBVIOUS
    <2>1. procs = [p \in {} |-> procs[p]]
      BY DEF Ending, WatchdogTypes, IsMap
    <2> QED
      BY <2>1
  <1>3. Watched
    <2> SUFFICES ASSUME wpc \in {"loop", "hup"} PROVE Watched
      BY DEF Watched
    <2>1. phase = "watch" /\ \A n \in DOMAIN instances : Knows(n) <=> instances[n].started
      BY DEF WatchdogTypes, Knows
    <2>2. \A n \in DOMAIN instances : instances[n].started = instances[n].cfg.run
      BY <2>1 DEF WatchdogTypes, InstanceOK
    <2> QED
      BY <2>1, <2>2 DEF Watched, Configured, Alive
  <1> QED
    BY <1>1, <1>2, <1>3 DEF WatchdogInv, NoStray

(* The watchdog (watchdog/src/main.cc) knows every broker that runs, but   *)
(* for the one it stops, and leaves none when it ends; between reloads     *)
(* its instances are those of the file it applied, each with a process of  *)
(* its own as long as no fork fails.                                       *)
THEOREM WatchdogCorrect == WatchdogSpec => []WatchdogInv
  BY WatchdogInitInd, WatchdogInductive, WatchdogIndGives, PTL DEF WatchdogSpec

-----------------------------------------------------------------------------
(***************************************************************************)
(* The reload of the configuration, for any files and any number of        *)
(* SIGHUPs, refusals and failed creations: the invariant AppliedInv of     *)
(* EndpointApplier.                                                        *)
(*                                                                         *)
(* What it lacks to be inductive: what _diff_endpoints has established     *)
(* when it is halfway.  The roots it finds in what is left of the list are *)
(* the roots of the whole list, since nothing it has taken refers to what  *)
(* is left; and for each root it has compared, what runs is kept or is to  *)
(* be created, so that what it deletes was asked for by nobody.            *)
(***************************************************************************)
(* A list whose names are distinct, which the parser does not check. *)
Distinct(l) == \A i, j \in DOMAIN l : l[i].name = l[j].name => i = j

(* A configuration of the files. *)
Proper(c) ==
    /\ DOMAIN c.endpoints \subseteq Nat
    /\ Distinct(c.endpoints)
    /\ \A i \in DOMAIN c.endpoints : c.endpoints[i].failovers \in Seq(STRING)

(* The places of the configuration being applied, those of its roots, and  *)
(* the roots.                                                              *)
Places == DOMAIN target.endpoints
TopPlaces == RootPlaces(target.endpoints, Places)
Wanted == Roots(target.endpoints)

(* What is not a root is there as the failover of another one. *)
Hung(S) == \A k \in S : k \in TopPlaces \/ \E j \in S : Refers(At(j), At(k).name)

(* The comparison is over for the roots at S: each runs and is kept, or    *)
(* is to be created, and whatever else runs is to be deleted.              *)
Compared(S) ==
    /\ toDelete \subseteq Cfgs
    /\ Cfgs \subseteq toDelete \union {At(i) : i \in S}
    /\ \A i \in S : At(i) \notin toDelete /\ (At(i) \in Cfgs \/ i \in ToSet(toCreate))

(* The parts of the invariant: the configurations; *)
ProperInd == Proper(target) /\ Proper(glState)

(* which of them is being applied; *)
PhaseInd ==
    /\ apc = "main" => ~ again /\ before = {}
    /\ apc \in {"check", "diff", "subentries", "create"} =>
          /\ again => target = glState
          /\ ~ again => target = asked
    /\ apc \in {"diff", "subentries", "create"} => settings = target.settings

(* what is to be created is made of whole trees; *)
ListInd ==
    apc \in {"diff", "subentries", "create"} =>
       toCreate \in Seq(Nat) /\ ToSet(toCreate) \subseteq Places /\ Hung(ToSet(toCreate))

(* while a root is looked for, nothing already taken refers to what is     *)
(* left;                                                                   *)
RootInd ==
    apc = "diff" =>
       /\ newEp \subseteq Places
       /\ \A j \in Places \ newEp : \A i \in newEp : ~ Refers(At(j), At(i).name)
       /\ Compared(TopPlaces \ newEp)

(* in a tree, only by the names still to be found; *)
TreeInd ==
    apc = "subentries" =>
       /\ newEp \subseteq Places
       /\ tree \in Seq(Nat) /\ tree # <<>> /\ ToSet(tree) \subseteq Places \ newEp
       /\ tree[1] \in TopPlaces /\ Hung(ToSet(tree))
       /\ pending \in Seq(STRING)
       /\ \A name \in ToSet(pending) : \E j \in ToSet(tree) : Refers(At(j), name)
       /\ \A j \in Places \ newEp : \A i \in newEp :
             Refers(At(j), At(i).name) => At(i).name \in ToSet(pending)
       /\ Compared((TopPlaces \ newEp) \ {tree[1]})

(* after the comparison, only what is asked for runs; *)
CreateInd ==
    apc = "create" =>
       /\ Cfgs \subseteq Wanted
       /\ \A i \in TopPlaces : At(i) \in Cfgs \/ i \in ToSet(toCreate)

(* and what was asked for again has not been stopped. *)
Kept(S) == \A cfg \in S : \E o \in running : o.cfg = cfg /\ ~ o.fresh
KeptInd ==
    apc # "ended" =>
       /\ again => Kept(before \intersect Roots(asked.endpoints) \intersect Roots(glState.endpoints))
       /\ ~ again => Kept(before \intersect Roots(asked.endpoints))

(* The inductive invariant. *)
AppInd ==
    /\ ProperInd /\ PhaseInd /\ ListInd /\ RootInd /\ TreeInd /\ CreateInd /\ KeptInd
    /\ OneOfAName /\ RunsWhatIsInForce

(* Before the first configuration there is no entry. *)
LEMMA NoStateProper == Proper(NoState)
  BY DEF Proper, NoState, Distinct

(* What the files hold. *)
LEMMA ConfigurationProper == \A c \in Configurations : Proper(c)
  BY ApplierAssumption DEF Proper, Distinct

(* main() begins with nothing. *)
LEMMA AppInits == ApplierInit => AppInd
<1> SUFFICES ASSUME ApplierInit PROVE AppInd
  OBVIOUS
<1>1. apc = "main" /\ target = NoState /\ glState = NoState /\ running = {} /\ before = {} /\ again = FALSE
  BY DEF ApplierInit
<1>2. ProperInd
  BY <1>1, NoStateProper DEF ProperInd
<1>3. PhaseInd /\ ListInd /\ RootInd /\ TreeInd /\ CreateInd /\ RunsWhatIsInForce
  BY <1>1 DEF PhaseInd, ListInd, RootInd, TreeInd, CreateInd, RunsWhatIsInForce
<1>4. KeptInd /\ OneOfAName
  BY <1>1 DEF KeptInd, Kept, OneOfAName
<1> QED
  BY <1>2, <1>3, <1>4 DEF AppInd

(* Wherever apply() throws, what runs stays as it is. *)
LEMMA ThrowInd ==
    ASSUME AppInd, Throw, apc \in {"check", "diff", "subentries", "create"}
    PROVE  AppInd'
<1>1. UNCHANGED <<settings, newEp, tree, pending, toDelete, toCreate, glState, before, asked>>
  BY DEF Throw, diffVars, signalVars
<1>2. ProperInd /\ PhaseInd /\ KeptInd /\ OneOfAName
  BY DEF AppInd
<1>3. CASE apc' = "ended" /\ running' = {} /\ UNCHANGED <<target, again, broken>>
  <2>1. ProperInd' /\ PhaseInd' /\ ListInd' /\ RootInd' /\ TreeInd' /\ CreateInd' /\ KeptInd'
        /\ RunsWhatIsInForce'
    BY <1>1, <1>2, <1>3 DEF ProperInd, PhaseInd, ListInd, RootInd, TreeInd, CreateInd, KeptInd,
       RunsWhatIsInForce
  <2>2. OneOfAName'
    BY <1>3 DEF OneOfAName
  <2> QED
    BY <2>1, <2>2 DEF AppInd
<1>4. CASE apc' = "idle" /\ broken' = TRUE /\ UNCHANGED <<target, again, running>>
  <2>1. ProperInd' /\ PhaseInd' /\ ListInd' /\ RootInd' /\ TreeInd' /\ CreateInd'
        /\ RunsWhatIsInForce'
    BY <1>1, <1>2, <1>4 DEF ProperInd, PhaseInd, ListInd, RootInd, TreeInd, CreateInd,
       RunsWhatIsInForce
  <2>2. OneOfAName'
    BY <1>2, <1>4 DEF OneOfAName
  <2>3. KeptInd'
    BY <1>1, <1>2, <1>4 DEF KeptInd, Kept
  <2> QED
    BY <2>1, <2>2, <2>3 DEF AppInd
<1>5. CASE ~ again /\ apc' = "check" /\ target' = glState /\ again' = TRUE /\ UNCHANGED <<broken, running>>
  <2>1. ProperInd' /\ PhaseInd' /\ ListInd' /\ RootInd' /\ TreeInd' /\ CreateInd'
        /\ RunsWhatIsInForce'
    BY <1>1, <1>2, <1>5 DEF ProperInd, PhaseInd, ListInd, RootInd, TreeInd, CreateInd,
       RunsWhatIsInForce
  <2>2. OneOfAName'
    BY <1>2, <1>5 DEF OneOfAName
  <2>3. KeptInd'
    <3>1. Kept(before \intersect Roots(asked.endpoints))
      BY <1>2, <1>5 DEF KeptInd
    <3> QED
      BY <1>1, <1>5, <3>1 DEF KeptInd, Kept
  <2> QED
    BY <2>1, <2>2, <2>3 DEF AppInd
<1> QED
  BY <1>3, <1>4, <1>5 DEF Throw

(* main() applies its first file. *)
LEMMA FirstApplyInd == \A c \in Configurations : AppInd /\ FirstApply(c) => AppInd'
<1> SUFFICES ASSUME NEW c \in Configurations, AppInd, FirstApply(c) PROVE AppInd'
  OBVIOUS
<1>1. /\ apc = "main" /\ target' = c /\ asked' = c /\ apc' = "check"
      /\ UNCHANGED <<glState, settings, running, before, again, broken>>
  BY DEF FirstApply
<1>2. ProperInd /\ PhaseInd /\ OneOfAName /\ Proper(c)
  BY ConfigurationProper DEF AppInd
<1>3. ProperInd' /\ PhaseInd' /\ ListInd' /\ RootInd' /\ TreeInd' /\ CreateInd'
        /\ RunsWhatIsInForce'
  BY <1>1, <1>2 DEF ProperInd, PhaseInd, ListInd, RootInd, TreeInd, CreateInd,
     RunsWhatIsInForce
<1>4. OneOfAName'
  BY <1>1, <1>2 DEF OneOfAName
<1>5. KeptInd'
  BY <1>1, <1>2 DEF PhaseInd, KeptInd, Kept
<1> QED
  BY <1>3, <1>4, <1>5 DEF AppInd

(* SIGHUP: what runs becomes what ran before. *)
LEMMA HupHandlerInd == \A c \in Configurations : AppInd /\ HupHandler(c) => AppInd'
<1> SUFFICES ASSUME NEW c \in Configurations, AppInd, HupHandler(c) PROVE AppInd'
  OBVIOUS
<1>1. /\ target' = c /\ asked' = c /\ apc' = "check" /\ again' = FALSE /\ before' = Cfgs
      /\ running' = {Object(o.cfg, FALSE, o.chain) : o \in running}
      /\ UNCHANGED <<glState, settings, broken>>
  BY DEF HupHandler
<1>2. ProperInd /\ OneOfAName /\ Proper(c)
  BY ConfigurationProper DEF AppInd
<1>3. ProperInd' /\ PhaseInd' /\ ListInd' /\ RootInd' /\ TreeInd' /\ CreateInd'
        /\ RunsWhatIsInForce'
  BY <1>1, <1>2 DEF ProperInd, PhaseInd, ListInd, RootInd, TreeInd, CreateInd,
     RunsWhatIsInForce
<1>4. \A o : Object(o.cfg, FALSE, o.chain).cfg = o.cfg /\ Object(o.cfg, FALSE, o.chain).fresh = FALSE
  BY DEF Object
<1>5. OneOfAName'
  <2> SUFFICES ASSUME NEW o \in running', NEW p \in running', o.cfg.name = p.cfg.name
               PROVE  o = p
    BY DEF OneOfAName
  <2>1. PICK o1 \in running : o = Object(o1.cfg, FALSE, o1.chain)
    BY <1>1
  <2>2. PICK p1 \in running : p = Object(p1.cfg, FALSE, p1.chain)
    BY <1>1
  <2>3. o1.cfg.name = p1.cfg.name
    BY <1>4, <2>1, <2>2
  <2> QED
    BY <1>2, <2>1, <2>2, <2>3 DEF OneOfAName
<1>6. KeptInd'
  <2> SUFFICES ASSUME NEW cfg \in Cfgs PROVE \E o \in running' : o.cfg = cfg /\ ~ o.fresh
    BY <1>1 DEF KeptInd, Kept
  <2>1. PICK o \in running : cfg = o.cfg
    BY DEF Cfgs
  <2>2. Object(o.cfg, FALSE, o.chain) \in running'
    BY <1>1
  <2> QED
    BY <1>4, <2>1, <2>2
<1> QED
  BY <1>3, <1>5, <1>6 DEF AppInd

(* The comparison begins: nothing is compared yet. *)
LEMMA StateApplyInd == AppInd /\ StateApply => AppInd'
<1> SUFFICES ASSUME AppInd, StateApply PROVE AppInd'
  OBVIOUS
<1>0. apc = "check"
  BY DEF StateApply
<1>1. CASE Throw
  BY <1>0, <1>1, ThrowInd
<1>2. CASE ~ Throw
  <2>1. /\ settings' = target.settings /\ newEp' = Places /\ toDelete' = Cfgs /\ toCreate' = <<>>
        /\ apc' = "diff"
        /\ UNCHANGED <<target, running, glState, before, asked, again, broken>>
    BY <1>2 DEF StateApply, signalVars, Places
  <2>2. ProperInd /\ PhaseInd /\ KeptInd /\ OneOfAName
    BY DEF AppInd
  <2>3. ProperInd' /\ PhaseInd' /\ TreeInd' /\ CreateInd' /\ RunsWhatIsInForce'
    BY <1>0, <2>1, <2>2 DEF ProperInd, PhaseInd, TreeInd, CreateInd, RunsWhatIsInForce
  <2>4. ListInd'
    BY <2>1, ToSetEmpty DEF ListInd, Hung
  <2>5. Places' = Places /\ Cfgs' = Cfgs
    BY <2>1 DEF Places, Cfgs
  <2>6. RootInd'
    BY <2>1, <2>5 DEF RootInd, Compared, TopPlaces, RootPlaces
  <2>7. KeptInd' /\ OneOfAName'
    BY <1>0, <2>1, <2>2 DEF KeptInd, Kept, OneOfAName
  <2> QED
    BY <2>3, <2>4, <2>6, <2>7 DEF AppInd
<1> QED
  BY <1>1, <1>2

(* What the comparison leaves alone. *)
LEMMA CompareQuiet ==
    ASSUME AppInd, apc \in {"diff", "subentries", "create"}, apc' \in {"diff", "subentries", "create"},
           UNCHANGED <<target, settings, running, glState, before, asked, again, broken>>
    PROVE  /\ ProperInd' /\ PhaseInd' /\ KeptInd' /\ OneOfAName' /\ RunsWhatIsInForce'
           /\ Places' = Places /\ TopPlaces' = TopPlaces /\ Wanted' = Wanted /\ Cfgs' = Cfgs
           /\ \A i : At(i)' = At(i)
           /\ \A S : Hung(S) => Hung(S)'
<1>1. ProperInd /\ PhaseInd /\ KeptInd /\ OneOfAName
  BY DEF AppInd
<1>2. ProperInd' /\ PhaseInd' /\ RunsWhatIsInForce'
  BY <1>1 DEF ProperInd, PhaseInd, RunsWhatIsInForce
<1>3. KeptInd' /\ OneOfAName'
  BY <1>1 DEF KeptInd, Kept, OneOfAName
<1>4. /\ Places' = Places /\ TopPlaces' = TopPlaces /\ Wanted' = Wanted /\ Cfgs' = Cfgs
      /\ \A i : At(i)' = At(i)
  BY DEF Places, TopPlaces, Wanted, Cfgs, At
<1>5. \A S : Hung(S) => Hung(S)'
  BY <1>4 DEF Hung
<1> QED
  BY <1>2, <1>3, <1>4, <1>5

(* A root is taken: nothing outside what is left refers to it. *)
LEMMA FindRootInd == AppInd /\ FindRoot => AppInd'
<1> SUFFICES ASSUME AppInd, FindRoot PROVE AppInd'
  OBVIOUS
<1>0. apc = "diff"
  BY DEF FindRoot
<1>1. CASE Throw
  BY <1>0, <1>1, ThrowInd
<1>2. CASE ~ Throw
  <2>1. PICK i \in RootsLeft :
            /\ tree' = <<i>> /\ pending' = At(i).failovers /\ newEp' = newEp \ {i}
            /\ apc' = "subentries"
            /\ UNCHANGED <<target, settings, running, toDelete, toCreate, glState, before, asked,
                           again, broken>>
    BY <1>2 DEF FindRoot, signalVars
  <2>2. /\ ProperInd' /\ PhaseInd' /\ KeptInd' /\ OneOfAName' /\ RunsWhatIsInForce'
        /\ Places' = Places /\ TopPlaces' = TopPlaces /\ Cfgs' = Cfgs
        /\ \A k : At(k)' = At(k)
        /\ \A S : Hung(S) => Hung(S)'
    BY <1>0, <2>1, CompareQuiet
  <2>3. /\ ProperInd /\ ListInd /\ newEp \subseteq Places
        /\ \A j \in Places \ newEp : \A k \in newEp : ~ Refers(At(j), At(k).name)
        /\ Compared(TopPlaces \ newEp)
    BY <1>0 DEF AppInd, RootInd
  <2>4. i \in newEp /\ i \in Places /\ \A j \in newEp : ~ Refers(At(j), At(i).name)
    BY <2>3 DEF RootsLeft, RootPlaces, At
  <2>5. i \in TopPlaces
    BY <2>3, <2>4 DEF TopPlaces, RootPlaces, At
  <2>6. At(i).failovers \in Seq(STRING) /\ i \in Nat
    BY <2>3, <2>4 DEF ProperInd, Proper, Places, At
  <2>7. tree' \in Seq(Nat) /\ tree' # <<>> /\ tree'[1] = i /\ ToSet(tree') = {i}
    BY <2>1, <2>6 DEF ToSet
  <2>8. \A name : Refers(At(i), name) <=> name \in ToSet(At(i).failovers)
    BY DEF Refers, ToSet
  <2>9. ListInd'
    BY <1>0, <2>1, <2>2, <2>3 DEF ListInd
  <2>10. Hung(ToSet(tree))'
    BY <2>2, <2>5, <2>7 DEF Hung
  <2>11. \A name \in ToSet(pending') : \E j \in ToSet(tree') : Refers(At(j)', name)
    BY <2>1, <2>2, <2>7, <2>8
  <2>12. \A j \in Places \ newEp' : \A k \in newEp' :
             Refers(At(j), At(k).name) => At(k).name \in ToSet(pending')
    BY <2>1, <2>3, <2>8
  <2>13. (TopPlaces \ newEp') \ {tree'[1]} = TopPlaces \ newEp
    BY <2>1, <2>4, <2>7
  <2>14. Compared((TopPlaces \ newEp) \ {tree[1]})'
    BY <2>1, <2>2, <2>3, <2>13 DEF Compared
  <2>15. TreeInd'
    BY <2>1, <2>2, <2>3, <2>4, <2>5, <2>6, <2>7, <2>10, <2>11, <2>12, <2>14 DEF TreeInd
  <2>16. RootInd' /\ CreateInd'
    BY <2>1 DEF RootInd, CreateInd
  <2> QED
    BY <2>2, <2>9, <2>15, <2>16 DEF AppInd
<1> QED
  BY <1>1, <1>2

(* The content of a queue is its head and the content of its tail. *)
LEMMA HeadAndTail ==
    ASSUME NEW S, NEW q \in Seq(S), q # <<>>
    PROVE  /\ Head(q) \in S /\ Tail(q) \in Seq(S)
           /\ \A e : e \in ToSet(q) <=> e = Head(q) \/ e \in ToSet(Tail(q))
<1>0. Tail(q) \in Seq(S)
  OBVIOUS
<1>1. PICK t \in Seq(S) : t = Tail(q)
  BY <1>0
<1>2. PICK n \in Nat : n = Len(q)
  OBVIOUS
<1>3. /\ n > 0 /\ Len(t) = n - 1 /\ Head(q) = q[1] /\ Head(q) \in S
      /\ \A i \in 1 .. n - 1 : t[i] = q[i + 1]
  BY <1>1, <1>2
<1>4. \A e : e \in ToSet(q) <=> \E i \in 1 .. n : e = q[i]
  BY <1>2, ToSetMember
<1>5. \A e : e \in ToSet(t) <=> \E i \in 1 .. n - 1 : e = t[i]
  BY <1>3, ToSetMember
<1>6. ASSUME NEW e, e \in ToSet(q) PROVE e = Head(q) \/ e \in ToSet(t)
  <2>1. PICK i \in 1 .. n : e = q[i]
    BY <1>4, <1>6
  <2>2. CASE i = 1
    BY <1>3, <2>1, <2>2
  <2>3. CASE i # 1
    <3>1. i - 1 \in 1 .. n - 1 /\ (i - 1) + 1 = i
      BY <2>3
    <3>2. e = t[i - 1]
      BY <1>3, <2>1, <3>1
    <3> QED
      BY <1>5, <3>1, <3>2
  <2> QED
    BY <2>2, <2>3
<1>7. ASSUME NEW e, e = Head(q) \/ e \in ToSet(t) PROVE e \in ToSet(q)
  <2>1. CASE e = Head(q)
    <3>1. 1 \in 1 .. n
      BY <1>3
    <3> QED
      BY <1>3, <1>4, <2>1, <3>1
  <2>2. CASE e \in ToSet(t)
    <3>1. PICK i \in 1 .. n - 1 : e = t[i]
      BY <1>5, <2>2
    <3>2. i + 1 \in 1 .. n
      OBVIOUS
    <3>3. e = q[i + 1]
      BY <1>3, <3>1
    <3> QED
      BY <1>4, <3>2, <3>3
  <2> QED
    BY <1>7, <2>1, <2>2
<1> QED
  BY <1>1, <1>3, <1>6, <1>7

(* A failover is taken: its name is only that of this entry, and it is no  *)
(* root.                                                                   *)
LEMMA FindSubentryInd == AppInd /\ FindSubentry => AppInd'
<1> SUFFICES ASSUME AppInd, FindSubentry PROVE AppInd'
  OBVIOUS
<1>0. apc = "subentries" /\ pending # <<>>
  BY DEF FindSubentry
<1>1. CASE Throw
  BY <1>0, <1>1, ThrowInd
<1>2. CASE ~ Throw
  <2>1. PICK i \in Named(target.endpoints, newEp, Head(pending)) :
            /\ tree' = Append(tree, i) /\ pending' = Tail(pending) \o At(i).failovers
            /\ newEp' = newEp \ {i}
            /\ UNCHANGED <<apc, target, settings, running, toDelete, toCreate, glState, before,
                           asked, again, broken>>
    BY <1>2 DEF FindSubentry, signalVars
  <2>2. /\ ProperInd' /\ PhaseInd' /\ KeptInd' /\ OneOfAName' /\ RunsWhatIsInForce'
        /\ Places' = Places /\ TopPlaces' = TopPlaces /\ Cfgs' = Cfgs
        /\ \A k : At(k)' = At(k)
        /\ \A S : Hung(S) => Hung(S)'
    BY <1>0, <2>1, CompareQuiet
  <2>3. /\ newEp \subseteq Places
        /\ tree \in Seq(Nat) /\ tree # <<>> /\ ToSet(tree) \subseteq Places \ newEp
        /\ tree[1] \in TopPlaces /\ Hung(ToSet(tree))
        /\ pending \in Seq(STRING)
        /\ \A name \in ToSet(pending) : \E j \in ToSet(tree) : Refers(At(j), name)
        /\ Compared((TopPlaces \ newEp) \ {tree[1]})
    BY <1>0 DEF AppInd, TreeInd
  <2>4. \A j \in Places \ newEp : \A k \in newEp :
             Refers(At(j), At(k).name) => At(k).name \in ToSet(pending)
    BY <1>0 DEF AppInd, TreeInd
  <2>5. ProperInd /\ ListInd
    BY DEF AppInd
  <2>6. i \in newEp /\ i \in Places /\ At(i).name = Head(pending)
    BY <2>1, <2>3 DEF Named, At
  <2>7. At(i).failovers \in Seq(STRING) /\ i \in Nat
    BY <2>5, <2>6 DEF ProperInd, Proper, Places, At
  <2>8. \A k \in Places : At(k).name = Head(pending) => k = i
    BY <2>5, <2>6 DEF ProperInd, Proper, Distinct, Places, At
  <2>9. /\ Tail(pending) \in Seq(STRING)
        /\ \A e : e \in ToSet(pending) <=> e = Head(pending) \/ e \in ToSet(Tail(pending))
    BY <1>0, <2>3, HeadAndTail
  <2>10. /\ pending' \in Seq(STRING)
         /\ ToSet(pending') = ToSet(Tail(pending)) \union ToSet(At(i).failovers)
    BY <2>1, <2>7, <2>9, ToSetUnion
  <2>11. /\ tree' \in Seq(Nat) /\ ToSet(tree') = ToSet(tree) \union {i}
         /\ tree' # <<>> /\ tree'[1] = tree[1]
    <3>1. /\ Len(tree) \in Nat /\ Len(tree) # 0
      BY <2>3
    <3>2. /\ tree' \in Seq(Nat) /\ Len(tree') = Len(tree) + 1
          /\ \A k \in 1 .. Len(tree) : tree'[k] = tree[k]
          /\ ToSet(tree') = ToSet(tree) \union {i}
      BY <2>1, <2>3, <2>7, ToSetAppend
    <3>3. 1 \in 1 .. Len(tree)
      BY <3>1
    <3> QED
      BY <3>1, <3>2, <3>3
  <2>12. \A name : Refers(At(i), name) <=> name \in ToSet(At(i).failovers)
    BY DEF Refers, ToSet
  <2>13. PICK r \in ToSet(tree) : Refers(At(r), At(i).name)
    BY <2>3, <2>6, <2>9
  <2>14. i \notin TopPlaces
    BY <2>3, <2>13 DEF TopPlaces, RootPlaces, At
  <2>15. ListInd'
    BY <1>0, <2>1, <2>2, <2>5 DEF ListInd
  <2>16. Hung(ToSet(tree) \union {i})
    BY <2>3, <2>13 DEF Hung
  <2>17. Hung(ToSet(tree))'
    <3>1. PICK S : S = ToSet(tree) \union {i}
      OBVIOUS
    <3>2. Hung(S)'
      BY <2>2, <2>16, <3>1
    <3> QED
      BY <2>11, <3>1, <3>2 DEF Hung
  <2>18. \A name \in ToSet(pending') : \E j \in ToSet(tree') : Refers(At(j)', name)
    <3> SUFFICES ASSUME NEW name \in ToSet(pending')
                 PROVE  \E j \in ToSet(tree') : Refers(At(j), name)
      BY <2>2
    <3>1. CASE name \in ToSet(Tail(pending))
      BY <2>3, <2>9, <2>11, <3>1
    <3>2. CASE name \in ToSet(At(i).failovers)
      BY <2>11, <2>12, <3>2
    <3> QED
      BY <2>10, <3>1, <3>2
  <2>19. \A j \in Places \ newEp' : \A k \in newEp' :
             Refers(At(j), At(k).name) => At(k).name \in ToSet(pending')
    <3> SUFFICES ASSUME NEW j \in Places, j \notin newEp', NEW k \in newEp',
                        Refers(At(j), At(k).name)
                 PROVE  At(k).name \in ToSet(pending')
      OBVIOUS
    <3>1. k \in newEp /\ k # i /\ k \in Places
      BY <2>1, <2>3
    <3>2. CASE j = i
      BY <2>10, <2>12, <3>2
    <3>3. CASE j # i
      <4>1. At(k).name \in ToSet(pending)
        BY <2>1, <2>4, <3>1, <3>3
      <4>2. At(k).name # Head(pending)
        BY <2>8, <3>1
      <4> QED
        BY <2>9, <2>10, <4>1, <4>2
    <3> QED
      BY <3>2, <3>3
  <2>20. (TopPlaces \ newEp') \ {tree'[1]} = (TopPlaces \ newEp) \ {tree[1]}
    BY <2>1, <2>11, <2>14
  <2>21. Compared((TopPlaces \ newEp) \ {tree[1]})'
    BY <2>1, <2>2, <2>3, <2>20 DEF Compared
  <2>22. newEp' \subseteq Places /\ ToSet(tree') \subseteq Places \ newEp'
    BY <2>1, <2>3, <2>6, <2>11
  <2>23. TreeInd'
    BY <2>2, <2>3, <2>10, <2>11, <2>17, <2>18, <2>19, <2>21, <2>22 DEF TreeInd
  <2>24. RootInd' /\ CreateInd'
    BY <1>0, <2>1 DEF RootInd, CreateInd
  <2> QED
    BY <2>2, <2>15, <2>23, <2>24 DEF AppInd
<1> QED
  BY <1>1, <1>2

(* The root is kept or is to be created with its tree. *)
LEMMA MatchRootInd == AppInd /\ MatchRoot => AppInd'
<1> SUFFICES ASSUME AppInd, MatchRoot PROVE AppInd'
  OBVIOUS
<1>0. apc = "subentries" /\ pending = <<>>
  BY DEF MatchRoot
<1>1. /\ apc' = "diff"
      /\ UNCHANGED <<target, settings, running, newEp, tree, glState, before, asked, again,
                     broken>>
  BY DEF MatchRoot, signalVars
<1>2. /\ ProperInd' /\ PhaseInd' /\ KeptInd' /\ OneOfAName' /\ RunsWhatIsInForce'
      /\ Places' = Places /\ TopPlaces' = TopPlaces /\ Cfgs' = Cfgs
      /\ \A k : At(k)' = At(k)
      /\ \A S : Hung(S) => Hung(S)'
  BY <1>0, <1>1, CompareQuiet
<1>3. /\ newEp \subseteq Places
      /\ tree \in Seq(Nat) /\ tree # <<>> /\ ToSet(tree) \subseteq Places \ newEp
      /\ tree[1] \in TopPlaces /\ Hung(ToSet(tree))
      /\ Compared((TopPlaces \ newEp) \ {tree[1]})
  BY <1>0 DEF AppInd, TreeInd
<1>4. \A j \in Places \ newEp : \A k \in newEp : ~ Refers(At(j), At(k).name)
  <2>1. \A j \in Places \ newEp : \A k \in newEp :
             Refers(At(j), At(k).name) => At(k).name \in ToSet(pending)
    BY <1>0 DEF AppInd, TreeInd
  <2> QED
    BY <1>0, <2>1, ToSetEmpty
<1>5. /\ toCreate \in Seq(Nat) /\ ToSet(toCreate) \subseteq Places /\ Hung(ToSet(toCreate))
  BY <1>0 DEF AppInd, ListInd
<1>6. PICK t \in Nat : t = tree[1] /\ t \in ToSet(tree)
  <2>1. 1 \in 1 .. Len(tree) /\ tree[1] \in Nat
    BY <1>3
  <2> QED
    BY <1>3, <2>1, ToSetMember
<1>7. /\ TopPlaces \ newEp = ((TopPlaces \ newEp) \ {tree[1]}) \union {t}
      /\ tree[1] = t
  BY <1>3, <1>6
<1>8. PICK S : S = (TopPlaces \ newEp) \ {tree[1]}
  OBVIOUS
<1>9. /\ toDelete \subseteq Cfgs
      /\ Cfgs \subseteq toDelete \union {At(k) : k \in S}
      /\ \A k \in S : At(k) \notin toDelete /\ (At(k) \in Cfgs \/ k \in ToSet(toCreate))
      /\ TopPlaces \ newEp = S \union {t}
  BY <1>3, <1>7, <1>8 DEF Compared
<1>10. CASE FindRunning(At(tree[1]))
  <2>1. toDelete' = toDelete \ {At(t)} /\ toCreate' = toCreate /\ At(t) \in Cfgs
    BY <1>7, <1>10 DEF MatchRoot, FindRunning
  <2>2. ListInd'
    BY <1>2, <1>5, <2>1 DEF ListInd
  <2>3. Compared(TopPlaces \ newEp)'
    BY <1>1, <1>2, <1>9, <2>1 DEF Compared
  <2>4. RootInd'
    BY <1>1, <1>2, <1>3, <1>4, <2>3 DEF RootInd
  <2> QED
    BY <1>1, <1>2, <2>2, <2>4 DEF AppInd, TreeInd, CreateInd
<1>11. CASE ~ FindRunning(At(tree[1]))
  <2>1. toDelete' = toDelete /\ toCreate' = toCreate \o tree /\ At(t) \notin Cfgs
    BY <1>7, <1>11 DEF MatchRoot, FindRunning
  <2>2. toCreate' \in Seq(Nat) /\ ToSet(toCreate') = ToSet(toCreate) \union ToSet(tree)
    BY <1>3, <1>5, <2>1, ToSetUnion
  <2>3. Hung(ToSet(toCreate))'
    <3>1. Hung(ToSet(toCreate) \union ToSet(tree))
      BY <1>3, <1>5 DEF Hung
    <3>2. PICK U : U = ToSet(toCreate) \union ToSet(tree)
      OBVIOUS
    <3>3. Hung(U)'
      BY <1>2, <3>1, <3>2
    <3> QED
      BY <2>2, <3>2, <3>3 DEF Hung
  <2>4. ListInd'
    BY <1>2, <1>3, <1>5, <2>2, <2>3 DEF ListInd
  <2>5. Compared(TopPlaces \ newEp)'
    BY <1>1, <1>2, <1>6, <1>9, <2>1, <2>2 DEF Compared
  <2>6. RootInd'
    BY <1>1, <1>2, <1>3, <1>4, <2>5 DEF RootInd
  <2> QED
    BY <1>1, <1>2, <2>4, <2>6 DEF AppInd, TreeInd, CreateInd
<1> QED
  BY <1>10, <1>11

(* What is stopped is not asked for by the configuration being applied. *)
LEMMA RemoveEndpointInd == \A cfg \in toDelete : AppInd /\ RemoveEndpoint(cfg) => AppInd'
<1> SUFFICES ASSUME NEW cfg \in toDelete, AppInd, RemoveEndpoint(cfg) PROVE AppInd'
  OBVIOUS
<1>1. /\ apc = "diff" /\ newEp = {}
      /\ running' = {o \in running : o.cfg # cfg} /\ toDelete' = toDelete \ {cfg}
      /\ UNCHANGED <<apc, target, settings, newEp, tree, pending, toCreate, glState, before,
                     asked, again, broken>>
  BY DEF RemoveEndpoint, signalVars
<1>2. /\ ProperInd /\ PhaseInd /\ ListInd /\ RootInd /\ KeptInd /\ OneOfAName
      /\ Compared(TopPlaces \ newEp)
  BY <1>1 DEF AppInd, RootInd
<1>3. TopPlaces \ newEp = TopPlaces
  BY <1>1
<1>4. /\ toDelete \subseteq Cfgs
      /\ Cfgs \subseteq toDelete \union {At(k) : k \in TopPlaces}
      /\ \A k \in TopPlaces : At(k) \notin toDelete /\ (At(k) \in Cfgs \/ k \in ToSet(toCreate))
  BY <1>2, <1>3 DEF Compared
<1>5. /\ Places' = Places /\ TopPlaces' = TopPlaces /\ \A k : At(k)' = At(k)
  BY <1>1 DEF Places, TopPlaces, At
<1>6. Cfgs' = Cfgs \ {cfg}
  BY <1>1 DEF Cfgs
<1>7. ProperInd' /\ PhaseInd' /\ ListInd' /\ TreeInd' /\ CreateInd' /\ RunsWhatIsInForce'
  <2>1. ListInd'
    BY <1>1, <1>2, <1>5 DEF ListInd, Hung
  <2> QED
    BY <1>1, <1>2, <2>1 DEF ProperInd, PhaseInd, TreeInd, CreateInd, RunsWhatIsInForce
<1>8. RootInd'
  <2>1. Compared(TopPlaces \ newEp)'
    BY <1>1, <1>3, <1>4, <1>5, <1>6 DEF Compared
  <2> QED
    BY <1>1, <1>2, <1>5, <2>1 DEF RootInd
<1>9. OneOfAName'
  BY <1>1, <1>2 DEF OneOfAName
<1>10. cfg \notin Wanted
  BY <1>4 DEF Wanted, Roots, TopPlaces, Places, At
<1>11. \A S : Kept(S) /\ cfg \notin S => Kept(S)'
  BY <1>1 DEF Kept
<1>12. KeptInd'
  <2>1. PICK A, B : A = before \intersect Roots(asked.endpoints) \intersect Roots(glState.endpoints)
                    /\ B = before \intersect Roots(asked.endpoints)
    OBVIOUS
  <2>2. CASE again
    <3>1. target = glState /\ Kept(A)
      BY <1>1, <1>2, <2>1, <2>2 DEF PhaseInd, KeptInd
    <3>2. cfg \notin A
      BY <1>10, <2>1, <3>1 DEF Wanted
    <3>3. Kept(A)'
      BY <1>11, <3>1, <3>2
    <3> QED
      BY <1>1, <2>1, <2>2, <3>3 DEF KeptInd, Kept
  <2>3. CASE ~ again
    <3>1. target = asked /\ Kept(B)
      BY <1>1, <1>2, <2>1, <2>3 DEF PhaseInd, KeptInd
    <3>2. cfg \notin B
      BY <1>10, <2>1, <3>1 DEF Wanted
    <3>3. Kept(B)'
      BY <1>11, <3>1, <3>2
    <3> QED
      BY <1>1, <2>1, <2>3, <3>3 DEF KeptInd, Kept
  <2> QED
    BY <2>2, <2>3
<1> QED
  BY <1>7, <1>8, <1>9, <1>12 DEF AppInd

(* What runs when the comparison is over is asked for. *)
LEMMA UpdateInd == AppInd /\ Update => AppInd'
<1> SUFFICES ASSUME AppInd, Update PROVE AppInd'
  OBVIOUS
<1>1. /\ apc = "diff" /\ newEp = {} /\ toDelete = {} /\ apc' = "create"
      /\ UNCHANGED <<target, settings, running, newEp, tree, pending, toDelete, toCreate,
                     glState, before, asked, again, broken>>
  BY DEF Update, signalVars, diffVars
<1>2. /\ ProperInd' /\ PhaseInd' /\ KeptInd' /\ OneOfAName' /\ RunsWhatIsInForce'
      /\ Places' = Places /\ TopPlaces' = TopPlaces /\ Cfgs' = Cfgs /\ Wanted' = Wanted
      /\ \A k : At(k)' = At(k)
      /\ \A S : Hung(S) => Hung(S)'
  BY <1>1, CompareQuiet
<1>3. ListInd /\ Compared(TopPlaces \ newEp) /\ TopPlaces \ newEp = TopPlaces
  BY <1>1 DEF AppInd, RootInd
<1>4. Wanted = {At(k) : k \in TopPlaces}
  BY DEF Wanted, Roots, TopPlaces, Places, At
<1>5. /\ Cfgs \subseteq Wanted
      /\ \A k \in TopPlaces : At(k) \in Cfgs \/ k \in ToSet(toCreate)
  BY <1>1, <1>3, <1>4 DEF Compared
<1>6. ListInd'
  BY <1>1, <1>2, <1>3 DEF ListInd
<1>7. CreateInd'
  BY <1>1, <1>2, <1>5 DEF CreateInd
<1>8. RootInd' /\ TreeInd'
  BY <1>1 DEF RootInd, TreeInd
<1> QED
  BY <1>2, <1>6, <1>7, <1>8 DEF AppInd

(* What is created is a root of the whole list, under a name that does     *)
(* not run.                                                                *)
LEMMA CreateStepInd == AppInd /\ Create => AppInd'
<1> SUFFICES ASSUME AppInd, Create PROVE AppInd'
  OBVIOUS
<1>0. apc = "create"
  BY DEF Create
<1>1. CASE Throw
  BY <1>0, <1>1, ThrowInd
<1>2. CASE ~ Throw
  <2>1. PICK i \in NextToCreate : \E ch :
            /\ running' = running \union {Object(At(i), TRUE, ch)}
            /\ UNCHANGED <<apc, target, settings, newEp, tree, pending, toDelete, toCreate,
                           glState, before, asked, again, broken>>
    BY <1>2 DEF Create, signalVars, diffVars
  <2>2. PICK o : /\ o.cfg = At(i) /\ running' = running \union {o}
    <3>1. PICK ch : running' = running \union {Object(At(i), TRUE, ch)}
      BY <2>1
    <3>2. Object(At(i), TRUE, ch).cfg = At(i)
      BY DEF Object
    <3> QED
      BY <3>1, <3>2
  <2>3. /\ ProperInd /\ PhaseInd /\ ListInd /\ CreateInd /\ KeptInd /\ OneOfAName
    BY DEF AppInd
  <2>4. i \in Uncreated
    BY <2>1 DEF NextToCreate
  <2>5. i \in ToSet(toCreate) /\ At(i) \notin Cfgs /\ \A j \in ToSet(toCreate) : ~ Refers(At(j), At(i).name)
    BY <2>4 DEF Uncreated, RootPlaces, At
  <2>6. i \in TopPlaces /\ i \in Places
    BY <1>0, <2>3, <2>5 DEF ListInd, Hung
  <2>7. At(i) \in Wanted
    BY <2>6 DEF Wanted, Roots, TopPlaces, Places, At
  <2>8. Cfgs' = Cfgs \union {At(i)}
    BY <2>2 DEF Cfgs
  <2>9. /\ Places' = Places /\ TopPlaces' = TopPlaces /\ Wanted' = Wanted /\ \A k : At(k)' = At(k)
    BY <2>1 DEF Places, TopPlaces, Wanted, At
  <2>10. ListInd'
    BY <2>1, <2>3, <2>9 DEF ListInd, Hung
  <2>11. CreateInd'
    BY <1>0, <2>1, <2>3, <2>7, <2>8, <2>9 DEF CreateInd
  <2>12. ProperInd' /\ PhaseInd' /\ RootInd' /\ TreeInd' /\ RunsWhatIsInForce'
    BY <1>0, <2>1, <2>3 DEF ProperInd, PhaseInd, RootInd, TreeInd, RunsWhatIsInForce
  <2>13. \A p \in running : p.cfg.name # At(i).name
    <3> SUFFICES ASSUME NEW p \in running, p.cfg.name = At(i).name PROVE FALSE
      OBVIOUS
    <3>1. p.cfg \in Cfgs
      BY DEF Cfgs
    <3>2. PICK j \in TopPlaces : p.cfg = At(j)
      BY <1>0, <2>3, <3>1 DEF CreateInd, Wanted, Roots, TopPlaces, Places, At
    <3>3. j \in Places
      BY <3>2 DEF TopPlaces, RootPlaces
    <3>4. j = i
      BY <2>3, <2>6, <3>2, <3>3 DEF ProperInd, Proper, Distinct, Places, At
    <3> QED
      BY <2>5, <3>1, <3>2, <3>4
  <2>14. OneOfAName'
    BY <2>2, <2>3, <2>13 DEF OneOfAName
  <2>15. KeptInd'
    <3>1. \A S : Kept(S) => Kept(S)'
      BY <2>2 DEF Kept
    <3>2. PICK A, B : A = before \intersect Roots(asked.endpoints) \intersect Roots(glState.endpoints)
                      /\ B = before \intersect Roots(asked.endpoints)
      OBVIOUS
    <3>3. (again => Kept(A)) /\ (~ again => Kept(B))
      BY <1>0, <2>3, <3>2 DEF KeptInd
    <3>4. CASE again
      <4>1. Kept(A)'
        BY <3>1, <3>3, <3>4
      <4> QED
        BY <2>1, <3>2, <3>4, <4>1 DEF KeptInd, Kept
    <3>5. CASE ~ again
      <4>1. Kept(B)'
        BY <3>1, <3>3, <3>5
      <4> QED
        BY <2>1, <3>2, <3>5, <4>1 DEF KeptInd, Kept
    <3> QED
      BY <3>4, <3>5
  <2> QED
    BY <2>10, <2>11, <2>12, <2>14, <2>15 DEF AppInd
<1> QED
  BY <1>1, <1>2

(* When there is nothing left to create, all roots run. *)
LEMMA AppliedInd == AppInd /\ Applied => AppInd'
<1> SUFFICES ASSUME AppInd, Applied PROVE AppInd'
  OBVIOUS
<1>1. /\ apc = "create" /\ Uncreated = {} /\ apc' = "idle" /\ broken' = FALSE
      /\ glState' = IF again THEN glState ELSE target
      /\ UNCHANGED <<target, settings, running, before, asked, again>>
  BY DEF Applied
<1>2. /\ ProperInd /\ PhaseInd /\ ListInd /\ CreateInd /\ KeptInd /\ OneOfAName
  BY DEF AppInd
<1>3. glState' = target
  BY <1>1, <1>2 DEF PhaseInd
<1>4. Wanted = {At(k) : k \in TopPlaces}
  BY DEF Wanted, Roots, TopPlaces, Places, At
<1>5. ASSUME NEW k \in TopPlaces PROVE At(k) \in Cfgs
  <2> SUFFICES ASSUME k \in ToSet(toCreate) PROVE At(k) \in Cfgs
    BY <1>1, <1>2 DEF CreateInd
  <2>1. k \in RootPlaces(target.endpoints, ToSet(toCreate))
    BY <1>1, <1>2 DEF ListInd, TopPlaces, RootPlaces, Places
  <2> QED
    BY <1>1, <2>1 DEF Uncreated
<1>6. Cfgs = Wanted
  BY <1>1, <1>2, <1>4, <1>5 DEF CreateInd
<1>7. RunsWhatIsInForce'
  BY <1>1, <1>2, <1>3, <1>6 DEF RunsWhatIsInForce, PhaseInd, Cfgs, Wanted
<1>8. ProperInd'
  BY <1>1, <1>2, <1>3 DEF ProperInd
<1>9. PhaseInd' /\ ListInd' /\ RootInd' /\ TreeInd' /\ CreateInd'
  BY <1>1 DEF PhaseInd, ListInd, RootInd, TreeInd, CreateInd
<1>10. KeptInd' /\ OneOfAName'
  BY <1>1, <1>2 DEF KeptInd, Kept, OneOfAName
<1> QED
  BY <1>7, <1>8, <1>9, <1>10 DEF AppInd

(* SIGTERM ends the process, or stops its main thread for good. *)
LEMMA TermHandlerInd == AppInd /\ TermHandler => AppInd'
<1> SUFFICES ASSUME AppInd, TermHandler PROVE AppInd'
  OBVIOUS
<1>1. /\ UNCHANGED <<target, settings, newEp, tree, pending, toDelete, toCreate, glState, before,
                     asked, again, broken>>
      /\ \/ apc' = "stuck" /\ running' = running
         \/ apc' = "ended" /\ running' = {}
      /\ apc # "ended"
  BY DEF TermHandler, Discard, signalVars, diffVars
<1>2. ProperInd /\ KeptInd /\ OneOfAName
  BY DEF AppInd
<1>3. ProperInd' /\ PhaseInd' /\ ListInd' /\ RootInd' /\ TreeInd' /\ CreateInd'
      /\ RunsWhatIsInForce'
  BY <1>1, <1>2 DEF ProperInd, PhaseInd, ListInd, RootInd, TreeInd, CreateInd,
     RunsWhatIsInForce
<1>4. KeptInd' /\ OneOfAName'
  BY <1>1, <1>2 DEF KeptInd, Kept, OneOfAName
<1> QED
  BY <1>3, <1>4 DEF AppInd

(* A step that changes nothing. *)
LEMMA ApplierQuiet == AppInd /\ UNCHANGED applierVars => AppInd'
<1> SUFFICES ASSUME AppInd, UNCHANGED applierVars PROVE AppInd'
  OBVIOUS
<1>1. /\ UNCHANGED <<apc, target, settings, running, newEp, tree, pending, toDelete, toCreate,
                     glState, before, asked, again, broken>>
  BY DEF applierVars, signalVars, diffVars
<1>2. ProperInd' /\ PhaseInd'
  BY <1>1 DEF AppInd, ProperInd, PhaseInd
<1>9. RunsWhatIsInForce'
  BY <1>1 DEF AppInd, RunsWhatIsInForce, Cfgs
<1>3. KeptInd' /\ OneOfAName'
  BY <1>1 DEF AppInd, KeptInd, Kept, OneOfAName
<1>4. /\ Places' = Places /\ TopPlaces' = TopPlaces /\ Wanted' = Wanted /\ Cfgs' = Cfgs
      /\ \A k : At(k)' = At(k)
  BY <1>1 DEF Places, TopPlaces, Wanted, Cfgs, At
<1>5. ListInd'
  BY <1>1, <1>4 DEF AppInd, ListInd, Hung
<1>6. RootInd'
  BY <1>1, <1>4 DEF AppInd, RootInd, Compared
<1>7. TreeInd'
  BY <1>1, <1>4 DEF AppInd, TreeInd, Hung, Compared
<1>8. CreateInd'
  BY <1>1, <1>4 DEF AppInd, CreateInd
<1> QED
  BY <1>2, <1>3, <1>5, <1>6, <1>7, <1>8, <1>9 DEF AppInd

(* Every step keeps the invariant. *)
LEMMA ApplierStepInd == AppInd /\ [ApplierNext]_applierVars => AppInd'
<1> SUFFICES ASSUME AppInd, [ApplierNext]_applierVars PROVE AppInd'
  OBVIOUS
<1>1. ASSUME NEW c \in Configurations, FirstApply(c) PROVE AppInd'
  BY <1>1, FirstApplyInd
<1>2. ASSUME NEW c \in Configurations, HupHandler(c) PROVE AppInd'
  BY <1>2, HupHandlerInd
<1>3. ASSUME NEW cfg \in toDelete, RemoveEndpoint(cfg) PROVE AppInd'
  BY <1>3, RemoveEndpointInd
<1>4. CASE CreationFails
  BY <1>4, ThrowInd DEF CreationFails
<1>5. CASE StateApply \/ FindRoot \/ FindSubentry \/ MatchRoot \/ Update \/ Create \/ Applied
           \/ TermHandler
  BY <1>5, StateApplyInd, FindRootInd, FindSubentryInd, MatchRootInd, UpdateInd, CreateStepInd,
     AppliedInd, TermHandlerInd
<1>6. CASE UNCHANGED applierVars
  BY <1>6, ApplierQuiet
<1> QED
  BY <1>1, <1>2, <1>3, <1>4, <1>5, <1>6 DEF ApplierNext, ApplierStep

(* The invariant of the run follows. *)
LEMMA AppliedFromInd == AppInd => AppliedInv
<1> SUFFICES ASSUME AppInd PROVE AppliedInv
  OBVIOUS
<1>1. KeptInd /\ OneOfAName /\ RunsWhatIsInForce
  BY DEF AppInd
<1>2. KeptUntouched
  <2> SUFFICES ASSUME apc # "ended",
                      NEW cfg \in before \intersect Roots(asked.endpoints)
                                         \intersect Roots(glState.endpoints)
               PROVE  \E o \in running : o.cfg = cfg /\ ~o.fresh
    BY DEF KeptUntouched
  <2>1. CASE again
    BY <1>1, <2>1 DEF KeptInd, Kept
  <2>2. CASE ~ again
    BY <1>1, <2>2 DEF KeptInd, Kept
  <2> QED
    BY <2>1, <2>2
<1> QED
  BY <1>1, <1>2 DEF AppliedInv

(* For any configurations whose names are distinct, any number of reloads  *)
(* and wherever they throw, no two running endpoints share a name; after   *)
(* a reload exactly the roots of the configuration in force run, under     *)
(* its settings; and an endpoint that the old configuration and the new    *)
(* one both ask for is never stopped, also if the new one is refused       *)
(* halfway and undone (endpoint::apply, _diff_endpoints, hup_handler).     *)
THEOREM AppliedCorrect == ApplierSpec => []AppliedInv
<1>1. AppInd /\ [ApplierNext]_applierVars => AppInd'
  BY ApplierStepInd
<1> QED
  BY AppInits, <1>1, AppliedFromInd, PTL DEF ApplierSpec

=============================================================================
