----------------------------- MODULE LinkProofs -----------------------------
(***************************************************************************)
(* Theorems about the connection between two brokers.                      *)
(*                                                                         *)
(* tcp::tcp_connection, for any number of vectors, blocks, threads of the  *)
(* pool and waiting handlers: the invariants WriterInv and ReaderInv of    *)
(* TcpConnection.  What the properties lack to be inductive: on the write  *)
(* side, that _write_queue_has_events tells the truth about _write_queue   *)
(* whoever writes it, that what is sent is in that queue, and that a       *)
(* client never takes more acknowledgements than there are; on the read    *)
(* side, that without a doubled start at most one read is outstanding or   *)
(* waits for its handler, and none after an error.                         *)
(*                                                                         *)
(* The acknowledgement of events by bbdo::stream, for any limits, any      *)
(* number of events and of broken connections.  The counts on the wire     *)
(* name no event, so the inductive invariant says which events they stand  *)
(* for: the muxer, its queue file and the packets on their way hold        *)
(* consecutive numbers, the events below those packets have been received  *)
(* or cannot be decoded, and all the counts together reach exactly from    *)
(* the first event of the muxer to them.                                   *)
(*                                                                         *)
(* The negotiation of layers between two such streams is the last section. *)
(***************************************************************************)
EXTENDS TcpConnection, BbdoLink, BbdoNegotiation, QueueLemmas, FiniteSetTheorems

-----------------------------------------------------------------------------
(* The write side. *)

(* One slot at most is not idle, and one is as long as _writing is set. *)
Alone(s) == task[s] # "none" /\ \A r \in Slots : r # s => task[r] = "none"
OneTask == IF writing THEN \E s \in Slots : Alone(s)
           ELSE \A s \in Slots : task[s] = "none"

(* What _write_queue holds and the socket has not taken. *)
Popping == \E s \in Slots : task[s] = "pop"
Unsent == IF Popping THEN Tail(outQueue) ELSE outQueue

InOrder ==
    /\ Follows(wire, 0)
    /\ Follows(Unsent, Len(wire))
    /\ Follows(outExposed, Len(wire) + Len(Unsent))
    /\ Len(wire) + Len(Unsent) + Len(outExposed) = pushed

WriterInd ==
    /\ W!TypeOK
    /\ OneTask
    /\ has <=> outQueue # <<>>
    /\ \A s \in Slots : task[s] \in {"send", "pop"} => has
    /\ InOrder
    /\ acks + acked = Len(wire)
    /\ retval <= acks
    /\ writer = "push" => pushed < MaxVectors
    /\ error => broken

(* The queues between write() and the socket are well typed and never      *)
(* longer than what was pushed.                                            *)
LEMMA UnsentType ==
    ASSUME W!TypeOK, \A s \in Slots : task[s] \in {"send", "pop"} => has,
           has <=> outQueue # <<>>
    PROVE  Unsent \in Seq(1 .. MaxVectors)
  <1>1. outQueue \in Seq(1 .. MaxVectors)
    BY DEF W!TypeOK, W!Vector
  <1>2. CASE Popping
    <2>1. outQueue # <<>>
      BY <1>2 DEF Popping
    <2> QED BY <1>1, <1>2, <2>1 DEF Unsent
  <1>3. CASE ~Popping
    BY <1>1, <1>3 DEF Unsent
  <1> QED BY <1>2, <1>3

(* Before the first call. *)
LEMMA WriterIndInit == W!Init => WriterInd
  <1> SUFFICES ASSUME W!Init PROVE WriterInd
    OBVIOUS
  <1>0. has \in BOOLEAN /\ writing \in BOOLEAN /\ error \in BOOLEAN /\ broken \in BOOLEAN
    BY Zenon DEF W!Init
  <1>1. W!TypeOK
    BY <1>0, TcpAssumption DEF W!Init, W!TypeOK, W!Vector
  <1>2. OneTask /\ ~Popping /\ \A s \in Slots : task[s] = "none"
    BY DEF W!Init, OneTask, Popping
  <1>3. InOrder
    BY <1>2, FollowsEmpty DEF W!Init, InOrder, Unsent
  <1> QED BY <1>1, <1>2, <1>3, TcpAssumption DEF W!Init, WriterInd

(* A step that leaves the write side alone, or only breaks the socket or   *)
(* takes the pending error.                                                *)
LEMMA WriterIndSame ==
    ASSUME WriterInd,
           UNCHANGED <<writer, retval, task, outExposed, outQueue, has, writing,
                       acks, wire, pushed, acked>>,
           error' \in BOOLEAN, broken' \in BOOLEAN, error' => broken'
    PROVE  WriterInd'
  <1>1. W!TypeOK'
    BY DEF WriterInd, W!TypeOK
  <1>2. OneTask' /\ InOrder'
    BY DEF WriterInd, OneTask, Alone, InOrder, Unsent, Popping
  <1> QED BY <1>1, <1>2 DEF WriterInd

(* The task that a thread of the pool runs is the only one. *)
LEMMA OnlyTask ==
    ASSUME WriterInd, NEW s \in Slots, task[s] # "none"
    PROVE  writing /\ Alone(s)
  BY DEF WriterInd, OneTask, Alone

(* Its step to another task, or to none. *)
LEMMA NextTask ==
    ASSUME WriterInd, NEW s \in Slots, task[s] # "none",
           NEW t \in {"none", "swap", "decide", "send", "pop"},
           task' = [task EXCEPT ![s] = t], writing' = (t # "none")
    PROVE  /\ OneTask'
           /\ task' \in [Slots -> {"none", "swap", "decide", "send", "pop"}]
           /\ Popping' <=> t = "pop"
           /\ Popping <=> task[s] = "pop"
           /\ \A r \in Slots : task'[r] # "none" => r = s
           /\ task'[s] = t
  <1>1. writing /\ Alone(s)
    BY OnlyTask
  <1>2. task \in [Slots -> {"none", "swap", "decide", "send", "pop"}]
    BY DEF WriterInd, W!TypeOK
  <1>3. /\ task' \in [Slots -> {"none", "swap", "decide", "send", "pop"}]
        /\ task'[s] = t /\ \A r \in Slots : r # s => task'[r] = "none"
    BY <1>1, <1>2 DEF Alone
  <1>4. OneTask'
    BY <1>3 DEF OneTask, Alone
  <1> QED BY <1>1, <1>3, <1>4 DEF Popping, Alone

(* A task is posted when there is none. *)
LEMMA PostedTask ==
    ASSUME WriterInd, ~writing, W!PostWriting
    PROVE  /\ OneTask'
           /\ task' \in [Slots -> {"none", "swap", "decide", "send", "pop"}]
           /\ writing' = TRUE
           /\ ~Popping /\ ~Popping'
           /\ \A s \in Slots : task'[s] \notin {"send", "pop"}
  <1>1. \A s \in Slots : task[s] = "none"
    BY DEF WriterInd, OneTask
  <1>2. PICK s \in Slots : task' = [task EXCEPT ![s] = "swap"]
    BY DEF W!PostWriting, W!Idle
  <1>3. task \in [Slots -> {"none", "swap", "decide", "send", "pop"}]
    BY DEF WriterInd, W!TypeOK
  <1>4. /\ task' \in [Slots -> {"none", "swap", "decide", "send", "pop"}]
        /\ task'[s] = "swap" /\ \A r \in Slots : r # s => task'[r] = "none"
    BY <1>1, <1>2, <1>3
  <1>5. writing' = TRUE
    BY DEF W!PostWriting
  <1>6. OneTask'
    BY <1>4, <1>5 DEF OneTask, Alone
  <1> QED BY <1>1, <1>4, <1>5, <1>6 DEF Popping

(* write() pushes a vector. *)
LEMMA WritePushInd == ASSUME WriterInd, W!WritePush PROVE WriterInd'
  <1> USE TcpAssumption DEF W!Vector
  <1>1. /\ pushed' = pushed + 1 /\ outExposed' = Append(outExposed, pushed + 1)
        /\ pushed + 1 \in 1 .. MaxVectors
        /\ writer' = "kick"
        /\ UNCHANGED <<retval, task, outQueue, has, writing, acks, error, broken,
                       wire, acked>>
    BY DEF W!WritePush, WriterInd, W!TypeOK
  <1>2. Unsent' = Unsent /\ Unsent \in Seq(1 .. MaxVectors) /\ OneTask'
    BY <1>1, UnsentType DEF WriterInd, Unsent, Popping, OneTask, Alone
  <1>3. Len(wire) + Len(Unsent) \in Nat /\ outExposed \in Seq(1 .. MaxVectors)
    BY <1>2 DEF WriterInd, W!TypeOK
  <1>4. /\ Follows(outExposed, Len(wire) + Len(Unsent))
        /\ pushed + 1 = Len(wire) + Len(Unsent) + Len(outExposed) + 1
    BY DEF WriterInd, InOrder
  <1>5. /\ Follows(outExposed', Len(wire) + Len(Unsent))
        /\ outExposed' \in Seq(1 .. MaxVectors) /\ Len(outExposed') = Len(outExposed) + 1
    BY <1>1, <1>3, <1>4, FollowsAppend
  <1>6. InOrder'
    BY <1>1, <1>2, <1>3, <1>4, <1>5 DEF InOrder, WriterInd
  <1>7. W!TypeOK'
    BY <1>1, <1>5 DEF WriterInd, W!TypeOK
  <1> QED BY <1>1, <1>2, <1>6, <1>7 DEF WriterInd

(* write() and flush() start the work, or leave it to the one that runs. *)
LEMMA KickInd ==
    ASSUME WriterInd, W!WriteKick \/ W!FlushRestart
    PROVE  WriterInd'
  <1>1. /\ UNCHANGED <<retval, outExposed, outQueue, has, acks, error, broken, wire,
                       pushed, acked>>
        /\ writer' \in {"load", "idle"}
    BY DEF W!WriteKick, W!FlushRestart
  <1>2. CASE ~writing /\ W!PostWriting
    <2>1. Unsent' = Unsent
      BY <1>1, <1>2, PostedTask DEF Unsent
    <2>2. InOrder'
      BY <1>1, <2>1 DEF WriterInd, InOrder
    <2>3. W!TypeOK'
      BY <1>1, <1>2, PostedTask DEF WriterInd, W!TypeOK
    <2> QED BY <1>1, <1>2, <2>2, <2>3, PostedTask DEF WriterInd
  <1>3. CASE writing /\ UNCHANGED <<writing, task>>
    <2>1. OneTask' /\ InOrder'
      BY <1>1, <1>3 DEF WriterInd, OneTask, Alone, InOrder, Unsent, Popping
    <2>2. W!TypeOK'
      BY <1>1, <1>3 DEF WriterInd, W!TypeOK
    <2> QED BY <1>1, <1>3, <2>1, <2>2 DEF WriterInd
  <1> QED BY <1>2, <1>3 DEF W!WriteKick, W!FlushRestart

(* The other steps of the client: they touch its place and the counters. *)
LEMMA ClientInd ==
    ASSUME WriterInd,
           \/ W!WriteCall \/ W!FlushCall \/ W!LoadAcks \/ W!TakeAcks
           \/ W!FlushTest \/ W!FlushStatus \/ W!ThrowError
    PROVE  WriterInd'
  <1> USE TcpAssumption DEF W!Vector
  <1>1. UNCHANGED <<task, outExposed, outQueue, has, writing, broken, wire, pushed>>
    BY DEF W!WriteCall, W!FlushCall, W!LoadAcks, W!TakeAcks, W!FlushTest,
           W!FlushStatus, W!ThrowError
  <1>2. OneTask' /\ InOrder'
    BY <1>1 DEF WriterInd, OneTask, Alone, InOrder, Unsent, Popping
  <1>3. /\ acks' + acked' = Len(wire') /\ retval' <= acks'
        /\ acks' \in 0 .. MaxVectors /\ acked' \in 0 .. MaxVectors
        /\ retval' \in 0 .. MaxVectors
    <2>1. Len(wire) <= MaxVectors
      <3>1. Len(wire) \in Nat /\ Len(outExposed) \in Nat /\ pushed <= MaxVectors
        BY DEF WriterInd, W!TypeOK
      <3>2. Len(Unsent) \in Nat
        BY UnsentType DEF WriterInd
      <3> QED BY <3>1, <3>2 DEF WriterInd, InOrder, W!TypeOK
    <2>2. CASE W!TakeAcks
      <3>1. /\ acks' = acks - retval /\ acked' = acked + retval /\ retval' = 0
            /\ wire' = wire /\ acks + acked = Len(wire) /\ retval <= acks
            /\ acks \in Nat /\ acked \in Nat /\ retval \in Nat
        BY <1>1, <2>2 DEF WriterInd, W!TypeOK, W!TakeAcks
      <3> QED BY <2>1, <3>1
    <2>3. CASE W!LoadAcks \/ W!FlushCall
      BY <1>1, <2>3 DEF WriterInd, W!TypeOK, W!LoadAcks, W!FlushCall
    <2>4. CASE W!WriteCall \/ W!FlushTest \/ W!FlushStatus \/ W!ThrowError
      BY <1>1, <2>4 DEF WriterInd, W!TypeOK, W!WriteCall, W!FlushTest,
                        W!FlushStatus, W!ThrowError
    <2> QED BY <2>2, <2>3, <2>4
  <1>4. (error' = error \/ error' = FALSE) /\ error \in BOOLEAN
    BY DEF WriterInd, W!TypeOK, W!WriteCall, W!FlushCall, W!LoadAcks, W!TakeAcks,
           W!FlushTest, W!FlushStatus, W!ThrowError
  <1>5. error' \in BOOLEAN /\ (error' => error)
    <2>1. CASE error' = error
      BY <1>4, <2>1
    <2>2. CASE error' = FALSE
      BY <2>2
    <2> QED BY <1>4, <2>1, <2>2
  <1>6. /\ writer' \in {"idle", "push", "kick", "load", "take",
                        "test", "status", "restart", "failed"}
        /\ writer' = "push" => pushed' < MaxVectors
    BY DEF WriterInd, W!TypeOK, W!WriteCall, W!FlushCall, W!LoadAcks, W!TakeAcks,
           W!FlushTest, W!FlushStatus, W!ThrowError
  <1>7. W!TypeOK'
    BY <1>1, <1>3, <1>5, <1>6 DEF WriterInd, W!TypeOK
  <1> QED BY <1>1, <1>2, <1>3, <1>5, <1>6, <1>7 DEF WriterInd

-----------------------------------------------------------------------------
(* The steps of the pool. *)

(* writing(): the queues change places when _write_queue is empty. *)
LEMMA SwapInd ==
    ASSUME WriterInd, NEW s \in Slots, W!Swap(s) PROVE WriterInd'
  <1> USE TcpAssumption DEF W!Vector
  <1>1. /\ task[s] = "swap" /\ task' = [task EXCEPT ![s] = "decide"]
        /\ UNCHANGED <<writer, retval, writing, acks, error, broken, wire, pushed, acked>>
    BY DEF W!Swap
  <1>2. writing' = ("decide" # "none")
    BY <1>1, OnlyTask, Zenon DEF WriterInd, W!TypeOK
  <1>3. /\ OneTask' /\ ~Popping /\ ~Popping'
        /\ task' \in [Slots -> {"none", "swap", "decide", "send", "pop"}]
        /\ \A r \in Slots : task'[r] \notin {"send", "pop"}
    BY <1>1, <1>2, NextTask
  <1>4. /\ outQueue' \in Seq(1 .. MaxVectors) /\ outExposed' \in Seq(1 .. MaxVectors)
        /\ has' \in BOOLEAN /\ (has' <=> outQueue' # <<>>)
        /\ InOrder'
    <2>1. CASE has /\ UNCHANGED <<outQueue, outExposed, has>>
      BY <1>1, <1>3, <2>1 DEF WriterInd, W!TypeOK, InOrder, Unsent
    <2>2. CASE /\ ~has /\ outQueue' = outExposed /\ outExposed' = outQueue
               /\ has' = (outExposed # <<>>)
      <3>1. outQueue = <<>> /\ Unsent = <<>> /\ Unsent' = outExposed /\ outExposed' = <<>>
        BY <1>3, <2>2 DEF WriterInd, Unsent
      <3>2. Len(Unsent) = 0 /\ Len(outExposed) \in Nat /\ Len(wire) \in Nat
        BY <3>1 DEF WriterInd, W!TypeOK
      <3>3. InOrder'
        BY <1>1, <3>1, <3>2, FollowsEmpty DEF WriterInd, InOrder
      <3>4. has' \in BOOLEAN /\ (has' <=> outQueue' # <<>>)
        BY <2>2
      <3> QED BY <2>2, <3>1, <3>3, <3>4 DEF WriterInd, W!TypeOK
    <2> QED BY <2>1, <2>2 DEF W!Swap
  <1>5. W!TypeOK'
    BY <1>1, <1>3, <1>4 DEF WriterInd, W!TypeOK
  <1> QED BY <1>1, <1>3, <1>4, <1>5 DEF WriterInd

(* writing() gives up or sends. *)
LEMMA DecideInd ==
    ASSUME WriterInd, NEW s \in Slots, W!Decide(s) PROVE WriterInd'
  <1> DEFINE t == IF has THEN "send" ELSE "none"
  <1>1. /\ task[s] = "decide" /\ task' = [task EXCEPT ![s] = t]
        /\ writing' = (writing /\ has)
        /\ UNCHANGED <<writer, retval, outExposed, outQueue, has, acks, error, broken,
                       wire, pushed, acked>>
    BY DEF W!Decide
  <1>2. writing = TRUE /\ has \in BOOLEAN
    BY <1>1, OnlyTask, Zenon DEF WriterInd, W!TypeOK
  <1>3. writing' = (t # "none")
    BY <1>1, <1>2
  <1>4. t \in {"none", "swap", "decide", "send", "pop"} /\ t # "pop" /\ (t = "send" => has)
    OBVIOUS
  <1> HIDE DEF t
  <1>5. /\ OneTask' /\ ~Popping /\ ~Popping'
        /\ task' \in [Slots -> {"none", "swap", "decide", "send", "pop"}]
        /\ \A r \in Slots : task'[r] \in {"send", "pop"} => has
    <2>1. /\ OneTask' /\ ~Popping /\ ~Popping' /\ task'[s] = t
          /\ task' \in [Slots -> {"none", "swap", "decide", "send", "pop"}]
          /\ \A r \in Slots : task'[r] # "none" => r = s
      BY <1>1, <1>3, <1>4, NextTask
    <2> QED BY <2>1, <1>4
  <1>6. InOrder' /\ writing' \in BOOLEAN
    BY <1>1, <1>3, <1>5 DEF WriterInd, InOrder, Unsent
  <1>7. W!TypeOK'
    BY <1>1, <1>5, <1>6 DEF WriterInd, W!TypeOK
  <1> QED BY <1>1, <1>5, <1>6, <1>7 DEF WriterInd

(* handle_write() counts what the socket has taken. *)
LEMMA HandleAckInd ==
    ASSUME WriterInd, NEW s \in Slots, W!HandleAck(s) PROVE WriterInd'
  <1> USE TcpAssumption DEF W!Vector
  <1>1. /\ task[s] = "send" /\ task' = [task EXCEPT ![s] = "pop"]
        /\ wire' = Append(wire, Head(outQueue)) /\ acks' = acks + 1
        /\ UNCHANGED <<writer, retval, outExposed, outQueue, has, writing, error,
                       broken, pushed, acked>>
    BY DEF W!HandleAck
  <1>2. writing' = ("pop" # "none")
    BY <1>1, OnlyTask, Zenon DEF WriterInd, W!TypeOK
  <1>3. /\ OneTask' /\ ~Popping /\ Popping' /\ has
        /\ task' \in [Slots -> {"none", "swap", "decide", "send", "pop"}]
    BY <1>1, <1>2, NextTask DEF WriterInd
  <1>4. /\ Unsent = outQueue /\ Unsent' = Tail(outQueue) /\ outQueue # <<>>
        /\ outQueue \in Seq(1 .. MaxVectors) /\ wire \in Seq(1 .. MaxVectors)
        /\ Len(wire) \in Nat /\ Follows(wire, 0) /\ Follows(outQueue, Len(wire))
    BY <1>1, <1>3 DEF WriterInd, W!TypeOK, InOrder, Unsent
  <1>5. /\ Head(outQueue) = Len(wire) + 1 /\ Head(outQueue) \in 1 .. MaxVectors
        /\ Len(Tail(outQueue)) = Len(outQueue) - 1 /\ Len(outQueue) \in Nat \ {0}
        /\ Follows(Tail(outQueue), Len(wire) + 1)
    BY <1>4, FollowsTail
  <1>6. /\ wire' \in Seq(1 .. MaxVectors) /\ Len(wire') = Len(wire) + 1
        /\ Follows(wire', 0)
    BY <1>1, <1>4, <1>5, FollowsAppend
  <1>7. /\ Follows(outExposed, Len(wire) + Len(outQueue))
        /\ Len(wire) + Len(outQueue) + Len(outExposed) = pushed
        /\ Len(outExposed) \in Nat /\ pushed <= MaxVectors /\ pushed \in Nat
    BY <1>4 DEF WriterInd, InOrder, W!TypeOK
  <1>8. /\ Len(wire') + Len(Unsent') = Len(wire) + Len(outQueue)
        /\ Len(wire') <= MaxVectors
    BY <1>4, <1>5, <1>6, <1>7
  <1>9. InOrder'
    BY <1>1, <1>4, <1>5, <1>6, <1>7, <1>8 DEF InOrder
  <1>10. /\ acks' + acked' = Len(wire') /\ retval' <= acks' /\ acks' \in 0 .. MaxVectors
    BY <1>1, <1>6, <1>8 DEF WriterInd, W!TypeOK
  <1>11. W!TypeOK'
    BY <1>1, <1>3, <1>6, <1>10 DEF WriterInd, W!TypeOK
  <1> QED BY <1>1, <1>3, <1>9, <1>10, <1>11 DEF WriterInd

(* handle_write() takes it from the queue. *)
LEMMA HandlePopInd ==
    ASSUME WriterInd, NEW s \in Slots, W!HandlePop(s) PROVE WriterInd'
  <1> USE TcpAssumption DEF W!Vector
  <1> DEFINE t == IF has' THEN "send" ELSE "swap"
  <1>1. /\ task[s] = "pop" /\ task' = [task EXCEPT ![s] = t]
        /\ outQueue' = Tail(outQueue) /\ has' = (Tail(outQueue) # <<>>)
        /\ UNCHANGED <<writer, retval, outExposed, writing, acks, error, broken, wire,
                       pushed, acked>>
    BY DEF W!HandlePop
  <1>2. t \in {"none", "swap", "decide", "send", "pop"} /\ t # "pop" /\ t # "none"
        /\ (t = "send" => has')
    OBVIOUS
  <1> HIDE DEF t
  <1>3. writing' = (t # "none")
    BY <1>1, <1>2, OnlyTask DEF WriterInd, W!TypeOK
  <1>4. /\ OneTask' /\ Popping /\ ~Popping' /\ task'[s] = t
        /\ task' \in [Slots -> {"none", "swap", "decide", "send", "pop"}]
        /\ \A r \in Slots : task'[r] # "none" => r = s
    BY <1>1, <1>2, <1>3, NextTask
  <1>5. outQueue # <<>> /\ outQueue \in Seq(1 .. MaxVectors)
    BY <1>1 DEF WriterInd, W!TypeOK
  <1>6. /\ outQueue' \in Seq(1 .. MaxVectors) /\ has' \in BOOLEAN
        /\ (has' <=> outQueue' # <<>>)
    <2>1. outQueue' \in Seq(1 .. MaxVectors)
      BY <1>1, <1>5
    <2>2. has' = (outQueue' # <<>>)
      BY <1>1, Zenon
    <2> QED BY <2>1, <2>2
  <1>7. Unsent' = Unsent
    BY <1>1, <1>4 DEF Unsent
  <1>8. InOrder'
    BY <1>1, <1>7 DEF InOrder, WriterInd
  <1>9. \A r \in Slots : task'[r] \in {"send", "pop"} => has'
    BY <1>2, <1>4
  <1>10. W!TypeOK'
    BY <1>1, <1>4, <1>6 DEF WriterInd, W!TypeOK
  <1> QED BY <1>1, <1>4, <1>6, <1>8, <1>9, <1>10 DEF WriterInd

(* handle_write() with an error. *)
LEMMA HandleErrorInd ==
    ASSUME WriterInd, NEW s \in Slots, W!HandleError(s) PROVE WriterInd'
  <1>1. /\ task[s] = "send" /\ task' = [task EXCEPT ![s] = "none"]
        /\ error' = TRUE /\ broken' = TRUE /\ writing' = FALSE
        /\ UNCHANGED <<writer, retval, outExposed, outQueue, has, acks, wire,
                       pushed, acked>>
    BY DEF W!HandleError
  <1>2. writing' = ("none" # "none")
    BY <1>1
  <1>3. /\ OneTask' /\ ~Popping /\ ~Popping'
        /\ task' \in [Slots -> {"none", "swap", "decide", "send", "pop"}]
        /\ \A r \in Slots : task'[r] \notin {"send", "pop"}
    BY <1>1, <1>2, NextTask
  <1>4. InOrder'
    BY <1>1, <1>3 DEF WriterInd, InOrder, Unsent
  <1>5. error' \in BOOLEAN /\ broken' \in BOOLEAN /\ writing' \in BOOLEAN
    BY <1>1, Zenon
  <1>6. W!TypeOK'
    BY <1>1, <1>3, <1>5 DEF WriterInd, W!TypeOK
  <1> QED BY <1>1, <1>3, <1>4, <1>6 DEF WriterInd


(* Every step of the connection keeps the invariant of the write side. *)
LEMMA WriterIndStep == WriterInd /\ [TcpNext]_tcpVars => WriterInd'
  <1> SUFFICES ASSUME WriterInd, [TcpNext]_tcpVars PROVE WriterInd'
    OBVIOUS
  <1>0. error \in BOOLEAN /\ broken \in BOOLEAN /\ (error => broken)
    BY DEF WriterInd, W!TypeOK
  <1>1. ASSUME UNCHANGED writeVars PROVE WriterInd'
    BY <1>0, <1>1, WriterIndSame DEF writeVars
  <1>2. CASE Write \/ Flush
    BY <1>2, ClientInd DEF Write, Flush
  <1>3. CASE WriterStep
    BY <1>3, ClientInd, KickInd, WritePushInd DEF WriterStep, W!ClientStep
  <1>4. CASE PoolTask
    <2>1. PICK s \in Slots : W!PoolStep(s)
      BY <1>4 DEF PoolTask, PoolStep
    <2> QED BY <2>1, SwapInd, DecideInd, HandleAckInd, HandlePopInd, HandleErrorInd
            DEF W!PoolStep
  <1>5. CASE ReadThrows
    <2>1. error' \in BOOLEAN /\ (error' => broken')
      BY <1>5 DEF ReadThrows
    <2> QED BY <1>0, <1>5, <2>1, WriterIndSame DEF ReadThrows
  <1>6. CASE Destroy
    <2>1. broken' = TRUE /\ UNCHANGED <<writer, retval, task, outExposed, outQueue, has,
                            writing, acks, error, wire, pushed, acked>>
      BY <1>6 DEF Destroy
    <2>2. error' \in BOOLEAN /\ broken' \in BOOLEAN /\ (error' => broken')
      BY <1>0, <2>1
    <2> QED BY <2>1, <2>2, WriterIndSame
  <1>7. CASE Read \/ ReaderStep \/ StrandStep \/ Socket
    BY <1>1, <1>7 DEF Read, ReaderStep, StrandStep, Socket
  <1>8. CASE UNCHANGED tcpVars
    BY <1>1, <1>8 DEF tcpVars
  <1> QED BY <1>2, <1>3, <1>4, <1>5, <1>6, <1>7, <1>8 DEF TcpNext, ThreadStep

(* The inductive invariant is what the run checks, and more. *)
LEMMA WriterIndInv == WriterInd => WriterInv
  <1> SUFFICES ASSUME WriterInd PROVE WriterInv
    OBVIOUS
  <1>1. W!OneWriter
    <2>1. CASE writing
      <3>1. PICK s \in Slots : Alone(s)
        BY <2>1 DEF WriterInd, OneTask
      <3>2. Slots \ W!Idle = {s}
        BY <3>1 DEF Alone, W!Idle
      <3> QED BY <2>1, <3>1, <3>2 DEF W!OneWriter
    <2>2. CASE ~writing
      <3>1. W!Idle = Slots
        BY <2>2 DEF WriterInd, OneTask, W!Idle
      <3> QED BY <2>2, <3>1 DEF W!OneWriter
    <2> QED BY <2>1, <2>2
  <1>2. W!QueuesHoldAll
    <2>1. /\ Unsent \in Seq(1 .. MaxVectors) /\ wire \in Seq(1 .. MaxVectors)
          /\ outExposed \in Seq(1 .. MaxVectors) /\ pushed \in Nat
      BY UnsentType, TcpAssumption DEF WriterInd, W!TypeOK, W!Vector
    <2>2. wire \o Unsent \o outExposed = [i \in 1 .. pushed |-> i]
      BY <2>1, FollowsThree DEF WriterInd, InOrder
    <2> QED BY <2>2 DEF W!QueuesHoldAll, Unsent, Popping
  <1> QED BY <1>1, <1>2 DEF WriterInv, W!WriterInv, W!AcksConserved, WriterInd

(* At most one async_write at a time, nothing lost, doubled or reordered   *)
(* between write() and the socket, every acknowledgement given once: for   *)
(* any number of vectors and of threads of the pool, whatever the reading  *)
(* side does with the shared thread, socket and error.                     *)
THEOREM WriterCorrect == TcpSpec => []WriterInv
  <1>1. TcpInit => WriterInd
    BY WriterIndInit DEF TcpInit
  <1> QED BY <1>1, WriterIndStep, WriterIndInv, PTL DEF TcpSpec


-----------------------------------------------------------------------------
(* The read side. *)

Handlers == {"start", "data", "error"}

(* No handler of a read waits on the strand; at most one; one with data. *)
Quiet(s) == \A i \in 1 .. Len(s) : s[i] = "start"
AtMostOne(s) == \A i, j \in 1 .. Len(s) : s[i] # "start" /\ s[j] # "start" => i = j
Data(s) == \E i \in 1 .. Len(s) : s[i] = "data"

(* Unless a start was doubled, one read at most is outstanding or waits    *)
(* for its handler, and none once the socket is closing.                   *)
OneRead ==
    /\ ops <= 1 /\ AtMostOne(strand)
    /\ ops > 0 \/ closing => Quiet(strand)
    /\ closing => ops = 0

InBuffer == IF Data(strand) THEN 1 ELSE 0

BlocksInOrder ==
    /\ Follows(returned, 0)
    /\ Follows(inExposed, Len(returned))
    /\ Follows(inQueue, Len(returned) + Len(inExposed))
    /\ Len(returned) + Len(inExposed) + Len(inQueue) + InBuffer = received

ReaderInd ==
    /\ R!TypeOK
    /\ R!ReadingGoesOn
    /\ buffer = received
    /\ Data(strand) => received > 0
    /\ doubled \/ (OneRead /\ BlocksInOrder)
    /\ reader = "wait" => inExposed = <<>>
    /\ (reader = "thrown" /\ ~broken /\ ~doubled) =>
           closing /\ inExposed = <<>> /\ inQueue = <<>>

(* A handler is posted. *)
LEMMA StrandAppend ==
    ASSUME NEW s \in Seq(Handlers), NEW h \in Handlers
    PROVE  /\ Append(s, h) \in Seq(Handlers) /\ Append(s, h) # <<>>
           /\ Len(Append(s, h)) = Len(s) + 1
           /\ Quiet(s) => AtMostOne(Append(s, h))
           /\ h = "start" =>
                 /\ Quiet(s) => Quiet(Append(s, h))
                 /\ AtMostOne(s) => AtMostOne(Append(s, h))
           /\ Data(Append(s, h)) <=> Data(s) \/ h = "data"
  <1> DEFINE t == Append(s, h)
  <1>1. /\ t \in Seq(Handlers) /\ Len(s) \in Nat /\ Len(t) = Len(s) + 1
        /\ \A i \in 1 .. Len(s) : t[i] = s[i]
        /\ t[Len(s) + 1] = h /\ t # <<>>
    OBVIOUS
  <1> HIDE DEF t
  <1>2. \A i \in 1 .. Len(t) : i = Len(s) + 1 \/ i \in 1 .. Len(s)
    BY <1>1
  <1>3. \A i \in 1 .. Len(s) : i \in 1 .. Len(t)
    BY <1>1
  <1>4. Len(s) + 1 \in 1 .. Len(t)
    BY <1>1
  <1>5. Quiet(s) => AtMostOne(t)
    BY <1>1, <1>2 DEF Quiet, AtMostOne
  <1>6. h = "start" => (Quiet(s) => Quiet(t)) /\ (AtMostOne(s) => AtMostOne(t))
    BY <1>1, <1>2 DEF Quiet, AtMostOne
  <1>7. Data(t) <=> Data(s) \/ h = "data"
    BY <1>1, <1>2, <1>3, <1>4 DEF Data
  <1> QED BY <1>1, <1>5, <1>6, <1>7 DEF t

(* A handler is run. *)
LEMMA StrandTail ==
    ASSUME NEW s \in Seq(Handlers), s # <<>>
    PROVE  /\ Tail(s) \in Seq(Handlers) /\ Head(s) \in Handlers
           /\ Len(Tail(s)) = Len(s) - 1
           /\ Quiet(s) => Quiet(Tail(s)) /\ Head(s) = "start"
           /\ AtMostOne(s) => AtMostOne(Tail(s))
           /\ AtMostOne(s) /\ Head(s) # "start" => Quiet(Tail(s))
           /\ Head(s) # "data" => (Data(Tail(s)) <=> Data(s))
           /\ Head(s) = "data" => Data(s)
           /\ Data(Tail(s)) => Data(s)
  <1> DEFINE t == Tail(s)
  <1>1. /\ t \in Seq(Handlers) /\ Len(s) \in Nat \ {0} /\ Len(t) = Len(s) - 1
        /\ Head(s) = s[1] /\ Head(s) \in Handlers
        /\ \A i \in 1 .. Len(t) : t[i] = s[i + 1]
    OBVIOUS
  <1> HIDE DEF t
  <1>2. \A i \in 1 .. Len(t) : i + 1 \in 1 .. Len(s) /\ i + 1 # 1
    BY <1>1
  <1>3. ASSUME NEW i \in 1 .. Len(s), i # 1
        PROVE  i - 1 \in 1 .. Len(t) /\ t[i - 1] = s[i]
    BY <1>1, <1>3
  <1>4. 1 \in 1 .. Len(s)
    BY <1>1
  <1>5. Quiet(s) => Quiet(t) /\ Head(s) = "start"
    BY <1>1, <1>2, <1>4 DEF Quiet
  <1>6. AtMostOne(s) => AtMostOne(t)
    <2> SUFFICES ASSUME AtMostOne(s), NEW i \in 1 .. Len(t), NEW j \in 1 .. Len(t),
                        t[i] # "start", t[j] # "start"
                 PROVE  i = j
      BY DEF AtMostOne
    <2>1. i + 1 = j + 1
      BY <1>1, <1>2 DEF AtMostOne
    <2> QED BY <2>1
  <1>7. AtMostOne(s) /\ Head(s) # "start" => Quiet(t)
    BY <1>1, <1>2, <1>4 DEF AtMostOne, Quiet
  <1>8. Data(t) => Data(s)
    BY <1>1, <1>2 DEF Data
  <1>9. Head(s) # "data" /\ Data(s) => Data(t)
    BY <1>1, <1>3 DEF Data
  <1>10. Head(s) = "data" => Data(s)
    BY <1>1, <1>4 DEF Data
  <1> QED BY <1>1, <1>5, <1>6, <1>7, <1>8, <1>9, <1>10 DEF t

(* A strand without handlers of reads has no data. *)
LEMMA QuietNoData == ASSUME NEW s, Quiet(s) PROVE ~Data(s)
  BY DEF Quiet, Data

(* The strand as the model of the read side looks at it. *)
LEMMA StrandSet ==
    ASSUME NEW s \in Seq(Handlers)
    PROVE  /\ "data" \in R!ToSet(s) <=> Data(s)
           /\ (\A h \in R!ToSet(s) : h = "start") <=> Quiet(s)
  <1>1. DOMAIN s = 1 .. Len(s)
    OBVIOUS
  <1> QED BY <1>1 DEF R!ToSet, Data, Quiet

(* Before the first call. *)
LEMMA ReaderIndInit == R!Init => ReaderInd
  <1> SUFFICES ASSUME R!Init PROVE ReaderInd
    OBVIOUS
  <1>0. /\ reading \in BOOLEAN /\ closing \in BOOLEAN /\ closed \in BOOLEAN
        /\ doubled \in BOOLEAN
    BY Zenon DEF R!Init
  <1>1. R!TypeOK
    BY <1>0, TcpAssumption DEF R!Init, R!TypeOK, R!Block
  <1>2. Len(strand) = 0 /\ Quiet(strand) /\ AtMostOne(strand) /\ ~Data(strand)
    BY DEF R!Init, Quiet, AtMostOne, Data
  <1>3. OneRead
    BY <1>2 DEF R!Init, OneRead
  <1>4. BlocksInOrder
    BY <1>2, FollowsEmpty DEF R!Init, BlocksInOrder, InBuffer
  <1> QED BY <1>1, <1>2, <1>3, <1>4 DEF R!Init, ReaderInd, R!ReadingGoesOn

(* A step of the write side; the socket may break, and be closed. *)
LEMMA ReaderIndSame ==
    ASSUME ReaderInd,
           UNCHANGED <<reader, strand, ops, buffer, reading, closing, inQueue, inExposed,
                       received, returned, doubled>>,
           broken => broken', closed' \in BOOLEAN, closed => closed'
    PROVE  ReaderInd'
  <1>1. R!TypeOK' /\ R!ReadingGoesOn'
    BY DEF ReaderInd, R!TypeOK, R!ReadingGoesOn
  <1>2. (OneRead' <=> OneRead) /\ (BlocksInOrder' <=> BlocksInOrder)
    BY DEF OneRead, BlocksInOrder, InBuffer
  <1> QED BY <1>1, <1>2 DEF ReaderInd

(* read() throws the error of the write side. *)
LEMMA ReadThrowsInd ==
    ASSUME ReaderInd, WriterInd, ReadThrows PROVE ReaderInd'
  <1>1. /\ reader' = "thrown" /\ broken
        /\ UNCHANGED <<broken, strand, ops, buffer, reading, closing, closed, inQueue,
                       inExposed, received, returned, doubled>>
    BY DEF ReadThrows, WriterInd
  <1>2. R!TypeOK' /\ R!ReadingGoesOn'
    BY <1>1 DEF ReaderInd, R!TypeOK, R!ReadingGoesOn
  <1>3. (OneRead' <=> OneRead) /\ (BlocksInOrder' <=> BlocksInOrder)
    BY <1>1 DEF OneRead, BlocksInOrder, InBuffer
  <1> QED BY <1>1, <1>2, <1>3 DEF ReaderInd

(* read() begins. *)
LEMMA ReadCallInd ==
    ASSUME ReaderInd, R!ReadCall, UNCHANGED broken PROVE ReaderInd'
  <1>1. /\ reader' = "get"
        /\ UNCHANGED <<ops, buffer, reading, closing, closed, inQueue, inExposed,
                       received, returned, doubled, broken>>
    BY DEF R!ReadCall
  <1>2. CASE UNCHANGED strand
    <2>1. R!TypeOK' /\ R!ReadingGoesOn'
      BY <1>1, <1>2 DEF ReaderInd, R!TypeOK, R!ReadingGoesOn
    <2>2. (OneRead' <=> OneRead) /\ (BlocksInOrder' <=> BlocksInOrder)
      BY <1>1, <1>2 DEF OneRead, BlocksInOrder, InBuffer
    <2> QED BY <1>1, <1>2, <2>1, <2>2 DEF ReaderInd
  <1>3. CASE Len(strand) < MaxTasks /\ strand' = Append(strand, "start")
    <2>1. strand \in Seq(Handlers) /\ "start" \in Handlers
      BY DEF ReaderInd, R!TypeOK, Handlers
    <2>2. /\ strand' \in Seq(Handlers) /\ strand' # <<>> /\ Len(strand') = Len(strand) + 1
          /\ (Quiet(strand) => Quiet(strand')) /\ (AtMostOne(strand) => AtMostOne(strand'))
          /\ (Data(strand') <=> Data(strand))
      BY <1>3, <2>1, StrandAppend
    <2>3. R!TypeOK' /\ R!ReadingGoesOn'
      BY <1>1, <1>3, <2>2, TcpAssumption DEF ReaderInd, R!TypeOK, R!ReadingGoesOn, Handlers
    <2>4. (OneRead => OneRead') /\ (BlocksInOrder' <=> BlocksInOrder)
      BY <1>1, <2>2 DEF OneRead, BlocksInOrder, InBuffer
    <2> QED BY <1>1, <2>2, <2>3, <2>4 DEF ReaderInd
  <1> QED BY <1>2, <1>3 DEF R!ReadCall

(* read() returns a block. *)
LEMMA TakeInd ==
    ASSUME ReaderInd, R!Take, reader # "thrown",
           UNCHANGED <<strand, ops, buffer, reading, closing, closed, received, doubled,
                       broken>>
    PROVE  ReaderInd'
  <1> USE TcpAssumption DEF R!Block
  <1>0. PICK q, left : /\ q = IF inExposed = <<>> THEN inQueue ELSE inExposed
                       /\ left = IF inExposed = <<>> THEN <<>> ELSE inQueue
    OBVIOUS
  <1>1. /\ q # <<>> /\ returned' = Append(returned, Head(q)) /\ inExposed' = Tail(q)
        /\ inQueue' = left /\ reader' = "idle"
    BY <1>0 DEF R!Take
  <1>2. /\ inQueue \in Seq(1 .. MaxBlocks) /\ inExposed \in Seq(1 .. MaxBlocks)
        /\ returned \in Seq(1 .. MaxBlocks)
    BY DEF ReaderInd, R!TypeOK
  <1>3. q \in Seq(1 .. MaxBlocks) /\ left \in Seq(1 .. MaxBlocks)
        /\ Len(q) + Len(left) = Len(inExposed) + Len(inQueue)
    <2>1. CASE inExposed = <<>>
      <3>1. q = inQueue /\ left = <<>> /\ Len(left) = 0 /\ Len(inExposed) = 0
        BY <1>0, <2>1
      <3> QED BY <1>2, <3>1
    <2>2. CASE inExposed # <<>>
      BY <1>0, <1>2, <2>2
    <2> QED BY <2>1, <2>2
  <1>4. BlocksInOrder => /\ Follows(q, Len(returned)) /\ Follows(left, Len(returned) + Len(q))
    <2>1. CASE inExposed = <<>>
      BY <1>0, <1>2, <2>1, FollowsEmpty DEF BlocksInOrder
    <2>2. CASE inExposed # <<>>
      BY <1>0, <2>2 DEF BlocksInOrder
    <2> QED BY <2>1, <2>2
  <1>5. R!TypeOK' /\ R!ReadingGoesOn'
    <2>1. /\ returned' \in Seq(1 .. MaxBlocks) /\ inExposed' \in Seq(1 .. MaxBlocks)
          /\ inQueue' \in Seq(1 .. MaxBlocks)
      BY <1>1, <1>2, <1>3
    <2> QED BY <1>1, <2>1 DEF ReaderInd, R!TypeOK, R!ReadingGoesOn
  <1>6. OneRead' <=> OneRead
    BY DEF OneRead
  <1>7. BlocksInOrder => BlocksInOrder'
    <2> SUFFICES ASSUME BlocksInOrder PROVE BlocksInOrder'
      OBVIOUS
    <2>1. Len(returned) \in Nat /\ Follows(returned, 0) /\ Len(left) \in Nat
      BY <1>2, <1>3 DEF BlocksInOrder
    <2>2. /\ Head(q) = Len(returned) + 1 /\ Head(q) \in 1 .. MaxBlocks
          /\ Len(Tail(q)) = Len(q) - 1 /\ Len(q) \in Nat \ {0}
          /\ Follows(Tail(q), Len(returned) + 1)
      BY <1>1, <1>3, <1>4, <2>1, FollowsTail
    <2>3. Follows(returned', 0) /\ Len(returned') = Len(returned) + 1
      BY <1>1, <1>2, <2>1, <2>2, FollowsAppend
    <2>4. /\ Follows(inExposed', Len(returned'))
          /\ Len(returned') + Len(inExposed') = Len(returned) + Len(q)
      BY <1>1, <2>1, <2>2, <2>3
    <2>5. Follows(inQueue', Len(returned') + Len(inExposed'))
      BY <1>1, <1>4, <2>4
    <2>6. Len(returned') + Len(inExposed') + Len(inQueue') =
             Len(returned) + Len(inExposed) + Len(inQueue)
      <3>1. Len(inQueue') = Len(left) /\ Len(inExposed) \in Nat /\ Len(inQueue) \in Nat
        BY <1>1, <1>2
      <3>2. Len(returned) + Len(q) + Len(left) = Len(returned) + Len(inExposed) + Len(inQueue)
        <4>1. Len(q) \in Nat /\ Len(left) \in Nat /\ Len(returned) \in Nat
              /\ Len(q) + Len(left) = Len(inExposed) + Len(inQueue)
          BY <1>3, <2>1, <2>2
        <4> QED BY <3>1, <4>1
      <3> QED BY <2>4, <3>1, <3>2
    <2> QED BY <2>3, <2>4, <2>5, <2>6 DEF BlocksInOrder, InBuffer
  <1> QED BY <1>1, <1>5, <1>6, <1>7 DEF ReaderInd

(* read() goes on without a block: it waits, gives up, or throws. *)
LEMMA NoBlockInd ==
    ASSUME ReaderInd,
           UNCHANGED <<strand, ops, buffer, reading, closing, closed, inQueue, inExposed,
                       received, returned, doubled, broken>>,
           \/ reader' = "idle"
           \/ reader' = "wait" /\ inExposed = <<>>
           \/ reader' = "thrown" /\ inExposed = <<>> /\ inQueue = <<>> /\ closing
    PROVE  ReaderInd'
  <1>1. R!TypeOK' /\ R!ReadingGoesOn'
    BY DEF ReaderInd, R!TypeOK, R!ReadingGoesOn
  <1>2. (OneRead' <=> OneRead) /\ (BlocksInOrder' <=> BlocksInOrder)
    BY DEF OneRead, BlocksInOrder, InBuffer
  <1> QED BY <1>1, <1>2 DEF ReaderInd

(* The steps of read() after its beginning. *)
LEMMA ReaderStepInd ==
    ASSUME ReaderInd, R!ReadGet \/ R!ReadWoken \/ R!ReadTimeout, UNCHANGED broken
    PROVE  ReaderInd'
  <1>1. CASE R!ReadGet
    <2>1. CASE R!Take
      BY <1>1, <2>1, TakeInd DEF R!ReadGet
    <2>2. CASE ~R!Take
      BY <1>1, <2>2, NoBlockInd DEF R!ReadGet
    <2> QED BY <2>1, <2>2
  <1>2. CASE R!ReadWoken
    <2>1. CASE R!Take
      BY <1>2, <2>1, TakeInd DEF R!ReadWoken
    <2>2. CASE ~R!Take
      BY <1>2, <2>2, NoBlockInd DEF R!ReadWoken, ReaderInd
    <2> QED BY <2>1, <2>2
  <1>3. CASE R!ReadTimeout
    BY <1>3, NoBlockInd DEF R!ReadTimeout
  <1> QED BY <1>1, <1>2, <1>3

(* The socket gives a block to the outstanding read, or an error. *)
LEMMA SocketInd ==
    ASSUME ReaderInd, R!Receive \/ R!ReceiveFails, UNCHANGED broken
    PROVE  ReaderInd'
  <1> USE TcpAssumption
  <1>0. PICK h \in {"data", "error"} :
          /\ strand' = Append(strand, h)
          /\ h = "data" => received' = received + 1 /\ buffer' = received + 1
                            /\ received < MaxBlocks
          /\ h = "error" => UNCHANGED <<received, buffer>>
    BY DEF R!Receive, R!ReceiveFails
  <1>1. /\ ops > 0 /\ ops' = ops - 1 /\ Len(strand) < MaxTasks
        /\ UNCHANGED <<reader, reading, closing, closed, inQueue, inExposed, returned,
                       doubled, broken>>
    BY DEF R!Receive, R!ReceiveFails
  <1>2. strand \in Seq(Handlers) /\ h \in Handlers
    BY DEF ReaderInd, R!TypeOK, Handlers
  <1>3. /\ strand' \in Seq(Handlers) /\ strand' # <<>> /\ Len(strand') = Len(strand) + 1
        /\ Quiet(strand) => AtMostOne(strand')
        /\ Data(strand') <=> Data(strand) \/ h = "data"
    BY <1>0, <1>2, StrandAppend
  <1>4. /\ received' \in 0 .. MaxBlocks /\ buffer' = received'
        /\ Data(strand') => received' > 0
    BY <1>0, <1>3 DEF ReaderInd, R!TypeOK
  <1>5. R!TypeOK' /\ R!ReadingGoesOn'
    BY <1>1, <1>3, <1>4 DEF ReaderInd, R!TypeOK, R!ReadingGoesOn, Handlers
  <1>6. ASSUME ~doubled' PROVE OneRead' /\ BlocksInOrder'
    <2>1. OneRead /\ BlocksInOrder
      BY <1>1, <1>6 DEF ReaderInd
    <2>2. /\ ~closing /\ Quiet(strand) /\ ops' = 0 /\ AtMostOne(strand') /\ ~Data(strand)
          /\ ~closing'
      BY <1>1, <1>3, <2>1, QuietNoData DEF OneRead, ReaderInd, R!TypeOK
    <2>3. OneRead'
      BY <2>2 DEF OneRead
    <2>4. InBuffer = 0 /\ InBuffer' = (IF h = "data" THEN 1 ELSE 0)
      BY <1>3, <2>2 DEF InBuffer
    <2>5. received' = received + InBuffer' /\ received \in Nat
      BY <1>0, <2>4 DEF ReaderInd, R!TypeOK
    <2>6. /\ Len(returned) \in Nat /\ Len(inExposed) \in Nat /\ Len(inQueue) \in Nat
          /\ InBuffer' \in Nat
      BY <2>4 DEF ReaderInd, R!TypeOK
    <2>7. Len(returned) + Len(inExposed) + Len(inQueue) + InBuffer' = received'
      BY <2>1, <2>4, <2>5, <2>6 DEF BlocksInOrder
    <2>8. BlocksInOrder'
      BY <1>1, <2>1, <2>7 DEF BlocksInOrder
    <2> QED BY <2>3, <2>8
  <1> QED BY <1>1, <1>4, <1>5, <1>6 DEF ReaderInd

(* What start_reading() does to the outstanding reads. *)
LEMMA StartReadingOne ==
    ASSUME ReaderInd, R!StartReading, strand # <<>>, strand' = Tail(strand),
           ops < MaxTasks, UNCHANGED <<closing, closed>>
    PROVE  /\ ops' \in 0 .. MaxTasks /\ reading' \in BOOLEAN /\ doubled' \in BOOLEAN
           /\ R!ReadingGoesOn'
           /\ doubled => doubled'
           /\ ~doubled' /\ (doubled \/ OneRead) => OneRead'
  <1> USE TcpAssumption
  <1>1. strand \in Seq(Handlers)
    BY DEF ReaderInd, R!TypeOK, Handlers
  <1>2. /\ strand' \in Seq(Handlers)
        /\ Quiet(strand) => Quiet(strand')
        /\ AtMostOne(strand) => AtMostOne(strand')
    BY <1>1, StrandTail
  <1>3. /\ ops \in 0 .. MaxTasks /\ reading \in BOOLEAN /\ doubled \in BOOLEAN
        /\ closing \in BOOLEAN /\ closed \in BOOLEAN
    BY DEF ReaderInd, R!TypeOK
  <1>4. CASE closing \/ closed
    <2>1. UNCHANGED <<reading, ops, doubled>>
      BY <1>4 DEF R!StartReading
    <2>2. OneRead => OneRead'
      BY <1>2, <2>1 DEF OneRead
    <2> QED BY <1>3, <1>4, <2>1, <2>2 DEF R!ReadingGoesOn
  <1>5. CASE ~closing /\ ~closed
    <2>1. /\ reading' = TRUE /\ ops' = ops + 1
          /\ doubled' = (doubled \/ R!Pending(Tail(strand)))
      BY <1>5 DEF R!StartReading
    <2>2. doubled' \in BOOLEAN /\ (doubled => doubled') /\ reading' \in BOOLEAN
      BY <2>1
    <2>3. ops' \in 0 .. MaxTasks /\ ops' > 0
      BY <1>3, <2>1
    <2>4. ASSUME ~doubled' PROVE OneRead'
      <3>1. ~R!Pending(Tail(strand))
        BY <2>1, <2>4
      <3>2. ops = 0 /\ \A h \in R!ToSet(strand') : h = "start"
        BY <1>3, <3>1 DEF R!Pending
      <3>3. Quiet(strand')
        BY <1>2, <3>2, StrandSet
      <3>4. AtMostOne(strand')
        BY <3>3 DEF Quiet, AtMostOne
      <3> QED BY <1>5, <2>1, <3>2, <3>3, <3>4 DEF OneRead
    <2>5. R!ReadingGoesOn'
      BY <2>3 DEF R!ReadingGoesOn
    <2> QED BY <2>2, <2>3, <2>4, <2>5
  <1> QED BY <1>3, <1>4, <1>5

(* start_reading() on the strand. *)
LEMMA RunStartInd ==
    ASSUME ReaderInd, R!RunStart, UNCHANGED broken PROVE ReaderInd'
  <1> USE TcpAssumption
  <1>1. /\ strand # <<>> /\ Head(strand) = "start" /\ ops < MaxTasks
        /\ strand' = Tail(strand) /\ R!StartReading
        /\ UNCHANGED <<reader, buffer, closing, closed, inQueue, inExposed, received,
                       returned, broken>>
    BY DEF R!RunStart
  <1>2. /\ ops' \in 0 .. MaxTasks /\ reading' \in BOOLEAN /\ doubled' \in BOOLEAN
        /\ R!ReadingGoesOn' /\ (doubled => doubled')
        /\ ~doubled' /\ (doubled \/ OneRead) => OneRead'
    BY <1>1, StartReadingOne
  <1>3. /\ strand' \in Seq(Handlers) /\ (Data(strand') <=> Data(strand))
        /\ Len(strand') = Len(strand) - 1 /\ Len(strand) \in Nat
    <2>1. strand \in Seq(Handlers)
      BY DEF ReaderInd, R!TypeOK, Handlers
    <2> QED BY <1>1, <2>1, StrandTail
  <1>4. R!TypeOK'
    BY <1>1, <1>2, <1>3 DEF ReaderInd, R!TypeOK, Handlers
  <1>5. BlocksInOrder' <=> BlocksInOrder
    BY <1>1, <1>3 DEF BlocksInOrder, InBuffer
  <1> QED BY <1>1, <1>2, <1>3, <1>4, <1>5 DEF ReaderInd

(* handle_read() puts the block in the queue. *)
LEMMA HandleDataInd ==
    ASSUME ReaderInd, R!HandleData, UNCHANGED broken PROVE ReaderInd'
  <1> USE TcpAssumption DEF R!Block
  <1>1. /\ strand # <<>> /\ Head(strand) = "data" /\ ops < MaxTasks
        /\ strand' = Tail(strand) /\ R!StartReading
        /\ inQueue' = Append(inQueue, buffer)
        /\ UNCHANGED <<reader, buffer, closing, closed, inExposed, received,
                       returned, broken>>
    BY DEF R!HandleData
  <1>2. /\ ops' \in 0 .. MaxTasks /\ reading' \in BOOLEAN /\ doubled' \in BOOLEAN
        /\ R!ReadingGoesOn' /\ (doubled => doubled')
        /\ ~doubled' /\ (doubled \/ OneRead) => OneRead'
    BY <1>1, StartReadingOne
  <1>3. /\ strand' \in Seq(Handlers) /\ Data(strand) /\ (Data(strand') => Data(strand))
        /\ (AtMostOne(strand) => Quiet(strand'))
        /\ Len(strand') = Len(strand) - 1 /\ Len(strand) \in Nat
        /\ (Quiet(strand) => Head(strand) = "start")
    <2>1. strand \in Seq(Handlers)
      BY DEF ReaderInd, R!TypeOK, Handlers
    <2> QED BY <1>1, <2>1, StrandTail
  <1>4. /\ inQueue \in Seq(1 .. MaxBlocks) /\ buffer = received /\ buffer \in 1 .. MaxBlocks
        /\ inExposed \in Seq(1 .. MaxBlocks) /\ returned \in Seq(1 .. MaxBlocks)
    BY <1>3 DEF ReaderInd, R!TypeOK
  <1>5. R!TypeOK'
    BY <1>1, <1>2, <1>3, <1>4 DEF ReaderInd, R!TypeOK, Handlers
  <1>6. ASSUME ~doubled' PROVE OneRead' /\ BlocksInOrder' /\ ~closing
    <2>1. OneRead /\ BlocksInOrder
      BY <1>2, <1>6 DEF ReaderInd
    <2>2. ~closing /\ ~Data(strand')
      BY <1>1, <1>3, <2>1, QuietNoData DEF OneRead
    <2>3. InBuffer = 1 /\ InBuffer' = 0
      BY <1>3, <2>2 DEF InBuffer
    <2>4. /\ Len(returned) \in Nat /\ Len(inExposed) \in Nat /\ Len(inQueue) \in Nat
      BY <1>4
    <2>5. /\ buffer = (Len(returned) + Len(inExposed)) + Len(inQueue) + 1
          /\ Follows(inQueue, Len(returned) + Len(inExposed))
      BY <1>4, <2>1, <2>3, <2>4 DEF BlocksInOrder
    <2>6. /\ Follows(inQueue', Len(returned) + Len(inExposed))
          /\ Len(inQueue') = Len(inQueue) + 1
      BY <1>1, <1>4, <2>4, <2>5, FollowsAppend
    <2>7. Len(returned) + Len(inExposed) + Len(inQueue') + 0 = received
      BY <1>4, <2>4, <2>5, <2>6
    <2>8. BlocksInOrder'
      BY <1>1, <2>1, <2>3, <2>6, <2>7 DEF BlocksInOrder
    <2> QED BY <1>2, <1>6, <2>1, <2>2, <2>8
  <1> QED BY <1>1, <1>2, <1>3, <1>4, <1>5, <1>6 DEF ReaderInd

(* handle_read() with an error: the socket is closing. *)
LEMMA ReadErrorInd ==
    ASSUME ReaderInd, R!HandleError, UNCHANGED broken PROVE ReaderInd'
  <1> USE TcpAssumption
  <1>1. /\ strand # <<>> /\ Head(strand) = "error" /\ strand' = Tail(strand)
        /\ closing' = TRUE
        /\ UNCHANGED <<reader, ops, buffer, reading, closed, inQueue, inExposed, received,
                       returned, doubled, broken>>
    BY DEF R!HandleError
  <1>2. /\ strand' \in Seq(Handlers) /\ (Data(strand') <=> Data(strand))
        /\ (AtMostOne(strand) => AtMostOne(strand') /\ Quiet(strand'))
        /\ (Quiet(strand) => Head(strand) = "start")
        /\ Len(strand') = Len(strand) - 1 /\ Len(strand) \in Nat
    <2>1. strand \in Seq(Handlers)
      BY DEF ReaderInd, R!TypeOK, Handlers
    <2> QED BY <1>1, <2>1, StrandTail
  <1>3. closing' \in BOOLEAN
    BY <1>1, Zenon
  <1>4. R!TypeOK' /\ R!ReadingGoesOn'
    BY <1>1, <1>2, <1>3 DEF ReaderInd, R!TypeOK, Handlers, R!ReadingGoesOn
  <1>5. OneRead => OneRead'
    <2>1. ops \in Nat
      BY DEF ReaderInd, R!TypeOK
    <2> QED BY <1>1, <1>2, <2>1 DEF OneRead
  <1>6. BlocksInOrder' <=> BlocksInOrder
    BY <1>1, <1>2 DEF BlocksInOrder, InBuffer
  <1> QED BY <1>1, <1>2, <1>4, <1>5, <1>6 DEF ReaderInd

(* Every step of the connection keeps the invariant of the read side. *)
LEMMA ReaderIndStep ==
    WriterInd /\ ReaderInd /\ [TcpNext]_tcpVars => ReaderInd'
  <1> SUFFICES ASSUME WriterInd, ReaderInd, [TcpNext]_tcpVars PROVE ReaderInd'
    OBVIOUS
  <1>0. closed \in BOOLEAN
    BY DEF ReaderInd, R!TypeOK
  <1>1. ASSUME UNCHANGED readVars, broken => broken' PROVE ReaderInd'
    BY <1>0, <1>1, ReaderIndSame DEF readVars
  <1>2. CASE Write \/ Flush \/ WriterStep
    <2>1. UNCHANGED broken
      BY <1>2 DEF Write, Flush, WriterStep, W!WriteCall, W!FlushCall, W!ClientStep,
                  W!WritePush, W!WriteKick, W!LoadAcks, W!TakeAcks, W!FlushTest,
                  W!FlushStatus, W!FlushRestart, W!ThrowError
    <2> QED BY <1>1, <1>2, <2>1 DEF Write, Flush, WriterStep
  <1>3. CASE PoolTask
    <2>1. PICK s \in Slots : W!PoolStep(s) /\ UNCHANGED readVars
      BY <1>3 DEF PoolTask, PoolStep
    <2>2. broken => broken'
      BY <2>1 DEF W!PoolStep, W!Swap, W!Decide, W!HandleAck, W!HandlePop, W!HandleError
    <2> QED BY <1>1, <2>1, <2>2
  <1>4. CASE ReadThrows
    BY <1>4, ReadThrowsInd
  <1>5. CASE Destroy
    <2>1. /\ broken' = TRUE /\ closed' = TRUE
          /\ UNCHANGED <<reader, strand, ops, buffer, reading, closing, inQueue,
                         inExposed, received, returned, doubled>>
      BY <1>5 DEF Destroy, R!Close
    <2>2. closed' \in BOOLEAN /\ (closed => closed') /\ (broken => broken')
      BY <2>1
    <2> QED BY <2>1, <2>2, ReaderIndSame
  <1>6. CASE Read
    BY <1>6, ReadCallInd DEF Read, writeVars
  <1>7. CASE ReaderStep
    BY <1>7, ReaderStepInd DEF ReaderStep, writeVars
  <1>8. CASE StrandStep
    BY <1>8, RunStartInd, HandleDataInd, ReadErrorInd DEF StrandStep, R!StrandStep, writeVars
  <1>9. CASE Socket
    BY <1>9, SocketInd DEF Socket, writeVars
  <1>10. CASE UNCHANGED tcpVars
    BY <1>1, <1>10 DEF tcpVars, writeVars
  <1> QED BY <1>2, <1>3, <1>4, <1>5, <1>6, <1>7, <1>8, <1>9, <1>10 DEF TcpNext, ThreadStep

(* The inductive invariant is what the run checks, and more. *)
LEMMA ReaderIndInv == ReaderInd => ReaderInv
  <1> SUFFICES ASSUME ReaderInd PROVE ReaderInv
    OBVIOUS
  <1> USE TcpAssumption DEF R!Block
  <1>1. R!BlocksConserved
    <2> SUFFICES ASSUME ~doubled
                 PROVE  returned \o inExposed \o inQueue \o R!InBuffer = R!AllBlocks
      BY DEF R!BlocksConserved
    <2>1. /\ BlocksInOrder /\ buffer = received /\ received \in Nat
          /\ (Data(strand) => received > 0) /\ buffer \in 0 .. MaxBlocks
          /\ returned \in Seq(1 .. MaxBlocks) /\ inExposed \in Seq(1 .. MaxBlocks)
          /\ inQueue \in Seq(1 .. MaxBlocks) /\ strand \in Seq(Handlers)
      BY DEF ReaderInd, R!TypeOK, Handlers
    <2>2. PICK k \in Nat : k = Len(returned) + Len(inExposed) + Len(inQueue)
      BY <2>1
    <2>3. /\ R!InBuffer \in Seq(1 .. MaxBlocks) /\ k + Len(R!InBuffer) = received
          /\ Follows(R!InBuffer, k)
      <3>1. CASE Data(strand)
        <4>1. R!InBuffer = <<buffer>> /\ InBuffer = 1
          BY <2>1, <3>1, StrandSet DEF R!InBuffer, InBuffer
        <4>2. k + 1 = buffer /\ buffer \in 1 .. MaxBlocks
          BY <2>1, <2>2, <3>1, <4>1 DEF BlocksInOrder
        <4>3. Len(<<buffer>>) = 1 /\ <<buffer>>[1] = buffer
              /\ <<buffer>> \in Seq(1 .. MaxBlocks)
          BY <4>2
        <4> QED BY <2>1, <4>1, <4>2, <4>3 DEF Follows
      <3>2. CASE ~Data(strand)
        <4>1. R!InBuffer = <<>> /\ InBuffer = 0
          BY <2>1, <3>2, StrandSet DEF R!InBuffer, InBuffer
        <4>2. k + 0 = received
          BY <2>1, <2>2, <4>1 DEF BlocksInOrder
        <4> QED BY <4>1, <4>2, FollowsEmpty
      <3> QED BY <3>1, <3>2
    <2>4. /\ Follows(returned, 0) /\ Follows(inExposed, Len(returned))
          /\ Follows(inQueue, Len(returned) + Len(inExposed))
          /\ Follows(R!InBuffer, Len(returned) + Len(inExposed) + Len(inQueue))
          /\ Len(returned) + Len(inExposed) + Len(inQueue) + Len(R!InBuffer) = received
      BY <2>1, <2>2, <2>3 DEF BlocksInOrder
    <2> QED BY <2>1, <2>3, <2>4, FollowsFour DEF R!AllBlocks
  <1>2. NothingLeftBehind
    BY DEF ReaderInd, NothingLeftBehind
  <1> QED BY <1>1, <1>2 DEF ReaderInv, R!ReaderInv, ReaderInd

(* Reading goes on until an error or close() ends it; unless a start was   *)
(* doubled, every block the socket delivered is returned, in a queue or in *)
(* the buffer, in order, and read() throws only when all of them were      *)
(* returned: for any number of blocks and of waiting handlers.             *)
THEOREM ReaderCorrect == TcpSpec => []ReaderInv
  <1>1. TcpInit => WriterInd /\ ReaderInd
    BY WriterIndInit, ReaderIndInit DEF TcpInit
  <1> QED BY <1>1, WriterIndStep, ReaderIndStep, ReaderIndInv, PTL DEF TcpSpec

-----------------------------------------------------------------------------
(* bbdo::stream: the acknowledgement of events. *)

(* The number of events that have left the muxer. *)
First == (next - 1) - Len(events) - Len(disk)

(* The muxer and its file hold the events from First on. *)
Numbered ==
    /\ First \in Nat
    /\ popped = 1 .. First
    /\ Follows(events, First)
    /\ Follows(disk, First + Len(events))
    /\ disk # <<>> => Len(events) >= Limit

(* The number of events that the receiver has taken from this connection,  *)
(* or would not miss if it broke.                                          *)
Reached == IF link = "up" THEN First + (pos - Len(packets)) ELSE First

Carried ==
    /\ link = "up" => /\ Len(packets) <= pos
                      /\ Follows(packets, First + (pos - Len(packets)))
                      /\ pos = Outstanding + dropped
    /\ link = "down" => /\ packets = <<>> /\ ackPackets = <<>>
                        /\ acknowledged = 0 /\ unacked = 0 /\ dropped = 0

Covered == \A e \in 1 .. Reached : e \in ToSet(relayed) \union Unknown

LinkInd == TypeOK /\ Numbered /\ Carried /\ Covered /\ ReceivedInOrder

(* Before the first connection. *)
LEMMA LinkIndInit == Init => LinkInd
  <1> SUFFICES ASSUME Init PROVE LinkInd
    OBVIOUS
  <1> USE LimitAssumption, AckLimitsAssumption, BoundsAssumption
  <1>1. TypeOK
    BY DEF Init, TypeOK, Event
  <1>2. First = 0
    <2>1. Len(events) = 0 /\ Len(disk) = 0 /\ next = 1
      BY DEF Init
    <2> QED BY <2>1 DEF First
  <1>3. Numbered
    BY <1>2, FollowsEmpty DEF Init, Numbered
  <1>4. Carried /\ Covered /\ ReceivedInOrder
    BY <1>2 DEF Init, Carried, Covered, Reached, ReceivedInOrder
  <1> QED BY <1>1, <1>3, <1>4 DEF LinkInd

(* The counts of a connection that is up are what was read, all of them    *)
(* natural numbers.                                                        *)
LEMMA LinkCounts ==
    ASSUME LinkInd
    PROVE  /\ pos \in Nat /\ acknowledged \in Nat /\ unacked \in Nat /\ dropped \in Nat
           /\ ack_limit \in Nat \ {0} /\ Len(ackPackets) \in Nat /\ ack_limit * Len(ackPackets) \in Nat
           /\ Len(packets) \in Nat /\ Len(events) \in Nat /\ Len(disk) \in Nat
           /\ pos <= Len(events)
           /\ link = "up" => acknowledged <= pos - Len(packets)
  <1>1. /\ pos \in Nat /\ acknowledged \in Nat /\ unacked \in Nat /\ dropped \in Nat
        /\ ack_limit \in Nat \ {0} /\ Len(ackPackets) \in Nat
        /\ Len(packets) \in Nat /\ Len(events) \in Nat /\ Len(disk) \in Nat
        /\ pos <= Len(events)
    BY AckLimitsAssumption DEF LinkInd, TypeOK
  <1>2. ack_limit * Len(ackPackets) \in Nat
    BY <1>1
  <1>3. PICK m \in Nat : m = ack_limit * Len(ackPackets)
    BY <1>2
  <1>4. link = "up" => acknowledged <= pos - Len(packets)
    BY <1>1, <1>3 DEF LinkInd, Carried, Outstanding
  <1> QED BY <1>1, <1>2, <1>4

(* What popping does to the muxer and its file. *)
LEMMA PopAckedNumbered ==
    ASSUME LinkInd, link = "up", NEW read \in Nat, read <= Len(events), pos <= read,
           PopAcked(read), next' = next
    PROVE  /\ First' = First + acknowledged
           /\ Numbered'
           /\ pos' = read - acknowledged /\ acknowledged' = 0
           /\ events' \in Seq(Event) /\ disk' \in Seq(Event) /\ pos' \in 0 .. Len(events')
           /\ popped' \subseteq Event
  <1> USE LimitAssumption, BoundsAssumption
  <1>1. /\ acknowledged \in Nat /\ acknowledged <= read /\ pos \in Nat
        /\ Len(events) \in Nat /\ Len(disk) \in Nat /\ acknowledged <= Len(events)
    BY LinkCounts
  <1>2. PICK n, left, room, fill :
          /\ n = acknowledged
          /\ left = SubSeq(events, n + 1, Len(events))
          /\ room = (IF Len(left) < Limit THEN Limit - Len(left) ELSE 0)
          /\ fill = (IF room < Len(disk) THEN room ELSE Len(disk))
          /\ popped' = popped \union ToSet(SubSeq(events, 1, n))
          /\ events' = left \o SubSeq(disk, 1, fill)
          /\ disk' = SubSeq(disk, fill + 1, Len(disk))
          /\ pos' = read - n /\ acknowledged' = 0
    <2>1. (IF acknowledged < read THEN acknowledged ELSE read) = acknowledged
      BY <1>1
    <2> QED BY <2>1 DEF PopAcked
  <1>3. /\ n \in 0 .. Len(events) /\ First \in Nat /\ popped = 1 .. First
        /\ events \in Seq(Event) /\ disk \in Seq(Event)
        /\ Follows(events, First) /\ Follows(disk, First + Len(events))
    BY <1>1, <1>2 DEF LinkInd, Numbered, TypeOK
  <1>4. /\ left \in Seq(Event) /\ Len(left) = Len(events) - n /\ Follows(left, First + n)
        /\ ToSet(SubSeq(events, 1, n)) = (First + 1) .. (First + n)
    BY <1>2, <1>3, FollowsCut
  <1>5. fill \in 0 .. Len(disk) /\ Len(left) \in Nat
    BY <1>1, <1>2, <1>4
  <1>6. PICK more, rest : more = SubSeq(disk, 1, fill) /\ rest = SubSeq(disk, fill + 1, Len(disk))
    OBVIOUS
  <1>7. /\ more \in Seq(Event) /\ Len(more) = fill /\ Follows(more, First + Len(events))
        /\ rest \in Seq(Event) /\ Len(rest) = Len(disk) - fill
        /\ Follows(rest, (First + Len(events)) + fill)
    <2>1. PICK k \in Nat : k = First + Len(events)
      BY <1>1, <1>3
    <2>2. Follows(disk, k)
      BY <1>3, <2>1
    <2>3. disk \in Seq(Event) /\ k \in Nat /\ fill \in 0 .. Len(disk)
      BY <1>3, <1>5, <2>1
    <2>4. /\ more \in Seq(Event) /\ Len(more) = fill /\ Follows(more, k)
          /\ rest \in Seq(Event) /\ Len(rest) = Len(disk) - fill /\ Follows(rest, k + fill)
      BY <1>6, <2>2, <2>3, FollowsCut
    <2> QED BY <2>1, <2>4
  <1>8. PICK k \in Nat : k = First + n /\ k + Len(left) = First + Len(events)
    BY <1>1, <1>3, <1>4
  <1>9. /\ left \o more \in Seq(Event) /\ Len(left \o more) = Len(left) + fill
        /\ Follows(left \o more, First + n)
    <2>1. Follows(left, k) /\ Follows(more, k + Len(left))
      BY <1>4, <1>7, <1>8
    <2>2. /\ left \o more \in Seq(Event) /\ Len(left \o more) = Len(left) + Len(more)
          /\ Follows(left \o more, k)
      <3>1. left \in Seq(Event) /\ more \in Seq(Event) /\ k \in Nat
        BY <1>4, <1>7, <1>8
      <3> QED BY <2>1, <3>1, FollowsConcat
    <2> QED BY <1>7, <1>8, <2>2
  <1>10. events' = left \o more /\ disk' = rest
    BY <1>2, <1>6
  <1>11. /\ Len(events') = (Len(events) - n) + fill /\ Len(disk') = Len(disk) - fill
         /\ fill \in Nat /\ n \in Nat
    BY <1>3, <1>4, <1>5, <1>7, <1>9, <1>10
  <1>12. First' = First + n
    <2>1. next \in Nat /\ First = (next - 1) - Len(events) - Len(disk)
      BY DEF LinkInd, TypeOK, First
    <2>2. First' = (next - 1) - Len(events') - Len(disk')
      BY DEF First
    <2> QED BY <1>1, <1>11, <2>1, <2>2
  <1>13. popped' = 1 .. First'
    BY <1>2, <1>3, <1>4, <1>12
  <1>14. Follows(disk', First' + Len(events'))
    <2>1. First' + Len(events') = (First + Len(events)) + fill
      BY <1>1, <1>3, <1>11, <1>12
    <2> QED BY <1>7, <1>10, <2>1
  <1>15. disk' # <<>> => Len(events') >= Limit
    <2> SUFFICES ASSUME disk' # <<>> PROVE Len(events') >= Limit
      OBVIOUS
    <2>1. Len(disk') # 0
      BY <1>7, <1>10
    <2>2. fill < Len(disk)
      BY <1>1, <1>5, <1>11, <2>1
    <2>3. /\ fill = room /\ Len(left) = Len(events) - n
          /\ room = (IF Len(left) < Limit THEN Limit - Len(left) ELSE 0)
      BY <1>1, <1>2, <1>4, <2>2
    <2> QED BY <1>1, <1>5, <1>11, <2>3
  <1>16. Numbered'
    BY <1>3, <1>9, <1>10, <1>11, <1>12, <1>13, <1>14, <1>15 DEF Numbered
  <1>17. pos' \in 0 .. Len(events')
    <2>1. pos' = read - n /\ n <= read
      BY <1>1, <1>2
    <2> QED BY <1>1, <1>11, <2>1
  <1>18. popped' \subseteq Event
    <2>1. next \in 1 .. MaxEvents + 1 /\ Len(events') \in Nat /\ Len(disk') \in Nat
      BY <1>7, <1>9, <1>10 DEF LinkInd, TypeOK
    <2>2. First' = (next - 1) - Len(events') - Len(disk')
      BY DEF First
    <2>3. First' <= MaxEvents
      BY <2>1, <2>2
    <2> QED BY <1>3, <1>11, <1>12, <1>13, <2>3 DEF Event
  <1> QED BY <1>2, <1>9, <1>7, <1>10, <1>12, <1>16, <1>17, <1>18

-----------------------------------------------------------------------------
(* One lemma per step of the two brokers. *)

(* An event is published. *)
LEMMA PublishLink == ASSUME LinkInd, Publish PROVE LinkInd'
  <1> USE LimitAssumption, AckLimitsAssumption, BoundsAssumption
  <1>1. /\ next <= MaxEvents /\ next' = next + 1
        /\ UNCHANGED <<link, pos, acknowledged, packets, ackPackets, ack_limit, unacked, dropped,
                       relayed, popped, breaks>>
    BY DEF Publish
  <1>2. next \in Nat /\ First \in Nat /\ Len(events) \in Nat /\ Len(disk) \in Nat
    BY <1>1 DEF LinkInd, TypeOK, Numbered
  <1>3. PICK f \in Nat, n \in Nat, k \in Nat : f = First /\ n = Len(events) /\ k = f + n
    <2>1. First + Len(events) \in Nat
      BY <1>2
    <2> QED BY <1>2, <2>1, Zenon
  <1>4. /\ events \in Seq(Event) /\ disk \in Seq(Event) /\ next \in Event
        /\ Follows(events, f) /\ Follows(disk, k)
    BY <1>1, <1>3 DEF LinkInd, TypeOK, Numbered, Event
  <1>5. next = k + Len(disk) + 1
    BY <1>2, <1>3 DEF First
  <1>6. CASE Len(events) >= Limit /\ disk' = Append(disk, next) /\ UNCHANGED events
    <2>1. disk' \in Seq(Event) /\ Len(disk') = Len(disk) + 1 /\ Follows(disk', k)
      BY <1>3, <1>4, <1>5, <1>6, FollowsAppend
    <2>2. First' = First
      BY <1>1, <1>2, <1>6, <2>1 DEF First
    <2>3. Numbered'
      BY <1>1, <1>3, <1>4, <1>6, <2>1, <2>2 DEF LinkInd, Numbered
    <2>4. TypeOK'
      BY <1>1, <1>6, <2>1 DEF LinkInd, TypeOK
    <2>5. Carried' /\ Covered' /\ ReceivedInOrder'
      BY <1>1, <1>6, <2>2 DEF LinkInd, Carried, Covered, Reached, Outstanding, ReceivedInOrder
    <2> QED BY <2>3, <2>4, <2>5 DEF LinkInd
  <1>7. CASE Len(events) < Limit /\ events' = Append(events, next) /\ UNCHANGED disk
    <2>1. disk = <<>> /\ Len(disk) = 0
      BY <1>2, <1>7 DEF LinkInd, Numbered
    <2>2. next = f + n + 1
      BY <1>3, <1>5, <2>1
    <2>3. events' \in Seq(Event) /\ Len(events') = n + 1 /\ Follows(events', f)
      <3>1. next = f + Len(events) + 1
        BY <1>3, <2>2
      <3> QED BY <1>3, <1>4, <1>7, <3>1, FollowsAppend
    <2>4. First' = First
      BY <1>1, <1>2, <1>3, <1>7, <2>3 DEF First
    <2>5. Numbered'
      BY <1>1, <1>2, <1>3, <1>7, <2>1, <2>3, <2>4, FollowsEmpty DEF LinkInd, Numbered
    <2>6. TypeOK'
      BY <1>1, <1>2, <1>3, <1>7, <2>3 DEF LinkInd, TypeOK
    <2>7. Carried' /\ Covered' /\ ReceivedInOrder'
      BY <1>1, <1>7, <2>4 DEF LinkInd, Carried, Covered, Reached, Outstanding, ReceivedInOrder
    <2> QED BY <2>5, <2>6, <2>7 DEF LinkInd
  <1> QED BY <1>6, <1>7 DEF Publish

(* One turn of failover::run with an event. *)
LEMMA SenderWriteLink == ASSUME LinkInd, SenderWrite PROVE LinkInd'
  <1> USE LimitAssumption, AckLimitsAssumption, BoundsAssumption
  <1>1. /\ link = "up" /\ pos < Len(events) /\ packets' = Append(packets, events[pos + 1])
        /\ PopAcked(pos + 1)
        /\ UNCHANGED <<link, ackPackets, ack_limit, unacked, dropped, relayed, next, breaks>>
    BY DEF SenderWrite
  <1>2. /\ pos \in Nat /\ acknowledged \in Nat /\ unacked \in Nat /\ dropped \in Nat
        /\ ack_limit * Len(ackPackets) \in Nat /\ Len(packets) \in Nat /\ Len(events) \in Nat
        /\ acknowledged <= pos - Len(packets)
    BY <1>1, LinkCounts
  <1>3. First' = First + acknowledged /\ pos' = (pos + 1) - acknowledged /\ acknowledged' = 0
    <2>1. pos + 1 \in Nat /\ pos + 1 <= Len(events) /\ pos <= pos + 1
      BY <1>1, <1>2
    <2> QED BY <1>1, <2>1, PopAckedNumbered
  <1>4. /\ Numbered' /\ events' \in Seq(Event) /\ disk' \in Seq(Event)
        /\ pos' \in 0 .. Len(events') /\ popped' \subseteq Event
    <2>1. pos + 1 \in Nat /\ pos + 1 <= Len(events) /\ pos <= pos + 1
      BY <1>1, <1>2
    <2> QED BY <1>1, <2>1, PopAckedNumbered
  <1>5. First \in Nat /\ Len(packets) <= pos
    BY <1>1 DEF LinkInd, Numbered, Carried
  <1>6. PICK m \in Nat : m = ack_limit * Len(ackPackets)
    BY <1>2
  <1>7. pos = Len(packets) + unacked + m + acknowledged + dropped
    BY <1>1, <1>6 DEF LinkInd, Carried, Outstanding
  <1>8. PICK k \in Nat : k = First + (pos - Len(packets))
    <2>1. First + (pos - Len(packets)) \in Nat
      BY <1>2, <1>5
    <2> QED BY <2>1, Zenon
  <1>9. /\ events \in Seq(Event) /\ packets \in Seq(Event)
        /\ Follows(events, First) /\ Follows(packets, k)
    BY <1>1, <1>8 DEF LinkInd, TypeOK, Numbered, Carried
  <1>10. events[pos + 1] \in Event /\ events[pos + 1] = First + (pos + 1)
    <2>1. pos + 1 \in 1 .. Len(events)
      BY <1>1, <1>2
    <2> QED BY <1>9, <2>1 DEF Follows
  <1>11. /\ packets' \in Seq(Event) /\ Len(packets') = Len(packets) + 1 /\ Follows(packets', k)
    <2>1. First + (pos + 1) = k + Len(packets) + 1
      BY <1>2, <1>5, <1>8
    <2>2. events[pos + 1] = k + Len(packets) + 1
      BY <1>10, <2>1
    <2> QED BY <1>1, <1>8, <1>9, <1>10, <2>2, FollowsAppend
  <1>12. Len(packets') = Len(packets) + 1
    BY <1>11
  <1>13. First' + (pos' - Len(packets')) = k /\ Len(packets') <= pos'
    BY <1>2, <1>3, <1>5, <1>8, <1>12
  <1>14. Reached = k /\ Reached' = k
    BY <1>1, <1>8, <1>13 DEF Reached
  <1>15. TypeOK'
    BY <1>1, <1>3, <1>4, <1>11 DEF LinkInd, TypeOK
  <1>16. Carried'
    <2>1. pos' = Len(packets') + unacked + m + acknowledged' + dropped
      <3>1. m \in Nat /\ unacked \in Nat /\ dropped \in Nat /\ Len(packets) \in Nat
        BY <1>2, <1>6
      <3>2. pos' = (Len(packets) + 1) + unacked + m + 0 + dropped
        BY <1>2, <1>3, <1>7, <3>1
      <3> QED BY <1>3, <1>12, <3>2
    <2>2. ack_limit' * Len(ackPackets') = m
      BY <1>1, <1>6
    <2> QED BY <1>1, <1>11, <1>13, <2>1, <2>2 DEF Carried, Outstanding
  <1>17. Covered' /\ ReceivedInOrder'
    BY <1>1, <1>14 DEF LinkInd, Covered, ReceivedInOrder
  <1> QED BY <1>4, <1>15, <1>16, <1>17 DEF LinkInd

(* One turn without an event. *)
LEMMA SenderFlushLink == ASSUME LinkInd, SenderFlush PROVE LinkInd'
  <1> USE LimitAssumption, AckLimitsAssumption, BoundsAssumption
  <1>1. /\ link = "up" /\ pos = Len(events) /\ PopAcked(pos)
        /\ UNCHANGED <<link, packets, ackPackets, ack_limit, unacked, dropped, relayed, next,
                       breaks>>
    BY DEF SenderFlush
  <1>2. /\ pos \in Nat /\ acknowledged \in Nat /\ unacked \in Nat /\ dropped \in Nat
        /\ ack_limit * Len(ackPackets) \in Nat /\ Len(packets) \in Nat /\ Len(events) \in Nat
        /\ acknowledged <= pos - Len(packets)
    BY <1>1, LinkCounts
  <1>3. pos <= Len(events) /\ pos <= pos
    BY <1>1, <1>2
  <1>4. First' = First + acknowledged /\ pos' = pos - acknowledged /\ acknowledged' = 0
    BY <1>1, <1>2, <1>3, PopAckedNumbered
  <1>5. /\ Numbered' /\ events' \in Seq(Event) /\ disk' \in Seq(Event)
        /\ pos' \in 0 .. Len(events') /\ popped' \subseteq Event
    BY <1>1, <1>2, <1>3, PopAckedNumbered
  <1>6. First \in Nat /\ Len(packets) <= pos
    BY <1>1 DEF LinkInd, Numbered, Carried
  <1>7. PICK m \in Nat : m = ack_limit * Len(ackPackets)
    BY <1>2
  <1>8. pos = Len(packets) + unacked + m + acknowledged + dropped
    BY <1>1, <1>7 DEF LinkInd, Carried, Outstanding
  <1>9. First' + (pos' - Len(packets)) = First + (pos - Len(packets)) /\ Len(packets) <= pos'
    BY <1>2, <1>4, <1>6
  <1>10. Reached' = Reached
    BY <1>1, <1>9 DEF Reached
  <1>11. TypeOK'
    BY <1>1, <1>4, <1>5 DEF LinkInd, TypeOK
  <1>12. Carried'
    <2>1. pos' = Len(packets) + unacked + m + acknowledged' + dropped
      BY <1>2, <1>4, <1>7, <1>8
    <2>2. Follows(packets', First' + (pos' - Len(packets')))
      BY <1>1, <1>9 DEF LinkInd, Carried
    <2> QED BY <1>1, <1>7, <1>9, <2>1, <2>2 DEF Carried, Outstanding
  <1>13. Covered' /\ ReceivedInOrder'
    BY <1>1, <1>10 DEF LinkInd, Covered, ReceivedInOrder
  <1> QED BY <1>5, <1>11, <1>12, <1>13 DEF LinkInd

(* An ack packet is counted. *)
LEMMA SenderReadLink == ASSUME LinkInd, SenderRead PROVE LinkInd'
  <1> USE LimitAssumption, AckLimitsAssumption, BoundsAssumption
  <1>1. /\ link = "up" /\ ackPackets # <<>> /\ acknowledged' = acknowledged + Head(ackPackets)
        /\ ackPackets' = Tail(ackPackets)
        /\ UNCHANGED <<link, events, pos, disk, packets, ack_limit, unacked, dropped,
                       relayed, popped, next, breaks>>
    BY DEF SenderRead
  <1>2. /\ ack_limit \in Nat /\ acknowledged \in Nat /\ unacked \in Nat /\ dropped \in Nat
        /\ Len(packets) \in Nat /\ pos \in Nat
    BY LinkCounts
  <1>3. /\ ackPackets' \in Seq({ack_limit}) /\ Head(ackPackets) = ack_limit
        /\ Len(ackPackets') = Len(ackPackets) - 1 /\ Len(ackPackets) \in Nat \ {0}
    <2>1. ackPackets \in Seq({ack_limit})
      BY DEF LinkInd, TypeOK
    <2> QED BY <1>1, <2>1
  <1>4. PICK m \in Nat : m = ack_limit * Len(ackPackets') /\ ack_limit * Len(ackPackets) = m + ack_limit
    BY <1>2, <1>3
  <1>5. TypeOK'
    BY <1>1, <1>2, <1>3 DEF LinkInd, TypeOK
  <1>6. Numbered' /\ Covered' /\ ReceivedInOrder'
    BY <1>1 DEF LinkInd, Numbered, First, Covered, Reached, ReceivedInOrder
  <1>7. pos = Len(packets) + unacked + (m + ack_limit) + acknowledged + dropped
    BY <1>1, <1>4 DEF LinkInd, Carried, Outstanding
  <1>8. pos = Len(packets) + unacked + m + acknowledged' + dropped
    BY <1>1, <1>2, <1>3, <1>4, <1>7
  <1>9. Carried'
    BY <1>1, <1>4, <1>8 DEF LinkInd, Carried, Outstanding, First
  <1> QED BY <1>5, <1>6, <1>9 DEF LinkInd

(* The receiver takes the next packet: the events below it grow by that    *)
(* one, whether it was decoded or not.                                     *)
LEMMA NextPacket ==
    ASSUME LinkInd, link = "up", packets # <<>>,
           packets' = Tail(packets), link' = link, events' = events, pos' = pos,
           disk' = disk, next' = next
    PROVE  /\ Head(packets) \in Event /\ Head(packets) = Reached + 1
           /\ Reached \in Nat /\ Reached' = Reached + 1 /\ First' = First
           /\ packets' \in Seq(Event) /\ Len(packets') = Len(packets) - 1
           /\ Len(packets) \in Nat \ {0} /\ Len(packets') <= pos'
           /\ Follows(packets', First' + (pos' - Len(packets')))
  <1> USE BoundsAssumption
  <1>1. pos \in Nat /\ Len(packets) \in Nat /\ First \in Nat /\ Len(packets) <= pos
    BY LinkCounts DEF LinkInd, Numbered, Carried
  <1>2. PICK k \in Nat : k = First + (pos - Len(packets))
    <2>1. First + (pos - Len(packets)) \in Nat
      BY <1>1
    <2> QED BY <2>1, Zenon
  <1>3. packets \in Seq(Event) /\ Follows(packets, k)
    BY <1>2 DEF LinkInd, TypeOK, Carried
  <1>4. /\ Head(packets) = k + 1 /\ Head(packets) \in Event
        /\ packets' \in Seq(Event) /\ Len(packets') = Len(packets) - 1
        /\ Len(packets) \in Nat \ {0} /\ Follows(packets', k + 1)
    BY <1>2, <1>3, FollowsTail
  <1>5. First' = First
    BY DEF First
  <1>6. Len(packets') = Len(packets) - 1 /\ Len(packets) \in Nat \ {0}
    BY <1>4
  <1>7. First' + (pos' - Len(packets')) = k + 1 /\ Len(packets') <= pos'
    BY <1>1, <1>2, <1>5, <1>6
  <1>8. Reached = k /\ Reached' = k + 1
    BY <1>2, <1>7 DEF Reached
  <1> QED BY <1>2, <1>4, <1>5, <1>7, <1>8

(* bbdo::stream::read by the feeder. *)
LEMMA ReceiverReadLink == ASSUME LinkInd, ReceiverRead PROVE LinkInd'
  <1> USE LimitAssumption, AckLimitsAssumption, BoundsAssumption
  <1>1. /\ link = "up" /\ packets # <<>> /\ packets' = Tail(packets)
        /\ UNCHANGED <<link, events, pos, disk, acknowledged, ack_limit, popped, next,
                       breaks>>
    BY DEF ReceiverRead
  <1>2. /\ Head(packets) \in Event /\ Head(packets) = Reached + 1
        /\ Reached \in Nat /\ Reached' = Reached + 1 /\ First' = First
        /\ packets' \in Seq(Event) /\ Len(packets') = Len(packets) - 1
        /\ Len(packets) \in Nat \ {0} /\ Len(packets') <= pos'
        /\ Follows(packets', First' + (pos' - Len(packets')))
    BY <1>1, NextPacket
  <1>3. PICK h \in Event : h = Head(packets)
    BY <1>2
  <1>4. Reached \in Nat /\ h = Reached + 1 /\ Reached' = h
    BY <1>2, <1>3
  <1>5. /\ pos \in Nat /\ acknowledged \in Nat /\ unacked \in Nat /\ dropped \in Nat
        /\ ack_limit \in Nat \ {0} /\ Len(ackPackets) \in Nat /\ ack_limit * Len(ackPackets) \in Nat
    BY LinkCounts
  <1>6. PICK m \in Nat : m = ack_limit * Len(ackPackets)
    BY <1>5
  <1>7. pos = Len(packets) + unacked + m + acknowledged + dropped
    BY <1>1, <1>6 DEF LinkInd, Carried, Outstanding
  <1>8. Len(packets') = Len(packets) - 1 /\ Len(packets) \in Nat \ {0} /\ m \in Nat
    BY <1>2, <1>6
  <1>9. Numbered'
    BY <1>1, <1>2 DEF LinkInd, Numbered
  <1>10. unacked <= ack_limit - 1
    BY <1>5 DEF LinkInd, TypeOK
  <1>11. \A e \in 1 .. Reached : e \in ToSet(relayed) \union Unknown
    BY DEF LinkInd, Covered
  <1>12. CASE h \in Unknown /\ dropped' = dropped + 1 /\ UNCHANGED <<ackPackets, unacked, relayed>>
    <2>1. TypeOK'
      BY <1>1, <1>2, <1>5, <1>12 DEF LinkInd, TypeOK
    <2>2. pos' = Len(packets') + unacked' + m + acknowledged' + dropped'
      <3>1. pos = (Len(packets) - 1) + unacked + m + acknowledged + (dropped + 1)
        BY <1>5, <1>7, <1>8
      <3> QED BY <1>1, <1>8, <1>12, <3>1
    <2>3. ack_limit' * Len(ackPackets') = m
      BY <1>1, <1>6, <1>12
    <2>4. Carried'
      BY <1>1, <1>2, <2>2, <2>3 DEF Carried, Outstanding
    <2>5. Covered'
      <3>1. \A e \in 1 .. h : e = h \/ e \in 1 .. Reached
        BY <1>4
      <3> QED BY <1>4, <1>11, <1>12, <3>1 DEF Covered
    <2> QED BY <1>9, <1>12, <2>1, <2>4, <2>5 DEF LinkInd, ReceivedInOrder
  <1>13. CASE /\ h \notin Unknown /\ SendAcknowledgement(unacked + 1)
              /\ relayed' = Append(relayed, h) /\ UNCHANGED dropped
    <2>1. /\ ackPackets' \in Seq({ack_limit}) /\ unacked' \in 0 .. ack_limit - 1
          /\ unacked + 1 + m = unacked' + ack_limit * Len(ackPackets')
      <3>1. CASE /\ unacked + 1 >= ack_limit
                 /\ ackPackets' = Append(ackPackets, unacked + 1) /\ unacked' = 0
        <4>1. unacked + 1 = ack_limit
          BY <1>5, <1>10, <3>1
        <4>2. ackPackets' \in Seq({ack_limit}) /\ Len(ackPackets') = Len(ackPackets) + 1
          BY <3>1, <4>1 DEF LinkInd, TypeOK
        <4>3. ack_limit * (Len(ackPackets) + 1) = ack_limit * Len(ackPackets) + ack_limit
          BY <1>5
        <4>4. ack_limit * Len(ackPackets') = m + ack_limit
          BY <1>6, <4>2, <4>3
        <4>5. unacked + 1 + m = unacked' + (m + ack_limit)
          BY <1>5, <1>8, <3>1, <4>1
        <4> QED BY <1>5, <3>1, <4>2, <4>4, <4>5
      <3>2. CASE unacked + 1 < ack_limit /\ unacked' = unacked + 1 /\ UNCHANGED ackPackets
        <4>1. ackPackets' \in Seq({ack_limit}) /\ unacked' \in 0 .. ack_limit - 1
          BY <1>5, <3>2 DEF LinkInd, TypeOK
        <4> QED BY <1>6, <3>2, <4>1
      <3> QED BY <1>13, <3>1, <3>2 DEF SendAcknowledgement
    <2>2. relayed \in Seq(Event) /\ Len(relayed) \in Nat
      BY DEF LinkInd, TypeOK
    <2>3. /\ relayed' \in Seq(Event) /\ Len(relayed') = Len(relayed) + 1
          /\ \A i \in 1 .. Len(relayed) : relayed'[i] = relayed[i]
          /\ relayed'[Len(relayed) + 1] = h
          /\ ToSet(relayed') = ToSet(relayed) \union {h}
      BY <1>3, <1>13, <2>2, ToSetAppend
    <2>4. TypeOK'
      BY <1>1, <1>2, <1>5, <1>13, <2>1, <2>3 DEF LinkInd, TypeOK
    <2>5. PICK l \in Nat : l = ack_limit * Len(ackPackets')
      <3>1. Len(ackPackets') \in Nat
        BY <2>1
      <3>2. ack_limit * Len(ackPackets') \in Nat
        BY <1>5, <3>1
      <3> QED BY <3>2, Zenon
    <2>6. unacked + 1 + m = unacked' + l /\ l \in Nat /\ unacked' \in Nat
      BY <1>5, <2>1, <2>5
    <2>7. pos' = Len(packets') + unacked' + l + acknowledged' + dropped'
      <3>1. pos = (Len(packets) - 1) + (unacked + 1 + m) + acknowledged + dropped
        BY <1>5, <1>7, <1>8
      <3>2. acknowledged \in Nat /\ dropped \in Nat /\ Len(packets) - 1 \in Nat
        BY <1>5, <1>8
      <3>3. pos = (Len(packets) - 1) + (unacked' + l) + acknowledged + dropped
        BY <2>6, <3>1
      <3>4. pos = (Len(packets) - 1) + unacked' + l + acknowledged + dropped
        BY <2>6, <3>2, <3>3
      <3> QED BY <1>1, <1>8, <1>13, <3>4
    <2>8. Carried'
      BY <1>1, <1>2, <2>5, <2>7 DEF Carried, Outstanding
    <2>9. \A e \in 1 .. h : e \in ToSet(relayed) \union {h} \union Unknown
      <3>1. \A e \in 1 .. h : e = h \/ e \in 1 .. Reached
        BY <1>4
      <3> QED BY <1>11, <3>1
    <2>10. Covered'
      BY <1>4, <2>3, <2>9 DEF Covered
    <2>11. ReceivedInOrder'
      <3> SUFFICES ASSUME NEW i \in 1 .. Len(relayed'), NEW e \in 1 .. relayed'[i]
                   PROVE  e \in ToSet(SubSeq(relayed', 1, i)) \union Unknown
        BY DEF ReceivedInOrder
      <3>1. /\ \A j \in 1 .. Len(relayed) :
                 ToSet(SubSeq(relayed', 1, j)) = ToSet(SubSeq(relayed, 1, j))
            /\ ToSet(SubSeq(relayed', 1, Len(relayed) + 1)) = ToSet(relayed) \union {h}
        BY <1>3, <1>13, <2>2, ToSetPrefixes
      <3>2. CASE i = Len(relayed) + 1
        BY <2>3, <2>9, <3>1, <3>2
      <3>3. CASE i # Len(relayed) + 1
        <4>1. i \in 1 .. Len(relayed)
          BY <2>2, <2>3, <3>3
        <4>2. e \in 1 .. relayed[i]
          BY <2>3, <4>1
        <4>3. e \in ToSet(SubSeq(relayed, 1, i)) \union Unknown
          BY <4>1, <4>2 DEF LinkInd, ReceivedInOrder
        <4> QED BY <3>1, <4>1, <4>3
      <3> QED BY <3>2, <3>3
    <2> QED BY <1>9, <2>4, <2>8, <2>10, <2>11 DEF LinkInd
  <1> QED BY <1>3, <1>12, <1>13 DEF ReceiverRead

(* The connection breaks: the counts of both streams go with it, and with  *)
(* them the packets, so the events from First on are to be sent again.     *)
LEMMA BreakLink == ASSUME LinkInd, Break PROVE LinkInd'
  <1> USE AckLimitsAssumption, BoundsAssumption
  <1>1. /\ link = "up" /\ link' = "down" /\ breaks < MaxBreaks /\ breaks' = breaks + 1
        /\ packets' = <<>> /\ ackPackets' = <<>>
        /\ acknowledged' = 0 /\ unacked' = 0 /\ dropped' = 0
        /\ UNCHANGED <<events, pos, disk, ack_limit, relayed, popped, next>>
    BY DEF Break
  <1>2. TypeOK'
    BY <1>1 DEF LinkInd, TypeOK
  <1>3. First' = First
    BY <1>1 DEF First
  <1>4. Numbered' /\ Carried' /\ ReceivedInOrder'
    BY <1>1, <1>3 DEF LinkInd, Numbered, Carried, ReceivedInOrder
  <1>5. Covered'
    <2>1. /\ First \in Nat /\ pos \in Nat /\ Len(packets) \in Nat /\ Len(packets) <= pos
          /\ Reached = First + (pos - Len(packets)) /\ Reached' = First
      BY <1>1, <1>3, LinkCounts DEF LinkInd, Numbered, Carried, Reached
    <2>2. 1 .. Reached' \subseteq 1 .. Reached
      BY <2>1
    <2> QED BY <1>1, <2>2 DEF LinkInd, Covered
  <1> QED BY <1>2, <1>4, <1>5 DEF LinkInd

(* A new connection reads the muxer from its first event. *)
LEMMA ConnectLink == ASSUME LinkInd, Connect PROVE LinkInd'
  <1> USE AckLimitsAssumption, BoundsAssumption
  <1>1. /\ link = "down" /\ link' = "up" /\ pos' = 0
        /\ UNCHANGED <<events, disk, acknowledged, packets, ackPackets, ack_limit, unacked,
                       dropped, relayed, popped, next, breaks>>
    BY DEF Connect
  <1>2. /\ packets = <<>> /\ ackPackets = <<>> /\ acknowledged = 0 /\ unacked = 0 /\ dropped = 0
    BY <1>1 DEF LinkInd, Carried
  <1>3. TypeOK'
    BY <1>1 DEF LinkInd, TypeOK
  <1>4. First' = First /\ First \in Nat
    BY <1>1 DEF First, LinkInd, Numbered
  <1>5. Numbered' /\ ReceivedInOrder'
    BY <1>1, <1>4 DEF LinkInd, Numbered, ReceivedInOrder
  <1>6. Len(packets') = 0 /\ Len(ackPackets') = 0 /\ ack_limit \in Nat
    BY <1>1, <1>2, LinkCounts
  <1>7. First' + (pos' - Len(packets')) = First
    BY <1>1, <1>4, <1>6
  <1>8. Outstanding' = 0
    BY <1>1, <1>2, <1>6 DEF Outstanding
  <1>9. Carried'
    BY <1>1, <1>2, <1>6, <1>8, FollowsEmpty DEF Carried
  <1>10. Covered'
    BY <1>1, <1>7 DEF LinkInd, Covered, Reached
  <1> QED BY <1>3, <1>5, <1>9, <1>10 DEF LinkInd

(* Every step keeps the inductive invariant. *)
LEMMA LinkIndStep == LinkInd /\ [Next]_vars => LinkInd'
  <1> SUFFICES ASSUME LinkInd, [Next]_vars PROVE LinkInd'
    OBVIOUS
  <1>1. CASE UNCHANGED vars
    BY <1>1 DEF vars, LinkInd, TypeOK, Numbered, First, Carried, Covered, Reached,
                Outstanding, ReceivedInOrder
  <1>2. CASE Next
    BY <1>2, PublishLink, SenderWriteLink, SenderFlushLink, SenderReadLink,
       ReceiverReadLink, BreakLink, ConnectLink DEF Next
  <1> QED BY <1>1, <1>2

(* The counts pop only what was received. *)
LEMMA LinkIndImplies == LinkInd => LinkInv
  <1> SUFFICES ASSUME LinkInd PROVE LinkInv
    OBVIOUS
  <1>1. TypeOK /\ ReceivedInOrder /\ CountsAddUp
    BY DEF LinkInd, Carried, CountsAddUp
  <1>2. 1 .. First \subseteq 1 .. Reached
    <2>1. pos \in Nat /\ Len(packets) \in Nat /\ First \in Nat
      BY LinkCounts DEF LinkInd, Numbered
    <2>2. link = "up" => Len(packets) <= pos
      BY DEF LinkInd, Carried
    <2> QED BY <2>1, <2>2 DEF Reached
  <1>3. PoppedWasReceived
    BY <1>2 DEF LinkInd, Numbered, Covered, PoppedWasReceived
  <1> QED BY <1>1, <1>3 DEF LinkInv

(* Between two brokers whose connection breaks any number of times, an     *)
(* event leaves the sender only when the receiver has it or cannot decode  *)
(* it, though ack packets carry bare counts; events arrive in the order of *)
(* publication; and the counts add up to what was read from the muxer      *)
(* (bbdo::stream::read, acknowledge_events; failover::run; ack_events).    *)
THEOREM LinkCorrect == Spec => []LinkInv
  BY LinkIndInit, LinkIndStep, LinkIndImplies, PTL DEF Spec

-----------------------------------------------------------------------------
(***************************************************************************)
(* The negotiation of the layers, for any offers, any number of events and *)
(* any major versions.                                                     *)
(*                                                                         *)
(* What StacksAgree and LostOnlyCrossed lack to be inductive: all that an  *)
(* end writes is one stream whose blocks have a fixed place (the welcome   *)
(* packet, a TLS message when TLS is agreed, then the events through the   *)
(* agreed layers); what the other end has taken, holds in _packet and will *)
(* find on the connection is a prefix of it, in order; and the two ends    *)
(* are never so far apart that an end writes through a layer which the     *)
(* other, still before its handshake, would take for something else.       *)
(***************************************************************************)
(* The layers an end may have. *)
Lists == {<<>>, <<"TLS">>, <<"compression">>, <<"TLS", "compression">>}

(* TLS is the first of these layers. *)
Secure(all) == all # <<>> /\ Head(all) = "TLS"

(* The blocks before the events: the welcome packet, and a TLS message. *)
Heads(all) == IF Secure(all) THEN 2 ELSE 1

(* What an end writes at place m, whichever end it is. *)
Stream(all, m) ==
    IF m = 1 THEN Block(<<>>, "welcome", 0)
    ELSE IF m = 2 /\ Secure(all) THEN Block(<<>>, "hello", 0)
    ELSE Block(all, "event", m - Heads(all))

(* The layers that are pushed and those still to push. *)
Split(st, td, all) ==
    \/ st = <<>> /\ td = all
    \/ st = all /\ td = <<>>
    \/ all = <<"TLS", "compression">> /\ st = <<"TLS">> /\ td = <<"compression">>

(* What both ends offer. *)
Agreed == Layers(offer["first"] \intersect offer["second"])

(* Before the welcome packet of the peer; between it and the end of the    *)
(* TLS handshake; after both.                                              *)
Opening(e) == step[e] \in {"start", "wait"}
Welcomed(e) == step[e] = "handshake" \/ (step[e] = "apply" /\ Secure(todo[e]))
Clear(e) == step[e] = "run" \/ (step[e] = "apply" /\ ~ Secure(todo[e]))

(* Types. *)
Steps == {"start", "wait", "apply", "handshake", "run", "failed"}
BlockKinds == {"welcome", "hello", "event"}
Blocks == [under : Lists, kind : BlockKinds, no : Nat]
Strays == [plain : BOOLEAN, kind : BlockKinds, no : Nat]

NegTypes ==
    /\ step \in [End -> Steps] /\ todo \in [End -> Lists] /\ stack \in [End -> Lists]
    /\ inbox \in [End -> Seq(Blocks)] /\ stray \in [End -> Seq(Strays)]
    /\ emitted \in [End -> Nat] /\ arrived \in [End -> Seq(Nat)]
    /\ lost \in [End -> SUBSET Nat]
    /\ offer["first"] \subseteq Ext /\ offer["second"] \subseteq Ext

(* What one end knows of itself. *)
EndInd(e) ==
    /\ e = "second" => step[e] # "start"
    /\ Opening(e) => stack[e] = <<>> /\ todo[e] = <<>>
    /\ step[e] \in {"apply", "handshake", "run"} =>
          major["first"] = major["second"] /\ Split(stack[e], todo[e], Agreed)
    /\ step[e] = "handshake" => Secure(todo[e])
    /\ step[e] = "run" => todo[e] = <<>>
    /\ emitted[e] <= MaxWritten
    /\ step[e] \notin {"run", "failed"} => emitted[e] = 0
    /\ step[e] = "failed" => conn # "up"

(* How far apart the two ends may be. *)
JointInd ==
    /\ step["first"] = "start" => step["second"] \in {"wait", "failed"}
    /\ step["second"] = "wait" => step["first"] \in {"start", "wait", "failed"}
    /\ Secure(Agreed) /\ Clear("second")
          => step["first"] \in {"handshake", "failed"} \/ Clear("first")
    /\ Clear("first") => step["second"] = "failed" \/ Clear("second")

(* The events that are read or skipped carry consecutive numbers. *)
Skipped(e) == Cardinality(lost[e])
Counted(q, k) == \A i \in 1 .. Len(q) : q[i] = k + i
HistoryInd(e) ==
    /\ Skipped(e) \in 0 .. MaxWritten /\ lost[e] = 1 .. Skipped(e)
    /\ Counted(arrived[e], Skipped(e))
    /\ lost[e] # {} => e = "first" /\ Agreed = <<"compression">> /\ stack[e] = Agreed
    /\ step[e] \notin {"run", "failed"} => lost[e] = {} /\ arrived[e] = <<>>

(* What e has taken out of the stream of its peer, what s has put into     *)
(* its own, and what of the stream of its peer e has taken or will find.   *)
Consumed(e) == IF Opening(e) THEN 0 ELSE IF Welcomed(e) THEN 1
               ELSE Heads(Agreed) + Skipped(e) + Len(arrived[e])
Sent(s) == IF step[s] = "start" \/ (s = "second" /\ step[s] = "wait") THEN 0
           ELSE IF Clear(s) THEN Heads(Agreed) + emitted[s]
           ELSE IF s = "first" /\ step[s] = "handshake" THEN 2 ELSE 1
Total(e) == Consumed(e) + Len(stray[e]) + Len(inbox[e])

(* Blocks, and packets that are read, from place p + 1 of the stream. *)
Aligned(q, all, p) == \A i \in 1 .. Len(q) : q[i] = Stream(all, p + i)
Likewise(q, all, p) ==
    \A i \in 1 .. Len(q) :
        q[i].kind = Stream(all, p + i).kind /\ q[i].no = Stream(all, p + i).no
AllPlain(q) == \A i \in 1 .. Len(q) : q[i].plain
NonePlain(q) == \A i \in 1 .. Len(q) : ~ q[i].plain
PlainBelow(q, all) == \A i \in 1 .. Len(q) : q[i].plain <=> Stream(all, i).under = <<>>

(* The blocks between the ends: none is missing while the connection is    *)
(* up, and only those below the number of the packet may be missing when   *)
(* it is gone.                                                             *)
CountInd(e) ==
    /\ step[Other(e)] # "failed" => Total(e) <= Sent(Other(e))
    /\ conn = "up" => Total(e) = Sent(Other(e))
    /\ Total(e) <= Heads(Agreed) + emitted[Other(e)]
    /\ Opening(e) /\ (Secure(Agreed) \/ e = "second") => Total(e) <= 1

(* They are in order, and only what the acceptor sent through compression  *)
(* right behind its welcome packet is not plain.                           *)
OrderInd(e) ==
    /\ Likewise(stray[e], Agreed, Consumed(e))
    /\ Aligned(inbox[e], Agreed, Consumed(e) + Len(stray[e]))
    /\ Welcomed(e) => stray[e] = <<>>
    /\ Opening(e) => PlainBelow(stray[e], Agreed)
    /\ Clear(e) => \/ AllPlain(stray[e])
                   \/ /\ e = "first" /\ Agreed = <<"compression">> /\ arrived[e] = <<>>
                      /\ NonePlain(stray[e])

(* The part of the invariant about what an end receives. *)
TrafficInd(e) == step[e] # "failed" => CountInd(e) /\ OrderInd(e)

(* The inductive invariant. *)
Ind(e) == EndInd(e) /\ HistoryInd(e) /\ TrafficInd(e)
NegInd == NegTypes /\ JointInd /\ Ind("first") /\ Ind("second")

-----------------------------------------------------------------------------
(* Pairs are equal when their parts are. *)
LEMMA PairIs ==
    ASSUME NEW q \in Seq(Ext), Len(q) = 2, NEW r \in Seq(Ext), Len(r) = 2,
           q[1] = r[1], q[2] = r[2]
    PROVE  q = r
  OBVIOUS

(* The lists of layers. *)
LEMMA ListIs ==
    /\ <<>> # <<"TLS">> /\ <<>> # <<"compression">> /\ <<>> # <<"TLS", "compression">>
    /\ <<"TLS">> # <<"compression">> /\ <<"TLS">> # <<"TLS", "compression">>
    /\ <<"compression">> # <<"TLS", "compression">>
    /\ Head(<<"TLS">>) = "TLS" /\ Head(<<"compression">>) = "compression"
    /\ Head(<<"TLS", "compression">>) = "TLS"
    /\ Tail(<<"TLS">>) = <<>> /\ Tail(<<"compression">>) = <<>>
    /\ Tail(<<"TLS", "compression">>) = <<"compression">>
    /\ Append(<<>>, "TLS") = <<"TLS">> /\ Append(<<>>, "compression") = <<"compression">>
    /\ Append(<<"TLS">>, "compression") = <<"TLS", "compression">>
<1>1. /\ <<>> # <<"TLS">> /\ <<>> # <<"compression">> /\ <<>> # <<"TLS", "compression">>
      /\ <<"TLS">> # <<"compression">> /\ <<"TLS">> # <<"TLS", "compression">>
      /\ <<"compression">> # <<"TLS", "compression">>
  OBVIOUS
<1>2. Head(<<"TLS">>) = "TLS" /\ Head(<<"compression">>) = "compression"
      /\ Head(<<"TLS", "compression">>) = "TLS"
  OBVIOUS
<1>3. Tail(<<"TLS">>) = <<>>
  OBVIOUS
<1>4. Tail(<<"compression">>) = <<>>
  OBVIOUS
<1>5. Tail(<<"TLS", "compression">>) = <<"compression">>
  OBVIOUS
<1>6. Append(<<>>, "TLS") = <<"TLS">>
  OBVIOUS
<1>7. Append(<<>>, "compression") = <<"compression">>
  OBVIOUS
<1>8. Append(<<"TLS">>, "compression") = <<"TLS", "compression">>
  <2>1. <<"TLS">> \in Seq(Ext) /\ Len(<<"TLS">>) = 1 /\ <<"TLS">>[1] = "TLS" /\ "compression" \in Ext
    BY DEF Ext
  <2>2. PICK q : q = Append(<<"TLS">>, "compression")
    OBVIOUS
  <2>3. q \in Seq(Ext) /\ Len(q) = 2 /\ q[1] = "TLS" /\ q[2] = "compression"
    BY <2>1, <2>2
  <2>4. PICK r : r = <<"TLS", "compression">>
    OBVIOUS
  <2>5. r \in Seq(Ext) /\ Len(r) = 2 /\ r[1] = "TLS" /\ r[2] = "compression"
    BY <2>4 DEF Ext
  <2> QED
    BY <2>2, <2>3, <2>4, <2>5, PairIs
<1> QED
  BY <1>1, <1>2, <1>3, <1>4, <1>5, <1>6, <1>7, <1>8

(* Two extensions make four lists. *)
LEMMA LayersIs ==
    ASSUME NEW x \in SUBSET Ext
    PROVE  Layers(x) \in Lists
<1>1. (IF "TLS" \in x THEN <<"TLS">> ELSE <<>>) \in {<<>>, <<"TLS">>}
  OBVIOUS
<1>2. (IF "compression" \in x THEN <<"compression">> ELSE <<>>) \in {<<>>, <<"compression">>}
  OBVIOUS
<1>3. <<>> \o <<>> = <<>>
  OBVIOUS
<1>4. <<>> \o <<"compression">> = <<"compression">>
  OBVIOUS
<1>5. <<"TLS">> \o <<>> = <<"TLS">>
  OBVIOUS
<1>6. <<"TLS">> \o <<"compression">> = <<"TLS", "compression">>
  <2>1. <<"TLS">> \in Seq(Ext) /\ Len(<<"TLS">>) = 1 /\ <<"TLS">>[1] = "TLS"
        /\ <<"compression">> \in Seq(Ext) /\ Len(<<"compression">>) = 1
        /\ <<"compression">>[1] = "compression"
    BY DEF Ext
  <2>2. PICK q : q = <<"TLS">> \o <<"compression">>
    OBVIOUS
  <2>3. q \in Seq(Ext) /\ Len(q) = 2 /\ q[1] = "TLS" /\ q[2] = "compression"
    BY <2>1, <2>2
  <2>4. PICK r : r = <<"TLS", "compression">>
    OBVIOUS
  <2>5. r \in Seq(Ext) /\ Len(r) = 2 /\ r[1] = "TLS" /\ r[2] = "compression"
    BY <2>4 DEF Ext
  <2> QED
    BY <2>2, <2>3, <2>4, <2>5, PairIs
<1> QED
  BY <1>1, <1>2, <1>3, <1>4, <1>5, <1>6 DEF Layers, Lists

(* Which lists begin with TLS. *)
LEMMA SecureIs ==
    /\ ~ Secure(<<>>) /\ Secure(<<"TLS">>) /\ ~ Secure(<<"compression">>)
    /\ Secure(<<"TLS", "compression">>)
  BY ListIs DEF Secure

(* A layer that is pushed leaves the rest to push, and TLS comes first. *)
LEMMA PushSplits ==
    ASSUME NEW st, NEW td, NEW all \in Lists, Split(st, td, all), td # <<>>
    PROVE  /\ Split(Append(st, Head(td)), Tail(td), all)
           /\ Append(st, Head(td)) \in Lists /\ Tail(td) \in Lists
           /\ ~ Secure(Tail(td))
           /\ Secure(td) => Secure(all)
  BY ListIs, SecureIs DEF Split, Lists

(* Before TLS nothing is pushed. *)
LEMMA SplitSecure ==
    ASSUME NEW st, NEW td, NEW all \in Lists, Split(st, td, all), Secure(td)
    PROVE  st = <<>> /\ td = all
  BY ListIs, SecureIs DEF Split, Lists

(* What is written before the events. *)
LEMMA HeadsIs ==
    ASSUME NEW all
    PROVE  /\ Heads(all) \in {1, 2}
           /\ Secure(all) => Heads(all) = 2
           /\ ~ Secure(all) => Heads(all) = 1
  BY DEF Heads

(* What an end writes, by its place. *)
LEMMA StreamIs ==
    ASSUME NEW all \in Lists, NEW m \in Nat, m >= 1
    PROVE  /\ Stream(all, m) \in Blocks
           /\ Stream(all, 1) = Block(<<>>, "welcome", 0)
           /\ Secure(all) => Stream(all, 2) = Block(<<>>, "hello", 0)
           /\ m > Heads(all) => Stream(all, m) = Block(all, "event", m - Heads(all))
           /\ Stream(all, m).kind = "welcome" => m = 1
           /\ Stream(all, m).kind = "hello" => m = 2 /\ Secure(all)
           /\ m = 1 \/ m > Heads(all) \/ (m = 2 /\ Secure(all))
<1>1. Heads(all) \in {1, 2} /\ (Secure(all) => Heads(all) = 2) /\ (~ Secure(all) => Heads(all) = 1)
  BY HeadsIs
<1>2. <<>> \in Lists
  BY DEF Lists
<1>3. CASE m = 1
  BY <1>1, <1>2, <1>3 DEF Stream, Block, Blocks, BlockKinds
<1>4. CASE m = 2 /\ Secure(all)
  BY <1>1, <1>2, <1>4 DEF Stream, Block, Blocks, BlockKinds
<1>5. CASE m > 1 /\ ~ (m = 2 /\ Secure(all))
  <2>1. Stream(all, m) = Block(all, "event", m - Heads(all))
    BY <1>5 DEF Stream
  <2>2. m - Heads(all) \in Nat
    BY <1>1, <1>5
  <2> QED
    BY <1>1, <1>2, <1>5, <2>1, <2>2 DEF Stream, Block, Blocks, BlockKinds
<1> QED
  BY <1>3, <1>4, <1>5

(* The two ends. *)
LEMMA EndIs ==
    /\ Other("first") = "second" /\ Other("second") = "first"
    /\ "first" \in End /\ "second" \in End
    /\ \A e \in End : Other(e) \in End /\ Other(e) # e /\ Other(Other(e)) = e
  BY DEF End, Other

(* The invariant by ends. *)
LEMMA NegIndEnds ==
    /\ NegInd => NegTypes /\ JointInd /\ \A e \in End : Ind(e)
    /\ NegTypes /\ JointInd /\ (\A e \in End : Ind(e)) => NegInd
  BY DEF NegInd, End

(* What both offer is a list of layers. *)
LEMMA AgreedIs == NegTypes => Agreed \in Lists
  BY LayersIs DEF NegTypes, Agreed

(* One more block behind the others. *)
LEMMA AlignedAppend ==
    ASSUME NEW q \in Seq(Blocks), NEW all, NEW p \in Nat, NEW b \in Blocks, Aligned(q, all, p),
           b = Stream(all, p + Len(q) + 1)
    PROVE  /\ Aligned(Append(q, b), all, p) /\ Len(Append(q, b)) = Len(q) + 1
           /\ Append(q, b) \in Seq(Blocks)
<1> DEFINE r == Append(q, b)
<1>1. Len(r) = Len(q) + 1 /\ Len(q) \in Nat /\ r \in Seq(Blocks)
  OBVIOUS
<1>2. ASSUME NEW i \in 1 .. Len(r)
      PROVE  r[i] = Stream(all, p + i)
  <2>1. CASE i = Len(q) + 1
    <3>1. r[i] = b /\ p + i = p + Len(q) + 1
      BY <1>1, <2>1
    <3> QED
      BY <3>1
  <2>2. CASE i # Len(q) + 1
    <3>1. i \in 1 .. Len(q) /\ r[i] = q[i]
      BY <1>1, <2>2
    <3> QED
      BY <3>1 DEF Aligned
  <2> QED
    BY <2>1, <2>2
<1> QED
  BY <1>1, <1>2 DEF Aligned

(* The blocks behind those that are read. *)
LEMMA AlignedCut ==
    ASSUME NEW q \in Seq(Blocks), NEW all, NEW p \in Nat, Aligned(q, all, p),
           NEW n \in 1 .. Len(q)
    PROVE  /\ Aligned(SubSeq(q, n + 1, Len(q)), all, p + n)
           /\ Len(SubSeq(q, n + 1, Len(q))) = Len(q) - n
           /\ SubSeq(q, n + 1, Len(q)) \in Seq(Blocks)
<1>0. PICK r : r = SubSeq(q, n + 1, Len(q))
  OBVIOUS
<1>1. Len(r) = Len(q) - n /\ Len(q) \in Nat /\ r \in Seq(Blocks)
  BY <1>0
<1>2. ASSUME NEW i \in 1 .. Len(r)
      PROVE  r[i] = Stream(all, p + n + i)
  <2>1. r[i] = q[n + i] /\ n + i \in 1 .. Len(q)
    BY <1>0, <1>1
  <2>2. q[n + i] = Stream(all, p + (n + i)) /\ p + (n + i) = p + n + i
    BY <2>1 DEF Aligned
  <2> QED
    BY <2>1, <2>2
<1> QED
  BY <1>0, <1>1, <1>2 DEF Aligned

(* The blocks behind the first. *)
LEMMA AlignedTail ==
    ASSUME NEW q \in Seq(Blocks), NEW all, NEW p \in Nat, Aligned(q, all, p),
           q # <<>>
    PROVE  /\ Aligned(Tail(q), all, p + 1) /\ Len(Tail(q)) = Len(q) - 1 /\ Tail(q) \in Seq(Blocks)
           /\ Len(q) >= 1 /\ Head(q) = Stream(all, p + 1)
<1>0. PICK r : r = Tail(q)
  OBVIOUS
<1>1. Len(q) \in Nat /\ Len(q) >= 1 /\ Len(r) = Len(q) - 1 /\ r \in Seq(Blocks)
      /\ Head(q) = q[1]
  BY <1>0
<1>2. ASSUME NEW i \in 1 .. Len(r)
      PROVE  r[i] = Stream(all, p + 1 + i)
  <2>1. r[i] = q[1 + i] /\ 1 + i \in 1 .. Len(q)
    BY <1>0, <1>1
  <2>2. q[1 + i] = Stream(all, p + (1 + i)) /\ p + (1 + i) = p + 1 + i
    BY <2>1 DEF Aligned
  <2> QED
    BY <2>1, <2>2
<1>3. q[1] = Stream(all, p + 1)
  BY <1>0, <1>1 DEF Aligned
<1> QED
  BY <1>0, <1>1, <1>2, <1>3 DEF Aligned

(* The packets in _packet behind the first. *)
LEMMA LikewiseTail ==
    ASSUME NEW q \in Seq(Strays), NEW all, NEW p \in Nat, Likewise(q, all, p),
           q # <<>>
    PROVE  /\ Likewise(Tail(q), all, p + 1) /\ Len(Tail(q)) = Len(q) - 1 /\ Tail(q) \in Seq(Strays)
           /\ Len(q) >= 1 /\ Head(q).kind = Stream(all, p + 1).kind
           /\ Head(q).no = Stream(all, p + 1).no
           /\ Head(q) = q[1] /\ Head(q) \in Strays
           /\ \A i \in 1 .. Len(Tail(q)) : Tail(q)[i] = q[1 + i] /\ 1 + i \in 1 .. Len(q)
<1>0. PICK r : r = Tail(q)
  OBVIOUS
<1>1. Len(q) \in Nat /\ Len(q) >= 1 /\ Len(r) = Len(q) - 1 /\ r \in Seq(Strays)
      /\ Head(q) = q[1] /\ Head(q) \in Strays
  BY <1>0
<1>2. \A i \in 1 .. Len(r) : r[i] = q[1 + i] /\ 1 + i \in 1 .. Len(q)
  BY <1>0, <1>1
<1>3. ASSUME NEW i \in 1 .. Len(r)
      PROVE  r[i].kind = Stream(all, p + 1 + i).kind /\ r[i].no = Stream(all, p + 1 + i).no
  <2>1. r[i] = q[1 + i] /\ 1 + i \in 1 .. Len(q)
    BY <1>2
  <2>2. q[1 + i].kind = Stream(all, p + (1 + i)).kind /\ q[1 + i].no = Stream(all, p + (1 + i)).no
        /\ p + (1 + i) = p + 1 + i
    BY <2>1 DEF Likewise
  <2> QED
    BY <2>1, <2>2
<1>4. q[1].kind = Stream(all, p + 1).kind /\ q[1].no = Stream(all, p + 1).no
  BY <1>0, <1>1 DEF Likewise
<1> QED
  BY <1>0, <1>1, <1>2, <1>3, <1>4 DEF Likewise

(* The first blocks as they are read. *)
Heard(layers, q, n) == [i \in 1 .. n |-> Through(layers, q[i])]

(* Blocks read through layers come in the order they were written in. *)
LEMMA ThroughLikewise ==
    ASSUME NEW q \in Seq(Blocks), NEW all, NEW p \in Nat, Aligned(q, all, p),
           NEW n \in 1 .. Len(q), NEW layers
    PROVE  LET r == Heard(layers, q, n)
           IN  /\ r \in Seq(Strays) /\ Len(r) = n /\ Likewise(r, all, p)
               /\ \A i \in 1 .. n : r[i].plain <=> Stream(all, p + i).under = layers
<1>0. PICK r : r = [i \in 1 .. n |-> Through(layers, q[i])]
  OBVIOUS
<1>1. \A i \in 1 .. Len(q) : q[i] \in Blocks /\ q[i] = Stream(all, p + i)
  BY DEF Aligned
<1>2. \A i \in 1 .. n : i \in 1 .. Len(q)
  OBVIOUS
<1>3. \A i \in 1 .. n : Through(layers, q[i]) \in Strays
  BY <1>0, <1>1, <1>2 DEF Through, Blocks, Strays
<1>4. n \in Nat /\ r \in [1 .. n -> Strays]
  BY <1>0, <1>3
<1>5. r \in Seq(Strays) /\ Len(r) = n
  BY <1>0, <1>4
<1>6. \A i \in 1 .. n : r[i] = Through(layers, q[i])
  BY <1>0
<1>7. \A i \in 1 .. n : /\ r[i].kind = q[i].kind /\ r[i].no = q[i].no
                        /\ r[i].plain <=> q[i].under = layers
  BY <1>0, <1>6 DEF Through
<1> QED
  BY <1>0, <1>1, <1>2, <1>5, <1>7 DEF Likewise, Heard

-----------------------------------------------------------------------------

(* End o does not move, and the connection does not come back. *)
KeepEnd(o) ==
    /\ offer' = offer /\ major' = major
    /\ step'[o] = step[o] /\ todo'[o] = todo[o] /\ stack'[o] = stack[o]
    /\ stray'[o] = stray[o] /\ emitted'[o] = emitted[o]
    /\ arrived'[o] = arrived[o] /\ lost'[o] = lost[o]
ConnKept == conn' = conn \/ conn' # "up"

(* The offers never change. *)
LEMMA AgreedKept == offer' = offer => Agreed' = Agreed
  BY DEF Agreed

(* What follows from an end that does not move. *)
LEMMA KeptPhases ==
    ASSUME NEW o, KeepEnd(o)
    PROVE  /\ Opening(o)' <=> Opening(o)
           /\ Welcomed(o)' <=> Welcomed(o)
           /\ Clear(o)' <=> Clear(o)
           /\ Sent(o)' = Sent(o) /\ Consumed(o)' = Consumed(o) /\ Skipped(o)' = Skipped(o)
           /\ Agreed' = Agreed
<1>1. Agreed' = Agreed
  BY AgreedKept DEF KeepEnd
<1>2. (Opening(o)' <=> Opening(o)) /\ (Welcomed(o)' <=> Welcomed(o)) /\ (Clear(o)' <=> Clear(o))
  BY DEF KeepEnd, Opening, Welcomed, Clear
<1>3. Skipped(o)' = Skipped(o)
  BY DEF KeepEnd, Skipped
<1>4. Sent(o)' = Sent(o)
  BY <1>1, <1>2 DEF KeepEnd, Sent
<1>5. Consumed(o)' = Consumed(o)
  BY <1>1, <1>2, <1>3 DEF KeepEnd, Consumed
<1> QED
  BY <1>1, <1>2, <1>3, <1>4, <1>5

(* The end that does not move keeps its part. *)
LEMMA OtherEnd ==
    ASSUME NEW o \in End, EndInd(o), HistoryInd(o), KeepEnd(o), ConnKept
    PROVE  EndInd(o)' /\ HistoryInd(o)'
<1>1. /\ Opening(o)' <=> Opening(o)
      /\ Skipped(o)' = Skipped(o) /\ Agreed' = Agreed
  BY KeptPhases
<1>2. EndInd(o)'
  BY <1>1 DEF EndInd, KeepEnd, ConnKept
<1>3. Counted(arrived'[o], Skipped(o)')
  BY <1>1 DEF HistoryInd, KeepEnd
<1>4. HistoryInd(o)'
  BY <1>1, <1>3 DEF HistoryInd, KeepEnd
<1> QED
  BY <1>2, <1>4

(* The phases of an end exclude each other. *)
LEMMA PhaseIs ==
    ASSUME NEW e \in End, NegTypes
    PROVE  /\ step[e] # "failed" => Opening(e) \/ Welcomed(e) \/ Clear(e)
           /\ Opening(e) => ~ Welcomed(e) /\ ~ Clear(e)
           /\ Welcomed(e) => ~ Clear(e)
  BY DEF NegTypes, Steps, Opening, Welcomed, Clear

(* The counts are numbers. *)
LEMMA CountTypes ==
    ASSUME NEW e \in End, NegTypes, HistoryInd(e)
    PROVE  /\ Consumed(e) \in Nat /\ Sent(e) \in Nat /\ Skipped(e) \in Nat
           /\ Len(stray[e]) \in Nat /\ Len(inbox[e]) \in Nat /\ Len(arrived[e]) \in Nat
           /\ emitted[e] \in Nat
           /\ stray[e] \in Seq(Strays) /\ inbox[e] \in Seq(Blocks) /\ arrived[e] \in Seq(Nat)
<1>1. /\ stray[e] \in Seq(Strays) /\ inbox[e] \in Seq(Blocks) /\ arrived[e] \in Seq(Nat)
      /\ emitted[e] \in Nat
  BY DEF NegTypes
<1>2. Len(stray[e]) \in Nat /\ Len(inbox[e]) \in Nat /\ Len(arrived[e]) \in Nat
  BY <1>1
<1>3. Skipped(e) \in Nat /\ Heads(Agreed) \in {1, 2}
  BY HeadsIs, NegotiationAssumption DEF HistoryInd
<1>4. Consumed(e) \in Nat /\ Sent(e) \in Nat
  BY <1>1, <1>2, <1>3 DEF Consumed, Sent
<1> QED
  BY <1>1, <1>2, <1>3, <1>4

(* Nothing is sent to o, whatever its peer x does. *)
LEMMA OtherQuiet ==
    ASSUME NegTypes, NEW x \in End, NEW o \in End, o = Other(x), Ind(o), Ind(x), KeepEnd(o),
           inbox'[o] = inbox[o], ConnKept,
           step'[x] # "failed" => step[x] # "failed" /\ Sent(x)' >= Sent(x),
           conn' = "up" => Sent(x)' = Sent(x),
           emitted'[x] >= emitted[x], emitted'[x] \in Nat, Sent(x)' \in Nat
    PROVE  TrafficInd(o)'
<1> SUFFICES ASSUME step'[o] # "failed" PROVE CountInd(o)' /\ OrderInd(o)'
  BY DEF TrafficInd
<1>1. /\ Opening(o)' <=> Opening(o)
      /\ Welcomed(o)' <=> Welcomed(o)
      /\ Clear(o)' <=> Clear(o)
      /\ Consumed(o)' = Consumed(o) /\ Agreed' = Agreed
  BY KeptPhases
<1>2. CountInd(o) /\ OrderInd(o)
  BY DEF KeepEnd, Ind, TrafficInd
<1>3. stray'[o] = stray[o] /\ arrived'[o] = arrived[o]
  BY DEF KeepEnd
<1>4. Total(o)' = Total(o)
  BY <1>1, <1>3 DEF Total
<1>5. OrderInd(o)'
  BY <1>1, <1>2, <1>3 DEF OrderInd
<1>6. Other(o) = x
  BY EndIs
<1>7. conn' = "up" => conn = "up"
  BY DEF ConnKept
<1>8. Total(o) \in Nat /\ Sent(x) \in Nat /\ emitted[x] \in Nat /\ Heads(Agreed) \in Nat
  <2>1. Consumed(o) \in Nat /\ Len(stray[o]) \in Nat /\ Len(inbox[o]) \in Nat
    BY CountTypes DEF Ind
  <2>2. Sent(x) \in Nat /\ emitted[x] \in Nat
    BY CountTypes DEF Ind
  <2>3. Heads(Agreed) \in Nat
    BY HeadsIs
  <2>4. Total(o) \in Nat
    BY <2>1 DEF Total
  <2> QED
    BY <2>2, <2>3, <2>4
<1>9. /\ step[x] # "failed" => Total(o) <= Sent(x)
      /\ conn = "up" => Total(o) = Sent(x)
      /\ Total(o) <= Heads(Agreed) + emitted[x]
      /\ Opening(o) /\ (Secure(Agreed) \/ o = "second") => Total(o) <= 1
  BY <1>2, <1>6 DEF CountInd
<1>10. /\ step'[x] # "failed" => Total(o) <= Sent(x)'
       /\ conn' = "up" => Total(o) = Sent(x)'
       /\ Total(o) <= Heads(Agreed) + emitted'[x]
  BY <1>7, <1>8, <1>9
<1>11. CountInd(o)'
  BY <1>1, <1>4, <1>6, <1>9, <1>10 DEF CountInd
<1> QED
  BY <1>5, <1>11

(* Block b goes to o. *)
LEMMA OtherReceives ==
    ASSUME NegTypes, NEW x \in End, NEW o \in End, o = Other(x), Ind(o), Ind(x), KeepEnd(o),
           NEW b, b = Stream(Agreed, Sent(x) + 1), conn = "up", conn' = conn,
           inbox'[o] = Append(inbox[o], b),
           Sent(x)' = Sent(x) + 1,
           emitted'[x] \in Nat, Sent(x) + 1 <= Heads(Agreed) + emitted'[x],
           Opening(o) /\ (Secure(Agreed) \/ o = "second") => Sent(x) = 0
    PROVE  TrafficInd(o)'
<1> SUFFICES ASSUME step'[o] # "failed" PROVE CountInd(o)' /\ OrderInd(o)'
  BY DEF TrafficInd
<1>1. /\ Opening(o)' <=> Opening(o)
      /\ Welcomed(o)' <=> Welcomed(o)
      /\ Clear(o)' <=> Clear(o)
      /\ Consumed(o)' = Consumed(o) /\ Agreed' = Agreed
  BY KeptPhases
<1>2. CountInd(o) /\ OrderInd(o)
  BY DEF KeepEnd, Ind, TrafficInd
<1>3. stray'[o] = stray[o] /\ arrived'[o] = arrived[o]
  BY DEF KeepEnd
<1>4. /\ Consumed(o) \in Nat /\ Sent(x) \in Nat /\ emitted[x] \in Nat /\ Heads(Agreed) \in Nat
      /\ Len(stray[o]) \in Nat /\ Len(inbox[o]) \in Nat /\ inbox[o] \in Seq(Blocks)
      /\ Agreed \in Lists
  BY CountTypes, HeadsIs, AgreedIs DEF Ind
<1>5. Other(o) = x
  BY EndIs
<1>6. Total(o) = Sent(x)
  BY <1>2, <1>5 DEF CountInd
<1>7. Consumed(o) + Len(stray[o]) + Len(inbox[o]) = Sent(x)
  BY <1>6 DEF Total
<1>8. b \in Blocks
  BY <1>4, StreamIs
<1>9. Aligned(inbox'[o], Agreed, Consumed(o) + Len(stray[o])) /\ Len(inbox'[o]) = Len(inbox[o]) + 1
  <2>1. PICK p \in Nat : p = Consumed(o) + Len(stray[o])
    BY <1>4
  <2>2. b = Stream(Agreed, p + Len(inbox[o]) + 1)
    BY <1>4, <1>7, <2>1
  <2>3. Aligned(inbox[o], Agreed, p)
    BY <1>2, <2>1 DEF OrderInd
  <2>4. PICK q \in Seq(Blocks) : q = inbox[o]
    BY <1>4
  <2>5. Aligned(Append(q, b), Agreed, p) /\ Len(Append(q, b)) = Len(q) + 1
    BY <1>8, <2>2, <2>3, <2>4, AlignedAppend
  <2> QED
    BY <2>1, <2>4, <2>5
<1>10. OrderInd(o)'
  BY <1>1, <1>2, <1>3, <1>9 DEF OrderInd
<1>11. Total(o)' = Sent(x) + 1
  <2>1. Consumed(o)' = Consumed(o) /\ Len(stray'[o]) = Len(stray[o])
        /\ Len(inbox'[o]) = Len(inbox[o]) + 1
    BY <1>1, <1>3, <1>9
  <2>2. Total(o)' = Consumed(o) + Len(stray[o]) + (Len(inbox[o]) + 1)
    BY <2>1 DEF Total
  <2>3. \A i, j, k, n \in Nat : i + j + k = n => i + j + (k + 1) = n + 1
    OBVIOUS
  <2>4. Consumed(o) + Len(stray[o]) + (Len(inbox[o]) + 1) = Sent(x) + 1
    BY ONLY <1>4, <1>7, <2>3
  <2> QED
    BY ONLY <2>2, <2>4
<1>12. Opening(o) /\ (Secure(Agreed) \/ o = "second") => Sent(x) + 1 <= 1
  BY <1>4
<1>13. CountInd(o)'
  BY <1>1, <1>4, <1>5, <1>11, <1>12 DEF CountInd
<1> QED
  BY <1>10, <1>13

(* Nothing happens to what e has received. *)
LEMMA OwnQuiet ==
    ASSUME NegTypes, NEW e \in End, NEW o \in End, o = Other(e), Ind(e), Ind(o), KeepEnd(o),
           ConnKept, stray'[e] = stray[e], inbox'[e] = inbox[e], arrived'[e] = arrived[e],
           lost'[e] = lost[e], step[e] # "failed",
           Opening(e)' <=> Opening(e), Welcomed(e)' <=> Welcomed(e), Clear(e)' <=> Clear(e)
    PROVE  TrafficInd(e)'
<1>1. CountInd(e) /\ OrderInd(e)
  BY DEF Ind, TrafficInd
<1>2. Sent(o)' = Sent(o) /\ Agreed' = Agreed
  BY KeptPhases
<1>3. Consumed(e)' = Consumed(e)
  BY <1>2 DEF Consumed, Skipped
<1>4. Total(e)' = Total(e)
  BY <1>3 DEF Total
<1>5. emitted'[o] = emitted[o] /\ step'[o] = step[o]
  BY DEF KeepEnd
<1>6. CountInd(e)'
  BY <1>1, <1>2, <1>4, <1>5 DEF CountInd, ConnKept
<1>7. OrderInd(e)'
  BY <1>1, <1>2, <1>3 DEF OrderInd
<1> QED
  BY <1>6, <1>7 DEF TrafficInd

(* The history of e stays. *)
LEMMA OwnHistory ==
    ASSUME NEW e \in End, HistoryInd(e), Agreed' = Agreed,
           arrived'[e] = arrived[e], lost'[e] = lost[e],
           stack'[e] = stack[e] \/ lost[e] = {},
           step'[e] \in {"run", "failed"} \/ (lost[e] = {} /\ arrived[e] = <<>>)
    PROVE  HistoryInd(e)'
<1>1. Skipped(e)' = Skipped(e)
  BY DEF Skipped
<1> QED
  BY <1>1 DEF HistoryInd

(* No event is read before the negotiation ends. *)
LEMMA OwnEmpty ==
    ASSUME NEW e \in End, HistoryInd(e), step[e] \notin {"run", "failed"}
    PROVE  lost[e] = {} /\ arrived[e] = <<>> /\ Skipped(e) = 0
  BY FS_EmptySet DEF HistoryInd, Skipped

(* A block that is written. *)
LEMMA BlockType ==
    ASSUME NEW st \in Lists, NEW kind \in BlockKinds, NEW no \in Nat
    PROVE  Block(st, kind, no) \in Blocks
  BY DEF Block, Blocks

(* What Send leaves in the inboxes. *)
LEMMA SendIs ==
    ASSUME NegTypes, NEW e \in End, NEW o \in End, o = Other(e),
           NEW kind \in BlockKinds, NEW no \in Nat, Send(e, kind, no)
    PROVE  /\ inbox' \in [End -> Seq(Blocks)] /\ inbox'[e] = inbox[e]
           /\ conn = "up" => inbox'[o] = Append(inbox[o], Block(stack[e], kind, no))
           /\ conn # "up" => inbox'[o] = inbox[o]
<1>1. inbox \in [End -> Seq(Blocks)] /\ stack[e] \in Lists
  BY DEF NegTypes
<1>2. PICK b : b = Block(stack[e], kind, no)
  OBVIOUS
<1>3. b \in Blocks
  BY <1>1, <1>2, BlockType
<1>4. inbox' = IF conn = "up" THEN [inbox EXCEPT ![o] = Append(@, b)] ELSE inbox
  BY <1>2 DEF Send
<1>5. o # e
  BY EndIs
<1>6. Append(inbox[o], b) \in Seq(Blocks)
  BY <1>1, <1>3
<1> QED
  BY <1>1, <1>2, <1>4, <1>5, <1>6

(* A block that is next in the stream of x goes to o, or the connection    *)
(* is gone.                                                                *)
LEMMA SendTraffic ==
    ASSUME NegTypes, NEW x \in End, NEW o \in End, o = Other(x), Ind(o), Ind(x), KeepEnd(o),
           conn' = conn, NEW kind \in BlockKinds, NEW no \in Nat, Send(x, kind, no),
           Block(stack[x], kind, no) = Stream(Agreed, Sent(x) + 1),
           step[x] # "failed",
           Sent(x)' = Sent(x) + 1,
           emitted'[x] \in Nat, emitted'[x] >= emitted[x],
           Sent(x) + 1 <= Heads(Agreed) + emitted'[x],
           Opening(o) /\ (Secure(Agreed) \/ o = "second") => Sent(x) = 0
    PROVE  TrafficInd(o)'
<1>1. /\ conn = "up" => inbox'[o] = Append(inbox[o], Block(stack[x], kind, no))
      /\ conn # "up" => inbox'[o] = inbox[o]
  BY SendIs
<1>2. CASE conn = "up"
  <2>1. PICK b : b = Block(stack[x], kind, no)
    OBVIOUS
  <2>2. b = Stream(Agreed, Sent(x) + 1) /\ inbox'[o] = Append(inbox[o], b)
    BY <1>1, <1>2, <2>1
  <2> QED
    BY <1>2, <2>2, OtherReceives
<1>3. CASE conn # "up"
  <2>1. Sent(x) \in Nat
    BY CountTypes DEF Ind
  <2>2. Sent(x)' >= Sent(x) /\ Sent(x)' \in Nat
    BY <2>1
  <2> QED
    BY <1>1, <1>3, <2>2, OtherQuiet DEF ConnKept
<1> QED
  BY <1>2, <1>3

(* The invariant by the end that moves and the other. *)
LEMMA NegTogether ==
    ASSUME NegTypes', JointInd', NEW e \in End, NEW o \in End, o = Other(e), Ind(e)', Ind(o)'
    PROVE  NegInd'
  BY DEF NegInd, End, Other

(* An end gives up. *)
LEMMA FailInd ==
    ASSUME NegInd, NEW e \in End, Fail(e)
    PROVE  NegInd'
<1> DEFINE o == Other(e)
<1>0. o \in End /\ o # e /\ NegTypes /\ JointInd /\ Ind(e) /\ Ind(o)
  BY EndIs, NegIndEnds
<1>1. /\ step' = [step EXCEPT ![e] = "failed"] /\ conn' # "up"
      /\ UNCHANGED <<offer, major, todo, stack, inbox, stray, emitted, arrived, lost>>
  BY DEF Fail
<1>2. NegTypes'
  <2>1. step' \in [End -> Steps]
    BY <1>0, <1>1 DEF NegTypes, Steps
  <2> QED
    BY <1>0, <1>1, <2>1 DEF NegTypes
<1>3. step'[e] = "failed" /\ step'[o] = step[o]
  BY <1>0, <1>1 DEF NegTypes
<1>4. KeepEnd(o) /\ ConnKept /\ Agreed' = Agreed
  BY <1>1, <1>3, AgreedKept DEF KeepEnd, ConnKept
<1>5. EndInd(o)' /\ HistoryInd(o)'
  BY <1>0, <1>4, OtherEnd DEF Ind
<1>6. TrafficInd(o)'
  <2>1. Sent(e)' = 1
    BY <1>3 DEF Sent, Clear
  <2>2. emitted'[e] = emitted[e] /\ emitted[e] \in Nat /\ inbox'[o] = inbox[o]
    BY <1>0, <1>1 DEF NegTypes
  <2> HIDE DEF o
  <2>3. o = Other(e)
    BY DEF o
  <2> QED
    BY <1>0, <1>1, <1>3, <1>4, <2>1, <2>2, <2>3, OtherQuiet
<1>7. EndInd(e)'
  BY <1>0, <1>1, <1>3 DEF Ind, EndInd, Opening
<1>8. HistoryInd(e)'
  BY <1>0, <1>1, <1>3, <1>4, OwnHistory DEF Ind
<1>9. TrafficInd(e)'
  BY <1>3 DEF TrafficInd
<1>10. JointInd'
  <2>1. CASE e = "first"
    <3>1. step'["first"] = "failed" /\ step'["second"] = step["second"]
      BY <1>3, <2>1, EndIs
    <3> QED
      BY <3>1 DEF JointInd, Clear
  <2>2. CASE e = "second"
    <3>1. step'["second"] = "failed" /\ step'["first"] = step["first"]
      BY <1>3, <2>2, EndIs
    <3> QED
      BY <3>1 DEF JointInd, Clear
  <2> QED
    BY <2>1, <2>2 DEF End
<1> QED
  BY <1>0, <1>2, <1>5, <1>6, <1>7, <1>8, <1>9, <1>10, NegTogether DEF Ind

(* Nothing but the connection changes. *)
LEMMA QuietInd ==
    ASSUME NegInd, conn' = conn \/ conn' # "up",
           UNCHANGED <<offer, major, step, todo, stack, inbox, stray, emitted, arrived, lost>>
    PROVE  NegInd'
<1>1. NegTypes'
  BY DEF NegInd, NegTypes
<1>2. ASSUME NEW o \in End
      PROVE  Ind(o)'
  <2>1. PICK x \in End : x = Other(o) /\ o = Other(x)
    BY EndIs
  <2>2. NegTypes /\ Ind(o) /\ Ind(x)
    BY NegIndEnds
  <2>3. KeepEnd(o) /\ KeepEnd(x) /\ ConnKept
    BY DEF KeepEnd, ConnKept
  <2>4. Sent(x)' = Sent(x)
    BY <2>3, KeptPhases
  <2>5. Sent(x) \in Nat /\ emitted[x] \in Nat
    BY <2>2, CountTypes DEF Ind
  <2>6. emitted'[x] >= emitted[x] /\ emitted'[x] \in Nat /\ Sent(x)' >= Sent(x) /\ Sent(x)' \in Nat
    BY <2>4, <2>5
  <2>7. inbox'[o] = inbox[o] /\ step'[x] = step[x]
    OBVIOUS
  <2>8. TrafficInd(o)'
    BY <2>1, <2>2, <2>3, <2>4, <2>6, <2>7, OtherQuiet
  <2> QED
    BY <2>2, <2>3, <2>8, OtherEnd DEF Ind
<1>3. JointInd'
  <2>1. JointInd /\ Agreed' = Agreed
    BY AgreedKept DEF NegInd
  <2> QED
    BY <2>1 DEF JointInd, Clear
<1> QED
  BY <1>1, <1>2, <1>3, EndIs DEF NegInd

(* negotiate_first sends its packet. *)
LEMMA SendWelcomeInd == NegInd /\ SendWelcome => NegInd'
<1> SUFFICES ASSUME NegInd, SendWelcome PROVE NegInd'
  OBVIOUS
<1>0. PICK e \in End, o \in End : e = "first" /\ o = "second" /\ o = Other(e) /\ e = Other(o) /\ o # e
  BY EndIs
<1>1. NegTypes /\ JointInd /\ Ind(e) /\ Ind(o)
  BY NegIndEnds
<1>2. /\ step[e] = "start" /\ Send(e, "welcome", 0) /\ step' = [step EXCEPT ![e] = "wait"]
      /\ UNCHANGED <<offer, major, todo, stack, stray, conn, emitted, arrived, lost>>
  BY <1>0 DEF SendWelcome
<1>3. step'[e] = "wait" /\ step'[o] = step[o] /\ step' \in [End -> Steps]
  BY <1>0, <1>1, <1>2 DEF NegTypes, Steps
<1>4. "welcome" \in BlockKinds /\ 0 \in Nat
  BY DEF BlockKinds
<1>5. inbox' \in [End -> Seq(Blocks)] /\ inbox'[e] = inbox[e]
  BY <1>0, <1>1, <1>2, <1>4, SendIs
<1>6. NegTypes'
  BY <1>1, <1>2, <1>3, <1>5 DEF NegTypes
<1>7. KeepEnd(o) /\ ConnKept /\ Agreed' = Agreed
  BY <1>2, <1>3, AgreedKept DEF KeepEnd, ConnKept
<1>8. Opening(e) /\ Opening(e)' /\ ~ Welcomed(e) /\ ~ Welcomed(e)' /\ ~ Clear(e) /\ ~ Clear(e)'
  BY <1>2, <1>3 DEF Opening, Welcomed, Clear
<1>9. EndInd(e)'
  BY <1>0, <1>1, <1>2, <1>3, <1>8 DEF Ind, EndInd, Opening
<1>10. HistoryInd(e)'
  <2>1. lost[e] = {} /\ arrived[e] = <<>>
    BY <1>1, <1>2 DEF Ind, HistoryInd
  <2> QED
    BY <1>1, <1>2, <1>7, <2>1, OwnHistory DEF Ind
<1>11. TrafficInd(e)'
  BY <1>0, <1>1, <1>2, <1>5, <1>7, <1>8, OwnQuiet
<1>12. EndInd(o)' /\ HistoryInd(o)'
  BY <1>1, <1>7, OtherEnd DEF Ind
<1>13. TrafficInd(o)'
  <2>1. Sent(e) = 0 /\ Sent(e)' = 1
    BY <1>0, <1>2, <1>3, <1>8 DEF Sent
  <2>2. Agreed \in Lists /\ stack[e] = <<>>
    BY <1>1, <1>8, AgreedIs DEF Ind, EndInd
  <2>3. Block(stack[e], "welcome", 0) = Stream(Agreed, Sent(e) + 1)
    BY <2>1, <2>2, StreamIs
  <2>4. emitted'[e] = emitted[e] /\ emitted[e] \in Nat /\ Heads(Agreed) \in {1, 2}
    BY <1>1, <1>2, HeadsIs DEF NegTypes
  <2>5. /\ emitted'[e] \in Nat /\ emitted'[e] >= emitted[e] /\ Sent(e)' = Sent(e) + 1
        /\ Sent(e) + 1 <= Heads(Agreed) + emitted'[e] /\ step[e] # "failed"
    BY <1>2, <2>1, <2>4
  <2> QED
    BY <1>0, <1>1, <1>2, <1>4, <1>7, <2>1, <2>3, <2>5, SendTraffic
<1>14. JointInd'
  <2>1. step'["first"] = "wait" /\ step'["second"] = step["second"] /\ todo' = todo
        /\ step["second"] \in {"wait", "failed"}
    BY <1>0, <1>1, <1>2, <1>3 DEF JointInd
  <2> QED
    BY <2>1 DEF JointInd, Clear
<1> QED
  BY <1>0, <1>6, <1>9, <1>10, <1>11, <1>12, <1>13, <1>14, NegTogether DEF Ind

(* All the layers are pushed. *)
LEMMA SplitDone ==
    ASSUME NEW st, NEW all \in Lists, Split(st, <<>>, all)
    PROVE  st = all
  BY ListIs DEF Split, Lists

(* _negotiated = true. *)
LEMMA NegotiatedInd == \A e \in End : NegInd /\ Negotiated(e) => NegInd'
<1> SUFFICES ASSUME NEW e \in End, NegInd, Negotiated(e) PROVE NegInd'
  OBVIOUS
<1>0. PICK o \in End : o = Other(e) /\ e = Other(o) /\ o # e
  BY EndIs
<1>1. NegTypes /\ JointInd /\ Ind(e) /\ Ind(o)
  BY NegIndEnds
<1>2. /\ step[e] = "apply" /\ todo[e] = <<>> /\ step' = [step EXCEPT ![e] = "run"]
      /\ UNCHANGED <<offer, major, todo, stack, inbox, stray, conn, emitted, arrived, lost>>
  BY DEF Negotiated
<1>3. step'[e] = "run" /\ step'[o] = step[o] /\ step' \in [End -> Steps]
  BY <1>0, <1>1, <1>2 DEF NegTypes, Steps
<1>4. NegTypes'
  BY <1>1, <1>2, <1>3 DEF NegTypes
<1>5. KeepEnd(o) /\ ConnKept /\ Agreed' = Agreed
  BY <1>2, <1>3, AgreedKept DEF KeepEnd, ConnKept
<1>6. /\ Clear(e) /\ Clear(e)' /\ ~ Opening(e) /\ ~ Opening(e)' /\ ~ Welcomed(e) /\ ~ Welcomed(e)'
  BY <1>2, <1>3, SecureIs DEF Opening, Welcomed, Clear
<1>7. EndInd(e)'
  BY <1>1, <1>2, <1>3, <1>5, <1>6 DEF Ind, EndInd
<1>8. HistoryInd(e)'
  BY <1>1, <1>2, <1>3, <1>5, OwnHistory DEF Ind
<1>9. TrafficInd(e)'
  BY <1>0, <1>1, <1>2, <1>5, <1>6, OwnQuiet
<1>10. EndInd(o)' /\ HistoryInd(o)'
  BY <1>1, <1>5, OtherEnd DEF Ind
<1>11. TrafficInd(o)'
  <2>1. Sent(e)' = Sent(e)
    BY <1>2, <1>3, <1>5, <1>6 DEF Sent
  <2>2. Sent(e) \in Nat /\ emitted[e] \in Nat
    BY <1>1, CountTypes DEF Ind
  <2>3. Sent(e)' >= Sent(e) /\ Sent(e)' \in Nat /\ emitted'[e] >= emitted[e] /\ emitted'[e] \in Nat
        /\ inbox'[o] = inbox[o] /\ step[e] # "failed"
    BY <1>2, <2>1, <2>2
  <2> QED
    BY <1>0, <1>1, <1>5, <2>1, <2>3, OtherQuiet
<1>12. JointInd'
  <2>1. step'[o] = step[o] /\ (Clear(o)' <=> Clear(o)) /\ (Clear(e)' <=> Clear(e))
    BY <1>3, <1>5, <1>6, KeptPhases
  <2> QED
    BY <1>0, <1>1, <1>2, <1>3, <1>5, <1>6, <2>1 DEF JointInd, End
<1> QED
  BY <1>0, <1>4, <1>7, <1>8, <1>9, <1>10, <1>11, <1>12, NegTogether DEF Ind

(* An event is written. *)
LEMMA WriteEventInd == \A e \in End : NegInd /\ WriteEvent(e) => NegInd'
<1> SUFFICES ASSUME NEW e \in End, NegInd, WriteEvent(e) PROVE NegInd'
  OBVIOUS
<1>0. PICK o \in End : o = Other(e) /\ e = Other(o) /\ o # e
  BY EndIs
<1>1. NegTypes /\ JointInd /\ Ind(e) /\ Ind(o)
  BY NegIndEnds
<1>2. /\ step[e] = "run" /\ emitted[e] < MaxWritten
      /\ emitted' = [emitted EXCEPT ![e] = @ + 1] /\ Send(e, "event", emitted[e] + 1)
      /\ UNCHANGED <<offer, major, step, todo, stack, stray, conn, arrived, lost>>
  BY DEF WriteEvent
<1>3. /\ emitted[e] \in Nat /\ emitted'[e] = emitted[e] + 1 /\ emitted'[o] = emitted[o]
      /\ emitted' \in [End -> Nat] /\ emitted[e] + 1 <= MaxWritten
  BY <1>0, <1>1, <1>2, NegotiationAssumption DEF NegTypes
<1>4. "event" \in BlockKinds /\ emitted[e] + 1 \in Nat
  BY <1>3 DEF BlockKinds
<1>5. inbox' \in [End -> Seq(Blocks)] /\ inbox'[e] = inbox[e]
  BY <1>0, <1>1, <1>2, <1>4, SendIs
<1>6. NegTypes'
  BY <1>1, <1>2, <1>3, <1>5 DEF NegTypes
<1>7. KeepEnd(o) /\ ConnKept /\ Agreed' = Agreed
  BY <1>2, <1>3, AgreedKept DEF KeepEnd, ConnKept
<1>8. /\ Clear(e) /\ Clear(e)' /\ ~ Opening(e) /\ ~ Opening(e)' /\ ~ Welcomed(e) /\ ~ Welcomed(e)'
  BY <1>2 DEF Opening, Welcomed, Clear
<1>9. EndInd(e)'
  BY <1>1, <1>2, <1>3, <1>7, <1>8 DEF Ind, EndInd
<1>10. HistoryInd(e)'
  BY <1>1, <1>2, <1>7, OwnHistory DEF Ind
<1>11. TrafficInd(e)'
  BY <1>0, <1>1, <1>2, <1>5, <1>7, <1>8, OwnQuiet
<1>12. EndInd(o)' /\ HistoryInd(o)'
  BY <1>1, <1>7, OtherEnd DEF Ind
<1>13. TrafficInd(o)'
  <2>1. Sent(e) = Heads(Agreed) + emitted[e] /\ Sent(e)' = Heads(Agreed) + emitted'[e]
    BY <1>2, <1>7, <1>8 DEF Sent
  <2>2. Agreed \in Lists /\ stack[e] = Agreed
    BY <1>1, <1>2, AgreedIs, SplitDone DEF Ind, EndInd
  <2>3. Heads(Agreed) \in {1, 2}
    BY HeadsIs
  <2>4. PICK m \in Nat : m = Sent(e) + 1
    BY <1>3, <2>1, <2>3
  <2>5. m >= 1 /\ m > Heads(Agreed) /\ m - Heads(Agreed) = emitted[e] + 1
    BY <1>3, <2>1, <2>3, <2>4
  <2>6. Block(stack[e], "event", emitted[e] + 1) = Stream(Agreed, Sent(e) + 1)
    BY <2>2, <2>4, <2>5, StreamIs
  <2>7. /\ emitted'[e] \in Nat /\ emitted'[e] >= emitted[e] /\ Sent(e)' = Sent(e) + 1
        /\ Sent(e) + 1 <= Heads(Agreed) + emitted'[e]
    BY <1>3, <2>1, <2>3
  <2>8. ~ (Opening(o) /\ (Secure(Agreed) \/ o = "second"))
    <3>1. CASE e = "first"
      BY <1>0, <1>1, <1>8, <3>1 DEF JointInd, End, Opening, Clear
    <3>2. CASE e = "second"
      BY <1>0, <1>1, <1>8, <3>2 DEF JointInd, End, Opening, Clear
    <3> QED
      BY <3>1, <3>2 DEF End
  <2>9. step[e] # "failed" /\ conn' = conn
    BY <1>2
  <2> QED
    BY <1>0, <1>1, <1>2, <1>4, <1>7, <2>6, <2>7, <2>8, <2>9, SendTraffic
<1>14. JointInd'
  BY <1>1, <1>2, <1>7 DEF JointInd, Clear
<1> QED
  BY <1>0, <1>6, <1>9, <1>10, <1>11, <1>12, <1>13, <1>14, NegTogether DEF Ind

(* A compression layer. *)
LEMMA PushInd ==
    ASSUME NegInd, NEW e \in End, step[e] = "apply", todo[e] # <<>>, Head(todo[e]) # "TLS",
           Push(e),
           UNCHANGED <<offer, major, step, inbox, stray, conn, emitted, arrived, lost>>
    PROVE  NegInd'
<1>0. PICK o \in End : o = Other(e) /\ e = Other(o) /\ o # e
  BY EndIs
<1>1. NegTypes /\ JointInd /\ Ind(e) /\ Ind(o)
  BY NegIndEnds
<1>2. /\ stack' = [stack EXCEPT ![e] = Append(@, Head(todo[e]))]
      /\ todo' = [todo EXCEPT ![e] = Tail(@)]
  BY DEF Push
<1>3. Agreed \in Lists /\ Split(stack[e], todo[e], Agreed) /\ ~ Secure(todo[e])
  BY <1>1, AgreedIs DEF Ind, EndInd, Secure
<1>4. PICK st, td : st = Append(stack[e], Head(todo[e])) /\ td = Tail(todo[e])
  OBVIOUS
<1>5. Split(st, td, Agreed) /\ st \in Lists /\ td \in Lists /\ ~ Secure(td)
  BY <1>3, <1>4, PushSplits
<1>6. /\ stack' = [stack EXCEPT ![e] = st] /\ todo' = [todo EXCEPT ![e] = td]
  BY <1>2, <1>4
<1>7. /\ stack' \in [End -> Lists] /\ todo' \in [End -> Lists]
      /\ stack'[e] = st /\ todo'[e] = td /\ stack'[o] = stack[o] /\ todo'[o] = todo[o]
  BY <1>0, <1>1, <1>5, <1>6 DEF NegTypes
<1>8. NegTypes'
  BY <1>1, <1>7 DEF NegTypes
<1>9. KeepEnd(o) /\ ConnKept /\ Agreed' = Agreed
  BY <1>7, AgreedKept DEF KeepEnd, ConnKept
<1>10. /\ Clear(e) /\ Clear(e)' /\ ~ Opening(e) /\ ~ Opening(e)' /\ ~ Welcomed(e) /\ ~ Welcomed(e)'
  BY <1>3, <1>5, <1>7 DEF Opening, Welcomed, Clear
<1>11. EndInd(e)'
  BY <1>1, <1>5, <1>7, <1>9, <1>10 DEF Ind, EndInd
<1>12. HistoryInd(e)'
  <2>1. lost[e] = {} /\ arrived[e] = <<>>
    BY <1>1, OwnEmpty DEF Ind
  <2> QED
    BY <1>1, <1>9, <2>1, OwnHistory DEF Ind
<1>13. TrafficInd(e)'
  BY <1>0, <1>1, <1>9, <1>10, OwnQuiet
<1>14. EndInd(o)' /\ HistoryInd(o)'
  BY <1>1, <1>9, OtherEnd DEF Ind
<1>15. TrafficInd(o)'
  <2>1. Sent(e)' = Sent(e)
    BY <1>9, <1>10 DEF Sent
  <2>2. Sent(e) \in Nat /\ emitted[e] \in Nat
    BY <1>1, CountTypes DEF Ind
  <2>3. Sent(e)' >= Sent(e) /\ Sent(e)' \in Nat /\ emitted'[e] >= emitted[e] /\ emitted'[e] \in Nat
        /\ inbox'[o] = inbox[o] /\ step'[e] = step[e]
    BY <2>1, <2>2
  <2> QED
    BY <1>0, <1>1, <1>9, <2>1, <2>3, OtherQuiet
<1>16. JointInd'
  <2>1. step' = step /\ (Clear(o)' <=> Clear(o)) /\ (Clear(e)' <=> Clear(e))
    BY <1>9, <1>10, KeptPhases
  <2> QED
    BY <1>0, <1>1, <1>9, <1>10, <2>1 DEF JointInd, End
<1> QED
  BY <1>0, <1>8, <1>11, <1>12, <1>13, <1>14, <1>15, <1>16, NegTogether DEF Ind

(* Blocks are read from the connection. *)
LEMMA ReadBlockInd == \A e \in End : NegInd /\ ReadBlock(e) => NegInd'
<1> SUFFICES ASSUME NEW e \in End, NegInd, ReadBlock(e) PROVE NegInd'
  OBVIOUS
<1>0. PICK o \in End : o = Other(e) /\ e = Other(o) /\ o # e
  BY EndIs
<1>1. NegTypes /\ JointInd /\ Ind(e) /\ Ind(o)
  BY NegIndEnds
<1>2. /\ step[e] \in {"wait", "run"} /\ stray[e] = <<>>
      /\ UNCHANGED <<offer, major, step, todo, stack, conn, emitted, arrived, lost>>
  BY DEF ReadBlock
<1>3. PICK n \in 1 .. Len(inbox[e]) :
         /\ stray' = [stray EXCEPT ![e] = [i \in 1 .. n |-> Through(stack[e], inbox[e][i])]]
         /\ inbox' = [inbox EXCEPT ![e] = SubSeq(@, n + 1, Len(@))]
  BY DEF ReadBlock
<1>4. PICK r, q : /\ r = [i \in 1 .. n |-> Through(stack[e], inbox[e][i])]
                  /\ q = SubSeq(inbox[e], n + 1, Len(inbox[e]))
  OBVIOUS
<1>5. stray' = [stray EXCEPT ![e] = r] /\ inbox' = [inbox EXCEPT ![e] = q]
  BY <1>3, <1>4
<1>6. /\ Consumed(e) \in Nat /\ Sent(e) \in Nat /\ Len(inbox[e]) \in Nat
      /\ emitted[e] \in Nat /\ inbox[e] \in Seq(Blocks) /\ Agreed \in Lists
  BY <1>1, CountTypes, AgreedIs DEF Ind
<1>7. CountInd(e) /\ OrderInd(e)
  BY <1>1, <1>2 DEF Ind, TrafficInd
<1>8. Aligned(inbox[e], Agreed, Consumed(e))
  <2>1. Len(stray[e]) = 0
    BY <1>2
  <2>2. Consumed(e) + Len(stray[e]) = Consumed(e)
    BY <1>6, <2>1
  <2> QED
    BY <1>7, <2>2 DEF OrderInd
<1>9. /\ r \in Seq(Strays) /\ Len(r) = n /\ Likewise(r, Agreed, Consumed(e))
      /\ \A i \in 1 .. n : r[i].plain <=> Stream(Agreed, Consumed(e) + i).under = stack[e]
  <2>1. PICK p, all, bs, layers :
            p = Consumed(e) /\ all = Agreed /\ bs = inbox[e] /\ layers = stack[e]
    OBVIOUS
  <2>2. /\ p \in Nat /\ bs \in Seq(Blocks) /\ Aligned(bs, all, p) /\ n \in 1 .. Len(bs)
        /\ r = Heard(layers, bs, n)
    BY <1>4, <1>6, <1>8, <2>1 DEF Heard
  <2>3. /\ r \in Seq(Strays) /\ Len(r) = n /\ Likewise(r, all, p)
        /\ \A i \in 1 .. n : r[i].plain <=> Stream(all, p + i).under = layers
    BY <2>2, ThroughLikewise
  <2> QED
    BY <2>1, <2>3
<1>10. Aligned(q, Agreed, Consumed(e) + n) /\ Len(q) = Len(inbox[e]) - n /\ q \in Seq(Blocks)
  <2>1. PICK p, all, bs : p = Consumed(e) /\ all = Agreed /\ bs = inbox[e]
    OBVIOUS
  <2>2. p \in Nat /\ bs \in Seq(Blocks) /\ Aligned(bs, all, p) /\ n \in 1 .. Len(bs) /\ q = SubSeq(bs, n + 1, Len(bs))
    BY <1>4, <1>6, <1>8, <2>1
  <2>3. Aligned(q, all, p + n) /\ Len(q) = Len(bs) - n /\ q \in Seq(Blocks)
    BY <2>2, AlignedCut
  <2> QED
    BY <2>1, <2>3
<1>11. /\ stray' \in [End -> Seq(Strays)] /\ inbox' \in [End -> Seq(Blocks)]
       /\ stray'[e] = r /\ stray'[o] = stray[o] /\ inbox'[e] = q /\ inbox'[o] = inbox[o]
  BY <1>0, <1>1, <1>5, <1>9, <1>10 DEF NegTypes
<1>12. NegTypes'
  BY <1>1, <1>2, <1>11 DEF NegTypes
<1>13. KeepEnd(o) /\ ConnKept /\ Agreed' = Agreed
  BY <1>2, <1>11, AgreedKept DEF KeepEnd, ConnKept
<1>14. /\ Opening(e)' <=> Opening(e)
       /\ Welcomed(e)' <=> Welcomed(e)
       /\ Clear(e)' <=> Clear(e)
       /\ Sent(e)' = Sent(e) /\ Consumed(e)' = Consumed(e)
  <2>1. /\ Opening(e)' <=> Opening(e)
        /\ Welcomed(e)' <=> Welcomed(e)
        /\ Clear(e)' <=> Clear(e)
    BY <1>2 DEF Opening, Welcomed, Clear
  <2>2. Sent(e)' = Sent(e)
    BY <1>2, <1>13, <2>1 DEF Sent
  <2>3. Consumed(e)' = Consumed(e)
    BY <1>2, <1>13, <2>1 DEF Consumed, Skipped
  <2> QED
    BY <2>1, <2>2, <2>3
<1>15. EndInd(e)'
  BY <1>1, <1>2, <1>13, <1>14 DEF Ind, EndInd
<1>16. HistoryInd(e)'
  <2>1. step[e] = "wait" => lost[e] = {} /\ arrived[e] = <<>>
    BY <1>1 DEF Ind, HistoryInd
  <2> QED
    BY <1>1, <1>2, <1>13, <2>1, OwnHistory DEF Ind
<1>17. CountInd(e)'
  <2>1. Total(e)' = Total(e)
    <3>1. Len(stray'[e]) = n /\ Len(inbox'[e]) = Len(inbox[e]) - n /\ Len(stray[e]) = 0
      BY <1>2, <1>9, <1>10, <1>11
    <3>2. Total(e)' = Consumed(e) + n + (Len(inbox[e]) - n)
      BY <1>14, <3>1 DEF Total
    <3>3. Total(e) = Consumed(e) + 0 + Len(inbox[e])
      BY <3>1 DEF Total
    <3>4. n \in Nat
      OBVIOUS
    <3> QED
      BY <1>6, <3>2, <3>3, <3>4
  <2>2. Sent(o)' = Sent(o) /\ step'[o] = step[o] /\ emitted'[o] = emitted[o]
    BY <1>2, <1>13, KeptPhases
  <2> QED
    BY <1>0, <1>2, <1>7, <1>13, <1>14, <2>1, <2>2 DEF CountInd
<1>18. OrderInd(e)'
  <2>1. Likewise(stray'[e], Agreed', Consumed(e)')
    BY <1>9, <1>11, <1>13, <1>14
  <2>2. Aligned(inbox'[e], Agreed', Consumed(e)' + Len(stray'[e]))
    BY <1>9, <1>10, <1>11, <1>13, <1>14
  <2>3. ~ Welcomed(e)'
    BY <1>2 DEF Welcomed
  <2>4. Opening(e)' => PlainBelow(stray'[e], Agreed')
    <3> SUFFICES ASSUME Opening(e) PROVE PlainBelow(r, Agreed)
      BY <1>11, <1>13, <1>14
    <3>1. Consumed(e) = 0 /\ stack[e] = <<>>
      BY <1>1 DEF Ind, EndInd, Consumed
    <3>2. \A i \in 1 .. n : Consumed(e) + i = i
      BY <3>1
    <3>3. \A i \in 1 .. n : r[i].plain <=> Stream(Agreed, i).under = <<>>
      BY <1>9, <3>1, <3>2
    <3> QED
      BY <1>9, <3>3 DEF PlainBelow
  <2>5. Clear(e)' => AllPlain(stray'[e])
    <3> SUFFICES ASSUME Clear(e) PROVE AllPlain(r)
      BY <1>11, <1>14
    <3>1. step[e] = "run" /\ ~ Opening(e) /\ ~ Welcomed(e)
      BY <1>2 DEF Clear, Opening, Welcomed
    <3>2. stack[e] = Agreed
      BY <1>1, <1>6, <3>1, SplitDone DEF Ind, EndInd
    <3>3. Consumed(e) = Heads(Agreed) + Skipped(e) + Len(arrived[e])
      BY <3>1 DEF Consumed
    <3>4. Skipped(e) \in Nat /\ Len(arrived[e]) \in Nat /\ Heads(Agreed) \in Nat
      BY <1>1, CountTypes, HeadsIs DEF Ind
    <3>5. ASSUME NEW i \in 1 .. n
          PROVE  r[i].plain
      <4>1. PICK m \in Nat : m = Consumed(e) + i
        BY <1>6
      <4>2. m >= 1 /\ m > Heads(Agreed) /\ i \in 1 .. n
        BY <1>6, <3>3, <3>4, <4>1
      <4>3. Stream(Agreed, m).under = Agreed
        BY <1>6, <4>2, StreamIs DEF Block
      <4> QED
        BY <1>9, <3>2, <4>1, <4>3
    <3> QED
      BY <1>9, <3>5 DEF AllPlain
  <2> QED
    BY <2>1, <2>2, <2>3, <2>4, <2>5 DEF OrderInd
<1>19. EndInd(o)' /\ HistoryInd(o)'
  BY <1>1, <1>13, OtherEnd DEF Ind
<1>20. TrafficInd(o)'
  <2>1. Sent(e)' >= Sent(e) /\ Sent(e)' \in Nat /\ emitted'[e] >= emitted[e] /\ emitted'[e] \in Nat
        /\ inbox'[o] = inbox[o] /\ step[e] # "failed"
    BY <1>2, <1>6, <1>11, <1>14
  <2> QED
    BY <1>0, <1>1, <1>13, <1>14, <2>1, OtherQuiet
<1>21. JointInd'
  BY <1>1, <1>2, <1>13 DEF JointInd, Clear
<1> QED
  BY <1>0, <1>12, <1>15, <1>16, <1>17, <1>18, <1>19, <1>20, <1>21, NegTogether DEF Ind, TrafficInd

(* One more event is skipped. *)
LEMMA NextNumber ==
    ASSUME NEW k \in Nat, NEW L, NEW m, L = 1 .. k, m = k + 1
    PROVE  L \union {m} = 1 .. (k + 1) /\ Cardinality(L \union {m}) = k + 1
<1>1. L \union {m} = 1 .. (k + 1)
  OBVIOUS
<1>2. Cardinality(1 .. (k + 1)) = k + 1
  <2>1. 1 \in Int /\ k + 1 \in Int /\ k + 1 >= 1 /\ (k + 1) - 1 + 1 = k + 1
    OBVIOUS
  <2>2. PICK n \in Int : n = k + 1
    BY <2>1
  <2>3. Cardinality(1 .. n) = n
    <3>1. Cardinality(1 .. n) = IF 1 > n THEN 0 ELSE n - 1 + 1
      BY FS_Interval
    <3> QED
      BY <2>2, <3>1
  <2> QED
    BY <2>2, <2>3
<1> QED
  BY <1>1, <1>2

(* One more event is read. *)
LEMMA CountedAppend ==
    ASSUME NEW q \in Seq(Nat), NEW k \in Nat, Counted(q, k), NEW m \in Nat,
           m = k + Len(q) + 1
    PROVE  /\ Counted(Append(q, m), k) /\ Append(q, m) \in Seq(Nat)
           /\ Len(Append(q, m)) = Len(q) + 1
<1>1. PICK r : r = Append(q, m)
  OBVIOUS
<1>2. r \in Seq(Nat) /\ Len(r) = Len(q) + 1 /\ Len(q) \in Nat
  BY <1>1
<1>3. ASSUME NEW i \in 1 .. Len(r)
      PROVE  r[i] = k + i
  <2>1. CASE i = Len(q) + 1
    BY <1>1, <1>2, <2>1
  <2>2. CASE i # Len(q) + 1
    <3>1. i \in 1 .. Len(q) /\ r[i] = q[i]
      BY <1>1, <1>2, <2>2
    <3> QED
      BY <3>1 DEF Counted
  <2> QED
    BY <2>1, <2>2
<1> QED
  BY <1>1, <1>2, <1>3 DEF Counted

(* _read_any returns an event or skips it. *)
LEMMA ReadEventInd == \A e \in End : NegInd /\ ReadEvent(e) => NegInd'
<1> SUFFICES ASSUME NEW e \in End, NegInd, ReadEvent(e) PROVE NegInd'
  OBVIOUS
<1>0. PICK o \in End : o = Other(e) /\ e = Other(o) /\ o # e
  BY EndIs
<1>1. NegTypes /\ JointInd /\ Ind(e) /\ Ind(o)
  BY NegIndEnds
<1>2. /\ step[e] = "run" /\ stray[e] # <<>>
      /\ stray' = [stray EXCEPT ![e] = Tail(@)]
      /\ UNCHANGED <<offer, major, step, todo, stack, inbox, conn, emitted>>
  BY DEF ReadEvent
<1>3. PICK b : b = Head(stray[e])
  OBVIOUS
<1>4. \/ /\ b.plain
         /\ arrived' = [arrived EXCEPT ![e] = Append(@, b.no)] /\ UNCHANGED lost
      \/ /\ ~ b.plain
         /\ lost' = [lost EXCEPT ![e] = @ \union {b.no}] /\ UNCHANGED arrived
  BY <1>3 DEF ReadEvent
<1>5. /\ Consumed(e) \in Nat /\ Sent(e) \in Nat /\ Len(inbox[e]) \in Nat /\ Skipped(e) \in Nat
      /\ Len(arrived[e]) \in Nat /\ arrived[e] \in Seq(Nat) /\ Len(stray[e]) \in Nat
      /\ emitted[e] \in Nat /\ stray[e] \in Seq(Strays) /\ Agreed \in Lists
      /\ emitted[o] \in Nat /\ Heads(Agreed) \in {1, 2}
  BY <1>1, CountTypes, AgreedIs, HeadsIs DEF Ind
<1>6. CountInd(e) /\ OrderInd(e) /\ HistoryInd(e) /\ EndInd(e)
  BY <1>1, <1>2 DEF Ind, TrafficInd
<1>7. Clear(e) /\ ~ Opening(e) /\ ~ Welcomed(e)
  BY <1>2 DEF Clear, Opening, Welcomed
<1>8. Consumed(e) = Heads(Agreed) + Skipped(e) + Len(arrived[e])
  BY <1>7 DEF Consumed
<1>9. PICK r : r = Tail(stray[e])
  OBVIOUS
<1>10. /\ Likewise(r, Agreed, Consumed(e) + 1) /\ Len(r) = Len(stray[e]) - 1 /\ r \in Seq(Strays)
       /\ Len(stray[e]) >= 1 /\ b.no = Stream(Agreed, Consumed(e) + 1).no
       /\ b = stray[e][1] /\ b \in Strays
       /\ \A i \in 1 .. Len(r) : r[i] = stray[e][1 + i] /\ 1 + i \in 1 .. Len(stray[e])
  <2>1. PICK p, all, bs : p = Consumed(e) /\ all = Agreed /\ bs = stray[e]
    OBVIOUS
  <2>2. /\ p \in Nat /\ bs \in Seq(Strays) /\ Likewise(bs, all, p) /\ bs # <<>>
        /\ r = Tail(bs) /\ b = Head(bs)
    BY <1>2, <1>3, <1>5, <1>6, <1>9, <2>1 DEF OrderInd
  <2>3. /\ Likewise(r, all, p + 1) /\ Len(r) = Len(bs) - 1 /\ r \in Seq(Strays)
        /\ Len(bs) >= 1 /\ Head(bs).no = Stream(all, p + 1).no
        /\ Head(bs) = bs[1] /\ Head(bs) \in Strays
        /\ \A i \in 1 .. Len(r) : r[i] = bs[1 + i] /\ 1 + i \in 1 .. Len(bs)
    BY <2>2, LikewiseTail
  <2> QED
    BY <2>1, <2>2, <2>3
<1>11. b.no = Skipped(e) + Len(arrived[e]) + 1 /\ b.no \in Nat
  <2>1. PICK m \in Nat : m = Consumed(e) + 1
    BY <1>5
  <2>2. m >= 1 /\ m > Heads(Agreed) /\ m - Heads(Agreed) = Skipped(e) + Len(arrived[e]) + 1
    BY <1>5, <1>8, <2>1
  <2>3. Stream(Agreed, m).no = m - Heads(Agreed)
    BY <1>5, <2>2, StreamIs DEF Block
  <2> QED
    BY <1>5, <1>10, <2>1, <2>2, <2>3
<1>12. /\ stray' \in [End -> Seq(Strays)] /\ stray'[e] = r /\ stray'[o] = stray[o]
  BY <1>0, <1>1, <1>2, <1>9, <1>10 DEF NegTypes
<1>13. 1 \in 1 .. Len(stray[e])
  BY <1>5, <1>10
<1>14. stack[e] = Agreed
  BY <1>2, <1>5, <1>6, SplitDone DEF EndInd
<1>15. /\ Opening(e)' <=> Opening(e)
       /\ Welcomed(e)' <=> Welcomed(e)
       /\ Clear(e)' <=> Clear(e)
       /\ Agreed' = Agreed /\ Sent(e)' = Sent(e)
  <2>1. /\ Opening(e)' <=> Opening(e)
        /\ Welcomed(e)' <=> Welcomed(e)
        /\ Clear(e)' <=> Clear(e)
    BY <1>2 DEF Opening, Welcomed, Clear
  <2>2. Agreed' = Agreed
    BY <1>2, AgreedKept
  <2> QED
    BY <1>2, <2>1, <2>2 DEF Sent
<1>16. /\ arrived' \in [End -> Seq(Nat)] /\ lost' \in [End -> SUBSET Nat]
       /\ arrived'[o] = arrived[o] /\ lost'[o] = lost[o]
       /\ HistoryInd(e)' /\ Skipped(e)' + Len(arrived'[e]) = Skipped(e) + Len(arrived[e]) + 1
       /\ AllPlain(r) \/ (e = "first" /\ Agreed = <<"compression">> /\ arrived'[e] = <<>> /\ NonePlain(r))
  <2>1. CASE /\ b.plain
             /\ arrived' = [arrived EXCEPT ![e] = Append(@, b.no)] /\ UNCHANGED lost
    <3>1. /\ Counted(Append(arrived[e], b.no), Skipped(e)) /\ Append(arrived[e], b.no) \in Seq(Nat)
          /\ Len(Append(arrived[e], b.no)) = Len(arrived[e]) + 1
      <4>1. b.no \in Nat /\ b.no = Skipped(e) + Len(arrived[e]) + 1
        BY <1>11
      <4>2. Counted(arrived[e], Skipped(e))
        BY <1>6 DEF HistoryInd
      <4> QED
        BY <1>5, <4>1, <4>2, CountedAppend
    <3>2. /\ arrived' \in [End -> Seq(Nat)] /\ arrived'[e] = Append(arrived[e], b.no)
          /\ arrived'[o] = arrived[o]
      BY <1>0, <1>1, <2>1, <3>1 DEF NegTypes
    <3>3. lost' \in [End -> SUBSET Nat] /\ lost' = lost
      BY <1>1, <2>1 DEF NegTypes
    <3>4. Skipped(e)' = Skipped(e)
      BY <3>3 DEF Skipped
    <3>5. Counted(arrived'[e], Skipped(e)')
      BY <3>1, <3>2, <3>4
    <3>6. HistoryInd(e)'
      BY <1>2, <1>6, <1>15, <3>3, <3>4, <3>5 DEF HistoryInd
    <3>7. AllPlain(stray[e])
      BY <1>6, <1>7, <1>10, <1>13, <2>1 DEF OrderInd, NonePlain
    <3>8. AllPlain(r)
      BY <1>10, <3>7 DEF AllPlain
    <3>9. Len(arrived'[e]) = Len(arrived[e]) + 1
      BY <3>1, <3>2
    <3>10. Skipped(e)' + Len(arrived'[e]) = Skipped(e) + Len(arrived[e]) + 1
      BY <1>5, <3>4, <3>9
    <3> QED
      BY <3>2, <3>3, <3>6, <3>8, <3>10
  <2>2. CASE /\ ~ b.plain
             /\ lost' = [lost EXCEPT ![e] = @ \union {b.no}] /\ UNCHANGED arrived
    <3>1. e = "first" /\ Agreed = <<"compression">> /\ arrived[e] = <<>> /\ NonePlain(stray[e])
      BY <1>6, <1>7, <1>10, <1>13, <2>2 DEF OrderInd, AllPlain
    <3>2. NonePlain(r)
      BY <1>10, <3>1 DEF NonePlain
    <3>3. Len(arrived[e]) = 0
      BY <3>1
    <3>4. b.no = Skipped(e) + 1
      BY <1>5, <1>11, <3>3
    <3>5. lost[e] = 1 .. Skipped(e)
      BY <1>6 DEF HistoryInd
    <3>6. /\ lost[e] \union {b.no} = 1 .. (Skipped(e) + 1)
          /\ Cardinality(lost[e] \union {b.no}) = Skipped(e) + 1
      BY <1>5, <3>4, <3>5, NextNumber
    <3>7. /\ lost' \in [End -> SUBSET Nat] /\ lost'[e] = lost[e] \union {b.no} /\ lost'[o] = lost[o]
      BY <1>0, <1>1, <1>11, <2>2 DEF NegTypes
    <3>8. arrived' \in [End -> Seq(Nat)] /\ arrived' = arrived
      BY <1>1, <2>2 DEF NegTypes
    <3>9. Skipped(e)' = Skipped(e) + 1 /\ lost'[e] = 1 .. (Skipped(e) + 1)
      BY <3>6, <3>7 DEF Skipped
    <3>10. Skipped(e) + 1 \in 0 .. MaxWritten
      <4>1. Total(e) <= Heads(Agreed) + emitted[o]
        BY <1>0, <1>6 DEF CountInd
      <4>2. Consumed(e) + Len(stray[e]) + Len(inbox[e]) <= Heads(Agreed) + emitted[o]
        BY <4>1 DEF Total
      <4>3. emitted[o] <= MaxWritten
        BY <1>1 DEF Ind, EndInd
      <4>4. Heads(Agreed) + Skipped(e) + Len(stray[e]) + Len(inbox[e]) <= Heads(Agreed) + emitted[o]
        BY <1>5, <1>8, <3>3, <4>2
      <4>5. Heads(Agreed) \in Nat /\ Len(stray[e]) >= 1
        BY <1>5, <1>10
      <4>6. /\ Skipped(e) \in Nat /\ Len(stray[e]) \in Nat /\ Len(inbox[e]) \in Nat
            /\ emitted[o] \in Nat /\ MaxWritten \in Nat
        BY <1>5, NegotiationAssumption
      <4> QED
        BY ONLY <4>3, <4>4, <4>5, <4>6
    <3>11. Counted(arrived'[e], Skipped(e)')
      BY <3>3, <3>8 DEF Counted
    <3>12. HistoryInd(e)'
      BY <1>2, <1>14, <1>15, <3>1, <3>9, <3>10, <3>11 DEF HistoryInd
    <3>13. Skipped(e)' + Len(arrived'[e]) = Skipped(e) + Len(arrived[e]) + 1
      BY <1>5, <3>8, <3>9
    <3> QED
      BY <3>1, <3>2, <3>7, <3>8, <3>12, <3>13
  <2> QED
    BY <1>4, <2>1, <2>2
<1>17. NegTypes'
  BY <1>1, <1>2, <1>12, <1>16 DEF NegTypes
<1>18. KeepEnd(o) /\ ConnKept
  BY <1>2, <1>12, <1>16 DEF KeepEnd, ConnKept
<1>19. EndInd(e)'
  BY <1>2, <1>6, <1>15 DEF EndInd
<1>20. Consumed(e)' = Consumed(e) + 1
  <2>1. Consumed(e)' = Heads(Agreed) + Skipped(e)' + Len(arrived'[e])
    BY <1>7, <1>15 DEF Consumed
  <2>2. Skipped(e)' \in Nat /\ Len(arrived'[e]) \in Nat
    BY <1>16, NegotiationAssumption DEF HistoryInd
  <2>3. Skipped(e)' + Len(arrived'[e]) = Skipped(e) + Len(arrived[e]) + 1 /\ Heads(Agreed) \in Nat
    BY <1>5, <1>16
  <2>4. PICK h, x, y, u, v, c, d :
            /\ h = Heads(Agreed) /\ x = Skipped(e) /\ y = Len(arrived[e])
            /\ u = Skipped(e)' /\ v = Len(arrived'[e]) /\ c = Consumed(e)' /\ d = Consumed(e)
    OBVIOUS
  <2>5. x \in Nat /\ y \in Nat /\ h \in Nat /\ d = h + x + y
    BY <1>5, <1>8, <2>3, <2>4
  <2>6. u \in Nat /\ v \in Nat /\ c = h + u + v /\ u + v = x + y + 1
    BY <2>1, <2>2, <2>3, <2>4
  <2>7. c = d + 1
    BY ONLY <2>5, <2>6
  <2> QED
    BY <2>4, <2>7
<1>21. CountInd(e)'
  <2>1. Total(e)' = Total(e)
    <3>1. Len(stray'[e]) = Len(stray[e]) - 1 /\ inbox'[e] = inbox[e]
      BY <1>2, <1>10, <1>12
    <3>2. Total(e)' = (Consumed(e) + 1) + (Len(stray[e]) - 1) + Len(inbox[e])
      BY <1>20, <3>1 DEF Total
    <3> QED
      BY <1>5, <3>2 DEF Total
  <2>2. Sent(o)' = Sent(o) /\ step'[o] = step[o] /\ emitted'[o] = emitted[o]
    BY <1>2, <1>18, KeptPhases
  <2> QED
    BY <1>0, <1>2, <1>6, <1>15, <2>1, <2>2 DEF CountInd
<1>22. OrderInd(e)'
  <2>1. Likewise(stray'[e], Agreed', Consumed(e)')
    BY <1>10, <1>12, <1>15, <1>20
  <2>2. Aligned(inbox'[e], Agreed', Consumed(e)' + Len(stray'[e]))
    <3>1. (Consumed(e) + 1) + (Len(stray[e]) - 1) = Consumed(e) + Len(stray[e])
      BY <1>5
    <3>2. Consumed(e)' + Len(stray'[e]) = Consumed(e) + Len(stray[e])
      BY <1>10, <1>12, <1>20, <3>1
    <3>3. inbox'[e] = inbox[e]
      BY <1>2
    <3> QED
      BY <1>6, <1>15, <3>2, <3>3 DEF OrderInd
  <2> QED
    BY <1>7, <1>12, <1>15, <1>16, <2>1, <2>2 DEF OrderInd
<1>23. EndInd(o)' /\ HistoryInd(o)'
  BY <1>1, <1>18, OtherEnd DEF Ind
<1>24. TrafficInd(o)'
  <2>1. Sent(e)' >= Sent(e) /\ Sent(e)' \in Nat /\ emitted'[e] >= emitted[e] /\ emitted'[e] \in Nat
        /\ inbox'[o] = inbox[o] /\ step[e] # "failed"
    BY <1>2, <1>5, <1>15
  <2> QED
    BY <1>0, <1>1, <1>15, <1>18, <2>1, OtherQuiet
<1>25. JointInd'
  BY <1>1, <1>2, <1>15 DEF JointInd, Clear
<1> QED
  BY <1>0, <1>16, <1>17, <1>19, <1>21, <1>22, <1>23, <1>24, <1>25, NegTogether DEF Ind, TrafficInd

(* The TLS handshake begins. *)
LEMMA ShakeInd ==
    ASSUME NegInd, NEW e \in End, step[e] = "apply", todo[e] # <<>>, Head(todo[e]) = "TLS",
           step' = [step EXCEPT ![e] = "handshake"],
           (e = "first" /\ Send(e, "hello", 0)) \/ (e = "second" /\ UNCHANGED inbox),
           UNCHANGED <<offer, major, stack, todo, stray, conn, emitted, arrived, lost>>
    PROVE  NegInd'
<1>0. PICK o \in End : o = Other(e) /\ e = Other(o) /\ o # e
  BY EndIs
<1>1. NegTypes /\ JointInd /\ Ind(e) /\ Ind(o)
  BY NegIndEnds
<1>2. Agreed \in Lists /\ Split(stack[e], todo[e], Agreed) /\ Secure(todo[e])
  BY <1>1, AgreedIs DEF Ind, EndInd, Secure
<1>3. stack[e] = <<>> /\ todo[e] = Agreed /\ Secure(Agreed)
  BY <1>2, SplitSecure
<1>4. step'[e] = "handshake" /\ step'[o] = step[o] /\ step' \in [End -> Steps]
  BY <1>0, <1>1 DEF NegTypes, Steps
<1>5. "hello" \in BlockKinds /\ 0 \in Nat
  BY DEF BlockKinds
<1>6. inbox' \in [End -> Seq(Blocks)] /\ inbox'[e] = inbox[e]
  <2>1. CASE Send(e, "hello", 0)
    BY <1>0, <1>1, <1>5, <2>1, SendIs
  <2>2. CASE inbox' = inbox
    BY <1>1, <2>2 DEF NegTypes
  <2> QED
    BY <2>1, <2>2
<1>7. NegTypes'
  BY <1>1, <1>4, <1>6 DEF NegTypes
<1>8. KeepEnd(o) /\ ConnKept /\ Agreed' = Agreed
  BY <1>4, AgreedKept DEF KeepEnd, ConnKept
<1>9. /\ Welcomed(e) /\ Welcomed(e)' /\ ~ Opening(e) /\ ~ Opening(e)' /\ ~ Clear(e) /\ ~ Clear(e)'
  BY <1>2, <1>4 DEF Opening, Welcomed, Clear
<1>10. EndInd(e)'
  BY <1>1, <1>2, <1>4, <1>8, <1>9 DEF Ind, EndInd
<1>11. HistoryInd(e)'
  <2>1. lost[e] = {} /\ arrived[e] = <<>>
    BY <1>1, OwnEmpty DEF Ind
  <2> QED
    BY <1>1, <1>8, <2>1, OwnHistory DEF Ind
<1>12. TrafficInd(e)'
  BY <1>0, <1>1, <1>6, <1>8, <1>9, OwnQuiet
<1>13. EndInd(o)' /\ HistoryInd(o)'
  BY <1>1, <1>8, OtherEnd DEF Ind
<1>14. emitted[e] = 0 /\ emitted'[e] = 0
  BY <1>1 DEF Ind, EndInd
<1>15. TrafficInd(o)'
  <2>1. CASE e = "first"
    <3>1. Send(e, "hello", 0) /\ o = "second" /\ step[o] # "wait" /\ step[o] # "start"
      BY <1>0, <1>1, <2>1, EndIs DEF JointInd, Ind, EndInd
    <3>2. Sent(e) = 1 /\ Sent(e)' = 2
      BY <1>4, <1>9, <2>1 DEF Sent
    <3>3. Block(stack[e], "hello", 0) = Stream(Agreed, Sent(e) + 1)
      BY <1>2, <1>3, <3>2, StreamIs
    <3>4. Heads(Agreed) = 2
      BY <1>3 DEF Heads
    <3>5. /\ emitted'[e] \in Nat /\ emitted'[e] >= emitted[e] /\ Sent(e)' = Sent(e) + 1
          /\ Sent(e) + 1 <= Heads(Agreed) + emitted'[e] /\ step[e] # "failed"
      BY <1>14, <3>2, <3>4
    <3>6. ~ Opening(o)
      BY <3>1 DEF Opening
    <3> QED
      BY <1>0, <1>1, <1>5, <1>8, <3>1, <3>3, <3>5, <3>6, SendTraffic
  <2>2. CASE e = "second"
    <3>1. inbox' = inbox
      BY <2>2
    <3>2. Sent(e) = 1 /\ Sent(e)' = 1
      BY <1>4, <1>9, <2>2 DEF Sent
    <3>3. Sent(e)' >= Sent(e) /\ Sent(e)' \in Nat /\ emitted'[e] >= emitted[e] /\ emitted'[e] \in Nat
          /\ inbox'[o] = inbox[o] /\ step[e] # "failed" /\ Sent(e)' = Sent(e)
      BY <1>14, <3>1, <3>2
    <3> QED
      BY <1>0, <1>1, <1>8, <3>3, OtherQuiet
  <2> QED
    BY <2>1, <2>2 DEF End
<1>16. JointInd'
  <2>1. step'[o] = step[o] /\ (Clear(o)' <=> Clear(o))
    BY <1>4, <1>8, KeptPhases
  <2>2. CASE e = "first"
    BY <1>0, <1>1, <1>4, <1>8, <1>9, <2>1, <2>2, EndIs DEF JointInd
  <2>3. CASE e = "second"
    BY <1>0, <1>1, <1>4, <1>8, <1>9, <2>1, <2>3, EndIs DEF JointInd
  <2> QED
    BY <2>2, <2>3 DEF End
<1> QED
  BY <1>0, <1>7, <1>10, <1>11, <1>12, <1>13, <1>15, <1>16, NegTogether DEF Ind

(* The next extension. *)
LEMMA ApplyInd == \A e \in End : NegInd /\ Apply(e) => NegInd'
  BY PushInd, ShakeInd DEF Apply

(* What an end has sent when its peer has read as much. *)
LEMMA SentAtLeast ==
    ASSUME NegInd, NEW e \in End, NEW o \in End, o = Other(e), step[e] # "failed",
           step[o] # "failed", NEW n \in Nat, n <= Total(e), n >= 1
    PROVE  /\ ~ (step[o] = "start" \/ (o = "second" /\ step[o] = "wait"))
           /\ n >= 2 => Clear(o) \/ (o = "first" /\ step[o] = "handshake")
<1>1. NegTypes /\ Ind(e) /\ Ind(o)
  BY NegIndEnds
<1>2. Total(e) <= Sent(o)
  BY <1>1 DEF Ind, TrafficInd, CountInd
<1>3. Total(e) \in Nat /\ Sent(o) \in Nat
  BY <1>1, CountTypes DEF Ind, Total
<1>4. n <= Sent(o)
  BY <1>2, <1>3
<1> QED
  BY <1>4 DEF Sent

(* gnutls_handshake. *)
LEMMA HandshakeInd == \A e \in End : NegInd /\ Handshake(e) => NegInd'
<1> SUFFICES ASSUME NEW e \in End, NegInd, Handshake(e) PROVE NegInd'
  OBVIOUS
<1>0. PICK o \in End : o = Other(e) /\ e = Other(o) /\ o # e
  BY EndIs
<1>1. NegTypes /\ JointInd /\ Ind(e) /\ Ind(o)
  BY NegIndEnds
<1>2. /\ step[e] = "handshake" /\ inbox[e] # <<>> /\ step' = [step EXCEPT ![e] = "apply"]
      /\ stack' = [stack EXCEPT ![e] = Append(@, Head(todo[e]))]
      /\ todo' = [todo EXCEPT ![e] = Tail(@)]
      /\ UNCHANGED <<offer, major, stray, conn, emitted, arrived, lost>>
  BY DEF Handshake, Push
<1>3. Agreed \in Lists /\ Split(stack[e], todo[e], Agreed) /\ Secure(todo[e])
  BY <1>1, <1>2, AgreedIs DEF Ind, EndInd
<1>4. stack[e] = <<>> /\ todo[e] = Agreed /\ Secure(Agreed) /\ todo[e] # <<>>
  BY <1>3, SplitSecure DEF Secure
<1>5. PICK st, td : st = Append(stack[e], Head(todo[e])) /\ td = Tail(todo[e])
  OBVIOUS
<1>6. Split(st, td, Agreed) /\ st \in Lists /\ td \in Lists /\ ~ Secure(td)
  BY <1>3, <1>4, <1>5, PushSplits
<1>7. /\ stack' = [stack EXCEPT ![e] = st] /\ todo' = [todo EXCEPT ![e] = td]
  BY <1>2, <1>5
<1>8. /\ stack' \in [End -> Lists] /\ todo' \in [End -> Lists]
      /\ stack'[e] = st /\ todo'[e] = td /\ stack'[o] = stack[o] /\ todo'[o] = todo[o]
  BY <1>0, <1>1, <1>6, <1>7 DEF NegTypes
<1>9. step'[e] = "apply" /\ step'[o] = step[o] /\ step' \in [End -> Steps]
  BY <1>0, <1>1, <1>2 DEF NegTypes, Steps
<1>10. PICK q, b : q = Tail(inbox[e]) /\ b = Block(<<>>, "hello", 0)
  OBVIOUS
<1>11. inbox' = IF e = "second" /\ conn = "up"
                THEN [inbox EXCEPT ![e] = q, ![o] = Append(@, b)]
                ELSE [inbox EXCEPT ![e] = q]
  BY <1>0, <1>4, <1>10 DEF Handshake
<1>12. /\ Welcomed(e) /\ ~ Welcomed(e)' /\ ~ Opening(e) /\ ~ Opening(e)' /\ ~ Clear(e) /\ Clear(e)'
  BY <1>2, <1>6, <1>8, <1>9 DEF Opening, Welcomed, Clear
<1>13. CountInd(e) /\ OrderInd(e) /\ EndInd(e) /\ HistoryInd(e)
  BY <1>1, <1>2 DEF Ind, TrafficInd
<1>14. stray[e] = <<>> /\ Consumed(e) = 1 /\ Len(stray[e]) = 0 /\ Heads(Agreed) = 2
  <2>1. stray[e] = <<>> /\ Consumed(e) = 1
    BY <1>12, <1>13 DEF OrderInd, Consumed
  <2> QED
    BY <1>4, <2>1 DEF Heads
<1>15. inbox[e] \in Seq(Blocks) /\ inbox[o] \in Seq(Blocks) /\ Len(inbox[e]) \in Nat /\ b \in Blocks
  <2>1. "hello" \in BlockKinds /\ 0 \in Nat /\ <<>> \in Lists
    BY DEF BlockKinds, Lists
  <2>2. b \in Blocks
    BY <1>10, <2>1, BlockType
  <2> QED
    BY <1>1, <2>2 DEF NegTypes
<1>16. Aligned(q, Agreed, 2) /\ Len(q) = Len(inbox[e]) - 1 /\ q \in Seq(Blocks) /\ Len(inbox[e]) >= 1
  <2>1. Consumed(e) + Len(stray[e]) = 1
    BY <1>14
  <2>2. Aligned(inbox[e], Agreed, 1)
    BY <1>13, <2>1 DEF OrderInd
  <2>3. 1 \in Nat /\ 1 + 1 = 2
    OBVIOUS
  <2> QED
    BY <1>2, <1>10, <1>15, <2>2, <2>3, AlignedTail
<1>17. /\ inbox' \in [End -> Seq(Blocks)] /\ inbox'[e] = q
       /\ e = "second" /\ conn = "up" => inbox'[o] = Append(inbox[o], b)
       /\ ~ (e = "second" /\ conn = "up") => inbox'[o] = inbox[o]
  <2>1. inbox \in [End -> Seq(Blocks)] /\ Append(inbox[o], b) \in Seq(Blocks)
    BY <1>1, <1>15 DEF NegTypes
  <2>2. CASE e = "second" /\ conn = "up"
    <3>1. inbox' = [inbox EXCEPT ![e] = q, ![o] = Append(@, b)]
      BY <1>11, <2>2
    <3> QED
      BY <1>0, <1>16, <2>1, <2>2, <3>1
  <2>3. CASE ~ (e = "second" /\ conn = "up")
    <3>1. inbox' = [inbox EXCEPT ![e] = q]
      BY <1>11, <2>3
    <3> QED
      BY <1>0, <1>16, <2>1, <2>3, <3>1
  <2> QED
    BY <2>2, <2>3
<1>18. NegTypes'
  BY <1>1, <1>2, <1>8, <1>9, <1>17 DEF NegTypes
<1>19. KeepEnd(o) /\ ConnKept /\ Agreed' = Agreed
  BY <1>2, <1>8, <1>9, AgreedKept DEF KeepEnd, ConnKept
<1>20. EndInd(e)'
  BY <1>2, <1>6, <1>8, <1>9, <1>12, <1>13, <1>19 DEF EndInd
<1>21. lost[e] = {} /\ arrived[e] = <<>> /\ Skipped(e) = 0 /\ emitted[e] = 0 /\ emitted'[e] = 0
  BY <1>1, <1>2, <1>13, OwnEmpty DEF EndInd
<1>22. HistoryInd(e)'
  BY <1>2, <1>13, <1>19, <1>21, OwnHistory
<1>23. Consumed(e)' = 2
  <2>1. Skipped(e)' = 0 /\ Len(arrived'[e]) = 0
    BY <1>2, <1>21 DEF Skipped
  <2> QED
    BY <1>12, <1>14, <1>19, <2>1 DEF Consumed
<1>24. Total(e)' = Total(e) /\ Total(e) \in Nat /\ Total(e) >= 2
  <2>1. Total(e)' = 2 + 0 + (Len(inbox[e]) - 1)
    BY <1>2, <1>14, <1>16, <1>17, <1>23 DEF Total
  <2>2. Total(e) = 1 + 0 + Len(inbox[e])
    BY <1>14 DEF Total
  <2> QED
    BY <1>15, <1>16, <2>1, <2>2
<1>25. CountInd(e)'
  <2>1. Sent(o)' = Sent(o) /\ step'[o] = step[o] /\ emitted'[o] = emitted[o]
    BY <1>19, KeptPhases DEF KeepEnd
  <2> QED
    BY <1>0, <1>2, <1>12, <1>13, <1>19, <1>24, <2>1 DEF CountInd
<1>26. OrderInd(e)'
  <2>1. stray'[e] = <<>> /\ Len(stray'[e]) = 0
    BY <1>2, <1>14
  <2>2. Likewise(stray'[e], Agreed', Consumed(e)') /\ AllPlain(stray'[e])
    BY <2>1 DEF Likewise, AllPlain
  <2>3. Consumed(e)' + Len(stray'[e]) = 2
    BY <1>23, <2>1
  <2>4. Aligned(inbox'[e], Agreed', Consumed(e)' + Len(stray'[e]))
    BY <1>16, <1>17, <1>19, <2>3
  <2> QED
    BY <1>12, <2>2, <2>4 DEF OrderInd
<1>27. EndInd(o)' /\ HistoryInd(o)'
  BY <1>1, <1>19, OtherEnd DEF Ind
<1>28. step[o] # "failed" => Clear(o) \/ (o = "first" /\ step[o] = "handshake")
  <2>1. 2 \in Nat /\ 2 <= Total(e) /\ 2 >= 1 /\ 2 >= 2
    BY <1>24
  <2> QED
    BY <1>0, <1>2, <2>1, SentAtLeast
<1>29. Sent(e)' = 2 /\ (e = "first" => Sent(e) = 2) /\ (e = "second" => Sent(e) = 1)
  <2>1. Sent(e)' = Heads(Agreed) + 0
    BY <1>9, <1>12, <1>19, <1>21 DEF Sent
  <2>2. (e = "first" => Sent(e) = 2) /\ (e = "second" => Sent(e) = 1)
    BY <1>2, <1>12 DEF Sent
  <2> QED
    BY <1>14, <2>1, <2>2
<1>30. TrafficInd(o)'
  <2>1. CASE e = "second" /\ conn = "up"
    <3>1. Sent(e) = 1 /\ Sent(e)' = Sent(e) + 1
      BY <1>29, <2>1
    <3>2. b = Stream(Agreed, Sent(e) + 1)
      BY <1>3, <1>4, <1>10, <3>1, StreamIs
    <3>3. Sent(e) + 1 <= Heads(Agreed) + emitted'[e] /\ emitted'[e] \in Nat
      BY <1>14, <1>21, <3>1
    <3>4. step[o] # "failed" => ~ Opening(o)
      BY <1>28 DEF Opening, Clear
    <3>5. ~ Opening(o)
      BY <3>4 DEF Opening
    <3> QED
      BY <1>0, <1>1, <1>2, <1>17, <1>19, <2>1, <3>1, <3>2, <3>3, <3>5, OtherReceives
  <2>2. CASE ~ (e = "second" /\ conn = "up")
    <3>1. Sent(e)' >= Sent(e) /\ Sent(e)' \in Nat /\ (conn' = "up" => Sent(e)' = Sent(e))
      BY <1>2, <1>29, <2>2 DEF End
    <3>2. emitted'[e] >= emitted[e] /\ emitted'[e] \in Nat /\ inbox'[o] = inbox[o] /\ step[e] # "failed"
      BY <1>2, <1>17, <1>21, <2>2
    <3> QED
      BY <1>0, <1>1, <1>19, <3>1, <3>2, OtherQuiet
  <2> QED
    BY <2>1, <2>2
<1>31. JointInd'
  <2>1. step'[o] = step[o] /\ (Clear(o)' <=> Clear(o))
    BY <1>9, <1>19, KeptPhases
  <2>2. CASE e = "first"
    <3>1. o = "second" /\ (step[o] = "failed" \/ Clear(o))
      BY <1>0, <1>28, <2>2, EndIs
    <3>2. step'["first"] = "apply" /\ Clear("first")' /\ step'["second"] # "wait"
      BY <1>9, <1>12, <2>1, <2>2, <3>1 DEF Clear
    <3> QED
      BY <2>1, <3>1, <3>2 DEF JointInd
  <2>3. CASE e = "second"
    <3>1. o = "first" /\ (step[o] = "failed" \/ step[o] = "handshake" \/ Clear(o)) /\ step[o] # "start"
      BY <1>0, <1>28, <2>3, EndIs DEF Clear
    <3>2. step'["second"] = "apply" /\ Clear("second")'
      BY <1>9, <1>12, <2>3
    <3> QED
      BY <2>1, <3>1, <3>2 DEF JointInd
  <2> QED
    BY <2>2, <2>3 DEF End
<1> QED
  BY <1>0, <1>18, <1>20, <1>22, <1>25, <1>26, <1>27, <1>30, <1>31, NegTogether DEF Ind, TrafficInd

(* The welcome packet of the peer. *)
LEMMA ReadWelcomeInd == \A e \in End : NegInd /\ ReadWelcome(e) => NegInd'
<1> SUFFICES ASSUME NEW e \in End, NegInd, ReadWelcome(e) PROVE NegInd'
  OBVIOUS
<1>0. PICK o \in End : o = Other(e) /\ e = Other(o) /\ o # e
  BY EndIs
<1>1. NegTypes /\ JointInd /\ Ind(e) /\ Ind(o)
  BY NegIndEnds
<1>2. step[e] = "wait" /\ stray[e] # <<>>
  BY DEF ReadWelcome
<1>3. CASE Fail(e)
  BY <1>3, FailInd
<1>4. CASE ~ Fail(e)
  <2>1. /\ major[e] = major[o] /\ stray' = [stray EXCEPT ![e] = Tail(@)]
        /\ (e = "second" /\ Send(e, "welcome", 0)) \/ (e = "first" /\ UNCHANGED inbox)
        /\ todo' = [todo EXCEPT ![e] = Common(e)] /\ step' = [step EXCEPT ![e] = "apply"]
        /\ UNCHANGED <<offer, major, stack, conn, emitted, arrived, lost>>
    BY <1>0, <1>4 DEF ReadWelcome
  <2>2. Common(e) = Agreed /\ Agreed \in Lists
    <3>1. offer[e] \intersect offer[Other(e)] = offer["first"] \intersect offer["second"]
      BY DEF End, Other
    <3> QED
      BY <1>1, <3>1, AgreedIs DEF Common, Agreed
  <2>3. PICK r, all : r = Tail(stray[e]) /\ all = Agreed
    OBVIOUS
  <2>4. /\ stray' = [stray EXCEPT ![e] = r] /\ todo' = [todo EXCEPT ![e] = all] /\ all \in Lists
    BY <2>1, <2>2, <2>3
  <2>5. CountInd(e) /\ OrderInd(e) /\ EndInd(e) /\ HistoryInd(e)
    BY <1>1, <1>2 DEF Ind, TrafficInd
  <2>6. /\ Opening(e) /\ stack[e] = <<>> /\ Consumed(e) = 0 /\ emitted[e] = 0
        /\ lost[e] = {} /\ arrived[e] = <<>> /\ Skipped(e) = 0
    BY <1>2, <2>5, OwnEmpty DEF Opening, EndInd, Consumed
  <2>7. stray[e] \in Seq(Strays) /\ Len(stray[e]) \in Nat /\ Len(inbox[e]) \in Nat
    BY <1>1, CountTypes DEF Ind
  <2>8. /\ Likewise(r, all, 1) /\ Len(r) = Len(stray[e]) - 1 /\ r \in Seq(Strays) /\ Len(stray[e]) >= 1
        /\ \A i \in 1 .. Len(r) : r[i] = stray[e][1 + i] /\ 1 + i \in 1 .. Len(stray[e])
    <3>1. PICK p, bs : p = 0 /\ bs = stray[e]
      OBVIOUS
    <3>2. p \in Nat /\ bs \in Seq(Strays) /\ Likewise(bs, all, p) /\ bs # <<>> /\ r = Tail(bs)
      BY <1>2, <2>3, <2>5, <2>6, <2>7, <3>1 DEF OrderInd
    <3>3. /\ Likewise(r, all, p + 1) /\ Len(r) = Len(bs) - 1 /\ r \in Seq(Strays) /\ Len(bs) >= 1
          /\ \A i \in 1 .. Len(r) : r[i] = bs[1 + i] /\ 1 + i \in 1 .. Len(bs)
      BY <3>2, LikewiseTail
    <3>4. p + 1 = 1
      BY <3>1
    <3> QED
      BY <3>1, <3>3, <3>4
  <2>9. /\ step'[e] = "apply" /\ step'[o] = step[o] /\ step' \in [End -> Steps]
        /\ todo'[e] = all /\ todo'[o] = todo[o] /\ todo' \in [End -> Lists]
        /\ stray'[e] = r /\ stray'[o] = stray[o] /\ stray' \in [End -> Seq(Strays)]
    <3>1. "apply" \in Steps
      BY DEF Steps
    <3>2. step \in [End -> Steps] /\ todo \in [End -> Lists] /\ stray \in [End -> Seq(Strays)]
      BY <1>1 DEF NegTypes
    <3> QED
      BY <1>0, <2>1, <2>4, <2>8, <3>1, <3>2
  <2>10. "welcome" \in BlockKinds /\ 0 \in Nat
    BY DEF BlockKinds
  <2>11. inbox' \in [End -> Seq(Blocks)] /\ inbox'[e] = inbox[e]
    <3>1. CASE Send(e, "welcome", 0)
      BY <1>0, <1>1, <2>10, <3>1, SendIs
    <3>2. CASE inbox' = inbox
      BY <1>1, <3>2 DEF NegTypes
    <3> QED
      BY <2>1, <3>1, <3>2
  <2>12. NegTypes'
    BY <1>1, <2>1, <2>9, <2>11 DEF NegTypes
  <2>13. KeepEnd(o) /\ ConnKept /\ Agreed' = Agreed
    BY <2>1, <2>9, AgreedKept DEF KeepEnd, ConnKept
  <2>14. /\ ~ Opening(e)' /\ ~ Clear(e) /\ ~ Welcomed(e)
         /\ Welcomed(e)' <=> Secure(all)
         /\ Clear(e)' <=> ~ Secure(all)
    BY <1>2, <2>9 DEF Opening, Welcomed, Clear
  <2>15. EndInd(e)'
    <3>1. Split(stack'[e], todo'[e], Agreed')
      BY <2>1, <2>3, <2>6, <2>9, <2>13 DEF Split
    <3>2. major'["first"] = major'["second"]
      BY <1>0, <2>1, EndIs DEF End
    <3>3. emitted'[e] <= MaxWritten /\ emitted'[e] = 0
      BY <2>1, <2>5, <2>6 DEF EndInd
    <3> QED
      BY <2>9, <2>14, <3>1, <3>2, <3>3 DEF EndInd
  <2>16. HistoryInd(e)'
    BY <2>1, <2>5, <2>6, <2>13, OwnHistory
  <2>17. Heads(Agreed) \in {1, 2} /\ (~ Secure(Agreed) => Heads(Agreed) = 1)
    BY HeadsIs
  <2>18. Consumed(e)' = 1
    <3>1. Skipped(e)' = 0 /\ Len(arrived'[e]) = 0
      BY <2>1, <2>6 DEF Skipped
    <3> QED
      BY <2>3, <2>13, <2>14, <2>17, <3>1 DEF Consumed
  <2>19. Total(e)' = Total(e) /\ Total(e) = Len(stray[e]) + Len(inbox[e]) /\ Total(e) >= 1
    <3>1. Total(e)' = 1 + (Len(stray[e]) - 1) + Len(inbox[e])
      BY <2>8, <2>9, <2>11, <2>18 DEF Total
    <3>2. Total(e) = 0 + Len(stray[e]) + Len(inbox[e])
      BY <2>6 DEF Total
    <3>3. Len(stray[e]) \in Nat /\ Len(inbox[e]) \in Nat /\ Len(stray[e]) >= 1
      BY <2>7, <2>8
    <3>4. PICK x, y, a, b : /\ x = Len(stray[e]) /\ y = Len(inbox[e])
                            /\ a = Total(e)' /\ b = Total(e)
      OBVIOUS
    <3>5. x \in Nat /\ y \in Nat /\ x >= 1 /\ a = 1 + (x - 1) + y /\ b = 0 + x + y
      BY <3>1, <3>2, <3>3, <3>4
    <3>6. a = b /\ b = x + y /\ b >= 1
      BY ONLY <3>5
    <3> QED
      BY <3>4, <3>6
  <2>20. CountInd(e)'
    <3>1. Sent(o)' = Sent(o) /\ step'[o] = step[o] /\ emitted'[o] = emitted[o]
      BY <2>13, KeptPhases DEF KeepEnd
    <3> QED
      BY <1>0, <2>1, <2>5, <2>13, <2>14, <2>19, <3>1 DEF CountInd
  <2>21. Secure(all) \/ e = "second" => r = <<>>
    <3> SUFFICES ASSUME Secure(all) \/ e = "second" PROVE r = <<>>
      OBVIOUS
    <3>1. Total(e) <= 1
      BY <2>3, <2>5, <2>6 DEF CountInd
    <3>2. /\ Len(stray[e]) \in Nat /\ Len(inbox[e]) \in Nat /\ Len(stray[e]) >= 1
          /\ Len(r) = Len(stray[e]) - 1 /\ Total(e) = Len(stray[e]) + Len(inbox[e])
      BY <2>7, <2>8, <2>19
    <3>3. Len(r) = 0
      <4>1. PICK x, y, z, w : x = Len(stray[e]) /\ y = Len(inbox[e]) /\ z = Len(r) /\ w = Total(e)
        OBVIOUS
      <4>2. x \in Nat /\ y \in Nat /\ x >= 1 /\ z = x - 1 /\ w = x + y /\ w <= 1
        BY <3>1, <3>2, <4>1
      <4>3. z = 0
        BY ONLY <4>2
      <4> QED
        BY <4>1, <4>3
    <3> QED
      BY <2>8, <3>3
  <2>22. Likewise(stray'[e], Agreed', Consumed(e)')
    BY <2>3, <2>8, <2>9, <2>13, <2>18
  <2>23. Aligned(inbox'[e], Agreed', Consumed(e)' + Len(stray'[e]))
    <3>1. Consumed(e)' + Len(stray'[e]) = Consumed(e) + Len(stray[e])
      BY <2>6, <2>7, <2>8, <2>9, <2>18
    <3> QED
      BY <2>5, <2>11, <2>13, <3>1 DEF OrderInd
  <2>24. ASSUME ~ Secure(all), NEW i \in 1 .. Len(r)
         PROVE  r[i].plain <=> all = <<>>
    <3>1. PICK m \in Nat : m = 1 + i
      OBVIOUS
    <3>2. m >= 1 /\ m > Heads(all) /\ m \in 1 .. Len(stray[e]) /\ r[i] = stray[e][m]
      BY <2>3, <2>8, <2>17, <2>24, <3>1
    <3>3. Stream(all, m).under = all
      BY <2>4, <3>2, StreamIs DEF Block
    <3>4. stray[e][m].plain <=> Stream(all, m).under = <<>>
      BY <2>3, <2>5, <2>6, <3>2 DEF OrderInd, PlainBelow
    <3> QED
      BY <3>2, <3>3, <3>4
  <2>25. Clear(e)' => \/ AllPlain(stray'[e])
                      \/ /\ e = "first" /\ Agreed' = <<"compression">> /\ arrived'[e] = <<>>
                         /\ NonePlain(stray'[e])
    <3> SUFFICES ASSUME ~ Secure(all)
                 PROVE  AllPlain(r) \/ (e = "first" /\ all = <<"compression">> /\ NonePlain(r))
      BY <2>1, <2>3, <2>6, <2>9, <2>13, <2>14
    <3>1. CASE e = "second"
      <4>1. Len(r) = 0
        BY <2>21, <3>1
      <4> QED
        BY <4>1 DEF AllPlain
    <3>2. CASE all = <<>>
      BY <2>24, <3>2 DEF AllPlain
    <3>3. CASE all = <<"compression">> /\ e = "first"
      <4>1. all # <<>>
        BY <3>3, ListIs
      <4> QED
        BY <2>24, <3>3, <4>1 DEF NonePlain
    <3> QED
      BY <2>4, <3>1, <3>2, <3>3, SecureIs DEF Lists, End
  <2>26. OrderInd(e)'
    BY <2>9, <2>14, <2>21, <2>22, <2>23, <2>25 DEF OrderInd
  <2>27. EndInd(o)' /\ HistoryInd(o)'
    BY <1>1, <2>13, OtherEnd DEF Ind
  <2>28. Sent(e)' = 1 /\ (e = "first" => Sent(e) = 1) /\ (e = "second" => Sent(e) = 0)
    <3>1. Clear(e)' => Heads(Agreed) = 1
      BY <2>3, <2>14, <2>17
    <3>2. Sent(e)' = 1
      BY <2>1, <2>6, <2>9, <2>13, <3>1 DEF Sent
    <3> QED
      BY <1>2, <2>14, <3>2 DEF Sent
  <2>29. TrafficInd(o)'
    <3>1. CASE e = "first"
      <4>1. inbox' = inbox
        BY <2>1, <3>1
      <4>2. /\ Sent(e)' >= Sent(e) /\ Sent(e)' \in Nat /\ Sent(e)' = Sent(e) /\ emitted'[e] >= emitted[e]
            /\ emitted'[e] \in Nat /\ inbox'[o] = inbox[o] /\ step[e] # "failed"
        BY <1>2, <2>1, <2>6, <2>28, <3>1, <4>1
      <4> QED
        BY <1>0, <1>1, <2>13, <4>2, OtherQuiet
    <3>2. CASE e = "second"
      <4>1. Send(e, "welcome", 0) /\ Sent(e) = 0 /\ conn' = conn
        BY <2>1, <2>28, <3>2
      <4>2. Block(stack[e], "welcome", 0) = Stream(Agreed, Sent(e) + 1)
        BY <2>3, <2>4, <2>6, <4>1, StreamIs
      <4>3. /\ emitted'[e] \in Nat /\ emitted'[e] >= emitted[e] /\ Sent(e)' = Sent(e) + 1
            /\ Sent(e) + 1 <= Heads(Agreed) + emitted'[e] /\ step[e] # "failed"
        BY <1>2, <2>1, <2>6, <2>17, <2>28, <4>1
      <4> QED
        BY <1>0, <1>1, <2>10, <2>13, <4>1, <4>2, <4>3, SendTraffic
    <3> QED
      BY <3>1, <3>2 DEF End
  <2>30. step[o] # "failed" => ~ (step[o] = "start" \/ (o = "second" /\ step[o] = "wait"))
    <3>1. PICK x, y, w : x = Len(stray[e]) /\ y = Len(inbox[e]) /\ w = Total(e)
      OBVIOUS
    <3>2. x \in Nat /\ y \in Nat /\ w = x + y /\ w >= 1
      BY <2>7, <2>19, <3>1
    <3>3. 1 \in Nat /\ 1 <= w /\ 1 >= 1
      BY ONLY <3>2
    <3>4. 1 \in Nat /\ 1 <= Total(e) /\ 1 >= 1
      BY <3>1, <3>3
    <3> QED
      BY <1>0, <1>2, <3>4, SentAtLeast
  <2>31. JointInd'
    <3>1. step'[o] = step[o] /\ (Clear(o)' <=> Clear(o))
      BY <2>9, <2>13, KeptPhases
    <3>2. CASE e = "first"
      <4>1. o = "second" /\ step[o] # "wait" /\ step[o] # "start"
        BY <1>0, <1>1, <2>30, <3>2, EndIs DEF Ind, EndInd
      <4>2. ~ Secure(all) => step[o] = "failed" \/ Clear(o)
        <5> SUFFICES ASSUME ~ Secure(all), step[o] # "failed" PROVE Clear(o)
          OBVIOUS
        <5>1. step[o] \in {"apply", "handshake", "run"}
          BY <1>1, <4>1 DEF NegTypes, Steps
        <5>2. Split(stack[o], todo[o], all) /\ (step[o] = "handshake" => Secure(todo[o]))
          BY <1>1, <2>3, <5>1 DEF Ind, EndInd
        <5>3. ~ Secure(todo[o])
          BY <2>4, <5>2, SplitSecure
        <5> QED
          BY <5>1, <5>2, <5>3 DEF Clear
      <4>3. ~ (Secure(all) /\ Clear(o))
        BY <1>1, <1>2, <2>3, <2>14, <3>2, <4>1 DEF JointInd
      <4>4. /\ step'["first"] = "apply" /\ step'["second"] # "wait"
            /\ ~ (Secure(Agreed') /\ Clear("second")')
            /\ Clear("first")' => step'["second"] = "failed" \/ Clear("second")'
        BY <2>3, <2>9, <2>13, <2>14, <3>1, <3>2, <4>1, <4>2, <4>3
      <4> QED
        BY <4>4 DEF JointInd
    <3>3. CASE e = "second"
      <4>1. o = "first" /\ step[o] # "start"
        BY <1>0, <2>30, <3>3, EndIs
      <4>2. ~ Clear(o)
        BY <1>1, <1>2, <2>14, <3>3, <4>1 DEF JointInd
      <4>3. /\ step'["second"] = "apply" /\ step'["first"] # "start"
            /\ ~ (Secure(Agreed') /\ Clear("second")')
            /\ ~ Clear("first")'
        BY <2>3, <2>9, <2>13, <2>14, <3>1, <3>3, <4>1, <4>2
      <4> QED
        BY <4>3 DEF JointInd
    <3> QED
      BY <3>2, <3>3 DEF End
  <2> QED
    BY <1>0, <2>12, <2>15, <2>16, <2>20, <2>26, <2>27, <2>29, <2>31, NegTogether DEF Ind, TrafficInd
<1> QED
  BY <1>3, <1>4

(* Both ends start with nothing but their configuration. *)
LEMMA NegInits == NegInit => NegInd
<1> SUFFICES ASSUME NegInit PROVE NegInd
  OBVIOUS
<1>1. /\ step = [first |-> "start", second |-> "wait"]
      /\ todo = [e \in End |-> <<>>] /\ stack = [e \in End |-> <<>>]
      /\ inbox = [e \in End |-> <<>>] /\ stray = [e \in End |-> <<>>]
      /\ conn = "up" /\ emitted = [e \in End |-> 0]
      /\ arrived = [e \in End |-> <<>>] /\ lost = [e \in End |-> {}]
  BY DEF NegInit
<1>2. step["first"] = "start" /\ step["second"] = "wait" /\ step \in [End -> Steps]
  <2>1. step \in [End -> Steps]
    BY <1>1 DEF End, Steps
  <2> QED
    BY <1>1, <2>1
<1>3. offer["first"] \subseteq Ext /\ offer["second"] \subseteq Ext
  <2>1. PICK cfg \in [End -> [negotiate : BOOLEAN, auto : SUBSET Ext, mandatory : SUBSET Ext]] :
            offer = [e \in End |-> Offered(cfg[e])]
    BY DEF NegInit
  <2>2. \A e \in End : Offered(cfg[e]) \subseteq Ext
    BY <2>1 DEF Offered
  <2> QED
    BY <2>1, <2>2 DEF End
<1>4. NegTypes
  <2>1. <<>> \in Lists /\ <<>> \in Seq(Blocks) /\ <<>> \in Seq(Strays) /\ <<>> \in Seq(Nat)
    BY DEF Lists
  <2> QED
    BY <1>1, <1>2, <1>3, <2>1 DEF NegTypes
<1>5. ASSUME NEW e \in End
      PROVE  Ind(e)
  <2>1. /\ todo[e] = <<>> /\ stack[e] = <<>> /\ inbox[e] = <<>> /\ stray[e] = <<>>
        /\ emitted[e] = 0 /\ arrived[e] = <<>> /\ lost[e] = {}
    BY <1>1
  <2>2. step[e] \in {"start", "wait"} /\ (e = "second" => step[e] = "wait")
        /\ step[Other(e)] \in {"start", "wait"} /\ emitted[Other(e)] = 0
        /\ (Other(e) = "second" => step[Other(e)] = "wait")
        /\ (Other(e) = "first" => step[Other(e)] = "start")
    BY <1>1, <1>2, EndIs DEF End
  <2>3. EndInd(e)
    BY <1>1, <2>1, <2>2, NegotiationAssumption DEF EndInd, Opening
  <2>4. HistoryInd(e)
    <3>1. Skipped(e) = 0 /\ Len(arrived[e]) = 0
      BY <2>1, FS_EmptySet DEF Skipped
    <3>2. 1 .. 0 = {}
      OBVIOUS
    <3> QED
      BY <2>1, <3>1, <3>2, NegotiationAssumption DEF HistoryInd, Counted
  <2>5. Opening(e) /\ ~ Welcomed(e) /\ ~ Clear(e)
    BY <2>2 DEF Opening, Welcomed, Clear
  <2>6. Consumed(e) = 0 /\ Total(e) = 0
    BY <2>1, <2>5 DEF Consumed, Total
  <2>7. Sent(Other(e)) = 0
    BY <2>2, EndIs DEF Sent, End
  <2>8. CountInd(e)
    BY <2>2, <2>6, <2>7, HeadsIs DEF CountInd
  <2>9. Len(stray[e]) = 0 /\ Len(inbox[e]) = 0
    BY <2>1
  <2>10. OrderInd(e)
    BY <2>5, <2>9 DEF OrderInd, Likewise, Aligned, PlainBelow
  <2> QED
    BY <2>3, <2>4, <2>8, <2>10 DEF Ind, TrafficInd
<1>6. JointInd
  BY <1>2 DEF JointInd, Clear
<1> QED
  BY <1>4, <1>5, <1>6, EndIs DEF NegInd

(* Every step keeps the invariant. *)
LEMMA NegSteps == NegInd /\ [NegNext]_negVars => NegInd'
<1> SUFFICES ASSUME NegInd, [NegNext]_negVars PROVE NegInd'
  OBVIOUS
<1>1. CASE SendWelcome
  BY <1>1, SendWelcomeInd
<1>2. ASSUME NEW e \in End, EndStep(e)
      PROVE  NegInd'
  <2>1. CASE WelcomeTimeout(e) \/ PeerGone(e)
    BY <2>1, FailInd DEF WelcomeTimeout, PeerGone
  <2> QED
    BY <1>2, <2>1, ReadBlockInd, ReadWelcomeInd, ApplyInd, HandshakeInd, NegotiatedInd, ReadEventInd
       DEF EndStep
<1>3. ASSUME NEW e \in End, WriteEvent(e)
      PROVE  NegInd'
  BY <1>3, WriteEventInd
<1>4. CASE Silence
  BY <1>4, QuietInd DEF Silence
<1>5. CASE UNCHANGED negVars
  BY <1>5, QuietInd DEF negVars
<1> QED
  BY <1>1, <1>2, <1>3, <1>4, <1>5 DEF NegNext

(* The invariant of the runs follows. *)
LEMMA NegIndImplies == NegInd => NegotiationInv
<1> SUFFICES ASSUME NegInd PROVE NegotiationInv
  OBVIOUS
<1>1. ASSUME NEW e \in End
      PROVE  NegTypes /\ EndInd(e) /\ HistoryInd(e) /\ Agreed \in Lists
  BY NegIndEnds, AgreedIs DEF Ind
<1>2. StacksAgree
  <2> SUFFICES ASSUME NEW e \in End, step[e] = "run"
               PROVE  stack[e] = Agreed /\ major["first"] = major["second"]
    BY DEF StacksAgree, Agreed
  <2> QED
    BY <1>1, SplitDone DEF EndInd
<1>3. LostOnlyCrossed
  <2> SUFFICES ASSUME NEW e \in End
               PROVE  /\ lost[e] # {} => e = "first" /\ stack[e] = <<"compression">>
                      /\ \E k \in 0 .. MaxWritten :
                            /\ lost[e] = 1 .. k
                            /\ \A i \in DOMAIN arrived[e] : arrived[e][i] = k + i
    BY DEF LostOnlyCrossed
  <2>1. lost[e] # {} => e = "first" /\ stack[e] = <<"compression">>
    BY <1>1 DEF HistoryInd
  <2>2. Skipped(e) \in 0 .. MaxWritten /\ lost[e] = 1 .. Skipped(e)
        /\ \A i \in 1 .. Len(arrived[e]) : arrived[e][i] = Skipped(e) + i
    BY <1>1 DEF HistoryInd, Counted
  <2>3. DOMAIN arrived[e] = 1 .. Len(arrived[e])
    BY <1>1 DEF NegTypes
  <2> QED
    BY <2>1, <2>2, <2>3
<1> QED
  BY <1>2, <1>3 DEF NegotiationInv

(* However the two negotiations, their deadlines and the loss of the       *)
(* connection interleave, an end that works has the layers both ends have  *)
(* offered and a peer of its own major version, and skips only, on the     *)
(* connecting end and with compression alone, the events that crossed the  *)
(* welcome packet (core/src/bbdo/stream.cc, negotiate and _read_any).      *)
THEOREM NegotiationCorrect == NegSpec => []NegotiationInv
<1>1. NegInit => NegInd
  BY NegInits
<1>2. NegInd /\ [NegNext]_negVars => NegInd'
  BY NegSteps
<1>3. NegInd => NegotiationInv
  BY NegIndImplies
<1> QED
  BY <1>1, <1>2, <1>3, PTL DEF NegSpec

=============================================================================
