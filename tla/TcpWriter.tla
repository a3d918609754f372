------------------------------ MODULE TcpWriter ------------------------------
(***************************************************************************)
(* The write side of tcp::tcp_connection: one client thread calls write()  *)
(* and flush(); threads of the pool run writing() and the completions of   *)
(* asio::async_write (handle_write).                                       *)
(*                                                                         *)
(* The flags are atomics and the queues have different owners, so every    *)
(* access to a shared object is a step of its own.  writing() is posted    *)
(* to the io_context, not to the strand: nothing but _writing keeps two    *)
(* of them apart.  Vectors are numbered in the order of write().           *)
(***************************************************************************)
EXTENDS Naturals, Sequences, SequencesExt

CONSTANTS
    MaxVectors,     \* bound: number of calls of write()
    Slots           \* the tasks the pool may run at the same time

VARIABLES
    client,     \* where the client thread is; "failed" once it was told of an error
    retval,     \* the local variable retval of write() and flush()
    task,       \* what each task of the pool is doing
    exposed,    \* _exposed_write_queue
    queue,      \* _write_queue
    has,        \* _write_queue_has_events
    writing,    \* _writing
    acks,       \* _acks
    error,      \* _current_error is set
    broken,     \* the socket fails from now on
    wire,       \* history: vectors written on the socket
    pushed,     \* history: number of vectors given to write()
    acked       \* history: sum of the values returned to the client

vars == <<client, retval, task, exposed, queue, has, writing, acks, error,
          broken, wire, pushed, acked>>

Vector == 1 .. MaxVectors

Idle == {s \in Slots : task[s] = "none"}

TypeOK ==
    /\ client \in {"idle", "push", "kick", "load", "take",
                   "test", "status", "restart", "failed"}
    /\ task \in [Slots -> {"none", "swap", "decide", "send", "pop"}]
    /\ exposed \in Seq(Vector) /\ queue \in Seq(Vector) /\ wire \in Seq(Vector)
    /\ has \in BOOLEAN /\ writing \in BOOLEAN
    /\ error \in BOOLEAN /\ broken \in BOOLEAN
    /\ retval \in 0 .. MaxVectors /\ acks \in 0 .. MaxVectors
    /\ acked \in 0 .. MaxVectors /\ pushed \in 0 .. MaxVectors

Init ==
    /\ client = "idle" /\ retval = 0
    /\ task = [s \in Slots |-> "none"]
    /\ exposed = <<>> /\ queue = <<>> /\ wire = <<>>
    /\ has = FALSE /\ writing = FALSE /\ error = FALSE /\ broken = FALSE
    /\ acks = 0 /\ pushed = 0 /\ acked = 0

-----------------------------------------------------------------------------
(* The client thread. *)

(* _strand.context().post(writing) once _writing is set. *)
PostWriting ==
    /\ writing' = TRUE
    /\ \E s \in Idle : task' = [task EXCEPT ![s] = "swap"]

(* write() and flush(): a pending error is cleared and thrown; the stream  *)
(* is then destroyed by its owner.                                         *)
ThrowError ==
    /\ client \in {"push", "status"} /\ error
    /\ client' = "failed" /\ error' = FALSE
    /\ UNCHANGED <<retval, task, exposed, queue, has, writing, acks, broken,
                   wire, pushed, acked>>

WriteCall ==
    /\ client = "idle" /\ pushed < MaxVectors
    /\ client' = "push"
    /\ UNCHANGED <<retval, task, exposed, queue, has, writing, acks, error,
                   broken, wire, pushed, acked>>

(* write(): the vector is pushed under _exposed_write_queue_m. *)
WritePush ==
    /\ client = "push" /\ ~error
    /\ client' = "kick"
    /\ exposed' = Append(exposed, pushed + 1) /\ pushed' = pushed + 1
    /\ UNCHANGED <<retval, task, queue, has, writing, acks, error, broken,
                   wire, acked>>

(* write(): the writing work is started if it is not running.  Only the    *)
(* client sets _writing, so testing and setting it is one step.            *)
WriteKick ==
    /\ client = "kick"
    /\ client' = "load"
    /\ \/ ~writing /\ PostWriting
       \/ writing /\ UNCHANGED <<writing, task>>
    /\ UNCHANGED <<retval, exposed, queue, has, acks, error, broken, wire,
                   pushed, acked>>

(* write() and flush(): retval = _acks. *)
LoadAcks ==
    /\ client = "load"
    /\ client' = "take" /\ retval' = acks
    /\ UNCHANGED <<task, exposed, queue, has, writing, acks, error, broken,
                   wire, pushed, acked>>

(* Mutant: "Do not set it to zero directly" is not heeded. *)
TakeAcksZero ==
    /\ client = "take"
    /\ client' = "idle"
    /\ acks' = 0 /\ acked' = acked + retval /\ retval' = 0
    /\ UNCHANGED <<task, exposed, queue, has, writing, error, broken, wire, pushed>>

(* write() and flush(): _acks -= retval, and return. *)
TakeAcks ==
    /\ client = "take"
    /\ client' = "idle"
    /\ acks' = acks - retval /\ acked' = acked + retval /\ retval' = 0
    /\ UNCHANGED <<task, exposed, queue, has, writing, error, broken, wire, pushed>>

(* flush(): retval = _acks. *)
FlushCall ==
    /\ client = "idle"
    /\ client' = "test" /\ retval' = acks
    /\ UNCHANGED <<task, exposed, queue, has, writing, acks, error, broken,
                   wire, pushed, acked>>

(* flush(): if (_acks), a second read of the counter. *)
FlushTest ==
    /\ client = "test"
    /\ client' = IF acks # 0 THEN "take" ELSE "status"
    /\ UNCHANGED <<retval, task, exposed, queue, has, writing, acks, error,
                   broken, wire, pushed, acked>>

(* flush(): no error pending. *)
FlushStatus ==
    /\ client = "status" /\ ~error
    /\ client' = IF has THEN "restart" ELSE "idle"
    /\ UNCHANGED <<retval, task, exposed, queue, has, writing, acks, error,
                   broken, wire, pushed, acked>>

(* flush(): events were seen in _write_queue, the work is started again if *)
(* it is not running.                                                      *)
FlushRestart ==
    /\ client = "restart"
    /\ client' = "idle"
    /\ \/ ~writing /\ PostWriting
       \/ writing /\ UNCHANGED <<writing, task>>
    /\ UNCHANGED <<retval, exposed, queue, has, acks, error, broken, wire,
                   pushed, acked>>

-----------------------------------------------------------------------------
(* The pool. *)

(* writing(): the queues are swapped when _write_queue is empty. *)
Swap(s) ==
    /\ task[s] = "swap"
    /\ task' = [task EXCEPT ![s] = "decide"]
    /\ \/ has /\ UNCHANGED <<queue, exposed, has>>
       \/ /\ ~has
          /\ queue' = exposed /\ exposed' = queue
          /\ has' = (exposed # <<>>)
    /\ UNCHANGED <<client, retval, writing, acks, error, broken, wire, pushed, acked>>

(* writing(): nothing to write, or the async_write is launched. *)
Decide(s) ==
    /\ task[s] = "decide"
    /\ task' = [task EXCEPT ![s] = IF has THEN "send" ELSE "none"]
    /\ writing' = (writing /\ has)
    /\ UNCHANGED <<client, retval, exposed, queue, has, acks, error, broken,
                   wire, pushed, acked>>

(* handle_write() without error, first the counter. *)
HandleAck(s) ==
    /\ task[s] = "send" /\ ~broken
    /\ task' = [task EXCEPT ![s] = "pop"]
    /\ wire' = Append(wire, Head(queue))
    /\ acks' = acks + 1
    /\ UNCHANGED <<client, retval, exposed, queue, has, writing, error, broken,
                   pushed, acked>>

(* handle_write() without error, then the queue: the next vector is sent,  *)
(* or writing() is called.                                                 *)
HandlePop(s) ==
    /\ task[s] = "pop"
    /\ queue' = Tail(queue)
    /\ has' = (Tail(queue) # <<>>)
    /\ task' = [task EXCEPT ![s] = IF has' THEN "send" ELSE "swap"]
    /\ UNCHANGED <<client, retval, exposed, writing, acks, error, broken, wire,
                   pushed, acked>>

(* Mutant: the error is not kept for the client. *)
HandleErrorSilent(s) ==
    /\ task[s] = "send"
    /\ task' = [task EXCEPT ![s] = "none"]
    /\ broken' = TRUE /\ writing' = FALSE
    /\ UNCHANGED <<client, retval, exposed, queue, has, acks, error, wire, pushed, acked>>

(* handle_write() with an error: the vector stays in the queue. *)
HandleError(s) ==
    /\ task[s] = "send"
    /\ task' = [task EXCEPT ![s] = "none"]
    /\ error' = TRUE /\ broken' = TRUE /\ writing' = FALSE
    /\ UNCHANGED <<client, retval, exposed, queue, has, acks, wire, pushed, acked>>

PoolStep(s) == Swap(s) \/ Decide(s) \/ HandleAck(s) \/ HandlePop(s) \/ HandleError(s)

-----------------------------------------------------------------------------

ClientStep ==
    \/ WritePush \/ WriteKick \/ LoadAcks \/ TakeAcks
    \/ FlushTest \/ FlushStatus \/ FlushRestart \/ ThrowError

Next ==
    \/ WriteCall \/ FlushCall \/ ClientStep
    \/ \E s \in Slots : PoolStep(s)

Spec == Init /\ [][Next]_vars

(* The pool runs its tasks; the client finishes its calls and flushes      *)
(* again and again, as failover::run does every second.  Nothing says that *)
(* it has more to write.                                                   *)
FairSpec ==
    /\ Spec
    /\ \A s \in Slots : WF_vars(PoolStep(s))
    /\ WF_vars(ClientStep) /\ WF_vars(FlushCall)

-----------------------------------------------------------------------------
(* Properties. *)

(* At most one writing activity at a time, although writing() runs outside *)
(* the strand: two async_write at once would mix the bytes of two vectors  *)
(* and share the unprotected _write_queue.  There is one as long as        *)
(* _writing is set, so that the flag never keeps the client away for ever. *)
OneWriter == IF writing THEN \E s \in Slots : Slots \ Idle = {s} ELSE Idle = Slots

(* The invariant of the write side: its types and the single writer. *)
WriterInv == TypeOK /\ OneWriter

(* Nothing is dropped, duplicated or reordered between write() and the     *)
(* socket, errors included: the socket has taken a prefix and the two      *)
(* queues hold the rest in order.                                          *)
QueuesHoldAll ==
    LET popped == IF \E s \in Slots : task[s] = "pop" THEN Tail(queue) ELSE queue
    IN  wire \o popped \o exposed = [i \in 1 .. pushed |-> i]

(* Every vector written is acknowledged once: the counter survives the     *)
(* concurrent increments of handle_write and decrements of the client.     *)
AcksConserved == acks + acked = Len(wire)

(* What the comment of write() says: while the queue is not empty,         *)
(* async_write will be called.  Every vector is written in the end, unless *)
(* the socket fails.                                                       *)
EventuallyWritten ==
    \A v \in Vector : (v <= pushed) ~> (v \in ToSet(wire) \/ broken)

=============================================================================
