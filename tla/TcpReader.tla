------------------------------ MODULE TcpReader ------------------------------
(***************************************************************************)
(* The read side of tcp::tcp_connection: one client thread calls read()    *)
(* and, at the end, close(); the handlers start_reading() and              *)
(* handle_read() run one after the other on the strand.                    *)
(*                                                                         *)
(* A block is what one async_read_some gets from the socket; blocks are    *)
(* numbered in the order the socket delivers them.  All reads share the    *)
(* one _read_buffer, from which handle_read() copies the block later.      *)
(***************************************************************************)
EXTENDS Naturals, Sequences, SequencesExt

CONSTANTS
    MaxBlocks,      \* bound: number of blocks the peer sends
    MaxTasks        \* bound: number of handlers waiting on the strand

VARIABLES
    client,     \* where the client thread is
    strand,     \* handlers waiting to run on _strand
    ops,        \* number of async_read_some that are outstanding
    buffer,     \* block in _read_buffer, 0 at first
    reading,    \* _reading
    closing,    \* _closing
    closed,     \* _closed; the socket is then closed too
    queue,      \* _read_queue
    exposed,    \* _exposed_read_queue
    received,   \* history: number of blocks taken from the socket
    returned,   \* history: blocks returned by read()
    doubled     \* history: two reads were outstanding at the same time

vars == <<client, strand, ops, buffer, reading, closing, closed, queue,
          exposed, received, returned, doubled>>

Block == 1 .. MaxBlocks

TypeOK ==
    /\ client \in {"idle", "get", "wait", "thrown"}
    /\ strand \in Seq({"start", "data", "error"}) /\ Len(strand) <= MaxTasks
    /\ ops \in 0 .. MaxTasks
    /\ buffer \in 0 .. MaxBlocks /\ received \in 0 .. MaxBlocks
    /\ reading \in BOOLEAN /\ closing \in BOOLEAN
    /\ closed \in BOOLEAN /\ doubled \in BOOLEAN
    /\ queue \in Seq(Block) /\ exposed \in Seq(Block) /\ returned \in Seq(Block)

Init ==
    /\ client = "idle"
    /\ strand = <<>> /\ ops = 0 /\ buffer = 0
    /\ reading = FALSE /\ closing = FALSE /\ closed = FALSE
    /\ queue = <<>> /\ exposed = <<>>
    /\ received = 0 /\ returned = <<>> /\ doubled = FALSE

-----------------------------------------------------------------------------
(* The client thread. *)

(* read(), up to the queues: start_reading() is posted unless it has run. *)
ReadCall ==
    /\ client = "idle"
    /\ client' = "get"
    /\ \/ reading /\ UNCHANGED strand
       \/ /\ ~reading /\ Len(strand) < MaxTasks
          /\ strand' = Append(strand, "start")
    /\ UNCHANGED <<ops, buffer, reading, closing, closed, queue, exposed,
                   received, returned, doubled>>

(* Mutant: _read_queue is emptied whether or not it was swapped. *)
TakeDrops ==
    LET q == IF exposed = <<>> THEN queue ELSE exposed
    IN  /\ q # <<>>
        /\ returned' = Append(returned, Head(q))
        /\ exposed' = Tail(q)
        /\ queue' = <<>>
        /\ client' = "idle"

(* read() gives the client the front of _exposed_read_queue, which it has  *)
(* swapped with _read_queue if it was empty.                               *)
Take ==
    LET q == IF exposed = <<>> THEN queue ELSE exposed
    IN  /\ q # <<>>
        /\ returned' = Append(returned, Head(q))
        /\ exposed' = Tail(q)
        /\ queue' = IF exposed = <<>> THEN <<>> ELSE queue
        /\ client' = "idle"

(* read() with something in the queues, or on a closed socket. *)
ReadGet ==
    /\ client = "get"
    /\ \/ Take
       \/ /\ exposed = <<>> /\ queue = <<>>
          /\ client' = IF closed THEN "idle" ELSE "wait"
          /\ UNCHANGED <<queue, exposed, returned>>
    /\ UNCHANGED <<strand, ops, buffer, reading, closing, closed, received, doubled>>

(* Mutant: a closing socket is looked at before the queue. *)
ReadWokenClosingFirst ==
    /\ client = "wait"
    /\ \/ ~closing /\ Take
       \/ /\ closing
          /\ client' = "thrown"
          /\ UNCHANGED <<queue, exposed, returned>>
    /\ UNCHANGED <<strand, ops, buffer, reading, closing, closed, received, doubled>>

(* read(): the wait on _read_queue_cv ends with a block or an exception. *)
ReadWoken ==
    /\ client = "wait"
    /\ \/ Take
       \/ /\ queue = <<>> /\ closing
          /\ client' = "thrown"
          /\ UNCHANGED <<queue, exposed, returned>>
    /\ UNCHANGED <<strand, ops, buffer, reading, closing, closed, received, doubled>>

(* read(): the deadline, often in the past, is over. *)
ReadTimeout ==
    /\ client = "wait" /\ queue = <<>> /\ ~closing
    /\ client' = "idle"
    /\ UNCHANGED <<strand, ops, buffer, reading, closing, closed, queue,
                   exposed, received, returned, doubled>>

(* close(): called by the client's own thread. *)
Close ==
    /\ client \in {"idle", "thrown"} /\ ~closed
    /\ closed' = TRUE
    /\ UNCHANGED <<client, strand, ops, buffer, reading, closing, queue,
                   exposed, received, returned, doubled>>

-----------------------------------------------------------------------------
(* The socket. *)

(* The socket has failed for good. *)
Failed == closed \/ closing \/ "error" \in ToSet(strand)

(* An outstanding read gets a block: it is in the buffer at once, its      *)
(* handler has to wait for the strand.                                     *)
Receive ==
    /\ ops > 0 /\ ~Failed /\ received < MaxBlocks /\ Len(strand) < MaxTasks
    /\ ops' = ops - 1
    /\ received' = received + 1 /\ buffer' = received + 1
    /\ strand' = Append(strand, "data")
    /\ UNCHANGED <<client, reading, closing, closed, queue, exposed, returned, doubled>>

(* An outstanding read fails: the peer is gone or the socket was closed. *)
ReceiveFails ==
    /\ ops > 0 /\ Len(strand) < MaxTasks
    /\ ops' = ops - 1
    /\ strand' = Append(strand, "error")
    /\ UNCHANGED <<client, buffer, reading, closing, closed, queue, exposed,
                   received, returned, doubled>>

-----------------------------------------------------------------------------
(* The strand. *)

(* Another read is outstanding or waits for its handler. *)
Pending(tasks) == ops > 0 \/ \E t \in ToSet(tasks) : t # "start"

(* start_reading() *)
StartReading ==
    IF closing \/ closed
    THEN UNCHANGED <<reading, ops, doubled>>
    ELSE /\ reading' = TRUE /\ ops' = ops + 1
         /\ doubled' = (doubled \/ Pending(Tail(strand)))

RunStart ==
    /\ strand # <<>> /\ Head(strand) = "start" /\ ops < MaxTasks
    /\ strand' = Tail(strand)
    /\ StartReading
    /\ UNCHANGED <<client, buffer, closing, closed, queue, exposed, received, returned>>

(* handle_read() with data: the block is copied from the buffer. *)
HandleData ==
    /\ strand # <<>> /\ Head(strand) = "data" /\ ops < MaxTasks
    /\ strand' = Tail(strand)
    /\ queue' = Append(queue, buffer)
    /\ StartReading
    /\ UNCHANGED <<client, buffer, closing, closed, exposed, received, returned>>

(* handle_read() with an error. *)
HandleError ==
    /\ strand # <<>> /\ Head(strand) = "error"
    /\ strand' = Tail(strand)
    /\ closing' = TRUE
    /\ UNCHANGED <<client, ops, buffer, reading, closed, queue, exposed,
                   received, returned, doubled>>

-----------------------------------------------------------------------------

ClientStep == ReadCall \/ ReadGet \/ ReadWoken \/ ReadTimeout
StrandStep == RunStart \/ HandleData \/ HandleError

Next == ClientStep \/ Close \/ StrandStep \/ Receive \/ ReceiveFails

Spec == Init /\ [][Next]_vars

-----------------------------------------------------------------------------
(* Properties. *)

(* The blocks between the socket and the client: on the strand there is at *)
(* most the one in the buffer.                                             *)
InBuffer == IF "data" \in ToSet(strand) THEN <<buffer>> ELSE <<>>
AllBlocks == [i \in 1 .. received |-> i]

(* As the comment of start_reading() has it, the queue is filled block by  *)
(* block: the client gets what the socket has delivered, in order, nothing *)
(* twice and nothing missing.                                              *)
BlocksIntact == IsPrefix(returned \o exposed \o queue, AllBlocks)

(* As long as there was no second outstanding read every block is in one   *)
(* place, in order: swapping the two queues, timeouts, errors and close()  *)
(* never disturb the data.                                                 *)
BlocksConserved ==
    doubled \/ returned \o exposed \o queue \o InBuffer = AllBlocks

(* Once started, the reading goes on until the end: there always is a      *)
(* handler or an outstanding read to continue it, unless an error or       *)
(* close() has ended it.                                                   *)
ReadingGoesOn == (reading /\ ~closing /\ ~closed) => (ops > 0 \/ strand # <<>>)

(* The invariant of the read side: its types, and a reading that goes on   *)
(* until an error or close() ends it.                                      *)
ReaderInv == TypeOK /\ ReadingGoesOn

=============================================================================
