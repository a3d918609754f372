---------------------------- MODULE TcpConnection ----------------------------
(***************************************************************************)
(* tcp::tcp_connection as tcp::stream uses it: its write side (TcpWriter)  *)
(* and its read side (TcpReader) on one socket, for the one thread that    *)
(* owns the stream.  The thread is in a call of one side at most; the      *)
(* pool works for both.  The sides meet in three places: read() throws the *)
(* error that handle_write() has left, the destructor of the stream closes *)
(* the socket under both, and a closed connection takes no more calls.     *)
(***************************************************************************)
EXTENDS Naturals, Sequences, FiniteSets, SequencesExt

CONSTANTS
    MaxVectors,     \* bound: number of calls of write()
    Slots,          \* the tasks the pool may run for the write side
    MaxBlocks,      \* bound: number of blocks the peer sends
    MaxTasks        \* bound: number of handlers waiting on the strand

ASSUME TcpAssumption ==
    /\ MaxVectors \in Nat /\ MaxBlocks \in Nat /\ MaxTasks \in Nat \ {0}
    /\ IsFiniteSet(Slots) /\ Slots # {}

VARIABLES
    writer, retval, task, outExposed, outQueue, has, writing, acks, error,
    broken, wire, pushed, acked,
    reader, strand, ops, buffer, reading, closing, closed, inQueue, inExposed,
    received, returned, doubled

writeVars == <<writer, retval, task, outExposed, outQueue, has, writing, acks,
               error, broken, wire, pushed, acked>>
readVars == <<reader, strand, ops, buffer, reading, closing, closed, inQueue,
              inExposed, received, returned, doubled>>
tcpVars == <<writeVars, readVars>>

W == INSTANCE TcpWriter WITH client <- writer, exposed <- outExposed, queue <- outQueue
R == INSTANCE TcpReader WITH client <- reader, exposed <- inExposed, queue <- inQueue

TcpInit == W!Init /\ R!Init

-----------------------------------------------------------------------------

(* stream::write(), stream::read() and stream::flush() begin: the thread   *)
(* is outside of both sides, and the connection is not closed.             *)
MayCall == writer = "idle" /\ reader = "idle" /\ ~closed

Write == MayCall /\ W!WriteCall /\ UNCHANGED readVars
Flush == MayCall /\ W!FlushCall /\ UNCHANGED readVars
WriterStep == W!ClientStep /\ UNCHANGED readVars
PoolStep(s) == W!PoolStep(s) /\ UNCHANGED readVars

(* read() without a pending error. *)
Read == MayCall /\ ~error /\ R!ReadCall /\ UNCHANGED writeVars

(* read() with a pending error of the write side: it is cleared and        *)
(* thrown, whatever the queues hold.                                       *)
ReadThrows ==
    /\ MayCall /\ error
    /\ reader' = "thrown" /\ error' = FALSE
    /\ UNCHANGED <<writer, retval, task, outExposed, outQueue, has, writing, acks,
                   broken, wire, pushed, acked, strand, ops, buffer, reading,
                   closing, closed, inQueue, inExposed, received, returned, doubled>>

ReaderStep == (R!ReadGet \/ R!ReadWoken \/ R!ReadTimeout) /\ UNCHANGED writeVars
StrandStep == R!StrandStep /\ UNCHANGED writeVars
Socket == (R!Receive \/ R!ReceiveFails) /\ UNCHANGED writeVars

(* stream::~stream(): the socket is shut down and closed, what is being    *)
(* written fails.                                                          *)
Destroy ==
    /\ writer \in {"idle", "failed"} /\ R!Close
    /\ broken' = TRUE
    /\ UNCHANGED <<writer, retval, task, outExposed, outQueue, has, writing, acks,
                   error, wire, pushed, acked>>

ThreadStep == WriterStep \/ ReaderStep
PoolTask == \E s \in Slots : PoolStep(s)

TcpNext ==
    \/ Write \/ Flush \/ Read \/ ReadThrows \/ ThreadStep \/ Destroy
    \/ PoolTask \/ StrandStep \/ Socket

(* The pool runs what is posted, the thread finishes its calls, and its    *)
(* loop flushes and reads again and again (failover::run, feeder).         *)
TcpSpec ==
    /\ TcpInit /\ [][TcpNext]_tcpVars
    /\ WF_tcpVars(PoolTask) /\ WF_tcpVars(StrandStep) /\ WF_tcpVars(ThreadStep)
    /\ SF_tcpVars(Flush) /\ SF_tcpVars(Read \/ ReadThrows)

-----------------------------------------------------------------------------
(* Properties. *)

(* The stream was left by an exception. *)
Thrown == writer = "failed" \/ reader = "thrown"

(* The invariant of the write side while the thread and the socket are     *)
(* shared with the read side: at most one writing activity at a time,      *)
(* although writing() runs outside the strand, one as long as _writing is  *)
(* set, and nothing dropped, doubled or reordered between write() and the  *)
(* socket, errors and close() included.  Every vector the socket has taken *)
(* is acknowledged to the caller once, or still counted in _acks: also     *)
(* when an exception of read() or of flush() comes between the increments  *)
(* of handle_write() and the decrements of the thread.                     *)
WriterInv == W!WriterInv /\ W!QueuesHoldAll /\ W!AcksConserved

(* read() gives up a closing socket only after the thread has got all the  *)
(* blocks whose handler has run; only an error of the write side makes it  *)
(* leave blocks behind.                                                    *)
NothingLeftBehind ==
    (reader = "thrown" /\ ~broken /\ ~doubled) => (inExposed = <<>> /\ inQueue = <<>>)

(* The invariant of the read side: once started, the reading goes on until *)
(* an error or close() ends it, and as long as there was no second         *)
(* outstanding read every block is in one place, in order: the two queues, *)
(* timeouts, errors of either side and the end of the connection never     *)
(* disturb what was received.                                              *)
ReaderInv == R!ReaderInv /\ R!BlocksConserved /\ NothingLeftBehind

(* An error of the socket, met while writing or while reading, reaches the *)
(* thread whatever it calls next, unless it destroys the stream first.     *)
ErrorReported ==
    []<>(broken \/ closing \/ "error" \in ToSet(strand) => Thrown \/ closed)

(* The thread catches up with the socket: read() returns every block in    *)
(* the end, unless the stream fails or is destroyed before.                *)
EventuallyReturned ==
    []<>(Len(returned) = received \/ doubled \/ Thrown \/ closed)

(* What must go on in a connection: errors reach the thread that uses it,  *)
(* and so does every block (tcp/src/tcp_connection.cc).                    *)
ConnectionLive == ErrorReported /\ EventuallyReturned

=============================================================================
