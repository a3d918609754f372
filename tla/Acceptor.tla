------------------------------ MODULE Acceptor ------------------------------
(***************************************************************************)
(* An endpoint that accepts connections: tcp::tcp_async and tcp::acceptor, *)
(* the thread of processing::acceptor, one processing::feeder with its     *)
(* thread and its muxer per connection, and the endpoint applier that      *)
(* stops them.                                                             *)
(*                                                                         *)
(* A feeder and its queue file have the name of the acceptor and the       *)
(* number of the connection, which starts again with the process.  The     *)
(* queue file is a queue of events (module EventFile); here matters        *)
(* whether its directory entry still exists.                               *)
(***************************************************************************)
EXTENDS Naturals, Sequences, FiniteSets, SequencesExt

CONSTANTS
    Clients,        \* peers that connect, once each
    NoClient,       \* no peer
    MaxEvents,      \* bound: events published
    MaxStarts,      \* bound: lives of the process
    MaxErrors,      \* bound: errors of async_accept
    Limit           \* events the muxer of a feeder keeps in memory

ASSUME AcceptorAssumption ==
    /\ IsFiniteSet(Clients) /\ NoClient \notin Clients /\ Limit \in Nat \ {0}
    /\ {MaxEvents, MaxStarts, MaxErrors} \subseteq Nat

Feeders == 1 .. Cardinality(Clients)    \* numbers of connections

VARIABLES
    client,     \* peer -> "away", "backlog", "available", "opening", "open", "lost"
    mute,       \* peers that never answer the TLS handshake
    armed,      \* "no" (no socket yet), "yes" (async_accept under way) or "over"
    errors,     \* history: errors of async_accept
    apc,        \* thread of the acceptor
    current,    \* the connection acceptor::open is dealing with
    aexit,      \* acceptor::_should_exit
    connections,\* static connection_id
    feeders,    \* _feeders
    fpc,        \* thread of each feeder
    fexit,      \* feeder::_should_exit
    fclient,    \* feeder::_client
    mem,        \* _events of the feeder's muxer
    hold,       \* event between muxer::read and ack_events
    file,       \* _file of the muxer: "null", "linked" or "unlinked"
    disk,       \* queue files of the directory
    hidden,     \* content of an unlinked queue file that is still open
    next,       \* history: number of the next event
    since,      \* history: next event when the feeder subscribed
    leftover,   \* history: events found in the queue file by the constructor
    got,        \* history: events written to the client
    starts      \* history: lives of the process

tcp == <<client, mute, armed, errors>>
muxers == <<mem, hold, file, disk, hidden>>
accVars == <<tcp, apc, current, aexit, connections, feeders, fpc, fexit, fclient,
             muxers, next, since, leftover, got, starts>>

AccInit ==
    /\ client = [c \in Clients |-> "away"] /\ mute \in {m \in SUBSET Clients : Cardinality(m) <= 1}
    /\ armed = "no" /\ errors = 0
    /\ apc = "stopped" /\ current = NoClient /\ aexit = FALSE /\ connections = 0
    /\ feeders = {} /\ fpc = [n \in Feeders |-> "none"]
    /\ fexit = [n \in Feeders |-> FALSE] /\ fclient = [n \in Feeders |-> NoClient]
    /\ mem = [n \in Feeders |-> <<>>] /\ hold = [n \in Feeders |-> <<>>]
    /\ file = [n \in Feeders |-> "null"] /\ disk = [n \in Feeders |-> <<>>]
    /\ hidden = [n \in Feeders |-> <<>>]
    /\ next = 1 /\ since = [n \in Feeders |-> 0]
    /\ leftover = [n \in Feeders |-> <<>>] /\ got = [n \in Feeders |-> <<>>]
    /\ starts = 1

-----------------------------------------------------------------------------
(* Peers and tcp_async. *)

Connect(c) ==
    /\ client[c] = "away"
    /\ client' = [client EXCEPT ![c] = "backlog"]
    /\ UNCHANGED <<mute, armed, errors, apc, current, aexit, connections, feeders, fpc,
                   fexit, fclient, muxers, next, since, leftover, got, starts>>

Disconnect(c) ==
    /\ client[c] \in {"backlog", "available", "opening", "open"}
    /\ client' = [client EXCEPT ![c] = "lost"]
    /\ UNCHANGED <<mute, armed, errors, apc, current, aexit, connections, feeders, fpc,
                   fexit, fclient, muxers, next, since, leftover, got, starts>>

(* Mutant: accepting is not started again after a connection. *)
HandleAcceptOnce(c) ==
    /\ armed = "yes" /\ client[c] = "backlog"
    /\ client' = [client EXCEPT ![c] = "available"]
    /\ armed' = "over"
    /\ UNCHANGED <<mute, errors, apc, current, aexit, connections, feeders, fpc,
                   fexit, fclient, muxers, next, since, leftover, got, starts>>

(* handle_accept without error: the connection is made available and       *)
(* accepting goes on.                                                      *)
HandleAccept(c) ==
    /\ armed = "yes" /\ client[c] = "backlog"
    /\ client' = [client EXCEPT ![c] = "available"]
    /\ UNCHANGED <<mute, armed, errors, apc, current, aexit, connections, feeders, fpc,
                   fexit, fclient, muxers, next, since, leftover, got, starts>>

(* handle_accept with an error: nothing starts accepting again. *)
HandleAcceptError ==
    /\ armed = "yes" /\ errors < MaxErrors
    /\ armed' = "over" /\ errors' = errors + 1
    /\ UNCHANGED <<client, mute, apc, current, aexit, connections, feeders, fpc,
                   fexit, fclient, muxers, next, since, leftover, got, starts>>

-----------------------------------------------------------------------------
(* The thread of processing::acceptor. *)

Start ==
    /\ apc = "stopped" /\ ~aexit
    /\ apc' = "accept"
    /\ UNCHANGED <<tcp, current, aexit, connections, feeders, fpc, fexit, fclient,
                   muxers, next, since, leftover, got, starts>>

(* tcp::acceptor::open: the first call creates the listening socket, then  *)
(* get_connection gives an available connection or times out.  A peer that *)
(* has gone makes remote_endpoint() throw.                                 *)
Open ==
    /\ apc = "accept" /\ ~aexit
    /\ armed' = IF armed = "no" THEN "yes" ELSE armed
    /\ \/ \E c \in Clients :
            /\ client[c] = "available"
            /\ client' = [client EXCEPT ![c] = "opening"]
            /\ current' = c
            /\ apc' = "handshake"
       \/ /\ \A c \in Clients : client[c] # "available"
          /\ apc' = "reap"
          /\ UNCHANGED <<client, current>>
    /\ UNCHANGED <<mute, errors, aexit, connections, feeders, fpc, fexit, fclient,
                   muxers, next, since, leftover, got, starts>>

(* bbdo and TLS negotiation inside open(): the bbdo part has a deadline,   *)
(* the TLS handshake waits for ever for a peer that stays silent.          *)
HandshakeFails ==
    /\ apc = "handshake" /\ client[current] = "lost"
    /\ apc' = "sleep" /\ current' = NoClient
    /\ UNCHANGED <<tcp, aexit, connections, feeders, fpc, fexit, fclient, muxers,
                   next, since, leftover, got, starts>>

(* The muxer's constructor: queue files of that name are read first. *)
Loaded(content) == SubSeq(content, 1, IF Len(content) < Limit THEN Len(content) ELSE Limit)
Unloaded(content) == SubSeq(content, Len(Loaded(content)) + 1, Len(content))

(* feeder::feeder: the muxer is built, subscribed, and the thread started. *)
NewFeeder(n) ==
    /\ apc = "handshake" /\ client[current] = "opening" /\ current \notin mute
    /\ connections' = n
    /\ client' = [client EXCEPT ![current] = "open"]
    /\ fclient' = [fclient EXCEPT ![n] = current]
    /\ fpc' = [fpc EXCEPT ![n] = "start"]
    /\ fexit' = [fexit EXCEPT ![n] = FALSE]
    /\ mem' = [mem EXCEPT ![n] = Loaded(disk[n])]
    /\ disk' = [disk EXCEPT ![n] = Unloaded(disk[n])]
    /\ file' = [file EXCEPT ![n] = IF Len(disk[n]) < Limit THEN "null" ELSE "linked"]
    /\ since' = [since EXCEPT ![n] = next]
    /\ leftover' = [leftover EXCEPT ![n] = disk[n]]
    /\ got' = [got EXCEPT ![n] = <<>>]
    /\ apc' = "create"
    /\ UNCHANGED <<mute, armed, errors, current, aexit, feeders, hold, hidden, next, starts>>

(* Mutant: the name of a finished feeder is used again. *)
CreateFeederAgain == NewFeeder(Cardinality(feeders) + 1)

(* acceptor::accept: each connection has a number of its own. *)
CreateFeeder == NewFeeder(connections + 1)

(* The constructor waits for the thread to run, then the feeder is listed. *)
FeederCreated ==
    /\ apc = "create" /\ fpc[connections] # "start"
    /\ feeders' = feeders \union {connections}
    /\ apc' = "reap" /\ current' = NoClient
    /\ UNCHANGED <<tcp, aexit, connections, fpc, fexit, fclient, muxers, next, since,
                   leftover, got, starts>>

Sleep ==
    /\ apc = "sleep"
    /\ apc' = "reap"
    /\ UNCHANGED <<tcp, current, aexit, connections, feeders, fpc, fexit, fclient,
                   muxers, next, since, leftover, got, starts>>

(* feeder::is_finished(): _state is finished and _should_exit is set. *)
IsFinished(n) == fpc[n] \in {"clean", "done"} /\ fexit[n]

(* ~feeder once its thread is joined: the muxer is unsubscribed and        *)
(* destroyed, its queue file closed.                                       *)
Destroy(n) ==
    /\ fpc[n] = "done"
    /\ fpc' = [fpc EXCEPT ![n] = "none"]
    /\ feeders' = feeders \ {n}
    /\ mem' = [mem EXCEPT ![n] = <<>>] /\ hold' = [hold EXCEPT ![n] = <<>>]
    /\ file' = [file EXCEPT ![n] = "null"] /\ hidden' = [hidden EXCEPT ![n] = <<>>]
    /\ fclient' = [fclient EXCEPT ![n] = NoClient]
    /\ since' = [since EXCEPT ![n] = 0] /\ got' = [got EXCEPT ![n] = <<>>]
    /\ leftover' = [leftover EXCEPT ![n] = <<>>]
    /\ UNCHANGED disk

(* The check for terminated feeders. *)
Reap ==
    /\ apc = "reap"
    /\ \/ /\ \E n \in feeders : IsFinished(n) /\ Destroy(n)
          /\ UNCHANGED apc
       \/ /\ \A n \in feeders : ~IsFinished(n)
          /\ apc' = "accept"
          /\ UNCHANGED <<fpc, feeders, fclient, muxers, since, leftover, got>>
    /\ UNCHANGED <<tcp, current, aexit, connections, fexit, next, starts>>

-----------------------------------------------------------------------------
(* The thread of a feeder. *)

FeederRuns(n) ==
    /\ fpc[n] = "start"
    /\ fpc' = [fpc EXCEPT ![n] = "run"]
    /\ UNCHANGED <<tcp, apc, current, aexit, connections, feeders, fexit, fclient,
                   muxers, next, since, leftover, got, starts>>

Subscribed == {n \in Feeders : fpc[n] # "none"}

(* muxer::publish: memory, then the queue file, created when needed. *)
PublishTo(n, e) ==
    IF Len(mem[n]) < Limit
      THEN [m |-> Append(mem[n], e), f |-> file[n], d |-> disk[n], h |-> hidden[n]]
      ELSE IF file[n] = "unlinked"
        THEN [m |-> mem[n], f |-> file[n], d |-> disk[n], h |-> Append(hidden[n], e)]
        ELSE [m |-> mem[n], f |-> "linked", d |-> Append(disk[n], e), h |-> hidden[n]]

(* engine::publish to all the muxers. *)
PublishAll ==
    /\ next <= MaxEvents
    /\ next' = next + 1
    /\ LET p == [n \in Feeders |->
                   IF n \in Subscribed THEN PublishTo(n, next)
                   ELSE [m |-> mem[n], f |-> file[n], d |-> disk[n], h |-> hidden[n]]]
       IN  /\ mem' = [n \in Feeders |-> p[n].m] /\ file' = [n \in Feeders |-> p[n].f]
           /\ disk' = [n \in Feeders |-> p[n].d] /\ hidden' = [n \in Feeders |-> p[n].h]
    /\ UNCHANGED hold

(* Another endpoint of the process publishes an event. *)
Publish ==
    /\ PublishAll
    /\ UNCHANGED <<tcp, apc, current, aexit, connections, feeders, fpc, fexit, fclient,
                   since, leftover, got, starts>>

(* One turn of the loop: an event read from the stream is published. *)
FromClient(n) ==
    /\ fpc[n] = "run" /\ hold[n] = <<>> /\ ~fexit[n]
    /\ client[fclient[n]] = "open"
    /\ PublishAll
    /\ UNCHANGED <<tcp, apc, current, aexit, connections, feeders, fpc, fexit, fclient,
                   since, leftover, got, starts>>

(* One turn of the loop: an event is read from the muxer. *)
FromMuxer(n) ==
    /\ fpc[n] = "run" /\ hold[n] = <<>> /\ ~fexit[n]
    /\ client[fclient[n]] = "open"
    /\ mem[n] # <<>>
    /\ hold' = [hold EXCEPT ![n] = <<Head(mem[n])>>]
    /\ UNCHANGED <<tcp, apc, current, aexit, connections, feeders, fpc, fexit, fclient,
                   mem, file, disk, hidden, next, since, leftover, got, starts>>

(* ack_events(1): memory is refilled from the file, which is released at   *)
(* its end.                                                                *)
Refill(n) ==
    LET content == IF file[n] = "unlinked" THEN hidden[n] ELSE disk[n]
    IN  IF file[n] = "null" THEN
          [m |-> Tail(mem[n]), f |-> file[n], d |-> disk[n], h |-> hidden[n]]
        ELSE IF content = <<>> THEN
          [m |-> Tail(mem[n]), f |-> "null", d |-> disk[n], h |-> <<>>]
        ELSE [m |-> Append(Tail(mem[n]), Head(content)), f |-> file[n],
              d |-> IF file[n] = "linked" THEN Tail(content) ELSE disk[n],
              h |-> IF file[n] = "unlinked" THEN Tail(content) ELSE hidden[n]]

(* The event is written to the stream and acknowledged at once, whatever   *)
(* the stream says about it.                                               *)
ToClient(n) ==
    /\ fpc[n] = "run" /\ hold[n] # <<>> /\ client[fclient[n]] = "open"
    /\ got' = [got EXCEPT ![n] = Append(@, hold[n][1])]
    /\ hold' = [hold EXCEPT ![n] = <<>>]
    /\ mem' = [mem EXCEPT ![n] = Refill(n).m] /\ file' = [file EXCEPT ![n] = Refill(n).f]
    /\ disk' = [disk EXCEPT ![n] = Refill(n).d] /\ hidden' = [hidden EXCEPT ![n] = Refill(n).h]
    /\ UNCHANGED <<tcp, apc, current, aexit, connections, feeders, fpc, fexit, fclient,
                   next, since, leftover, starts>>

(* The loop ends: exit was asked for, or the stream has thrown. *)
LeaveLoop(n) ==
    /\ fpc[n] = "run"
    /\ (fexit[n] /\ hold[n] = <<>>) \/ client[fclient[n]] = "lost"
    /\ fpc' = [fpc EXCEPT ![n] = "left"]
    /\ fexit' = [fexit EXCEPT ![n] = TRUE]
    /\ UNCHANGED <<tcp, apc, current, aexit, connections, feeders, fclient, muxers,
                   next, since, leftover, got, starts>>

(* _state = finished. *)
Finish(n) ==
    /\ fpc[n] = "left"
    /\ fpc' = [fpc EXCEPT ![n] = "clean"]
    /\ UNCHANGED <<tcp, apc, current, aexit, connections, feeders, fexit, fclient,
                   muxers, next, since, leftover, got, starts>>

(* _client.reset() and muxer::remove_queue_files(): the directory entries  *)
(* go, a queue file that the muxer has open stays in use.                  *)
RemoveQueueFiles(n) ==
    /\ fpc[n] = "clean"
    /\ fpc' = [fpc EXCEPT ![n] = "done"]
    /\ client' = [client EXCEPT ![fclient[n]] = "lost"]
    /\ disk' = [disk EXCEPT ![n] = <<>>]
    /\ hidden' = [hidden EXCEPT ![n] = IF file[n] = "linked" THEN disk[n] ELSE @]
    /\ file' = [file EXCEPT ![n] = IF @ = "linked" THEN "unlinked" ELSE @]
    /\ UNCHANGED <<mute, armed, errors, apc, current, aexit, connections, feeders, fexit,
                   fclient, mem, hold, next, since, leftover, got, starts>>

-----------------------------------------------------------------------------
(* The end. *)

(* acceptor::exit by the endpoint applier; a thread never started stays so. *)
Exit ==
    /\ ~aexit
    /\ aexit' = TRUE
    /\ apc' = IF apc = "stopped" THEN "finished" ELSE apc
    /\ UNCHANGED <<tcp, current, connections, feeders, fpc, fexit, fclient, muxers,
                   next, since, leftover, got, starts>>

(* The loop of the acceptor sees _should_exit. *)
Finished ==
    /\ apc = "accept" /\ aexit
    /\ apc' = "finished"
    /\ UNCHANGED <<tcp, current, aexit, connections, feeders, fpc, fexit, fclient,
                   muxers, next, since, leftover, got, starts>>

(* ~acceptor: each feeder is asked to exit, waited for and destroyed. *)
DestroyFeeder(n) ==
    /\ apc = "finished" /\ n \in feeders
    /\ \/ /\ ~fexit[n]
          /\ fexit' = [fexit EXCEPT ![n] = TRUE]
          /\ UNCHANGED <<fpc, feeders, fclient, muxers, since, leftover, got>>
       \/ /\ Destroy(n)
          /\ UNCHANGED fexit
    /\ UNCHANGED <<tcp, apc, current, aexit, connections, next, starts>>

(* The process ends after a clean exit or dies, and starts again: the      *)
(* count of connections is back to 0, the directory is what it was.        *)
Restart ==
    /\ starts < MaxStarts
    /\ starts' = starts + 1
    /\ client' = [c \in Clients |-> IF client[c] = "away" THEN "away" ELSE "lost"]
    /\ armed' = "no" /\ errors' = 0
    /\ apc' = "stopped" /\ current' = NoClient /\ aexit' = FALSE /\ connections' = 0
    /\ feeders' = {} /\ fpc' = [n \in Feeders |-> "none"]
    /\ fexit' = [n \in Feeders |-> FALSE] /\ fclient' = [n \in Feeders |-> NoClient]
    /\ mem' = [n \in Feeders |-> <<>>] /\ hold' = [n \in Feeders |-> <<>>]
    /\ file' = [n \in Feeders |-> "null"] /\ hidden' = [n \in Feeders |-> <<>>]
    /\ since' = [n \in Feeders |-> 0] /\ got' = [n \in Feeders |-> <<>>]
    /\ leftover' = [n \in Feeders |-> <<>>]
    /\ UNCHANGED <<mute, disk, next>>

-----------------------------------------------------------------------------

AcceptorStep == Open \/ HandshakeFails \/ CreateFeeder \/ FeederCreated \/ Sleep
                  \/ Reap \/ Finished
FeederStep(n) == FeederRuns(n) \/ ToClient(n) \/ FromMuxer(n) \/ LeaveLoop(n)
                   \/ Finish(n) \/ RemoveQueueFiles(n)

AccNext ==
    \/ \E c \in Clients : Connect(c) \/ Disconnect(c) \/ HandleAccept(c)
    \/ HandleAcceptError
    \/ Start \/ Open \/ HandshakeFails \/ CreateFeeder \/ FeederCreated \/ Sleep \/ Reap
    \/ Finished
    \/ \E n \in Feeders :
         \/ FeederRuns(n) \/ FromClient(n) \/ FromMuxer(n) \/ ToClient(n)
         \/ LeaveLoop(n) \/ Finish(n) \/ RemoveQueueFiles(n) \/ DestroyFeeder(n)
    \/ Publish \/ Exit \/ Restart

AccSpec == AccInit /\ [][AccNext]_accVars

(* Threads run, and the io_context handles accepted sockets; peers, errors *)
(* and exit may happen or not.                                             *)
AccFairSpec ==
    /\ AccSpec
    /\ WF_accVars(Start) /\ WF_accVars(AcceptorStep)
    /\ \A c \in Clients : WF_accVars(HandleAccept(c))
    /\ \A n \in Feeders : WF_accVars(FeederStep(n)) /\ WF_accVars(DestroyFeeder(n))

-----------------------------------------------------------------------------
(* Properties. *)

AccTypeOK ==
    /\ apc \in {"stopped", "accept", "handshake", "create", "reap", "sleep", "finished"}
    /\ \A n \in Feeders :
         /\ fpc[n] \in {"none", "start", "run", "left", "clean", "done"}
         /\ file[n] \in {"null", "linked", "unlinked"}
         /\ Len(mem[n]) <= Limit /\ Len(hold[n]) <= 1
    /\ feeders \subseteq Subscribed

Queued(n) == mem[n] \o (IF file[n] = "unlinked" THEN hidden[n] ELSE disk[n])

(* A client gets every event published since its feeder has subscribed, in *)
(* order and once, after what a queue file left by an earlier process      *)
(* held: memory, queue file and the event under way together are what was  *)
(* not written yet.                                                        *)
FeedConserved ==
    \A n \in Subscribed :
       fpc[n] \in {"start", "run"} =>
         got[n] \o Queued(n) = leftover[n] \o [i \in 1 .. next - since[n] |-> since[n] + i - 1]

(* The queue file of a connection is new unless the process was restarted: *)
(* within one life no feeder finds events of another one.                  *)
LeftoverOnlyAfterRestart ==
    starts = 1 => \A n \in Feeders : leftover[n] = <<>>

(* The invariant of the acceptor and its feeders: a running feeder has     *)
(* given its peer, or still holds for it, every event since it subscribed, *)
(* in order, and within one life no feeder finds those of another.         *)
AcceptorInv == AccTypeOK /\ FeedConserved /\ LeftoverOnlyAfterRestart

(* A peer that connects to a listening acceptor gets a feeder, unless it   *)
(* leaves, accepting has failed, a silent peer holds the TLS handshake or  *)
(* the endpoint stops.                                                     *)
PeerServed ==
    \A c \in Clients :
       []<>(\/ client[c] \notin {"backlog", "available", "opening"}
            \/ errors > 0 \/ aexit
            \/ apc = "handshake" /\ current \in mute)

(* Once exit is asked for, the acceptor and all its feeders end, unless a  *)
(* silent peer holds the TLS handshake.                                    *)
AcceptorExits ==
    []<>(\/ ~aexit
         \/ apc = "finished" /\ feeders = {}
         \/ apc = "handshake" /\ current \in mute)

(* remove_queue_files() leaves no queue file of the feeder behind. *)
QueueFilesRemoved == \A n \in Feeders : fpc[n] = "none" /\ starts = 1 => disk[n] = <<>>

=============================================================================
