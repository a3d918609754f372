------------------------------ MODULE BbdoLink ------------------------------
(***************************************************************************)
(* Event acknowledgement between two brokers.  A failover thread moves     *)
(* events from its muxer to a bbdo::stream; at the other end a feeder      *)
(* thread reads them from its own bbdo::stream and publishes them.  The    *)
(* reading stream counts the events it returns and sends an ack packet     *)
(* every ack_limit events; the writing stream adds the packets up and      *)
(* reports the sum to the failover, which pops as many events.             *)
(*                                                                         *)
(* The two directions of the connection are FIFO until it breaks.  Then    *)
(* both streams are destroyed, what was on the way is lost, and the        *)
(* failover reads its muxer again from the first unacknowledged event.     *)
(*                                                                         *)
(* Events are numbered in the order of their publication.  The queue file  *)
(* (module Muxer) is the sequence behind the memory queue.                 *)
(***************************************************************************)
EXTENDS Naturals, Sequences, SequencesExt

CONSTANTS
    Limit,          \* event_queue_max_size of the sending broker
    AckLimits,      \* values of ack_limit of the receiving endpoint
    Unknown,        \* events whose type the receiving broker cannot decode
    MaxEvents,      \* bound: number of events published
    MaxBreaks       \* bound: number of broken connections

ASSUME LimitAssumption == Limit \in Nat \ {0}
ASSUME AckLimitsAssumption == AckLimits \subseteq Nat \ {0}
ASSUME UnknownAssumption == Unknown \subseteq Nat
ASSUME BoundsAssumption == MaxEvents \in Nat /\ MaxBreaks \in Nat

VARIABLES
    link,           \* "up" or "down"
    events,         \* _events of the sending muxer
    pos,            \* its _pos, as the number of events before it
    disk,           \* its queue file
    acknowledged,   \* _acknowledged_events of the writing stream
    packets,        \* event packets on their way
    ackPackets,     \* ack packets on their way: the counts they carry
    ack_limit,      \* _ack_limit of the reading stream
    unacked,        \* _events_received_since_last_ack of the reading stream
    dropped,        \* history: events of this connection that were not decoded
    relayed,        \* history: events the feeder has published
    popped,         \* history: events removed from the sending muxer
    next,           \* history: number of the next event
    breaks          \* history: number of broken connections

vars == <<link, events, pos, disk, acknowledged, packets, ackPackets, ack_limit,
          unacked, dropped, relayed, popped, next, breaks>>

Event == 1 .. MaxEvents

TypeOK ==
    /\ link \in {"up", "down"}
    /\ events \in Seq(Event) /\ disk \in Seq(Event) /\ pos \in 0 .. Len(events)
    /\ acknowledged \in Nat
    /\ packets \in Seq(Event) /\ ackPackets \in Seq({ack_limit})
    /\ ack_limit \in AckLimits /\ dropped \in Nat
    /\ unacked \in 0 .. ack_limit - 1
    /\ relayed \in Seq(Event) /\ popped \subseteq Event
    /\ next \in 1 .. MaxEvents + 1 /\ breaks \in 0 .. MaxBreaks

Init ==
    /\ link = "down"
    /\ events = <<>> /\ pos = 0 /\ disk = <<>>
    /\ acknowledged = 0 /\ packets = <<>> /\ ackPackets = <<>>
    /\ ack_limit \in AckLimits /\ unacked = 0 /\ dropped = 0
    /\ relayed = <<>> /\ popped = {} /\ next = 1 /\ breaks = 0

-----------------------------------------------------------------------------
(* The sending broker. *)

(* muxer::publish, by the engine. *)
Publish ==
    /\ next <= MaxEvents
    /\ next' = next + 1
    /\ \/ /\ Len(events) >= Limit
          /\ disk' = Append(disk, next) /\ UNCHANGED events
       \/ /\ Len(events) < Limit
          /\ events' = Append(events, next) /\ UNCHANGED disk
    /\ UNCHANGED <<link, pos, acknowledged, packets, ackPackets, ack_limit, unacked, dropped, relayed,
                   popped, breaks>>

(* The stream reports what was acknowledged and starts a new count; the    *)
(* muxer, of which read events were read, pops as many and is filled from  *)
(* the queue file.                                                         *)
PopAcked(read) ==
    LET n == IF acknowledged < read THEN acknowledged ELSE read
        left == SubSeq(events, n + 1, Len(events))
        room == IF Len(left) < Limit THEN Limit - Len(left) ELSE 0
        fill == IF room < Len(disk) THEN room ELSE Len(disk)
    IN  /\ popped' = popped \union ToSet(SubSeq(events, 1, n))
        /\ events' = left \o SubSeq(disk, 1, fill)
        /\ disk' = SubSeq(disk, fill + 1, Len(disk))
        /\ pos' = read - n
        /\ acknowledged' = 0

(* failover::run, one turn with an event: muxer::read, stream::write and   *)
(* muxer::ack_events.                                                      *)
SenderWrite ==
    /\ link = "up" /\ pos < Len(events)
    /\ packets' = Append(packets, events[pos + 1])
    /\ PopAcked(pos + 1)
    /\ UNCHANGED <<link, ackPackets, ack_limit, unacked, dropped, relayed, next, breaks>>

(* failover::run, one turn without an event: stream::flush, ack_events. *)
SenderFlush ==
    /\ link = "up" /\ pos = Len(events) /\ acknowledged > 0
    /\ PopAcked(pos)
    /\ UNCHANGED <<link, packets, ackPackets, ack_limit, unacked, dropped, relayed, next, breaks>>

(* failover::run reads the stream: an ack packet is counted. *)
SenderRead ==
    /\ link = "up" /\ ackPackets # <<>>
    /\ acknowledged' = acknowledged + Head(ackPackets)
    /\ ackPackets' = Tail(ackPackets)
    /\ UNCHANGED <<link, events, pos, disk, packets, ack_limit, unacked, dropped,
                   relayed, popped, next, breaks>>

-----------------------------------------------------------------------------
(* The receiving broker. *)

(* Mutant: one event too many is waited for. *)
SendAcknowledgementLate(count) ==
    \/ /\ count > ack_limit
       /\ ackPackets' = Append(ackPackets, count) /\ unacked' = 0
    \/ /\ count <= ack_limit
       /\ unacked' = count /\ UNCHANGED ackPackets

(* End of bbdo::stream::read: the acknowledgement of count events is sent  *)
(* when the limit is reached.                                              *)
SendAcknowledgement(count) ==
    \/ /\ count >= ack_limit
       /\ ackPackets' = Append(ackPackets, count) /\ unacked' = 0
    \/ /\ count < ack_limit
       /\ unacked' = count /\ UNCHANGED ackPackets

(* bbdo::stream::read by the feeder: an event that can be decoded is       *)
(* counted, then published; any other is dropped and not counted.          *)
ReceiverRead ==
    /\ link = "up" /\ packets # <<>>
    /\ packets' = Tail(packets)
    /\ \/ /\ Head(packets) \notin Unknown
          /\ SendAcknowledgement(unacked + 1)
          /\ relayed' = Append(relayed, Head(packets))
          /\ UNCHANGED dropped
       \/ /\ Head(packets) \in Unknown
          /\ dropped' = dropped + 1
          /\ UNCHANGED <<ackPackets, unacked, relayed>>
    /\ UNCHANGED <<link, events, pos, disk, acknowledged, ack_limit, popped, next,
                   breaks>>

-----------------------------------------------------------------------------
(* The connection. *)

(* Mutant: the count of the old connection is kept for the new one. *)
BreakKeepsCount ==
    /\ link = "up" /\ breaks < MaxBreaks
    /\ link' = "down"
    /\ breaks' = breaks + 1
    /\ packets' = <<>> /\ ackPackets' = <<>>
    /\ unacked' = 0 /\ dropped' = 0
    /\ UNCHANGED <<events, pos, disk, acknowledged, ack_limit, relayed, popped, next>>

(* Both streams throw and are destroyed with their counters. *)
Break ==
    /\ link = "up" /\ breaks < MaxBreaks
    /\ link' = "down"
    /\ breaks' = breaks + 1
    /\ packets' = <<>> /\ ackPackets' = <<>>
    /\ acknowledged' = 0 /\ unacked' = 0 /\ dropped' = 0
    /\ UNCHANGED <<events, pos, disk, ack_limit, relayed, popped, next>>

(* The failover opens its endpoint again, after nack_events. *)
Connect ==
    /\ link = "down"
    /\ link' = "up"
    /\ pos' = 0
    /\ UNCHANGED <<events, disk, acknowledged, packets, ackPackets, ack_limit, unacked, dropped, relayed,
                   popped, next, breaks>>

Next ==
    \/ Publish \/ SenderWrite \/ SenderFlush \/ SenderRead
    \/ ReceiverRead \/ Break \/ Connect

Spec == Init /\ [][Next]_vars

(* Both threads run, reading comes before writing in each turn of their    *)
(* loops, and a broken connection is tried again.                          *)
FairSpec ==
    /\ Spec
    /\ WF_vars(SenderRead) /\ WF_vars(SenderWrite \/ SenderFlush)
    /\ WF_vars(ReceiverRead) /\ WF_vars(Connect)

-----------------------------------------------------------------------------
(* Properties. *)

(* An event leaves the sending broker only when the receiving one has it:  *)
(* the counts that bbdo::stream keeps, though they name no event, never    *)
(* acknowledge more than was returned by read(), whatever was lost with    *)
(* earlier connections.                                                    *)
PoppedWasReceived == popped \subseteq ToSet(relayed) \union Unknown

(* The receiving broker gets the events in the order of publication, up to *)
(* repetitions after a broken connection: an event comes only after all    *)
(* those published before it.                                              *)
ReceivedInOrder ==
    \A i \in 1 .. Len(relayed) :
      \A e \in 1 .. relayed[i] : e \in ToSet(SubSeq(relayed, 1, i)) \union Unknown

(* The events read from the muxer and not popped that acknowledgement can  *)
(* still reach: on their way, not yet in an ack packet, in one, or in the  *)
(* count of the writing stream.  Each ack packet carries ack_limit, as the *)
(* type of ackPackets says.                                                *)
Outstanding == Len(packets) + unacked + ack_limit * Len(ackPackets) + acknowledged

(* The two counters and the ack packets miss no event and count none       *)
(* twice, whatever connections have broken before; the events that were    *)
(* not decoded are missing for as long as the connection lasts.            *)
CountsAddUp == link = "up" => pos = Outstanding + dropped

(* What the documentation of BBDO says of acknowledgement: every packet is *)
(* accounted for, the ones the receiver cannot decode included.            *)
AccountedFor == link = "up" => pos = Outstanding

(* Acknowledgement never stalls the link: every event that can be decoded  *)
(* is received, though the muxer gives the stream no more than Limit       *)
(* unacknowledged events, the reader acknowledges ack_limit at a time, and *)
(* each event that was not decoded has narrowed the window by one.         *)
EventuallyReceived ==
    []<>(1 .. next - 1 \subseteq ToSet(relayed) \union Unknown)

(* The safety of the link: counts that name no event still pop only what   *)
(* was received, in order, and miss nothing over any number of breaks.     *)
LinkInv == TypeOK /\ PoppedWasReceived /\ ReceivedInOrder /\ CountsAddUp

=============================================================================
