----------------------------- MODULE BbdoPackets -----------------------------
(***************************************************************************)
(* The packets of bbdo::stream: how serialize() cuts an event into packets *)
(* and how _read_any() puts the packets together again, over a lower layer *)
(* that hands over the bytes in blocks of its own sizes and, for the queue *)
(* files of the muxers, may have lost some of them.                        *)
(*                                                                         *)
(* A byte is modelled by where it comes from: the cell <<e, p, "h", i>> is *)
(* byte i of the header of packet p of event e, <<e, p, "c", i>> byte i of *)
(* its content.  A header is valid (its CRC matches) when its bytes follow *)
(* each other; the chance of a false match is not modelled.                *)
(***************************************************************************)
EXTENDS Naturals, Sequences, FiniteSets, SequencesExt

CONSTANTS
    Keys,           \* the (type, source, destination) of an event
    MaxPacket,      \* the largest content of a packet, 0xffff
    HeaderSize,     \* BBDO_HEADER_SIZE
    Sizes,          \* the sizes a serialized event may have
    MaxPackedEvents,\* bound: number of events
    BlockSizes,     \* the sizes of the blocks the lower layer hands over
    MaxHeld,        \* incomplete events that are kept: 4, and 3 after a short packet
    MaxCuts         \* bound: number of ranges the lower layer loses

VARIABLES
    sent,       \* history: the events written: their key and their size
    bytes,      \* the bytes below the stream
    packet,     \* _packet
    held,       \* _buffer: the incomplete long events
    calling,    \* a call of _read_any is under way
    delivered,  \* history: what _read_any has returned: its content and the
                \* event whose header came last
    cuts,       \* history: number of lost ranges
    hit,        \* history: events that have lost a byte, or that follow the
                \* lost ones so closely that a packet may have swallowed a byte
    room        \* history: the bytes to come that may still be swallowed

packetVars == <<sent, bytes, packet, held, calling, delivered, cuts, hit, room>>

PacketInit ==
    /\ sent = <<>> /\ bytes = <<>> /\ packet = <<>> /\ held = <<>>
    /\ calling = FALSE /\ delivered = <<>>
    /\ cuts = 0 /\ hit = {} /\ room = 0

-----------------------------------------------------------------------------
(* Writing. *)

(* Mutant: an event that fills its last packet is not followed by an empty *)
(* one.                                                                    *)
PacketSizesExact(size) ==
    LET full == IF size = 0 THEN 0 ELSE (size - 1) \div MaxPacket
    IN  [p \in 1 .. full + 1 |-> IF p <= full THEN MaxPacket ELSE size - full * MaxPacket]

(* serialize(): while the content has MaxPacket bytes or more, a packet of *)
(* that size; the last one is shorter, perhaps empty.                      *)
PacketSizes(size) ==
    LET full == size \div MaxPacket
    IN  [p \in 1 .. full + 1 |-> IF p <= full THEN MaxPacket ELSE size % MaxPacket]

(* The bytes of packet p of event e with a content of n bytes. *)
PacketBytes(e, p, n) ==
    [i \in 1 .. HeaderSize |-> <<e, p, "h", i>>] \o [i \in 1 .. n |-> <<e, p, "c", i>>]

(* The concatenation of all the packets of an event. *)
Serialized(e, size) ==
    LET sizes == PacketSizes(size)
    IN  FlattenSeq([p \in 1 .. Len(sizes) |-> PacketBytes(e, p, sizes[p])])

(* stream::_write *)
WriteEvent ==
    /\ Len(sent) < MaxPackedEvents
    /\ \E key \in Keys, size \in Sizes :
          LET e == Len(sent) + 1
              new == Serialized(e, size)
          IN  /\ sent' = Append(sent, [key |-> key, size |-> size])
              /\ bytes' = bytes \o new
              /\ hit' = IF room > 0 THEN hit \union {e} ELSE hit
              /\ room' = IF room > Len(new) THEN room - Len(new) ELSE 0
    /\ UNCHANGED <<packet, held, calling, delivered, cuts>>

-----------------------------------------------------------------------------
(* Reading. *)

(* The header at the front of _packet has the CRC it says. *)
ValidHeader(pack) ==
    \A i \in 1 .. HeaderSize :
        pack[i] = <<pack[1][1], pack[1][2], "h", i>>

(* What a valid header says. *)
HeaderKey(pack) == sent[pack[1][1]].key
HeaderLen(pack) == PacketSizes(sent[pack[1][1]].size)[pack[1][2]]

(* The number of bytes _packet needs before the loop can go on. *)
Needed(pack) ==
    IF Len(pack) < HeaderSize \/ ~ValidHeader(pack)
    THEN HeaderSize
    ELSE HeaderSize + HeaderLen(pack)

CallRead ==
    /\ ~calling /\ calling' = TRUE
    /\ UNCHANGED <<sent, bytes, packet, held, delivered, cuts, hit, room>>

(* _read_packet: the lower layer gives a block, perhaps too short or with  *)
(* the beginning of the next packets.                                      *)
ReadPacket ==
    /\ calling /\ bytes # <<>> /\ Len(packet) < Needed(packet)
    /\ \E n \in BlockSizes :
          /\ n <= Len(bytes)
          /\ packet' = packet \o SubSeq(bytes, 1, n)
          /\ bytes' = SubSeq(bytes, n + 1, Len(bytes))
    /\ UNCHANGED <<sent, held, calling, delivered, cuts, hit, room>>

(* exceptions::timeout: what was read so far stays in _packet. *)
ReadTimeout ==
    /\ calling /\ Len(packet) < Needed(packet)
    /\ calling' = FALSE
    /\ UNCHANGED <<sent, bytes, packet, held, delivered, cuts, hit, room>>

(* A corrupted header: one byte is skipped. *)
SkipByte ==
    /\ calling /\ Len(packet) >= HeaderSize /\ ~ValidHeader(packet)
    /\ packet' = Tail(packet)
    /\ UNCHANGED <<sent, bytes, held, calling, delivered, cuts, hit, room>>

(* The oldest incomplete events are forgotten. *)
Purge(list, limit) ==
    IF Len(list) <= limit THEN list ELSE SubSeq(list, Len(list) - limit + 1, Len(list))

(* The first incomplete event with this key. *)
HeldFor(key) ==
    LET is == {i \in DOMAIN held : held[i].key = key}
    IN  {i \in is : \A j \in is : i <= j}

(* A whole packet is there: a full one is kept until the rest comes, any   *)
(* other one is returned with the parts kept for its key.                  *)
TakePacket ==
    /\ calling /\ Len(packet) >= HeaderSize /\ ValidHeader(packet)
    /\ Len(packet) >= Needed(packet)
    /\ LET key == HeaderKey(packet)
           len == HeaderLen(packet)
           content == SubSeq(packet, HeaderSize + 1, HeaderSize + len)
           known == HeldFor(key)
       IN  /\ packet' = SubSeq(packet, HeaderSize + len + 1, Len(packet))
           /\ \/ /\ len = MaxPacket
                 /\ held' = Purge(
                       IF known = {}
                       THEN Append(held, [key |-> key, content |-> content])
                       ELSE [i \in DOMAIN held |->
                                IF i \in known
                                THEN [held[i] EXCEPT !.content = @ \o content]
                                ELSE held[i]],
                       MaxHeld)
                 /\ UNCHANGED <<delivered, calling>>
              \/ /\ len # MaxPacket
                 /\ held' = Purge(
                       IF known = {} THEN held
                       ELSE RemoveAt(held, CHOOSE i \in known : TRUE),
                       MaxHeld - 1)
                 /\ delivered' = Append(delivered,
                       [event |-> packet[1][1],
                        content |-> IF known = {} THEN content
                                    ELSE held[CHOOSE i \in known : TRUE].content \o content])
                 /\ calling' = FALSE
    /\ UNCHANGED <<sent, bytes, cuts, hit, room>>

-----------------------------------------------------------------------------

(* The lower layer has lost a range of its bytes: a part of the queue file *)
(* or what a crash has not written.  A header before the range may claim   *)
(* the MaxPacket bytes after it.                                           *)
Cut ==
    /\ cuts < MaxCuts
    /\ \E i \in 1 .. Len(bytes) : \E j \in i .. Len(bytes) :
          LET after == Len(bytes) - j
              reach == IF after < MaxPacket THEN after ELSE MaxPacket
          IN  /\ bytes' = SubSeq(bytes, 1, i - 1) \o SubSeq(bytes, j + 1, Len(bytes))
              /\ hit' = hit \union {bytes[k][1] : k \in i .. j + reach}
              /\ room' = IF MaxPacket - reach > room THEN MaxPacket - reach ELSE room
    /\ cuts' = cuts + 1
    /\ UNCHANGED <<sent, packet, held, calling, delivered>>

PacketNext ==
    \/ WriteEvent \/ CallRead \/ ReadPacket \/ ReadTimeout \/ SkipByte \/ TakePacket
    \/ Cut

PacketSpec == PacketInit /\ [][PacketNext]_packetVars

-----------------------------------------------------------------------------
(* Properties. *)

(* The content of an event as it was before serialize(). *)
Whole(e) ==
    LET sizes == PacketSizes(sent[e].size)
    IN  FlattenSeq([p \in 1 .. Len(sizes) |-> [i \in 1 .. sizes[p] |-> <<e, p, "c", i>>]])

(* The last event before e with the same type, source and destination was  *)
(* damaged: what is kept of it is put in front of e.                       *)
AfterDamaged(e) ==
    \E d \in hit :
        /\ d < e /\ sent[d].key = sent[e].key
        /\ \A f \in d + 1 .. e - 1 : sent[f].key # sent[e].key

(* Whatever the sizes of the events and of the blocks, and whenever the    *)
(* reader runs out of time, what _read_any returns is an event as it was   *)
(* written, in the order of writing, unless bytes were lost: then a damaged *)
(* event spoils no other one than the next of its key.                     *)
PacketsExact ==
    /\ \A n \in DOMAIN delivered :
          LET e == delivered[n].event
          IN  e \in hit \/ AfterDamaged(e) \/ delivered[n].content = Whole(e)
    /\ \A m, n \in DOMAIN delivered : m < n => delivered[m].event < delivered[n].event

(* The reader finds its way again: once all the bytes are read, every event *)
(* that no lost byte concerns has been returned.                           *)
Resumes ==
    (bytes = <<>> /\ calling /\ Len(packet) < Needed(packet)) =>
        \A e \in DOMAIN sent :
            e \in hit \/ \E n \in DOMAIN delivered : delivered[n].event = e

=============================================================================
