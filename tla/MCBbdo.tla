------------------------------- MODULE MCBbdo -------------------------------
(***************************************************************************)
(* The bbdo protocol between two brokers, its three parts each checked on  *)
(* its own: the counting of acknowledgements over breaking connections     *)
(* (BbdoLink), the negotiation that builds the layers (BbdoNegotiation),   *)
(* and the cutting of events in packets (BbdoPackets).  A behaviour is     *)
(* about the part that its initial state chooses, the others stay as they  *)
(* are.                                                                    *)
(***************************************************************************)
EXTENDS BbdoLink, BbdoNegotiation

CONSTANTS
    Keys, MaxPacket, HeaderSize, Sizes, MaxPackedEvents, BlockSizes, MaxHeld, MaxCuts

VARIABLES
    model,
    sent, bytes, packet, held, calling, delivered, cuts, hit, room

P == INSTANCE BbdoPackets

packetVars == <<sent, bytes, packet, held, calling, delivered, cuts, hit, room>>
bbdoVars == <<model, vars, negVars, packetVars>>

NoExtension == [negotiate |-> FALSE, auto |-> {}, mandatory |-> {}]

BbdoInit ==
    /\ model \in {"link", "negotiation", "packets"}
    /\ Init /\ NegInit /\ P!PacketInit
    /\ model # "link" => ack_limit = CHOOSE l \in AckLimits : TRUE
    /\ model # "negotiation" =>
          /\ offer = [e \in End |-> Offered(NoExtension)]
          /\ major = [e \in End |-> CHOOSE m \in Majors : TRUE]

(* The step A of a part, in a behaviour that is about it. *)
InLink(A) == model = "link" /\ A /\ UNCHANGED <<model, negVars, packetVars>>
InNegotiation(A) == model = "negotiation" /\ A /\ UNCHANGED <<model, vars, packetVars>>
InPackets(A) == model = "packets" /\ A /\ UNCHANGED <<model, vars, negVars>>

BbdoNext == InLink(Next) \/ InNegotiation(NegNext) \/ InPackets(P!PacketNext)

(* The fairness of BbdoLink and that of BbdoNegotiation, each in the       *)
(* behaviours that are about it.                                           *)
BbdoSpec ==
    /\ BbdoInit /\ [][BbdoNext]_bbdoVars
    /\ WF_bbdoVars(InLink(SenderRead) \/ InNegotiation(SendWelcome))
    /\ WF_bbdoVars(InLink(SenderWrite \/ SenderFlush) \/ InNegotiation(EndStep("first")))
    /\ WF_bbdoVars(InLink(ReceiverRead) \/ InNegotiation(EndStep("second")))
    /\ WF_bbdoVars(InLink(Connect))

-----------------------------------------------------------------------------
(* Properties of the parts; those of the link, and NegotiationInv, are     *)
(* used under their own names.                                             *)

(* The negotiation ends unless the connection falls silent in the TLS      *)
(* handshake (BbdoNegotiation).                                            *)
NegotiationsEnd ==
    \A e \in End :
       []<>(model = "negotiation" => step[e] # "wait") /\ []<>Negotiates(e)

(* Events come out of the packets as they were written, and lost bytes     *)
(* spoil no other event than the next of the same key; the reader of the   *)
(* packets finds its way again, and a timeout drops nothing of what was    *)
(* read (BbdoPackets).                                                     *)
PacketsExact == model = "packets" => P!PacketsExact /\ P!Resumes

(* What must go on: events reach the other end, and negotiations end       *)
(* (core/src/bbdo/stream.cc).                                              *)
BbdoLive == EventuallyReceived /\ NegotiationsEnd

=============================================================================
