--------------------------- MODULE BbdoNegotiation ---------------------------
(***************************************************************************)
(* bbdo::stream::negotiate on both ends of a connection: the connector     *)
(* ("first") sends its welcome packet and waits for the one of the         *)
(* acceptor ("second"), then each end puts the layers both have offered    *)
(* between itself and the TCP stream, and both may write at once.          *)
(*                                                                         *)
(* What is written is a block with the layers it went through.  The TCP    *)
(* stream may hand over several blocks in one read: what follows the       *)
(* welcome packet then stays in _packet, above the new layers.  A block    *)
(* that is read through other layers than it was written through has no    *)
(* valid header and is skipped.                                            *)
(***************************************************************************)
EXTENDS Naturals, Sequences, FiniteSets

CONSTANTS
    Majors,         \* protocol versions of the brokers
    MaxWritten      \* bound: events each end writes

ASSUME NegotiationAssumption == MaxWritten \in Nat

VARIABLES
    offer,      \* the extensions in the welcome packet of each end
    major,      \* BBDO_VERSION_MAJOR of each end
    step,       \* where each end is
    todo,       \* extensions an end has still to apply
    stack,      \* layers between an end and its TCP stream, from the lowest
    inbox,      \* blocks on their way to an end
    stray,      \* blocks in _packet of an end
    conn,       \* "up", "closed", or "silent" when no packet passes any more
    emitted,    \* history: number of events each end has written
    arrived,    \* history: events each end has read
    lost        \* history: events each end has skipped

negVars == <<offer, major, step, todo, stack, inbox, stray, conn, emitted,
             arrived, lost>>

End == {"first", "second"}
Other(e) == IF e = "first" THEN "second" ELSE "first"

Ext == {"TLS", "compression"}

(* The layers of some extensions, in the order of the map of io::protocols. *)
Layers(exts) ==
    (IF "TLS" \in exts THEN <<"TLS">> ELSE <<>>)
        \o (IF "compression" \in exts THEN <<"compression">> ELSE <<>>)

(* negotiate(): all the extensions of the endpoint, or the mandatory ones  *)
(* when negotiation is disabled (factory::_extensions).                    *)
Offered(cfg) == IF cfg.negotiate THEN cfg.auto \union cfg.mandatory ELSE cfg.mandatory

NegInit ==
    /\ \E cfg \in [End -> [negotiate : BOOLEAN, auto : SUBSET Ext, mandatory : SUBSET Ext]] :
          offer = [e \in End |-> Offered(cfg[e])]
    /\ major \in [End -> Majors]
    /\ step = [first |-> "start", second |-> "wait"]
    /\ todo = [e \in End |-> <<>>] /\ stack = [e \in End |-> <<>>]
    /\ inbox = [e \in End |-> <<>>] /\ stray = [e \in End |-> <<>>]
    /\ conn = "up"
    /\ emitted = [e \in End |-> 0]
    /\ arrived = [e \in End |-> <<>>] /\ lost = [e \in End |-> {}]

-----------------------------------------------------------------------------

(* The welcome packet, a message of the TLS handshake, or event number no, *)
(* written through some layers; and the same as it is read through others. *)
Block(layers, kind, no) == [under |-> layers, kind |-> kind, no |-> no]
Through(layers, b) == [plain |-> b.under = layers, kind |-> b.kind, no |-> b.no]

(* A block goes to the other end unless the connection is gone. *)
Send(e, kind, no) ==
    inbox' = IF conn = "up"
             THEN [inbox EXCEPT ![Other(e)] = Append(@, Block(stack[e], kind, no))]
             ELSE inbox

(* The exception leaves open(): the stream and its socket are destroyed. *)
Fail(e) ==
    /\ step' = [step EXCEPT ![e] = "failed"]
    /\ conn' = IF conn = "silent" THEN conn ELSE "closed"
    /\ UNCHANGED <<offer, major, todo, stack, inbox, stray, emitted, arrived, lost>>

(* negotiate_first: our packet is sent before the one of the peer is read. *)
SendWelcome ==
    /\ step["first"] = "start"
    /\ Send("first", "welcome", 0)
    /\ step' = [step EXCEPT !["first"] = "wait"]
    /\ UNCHANGED <<offer, major, todo, stack, stray, conn, emitted, arrived, lost>>

(* _read_packet: without a layer the TCP stream hands over any number of   *)
(* blocks at once, a layer hands over one.  Only a block that comes        *)
(* through the layers it was written through is plain.                     *)
ReadBlock(e) ==
    /\ step[e] \in {"wait", "run"} /\ stray[e] = <<>> /\ conn # "silent"
    /\ \E n \in 1 .. Len(inbox[e]) :
          /\ stack[e] # <<>> => n = 1
          /\ stray' = [stray EXCEPT ![e] =
                [i \in 1 .. n |-> Through(stack[e], inbox[e][i])]]
          /\ inbox' = [inbox EXCEPT ![e] = SubSeq(@, n + 1, Len(@))]
    /\ UNCHANGED <<offer, major, step, todo, stack, conn, emitted, arrived, lost>>

(* Mutant: our own extensions are applied whatever the peer has. *)
CommonOwn(e) == Layers(offer[e])

(* The extensions to apply: ours, in order, that the peer has as well.  An *)
(* extension the peer lacks is not applied, even a mandatory one.          *)
Common(e) == Layers(offer[e] \intersect offer[Other(e)])

(* negotiate(): the welcome packet of the peer.  Another major version is  *)
(* refused, before our own packet is sent if we are second.                *)
ReadWelcome(e) ==
    /\ step[e] = "wait" /\ stray[e] # <<>>
    /\ Head(stray[e]).plain /\ Head(stray[e]).kind = "welcome"
    /\ \/ major[e] # major[Other(e)] /\ Fail(e)
       \/ /\ major[e] = major[Other(e)]
          /\ stray' = [stray EXCEPT ![e] = Tail(@)]
          /\ \/ e = "second" /\ Send(e, "welcome", 0)
             \/ e = "first" /\ UNCHANGED inbox
          /\ todo' = [todo EXCEPT ![e] = Common(e)]
          /\ step' = [step EXCEPT ![e] = "apply"]
          /\ UNCHANGED <<offer, major, stack, conn, emitted, arrived, lost>>

(* Mutant: no deadline for the welcome packet. *)
WelcomeForever(e) == FALSE /\ Fail(e)

(* The deadline of the welcome packet is over: nothing received. *)
WelcomeTimeout(e) == step[e] = "wait" /\ stray[e] = <<>> /\ Fail(e)

(* The layer is put on the top of the others. *)
Push(e) ==
    /\ stack' = [stack EXCEPT ![e] = Append(@, Head(todo[e]))]
    /\ todo' = [todo EXCEPT ![e] = Tail(@)]

(* negotiate(): the next extension.  A compression layer needs nothing of  *)
(* the peer; the TLS client begins the handshake, the TLS server waits.    *)
Apply(e) ==
    /\ step[e] = "apply" /\ todo[e] # <<>>
    /\ \/ /\ Head(todo[e]) # "TLS" /\ Push(e)
          /\ UNCHANGED <<step, inbox>>
       \/ /\ Head(todo[e]) = "TLS"
          /\ step' = [step EXCEPT ![e] = "handshake"]
          /\ \/ e = "first" /\ Send(e, "hello", 0)
             \/ e = "second" /\ UNCHANGED inbox
          /\ UNCHANGED <<stack, todo>>
    /\ UNCHANGED <<offer, major, stray, conn, emitted, arrived, lost>>

(* gnutls_handshake: the server answers the client, the client has its     *)
(* answer.  It reads below the BBDO stream.                                *)
Handshake(e) ==
    /\ step[e] = "handshake" /\ conn # "silent"
    /\ inbox[e] # <<>> /\ Head(inbox[e]).kind = "hello"
    /\ inbox' = IF e = "second" /\ conn = "up"
                THEN [inbox EXCEPT ![e] = Tail(@),
                                   ![Other(e)] = Append(@, Block(stack[e], "hello", 0))]
                ELSE [inbox EXCEPT ![e] = Tail(@)]
    /\ Push(e)
    /\ step' = [step EXCEPT ![e] = "apply"]
    /\ UNCHANGED <<offer, major, stray, conn, emitted, arrived, lost>>

(* _negotiated = true *)
Negotiated(e) ==
    /\ step[e] = "apply" /\ todo[e] = <<>>
    /\ step' = [step EXCEPT ![e] = "run"]
    /\ UNCHANGED <<offer, major, todo, stack, inbox, stray, conn, emitted, arrived, lost>>

(* An event is written through the layers of this end. *)
WriteEvent(e) ==
    /\ step[e] = "run" /\ emitted[e] < MaxWritten
    /\ emitted' = [emitted EXCEPT ![e] = @ + 1]
    /\ Send(e, "event", emitted[e] + 1)
    /\ UNCHANGED <<offer, major, step, todo, stack, stray, conn, arrived, lost>>

(* _read_any: an event is returned, bytes without a valid header are       *)
(* skipped.                                                                *)
ReadEvent(e) ==
    /\ step[e] = "run" /\ stray[e] # <<>>
    /\ stray' = [stray EXCEPT ![e] = Tail(@)]
    /\ LET b == Head(stray[e])
       IN  \/ /\ b.plain
              /\ arrived' = [arrived EXCEPT ![e] = Append(@, b.no)] /\ UNCHANGED lost
           \/ /\ ~b.plain
              /\ lost' = [lost EXCEPT ![e] = @ \union {b.no}] /\ UNCHANGED arrived
    /\ UNCHANGED <<offer, major, step, todo, stack, inbox, conn, emitted>>

(* The socket was closed by the peer, all it had sent is read. *)
PeerGone(e) ==
    /\ conn = "closed" /\ inbox[e] = <<>> /\ stray[e] = <<>>
    /\ step[e] \in {"wait", "handshake", "run"}
    /\ Fail(e)

(* A firewall or a dead host: nothing passes any more, nobody is told. *)
Silence ==
    /\ conn = "up" /\ conn' = "silent"
    /\ UNCHANGED <<offer, major, step, todo, stack, inbox, stray, emitted, arrived, lost>>

EndStep(e) ==
    \/ ReadBlock(e) \/ ReadWelcome(e) \/ WelcomeTimeout(e) \/ Apply(e) \/ Handshake(e)
    \/ Negotiated(e) \/ ReadEvent(e) \/ PeerGone(e)

NegNext ==
    \/ SendWelcome
    \/ \E e \in End : EndStep(e) \/ WriteEvent(e)
    \/ Silence

(* The two threads go on, and clocks too. *)
NegSpec ==
    /\ NegInit /\ [][NegNext]_negVars
    /\ WF_negVars(SendWelcome) /\ \A e \in End : WF_negVars(EndStep(e))

-----------------------------------------------------------------------------
(* Properties. *)

(* An end that works has the layers both ends have offered, in the common  *)
(* order, so that each understands the other, and a peer of its own major  *)
(* version: however the negotiation, its timeout and the loss of the       *)
(* connection interleave, the ends never work with different layers.       *)
StacksAgree ==
    \A e \in End : step[e] = "run" =>
        /\ stack[e] = Layers(offer["first"] \intersect offer["second"])
        /\ major["first"] = major["second"]

(* Events are skipped only on the connecting end, only when a compression  *)
(* layer was negotiated without TLS, and only those that came with the     *)
(* welcome packet: all that follows is read in order.                      *)
LostOnlyCrossed ==
    \A e \in End :
        /\ lost[e] # {} => e = "first" /\ stack[e] = <<"compression">>
        /\ \E k \in 0 .. MaxWritten :
              /\ lost[e] = 1 .. k
              /\ \A i \in DOMAIN arrived[e] : arrived[e][i] = k + i

Negotiates(e) == step[e] \notin {"apply", "handshake"} \/ conn = "silent"

(* The negotiation ends: the wait for the welcome packet because of its    *)
(* deadline, the TLS handshake, which has none, unless the connection has  *)
(* fallen silent.                                                          *)
NegotiationEnds ==
    \A e \in End : []<>(step[e] # "wait") /\ []<>Negotiates(e)

(* The safety of the negotiation: equal layers at both ends, and nothing   *)
(* but what crossed the welcome packet is skipped.                         *)
NegotiationInv == StacksAgree /\ LostOnlyCrossed

=============================================================================
