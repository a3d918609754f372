---------------------------- MODULE MCEndpoints ----------------------------
(***************************************************************************)
(* Two kinds of endpoints with threads of their own, each checked on its   *)
(* own: an acceptor with its feeders (Acceptor) and a Lua stream connector *)
(* (LuaStream).  A behaviour is about the one that its initial state       *)
(* chooses, the other stays as it is.                                      *)
(***************************************************************************)
EXTENDS Acceptor, LuaStream

VARIABLE model

endpointVars == <<model, accVars, luaVars>>

EndpointsInit ==
    /\ model \in {"acceptor", "lua"} /\ AccInit /\ LuaInit
    /\ model # "acceptor" => mute = {}
    /\ model # "lua" => hasFlush

(* The step A of an endpoint, in a behaviour that is about it. *)
InAcceptor(A) == model = "acceptor" /\ A /\ UNCHANGED <<model, luaVars>>
InLua(A) == model = "lua" /\ A /\ UNCHANGED <<model, accVars>>

EndpointsNext == InAcceptor(AccNext) \/ InLua(LuaNext)

(* The fairness of Acceptor and that of LuaStream, each in the behaviours  *)
(* that are about it.                                                      *)
EndpointsSpec ==
    /\ EndpointsInit /\ [][EndpointsNext]_endpointVars
    /\ WF_endpointVars(InAcceptor(Start) \/ InLua(Write))
    /\ WF_endpointVars(InAcceptor(AcceptorStep) \/ InLua(Flush))
    /\ \A c \in Clients : WF_endpointVars(InAcceptor(HandleAccept(c)) \/ InLua(TakeAcks))
    /\ \A n \in Feeders : /\ WF_endpointVars(InAcceptor(FeederStep(n)) \/ InLua(Thread))
                          /\ WF_endpointVars(InAcceptor(DestroyFeeder(n)) \/ InLua(Join))
    /\ SF_endpointVars(InLua(CallFlush(TRUE)))

-----------------------------------------------------------------------------
(* Properties; the invariants of both endpoints are used under their own   *)
(* names, the endpoint that a behaviour is not about stays in its initial  *)
(* state.                                                                  *)

(* Peers get their feeder, and exit() gets all the threads, unless a       *)
(* silent peer holds the TLS handshake or accepting has failed (Acceptor); *)
(* the Lua stream can be destroyed, and no script with a flush() is locked *)
(* up (LuaStream).                                                         *)
EndpointsLive == PeerServed /\ AcceptorExits /\ LuaLive

=============================================================================
