------------------------------- MODULE MCCore -------------------------------
(***************************************************************************)
(* The retention of events: a muxer (Muxer), the engine that feeds it      *)
(* (Engine) and the files it spills to (PersistentFile), each checked on   *)
(* its own.  A behaviour is about the component that its initial state     *)
(* chooses; the others stay as they are.                                   *)
(***************************************************************************)
EXTENDS Muxer, Engine, PersistentFile

ASSUME MuxersAssumption == Muxers # {} /\ IsFiniteSet(Muxers)

VARIABLE model

coreVars == <<model, vars, engineVars, pfVars>>

CoreInit ==
    /\ model \in {"muxer", "engine", "file"}
    /\ Init /\ EngineInit /\ PfInit
    /\ model # "muxer" => limit = CHOOSE l \in LimitRange : TRUE
    /\ model # "file" => garbage = CHOOSE g \in GarbageSizes : TRUE

(* The step A of a component, in a behaviour that is about it. *)
InMuxer(A) == model = "muxer" /\ A /\ UNCHANGED <<model, engineVars, pfVars>>
InEngine(A) == model = "engine" /\ A /\ UNCHANGED <<model, vars, pfVars>>
InFile(A) == model = "file" /\ A /\ UNCHANGED <<model, vars, engineVars>>

CoreNext == InMuxer(Next) \/ InEngine(EngineNext) \/ InFile(PfNext)

(* The fairness of the muxer and of the file, each in the behaviours that  *)
(* are about it.                                                           *)
CoreSpec ==
    /\ CoreInit /\ [][CoreNext]_coreVars
    /\ WF_coreVars(InMuxer(Construct) \/ InFile(ReadStep))
    /\ WF_coreVars(InMuxer(LoadStep) \/ InFile(WriteStep))
    /\ WF_coreVars(InMuxer(RefillStep))
    /\ SF_coreVars(InMuxer(Read))
    /\ SF_coreVars(InMuxer(pos > 0 /\ \E count \in 1 .. MaxAck : AckEvents(count)))

=============================================================================
