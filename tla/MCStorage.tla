------------------------------ MODULE MCStorage ------------------------------
(***************************************************************************)
(* Two parts of the outputs to the storage database, each checked on its   *)
(* own: the conflict_manager that the sql and storage streams share        *)
(* (ConflictManager) and the rebuild of graphs (RrdGraphs).  A behaviour   *)
(* is about the part that its initial state chooses, the other stays as it *)
(* is.                                                                     *)
(***************************************************************************)
EXTENDS ConflictManager, RrdGraphs

VARIABLE model

storageVars == <<model, vars, rrdVars>>

(* The step A of a part, in a behaviour that is about it. *)
InManager(A) == model = "manager" /\ A /\ UNCHANGED <<model, rrdVars>>
InGraphs(A) == model = "graphs" /\ A /\ UNCHANGED <<model, vars>>

StorageInit == model \in {"manager", "graphs"} /\ Init /\ RrdInit
StorageNext == InManager(Next) \/ InGraphs(RrdNext)

(* The fairness of ConflictManager and that of RrdGraphs, each in the      *)
(* behaviours that are about it.                                           *)
StorageSpec ==
    /\ StorageInit /\ [][StorageNext]_storageVars
    /\ WF_storageVars(InManager(Loop) \/ InGraphs(Rebuilder))
    /\ WF_storageVars(InManager(Join("sql")) \/ InGraphs(OutputWrite))
    /\ WF_storageVars(InManager(Join("storage")) \/ InGraphs(ServerStarts))
    /\ SF_storageVars(InGraphs(Stop))

-----------------------------------------------------------------------------
(* Properties; the invariants of the parts are used under their own names. *)

(* unload() of the manager returns (ConflictManager); a rebuild that is    *)
(* asked for begins and ends, and the rebuilder can be destroyed           *)
(* (RrdGraphs).                                                            *)
StorageReturns == UnloadReturns /\ RebuildLive

=============================================================================
