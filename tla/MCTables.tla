------------------------------ MODULE MCTables ------------------------------
(***************************************************************************)
(* From the callbacks of the monitoring engine to the tables of the        *)
(* database, each checked on its own: what the module of the engine        *)
(* publishes (NebCallbacks), and what the handlers of conflict_manager     *)
(* send on which connection (SqlActions).  A behaviour is about the one    *)
(* that its initial state chooses, the other stays as it is.               *)
(***************************************************************************)
EXTENDS SqlActions, NebCallbacks

VARIABLES model

tablesVars == <<model, sqlVars, nebVars>>

TablesInit ==
    /\ model \in {"sql", "neb"} /\ SqlInit /\ NebInit
    /\ model # "sql" => cache.deleted = {}
    /\ model # "neb" => conf = ObjectKinds

TablesNext ==
    \/ model = "sql" /\ SqlNext /\ UNCHANGED <<model, nebVars>>
    \/ model = "neb" /\ NebNext /\ UNCHANGED <<model, sqlVars>>

TablesSpec == TablesInit /\ [][TablesNext]_tablesVars

=============================================================================
