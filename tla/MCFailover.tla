------------------------------ MODULE MCFailover -----------------------------
(***************************************************************************)
(* The endpoints of the broker: the threads of a chain of failovers        *)
(* (Failover), the applier that creates and stops such chains on a reload  *)
(* (EndpointApplier), and the watchdog that starts and stops the process   *)
(* (Watchdog), each checked on its own.  A behaviour is about the part     *)
(* that its initial state chooses, the others stay as they are.            *)
(***************************************************************************)
EXTENDS Failover, Watchdog, EndpointApplier, TLC

VARIABLES model

(* Endpoints for the files: an input, outputs without, with one and with   *)
(* two levels of failovers.                                                *)
Endpoint(name, params, failovers, kind) ==
    [name |-> name, params |-> params, failovers |-> failovers, kind |-> kind]
Input(p) == Endpoint("in", p, <<>>, "acceptor")
Sql(p, fs) == Endpoint("sql", p, fs, "connector")
Spool(p, fs) == Endpoint("spool", p, fs, "connector")
Final(p) == Endpoint("last", p, <<>>, "connector")
File(valid, n, endpoints) == [valid |-> valid, settings |-> n, endpoints |-> endpoints]

(* Files that are right, that change an endpoint or a failover, drop one,  *)
(* give a failover an output of its own, or are refused: a failover that   *)
(* is missing, shared, circular or an acceptor, an endpoint of no type, a  *)
(* name that is not allowed.                                               *)
Files ==
    {File(TRUE, 1, <<Input(1), Sql(1, <<"spool">>), Spool(1, <<"last">>), Final(1)>>),
     File(TRUE, 2, <<Spool(2, <<>>), Sql(1, <<"spool">>), Final(1)>>),
     File(TRUE, 3, <<Sql(2, <<"spool", "last">>), Final(1), Spool(1, <<>>), Input(1)>>),
     File(TRUE, 1, <<Input(2)>>),
     File(TRUE, 2, <<Input(1), Sql(1, <<"spool">>)>>),
     File(TRUE, 3, <<Input(1), Sql(1, <<"spool", "last">>), Spool(1, <<"last">>), Final(1)>>),
     File(TRUE, 1, <<Sql(1, <<"spool">>), Spool(1, <<"sql">>), Input(2)>>),
     File(TRUE, 2, <<Final(2), Sql(3, <<"in">>), Input(1)>>),
     File(TRUE, 3, <<Final(1), Endpoint("sql", 4, <<>>, "bad"), Input(1)>>),
     File(FALSE, 4, <<Final(3)>>)}

(* Files of the watchdog: a broker that is gone, that is not to run any    *)
(* more, that changes; a new one; a file that cannot be read.              *)
Cbd(child, run) == [child |-> child, run |-> run]
BrokerFiles ==
    {[valid |-> TRUE, cbd |-> (1 :> Cbd(1, TRUE)) @@ (2 :> Cbd(1, TRUE))],
     [valid |-> TRUE, cbd |-> (1 :> Cbd(1, FALSE)) @@ (2 :> Cbd(1, TRUE))],
     [valid |-> TRUE, cbd |-> (2 :> Cbd(2, TRUE)) @@ (3 :> Cbd(1, TRUE))],
     [valid |-> FALSE, cbd |-> <<>>]}

endpointVars == <<model, vars, applierVars, watchdogVars>>

InChain(X) == model = "chain" /\ X /\ UNCHANGED <<model, applierVars, watchdogVars>>
InApplier(X) == model = "applier" /\ X /\ UNCHANGED <<model, vars, watchdogVars>>
InWatchdog(X) == model = "watchdog" /\ X /\ UNCHANGED <<model, vars, applierVars>>

(* The parts a behaviour is not about keep one initial state.              *)
ChainsInit ==
    /\ model \in {"chain", "applier", "watchdog"}
    /\ Init /\ ApplierInit /\ WatchdogInit
    /\ model # "watchdog" => file = CHOOSE c \in CbdFiles : TRUE
ChainsNext == InChain(Next) \/ InApplier(ApplierNext) \/ InWatchdog(WatchdogNext)

(* The fairness of the three modules, each in the behaviours that are      *)
(* about it.                                                               *)
ChainsSpec ==
    /\ ChainsInit /\ [][ChainsNext]_endpointVars
    /\ WF_endpointVars(InChain(MainStart) \/ InApplier(ApplierStep)
                          \/ InWatchdog(WatchdogStep))
    /\ WF_endpointVars(InChain(MainJoin))
    /\ \A n \in Node :
          WF_endpointVars(InChain(Run(n))) /\ WF_endpointVars(InChain(Acknowledge(n)))

-----------------------------------------------------------------------------
(* exit() of a chain returns (Failover); a reload ends, in the new         *)
(* configuration or in the old one, unless SIGTERM comes while _endpointsm *)
(* is held (EndpointApplier); brokers that end are started again, a file   *)
(* is applied unless its SIGHUP came while another was served, SIGTERM     *)
(* ends the watchdog (Watchdog).  As only one of the three moves, their    *)
(* properties ExitReturns, ReloadEnds and WatchdogLive are written as one. *)
CallsEnd == []<>(main # "waiting" /\ AtRest /\ Settled)

=============================================================================
