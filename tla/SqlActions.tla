----------------------------- MODULE SqlActions -----------------------------
(***************************************************************************)
(* The SQL half of storage::conflict_manager, conflict_manager_sql.cc: how *)
(* the single manager thread spreads the queries of the monitoring events  *)
(* over several database connections.  A connection runs its queries in    *)
(* the order they were sent and inside one transaction; two connections    *)
(* run in any order.  The manager therefore keeps, per connection, flags   *)
(* (conflict_manager::actions) for what is not committed yet, and a        *)
(* handler first commits the connections whose flags its query conflicts   *)
(* with (_finish_action), then sends its query, then adds its own flag.    *)
(*                                                                         *)
(* The model is of the manager thread: a commit is synchronous, so what a  *)
(* connection has not committed is what the manager has sent to it since   *)
(* its last commit.  A query is the set of rows it creates, writes, or     *)
(* reads under a lock (the foreign keys of sql/mysql_v2 and the joined     *)
(* tables).  Poller p monitors one host and one service, both called p.    *)
(***************************************************************************)
EXTENDS Integers, FiniteSets, FiniteSetsExt

CONSTANTS
    Pollers,        \* identifiers of the pollers, positive integers
    Count,          \* mysql::connections_count()
    Removable,      \* pollers the user may delete while the broker is down
    Reported,       \* the host states a poller may report; the state that the
                    \* timeout writes is a value of its own, whatever it is
    MaxOpen         \* bound: uncommitted row accesses

ASSUME SqlAssumption ==
    /\ Pollers \subseteq Nat \ {0} /\ Removable \subseteq Pollers
    /\ Count \in Nat \ {0}
    /\ MaxOpen \in Nat
    /\ "lost" \notin Reported

VARIABLES
    tx,             \* what the connections and the database hold
    cache,          \* the caches of the manager
    stamps,         \* _stored_timestamps: the state of each poller
    best,           \* the static variables of choose_best_connection
    late,           \* the last event, if its query refers to a row that another
                    \* connection has created and not committed
    clash,          \* the last event, if its query meets a lock of another
                    \* connection
    orphan          \* the last event added a member to a group that is gone

sqlVars == <<tx, cache, stamps, best, late, clash, orphan>>

Conns == 0 .. Count - 1

Flags == {"hosts", "instances", "hostgroups", "servicegroups", "modules",
          "downtimes", "comments", "host_parents", "host_dependencies",
          "service_dependencies", "custom_variables", "services"}

Lost == "lost"      \* the state written for a poller that stopped talking

(* Rows: table and poller; groups are shared by the pollers. *)
GroupTables == {"hg", "sg"}
Row(table, p) == <<table, IF table \in GroupTables THEN 0 ELSE p>>

(* create: INSERT ... ON DUPLICATE KEY UPDATE of a row others refer to. *)
Access(mode, tables, p) == {<<mode, Row(t, p)>> : t \in tables}

(***************************************************************************)
(* _finish_action, _finish_actions, _add_action, run_query.                *)
(***************************************************************************)
Commit(t, conns) ==
    [t EXCEPT !.action = [c \in Conns |-> IF c \in conns THEN {} ELSE @[c]],
              !.open = [c \in Conns |-> IF c \in conns THEN {} ELSE @[c]],
              !.disk = [p \in Pollers |->
                           IF p % Count \in conns THEN t.view[p] ELSE @[p]],
              !.groupOnDisk =
                  IF \E c \in conns, a \in UNION {t.open[d] : d \in conns} :
                         a[2][1] \in {"hg", "hgm"}
                  THEN t.group ELSE @]

FinishAction(t, conns, flags) ==
    Commit(t, {c \in conns : t.action[c] \cap flags # {}})

AddAction(t, c, flags) == [t EXCEPT !.action[c] = @ \union flags]

RunQuery(t, c, access) == [t EXCEPT !.open[c] = @ \union access]

(* Rows of a query that another connection has open, and in which way. *)
OpenElsewhere(t, c, access, held, wanted) ==
    \E a \in access, d \in Conns \ {c} :
        /\ a[1] \in wanted
        /\ \E b \in t.open[d] : b[2] = a[2] /\ b[1] \in held
Late(t, c, access) ==
    OpenElsewhere(t, c, access, {"create"}, {"read"})
Clash(t, c, access) ==
    \/ OpenElsewhere(t, c, access, {"create", "write"},
                     {"create", "write", "read"})
    \/ OpenElsewhere(t, c, access, {"read"}, {"create", "write"})

-----------------------------------------------------------------------------
(***************************************************************************)
(* mysql::choose_connection_by_instance and choose_best_connection: the    *)
(* least busy connection, kept while the type of the events is the same.   *)
(***************************************************************************)
ByInstance(p) == p % Count

BestConns(type) == IF best.type = type THEN {best.conn} ELSE Conns

(***************************************************************************)
(* One handler of conflict_manager_sql.cc per definition: the actions it   *)
(* finishes on every connection, the connection it uses, whether it asks   *)
(* _is_valid_poller first, what its query accesses, the flags it adds.     *)
(***************************************************************************)
Handler(finish, via, valid, creates, writes, reads, adds) ==
    [finish |-> finish, via |-> via, valid |-> valid, creates |-> creates,
     writes |-> writes, reads |-> reads, adds |-> adds]

Acknowledgement ==
    Handler({}, "poller", TRUE, {}, {"ack"}, {"host", "instance"}, {})
Comment ==
    Handler({"hosts", "instances", "host_parents", "host_dependencies",
             "service_dependencies", "comments"},
            "poller", TRUE, {}, {"comment"}, {"host", "instance"}, {"comments"})
CustomVariable ==       \* a disabled variable, and the bulk query of the others
    Handler({"custom_variables"}, "best", FALSE, {}, {"cv"}, {},
            {"custom_variables"})
CustomVariableStatus == CustomVariable
Downtime ==
    Handler({"hosts", "instances", "downtimes", "host_parents",
             "host_dependencies", "service_dependencies"},
            "best", TRUE, {}, {"downtime"}, {"host", "instance"}, {"downtimes"})
EventHandler ==
    Handler({}, "host", FALSE, {}, {"handler"}, {"host"}, {})
FlappingStatus ==
    Handler({}, "host", FALSE, {}, {"flapping"}, {"host"}, {"hosts"})
HostCheck ==
    Handler({"instances", "downtimes", "comments", "host_dependencies",
             "host_parents", "service_dependencies"},
            "host", FALSE, {}, {"host"}, {}, {"hosts"})
HostDependency ==
    Handler({"hosts", "host_parents", "comments", "downtimes",
             "host_dependencies", "service_dependencies"},
            "best", FALSE, {}, {"hdep"}, {"host"}, {"host_dependencies"})

(* Mutant: the hosts are not committed first. *)
HostParentAlone ==
    Handler({"host_dependencies", "comments", "downtimes"},
            "best", FALSE, {}, {"parent"}, {"host"}, {"host_parents"})

HostParent ==
    Handler({"hosts", "host_dependencies", "comments", "downtimes"},
            "best", FALSE, {}, {"parent"}, {"host"}, {"host_parents"})

InstanceStatus ==
    Handler({"hosts", "acknowledgements", "modules", "downtimes", "comments"},
            "poller", TRUE, {}, {"instance"}, {}, {"instances"})
InsertLogs ==           \* _process_log only queues; _insert_logs sends
    Handler({}, "best", FALSE, {}, {"log"}, {"host"}, {})
Module ==
    Handler({}, "poller", TRUE, {}, {"module"}, {"instance"}, {"modules"})
ServiceCheck ==
    Handler({"downtimes", "comments", "host_dependencies", "host_parents",
             "service_dependencies"},
            "host", FALSE, {}, {"service"}, {}, {})
ServiceDependency ==
    Handler({"hosts", "host_parents", "downtimes", "comments",
             "host_dependencies", "service_dependencies"},
            "best", FALSE, {}, {"sdep"}, {"host"}, {"service_dependencies"})
ServiceGroup ==
    Handler({"hosts", "services"}, "best", FALSE, {"sg"}, {}, {},
            {"servicegroups"})
ServiceGroupMember ==
    Handler({"hosts", "servicegroups", "services"},
            "best", FALSE, {}, {"sgm"}, {"service", "sg"}, {"servicegroups"})
Service ==
    Handler({"host_parents", "comments", "downtimes", "host_dependencies",
             "service_dependencies"},
            "host", FALSE, {"service"}, {}, {"host"}, {"services"})
ServiceStatus ==
    Handler({"host_parents", "comments", "downtimes", "host_dependencies",
             "service_dependencies"},
            "host", FALSE, {}, {"service"}, {}, {"hosts"})

Handlers ==
    [acknowledgement |-> Acknowledgement, comment |-> Comment,
     custom_variable |-> CustomVariable,
     custom_variable_status |-> CustomVariableStatus,
     downtime |-> Downtime, event_handler |-> EventHandler,
     flapping_status |-> FlappingStatus, host_check |-> HostCheck,
     host_dependency |-> HostDependency, host_parent |-> HostParent,
     instance_status |-> InstanceStatus, log |-> InsertLogs,
     module |-> Module, service_check |-> ServiceCheck,
     service_dependency |-> ServiceDependency, service_group |-> ServiceGroup,
     service_group_member |-> ServiceGroupMember, service |-> Service,
     service_status |-> ServiceStatus]

AccessOf(h, p) ==
    Access("create", h.creates, p) \union Access("write", h.writes, p)
        \union Access("read", h.reads, p)

-----------------------------------------------------------------------------
(* What the tables say of a poller; has: the objects it has sent. *)
Rows == [has : SUBSET {"instance", "host", "service", "hg"}, outdated : BOOLEAN,
         state : Reported \union {Lost}, real : Reported \union {Lost}]

Kinds == DOMAIN Handlers \union
             {"host", "host_status", "instance", "host_group",
              "host_group_member"}

SqlTypeOK ==
    /\ tx.action \in [Conns -> SUBSET Flags]
    /\ tx.view \in [Pollers -> Rows] /\ tx.disk \in [Pollers -> Rows]
    /\ stamps \in [Pollers -> {"none", "responsive", "unresponsive"}]
    /\ cache \in [host : SUBSET Pollers, group : BOOLEAN,
                  deleted : SUBSET Pollers]
    /\ best \in [type : Kinds \union {"none"}, conn : Conns]
    /\ late \subseteq Kinds /\ clash \subseteq Kinds /\ orphan \in BOOLEAN

(* Pollers removed by the user, as _load_deleted_instances finds them. *)
Deletions == SUBSET Removable

NoGroup == [exists |-> FALSE, members |-> {}]

(* The database is empty and the caches were loaded from it. *)
SqlInit ==
    /\ \E s \in Reported :
           LET fresh == [p \in Pollers |->
                            [has |-> {}, outdated |-> FALSE,
                             state |-> s, real |-> s]]
           IN tx = [action |-> [c \in Conns |-> {}],
                    open |-> [c \in Conns |-> {}],
                    view |-> fresh, disk |-> fresh,
                    group |-> NoGroup, groupOnDisk |-> NoGroup]
    /\ \E gone \in Deletions :
           cache = [host |-> {}, group |-> FALSE, deleted |-> gone]
    /\ stamps = [p \in Pollers |-> "none"]
    /\ best = [type |-> "none", conn |-> 0]
    /\ late = {} /\ clash = {} /\ orphan = FALSE

Room == Cardinality(UNION {tx.open[c] : c \in Conns}) < MaxOpen

(***************************************************************************)
(* _update_hosts_and_services_of_instance: a poller that stopped talking   *)
(* has its state saved in real_state; it is put back when it talks again.  *)
(***************************************************************************)
UpdateHostsAndServices(t, p, responsive) ==
    LET c == ByInstance(p)
        ready == FinishAction(FinishAction(t, {c}, {"hosts"}), Conns,
                              {"acknowledgements", "modules", "downtimes",
                               "comments"})
        sent == AddAction(RunQuery(ready, c,
                    Access("write", {"instance", "host", "service"}, p)),
                    c, {"instances", "hosts"})
    IN IF responsive
       THEN [sent EXCEPT !.view[p] =
                [@ EXCEPT !.outdated = FALSE, !.state = t.view[p].real]]
       ELSE [sent EXCEPT !.view[p] =
                [@ EXCEPT !.outdated = TRUE, !.real = t.view[p].state, !.state = Lost]]

(* _is_valid_poller and _update_timestamp. *)
Valid(p) == p \notin cache.deleted

Touch(t, p) ==
    IF Valid(p) /\ stamps[p] = "unresponsive"
    THEN UpdateHostsAndServices(t, p, TRUE) ELSE t

Touched(p) == IF Valid(p) THEN [stamps EXCEPT ![p] = "responsive"] ELSE stamps

(* Sends one query on connection c and notes what it meets there. *)
Send(t, c, kind, access, adds) ==
    /\ tx' = AddAction(RunQuery(t, c, access), c, adds)
    /\ late' = IF Late(t, c, access) THEN {kind} ELSE {}
    /\ clash' = IF Clash(t, c, access) THEN {kind} ELSE {}

(* A poller sends an object before what refers to it. *)
Exists(p, rows) == rows \subseteq tx.view[p].has

Refers(h) == h.reads \union h.writes

Kept == late' = {} /\ clash' = {} /\ orphan' = FALSE

(***************************************************************************)
(* The handlers that differ only in their tables.                          *)
(***************************************************************************)
Process(kind, p) ==
    LET h == Handlers[kind]
        ready == FinishAction(tx, Conns, h.finish)
        checked == IF h.valid THEN Touch(ready, p) ELSE ready
        stored == [checked EXCEPT !.view[p].has =
                       @ \union (h.creates \cap {"service"})]
    IN /\ Room
       /\ h.valid => Valid(p)
       /\ h.via = "host" => p \in cache.host
       /\ Exists(p, {"instance"})
       /\ Exists(p, Refers(h) \cap {"host", "service"})
       /\ \E c \in IF h.via = "best" THEN BestConns(kind)
                   ELSE {ByInstance(p)} :
              /\ Send(stored, c, kind, AccessOf(h, p), h.adds)
              /\ best' = IF h.via = "best" THEN [type |-> kind, conn |-> c]
                         ELSE best
       /\ stamps' = IF h.valid THEN Touched(p) ELSE stamps
       /\ orphan' = FALSE
       /\ UNCHANGED cache

(***************************************************************************)
(* An event that is not stored has still finished the conflicting actions: *)
(* an event of a deleted poller, a service of a host the cache does not    *)
(* know, and a check or status that is too old, or the same command as     *)
(* before.                                                                 *)
(***************************************************************************)
Discard(kind, p) ==
    LET h == Handlers[kind]
    IN /\ \/ h.valid /\ ~Valid(p)
          \/ kind = "service" /\ p \notin cache.host
          \/ kind \in {"host_check", "service_check", "service_status"}
       /\ tx' = FinishAction(tx, Conns, h.finish)
       /\ Kept
       /\ UNCHANGED <<cache, stamps, best>>

(* _process_host_status: does not ask _is_valid_poller. *)
HostStatus(p, s) ==
    LET ready == FinishAction(tx, Conns,
                     {"instances", "downtimes", "comments", "custom_variables",
                      "hostgroups", "host_dependencies", "host_parents"})
    IN /\ Room /\ p \in cache.host
       /\ Send([ready EXCEPT !.view[p].state = s], ByInstance(p),
               "host_status", Access("write", {"host"}, p), {"hosts"})
       /\ orphan' = FALSE
       /\ UNCHANGED <<cache, stamps, best>>

(* _process_host: a disabled host leaves the cache, not the table. *)
Host(p, enabled) ==
    LET ready == FinishAction(tx, Conns,
                     {"instances", "hostgroups", "host_dependencies",
                      "host_parents", "custom_variables", "downtimes",
                      "comments", "service_dependencies"})
        stored == [Touch(ready, p) EXCEPT !.view[p].has = @ \union {"host"}]
    IN /\ Room /\ Exists(p, {"instance"})
       /\ IF Valid(p)
          THEN /\ Send(stored, ByInstance(p), "host",
                       Access("create", {"host"}, p) \union
                           Access("read", {"instance"}, p), {"hosts"})
               /\ cache' = [cache EXCEPT !.host =
                                IF enabled THEN @ \union {p} ELSE @ \ {p}]
               /\ orphan' = FALSE
          ELSE tx' = ready /\ Kept /\ UNCHANGED cache
       /\ stamps' = Touched(p)
       /\ UNCHANGED best

(* _clean_tables: the memberships of the poller go, then the empty groups. *)
CleanTables(t, p) ==
    LET c == ByInstance(p)
        members == t.group.members \ {p}
        cleaned == AddAction(RunQuery(
                       [t EXCEPT !.group =
                            IF members = {} THEN NoGroup
                            ELSE [exists |-> TRUE, members |-> members]],
                       c, Access("write", {"host", "service", "hgm", "sgm",
                                           "hg", "sg", "hdep", "parent", "sdep",
                                           "module", "downtime", "comment"}, p)),
                       c, {"hosts", "hostgroups", "servicegroups",
                           "host_dependencies", "host_parents",
                           "service_dependencies", "modules", "downtimes",
                           "comments"})
    IN AddAction(RunQuery(FinishAction(cleaned, Conns,
                                       {"custom_variables", "hosts"}),
                          c, Access("write", {"cv"}, p)),
                 c, {"custom_variables"})

(* _process_instance: a poller starts. *)
ProcessInstance(p) ==
    LET ready == FinishAction(tx, Conns,
                     {"hosts", "acknowledgements", "modules", "downtimes",
                      "comments", "servicegroups", "hostgroups",
                      "service_dependencies", "host_dependencies"})
        cleaned == CleanTables(ready, p)
        stored == [Touch(cleaned, p) EXCEPT !.view[p].has =
                       {"instance"}]
    IN /\ Room
       /\ IF Valid(p)
          THEN /\ Send(stored, ByInstance(p), "instance",
                       Access("create", {"instance"}, p), {"instances"})
               /\ orphan' = FALSE
          ELSE tx' = cleaned /\ Kept
       /\ stamps' = Touched(p)
       /\ UNCHANGED <<cache, best>>

(***************************************************************************)
(* _process_host_group: disabling removes the members of that poller.      *)
(***************************************************************************)
HostGroup(p, enabled) ==
    LET ready == FinishAction(tx, Conns, {"hosts"})
    IN /\ Room /\ Exists(p, {"instance"})
       /\ \E c \in BestConns("host_group") :
              /\ IF enabled
                 THEN Send([ready EXCEPT !.group.exists = TRUE,
                                         !.view[p].has = @ \union {"hg"}], c,
                           "host_group", Access("create", {"hg"}, p),
                           {"hostgroups"})
                 ELSE Send([ready EXCEPT !.group.members = @ \ {p}], c,
                           "host_group", Access("write", {"hgm"}, p) \union
                               Access("read", {"host"}, p), {})
              /\ best' = [type |-> "host_group", conn |-> c]
       /\ cache' = [cache EXCEPT !.group = enabled]
       /\ orphan' = FALSE
       /\ UNCHANGED stamps

(***************************************************************************)
(* _process_host_group_member: a group that the cache does not know is     *)
(* created first (and stays unknown to the cache).                         *)
(***************************************************************************)
HostGroupMember(p, enabled) ==
    LET ready == FinishAction(tx, Conns, {"hostgroups", "hosts"})
        created == [ready EXCEPT !.group.exists = @ \/ ~cache.group]
        stored == IF enabled
                  THEN [created EXCEPT !.group.members =
                            IF created.group.exists THEN @ \union {p} ELSE @]
                  ELSE [ready EXCEPT !.group.members = @ \ {p}]
        access == Access("write", {"hgm"}, p) \union
                  (IF enabled THEN Access("read", {"host", "hg"}, p) ELSE {})
    IN /\ Room /\ Exists(p, {"host", "hg"})
       /\ \E c \in BestConns("host_group_member") :
              /\ IF enabled /\ p \notin cache.host
                 THEN tx' = ready /\ Kept
                 ELSE /\ Send(stored, c, "host_group_member", access,
                              {"hostgroups"})
                      /\ orphan' = (enabled /\ ~created.group.exists)
              /\ best' = [type |-> "host_group_member", conn |-> c]
       /\ UNCHANGED <<cache, stamps>>

(* _update_hosts_and_services_of_unresponsive_instances, one poller late. *)
Unresponsive(p) ==
    /\ Room
    /\ stamps[p] = "responsive"
    /\ stamps' = [stamps EXCEPT ![p] = "unresponsive"]
    /\ tx' = UpdateHostsAndServices(tx, p, FALSE)
    /\ Kept
    /\ UNCHANGED <<cache, best>>

(* _finish_actions: the batch is over. *)
CommitAll ==
    /\ tx' = Commit(tx, Conns)
    /\ Kept
    /\ UNCHANGED <<cache, stamps, best>>

(* Mutant: the outdated pollers are not loaded. *)
LoadNoTimestamps ==
    [p \in Pollers |-> "none"]

(* _load_caches: the pollers the database says are outdated. *)
LoadTimestamps ==
    [p \in Pollers |-> IF tx.disk[p].outdated THEN "unresponsive" ELSE "none"]

(* The process stops without its commits; _load_caches reads the database. *)
Restart ==
    /\ tx' = [action |-> [c \in Conns |-> {}], open |-> [c \in Conns |-> {}],
              view |-> tx.disk, disk |-> tx.disk,
              group |-> tx.groupOnDisk, groupOnDisk |-> tx.groupOnDisk]
    /\ stamps' = LoadTimestamps
    /\ \E gone \in Deletions :
           cache' = [host |-> {p \in Pollers : "host" \in tx.disk[p].has},
                     group |-> tx.groupOnDisk.exists, deleted |-> gone]
    /\ best' = [type |-> "none", conn |-> 0]
    /\ Kept

SqlNext ==
    \/ \E p \in Pollers :
          \/ \E kind \in DOMAIN Handlers : Process(kind, p) \/ Discard(kind, p)
          \/ \E s \in Reported : HostStatus(p, s)
          \/ \E enabled \in BOOLEAN :
                Host(p, enabled) \/ HostGroup(p, enabled)
                    \/ HostGroupMember(p, enabled)
          \/ ProcessInstance(p)
          \/ Unresponsive(p)
    \/ CommitAll
    \/ Restart

SqlSpec == SqlInit /\ [][SqlNext]_sqlVars

-----------------------------------------------------------------------------
(***************************************************************************)
(* No query refers to a row that another connection has created and not    *)
(* committed: the set of actions each handler of conflict_manager_sql.cc   *)
(* finishes covers the tables its foreign keys name, whatever connection   *)
(* choose_best_connection returns.  Log entries are the exception:         *)
(* _insert_logs finishes nothing although logs refer to hosts.             *)
(***************************************************************************)
ParentsVisible == late \subseteq {"log"}

(***************************************************************************)
(* The state saved when a poller stops talking survives until it is put    *)
(* back: a poller the manager thinks responsive is never shown with the    *)
(* state written by the timeout, and that state is never saved as the real *)
(* one, whatever is committed, rolled back by a stop of the process and    *)
(* reloaded by _load_caches in between.                                    *)
(***************************************************************************)
RealStateKept ==
    /\ SqlTypeOK
    /\ \A p \in Pollers :
           /\ tx.view[p].real # Lost
           /\ stamps[p] # "unresponsive" => tx.view[p].state # Lost

(* "If the group does not exist, we create it." (conflict_manager_sql.cc) *)
GroupCreatedFirst == ~orphan

(***************************************************************************)
(* "Check that the action to execute is compatible with actions already    *)
(* running on our connection and also others." (conflict_manager.hh)       *)
(***************************************************************************)
ActionsCompatible == clash = {}
=============================================================================
