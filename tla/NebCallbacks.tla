---------------------------- MODULE NebCallbacks ----------------------------
(***************************************************************************)
(* cbmod, the part of the broker that lives in the monitoring engine       *)
(* (src/neb/src/neb.cc, callbacks.cc, initial.cc): the engine calls a      *)
(* callback for every change of its objects, the callback turns it into an *)
(* event and publishes it.  At the start of the event loop the callbacks   *)
(* are registered and the whole configuration is dumped.                   *)
(*                                                                         *)
(* Two tables outlive a callback: `downtimes', the life of the downtimes   *)
(* under way, and gl_acknowledgements, the acknowledgements whose end has  *)
(* still to be published.  Both are lost when the engine restarts, the     *)
(* downtimes and acknowledgements themselves are not: the engine keeps     *)
(* them in its retention file.                                             *)
(*                                                                         *)
(* On the other side the model follows two readers of the events: the rows *)
(* of the database and the flags of a KPI on the service                   *)
(* (src/bam/src/kpi_service.cc).  The monitoring engine is external.       *)
(***************************************************************************)
EXTENDS Naturals, Sequences, FiniteSets, SequencesExt

CONSTANTS
    Downtimes,       \* identifiers of downtimes of the service
    MaxAcks,         \* bound on the acknowledgements of the service
    Changing,        \* the kinds of objects added and deleted at run time
    MaxChanges,      \* bound on those changes
    MaxRestarts      \* bound on the restarts of the engine

ASSUME NebAssumption == MaxAcks \in Nat

VARIABLES
    registered,      \* gl_registered_callbacks holds every callback
    applied,         \* the configuration of the broker is applied
    params,          \* downtimes: the private_downtime_params by identifier
    acks,            \* gl_acknowledgements[service], or NoAck
    known,           \* the objects declared since the last instance event
    undeclared,      \* an event named an object that was not declared
    row,             \* the last event of each downtime
    ackRow,          \* the acknowledgements stored, in order
    kpi,             \* _acknowledged and _downtimed of the KPI
    conf,            \* engine: its objects
    life,            \* engine: where each downtime is
    state, acked,    \* engine: state of the service, acknowledged or not
    changes, restarts

moduleVars == <<registered, applied, params, acks>>
readerVarsButAcks == <<known, undeclared, row, kpi>>
readerVars == <<readerVarsButAcks, ackRow>>
engineVars == <<conf, life, state, acked>>
nebVars == <<moduleVars, readerVars, engineVars, changes, restarts>>

none == "none"

(* What an object of each kind refers to in the engine. *)
Refs == [host |-> {}, service |-> {"host"}, customvar |-> {"service"},
         parent |-> {"host"},
         hostgroup |-> {}, hostmember |-> {"host", "hostgroup"},
         servicegroup |-> {}, servicemember |-> {"service", "servicegroup"},
         hostdep |-> {"host"}, servicedep |-> {"service"}, module |-> {}]
ObjectKinds == DOMAIN Refs
Closed(c) == \A k \in c : Refs[k] \subseteq c

(* A group without members is published as disabled; the event of a member *)
(* carries the identifier and the name of its group.                       *)
Groups == {"hostgroup", "servicegroup"}
Members(c) == UNION {Refs[k] : k \in c}
Declares(k, c) == ({k} \cup (Refs[k] \cap Groups)) \ (Groups \ Members(c))

(* private_downtime_params: the times are only known to be set or not. *)
Fresh == [started |-> FALSE, ended |-> FALSE, cancelled |-> FALSE,
          deleted |-> FALSE]
Params == [started : BOOLEAN, ended : BOOLEAN, cancelled : BOOLEAN,
           deleted : BOOLEAN]

PartialParams == UNION {[ds -> Params] : ds \in SUBSET Downtimes}

(* The tables with p for the downtimes D, and without downtime d.          *)
With(f, D, p) == [e \in DOMAIN f \cup D |-> IF e \in D THEN p ELSE f[e]]
Without(f, d) == [e \in DOMAIN f \ {d} |-> f[e]]

NoAck == [id |-> 0, sticky |-> FALSE, state |-> "ok"]

Stage == {none, "scheduled", "active", "ended", "deleted", "forgotten"}

(* Where a downtime is, and whether it has started and was cancelled.      *)
Life == [at : Stage, started : BOOLEAN, cancelled : BOOLEAN]
InStage(at, started, cancelled) ==
    [at |-> at, started |-> started, cancelled |-> cancelled]
NotStarted(at) == InStage(at, FALSE, FALSE)
Forgotten(l) == InStage("forgotten", l.started, l.cancelled)

States == {"ok", "warning", "critical"}

(* A row of the acknowledgements: whether its end was published, and how   *)
(* it ended.                                                               *)
StoredAck(closed, end) == [closed |-> closed, end |-> end]
ClosedAck(r) == StoredAck(TRUE, r.end)

(* The acknowledgement in force ends. *)
Ended(rows, why) ==
    [i \in DOMAIN rows |-> IF rows[i].end = "live"
                           THEN StoredAck(rows[i].closed, why) ELSE rows[i]]

NebTypeOK ==
    /\ registered \in BOOLEAN /\ applied \in BOOLEAN
    /\ params \in PartialParams /\ row \in PartialParams
    /\ acks \in [id : 0 .. MaxAcks, sticky : BOOLEAN, state : States]
    /\ known \subseteq ObjectKinds /\ undeclared \in BOOLEAN
    /\ ackRow \in Seq([closed : BOOLEAN,
                       end : {"live", "operator", "state", "replaced",
                              "restart", "forgotten", "unheard"}])
    /\ kpi \in [acknowledged : BOOLEAN, downtimed : BOOLEAN]
    /\ conf \subseteq ObjectKinds /\ Closed(conf)
    /\ life \in [Downtimes -> Life]
    /\ state \in States /\ acked \in {none, "normal", "sticky"}

-----------------------------------------------------------------------------
(***************************************************************************)
(* The start of the event loop.                                            *)
(***************************************************************************)

(* The order of send_initial_configuration; the downtimes come after the   *)
(* custom variables.                                                       *)
DumpOrder == [host |-> 1, service |-> 2, customvar |-> 3, parent |-> 4,
              hostgroup |-> 5, hostmember |-> 6,
              servicegroup |-> 7, servicemember |-> 8,
              hostdep |-> 9, servicedep |-> 10, module |-> 11]

(* What the events of the kinds ks declare, in an engine with objects c.   *)
Declared(ks, c) == UNION {Declares(k, c) : k \in ks}

(* An event of kind k that comes after those that declared seen.           *)
NamesUndeclared(k, seen) == ~ (Refs[k] \ Groups \subseteq seen)

SendInitialConfiguration ==
    /\ known' = Declared(conf, conf)
    /\ undeclared' =
          (undeclared \/ \E k \in conf :
              LET sent == {j \in conf : DumpOrder[j] < DumpOrder[k]}
              IN NamesUndeclared(k, Declared(sent, conf)))

Scheduled == {d \in Downtimes : life[d].at \in {"scheduled", "active"}}

(* callback_process, NEBTYPE_PROCESS_EVENTLOOPSTART.  The instance event   *)
(* comes first and makes every reader forget what it knew.  The dump calls *)
(* callback_downtime with NEBTYPE_DOWNTIME_ADD, whatever the downtime has  *)
(* become.                                                                 *)
EventLoopStart ==
    /\ ~ registered
    /\ registered' = TRUE
    /\ applied' = TRUE
    /\ SendInitialConfiguration
    /\ IF "service" \in conf
       THEN /\ params' = With(params, Scheduled, Fresh)
            /\ row' = With(row, Scheduled, Fresh)
            /\ kpi' = [kpi EXCEPT !.downtimed = @ /\ Scheduled = {}]
       ELSE UNCHANGED <<params, row, kpi>>
    /\ UNCHANGED <<acks, ackRow, engineVars, changes, restarts>>

(* The configuration of the broker is wrong: the callbacks are registered, *)
(* nothing is applied and nobody reads what they publish.                  *)
EventLoopStartFails ==
    /\ ~ registered
    /\ registered' = TRUE
    /\ UNCHANGED <<applied, params, acks, readerVars, engineVars, changes,
                   restarts>>

(* The engine stops, cleanly (EVENTLOOPEND publishes an instance event     *)
(* that declares nothing, then nebmodule_deinit) or not, and starts again  *)
(* from its retention file.  A downtime that was active is scheduled anew, *)
(* one that had ended is forgotten.                                        *)
EngineRestart ==
    /\ registered /\ restarts < MaxRestarts
    /\ restarts' = restarts + 1
    /\ registered' = FALSE /\ applied' = FALSE
    /\ params' = <<>>
    /\ acks' = NoAck
    /\ life' = [d \in Downtimes |->
                   CASE d \in Scheduled -> NotStarted("scheduled")
                     [] life[d].at = none -> life[d]
                     [] OTHER -> Forgotten(life[d])]
    /\ ackRow' = Ended(ackRow, "restart")
    /\ UNCHANGED <<readerVarsButAcks, conf, state, acked, changes>>

-----------------------------------------------------------------------------
(***************************************************************************)
(* The configuration changes while the engine runs.                        *)
(***************************************************************************)

(* A callback with an _ADD: the engine creates what an object refers to    *)
(* before the object.  Nothing is called before the event loop starts.     *)
ObjectAdded(k) ==
    /\ changes < MaxChanges
    /\ k \notin conf /\ Refs[k] \subseteq conf
    /\ changes' = changes + 1
    /\ conf' = conf \cup {k}
    /\ IF registered /\ applied
       THEN /\ known' = known \cup Declares(k, conf')
            /\ undeclared' = (undeclared \/ NamesUndeclared(k, known))
       ELSE UNCHANGED <<known, undeclared>>
    /\ UNCHANGED <<moduleVars, row, ackRow, kpi, life, state, acked, restarts>>

(* The same callback with a _DELETE.  What the engine held about a deleted *)
(* service it forgets; the tables of the module keep it.                   *)
ObjectDeleted(k) ==
    /\ changes < MaxChanges
    /\ k \in conf /\ Closed(conf \ {k})
    /\ changes' = changes + 1
    /\ conf' = conf \ {k}
    /\ known' = IF registered /\ applied THEN known \ {k} ELSE known
    /\ IF k = "service"
       THEN /\ life' = [d \in Downtimes |->
                           IF life[d].at \in {none, "deleted"} THEN life[d]
                           ELSE Forgotten(life[d])]
            /\ ackRow' = Ended(ackRow, "forgotten")
            /\ state' = "ok" /\ acked' = none
       ELSE UNCHANGED <<life, ackRow, state, acked>>
    /\ UNCHANGED <<moduleVars, undeclared, row, kpi, restarts>>

(* One callback per kind of objects. *)
ObjectChanged(k) == k \in Changing /\ (ObjectAdded(k) \/ ObjectDeleted(k))

CallbackHost == ObjectChanged("host")
CallbackService == ObjectChanged("service")
CallbackCustomVariable == ObjectChanged("customvar")
CallbackRelation == ObjectChanged("parent")
CallbackGroup == \E k \in Groups : ObjectChanged(k)
CallbackGroupMember == ObjectChanged("hostmember") \/ ObjectChanged("servicemember")
CallbackDependency == ObjectChanged("hostdep") \/ ObjectChanged("servicedep")
CallbackModule == ObjectChanged("module")

-----------------------------------------------------------------------------
(***************************************************************************)
(* Downtimes of the service.                                               *)
(***************************************************************************)

(* kpi_service::service_update of a downtime: of the last one heard of. *)
KpiDowntime(p) == [kpi EXCEPT !.downtimed = p.started /\ ~ p.ended]

(* Mutant: the entry is erased when the downtime stops. *)
CallbackDowntimeErasesAtStop(d, p) ==
    IF registered /\ "service" \in conf
    THEN /\ params' = IF p.ended THEN Without(params, d) ELSE With(params, {d}, p)
         /\ row' = IF applied THEN With(row, {d}, p) ELSE row
         /\ kpi' = IF applied THEN KpiDowntime(p) ELSE kpi
         /\ undeclared' = (undeclared \/ (applied /\ "service" \notin known))
    ELSE UNCHANGED <<params, row, kpi, undeclared>>

(* callback_downtime: the parameters of downtime d become p, are published *)
(* and, after a NEBTYPE_DOWNTIME_DELETE, forgotten.  A service without ID  *)
(* makes the callback throw before it touches the table.                   *)
CallbackDowntime(d, p) ==
    IF registered /\ "service" \in conf
    THEN /\ params' = IF p.deleted THEN Without(params, d) ELSE With(params, {d}, p)
         /\ row' = IF applied THEN With(row, {d}, p) ELSE row
         /\ kpi' = IF applied THEN KpiDowntime(p) ELSE kpi
         /\ undeclared' = (undeclared \/ (applied /\ "service" \notin known))
    ELSE UNCHANGED <<params, row, kpi, undeclared>>

(* downtimes[internal_id]: operator[] makes an entry with zero everywhere. *)
Entry(d) == IF d \in DOMAIN params THEN params[d] ELSE Fresh

DowntimeStep ==
    /\ registered
    /\ UNCHANGED <<registered, applied, acks, known, ackRow, conf, state,
                   acked, changes, restarts>>

DowntimeAdded(d) ==
    /\ life[d].at = none /\ "service" \in conf
    /\ life' = [life EXCEPT ![d] = InStage("scheduled", @.started, @.cancelled)]
    /\ CallbackDowntime(d, Fresh)
    /\ DowntimeStep

DowntimeStarted(d) ==
    /\ life[d].at = "scheduled"
    /\ life' = [life EXCEPT ![d] = InStage("active", TRUE, @.cancelled)]
    /\ CallbackDowntime(d, [Entry(d) EXCEPT !.started = TRUE])
    /\ DowntimeStep

DowntimeStopped(d, cancel) ==
    /\ life[d].at = "active"
    /\ life' = [life EXCEPT ![d] = InStage("ended", @.started, cancel)]
    /\ CallbackDowntime(d, [Entry(d) EXCEPT !.ended = TRUE,
                                            !.cancelled = @ \/ cancel])
    /\ DowntimeStep

DowntimeDeleted(d) ==
    /\ life[d].at \in {"scheduled", "ended"}
    /\ life' = [life EXCEPT ![d] = InStage("deleted", @.started,
                                               @.cancelled \/ ~ @.started)]
    /\ CallbackDowntime(d, [Entry(d) EXCEPT !.deleted = TRUE,
                                            !.cancelled = @ \/ ~ Entry(d).started])
    /\ DowntimeStep

-----------------------------------------------------------------------------
(***************************************************************************)
(* Acknowledgements of the service.                                        *)
(***************************************************************************)

(* kpi_service::service_update of an acknowledgement tests                 *)
(* `deletion_time != -1'.                                                  *)
KpiAcknowledgement(deleted) == [kpi EXCEPT !.acknowledged = deleted]

(* callback_acknowledgement.  A new acknowledgement takes the place of the *)
(* one before it, whose end will not be published.                         *)
Acknowledge(sticky) ==
    /\ registered /\ "service" \in conf /\ state # "ok"
    /\ Len(ackRow) < MaxAcks
    /\ acked' = IF sticky THEN "sticky" ELSE "normal"
    /\ acks' = [id |-> Len(ackRow) + 1, sticky |-> sticky, state |-> state]
    /\ ackRow' = Append(Ended(ackRow, "replaced"),
                        StoredAck(FALSE, IF applied THEN "live" ELSE "unheard"))
    /\ kpi' = IF applied THEN KpiAcknowledgement(FALSE) ELSE kpi
    /\ undeclared' = (undeclared \/ (applied /\ "service" \notin known))
    /\ UNCHANGED <<registered, applied, params, known, row, conf, life, state,
                   changes, restarts>>

(* The second half of callback_service_status and of callback_host_status: *)
(* the end of the acknowledgement is published when the new state does not *)
(* tell it already.                                                        *)
EndPublished(newState) ==
    newState # "ok" /\ (acks.sticky \/ newState = acks.state)

CallbackServiceStatus(newState, newAcked, why) ==
    /\ registered /\ "service" \in conf
    /\ state' = newState /\ acked' = newAcked
    /\ IF acks # NoAck /\ newAcked = none
       THEN LET rows == Ended(ackRow, why)
                publish == applied /\ EndPublished(newState)
            IN /\ acks' = NoAck
               /\ ackRow' = IF publish
                            THEN [rows EXCEPT ![acks.id] = ClosedAck(@)]
                            ELSE rows
               /\ kpi' = IF publish THEN KpiAcknowledgement(TRUE)
                         ELSE kpi
       ELSE /\ ackRow' = IF newAcked = none THEN Ended(ackRow, why) ELSE ackRow
            /\ UNCHANGED <<acks, kpi>>
    /\ undeclared' = (undeclared \/ (applied /\ "service" \notin known))
    /\ UNCHANGED <<registered, applied, params, known, row, conf, life,
                   changes, restarts>>

(* The engine drops a normal acknowledgement when the state changes and a  *)
(* sticky one when the service recovers.                                   *)
StateChanged(s) ==
    /\ s # state
    /\ CallbackServiceStatus(s, IF s # "ok" /\ acked = "sticky" THEN acked
                                ELSE none, "state")

(* REMOVE_SVC_ACKNOWLEDGEMENT. *)
AckRemoved ==
    /\ acked # none
    /\ CallbackServiceStatus(state, none, "operator")

(* The callbacks without memory, about host or service k.  An object       *)
(* without ID ends them early.                                             *)
Tells(k) ==
    /\ registered /\ k \in conf
    /\ undeclared' = (undeclared \/ (applied /\ k \notin known))
    /\ UNCHANGED <<moduleVars, known, row, ackRow, kpi, engineVars, changes,
                   restarts>>

CallbackHostCheck == Tells("host")
CallbackServiceCheck == Tells("service")
CallbackComment == \E k \in {"host", "service"} : Tells(k)
CallbackEventHandler == \E k \in {"host", "service"} : Tells(k)
CallbackFlappingStatus == \E k \in {"host", "service"} : Tells(k)

(* CMD_CHANGE_CUSTOM_HOST_VAR, CMD_CHANGE_CUSTOM_SVC_VAR. *)
CallbackExternalCommand == \E k \in {"host", "service"} : Tells(k)

-----------------------------------------------------------------------------
NebInit ==
    /\ registered = FALSE /\ applied = FALSE
    /\ params = <<>> /\ acks = NoAck
    /\ known = {} /\ undeclared = FALSE
    /\ row = <<>> /\ ackRow = <<>>
    /\ kpi = [acknowledged |-> FALSE, downtimed |-> FALSE]
    /\ conf \in {ObjectKinds, {"host", "service", "hostgroup"}, {"host"}}
    /\ life = [d \in Downtimes |-> NotStarted(none)]
    /\ state = "ok" /\ acked = none
    /\ changes = 0 /\ restarts = 0

NebNext ==
    \/ EventLoopStart \/ EventLoopStartFails \/ EngineRestart
    \/ CallbackHost \/ CallbackService \/ CallbackCustomVariable
    \/ CallbackRelation \/ CallbackGroup \/ CallbackGroupMember
    \/ CallbackDependency \/ CallbackModule
    \/ \E d \in Downtimes :
          \/ DowntimeAdded(d) \/ DowntimeStarted(d) \/ DowntimeDeleted(d)
          \/ \E cancel \in BOOLEAN : DowntimeStopped(d, cancel)
    \/ \E sticky \in BOOLEAN : Acknowledge(sticky)
    \/ \E s \in States : StateChanged(s)
    \/ AckRemoved
    \/ CallbackHostCheck \/ CallbackServiceCheck \/ CallbackComment
    \/ CallbackEventHandler \/ CallbackFlappingStatus \/ CallbackExternalCommand

NebSpec == NebInit /\ [][NebNext]_nebVars

-----------------------------------------------------------------------------
(***************************************************************************)
(* Properties                                                              *)
(***************************************************************************)

(* As long as the engine knows a downtime, its last event tells            *)
(* where the downtime is, whether it has started, and whether it was       *)
(* cancelled: the table of callback_downtime survives as long as it is     *)
(* needed, and the dump after a restart starts the story again.            *)
DowntimesTracked ==
    /\ NebTypeOK
    /\ applied =>
          \A d \in Downtimes :
             life[d].at \notin {none, "forgotten"} =>
                /\ d \in DOMAIN row
                /\ row[d] = [started |-> life[d].started,
                          ended |-> life[d].started
                                    /\ life[d].at \in {"ended", "deleted"},
                          cancelled |-> life[d].cancelled,
                          deleted |-> life[d].at = "deleted"]

(* The end of an acknowledgement is published exactly when an operator     *)
(* removed it, in the same run of the engine: every other end shows in the *)
(* status.                                                                 *)
AcksClosed ==
    applied =>
        \A i \in DOMAIN ackRow :
            /\ ackRow[i].end = "operator" => ackRow[i].closed
            /\ ackRow[i].closed => ackRow[i].end \in {"operator", "forgotten"}

(* No event names a host or a service that has not been declared since the *)
(* engine said that it was running, and after the dump every object is     *)
(* declared, empty groups apart: conflict_manager stores members, parents  *)
(* and dependencies under foreign keys.                                    *)
DeclaredFirst ==
    /\ ~ undeclared
    /\ applied => conf \ (Groups \ Members(conf)) \subseteq known
                  /\ known \subseteq conf

(* kpi_service.cc says of is_acknowledged `True if the service is          *)
(* acknowledged'.                                                          *)
KpiAcknowledged == applied => (kpi.acknowledged <=> acked # none)

(* kpi_service.cc says of in_downtime `True if the service is in           *)
(* downtime'.                                                              *)
KpiInDowntime ==
    applied => (kpi.downtimed <=> \E d \in Downtimes : life[d].at = "active")

(* What the events tell of the monitoring engine is true: downtimes, ends  *)
(* of acknowledgements, and objects declared before they are named.        *)
NebInv == DowntimesTracked /\ AcksClosed /\ DeclaredFirst

=============================================================================
