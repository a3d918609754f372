--------------------------------- MODULE Ba ---------------------------------
(***************************************************************************)
(* Business activities of the bam module (ba.cc, kpi_service.cc,           *)
(* kpi_boolexp.cc, bool_*.cc, kpi_ba.cc, computable.cc, and the parts of   *)
(* configuration/applier that add and remove indicators).  A BA caches the *)
(* last impact of each of its KPIs and keeps running totals; an update of  *)
(* a service runs up the graph: KPI, BA, KPI of that BA, parent BA.        *)
(*                                                                         *)
(* The instance: the BA "low" has KPI 1, a service, and KPI 2, a boolean   *)
(* expression over two other services; the BA "top" has KPI 3, the BA      *)
(* "low".  The soft values go through the same code as the hard ones and   *)
(* are left out.  States: 0 ok, 1 warning, 2 critical, 3 unknown.          *)
(***************************************************************************)
EXTENDS Integers, Sequences

CONSTANTS
    Reported,       \* states the service of KPI 1 may be in
    Configurations, \* state source of "low" and downtime behaviour of both
    RecomputeLimit, \* ba::_recompute_limit
    MaxDrift,       \* bound: drift of the totals in the other sources
    MaxCommands     \* bound: commands the monitoring engine has not executed

ASSUME BaAssumption ==
    /\ Reported \subseteq 0 .. 3
    /\ Configurations \subseteq {"impact", "best", "worst", "ratio"} \X
                                {"ignore", "inherit", "none"}
    /\ RecomputeLimit \in Nat \ {0} /\ MaxDrift \in Nat /\ MaxCommands \in Nat

VARIABLES
    service,        \* KPI 1: state, acknowledged, downtimed
    leaf,           \* the bool_service objects under KPI 2
    cached,         \* the values bool_binary_operator keeps of its operands
    verdict,        \* kpi_boolexp::_event: its last state
    low, top,       \* the two BAs
    behaviour,      \* the downtime behaviour of both
    commands,       \* external commands sent to the engine and not executed
    stale           \* what a change of configuration has left behind: the
                    \* "parent", the inherited "downtime" of low

baVars == <<service, leaf, cached, verdict, low, top, behaviour, commands,
            stale>>

States == 0 .. 3

(* Configuration: what each state of an indicator costs, the levels. *)
ServiceImpact == [s \in States |-> CASE s = 0 -> 0 [] s = 2 -> 60 [] OTHER -> 20]
BoolImpact == 50
BaImpact == [s \in States |-> CASE s = 0 -> 0 [] s = 1 -> 50 [] OTHER -> 100]
LevelWarning == 70
LevelCritical == 40
RatioWarning == 1
RatioCritical == 2

Impact(nominal, ack, downtime, state, inDt) ==
    [nominal |-> nominal, ack |-> ack, downtime |-> downtime, state |-> state,
     inDt |-> inDt]

(* Order of the states in is_state_worse and is_state_better. *)
Rank == [s \in States |-> CASE s = 0 -> 0 [] s = 3 -> 1 [] s = 1 -> 2
                            [] OTHER -> 3]

-----------------------------------------------------------------------------
(***************************************************************************)
(* ba::_apply_impact, _recompute, _unapply_impact.  In the sources other   *)
(* than "impact", _unapply_impact applies every other impact a second time *)
(* and never takes the totals back.                                        *)
(***************************************************************************)
Ignored(imp) == behaviour = "ignore" /\ imp.inDt

Weighed(b, imp) ==
    [b EXCEPT
        !.level = @ - imp.nominal,
        !.computed =
            CASE b.source = "best" /\ Rank[imp.state] < Rank[@] -> imp.state
              [] b.source = "worst" /\ Rank[imp.state] > Rank[@] -> imp.state
              [] OTHER -> @,
        !.critical = IF b.source = "ratio" /\ imp.state = 2 THEN @ + 1 ELSE @]

Applied(b, imp) ==
    [(IF Ignored(imp) THEN b ELSE Weighed(b, imp)) EXCEPT
        !.ack = @ + imp.ack, !.downtime = @ + imp.downtime]

ApplyOne(b, kpis, k) == IF k \in kpis THEN Applied(b, b.impacts[k]) ELSE b

ApplyAll(b, kpis) == ApplyOne(ApplyOne(ApplyOne(b, kpis, 1), kpis, 2), kpis, 3)

Recompute(b) ==
    ApplyAll([b EXCEPT !.ack = 0, !.downtime = 0, !.level = 100,
                       !.critical = 0, !.count = 0],
             DOMAIN b.impacts)

(* One more of the updates after which the totals are computed anew. *)
Recounted(b) ==
    IF b.count + 1 >= RecomputeLimit THEN Recompute([b EXCEPT !.count = @ + 1])
    ELSE [b EXCEPT !.count = @ + 1]

GiveBack(b, imp) ==
    [b EXCEPT !.ack = @ - imp.ack, !.downtime = @ - imp.downtime,
              !.level = IF Ignored(imp) THEN @ ELSE @ + imp.nominal]

(* The sources other than "impact" start from the state that any impact    *)
(* replaces.                                                               *)
Reset(b) ==
    [b EXCEPT !.computed = CASE b.source = "best" -> 2
                             [] b.source = "worst" -> 0
                             [] OTHER -> @,
              !.critical = 0, !.touched = TRUE]

(* Mutant: an ignored impact is given back. *)
UnapplyTwice(b, k) ==
    [GiveBack(Recounted(b), b.impacts[k]) EXCEPT
        !.level = Recounted(b).level + b.impacts[k].nominal]

Unapplied(b, k) ==
    IF b.source = "impact" THEN GiveBack(Recounted(b), b.impacts[k])
    ELSE ApplyAll(Reset(b), DOMAIN b.impacts \ {k})

(* ba::get_state_hard *)
Threshold(n, crit, warn) == IF n >= crit THEN 2 ELSE IF n >= warn THEN 1 ELSE 0

StateHard(b) ==
    CASE b.source = "impact" ->
             Threshold(-b.level, -LevelCritical, -LevelWarning)
      [] b.source = "ratio" -> Threshold(b.critical, RatioCritical, RatioWarning)
      [] /\ b.source \in {"best", "worst"}
         /\ behaviour = "ignore" /\ DOMAIN b.impacts # {}
         /\ \A k \in DOMAIN b.impacts : b.impacts[k].inDt -> 0
      [] OTHER -> b.computed

-----------------------------------------------------------------------------
(***************************************************************************)
(* The KPIs: kpi_service::_fill_impact, kpi_boolexp::_fill_impact and      *)
(* _get_state over bool_and of two services, kpi_ba::_fill_impact.         *)
(***************************************************************************)
KpiService(s) ==
    Impact(ServiceImpact[s.state], IF s.acked THEN ServiceImpact[s.state] ELSE 0,
           IF s.downtimed THEN ServiceImpact[s.state] ELSE 0, s.state, s.downtimed)

NoVerdict == -1     \* no event is open yet

BoolKnown(l) == \A i \in DOMAIN l : l[i].known

BoolState(l, c, v) ==
    IF BoolKnown(l) \/ v = NoVerdict
    THEN IF c[1] /\ c[2] THEN 2 ELSE 0
    ELSE v

KpiBoolexp(l, c, v) ==
    LET state == BoolState(l, c, v)
    IN Impact(IF state = 0 THEN 0 ELSE BoolImpact, 0, 0, state,
              \E i \in DOMAIN l : l[i].downtimed)

Clamp(x) == IF x < 0 THEN 0 ELSE IF x > 100 THEN 100 ELSE x

ImpactOfBa(b, state, nominal) ==
    Impact(nominal, (Clamp(b.ack) * nominal) \div 100,
           (Clamp(b.downtime) * nominal) \div 100, state, b.inDt)

KpiBa(b) == ImpactOfBa(b, StateHard(b), BaImpact[StateHard(b)])

-----------------------------------------------------------------------------
(***************************************************************************)
(* ba::visit: an event is open with the current state and downtime flag.   *)
(***************************************************************************)
Visit(b) == [b EXCEPT !.event = [status |-> StateHard(b), inDt |-> b.inDt]]

(* ba::_compute_inherited_downtime; the flag stays until the engine says so. *)
EveryKpiInDowntime(b) ==
    /\ DOMAIN b.impacts # {}
    /\ \A k \in DOMAIN b.impacts : b.impacts[k].state = 0 \/ b.impacts[k].inDt

ShouldInherit(b) == StateHard(b) # 0 /\ EveryKpiInDowntime(b)

(* Mutant: an ok BA keeps its inherited downtime. *)
InheritAlways(b) ==
    IF behaviour # "inherit" \/ ~ShouldInherit(b) \/ b.inherited THEN b
    ELSE [b EXCEPT !.inherited = TRUE, !.inDt = TRUE]

Inherit(b) ==
    IF behaviour # "inherit" \/ (ShouldInherit(b) <=> b.inherited) THEN b
    ELSE IF b.inherited THEN [b EXCEPT !.inherited = FALSE]
    ELSE [b EXCEPT !.inherited = TRUE, !.inDt = TRUE]

(* The commands monitoring_stream::write sends for an inherited downtime. *)
CommandOf(name, before, after) ==
    IF before.inherited = after.inherited THEN <<>>
    ELSE <<[ba |-> name, start |-> after.inherited]>>

(***************************************************************************)
(* ba::child_has_update: nothing to do when the impact is the same.        *)
(***************************************************************************)
ChildHasUpdate(b, k, imp) ==
    IF k \notin DOMAIN b.impacts \/ b.impacts[k] = imp THEN b
    ELSE Visit(Inherit(Applied([Unapplied(b, k) EXCEPT !.impacts[k] = imp],
                               imp)))

(* ba::add_impact, ba::remove_impact *)
AddImpact(b, k, imp) ==
    IF k \in DOMAIN b.impacts THEN b
    ELSE Applied([b EXCEPT !.impacts =
                     [j \in DOMAIN b.impacts \union {k} |->
                         IF j = k THEN imp ELSE b.impacts[j]]], imp)

RemoveImpact(b, k) ==
    [Unapplied(b, k) EXCEPT !.impacts =
        [j \in DOMAIN b.impacts \ {k} |-> b.impacts[j]]]

(* A BA as its constructor leaves it, with the event read from the database. *)
NewBa(source, event, inherited) ==
    [source |-> source, impacts |-> <<>>, level |-> 100, ack |-> 0,
     downtime |-> 0, computed |-> 0, critical |-> 0, count |-> 0,
     inDt |-> event.inDt, inherited |-> inherited, event |-> event,
     touched |-> FALSE]

BaTypeOK ==
    /\ service \in [state : States, acked : BOOLEAN, downtimed : BOOLEAN]
    /\ leaf \in [1 .. 2 -> [critical : BOOLEAN, known : BOOLEAN,
                            downtimed : BOOLEAN]]
    /\ cached \in [1 .. 2 -> BOOLEAN]
    /\ verdict \in {0, 2}
    /\ behaviour \in {"ignore", "inherit", "none"}
    /\ \A b \in {low, top} :
           b.computed \in States /\ b.critical \in Nat /\ b.count \in Nat

Unknown == [critical |-> FALSE, known |-> FALSE, downtimed |-> FALSE]
NoEvent == [status |-> 0, inDt |-> FALSE]

Build(source, kpis, s, l, c, v, events, inherited) ==
    LET add(b, k, imp) == IF k \in kpis THEN AddImpact(b, k, imp) ELSE b
        b == Visit(add(add(NewBa(source, events[1], inherited[1]),
                           1, KpiService(s)), 2, KpiBoolexp(l, c, v)))
    IN <<b, Visit(AddImpact(NewBa("impact", events[2], inherited[2]),
                            3, KpiBa(b)))>>

BaInit ==
    /\ service = [state |-> 0, acked |-> FALSE, downtimed |-> FALSE]
    /\ leaf = [i \in 1 .. 2 |-> Unknown]
    /\ cached = [i \in 1 .. 2 |-> FALSE]
    /\ verdict = 0
    /\ \E config \in Configurations :
           LET pair == Build(config[1], 1 .. 2, service, leaf, cached, NoVerdict,
                             <<NoEvent, NoEvent>>, <<FALSE, FALSE>>)
           IN /\ behaviour = config[2]
              /\ low = pair[1] /\ top = pair[2]
    /\ commands = <<>>
    /\ stale = {}

Bounded ==
    /\ low.source # "impact" =>
           /\ low.level >= 100 - MaxDrift
           /\ low.ack <= MaxDrift /\ low.downtime <= MaxDrift
    /\ Len(commands) + 2 <= MaxCommands

(***************************************************************************)
(* computable::propagate_update from a KPI of "low": its BA, then the KPI  *)
(* of that BA, then the parent BA.  The last two run even when nothing     *)
(* changed in "low", but then find the same impact.                        *)
(***************************************************************************)
Announce(after, above, pending) ==
    /\ low' = after
    /\ top' = above
    /\ commands' = pending \o CommandOf("low", low, after)
                           \o CommandOf("top", top, above)

Above(after) ==
    IF after = low THEN top ELSE ChildHasUpdate(top, 3, KpiBa(after))

Rise(after) ==
    /\ Announce(after, Above(after), commands)
    /\ stale' = IF after = low THEN stale ELSE {}

Propagate(k, imp) == Rise(ChildHasUpdate(low, k, imp))

(* kpi_service::service_update of a status, an acknowledgement, a downtime *)
ServiceUpdate(s) ==
    /\ Bounded
    /\ service' = s
    /\ Propagate(1, KpiService(s))
    /\ UNCHANGED <<leaf, cached, verdict, behaviour>>

ServiceStatus(state) == ServiceUpdate([service EXCEPT !.state = state])
ServiceAck(acked) == ServiceUpdate([service EXCEPT !.acked = acked])
ServiceDowntime(dt) == ServiceUpdate([service EXCEPT !.downtimed = dt])

(***************************************************************************)
(* bool_service::service_update, bool_binary_operator::child_has_update,   *)
(* kpi_boolexp::child_has_update.                                          *)
(***************************************************************************)
BoolUpdate(l, c, v) ==
    /\ leaf' = l /\ cached' = c /\ verdict' = v
    /\ Propagate(2, KpiBoolexp(l, c, v))
    /\ UNCHANGED <<service, behaviour>>

BoolRefresh(l, c) == BoolUpdate(l, c, BoolState(l, c, verdict))

BoolStatus(i, critical, downtimed) ==
    /\ Bounded
    /\ BoolRefresh([leaf EXCEPT ![i] = [critical |-> critical, known |-> TRUE,
                                       downtimed |-> downtimed]],
                   [cached EXCEPT ![i] = critical])

(* The engine executes a command; ba::service_update gets its downtime. *)
EngineTold(b, start) ==
    IF b.inDt = start THEN b ELSE Visit([b EXCEPT !.inDt = start])

LowTold(after) ==
    /\ Announce(after, Above(after), Tail(commands))
    /\ stale' = IF after = low THEN stale ELSE stale \ {"parent"}

EngineRuns ==
    /\ commands # <<>>
    /\ IF Head(commands).ba = "low"
       THEN LowTold(EngineTold(low, Head(commands).start))
       ELSE /\ top' = EngineTold(top, Head(commands).start)
            /\ commands' = Tail(commands)
            /\ UNCHANGED <<low, stale>>
    /\ UNCHANGED <<service, leaf, cached, verdict, behaviour>>

(***************************************************************************)
(* monitoring_stream::update with an indicator of "low" removed or added:  *)
(* the BAs publish their status, but nothing is propagated to the parents. *)
(***************************************************************************)
Reload(k) ==
    LET imp == IF k = 1 THEN KpiService(service)
               ELSE KpiBoolexp(leaf, cached, verdict)
    IN /\ Bounded
       /\ low' = Visit(IF k \in DOMAIN low.impacts THEN RemoveImpact(low, k)
                       ELSE AddImpact(low, k, imp))
       /\ top' = Visit(top)
       /\ stale' = {"parent", "downtime"}
       /\ UNCHANGED <<service, leaf, cached, verdict, behaviour, commands>>

(***************************************************************************)
(* The broker is stopped and started: the inherited downtimes come back    *)
(* from the persistent cache, the events and the states of the KPIs from   *)
(* the database; the services of the expression are unknown again.         *)
(***************************************************************************)
Restart ==
    LET l == [i \in 1 .. 2 |-> Unknown]
        c == [i \in 1 .. 2 |-> FALSE]
        pair == Build(low.source, DOMAIN low.impacts, service, l, c, verdict,
                      <<low.event, top.event>>,
                      <<low.inherited, top.inherited>>)
    IN /\ leaf' = l /\ cached' = c
       /\ low' = pair[1] /\ top' = pair[2]
       /\ stale' = {"parent", "downtime"}
       /\ UNCHANGED <<service, verdict, behaviour, commands>>

BaNext ==
    \/ \E s \in Reported : ServiceStatus(s)
    \/ \E on \in BOOLEAN : ServiceAck(on) \/ ServiceDowntime(on)
    \/ \E i \in 1 .. 2, critical, downtimed \in BOOLEAN :
           BoolStatus(i, critical, downtimed)
    \/ EngineRuns
    \/ \E k \in 1 .. 2 : Reload(k)
    \/ Restart

BaSpec == BaInit /\ [][BaNext]_baVars

-----------------------------------------------------------------------------
Sum(f) ==
    LET at(k) == IF k \in DOMAIN f THEN f[k] ELSE 0
    IN at(1) + at(2) + at(3)

Counted(b) == {k \in DOMAIN b.impacts : ~Ignored(b.impacts[k])}

CountedSum(b) == Sum([k \in Counted(b) |-> b.impacts[k].nominal])

Totals(b) ==
    CASE b.source = "impact" ->
             /\ b.level = 100 - CountedSum(b)
             /\ b.ack = Sum([k \in DOMAIN b.impacts |-> b.impacts[k].ack])
             /\ b.downtime = Sum([k \in DOMAIN b.impacts |-> b.impacts[k].downtime])
      [] b.source = "ratio" ->
             b.critical = Sum([k \in Counted(b) |->
                                  IF b.impacts[k].state = 2 THEN 1 ELSE 0])
      [] b.source = "worst" ->
             /\ b.computed \in {0} \union {b.impacts[k].state : k \in Counted(b)}
             /\ \A k \in Counted(b) : Rank[b.impacts[k].state] <= Rank[b.computed]
      [] OTHER ->
             b.touched =>
                /\ b.computed \in {2} \union {b.impacts[k].state : k \in Counted(b)}
                /\ \A k \in Counted(b) : Rank[b.computed] <= Rank[b.impacts[k].state]

(***************************************************************************)
(* The running totals are what a computation from scratch gives: level,    *)
(* acknowledged and downtimed impact of a BA computed from impacts, the    *)
(* worst (or best) state or number of critical KPIs otherwise, through any *)
(* sequence of updates, downtimes, recomputations and configurations       *)
(* (ba::_apply_impact, _unapply_impact).  "best" is right from the first   *)
(* update on: the constructor's ok state is already the best.              *)
(***************************************************************************)
TotalsTrue ==
    /\ BaTypeOK
    /\ Totals(low) /\ Totals(top)

(***************************************************************************)
(* The parent BA works with the present impact of the BA below, and the    *)
(* operator of an expression with the present value of its operands, as    *)
(* soon as an update has run through the graph (computable.cc); only a     *)
(* change of configuration leaves the parent behind.                       *)
(***************************************************************************)
ParentsAgree ==
    /\ \A i \in 1 .. 2 : cached[i] = leaf[i].critical
    /\ "parent" \notin stale => top.impacts[3] = KpiBa(low)

(***************************************************************************)
(* Once the engine has executed every command, a BA is in downtime exactly *)
(* when it inherits one, and, unless its configuration changed since, it   *)
(* inherits one exactly when it is not ok and every KPI that is not ok is  *)
(* in downtime (ba::_compute_inherited_downtime, monitoring_stream.cc).    *)
(***************************************************************************)
DowntimeInherited ==
    behaviour = "inherit" =>
        /\ commands = <<>> => \A b \in {low, top} : b.inDt = b.inherited
        /\ "downtime" \notin stale => (low.inherited <=> ShouldInherit(low))

(***************************************************************************)
(* "This method was created to prevent the real values to derive to much   *)
(* from their true value" (ba.cc, _recompute): the published level is the  *)
(* one the impacts give, whatever the state source.                        *)
(***************************************************************************)
LevelTrue ==
    low.level = 100 - CountedSum(low)

(* The state of the business activities: totals without drift, and parents *)
(* that agree with their children.                                         *)
BaInv == TotalsTrue /\ ParentsAgree

=============================================================================
