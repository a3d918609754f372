-------------------------------- MODULE MCBa --------------------------------
(***************************************************************************)
(* Three computations of the bam module, each checked on its own: the      *)
(* state of business activities (Ba), the time they spend in a state       *)
(* inside a reporting period (TimePeriod), and boolean expressions         *)
(* (BoolExpression).  A behaviour is about the one that its initial state  *)
(* chooses, the others stay as they are.                                   *)
(***************************************************************************)
EXTENDS Ba, TimePeriod, BoolExpression

VARIABLE model

ASSUME ExpressionAssumption ==
    /\ MaxText \in Nat
    /\ \A i, j \in DOMAIN Services : Services[i][2] = Services[j][2] => i = j

(* The configurations of the BA "low" that TLC explores. *)
BaConfigurations ==
    {<<"impact", "inherit">>, <<"best", "ignore">>, <<"worst", "ignore">>,
     <<"ratio", "ignore">>}

(* Days of four hours: no range, the whole day, ranges that touch, overlap *)
(* or leave a hole, one that is inverted, one empty before one that passes  *)
(* midnight.                                                               *)
DayRanges ==
    {<<>>, <<<<0, 4>>>>, <<<<1, 3>>>>, <<<<2, 4>>, <<0, 2>>>>,
     <<<<0, 2>>, <<1, 3>>>>, <<<<0, 1>>, <<3, 4>>>>, <<<<3, 1>>>>,
     <<<<2, 2>>, <<3, 5>>>>}

(* Events begin on day 1: the clock changes never, before, on that day or  *)
(* on the next.                                                            *)
ClockShifts ==
    {[to |-> "none", at |-> 0]}
        \union [to : {"summer"}, at : {1, 5, 9}]
        \union [to : {"winter"}, at : {9}]

(* Two services of a host; ok, a problem that is soft, then hard. *)
TwoServices == <<<<"h", "a">>, <<"h", "b">>>>
ThreeStatuses == {Pair(0, 0), Pair(0, 2), Pair(2, 2)}

bamVars == <<model, baVars, timeVars, expVars>>

(* The expression of the behaviours that are about something else *)
NoText == BuildTree(<<>>)

BamInit ==
    /\ model \in {"ba", "time", "expression"} /\ BaInit
    /\ IF model = "ba" THEN TRUE ELSE behaviour = "ignore" /\ low.source = "ratio"
    /\ IF model = "time" THEN TRUE
       ELSE /\ ranges = [d \in 0 .. WeekLength - 1 |-> <<>>]
            /\ shift = [to |-> "none", at |-> 0]
            /\ event = [start |-> DayLength, end |-> DayLength + 1]
    /\ TimeInit
    /\ IF model = "expression" THEN ExpInit
       ELSE /\ source = NoTree /\ built = NoText /\ impactIf = 1
            /\ values = <<>> /\ cache = <<>> /\ status = <<>>
            /\ kpiEvent = NoKpiEvent /\ eventsOpened = 0

BamNext ==
    \/ model = "ba" /\ BaNext /\ UNCHANGED <<model, timeVars, expVars>>
    \/ model = "time" /\ TimeNext /\ UNCHANGED <<model, baVars, expVars>>
    \/ model = "expression" /\ ExpNext /\ UNCHANGED <<model, baVars, timeVars>>

BamSpec == BamInit /\ [][BamNext]_bamVars

-----------------------------------------------------------------------------
(* The run also checks BaInv and DowntimeInherited of Ba, in every         *)
(* behaviour.  The two others hold where their own module is at work: the  *)
(* durations of a reporting period (TimePeriod), the expressions           *)
(* (BoolExpression).                                                       *)
PeriodInv == model = "time" => SlaExact
ExpressionInv == model = "expression" => ExpressionTrue

=============================================================================
