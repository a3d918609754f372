--------------------------- MODULE BoolExpression ---------------------------
(***************************************************************************)
(* Boolean expressions of the bam module: exp_parser turns the tokens of   *)
(* an expression into postfix order, exp_builder turns that into a tree of *)
(* bool_* objects, whose binary operators cache the values of their        *)
(* operands, and every status of a service climbs the tree to kpi_boolexp. *)
(*                                                                         *)
(* An expression is given as its tokens (exp_tokenizer is left out).  An   *)
(* object is its position in the order of creation, so that operands come  *)
(* before their operator.  Values are integers: "/" has the same guards as *)
(* "%" and no model of its own, and the conversion of a NaN to an integer, *)
(* which is undefined, is only met where the value is not known.           *)
(***************************************************************************)
EXTENDS Integers, Sequences, SequencesExt

CONSTANTS
    Services,    \* sequence of host and description: hst_svc_mapping
    Statuses,    \* hard and soft states a service may report
    Connectives, \* binary operators of the expressions that users write
    Alphabet,    \* tokens of texts that may mean nothing
    MaxText      \* bound: their length

VARIABLES
    source,      \* what the text means, if it means something
    built,       \* what exp_builder makes of it
    impactIf,    \* bool_expression::_impact_if
    status,      \* the last status of each service
    values, cache, \* of the bool_service objects; of the operands kept by the
                   \* binary operators
    kpiEvent,    \* kpi_boolexp::_event: its state
    eventsOpened \* events of the KPI opened by the last step

expVars == <<source, built, impactIf, status, values, cache, kpiEvent, eventsOpened>>

-----------------------------------------------------------------------------
(***************************************************************************)
(* exp_parser: the shunting yard.                                          *)
(***************************************************************************)
Precedence ==
    [t \in {"&&", "AND", "||", "OR", "^", "XOR"} |-> 2] @@
    [t \in {"IS", "NOT", ">", ">=", "<", "<=", "==", "!="} |-> 3] @@
    [t \in {"+", "-"} |-> 4] @@ [t \in {"*", "/", "%"} |-> 5] @@
    [t \in {"-u", "!"} |-> 6]

IsOperator(t) == t \in DOMAIN Precedence

IsFunction(t) ==
    t \in {"HOSTSTATUS", "SERVICESTATUS", "METRICS", "METRIC", "AVERAGE",
           "COUNT", "MAX", "MIN", "SUM", "CALL"}

(* The operators above position k of the stack go to the output. *)
PopTo(p, k) ==
    [p EXCEPT !.out = @ \o Reverse(SubSeq(p.stack, k + 1, Len(p.stack))),
              !.stack = SubSeq(@, 1, k)]

PopToParenthesis(p) == PopTo(p, SelectLastInSeq(p.stack, LAMBDA t : t = "("))

Push(p, t) == [p EXCEPT !.stack = Append(@, t)]

ReadFunction(p, t) ==
    [Push(p, t) EXCEPT !.arity = Append(@, 1), !.unary = FALSE]

ReadComma(p) ==
    LET q == PopToParenthesis(p)
    IN IF q.stack = <<>> \/ q.arity = <<>> THEN [p EXCEPT !.error = TRUE]
       ELSE [q EXCEPT !.arity[Len(q.arity)] = @ + 1, !.unary = FALSE]

(* Mutant: operators of the same precedence are grouped from the right. *)
ReadOperatorRight(p, t) ==
    LET stays(o) == ~IsOperator(o) \/ Precedence[t] >= Precedence[o]
        q == IF p.unary /\ t = "-" THEN Push(p, "-u")
             ELSE IF p.unary /\ t \in {"NOT", "!"} THEN Push(p, "!")
             ELSE Push(PopTo(p, SelectLastInSeq(p.stack, stays)), t)
    IN [q EXCEPT !.unary = TRUE]

ReadOperator(p, t) ==
    LET stays(o) == ~IsOperator(o) \/ Precedence[t] > Precedence[o]
        q == IF p.unary /\ t = "-" THEN Push(p, "-u")
             ELSE IF p.unary /\ t \in {"NOT", "!"} THEN Push(p, "!")
             ELSE Push(PopTo(p, SelectLastInSeq(p.stack, stays)), t)
    IN [q EXCEPT !.unary = TRUE]

(* "underflow" is arity.top() of an empty stack. *)
ReadClosing(p) ==
    LET q == PopToParenthesis(p)
        r == [q EXCEPT !.stack = Front(@), !.unary = FALSE]
    IN IF q.stack = <<>> THEN [p EXCEPT !.error = TRUE]
       ELSE IF r.stack = <<>> \/ ~IsFunction(Last(r.stack)) THEN r
       ELSE IF r.arity = <<>> THEN [r EXCEPT !.underflow = TRUE]
       ELSE [r EXCEPT !.out = @ \o <<Last(r.stack), ToString(Last(r.arity))>>,
                      !.stack = Front(@), !.arity = Front(@)]

ReadToken(p, t) ==
    CASE p.error -> p
      [] ~p.error /\ IsFunction(t) -> ReadFunction(p, t)
      [] ~p.error /\ t = "," -> ReadComma(p)
      [] ~p.error /\ IsOperator(t) -> ReadOperator(p, t)
      [] ~p.error /\ t = "(" -> [Push(p, t) EXCEPT !.unary = TRUE]
      [] ~p.error /\ t = ")" -> ReadClosing(p)
      [] OTHER -> [p EXCEPT !.out = Append(@, t), !.unary = FALSE]

(* get_postfix *)
Postfix(tokens) ==
    LET start == [out |-> <<>>, stack |-> <<>>, arity |-> <<>>, unary |-> TRUE,
                  error |-> FALSE, underflow |-> FALSE]
        end == FoldLeft(ReadToken, start, tokens)
    IN IF Contains(end.stack, "(") THEN [end EXCEPT !.error = TRUE]
       ELSE PopTo(end, 0)

-----------------------------------------------------------------------------
(***************************************************************************)
(* exp_builder.  An operand is an object, or a text that is not evaluated  *)
(* yet (object 0).  Functions other than SERVICESTATUS make no object.     *)
(***************************************************************************)
Object(op, left, right, value) ==
    [op |-> op, left |-> left, right |-> right, value |-> value]

AddObject(b, o) ==
    [b EXCEPT !.objects = Append(@, o),
              !.operands = Append(@, [object |-> Len(b.objects) + 1, text |-> ""])]

Failed(b) == [b EXCEPT !.error = TRUE]

Macros ==
    [t \in {"OK", "UP"} |-> 0] @@ [t \in {"WARNING", "DOWN"} |-> 1] @@
    [t \in {"CRITICAL", "UNREACHABLE"} |-> 2] @@ [t \in {"UNKNOWN"} |-> 3]

Numbers == [t \in {"1", "2", "3", "4", "5", "6"} |->
               CHOOSE n \in 1 .. 6 : ToString(n) = t]

(* strtod and strtol of a text that is not a number: 0 *)
Number(t) == IF t \in DOMAIN Numbers THEN Numbers[t] ELSE 0

(* _pop_operand: the text becomes a bool_constant; "popped" is the object. *)
PopOperand(b) ==
    LET top == Last(b.operands)
        rest == [b EXCEPT !.operands = Front(@), !.popped = top.object]
        value == IF top.text \in DOMAIN Macros THEN Macros[top.text]
                 ELSE Number(top.text)
    IN IF b.error \/ b.operands = <<>> THEN Failed(b)
       ELSE IF top.object # 0 THEN rest
       ELSE [rest EXCEPT !.objects = Append(@, Object("constant", 0, 0, value)),
                         !.popped = Len(b.objects) + 1]

BuildOperator(b, t) ==
    LET right == PopOperand(b)
        left == PopOperand(right)
    IN CASE t = "-u" -> b
         [] t = "!" /\ ~right.error ->
                AddObject(right, Object("!", right.popped, 0, 0))
         [] t \notin {"-u", "!"} /\ ~left.error ->
                AddObject(left, Object(t, left.popped, right.popped, 0))
         [] OTHER -> Failed(b)

StaticArity ==
    [HOSTSTATUS |-> 1, SERVICESTATUS |-> 2, METRIC |-> 3, METRICS |-> 1, CALL |-> 1]

(* hst_svc_mapping::get_service_id; 0 when it is not found *)
ServiceId(host, description) ==
    SelectInSeq(Services, LAMBDA s : s = <<host, description>>)

(* A function call, once its arity has been read from the next token. *)
BuildCall(b, t) ==
    LET n == StaticArity[b.func]
        rest == Len(b.operands) - n
        args == SubSeq(b.operands, rest + 1, Len(b.operands))
        popped == [b EXCEPT !.operands = SubSeq(@, 1, rest), !.func = ""]
        id == ServiceId(args[1].text, args[2].text)
    IN IF b.func \notin DOMAIN StaticArity THEN [b EXCEPT !.func = ""]
       ELSE IF Number(t) # n \/ rest < 0 \/ \E i \in DOMAIN args : args[i].object # 0
       THEN Failed(b)
       ELSE IF b.func # "SERVICESTATUS" THEN popped
       ELSE IF id = 0 THEN Failed(b)
       ELSE AddObject(popped, Object("service", 0, 0, id))

BuildToken(b, t) ==
    CASE b.error -> b
      [] ~b.error /\ b.func # "" -> BuildCall(b, t)
      [] ~b.error /\ b.func = "" /\ IsOperator(t) -> BuildOperator(b, t)
      [] ~b.error /\ b.func = "" /\ IsFunction(t) -> [b EXCEPT !.func = t]
      [] OTHER -> [b EXCEPT !.operands =
                      Append(@, [object |-> 0, text |-> t])]

(* The parser and the builder; the root of the tree is "popped". *)
BuildTree(tokens) ==
    LET p == Postfix(tokens)
        start == [objects |-> <<>>, operands |-> <<>>, func |-> "", popped |-> 0,
                  error |-> p.error, underflow |-> p.underflow]
        end == FoldLeft(BuildToken, start, p.out)
        last == PopOperand(end)
    IN IF end.func # "" \/ last.error \/ last.operands # <<>>
       THEN [Failed(last) EXCEPT !.objects = <<>>, !.operands = <<>>]
       ELSE last

-----------------------------------------------------------------------------
(***************************************************************************)
(* The values of the objects: bool_and, bool_or, bool_xor, bool_equal,     *)
(* bool_not_equal, bool_less_than, bool_more_than, bool_operation.         *)
(***************************************************************************)
NaN == 1000
Bool(b) == IF b THEN 1 ELSE 0
Abs(x) == IF x < 0 THEN -x ELSE x
Remainder(l, r) == IF l < 0 THEN -(Abs(l) % Abs(r)) ELSE l % Abs(r)

Operation(op, l, r) ==
    CASE op \in {"AND", "&&"} -> Bool(l # 0 /\ r # 0)
      [] op \in {"OR", "||"} -> Bool(l # 0 \/ r # 0)
      [] op \in {"XOR", "^"} -> Bool((l # 0) # (r # 0))
      [] op \in {"+", "-", "*", "%"} /\ NaN \in {l, r} -> NaN
      [] op \in {"IS", "==", "NOT", "!=", "<", ">", "<=", ">="}
             /\ NaN \in {l, r} -> 0
      [] op \in {"IS", "=="} -> Bool(l = r)
      [] op \in {"NOT", "!="} -> Bool(l # r)
      [] op = "<" -> Bool(l < r)
      [] op = ">" -> Bool(l > r)
      [] op = "<=" -> Bool(l <= r)
      [] op = ">=" -> Bool(l >= r)
      [] op = "+" -> l + r
      [] op = "-" -> l - r
      [] op = "*" -> l * r
      [] op = "%" -> IF r = 0 THEN NaN ELSE Remainder(l, r)

Pair(hard, soft) == [hard |-> hard, soft |-> soft]
Zero == Pair(0, 0)
Both(op, l, r) == Pair(Operation(op, l.hard, r.hard), Operation(op, l.soft, r.soft))
Negated(v) == Pair(Bool(v.hard = 0), Bool(v.soft = 0))

(* value_hard and value_soft of each object: binary operators read their   *)
(* cache, bool_not its operand.                                            *)
Values(objects, l, c) ==
    LET v[i \in 1 .. Len(objects)] ==
            LET o == objects[i]
            IN CASE o.op = "service" -> Pair(l[i].hard, l[i].soft)
                 [] o.op = "constant" -> Pair(o.value, o.value)
                 [] o.op = "!" -> Negated(v[o.left])
                 [] OTHER -> Both(o.op, c[i].left, c[i].right)
    IN v

(* state_known of each object *)
Known(objects, l, c) ==
    LET k[i \in 1 .. Len(objects)] ==
            LET o == objects[i]
            IN CASE o.op = "service" -> l[i].known
                 [] o.op = "constant" -> TRUE
                 [] o.op = "!" -> k[o.left]
                 [] OTHER -> /\ k[o.left] /\ k[o.right]
                             /\ o.op = "%" => 0 \notin {c[i].right.hard,
                                                        c[i].right.soft}
    IN k

(* set_left and set_right read the operands when the objects are made. *)
FirstCache(objects) ==
    LET none == [i \in DOMAIN objects |-> Pair(0, 0)]
        fill(c, i) ==
            LET o == objects[i]
                v == Values(objects, none, c)
            IN IF o.right = 0 THEN Append(c, [left |-> Zero, right |-> Zero])
               ELSE Append(c, [left |-> v[o.left], right |-> v[o.right]])
    IN FoldLeftDomain(fill, <<>>, objects)

-----------------------------------------------------------------------------
(***************************************************************************)
(* bool_binary_operator::child_has_update.  The test of the soft value of  *)
(* the right operand is inverted: a change of it alone is not seen.        *)
(***************************************************************************)
Refreshed(kept, left, v) ==
    IF left THEN [kept EXCEPT !.left = v]
    ELSE IF kept.right.hard # v.hard \/ kept.right.soft = v.soft
    THEN [kept EXCEPT !.right = v] ELSE kept

(* computable::propagate_update from object i to the root *)
Climb(objects, l, c, i) ==
    LET up[j \in i .. Len(objects)] ==
            LET acc == up[j - 1]
                o == objects[j]
                child == IF o.left \in acc.touched THEN o.left ELSE o.right
                v == Values(objects, l, acc.cache)
            IN IF j = i THEN [touched |-> {i}, cache |-> c]
               ELSE IF child \notin acc.touched THEN acc
               ELSE [touched |-> acc.touched \union {j},
                     cache |-> IF o.op = "!" THEN acc.cache
                               ELSE [acc.cache EXCEPT ![j] =
                                       Refreshed(@, child = o.left, v[child])]]
    IN up[Len(objects)].cache

NoKpiEvent == -1

(* kpi_boolexp::_get_state, bool_expression::get_state *)
StateOf(b, impact, l, c, e) ==
    IF Known(b.objects, l, c)[b.popped] \/ e = NoKpiEvent
    THEN IF Values(b.objects, l, c)[b.popped].hard = impact THEN 2 ELSE 0
    ELSE e

(* kpi_boolexp::visit opens an event when the state is another. *)
Visited(kpi, b, impact) ==
    LET state == StateOf(b, impact, kpi.values, kpi.cache, kpi.kpiEvent)
    IN IF state = kpi.kpiEvent THEN kpi
       ELSE [kpi EXCEPT !.kpiEvent = state, !.eventsOpened = @ + 1]

Told(id) == [hard |-> status'[id].hard, soft |-> status'[id].soft, known |-> TRUE]

(* service_book::update: the objects of that service one after the other,  *)
(* in the order of creation; each runs up to the KPI.                      *)
StatusTold(id, s) ==
    LET update[i \in 0 .. Len(built.objects)] ==
            LET kpi == update[i - 1]
                l == [kpi.values EXCEPT ![i] = Told(id)]
                c == Climb(built.objects, l, kpi.cache, i)
                o == built.objects[i]
            IN IF i = 0 THEN [values |-> values, cache |-> cache,
                              kpiEvent |-> kpiEvent, eventsOpened |-> 0]
               ELSE IF o.op # "service" \/ o.value # id THEN kpi
               ELSE Visited([kpi EXCEPT !.values = l, !.cache = c], built, impactIf)
        after == update[Len(built.objects)]
    IN /\ ~built.error
       /\ status' = [status EXCEPT ![id] = [hard |-> s.hard, soft |-> s.soft,
                                            known |-> TRUE]]
       /\ values' = after.values /\ cache' = after.cache
       /\ kpiEvent' = after.kpiEvent /\ eventsOpened' = after.eventsOpened
       /\ UNCHANGED <<source, built, impactIf>>

Untold == [hard |-> 0, soft |-> 0, known |-> FALSE]

(* The objects as the builder leaves them, and the first visit of the KPI. *)
Fresh(b, impact, e) ==
    LET new == [values |-> [i \in DOMAIN b.objects |-> Untold],
                cache |-> FirstCache(b.objects),
                kpiEvent |-> e, eventsOpened |-> 0]
    IN IF b.error THEN new ELSE Visited(new, b, impact)

Started(b, impact, e) ==
    LET new == Fresh(b, impact, e)
    IN /\ values' = new.values /\ cache' = new.cache
       /\ kpiEvent' = new.kpiEvent /\ eventsOpened' = new.eventsOpened
       /\ status' = [id \in DOMAIN Services |-> Untold]

(***************************************************************************)
(* applier::bool_expression::apply with a configuration that changes       *)
(* _impact_if: new objects that know nothing; the KPI and its event stay.  *)
(***************************************************************************)
ReloadExpression ==
    /\ ~built.error
    /\ impactIf' = 1 - impactIf
    /\ Started(built, impactIf', kpiEvent)
    /\ UNCHANGED <<source, built>>

-----------------------------------------------------------------------------
(***************************************************************************)
(* What users write.  A tree is an operator and its operands; its text has *)
(* the parentheses that the usual binding of operators asks for: negation  *)
(* binds most, then products, sums, comparisons and logic, from the left.  *)
(***************************************************************************)
Tree(op, args) == [op |-> op, args |-> args]
NoTree == Tree("none", <<>>)

ServiceName(id) == Services[id][2]
Leaves == {Tree(ServiceName(id), <<>>) : id \in DOMAIN Services}
              \union {Tree("CRITICAL", <<>>)}
Combined(L, R) == {Tree(op, <<l, r>>) : op \in Connectives, l \in L, r \in R}
Negations(T) == {Tree("!", <<t>>) : t \in T}
Small == Leaves \union Negations(Leaves) \union Combined(Leaves, Leaves)
Other == {Tree(ServiceName(Len(Services)), <<>>)}
Trees == Small \union Negations(Small) \union Combined(Small, Other)
               \union Combined(Other, Small)

Binding == <<{"AND", "OR", "XOR", "&&", "||", "^"},
             {"IS", "NOT", "==", "!=", "<", ">", "<=", ">="},
             {"+", "-"}, {"*", "/", "%"}, {"!"}>>
Bound(t) == IF t.args = <<>> THEN 6
            ELSE CHOOSE n \in DOMAIN Binding : t.op \in Binding[n]

Enclosed(text) == <<"(">> \o text \o <<")">>

Text[t \in Trees] ==
    LET operand(i, least) == IF Bound(t.args[i]) >= least THEN Text[t.args[i]]
                             ELSE Enclosed(Text[t.args[i]])
        id == SelectInSeq(Services, LAMBDA s : s[2] = t.op)
    IN CASE Len(t.args) = 2 ->
                operand(1, Bound(t)) \o <<t.op>> \o operand(2, Bound(t) + 1)
         [] Len(t.args) = 1 -> <<t.op>> \o operand(1, Bound(t))
         [] Len(t.args) = 0 /\ id # 0 ->
                <<"SERVICESTATUS", "(", Services[id][1], ",", Services[id][2], ")">>
         [] OTHER -> <<t.op>>

(* The meaning of a tree when the services are in the states of "status". *)
Meaning ==
    LET m[t \in Trees] ==
            LET l == m[t.args[1]]
                r == m[t.args[2]]
                id == SelectInSeq(Services, LAMBDA s : s[2] = t.op)
            IN CASE Len(t.args) = 2 ->
                        [known |-> /\ l.known /\ r.known
                                   /\ t.op = "%" => 0 \notin {r.value.hard,
                                                              r.value.soft},
                         value |-> Both(t.op, l.value, r.value)]
                 [] Len(t.args) = 1 ->
                        [known |-> l.known, value |-> Negated(l.value)]
                 [] Len(t.args) = 0 /\ id # 0 ->
                        [known |-> status[id].known,
                         value |-> Pair(status[id].hard, status[id].soft)]
                 [] OTHER -> [known |-> TRUE, value |-> Pair(2, 2)]
    IN m[source]

ExpInit ==
    /\ \/ source \in Trees /\ built = BuildTree(Text[source])
       \/ source = NoTree
          /\ \E n \in 0 .. MaxText : \E text \in [1 .. n -> Alphabet] :
                built = BuildTree(text)
    /\ impactIf = 1
    /\ \E e \in {NoKpiEvent, 0} :
          LET new == Fresh(built, 1, e)
          IN /\ values = new.values /\ cache = new.cache
             /\ kpiEvent = new.kpiEvent /\ eventsOpened = new.eventsOpened
    /\ status = [id \in DOMAIN Services |-> Untold]

ExpNext ==
    \/ \E id \in DOMAIN Services, s \in Statuses : StatusTold(id, s)
    \/ ReloadExpression

ExpSpec == ExpInit /\ [][ExpNext]_expVars

-----------------------------------------------------------------------------
ExpTypeOK ==
    /\ impactIf \in {0, 1} /\ kpiEvent \in {NoKpiEvent, 0, 2} /\ eventsOpened \in Nat
    /\ DOMAIN values = DOMAIN built.objects /\ DOMAIN cache = DOMAIN built.objects

\* The text of an expression that means something is understood as it is meant,
\* whatever the parentheses that were left out.
Understood == source # NoTree => ~built.error

\* Any other text is refused or gives one tree: each object has one parent and
\* the root has none; the stack of arities is never read when it is empty.
OneTree ==
    LET parents(i) == {j \in DOMAIN built.objects :
                          i \in {built.objects[j].left, built.objects[j].right}}
    IN /\ ~built.underflow
       /\ ~built.error =>
             \A i \in DOMAIN built.objects :
                IF i = built.popped THEN parents(i) = {}
                ELSE \E j \in DOMAIN built.objects : parents(i) = {j}

(* No binary operator has missed a change of the soft value on its right. *)
SoftCurrent ==
    \A i \in DOMAIN built.objects :
        LET o == built.objects[i]
        IN o.right # 0 => cache[i].right = Values(built.objects, values, cache)[o.right]

\* The value of the tree, computed from values that each operator has kept, is
\* the value of the expression for the last status of every service, and the
\* event of the KPI has that state, once all the services are known.
Evaluated ==
    source # NoTree /\ Meaning.known =>
        /\ Values(built.objects, values, cache)[built.popped].hard = Meaning.value.hard
        /\ SoftCurrent =>
              kpiEvent = (IF Meaning.value.hard = impactIf THEN 2 ELSE 0)

\* Expressions are parsed, built and kept up to date as they are written.
ExpressionTrue == ExpTypeOK /\ Understood /\ OneTree /\ Evaluated

\* "If state changed, close event and open a new one": one status opens at most
\* one event.  Not so when a service occurs twice in the expression: the KPI is
\* visited between the two objects of the service.
OneEventPerStatus == eventsOpened <= 1

\* "Check operation members values": the expression is known when its services
\* are and no divisor is zero.  Not so after a change of the soft state alone.
KnownWhenTold ==
    source # NoTree =>
        Known(built.objects, values, cache)[built.popped] = Meaning.known
=============================================================================
