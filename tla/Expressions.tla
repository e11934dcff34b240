----------------------------- MODULE Expressions -----------------------------
(***************************************************************************)
(* niadra-expr (state/expr.py, state/logic.py): the conditions, timers and *)
(* readings of the type registry. An expression is a syntax tree; it is    *)
(* compiled against what its type declares, and evaluated over the slots   *)
(* of one object at one instant, which is what changes here. The text it is*)
(* parsed from is module ExprSyntax.                                       *)
(***************************************************************************)
EXTENDS ExprSyntax, FiniteSets, FiniteSetsExt, TLC

CONSTANTS
    Exprs,       \* the expressions that a type declares
    Scope,       \* Scope: fields (with their kind), values, absences, inputs, states, sources
    Readings,    \* what a source may report of each field: a set of values
    Context,     \* the rest of Environment: meta, config, quotes, rank, calendars
    Holidays, Weekend,           \* of the calendar: days, days of the week
    DayTicks, Offset,            \* DAY_MS, and utc_offset_min in the same unit
    FirstDay, LastDay,           \* the years 1 to 9999
    MaxList, MaxDays,            \* MAX_LIST, MAX_BUSINESS_DAYS
    MaxReadings, MaxTicks        \* bounds

ASSUME ExpressionsAssumption ==
    /\ {DayTicks, MaxReadings, MaxTicks, MaxList, MaxDays} \subseteq Nat /\ DayTicks > 0
    /\ FirstDay < LastDay /\ DOMAIN Readings \subseteq DOMAIN Scope.fields

VARIABLES
    expr,      \* the expression
    fields,    \* Environment.fields: the slots observed so far
    now,       \* Environment.now
    value,     \* what evaluate() gave of it
    readings   \* how many values were reported

vars == <<expr, fields, now, value, readings>>

-----------------------------------------------------------------------------
(* Logic *)

\* ExprError: a value of the wrong kind, one out of its domain (both `expr_type`), a bound exceeded
Fails(code) == [Value("none", 0) EXCEPT !.logic = "fails", !.absent = code]
Failed(v) == v.logic = "fails"
WrongKind == Fails("wrong_kind")
OutOfDomain == Fails("out_of_domain")

Known(v) == v.logic \in {"yes", "no"}
IsAbsent(v) == v.logic = "no" /\ v.kind = "none"
IsTrue(v) == v = Boolean(TRUE)

\* unknown_of: a known defect says more than a missing observation; "known" when all are
UnknownOf(vs) ==
    LET logics == {v.logic : v \in vs}
    IN  IF "known_defect" \in logics THEN "known_defect"
        ELSE IF "unobserved" \in logics THEN "unobserved" ELSE "known"

\* the first of the operands, left to right, that raises; else the unknown they carry; else the result
Of(operands, result) ==
    LET raised == SelectInSeq(operands, Failed)
        pending == UnknownOf(ToSet(operands))
    IN  IF raised # 0 THEN operands[raised] ELSE IF pending # "known" THEN Unknown(pending) ELSE result

\* a list is read only up to MAX_LIST
WithinList(vs, result) == IF \E v \in vs : Len(v.items) > MaxList THEN Fails("limit") ELSE result

-----------------------------------------------------------------------------
(* Time *)

Instant(ms) ==
    IF ms \in FirstDay * DayTicks .. (LastDay + 1) * DayTicks - 1 THEN Value("datetime", ms) ELSE OutOfDomain

\* _as_ms: a date is the start of its day at the offset
AsMs(v) == IF v.kind = "date" THEN v.num * DayTicks - Offset ELSE v.num

IsBusinessDay(day) == day % 7 \notin Weekend /\ day \notin Holidays

\* _shift_business_days
RECURSIVE ShiftFrom(_, _, _)
ShiftFrom(day, count, step) ==
    IF count = 0 THEN Value("date", day)
    ELSE IF day + step \notin FirstDay .. LastDay THEN OutOfDomain
    ELSE ShiftFrom(day + step, IF IsBusinessDay(day + step) THEN count - 1 ELSE count, step)

Shift(day, count, step) == ShiftFrom(day, count, step)

-----------------------------------------------------------------------------
(* Operators *)

Ordered == {"number", "string", "duration", "date", "datetime"}
Times == {"date", "datetime"}

\* _arith of two known, present values
ArithKnown(op, l, r) ==
    LET sign == IF op = "+" THEN 1 ELSE -1
    IN  CASE l.kind = r.kind /\ l.kind \in {"number", "duration"} -> Value(l.kind, l.num + sign * r.num)
          [] op = "+" /\ l.kind = "duration" /\ r.kind \in Times -> Instant(AsMs(r) + l.num)
          [] op = "+" /\ l.kind = "business_days" /\ r.kind = "date" -> Shift(r.num, l.num, 1)
          [] l.kind \in Times /\ r.kind = "duration" -> Instant(AsMs(l) + sign * r.num)
          [] l.kind = "date" /\ r.kind = "business_days" -> Shift(l.num, r.num, sign)
          [] op = "-" /\ l.kind \in Times /\ r.kind \in Times -> Value("duration", AsMs(l) - AsMs(r))
          [] OTHER -> WrongKind

Arith(op, l, r) ==
    Of(<<l, r>>, IF IsAbsent(l) \/ IsAbsent(r) THEN Absent("") ELSE ArithKnown(op, l, r))

\* _order: how the one compares with the other, as a number
Order(l, r) ==
    CASE {l.kind, r.kind} = Times -> Value("number", AsMs(l) - AsMs(r))
      [] l.kind = r.kind /\ l.kind \in Ordered -> Value("number", l.num - r.num)
      [] OTHER -> WrongKind

\* _equal of two known values; a bug: lists of unknowns are compared as they stand
RECURSIVE Equal(_, _), EqualItems(_, _)
EqualItems(a, b) ==
    LET each == [i \in DOMAIN a |-> Of(<<a[i], b[i]>>, Equal(a[i], b[i]))]
        raised == SelectInSeq(each, Failed)
    IN  IF Len(a) # Len(b) THEN Boolean(FALSE)
        ELSE IF raised # 0 THEN each[raised]
        ELSE IF Boolean(FALSE) \in ToSet(each) THEN Boolean(FALSE)
        ELSE Of(each, Boolean(TRUE))

Equal(l, r) ==
    IF IsAbsent(l) \/ IsAbsent(r)
    THEN Boolean(IsAbsent(l) /\ IsAbsent(r) /\ (l.absent = "" \/ r.absent = "" \/ l.absent = r.absent))
    ELSE IF l.kind = "list" /\ r.kind = "list" THEN WithinList({l, r}, EqualItems(l.items, r.items))
    ELSE IF l.kind = "bool" /\ r.kind = "bool" THEN Boolean(l.num = r.num)
    ELSE LET order == Order(l, r) IN IF Failed(order) THEN order ELSE Boolean(order.num = 0)

\* _contains: the first element that is the item, or that cannot be compared with it; a bug: an element that
\* nobody observed is not the item
ContainedObserved(list, item) ==
    LET each == [i \in DOMAIN list.items |-> Of(<<list.items[i]>>, Equal(item, list.items[i]))]
        ends == SelectInSeq(each, LAMBDA v : Failed(v) \/ IsTrue(v))
    IN  IF IsAbsent(list) \/ IsAbsent(item) THEN Boolean(FALSE)
        ELSE IF list.kind # "list" THEN WrongKind
        ELSE IF ends # 0 THEN each[ends] ELSE Boolean(FALSE)

Contained(list, item) ==
    LET each == [i \in DOMAIN list.items |-> Of(<<list.items[i]>>, Equal(item, list.items[i]))]
        ends == SelectInSeq(each, LAMBDA v : Failed(v) \/ IsTrue(v))
    IN  IF IsAbsent(list) \/ IsAbsent(item) THEN Boolean(FALSE)
        ELSE IF list.kind # "list" THEN WrongKind
        ELSE WithinList({list}, IF ends # 0 THEN each[ends] ELSE Of(each, Boolean(FALSE)))

\* what a comparison says of the order of its sides
Holds(op, order) ==
    CASE op = "<" -> order < 0 [] op = "<=" -> order <= 0 [] op = ">" -> order > 0 [] op = ">=" -> order >= 0

CompareKnown(op, l, r) ==
    IF op \in {"==", "!="}
    THEN LET equal == Equal(l, r)
         IN  IF Failed(equal) \/ ~Known(equal) THEN equal ELSE Boolean(IsTrue(equal) <=> op = "==")
    ELSE IF op = "in" THEN Contained(r, l)
    ELSE IF IsAbsent(l) \/ IsAbsent(r) THEN Boolean(FALSE)
    ELSE LET order == Order(l, r) IN IF Failed(order) THEN order ELSE Boolean(Holds(op, order.num))

Compare(op, l, r) == Of(<<l, r>>, CompareKnown(op, l, r))

\* truth(): what a condition may be
Truth(v) == IF Failed(v) \/ ~Known(v) \/ v.kind = "bool" THEN v ELSE WrongKind

\* bool_op: the first operand that decides, or raises, stops the evaluation
BoolOp(op, operands) ==
    LET truths == [i \in DOMAIN operands |-> Truth(operands[i])]
        decisive == Boolean(op = "or")
        ends == SelectInSeq(truths, LAMBDA v : Failed(v) \/ v = decisive)
    IN  IF ends # 0 THEN truths[ends] ELSE Of(truths, Boolean(op = "and"))

Negation(v) == LET truth == Truth(v) IN IF Failed(truth) \/ ~Known(truth) THEN truth ELSE Boolean(~IsTrue(truth))

-----------------------------------------------------------------------------
(* Evaluation, over env: the slots and the instant *)

Nothing == Unknown("nothing")

\* _slot_value
SlotValue(slot, previous) ==
    IF ~previous THEN slot.value ELSE IF slot.was = Nothing THEN Unobserved ELSE slot.was

NameValue(parts, env, previous) ==
    CASE Len(parts) = 1 /\ parts[1] \in DOMAIN Context.meta -> Context.meta[parts[1]]
      [] parts \in DOMAIN env.fields -> SlotValue(env.fields[parts], previous)
      [] Len(parts) = 1 -> IF parts[1] \in Scope.absences THEN Absent(parts[1]) ELSE Unobserved
      [] parts[1] = "config" -> IF parts \in DOMAIN Context.config THEN Context.config[parts] ELSE Absent("")
      [] Tail(parts) = <<"completeness">> /\ <<parts[1]>> \in DOMAIN env.fields ->
            LET level == env.fields[<<parts[1]>>].completeness
            IN  IF previous \/ level = Nothing THEN Absent("") ELSE level
      [] OTHER -> Unobserved

MemberOf(target, name) ==
    IF Failed(target) \/ ~Known(target) THEN target
    ELSE IF target.kind # "quote" THEN WrongKind
    ELSE LET quote == Context.quotes[target.absent]
         IN  IF name \in DOMAIN quote THEN quote[name] ELSE Unobserved

CountOf(v) ==
    IF Failed(v) \/ ~Known(v) THEN v
    ELSE IF IsAbsent(v) THEN Value("number", 0)
    ELSE IF v.kind # "list" THEN WrongKind
    ELSE WithinList({v}, Value("number", 2 * Len(v.items)))

Whole(v) == v.num % 2 = 0

BusinessDays(count, calendar) ==
    IF Failed(count) \/ ~Known(count) THEN count
    ELSE IF IsAbsent(count) THEN Absent("")
    ELSE IF count.kind # "number" THEN WrongKind
    ELSE IF ~Whole(count) \/ count.num < 0 THEN OutOfDomain
    ELSE IF count.num \div 2 > MaxDays THEN Fails("limit")
    ELSE IF calendar \notin Context.calendars \/ Cardinality(Weekend) >= 7 THEN OutOfDomain
    ELSE Value("business_days", count.num \div 2)

\* _sha256: a string that tells its arguments apart
Sha256(values) ==
    LET each == [i \in DOMAIN values |->
                    IF values[i].kind \in {"list", "business_days", "quote"} THEN WrongKind
                    ELSE IF values[i].kind = "number" /\ ~Whole(values[i]) THEN OutOfDomain ELSE values[i]]
        raised == SelectInSeq(each, Failed)
    IN  Of(values, IF \E i \in DOMAIN values : IsAbsent(values[i]) THEN Absent("")
                   ELSE IF raised # 0 THEN each[raised]
                   ELSE Value("string", FoldLeft(LAMBDA code, v : 100 * code + v.num, 1, values)))

RECURSIVE Eval(_, _, _), EvalAll(_, _, _)

EvalAll(nodes, env, previous) ==
    IF nodes = <<>> THEN <<>>
    ELSE <<Eval(Head(nodes), env, previous)>> \o EvalAll(Tail(nodes), env, previous)

\* the functions that read a slot, or nothing of the object
CallValue(node, env, previous) ==
    LET Arg(i) == Eval(node.args[i], env, previous)
        seen == node.args[1].parts \in DOMAIN env.fields
        slot == env.fields[node.args[1].parts]
    IN  CASE node.function = "now" -> Value("datetime", env.now)
          [] node.function = "age" ->
                IF seen THEN Value("duration", IF env.now > slot.at THEN env.now - slot.at ELSE 0) ELSE Unobserved
          [] node.function = "observer" -> IF seen THEN slot.observer ELSE Absent("")
          [] node.function = "changed" -> Boolean(seen /\ slot.was # Nothing /\ slot.was # slot.value)
          [] node.function = "was" -> Eval(node.args[1], env, TRUE)
          [] node.function = "count" -> CountOf(Arg(1))
          [] node.function = "business_days" -> BusinessDays(Arg(1), node.args[2].parts)
          [] node.function = "quote" ->
                IF node.args[1].parts[1] \in DOMAIN Context.quotes
                THEN [Value("quote", 0) EXCEPT !.absent = node.args[1].parts[1]] ELSE Unobserved
          [] node.function = "presented_in_top" ->
                Boolean(Context.rank # 0 /\ 2 * Context.rank <= node.args[1].value.num)
          [] node.function = "sha256" ->
                LET values == EvalAll(node.args, env, previous) IN Sha256(values)

\* a bug: was() is forgotten inside a function
CallValueNow(node, env, previous) == CallValue(node, env, FALSE)

EvalCall(node, env, previous) == CallValue(node, env, previous)

\* compare(): with a logical word it asks for the logic of the other side, which is always known
EvalCompare(node, env, previous) ==
    LET words == {side \in {node.left, node.right} : side.node = "word"}
        word == IF node.left.node = "word" THEN node.left ELSE node.right
        other == Eval(IF node.left.node = "word" THEN node.right ELSE node.left, env, previous)
    IN  IF words = {} THEN Compare(node.op, Eval(node.left, env, previous), Eval(node.right, env, previous))
        ELSE IF Failed(other) THEN other
        ELSE Boolean((other.logic = word.logic) <=> node.op = "==")

Eval(node, env, previous) ==
    LET each == EvalAll(node.args, env, previous)
        raised == SelectInSeq(each, Failed)
    IN  CASE node.node = "lit" -> node.value
          [] node.node = "name" -> NameValue(node.parts, env, previous)
          [] node.node = "member" -> MemberOf(Eval(node.target, env, previous), node.name)
          [] node.node = "call" -> EvalCall(node, env, previous)
          [] node.node = "list" -> IF raised # 0 THEN each[raised] ELSE Listed(each)
          [] node.node = "not" -> Negation(Eval(node.operand, env, previous))
          [] node.node = "boolop" -> BoolOp(node.op, each)
          [] node.node = "compare" -> EvalCompare(node, env, previous)
          [] node.node = "arith" -> Arith(node.op, Eval(node.left, env, previous), Eval(node.right, env, previous))
          [] OTHER -> Fails("unknown_syntax")

\* evaluate(): a business-day count or a quote is a step, never a result
Evaluate(node, env) ==
    LET given == Eval(node, env, FALSE)
    IN  IF given.kind \in {"business_days", "quote"} THEN WrongKind ELSE given

-----------------------------------------------------------------------------
(* Resolution against the declarations of a type: the kind of a node, "any", or "invalid" *)

NameKind(parts) ==
    IF Len(parts) = 1
    THEN CASE parts[1] \in DOMAIN Context.meta -> IF parts[1] = "watch_count" THEN "number" ELSE "string"
           [] parts \in DOMAIN Scope.fields -> Scope.fields[parts]
           [] parts[1] \in Scope.values \cup Scope.absences -> "any"
           [] parts[1] \in Scope.states \cup DOMAIN Scope.sources \cup {"config"} -> "invalid"
           [] OTHER -> "any"
    ELSE CASE parts \in Scope.inputs \/ parts[1] = "config" -> "any"
           [] /\ Len(parts) = 2 /\ parts[2] = "completeness"
              /\ <<parts[1]>> \in DOMAIN Scope.fields /\ parts[1] \in Scope.completeness -> "string"
           [] OTHER -> "invalid"

\* reference(): what age(), observer() and changed() take
Referable(parts) ==
    IF Len(parts) > 1 THEN parts \in Scope.inputs
    ELSE parts[1] \notin DOMAIN Context.meta \cup Scope.absences \cup Scope.states \cup DOMAIN Scope.sources

\* _ARITH, of two kinds; a bug: a day later is a date again
ArithKindOf(op, left, right) ==
    CASE left = right /\ left \in {"number", "duration"} -> left
      [] left \in Times /\ right = "duration" -> "datetime"
      [] op = "+" /\ left = "duration" /\ right \in Times -> "datetime"
      [] left = "date" /\ right = "business_days" -> "date"
      [] op = "+" /\ left = "business_days" /\ right = "date" -> "date"
      [] op = "-" /\ left \in Times /\ right \in Times -> "duration"
      [] OTHER -> "invalid"

ArithKindKept(op, left, right) ==
    IF left \in Times /\ right = "duration" THEN left ELSE ArithKindOf(op, left, right)

ArithKind(op, left, right) == ArithKindOf(op, left, right)

\* _comparable; a bug: booleans and lists are left out
ComparableOrdered(op, left, right) ==
    (left = right /\ left \in Ordered) \/ {left, right} = Times

Comparable(op, left, right) ==
    \/ left = right /\ (left \in Ordered \/ (op \in {"==", "!="} /\ left \in {"bool", "list"}))
    \/ {left, right} = Times

RECURSIVE KindOf(_)

CallKind(node) ==
    LET kinds == [i \in DOMAIN node.args |-> KindOf(node.args[i])]
        If(fits, kind) == IF fits THEN kind ELSE "invalid"
        parts == node.args[1].parts
    IN  CASE node.function = "age" -> If(Referable(parts), "duration")
          [] node.function = "observer" -> If(Referable(parts), "string")
          [] node.function = "changed" -> If(Referable(parts), "bool")
          [] node.function = "quote" ->
                If(parts[1] \in DOMAIN Scope.sources /\ Scope.sources[parts[1]] = "quote", "quote")
          [] node.function = "business_days" -> If(kinds[1] \in {"any", "number"}, "business_days")
          [] node.function = "count" -> If(kinds[1] \in {"any", "list"}, "number")
          [] node.function = "sha256" ->
                If(ToSet(kinds) \cap {"invalid", "list", "business_days", "quote"} = {}, "string")
          [] node.function = "was" -> kinds[1]
          [] node.function = "now" -> "datetime"
          [] node.function = "presented_in_top" -> "bool"

CompareKind(node) ==
    LET kinds == {KindOf(side) : side \in {s \in {node.left, node.right} : s.node # "word"}}
        left == KindOf(node.left)
        right == KindOf(node.right)
    IN  IF "invalid" \in kinds THEN "invalid"
        ELSE IF "any" \in kinds \/ node.left.node = "word" \/ node.right.node = "word" THEN "bool"
        ELSE IF node.op = "in" THEN IF right = "list" THEN "bool" ELSE "invalid"
        ELSE IF Comparable(node.op, left, right) THEN "bool" ELSE "invalid"

KindOf(node) ==
    LET kinds == {KindOf(node.args[i]) : i \in DOMAIN node.args}
    IN  CASE node.node = "lit" -> IF node.value.kind = "none" THEN "any" ELSE node.value.kind
          [] node.node = "name" -> NameKind(node.parts)
          [] node.node = "member" -> IF KindOf(node.target) = "quote" THEN "any" ELSE "invalid"
          [] node.node = "call" -> CallKind(node)
          [] node.node = "list" -> IF "invalid" \in kinds THEN "invalid" ELSE "list"
          [] node.node = "not" -> IF KindOf(node.operand) \in {"any", "bool"} THEN "bool" ELSE "invalid"
          [] node.node = "boolop" -> IF kinds \subseteq {"any", "bool"} THEN "bool" ELSE "invalid"
          [] node.node = "compare" -> CompareKind(node)
          [] node.node = "arith" ->
                LET l == KindOf(node.left)
                    r == KindOf(node.right)
                IN  IF "invalid" \in {l, r} THEN "invalid" ELSE IF "any" \in {l, r} THEN "any" ELSE ArithKind(node.op, l, r)
          [] OTHER -> "invalid"

\* compile_expression(): the kind of what it gives, or "invalid"
Compiled(node, expect) ==
    LET kind == IF Placed(node, FALSE) THEN KindOf(node) ELSE "invalid"
        fits == CASE expect = "any" -> kind \notin {"business_days", "quote"}
                  [] expect = "condition" -> kind \in {"any", "bool"}
                  [] expect = "time" -> kind \in {"any"} \cup Times
    IN  IF fits THEN kind ELSE "invalid"

-----------------------------------------------------------------------------
(* The object: its sources report, and time passes *)

Env == [fields |-> fields, now |-> now]

Init ==
    /\ expr \in Exprs /\ fields = <<>> /\ now = 2 * DayTicks /\ readings = 0
    /\ value = Evaluate(expr, Env)

\* the expression is read again, over what the object is now
Read(env) ==
    /\ fields' = env.fields /\ now' = env.now
    /\ value' = Evaluate(expr, env)
    /\ UNCHANGED expr

\* the slot of a field: its value before the latest change is kept
Reported(name, reported) ==
    [value |-> reported, at |-> now, observer |-> Value("string", 7),
     was |-> IF name \notin DOMAIN fields THEN Nothing
             ELSE IF fields[name].value = reported THEN fields[name].was ELSE fields[name].value,
     completeness |-> IF name[1] \in Scope.completeness THEN Value("string", 8) ELSE Nothing]

Report(name, reported) ==
    /\ readings < MaxReadings /\ readings' = readings + 1
    /\ Read([fields |-> (name :> Reported(name, reported)) @@ fields, now |-> now])

Tick ==
    /\ now < 2 * DayTicks + MaxTicks
    /\ Read([fields |-> fields, now |-> now + 1])
    /\ UNCHANGED readings

Next == Tick \/ \E name \in DOMAIN Readings : \E reported \in Readings[name] : Report(name, reported)

Spec == Init /\ [][Next]_vars

-----------------------------------------------------------------------------
(* Properties *)

\* "Small, deterministic and total": a text reads as the tree it was written from, unless it nests too deep or
\* the tree may not stand; and a text that lacks a token of it, when it is read at all, reads as a tree whose
\* own text it is, up to brackets.
ReadsItsText ==
    readings = 0 /\ now = 2 * DayTicks =>
        LET text == TextOf(expr)
            found == Parse(text)
        IN  /\ IF Depth(text) > MaxNesting THEN found.code = "limit"
               ELSE IF Placed(expr, FALSE) THEN Ok(found) /\ TreeOf(found) = expr ELSE found.code = "invalid"
            /\ \A i \in DOMAIN text :
                   LET less == Parse(RemoveAt(text, i))
                   IN  Ok(less) => Bare(TextOf(TreeOf(less))) = Bare(RemoveAt(text, i))

\* the nodes below one
RECURSIVE Nodes(_)
Nodes(node) ==
    LET below == CASE node.node \in {"lit", "name", "word"} -> {}
                   [] node.node = "member" -> {node.target}
                   [] node.node \in {"call", "list", "boolop"} -> ToSet(node.args)
                   [] node.node = "not" -> {node.operand}
                   [] node.node \in {"compare", "arith"} -> {node.left, node.right}
    IN  {node} \cup UNION {Nodes(n) : n \in below}

\* no part of it is of a kind only evaluation tells: undeclared, `none`, or the element of a list
Kinded(node) ==
    \A n \in Nodes(node) : n.node # "word" =>
        /\ KindOf(n) # "any" \/ n.node = "name"
        /\ n.node = "compare" => n.op # "in" /\ (n.left.node # "word" => KindOf(n.left) # "list")
        /\ n.node \in {"compare", "arith", "not", "boolop", "call"} =>
               \A m \in Nodes(n) : m.node = "name" /\ m.parts \notin Context.calendars => KindOf(m) # "any"

\* "`compile_expression` also resolves its names against a type declaration": what it accepts gives, whatever
\* was observed so far, a value of the kind it says, an unknown or an absence, or fails; and it never fails
\* for a wrong kind when every part has one.
CompileSound ==
    \A expect \in {"any", "condition", "time"} :
        LET kind == Compiled(expr, expect)
        IN  kind # "invalid" =>
                /\ value.kind \in {kind, "none"} \/ kind = "any"
                /\ value = WrongKind => ~Kinded(expr)

\* the kind two sides would need, and the values they have
Present(v) == ~Failed(v) /\ Known(v) /\ ~IsAbsent(v)

\* What it refuses of two sides with a kind would have failed on any values of them.
RefusesOnlyErrors ==
    expr.node \in {"compare", "arith"} /\ Placed(expr, FALSE) =>
        LET l == Eval(expr.left, Env, FALSE)
            r == Eval(expr.right, Env, FALSE)
        IN  /\ KindOf(expr.left) \notin {"any", "invalid"} /\ KindOf(expr.right) \notin {"any", "invalid"}
            /\ KindOf(expr) = "invalid" /\ Present(l) /\ Present(r)
            => value = WrongKind

\* reads only values: not whether, by whom or how long ago they were observed
Plain(node) ==
    \A n \in Nodes(node) : n.node # "word" /\ (n.node = "call" => n.function \notin {"changed", "observer", "age"})

\* "a comparison with a value nobody observed is itself unobserved, never false": a condition that holds or
\* does not, while a field was not observed, holds or does not whatever is observed of it in the end.
ObservingRefines ==
    [][\A name \in DOMAIN fields' \ DOMAIN fields :
            Plain(expr) /\ value.kind = "bool" => value' = value \/ (Failed(value') /\ ~(Kinded(expr) /\ Compiled(expr, "any") # "invalid"))]_vars

\* what the object was before the latest change of each slot
Before(env) ==
    [env EXCEPT !.fields = [name \in DOMAIN env.fields |->
        [env.fields[name] EXCEPT !.value = SlotValue(env.fields[name], TRUE), !.completeness = Nothing]]]

\* was() "reads previous values", through every operator and function: it is the expression over the object
\* as it was.
WasIsBefore ==
    Placed(expr, TRUE) => Eval(Call("was", <<expr>>), Env, FALSE) = Eval(expr, Before(Env), FALSE)

=============================================================================
