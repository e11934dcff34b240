---------------------------- MODULE MCExpressions ----------------------------
(***************************************************************************)
(* A type with a boolean, a number, a date and a list, a computed value    *)
(* and an undeclared field, and the expressions over them: every operator  *)
(* on pairs of operands, some of them on all pairs, every function on every*)
(* operand, conditions of two and three, and was() of them. Days are 4     *)
(* ticks, the week has one day off and there is one holiday.               *)
(***************************************************************************)
EXTENDS Expressions

\* declarations
MCScope ==
    [fields |-> (<<"open">> :> "bool") @@ (<<"price">> :> "number") @@ (<<"due">> :> "date") @@ (<<"tags">> :> "list"),
     completeness |-> {"due"}, values |-> {"score"}, absences |-> {"no_date"}, inputs |-> {<<"lead", "city">>},
     states |-> {"live"}, sources |-> [shop |-> "quote", feed |-> "pull"]]

MCContext ==
    [meta |-> [state |-> Value("string", 3), derived_status |-> Absent(""), watch_count |-> Value("number", 4),
               purpose |-> Value("string", 5)],
     config |-> (<<"config", "limit">> :> Value("number", 4)),
     quotes |-> [shop |-> [price |-> Value("number", 4)]],
     rank |-> 1, calendars |-> {<<"court">>}]

MCReadings ==
    (<<"open">> :> {Boolean(TRUE), Boolean(FALSE), Unknown("known_defect")})
    @@ (<<"price">> :> {Value("number", 4), Absent("")})
    @@ (<<"due">> :> {Value("date", 4), Absent("no_date")})
    @@ (<<"tags">> :> {Listed(<<Value("number", 4), Value("string", 3)>>)})

Open == Name(<<"open">>)
Price == Name(<<"price">>)
Due == Name(<<"due">>)
Tags == Name(<<"tags">>)
Two == Lit(Value("number", 4))
Now == Call("now", <<>>)
Hour == Lit(Value("duration", 1))
Days(n) == Call("business_days", <<Lit(Value("number", n)), Name(<<"court">>)>>)

Operands ==
    {Open, Price, Due, Tags, Two, Now, Hour, Days(4), Lit(Boolean(TRUE)), Lit(Value("string", 3)), Lit(Absent("")),
     Name(<<"score">>), Name(<<"no_date">>), Name(<<"state">>), Name(<<"config", "limit">>),
     Name(<<"due", "completeness">>), ListLit(<<Price, Two>>), ListLit(<<>>),
     Member(Call("quote", <<Name(<<"shop">>)>>), "price"), Call("age", <<Due>>), Call("count", <<Tags>>)}

Few == {Open, Price, Due, Two, Now, Hour, Lit(Absent("")), ListLit(<<Price, Two>>)}

Calls ==
    {Call(f, <<a>>) : f \in {"age", "observer", "changed"}, a \in {Open, Price, Due, Name(<<"state">>), Name(<<"lead", "city">>)}}
    \cup {Call(f, <<a>>) : f \in {"count", "sha256"}, a \in Operands}
    \cup {Call("sha256", <<a, b>>) : a \in Few, b \in Few}
    \cup {Call("quote", <<Name(<<s>>)>>) : s \in {"shop", "feed", "gone"}}
    \cup {Call("presented_in_top", <<Lit(Value("number", n))>>) : n \in {2, 4}}
    \cup {Call("business_days", <<a, Name(<<c>>)>>) : a \in Operands, c \in {"court"}}

Binary ==
    {Comparison(op, a, b) : op \in {"==", "<", "in"}, a \in Operands, b \in Operands}
    \cup {Comparison(op, a, b) : op \in Comparisons, a \in Few, b \in Few}
    \cup {Sum(op, a, b) : op \in {"+", "-"}, a \in Operands, b \in Operands}

Counting ==
    {Sum(op, Due, Days(n)) : op \in {"+", "-"}, n \in {0, 2, 4, 6, 3}}
    \cup {Sum(op, Due, Call("business_days", <<Price, Name(<<"court">>)>>)) : op \in {"+", "-"}}
    \cup {Sum("-", Sum("+", Due, Days(4)), Hour), Comparison("<", Sum("-", Due, Hour), Now)}

Words == {Comparison(op, a, LogicWord(l)) : op \in {"==", "!=", "<"}, a \in Few,
                                            l \in {"yes", "no", "unobserved", "known_defect"}}

Conditions ==
    {Open, Not(Open), Comparison("<", Price, Two), Comparison("==", Due, Lit(Absent(""))), Lit(Boolean(FALSE)),
     Comparison("==", Due, Name(<<"no_date">>)), Comparison("in", Price, ListLit(<<Two>>)),
     Comparison("in", Two, ListLit(<<Price, Two>>)), Comparison("in", Two, ListLit(<<Price>>)),
     Comparison("==", ListLit(<<Price, Two>>), ListLit(<<Two, Two>>)), Comparison("==", Open, LogicWord("no")),
     Call("changed", <<Price>>), Comparison("<", Call("was", <<Price>>), Price)}

Junctions ==
    {Junction(op, <<a, b>>) : op \in {"and", "or"}, a \in Conditions, b \in Conditions \cup {Two}}
    \cup {Not(a) : a \in Conditions \cup Operands}
    \cup {Junction("or", <<Open, Not(Junction("and", <<a, b>>))>>) : a \in Conditions, b \in Conditions}

Past == {Call("was", <<a>>) : a \in Operands \cup Calls \cup Conditions}

\* for the parser: brackets in brackets, chains, and members
Nested ==
    {Sum(op, a, Sum("-", b, Two)) : op \in {"+", "-"}, a \in Few, b \in Few}
    \cup {Member(a, "price") : a \in Few \cup {Sum("+", Price, Two), Member(Call("quote", <<Name(<<"shop">>)>>), "price")}}
    \cup {Comparison("==", Comparison("<", Price, Two), a) : a \in {Open, Not(Open), Junction("or", <<Open, Open>>)}}
    \cup {Junction("and", <<Junction("or", <<a, Open, Not(Not(Open))>>), Junction("and", <<Open, a>>)>>) : a \in Few}
    \cup {Call("count", <<Call("count", <<ListLit(<<ListLit(<<a>>)>>)>>)>>) : a \in Few}

Small == Nested \cup Operands \cup Calls \cup Counting \cup Words \cup Conditions \cup Junctions \cup Past
MCExprs == Small \cup Binary
=============================================================================
