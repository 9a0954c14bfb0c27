------------------------------- MODULE MCLabels -------------------------------
(* Two requests over at most two categories, one of them in two letter      *)
(* cases, two transactions and two match texts.                             *)
EXTENDS Labels

MCFolded == [Food |-> "food", food |-> "food", Rent |-> "rent"]

Out(type) == [dir |-> "out", type |-> type]

MCGroups == {Out("expense"), Out("income"), [dir |-> "in", type |-> "income"]}

Food == NewCategory("Food", Out("expense"))
Rent == NewCategory("Rent", Out("expense"))

(* One or two categories, the second one active or not.                    *)
MCStoredCategories ==
    {<<Food>>, <<Food, Rent>>, <<Food, [Rent EXCEPT !.active = FALSE]>>}

Bought(category, text) == NewTransaction(category, Out("expense"), text)

MCStoredTransactions ==
    {<<>>, <<Bought("Food", {"a"})>>, <<Bought("food", {"a"}), Bought(None, {"a"})>>}

Rule(match, field, outcome) ==
    [match |-> match, field |-> field, dir |-> None, outcome |-> outcome,
     active |-> TRUE]

MCAskedTexts == {{"a"}, {"b"}}

MCAskedRules ==
    [cashflow |-> {Rule("a", "raw", "income"), Rule("b", "description", "expense")},
     description |-> {Rule("a", "raw", {"b"}), Rule("b", "description", {"a", "b"})}]

MCStoredRules ==
    { [cashflow |-> <<>>, description |-> <<>>],
      [cashflow |-> <<Rule("a", "raw", "income")>>,
       description |-> <<Rule("a", "raw", {"b"}), Rule("b", "description", {"a", "b"})>>] }
=============================================================================
