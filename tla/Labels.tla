-------------------------------- MODULE Labels --------------------------------
(***************************************************************************)
(* What a user files transactions under: the categories, the cashflow      *)
(* rules that set a transaction's cashflow type and the description rules  *)
(* that rewrite its description (transaction_category_service.py,          *)
(* cashflow_rule_service.py, description_rule_service.py and the checks of *)
(* transaction_service.py).                                                *)
(*                                                                         *)
(* A request reads and checks in one step and commits in a second one;     *)
(* requests run on threads, so others may commit in between.  A category   *)
(* is named, not referred to: a transaction keeps a spelling of the name.  *)
(*                                                                         *)
(* Tables are sequences: a row's id is its place, a deleted row is None    *)
(* and no id is used twice.  A text is the set of the match texts it       *)
(* contains.  The field merchant of a rule behaves as raw_description, its *)
(* source filter as its direction filter: both are left out.               *)
(***************************************************************************)
EXTENDS Integers, Sequences, FiniteSetsExt

CONSTANTS
    None,               \* an absent value
    Names,              \* the spellings of category names
    Folded,             \* the name a spelling stands for, letter case aside
    Words,              \* the match texts of rules
    AskedTexts,         \* the texts and the rules of each family that
    AskedRules,         \*   requests bring
    Groups,             \* the directions and cashflow types transactions have
    Requests,           \* the numbers of the requests, each made once
    Limits,             \* how many transactions rules may be applied to
    StoredCategories,   \* the tables found at the start, made by
    StoredTransactions, \*   earlier requests
    StoredRules

VARIABLES
    categories,     \* transaction_categories
    txs,            \* transactions
    rules,          \* cashflow_rules and description_rules
    req,            \* what each request is doing
    stale           \* the requests that were overtaken: another one committed
                    \*   after they read

labelVars == <<categories, txs, rules, req, stale>>

Families == {"cashflow", "description"}

(* Rows, each with the columns that matter here.                           *)
Directions == {"in", "out"}

Types == {g.type : g \in Groups}

Texts == SUBSET Words

CategoryRow == [name : Names, dir : Directions, type : Types, active : BOOLEAN]

TransactionRow ==
    [category : Names \cup {None}, dir : Directions, type : Types,
     description : Texts, raw : Texts]

Outcomes(f) == IF f = "cashflow" THEN Types ELSE Texts

RuleRow(f) ==
    [match : Words, field : {"raw", "description"}, dir : Directions \cup {None},
     outcome : Outcomes(f), active : BOOLEAN]

ASSUME GroupsAssumption == Groups \subseteq [dir : Directions, type : Types]

ASSUME AskedAssumption ==
    /\ AskedTexts \subseteq Texts
    /\ \A f \in Families : AskedRules[f] \subseteq RuleRow(f)

ASSUME StoredAssumption ==
    /\ StoredCategories \subseteq Seq(CategoryRow \cup {None})
    /\ StoredTransactions \subseteq Seq(TransactionRow \cup {None})
    /\ \A stored \in StoredRules :
          /\ stored = [f \in Families |-> stored[f]]
          /\ \A f \in Families : stored[f] \in Seq(RuleRow(f) \cup {None})

ASSUME NoneAssumption ==
    /\ None \notin CategoryRow
    /\ None \notin TransactionRow
    /\ \A f \in Families : None \notin RuleRow(f)

Ids(table) == {i \in DOMAIN table : table[i] # None}

GroupOf(row) == [dir |-> row.dir, type |-> row.type]

(* Money in has no expense categories and money out no income categories.  *)
CategoryGroups ==
    {g \in Groups : <<g.dir, g.type>> \notin {<<"in", "expense">>, <<"out", "income">>}}

LabelsInit ==
    /\ categories \in StoredCategories
    /\ txs \in StoredTransactions
    /\ rules \in StoredRules
    /\ req = [r \in Requests |-> [st |-> "new"]]
    /\ stale = {}

-----------------------------------------------------------------------------
(* Requests. *)

(* Requests are numbered in the order in which they begin.                 *)
InFlight == {r \in Requests : req[r].st \notin {"new", "ended"}}

IsNext(r) ==
    req[r].st = "new" /\ \A q \in Requests : q < r => req[q].st # "new"

Begin(r, what) ==
    /\ IsNext(r)
    /\ req' = [req EXCEPT ![r] = what]
    /\ UNCHANGED <<categories, txs, rules, stale>>

Commit(r) ==
    /\ req' = [req EXCEPT ![r] = [st |-> "ended"]]
    /\ stale' = (stale \cup InFlight) \ {r}

(* The row's columns that a change names and that differ from what was     *)
(* read are written; the others keep what they are by now.                 *)
Written(now, seen, change) ==
    [c \in DOMAIN now |->
        IF c \in DOMAIN change /\ change[c] # seen[c] THEN change[c] ELSE now[c]]

Edited(row, change) == Written(row, row, change)

-----------------------------------------------------------------------------
(* Categories. *)

SameGroup(a, b) == GroupOf(a) = GroupOf(b)

(* Equivalent categories have the same name in their group, letter case    *)
(* aside.                                                                  *)
Equivalent(a, b) == SameGroup(a, b) /\ Folded[a.name] = Folded[b.name]

(* Only the same spelling counts, used by a mutant.                        *)
NoRowSpeltLike(row, except) ==
    \A c \in Ids(categories) \ except :
        ~(SameGroup(categories[c], row) /\ categories[c].name = row.name)

NoDuplicateOf(row, except) ==
    \A c \in Ids(categories) \ except : ~Equivalent(categories[c], row)

(* uq_transaction_categories_user_name_direction_type.                     *)
UniqueCategories(table) ==
    \A c, d \in Ids(table) :
        SameGroup(table[c], table[d]) /\ table[c].name = table[d].name => c = d

Uses(t, category) ==
    /\ txs[t].category = category.name
    /\ SameGroup(txs[t], category)

UsersOf(category) == {t \in Ids(txs) : Uses(t, category)}

NewCategory(name, g) == [name |-> name, dir |-> g.dir, type |-> g.type, active |-> TRUE]

StartAddCategory(r) ==
    \E name \in Names, g \in CategoryGroups :
        /\ NoDuplicateOf(NewCategory(name, g), {})
        /\ Begin(r, [st |-> "add category", row |-> NewCategory(name, g)])

AddCategory(r) ==
    /\ req[r].st = "add category"
    /\ UniqueCategories(Append(categories, req[r].row))
    /\ categories' = Append(categories, req[r].row)
    /\ Commit(r)
    /\ UNCHANGED <<txs, rules>>

CategoryChanges ==
    [name : Names] \cup [active : BOOLEAN] \cup CategoryGroups

StartEditCategory(r) ==
    \E c \in Ids(categories), change \in CategoryChanges :
        /\ NoDuplicateOf(Edited(categories[c], change), {c})
        /\ Begin(r, [st |-> "edit category", id |-> c, seen |-> categories[c],
                     change |-> change])

EditedCategories(r) ==
    [categories EXCEPT ![req[r].id] = Written(@, req[r].seen, req[r].change)]

EditCategory(r) ==
    /\ req[r].st = "edit category"
    /\ req[r].id \in Ids(categories)
    /\ UniqueCategories(EditedCategories(r))
    /\ categories' = EditedCategories(r)
    /\ Commit(r)
    /\ UNCHANGED <<txs, rules>>

(* A category is deleted when no transaction is counted as its user.       *)
StartDeleteCategory(r) ==
    \E c \in Ids(categories) :
        /\ UsersOf(categories[c]) = {}
        /\ Begin(r, [st |-> "delete category", id |-> c, seen |-> categories[c]])

DeleteCategory(r) ==
    /\ req[r].st = "delete category"
    /\ categories' = [categories EXCEPT ![req[r].id] = None]
    /\ Commit(r)
    /\ UNCHANGED <<txs, rules>>

(* Inactive ones too, used by a mutant.                                    *)
ReplacementsOfAnyState(c) ==
    {d \in Ids(categories) \ {c} : SameGroup(categories[c], categories[d])}

(* What may replace c: another active category of its group.               *)
Replacements(c) ==
    {d \in Ids(categories) \ {c} :
        categories[d].active /\ SameGroup(categories[c], categories[d])}

StartReplaceCategory(r) ==
    \E c \in Ids(categories) : \E d \in Replacements(c) :
        Begin(r, [st |-> "replace category", id |-> c, seen |-> categories[c],
                  name |-> categories[d].name])

(* The transactions that use the category by now get the replacement.      *)
ReplaceCategory(r) ==
    /\ req[r].st = "replace category"
    /\ txs' = [t \in DOMAIN txs |->
                  IF t \in UsersOf(req[r].seen)
                    THEN [txs[t] EXCEPT !.category = req[r].name] ELSE txs[t]]
    /\ categories' = [categories EXCEPT ![req[r].id] = None]
    /\ Commit(r)
    /\ UNCHANGED rules

(* A reviewed migration names a replacement for every user the category    *)
(* has when it is read.                                                    *)
StartMigrateCategory(r) ==
    \E c \in Ids(categories) :
        \E chosen \in [UsersOf(categories[c]) -> Replacements(c)] :
            Begin(r, [st |-> "migrate category", id |-> c, seen |-> categories[c],
                      names |-> [t \in DOMAIN chosen |-> categories[chosen[t]].name]])

(* Wherever it is filed by now, used by a mutant.                          *)
MigratedAsSubmitted(r) == DOMAIN req[r].names \cap Ids(txs)

(* A transaction that has left the category meanwhile is passed over.      *)
Migrated(r) == DOMAIN req[r].names \cap UsersOf(req[r].seen)

MigrateCategory(r) ==
    /\ req[r].st = "migrate category"
    /\ txs' = [t \in DOMAIN txs |->
                  IF t \in Migrated(r)
                    THEN [txs[t] EXCEPT !.category = req[r].names[t]] ELSE txs[t]]
    /\ categories' = [categories EXCEPT ![req[r].id] = None]
    /\ Commit(r)
    /\ UNCHANGED rules

-----------------------------------------------------------------------------
(* Transactions. *)

(* A category fits a group when an active category of the group has its    *)
(* name.                                                                   *)
Fits(category, g) ==
    category # None =>
        \E c \in Ids(categories) :
            /\ categories[c].active
            /\ SameGroup(categories[c], g)
            /\ Folded[categories[c].name] = Folded[category]

NewTransaction(category, g, text) ==
    [category |-> category, dir |-> g.dir, type |-> g.type,
     description |-> text, raw |-> text]

StartAddTransaction(r) ==
    \E category \in Names \cup {None}, g \in Groups, text \in AskedTexts :
        /\ Fits(category, g)
        /\ Begin(r, [st |-> "add transaction", row |-> NewTransaction(category, g, text)])

AddTransaction(r) ==
    /\ req[r].st = "add transaction"
    /\ txs' = Append(txs, req[r].row)
    /\ Commit(r)
    /\ UNCHANGED <<categories, rules>>

TransactionChanges ==
    [category : Names \cup {None}] \cup Groups \cup [description : AskedTexts]

(* A transaction that stays in its group may keep the category it has.     *)
MayEdit(row, change) ==
    LET after == Edited(row, change)
    IN  \/ "description" \in DOMAIN change
        \/ Fits(after.category, after)
        \/ /\ SameGroup(after, row)
           /\ None \notin {row.category, after.category}
           /\ Folded[row.category] = Folded[after.category]

StartEditTransaction(r) ==
    \E t \in Ids(txs), change \in TransactionChanges :
        /\ MayEdit(txs[t], change)
        /\ Begin(r, [st |-> "edit transaction", id |-> t, seen |-> txs[t],
                     change |-> change])

EditTransaction(r) ==
    /\ req[r].st = "edit transaction"
    /\ req[r].id \in Ids(txs)
    /\ txs' = [txs EXCEPT ![req[r].id] = Written(@, req[r].seen, req[r].change)]
    /\ Commit(r)
    /\ UNCHANGED <<categories, rules>>

DeleteTransaction(r) ==
    /\ IsNext(r)
    /\ \E t \in Ids(txs) : txs' = [txs EXCEPT ![t] = None]
    /\ Commit(r)
    /\ UNCHANGED <<categories, rules>>

-----------------------------------------------------------------------------
(* Rules. *)

(* Two rules are equivalent when they look for the same text in the same   *)
(* place, whatever they do with it and whether or not they are active.     *)
RuleKey(rule) == <<rule.match, rule.field, rule.dir>>

NoEquivalentRule(f, rule, except) ==
    \A i \in Ids(rules[f]) \ except : RuleKey(rules[f][i]) # RuleKey(rule)

StartAddRule(r, f) ==
    \E rule \in AskedRules[f] :
        /\ NoEquivalentRule(f, rule, {})
        /\ Begin(r, [st |-> "add rule", family |-> f, row |-> rule])

AddRule(r) ==
    /\ req[r].st = "add rule"
    /\ rules' = [rules EXCEPT ![req[r].family] = Append(@, req[r].row)]
    /\ Commit(r)
    /\ UNCHANGED <<categories, txs>>

RuleChanges(f) ==
    [match : Words] \cup [active : BOOLEAN] \cup [outcome : {rule.outcome : rule \in AskedRules[f]}]

StartEditRule(r, f) ==
    \E i \in Ids(rules[f]), change \in RuleChanges(f) :
        /\ NoEquivalentRule(f, Edited(rules[f][i], change), {i})
        /\ Begin(r, [st |-> "edit rule", family |-> f, id |-> i,
                     seen |-> rules[f][i], change |-> change])

EditRule(r) ==
    /\ req[r].st = "edit rule"
    /\ req[r].id \in Ids(rules[req[r].family])
    /\ rules' = [rules EXCEPT ![req[r].family][req[r].id] =
                    Written(@, req[r].seen, req[r].change)]
    /\ Commit(r)
    /\ UNCHANGED <<categories, txs>>

DeleteRule(r, f) ==
    /\ IsNext(r)
    /\ \E i \in Ids(rules[f]) : rules' = [rules EXCEPT ![f][i] = None]
    /\ Commit(r)
    /\ UNCHANGED <<categories, txs>>

LookedAt(tx, rule) == tx[rule.field]

Matches(rule, tx) ==
    /\ rule.dir \in {None, tx.dir}
    /\ rule.match \in LookedAt(tx, rule)

ActiveRules(f) == {i \in Ids(rules[f]) : rules[f][i].active}

ActiveMatches(f, tx) == {i \in ActiveRules(f) : Matches(rules[f][i], tx)}

Column(f) == IF f = "cashflow" THEN "type" ELSE "description"

(* The first matching rule of a family decides.                            *)
OutcomeOf(f, tx) ==
    IF ActiveMatches(f, tx) = {} THEN tx[Column(f)]
      ELSE rules[f][Min(ActiveMatches(f, tx))].outcome

(* The newest transactions: there are fewer than "limit" newer ones.       *)
Newest(limit) ==
    {t \in Ids(txs) : Cardinality({u \in Ids(txs) : u > t}) < limit}

(* What applying the rules changes, as the values of the column.           *)
Changes(f, limit) ==
    [t \in {u \in Newest(limit) : OutcomeOf(f, txs[u]) # txs[u][Column(f)]} |->
        OutcomeOf(f, txs[t])]

(* One transaction whose category does not fit its new type refuses all.   *)
MayApply(f, changes) ==
    f = "cashflow" =>
        \A t \in DOMAIN changes :
            Fits(txs[t].category, [dir |-> txs[t].dir, type |-> changes[t]])

(* Transactions whose category does not fit are passed over, used by a     *)
(* mutant.                                                                 *)
StartApplyWherePossible(r, f) ==
    \E limit \in Limits :
        LET changes  == Changes(f, limit)
            possible == {t \in DOMAIN changes :
                            MayApply(f, [u \in {t} |-> changes[u]])}
        IN  Begin(r, [st |-> "apply rules", family |-> f, limit |-> limit,
                      changes |-> [t \in possible |-> changes[t]]])

StartApplyRules(r, f) ==
    \E limit \in Limits :
        /\ MayApply(f, Changes(f, limit))
        /\ Begin(r, [st |-> "apply rules", family |-> f, limit |-> limit,
                     changes |-> Changes(f, limit)])

ApplyRules(r) ==
    LET changes == req[r].changes
        column  == Column(req[r].family)
    IN  /\ req[r].st = "apply rules"
        /\ DOMAIN changes \subseteq Ids(txs)
        /\ txs' = [t \in DOMAIN txs |->
                      IF t \in DOMAIN changes
                        THEN [txs[t] EXCEPT ![column] = changes[t]] ELSE txs[t]]
        /\ Commit(r)
        /\ UNCHANGED <<categories, rules>>

-----------------------------------------------------------------------------
(* Failures and the next-state relation. *)

Write(r) ==
    \/ AddCategory(r)    \/ EditCategory(r)    \/ DeleteCategory(r)
    \/ ReplaceCategory(r) \/ MigrateCategory(r)
    \/ AddTransaction(r) \/ EditTransaction(r)
    \/ AddRule(r)        \/ EditRule(r)        \/ ApplyRules(r)

(* The request ends without a trace: a row it changes is gone, a unique    *)
(* constraint refuses its row, or the process stops.                       *)
Fail(r) ==
    /\ r \in InFlight
    /\ req' = [req EXCEPT ![r] = [st |-> "ended"]]
    /\ stale' = stale \ {r}
    /\ UNCHANGED <<categories, txs, rules>>

Start(r) ==
    \/ StartAddCategory(r)     \/ StartEditCategory(r)    \/ StartDeleteCategory(r)
    \/ StartReplaceCategory(r) \/ StartMigrateCategory(r)
    \/ StartAddTransaction(r)  \/ StartEditTransaction(r) \/ DeleteTransaction(r)
    \/ \E f \in Families :
         StartAddRule(r, f) \/ StartEditRule(r, f) \/ DeleteRule(r, f)
            \/ StartApplyRules(r, f)

LabelsNext == \E r \in Requests : Start(r) \/ Write(r) \/ Fail(r)

LabelsSpec == LabelsInit /\ [][LabelsNext]_labelVars

-----------------------------------------------------------------------------
(* Properties. *)

(* A transaction whose category fitted its group, or a new one, does not   *)
(* lose its category's last fitting row unless the request was overtaken,  *)
(* edited the category itself (update_category leaves the transactions as  *)
(* they are), or removed a category that the transaction spells in other   *)
(* letter case than the rows counted (get_usage_count compares exactly,    *)
(* find_active_by_name does not).                                          *)
Filed(t) == Fits(txs[t].category, txs[t])

OtherSpelling(r, t) ==
    /\ req[r].st \in {"delete category", "replace category", "migrate category"}
    /\ txs[t].category # req[r].seen.name

CategoriesStayFiled ==
    [][\A t \in Ids(txs') :
         ~Filed(t)' /\ (t \in Ids(txs) => Filed(t)) =>
            \E r \in InFlight :
                /\ req'[r].st = "ended"
                /\ r \in stale \/ req[r].st = "edit category" \/ OtherSpelling(r, t)
      ]_labelVars

(* Equivalent categories, and equivalent rules, appear only when a request *)
(* was overtaken: no constraint of the database refuses them once the      *)
(* check of the service has been passed (_raise_if_duplicate,              *)
(* _raise_if_duplicate_rule).                                              *)
Twins ==
    {p \in Ids(categories) \X Ids(categories) :
        p[1] < p[2] /\ Equivalent(categories[p[1]], categories[p[2]])}

TwinRules(f) ==
    {i \in Ids(rules[f]) : ~NoEquivalentRule(f, rules[f][i], {i})}

TwinsNeedAnOvertakenRequest ==
    [][( \/ ~(Twins' \subseteq Twins)
         \/ \E f \in Families : ~(TwinRules(f)' \subseteq TwinRules(f)) ) =>
            \E r \in InFlight \cap stale : req'[r].st = "ended"
      ]_labelVars

(* Rules that have been applied without being overtaken have nothing left  *)
(* to change among the transactions they were applied to: all are written  *)
(* or none, and applying the rules again at once does nothing.  Not so for *)
(* description rules that look at the description they rewrite.            *)
AppliedRulesSettle ==
    [][\A r \in InFlight \ stale, f \in Families, limit \in Limits :
         ( /\ req[r].st = "apply rules" /\ ApplyRules(r)
           /\ req[r].family = f /\ req[r].limit = limit
           /\ f = "description" =>
                \A i \in Ids(rules[f]) : rules[f][i].field # "description" ) =>
            Changes(f, limit)' = <<>>
      ]_labelVars

(* Removing a category never touches a transaction that another request    *)
(* has filed elsewhere after the review (the conditions of the UPDATE in   *)
(* apply_reviewed_migration and replace_and_delete).                       *)
LaterChoicesSurvive ==
    [][\A r \in InFlight, t \in Ids(txs) :
         ( /\ req[r].st \in {"replace category", "migrate category"}
           /\ req'[r].st = "ended" /\ txs[t].category # req[r].seen.name ) =>
            txs'[t] = txs[t]
      ]_labelVars
=============================================================================
