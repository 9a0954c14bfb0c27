------------------------------ MODULE LabelsProofs ------------------------------
(***************************************************************************)
(* The properties of Labels for any names, rules and transactions and any  *)
(* number of requests: a request that nobody has overtaken commits in the  *)
(* tables it has checked, so what it checked still holds when it writes.   *)
(***************************************************************************)
EXTENDS Labels, WellFoundedInduction, TLAPS

-----------------------------------------------------------------------------
(* Tables *)

CategoryRows == Seq(CategoryRow \cup {None})

TransactionRows == Seq(TransactionRow \cup {None})

TablesOK ==
    /\ categories \in CategoryRows
    /\ txs \in TransactionRows
    /\ rules = [f \in Families |-> rules[f]]
    /\ \A f \in Families : rules[f] \in Seq(RuleRow(f) \cup {None})

(* Writing and adding rows. *)
LEMMA SeqPlaces ==
    ASSUME NEW S, NEW table \in Seq(S)
    PROVE  /\ DOMAIN table = 1 .. Len(table) /\ Len(table) \in Nat
           /\ \A i \in DOMAIN table : table[i] \in S
           /\ table = [i \in DOMAIN table |-> table[i]]
OBVIOUS

\* A table whose rows are all written anew is a table.
LEMMA SeqWritten ==
    ASSUME NEW S, NEW table \in Seq(S), NEW new, DOMAIN new = DOMAIN table,
           new = [i \in DOMAIN table |-> new[i]], \A i \in DOMAIN table : new[i] \in S
    PROVE  new \in Seq(S) /\ Len(new) = Len(table)
<1>1. DOMAIN table = 1 .. Len(table) /\ Len(table) \in Nat
  OBVIOUS
<1>2. new \in [1 .. Len(table) -> S]
  BY <1>1
<1>3. QED
  BY <1>1, <1>2

\* A table with one row set.
LEMMA SeqSet ==
    ASSUME NEW S, NEW table \in Seq(S), NEW id, NEW row \in S
    PROVE  LET new == [table EXCEPT ![id] = row]
           IN  /\ new \in Seq(S) /\ DOMAIN new = DOMAIN table
               /\ \A i \in DOMAIN table : new[i] = IF i = id THEN row ELSE table[i]
<1> DEFINE new == [table EXCEPT ![id] = row]
<1>1. /\ DOMAIN new = DOMAIN table /\ new = [i \in DOMAIN table |-> new[i]]
      /\ \A i \in DOMAIN table : new[i] = IF i = id THEN row ELSE table[i]
  BY SeqPlaces
<1>2. \A i \in DOMAIN table : new[i] \in S
  BY <1>1, SeqPlaces
<1> HIDE DEF new
<1>3. new \in Seq(S)
  BY <1>1, <1>2, SeqWritten
<1>4. QED
  BY <1>1, <1>3 DEF new

\* A table with one row added.
LEMMA SeqAdded ==
    ASSUME NEW S, NEW table \in Seq(S), NEW row \in S
    PROVE  LET new == Append(table, row)
           IN  /\ new \in Seq(S) /\ DOMAIN new = DOMAIN table \cup {Len(table) + 1}
               /\ Len(table) + 1 \notin DOMAIN table
               /\ new[Len(table) + 1] = row
               /\ \A i \in DOMAIN table : new[i] = table[i]
<1>1. DOMAIN table = 1 .. Len(table) /\ Len(table) \in Nat
  BY SeqPlaces
<1> DEFINE new == Append(table, row)
           n == Len(table)
<1>2. /\ new \in Seq(S) /\ Len(new) = n + 1 /\ new[n + 1] = row
      /\ \A i \in 1 .. n : new[i] = table[i]
  OBVIOUS
<1>3. DOMAIN new = 1 .. (n + 1)
  BY <1>2
<1> HIDE DEF new, n
<1>4. 1 .. (n + 1) = (1 .. n) \cup {n + 1}
  BY <1>1 DEF n
<1>5. QED
  BY <1>1, <1>2, <1>3, <1>4 DEF new, n

-----------------------------------------------------------------------------
(* Rows *)

(* What a request writes into a row stays a row.                           *)
LEMMA WrittenCategory ==
    ASSUME NEW now \in CategoryRow, NEW seen, NEW change \in CategoryChanges
    PROVE  Written(now, seen, change) \in CategoryRow
<1>1. /\ DOMAIN now = {"name", "dir", "type", "active"}
      /\ DOMAIN now = DOMAIN Written(now, seen, change)
  BY DEF CategoryRow, Written
<1> DEFINE Col(c) == IF c \in DOMAIN change /\ change[c] # seen[c] THEN change[c] ELSE now[c]
<1>2. Written(now, seen, change) =
        [name |-> Col("name"), dir |-> Col("dir"), type |-> Col("type"),
         active |-> Col("active")]
  BY <1>1 DEF Written
<1>3. /\ "name" \in DOMAIN change => change["name"] \in Names
      /\ "dir" \in DOMAIN change => change["dir"] \in Directions
      /\ "type" \in DOMAIN change => change["type"] \in Types
      /\ "active" \in DOMAIN change => change["active"] \in BOOLEAN
  BY GroupsAssumption DEF CategoryChanges, CategoryGroups, Types
<1>4. /\ Col("name") \in Names /\ Col("dir") \in Directions /\ Col("type") \in Types
      /\ Col("active") \in BOOLEAN
  BY <1>3 DEF CategoryRow
<1> HIDE DEF Col
<1>5. QED
  BY <1>2, <1>4 DEF CategoryRow

\* An edited transaction has the shape of one.
LEMMA WrittenTransaction ==
    ASSUME NEW now \in TransactionRow, NEW seen, NEW change \in TransactionChanges
    PROVE  Written(now, seen, change) \in TransactionRow
<1>1. DOMAIN now = {"category", "dir", "type", "description", "raw"}
  BY DEF TransactionRow
<1> DEFINE Col(c) == IF c \in DOMAIN change /\ change[c] # seen[c] THEN change[c] ELSE now[c]
<1>2. Written(now, seen, change) =
        [category |-> Col("category"), dir |-> Col("dir"), type |-> Col("type"),
         description |-> Col("description"), raw |-> Col("raw")]
  BY <1>1 DEF Written
<1>3. /\ "category" \in DOMAIN change => change["category"] \in Names \cup {None}
      /\ "dir" \in DOMAIN change => change["dir"] \in Directions
      /\ "type" \in DOMAIN change => change["type"] \in Types
      /\ "description" \in DOMAIN change => change["description"] \in Texts
      /\ "raw" \notin DOMAIN change
  BY GroupsAssumption, AskedAssumption DEF TransactionChanges, Types
<1>4. /\ Col("category") \in Names \cup {None} /\ Col("dir") \in Directions
      /\ Col("type") \in Types
      /\ Col("description") \in Texts /\ Col("raw") \in Texts
  BY <1>3 DEF TransactionRow
<1> HIDE DEF Col
<1>5. QED
  BY <1>2, <1>4 DEF TransactionRow

\* An edited rule has the shape of one.
LEMMA WrittenRule ==
    ASSUME NEW f \in Families, NEW now \in RuleRow(f), NEW seen, NEW change \in RuleChanges(f)
    PROVE  Written(now, seen, change) \in RuleRow(f)
<1>1. DOMAIN now = {"match", "field", "dir", "outcome", "active"}
  BY DEF RuleRow
<1> DEFINE Col(c) == IF c \in DOMAIN change /\ change[c] # seen[c] THEN change[c] ELSE now[c]
<1>2. Written(now, seen, change) =
        [match |-> Col("match"), field |-> Col("field"), dir |-> Col("dir"),
         outcome |-> Col("outcome"), active |-> Col("active")]
  BY <1>1 DEF Written
<1>3. \A rule \in AskedRules[f] : rule.outcome \in Outcomes(f)
  BY AskedAssumption DEF RuleRow
<1>4. /\ "match" \in DOMAIN change => change["match"] \in Words
      /\ "active" \in DOMAIN change => change["active"] \in BOOLEAN
      /\ "outcome" \in DOMAIN change => change["outcome"] \in Outcomes(f)
      /\ "field" \notin DOMAIN change /\ "dir" \notin DOMAIN change
  BY <1>3 DEF RuleChanges
<1>5. /\ Col("match") \in Words /\ Col("field") \in {"raw", "description"}
      /\ Col("dir") \in Directions \cup {None}
      /\ Col("outcome") \in Outcomes(f) /\ Col("active") \in BOOLEAN
  BY <1>4 DEF RuleRow
<1> HIDE DEF Col
<1>6. QED
  BY <1>2, <1>5 DEF RuleRow

-----------------------------------------------------------------------------
(* Requests *)

(* What a request may carry, whatever has been committed since it began.   *)
AsksOK(q) ==
    \/ q.st \in {"new", "ended", "delete category"}
    \/ q.st = "add category" /\ q.row \in CategoryRow
    \/ q.st = "edit category" /\ q.change \in CategoryChanges
    \/ q.st = "replace category" /\ q.name \in Names
    \/ q.st = "migrate category" /\ \A t \in DOMAIN q.names : q.names[t] \in Names
    \/ q.st = "add transaction" /\ q.row \in TransactionRow
    \/ q.st = "edit transaction" /\ q.change \in TransactionChanges
    \/ q.st = "add rule" /\ q.family \in Families /\ q.row \in RuleRow(q.family)
    \/ q.st = "edit rule" /\ q.family \in Families /\ q.change \in RuleChanges(q.family)
    \/ /\ q.st = "apply rules" /\ q.family \in Families
       /\ \A t \in DOMAIN q.changes : q.changes[t] \in Outcomes(q.family)

(* What a request that has not been overtaken still finds in the tables.   *)
SeesCategory(q) == q.id \in Ids(categories) /\ q.seen = categories[q.id]

FreshCategory(q) ==
    /\ q.st = "add category" => NoDuplicateOf(q.row, {})
    /\ q.st = "edit category" =>
          SeesCategory(q) /\ NoDuplicateOf(Edited(q.seen, q.change), {q.id})
    /\ q.st = "delete category" => SeesCategory(q) /\ UsersOf(q.seen) = {}
    /\ q.st = "replace category" =>
          SeesCategory(q) /\ \E d \in Replacements(q.id) : q.name = categories[d].name
    /\ q.st = "migrate category" =>
          /\ SeesCategory(q) /\ DOMAIN q.names = UsersOf(q.seen)
          /\ \A t \in DOMAIN q.names :
                \E d \in Replacements(q.id) : q.names[t] = categories[d].name

FreshTransaction(q) ==
    /\ q.st = "add transaction" => Fits(q.row.category, q.row)
    /\ q.st = "edit transaction" =>
          q.id \in Ids(txs) /\ q.seen = txs[q.id] /\ MayEdit(q.seen, q.change)

FreshRule(q) ==
    /\ q.st = "add rule" => NoEquivalentRule(q.family, q.row, {})
    /\ q.st = "edit rule" =>
          /\ q.id \in Ids(rules[q.family]) /\ q.seen = rules[q.family][q.id]
          /\ NoEquivalentRule(q.family, Edited(q.seen, q.change), {q.id})
    /\ q.st = "apply rules" =>
          q.changes = Changes(q.family, q.limit) /\ MayApply(q.family, q.changes)

Fresh(q) == FreshCategory(q) /\ FreshTransaction(q) /\ FreshRule(q)

LabelsInv ==
    /\ TablesOK
    /\ req = [r \in Requests |-> req[r]]
    /\ \A r \in Requests :
          \E q : q = req[r] /\ AsksOK(q) /\ (r \in stale \/ Fresh(q))

(* What holds of the tables holds as long as they are not written.         *)
LEMMA FreshStays ==
    ASSUME UNCHANGED <<categories, txs, rules>>, NEW q, Fresh(q)
    PROVE  Fresh(q)'
<1>1. FreshCategory(q)'
  BY DEF Fresh, FreshCategory, SeesCategory, NoDuplicateOf, UsersOf, Uses, Replacements, Ids
<1>2. FreshTransaction(q)'
  BY DEF Fresh, FreshTransaction, Fits, MayEdit, Ids
<1>3. FreshRule(q)'
  <2>1. ASSUME NEW f, NEW limit PROVE Changes(f, limit)' = Changes(f, limit)
    BY DEF Changes, Newest, OutcomeOf, ActiveMatches, ActiveRules, Ids
  <2>2. ASSUME NEW f, NEW changes, MayApply(f, changes) PROVE MayApply(f, changes)'
    BY <2>2 DEF MayApply, Fits, Ids
  <2>3. ASSUME NEW f, NEW row, NEW S, NoEquivalentRule(f, row, S)
        PROVE  NoEquivalentRule(f, row, S)'
    BY <2>3 DEF NoEquivalentRule, Ids
  <2>4. QED
    BY <2>1, <2>2, <2>3 DEF Fresh, FreshRule, Ids
<1>4. QED
  BY <1>1, <1>2, <1>3 DEF Fresh

\* The shape of the tables does not depend on the requests.
LEMMA TablesStay ==
    ASSUME UNCHANGED <<categories, txs, rules>>, TablesOK
    PROVE  TablesOK'
BY DEF TablesOK

\* A request that has not begun or has ended has read nothing.
LEMMA EndedFresh ==
    ASSUME NEW q, q.st \in {"new", "ended"}
    PROVE  AsksOK(q) /\ Fresh(q)
BY DEF AsksOK, Fresh, FreshCategory, FreshTransaction, FreshRule

(* A request that begins has just checked.                                 *)
LEMMA BeginKeepsInv ==
    ASSUME LabelsInv, NEW r \in Requests, NEW what, AsksOK(what), Fresh(what), Begin(r, what)
    PROVE  LabelsInv'
<1>1. /\ req' = [req EXCEPT ![r] = what] /\ stale' = stale
      /\ UNCHANGED <<categories, txs, rules>>
  BY DEF Begin
<1>2. /\ TablesOK /\ req = [s \in Requests |-> req[s]]
  BY DEF LabelsInv
<1>3. ASSUME NEW s \in Requests
      PROVE  \E q : q = req'[s] /\ AsksOK(q) /\ (s \in stale' \/ Fresh(q)')
  <2>1. PICK q : q = req[s] /\ AsksOK(q) /\ (s \in stale \/ Fresh(q))
    BY DEF LabelsInv
  <2>2. (Fresh(q) => Fresh(q)') /\ Fresh(what)'
    BY <1>1, FreshStays
  <2>3. what = req'[s] \/ q = req'[s]
    BY <1>1, <1>2, <2>1
  <2>4. QED
    BY <1>1, <2>1, <2>2, <2>3
<1>4. TablesOK' /\ req' = [s \in Requests |-> req'[s]]
  BY <1>1, <1>2, TablesStay
<1>5. QED
  BY <1>3, <1>4 DEF LabelsInv

(* A commit overtakes every other request in flight.                       *)
LEMMA CommitKeepsInv ==
    ASSUME LabelsInv, TablesOK', NEW r \in Requests, Commit(r)
    PROVE  LabelsInv'
<1>1. /\ req' = [req EXCEPT ![r] = [st |-> "ended"]]
      /\ stale' = (stale \cup InFlight) \ {r}
      /\ req = [s \in Requests |-> req[s]]
  BY DEF Commit, LabelsInv
<1>2. ASSUME NEW s \in Requests
      PROVE  \E q : q = req'[s] /\ AsksOK(q) /\ (s \in stale' \/ Fresh(q)')
  <2>1. PICK q : q = req[s] /\ AsksOK(q)
    BY DEF LabelsInv
  <2>2. CASE s = r
    <3>1. PICK x : x = [st |-> "ended"]
      OBVIOUS
    <3>2. AsksOK(x) /\ Fresh(x)'
      BY <3>1 DEF AsksOK, Fresh, FreshCategory, FreshTransaction, FreshRule
    <3>3. QED
      BY <1>1, <2>2, <3>1, <3>2
  <2>3. CASE s # r
    <3>1. req'[s] = q
      BY <1>1, <2>1, <2>3
    <3>2. CASE s \in InFlight
      BY <1>1, <2>1, <2>3, <3>1, <3>2
    <3>3. CASE s \notin InFlight
      <4>1. q.st \in {"new", "ended"}
        BY <2>1, <3>3 DEF InFlight
      <4>2. Fresh(q)'
        BY <4>1 DEF Fresh, FreshCategory, FreshTransaction, FreshRule
      <4>3. QED
        BY <2>1, <3>1, <4>2
    <3>4. QED
      BY <3>2, <3>3
  <2>4. QED
    BY <2>2, <2>3
<1>3. req' = [s \in Requests |-> req'[s]]
  BY <1>1
<1>4. QED
  BY <1>2, <1>3 DEF LabelsInv

\* A request that fails leaves the tables as they are.
LEMMA FailKeepsInv ==
    ASSUME LabelsInv, NEW r \in Requests, Fail(r)
    PROVE  LabelsInv'
<1>1. /\ req' = [req EXCEPT ![r] = [st |-> "ended"]] /\ stale' = stale \ {r}
      /\ UNCHANGED <<categories, txs, rules>>
      /\ TablesOK /\ req = [s \in Requests |-> req[s]]
  BY DEF Fail, LabelsInv
<1>2. ASSUME NEW s \in Requests
      PROVE  \E q : q = req'[s] /\ AsksOK(q) /\ (s \in stale' \/ Fresh(q)')
  <2>1. PICK q : q = req[s] /\ AsksOK(q) /\ (s \in stale \/ Fresh(q))
    BY DEF LabelsInv
  <2>2. CASE s = r
    <3>1. PICK x : x = [st |-> "ended"]
      OBVIOUS
    <3>2. AsksOK(x) /\ Fresh(x)'
      BY <3>1 DEF AsksOK, Fresh, FreshCategory, FreshTransaction, FreshRule
    <3>3. QED
      BY <1>1, <2>2, <3>1, <3>2
  <2>3. CASE s # r
    <3>1. Fresh(q) => Fresh(q)'
      BY <1>1, FreshStays
    <3>2. QED
      BY <1>1, <2>1, <2>3, <3>1
  <2>4. QED
    BY <2>2, <2>3
<1>3. TablesOK' /\ req' = [s \in Requests |-> req'[s]]
  BY <1>1, TablesStay
<1>4. QED
  BY <1>2, <1>3 DEF LabelsInv

-----------------------------------------------------------------------------
(* Requests that begin *)

(* The smallest id of some rows is one of theirs.                          *)
LEMMA LeastId ==
    ASSUME NEW S \in SUBSET Nat, S # {}
    PROVE  Min(S) \in S /\ \A i \in S : Min(S) <= i
<1>1. PICK m \in S : \A n \in S : ~(<<n, m>> \in OpToRel(<, Nat))
  BY NatLessThanWellFounded, WFMin, Zenon
<1>2. \A n \in S : m <= n
  <2> TAKE n \in S
  <2>1. m \in Nat /\ n \in Nat
    OBVIOUS
  <2>2. ~(n < m)
    BY <1>1, <2>1 DEF OpToRel
  <2>3. QED
    BY <2>1, <2>2
<1>3. QED
  BY <1>2, Zenon DEF Min

\* What a rule or the default sets is a value of its column.
LEMMA OutcomeShape ==
    ASSUME TablesOK, NEW f \in Families, NEW t \in Ids(txs)
    PROVE  OutcomeOf(f, txs[t]) \in Outcomes(f)
<1> DEFINE table == rules[f]
           hits == ActiveMatches(f, txs[t])
           n == Min(hits)
<1>1. table \in Seq(RuleRow(f) \cup {None})
  BY DEF TablesOK
<1>2. DOMAIN table = 1 .. Len(table) /\ Len(table) \in Nat
      /\ \A i \in DOMAIN table : table[i] \in RuleRow(f) \cup {None}
  BY <1>1, SeqPlaces
<1>3. hits \subseteq Ids(table)
  BY DEF ActiveMatches, ActiveRules
<1>4. hits \in SUBSET Nat
  BY <1>2, <1>3 DEF Ids
<1>5. txs[t] \in TransactionRow
  <2>1. txs \in Seq(TransactionRow \cup {None})
    BY DEF TablesOK, TransactionRows
  <2>2. txs[t] \in TransactionRow \cup {None}
    BY <2>1, SeqPlaces DEF Ids
  <2>3. QED
    BY <2>2 DEF Ids
<1>6. CASE hits = {}
  <2>1. OutcomeOf(f, txs[t]) = txs[t][Column(f)]
    BY <1>6 DEF OutcomeOf
  <2>2. QED
    BY <1>5, <2>1 DEF Families, Column, Outcomes, TransactionRow
<1>7. CASE hits # {}
  <2>1. n \in hits
    BY <1>4, <1>7, LeastId
  <2>2. table[n] \in RuleRow(f)
    BY <1>2, <1>3, <2>1 DEF Ids
  <2>3. OutcomeOf(f, txs[t]) = table[n].outcome
    BY <1>7 DEF OutcomeOf
  <2>4. QED
    BY <2>2, <2>3 DEF RuleRow
<1>8. QED
  BY <1>6, <1>7

(* A request has begun in good order.                                      *)
Begins(r) == \E what : Begin(r, what) /\ AsksOK(what) /\ Fresh(what)

\* A request on a category begins with rows it has just read.
LEMMA CategoryRequestBegins ==
    ASSUME TablesOK, NEW r \in Requests,
           \/ StartAddCategory(r) \/ StartEditCategory(r) \/ StartDeleteCategory(r)
           \/ StartReplaceCategory(r) \/ StartMigrateCategory(r)
    PROVE  Begins(r)
<1>0. /\ CategoryGroups \subseteq [dir : Directions, type : Types]
      /\ \A c \in Ids(categories) : categories[c].name \in Names
  <2>1. categories \in Seq(CategoryRow \cup {None})
    BY DEF TablesOK, CategoryRows
  <2>2. \A c \in Ids(categories) : categories[c] \in CategoryRow
    BY <2>1, SeqPlaces DEF Ids
  <2>3. QED
    BY <2>2, GroupsAssumption DEF CategoryGroups, CategoryRow
<1>1. CASE StartAddCategory(r)
  <2>1. PICK name \in Names, g \in CategoryGroups :
          /\ NoDuplicateOf(NewCategory(name, g), {})
          /\ Begin(r, [st |-> "add category", row |-> NewCategory(name, g)])
    BY <1>1 DEF StartAddCategory
  <2>2. NewCategory(name, g) \in CategoryRow
    BY <1>0 DEF NewCategory, CategoryRow
  <2>3. PICK what : what = [st |-> "add category", row |-> NewCategory(name, g)]
    OBVIOUS
  <2>4. AsksOK(what) /\ Fresh(what)
    BY <2>1, <2>2, <2>3 DEF AsksOK, Fresh, FreshCategory, FreshTransaction, FreshRule
  <2>5. QED
    BY <2>1, <2>3, <2>4 DEF Begins
<1>2. CASE StartEditCategory(r)
  <2>1. PICK c \in Ids(categories), change \in CategoryChanges :
          /\ NoDuplicateOf(Edited(categories[c], change), {c})
          /\ Begin(r, [st |-> "edit category", id |-> c, seen |-> categories[c],
                       change |-> change])
    BY <1>2 DEF StartEditCategory
  <2>2. PICK what : what = [st |-> "edit category", id |-> c, seen |-> categories[c],
                            change |-> change]
    OBVIOUS
  <2>3. AsksOK(what) /\ Fresh(what)
    BY <2>1, <2>2 DEF AsksOK, Fresh, FreshCategory, FreshTransaction, FreshRule, SeesCategory
  <2>4. QED
    BY <2>1, <2>2, <2>3 DEF Begins
<1>3. CASE StartDeleteCategory(r)
  <2>1. PICK c \in Ids(categories) :
          /\ UsersOf(categories[c]) = {}
          /\ Begin(r, [st |-> "delete category", id |-> c, seen |-> categories[c]])
    BY <1>3 DEF StartDeleteCategory
  <2>2. PICK what : what = [st |-> "delete category", id |-> c, seen |-> categories[c]]
    OBVIOUS
  <2>3. AsksOK(what) /\ Fresh(what)
    BY <2>1, <2>2 DEF AsksOK, Fresh, FreshCategory, FreshTransaction, FreshRule, SeesCategory
  <2>4. QED
    BY <2>1, <2>2, <2>3 DEF Begins
<1>4. CASE StartReplaceCategory(r)
  <2>0. PICK c \in Ids(categories) : \E d \in Replacements(c) :
          Begin(r, [st |-> "replace category", id |-> c, seen |-> categories[c],
                    name |-> categories[d].name])
    BY <1>4 DEF StartReplaceCategory
  <2>1. PICK d \in Replacements(c) :
          Begin(r, [st |-> "replace category", id |-> c, seen |-> categories[c],
                    name |-> categories[d].name])
    BY <2>0
  <2>2. PICK what : what = [st |-> "replace category", id |-> c, seen |-> categories[c],
                            name |-> categories[d].name]
    OBVIOUS
  <2>3. what.name \in Names
    BY <1>0, <2>1, <2>2 DEF Replacements
  <2>4. AsksOK(what) /\ Fresh(what)
    BY <2>1, <2>2, <2>3
       DEF AsksOK, Fresh, FreshCategory, FreshTransaction, FreshRule, SeesCategory
  <2>5. QED
    BY <2>1, <2>2, <2>4 DEF Begins
<1>5. CASE StartMigrateCategory(r)
  <2>1. PICK c \in Ids(categories) :
          \E chosen \in [UsersOf(categories[c]) -> Replacements(c)] :
              Begin(r, [st |-> "migrate category", id |-> c, seen |-> categories[c],
                        names |-> [t \in DOMAIN chosen |-> categories[chosen[t]].name]])
    BY <1>5 DEF StartMigrateCategory
  <2>2. PICK chosen \in [UsersOf(categories[c]) -> Replacements(c)] :
          Begin(r, [st |-> "migrate category", id |-> c, seen |-> categories[c],
                    names |-> [t \in DOMAIN chosen |-> categories[chosen[t]].name]])
    BY <2>1
  <2> DEFINE named == [t \in DOMAIN chosen |-> categories[chosen[t]].name]
  <2>3. /\ DOMAIN named = UsersOf(categories[c])
        /\ \A t \in DOMAIN named :
              /\ named[t] \in Names
              /\ \E d \in Replacements(c) : named[t] = categories[d].name
    BY <1>0 DEF Replacements
  <2> HIDE DEF named
  <2>4. PICK what : what = [st |-> "migrate category", id |-> c, seen |-> categories[c],
                            names |-> named]
    OBVIOUS
  <2>5. /\ what.st = "migrate category" /\ what.id = c /\ what.seen = categories[c]
        /\ what.names = named
    BY <2>4
  <2>6. AsksOK(what)
    BY <2>3, <2>5 DEF AsksOK
  <2>7. Fresh(what)
    BY <2>1, <2>3, <2>5 DEF Fresh, FreshCategory, FreshTransaction, FreshRule, SeesCategory
  <2>8. QED
    BY <2>2, <2>4, <2>6, <2>7 DEF Begins, named
<1>6. QED
  BY <1>1, <1>2, <1>3, <1>4, <1>5

\* A request on a transaction begins with rows it has just read.
LEMMA TransactionRequestBegins ==
    ASSUME TablesOK, NEW r \in Requests,
           StartAddTransaction(r) \/ StartEditTransaction(r)
    PROVE  Begins(r)
<1>1. CASE StartAddTransaction(r)
  <2>1. PICK category \in Names \cup {None}, g \in Groups, text \in AskedTexts :
          /\ Fits(category, g)
          /\ Begin(r, [st |-> "add transaction",
                       row |-> NewTransaction(category, g, text)])
    BY <1>1 DEF StartAddTransaction
  <2> DEFINE row == NewTransaction(category, g, text)
  <2>2. /\ row \in TransactionRow /\ row.category = category
        /\ row.dir = g.dir /\ row.type = g.type
    BY GroupsAssumption, AskedAssumption DEF NewTransaction, TransactionRow, Types
  <2> HIDE DEF row
  <2>3. Fits(row.category, row)
    BY <2>1, <2>2 DEF Fits, SameGroup, GroupOf
  <2>4. PICK what : what = [st |-> "add transaction", row |-> row]
    OBVIOUS
  <2>5. AsksOK(what) /\ Fresh(what)
    BY <2>2, <2>3, <2>4 DEF AsksOK, Fresh, FreshCategory, FreshTransaction, FreshRule
  <2>6. QED
    BY <2>1, <2>4, <2>5 DEF Begins, row
<1>2. CASE StartEditTransaction(r)
  <2>1. PICK t \in Ids(txs), change \in TransactionChanges :
          /\ MayEdit(txs[t], change)
          /\ Begin(r, [st |-> "edit transaction", id |-> t, seen |-> txs[t],
                       change |-> change])
    BY <1>2 DEF StartEditTransaction
  <2>2. PICK what : what = [st |-> "edit transaction", id |-> t, seen |-> txs[t],
                            change |-> change]
    OBVIOUS
  <2>3. AsksOK(what) /\ Fresh(what)
    BY <2>1, <2>2 DEF AsksOK, Fresh, FreshCategory, FreshTransaction, FreshRule
  <2>4. QED
    BY <2>1, <2>2, <2>3 DEF Begins
<1>3. QED
  BY <1>1, <1>2

\* A request on rules begins with rows it has just read.
LEMMA RuleRequestBegins ==
    ASSUME TablesOK, NEW r \in Requests, NEW f \in Families,
           StartAddRule(r, f) \/ StartEditRule(r, f) \/ StartApplyRules(r, f)
    PROVE  Begins(r)
<1>1. CASE StartAddRule(r, f)
  <2>1. PICK rule \in AskedRules[f] :
          /\ NoEquivalentRule(f, rule, {})
          /\ Begin(r, [st |-> "add rule", family |-> f, row |-> rule])
    BY <1>1 DEF StartAddRule
  <2>2. PICK what : what = [st |-> "add rule", family |-> f, row |-> rule]
    OBVIOUS
  <2>3. rule \in RuleRow(f)
    BY AskedAssumption
  <2>4. AsksOK(what) /\ Fresh(what)
    BY <2>1, <2>2, <2>3 DEF AsksOK, Fresh, FreshCategory, FreshTransaction, FreshRule
  <2>5. QED
    BY <2>1, <2>2, <2>4 DEF Begins
<1>2. CASE StartEditRule(r, f)
  <2>1. PICK i \in Ids(rules[f]), change \in RuleChanges(f) :
          /\ NoEquivalentRule(f, Edited(rules[f][i], change), {i})
          /\ Begin(r, [st |-> "edit rule", family |-> f, id |-> i,
                       seen |-> rules[f][i], change |-> change])
    BY <1>2 DEF StartEditRule
  <2>2. PICK what : what = [st |-> "edit rule", family |-> f, id |-> i,
                            seen |-> rules[f][i], change |-> change]
    OBVIOUS
  <2>3. AsksOK(what) /\ Fresh(what)
    BY <2>1, <2>2 DEF AsksOK, Fresh, FreshCategory, FreshTransaction, FreshRule
  <2>4. QED
    BY <2>1, <2>2, <2>3 DEF Begins
<1>3. CASE StartApplyRules(r, f)
  <2>1. PICK limit \in Limits :
          /\ MayApply(f, Changes(f, limit))
          /\ Begin(r, [st |-> "apply rules", family |-> f, limit |-> limit,
                       changes |-> Changes(f, limit)])
    BY <1>3 DEF StartApplyRules
  <2> DEFINE changes == Changes(f, limit)
  <2>2. PICK what : what = [st |-> "apply rules", family |-> f, limit |-> limit,
                            changes |-> changes]
    OBVIOUS
  <2>3. \A t \in DOMAIN changes : changes[t] \in Outcomes(f)
    BY OutcomeShape DEF Changes, Newest
  <2> HIDE DEF changes
  <2>4. /\ what.st = "apply rules" /\ what.family = f /\ what.limit = limit
        /\ what.changes = changes
    BY <2>2
  <2>5. AsksOK(what)
    BY <2>3, <2>4 DEF AsksOK
  <2>6. Fresh(what)
    BY <2>1, <2>4 DEF Fresh, FreshCategory, FreshTransaction, FreshRule, changes
  <2>7. QED
    BY <2>1, <2>2, <2>5, <2>6 DEF Begins, changes
<1>4. QED
  BY <1>1, <1>2, <1>3

-----------------------------------------------------------------------------
(* Requests that write *)

LEMMA RowsOfTables ==
    ASSUME TablesOK
    PROVE  /\ \A c \in Ids(categories) : categories[c] \in CategoryRow
           /\ \A t \in Ids(txs) : txs[t] \in TransactionRow
           /\ \A f \in Families : \A i \in Ids(rules[f]) : rules[f][i] \in RuleRow(f)
<1>1. \A c \in Ids(categories) : categories[c] \in CategoryRow
  <2>1. categories \in Seq(CategoryRow \cup {None})
    BY DEF TablesOK, CategoryRows
  <2>2. QED
    BY <2>1, SeqPlaces DEF Ids
<1>2. \A t \in Ids(txs) : txs[t] \in TransactionRow
  <2>1. txs \in Seq(TransactionRow \cup {None})
    BY DEF TablesOK, TransactionRows
  <2>2. QED
    BY <2>1, SeqPlaces DEF Ids
<1>3. ASSUME NEW f \in Families, NEW i \in Ids(rules[f])
      PROVE  rules[f][i] \in RuleRow(f)
  <2>1. rules[f] \in Seq(RuleRow(f) \cup {None})
    BY DEF TablesOK
  <2> DEFINE table == rules[f]
             S == RuleRow(f) \cup {None}
  <2>2. \A j \in DOMAIN table : table[j] \in S
    <3> HIDE DEF table, S
    <3>1. table \in Seq(S)
      BY <2>1 DEF table, S
    <3>2. QED
      BY <3>1, SeqPlaces
  <2>3. QED
    BY <2>2 DEF Ids
<1>4. QED
  BY <1>1, <1>2, <1>3

(* What a request that writes has asked for.                               *)
LEMMA AskedOK ==
    ASSUME LabelsInv, NEW r \in Requests
    PROVE  AsksOK(req[r]) /\ (r \in stale \/ Fresh(req[r]))
BY DEF LabelsInv

\* The tables keep their shape when categories and transactions have theirs.
LEMMA CategoriesWritten ==
    ASSUME TablesOK, categories' \in CategoryRows, txs' \in TransactionRows, rules' = rules
    PROVE  TablesOK'
BY DEF TablesOK

\* A category is added.
LEMMA AddCategoryKeepsTables ==
    ASSUME LabelsInv, NEW r \in Requests, AddCategory(r)
    PROVE  TablesOK'
<1> DEFINE row == req[r].row
           S == CategoryRow \cup {None}
<1>1. categories \in Seq(S) /\ categories' = Append(categories, row) /\ UNCHANGED <<txs, rules>>
  BY DEF AddCategory, LabelsInv, TablesOK, CategoryRows
<1>2. row \in S
  BY AskedOK DEF AsksOK, AddCategory
<1> HIDE DEF row, S
<1>3. categories' \in Seq(S)
  BY <1>1, <1>2, SeqAdded
<1>4. QED
  BY <1>1, <1>3 DEF LabelsInv, TablesOK, S, CategoryRows

\* A category is edited.
LEMMA EditCategoryKeepsTables ==
    ASSUME LabelsInv, NEW r \in Requests, EditCategory(r)
    PROVE  TablesOK'
<1> DEFINE id == req[r].id
           now == categories[id]
           row == Written(now, req[r].seen, req[r].change)
           S == CategoryRow \cup {None}
<1>1. /\ categories \in Seq(S) /\ id \in Ids(categories) /\ req[r].st = "edit category"
      /\ categories' = [categories EXCEPT ![id] = row] /\ UNCHANGED <<txs, rules>>
  BY DEF EditCategory, EditedCategories, LabelsInv, TablesOK, CategoryRows
<1>2. row \in S
  <2>1. req[r].change \in CategoryChanges
    BY <1>1, AskedOK DEF AsksOK
  <2>2. now \in CategoryRow
    BY <1>1, RowsOfTables DEF LabelsInv
  <2>3. QED
    BY <2>1, <2>2, WrittenCategory
<1> HIDE DEF row, S, id, now
<1>3. categories' \in Seq(S)
  BY <1>1, <1>2, SeqSet
<1>4. QED
  BY <1>1, <1>3 DEF LabelsInv, TablesOK, S, CategoryRows

(* Removing a category leaves its transactions to those given a name.      *)
LEMMA CategoryRemovedOK ==
    ASSUME TablesOK, NEW id, categories' = [categories EXCEPT ![id] = None]
    PROVE  categories' \in CategoryRows
<1> DEFINE S == CategoryRow \cup {None}
<1>1. categories \in Seq(S) /\ None \in S
  BY DEF TablesOK, CategoryRows
<1> HIDE DEF S
<1>2. categories' \in Seq(S)
  BY <1>1, SeqSet
<1>3. QED
  BY <1>2 DEF S, CategoryRows

(* Transactions that are given another row, or keep theirs.                *)
LEMMA TransactionsRewritten ==
    ASSUME TablesOK, DOMAIN txs' = DOMAIN txs, txs' = [t \in DOMAIN txs |-> txs'[t]],
           \A t \in DOMAIN txs : txs'[t] = txs[t] \/ txs'[t] \in TransactionRow
    PROVE  txs' \in TransactionRows
<1> DEFINE S == TransactionRow \cup {None}
           new == txs'
<1>1. txs \in Seq(S)
  BY DEF TablesOK, TransactionRows
<1>2. \A t \in DOMAIN txs : txs[t] \in S
  <2> HIDE DEF S
  <2>1. QED
    BY <1>1, SeqPlaces
<1>3. \A t \in DOMAIN txs : new[t] \in S
  BY <1>2
<1> HIDE DEF S
<1>4. new \in Seq(S)
  <2>1. DOMAIN new = DOMAIN txs /\ new = [t \in DOMAIN txs |-> new[t]]
    OBVIOUS
  <2> HIDE DEF new
  <2>2. QED
    BY <1>1, <1>3, <2>1, SeqWritten
<1>5. QED
  BY <1>4 DEF S, TransactionRows

\* A transaction under another category name.
LEMMA RefiledRow ==
    ASSUME NEW row \in TransactionRow, NEW name \in Names
    PROVE  [row EXCEPT !.category = name] \in TransactionRow
BY DEF TransactionRow

\* A category is removed, with or without another in its place.
LEMMA RemoveCategoryKeepsTables ==
    ASSUME LabelsInv, NEW r \in Requests,
           DeleteCategory(r) \/ ReplaceCategory(r) \/ MigrateCategory(r)
    PROVE  TablesOK'
<1>1. TablesOK /\ AsksOK(req[r])
  BY AskedOK DEF LabelsInv
<1>2. ASSUME txs' \in TransactionRows
      PROVE  TablesOK'
  <2>1. PICK id : id = req[r].id
    OBVIOUS
  <2>2. categories' = [categories EXCEPT ![id] = None] /\ rules' = rules
    BY <2>1 DEF DeleteCategory, ReplaceCategory, MigrateCategory
  <2>3. QED
    BY <1>1, <1>2, <2>2, CategoryRemovedOK, CategoriesWritten
<1>3. CASE DeleteCategory(r)
  BY <1>1, <1>2, <1>3 DEF DeleteCategory, TablesOK
<1>4. CASE ReplaceCategory(r)
  <2>1. /\ req[r].name \in Names
        /\ txs' = [t \in DOMAIN txs |->
                      IF t \in UsersOf(req[r].seen)
                        THEN [txs[t] EXCEPT !.category = req[r].name] ELSE txs[t]]
    BY <1>1, <1>4 DEF ReplaceCategory, AsksOK
  <2>2. ASSUME NEW t \in DOMAIN txs
        PROVE  txs'[t] = txs[t] \/ txs'[t] \in TransactionRow
    <3>1. t \in UsersOf(req[r].seen) => txs[t] \in TransactionRow
      BY <1>1, RowsOfTables DEF UsersOf
    <3>2. QED
      BY <2>1, <3>1, RefiledRow
  <2>3. txs' \in TransactionRows
    BY <1>1, <2>1, <2>2, TransactionsRewritten
  <2>4. QED
    BY <1>2, <2>3
<1>5. CASE MigrateCategory(r)
  <2>1. /\ \A t \in DOMAIN req[r].names : req[r].names[t] \in Names
        /\ txs' = [t \in DOMAIN txs |->
                      IF t \in Migrated(r)
                        THEN [txs[t] EXCEPT !.category = req[r].names[t]] ELSE txs[t]]
    BY <1>1, <1>5 DEF MigrateCategory, AsksOK
  <2>2. ASSUME NEW t \in DOMAIN txs
        PROVE  txs'[t] = txs[t] \/ txs'[t] \in TransactionRow
    <3>1. t \in Migrated(r) => txs[t] \in TransactionRow /\ req[r].names[t] \in Names
      BY <1>1, <2>1, RowsOfTables DEF UsersOf, Migrated
    <3>2. QED
      BY <2>1, <3>1, RefiledRow
  <2>3. txs' \in TransactionRows
    BY <1>1, <2>1, <2>2, TransactionsRewritten
  <2>4. QED
    BY <1>2, <2>3
<1>6. QED
  BY <1>3, <1>4, <1>5

\* A transaction is added.
LEMMA AddTransactionKeepsTables ==
    ASSUME LabelsInv, NEW r \in Requests, AddTransaction(r)
    PROVE  TablesOK'
<1> DEFINE row == req[r].row
           S == TransactionRow \cup {None}
<1>1. txs \in Seq(S) /\ txs' = Append(txs, row) /\ UNCHANGED <<categories, rules>>
  BY DEF AddTransaction, LabelsInv, TablesOK, TransactionRows
<1>2. row \in S
  BY AskedOK DEF AsksOK, AddTransaction
<1> HIDE DEF row, S
<1>3. txs' \in Seq(S)
  BY <1>1, <1>2, SeqAdded
<1>4. QED
  BY <1>1, <1>3 DEF LabelsInv, TablesOK, S, TransactionRows

\* A transaction is edited.
LEMMA EditTransactionKeepsTables ==
    ASSUME LabelsInv, NEW r \in Requests, EditTransaction(r)
    PROVE  TablesOK'
<1> DEFINE id == req[r].id
           now == txs[id]
           row == Written(now, req[r].seen, req[r].change)
           S == TransactionRow \cup {None}
<1>1. /\ txs \in Seq(S) /\ id \in Ids(txs) /\ req[r].st = "edit transaction"
      /\ txs' = [txs EXCEPT ![id] = row] /\ UNCHANGED <<categories, rules>>
  BY DEF EditTransaction, LabelsInv, TablesOK, TransactionRows
<1>2. row \in S
  <2>1. req[r].change \in TransactionChanges
    BY <1>1, AskedOK DEF AsksOK
  <2>2. now \in TransactionRow
    BY <1>1, RowsOfTables DEF LabelsInv
  <2>3. QED
    BY <2>1, <2>2, WrittenTransaction
<1> HIDE DEF row, S, id, now
<1>3. txs' \in Seq(S)
  BY <1>1, <1>2, SeqSet
<1>4. QED
  BY <1>1, <1>3 DEF LabelsInv, TablesOK, S, TransactionRows

\* A transaction is deleted.
LEMMA DeleteTransactionKeepsTables ==
    ASSUME LabelsInv, NEW r \in Requests, DeleteTransaction(r)
    PROVE  TablesOK'
<1> DEFINE S == TransactionRow \cup {None}
<1>1. txs \in Seq(S) /\ None \in S /\ UNCHANGED <<categories, rules>>
  BY DEF DeleteTransaction, LabelsInv, TablesOK, TransactionRows
<1>2. PICK t \in Ids(txs) : txs' = [txs EXCEPT ![t] = None]
  BY DEF DeleteTransaction
<1> HIDE DEF S
<1>3. txs' \in Seq(S)
  BY <1>1, <1>2, SeqSet
<1>4. QED
  BY <1>1, <1>3 DEF LabelsInv, TablesOK, S, TransactionRows

\* The rules are applied to transactions.
LEMMA ApplyRulesKeepsTables ==
    ASSUME LabelsInv, NEW r \in Requests, ApplyRules(r)
    PROVE  TablesOK'
<1> DEFINE f == req[r].family
           changes == req[r].changes
           column == Column(f)
<1>1. /\ TablesOK /\ UNCHANGED <<categories, rules>> /\ req[r].st = "apply rules"
      /\ DOMAIN changes \subseteq Ids(txs)
      /\ txs' = [t \in DOMAIN txs |->
                    IF t \in DOMAIN changes
                      THEN [txs[t] EXCEPT ![column] = changes[t]] ELSE txs[t]]
  BY DEF ApplyRules, LabelsInv
<1>2. f \in Families /\ \A t \in DOMAIN changes : changes[t] \in Outcomes(f)
  BY <1>1, AskedOK DEF AsksOK
<1> HIDE DEF changes, f
<1>3. ASSUME NEW row \in TransactionRow, NEW value \in Outcomes(f)
      PROVE  [row EXCEPT ![column] = value] \in TransactionRow
  <2>1. CASE f = "cashflow"
    BY <2>1 DEF Column, Outcomes, TransactionRow
  <2>2. CASE f = "description"
    BY <2>2 DEF Column, Outcomes, TransactionRow
  <2>3. QED
    BY <1>2, <2>1, <2>2 DEF Families
<1> HIDE DEF column
<1>4. ASSUME NEW t \in DOMAIN txs
      PROVE  txs'[t] = txs[t] \/ txs'[t] \in TransactionRow
  <2>1. t \in DOMAIN changes => txs[t] \in TransactionRow
    BY <1>1, RowsOfTables
  <2>2. QED
    BY <1>1, <1>2, <1>3, <2>1
<1>5. txs' \in TransactionRows
  BY <1>1, <1>4, TransactionsRewritten
<1>6. QED
  BY <1>1, <1>5 DEF TablesOK

(* A write to the table of one family of rules.                            *)
LEMMA RulesWritten ==
    ASSUME TablesOK, NEW f \in Families, NEW table \in Seq(RuleRow(f) \cup {None}),
           rules' = [rules EXCEPT ![f] = table], UNCHANGED <<categories, txs>>
    PROVE  TablesOK'
<1>1. rules' = [g \in Families |-> IF g = f THEN table ELSE rules[g]]
  BY DEF TablesOK
<1>2. \A g \in Families : rules'[g] \in Seq(RuleRow(g) \cup {None})
  BY <1>1 DEF TablesOK
<1>3. QED
  BY <1>1, <1>2 DEF TablesOK

\* A rule is added, edited or deleted.
LEMMA RuleRequestKeepsTables ==
    ASSUME LabelsInv, NEW r \in Requests,
           \/ AddRule(r) \/ EditRule(r)
           \/ \E f \in Families : DeleteRule(r, f)
    PROVE  TablesOK'
<1>1. TablesOK /\ AsksOK(req[r])
  BY AskedOK DEF LabelsInv
<1>2. ASSUME NEW f \in Families, NEW new, new \in Seq(RuleRow(f) \cup {None}),
             rules' = [rules EXCEPT ![f] = new], UNCHANGED <<categories, txs>>
      PROVE  TablesOK'
  BY <1>1, <1>2, RulesWritten
<1>3. CASE AddRule(r)
  <2> DEFINE f == req[r].family
             row == req[r].row
             S == RuleRow(f) \cup {None}
             table == rules[f]
             new == Append(table, row)
  <2>1. /\ f \in Families /\ row \in S /\ table \in Seq(S)
        /\ rules' = [rules EXCEPT ![f] = new] /\ UNCHANGED <<categories, txs>>
    BY <1>1, <1>3 DEF AddRule, AsksOK, TablesOK
  <2> HIDE DEF row, S, table
  <2>2. new \in Seq(S)
    BY <2>1, SeqAdded
  <2> HIDE DEF new
  <2>3. QED
    BY <1>2, <2>1, <2>2 DEF S
<1>4. CASE EditRule(r)
  <2> DEFINE f == req[r].family
             id == req[r].id
             S == RuleRow(f) \cup {None}
             table == rules[f]
             row == Written(table[id], req[r].seen, req[r].change)
             new == [table EXCEPT ![id] = row]
  <2>1. /\ f \in Families /\ req[r].change \in RuleChanges(f) /\ table \in Seq(S)
        /\ id \in Ids(table) /\ UNCHANGED <<categories, txs>>
        /\ rules' = [rules EXCEPT ![f][id] = Written(@, req[r].seen, req[r].change)]
    BY <1>1, <1>4 DEF EditRule, AsksOK, TablesOK
  <2>2. rules' = [rules EXCEPT ![f] = new]
    BY <1>1, <2>1 DEF TablesOK
  <2>3. table[id] \in RuleRow(f)
    BY <1>1, <2>1, RowsOfTables
  <2>4. row \in S
    BY <2>1, <2>3, WrittenRule
  <2> HIDE DEF row, S, table, id
  <2>5. new \in Seq(S)
    BY <2>1, <2>4, SeqSet
  <2> HIDE DEF new
  <2>6. QED
    BY <1>2, <2>1, <2>2, <2>5 DEF S
<1>5. ASSUME NEW f \in Families, DeleteRule(r, f)
      PROVE  TablesOK'
  <2> DEFINE S == RuleRow(f) \cup {None}
             table == rules[f]
  <2>1. PICK id \in Ids(table) : rules' = [rules EXCEPT ![f][id] = None]
    BY <1>5 DEF DeleteRule
  <2> DEFINE new == [table EXCEPT ![id] = None]
  <2>2. /\ table \in Seq(S) /\ None \in S /\ UNCHANGED <<categories, txs>>
        /\ rules' = [rules EXCEPT ![f] = new]
    BY <1>1, <1>5, <2>1 DEF DeleteRule, TablesOK
  <2> HIDE DEF S, table
  <2>3. new \in Seq(S)
    BY <2>2, SeqSet
  <2> HIDE DEF new
  <2>4. QED
    BY <1>2, <2>2, <2>3 DEF S
<1>6. QED
  BY <1>3, <1>4, <1>5

\* Every step keeps the invariant.
LEMMA StepKeepsLabelsInv ==
    ASSUME LabelsInv, [LabelsNext]_labelVars
    PROVE  LabelsInv'
<1>0. TablesOK
  BY DEF LabelsInv
<1>1. ASSUME NEW r \in Requests, Begins(r)
      PROVE  LabelsInv'
  BY <1>1, BeginKeepsInv DEF Begins
<1>2. ASSUME NEW r \in Requests, Start(r)
      PROVE  LabelsInv'
  <2>1. \/ StartAddCategory(r) \/ StartEditCategory(r) \/ StartDeleteCategory(r)
        \/ StartReplaceCategory(r) \/ StartMigrateCategory(r)
        => LabelsInv'
    BY <1>0, <1>1, CategoryRequestBegins
  <2>2. StartAddTransaction(r) \/ StartEditTransaction(r) => LabelsInv'
    BY <1>0, <1>1, TransactionRequestBegins
  <2>3. DeleteTransaction(r) => LabelsInv'
    BY DeleteTransactionKeepsTables, CommitKeepsInv DEF DeleteTransaction
  <2>4. ASSUME NEW f \in Families,
               StartAddRule(r, f) \/ StartEditRule(r, f) \/ StartApplyRules(r, f)
        PROVE  LabelsInv'
    BY <1>0, <1>1, <2>4, RuleRequestBegins
  <2>5. ASSUME NEW f \in Families, DeleteRule(r, f)
        PROVE  LabelsInv'
    BY <2>5, RuleRequestKeepsTables, CommitKeepsInv DEF DeleteRule
  <2>6. QED
    BY <1>2, <2>1, <2>2, <2>3, <2>4, <2>5, Zenon DEF Start
<1>3. ASSUME NEW r \in Requests, Write(r)
      PROVE  LabelsInv'
  <2>1. Commit(r)
    BY <1>3 DEF Write, AddCategory, EditCategory, DeleteCategory, ReplaceCategory,
                MigrateCategory, AddTransaction, EditTransaction, AddRule, EditRule, ApplyRules
  <2>2. TablesOK'
    BY <1>3, AddCategoryKeepsTables, EditCategoryKeepsTables, RemoveCategoryKeepsTables,
       AddTransactionKeepsTables, EditTransactionKeepsTables, RuleRequestKeepsTables,
       ApplyRulesKeepsTables, Zenon DEF Write
  <2>3. QED
    BY <2>1, <2>2, CommitKeepsInv
<1>4. ASSUME NEW r \in Requests, Fail(r)
      PROVE  LabelsInv'
  BY <1>4, FailKeepsInv
<1>5. ASSUME UNCHANGED labelVars
      PROVE  LabelsInv'
  <2>1. UNCHANGED <<categories, txs, rules>> /\ req' = req /\ stale' = stale
    BY <1>5 DEF labelVars
  <2>2. TablesOK'
    BY <1>0, <2>1, TablesStay
  <2>3. ASSUME NEW r \in Requests
        PROVE  \E q : q = req'[r] /\ AsksOK(q) /\ (r \in stale' \/ Fresh(q)')
    <3>1. PICK q : q = req[r] /\ AsksOK(q) /\ (r \in stale \/ Fresh(q))
      BY DEF LabelsInv
    <3>2. Fresh(q) => Fresh(q)'
      BY <2>1, FreshStays
    <3>3. QED
      BY <2>1, <3>1, <3>2
  <2>4. QED
    BY <2>1, <2>2, <2>3 DEF LabelsInv
<1>6. QED
  BY <1>2, <1>3, <1>4, <1>5 DEF LabelsNext

\* It holds before any request.
LEMMA InitLabelsInv == LabelsInit => LabelsInv
<1> SUFFICES ASSUME LabelsInit PROVE LabelsInv
  OBVIOUS
<1>1. TablesOK
  BY StoredAssumption DEF LabelsInit, TablesOK, CategoryRows, TransactionRows
<1>2. req = [r \in Requests |-> [st |-> "new"]]
  BY DEF LabelsInit
<1>3. \A r \in Requests : \E q : q = req[r] /\ AsksOK(q) /\ (r \in stale \/ Fresh(q))
  BY <1>2, EndedFresh
<1>4. QED
  BY <1>1, <1>2, <1>3 DEF LabelsInv

(* The rows keep their columns, and what a request has checked still holds *)
(* of the tables for as long as nobody else commits: every check is made   *)
(* in the request's own transaction (session_scope), without locks.        *)
THEOREM LabelsInvariant == LabelsSpec => []LabelsInv
<1>1. LabelsInv /\ [LabelsNext]_labelVars => LabelsInv'
  BY StepKeepsLabelsInv
<1>2. QED
  BY <1>1, InitLabelsInv, PTL DEF LabelsSpec

-----------------------------------------------------------------------------
(* Steps *)

(* What a step commits: nothing, a removal of a row, or what a request in  *)
(* flight has asked for.                                                   *)
Removes(r) == DeleteTransaction(r) \/ \E f \in Families : DeleteRule(r, f)

\* A step leaves the tables alone, removes a row, or is the write of a request.
LEMMA StepIs ==
    ASSUME [LabelsNext]_labelVars
    PROVE  \/ UNCHANGED <<categories, txs, rules>>
           \/ \E r \in Requests : Removes(r) \/ Write(r)
<1>1. ASSUME NEW r \in Requests, Start(r)
      PROVE  UNCHANGED <<categories, txs, rules>> \/ Removes(r)
  <2>1. ASSUME NEW what, Begin(r, what)
        PROVE  UNCHANGED <<categories, txs, rules>>
    BY <2>1 DEF Begin
  <2>2. \/ StartAddCategory(r) \/ StartEditCategory(r) \/ StartDeleteCategory(r)
        \/ StartReplaceCategory(r) \/ StartMigrateCategory(r)
        => UNCHANGED <<categories, txs, rules>>
    BY <2>1, Zenon DEF StartAddCategory, StartEditCategory, StartDeleteCategory,
                       StartReplaceCategory, StartMigrateCategory
  <2>3. StartAddTransaction(r) \/ StartEditTransaction(r)
        => UNCHANGED <<categories, txs, rules>>
    BY <2>1, Zenon DEF StartAddTransaction, StartEditTransaction
  <2>4. ASSUME NEW f \in Families, StartAddRule(r, f) \/ StartEditRule(r, f) \/ StartApplyRules(r, f)
        PROVE  UNCHANGED <<categories, txs, rules>>
    BY <2>1, <2>4, Zenon DEF StartAddRule, StartEditRule, StartApplyRules
  <2>5. QED
    BY <1>1, <2>2, <2>3, <2>4, Zenon DEF Start, Removes
<1>2. ASSUME NEW r \in Requests, Fail(r)
      PROVE  UNCHANGED <<categories, txs, rules>>
  BY <1>2 DEF Fail
<1>3. QED
  BY <1>1, <1>2 DEF LabelsNext, labelVars

(* A request in flight ends by its own write or by failing.                *)
LEMMA EndsByItself ==
    ASSUME LabelsInv, [LabelsNext]_labelVars, NEW r \in InFlight, req'[r].st = "ended"
    PROVE  Write(r) \/ Fail(r)
<1>0. r \in Requests /\ req[r].st \notin {"new", "ended"}
  BY DEF InFlight
<1>1. ASSUME NEW x \in Requests, NEW what, req' = [req EXCEPT ![x] = what]
      PROVE  x = r
  BY <1>0, <1>1 DEF LabelsInv
<1>2. ASSUME NEW x \in Requests, Start(x)
      PROVE  FALSE
  <2>1. IsNext(x) /\ \E what : req' = [req EXCEPT ![x] = what]
    <3>1. ASSUME NEW what, Begin(x, what)
          PROVE  IsNext(x) /\ \E w : req' = [req EXCEPT ![x] = w]
      BY <3>1, Zenon DEF Begin
    <3>2. \/ StartAddCategory(x) \/ StartEditCategory(x) \/ StartDeleteCategory(x)
          \/ StartReplaceCategory(x) \/ StartMigrateCategory(x)
          => IsNext(x) /\ \E w : req' = [req EXCEPT ![x] = w]
      BY <3>1, Zenon DEF StartAddCategory, StartEditCategory, StartDeleteCategory,
                         StartReplaceCategory, StartMigrateCategory
    <3>3. StartAddTransaction(x) \/ StartEditTransaction(x)
          => IsNext(x) /\ \E w : req' = [req EXCEPT ![x] = w]
      BY <3>1, Zenon DEF StartAddTransaction, StartEditTransaction
    <3>4. DeleteTransaction(x) => IsNext(x) /\ \E w : req' = [req EXCEPT ![x] = w]
      BY Zenon DEF DeleteTransaction, Commit
    <3>5. ASSUME NEW f \in Families,
                 \/ StartAddRule(x, f) \/ StartEditRule(x, f) \/ StartApplyRules(x, f)
                 \/ DeleteRule(x, f)
          PROVE  IsNext(x) /\ \E w : req' = [req EXCEPT ![x] = w]
      BY <3>1, <3>5, Zenon DEF StartAddRule, StartEditRule, StartApplyRules, DeleteRule, Commit
    <3>6. QED
      BY <1>2, <3>2, <3>3, <3>4, <3>5, Zenon DEF Start
  <2>2. x = r
    BY <1>1, <2>1
  <2>3. QED
    BY <1>0, <2>1, <2>2 DEF IsNext
<1>3. ASSUME NEW x \in Requests, Write(x) \/ Fail(x)
      PROVE  x = r
  <2>1. req' = [req EXCEPT ![x] = [st |-> "ended"]]
    BY <1>3 DEF Write, Fail, Commit, AddCategory, EditCategory, DeleteCategory, ReplaceCategory,
                MigrateCategory, AddTransaction, EditTransaction, AddRule, EditRule, ApplyRules
  <2>2. QED
    BY <1>1, <2>1
<1>4. ~UNCHANGED labelVars
  BY <1>0 DEF labelVars
<1>5. QED
  BY <1>2, <1>3, <1>4 DEF LabelsNext

\* When a category is replaced or migrated, a transaction that another request
\* has filed under another name by then keeps its category: the UPDATE names
\* the category it was reviewed under (apply_reviewed_migration,
\* replace_and_delete).
THEOREM LaterChoicesKept == LabelsSpec => LaterChoicesSurvive
<1>1. ASSUME LabelsInv, [LabelsNext]_labelVars, NEW r \in InFlight, NEW t \in Ids(txs),
             req[r].st \in {"replace category", "migrate category"},
             req'[r].st = "ended", txs[t].category # req[r].seen.name
      PROVE  txs'[t] = txs[t]
  <2>1. Write(r) \/ Fail(r)
    BY <1>1, EndsByItself
  <2>2. t \notin UsersOf(req[r].seen) /\ t \notin Migrated(r) /\ t \in DOMAIN txs
    BY <1>1 DEF UsersOf, Uses, Migrated, Ids
  <2>3. ReplaceCategory(r) \/ MigrateCategory(r) \/ Fail(r)
    BY <1>1, <2>1 DEF Write, AddCategory, EditCategory, DeleteCategory, AddTransaction,
                      EditTransaction, AddRule, EditRule, ApplyRules
  <2>4. QED
    BY <2>2, <2>3 DEF ReplaceCategory, MigrateCategory, Fail
<1>2. LabelsInv /\ [LabelsNext]_labelVars =>
        [\A r \in InFlight, t \in Ids(txs) :
            ( /\ req[r].st \in {"replace category", "migrate category"}
              /\ req'[r].st = "ended" /\ txs[t].category # req[r].seen.name ) =>
                 txs'[t] = txs[t]]_labelVars
  BY <1>1
<1>3. QED
  BY <1>2, LabelsInvariant, PTL DEF LabelsSpec, LaterChoicesSurvive

-----------------------------------------------------------------------------
(* Applying rules *)

(* A rule looks for the same text in the same place, unless it looks at    *)
(* what is written.                                                        *)
LEMMA SameMatches ==
    ASSUME NEW f \in Families, NEW rule \in RuleRow(f), NEW tx \in TransactionRow,
           NEW value, f = "description" => rule.field # "description"
    PROVE  LET new == [tx EXCEPT ![Column(f)] = value]
           IN  Matches(rule, new) <=> Matches(rule, tx)
<1>1. rule.field \in {"raw", "description"} /\ rule.field # Column(f)
  BY DEF RuleRow, Column, Families
<1>2. DOMAIN tx = {"category", "dir", "type", "description", "raw"}
  BY DEF TransactionRow
<1>3. Column(f) # "dir"
  BY DEF Column
<1> DEFINE new == [tx EXCEPT ![Column(f)] = value]
<1>4. new.dir = tx.dir /\ new[rule.field] = tx[rule.field]
  BY <1>1, <1>2, <1>3
<1>5. QED
  BY <1>4 DEF Matches, LookedAt

\* A transaction with one column set by a rule.
LEMMA OutcomeWritten ==
    ASSUME NEW f \in Families, NEW row \in TransactionRow, NEW value \in Outcomes(f)
    PROVE  /\ [row EXCEPT ![Column(f)] = value] \in TransactionRow
           /\ [row EXCEPT ![Column(f)] = value][Column(f)] = value
<1>1. CASE f = "cashflow"
  BY <1>1 DEF Column, Outcomes, TransactionRow
<1>2. CASE f = "description"
  BY <1>2 DEF Column, Outcomes, TransactionRow
<1>3. QED
  BY <1>1, <1>2 DEF Families

\* Once the rules have been applied to the newest transactions by a request
\* that nobody overtook, they would change none of them: the first matching
\* rule decides and nothing it looks at is written (apply_rules of the two
\* rule services), except by description rules over descriptions.
THEOREM AppliedRulesAreSettled == LabelsSpec => AppliedRulesSettle
<1>1. ASSUME LabelsInv, NEW r \in InFlight \ stale, NEW f \in Families, NEW limit \in Limits,
             req[r].st = "apply rules", ApplyRules(r), req[r].family = f, req[r].limit = limit,
             f = "description" => \A i \in Ids(rules[f]) : rules[f][i].field # "description"
      PROVE  Changes(f, limit)' = <<>>
  <2>0. r \in Requests /\ r \notin stale
    BY <1>1 DEF InFlight
  <2>1. TablesOK /\ Fresh(req[r])
    BY <1>1, <2>0, AskedOK DEF LabelsInv
  <2>2. PICK ch : ch = Changes(f, limit)
    OBVIOUS
  <2>3. req[r].changes = ch
    BY <1>1, <2>1, <2>2 DEF Fresh, FreshRule
  <2>4. /\ DOMAIN ch \subseteq Ids(txs) /\ rules' = rules
        /\ txs' = [t \in DOMAIN txs |->
                      IF t \in DOMAIN ch
                        THEN [txs[t] EXCEPT ![Column(f)] = ch[t]] ELSE txs[t]]
    BY <1>1, <2>3 DEF ApplyRules
  <2>5. /\ DOMAIN ch = {u \in Newest(limit) : OutcomeOf(f, txs[u]) # txs[u][Column(f)]}
        /\ \A t \in DOMAIN ch : ch[t] = OutcomeOf(f, txs[t]) /\ ch[t] \in Outcomes(f)
    BY <2>1, <2>2, <2>4, OutcomeShape DEF Changes
  <2>6. \A t \in Ids(txs) : txs[t] \in TransactionRow
    BY <2>1, RowsOfTables
  <2>7. ASSUME NEW t \in DOMAIN ch
        PROVE  txs'[t] \in TransactionRow /\ txs'[t][Column(f)] = ch[t]
    <3>1. t \in DOMAIN txs /\ t \in Ids(txs)
      BY <2>4 DEF Ids
    <3>2. QED
      BY <2>4, <2>5, <2>6, <3>1, OutcomeWritten
  <2>8. Ids(txs)' = Ids(txs)
    <3>1. \A t \in DOMAIN txs : txs'[t] # None <=> txs[t] # None
      BY <2>4, <2>7, NoneAssumption DEF Ids
    <3>2. DOMAIN txs' = DOMAIN txs
      BY <2>4
    <3>3. QED
      BY <3>1, <3>2 DEF Ids
  <2>9. Newest(limit)' = Newest(limit)
    BY <2>8 DEF Newest
  <2>10. ASSUME NEW t \in Ids(txs)
         PROVE  ActiveMatches(f, txs[t])' = ActiveMatches(f, txs[t])
    <3>1. PICK new : new = txs'[t]
      OBVIOUS
    <3>2. ASSUME NEW i \in Ids(rules[f])
          PROVE  Matches(rules[f][i], new) <=> Matches(rules[f][i], txs[t])
      <4>1. rules[f][i] \in RuleRow(f)
        BY <2>1, RowsOfTables
      <4>2. CASE t \in DOMAIN ch
        <5>1. new = [txs[t] EXCEPT ![Column(f)] = ch[t]]
          BY <2>4, <3>1, <4>2 DEF Ids
        <5>2. f = "description" => rules[f][i].field # "description"
          BY <1>1
        <5>3. QED
          BY <2>6, <4>1, <5>1, <5>2, SameMatches
      <4>3. CASE t \notin DOMAIN ch
        BY <2>4, <3>1, <4>3 DEF Ids
      <4>4. QED
        BY <4>2, <4>3
    <3>3. ActiveMatches(f, txs[t])' = {i \in ActiveRules(f) : Matches(rules[f][i], new)}
      <4>1. ActiveRules(f)' = ActiveRules(f)
        BY <2>4 DEF ActiveRules, Ids
      <4>2. QED
        BY <2>4, <3>1, <4>1 DEF ActiveMatches, Matches, LookedAt
    <3>4. QED
      BY <3>2, <3>3 DEF ActiveMatches, ActiveRules
  <2>11. ASSUME NEW t \in Newest(limit)
         PROVE  OutcomeOf(f, txs[t])' = txs'[t][Column(f)]
    <3>0. t \in Ids(txs) /\ t \in DOMAIN txs
      BY DEF Newest, Ids
    <3>1. PICK hits : hits = ActiveMatches(f, txs[t])
      OBVIOUS
    <3>2. ActiveMatches(f, txs[t])' = hits
      BY <2>10, <3>0, <3>1
    <3>3. CASE hits = {}
      BY <3>2, <3>3 DEF OutcomeOf
    <3>4. CASE hits # {}
      <4>1. /\ OutcomeOf(f, txs[t]) = rules[f][Min(hits)].outcome
            /\ OutcomeOf(f, txs[t])' = rules[f][Min(hits)].outcome
        BY <2>4, <3>1, <3>2, <3>4 DEF OutcomeOf
      <4>2. CASE t \in DOMAIN ch
        BY <2>5, <2>7, <4>1, <4>2
      <4>3. CASE t \notin DOMAIN ch
        BY <2>4, <2>5, <3>0, <4>1, <4>3
      <4>4. QED
        BY <4>2, <4>3
    <3>5. QED
      BY <3>3, <3>4
  <2>12. {u \in Newest(limit)' : OutcomeOf(f, txs[u])' # txs'[u][Column(f)]} = {}
    BY <2>9, <2>11
  <2>13. DOMAIN Changes(f, limit)' = {}
    BY <2>12, Zenon DEF Changes, Column
  <2>14. QED
    <3>1. Changes(f, limit)' = [t \in DOMAIN Changes(f, limit)' |-> Changes(f, limit)'[t]]
      BY DEF Changes
    <3>2. QED
      BY <2>13, <3>1
<1>2. LabelsInv /\ [LabelsNext]_labelVars =>
        [\A r \in InFlight \ stale, f \in Families, limit \in Limits :
            ( /\ req[r].st = "apply rules" /\ ApplyRules(r)
              /\ req[r].family = f /\ req[r].limit = limit
              /\ f = "description" =>
                   \A i \in Ids(rules[f]) : rules[f][i].field # "description" ) =>
                 Changes(f, limit)' = <<>>]_labelVars
  BY <1>1
<1>3. QED
  BY <1>2, LabelsInvariant, PTL DEF LabelsSpec, AppliedRulesSettle

-----------------------------------------------------------------------------
(* Twins *)

(* One row is written or removed, the others are kept.                     *)
OthersKept(table, new, id) ==
    \A c \in Ids(new) \ {id} : c \in Ids(table) /\ new[c] = table[c]

(* No other row is like the written one. *)
LEMMA NoNewTwins ==
    ASSUME NEW x, NEW row, Ids(categories') \subseteq Nat,
           OthersKept(categories, categories', x),
           x \in Ids(categories') => categories'[x] = row /\ NoDuplicateOf(row, {x})
    PROVE  Twins' \subseteq Twins
<1> SUFFICES ASSUME NEW c \in Ids(categories'), NEW d \in Ids(categories'), c < d,
                    Equivalent(categories'[c], categories'[d])
             PROVE  /\ c \in Ids(categories) /\ d \in Ids(categories)
                    /\ Equivalent(categories[c], categories[d])
  BY DEF Twins
<1>1. c # d
  <2>1. c \in Nat /\ d \in Nat
    OBVIOUS
  <2>2. QED
    BY <2>1
<1>2. CASE c = x
  BY <1>1, <1>2 DEF NoDuplicateOf, Equivalent, SameGroup, OthersKept
<1>3. CASE d = x
  BY <1>1, <1>3 DEF NoDuplicateOf, Equivalent, SameGroup, OthersKept
<1>4. CASE c # x /\ d # x
  BY <1>4 DEF OthersKept
<1>5. QED
  BY <1>2, <1>3, <1>4

\* Writing one rule that had no equal adds no pair of equal rules.
LEMMA NoNewTwinRules ==
    ASSUME NEW f, NEW x, NEW row,
           OthersKept(rules[f], rules'[f], x),
           x \in Ids(rules'[f]) => rules'[f][x] = row /\ NoEquivalentRule(f, row, {x})
    PROVE  TwinRules(f)' \subseteq TwinRules(f)
<1> SUFFICES ASSUME NEW i \in Ids(rules'[f]), NEW j \in Ids(rules'[f]), i # j,
                    RuleKey(rules'[f][i]) = RuleKey(rules'[f][j])
             PROVE  /\ i \in Ids(rules[f]) /\ j \in Ids(rules[f])
                    /\ RuleKey(rules[f][i]) = RuleKey(rules[f][j])
  BY DEF TwinRules, NoEquivalentRule
<1>1. CASE i = x
  BY <1>1 DEF NoEquivalentRule, OthersKept
<1>2. CASE j = x
  BY <1>2 DEF NoEquivalentRule, OthersKept
<1>3. CASE i # x /\ j # x
  BY <1>3 DEF OthersKept
<1>4. QED
  BY <1>1, <1>2, <1>3

NoTwinsAdded ==
    Twins' \subseteq Twins /\ \A f \in Families : TwinRules(f)' \subseteq TwinRules(f)

\* Rules left alone keep their pairs.
LEMMA OtherRulesKeepTwins ==
    ASSUME NEW f, rules'[f] = rules[f]
    PROVE  TwinRules(f)' = TwinRules(f)
BY DEF TwinRules, NoEquivalentRule, Ids

(* A row of a table is written, a row is added. *)
Sets(table, new, id, row) == new = [table EXCEPT ![id] = row]

Adds(table, new, row) == new = Append(table, row)

\* Setting one row of a table leaves the others alone.
LEMMA RowSet ==
    ASSUME NEW S, NEW table \in Seq(S), NEW id, NEW row \in S, NEW new,
           Sets(table, new, id, row)
    PROVE  /\ OthersKept(table, new, id)
           /\ id \in Ids(new) => new[id] = row
           /\ row = None => id \notin Ids(new)
BY SeqSet DEF Ids, OthersKept, Sets

\* Adding a row to a table leaves the others alone.
LEMMA RowAdded ==
    ASSUME NEW S, NEW table \in Seq(S), NEW row \in S, NEW new, Adds(table, new, row),
           NEW id, id = Len(table) + 1
    PROVE  /\ OthersKept(table, new, id)
           /\ new[id] = row /\ id \notin Ids(table)
           /\ Ids(table) \subseteq Ids(new)
<1>1. /\ DOMAIN new = DOMAIN table \cup {id} /\ id \notin DOMAIN table
      /\ new[id] = row /\ \A i \in DOMAIN table : new[i] = table[i]
  BY SeqAdded DEF Adds
<1>2. QED
  BY <1>1 DEF Ids, OthersKept

\* The write of a category request that saw the rows as they are adds no pair.
LEMMA CategoryWriteAddsNoTwins ==
    ASSUME LabelsInv, TablesOK', NEW r \in Requests, Fresh(req[r]),
           \/ AddCategory(r) \/ EditCategory(r)
           \/ DeleteCategory(r) \/ ReplaceCategory(r) \/ MigrateCategory(r)
    PROVE  NoTwinsAdded
<1> DEFINE S == CategoryRow \cup {None}
<1>0. /\ TablesOK /\ categories \in Seq(S) /\ AsksOK(req[r]) /\ None \in S
      /\ FreshCategory(req[r])
  BY AskedOK DEF LabelsInv, TablesOK, CategoryRows, Fresh
<1>7. Ids(categories') \subseteq Nat
  <2>1. PICK new : new = categories'
    OBVIOUS
  <2>2. new \in Seq(S)
    BY <2>1 DEF TablesOK, CategoryRows
  <2> HIDE DEF S
  <2>3. DOMAIN new \subseteq Nat
    BY <2>2, SeqPlaces
  <2>4. QED
    BY <2>1, <2>3 DEF Ids
<1>1. rules' = rules
  BY DEF AddCategory, EditCategory, DeleteCategory, ReplaceCategory, MigrateCategory
<1>2. \A f \in Families : TwinRules(f)' \subseteq TwinRules(f)
  BY <1>1, OtherRulesKeepTwins
<1>3. CASE AddCategory(r)
  <2>1. PICK row : row = req[r].row
    OBVIOUS
  <2>2. row \in S /\ NoDuplicateOf(row, {}) /\ Adds(categories, categories', row)
    BY <1>0, <1>3, <2>1 DEF Adds, AddCategory, AsksOK, FreshCategory
  <2> HIDE DEF S
  <2>6. PICK id : id = Len(categories) + 1
    OBVIOUS
  <2>3. OthersKept(categories, categories', id) /\ categories'[id] = row
    BY <1>0, <2>2, <2>6, RowAdded
  <2>4. NoDuplicateOf(row, {id})
    BY <2>2 DEF NoDuplicateOf
  <2>5. Twins' \subseteq Twins
    BY <2>3, <2>4, <1>7, NoNewTwins
  <2>7. QED
    BY <1>2, <2>5 DEF NoTwinsAdded
<1>4. CASE EditCategory(r)
  <2>1. PICK id, row : id = req[r].id /\ row = Written(categories[id], req[r].seen, req[r].change)
    OBVIOUS
  <2>2. /\ id \in Ids(categories) /\ req[r].change \in CategoryChanges
        /\ req[r].seen = categories[id] /\ Sets(categories, categories', id, row)
        /\ NoDuplicateOf(Edited(req[r].seen, req[r].change), {id})
    BY <1>0, <1>4, <2>1 DEF Sets, EditCategory, EditedCategories, AsksOK, FreshCategory, SeesCategory
  <2>3. NoDuplicateOf(row, {id})
    BY <2>1, <2>2 DEF Edited
  <2>4. row \in S
    BY <1>0, <2>1, <2>2, RowsOfTables, WrittenCategory
  <2> HIDE DEF S
  <2>5. /\ OthersKept(categories, categories', id)
        /\ id \in Ids(categories') => categories'[id] = row
    BY <1>0, <2>2, <2>4, RowSet
  <2>6. Twins' \subseteq Twins
    BY <2>3, <2>5, <1>7, NoNewTwins
  <2>7. QED
    BY <1>2, <2>6 DEF NoTwinsAdded
<1>5. CASE DeleteCategory(r) \/ ReplaceCategory(r) \/ MigrateCategory(r)
  <2>1. PICK id : id = req[r].id
    OBVIOUS
  <2>2. Sets(categories, categories', id, None)
    BY <1>5, <2>1 DEF Sets, DeleteCategory, ReplaceCategory, MigrateCategory
  <2> HIDE DEF S
  <2>3. OthersKept(categories, categories', id) /\ id \notin Ids(categories')
    BY <1>0, <2>2, RowSet
  <2>4. Twins' \subseteq Twins
    BY <2>3, <1>7, NoNewTwins
  <2>5. QED
    BY <1>2, <2>4 DEF NoTwinsAdded
<1>6. QED
  BY <1>3, <1>4, <1>5

\* Nor does the write of a rule request that did.
LEMMA RuleWriteAddsNoTwins ==
    ASSUME LabelsInv, NEW r \in Requests,
           \/ Fresh(req[r]) /\ (AddRule(r) \/ EditRule(r))
           \/ \E f \in Families : DeleteRule(r, f)
    PROVE  NoTwinsAdded
<1>0. /\ TablesOK /\ AsksOK(req[r]) /\ rules = [f \in Families |-> rules[f]]
  BY AskedOK DEF LabelsInv, TablesOK
<1>1. Twins' \subseteq Twins
  BY DEF AddRule, EditRule, DeleteRule, Twins
<1>2. ASSUME NEW f \in Families, NEW new, rules' = [rules EXCEPT ![f] = new],
             NEW x, NEW row,
             OthersKept(rules[f], new, x),
             x \in Ids(new) => new[x] = row /\ NoEquivalentRule(f, row, {x})
      PROVE  NoTwinsAdded
  <2>1. rules'[f] = new /\ \A g \in Families \ {f} : rules'[g] = rules[g]
    BY <1>0, <1>2
  <2>2. TwinRules(f)' \subseteq TwinRules(f)
    BY <1>2, <2>1, NoNewTwinRules
  <2>3. \A g \in Families \ {f} : TwinRules(g)' = TwinRules(g)
    BY <2>1, OtherRulesKeepTwins
  <2>4. QED
    BY <1>1, <2>2, <2>3 DEF NoTwinsAdded
<1>3. ASSUME Fresh(req[r]), AddRule(r)
      PROVE  NoTwinsAdded
  <2>1. PICK f, row, table, S :
          /\ f = req[r].family /\ row = req[r].row /\ table = rules[f]
          /\ S = RuleRow(f) \cup {None}
    OBVIOUS
  <2>2. /\ f \in Families /\ row \in S /\ table \in Seq(S)
        /\ NoEquivalentRule(f, row, {})
    BY <1>0, <1>3, <2>1 DEF AddRule, AsksOK, TablesOK, Fresh, FreshRule
  <2>3. PICK new : Adds(table, new, row)
    BY DEF Adds
  <2>4. rules' = [rules EXCEPT ![f] = new]
    BY <1>3, <2>1, <2>3 DEF AddRule, Adds
  <2>8. PICK x : x = Len(table) + 1
    OBVIOUS
  <2>5. OthersKept(table, new, x) /\ new[x] = row
    BY <2>2, <2>3, <2>8, RowAdded
  <2>6. NoEquivalentRule(f, row, {x})
    BY <2>2 DEF NoEquivalentRule
  <2>7. QED
    BY <1>2, <2>1, <2>2, <2>4, <2>5, <2>6, Zenon
<1>4. ASSUME Fresh(req[r]), EditRule(r)
      PROVE  NoTwinsAdded
  <2>1. PICK f, id, table, S, row :
          /\ f = req[r].family /\ id = req[r].id /\ table = rules[f]
          /\ S = RuleRow(f) \cup {None}
          /\ row = Written(table[id], req[r].seen, req[r].change)
    OBVIOUS
  <2>2. /\ f \in Families /\ req[r].change \in RuleChanges(f) /\ table \in Seq(S)
        /\ id \in Ids(table) /\ req[r].seen = table[id]
        /\ NoEquivalentRule(f, Edited(req[r].seen, req[r].change), {id})
    BY <1>0, <1>4, <2>1 DEF EditRule, AsksOK, TablesOK, Fresh, FreshRule
  <2>3. row \in S
    BY <1>0, <2>1, <2>2, RowsOfTables, WrittenRule
  <2>4. NoEquivalentRule(f, row, {id})
    BY <2>1, <2>2 DEF Edited
  <2>5. PICK new : Sets(table, new, id, row)
    BY DEF Sets
  <2>6. rules' = [rules EXCEPT ![f] = new]
    BY <1>0, <1>4, <2>1, <2>2, <2>5 DEF EditRule, Sets
  <2>7. OthersKept(table, new, id) /\ (id \in Ids(new) => new[id] = row)
    BY <2>2, <2>3, <2>5, RowSet
  <2>8. QED
    BY <1>2, <2>1, <2>2, <2>4, <2>6, <2>7, Zenon
<1>5. ASSUME NEW f \in Families, DeleteRule(r, f)
      PROVE  NoTwinsAdded
  <2>1. PICK table, S : table = rules[f] /\ S = RuleRow(f) \cup {None}
    OBVIOUS
  <2>2. PICK id \in Ids(table) : rules' = [rules EXCEPT ![f][id] = None]
    BY <1>5, <2>1 DEF DeleteRule
  <2>3. table \in Seq(S) /\ None \in S
    BY <1>0, <2>1 DEF TablesOK
  <2>4. PICK new : Sets(table, new, id, None)
    BY DEF Sets
  <2>5. rules' = [rules EXCEPT ![f] = new]
    BY <1>0, <2>1, <2>2, <2>4 DEF Sets
  <2>6. OthersKept(table, new, id) /\ id \notin Ids(new)
    BY <2>3, <2>4, RowSet
  <2>7. QED
    BY <1>2, <2>1, <2>5, <2>6, Zenon
<1>6. QED
  BY <1>3, <1>4, <1>5

\* Two categories of one name, or two rules that look for one text in one
\* place, come about only when a request was overtaken between its check and
\* its commit: add_category, update_category and their counterparts for rules
\* check for duplicates themselves, and nothing else does.
THEOREM TwinsComeFromOvertakenRequests == LabelsSpec => TwinsNeedAnOvertakenRequest
<1>1. ASSUME LabelsInv, [LabelsNext]_labelVars, ~NoTwinsAdded
      PROVE  \E r \in InFlight \cap stale : req'[r].st = "ended"
  <2>1. ~UNCHANGED <<categories, txs, rules>>
    BY <1>1 DEF NoTwinsAdded, Twins, TwinRules, NoEquivalentRule
  <2>2. PICK r \in Requests : Removes(r) \/ Write(r)
    BY <1>1, <2>1, StepIs
  <2>3. ~Removes(r)
    <3>1. ~DeleteTransaction(r)
      BY <1>1 DEF DeleteTransaction, NoTwinsAdded, Twins, TwinRules, NoEquivalentRule
    <3>2. QED
      BY <1>1, <3>1, RuleWriteAddsNoTwins DEF Removes
  <2>4. Write(r) /\ Commit(r) /\ r \in InFlight
    BY <2>2, <2>3 DEF Write, AddCategory, EditCategory, DeleteCategory, ReplaceCategory,
                MigrateCategory, AddTransaction, EditTransaction, AddRule, EditRule, ApplyRules,
                InFlight
  <2>5. ~(AddTransaction(r) \/ EditTransaction(r) \/ ApplyRules(r))
    BY <1>1 DEF AddTransaction, EditTransaction, ApplyRules, NoTwinsAdded, Twins, TwinRules,
                NoEquivalentRule
  <2>10. TablesOK'
    BY <1>1, StepKeepsLabelsInv DEF LabelsInv
  <2>6. ~Fresh(req[r])
    BY <1>1, <2>4, <2>5, <2>10, CategoryWriteAddsNoTwins, RuleWriteAddsNoTwins, Zenon DEF Write
  <2>7. r \in stale
    BY <1>1, <2>6, AskedOK
  <2>8. req'[r].st = "ended"
    BY <1>1, <2>4 DEF Commit, LabelsInv
  <2>9. QED
    BY <2>4, <2>7, <2>8
<1>2. LabelsInv /\ [LabelsNext]_labelVars =>
        [( \/ ~(Twins' \subseteq Twins)
           \/ \E f \in Families : ~(TwinRules(f)' \subseteq TwinRules(f)) ) =>
              \E r \in InFlight \cap stale : req'[r].st = "ended"]_labelVars
  BY <1>1 DEF NoTwinsAdded
<1>3. QED
  BY <1>2, LabelsInvariant, PTL DEF LabelsSpec, TwinsNeedAnOvertakenRequest

-----------------------------------------------------------------------------
(* Filed transactions *)

(* Only the direction and the type of what is filed matter.                *)
LEMMA FitsGroup ==
    ASSUME NEW category, NEW g, NEW h, g.dir = h.dir, g.type = h.type, Fits(category, g)
    PROVE  Fits(category, h)
BY DEF Fits, SameGroup, GroupOf

\* Where a name fits depends on the categories alone.
LEMMA FitsStays ==
    ASSUME categories' = categories, NEW category, NEW g, Fits(category, g)
    PROVE  Fits(category, g)'
BY DEF Fits, Ids

(* A category that fits remains unless it is the row that is written.      *)
LEMMA FitsWithout ==
    ASSUME NEW id, NEW category, NEW g, Fits(category, g),
           \A c \in Ids(categories) \ {id} :
               c \in Ids(categories') /\ categories'[c] = categories[c],
           category # None =>
               ~ ( /\ id \in Ids(categories) /\ SameGroup(categories[id], g)
                   /\ Folded[categories[id].name] = Folded[category] )
    PROVE  Fits(category, g)'
<1> SUFFICES ASSUME category # None
             PROVE  \E c \in Ids(categories') :
                       /\ categories'[c].active
                       /\ SameGroup(categories'[c], g)
                       /\ Folded[categories'[c].name] = Folded[category]
  BY DEF Fits, SameGroup, GroupOf
<1>1. PICK c \in Ids(categories) :
          /\ categories[c].active
          /\ SameGroup(categories[c], g)
          /\ Folded[categories[c].name] = Folded[category]
  BY DEF Fits
<1>2. c # id
  BY <1>1
<1>3. QED
  BY <1>1, <1>2

(* Removing a row keeps the others.                                        *)
LEMMA OthersRemain ==
    ASSUME NEW S, NEW table \in Seq(S), None \in S, NEW id, NEW new, Sets(table, new, id, None)
    PROVE  \A c \in Ids(table) \ {id} : c \in Ids(new) /\ new[c] = table[c]
BY SeqSet DEF Sets, Ids

StaysFiled(t) == (t \in Ids(txs) => Filed(t)) => Filed(t)'

\* A new category takes no transaction out of its category.
LEMMA AddCategoryStaysFiled ==
    ASSUME LabelsInv, NEW r \in Requests, AddCategory(r), NEW t \in Ids(txs')
    PROVE  StaysFiled(t)
<1>1. PICK S, row, id : /\ S = CategoryRow \cup {None} /\ row = req[r].row
                        /\ id = Len(categories) + 1
  OBVIOUS
<1>2. /\ categories \in Seq(S) /\ AsksOK(req[r]) /\ Adds(categories, categories', row)
      /\ txs' = txs /\ req[r].st = "add category"
  BY <1>1, AskedOK DEF AddCategory, LabelsInv, TablesOK, CategoryRows, Adds
<1>3. row \in CategoryRow /\ row \in S
  BY <1>1, <1>2 DEF AsksOK
<1>4. /\ OthersKept(categories, categories', id) /\ id \notin Ids(categories)
      /\ Ids(categories) \subseteq Ids(categories')
  <2>1. /\ categories \in Seq(S) /\ row \in S /\ id = Len(categories) + 1
        /\ Adds(categories, categories', row)
    BY <1>1, <1>2, <1>3
  <2>2. QED
    BY <2>1, RowAdded
<1>5. \A c \in Ids(categories) \ {id} : c \in Ids(categories') /\ categories'[c] = categories[c]
  BY <1>4 DEF OthersKept
<1>6. PICK tx : tx = txs[t]
  OBVIOUS
<1>7. Fits(tx.category, tx) => Fits(tx.category, tx)'
  BY <1>4, <1>5, FitsWithout
<1>8. QED
  BY <1>2, <1>6, <1>7 DEF StaysFiled, Filed

(* A removed category has been left by its users, or they have another one *)
(* of its group.                                                           *)
LEMMA RemovalStaysFiled ==
    ASSUME LabelsInv, NEW r \in Requests, Fresh(req[r]),
           DeleteCategory(r) \/ ReplaceCategory(r) \/ MigrateCategory(r),
           NEW t \in Ids(txs'), ~OtherSpelling(r, t)
    PROVE  StaysFiled(t)
<1>1. PICK S, q, id, old, tx :
          /\ S = CategoryRow \cup {None} /\ q = req[r] /\ id = q.id /\ old = categories[id]
          /\ tx = txs[t]
  OBVIOUS
<1>2. /\ TablesOK /\ categories \in Seq(S) /\ None \in S /\ FreshCategory(q) /\ DOMAIN txs' = DOMAIN txs
      /\ Sets(categories, categories', id, None)
      /\ q.st \in {"delete category", "replace category", "migrate category"}
  BY <1>1 DEF LabelsInv, TablesOK, CategoryRows, Fresh, Sets,
              DeleteCategory, ReplaceCategory, MigrateCategory
<1>3. id \in Ids(categories) /\ q.seen = old
  BY <1>1, <1>2 DEF FreshCategory, SeesCategory
<1>4. \A c \in Ids(categories) \ {id} : c \in Ids(categories') /\ categories'[c] = categories[c]
  <2>1. categories \in Seq(S) /\ None \in S /\ Sets(categories, categories', id, None)
    BY <1>2
  <2>2. QED
    BY <2>1, OthersRemain
<1>5. tx.category = old.name
  BY <1>1, <1>2, <1>3 DEF OtherSpelling
<1>6. ASSUME t \notin UsersOf(old)
      PROVE  txs'[t] = tx
  BY <1>1, <1>2, <1>3, <1>6 DEF DeleteCategory, ReplaceCategory, MigrateCategory, Migrated, Ids
<1>7. t \in Ids(txs)
  <2>1. t \in UsersOf(old) => t \in Ids(txs)
    BY DEF UsersOf
  <2>2. QED
    BY <1>1, <1>2, <1>6, <2>1 DEF Ids
<1>8. CASE t \notin UsersOf(old)
  <2>1. ~SameGroup(old, tx)
    BY <1>1, <1>5, <1>7, <1>8 DEF UsersOf, Uses, SameGroup
  <2>2. Fits(tx.category, tx) => Fits(tx.category, tx)'
    BY <1>1, <1>4, <2>1, FitsWithout
  <2>3. QED
    BY <1>1, <1>6, <1>7, <1>8, <2>2 DEF StaysFiled, Filed
<1>9. CASE t \in UsersOf(old)
  <2>1. q.st # "delete category"
    BY <1>2, <1>3, <1>9 DEF FreshCategory
  <2>2. PICK name : /\ \E d \in Replacements(id) : name = categories[d].name
                    /\ txs'[t] = [tx EXCEPT !.category = name]
    <3>1. CASE q.st = "replace category"
      <4>1. ReplaceCategory(r)
        BY <1>1, <3>1 DEF DeleteCategory, MigrateCategory
      <4>2. txs'[t] = [tx EXCEPT !.category = q.name]
        BY <1>1, <1>3, <1>7, <1>9, <4>1 DEF ReplaceCategory, Ids
      <4>3. \E d \in Replacements(id) : q.name = categories[d].name
        BY <1>1, <1>2, <3>1 DEF FreshCategory
      <4>4. QED
        BY <4>2, <4>3
    <3>2. CASE q.st = "migrate category"
      <4>1. MigrateCategory(r)
        BY <1>1, <3>2 DEF DeleteCategory, ReplaceCategory
      <4>2. DOMAIN q.names = UsersOf(old) /\ \E d \in Replacements(id) : q.names[t] = categories[d].name
        BY <1>1, <1>2, <1>3, <1>9, <3>2 DEF FreshCategory
      <4>3. t \in Migrated(r)
        BY <1>1, <1>3, <1>9, <4>2 DEF Migrated
      <4>4. txs'[t] = [tx EXCEPT !.category = q.names[t]]
        BY <1>1, <1>7, <4>1, <4>3 DEF MigrateCategory, Ids
      <4>5. QED
        BY <4>2, <4>4
    <3>3. QED
      BY <1>2, <2>1, <3>1, <3>2
  <2>3. PICK d \in Replacements(id) : name = categories[d].name
    BY <2>2
  <2>4. /\ d \in Ids(categories) \ {id} /\ categories[d].active
        /\ SameGroup(categories[id], categories[d])
    BY <2>3 DEF Replacements
  <2>5. d \in Ids(categories') /\ categories'[d] = categories[d]
    BY <1>4, <2>4
  <2>6. SameGroup(old, tx)
    BY <1>1, <1>9 DEF UsersOf, Uses, SameGroup
  <2>7. PICK new : new = txs'[t]
    OBVIOUS
  <2>8. new.category = name /\ new.dir = tx.dir /\ new.type = tx.type
    <3>1. tx \in TransactionRow
      BY <1>1, <1>2, <1>7, RowsOfTables
    <3>2. QED
      BY <2>2, <2>7, <3>1 DEF TransactionRow
  <2>9. Fits(new.category, new)'
    <3>1. GroupOf(categories[d]) = GroupOf(new)
      BY <1>1, <2>4, <2>6, <2>8 DEF SameGroup, GroupOf
    <3>2. SameGroup(categories'[d], new) /\ categories'[d].active /\ categories'[d].name = new.category
      BY <2>3, <2>4, <2>5, <2>8, <3>1 DEF SameGroup
    <3>3. QED
      BY <2>5, <3>2 DEF Fits, SameGroup, GroupOf
  <2>10. QED
    BY <2>7, <2>9 DEF StaysFiled, Filed
<1>10. QED
  BY <1>8, <1>9

\* A new transaction is under a category of its kind.
LEMMA AddTransactionStaysFiled ==
    ASSUME LabelsInv, NEW r \in Requests, Fresh(req[r]), AddTransaction(r), NEW t \in Ids(txs')
    PROVE  StaysFiled(t)
<1>1. PICK S, row, id : /\ S = TransactionRow \cup {None} /\ row = req[r].row
                        /\ id = Len(txs) + 1
  OBVIOUS
<1>2. /\ txs \in Seq(S) /\ AsksOK(req[r]) /\ Adds(txs, txs', row)
      /\ categories' = categories /\ Fits(row.category, row) /\ req[r].st = "add transaction"
  BY <1>1, AskedOK DEF AddTransaction, LabelsInv, TablesOK, TransactionRows, Adds,
                       Fresh, FreshTransaction
<1>3. row \in S
  BY <1>1, <1>2 DEF AsksOK
<1>4. OthersKept(txs, txs', id) /\ txs'[id] = row
  <2>1. txs \in Seq(S) /\ row \in S /\ id = Len(txs) + 1 /\ Adds(txs, txs', row)
    BY <1>1, <1>2, <1>3
  <2>2. QED
    BY <2>1, RowAdded
<1>5. CASE t = id
  BY <1>2, <1>4, <1>5, FitsStays DEF StaysFiled, Filed
<1>6. CASE t # id
  <2>1. PICK tx : tx = txs[t]
    OBVIOUS
  <2>2. t \in Ids(txs) /\ txs'[t] = tx
    BY <1>4, <1>6, <2>1 DEF OthersKept
  <2>3. QED
    BY <1>2, <2>1, <2>2, FitsStays DEF StaysFiled, Filed
<1>7. QED
  BY <1>5, <1>6

(* What MayEdit lets through is filed when the transaction was.            *)
LEMMA MayEditStaysFiled ==
    ASSUME NEW row \in TransactionRow, NEW change \in TransactionChanges,
           MayEdit(row, change), Fits(row.category, row)
    PROVE  Fits(Edited(row, change).category, Edited(row, change))
<1> DEFINE after == Edited(row, change)
<1>1. CASE "description" \in DOMAIN change
  <2>1. DOMAIN change = {"description"}
    BY <1>1, GroupsAssumption DEF TransactionChanges
  <2>2. after.category = row.category /\ after.dir = row.dir /\ after.type = row.type
    BY <2>1 DEF Edited, Written, TransactionRow
  <2>3. QED
    BY <2>2, FitsGroup
<1>2. CASE Fits(after.category, after)
  BY <1>2
<1>3. CASE /\ SameGroup(after, row) /\ None \notin {row.category, after.category}
           /\ Folded[row.category] = Folded[after.category]
  <2> HIDE DEF after
  <2>1. after.dir = row.dir /\ after.type = row.type
    BY <1>3 DEF SameGroup, GroupOf
  <2>2. Fits(row.category, after)
    BY <2>1, FitsGroup
  <2>3. Fits(after.category, after)
    BY <1>3, <2>2 DEF Fits
  <2>4. QED
    BY <2>3 DEF after
<1>4. QED
  BY <1>1, <1>2, <1>3 DEF MayEdit

\* An edited transaction stays under a category of its kind.
LEMMA EditTransactionStaysFiled ==
    ASSUME LabelsInv, NEW r \in Requests, Fresh(req[r]), EditTransaction(r), NEW t \in Ids(txs')
    PROVE  StaysFiled(t)
<1>1. PICK S, q, id, tx, row :
          /\ S = TransactionRow \cup {None} /\ q = req[r] /\ id = q.id
          /\ tx = txs[id] /\ row = Written(tx, q.seen, q.change)
  OBVIOUS
<1>2. /\ TablesOK /\ txs \in Seq(S) /\ AsksOK(q) /\ Sets(txs, txs', id, row)
      /\ categories' = categories /\ q.st = "edit transaction" /\ id \in Ids(txs)
      /\ q.seen = tx /\ MayEdit(tx, q.change)
  BY <1>1, AskedOK DEF EditTransaction, LabelsInv, TablesOK, TransactionRows, Sets,
                       Fresh, FreshTransaction
<1>3. tx \in TransactionRow /\ q.change \in TransactionChanges
  BY <1>1, <1>2, RowsOfTables DEF AsksOK
<1>4. row \in S
  BY <1>1, <1>3, WrittenTransaction
<1>5. OthersKept(txs, txs', id) /\ (id \in Ids(txs') => txs'[id] = row)
  <2>1. txs \in Seq(S) /\ row \in S /\ Sets(txs, txs', id, row)
    BY <1>2, <1>4
  <2>2. QED
    BY <2>1, RowSet
<1>6. CASE t = id
  <2>1. row = Edited(tx, q.change)
    BY <1>1, <1>2 DEF Edited
  <2>2. Fits(tx.category, tx) => Fits(row.category, row)'
    BY <1>2, <1>3, <2>1, MayEditStaysFiled, FitsStays
  <2>3. t \in Ids(txs) /\ txs[t] = tx /\ txs'[t] = row
    BY <1>1, <1>2, <1>5, <1>6
  <2>4. QED
    BY <2>2, <2>3 DEF StaysFiled, Filed
<1>7. CASE t # id
  <2>1. PICK x : x = txs[t]
    OBVIOUS
  <2>2. t \in Ids(txs) /\ txs'[t] = x
    BY <1>5, <1>7, <2>1 DEF OthersKept
  <2>3. QED
    BY <1>2, <2>1, <2>2, FitsStays DEF StaysFiled, Filed
<1>8. QED
  BY <1>6, <1>7

\* So does one a rule has filed.
LEMMA ApplyRulesStaysFiled ==
    ASSUME LabelsInv, NEW r \in Requests, Fresh(req[r]), ApplyRules(r), NEW t \in Ids(txs')
    PROVE  StaysFiled(t)
<1>1. PICK q, f, ch, tx, new : /\ q = req[r] /\ f = q.family /\ ch = q.changes
                               /\ tx = txs[t] /\ new = txs'[t]
  OBVIOUS
<1>2. /\ TablesOK /\ AsksOK(q) /\ categories' = categories /\ q.st = "apply rules"
      /\ DOMAIN ch \subseteq Ids(txs) /\ DOMAIN txs' = DOMAIN txs
      /\ t \in DOMAIN txs => new = IF t \in DOMAIN ch
                                     THEN [tx EXCEPT ![Column(f)] = ch[t]] ELSE tx
      /\ MayApply(f, ch)
  BY <1>1, AskedOK DEF ApplyRules, LabelsInv, Fresh, FreshRule
<1>3. t \in Ids(txs)
  BY <1>1, <1>2 DEF Ids
<1>4. CASE t \notin DOMAIN ch
  <2>1. new = tx
    BY <1>2, <1>3, <1>4 DEF Ids
  <2>2. QED
    BY <1>1, <1>2, <1>3, <2>1, FitsStays DEF StaysFiled, Filed
<1>5. CASE t \in DOMAIN ch
  <2>1. /\ tx \in TransactionRow /\ new = [tx EXCEPT ![Column(f)] = ch[t]]
        /\ f \in Families
    BY <1>1, <1>2, <1>3, <1>5, RowsOfTables DEF Ids, AsksOK
  <2>2. CASE f = "cashflow"
    <3>1. new.category = tx.category /\ new.dir = tx.dir /\ new.type = ch[t]
      BY <2>1, <2>2 DEF Column, TransactionRow
    <3>2. PICK g : g = [dir |-> tx.dir, type |-> ch[t]]
      OBVIOUS
    <3>3. Fits(tx.category, g)
      BY <1>1, <1>2, <1>5, <2>2, <3>2 DEF MayApply
    <3>4. Fits(new.category, new)
      BY <3>1, <3>2, <3>3, FitsGroup
    <3>5. QED
      BY <1>1, <1>2, <3>4, FitsStays DEF StaysFiled, Filed
  <2>3. CASE f = "description"
    <3>1. new.category = tx.category /\ new.dir = tx.dir /\ new.type = tx.type
      BY <2>1, <2>3 DEF Column, TransactionRow
    <3>2. Fits(tx.category, tx) => Fits(new.category, new)
      BY <3>1, FitsGroup
    <3>3. QED
      BY <1>1, <1>2, <1>3, <3>2, FitsStays DEF StaysFiled, Filed
  <2>4. QED
    BY <2>1, <2>2, <2>3 DEF Families
<1>6. QED
  BY <1>4, <1>5

(* Transactions and categories are as they were.                           *)
LEMMA UntouchedStaysFiled ==
    ASSUME categories' = categories, NEW t \in Ids(txs), txs'[t] = txs[t]
    PROVE  StaysFiled(t)
<1>1. PICK tx : tx = txs[t]
  OBVIOUS
<1>2. QED
  BY <1>1, FitsStays DEF StaysFiled, Filed

\* A transaction is not left with a category that no longer fits its group,
\* unless the request that did it was overtaken, edited the category itself
\* (update_category leaves the transactions as they are) or counted another
\* spelling of the name than the transaction has (get_usage_count).
THEOREM FiledTransactionsStayFiled == LabelsSpec => CategoriesStayFiled
<1>1. ASSUME LabelsInv, [LabelsNext]_labelVars, NEW t \in Ids(txs'),
             ~Filed(t)', t \in Ids(txs) => Filed(t)
      PROVE  \E r \in InFlight :
                /\ req'[r].st = "ended"
                /\ r \in stale \/ req[r].st = "edit category" \/ OtherSpelling(r, t)
  <2>0. ~StaysFiled(t)
    BY <1>1 DEF StaysFiled
  <2>1. ~UNCHANGED <<categories, txs, rules>>
    BY <1>1, <2>0, UntouchedStaysFiled
  <2>2. PICK r \in Requests : Removes(r) \/ Write(r)
    BY <1>1, <2>1, StepIs
  <2>3. ~Removes(r)
    <3>1. ASSUME DeleteTransaction(r)
          PROVE  FALSE
      <4>1. PICK x \in Ids(txs) : Sets(txs, txs', x, None)
        BY <3>1 DEF DeleteTransaction, Sets
      <4>2. PICK S : S = TransactionRow \cup {None}
        OBVIOUS
      <4>3. txs \in Seq(S) /\ None \in S
        BY <1>1, <4>2 DEF LabelsInv, TablesOK, TransactionRows
      <4>4. OthersKept(txs, txs', x) /\ x \notin Ids(txs')
        BY <4>1, <4>3, RowSet
      <4>5. t \in Ids(txs) /\ txs'[t] = txs[t]
        BY <1>1, <4>4 DEF OthersKept
      <4>6. QED
        BY <2>0, <3>1, <4>5, UntouchedStaysFiled DEF DeleteTransaction
    <3>2. ASSUME NEW f \in Families, DeleteRule(r, f)
          PROVE  FALSE
      BY <1>1, <2>0, <3>2, UntouchedStaysFiled DEF DeleteRule
    <3>3. QED
      BY <3>1, <3>2 DEF Removes
  <2>4. Write(r) /\ Commit(r) /\ r \in InFlight
    BY <2>2, <2>3 DEF Write, AddCategory, EditCategory, DeleteCategory, ReplaceCategory,
                MigrateCategory, AddTransaction, EditTransaction, AddRule, EditRule, ApplyRules,
                InFlight
  <2>5. req'[r].st = "ended"
    BY <1>1, <2>4 DEF Commit, LabelsInv
  <2>6. SUFFICES ASSUME r \notin stale, req[r].st # "edit category", ~OtherSpelling(r, t)
                 PROVE  FALSE
    BY <2>4, <2>5
  <2>7. Fresh(req[r])
    BY <1>1, <2>6, AskedOK
  <2>8. ~EditCategory(r)
    BY <2>6 DEF EditCategory
  <2>9. ~(AddRule(r) \/ EditRule(r))
    BY <1>1, <2>0, UntouchedStaysFiled DEF AddRule, EditRule
  <2>10. QED
    BY <1>1, <2>0, <2>4, <2>6, <2>7, <2>8, <2>9, AddCategoryStaysFiled, RemovalStaysFiled,
       AddTransactionStaysFiled, EditTransactionStaysFiled, ApplyRulesStaysFiled, Zenon DEF Write
<1>2. LabelsInv /\ [LabelsNext]_labelVars =>
        [\A t \in Ids(txs') :
            ~Filed(t)' /\ (t \in Ids(txs) => Filed(t)) =>
               \E r \in InFlight :
                   /\ req'[r].st = "ended"
                   /\ r \in stale \/ req[r].st = "edit category" \/ OtherSpelling(r, t)]_labelVars
  BY <1>1
<1>3. QED
  BY <1>2, LabelsInvariant, PTL DEF LabelsSpec, CategoriesStayFiled

=============================================================================
