------------------------------- MODULE Throttle -------------------------------
(***************************************************************************)
(* What a rate limit promises, whatever keeps it: of the requests made     *)
(* under one key, no more than Bound are admitted in any Span units of     *)
(* time, as long as the process runs.  In other words, whenever a request  *)
(* is admitted, the Bound-th last admission before it is Span units old.   *)
(***************************************************************************)
EXTENDS Integers

CONSTANTS
    Keys,   \* what limits are kept for: a policy and a user
    Bound,  \* the requests admitted at most
    Span    \* the time in which they are counted

VARIABLE recent     \* by key, the ages of the last Bound admissions, newest first

Places == 1 .. Bound

(* The age Span stands for every age from Span on, and for never.          *)
NothingRecent == [k \in Keys |-> [n \in Places |-> Span]]

WithAdmission(k) ==
    [recent EXCEPT ![k] = [n \in Places |-> IF n = 1 THEN 0 ELSE recent[k][n - 1]]]

Older(age) == IF age < Span THEN age + 1 ELSE Span

Init == recent = NothingRecent

Admit(k) ==
    /\ recent[k][Bound] = Span
    /\ recent' = WithAdmission(k)

(* One unit of time passes.                                                *)
Pass == recent' = [k \in Keys |-> [n \in Places |-> Older(recent[k][n])]]

(* The process starts again and remembers nothing.                         *)
Forget == recent' = NothingRecent

Next == Pass \/ Forget \/ \E k \in Keys : Admit(k)

Spec == Init /\ [][Next]_recent
=============================================================================
