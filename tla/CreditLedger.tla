---------------------------- MODULE CreditLedger ----------------------------
(***************************************************************************)
(* What the quota service promises of the credits of one API key in one    *)
(* month and one day, however many requests it decides at a time and       *)
(* whatever calls fail: nothing bought and nothing used is ever taken back *)
(* or counted twice, a request that is let through on a quota has paid for *)
(* it in the same step, and no credit is taken beyond what was bought, or  *)
(* beyond the daily limit, but for a margin that is known beforehand.      *)
(***************************************************************************)
EXTENDS Integers

CONSTANTS Limit,      \* the largest daily limit of the key's tier
          OverPaid,   \* margin on what was bought
          OverDaily   \* margin on the daily limit

VARIABLES
  purchased, used,  \* credits of the month
  today,            \* credits of the daily quota used
  granted           \* requests let through, by the quota they used

vars == <<purchased, used, today, granted>>

Init ==
  /\ purchased = 0 /\ used = 0 /\ today = 0
  /\ granted = [paid |-> 0, free |-> 0]

Buy ==
  /\ purchased' \in Nat /\ purchased' > purchased
  /\ UNCHANGED <<used, today, granted>>

\* The request is let through, or its caller never learns that it might be.
TakePaid ==
  /\ used + 1 <= purchased + OverPaid
  /\ used' = used + 1
  /\ granted' \in {granted, [granted EXCEPT !.paid = @ + 1]}
  /\ UNCHANGED <<purchased, today>>

TakeDaily ==
  /\ today + 1 <= Limit + OverDaily
  /\ today' = today + 1
  /\ granted' \in {granted, [granted EXCEPT !.free = @ + 1]}
  /\ UNCHANGED <<purchased, used>>

Next == Buy \/ TakePaid \/ TakeDaily

Spec == Init /\ [][Next]_vars
=============================================================================
