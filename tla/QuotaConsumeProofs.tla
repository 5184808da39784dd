------------------------- MODULE QuotaConsumeProofs -------------------------
(***************************************************************************)
(* TLAPS proofs about QuotaConsume, for any number of handlers, paths,     *)
(* quotas and purchases.                                                   *)
(***************************************************************************)
EXTENDS QuotaConsume, FiniteSetTheorems, TLAPS

At(l)    == {h \in Handler : pc[h] = l}
Count(l) == Cardinality(At(l))
N        == Cardinality(Handler)

-----------------------------------------------------------------------------
(* Counting handlers *)

LEMMA CountType == ASSUME NEW l PROVE Count(l) \in Nat /\ Count(l) <= N /\ N \in Nat
<1>1. At(l) \subseteq Handler
  BY DEF At
<1> QED
  BY <1>1, HandlerAssumption, FS_Subset, FS_CardinalityType DEF Count, N

LEMMA CountPositive == ASSUME NEW h \in Handler PROVE Count(pc[h]) >= 1 /\ N >= 1
<1>1. h \in At(pc[h]) /\ At(pc[h]) \subseteq Handler
  BY DEF At
<1>2. IsFiniteSet(At(pc[h]))
  BY <1>1, HandlerAssumption, FS_Subset
<1>3. Count(pc[h]) # 0
  BY <1>1, <1>2, FS_EmptySet DEF Count
<1> QED BY <1>3, CountType

\* A handler that goes to m leaves the count of any other label as it was, or
\* one lower if it comes from there.
LEMMA CountLeave ==
  ASSUME TypeOK, NEW h \in Handler, NEW l, NEW m, l # m,
         pc' = [pc EXCEPT ![h] = m]
  PROVE  Count(l)' = IF pc[h] = l THEN Count(l) - 1 ELSE Count(l)
<1>1. At(l)' = At(l) \ {h}
  BY DEF At, TypeOK
<1>2. IsFiniteSet(At(l)) /\ (h \in At(l) <=> pc[h] = l)
  BY HandlerAssumption, FS_Subset DEF At
<1>3. CASE pc[h] = l
  BY <1>1, <1>2, <1>3, FS_RemoveElement DEF Count
<1>4. CASE pc[h] # l
  <2>1. At(l)' = At(l)
    BY <1>1, <1>2, <1>4
  <2> QED BY <1>4, <2>1 DEF Count
<1> QED BY <1>3, <1>4

LEMMA CountAfter == ASSUME NEW l PROVE Count(l)' \in Nat /\ Count(l)' <= N
<1>1. At(l)' \subseteq Handler
  BY DEF At
<1>2. IsFiniteSet(At(l)') /\ Cardinality(At(l)') <= Cardinality(Handler)
  BY <1>1, HandlerAssumption, FS_Subset
<1> QED BY <1>2, FS_CardinalityType DEF Count, N

-----------------------------------------------------------------------------
(* The inductive invariant *)

\* What is used plus what is about to be used: a handler enters chargePaid only
\* while a credit is left, and at most all handlers are there.
PaidBound ==
  used > 0 \/ Count("chargePaid") > 0 =>
    used + Count("chargePaid") <= purchased + N - 1

DailyBound ==
  /\ daily = NoRow => Count("chargeDaily") = 0
  /\ daily # NoRow => daily + Count("chargeDaily") <= MaxLimit + N - 1

\* Only a path with a quota gets to the row of the day.
Metered ==
  \A h \in Handler :
    pc[h] \in {"readDaily", "chargeDaily", "createDaily"} => LimitOf[path[h]] > 0

IInv == TypeOK /\ GrantsAreCounted /\ PaidBound /\ DailyBound /\ Metered

LEMMA InitIInv == Init => IInv
<1> SUFFICES ASSUME Init PROVE IInv
  OBVIOUS
<1>1. At("chargePaid") = {} /\ At("chargeDaily") = {}
  BY DEF Init, At
<1>2. Count("chargePaid") = 0 /\ Count("chargeDaily") = 0
  BY <1>1, FS_EmptySet DEF Count
<1> QED
  BY <1>2, PathAssumption
  DEF Init, IInv, TypeOK, Verdicts, Deciding, GrantsAreCounted, Today, PaidBound,
      DailyBound, Metered

\* The parts of the invariant that count nothing.
LEMMA NextPlain ==
  ASSUME IInv, [Next]_vars
  PROVE  TypeOK' /\ GrantsAreCounted' /\ Metered'
<1> USE LimitAssumption, AmountsAssumption, NoRowAssumption
<1> USE DEF IInv, TypeOK, Verdicts, Deciding, GrantsAreCounted, Today, Metered, COST,
            row, Goto, Return
<1>1. CASE UNCHANGED vars
  BY <1>1 DEF vars
<1>2. ASSUME NEW h \in Handler, NEW p \in Path, NEW k \in BOOLEAN, Begin(h, p, k)
      PROVE  TypeOK' /\ GrantsAreCounted' /\ Metered'
  BY <1>2 DEF Begin
<1>3. ASSUME NEW h \in Handler, ReadMonthly(h)
      PROVE  TypeOK' /\ GrantsAreCounted' /\ Metered'
  BY <1>3 DEF ReadMonthly
<1>4. ASSUME NEW h \in Handler, ChargePaid(h)
      PROVE  TypeOK' /\ GrantsAreCounted' /\ Metered'
  BY <1>4 DEF ChargePaid
<1>5. ASSUME NEW h \in Handler, Config(h)
      PROVE  TypeOK' /\ GrantsAreCounted' /\ Metered'
  BY <1>5 DEF Config
<1>6. ASSUME NEW h \in Handler, ReadDaily(h)
      PROVE  TypeOK' /\ GrantsAreCounted' /\ Metered'
  BY <1>6 DEF ReadDaily
<1>7. ASSUME NEW h \in Handler, ChargeDaily(h), daily # NoRow
      PROVE  TypeOK' /\ GrantsAreCounted' /\ Metered'
  BY <1>7 DEF ChargeDaily
<1>8. ASSUME NEW h \in Handler, CreateDaily(h)
      PROVE  TypeOK' /\ GrantsAreCounted' /\ Metered'
  BY <1>8 DEF CreateDaily
<1>9. ASSUME NEW h \in Handler, CreateCollides(h) \/ Abort(h)
      PROVE  TypeOK' /\ GrantsAreCounted' /\ Metered'
  BY <1>9 DEF CreateCollides, Abort
<1>10. ASSUME NEW h \in Handler, CommitLost(h), pc[h] = "chargeDaily" => daily # NoRow
       PROVE  TypeOK' /\ GrantsAreCounted' /\ Metered'
  BY <1>10 DEF CommitLost
<1>11. ASSUME NEW c \in Amounts, Purchase(c)
       PROVE  TypeOK' /\ GrantsAreCounted' /\ Metered'
  BY <1>11 DEF Purchase
<1>12. \A h \in Handler : pc[h] = "chargeDaily" => daily # NoRow
  BY CountPositive DEF DailyBound
<1> QED
  BY <1>1, <1>2, <1>3, <1>4, <1>5, <1>6, <1>7, <1>8, <1>9, <1>10, <1>11, <1>12
  DEF Next, Consume, ChargeDaily

\* What a step does to a count: nothing, or it moves a handler from or to it.
LEMMA CountMove ==
  ASSUME TypeOK, NEW h \in Handler, NEW l, NEW m, pc' = [pc EXCEPT ![h] = m]
  PROVE  /\ l # m => Count(l)' <= Count(l)
         /\ l # m /\ pc[h] = l => Count(l)' = Count(l) - 1
<1>1. ASSUME l # m
      PROVE  Count(l)' = IF pc[h] = l THEN Count(l) - 1 ELSE Count(l)
  BY <1>1, CountLeave
<1>2. Count(l) \in Nat
  BY CountType
<1> QED BY <1>1, <1>2

\* Steps that use no paid credit lower neither what is left nor raise the count,
\* unless a handler sees a credit and goes for it; charging moves one unit from
\* the count to used.
LEMMA NextPaidBound ==
  ASSUME IInv, [Next]_vars
  PROVE  PaidBound'
<1> DEFINE c == "chargePaid"
<1>1. /\ used \in Nat /\ purchased \in Nat /\ N \in Nat /\ N' = N
      /\ Count(c) \in Nat /\ Count(c)' \in Nat /\ Count(c)' <= N
      /\ TypeOK
  BY CountType, CountAfter DEF IInv, TypeOK, N
<1>2. used > 0 \/ Count(c) > 0 => used + Count(c) <= purchased + N - 1
  BY DEF IInv, PaidBound
<1>3. ASSUME UNCHANGED used, purchased' \in Nat, purchased' >= purchased,
             Count(c)' <= Count(c)
      PROVE  PaidBound'
  BY <1>1, <1>2, <1>3 DEF PaidBound
<1>3a. ASSUME UNCHANGED <<used, purchased>>, Count(c)' <= Count(c)
       PROVE  PaidBound'
  BY <1>1, <1>2, <1>3a DEF PaidBound
<1>4. ASSUME used' = used + 1, UNCHANGED purchased, Count(c)' = Count(c) - 1
      PROVE  PaidBound'
  BY <1>1, <1>2, <1>4 DEF PaidBound
<1>5. ASSUME UNCHANGED <<used, purchased>>, purchased - used >= 1
      PROVE  PaidBound'
  BY <1>1, <1>5 DEF PaidBound
<1>6. ASSUME pc' = pc
      PROVE  Count(c)' = Count(c)
  BY <1>6 DEF Count, At
<1>7. ASSUME NEW h \in Handler, NEW m, pc' = [pc EXCEPT ![h] = m], m # c
      PROVE  /\ Count(c)' <= Count(c)
             /\ pc[h] = c => Count(c)' = Count(c) - 1
  BY <1>1, <1>7, CountMove
<1> HIDE DEF PaidBound, Count
<1> USE DEF COST, row, Goto, Return
<1>8. ASSUME NEW h \in Handler, NEW p \in Path, NEW k \in BOOLEAN, Begin(h, p, k)
      PROVE  PaidBound'
  <2>1. CASE k
    BY <1>3a, <1>7, <1>8, <2>1 DEF Begin
  <2>2. CASE ~k
    BY <1>3a, <1>7, <1>8, <2>2 DEF Begin
  <2> QED BY <2>1, <2>2
<1>9. ASSUME NEW h \in Handler, ReadMonthly(h)
      PROVE  PaidBound'
  <2>1. CASE purchased - used >= 1
    BY <1>5, <1>9, <2>1 DEF ReadMonthly
  <2>2. CASE ~(purchased - used >= 1)
    BY <1>3a, <1>7, <1>9, <2>2 DEF ReadMonthly
  <2> QED BY <2>1, <2>2
<1>10. ASSUME NEW h \in Handler, ChargePaid(h)
       PROVE  PaidBound'
  BY <1>4, <1>7, <1>10 DEF ChargePaid
<1>11. ASSUME NEW h \in Handler, Config(h) \/ ReadDaily(h) \/ ChargeDaily(h)
       PROVE  PaidBound'
  BY <1>3a, <1>7, <1>11 DEF Config, ReadDaily, ChargeDaily
<1>12. ASSUME NEW h \in Handler, CreateDaily(h) \/ CreateCollides(h) \/ Abort(h)
       PROVE  PaidBound'
  BY <1>3a, <1>7, <1>12 DEF CreateDaily, CreateCollides, Abort
<1>13. ASSUME NEW h \in Handler, CommitLost(h)
       PROVE  PaidBound'
  <2>1. CASE pc[h] = "chargePaid"
    BY <1>4, <1>7, <1>13, <2>1 DEF CommitLost
  <2>2. CASE pc[h] # "chargePaid"
    BY <1>3a, <1>7, <1>13, <2>2 DEF CommitLost
  <2> QED BY <2>1, <2>2
<1>14. ASSUME NEW n \in Amounts, Purchase(n)
       PROVE  PaidBound'
  <2>1. n \in Nat
    BY AmountsAssumption
  <2> QED BY <1>1, <1>3, <1>6, <1>14, <2>1 DEF Purchase
<1>15. CASE UNCHANGED vars
  BY <1>1, <1>3a, <1>6, <1>15 DEF vars
<1> QED
  BY <1>8, <1>9, <1>10, <1>11, <1>12, <1>13, <1>14, <1>15 DEF Next, Consume

\* The same for the row of the day: a handler goes to chargeDaily only while the
\* row is below the quota of its path, and the row starts at one.
LEMMA NextDailyBound ==
  ASSUME IInv, [Next]_vars
  PROVE  DailyBound'
<1> DEFINE c == "chargeDaily"
<1>1. /\ daily \in Nat \cup {NoRow} /\ NoRow \notin Nat /\ MaxLimit \in Nat
      /\ N \in Nat /\ N' = N
      /\ Count(c) \in Nat /\ Count(c)' \in Nat /\ Count(c)' <= N
      /\ TypeOK
  BY CountType, CountAfter, NoRowAssumption, LimitAssumption DEF IInv, TypeOK, N
<1>2. /\ daily = NoRow => Count(c) = 0
      /\ daily # NoRow => daily + Count(c) <= MaxLimit + N - 1
  BY DEF IInv, DailyBound
<1>3. ASSUME UNCHANGED daily, Count(c)' <= Count(c)
      PROVE  DailyBound'
  BY <1>1, <1>2, <1>3 DEF DailyBound
<1>4. ASSUME daily # NoRow, daily' = daily + 1, Count(c)' = Count(c) - 1
      PROVE  DailyBound'
  BY <1>1, <1>2, <1>4 DEF DailyBound
<1>5. ASSUME UNCHANGED daily, daily # NoRow, daily + 1 <= MaxLimit
      PROVE  DailyBound'
  BY <1>1, <1>5 DEF DailyBound
<1>6. ASSUME daily = NoRow, daily' = 1, MaxLimit >= 1, N >= 1, Count(c)' <= Count(c)
      PROVE  DailyBound'
  BY <1>1, <1>2, <1>6 DEF DailyBound
<1>7. ASSUME pc' = pc
      PROVE  Count(c)' = Count(c)
  BY <1>7 DEF Count, At
<1>8. ASSUME NEW h \in Handler, NEW m, pc' = [pc EXCEPT ![h] = m], m # c
      PROVE  /\ Count(c)' <= Count(c)
             /\ pc[h] = c => Count(c)' = Count(c) - 1
  BY <1>1, <1>8, CountMove
<1>9. ASSUME NEW h \in Handler
      PROVE  /\ N >= 1
             /\ pc[h] = c => daily # NoRow
             /\ pc[h] = "createDaily" => MaxLimit >= 1
             /\ LimitOf[path[h]] \in Nat /\ LimitOf[path[h]] <= MaxLimit
  BY <1>1, <1>2, CountPositive, LimitAssumption DEF IInv, Metered, TypeOK
<1> HIDE DEF DailyBound, Count
<1> USE DEF COST, row, Goto, Return
<1>10. ASSUME NEW h \in Handler, NEW p \in Path, NEW k \in BOOLEAN, Begin(h, p, k)
       PROVE  DailyBound'
  BY <1>3, <1>8, <1>10 DEF Begin
<1>11. ASSUME NEW h \in Handler, ReadMonthly(h) \/ ChargePaid(h) \/ Config(h)
       PROVE  DailyBound'
  BY <1>3, <1>8, <1>11 DEF ReadMonthly, ChargePaid, Config
<1>12. ASSUME NEW h \in Handler, ReadDaily(h)
       PROVE  DailyBound'
  <2>1. daily + 1 <= LimitOf[path[h]] /\ daily # NoRow => daily + 1 <= MaxLimit
    BY <1>1, <1>9
  <2> QED BY <1>3, <1>5, <1>8, <1>12, <2>1 DEF ReadDaily
<1>13. ASSUME NEW h \in Handler, ChargeDaily(h)
       PROVE  DailyBound'
  BY <1>4, <1>8, <1>9, <1>13 DEF ChargeDaily
<1>14. ASSUME NEW h \in Handler, CreateDaily(h)
       PROVE  DailyBound'
  BY <1>6, <1>8, <1>9, <1>14 DEF CreateDaily
<1>15. ASSUME NEW h \in Handler, CreateCollides(h) \/ Abort(h)
       PROVE  DailyBound'
  BY <1>3, <1>8, <1>15 DEF CreateCollides, Abort
<1>16. ASSUME NEW h \in Handler, CommitLost(h)
       PROVE  DailyBound'
  BY <1>3, <1>4, <1>6, <1>8, <1>9, <1>16 DEF CommitLost
<1>17. ASSUME NEW n \in Amounts, Purchase(n)
       PROVE  DailyBound'
  BY <1>1, <1>3, <1>7, <1>17 DEF Purchase
<1>18. CASE UNCHANGED vars
  BY <1>1, <1>3, <1>7, <1>18 DEF vars
<1> QED
  BY <1>10, <1>11, <1>12, <1>13, <1>14, <1>15, <1>16, <1>17, <1>18
  DEF Next, Consume

THEOREM IInvAlways == Spec => []IInv
<1>1. IInv /\ [Next]_vars => IInv'
  BY NextPlain, NextPaidBound, NextDailyBound DEF IInv
<1> QED BY InitIInv, <1>1, PTL DEF Spec

-----------------------------------------------------------------------------
(* Theorems *)

\* Rows, counters and handlers keep their types.
THEOREM TypeCorrect == Spec => []TypeOK
<1>1. IInv => TypeOK
  BY DEF IInv
<1> QED BY <1>1, IInvAlways, PTL

\* No increment is lost: every request let through on a quota is counted.
THEOREM EveryGrantIsCounted == Spec => []GrantsAreCounted
<1>1. IInv => GrantsAreCounted
  BY DEF IInv
<1> QED BY <1>1, IInvAlways, PTL

\* N handlers overdraw the paid credits by N - 1 at most, however long they run.
THEOREM PaidOverdrawIsBounded == Spec => []PaidOverdrawBounded
<1>1. IInv => PaidOverdrawBounded
  BY CountType DEF IInv, TypeOK, PaidBound, PaidOverdrawBounded, N
<1> QED BY <1>1, IInvAlways, PTL

\* The daily counter passes the largest quota of the tier by N - 1 at most.
THEOREM DailyOverdrawIsBounded == Spec => []DailyOverdrawBounded
<1>1. IInv => DailyOverdrawBounded
  BY CountType, NoRowAssumption, LimitAssumption
  DEF IInv, TypeOK, DailyBound, DailyOverdrawBounded, N
<1> QED BY <1>1, IInvAlways, PTL

-----------------------------------------------------------------------------
(* The refinement of CreditLedger *)

\* What an answer adds to the history.
LEMMA ReturnGrants ==
  ASSUME granted \in [paid : Nat, free : Nat], NEW h \in Handler, NEW v, Return(h, v)
  PROVE  /\ v = "paid" => granted' = [granted EXCEPT !.paid = @ + 1]
         /\ v = "free" => granted' = [granted EXCEPT !.free = @ + 1]
         /\ v \notin {"paid", "free"} => UNCHANGED granted
  BY DEF Return

\* A handler about to charge is one of those the invariant counts, so a margin is
\* left for it.
LEMMA MarginForOne ==
  ASSUME IInv, NEW h \in Handler
  PROVE  /\ pc[h] = "chargePaid" => used + 1 <= purchased + (N - 1)
         /\ pc[h] = "chargeDaily" => daily # NoRow /\ daily + 1 <= MaxLimit + (N - 1)
         /\ pc[h] = "createDaily" => 1 <= MaxLimit + (N - 1)
<1>1. /\ used \in Nat /\ purchased \in Nat /\ daily \in Nat \cup {NoRow}
      /\ MaxLimit \in Nat /\ N \in Nat /\ N >= 1 /\ Count(pc[h]) \in Nat
      /\ Count(pc[h]) >= 1
  BY CountType, CountPositive, LimitAssumption DEF IInv, TypeOK
<1>2. CASE pc[h] = "chargePaid"
  BY <1>1, <1>2 DEF IInv, PaidBound
<1>3. CASE pc[h] = "chargeDaily"
  BY <1>1, <1>3, NoRowAssumption DEF IInv, DailyBound
<1>4. CASE pc[h] = "createDaily"
  <2>1. LimitOf[path[h]] > 0 /\ LimitOf[path[h]] \in Nat /\ LimitOf[path[h]] <= MaxLimit
    BY <1>4, LimitAssumption DEF IInv, TypeOK, Metered
  <2> QED BY <1>1, <1>4, <2>1
<1> QED BY <1>2, <1>3, <1>4

\* A handler takes a credit, of whatever kind, and returns.
LEMMA ChargeTakes ==
  ASSUME IInv, NEW h \in Handler,
         \/ ChargePaid(h) \/ ChargeDaily(h) \/ CreateDaily(h) \/ CommitLost(h)
  PROVE  \/ /\ pc[h] = "chargePaid"
            /\ used' = used + 1 /\ UNCHANGED <<purchased, daily>>
            /\ granted' \in {granted, [granted EXCEPT !.paid = @ + 1]}
         \/ /\ pc[h] = "chargeDaily" \/ (pc[h] = "createDaily" /\ daily = NoRow)
            /\ Today' = Today + 1 /\ UNCHANGED <<purchased, used>>
            /\ granted' \in {granted, [granted EXCEPT !.free = @ + 1]}
<1>1. /\ granted \in [paid : Nat, free : Nat] /\ daily \in Nat \cup {NoRow}
      /\ pc[h] = "chargeDaily" => daily # NoRow
  BY MarginForOne DEF IInv, TypeOK
<1>2. CASE ChargePaid(h)
  BY <1>1, <1>2, ReturnGrants DEF ChargePaid, COST
<1>3. CASE ChargeDaily(h)
  BY <1>1, <1>3, ReturnGrants, NoRowAssumption DEF ChargeDaily, Today, COST
<1>4. CASE CreateDaily(h)
  BY <1>1, <1>4, ReturnGrants, NoRowAssumption DEF CreateDaily, Today, COST
<1>5. CASE CommitLost(h)
  BY <1>1, <1>5, ReturnGrants, NoRowAssumption DEF CommitLost, Today, COST
<1> QED BY <1>2, <1>3, <1>4, <1>5

\* Every other step leaves the ledger alone or adds a purchase.
LEMMA OthersKeepLedger ==
  ASSUME IInv, NEW h \in Handler,
         \/ \E p \in Path, k \in BOOLEAN : Begin(h, p, k)
         \/ ReadMonthly(h) \/ Config(h) \/ ReadDaily(h) \/ CreateCollides(h) \/ Abort(h)
  PROVE  UNCHANGED <<purchased, used, daily, granted>>
<1>1. granted \in [paid : Nat, free : Nat]
  BY DEF IInv, TypeOK
<1> QED
  BY <1>1, ReturnGrants
  DEF Begin, ReadMonthly, Config, ReadDaily, CreateCollides, Abort, row, Goto

LEMMA PurchaseBuys ==
  ASSUME IInv, NEW c \in Amounts, Purchase(c)
  PROVE  /\ purchased' \in Nat /\ purchased' > purchased
         /\ UNCHANGED <<used, daily, granted>>
  BY AmountsAssumption DEF IInv, TypeOK, Purchase

LEMMA InitLedger == Init => Ledger!Init
  BY DEF Init, Today, Ledger!Init

LEMMA NextLedger == IInv /\ [Next]_vars => [Ledger!Next]_(Ledger!vars)
<1> SUFFICES ASSUME IInv, [Next]_vars
             PROVE  [Ledger!Next]_(Ledger!vars)
  OBVIOUS
<1>1. ASSUME UNCHANGED <<purchased, used, daily, granted>>
      PROVE  UNCHANGED Ledger!vars
  BY <1>1 DEF Ledger!vars, Today
<1>2. CASE UNCHANGED vars
  BY <1>1, <1>2 DEF vars, row
<1>3. ASSUME NEW h \in Handler,
             \/ ChargePaid(h) \/ ChargeDaily(h) \/ CreateDaily(h) \/ CommitLost(h)
      PROVE  Ledger!Next
  <2>1. CASE /\ pc[h] = "chargePaid"
             /\ used' = used + 1 /\ UNCHANGED <<purchased, daily>>
             /\ granted' \in {granted, [granted EXCEPT !.paid = @ + 1]}
    BY <2>1, MarginForOne DEF Ledger!Next, Ledger!TakePaid, Today, N
  <2>2. CASE /\ pc[h] = "chargeDaily" \/ (pc[h] = "createDaily" /\ daily = NoRow)
             /\ Today' = Today + 1 /\ UNCHANGED <<purchased, used>>
             /\ granted' \in {granted, [granted EXCEPT !.free = @ + 1]}
    <3>1. Today + 1 <= MaxLimit + (Cardinality(Handler) - 1)
      BY <2>2, MarginForOne DEF Today, N
    <3> QED BY <2>2, <3>1 DEF Ledger!Next, Ledger!TakeDaily
  <2> QED BY <1>3, <2>1, <2>2, ChargeTakes
<1>4. ASSUME NEW c \in Amounts, Purchase(c)
      PROVE  Ledger!Next
  BY <1>4, PurchaseBuys DEF Ledger!Next, Ledger!Buy, Today
<1> QED
  BY <1>1, <1>2, <1>3, <1>4, OthersKeepLedger DEF Next, Consume

\* Whatever number of handlers decide at a time and whichever calls fail, the
\* rows of the key are a ledger with a margin of the handlers less one.
THEOREM RowsKeepLedger == Spec => KeepsLedger
<1> QED
  BY InitLedger, NextLedger, IInvAlways, PTL DEF Spec, KeepsLedger, Ledger!Spec
=============================================================================
