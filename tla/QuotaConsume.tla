---------------------------- MODULE QuotaConsume ----------------------------
(***************************************************************************)
(* consumeCredit, called by the rate limiter for every request it lets     *)
(* through: paid credits of the month first, the daily quota of the tier   *)
(* otherwise.  One API key in one month and one day, so one row of         *)
(* api_usage_quotas_monthly and one of api_usage_quotas_daily, and the     *)
(* handlers that serve requests of that key at the same time.              *)
(*                                                                         *)
(* The Prisma transaction runs READ COMMITTED: a read sees what is         *)
(* committed when it runs and locks nothing, an increment is atomic and    *)
(* its row stays locked until the commit.  Increment and commit are one    *)
(* step, since others can read only the old value and wait to write.  A    *)
(* row of the month that does not exist reads like a row of zeros; the     *)
(* row of the day is inserted by consumeCredit, so its absence is kept.    *)
(***************************************************************************)
EXTENDS Integers, FiniteSets

CONSTANTS Handler,       \* handlers in flight for this key at one time
          Path,          \* endpoints they serve
          LimitOf,       \* daily quota of a path in the key's tier; 0 if none
          MaxLimit,      \* the largest of them
          Amounts,       \* credits a purchase may buy
          MaxPurchased,  \* bound on the credits bought in the month
          Faults,        \* {"db"} if calls of the database may fail, else {}
          NoRow

ASSUME HandlerAssumption == IsFiniteSet(Handler)
ASSUME PathAssumption == Path # {}
ASSUME LimitAssumption ==
  /\ LimitOf \in [Path -> Nat]
  /\ MaxLimit \in Nat
  /\ \A p \in Path : LimitOf[p] <= MaxLimit
ASSUME AmountsAssumption == Amounts \subseteq Nat \ {0} /\ MaxPurchased \in Nat
ASSUME FaultsAssumption == Faults \subseteq {"db"}
ASSUME NoRowAssumption == NoRow \notin Nat

VARIABLES
  purchased, used,  \* the row of the month
  daily,            \* used_credits of the row of the day
  pc,               \* where the handler stands in consumeCredit
  path,             \* what it serves
  known,            \* whether its request carries an id of a key or user
  verdict,          \* what consumeCredit returned for its last request
  granted           \* history: requests allowed, by the quota they used

row == <<purchased, used, daily>>
vars == <<row, pc, path, known, verdict, granted>>

COST == 1

Deciding == {"monthly", "chargePaid", "config", "readDaily", "chargeDaily",
             "createDaily"}

\* "failed" is the {allowed: false} of the catch clause.
Verdicts == {"none", "paid", "free", "unmetered", "denied", "failed"}

TypeOK ==
  /\ purchased \in Nat /\ used \in Nat
  /\ daily \in Nat \cup {NoRow}
  /\ pc \in [Handler -> Deciding \cup {"idle", "done"}]
  /\ path \in [Handler -> Path]
  /\ known \in [Handler -> BOOLEAN]
  /\ verdict \in [Handler -> Verdicts]
  /\ granted \in [paid : Nat, free : Nat]

Init ==
  /\ purchased = 0 /\ used = 0
  /\ daily = NoRow
  /\ pc = [h \in Handler |-> "idle"]
  /\ path = [h \in Handler |-> CHOOSE p \in Path : TRUE]
  /\ known = [h \in Handler |-> FALSE]
  /\ verdict = [h \in Handler |-> "none"]
  /\ granted = [paid |-> 0, free |-> 0]

-----------------------------------------------------------------------------
Goto(h, l) ==
  /\ pc' = [pc EXCEPT ![h] = l]
  /\ UNCHANGED <<path, known, verdict, granted>>

Return(h, v) ==
  /\ pc' = [pc EXCEPT ![h] = "done"]
  /\ verdict' = [verdict EXCEPT ![h] = v]
  /\ granted' = [paid |-> granted.paid + (IF v = "paid" THEN 1 ELSE 0),
                 free |-> granted.free + (IF v = "free" THEN 1 ELSE 0)]
  /\ UNCHANGED <<path, known>>

\* A request without the id of a key or user has no paid credits to look for.
Begin(h, p, k) ==
  /\ pc[h] \in {"idle", "done"}
  /\ pc' = [pc EXCEPT ![h] = IF k THEN "monthly" ELSE "config"]
  /\ path' = [path EXCEPT ![h] = p]
  /\ known' = [known EXCEPT ![h] = k]
  /\ verdict' = [verdict EXCEPT ![h] = "none"]
  /\ UNCHANGED <<row, granted>>

-----------------------------------------------------------------------------
(* Deliberate errors.  Each is a plausible bug in one of the definitions     *)
(* that follow, with which one of the properties no longer holds.            *)

\* Any credits left, even none, are enough.
ReadMonthlyOffByOne(h) ==
  /\ pc[h] = "monthly"
  /\ Goto(h, IF purchased - used >= 0 THEN "chargePaid" ELSE "config")
  /\ UNCHANGED row

\* The quota is compared with what was used before this request.
ReadDailyOffByOne(h) ==
  /\ pc[h] = "readDaily"
  /\ \/ daily # NoRow /\ daily <= LimitOf[path[h]] /\ Goto(h, "chargeDaily")
     \/ daily # NoRow /\ daily > LimitOf[path[h]] /\ Return(h, "denied")
     \/ daily = NoRow /\ Goto(h, "createDaily")
  /\ UNCHANGED row

\* The counter of all paths is compared with the largest of their quotas.
ReadDailyOfLargest(h) ==
  /\ pc[h] = "readDaily"
  /\ \/ daily # NoRow /\ daily + COST <= MaxLimit /\ Goto(h, "chargeDaily")
     \/ daily # NoRow /\ daily + COST > MaxLimit /\ Return(h, "denied")
     \/ daily = NoRow /\ Goto(h, "createDaily")
  /\ UNCHANGED row

\* A row that exists already is as good as one just inserted.
CreateCollidesAllowed(h) ==
  /\ pc[h] = "createDaily"
  /\ daily # NoRow
  /\ Return(h, "free")
  /\ UNCHANGED row

\* The code of the error is returned.
CreateCollidesRethrown(h) ==
  /\ pc[h] = "createDaily"
  /\ daily # NoRow
  /\ Return(h, "P2002")
  /\ UNCHANGED row

\* The catch clause throws on.
AbortRethrown(h) ==
  /\ "db" \in Faults
  /\ pc[h] \in Deciding
  /\ Return(h, "thrown")
  /\ UNCHANGED row

-----------------------------------------------------------------------------
(* Paid credits of the month *)

ReadMonthly(h) ==
  /\ pc[h] = "monthly"
  /\ Goto(h, IF purchased - used >= COST THEN "chargePaid" ELSE "config")
  /\ UNCHANGED row

\* The increment does not look at purchased again.
ChargePaid(h) ==
  /\ pc[h] = "chargePaid"
  /\ used' = used + COST
  /\ Return(h, "paid")
  /\ UNCHANGED <<purchased, daily>>

-----------------------------------------------------------------------------
(* Daily quota of the tier *)

\* Endpoint, tier and tier_endpoint_configs, read outside the transaction.
Config(h) ==
  /\ pc[h] = "config"
  /\ \/ LimitOf[path[h]] <= 0 /\ Return(h, "unmetered")
     \/ LimitOf[path[h]] > 0 /\ ~known[h] /\ Return(h, "denied")
     \/ LimitOf[path[h]] > 0 /\ known[h] /\ Goto(h, "readDaily")
  /\ UNCHANGED row

\* Config has made sure that the quota of the path is at least COST.
ReadDaily(h) ==
  /\ pc[h] = "readDaily"
  /\ \/ daily # NoRow /\ daily + COST <= LimitOf[path[h]] /\ Goto(h, "chargeDaily")
     \/ daily # NoRow /\ daily + COST > LimitOf[path[h]] /\ Return(h, "denied")
     \/ daily = NoRow /\ Goto(h, "createDaily")
  /\ UNCHANGED row

ChargeDaily(h) ==
  /\ pc[h] = "chargeDaily"
  /\ daily' = daily + COST
  /\ Return(h, "free")
  /\ UNCHANGED <<purchased, used>>

CreateDaily(h) ==
  /\ pc[h] = "createDaily"
  /\ daily = NoRow
  /\ daily' = COST
  /\ Return(h, "free")
  /\ UNCHANGED <<purchased, used>>

\* Another handler inserted the row first: the unique index on (api_key_id,
\* date) rejects this insert and the transaction with it.
CreateCollides(h) ==
  /\ pc[h] = "createDaily"
  /\ daily # NoRow
  /\ Return(h, "failed")
  /\ UNCHANGED row

-----------------------------------------------------------------------------
(* Errors: the catch clause of consumeCredit *)

\* A call fails, or the transaction times out: it is rolled back.
Abort(h) ==
  /\ "db" \in Faults
  /\ pc[h] \in Deciding
  /\ Return(h, "failed")
  /\ UNCHANGED row

\* The commit is done but its answer is lost.
CommitLost(h) ==
  /\ "db" \in Faults
  /\ \/ pc[h] = "chargePaid" /\ used' = used + COST /\ daily' = daily
     \/ pc[h] = "chargeDaily" /\ daily' = daily + COST /\ used' = used
     \/ pc[h] = "createDaily" /\ daily = NoRow /\ daily' = COST /\ used' = used
  /\ Return(h, "failed")
  /\ UNCHANGED purchased

-----------------------------------------------------------------------------
\* addMonthlyCredits: an upsert that increments.
Purchase(c) ==
  /\ purchased + c <= MaxPurchased
  /\ purchased' = purchased + c
  /\ UNCHANGED <<used, daily, pc, path, known, verdict, granted>>

Consume(h) ==
  \/ ReadMonthly(h) \/ ChargePaid(h)
  \/ Config(h) \/ ReadDaily(h) \/ ChargeDaily(h)
  \/ CreateDaily(h) \/ CreateCollides(h)

Next ==
  \/ \E h \in Handler : Consume(h) \/ Abort(h) \/ CommitLost(h)
  \/ \E h \in Handler, p \in Path, k \in BOOLEAN : Begin(h, p, k)
  \/ \E c \in Amounts : Purchase(c)

Spec == Init /\ [][Next]_vars

-----------------------------------------------------------------------------
(* Properties *)

Today == IF daily = NoRow THEN 0 ELSE daily

\* However handlers interleave and calls fail, every request let through on a
\* quota is counted in its row: increments are never lost to one another.
GrantsAreCounted ==
  /\ granted.paid <= used
  /\ granted.free <= Today

\* The check and the increment are apart, so concurrent handlers may overdraw
\* the paid credits; but never by more than the handlers in flight less one,
\* however many requests and purchases there are.
PaidOverdrawBounded ==
  used > 0 => used <= purchased + Cardinality(Handler) - 1

\* The same for the daily quota, whose one counter all paths of the key share:
\* it passes the largest limit by the handlers in flight less one at most.
DailyOverdrawBounded ==
  daily # NoRow => daily <= MaxLimit + Cardinality(Handler) - 1

\* All of it in one: the rows of the key are the ledger of CreditLedger, with a
\* margin of the handlers less one.  A lost answer or a rolled back transaction
\* never takes a credit twice, and none is given back.
Ledger ==
  INSTANCE CreditLedger
    WITH today <- Today, Limit <- MaxLimit,
         OverPaid <- Cardinality(Handler) - 1, OverDaily <- Cardinality(Handler) - 1

KeepsLedger == Ledger!Spec
=============================================================================
