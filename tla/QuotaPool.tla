----------------------------- MODULE QuotaPool ------------------------------
(***************************************************************************)
(* consumeCredit on a pool of connections.  Its transaction holds one      *)
(* connection from its first statement to its end, and without paid        *)
(* credits it looks up endpoint, tier and quota on the global client, for  *)
(* each lookup waiting for a second connection of the same pool.  When     *)
(* every connection is held by such a transaction, all of them wait for    *)
(* each other, until Prisma's timeout rolls one back.                      *)
(*                                                                         *)
(* The state of QuotaConsume is kept; here are added the connections and   *)
(* those who wait for them.  The pool (pg) and the timers (Prisma) are     *)
(* modelled from their use in lib/prisma.ts and quotaService.ts: no sizes  *)
(* and no times are configured, waiting is first come, first served and    *)
(* without a limit of its own.  Other users of the pool hold a connection  *)
(* for one statement and never wait while they do; they are left out.      *)
(***************************************************************************)
EXTENDS QuotaConsume, SequencesExt

CONSTANT POOL      \* connections of the pool

ASSUME PoolAssumption == POOL \in Nat \ {0}
ASSUME TimeoutAssumption == "db" \in Faults

VARIABLES held,      \* connections in use: a handler and what for
          queue,     \* those who wait for one
          expired,   \* handlers whose transaction Prisma has rolled back
          lookup     \* the lookup a handler has under way

pool == <<held, queue, expired, lookup>>
pvars == <<vars, pool>>

Use == Handler \X {"tx", "lookup"}
Tx(h) == <<h, "tx">>
Look(h) == <<h, "lookup">>

Waiting == {queue[i] : i \in DOMAIN queue}

PoolTypeOK ==
  /\ TypeOK
  /\ held \subseteq Use
  /\ queue \in Seq(Use)
  /\ expired \subseteq Handler
  /\ lookup \in [Handler -> {"none", "exact", "pattern", "tier", "config"}]

PoolInit ==
  /\ Init
  /\ held = {} /\ queue = <<>> /\ expired = {}
  /\ lookup = [h \in Handler |-> "none"]

LeaveQueue(h) ==
  \E i \in DOMAIN queue : queue[i] = Tx(h) /\ queue' = RemoveAt(queue, i)

-----------------------------------------------------------------------------
(* Deliberate errors.  Each is a plausible bug in one of the definitions     *)
(* that follow, with which one of the properties no longer holds.            *)

\* A transaction that ends gives back the connection of its lookup only.
LeaveKeepsTx(h) ==
  /\ held' = held \ {Look(h)}
  /\ expired' = expired \ {h}
  /\ lookup' = [lookup EXCEPT ![h] = "none"]

\* What was rolled back takes further statements.
OpenIfExpired(h) == Tx(h) \in held \/ h \in expired

\* The timeout marks the transaction but leaves the connection with it.
TimeoutKeepsConnection(h) ==
  /\ Tx(h) \in held /\ h \notin expired
  /\ expired' = expired \cup {h}
  /\ UNCHANGED <<vars, held, queue, lookup>>

\* Who gets no connection is let through.
GiveUpLetsPass(h) ==
  /\ LeaveQueue(h)
  /\ Return(h, "unmetered")
  /\ UNCHANGED <<row, held, expired, lookup>>

-----------------------------------------------------------------------------
(* The pool *)

\* A free connection goes to the one who has waited longest.
Grant ==
  /\ queue # <<>>
  /\ Cardinality(held) < POOL
  /\ held' = held \cup {Head(queue)}
  /\ queue' = Tail(queue)
  /\ UNCHANGED <<vars, expired, lookup>>

\* The transaction is over, and with it all that its handler holds.
Leave(h) ==
  /\ held' = held \ {Tx(h), Look(h)}
  /\ expired' = expired \ {h}
  /\ lookup' = [lookup EXCEPT ![h] = "none"]

\* The lookup l of the configuration asks for a connection of its own.
AskFor(h, l) ==
  /\ lookup' = [lookup EXCEPT ![h] = l]
  /\ queue' = Append(queue, Look(h))

\* rateLimiter calls consumeCredit for a request with a key: $transaction.
BeginTx(h, p) ==
  /\ Begin(h, p, TRUE)
  /\ queue' = Append(queue, Tx(h))
  /\ UNCHANGED <<held, expired, lookup>>

\* maxWait is over before a connection is free.
GiveUp(h) ==
  /\ LeaveQueue(h)
  /\ Abort(h)
  /\ UNCHANGED <<held, expired, lookup>>

-----------------------------------------------------------------------------
(* The transaction *)

Open(h) == Tx(h) \in held

\* A statement that is not the last: the handler goes on, or looks up the
\* configuration.
Continue(h) ==
  /\ Open(h)
  /\ ReadMonthly(h) \/ (ReadDaily(h) /\ pc'[h] # "done")
  /\ IF pc'[h] = "config" THEN AskFor(h, "exact") ELSE UNCHANGED <<queue, lookup>>
  /\ UNCHANGED <<held, expired>>

\* The last: a charge with its commit, a refusal or an error.
Finish(h) ==
  /\ Open(h)
  /\ pc[h] # "config"
  /\ \/ ChargePaid(h) \/ ChargeDaily(h) \/ CreateDaily(h) \/ CreateCollides(h)
     \/ ReadDaily(h) /\ pc'[h] = "done"
     \/ Abort(h) \/ CommitLost(h)
  /\ Leave(h)
  /\ UNCHANGED queue

\* Prisma's timeout: the transaction is rolled back.  consumeCredit does not
\* learn of it before its next statement or its end.
Timeout(h) ==
  /\ Tx(h) \in held
  /\ held' = held \ {Tx(h)}
  /\ expired' = expired \cup {h}
  /\ UNCHANGED <<vars, queue, lookup>>

StatementOfExpired(h) ==
  /\ h \in expired
  /\ pc[h] # "config"
  /\ Abort(h)
  /\ Leave(h)
  /\ UNCHANGED queue

-----------------------------------------------------------------------------
(* The lookups of the configuration *)

\* getEndpointByPathMethod (twice, unless the path itself is found),
\* getTierByName, getTierEndpointConfig.
After(l) ==
  CASE l = "exact" -> {"pattern", "tier"}
    [] l = "pattern" -> {"tier"}
    [] l = "tier" -> {"config"}
    [] OTHER -> {}

\* A path with a quota is found, and so are its tier and their quota.
MayBeLast(h) ==
  IF LimitOf[path[h]] > 0 THEN lookup[h] = "config" ELSE lookup[h] # "exact"

LookupMore(h) ==
  /\ Look(h) \in held
  /\ \E l \in After(lookup[h]) : AskFor(h, l)
  /\ held' = held \ {Look(h)}
  /\ UNCHANGED <<vars, expired>>

\* The limit is known: the callback returns, or comes to the row of the day.
LookupLast(h) ==
  /\ Look(h) \in held
  /\ MayBeLast(h)
  /\ h \notin expired
  /\ Config(h)
  /\ IF pc'[h] = "done" THEN Leave(h)
     ELSE /\ held' = held \ {Look(h)}
          /\ lookup' = [lookup EXCEPT ![h] = "none"]
          /\ UNCHANGED expired
  /\ UNCHANGED queue

\* A lookup fails, or the transaction it was for is no more.
LookupFails(h) ==
  /\ Look(h) \in held
  /\ Abort(h)
  /\ Leave(h)
  /\ UNCHANGED queue

-----------------------------------------------------------------------------
Work(h) ==
  \/ Continue(h) \/ Finish(h) \/ StatementOfExpired(h)
  \/ LookupMore(h) \/ LookupLast(h) \/ LookupFails(h)

PoolNext ==
  \/ Grant
  \/ \E h \in Handler : Work(h) \/ Timeout(h) \/ GiveUp(h)
  \/ \E h \in Handler, p \in Path : BeginTx(h, p)
  \/ \E c \in Amounts : Purchase(c) /\ UNCHANGED pool

PoolSpec == PoolInit /\ [][PoolNext]_pvars

\* The database ends every statement it is sent, with a result or an error, and
\* hands over what is free; the timer of a transaction fires.
Fairness ==
  /\ WF_pvars(Grant)
  /\ \A h \in Handler : WF_pvars(Work(h)) /\ WF_pvars(Timeout(h))

FairPool == PoolSpec /\ Fairness

-----------------------------------------------------------------------------
(* Properties *)

\* No more connections are in use than there are, and a handler that has its
\* answer holds none and waits for none, however its transaction ended.
NothingLeaks ==
  /\ Cardinality(held) <= POOL
  /\ \A u \in held \cup Waiting : pc[u[1]] \in Deciding

\* The pool limits how many transactions see the same credits: the paid credits
\* are overdrawn by the connections less one, however many handlers there are,
\* because what was timed out never charges.
PaidOverdrawWithinPool == used > 0 => used <= purchased + POOL - 1

\* Nobody comes to the row of the day without a lookup, and no lookup is done
\* when all connections are held by transactions: one less than the connections
\* see the same daily credits, and of a single connection none does.
DailyOverdrawWithinPool ==
  daily # NoRow => POOL > 1 /\ daily <= MaxLimit + POOL - 2

\* On the pool the rows are the ledger of CreditLedger with the margins of the
\* pool, however many handlers decide at a time.
PoolLedger ==
  INSTANCE CreditLedger
    WITH today <- Today, Limit <- MaxLimit,
         OverPaid <- POOL - 1, OverDaily <- POOL - 2

KeepsPoolLedger == PoolLedger!Spec

\* A request that consumeCredit is called for gets its answer, even when all
\* connections are held by transactions that wait for one more.  Handlers are
\* interchangeable, so it is said of one of them.
HandlerIsAnswered ==
  LET h == CHOOSE h \in Handler : TRUE
  IN  pc[h] \in Deciding ~> pc[h] = "done"

\* On the pool, consumeCredit does what QuotaConsume says it does.
RefinesQuotaConsume == Spec
=============================================================================
