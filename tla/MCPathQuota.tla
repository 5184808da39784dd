---------------------------- MODULE MCPathQuota ----------------------------
(* QuotaConsume with what each path has charged to the row of the day, which  *)
(* the row itself, one counter for all paths of the key, does not tell.       *)
EXTENDS MCQuotaConsume

VARIABLE charged  \* history: credits of the daily quota, by path

HistoryInit == Init /\ charged = [p \in Path |-> 0]

\* A step that charges moves the handler that makes it.
HistoryNext ==
  /\ Next
  /\ charged' = [p \in Path |->
       IF \E h \in Handler : pc'[h] # pc[h] /\ path[h] = p
       THEN charged[p] + Today' - Today
       ELSE charged[p]]

HistorySpec == HistoryInit /\ [][HistoryNext]_<<vars, charged>>

\* A path is never charged for more than its own limit and the handlers in
\* flight less one, and without a limit for nothing, although all paths of the
\* key read and write one counter and each compares it with another limit.
PathOverdrawBounded ==
  \A p \in Path : charged[p] > 0 =>
    LimitOf[p] > 0 /\ charged[p] <= LimitOf[p] + Cardinality(Handler) - 1
=============================================================================
