------------------------ MODULE MCTransactionWorker ------------------------
(* Small instances of TransactionWorker for TLC. *)
EXTENDS TransactionWorker

Times == 1..2
Both == {"ok", "throw"}
Throw == {"throw"}
AnyFault == {"db", "crash"}
CrashOnly == {"crash"}
NoFault == {}

-----------------------------------------------------------------------------
(* Rows that arrive without end.  A row that has ended and is in no worker's  *)
(* hands is never read again, so the next row may take its name.  It is newer *)
(* than every row that still counts, and those are numbered anew.             *)

Live ==
  {t \in Tx : status[t] = "pending" \/ \E w \in Worker : t \in batch[w] \cup {job[w]}}

Rank(t) == 1 + Cardinality({created[u] : u \in {v \in Live : created[v] < created[t]}})

Arrive(t) ==
  /\ status[t] \in Terminal /\ t \notin Live
  /\ status' = [status EXCEPT ![t] = "pending"]
  /\ created' = [u \in Tx |-> IF u = t THEN 1 + Cardinality({created[v] : v \in Live})
                                       ELSE IF u \in Live THEN Rank(u) ELSE 0]
  /\ UNCHANGED <<wvars, runs>>

\* ExecuteOk, but that the history does not count what it sends: the rows are
\* without number here, and no property of this specification reads the history.
ExecuteOkUncounted(w) ==
  /\ pc[w] = "execute"
  /\ pc' = [pc EXCEPT ![w] = "complete"]
  /\ UNCHANGED <<status, created, batch, job, runs>>

\* Outcomes is {"throw"}: the other outcome is ExecuteOkUncounted.
EndlessNext ==
  \/ Next
  \/ \E t \in Tx : Arrive(t)
  \/ \E w \in Worker : ExecuteOkUncounted(w)

EndlessSpec == Init /\ [][EndlessNext]_vars /\ Fairness
=============================================================================
