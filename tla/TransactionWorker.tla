------------------------- MODULE TransactionWorker -------------------------
(***************************************************************************)
(* The queue worker: every poll reads a batch of pending rows, oldest      *)
(* first, and processes them one by one with three separate writes per     *)
(* row.  Nothing claims a row for one worker: the row is looked at once,   *)
(* when the batch is read, and written by id ever after.                   *)
(*                                                                         *)
(* An action is one database call, or one call of the blockchain adapter,  *)
(* and the code that runs until the next one.  A write that the worker     *)
(* sees fail may or may not have been committed.                           *)
(***************************************************************************)
EXTENDS Naturals, FiniteSets

CONSTANTS Tx,        \* rows ever inserted in pending_transactions
          Worker,    \* worker processes
          BATCH,     \* findMany's take
          Time,      \* values of created_at
          Outcomes,  \* what executeTransaction may do: "ok", "throw"
          Faults,    \* what may go wrong around it: "db", "crash"
          NoJob

ASSUME BatchAssumption == BATCH \in Nat \ {0}
ASSUME TimeAssumption == Time \subseteq Nat
ASSUME OutcomesAssumption == Outcomes \subseteq {"ok", "throw"}
ASSUME FaultsAssumption == Faults \subseteq {"db", "crash"}
ASSUME NoJobAssumption == NoJob \notin Tx

VARIABLES
  status,   \* status of a row; "none": not inserted yet
  created,  \* created_at of a row
  pc,       \* where the loop of a worker stands
  batch,    \* rows a worker has read and not yet started
  job,      \* row a worker is processing
  runs      \* history: executions of a row on chain, per worker

wvars == <<pc, batch, job>>
vars == <<status, created, wvars, runs>>

Terminal == {"completed", "failed"}
Status   == {"none", "pending", "processing"} \cup Terminal
Busy     == {"execute", "complete", "fail"}

TypeOK ==
  /\ status \in [Tx -> Status]
  /\ created \in [Tx -> Nat]
  /\ pc \in [Worker -> {"idle", "next", "down"} \cup Busy]
  /\ batch \in [Worker -> SUBSET Tx]
  /\ job \in [Worker -> Tx \cup {NoJob}]
  /\ runs \in [Worker -> [Tx -> Nat]]

Init ==
  /\ status = [t \in Tx |-> "none"]
  /\ created = [t \in Tx |-> 0]
  /\ pc = [w \in Worker |-> "idle"]
  /\ batch = [w \in Worker |-> {}]
  /\ job = [w \in Worker |-> NoJob]
  /\ runs = [w \in Worker |-> [t \in Tx |-> 0]]

-----------------------------------------------------------------------------
(* The table *)

Pending == {t \in Tx : status[t] = "pending"}

\* enqueueTransactionJob: two rows may share a created_at, and a row may
\* become visible after one with a later created_at.
Insert(t) ==
  /\ status[t] = "none"
  /\ status' = [status EXCEPT ![t] = "pending"]
  /\ \E at \in Time : created' = [created EXCEPT ![t] = at]
  /\ UNCHANGED <<wvars, runs>>

\* A deliberate error: rows left in processing by a crash are read again.
BatchesWithProcessing ==
  {B \in SUBSET {t \in Tx : status[t] \in {"pending", "processing"}} :
     Cardinality(B) <= BATCH}

\* A deliberate error: the query has no orderBy.
BatchesAnyOrder ==
  {B \in SUBSET Pending :
     /\ Cardinality(B) <= BATCH
     /\ Cardinality(B) < BATCH => B = Pending}

\* The results findMany may return: the oldest pending rows, at most BATCH.
Batches ==
  {B \in SUBSET Pending :
     /\ Cardinality(B) <= BATCH
     /\ Cardinality(B) < BATCH => B = Pending
     /\ \A t \in B, u \in Pending \ B : created[t] <= created[u]}

SetStatus(t, s) == status' = [status EXCEPT ![t] = s]

-----------------------------------------------------------------------------
(* poll *)

\* An empty result, or an error, only re-arms the timer.
PollEmpty(w) ==
  /\ pc[w] = "idle"
  /\ Pending = {}
  /\ UNCHANGED vars

Poll(w) ==
  /\ pc[w] = "idle"
  /\ Pending # {}
  /\ \E B \in Batches : batch' = [batch EXCEPT ![w] = B]
  /\ pc' = [pc EXCEPT ![w] = "next"]
  /\ UNCHANGED <<status, created, job, runs>>

\* The next row of the batch, in created_at order.
Take(w, t) ==
  /\ pc[w] = "next"
  /\ t \in batch[w]
  /\ \A u \in batch[w] : created[t] <= created[u]
  /\ batch' = [batch EXCEPT ![w] = @ \ {t}]
  /\ job' = [job EXCEPT ![w] = t]

\* processJob returned: the next row, or the timer when there is none.
Done(w) ==
  /\ pc' = [pc EXCEPT ![w] = IF batch[w] = {} THEN "idle" ELSE "next"]
  /\ job' = [job EXCEPT ![w] = NoJob]
  /\ UNCHANGED batch

-----------------------------------------------------------------------------
(* Deliberate errors.  Each is a plausible bug in one of the definitions     *)
(* that follow, with which one of the properties no longer holds.            *)

\* A failed execution is taken for a success.
ExecuteThrowSwallowed(w) ==
  /\ pc[w] = "execute"
  /\ "throw" \in Outcomes
  /\ pc' = [pc EXCEPT ![w] = "complete"]
  /\ UNCHANGED <<status, created, batch, job, runs>>

\* A failed execution gets past the catch of processJob.
ExecuteThrowEscapes(w) ==
  /\ pc[w] = "execute"
  /\ "throw" \in Outcomes
  /\ Done(w)
  /\ UNCHANGED <<status, created, runs>>

\* A failed row is put back for another try.
FailRetries(w) ==
  /\ pc[w] = "fail"
  /\ SetStatus(job[w], "pending")
  /\ Done(w)
  /\ UNCHANGED <<created, runs>>

\* The error message is written where the status belongs.
FailWithMessage(w) ==
  /\ pc[w] = "fail"
  /\ SetStatus(job[w], "error_message")
  /\ Done(w)
  /\ UNCHANGED <<created, runs>>

\* The error escapes poll before it re-arms the timer.
FailErrorEscapes(w) ==
  /\ "db" \in Faults
  /\ pc[w] = "fail"
  /\ batch' = [batch EXCEPT ![w] = {}]
  /\ pc' = [pc EXCEPT ![w] = "next"]
  /\ job' = [job EXCEPT ![w] = NoJob]
  /\ UNCHANGED <<status, created, runs>>

-----------------------------------------------------------------------------
(* processJob *)

Claim(w, t) ==
  /\ Take(w, t)
  /\ SetStatus(t, "processing")
  /\ pc' = [pc EXCEPT ![w] = "execute"]
  /\ UNCHANGED <<created, runs>>

ClaimError(w, t) ==
  /\ "db" \in Faults
  /\ Take(w, t)
  /\ status' = status \/ SetStatus(t, "processing")
  /\ pc' = [pc EXCEPT ![w] = "fail"]
  /\ UNCHANGED <<created, runs>>

ExecuteOk(w) ==
  /\ pc[w] = "execute"
  /\ "ok" \in Outcomes
  /\ runs' = [runs EXCEPT ![w][job[w]] = @ + 1]
  /\ pc' = [pc EXCEPT ![w] = "complete"]
  /\ UNCHANGED <<status, created, batch, job>>

ExecuteThrow(w) ==
  /\ pc[w] = "execute"
  /\ "throw" \in Outcomes
  /\ pc' = [pc EXCEPT ![w] = "fail"]
  /\ UNCHANGED <<status, created, batch, job, runs>>

Complete(w) ==
  /\ pc[w] = "complete"
  /\ SetStatus(job[w], "completed")
  /\ Done(w)
  /\ UNCHANGED <<created, runs>>

\* The same catch as for a failed execution: the row will be marked failed.
CompleteError(w) ==
  /\ "db" \in Faults
  /\ pc[w] = "complete"
  /\ status' = status \/ SetStatus(job[w], "completed")
  /\ pc' = [pc EXCEPT ![w] = "fail"]
  /\ UNCHANGED <<created, batch, job, runs>>

Fail(w) ==
  /\ pc[w] = "fail"
  /\ SetStatus(job[w], "failed")
  /\ Done(w)
  /\ UNCHANGED <<created, runs>>

\* The write in the catch throws too: poll's catch drops the rest of the batch.
FailError(w) ==
  /\ "db" \in Faults
  /\ pc[w] = "fail"
  /\ status' = status \/ SetStatus(job[w], "failed")
  /\ pc' = [pc EXCEPT ![w] = "idle"]
  /\ batch' = [batch EXCEPT ![w] = {}]
  /\ job' = [job EXCEPT ![w] = NoJob]
  /\ UNCHANGED <<created, runs>>

-----------------------------------------------------------------------------
(* The process *)

Crash(w) ==
  /\ "crash" \in Faults
  /\ pc[w] # "down"
  /\ pc' = [pc EXCEPT ![w] = "down"]
  /\ batch' = [batch EXCEPT ![w] = {}]
  /\ job' = [job EXCEPT ![w] = NoJob]
  /\ UNCHANGED <<status, created, runs>>

\* runWorker starts over; nothing takes up the row that was being processed.
Restart(w) ==
  /\ pc[w] = "down"
  /\ pc' = [pc EXCEPT ![w] = "idle"]
  /\ UNCHANGED <<status, created, batch, job, runs>>

-----------------------------------------------------------------------------
Process(w) ==
  \/ \E t \in Tx : Claim(w, t) \/ ClaimError(w, t)
  \/ ExecuteOk(w) \/ ExecuteThrow(w)
  \/ Complete(w) \/ CompleteError(w)
  \/ Fail(w) \/ FailError(w)

Step(w) == PollEmpty(w) \/ Poll(w) \/ Process(w) \/ Crash(w) \/ Restart(w)

Next ==
  \/ \E t \in Tx : Insert(t)
  \/ \E w \in Worker : Step(w)

\* Every call of a worker ends.  A worker polls as soon as it starts, so it does
\* not die before every poll; nor does the database refuse for ever what it
\* writes of the rows it took.  Nothing in the repository starts a dead worker
\* again, so that is left open.
Fairness ==
  \A w \in Worker :
    /\ WF_vars(Process(w))
    /\ SF_vars(Poll(w))
    /\ SF_vars((\E t \in Tx : Claim(w, t)) \/ Fail(w))

Spec == Init /\ [][Next]_vars
FairSpec == Spec /\ Fairness

-----------------------------------------------------------------------------
(* Properties *)

\* One worker never sends a job to the chain twice, whatever writes fail and
\* however often it is restarted: no status ever goes back to pending, and a
\* row that is read pending has not been run by this worker.
AtMostOncePerWorker ==
  \A w \in Worker, t \in Tx : runs[w][t] <= 1

\* A row says completed only if its transaction was sent to the chain.
CompletedWasExecuted ==
  \A t \in Tx : status[t] = "completed" => \E w \in Worker : runs[w][t] > 0

\* A single worker that may crash but whose writes succeed keeps the promise of
\* JobLifecycle: taken up once, sent at most once, failed only if not sent.
Sent == {t \in Tx : \E w \in Worker : runs[w][t] > 0}

Lifecycle == INSTANCE JobLifecycle WITH sent <- Sent

KeepsLifecycle == Lifecycle!Spec

\* Any number of workers keep the promise of SharedJobs under any faults: a row
\* is sent only by a worker that read it while it was pending, and no row that
\* was taken up or failed, by whomever, is ever read again.
Holds ==
  [w \in Worker |-> batch[w] \cup (IF pc[w] = "execute" THEN {job[w]} ELSE {})]

Shared == INSTANCE SharedJobs WITH holds <- Holds

KeepsSharedJobs == Shared!Spec

\* A row is processing only while some worker is busy with it: without faults
\* none is left behind, even where several workers hold it in their batches.
ProcessingHasWorker ==
  \A t \in Tx : status[t] = "processing" =>
    \E w \in Worker : job[w] = t /\ pc[w] \in Busy

\* As long as some worker is up again and again, no row stays pending for ever:
\* not one that did not fit in a batch, nor one that was dropped with its batch by
\* a write that failed in the catch clause, or by the death of the worker.
EveryRowTakenUp ==
  []<>(\E w \in Worker : pc[w] # "down") =>
    \A t \in Tx : []<>(status[t] # "pending")

\* Without faults no row that was queued is ever without an end, even if more rows
\* arrive than fit in a batch and go on arriving for ever: who waits grows older,
\* and polls read the oldest first.
EveryRowSettles ==
  \A t \in Tx : []<>(status[t] \notin {"pending", "processing"})
=============================================================================
