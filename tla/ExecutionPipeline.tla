------------------------- MODULE ExecutionPipeline -------------------------
(***************************************************************************)
(* From the request to the chain: the execute endpoint (SwapExecute) and   *)
(* the queue worker (TransactionWorker), two processes with nothing in     *)
(* common but the table pending_transactions.  The jobs of the one are the *)
(* rows of the other.                                                      *)
(***************************************************************************)
EXTENDS Naturals

CONSTANTS Request, Key, BadKey, None,                      \* the endpoint
          Worker, BATCH, Time, Outcomes, Faults, NoJob    \* the worker

ASSUME EndpointAssumption == None \notin Request /\ BadKey \notin Key
ASSUME WorkerAssumption ==
  /\ BATCH \in Nat \ {0}
  /\ Time \subseteq Nat
  /\ Outcomes \subseteq {"ok", "throw"}
  /\ Faults \subseteq {"db", "crash"}
  /\ NoJob \notin Request

VARIABLES pc, key, reply, prior, idem, server,            \* the endpoint
          wpc, batch, job, runs,                          \* the worker
          status, created                                 \* the table

api == <<pc, key, reply, prior, idem, server>>
worker == <<wpc, batch, job, runs>>
table == <<status, created>>
vars == <<api, worker, table>>

\* A row stands in the table from its insert on, whatever its status.
Jobs == {r \in Request : status[r] # "none"}

Api  == INSTANCE SwapExecute WITH jobs <- Jobs
Work == INSTANCE TransactionWorker WITH Tx <- Request, pc <- wpc

Init == Work!Init /\ Api!Init

-----------------------------------------------------------------------------
\* enqueueTransactionJob inserts the row, or fails after it was inserted.
Insert(r) ==
  /\ Work!Insert(r)
  /\ Api!Enqueue(r) \/ Api!EnqueueError(r)

\* Everything else the API process does leaves the table alone.
ApiStep ==
  /\ UNCHANGED <<worker, table>>
  /\ Api!Next

WorkerStep(w) ==
  /\ Work!Step(w)
  /\ UNCHANGED api

Next ==
  \/ \E r \in Request : Insert(r)
  \/ ApiStep
  \/ \E w \in Worker : WorkerStep(w)

\* The endpoint as in SwapExecute, the worker as in TransactionWorker.
Handled(r) == Insert(r) \/ (UNCHANGED <<worker, table>> /\ Api!Handler(r))

Fairness ==
  /\ \A r \in Request : WF_vars(Handled(r))
  /\ WF_vars(UNCHANGED <<worker, table>> /\ (Api!GracefulExit \/ Api!ForceExit))
  /\ \A w \in Worker :
       /\ WF_vars(UNCHANGED api /\ Work!Process(w))
       /\ SF_vars(UNCHANGED api /\ Work!Poll(w))
       /\ SF_vars(UNCHANGED api /\ ((\E r \in Request : Work!Claim(w, r)) \/ Work!Fail(w)))

Spec == Init /\ [][Next]_vars
FairSpec == Spec /\ Fairness

-----------------------------------------------------------------------------
(* Properties *)

Executed == {r \in Request : \E w \in Worker : runs[w][r] > 0}

\* A client that repeats a request it was answered 200 for never causes a second
\* transaction on the chain, whatever the two processes and the database go
\* through in between.
RepeatsNotExecuted == \A r \in Executed : prior[r] = {}

\* What a client was answered stays true whatever happens to either process: the
\* job it was named is a row of its own key that no fault removes, and the client
\* may believe the row: it is completed only if the transaction was sent.
AnswersComeTrue ==
  \A r, t \in Request : reply[r].code = 200 /\ reply[r].tx = t =>
    /\ status[t] # "none" /\ key[t] = key[r]
    /\ status[t] = "completed" => t \in Executed

\* What an answer promises is kept: as long as some worker is up again and again,
\* the job it names is taken up, also if the server or the workers are killed and
\* restarted after the answer.
PromisesTakenUp ==
  []<>(\E w \in Worker : wpc[w] # "down") =>
    \A r, t \in Request :
      (reply[r].code = 200 /\ reply[r].tx = t)
        ~> status[t] \in {"processing", "completed", "failed"}
=============================================================================
