---------------------- MODULE ExecutionPipelineProofs ----------------------
(***************************************************************************)
(* TLAPS proofs about ExecutionPipeline.  It implements the endpoint and   *)
(* it implements the worker, so what SwapExecuteProofs and                 *)
(* TransactionWorkerProofs prove of each holds of it; what it promises     *)
(* itself follows from the two together.                                   *)
(***************************************************************************)
EXTENDS ExecutionPipeline, TLAPS

ApiP  == INSTANCE SwapExecuteProofs WITH jobs <- Jobs
WorkP == INSTANCE TransactionWorkerProofs WITH Tx <- Request, pc <- wpc

-----------------------------------------------------------------------------
(* The worker *)

LEMMA InitWorker == Init => WorkP!Init
  BY DEF Init, Work!Init, WorkP!Init

\* The definitions of the worker, by either instance.
LEMMA SameInsert == ASSUME NEW r, Work!Insert(r) PROVE WorkP!Insert(r)
  BY DEF Work!Insert, WorkP!Insert, Work!wvars, WorkP!wvars

LEMMA SameStep == ASSUME NEW w, Work!Step(w) PROVE WorkP!Step(w)
<1>1. UNCHANGED Work!vars => UNCHANGED WorkP!vars
  BY DEF Work!vars, WorkP!vars, Work!wvars, WorkP!wvars
<1>2. Work!Pending = WorkP!Pending
  BY DEF Work!Pending, WorkP!Pending
<1>3. Work!PollEmpty(w) => WorkP!PollEmpty(w)
  BY <1>1, <1>2 DEF Work!PollEmpty, WorkP!PollEmpty
<1>4. Work!Poll(w) => WorkP!Poll(w)
  <2>1. \A B : Work!Cardinality(B) = WorkP!Cardinality(B)
    BY DEF Work!Cardinality, WorkP!Cardinality
  <2>2. Work!Batches = WorkP!Batches
    BY <1>2, <2>1 DEF Work!Batches, WorkP!Batches
  <2> QED BY <1>2, <2>2 DEF Work!Poll, WorkP!Poll
<1>5. \A t : Work!Claim(w, t) => WorkP!Claim(w, t)
  BY DEF Work!Claim, WorkP!Claim, Work!Take, WorkP!Take,
         Work!SetStatus, WorkP!SetStatus
<1>6. \A t : Work!ClaimError(w, t) => WorkP!ClaimError(w, t)
  BY DEF Work!ClaimError, WorkP!ClaimError, Work!Take, WorkP!Take,
         Work!SetStatus, WorkP!SetStatus
<1>7. Work!ExecuteOk(w) => WorkP!ExecuteOk(w)
  BY DEF Work!ExecuteOk, WorkP!ExecuteOk
<1>8. Work!ExecuteThrow(w) => WorkP!ExecuteThrow(w)
  BY DEF Work!ExecuteThrow, WorkP!ExecuteThrow
<1>9. Work!Complete(w) => WorkP!Complete(w)
  BY DEF Work!Complete, WorkP!Complete, Work!SetStatus, WorkP!SetStatus,
         Work!Done, WorkP!Done
<1>10. Work!CompleteError(w) => WorkP!CompleteError(w)
  BY DEF Work!CompleteError, WorkP!CompleteError, Work!SetStatus, WorkP!SetStatus
<1>11. Work!Fail(w) => WorkP!Fail(w)
  BY DEF Work!Fail, WorkP!Fail, Work!SetStatus, WorkP!SetStatus,
         Work!Done, WorkP!Done
<1>12. Work!FailError(w) => WorkP!FailError(w)
  BY DEF Work!FailError, WorkP!FailError, Work!SetStatus, WorkP!SetStatus
<1>13. Work!Crash(w) => WorkP!Crash(w)
  BY DEF Work!Crash, WorkP!Crash
<1>14. Work!Restart(w) => WorkP!Restart(w)
  BY DEF Work!Restart, WorkP!Restart
<1> QED
  BY <1>3, <1>4, <1>5, <1>6, <1>7, <1>8, <1>9, <1>10, <1>11, <1>12, <1>13, <1>14
  DEF Work!Step, WorkP!Step, Work!Process, WorkP!Process

LEMMA StepOfWorker ==
  ASSUME [Next]_vars
  PROVE  [WorkP!Next]_(WorkP!vars)
<1>1. (UNCHANGED <<worker, table>>) => UNCHANGED WorkP!vars
  BY DEF worker, table, WorkP!vars, WorkP!wvars
<1>2. \A r \in Request : Insert(r) => WorkP!Next
  BY SameInsert DEF Insert, WorkP!Next
<1>3. \A w \in Worker : WorkerStep(w) => WorkP!Next
  BY SameStep DEF WorkerStep, WorkP!Next
<1> QED BY <1>1, <1>2, <1>3 DEF Next, ApiStep, vars

\* The pipeline is the worker of TransactionWorker, whatever requests arrive.
THEOREM PipelineIsWorker == Spec => WorkP!Spec
<1> QED BY InitWorker, StepOfWorker, PTL DEF Spec, WorkP!Spec

LEMMA WorkerInvariant == Spec => []WorkP!IInv
<1> QED BY PipelineIsWorker, WorkP!IInvAlways, WorkerAssumption, PTL

-----------------------------------------------------------------------------
(* The endpoint *)

LEMMA InitEndpoint == Init => ApiP!Init
  BY DEF Init, Api!Init, ApiP!Init, Api!NoReply, ApiP!NoReply

\* The definitions of the endpoint, by either instance.
LEMMA SameHandler ==
  ASSUME NEW r, Api!Handler(r)
  PROVE  ApiP!Handler(r)
<1> USE DEF Api!Answer, ApiP!Answer
<1>1. Api!CheckReplay(r) => ApiP!CheckReplay(r)
  BY DEF Api!CheckReplay, ApiP!CheckReplay
<1>2. Api!CheckMiss(r) => ApiP!CheckMiss(r)
  BY DEF Api!CheckMiss, ApiP!CheckMiss
<1>3. \A c : Api!CheckReject(r, c) => ApiP!CheckReject(r, c)
  BY DEF Api!CheckReject, ApiP!CheckReject
<1>4. Api!CheckError(r) => ApiP!CheckError(r)
  BY DEF Api!CheckError, ApiP!CheckError
<1>5. Api!Enqueue(r) => ApiP!Enqueue(r)
  BY DEF Api!Enqueue, ApiP!Enqueue
<1>6. Api!EnqueueError(r) => ApiP!EnqueueError(r)
  BY DEF Api!EnqueueError, ApiP!EnqueueError
<1>7. Api!Store(r) => ApiP!Store(r)
  BY DEF Api!Store, ApiP!Store
<1>8. Api!StoreError(r) => ApiP!StoreError(r)
  BY DEF Api!StoreError, ApiP!StoreError
<1>9. Api!Respond(r) => ApiP!Respond(r)
  BY DEF Api!Respond, ApiP!Respond
<1> QED
  BY <1>1, <1>2, <1>3, <1>4, <1>5, <1>6, <1>7, <1>8, <1>9
  DEF Api!Handler, ApiP!Handler

LEMMA SameNext == ASSUME Api!Next PROVE ApiP!Next
<1>1. \A r : Api!RejectKey(r) => ApiP!RejectKey(r)
  BY DEF Api!RejectKey, ApiP!RejectKey, Api!Answer, ApiP!Answer
<1>2. \A r, k : Api!Arrive(r, k) => ApiP!Arrive(r, k)
  BY DEF Api!Arrive, ApiP!Arrive, Api!Acknowledged, ApiP!Acknowledged
<1>3. Api!Shutdown => ApiP!Shutdown
  BY DEF Api!Shutdown, ApiP!Shutdown
<1>4. Api!Exit => ApiP!Exit
  BY DEF Api!Exit, ApiP!Exit, Api!Open, ApiP!Open, Api!Awaiting, ApiP!Awaiting
<1>5. Api!GracefulExit \/ Api!ForceExit \/ Api!Crash
        => ApiP!GracefulExit \/ ApiP!ForceExit \/ ApiP!Crash
  BY <1>4
  DEF Api!GracefulExit, ApiP!GracefulExit, Api!ForceExit, ApiP!ForceExit,
      Api!Crash, ApiP!Crash, Api!Open, ApiP!Open, Api!Awaiting, ApiP!Awaiting
<1>6. Api!Restart => ApiP!Restart
  BY DEF Api!Restart, ApiP!Restart
<1> QED
  BY <1>1, <1>2, <1>3, <1>5, <1>6, SameHandler DEF Api!Next, ApiP!Next

\* A worker takes no row out of the table and puts none in, so the endpoint sees
\* nothing of it: this is where the worker's invariant is needed.
LEMMA WorkerLeavesJobs ==
  ASSUME WorkP!IInv, NEW w \in Worker, Work!Step(w)
  PROVE  Jobs' = Jobs
<1>1. \A r \in Request : status'[r] = "none" <=> status[r] = "none"
  BY SameStep, WorkP!StepKeepsRows, WorkerAssumption
<1> QED BY <1>1 DEF Jobs

LEMMA StepOfEndpoint ==
  ASSUME WorkP!IInv, [Next]_vars
  PROVE  [ApiP!Next]_(ApiP!vars)
<1>1. ASSUME NEW r \in Request, Insert(r)
      PROVE  ApiP!Next
  <2>1. Api!Handler(r)
    BY <1>1 DEF Insert, Api!Handler
  <2> QED BY <2>1, SameHandler DEF ApiP!Next
<1>2. CASE ApiStep
  BY <1>2, SameNext DEF ApiStep
<1>3. ASSUME NEW w \in Worker, WorkerStep(w)
      PROVE  UNCHANGED ApiP!vars
  BY <1>3, WorkerLeavesJobs DEF WorkerStep, api, ApiP!vars
<1>4. CASE UNCHANGED vars
  BY <1>4 DEF vars, api, table, ApiP!vars, Jobs
<1> QED BY <1>1, <1>2, <1>3, <1>4 DEF Next

\* The pipeline is the endpoint of SwapExecute, whatever the workers do.
THEOREM PipelineIsEndpoint == Spec => ApiP!Spec
<1>1. WorkP!IInv /\ [Next]_vars => [ApiP!Next]_(ApiP!vars)
  BY StepOfEndpoint
<1> QED BY <1>1, InitEndpoint, WorkerInvariant, PTL DEF Spec, ApiP!Spec

-----------------------------------------------------------------------------
(* The promise *)

\* A request repeated after a 200 for its key never reaches the chain.
THEOREM RepeatsAreNeverExecuted == Spec => []RepeatsNotExecuted
<1>1. ASSUME WorkP!IInv, ApiP!AcknowledgedOnce PROVE RepeatsNotExecuted
  <2>1. Executed \subseteq Jobs
    BY <1>1 DEF Executed, Jobs, WorkP!IInv, WorkP!RunIsOver, WorkP!Started
  <2> QED BY <1>1, <2>1 DEF RepeatsNotExecuted, ApiP!AcknowledgedOnce
<1>2. Spec => []ApiP!AcknowledgedOnce
  BY PipelineIsEndpoint, ApiP!AcknowledgedKeysExecuteOnce, EndpointAssumption, PTL
<1> QED BY <1>1, <1>2, WorkerInvariant, PTL

\* The job of an answer is a row of its own key, completed only if it was sent.
THEOREM AnswersAreTrue == Spec => []AnswersComeTrue
<1>1. ASSUME WorkP!IInv, ApiP!AnswerNamesOwnJob PROVE AnswersComeTrue
  <2> SUFFICES ASSUME NEW r \in Request, NEW t \in Request,
                      reply[r].code = 200, reply[r].tx = t
               PROVE  /\ status[t] # "none" /\ key[t] = key[r]
                      /\ status[t] = "completed" => t \in Executed
    BY DEF AnswersComeTrue
  <2>1. t \in Jobs /\ key[t] = key[r]
    BY <1>1 DEF ApiP!AnswerNamesOwnJob
  <2>2. status[t] = "completed" => \E w \in Worker : runs[w][t] > 0
    BY <1>1 DEF WorkP!IInv, WorkP!CompletedWasExecuted
  <2> QED BY <2>1, <2>2 DEF Jobs, Executed
<1>2. Spec => []ApiP!AnswerNamesOwnJob
  BY PipelineIsEndpoint, ApiP!AnswersNameOwnJobs, EndpointAssumption, PTL
<1> QED BY <1>1, <1>2, WorkerInvariant, PTL

\* The jobs of the endpoint are shared among the workers as SharedJobs promises.
THEOREM PipelineSharesJobs == Spec => WorkP!KeepsSharedJobs
<1> QED BY PipelineIsWorker, WorkP!WorkersShareJobs, WorkerAssumption, PTL
=============================================================================
