---------------------- MODULE TransactionWorkerProofs ----------------------
(* TLAPS proofs about TransactionWorker, for any rows, workers and batch size. *)
EXTENDS TransactionWorker, TLAPS

-----------------------------------------------------------------------------
(* Any number of workers, any faults *)

Started(t) == status[t] \notin {"none", "pending"}

\* What a worker has run is out of its batch and will never be pending again.
RunIsOver ==
  \A w \in Worker, t \in Tx : runs[w][t] > 0 => Started(t) /\ t \notin batch[w]

\* A row about to be run, or just run, left pending and the batch when claimed.
ClaimedRow ==
  \A w \in Worker : pc[w] \in {"execute", "complete"} =>
    /\ job[w] \in Tx
    /\ Started(job[w])
    /\ job[w] \notin batch[w]

FirstRun ==
  \A w \in Worker :
    /\ pc[w] = "execute" => runs[w][job[w]] = 0
    /\ pc[w] = "complete" => runs[w][job[w]] > 0

\* A worker holds rows that are in the table.
RowsExist ==
  \A w \in Worker :
    /\ \A t \in batch[w] : status[t] # "none"
    /\ pc[w] \in Busy => job[w] \in Tx /\ status[job[w]] # "none"

IInv ==
  /\ TypeOK
  /\ RunIsOver
  /\ ClaimedRow
  /\ FirstRun
  /\ RowsExist
  /\ AtMostOncePerWorker
  /\ CompletedWasExecuted

LEMMA InitIInv == Init => IInv
  BY NoJobAssumption
  DEF Init, IInv, TypeOK, Status, Terminal, Busy, RunIsOver, Started, ClaimedRow,
      FirstRun, RowsExist, AtMostOncePerWorker, CompletedWasExecuted

LEMMA NextIInv == IInv /\ [Next]_vars => IInv'
<1> SUFFICES ASSUME IInv, [Next]_vars
             PROVE  IInv'
  OBVIOUS
<1> USE NoJobAssumption, TimeAssumption
<1> USE DEF IInv, TypeOK, Status, Terminal, Busy, RunIsOver, Started, ClaimedRow,
            FirstRun, RowsExist, AtMostOncePerWorker, CompletedWasExecuted, wvars
<1>1. CASE UNCHANGED vars
  BY <1>1 DEF vars
<1>2. ASSUME NEW t \in Tx, Insert(t)
      PROVE  IInv'
  BY <1>2 DEF Insert
<1>3. ASSUME NEW w \in Worker, Poll(w)
      PROVE  IInv'
  <2>1. PICK B \in SUBSET Pending : batch' = [batch EXCEPT ![w] = B]
    BY <1>3 DEF Poll, Batches
  <2>2. \A t \in B : t \in Tx /\ status[t] = "pending"
    BY <2>1 DEF Pending
  <2> QED BY <1>3, <2>1, <2>2 DEF Poll
<1>4. ASSUME NEW w \in Worker, NEW t \in Tx, Claim(w, t)
      PROVE  IInv'
  BY <1>4 DEF Claim, Take, SetStatus
<1>5. ASSUME NEW w \in Worker, NEW t \in Tx, ClaimError(w, t)
      PROVE  IInv'
  <2>1. CASE status' = status
    BY <1>5, <2>1 DEF ClaimError, Take
  <2>2. CASE SetStatus(t, "processing")
    BY <1>5, <2>2 DEF ClaimError, Take, SetStatus
  <2> QED BY <1>5, <2>1, <2>2 DEF ClaimError
<1>6. ASSUME NEW w \in Worker, ExecuteOk(w)
      PROVE  IInv'
  BY <1>6 DEF ExecuteOk
<1>7. ASSUME NEW w \in Worker, ExecuteThrow(w)
      PROVE  IInv'
  BY <1>7 DEF ExecuteThrow
<1>8. ASSUME NEW w \in Worker, Complete(w)
      PROVE  IInv'
  BY <1>8 DEF Complete, SetStatus, Done
<1>9. ASSUME NEW w \in Worker, CompleteError(w)
      PROVE  IInv'
  BY <1>9 DEF CompleteError, SetStatus
<1>10. ASSUME NEW w \in Worker, Fail(w)
       PROVE  IInv'
  BY <1>10 DEF Fail, SetStatus, Done
<1>11. ASSUME NEW w \in Worker, FailError(w)
       PROVE  IInv'
  BY <1>11 DEF FailError, SetStatus
<1>12. ASSUME NEW w \in Worker, Crash(w)
       PROVE  IInv'
  BY <1>12 DEF Crash
<1>13. ASSUME NEW w \in Worker, Restart(w)
       PROVE  IInv'
  BY <1>13 DEF Restart
<1>14. ASSUME NEW w \in Worker, PollEmpty(w)
       PROVE  IInv'
  BY <1>1, <1>14 DEF PollEmpty
<1> QED
  BY <1>1, <1>2, <1>3, <1>4, <1>5, <1>6, <1>7, <1>8, <1>9, <1>10, <1>11,
     <1>12, <1>13, <1>14
  DEF Next, Step, Process

THEOREM IInvAlways == Spec => []IInv
<1> QED BY InitIInv, NextIInv, PTL DEF Spec

\* No step of a worker inserts a row or removes one.
LEMMA StepKeepsRows ==
  ASSUME IInv, NEW w \in Worker, Step(w), NEW t \in Tx
  PROVE  status'[t] = "none" <=> status[t] = "none"
<1> USE DEF IInv, TypeOK, RowsExist, Busy
<1>1. ASSUME NEW u \in Tx, NEW s \in Status, s # "none", status[u] # "none",
             SetStatus(u, s)
      PROVE  status'[t] = "none" <=> status[t] = "none"
  BY <1>1 DEF SetStatus
<1>2. CASE status' = status
  BY <1>2
<1>3. ASSUME NEW u \in Tx, Claim(w, u) \/ ClaimError(w, u)
      PROVE  status' = status \/ (status[u] # "none" /\ SetStatus(u, "processing"))
  BY <1>3 DEF Claim, ClaimError, Take
<1>4. CASE Complete(w) \/ CompleteError(w)
  BY <1>1, <1>2, <1>4 DEF Complete, CompleteError, Status, Terminal
<1>5. CASE Fail(w) \/ FailError(w)
  BY <1>1, <1>2, <1>5 DEF Fail, FailError, Status, Terminal
<1> QED
  BY <1>1, <1>2, <1>3, <1>4, <1>5
  DEF Step, PollEmpty, Poll, Process, ExecuteOk, ExecuteThrow, Crash, Restart,
      vars, Status

\* Every variable of the workers and the table keeps its type.
THEOREM TypeCorrect == Spec => []TypeOK
<1>1. IInv => TypeOK
  BY DEF IInv
<1> QED BY <1>1, IInvAlways, PTL

\* No worker sends a row to the chain twice, under any faults.
THEOREM WorkerRunsOnce == Spec => []AtMostOncePerWorker
<1>1. IInv => AtMostOncePerWorker
  BY DEF IInv
<1> QED BY <1>1, IInvAlways, PTL

\* A row marked completed has been sent to the chain, under any faults.
THEOREM CompletedRowsWereRun == Spec => []CompletedWasExecuted
<1>1. IInv => CompletedWasExecuted
  BY DEF IInv
<1> QED BY <1>1, IInvAlways, PTL

-----------------------------------------------------------------------------
(* One worker whose writes succeed: the refinement of JobLifecycle *)

OnlyOneWorker == \A v, w \in Worker : v = w
WritesSucceed == "db" \notin Faults

\* Nobody else writes the rows of the batch, so they are still pending.
BatchPending ==
  \A w \in Worker : \A t \in batch[w] : status[t] = "pending"

\* The row at work is processing and its history fits the step reached.
RowAtWork ==
  \A w \in Worker : pc[w] \in Busy =>
    /\ job[w] \in Tx
    /\ status[job[w]] = "processing"
    /\ pc[w] = "complete" <=> runs[w][job[w]] > 0

NotRunYet ==
  \A w \in Worker, t \in Tx : status[t] \in {"none", "pending"} => runs[w][t] = 0

RInv == TypeOK /\ BatchPending /\ RowAtWork /\ NotRunYet

LEMMA InitRInv == Init => RInv
  BY DEF Init, RInv, TypeOK, Status, Terminal, Busy, BatchPending, RowAtWork,
         NotRunYet

LEMMA NextRInv ==
  ASSUME OnlyOneWorker, WritesSucceed, RInv, [Next]_vars
  PROVE  RInv'
<1> USE NoJobAssumption, TimeAssumption
<1> USE DEF RInv, TypeOK, Status, Terminal, Busy, BatchPending, RowAtWork,
            NotRunYet, OnlyOneWorker, WritesSucceed, wvars
<1>1. CASE UNCHANGED vars
  BY <1>1 DEF vars
<1>2. ASSUME NEW t \in Tx, Insert(t)
      PROVE  RInv'
  BY <1>2 DEF Insert
<1>3. ASSUME NEW w \in Worker, Poll(w)
      PROVE  RInv'
  <2>1. PICK B \in SUBSET Pending : batch' = [batch EXCEPT ![w] = B]
    BY <1>3 DEF Poll, Batches
  <2>2. \A t \in B : t \in Tx /\ status[t] = "pending"
    BY <2>1 DEF Pending
  <2> QED BY <1>3, <2>1, <2>2 DEF Poll
<1>4. ASSUME NEW w \in Worker, NEW t \in Tx, Claim(w, t)
      PROVE  RInv'
  BY <1>4 DEF Claim, Take, SetStatus
<1>5. ASSUME NEW w \in Worker, ExecuteOk(w)
      PROVE  RInv'
  BY <1>5 DEF ExecuteOk
<1>6. ASSUME NEW w \in Worker, ExecuteThrow(w)
      PROVE  RInv'
  BY <1>6 DEF ExecuteThrow
<1>7. ASSUME NEW w \in Worker, Complete(w)
      PROVE  RInv'
  BY <1>7 DEF Complete, SetStatus, Done
<1>8. ASSUME NEW w \in Worker, Fail(w)
      PROVE  RInv'
  BY <1>8 DEF Fail, SetStatus, Done
<1>9. ASSUME NEW w \in Worker, Crash(w)
      PROVE  RInv'
  BY <1>9 DEF Crash
<1>10. ASSUME NEW w \in Worker, Restart(w)
       PROVE  RInv'
  BY <1>10 DEF Restart
<1>11. ASSUME NEW w \in Worker, PollEmpty(w)
       PROVE  RInv'
  BY <1>1, <1>11 DEF PollEmpty
<1> QED
  BY <1>1, <1>2, <1>3, <1>4, <1>5, <1>6, <1>7, <1>8, <1>9, <1>10, <1>11
  DEF Next, Step, Process, ClaimError, CompleteError, FailError

LEMMA InitLifecycle == Init => Lifecycle!Init
  BY DEF Init, Sent, Lifecycle!Init

LEMMA NextLifecycle ==
  ASSUME OnlyOneWorker, WritesSucceed, RInv, [Next]_vars
  PROVE  [Lifecycle!Next]_(Lifecycle!vars)
<1> USE DEF RInv, TypeOK, Busy, BatchPending, RowAtWork, NotRunYet, OnlyOneWorker,
            WritesSucceed, wvars, Sent, Lifecycle!Move
<1>1. ASSUME UNCHANGED <<status, runs>>
      PROVE  UNCHANGED Lifecycle!vars
  BY <1>1 DEF Lifecycle!vars
<1>2. ASSUME NEW t \in Tx, Insert(t)
      PROVE  Lifecycle!Queue(t)
  BY <1>2 DEF Insert, Lifecycle!Queue
<1>3. ASSUME NEW w \in Worker, NEW t \in Tx, Claim(w, t)
      PROVE  Lifecycle!TakeUp(t)
  BY <1>3 DEF Claim, Take, SetStatus, Lifecycle!TakeUp
<1>4. ASSUME NEW w \in Worker, ExecuteOk(w)
      PROVE  job[w] \in Tx /\ Lifecycle!Send(job[w])
  BY <1>4 DEF ExecuteOk, Lifecycle!Send
<1>5. ASSUME NEW w \in Worker, Complete(w)
      PROVE  job[w] \in Tx /\ Lifecycle!Succeed(job[w])
  BY <1>5 DEF Complete, SetStatus, Lifecycle!Succeed
<1>6. ASSUME NEW w \in Worker, Fail(w)
      PROVE  job[w] \in Tx /\ Lifecycle!GiveUp(job[w])
  BY <1>6 DEF Fail, SetStatus, Lifecycle!GiveUp
<1>7. ASSUME NEW w \in Worker,
             PollEmpty(w) \/ Poll(w) \/ ExecuteThrow(w) \/ Crash(w) \/ Restart(w)
      PROVE  UNCHANGED <<status, runs>>
  BY <1>7 DEF PollEmpty, Poll, ExecuteThrow, Crash, Restart, vars
<1> HIDE DEF RInv, Sent, Lifecycle!Move
<1>8. CASE UNCHANGED vars
  BY <1>1, <1>8 DEF vars
<1>9. CASE \E t \in Tx : Insert(t)
  BY <1>2, <1>9 DEF Lifecycle!Next
<1>10. ASSUME NEW w \in Worker, Step(w)
       PROVE  [Lifecycle!Next]_(Lifecycle!vars)
  BY <1>1, <1>3, <1>4, <1>5, <1>6, <1>7, <1>10
  DEF Step, Process, ClaimError, CompleteError, FailError, Lifecycle!Next
<1> QED BY <1>8, <1>9, <1>10 DEF Next

\* A single worker whose writes succeed, crashes included, implements the job
\* lifecycle: no row is taken up or sent twice, and failed means not sent.
THEOREM SingleWorkerKeepsLifecycle ==
  ASSUME OnlyOneWorker, WritesSucceed
  PROVE  Spec => KeepsLifecycle
<1>1. RInv /\ [Next]_vars => RInv'
  BY NextRInv
<1>2. RInv /\ [Next]_vars => [Lifecycle!Next]_(Lifecycle!vars)
  BY NextLifecycle
<1> QED
  BY <1>1, <1>2, InitRInv, InitLifecycle, PTL
  DEF Spec, KeepsLifecycle, Lifecycle!Spec

-----------------------------------------------------------------------------
(* Any workers, any faults: the refinement of SharedJobs *)

\* A step of a worker changes nothing of what the others hold.
LEMMA StepKeepsOthers ==
  ASSUME TypeOK, NEW w \in Worker, Step(w)
  PROVE  Shared!Keep(w, Holds'[w])
<1>1. \A v \in Worker \ {w} : pc'[v] = pc[v] /\ batch'[v] = batch[v] /\ job'[v] = job[v]
  <2>1. CASE PollEmpty(w) \/ Poll(w) \/ Crash(w) \/ Restart(w)
    BY <2>1 DEF TypeOK, PollEmpty, Poll, Crash, Restart, vars, wvars
  <2>2. CASE \E t \in Tx : Claim(w, t) \/ ClaimError(w, t)
    BY <2>2 DEF TypeOK, Claim, ClaimError, Take
  <2>3. CASE ExecuteOk(w) \/ ExecuteThrow(w) \/ CompleteError(w) \/ FailError(w)
    BY <2>3 DEF TypeOK, ExecuteOk, ExecuteThrow, CompleteError, FailError
  <2>4. CASE Complete(w) \/ Fail(w)
    BY <2>4 DEF TypeOK, Complete, Fail, Done
  <2> QED BY <2>1, <2>2, <2>3, <2>4 DEF Step, Process
<1> QED BY <1>1 DEF Holds, Shared!Keep

LEMMA InitShared == Init => Shared!Init
  BY DEF Init, Holds, Shared!Init

LEMMA PollReads ==
  ASSUME IInv, NEW w \in Worker, Poll(w)
  PROVE  Shared!Read(w)
<1>1. PICK B \in SUBSET Pending : batch' = [batch EXCEPT ![w] = B]
  BY DEF Poll, Batches
<1>2. Holds'[w] = B
  BY <1>1 DEF Poll, Holds, IInv, TypeOK
<1> QED
  BY <1>2, StepKeepsOthers DEF Step, Poll, IInv, Pending, Shared!Read

LEMMA ClaimTakesUp ==
  ASSUME IInv, NEW w \in Worker, NEW t \in Tx, Claim(w, t)
  PROVE  Shared!TakeUp(w, t)
<1>1. t \in Holds[w] /\ Holds'[w] = Holds[w]
  BY DEF Claim, Take, Holds, IInv, TypeOK
<1>2. Shared!Keep(w, Holds'[w])
  BY StepKeepsOthers DEF Step, Process, IInv
<1>3. UNCHANGED Holds
  BY <1>1, <1>2 DEF Shared!Keep, Holds
<1> QED BY <1>1, <1>3 DEF Claim, SetStatus, Shared!TakeUp, Shared!Set

LEMMA ClaimErrorTakesUpOrLetsGo ==
  ASSUME IInv, NEW w \in Worker, NEW t \in Tx, ClaimError(w, t)
  PROVE  Shared!TakeUp(w, t) \/ Shared!LetGo(w)
<1>1. t \in Holds[w] /\ Holds'[w] = Holds[w] \ {t}
  BY DEF ClaimError, Take, Holds, IInv, TypeOK
<1>2. Shared!Keep(w, Holds[w] \ {t})
  BY <1>1, StepKeepsOthers DEF Step, Process, IInv
<1>3. CASE status' = status
  BY <1>2, <1>3 DEF ClaimError, Shared!LetGo
<1>4. CASE SetStatus(t, "processing")
  BY <1>1, <1>2, <1>4 DEF ClaimError, SetStatus, Shared!TakeUp, Shared!Set
<1> QED BY <1>3, <1>4 DEF ClaimError

LEMMA ExecuteSends ==
  ASSUME IInv, NEW w \in Worker, ExecuteOk(w)
  PROVE  job[w] \in Tx /\ Shared!Send(w, job[w])
<1>1. /\ pc[w] = "execute" /\ job[w] \in Tx /\ job[w] \notin batch[w]
      /\ status[job[w]] \notin {"none", "pending"} /\ runs[w][job[w]] = 0
  BY DEF ExecuteOk, IInv, ClaimedRow, FirstRun, Started
<1>2. job[w] \in Holds[w] /\ Holds'[w] = Holds[w] \ {job[w]}
  BY <1>1 DEF ExecuteOk, Holds, IInv, TypeOK
<1>3. Shared!Keep(w, Holds[w] \ {job[w]})
  BY <1>2, StepKeepsOthers DEF Step, Process, IInv
<1>4. runs' = [runs EXCEPT ![w][job[w]] = 1]
  BY <1>1 DEF ExecuteOk, IInv, TypeOK
<1> QED BY <1>1, <1>2, <1>3, <1>4 DEF ExecuteOk, Shared!Send

LEMMA ThrowLetsGo ==
  ASSUME IInv, NEW w \in Worker, ExecuteThrow(w)
  PROVE  Shared!LetGo(w)
<1>1. Holds'[w] \subseteq Holds[w]
  BY DEF ExecuteThrow, Holds, IInv, TypeOK
<1>2. Shared!Keep(w, Holds'[w])
  BY StepKeepsOthers DEF Step, Process, IInv
<1> QED BY <1>1, <1>2 DEF ExecuteThrow, Shared!LetGo

\* Past the execution a worker holds its batch only.
LEMMA CompleteSucceeds ==
  ASSUME IInv, NEW w \in Worker, Complete(w) \/ CompleteError(w)
  PROVE  (job[w] \in Tx /\ Shared!Succeed(w, job[w])) \/ UNCHANGED Shared!vars
<1>1. job[w] \in Tx /\ runs[w][job[w]] > 0 /\ pc[w] = "complete"
  BY DEF Complete, CompleteError, IInv, ClaimedRow, FirstRun
<1>2. Holds'[w] = Holds[w]
  BY <1>1 DEF Complete, CompleteError, Done, Holds, IInv, TypeOK
<1>3. Shared!Keep(w, Holds'[w])
  BY StepKeepsOthers DEF Step, Process, IInv
<1>4. UNCHANGED Holds
  BY <1>2, <1>3 DEF Shared!Keep, Holds
<1> QED
  BY <1>1, <1>4
  DEF Complete, CompleteError, SetStatus, Shared!Succeed, Shared!Set, Shared!vars

LEMMA FailGivesUp ==
  ASSUME IInv, NEW w \in Worker, Fail(w) \/ FailError(w)
  PROVE  (job[w] \in Tx /\ Shared!GiveUp(w, job[w])) \/ Shared!LetGo(w)
<1>1. job[w] \in Tx /\ status[job[w]] # "none" /\ pc[w] = "fail"
  BY DEF Fail, FailError, IInv, RowsExist, Busy
<1>2. Holds'[w] \subseteq Holds[w]
  BY <1>1 DEF Fail, FailError, Done, Holds, IInv, TypeOK
<1>3. Shared!Keep(w, Holds'[w])
  BY StepKeepsOthers DEF Step, Process, IInv
<1> QED
  BY <1>1, <1>2, <1>3
  DEF Fail, FailError, SetStatus, Shared!GiveUp, Shared!LetGo, Shared!Set

LEMMA CrashLetsGo ==
  ASSUME IInv, NEW w \in Worker, Crash(w) \/ Restart(w)
  PROVE  Shared!LetGo(w)
<1>1. Holds'[w] \subseteq Holds[w]
  BY DEF Crash, Restart, Holds, IInv, TypeOK
<1>2. Shared!Keep(w, Holds'[w])
  BY StepKeepsOthers DEF Step, IInv
<1> QED BY <1>1, <1>2 DEF Crash, Restart, Shared!LetGo

LEMMA NextShared == IInv /\ [Next]_vars => [Shared!Next]_(Shared!vars)
<1> SUFFICES ASSUME IInv, [Next]_vars
             PROVE  [Shared!Next]_(Shared!vars)
  OBVIOUS
<1>1. CASE UNCHANGED vars
  BY <1>1 DEF vars, wvars, Shared!vars, Holds
<1>2. ASSUME NEW t \in Tx, Insert(t)
      PROVE  Shared!Queue(t)
  BY <1>2 DEF Insert, wvars, Holds, Shared!Queue, Shared!Set
<1>3. ASSUME NEW w \in Worker, PollEmpty(w)
      PROVE  UNCHANGED Shared!vars
  BY <1>3 DEF PollEmpty, vars, wvars, Shared!vars, Holds
<1>4. ASSUME NEW w \in Worker, Process(w)
      PROVE  [Shared!Next]_(Shared!vars)
  BY <1>4, ClaimTakesUp, ClaimErrorTakesUpOrLetsGo, ExecuteSends, ThrowLetsGo,
     CompleteSucceeds, FailGivesUp
  DEF Process, Shared!Next
<1> QED
  BY <1>1, <1>2, <1>3, <1>4, PollReads, CrashLetsGo DEF Next, Step, Shared!Next

\* Whatever their number and their faults, the workers implement SharedJobs: only
\* who read a job while it was pending sends it, once, and it never comes back.
THEOREM WorkersShareJobs == Spec => KeepsSharedJobs
<1> QED
  BY InitShared, NextShared, IInvAlways, PTL DEF Spec, KeepsSharedJobs, Shared!Spec

-----------------------------------------------------------------------------
(* Without faults no row is left in processing *)

NoFaults == Faults = {}

BusyHasRow == \A w \in Worker : pc[w] \in Busy => job[w] \in Tx

SInv == TypeOK /\ BusyHasRow /\ ProcessingHasWorker

LEMMA InitSInv == Init => SInv
  BY DEF Init, SInv, TypeOK, Status, Terminal, Busy, BusyHasRow, ProcessingHasWorker

\* What one worker leaves in processing another is busy with: who ends its row
\* overwrites the status, whoever wrote it.
LEMMA NextSInv ==
  ASSUME NoFaults, SInv, [Next]_vars
  PROVE  SInv'
<1> USE NoJobAssumption, TimeAssumption
<1> USE DEF SInv, TypeOK, Status, Terminal, Busy, BusyHasRow, ProcessingHasWorker,
            NoFaults, wvars
<1>1. CASE UNCHANGED vars
  BY <1>1 DEF vars
<1>2. ASSUME NEW t \in Tx, Insert(t)
      PROVE  SInv'
  BY <1>2 DEF Insert
<1>3. ASSUME NEW w \in Worker, Poll(w)
      PROVE  SInv'
  <2>1. PICK B \in SUBSET Pending : batch' = [batch EXCEPT ![w] = B]
    BY <1>3 DEF Poll, Batches
  <2>2. B \subseteq Tx
    BY <2>1 DEF Pending
  <2> QED BY <1>3, <2>1, <2>2 DEF Poll
<1>4. ASSUME NEW w \in Worker, NEW t \in Tx, Claim(w, t)
      PROVE  SInv'
  BY <1>4 DEF Claim, Take, SetStatus
<1>5. ASSUME NEW w \in Worker, ExecuteOk(w) \/ ExecuteThrow(w)
      PROVE  SInv'
  <2>1. CASE ExecuteOk(w)
    BY <2>1 DEF ExecuteOk
  <2>2. CASE ExecuteThrow(w)
    BY <2>2 DEF ExecuteThrow
  <2> QED BY <1>5, <2>1, <2>2
<1>6. ASSUME NEW w \in Worker, Complete(w)
      PROVE  SInv'
  BY <1>6 DEF Complete, SetStatus, Done
<1>7. ASSUME NEW w \in Worker, Fail(w)
      PROVE  SInv'
  BY <1>7 DEF Fail, SetStatus, Done
<1>8. ASSUME NEW w \in Worker, Restart(w)
      PROVE  SInv'
  BY <1>8 DEF Restart
<1>9. ASSUME NEW w \in Worker, PollEmpty(w)
      PROVE  SInv'
  BY <1>1, <1>9 DEF PollEmpty
<1> QED
  BY <1>1, <1>2, <1>3, <1>4, <1>5, <1>6, <1>7, <1>8, <1>9
  DEF Next, Step, Process, ClaimError, CompleteError, FailError, Crash

\* Without faults a row in processing is always in some worker's hands, however
\* many workers have it in their batches.
THEOREM NoRowLeftProcessing ==
  ASSUME NoFaults
  PROVE  Spec => []ProcessingHasWorker
<1>1. SInv /\ [Next]_vars => SInv'
  BY NextSInv
<1>2. SInv => ProcessingHasWorker
  BY DEF SInv
<1> QED BY <1>1, <1>2, InitSInv, PTL DEF Spec
=============================================================================
