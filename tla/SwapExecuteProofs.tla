------------------------- MODULE SwapExecuteProofs -------------------------
(* TLAPS proofs about SwapExecute, for any set of requests and keys. *)
EXTENDS SwapExecute, TLAPS

-----------------------------------------------------------------------------
(* The inductive invariant *)

\* A request that has not arrived has left no trace.
IdleFresh ==
  \A r \in Request : pc[r] = "idle" => r \notin jobs /\ reply[r].code = 0

\* A handler at work carries a usable key, and past the insert its job exists.
HandlerKeyed ==
  \A r \in Request : pc[r] \in Awaiting => key[r] \in Key

QueuedBeforeStore ==
  \A r \in Request : pc[r] \in {"store", "respond"} => r \in jobs

\* A stored response names a queued job of its own key.
RecordNamesOwnJob ==
  \A k \in Key : idem[k] # None => idem[k] \in jobs /\ key[idem[k]] = k

\* The response is in the table before it is sent.
StoredBeforeAnswer ==
  \A r \in Request :
    pc[r] = "respond" \/ reply[r].code = 200 =>
      key[r] \in Key /\ idem[key[r]] # None

\* A request that arrived after a 200 for its key finds the stored response,
\* so it never gets to the insert.
PriorIsReplay ==
  \A r \in Request : prior[r] # {} =>
    /\ key[r] \in Key /\ idem[key[r]] # None
    /\ pc[r] \notin {"idle", "enqueue", "store", "respond"}
    /\ r \notin jobs

IInv ==
  /\ TypeOK
  /\ IdleFresh
  /\ HandlerKeyed
  /\ QueuedBeforeStore
  /\ RecordNamesOwnJob
  /\ StoredBeforeAnswer
  /\ PriorIsReplay
  /\ AnswerNamesOwnJob
  /\ HangsOnlyWhileClosing

-----------------------------------------------------------------------------
LEMMA InitIInv == Init => IInv
  BY NoneAssumption, BadKeyAssumption
  DEF Init, IInv, TypeOK, IdleFresh, HandlerKeyed, QueuedBeforeStore,
      RecordNamesOwnJob, StoredBeforeAnswer, PriorIsReplay, AnswerNamesOwnJob,
      HangsOnlyWhileClosing, PC, Open, Awaiting, Reply, NoReply

LEMMA NextIInv == IInv /\ [Next]_vars => IInv'
<1> SUFFICES ASSUME IInv, [Next]_vars
             PROVE  IInv'
  OBVIOUS
<1> USE NoneAssumption, BadKeyAssumption
<1> USE DEF IInv, TypeOK, IdleFresh, HandlerKeyed, QueuedBeforeStore,
            RecordNamesOwnJob, StoredBeforeAnswer, PriorIsReplay,
            AnswerNamesOwnJob, HangsOnlyWhileClosing, PC, Open, Awaiting, Reply, NoReply
<1>1. CASE UNCHANGED vars
  BY <1>1 DEF vars
<1>2. ASSUME NEW r \in Request, NEW k \in Key, Arrive(r, k)
      PROVE  IInv'
  BY <1>2 DEF Arrive, Acknowledged
<1>3. ASSUME NEW r \in Request, RejectKey(r)
      PROVE  IInv'
  BY <1>3 DEF RejectKey, Answer
<1>4. ASSUME NEW r \in Request, CheckReplay(r)
      PROVE  IInv'
  BY <1>4 DEF CheckReplay, Answer
<1>5. ASSUME NEW r \in Request, CheckMiss(r)
      PROVE  IInv'
  BY <1>5 DEF CheckMiss
<1>6. ASSUME NEW r \in Request, NEW code \in {400, 404}, CheckReject(r, code)
      PROVE  IInv'
  BY <1>6 DEF CheckReject, Answer
<1>7. ASSUME NEW r \in Request, CheckError(r)
      PROVE  IInv'
  BY <1>7 DEF CheckError
<1>8. ASSUME NEW r \in Request, Enqueue(r)
      PROVE  IInv'
  BY <1>8 DEF Enqueue
<1>9. ASSUME NEW r \in Request, EnqueueError(r)
      PROVE  IInv'
  BY <1>9 DEF EnqueueError, Answer
<1>10. ASSUME NEW r \in Request, Store(r)
       PROVE  IInv'
  BY <1>10 DEF Store
<1>11. ASSUME NEW r \in Request, StoreError(r)
       PROVE  IInv'
  <2>1. CASE idem' = idem
    BY <1>11, <2>1 DEF StoreError, Answer
  <2>2. CASE idem' = [idem EXCEPT ![key[r]] = r]
    BY <1>11, <2>2 DEF StoreError, Answer
  <2> QED BY <1>11, <2>1, <2>2 DEF StoreError
<1>12. ASSUME NEW r \in Request, Respond(r)
       PROVE  IInv'
  BY <1>12 DEF Respond, Answer
<1>13. ASSUME Exit
       PROVE  IInv'
  BY <1>13 DEF Exit
<1>14. CASE Shutdown
  BY <1>14 DEF Shutdown
<1>15. CASE Restart
  BY <1>15 DEF Restart
<1> QED
  BY <1>1, <1>2, <1>3, <1>4, <1>5, <1>6, <1>7, <1>8, <1>9, <1>10, <1>11,
     <1>12, <1>13, <1>14, <1>15
  DEF Next, Handler, GracefulExit, ForceExit, Crash

THEOREM IInvAlways == Spec => []IInv
<1> QED BY InitIInv, NextIInv, PTL DEF Spec

-----------------------------------------------------------------------------
(* Theorems *)

\* Every variable of the execute endpoint keeps its type.
THEOREM TypeCorrect == Spec => []TypeOK
<1>1. IInv => TypeOK
  BY DEF IInv
<1> QED BY <1>1, IInvAlways, PTL

\* A 200 answer, fresh or replayed, names a job queued under its own key.
THEOREM AnswersNameOwnJobs == Spec => []AnswerNamesOwnJob
<1>1. IInv => AnswerNamesOwnJob
  BY DEF IInv
<1> QED BY <1>1, IInvAlways, PTL

\* After a 200 for a key, later requests with that key never queue a job.
THEOREM AcknowledgedKeysExecuteOnce == Spec => []AcknowledgedOnce
<1>1. IInv => AcknowledgedOnce
  BY DEF IInv, TypeOK, PriorIsReplay, AcknowledgedOnce
<1> QED BY <1>1, IInvAlways, PTL

\* Only a process that is shutting down leaves a request without an answer, and
\* it takes the request with it.
THEOREM OnlyShutdownLeavesUnanswered == Spec => []HangsOnlyWhileClosing
<1>1. IInv => HangsOnlyWhileClosing
  BY DEF IInv
<1> QED BY <1>1, IInvAlways, PTL
=============================================================================
