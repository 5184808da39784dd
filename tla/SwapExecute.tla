---------------------------- MODULE SwapExecute ----------------------------
(***************************************************************************)
(* POST /v1/swap/:chainId/execute: the idempotency middleware, the handler *)
(* and the two tables they write (idempotency_keys, pending_transactions), *)
(* inside an API process that may be shut down, killed and restarted.      *)
(*                                                                         *)
(* A handler runs between two awaits without interruption, so an action is *)
(* the effect of one database call together with the code that runs until  *)
(* the next call is issued.  A call that the client sees fail may or may   *)
(* not have been committed.                                                *)
(*                                                                         *)
(* The id of a queued job is a fresh uuid; it is represented here by the   *)
(* request whose handler created it.                                       *)
(***************************************************************************)
CONSTANTS Request,  \* requests that clients ever send
          Key,      \* usable values of the Idempotency-Key header
          BadKey,   \* a missing, blank or over-long Idempotency-Key
          None      \* no stored response, no job

ASSUME NoneAssumption == None \notin Request
ASSUME BadKeyAssumption == BadKey \notin Key

VARIABLES
  pc,      \* where the handler of a request stands
  key,     \* the Idempotency-Key a request carries
  reply,   \* what the client of a request was answered
  prior,   \* history: requests already answered 200 for this key on arrival
  idem,    \* idempotency_keys: the job named in the response stored for a key
  jobs,    \* pending_transactions: the jobs ever inserted
  server   \* the API process

vars == <<pc, key, reply, prior, idem, jobs, server>>

Awaiting == {"check", "enqueue", "store", "respond"}
Open     == Awaiting \cup {"hung"}
PC       == Open \cup {"idle", "answered", "dropped"}

NoReply == [code |-> 0, tx |-> None]
Reply   == [code : {0, 200, 400, 404, 500}, tx : Request \cup {None}]

TypeOK ==
  /\ pc \in [Request -> PC]
  /\ key \in [Request -> Key \cup {BadKey}]
  /\ reply \in [Request -> Reply]
  /\ prior \in [Request -> SUBSET Request]
  /\ idem \in [Key -> Request \cup {None}]
  /\ jobs \in SUBSET Request
  /\ server \in {"up", "closing", "down"}

Init ==
  /\ pc = [r \in Request |-> "idle"]
  /\ key = [r \in Request |-> BadKey]
  /\ reply = [r \in Request |-> NoReply]
  /\ prior = [r \in Request |-> {}]
  /\ idem = [k \in Key |-> None]
  /\ jobs = {}
  /\ server = "up"

-----------------------------------------------------------------------------
(* Requests and replies *)

Acknowledged(k) == {q \in Request : reply[q].code = 200 /\ key[q] = k}

Answer(r, code, tx) ==
  /\ pc' = [pc EXCEPT ![r] = "answered"]
  /\ reply' = [reply EXCEPT ![r] = [code |-> code, tx |-> tx]]

\* requireIdempotencyKey: a usable key is attached to the request.
Arrive(r, k) ==
  /\ server = "up"
  /\ pc[r] = "idle"
  /\ pc' = [pc EXCEPT ![r] = "check"]
  /\ key' = [key EXCEPT ![r] = k]
  /\ prior' = [prior EXCEPT ![r] = Acknowledged(k)]
  /\ UNCHANGED <<reply, idem, jobs, server>>

\* requireIdempotencyKey: no usable key, answered 400 on the spot.
RejectKey(r) ==
  /\ server = "up"
  /\ pc[r] = "idle"
  /\ Answer(r, 400, None)
  /\ UNCHANGED <<key, prior, idem, jobs, server>>

-----------------------------------------------------------------------------
(* Deliberate errors.  Each is a plausible bug in one of the definitions     *)
(* that follow, with which one of the properties no longer holds.            *)

\* A failed lookup is logged and nothing more.
CheckErrorKeepsRunning(r) ==
  /\ pc[r] = "check"
  /\ pc' = [pc EXCEPT ![r] = "hung"]
  /\ UNCHANGED <<key, reply, prior, idem, jobs, server>>

\* A failed insert is logged and the handler goes on.
EnqueueErrorSwallowed(r) ==
  /\ pc[r] = "enqueue"
  /\ pc' = [pc EXCEPT ![r] = "store"]
  /\ UNCHANGED <<key, reply, prior, idem, jobs, server>>

\* The key is stored where the response belongs.
StoreOfKey(r) ==
  /\ pc[r] = "store"
  /\ idem' = [idem EXCEPT ![key[r]] = key[r]]
  /\ pc' = [pc EXCEPT ![r] = "respond"]
  /\ UNCHANGED <<key, reply, prior, jobs, server>>

\* A response that could not be stored is sent all the same.
StoreErrorSwallowed(r) ==
  /\ pc[r] = "store"
  /\ pc' = [pc EXCEPT ![r] = "respond"]
  /\ UNCHANGED <<key, reply, prior, idem, jobs, server>>

-----------------------------------------------------------------------------
(* checkIdempotency: one findUnique *)

CheckReplay(r) ==
  /\ pc[r] = "check"
  /\ idem[key[r]] # None
  /\ Answer(r, 200, idem[key[r]])
  /\ UNCHANGED <<key, prior, idem, jobs, server>>

\* No stored response; the parameters, the body and the chain are accepted.
CheckMiss(r) ==
  /\ pc[r] = "check"
  /\ idem[key[r]] = None
  /\ pc' = [pc EXCEPT ![r] = "enqueue"]
  /\ UNCHANGED <<key, reply, prior, idem, jobs, server>>

\* No stored response; the parameters, the body (400) or the chain (404) are not.
CheckReject(r, code) ==
  /\ pc[r] = "check"
  /\ idem[key[r]] = None
  /\ Answer(r, code, None)
  /\ UNCHANGED <<key, prior, idem, jobs, server>>

\* findUnique fails: the middleware's promise is rejected with nobody awaiting
\* it, the request is never answered, and unhandledRejection shuts the process.
CheckError(r) ==
  /\ pc[r] = "check"
  /\ pc' = [pc EXCEPT ![r] = "hung"]
  /\ server' = "closing"
  /\ UNCHANGED <<key, reply, prior, idem, jobs>>

-----------------------------------------------------------------------------
(* swapExecute: insert the job, store the response, answer *)

Enqueue(r) ==
  /\ pc[r] = "enqueue"
  /\ jobs' = jobs \cup {r}
  /\ pc' = [pc EXCEPT ![r] = "store"]
  /\ UNCHANGED <<key, reply, prior, idem, server>>

EnqueueError(r) ==
  /\ pc[r] = "enqueue"
  /\ \/ jobs' = jobs
     \/ jobs' = jobs \cup {r}   \* committed, but the client lost the answer
  /\ Answer(r, 500, None)
  /\ UNCHANGED <<key, prior, idem, server>>

\* storeIdempotencyRecord: an upsert, it overwrites what another request stored.
Store(r) ==
  /\ pc[r] = "store"
  /\ idem' = [idem EXCEPT ![key[r]] = r]
  /\ pc' = [pc EXCEPT ![r] = "respond"]
  /\ UNCHANGED <<key, reply, prior, jobs, server>>

StoreError(r) ==
  /\ pc[r] = "store"
  /\ \/ idem' = idem
     \/ idem' = [idem EXCEPT ![key[r]] = r]
  /\ Answer(r, 500, None)
  /\ UNCHANGED <<key, prior, jobs, server>>

Respond(r) ==
  /\ pc[r] = "respond"
  /\ Answer(r, 200, r)
  /\ UNCHANGED <<key, prior, idem, jobs, server>>

Handler(r) ==
  \/ CheckReplay(r) \/ CheckMiss(r) \/ CheckError(r)
  \/ \E code \in {400, 404} : CheckReject(r, code)
  \/ Enqueue(r) \/ EnqueueError(r)
  \/ Store(r) \/ StoreError(r) \/ Respond(r)

-----------------------------------------------------------------------------
(* The process *)

\* The process ends: every connection still open is cut.
Exit ==
  /\ server' = "down"
  /\ pc' = [r \in Request |-> IF pc[r] \in Open THEN "dropped" ELSE pc[r]]
  /\ UNCHANGED <<key, reply, prior, idem, jobs>>

\* SIGTERM, SIGINT or an uncaught error elsewhere: server.close().
Shutdown ==
  /\ server = "up"
  /\ server' = "closing"
  /\ UNCHANGED <<pc, key, reply, prior, idem, jobs>>

\* Every connection is closed, then process.exit(0).
GracefulExit ==
  /\ server = "closing"
  /\ \A r \in Request : pc[r] \notin Open
  /\ Exit

\* The ten second timer of shutdown: process.exit(1).
ForceExit ==
  /\ server = "closing"
  /\ \E r \in Request : pc[r] \in Open
  /\ Exit

\* The process is killed, or re-raises SIGUSR2 without awaiting the close.
Crash ==
  /\ server # "down"
  /\ Exit

\* The container's restart policy.
Restart ==
  /\ server = "down"
  /\ server' = "up"
  /\ UNCHANGED <<pc, key, reply, prior, idem, jobs>>

-----------------------------------------------------------------------------
Next ==
  \/ \E r \in Request : RejectKey(r) \/ Handler(r)
  \/ \E r \in Request, k \in Key : Arrive(r, k)
  \/ Shutdown \/ GracefulExit \/ ForceExit \/ Crash \/ Restart

\* The database answers every call, with a result or an error, and a process
\* that is closing gets to its timer.
Fairness ==
  /\ \A r \in Request : WF_vars(Handler(r))
  /\ WF_vars(GracefulExit \/ ForceExit)

Spec == Init /\ [][Next]_vars
FairSpec == Spec /\ Fairness

-----------------------------------------------------------------------------
(* Properties *)

\* Whatever the interleaving, error or restart, the transaction_id of a 200
\* answer, fresh or replayed, is a job that is in the queue and was created by
\* a request with the same Idempotency-Key: a stored response is never written
\* before its job, nor replayed under another key.
AnswerNamesOwnJob ==
  \A r \in Request : reply[r].code = 200 =>
    /\ reply[r].tx \in jobs
    /\ key[reply[r].tx] = key[r]

\* Once a client has been answered 200, no request that arrives later with the
\* same key inserts a job, whatever crash or database error falls in between:
\* the response is stored before it is sent.
AcknowledgedOnce ==
  \A r \in jobs : prior[r] = {}

\* ENTERPRISE_ARCHITECTURE section 6: "Duplicate keys return stored response;
\* no re-execution".  Two jobs never carry the same key.
NoReexecution ==
  \A q, r \in jobs : key[q] = key[r] => q = r

\* A request that no code will answer is only ever held by a process that is
\* on its way out, and a process that is gone holds none: what a client may wait
\* for in vain is a shutdown, never a live server.
HangsOnlyWhileClosing ==
  \A r \in Request :
    /\ pc[r] \in Open => server # "down"
    /\ pc[r] = "hung" => server = "closing"

\* Every request gets an answer or a closed connection, also the one whose
\* idempotency lookup failed and that no code will ever answer.
EveryRequestEnds ==
  \A r \in Request : pc[r] \in Open ~> pc[r] \in {"answered", "dropped"}
=============================================================================
