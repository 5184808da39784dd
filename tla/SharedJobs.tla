----------------------------- MODULE SharedJobs -----------------------------
(***************************************************************************)
(* What pending_transactions promises for its jobs however many workers    *)
(* share it, whatever writes fail and whoever is restarted: a job is read  *)
(* for work only while it is pending, it is never pending again, only who  *)
(* has read it sends it and does so once, and completed is written only by *)
(* a worker that has sent it.  JobLifecycle promises more, for one worker. *)
(***************************************************************************)
EXTENDS Naturals

CONSTANTS Tx, Worker

VARIABLES
  status,  \* as in pending_transactions; "none": not queued yet
  holds,   \* jobs a worker has read and may still send
  runs     \* how often a worker has sent a job

vars == <<status, holds, runs>>

Init ==
  /\ status = [t \in Tx |-> "none"]
  /\ holds = [w \in Worker |-> {}]
  /\ runs = [w \in Worker |-> [t \in Tx |-> 0]]

Set(t, s) == status' = [status EXCEPT ![t] = s]

Keep(w, S) == holds' = [holds EXCEPT ![w] = S]

-----------------------------------------------------------------------------
Queue(t) ==
  /\ status[t] = "none"
  /\ Set(t, "pending")
  /\ UNCHANGED <<holds, runs>>

\* A worker that reads anew has let go of what it held.
Read(w) ==
  /\ \E S \in SUBSET {t \in Tx : status[t] = "pending"} : Keep(w, S)
  /\ UNCHANGED <<status, runs>>

LetGo(w) ==
  /\ \E S \in SUBSET holds[w] : Keep(w, S)
  /\ UNCHANGED <<status, runs>>

\* Another worker may have finished the job since it was read.
TakeUp(w, t) ==
  /\ t \in holds[w]
  /\ Set(t, "processing")
  /\ UNCHANGED holds \/ Keep(w, holds[w] \ {t})
  /\ UNCHANGED runs

Send(w, t) ==
  /\ t \in holds[w]
  /\ status[t] \notin {"none", "pending"}
  /\ runs[w][t] = 0
  /\ runs' = [runs EXCEPT ![w][t] = 1]
  /\ Keep(w, holds[w] \ {t})
  /\ UNCHANGED status

Succeed(w, t) ==
  /\ runs[w][t] > 0
  /\ Set(t, "completed")
  /\ UNCHANGED <<holds, runs>>

\* The worker gives the job up, sent or not, and with it any of the others.
GiveUp(w, t) ==
  /\ status[t] # "none"
  /\ Set(t, "failed")
  /\ \E S \in SUBSET holds[w] : Keep(w, S)
  /\ UNCHANGED runs

Next ==
  \/ \E t \in Tx : Queue(t)
  \/ \E w \in Worker : Read(w) \/ LetGo(w)
  \/ \E w \in Worker, t \in Tx : TakeUp(w, t) \/ Send(w, t) \/ Succeed(w, t) \/ GiveUp(w, t)

Spec == Init /\ [][Next]_vars
=============================================================================
