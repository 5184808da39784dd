---------------------------- MODULE JobLifecycle ----------------------------
(***************************************************************************)
(* What pending_transactions promises for a job, with no worker in sight:  *)
(* it is queued once, taken up once, sent to the chain at most once, and   *)
(* its final status says truly whether it was sent.                        *)
(***************************************************************************)
CONSTANT Tx

VARIABLES
  status,  \* as in pending_transactions; "none": not queued yet
  sent     \* jobs sent to the chain

vars == <<status, sent>>

Init ==
  /\ status = [t \in Tx |-> "none"]
  /\ sent = {}

Move(t, from, to) ==
  /\ status[t] = from
  /\ status' = [status EXCEPT ![t] = to]
  /\ UNCHANGED sent

Queue(t)  == Move(t, "none", "pending")
TakeUp(t) == Move(t, "pending", "processing")

Send(t) ==
  /\ status[t] = "processing"
  /\ t \notin sent
  /\ sent' = sent \cup {t}
  /\ UNCHANGED status

Succeed(t) == t \in sent /\ Move(t, "processing", "completed")
GiveUp(t)  == t \notin sent /\ Move(t, "processing", "failed")

Next ==
  \E t \in Tx : Queue(t) \/ TakeUp(t) \/ Send(t) \/ Succeed(t) \/ GiveUp(t)

Spec == Init /\ [][Next]_vars
=============================================================================
