------------------------------ MODULE Partners ------------------------------
(***************************************************************************)
(* The handlers of /v1/partners on the table partners, whose column        *)
(* wallet_address is unique.  create and update look for the wallet first  *)
(* and write in a second call, so that requests race for the index; the    *)
(* seed script writes its own partners into the same table (Ensure).       *)
(*                                                                         *)
(* service.ts returns the promises of create and update from inside try    *)
(* without awaiting them: its catch clauses, which would make P2002 a 409  *)
(* and P2025 a 404, are never entered, and the controller answers 500.     *)
(*                                                                         *)
(* A row is named after the request that created it, or after the run of   *)
(* the script and its wallet.  Company names and websites are left out.    *)
(* A request that has passed the guards and the validation is meant.       *)
(***************************************************************************)
EXTENDS SeedRuns

CONSTANTS Request,
          Wallet,        \* addresses a request may carry
          Unused, Gone,  \* rows never created, rows deleted
          NoRow          \* an id that no row has

Address == Wallet \cup SeedWallet
Id == Request \cup (Script \X SeedWallet)

\* The wallets of the script are no addresses in the sense of the schemas in
\* routes.ts ("0x...EX1"), so no request can name one.
ASSUME WalletAssumption == Wallet \cap SeedWallet = {}
ASSUME IdAssumption ==
  /\ Request \cap (Script \X SeedWallet) = {}
  /\ NoRow \notin Id
ASSUME MarkAssumption ==
  /\ Unused \notin Address /\ Gone \notin Address /\ None \notin Address
  /\ Unused # Gone

Operation ==
  [do : {"create"}, id : {NoRow}, value : Wallet]
  \cup [do : {"update"}, id : Id \cup {NoRow}, value : Wallet \cup {None}]
  \cup [do : {"delete", "get"}, id : Id \cup {NoRow}, value : {None}]
  \cup [do : {"list"}, id : {NoRow}, value : {None}]

ASSUME OperationAssumption == None \notin Operation

VARIABLES rows,      \* wallet_address of each row
          op,        \* what a request asks for
          pc,        \* "check": before the lookup; "call": before the last call
          answer     \* status and rows of the response

partners == <<rows, op, pc, answer>>

Registry == INSTANCE UniqueRegistry
              WITH Caller <- Request, Value <- Address, Op <- Operation

Live(i) == i \in Id /\ rows[i] \in Address
Held(w) == \E j \in Id : rows[j] = w
HeldElsewhere(w, i) == \E j \in Id : j # i /\ rows[j] = w

Pending == [code |-> 0, shows |-> {}]

PartnersTypeOK ==
  /\ rows \in [Id -> Address \cup {Unused, Gone}]
  /\ op \in [Request -> Operation \cup {None}]
  /\ pc \in [Request -> {"idle", "check", "call", "end"}]
  /\ answer \in [Request -> [code : {0, 200, 404, 409, 500},
                             shows : SUBSET (Id \X Address)]]

PartnersInit ==
  /\ rows = [i \in Id |-> Unused]
  /\ op = [r \in Request |-> None]
  /\ pc = [r \in Request |-> "idle"]
  /\ answer = [r \in Request |-> Pending]

-----------------------------------------------------------------------------
Goto(r, l) ==
  /\ pc' = [pc EXCEPT ![r] = l]
  /\ UNCHANGED <<rows, op, answer>>

Respond(r, code, shows) ==
  /\ pc' = [pc EXCEPT ![r] = "end"]
  /\ answer' = [answer EXCEPT ![r] = [code |-> code, shows |-> shows]]
  /\ UNCHANGED op

\* Clients know the ids of rows that are or were there; any other is NoRow.
Begin(r, o) ==
  /\ op[r] = None
  /\ o.id # NoRow => rows[o.id] # Unused
  /\ op' = [op EXCEPT ![r] = o]
  /\ pc' = [pc EXCEPT ![r] =
              IF o.do \in {"create", "update"} /\ o.value # None
                THEN "check" ELSE "call"]
  /\ UNCHANGED <<rows, answer>>

At(r, l, do) == pc[r] = l /\ op[r].do = do

-----------------------------------------------------------------------------
\* Deliberate error: the lookup of update does not leave out the row itself.
TakenByAny(r) ==
  op[r].do \in {"create", "update"} /\ Held(op[r].value)

-----------------------------------------------------------------------------
(* create and update: the lookup, then the write *)

\* checkWalletExists for create; findFirst among the other rows for update.
Taken(r) ==
  \/ op[r].do = "create" /\ Held(op[r].value)
  \/ op[r].do = "update" /\ HeldElsewhere(op[r].value, op[r].id)

CheckTaken(r) ==
  /\ pc[r] = "check"
  /\ Taken(r)
  /\ Respond(r, 409, {})
  /\ UNCHANGED rows

CheckFree(r) ==
  /\ pc[r] = "check"
  /\ ~Taken(r)
  /\ Goto(r, "call")

\* What the write does to the table, if the row is there and the index allows.
Write(r) ==
  \/ /\ op[r].do = "create" /\ ~Held(op[r].value)
     /\ rows' = [rows EXCEPT ![r] = op[r].value]
  \/ /\ op[r].do = "update" /\ Live(op[r].id) /\ op[r].value = None
     /\ rows' = rows
  \/ /\ op[r].do = "update" /\ Live(op[r].id) /\ op[r].value # None
     /\ ~HeldElsewhere(op[r].value, op[r].id)
     /\ rows' = [rows EXCEPT ![op[r].id] = op[r].value]
  \/ /\ op[r].do = "delete" /\ Live(op[r].id)
     /\ rows' = [rows EXCEPT ![op[r].id] = Gone]

Create(r) ==
  /\ At(r, "call", "create")
  /\ Write(r)
  /\ Respond(r, 200, {<<r, op[r].value>>})

Update(r) ==
  /\ At(r, "call", "update")
  /\ Write(r)
  /\ Respond(r, 200, {<<op[r].id, rows'[op[r].id]>>})

\* P2002 or P2025, rejected past the catch clause of the service.
WriteRejected(r) ==
  /\ pc[r] = "call"
  /\ \/ op[r].do = "create" /\ Held(op[r].value)
     \/ op[r].do = "update" /\ ~Live(op[r].id)
     \/ op[r].do = "update" /\ HeldElsewhere(op[r].value, op[r].id)
  /\ Respond(r, 500, {})
  /\ UNCHANGED rows

-----------------------------------------------------------------------------
(* delete, whose call is awaited, and the two reads *)

Delete(r) ==
  /\ At(r, "call", "delete")
  /\ Write(r)
  /\ Respond(r, 200, {})

DeleteMissing(r) ==
  /\ At(r, "call", "delete")
  /\ ~Live(op[r].id)
  /\ Respond(r, 404, {})
  /\ UNCHANGED rows

Get(r) ==
  /\ At(r, "call", "get")
  /\ IF Live(op[r].id) THEN Respond(r, 200, {<<op[r].id, rows[op[r].id]>>})
                       ELSE Respond(r, 404, {})
  /\ UNCHANGED rows

List(r) ==
  /\ At(r, "call", "list")
  /\ Respond(r, 200, {<<i, rows[i]>> : i \in {j \in Id : Live(j)}})
  /\ UNCHANGED rows

-----------------------------------------------------------------------------
\* A call fails, or the server dies and the connection with it.  The write may
\* have been committed.
Fail(r) ==
  /\ pc[r] \in {"check", "call"}
  /\ Respond(r, 500, {})
  /\ UNCHANGED rows

FailCommitted(r) ==
  /\ pc[r] = "call"
  /\ Write(r)
  /\ Respond(r, 500, {})

Handle(r) ==
  \/ CheckTaken(r) \/ CheckFree(r)
  \/ Create(r) \/ Update(r) \/ WriteRejected(r)
  \/ Delete(r) \/ DeleteMissing(r) \/ Get(r) \/ List(r)
  \/ Fail(r) \/ FailCommitted(r)

\* ensurePartners, one wallet: an upsert.  A row that has the wallet keeps it.
Ensure(s, w) ==
  /\ rows' = IF Held(w) THEN rows ELSE [rows EXCEPT ![<<s, w>>] = w]
  /\ UNCHANGED <<op, pc, answer>>
=============================================================================
