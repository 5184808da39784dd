--------------------------- MODULE UniqueRegistry ---------------------------
(***************************************************************************)
(* What a table with a unique column promises the callers of create,       *)
(* update, delete, get and list: each call takes effect at one instant     *)
(* between its beginning and its answer, and its answer is true of that    *)
(* instant.  A call may also fail, and then nobody knows whether a change  *)
(* was made.  Rows can be added by others too (Ensure).                    *)
(***************************************************************************)
CONSTANTS Caller,      \* one call each
          Id,          \* rows there may be; a caller that creates names one
          Value,       \* what the unique column holds
          Op,          \* calls: [do, id, value]
          Unused,      \* a row never created
          Gone,        \* a row deleted
          None

VARIABLES rows,        \* what a row holds
          op,          \* the call a caller made
          answer       \* its answer: a status and the rows it shows

Live(i) == i \in Id /\ rows[i] \in Value
Held(v) == \E j \in Id : rows[j] = v
HeldElsewhere(v, i) == \E j \in Id : j # i /\ rows[j] = v

Pending == [code |-> 0, shows |-> {}]

Init ==
  /\ rows = [i \in Id |-> Unused]
  /\ op = [c \in Caller |-> None]
  /\ answer = [c \in Caller |-> Pending]

Begin(c, o) ==
  /\ op[c] = None
  /\ op' = [op EXCEPT ![c] = o]
  /\ UNCHANGED <<rows, answer>>

-----------------------------------------------------------------------------
Answer(c, code, shows) ==
  /\ op[c] # None /\ answer[c] = Pending
  /\ answer' = [answer EXCEPT ![c] = [code |-> code, shows |-> shows]]
  /\ UNCHANGED op

\* The row a call is about.
Row(c) == IF op[c].do = "create" THEN c ELSE op[c].id

\* The changes a call may make.
Change(c) ==
  /\ op[c] # None
  /\ \/ /\ op[c].do = "create" /\ rows[c] = Unused /\ ~Held(op[c].value)
        /\ rows' = [rows EXCEPT ![c] = op[c].value]
     \/ /\ op[c].do = "update" /\ Live(op[c].id) /\ op[c].value = None
        /\ rows' = rows
     \/ /\ op[c].do = "update" /\ Live(op[c].id) /\ op[c].value # None
        /\ ~HeldElsewhere(op[c].value, op[c].id)
        /\ rows' = [rows EXCEPT ![op[c].id] = op[c].value]
     \/ /\ op[c].do = "delete" /\ Live(op[c].id)
        /\ rows' = [rows EXCEPT ![op[c].id] = Gone]

Succeed(c) ==
  /\ Change(c)
  /\ Answer(c, 200, IF op[c].do = "delete" THEN {}
                    ELSE {<<Row(c), rows'[Row(c)]>>})

\* Another row holds the value.
Conflict(c) ==
  /\ op[c] # None
  /\ \/ op[c].do = "create" /\ Held(op[c].value)
     \/ op[c].do = "update" /\ HeldElsewhere(op[c].value, op[c].id)
  /\ rows' = rows
  /\ Answer(c, 409, {})

\* There is no such row.
Missing(c) ==
  /\ op[c] # None
  /\ op[c].do \in {"update", "delete", "get"} /\ ~Live(op[c].id)
  /\ rows' = rows
  /\ Answer(c, 404, {})

Show(c) ==
  /\ op[c] # None
  /\ \/ /\ op[c].do = "get" /\ Live(op[c].id)
        /\ Answer(c, 200, {<<op[c].id, rows[op[c].id]>>})
     \/ /\ op[c].do = "list"
        /\ Answer(c, 200, {<<i, rows[i]>> : i \in {j \in Id : Live(j)}})
  /\ rows' = rows

Fail(c) ==
  /\ op[c] # None
  /\ Change(c) \/ rows' = rows
  /\ Answer(c, 500, {})

\* Somebody else sees to it that v is held.
Ensure(i, v) ==
  /\ rows[i] = Unused /\ ~Held(v)
  /\ rows' = [rows EXCEPT ![i] = v]
  /\ UNCHANGED <<op, answer>>

Serve(c) == Succeed(c) \/ Conflict(c) \/ Missing(c) \/ Show(c) \/ Fail(c)

Next ==
  \/ \E c \in Caller, o \in Op : Begin(c, o)
  \/ \E c \in Caller : Serve(c)
  \/ \E i \in Id, v \in Value : Ensure(i, v)

Spec == Init /\ [][Next]_<<rows, op, answer>>
=============================================================================
