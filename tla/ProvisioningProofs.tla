------------------------- MODULE ProvisioningProofs -------------------------
(***************************************************************************)
(* Proofs about Provisioning, for any numbers of requests, runs of the     *)
(* seeds and readers, any catalogue and any choice of those that take part.*)
(***************************************************************************)
EXTENDS Provisioning, TLAPS

-----------------------------------------------------------------------------
(* The inductive invariant *)

\* Where a request stands, seen from its call and its answer.
CallsAgree ==
  \A r \in Request :
    /\ pc[r] = "idle" <=> op[r] = None
    /\ pc[r] # "end" => answer[r] = Pending

\* A row is written first by the one it is named after.
RowsUnused ==
  /\ \A r \in Request :
       rows[r] # Unused => pc[r] = "end" /\ op[r].do = "create"
  /\ \A s \in Script, w \in SeedWallet :
       rows[<<s, w>>] # Unused =>
         <<"partner", w>> \in done[s] \/ phase[s] = "failed"

\* What a run has written is there, and a run that succeeded wrote all.
DoneIsPresent ==
  \A s \in Seeder :
    /\ \A x \in done[s] : x[1] # "partner" => x \in present
    /\ phase[s] = "ok" => Plan[s] \subseteq done[s]

\* What a reader asks, where it stands, and whom it knows to have succeeded.
ReaderAgrees ==
  \A q \in Reader :
    /\ at[q] \in {"exact", "pattern", "tier", "config"} => ask[q] \in Quota
    /\ at[q] \in {"chain", "adapters"} => ask[q] \in Listing
    /\ at[q] \in {"tier", "config"} => hit[q] \in Endpoint
    /\ at[q] # "end" => reply[q] = Nothing
    /\ reply[q].is = "rows" => ask[q] \in Listing
    /\ \A s \in since[q] : phase[s] = "ok"

PartnersInv == PartnersTypeOK /\ CallsAgree /\ RowsUnused

CatalogueInv ==
  /\ CatalogueTypeOK
  /\ DoneIsPresent /\ ReferencesHold
  /\ ReaderAgrees
  /\ SeededIsLimited /\ AdaptersListed

Inv == PartnersInv /\ CatalogueInv

-----------------------------------------------------------------------------
(* Rows of a plan *)

LEMMA PlanInRow == \A s \in Seeder : Plan[s] \subseteq Row
  BY DEF Row

LEMMA Offered ==
  /\ \A e \in Endpoint : <<"endpoint", e>> \in Offer
  /\ \A t \in Tier : <<"tier", t>> \in Offer
  /\ \A t \in Tier, e \in Endpoint : <<"config", <<t, e>>>> \in Offer
  /\ \A x \in Offer : x[1] \in {"tier", "endpoint", "config"}
  BY DEF Offer, Rows

LEMMA AdapterRows ==
  ASSUME NEW s \in Seeder, NEW x \in Adapters(s)
  PROVE  x[1] = "adapter" /\ x[2][1] \in Chain
  BY DEF Adapters, Rows

LEMMA Planned ==
  ASSUME NEW s \in Seeder
  PROVE  /\ Offer \subseteq Plan[s]
         /\ Adapters(s) \subseteq Plan[s]
         /\ s \in Script => \A c \in Chain : <<"chain", c>> \in Plan[s]
  BY DEF Plan, Rows

LEMMA PlannedStage ==
  ASSUME NEW s \in Seeder, NEW x \in Plan[s]
  PROVE  Stage[x[1]] \in Nat
  BY DEF Plan, Offer, Adapters, Rows, Stage

\* A plan holds what its rows refer to, in tables it comes to before, but for the
\* chains of adapters, which admin/seed does not write.
LEMMA PlannedRefersTo ==
  ASSUME NEW s \in Seeder, NEW x \in Plan[s], x[1] # "adapter",
         NEW y \in RefersTo(x)
  PROVE  y \in Plan[s] /\ y[1] # "partner" /\ Stage[y[1]] < Stage[x[1]]
<1>1. CASE x[1] = "key"
  BY <1>1 DEF Plan, Offer, Adapters, Rows, RefersTo, Stage
<1>2. CASE x[1] = "config"
  BY <1>2, Planned, Offered DEF Plan, Offer, Adapters, Rows, RefersTo, Stage
<1>3. CASE x[1] = "link"
  BY <1>3, LinkAssumption DEF Plan, Offer, Adapters, Rows, RefersTo, Stage
<1> QED
  BY <1>1, <1>2, <1>3 DEF RefersTo

\* What a run that has succeeded has left behind.
LEMMA Provided ==
  ASSUME DoneIsPresent, NEW s \in Seeder, phase[s] = "ok"
  PROVE  /\ Offer \subseteq present
         /\ Adapters(s) \subseteq present
         /\ s \in Script => \A c \in Chain : <<"chain", c>> \in present
<1>1. Plan[s] \subseteq done[s]
  BY DEF DoneIsPresent
<1>2. \A x \in Plan[s] : x[1] # "partner" => x \in present
  BY <1>1 DEF DoneIsPresent
<1>3. Offer \subseteq present
  BY <1>2, Planned, Offered
<1>4. Adapters(s) \subseteq present
  BY <1>2, Planned, AdapterRows
<1>5. ASSUME s \in Script, NEW c \in Chain
      PROVE  <<"chain", c>> \in present
  <2>1. <<"chain", c>> \in Plan[s]
    BY <1>5, Planned
  <2> QED
    BY <1>2, <2>1
<1> QED
  BY <1>3, <1>4, <1>5

LEMMA OperationFields ==
  ASSUME NEW o \in Operation
  PROVE  /\ o.do \in {"create", "update", "delete", "get", "list"}
         /\ o.do = "create" => o.value \in Wallet
         /\ o.do # "create" => o.value \in Wallet \cup {None}
         /\ o.id \in Id \cup {NoRow}
  BY DEF Operation

-----------------------------------------------------------------------------
(* Requests on partners *)

\* A write leaves rows in order, and brings none into use but that of a create.
LEMMA WriteRows ==
  ASSUME PartnersTypeOK, NEW r \in Request, op[r] \in Operation, Write(r)
  PROVE  /\ rows' \in [Id -> Address \cup {Unused, Gone}]
         /\ \A i \in Id : rows'[i] # Unused =>
              rows[i] # Unused \/ (i = r /\ op[r].do = "create")
<1> USE MarkAssumption
<1>1. /\ rows \in [Id -> Address \cup {Unused, Gone}]
      /\ r \in Id /\ (op[r].value # None => op[r].value \in Address)
  BY OperationFields DEF PartnersTypeOK, Id, Address
<1>2. CASE op[r].do = "create" /\ rows' = [rows EXCEPT ![r] = op[r].value]
  <2>1. op[r].value \in Address
    BY <1>2, OperationFields DEF Address
  <2> QED
    BY <1>1, <1>2, <2>1
<1>3. CASE op[r].do = "update" /\ rows' = rows
  BY <1>1, <1>3
<1>4. CASE /\ op[r].do = "update" /\ Live(op[r].id) /\ op[r].value # None
           /\ rows' = [rows EXCEPT ![op[r].id] = op[r].value]
  BY <1>1, <1>4 DEF Live
<1>5. CASE /\ op[r].do = "delete" /\ Live(op[r].id)
           /\ rows' = [rows EXCEPT ![op[r].id] = Gone]
  BY <1>1, <1>5 DEF Live
<1> QED
  BY <1>2, <1>3, <1>4, <1>5 DEF Write

\* A response leaves a request that has made its call in order.
LEMMA RespondKeeps ==
  ASSUME PartnersInv, NEW r \in Request, pc[r] \in {"check", "call"},
         NEW code \in {200, 404, 409, 500}, NEW shows \in SUBSET (Id \X Address),
         Respond(r, code, shows),
         rows' \in [Id -> Address \cup {Unused, Gone}],
         \A i \in Id : rows'[i] # Unused =>
           rows[i] # Unused \/ (i = r /\ op[r].do = "create"),
         UNCHANGED <<phase, done>>
  PROVE  PartnersInv'
<1> USE DEF PartnersInv, PartnersTypeOK, Respond
<1>1. PartnersTypeOK'
  <2>1. [code |-> code, shows |-> shows]
          \in [code : {0, 200, 404, 409, 500}, shows : SUBSET (Id \X Address)]
    OBVIOUS
  <2> QED
    BY <2>1
<1>2. CallsAgree'
  BY DEF CallsAgree
<1>3. RowsUnused'
  <2>1. /\ \A q \in Request : q \in Id
        /\ \A s \in Script, w \in SeedWallet : <<s, w>> \in Id /\ <<s, w>> # r
    BY IdAssumption DEF Id
  <2> QED
    BY <2>1 DEF RowsUnused
<1> QED
  BY <1>1, <1>2, <1>3

LEMMA RequestKeeps ==
  ASSUME PartnersInv, NEW r \in Request, RequestStep(r)
  PROVE  PartnersInv'
<1>1. ASSUME NEW o \in Operation, Begin(r, o) PROVE PartnersInv'
  BY <1>1, OperationAssumption
  DEF Begin, PartnersInv, PartnersTypeOK, CallsAgree, RowsUnused, Id, Pending,
      RequestStep, seeds
<1>2. CASE CheckFree(r)
  BY <1>2 DEF CheckFree, Goto, PartnersInv, PartnersTypeOK, CallsAgree,
              RowsUnused, RequestStep, seeds
<1> SUFFICES ASSUME Handle(r), ~CheckFree(r)
             PROVE  PartnersInv'
  BY <1>1, <1>2 DEF RequestStep
<1>3. /\ pc[r] \in {"check", "call"}
      /\ op[r] \in Operation
      /\ UNCHANGED <<phase, done>>
  BY DEF Handle, CheckTaken, Create, Update, WriteRejected, Delete, DeleteMissing,
         Get, List, Fail, FailCommitted, At, RequestStep, seeds, PartnersInv,
         PartnersTypeOK, CallsAgree
<1>4. ASSUME NEW code \in {200, 404, 409, 500},
             NEW shows \in SUBSET (Id \X Address),
             Respond(r, code, shows), UNCHANGED rows \/ Write(r)
      PROVE  PartnersInv'
  <2>1. /\ rows' \in [Id -> Address \cup {Unused, Gone}]
        /\ \A i \in Id : rows'[i] # Unused =>
             rows[i] # Unused \/ (i = r /\ op[r].do = "create")
    BY <1>3, <1>4, WriteRows DEF PartnersInv, PartnersTypeOK
  <2> QED
    BY <1>3, <1>4, <2>1, RespondKeeps
<1>5. {} \in SUBSET (Id \X Address)
  OBVIOUS
<1>6. ASSUME NEW i \in Id, NEW w \in Address
      PROVE  {<<i, w>>} \in SUBSET (Id \X Address)
  OBVIOUS
<1>7. CASE CheckTaken(r) \/ WriteRejected(r) \/ DeleteMissing(r) \/ Fail(r)
  BY <1>4, <1>5, <1>7 DEF CheckTaken, WriteRejected, DeleteMissing, Fail
<1>8. CASE Delete(r) \/ FailCommitted(r)
  BY <1>4, <1>5, <1>8 DEF Delete, FailCommitted
<1>9. CASE Create(r)
  <2>1. r \in Id /\ op[r].value \in Address
    BY <1>3, <1>9, OperationFields DEF Create, At, Id, Address
  <2> QED
    BY <1>4, <1>6, <1>9, <2>1 DEF Create
<1>10. CASE Update(r)
  <2>1. op[r].id \in Id /\ rows'[op[r].id] \in Address
    <3>1. Live(op[r].id) /\ (op[r].value # None => op[r].value \in Address)
      BY <1>3, <1>10, OperationFields DEF Update, Write, At, Address
    <3> QED
      BY <1>10, <3>1 DEF Update, Write, At, Live, PartnersInv, PartnersTypeOK
  <2> QED
    BY <1>4, <1>6, <1>10, <2>1 DEF Update
<1>11. CASE Get(r)
  BY <1>4, <1>5, <1>6, <1>11 DEF Get, Live
<1>12. CASE List(r)
  <2>1. {<<i, rows[i]>> : i \in {j \in Id : Live(j)}} \in SUBSET (Id \X Address)
    BY DEF Live
  <2> QED
    BY <1>4, <1>12, <2>1 DEF List
<1> QED
  BY <1>7, <1>8, <1>9, <1>10, <1>11, <1>12 DEF Handle

-----------------------------------------------------------------------------
(* Runs of the seeds *)

\* Readers are out of the reach of a run that takes nothing away.
LEMMA ReadersApart ==
  ASSUME CatalogueInv, UNCHANGED lookups,
         \A s \in Seeder : phase[s] = "ok" => phase'[s] = "ok"
  PROVE  ReaderAgrees' /\ SeededIsLimited' /\ AdaptersListed'
<1> USE DEF CatalogueInv, CatalogueTypeOK, lookups
<1>1. ReaderAgrees'
  BY DEF ReaderAgrees
<1>2. SeededIsLimited'
  BY DEF SeededIsLimited
<1>3. AdaptersListed'
  BY DEF AdaptersListed
<1> QED
  BY <1>1, <1>2, <1>3

LEMMA WrittenKeeps ==
  ASSUME CatalogueInv, NEW s \in Seeder, NEW x \in Due(s), Written(s, x),
         present \subseteq present', present' \subseteq Row, ReferencesHold',
         x[1] # "partner" => x \in present'
  PROVE  CatalogueInv'
<1> USE DEF CatalogueInv, CatalogueTypeOK, Written, Due
<1>1. x \in Row /\ phase[s] = "running"
  BY PlanInRow
<1>2. CatalogueTypeOK'
  BY <1>1 DEF lookups
<1>3. DoneIsPresent'
  BY DEF DoneIsPresent
<1>4. ReaderAgrees' /\ SeededIsLimited' /\ AdaptersListed'
  BY <1>1, ReadersApart
<1> QED
  BY <1>2, <1>3, <1>4

LEMMA BrokenKeeps ==
  ASSUME CatalogueInv, NEW s \in Seeder, phase[s] = "running", Broken(s),
         present \subseteq present', present' \subseteq Row, ReferencesHold'
  PROVE  CatalogueInv'
<1> USE DEF CatalogueInv, CatalogueTypeOK, Broken
<1>1. CatalogueTypeOK'
  BY DEF lookups
<1>2. DoneIsPresent'
  BY DEF DoneIsPresent
<1>3. ReaderAgrees' /\ SeededIsLimited' /\ AdaptersListed'
  BY ReadersApart
<1> QED
  BY <1>1, <1>2, <1>3

\* A run has done with what a row refers to when it comes to the row.
LEMMA DueRefersTo ==
  ASSUME CatalogueInv, NEW s \in Seeder, NEW x \in Due(s), ChainKnown(x)
  PROVE  RefersTo(x) \subseteq present
<1>1. CASE x[1] = "adapter"
  BY <1>1 DEF RefersTo, ChainKnown
<1>2. CASE x[1] # "adapter"
  <2> SUFFICES ASSUME NEW y \in RefersTo(x)
               PROVE  y \in present
    OBVIOUS
  <2>1. y \in Plan[s] /\ y[1] # "partner" /\ Stage[y[1]] < Stage[x[1]]
    BY <1>2, PlannedRefersTo DEF Due
  <2>2. Stage[x[1]] \in Nat /\ Stage[y[1]] \in Nat
    BY <2>1, PlannedStage DEF Due
  <2>3. y \in done[s]
    BY <2>1, <2>2 DEF Due
  <2> QED
    BY <2>1, <2>3 DEF CatalogueInv, DoneIsPresent
<1> QED
  BY <1>1, <1>2

LEMMA AddedRow ==
  ASSUME CatalogueInv, NEW s \in Seeder, NEW x \in Due(s), ChainKnown(x),
         present' = present \cup {x}
  PROVE  present' \subseteq Row /\ ReferencesHold'
<1>1. x \in Row
  BY PlanInRow DEF Due
<1> QED
  BY <1>1, DueRefersTo DEF CatalogueInv, CatalogueTypeOK, ReferencesHold

LEMMA SeedKeeps ==
  ASSUME CatalogueInv, NEW s \in Seeder, SeedStep(s)
  PROVE  CatalogueInv'
<1>1. CASE StartSeed(s)
  <2>1. CatalogueTypeOK' /\ DoneIsPresent' /\ ReferencesHold'
    BY <1>1 DEF StartSeed, lookups, CatalogueInv, CatalogueTypeOK, DoneIsPresent,
                ReferencesHold
  <2>2. ReaderAgrees' /\ SeededIsLimited' /\ AdaptersListed'
    BY <1>1, ReadersApart DEF StartSeed, CatalogueInv, CatalogueTypeOK
  <2> QED
    BY <2>1, <2>2 DEF CatalogueInv
<1> SUFFICES ASSUME NEW x \in Due(s),
                    \/ Upsert(s, x) \/ ChainMissing(s, x) \/ FailSeed(s, x)
                    \/ FindToken(s, x) \/ WriteToken(s, x) \/ TokenCollides(s, x)
             PROVE  CatalogueInv'
  BY <1>1 DEF SeedStep
<1>2. /\ phase[s] = "running"
      /\ present \subseteq Row /\ ReferencesHold
  BY DEF Due, CatalogueInv, CatalogueTypeOK
<1>3. UNCHANGED present => present' \subseteq Row /\ ReferencesHold'
  BY <1>2 DEF ReferencesHold
<1>4. CASE Upsert(s, x) \/ WriteToken(s, x)
  <2>1. ChainKnown(x) /\ present' = present \cup {x} /\ Written(s, x)
    BY <1>4 DEF Upsert, WriteToken, ChainKnown
  <2> QED
    BY <2>1, AddedRow, WrittenKeeps
<1>5. CASE ChainMissing(s, x) \/ TokenCollides(s, x)
  BY <1>2, <1>3, <1>5, BrokenKeeps DEF ChainMissing, TokenCollides
<1>6. CASE FailSeed(s, x)
  <2>1. CASE UNCHANGED present
    BY <1>2, <1>3, <1>6, <2>1, BrokenKeeps DEF FailSeed
  <2>2. CASE ChainKnown(x) /\ present' = present \cup {x}
    BY <1>2, <1>6, <2>2, AddedRow, BrokenKeeps DEF FailSeed
  <2> QED
    BY <1>6, <2>1, <2>2 DEF FailSeed
<1>7. CASE FindToken(s, x)
  <2>1. CatalogueTypeOK' /\ DoneIsPresent' /\ ReferencesHold'
    BY <1>7 DEF FindToken, lookups, CatalogueInv, CatalogueTypeOK, DoneIsPresent,
                ReferencesHold
  <2>2. ReaderAgrees' /\ SeededIsLimited' /\ AdaptersListed'
    BY <1>7, ReadersApart DEF FindToken
  <2> QED
    BY <2>1, <2>2 DEF CatalogueInv
<1> QED
  BY <1>4, <1>5, <1>6, <1>7

-----------------------------------------------------------------------------
(* The partners of the script *)

\* Until its run has come to it, the row of a wallet of the script is unused.
LEMMA EnsureKeeps ==
  ASSUME PartnersInv, NEW s \in Script, NEW w \in SeedWallet, Ensure(s, w),
         \A t \in Script : /\ done[t] \subseteq done'[t]
                           /\ phase[t] = "failed" => phase'[t] = "failed",
         <<"partner", w>> \in done'[s] \/ phase'[s] = "failed"
  PROVE  PartnersInv'
<1>1. /\ <<s, w>> \in Id /\ w \in Address
      /\ \A q \in Request : q \in Id /\ q # <<s, w>>
      /\ \A t \in Script, v \in SeedWallet : <<t, v>> \in Id
  BY IdAssumption DEF Id, Address
<1>2. PartnersTypeOK'
  BY <1>1 DEF PartnersInv, PartnersTypeOK, Ensure
<1>3. CallsAgree'
  BY DEF PartnersInv, CallsAgree, Ensure
<1>4. RowsUnused'
  <2>1. /\ \A i \in Id : i # <<s, w>> => rows'[i] = rows[i]
        /\ UNCHANGED <<pc, op>>
    BY DEF PartnersInv, PartnersTypeOK, Ensure
  <2>2. ASSUME NEW t \in Script, NEW v \in SeedWallet, rows'[<<t, v>>] # Unused
        PROVE  <<"partner", v>> \in done'[t] \/ phase'[t] = "failed"
    <3>1. CASE t = s /\ v = w
      BY <3>1
    <3>2. CASE ~(t = s /\ v = w)
      <4>1. rows'[<<t, v>>] = rows[<<t, v>>]
        BY <1>1, <2>1, <3>2
      <4> QED
        BY <2>2, <4>1 DEF PartnersInv, RowsUnused
    <3> QED
      BY <3>1, <3>2
  <2> QED
    BY <1>1, <2>1, <2>2 DEF PartnersInv, RowsUnused
<1> QED
  BY <1>2, <1>3, <1>4 DEF PartnersInv

LEMMA SeedKeepsPartners ==
  ASSUME PartnersInv, CatalogueTypeOK, NEW s \in Seeder, SeedStep(s),
         UNCHANGED partners
  PROVE  PartnersInv'
<1>1. ASSUME NEW x \in Due(s), Written(s, x) \/ Broken(s)
      PROVE  \A t \in Seeder : /\ done[t] \subseteq done'[t]
                               /\ phase[t] = "failed" => phase'[t] = "failed"
  <2>1. phase[s] = "running"
    BY <1>1 DEF Due
  <2> QED
    BY <1>1, <2>1 DEF Written, Broken, CatalogueTypeOK
<1>2. \A t \in Seeder : /\ done[t] \subseteq done'[t]
                        /\ phase[t] = "failed" => phase'[t] = "failed"
  BY <1>1 DEF SeedStep, StartSeed, Upsert, ChainMissing, FailSeed, FindToken,
              WriteToken, TokenCollides, CatalogueTypeOK
<1> QED
  BY <1>2 DEF PartnersInv, PartnersTypeOK, CallsAgree, RowsUnused, partners, Seeder

LEMMA PartnerStepKeeps ==
  ASSUME PartnersInv, CatalogueInv, NEW s \in Script, NEW w \in SeedWallet,
         EnsurePartner(s, w) \/ EnsurePartnerLost(s, w)
  PROVE  PartnersInv' /\ CatalogueInv'
<1>1. s \in Seeder
  BY DEF Seeder
<1>2. /\ present' = present
      /\ Ensure(s, w)
      /\ <<"partner", w>> \in Due(s) /\ phase[s] = "running"
  BY DEF EnsurePartner, EnsurePartnerLost, PartnerWritten, Due
<1>3. present' \subseteq Row /\ ReferencesHold'
  BY <1>2 DEF CatalogueInv, CatalogueTypeOK, ReferencesHold
<1>4. CASE Written(s, <<"partner", w>>)
  <2>1. CatalogueInv'
    BY <1>1, <1>2, <1>3, <1>4, WrittenKeeps
  <2>2. PartnersInv'
    BY <1>1, <1>2, <1>4, EnsureKeeps
    DEF Written, CatalogueInv, CatalogueTypeOK, Seeder
  <2> QED
    BY <2>1, <2>2
<1>5. CASE Broken(s)
  <2>1. CatalogueInv'
    BY <1>1, <1>2, <1>3, <1>5, BrokenKeeps
  <2>2. PartnersInv'
    BY <1>1, <1>2, <1>5, EnsureKeeps
    DEF Broken, CatalogueInv, CatalogueTypeOK, Seeder
  <2> QED
    BY <2>1, <2>2
<1> QED
  BY <1>4, <1>5 DEF EnsurePartner, EnsurePartnerLost, PartnerWritten

-----------------------------------------------------------------------------
(* Lookups *)

\* A reader that has just settled, rightly typed and rightly answered.
LEMMA SettleKeeps ==
  ASSUME CatalogueInv, NEW q \in Reader, at[q] \notin {"idle", "end"},
         NEW is \in {"limited", "unlimited", "rows", "failed"},
         NEW shown \in SUBSET Row, Settle(q, is, shown),
         is = "rows" => ask[q] \in Listing,
         is = "unlimited" /\ ask[q].tier \in Tier /\ Matches[ask[q].path] # {} =>
           since[q] = {},
         is = "rows" =>
           /\ \A s \in since[q] :
                {x \in Adapters(s) : x[2][1] = ask[q].chain} \subseteq shown
           /\ \A x \in shown : x[2][1] = ask[q].chain
  PROVE  CatalogueInv'
<1> USE DEF CatalogueInv, CatalogueTypeOK, Settle, seeds
<1>1. [is |-> is, rows |-> shown]
        \in [is : {"pending", "limited", "unlimited", "rows", "failed"},
             rows : SUBSET Row]
  OBVIOUS
<1>2. CatalogueTypeOK'
  BY <1>1
<1>3. DoneIsPresent' /\ ReferencesHold'
  BY DEF DoneIsPresent, ReferencesHold
<1>4. ReaderAgrees'
  BY DEF ReaderAgrees
<1>5. SeededIsLimited'
  BY DEF SeededIsLimited
<1>6. AdaptersListed'
  BY DEF AdaptersListed
<1> QED
  BY <1>2, <1>3, <1>4, <1>5, <1>6

\* A reader on its way.
LEMMA LookKeeps ==
  ASSUME CatalogueInv, NEW q \in Reader,
         NEW to \in {"pattern", "tier", "config", "adapters"},
         Look(q, to), at[q] \notin {"idle", "end"},
         hit' = hit \/ \E e \in Endpoint : hit' = [hit EXCEPT ![q] = e],
         to \in {"pattern", "tier", "config"} => ask[q] \in Quota,
         to \in {"tier", "config"} => hit'[q] \in Endpoint,
         to = "adapters" => ask[q] \in Listing
  PROVE  CatalogueInv'
<1> USE DEF CatalogueInv, CatalogueTypeOK, Look, seeds
<1>1. CatalogueTypeOK'
  OBVIOUS
<1>2. DoneIsPresent' /\ ReferencesHold'
  BY DEF DoneIsPresent, ReferencesHold
<1>3. ReaderAgrees'
  BY DEF ReaderAgrees
<1>4. SeededIsLimited' /\ AdaptersListed'
  BY DEF SeededIsLimited, AdaptersListed
<1> QED
  BY <1>1, <1>2, <1>3, <1>4

LEMMA BeginLookupKeeps ==
  ASSUME CatalogueInv, NEW q \in Reader, AskQuota(q) \/ AskAdapters(q)
  PROVE  CatalogueInv'
<1>0. PICK a \in Quota \cup Listing, l \in {"exact", "chain"} :
        /\ BeginLookup(q, a, l)
        /\ l = "exact" => a \in Quota
        /\ l = "chain" => a \in Listing
  BY DEF AskQuota, AskAdapters
<1> USE <1>0 DEF BeginLookup, seeds
<1> USE DEF CatalogueInv, CatalogueTypeOK
<1>1. CatalogueTypeOK'
  OBVIOUS
<1>2. DoneIsPresent' /\ ReferencesHold'
  BY DEF DoneIsPresent, ReferencesHold
<1>3. ReaderAgrees'
  <2>1. /\ at' = [at EXCEPT ![q] = l] /\ ask' = [ask EXCEPT ![q] = a]
        /\ since' = [since EXCEPT ![q] = {s \in Seeder : phase[s] = "ok"}]
        /\ UNCHANGED <<hit, reply, phase>>
        /\ at[q] = "idle"
    OBVIOUS
  <2>2. /\ at'[q] = l /\ ask'[q] = a
        /\ since'[q] = {s \in Seeder : phase[s] = "ok"}
        /\ \A r \in Reader \ {q} : /\ at'[r] = at[r] /\ ask'[r] = ask[r]
                                   /\ since'[r] = since[r]
    BY <2>1
  <2>3. reply[q] = Nothing
    BY <2>1 DEF ReaderAgrees
  <2> HIDE <1>0
  <2> QED
    BY <1>0, <2>1, <2>2, <2>3 DEF ReaderAgrees, Nothing
<1>4. SeededIsLimited' /\ AdaptersListed'
  <2>1. reply[q].is = "pending"
    BY DEF ReaderAgrees, Nothing
  <2>2. SeededIsLimited'
    BY <2>1 DEF SeededIsLimited
  <2>3. AdaptersListed'
    BY <2>1 DEF AdaptersListed
  <2> QED
    BY <2>2, <2>3
<1> QED
  BY <1>1, <1>2, <1>3, <1>4

LEMMA LookupKeeps ==
  ASSUME CatalogueInv, NEW q \in Reader, LookupStep(q)
  PROVE  CatalogueInv'
<1> USE PathAssumption DEF CatalogueInv
<1>1. CASE AskQuota(q) \/ AskAdapters(q)
  BY <1>1, BeginLookupKeeps
<1>2. ASSUME NEW s \in since[q]
      PROVE  /\ s \in Seeder /\ Offer \subseteq present
             /\ Adapters(s) \subseteq present
             /\ s \in Script => \A c \in Chain : <<"chain", c>> \in present
  BY <1>2, Provided DEF CatalogueTypeOK, ReaderAgrees
<1>3. since[q] # {} => Offer \subseteq present
  BY <1>2
<1>4. /\ at[q] \in {"exact", "pattern", "tier", "config"} =>
           /\ ask[q] \in Quota
           /\ Matches[ask[q].path] \subseteq Endpoint
      /\ at[q] \in {"chain", "adapters"} =>
           ask[q] \in Listing /\ ask[q].chain \in Chain
  BY DEF ReaderAgrees, Quota, Listing
<1>5. CASE Exact(q)
  BY <1>4, <1>5, LookKeeps DEF Exact, CatalogueTypeOK
<1>6. CASE Pattern(q)
  <2>1. CASE Candidates(q) = {} /\ Settle(q, "unlimited", {})
    <3>1. Matches[ask[q].path] # {} => since[q] = {}
      BY <1>3, <1>4, <1>6, <2>1, Offered DEF Pattern, Candidates
    <3> QED
      BY <1>6, <2>1, <3>1, SettleKeeps DEF Pattern
  <2>2. ASSUME NEW e \in Candidates(q), Look(q, "tier"),
               hit' = [hit EXCEPT ![q] = e]
        PROVE  CatalogueInv'
    BY <1>4, <1>6, <2>2, LookKeeps DEF Pattern, Candidates, CatalogueTypeOK
  <2> QED
    BY <1>6, <2>1, <2>2 DEF Pattern
<1>7. CASE TierOf(q)
  <2>1. CASE <<"tier", ask[q].tier>> \in present
    BY <1>4, <1>7, <2>1, LookKeeps DEF TierOf, ReaderAgrees
  <2>2. CASE <<"tier", ask[q].tier>> \notin present
    <3>1. ask[q].tier \in Tier => since[q] = {}
      BY <1>3, <2>2, Offered
    <3> QED
      BY <1>7, <2>2, <3>1, SettleKeeps DEF TierOf
  <2> QED
    BY <2>1, <2>2
<1>8. CASE Config(q)
  <2> DEFINE x == <<"config", <<ask[q].tier, hit[q]>>>>
  <2>1. CASE x \in present
    <3>1. {x} \in SUBSET Row
      BY <2>1 DEF CatalogueTypeOK
    <3> QED
      BY <1>8, <2>1, <3>1, SettleKeeps DEF Config
  <2>2. CASE x \notin present
    <3>1. hit[q] \in Endpoint
      BY <1>8 DEF Config, ReaderAgrees
    <3>2. ask[q].tier \in Tier => since[q] = {}
      BY <1>3, <2>2, <3>1, Offered
    <3> QED
      BY <1>8, <2>2, <3>2, SettleKeeps DEF Config
  <2> QED
    BY <2>1, <2>2
<1>9. CASE ChainOf(q)
  <2>1. CASE <<"chain", ask[q].chain>> \in present
    BY <1>4, <1>9, <2>1, LookKeeps DEF ChainOf
  <2>2. CASE <<"chain", ask[q].chain>> \notin present
    <3>1. ASSUME NEW s \in since[q], NEW x \in Adapters(s),
                 x[2][1] = ask[q].chain
          PROVE  FALSE
      BY <1>2, <2>2, <3>1, AdapterRows DEF ReferencesHold, RefersTo
    <3> QED
      BY <1>4, <1>9, <2>2, <3>1, SettleKeeps DEF ChainOf
  <2> QED
    BY <2>1, <2>2
<1>10. CASE AdaptersOf(q)
  <2> DEFINE shown == {x \in present : x[1] = "adapter" /\ x[2][1] = ask[q].chain}
  <2>1. shown \in SUBSET Row /\ \A x \in shown : x[2][1] = ask[q].chain
    BY DEF CatalogueTypeOK
  <2>2. ASSUME NEW s \in since[q]
        PROVE  {x \in Adapters(s) : x[2][1] = ask[q].chain} \subseteq shown
    BY <1>2, AdapterRows
  <2> HIDE DEF shown
  <2>3. at[q] = "adapters" /\ Settle(q, "rows", shown)
    BY <1>10 DEF AdaptersOf, shown
  <2> QED
    BY <1>4, <2>1, <2>2, <2>3, SettleKeeps
<1>11. CASE LookupFails(q)
  BY <1>11, SettleKeeps DEF LookupFails
<1> QED
  BY <1>1, <1>5, <1>6, <1>7, <1>8, <1>9, <1>10, <1>11 DEF LookupStep

-----------------------------------------------------------------------------
(* The invariant holds *)

LEMMA InitInv == Init => Inv
<1> SUFFICES ASSUME Init PROVE Inv
  OBVIOUS
<1>1. PartnersInv
  BY IdAssumption DEF Init, PartnersInit, PartnersInv, PartnersTypeOK, CallsAgree,
                      RowsUnused, Pending, Id
<1>2. CatalogueTypeOK
  BY DEF Init, CatalogueInit, CatalogueTypeOK, Nothing
<1>3. DoneIsPresent /\ ReferencesHold /\ ReaderAgrees
  BY DEF Init, CatalogueInit, DoneIsPresent, ReferencesHold, ReaderAgrees, Nothing
<1>4. SeededIsLimited /\ AdaptersListed
  BY DEF Init, CatalogueInit, SeededIsLimited, AdaptersListed, Nothing
<1> QED
  BY <1>1, <1>2, <1>3, <1>4 DEF Inv, CatalogueInv

LEMMA CatalogueApart ==
  ASSUME CatalogueInv, UNCHANGED <<seeds, lookups>>
  PROVE  CatalogueInv'
  BY DEF CatalogueInv, CatalogueTypeOK, DoneIsPresent, ReferencesHold, ReaderAgrees,
         SeededIsLimited, AdaptersListed, seeds, lookups

LEMMA PartnersApart ==
  ASSUME PartnersInv, UNCHANGED <<partners, phase, done>>
  PROVE  PartnersInv'
  BY DEF PartnersInv, PartnersTypeOK, CallsAgree, RowsUnused, partners

LEMMA NextInv == Inv /\ [Next]_vars => Inv'
<1> SUFFICES ASSUME Inv, [Next]_vars
             PROVE  Inv'
  OBVIOUS
<1> USE DEF Inv
<1>1. CASE UNCHANGED vars
  BY <1>1, CatalogueApart, PartnersApart DEF vars, seeds
<1>2. ASSUME NEW r \in Request, RequestStep(r)
      PROVE  Inv'
  BY <1>2, RequestKeeps, CatalogueApart DEF RequestStep
<1>3. ASSUME NEW s \in Seeder, SeedStep(s), UNCHANGED partners
      PROVE  Inv'
  BY <1>3, SeedKeeps, SeedKeepsPartners DEF CatalogueInv
<1>4. ASSUME NEW s \in Script, NEW w \in SeedWallet,
             EnsurePartner(s, w) \/ EnsurePartnerLost(s, w)
      PROVE  Inv'
  BY <1>4, PartnerStepKeeps
<1>5. ASSUME NEW q \in Reader, LookupStep(q), UNCHANGED partners
      PROVE  Inv'
  <2>1. UNCHANGED <<phase, done>>
    BY <1>5 DEF LookupStep, AskQuota, AskAdapters, BeginLookup, Exact, Pattern,
                TierOf, Config, ChainOf, AdaptersOf, LookupFails, Look, Settle, seeds
  <2> QED
    BY <1>5, <2>1, LookupKeeps, PartnersApart
<1> QED
  BY <1>1, <1>2, <1>3, <1>4, <1>5 DEF Next

THEOREM Invariance == Spec => []Inv
  BY InitInv, NextInv, PTL DEF Spec

\* The variables of the partners' handlers, of the seeds and of the lookups keep
\* their types.
THEOREM TypeCorrect == Spec => []TypeOK
<1>1. Inv => TypeOK
  BY DEF Inv, PartnersInv, CatalogueInv, TypeOK
<1> QED
  BY <1>1, Invariance, PTL

\* No run of a seed, wherever it breaks off, leaves a row in the database whose
\* foreign keys point to rows that are not there.
THEOREM ReferencesAlwaysHold == Spec => []ReferencesHold
<1>1. Inv => ReferencesHold
  BY DEF Inv, CatalogueInv
<1> QED
  BY <1>1, Invariance, PTL

\* Once a seed has reported success, consumeCredit finds the endpoint, the tier
\* and the quota of a seeded path and tier, whatever other seeds do.
THEOREM SeededQuotas == Spec => []SeededIsLimited
<1>1. Inv => SeededIsLimited
  BY DEF Inv, CatalogueInv
<1> QED
  BY <1>1, Invariance, PTL

\* GET /v1/chains/:chainId/adapters lists what the seeds that succeeded before it
\* have set up for the chain.
THEOREM SeededAdapters == Spec => []AdaptersListed
<1>1. Inv => AdaptersListed
  BY DEF Inv, CatalogueInv
<1> QED
  BY <1>1, Invariance, PTL

-----------------------------------------------------------------------------
(* The handlers of partners implement the table with a unique column *)

LEMMA InitRegistry == Init => Registry!Init
  BY DEF Init, PartnersInit, Registry!Init, Pending, Registry!Pending

LEMMA RespondAnswers ==
  ASSUME PartnersInv, NEW r \in Request, pc[r] \in {"check", "call"},
         NEW code, NEW shows, Respond(r, code, shows)
  PROVE  op[r] # None /\ Registry!Answer(r, code, shows)
  BY DEF PartnersInv, PartnersTypeOK, CallsAgree, Respond, Registry!Answer, Pending,
         Registry!Pending

LEMMA WriteChanges ==
  ASSUME PartnersInv, NEW r \in Request, pc[r] = "call", Write(r)
  PROVE  Registry!Change(r)
<1>1. op[r] # None /\ (op[r].do = "create" => rows[r] = Unused)
  BY DEF PartnersInv, PartnersTypeOK, CallsAgree, RowsUnused
<1> QED
  BY <1>1 DEF Write, Registry!Change, Live, Registry!Live, Held, Registry!Held,
              HeldElsewhere, Registry!HeldElsewhere

LEMMA HandleServes ==
  ASSUME PartnersInv, NEW r \in Request, Handle(r)
  PROVE  Registry!Serve(r) \/ UNCHANGED <<rows, op, answer>>
<1> USE DEF At
<1>1. CASE CheckTaken(r)
  BY <1>1, RespondAnswers
  DEF CheckTaken, Taken, Registry!Serve, Registry!Conflict, Held, Registry!Held,
      HeldElsewhere, Registry!HeldElsewhere
<1>2. CASE CheckFree(r)
  BY <1>2 DEF CheckFree, Goto
<1>3. CASE Create(r)
  <2>1. rows \in [Id -> Address \cup {Unused, Gone}] /\ r \in Id
    BY DEF PartnersInv, PartnersTypeOK, Id
  <2>2. rows'[r] = op[r].value
    BY <1>3, <2>1 DEF Create, Write
  <2> QED
    BY <1>3, <2>2, RespondAnswers, WriteChanges
    DEF Create, Registry!Serve, Registry!Succeed, Registry!Row
<1>4. CASE Update(r)
  BY <1>4, RespondAnswers, WriteChanges
  DEF Update, Registry!Serve, Registry!Succeed, Registry!Row
<1>5. CASE WriteRejected(r) \/ Fail(r)
  BY <1>5, RespondAnswers DEF WriteRejected, Fail, Registry!Serve, Registry!Fail
<1>6. CASE FailCommitted(r)
  BY <1>6, RespondAnswers, WriteChanges
  DEF FailCommitted, Registry!Serve, Registry!Fail
<1>7. CASE Delete(r)
  BY <1>7, RespondAnswers, WriteChanges
  DEF Delete, Registry!Serve, Registry!Succeed
<1>8. CASE DeleteMissing(r)
  BY <1>8, RespondAnswers
  DEF DeleteMissing, Registry!Serve, Registry!Missing, Live, Registry!Live
<1>9. CASE Get(r)
  BY <1>9, RespondAnswers
  DEF Get, Registry!Serve, Registry!Missing, Registry!Show, Live, Registry!Live
<1>10. CASE List(r)
  BY <1>10, RespondAnswers
  DEF List, Registry!Serve, Registry!Show, Live, Registry!Live
<1> QED
  BY <1>1, <1>2, <1>3, <1>4, <1>5, <1>6, <1>7, <1>8, <1>9, <1>10 DEF Handle

LEMMA EnsureIsEnsure ==
  ASSUME PartnersInv, NEW s \in Script, NEW w \in SeedWallet, Ensure(s, w),
         <<"partner", w>> \notin done[s], phase[s] # "failed"
  PROVE  \/ \E i \in Id, v \in Address : Registry!Ensure(i, v)
         \/ UNCHANGED <<rows, op, answer>>
<1>1. <<s, w>> \in Id /\ w \in Address /\ rows[<<s, w>>] = Unused
  BY DEF Id, Address, PartnersInv, RowsUnused
<1>2. CASE Held(w)
  BY <1>2 DEF Ensure
<1>3. CASE ~Held(w)
  <2>1. Registry!Ensure(<<s, w>>, w)
    BY <1>1, <1>3 DEF Ensure, Registry!Ensure, Held, Registry!Held
  <2> QED
    BY <1>1, <2>1
<1> QED
  BY <1>2, <1>3

LEMMA NextRegistry ==
  Inv /\ [Next]_vars => [Registry!Next]_<<rows, op, answer>>
<1> SUFFICES ASSUME Inv, [Next]_vars
             PROVE  Registry!Next \/ UNCHANGED <<rows, op, answer>>
  OBVIOUS
<1> USE DEF Inv, Registry!Next
<1>1. CASE UNCHANGED vars
  BY <1>1 DEF vars, partners
<1>2. ASSUME NEW r \in Request, RequestStep(r)
      PROVE  Registry!Next \/ UNCHANGED <<rows, op, answer>>
  <2>1. ASSUME NEW o \in Operation, Begin(r, o)
        PROVE  Registry!Begin(r, o)
    BY <2>1 DEF Begin, Registry!Begin
  <2> QED
    BY <1>2, <2>1, HandleServes DEF RequestStep
<1>3. ASSUME NEW s \in Script, NEW w \in SeedWallet,
             EnsurePartner(s, w) \/ EnsurePartnerLost(s, w)
      PROVE  Registry!Next \/ UNCHANGED <<rows, op, answer>>
  <2>1. /\ Ensure(s, w)
        /\ <<"partner", w>> \notin done[s] /\ phase[s] # "failed"
    BY <1>3 DEF EnsurePartner, EnsurePartnerLost, PartnerWritten, Due
  <2> QED
    BY <2>1, EnsureIsEnsure
<1>4. CASE UNCHANGED partners
  BY <1>4 DEF partners
<1> QED
  BY <1>1, <1>2, <1>3, <1>4 DEF Next

\* Each request on partners takes effect at one instant, as a call on a table with
\* a unique column does, with whatever other requests and the seed script.
THEOREM PartnersImplementRegistry == Spec => ImplementsRegistry
  BY InitRegistry, NextRegistry, Invariance, PTL
  DEF Spec, ImplementsRegistry, Registry!Spec
=============================================================================
