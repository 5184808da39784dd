-------------------------- MODULE SwapBuildProofs --------------------------
(* TLAPS proofs about SwapBuild, for any keys, requests, prices and amounts. *)
EXTENDS SwapBuild, TLAPS

-----------------------------------------------------------------------------
(* Arithmetic *)

\* Division by a positive number rounds down.
LEMMA DivisionRoundsDown ==
  ASSUME NEW a \in Nat, NEW d \in Nat \ {0}
  PROVE  /\ a \div d \in Nat
         /\ d * (a \div d) <= a
         /\ a < d * (a \div d) + d
  OBVIOUS

LEMMA ProductIsNat ==
  ASSUME NEW a \in Nat, NEW b \in Nat
  PROVE  a * b \in Nat
  OBVIOUS

\* getBestQuote's 995/1000 is the 50 basis points of the documentation.
LEMMA DefaultIsFiftyBps ==
  ASSUME NEW out \in Nat
  PROVE  (out * 995) \div 1000 = MinOut(out, 50)
<1> DEFINE q == (out * 995) \div 1000
<1>1. q \in Nat /\ 1000 * q <= out * 995 /\ out * 995 < 1000 * q + 1000
  BY DivisionRoundsDown
<1>2. out * (10000 - 50) \in Nat
  OBVIOUS
<1>3. /\ MinOut(out, 50) \in Nat
      /\ 10000 * MinOut(out, 50) <= out * 9950
      /\ out * 9950 < 10000 * MinOut(out, 50) + 10000
  BY <1>2, DivisionRoundsDown DEF MinOut
<1> QED
  BY <1>1, <1>3

\* The minimum of the use case, whatever the slippage.
LEMMA MinOutBounds ==
  ASSUME NEW out \in Nat, NEW bps \in Bps
  PROVE  /\ MinOut(out, bps) \in Nat
         /\ out * bps <= (out - MinOut(out, bps)) * 10000
         /\ (out - MinOut(out, bps)) * 10000 < out * bps + 10000
<1> DEFINE rest == 10000 - bps
           kept == out * rest
           q == MinOut(out, bps)
<1>1. rest \in Nat /\ kept \in Nat
  BY ProductIsNat DEF Bps
<1>2. q \in Nat /\ 10000 * q <= kept /\ kept < 10000 * q + 10000
  BY <1>1, DivisionRoundsDown DEF MinOut
<1>3. kept = out * 10000 - out * bps /\ out * bps \in Nat
  BY ProductIsNat DEF Bps
<1> QED
  BY <1>2, <1>3

LEMMA AmountOutMinBounds ==
  ASSUME NEW out \in Nat, NEW slippage \in Bps
  PROVE  LET bps == IF slippage > 0 THEN slippage ELSE 50
             min == AmountOutMin(out, slippage)
         IN  /\ min \in Nat
             /\ out * bps <= (out - min) * 10000
             /\ (out - min) * 10000 < out * bps + 10000
<1>1. CASE slippage > 0
  BY <1>1, MinOutBounds DEF AmountOutMin
<1>2. CASE ~(slippage > 0)
  <2>1. AmountOutMin(out, slippage) = MinOut(out, 50)
    BY <1>2, DefaultIsFiftyBps DEF AmountOutMin
  <2>2. 50 \in Bps
    BY DEF Bps
  <2> QED
    BY <1>2, <2>1, <2>2, MinOutBounds
<1> QED
  BY <1>1, <1>2

\* Every amount a quote may name is a natural number.
LEMMA OutsAreNat ==
  ASSUME NEW ask \in Ask
  PROVE  BestOuts(ask) \subseteq Nat
<1>1. ask.amount \in Nat /\ Price[ask.sell] \in Nat /\ Price[ask.buy] \in Nat \ {0}
  BY PriceAssumption DEF Ask
<1>2. ASSUME NEW v \in Variance
      PROVE  (ask.amount * Price[ask.sell] * v) \div (1000 * Price[ask.buy]) \in Nat
  <2>1. v \in Nat
    BY FactorAssumption
  <2>2. ask.amount * Price[ask.sell] * v \in Nat
    BY <1>1, <2>1, ProductIsNat
  <2>3. 1000 * Price[ask.buy] \in Nat \ {0}
    BY <1>1
  <2> QED
    BY <2>2, <2>3, DivisionRoundsDown
<1>3. SingleOuts(ask) \subseteq Nat
  BY <1>2 DEF SingleOuts
<1>4. ASSUME NEW out \in Nat, NEW f \in Improvement
      PROVE  (out * f) \div 1000 \in Nat
  <2>1. f \in Nat
    BY FactorAssumption
  <2>2. out * f \in Nat
    BY <2>1, ProductIsNat
  <2> QED
    BY <2>2, DivisionRoundsDown
<1> QED
  BY <1>3, <1>4 DEF BestOuts

\* What QuoteWithinSlippage says of one answer.
SoundQuote(ask, q) ==
  LET bps == IF ask.slippage > 0 THEN ask.slippage ELSE 50
  IN  /\ q.out * bps <= (q.out - q.min) * 10000
      /\ (q.out - q.min) * 10000 < q.out * bps + 10000

LEMMA QuotesAreSound ==
  ASSUME NEW ask \in Ask, NEW quote \in QuotesFor(ask)
  PROVE  /\ quote \in QuoteBody
         /\ SoundQuote(ask, quote)
<1>1. ask.slippage \in Bps
  BY DEF Ask
<1>2. PICK out \in BestOuts(ask) :
        quote = [route |-> IF ask.strategy \in {"fast", "nosplit"} THEN "NOSPLIT"
                                                                  ELSE "CONVERGE",
                 out |-> out, min |-> AmountOutMin(out, ask.slippage)]
  BY DEF QuotesFor
<1>3. out \in Nat
  BY OutsAreNat
<1> QED
  BY <1>1, <1>2, <1>3, AmountOutMinBounds DEF SoundQuote, QuoteBody, RouteTypes

\* What buildSwap makes of an encodable request.
LEMMA TransactionsAreSound ==
  ASSUME NEW ask \in Ask, NEW fee \in Bps
  PROVE  LET tx == Transaction(ask, fee) IN
           /\ tx \in TxBody
           /\ tx.fee = fee
           /\ tx.value > 0 <=> tx.call = "swapNoSplitFromPLS"
           /\ tx.value + tx.approved <= ask.amount
<1>1. ask.amount \in Nat \ {0}
  BY DEF Ask
<1>2. /\ Value(RouteType(ask), ask.sell, ask.amount) \in Nat
      /\ Approval(ask.sell, ask.amount) \in Nat
      /\ Value(RouteType(ask), ask.sell, ask.amount)
           + Approval(ask.sell, ask.amount) <= ask.amount
  BY <1>1 DEF Value, Approval
<1>3. /\ Call(RouteType(ask), ask.sell) \in
           {"swapNoSplit", "swapNoSplitFromPLS", "executeSplitSwap", "executeConvergeSwap"}
      /\ Call(RouteType(ask), ask.sell) = "swapNoSplitFromPLS"
           <=> RouteType(ask) = "NOSPLIT" /\ ask.sell \in PaidInValue
  BY DEF Call
<1>4. Value(RouteType(ask), ask.sell, ask.amount) > 0
        <=> RouteType(ask) = "NOSPLIT" /\ ask.sell \in PaidInValue
  BY <1>1 DEF Value
<1> QED
  BY <1>2, <1>3, <1>4 DEF Transaction, TxBody

LEMMA FeesAreBps ==
  ASSUME NEW tier \in Tiers
  PROVE  TierFee(tier) \in Bps /\ DEFAULT_FEE_BPS \in Bps
  BY DEF TierFee, TIER_FEE_BPS, DEFAULT_FEE_BPS, Bps, Tiers

-----------------------------------------------------------------------------
(* The inductive invariant *)

\* Only an answered request has an answer.
AnsweredOnly ==
  \A r \in Request : pc[r] # "answered" => reply[r] = NoReply

\* A request on its way, or served, has asked for something with some key.
RequestGiven ==
  \A r \in Request : pc[r] \in Waiting \/ reply[r].code = 200 =>
    asked[r] \in Asks /\ keyOf[r] \in Prefix

\* Past the guard the row exists, so that its tier is settled.
GuardedHasRow ==
  \A r \in Request : pc[r] \in {"limit", "fee"} \/ reply[r].code = 200 =>
    keys[keyOf[r]].state # "absent"

FeeAwaitedForBuild ==
  \A r \in Request : pc[r] = "fee" =>
    asked[r].kind = "build" /\ asked[r].fee = None

\* A request that came too late does not get past the guard.
LateStopped ==
  \A r \in Request : late[r] =>
    /\ keyOf[r] \in Prefix /\ keys[keyOf[r]].state = "revoked"
    /\ pc[r] \notin {"idle", "limit", "fee"}
    /\ reply[r].code # 200

\* What is said of a transaction and of its fee.
SoundTx(ask, tx) ==
  /\ tx.value > 0 <=> tx.call = "swapNoSplitFromPLS"
  /\ tx.value + tx.approved <= ask.amount

SoundFee(ask, row, fee) ==
  \/ ask.fee # None /\ fee = ask.fee
  \/ ask.fee = None /\ fee = TierFee(row.tier)
  \/ ask.fee = None /\ fee = DEFAULT_FEE_BPS /\ row.state = "revoked"

AnswersSound ==
  \A r \in Request :
    /\ Quoted(r) => SoundQuote(asked[r], reply[r].body)
    /\ Built(r) => /\ SoundTx(asked[r], reply[r].body)
                   /\ SoundFee(asked[r], keys[keyOf[r]], reply[r].body.fee)

IInv ==
  /\ TypeOK
  /\ AnsweredOnly
  /\ RequestGiven
  /\ GuardedHasRow
  /\ FeeAwaitedForBuild
  /\ LateStopped
  /\ AnswersSound

LEMMA InitIInv == Init => IInv
  BY DEF Init, IInv, TypeOK, AnsweredOnly, RequestGiven, GuardedHasRow,
         FeeAwaitedForBuild, LateStopped, AnswersSound, Quoted, Built, Row, Tiers,
         TIER_FEE_BPS, Waiting, NoReply, Reply

-----------------------------------------------------------------------------
(* Steps of the table *)

\* A row that exists keeps its tier and is at most revoked.
RowsSettled ==
  \A p \in Prefix : keys[p].state # "absent" =>
    \/ keys'[p] = keys[p]
    \/ keys'[p] = [keys[p] EXCEPT !.state = "revoked"]

LEMMA FeeStaysSound ==
  ASSUME NEW ask \in Ask, NEW row \in Row, NEW fee, SoundFee(ask, row, fee)
  PROVE  SoundFee(ask, [row EXCEPT !.state = "revoked"], fee)
  BY DEF SoundFee, Row

\* Nothing that requests know of rows is lost when the table changes.
LEMMA TableStep ==
  ASSUME IInv, RowsSettled, keys' \in [Prefix -> Row], revoking' \in SUBSET Prefix,
         UNCHANGED <<pc, asked, keyOf, late, reply, server>>
  PROVE  IInv'
<1>1. TypeOK' /\ AnsweredOnly' /\ RequestGiven' /\ FeeAwaitedForBuild'
  BY DEF IInv, TypeOK, AnsweredOnly, RequestGiven, FeeAwaitedForBuild
<1>2. ASSUME NEW r \in Request, keyOf[r] \in Prefix, keys[keyOf[r]].state # "absent"
      PROVE  /\ keys'[keyOf[r]].state # "absent"
             /\ keys[keyOf[r]].state = "revoked" => keys'[keyOf[r]].state = "revoked"
             /\ \/ keys'[keyOf[r]] = keys[keyOf[r]]
                \/ keys'[keyOf[r]] = [keys[keyOf[r]] EXCEPT !.state = "revoked"]
  BY <1>2 DEF IInv, TypeOK, RowsSettled, Row
<1>3. GuardedHasRow' /\ LateStopped'
  BY <1>2 DEF IInv, TypeOK, RequestGiven, GuardedHasRow, LateStopped, Waiting
<1>4. AnswersSound'
  <2> SUFFICES ASSUME NEW r \in Request, reply[r].code = 200
               PROVE  /\ Quoted(r)' => SoundQuote(asked[r], reply[r].body)
                      /\ Built(r)' => /\ SoundTx(asked[r], reply[r].body)
                                      /\ SoundFee(asked[r], keys'[keyOf[r]], reply[r].body.fee)
    BY DEF AnswersSound, Quoted, Built
  <2>1. asked[r] \in Ask /\ keyOf[r] \in Prefix /\ keys[keyOf[r]].state # "absent"
    BY AsksAssumption DEF IInv, RequestGiven, GuardedHasRow
  <2>2. keys[keyOf[r]] \in Row
    BY <2>1 DEF IInv, TypeOK
  <2>3. Quoted(r)' = Quoted(r) /\ Built(r)' = Built(r)
    BY DEF Quoted, Built
  <2>4. /\ Quoted(r) => SoundQuote(asked[r], reply[r].body)
        /\ Built(r) => /\ SoundTx(asked[r], reply[r].body)
                       /\ SoundFee(asked[r], keys[keyOf[r]], reply[r].body.fee)
    BY DEF IInv, AnswersSound
  <2>5. ASSUME SoundFee(asked[r], keys[keyOf[r]], reply[r].body.fee)
        PROVE  SoundFee(asked[r], keys'[keyOf[r]], reply[r].body.fee)
    <3>1. CASE keys'[keyOf[r]] = keys[keyOf[r]]
      BY <2>5, <3>1
    <3>2. CASE keys'[keyOf[r]] = [keys[keyOf[r]] EXCEPT !.state = "revoked"]
      BY <2>1, <2>2, <2>5, <3>2, FeeStaysSound
    <3> QED
      BY <1>2, <2>1, <3>1, <3>2
  <2> QED
    BY <2>3, <2>4, <2>5
<1> QED
  BY <1>1, <1>3, <1>4 DEF IInv

LEMMA GenerateStep ==
  ASSUME IInv, NEW p \in Prefix, NEW tier \in Tiers, Generate(p, tier)
  PROVE  IInv'
<1>1. keys' \in [Prefix -> Row] /\ RowsSettled
  BY DEF Generate, IInv, TypeOK, Row, RowsSettled
<1> QED
  BY <1>1, TableStep DEF Generate, IInv, TypeOK

LEMMA RevokeStep ==
  ASSUME IInv, NEW p \in Prefix, RevokeByKey(p) \/ RevokeByOwner(p) \/ RevokeWrite(p) \/ RevokeError(p)
  PROVE  IInv'
<1>1. keys' \in [Prefix -> Row] /\ revoking' \in SUBSET Prefix /\ RowsSettled
  BY DEF RevokeByKey, RevokeByOwner, RevokeWrite, RevokeError, IInv, TypeOK, Row, RowsSettled
<1> QED
  BY <1>1, TableStep DEF RevokeByKey, RevokeByOwner, RevokeWrite, RevokeError

-----------------------------------------------------------------------------
(* Steps of requests *)

LEMMA ArriveStep ==
  ASSUME IInv, NEW r \in Request, NEW p \in Prefix, NEW ask \in Asks, Arrive(r, p, ask)
  PROVE  IInv'
<1> USE DEF IInv, Arrive, Goto, NoReply
<1>1. TypeOK'
  BY DEF TypeOK, Waiting
<1>2. AnsweredOnly' /\ RequestGiven' /\ GuardedHasRow' /\ FeeAwaitedForBuild'
  BY DEF TypeOK, AnsweredOnly, RequestGiven, GuardedHasRow, FeeAwaitedForBuild, Waiting
<1>3. LateStopped'
  BY DEF TypeOK, AnsweredOnly, LateStopped
<1>4. AnswersSound'
  BY DEF TypeOK, AnsweredOnly, AnswersSound, Quoted, Built
<1> QED
  BY <1>1, <1>2, <1>3, <1>4

\* A handler that moves on to another wait, or fails to.
LEMMA WaitStep ==
  ASSUME IInv, NEW r \in Request, pc[r] \in Waiting,
         GuardPass(r) \/ GuardError(r) \/ AskFee(r),
         UNCHANGED <<keys, revoking, asked, keyOf, late>>
  PROVE  IInv'
<1> USE DEF IInv, GuardPass, GuardError, AskFee, Goto, Waiting
<1>1. TypeOK'
  BY DEF TypeOK
<1>2. AnsweredOnly' /\ RequestGiven' /\ FeeAwaitedForBuild'
  BY DEF TypeOK, AnsweredOnly, RequestGiven, FeeAwaitedForBuild
<1>3. GuardedHasRow' /\ LateStopped'
  BY DEF TypeOK, AnsweredOnly, NoReply, GuardedHasRow, LateStopped, Active
<1>4. AnswersSound'
  BY DEF TypeOK, AnswersSound, Quoted, Built
<1> QED
  BY <1>1, <1>2, <1>3, <1>4

\* A handler that answers an error.
LEMMA RefuseStep ==
  ASSUME IInv, NEW r \in Request, pc[r] \in Waiting,
         NEW code \in {400, 401, 403, 404, 429, 500}, Answer(r, code, None),
         UNCHANGED <<keys, revoking, asked, keyOf, late>>
  PROVE  IInv'
<1> USE DEF IInv, Answer, Waiting
<1>1. TypeOK'
  BY DEF TypeOK, Reply
<1>2. AnsweredOnly' /\ RequestGiven' /\ FeeAwaitedForBuild'
  BY DEF TypeOK, AnsweredOnly, RequestGiven, FeeAwaitedForBuild
<1>3. GuardedHasRow' /\ LateStopped'
  BY DEF TypeOK, GuardedHasRow, LateStopped
<1>4. AnswersSound'
  BY DEF TypeOK, AnswersSound, Quoted, Built
<1> QED
  BY <1>1, <1>2, <1>3, <1>4

\* A handler past the guard that answers with a sound body.
LEMMA ServeStep ==
  ASSUME IInv, NEW r \in Request, pc[r] \in {"limit", "fee"},
         NEW body \in QuoteBody \cup TxBody, Answer(r, 200, body),
         asked[r].kind = "quote" => SoundQuote(asked[r], body),
         asked[r].kind = "build" =>
           SoundTx(asked[r], body) /\ SoundFee(asked[r], keys[keyOf[r]], body.fee),
         UNCHANGED <<keys, revoking, asked, keyOf, late>>
  PROVE  IInv'
<1> USE DEF IInv, Answer, Waiting
<1>1. TypeOK'
  BY DEF TypeOK, Reply
<1>2. AnsweredOnly' /\ RequestGiven' /\ FeeAwaitedForBuild'
  BY DEF TypeOK, AnsweredOnly, RequestGiven, FeeAwaitedForBuild
<1>3. GuardedHasRow' /\ LateStopped'
  BY DEF TypeOK, GuardedHasRow, LateStopped
<1>4. AnswersSound'
  BY DEF TypeOK, AnswersSound, Quoted, Built
<1> QED
  BY <1>1, <1>2, <1>3, <1>4

LEMMA QuoteStep ==
  ASSUME IInv, NEW r \in Request, Quote(r),
         UNCHANGED <<keys, revoking, asked, keyOf, late>>
  PROVE  IInv'
<1>1. PICK quote \in QuotesFor(asked[r]) : Answer(r, 200, quote)
  BY DEF Quote
<1>2. pc[r] = "limit" /\ asked[r].kind = "quote" /\ asked[r] \in Ask
  BY AsksAssumption DEF Quote, IInv, RequestGiven, Waiting
<1>3. quote \in QuoteBody /\ SoundQuote(asked[r], quote)
  BY <1>2, QuotesAreSound
<1> QED
  BY <1>1, <1>2, <1>3, ServeStep

LEMMA BuildStep ==
  ASSUME IInv, NEW r \in Request, BuildAtFee(r) \/ BuildAtTier(r),
         UNCHANGED <<keys, revoking, asked, keyOf, late>>
  PROVE  IInv'
<1>1. /\ pc[r] \in {"limit", "fee"} /\ asked[r].kind = "build"
      /\ asked[r] \in Ask /\ keyOf[r] \in Prefix
      /\ keys[keyOf[r]] \in Row /\ keys[keyOf[r]].state # "absent"
  BY AsksAssumption DEF BuildAtFee, FeeGiven, BuildAtTier, IInv, TypeOK, RequestGiven,
     GuardedHasRow, FeeAwaitedForBuild, Waiting
<1>2. PICK fee \in Bps : AnswerBuild(r, fee) /\ SoundFee(asked[r], keys[keyOf[r]], fee)
  <2>1. CASE BuildAtFee(r)
    <3>1. asked[r].fee \in Bps /\ asked[r].fee # None
      BY <1>1, <2>1 DEF BuildAtFee, FeeGiven, Ask
    <3> QED
      BY <2>1, <3>1 DEF BuildAtFee, SoundFee
  <2>2. CASE BuildAtTier(r)
    <3>1. asked[r].fee = None
      BY <2>2 DEF BuildAtTier, IInv, FeeAwaitedForBuild
    <3>2. keys[keyOf[r]].tier \in Tiers /\ PartnerFee(keyOf[r]) \in Bps
      BY <1>1, FeesAreBps DEF PartnerFee, Row
    <3>3. SoundFee(asked[r], keys[keyOf[r]], PartnerFee(keyOf[r]))
      BY <1>1, <3>1 DEF PartnerFee, Active, SoundFee, Row
    <3> QED
      BY <2>2, <3>2, <3>3 DEF BuildAtTier
  <2> QED
    BY <2>1, <2>2
<1>3. CASE Encodable(asked[r])
  <2> DEFINE tx == Transaction(asked[r], fee)
  <2>1. tx \in TxBody /\ tx.fee = fee /\ SoundTx(asked[r], tx)
    BY <1>1, TransactionsAreSound DEF SoundTx
  <2>2. Answer(r, 200, tx)
    BY <1>2, <1>3 DEF AnswerBuild
  <2> HIDE DEF tx
  <2> QED
    BY <1>1, <1>2, <2>1, <2>2, ServeStep
<1>4. CASE ~Encodable(asked[r])
  BY <1>1, <1>2, <1>4, RefuseStep DEF AnswerBuild, Waiting
<1> QED
  BY <1>3, <1>4

LEMMA RecycleStep == IInv /\ Recycle => IInv'
<1> SUFFICES ASSUME IInv, Recycle
             PROVE  IInv'
  OBVIOUS
<1> USE DEF IInv, Recycle, Waiting
<1>1. TypeOK'
  BY DEF TypeOK
<1>2. /\ AnsweredOnly' /\ RequestGiven' /\ GuardedHasRow'
      /\ FeeAwaitedForBuild' /\ LateStopped'
  BY DEF TypeOK, AnsweredOnly, RequestGiven, GuardedHasRow, FeeAwaitedForBuild, LateStopped
<1>3. AnswersSound'
  BY DEF TypeOK, AnswersSound, Quoted, Built
<1> QED
  BY <1>1, <1>2, <1>3

LEMMA NextIInv == IInv /\ [Next]_vars => IInv'
<1> SUFFICES ASSUME IInv, [Next]_vars
             PROVE  IInv'
  OBVIOUS
<1>1. CASE UNCHANGED vars
  BY <1>1 DEF vars, IInv, TypeOK, AnsweredOnly, RequestGiven, GuardedHasRow,
     FeeAwaitedForBuild, LateStopped, AnswersSound, Quoted, Built
<1>2. ASSUME NEW r \in Request, Handler(r)
      PROVE  IInv'
  <2>1. UNCHANGED <<keys, revoking, asked, keyOf, late>>
    BY <1>2 DEF Handler
  <2>2. CASE GuardPass(r) \/ GuardError(r) \/ AskFee(r)
    BY <2>1, <2>2, WaitStep DEF GuardPass, GuardError, AskFee, Waiting
  <2>3. CASE \/ GuardUnknown(r) \/ LimitRefuse(r) \/ FeeError(r)
             \/ \E code \in {400, 403} : GuardRefuse(r, code)
             \/ \E code \in {400, 404} : Invalid(r, code)
    BY <2>1, <2>3, RefuseStep
    DEF GuardUnknown, LimitRefuse, FeeError, GuardRefuse, Invalid, Waiting
  <2>4. CASE Quote(r)
    BY <2>1, <2>4, QuoteStep
  <2>5. CASE BuildAtFee(r) \/ BuildAtTier(r)
    BY <2>1, <2>5, BuildStep
  <2> QED
    BY <1>2, <2>2, <2>3, <2>4, <2>5 DEF Handler
<1> QED
  BY <1>1, <1>2, GenerateStep, RevokeStep, ArriveStep, RecycleStep DEF Next

THEOREM IInvAlways == Spec => []IInv
<1> QED BY InitIInv, NextIInv, PTL DEF Spec

-----------------------------------------------------------------------------
(* Theorems *)

\* Every variable keeps its type; in particular every quote and transaction is
\* made of natural numbers and a fee of at most 10000 basis points.
THEOREM TypeCorrect == Spec => []TypeOK
<1>1. IInv => TypeOK
  BY DEF IInv
<1> QED BY <1>1, IInvAlways, PTL

\* No request that arrives after its key was revoked is served.
THEOREM RevocationIsFinal == Spec => []RevokedForGood
<1>1. IInv => RevokedForGood
  BY DEF IInv, LateStopped, RevokedForGood
<1> QED BY <1>1, IInvAlways, PTL

\* The fee follows the key's tier unless the key was revoked under way.
THEOREM FeesFollowKeys == Spec => []FeeOfKey
<1>1. IInv => FeeOfKey
  BY DEF IInv, AnswersSound, FeeOfKey, SoundFee
<1> QED BY <1>1, IInvAlways, PTL

\* For every amount, price and slippage: the minimum of a quote is the amount
\* less the slippage, rounded down to a whole unit and not further.
THEOREM MinimumsAreExact == Spec => []QuoteWithinSlippage
<1>1. IInv => QuoteWithinSlippage
  BY DEF IInv, AnswersSound, QuoteWithinSlippage, SoundQuote
<1> QED BY <1>1, IInvAlways, PTL

\* Value goes to the payable function only, and never more than is sold.
THEOREM ValueIsPayable == Spec => []ValueOnlyToPayable
<1>1. IInv => ValueOnlyToPayable
  BY DEF IInv, AnswersSound, ValueOnlyToPayable, SoundTx
<1> QED BY <1>1, IInvAlways, PTL
=============================================================================
