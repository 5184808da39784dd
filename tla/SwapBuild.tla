----------------------------- MODULE SwapBuild -----------------------------
(***************************************************************************)
(* Requests for quotes and for swap transactions, from apiKeyGuard to the  *)
(* answer, while keys are created and revoked and the server is restarted. *)
(*                                                                         *)
(* A request reads api_keys twice, in the guard and again for the fee, and *)
(* waits for the rate limiter in between; an action is one such wait       *)
(* together with the code that runs until the next.  Keys are represented  *)
(* by their prefix, the unique column by which all code looks them up; the *)
(* key that the seed script puts back from TEST_KEY is left out.           *)
(***************************************************************************)
EXTENDS Routing

CONSTANTS Request,  \* requests that clients ever send
          Prefix,   \* key prefixes
          Asks      \* what the requests ask for

ASSUME AsksAssumption == Asks \subseteq Ask

VARIABLES
  keys,      \* api_keys: state and tier of the row of a prefix
  revoking,  \* prefixes that a revocation is about to write
  pc,        \* the wait a request stands at
  asked,     \* what it asks for
  keyOf,     \* the prefix of the key it carries
  late,      \* history: the key was revoked before the request arrived
  reply,     \* what it was answered
  server     \* the API process

vars == <<keys, revoking, pc, asked, keyOf, late, reply, server>>

Row == [state : {"absent", "active", "revoked"}, tier : Tiers]
Waiting == {"guard", "limit", "fee"}
NoReply == [code |-> 0, body |-> None]
Reply == [code : {0, 200, 400, 401, 403, 404, 429, 500},
          body : {None} \cup QuoteBody \cup TxBody]

TypeOK ==
  /\ keys \in [Prefix -> Row]
  /\ revoking \in SUBSET Prefix
  /\ pc \in [Request -> Waiting \cup {"idle", "hung", "answered", "dropped"}]
  /\ asked \in [Request -> Asks \cup {None}]
  /\ keyOf \in [Request -> Prefix \cup {None}]
  /\ late \in [Request -> BOOLEAN]
  /\ reply \in [Request -> Reply]
  /\ server \in {"up", "closing"}

Init ==
  /\ keys = [p \in Prefix |-> [state |-> "absent", tier |-> "free"]]
  /\ revoking = {}
  /\ pc = [r \in Request |-> "idle"]
  /\ asked = [r \in Request |-> None]
  /\ keyOf = [r \in Request |-> None]
  /\ late = [r \in Request |-> FALSE]
  /\ reply = [r \in Request |-> NoReply]
  /\ server = "up"

Active(p) == keys[p].state = "active"

Goto(r, wait) ==
  /\ pc' = [pc EXCEPT ![r] = wait]
  /\ UNCHANGED <<reply, server>>

Answer(r, code, body) ==
  /\ pc' = [pc EXCEPT ![r] = "answered"]
  /\ reply' = [reply EXCEPT ![r] = [code |-> code, body |-> body]]
  /\ UNCHANGED server

-----------------------------------------------------------------------------
(* Deliberate errors, each a plausible bug in a definition that follows.     *)

\* A new key overwrites the row that already has its prefix.
GenerateByUpsert(p, tier) ==
  /\ server = "up"
  /\ keys' = [keys EXCEPT ![p] = [state |-> "active", tier |-> tier]]
  /\ UNCHANGED <<revoking, pc, asked, keyOf, late, reply, server>>

\* The key is not cut to its prefix, so its row is never found.
PartnerFeeOfWholeKey(p) == DEFAULT_FEE_BPS

\* A fee that was not given is not looked up.
FeeGivenOrNot(r) == pc[r] = "limit" /\ asked[r].kind = "build"

-----------------------------------------------------------------------------
(* api_keys *)

\* createApiKey with persist: a random prefix, refused by the unique index if
\* it is taken.
Generate(p, tier) ==
  /\ server = "up"
  /\ keys[p].state = "absent"
  /\ keys' = [keys EXCEPT ![p] = [state |-> "active", tier |-> tier]]
  /\ UNCHANGED <<revoking, pc, asked, keyOf, late, reply, server>>

\* authMiddleware has let the caller in by its own key, or by TEST_KEY; the
\* prefix to be revoked comes from the body and is not looked up.
RevokeByKey(p) ==
  /\ server = "up"
  /\ revoking' = revoking \cup {p}
  /\ UNCHANGED <<keys, pc, asked, keyOf, late, reply, server>>

\* revokeKeyByUser finds the row and its owner.
RevokeByOwner(p) ==
  /\ keys[p].state # "absent"
  /\ RevokeByKey(p)

\* The other keys stay as they are, and so does a prefix without a row.
RevokeWrite(p) ==
  /\ p \in revoking
  /\ revoking' = revoking \ {p}
  /\ keys' = [keys EXCEPT ![p].state = IF @ = "absent" THEN @ ELSE "revoked"]
  /\ UNCHANGED <<pc, asked, keyOf, late, reply, server>>

\* The write failed and was not committed; one that was is a RevokeWrite.
RevokeError(p) ==
  /\ p \in revoking
  /\ revoking' = revoking \ {p}
  /\ UNCHANGED <<keys, pc, asked, keyOf, late, reply, server>>

-----------------------------------------------------------------------------
(* apiKeyGuard, rateLimiter *)

Arrive(r, p, ask) ==
  /\ server = "up"
  /\ pc[r] = "idle"
  /\ Goto(r, "guard")
  /\ asked' = [asked EXCEPT ![r] = ask]
  /\ keyOf' = [keyOf EXCEPT ![r] = p]
  /\ late' = [late EXCEPT ![r] = keys[p].state = "revoked"]
  /\ UNCHANGED <<keys, revoking>>

GuardPass(r) ==
  /\ pc[r] = "guard"
  /\ Active(keyOf[r])
  /\ Goto(r, "limit")

GuardUnknown(r) ==
  /\ pc[r] = "guard"
  /\ ~Active(keyOf[r])
  /\ Answer(r, 401, None)

\* The key's whitelists; an address or an origin that cannot be read.
GuardRefuse(r, code) ==
  /\ pc[r] = "guard"
  /\ Active(keyOf[r])
  /\ Answer(r, code, None)

\* getPolicy fails: the middleware's promise is rejected with nobody awaiting
\* it; the request is never answered and unhandledRejection ends the process.
GuardError(r) ==
  /\ pc[r] = "guard"
  /\ pc' = [pc EXCEPT ![r] = "hung"]
  /\ server' = "closing"
  /\ UNCHANGED reply

\* No token or no credit.
LimitRefuse(r) ==
  /\ pc[r] = "limit"
  /\ Answer(r, 429, None)

-----------------------------------------------------------------------------
(* The routes: validation, GetQuoteUseCase, BuildTransactionUseCase *)

\* The input, the chain or a token is not accepted.
Invalid(r, code) ==
  /\ pc[r] = "limit"
  /\ Answer(r, code, None)

Quote(r) ==
  /\ pc[r] = "limit"
  /\ asked[r].kind = "quote"
  /\ \E quote \in QuotesFor(asked[r]) : Answer(r, 200, quote)

AnswerBuild(r, fee) ==
  IF Encodable(asked[r]) THEN Answer(r, 200, Transaction(asked[r], fee))
                         ELSE Answer(r, 500, None)

FeeGiven(r) ==
  /\ pc[r] = "limit"
  /\ asked[r].kind = "build"
  /\ asked[r].fee # None

BuildAtFee(r) ==
  /\ FeeGiven(r)
  /\ AnswerBuild(r, asked[r].fee)

AskFee(r) ==
  /\ pc[r] = "limit"
  /\ asked[r].kind = "build"
  /\ asked[r].fee = None
  /\ Goto(r, "fee")

\* getPartnerFee: only a row that is not revoked counts.
PartnerFee(p) == IF Active(p) THEN TierFee(keys[p].tier) ELSE DEFAULT_FEE_BPS

BuildAtTier(r) ==
  /\ pc[r] = "fee"
  /\ AnswerBuild(r, PartnerFee(keyOf[r]))

FeeError(r) ==
  /\ pc[r] = "fee"
  /\ Answer(r, 500, None)

-----------------------------------------------------------------------------
\* The process is killed, or ends by itself, and is started again: open
\* connections are cut, revocations under way are lost.
Recycle ==
  /\ server' = "up"
  /\ pc' = [r \in Request |->
              IF pc[r] \in Waiting \cup {"hung"} THEN "dropped" ELSE pc[r]]
  /\ revoking' = {}
  /\ UNCHANGED <<keys, asked, keyOf, late, reply>>

Handler(r) ==
  /\ \/ GuardPass(r) \/ GuardUnknown(r) \/ GuardError(r)
     \/ \E code \in {400, 403} : GuardRefuse(r, code)
     \/ LimitRefuse(r)
     \/ \E code \in {400, 404} : Invalid(r, code)
     \/ Quote(r) \/ BuildAtFee(r) \/ AskFee(r) \/ BuildAtTier(r) \/ FeeError(r)
  /\ UNCHANGED <<keys, revoking, asked, keyOf, late>>

Next ==
  \/ \E p \in Prefix, tier \in Tiers : Generate(p, tier)
  \/ \E p \in Prefix : RevokeByKey(p) \/ RevokeByOwner(p) \/ RevokeWrite(p) \/ RevokeError(p)
  \/ \E r \in Request, p \in Prefix, ask \in Asks : Arrive(r, p, ask)
  \/ \E r \in Request : Handler(r)
  \/ Recycle

Spec == Init /\ [][Next]_vars

-----------------------------------------------------------------------------
(* Properties *)

Quoted(r) == reply[r].code = 200 /\ asked[r].kind = "quote"
Built(r)  == reply[r].code = 200 /\ asked[r].kind = "build"

\* A revocation is final: a request that arrives after it took effect gets
\* neither a quote nor a transaction, however often keys are created later.
RevokedForGood ==
  \A r \in Request : late[r] => reply[r].code # 200

\* The fee of a transaction is the client's own or that of its key's tier; the
\* default is charged only if the key was revoked after the guard let it pass
\* (getPartnerFee reads the row again).
FeeOfKey ==
  \A r \in Request : Built(r) =>
    LET row == keys[keyOf[r]] IN
      \/ asked[r].fee # None /\ reply[r].body.fee = asked[r].fee
      \/ asked[r].fee = None /\ reply[r].body.fee = TierFee(row.tier)
      \/ asked[r].fee = None /\ reply[r].body.fee = DEFAULT_FEE_BPS /\ row.state = "revoked"

\* The minimum of a quote lies below its amount by no less than the slippage
\* asked for, half a percent if none was, and by less than one unit more: it is
\* the amount less the slippage, rounded down.
QuoteWithinSlippage ==
  \A r \in Request : Quoted(r) =>
    LET q == reply[r].body
        bps == IF asked[r].slippage > 0 THEN asked[r].slippage ELSE 50
    IN  /\ q.out * bps <= (q.out - q.min) * 10000
        /\ (q.out - q.min) * 10000 < q.out * bps + 10000

\* A transaction carries value exactly if the function it calls is payable, and
\* value and approval together are never more than the amount to be sold.
ValueOnlyToPayable ==
  \A r \in Request : Built(r) =>
    LET tx == reply[r].body IN
      /\ tx.value > 0 <=> tx.call = "swapNoSplitFromPLS"
      /\ tx.value + tx.approved <= asked[r].amount

\* openapi/swap.yaml: `value` is the "Native token value to send (in wei), e.g.
\* for ETH swaps", and smartRouter.ts: "No approval needed for native tokens".
NativeIsSentAsValue ==
  \A r \in Request : Built(r) /\ asked[r].sell \in Native =>
    reply[r].body.value = asked[r].amount /\ reply[r].body.approved = 0
=============================================================================
