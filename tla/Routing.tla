------------------------------ MODULE Routing ------------------------------
(***************************************************************************)
(* The pure part of quotes and of transaction building: SmartRouter, the   *)
(* fee policy, and what the two use cases make of their input.             *)
(*                                                                         *)
(* No router contract is deployed at this commit, so every quote comes     *)
(* from the simulated adapters.  Their random factors, and those of the    *)
(* simulated routing, are thousandths drawn from Variance and Improvement; *)
(* JavaScript's doubles are taken as exact.  An address is a member of     *)
(* Token, a native currency its lower-case symbol, an absent field None.   *)
(***************************************************************************)
EXTENDS Integers

CONSTANTS Token,        \* ERC-20 addresses
          Price,        \* MOCK_RATES, scaled to integers
          Variance,     \* factors of an adapter, in [0.97, 1.02)
          Improvement,  \* gain of a route over one adapter, in [1.02, 1.04)
          None

\* NATIVE_SYMBOLS, nativeSymbols and toAddress know four of them,
Native == {"eth", "pls", "matic", "pulse"}
\* isNativeIn three.
PaidInValue == {"eth", "pls", "matic"}

Coin == Native \cup Token
Strategies == {"fast", "nosplit", "best", "split", "converge"}
RouteTypes == {"NOSPLIT", "SPLIT", "CONVERGE"}
Bps == 0..10000

ASSUME TokenAssumption == Native \cap Token = {}
ASSUME PriceAssumption == Price \in [Coin -> Nat \ {0}]
ASSUME FactorAssumption == Variance \subseteq 970..1019 /\ Improvement \subseteq 1020..1039
ASSUME AbsentAssumption == None \notin Bps /\ None \notin RouteTypes /\ None \notin Coin

\* What a client may ask for.  A slippage that is absent and one of zero are
\* treated alike; a route that no encoder accepts is "malformed", and so is one
\* that comes with a fee or deadline that is not whole; a recipient that is
\* missing or a symbol is "other" than a wallet.
Ask == [kind : {"quote", "build"},
        sell : Coin, buy : Coin, amount : Nat \ {0},
        strategy : Strategies, slippage : Bps,
        fee : Bps \cup {None},
        route : RouteTypes \cup {"malformed", None},
        recipient : {"wallet", "other"}]

QuoteBody == [route : RouteTypes, out : Nat, min : Nat]
TxBody == [call : {"swapNoSplit", "swapNoSplitFromPLS",
                   "executeSplitSwap", "executeConvergeSwap"},
           value : Nat, approved : Nat, fee : Bps]

-----------------------------------------------------------------------------
(* Deliberate errors, each a plausible bug in a definition that follows.     *)

\* The division comes first.
MinOutDividedFirst(out, bps) == (out \div 10000) * (10000 - bps)

\* Only a slippage that was asked for is taken off.
AmountOutMinNoDefault(out, slippage) == (out * (10000 - slippage)) \div 10000

\* Native currency is sent along with every kind of route.
ValueOnEveryRoute(type, sell, amount) ==
  IF sell \in PaidInValue THEN amount ELSE 0

-----------------------------------------------------------------------------
(* Quotes *)

MinOut(out, bps) == (out * (10000 - bps)) \div 10000

\* getBestQuote allows half a percent; the use case overrides it if asked to.
AmountOutMin(out, slippage) ==
  IF slippage > 0 THEN MinOut(out, slippage) ELSE (out * 995) \div 1000

\* The best of the simulated adapters may have drawn any factor.
SingleOuts(ask) ==
  {(ask.amount * Price[ask.sell] * v) \div (1000 * Price[ask.buy]) : v \in Variance}

\* One adapter only, or a route that is said to do better.
BestOuts(ask) ==
  IF ask.strategy \in {"fast", "nosplit"}
  THEN SingleOuts(ask)
  ELSE {(out * f) \div 1000 : out \in SingleOuts(ask), f \in Improvement}

QuotesFor(ask) ==
  {[route |-> IF ask.strategy \in {"fast", "nosplit"} THEN "NOSPLIT" ELSE "CONVERGE",
    out |-> out, min |-> AmountOutMin(out, ask.slippage)] : out \in BestOuts(ask)}

-----------------------------------------------------------------------------
(* Transactions *)

\* Without a route the best quote's is taken, which is a CONVERGE.
RouteType(ask) == IF ask.route = None THEN "CONVERGE" ELSE ask.route

\* buildSwap throws on a recipient that is no address and on a route of unknown
\* type or with fields missing.
Encodable(ask) == ask.recipient = "wallet" /\ RouteType(ask) \in RouteTypes

Call(type, sell) ==
  IF type = "NOSPLIT"
  THEN IF sell \in PaidInValue THEN "swapNoSplitFromPLS" ELSE "swapNoSplit"
  ELSE IF type = "SPLIT" THEN "executeSplitSwap" ELSE "executeConvergeSwap"

Value(type, sell, amount) ==
  IF type = "NOSPLIT" /\ sell \in PaidInValue THEN amount ELSE 0

\* The amount the router is to be approved for.
Approval(sell, amount) == IF sell \in PaidInValue THEN 0 ELSE amount

Transaction(ask, fee) ==
  [call |-> Call(RouteType(ask), ask.sell),
   value |-> Value(RouteType(ask), ask.sell, ask.amount),
   approved |-> Approval(ask.sell, ask.amount),
   fee |-> fee]

-----------------------------------------------------------------------------
(* Fees *)

TIER_FEE_BPS == [free |-> 30, developer |-> 25, pro |-> 20]
DEFAULT_FEE_BPS == 25

\* Tiers are free text; "other" stands for those without a fee of their own.
Tiers == DOMAIN TIER_FEE_BPS \cup {"other"}

TierFee(tier) ==
  IF tier \in DOMAIN TIER_FEE_BPS THEN TIER_FEE_BPS[tier] ELSE DEFAULT_FEE_BPS
=============================================================================
