---------------------------- MODULE MCSwapBuild ----------------------------
(* Small instances of SwapBuild for TLC. *)
EXTENDS SwapBuild, TLC

Symmetry == Permutations(Request)

Tokens == {"dai"}
Prices == [c \in Native \cup Tokens |-> CASE c = "eth" -> 7 [] c = "pls" -> 1 [] OTHER -> 3]
Variances == {970, 1019}
Improvements == {1020, 1039}

\* Slippages at both ends, one that rounds, and none.
QuoteAsks ==
  {[kind |-> "quote", sell |-> "eth", buy |-> "dai", amount |-> 1000,
    strategy |-> s[1], slippage |-> s[2],
    fee |-> None, route |-> None, recipient |-> "wallet"] :
      s \in {<<"fast", 0>>, <<"fast", 10000>>, <<"best", 33>>}}

BuildAsks ==
  {[kind |-> "build", sell |-> b[1], buy |-> "matic", amount |-> 5,
    strategy |-> "best", slippage |-> 0,
    fee |-> b[2], route |-> b[3], recipient |-> b[4]] :
      b \in {<<"pls", None, "NOSPLIT", "wallet">>, <<"pls", 0, None, "wallet">>,
             <<"pulse", None, "NOSPLIT", "wallet">>, <<"dai", 0, "SPLIT", "wallet">>,
             <<"dai", None, "malformed", "wallet">>, <<"dai", 0, None, "other">>}}

AllAsks == QuoteAsks \cup BuildAsks
=============================================================================
