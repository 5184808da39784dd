--------------------------- MODULE MCQuotaConsume ---------------------------
(* Small instances of QuotaConsume for TLC. *)
EXTENDS QuotaConsume, TLC

\* Handlers are interchangeable.
Symmetry == Permutations(Handler)

\* Two endpoints with quotas of their own and one without.
Paths == {"quote", "swap", "billing"}
Limits == [p \in Paths |-> CASE p = "quote" -> 2 [] p = "swap" -> 1 [] OTHER -> 0]
Bundles == {1, 2}
DbFault == {"db"}
=============================================================================
