---------------------------- MODULE MCQuotaPool -----------------------------
(* A small instance of QuotaPool for TLC. *)
EXTENDS QuotaPool, TLC

\* One endpoint with a quota: a second one multiplies the states by six.
Paths == {"quote"}
Limits == [p \in Paths |-> 2]
Bundles == {1}
DbFault == {"db"}
=============================================================================
