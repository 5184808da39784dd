--------------------------- MODULE MCProvisioning ---------------------------
(* A small instance of Provisioning for TLC. *)
EXTENDS Provisioning, FiniteSets, TLC

\* A path without placeholders, one with, and one that is not seeded.
Endpoints == {"/chains", "/chains/{id}/tokens"}
Paths == {"/chains", "/chains/1/tokens", "/billing"}
Fits == [p \in Paths |-> CASE p = "/chains" -> {"/chains"}
                           [] p = "/chains/1/tokens" -> {"/chains/{id}/tokens"}
                           [] OTHER -> {}]
Tiers == {"free"}
TierNames == {"free", "developer"}
Links == {<<"1", "0xA0">>}

Count(A) == <<Cardinality(A \cap Request), Cardinality(A \cap Script),
              Cardinality(A \cap Admin), Cardinality(A \cap Reader)>>

\* Three requests; two and two runs of the script; or two runs of the seeds and
\* a reader.
Crowds == {<<3, 0, 0, 0>>, <<2, 2, 0, 0>>, <<0, 1, 1, 1>>, <<0, 2, 0, 1>>}
Everyone == Request \cup Seeder \cup Reader
Companies == {A \in SUBSET Everyone : Count(A) \in Crowds}

\* Requests, runs, readers and wallets are interchangeable.
Symmetry == Permutations(Request) \cup Permutations(Script)
              \cup Permutations(Wallet)
=============================================================================
