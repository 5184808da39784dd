------------------------------ MODULE SeedRuns ------------------------------
(***************************************************************************)
(* What Catalogue and Partners have in common: the runs of the seed script *)
(* (npm run seed), the calls of POST /v1/admin/seed, and the partners the  *)
(* script writes.                                                          *)
(***************************************************************************)
CONSTANTS Script,        \* runs of the script
          Admin,         \* calls of admin/seed
          SeedWallet,    \* wallets of ensurePartners
          None

Seeder == Script \cup Admin

ASSUME SeederAssumption == Script \cap Admin = {} /\ None \notin Seeder
=============================================================================
