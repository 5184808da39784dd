---------------------------- MODULE Provisioning ----------------------------
(***************************************************************************)
(* Setting the service up while it runs: the seed script and admin/seed    *)
(* (Catalogue), the handlers of partners (Partners), whose table the       *)
(* script writes too, and the requests that look the results up.  Which    *)
(* actors take part is chosen at the start.                                *)
(***************************************************************************)
EXTENDS Partners, Catalogue

CONSTANT Casts       \* sets of actors that may take part together

VARIABLE cast

vars == <<cast, partners, seeds, lookups>>

Init ==
  /\ cast \in Casts
  /\ PartnersInit
  /\ CatalogueInit

\* ensurePartners: the upsert, and the place of the run in its plan.
EnsurePartner(s, w) ==
  /\ PartnerWritten(s, w)
  /\ Ensure(s, w)

\* The same call, its answer lost.
EnsurePartnerLost(s, w) ==
  /\ <<"partner", w>> \in Due(s)
  /\ Broken(s)
  /\ Ensure(s, w)
  /\ UNCHANGED present

RequestStep(r) ==
  /\ (\E o \in Operation : Begin(r, o)) \/ Handle(r)
  /\ UNCHANGED <<seeds, lookups>>

Next ==
  /\ UNCHANGED cast
  /\ \/ \E r \in Request \cap cast : RequestStep(r)
     \/ \E s \in Seeder \cap cast : SeedStep(s) /\ UNCHANGED partners
     \/ \E s \in Script \cap cast, w \in SeedWallet :
          EnsurePartner(s, w) \/ EnsurePartnerLost(s, w)
     \/ \E q \in Reader \cap cast : LookupStep(q) /\ UNCHANGED partners

Spec == Init /\ [][Next]_vars

-----------------------------------------------------------------------------
(* Properties *)

TypeOK == PartnersTypeOK /\ CatalogueTypeOK

\* Each request on partners takes effect at one instant and its answer is true
\* of that instant: 200 if the change was made, once; 409 only if another row
\* has the wallet; 404 only if the row is not there.  Neither the two calls of
\* create and update, nor failing calls, nor the script writing into the same
\* table shows through.
ImplementsRegistry == Registry!Spec

\* A row is there only with the rows its foreign keys point to, wherever a run of
\* either seed has broken off and whichever run wrote which of them.
ReferencesHold == \A x \in present : RefersTo(x) \subseteq present

\* Once a run of either seed has reported success, no request is let through
\* unlimited because its endpoint, its tier or their quota is not found, while
\* other runs begin, break off or start over.
SeededIsLimited ==
  \A q \in Reader :
    /\ reply[q].is = "unlimited"
    /\ ask[q].tier \in Tier
    /\ Matches[ask[q].path] # {}
    => since[q] = {}

\* A list of the adapters of a chain holds all of those that a run which has
\* reported success has set up, and none of another chain.
AdaptersListed ==
  \A q \in Reader :
    reply[q].is = "rows" =>
      /\ \A s \in since[q] :
           {x \in Adapters(s) : x[2][1] = ask[q].chain} \subseteq reply[q].rows
      /\ \A x \in reply[q].rows : x[2][1] = ask[q].chain
=============================================================================
