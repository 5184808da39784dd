----------------------------- MODULE Catalogue ------------------------------
(***************************************************************************)
(* The tables that say what the service offers - tiers, endpoints and      *)
(* their quotas, chains, tokens, adapters - written by runs of the seed    *)
(* script and of POST /v1/admin/seed, and read by requests: the quota      *)
(* lookups of consumeCredit and GET /v1/chains/:chainId/adapters.          *)
(*                                                                         *)
(* A row is its table and its key, and only its presence counts: both      *)
(* seeds write the same constants into it.  Nothing ever deletes one.  A   *)
(* run writes row after row, each with a call of its own and no            *)
(* transaction around them, and ends with the first call that fails.       *)
(* Within one table the order of the loop is left open.                    *)
(***************************************************************************)
EXTENDS SeedRuns, Naturals

CONSTANTS Reader,            \* requests that look something up
          Tier, Endpoint, Chain, Token,
          Link,              \* chain_tokens: a chain and an address on it
          TestKey,           \* TEST_KEY of the environment, or None
          TierName,          \* tiers that keys carry, seeded or not
          Path,              \* paths that requests carry
          Matches            \* endpoints whose {placeholders} a path fits

ASSUME PathAssumption ==
  /\ Matches \in [Path -> SUBSET Endpoint]
  /\ \A p \in Path \cap Endpoint : p \in Matches[p]
ASSUME EndpointAssumption == None \notin Endpoint
ASSUME LinkAssumption == \A l \in Link : l[1] \in Chain

-----------------------------------------------------------------------------
(* What a run writes *)

Rows(table, keys) == {table} \X keys

\* Tiers, endpoints and the quota and rate limit of every pair of them.
Offer ==
  Rows("tier", Tier) \cup Rows("endpoint", Endpoint)
    \cup Rows("config", Tier \X Endpoint)

\* generateApiKey makes a new key, unless the environment names one.
KeyOf(s) == IF TestKey = None THEN s ELSE TestKey

\* One adapter per chain in the script (infura, polygon-rpc), two by admin/seed.
Adapters(s) ==
  Rows("adapter", Chain \X (IF s \in Script THEN {"own"}
                                            ELSE {"primary_rpc", "backup_rpc"}))

Plan == [s \in Seeder |->
  Offer \cup Adapters(s) \cup
  (IF s \in Script
     THEN Rows("user", {"admin"}) \cup Rows("key", {KeyOf(s)})
            \cup Rows("chain", Chain) \cup Rows("token", Token)
            \cup Rows("link", Link) \cup Rows("partner", SeedWallet)
     ELSE {})]

Row == UNION {Plan[s] : s \in Seeder}

\* The rows that the foreign keys of a row point to.  A link's token_id is left
\* out: it is written only if the lookup just before has found the token.
RefersTo(x) ==
  CASE x[1] = "key" -> Rows("user", {"admin"})
    [] x[1] = "config" -> {<<"tier", x[2][1]>>, <<"endpoint", x[2][2]>>}
    [] x[1] \in {"link", "adapter"} -> {<<"chain", x[2][1]>>}
    [] OTHER -> {}

\* The order in which a run comes to the tables.
Stage ==
  [user |-> 1, key |-> 2, tier |-> 3, endpoint |-> 4, config |-> 5, chain |-> 6,
   token |-> 7, link |-> 8, adapter |-> 9, partner |-> 10]

-----------------------------------------------------------------------------
VARIABLES present,   \* rows in the database, partners aside
          phase,     \* of a run: "idle", "running", "ok", "failed"
          done,      \* rows it has written
          found,     \* what ensureTokens found before it writes: a row or none
          ask,       \* what a reader looks up
          at,        \* the lookup it waits for
          hit,       \* the endpoint its path led to
          reply,     \* what it came to
          since      \* history: the runs that had succeeded when it began

seeds   == <<present, phase, done, found>>
lookups == <<ask, at, hit, reply, since>>

Quota == [do : {"quota"}, path : Path, tier : TierName]
Listing == [do : {"adapters"}, chain : Chain]

CatalogueTypeOK ==
  /\ present \subseteq Row
  /\ phase \in [Seeder -> {"idle", "running", "ok", "failed"}]
  /\ done \in [Seeder -> SUBSET Row]
  /\ found \in [Seeder -> {"unknown", "row", "none"}]
  /\ ask \in [Reader -> Quota \cup Listing \cup {None}]
  /\ at \in [Reader -> {"idle", "exact", "pattern", "tier", "config",
                        "chain", "adapters", "end"}]
  /\ hit \in [Reader -> Endpoint \cup {None}]
  /\ reply \in [Reader -> [is : {"pending", "limited", "unlimited", "rows", "failed"},
                           rows : SUBSET Row]]
  /\ since \in [Reader -> SUBSET Seeder]

Nothing == [is |-> "pending", rows |-> {}]

CatalogueInit ==
  /\ present = {}
  /\ phase = [s \in Seeder |-> "idle"]
  /\ done = [s \in Seeder |-> {}]
  /\ found = [s \in Seeder |-> "unknown"]
  /\ ask = [q \in Reader |-> None]
  /\ at = [q \in Reader |-> "idle"]
  /\ hit = [q \in Reader |-> None]
  /\ reply = [q \in Reader |-> Nothing]
  /\ since = [q \in Reader |-> {}]

-----------------------------------------------------------------------------
(* Runs of the seeds *)

StartSeed(s) ==
  /\ phase[s] = "idle"
  /\ phase' = [phase EXCEPT ![s] = "running"]
  /\ UNCHANGED <<present, done, found, lookups>>

\* Deliberate error: the tables are filled in no particular order.
DueAnyOrder(s) == {x \in Plan[s] \ done[s] : phase[s] = "running"}

\* The rows a run may come to now: those left of the first table not finished.
Due(s) ==
  {x \in Plan[s] \ done[s] :
     phase[s] = "running"
     /\ \A y \in Plan[s] \ done[s] : Stage[x[1]] <= Stage[y[1]]}

\* After its last row the run reports success: exit status 0, or {ok: true}.
Written(s, x) ==
  /\ done' = [done EXCEPT ![s] = @ \cup {x}]
  /\ phase' = [phase EXCEPT ![s] = IF Plan[s] \subseteq done'[s] THEN "ok" ELSE @]
  /\ found' = [found EXCEPT ![s] = "unknown"]
  /\ UNCHANGED lookups

\* Exit status 1, or 500 seed_failed.  What was written stays.
Broken(s) ==
  /\ phase' = [phase EXCEPT ![s] = "failed"]
  /\ UNCHANGED <<done, found, lookups>>

\* The chain of an adapter is read before the adapter is written; the script
\* has just made sure of its chains, admin/seed takes them from chainService.
ChainKnown(x) == x[1] = "adapter" => <<"chain", x[2][1]>> \in present

-----------------------------------------------------------------------------
(* Deliberate errors.  Each is a plausible bug in one of the definitions     *)
(* that follow, with which one of the properties no longer holds.            *)

\* A call that fails is logged and the loop goes on.
FailTolerated(s, x) ==
  /\ present' \in {present, present \cup {x}}
  /\ Written(s, x)

\* Quotas are refreshed by deleting those of the tier and inserting them anew.
UpsertByReplacing(s, x) ==
  /\ x[1] \notin {"token", "partner"}
  /\ ChainKnown(x)
  /\ present' = {x} \cup {y \in present : ~(x[1] = "config" /\ y[1] = "config"
                                            /\ x[2][1] = y[2][1] /\ y \notin done[s])}
  /\ Written(s, x)

-----------------------------------------------------------------------------
Upsert(s, x) ==
  /\ x[1] \notin {"token", "partner"}
  /\ ChainKnown(x)
  /\ present' = present \cup {x}
  /\ Written(s, x)

\* upsertAdapter throws "Chain not found".
ChainMissing(s, x) ==
  /\ x[1] = "adapter" /\ ~ChainKnown(x)
  /\ Broken(s)
  /\ UNCHANGED present

\* ensureTokens: two lookups, by coingecko id and by symbol, of which the second
\* decides, then an update or an insert.
FindToken(s, x) ==
  /\ x[1] = "token" /\ found[s] = "unknown"
  /\ found' = [found EXCEPT ![s] = IF x \in present THEN "row" ELSE "none"]
  /\ UNCHANGED <<present, phase, done, lookups>>

WriteToken(s, x) ==
  /\ x[1] = "token"
  /\ \/ found[s] = "row"
     \/ found[s] = "none" /\ x \notin present
  /\ present' = present \cup {x}
  /\ Written(s, x)

\* Another run inserted it in between; (symbol, coingecko_id) is unique.
TokenCollides(s, x) ==
  /\ x[1] = "token"
  /\ found[s] = "none" /\ x \in present
  /\ Broken(s)
  /\ UNCHANGED present

\* The partners are in a table of their own; see Provisioning.
PartnerWritten(s, w) ==
  /\ <<"partner", w>> \in Due(s)
  /\ Written(s, <<"partner", w>>)
  /\ UNCHANGED present

\* The process is killed, or a call fails: a read, or a write with or without
\* effect.
FailSeed(s, x) ==
  /\ \/ present' = present
     \/ /\ x[1] # "partner" /\ ChainKnown(x)
        /\ x[1] = "token" => found[s] = "none"
        /\ present' = present \cup {x}
  /\ Broken(s)

SeedStep(s) ==
  \/ StartSeed(s)
  \/ \E x \in Due(s) :
       \/ Upsert(s, x) \/ ChainMissing(s, x) \/ FailSeed(s, x)
       \/ FindToken(s, x) \/ WriteToken(s, x) \/ TokenCollides(s, x)

-----------------------------------------------------------------------------
(* Lookups *)

\* A reader begins at l, knowing which runs have reported success.
BeginLookup(q, a, l) ==
  /\ at[q] = "idle"
  /\ ask' = [ask EXCEPT ![q] = a]
  /\ at' = [at EXCEPT ![q] = l]
  /\ since' = [since EXCEPT ![q] = {s \in Seeder : phase[s] = "ok"}]
  /\ UNCHANGED <<hit, reply, seeds>>

AskQuota(q) == \E a \in Quota : BeginLookup(q, a, "exact")
AskAdapters(q) == \E a \in Listing : BeginLookup(q, a, "chain")

Look(q, to) ==
  /\ at' = [at EXCEPT ![q] = to]
  /\ UNCHANGED <<ask, reply, since, seeds>>

Settle(q, is, rows) ==
  /\ at' = [at EXCEPT ![q] = "end"]
  /\ reply' = [reply EXCEPT ![q] = [is |-> is, rows |-> rows]]
  /\ UNCHANGED <<ask, hit, since, seeds>>

\* getEndpointByPathMethod: the path itself, then the patterns of the method.
Exact(q) ==
  /\ at[q] = "exact"
  /\ LET p == ask[q].path IN
     IF p \in Endpoint /\ <<"endpoint", p>> \in present
       THEN Look(q, "tier") /\ hit' = [hit EXCEPT ![q] = p]
       ELSE Look(q, "pattern") /\ hit' = hit

Candidates(q) == {e \in Matches[ask[q].path] : <<"endpoint", e>> \in present}

\* Deliberate error: what the pattern fits is taken for the endpoint.
PatternNamesPath(q) ==
  /\ at[q] = "pattern"
  /\ \/ /\ Candidates(q) # {}
        /\ Look(q, "tier") /\ hit' = [hit EXCEPT ![q] = ask[q].path]
     \/ Candidates(q) = {} /\ Settle(q, "unlimited", {})

Pattern(q) ==
  /\ at[q] = "pattern"
  /\ \/ \E e \in Candidates(q) :
          Look(q, "tier") /\ hit' = [hit EXCEPT ![q] = e]
     \/ Candidates(q) = {} /\ Settle(q, "unlimited", {})

TierOf(q) ==
  /\ at[q] = "tier"
  /\ IF <<"tier", ask[q].tier>> \in present
       THEN Look(q, "config") /\ hit' = hit
       ELSE Settle(q, "unlimited", {})

\* getTierEndpointConfig; a quota of 0 or none at all limits nothing.
Config(q) ==
  /\ at[q] = "config"
  /\ LET x == <<"config", <<ask[q].tier, hit[q]>>>> IN
     IF x \in present THEN Settle(q, "limited", {x})
                      ELSE Settle(q, "unlimited", {})

\* listAdaptersForChain: the chain, then its adapters.
ChainOf(q) ==
  /\ at[q] = "chain"
  /\ IF <<"chain", ask[q].chain>> \in present
       THEN Look(q, "adapters") /\ hit' = hit
       ELSE Settle(q, "rows", {})

AdaptersOf(q) ==
  /\ at[q] = "adapters"
  /\ Settle(q, "rows",
            {x \in present : x[1] = "adapter" /\ x[2][1] = ask[q].chain})

LookupFails(q) ==
  /\ at[q] \notin {"idle", "end"}
  /\ Settle(q, "failed", {})

LookupStep(q) ==
  \/ AskQuota(q) \/ AskAdapters(q)
  \/ Exact(q) \/ Pattern(q) \/ TierOf(q) \/ Config(q)
  \/ ChainOf(q) \/ AdaptersOf(q) \/ LookupFails(q)
=============================================================================
