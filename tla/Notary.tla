------------------------------- MODULE Notary -------------------------------
(***************************************************************************)
(* The notary's query path (internal/keys/notary*.go, storage*.go,         *)
(* trustpolicy*.go): memory cache, database row, one shared fetch per      *)
(* server, refetch for a longer validity, and responses replicated by      *)
(* other nodes of the cluster.                                             *)
(*                                                                         *)
(* Caches, rows and fetches are keyed by server name; the model follows    *)
(* one origin server, which rotates its keys.  A response is the version   *)
(* of the keys and the time `left` until valid_until_ts, which Tick        *)
(* decreases wherever the response is kept; 0 is expired.                  *)
(***************************************************************************)
EXTENDS Integers, FiniteSets, FiniteSetsExt

CONSTANTS Query,            \* goroutines inside QueryKeys
          Long,             \* those whose minimum_valid_until_ts needs a full Lifetime
          Lifetime,         \* validity of a response that the origin gives out
          CacheTTL,         \* cacheTTLHours
          MaxKeyAge,        \* maxKeyAgeHours of the trust policy
          MaxRotations,     \* bound: key rotations of the origin
          MaxFailures,      \* bound: failed fetches and database operations
          MaxReplicas       \* bound: responses sent by other nodes

Nobody == "nobody"

ASSUME NotaryAssumption ==
    /\ Nobody \notin Query
    /\ {Lifetime, CacheTTL, MaxKeyAge} \subseteq Nat \ {0}
    /\ Long \subseteq Query
    /\ {MaxRotations, MaxFailures, MaxReplicas} \subseteq Nat

Version == 1 .. MaxRotations + 1
Response == [ver : Version, left : 0 .. Lifetime]
Nothing == [ver |-> 0, left |-> 0]

VARIABLES
    cache,      \* n.cache: a response and the time `ttl` until the entry's validUntil
    row,        \* server_key_responses
    flight,     \* fetchGroup: the query that fetches, or Nobody
    query,      \* [Query -> where the goroutine is]
    replicas,   \* replicated responses not yet delivered
    applied,    \* those in the row and not yet in the memory cache
    origin,     \* version the origin serves
    retired,    \* the longest validity left in responses with the version before
    served,     \* the version returned last, to anybody, and where an expired one came from
    failures, replicated

dataVars  == <<cache, row>>
envVars   == <<replicas, applied, origin, retired>>
countVars == <<failures, replicated>>
vars == <<dataVars, flight, query, envVars, served, countVars>>

Idle == [at |-> "idle"]
NoEntry == [ver |-> 0, left |-> 0, ttl |-> 0]

\* Where a goroutine is in QueryKeys, and the response it holds.
QueryState ==
    [at : {"idle", "cache", "db", "flight", "wait", "fetch", "stale"}]
        \cup [at : {"keep", "store", "fetched"}, resp : Response]

TypeOK ==
    /\ cache \in {NoEntry} \cup [ver : Version, left : 0 .. Lifetime, ttl : 0 .. CacheTTL]
    /\ row \in {Nothing} \cup Response
    /\ flight \in Query \cup {Nobody}
    /\ query \in [Query -> QueryState]
    /\ replicas \subseteq Response /\ applied \subseteq Response
    /\ origin \in Version /\ retired \in 0 .. Lifetime
    /\ served \in [ver : 0 .. MaxRotations + 1, expired : {"no", "kept", "fetched"}]

Init ==
    /\ cache = NoEntry /\ row = Nothing
    /\ flight = Nobody
    /\ query = [q \in Query |-> Idle]
    /\ replicas = {} /\ applied = {}
    /\ origin = 1 /\ retired = 0
    /\ served = [ver |-> 0, expired |-> "no"]
    /\ failures = 0 /\ replicated = 0

-----------------------------------------------------------------------------
(* Memory cache and database.                                              *)

\* Mutant: an entry is valid until it is replaced.
cacheEntryPresent == cache # NoEntry

\* cacheEntryValid.
cacheEntryValid == cache.ttl > 0 /\ cache.left > 0

\* cacheExpiresAt.
cacheExpiresAt(r) == Min({CacheTTL, r.left})

\* storeInMemoryCache: an expired response empties the entry.
storeInMemoryCache(r) ==
    IF cacheExpiresAt(r) = 0 THEN NoEntry
    ELSE [ver |-> r.ver, left |-> r.left, ttl |-> cacheExpiresAt(r)]

\* The row as a query sees it: an expired one is as good as none.
Visible(r) == IF r.left = 0 THEN Nothing ELSE r

\* execWrite gives up after its attempts, or the query fails.
DatabaseFails == failures < MaxFailures /\ failures' = failures + 1

\* GetServerResponse finds a row: one that has not expired.
stored == row # Nothing

-----------------------------------------------------------------------------
(* QueryKeys, GetServerKeysWithCriteria, GetServerKeys.                    *)

Goto(q, state) == query' = [query EXCEPT ![q] = state]

\* QueryKeys, for a server that the policy's CheckServer lets pass.
Begin(q) ==
    /\ query[q] = Idle
    /\ Goto(q, [at |-> "cache"])
    /\ UNCHANGED <<dataVars, flight, envVars, served, countVars>>

\* QueryKeys signs response r, which was kept or fetched just now, checks it with
\* CheckResponse of the policy, logs it and returns it.
Return(r, from) ==
    served' = IF r.left <= MaxKeyAge
              THEN [ver |-> r.ver, expired |-> IF r.left = 0 THEN from ELSE "no"]
              ELSE served

\* The queries qs obtain response r.  GetServerKeysWithCriteria: whoever needs a
\* longer validity fetches again, once; the others are done.
Obtain(qs, r, from) ==
    LET short == {p \in qs : p \in Long /\ r.left < Lifetime} IN
    /\ query' = [p \in Query |-> CASE p \in short -> [at |-> "fetch"]
                                   [] p \in qs \ short -> Idle
                                   [] OTHER -> query[p]]
    /\ IF qs = short THEN UNCHANGED served ELSE Return(r, from)

\* The memory cache; an entry that is no longer valid is removed.
LookCache(q) ==
    /\ query[q].at = "cache"
    /\ IF cacheEntryValid
       THEN Obtain({q}, cache, "kept") /\ UNCHANGED cache
       ELSE /\ Goto(q, [at |-> "db"])
            /\ cache' = NoEntry /\ UNCHANGED served
    /\ UNCHANGED <<row, flight, envVars, countVars>>

\* storage.GetServerResponse.
ReadRow(q) ==
    /\ query[q].at = "db"
    /\ \/ /\ stored
          /\ Goto(q, [at |-> "keep", resp |-> row])
          /\ UNCHANGED failures
       \/ /\ \/ ~stored /\ UNCHANGED failures
             \/ DatabaseFails
          /\ Goto(q, [at |-> "flight"])
    /\ UNCHANGED <<dataVars, flight, envVars, served, replicated>>

\* The row goes to the memory cache, whatever was put there meanwhile.
KeepRow(q) ==
    /\ query[q].at = "keep"
    /\ cache' = storeInMemoryCache(query[q].resp)
    /\ Obtain({q}, query[q].resp, "kept")
    /\ UNCHANGED <<row, flight, envVars, countVars>>

\* fetchGroup.Do: one fetches, the others wait for its result.
JoinFlight(q) ==
    /\ query[q].at = "flight"
    /\ IF flight = Nobody
       THEN flight' = q /\ Goto(q, [at |-> "fetch"])
       ELSE Goto(q, [query[q] EXCEPT !.at = "wait"]) /\ UNCHANGED flight
    /\ UNCHANGED <<dataVars, envVars, served, countVars>>

\* Those who share q's fetch, q included; a refetch is q's own.
Sharing(q) == IF flight = q THEN {p \in Query : p = q \/ query[p].at = "wait"} ELSE {q}

\* What fetcher.FetchServerKeys may bring besides the origin's own answer: what a
\* fallback notary has.  fetchFromNotary does not look at valid_until_ts.
FromFallback == {r \in Response : r.ver = origin \/ (r.ver = origin - 1 /\ r.left <= retired)}

Fetched(q, r) == Goto(q, [at |-> "store", resp |-> r])

FetchDirect(q) ==
    /\ query[q].at = "fetch"
    /\ Fetched(q, [ver |-> origin, left |-> Lifetime])
    /\ UNCHANGED <<dataVars, flight, envVars, served, countVars>>

FetchFallback(q) ==
    /\ query[q].at = "fetch" /\ failures < MaxFailures
    /\ failures' = failures + 1
    /\ \E r \in FromFallback : Fetched(q, r)
    /\ UNCHANGED <<dataVars, flight, envVars, served, replicated>>

\* The fetch fails for everybody who shares it: no source answers, or the
\* context of the one who fetches ends.  A refetch has nothing to fall back on.
FetchFails(q) ==
    /\ query[q].at = "fetch" /\ failures < MaxFailures
    /\ failures' = failures + 1
    /\ query' = [p \in Query |-> IF p \notin Sharing(q) THEN query[p]
                                 ELSE IF flight = q THEN [at |-> "stale"]
                                 ELSE Idle]
    /\ flight' = IF flight = q THEN Nobody ELSE flight
    /\ UNCHANGED <<dataVars, envVars, served, replicated>>

\* Mutant: an expired entry will do.
UseStaleExpired(q) ==
    /\ query[q].at = "stale"
    /\ IF cache # NoEntry THEN Obtain({q}, cache, "kept") ELSE Goto(q, Idle) /\ UNCHANGED served
    /\ UNCHANGED <<dataVars, flight, envVars, countVars>>

\* After a failed fetch: a cache entry that is there by now and unexpired.
UseStale(q) ==
    /\ query[q].at = "stale"
    /\ IF cache.left > 0 THEN Obtain({q}, cache, "kept") ELSE Goto(q, Idle) /\ UNCHANGED served
    /\ UNCHANGED <<dataVars, flight, envVars, countVars>>

\* StoreServerResponse; its failure is only logged.
StoreFetched(q) ==
    /\ query[q].at = "store"
    /\ Goto(q, [query[q] EXCEPT !.at = "fetched"])
    /\ \/ row' = Visible(query[q].resp) /\ UNCHANGED failures
       \/ DatabaseFails /\ UNCHANGED row
    /\ UNCHANGED <<cache, flight, envVars, served, replicated>>

\* Mutant: the shared fetch answers only the one who made it.
FinishFetchAlone(q) ==
    /\ query[q].at = "fetched"
    /\ cache' = storeInMemoryCache(query[q].resp)
    /\ Obtain({q}, query[q].resp, "fetched")
    /\ flight' = IF flight = q THEN Nobody ELSE flight
    /\ UNCHANGED <<row, envVars, countVars>>

\* The rest of fetchAndStoreWithSource: memory cache, broadcast to the cluster
\* (StoreUpdate of module Gossip), return to everybody who shares the fetch.  A
\* refetched response is returned as it is.
FinishFetch(q) ==
    /\ query[q].at = "fetched"
    /\ cache' = storeInMemoryCache(query[q].resp)
    /\ IF flight = q
       THEN Obtain(Sharing(q), query[q].resp, "fetched") /\ flight' = Nobody
       ELSE /\ Goto(q, Idle)
            /\ Return(query[q].resp, "fetched")
            /\ UNCHANGED flight
    /\ UNCHANGED <<row, envVars, countVars>>

-----------------------------------------------------------------------------
(* Replication, cleanup.                                                   *)

\* fetchAndStoreWithSource of another node, up to its broadcast: the origin's
\* answer or a fallback notary's.
PeerFetches ==
    /\ replicated < MaxReplicas /\ replicated' = replicated + 1
    /\ \E r \in FromFallback : replicas' = replicas \cup {r}
    /\ UNCHANGED <<dataVars, flight, query, applied, origin, retired, served, failures>>

\* ApplyReplicatedServerResponse, up to StoreServerResponse.  An expired response
\* fails the verification; a failed write ends it before the cache; what is stored
\* already is not compared.
ApplyReplicated(r) ==
    /\ replicas' = replicas \ {r}
    /\ \/ r.left > 0 /\ row' = r /\ applied' = applied \cup {r} /\ UNCHANGED failures
       \/ /\ \/ r.left = 0 /\ UNCHANGED failures
             \/ r.left > 0 /\ DatabaseFails
          /\ UNCHANGED <<row, applied>>
    /\ UNCHANGED <<cache, flight, query, origin, retired, served, replicated>>

\* The rest of it: the memory cache, whatever was put there meanwhile.
CacheReplicated(r) ==
    /\ applied' = applied \ {r}
    /\ cache' = storeInMemoryCache(r)
    /\ UNCHANGED <<row, flight, query, replicas, origin, retired, served, countVars>>

\* cleanup.  DeleteExpiredKeys removes rows that no query can see any more; they
\* are Nothing already.
Cleanup ==
    /\ cache' = IF cache.ttl = 0 THEN NoEntry ELSE cache
    /\ UNCHANGED <<row, flight, query, envVars, served, countVars>>

-----------------------------------------------------------------------------
(* The environment.                                                        *)

Rotate ==
    /\ origin <= MaxRotations
    /\ origin' = origin + 1 /\ retired' = Lifetime
    /\ UNCHANGED <<dataVars, flight, query, replicas, applied, served, countVars>>

Less(t) == IF t = 0 THEN 0 ELSE t - 1

\* Time passes.  A tick stands for minutes: the storing of a response does not
\* take that long.
Tick ==
    /\ \A q \in Query : query[q].at \notin {"keep", "store", "fetched"}
    /\ applied = {}
    /\ cache' = [cache EXCEPT !.left = Less(@), !.ttl = Less(@)]
    /\ row' = IF row.left <= 1 THEN Nothing ELSE [row EXCEPT !.left = @ - 1]
    /\ replicas' = {[r EXCEPT !.left = Less(@)] : r \in replicas}
    /\ retired' = Less(retired)
    /\ UNCHANGED <<flight, query, applied, origin, served, countVars>>

Step(q) ==
    \/ LookCache(q) \/ ReadRow(q) \/ KeepRow(q) \/ JoinFlight(q)
    \/ FetchDirect(q) \/ FetchFallback(q) \/ FetchFails(q) \/ UseStale(q)
    \/ StoreFetched(q) \/ FinishFetch(q)

Next ==
    \/ \E q \in Query : Begin(q) \/ Step(q)
    \/ \E r \in replicas : ApplyReplicated(r)
    \/ \E r \in applied : CacheReplicated(r)
    \/ PeerFetches \/ Cleanup \/ Rotate \/ Tick

Spec == Init /\ [][Next]_vars

\* Goroutines go on (a fetch returns: FetchReturns of module Fetcher), messages
\* arrive, and time passes however busy the notary is.
Fairness ==
    /\ \A q \in Query : WF_vars(Step(q))
    /\ SF_vars(Tick)
    /\ WF_vars(\E r \in replicas : ApplyReplicated(r)) /\ WF_vars(\E r \in applied : CacheReplicated(r))

FairSpec == Spec /\ Fairness

\* Clients go on asking, those with no requirement on the validity.
BusySpec == FairSpec /\ \A q \in Query \ Long : WF_vars(Begin(q))

-----------------------------------------------------------------------------
(* Properties.                                                             *)

\* What the notary has kept, in the memory cache, in the database or from another
\* node, is not served after its valid_until_ts, and an expired response is not
\* kept: whoever is served one shares the fetch that has brought it this moment.
ExpiredNotKept == served.expired # "kept"

\* Nothing expired is served at all.  docs/federation-behavior.md: "expired
\* cryptographic material MUST NOT be served as valid".
ServedUnexpired == served.expired = "no"

\* Rotated keys get through: once the origin has rotated for the last time,
\* every query eventually returns the new keys, although older responses sit in
\* the cache, in the database, at fallback notaries and in messages of other
\* nodes, and may overwrite newer ones.
FollowsRotation == <>[](served.ver = origin)

\* Every query ends; nobody waits for a fetch that is over.
QueryReturns == \A q \in Query : query[q] # Idle ~> query[q] = Idle

=============================================================================
