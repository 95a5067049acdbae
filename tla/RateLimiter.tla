----------------------------- MODULE RateLimiter -----------------------------
(***************************************************************************)
(* The per-IP rate limiter of internal/server/ratelimit.go: a bounded set  *)
(* of visitors in least-recently-used order, each with a global and a      *)
(* query token bucket (rate.Limiter).                                      *)
(*                                                                         *)
(* The linked list is the order of the numbers pos: the visitor with the   *)
(* greatest one is at the front.  idle is the time since lastSeen.         *)
(***************************************************************************)
EXTENDS Integers, FiniteSets

CONSTANTS IP, MaxVisitors, IdleTTL,
          Rate, Burst,              \* tokens per unit of time, size of the global bucket
          QueryRate, QueryBurst,
          MaxRequests               \* bound

VARIABLES tracked,      \* the keys of visitors
          pos, idle, tokens, queryTokens,   \* fields of the visitors, by IP
          inside,       \* IPs with a query that Middleware has admitted
          front,        \* the number of the front of the list
          rejected      \* was the last request refused?

limiterVars == <<tracked, pos, idle, tokens, queryTokens, inside, front, rejected>>

LimiterTypeOK ==
    /\ tracked \subseteq IP /\ inside \subseteq IP
    /\ pos \in [IP -> Nat] /\ idle \in [IP -> Nat]
    /\ tokens \in [IP -> Nat] /\ queryTokens \in [IP -> Nat]
    /\ front \in Nat /\ rejected \in BOOLEAN

NewRateLimiter ==
    /\ tracked = {} /\ inside = {}
    /\ pos = [ip \in IP |-> 0] /\ idle = [ip \in IP |-> 0]
    /\ tokens = [ip \in IP |-> Burst] /\ queryTokens = [ip \in IP |-> QueryBurst]
    /\ front = 0 /\ rejected = FALSE

-----------------------------------------------------------------------------
\* evictOldestLocked: the tail of the list.
Oldest == {ip \in tracked : \A other \in tracked : pos[ip] <= pos[other]}

\* The visitors that getVisitor leaves in the map.
Remaining(ip) == IF ip \notin tracked /\ Cardinality(tracked) >= MaxVisitors
            THEN tracked \ Oldest ELSE tracked

\* The buckets of the visitor that getVisitor returns: its own, or full ones.
Bucket(ip) == IF ip \in tracked THEN tokens[ip] ELSE Burst
QueryBucket(ip) == IF ip \in tracked THEN queryTokens[ip] ELSE QueryBurst

\* getVisitor moves or pushes the visitor to the front; left and queryLeft are
\* what Allow leaves in its buckets.
getVisitor(ip, left, queryLeft) ==
    /\ front < MaxRequests
    /\ front' = front + 1
    /\ tracked' = Remaining(ip) \cup {ip}
    /\ pos' = [pos EXCEPT ![ip] = front + 1]
    /\ idle' = [idle EXCEPT ![ip] = 0]
    /\ tokens' = [tokens EXCEPT ![ip] = left]
    /\ queryTokens' = [queryTokens EXCEPT ![ip] = queryLeft]

\* rate.Limiter.Allow: one token, if there is one.
Allow(bucket) == IF bucket > 0 THEN bucket - 1 ELSE bucket

\* Middleware; query says whether the route is behind withQueryRateLimit.
Middleware(ip, query) ==
    /\ ip \notin inside
    /\ getVisitor(ip, Allow(Bucket(ip)), QueryBucket(ip))
    /\ rejected' = (Bucket(ip) = 0)
    /\ inside' = IF query /\ Bucket(ip) > 0 THEN inside \cup {ip} ELSE inside

\* withQueryRateLimit looks the visitor up again: it may have been evicted since.
withQueryRateLimit(ip) ==
    /\ ip \in inside
    /\ getVisitor(ip, Bucket(ip), Allow(QueryBucket(ip)))
    /\ rejected' = (QueryBucket(ip) = 0)
    /\ inside' = inside \ {ip}

\* cleanup walks from the tail and stops at the first visitor that is not idle.
Swept == {ip \in tracked : \A other \in tracked : pos[other] <= pos[ip] => idle[other] > IdleTTL}

cleanup ==
    /\ tracked' = tracked \ Swept
    /\ UNCHANGED <<pos, idle, tokens, queryTokens, inside, front, rejected>>

\* A unit of time passes.  Times beyond the TTL are alike.
Refilled(bucket, rate, burst) == IF bucket + rate < burst THEN bucket + rate ELSE burst
TimePasses ==
    /\ idle' = [ip \in IP |-> IF idle[ip] > IdleTTL THEN idle[ip] ELSE idle[ip] + 1]
    /\ tokens' = [ip \in IP |-> Refilled(tokens[ip], Rate, Burst)]
    /\ queryTokens' = [ip \in IP |-> Refilled(queryTokens[ip], QueryRate, QueryBurst)]
    /\ UNCHANGED <<tracked, pos, inside, front, rejected>>

LimiterNext ==
    \/ \E ip \in IP : (\E query \in BOOLEAN : Middleware(ip, query)) \/ withQueryRateLimit(ip)
    \/ cleanup \/ TimePasses

LimiterSpec == NewRateLimiter /\ [][LimiterNext]_limiterVars

-----------------------------------------------------------------------------
\* However many addresses call, getVisitor keeps at most MaxVisitors of them.
VisitorsBounded == Cardinality(tracked) <= MaxVisitors

\* cleanup may stop at the first visitor that is not idle: when it has run, no
\* idle visitor is left anywhere in the list.
CleanupComplete == [][cleanup => \A ip \in tracked' : idle[ip] <= IdleTTL]_limiterVars

\* cleanup gives nobody new tokens: an address that it drops had full buckets, so
\* being forgotten changes nothing for it.
CleanupForgetsNothing ==
    [][cleanup => \A ip \in tracked \ tracked' :
                    tokens[ip] = Burst /\ queryTokens[ip] = QueryBurst]_limiterVars
==============================================================================
