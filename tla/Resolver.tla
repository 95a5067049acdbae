------------------------------ MODULE Resolver ------------------------------
(***************************************************************************)
(* Server discovery (internal/keys/resolver*.go): well-known delegation,   *)
(* the two SRV services and the default port, each lookup behind a cache   *)
(* that keeps answers, and errors for a shorter time.                      *)
(*                                                                         *)
(* The caches are keyed by host name; the model follows one server name    *)
(* without port.  (A name that is an IP literal or has a port resolves to  *)
(* itself, with no lookup.)  Its owner decides where it is found, its      *)
(* `site`, and may move it.  Ages are counted in ticks, up to one past the *)
(* time to live they are compared with.                                    *)
(***************************************************************************)
EXTENDS Integers, FiniteSets

CONSTANTS Goroutine,       \* goroutines inside ResolveServerName
          Sites,           \* sites used by the owner
          WellKnownTTL,    \* [Kind -> ticks], wellKnownCache.get
          SRVTTL,          \* [Kind -> ticks], srvCache.get
          LookupTime,      \* client timeout, in ticks
          MaxMoves,        \* bound: changes of site
          MaxFailures      \* bound: lookups that fail or give garbage

Kind == {"ok", "notFound", "invalid", "temporary"}

\* Where the keys can be served from: the address the well-known file names, a
\* target of the delegated host, or one of the host itself.
Site == {"address", "delegateSRV", "delegateLegacy", "delegateDefault", "srv", "legacy", "default"}

ASSUME ResolverAssumption ==
    /\ Sites \subseteq Site /\ Sites # {}
    /\ WellKnownTTL \in [Kind -> Nat] /\ SRVTTL \in [Kind -> Nat]
    /\ {LookupTime, MaxMoves, MaxFailures} \subseteq Nat

\* What is looked up: the well-known file, or a service of a host.
Record == {"wellKnown", "fed@host", "legacy@host", "fed@delegate", "legacy@delegate"}

TTL(rec, kind) == IF rec = "wellKnown" THEN WellKnownTTL[kind] ELSE SRVTTL[kind]

\* An answer: `value` is the site or the host it names.
NoAnswer == [kind |-> "notFound", value |-> "none"]
LookupAnswer == [kind : Kind, value : Site \cup {"none", "delegate"}]
Empty == [kind |-> "none", value |-> "none", age |-> 0]

\* The owner's configuration for each site.
Published(s, rec) ==
    CASE rec = "wellKnown" /\ s = "address" -> [kind |-> "ok", value |-> s]
      [] rec = "wellKnown" /\ s \in {"delegateSRV", "delegateLegacy", "delegateDefault"} ->
             [kind |-> "ok", value |-> "delegate"]
      [] \/ rec = "fed@host" /\ s = "srv"
         \/ rec = "legacy@host" /\ s = "legacy"
         \/ rec = "fed@delegate" /\ s = "delegateSRV"
         \/ rec = "legacy@delegate" /\ s = "delegateLegacy" -> [kind |-> "ok", value |-> s]
      [] OTHER -> NoAnswer

VARIABLES cache,      \* [Record -> entry]: r.cache and r.srvCache
          lookup,     \* [Goroutine -> where the goroutine is]
          got,        \* [Goroutine -> site its last resolution gave]
          site,       \* where the server is
          former,     \* history: [Record -> answers that were published, or given to a lookup
                      \*           that failed, and the ticks since then]
          moves, failures

resolverVars == <<cache, lookup, got, site, former, moves, failures>>

NotResolving == [at |-> "idle"]

\* The next lookup, or one that is answered and not read yet.
LookupState ==
    {NotResolving} \cup [at : {"look"}, rec : Record]
                   \cup [at : {"wait"}, rec : Record, age : 0 .. LookupTime, answer : LookupAnswer]

ResolverTypeOK ==
    /\ cache \in [Record -> {Empty} \cup [kind : Kind, value : Site \cup {"none", "delegate"}, age : Nat]]
    /\ lookup \in [Goroutine -> LookupState]
    /\ got \in [Goroutine -> Site \cup {"none"}]
    /\ site \in Sites
    /\ former \in [Record -> SUBSET [answer : LookupAnswer, age : Nat]]

ResolverInit ==
    /\ cache = [r \in Record |-> Empty]
    /\ lookup = [c \in Goroutine |-> NotResolving]
    /\ got = [c \in Goroutine |-> "none"]
    /\ site \in Sites
    /\ former = [r \in Record |-> {}]
    /\ moves = 0 /\ failures = 0

-----------------------------------------------------------------------------
(* The order of the lookups.                                               *)

\* A step of ResolveServerName and resolveDelegated: a further lookup or a
\* result.
LookUp(rec) == [at |-> "look", rec |-> rec]
Result(s) == [at |-> "done", site |-> s]

After(rec, a) ==
    CASE rec = "wellKnown" /\ a.kind = "ok" /\ a.value = "delegate" -> LookUp("fed@delegate")
      [] a.kind = "ok"              -> Result(a.value)
      [] rec = "wellKnown"          -> LookUp("fed@host")
      [] rec = "fed@host"           -> LookUp("legacy@host")
      [] rec = "fed@delegate"       -> LookUp("legacy@delegate")
      [] rec = "legacy@host"        -> Result("default")
      [] rec = "legacy@delegate"    -> Result("delegateDefault")

\* The goroutine goes on to its next lookup, or returns.
Continue(c, step) ==
    IF step.at = "done"
    THEN lookup' = [lookup EXCEPT ![c] = NotResolving] /\ got' = [got EXCEPT ![c] = step.site]
    ELSE lookup' = [lookup EXCEPT ![c] = step] /\ UNCHANGED got

-----------------------------------------------------------------------------
(* Caches.                                                                 *)

\* Mutant: errors do not expire.
validErrorsForever(rec) ==
    /\ cache[rec] # Empty
    /\ cache[rec].kind = "ok" => cache[rec].age <= TTL(rec, cache[rec].kind)

\* get finds an entry.
valid(rec) == cache[rec] # Empty /\ cache[rec].age <= TTL(rec, cache[rec].kind)

\* ResolveServerName.
Begin(c) ==
    /\ lookup[c] = NotResolving
    /\ lookup' = [lookup EXCEPT ![c] = LookUp("wellKnown")]
    /\ UNCHANGED <<cache, got, site, former, moves, failures>>

\* Mutant: a hit makes the entry young again.
HitRefreshes(c) ==
    /\ lookup[c].at = "look" /\ valid(lookup[c].rec)
    /\ Continue(c, After(lookup[c].rec, cache[lookup[c].rec]))
    /\ cache' = [cache EXCEPT ![lookup[c].rec].age = 0]
    /\ UNCHANGED <<site, former, moves, failures>>

\* resolveWellKnown or lookupSRV finds a cached answer or error.
Hit(c) ==
    /\ lookup[c].at = "look" /\ valid(lookup[c].rec)
    /\ Continue(c, After(lookup[c].rec, cache[lookup[c].rec]))
    /\ UNCHANGED <<cache, site, former, moves, failures>>

\* How a failed lookup is classified.  A failed SRV lookup returns no records,
\* which counts as not found; it is temporary only when records are left beside
\* the error.
FailureKinds(rec) ==
    IF rec = "wellKnown" THEN {"temporary", "invalid"} ELSE {"notFound", "temporary"}

\* A miss: the request is sent and answered, by what is published or by a
\* failure.  A cancelled context is a failure like any other.
Ask(c) ==
    LET rec == lookup[c].rec IN
    /\ lookup[c].at = "look" /\ ~valid(rec)
    /\ \/ /\ lookup' = [lookup EXCEPT ![c] = [at |-> "wait", rec |-> rec, age |-> 0,
                                              answer |-> Published(site, rec)]]
          /\ UNCHANGED <<failures, former>>
       \/ /\ failures < MaxFailures
          /\ failures' = failures + 1
          /\ \E k \in FailureKinds(rec) :
                 LET a == [kind |-> k, value |-> "none"] IN
                 /\ lookup' = [lookup EXCEPT ![c] = [at |-> "wait", rec |-> rec, age |-> 0, answer |-> a]]
                 /\ former' = [former EXCEPT ![rec] = @ \cup {[answer |-> a, age |-> 0]}]
    /\ UNCHANGED <<cache, got, site, moves>>

\* The answer is read: the cache entry is replaced, whatever is there by now.
Store(c) ==
    /\ lookup[c].at = "wait"
    /\ LET a == lookup[c].answer IN
       /\ cache' = [cache EXCEPT ![lookup[c].rec] = [kind |-> a.kind, value |-> a.value, age |-> 0]]
       /\ Continue(c, After(lookup[c].rec, a))
    /\ UNCHANGED <<site, former, moves, failures>>

-----------------------------------------------------------------------------
(* The environment.                                                        *)

\* The owner moves the server.
Move ==
    /\ moves < MaxMoves /\ moves' = moves + 1
    /\ \E s \in Sites \ {site} :
           /\ site' = s
           /\ former' = [r \in Record |->
                  former[r] \cup {f \in {[answer |-> Published(site, r), age |-> 0]} :
                                  f.answer # Published(s, r)}]
    /\ UNCHANGED <<cache, lookup, got, failures>>

EntryOlder(age, limit) == IF age > limit THEN age ELSE age + 1

ResolverTick ==
    /\ \A c \in Goroutine : lookup[c].at = "wait" => lookup[c].age < LookupTime
    /\ lookup' = [c \in Goroutine |-> IF lookup[c].at = "wait" THEN [lookup[c] EXCEPT !.age = @ + 1]
                                      ELSE lookup[c]]
    /\ cache' = [r \in Record |-> IF cache[r] = Empty THEN Empty
                                  ELSE [cache[r] EXCEPT !.age = EntryOlder(@, TTL(r, cache[r].kind))]]
    /\ former' = [r \in Record |-> {[f EXCEPT !.age = @ + 1] :
                                    f \in {g \in former[r] : g.age < TTL(r, g.answer.kind) + LookupTime}}]
    /\ UNCHANGED <<got, site, moves, failures>>

ResolverNext ==
    \/ \E c \in Goroutine : Begin(c) \/ Hit(c) \/ Ask(c) \/ Store(c)
    \/ Move \/ ResolverTick

ResolverSpec == ResolverInit /\ [][ResolverNext]_resolverVars

\* Lookups end and time passes; there is always a next resolution.
ResolverFairSpec ==
    /\ ResolverSpec
    /\ WF_resolverVars(ResolverTick)
    /\ \A c \in Goroutine : WF_resolverVars(Begin(c) \/ Hit(c) \/ Ask(c) \/ Store(c))

-----------------------------------------------------------------------------
(* Properties.                                                             *)

\* The discovery finds the server: after the last move and the last failed
\* lookup, every resolution eventually gives the site where the server is.  An
\* answer stored late, over a newer one, or an error of somebody else's cancelled
\* request must not stay.
FindsServer == <>[](\A c \in Goroutine : got[c] = site)

\* What a cache serves, an answer or an error, was published, or was the outcome
\* of a failed lookup, no longer ago than its time to live and the duration of the
\* lookup that stored it, for lookups that overlap in any way.  For an error this
\* bounds how long one failed lookup hides a record that is published: lookupSRV
\* keeps it as long as a record that does not exist.
ServedFresh ==
    \A r \in Record :
        valid(r) =>
            LET a == [kind |-> cache[r].kind, value |-> cache[r].value] IN
            \/ a = Published(site, r)
            \/ \E f \in former[r] : f.answer = a /\ f.age <= TTL(r, a.kind) + LookupTime

=============================================================================
