---------------------------- MODULE NotaryProofs ----------------------------
(***************************************************************************)
(* What Notary keeps is not served after it has expired, for any number of *)
(* queries, rotations, failures and replicated responses, any life times   *)
(* and whatever fallback notaries give out.                                *)
(***************************************************************************)
EXTENDS Notary, TLAPS

Holding == {"keep", "store", "fetched"}

Answers == [ver : 0 .. MaxRotations + 1, expired : {"no", "kept", "fetched"}]

\* The shape of a response.
LEMMA Constants ==
    /\ Lifetime \in Nat \ {0} /\ CacheTTL \in Nat \ {0} /\ MaxRotations \in Nat
    /\ Nobody \notin Query
BY NotaryAssumption

\* The fields of a response.
LEMMA ResponseFields ==
    ASSUME NEW r \in Response
    PROVE  /\ r.ver \in Version /\ r.left \in 0 .. Lifetime /\ r.left \in Nat
           /\ r.ver \in 0 .. MaxRotations + 1
BY Constants DEF Response, Version

\* A query that holds a response holds one of the right type.
LEMMA HeldResponse ==
    ASSUME TypeOK, NEW q \in Query, query[q].at \in Holding
    PROVE  query[q].resp \in Response
<1>1. query[q] \in QueryState
  BY DEF TypeOK
<1> QED BY <1>1 DEF QueryState, Holding

\* cacheExpiresAt: the earlier of the two times.
LEMMA ExpiryBounds ==
    ASSUME NEW r \in Response
    PROVE  cacheExpiresAt(r) \in 0 .. CacheTTL
<1>1. r.left \in Nat /\ CacheTTL \in Nat
  BY ResponseFields, Constants
<1>2. \E x \in {CacheTTL, r.left} : \A y \in {CacheTTL, r.left} : x <= y
  BY <1>1
<1>3. Min({CacheTTL, r.left}) \in {CacheTTL, r.left}
      /\ \A y \in {CacheTTL, r.left} : Min({CacheTTL, r.left}) <= y
  BY <1>2 DEF Min
<1> QED BY <1>1, <1>3 DEF cacheExpiresAt

Entries == {NoEntry} \cup [ver : Version, left : 0 .. Lifetime, ttl : 0 .. CacheTTL]

\* storeInMemoryCache makes a cache entry.
LEMMA CacheTyped ==
    ASSUME NEW r \in Response
    PROVE  storeInMemoryCache(r) \in Entries
BY ExpiryBounds, ResponseFields DEF storeInMemoryCache, Entries

\* What QueryKeys returns is typed.
LEMMA ReturnTyped ==
    ASSUME served \in Answers, NEW r, r.ver \in 0 .. MaxRotations + 1,
           NEW from \in {"kept", "fetched"}, Return(r, from)
    PROVE  served' \in Answers
BY DEF Return, Answers

\* Returning an unexpired response, or one just fetched, is harmless.
LEMMA ReturnNotKept ==
    ASSUME ExpiredNotKept, NEW r, NEW from, r.left # 0 \/ from # "kept", Return(r, from)
    PROVE  ExpiredNotKept'
BY DEF Return, ExpiredNotKept

\* Those who obtain a response are done or fetch again, the others stay where
\* they are.
LEMMA ObtainMoves ==
    ASSUME NEW qs \in SUBSET Query, NEW r, NEW from, Obtain(qs, r, from)
    PROVE  /\ query' = [p \in Query |-> query'[p]]
           /\ \A p \in qs : query'[p] = Idle \/ query'[p] = [at |-> "fetch"]
           /\ \A p \in Query \ qs : query'[p] = query[p]
BY DEF Obtain

\* Queries take a response or return it.
LEMMA ObtainTyped ==
    ASSUME TypeOK, NEW qs \in SUBSET Query, NEW r, r.ver \in 0 .. MaxRotations + 1,
           NEW from \in {"kept", "fetched"}, Obtain(qs, r, from)
    PROVE  /\ query' \in [Query -> QueryState]
           /\ served' \in Answers
<1>1. query' \in [Query -> QueryState]
  <2>1. Idle \in QueryState /\ [at |-> "fetch"] \in QueryState
    BY DEF QueryState, Idle
  <2>2. \A p \in Query : query'[p] \in QueryState
    BY <2>1, ObtainMoves DEF TypeOK
  <2> QED BY <2>2, ObtainMoves
<1>2. served' = served \/ Return(r, from)
  BY DEF Obtain
<1>3. served' \in Answers
  BY <1>2, ReturnTyped DEF TypeOK, Answers
<1> QED BY <1>1, <1>3

\* So is taking one.
LEMMA ObtainNotKept ==
    ASSUME ExpiredNotKept, NEW qs, NEW r, NEW from, r.left # 0 \/ from # "kept", Obtain(qs, r, from)
    PROVE  ExpiredNotKept'
<1>1. served' = served \/ Return(r, from)
  BY DEF Obtain
<1> QED BY <1>1, ReturnNotKept DEF ExpiredNotKept

-----------------------------------------------------------------------------
(* Types.                                                                  *)

\* A query moves on.
LEMMA GotoTyped ==
    ASSUME TypeOK, NEW q \in Query, NEW s \in QueryState, Goto(q, s)
    PROVE  query' \in [Query -> QueryState]
BY DEF Goto, TypeOK

\* The places a query can be in.
LEMMA Places ==
    /\ \A a \in {"idle", "cache", "db", "flight", "wait", "fetch", "stale"} : [at |-> a] \in QueryState
    /\ \A a \in Holding, r \in Response : [at |-> a, resp |-> r] \in QueryState
    /\ Idle \in QueryState
BY DEF QueryState, Holding, Idle

\* The types hold at first.
LEMMA TypeInit == Init => TypeOK
<1> SUFFICES ASSUME Init PROVE TypeOK
  OBVIOUS
<1>1. query \in [Query -> QueryState]
  BY Places DEF Init
<1>2. origin \in Version /\ retired \in 0 .. Lifetime
  BY Constants DEF Init, Version
<1>3. served \in Answers
  BY Constants DEF Init, Answers
<1> QED BY <1>1, <1>2, <1>3 DEF Init, TypeOK, Answers

\* What a tick makes of a response and of a cache entry.
LEMMA TickTyped ==
    ASSUME TypeOK, Tick
    PROVE  /\ cache' \in Entries
           /\ row' \in {Nothing} \cup Response
           /\ replicas' \subseteq Response
           /\ retired' \in 0 .. Lifetime
<1>0. \A n \in Nat : \A t \in 0 .. n : Less(t) \in 0 .. n
  BY DEF Less
<1>1. cache' \in Entries
  <2>1. CASE cache = NoEntry
    <3>1. cache' = NoEntry
      BY <2>1 DEF Tick, NoEntry, Less
    <3> QED BY <3>1 DEF Entries
  <2>2. CASE cache \in [ver : Version, left : 0 .. Lifetime, ttl : 0 .. CacheTTL]
    <3>1. Less(cache.left) \in 0 .. Lifetime /\ Less(cache.ttl) \in 0 .. CacheTTL
      BY <2>2, <1>0, Constants
    <3> QED BY <2>2, <3>1 DEF Tick, Entries
  <2> QED BY <2>1, <2>2 DEF TypeOK
<1>2. row' \in {Nothing} \cup Response
  <2>1. CASE row.left <= 1
    BY <2>1 DEF Tick
  <2>2. CASE ~(row.left <= 1)
    <3>1. row \in Response
      BY <2>2 DEF TypeOK, Nothing
    <3>2. row.left - 1 \in 0 .. Lifetime
      BY <2>2, <3>1, ResponseFields, Constants
    <3>3. [row EXCEPT !.left = @ - 1] \in Response
      BY <3>1, <3>2 DEF Response
    <3> QED BY <2>2, <3>3 DEF Tick
  <2> QED BY <2>1, <2>2
<1>3. replicas' \subseteq Response
  <2>1. \A r \in Response : [r EXCEPT !.left = Less(@)] \in Response
    <3>1. \A r \in Response : Less(r.left) \in 0 .. Lifetime
      BY <1>0, Constants, ResponseFields
    <3> QED BY <3>1 DEF Response
  <2> QED BY <2>1 DEF Tick, TypeOK
<1>4. retired' \in 0 .. Lifetime
  BY <1>0, Constants DEF Tick, TypeOK
<1> QED BY <1>1, <1>2, <1>3, <1>4

\* Every step keeps the types.
LEMMA TypeStep ==
    ASSUME TypeOK, [Next]_vars
    PROVE  TypeOK'
<1>a. cache \in Entries /\ row \in {Nothing} \cup Response
  BY DEF TypeOK, Entries
<1>b. cache.ver \in 0 .. MaxRotations + 1
  BY <1>a, Constants DEF Entries, NoEntry, Version
<1>c. [ver |-> origin, left |-> Lifetime] \in Response
  BY Constants DEF TypeOK, Response
<1>1. ASSUME NEW q \in Query, Begin(q) PROVE TypeOK'
  <2>1. query' \in [Query -> QueryState]
    BY <1>1, GotoTyped, Places DEF Begin
  <2> QED BY <1>1, <2>1 DEF Begin, TypeOK, dataVars, envVars
<1>2. ASSUME NEW q \in Query, LookCache(q) PROVE TypeOK'
  <2>1. CASE cacheEntryValid
    <3>1. Obtain({q}, cache, "kept") /\ UNCHANGED <<cache, row, flight, envVars>>
      BY <1>2, <2>1 DEF LookCache
    <3>2. query' \in [Query -> QueryState] /\ served' \in Answers
      BY <3>1, <1>b, ObtainTyped
    <3> QED BY <3>1, <3>2 DEF TypeOK, envVars, Answers
  <2>2. CASE ~cacheEntryValid
    <3>1. Goto(q, [at |-> "db"]) /\ cache' = NoEntry /\ UNCHANGED <<served, row, flight, envVars>>
      BY <1>2, <2>2 DEF LookCache
    <3>2. query' \in [Query -> QueryState]
      BY <3>1, GotoTyped, Places
    <3> QED BY <3>1, <3>2 DEF TypeOK, envVars, Answers
  <2> QED BY <2>1, <2>2
<1>3. ASSUME NEW q \in Query, ReadRow(q) PROVE TypeOK'
  <2>1. row # Nothing => [at |-> "keep", resp |-> row] \in QueryState
    BY <1>a, Places DEF Holding
  <2>2. query' \in [Query -> QueryState]
    BY <1>3, <2>1, GotoTyped, Places DEF ReadRow, stored
  <2> QED BY <1>3, <2>2 DEF ReadRow, TypeOK, dataVars, envVars
<1>4. ASSUME NEW q \in Query, KeepRow(q) PROVE TypeOK'
  <2>1. query[q].resp \in Response
    BY <1>4, HeldResponse DEF KeepRow, Holding
  <2>2. cache' \in Entries
    BY <1>4, <2>1, CacheTyped DEF KeepRow
  <2>3. query' \in [Query -> QueryState] /\ served' \in Answers
    BY <1>4, <2>1, ObtainTyped, ResponseFields DEF KeepRow
  <2> QED BY <1>4, <2>2, <2>3 DEF KeepRow, TypeOK, Entries, envVars, Answers
<1>5. ASSUME NEW q \in Query, JoinFlight(q) PROVE TypeOK'
  <2>1. query[q].at = "flight" => [query[q] EXCEPT !.at = "wait"] \in QueryState
    <3>1. query[q] \in QueryState
      BY DEF TypeOK
    <3> QED BY <3>1 DEF QueryState
  <2>2. query' \in [Query -> QueryState]
    BY <1>5, <2>1, GotoTyped, Places DEF JoinFlight
  <2>3. flight' \in Query \cup {Nobody}
    BY <1>5 DEF JoinFlight, TypeOK
  <2> QED BY <1>5, <2>2, <2>3 DEF JoinFlight, TypeOK, dataVars, envVars
<1>6. ASSUME NEW q \in Query, FetchDirect(q) PROVE TypeOK'
  <2>1. query' \in [Query -> QueryState]
    BY <1>6, <1>c, GotoTyped, Places DEF FetchDirect, Fetched, Holding
  <2> QED BY <1>6, <2>1 DEF FetchDirect, TypeOK, dataVars, envVars
<1>7. ASSUME NEW q \in Query, FetchFallback(q) PROVE TypeOK'
  <2>1. \A r \in FromFallback : [at |-> "store", resp |-> r] \in QueryState
    BY Places DEF FromFallback, Holding
  <2>2. query' \in [Query -> QueryState]
    BY <1>7, <2>1, GotoTyped DEF FetchFallback, Fetched
  <2> QED BY <1>7, <2>2 DEF FetchFallback, TypeOK, dataVars, envVars
<1>8. ASSUME NEW q \in Query, FetchFails(q) PROVE TypeOK'
  <2>1. query' \in [Query -> QueryState]
    BY <1>8, Places DEF FetchFails, TypeOK
  <2>2. flight' \in Query \cup {Nobody}
    BY <1>8 DEF FetchFails, TypeOK
  <2> QED BY <1>8, <2>1, <2>2 DEF FetchFails, TypeOK, dataVars, envVars
<1>9. ASSUME NEW q \in Query, UseStale(q) PROVE TypeOK'
  <2>1. query' \in [Query -> QueryState] /\ served' \in Answers
    <3>1. CASE Obtain({q}, cache, "kept")
      BY <3>1, <1>b, ObtainTyped
    <3>2. CASE Goto(q, Idle) /\ UNCHANGED served
      BY <3>2, GotoTyped, Places DEF TypeOK, Answers
    <3> QED BY <1>9, <3>1, <3>2 DEF UseStale
  <2> QED BY <1>9, <2>1 DEF UseStale, TypeOK, dataVars, envVars, Answers
<1>10. ASSUME NEW q \in Query, StoreFetched(q) PROVE TypeOK'
  <2>1. query[q].resp \in Response
    BY <1>10, HeldResponse DEF StoreFetched, Holding
  <2>2. [query[q] EXCEPT !.at = "fetched"] \in QueryState
    <3>1. query[q] \in QueryState /\ query[q].at = "store"
      BY <1>10 DEF TypeOK, StoreFetched
    <3> QED BY <3>1 DEF QueryState
  <2>3. query' \in [Query -> QueryState]
    BY <1>10, <2>2, GotoTyped DEF StoreFetched
  <2>4. row' \in {Nothing} \cup Response
    BY <1>10, <1>a, <2>1 DEF StoreFetched, Visible
  <2> QED BY <1>10, <2>3, <2>4 DEF StoreFetched, TypeOK, envVars
<1>11. ASSUME NEW q \in Query, FinishFetch(q) PROVE TypeOK'
  <2>1. query[q].resp \in Response
    BY <1>11, HeldResponse DEF FinishFetch, Holding
  <2>2. cache' \in Entries
    BY <1>11, <2>1, CacheTyped DEF FinishFetch
  <2>3. query' \in [Query -> QueryState] /\ served' \in Answers
    <3>1. CASE Obtain(Sharing(q), query[q].resp, "fetched")
      BY <3>1, <2>1, ObtainTyped, ResponseFields DEF Sharing
    <3>2. CASE Goto(q, Idle) /\ Return(query[q].resp, "fetched")
      BY <3>2, <2>1, GotoTyped, ReturnTyped, Places, ResponseFields DEF TypeOK, Answers
    <3> QED BY <1>11, <3>1, <3>2 DEF FinishFetch
  <2>4. flight' \in Query \cup {Nobody}
    BY <1>11 DEF FinishFetch, TypeOK
  <2> QED BY <1>11, <2>2, <2>3, <2>4 DEF FinishFetch, TypeOK, Entries, envVars, Answers
<1>12. ASSUME PeerFetches PROVE TypeOK'
  BY <1>12 DEF PeerFetches, FromFallback, TypeOK, dataVars
<1>13. ASSUME NEW r \in replicas, ApplyReplicated(r) PROVE TypeOK'
  <2>1. r \in Response /\ replicas' \subseteq Response
    BY <1>13 DEF ApplyReplicated, TypeOK
  <2>2. row' \in {Nothing} \cup Response /\ applied' \subseteq Response
    BY <1>13, <2>1 DEF ApplyReplicated, TypeOK
  <2> QED BY <1>13, <2>1, <2>2 DEF ApplyReplicated, TypeOK
<1>18. ASSUME NEW r \in applied, CacheReplicated(r) PROVE TypeOK'
  <2>1. cache' \in Entries /\ applied' \subseteq Response
    BY <1>18, CacheTyped DEF CacheReplicated, TypeOK
  <2> QED BY <1>18, <2>1 DEF CacheReplicated, TypeOK, Entries
<1>14. ASSUME Cleanup PROVE TypeOK'
  BY <1>14 DEF Cleanup, TypeOK, envVars
<1>15. ASSUME Rotate PROVE TypeOK'
  BY <1>15, Constants DEF Rotate, TypeOK, Version, dataVars
<1>16. ASSUME Tick PROVE TypeOK'
  <2>1. UNCHANGED <<flight, query, applied, origin, served>>
    BY <1>16 DEF Tick
  <2> QED BY <1>16, <2>1, TickTyped DEF TypeOK, Entries
<1>17. CASE UNCHANGED vars
  BY <1>17 DEF vars, dataVars, envVars, TypeOK
<1> QED
  BY <1>1, <1>2, <1>3, <1>4, <1>5, <1>6, <1>7, <1>8, <1>9, <1>10, <1>11, <1>12, <1>13,
     <1>14, <1>15, <1>16, <1>17, <1>18 DEF Next, Step

-----------------------------------------------------------------------------
(* Freshness.  A response that a query sees in the database, or has in its *)
(* hands from there, has not expired; the memory cache may keep an expired *)
(* one, which cacheEntryValid and the last check of GetServerKeys pass     *)
(* over.                                                                   *)

Fresh ==
    /\ row # Nothing => row.left # 0
    /\ \A q \in Query : query[q].at = "keep" => query[q].resp.left # 0
    /\ ExpiredNotKept

\* Where the others stay, one goes: to read the row, or elsewhere.
LEMMA FreshGoto ==
    ASSUME TypeOK, Fresh, NEW p \in Query, NEW s, Goto(p, s), s.at # "keep" \/ s.resp.left # 0,
           row' = row \/ row' = Nothing \/ row'.left # 0, ExpiredNotKept'
    PROVE  Fresh'
<1>1. \A q \in Query : query'[q] = query[q] \/ query'[q] = s
  BY DEF Goto, TypeOK
<1> QED BY <1>1 DEF Fresh

\* Those who obtain a response hold nothing any more.
LEMMA FreshObtain ==
    ASSUME Fresh, NEW qs \in SUBSET Query, NEW r, NEW from, Obtain(qs, r, from),
           r.left # 0 \/ from # "kept", row' = row
    PROVE  Fresh'
<1>1. ExpiredNotKept'
  BY ObtainNotKept DEF Fresh
<1>2. Idle.at # "keep" /\ [at |-> "fetch"].at # "keep"
  BY DEF Idle
<1>3. \A q \in Query : query'[q].at = "keep" => query'[q] = query[q]
  BY <1>2, ObtainMoves
<1> QED BY <1>1, <1>3 DEF Fresh

\* A step that no query makes.
LEMMA FreshApart ==
    ASSUME Fresh, UNCHANGED <<query, served>>, row' = row \/ row' = Nothing \/ row'.left # 0
    PROVE  Fresh'
BY DEF Fresh, ExpiredNotKept

\* A step of a query that touches neither the row nor what was served.
LEMMA FreshMove ==
    ASSUME TypeOK, Fresh, NEW p \in Query, NEW s, Goto(p, s), s.at # "keep", UNCHANGED <<row, served>>
    PROVE  Fresh'
BY FreshGoto DEF Fresh, ExpiredNotKept

\* Nothing that a query sees in the database is expired.
LEMMA FreshStep ==
    ASSUME TypeOK, Fresh, [Next]_vars
    PROVE  Fresh'
<1>a. cache.left \in Nat
  BY Constants DEF TypeOK, NoEntry
<1>1. ASSUME NEW q \in Query, Begin(q) PROVE Fresh'
  BY <1>1, FreshMove DEF Begin, dataVars
<1>2. ASSUME NEW q \in Query, LookCache(q) PROVE Fresh'
  <2>1. CASE cacheEntryValid
    <3>1. Obtain({q}, cache, "kept") /\ cache.left # 0 /\ row' = row
      BY <1>2, <2>1, <1>a DEF LookCache, cacheEntryValid
    <3> QED BY <3>1, FreshObtain
  <2>2. CASE ~cacheEntryValid
    BY <1>2, <2>2, FreshMove DEF LookCache
  <2> QED BY <2>1, <2>2
<1>3. ASSUME NEW q \in Query, ReadRow(q) PROVE Fresh'
  <2>1. UNCHANGED <<row, served>> /\ ExpiredNotKept'
    BY <1>3 DEF ReadRow, dataVars, Fresh, ExpiredNotKept
  <2>2. CASE stored /\ Goto(q, [at |-> "keep", resp |-> row])
    <3>1. row.left # 0
      BY <2>2 DEF stored, Fresh
    <3> QED BY <2>1, <2>2, <3>1, FreshGoto
  <2>3. CASE Goto(q, [at |-> "flight"])
    BY <2>1, <2>3, FreshMove
  <2> QED BY <1>3, <2>2, <2>3 DEF ReadRow
<1>4. ASSUME NEW q \in Query, KeepRow(q) PROVE Fresh'
  <2>1. query[q].resp.left # 0 /\ Obtain({q}, query[q].resp, "kept") /\ row' = row
    BY <1>4 DEF KeepRow, Fresh
  <2> QED BY <2>1, FreshObtain
<1>5. ASSUME NEW q \in Query, JoinFlight(q) PROVE Fresh'
  <2>1. [query[q] EXCEPT !.at = "wait"].at = "wait"
    <3>1. query[q] \in QueryState
      BY DEF TypeOK
    <3> QED BY <3>1 DEF QueryState
  <2>2. \/ Goto(q, [at |-> "fetch"])
        \/ Goto(q, [query[q] EXCEPT !.at = "wait"])
    BY <1>5 DEF JoinFlight
  <2>3. UNCHANGED <<row, served>>
    BY <1>5 DEF JoinFlight, dataVars
  <2> QED BY <2>1, <2>2, <2>3, FreshMove
<1>6. ASSUME NEW q \in Query, FetchDirect(q) \/ FetchFallback(q) PROVE Fresh'
  <2>1. PICK r : Fetched(q, r)
    BY <1>6 DEF FetchDirect, FetchFallback
  <2>2. UNCHANGED <<row, served>>
    BY <1>6 DEF FetchDirect, FetchFallback, dataVars
  <2> QED BY <2>1, <2>2, FreshMove DEF Fetched
<1>7. ASSUME NEW q \in Query, FetchFails(q) PROVE Fresh'
  <2>1. \A p \in Query : query'[p] \in {query[p], [at |-> "stale"], Idle}
    BY <1>7 DEF FetchFails
  <2>2. \A p \in Query : query'[p].at = "keep" => query'[p] = query[p]
    BY <2>1 DEF Idle
  <2> QED BY <1>7, <2>2 DEF FetchFails, dataVars, Fresh, ExpiredNotKept
<1>8. ASSUME NEW q \in Query, UseStale(q) PROVE Fresh'
  <2>1. CASE cache.left > 0
    <3>1. Obtain({q}, cache, "kept") /\ cache.left # 0 /\ row' = row
      BY <1>8, <2>1, <1>a DEF UseStale, dataVars
    <3> QED BY <3>1, FreshObtain
  <2>2. CASE ~(cache.left > 0)
    BY <1>8, <2>2, FreshMove DEF UseStale, dataVars, Idle
  <2> QED BY <2>1, <2>2
<1>9. ASSUME NEW q \in Query, StoreFetched(q) PROVE Fresh'
  <2>1. query[q].resp \in Response
    BY <1>9, HeldResponse DEF StoreFetched, Holding
  <2>2. row' = row \/ row' = Nothing \/ row'.left # 0
    BY <1>9, <2>1 DEF StoreFetched, Visible
  <2>3. [query[q] EXCEPT !.at = "fetched"].at = "fetched"
    <3>1. query[q] \in QueryState /\ query[q].at = "store"
      BY <1>9 DEF TypeOK, StoreFetched
    <3> QED BY <3>1 DEF QueryState
  <2>4. ExpiredNotKept'
    BY <1>9 DEF StoreFetched, Fresh, ExpiredNotKept
  <2> QED BY <1>9, <2>2, <2>3, <2>4, FreshGoto DEF StoreFetched
<1>10. ASSUME NEW q \in Query, FinishFetch(q) PROVE Fresh'
  <2>1. row' = row
    BY <1>10 DEF FinishFetch
  <2>2. CASE Obtain(Sharing(q), query[q].resp, "fetched")
    BY <2>1, <2>2, FreshObtain DEF Sharing
  <2>3. CASE Goto(q, Idle) /\ Return(query[q].resp, "fetched")
    <3>1. ExpiredNotKept'
      BY <2>3, ReturnNotKept DEF Fresh
    <3> QED BY <2>1, <2>3, <3>1, FreshGoto DEF Idle
  <2> QED BY <1>10, <2>2, <2>3 DEF FinishFetch
<1>11. ASSUME PeerFetches \/ Cleanup \/ Rotate \/ UNCHANGED vars PROVE Fresh'
  <2>1. UNCHANGED <<row, query, served>>
    BY <1>11 DEF PeerFetches, Cleanup, Rotate, vars, dataVars
  <2> QED BY <2>1, FreshApart
<1>12. ASSUME NEW r \in replicas, ApplyReplicated(r) PROVE Fresh'
  <2>1. r.left \in Nat
    BY ResponseFields DEF TypeOK
  <2> QED BY <1>12, <2>1, FreshApart DEF ApplyReplicated
<1>13. ASSUME NEW r \in applied, CacheReplicated(r) PROVE Fresh'
  BY <1>13, FreshApart DEF CacheReplicated
<1>14. ASSUME Tick PROVE Fresh'
  <2>1. UNCHANGED <<query, served>>
    BY <1>14 DEF Tick
  <2>2. row' = Nothing \/ row'.left # 0
    <3>1. CASE ~(row.left <= 1)
      <4>1. row \in Response
        BY <3>1 DEF TypeOK, Nothing
      <4>2. row' = [row EXCEPT !.left = @ - 1]
        BY <1>14, <3>1 DEF Tick
      <4>3. row'.left = row.left - 1 /\ row.left \in Nat
        BY <4>1, <4>2, ResponseFields DEF Response
      <4> QED BY <3>1, <4>3
    <3> QED BY <1>14, <3>1 DEF Tick
  <2> QED BY <2>1, <2>2, FreshApart
<1> QED
  BY <1>1, <1>2, <1>3, <1>4, <1>5, <1>6, <1>7, <1>8, <1>9, <1>10, <1>11, <1>12, <1>13, <1>14
  DEF Next, Step

\* Expired responses are served to nobody but those who share the fetch that has
\* just brought one: neither the memory cache nor the database nor another node's
\* message ever serves one, however queries, fetches, replication and time
\* interleave.
THEOREM ExpiredNotKeptTheorem == Spec => []ExpiredNotKept
<1>1. Init => TypeOK /\ Fresh
  BY TypeInit DEF Init, Fresh, Idle, ExpiredNotKept
<1>2. TypeOK /\ Fresh /\ [Next]_vars => (TypeOK /\ Fresh)'
  BY TypeStep, FreshStep
<1>3. Fresh => ExpiredNotKept
  BY DEF Fresh
<1> QED BY <1>1, <1>2, <1>3, PTL DEF Spec

=============================================================================
