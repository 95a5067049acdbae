---------------------------- MODULE GossipProofs ----------------------------
(***************************************************************************)
(* The replicated cache in "crdt" mode, for any number of nodes, keys,     *)
(* updates, starts and stops: timestamps only grow, and no update is       *)
(* forgotten when every node lists every other one as a seed.              *)
(***************************************************************************)
EXTENDS Gossip, FiniteSetTheorems, TLAPS

\* The bounds are numbers.
LEMMA Numbers == MaxStamp \in Nat /\ MaxUpdates \in Nat
BY GossipAssumption

-----------------------------------------------------------------------------
(* Last writer wins: what the two ways of taking over entries do to one    *)
(* cache.                                                                  *)

\* Every entry of `new` is the one of `old` or has a later timestamp.
Newer(new, old) == \A k \in Key : new[k].stamp >= old[k].stamp

\* A timestamp is a number.
LEMMA EntryFields == \A e \in KeyEntry : e.stamp \in Nat
<1>1. \A e \in KeyEntry : e.stamp \in 0 .. MaxStamp
  BY DEF KeyEntry
<1> QED BY <1>1, Numbers

\* applyEntryLocked leaves nothing older than it found or was given.
LEMMA AppliedNewer ==
    ASSUME NEW cache \in Cache, NEW u \in Update
    PROVE  /\ Applied(cache, u) \in Cache /\ Newer(Applied(cache, u), cache)
           /\ ~After(u.entry, Applied(cache, u)[u.key])
<1>1. u.key \in Key /\ u.entry \in KeyEntry /\ \A k \in Key : cache[k] \in KeyEntry
  BY DEF Update, Cache
<1>2. u.entry.stamp \in Nat /\ \A k \in Key : cache[k].stamp \in Nat
  BY <1>1, EntryFields
<1>3. CASE After(u.entry, cache[u.key])
  <2>1. Applied(cache, u) = [cache EXCEPT ![u.key] = u.entry]
    BY <1>3 DEF Applied
  <2>2. Applied(cache, u) \in Cache
    BY <1>1, <2>1 DEF Cache
  <2> QED BY <1>1, <1>2, <1>3, <2>1, <2>2 DEF Newer, After, Cache
<1>4. CASE ~After(u.entry, cache[u.key])
  BY <1>1, <1>2, <1>4 DEF Applied, Newer
<1> QED BY <1>3, <1>4

\* mergeState leaves nothing older than either side.
LEMMA MergedNewer ==
    ASSUME NEW cache \in Cache, NEW remote \in Cache
    PROVE  /\ Merged(cache, remote) \in Cache
           /\ Newer(Merged(cache, remote), cache) /\ Newer(Merged(cache, remote), remote)
<1>1. \A k \in Key : cache[k] \in KeyEntry /\ remote[k] \in KeyEntry
  BY DEF Cache
<1>2. \A k \in Key : cache[k].stamp \in Nat /\ remote[k].stamp \in Nat
  BY <1>1, EntryFields
<1>3. \A k \in Key : Merged(cache, remote)[k] = IF After(remote[k], cache[k]) THEN remote[k] ELSE cache[k]
  BY DEF Merged
<1>4. Merged(cache, remote) \in Cache
  BY <1>1 DEF Merged, Cache
<1> QED BY <1>2, <1>3, <1>4 DEF Newer, After

\* A cache that has an update has it also when it is newer.
LEMMA NewerHas ==
    ASSUME NEW old \in Cache, NEW new \in Cache, Newer(new, old), NEW u \in Update,
           ~After(u.entry, old[u.key])
    PROVE  ~After(u.entry, new[u.key])
<1>1. u.key \in Key /\ u.entry \in KeyEntry /\ old[u.key] \in KeyEntry /\ new[u.key] \in KeyEntry
  BY DEF Update, Cache
<1> QED BY <1>1, EntryFields DEF Newer, After

-----------------------------------------------------------------------------
(* Types.  A message is only ever on its way to a process that runs.       *)

Typed ==
    /\ localNode \in [Node -> NodeState \cup {"down"}]
    /\ keys \in [Node -> Cache]
    /\ joinLeft \in [Node -> SUBSET Node]
    /\ publishing \in [Node -> SUBSET Update]
    /\ msgs \subseteq Message /\ written \subseteq Update /\ IsFiniteSet(written)
    /\ gap \in BOOLEAN

Reachable == \A m \in msgs : Up(m.to)

\* The fields of the messages of each type.
LEMMA MessageFields ==
    ASSUME NEW m \in Message
    PROVE  /\ m.from \in Node /\ m.to \in Node
           /\ m.type = "join" => /\ m.conn \in BOOLEAN /\ m.state \in NodeState
                                 /\ [m EXCEPT !.conn = FALSE] \in Message
                                 /\ [m EXCEPT !.conn = FALSE].to = m.to
                                 /\ [m EXCEPT !.conn = FALSE].type = "join"
           /\ m.type = "sync" => m.keys \in Cache
           /\ m.type = "update" => m.update \in Update
<1>1. m.from \in Node /\ m.to \in Node
  BY DEF Message
<1>2. ASSUME m.type = "join"
      PROVE  m \in [type : {"join"}, from : Node, to : Node, state : NodeState, conn : BOOLEAN]
  BY <1>2 DEF Message
<1>3. m.type = "join" => /\ m.conn \in BOOLEAN /\ m.state \in NodeState
                         /\ [m EXCEPT !.conn = FALSE] \in Message
                         /\ [m EXCEPT !.conn = FALSE].to = m.to
                         /\ [m EXCEPT !.conn = FALSE].type = "join"
  BY <1>2 DEF Message
<1>4. m.type = "sync" => m.keys \in Cache
  BY DEF Message
<1>5. m.type = "update" => m.update \in Update
  BY DEF Message
<1> QED BY <1>1, <1>3, <1>4, <1>5

\* A broadcast reaches running nodes only.
LEMMA SentTyped ==
    ASSUME msgs \subseteq Message, Reachable, NEW ms \in SUBSET Message
    PROVE  Sent(ms) \subseteq Message /\ \A m \in Sent(ms) : Up(m.to)
BY DEF Sent, Reachable

-----------------------------------------------------------------------------
(* The inductive invariant.                                                *)

\* A message to n carries u or a state that has u.
Carried(u, n) ==
    \E m \in msgs :
        /\ m.to = n
        /\ \/ m.type = "update" /\ m.update = u
           \/ m.type = "sync" /\ ~After(u.entry, m.keys[u.key])

\* An update that is not broadcast yet is in the cache of its writer, who runs.
Publishing ==
    \A n \in Node : \A u \in publishing[n] : u.entry.node = n /\ Up(n) /\ Has(n, u)

\* A running node that has u will broadcast it, or give n its state.
Source(h, u, n) == Up(h) /\ Has(h, u) /\ (Pulls(n, h) \/ u \in publishing[h])

Reaches(u) ==
    /\ \E h \in Node : Up(h) /\ Has(h, u)
    /\ \A n \in Node : Up(n) => Has(n, u) \/ Carried(u, n) \/ \E h \in Node : Source(h, u, n)

\* Every node lists every other one as a seed.
FullMesh == \A n \in Node : Seeds[n] = Node \ {n}

Kept == FullMesh /\ ~gap => \A u \in written : Reaches(u)

IInv == Typed /\ Reachable /\ Publishing /\ Kept

\* The invariant gives the property.
LEMMA InvImplies == IInv /\ FullMesh => NothingForgotten
<1> SUFFICES ASSUME IInv, FullMesh, ~gap, NEW n \in Node, Up(n), NEW u \in written
             PROVE  Has(n, u) \/ OnItsWay(u, n)
  BY DEF NothingForgotten
<1>1. Reaches(u)
  BY DEF IInv, Kept
<1>2. CASE Carried(u, n)
  BY <1>2 DEF Carried, OnItsWay
<1>3. ASSUME NEW h \in Node, Source(h, u, n)
      PROVE  OnItsWay(u, n)
  <2>1. CASE u \in publishing[h]
    <3>1. u.entry.node = h
      BY <2>1 DEF IInv, Publishing
    <3> QED BY <2>1, <3>1 DEF OnItsWay
  <2>2. CASE Pulls(n, h)
    BY <1>3, <2>2 DEF OnItsWay, WillPull, Source
  <2> QED BY <1>3, <2>1, <2>2 DEF Source
<1> QED BY <1>1, <1>2, <1>3 DEF Reaches

\* Nothing is written at first.
LEMMA InvInit == Init => IInv
<1> SUFFICES ASSUME Init
             PROVE  IInv
  OBVIOUS
<1>1. EmptyCache \in Cache
  <2>1. NoEntry \in KeyEntry
    BY Numbers DEF NoEntry, KeyEntry
  <2> QED BY <2>1 DEF EmptyCache, Cache
<1>2. Typed
  BY <1>1, FS_EmptySet DEF Init, Typed
<1> QED BY <1>2 DEF Init, IInv, Reachable, Publishing, Kept

\* An update that reaches everybody still does after a step that stops nobody
\* and lets go of a message or of a pull only for what follows from it.
LEMMA StillReaches ==
    ASSUME NEW u, Reaches(u),
           \A n \in Node : Up(n)' <=> Up(n),
           \A n \in Node : Has(n, u) => Has(n, u)',
           \A n \in Node : Carried(u, n) => Carried(u, n)' \/ Has(n, u)',
           \A n, h \in Node : /\ Up(n) /\ Up(h) /\ Has(h, u) /\ Pulls(n, h)
                              => Pulls(n, h)' \/ Carried(u, n)',
           \A h \in Node : u \in publishing[h] => u \in publishing'[h]
    PROVE  Reaches(u)'
<1>1. \E h \in Node : Up(h)' /\ Has(h, u)'
  BY DEF Reaches
<1>2. ASSUME NEW n \in Node, Up(n)'
      PROVE  Has(n, u)' \/ Carried(u, n)' \/ \E h \in Node : Source(h, u, n)'
  <2>1. Up(n) /\ (Has(n, u) \/ Carried(u, n) \/ \E h \in Node : Source(h, u, n))
    BY <1>2 DEF Reaches
  <2>2. ASSUME NEW h \in Node, Source(h, u, n)
        PROVE  Carried(u, n)' \/ Source(h, u, n)'
    BY <2>1, <2>2 DEF Source
  <2> QED BY <2>1, <2>2
<1> QED BY <1>1, <1>2 DEF Reaches

-----------------------------------------------------------------------------
(* Steps that only exchange messages.                                      *)

\* Steps that move messages and membership but no entry.
LEMMA ExchangeStep ==
    ASSUME IInv, UNCHANGED <<keys, publishing, written>>,
           gap' \in BOOLEAN, gap => gap',
           localNode' \in [Node -> NodeState \cup {"down"}],
           \A n \in Node : Up(n)' <=> Up(n),
           joinLeft' \in [Node -> SUBSET Node],
           msgs' \subseteq Message, \A m \in msgs' : Up(m.to),
           ~gap' => \A u \in written :
               /\ \A n \in Node : Carried(u, n) => Carried(u, n)'
               /\ \A n, h \in Node : /\ Up(n) /\ Up(h) /\ Has(h, u) /\ Pulls(n, h)
                                     => Pulls(n, h)' \/ Carried(u, n)'
    PROVE  IInv'
<1>1. Typed'
  BY DEF IInv, Typed
<1>2. \A m \in msgs' : m.to \in Node
  BY MessageFields
<1>3. Reachable'
  BY <1>2 DEF Reachable
<1>4. \A n \in Node, u \in Update : Has(n, u)' <=> Has(n, u)
  BY DEF Has, After
<1>5. Publishing'
  BY <1>4 DEF IInv, Typed, Publishing
<1>6. Kept'
  <2> SUFFICES ASSUME FullMesh, ~gap', NEW u \in written
               PROVE  Reaches(u)'
    BY DEF Kept
  <2>1. Reaches(u) /\ u \in Update
    BY DEF IInv, Kept, Typed
  <2> QED BY <1>4, <2>1, StillReaches
<1> QED BY <1>1, <1>3, <1>5, <1>6 DEF IInv

\* A message that is neither a join, a pong, a request nor carries entries may
\* come and go.
LEMMA MoreMessages ==
    ASSUME \A m \in msgs : m \in msgs' \/ m.type = "leave",
           NEW u, NEW n \in Node, NEW h \in Node
    PROVE  /\ Carried(u, n) => Carried(u, n)'
           /\ joinLeft' = joinLeft /\ Pulls(n, h) => Pulls(n, h)'
<1>1. Carried(u, n) => Carried(u, n)'
  BY DEF Carried
<1>2. joinLeft' = joinLeft /\ Pulls(n, h) => Pulls(n, h)'
  BY DEF Pulls
<1> QED BY <1>1, <1>2

\* A node that leaves says so first.
LEMMA StopBeginStep ==
    ASSUME IInv, NEW n \in Node, StopBegin(n)
    PROVE  IInv'
<1>1. /\ localNode' = [localNode EXCEPT ![n] = "leaving"] /\ localNode[n] = "healthy"
      /\ UNCHANGED <<keys, publishing, written, gap, joinLeft>>
  BY DEF StopBegin, cacheVars
<1>2. /\ localNode' \in [Node -> NodeState \cup {"down"}]
      /\ \A p \in Node : Up(p)' <=> Up(p)
  BY <1>1 DEF IInv, Typed, NodeState, Up
<1>3. {[type |-> "leave", from |-> n, to |-> p] : p \in Known(n)} \subseteq Message
  BY DEF Message, Known
<1>4. msgs' \subseteq Message /\ \A m \in msgs' : Up(m.to)
  BY <1>3, SentTyped DEF IInv, Typed, StopBegin
<1>5. \A m \in msgs : m \in msgs'
  BY DEF StopBegin, Sent
<1> QED BY <1>1, <1>2, <1>4, <1>5, MoreMessages, ExchangeStep DEF IInv, Typed

\* handleLeave, ping, and a seed given up.
LEMMA IdleStep ==
    ASSUME IInv, UNCHANGED <<localNode, keys, publishing, written, gap, joinLeft>>,
           msgs' \subseteq msgs, \A m \in msgs : m \in msgs' \/ m.type = "leave"
    PROVE  IInv'
<1>1. \A p \in Node : Up(p)' <=> Up(p)
  BY DEF Up
<1>2. msgs' \subseteq Message /\ \A m \in msgs' : Up(m.to)
  BY DEF IInv, Typed, Reachable
<1> QED BY <1>1, <1>2, MoreMessages, ExchangeStep DEF IInv, Typed

\* A lost message opens the gap, or nobody needed it.
LEMMA LoseStep ==
    ASSUME IInv, NEW m \in msgs, Lose(m)
    PROVE  IInv'
<1>1. /\ UNCHANGED <<localNode, keys, publishing, written, joinLeft>>
      /\ msgs' = msgs \ {m} /\ gap' = (gap \/ m.type # "leave")
  BY DEF Lose, memberVars, cacheVars
<1>2. \A p \in Node : Up(p)' <=> Up(p)
  BY <1>1 DEF Up
<1>3. msgs' \subseteq Message /\ \A x \in msgs' : Up(x.to)
  BY <1>1 DEF IInv, Typed, Reachable
<1>4. ~gap' => \A x \in msgs : x \in msgs' \/ x.type = "leave"
  BY <1>1
<1> QED BY <1>1, <1>2, <1>3, <1>4, MoreMessages, ExchangeStep DEF IInv, Typed

-----------------------------------------------------------------------------
(* Joining: a pull goes from the list of seeds through join, pong and      *)
(* request to the state that is sent.                                      *)

\* joinSeeds turns a seed still to be asked into a request on its way.
LEMMA JoinSeedStep ==
    ASSUME IInv, NEW n \in Node, JoinSeed(n)
    PROVE  IInv'
<1>1. PICK s \in joinLeft[n] :
          /\ joinLeft' = [joinLeft EXCEPT ![n] = @ \ {s}]
          /\ msgs' = Sent({[type |-> "join", from |-> n, to |-> s, state |-> localNode[n], conn |-> TRUE]})
  BY DEF JoinSeed
<1>2. Up(n) /\ UNCHANGED <<localNode, keys, publishing, written, gap>>
  BY DEF JoinSeed, cacheVars
<1> DEFINE j == [type |-> "join", from |-> n, to |-> s, state |-> localNode[n], conn |-> TRUE]
<1>3. s \in Node /\ localNode[n] \in NodeState
  BY <1>2 DEF IInv, Typed, Up
<1>4. j \in Message
  BY <1>3 DEF Message
<1>5. msgs' \subseteq Message /\ \A m \in msgs' : Up(m.to)
  BY <1>1, <1>4, SentTyped DEF IInv, Typed
<1>6. \A p \in Node : Up(p)' <=> Up(p)
  BY <1>2 DEF Up
<1>7. joinLeft' \in [Node -> SUBSET Node]
  BY <1>1 DEF IInv, Typed
<1>8. msgs \subseteq msgs' /\ (Up(s) => j \in msgs')
  BY <1>1 DEF Sent
<1>9. \A u, p : Carried(u, p) => Carried(u, p)'
  BY <1>8 DEF Carried
<1>10. ASSUME NEW p \in Node, NEW h \in Node, Up(h), Pulls(p, h)
       PROVE  Pulls(p, h)'
  <2>1. CASE p = n /\ h = s
    <3>1. j \in msgs' /\ j.type = "join" /\ j.from = p /\ j.to = h /\ j.conn
      BY <1>8, <1>10, <2>1
    <3> QED BY <3>1 DEF Pulls
  <2>2. CASE ~(p = n /\ h = s)
    <3>1. h \in joinLeft[p] => h \in joinLeft'[p]
      BY <1>1, <2>2 DEF IInv, Typed
    <3> QED BY <1>8, <1>10, <3>1 DEF Pulls
  <2> QED BY <2>1, <2>2
<1> QED BY <1>2, <1>5, <1>6, <1>7, <1>9, <1>10, ExchangeStep DEF IInv, Typed

\* One message of a join is answered by the next.
LEMMA AnswerStep ==
    ASSUME IInv, NEW m \in msgs, m.type \in {"join", "pong", "syncreq"},
           UNCHANGED <<localNode, keys, publishing, written, gap, joinLeft>>,
           NEW ms \in SUBSET Message, msgs' = Sent(ms) \ {m},
           NEW p \in Node, NEW q \in Node,
           \A n, h \in Node : /\ m.type = "join" /\ m.from = n /\ m.to = h /\ m.conn
                              => n = p /\ h = q,
           \A n, h \in Node : m.type = "syncreq" /\ m.from = n /\ m.to = h => n = p /\ h = q,
           \A n, h \in Node : m.type = "pong" /\ m.from = h /\ m.to = n => n = p /\ h = q,
           \A u \in written : /\ Up(p) /\ Up(q) /\ Has(q, u) /\ Pulls(p, q)
                              => Pulls(p, q)' \/ Carried(u, p)'
    PROVE  IInv'
<1>1. \A n \in Node : Up(n)' <=> Up(n)
  BY DEF Up
<1>2. msgs' \subseteq Message /\ \A x \in msgs' : Up(x.to)
  BY SentTyped DEF IInv, Typed
<1>3. \A x \in msgs : x = m \/ x \in msgs'
  BY DEF Sent
<1>4. \A u, n : Carried(u, n) => Carried(u, n)'
  BY <1>3 DEF Carried
<1>5. ASSUME NEW n \in Node, NEW h \in Node, Pulls(n, h), ~(n = p /\ h = q)
      PROVE  Pulls(n, h)'
  BY <1>3, <1>5 DEF Pulls
<1> QED BY <1>1, <1>2, <1>4, <1>5, ExchangeStep DEF IInv, Typed

\* The seed answers a join.
LEMMA HandleJoinStep ==
    ASSUME IInv, NEW m \in msgs, HandleJoin(m)
    PROVE  IInv'
<1> DEFINE pong == [type |-> "pong", from |-> m.to, to |-> m.from, state |-> localNode[m.to]]
<1>1. /\ m.type = "join" /\ UNCHANGED <<localNode, keys, publishing, written, gap, joinLeft>>
      /\ msgs' = Sent({x \in {pong} : m.conn}) \ {m}
  BY DEF HandleJoin, cacheVars
<1>2. m.from \in Node /\ m.to \in Node /\ Up(m.to)
  BY MessageFields DEF IInv, Typed, Reachable
<1>3. localNode[m.to] \in NodeState
  BY <1>2 DEF IInv, Typed, Up
<1>4. {x \in {pong} : m.conn} \in SUBSET Message
  BY <1>2, <1>3 DEF Message
<1>5. m.conn /\ Up(m.from) => Pulls(m.from, m.to)'
  <2> SUFFICES ASSUME m.conn, Up(m.from)
               PROVE  Pulls(m.from, m.to)'
    OBVIOUS
  <2>1. pong \in msgs'
    BY <1>1 DEF Sent
  <2> QED BY <2>1 DEF Pulls
<1>6. CASE m.conn
  BY <1>1, <1>2, <1>4, <1>5, <1>6, AnswerStep
<1>7. CASE ~m.conn
  <2>1. Pulls(m.from, m.to) => Pulls(m.from, m.to)'
    BY <1>1, <1>7 DEF Pulls, Sent
  <2> QED BY <1>1, <1>2, <1>4, <1>7, <2>1, AnswerStep
<1> QED BY <1>6, <1>7

\* The answer makes the joiner ask for the state.
LEMMA HandlePongStep ==
    ASSUME IInv, NEW m \in msgs, HandlePong(m)
    PROVE  IInv'
<1> DEFINE req == [type |-> "syncreq", from |-> m.to, to |-> m.from]
<1>1. /\ m.type = "pong" /\ UNCHANGED <<localNode, keys, publishing, written, gap, joinLeft>>
      /\ msgs' = Sent({req}) \ {m}
  BY DEF HandlePong, cacheVars
<1>2. m.from \in Node /\ m.to \in Node
  BY MessageFields DEF IInv, Typed
<1>3. {req} \in SUBSET Message
  BY <1>2 DEF Message
<1>4. Up(m.from) => Pulls(m.to, m.from)'
  <2> SUFFICES ASSUME Up(m.from)
               PROVE  Pulls(m.to, m.from)'
    OBVIOUS
  <2>1. req \in msgs'
    BY <1>1 DEF Sent
  <2> QED BY <2>1 DEF Pulls
<1> QED BY <1>1, <1>2, <1>3, <1>4, AnswerStep

\* The seed sends all that it has.
LEMMA HandleSyncRequestStep ==
    ASSUME IInv, NEW m \in msgs, HandleSyncRequest(m)
    PROVE  IInv'
<1> DEFINE sync == [type |-> "sync", from |-> m.to, to |-> m.from, keys |-> keys[m.to]]
<1>1. /\ m.type = "syncreq" /\ UNCHANGED <<localNode, keys, publishing, written, gap, joinLeft>>
      /\ msgs' = Sent({sync}) \ {m}
  BY DEF HandleSyncRequest, cacheVars, memberVars
<1>2. m.from \in Node /\ m.to \in Node
  BY MessageFields DEF IInv, Typed
<1>3. {sync} \in SUBSET Message
  <2>1. keys[m.to] \in Cache
    BY <1>2 DEF IInv, Typed
  <2>2. sync \in [type : {"sync"}, from : Node, to : Node, keys : Cache]
    BY <1>2, <2>1
  <2>3. sync \in Message
    BY <2>2, Zenon DEF Message
  <2> QED BY <2>3
<1>4. ASSUME NEW u \in written, Up(m.from), Has(m.to, u)
      PROVE  Carried(u, m.from)'
  <2>1. sync \in msgs'
    BY <1>1, <1>4 DEF Sent
  <2>2. sync.to = m.from /\ sync.type = "sync" /\ ~After(u.entry, sync.keys[u.key])
    BY <1>4 DEF Has
  <2> QED BY <2>1, <2>2 DEF Carried, After
<1> QED BY <1>1, <1>2, <1>3, <1>4, AnswerStep

-----------------------------------------------------------------------------
(* Entries taken over from a message.                                      *)

\* A state or an update arrives.
LEMMA DeliverStep ==
    ASSUME IInv, NEW m \in msgs, msgs' = msgs \ {m}, m.type \in {"sync", "update"},
           UNCHANGED <<localNode, publishing, written, gap, joinLeft>>,
           NEW new \in Cache, keys' = [keys EXCEPT ![m.to] = new], Newer(new, keys[m.to]),
           \A u \in written : \/ m.type = "update" /\ m.update = u
                              \/ m.type = "sync" /\ ~After(u.entry, m.keys[u.key])
                              => ~After(u.entry, new[u.key])
    PROVE  IInv'
<1>1. m.to \in Node
  BY MessageFields DEF IInv, Typed
<1>2. Typed'
  BY <1>1 DEF IInv, Typed
<1>3. \A p \in Node : Up(p)' <=> Up(p)
  BY DEF Up
<1>4. Reachable'
  <2>1. \A x \in msgs : x.to \in Node
    BY MessageFields DEF IInv, Typed
  <2> QED BY <1>3, <2>1 DEF IInv, Reachable
<1>5. ASSUME NEW p \in Node, NEW u \in Update, Has(p, u)
      PROVE  Has(p, u)'
  <2>1. CASE p = m.to
    <3>1. keys[p] \in Cache /\ keys'[p] = new
      BY <2>1 DEF IInv, Typed
    <3>2. ~After(u.entry, keys[p][u.key])
      BY <1>5 DEF Has
    <3>3. ~After(u.entry, new[u.key])
      BY <2>1, <3>1, <3>2, NewerHas
    <3> QED BY <3>1, <3>3 DEF Has, After
  <2>2. CASE p # m.to
    <3>1. keys'[p] = keys[p]
      BY <2>2 DEF IInv, Typed
    <3> QED BY <1>5, <3>1 DEF Has, After
  <2> QED BY <2>1, <2>2
<1>6. Publishing'
  BY <1>3, <1>5 DEF IInv, Typed, Publishing
<1>7. Kept'
  <2> SUFFICES ASSUME FullMesh, ~gap, NEW u \in written
               PROVE  Reaches(u)'
    BY DEF Kept
  <2>1. Reaches(u) /\ u \in Update
    BY DEF IInv, Kept, Typed
  <2>2. ASSUME NEW n \in Node, Carried(u, n)
        PROVE  Carried(u, n)' \/ Has(n, u)'
    <3>1. PICK x \in msgs : /\ x.to = n
                            /\ \/ x.type = "update" /\ x.update = u
                               \/ x.type = "sync" /\ ~After(u.entry, x.keys[u.key])
      BY <2>2 DEF Carried
    <3>2. CASE x # m
      BY <3>1, <3>2 DEF Carried, After
    <3>3. CASE x = m
      <4>1. keys'[n] = new
        BY <3>1, <3>3 DEF IInv, Typed
      <4>2. ~After(u.entry, new[u.key])
        BY <3>1, <3>3
      <4> QED BY <4>1, <4>2 DEF Has, After
    <3> QED BY <3>2, <3>3
  <2>3. ASSUME NEW n \in Node, NEW h \in Node, Pulls(n, h)
        PROVE  Pulls(n, h)'
    BY <2>3 DEF Pulls
  <2> QED BY <1>3, <1>5, <2>1, <2>2, <2>3, StillReaches
<1> QED BY <1>2, <1>4, <1>6, <1>7 DEF IInv

\* mergeState takes in a state.
LEMMA HandleSyncStep ==
    ASSUME IInv, NEW m \in msgs, HandleSync(m)
    PROVE  IInv' /\ \A n \in Node : Newer(keys'[n], keys[n])
<1> DEFINE new == Merged(keys[m.to], m.keys)
<1>1. /\ m.type = "sync" /\ msgs' = msgs \ {m}
      /\ UNCHANGED <<localNode, publishing, written, gap, joinLeft>>
      /\ keys' = [keys EXCEPT ![m.to] = new]
  BY DEF HandleSync
<1>2. m.to \in Node /\ m.keys \in Cache /\ keys[m.to] \in Cache
  BY <1>1, MessageFields DEF IInv, Typed
<1>3. new \in Cache /\ Newer(new, keys[m.to]) /\ Newer(new, m.keys)
  BY <1>2, MergedNewer
<1>4. \A u \in written : ~After(u.entry, m.keys[u.key]) => ~After(u.entry, new[u.key])
  BY <1>2, <1>3, NewerHas DEF IInv, Typed
<1>5. IInv'
  <2> HIDE DEF new
  <2> QED BY <1>1, <1>3, <1>4, DeliverStep
<1>6. \A n \in Node : Newer(keys'[n], keys[n])
  <2> HIDE DEF new
  <2>1. \A n \in Node : keys[n] \in Cache
    BY DEF IInv, Typed
  <2>2. \A n \in Node : Newer(keys[n], keys[n])
    BY <2>1, EntryFields DEF Newer, Cache
  <2> QED BY <1>1, <1>3, <2>2 DEF IInv, Typed
<1> QED BY <1>5, <1>6

\* applyEntryLocked takes in an update.
LEMMA HandleKeyUpdateStep ==
    ASSUME IInv, NEW m \in msgs, HandleKeyUpdate(m)
    PROVE  IInv' /\ \A n \in Node : Newer(keys'[n], keys[n])
<1> DEFINE new == Applied(keys[m.to], m.update)
<1>1. /\ m.type = "update" /\ msgs' = msgs \ {m}
      /\ UNCHANGED <<localNode, publishing, written, gap, joinLeft>>
      /\ keys' = [keys EXCEPT ![m.to] = new]
  BY DEF HandleKeyUpdate, memberVars
<1>2. m.to \in Node /\ m.update \in Update /\ keys[m.to] \in Cache
  BY <1>1, MessageFields DEF IInv, Typed
<1>3. new \in Cache /\ Newer(new, keys[m.to]) /\ ~After(m.update.entry, new[m.update.key])
  BY <1>2, AppliedNewer
<1> HIDE DEF new
<1>4. IInv'
  BY <1>1, <1>3, DeliverStep
<1>5. \A n \in Node : Newer(keys'[n], keys[n])
  <2>1. \A n \in Node : keys[n] \in Cache
    BY DEF IInv, Typed
  <2>2. \A n \in Node : Newer(keys[n], keys[n])
    BY <2>1, EntryFields DEF Newer, Cache
  <2> QED BY <1>1, <1>3, <2>2 DEF IInv, Typed
<1> QED BY <1>4, <1>5

-----------------------------------------------------------------------------
(* Updates.                                                                *)

\* A writer has the update before anybody else.
LEMMA StoreUpdateStep ==
    ASSUME IInv, NEW w \in Node, NEW k \in Key, StoreUpdate(w, k)
    PROVE  IInv' /\ \A n \in Node : Newer(keys'[n], keys[n])
<1>1. PICK t \in 1 .. MaxStamp :
          LET u == [key |-> k, entry |-> [stamp |-> t, node |-> w, id |-> Cardinality(written) + 1]]
          IN  /\ keys' = [keys EXCEPT ![w] = Applied(@, u)]
              /\ publishing' = [publishing EXCEPT ![w] = @ \cup {u}]
              /\ written' = written \cup {u}
  BY DEF StoreUpdate
<1>2. Up(w) /\ Cardinality(written) < MaxUpdates /\ UNCHANGED <<localNode, msgs, gap, joinLeft>>
  BY DEF StoreUpdate, memberVars
<1>3. PICK v : v = [key |-> k, entry |-> [stamp |-> t, node |-> w, id |-> Cardinality(written) + 1]]
  OBVIOUS
<1>4. v \in Update /\ v.entry.node = w
  <2>1. Cardinality(written) \in Nat
    BY FS_CardinalityType DEF IInv, Typed
  <2>2. Cardinality(written) + 1 \in 0 .. MaxUpdates /\ t \in 0 .. MaxStamp
    BY <1>2, <2>1, Numbers
  <2>3. [stamp |-> t, node |-> w, id |-> Cardinality(written) + 1] \in KeyEntry
    BY <2>2 DEF KeyEntry
  <2> QED BY <1>3, <2>3 DEF Update
<1>5. /\ keys' = [keys EXCEPT ![w] = Applied(keys[w], v)]
      /\ publishing' = [publishing EXCEPT ![w] = @ \cup {v}] /\ written' = written \cup {v}
  BY <1>1, <1>3
<1>6. /\ Applied(keys[w], v) \in Cache /\ Newer(Applied(keys[w], v), keys[w])
      /\ ~After(v.entry, Applied(keys[w], v)[v.key])
  BY <1>4, AppliedNewer DEF IInv, Typed
<1>7. Typed'
  <2>1. IsFiniteSet(written')
    BY <1>5, FS_AddElement DEF IInv, Typed
  <2> QED BY <1>2, <1>4, <1>5, <1>6, <2>1 DEF IInv, Typed
<1>8. \A n \in Node : Newer(keys'[n], keys[n])
  <2>1. \A n \in Node : keys[n] \in Cache
    BY DEF IInv, Typed
  <2>2. \A n \in Node : Newer(keys[n], keys[n])
    BY <2>1, EntryFields DEF Newer, Cache
  <2>3. keys'[w] = Applied(keys[w], v) /\ \A n \in Node \ {w} : keys'[n] = keys[n]
    BY <1>5 DEF IInv, Typed
  <2> QED BY <1>6, <2>2, <2>3
<1>9. ASSUME NEW n \in Node, NEW u \in Update, Has(n, u)
      PROVE  Has(n, u)'
  <2>1. keys[n] \in Cache /\ keys'[n] \in Cache /\ Newer(keys'[n], keys[n])
    BY <1>7, <1>8 DEF IInv, Typed
  <2>2. ~After(u.entry, keys[n][u.key])
    BY <1>9 DEF Has
  <2>3. ~After(u.entry, keys'[n][u.key])
    BY <2>1, <2>2, NewerHas
  <2> QED BY <2>3 DEF Has, After
<1>10. Has(w, v)'
  <2>1. keys'[w] = Applied(keys[w], v)
    BY <1>5 DEF IInv, Typed
  <2> QED BY <1>6, <2>1 DEF Has, After
<1>11. \A n \in Node : Up(n)' <=> Up(n)
  BY <1>2 DEF Up
<1>12. Reachable'
  <2>1. \A x \in msgs : x.to \in Node
    BY MessageFields DEF IInv, Typed
  <2> QED BY <1>2, <1>11, <2>1 DEF IInv, Reachable
<1>13. \A n \in Node : publishing'[n] = IF n = w THEN publishing[n] \cup {v} ELSE publishing[n]
  BY <1>5 DEF IInv, Typed
<1>14. Publishing'
  <2> SUFFICES ASSUME NEW n \in Node, NEW u \in publishing'[n]
               PROVE  u.entry.node = n /\ Up(n)' /\ Has(n, u)'
    BY DEF Publishing
  <2>1. CASE u \in publishing[n]
    BY <1>9, <1>11, <2>1 DEF IInv, Typed, Publishing
  <2>2. CASE n = w /\ u = v
    BY <1>2, <1>4, <1>10, <1>11, <2>2
  <2> QED BY <1>13, <2>1, <2>2
<1>15. ASSUME NEW u \in written, FullMesh, ~gap
       PROVE  Reaches(u)'
  <2>1. Reaches(u) /\ u \in Update
    BY <1>15 DEF IInv, Kept, Typed
  <2>2. \A n \in Node : Carried(u, n) => Carried(u, n)'
    BY <1>2 DEF Carried
  <2>3. \A n, h \in Node : Pulls(n, h) => Pulls(n, h)'
    BY <1>2 DEF Pulls
  <2> QED BY <1>9, <1>11, <1>13, <2>1, <2>2, <2>3, StillReaches
<1>16. Reaches(v)'
  <2>1. Up(w)' /\ Has(w, v)' /\ v \in publishing'[w]
    BY <1>2, <1>10, <1>11, <1>13
  <2> QED BY <2>1 DEF Reaches, Source
<1>17. Kept'
  BY <1>2, <1>5, <1>15, <1>16 DEF Kept
<1> QED BY <1>7, <1>8, <1>12, <1>14, <1>17 DEF IInv

\* Who is not told of the update will ask its writer, or there is a gap.
LEMMA BroadcastUpdateStep ==
    ASSUME IInv, NEW w \in Node, BroadcastUpdate(w)
    PROVE  IInv'
<1>1. PICK v \in publishing[w] :
          /\ publishing' = [publishing EXCEPT ![w] = @ \ {v}]
          /\ msgs' = Sent({[type |-> "update", from |-> w, to |-> p, update |-> v] : p \in Known(w)})
          /\ gap' = (gap \/ \E p \in Node \ ({w} \cup Known(w)) : ~WillPull(p, w))
          /\ UNCHANGED <<localNode, joinLeft, keys, written>>
  BY DEF BroadcastUpdate, memberVars
<1>2. v \in Update /\ Up(w) /\ Has(w, v)
  BY DEF IInv, Typed, Publishing
<1>3. {[type |-> "update", from |-> w, to |-> p, update |-> v] : p \in Known(w)} \in SUBSET Message
  <2>1. \A p \in Known(w) : p \in Node
    BY DEF Known
  <2>2. \A p \in Known(w) : [type |-> "update", from |-> w, to |-> p, update |-> v]
                                 \in [type : {"update"}, from : Node, to : Node, update : Update]
    BY <1>2, <2>1
  <2>3. \A p \in Known(w) : [type |-> "update", from |-> w, to |-> p, update |-> v] \in Message
    BY <2>2, Zenon DEF Message
  <2> QED BY <2>3
<1>4. msgs' \subseteq Message /\ \A m \in msgs' : Up(m.to)
  BY <1>1, <1>3, SentTyped DEF IInv, Typed
<1>5. \A n \in Node : Up(n)' <=> Up(n)
  BY <1>1 DEF Up
<1>6. \A n, u : Has(n, u)' <=> Has(n, u)
  BY <1>1 DEF Has, After
<1>7. Typed'
  BY <1>1, <1>4 DEF IInv, Typed
<1>8. Reachable'
  <2>1. \A x \in msgs' : x.to \in Node
    BY <1>4, MessageFields
  <2> QED BY <1>4, <1>5, <2>1 DEF Reachable
<1>9. \A n \in Node : publishing'[n] = IF n = w THEN publishing[n] \ {v} ELSE publishing[n]
  BY <1>1 DEF IInv, Typed
<1>10. Publishing'
  BY <1>5, <1>6, <1>9 DEF IInv, Publishing
<1>11. msgs \subseteq msgs' /\ \A p \in Known(w) : Up(p) =>
            [type |-> "update", from |-> w, to |-> p, update |-> v] \in msgs'
  BY <1>1 DEF Sent
<1>12. \A u, n : Carried(u, n) => Carried(u, n)'
  BY <1>11 DEF Carried, After
<1>13. \A n, h : Pulls(n, h) => Pulls(n, h)'
  BY <1>1, <1>11 DEF Pulls
<1>14. Kept'
  <2> SUFFICES ASSUME FullMesh, ~gap', NEW u \in written
               PROVE  Reaches(u)'
    BY <1>1 DEF Kept
  <2>1. Reaches(u) /\ ~gap
    BY <1>1 DEF IInv, Kept
  <2>2. CASE u # v
    BY <1>5, <1>6, <1>9, <1>12, <1>13, <2>1, <2>2, StillReaches
  <2>3. CASE u = v
    <3> SUFFICES ASSUME NEW n \in Node, Up(n)'
                 PROVE  Has(n, u)' \/ Carried(u, n)' \/ Source(w, u, n)'
      BY <1>2, <1>5, <1>6, <2>3 DEF Reaches
    <3>1. CASE n = w
      BY <1>2, <1>6, <2>3, <3>1
    <3>2. CASE n \in Known(w)
      <4> DEFINE m == [type |-> "update", from |-> w, to |-> n, update |-> v]
      <4>1. m \in msgs' /\ m.to = n /\ m.type = "update" /\ m.update = u
        BY <1>5, <1>11, <2>3, <3>2
      <4> QED BY <4>1 DEF Carried
    <3>3. CASE n \notin {w} \cup Known(w)
      <4>1. Pulls(n, w)
        BY <1>1, <1>5, <3>3 DEF WillPull
      <4> QED BY <1>2, <1>5, <1>6, <1>13, <2>3, <4>1 DEF Source
    <3> QED BY <3>1, <3>2, <3>3
  <2> QED BY <2>2, <2>3
<1> QED BY <1>7, <1>8, <1>10, <1>14 DEF IInv

-----------------------------------------------------------------------------
(* Starts and stops.                                                       *)

\* A process that starts will ask everybody, and somebody has the update.
LEMMA StartStep ==
    ASSUME IInv, NEW n \in Node, Start(n)
    PROVE  IInv'
<1>1. /\ ~Up(n) /\ localNode' = [localNode EXCEPT ![n] = "healthy"]
      /\ joinLeft' = [joinLeft EXCEPT ![n] = Seeds[n]]
      /\ UNCHANGED <<keys, publishing, msgs, written, gap>>
  BY DEF Start, cacheVars
<1>2. Typed'
  BY <1>1, GossipAssumption DEF IInv, Typed, NodeState
<1>3. Up(n)' /\ \A p \in Node : Up(p) => Up(p)'
  BY <1>1 DEF IInv, Typed, Up
<1>4. \A p \in Node : p # n => (Up(p)' => Up(p)) /\ joinLeft'[p] = joinLeft[p]
  BY <1>1 DEF IInv, Typed, Up
<1>5. Reachable'
  <2>1. \A x \in msgs : x.to \in Node
    BY MessageFields DEF IInv, Typed
  <2> QED BY <1>1, <1>3, <2>1 DEF IInv, Reachable
<1>6. \A p, u : Has(p, u)' <=> Has(p, u)
  BY <1>1 DEF Has, After
<1>7. Publishing'
  BY <1>1, <1>3, <1>6 DEF IInv, Publishing
<1>8. Kept'
  <2> SUFFICES ASSUME FullMesh, ~gap, NEW u \in written
               PROVE  Reaches(u)'
    BY <1>1 DEF Kept
  <2>1. Reaches(u)
    BY DEF IInv, Kept
  <2>2. PICK h \in Node : Up(h) /\ Has(h, u)
    BY <2>1 DEF Reaches
  <2>3. ASSUME NEW p \in Node, Up(p)'
        PROVE  Has(p, u)' \/ Carried(u, p)' \/ \E q \in Node : Source(q, u, p)'
    <3>1. CASE p = n
      <4>1. h \in joinLeft'[n]
        BY <1>1, <2>2 DEF IInv, Typed, FullMesh
      <4>2. Source(h, u, p)'
        BY <1>3, <1>6, <2>2, <3>1, <4>1 DEF Source, Pulls
      <4> QED BY <4>2
    <3>2. CASE p # n
      <4>1. Has(p, u) \/ Carried(u, p) \/ \E q \in Node : Source(q, u, p)
        BY <1>4, <2>1, <2>3, <3>2 DEF Reaches
      <4>2. Carried(u, p) => Carried(u, p)'
        BY <1>1 DEF Carried, After
      <4>3. ASSUME NEW q \in Node, Source(q, u, p)
            PROVE  Source(q, u, p)'
        <5>1. Pulls(p, q) => Pulls(p, q)'
          BY <1>1, <1>4, <3>2 DEF Pulls
        <5> QED BY <1>1, <1>3, <1>6, <4>3, <5>1 DEF Source
      <4> QED BY <1>6, <4>1, <4>2, <4>3
    <3> QED BY <3>1, <3>2
  <2> QED BY <1>3, <1>6, <2>2, <2>3 DEF Reaches
<1> QED BY <1>2, <1>5, <1>7, <1>8 DEF IInv

\* A process that ends without a gap has told everybody who runs what it has,
\* and nobody depends on it for what it has not.
LEMMA StopFinishStep ==
    ASSUME IInv, NEW d \in Node, StopFinish(d)
    PROVE  IInv'
<1> DEFINE left == {x \in msgs : x.to # d /\ ~(x.type = "syncreq" /\ x.from = d)}
           cut(m) == IF m.type = "join" /\ m.from = d THEN [m EXCEPT !.conn = FALSE] ELSE m
<1>1. /\ localNode' = [localNode EXCEPT ![d] = "down"]
      /\ keys' = [keys EXCEPT ![d] = EmptyCache]
      /\ joinLeft' = [joinLeft EXCEPT ![d] = {}]
      /\ publishing' = [publishing EXCEPT ![d] = {}]
      /\ msgs' = {cut(m) : m \in left}
      /\ gap' = (gap \/ publishing[d] # {} \/ Unspread(d))
      /\ written' = written
  BY DEF StopFinish
<1>2. EmptyCache \in Cache
  <2>1. NoEntry \in KeyEntry
    BY Numbers DEF NoEntry, KeyEntry
  <2> QED BY <2>1 DEF EmptyCache, Cache
<1>3. ASSUME NEW m \in left
      PROVE  cut(m) \in Message /\ cut(m).to = m.to
  <2>1. m \in Message
    BY DEF IInv, Typed
  <2> QED BY <2>1, MessageFields
<1>4. Typed'
  <2>1. msgs' \subseteq Message
    BY <1>1, <1>3
  <2>2. keys' \in [Node -> Cache]
    BY <1>1, <1>2 DEF IInv, Typed
  <2> QED BY <1>1, <2>1, <2>2 DEF IInv, Typed
<1>5. ~Up(d)' /\ \A p \in Node : p # d =>
          /\ Up(p)' <=> Up(p)
          /\ keys'[p] = keys[p] /\ joinLeft'[p] = joinLeft[p] /\ publishing'[p] = publishing[p]
  BY <1>1 DEF IInv, Typed, Up
<1>6. Reachable'
  <2> SUFFICES ASSUME NEW x \in msgs'
               PROVE  Up(x.to)'
    BY DEF Reachable
  <2>1. PICK m \in left : x = cut(m)
    BY <1>1
  <2>2. x.to = m.to /\ m.to # d /\ m.to \in Node /\ Up(m.to)
    BY <1>3, <2>1, MessageFields DEF IInv, Typed, Reachable
  <2> QED BY <1>5, <2>2
<1>7. \A p \in Node : p # d => \A u : Has(p, u)' <=> Has(p, u)
  BY <1>5 DEF Has, After
<1>8. Publishing'
  <2>1. publishing'[d] = {}
    BY <1>1 DEF IInv, Typed
  <2> QED BY <1>5, <1>7, <2>1 DEF IInv, Publishing
<1>9. Kept'
  <2> SUFFICES ASSUME FullMesh, ~gap', NEW u \in written
               PROVE  Reaches(u)'
    BY <1>1 DEF Kept
  <2>1. Reaches(u) /\ ~Unspread(d)
    BY <1>1 DEF IInv, Kept
  <2>2. CASE Has(d, u)
    <3>1. PICK p \in Node \ {d} : Up(p)
      BY <2>1, <2>2 DEF Unspread
    <3>2. \A q \in Node \ {d} : Up(q) => Has(q, u)
      BY <2>1, <2>2 DEF Unspread
    <3> QED BY <1>5, <1>7, <3>1, <3>2 DEF Reaches
  <2>3. CASE ~Has(d, u)
    <3>1. PICK h \in Node : Up(h) /\ Has(h, u)
      BY <2>1 DEF Reaches
    <3>2. \E q \in Node : Up(q)' /\ Has(q, u)'
      BY <1>5, <1>7, <2>3, <3>1
    <3>3. ASSUME NEW p \in Node, Up(p)'
          PROVE  Has(p, u)' \/ Carried(u, p)' \/ \E q \in Node : Source(q, u, p)'
      <4>1. p # d /\ (Has(p, u) \/ Carried(u, p) \/ \E q \in Node : Source(q, u, p))
        BY <1>5, <2>1, <3>3 DEF Reaches
      <4>2. ASSUME NEW m \in msgs, m.to # d, m.type # "syncreq" \/ m.from # d, m.type # "join" \/ m.from # d
            PROVE  m \in msgs'
        <5>1. m \in left /\ cut(m) = m
          BY <4>2
        <5> QED BY <1>1, <5>1
      <4>3. Carried(u, p) => Carried(u, p)'
        BY <4>1, <4>2 DEF Carried, After
      <4>4. ASSUME NEW q \in Node, Source(q, u, p)
            PROVE  Source(q, u, p)'
        <5>1. q # d
          BY <2>3, <4>4 DEF Source
        <5>2. Pulls(p, q) => Pulls(p, q)'
          BY <1>5, <4>1, <4>2, <5>1 DEF Pulls
        <5> QED BY <1>5, <1>7, <4>4, <5>1, <5>2 DEF Source
      <4> QED BY <1>7, <4>1, <4>3, <4>4
    <3> QED BY <3>2, <3>3 DEF Reaches
  <2> QED BY <2>2, <2>3
<1> QED BY <1>4, <1>6, <1>8, <1>9 DEF IInv

-----------------------------------------------------------------------------
(* The theorems.                                                           *)

\* Every step keeps the invariant.
LEMMA InvStep ==
    ASSUME IInv, [Next]_vars
    PROVE  IInv'
<1>1. CASE UNCHANGED vars
  BY <1>1, IdleStep DEF vars, memberVars, cacheVars
<1>2. ASSUME NEW n \in Node, JoinFails(n) \/ Ping(n)
      PROVE  IInv'
  BY <1>2, IdleStep DEF JoinFails, Ping, cacheVars
<1>3. ASSUME NEW m \in msgs, HandleLeave(m)
      PROVE  IInv'
  <2>1. /\ msgs' = msgs \ {m} /\ m.type = "leave"
        /\ UNCHANGED <<localNode, keys, publishing, written, gap, joinLeft>>
    BY <1>3 DEF HandleLeave, cacheVars
  <2> QED BY <2>1, IdleStep
<1>4. ASSUME NEW m \in msgs, Handle(m) \/ Lose(m)
      PROVE  IInv'
  BY <1>3, <1>4, LoseStep, HandleJoinStep, HandlePongStep, HandleSyncRequestStep, HandleSyncStep,
     HandleKeyUpdateStep DEF Handle
<1> QED BY <1>1, <1>2, <1>4, StartStep, StopBeginStep, StopFinishStep, JoinSeedStep,
           BroadcastUpdateStep, StoreUpdateStep DEF Next

\* In a full mesh no update is forgotten, through any number of starts and
\* stops: every running node has it or a later one, or it is on its way there,
\* unless a message was lost, an update fell into the window of a join, or a
\* process ended with entries that the others lack.
THEOREM NothingForgottenTheorem ==
    ASSUME FullMesh
    PROVE  Spec => []NothingForgotten
<1> QED BY InvInit, InvStep, InvImplies, PTL DEF Spec

\* Whatever updates and states arrive, and in whatever order, the timestamp that
\* applyEntryLocked and mergeState leave for a key is not before the old one;
\* for any seeds.
THEOREM StampsTheorem == Spec => StampsNeverGoBack
<1>1. ASSUME IInv, [Next]_vars
      PROVE  [\A n \in Node : Up(n)' => \A k \in Key : keys'[n][k].stamp >= keys[n][k].stamp]_vars
  <2> SUFFICES ASSUME Next, NEW n \in Node, Up(n)'
               PROVE  Newer(keys'[n], keys[n])
    BY <1>1 DEF Newer
  <2>1. ASSUME keys'[n] = keys[n]
        PROVE  Newer(keys'[n], keys[n])
    <3>1. keys[n] \in Cache
      BY <1>1 DEF IInv, Typed
    <3> QED BY <2>1, <3>1, EntryFields DEF Newer, Cache
  <2>2. ASSUME NEW p \in Node, StopFinish(p)
        PROVE  Newer(keys'[n], keys[n])
    <3>1. p # n
      BY <1>1, <2>2 DEF StopFinish, IInv, Typed, Up
    <3>2. keys'[n] = keys[n]
      BY <1>1, <2>2, <3>1 DEF StopFinish, IInv, Typed
    <3> QED BY <2>1, <3>2
  <2>3. ASSUME NEW p \in Node, Start(p) \/ StopBegin(p) \/ JoinSeed(p) \/ JoinFails(p) \/ Ping(p) \/ BroadcastUpdate(p)
        PROVE  Newer(keys'[n], keys[n])
    BY <2>1, <2>3 DEF Start, StopBegin, JoinSeed, JoinFails, Ping, BroadcastUpdate, cacheVars
  <2>4. ASSUME NEW m \in msgs, HandleJoin(m) \/ HandlePong(m) \/ HandleSyncRequest(m) \/ HandleLeave(m) \/ Lose(m)
        PROVE  Newer(keys'[n], keys[n])
    BY <2>1, <2>4 DEF HandleJoin, HandlePong, HandleSyncRequest, HandleLeave, Lose, cacheVars
  <2> QED BY <1>1, <2>2, <2>3, <2>4, StoreUpdateStep, HandleSyncStep, HandleKeyUpdateStep DEF Next, Handle
<1> QED BY <1>1, InvInit, InvStep, PTL DEF Spec, StampsNeverGoBack

=============================================================================
