------------------------------- MODULE Gossip -------------------------------
(***************************************************************************)
(* The cluster in "crdt" mode (internal/cluster): nodes that join through  *)
(* seeds, pull the seed's state once, and from then on only push their own *)
(* updates to the nodes they know.  The cache keeps, per key, the entry    *)
(* with the latest timestamp.                                              *)
(*                                                                         *)
(* Messages are signed, carried over one TCP connection each and may be    *)
(* lost (dial timeout, size limit, clock skew: a message that readMessage, *)
(* writeMessage or verifyMessage rejects is a lost one).  A timestamp is   *)
(* whatever the writer's clock shows.                                      *)
(***************************************************************************)
EXTENDS Naturals, FiniteSets

CONSTANTS Node,
          Seeds,        \* [Node -> SUBSET Node], config.Seeds
          Key,          \* server name and key id
          MaxStamp,     \* bound: clocks show 1 .. MaxStamp
          MaxUpdates,   \* bound: calls of BroadcastKeyUpdate
          MaxStarts,    \* bound: process starts
          MaxStops,     \* bound: graceful stops
          MaxLosses     \* bound: lost messages

ASSUME GossipAssumption ==
    /\ Seeds \in [Node -> SUBSET Node] /\ \A n \in Node : n \notin Seeds[n]
    /\ {MaxStamp, MaxUpdates, MaxStarts, MaxStops, MaxLosses} \subseteq Nat

\* KeyEntry.  `id` stands for the data and its hash; stamp 0 is "no entry".
KeyEntry == [stamp : 0 .. MaxStamp, node : Node \cup {""}, id : 0 .. MaxUpdates]
NoEntry == [stamp |-> 0, node |-> "", id |-> 0]
Cache == [Key -> KeyEntry]
EmptyCache == [k \in Key |-> NoEntry]

NodeState == {"healthy", "leaving"}

VARIABLES
    localNode,    \* [Node -> NodeState or "down"]: localNode.State of the process
    nodes,        \* [Node -> [Node -> NodeState or "unknown"]]: c.nodes
    keys,         \* [Node -> Cache]: c.state.keys
    joinLeft,     \* [Node -> seeds that joinSeeds has not dialled yet]
    joining,      \* [Node -> the seed connectToNode is talking to, and the step]
    publishing,   \* [Node -> updates stored and not yet broadcast]
    msgs,         \* messages in flight
    starts, stops, losses,
    written,      \* history: the updates made so far
    gap           \* history: an update may have been kept from a node that needs it

memberVars == <<localNode, nodes, joinLeft, joining>>
cacheVars  == <<keys, publishing>>
countVars  == <<starts, stops, losses>>
vars == <<memberVars, cacheVars, msgs, countVars, written, gap>>

Nobody == [seed |-> "", step |-> "idle"]

Update == [key : Key, entry : KeyEntry]

Message ==
    [type : {"join"}, from : Node, to : Node, state : NodeState, conn : BOOLEAN]
        \cup [type : {"pong"}, from : Node, to : Node, state : NodeState]
        \cup [type : {"leave", "syncreq"}, from : Node, to : Node]
        \cup [type : {"sync"}, from : Node, to : Node, keys : Cache]
        \cup [type : {"update"}, from : Node, to : Node, update : Update]

Up(n) == localNode[n] # "down"

TypeOK ==
    /\ localNode \in [Node -> NodeState \cup {"down"}]
    /\ nodes \in [Node -> [Node -> NodeState \cup {"unknown"}]]
    /\ keys \in [Node -> Cache]
    /\ joinLeft \in [Node -> SUBSET Node]
    /\ publishing \in [Node -> SUBSET Update]
    /\ msgs \subseteq Message /\ written \subseteq Update
    /\ gap \in BOOLEAN

Init ==
    /\ localNode = [n \in Node |-> "down"]
    /\ nodes = [n \in Node |-> [p \in Node |-> "unknown"]]
    /\ keys = [n \in Node |-> EmptyCache]
    /\ joinLeft = [n \in Node |-> {}]
    /\ joining = [n \in Node |-> Nobody]
    /\ publishing = [n \in Node |-> {}]
    /\ msgs = {}
    /\ starts = 0 /\ stops = 0 /\ losses = 0
    /\ written = {} /\ gap = FALSE

-----------------------------------------------------------------------------
(* Last writer wins.                                                       *)

\* entry.Timestamp.After(existing.Timestamp), an absent entry being the oldest.
After(entry, existing) == entry.stamp > existing.stamp

\* Mutant: an entry that is there is kept.
AppliedIfAbsent(cache, u) ==
    IF cache[u.key] = NoEntry THEN [cache EXCEPT ![u.key] = u.entry] ELSE cache

\* applyEntryLocked.
Applied(cache, u) ==
    IF After(u.entry, cache[u.key]) THEN [cache EXCEPT ![u.key] = u.entry] ELSE cache

\* Mutant: the pulled entry wins.
MergedPulled(cache, remote) ==
    [k \in Key |-> IF remote[k] # NoEntry THEN remote[k] ELSE cache[k]]

\* mergeState.
Merged(cache, remote) ==
    [k \in Key |-> IF After(remote[k], cache[k]) THEN remote[k] ELSE cache[k]]

-----------------------------------------------------------------------------
(* Messages.  A dial to a process that is down fails.                      *)

Sent(ms) == msgs \cup {m \in ms : Up(m.to)}

Known(n) == {p \in Node \ {n} : nodes[n][p] # "unknown"}

\* The connection to the peer breaks: the request or the response is lost.
Lose(m) ==
    /\ losses < MaxLosses
    /\ losses' = losses + 1
    /\ msgs' = msgs \ {m}
    /\ gap' = (gap \/ m.type # "leave")
    /\ UNCHANGED <<memberVars, cacheVars, starts, stops, written>>

-----------------------------------------------------------------------------
(* Starting, joining, leaving.                                             *)

\* NewCluster and startCRDT.
Start(n) ==
    /\ ~Up(n) /\ starts < MaxStarts
    /\ starts' = starts + 1
    /\ localNode' = [localNode EXCEPT ![n] = "healthy"]
    /\ nodes' = [nodes EXCEPT ![n][n] = "healthy"]
    /\ joinLeft' = [joinLeft EXCEPT ![n] = Seeds[n]]
    /\ UNCHANGED <<joining, cacheVars, msgs, stops, losses, written, gap>>

\* stopCRDT up to the leave broadcast.
StopBegin(n) ==
    /\ localNode[n] = "healthy" /\ stops < MaxStops
    /\ stops' = stops + 1
    /\ localNode' = [localNode EXCEPT ![n] = "leaving"]
    /\ nodes' = [nodes EXCEPT ![n][n] = "leaving"]
    /\ msgs' = Sent({[type |-> "leave", from |-> n, to |-> p] : p \in Known(n)})
    /\ UNCHANGED <<joinLeft, joining, cacheVars, starts, losses, written, gap>>

\* n has u, or an entry that replaces it.
Has(n, u) == ~After(u.entry, keys[n][u.key])

\* n has an update that another running node lacks, or that n alone keeps.
Unspread(n) ==
    LET others == {p \in Node \ {n} : Up(p)}
    IN  \E u \in written : Has(n, u) /\ (others = {} \/ \E p \in others : ~Has(p, u))

\* The rest of stopCRDT, and the end of the process: its memory is gone, and
\* the connections to it.
StopFinish(n) ==
    /\ localNode[n] = "leaving"
    /\ localNode' = [localNode EXCEPT ![n] = "down"]
    /\ nodes' = [nodes EXCEPT ![n] = [p \in Node |-> "unknown"]]
    /\ keys' = [keys EXCEPT ![n] = EmptyCache]
    /\ joinLeft' = [joinLeft EXCEPT ![n] = {}]
    /\ joining' = [joining EXCEPT ![n] = Nobody]
    /\ publishing' = [publishing EXCEPT ![n] = {}]
    /\ msgs' = {IF m.type = "join" /\ m.from = n THEN [m EXCEPT !.conn = FALSE] ELSE m :
                m \in {x \in msgs : x.to # n /\ ~(x.type = "syncreq" /\ x.from = n)}}
    /\ gap' = (gap \/ publishing[n] # {} \/ Unspread(n))
    /\ UNCHANGED <<countVars, written>>

\* handleLeave.
HandleLeave(m) ==
    /\ m.type = "leave"
    /\ nodes' = [nodes EXCEPT ![m.to][m.from] = IF @ = "unknown" THEN @ ELSE "leaving"]
    /\ msgs' = msgs \ {m}
    /\ UNCHANGED <<localNode, joinLeft, joining, cacheVars, countVars, written, gap>>

\* joinSeeds dials the next seed; connectToNode sends the join.
JoinSeed(n) ==
    /\ Up(n) /\ joining[n] = Nobody
    /\ \E s \in joinLeft[n] :
           /\ joinLeft' = [joinLeft EXCEPT ![n] = @ \ {s}]
           /\ joining' = [joining EXCEPT ![n] = [seed |-> s, step |-> "join"]]
           /\ msgs' = Sent({[type |-> "join", from |-> n, to |-> s, state |-> localNode[n],
                             conn |-> TRUE]})
    /\ UNCHANGED <<localNode, nodes, cacheVars, countVars, written, gap>>

\* handleJoin.
HandleJoin(m) ==
    /\ m.type = "join"
    /\ nodes' = [nodes EXCEPT ![m.to][m.from] = m.state]
    /\ msgs' = Sent({x \in {[type |-> "pong", from |-> m.to, to |-> m.from,
                             state |-> localNode[m.to]]} : m.conn}) \ {m}
    /\ UNCHANGED <<localNode, joinLeft, joining, cacheVars, countVars, written, gap>>

\* connectToNode gets the pong: the seed is known, its state is requested.
HandlePong(m) ==
    /\ m.type = "pong" /\ joining[m.to] = [seed |-> m.from, step |-> "join"]
    /\ nodes' = [nodes EXCEPT ![m.to][m.from] = m.state]
    /\ joining' = [joining EXCEPT ![m.to].step = "sync"]
    /\ msgs' = Sent({[type |-> "syncreq", from |-> m.to, to |-> m.from]}) \ {m}
    /\ UNCHANGED <<localNode, joinLeft, cacheVars, countVars, written, gap>>

\* handleSyncRequest.
HandleSyncRequest(m) ==
    /\ m.type = "syncreq"
    /\ msgs' = Sent({[type |-> "sync", from |-> m.to, to |-> m.from,
                     keys |-> keys[m.to]]}) \ {m}
    /\ UNCHANGED <<memberVars, cacheVars, countVars, written, gap>>

\* connectToNode gets the seed's state: handleSync, mergeState.  The notary is
\* not told.
HandleSync(m) ==
    /\ m.type = "sync"
    /\ keys' = [keys EXCEPT ![m.to] = Merged(@, m.keys)]
    /\ joining' = [joining EXCEPT ![m.to] = Nobody]
    /\ msgs' = msgs \ {m}
    /\ UNCHANGED <<localNode, nodes, joinLeft, publishing, countVars, written, gap>>

\* A round trip of connectToNode fails: the seed is given up, for good.
JoinFails(n) ==
    /\ Up(n) /\ joining[n] # Nobody
    /\ ~\E m \in msgs : \/ m.from = n /\ m.to = joining[n].seed /\ m.type \in {"join", "syncreq"}
                        \/ m.to = n /\ m.from = joining[n].seed /\ m.type \in {"pong", "sync"}
    /\ joining' = [joining EXCEPT ![n] = Nobody]
    /\ UNCHANGED <<localNode, nodes, joinLeft, cacheVars, msgs, countVars, written, gap>>

\* syncWithPeers, one peer, with the peer's handlePing: it exchanges no state,
\* and makes a node healthy again that is leaving.  The pong changes nothing.
Ping(n) ==
    /\ Up(n)
    /\ \E p \in Node \ {n} :
           /\ nodes[n][p] = "healthy" /\ Up(p)
           /\ nodes' = [nodes EXCEPT ![p][n] = IF @ = "unknown" THEN @ ELSE "healthy"]
    /\ UNCHANGED <<localNode, joinLeft, joining, cacheVars, msgs, countVars, written, gap>>

-----------------------------------------------------------------------------
(* Updates.                                                                *)

\* BroadcastKeyUpdate up to storeEntry: the notary has fetched and cached a
\* response, the cluster cache takes it over.
StoreUpdate(n, k) ==
    /\ Up(n) /\ Cardinality(written) < MaxUpdates
    /\ \E t \in 1 .. MaxStamp :
           LET u == [key |-> k, entry |-> [stamp |-> t, node |-> n, id |-> Cardinality(written) + 1]]
           IN  /\ keys' = [keys EXCEPT ![n] = Applied(@, u)]
               /\ publishing' = [publishing EXCEPT ![n] = @ \cup {u}]
               /\ written' = written \cup {u}
    /\ UNCHANGED <<memberVars, msgs, countVars, gap>>

\* p is about to ask n for its state.
Pulls(p, n) ==
    \/ n \in joinLeft[p]
    \/ \E m \in msgs : \/ m.type = "join" /\ m.from = p /\ m.to = n /\ m.conn
                       \/ m.type = "syncreq" /\ m.from = p /\ m.to = n
                       \/ m.type = "pong" /\ m.from = n /\ m.to = p

\* p will still ask n for its state, when it has started.
WillPull(p, n) == ~Up(p) \/ Pulls(p, n)

\* Mutant: nobody is told.
BroadcastUpdateNowhere(n) ==
    \E u \in publishing[n] :
        /\ publishing' = [publishing EXCEPT ![n] = @ \ {u}]
        /\ gap' = (gap \/ \E p \in Node \ ({n} \cup Known(n)) : ~WillPull(p, n))
        /\ UNCHANGED <<memberVars, keys, msgs, countVars, written>>

\* The rest: broadcastMessage to every node known at that moment.
BroadcastUpdate(n) ==
    \E u \in publishing[n] :
        /\ publishing' = [publishing EXCEPT ![n] = @ \ {u}]
        /\ msgs' = Sent({[type |-> "update", from |-> n, to |-> p, update |-> u] : p \in Known(n)})
        /\ gap' = (gap \/ \E p \in Node \ ({n} \cup Known(n)) : ~WillPull(p, n))
        /\ UNCHANGED <<memberVars, keys, countVars, written>>

\* handleKeyUpdate, storeEntry.  The callback that follows, onKeyReceived, is
\* ApplyReplicated of module Notary.
HandleKeyUpdate(m) ==
    /\ m.type = "update"
    /\ keys' = [keys EXCEPT ![m.to] = Applied(@, m.update)]
    /\ msgs' = msgs \ {m}
    /\ UNCHANGED <<memberVars, publishing, countVars, written, gap>>

-----------------------------------------------------------------------------
Handle(m) ==
    \/ HandleJoin(m) \/ HandlePong(m) \/ HandleSyncRequest(m) \/ HandleSync(m)
    \/ HandleLeave(m) \/ HandleKeyUpdate(m)

Next ==
    \/ \E n \in Node : \/ Start(n) \/ StopBegin(n) \/ StopFinish(n) \/ JoinSeed(n) \/ JoinFails(n) \/ Ping(n)
                       \/ BroadcastUpdate(n)
                       \/ \E k \in Key : StoreUpdate(n, k)
    \/ \E m \in msgs : Handle(m) \/ Lose(m)

Spec == Init /\ [][Next]_vars

\* Goroutines and connections make progress; nobody has to start or stop a
\* process or to make updates.  Messages are finitely many, so that fairness of
\* their handling as a whole reaches each of them.
Fairness ==
    /\ WF_vars(\E m \in msgs : Handle(m))
    /\ \A n \in Node : WF_vars(JoinSeed(n)) /\ WF_vars(JoinFails(n)) /\ WF_vars(BroadcastUpdate(n))

FairSpec == Spec /\ Fairness

-----------------------------------------------------------------------------
(* Properties.                                                             *)

\* No two updates of a key carry the same timestamp.
Distinct ==
    \A u, v \in written : u.key = v.key /\ u.entry.stamp = v.entry.stamp => u = v

\* The running nodes hold the same entries.
Agree == \A n, p \in Node : Up(n) /\ Up(p) => keys[n] = keys[p]

\* Eventual consistency: once updates stop, the caches of the running nodes
\* become equal and stay so, provided that no message was lost, no timestamp
\* was used twice and no update fell into the window in which its writer was
\* not yet connected.  A pulled state that is older than an update received
\* meanwhile must not win.
Convergence == <>[](Agree \/ gap \/ ~Distinct)

\* What the comment of BroadcastKeyUpdate says, "LWW on (Timestamp, Hash)
\* resolves conflicts": equal timestamps do not keep the caches apart.
TiesResolved == <>[](Agree \/ gap)

\* LWW: whatever arrives in whatever order, the timestamp a process holds for a
\* key never goes back (a new process starts empty).
StampsNeverGoBack ==
    [][\A n \in Node : Up(n)' => \A k \in Key : keys'[n][k].stamp >= keys[n][k].stamp]_vars

\* u is in a message to n, in a broadcast not yet made or in a state that n has
\* yet to pull.
OnItsWay(u, n) ==
    \/ \E m \in msgs :
           /\ m.to = n
           /\ \/ m.type = "update" /\ m.update = u
              \/ m.type = "sync" /\ ~After(u.entry, m.keys[u.key])
    \/ u \in publishing[u.entry.node]
    \/ \E p \in Node : Up(p) /\ WillPull(n, p) /\ Has(p, u)

\* An update is never forgotten: as long as nothing was lost, every running node
\* has it or a later one, or it is still on its way there, however broadcasts,
\* syncs and restarts interleave.
NothingForgotten ==
    \/ gap
    \/ \A n \in Node : Up(n) =>
           \A u \in written : Has(n, u) \/ OnItsWay(u, n)

\* Constraint: behaviours are followed up to the first gap or tie.
Excused == gap \/ ~Distinct
NotExcused == ~Excused

=============================================================================
