---------------------------- MODULE RaftLogProofs ----------------------------
(***************************************************************************)
(* The log of the Raft node and its disk: positions and indices agree, and *)
(* the disk holds whatever the log holds, for clusters of every size and   *)
(* for every value of the bounds, as long as no process restarts (Spec).   *)
(***************************************************************************)
EXTENDS RaftProofs

-----------------------------------------------------------------------------
(* Positions and indices *)

\* The entries of s are numbered from offset + 1 on.
Indexed(s, offset) == \A i \in 1 .. Len(s) : s[i].index = offset + i

\* The entries of every AppendEntries in flight follow prevLogIndex.
RequestsIndexed ==
    \A m \in msgs : m.type = "AppendEntries" => Indexed(m.entries, m.prevLogIndex)

IndexInv == LogIndexInvariant /\ RequestsIndexed

\* A part of a numbered sequence is numbered.
LEMMA IndexedPart ==
    ASSUME NEW s \in Seq(Entry), NEW offset \in Nat, NEW a \in Nat \ {0}, NEW b \in Int,
           b <= Len(s), Indexed(s, offset), NEW before \in Nat, before = offset + a - 1
    PROVE  Indexed(SubSeq(s, a, b), before)
<1>1. CASE a <= b
  <2>1. /\ Len(SubSeq(s, a, b)) = b - a + 1
        /\ \A i \in 1 .. b - a + 1 : SubSeq(s, a, b)[i] = s[a + i - 1]
    BY <1>1, SubSeqProperties
  <2> QED
    BY <1>1, <2>1 DEF Indexed
<1>2. CASE a > b
  <2>1. SubSeq(s, a, b) = << >>
    BY <1>2
  <2> QED
    BY <2>1 DEF Indexed
<1> QED
  BY <1>1, <1>2

\* So are two of them, the second of which goes on where the first ends.
LEMMA IndexedConcat ==
    ASSUME NEW s \in Seq(Entry), NEW t \in Seq(Entry), NEW offset \in Nat, Indexed(s, offset),
           Len(t) > 0 => Indexed(t, offset + Len(s))
    PROVE  Indexed(s \o t, offset)
<1> SUFFICES ASSUME NEW i \in 1 .. Len(s \o t) PROVE (s \o t)[i].index = offset + i
  BY DEF Indexed
<1>1. Len(s) \in Nat /\ Len(t) \in Nat /\ Len(s \o t) = Len(s) + Len(t)
  OBVIOUS
<1>2. CASE i <= Len(s)
  BY <1>1, <1>2 DEF Indexed
<1>3. CASE i > Len(s)
  <2>1. (s \o t)[i] = t[i - Len(s)] /\ i - Len(s) \in 1 .. Len(t)
    BY <1>1, <1>3
  <2> QED
    BY <1>1, <2>1 DEF Indexed
<1> QED
  BY <1>1, <1>2, <1>3

\* The loop of handleAppendEntries takes over the first entry that the log does
\* not hold exactly where the log, as far as it is kept, ends.
LEMMA KeptLogEnd ==
    ASSUME TypeInv, LogIndexInvariant, NEW m \in AppendEntries,
           NEW k \in 1 .. Len(m.entries) + 1, PrevLogMatches(m.to, m), FirstNew(m.to, m, k)
    PROVE  /\ KeptLog(m.to, m, k) \in Seq(Entry)
           /\ Indexed(KeptLog(m.to, m, k), logOffset[m.to])
           /\ k <= Len(m.entries) =>
                  logOffset[m.to] + Len(KeptLog(m.to, m, k)) = m.prevLogIndex + k - 1
<1> DEFINE n == m.to
<1>1. n \in Node /\ m.prevLogIndex \in Nat /\ m.entries \in Seq(Entry) /\ Len(m.entries) \in Nat
  BY DEF AppendEntries
<1>2. /\ log[n] \in Seq(Entry) /\ Len(log[n]) \in Nat /\ logOffset[n] \in Nat
      /\ logOffset[n] = snapshotIndex[n] /\ k \in Nat /\ k >= 1
  BY <1>1 DEF TypeInv, TypeOK, LogTypes, SnapMuInvariant
<1>3. Indexed(log[n], logOffset[n])
  BY <1>1 DEF LogIndexInvariant, Indexed
<1>4. KeptLog(n, m, k) \in Seq(Entry)
  BY KeptTypes DEF TypeInv
<1>7. PrevLogMatches(n, m) /\ FirstNew(n, m, k) /\ LogLen(n) = logOffset[n] + Len(log[n])
  BY DEF LogLen
<1>8. /\ m.prevLogIndex \in Nat /\ k \in Nat /\ Len(log[n]) \in Nat /\ logOffset[n] \in Nat
      /\ LogLen(n) \in Nat
  BY <1>1, <1>2, <1>7
<1> HIDE DEF n
<1>5. CASE Conflicts(n, m, k)
  <2> DEFINE b == m.prevLogIndex + k - 1 - logOffset[n]
  <2>5. m.prevLogIndex + k > logOffset[n] /\ m.prevLogIndex + k <= LogLen(n)
    BY <1>5, Zenon DEF Conflicts, InWindow
  <2>6. b \in Nat /\ b <= Len(log[n])
    <3>1. PICK p \in Nat, o \in Nat, l \in Nat :
              p = m.prevLogIndex /\ o = logOffset[n] /\ l = Len(log[n])
      BY <1>8
    <3>2. p + k > o /\ p + k <= o + l
      BY <1>7, <2>5, <3>1
    <3>3. p + k - 1 - o \in Nat /\ p + k - 1 - o <= l
      BY <1>8, <3>2
    <3> QED
      BY <3>1, <3>3
  <2>1. b \in Nat /\ b <= Len(log[n]) /\ KeptLog(n, m, k) = SubSeq(log[n], 1, b)
    BY <1>5, <2>6, Zenon DEF KeptLog
  <2>2. Len(SubSeq(log[n], 1, b)) = b
    BY <1>2, <2>1, SubSeqProperties
  <2>3. Indexed(SubSeq(log[n], 1, b), logOffset[n])
    <3> HIDE DEF b
    <3>1. logOffset[n] = logOffset[n] + 1 - 1 /\ 1 \in Nat \ {0} /\ b \in Int
      BY <1>2, <2>6
    <3> QED
      BY <1>2, <1>3, <2>6, <3>1, IndexedPart, Zenon
  <2>4. logOffset[n] + b = m.prevLogIndex + k - 1
    BY <1>1, <1>2
  <2> HIDE DEF b
  <2> QED
    BY <1>4, <2>1, <2>2, <2>3, <2>4, Zenon DEF n
<1>6. CASE ~Conflicts(n, m, k)
  <2>1. KeptLog(n, m, k) = log[n]
    BY <1>6 DEF KeptLog
  <2>2. ASSUME k <= Len(m.entries)
        PROVE  LogLen(n) = m.prevLogIndex + k - 1
    <3>1. m.prevLogIndex + k > LogLen(n)
      <4>1. ~InWindow(n, m.prevLogIndex + k)
        BY <1>6, <2>2 DEF Conflicts
      <4>2. m.prevLogIndex + k > logOffset[n]
        BY <1>1, <1>2, <1>7, <2>2 DEF FirstNew, AlreadyHeld
      <4> QED
        BY <1>1, <1>2, <1>7, <4>1, <4>2 DEF InWindow
    <3>2. m.prevLogIndex + k - 1 <= LogLen(n)
      <4>1. CASE k = 1
        <5>1. m.prevLogIndex = 0 \/ m.prevLogIndex = logOffset[n] \/ m.prevLogIndex <= LogLen(n)
          BY <1>2, <1>7 DEF PrevLogMatches, TermKnown, InWindow
        <5>2. LogLen(n) \in Nat /\ logOffset[n] <= LogLen(n)
          BY <1>2, <1>7
        <5> QED
          BY <1>1, <1>2, <4>1, <5>1, <5>2
      <4>2. CASE k > 1
        <5>1. AlreadyHeld(n, m, k - 1)
          BY <1>1, <1>2, <1>7, <2>2, <4>2 DEF FirstNew
        <5> QED
          BY <1>1, <1>2, <1>7, <5>1 DEF AlreadyHeld, InWindow
      <4> QED
        BY <4>1, <4>2
    <3> QED
      BY <1>8, <3>1, <3>2
  <2> QED
    BY <1>3, <1>4, <1>7, <2>1, <2>2, Zenon DEF n
<1> QED
  BY <1>5, <1>6 DEF n

\* What handleAppendEntries leaves in the log, all of the request or a part of it.
LEMMA AppendedLog ==
    ASSUME TypeInv, LogIndexInvariant, NEW m \in AppendEntries, Indexed(m.entries, m.prevLogIndex),
           NEW k \in 1 .. Len(m.entries) + 1, PrevLogMatches(m.to, m), FirstNew(m.to, m, k),
           NEW j \in Nat, j <= Len(m.entries)
    PROVE  Indexed(KeptLog(m.to, m, k) \o SubSeq(m.entries, k, j), logOffset[m.to])
<1> DEFINE n == m.to
           new == SubSeq(m.entries, k, j)
<1>1. n \in Node /\ m.prevLogIndex \in Nat /\ m.entries \in Seq(Entry) /\ Len(m.entries) \in Nat
  BY DEF AppendEntries
<1>2. logOffset[n] \in Nat
  BY <1>1 DEF TypeInv, TypeOK, LogTypes
<1>3. new \in Seq(Entry)
  BY <1>1, SubSeqType
<1>4. Indexed(new, m.prevLogIndex + k - 1)
  <2>1. m.prevLogIndex + k - 1 \in Nat /\ k \in Nat \ {0} /\ j \in Int
    BY <1>1
  <2> QED
    BY <1>1, <2>1, IndexedPart, Zenon
<1>5. Len(new) > 0 => k <= Len(m.entries)
  BY <1>1
<1>6. /\ KeptLog(n, m, k) \in Seq(Entry)
      /\ Indexed(KeptLog(n, m, k), logOffset[n])
      /\ k <= Len(m.entries) => logOffset[n] + Len(KeptLog(n, m, k)) = m.prevLogIndex + k - 1
  BY KeptLogEnd
<1> HIDE DEF new, n
<1>7. Indexed(KeptLog(n, m, k) \o new, logOffset[n])
  BY <1>2, <1>3, <1>4, <1>5, <1>6, IndexedConcat
<1> QED
  BY <1>7 DEF new, n

\* Whoever sets the log or its offset leaves the other nodes alone.
OnlyLogOf(n) == \A k \in Node : k # n => log'[k] = log[k] /\ logOffset'[k] = logOffset[k]

\* What a step that touches the log of n has to show.
LEMMA IndexedChange ==
    ASSUME TypeInv', LogIndexInvariant, NEW n \in Node, OnlyLogOf(n),
           Indexed(log'[n], logOffset'[n])
    PROVE  LogIndexInvariant'
<1>1. \A k \in Node : logOffset'[k] = snapshotIndex'[k]
  BY Zenon DEF TypeInv, SnapMuInvariant
<1>2. ASSUME NEW k \in Node
      PROVE  Indexed(log'[k], logOffset'[k])
  <2>1. CASE k = n
    BY <2>1
  <2>2. CASE k # n
    <3>1. log'[k] = log[k] /\ logOffset'[k] = logOffset[k]
      BY <2>2, Zenon DEF OnlyLogOf
    <3>2. Indexed(log[k], logOffset[k])
      BY Zenon DEF LogIndexInvariant, Indexed
    <3> QED
      BY <3>1, <3>2, Zenon
  <2> QED
    BY <2>1, <2>2
<1> QED
  BY <1>1, <1>2, Zenon DEF LogIndexInvariant, Indexed

\* A step that leaves the logs alone.
LEMMA IndexedFrame ==
    ASSUME TypeInv', LogIndexInvariant, UNCHANGED <<log, logOffset>>
    PROVE  LogIndexInvariant'
<1>1. \A k \in Node : logOffset'[k] = snapshotIndex'[k]
  BY Zenon DEF TypeInv, SnapMuInvariant
<1> QED
  BY <1>1, Zenon DEF LogIndexInvariant

\* Submit publishes its entry under the next index.
LEMMA SubmitPublishIndexed ==
    ASSUME TypeInv, TypeInv', LogIndexInvariant, NEW n \in Node, SubmitPublish(n)
    PROVE  LogIndexInvariant'
<1> DEFINE entry == [index |-> LogLen(n) + 1, term |-> currentTerm[n], cmd |-> submits + 1]
<1>1. log' = [log EXCEPT ![n] = Append(@, entry)] /\ UNCHANGED logOffset
  BY Zenon DEF SubmitPublish
<1>2. /\ log \in [Node -> Seq(Entry)] /\ log[n] \in Seq(Entry) /\ logOffset[n] \in Nat
      /\ Len(log[n]) \in Nat
  BY DEF TypeInv, TypeOK, LogTypes
<1>3. entry.index = logOffset[n] + (Len(log[n]) + 1) /\ entry \in Entry
  BY <1>2 DEF LogLen, Entry, TypeInv, TypeOK, ElectionTypes, SubmitTypes
<1> HIDE DEF entry
<1>4. log'[n] = Append(log[n], entry) /\ OnlyLogOf(n)
  BY <1>1, <1>2 DEF OnlyLogOf
<1>5. Indexed(log[n], logOffset[n])
  BY Zenon DEF LogIndexInvariant, Indexed
<1>6. Indexed(Append(log[n], entry), logOffset[n])
  <2> SUFFICES ASSUME NEW i \in 1 .. Len(log[n]) + 1
               PROVE  Append(log[n], entry)[i].index = logOffset[n] + i
    BY <1>2 DEF Indexed
  <2>1. CASE i <= Len(log[n])
    BY <1>2, <1>5, <2>1 DEF Indexed
  <2>2. CASE i = Len(log[n]) + 1
    <3>1. Append(log[n], entry)[Len(log[n]) + 1] = entry
      BY <1>2, <1>3
    <3> QED
      BY <1>3, <2>2, <3>1, Zenon
  <2> QED
    BY <1>2, <2>1, <2>2
<1> QED
  BY <1>1, <1>4, <1>6, IndexedChange, Zenon

\* A failed persistEntry takes the last entry off the log or nothing.
LEMMA SubmitPersistFailedIndexed ==
    ASSUME TypeInv, TypeInv', LogIndexInvariant, NEW n \in Node, NEW pub \in persisting[n],
           SubmitPersistFailed(n, pub)
    PROVE  LogIndexInvariant'
<1> DEFINE onTop == /\ Len(log[n]) = pub.publishedLen
                    /\ log[n][Len(log[n])].index = pub.entry.index
<1>1. /\ log' = [log EXCEPT ![n] = IF onTop THEN SubSeq(@, 1, Len(@) - 1) ELSE @]
      /\ UNCHANGED logOffset
  BY Zenon DEF SubmitPersistFailed
<1> HIDE DEF onTop
<1>2. /\ log \in [Node -> Seq(Entry)] /\ log[n] \in Seq(Entry) /\ logOffset[n] \in Nat
      /\ Len(log[n]) \in Nat
  BY DEF TypeInv, TypeOK, LogTypes
<1>3. Indexed(log[n], logOffset[n])
  BY Zenon DEF LogIndexInvariant, Indexed
<1>4. Indexed(SubSeq(log[n], 1, Len(log[n]) - 1), logOffset[n])
  <2>1. /\ logOffset[n] = logOffset[n] + 1 - 1 /\ 1 \in Nat \ {0}
        /\ Len(log[n]) - 1 \in Int /\ Len(log[n]) - 1 <= Len(log[n])
    BY <1>2
  <2> QED
    BY <1>2, <1>3, <2>1, IndexedPart, Zenon
<1>5. /\ log'[n] = IF onTop THEN SubSeq(log[n], 1, Len(log[n]) - 1) ELSE log[n]
      /\ OnlyLogOf(n)
  BY <1>1, <1>2 DEF OnlyLogOf
<1> QED
  BY <1>1, <1>3, <1>4, <1>5, IndexedChange, Zenon

\* Compaction and install drop the entries up to the snapshot.
LEMMA DroppedIndexed ==
    ASSUME NEW s \in Seq(Entry), NEW offset \in Nat, NEW index \in Nat, index >= offset,
           Indexed(s, offset)
    PROVE  Indexed(SubSeq(s, index - offset + 1, Len(s)), index)
<1>1. /\ index - offset + 1 \in Nat \ {0} /\ index = offset + (index - offset + 1) - 1
      /\ Len(s) \in Int /\ Len(s) <= Len(s)
  OBVIOUS
<1> QED
  BY <1>1, IndexedPart, Zenon

\* CompactLog drops what its snapshot covers.
LEMMA CompactFinishIndexed ==
    ASSUME TypeInv, TypeInv', LogIndexInvariant, NEW n \in Node, CompactFinish(n)
    PROVE  LogIndexInvariant'
<1> DEFINE index == snapTask[n].snap.index
<1>1. /\ log' = [log EXCEPT ![n] = SubSeq(log[n], index - logOffset[n] + 1, Len(log[n]))]
      /\ logOffset' = [logOffset EXCEPT ![n] = index] /\ snapTask[n].kind = "compact"
  BY Zenon DEF CompactFinish, DropCovered
<1>2. /\ log \in [Node -> Seq(Entry)] /\ log[n] \in Seq(Entry) /\ logOffset \in [Node -> Nat]
      /\ index \in Nat /\ logOffset[n] \in Nat
  BY DEF TypeInv, TypeOK, LogTypes, SnapTypes, SnapTask, Snapshot
<1>3. index > logOffset[n]
  BY <1>1 DEF TypeInv, SnapMuInvariant
<1> HIDE DEF index
<1>4. Indexed(log[n], logOffset[n])
  BY Zenon DEF LogIndexInvariant, Indexed
<1>5. Indexed(SubSeq(log[n], index - logOffset[n] + 1, Len(log[n])), index)
  BY <1>2, <1>3, <1>4, DroppedIndexed
<1>6. /\ log'[n] = SubSeq(log[n], index - logOffset[n] + 1, Len(log[n])) /\ logOffset'[n] = index
      /\ OnlyLogOf(n)
  BY <1>1, <1>2 DEF OnlyLogOf
<1> QED
  BY <1>5, <1>6, IndexedChange, Zenon

\* The install keeps what is above the snapshot.
LEMMA InstallFinishIndexed ==
    ASSUME TypeInv, TypeInv', LogIndexInvariant, NEW n \in Node, InstallFinish(n)
    PROVE  LogIndexInvariant'
<1> DEFINE index == snapTask[n].snap.index
           covered == {i \in 1 .. Len(log[n]) : log[n][i].index <= index}
           rest == SubSeq(log[n], Cardinality(covered) + 1, Len(log[n]))
<1>1. /\ log' = [log EXCEPT ![n] = rest]
      /\ logOffset' = [logOffset EXCEPT ![n] = IF index > logOffset[n] THEN index ELSE logOffset[n]]
      /\ snapTask[n].kind = "rename"
  BY Zenon DEF InstallFinish
<1>2. /\ log \in [Node -> Seq(Entry)] /\ log[n] \in Seq(Entry) /\ logOffset \in [Node -> Nat]
      /\ index \in Nat /\ logOffset[n] \in Nat /\ Len(log[n]) \in Nat
  BY DEF TypeInv, TypeOK, LogTypes, SnapTypes, SnapTask, Snapshot
<1>3. index >= logOffset[n]
  BY <1>1 DEF TypeInv, SnapMuInvariant
<1>4. Indexed(log[n], logOffset[n])
  BY Zenon DEF LogIndexInvariant, Indexed
<1> HIDE DEF index
<1>5. Indexed(rest, index)
  <2>1. CASE index - logOffset[n] <= Len(log[n])
    <3>1. covered = 1 .. index - logOffset[n]
      BY <1>2, <1>3, <1>4, <2>1 DEF Indexed
    <3>2. Cardinality(covered) = index - logOffset[n]
      <4>1. Cardinality(1 .. index - logOffset[n]) = index - logOffset[n]
        BY <1>2, <1>3, FS_Interval
      <4> QED
        BY <3>1, <4>1, Zenon
    <3> QED
      BY <1>2, <1>3, <1>4, <3>2, DroppedIndexed, Zenon
  <2>2. CASE index - logOffset[n] > Len(log[n])
    <3>1. covered = 1 .. Len(log[n])
      BY <1>2, <1>3, <1>4, <2>2 DEF Indexed
    <3>2. Cardinality(1 .. Len(log[n])) = Len(log[n])
      <4>1. 1 \in Int /\ Len(log[n]) \in Int
        BY <1>2
      <4>2. Cardinality(1 .. Len(log[n])) = IF 1 > Len(log[n]) THEN 0 ELSE Len(log[n]) - 1 + 1
        BY <4>1, FS_Interval, Zenon
      <4> QED
        BY <1>2, <4>2
    <3>3. rest = SubSeq(log[n], Len(log[n]) + 1, Len(log[n]))
      BY <3>1, <3>2, Zenon
    <3> HIDE DEF rest
    <3>4. Len(rest) = 0
      BY <1>2, <3>3
    <3> QED
      BY <3>4 DEF Indexed
  <2> QED
    BY <1>2, <2>1, <2>2
<1> HIDE DEF rest
<1>6. log'[n] = rest /\ logOffset'[n] = index /\ OnlyLogOf(n)
  BY <1>1, <1>2, <1>3 DEF OnlyLogOf
<1> QED
  BY <1>5, <1>6, IndexedChange, Zenon

\* An AppendEntries, accepted or failing on the disk.
LEMMA AppendIndexed ==
    ASSUME TypeInv, TypeInv', LogIndexInvariant, NEW m \in AppendEntries,
           Indexed(m.entries, m.prevLogIndex), AcceptAppend(m) \/ FailAppend(m)
    PROVE  LogIndexInvariant'
<1>1. m.to \in Node /\ m.entries \in Seq(Entry) /\ Len(m.entries) \in Nat
  BY DEF AppendEntries
<1>2. log \in [Node -> Seq(Entry)] /\ logOffset[m.to] \in Nat
  BY <1>1 DEF TypeInv, TypeOK, LogTypes
<1>3. PrevLogMatches(m.to, m) /\ UNCHANGED logOffset
  BY Zenon DEF AcceptAppend, FailAppend
<1>4. ASSUME NEW new, Indexed(new, logOffset[m.to]), log' = [log EXCEPT ![m.to] = new]
      PROVE  LogIndexInvariant'
  <2>1. log'[m.to] = new /\ OnlyLogOf(m.to)
    BY <1>1, <1>2, <1>3, <1>4, Zenon DEF OnlyLogOf
  <2> QED
    BY <1>1, <1>3, <1>4, <2>1, IndexedChange, Zenon
<1>5. CASE AcceptAppend(m)
  <2>1. PICK k \in 1 .. Len(m.entries) + 1 :
          /\ FirstNew(m.to, m, k)
          /\ log' = [log EXCEPT ![m.to] =
                 KeptLog(m.to, m, k) \o SubSeq(m.entries, k, Len(m.entries))]
    BY <1>5, Zenon DEF AcceptAppend
  <2>2. Len(m.entries) <= Len(m.entries)
    BY <1>1
  <2> QED
    BY <1>1, <1>3, <1>4, <2>1, <2>2, AppendedLog, Zenon
<1>6. CASE FailAppend(m)
  <2>1. PICK k \in 1 .. Len(m.entries) :
          /\ FirstNew(m.to, m, k)
          /\ \/ log' = [log EXCEPT ![m.to] = KeptLog(m.to, m, k)]
             \/ \E f \in k .. Len(m.entries) :
                   log' = [log EXCEPT ![m.to] =
                              KeptLog(m.to, m, k) \o SubSeq(m.entries, k, f - 1)]
    BY <1>6, Zenon DEF FailAppend, HeldBefore
  <2>2. k \in 1 .. Len(m.entries) + 1
    BY <1>1
  <2>3. Indexed(KeptLog(m.to, m, k), logOffset[m.to])
    BY <1>3, <2>1, <2>2, KeptLogEnd, Zenon
  <2>4. CASE log' = [log EXCEPT ![m.to] = KeptLog(m.to, m, k)]
    BY <1>4, <2>3, <2>4, Zenon
  <2>5. ASSUME NEW f \in k .. Len(m.entries),
               log' = [log EXCEPT ![m.to] = KeptLog(m.to, m, k) \o SubSeq(m.entries, k, f - 1)]
        PROVE  LogIndexInvariant'
    <3>1. f - 1 \in Nat /\ f - 1 <= Len(m.entries)
      BY <1>1
    <3>2. Indexed(KeptLog(m.to, m, k) \o SubSeq(m.entries, k, f - 1), logOffset[m.to])
      BY <1>3, <2>1, <2>2, <3>1, AppendedLog, Zenon
    <3> QED
      BY <1>4, <2>5, <3>2, Zenon
  <2> QED
    BY <2>1, <2>4, <2>5
<1> QED
  BY <1>5, <1>6

\* No AppendEntries enters the network.
NoNewAppend == \A x \in msgs' : x.type = "AppendEntries" => x \in msgs

\* Nothing but sendAppendEntries makes one.
LEMMA OnlySendAppends ==
    ASSUME Next, \A n \in Node : \A p \in Peers(n) : ~SendAppendEntries(n, p)
    PROVE  NoNewAppend
<1>1. ASSUME NEW y, msgs' \subseteq msgs \cup {y}, y.type # "AppendEntries"
      PROVE  NoNewAppend
  BY <1>1, Zenon DEF NoNewAppend
<1>2. ASSUME NEW m, NEW y, Reply(m, y), y.type # "AppendEntries"
      PROVE  NoNewAppend
  <2>1. msgs' \subseteq msgs \cup {y}
    BY <1>2 DEF Reply
  <2> QED
    BY <1>1, <1>2, <2>1, Zenon
<1>3. \A n, to, t, s, i : SnapshotResponse(n, to, t, s, i).type # "AppendEntries"
  BY DEF SnapshotResponse
<1>4. ASSUME NEW n \in Node, NodeStep(n)
      PROVE  NoNewAppend
  <2>1. CASE StartElection(n)
    <3> DEFINE requests == {[type |-> "RequestVote", from |-> n, to |-> p,
                             term |-> currentTerm[n] + 1,
                             lastLogIndex |-> LastLogIndex(n), lastLogTerm |-> LastLogTerm(n),
                             conn |-> TRUE] : p \in Peers(n)}
    <3>1. msgs' = msgs \cup requests
      BY <2>1, Zenon DEF StartElection
    <3>2. \A x \in requests : x.type = "RequestVote"
      OBVIOUS
    <3> HIDE DEF requests
    <3> QED
      BY <3>1, <3>2 DEF NoNewAppend
  <2>2. CASE InstallFinish(n) \/ InstallFail(n)
    <3>1. PICK s : ReplyInstall(n, s)
      BY <2>2, Zenon DEF InstallFinish, InstallFail
    <3> DEFINE y == SnapshotResponse(n, snapTask[n].from, currentTerm[n], s, snapTask[n].snap.index)
    <3>2. msgs' \subseteq msgs \cup {y}
      BY <3>1 DEF ReplyInstall
    <3>3. y.type # "AppendEntries"
      BY <1>3, Zenon
    <3> QED
      BY <1>1, <3>2, <3>3, Zenon
  <2>3. CASE \/ BecomeLeader(n) \/ ApplyTake(n) \/ ApplyRun(n) \/ SubmitPublish(n)
             \/ \E pub \in persisting[n] : SubmitPersisted(n, pub) \/ SubmitPersistFailed(n, pub)
             \/ \E entry \in waiting[n] : SubmitReturn(n, entry)
             \/ CompactSave(n) \/ CompactFinish(n) \/ InstallDecoded(n)
    <3>1. UNCHANGED msgs
      BY <2>3, Zenon DEF BecomeLeader, ApplyTake, ApplyRun, SubmitPublish, SubmitPersisted,
         SubmitPersistFailed, SubmitReturn, CompactSave, CompactFinish, InstallDecoded
    <3> QED
      BY <3>1, Zenon DEF NoNewAppend
  <2> QED
    BY <1>4, <2>1, <2>2, <2>3, Zenon DEF NodeStep
<1>5. ASSUME NEW n \in Node, NEW p \in Peers(n), PeerStep(n, p)
      PROVE  NoNewAppend
  <2>1. CASE StartCatchUp(n, p)
    BY <2>1, Zenon DEF StartCatchUp, NoNewAppend
  <2>2. CASE SendInstallSnapshot(n, p)
    <3> DEFINE y == [type |-> "InstallSnapshot", from |-> n, to |-> p, term |-> currentTerm[n],
                     snap |-> snapFile[n], conn |-> TRUE]
    <3>1. msgs' = msgs \cup {y}
      BY <2>2, Zenon DEF SendInstallSnapshot, Send
    <3>2. y.type # "AppendEntries"
      OBVIOUS
    <3> QED
      BY <1>1, <3>1, <3>2, Zenon
  <2> QED
    BY <1>5, <2>1, <2>2, Zenon DEF PeerStep
<1>6. ASSUME NEW m \in msgs, Deliver(m) \/ Drop(m)
      PROVE  NoNewAppend
  <2>1. \A t, s : AppendResponse(m, t, s).type # "AppendEntries"
    BY DEF AppendResponse
  <2>2. \A t, s : VoteResponse(m, t, s).type # "AppendEntries"
    BY DEF VoteResponse
  <2>3. \/ Receive(m)
        \/ \E t, s : Reply(m, AppendResponse(m, t, s)) \/ Reply(m, VoteResponse(m, t, s))
        \/ \E n, to, t, s, i : Reply(m, SnapshotResponse(n, to, t, s, i))
    BY <1>6, Zenon DEF Deliver, Drop, HandleRequestVote, HandleRequestVoteRes,
       HandleAppendEntries, RejectStaleAppend, RejectPrevLog, AcceptAppend, FailAppend,
       HandleAppendEntriesRes, HandleInstallSnapshot, HandleInstallSnapshotRes
  <2>4. CASE Receive(m)
    BY <2>4 DEF Receive, NoNewAppend
  <2> QED
    BY <1>2, <1>3, <2>1, <2>2, <2>3, <2>4, Zenon
<1> QED
  BY <1>4, <1>5, <1>6, Zenon DEF Next

\* sendAppendEntries sends a part of the log that follows prevLogIndex.
LEMMA SendIndexed ==
    ASSUME TypeInv, IndexInv, NEW n \in Node, NEW p \in Peers(n), SendAppendEntries(n, p)
    PROVE  RequestsIndexed'
<1> DEFINE prev == nextIndex[n][p] - 1
           tail == IF InWindow(n, prev + 1)
                   THEN SubSeq(log[n], prev + 1 - logOffset[n], Len(log[n])) ELSE << >>
           y == [type |-> "AppendEntries", from |-> n, to |-> p, term |-> currentTerm[n],
                 prevLogIndex |-> prev,
                 prevLogTerm |-> IF TermKnown(n, prev) THEN TermAt(n, prev) ELSE 0,
                 entries |-> tail, leaderCommit |-> commitIndex[n], conn |-> TRUE]
<1>1. msgs' = msgs \cup {y} /\ state[n] = "Leader"
  BY Zenon DEF SendAppendEntries, Send
<1>2. p \in Node /\ log[n] \in Seq(Entry) /\ logOffset[n] \in Nat /\ Len(log[n]) \in Nat
  BY DEF TypeInv, TypeOK, LogTypes, Peers
<1>3. prev \in Nat
  <2>1. nextIndex[n][p] \in Nat /\ nextIndex[n][p] >= 1
    BY <1>1, <1>2 DEF TypeInv, TypeOK, PeerTypes, NextIndexPositive
  <2> QED
    BY <2>1
<1>4. y.entries = tail /\ y.prevLogIndex = prev
  OBVIOUS
<1> HIDE DEF prev
<1>5. Indexed(tail, prev)
  <2>1. CASE InWindow(n, prev + 1)
    <3>1. tail = SubSeq(log[n], prev + 1 - logOffset[n], Len(log[n]))
      BY <2>1
    <3>2. prev + 1 > logOffset[n]
      BY <2>1, Zenon DEF InWindow
    <3>3. /\ prev + 1 - logOffset[n] \in Nat \ {0} /\ Len(log[n]) \in Int
          /\ Len(log[n]) <= Len(log[n]) /\ prev = logOffset[n] + (prev + 1 - logOffset[n]) - 1
      BY <1>2, <1>3, <3>2
    <3>4. Indexed(log[n], logOffset[n])
      BY Zenon DEF IndexInv, LogIndexInvariant, Indexed
    <3> QED
      BY <1>2, <1>3, <3>1, <3>3, <3>4, IndexedPart, Zenon
  <2>2. CASE ~InWindow(n, prev + 1)
    <3>1. Len(tail) = 0
      BY <2>2
    <3> HIDE DEF tail
    <3> QED
      BY <3>1 DEF Indexed
  <2> QED
    BY <2>1, <2>2
<1> HIDE DEF tail, y
<1>6. Indexed(y.entries, y.prevLogIndex)
  BY <1>4, <1>5, Zenon
<1> QED
  BY <1>1, <1>6, Zenon DEF IndexInv, RequestsIndexed

\* Every step of the cluster keeps positions and indices together.
LEMMA IndexInvStep ==
    ASSUME TypeInv, TypeInv', IndexInv, Next
    PROVE  IndexInv'
<1>1. RequestsIndexed'
  <2>1. CASE \E n \in Node : \E p \in Peers(n) : SendAppendEntries(n, p)
    BY <2>1, SendIndexed, Zenon
  <2>2. CASE ~\E n \in Node : \E p \in Peers(n) : SendAppendEntries(n, p)
    BY <2>2, OnlySendAppends, Zenon DEF NoNewAppend, IndexInv, RequestsIndexed
  <2> QED
    BY <2>1, <2>2
<1>2. LogIndexInvariant
  BY DEF IndexInv
<1>3. ASSUME NEW n \in Node, NodeStep(n)
      PROVE  LogIndexInvariant'
  <2>1. CASE SubmitPublish(n)
    BY <1>2, <2>1, SubmitPublishIndexed
  <2>2. CASE \E pub \in persisting[n] : SubmitPersistFailed(n, pub)
    BY <1>2, <2>2, SubmitPersistFailedIndexed
  <2>3. CASE CompactFinish(n)
    BY <1>2, <2>3, CompactFinishIndexed
  <2>4. CASE InstallFinish(n)
    BY <1>2, <2>4, InstallFinishIndexed
  <2>5. CASE \/ StartElection(n) \/ BecomeLeader(n) \/ ApplyTake(n) \/ ApplyRun(n)
             \/ \E pub \in persisting[n] : SubmitPersisted(n, pub)
             \/ \E entry \in waiting[n] : SubmitReturn(n, entry)
             \/ CompactSave(n) \/ InstallDecoded(n) \/ InstallFail(n)
    <3>1. UNCHANGED <<log, logOffset>>
      BY <2>5, Zenon DEF StartElection, BecomeLeader, ApplyTake, ApplyRun, SubmitPersisted,
         SubmitReturn, CompactSave, InstallDecoded, InstallFail, logVars
    <3> QED
      BY <1>2, <3>1, IndexedFrame
  <2> QED
    BY <1>3, <2>1, <2>2, <2>3, <2>4, <2>5, Zenon DEF NodeStep
<1>4. ASSUME NEW n \in Node, NEW p \in Peers(n), PeerStep(n, p)
      PROVE  LogIndexInvariant'
  <2>1. UNCHANGED <<log, logOffset>>
    BY <1>4, Zenon DEF PeerStep, SendAppendEntries, StartCatchUp, SendInstallSnapshot, logVars
  <2> QED
    BY <1>2, <2>1, IndexedFrame
<1>5. ASSUME NEW m \in msgs, Deliver(m) \/ Drop(m)
      PROVE  LogIndexInvariant'
  <2>1. CASE m.type = "AppendEntries" /\ (AcceptAppend(m) \/ FailAppend(m))
    <3>1. m \in AppendEntries
      BY <2>1, MessageKinds DEF TypeInv, TypeOK
    <3>2. Indexed(m.entries, m.prevLogIndex)
      BY <2>1, Zenon DEF IndexInv, RequestsIndexed
    <3> QED
      BY <1>2, <2>1, <3>1, <3>2, AppendIndexed
  <2>2. CASE \/ HandleRequestVote(m) \/ HandleRequestVoteRes(m) \/ RejectStaleAppend(m)
             \/ RejectPrevLog(m) \/ HandleAppendEntriesRes(m) \/ HandleInstallSnapshot(m)
             \/ HandleInstallSnapshotRes(m) \/ Drop(m)
    <3>1. UNCHANGED <<log, logOffset>>
      BY <2>2, Zenon DEF HandleRequestVote, HandleRequestVoteRes, RejectStaleAppend,
         RejectPrevLog, HandleAppendEntriesRes, HandleInstallSnapshot,
         HandleInstallSnapshotRes, Drop, logVars
    <3> QED
      BY <1>2, <3>1, IndexedFrame
  <2> QED
    BY <1>5, <2>1, <2>2, Zenon DEF Deliver, HandleAppendEntries
<1>6. LogIndexInvariant'
  BY <1>3, <1>4, <1>5, Zenon DEF Next
<1> QED
  BY <1>1, <1>6 DEF IndexInv

\* Positions and indices are together in every reachable state.
LEMMA IndexInvariant == Spec => []IndexInv
<1>1. Init => IndexInv
  <2> SUFFICES ASSUME Init PROVE IndexInv
    OBVIOUS
  <2>1. /\ log = [n \in Node |-> <<>>] /\ msgs = {}
        /\ logOffset = [n \in Node |-> 0] /\ snapshotIndex = [n \in Node |-> 0]
    BY Zenon DEF Init
  <2>2. \A n \in Node : log[n] = <<>> /\ logOffset[n] = snapshotIndex[n]
    BY <2>1, Zenon
  <2>3. 1 .. Len(<<>>) = {}
    OBVIOUS
  <2>4. LogIndexInvariant
    BY <2>2, <2>3, Zenon DEF LogIndexInvariant
  <2>5. RequestsIndexed
    BY <2>1, Zenon DEF RequestsIndexed
  <2> QED
    BY <2>4, <2>5, Zenon DEF IndexInv
<1>2. TypeInv /\ TypeInv' /\ IndexInv /\ [Next]_vars => IndexInv'
  <2> SUFFICES ASSUME TypeInv, TypeInv', IndexInv, [Next]_vars PROVE IndexInv'
    OBVIOUS
  <2>1. CASE Next
    BY <2>1, IndexInvStep
  <2>2. CASE UNCHANGED vars
    BY <2>2, Zenon DEF vars, logVars, IndexInv, LogIndexInvariant, RequestsIndexed
  <2> QED
    BY <2>1, <2>2
<1> QED
  BY <1>1, <1>2, TypeInvariant, PTL DEF Spec

\* n.log[i].Index = n.logOffset + i + 1 and logOffset = snapshotIndex, in every
\* cluster whose processes keep running: whatever fails on the disks, and
\* however replication, Submit, compactions and installs interleave.
THEOREM LogIndexTheorem == Spec => []LogIndexInvariant
<1>1. IndexInv => LogIndexInvariant
  BY DEF IndexInv
<1> QED
  BY <1>1, IndexInvariant, PTL

-----------------------------------------------------------------------------
(* Memory and disk *)

\* raft.wal has a record of e.
InWal(n, e) == \E r \in 1 .. Len(wal[n]) : wal[n][r] = e

\* A Submit is writing e to raft.wal.
InSubmit(n, e) == \E pub \in persisting[n] : pub.entry = e

\* A crash of n does not lose e, or nobody was told that it would not.
Safe(n, e) == e.index <= snapFile[n].index \/ InWal(n, e) \/ InSubmit(n, e) \/ e.cmd \in rejected

\* That holds for all of the log.
Covered(n) == \A i \in 1 .. Len(log[n]) : Safe(n, log[n][i])

\* What keeps an entry safe.
LEMMA StaysSafe ==
    ASSUME NEW n \in Node, NEW e \in Entry, Safe(n, e),
           snapFile[n].index \in Nat, snapFile'[n].index \in Nat,
           snapFile'[n].index >= snapFile[n].index,
           InWal(n, e) => Safe(n, e)', InSubmit(n, e) => Safe(n, e)', rejected \subseteq rejected'
    PROVE  Safe(n, e)'
<1>1. CASE e.index <= snapFile[n].index
  <2>1. e.index \in Nat
    BY DEF Entry
  <2>2. e.index <= snapFile'[n].index
    BY <1>1, <2>1
  <2> QED
    BY <2>2 DEF Safe
<1>2. CASE e.cmd \in rejected
  BY <1>2 DEF Safe
<1> QED
  BY <1>1, <1>2, Zenon DEF Safe

\* n holds e in memory.
InLog(n, e) == \E i \in 1 .. Len(log[n]) : e = log[n][i]

\* The log, entry by entry.
LEMMA CoveredEntries ==
    ASSUME TypeOK, NEW n \in Node
    PROVE  Covered(n) <=> \A e \in Entry : InLog(n, e) => Safe(n, e)
<1>1. \A i \in 1 .. Len(log[n]) : log[n][i] \in Entry
  BY DEF TypeOK, LogTypes
<1> QED
  BY <1>1, Zenon DEF Covered, InLog

\* The same after a step.
LEMMA CoveredEntriesNext ==
    ASSUME TypeOK', NEW n \in Node, \A e \in Entry : InLog(n, e)' => Safe(n, e)'
    PROVE  Covered(n)'
<1>1. \A i \in 1 .. Len(log'[n]) : log'[n][i] \in Entry
  BY DEF TypeOK, LogTypes
<1> QED
  BY <1>1, Zenon DEF Covered, InLog, Safe, InWal, InSubmit

\* A step after which n has no other entries in memory, and the records and the
\* Submit calls that it had.
LEMMA CoveredKept ==
    ASSUME TypeOK, TypeOK', NEW n \in Node, Covered(n), rejected \subseteq rejected',
           snapFile'[n].index >= snapFile[n].index,
           \A e \in Entry : InLog(n, e)' => InLog(n, e),
           \A e \in Entry : InLog(n, e)' /\ InWal(n, e) => Safe(n, e)',
           \A e \in Entry : InLog(n, e)' /\ InSubmit(n, e) => Safe(n, e)'
    PROVE  Covered(n)'
<1>1. snapFile[n].index \in Nat /\ snapFile'[n].index \in Nat
  BY DEF TypeOK, DiskTypes, Snapshot
<1>2. ASSUME NEW e \in Entry, InLog(n, e)'
      PROVE  Safe(n, e)'
  <2>1. Safe(n, e)
    BY <1>2, CoveredEntries, Zenon
  <2> QED
    BY <1>1, <1>2, <2>1, StaysSafe, Zenon
<1> QED
  BY <1>2, CoveredEntriesNext, Zenon

\* A node whose memory and files are left alone.
LEMMA CoveredFrame ==
    ASSUME TypeOK, TypeOK', NEW n \in Node, Covered(n), rejected \subseteq rejected',
           snapFile'[n].index >= snapFile[n].index,
           log'[n] = log[n], wal'[n] = wal[n], persisting'[n] = persisting[n]
    PROVE  Covered(n)'
<1>1. \A e \in Entry : InLog(n, e)' => InLog(n, e)
  BY DEF InLog
<1>2. \A e \in Entry : InWal(n, e) => Safe(n, e)'
  BY DEF InWal, Safe
<1>3. \A e \in Entry : InSubmit(n, e) => Safe(n, e)'
  BY DEF InSubmit, Safe
<1> QED
  BY <1>1, <1>2, <1>3, CoveredKept, Zenon

\* A published entry is being written.
LEMMA SubmitPublishCovered ==
    ASSUME TypeInv, TypeInv', NEW n \in Node, Covered(n), SubmitPublish(n)
    PROVE  Covered(n)'
<1>0. PICK entry : entry = [index |-> LogLen(n) + 1, term |-> currentTerm[n], cmd |-> submits + 1]
  OBVIOUS
<1>2. PICK pub : pub = [entry |-> entry, publishedLen |-> Len(log[n]) + 1]
  OBVIOUS
<1>1. /\ log' = [log EXCEPT ![n] = Append(@, entry)]
      /\ persisting' = [persisting EXCEPT ![n] = @ \cup {pub}]
      /\ UNCHANGED <<wal, snapFile, rejected>>
  BY <1>0, <1>2, Zenon DEF SubmitPublish, diskVars
<1>3. /\ log \in [Node -> Seq(Entry)] /\ log[n] \in Seq(Entry) /\ Len(log[n]) \in Nat
      /\ persisting \in [Node -> SUBSET Publication] /\ TypeOK /\ TypeOK'
  <2>1. /\ log \in [Node -> Seq(Entry)] /\ persisting \in [Node -> SUBSET Publication]
        /\ TypeOK /\ TypeOK'
    BY Zenon DEF TypeInv, TypeOK, LogTypes, SubmitTypes
  <2>2. log[n] \in Seq(Entry)
    BY <2>1, Zenon
  <2> QED
    BY <2>1, <2>2
<1>4. log'[n] = Append(log[n], entry)
  BY <1>1, <1>3, Zenon
<1>5. persisting'[n] = persisting[n] \cup {pub}
  BY <1>1, <1>3, Zenon
<1>6. ASSUME NEW e \in Entry, InLog(n, e)'
      PROVE  InLog(n, e) \/ e = entry
  <2>1. PICK i \in 1 .. Len(log'[n]) : e = log'[n][i]
    BY <1>6, Zenon DEF InLog
  <2>2. i \in 1 .. Len(log[n]) + 1 /\ e = Append(log[n], entry)[i]
    BY <1>3, <1>4, <2>1
  <2>3. CASE i <= Len(log[n])
    BY <1>3, <2>2, <2>3 DEF InLog
  <2>4. CASE i = Len(log[n]) + 1
    <3>1. \A x : Append(log[n], x)[Len(log[n]) + 1] = x
      BY <1>3
    <3> QED
      BY <2>2, <2>4, <3>1, Zenon
  <2> QED
    BY <1>3, <2>2, <2>3, <2>4
<1>7. ASSUME NEW e \in Entry, Safe(n, e)
      PROVE  Safe(n, e)'
  BY <1>1, <1>5, <1>7, Zenon DEF Safe, InWal, InSubmit
<1>8. Safe(n, entry)'
  <2>1. pub \in persisting'[n] /\ pub.entry = entry
    BY <1>2, <1>5
  <2> QED
    BY <2>1, Zenon DEF Safe, InSubmit
<1>9. ASSUME NEW e \in Entry, InLog(n, e)'
      PROVE  Safe(n, e)'
  <2>1. CASE InLog(n, e)
    <3>1. Safe(n, e)
      BY <1>3, <2>1, CoveredEntries, Zenon
    <3> QED
      BY <1>7, <3>1
  <2>2. CASE e = entry
    BY <1>8, <2>2, Zenon
  <2> QED
    BY <1>6, <1>9, <2>1, <2>2
<1> QED
  BY <1>3, <1>9, CoveredEntriesNext, Zenon

\* A persisted entry is in raft.wal; one that could not be is rejected.
LEMMA SubmitEndsCovered ==
    ASSUME TypeInv, TypeInv', NEW n \in Node, Covered(n), NEW pub \in persisting[n],
           SubmitPersisted(n, pub) \/ SubmitPersistFailed(n, pub)
    PROVE  Covered(n)'
<1>1. /\ log \in [Node -> Seq(Entry)] /\ log[n] \in Seq(Entry) /\ Len(log[n]) \in Nat
      /\ persisting \in [Node -> SUBSET Publication] /\ wal \in [Node -> Seq(Entry)]
      /\ wal[n] \in Seq(Entry) /\ Len(wal[n]) \in Nat
      /\ TypeOK /\ TypeOK' /\ pub.entry \in Entry /\ snapFile[n].index \in Nat
  <2>1. TypeOK /\ TypeOK'
    BY DEF TypeInv
  <2>2. log \in [Node -> Seq(Entry)] /\ wal \in [Node -> Seq(Entry)] /\ snapFile[n].index \in Nat
    BY <2>1 DEF TypeOK, LogTypes, DiskTypes, Snapshot
  <2>3. persisting \in [Node -> SUBSET Publication] /\ pub.entry \in Entry
    BY <2>1 DEF TypeOK, SubmitTypes, Publication
  <2> QED
    BY <2>1, <2>2, <2>3
<1>2. /\ wal' = wal \/ wal' = [wal EXCEPT ![n] = Append(@, pub.entry)]
      /\ persisting' = [persisting EXCEPT ![n] = @ \ {pub}]
      /\ UNCHANGED snapFile /\ rejected \subseteq rejected'
  BY Zenon DEF SubmitPersisted, SubmitPersistFailed
<1>3. persisting'[n] = persisting[n] \ {pub} /\ snapFile'[n].index >= snapFile[n].index
  BY <1>1, <1>2
<1>4. wal'[n] = wal[n] \/ wal'[n] = Append(wal[n], pub.entry)
  BY <1>1, <1>2, Zenon
<1>5. \A e \in Entry : InLog(n, e)' => InLog(n, e)
  <2>1. log'[n] = log[n] \/ log'[n] = SubSeq(log[n], 1, Len(log[n]) - 1)
    <3>1. CASE SubmitPersisted(n, pub)
      BY <3>1, Zenon DEF SubmitPersisted, logVars
    <3>2. CASE SubmitPersistFailed(n, pub)
      BY <1>1, <3>2, Zenon DEF SubmitPersistFailed
    <3> QED
      BY <3>1, <3>2
  <2>2. CASE log'[n] = log[n]
    BY <2>2, Zenon DEF InLog
  <2>3. CASE log'[n] = SubSeq(log[n], 1, Len(log[n]) - 1)
    <3>1. \A i \in 1 .. Len(log'[n]) : i \in 1 .. Len(log[n]) /\ log'[n][i] = log[n][i]
      BY <1>1, <2>3
    <3> QED
      BY <3>1, Zenon DEF InLog
  <2> QED
    BY <2>1, <2>2, <2>3
<1>6. \A e \in Entry : InWal(n, e) => InWal(n, e)'
  <2>1. \A r \in 1 .. Len(wal[n]) : r \in 1 .. Len(wal'[n]) /\ wal'[n][r] = wal[n][r]
    <3>1. \A r \in 1 .. Len(wal[n]) : /\ r \in 1 .. Len(Append(wal[n], pub.entry))
                                      /\ Append(wal[n], pub.entry)[r] = wal[n][r]
      BY <1>1
    <3> QED
      BY <1>4, <3>1, Zenon
  <2> QED
    BY <2>1, Zenon DEF InWal
<1>7. Safe(n, pub.entry)'
  <2>1. CASE SubmitPersisted(n, pub)
    <3>1. wal'[n] = Append(wal[n], pub.entry)
      BY <1>1, <2>1, Zenon DEF SubmitPersisted
    <3>2. Len(wal'[n]) = Len(wal[n]) + 1 /\ wal'[n][Len(wal[n]) + 1] = pub.entry
      BY <1>1, <3>1
    <3>3. Len(wal[n]) + 1 \in 1 .. Len(wal'[n])
      BY <1>1, <3>2
    <3> QED
      BY <3>2, <3>3, Zenon DEF Safe, InWal
  <2>2. CASE SubmitPersistFailed(n, pub)
    <3>1. pub.entry.cmd \in rejected'
      BY <2>2, Zenon DEF SubmitPersistFailed
    <3> QED
      BY <3>1, Zenon DEF Safe
  <2> QED
    BY <2>1, <2>2
<1>8. ASSUME NEW e \in Entry, InSubmit(n, e)
      PROVE  Safe(n, e)'
  <2>1. PICK q \in persisting[n] : q.entry = e
    BY <1>8, Zenon DEF InSubmit
  <2>2. CASE q = pub
    BY <1>7, <2>1, <2>2, Zenon
  <2>3. CASE q # pub
    BY <1>3, <2>1, <2>3 DEF Safe, InSubmit
  <2> QED
    BY <2>2, <2>3
<1>9. \A e \in Entry : InWal(n, e) => Safe(n, e)'
  BY <1>6, Zenon DEF Safe
<1> QED
  BY <1>1, <1>2, <1>3, <1>5, <1>8, <1>9, CoveredKept, Zenon

\* What handleAppendEntries keeps of the log is a prefix of it, and TruncateAfter
\* keeps the records of that prefix.
LEMMA KeptRecords ==
    ASSUME TypeInv, LogIndexInvariant, NEW m \in AppendEntries,
           NEW k \in 1 .. Len(m.entries) + 1, PrevLogMatches(m.to, m), FirstNew(m.to, m, k)
    PROVE  \A i \in 1 .. Len(KeptLog(m.to, m, k)) :
               /\ i \in 1 .. Len(log[m.to]) /\ KeptLog(m.to, m, k)[i] = log[m.to][i]
               /\ \A r \in 1 .. Len(wal[m.to]) : wal[m.to][r] = KeptLog(m.to, m, k)[i] =>
                      /\ r \in 1 .. Len(KeptWal(m.to, m, k))
                      /\ KeptWal(m.to, m, k)[r] = KeptLog(m.to, m, k)[i]
<1>1. PICK n \in Node : n = m.to
  BY DEF AppendEntries
<1>2. /\ log[n] \in Seq(Entry) /\ wal[n] \in Seq(Entry) /\ logOffset[n] \in Nat
      /\ Len(log[n]) \in Nat /\ Len(wal[n]) \in Nat
  BY DEF TypeInv, TypeOK, LogTypes, DiskTypes
<1>3. CASE ~Conflicts(n, m, k)
  <2>1. KeptLog(n, m, k) = log[n] /\ KeptWal(n, m, k) = wal[n]
    BY <1>3 DEF KeptLog, KeptWal
  <2> QED
    BY <1>1, <2>1, Zenon
<1>4. CASE Conflicts(n, m, k)
  <2>1. PICK last \in Nat : last = m.prevLogIndex + k - 1
    BY DEF AppendEntries
  <2>2. KeptLog(n, m, k) = SubSeq(log[n], 1, last - logOffset[n])
          /\ KeptWal(n, m, k) = TruncateAfter(wal[n], last)
    <3>1. KeptLog(n, m, k) = SubSeq(log[n], 1, m.prevLogIndex + k - 1 - logOffset[n])
      BY <1>4, Zenon DEF KeptLog
    <3>2. KeptWal(n, m, k) = TruncateAfter(wal[n], m.prevLogIndex + k - 1)
      BY <1>4, Zenon DEF KeptWal
    <3>3. m.prevLogIndex \in Nat /\ k \in Nat /\ logOffset[n] \in Nat
      BY <1>2 DEF AppendEntries
    <3>4. m.prevLogIndex + k - 1 - logOffset[n] = last - logOffset[n]
      BY <2>1, <3>3
    <3> QED
      BY <2>1, <3>1, <3>2, <3>4, Zenon
  <2>3. last - logOffset[n] \in Nat /\ last - logOffset[n] <= Len(log[n])
    <3>1. m.prevLogIndex \in Nat /\ k \in Nat
      BY DEF AppendEntries
    <3>2. m.prevLogIndex + k > logOffset[n] /\ m.prevLogIndex + k <= logOffset[n] + Len(log[n])
      BY <1>4, Zenon DEF Conflicts, InWindow, LogLen
    <3>3. logOffset[n] \in Nat /\ Len(log[n]) \in Nat
      BY <1>2
    <3>4. last + 1 = m.prevLogIndex + k
      BY <2>1, <3>1
    <3>5. last + 1 > logOffset[n] /\ last + 1 <= logOffset[n] + Len(log[n])
      BY <3>2, <3>4, Zenon
    <3> QED
      BY <3>3, <3>5
  <2>4. \A i \in 1 .. Len(KeptLog(n, m, k)) :
            i \in 1 .. last - logOffset[n] /\ KeptLog(n, m, k)[i] = log[n][i]
    <3>1. \A b \in Nat : b <= Len(log[n]) =>
              \A i \in 1 .. Len(SubSeq(log[n], 1, b)) :
                  i \in 1 .. b /\ SubSeq(log[n], 1, b)[i] = log[n][i]
      BY <1>2
    <3> QED
      BY <2>2, <2>3, <3>1, Zenon
  <2>6. \A i \in 1 .. last - logOffset[n] : i \in 1 .. Len(log[n])
    BY <1>2, <2>3
  <2>5. ASSUME NEW i \in 1 .. Len(KeptLog(n, m, k)), NEW r \in 1 .. Len(wal[n]),
               wal[n][r] = KeptLog(n, m, k)[i]
        PROVE  r \in 1 .. Len(KeptWal(n, m, k)) /\ KeptWal(n, m, k)[r] = KeptLog(n, m, k)[i]
    <3>1. i \in 1 .. last - logOffset[n] /\ wal[n][r] = log[n][i] /\ i \in 1 .. Len(log[n])
      BY <2>4, <2>5, <2>6, Zenon
    <3>2. log[n][i].index = logOffset[n] + i
      BY <3>1, Zenon DEF LogIndexInvariant
    <3>3. wal[n][r].index <= last
      <4>1. logOffset[n] + i <= last
        BY <1>2, <2>1, <2>3, <3>1
      <4> QED
        BY <3>1, <3>2, <4>1, Zenon
    <3>4. DOMAIN wal[n] = 1 .. Len(wal[n])
      BY <1>2
    <3>5. TruncateAfter(wal[n], last)[r] = wal[n][r]
      BY <3>3, <3>4, Zenon DEF TruncateAfter
    <3>6. Len(TruncateAfter(wal[n], last)) = Len(wal[n])
      <4>1. TruncateAfter(wal[n], last) \in Seq(Entry)
        BY <1>2, TruncateType
      <4>2. DOMAIN TruncateAfter(wal[n], last) = 1 .. Len(wal[n])
        BY <3>4, Zenon DEF TruncateAfter
      <4> QED
        BY <1>2, <4>1, <4>2
    <3> QED
      BY <2>2, <2>5, <3>5, <3>6, Zenon
  <2> QED
    BY <1>1, <2>4, <2>5, <2>6, Zenon
<1> QED
  BY <1>3, <1>4

\* What it takes over from the request it also writes, at least as far as the
\* first entry that could not be written.
LEMMA AppendCovered ==
    ASSUME TypeInv, TypeInv', LogIndexInvariant, NEW m \in AppendEntries,
           NEW k \in 1 .. Len(m.entries) + 1, PrevLogMatches(m.to, m), FirstNew(m.to, m, k),
           Covered(m.to), UNCHANGED <<persisting, rejected, snapFile>>,
           NEW new \in Seq(Entry), NEW records \in Seq(Entry),
           \A i \in 1 .. Len(new) : i \in 1 .. Len(records) /\ records[i] = new[i],
           log'[m.to] = KeptLog(m.to, m, k) \o new, wal'[m.to] = KeptWal(m.to, m, k) \o records
    PROVE  Covered(m.to)'
<1>1. PICK n \in Node : n = m.to
  BY DEF AppendEntries
<1>2. TypeOK /\ TypeOK'
  BY DEF TypeInv
<1>3. PICK kept \in Seq(Entry) : kept = KeptLog(n, m, k)
  BY <1>1, <1>2, KeptTypes
<1>4. PICK keptWal \in Seq(Entry) : keptWal = KeptWal(n, m, k)
  BY <1>1, <1>2, KeptTypes
<1>5. log'[n] = kept \o new /\ wal'[n] = keptWal \o records
  BY <1>1, <1>3, <1>4, Zenon
<1>a. \A i \in 1 .. Len(keptWal) :
          i \in 1 .. Len(keptWal \o records) /\ (keptWal \o records)[i] = keptWal[i]
  BY Joined
<1>b. \A i \in 1 .. Len(records) :
          /\ Len(keptWal) + i \in 1 .. Len(keptWal \o records)
          /\ (keptWal \o records)[Len(keptWal) + i] = records[i]
  BY Joined
<1>c. /\ \A i \in 1 .. Len(kept) : (kept \o new)[i] = kept[i]
      /\ \A i \in 1 .. Len(new) : (kept \o new)[Len(kept) + i] = new[i]
  BY Joined
<1>d. \A i \in 1 .. Len(kept \o new) :
          i \in 1 .. Len(kept) \/ \E j \in 1 .. Len(new) : i = Len(kept) + j
  BY Joined
<1>6. ASSUME NEW e \in Entry, NEW r \in 1 .. Len(keptWal), keptWal[r] = e
      PROVE  Safe(n, e)'
  <2>1. r \in 1 .. Len(keptWal \o records) /\ (keptWal \o records)[r] = keptWal[r]
    BY <1>a, Zenon
  <2> QED
    BY <1>5, <1>6, <2>1, Zenon DEF Safe, InWal
<1>7. ASSUME NEW e \in Entry, NEW i \in 1 .. Len(new), new[i] = e
      PROVE  Safe(n, e)'
  <2>1. i \in 1 .. Len(records) /\ records[i] = e
    BY <1>7, Zenon
  <2>2. /\ Len(keptWal) + i \in 1 .. Len(keptWal \o records)
        /\ (keptWal \o records)[Len(keptWal) + i] = records[i]
    BY <1>b, <2>1, Zenon
  <2> QED
    BY <1>5, <2>1, <2>2, Zenon DEF Safe, InWal
<1>8. ASSUME NEW e \in Entry, NEW i \in 1 .. Len(kept), kept[i] = e
      PROVE  Safe(n, e)'
  <2>1. /\ i \in 1 .. Len(log[n]) /\ e = log[n][i]
        /\ \A r \in 1 .. Len(wal[n]) : wal[n][r] = e =>
               r \in 1 .. Len(keptWal) /\ keptWal[r] = e
    BY <1>1, <1>3, <1>4, <1>8, KeptRecords, Zenon
  <2>2. Safe(n, e)
    BY <1>1, <2>1, Zenon DEF Covered
  <2>3. CASE InWal(n, e)
    BY <1>6, <2>1, <2>3, Zenon DEF InWal
  <2>4. CASE ~InWal(n, e)
    BY <2>2, <2>4, Zenon DEF Safe, InSubmit
  <2> QED
    BY <2>3, <2>4
<1>9. ASSUME NEW e \in Entry, InLog(n, e)'
      PROVE  Safe(n, e)'
  <2>1. PICK i \in 1 .. Len(kept \o new) : e = (kept \o new)[i]
    BY <1>5, <1>9, Zenon DEF InLog
  <2>2. i \in 1 .. Len(kept) \/ \E j \in 1 .. Len(new) : i = Len(kept) + j
    BY <1>d, <2>1, Zenon
  <2>3. CASE i \in 1 .. Len(kept)
    <3>1. kept[i] = e
      BY <1>c, <2>1, <2>3, Zenon
    <3> QED
      BY <1>8, <2>3, <3>1, Zenon
  <2>4. ASSUME NEW j \in 1 .. Len(new), i = Len(kept) + j
        PROVE  Safe(n, e)'
    <3>1. new[j] = e
      BY <1>c, <2>1, <2>4, Zenon
    <3> QED
      BY <1>7, <3>1, Zenon
  <2> QED
    BY <2>2, <2>3, <2>4, Zenon
<1>10. Covered(n)'
  BY <1>2, <1>9, CoveredEntriesNext, Zenon
<1> QED
  BY <1>1, <1>10, Zenon

\* handleAppendEntries, accepting or failing on the disk.
LEMMA HandleAppendCovered ==
    ASSUME TypeInv, TypeInv', LogIndexInvariant, NEW m \in AppendEntries, Covered(m.to),
           AcceptAppend(m) \/ FailAppend(m)
    PROVE  Covered(m.to)'
<1>1. /\ m.to \in Node /\ m.entries \in Seq(Entry) /\ Len(m.entries) \in Nat
  BY DEF AppendEntries
<1>2. /\ log \in [Node -> Seq(Entry)] /\ wal \in [Node -> Seq(Entry)] /\ TypeOK /\ TypeOK'
      /\ snapFile[m.to].index \in Nat
  <2>1. TypeOK /\ TypeOK'
    BY DEF TypeInv
  <2> QED
    BY <1>1, <2>1 DEF TypeOK, LogTypes, DiskTypes, Snapshot
<1>3. PrevLogMatches(m.to, m) /\ UNCHANGED <<persisting, rejected, snapFile>>
  BY Zenon DEF AcceptAppend, FailAppend, submitVars
<1>4. ASSUME NEW k \in 1 .. Len(m.entries) + 1, FirstNew(m.to, m, k),
             NEW j \in Nat, NEW w \in Nat, j <= w, w <= Len(m.entries),
             log' = [log EXCEPT ![m.to] = KeptLog(m.to, m, k) \o SubSeq(m.entries, k, j)],
             wal' = [wal EXCEPT ![m.to] = Persist(KeptWal(m.to, m, k), SubSeq(m.entries, k, w))]
      PROVE  Covered(m.to)'
  <2>1. /\ log'[m.to] = KeptLog(m.to, m, k) \o SubSeq(m.entries, k, j)
        /\ wal'[m.to] = KeptWal(m.to, m, k) \o SubSeq(m.entries, k, w)
    BY <1>1, <1>2, <1>4, Zenon DEF Persist
  <2>2. SubSeq(m.entries, k, j) \in Seq(Entry) /\ SubSeq(m.entries, k, w) \in Seq(Entry)
    BY <1>1, <1>4, SubSeqType
  <2>3. \A i \in 1 .. Len(SubSeq(m.entries, k, j)) :
            /\ i \in 1 .. Len(SubSeq(m.entries, k, w))
            /\ SubSeq(m.entries, k, w)[i] = SubSeq(m.entries, k, j)[i]
    <3>1. k \in Nat \ {0}
      BY <1>1, <1>4
    <3> QED
      BY <1>1, <1>4, <3>1, SameStart
  <2> QED
    BY <1>3, <1>4, <2>1, <2>2, <2>3, AppendCovered, Zenon
<1>5. CASE AcceptAppend(m)
  <2>1. PICK k \in 1 .. Len(m.entries) + 1 :
          LET new == SubSeq(m.entries, k, Len(m.entries))
          IN  /\ FirstNew(m.to, m, k)
              /\ log' = [log EXCEPT ![m.to] = KeptLog(m.to, m, k) \o new]
              /\ wal' = [wal EXCEPT ![m.to] = Persist(KeptWal(m.to, m, k), new)]
    BY <1>5, Zenon DEF AcceptAppend
  <2>2. Len(m.entries) <= Len(m.entries)
    BY <1>1
  <2> QED
    BY <1>1, <1>4, <2>1, <2>2, Zenon
<1>6. CASE FailAppend(m)
  <2>1. PICK k \in 1 .. Len(m.entries) :
          /\ FirstNew(m.to, m, k)
          /\ \/ log' = [log EXCEPT ![m.to] = KeptLog(m.to, m, k)] /\ wal' = wal
             \/ \E f \in k .. Len(m.entries) : \E w \in {f - 1, f} :
                   /\ log' = [log EXCEPT ![m.to] =
                          KeptLog(m.to, m, k) \o SubSeq(m.entries, k, f - 1)]
                   /\ wal' = [wal EXCEPT ![m.to] =
                          Persist(KeptWal(m.to, m, k), SubSeq(m.entries, k, w))]
    BY <1>6, Zenon DEF FailAppend, HeldBefore
  <2>2. k \in 1 .. Len(m.entries) + 1
    BY <1>1
  <2>3. CASE log' = [log EXCEPT ![m.to] = KeptLog(m.to, m, k)] /\ wal' = wal
    <3>1. log'[m.to] = KeptLog(m.to, m, k)
      BY <1>1, <1>2, <2>3, Zenon
    <3>2. \A i \in 1 .. Len(KeptLog(m.to, m, k)) :
              i \in 1 .. Len(log[m.to]) /\ KeptLog(m.to, m, k)[i] = log[m.to][i]
      <4>1. FirstNew(m.to, m, k) /\ PrevLogMatches(m.to, m)
        BY <1>3, <2>1, Zenon
      <4> QED
        BY <2>2, <4>1, KeptRecords, Zenon
    <3>3. \A e \in Entry : InLog(m.to, e)' => InLog(m.to, e)
      BY <3>1, <3>2, Zenon DEF InLog
    <3>4. \A e \in Entry : InWal(m.to, e) \/ InSubmit(m.to, e) => Safe(m.to, e)'
      BY <1>3, <2>3, Zenon DEF InWal, InSubmit, Safe
    <3>5. snapFile'[m.to].index >= snapFile[m.to].index /\ rejected \subseteq rejected'
      BY <1>2, <1>3
    <3> QED
      BY <1>1, <1>2, <3>3, <3>4, <3>5, CoveredKept, Zenon
  <2>4. ASSUME NEW f \in k .. Len(m.entries), NEW w \in {f - 1, f},
               log' = [log EXCEPT ![m.to] = KeptLog(m.to, m, k) \o SubSeq(m.entries, k, f - 1)],
               wal' = [wal EXCEPT ![m.to] = Persist(KeptWal(m.to, m, k), SubSeq(m.entries, k, w))]
        PROVE  Covered(m.to)'
    <3>1. f - 1 \in Nat /\ w \in Nat /\ f - 1 <= w /\ w <= Len(m.entries)
      BY <1>1
    <3> QED
      BY <1>4, <2>1, <2>2, <2>4, <3>1, Zenon
  <2> QED
    BY <2>1, <2>3, <2>4, Zenon
<1> QED
  BY <1>5, <1>6

\* What remains in memory above a snapshot keeps its records: TruncateBefore
\* removes those that the snapshot on disk covers.
LEMMA TruncatedCovered ==
    ASSUME TypeInv, TypeInv', LogIndexInvariant', NEW n \in Node, Covered(n),
           NEW index \in Nat, NEW c \in Nat,
           log'[n] = SubSeq(log[n], c + 1, Len(log[n])), logOffset'[n] = index,
           wal'[n] = TruncateBefore(wal[n], index + 1),
           UNCHANGED <<persisting, rejected>>, snapFile'[n].index >= snapFile[n].index
    PROVE  Covered(n)'
<1>1. /\ log[n] \in Seq(Entry) /\ Len(log[n]) \in Nat /\ wal[n] \in Seq(Entry)
      /\ DOMAIN wal[n] = 1 .. Len(wal[n]) /\ Len(wal[n]) \in Nat
  BY DEF TypeInv, TypeOK, LogTypes, DiskTypes
<1>2. TypeOK /\ TypeOK'
  BY DEF TypeInv
<1>3. \A e \in Entry : InLog(n, e)' => InLog(n, e)
  <2>1. \A i \in 1 .. Len(SubSeq(log[n], c + 1, Len(log[n]))) :
            /\ c + i \in 1 .. Len(log[n])
            /\ SubSeq(log[n], c + 1, Len(log[n]))[i] = log[n][c + i]
    BY <1>1, Rest, Zenon
  <2> QED
    BY <2>1, Zenon DEF InLog
<1>4. ASSUME NEW e \in Entry, InLog(n, e)', InWal(n, e)
      PROVE  Safe(n, e)'
  <2>1. e.index >= index + 1
    <3>1. PICK i \in 1 .. Len(log'[n]) : e = log'[n][i]
      BY <1>4, Zenon DEF InLog
    <3>2. e.index = index + i
      BY <3>1, Zenon DEF LogIndexInvariant
    <3>3. i \in Nat /\ i >= 1
      <4>1. Len(log'[n]) \in Nat
        <5>1. log'[n] \in Seq(Entry)
          BY <1>2, Zenon DEF TypeOK, LogTypes
        <5> QED
          BY <5>1
      <4> QED
        BY <3>1, <4>1
    <3> QED
      BY <3>2, <3>3
  <2>2. PICK r \in 1 .. Len(wal[n]) : wal[n][r] = e
    BY <1>4, Zenon DEF InWal
  <2>3. TruncateBefore(wal[n], index + 1)[r] = e
    BY <1>1, <2>1, <2>2, Zenon DEF TruncateBefore
  <2>4. Len(TruncateBefore(wal[n], index + 1)) = Len(wal[n])
    <3>1. TruncateBefore(wal[n], index + 1) \in Seq(Entry)
      BY <1>1, TruncateType
    <3>2. DOMAIN TruncateBefore(wal[n], index + 1) = 1 .. Len(wal[n])
      BY <1>1, Zenon DEF TruncateBefore
    <3> QED
      BY <1>1, <3>1, <3>2
  <2> QED
    BY <2>2, <2>3, <2>4, Zenon DEF Safe, InWal
<1>5. \A e \in Entry : InSubmit(n, e) => Safe(n, e)'
  BY Zenon DEF InSubmit, Safe
<1>6. rejected \subseteq rejected'
  OBVIOUS
<1> QED
  BY <1>2, <1>3, <1>4, <1>5, <1>6, CoveredKept, Zenon

\* Compaction and install: the log loses its head, raft.wal what the snapshot
\* covers.
LEMMA SnapshotCovered ==
    ASSUME TypeInv, TypeInv', LogIndexInvariant', SnapshotStep, NEW n \in Node, Covered(n),
           CompactFinish(n) \/ InstallFinish(n)
    PROVE  Covered(n)'
<1>1. PICK index \in Nat : index = snapTask[n].snap.index
  BY DEF TypeInv, TypeOK, SnapTypes, SnapTask, Snapshot
<1>2. /\ log \in [Node -> Seq(Entry)] /\ wal \in [Node -> Seq(Entry)]
      /\ logOffset \in [Node -> Nat] /\ logOffset[n] \in Nat /\ Len(log[n]) \in Nat
  BY DEF TypeInv, TypeOK, LogTypes, DiskTypes
<1>3. /\ UNCHANGED <<persisting, rejected>> /\ snapTask[n].kind \in {"compact", "rename"}
      /\ wal' = [wal EXCEPT ![n] = TruncateBefore(wal[n], index + 1)]
  BY <1>1, Zenon DEF CompactFinish, InstallFinish, submitVars
<1>4. index >= logOffset[n]
  BY <1>1, <1>2, <1>3 DEF TypeInv, SnapMuInvariant
<1>5. wal'[n] = TruncateBefore(wal[n], index + 1)
  BY <1>2, <1>3, Zenon
<1>6. snapFile'[n].index >= snapFile[n].index
  BY Zenon DEF SnapshotStep
<1>7. CASE CompactFinish(n)
  <2>1. PICK c \in Nat : c = index - logOffset[n]
    BY <1>2, <1>4
  <2>2. log'[n] = SubSeq(log[n], c + 1, Len(log[n])) /\ logOffset'[n] = index
    BY <1>1, <1>2, <1>7, <2>1, Zenon DEF CompactFinish, DropCovered
  <2> QED
    BY <1>3, <1>5, <1>6, <2>2, TruncatedCovered, Zenon
<1>8. CASE InstallFinish(n)
  <2>1. PICK covered : covered = {i \in 1 .. Len(log[n]) : log[n][i].index <= index}
    OBVIOUS
  <2>2. Cardinality(covered) \in Nat
    <3>1. IsFiniteSet(1 .. Len(log[n]))
      BY <1>2, FS_Interval
    <3>2. covered \subseteq 1 .. Len(log[n])
      BY <2>1
    <3>3. IsFiniteSet(covered)
      BY <3>1, <3>2, FS_Subset
    <3> QED
      BY <3>3, FS_CardinalityType
  <2>3. log'[n] = SubSeq(log[n], Cardinality(covered) + 1, Len(log[n]))
    BY <1>1, <1>2, <1>8, <2>1, Zenon DEF InstallFinish
  <2>4. logOffset'[n] = index
    <3>1. logOffset'[n] = IF index > logOffset[n] THEN index ELSE logOffset[n]
      BY <1>1, <1>2, <1>8, Zenon DEF InstallFinish
    <3> QED
      BY <1>2, <1>4, <3>1
  <2> QED
    BY <1>3, <1>5, <1>6, <2>2, <2>3, <2>4, TruncatedCovered, Zenon
<1> QED
  BY <1>7, <1>8

\* The step leaves the entries of every node but n where they are.
OnlyEntriesOf(n) ==
    /\ \A k \in Node : k # n => /\ log'[k] = log[k]
                                /\ wal'[k] = wal[k]
                                /\ persisting'[k] = persisting[k]
    /\ rejected \subseteq rejected'

AllCovered == \A n \in Node : Covered(n)

\* What a step that touches the entries of n has to show.
LEMMA CoveredChange ==
    ASSUME TypeInv, TypeInv', SnapshotStep, AllCovered, NEW n \in Node, OnlyEntriesOf(n),
           Covered(n)'
    PROVE  AllCovered'
<1>1. TypeOK /\ TypeOK'
  BY DEF TypeInv
<1>2. ASSUME NEW k \in Node, k # n
      PROVE  Covered(k)'
  <2>1. /\ log'[k] = log[k] /\ wal'[k] = wal[k] /\ persisting'[k] = persisting[k]
        /\ rejected \subseteq rejected' /\ snapFile'[k].index >= snapFile[k].index /\ Covered(k)
    BY <1>2, Zenon DEF OnlyEntriesOf, SnapshotStep, AllCovered
  <2> QED
    BY <1>1, <2>1, CoveredFrame, Zenon
<1> QED
  BY <1>2, Zenon DEF AllCovered

\* Most steps touch no entry.
LEMMA AllCoveredFrame ==
    ASSUME TypeInv, TypeInv', SnapshotStep, AllCovered, UNCHANGED <<log, wal, persisting, rejected>>
    PROVE  AllCovered'
<1>1. TypeOK /\ TypeOK'
  BY DEF TypeInv
<1>2. ASSUME NEW k \in Node
      PROVE  Covered(k)'
  <2>1. snapFile'[k].index >= snapFile[k].index /\ Covered(k) /\ rejected \subseteq rejected'
    BY Zenon DEF SnapshotStep, AllCovered
  <2> QED
    BY <1>1, <2>1, CoveredFrame, Zenon
<1> QED
  BY <1>2, Zenon DEF AllCovered

\* No step uncovers an entry.
LEMMA CoveredStep ==
    ASSUME TypeInv, TypeInv', LogIndexInvariant, LogIndexInvariant', SnapshotStep, AllCovered, Next
    PROVE  AllCovered'
<1>1. /\ log \in [Node -> Seq(Entry)] /\ wal \in [Node -> Seq(Entry)]
      /\ persisting \in [Node -> SUBSET Publication]
  BY DEF TypeInv, TypeOK, LogTypes, DiskTypes, SubmitTypes
<1>2. \A n \in Node : Covered(n)
  BY DEF AllCovered
<1>3. ASSUME NEW n \in Node, NodeStep(n)
      PROVE  AllCovered'
  <2>1. CASE SubmitPublish(n)
    <3>1. OnlyEntriesOf(n)
      BY <1>1, <2>1, Zenon DEF SubmitPublish, OnlyEntriesOf, diskVars
    <3> QED
      BY <1>2, <2>1, <3>1, SubmitPublishCovered, CoveredChange, Zenon
  <2>2. ASSUME NEW pub \in persisting[n], SubmitPersisted(n, pub) \/ SubmitPersistFailed(n, pub)
        PROVE  AllCovered'
    <3>1. CASE SubmitPersisted(n, pub)
      <4>1. OnlyEntriesOf(n)
        BY <1>1, <3>1, Zenon DEF SubmitPersisted, OnlyEntriesOf, logVars
      <4> QED
        BY <1>2, <3>1, <4>1, SubmitEndsCovered, CoveredChange, Zenon
    <3>2. CASE SubmitPersistFailed(n, pub)
      <4>1. \A k \in Node : k # n => wal'[k] = wal[k]
        <5>1. wal' = wal \/ wal' = [wal EXCEPT ![n] = Append(wal[n], pub.entry)]
          BY <3>2, Zenon DEF SubmitPersistFailed
        <5> QED
          BY <1>1, <5>1, Zenon
      <4>2. \A k \in Node : k # n => log'[k] = log[k] /\ persisting'[k] = persisting[k]
        BY <1>1, <3>2, Zenon DEF SubmitPersistFailed
      <4>3. rejected \subseteq rejected'
        BY <3>2, Zenon DEF SubmitPersistFailed
      <4>4. OnlyEntriesOf(n)
        BY <4>1, <4>2, <4>3, Zenon DEF OnlyEntriesOf
      <4> QED
        BY <1>2, <3>2, <4>4, SubmitEndsCovered, CoveredChange, Zenon
    <3> QED
      BY <2>2, <3>1, <3>2
  <2>3. CASE CompactFinish(n) \/ InstallFinish(n)
    <3>1. OnlyEntriesOf(n)
      BY <1>1, <2>3, Zenon DEF CompactFinish, InstallFinish, OnlyEntriesOf, submitVars
    <3> QED
      BY <1>2, <2>3, <3>1, SnapshotCovered, CoveredChange, Zenon
  <2>4. CASE \/ StartElection(n) \/ BecomeLeader(n) \/ ApplyTake(n) \/ ApplyRun(n)
             \/ \E entry \in waiting[n] : SubmitReturn(n, entry)
             \/ CompactSave(n) \/ InstallDecoded(n) \/ InstallFail(n)
    <3>1. UNCHANGED <<log, wal, persisting, rejected>>
      BY <2>4, Zenon DEF StartElection, BecomeLeader, ApplyTake, ApplyRun, SubmitReturn,
         CompactSave, InstallDecoded, InstallFail, logVars, diskVars, submitVars
    <3> QED
      BY <3>1, AllCoveredFrame
  <2> QED
    BY <1>3, <2>1, <2>2, <2>3, <2>4, Zenon DEF NodeStep
<1>4. ASSUME NEW n \in Node, NEW p \in Peers(n), PeerStep(n, p)
      PROVE  AllCovered'
  <2>1. UNCHANGED <<log, wal, persisting, rejected>>
    BY <1>4, Zenon DEF PeerStep, SendAppendEntries, StartCatchUp, SendInstallSnapshot,
       logVars, diskVars, submitVars
  <2> QED
    BY <2>1, AllCoveredFrame
<1>5. ASSUME NEW m \in msgs, Deliver(m) \/ Drop(m)
      PROVE  AllCovered'
  <2>1. CASE m.type = "AppendEntries" /\ (AcceptAppend(m) \/ FailAppend(m))
    <3>1. m \in AppendEntries
      BY <2>1, MessageKinds DEF TypeInv, TypeOK
    <3>2. m.to \in Node
      BY <3>1 DEF AppendEntries
    <3>3. /\ UNCHANGED <<persisting, rejected>>
          /\ \E new, records : /\ log' = [log EXCEPT ![m.to] = new]
                               /\ wal' = wal \/ wal' = [wal EXCEPT ![m.to] = records]
      BY <2>1, Zenon DEF AcceptAppend, FailAppend, submitVars
    <3>4. OnlyEntriesOf(m.to)
      BY <1>1, <3>2, <3>3, Zenon DEF OnlyEntriesOf
    <3> QED
      BY <1>2, <2>1, <3>1, <3>2, <3>4, HandleAppendCovered, CoveredChange, Zenon
  <2>2. CASE \/ HandleRequestVote(m) \/ HandleRequestVoteRes(m) \/ RejectStaleAppend(m)
             \/ RejectPrevLog(m) \/ HandleAppendEntriesRes(m) \/ HandleInstallSnapshot(m)
             \/ HandleInstallSnapshotRes(m) \/ Drop(m)
    <3>1. UNCHANGED <<log, wal, persisting, rejected>>
      BY <2>2, Zenon DEF HandleRequestVote, HandleRequestVoteRes, RejectStaleAppend,
         RejectPrevLog, HandleAppendEntriesRes, HandleInstallSnapshot,
         HandleInstallSnapshotRes, Drop, logVars, diskVars, submitVars
    <3> QED
      BY <3>1, AllCoveredFrame
  <2> QED
    BY <1>5, <2>1, <2>2, Zenon DEF Deliver, HandleAppendEntries
<1> QED
  BY <1>3, <1>4, <1>5, Zenon DEF Next

\* No crash point leaves a gap between raft.snapshot and raft.wal: whatever a
\* node holds in memory is on its disk, except what a Submit is still writing or
\* has reported as failed.  Along any behaviour without restarts, with any
\* number of disk failures, compactions, installs and terms.
THEOREM NoGapTheorem == Spec => []NoGapOnDisk
<1> DEFINE Held == SnapFileInvariant /\ AllCovered
<1>1. Init => Held
  <2>1. Init => /\ snapFile = [n \in Node |-> NoSnapshot] /\ snapTask = [n \in Node |-> Idle]
                /\ snapshotIndex = [n \in Node |-> 0] /\ log = [n \in Node |-> <<>>]
    BY Zenon DEF Init
  <2>2. NoSnapshot.index = 0 /\ Idle.kind = "idle"
    BY DEF NoSnapshot, Idle
  <2>3. Init => SnapFileInvariant
    BY <2>1, <2>2 DEF SnapFileInvariant
  <2>4. Init => AllCovered
    BY <2>1 DEF AllCovered, Covered, InLog
  <2> QED
    BY <2>3, <2>4
<1>2. TypeInv /\ TypeInv' /\ IndexInv /\ IndexInv' /\ Held /\ [Next]_vars => Held'
  <2> SUFFICES ASSUME TypeInv, TypeInv', IndexInv, IndexInv', Held, [Next]_vars PROVE Held'
    OBVIOUS
  <2>1. SnapFileInvariant' /\ SnapshotStep
    BY SnapFileStep, SnapFileStutter
  <2>2. LogIndexInvariant /\ LogIndexInvariant'
    BY DEF IndexInv
  <2>3. CASE Next
    BY <2>1, <2>2, <2>3, CoveredStep
  <2>4. CASE UNCHANGED vars
    <3>1. UNCHANGED <<log, wal, persisting, rejected>>
      BY <2>4 DEF vars, logVars, diskVars, submitVars
    <3> QED
      BY <2>1, <3>1, AllCoveredFrame
  <2> QED
    BY <2>3, <2>4
<1>3. TypeInv /\ Held => NoGapOnDisk
  <2> SUFFICES ASSUME TypeInv, Held, NEW n \in Node
               PROVE  /\ snapFile[n].index >= snapshotIndex[n]
                      /\ \A i \in 1 .. Len(log[n]) :
                             \/ OnDisk(n, log[n][i])
                             \/ \E pub \in persisting[n] : pub.entry = log[n][i]
                             \/ log[n][i].cmd \in rejected
    BY Zenon DEF NoGapOnDisk
  <2>1. snapFile[n].index >= snapshotIndex[n]
    <3>1. snapshotIndex[n] \in Nat /\ snapTask[n].snap.index \in Nat
      BY DEF TypeInv, TypeOK, LogTypes, SnapTypes, SnapTask, Snapshot
    <3>2. snapTask[n].kind = "compact" => snapTask[n].snap.index > snapshotIndex[n]
      BY DEF TypeInv, SnapMuInvariant
    <3>3. snapFile[n].index = IF snapTask[n].kind = "compact" THEN snapTask[n].snap.index
                                                              ELSE snapshotIndex[n]
      BY Zenon DEF SnapFileInvariant
    <3>4. PICK a \in Nat, b \in Nat : a = snapshotIndex[n] /\ b = snapTask[n].snap.index
      BY <3>1
    <3>5. snapFile[n].index = a \/ (snapFile[n].index = b /\ b > a)
      BY <3>2, <3>3, <3>4, Zenon
    <3> QED
      BY <3>4, <3>5
  <2>2. Covered(n)
    BY DEF AllCovered
  <2> QED
    BY <2>1, <2>2, Zenon DEF Covered, Safe, InWal, InSubmit, OnDisk
<1> QED
  BY <1>1, <1>2, <1>3, TypeInvariant, IndexInvariant, PTL DEF Spec

=============================================================================
