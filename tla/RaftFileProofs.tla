--------------------------- MODULE RaftFileProofs ---------------------------
(***************************************************************************)
(* The files of a Raft node.  raft.snapshot: a snapshot arrives whole, and *)
(* a leader's matchIndex for the peer is right, for snapshots of any       *)
(* length and any number of streams.  raft.wal: an upgrade never loses a   *)
(* record, and only its last gap can hide one, for every v2 log and any    *)
(* number of upgrades, deaths and rollbacks.                               *)
(***************************************************************************)
EXTENDS SnapshotTransfer, WALUpgrade, SequenceTheorems, TLAPS

-----------------------------------------------------------------------------
(* The transfer of a snapshot *)

\* Snapshots are taken at real indices, and the one at an index is the same
\* sequence of chunks on every replica (SnapshotDeterminism in Raft).
Setting ==
    /\ Index \subseteq Nat \ {0}
    /\ TermOf \in [Index -> Nat]
    /\ File \in [Index -> Seq(Chunk)]
    /\ MaxTerm \in Nat

\* o is where a chunk of snapshot i begins.
Offset(i, o) == o = 0 \/ o < Total(i)

\* What SendChunk puts into a request.
Genuine(m) ==
    /\ Offset(m.index, m.offset)
    /\ m.lastTerm = TermOf[m.index]
    /\ m.data = SubSeq(File[m.index], m.offset + 1, End(m.index, m.offset))
    /\ m.done = (End(m.index, m.offset) = Total(m.index))

\* f is the snapshot of its index, complete.
Whole(f) ==
    /\ f.index \in Index
    /\ f.term = TermOf[f.index]
    /\ f.size = Total(f.index)
    /\ f.crc = File[f.index] /\ f.data = File[f.index]

\* What a spill file holds after `expected' chunks of its snapshot.
Spilled(p, f) ==
    /\ p.index \in Index /\ p.term = TermOf[p.index]
    /\ p.expected \in 0 .. Total(p.index)
    /\ p.crc = SubSeq(File[p.index], 1, p.expected)
    /\ f.index = p.index /\ f.term = p.term
    /\ f.data = SubSeq(File[p.index], 1, p.expected)

StreamInv ==
    \A s \in Sender :
        /\ stream[s].stage = "ready" => Offset(stream[s].index, stream[s].offset)
        /\ stream[s].stage = "waiting" => Genuine(stream[s].req)

RequestInv == \A m \in requests : Genuine(m)

\* An acknowledged last chunk is on disk.
ReplyInv == \A r \in replies : r.success /\ r.req.done => r.req.index <= snapFile.index

PendingInv ==
    /\ open => Spilled(pending, recv)
    /\ ~open => pending.expected = 0

FileInv == snapFile = NoFile \/ Whole(snapFile)

\* The handler that holds snapMu: a complete spill file that is ahead of the
\* snapshot on disk, and after the rename a snapshot ahead of the memory.
InstallInv ==
    /\ installing.stage = "installer" =>
           Whole(recv) /\ recv.index = installing.req.index /\ recv.index > snapFile.index
    /\ installing.stage = "renamed" => snapFile.index = installing.req.index
    /\ installing.stage # "renamed" => snapshotIndex = snapFile.index
    /\ installing.stage # "idle" => ~open

\* The inductive invariant.
TransferInv ==
    /\ TypeOK
    /\ StreamInv /\ RequestInv /\ ReplyInv
    /\ PendingInv /\ FileInv /\ InstallInv
    /\ MatchedIsInstalled

-----------------------------------------------------------------------------
\* A chunk continues the prefix that ends at its offset.
LEMMA ChunkContinues ==
    ASSUME Setting, NEW i \in Index, NEW o \in Nat, Offset(i, o)
    PROVE  LET d == SubSeq(File[i], o + 1, End(i, o))
           IN  /\ End(i, o) \in o .. Total(i)
               /\ d \in Seq(Chunk) /\ Len(d) = End(i, o) - o
               /\ SubSeq(File[i], 1, o) \o d = SubSeq(File[i], 1, End(i, o))
<1> DEFINE F == File[i]
<1>1. F \in Seq(Chunk) /\ Len(F) \in Nat
  BY DEF Setting
<1>2. End(i, o) \in o .. Len(F) /\ o \in 0 .. Len(F)
  BY <1>1 DEF Offset, End, Total
<1>3. SubSeq(F, 1, o) \o SubSeq(F, o + 1, End(i, o)) = SubSeq(F, 1, End(i, o))
  <2> HIDE DEF F
  <2>1. 1 \in 1 .. Len(F) + 1 /\ o \in 1 - 1 .. Len(F)
    BY <1>1, <1>2
  <2> QED  BY <1>1, <1>2, <2>1, ConcatAdjacentSubSeq
<1>4. /\ SubSeq(F, o + 1, End(i, o)) \in Seq(Chunk)
      /\ Len(SubSeq(F, o + 1, End(i, o))) = End(i, o) - o
  <2> HIDE DEF F
  <2>1. CASE End(i, o) = o
    BY <1>1, <1>2, <2>1, SubSeqEmpty
  <2>2. CASE End(i, o) > o
    BY <1>1, <1>2, <2>2, SubSeqProperties
  <2> QED  BY <1>1, <1>2, <2>1, <2>2
<1> QED  BY <1>1, <1>2, <1>3, <1>4 DEF Total

\* Whether it starts a transfer or goes on with one, the handler has a tuple
\* and a spill file that agree.
LEMMA BegunAgrees ==
    ASSUME Setting, TransferInv, NEW m \in requests
    PROVE  LET b == Begun(m)
           IN  /\ b.pending \in [index : Nat, term : Nat, expected : Nat, crc : Seq(Chunk)]
               /\ b.recv \in SnapshotFile /\ b.open \in BOOLEAN
               /\ b.pending.index \in Nat
               /\ b.open => Spilled(b.pending, b.recv)
               /\ ~b.open => b.pending.expected = 0 /\ m.offset # 0
               /\ b.open => b.pending.index = m.index
<1> DEFINE b == Begun(m)
<1>0. /\ m.index \in Index /\ m.index \in Nat /\ m.lastTerm \in Nat /\ m.offset \in Nat
      /\ m.lastTerm = TermOf[m.index]
  BY DEF Setting, TransferInv, TypeOK, Request, RequestInv, Genuine
<1>a. <<>> \in Seq(Chunk)
  OBVIOUS
<1>1. CASE newTransfer(m)
  <2>1. /\ b.pending = [index |-> m.index, term |-> m.lastTerm, expected |-> 0, crc |-> <<>>]
        /\ b.recv = [index |-> m.index, term |-> m.lastTerm, size |-> 0, crc |-> <<>>,
                     data |-> <<>>]
        /\ b.open = TRUE
    BY <1>1 DEF Begun, NoFile
  <2> HIDE DEF b
  <2>2. b.recv \in SnapshotFile
    BY <1>0, <1>a, <2>1 DEF SnapshotFile
  <2>3. SubSeq(File[m.index], 1, 0) = <<>>
    BY SubSeqEmpty
  <2>4. 0 \in 0 .. Total(m.index)
    BY <1>0 DEF Setting, Total
  <2>5. b.pending \in [index : Nat, term : Nat, expected : Nat, crc : Seq(Chunk)]
    BY <1>0, <1>a, <2>1
  <2>6. Spilled(b.pending, b.recv)
    BY <1>0, <2>1, <2>3, <2>4 DEF Spilled
  <2>7. b.pending.index \in Nat /\ b.pending.index = m.index
    BY <1>0, <2>1
  <2> QED  BY <2>1, <2>2, <2>5, <2>6, <2>7 DEF b
<1>2. CASE ~newTransfer(m)
  <2>1. b.pending = pending /\ b.recv = recv /\ b.open = open
    BY <1>2 DEF Begun
  <2>2. m.offset # 0 /\ pending.index = m.index
    BY <1>2 DEF newTransfer
  <2> HIDE DEF b
  <2> QED  BY <1>0, <2>1, <2>2 DEF TransferInv, TypeOK, PendingInv, b
<1> QED  BY <1>1, <1>2

\* A chunk that fits finds its file open and extends it by exactly the chunk
\* that follows.
LEMMA AppendedExtends ==
    ASSUME Setting, TransferInv, NEW m \in requests,
           m.offset = Begun(m).pending.expected
    PROVE  LET a == Appended(m)
           IN  /\ Begun(m).open
               /\ a.pending \in [index : Nat, term : Nat, expected : Nat, crc : Seq(Chunk)]
               /\ a.recv \in SnapshotFile
               /\ Spilled(a.pending, a.recv)
               /\ a.pending.index = m.index
               /\ m.done <=> a.pending.expected = Total(m.index)
<1> DEFINE b == Begun(m)
           a == Appended(m)
<1>0. /\ m.index \in Index /\ m.offset \in Nat /\ m.data \in Seq(Chunk)
      /\ Genuine(m)
  BY DEF TransferInv, TypeOK, Request, RequestInv
<1>1. /\ b.pending \in [index : Nat, term : Nat, expected : Nat, crc : Seq(Chunk)]
      /\ b.recv \in SnapshotFile /\ b.open
      /\ Spilled(b.pending, b.recv) /\ b.pending.index = m.index
  BY BegunAgrees
<1>2. /\ a.pending = [b.pending EXCEPT !.expected = @ + Len(m.data), !.crc = @ \o m.data]
      /\ a.recv = [b.recv EXCEPT !.data = @ \o m.data]
  BY <1>1 DEF Appended
<1>o. m.offset = b.pending.expected
  OBVIOUS
<1> HIDE DEF a, b
<1>3. /\ a.pending.index = m.index /\ a.pending.term = b.pending.term
      /\ a.pending.expected = m.offset + Len(m.data)
      /\ a.pending.crc = b.pending.crc \o m.data
      /\ a.recv.index = b.recv.index /\ a.recv.term = b.recv.term
      /\ a.recv.data = b.recv.data \o m.data
  <2> DEFINE p == b.pending
             f == b.recv
  <2>1. /\ p \in [index : Nat, term : Nat, expected : Nat, crc : Seq(Chunk)]
        /\ p.index = m.index /\ p.expected = m.offset
        /\ a.pending = [p EXCEPT !.expected = p.expected + Len(m.data), !.crc = p.crc \o m.data]
    BY <1>1, <1>2, <1>o
  <2>2. f \in SnapshotFile /\ a.recv = [f EXCEPT !.data = f.data \o m.data]
    BY <1>1, <1>2
  <2> HIDE DEF p, f
  <2>3. /\ a.pending.index = m.index /\ a.pending.term = p.term
        /\ a.pending.expected = m.offset + Len(m.data)
        /\ a.pending.crc = p.crc \o m.data
    BY <2>1
  <2>4. a.recv.index = f.index /\ a.recv.term = f.term /\ a.recv.data = f.data \o m.data
    BY <2>2 DEF SnapshotFile
  <2> QED  BY <2>3, <2>4 DEF p, f
<1>4. /\ End(m.index, m.offset) \in m.offset .. Total(m.index)
      /\ Len(m.data) = End(m.index, m.offset) - m.offset
      /\ SubSeq(File[m.index], 1, m.offset) \o m.data
             = SubSeq(File[m.index], 1, End(m.index, m.offset))
  BY <1>0, ChunkContinues DEF Genuine
<1>5. Total(m.index) \in Nat
  BY <1>0 DEF Setting, Total
<1>6. a.pending.expected = End(m.index, m.offset) /\ a.pending.expected \in 0 .. Total(m.index)
  <2> DEFINE e == End(m.index, m.offset)
             t == Total(m.index)
  <2>1. /\ e \in m.offset .. t /\ t \in Nat /\ m.offset \in Nat
        /\ a.pending.expected = m.offset + (e - m.offset)
    BY <1>0, <1>3, <1>4, <1>5
  <2> HIDE DEF e, t
  <2>2. a.pending.expected = e /\ e \in 0 .. t
    BY <2>1
  <2> QED  BY <2>2 DEF e, t
<1>7. Spilled(a.pending, a.recv)
  <2>1. /\ b.pending.term = TermOf[m.index]
        /\ b.pending.crc = SubSeq(File[m.index], 1, m.offset)
        /\ b.recv.index = m.index /\ b.recv.term = b.pending.term
        /\ b.recv.data = SubSeq(File[m.index], 1, m.offset)
    BY <1>1, <1>o DEF Spilled
  <2>2. /\ a.pending.crc = SubSeq(File[m.index], 1, a.pending.expected)
        /\ a.recv.data = SubSeq(File[m.index], 1, a.pending.expected)
    BY <1>3, <1>4, <1>6, <2>1
  <2> QED  BY <1>0, <1>3, <1>6, <2>1, <2>2 DEF Spilled
<1>8. /\ a.pending \in [index : Nat, term : Nat, expected : Nat, crc : Seq(Chunk)]
      /\ a.recv \in SnapshotFile
  <2>1. b.pending.crc \o m.data \in Seq(Chunk) /\ b.recv.data \o m.data \in Seq(Chunk)
    BY <1>0, <1>1, ConcatProperties DEF SnapshotFile
  <2>2. b.pending.expected + Len(m.data) \in Nat
    BY <1>0, <1>1
  <2> QED  BY <1>1, <1>2, <2>1, <2>2 DEF SnapshotFile
<1> QED  BY <1>0, <1>1, <1>3, <1>6, <1>7, <1>8 DEF a, b, Genuine

\* The invariant holds at the start.
LEMMA TransferInit ==
    ASSUME Setting, Init  PROVE  TransferInv
<1>1. TypeOK
  <2>1. stream \in [Sender -> Stream] /\ matched \in [Sender -> Nat]
    BY DEF Init, Stream
  <2>2. <<>> \in Seq(Chunk)
    OBVIOUS
  <2>3. /\ pending \in [index : Nat, term : Nat, expected : Nat, crc : Seq(Chunk)]
        /\ recv \in SnapshotFile /\ snapFile \in SnapshotFile
    BY <2>2 DEF Init, Nothing, NoFile, SnapshotFile
  <2> QED  BY <2>1, <2>3 DEF Init, TypeOK
<1>2. StreamInv /\ RequestInv /\ ReplyInv
  BY DEF Init, StreamInv, RequestInv, ReplyInv, Idle
<1>3. PendingInv /\ FileInv /\ InstallInv
  BY DEF Init, PendingInv, FileInv, InstallInv, Idle, Nothing, NoFile
<1>4. MatchedIsInstalled
  BY DEF Init, MatchedIsInstalled, NoFile
<1> QED  BY <1>1, <1>2, <1>3, <1>4 DEF TransferInv

\* Requests that vanish and streams that stay do no harm.
LEMMA StreamsKept ==
    ASSUME TransferInv, UNCHANGED stream, requests' \subseteq requests
    PROVE  (StreamInv /\ RequestInv)'
<1>1. StreamInv'
  BY DEF TransferInv, StreamInv, Genuine, Offset
<1>2. RequestInv'
  BY DEF TransferInv, RequestInv, Genuine, Offset
<1> QED  BY <1>1, <1>2

\* While raft.snapshot stays, so does what is known of it.
LEMMA FileKept ==
    ASSUME TransferInv, UNCHANGED <<snapFile, matched>>
    PROVE  (FileInv /\ MatchedIsInstalled)'
BY DEF TransferInv, FileInv, MatchedIsInstalled, Whole

\* Answers that were true stay true, and a refusal is.
LEMMA RepliesKept ==
    ASSUME TransferInv, UNCHANGED snapFile,
           \A r \in replies' : r \in replies \/ ~r.success
    PROVE  ReplyInv'
BY DEF TransferInv, ReplyInv

\* A step of the leader leaves the follower alone; what it sends is genuine,
\* and what it records was acknowledged.
LEMMA SenderStep ==
    ASSUME Setting, TransferInv, NEW s \in Sender,
           \/ LoadSnapshot(s) \/ SendChunk(s) \/ GiveUp(s)
           \/ \E r \in replies : HandleReply(s, r)
    PROVE  TransferInv'
<1> USE DEF TransferInv
<1>0. UNCHANGED <<pendingVars, followerVars, faultVars>>
  BY DEF LoadSnapshot, SendChunk, GiveUp, HandleReply
<1>1. (PendingInv /\ FileInv /\ InstallInv)'
  BY <1>0 DEF PendingInv, FileInv, InstallInv, Spilled, Whole, pendingVars, followerVars
<1>2. CASE LoadSnapshot(s)
  <2>1. PICK i \in Index, t \in 1 .. MaxTerm :
            stream' = [stream EXCEPT ![s] =
                [stage |-> "ready", index |-> i, term |-> t, offset |-> 0]]
    BY <1>2 DEF LoadSnapshot
  <2>2. UNCHANGED <<matched, sent, requests, replies>>
    BY <1>2 DEF LoadSnapshot
  <2>3. TypeOK'
    BY <1>0, <2>1, <2>2 DEF Setting, TypeOK, Stream, pendingVars, followerVars, faultVars
  <2>4. StreamInv'
    BY <2>1 DEF TypeOK, StreamInv, Offset, Genuine
  <2> QED  BY <1>0, <1>1, <2>2, <2>3, <2>4
       DEF RequestInv, ReplyInv, MatchedIsInstalled, Genuine, followerVars
<1>3. CASE SendChunk(s)
  <2> DEFINE st == stream[s]
             req == [rpc |-> sent + 1, index |-> st.index, lastTerm |-> TermOf[st.index],
                     term |-> st.term, offset |-> st.offset,
                     data |-> SubSeq(File[st.index], st.offset + 1, End(st.index, st.offset)),
                     done |-> End(st.index, st.offset) = Total(st.index)]
  <2>1. /\ st.stage = "ready"
        /\ sent' = sent + 1 /\ requests' = requests \cup {req}
        /\ stream' = [stream EXCEPT ![s] = [stage |-> "waiting", req |-> req]]
        /\ UNCHANGED <<matched, replies>>
    BY <1>3 DEF SendChunk
  <2>2. st \in [stage : {"ready"}, index : Index, term : Nat, offset : Nat]
    <3>1. st \in Stream
      BY DEF TypeOK
    <3> HIDE DEF st
    <3>2. st # Idle
      BY <2>1 DEF Idle
    <3>3. st \notin [stage : {"waiting"}, req : Request]
      <4>1. \A w \in [stage : {"waiting"}, req : Request] : w.stage = "waiting"
        OBVIOUS
      <4> QED  BY <2>1, <4>1
    <3> QED  BY <3>1, <3>2, <3>3 DEF Stream
  <2>3. Offset(st.index, st.offset)
    BY <2>1 DEF StreamInv
  <2> HIDE DEF st
  <2>4. req \in Request
    <3>1. SubSeq(File[st.index], st.offset + 1, End(st.index, st.offset)) \in Seq(Chunk)
      BY <2>2, <2>3, ChunkContinues
    <3>2. TermOf[st.index] \in Nat
      BY <2>2 DEF Setting
    <3>3. sent + 1 \in Nat
      BY DEF TypeOK
    <3> QED  BY <2>2, <3>1, <3>2, <3>3 DEF Request
  <2>5. Genuine(req)
    BY <2>3 DEF Genuine
  <2> HIDE DEF req
  <2>6. [stage |-> "waiting", req |-> req] \in Stream
    BY <2>4 DEF Stream
  <2>7. TypeOK'
    <3>1. requests' \subseteq Request /\ stream' \in [Sender -> Stream] /\ sent' \in Nat
      BY <2>1, <2>4, <2>6 DEF TypeOK
    <3> QED  BY <1>0, <2>1, <3>1 DEF TypeOK, pendingVars, followerVars, faultVars
  <2>8. StreamInv'
    BY <2>1, <2>5 DEF TypeOK, StreamInv, Offset, Genuine
  <2>9. RequestInv'
    BY <2>1, <2>5 DEF RequestInv, Genuine
  <2> QED  BY <1>0, <1>1, <2>1, <2>7, <2>8, <2>9
       DEF ReplyInv, MatchedIsInstalled, followerVars
<1>4. CASE GiveUp(s)
  <2>1. /\ stream' = [stream EXCEPT ![s] = Idle]
        /\ UNCHANGED <<matched, sent, requests, replies>>
    BY <1>4 DEF GiveUp
  <2>2. TypeOK'
    BY <1>0, <2>1 DEF TypeOK, Stream, pendingVars, followerVars, faultVars
  <2>3. StreamInv'
    BY <2>1 DEF TypeOK, StreamInv, Offset, Genuine, Idle
  <2> QED  BY <1>0, <1>1, <2>1, <2>2, <2>3
       DEF RequestInv, ReplyInv, MatchedIsInstalled, Genuine, followerVars
<1>5. ASSUME NEW r \in replies, HandleReply(s, r)  PROVE TransferInv'
  <2> DEFINE req == r.req
             st == IF r.success /\ ~req.done
                   THEN [stage |-> "ready", index |-> req.index, term |-> req.term,
                         offset |-> req.offset + 1]
                   ELSE Idle
  <2>1. /\ stream[s] = [stage |-> "waiting", req |-> req]
        /\ replies' = replies \ {r}
        /\ stream' = [stream EXCEPT ![s] = st]
        /\ matched' = IF r.success /\ req.done THEN [matched EXCEPT ![s] = req.index]
                      ELSE matched
        /\ UNCHANGED <<sent, requests>>
    BY <1>5 DEF HandleReply
  <2>2. req \in Request /\ Genuine(req)
    <3>1. stream[s].stage = "waiting" /\ stream[s].req = req
      BY <2>1
    <3> QED  BY <3>1 DEF StreamInv, TypeOK
  <2>3. r.success /\ req.done => req.index <= snapFile.index
    BY DEF ReplyInv
  <2>4. req.index \in Index /\ req.index \in Nat /\ req.offset \in Nat /\ req.term \in Nat
    BY <2>2 DEF Request, Setting
  <2>5. ~req.done => req.offset + 1 < Total(req.index)
    <3>1. Total(req.index) \in Nat
      BY <2>4 DEF Total, Setting
    <3>2. ~req.done => End(req.index, req.offset) # Total(req.index)
      BY <2>2 DEF Genuine
    <3> QED  BY <2>4, <3>1, <3>2 DEF End
  <2>6. st \in Stream
    <3>1. req.offset + 1 \in Nat
      BY <2>4
    <3>2. [stage |-> "ready", index |-> req.index, term |-> req.term, offset |-> req.offset + 1]
              \in [stage : {"ready"}, index : Index, term : Nat, offset : Nat]
      BY <2>4, <3>1
    <3> QED  BY <3>2 DEF Stream
  <2>7. /\ st.stage = "ready" => Offset(st.index, st.offset)
        /\ st.stage # "waiting"
    BY <2>5 DEF Offset, Idle
  <2> HIDE DEF st, req
  <2>8. TypeOK'
    BY <1>0, <2>1, <2>4, <2>6 DEF TypeOK, pendingVars, followerVars, faultVars
  <2>9. StreamInv'
    BY <2>1, <2>7 DEF TypeOK, StreamInv, Offset, Genuine
  <2>10. MatchedIsInstalled'
    BY <1>0, <2>1, <2>3, <2>4 DEF TypeOK, MatchedIsInstalled, followerVars
  <2> QED  BY <1>0, <1>1, <2>1, <2>8, <2>9, <2>10 DEF RequestInv, ReplyInv, Genuine, followerVars
<1> QED  BY <1>2, <1>3, <1>4, <1>5

\* What every branch of the handler leaves alone.  It is left to show that the
\* answer is true and that the pending transfer is sound.
LEMMA HandlerFrame ==
    ASSUME Setting, TransferInv, NEW m \in requests, NEW ok \in BOOLEAN,
           Answer(m, ok), UNCHANGED <<senderVars, snapshotIndex, snapFile, installing>>,
           installing = Idle, currentTerm' \in Nat, failures' \in Nat, restarts' \in Nat,
           pending' \in [index : Nat, term : Nat, expected : Nat, crc : Seq(Chunk)],
           open' \in BOOLEAN, recv' \in SnapshotFile, PendingInv',
           ok /\ m.done => m.index <= snapFile.index
    PROVE  TransferInv'
<1> USE DEF TransferInv
<1>1. /\ requests' \subseteq requests
      /\ replies' = replies \cup {[req |-> m, success |-> ok]}
  BY DEF Answer
<1>2. TypeOK'
  <2>1. [req |-> m, success |-> ok] \in [req : Request, success : BOOLEAN]
    BY DEF TypeOK
  <2> QED  BY <1>1, <2>1 DEF TypeOK, senderVars
<1>3. (StreamInv /\ RequestInv)'
  BY <1>1, StreamsKept DEF senderVars
<1>4. ReplyInv'
  BY <1>1 DEF ReplyInv
<1>5. (FileInv /\ InstallInv /\ MatchedIsInstalled)'
  BY FileKept DEF InstallInv, Idle, senderVars
<1> QED  BY <1>2, <1>3, <1>4, <1>5

\* releasePendingSnapshot leaves nothing behind.
LEMMA ReleaseKeeps ==
    ASSUME Release
    PROVE  /\ pending' \in [index : Nat, term : Nat, expected : Nat, crc : Seq(Chunk)]
           /\ open' \in BOOLEAN /\ recv' \in SnapshotFile /\ PendingInv'
<1>1. <<>> \in Seq(Chunk)
  OBVIOUS
<1> QED  BY <1>1 DEF Release, Nothing, NoFile, SnapshotFile, PendingInv

\* One call of handleInstallSnapshot.
LEMMA HandlerStep ==
    ASSUME Setting, TransferInv, NEW m \in requests, handleInstallSnapshot(m)
    PROVE  TransferInv'
<1>0. /\ m \in Request /\ m.term \in Nat /\ m.index \in Index /\ m.index \in Nat \ {0}
      /\ currentTerm \in Nat /\ snapshotIndex \in Nat /\ failures \in Nat /\ restarts \in Nat
      /\ TypeOK /\ PendingInv
  BY DEF Setting, TransferInv, TypeOK, Request
<1>f. Fault => failures' \in Nat /\ restarts' \in Nat
  BY <1>0 DEF Fault
<1>1. CASE StaleTerm(m)
  <2>1. PendingInv'
    BY <1>1 DEF StaleTerm, pendingVars, TransferInv, PendingInv, Spilled
  <2> QED  BY <1>0, <1>1, <2>1, HandlerFrame DEF StaleTerm, pendingVars, followerVars, faultVars, TypeOK
<1>2. CASE AlreadyHave(m)
  <2>1. PendingInv'
    BY <1>2 DEF AlreadyHave, pendingVars, TransferInv, PendingInv, Spilled
  <2>2. snapshotIndex = snapFile.index
    BY <1>2 DEF AlreadyHave, Heard, Idle, TransferInv, InstallInv
  <2> QED  BY <1>0, <1>2, <2>1, <2>2, HandlerFrame DEF AlreadyHave, Heard, Adopt, pendingVars, faultVars, TypeOK
<1>3. CASE BeginFails(m)
  <2>0. newTransfer(m) /\ pending' = Begun(m).pending /\ open' = FALSE /\ recv' = NoFile
    BY <1>3 DEF BeginFails
  <2>1. pending' \in [index : Nat, term : Nat, expected : Nat, crc : Seq(Chunk)]
    BY <2>0, BegunAgrees
  <2>2. PendingInv'
    <3>1. Begun(m).pending.expected = 0
      BY <2>0 DEF Begun
    <3> QED  BY <2>0, <3>1 DEF PendingInv
  <2>3. NoFile \in SnapshotFile
    <3>1. <<>> \in Seq(Chunk)
      OBVIOUS
    <3> QED  BY <3>1 DEF NoFile, SnapshotFile
  <2> QED  BY <1>0, <1>3, <1>f, <2>0, <2>1, <2>2, <2>3, HandlerFrame DEF BeginFails, News, Heard, Adopt
<1>4. CASE OffsetGap(m)
  BY <1>0, <1>4, ReleaseKeeps, HandlerFrame DEF OffsetGap, News, Heard, Adopt, faultVars
<1>5. CASE AppendFails(m)
  BY <1>0, <1>5, <1>f, ReleaseKeeps, HandlerFrame DEF AppendFails, News, Heard, Adopt, faultVars
<1>6. CASE Accept(m)
  <2>1. m.offset = Begun(m).pending.expected
    BY <1>6 DEF Accept, Fits
  <2>2. /\ pending' = Appended(m).pending /\ recv' = Appended(m).recv
        /\ open' = Begun(m).open
    BY <1>6 DEF Accept
  <2>3. /\ pending' \in [index : Nat, term : Nat, expected : Nat, crc : Seq(Chunk)]
        /\ open' /\ recv' \in SnapshotFile /\ Spilled(pending', recv')
    BY <2>1, <2>2, AppendedExtends
  <2>4. PendingInv' /\ open' \in BOOLEAN
    <3>1. open' = TRUE
      BY <2>2, <2>3, BegunAgrees
    <3> QED  BY <2>3, <3>1 DEF PendingInv, Spilled
  <2> QED  BY <1>0, <1>6, <2>3, <2>4, HandlerFrame DEF Accept, Fits, News, Heard, Adopt, faultVars
<1>7. CASE FinalizeFails(m)
  <2>1. m.offset = Begun(m).pending.expected
    BY <1>7 DEF FinalizeFails, Fits
  <2>2. Begun(m).open
    BY <2>1, AppendedExtends
  <2>3. Fault /\ Release
    BY <1>7, <2>2 DEF FinalizeFails
  <2> QED  BY <1>0, <1>7, <1>f, <2>3, ReleaseKeeps, HandlerFrame
       DEF FinalizeFails, Fits, News, Heard, Adopt
<1>8. CASE Finalize(m)
  <2> DEFINE a == Appended(m)
  <2>1. m.offset = Begun(m).pending.expected
    BY <1>8 DEF Finalize, Fits
  <2>2. /\ a.pending \in [index : Nat, term : Nat, expected : Nat, crc : Seq(Chunk)]
        /\ a.recv \in SnapshotFile /\ Spilled(a.pending, a.recv)
        /\ a.pending.index = m.index
        /\ a.pending.expected = Total(m.index)
    BY <1>8, <2>1, AppendedExtends DEF Finalize
  <2>3. /\ recv' = [a.recv EXCEPT !.size = a.pending.expected, !.crc = a.pending.crc]
        /\ pending' = Nothing /\ open' = FALSE
        /\ installing' = [stage |-> "installer", req |-> m]
        /\ requests' = requests \ {m} /\ currentTerm' = m.term
        /\ UNCHANGED <<senderVars, replies, snapshotIndex, snapFile, faultVars>>
    BY <1>8 DEF Finalize, Adopt
  <2> HIDE DEF a
  <2>4. SubSeq(File[m.index], 1, Total(m.index)) = File[m.index]
    <3>1. File[m.index] \in Seq(Chunk)
      BY <1>0 DEF Setting
    <3> QED  BY <3>1, SubSeqFull DEF Total
  <2>5. /\ recv'.index = m.index /\ recv'.term = TermOf[m.index]
        /\ recv'.size = Total(m.index)
        /\ recv'.crc = File[m.index] /\ recv'.data = File[m.index]
        /\ recv' \in SnapshotFile
    <3> DEFINE f == a.recv
               p == a.pending
    <3>1. /\ f \in SnapshotFile /\ p.expected \in Nat /\ p.crc \in Seq(Chunk)
          /\ recv' = [f EXCEPT !.size = p.expected, !.crc = p.crc]
      BY <2>2, <2>3
    <3>2. /\ f.index = m.index /\ f.term = TermOf[m.index] /\ f.data = File[m.index]
          /\ p.expected = Total(m.index) /\ p.crc = File[m.index]
      BY <2>2, <2>4 DEF Spilled
    <3> HIDE DEF f, p
    <3> QED  BY <3>1, <3>2 DEF SnapshotFile
  <2>6. m.index > snapFile.index /\ installing = Idle
    <3>1. installing = Idle /\ m.index > snapshotIndex
      BY <1>0, <1>8 DEF Finalize, Fits, News, Heard
    <3> QED  BY <3>1 DEF TransferInv, InstallInv, Idle
  <2>7. TypeOK'
    <3>1. <<>> \in Seq(Chunk)
      OBVIOUS
    <3>2. pending' \in [index : Nat, term : Nat, expected : Nat, crc : Seq(Chunk)]
      BY <2>3, <3>1 DEF Nothing
    <3>3. installing' \in [stage : {"installer", "renamed"}, req : Request]
      BY <1>0, <2>3
    <3> QED  BY <1>0, <2>3, <2>5, <3>2, <3>3 DEF TypeOK, senderVars, faultVars
  <2>8. (StreamInv /\ RequestInv /\ ReplyInv /\ FileInv /\ MatchedIsInstalled)'
    BY <2>3, StreamsKept, FileKept, RepliesKept DEF senderVars
  <2>9. PendingInv'
    BY <2>3 DEF PendingInv, Nothing
  <2>10. InstallInv'
    <3>1. snapshotIndex = snapFile.index
      BY <2>6 DEF TransferInv, InstallInv, Idle
    <3>2. installing'.stage = "installer" /\ installing'.req = m
      BY <2>3
    <3>3. Whole(recv')
      BY <1>0, <2>5 DEF Whole
    <3> QED  BY <2>3, <2>5, <2>6, <3>1, <3>2, <3>3 DEF InstallInv, Whole
  <2> QED  BY <2>7, <2>8, <2>9, <2>10 DEF TransferInv
<1> QED  BY <1>1, <1>2, <1>3, <1>4, <1>5, <1>6, <1>7, <1>8 DEF handleInstallSnapshot

\* The end of an install, and what else happens to the follower.
LEMMA FollowerStep ==
    ASSUME Setting, TransferInv,
           \/ InstallFails \/ Rename \/ Install
           \/ CompactLog \/ ObserveTerm \/ Restart \/ Lose
    PROVE  TransferInv'
<1>0. TypeOK /\ installing \in {Idle} \cup [stage : {"installer", "renamed"}, req : Request]
  BY DEF TransferInv, TypeOK
<1>n. /\ snapshotIndex \in Nat /\ snapFile.index \in Nat /\ currentTerm \in Nat
      /\ failures \in Nat /\ restarts \in Nat
  BY <1>0 DEF TypeOK, SnapshotFile
<1>e. NoFile \in SnapshotFile
  <2>1. <<>> \in Seq(Chunk)
    OBVIOUS
  <2> QED  BY <2>1 DEF NoFile, SnapshotFile
<1>p. Nothing \in [index : Nat, term : Nat, expected : Nat, crc : Seq(Chunk)]
  <2>1. <<>> \in Seq(Chunk)
    OBVIOUS
  <2> QED  BY <2>1 DEF Nothing
<1>1. CASE InstallFails
  <2>1. installing.req \in Request /\ ~open
    BY <1>0, <1>1 DEF InstallFails, Idle, TransferInv, InstallInv
  <2>2. /\ replies' = replies \cup {[req |-> installing.req, success |-> FALSE]}
        /\ installing' = Idle /\ recv' = NoFile
        /\ failures' = failures + 1 /\ restarts' = restarts
        /\ UNCHANGED <<senderVars, requests, pending, open, currentTerm, snapshotIndex, snapFile>>
    BY <1>1 DEF InstallFails, Finish, Fault
  <2>3. TypeOK'
    <3>1. [req |-> installing.req, success |-> FALSE] \in [req : Request, success : BOOLEAN]
      BY <2>1
    <3>2. failures' \in Nat /\ restarts' \in Nat
      BY <1>n, <2>2
    <3> QED  BY <1>0, <1>e, <2>2, <3>1, <3>2 DEF TypeOK, senderVars
  <2>4. (StreamInv /\ RequestInv /\ FileInv /\ MatchedIsInstalled)'
    BY <2>2, StreamsKept, FileKept DEF senderVars
  <2>r. ReplyInv'
    BY <2>2, RepliesKept
  <2>5. PendingInv'
    BY <2>1, <2>2 DEF TransferInv, PendingInv
  <2>6. InstallInv'
    BY <1>0, <1>1, <2>2 DEF InstallFails, TransferInv, InstallInv, Idle
  <2> QED  BY <2>3, <2>4, <2>r, <2>5, <2>6 DEF TransferInv
<1>2. CASE Rename
  <2>1. /\ installing \in [stage : {"installer", "renamed"}, req : Request] /\ ~open
        /\ Whole(recv) /\ recv.index = installing.req.index /\ recv.index > snapFile.index
    BY <1>0, <1>2 DEF Rename, Idle, TransferInv, InstallInv
  <2>2. /\ snapFile' = recv /\ recv' = NoFile
        /\ installing' = [installing EXCEPT !.stage = "renamed"]
        /\ UNCHANGED <<senderVars, requests, replies, pending, open, currentTerm, snapshotIndex,
                       faultVars>>
    BY <1>2 DEF Rename
  <2>3. /\ installing' \in [stage : {"installer", "renamed"}, req : Request]
        /\ installing'.stage = "renamed" /\ installing'.req = installing.req
    BY <2>1, <2>2
  <2>4. TypeOK'
    BY <1>0, <1>e, <2>2, <2>3 DEF TypeOK, senderVars, faultVars
  <2>5. snapFile'.index > snapFile.index /\ snapFile'.index \in Nat
    BY <2>1, <2>2, <2>4 DEF TypeOK, SnapshotFile
  <2>6. (StreamInv /\ RequestInv)'
    BY <2>2, StreamsKept DEF senderVars
  <2>7. ReplyInv'
    <3> SUFFICES ASSUME NEW r \in replies, r.success, r.req.done
                 PROVE  r.req.index <= snapFile'.index
      BY <2>2 DEF ReplyInv
    <3>1. r.req.index <= snapFile.index /\ r.req.index \in Nat
      BY <1>0 DEF TransferInv, ReplyInv, TypeOK, Request, Setting
    <3> QED  BY <1>n, <2>5, <3>1
  <2>8. MatchedIsInstalled'
    <3> SUFFICES ASSUME NEW s \in Sender  PROVE matched[s] <= snapFile'.index
      BY <2>2 DEF MatchedIsInstalled, senderVars
    <3>1. matched[s] <= snapFile.index /\ matched[s] \in Nat
      BY <1>0 DEF TransferInv, MatchedIsInstalled, TypeOK
    <3> QED  BY <1>n, <2>5, <3>1
  <2>9. (PendingInv /\ FileInv /\ InstallInv)'
    BY <2>1, <2>2, <2>3 DEF TransferInv, PendingInv, FileInv, InstallInv, Whole
  <2> QED  BY <2>4, <2>6, <2>7, <2>8, <2>9 DEF TransferInv
<1>3. CASE Install
  <2>1. /\ installing.req \in Request /\ ~open
        /\ snapFile.index = installing.req.index
    BY <1>0, <1>3 DEF Install, Idle, TransferInv, InstallInv
  <2>2. /\ replies' = replies \cup {[req |-> installing.req, success |-> TRUE]}
        /\ installing' = Idle /\ snapshotIndex' = installing.req.index
        /\ UNCHANGED <<senderVars, requests, pendingVars, currentTerm, snapFile, faultVars>>
    BY <1>3 DEF Install, Finish
  <2>3. TypeOK'
    <3>1. [req |-> installing.req, success |-> TRUE] \in [req : Request, success : BOOLEAN]
      BY <2>1
    <3>2. snapshotIndex' \in Nat
      BY <1>n, <2>1, <2>2
    <3> QED  BY <1>0, <2>2, <3>1, <3>2 DEF TypeOK, senderVars, pendingVars, faultVars
  <2>4. (StreamInv /\ RequestInv /\ FileInv /\ MatchedIsInstalled)'
    BY <2>2, StreamsKept, FileKept DEF senderVars
  <2>5. ReplyInv'
    <3>1. installing.req.index <= snapFile.index
      BY <1>n, <2>1
    <3> QED  BY <2>2, <3>1 DEF TransferInv, ReplyInv
  <2>6. (PendingInv /\ InstallInv)'
    BY <2>1, <2>2 DEF TransferInv, PendingInv, InstallInv, Idle, pendingVars
  <2> QED  BY <2>3, <2>4, <2>5, <2>6 DEF TransferInv
<1>4. CASE CompactLog
  <2>1. PICK i \in Index :
            /\ i > snapshotIndex /\ snapshotIndex' = i
            /\ snapFile' = [index |-> i, term |-> TermOf[i], size |-> Total(i),
                            crc |-> File[i], data |-> File[i]]
    BY <1>4 DEF CompactLog
  <2>2. /\ installing = Idle
        /\ UNCHANGED <<senderVars, requests, replies, pendingVars, currentTerm, installing,
                       faultVars>>
    BY <1>4 DEF CompactLog
  <2>3. i \in Nat /\ TermOf[i] \in Nat /\ File[i] \in Seq(Chunk) /\ Total(i) \in Nat
    BY DEF Setting, Total
  <2>4. snapFile' \in SnapshotFile /\ Whole(snapFile')
    BY <2>1, <2>3 DEF SnapshotFile, Whole
  <2>5. TypeOK'
    BY <1>0, <2>1, <2>2, <2>3, <2>4 DEF TypeOK, senderVars, pendingVars, faultVars
  <2>6. snapFile'.index > snapFile.index /\ snapFile'.index = i /\ snapshotIndex = snapFile.index
    BY <2>1, <2>2 DEF TransferInv, InstallInv, Idle
  <2>7. (StreamInv /\ RequestInv)'
    BY <2>2, StreamsKept DEF senderVars
  <2>8. ReplyInv'
    <3> SUFFICES ASSUME NEW r \in replies, r.success, r.req.done
                 PROVE  r.req.index <= snapFile'.index
      BY <2>2 DEF ReplyInv
    <3>1. r.req.index <= snapFile.index /\ r.req.index \in Nat
      BY <1>0 DEF TransferInv, ReplyInv, TypeOK, Request, Setting
    <3> QED  BY <1>n, <2>3, <2>6, <3>1
  <2>9. MatchedIsInstalled'
    <3> SUFFICES ASSUME NEW s \in Sender  PROVE matched[s] <= snapFile'.index
      BY <2>2 DEF MatchedIsInstalled, senderVars
    <3>1. matched[s] <= snapFile.index /\ matched[s] \in Nat
      BY <1>0 DEF TransferInv, MatchedIsInstalled, TypeOK
    <3> QED  BY <1>n, <2>3, <2>6, <3>1
  <2>10. (PendingInv /\ FileInv /\ InstallInv)'
    BY <2>1, <2>2, <2>4, <2>6
       DEF TransferInv, PendingInv, Spilled, FileInv, InstallInv, Whole, Idle, pendingVars
  <2> QED  BY <2>5, <2>7, <2>8, <2>9, <2>10 DEF TransferInv
<1>5. CASE ObserveTerm
  <2>1. /\ currentTerm' = currentTerm + 1
        /\ UNCHANGED <<senderVars, requests, replies, pendingVars, snapshotIndex, snapFile,
                       installing, faultVars>>
    BY <1>5 DEF ObserveTerm
  <2>2. TypeOK'
    <3>1. currentTerm' \in Nat
      BY <1>n, <2>1
    <3> QED  BY <1>0, <2>1, <3>1 DEF TypeOK, senderVars, pendingVars, faultVars
  <2>3. (StreamInv /\ RequestInv /\ ReplyInv /\ FileInv /\ MatchedIsInstalled)'
    BY <2>1, StreamsKept, FileKept, RepliesKept DEF senderVars
  <2>4. (PendingInv /\ InstallInv)'
    BY <2>1 DEF TransferInv, PendingInv, Spilled, InstallInv, Whole, pendingVars
  <2> QED  BY <2>2, <2>3, <2>4 DEF TransferInv
<1>6. CASE Restart
  <2>1. /\ restarts' = restarts + 1 /\ pending' = Nothing /\ open' = FALSE /\ recv' = NoFile
        /\ installing' = Idle /\ snapshotIndex' = snapFile.index
        /\ currentTerm' \in snapFile.term .. currentTerm
        /\ UNCHANGED <<senderVars, requests, replies, snapFile, failures>>
    BY <1>6 DEF Restart
  <2>2. currentTerm' \in Nat
    <3>1. snapFile.term \in Nat
      BY <1>0 DEF TypeOK, SnapshotFile
    <3> QED  BY <1>n, <2>1, <3>1
  <2>3. TypeOK'
    <3>1. failures' \in Nat /\ restarts' \in Nat /\ snapshotIndex' \in Nat
      BY <1>n, <2>1
    <3> QED  BY <1>0, <1>e, <1>p, <2>1, <2>2, <3>1 DEF TypeOK, senderVars
  <2>4. (StreamInv /\ RequestInv /\ ReplyInv /\ FileInv /\ MatchedIsInstalled)'
    BY <2>1, StreamsKept, FileKept, RepliesKept DEF senderVars
  <2>5. (PendingInv /\ InstallInv)'
    BY <2>1 DEF PendingInv, InstallInv, Idle, Nothing
  <2> QED  BY <2>3, <2>4, <2>5 DEF TransferInv
<1>7. CASE Lose
  <2>1. /\ requests' \subseteq requests /\ replies' \subseteq replies
        /\ UNCHANGED <<senderVars, pendingVars, followerVars, faultVars>>
    BY <1>7 DEF Lose
  <2>2. TypeOK'
    BY <1>0, <2>1 DEF TypeOK, senderVars, pendingVars, followerVars, faultVars
  <2>3. (StreamInv /\ RequestInv /\ ReplyInv /\ FileInv /\ MatchedIsInstalled)'
    BY <2>1, StreamsKept, FileKept, RepliesKept DEF senderVars, followerVars
  <2>4. (PendingInv /\ InstallInv)'
    BY <2>1 DEF TransferInv, PendingInv, Spilled, InstallInv, Whole, pendingVars,
                followerVars
  <2> QED  BY <2>2, <2>3, <2>4 DEF TransferInv
<1> QED  BY <1>1, <1>2, <1>3, <1>4, <1>5, <1>6, <1>7

-----------------------------------------------------------------------------
\* The invariant holds of every behaviour.
LEMMA TransferInvariant ==
    ASSUME Setting  PROVE  Spec => []TransferInv
<1>1. Init => TransferInv
  BY TransferInit
<1>2. TransferInv /\ [Next]_vars => TransferInv'
  <2> SUFFICES ASSUME TransferInv, [Next]_vars  PROVE TransferInv'
    OBVIOUS
  <2>1. CASE Next
    BY <2>1, SenderStep, HandlerStep, FollowerStep DEF Next
  <2>2. CASE UNCHANGED vars
    <3>1. UNCHANGED <<senderVars, requests, replies, pendingVars, followerVars, faultVars>>
      BY <2>2 DEF vars
    <3>2. TypeOK'
      BY <3>1 DEF TransferInv, TypeOK, senderVars, pendingVars, followerVars, faultVars
    <3>3. (StreamInv /\ RequestInv /\ ReplyInv /\ FileInv /\ MatchedIsInstalled)'
      BY <3>1, StreamsKept, FileKept, RepliesKept DEF senderVars, followerVars
    <3>4. (PendingInv /\ InstallInv)'
      BY <3>1 DEF TransferInv, PendingInv, Spilled, InstallInv, Whole, pendingVars, followerVars
    <3> QED  BY <3>2, <3>3, <3>4 DEF TransferInv
  <2> QED  BY <2>1, <2>2
<1> QED  BY <1>1, <1>2, PTL DEF Spec

\* raft.snapshot is always a complete snapshot that a restart can load,
\* however the chunks of concurrent streams interleave, wherever the disk or
\* the process fails.
THEOREM SnapshotArrivesWhole ==
    ASSUME Setting  PROVE  Spec => []SnapshotWhole
<1>1. TransferInv => SnapshotWhole
  <2>1. ASSUME Whole(snapFile)  PROVE SnapshotWhole
    BY <2>1 DEF Whole, SnapshotWhole, Loads, Total
  <2>2. ASSUME snapFile = NoFile  PROVE SnapshotWhole
    BY <2>2 DEF NoFile, SnapshotWhole, Loads, Setting
  <2> QED  BY <2>1, <2>2 DEF TransferInv, FileInv
<1> QED  BY <1>1, TransferInvariant, PTL

\* SendInstallSnapshot records a matchIndex only when the peer holds a
\* snapshot at that index or above on its disk, and it stays there.
THEOREM RecordedMatchIsInstalled ==
    ASSUME Setting  PROVE  Spec => []MatchedIsInstalled
<1>1. TransferInv => MatchedIsInstalled
  BY DEF TransferInv
<1> QED  BY <1>1, TransferInvariant, PTL

\* A chunk that continues a transfer never goes to the in-memory buffer of a
\* node that has a state directory.
THEOREM SpillFileIsOpen ==
    ASSUME Setting  PROVE  Spec => []SpillIsOpen
<1>1. TransferInv => SpillIsOpen
  BY AppendedExtends DEF SpillIsOpen, Fits
<1> QED  BY <1>1, TransferInvariant, PTL

-----------------------------------------------------------------------------
(* The upgrade of raft.wal *)

\* The v2 file is a sequence of records, the bound a number.
UpgradeSetting == Original \in Seq(Record) /\ MaxAppends \in Nat

\* A v2 file is the original; raft.wal is v2 while the tool has read and not
\* moved it.
V2IsOriginal ==
    /\ wal.format = "v2" => wal.recs = Original
    /\ backup.format # "missing" => backup.format = "v2" /\ backup.recs = Original
    /\ tool.stage \in {"read", "write", "written"} =>
          wal.format = "v2" /\ (~short => tool.recs = Original)

\* The temporary file holds the records written so far, and all of them once
\* it is synced.
UpgradeIsCopy ==
    /\ tool.stage \in {"write", "written", "moved"} => upgrade.format = "v3"
    /\ ~short /\ tool.stage \in {"write", "written", "moved"} =>
          /\ Len(upgrade.recs) <= Len(Original)
          /\ \A i \in 1 .. Len(upgrade.recs) : upgrade.recs[i] = Original[i]
    /\ ~short /\ tool.stage \in {"written", "moved"} => Len(upgrade.recs) = Len(Original)

\* The tool and the service do not run together, and a service has a v3 file.
Apart ==
    /\ up => tool = NoUpgrade /\ wal.format = "v3"
    /\ tool.stage = "idle" => tool = NoUpgrade

\* Until an upgrade has ended in the gap, raft.wal holds the records whenever
\* the tool is not in the gap.
WalHolds == ~short /\ ~interrupted /\ tool.stage # "moved" => Holds(wal)

IInv == UpgradeTypeOK /\ V2IsOriginal /\ UpgradeIsCopy /\ Apart /\ WalHolds /\ RecordsKept

\* No file is a state of a file.
LEMMA MissingIsFile == Missing \in WalFile /\ Missing.format = "missing"
  BY DEF Missing, WalFile

\* No upgrade is a state of the tool.
LEMMA IdleIsTool == NoUpgrade \in Tool /\ NoUpgrade.stage = "idle"
  BY DEF NoUpgrade, Tool

\* Only the v2 file exists at first.
LEMMA UpgradeInitially == UpgradeSetting /\ UpgradeInit => IInv
  <1> SUFFICES ASSUME UpgradeSetting, UpgradeInit PROVE IInv
    OBVIOUS
  <1>1. UpgradeTypeOK
    BY MissingIsFile, IdleIsTool DEF UpgradeSetting, UpgradeInit, UpgradeTypeOK, WalFile
  <1> QED
    <2>1. V2IsOriginal /\ UpgradeIsCopy /\ Apart
      BY MissingIsFile, IdleIsTool DEF UpgradeInit, V2IsOriginal, UpgradeIsCopy, Apart
    <2>2. Holds(wal)
      BY DEF UpgradeSetting, UpgradeInit, Holds
    <2> QED
      BY <1>1, <2>1, <2>2 DEF IInv, WalHolds, RecordsKept

\* A v2 file is the original, so that it holds its records.
LEMMA OriginalHolds ==
  ASSUME UpgradeSetting, NEW f, f.format = "v2", f.recs = Original
  PROVE  Holds(f)
  BY DEF UpgradeSetting, Holds

\* A temporary file that is complete holds them.
LEMMA CopyHolds ==
  ASSUME IInv, ~short, tool.stage \in {"written", "moved"}
  PROVE  Holds(upgrade)
  <1>1. /\ upgrade.format = "v3" /\ Len(upgrade.recs) = Len(Original)
        /\ \A i \in 1 .. Len(upgrade.recs) : upgrade.recs[i] = Original[i]
    BY DEF IInv, UpgradeIsCopy
  <1>2. Len(upgrade.recs) \in Nat
    BY DEF IInv, UpgradeTypeOK, WalFile
  <1> QED
    BY <1>1, <1>2 DEF Holds

\* While the tool has not moved it, raft.wal is the original.
LEMMA WalIsOriginal ==
  ASSUME UpgradeSetting, IInv, tool.stage \in {"read", "write", "written"}
  PROVE  Holds(wal)
  <1>1. wal.format = "v2" /\ wal.recs = Original
    BY DEF IInv, V2IsOriginal
  <1> QED
    BY <1>1, OriginalHolds

\* It is enough that raft.wal holds the records.
LEMMA WalSuffices ==
  ASSUME NEW f, wal' = f, Holds(f)
  PROVE  WalHolds' /\ RecordsKept'
  BY DEF WalHolds, RecordsKept, Holds

\* A step that changes no file and leaves the gap only by an interruption.
LEMMA FilesKept ==
  ASSUME IInv, UNCHANGED fileVars, short => short', interrupted => interrupted',
         tool.stage = "moved" => tool'.stage = "moved" \/ interrupted'
  PROVE  WalHolds' /\ RecordsKept'
  <1>1. UNCHANGED <<wal, upgrade, backup>>
    BY DEF fileVars
  <1>2. WalHolds /\ RecordsKept
    BY DEF IInv
  <1> QED
    BY <1>1, <1>2 DEF WalHolds, RecordsKept, Holds

\* The steps of the tool.
LEMMA ToolStep ==
  ASSUME UpgradeSetting, IInv,
         \/ \E keep \in BOOLEAN : ReadV2(keep)
         \/ \E keep \in BOOLEAN, n \in 0 .. Len(Original) : ReadV2Short(keep, n)
         \/ CreateV3 \/ WriteRecord \/ Written \/ UpgradeFails \/ MoveOriginal \/ RenameV3 \/ Die
  PROVE  IInv'
  <1>1. ASSUME NEW keep \in BOOLEAN, ReadV2(keep) PROVE IInv'
    <2>1. UpgradeTypeOK'
      BY <1>1 DEF ReadV2, fileVars, IInv, UpgradeSetting, UpgradeTypeOK, WalFile, Tool, Missing, NoUpgrade
    <2>2. V2IsOriginal'
      BY <1>1 DEF ReadV2, fileVars, IInv, UpgradeSetting, UpgradeTypeOK, WalFile, Tool, V2IsOriginal, Apart, Missing,
                  NoUpgrade
    <2>3. UpgradeIsCopy'
      BY <1>1 DEF ReadV2, fileVars, IInv, UpgradeSetting, UpgradeTypeOK, WalFile, Tool, V2IsOriginal, UpgradeIsCopy,
                  Apart, NoUpgrade
    <2>4. Apart'
      BY <1>1 DEF ReadV2, fileVars, IInv, UpgradeSetting, UpgradeTypeOK, V2IsOriginal, Apart, Missing, NoUpgrade
    <2>5. WalHolds' /\ RecordsKept'
      BY <1>1, FilesKept DEF ReadV2, NoUpgrade
    <2> QED
      BY <2>1, <2>2, <2>3, <2>4, <2>5 DEF IInv
  <1>2. CASE CreateV3
    <2>1. UpgradeTypeOK'
      <3>1. [format |-> "v3", recs |-> <<>>] \in WalFile
        BY DEF WalFile
      <3>2. [tool EXCEPT !.stage = "write"] \in Tool
        BY DEF IInv, UpgradeTypeOK, Tool
      <3> QED
        BY <1>2, <3>1, <3>2 DEF CreateV3, IInv, UpgradeTypeOK
    <2>2. V2IsOriginal'
      BY <1>2 DEF CreateV3, fileVars, IInv, UpgradeSetting, UpgradeTypeOK, WalFile, Tool, V2IsOriginal, Apart,
                  Missing, NoUpgrade
    <2>3. UpgradeIsCopy'
      BY <1>2 DEF CreateV3, fileVars, IInv, UpgradeSetting, UpgradeTypeOK, WalFile, Tool, V2IsOriginal,
                  UpgradeIsCopy, Apart, NoUpgrade
    <2>4. Apart'
      BY <1>2 DEF CreateV3, fileVars, IInv, UpgradeSetting, UpgradeTypeOK, V2IsOriginal, Apart, Missing,
                  NoUpgrade
    <2>5. WalHolds' /\ RecordsKept'
      BY <1>2, WalIsOriginal, WalSuffices DEF CreateV3
    <2> QED
      BY <2>1, <2>2, <2>3, <2>4, <2>5 DEF IInv
  <1>3. CASE WriteRecord
    <2>1. UpgradeTypeOK'
      <3>1. tool.recs[Len(upgrade.recs) + 1] \in Record
        BY <1>3 DEF WriteRecord, Unwritten, IInv, UpgradeTypeOK, WalFile, Tool
      <3>2. upgrade'.recs \in Seq(Record) /\ upgrade' = [upgrade EXCEPT !.recs = upgrade'.recs]
        BY <1>3, <3>1 DEF WriteRecord, IInv, UpgradeTypeOK, WalFile
      <3>3. upgrade' \in WalFile
        BY <3>2 DEF IInv, UpgradeTypeOK, WalFile
      <3> QED
        BY <1>3, <3>3 DEF WriteRecord, IInv, UpgradeTypeOK
    <2>2. V2IsOriginal'
      BY <1>3 DEF WriteRecord, fileVars, Unwritten, IInv, UpgradeSetting, UpgradeTypeOK, WalFile, Tool, V2IsOriginal,
                  Apart, Missing, NoUpgrade
    <2>3. UpgradeIsCopy'
      BY <1>3 DEF WriteRecord, fileVars, Unwritten, IInv, UpgradeSetting, UpgradeTypeOK, WalFile, Tool, V2IsOriginal,
                  UpgradeIsCopy, Apart, NoUpgrade
    <2>4. Apart'
      BY <1>3 DEF WriteRecord, fileVars, Unwritten, IInv, UpgradeSetting, UpgradeTypeOK, V2IsOriginal,
                  Apart, Missing, NoUpgrade
    <2>5. WalHolds' /\ RecordsKept'
      BY <1>3, WalIsOriginal, WalSuffices DEF WriteRecord
    <2> QED
      BY <2>1, <2>2, <2>3, <2>4, <2>5 DEF IInv
  <1>4. CASE Written
    <2>1. UpgradeTypeOK'
      BY <1>4 DEF Written, fileVars, Unwritten, IInv, UpgradeSetting, UpgradeTypeOK, WalFile, Tool, Missing, NoUpgrade
    <2>2. V2IsOriginal'
      BY <1>4 DEF Written, fileVars, Unwritten, IInv, UpgradeSetting, UpgradeTypeOK, WalFile, Tool, V2IsOriginal,
                  Apart, Missing, NoUpgrade
    <2>3. UpgradeIsCopy'
      BY <1>4 DEF Written, fileVars, Unwritten, IInv, UpgradeSetting, UpgradeTypeOK, WalFile, Tool, V2IsOriginal,
                  UpgradeIsCopy, Apart, NoUpgrade
    <2>4. Apart'
      BY <1>4 DEF Written, fileVars, Unwritten, IInv, UpgradeSetting, UpgradeTypeOK, V2IsOriginal, Apart,
                  Missing, NoUpgrade
    <2>5. WalHolds' /\ RecordsKept'
      BY <1>4, FilesKept DEF Written, NoUpgrade
    <2> QED
      BY <2>1, <2>2, <2>3, <2>4, <2>5 DEF IInv
  <1>5. CASE UpgradeFails
    <2>1. UpgradeTypeOK'
      BY <1>5, MissingIsFile, IdleIsTool DEF UpgradeFails, IInv, UpgradeTypeOK
    <2>2. V2IsOriginal'
      BY <1>5 DEF UpgradeFails, fileVars, IInv, UpgradeSetting, UpgradeTypeOK, WalFile, Tool, V2IsOriginal, Apart,
                  Missing, NoUpgrade
    <2>3. UpgradeIsCopy'
      BY <1>5 DEF UpgradeFails, fileVars, IInv, UpgradeSetting, UpgradeTypeOK, WalFile, Tool, V2IsOriginal,
                  UpgradeIsCopy, Apart, NoUpgrade
    <2>4. Apart'
      BY <1>5 DEF UpgradeFails, fileVars, IInv, UpgradeSetting, UpgradeTypeOK, V2IsOriginal, Apart, Missing,
                  NoUpgrade
    <2>5. WalHolds' /\ RecordsKept'
      BY <1>5, WalIsOriginal, WalSuffices DEF UpgradeFails
    <2> QED
      BY <2>1, <2>2, <2>3, <2>4, <2>5 DEF IInv
  <1>6. CASE MoveOriginal
    <2>1. UpgradeTypeOK'
      <3>1. [tool EXCEPT !.stage = "moved"] \in Tool
        BY DEF IInv, UpgradeTypeOK, Tool
      <3>2. wal' \in WalFile /\ backup' \in WalFile
        BY <1>6, MissingIsFile DEF MoveOriginal, IInv, UpgradeTypeOK
      <3> QED
        BY <1>6, <3>1, <3>2 DEF MoveOriginal, IInv, UpgradeTypeOK
    <2>2. V2IsOriginal'
      BY <1>6 DEF MoveOriginal, fileVars, IInv, UpgradeSetting, UpgradeTypeOK, WalFile, Tool, V2IsOriginal, Apart,
                  Missing, NoUpgrade
    <2>3. UpgradeIsCopy'
      BY <1>6 DEF MoveOriginal, fileVars, IInv, UpgradeSetting, UpgradeTypeOK, WalFile, Tool, V2IsOriginal,
                  UpgradeIsCopy, Apart, NoUpgrade
    <2>4. Apart'
      BY <1>6 DEF MoveOriginal, fileVars, IInv, UpgradeSetting, UpgradeTypeOK, V2IsOriginal, Apart, Missing,
                  NoUpgrade
    <2>5. WalHolds' /\ RecordsKept'
      <3>1. tool'.stage = "moved" /\ UNCHANGED <<upgrade, short>>
        BY <1>6 DEF MoveOriginal, IInv, UpgradeTypeOK, Tool
      <3>2. ~short => Holds(upgrade)
        BY <1>6, CopyHolds DEF MoveOriginal
      <3> QED
        BY <3>1, <3>2 DEF WalHolds, RecordsKept, Holds
    <2> QED
      BY <2>1, <2>2, <2>3, <2>4, <2>5 DEF IInv
  <1>7. CASE RenameV3
    <2>1. UpgradeTypeOK'
      BY <1>7, MissingIsFile, IdleIsTool DEF RenameV3, IInv, UpgradeTypeOK
    <2>2. V2IsOriginal'
      BY <1>7 DEF RenameV3, fileVars, IInv, UpgradeSetting, UpgradeTypeOK, WalFile, Tool, V2IsOriginal, Apart,
                  UpgradeIsCopy, Missing, NoUpgrade
    <2>3. UpgradeIsCopy'
      BY <1>7 DEF RenameV3, fileVars, IInv, UpgradeSetting, UpgradeTypeOK, WalFile, Tool, V2IsOriginal,
                  UpgradeIsCopy, Apart, NoUpgrade
    <2>4. Apart'
      <3>1. ~up /\ tool' = NoUpgrade /\ up' = up
        BY <1>7, IdleIsTool DEF RenameV3, IInv, Apart
      <3> QED
        BY <3>1 DEF Apart
    <2>5. WalHolds' /\ RecordsKept'
      <3>1. CASE short
        BY <1>7, <3>1 DEF RenameV3, WalHolds, RecordsKept
      <3>2. CASE ~short
        BY <1>7, <3>2, CopyHolds, WalSuffices DEF RenameV3
      <3> QED
        BY <3>1, <3>2
    <2> QED
      BY <2>1, <2>2, <2>3, <2>4, <2>5 DEF IInv
  <1>8. CASE Die
    <2>1. UpgradeTypeOK'
      BY <1>8, IdleIsTool DEF Die, fileVars, IInv, UpgradeTypeOK
    <2>2. V2IsOriginal'
      BY <1>8 DEF Die, fileVars, IInv, UpgradeSetting, UpgradeTypeOK, WalFile, Tool, V2IsOriginal, Apart, Missing,
                  NoUpgrade
    <2>3. UpgradeIsCopy'
      BY <1>8 DEF Die, fileVars, IInv, UpgradeSetting, UpgradeTypeOK, WalFile, Tool, V2IsOriginal, UpgradeIsCopy,
                  Apart, NoUpgrade
    <2>4. Apart'
      BY <1>8 DEF Die, fileVars, IInv, UpgradeSetting, UpgradeTypeOK, V2IsOriginal, Apart, Missing, NoUpgrade
    <2>5. WalHolds' /\ RecordsKept'
      BY <1>8, FilesKept DEF Die, NoUpgrade
    <2> QED
      BY <2>1, <2>2, <2>3, <2>4, <2>5 DEF IInv
  <1>9. ASSUME NEW keep \in BOOLEAN, NEW n \in 0 .. Len(Original), ReadV2Short(keep, n)
        PROVE  IInv'
    <2>1. UpgradeTypeOK'
      <3>1. SubSeq(wal.recs, 1, n) \in Seq(Record)
        <4>1. wal.recs \in Seq(Record) /\ n < Len(wal.recs)
          BY <1>9 DEF ReadV2Short, IInv, UpgradeTypeOK, WalFile
        <4>2. \A i \in 1 .. n : i \in 1 .. Len(wal.recs)
          BY <1>9, <4>1 DEF UpgradeSetting
        <4> QED
          BY <1>9, <4>1, <4>2 DEF UpgradeSetting
      <3>2. tool' \in Tool
        BY <1>9, <3>1 DEF ReadV2Short, Tool
      <3> QED
        BY <1>9, <3>2 DEF ReadV2Short, fileVars, IInv, UpgradeTypeOK
    <2>2. V2IsOriginal'
      BY <1>9 DEF ReadV2Short, fileVars, IInv, UpgradeSetting, UpgradeTypeOK, WalFile, Tool, V2IsOriginal, Apart, Missing,
                  NoUpgrade
    <2>3. UpgradeIsCopy'
      BY <1>9 DEF ReadV2Short, fileVars, IInv, UpgradeSetting, UpgradeTypeOK, WalFile, Tool, V2IsOriginal, UpgradeIsCopy,
                  Apart, NoUpgrade
    <2>4. Apart'
      BY <1>9 DEF ReadV2Short, fileVars, IInv, UpgradeSetting, UpgradeTypeOK, V2IsOriginal, Apart, Missing, NoUpgrade
    <2>5. WalHolds' /\ RecordsKept'
      BY <1>9, FilesKept DEF ReadV2Short, NoUpgrade
    <2> QED
      BY <2>1, <2>2, <2>3, <2>4, <2>5 DEF IInv
  <1> QED
    BY <1>1, <1>2, <1>3, <1>4, <1>5, <1>6, <1>7, <1>8, <1>9

\* The steps of the service and of the operator.
LEMMA ServiceStep ==
  ASSUME UpgradeSetting, IInv, OpenWAL \/ AppendEntry \/ StopService \/ Rollback
  PROVE  IInv'
  <1>1. CASE OpenWAL
    <2>1. UpgradeTypeOK'
      BY <1>1 DEF OpenWAL, fileVars, IInv, UpgradeSetting, UpgradeTypeOK, WalFile, Tool, Missing, NoUpgrade
    <2>2. V2IsOriginal'
      BY <1>1 DEF OpenWAL, fileVars, IInv, UpgradeSetting, UpgradeTypeOK, WalFile, Tool, V2IsOriginal, Apart,
                  Missing, NoUpgrade
    <2>3. UpgradeIsCopy'
      BY <1>1 DEF OpenWAL, fileVars, IInv, UpgradeSetting, UpgradeTypeOK, WalFile, Tool, V2IsOriginal, UpgradeIsCopy,
                  Apart, NoUpgrade
    <2>4. Apart'
      BY <1>1 DEF OpenWAL, fileVars, IInv, UpgradeSetting, UpgradeTypeOK, WalFile, V2IsOriginal, Apart, NoUpgrade
    <2>5. WalHolds' /\ RecordsKept'
      <3>1. UNCHANGED <<upgrade, backup, tool, short, interrupted>>
        BY <1>1 DEF OpenWAL
      <3>2. Holds(wal) => wal' = wal
        BY <1>1 DEF OpenWAL, Holds
      <3>3. WalHolds /\ RecordsKept
        BY DEF IInv
      <3> QED
        BY <3>1, <3>2, <3>3 DEF WalHolds, RecordsKept, Holds
    <2> QED
      BY <2>1, <2>2, <2>3, <2>4, <2>5 DEF IInv
  <1>2. CASE AppendEntry
    <2>1. UpgradeTypeOK'
      <3>1. PICK r \in Record : wal' = [wal EXCEPT !.recs = Append(wal.recs, r)]
        BY <1>2 DEF AppendEntry
      <3>2. Append(wal.recs, r) \in Seq(Record)
        BY DEF IInv, UpgradeTypeOK, WalFile
      <3>3. wal' \in WalFile
        BY <3>1, <3>2 DEF IInv, UpgradeTypeOK, WalFile
      <3> QED
        BY <1>2, <3>3 DEF AppendEntry, IInv, UpgradeTypeOK
    <2>2. V2IsOriginal'
      BY <1>2 DEF AppendEntry, fileVars, IInv, UpgradeSetting, UpgradeTypeOK, WalFile, Tool, V2IsOriginal, Apart,
                  Missing, NoUpgrade
    <2>3. UpgradeIsCopy'
      BY <1>2 DEF AppendEntry, fileVars, IInv, UpgradeSetting, UpgradeTypeOK, WalFile, Tool, V2IsOriginal,
                  UpgradeIsCopy, Apart, NoUpgrade
    <2>4. Apart'
      BY <1>2 DEF AppendEntry, fileVars, IInv, UpgradeSetting, UpgradeTypeOK, V2IsOriginal, Apart, Missing,
                  NoUpgrade
    <2>5. Holds(wal) => Holds(wal)'
      BY <1>2 DEF AppendEntry, IInv, UpgradeSetting, UpgradeTypeOK, WalFile, Holds
    <2>6. WalHolds'
      BY <1>2, <2>5 DEF AppendEntry, IInv, WalHolds
    <2>7. RecordsKept'
      <3>1. UNCHANGED <<upgrade, backup, short>>
        BY <1>2 DEF AppendEntry
      <3>2. (Holds(upgrade) => Holds(upgrade)') /\ (Holds(backup) => Holds(backup)')
        BY <3>1 DEF Holds
      <3> QED
        BY <2>5, <3>1, <3>2 DEF IInv, RecordsKept
    <2> QED
      BY <2>1, <2>2, <2>3, <2>4, <2>6, <2>7 DEF IInv
  <1>3. CASE StopService
    <2>1. UpgradeTypeOK'
      BY <1>3 DEF StopService, fileVars, IInv, UpgradeSetting, UpgradeTypeOK, WalFile, Tool, Missing, NoUpgrade
    <2>2. V2IsOriginal'
      BY <1>3 DEF StopService, fileVars, IInv, UpgradeSetting, UpgradeTypeOK, WalFile, Tool, V2IsOriginal, Apart,
                  Missing, NoUpgrade
    <2>3. UpgradeIsCopy'
      BY <1>3 DEF StopService, fileVars, IInv, UpgradeSetting, UpgradeTypeOK, WalFile, Tool, V2IsOriginal,
                  UpgradeIsCopy, Apart, NoUpgrade
    <2>4. Apart'
      BY <1>3 DEF StopService, fileVars, IInv, UpgradeSetting, UpgradeTypeOK, V2IsOriginal, Apart, Missing,
                  NoUpgrade
    <2>5. WalHolds' /\ RecordsKept'
      BY <1>3, FilesKept DEF StopService, NoUpgrade
    <2> QED
      BY <2>1, <2>2, <2>3, <2>4, <2>5 DEF IInv
  <1>4. CASE Rollback
    <2>1. UpgradeTypeOK'
      BY <1>4 DEF Rollback, fileVars, IInv, UpgradeSetting, UpgradeTypeOK, WalFile, Tool, Missing, NoUpgrade
    <2>2. V2IsOriginal'
      BY <1>4 DEF Rollback, fileVars, IInv, UpgradeSetting, UpgradeTypeOK, WalFile, Tool, V2IsOriginal, Apart,
                  Missing, NoUpgrade
    <2>3. UpgradeIsCopy'
      BY <1>4 DEF Rollback, fileVars, IInv, UpgradeSetting, UpgradeTypeOK, WalFile, Tool, V2IsOriginal,
                  UpgradeIsCopy, Apart, NoUpgrade
    <2>4. Apart'
      BY <1>4 DEF Rollback, fileVars, IInv, UpgradeSetting, UpgradeTypeOK, V2IsOriginal, Apart, Missing,
                  NoUpgrade
    <2>5. WalHolds' /\ RecordsKept'
      <3>1. backup.format = "v2" /\ backup.recs = Original
        BY <1>4 DEF Rollback, IInv, V2IsOriginal
      <3> QED
        BY <1>4, <3>1, OriginalHolds, WalSuffices DEF Rollback
    <2> QED
      BY <2>1, <2>2, <2>3, <2>4, <2>5 DEF IInv
  <1> QED
    BY <1>1, <1>2, <1>3, <1>4

\* The records are safe in every reachable state.
LEMMA UpgradeInvariant ==
  ASSUME UpgradeSetting
  PROVE  UpgradeSpec => []IInv
  <1>1. IInv /\ [UpgradeNext]_upgradeVars => IInv'
    <2> SUFFICES ASSUME IInv, [UpgradeNext]_upgradeVars PROVE IInv'
      OBVIOUS
    <2>1. CASE UpgradeNext
      BY <2>1, ToolStep, ServiceStep DEF UpgradeNext
    <2>2. CASE UNCHANGED upgradeVars
      BY <2>2 DEF upgradeVars, fileVars, IInv, UpgradeTypeOK, V2IsOriginal, UpgradeIsCopy, Apart, WalHolds, RecordsKept,
                  Holds, Unwritten
    <2> QED
      BY <2>1, <2>2
  <1>2. UpgradeInit => IInv
    BY UpgradeInitially
  <1> QED
    BY <1>1, <1>2, PTL DEF UpgradeSpec

\* RecordsKept for every log: whatever fails, raft.wal, raft.wal.upgrade or
\* raft.wal.v2-backup holds every well-formed record of the v2 file.
THEOREM UpgradeLosesNothing ==
  ASSUME UpgradeSetting
  PROVE  UpgradeSpec => []RecordsKept
  <1>1. IInv => RecordsKept
    BY DEF IInv
  <1> QED
    BY <1>1, UpgradeInvariant, PTL

\* OnlyGap for every log: a service that OpenWAL lets start has the records,
\* unless an upgrade ended after Upgrade moved the original and before its last
\* rename.
THEOREM GapIsTheOnlyOne ==
  ASSUME UpgradeSetting
  PROVE  UpgradeSpec => []OnlyGap
  <1>1. IInv => OnlyGap
    BY DEF IInv, OnlyGap, WalHolds, Apart, NoUpgrade
  <1> QED
    BY <1>1, UpgradeInvariant, PTL

=============================================================================
