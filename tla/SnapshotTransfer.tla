-------------------------- MODULE SnapshotTransfer --------------------------
(***************************************************************************)
(* A snapshot on its way to one follower, chunk by chunk: Raft models the  *)
(* transfer as one message, this module opens it.  Every heartbeat that    *)
(* finds the peer behind starts another driveInstallSnapshot, so several   *)
(* streams, of one leader or of two, reach the follower interleaved; a     *)
(* chunk whose sender gave up still arrives.  The follower collects the    *)
(* chunks in raft.snapshot.recv, which becomes raft.snapshot by a rename.  *)
(*                                                                         *)
(* Abstractions.  Offsets count chunks of snapshotChunkSize.  A checksum   *)
(* is the data it covers.  A leader sends the file of any index under any  *)
(* term it could lead in.  What an install does to the log, to commitIndex *)
(* and to the key cache is in Raft.                                        *)
(***************************************************************************)
EXTENDS Naturals, Sequences, FiniteSets

CONSTANTS
    Sender,       \* driveInstallSnapshot goroutines
    Index,        \* indices at which snapshots are taken
    TermOf,       \* the term of the entry at each of them
    File,         \* its snapshot, the same on every replica: a sequence of chunks
    Chunk,        \* what a chunk may hold
    MaxSize,      \* maxSnapshotSize, in chunks
    MaxTerm,      \* bound: terms
    MaxRequests,  \* bound: chunks sent
    MaxFailures,  \* bound: failed disk operations and installer calls
    MaxRestarts   \* bound: restarts of the follower

VARIABLES
    stream,          \* what each goroutine is doing
    matched,         \* the matchIndex it recorded
    requests, replies,
    sent,            \* chunks sent, which tells one exchange from another
    currentTerm, snapshotIndex,
    pending,         \* pendingSnapshotIndex, -Term, -Expected and -CRC
    open,            \* pendingSnapshotFile # nil
    recv, snapFile,  \* raft.snapshot.recv and raft.snapshot
    installing,      \* the handler that holds snapMu outside n.mu, and its request
    failures, restarts

senderVars   == <<stream, matched, sent>>
pendingVars  == <<pending, open, recv>>
followerVars == <<currentTerm, snapshotIndex, snapFile, installing>>
faultVars    == <<failures, restarts>>
vars == <<senderVars, requests, replies, pendingVars, followerVars, faultVars>>

Idle   == [stage |-> "idle"]
NoFile == [index |-> 0, term |-> 0, size |-> 0, crc |-> <<>>, data |-> <<>>]

Nothing == [index |-> 0, term |-> 0, expected |-> 0, crc |-> <<>>]

Total(i) == Len(File[i])

\* Where the chunk at offset o ends.
End(i, o) == IF o + 1 > Total(i) THEN Total(i) ELSE o + 1

Init ==
    /\ stream = [s \in Sender |-> Idle]
    /\ matched = [s \in Sender |-> 0]
    /\ requests = {} /\ replies = {} /\ sent = 0
    /\ currentTerm = 0 /\ snapshotIndex = 0
    /\ pending = Nothing /\ open = FALSE
    /\ recv = NoFile /\ snapFile = NoFile
    /\ installing = Idle
    /\ failures = 0 /\ restarts = 0

-----------------------------------------------------------------------------
(* The leader *)

\* SendInstallSnapshot loads raft.snapshot and reads its term.
LoadSnapshot(s) ==
    /\ stream[s].stage = "idle"
    /\ \E i \in Index, t \in 1 .. MaxTerm :
          /\ TermOf[i] <= t
          /\ stream' = [stream EXCEPT ![s] =
                 [stage |-> "ready", index |-> i, term |-> t, offset |-> 0]]
    /\ UNCHANGED <<matched, sent, requests, replies, pendingVars, followerVars, faultVars>>

\* One round of the loop: the next chunk, the last one marked Done.  An empty
\* snapshot is one Done chunk without data.
SendChunk(s) ==
    LET st == stream[s]
        req == [rpc |-> sent + 1, index |-> st.index, lastTerm |-> TermOf[st.index],
                term |-> st.term, offset |-> st.offset,
                data |-> SubSeq(File[st.index], st.offset + 1, End(st.index, st.offset)),
                done |-> End(st.index, st.offset) = Total(st.index)]
    IN  /\ st.stage = "ready"
        /\ sent < MaxRequests
        /\ sent' = sent + 1
        /\ requests' = requests \cup {req}
        /\ stream' = [stream EXCEPT ![s] = [stage |-> "waiting", req |-> req]]
        /\ UNCHANGED <<matched, replies, pendingVars, followerVars, faultVars>>

\* The exchange fails or the context is done: the stream is abandoned, and
\* what it sent may still arrive.
GiveUp(s) ==
    /\ stream[s].stage # "idle"
    /\ stream' = [stream EXCEPT ![s] = Idle]
    /\ UNCHANGED <<matched, sent, requests, replies, pendingVars, followerVars, faultVars>>

\* exchangeSnapshotChunk got its answer.  A refusal ends the stream; the
\* answer to the last chunk moves matchIndex.
HandleReply(s, r) ==
    LET req == r.req
    IN  /\ stream[s] = [stage |-> "waiting", req |-> req]
        /\ replies' = replies \ {r}
        /\ stream' = [stream EXCEPT ![s] =
               IF r.success /\ ~req.done
               THEN [stage |-> "ready", index |-> req.index, term |-> req.term,
                     offset |-> req.offset + 1]
               ELSE Idle]
        /\ matched' = IF r.success /\ req.done THEN [matched EXCEPT ![s] = req.index]
                      ELSE matched
        /\ UNCHANGED <<sent, requests, pendingVars, followerVars, faultVars>>

-----------------------------------------------------------------------------
(* The follower: handleInstallSnapshot, one chunk at a time under snapMu *)

Answer(m, success) ==
    /\ requests' = requests \ {m}
    /\ replies' = replies \cup {[req |-> m, success |-> success]}

Fault ==
    /\ failures < MaxFailures
    /\ failures' = failures + 1
    /\ UNCHANGED restarts

\* snapMu is free and the term check passes.
Heard(m) == installing = Idle /\ m.term >= currentTerm

\* The chunk is of a snapshot newer than what the follower has.
News(m) == Heard(m) /\ ~(m.index <= snapshotIndex /\ snapshotIndex > 0)

\* The handler adopts the term of the leader.
Adopt(m) == currentTerm' = m.term

StaleTerm(m) ==
    /\ installing = Idle
    /\ m.term < currentTerm
    /\ Answer(m, FALSE)
    /\ UNCHANGED <<senderVars, pendingVars, followerVars, faultVars>>

\* A duplicate or a straggler is acknowledged and not installed.
AlreadyHave(m) ==
    /\ Heard(m)
    /\ m.index <= snapshotIndex /\ snapshotIndex > 0
    /\ Adopt(m)
    /\ Answer(m, TRUE)
    /\ UNCHANGED <<senderVars, pendingVars, snapshotIndex, snapFile, installing, faultVars>>

newTransfer(m) ==
    \/ m.offset = 0
    \/ m.index # pending.index
    \/ m.lastTerm # pending.term

\* beginPendingSnapshot: what the handler goes on with, a fresh spill file or
\* the one it has.
Begun(m) ==
    IF newTransfer(m)
    THEN [pending |-> [index |-> m.index, term |-> m.lastTerm, expected |-> 0, crc |-> <<>>],
          recv |-> [NoFile EXCEPT !.index = m.index, !.term = m.lastTerm], open |-> TRUE]
    ELSE [pending |-> pending, recv |-> recv, open |-> open]

\* releasePendingSnapshot.
Release == pending' = Nothing /\ open' = FALSE /\ recv' = NoFile

\* The spill file cannot be opened or its header not written.  The tuple of
\* the transfer stays behind without a file.
BeginFails(m) ==
    /\ News(m)
    /\ newTransfer(m)
    /\ Fault
    /\ pending' = Begun(m).pending
    /\ open' = FALSE /\ recv' = NoFile
    /\ Adopt(m)
    /\ Answer(m, FALSE)
    /\ UNCHANGED <<senderVars, snapshotIndex, snapFile, installing>>

\* A gap or a repetition: the transfer is dropped.
OffsetGap(m) ==
    /\ News(m)
    /\ m.offset # Begun(m).pending.expected
    /\ Release
    /\ Adopt(m)
    /\ Answer(m, FALSE)
    /\ UNCHANGED <<senderVars, snapshotIndex, snapFile, installing, faultVars>>

\* appendPendingSnapshot refuses what would exceed maxSnapshotSize.
Overflows(m) == Begun(m).pending.expected + Len(m.data) > MaxSize

AppendFails(m) ==
    /\ News(m)
    /\ m.offset = Begun(m).pending.expected
    /\ \/ Overflows(m) /\ UNCHANGED faultVars
       \/ ~Overflows(m) /\ Fault
    /\ Release
    /\ Adopt(m)
    /\ Answer(m, FALSE)
    /\ UNCHANGED <<senderVars, snapshotIndex, snapFile, installing>>

Fits(m) == News(m) /\ m.offset = Begun(m).pending.expected /\ ~Overflows(m)

\* appendPendingSnapshot: without a spill file the chunk goes to memory.
Appended(m) ==
    LET b == Begun(m)
        data == IF b.open THEN m.data ELSE <<>>
    IN  [pending |-> [b.pending EXCEPT !.expected = @ + Len(m.data), !.crc = @ \o data],
         recv |-> [b.recv EXCEPT !.data = @ \o data]]

\* A chunk in the middle is kept and acknowledged.
Accept(m) ==
    /\ Fits(m) /\ ~m.done
    /\ pending' = Appended(m).pending
    /\ recv' = Appended(m).recv
    /\ open' = Begun(m).open
    /\ Adopt(m)
    /\ Answer(m, TRUE)
    /\ UNCHANGED <<senderVars, snapshotIndex, snapFile, installing, faultVars>>

\* The last chunk: finalizePendingSnapshot writes length and CRC into the
\* header, syncs, and hands the file over; snapMu stays held.
Finalize(m) ==
    LET a == Appended(m)
    IN  /\ Fits(m) /\ m.done
        /\ Begun(m).open
        /\ recv' = [a.recv EXCEPT !.size = a.pending.expected, !.crc = a.pending.crc]
        /\ pending' = Nothing /\ open' = FALSE
        /\ installing' = [stage |-> "installer", req |-> m]
        /\ Adopt(m)
        /\ requests' = requests \ {m}
        /\ UNCHANGED <<senderVars, replies, snapshotIndex, snapFile, faultVars>>

\* It cannot patch or sync the file, or there is none.
FinalizeFails(m) ==
    /\ Fits(m) /\ m.done
    /\ \/ Begun(m).open /\ Fault /\ Release
       \/ ~Begun(m).open /\ pending' = Appended(m).pending /\ UNCHANGED <<open, recv, faultVars>>
    /\ Adopt(m)
    /\ Answer(m, FALSE)
    /\ UNCHANGED <<senderVars, snapshotIndex, snapFile, installing>>

Finish(success) ==
    /\ replies' = replies \cup {[req |-> installing.req, success |-> success]}
    /\ installing' = Idle

\* The installer rejects the payload or reads it short, or the rename fails:
\* the spill file is removed.
InstallFails ==
    /\ installing.stage = "installer"
    /\ Fault
    /\ recv' = NoFile
    /\ Finish(FALSE)
    /\ UNCHANGED <<senderVars, requests, pending, open, currentTerm, snapshotIndex, snapFile>>

\* The installer took the payload: finalizeAndRenamePendingSnapshot.
Rename ==
    /\ installing.stage = "installer"
    /\ snapFile' = recv
    /\ recv' = NoFile
    /\ installing' = [installing EXCEPT !.stage = "renamed"]
    /\ UNCHANGED <<senderVars, requests, replies, pending, open, currentTerm, snapshotIndex,
                   faultVars>>

\* The node moves to the snapshot on disk.
Install ==
    /\ installing.stage = "renamed"
    /\ snapshotIndex' = installing.req.index
    /\ Finish(TRUE)
    /\ UNCHANGED <<senderVars, requests, pendingVars, currentTerm, snapFile, faultVars>>

-----------------------------------------------------------------------------
(* What else happens to the follower *)

\* CompactLog, which snapMu keeps apart from the handler.  A transfer that is
\* under way stays as it is.
CompactLog ==
    /\ installing = Idle
    /\ \E i \in Index :
          /\ i > snapshotIndex /\ TermOf[i] <= currentTerm
          /\ snapshotIndex' = i
          /\ snapFile' = [index |-> i, term |-> TermOf[i], size |-> Total(i),
                          crc |-> File[i], data |-> File[i]]
    /\ UNCHANGED <<senderVars, requests, replies, pendingVars, currentTerm, installing, faultVars>>

\* Any other RPC of a later term.
ObserveTerm ==
    /\ currentTerm < MaxTerm
    /\ currentTerm' = currentTerm + 1
    /\ UNCHANGED <<senderVars, requests, replies, pendingVars, snapshotIndex, snapFile,
                   installing, faultVars>>

\* LoadSnapshotReader accepts a file whose length and CRC are those of its
\* header.
Loads(f) == f.size = Len(f.data) /\ f.crc = f.data

\* A crash at any point, and LoadFromDisk: the stale spill file is removed
\* (cleanupStalePendingSnapshot), currentTerm comes from snapshot and WAL.
Restart ==
    /\ restarts < MaxRestarts
    /\ Loads(snapFile)
    /\ restarts' = restarts + 1
    /\ pending' = Nothing /\ open' = FALSE /\ recv' = NoFile
    /\ installing' = Idle
    /\ snapshotIndex' = snapFile.index
    /\ currentTerm' \in snapFile.term .. currentTerm
    /\ UNCHANGED <<senderVars, requests, replies, snapFile, failures>>

\* A request or a response is lost with its connection.
Lose ==
    /\ \/ \E m \in requests : requests' = requests \ {m} /\ UNCHANGED replies
       \/ \E r \in replies : replies' = replies \ {r} /\ UNCHANGED requests
    /\ UNCHANGED <<senderVars, pendingVars, followerVars, faultVars>>

handleInstallSnapshot(m) ==
    \/ StaleTerm(m) \/ AlreadyHave(m) \/ BeginFails(m) \/ OffsetGap(m)
    \/ AppendFails(m) \/ Accept(m) \/ Finalize(m) \/ FinalizeFails(m)

Next ==
    \/ \E s \in Sender : LoadSnapshot(s) \/ SendChunk(s) \/ GiveUp(s)
    \/ \E s \in Sender, r \in replies : HandleReply(s, r)
    \/ \E m \in requests : handleInstallSnapshot(m)
    \/ InstallFails \/ Rename \/ Install
    \/ CompactLog \/ ObserveTerm \/ Restart \/ Lose

Spec == Init /\ [][Next]_vars

-----------------------------------------------------------------------------
(* What the transfer promises *)

Request == [rpc : Nat, index : Index, lastTerm : Nat, term : Nat, offset : Nat,
            data : Seq(Chunk), done : BOOLEAN]

Stream == {Idle} \cup [stage : {"ready"}, index : Index, term : Nat, offset : Nat]
                 \cup [stage : {"waiting"}, req : Request]

SnapshotFile == [index : Nat, term : Nat, size : Nat, crc : Seq(Chunk), data : Seq(Chunk)]

\* The types of the fields of Node and of the two files.
TypeOK ==
    /\ stream \in [Sender -> Stream] /\ matched \in [Sender -> Nat]
    /\ requests \subseteq Request /\ replies \subseteq [req : Request, success : BOOLEAN]
    /\ sent \in Nat /\ currentTerm \in Nat /\ snapshotIndex \in Nat
    /\ pending \in [index : Nat, term : Nat, expected : Nat, crc : Seq(Chunk)]
    /\ open \in BOOLEAN /\ recv \in SnapshotFile /\ snapFile \in SnapshotFile
    /\ installing \in {Idle} \cup [stage : {"installer", "renamed"}, req : Request]
    /\ failures \in Nat /\ restarts \in Nat

\* raft.snapshot is always a complete snapshot that loads: whatever streams
\* interleaved, no chunk is missing, repeated or of another snapshot, and a
\* restart never finds a file that LoadFromDisk refuses.
SnapshotWhole ==
    /\ Loads(snapFile)
    /\ snapFile.index \in Index => /\ snapFile.data = File[snapFile.index]
                                   /\ snapFile.term = TermOf[snapFile.index]

\* A leader that records a matchIndex for the peer is right: the peer has a
\* snapshot at that index or above on its disk ("advanced if and only if the
\* follower ACKed the Done chunk with Success=true", SendInstallSnapshot).
MatchedIsInstalled == \A s \in Sender : matched[s] <= snapFile.index

\* A chunk that continues a transfer finds its spill file open; the branch of
\* appendPendingSnapshot that collects in memory is for nodes without a state
\* directory only, although a failed beginPendingSnapshot leaves the tuple of
\* the transfer behind without a file.
SpillIsOpen == \A m \in requests : Fits(m) => Begun(m).open

=============================================================================
