-------------------------------- MODULE WAL --------------------------------
(***************************************************************************)
(* raft.wal: the group-commit batcher, truncation by rewriting, Close, and *)
(* what a crash leaves in the file (internal/zero/raft/wal*.go).           *)
(*                                                                         *)
(* Append hands its entry to a bounded channel and waits; flushLoop writes *)
(* what it has collected with one fsync and gives every caller of the      *)
(* batch the same answer.  One action is one critical section of w.mu or   *)
(* one channel operation.  An entry is its index.                          *)
(***************************************************************************)
EXTENDS Naturals, Sequences, SequencesExt

CONSTANTS Entry,            \* indices appended, each by a goroutine of its own
          BatchBufferSize,  \* walBatchBufferSize, capacity of the channel
          MaxFailures,      \* bound: disk operations that fail
          MaxTruncations,   \* bound: calls of TruncateAfter and TruncateBefore
          MaxCrashes        \* bound: process deaths

ASSUME WALAssumption ==
    /\ Entry \subseteq Nat \ {0}
    /\ BatchBufferSize \in Nat \ {0}
    /\ MaxFailures \in Nat /\ MaxTruncations \in Nat /\ MaxCrashes \in Nat

Torn == 0                   \* a record whose length, CRC or HMAC does not match

VARIABLES
    call,       \* [Entry -> state of the goroutine inside Append]
    batchCh,    \* the channel: entries sent and not yet received
    chOpen,     \* the channel is not closed
    pending,    \* flushLoop's slice
    loop,       \* where flushLoop is
    result,     \* what writeBatchLocked returned: nil?
    file,       \* records of raft.wal as the process sees them
    synced,     \* how many of them are on stable storage
    handle,     \* w.file: "open", "stale" (closed and not reopened), "nil"
    closed,     \* w.closed
    up,         \* the process runs
    failures, truncations, crashes

appendVars == <<call, batchCh, chOpen>>
loopVars   == <<pending, loop, result>>
diskVars   == <<file, synced, handle>>
vars == <<appendVars, loopVars, diskVars, closed, up, failures, truncations, crashes>>

CallState == {"idle", "sending", "waiting", "ok", "failed", "lost"}

TypeOK ==
    /\ call \in [Entry -> CallState]
    /\ batchCh \in Seq(Entry) /\ Len(batchCh) <= BatchBufferSize
    /\ pending \in Seq(Entry)
    /\ loop \in {"select", "drain", "last", "reply", "lastReply", "done"}
    /\ result \in BOOLEAN /\ chOpen \in BOOLEAN /\ closed \in BOOLEAN /\ up \in BOOLEAN
    /\ file \in Seq(Entry \cup {Torn}) /\ synced \in 0 .. Len(file)
    /\ handle \in {"open", "stale", "nil"}

Init ==
    /\ call = [e \in Entry |-> "idle"]
    /\ batchCh = <<>> /\ chOpen = TRUE
    /\ pending = <<>> /\ loop = "select" /\ result = TRUE
    /\ file = <<>> /\ synced = 0 /\ handle = "open"
    /\ closed = FALSE /\ up = TRUE
    /\ failures = 0 /\ truncations = 0 /\ crashes = 0

-----------------------------------------------------------------------------
(* Reading: the records before the first one that does not check out.      *)

WellFormed(f) ==
    LET bad == {i \in 1 .. Len(f) : f[i] = Torn}
    IN  IF bad = {} THEN Len(f) ELSE (CHOOSE i \in bad : \A j \in bad : i <= j) - 1

readAll(f) == SubSeq(f, 1, WellFormed(f))

-----------------------------------------------------------------------------
(* Append.                                                                 *)

\* Up to the first unlock: a closed WAL refuses, an open one hands out the
\* channel.
AppendBegin(e) ==
    /\ up /\ call[e] = "idle"
    /\ call' = [call EXCEPT ![e] = IF closed THEN "failed" ELSE "sending"]
    /\ UNCHANGED <<batchCh, chOpen, loopVars, diskVars, closed, up, failures, truncations, crashes>>

\* ch <- walItem: blocks while the channel is full.
AppendSend(e) ==
    /\ up /\ call[e] = "sending" /\ chOpen
    /\ Len(batchCh) < BatchBufferSize
    /\ batchCh' = Append(batchCh, e)
    /\ call' = [call EXCEPT ![e] = "waiting"]
    /\ UNCHANGED <<chOpen, loopVars, diskVars, closed, up, failures, truncations, crashes>>

-----------------------------------------------------------------------------
(* flushLoop.                                                              *)

\* A receive of the select or of the drain loop.
LoopReceive ==
    /\ up /\ loop \in {"select", "drain"} /\ batchCh # <<>>
    /\ pending' = Append(pending, Head(batchCh))
    /\ batchCh' = Tail(batchCh)
    /\ loop' = "drain"
    /\ UNCHANGED <<call, chOpen, result, diskVars, closed, up, failures, truncations, crashes>>

\* The drain loop finds the channel empty and goes back to the select.
LoopDrained ==
    /\ up /\ loop = "drain" /\ batchCh = <<>> /\ chOpen
    /\ loop' = "select"
    /\ UNCHANGED <<appendVars, pending, result, diskVars, closed, up, failures, truncations, crashes>>

\* Mutant: flushLoop returns without the last flush.
LoopClosedNoFlush ==
    /\ up /\ loop \in {"select", "drain"} /\ batchCh = <<>> /\ ~chOpen
    /\ loop' = "done"
    /\ UNCHANGED <<appendVars, pending, result, diskVars, closed, up, failures, truncations, crashes>>

\* A receive finds the channel closed and drained: a last flush, if there is
\* anything to flush.
LoopClosed ==
    /\ up /\ loop \in {"select", "drain"} /\ batchCh = <<>> /\ ~chOpen
    /\ loop' = IF pending = <<>> THEN "done" ELSE "last"
    /\ UNCHANGED <<appendVars, pending, result, diskVars, closed, up, failures, truncations, crashes>>

\* What an error at the k-th record leaves in the file: the records before it,
\* and perhaps a part of its own.
Written(k) ==
    LET whole == file \o SubSeq(pending, 1, k - 1) IN {whole, Append(whole, Torn)}

\* writeBatchLocked returns nil: everything is written and synced.
WriteBatch ==
    /\ handle = "open"
    /\ file' = file \o pending
    /\ synced' = Len(file')
    /\ result' = TRUE
    /\ UNCHANGED <<handle, failures>>

\* Mutant: the error of the fsync is dropped.
WriteBatchErrorDropped ==
    /\ handle = "open" /\ failures < MaxFailures
    /\ failures' = failures + 1
    /\ file' = file \o pending
    /\ result' = TRUE
    /\ UNCHANGED <<synced, handle>>

\* An error at a write, at the fsync, or because the handle is stale.
WriteBatchFails ==
    /\ result' = FALSE
    /\ UNCHANGED <<synced, handle>>
    /\ \/ handle = "stale" /\ UNCHANGED <<file, failures>>
       \/ /\ handle = "open" /\ failures < MaxFailures
          /\ failures' = failures + 1
          /\ \/ \E k \in 1 .. Len(pending) : file' \in Written(k)
             \/ file' = file \o pending

\* flush, up to the unlock: from the ticker, or after the channel was closed.
Flush ==
    /\ up /\ loop \in {"select", "last"} /\ pending # <<>>
    /\ WriteBatch \/ WriteBatchFails
    /\ loop' = IF loop = "last" THEN "lastReply" ELSE "reply"
    /\ UNCHANGED <<appendVars, pending, closed, up, truncations, crashes>>

\* flush, the rest: every caller of the batch gets the same answer.
Reply ==
    /\ up /\ loop \in {"reply", "lastReply"}
    /\ call' = [e \in Entry |-> IF e \in Range(pending)
                                THEN IF result THEN "ok" ELSE "failed"
                                ELSE call[e]]
    /\ pending' = <<>>
    /\ loop' = IF loop = "lastReply" THEN "done" ELSE "select"
    /\ UNCHANGED <<batchCh, chOpen, result, diskVars, closed, up, failures, truncations, crashes>>

-----------------------------------------------------------------------------
(* Truncation: filterRewrite writes the kept records to a temporary file   *)
(* and renames it over raft.wal.  A torn tail does not survive it.         *)

Rewrite(kept) ==
    /\ up /\ handle = "open" /\ truncations < MaxTruncations
    /\ truncations' = truncations + 1
    /\ \/ file' = kept /\ synced' = Len(kept) /\ UNCHANGED <<handle, failures>>
       \/ /\ failures < MaxFailures /\ failures' = failures + 1
          /\ \/ UNCHANGED diskVars                                \* before the old file is closed
             \/ handle' = "stale" /\ UNCHANGED <<file, synced>>   \* the rename fails
             \/ handle' = "stale" /\ file' = kept /\ synced' = Len(kept)   \* the reopen fails
    /\ UNCHANGED <<appendVars, loopVars, closed, up, crashes>>

\* TruncateAfter(k - 1) of the code.
TruncateAfter(k) == Rewrite(SelectSeq(readAll(file), LAMBDA e : e < k))

\* TruncateBefore(k + 1) of the code.
TruncateBefore(k) == Rewrite(SelectSeq(readAll(file), LAMBDA e : e > k))

-----------------------------------------------------------------------------
(* Close, and the death of the process.                                    *)

\* The first critical section: later Appends are refused.
CloseBegin ==
    /\ up /\ ~closed
    /\ closed' = TRUE
    /\ UNCHANGED <<appendVars, loopVars, diskVars, up, failures, truncations, crashes>>

\* close(ch): a goroutine that has the channel and has not sent yet panics.
Die ==
    /\ up' = FALSE
    /\ call' = [e \in Entry |-> IF call[e] \in {"sending", "waiting"} THEN "lost" ELSE call[e]]
    /\ UNCHANGED <<batchCh, chOpen, loopVars, handle, closed, failures, truncations>>

CloseChannel ==
    /\ up /\ closed /\ chOpen
    /\ chOpen' = FALSE
    /\ UNCHANGED <<call, batchCh, loopVars, diskVars, closed, up, failures, truncations, crashes>>

AppendPanics ==
    /\ up /\ ~chOpen /\ \E e \in Entry : call[e] = "sending"
    /\ Die
    /\ UNCHANGED <<file, synced, crashes>>

\* After <-flushDone: sync and release the file.
CloseFinish ==
    /\ up /\ closed /\ loop = "done" /\ handle # "nil"
    /\ handle' = "nil"
    /\ synced' = IF handle = "open" THEN Len(file) ELSE synced
    /\ UNCHANGED <<appendVars, loopVars, file, closed, up, failures, truncations, crashes>>

\* What a power cut leaves of the records that were not synced, those of a
\* batch being written included: some of the first ones, and perhaps a part of
\* the next one.
Survivors ==
    LET cached == IF loop \in {"select", "last"} /\ handle = "open" THEN file \o pending ELSE file
    IN  {SubSeq(cached, 1, k) : k \in synced .. Len(cached)}
            \cup {Append(SubSeq(cached, 1, k), Torn) : k \in synced .. Len(cached) - 1}

Crash ==
    /\ up /\ crashes < MaxCrashes
    /\ crashes' = crashes + 1
    /\ Die
    /\ file' \in Survivors
    /\ synced' = Len(file')

\* OpenWAL in a new process, with O_APPEND: the file stays as it is.
OpenWAL ==
    /\ ~up
    /\ up' = TRUE /\ closed' = FALSE /\ handle' = "open"
    /\ batchCh' = <<>> /\ chOpen' = TRUE
    /\ pending' = <<>> /\ loop' = "select" /\ result' = TRUE
    /\ UNCHANGED <<call, file, synced, failures, truncations, crashes>>

-----------------------------------------------------------------------------
FlushLoop == LoopReceive \/ LoopDrained \/ LoopClosed \/ Flush \/ Reply

Next ==
    \/ \E e \in Entry : AppendBegin(e) \/ AppendSend(e)
    \/ FlushLoop
    \/ \E k \in Entry : TruncateAfter(k) \/ TruncateBefore(k)
    \/ CloseBegin \/ CloseChannel \/ AppendPanics \/ CloseFinish
    \/ Crash \/ OpenWAL

Spec == Init /\ [][Next]_vars

\* Goroutines that can run do run.  The two ready cases of flushLoop's select
\* are chosen at random, so that a tick that keeps being due is served.
Fairness ==
    /\ \A e \in Entry : SF_vars(AppendSend(e))
    /\ WF_vars(LoopReceive) /\ WF_vars(LoopDrained) /\ WF_vars(LoopClosed)
    /\ SF_vars(Flush) /\ WF_vars(Reply)
    /\ WF_vars(CloseChannel) /\ WF_vars(AppendPanics)

FairSpec == Spec /\ Fairness

-----------------------------------------------------------------------------
(* Properties.                                                             *)

\* The log a restart would read back, whether the file holds a fragment, and the
\* calls as the promise sees them.
Durable ==
    INSTANCE DurableLog WITH
        stable <- readAll(SubSeq(file, 1, synced)),
        damaged <- Torn \in Range(file),
        call <- [e \in Entry |->
                    IF call[e] \in {"sending", "waiting"}
                    THEN IF /\ up /\ loop \in {"reply", "lastReply"} /\ result
                            /\ e \in Range(pending)
                         THEN "stored" ELSE "open"
                    ELSE call[e]]

\* The batcher keeps the promise of DurableLog: as long as the file holds no
\* fragment, Append returns nil only after a restart would read its entry back;
\* and nothing but a truncation takes away what a restart would read back,
\* whatever fails, tears or crashes between two steps.  A fragment is what a failed
\* write or a crash leaves of a record; the next truncation removes it.
DurableBeforeReturn == Durable!Spec

\* Every call of Append returns, unless the process dies first: also with a
\* full channel, a failing disk, or a Close that is under way.
AppendReturns ==
    \A e \in Entry : call[e] \in {"sending", "waiting"} ~> call[e] \in {"ok", "failed", "lost"}

\* What Append answered with nil is read back (without truncations), fragment or
\* not: the "durable before return" contract as wal_append.go states it.
AckedReadable == \A e \in Entry : call[e] = "ok" => e \in Range(readAll(file))

=============================================================================
