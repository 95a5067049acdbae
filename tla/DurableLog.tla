----------------------------- MODULE DurableLog -----------------------------
(***************************************************************************)
(* What raft.wal keeps of its promise to the Raft node ("durable before    *)
(* return"): a log that a restart would read back, and calls of Append     *)
(* that are answered "ok" only after their entry has reached it, unless    *)
(* the file is damaged: a failed write or a crash has left a fragment of a *)
(* record, and what is written behind a fragment is not read.  An entry    *)
(* leaves the log only through a truncation that names its index, and the  *)
(* truncation repairs the file.  A call that failed or that a crash cut    *)
(* off says nothing about its entry, which may turn up later.              *)
(***************************************************************************)
EXTENDS Naturals, Sequences, SequencesExt

CONSTANT Entry          \* the indices that are appended, each of them once

VARIABLES call,         \* [Entry -> the state of the call Append(e)]
          stable,       \* the entries a restart would read back
          damaged       \* the file holds a fragment of a record

vars == <<call, stable, damaged>>

Init ==
    /\ call = [e \in Entry |-> "idle"]
    /\ stable = <<>>
    /\ damaged = FALSE

Asked == {e \in Entry : call[e] # "idle"}

\* The calls in C, all of them in state `from`, are in state `to` now.
Move(C, from, to) ==
    /\ \A e \in C : call[e] = from
    /\ call' = [e \in Entry |-> IF e \in C THEN to ELSE call[e]]

\* stable' is `kept` followed by entries that somebody has asked for.
Grow(kept) ==
    /\ IsPrefix(kept, stable')
    /\ Range(SubSeq(stable', Len(kept) + 1, Len(stable'))) \subseteq Asked

Ask(e) == Move({e}, "idle", "open") /\ UNCHANGED <<stable, damaged>>

Refuse(e) == Move({e}, "idle", "failed") /\ UNCHANGED <<stable, damaged>>

\* Some open calls are stored, in a damaged file perhaps where nobody will read
\* them; nothing that was stable is lost.
Store ==
    \E C \in SUBSET Entry :
        /\ Move(C, "open", "stored")
        /\ Grow(stable)
        /\ damaged \/ C \subseteq Range(stable')
        /\ UNCHANGED damaged

\* A write fails in the middle of a record.
Damage == damaged' = TRUE /\ UNCHANGED <<call, stable>>

Answer(C) == Move(C, "stored", "ok") /\ UNCHANGED <<stable, damaged>>

Fail(C) == Move(C, "open", "failed") /\ UNCHANGED <<stable, damaged>>

\* A truncation drops the entries from an index on, or up to an index, and every
\* fragment.
Truncate ==
    /\ UNCHANGED call
    /\ damaged' = FALSE
    /\ \E k \in Entry : \/ Grow(SelectSeq(stable, LAMBDA e : e < k))
                        \/ Grow(SelectSeq(stable, LAMBDA e : e > k))

\* The process dies: its calls never return, what is stable stays.  A fragment is
\* left behind, or one that was not on stable storage yet is gone.
Crash ==
    /\ damaged' \in BOOLEAN
    /\ call' = [e \in Entry |-> IF call[e] \in {"open", "stored"} THEN "lost" ELSE call[e]]
    /\ Grow(stable)

Next ==
    \/ \E e \in Entry : Ask(e) \/ Refuse(e)
    \/ Store \/ Damage
    \/ \E C \in SUBSET Entry : Answer(C) \/ Fail(C)
    \/ Truncate
    \/ Crash

Spec == Init /\ [][Next]_vars

=============================================================================
