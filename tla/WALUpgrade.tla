----------------------------- MODULE WALUpgrade -----------------------------
(***************************************************************************)
(* The offline conversion of a v2 write-ahead log to v3                    *)
(* (internal/zero/raft/walupgrade, cmd/mxkeys-walctl), with what happens   *)
(* around it: the tool dies or a file operation fails at any step, the     *)
(* service is started and stopped, and the operator rolls back as the      *)
(* runbook says (docs/runbook/raft-wal-upgrade.md).                        *)
(*                                                                         *)
(* A file is a format and the payloads of its records.  Headers, CRCs and  *)
(* HMACs are what makes a record well-formed; a torn tail of the v2 file   *)
(* ends the reading and is not a record.  The service only appends here:   *)
(* its truncations remove what a snapshot holds or a leader replaces (see  *)
(* Raft).                                                                  *)
(***************************************************************************)
EXTENDS Naturals, Sequences

CONSTANTS
    Record,       \* payloads
    Original,     \* the well-formed records of the v2 file, in their order
    MaxAppends    \* bound: entries that the service appends

VARIABLES
    wal, upgrade, backup,  \* raft.wal, raft.wal.upgrade, raft.wal.v2-backup
    tool,         \* mxkeys-walctl: stage of Upgrade, KeepV2, the records it has read
    up,           \* the service runs
    interrupted,  \* history: an upgrade has ended between its two renames
    short,        \* history: readV2 has taken a failed read for the end of the log
    appends

fileVars == <<wal, upgrade, backup>>
upgradeVars == <<fileVars, tool, up, interrupted, short, appends>>

Missing == [format |-> "missing", recs |-> <<>>]
NoUpgrade == [stage |-> "idle", keep |-> FALSE, recs |-> <<>>]

UpgradeInit ==
    /\ wal = [format |-> "v2", recs |-> Original]
    /\ upgrade = Missing /\ backup = Missing
    /\ tool = NoUpgrade /\ up = FALSE /\ interrupted = FALSE /\ short = FALSE
    /\ appends = 0

-----------------------------------------------------------------------------
(* Upgrade *)

\* readV2.  A file that is missing, or v3 already, is an error and nothing
\* happens.
ReadV2(keep) ==
    /\ ~up /\ tool = NoUpgrade
    /\ wal.format = "v2"
    /\ tool' = [stage |-> "read", keep |-> keep, recs |-> wal.recs]
    /\ UNCHANGED <<fileVars, up, interrupted, short, appends>>

\* A payload that cannot be read ends the log like a torn tail, whatever the
\* error was.
ReadV2Short(keep, n) ==
    /\ ~up /\ tool = NoUpgrade
    /\ wal.format = "v2" /\ n < Len(wal.recs)
    /\ tool' = [stage |-> "read", keep |-> keep, recs |-> SubSeq(wal.recs, 1, n)]
    /\ short' = TRUE
    /\ UNCHANGED <<fileVars, up, interrupted, appends>>

\* writeV3 opens the temporary file, truncates it and writes the magic.
CreateV3 ==
    /\ tool.stage = "read"
    /\ upgrade' = [format |-> "v3", recs |-> <<>>]
    /\ tool' = [tool EXCEPT !.stage = "write"]
    /\ UNCHANGED <<wal, backup, up, interrupted, short, appends>>

Unwritten == Len(upgrade.recs) < Len(tool.recs)

\* writeV3Record.
WriteRecord ==
    /\ tool.stage = "write" /\ Unwritten
    /\ upgrade' = [upgrade EXCEPT !.recs = Append(@, tool.recs[Len(@) + 1])]
    /\ UNCHANGED <<wal, backup, tool, up, interrupted, short, appends>>

\* Sync and Close.
Written ==
    /\ tool.stage = "write" /\ ~Unwritten
    /\ tool' = [tool EXCEPT !.stage = "written"]
    /\ UNCHANGED <<fileVars, up, interrupted, short, appends>>

\* A write or the backup rename fails: the temporary file is removed.
UpgradeFails ==
    /\ tool.stage \in {"read", "write", "written"}
    /\ upgrade' = Missing
    /\ tool' = NoUpgrade
    /\ UNCHANGED <<wal, backup, up, interrupted, short, appends>>

\* The v2 file is renamed to the backup, or removed.
MoveOriginal ==
    /\ tool.stage = "written"
    /\ backup' = IF tool.keep THEN wal ELSE backup
    /\ wal' = Missing
    /\ tool' = [tool EXCEPT !.stage = "moved"]
    /\ UNCHANGED <<upgrade, up, interrupted, short, appends>>

\* The v3 file takes its place; the tool reports success.
RenameV3 ==
    /\ tool.stage = "moved"
    /\ wal' = upgrade
    /\ upgrade' = Missing
    /\ tool' = NoUpgrade
    /\ UNCHANGED <<backup, up, interrupted, short, appends>>

\* The tool is killed, or the last rename fails, which leaves the same files.
Die ==
    /\ tool # NoUpgrade
    /\ tool' = NoUpgrade
    /\ interrupted' = (interrupted \/ tool.stage = "moved")
    /\ UNCHANGED <<fileVars, up, short, appends>>

-----------------------------------------------------------------------------
(* Service and operator.  Both wait for the tool, as the runbook asks. *)

\* OpenWAL and ensureMagic: a missing file is made anew, a v2 file refused.
OpenWAL ==
    /\ ~up /\ tool = NoUpgrade
    /\ wal.format # "v2"
    /\ wal' = IF wal.format = "missing" THEN [format |-> "v3", recs |-> <<>>] ELSE wal
    /\ up' = TRUE
    /\ UNCHANGED <<upgrade, backup, tool, interrupted, short, appends>>

AppendEntry ==
    /\ up /\ appends < MaxAppends
    /\ appends' = appends + 1
    /\ \E r \in Record : wal' = [wal EXCEPT !.recs = Append(@, r)]
    /\ UNCHANGED <<upgrade, backup, tool, up, interrupted, short>>

StopService ==
    /\ up
    /\ up' = FALSE
    /\ UNCHANGED <<fileVars, tool, interrupted, short, appends>>

\* The rollback of the runbook: whatever is raft.wal is put aside.
Rollback ==
    /\ ~up /\ tool = NoUpgrade
    /\ backup.format # "missing"
    /\ wal' = backup
    /\ backup' = Missing
    /\ UNCHANGED <<upgrade, tool, up, interrupted, short, appends>>

UpgradeNext ==
    \/ \E keep \in BOOLEAN : ReadV2(keep)
    \/ \E keep \in BOOLEAN, n \in 0 .. Len(Original) : ReadV2Short(keep, n)
    \/ CreateV3 \/ WriteRecord \/ Written \/ UpgradeFails \/ MoveOriginal \/ RenameV3 \/ Die
    \/ OpenWAL \/ AppendEntry \/ StopService \/ Rollback

UpgradeSpec == UpgradeInit /\ [][UpgradeNext]_upgradeVars

-----------------------------------------------------------------------------
(* What the upgrade promises *)

WalFile == [format : {"missing", "v2", "v3"}, recs : Seq(Record)]

Tool ==
    [stage : {"idle", "read", "write", "written", "moved"}, keep : BOOLEAN, recs : Seq(Record)]

UpgradeTypeOK ==
    /\ wal \in WalFile /\ upgrade \in WalFile /\ backup \in WalFile
    /\ tool \in Tool
    /\ up \in BOOLEAN /\ interrupted \in BOOLEAN /\ short \in BOOLEAN /\ appends \in Nat

\* f begins with the records of the original.
Holds(f) ==
    /\ f.format # "missing"
    /\ Len(Original) <= Len(f.recs)
    /\ \A i \in 1 .. Len(Original) : f.recs[i] = Original[i]

\* As long as readV2 read everything, one of the three files holds every record
\* of the original at every moment, whatever else fails and whenever the tool
\* dies, also when an upgrade is repeated or rolled back: writeV3 truncates its
\* file only while raft.wal is still v2.
RecordsKept == ~short => Holds(wal) \/ Holds(upgrade) \/ Holds(backup)

\* A service that runs has the records, unless readV2 read too little or an
\* upgrade ended between its two renames: that is the only gap of Upgrade.
OnlyGap == up /\ ~short /\ ~interrupted => Holds(wal)

\* A service that runs has the records if readV2 read them.  "a crash
\* mid-upgrade leaves the original file untouched" (walupgrade.go); in the gap
\* raft.wal is missing, and OpenWAL makes a new one.
CrashIsHarmless == up /\ ~short => Holds(wal)

=============================================================================
