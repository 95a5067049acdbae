----------------------------- MODULE Analytics -----------------------------
(***************************************************************************)
(* Key statistics (internal/keys/analytics*.go) as operators on a.stats.   *)
(* Every method runs under a.mu.  Times are counted in queries recorded.   *)
(***************************************************************************)
EXTENDS Integers, FiniteSets, SequencesExt

CONSTANTS Day, Hour, Year       \* thresholds of the anomalies

ASSUME AnalyticsAssumption == {Day, Hour, Year} \subseteq Nat

NoKey == 0
Never == -1

NewAnalytics ==
    [TotalServersObserved |-> 0, TotalKeysObserved |-> 0, TotalKeyRotations |-> 0,
     TotalAnomalies |-> 0, Shortest |-> 0, Longest |-> 0,
     MostActiveServer |-> "none", MostActiveRotations |-> 0, ServerStats |-> <<>>]

ServerAnalytics ==
    [LastSeen |-> Never, KeyCount |-> 0, RotationCount |-> 0, CurrentKeyID |-> NoKey,
     AnomalyCount |-> 0, LastFetchStatus |-> "none"]

\* RecordKeyObservation, the loop over the sorted key ids: a key id other than
\* the current one is a rotation, and an anomaly within a day of the last look.
AfterKeys(entry, keyIDs, elapsed) ==
    FoldLeft(LAMBDA e, id :
                LET rotated == e.CurrentKeyID # NoKey /\ e.CurrentKeyID # id
                    rapid   == rotated /\ elapsed < Day
                IN  [e EXCEPT !.RotationCount = @ + (IF rotated THEN 1 ELSE 0),
                              !.AnomalyCount = @ + (IF rapid THEN 1 ELSE 0),
                              !.CurrentKeyID = id, !.KeyCount = @ + 1],
             entry, keyIDs)

\* RecordKeyObservation: the anomalies of the response as a whole.
ResponseAnomalies(server, resp) ==
    Cardinality({a \in {"short", "long", "multiple", "unsigned"} :
        \/ a = "short" /\ resp.validity < Hour
        \/ a = "long" /\ resp.validity > Year
        \/ a = "multiple" /\ Len(resp.keys) > 1
        \/ a = "unsigned" /\ server \notin resp.signers})

\* Mutant of MostActive: the guard is dropped.
MostActiveLatest(stats, server, entry) ==
    [MostActiveServer |-> server, MostActiveRotations |-> entry.RotationCount]

\* RecordKeyObservation: the server with the most rotations so far.
MostActive(stats, server, entry) ==
    IF entry.RotationCount > stats.MostActiveRotations
    THEN [MostActiveServer |-> server, MostActiveRotations |-> entry.RotationCount]
    ELSE [MostActiveServer |-> stats.MostActiveServer,
          MostActiveRotations |-> stats.MostActiveRotations]

RecordKeyObservation(stats, server, resp, now) ==
    LET known == server \in DOMAIN stats.ServerStats
        old == IF known THEN stats.ServerStats[server] ELSE ServerAnalytics
        elapsed == IF old.LastSeen = Never THEN 0 ELSE now - old.LastSeen
        seen == AfterKeys(old, [i \in DOMAIN resp.keys |-> resp.keys[i].id], elapsed)
        new == [seen EXCEPT !.LastSeen = now, !.LastFetchStatus = "success",
                            !.AnomalyCount = @ + ResponseAnomalies(server, resp)]
    IN  [TotalServersObserved |-> stats.TotalServersObserved + (IF known THEN 0 ELSE 1),
         TotalKeysObserved |-> stats.TotalKeysObserved + new.KeyCount - old.KeyCount,
         TotalKeyRotations |-> stats.TotalKeyRotations + new.RotationCount - old.RotationCount,
         TotalAnomalies |-> stats.TotalAnomalies + new.AnomalyCount - old.AnomalyCount,
         Shortest |-> IF stats.Shortest = 0 THEN resp.validity
                      ELSE Min({stats.Shortest, resp.validity}),
         Longest |-> Max({stats.Longest, resp.validity}),
         ServerStats |-> (server :> new) @@ stats.ServerStats]
        @@ MostActive(stats, server, new)

\* RecordFetchFailure: makes an entry without counting the server.
RecordFetchFailure(stats, server, now) ==
    LET old == IF server \in DOMAIN stats.ServerStats
               THEN stats.ServerStats[server] ELSE ServerAnalytics
    IN  [stats EXCEPT !.ServerStats =
            (server :> [old EXCEPT !.LastSeen = now, !.LastFetchStatus = "failed"]) @@ @]
=============================================================================
