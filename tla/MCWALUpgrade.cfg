\* A v2 log of two records; two entries appended afterwards.
CONSTANTS
    r1 = r1
    r2 = r2
    Record = {r1, r2}
    Original <- MCOriginal
    MaxAppends = 2
SPECIFICATION UpgradeSpec
INVARIANTS RecordsKept OnlyGap
CHECK_DEADLOCK FALSE
