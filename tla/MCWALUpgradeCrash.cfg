\* A v2 log of two records; the tool dies between its renames.
CONSTANTS
    r1 = r1
    r2 = r2
    Record = {r1, r2}
    Original <- MCOriginal
    MaxAppends = 2
SPECIFICATION UpgradeSpec
INVARIANTS CrashIsHarmless
CHECK_DEADLOCK FALSE
