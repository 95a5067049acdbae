--------------------------- MODULE CircuitBreaker ---------------------------
(***************************************************************************)
(* The per-server circuit breaker of the fetcher                           *)
(* (internal/keys/circuitbreaker.go).  Its operations run under cb.mu, so  *)
(* each is a function from the old map of circuits to the new one.         *)
(*                                                                         *)
(* Times are kept as ages: `sinceFailure` is now - lastFailure, counted in *)
(* ticks up to one past the duration it is compared with.                  *)
(***************************************************************************)
EXTENDS Integers, FiniteSets

CONSTANTS Server,
          FailureThreshold,   \* failureThreshold
          ResetTimeout,       \* resetTimeout
          HalfOpenMax,        \* halfOpenMax
          ServerTTL,          \* serverTTL
          MaxTracked          \* maxTracked

ASSUME BreakerAssumption ==
    /\ {FailureThreshold, ResetTimeout, HalfOpenMax, MaxTracked} \subseteq Nat \ {0}
    /\ ServerTTL \in Nat /\ ServerTTL >= ResetTimeout

\* serverCircuit; an absent server is `None`.
Circuit == [state : {"closed", "open", "halfOpen"}, failures : 0 .. FailureThreshold,
            sinceFailure : 0 .. ResetTimeout + 1, sinceTouched : 0 .. ServerTTL + 1,
            halfOpenReqs : 0 .. HalfOpenMax]
None == [state |-> "none", failures |-> 0, sinceFailure |-> 0, sinceTouched |-> 0, halfOpenReqs |-> 0]
Circuits == [Server -> Circuit \cup {None}]

\* NewCircuitBreaker.
NewCircuitBreaker == [s \in Server |-> None]

Tracked(cs) == {s \in Server : cs[s] # None}

\* isExpiredLocked.
isExpired(c) == c # None /\ c.sinceTouched > ServerTTL

\* cleanupLocked; Stats begins with it.
cleanup(cs) == [s \in Server |-> IF isExpired(cs[s]) THEN None ELSE cs[s]]

\* evictOldestLocked: one of the circuits untouched for longest.
Oldest(cs) == {s \in Tracked(cs) : \A t \in Tracked(cs) : cs[t].sinceTouched <= cs[s].sinceTouched}

-----------------------------------------------------------------------------
(* Allow: the answer, and what it does to the server's circuit.            *)

\* An open circuit becomes half-open; this request is not counted.
Reopening(c) == c.state = "open" /\ c.sinceFailure > ResetTimeout

\* A half-open circuit has a request left.
ProbeLeft(c) == c.state = "halfOpen" /\ c.halfOpenReqs < HalfOpenMax

Allowed(c) ==
    c = None \/ isExpired(c) \/ c.state = "closed" \/ Reopening(c) \/ ProbeLeft(c)

\* Mutant: the probe is not counted.
AfterAllowUncounted(c) ==
    IF c = None \/ isExpired(c) THEN None
    ELSE [c EXCEPT !.sinceTouched = 0,
                   !.state = IF Reopening(c) THEN "halfOpen" ELSE @,
                   !.halfOpenReqs = IF Reopening(c) THEN 0 ELSE @]

\* Mutant: a request that is turned away starts the reset timeout anew.
AfterAllowRearmed(c) ==
    IF c = None \/ isExpired(c) THEN None
    ELSE [c EXCEPT !.sinceTouched = 0,
                   !.sinceFailure = IF Allowed(c) THEN @ ELSE 0,
                   !.state = IF Reopening(c) THEN "halfOpen" ELSE @,
                   !.halfOpenReqs = CASE Reopening(c) -> 0
                                      [] ProbeLeft(c) -> @ + 1
                                      [] OTHER -> @]

AfterAllow(c) ==
    IF c = None \/ isExpired(c) THEN None
    ELSE [c EXCEPT !.sinceTouched = 0,
                   !.state = IF Reopening(c) THEN "halfOpen" ELSE @,
                   !.halfOpenReqs = CASE Reopening(c) -> 0
                                      [] ProbeLeft(c) -> @ + 1
                                      [] OTHER -> @]

-----------------------------------------------------------------------------
(* RecordSuccess and RecordFailure.                                        *)

\* Mutant: a success in a closed circuit leaves the count.
RecordSuccessKeepsCount(c) ==
    CASE c.state = "halfOpen" -> [c EXCEPT !.sinceTouched = 0, !.state = "closed",
                                           !.failures = 0, !.halfOpenReqs = 0]
      [] c.state \in {"open", "closed"} -> [c EXCEPT !.sinceTouched = 0]
      [] OTHER -> None

RecordSuccess(c) ==
    CASE c.state = "halfOpen" -> [c EXCEPT !.sinceTouched = 0, !.state = "closed",
                                           !.failures = 0, !.halfOpenReqs = 0]
      [] c.state = "closed"   -> [c EXCEPT !.sinceTouched = 0, !.failures = 0]
      [] c.state = "open"     -> [c EXCEPT !.sinceTouched = 0]
      [] OTHER -> None

\* The circuit after one more failure.  `failures` is only compared with the
\* threshold, and need not be counted beyond it.
Failed(c) ==
    LET n == IF c.failures < FailureThreshold THEN c.failures + 1 ELSE c.failures
    IN  [state |-> IF c.state \in {"open", "halfOpen"} \/ n >= FailureThreshold
                   THEN "open" ELSE "closed",
         failures |-> n, sinceFailure |-> 0, sinceTouched |-> 0,
         halfOpenReqs |-> c.halfOpenReqs]

\* The possible maps after RecordFailure(s): expired circuits go, and if s is
\* new and the map full, an oldest one.
RecordFailure(cs, s) ==
    LET kept == cleanup(cs)
    IN  IF kept[s] = None /\ Cardinality(Tracked(kept)) >= MaxTracked
        THEN {[kept EXCEPT ![o] = None, ![s] = Failed(None)] : o \in Oldest(kept)}
        ELSE {[kept EXCEPT ![s] = Failed(@)]}

-----------------------------------------------------------------------------
\* A tick of the clock.
Older(age, limit) == IF age > limit THEN age ELSE age + 1

Aged(cs) ==
    [s \in Server |->
        IF cs[s] = None THEN None
        ELSE [cs[s] EXCEPT !.sinceFailure = Older(@, ResetTimeout),
                           !.sinceTouched = Older(@, ServerTTL)]]

=============================================================================
