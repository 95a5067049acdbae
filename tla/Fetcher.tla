------------------------------ MODULE Fetcher ------------------------------
(***************************************************************************)
(* FetchServerKeys (internal/keys/fetcher*.go): concurrent fetches behind  *)
(* the circuit breaker and a semaphore, direct attempts with retry, then   *)
(* the fallback notaries.                                                  *)
(*                                                                         *)
(* What comes back from the network is an Answer: a response with the      *)
(* facts the verification looks at, or an error.  A server that is `broken`*)
(* gives any answer, another one a good response.                          *)
(***************************************************************************)
EXTENDS CircuitBreaker

CONSTANTS Caller,           \* goroutines inside FetchServerKeys
          Slots,            \* maxConcurrentFetches
          RetryAttempts,    \* retryAttempts
          Fallbacks,        \* number of fallbackServers
          Pinned,           \* fallbacks with a pinned key, trustedNotaries
          MaxOutages,       \* bound: times a server breaks
          MaxCancels        \* bound: cancelled contexts

ASSUME FetcherAssumption ==
    /\ {Slots, RetryAttempts} \subseteq Nat \ {0}
    /\ {Fallbacks, MaxOutages, MaxCancels} \subseteq Nat
    /\ Pinned \subseteq 1 .. Fallbacks

VARIABLES circuits,     \* cb.servers
          slots,        \* free weight of fetchSem
          fetch,        \* [Caller -> where the goroutine is]
          broken,       \* servers that do not answer properly
          outages, cancels,
          streak,       \* history: failed fetches since the last successful one
          admitted,     \* history: [Server -> requests let in by the current half-open phase]
          abandoned     \* history: servers whose probe ended without a report

envVars  == <<broken, outages, cancels>>
histVars == <<streak, admitted, abandoned>>
vars == <<circuits, slots, fetch, envVars, histVars>>

Idle == [at |-> "idle"]

FetchState ==
    {Idle} \cup [at : {"acquire"}, server : Server, probe : BOOLEAN]
           \cup [at : {"direct"}, server : Server, attempt : 1 .. RetryAttempts]
           \cup [at : {"fallback"}, server : Server, notary : 1 .. Fallbacks]

TypeOK ==
    /\ circuits \in Circuits
    /\ slots \in 0 .. Slots
    /\ fetch \in [Caller -> FetchState]
    /\ broken \subseteq Server /\ abandoned \subseteq Server
    /\ streak \in [Server -> 0 .. FailureThreshold]
    /\ admitted \in [Server -> 0 .. HalfOpenMax + 2]

Init ==
    /\ circuits = NewCircuitBreaker
    /\ slots = Slots
    /\ fetch = [c \in Caller |-> Idle]
    /\ broken = {} /\ outages = 0 /\ cancels = 0
    /\ streak = [s \in Server |-> 0]
    /\ admitted = [s \in Server |-> 0]
    /\ abandoned = {}

-----------------------------------------------------------------------------
(* Answers and their verification.                                         *)

\* A response: is it about the server asked for, unexpired, with a signature of
\* one of the server's keys, current or old, and one of the notary's key?
Response == [error : {"none"}, about : BOOLEAN, fresh : BOOLEAN,
             self : {"none", "bad", "current", "old"}, notary : {"none", "bad", "good"}]
Good == [error |-> "none", about |-> TRUE, fresh |-> TRUE, self |-> "current", notary |-> "good"]

\* "transport": timeouts, DNS and socket errors, a dropped connection;
\* "rejected": a private address, a status other than 200, a body too large or
\* malformed, a server missing from a notary's reply.
Answer == Response \cup [error : {"transport", "rejected"}]

Answers(s) == IF s \in broken THEN Answer ELSE {Good}

verifySelfSignature(r) == r.fresh /\ r.self \in {"current", "old"}

\* Only a pinned notary is checked.
verifyNotarySignature(i, r) == i \in Pinned => r.notary = "good"

\* fetchDirect's checks in their order; IsPermanentError and isRetryableError.
fetchDirect(a) ==
    CASE a.error = "transport" -> "retry"
      [] a.error = "rejected"  -> "fail"
      [] OTHER -> IF a.about /\ verifySelfSignature(a) THEN "ok" ELSE "fail"

fetchFromNotary(i, a) == a.error = "none" /\ a.about /\ verifyNotarySignature(i, a)

-----------------------------------------------------------------------------
(* The steps of FetchServerKeys.                                           *)

At(c, where) == fetch[c].at = where

\* circuitBreaker.Allow.
Call(c, s) ==
    LET probe == Reopening(circuits[s]) \/ ProbeLeft(circuits[s]) IN
    /\ At(c, "idle")
    /\ fetch' = [fetch EXCEPT ![c] = IF Allowed(circuits[s])
                                     THEN [at |-> "acquire", server |-> s, probe |-> probe] ELSE Idle]
    /\ circuits' = [circuits EXCEPT ![s] = AfterAllow(@)]
    /\ admitted' = [admitted EXCEPT ![s] = CASE Reopening(circuits[s]) -> 1
                                             [] ProbeLeft(circuits[s]) /\ @ < HalfOpenMax + 2 -> @ + 1
                                             [] OTHER -> @]
    /\ UNCHANGED <<slots, envVars, streak, abandoned>>

\* fetchSem.Acquire.
Acquire(c) ==
    /\ At(c, "acquire") /\ slots > 0
    /\ slots' = slots - 1
    /\ fetch' = [fetch EXCEPT ![c] = [at |-> "direct", server |-> @.server, attempt |-> 1]]
    /\ UNCHANGED <<circuits, envVars, histVars>>

\* The context ends first: nothing is recorded.
AcquireCancelled(c) ==
    /\ At(c, "acquire") /\ cancels < MaxCancels
    /\ cancels' = cancels + 1
    /\ fetch' = [fetch EXCEPT ![c] = Idle]
    /\ abandoned' = abandoned \cup {s \in {fetch[c].server} : fetch[c].probe}
    /\ UNCHANGED <<circuits, slots, broken, outages, streak, admitted>>

\* Return: RecordSuccess or RecordFailure, and the deferred Release.
Succeed(c) ==
    LET s == fetch[c].server IN
    /\ circuits' = [circuits EXCEPT ![s] = RecordSuccess(@)]
    /\ slots' = slots + 1
    /\ fetch' = [fetch EXCEPT ![c] = Idle]
    /\ streak' = [streak EXCEPT ![s] = 0]
    /\ admitted' = [admitted EXCEPT ![s] = 0] /\ UNCHANGED abandoned

\* Mutant: the slot is not given back on failure.
FailNoRelease(c) ==
    LET s == fetch[c].server IN
    /\ circuits' \in RecordFailure(circuits, s)
    /\ fetch' = [fetch EXCEPT ![c] = Idle]
    /\ streak' = [streak EXCEPT ![s] = IF @ < FailureThreshold THEN @ + 1 ELSE @]
    /\ admitted' = [admitted EXCEPT ![s] = 0] /\ UNCHANGED <<slots, abandoned>>

Fail(c) ==
    LET s == fetch[c].server IN
    /\ circuits' \in RecordFailure(circuits, s)
    /\ slots' = slots + 1
    /\ fetch' = [fetch EXCEPT ![c] = Idle]
    /\ streak' = [streak EXCEPT ![s] = IF @ < FailureThreshold THEN @ + 1 ELSE @]
    /\ admitted' = [admitted EXCEPT ![s] = 0] /\ UNCHANGED abandoned

\* The first fallback is next; without fallbacks the fetch has failed.
ToFallback(c, i) ==
    IF i > Fallbacks THEN Fail(c)
    ELSE /\ fetch' = [fetch EXCEPT ![c] = [at |-> "fallback", server |-> @.server, notary |-> i]]
         /\ UNCHANGED <<circuits, slots, histVars>>

\* One attempt of fetchDirectWithRetry.
FetchDirect(c) ==
    /\ At(c, "direct")
    /\ \E outcome \in {fetchDirect(a) : a \in Answers(fetch[c].server)} :
           CASE outcome = "ok" -> Succeed(c)
             [] outcome = "retry" /\ fetch[c].attempt < RetryAttempts ->
                    /\ fetch' = [fetch EXCEPT ![c].attempt = @ + 1]
                    /\ UNCHANGED <<circuits, slots, histVars>>
             [] OTHER -> ToFallback(c, 1)
    /\ UNCHANGED envVars

\* One fallback notary.  It may have the keys of a server that is down, and may
\* fail for a server that is up.
FetchFromNotary(c) ==
    /\ At(c, "fallback")
    /\ \E ok \in {fetchFromNotary(fetch[c].notary, a) : a \in Answer} :
           IF ok THEN Succeed(c) ELSE ToFallback(c, fetch[c].notary + 1)
    /\ UNCHANGED envVars

\* The context ends during the fetch: every further request fails at once, and
\* the failure is recorded against the server.
FetchCancelled(c) ==
    /\ fetch[c].at \in {"direct", "fallback"} /\ cancels < MaxCancels
    /\ cancels' = cancels + 1
    /\ Fail(c)
    /\ UNCHANGED <<broken, outages>>

-----------------------------------------------------------------------------
(* The environment.                                                        *)

Break(s) ==
    /\ s \notin broken /\ outages < MaxOutages
    /\ broken' = broken \cup {s} /\ outages' = outages + 1
    /\ UNCHANGED <<circuits, slots, fetch, cancels, histVars>>

Repair(s) ==
    /\ broken' = broken \ {s} /\ s \in broken
    /\ UNCHANGED <<circuits, slots, fetch, outages, cancels, histVars>>

Tick ==
    /\ circuits' = Aged(circuits)
    /\ UNCHANGED <<slots, fetch, envVars, histVars>>

\* Stats, called by the admin endpoint.
Stats ==
    /\ circuits' = cleanup(circuits)
    /\ UNCHANGED <<slots, fetch, envVars, histVars>>

Next ==
    \/ \E c \in Caller : \/ \E s \in Server : Call(c, s)
                         \/ Acquire(c) \/ AcquireCancelled(c)
                         \/ FetchDirect(c) \/ FetchFromNotary(c) \/ FetchCancelled(c)
    \/ \E s \in Server : Break(s) \/ Repair(s)
    \/ Tick \/ Stats

Spec == Init /\ [][Next]_vars

\* The semaphore serves its waiters in order; requests have timeouts; time
\* passes.  Nobody has to ask.
Fairness ==
    /\ \A c \in Caller : SF_vars(Acquire(c)) /\ WF_vars(FetchDirect(c)) /\ WF_vars(FetchFromNotary(c))
    /\ WF_vars(Tick)

FairSpec == Spec /\ Fairness

\* Somebody keeps asking for each server.
Demand == \A s \in Server : SF_vars(\E c \in Caller : Call(c, s))

BusySpec == FairSpec /\ Demand

-----------------------------------------------------------------------------
(* Properties.                                                             *)

\* A closed circuit opens only after FailureThreshold failed fetches with no
\* successful one among them, whatever fetches overlap.
TripsEarned ==
    [][\A s \in Server :
          circuits[s].state \in {"none", "closed"} /\ circuits'[s].state = "open"
              => streak'[s] >= FailureThreshold]_vars

\* A half-open phase lets in the request that began it and HalfOpenMax more,
\* and no further one however those end.
ProbesBounded ==
    \A s \in Server : circuits[s].state = "halfOpen" => admitted[s] <= HalfOpenMax + 1

\* Every fetch returns: the semaphore is given back on every path.
FetchReturns == \A c \in Caller : ~At(c, "idle") ~> At(c, "idle")

\* A server that works for good does not stay locked out as long as somebody
\* asks for it, unless a probe was let in and ended at the semaphore without
\* reporting: its slot of the half-open phase is never freed.
Recovers ==
    \A s \in Server :
        <>[](s \notin broken) => []<>(circuits[s].state \in {"none", "closed"} \/ s \in abandoned)

=============================================================================
