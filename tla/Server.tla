------------------------------- MODULE Server -------------------------------
(***************************************************************************)
(* The life of mxkeys processes that share a database behind a load        *)
(* balancer: schema migrations (internal/storage/migrations), the signing  *)
(* key on disk (internal/keys/keyprovider), serving, and the graceful      *)
(* shutdown (internal/server, cmd/mxkeys).                                 *)
(*                                                                         *)
(* A supervisor starts a process again whenever it has ended.  Time passes *)
(* with Tick; waiting times count down.                                    *)
(***************************************************************************)
EXTENDS Integers, FiniteSets, Sequences

CONSTANTS Proc,
          Migrations,       \* number of embedded migrations; versions are 1 .. Migrations
          ProbeEvery,       \* interval of the load balancer's readiness probe
          Predrain,         \* predrain_delay
          DrainTimeout,     \* shutdown_timeout
          MaxSignals, MaxCrashes, MaxFailures, MaxReconfigs     \* bounds

\* The operator sets predrain_delay to more than the interval of the probe.
ASSUME ServerAssumption ==
    /\ {Migrations, ProbeEvery, Predrain, DrainTimeout} \subseteq Nat \ {0}
    /\ ProbeEvery < Predrain
    /\ {MaxSignals, MaxCrashes, MaxFailures, MaxReconfigs} \subseteq Nat

VARIABLES
    executed,   \* the migrations committed, in the order of their commits
    proc,       \* [Proc -> [at, known, timer, key]]: where the process is
    files,      \* [Proc -> [plain, enc]]: the key files, NoKey if absent
    encrypted,  \* [Proc -> is a passphrase configured?]
    fresh,      \* [Proc -> keys generated so far]
    used,       \* [Proc -> the keys it has signed with]
    passedOver, \* [Proc -> has it passed over an encrypted key that it could not Stat?]
    requests,   \* [Proc -> is a request in flight?]
    view,       \* [Proc -> what the last probe saw: ready?]
    probeIn,    \* time until the next round of probes
    refused,    \* a request was sent to a process that shuts down and found it closed
    aborted,    \* the database was closed under a request before the drain timed out
    signals, crashes, failures, reconfigs

keyVars == <<files, encrypted, fresh, used, passedOver>>
lbVars == <<requests, view, probeIn, refused, aborted>>
boundVars == <<signals, crashes, failures, reconfigs>>
vars == <<executed, proc, keyVars, lbVars, boundVars>>

NoKey == 0
Down == [at |-> "down", known |-> {}, timer |-> 0, key |-> NoKey]

\* at: down; in New: migrating, tx (a transaction holds the next version), renaming
\* (a key is in the temporary file), scrubbing (the legacy file); running; predrain,
\* draining, closing; failed (ended without a graceful shutdown).
Versions == 1 .. Migrations
Place == {"down", "migrating", "tx", "renaming", "scrubbing", "running", "predrain", "draining", "closing", "failed"}
Listening == {"running", "predrain"}
ProcState == [at : Place, known : SUBSET Versions, timer : Nat, key : Nat]

TypeOK ==
    /\ executed \in Seq(Versions)
    /\ proc \in [Proc -> ProcState]
    /\ files \in [Proc -> [plain : Nat, enc : Nat]] /\ encrypted \in [Proc -> BOOLEAN]
    /\ fresh \in [Proc -> Nat] /\ used \in [Proc -> SUBSET Nat]
    /\ passedOver \in [Proc -> BOOLEAN]
    /\ requests \in [Proc -> BOOLEAN] /\ view \in [Proc -> BOOLEAN]
    /\ probeIn \in 0 .. ProbeEvery /\ refused \in BOOLEAN /\ aborted \in BOOLEAN

Init ==
    /\ executed = <<>>
    /\ proc = [p \in Proc |-> Down]
    /\ files = [p \in Proc |-> [plain |-> NoKey, enc |-> NoKey]]
    /\ encrypted \in [Proc -> BOOLEAN]
    /\ fresh = [p \in Proc |-> 0] /\ used = [p \in Proc |-> {}]
    /\ passedOver = [p \in Proc |-> FALSE]
    /\ requests = [p \in Proc |-> FALSE] /\ view = [p \in Proc |-> FALSE]
    /\ probeIn = ProbeEvery
    /\ refused = FALSE /\ aborted = FALSE
    /\ signals = 0 /\ crashes = 0 /\ failures = 0 /\ reconfigs = 0

Go(p, place) == proc' = [proc EXCEPT ![p].at = place]
Exit(p, how) == proc' = [proc EXCEPT ![p] = [Down EXCEPT !.at = how]]

-----------------------------------------------------------------------------
\* loadApplied: the versions in the bookkeeping table.
Applied == {executed[i] : i \in DOMAIN executed}

\* Mutant of LoadApplied: the rows are not read.
LoadAppliedNothing(p) ==
    /\ proc[p].at \in {"down", "failed"}
    /\ Go(p, "migrating")
    /\ UNCHANGED <<executed, keyVars, lbVars, boundVars>>

\* The process starts: New reaches the database, and Apply creates the bookkeeping
\* table and reads the versions in it.
LoadApplied(p) ==
    /\ proc[p].at \in {"down", "failed"}
    /\ proc' = [proc EXCEPT ![p].at = "migrating", ![p].known = Applied]
    /\ UNCHANGED <<executed, keyVars, lbVars, boundVars>>

Pending(p) == Versions \ proc[p].known
NextVersion(p) == CHOOSE v \in Pending(p) : \A w \in Pending(p) : v <= w
InTx(p, v) == proc[p].at = "tx" /\ NextVersion(p) = v

\* Mutant of ApplyBegins: the version row has no primary key.
ApplyBeginsUnkeyed(p) ==
    /\ proc[p].at = "migrating" /\ Pending(p) # {}
    /\ Go(p, "tx")
    /\ UNCHANGED <<executed, keyVars, lbVars, boundVars>>

\* apply: begin, body, INSERT of the version.  The primary key makes the INSERT
\* wait for another transaction with the same version, and fail if that has
\* committed: Apply returns the error and the process ends.
ApplyBegins(p) ==
    /\ proc[p].at = "migrating" /\ Pending(p) # {}
    /\ \A q \in Proc \ {p} : ~InTx(q, NextVersion(p))
    /\ IF NextVersion(p) \in Applied THEN Exit(p, "failed") ELSE Go(p, "tx")
    /\ UNCHANGED <<executed, keyVars, lbVars, boundVars>>

ApplyCommits(p) ==
    /\ proc[p].at = "tx"
    /\ executed' = Append(executed, NextVersion(p))
    /\ proc' = [proc EXCEPT ![p].at = "migrating", ![p].known = @ \cup {NextVersion(p)}]
    /\ UNCHANGED <<keyVars, lbVars, boundVars>>

\* A statement of New fails: an open transaction is rolled back.
StartFails(p) ==
    /\ proc[p].at \in {"migrating", "tx", "renaming"}
    /\ failures < MaxFailures
    /\ failures' = failures + 1
    /\ Exit(p, "failed")
    /\ UNCHANGED <<executed, keyVars, lbVars, signals, crashes, reconfigs>>

Migrated(p) == proc[p].at = "migrating" /\ Pending(p) = {}

-----------------------------------------------------------------------------
\* install, and the rest of New and Run: the process serves and signs.
Serve(p, key) ==
    /\ proc' = [proc EXCEPT ![p].at = "running", ![p].key = key]
    /\ used' = [used EXCEPT ![p] = @ \cup {key}]

\* Mutant of Refuses: an encrypted key does not matter without a passphrase.
RefusesNever(p) == FALSE

\* LoadOrGenerate without a passphrase: an encrypted key must not be passed over.
Refuses(p) == ~encrypted[p] /\ files[p].enc # NoKey

\* LoadOrGenerate: the key of the preferred file.
LoadKey(p) ==
    /\ Migrated(p)
    /\ \/ /\ Refuses(p)
          /\ Exit(p, "failed") /\ UNCHANGED used
       \/ /\ ~Refuses(p) /\ encrypted[p] /\ files[p].enc # NoKey
          /\ Serve(p, files[p].enc)
       \/ /\ ~Refuses(p) /\ ~encrypted[p] /\ files[p].plain # NoKey
          /\ Serve(p, files[p].plain)
    /\ UNCHANGED <<executed, files, encrypted, fresh, passedOver, lbVars, boundVars>>

\* LoadOrGenerate finds no such file: the legacy key, or a new one, is written to
\* a temporary file.
PrepareKey(p) ==
    /\ Migrated(p) /\ ~Refuses(p)
    /\ IF encrypted[p] THEN files[p].enc = NoKey ELSE files[p].plain = NoKey
    /\ IF encrypted[p] /\ files[p].plain # NoKey
       THEN /\ proc' = [proc EXCEPT ![p].at = "renaming", ![p].key = files[p].plain]
            /\ UNCHANGED fresh
       ELSE /\ proc' = [proc EXCEPT ![p].at = "renaming", ![p].key = fresh[p] + 1]
            /\ fresh' = [fresh EXCEPT ![p] = @ + 1]
    /\ UNCHANGED <<executed, files, encrypted, used, passedOver, lbVars, boundVars>>

\* LoadOrGenerate without a passphrase looks only for the success of os.Stat: when
\* that fails although the encrypted key is there, the key is passed over for the
\* one in the other file, or for a new one.
PassOver(p) ==
    /\ Migrated(p) /\ Refuses(p) /\ failures < MaxFailures
    /\ failures' = failures + 1
    /\ passedOver' = [passedOver EXCEPT ![p] = TRUE]
    /\ \/ /\ files[p].plain # NoKey
          /\ Serve(p, files[p].plain) /\ UNCHANGED fresh
       \/ /\ files[p].plain = NoKey
          /\ proc' = [proc EXCEPT ![p].at = "renaming", ![p].key = fresh[p] + 1]
          /\ fresh' = [fresh EXCEPT ![p] = @ + 1]
          /\ UNCHANGED used
    /\ UNCHANGED <<executed, files, encrypted, lbVars, signals, crashes, reconfigs>>

\* writeAtomic: the rename.
RenameKey(p) ==
    /\ proc[p].at = "renaming"
    /\ files' = IF encrypted[p] THEN [files EXCEPT ![p].enc = proc[p].key]
                                ELSE [files EXCEPT ![p].plain = proc[p].key]
    /\ Go(p, "scrubbing")
    /\ UNCHANGED <<executed, encrypted, fresh, used, passedOver, lbVars, boundVars>>

\* The legacy file is removed, best effort, and the key installed.
ScrubLegacy(p) ==
    /\ proc[p].at = "scrubbing"
    /\ \/ /\ files' = [files EXCEPT ![p].plain = IF encrypted[p] THEN NoKey ELSE @]
          /\ UNCHANGED failures
       \/ /\ encrypted[p] /\ files[p].plain # NoKey /\ failures < MaxFailures
          /\ failures' = failures + 1 /\ UNCHANGED files
    /\ Serve(p, proc[p].key)
    /\ UNCHANGED <<executed, encrypted, fresh, passedOver, lbVars, signals, crashes, reconfigs>>

\* The operator sets or unsets the passphrase of a process that is down.
Reconfigure(p) ==
    /\ proc[p].at \in {"down", "failed"} /\ reconfigs < MaxReconfigs
    /\ encrypted' = [encrypted EXCEPT ![p] = ~@]
    /\ reconfigs' = reconfigs + 1
    /\ UNCHANGED <<executed, proc, files, fresh, used, passedOver, lbVars, signals, crashes, failures>>

-----------------------------------------------------------------------------
\* Mutant of Ready: readiness keeps saying ready during the predrain delay.
ReadyWhileListening(p) == proc[p].at \in Listening

\* handleReadiness: the shuttingDown flag is looked at first.
Ready(p) == proc[p].at = "running"

\* The first SIGTERM: ctx is cancelled, gracefulShutdown sets shuttingDown and
\* sleeps.
Signal(p) ==
    /\ proc[p].at = "running" /\ signals < MaxSignals
    /\ signals' = signals + 1
    /\ proc' = [proc EXCEPT ![p].at = "predrain", ![p].timer = Predrain]
    /\ UNCHANGED <<executed, keyVars, lbVars, crashes, failures, reconfigs>>

\* srv.Shutdown closes the listener and waits for the requests.
Drain(p) ==
    /\ proc[p].at = "predrain" /\ proc[p].timer = 0
    /\ proc' = [proc EXCEPT ![p].at = "draining", ![p].timer = DrainTimeout]
    /\ UNCHANGED <<executed, keyVars, lbVars, boundVars>>

\* Mutant of Drained: the subsystems are stopped without waiting for requests.
DrainedAtOnce(p) ==
    /\ proc[p].at = "draining"
    /\ Go(p, "closing")
    /\ UNCHANGED <<executed, keyVars, lbVars, boundVars>>

\* Mutant of Drained: srv.Shutdown gets a context without a deadline.
DrainedNoDeadline(p) ==
    /\ proc[p].at = "draining"
    /\ ~requests[p]
    /\ Go(p, "closing")
    /\ UNCHANGED <<executed, keyVars, lbVars, boundVars>>

\* srv.Shutdown returns: all requests are done, or the timeout has passed.
\* Rate limiter, cluster and notary are stopped.
Drained(p) ==
    /\ proc[p].at = "draining"
    /\ ~requests[p] \/ proc[p].timer = 0
    /\ Go(p, "closing")
    /\ UNCHANGED <<executed, keyVars, lbVars, boundVars>>

\* The database is closed, Run returns and the process ends.
CloseDatabase(p) ==
    /\ proc[p].at = "closing"
    /\ aborted' = (aborted \/ (requests[p] /\ proc[p].timer > 0))
    /\ requests' = [requests EXCEPT ![p] = FALSE]
    /\ Exit(p, "down")
    /\ UNCHANGED <<executed, keyVars, view, probeIn, refused, boundVars>>

\* The process dies, also by a second signal or because the listener failed.
Crash(p) ==
    /\ proc[p].at \notin {"down", "failed"} /\ crashes < MaxCrashes
    /\ crashes' = crashes + 1
    /\ Exit(p, "failed")
    /\ requests' = [requests EXCEPT ![p] = FALSE]
    /\ UNCHANGED <<executed, keyVars, view, probeIn, refused, aborted, signals, failures, reconfigs>>

-----------------------------------------------------------------------------
\* The load balancer asks every process for /_mxkeys/ready.
Probe ==
    /\ probeIn = 0
    /\ probeIn' = ProbeEvery
    /\ view' = [p \in Proc |-> Ready(p)]
    /\ UNCHANGED <<executed, proc, keyVars, requests, refused, aborted, boundVars>>

\* It sends a request to a process that it takes to be ready.  A process that
\* failed, or is starting again after that, is not the concern of the shutdown.
Route(p) ==
    /\ view[p] /\ ~requests[p]
    /\ IF proc[p].at \in Listening THEN requests' = [requests EXCEPT ![p] = TRUE] /\ UNCHANGED refused
       ELSE refused' = (refused \/ proc[p].at \in {"draining", "closing", "down"}) /\ UNCHANGED requests
    /\ UNCHANGED <<executed, proc, keyVars, view, probeIn, aborted, boundVars>>

\* A handler returns.  It may also take longer than any timeout.
Respond(p) ==
    /\ requests[p]
    /\ requests' = [requests EXCEPT ![p] = FALSE]
    /\ UNCHANGED <<executed, proc, keyVars, view, probeIn, refused, aborted, boundVars>>

Tick ==
    /\ probeIn > 0
    /\ probeIn' = probeIn - 1
    /\ proc' = [p \in Proc |-> [proc[p] EXCEPT !.timer = IF @ > 0 THEN @ - 1 ELSE 0]]
    /\ UNCHANGED <<executed, keyVars, requests, view, refused, aborted, boundVars>>

Starting(p) ==
    \/ LoadApplied(p) \/ ApplyBegins(p) \/ ApplyCommits(p)
    \/ LoadKey(p) \/ PrepareKey(p) \/ RenameKey(p) \/ ScrubLegacy(p)
Stopping(p) == Drain(p) \/ Drained(p) \/ CloseDatabase(p)

Next ==
    \/ \E p \in Proc :
          \/ Starting(p) \/ StartFails(p) \/ PassOver(p) \/ Reconfigure(p)
          \/ Signal(p) \/ Stopping(p) \/ Crash(p)
          \/ Route(p) \/ Respond(p)
    \/ Probe \/ Tick

Spec == Init /\ [][Next]_vars

\* A process that can go on does; the supervisor restarts it; probes and time go
\* on.  Nothing makes a handler return.
FairSpec ==
    /\ Spec
    /\ \A p \in Proc : WF_vars(Starting(p)) /\ WF_vars(Stopping(p))
    /\ WF_vars(Probe) /\ WF_vars(Tick)

-----------------------------------------------------------------------------
\* Migrations commit in the order of their versions, each once, whoever runs
\* them and whenever a process dies: Apply takes no lock between reading the
\* applied versions and applying the rest.
SchemaInOrder == \A i \in DOMAIN executed : executed[i] = i

\* A process never signs with a second key: not after a crash between the
\* generation and the rename, nor when the passphrase is set or forgotten, nor
\* when the legacy file could not be removed.  The one way to a second key is an
\* encrypted key that os.Stat fails to see while no passphrase is configured.
IdentityKept == \A p \in Proc : passedOver[p] \/ Cardinality(used[p]) <= 1

\* No request that the load balancer sends during a graceful shutdown finds the
\* listener closed: readiness fails for long enough before the drain.
NoRequestRefused == ~refused

\* The database is closed last: a request in flight sees it closed only after
\* the drain timed out.
NoRequestAborted == ~aborted

\* A signalled process ends, whether or not its requests do.
ShutdownCompletes ==
    \A p \in Proc : proc[p].at = "predrain" ~> proc[p].at \in {"down", "failed"}

\* With crashes, failures and reconfigurations at an end, every process comes to
\* serve on the full schema, although two of them may get into each other's way
\* in Apply; except one whose key is encrypted and that has no passphrase.
AllServe ==
    <>[](\A p \in Proc : Refuses(p) \/ (proc[p].at = "running" /\ Len(executed) = Migrations))
=============================================================================
