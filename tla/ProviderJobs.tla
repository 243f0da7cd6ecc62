----------------------------- MODULE ProviderJobs -----------------------------
(***************************************************************************)
(* Durable provider jobs: marketcowd's DurableJobCoordinator over the job  *)
(* engine, its PostgreSQL rows, the worker socket protocol, the staging    *)
(* and artifact files, and the Python workers.                             *)
(*                                                                         *)
(* Every coordinator operation holds the engine mutex across its database  *)
(* call, so an operation is one step.  The time it works with was read     *)
(* before it queued for the mutex: a worker request carries the time at    *)
(* which it arrived.  The repository owns one connection and never         *)
(* reconnects: a lost connection leaves the outcome of the statement in    *)
(* doubt and fails every later statement until the daemon restarts.        *)
(***************************************************************************)
EXTENDS JobEngine

CONSTANTS
  MaxClock,       \* bound of the model clock
  Deadlines,      \* absolute deadlines clients ask for
  Capabilities,   \* job types each worker offers in its handshake
  Disconnects     \* whether an HTTP client may abandon a request midway

ASSUME ClockAssumption ==
  /\ MaxClock \in Nat
  /\ Deadlines \subseteq Nat
  /\ Capabilities \in [Workers -> SUBSET JobTypes]
  /\ Disconnects \in BOOLEAN

VARIABLES
  clock,       \* UTC time
  proc,        \* the daemon: "up" or "down"
  conn,        \* its PostgreSQL connection: "open" or "closed"
  engine,      \* the in-memory job engine
  db,          \* the provider_job rows
  manifest,    \* raw_artifact_manifest: the job that registered an artifact
  files,       \* artifact store: the content found at each artifact's path
  staging,     \* staging/<job>/result.json
  worker,      \* the workers, with the request each has in flight
  dispatched   \* history: tasks handed out per job

store == <<db, manifest, conn>>
disk  == <<files, staging>>
vars  == <<clock, proc, conn, engine, db, manifest, files, staging, worker,
           dispatched>>

(* A target path and an artifact id are both functions of the job type,    *)
(* the request schema and the SHA-256 of the content.                      *)
Artifacts == JobTypes \X Contents

WorkerPc == {"idle", "poll", "tasked", "start", "working", "written",
             "complete", "authorized", "verified", "promoted", "fail",
             "orphan"}

WorkerState == [pc: WorkerPc, at: Nat, job: JobIds \cup {None},
                token: Tokens \cup {None}, content: Contents \cup {None}]

IdleWorker == [pc |-> "idle", at |-> 0, job |-> None, token |-> None,
               content |-> None]

NoJobs == [j \in JobIds |-> NoJob]

TypeOK ==
  /\ clock \in 0..MaxClock
  /\ proc \in {"up", "down"}
  /\ conn \in {"open", "closed"}
  /\ engine \in Engine
  /\ db \in Engine
  /\ manifest \in [Artifacts -> JobIds \cup {None}]
  /\ files \in [Artifacts -> Contents \cup {None}]
  /\ staging \in [JobIds -> Contents \cup {None}]
  /\ worker \in [Workers -> WorkerState]
  /\ dispatched \in [JobIds -> Nat]

Init ==
  /\ clock = 0
  /\ proc = "up"
  /\ conn = "open"
  /\ engine = NoJobs
  /\ db = NoJobs
  /\ manifest = [a \in Artifacts |-> None]
  /\ files = [a \in Artifacts |-> None]
  /\ staging = [j \in JobIds |-> None]
  /\ worker = [w \in Workers |-> IdleWorker]
  /\ dispatched = [j \in JobIds |-> 0]

-----------------------------------------------------------------------------
(* Persistence.  before and after are the engine values around a change,   *)
(* rows the table the statement meets.                                     *)

Changed(before, after) == {j \in JobIds : after[j] # before[j]}

(* compare_and_swap(_many): every changed row must carry the revision the  *)
(* engine had, or the transaction rolls back.                              *)
CasMatches(rows, before, after) ==
  \A j \in Changed(before, after) :
    rows[j] # NoJob /\ rows[j].revision = before[j].revision

CasRows(rows, before, after) ==
  [j \in JobIds |-> IF after[j] # before[j] THEN after[j] ELSE rows[j]]

(* An empty change set never reaches the database.                         *)
Persisted(rows, before, after) ==
  \/ Changed(before, after) = {}
  \/ conn = "open" /\ CasMatches(rows, before, after)

(* The statement fails and the engine rolls back to before: rejected with  *)
(* the connection intact (or already closed), or the connection is lost    *)
(* with the statement unapplied or applied.                                *)
PersistFails(rows, before, after) ==
  /\ Changed(before, after) # {}
  /\ engine' = before
  /\ UNCHANGED manifest
  /\ \/ db' = rows /\ UNCHANGED conn
     \/ conn = "open" /\ conn' = "closed" /\ db' = rows
     \/ /\ conn = "open" /\ conn' = "closed"
        /\ CasMatches(rows, before, after)
        /\ db' = CasRows(rows, before, after)

(* persist_single_or_rollback of job j becoming new; ok says whether the   *)
(* caller saw it succeed.                                                  *)
Save(j, new, ok) ==
  LET after == [engine EXCEPT ![j] = new]
  IN \/ /\ ok
        /\ Persisted(db, engine, after)
        /\ engine' = after
        /\ db' = CasRows(db, engine, after)
        /\ UNCHANGED <<conn, manifest>>
     \/ ~ok /\ PersistFails(db, engine, after)

-----------------------------------------------------------------------------
(* Administration.                                                         *)

\* Mutant: a finished job gives up its key.
KeyTakenWhileOpen(e, key) ==
  \E j \in Present(e) : e[j].key = key /\ e[j].status \notin Terminal

KeyTaken(e, key) == \E j \in Present(e) : e[j].key = key

(* engine.submit under a free key: a fresh id and a pending job.           *)
SubmittedNew(j, key, request, deadline, max) ==
  /\ deadline > clock
  /\ ~KeyTaken(engine, key)
  /\ engine[j] = NoJob /\ db[j] = NoJob

(* engine.submit under a known key with an equal request: the same job.    *)
SubmittedAgain(j, key, request, deadline) ==
  /\ deadline > clock
  /\ engine[j] # NoJob /\ engine[j].key = key /\ engine[j].request = request

(* insert_or_get: the row already stored under the key wins.               *)
StoredUnder(j, candidate) ==
  IF KeyTaken(db, candidate.key)
  THEN CHOOSE k \in Present(db) : db[k].key = candidate.key
  ELSE j

InsertRow(j, candidate) ==
  IF KeyTaken(db, candidate.key) THEN db ELSE [db EXCEPT ![j] = candidate]

(* replace_recovered of the stored row into the engine holding candidate.  *)
Replaceable(j, candidate, k, stored) ==
  /\ ValidRecoveredJob(stored)
  /\ k = j
  /\ stored.revision >= candidate.revision

SubmitCandidate(j, candidate) ==
  /\ UNCHANGED manifest
  /\ \/ /\ conn = "open"
        /\ db' = InsertRow(j, candidate)
        /\ UNCHANGED conn
        /\ LET k == StoredUnder(j, candidate)
               stored == InsertRow(j, candidate)[k]
           IN engine' = IF /\ stored.request = candidate.request
                           /\ Replaceable(j, candidate, k, stored)
                        THEN [engine EXCEPT ![j] = stored]
                        ELSE engine
     \/ \* rejected, or the connection is lost before or after the commit
        /\ UNCHANGED engine
        /\ \/ UNCHANGED <<db, conn>>
           \/ conn = "open" /\ conn' = "closed" /\ UNCHANGED db
           \/ conn = "open" /\ conn' = "closed" /\ db' = InsertRow(j, candidate)
     \/ \* the client disconnects: the handler is dropped at its await, the
        \* engine keeps the candidate, the insert is committed or not
        /\ Disconnects /\ conn = "open"
        /\ engine' = [engine EXCEPT ![j] = candidate]
        /\ UNCHANGED conn
        /\ db' \in {db, InsertRow(j, candidate)}

Submit(j, key, request, deadline, max) ==
  /\ proc = "up"
  /\ \/ /\ SubmittedNew(j, key, request, deadline, max)
        /\ SubmitCandidate(j, NewJob(key, request, deadline, max, clock))
     \/ /\ SubmittedAgain(j, key, request, deadline)
        /\ SubmitCandidate(j, engine[j])
  /\ UNCHANGED <<clock, proc, disk, worker, dispatched>>

Cancel(j) ==
  /\ proc = "up"
  /\ engine[j] # NoJob /\ Cancelable(engine[j])
  /\ \/ \E ok \in BOOLEAN : Save(j, CancelJob(engine[j]), ok)
     \/ LET after == [engine EXCEPT ![j] = CancelJob(engine[j])]
        IN /\ Disconnects /\ conn = "open"
           /\ engine' = after
           /\ \/ UNCHANGED db
              \/ CasMatches(db, engine, after) /\ db' = CasRows(db, engine, after)
           /\ UNCHANGED <<conn, manifest>>
  /\ UNCHANGED <<clock, proc, disk, worker, dispatched>>

-----------------------------------------------------------------------------
(* The worker protocol.  A request records its arrival time; its handler   *)
(* runs when it gets the engine mutex.  Any error closes the connection,   *)
(* which ends the worker process; the supervisor starts a new one.         *)

Send(w, from, to) ==
  /\ worker[w].pc = from
  /\ worker' = [worker EXCEPT ![w].pc = to, ![w].at = clock]

Goto(w, to) == worker' = [worker EXCEPT ![w].pc = to]

Close(w) == worker' = [worker EXCEPT ![w] = IdleWorker]

RequestPoll(w) ==
  /\ proc = "up"
  /\ Send(w, "idle", "poll")
  /\ UNCHANGED <<clock, proc, store, engine, disk, dispatched>>

TokensIn(e) ==
  {e[j].lease.token : j \in {k \in Present(e) : e[k].lease # None}}

(* Uuid::new_v4: a token that no row, job or worker knows.                 *)
FreshTokens ==
  Tokens \ (TokensIn(engine) \cup TokensIn(db)
            \cup {worker[w].token : w \in Workers})

(* reconcile_and_claim: expire leases, requeue, claim, each persisted      *)
(* before the next; a failure keeps what was persisted before it.          *)
PollExpireFails(w) ==
  /\ proc = "up" /\ worker[w].pc = "poll"
  /\ PersistFails(db, engine, ExpireLeases(engine, worker[w].at))
  /\ Close(w)
  /\ UNCHANGED <<clock, proc, disk, dispatched>>

Reconciled(w) == ExpireLeases(engine, worker[w].at)
Requeued(w)   == RequeueRetryable(Reconciled(w), worker[w].at)
RowsReconciled(w) == CasRows(db, engine, Reconciled(w))
RowsRequeued(w)   == CasRows(RowsReconciled(w), Reconciled(w), Requeued(w))

PollRequeueFails(w) ==
  /\ proc = "up" /\ worker[w].pc = "poll"
  /\ Persisted(db, engine, Reconciled(w))
  /\ PersistFails(RowsReconciled(w), Reconciled(w), Requeued(w))
  /\ Close(w)
  /\ UNCHANGED <<clock, proc, disk, dispatched>>

ReachesClaim(w) ==
  /\ proc = "up" /\ worker[w].pc = "poll"
  /\ Persisted(db, engine, Reconciled(w))
  /\ Persisted(RowsReconciled(w), Reconciled(w), Requeued(w))

PollNoWork(w) ==
  /\ ReachesClaim(w)
  /\ \A j \in JobIds :
       ~Claimable(Requeued(w), j, Capabilities[w], worker[w].at)
  /\ engine' = Requeued(w)
  /\ db' = RowsRequeued(w)
  /\ Close(w)
  /\ UNCHANGED <<clock, proc, conn, manifest, disk, dispatched>>

ClaimedEngine(w, j, token) ==
  [Requeued(w) EXCEPT ![j] = Claim(@, w, token, worker[w].at)]

PollClaim(w, j, token) ==
  /\ ReachesClaim(w)
  /\ NextClaim(Requeued(w), j, Capabilities[w], worker[w].at)
  /\ token \in FreshTokens
  /\ LET after == ClaimedEngine(w, j, token)
     IN /\ Persisted(RowsRequeued(w), Requeued(w), after)
        /\ engine' = after
        /\ db' = CasRows(RowsRequeued(w), Requeued(w), after)
  /\ worker' = [worker EXCEPT ![w] = [pc |-> "tasked", at |-> 0, job |-> j,
                                      token |-> token, content |-> None]]
  /\ dispatched' = [dispatched EXCEPT ![j] = @ + 1]
  /\ UNCHANGED <<clock, proc, conn, manifest, disk>>

PollClaimFails(w, j, token) ==
  /\ ReachesClaim(w)
  /\ NextClaim(Requeued(w), j, Capabilities[w], worker[w].at)
  /\ token \in FreshTokens
  /\ PersistFails(RowsRequeued(w), Requeued(w), ClaimedEngine(w, j, token))
  /\ Close(w)
  /\ UNCHANGED <<clock, proc, disk, dispatched>>

RequestStart(w) ==
  /\ proc = "up"
  /\ Send(w, "tasked", "start")
  /\ UNCHANGED <<clock, proc, store, engine, disk, dispatched>>

LeaseValid(w) ==
  LET j == worker[w].job
  IN engine[j] # NoJob /\ HoldsLease(engine[j], worker[w].token, worker[w].at)

Reject(w) == Close(w) /\ UNCHANGED <<engine, store>>

Start(w) ==
  LET j == worker[w].job IN
  /\ proc = "up" /\ worker[w].pc = "start"
  /\ IF LeaseValid(w) /\ engine[j].status = "claimed"
     THEN \E ok \in BOOLEAN :
            /\ Save(j, StartJob(engine[j], worker[w].at), ok)
            /\ IF ok THEN Goto(w, "working") ELSE Close(w)
     ELSE Reject(w)
  /\ UNCHANGED <<clock, proc, disk, dispatched>>

(* The worker computes a result and replaces the job's staging file.       *)
WriteResult(w, content) ==
  /\ worker[w].pc \in {"working", "orphan"}
  /\ staging' = [staging EXCEPT ![worker[w].job] = content]
  /\ IF worker[w].pc = "working"
     THEN worker' = [worker EXCEPT ![w].pc = "written", ![w].content = content]
     ELSE Close(w)
  /\ UNCHANGED <<clock, proc, store, engine, files, dispatched>>

RequestComplete(w) ==
  /\ proc = "up"
  /\ Send(w, "written", "complete")
  /\ UNCHANGED <<clock, proc, store, engine, disk, dispatched>>

AuthorizeResult(w) ==
  /\ proc = "up" /\ worker[w].pc = "complete"
  /\ IF LeaseValid(w) /\ engine[worker[w].job].status = "running"
     THEN Goto(w, "authorized") /\ UNCHANGED <<engine, store>>
     ELSE Reject(w)
  /\ UNCHANGED <<clock, proc, disk, dispatched>>

ArtifactOf(w) == <<Type(engine[worker[w].job]), worker[w].content>>

(* promote_worker_artifact, outside the mutex: verify the existing target, *)
(* or else the staging file ...                                            *)
VerifyStaging(w) ==
  LET target == files[ArtifactOf(w)] IN
  /\ proc = "up" /\ worker[w].pc = "authorized"
  /\ IF target # None
     THEN IF target = worker[w].content THEN Send(w, "authorized", "promoted")
                                        ELSE Close(w)
     ELSE IF staging[worker[w].job] = worker[w].content
          THEN Goto(w, "verified") ELSE Close(w)
  /\ UNCHANGED <<clock, proc, store, engine, disk, dispatched>>

(* ... and rename whatever the staging path holds by then.  The contract   *)
(* validation that follows checks size and schema and may reject it.       *)
Promote(w) ==
  LET j == worker[w].job IN
  /\ proc = "up" /\ worker[w].pc = "verified"
  /\ IF staging[j] = None
     THEN Close(w) /\ UNCHANGED disk
     ELSE /\ files' = [files EXCEPT ![ArtifactOf(w)] = staging[j]]
          /\ staging' = [staging EXCEPT ![j] = None]
          /\ Send(w, "verified", "promoted") \/ Close(w)
  /\ UNCHANGED <<clock, proc, store, engine, dispatched>>

\* Mutant: an artifact another job registered is taken over.
RegistrableAlways(a, j) == TRUE

(* register_raw_artifact in the same transaction: the id is new, or the    *)
(* same job's.                                                             *)
Registrable(a, j) == manifest[a] \in {None, j}

(* succeed_with_artifact: the job and its manifest in one transaction.     *)
SucceedWithArtifact(w) ==
  LET j == worker[w].job
      a == ArtifactOf(w)
      after == [engine EXCEPT ![j] = Succeed(@, worker[w].content)]
      registered == [manifest EXCEPT ![a] = j]
  IN
  /\ proc = "up" /\ worker[w].pc = "promoted"
  /\ Close(w)
  /\ IF LeaseValid(w) /\ engine[j].status = "running"
     THEN \/ /\ conn = "open" /\ CasMatches(db, engine, after)
             /\ Registrable(a, j)
             /\ engine' = after
             /\ db' = CasRows(db, engine, after)
             /\ manifest' = registered
             /\ UNCHANGED conn
          \/ /\ UNCHANGED engine
             /\ \/ UNCHANGED store
                \/ conn = "open" /\ conn' = "closed" /\ UNCHANGED <<db, manifest>>
                \/ /\ conn = "open" /\ conn' = "closed"
                   /\ CasMatches(db, engine, after)
                   /\ Registrable(a, j)
                   /\ db' = CasRows(db, engine, after)
                   /\ manifest' = registered
     ELSE UNCHANGED <<engine, store>>
  /\ UNCHANGED <<clock, proc, disk, dispatched>>

RequestFail(w) ==
  /\ proc = "up"
  /\ Send(w, "working", "fail")
  /\ UNCHANGED <<clock, proc, store, engine, disk, dispatched>>

Fail(w, retryable) ==
  LET j == worker[w].job IN
  /\ proc = "up" /\ worker[w].pc = "fail"
  /\ Close(w)
  /\ IF LeaseValid(w) /\ engine[j].status \in Active
     THEN \E ok \in BOOLEAN : Save(j, FailJob(engine[j], retryable), ok)
     ELSE UNCHANGED <<engine, store>>
  /\ UNCHANGED <<clock, proc, disk, dispatched>>

-----------------------------------------------------------------------------
(* Failures.                                                               *)

(* 30 s without a frame: the daemon closes the session, the worker thread  *)
(* goes on computing.                                                      *)
SessionTimeout(w) ==
  /\ proc = "up" /\ worker[w].pc = "working"
  /\ Goto(w, "orphan")
  /\ UNCHANGED <<clock, proc, store, engine, disk, dispatched>>

WorkerExits(w) ==
  /\ worker[w].pc \in {"tasked", "working", "written", "orphan"}
  /\ Close(w)
  /\ UNCHANGED <<clock, proc, store, engine, disk, dispatched>>

ConnectionLost ==
  /\ conn = "open" /\ conn' = "closed"
  /\ UNCHANGED <<clock, proc, engine, db, manifest, disk, worker, dispatched>>

Crash ==
  /\ proc = "up"
  /\ proc' = "down" /\ conn' = "closed"
  /\ engine' = NoJobs
  /\ worker' = [w \in Workers |->
                  IF worker[w].pc \in {"working", "orphan"}
                  THEN [worker[w] EXCEPT !.pc = "orphan"] ELSE IdleWorker]
  /\ UNCHANGED <<clock, db, manifest, disk, dispatched>>

(* DurableJobCoordinator::open: one invalid row keeps the daemon down.     *)
RecoverOk == \A j \in Present(db) : ValidRecoveredJob(db[j])

Restart ==
  /\ proc = "down"
  /\ IF RecoverOk
     THEN proc' = "up" /\ conn' = "open" /\ engine' = db
     ELSE UNCHANGED <<proc, conn, engine>>
  /\ UNCHANGED <<clock, db, manifest, disk, worker, dispatched>>

Tick ==
  /\ clock < MaxClock
  /\ clock' = clock + 1
  /\ UNCHANGED <<proc, store, engine, disk, worker, dispatched>>

Next ==
  \/ Tick \/ ConnectionLost \/ Crash \/ Restart
  \/ \E j \in JobIds, k \in Keys, r \in Requests, d \in Deadlines,
        m \in 1..MaxAttempts : Submit(j, k, r, d, m)
  \/ \E j \in JobIds : Cancel(j)
  \/ \E w \in Workers :
       \/ RequestPoll(w) \/ PollExpireFails(w) \/ PollRequeueFails(w)
       \/ PollNoWork(w)
       \/ \E j \in JobIds, t \in Tokens :
            PollClaim(w, j, t) \/ PollClaimFails(w, j, t)
       \/ RequestStart(w) \/ Start(w)
       \/ \E c \in Contents : WriteResult(w, c)
       \/ RequestComplete(w) \/ AuthorizeResult(w) \/ VerifyStaging(w)
       \/ Promote(w) \/ SucceedWithArtifact(w)
       \/ RequestFail(w) \/ \E b \in BOOLEAN : Fail(w, b)
       \/ SessionTimeout(w) \/ WorkerExits(w)

Spec == Init /\ [][Next]_vars

(* Time passes, the supervisor keeps workers polling, a handler that has   *)
(* its turn runs, and a database that stays reachable does not reject      *)
(* polls forever.                                                          *)
PollSucceeds(w) ==
  PollNoWork(w) \/ \E j \in JobIds, t \in Tokens : PollClaim(w, j, t)

PollFails(w) ==
  \/ PollExpireFails(w) \/ PollRequeueFails(w)
  \/ \E j \in JobIds, t \in Tokens : PollClaimFails(w, j, t)

Handlers(w) ==
  \/ PollFails(w) \/ Start(w) \/ AuthorizeResult(w) \/ VerifyStaging(w)
  \/ Promote(w) \/ SucceedWithArtifact(w) \/ \E b \in BOOLEAN : Fail(w, b)

WorkerProgress(w) ==
  \/ RequestPoll(w) \/ RequestStart(w) \/ RequestComplete(w)
  \/ \E c \in Contents : WriteResult(w, c)

Fairness ==
  /\ WF_vars(Tick)
  /\ \A w \in Workers : /\ WF_vars(WorkerProgress(w))
                        /\ WF_vars(Handlers(w))
                        /\ SF_vars(PollSucceeds(w))

FairSpec == Spec /\ Fairness

-----------------------------------------------------------------------------
(* Safety.                                                                 *)

(* Every stored row passes the clauses of validate_recovered_job on lease, *)
(* status and accounting fields, whatever was rolled back, lost or         *)
(* replayed before (JobEngine::recover refuses to start otherwise).        *)
RowsRecoverable ==
  \A j \in Present(db) :
    /\ LeaseFieldsValid(db[j])
    /\ StatusFieldsValid(db[j])
    /\ AccountingValid(db[j])

(* A revision number names one version of a job: the engine and the table  *)
(* never hold different versions under one revision, so the revision test  *)
(* of compare_and_swap protects the whole payload.  While the connection   *)
(* is open the engine is never behind the table.                           *)
RevisionNamesVersion ==
  \A j \in Present(engine) \cap Present(db) :
    /\ engine[j].revision = db[j].revision => engine[j] = db[j]
    /\ conn = "open" => engine[j].revision >= db[j].revision

(* No job reaches workers more often than its max_attempts, across failed  *)
(* claims, crashes and restarts (a dispatch may be a charged provider      *)
(* call).                                                                  *)
DispatchBudget ==
  \A j \in JobIds : dispatched[j] > 0 =>
    db[j] # NoJob /\ dispatched[j] <= db[j].attempt /\ db[j].attempt <= db[j].max

(* An idempotency key names one job: a client that repeats a submission    *)
(* after an answer it never saw does not create a second job.              *)
KeyNamesOneJob ==
  \A i \in Present(engine) \cup Present(db), j \in Present(db) :
    \A e \in {engine, db} :
      i \in Present(e) /\ e[i].key = db[j].key => i = j

(* The rows, the manifest table and the artifact files agree: an artifact  *)
(* is registered exactly for the result of a succeeded job, and its file   *)
(* was promoted before.                                                    *)
ManifestBacksSuccess ==
  /\ \A a \in Artifacts : manifest[a] # None =>
       LET job == db[manifest[a]]
       IN /\ job # NoJob /\ job.status = "succeeded"
          /\ a = <<Type(job), job.result>>
          /\ files[a] # None
  /\ \A j \in Present(db) : db[j].status = "succeeded" =>
       manifest[<<Type(db[j]), db[j].result>>] = j

(* A job succeeds only through the worker that holds the lease of the      *)
(* authoritative row, with the content that worker produced: the late      *)
(* result of an expired worker is rejected even if it was authorized       *)
(* before its lease was given to another.                                  *)
ResultFromLeaseHolder ==
  [][\A j \in JobIds :
       db'[j] # NoJob /\ db'[j].status = "succeeded" /\ db'[j] # db[j]
         => \E w \in Workers :
              /\ worker[w].pc = "promoted" /\ worker[w].job = j
              /\ db[j].status = "running"
              /\ db[j].lease.token = worker[w].token
              /\ db[j].lease.owner = w
              /\ db'[j].result = worker[w].content]_vars

(* The client-visible part of the rows.  A retryable failure is waiting.   *)
JobView(job) ==
  IF job = NoJob THEN [phase |-> "absent"]
  ELSE [phase |-> CASE job.status \in Active -> "leased"
                    [] job.status = "failed_terminal" -> "failed"
                    [] job.status \in {"pending", "failed_retryable"} -> "waiting"
                    [] OTHER -> job.status,
        key |-> job.key, budget |-> job.max, used |-> job.attempt,
        result |-> job.result]

Lifecycle ==
  INSTANCE JobLifecycle WITH
    Jobs <- JobIds, JobKeys <- Keys, Results <- Contents,
    Budgets <- 1..MaxAttempts, NoResult <- None,
    jobs <- [j \in JobIds |-> JobView(db[j])]

(* The stored rows implement the job lifecycle: rollbacks, rejected or     *)
(* half-applied statements, crashes and late workers never show a client   *)
(* a transition the lifecycle does not have.                               *)
ImplementsLifecycle == Lifecycle!Spec

(* Consecutive claims of one job type are spaced by the policy's minimum   *)
(* interval in the stored claim times, across jobs, retries and restarts.  *)
DispatchSpacing ==
  [][\A i, j \in Present(db) :
       (/\ db'[j].claimed # db[j].claimed
        /\ db[i].claimed # None
        /\ Type(db[i]) = Type(db[j]))
         => db'[j].claimed - db[i].claimed
              >= Policies[Type(db[j])].minimum_interval]_vars

(* No more rows of a type are leased than its policy allows, and a type    *)
(* without a policy is never leased.                                       *)
InFlightWithinPolicy ==
  \A j \in Present(db) : db[j].status \in Active =>
    /\ Type(db[j]) \in DOMAIN Policies
    /\ Cardinality(InFlight(db, Type(db[j])))
         <= Policies[Type(db[j])].max_in_flight

-----------------------------------------------------------------------------
(* Liveness.                                                               *)

(* Once the daemon stays up with its database, no lease lasts forever: the *)
(* row of a worker that died, lost its session or never answers again is   *)
(* finished, requeued or failed by some poll, and the lease its crash left *)
(* behind is never stranded by the restart.                                *)
LeasesEnd ==
  <>[](proc = "up" /\ conn = "open") =>
    \A j \in JobIds : []<>(db[j] = NoJob \/ db[j].status \notin Active)

-----------------------------------------------------------------------------
(* What the documents say and the code does not do.                        *)

(* "Rebuilds the in-memory scheduling index from the authoritative         *)
(* PostgreSQL payloads": every succeeded row can be recovered.             *)
SucceededRowsRecover ==
  \A j \in Present(db) : SucceededWithoutError(db[j])

=============================================================================
