-------------------------- MODULE ProviderJobsProofs --------------------------
(***************************************************************************)
(* Proofs about ProviderJobs, for every set of jobs, keys, contents,       *)
(* tokens and workers, every policy and every bound.                       *)
(*                                                                         *)
(* The lemmas on JobEngine say that every transition, under the guard the  *)
(* code gives it, yields a well-formed job whose fields agree.  They lift  *)
(* to whole engines and to the persistence operators, and the invariant    *)
(* then follows action by action.                                          *)
(***************************************************************************)
EXTENDS ProviderJobs, TLAPS, FiniteSetTheorems

(* A job whose lease, status and accounting fields agree.                  *)
SoundJob(job) ==
  LeaseFieldsValid(job) /\ StatusFieldsValid(job) /\ AccountingValid(job)

(* What a job keeps for life.                                              *)
SameIdentity(a, b) == a.key = b.key /\ a.request = b.request /\ a.max = b.max

SoundEngine(e) == e \in Engine /\ \A j \in JobIds : e[j] # NoJob => SoundJob(e[j])

-----------------------------------------------------------------------------
(* Jobs.                                                                   *)

(* A job accepted by engine.submit before its deadline is sound.           *)
LEMMA NewJobSound ==
  ASSUME NEW k \in Keys, NEW r \in Requests, NEW d \in Nat,
         NEW m \in 1..MaxAttempts, NEW now \in Nat, now < d
  PROVE  NewJob(k, r, d, m, now) \in Job /\ SoundJob(NewJob(k, r, d, m, now))
<1>1. NewJob(k, r, d, m, now) \in Job
  BY BoundsAssumption DEF NewJob, Job, Status
<1>2. SoundJob(NewJob(k, r, d, m, now))
  BY BoundsAssumption DEF NewJob, SoundJob, LeaseFieldsValid, StatusFieldsValid, AccountingValid,
     Active
<1>3. QED BY <1>1, <1>2

(* A claim of a pending job with attempts left, before its deadline.       *)
LEMMA ClaimSound ==
  ASSUME NEW job \in Job, SoundJob(job), NEW w \in Workers, NEW t \in Tokens,
         NEW now \in Nat, job.status = "pending", job.attempt < job.max,
         now < job.deadline
  PROVE  /\ Claim(job, w, t, now) \in Job
         /\ SoundJob(Claim(job, w, t, now))
         /\ Claim(job, w, t, now).revision = job.revision + 1
         /\ Claim(job, w, t, now).attempt = job.attempt + 1
         /\ SameIdentity(Claim(job, w, t, now), job)
<1> DEFINE l == [owner |-> w, token |-> t, expires |-> LeaseEnd(job, now)]
<1>1. LeaseEnd(job, now) \in Nat
  BY BoundsAssumption DEF LeaseEnd, Job
<1>2. l \in Lease /\ l # None
  BY <1>1, AbsentAssumption DEF Lease
<1> HIDE DEF l
<1>3. Claim(job, w, t, now) =
        [job EXCEPT !.status = "claimed", !.revision = job.revision + 1,
                    !.attempt = job.attempt + 1, !.lease = l, !.claimed = now]
  BY DEF Claim, l, Job
<1>4. Claim(job, w, t, now) \in Job
  <2>1. /\ "claimed" \in Status /\ job.revision + 1 \in Nat
        /\ job.attempt + 1 \in Nat
    BY DEF Job, Status, Active
  <2>2. QED BY <1>2, <1>3, <2>1 DEF Job
<1>5. LeaseFieldsValid(Claim(job, w, t, now))
  BY <1>2, <1>3 DEF LeaseFieldsValid, Active, Job
<1>6. StatusFieldsValid(Claim(job, w, t, now))
  BY <1>3 DEF SoundJob, StatusFieldsValid, Job
<1>7. AccountingValid(Claim(job, w, t, now))
  BY <1>3, AbsentAssumption DEF SoundJob, AccountingValid, Job
<1>8. /\ Claim(job, w, t, now).revision = job.revision + 1
      /\ Claim(job, w, t, now).attempt = job.attempt + 1
      /\ SameIdentity(Claim(job, w, t, now), job)
  BY <1>3 DEF Job, SameIdentity
<1>9. QED BY <1>4, <1>5, <1>6, <1>7, <1>8 DEF SoundJob

(* A start of a claimed job.                                             *)
LEMMA StartSound ==
  ASSUME NEW job \in Job, SoundJob(job), NEW now \in Nat,
         job.status = "claimed"
  PROVE  /\ StartJob(job, now) \in Job
         /\ SoundJob(StartJob(job, now))
         /\ StartJob(job, now).revision = job.revision + 1
         /\ StartJob(job, now).attempt = job.attempt
         /\ SameIdentity(StartJob(job, now), job)
<1>1. StartJob(job, now) \in Job
  <2>1. "running" \in Status /\ job.revision + 1 \in Nat
    BY DEF Job, Status, Active
  <2>2. QED BY <2>1 DEF StartJob, Job
<1>2. LeaseFieldsValid(StartJob(job, now))
  BY DEF StartJob, Job, SoundJob, LeaseFieldsValid, Active
<1>3. StatusFieldsValid(StartJob(job, now))
  BY AbsentAssumption DEF StartJob, Job, SoundJob, StatusFieldsValid, Active
<1>4. AccountingValid(StartJob(job, now))
  BY DEF StartJob, Job, SoundJob, AccountingValid
<1>5. /\ StartJob(job, now).revision = job.revision + 1
      /\ StartJob(job, now).attempt = job.attempt
      /\ SameIdentity(StartJob(job, now), job)
  BY DEF StartJob, Job, SameIdentity
<1>6. QED BY <1>1, <1>2, <1>3, <1>4, <1>5 DEF SoundJob

(* A success of a running job.                                           *)
LEMMA SucceedSound ==
  ASSUME NEW job \in Job, SoundJob(job), NEW c \in Contents,
         job.status = "running"
  PROVE  /\ Succeed(job, c) \in Job
         /\ SoundJob(Succeed(job, c))
         /\ Succeed(job, c).revision = job.revision + 1
         /\ Succeed(job, c).attempt = job.attempt
         /\ SameIdentity(Succeed(job, c), job)
<1>1. Succeed(job, c) \in Job
  <2>1. "succeeded" \in Status /\ job.revision + 1 \in Nat
    BY DEF Job, Status, Terminal
  <2>2. QED BY <2>1 DEF Succeed, Job
<1>2. LeaseFieldsValid(Succeed(job, c))
  BY DEF Succeed, Job, SoundJob, LeaseFieldsValid, Active
<1>3. StatusFieldsValid(Succeed(job, c))
  BY AbsentAssumption DEF Succeed, Job, SoundJob, StatusFieldsValid, Active
<1>4. AccountingValid(Succeed(job, c))
  BY DEF Succeed, Job, SoundJob, AccountingValid
<1>5. /\ Succeed(job, c).revision = job.revision + 1
      /\ Succeed(job, c).attempt = job.attempt
      /\ SameIdentity(Succeed(job, c), job)
  BY DEF Succeed, Job, SameIdentity
<1>6. QED BY <1>1, <1>2, <1>3, <1>4, <1>5 DEF SoundJob

(* The end of an attempt, by a failure report or by expiry.              *)
LEMMA EndAttemptSound ==
  ASSUME NEW job \in Job, SoundJob(job), NEW retry \in BOOLEAN,
         job.status \in Active
  PROVE  /\ EndAttempt(job, retry) \in Job
         /\ SoundJob(EndAttempt(job, retry))
         /\ EndAttempt(job, retry).revision = job.revision + 1
         /\ EndAttempt(job, retry).attempt = job.attempt
         /\ SameIdentity(EndAttempt(job, retry), job)
<1>1. EndAttempt(job, retry) \in Job
  <2>1. /\ {"failed_retryable", "failed_terminal"} \subseteq Status
        /\ job.revision + 1 \in Nat
    BY DEF Job, Status, Terminal
  <2>2. QED BY <2>1 DEF EndAttempt, Job
<1>2. LeaseFieldsValid(EndAttempt(job, retry))
  BY DEF EndAttempt, Job, SoundJob, LeaseFieldsValid, Active
<1>3. StatusFieldsValid(EndAttempt(job, retry))
  BY DEF EndAttempt, Job, SoundJob, StatusFieldsValid, Active
<1>4. AccountingValid(EndAttempt(job, retry))
  BY DEF EndAttempt, Job, SoundJob, AccountingValid
<1>5. /\ EndAttempt(job, retry).revision = job.revision + 1
      /\ EndAttempt(job, retry).attempt = job.attempt
      /\ SameIdentity(EndAttempt(job, retry), job)
  BY DEF EndAttempt, Job, SameIdentity
<1>6. QED BY <1>1, <1>2, <1>3, <1>4, <1>5 DEF SoundJob

(* A retryable failure put back into the queue.                          *)
LEMMA RequeueSound ==
  ASSUME NEW job \in Job, SoundJob(job), job.status = "failed_retryable"
  PROVE  /\ RequeueJob(job) \in Job
         /\ SoundJob(RequeueJob(job))
         /\ RequeueJob(job).revision = job.revision + 1
         /\ RequeueJob(job).attempt = job.attempt
         /\ SameIdentity(RequeueJob(job), job)
<1>1. RequeueJob(job) \in Job
  <2>1. "pending" \in Status /\ job.revision + 1 \in Nat
    BY DEF Job, Status
  <2>2. QED BY <2>1 DEF RequeueJob, Job
<1>2. LeaseFieldsValid(RequeueJob(job))
  BY DEF RequeueJob, Job, SoundJob, LeaseFieldsValid, Active
<1>3. StatusFieldsValid(RequeueJob(job))
  BY DEF RequeueJob, Job, SoundJob, StatusFieldsValid, Active
<1>4. AccountingValid(RequeueJob(job))
  BY DEF RequeueJob, Job, SoundJob, AccountingValid
<1>5. /\ RequeueJob(job).revision = job.revision + 1
      /\ RequeueJob(job).attempt = job.attempt
      /\ SameIdentity(RequeueJob(job), job)
  BY DEF RequeueJob, Job, SameIdentity
<1>6. QED BY <1>1, <1>2, <1>3, <1>4, <1>5 DEF SoundJob

(* A cancellation of a job that is not terminal.                         *)
LEMMA CancelSound ==
  ASSUME NEW job \in Job, SoundJob(job), Cancelable(job)
  PROVE  /\ CancelJob(job) \in Job
         /\ SoundJob(CancelJob(job))
         /\ CancelJob(job).revision = job.revision + 1
         /\ CancelJob(job).attempt = job.attempt
         /\ SameIdentity(CancelJob(job), job)
<1>1. CancelJob(job) \in Job
  <2>1. "canceled" \in Status /\ job.revision + 1 \in Nat
    BY DEF Job, Status, Terminal
  <2>2. QED BY <2>1 DEF CancelJob, Job
<1>2. LeaseFieldsValid(CancelJob(job))
  BY DEF CancelJob, Job, SoundJob, LeaseFieldsValid, Active
<1>3. StatusFieldsValid(CancelJob(job))
  <2>1. job.status \in {"pending", "claimed", "running", "failed_retryable"}
    BY DEF Cancelable, Job, Status, Active, Terminal
  <2>2. job.result = None
    BY <2>1 DEF SoundJob, StatusFieldsValid
  <2>3. QED BY <2>2 DEF CancelJob, Job, StatusFieldsValid
<1>4. AccountingValid(CancelJob(job))
  BY DEF CancelJob, Job, SoundJob, AccountingValid
<1>5. /\ CancelJob(job).revision = job.revision + 1
      /\ CancelJob(job).attempt = job.attempt
      /\ SameIdentity(CancelJob(job), job)
  BY DEF CancelJob, Job, SameIdentity
<1>6. QED BY <1>1, <1>2, <1>3, <1>4, <1>5 DEF SoundJob

-----------------------------------------------------------------------------
(* Engines.                                                                *)

(* Every change bumps the revision of a present job by one and never gives *)
(* back an attempt.                                                        *)
Advances(before, after) ==
  \A j \in JobIds : after[j] # before[j] =>
    /\ before[j] # NoJob /\ after[j] # NoJob
    /\ after[j].revision = before[j].revision + 1
    /\ after[j].attempt >= before[j].attempt
    /\ SameIdentity(after[j], before[j])

(* expire_leases.                                                          *)
LEMMA ExpireLeasesSound ==
  ASSUME NEW e, SoundEngine(e), NEW now \in Nat
  PROVE  SoundEngine(ExpireLeases(e, now)) /\ Advances(e, ExpireLeases(e, now))
<1>1. ASSUME NEW j \in JobIds, e[j] # NoJob, Lapsed(e[j], now)
      PROVE  /\ ExpireJob(e[j], now) \in Job /\ SoundJob(ExpireJob(e[j], now))
             /\ ExpireJob(e[j], now).revision = e[j].revision + 1
             /\ ExpireJob(e[j], now).attempt = e[j].attempt
             /\ SameIdentity(ExpireJob(e[j], now), e[j])
  <2>1. e[j] \in Job /\ SoundJob(e[j]) /\ e[j].status \in Active
    BY <1>1 DEF SoundEngine, Engine, Lapsed
  <2>2. (e[j].attempt < e[j].max /\ now < e[j].deadline) \in BOOLEAN
    OBVIOUS
  <2>3. QED BY <2>1, <2>2, EndAttemptSound DEF ExpireJob
<1>2. ASSUME NEW j \in JobIds
      PROVE  /\ ExpireLeases(e, now)[j] \in Job \cup {NoJob}
             /\ ExpireLeases(e, now)[j] # NoJob
                  => SoundJob(ExpireLeases(e, now)[j])
             /\ ExpireLeases(e, now)[j] # e[j] =>
                  /\ e[j] # NoJob /\ ExpireLeases(e, now)[j] # NoJob
                  /\ ExpireLeases(e, now)[j].revision = e[j].revision + 1
                  /\ ExpireLeases(e, now)[j].attempt >= e[j].attempt
                  /\ SameIdentity(ExpireLeases(e, now)[j], e[j])
  <2>1. e[j] \in Job \cup {NoJob} /\ (e[j] # NoJob => SoundJob(e[j]))
    BY DEF SoundEngine, Engine
  <2>2. CASE e[j] # NoJob /\ Lapsed(e[j], now)
    <3>1. ExpireLeases(e, now)[j] = ExpireJob(e[j], now)
      BY <2>2 DEF ExpireLeases
    <3>2. e[j].attempt \in Nat
      BY <2>1, <2>2 DEF Job
    <3>3. QED BY <1>1, <2>2, <3>1, <3>2, AbsentAssumption
  <2>3. CASE ~(e[j] # NoJob /\ Lapsed(e[j], now))
    BY <2>1, <2>3 DEF ExpireLeases
  <2>4. QED BY <2>2, <2>3
<1>3. ExpireLeases(e, now) \in Engine
  BY <1>2 DEF ExpireLeases, Engine
<1>4. QED BY <1>2, <1>3 DEF SoundEngine, Advances

(* requeue_retryable.                                                      *)
LEMMA RequeueRetryableSound ==
  ASSUME NEW e, SoundEngine(e), NEW now \in Nat
  PROVE  /\ SoundEngine(RequeueRetryable(e, now))
         /\ Advances(e, RequeueRetryable(e, now))
<1> DEFINE f == RequeueRetryable(e, now)
           Due(j) == /\ e[j] # NoJob /\ e[j].status = "failed_retryable"
                     /\ now < e[j].deadline
<1>1. ASSUME NEW j \in JobIds
      PROVE  /\ f[j] \in Job \cup {NoJob}
             /\ f[j] # NoJob => SoundJob(f[j])
             /\ f[j] # e[j] => /\ e[j] # NoJob /\ f[j] # NoJob
                               /\ f[j].revision = e[j].revision + 1
                               /\ f[j].attempt >= e[j].attempt
                               /\ SameIdentity(f[j], e[j])
  <2>1. e[j] \in Job \cup {NoJob} /\ (e[j] # NoJob => SoundJob(e[j]))
    BY DEF SoundEngine, Engine
  <2>2. CASE Due(j)
    <3>1. f[j] = RequeueJob(e[j])
      BY <2>2 DEF RequeueRetryable
    <3>2. e[j] \in Job /\ e[j].attempt \in Nat
      BY <2>1, <2>2 DEF Job
    <3>3. /\ RequeueJob(e[j]) \in Job /\ SoundJob(RequeueJob(e[j]))
          /\ RequeueJob(e[j]).revision = e[j].revision + 1
          /\ RequeueJob(e[j]).attempt = e[j].attempt
          /\ SameIdentity(RequeueJob(e[j]), e[j])
      BY <2>1, <2>2, <3>2, RequeueSound
    <3>4. QED BY <2>2, <3>1, <3>2, <3>3, AbsentAssumption
  <2>3. CASE ~Due(j)
    BY <2>1, <2>3 DEF RequeueRetryable
  <2>4. QED BY <2>2, <2>3
<1>2. f \in Engine
  BY <1>1 DEF RequeueRetryable, Engine
<1>3. QED BY <1>1, <1>2 DEF SoundEngine, Advances

(* One job replaced by its successor.                                      *)
LEMMA ReplaceSound ==
  ASSUME NEW e, SoundEngine(e), NEW j \in JobIds, e[j] # NoJob,
         NEW job \in Job, SoundJob(job), job.revision = e[j].revision + 1,
         job.attempt \in Nat, job.attempt >= e[j].attempt,
         SameIdentity(job, e[j])
  PROVE  /\ SoundEngine([e EXCEPT ![j] = job])
         /\ Advances(e, [e EXCEPT ![j] = job])
<1>1. [e EXCEPT ![j] = job] \in Engine
  BY DEF SoundEngine, Engine
<1>2. QED BY <1>1, AbsentAssumption DEF SoundEngine, Engine, Advances

-----------------------------------------------------------------------------
(* Engine and table.                                                       *)

Coupled(e, rows) ==
  \A j \in JobIds : e[j] # NoJob /\ rows[j] # NoJob =>
    /\ SameIdentity(e[j], rows[j])
    /\ e[j].revision = rows[j].revision => e[j] = rows[j]

NotBehind(e, rows) ==
  \A j \in JobIds : e[j] # NoJob /\ rows[j] # NoJob =>
    e[j].revision >= rows[j].revision

(* An engine e over a table rows, with the connection in state c.          *)
Pair(e, rows, c) ==
  /\ SoundEngine(e) /\ SoundEngine(rows) /\ Coupled(e, rows)
  /\ c = "open" => NotBehind(e, rows)

(* Rows stay and their attempts never decrease.                            *)
Grows(rows, new) ==
  \A j \in JobIds : rows[j] # NoJob =>
    new[j] # NoJob /\ new[j].attempt >= rows[j].attempt

Keeps(e, f) == \A j \in JobIds : e[j] # NoJob => f[j] # NoJob

(* The fields of a sound job have their types.                             *)
LEMMA FieldTypes ==
  ASSUME NEW e, SoundEngine(e), NEW j \in JobIds, e[j] # NoJob
  PROVE  e[j] \in Job /\ e[j].revision \in Nat /\ e[j].attempt \in Nat
  BY DEF SoundEngine, Engine, Job

(* A table that does not change grows.                                     *)
LEMMA GrowsRefl == ASSUME NEW e, SoundEngine(e) PROVE Grows(e, e)
  BY FieldTypes DEF Grows

(* Growth composes: three transactions of one poll.                        *)
LEMMA GrowsTrans ==
  ASSUME NEW a, NEW b, NEW c, SoundEngine(a), SoundEngine(b), SoundEngine(c),
         Grows(a, b), Grows(b, c)
  PROVE  Grows(a, c)
<1>1. SUFFICES ASSUME NEW j \in JobIds, a[j] # NoJob
               PROVE  c[j] # NoJob /\ c[j].attempt >= a[j].attempt
  BY DEF Grows
<1>2. b[j] # NoJob /\ b[j].attempt >= a[j].attempt
  BY <1>1 DEF Grows
<1>3. c[j] # NoJob /\ c[j].attempt >= b[j].attempt
  BY <1>2 DEF Grows
<1>4. a[j].attempt \in Nat /\ b[j].attempt \in Nat /\ c[j].attempt \in Nat
  BY <1>1, <1>2, <1>3, FieldTypes
<1>5. QED BY <1>2, <1>3, <1>4

(* Jobs that advance stay present.                                         *)
LEMMA AdvancesKeeps ==
  ASSUME NEW e, NEW f, Advances(e, f) PROVE Keeps(e, f)
  BY DEF Advances, Keeps

(* A committed compare-and-swap keeps table and engine coupled, whether    *)
(* the engine keeps the change or rolls it back.                           *)
LEMMA CasPair ==
  ASSUME NEW before, NEW after, NEW rows, NEW c,
         Pair(before, rows, c), SoundEngine(after), Advances(before, after),
         CasMatches(rows, before, after)
  PROVE  /\ Pair(after, CasRows(rows, before, after), c)
         /\ Pair(before, CasRows(rows, before, after), "closed")
         /\ Grows(rows, CasRows(rows, before, after))
<1> DEFINE new == CasRows(rows, before, after)
<1>1. ASSUME NEW j \in JobIds, after[j] = before[j]
      PROVE  new[j] = rows[j]
  BY <1>1 DEF CasRows
<1>2. ASSUME NEW j \in JobIds, after[j] # before[j]
      PROVE  /\ new[j] = after[j] /\ rows[j] = before[j]
             /\ before[j] # NoJob /\ after[j] # NoJob
             /\ after[j].revision = before[j].revision + 1
             /\ after[j].attempt >= before[j].attempt
             /\ SameIdentity(after[j], before[j])
             /\ before[j].revision \in Nat
  <2>1. new[j] = after[j]
    BY <1>2 DEF CasRows
  <2>2. /\ before[j] # NoJob /\ after[j] # NoJob
        /\ after[j].revision = before[j].revision + 1
        /\ after[j].attempt >= before[j].attempt
        /\ SameIdentity(after[j], before[j])
    BY <1>2 DEF Advances
  <2>3. rows[j] # NoJob /\ rows[j].revision = before[j].revision
    BY <1>2 DEF CasMatches, Changed
  <2>4. rows[j] = before[j]
    BY <2>2, <2>3 DEF Pair, Coupled
  <2>5. before[j].revision \in Nat
    BY <2>2, FieldTypes DEF Pair
  <2>6. QED BY <2>1, <2>2, <2>4, <2>5
<1>3. SoundEngine(new)
  <2>1. new \in Engine
    BY DEF CasRows, Pair, SoundEngine, Engine
  <2>2. ASSUME NEW j \in JobIds, new[j] # NoJob PROVE SoundJob(new[j])
    BY <1>1, <1>2, <2>2 DEF Pair, SoundEngine
  <2>3. QED BY <2>1, <2>2 DEF SoundEngine
<1> HIDE DEF new
<1>4. Coupled(after, new)
  BY <1>1, <1>2 DEF Pair, Coupled, SameIdentity
<1>5. Coupled(before, new)
  <2>1. SUFFICES ASSUME NEW j \in JobIds, before[j] # NoJob, new[j] # NoJob
                 PROVE  /\ SameIdentity(before[j], new[j])
                        /\ before[j].revision = new[j].revision
                             => before[j] = new[j]
    BY DEF Coupled
  <2>2. CASE after[j] = before[j]
    BY <1>1, <2>1, <2>2 DEF Pair, Coupled
  <2>3. CASE after[j] # before[j]
    BY <1>2, <2>3 DEF SameIdentity
  <2>4. QED BY <2>2, <2>3
<1>6. c = "open" => NotBehind(after, new)
  <2>1. SUFFICES ASSUME c = "open", NEW j \in JobIds, after[j] # NoJob,
                        new[j] # NoJob
                 PROVE  after[j].revision >= new[j].revision
    BY DEF NotBehind
  <2>2. CASE after[j] = before[j]
    BY <1>1, <2>1, <2>2 DEF Pair, NotBehind
  <2>3. CASE after[j] # before[j]
    <3>1. after[j].revision \in Nat
      BY <2>1, FieldTypes
    <3>2. QED BY <1>2, <2>3, <3>1
  <2>4. QED BY <2>2, <2>3
<1>7. Grows(rows, new)
  <2>1. SUFFICES ASSUME NEW j \in JobIds, rows[j] # NoJob
                 PROVE  new[j] # NoJob /\ new[j].attempt >= rows[j].attempt
    BY DEF Grows
  <2>2. CASE after[j] = before[j]
    <3>1. rows[j].attempt \in Nat
      BY <2>1, FieldTypes DEF Pair
    <3>2. QED BY <1>1, <2>1, <2>2, <3>1
  <2>3. CASE after[j] # before[j]
    BY <1>2, <2>3
  <2>4. QED BY <2>2, <2>3
<1>8. QED BY <1>3, <1>4, <1>5, <1>6, <1>7 DEF Pair, new

(* An empty change set matches every table.                                *)
LEMMA PersistedMatches ==
  ASSUME NEW before, NEW after, NEW rows, Persisted(rows, before, after)
  PROVE  CasMatches(rows, before, after)
  BY DEF Persisted, CasMatches

(* A failed statement, whatever became of it, leaves a coupled pair.       *)
LEMMA PersistFailsPair ==
  ASSUME NEW before, NEW after, NEW rows,
         conn \in {"open", "closed"},
         Pair(before, rows, conn), SoundEngine(after), Advances(before, after),
         PersistFails(rows, before, after)
  PROVE  /\ Pair(engine', db', conn') /\ Grows(rows, db')
         /\ engine' = before /\ conn' \in {"open", "closed"}
         /\ manifest' = manifest
<1>1. engine' = before /\ manifest' = manifest
  BY DEF PersistFails
<1>2. Grows(rows, rows)
  BY GrowsRefl DEF Pair
<1>3. CASE db' = rows /\ conn' = conn
  BY <1>1, <1>2, <1>3
<1>4. CASE conn' = "closed" /\ db' = rows
  BY <1>1, <1>2, <1>4 DEF Pair
<1>5. CASE /\ conn' = "closed" /\ CasMatches(rows, before, after)
           /\ db' = CasRows(rows, before, after)
  BY <1>1, <1>5, CasPair
<1>6. QED BY <1>3, <1>4, <1>5 DEF PersistFails

(* persist_single_or_rollback, in all its outcomes.                        *)
LEMMA SavePair ==
  ASSUME conn \in {"open", "closed"}, Pair(engine, db, conn),
         NEW j \in JobIds, engine[j] # NoJob,
         NEW job \in Job, SoundJob(job), job.attempt >= engine[j].attempt,
         job.revision = engine[j].revision + 1, SameIdentity(job, engine[j]),
         NEW ok, Save(j, job, ok)
  PROVE  /\ Pair(engine', db', conn') /\ Grows(db, db')
         /\ Keeps(engine, engine') /\ conn' \in {"open", "closed"}
         /\ manifest' = manifest
<1> DEFINE after == [engine EXCEPT ![j] = job]
<1>1. SoundEngine(after) /\ Advances(engine, after)
  <2>1. job.attempt \in Nat
    BY DEF Job
  <2>2. QED BY <2>1, ReplaceSound DEF Pair
<1> HIDE DEF after
<1>2. \/ /\ Persisted(db, engine, after) /\ engine' = after
         /\ db' = CasRows(db, engine, after) /\ conn' = conn
         /\ manifest' = manifest
      \/ PersistFails(db, engine, after)
  BY DEF Save, after
<1>3. CASE /\ Persisted(db, engine, after) /\ engine' = after
           /\ db' = CasRows(db, engine, after) /\ conn' = conn
           /\ manifest' = manifest
  BY <1>1, <1>3, PersistedMatches, CasPair, AdvancesKeeps
<1>4. CASE PersistFails(db, engine, after)
  <2>1. /\ Pair(engine', db', conn') /\ Grows(db, db') /\ engine' = engine
        /\ conn' \in {"open", "closed"} /\ manifest' = manifest
    BY <1>1, <1>4, PersistFailsPair
  <2>2. QED BY <2>1 DEF Keeps
<1>5. QED BY <1>2, <1>3, <1>4

-----------------------------------------------------------------------------
(* Workers.                                                                *)

(* A worker that was handed a task knows its job and token, one that wrote *)
(* a result its content, and the job of an authorized result is known to   *)
(* the engine e.                                                           *)
WorkerOK(r, e) ==
  /\ r \in WorkerState
  /\ r.pc \notin {"idle", "poll"} => r.job \in JobIds /\ r.token \in Tokens
  /\ r.pc \in {"written", "complete", "authorized", "verified", "promoted"}
       => r.content \in Contents
  /\ r.pc \in {"authorized", "verified", "promoted"} => e[r.job] # NoJob

WorkersOK(ws, e) ==
  DOMAIN ws = Workers /\ ws \in [Workers -> WorkerState]
  /\ \A w \in Workers : WorkerOK(ws[w], e)

(* A worker's session survives any change that keeps the jobs.             *)
LEMMA WorkerKept ==
  ASSUME NEW r, NEW e, NEW f, WorkerOK(r, e), Keeps(e, f)
  PROVE  WorkerOK(r, f)
  BY DEF WorkerOK, Keeps

(* So do the sessions of all workers.                                      *)
LEMMA WorkersKept ==
  ASSUME NEW ws, NEW e, NEW f, WorkersOK(ws, e), Keeps(e, f)
  PROVE  WorkersOK(ws, f)
  BY WorkerKept DEF WorkersOK

(* One session changes, the others keep theirs.                            *)
LEMMA OneWorker ==
  ASSUME NEW ws, NEW e, NEW f, NEW w \in Workers, NEW r, WorkersOK(ws, e),
         Keeps(e, f), WorkerOK(r, f)
  PROVE  WorkersOK([ws EXCEPT ![w] = r], f)
<1>1. [ws EXCEPT ![w] = r] \in [Workers -> WorkerState]
  BY DEF WorkersOK, WorkerOK
<1>2. ASSUME NEW v \in Workers PROVE WorkerOK([ws EXCEPT ![w] = r][v], f)
  <2>1. CASE v = w
    BY <2>1 DEF WorkersOK
  <2>2. CASE v # w
    BY <2>2, WorkerKept DEF WorkersOK
  <2>3. QED BY <2>1, <2>2
<1>3. QED BY <1>1, <1>2 DEF WorkersOK

(* Closing a session.                                                      *)
LEMMA CloseOK ==
  ASSUME NEW w \in Workers, NEW e, NEW f, WorkersOK(worker, e), Keeps(e, f),
         Close(w)
  PROVE  WorkersOK(worker', f)
<1>1. WorkerOK(IdleWorker, f)
  BY DEF WorkerOK, IdleWorker, WorkerState, WorkerPc
<1>2. QED BY <1>1, OneWorker DEF Close

(* The program counter moves; the session keeps its job, token, content.   *)
LEMMA MoveOK ==
  ASSUME NEW w \in Workers, NEW e, NEW f, NEW to, NEW at \in Nat,
         WorkersOK(worker, e), Keeps(e, f), to \in WorkerPc,
         to \notin {"idle", "poll"} => worker[w].pc \notin {"idle", "poll"},
         to \in {"written", "complete", "authorized", "verified", "promoted"}
           => worker[w].pc \in {"written", "complete", "authorized",
                                "verified", "promoted"},
         to \in {"authorized", "verified", "promoted"}
           => f[worker[w].job] # NoJob,
         worker' = [worker EXCEPT ![w] = [@ EXCEPT !.pc = to, !.at = at]]
  PROVE  WorkersOK(worker', f)
<1> DEFINE r == [worker[w] EXCEPT !.pc = to, !.at = at]
<1>1. WorkerOK(worker[w], e)
  BY DEF WorkersOK
<1>2. /\ r \in WorkerState /\ r.pc = to /\ r.job = worker[w].job
      /\ r.token = worker[w].token /\ r.content = worker[w].content
  BY <1>1 DEF WorkerOK, WorkerState
<1>3. WorkerOK(r, f)
  <2>1. r.pc \notin {"idle", "poll"} => r.job \in JobIds /\ r.token \in Tokens
    BY <1>1, <1>2 DEF WorkerOK
  <2>2. r.pc \in {"written", "complete", "authorized", "verified", "promoted"}
          => r.content \in Contents
    BY <1>1, <1>2 DEF WorkerOK
  <2>3. r.pc \in {"authorized", "verified", "promoted"} => f[r.job] # NoJob
    BY <1>2
  <2>4. QED BY <1>2, <2>1, <2>2, <2>3 DEF WorkerOK
<1>4. worker' = [worker EXCEPT ![w] = r]
  BY DEF WorkersOK
<1>5. QED BY <1>3, <1>4, OneWorker

(* A request moves its worker and stamps the time of arrival.              *)
LEMMA SendMoves ==
  ASSUME NEW w \in Workers, NEW e, WorkersOK(worker, e), NEW from, NEW to,
         Send(w, from, to)
  PROVE  worker' = [worker EXCEPT ![w] = [@ EXCEPT !.pc = to, !.at = clock]]
         /\ worker[w].pc = from
  BY DEF Send, WorkersOK, WorkerState

(* A handler moves its worker and keeps that time.                         *)
LEMMA GotoMoves ==
  ASSUME NEW w \in Workers, NEW e, WorkersOK(worker, e), NEW to, Goto(w, to)
  PROVE  worker' = [worker EXCEPT ![w] = [@ EXCEPT !.pc = to,
                                                   !.at = worker[w].at]]
         /\ worker[w].at \in Nat
<1>1. worker[w] \in WorkerState
  BY DEF WorkersOK
<1>2. worker[w].at \in Nat
  BY <1>1 DEF WorkerState
<1>3. [worker[w] EXCEPT !.pc = to] = [worker[w] EXCEPT !.pc = to, !.at = worker[w].at]
  BY <1>1 DEF WorkerState
<1>4. worker' = [worker EXCEPT ![w] = [worker[w] EXCEPT !.pc = to]]
  BY DEF Goto, WorkersOK
<1>5. QED BY <1>2, <1>3, <1>4

-----------------------------------------------------------------------------
(* The inductive invariant.                                                *)

Storage ==
  /\ manifest \in [Artifacts -> JobIds \cup {None}]
  /\ files \in [Artifacts -> Contents \cup {None}]
  /\ staging \in [JobIds -> Contents \cup {None}]

Control ==
  clock \in 0..MaxClock /\ proc \in {"up", "down"} /\ conn \in {"open", "closed"}

(* While the daemon is down no session is open.                            *)
Downtime ==
  proc = "down" => \A w \in Workers : worker[w].pc \in {"idle", "orphan"}

IInv ==
  /\ Control /\ Storage /\ Downtime
  /\ dispatched \in [JobIds -> Nat]
  /\ WorkersOK(worker, engine)
  /\ Pair(engine, db, conn)
  /\ DispatchBudget

(* The invariant implies the properties.                                   *)
LEMMA IInvImplies ==
  ASSUME IInv
  PROVE  TypeOK /\ RowsRecoverable /\ RevisionNamesVersion
<1>1. TypeOK
  BY DEF IInv, Control, Storage, WorkersOK, Pair, SoundEngine, TypeOK
<1>2. RowsRecoverable
  BY DEF IInv, Pair, SoundEngine, SoundJob, RowsRecoverable, Present
<1>3. RevisionNamesVersion
  BY DEF IInv, Pair, Coupled, NotBehind, RevisionNamesVersion, Present
<1>4. QED BY <1>1, <1>2, <1>3

(* It holds of the empty store.                                            *)
LEMMA InitIInv == Init => IInv
<1> SUFFICES ASSUME Init PROVE IInv
  OBVIOUS
<1>1. Control /\ Storage /\ dispatched \in [JobIds -> Nat]
  BY ClockAssumption DEF Init, Control, Storage
<1>2. WorkersOK(worker, engine)
  BY DEF Init, WorkersOK, WorkerOK, IdleWorker, WorkerState, WorkerPc
<1>3. SoundEngine(NoJobs)
  BY DEF NoJobs, SoundEngine, Engine
<1>4. Pair(engine, db, conn)
  BY <1>3 DEF Init, Pair, Coupled, NotBehind, NoJobs
<1>5. DispatchBudget
  BY DEF Init, DispatchBudget
<1>6. Downtime
  BY DEF Init, Downtime
<1>7. QED BY <1>1, <1>2, <1>4, <1>5, <1>6 DEF IInv

(* Tasks are handed out by PollClaim only; a table that only grows keeps   *)
(* every other step within the budget.                                     *)
LEMMA BudgetKept ==
  ASSUME IInv, SoundEngine(db'), Grows(db, db'), dispatched' = dispatched
  PROVE  DispatchBudget'
<1>1. SUFFICES ASSUME NEW j \in JobIds, dispatched[j] > 0
               PROVE  /\ db'[j] # NoJob /\ dispatched[j] <= db'[j].attempt
                      /\ db'[j].attempt <= db'[j].max
  BY DEF DispatchBudget
<1>2. db[j] # NoJob /\ dispatched[j] <= db[j].attempt
  BY <1>1 DEF IInv, DispatchBudget
<1>3. db'[j] # NoJob /\ db'[j].attempt >= db[j].attempt
  BY <1>2 DEF Grows
<1>4. db[j].attempt \in Nat /\ db'[j].attempt \in Nat /\ dispatched[j] \in Nat
  BY <1>2, <1>3, FieldTypes DEF IInv, Pair
<1>5. db'[j].attempt <= db'[j].max
  BY <1>3 DEF SoundEngine, SoundJob, AccountingValid
<1>6. QED BY <1>2, <1>3, <1>4, <1>5

(* Steps that touch neither engine nor table.                              *)
LEMMA QuietStep ==
  ASSUME IInv, engine' = engine, db' = db, manifest' = manifest,
         dispatched' = dispatched, Control', Storage',
         conn' \in {conn, "closed"}, WorkersOK(worker', engine'), Downtime'
  PROVE  IInv'
<1>1. Pair(engine', db', conn')
  BY DEF IInv, Pair
<1>2. DispatchBudget'
  BY DEF IInv, DispatchBudget
<1>3. QED BY <1>1, <1>2 DEF IInv

(* Steps that change engine and table together.                            *)
LEMMA StoreStep ==
  ASSUME IInv, Pair(engine', db', conn'), Grows(db, db'),
         conn' \in {"open", "closed"}, Storage', clock' = clock,
         proc = "up", proc' = proc,
         dispatched' = dispatched, WorkersOK(worker', engine')
  PROVE  IInv'
<1>1. DispatchBudget'
  BY BudgetKept DEF Pair
<1>2. Control' /\ dispatched' \in [JobIds -> Nat] /\ Downtime'
  BY DEF IInv, Control, Downtime
<1>3. QED BY <1>1, <1>2 DEF IInv

(* The files stay typed when they do not change.                           *)
LEMMA DiskKept ==
  ASSUME IInv, UNCHANGED disk, manifest' = manifest PROVE Storage'
  BY DEF IInv, Storage, disk

(* An unchanged engine keeps its jobs.                                     *)
LEMMA KeepsRefl == \A e : Keeps(e, e)
  BY DEF Keeps

-----------------------------------------------------------------------------
(* Administration steps.                                                   *)

(* insert_or_get adds the candidate under a free id or changes nothing.    *)
LEMMA InsertRowAdds ==
  ASSUME Pair(engine, db, conn), NEW j \in JobIds, NEW job \in Job,
         SoundJob(job),
         (engine[j] = NoJob /\ db[j] = NoJob) \/ engine[j] = job
  PROVE  /\ SoundEngine(InsertRow(j, job))
         /\ \A i \in JobIds \ {j} : InsertRow(j, job)[i] = db[i]
         /\ \/ InsertRow(j, job)[j] = db[j]
            \/ db[j] = NoJob /\ InsertRow(j, job)[j] = job
         /\ Grows(db, InsertRow(j, job))
<1>1. SoundEngine(db) /\ db \in [JobIds -> Job \cup {NoJob}]
  BY DEF Pair, SoundEngine, Engine
<1>2. CASE KeyTaken(db, job.key)
  BY <1>1, <1>2, GrowsRefl DEF InsertRow
<1>3. CASE ~KeyTaken(db, job.key)
  <2>1. InsertRow(j, job) = [db EXCEPT ![j] = job]
    BY <1>3 DEF InsertRow
  <2>2. db[j] = NoJob
    <3>1. SUFFICES ASSUME db[j] # NoJob PROVE FALSE
      OBVIOUS
    <3>2. engine[j] = job /\ engine[j] # NoJob
      BY <3>1, AbsentAssumption
    <3>3. job.key = db[j].key
      BY <3>1, <3>2 DEF Pair, Coupled, SameIdentity
    <3>4. QED BY <1>3, <3>1, <3>3 DEF KeyTaken, Present
  <2>3. SoundEngine([db EXCEPT ![j] = job])
    BY <1>1 DEF SoundEngine, Engine
  <2>4. Grows(db, [db EXCEPT ![j] = job])
    BY <1>1, <2>2, FieldTypes DEF Grows
  <2>5. QED BY <1>1, <2>1, <2>2, <2>3, <2>4
<1>4. QED BY <1>2, <1>3

(* The engine and the table after the candidate reached neither, one or    *)
(* both of them.                                                           *)
LEMMA CandidatePair ==
  ASSUME Pair(engine, db, conn), NEW j \in JobIds, NEW job \in Job,
         SoundJob(job),
         (engine[j] = NoJob /\ db[j] = NoJob) \/ engine[j] = job
  PROVE  /\ Pair(engine, InsertRow(j, job), conn)
         /\ Pair([engine EXCEPT ![j] = job], db, conn)
         /\ Pair([engine EXCEPT ![j] = job], InsertRow(j, job), conn)
         /\ InsertRow(j, job)[j] # NoJob =>
              Pair([engine EXCEPT ![j] = InsertRow(j, job)[j]],
                   InsertRow(j, job), conn)
<1> DEFINE new == InsertRow(j, job)
<1>1. /\ SoundEngine(new) /\ \A i \in JobIds \ {j} : new[i] = db[i]
      /\ new[j] = db[j] \/ (db[j] = NoJob /\ new[j] = job)
  BY InsertRowAdds
<1> HIDE DEF new
<1>2. /\ SoundEngine(engine) /\ engine \in [JobIds -> Job \cup {NoJob}]
      /\ SoundEngine(db) /\ job \in Job /\ job.revision \in Nat
  BY DEF Pair, SoundEngine, Engine, Job
<1>3. ASSUME NEW x \in Job, SoundJob(x)
      PROVE  SoundEngine([engine EXCEPT ![j] = x])
  BY <1>2, <1>3 DEF SoundEngine, Engine
<1>4. ASSUME NEW e, NEW rows, SoundEngine(e), SoundEngine(rows),
             \A i \in JobIds \ {j} : e[i] = engine[i] /\ rows[i] = db[i],
             \/ e[j] = NoJob \/ rows[j] = NoJob \/ e[j] = rows[j]
             \/ e[j] = engine[j] /\ rows[j] = db[j]
      PROVE  Pair(e, rows, conn)
  <2>1. ASSUME NEW i \in JobIds, e[i] # NoJob, rows[i] # NoJob
        PROVE  /\ SameIdentity(e[i], rows[i])
               /\ e[i].revision = rows[i].revision => e[i] = rows[i]
               /\ conn = "open" => e[i].revision >= rows[i].revision
    <3>1. CASE e[i] = engine[i] /\ rows[i] = db[i]
      BY <2>1, <3>1 DEF Pair, Coupled, NotBehind
    <3>2. CASE e[i] = rows[i]
      <4>1. e[i].revision \in Nat
        BY <1>4, <2>1, FieldTypes
      <4>2. QED BY <3>2, <4>1 DEF SameIdentity
    <3>3. QED BY <1>4, <2>1, <3>1, <3>2
  <2>2. QED BY <1>4, <2>1 DEF Pair, Coupled, NotBehind
<1>5. Pair(engine, new, conn)
  BY <1>1, <1>2, <1>4
<1>6. Pair([engine EXCEPT ![j] = job], db, conn)
  BY <1>2, <1>3, <1>4
<1>7. Pair([engine EXCEPT ![j] = job], new, conn)
  BY <1>1, <1>2, <1>3, <1>4
<1>8. ASSUME new[j] # NoJob
      PROVE  Pair([engine EXCEPT ![j] = new[j]], new, conn)
  <2>1. new[j] \in Job /\ SoundJob(new[j])
    BY <1>1, <1>8 DEF SoundEngine, Engine
  <2>2. QED BY <1>1, <1>2, <1>3, <1>4, <2>1
<1>9. QED BY <1>5, <1>6, <1>7, <1>8 DEF new

(* insert_or_get and what follows keep engine and table coupled, also when *)
(* the connection is lost or the handler is dropped.                       *)
LEMMA SubmitCandidatePair ==
  ASSUME Pair(engine, db, conn), NEW j \in JobIds, NEW job \in Job,
         conn \in {"open", "closed"}, SoundJob(job),
         (engine[j] = NoJob /\ db[j] = NoJob) \/ engine[j] = job,
         SubmitCandidate(j, job)
  PROVE  /\ Pair(engine', db', conn') /\ Grows(db, db')
         /\ Keeps(engine, engine') /\ conn' \in {"open", "closed"}
         /\ manifest' = manifest
<1> DEFINE new == InsertRow(j, job)
           k == StoredUnder(j, job)
<1>1. /\ Pair(engine, new, conn) /\ Pair([engine EXCEPT ![j] = job], db, conn)
      /\ Pair([engine EXCEPT ![j] = job], new, conn)
      /\ new[j] # NoJob => Pair([engine EXCEPT ![j] = new[j]], new, conn)
      /\ Grows(db, new) /\ Grows(db, db) /\ manifest' = manifest
  BY CandidatePair, InsertRowAdds, GrowsRefl DEF Pair, SubmitCandidate
<1>2. ASSUME NEW x, x # NoJob
      PROVE  Keeps(engine, [engine EXCEPT ![j] = x]) /\ Keeps(engine, engine)
  BY <1>2 DEF Keeps, Pair, SoundEngine, Engine
<1>3. ASSUME k = j PROVE new[j] # NoJob
  <2>1. CASE KeyTaken(db, job.key)
    <3>1. \E i \in Present(db) : db[i].key = job.key
      BY <2>1 DEF KeyTaken
    <3>2. k \in Present(db)
      BY <2>1, <3>1 DEF StoredUnder
    <3>3. QED BY <1>3, <2>1, <3>2 DEF InsertRow, Present
  <2>2. CASE ~KeyTaken(db, job.key)
    BY <2>2, AbsentAssumption DEF InsertRow, Pair, SoundEngine, Engine
  <2>3. QED BY <2>1, <2>2
<1>4. job # NoJob
  BY AbsentAssumption
<1>5. CASE /\ db' = new /\ conn' = conn
           /\ engine' \in {engine, [engine EXCEPT ![j] = new[j]]}
           /\ engine' # engine => k = j
  <2>1. CASE engine' = engine
    BY <1>1, <1>2, <1>4, <1>5, <2>1
  <2>2. CASE engine' # engine
    <3>1. new[j] # NoJob /\ engine' = [engine EXCEPT ![j] = new[j]]
      BY <1>3, <1>5, <2>2
    <3>2. QED BY <1>1, <1>2, <1>5, <3>1
  <2>3. QED BY <2>1, <2>2
<1>6. CASE /\ engine' = engine /\ db' \in {db, new}
           /\ conn' = "closed" \/ (conn' = conn /\ db' = db)
  BY <1>1, <1>2, <1>4, <1>6 DEF Pair
<1>7. CASE /\ engine' = [engine EXCEPT ![j] = job] /\ conn' = conn
           /\ db' \in {db, new}
  BY <1>1, <1>2, <1>4, <1>7
<1>8. QED BY <1>5, <1>6, <1>7 DEF SubmitCandidate, Replaceable

(* Submission: a new job, or the job its key names.                        *)
LEMMA SubmitStep ==
  ASSUME IInv, NEW j \in JobIds, NEW key \in Keys, NEW r \in Requests,
         NEW d \in Deadlines, NEW m \in 1..MaxAttempts,
         Submit(j, key, r, d, m)
  PROVE  IInv'
<1>1. clock \in Nat /\ d \in Nat /\ conn \in {"open", "closed"}
  BY ClockAssumption DEF IInv, Control
<1>2. PICK job \in Job : /\ SoundJob(job) /\ SubmitCandidate(j, job)
                         /\ \/ engine[j] = NoJob /\ db[j] = NoJob
                            \/ engine[j] = job
  <2>1. CASE /\ SubmittedNew(j, key, r, d, m)
             /\ SubmitCandidate(j, NewJob(key, r, d, m, clock))
    BY <1>1, <2>1, NewJobSound DEF SubmittedNew
  <2>2. CASE SubmittedAgain(j, key, r, d) /\ SubmitCandidate(j, engine[j])
    BY <2>2 DEF SubmittedAgain, IInv, Pair, SoundEngine, Engine
  <2>3. QED BY <2>1, <2>2 DEF Submit
<1>3. /\ Pair(engine', db', conn') /\ Grows(db, db') /\ Keeps(engine, engine')
      /\ conn' \in {"open", "closed"} /\ manifest' = manifest
  BY <1>1, <1>2, SubmitCandidatePair DEF IInv
<1>4. WorkersOK(worker', engine')
  BY <1>3, WorkersKept DEF IInv, Submit
<1>5. QED BY <1>3, <1>4, DiskKept, StoreStep DEF Submit

(* Cancellation, completed, rolled back or abandoned.                      *)
LEMMA CancelStep ==
  ASSUME IInv, NEW j \in JobIds, Cancel(j)
  PROVE  IInv'
<1> DEFINE job == CancelJob(engine[j])
           after == [engine EXCEPT ![j] = job]
<1>1. /\ engine[j] \in Job /\ engine[j] # NoJob /\ SoundJob(engine[j])
      /\ Cancelable(engine[j]) /\ engine[j].attempt \in Nat
      /\ engine[j].revision \in Nat
  BY FieldTypes DEF Cancel, IInv, Pair, SoundEngine
<1>2. /\ job \in Job /\ SoundJob(job) /\ job.revision = engine[j].revision + 1
      /\ job.attempt = engine[j].attempt /\ SameIdentity(job, engine[j])
  BY <1>1, CancelSound
<1> HIDE DEF job
<1>3. SoundEngine(after) /\ Advances(engine, after)
  BY <1>1, <1>2, ReplaceSound DEF IInv, Pair
<1>4. /\ Pair(engine', db', conn') /\ Grows(db, db') /\ Keeps(engine, engine')
      /\ conn' \in {"open", "closed"} /\ manifest' = manifest
  <2>1. CASE \E ok \in BOOLEAN : Save(j, job, ok)
    BY <1>1, <1>2, <2>1, SavePair DEF IInv, Control
  <2>2. CASE /\ conn = "open" /\ conn' = conn
             /\ engine' = after /\ db' = db /\ manifest' = manifest
    <3>1. Pair(after, db, conn)
      <4>1. ASSUME NEW i \in JobIds, after[i] # NoJob, db[i] # NoJob
            PROVE  /\ SameIdentity(after[i], db[i])
                   /\ after[i].revision = db[i].revision => after[i] = db[i]
                   /\ conn = "open" => after[i].revision >= db[i].revision
        <5>1. CASE i # j
          BY <4>1, <5>1 DEF IInv, Pair, Coupled, NotBehind, SoundEngine, Engine
        <5>2. CASE i = j
          <6>1. /\ after[j] = job /\ SameIdentity(engine[j], db[j])
                /\ engine[j].revision >= db[j].revision
            BY <1>1, <2>2, <4>1, <5>2 DEF IInv, Pair, Coupled, NotBehind, SoundEngine, Engine
          <6>2. SameIdentity(job, db[j])
            BY <1>2, <6>1 DEF SameIdentity
          <6>3. db[j].revision \in Nat
            BY <4>1, <5>2, FieldTypes DEF IInv, Pair
          <6>4. job.revision > db[j].revision
            BY <1>1, <1>2, <6>1, <6>3
          <6>5. QED BY <5>2, <6>1, <6>2, <6>3, <6>4, <1>1, <1>2
        <5>3. QED BY <5>1, <5>2
      <4>2. QED BY <1>3, <4>1 DEF IInv, Pair, Coupled, NotBehind
    <3>2. QED BY <1>3, <2>2, <3>1, GrowsRefl, AdvancesKeeps DEF IInv, Control, Pair
  <2>3. CASE /\ engine' = after /\ CasMatches(db, engine, after)
             /\ db' = CasRows(db, engine, after) /\ conn' = conn
             /\ manifest' = manifest
    BY <1>3, <2>3, CasPair, AdvancesKeeps DEF IInv, Control
  <2>4. QED BY <2>1, <2>2, <2>3 DEF Cancel, job
<1>5. WorkersOK(worker', engine')
  BY <1>4, WorkersKept DEF IInv, Cancel
<1>6. QED BY <1>4, <1>5, DiskKept, StoreStep DEF Cancel

-----------------------------------------------------------------------------
(* Poll steps.                                                             *)

(* Keeping the jobs composes.                                              *)
LEMMA KeepsTrans ==
  ASSUME NEW a, NEW b, NEW c, Keeps(a, b), Keeps(b, c) PROVE Keeps(a, c)
  BY DEF Keeps

(* The engine after expiry and after requeueing.                           *)
LEMMA ReconciledSound ==
  ASSUME IInv, NEW w \in Workers
  PROVE  /\ SoundEngine(Reconciled(w)) /\ Advances(engine, Reconciled(w))
         /\ SoundEngine(Requeued(w)) /\ Advances(Reconciled(w), Requeued(w))
         /\ worker[w].at \in Nat
<1>1. worker[w].at \in Nat
  BY DEF IInv, WorkersOK, WorkerState
<1>2. SoundEngine(Reconciled(w)) /\ Advances(engine, Reconciled(w))
  BY <1>1, ExpireLeasesSound DEF IInv, Pair, Reconciled
<1>3. SoundEngine(Requeued(w)) /\ Advances(Reconciled(w), Requeued(w))
  BY <1>1, <1>2, RequeueRetryableSound DEF Requeued
<1>4. QED BY <1>1, <1>2, <1>3

(* The pair once the expired leases are persisted.                         *)
LEMMA ReconciledPair ==
  ASSUME IInv, NEW w \in Workers, Persisted(db, engine, Reconciled(w))
  PROVE  /\ Pair(Reconciled(w), RowsReconciled(w), conn)
         /\ Grows(db, RowsReconciled(w)) /\ Keeps(engine, Reconciled(w))
  BY ReconciledSound, PersistedMatches, CasPair, AdvancesKeeps
     DEF IInv, RowsReconciled

(* The pair once the requeued jobs are persisted too.                      *)
LEMMA ReachesClaimPair ==
  ASSUME IInv, NEW w \in Workers, ReachesClaim(w)
  PROVE  /\ Pair(Requeued(w), RowsRequeued(w), conn)
         /\ Grows(db, RowsRequeued(w)) /\ Keeps(engine, Requeued(w))
<1>1. /\ Pair(Reconciled(w), RowsReconciled(w), conn)
      /\ Grows(db, RowsReconciled(w)) /\ Keeps(engine, Reconciled(w))
  BY ReconciledPair DEF ReachesClaim
<1>2. CasMatches(RowsReconciled(w), Reconciled(w), Requeued(w))
  BY PersistedMatches DEF ReachesClaim
<1>3. /\ Pair(Requeued(w), RowsRequeued(w), conn)
      /\ Grows(RowsReconciled(w), RowsRequeued(w))
  BY <1>1, <1>2, ReconciledSound, CasPair DEF RowsRequeued
<1>4. Grows(db, RowsRequeued(w))
  BY <1>1, <1>3, GrowsTrans DEF IInv, Pair
<1>5. Keeps(engine, Requeued(w))
  BY <1>1, ReconciledSound, AdvancesKeeps, KeepsTrans
<1>6. QED BY <1>3, <1>4, <1>5

(* The engine with the chosen job claimed.                                 *)
LEMMA ClaimedSound ==
  ASSUME IInv, NEW w \in Workers, NEW j \in JobIds, NEW t \in Tokens,
         NextClaim(Requeued(w), j, Capabilities[w], worker[w].at)
  PROVE  /\ SoundEngine(ClaimedEngine(w, j, t))
         /\ Advances(Requeued(w), ClaimedEngine(w, j, t))
         /\ ClaimedEngine(w, j, t)[j] # NoJob
         /\ ClaimedEngine(w, j, t)[j].revision = Requeued(w)[j].revision + 1
         /\ ClaimedEngine(w, j, t)[j].attempt = Requeued(w)[j].attempt + 1
         /\ Requeued(w)[j].attempt \in Nat /\ Requeued(w)[j].revision \in Nat
<1> DEFINE e == Requeued(w)
           job == Claim(e[j], w, t, worker[w].at)
<1>1. SoundEngine(e) /\ worker[w].at \in Nat
  BY ReconciledSound
<1>2. /\ e[j] # NoJob /\ e[j].status = "pending" /\ e[j].attempt < e[j].max
      /\ worker[w].at < e[j].deadline
  BY DEF NextClaim, Claimable
<1>3. ClaimedEngine(w, j, t) = [e EXCEPT ![j] = job]
  BY <1>1 DEF ClaimedEngine, SoundEngine, Engine
<1> HIDE DEF e
<1>4. /\ e[j] \in Job /\ SoundJob(e[j]) /\ e[j].attempt \in Nat
      /\ e[j].revision \in Nat
  BY <1>1, <1>2, FieldTypes DEF SoundEngine
<1>5. /\ job \in Job /\ SoundJob(job) /\ job.revision = e[j].revision + 1
      /\ job.attempt = e[j].attempt + 1 /\ SameIdentity(job, e[j])
  BY <1>1, <1>2, <1>4, ClaimSound
<1> HIDE DEF job
<1>6. SoundEngine([e EXCEPT ![j] = job]) /\ Advances(e, [e EXCEPT ![j] = job])
  BY <1>1, <1>2, <1>4, <1>5, ReplaceSound
<1>7. [e EXCEPT ![j] = job][j] = job /\ job # NoJob
  BY <1>1, <1>5, AbsentAssumption DEF SoundEngine, Engine
<1>8. QED BY <1>3, <1>4, <1>5, <1>6, <1>7 DEF e

(* A poll whose first, second or third transaction fails.                  *)
LEMMA PollFailsStep ==
  ASSUME IInv, NEW w \in Workers,
         \/ PollExpireFails(w) \/ PollRequeueFails(w)
         \/ \E j \in JobIds, t \in Tokens : PollClaimFails(w, j, t)
  PROVE  IInv'
<1>1. conn \in {"open", "closed"}
  BY DEF IInv, Control
<1>2. /\ Pair(engine', db', conn') /\ Grows(db, db') /\ Keeps(engine, engine')
      /\ conn' \in {"open", "closed"} /\ manifest' = manifest
  <2>1. CASE PollExpireFails(w)
    <3>1. PersistFails(db, engine, Reconciled(w))
      BY <2>1 DEF PollExpireFails, Reconciled
    <3>2. /\ Pair(engine', db', conn') /\ Grows(db, db') /\ engine' = engine
          /\ conn' \in {"open", "closed"} /\ manifest' = manifest
      BY <1>1, <3>1, ReconciledSound, PersistFailsPair DEF IInv
    <3>3. QED BY <3>2, KeepsRefl
  <2>2. CASE PollRequeueFails(w)
    <3>1. /\ Pair(Reconciled(w), RowsReconciled(w), conn)
          /\ Grows(db, RowsReconciled(w)) /\ Keeps(engine, Reconciled(w))
      BY <2>2, ReconciledPair DEF PollRequeueFails
    <3>2. /\ Pair(engine', db', conn') /\ Grows(RowsReconciled(w), db')
          /\ engine' = Reconciled(w)
          /\ conn' \in {"open", "closed"} /\ manifest' = manifest
      BY <1>1, <2>2, <3>1, ReconciledSound, PersistFailsPair DEF PollRequeueFails
    <3>3. Grows(db, db')
      BY <3>1, <3>2, GrowsTrans DEF IInv, Pair
    <3>4. QED BY <3>1, <3>2, <3>3
  <2>3. CASE \E j \in JobIds, t \in Tokens : PollClaimFails(w, j, t)
    <3>1. PICK j \in JobIds, t \in Tokens : PollClaimFails(w, j, t)
      BY <2>3
    <3>2. /\ Pair(Requeued(w), RowsRequeued(w), conn)
          /\ Grows(db, RowsRequeued(w)) /\ Keeps(engine, Requeued(w))
      BY <3>1, ReachesClaimPair DEF PollClaimFails
    <3>3. /\ SoundEngine(ClaimedEngine(w, j, t))
          /\ Advances(Requeued(w), ClaimedEngine(w, j, t))
      BY <3>1, ClaimedSound DEF PollClaimFails
    <3>4. /\ Pair(engine', db', conn') /\ Grows(RowsRequeued(w), db')
          /\ engine' = Requeued(w)
          /\ conn' \in {"open", "closed"} /\ manifest' = manifest
      BY <1>1, <3>1, <3>2, <3>3, PersistFailsPair DEF PollClaimFails
    <3>5. Grows(db, db')
      BY <3>2, <3>4, GrowsTrans DEF IInv, Pair
    <3>6. QED BY <3>2, <3>4, <3>5
  <2>4. QED BY <2>1, <2>2, <2>3
<1>3. /\ Close(w) /\ clock' = clock /\ proc' = proc /\ proc = "up"
      /\ dispatched' = dispatched /\ UNCHANGED disk
  BY DEF PollExpireFails, PollRequeueFails, PollClaimFails, ReachesClaim
<1>4. WorkersOK(worker', engine')
  BY <1>2, <1>3, CloseOK DEF IInv
<1>5. QED BY <1>2, <1>3, <1>4, DiskKept, StoreStep

(* A poll that finds nothing to claim.                                     *)
LEMMA PollNoWorkStep ==
  ASSUME IInv, NEW w \in Workers, PollNoWork(w)
  PROVE  IInv'
<1>1. /\ Pair(engine', db', conn') /\ Grows(db, db') /\ Keeps(engine, engine')
      /\ conn' \in {"open", "closed"} /\ manifest' = manifest
  BY ReachesClaimPair DEF PollNoWork, IInv, Control
<1>2. WorkersOK(worker', engine')
  BY <1>1, CloseOK DEF IInv, PollNoWork
<1>3. QED BY <1>1, <1>2, DiskKept, StoreStep DEF PollNoWork, ReachesClaim

(* A poll that hands out a job: the attempt pays for the dispatch.         *)
LEMMA PollClaimStep ==
  ASSUME IInv, NEW w \in Workers, NEW j \in JobIds, NEW t \in Tokens,
         PollClaim(w, j, t)
  PROVE  IInv'
<1> DEFINE after == ClaimedEngine(w, j, t)
           rows == RowsRequeued(w)
           e == Requeued(w)
<1>1. Pair(e, rows, conn) /\ Grows(db, rows) /\ Keeps(engine, e)
  BY ReachesClaimPair DEF PollClaim
<1>2. /\ SoundEngine(after) /\ Advances(e, after) /\ after[j] # NoJob
      /\ after[j].revision = e[j].revision + 1
      /\ after[j].attempt = e[j].attempt + 1
      /\ e[j].attempt \in Nat /\ e[j].revision \in Nat
  BY ClaimedSound DEF PollClaim
<1>3. /\ CasMatches(rows, e, after) /\ engine' = after
      /\ db' = CasRows(rows, e, after) /\ conn' = conn
  BY PersistedMatches DEF PollClaim
<1>4. dispatched' = [dispatched EXCEPT ![j] = @ + 1]
  BY DEF PollClaim
<1> HIDE DEF after, rows, e
<1>5. Pair(engine', db', conn') /\ Grows(rows, db')
  BY <1>1, <1>2, <1>3, CasPair
<1>6. Grows(db, db')
  BY <1>1, <1>5, GrowsTrans DEF IInv, Pair
<1>7. DispatchBudget'
  <2>1. SUFFICES ASSUME NEW i \in JobIds, dispatched'[i] > 0
                 PROVE  /\ db'[i] # NoJob /\ dispatched'[i] <= db'[i].attempt
                        /\ db'[i].attempt <= db'[i].max
    BY DEF DispatchBudget
  <2>2. dispatched \in [JobIds -> Nat]
    BY DEF IInv
  <2>3. db'[i] # NoJob => db'[i].attempt <= db'[i].max /\ db'[i].attempt \in Nat
    BY <1>5, FieldTypes DEF Pair, SoundEngine, SoundJob, AccountingValid
  <2>4. dispatched[i] > 0 => /\ db[i] # NoJob /\ dispatched[i] <= db[i].attempt
                             /\ db[i].attempt \in Nat
    BY FieldTypes DEF IInv, DispatchBudget, Pair
  <2>5. CASE i # j
    <3>1. dispatched'[i] = dispatched[i]
      BY <1>4, <2>2, <2>5
    <3>2. db'[i] # NoJob /\ db'[i].attempt >= db[i].attempt
      BY <1>6, <2>1, <2>4, <3>1 DEF Grows
    <3>3. QED BY <2>1, <2>2, <2>3, <2>4, <3>1, <3>2
  <2>6. CASE i = j
    <3>1. dispatched'[j] = dispatched[j] + 1
      BY <1>4, <2>2
    <3>2. after[j] # e[j]
      BY <1>2
    <3>3. rows[j] # NoJob /\ rows[j].revision = e[j].revision
      BY <1>3, <3>2 DEF CasMatches, Changed
    <3>4. e[j] # NoJob
      BY <1>2, <3>2 DEF Advances
    <3>5. rows[j] = e[j]
      BY <1>1, <3>3, <3>4 DEF Pair, Coupled
    <3>6. db'[j] = after[j]
      BY <1>3, <3>2 DEF CasRows
    <3>7. dispatched[j] <= e[j].attempt
      <4>1. CASE dispatched[j] = 0
        BY <1>2, <4>1
      <4>2. CASE dispatched[j] # 0
        <5>1. dispatched[j] > 0
          BY <2>2, <4>2
        <5>2. rows[j].attempt >= db[j].attempt
          BY <1>1, <2>4, <2>6, <5>1 DEF Grows
        <5>3. QED BY <1>2, <2>2, <2>4, <2>6, <3>5, <5>1, <5>2
      <4>3. QED BY <4>1, <4>2
    <3>8. dispatched'[j] <= after[j].attempt
      BY <1>2, <2>2, <3>1, <3>7
    <3>9. QED BY <1>2, <2>3, <2>6, <3>6, <3>8
  <2>7. QED BY <2>5, <2>6
<1>8. WorkersOK(worker', engine')
  <2> DEFINE r == [pc |-> "tasked", at |-> 0, job |-> j, token |-> t,
                   content |-> None]
  <2>1. WorkerOK(r, engine')
    BY DEF WorkerOK, WorkerState, WorkerPc
  <2>2. Keeps(engine, engine')
    BY <1>1, <1>2, <1>3, AdvancesKeeps, KeepsTrans
  <2>3. worker' = [worker EXCEPT ![w] = r]
    BY DEF PollClaim
  <2>4. QED BY <2>1, <2>2, <2>3, OneWorker DEF IInv
<1>9. Control' /\ Storage' /\ dispatched' \in [JobIds -> Nat] /\ Downtime'
  <2>1. Storage'
    BY DiskKept DEF PollClaim
  <2>2. Downtime'
    BY DEF Downtime, PollClaim, ReachesClaim
  <2>3. QED BY <1>4, <2>1, <2>2 DEF IInv, Control, PollClaim
<1>10. QED BY <1>5, <1>7, <1>8, <1>9 DEF IInv

-----------------------------------------------------------------------------
(* Session steps.                                                          *)

(* Steps of the session and the worker that change nothing else.           *)
LEMMA SessionStep ==
  ASSUME IInv, proc = "up", NEW w \in Workers, NEW to, NEW at \in Nat,
         worker' = [worker EXCEPT ![w] = [@ EXCEPT !.pc = to, !.at = at]],
         to \in WorkerPc,
         to \notin {"idle", "poll"} => worker[w].pc \notin {"idle", "poll"},
         to \in {"written", "complete", "authorized", "verified", "promoted"}
           => worker[w].pc \in {"written", "complete", "authorized",
                                "verified", "promoted"},
         to \in {"authorized", "verified", "promoted"}
           => engine[worker[w].job] # NoJob,
         UNCHANGED <<clock, proc, store, engine, dispatched>>, Storage'
  PROVE  IInv'
<1>1. WorkersOK(worker', engine')
  BY MoveOK, KeepsRefl DEF IInv
<1>2. QED BY <1>1, QuietStep DEF IInv, Control, store, Downtime

(* A request that changes nothing but its session.                         *)
LEMMA SendStep ==
  ASSUME IInv, proc = "up", NEW w \in Workers, NEW from, NEW to,
         Send(w, from, to),
         to \in WorkerPc,
         to \notin {"idle", "poll"} => from \notin {"idle", "poll"},
         to \in {"written", "complete", "authorized", "verified", "promoted"}
           => from \in {"written", "complete", "authorized",
                       "verified", "promoted"},
         to \in {"authorized", "verified", "promoted"}
           => engine[worker[w].job] # NoJob,
         UNCHANGED <<clock, proc, store, engine, dispatched>>, Storage'
  PROVE  IInv'
<1>1. clock \in Nat /\ WorkersOK(worker, engine)
  BY DEF IInv, Control
<1>2. /\ worker' = [worker EXCEPT ![w] = [@ EXCEPT !.pc = to, !.at = clock]]
      /\ worker[w].pc = from
  BY <1>1, SendMoves
<1>3. QED BY <1>1, <1>2, SessionStep

(* A handler that changes nothing but its session.                         *)
LEMMA GotoStep ==
  ASSUME IInv, proc = "up", NEW w \in Workers, NEW to, Goto(w, to),
         to \in WorkerPc,
         to \notin {"idle", "poll"} => worker[w].pc \notin {"idle", "poll"},
         to \in {"written", "complete", "authorized", "verified", "promoted"}
           => worker[w].pc \in {"written", "complete", "authorized",
                       "verified", "promoted"},
         to \in {"authorized", "verified", "promoted"}
           => engine[worker[w].job] # NoJob,
         UNCHANGED <<clock, proc, store, engine, dispatched>>, Storage'
  PROVE  IInv'
<1>1. /\ worker' = [worker EXCEPT ![w] = [@ EXCEPT !.pc = to,
                                                 !.at = worker[w].at]]
      /\ worker[w].at \in Nat
  BY GotoMoves DEF IInv
<1>2. QED BY <1>1, SessionStep

(* A session that ends and changes nothing else.                           *)
LEMMA CloseStep ==
  ASSUME IInv, NEW w \in Workers, Close(w),
         UNCHANGED <<clock, proc, store, engine, dispatched>>, Storage'
  PROVE  IInv'
<1>1. WorkersOK(worker', engine')
  BY CloseOK, KeepsRefl DEF IInv
<1>2. Downtime'
  BY DEF IInv, Downtime, Close, WorkersOK, IdleWorker
<1>3. QED BY <1>1, <1>2, QuietStep DEF IInv, Control, store

(* The requests of a worker.                                               *)
LEMMA RequestStep ==
  ASSUME IInv, NEW w \in Workers,
         \/ RequestPoll(w) \/ RequestStart(w) \/ RequestComplete(w)
         \/ RequestFail(w)
  PROVE  IInv'
<1>1. clock \in Nat /\ WorkersOK(worker, engine)
  BY DEF IInv, Control
<1>2. Storage' /\ proc = "up"
  BY DiskKept DEF RequestPoll, RequestStart, RequestComplete, RequestFail, store
<1>3. CASE RequestPoll(w)
  BY <1>1, <1>2, <1>3, SendStep DEF RequestPoll, WorkerPc
<1>4. CASE RequestStart(w)
  BY <1>1, <1>2, <1>4, SendStep DEF RequestStart, WorkerPc
<1>5. CASE RequestComplete(w)
  BY <1>1, <1>2, <1>5, SendStep DEF RequestComplete, WorkerPc
<1>6. CASE RequestFail(w)
  BY <1>1, <1>2, <1>6, SendStep DEF RequestFail, WorkerPc
<1>7. QED BY <1>3, <1>4, <1>5, <1>6

(* authorize_result: the engine knows the job of an accepted result.       *)
LEMMA AuthorizeResultStep ==
  ASSUME IInv, NEW w \in Workers, AuthorizeResult(w)
  PROVE  IInv'
<1>1. /\ Storage' /\ UNCHANGED <<clock, proc, store, engine, dispatched>>
      /\ proc = "up"
  BY DiskKept DEF AuthorizeResult, Reject, store
<1>2. CASE LeaseValid(w) /\ Goto(w, "authorized")
  <2>1. engine[worker[w].job] # NoJob
    BY <1>2 DEF LeaseValid
  <2>2. WorkersOK(worker, engine) /\ worker[w].pc = "complete"
    BY DEF IInv, AuthorizeResult
  <2>3. QED BY <1>1, <1>2, <2>1, <2>2, GotoStep DEF WorkerPc
<1>3. CASE Close(w)
  BY <1>1, <1>3, CloseStep
<1>4. QED BY <1>2, <1>3 DEF AuthorizeResult, Reject

(* The hash check of promote_worker_artifact.                              *)
LEMMA VerifyStagingStep ==
  ASSUME IInv, NEW w \in Workers, VerifyStaging(w)
  PROVE  IInv'
<1>1. /\ Storage' /\ UNCHANGED <<clock, proc, store, engine, dispatched>>
      /\ proc = "up"
  BY DiskKept DEF VerifyStaging, store
<1>2. /\ WorkersOK(worker, engine) /\ worker[w].pc = "authorized"
      /\ engine[worker[w].job] # NoJob /\ clock \in Nat
  BY DEF IInv, Control, VerifyStaging, WorkersOK, WorkerOK
<1>3. CASE Send(w, "authorized", "promoted")
  BY <1>1, <1>2, <1>3, SendStep DEF WorkerPc
<1>4. CASE Goto(w, "verified")
  BY <1>1, <1>2, <1>4, GotoStep DEF WorkerPc
<1>5. CASE Close(w)
  BY <1>1, <1>5, CloseStep
<1>6. QED BY <1>3, <1>4, <1>5 DEF VerifyStaging

(* The artifact of a worker that reported a result is well-formed.         *)
LEMMA ArtifactOfType ==
  ASSUME IInv, NEW w \in Workers,
         worker[w].pc \in {"authorized", "verified", "promoted"}
  PROVE  /\ ArtifactOf(w) \in Artifacts /\ worker[w].content \in Contents
         /\ worker[w].job \in JobIds /\ engine[worker[w].job] \in Job
<1>1. /\ worker[w].job \in JobIds /\ worker[w].content \in Contents
      /\ engine[worker[w].job] # NoJob
  BY DEF IInv, WorkersOK, WorkerOK
<1>2. engine[worker[w].job] \in Job
  BY <1>1, FieldTypes DEF IInv, Pair
<1>3. Type(engine[worker[w].job]) \in JobTypes
  BY <1>2, TypeAssumption DEF Type, Job
<1>4. QED BY <1>1, <1>2, <1>3 DEF ArtifactOf, Artifacts

(* The rename of promote_worker_artifact.                                  *)
LEMMA PromoteStep ==
  ASSUME IInv, NEW w \in Workers, Promote(w)
  PROVE  IInv'
<1>1. UNCHANGED <<clock, proc, store, engine, dispatched>> /\ proc = "up"
  BY DEF Promote
<1>2. /\ WorkersOK(worker, engine) /\ worker[w].pc = "verified"
      /\ engine[worker[w].job] # NoJob /\ clock \in Nat
  BY DEF IInv, Control, Promote, WorkersOK, WorkerOK
<1>3. Storage'
  <2>1. ArtifactOf(w) \in Artifacts /\ worker[w].job \in JobIds
    BY <1>2, ArtifactOfType
  <2>2. manifest' = manifest
    BY <1>1 DEF store
  <2>3. CASE UNCHANGED disk
    BY <2>2, <2>3, DiskKept
  <2>4. CASE /\ files' = [files EXCEPT ![ArtifactOf(w)] = staging[worker[w].job]]
             /\ staging' = [staging EXCEPT ![worker[w].job] = None]
    BY <2>1, <2>2, <2>4 DEF IInv, Storage
  <2>5. QED BY <2>3, <2>4 DEF Promote
<1>4. CASE Send(w, "verified", "promoted")
  BY <1>1, <1>2, <1>3, <1>4, SendStep DEF WorkerPc
<1>5. CASE Close(w)
  BY <1>1, <1>3, <1>5, CloseStep
<1>6. QED BY <1>4, <1>5 DEF Promote

(* A worker, in a session or not, replaces the job's result file.          *)
LEMMA WriteResultStep ==
  ASSUME IInv, NEW w \in Workers, NEW c \in Contents, WriteResult(w, c)
  PROVE  IInv'
<1>1. /\ WorkerOK(worker[w], engine) /\ WorkersOK(worker, engine)
      /\ worker[w] \in WorkerState /\ worker[w].job \in JobIds
      /\ worker[w].token \in Tokens
  BY DEF WriteResult, IInv, WorkersOK, WorkerOK
<1>2. UNCHANGED <<clock, proc, store, engine, dispatched>>
  BY DEF WriteResult
<1>3. Storage'
  BY <1>1 DEF WriteResult, IInv, Storage, store
<1>4. CASE Close(w)
  BY <1>2, <1>3, <1>4, CloseStep
<1>5. CASE /\ worker' = [worker EXCEPT ![w].pc = "written", ![w].content = c]
           /\ worker[w].pc = "working"
  <2> DEFINE r == [worker[w] EXCEPT !.pc = "written", !.content = c]
  <2>1. r \in WorkerState
    BY <1>1 DEF WorkerState, WorkerPc
  <2>2. /\ r.pc = "written" /\ r.content = c /\ r.job = worker[w].job
        /\ r.token = worker[w].token
    BY <1>1 DEF WorkerState
  <2>3. worker' = [worker EXCEPT ![w] = r]
    BY <1>1, <1>5 DEF WorkersOK
  <2> HIDE DEF r
  <2>4. WorkerOK(r, engine)
    BY <1>1, <2>1, <2>2 DEF WorkerOK
  <2>5. WorkersOK(worker', engine')
    BY <1>1, <1>2, <2>3, <2>4, OneWorker, KeepsRefl
  <2>6. Downtime'
    BY <1>2, <1>5 DEF IInv, Downtime, Control
  <2>7. QED BY <1>2, <1>3, <2>5, <2>6, QuietStep DEF IInv, Control, store
<1>7. QED BY <1>4, <1>5 DEF WriteResult

(* A session times out or a worker exits.                                  *)
LEMMA WorkerEndsStep ==
  ASSUME IInv, NEW w \in Workers, SessionTimeout(w) \/ WorkerExits(w)
  PROVE  IInv'
<1>1. Storage' /\ UNCHANGED <<clock, proc, store, engine, dispatched>>
  BY DiskKept DEF SessionTimeout, WorkerExits, store
<1>2. WorkersOK(worker, engine)
  BY DEF IInv
<1>3. CASE SessionTimeout(w)
  BY <1>1, <1>2, <1>3, GotoStep DEF SessionTimeout, WorkerPc
<1>4. CASE WorkerExits(w)
  BY <1>1, <1>4, CloseStep DEF WorkerExits
<1>5. QED BY <1>3, <1>4

(* A handler that saves the successor of its job.                          *)
LEMMA SaveStep ==
  ASSUME IInv, NEW j \in JobIds, engine[j] # NoJob,
         NEW job \in Job, SoundJob(job), job.attempt = engine[j].attempt,
         job.revision = engine[j].revision + 1, SameIdentity(job, engine[j]),
         NEW ok, Save(j, job, ok)
  PROVE  /\ Pair(engine', db', conn') /\ Grows(db, db')
         /\ Keeps(engine, engine') /\ conn' \in {"open", "closed"}
         /\ manifest' = manifest
<1>1. conn \in {"open", "closed"} /\ Pair(engine, db, conn)
  BY DEF IInv, Control
<1>2. engine[j].attempt \in Nat
  BY FieldTypes DEF IInv, Pair
<1>3. job.attempt >= engine[j].attempt
  BY <1>2
<1>4. QED BY <1>1, <1>3, SavePair

(* start, persisted or rolled back.                                        *)
LEMMA StartStep ==
  ASSUME IInv, NEW w \in Workers, Start(w)
  PROVE  IInv'
<1> DEFINE j == worker[w].job
           job == StartJob(engine[j], worker[w].at)
<1>1. /\ j \in JobIds /\ worker[w].at \in Nat /\ worker[w].pc = "start"
      /\ WorkersOK(worker, engine)
  BY DEF Start, IInv, WorkersOK, WorkerOK, WorkerState
<1>2. UNCHANGED <<clock, proc, disk, dispatched>> /\ proc = "up"
  BY DEF Start
<1>3. CASE /\ engine[j] # NoJob /\ engine[j].status = "claimed"
           /\ \E ok \in BOOLEAN : /\ Save(j, job, ok)
                                  /\ IF ok THEN Goto(w, "working") ELSE Close(w)
  <2>1. PICK ok \in BOOLEAN : /\ Save(j, job, ok)
                              /\ IF ok THEN Goto(w, "working") ELSE Close(w)
    BY <1>3
  <2>2. engine[j] \in Job /\ SoundJob(engine[j])
    BY <1>1, <1>3 DEF IInv, Pair, SoundEngine, Engine
  <2>3. /\ job \in Job /\ SoundJob(job) /\ job.attempt = engine[j].attempt
        /\ job.revision = engine[j].revision + 1 /\ SameIdentity(job, engine[j])
    BY <1>1, <1>3, <2>2, StartSound
  <2> HIDE DEF job
  <2>4. /\ Pair(engine', db', conn') /\ Grows(db, db')
        /\ Keeps(engine, engine') /\ conn' \in {"open", "closed"}
        /\ manifest' = manifest
    BY <1>1, <1>3, <2>1, <2>3, SaveStep
  <2>5. WorkersOK(worker', engine')
    <3>1. CASE Close(w)
      BY <1>1, <2>4, <3>1, CloseOK
    <3>2. CASE Goto(w, "working")
      <4>1. /\ worker' = [worker EXCEPT ![w] = [@ EXCEPT !.pc = "working",
                                                         !.at = worker[w].at]]
            /\ worker[w].at \in Nat
        BY <1>1, <3>2, GotoMoves
      <4>2. /\ "working" \in WorkerPc /\ "working" \notin {"written", "complete", "authorized",
                                   "verified", "promoted"}
            /\ worker[w].pc \notin {"idle", "poll"}
        BY <1>1 DEF WorkerPc
      <4>3. QED BY <1>1, <2>4, <4>1, <4>2, MoveOK
    <3>3. QED BY <2>1, <3>1, <3>2
  <2>6. QED BY <1>2, <2>4, <2>5, DiskKept, StoreStep
<1>4. CASE Reject(w)
  <2>1. Storage'
    BY <1>2, <1>4, DiskKept DEF Reject, store
  <2>2. QED BY <1>2, <1>4, <2>1, CloseStep DEF Reject
<1>5. QED BY <1>3, <1>4 DEF Start, LeaseValid

(* fail, persisted or rolled back.                                         *)
LEMMA FailStep ==
  ASSUME IInv, NEW w \in Workers, NEW b \in BOOLEAN, Fail(w, b)
  PROVE  IInv'
<1> DEFINE j == worker[w].job
           job == FailJob(engine[j], b)
<1>1. j \in JobIds /\ WorkersOK(worker, engine)
  BY DEF Fail, IInv, WorkersOK, WorkerOK
<1>2. UNCHANGED <<clock, proc, disk, dispatched>> /\ Close(w) /\ proc = "up"
  BY DEF Fail
<1>3. CASE /\ engine[j] # NoJob /\ engine[j].status \in Active
           /\ \E ok \in BOOLEAN : Save(j, job, ok)
  <2>1. engine[j] \in Job /\ SoundJob(engine[j])
    BY <1>1, <1>3 DEF IInv, Pair, SoundEngine, Engine
  <2>2. (b /\ engine[j].attempt < engine[j].max) \in BOOLEAN
    OBVIOUS
  <2>3. /\ job \in Job /\ SoundJob(job) /\ job.attempt = engine[j].attempt
        /\ job.revision = engine[j].revision + 1 /\ SameIdentity(job, engine[j])
    BY <1>3, <2>1, <2>2, EndAttemptSound DEF FailJob
  <2> HIDE DEF job
  <2>4. /\ Pair(engine', db', conn') /\ Grows(db, db')
        /\ Keeps(engine, engine') /\ conn' \in {"open", "closed"}
        /\ manifest' = manifest
    BY <1>1, <1>3, <2>3, SaveStep
  <2>5. WorkersOK(worker', engine')
    BY <1>1, <1>2, <2>4, CloseOK
  <2>6. QED BY <1>2, <2>4, <2>5, DiskKept, StoreStep
<1>4. CASE UNCHANGED <<engine, store>>
  <2>1. Storage'
    BY <1>2, <1>4, DiskKept DEF store
  <2>2. QED BY <1>2, <1>4, <2>1, CloseStep
<1>5. QED BY <1>3, <1>4 DEF Fail, LeaseValid

(* succeed_with_artifact, committed, refused or in doubt.                  *)
LEMMA SucceedStep ==
  ASSUME IInv, NEW w \in Workers, SucceedWithArtifact(w)
  PROVE  IInv'
<1> DEFINE j == worker[w].job
           a == ArtifactOf(w)
           job == Succeed(engine[j], worker[w].content)
           after == [engine EXCEPT ![j] = job]
<1>1. /\ j \in JobIds /\ a \in Artifacts /\ worker[w].content \in Contents
      /\ engine[j] \in Job /\ WorkersOK(worker, engine)
  BY ArtifactOfType DEF SucceedWithArtifact, IInv
<1>2. UNCHANGED <<clock, proc, disk, dispatched>> /\ Close(w) /\ proc = "up"
  BY DEF SucceedWithArtifact
<1>3. CASE UNCHANGED <<engine, store>>
  <2>1. Storage'
    BY <1>2, <1>3, DiskKept DEF store
  <2>2. QED BY <1>2, <1>3, <2>1, CloseStep
<1>4. CASE /\ UNCHANGED <<engine, db, manifest>> /\ conn' = "closed"
  <2>1. Storage'
    BY <1>2, <1>4, DiskKept
  <2>2. WorkersOK(worker', engine')
    BY <1>1, <1>2, <1>4, CloseOK, KeepsRefl
  <2>3. Control'
    BY <1>2, <1>4 DEF IInv, Control
  <2>4. Downtime'
    BY <1>2 DEF SucceedWithArtifact, Downtime
  <2>5. QED BY <1>2, <1>4, <2>1, <2>2, <2>3, <2>4, QuietStep
<1>5. CASE /\ engine[j] # NoJob /\ engine[j].status = "running"
           /\ CasMatches(db, engine, after)
           /\ db' = CasRows(db, engine, after)
           /\ manifest' = [manifest EXCEPT ![a] = j]
           /\ \/ engine' = after /\ conn' = conn
              \/ engine' = engine /\ conn' = "closed"
  <2>1. /\ SoundJob(engine[j]) /\ Pair(engine, db, conn) /\ SoundEngine(engine)
        /\ engine[j].attempt \in Nat
    BY <1>1, <1>5, FieldTypes DEF IInv, Pair, SoundEngine
  <2>2. /\ job \in Job /\ SoundJob(job) /\ job.attempt = engine[j].attempt
        /\ job.revision = engine[j].revision + 1 /\ SameIdentity(job, engine[j])
    BY <1>1, <1>5, <2>1, SucceedSound
  <2> HIDE DEF job, a
  <2>3. SoundEngine(after) /\ Advances(engine, after)
    BY <1>1, <1>5, <2>1, <2>2, ReplaceSound
  <2> HIDE DEF after
  <2>4. /\ Pair(after, db', conn) /\ Pair(engine, db', "closed")
        /\ Grows(db, db')
    BY <1>5, <2>1, <2>3, CasPair
  <2>5. Keeps(engine, engine')
    BY <1>5, <2>3, AdvancesKeeps, KeepsRefl
  <2>6. Storage'
    BY <1>1, <1>2, <1>5 DEF IInv, Storage, disk
  <2>7. WorkersOK(worker', engine')
    BY <1>1, <1>2, <2>5, CloseOK
  <2>8. Pair(engine', db', conn') /\ conn' \in {"open", "closed"}
    BY <1>5, <2>4 DEF IInv, Control
  <2>9. QED BY <1>2, <2>4, <2>6, <2>7, <2>8, StoreStep
<1>6. engine[j] # NoJob
  BY <1>1, AbsentAssumption
<1>7. after = [engine EXCEPT ![j] = Succeed(@, worker[w].content)]
  BY <1>1 DEF IInv, Pair, SoundEngine, Engine
<1> HIDE DEF after, a
<1>8. QED BY <1>3, <1>4, <1>5, <1>6, <1>7 DEF SucceedWithArtifact, store, a

-----------------------------------------------------------------------------
(* Process and connection steps.                                           *)

(* Time, a lost connection, a crash and a restart.                         *)
LEMMA ProcessStep ==
  ASSUME IInv, Tick \/ ConnectionLost \/ Crash \/ Restart
  PROVE  IInv'
<1>1. Storage'
  BY DiskKept DEF Tick, ConnectionLost, Crash, Restart, store
<1>2. WorkersOK(worker, engine) /\ Pair(engine, db, conn) /\ Control
  BY DEF IInv
<1>3. CASE Tick
  <2>1. Control' /\ Downtime'
    BY <1>2, <1>3, ClockAssumption DEF Tick, Control, store, IInv, Downtime
  <2>2. QED BY <1>1, <1>2, <1>3, <2>1, QuietStep DEF Tick, store
<1>4. CASE ConnectionLost
  <2>1. Control' /\ Downtime'
    BY <1>2, <1>4 DEF ConnectionLost, Control, IInv, Downtime
  <2>2. QED BY <1>1, <1>2, <1>4, <2>1, QuietStep DEF ConnectionLost
<1>5. CASE Crash
  <2>1. Pair(engine', db', conn')
    <3>1. SoundEngine(NoJobs)
      BY DEF NoJobs, SoundEngine, Engine
    <3>2. QED BY <1>2, <1>5, <3>1 DEF Crash, Pair, Coupled, NotBehind, NoJobs
  <2>2. ASSUME NEW w \in Workers PROVE WorkerOK(worker'[w], engine')
    <3>1. WorkerOK(worker[w], engine) /\ worker[w] \in WorkerState
      BY <1>2 DEF WorkersOK
    <3>2. CASE worker[w].pc \in {"working", "orphan"}
      <4>1. worker'[w] = [worker[w] EXCEPT !.pc = "orphan"]
        BY <1>5, <3>2 DEF Crash
      <4>2. /\ worker'[w] \in WorkerState /\ worker'[w].pc = "orphan"
            /\ worker'[w].job = worker[w].job
            /\ worker'[w].token = worker[w].token
        BY <3>1, <4>1 DEF WorkerState, WorkerPc
      <4>3. QED BY <3>1, <3>2, <4>2 DEF WorkerOK
    <3>3. CASE worker[w].pc \notin {"working", "orphan"}
      BY <1>5, <3>3 DEF Crash, WorkerOK, IdleWorker, WorkerState, WorkerPc
    <3>4. QED BY <3>2, <3>3
  <2>3. WorkersOK(worker', engine')
    BY <1>5, <2>2 DEF Crash, WorkersOK, WorkerOK
  <2>4. Control' /\ dispatched' \in [JobIds -> Nat] /\ DispatchBudget'
    BY <1>5 DEF Crash, IInv, Control, DispatchBudget
  <2>5. Downtime'
    <3>1. ASSUME NEW w \in Workers PROVE worker'[w].pc \in {"idle", "orphan"}
      <4>1. worker[w] \in WorkerState
        BY <1>2 DEF WorkersOK
      <4>2. QED BY <1>5, <4>1 DEF Crash, IdleWorker, WorkerState
    <3>2. QED BY <3>1 DEF Downtime
  <2>6. QED BY <1>1, <2>1, <2>3, <2>4, <2>5 DEF IInv
<1>6. CASE Restart
  <2>1. CASE UNCHANGED <<proc, conn, engine>>
    <3>1. Downtime'
      BY <1>6, <2>1 DEF Restart, IInv, Downtime
    <3>2. QED BY <1>1, <1>2, <1>6, <2>1, <3>1, QuietStep DEF Restart, Control
  <2>2. CASE proc' = "up" /\ conn' = "open" /\ engine' = db
    <3>1. Pair(engine', db', conn')
      BY <1>2, <1>6, <2>2, FieldTypes DEF Restart, Pair, Coupled, NotBehind, SameIdentity
    <3>2. WorkersOK(worker', engine')
      <4>1. ASSUME NEW w \in Workers PROVE WorkerOK(worker[w], db)
        BY <1>2, <1>6 DEF Restart, IInv, Downtime, WorkersOK, WorkerOK
      <4>2. QED BY <1>2, <1>6, <2>2, <4>1 DEF Restart, WorkersOK
    <3>3. Downtime'
      BY <2>2 DEF Downtime
    <3>4. QED BY <1>1, <1>6, <2>2, <3>1, <3>2, <3>3
            DEF Restart, IInv, Control, DispatchBudget
  <2>3. QED BY <1>6, <2>1, <2>2 DEF Restart
<1>7. QED BY <1>3, <1>4, <1>5, <1>6

-----------------------------------------------------------------------------
(* The theorems.                                                           *)

(* Every step keeps the invariant: one lemma per action.                   *)
LEMMA NextIInv == IInv /\ [Next]_vars => IInv'
<1> SUFFICES ASSUME IInv, [Next]_vars PROVE IInv'
  OBVIOUS
<1>1. CASE Tick \/ ConnectionLost \/ Crash \/ Restart
  BY <1>1, ProcessStep
<1>2. CASE \E j \in JobIds, k \in Keys, r \in Requests, d \in Deadlines,
              m \in 1..MaxAttempts : Submit(j, k, r, d, m)
  BY <1>2, SubmitStep
<1>3. CASE \E j \in JobIds : Cancel(j)
  BY <1>3, CancelStep
<1>4. ASSUME NEW w \in Workers,
             \/ PollExpireFails(w) \/ PollRequeueFails(w)
             \/ \E j \in JobIds, t \in Tokens : PollClaimFails(w, j, t)
      PROVE  IInv'
  BY <1>4, PollFailsStep
<1>5. ASSUME NEW w \in Workers,
             \/ PollNoWork(w)
             \/ \E j \in JobIds, t \in Tokens : PollClaim(w, j, t)
      PROVE  IInv'
  BY <1>5, PollNoWorkStep, PollClaimStep
<1>6. ASSUME NEW w \in Workers,
             \/ RequestPoll(w) \/ RequestStart(w) \/ RequestComplete(w)
             \/ RequestFail(w)
      PROVE  IInv'
  BY <1>6, RequestStep
<1>7. ASSUME NEW w \in Workers,
             \/ Start(w) \/ AuthorizeResult(w) \/ VerifyStaging(w) \/ Promote(w)
             \/ SucceedWithArtifact(w) \/ \E b \in BOOLEAN : Fail(w, b)
      PROVE  IInv'
  BY <1>7, StartStep, AuthorizeResultStep, VerifyStagingStep, PromoteStep,
     SucceedStep, FailStep
<1>8. ASSUME NEW w \in Workers,
             \/ \E c \in Contents : WriteResult(w, c)
             \/ SessionTimeout(w) \/ WorkerExits(w)
      PROVE  IInv'
  BY <1>8, WriteResultStep, WorkerEndsStep
<1>9. CASE UNCHANGED vars
  BY <1>9 DEF vars, IInv, Control, Storage, Downtime, DispatchBudget
<1>10. QED BY <1>1, <1>2, <1>3, <1>4, <1>5, <1>6, <1>7, <1>8, <1>9 DEF Next

(* The invariant holds for ever.                                           *)
LEMMA AlwaysIInv == Spec => []IInv
<1>1. QED BY InitIInv, NextIInv, PTL DEF Spec

(* Types: the engine and the rows hold jobs only, and every session knows  *)
(* the job it works on, whatever is rolled back, lost or restarted.        *)
THEOREM TypeCorrect == Spec => []TypeOK
<1>1. IInv => TypeOK
  BY IInvImplies
<1>2. QED BY <1>1, AlwaysIInv, PTL

(* Recovery: every stored row passes the lease, status and accounting      *)
(* clauses of validate_recovered_job, for any number of jobs, workers and  *)
(* attempts.                                                               *)
THEOREM RowsAreRecoverable == Spec => []RowsRecoverable
<1>1. IInv => RowsRecoverable
  BY IInvImplies
<1>2. QED BY <1>1, AlwaysIInv, PTL

(* Optimistic concurrency: a revision number names one version of a job in *)
(* engine and table, so compare_and_swap on the revision alone is enough.  *)
THEOREM RevisionsNameVersions == Spec => []RevisionNamesVersion
<1>1. IInv => RevisionNamesVersion
  BY IInvImplies
<1>2. QED BY <1>1, AlwaysIInv, PTL

(* Attempts: no job is handed to workers more often than its max_attempts, *)
(* across failed claims, ambiguous commits, crashes and restarts.          *)
THEOREM DispatchWithinBudget == Spec => []DispatchBudget
<1>1. IInv => DispatchBudget
  BY DEF IInv
<1>2. QED BY <1>1, AlwaysIInv, PTL

-----------------------------------------------------------------------------
(***************************************************************************)
(* What the stored rows of ProviderJobs do, step by step.                  *)
(*                                                                         *)
(* Every step changes a row in one of four ways: it inserts it, shifts its *)
(* status without a new lease or a result, hands it to a worker, or stores *)
(* the result of the worker that holds its lease.  On top of the first     *)
(* invariant this needs to know that keys are unique across engine and     *)
(* table, that a job the table does not have was never handed out, that a  *)
(* lease token is known to its owner only, and that a promoted session     *)
(* found its artifact in the store.  The policies also need that an open   *)
(* connection means that engine and table agree, but for what an abandoned *)
(* request left behind.                                                    *)
(***************************************************************************)

(* Changes of one job.                                                     *)

(* A job that is started, ended, requeued or canceled: it gains neither a  *)
(* lease nor a result.                                                     *)
Shifts(a, b) ==
  /\ SameIdentity(b, a)
  /\ b.attempt = a.attempt /\ b.claimed = a.claimed /\ b.result = a.result
  /\ b.lease \in {None, a.lease}
  /\ \/ b = a
     \/ a.status \in Active /\ b.status \in Active \cup {"failed_terminal"}
     \/ /\ a.status \in Active /\ a.attempt < a.max
        /\ b.status \in {"failed_retryable", "pending"}
     \/ a.status = "failed_retryable" /\ b.status = "pending"
     \/ a.status \notin Terminal /\ b.status = "canceled"

(* A job handed to worker w under token t, perhaps after the same poll     *)
(* ended an earlier lease of it.                                           *)
Hands(a, b, w, t, now) ==
  /\ SameIdentity(b, a) /\ b.result = a.result
  /\ a.status \in Active \cup {"pending", "failed_retryable"}
  /\ a.attempt < a.max
  /\ b.status = "claimed" /\ b.attempt = a.attempt + 1 /\ b.claimed = now
  /\ b.lease \in Lease /\ b.lease.owner = w /\ b.lease.token = t

(* A running job that succeeds with content c.                             *)
Yields(a, b, c) ==
  /\ SameIdentity(b, a)
  /\ a.status = "running" /\ b.status = "succeeded" /\ b.result = c
  /\ b.attempt = a.attempt /\ b.claimed = a.claimed /\ b.lease = None

(* Shifts compose: a poll ends a lease and requeues the job.               *)
LEMMA ShiftsTrans ==
  ASSUME NEW a, NEW b, NEW c, Shifts(a, b), Shifts(b, c)
  PROVE  Shifts(a, c)
<1>1. /\ SameIdentity(c, a) /\ c.attempt = a.attempt
      /\ c.claimed = a.claimed /\ c.result = a.result /\ c.lease \in {None, a.lease}
      /\ b.attempt = a.attempt /\ b.max = a.max
  BY DEF Shifts, SameIdentity
<1>2. \/ c = a
      \/ a.status \in Active /\ c.status \in Active \cup {"failed_terminal"}
      \/ /\ a.status \in Active /\ a.attempt < a.max
         /\ c.status \in {"failed_retryable", "pending"}
      \/ a.status = "failed_retryable" /\ c.status = "pending"
      \/ a.status \notin Terminal /\ c.status = "canceled"
  BY <1>1 DEF Shifts, Active, Terminal
<1>3. QED BY <1>1, <1>2 DEF Shifts

(* A job that shifts and is then claimed was handed out.                   *)
LEMMA ShiftsHands ==
  ASSUME NEW a, NEW b, NEW c, NEW w, NEW t, NEW now, Shifts(a, b),
         Hands(b, c, w, t, now), b.status = "pending"
  PROVE  Hands(a, c, w, t, now)
<1>1. /\ SameIdentity(c, a) /\ c.result = a.result
      /\ b.attempt = a.attempt /\ b.max = a.max
  BY DEF Shifts, Hands, SameIdentity
<1>2. a.status \in Active \cup {"pending", "failed_retryable"}
  BY DEF Shifts, Active, Terminal
<1>3. QED BY <1>1, <1>2 DEF Hands

(* claim.                                                                  *)
LEMMA ClaimHands ==
  ASSUME NEW job \in Job, NEW w \in Workers, NEW t \in Tokens, NEW now \in Nat,
         job.status = "pending", job.attempt < job.max
  PROVE  Hands(job, Claim(job, w, t, now), w, t, now)
<1> DEFINE l == [owner |-> w, token |-> t, expires |-> LeaseEnd(job, now)]
<1>1. LeaseEnd(job, now) \in Nat
  BY BoundsAssumption DEF LeaseEnd, Job
<1>2. l \in Lease /\ l.owner = w /\ l.token = t
  BY <1>1 DEF Lease
<1> HIDE DEF l
<1>3. Claim(job, w, t, now) =
        [job EXCEPT !.status = "claimed", !.revision = job.revision + 1,
                    !.attempt = job.attempt + 1, !.lease = l, !.claimed = now]
  BY DEF Claim, l, Job
<1>4. QED BY <1>2, <1>3 DEF Hands, SameIdentity, Job

(* start.                                                                  *)
LEMMA StartShifts ==
  ASSUME NEW job \in Job, NEW now, job.status = "claimed"
  PROVE  Shifts(job, StartJob(job, now))
  BY DEF StartJob, Shifts, SameIdentity, Job, Active

(* fail and expire_leases: a job is retried only with attempts left.       *)
LEMMA EndShifts ==
  ASSUME NEW job \in Job, NEW retry \in BOOLEAN, job.status \in Active,
         retry => job.attempt < job.max
  PROVE  Shifts(job, EndAttempt(job, retry))
<1>1. CASE retry
  BY <1>1 DEF EndAttempt, Shifts, SameIdentity, Job, Active
<1>2. CASE ~retry
  BY <1>2 DEF EndAttempt, Shifts, SameIdentity, Job, Active
<1>3. QED BY <1>1, <1>2

(* requeue_retryable.                                                      *)
LEMMA RequeueShifts ==
  ASSUME NEW job \in Job, job.status = "failed_retryable"
  PROVE  Shifts(job, RequeueJob(job))
  BY DEF RequeueJob, Shifts, SameIdentity, Job

(* cancel.                                                                 *)
LEMMA CancelShifts ==
  ASSUME NEW job \in Job, Cancelable(job)
  PROVE  Shifts(job, CancelJob(job)) /\ CancelJob(job).status = "canceled"
  BY DEF CancelJob, Cancelable, Shifts, SameIdentity, Job

(* succeed.                                                                *)
LEMMA SucceedYields ==
  ASSUME NEW job \in Job, NEW c, job.status = "running"
  PROVE  Yields(job, Succeed(job, c), c)
  BY DEF Succeed, Yields, SameIdentity, Job

-----------------------------------------------------------------------------
(* Changes of a whole engine or table.                                     *)

ShiftsAll(e, f) ==
  \A j \in JobIds : /\ e[j] = NoJob => f[j] = NoJob
                    /\ e[j] # NoJob => f[j] # NoJob /\ Shifts(e[j], f[j])

(* Only stored jobs change.                                                *)
Touches(rows, e, f) == \A j \in JobIds : f[j] # e[j] => rows[j] # NoJob

(* An unchanged map shifts.                                                *)
LEMMA ShiftsAllRefl == \A e : ShiftsAll(e, e)
  BY DEF ShiftsAll, Shifts, SameIdentity

(* Shifts of a whole map compose.                                          *)
LEMMA ShiftsAllTrans ==
  ASSUME NEW a, NEW b, NEW c, ShiftsAll(a, b), ShiftsAll(b, c)
  PROVE  ShiftsAll(a, c)
<1>1. ASSUME NEW j \in JobIds
      PROVE  /\ a[j] = NoJob => c[j] = NoJob
             /\ a[j] # NoJob => c[j] # NoJob /\ Shifts(a[j], c[j])
  <2>1. CASE a[j] = NoJob
    BY <2>1 DEF ShiftsAll
  <2>2. CASE a[j] # NoJob
    <3>1. b[j] # NoJob /\ Shifts(a[j], b[j])
      BY <2>2 DEF ShiftsAll
    <3>2. c[j] # NoJob /\ Shifts(b[j], c[j])
      BY <3>1 DEF ShiftsAll
    <3>3. QED BY <2>2, <3>1, <3>2, ShiftsTrans
  <2>3. QED BY <2>1, <2>2
<1>2. QED BY <1>1 DEF ShiftsAll

(* expire_leases.                                                          *)
LEMMA ExpireLeasesShifts ==
  ASSUME NEW e, SoundEngine(e), NEW now \in Nat
  PROVE  ShiftsAll(e, ExpireLeases(e, now))
<1>1. ASSUME NEW j \in JobIds, e[j] # NoJob
      PROVE  ExpireLeases(e, now)[j] # NoJob /\ Shifts(e[j], ExpireLeases(e, now)[j])
  <2>1. e[j] \in Job
    BY <1>1, FieldTypes
  <2>2. CASE Lapsed(e[j], now)
    <3>1. ExpireLeases(e, now)[j] = ExpireJob(e[j], now)
      BY <1>1, <2>2 DEF ExpireLeases
    <3>2. e[j].status \in Active
      BY <2>2 DEF Lapsed
    <3> DEFINE retry == e[j].attempt < e[j].max /\ now < e[j].deadline
    <3>3. retry \in BOOLEAN /\ (retry => e[j].attempt < e[j].max)
      OBVIOUS
    <3>4. ExpireJob(e[j], now) = EndAttempt(e[j], retry)
      BY DEF ExpireJob
    <3> HIDE DEF retry
    <3>5. Shifts(e[j], EndAttempt(e[j], retry))
      BY <2>1, <3>2, <3>3, EndShifts
    <3>6. EndAttempt(e[j], retry) # NoJob
      <4>1. SoundJob(e[j])
        BY <1>1 DEF SoundEngine
      <4>2. EndAttempt(e[j], retry) \in Job
        BY <2>1, <3>2, <3>3, <4>1, EndAttemptSound
      <4>3. QED BY <4>2, AbsentAssumption
    <3>7. QED BY <3>1, <3>4, <3>5, <3>6
  <2>3. CASE ~Lapsed(e[j], now)
    <3>1. ExpireLeases(e, now)[j] = e[j]
      BY <2>3 DEF ExpireLeases
    <3>2. QED BY <1>1, <3>1 DEF Shifts, SameIdentity
  <2>4. QED BY <2>2, <2>3
<1>2. ASSUME NEW j \in JobIds, e[j] = NoJob PROVE ExpireLeases(e, now)[j] = NoJob
  BY <1>2 DEF ExpireLeases
<1>3. QED BY <1>1, <1>2 DEF ShiftsAll

(* requeue_retryable over the map.                                         *)
LEMMA RequeueRetryableShifts ==
  ASSUME NEW e, SoundEngine(e), NEW now \in Nat
  PROVE  ShiftsAll(e, RequeueRetryable(e, now))
<1> DEFINE f == RequeueRetryable(e, now)
<1>1. ASSUME NEW j \in JobIds, e[j] # NoJob
      PROVE  f[j] # NoJob /\ Shifts(e[j], f[j])
  <2>1. e[j] \in Job /\ SoundJob(e[j])
    BY <1>1, FieldTypes DEF SoundEngine
  <2>2. CASE e[j].status = "failed_retryable" /\ now < e[j].deadline
    <3>1. f[j] = RequeueJob(e[j])
      BY <1>1, <2>2 DEF RequeueRetryable
    <3>2. RequeueJob(e[j]) \in Job
      BY <2>1, <2>2, RequeueSound
    <3>3. QED BY <2>1, <2>2, <3>1, <3>2, RequeueShifts, AbsentAssumption
  <2>3. CASE ~(e[j].status = "failed_retryable" /\ now < e[j].deadline)
    <3>1. f[j] = e[j]
      BY <2>3 DEF RequeueRetryable
    <3>2. QED BY <1>1, <3>1 DEF Shifts, SameIdentity
  <2>4. QED BY <2>2, <2>3
<1>2. ASSUME NEW j \in JobIds, e[j] = NoJob PROVE f[j] = NoJob
  BY <1>2 DEF RequeueRetryable
<1>3. QED BY <1>1, <1>2 DEF ShiftsAll

(* One job replaced by the job it shifts to.                               *)
LEMMA ReplaceShifts ==
  ASSUME NEW e, SoundEngine(e), NEW j \in JobIds, e[j] # NoJob, NEW job,
         job # NoJob, Shifts(e[j], job)
  PROVE  ShiftsAll(e, [e EXCEPT ![j] = job])
<1>1. ASSUME NEW i \in JobIds PROVE [e EXCEPT ![j] = job][i] = IF i = j THEN job ELSE e[i]
  BY DEF SoundEngine, Engine
<1>2. QED BY <1>1 DEF ShiftsAll, Shifts, SameIdentity

(* The rows a compare-and-swap changes are the engine's own.               *)
LEMMA CasSame ==
  ASSUME NEW before, NEW after, NEW rows, NEW c, Pair(before, rows, c),
         Advances(before, after), CasMatches(rows, before, after),
         NEW j \in JobIds, after[j] # before[j]
  PROVE  rows[j] = before[j] /\ rows[j] # NoJob
<1>1. before[j] # NoJob
  BY DEF Advances
<1>2. rows[j] # NoJob /\ rows[j].revision = before[j].revision
  BY DEF CasMatches, Changed
<1>3. QED BY <1>1, <1>2 DEF Pair, Coupled

(* A compare-and-swap shifts the rows as the engine was shifted.           *)
LEMMA CasShifts ==
  ASSUME NEW before, NEW after, NEW rows, NEW c, Pair(before, rows, c),
         Advances(before, after), CasMatches(rows, before, after),
         ShiftsAll(before, after)
  PROVE  ShiftsAll(rows, CasRows(rows, before, after)) /\ Touches(rows, before, after)
<1> DEFINE new == CasRows(rows, before, after)
<1>1. ASSUME NEW j \in JobIds, after[j] = before[j]
      PROVE  /\ rows[j] = NoJob => new[j] = NoJob
             /\ rows[j] # NoJob => new[j] # NoJob /\ Shifts(rows[j], new[j])
  <2>1. new[j] = rows[j]
    BY <1>1 DEF CasRows
  <2>2. QED BY <2>1 DEF Shifts, SameIdentity
<1>2. ASSUME NEW j \in JobIds, after[j] # before[j]
      PROVE  rows[j] # NoJob /\ new[j] # NoJob /\ Shifts(rows[j], new[j])
  <2>1. new[j] = after[j]
    BY <1>2 DEF CasRows
  <2>2. rows[j] = before[j] /\ rows[j] # NoJob
    BY <1>2, CasSame
  <2>3. QED BY <2>1, <2>2 DEF ShiftsAll
<1> HIDE DEF new
<1>3. ShiftsAll(rows, new)
  BY <1>1, <1>2 DEF ShiftsAll
<1>4. QED BY <1>2, <1>3 DEF Touches, new

-----------------------------------------------------------------------------
(* The second invariant.                                                   *)

(* Keys are unique in the engine e, in the table rows and across both; an  *)
(* open connection means that the engine knows every row.                  *)
KeysOK(e, rows, c) ==
  /\ \A i, j \in JobIds :
       e[i] # NoJob /\ e[j] # NoJob /\ e[i].key = e[j].key => i = j
  /\ \A i, j \in JobIds :
       rows[i] # NoJob /\ rows[j] # NoJob /\ rows[i].key = rows[j].key => i = j
  /\ \A i, j \in JobIds :
       e[i] # NoJob /\ rows[j] # NoJob /\ e[i].key = rows[j].key => i = j
  /\ c = "open" => \A j \in JobIds : rows[j] # NoJob => e[j] # NoJob

(* A job whose insert was abandoned waits in the engine or was canceled.   *)
NeverHanded(job) ==
  job.status \in {"pending", "canceled"} /\ job.attempt = 0 /\ job.result = None

UnsavedOK(e, rows) ==
  \A j \in JobIds : e[j] # NoJob /\ rows[j] = NoJob => NeverHanded(e[j])

(* Only the owner of a lease knows its token.                              *)
TokensOK(e, ws) ==
  \A j \in JobIds, v \in Workers :
    e[j] # NoJob /\ e[j].lease # None /\ ws[v].token = e[j].lease.token
      => v = e[j].lease.owner

(* A promoted result has its artifact in the store.                        *)
PromotedOK(ws, e, fs) ==
  \A w \in Workers : ws[w].pc = "promoted" =>
    fs[<<Type(e[ws[w].job]), ws[w].content>>] # None

Done(job) == job # NoJob /\ job.status = "succeeded"

ManifestOK(rows, man, fs) ==
  /\ \A a \in Artifacts : man[a] # None =>
       /\ man[a] \in JobIds /\ Done(rows[man[a]])
       /\ a = <<Type(rows[man[a]]), rows[man[a]].result>>
       /\ fs[a] # None
  /\ \A j \in JobIds : Done(rows[j]) =>
       man[<<Type(rows[j]), rows[j].result>>] = j

JInv ==
  /\ KeysOK(engine, db, conn) /\ UnsavedOK(engine, db)
  /\ TokensOK(engine, worker) /\ TokensOK(db, worker)
  /\ PromotedOK(worker, engine, files)
  /\ ManifestOK(db, manifest, files)

-----------------------------------------------------------------------------
(* What keeps its parts.                                                   *)

SameJobs(e, f) ==
  \A j \in JobIds : /\ e[j] = NoJob => f[j] = NoJob
                    /\ e[j] # NoJob => f[j] # NoJob /\ SameIdentity(f[j], e[j])

LeasesFade(e, f) ==
  \A j \in JobIds : f[j] # NoJob /\ f[j].lease # None =>
    e[j] # NoJob /\ f[j].lease = e[j].lease

SameDone(rows, new) ==
  \A j \in JobIds : Done(rows[j]) \/ Done(new[j]) => new[j] = rows[j]

TokensFade(ws, xs) ==
  \A v \in Workers : xs[v].token \in {ws[v].token, None}

PromotionsFade(ws, xs) ==
  \A v \in Workers : xs[v].pc = "promoted" =>
    ws[v].pc = "promoted" /\ xs[v].job = ws[v].job /\ xs[v].content = ws[v].content

FilesGrow(fs, gs) == \A a \in Artifacts : fs[a] # None => gs[a] # None

(* Shifted jobs keep identities and leases and do not succeed.             *)
LEMMA ShiftsKeep ==
  ASSUME NEW e, NEW f, ShiftsAll(e, f)
  PROVE  SameJobs(e, f) /\ LeasesFade(e, f) /\ SameDone(e, f)
<1>1. SameJobs(e, f)
  BY DEF ShiftsAll, Shifts, SameJobs
<1>2. LeasesFade(e, f)
  BY DEF ShiftsAll, Shifts, LeasesFade
<1>3. SameDone(e, f)
  <2>1. ASSUME NEW j \in JobIds, Done(e[j]) \/ Done(f[j]) PROVE f[j] = e[j]
    <3>1. e[j] # NoJob /\ Shifts(e[j], f[j])
      BY <2>1 DEF ShiftsAll, Done
    <3>2. QED BY <2>1, <3>1 DEF Shifts, Done, Active, Terminal
  <2>2. QED BY <2>1 DEF SameDone
<1>4. QED BY <1>1, <1>2, <1>3

(* Keys stay unique while the jobs stay the same.                          *)
LEMMA KeysKept ==
  ASSUME NEW e, NEW f, NEW rows, NEW new, NEW c, NEW d, KeysOK(e, rows, c),
         SameJobs(e, f), SameJobs(rows, new), d \in {c, "closed"}
  PROVE  KeysOK(f, new, d)
<1>1. ASSUME NEW i \in JobIds
      PROVE  /\ f[i] # NoJob => e[i] # NoJob /\ f[i].key = e[i].key
             /\ new[i] # NoJob => rows[i] # NoJob /\ new[i].key = rows[i].key
             /\ e[i] # NoJob => f[i] # NoJob
  BY DEF SameJobs, SameIdentity
<1>2. QED BY <1>1 DEF KeysOK

(* Tokens stay with their owners while leases and sessions only end.       *)
LEMMA TokensKept ==
  ASSUME NEW e, NEW f, NEW ws, NEW xs, TokensOK(e, ws), LeasesFade(e, f),
         SoundEngine(f), TokensFade(ws, xs)
  PROVE  TokensOK(f, xs)
<1>1. SUFFICES ASSUME NEW j \in JobIds, NEW v \in Workers, f[j] # NoJob,
                      f[j].lease # None, xs[v].token = f[j].lease.token
               PROVE  v = f[j].lease.owner
  BY DEF TokensOK
<1>2. e[j] # NoJob /\ f[j].lease = e[j].lease
  BY <1>1 DEF LeasesFade
<1>3. f[j] \in Job
  BY <1>1, FieldTypes
<1>4. f[j].lease \in Lease
  BY <1>1, <1>3 DEF Job
<1>5. f[j].lease.token # None
  BY <1>4, AbsentAssumption DEF Lease
<1>6. xs[v].token = ws[v].token
  BY <1>1, <1>5 DEF TokensFade
<1>7. QED BY <1>1, <1>2, <1>6 DEF TokensOK

Retains(e, f) == \A j \in JobIds : e[j] # NoJob => SameIdentity(f[j], e[j])

(* Promoted artifacts stay: types of jobs are fixed, files never vanish.   *)
LEMMA PromotedRetained ==
  ASSUME NEW ws, NEW xs, NEW e, NEW f, NEW fs, NEW gs, PromotedOK(ws, e, fs),
         WorkersOK(ws, e), SoundEngine(e), Retains(e, f), PromotionsFade(ws, xs),
         FilesGrow(fs, gs)
  PROVE  PromotedOK(xs, f, gs)
<1>1. SUFFICES ASSUME NEW w \in Workers, xs[w].pc = "promoted"
               PROVE  gs[<<Type(f[xs[w].job]), xs[w].content>>] # None
  BY DEF PromotedOK
<1>2. ws[w].pc = "promoted" /\ xs[w].job = ws[w].job /\ xs[w].content = ws[w].content
  BY <1>1 DEF PromotionsFade
<1>3. /\ ws[w].job \in JobIds /\ ws[w].content \in Contents /\ e[ws[w].job] # NoJob
  BY <1>2 DEF WorkersOK, WorkerOK
<1>4. Type(f[ws[w].job]) = Type(e[ws[w].job])
  BY <1>3 DEF Retains, SameIdentity, Type
<1>5. fs[<<Type(e[ws[w].job]), ws[w].content>>] # None
  BY <1>2 DEF PromotedOK
<1>6. e[ws[w].job] \in Job
  BY <1>3, FieldTypes
<1>7. Type(e[ws[w].job]) \in JobTypes
  BY <1>6, TypeAssumption DEF Type, Job
<1>8. QED BY <1>2, <1>3, <1>4, <1>5, <1>7 DEF FilesGrow, Artifacts

(* In particular while the jobs stay the same.                             *)
LEMMA PromotedKept ==
  ASSUME NEW ws, NEW xs, NEW e, NEW f, NEW fs, NEW gs, PromotedOK(ws, e, fs),
         WorkersOK(ws, e), SoundEngine(e), SameJobs(e, f), PromotionsFade(ws, xs),
         FilesGrow(fs, gs)
  PROVE  PromotedOK(xs, f, gs)
<1>1. Retains(e, f)
  BY DEF SameJobs, Retains
<1>2. QED BY <1>1, PromotedRetained

(* The manifest stays backed while no job succeeds or changes its result.  *)
LEMMA ManifestKept ==
  ASSUME NEW rows, NEW new, NEW man, NEW fs, NEW gs, ManifestOK(rows, man, fs),
         SameDone(rows, new), FilesGrow(fs, gs)
  PROVE  ManifestOK(new, man, gs)
<1>1. ASSUME NEW a \in Artifacts, man[a] # None
      PROVE  /\ man[a] \in JobIds /\ Done(new[man[a]])
             /\ a = <<Type(new[man[a]]), new[man[a]].result>> /\ gs[a] # None
  <2>1. /\ man[a] \in JobIds /\ Done(rows[man[a]])
        /\ a = <<Type(rows[man[a]]), rows[man[a]].result>> /\ fs[a] # None
    BY <1>1 DEF ManifestOK
  <2>2. new[man[a]] = rows[man[a]]
    BY <2>1 DEF SameDone
  <2>3. QED BY <2>1, <2>2 DEF FilesGrow
<1>2. ASSUME NEW j \in JobIds, Done(new[j])
      PROVE  man[<<Type(new[j]), new[j].result>>] = j
  <2>1. new[j] = rows[j]
    BY <1>2 DEF SameDone
  <2>2. QED BY <1>2, <2>1 DEF ManifestOK
<1>3. QED BY <1>1, <1>2 DEF ManifestOK

(* A job without a row was never handed out while only stored jobs change  *)
(* or unstored ones are canceled.                                          *)
LEMMA UnsavedKept ==
  ASSUME NEW e, NEW f, NEW rows, NEW new, UnsavedOK(e, rows), ShiftsAll(e, f),
         SameJobs(rows, new),
         \A j \in JobIds : f[j] # e[j] => rows[j] # NoJob \/ f[j].status = "canceled"
  PROVE  UnsavedOK(f, new)
<1>1. SUFFICES ASSUME NEW j \in JobIds, f[j] # NoJob, new[j] = NoJob
               PROVE  NeverHanded(f[j])
  BY DEF UnsavedOK
<1>2. rows[j] = NoJob /\ e[j] # NoJob /\ Shifts(e[j], f[j])
  BY <1>1 DEF SameJobs, ShiftsAll
<1>3. NeverHanded(e[j])
  BY <1>2 DEF UnsavedOK
<1>4. QED BY <1>2, <1>3 DEF NeverHanded, Shifts

-----------------------------------------------------------------------------
(* Steps.                                                                  *)

(* The poll of worker w hands out job j under token t: over an open         *)
(* connection, out of the reconciled engine, and it writes no other claim. *)
HandedBy(w, t, j) ==
  /\ conn = "open" /\ ReachesClaim(w)
  /\ Claimable(Requeued(w), j, Capabilities[w], worker[w].at)
  /\ Hands(db[j], db'[j], w, t, worker[w].at)
  /\ \A i \in JobIds : i # j => db'[i] = RowsRequeued(w)[i]

(* What one step may do to the row of job j.                               *)
RowChange(j) ==
  \/ db'[j] = db[j]
  \/ db[j] = NoJob /\ db'[j] \in Job /\ NeverHanded(db'[j])
  \/ db[j] # NoJob /\ db'[j] # NoJob /\ Shifts(db[j], db'[j])
  \/ /\ db[j] # NoJob /\ db'[j] # NoJob
     /\ \E w \in Workers, t \in Tokens : HandedBy(w, t, j)
  \/ /\ db[j] # NoJob /\ db'[j] # NoJob /\ db[j].lease # None
     /\ \E w \in Workers :
          /\ worker[w].pc = "promoted" /\ worker[w].job = j
          /\ worker[w].content \in Contents
          /\ db[j].lease.token = worker[w].token
          /\ Yields(db[j], db'[j], worker[w].content)

Evolves == \A j \in JobIds : RowChange(j)

(* A step that shifts engine and table.                                    *)
LEMMA ShiftStep ==
  ASSUME IInv, IInv', JInv, ShiftsAll(engine, engine'), ShiftsAll(db, db'),
         conn' \in {conn, "closed"}, manifest' = manifest,
         FilesGrow(files, files'), TokensFade(worker, worker'),
         PromotionsFade(worker, worker'),
         \A j \in JobIds : engine'[j] # engine[j] =>
           db[j] # NoJob \/ engine'[j].status = "canceled"
  PROVE  JInv' /\ Evolves
<1>1. /\ SameJobs(engine, engine') /\ LeasesFade(engine, engine')
      /\ SameJobs(db, db') /\ LeasesFade(db, db') /\ SameDone(db, db')
  BY ShiftsKeep
<1>2. /\ SoundEngine(engine) /\ SoundEngine(engine') /\ SoundEngine(db')
      /\ WorkersOK(worker, engine)
  BY DEF IInv, Pair
<1>3. KeysOK(engine', db', conn')
  BY <1>1, KeysKept DEF JInv
<1>4. UnsavedOK(engine', db')
  BY <1>1, UnsavedKept DEF JInv
<1>5. TokensOK(engine', worker') /\ TokensOK(db', worker')
  BY <1>1, <1>2, TokensKept DEF JInv
<1>6. PromotedOK(worker', engine', files')
  BY <1>1, <1>2, PromotedKept DEF JInv
<1>7. ManifestOK(db', manifest', files')
  BY <1>1, ManifestKept DEF JInv
<1>8. Evolves
  BY DEF Evolves, RowChange, ShiftsAll
<1>9. QED BY <1>3, <1>4, <1>5, <1>6, <1>7, <1>8 DEF JInv

(* A step that leaves engine, table and manifest alone.                    *)
LEMMA IdleStep ==
  ASSUME IInv, IInv', JInv, engine' = engine, db' = db, manifest' = manifest,
         conn' \in {conn, "closed"}, FilesGrow(files, files'),
         TokensFade(worker, worker'), PromotionsFade(worker, worker')
  PROVE  JInv' /\ Evolves
  BY ShiftsAllRefl, ShiftStep

(* Closing a session.                                                      *)
LEMMA CloseFades ==
  ASSUME WorkersOK(worker, engine), NEW w \in Workers, Close(w)
  PROVE  TokensFade(worker, worker') /\ PromotionsFade(worker, worker')
<1>1. worker' = [worker EXCEPT ![w] = IdleWorker] /\ worker \in [Workers -> WorkerState]
  BY DEF Close, WorkersOK
<1>2. ASSUME NEW v \in Workers
      PROVE  worker'[v] = IF v = w THEN IdleWorker ELSE worker[v]
  BY <1>1
<1>3. QED BY <1>2 DEF IdleWorker, TokensFade, PromotionsFade

(* A session that moves on.                                                *)
LEMMA MoveFades ==
  ASSUME WorkersOK(worker, engine), NEW w \in Workers, NEW to,
         Goto(w, to) \/ \E from : Send(w, from, to)
  PROVE  /\ TokensFade(worker, worker')
         /\ to # "promoted" => PromotionsFade(worker, worker')
         /\ \A v \in Workers : /\ worker'[v].job = worker[v].job
                               /\ worker'[v].content = worker[v].content
                               /\ v # w => worker'[v] = worker[v]
<1>1. worker \in [Workers -> WorkerState]
  BY DEF WorkersOK
<1>2. PICK at : \/ worker' = [worker EXCEPT ![w] = [worker[w] EXCEPT !.pc = to]]
                \/ worker' = [worker EXCEPT ![w] = [worker[w] EXCEPT !.pc = to, !.at = at]]
  BY <1>1 DEF Goto, Send
<1>3. worker[w] \in WorkerState
  BY <1>1
<1>4. PICK r : /\ worker' = [worker EXCEPT ![w] = r] /\ r.pc = to
               /\ r.job = worker[w].job /\ r.token = worker[w].token
               /\ r.content = worker[w].content
  <2> DEFINE a == [worker[w] EXCEPT !.pc = to]
             b == [worker[w] EXCEPT !.pc = to, !.at = at]
  <2>1. /\ a.pc = to /\ a.job = worker[w].job /\ a.token = worker[w].token
        /\ a.content = worker[w].content
    BY <1>3 DEF WorkerState
  <2>2. /\ b.pc = to /\ b.job = worker[w].job /\ b.token = worker[w].token
        /\ b.content = worker[w].content
    BY <1>3 DEF WorkerState
  <2>3. worker' = [worker EXCEPT ![w] = a] \/ worker' = [worker EXCEPT ![w] = b]
    BY <1>2
  <2> HIDE DEF a, b
  <2>4. QED BY <2>1, <2>2, <2>3
<1>5. ASSUME NEW v \in Workers PROVE worker'[v] = IF v = w THEN r ELSE worker[v]
  BY <1>1, <1>4
<1>6. QED BY <1>4, <1>5 DEF TokensFade, PromotionsFade

(* Requests, time-outs and exits of a session, the clock and a lost        *)
(* connection.                                                             *)
LEMMA SessionRows ==
  ASSUME IInv, IInv', JInv, NEW w \in Workers,
         \/ RequestPoll(w) \/ RequestStart(w) \/ RequestComplete(w) \/ RequestFail(w)
         \/ SessionTimeout(w) \/ WorkerExits(w) \/ AuthorizeResult(w)
  PROVE  JInv' /\ Evolves
<1>1. /\ engine' = engine /\ db' = db /\ manifest' = manifest /\ conn' = conn
      /\ files' = files
  BY DEF RequestPoll, RequestStart, RequestComplete, RequestFail, SessionTimeout,
     WorkerExits, AuthorizeResult, Reject, store, disk
<1>2. \/ Close(w)
      \/ \E to \in {"poll", "start", "complete", "fail", "orphan", "authorized"} :
           Goto(w, to) \/ \E from : Send(w, from, to)
  BY DEF RequestPoll, RequestStart, RequestComplete, RequestFail, SessionTimeout,
     WorkerExits, AuthorizeResult, Reject
<1>3. WorkersOK(worker, engine)
  BY DEF IInv
<1>4. TokensFade(worker, worker') /\ PromotionsFade(worker, worker')
  <2>1. CASE Close(w)
    BY <1>3, <2>1, CloseFades
  <2>2. CASE \E to \in {"poll", "start", "complete", "fail", "orphan", "authorized"} :
               Goto(w, to) \/ \E from : Send(w, from, to)
    <3>1. PICK to \in {"poll", "start", "complete", "fail", "orphan", "authorized"} :
               Goto(w, to) \/ \E from : Send(w, from, to)
      BY <2>2
    <3>2. to # "promoted"
      OBVIOUS
    <3>3. QED BY <1>3, <3>1, <3>2, MoveFades
  <2>3. QED BY <1>2, <2>1, <2>2
<1>5. FilesGrow(files, files')
  BY <1>1 DEF FilesGrow
<1>6. QED BY <1>1, <1>4, <1>5, IdleStep

(* A session that reaches "promoted" with its artifact in the store.       *)
LEMMA PromotedRows ==
  ASSUME IInv, IInv', JInv, NEW w \in Workers, NEW from, Send(w, from, "promoted"),
         engine' = engine, db' = db, manifest' = manifest, conn' = conn,
         FilesGrow(files, files'), files'[ArtifactOf(w)] # None
  PROVE  JInv' /\ Evolves
<1>1. /\ WorkersOK(worker, engine) /\ SoundEngine(engine) /\ SoundEngine(db)
  BY DEF IInv, Pair
<1>2. /\ TokensFade(worker, worker')
      /\ \A v \in Workers : /\ worker'[v].job = worker[v].job
                            /\ worker'[v].content = worker[v].content
                            /\ v # w => worker'[v] = worker[v]
  BY <1>1, MoveFades
<1>3. SameJobs(engine, engine)
  BY ShiftsAllRefl, ShiftsKeep
<1>4. PromotionsFade(worker, worker)
  BY DEF PromotionsFade
<1>5. PromotedOK(worker, engine, files')
  BY <1>1, <1>3, <1>4, PromotedKept DEF JInv
<1>6. PromotedOK(worker', engine', files')
  <2>1. SUFFICES ASSUME NEW v \in Workers, worker'[v].pc = "promoted"
                 PROVE  files'[<<Type(engine[worker'[v].job]), worker'[v].content>>] # None
    BY DEF PromotedOK
  <2>2. CASE v = w
    BY <1>2, <2>2 DEF ArtifactOf
  <2>3. CASE v # w
    BY <1>2, <1>5, <2>1, <2>3 DEF PromotedOK
  <2>4. QED BY <2>2, <2>3
<1>7. LeasesFade(engine, engine) /\ LeasesFade(db, db) /\ SameDone(db, db)
  BY ShiftsAllRefl, ShiftsKeep
<1>8. TokensOK(engine', worker') /\ TokensOK(db', worker')
  BY <1>1, <1>2, <1>7, TokensKept DEF JInv
<1>9. ManifestOK(db', manifest', files')
  BY <1>7, ManifestKept DEF JInv
<1>10. Evolves
  BY DEF Evolves, RowChange
<1>11. KeysOK(engine', db', conn') /\ UnsavedOK(engine', db')
  BY DEF JInv
<1>12. QED BY <1>6, <1>8, <1>9, <1>10, <1>11 DEF JInv

(* Verification of an existing target or of the staging file.              *)
LEMMA VerifyRows ==
  ASSUME IInv, IInv', JInv, NEW w \in Workers, VerifyStaging(w)
  PROVE  JInv' /\ Evolves
<1>1. /\ engine' = engine /\ db' = db /\ manifest' = manifest /\ conn' = conn
      /\ files' = files /\ WorkersOK(worker, engine) /\ FilesGrow(files, files')
  BY DEF VerifyStaging, store, disk, IInv, FilesGrow
<1>2. CASE files[ArtifactOf(w)] # None /\ Send(w, "authorized", "promoted")
  BY <1>1, <1>2, PromotedRows
<1>3. CASE Goto(w, "verified")
  BY <1>1, <1>3, MoveFades, IdleStep
<1>4. CASE Close(w)
  BY <1>1, <1>4, CloseFades, IdleStep
<1>5. QED BY <1>2, <1>3, <1>4 DEF VerifyStaging

(* The rename of the staging file.                                         *)
LEMMA PromoteRows ==
  ASSUME IInv, IInv', JInv, NEW w \in Workers, Promote(w)
  PROVE  JInv' /\ Evolves
<1>1. /\ engine' = engine /\ db' = db /\ manifest' = manifest /\ conn' = conn
      /\ WorkersOK(worker, engine)
  BY DEF Promote, store, IInv
<1>2. CASE Close(w) /\ UNCHANGED disk
  <2>1. FilesGrow(files, files')
    BY <1>2 DEF disk, FilesGrow
  <2>2. QED BY <1>1, <1>2, <2>1, CloseFades, IdleStep
<1>3. CASE /\ staging[worker[w].job] # None
           /\ files' = [files EXCEPT ![ArtifactOf(w)] = staging[worker[w].job]]
           /\ Send(w, "verified", "promoted") \/ Close(w)
  <2>1. ArtifactOf(w) \in Artifacts
    BY ArtifactOfType DEF Promote
  <2>2. files \in [Artifacts -> Contents \cup {None}]
    BY DEF IInv, Storage
  <2>3. FilesGrow(files, files') /\ files'[ArtifactOf(w)] # None
    BY <1>3, <2>1, <2>2 DEF FilesGrow
  <2>4. CASE Send(w, "verified", "promoted")
    BY <1>1, <2>3, <2>4, PromotedRows
  <2>5. CASE Close(w)
    BY <1>1, <2>3, <2>5, CloseFades, IdleStep
  <2>6. QED BY <1>3, <2>4, <2>5
<1>4. QED BY <1>2, <1>3 DEF Promote

(* The worker writes its result.                                           *)
LEMMA WriteRows ==
  ASSUME IInv, IInv', JInv, NEW w \in Workers, NEW c \in Contents, WriteResult(w, c)
  PROVE  JInv' /\ Evolves
<1>1. /\ engine' = engine /\ db' = db /\ manifest' = manifest /\ conn' = conn
      /\ WorkersOK(worker, engine) /\ FilesGrow(files, files')
  BY DEF WriteResult, store, IInv, FilesGrow
<1>2. CASE Close(w)
  BY <1>1, <1>2, CloseFades, IdleStep
<1>3. CASE worker' = [worker EXCEPT ![w].pc = "written", ![w].content = c]
  <2>1. worker \in [Workers -> WorkerState]
    BY <1>1 DEF WorkersOK
  <2> DEFINE r == [worker[w] EXCEPT !.pc = "written", !.content = c]
  <2>2. r.pc = "written" /\ r.token = worker[w].token
    BY <2>1 DEF WorkerState
  <2>3. worker' = [worker EXCEPT ![w] = r]
    BY <1>3, <2>1
  <2> HIDE DEF r
  <2>4. ASSUME NEW v \in Workers PROVE worker'[v] = IF v = w THEN r ELSE worker[v]
    BY <2>1, <2>3
  <2>5. TokensFade(worker, worker') /\ PromotionsFade(worker, worker')
    BY <2>2, <2>4 DEF TokensFade, PromotionsFade
  <2>6. QED BY <1>1, <2>5, IdleStep
<1>4. QED BY <1>2, <1>3 DEF WriteResult

(* A failed statement over a shift.                                        *)
LEMMA PersistFailsShifts ==
  ASSUME NEW before, NEW after, NEW rows, Pair(before, rows, conn),
         Advances(before, after), ShiftsAll(before, after),
         PersistFails(rows, before, after)
  PROVE  /\ engine' = before /\ ShiftsAll(rows, db')
         /\ conn' \in {conn, "closed"} /\ manifest' = manifest
<1>1. engine' = before /\ manifest' = manifest /\ conn' \in {conn, "closed"}
  BY DEF PersistFails
<1>2. \/ db' = rows
      \/ CasMatches(rows, before, after) /\ db' = CasRows(rows, before, after)
  BY DEF PersistFails
<1>3. ShiftsAll(rows, db')
  BY <1>2, CasShifts, ShiftsAllRefl
<1>4. QED BY <1>1, <1>3

(* persist_single_or_rollback of a shift.                                  *)
LEMMA SaveShifts ==
  ASSUME IInv, NEW j \in JobIds, engine[j] # NoJob,
         NEW job \in Job, SoundJob(job), job.attempt = engine[j].attempt,
         job.revision = engine[j].revision + 1, Shifts(engine[j], job),
         NEW ok, Save(j, job, ok)
  PROVE  /\ ShiftsAll(engine, engine') /\ ShiftsAll(db, db')
         /\ conn' \in {conn, "closed"} /\ manifest' = manifest
         /\ \A i \in JobIds : engine'[i] # engine[i] => db[i] # NoJob
<1> DEFINE after == [engine EXCEPT ![j] = job]
<1>0. Pair(engine, db, conn) /\ SoundEngine(engine)
  BY DEF IInv, Pair
<1>1. Advances(engine, after)
  <2>1. job.attempt \in Nat /\ job.attempt >= engine[j].attempt /\ SameIdentity(job, engine[j])
    BY DEF Job, Shifts
  <2>2. QED BY <1>0, <2>1, ReplaceSound
<1>2. ShiftsAll(engine, after)
  <2>1. job # NoJob
    BY AbsentAssumption
  <2>2. QED BY <1>0, <2>1, ReplaceShifts
<1> HIDE DEF after
<1>3. \/ /\ Persisted(db, engine, after) /\ engine' = after
         /\ db' = CasRows(db, engine, after) /\ conn' = conn
         /\ manifest' = manifest
      \/ PersistFails(db, engine, after)
  BY DEF Save, after
<1>4. CASE /\ Persisted(db, engine, after) /\ engine' = after
           /\ db' = CasRows(db, engine, after) /\ conn' = conn
           /\ manifest' = manifest
  <2>1. CasMatches(db, engine, after)
    BY <1>4, PersistedMatches
  <2>2. ShiftsAll(db, db') /\ Touches(db, engine, after)
    BY <1>0, <1>1, <1>2, <1>4, <2>1, CasShifts
  <2>3. QED BY <1>2, <1>4, <2>2 DEF Touches
<1>5. CASE PersistFails(db, engine, after)
  BY <1>0, <1>1, <1>2, <1>5, PersistFailsShifts, ShiftsAllRefl
<1>6. QED BY <1>3, <1>4, <1>5

(* start.                                                                  *)
LEMMA StartRows ==
  ASSUME IInv, IInv', JInv, NEW w \in Workers, Start(w)
  PROVE  JInv' /\ Evolves
<1> DEFINE j == worker[w].job
           job == StartJob(engine[j], worker[w].at)
<1>1. /\ j \in JobIds /\ worker[w].at \in Nat /\ WorkersOK(worker, engine)
      /\ FilesGrow(files, files')
  BY DEF Start, IInv, WorkersOK, WorkerOK, WorkerState, FilesGrow, disk
<1>2. CASE /\ engine[j] # NoJob /\ engine[j].status = "claimed"
           /\ \E ok \in BOOLEAN : /\ Save(j, job, ok)
                                  /\ IF ok THEN Goto(w, "working") ELSE Close(w)
  <2>1. PICK ok \in BOOLEAN : /\ Save(j, job, ok)
                              /\ IF ok THEN Goto(w, "working") ELSE Close(w)
    BY <1>2
  <2>2. engine[j] \in Job /\ SoundJob(engine[j])
    BY <1>1, <1>2 DEF IInv, Pair, SoundEngine, Engine
  <2>3. /\ job \in Job /\ SoundJob(job) /\ job.attempt = engine[j].attempt
        /\ job.revision = engine[j].revision + 1 /\ Shifts(engine[j], job)
    BY <1>1, <1>2, <2>2, StartSound, StartShifts
  <2> HIDE DEF job
  <2>4. /\ ShiftsAll(engine, engine') /\ ShiftsAll(db, db')
        /\ conn' \in {conn, "closed"} /\ manifest' = manifest
        /\ \A i \in JobIds : engine'[i] # engine[i] => db[i] # NoJob
    BY <1>1, <1>2, <2>1, <2>3, SaveShifts
  <2>5. TokensFade(worker, worker') /\ PromotionsFade(worker, worker')
    BY <1>1, <2>1, MoveFades, CloseFades
  <2>6. QED BY <1>1, <2>4, <2>5, ShiftStep
<1>3. CASE Reject(w)
  BY <1>1, <1>3, CloseFades, IdleStep DEF Reject, store
<1>4. QED BY <1>2, <1>3 DEF Start, LeaseValid

(* fail.                                                                   *)
LEMMA FailRows ==
  ASSUME IInv, IInv', JInv, NEW w \in Workers, NEW b \in BOOLEAN, Fail(w, b)
  PROVE  JInv' /\ Evolves
<1> DEFINE j == worker[w].job
           retry == b /\ engine[j].attempt < engine[j].max
           job == EndAttempt(engine[j], retry)
<1>1. /\ j \in JobIds /\ WorkersOK(worker, engine) /\ FilesGrow(files, files')
      /\ Close(w)
  BY DEF Fail, IInv, WorkersOK, WorkerOK, FilesGrow, disk
<1>2. CASE /\ engine[j] # NoJob /\ engine[j].status \in Active
           /\ \E ok \in BOOLEAN : Save(j, job, ok)
  <2>1. engine[j] \in Job /\ SoundJob(engine[j])
    BY <1>1, <1>2 DEF IInv, Pair, SoundEngine, Engine
  <2>2. retry \in BOOLEAN /\ (retry => engine[j].attempt < engine[j].max)
    OBVIOUS
  <2> HIDE DEF retry
  <2>3. /\ job \in Job /\ SoundJob(job) /\ job.attempt = engine[j].attempt
        /\ job.revision = engine[j].revision + 1 /\ Shifts(engine[j], job)
    BY <1>2, <2>1, <2>2, EndAttemptSound, EndShifts
  <2> HIDE DEF job
  <2>4. /\ ShiftsAll(engine, engine') /\ ShiftsAll(db, db')
        /\ conn' \in {conn, "closed"} /\ manifest' = manifest
        /\ \A i \in JobIds : engine'[i] # engine[i] => db[i] # NoJob
    BY <1>1, <1>2, <2>3, SaveShifts
  <2>5. QED BY <1>1, <2>4, CloseFades, ShiftStep
<1>3. CASE UNCHANGED <<engine, store>>
  BY <1>1, <1>3, CloseFades, IdleStep DEF store
<1>4. QED BY <1>2, <1>3 DEF Fail, LeaseValid, FailJob

(* cancel, also when the client abandons it.                               *)
LEMMA CancelRows ==
  ASSUME IInv, IInv', JInv, NEW j \in JobIds, Cancel(j)
  PROVE  JInv' /\ Evolves
<1> DEFINE job == CancelJob(engine[j])
           after == [engine EXCEPT ![j] = job]
<1>1. /\ engine[j] \in Job /\ engine[j] # NoJob /\ SoundJob(engine[j])
      /\ Cancelable(engine[j]) /\ Pair(engine, db, conn) /\ SoundEngine(engine)
  BY FieldTypes DEF Cancel, IInv, Pair, SoundEngine
<1>2. /\ job \in Job /\ SoundJob(job) /\ job.revision = engine[j].revision + 1
      /\ job.attempt = engine[j].attempt /\ SameIdentity(job, engine[j])
      /\ Shifts(engine[j], job) /\ job.status = "canceled"
  BY <1>1, CancelSound, CancelShifts
<1> HIDE DEF job
<1>3. /\ TokensFade(worker, worker') /\ PromotionsFade(worker, worker')
      /\ FilesGrow(files, files')
  BY DEF Cancel, disk, TokensFade, PromotionsFade, FilesGrow
<1>4. Advances(engine, after)
  <2>1. job.attempt \in Nat /\ job.attempt >= engine[j].attempt
    BY <1>2 DEF Job
  <2>2. QED BY <1>1, <1>2, <2>1, ReplaceSound
<1>5. ShiftsAll(engine, after)
  <2>1. job # NoJob
    BY <1>2, AbsentAssumption
  <2>2. QED BY <1>1, <1>2, <2>1, ReplaceShifts
<1>6. CASE \E ok \in BOOLEAN : Save(j, job, ok)
  <2>1. /\ ShiftsAll(engine, engine') /\ ShiftsAll(db, db')
        /\ conn' \in {conn, "closed"} /\ manifest' = manifest
        /\ \A i \in JobIds : engine'[i] # engine[i] => db[i] # NoJob
    BY <1>1, <1>2, <1>6, SaveShifts
  <2>2. QED BY <1>3, <2>1, ShiftStep
<1>7. CASE /\ engine' = after /\ conn' = conn /\ manifest' = manifest
           /\ \/ db' = db
              \/ CasMatches(db, engine, after) /\ db' = CasRows(db, engine, after)
  <2>1. ShiftsAll(db, db')
    BY <1>1, <1>4, <1>5, <1>7, CasShifts, ShiftsAllRefl
  <2>2. ASSUME NEW i \in JobIds, engine'[i] # engine[i] PROVE engine'[i].status = "canceled"
    BY <1>1, <1>2, <1>7, <2>2 DEF SoundEngine, Engine
  <2>3. QED BY <1>3, <1>5, <1>7, <2>1, <2>2, ShiftStep
<1>8. QED BY <1>6, <1>7 DEF Cancel, job

-----------------------------------------------------------------------------
(* Polls.                                                                  *)

(* The engine and the table once the expired leases are persisted.         *)
LEMMA ReconciledShifts ==
  ASSUME IInv, NEW w \in Workers
  PROVE  /\ ShiftsAll(engine, Reconciled(w)) /\ ShiftsAll(Reconciled(w), Requeued(w))
         /\ Persisted(db, engine, Reconciled(w)) =>
              /\ ShiftsAll(db, RowsReconciled(w))
              /\ Touches(db, engine, Reconciled(w))
<1>1. worker[w].at \in Nat /\ SoundEngine(engine) /\ SoundEngine(Reconciled(w))
      /\ Advances(engine, Reconciled(w)) /\ Pair(engine, db, conn)
  BY ReconciledSound DEF IInv, Pair
<1>2. ShiftsAll(engine, Reconciled(w))
  BY <1>1, ExpireLeasesShifts DEF Reconciled
<1>3. ShiftsAll(Reconciled(w), Requeued(w))
  BY <1>1, RequeueRetryableShifts DEF Requeued
<1>4. ASSUME Persisted(db, engine, Reconciled(w))
      PROVE  ShiftsAll(db, RowsReconciled(w)) /\ Touches(db, engine, Reconciled(w))
  <2>1. CasMatches(db, engine, Reconciled(w))
    BY <1>4, PersistedMatches
  <2>2. QED BY <1>1, <1>2, <2>1, CasShifts DEF RowsReconciled
<1>5. QED BY <1>2, <1>3, <1>4

(* The same once the requeued jobs are persisted too.                      *)
LEMMA RequeuedShifts ==
  ASSUME IInv, NEW w \in Workers, ReachesClaim(w)
  PROVE  /\ ShiftsAll(engine, Requeued(w)) /\ ShiftsAll(db, RowsRequeued(w))
         /\ Touches(db, engine, Requeued(w))
<1>1. /\ ShiftsAll(engine, Reconciled(w)) /\ ShiftsAll(Reconciled(w), Requeued(w))
      /\ ShiftsAll(db, RowsReconciled(w)) /\ Touches(db, engine, Reconciled(w))
  BY ReconciledShifts DEF ReachesClaim
<1>2. /\ Pair(Reconciled(w), RowsReconciled(w), conn)
      /\ Advances(Reconciled(w), Requeued(w))
  BY ReconciledPair, ReconciledSound DEF ReachesClaim
<1>3. CasMatches(RowsReconciled(w), Reconciled(w), Requeued(w))
  BY PersistedMatches DEF ReachesClaim
<1>4. /\ ShiftsAll(RowsReconciled(w), RowsRequeued(w))
      /\ Touches(RowsReconciled(w), Reconciled(w), Requeued(w))
  BY <1>1, <1>2, <1>3, CasShifts DEF RowsRequeued
<1>5. ShiftsAll(engine, Requeued(w)) /\ ShiftsAll(db, RowsRequeued(w))
  BY <1>1, <1>4, ShiftsAllTrans
<1>6. Touches(db, engine, Requeued(w))
  BY <1>1, <1>4 DEF Touches, ShiftsAll
<1>7. QED BY <1>5, <1>6

(* A fresh token is known to the new owner only.                           *)
LEMMA TokensHanded ==
  ASSUME NEW e, NEW f, NEW ws, NEW xs, NEW w \in Workers, NEW t \in Tokens,
         TokensOK(e, ws), SoundEngine(e), SoundEngine(f),
         t \notin TokensIn(e), \A v \in Workers : ws[v].token # t,
         \A v \in Workers : \/ xs[v].token \in {ws[v].token, None}
                            \/ v = w /\ xs[v].token = t,
         \A i \in JobIds : f[i] # NoJob /\ f[i].lease # None =>
           \/ e[i] # NoJob /\ f[i].lease = e[i].lease
           \/ f[i].lease.owner = w /\ f[i].lease.token = t
  PROVE  TokensOK(f, xs)
<1>1. SUFFICES ASSUME NEW i \in JobIds, NEW v \in Workers, f[i] # NoJob,
                      f[i].lease # None, xs[v].token = f[i].lease.token
               PROVE  v = f[i].lease.owner
  BY DEF TokensOK
<1>2. f[i] \in Job
  BY <1>1, FieldTypes
<1>3. f[i].lease \in Lease
  BY <1>1, <1>2 DEF Job
<1>4. f[i].lease.token # None /\ t # None
  BY <1>3, AbsentAssumption DEF Lease
<1>5. CASE f[i].lease.owner = w /\ f[i].lease.token = t
  BY <1>1, <1>4, <1>5
<1>6. CASE e[i] # NoJob /\ f[i].lease = e[i].lease
  <2>1. e[i].lease.token \in TokensIn(e)
    BY <1>1, <1>6 DEF TokensIn, Present
  <2>2. xs[v].token # t
    BY <1>1, <1>6, <2>1
  <2>3. xs[v].token = ws[v].token
    BY <1>1, <1>4, <2>2
  <2>4. QED BY <1>1, <1>6, <2>3 DEF TokensOK
<1>7. QED BY <1>1, <1>5, <1>6

(* The third transaction of a poll, committed: the table holds the claim,  *)
(* the engine holds it too or, with the connection lost, does not.         *)
LEMMA HandStep ==
  ASSUME IInv, IInv', JInv, NEW w \in Workers, NEW j \in JobIds, NEW t \in Tokens,
         ReachesClaim(w), t \in FreshTokens,
         NextClaim(Requeued(w), j, Capabilities[w], worker[w].at),
         conn = "open" \/ Persisted(RowsRequeued(w), Requeued(w), ClaimedEngine(w, j, t)),
         CasMatches(RowsRequeued(w), Requeued(w), ClaimedEngine(w, j, t)),
         db' = CasRows(RowsRequeued(w), Requeued(w), ClaimedEngine(w, j, t)),
         \/ engine' = Requeued(w) /\ conn' = "closed" /\ Close(w)
         \/ /\ engine' = ClaimedEngine(w, j, t) /\ conn' = conn
            /\ worker' = [worker EXCEPT ![w] = [pc |-> "tasked", at |-> 0, job |-> j,
                                                token |-> t, content |-> None]],
         manifest' = manifest, files' = files
  PROVE  JInv' /\ Evolves
<1> DEFINE e == Requeued(w)
           rows == RowsRequeued(w)
           after == ClaimedEngine(w, j, t)
           now == worker[w].at
<1>1. /\ ShiftsAll(engine, e) /\ ShiftsAll(db, rows) /\ Touches(db, engine, e)
  BY RequeuedShifts
<1>2. /\ Pair(e, rows, conn) /\ Pair(engine, db, conn) /\ WorkersOK(worker, engine)
      /\ SoundEngine(e) /\ now \in Nat
  BY ReachesClaimPair, ReconciledSound DEF IInv
<1>3. /\ SoundEngine(after) /\ Advances(e, after) /\ after[j] # NoJob
      /\ after[j].revision = e[j].revision + 1 /\ e[j].revision \in Nat
  BY ClaimedSound
<1>4. /\ e[j] # NoJob /\ e[j].status = "pending" /\ e[j].attempt < e[j].max
  BY DEF NextClaim, Claimable
<1>5. after = [e EXCEPT ![j] = Claim(e[j], w, t, now)]
  BY <1>2 DEF ClaimedEngine, SoundEngine, Engine
<1>6. db' = CasRows(rows, e, after) /\ CasMatches(rows, e, after)
  OBVIOUS
<1>7. t \notin TokensIn(engine) /\ t \notin TokensIn(db)
      /\ \A v \in Workers : worker[v].token # t
  BY DEF FreshTokens
<1>8. \/ engine' = e /\ conn' = "closed" /\ Close(w)
      \/ /\ engine' = after /\ conn' = conn
         /\ worker' = [worker EXCEPT ![w] = [pc |-> "tasked", at |-> 0, job |-> j,
                                             token |-> t, content |-> None]]
  OBVIOUS
<1> HIDE DEF e, rows, after
<1>9. Hands(e[j], after[j], w, t, now)
  <2>1. e[j] \in Job
    BY <1>2, <1>4, FieldTypes
  <2>2. Hands(e[j], Claim(e[j], w, t, now), w, t, now)
    BY <1>2, <1>4, <2>1, ClaimHands
  <2>3. after[j] = Claim(e[j], w, t, now)
    BY <1>2, <1>5 DEF SoundEngine, Engine
  <2>4. QED BY <2>2, <2>3
<1>10. \A i \in JobIds : i # j => after[i] = e[i]
  BY <1>2, <1>5 DEF SoundEngine, Engine
<1>11. after[j] # e[j]
  BY <1>3
<1>12. rows[j] = e[j]
  BY <1>2, <1>3, <1>6, <1>11, CasSame
<1>13. db'[j] = after[j] /\ \A i \in JobIds : i # j => db'[i] = rows[i]
  BY <1>6, <1>10, <1>11 DEF CasRows
<1>14. /\ db[j] # NoJob /\ Hands(db[j], db'[j], w, t, now)
  <2>1. db[j] # NoJob /\ Shifts(db[j], e[j])
    BY <1>1, <1>4, <1>12 DEF ShiftsAll
  <2>2. Hands(db[j], after[j], w, t, now)
    BY <1>4, <1>9, <2>1, ShiftsHands
  <2>3. QED BY <1>13, <2>1, <2>2
<1>15. engine[j] # NoJob /\ Hands(engine[j], after[j], w, t, now)
  <2>1. engine[j] # NoJob /\ Shifts(engine[j], e[j])
    BY <1>1, <1>4 DEF ShiftsAll
  <2>2. QED BY <1>4, <1>9, <2>1, ShiftsHands
<1>16. /\ SameJobs(engine, e) /\ LeasesFade(engine, e)
       /\ SameJobs(db, rows) /\ LeasesFade(db, rows) /\ SameDone(db, rows)
  BY <1>1, ShiftsKeep
<1>17. SameJobs(db, db')
  <2>1. SameIdentity(db'[j], db[j]) /\ db'[j] # NoJob
    BY <1>3, <1>13, <1>14 DEF Hands
  <2>2. QED BY <1>13, <1>14, <1>16, <2>1 DEF SameJobs
<1>18. SameJobs(engine, engine')
  <2>1. SameIdentity(after[j], engine[j])
    BY <1>15 DEF Hands
  <2>2. SameJobs(engine, after)
    BY <1>3, <1>10, <1>15, <1>16, <2>1 DEF SameJobs
  <2>3. QED BY <1>8, <1>16, <2>2
<1>19. KeysOK(engine', db', conn')
  BY <1>8, <1>17, <1>18, KeysKept DEF JInv
<1>20. UnsavedOK(engine', db')
  <2>1. SUFFICES ASSUME NEW i \in JobIds, engine'[i] # NoJob, db'[i] = NoJob
                 PROVE  NeverHanded(engine'[i])
    BY DEF UnsavedOK
  <2>2. i # j /\ db[i] = NoJob
    BY <1>3, <1>13, <1>17, <2>1 DEF SameJobs
  <2>3. engine'[i] = engine[i]
    BY <1>1, <1>8, <1>10, <2>2 DEF Touches
  <2>4. QED BY <2>1, <2>2, <2>3 DEF JInv, UnsavedOK
<1>21. SameDone(db, db')
  <2>1. ~Done(db[j]) /\ ~Done(db'[j])
    BY <1>14 DEF Done, Hands, Active
  <2>2. QED BY <1>13, <1>16, <2>1 DEF SameDone
<1>22. FilesGrow(files, files')
  BY DEF FilesGrow
<1>23. PromotionsFade(worker, worker') /\ \A v \in Workers :
         \/ worker'[v].token \in {worker[v].token, None}
         \/ v = w /\ worker'[v].token = t
  <2>1. CASE Close(w)
    BY <1>2, <2>1, CloseFades DEF TokensFade
  <2>2. CASE worker' = [worker EXCEPT ![w] = [pc |-> "tasked", at |-> 0, job |-> j,
                                              token |-> t, content |-> None]]
    BY <1>2, <2>2 DEF WorkersOK, PromotionsFade
  <2>3. QED BY <1>8, <2>1, <2>2
<1>24. SoundEngine(engine) /\ SoundEngine(db) /\ SoundEngine(engine') /\ SoundEngine(db')
  BY DEF IInv, Pair
<1>25. TokensOK(db', worker')
  <2>1. ASSUME NEW i \in JobIds, db'[i] # NoJob, db'[i].lease # None
        PROVE  \/ db[i] # NoJob /\ db'[i].lease = db[i].lease
               \/ db'[i].lease.owner = w /\ db'[i].lease.token = t
    BY <1>13, <1>14, <1>16, <2>1 DEF LeasesFade, Hands
  <2>2. TokensOK(db, worker)
    BY DEF JInv
  <2>3. QED BY <1>7, <1>23, <1>24, <2>1, <2>2, TokensHanded
<1>26. TokensOK(engine', worker')
  <2>1. ASSUME NEW i \in JobIds, engine'[i] # NoJob, engine'[i].lease # None
        PROVE  \/ engine[i] # NoJob /\ engine'[i].lease = engine[i].lease
               \/ engine'[i].lease.owner = w /\ engine'[i].lease.token = t
    <3>1. CASE i = j /\ engine' = after
      BY <1>15, <3>1 DEF Hands
    <3>2. CASE engine'[i] = e[i]
      BY <1>16, <2>1, <3>2 DEF LeasesFade
    <3>3. QED BY <1>8, <1>10, <3>1, <3>2
  <2>2. TokensOK(engine, worker)
    BY DEF JInv
  <2>3. QED BY <1>7, <1>23, <1>24, <2>1, <2>2, TokensHanded
<1>27. PromotedOK(worker', engine', files')
  BY <1>2, <1>18, <1>22, <1>23, <1>24, PromotedKept DEF JInv
<1>28. ManifestOK(db', manifest', files')
  BY <1>21, <1>22, ManifestKept DEF JInv
<1>29. Evolves
  <2>1. RowChange(j)
    <3>1. conn = "open"
      BY <1>11 DEF Persisted, Changed, after, e
    <3>2. Claimable(Requeued(w), j, Capabilities[w], worker[w].at)
      BY DEF NextClaim
    <3>3. HandedBy(w, t, j)
      BY <1>13, <1>14, <3>1, <3>2 DEF HandedBy, rows
    <3>4. QED BY <1>3, <1>13, <1>14, <3>3 DEF RowChange
  <2>2. ASSUME NEW i \in JobIds, i # j PROVE RowChange(i)
    BY <1>1, <1>13, <2>2 DEF RowChange, ShiftsAll
  <2>3. QED BY <2>1, <2>2 DEF Evolves
<1>30. QED BY <1>19, <1>20, <1>25, <1>26, <1>27, <1>28, <1>29 DEF JInv

(* A poll that finds nothing, or whose first, second or third transaction  *)
(* fails.                                                                  *)
LEMMA PollFailsRows ==
  ASSUME IInv, IInv', JInv, NEW w \in Workers,
         \/ PollNoWork(w) \/ PollExpireFails(w) \/ PollRequeueFails(w)
         \/ \E j \in JobIds, t \in Tokens : PollClaimFails(w, j, t)
  PROVE  JInv' /\ Evolves
<1>1. /\ Close(w) /\ files' = files
  BY DEF PollNoWork, PollExpireFails, PollRequeueFails, PollClaimFails, disk
<1>2. /\ TokensFade(worker, worker') /\ PromotionsFade(worker, worker')
      /\ FilesGrow(files, files')
  BY <1>1, CloseFades DEF IInv, FilesGrow
<1>3. CASE PollNoWork(w)
  <2>1. /\ ShiftsAll(engine, Requeued(w)) /\ ShiftsAll(db, RowsRequeued(w))
        /\ Touches(db, engine, Requeued(w))
    BY <1>3, RequeuedShifts DEF PollNoWork
  <2>2. /\ engine' = Requeued(w) /\ db' = RowsRequeued(w) /\ conn' = conn
        /\ manifest' = manifest
    BY <1>3 DEF PollNoWork
  <2>3. QED BY <1>2, <2>1, <2>2, ShiftStep DEF Touches
<1>4. CASE PollExpireFails(w)
  <2>1. PersistFails(db, engine, Reconciled(w))
    BY <1>4 DEF PollExpireFails, Reconciled
  <2>2. /\ ShiftsAll(engine, Reconciled(w)) /\ Advances(engine, Reconciled(w))
        /\ Pair(engine, db, conn)
    BY ReconciledShifts, ReconciledSound DEF IInv
  <2>3. /\ engine' = engine /\ ShiftsAll(db, db')
        /\ conn' \in {conn, "closed"} /\ manifest' = manifest
    BY <2>1, <2>2, PersistFailsShifts
  <2>4. QED BY <1>2, <2>3, ShiftsAllRefl, ShiftStep
<1>5. CASE PollRequeueFails(w)
  <2>1. /\ Persisted(db, engine, Reconciled(w))
        /\ PersistFails(RowsReconciled(w), Reconciled(w), Requeued(w))
    BY <1>5 DEF PollRequeueFails
  <2>2. /\ ShiftsAll(engine, Reconciled(w)) /\ ShiftsAll(Reconciled(w), Requeued(w))
        /\ ShiftsAll(db, RowsReconciled(w)) /\ Touches(db, engine, Reconciled(w))
        /\ Advances(Reconciled(w), Requeued(w))
        /\ Pair(Reconciled(w), RowsReconciled(w), conn)
    BY <2>1, ReconciledShifts, ReconciledSound, ReconciledPair
  <2>3. /\ engine' = Reconciled(w) /\ ShiftsAll(RowsReconciled(w), db')
        /\ conn' \in {conn, "closed"} /\ manifest' = manifest
    BY <2>1, <2>2, PersistFailsShifts
  <2>4. ShiftsAll(db, db')
    BY <2>2, <2>3, ShiftsAllTrans
  <2>5. QED BY <1>2, <2>2, <2>3, <2>4, ShiftStep DEF Touches
<1>6. CASE \E j \in JobIds, t \in Tokens : PollClaimFails(w, j, t)
  <2>1. PICK j \in JobIds, t \in Tokens : PollClaimFails(w, j, t)
    BY <1>6
  <2>2. /\ ReachesClaim(w) /\ t \in FreshTokens
        /\ NextClaim(Requeued(w), j, Capabilities[w], worker[w].at)
        /\ PersistFails(RowsRequeued(w), Requeued(w), ClaimedEngine(w, j, t))
    BY <2>1 DEF PollClaimFails
  <2>3. /\ engine' = Requeued(w) /\ conn' \in {conn, "closed"} /\ manifest' = manifest
        /\ \/ db' = RowsRequeued(w)
           \/ /\ CasMatches(RowsRequeued(w), Requeued(w), ClaimedEngine(w, j, t))
              /\ db' = CasRows(RowsRequeued(w), Requeued(w), ClaimedEngine(w, j, t))
              /\ conn = "open" /\ conn' = "closed"
    BY <2>2 DEF PersistFails
  <2>4. CASE db' = RowsRequeued(w)
    <3>1. /\ ShiftsAll(engine, Requeued(w)) /\ ShiftsAll(db, RowsRequeued(w))
          /\ Touches(db, engine, Requeued(w))
      BY <2>2, RequeuedShifts
    <3>2. QED BY <1>2, <2>3, <2>4, <3>1, ShiftStep DEF Touches
  <2>5. CASE /\ CasMatches(RowsRequeued(w), Requeued(w), ClaimedEngine(w, j, t))
             /\ db' = CasRows(RowsRequeued(w), Requeued(w), ClaimedEngine(w, j, t))
             /\ conn = "open" /\ conn' = "closed"
    BY <1>1, <2>2, <2>3, <2>5, HandStep
  <2>6. QED BY <2>3, <2>4, <2>5
<1>7. QED BY <1>3, <1>4, <1>5, <1>6

(* A poll that hands out a job.                                            *)
LEMMA PollClaimRows ==
  ASSUME IInv, IInv', JInv, NEW w \in Workers, NEW j \in JobIds, NEW t \in Tokens,
         PollClaim(w, j, t)
  PROVE  JInv' /\ Evolves
<1>1. /\ ReachesClaim(w) /\ t \in FreshTokens
      /\ NextClaim(Requeued(w), j, Capabilities[w], worker[w].at)
      /\ Persisted(RowsRequeued(w), Requeued(w), ClaimedEngine(w, j, t))
      /\ engine' = ClaimedEngine(w, j, t) /\ conn' = conn
      /\ db' = CasRows(RowsRequeued(w), Requeued(w), ClaimedEngine(w, j, t))
      /\ worker' = [worker EXCEPT ![w] = [pc |-> "tasked", at |-> 0, job |-> j,
                                          token |-> t, content |-> None]]
      /\ manifest' = manifest /\ files' = files
  BY DEF PollClaim, disk
<1>2. CasMatches(RowsRequeued(w), Requeued(w), ClaimedEngine(w, j, t))
  BY <1>1, PersistedMatches
<1>3. QED BY <1>1, <1>2, HandStep

-----------------------------------------------------------------------------
(* Results, submissions and restarts.                                      *)

(* The manifest entry of a result is made together with its row.           *)
LEMMA ManifestAdds ==
  ASSUME NEW rows, NEW new, NEW man, NEW fs, NEW j \in JobIds, NEW a \in Artifacts,
         man \in [Artifacts -> JobIds \cup {None}],
         ManifestOK(rows, man, fs), ~Done(rows[j]), Done(new[j]),
         \A i \in JobIds : i # j => new[i] = rows[i],
         a = <<Type(new[j]), new[j].result>>, fs[a] # None,
         man[a] \in {None, j},
         \A i \in JobIds : Done(new[i]) => <<Type(new[i]), new[i].result>> \in Artifacts
  PROVE  ManifestOK(new, [man EXCEPT ![a] = j], fs)
<1> DEFINE nm == [man EXCEPT ![a] = j]
<1>1. nm[a] = j /\ \A b \in Artifacts : b # a => nm[b] = man[b]
  OBVIOUS
<1> HIDE DEF nm
<1>2. ASSUME NEW b \in Artifacts, nm[b] # None
      PROVE  /\ nm[b] \in JobIds /\ Done(new[nm[b]])
             /\ b = <<Type(new[nm[b]]), new[nm[b]].result>> /\ fs[b] # None
  <2>1. CASE b = a
    BY <1>1, <2>1
  <2>2. CASE b # a
    <3>1. /\ nm[b] = man[b] /\ man[b] \in JobIds /\ Done(rows[man[b]])
          /\ b = <<Type(rows[man[b]]), rows[man[b]].result>> /\ fs[b] # None
      BY <1>1, <1>2, <2>2 DEF ManifestOK
    <3>2. new[man[b]] = rows[man[b]]
      BY <3>1
    <3>3. QED BY <3>1, <3>2
  <2>3. QED BY <2>1, <2>2
<1>3. ASSUME NEW i \in JobIds, Done(new[i])
      PROVE  nm[<<Type(new[i]), new[i].result>>] = i
  <2>1. CASE i = j
    BY <1>1, <2>1
  <2>2. CASE i # j
    <3>1. man[<<Type(new[i]), new[i].result>>] = i
      BY <1>3, <2>2 DEF ManifestOK
    <3>2. i # None
      BY JobIdsAssumption, AbsentAssumption
    <3>3. <<Type(new[i]), new[i].result>> # a
      BY <2>2, <3>1, <3>2
    <3>4. <<Type(new[i]), new[i].result>> \in Artifacts
      BY <1>3
    <3>5. QED BY <1>1, <3>1, <3>3, <3>4
  <2>3. QED BY <2>1, <2>2
<1>4. QED BY <1>2, <1>3 DEF ManifestOK, nm

(* The artifact of a succeeded sound row is one.                           *)
LEMMA DoneArtifact ==
  ASSUME NEW rows, SoundEngine(rows), NEW i \in JobIds, Done(rows[i])
  PROVE  <<Type(rows[i]), rows[i].result>> \in Artifacts
<1>1. rows[i] \in Job /\ SoundJob(rows[i]) /\ rows[i].status = "succeeded"
  BY FieldTypes DEF Done, SoundEngine
<1>2. rows[i].result # None
  BY <1>1 DEF SoundJob, StatusFieldsValid
<1>3. rows[i].result \in Contents
  BY <1>1, <1>2 DEF Job
<1>4. Type(rows[i]) \in JobTypes
  BY <1>1, TypeAssumption DEF Type, Job
<1>5. QED BY <1>3, <1>4 DEF Artifacts

(* succeed_with_artifact, committed: the row succeeds and its artifact is  *)
(* registered, in one transaction.                                         *)
LEMMA YieldStep ==
  ASSUME IInv, IInv', JInv, NEW w \in Workers, worker[w].pc = "promoted",
         LeaseValid(w), engine[worker[w].job].status = "running",
         CasMatches(db, engine,
           [engine EXCEPT ![worker[w].job] = Succeed(@, worker[w].content)]),
         db' = CasRows(db, engine,
           [engine EXCEPT ![worker[w].job] = Succeed(@, worker[w].content)]),
         Registrable(ArtifactOf(w), worker[w].job),
         manifest' = [manifest EXCEPT ![ArtifactOf(w)] = worker[w].job],
         \/ /\ engine' = [engine EXCEPT ![worker[w].job] = Succeed(@, worker[w].content)]
            /\ conn' = conn
         \/ engine' = engine /\ conn' = "closed",
         Close(w), files' = files
  PROVE  JInv' /\ Evolves
<1> DEFINE j == worker[w].job
           a == ArtifactOf(w)
           c == worker[w].content
           job == Succeed(engine[j], c)
           after == [engine EXCEPT ![j] = job]
<1>1. /\ j \in JobIds /\ a \in Artifacts /\ c \in Contents /\ engine[j] \in Job
      /\ WorkersOK(worker, engine) /\ Pair(engine, db, conn) /\ SoundEngine(engine)
      /\ SoundEngine(db) /\ SoundEngine(engine') /\ SoundEngine(db')
      /\ manifest \in [Artifacts -> JobIds \cup {None}]
  BY ArtifactOfType DEF IInv, Pair, Storage
<1>2. engine[j] # NoJob /\ SoundJob(engine[j]) /\ engine[j].status = "running"
  BY <1>1, AbsentAssumption DEF SoundEngine
<1>3. /\ job \in Job /\ SoundJob(job) /\ job.revision = engine[j].revision + 1
      /\ job.attempt = engine[j].attempt /\ SameIdentity(job, engine[j])
      /\ Yields(engine[j], job, c)
  BY <1>1, <1>2, SucceedSound, SucceedYields
<1>4. [engine EXCEPT ![worker[w].job] = Succeed(@, worker[w].content)] = after
  BY <1>1 DEF SoundEngine, Engine
<1> HIDE DEF job
<1>5. job # NoJob /\ job # engine[j] /\ after[j] = job
      /\ \A i \in JobIds : i # j => after[i] = engine[i]
  <2>1. engine[j].revision \in Nat
    BY <1>1 DEF Job
  <2>2. QED BY <1>1, <1>3, <2>1, AbsentAssumption DEF SoundEngine, Engine
<1>6. Advances(engine, after)
  <2>1. job.attempt \in Nat /\ job.attempt >= engine[j].attempt
    BY <1>3 DEF Job
  <2>2. QED BY <1>1, <1>2, <1>3, <2>1, ReplaceSound
<1>7. /\ CasMatches(db, engine, after) /\ db' = CasRows(db, engine, after)
      /\ \/ engine' = after /\ conn' = conn
         \/ engine' = engine /\ conn' = "closed"
  BY <1>4
<1>8. Registrable(a, j) /\ manifest' = [manifest EXCEPT ![a] = j]
  OBVIOUS
<1>9. a = <<Type(engine[j]), c>> /\ files[a] # None
  BY <1>1 DEF JInv, PromotedOK, ArtifactOf
<1>10. engine[j].lease # None /\ engine[j].lease.token = worker[w].token
       /\ worker[w].job = j
  BY DEF LeaseValid, HoldsLease
<1> HIDE DEF after, a
<1>11. db[j] = engine[j]
  BY <1>1, <1>5, <1>6, <1>7, CasSame
<1>12. db'[j] = job /\ \A i \in JobIds : i # j => db'[i] = db[i]
  BY <1>1, <1>5, <1>7 DEF CasRows
<1>13. SameJobs(db, db') /\ LeasesFade(db, db')
  BY <1>1, <1>2, <1>3, <1>5, <1>11, <1>12 DEF SameJobs, LeasesFade, Yields, SameIdentity
<1>14. SameJobs(engine, engine') /\ LeasesFade(engine, engine')
  <2>1. SameJobs(engine, after) /\ LeasesFade(engine, after)
    BY <1>1, <1>2, <1>3, <1>5 DEF SameJobs, LeasesFade, Yields, SameIdentity
  <2>2. SameJobs(engine, engine) /\ LeasesFade(engine, engine)
    BY ShiftsAllRefl, ShiftsKeep
  <2>3. QED BY <1>7, <2>1, <2>2
<1>15. /\ TokensFade(worker, worker') /\ PromotionsFade(worker, worker')
       /\ FilesGrow(files, files')
  BY <1>1, CloseFades DEF FilesGrow
<1>16. KeysOK(engine', db', conn')
  BY <1>7, <1>13, <1>14, KeysKept DEF JInv
<1>17. UnsavedOK(engine', db')
  <2>1. SUFFICES ASSUME NEW i \in JobIds, engine'[i] # NoJob, db'[i] = NoJob
                 PROVE  NeverHanded(engine'[i])
    BY DEF UnsavedOK
  <2>2. i # j
    BY <1>5, <1>12, <2>1
  <2>3. db[i] = NoJob /\ engine'[i] = engine[i]
    BY <1>5, <1>7, <1>12, <2>1, <2>2
  <2>4. QED BY <2>1, <2>3 DEF JInv, UnsavedOK
<1>18. TokensOK(engine', worker') /\ TokensOK(db', worker')
  BY <1>1, <1>13, <1>14, <1>15, TokensKept DEF JInv
<1>19. PromotedOK(worker', engine', files')
  BY <1>1, <1>14, <1>15, PromotedKept DEF JInv
<1>20. ManifestOK(db', manifest', files')
  <2>1. ~Done(db[j]) /\ Done(db'[j])
    BY <1>2, <1>3, <1>5, <1>11, <1>12 DEF Done, Yields
  <2>2. a = <<Type(db'[j]), db'[j].result>>
    BY <1>3, <1>9, <1>12 DEF Yields, SameIdentity, Type
  <2>3. \A i \in JobIds : Done(db'[i]) => <<Type(db'[i]), db'[i].result>> \in Artifacts
    BY <1>1, DoneArtifact
  <2>4. manifest[a] \in {None, j}
    BY <1>8 DEF Registrable
  <2>5. ManifestOK(db, manifest, files)
    BY DEF JInv
  <2>6. /\ j \in JobIds /\ a \in Artifacts /\ files[a] # None
        /\ manifest \in [Artifacts -> JobIds \cup {None}]
        /\ \A i \in JobIds : i # j => db'[i] = db[i]
    BY <1>1, <1>9, <1>12
  <2> HIDE DEF j, c
  <2>7. ManifestOK(db', [manifest EXCEPT ![a] = j], files)
    BY ONLY <2>1, <2>2, <2>3, <2>4, <2>5, <2>6, ManifestAdds
  <2>8. QED BY <1>8, <2>7
<1>21. Evolves
  <2>1. RowChange(j)
    BY <1>1, <1>2, <1>3, <1>5, <1>10, <1>11, <1>12 DEF RowChange
  <2>2. ASSUME NEW i \in JobIds, i # j PROVE RowChange(i)
    BY <1>12, <2>2 DEF RowChange
  <2>3. QED BY <2>1, <2>2 DEF Evolves
<1>22. QED BY <1>16, <1>17, <1>18, <1>19, <1>20, <1>21 DEF JInv

(* succeed_with_artifact in all its outcomes.                              *)
LEMMA SucceedRows ==
  ASSUME IInv, IInv', JInv, NEW w \in Workers, SucceedWithArtifact(w)
  PROVE  JInv' /\ Evolves
<1>1. /\ Close(w) /\ files' = files /\ worker[w].pc = "promoted"
      /\ WorkersOK(worker, engine)
  BY DEF SucceedWithArtifact, disk, IInv
<1>2. CASE engine' = engine /\ db' = db /\ manifest' = manifest /\ conn' \in {conn, "closed"}
  <2>1. FilesGrow(files, files')
    BY <1>1 DEF FilesGrow
  <2>2. QED BY <1>1, <1>2, <2>1, CloseFades, IdleStep
<1>3. CASE /\ LeaseValid(w) /\ engine[worker[w].job].status = "running"
           /\ CasMatches(db, engine,
                [engine EXCEPT ![worker[w].job] = Succeed(@, worker[w].content)])
           /\ db' = CasRows(db, engine,
                [engine EXCEPT ![worker[w].job] = Succeed(@, worker[w].content)])
           /\ Registrable(ArtifactOf(w), worker[w].job)
           /\ manifest' = [manifest EXCEPT ![ArtifactOf(w)] = worker[w].job]
           /\ \/ /\ engine' = [engine EXCEPT ![worker[w].job] = Succeed(@, worker[w].content)]
                 /\ conn' = conn
              \/ engine' = engine /\ conn' = "closed"
  BY <1>1, <1>3, YieldStep
<1>4. QED BY <1>2, <1>3 DEF SucceedWithArtifact, store

(* A fresh job passes validate_recovered_job.                              *)
LEMMA NewJobRecovers ==
  ASSUME NEW k \in Keys, NEW r \in Requests, NEW d \in Nat,
         NEW m \in 1..MaxAttempts, NEW now \in Nat, now < d
  PROVE  /\ ValidRecoveredJob(NewJob(k, r, d, m, now))
         /\ NeverHanded(NewJob(k, r, d, m, now))
         /\ NewJob(k, r, d, m, now).lease = None
         /\ NewJob(k, r, d, m, now).key = k
<1>1. SoundJob(NewJob(k, r, d, m, now))
  BY NewJobSound
<1>2. QED BY <1>1 DEF NewJob, SoundJob, ValidRecoveredJob, SucceededWithoutError,
              ClaimNotBeforeCreation, NeverHanded

(* The candidate of a submission: unknown to the engine, with its key, or  *)
(* the engine's own job.                                                   *)
Candidate(j, job) ==
  /\ job \in Job /\ SoundJob(job)
  /\ \/ /\ engine[j] = NoJob /\ db[j] = NoJob /\ ~KeyTaken(engine, job.key)
        /\ ValidRecoveredJob(job) /\ NeverHanded(job) /\ job.lease = None
     \/ engine[j] = job

(* engine.submit yields such a candidate.                                  *)
LEMMA SubmitCandidates ==
  ASSUME IInv, NEW j \in JobIds, NEW key \in Keys, NEW r \in Requests,
         NEW d \in Deadlines, NEW m \in 1..MaxAttempts,
         Submit(j, key, r, d, m)
  PROVE  \E job : Candidate(j, job) /\ SubmitCandidate(j, job)
<1>1. clock \in Nat /\ d \in Nat
  BY ClockAssumption DEF IInv, Control
<1>2. CASE /\ SubmittedNew(j, key, r, d, m)
           /\ SubmitCandidate(j, NewJob(key, r, d, m, clock))
  <2> DEFINE job == NewJob(key, r, d, m, clock)
  <2>1. /\ clock < d /\ engine[j] = NoJob /\ db[j] = NoJob /\ ~KeyTaken(engine, key)
    BY <1>1, <1>2 DEF SubmittedNew
  <2>2. /\ job \in Job /\ SoundJob(job) /\ ValidRecoveredJob(job) /\ NeverHanded(job)
        /\ job.lease = None /\ job.key = key
    BY <1>1, <2>1, NewJobSound, NewJobRecovers
  <2>3. SubmitCandidate(j, job)
    BY <1>2
  <2> HIDE DEF job
  <2>4. QED BY <2>1, <2>2, <2>3 DEF Candidate
<1>3. CASE SubmittedAgain(j, key, r, d) /\ SubmitCandidate(j, engine[j])
  <2>1. engine[j] \in Job /\ SoundJob(engine[j])
    BY <1>3 DEF SubmittedAgain, IInv, Pair, SoundEngine, Engine
  <2>2. QED BY <1>3, <2>1 DEF Candidate
<1>4. QED BY <1>2, <1>3 DEF Submit

(* The row a submission inserts has a key and an id of its own, and was    *)
(* never handed out.                                                       *)
LEMMA InsertedRow ==
  ASSUME IInv, JInv, NEW j \in JobIds, NEW job, Candidate(j, job),
         InsertRow(j, job) # db
  PROVE  /\ InsertRow(j, job) = [db EXCEPT ![j] = job]
         /\ InsertRow(j, job)[j] = job
         /\ \A i \in JobIds : i # j => InsertRow(j, job)[i] = db[i]
         /\ db[j] = NoJob /\ job # NoJob /\ NeverHanded(job)
         /\ \A i \in JobIds : db[i] # NoJob => db[i].key # job.key
<1>1. Pair(engine, db, conn) /\ db \in [JobIds -> Job \cup {NoJob}]
  BY DEF IInv, Pair, SoundEngine, Engine
<1>2. ~KeyTaken(db, job.key) /\ InsertRow(j, job) = [db EXCEPT ![j] = job]
  BY DEF InsertRow
<1>3. \A i \in JobIds : db[i] # NoJob => db[i].key # job.key
  BY <1>2 DEF KeyTaken, Present
<1>4. job # NoJob
  BY AbsentAssumption DEF Candidate
<1>5. db[j] = NoJob
  <2>1. CASE engine[j] = job
    <3>1. db[j] # NoJob => db[j].key = job.key
      BY <1>1, <1>4, <2>1 DEF Pair, Coupled, SameIdentity
    <3>2. QED BY <1>3, <3>1
  <2>2. QED BY <2>1 DEF Candidate
<1>6. NeverHanded(job)
  BY <1>4, <1>5 DEF Candidate, JInv, UnsavedOK
<1>7. QED BY <1>1, <1>2, <1>3, <1>4, <1>5, <1>6

(* No other job of the engine has the key of a candidate; with the         *)
(* connection open no other row has it.                                    *)
LEMMA CandidateKey ==
  ASSUME IInv, JInv, NEW j \in JobIds, NEW job, Candidate(j, job)
  PROVE  /\ \A i \in JobIds : engine[i] # NoJob /\ engine[i].key = job.key => i = j
         /\ conn = "open" =>
              \A i \in JobIds : db[i] # NoJob /\ db[i].key = job.key => i = j
         /\ conn = "open" /\ engine[j] = NoJob => ~KeyTaken(db, job.key)
<1>0. job # NoJob
  BY AbsentAssumption DEF Candidate
<1>1. \A i \in JobIds : engine[i] # NoJob /\ engine[i].key = job.key => i = j
  BY <1>0 DEF Candidate, KeyTaken, Present, JInv, KeysOK
<1>2. ASSUME conn = "open", NEW i \in JobIds, db[i] # NoJob, db[i].key = job.key
      PROVE  i = j /\ engine[i] # NoJob
  <2>1. engine[i] # NoJob
    BY <1>2 DEF JInv, KeysOK
  <2>2. engine[i].key = db[i].key
    BY <1>2, <2>1 DEF IInv, Pair, Coupled, SameIdentity
  <2>3. QED BY <1>1, <1>2, <2>1, <2>2
<1>3. ASSUME conn = "open", engine[j] = NoJob PROVE ~KeyTaken(db, job.key)
  BY <1>2, <1>3 DEF KeyTaken, Present
<1>4. QED BY <1>1, <1>2, <1>3

(* What SubmitCandidate does to the engine: nothing, or it stores the      *)
(* candidate or the row found under its key.  A row inserted over an open  *)
(* connection is known to the engine afterwards.                           *)
LEMMA SubmitOutcome ==
  ASSUME IInv, JInv, NEW j \in JobIds, NEW job, Candidate(j, job),
         SubmitCandidate(j, job)
  PROVE  /\ db' \in {db, InsertRow(j, job)} /\ manifest' = manifest
         /\ \/ engine' = engine
            \/ \E x : /\ engine' = [engine EXCEPT ![j] = x] /\ x # NoJob
                      /\ conn = "open" /\ x \in {job, db[j]}
         /\ conn' \in {conn, "closed"}
         /\ conn' = "open" /\ db' # db => engine'[j] # NoJob
<1>1. db' \in {db, InsertRow(j, job)} /\ manifest' = manifest
      /\ conn' \in {conn, "closed"}
  BY DEF SubmitCandidate
<1>2. job # NoJob /\ engine \in [JobIds -> Job \cup {NoJob}]
  BY AbsentAssumption DEF Candidate, IInv, Pair, SoundEngine, Engine
<1> DEFINE new == InsertRow(j, job)
           k == StoredUnder(j, job)
<1>3. CASE /\ conn = "open" /\ db' = new /\ conn' = conn
           /\ engine' = IF /\ new[k].request = job.request
                           /\ Replaceable(j, job, k, new[k])
                        THEN [engine EXCEPT ![j] = new[k]] ELSE engine
  <2>1. ASSUME engine' # engine
        PROVE  /\ k = j /\ engine' = [engine EXCEPT ![j] = new[j]]
               /\ new[j] # NoJob /\ new[j] \in {job, db[j]}
    <3>1. k = j /\ engine' = [engine EXCEPT ![j] = new[j]]
      BY <1>3, <2>1 DEF Replaceable
    <3>2. CASE new = db
      <4>1. CASE KeyTaken(db, job.key)
        <5>1. \E i \in Present(db) : db[i].key = job.key
          BY <4>1 DEF KeyTaken
        <5>2. k \in Present(db)
          BY <4>1, <5>1 DEF StoredUnder
        <5>3. QED BY <3>1, <3>2, <5>2 DEF Present
      <4>2. CASE ~KeyTaken(db, job.key)
        <5>1. db = [db EXCEPT ![j] = job]
          BY <3>2, <4>2 DEF InsertRow
        <5>2. db[j] = job
          BY <5>1 DEF IInv, Pair, SoundEngine, Engine
        <5>3. QED BY <1>2, <3>1, <3>2, <5>2
      <4>3. QED BY <4>1, <4>2
    <3>3. CASE new # db
      BY <1>2, <3>1, <3>3, InsertedRow
    <3>4. QED BY <3>1, <3>2, <3>3
  <2>2. ASSUME db' # db PROVE engine'[j] # NoJob
    <3>1. new[j] = job /\ db[j] = NoJob
      BY <1>3, <2>2, InsertedRow
    <3>2. CASE engine[j] = job
      <4>1. CASE engine' = engine
        BY <1>2, <3>2, <4>1
      <4>2. CASE engine' # engine
        BY <1>2, <2>1, <4>2
      <4>3. QED BY <4>1, <4>2
    <3>3. CASE engine[j] = NoJob /\ ValidRecoveredJob(job)
      <4>1. k = j
        BY <1>3, <3>3, CandidateKey DEF StoredUnder
      <4>2. job.revision \in Nat
        BY DEF Candidate, Job
      <4>3. new[k].request = job.request /\ Replaceable(j, job, k, new[k])
        BY <3>1, <3>3, <4>1, <4>2 DEF Replaceable
      <4>4. engine' = [engine EXCEPT ![j] = job]
        BY <1>3, <3>1, <4>1, <4>3
      <4>5. QED BY <1>2, <4>4
    <3>4. QED BY <3>2, <3>3 DEF Candidate
  <2> HIDE DEF new, k
  <2>3. \/ engine' = engine
        \/ \E x : /\ engine' = [engine EXCEPT ![j] = x] /\ x # NoJob
                  /\ x \in {job, db[j]}
    BY <2>1
  <2>4. QED BY <1>1, <1>3, <2>2, <2>3
<1>4. CASE /\ engine' = engine
           /\ conn' = "closed" \/ db' = db
  BY <1>1, <1>4
<1>5. CASE conn = "open" /\ engine' = [engine EXCEPT ![j] = job]
  BY <1>1, <1>2, <1>5
<1>6. QED BY <1>3, <1>4, <1>5 DEF SubmitCandidate

(* Submission, answered, rejected, in doubt or abandoned.                  *)
LEMMA SubmitRows ==
  ASSUME IInv, IInv', JInv, NEW j \in JobIds, NEW key \in Keys, NEW r \in Requests,
         NEW d \in Deadlines, NEW m \in 1..MaxAttempts,
         Submit(j, key, r, d, m)
  PROVE  JInv' /\ Evolves
<1>1. PICK job : Candidate(j, job) /\ SubmitCandidate(j, job)
  BY SubmitCandidates
<1>2. /\ db' \in {db, InsertRow(j, job)} /\ manifest' = manifest
      /\ \/ engine' = engine
         \/ \E x : /\ engine' = [engine EXCEPT ![j] = x] /\ x # NoJob
                   /\ conn = "open" /\ x \in {job, db[j]}
      /\ conn' \in {conn, "closed"}
      /\ conn' = "open" /\ db' # db => engine'[j] # NoJob
  BY <1>1, SubmitOutcome
<1>3. worker' = worker /\ files' = files
  BY DEF Submit, disk
<1>4. /\ Pair(engine, db, conn) /\ SoundEngine(engine) /\ SoundEngine(db)
      /\ SoundEngine(engine') /\ SoundEngine(db') /\ WorkersOK(worker, engine)
      /\ engine \in [JobIds -> Job \cup {NoJob}]
  BY DEF IInv, Pair, SoundEngine, Engine
<1>5. /\ job # NoJob /\ job \in Job
      /\ engine[j] = job \/ (engine[j] = NoJob /\ db[j] = NoJob /\ NeverHanded(job) /\ job.lease = None)
  BY <1>1, AbsentAssumption DEF Candidate
<1>6. db[j] # NoJob => engine[j] = job /\ SameIdentity(job, db[j])
  BY <1>4, <1>5 DEF Pair, Coupled
<1>7. /\ \A i \in JobIds : i # j => engine'[i] = engine[i]
      /\ engine' # engine => /\ engine'[j] # NoJob /\ engine'[j] \in {job, db[j]}
                             /\ conn = "open"
  BY <1>2, <1>4
<1>8. /\ \A i \in JobIds : i # j => db'[i] = db[i]
      /\ db' # db => /\ db'[j] = job /\ db[j] = NoJob /\ NeverHanded(job)
                     /\ \A i \in JobIds : db[i] # NoJob => db[i].key # job.key
  BY <1>1, <1>2, InsertedRow
<1>9. /\ \A i \in JobIds : engine[i] # NoJob /\ engine[i].key = job.key => i = j
      /\ conn = "open" => \A i \in JobIds : db[i] # NoJob /\ db[i].key = job.key => i = j
  BY <1>1, CandidateKey
<1>10. /\ engine'[j] # NoJob => engine'[j].key = job.key
       /\ db'[j] # NoJob => db'[j].key = job.key
       /\ engine[j] # NoJob => engine'[j] # NoJob
  BY <1>5, <1>6, <1>7, <1>8 DEF SameIdentity
<1>11. KeysOK(engine', db', conn')
  <2>1. ASSUME NEW i \in JobIds, NEW k \in JobIds, engine'[i] # NoJob,
               engine'[k] # NoJob, engine'[i].key = engine'[k].key
        PROVE  i = k
    BY <1>7, <1>9, <1>10, <2>1 DEF JInv, KeysOK
  <2>2. ASSUME NEW i \in JobIds, NEW k \in JobIds, db'[i] # NoJob,
               db'[k] # NoJob, db'[i].key = db'[k].key
        PROVE  i = k
    <3>1. CASE db' = db
      BY <2>2, <3>1 DEF JInv, KeysOK
    <3>2. CASE db' # db
      BY <1>8, <2>2, <3>2 DEF JInv, KeysOK
    <3>3. QED BY <3>1, <3>2
  <2>3. ASSUME NEW i \in JobIds, NEW k \in JobIds, engine'[i] # NoJob,
               db'[k] # NoJob, engine'[i].key = db'[k].key
        PROVE  i = k
    <3>1. CASE i = j /\ k = j
      BY <3>1
    <3>2. CASE k = j /\ i # j
      BY <1>7, <1>9, <1>10, <2>3, <3>2
    <3>3. CASE i = j /\ k # j
      <4>1. db[k] # NoJob /\ db[k].key = job.key
        BY <1>8, <1>10, <2>3, <3>3
      <4>2. CASE engine' = engine
        BY <2>3, <3>3, <4>1, <4>2, <1>10 DEF JInv, KeysOK
      <4>3. CASE engine' # engine
        BY <1>7, <1>9, <3>3, <4>1, <4>3
      <4>4. QED BY <4>2, <4>3
    <3>4. CASE i # j /\ k # j
      BY <1>7, <1>8, <2>3, <3>4 DEF JInv, KeysOK
    <3>5. QED BY <3>1, <3>2, <3>3, <3>4
  <2>4. ASSUME conn' = "open", NEW i \in JobIds, db'[i] # NoJob PROVE engine'[i] # NoJob
    <3>1. conn = "open"
      BY <1>2, <2>4
    <3>2. db[i] # NoJob => engine[i] # NoJob
      BY <3>1 DEF JInv, KeysOK
    <3>3. CASE i # j
      BY <1>7, <1>8, <2>4, <3>2, <3>3
    <3>4. CASE i = j
      BY <1>2, <1>10, <2>4, <3>2, <3>4
    <3>5. QED BY <3>3, <3>4
  <2>5. QED BY <2>1, <2>2, <2>3, <2>4 DEF KeysOK
<1>12. UnsavedOK(engine', db')
  <2>1. SUFFICES ASSUME NEW i \in JobIds, engine'[i] # NoJob, db'[i] = NoJob
                 PROVE  NeverHanded(engine'[i])
    BY DEF UnsavedOK
  <2>2. CASE i # j
    BY <1>7, <1>8, <2>1, <2>2 DEF JInv, UnsavedOK
  <2>3. CASE i = j
    <3>1. db[j] = NoJob
      BY <1>8, <2>1, <2>3
    <3>2. engine[j] # NoJob => NeverHanded(engine[j])
      BY <3>1 DEF JInv, UnsavedOK
    <3>3. NeverHanded(job)
      BY <1>5, <3>2
    <3>4. engine'[j] \in {engine[j], job}
      BY <1>7, <2>1, <2>3, <3>1
    <3>5. QED BY <2>1, <2>3, <3>2, <3>3, <3>4
  <2>4. QED BY <2>2, <2>3
<1>13. ASSUME NEW i \in JobIds
       PROVE  /\ engine'[i] \in {engine[i], db[i]} \/ (engine'[i] = job /\ job.lease = None)
              /\ db'[i] \in {engine[i], db[i]} \/ (db'[i] = job /\ job.lease = None)
  BY <1>5, <1>7, <1>8
<1>14. TokensOK(engine', worker') /\ TokensOK(db', worker')
  BY <1>3, <1>13 DEF JInv, TokensOK
<1>15. Retains(engine, engine')
  <2>1. ASSUME NEW i \in JobIds, engine[i] # NoJob PROVE SameIdentity(engine'[i], engine[i])
    <3>1. CASE engine'[i] = engine[i]
      BY <3>1 DEF SameIdentity
    <3>2. CASE engine'[i] # engine[i]
      <4>1. i = j /\ engine[j] = job /\ engine'[j] = db[j] /\ db[j] # NoJob
        BY <1>5, <1>7, <2>1, <3>2
      <4>2. QED BY <1>6, <4>1 DEF SameIdentity
    <3>3. QED BY <3>1, <3>2
  <2>2. QED BY <2>1 DEF Retains
<1>16. PromotionsFade(worker, worker') /\ FilesGrow(files, files')
  BY <1>3 DEF PromotionsFade, FilesGrow
<1>17. PromotedOK(worker', engine', files')
  BY <1>4, <1>15, <1>16, PromotedRetained DEF JInv
<1>18. SameDone(db, db')
  BY <1>8 DEF SameDone, Done, NeverHanded
<1>19. ManifestOK(db', manifest', files')
  BY <1>2, <1>16, <1>18, ManifestKept DEF JInv
<1>20. Evolves
  BY <1>5, <1>8 DEF Evolves, RowChange
<1>21. QED BY <1>11, <1>12, <1>14, <1>17, <1>19, <1>20 DEF JInv

(* The clock, a lost connection, a crash and a restart.                    *)
LEMMA ProcessRows ==
  ASSUME IInv, IInv', JInv, Tick \/ ConnectionLost \/ Crash \/ Restart
  PROVE  JInv' /\ Evolves
<1>1. db' = db /\ manifest' = manifest /\ files' = files
  BY DEF Tick, ConnectionLost, Crash, Restart, store, disk
<1>2. Evolves
  BY <1>1 DEF Evolves, RowChange
<1>3. FilesGrow(files, files') /\ ManifestOK(db', manifest', files')
  BY <1>1 DEF FilesGrow, JInv
<1>4. CASE worker' = worker /\ engine' = engine /\ conn' \in {conn, "closed"}
  <2>1. TokensFade(worker, worker') /\ PromotionsFade(worker, worker')
    BY <1>4 DEF TokensFade, PromotionsFade
  <2>2. QED BY <1>1, <1>3, <1>4, <2>1, IdleStep
<1>5. CASE Crash
  <2>1. \A j \in JobIds : engine'[j] = NoJob
    BY <1>5 DEF Crash, NoJobs
  <2>2. conn' = "closed"
    BY <1>5 DEF Crash
  <2>3. ASSUME NEW v \in Workers
        PROVE  worker'[v].token \in {worker[v].token, None} /\ worker'[v].pc # "promoted"
    <3>1. worker[v] \in WorkerState
      BY DEF IInv, WorkersOK
    <3>2. CASE worker[v].pc \in {"working", "orphan"}
      <4>1. worker'[v] = [worker[v] EXCEPT !.pc = "orphan"]
        BY <1>5, <3>2 DEF Crash
      <4>2. QED BY <3>1, <4>1 DEF WorkerState
    <3>3. CASE worker[v].pc \notin {"working", "orphan"}
      <4>1. worker'[v] = IdleWorker
        BY <1>5, <3>3 DEF Crash
      <4>2. QED BY <4>1 DEF IdleWorker
    <3>4. QED BY <3>2, <3>3
  <2>4. KeysOK(engine', db', conn')
    BY <1>1, <2>1, <2>2 DEF JInv, KeysOK
  <2>5. UnsavedOK(engine', db') /\ TokensOK(engine', worker')
    BY <2>1 DEF UnsavedOK, TokensOK
  <2>6. TokensOK(db', worker')
    <3>1. TokensFade(worker, worker') /\ LeasesFade(db, db) /\ SoundEngine(db)
      BY <2>3, ShiftsAllRefl, ShiftsKeep DEF TokensFade, IInv, Pair
    <3>2. QED BY <1>1, <3>1, TokensKept DEF JInv
  <2>7. PromotedOK(worker', engine', files')
    BY <2>3 DEF PromotedOK
  <2>8. QED BY <1>2, <1>3, <2>4, <2>5, <2>6, <2>7 DEF JInv
<1>6. CASE engine' = db /\ conn' = "open" /\ proc = "down" /\ worker' = worker
  <2>1. KeysOK(engine', db', conn')
    BY <1>1, <1>6 DEF JInv, KeysOK
  <2>2. UnsavedOK(engine', db') /\ TokensOK(engine', worker') /\ TokensOK(db', worker')
    BY <1>1, <1>6 DEF JInv, UnsavedOK
  <2>3. PromotedOK(worker', engine', files')
    BY <1>6 DEF IInv, Downtime, PromotedOK
  <2>4. QED BY <1>2, <1>3, <2>1, <2>2, <2>3 DEF JInv
<1>7. QED BY <1>4, <1>5, <1>6 DEF Tick, ConnectionLost, Restart, store

-----------------------------------------------------------------------------
(* The invariant and the theorems.                                         *)

(* It holds of the empty store.                                            *)
LEMMA InitJInv == Init => JInv
  BY DEF Init, JInv, KeysOK, UnsavedOK, TokensOK, PromotedOK, ManifestOK, Done,
     NoJobs, IdleWorker

(* Every step keeps it, and changes each row in one of the four ways.      *)
LEMMA NextJInv == IInv /\ JInv /\ [Next]_vars => JInv' /\ Evolves
<1> SUFFICES ASSUME IInv, JInv, [Next]_vars PROVE JInv' /\ Evolves
  OBVIOUS
<1>0. IInv'
  BY NextIInv
<1>1. CASE Tick \/ ConnectionLost \/ Crash \/ Restart
  BY <1>0, <1>1, ProcessRows
<1>2. CASE \E j \in JobIds, k \in Keys, r \in Requests, d \in Deadlines,
              m \in 1..MaxAttempts : Submit(j, k, r, d, m)
  BY <1>0, <1>2, SubmitRows
<1>3. CASE \E j \in JobIds : Cancel(j)
  BY <1>0, <1>3, CancelRows
<1>4. ASSUME NEW w \in Workers,
             \/ PollNoWork(w) \/ PollExpireFails(w) \/ PollRequeueFails(w)
             \/ \E j \in JobIds, t \in Tokens : PollClaimFails(w, j, t)
      PROVE  JInv' /\ Evolves
  BY <1>0, <1>4, PollFailsRows
<1>5. ASSUME NEW w \in Workers,
             \E j \in JobIds, t \in Tokens : PollClaim(w, j, t)
      PROVE  JInv' /\ Evolves
  BY <1>0, <1>5, PollClaimRows
<1>6. ASSUME NEW w \in Workers,
             \/ RequestPoll(w) \/ RequestStart(w) \/ RequestComplete(w)
             \/ RequestFail(w) \/ SessionTimeout(w) \/ WorkerExits(w)
             \/ AuthorizeResult(w)
      PROVE  JInv' /\ Evolves
  BY <1>0, <1>6, SessionRows
<1>7. ASSUME NEW w \in Workers,
             \/ Start(w) \/ VerifyStaging(w) \/ Promote(w)
             \/ SucceedWithArtifact(w) \/ \E b \in BOOLEAN : Fail(w, b)
             \/ \E c \in Contents : WriteResult(w, c)
      PROVE  JInv' /\ Evolves
  BY <1>0, <1>7, StartRows, VerifyRows, PromoteRows, SucceedRows, FailRows, WriteRows
<1>8. CASE UNCHANGED vars
  <2>1. /\ worker' = worker /\ engine' = engine /\ conn' = conn /\ db' = db
        /\ manifest' = manifest /\ files' = files
    BY <1>8 DEF vars
  <2>2. QED BY <2>1 DEF JInv, Evolves, RowChange
<1>9. QED BY <1>1, <1>2, <1>3, <1>4, <1>5, <1>6, <1>7, <1>8 DEF Next

(* The invariant holds for ever.                                           *)
LEMMA AlwaysJInv == Spec => [](IInv /\ JInv)
<1>1. QED BY InitIInv, NextIInv, InitJInv, NextJInv, PTL DEF Spec

(* Submission: one idempotency key names one job, in engine and table,     *)
(* across answers that were lost, abandoned requests and restarts.         *)
THEOREM KeysNameJobs == Spec => []KeyNamesOneJob
<1>1. JInv => KeyNamesOneJob
  BY DEF JInv, KeysOK, KeyNamesOneJob, Present
<1>2. QED BY <1>1, AlwaysJInv, PTL

(* Results: the rows, the manifest and the artifact files agree, because   *)
(* the manifest entry commits with the row and only after the promotion.   *)
THEOREM ManifestAgrees == Spec => []ManifestBacksSuccess
<1>1. JInv => ManifestBacksSuccess
  BY DEF JInv, ManifestOK, Done, ManifestBacksSuccess, Present
<1>2. QED BY <1>1, AlwaysJInv, PTL

(* A row becomes "succeeded" by the result of the lease holder only.       *)
LEMMA SuccessFromHolder ==
  ASSUME IInv, JInv, Evolves, NEW j \in JobIds,
         db'[j] # NoJob, db'[j].status = "succeeded", db'[j] # db[j]
  PROVE  \E w \in Workers :
           /\ worker[w].pc = "promoted" /\ worker[w].job = j
           /\ db[j].status = "running"
           /\ db[j].lease.token = worker[w].token
           /\ db[j].lease.owner = w
           /\ db'[j].result = worker[w].content
<1>1. RowChange(j)
  BY DEF Evolves
<1>2. ~(db[j] = NoJob /\ db'[j] \in Job /\ NeverHanded(db'[j]))
  BY DEF NeverHanded
<1>3. ~Shifts(db[j], db'[j])
  BY DEF Shifts, Active, Terminal
<1>4. ~\E w \in Workers, t \in Tokens : HandedBy(w, t, j)
  BY DEF HandedBy, Hands
<1>5. PICK w \in Workers :
          /\ db[j] # NoJob /\ db[j].lease # None
          /\ worker[w].pc = "promoted" /\ worker[w].job = j
          /\ db[j].lease.token = worker[w].token
          /\ Yields(db[j], db'[j], worker[w].content)
  BY <1>1, <1>2, <1>3, <1>4 DEF RowChange
<1>6. w = db[j].lease.owner
  BY <1>5 DEF JInv, TokensOK
<1>7. QED BY <1>5, <1>6 DEF Yields

(* Leases: no late or foreign result is stored, whatever was authorized    *)
(* before the lease moved on.                                              *)
THEOREM ResultsFromHolders == Spec => ResultFromLeaseHolder
<1>1. IInv /\ JInv /\ [Next]_vars =>
        [\A j \in JobIds :
           db'[j] # NoJob /\ db'[j].status = "succeeded" /\ db'[j] # db[j]
             => \E w \in Workers :
                  /\ worker[w].pc = "promoted" /\ worker[w].job = j
                  /\ db[j].status = "running"
                  /\ db[j].lease.token = worker[w].token
                  /\ db[j].lease.owner = w
                  /\ db'[j].result = worker[w].content]_vars
  BY NextJInv, SuccessFromHolder
<1>2. QED BY <1>1, AlwaysJInv, PTL DEF Spec, ResultFromLeaseHolder

-----------------------------------------------------------------------------
(* The lifecycle.                                                          *)

PhaseOf(status) ==
  CASE status \in Active -> "leased"
    [] status = "failed_terminal" -> "failed"
    [] status \in {"pending", "failed_retryable"} -> "waiting"
    [] OTHER -> status

(* The view of a present job, field by field.                              *)
LEMMA ViewFields ==
  ASSUME NEW job \in Job
  PROVE  /\ JobView(job) = [phase |-> PhaseOf(job.status), key |-> job.key,
                            budget |-> job.max, used |-> job.attempt,
                            result |-> job.result]
         /\ PhaseOf(job.status) \in {"leased", "failed", "waiting", "succeeded", "canceled"}
         /\ JobView(job) \in Lifecycle!View
         /\ JobView(job) # Lifecycle!Absent
<1>1. job # NoJob
  BY AbsentAssumption
<1>2. JobView(job) = [phase |-> PhaseOf(job.status), key |-> job.key,
                      budget |-> job.max, used |-> job.attempt, result |-> job.result]
  BY <1>1 DEF JobView, PhaseOf
<1>3. job.status \in {"pending", "failed_retryable", "claimed", "running",
                      "succeeded", "failed_terminal", "canceled"}
  BY DEF Job, Status, Active, Terminal
<1>4. PhaseOf(job.status) \in {"leased", "failed", "waiting", "succeeded", "canceled"}
  BY <1>3 DEF PhaseOf, Active
<1>5. /\ job.key \in Keys /\ job.max \in 1..MaxAttempts /\ job.attempt \in Nat
      /\ job.result \in Contents \cup {None}
  BY DEF Job
<1>6. JobView(job) \in Lifecycle!View
  BY <1>2, <1>4, <1>5 DEF Lifecycle!View, Lifecycle!Phase
<1>7. JobView(job) # Lifecycle!Absent
  BY <1>2, <1>4 DEF Lifecycle!Absent
<1>8. QED BY <1>2, <1>4, <1>6, <1>7

(* A shift is a release, an end, a withdrawal or invisible.                *)
LEMMA ShiftsView ==
  ASSUME NEW a \in Job, NEW b \in Job, Shifts(a, b)
  PROVE  JobView(b) = JobView(a) \/ Lifecycle!Step(JobView(a), JobView(b))
<1> DEFINE p == PhaseOf(a.status)
           q == PhaseOf(b.status)
           View(x) == [phase |-> x, key |-> a.key, budget |-> a.max,
                       used |-> a.attempt, result |-> a.result]
<1>1. JobView(a) = View(p) /\ JobView(b) = View(q)
  BY ViewFields DEF Shifts, SameIdentity
<1>2. ASSUME NEW x, NEW y PROVE [View(x) EXCEPT !.phase = y] = View(y)
  OBVIOUS
<1>3. \/ q = p
      \/ p = "leased" /\ q = "failed"
      \/ p = "leased" /\ a.attempt < a.max /\ q = "waiting"
      \/ p \in {"waiting", "leased"} /\ q = "canceled"
  <2>1. a.status \in {"pending", "failed_retryable", "claimed", "running",
                      "succeeded", "failed_terminal", "canceled"}
    BY DEF Job, Status, Active, Terminal
  <2>2. QED BY <2>1 DEF Shifts, PhaseOf, Active, Terminal
<1>4. View(p).phase = p /\ View(p).used = a.attempt /\ View(p).budget = a.max
  OBVIOUS
<1> HIDE DEF p, q, View
<1>5. CASE p = "leased" /\ q = "failed"
  BY <1>1, <1>2, <1>4, <1>5 DEF Lifecycle!Step, Lifecycle!GiveUp
<1>6. CASE p = "leased" /\ a.attempt < a.max /\ q = "waiting"
  BY <1>1, <1>2, <1>4, <1>6 DEF Lifecycle!Step, Lifecycle!Release
<1>7. CASE p \in {"waiting", "leased"} /\ q = "canceled"
  BY <1>1, <1>2, <1>4, <1>7 DEF Lifecycle!Step, Lifecycle!Withdraw
<1>8. QED BY <1>1, <1>3, <1>5, <1>6, <1>7

(* A claim is a dispatch.                                                  *)
LEMMA HandsView ==
  ASSUME NEW a \in Job, NEW b \in Job, NEW w, NEW t, NEW now, Hands(a, b, w, t, now)
  PROVE  Lifecycle!Step(JobView(a), JobView(b))
<1>1. PhaseOf(a.status) \in {"waiting", "leased"} /\ PhaseOf(b.status) = "leased"
  BY DEF Hands, PhaseOf, Active
<1>2. JobView(a) = [phase |-> PhaseOf(a.status), key |-> a.key, budget |-> a.max,
                    used |-> a.attempt, result |-> a.result]
  BY ViewFields
<1>3. JobView(b) = [phase |-> "leased", key |-> a.key, budget |-> a.max,
                    used |-> a.attempt + 1, result |-> a.result]
  BY <1>1, ViewFields DEF Hands, SameIdentity
<1>4. a.attempt < a.max
  BY DEF Hands
<1> DEFINE p == PhaseOf(a.status)
           View(x, n) == [phase |-> x, key |-> a.key, budget |-> a.max,
                          used |-> n, result |-> a.result]
<1>5. JobView(a) = View(p, a.attempt) /\ JobView(b) = View("leased", a.attempt + 1)
  BY <1>2, <1>3
<1>6. /\ View(p, a.attempt).phase = p /\ View(p, a.attempt).used = a.attempt
      /\ View(p, a.attempt).budget = a.max
  OBVIOUS
<1>7. [View(p, a.attempt) EXCEPT !.phase = "leased", !.used = @ + 1]
        = View("leased", a.attempt + 1)
  <2>1. [View(p, a.attempt) EXCEPT !.phase = "leased", !.used = @ + 1]
          = [[View(p, a.attempt) EXCEPT !.phase = "leased"] EXCEPT !.used = a.attempt + 1]
    OBVIOUS
  <2>2. [View(p, a.attempt) EXCEPT !.phase = "leased"] = View("leased", a.attempt)
    OBVIOUS
  <2>3. [View("leased", a.attempt) EXCEPT !.used = a.attempt + 1]
          = View("leased", a.attempt + 1)
    OBVIOUS
  <2>4. QED BY <2>1, <2>2, <2>3
<1>8. p \in {"waiting", "leased"}
  BY <1>1
<1> HIDE DEF p, View
<1>9. Lifecycle!Dispatch(JobView(a), JobView(b))
  BY <1>4, <1>5, <1>6, <1>7, <1>8 DEF Lifecycle!Dispatch
<1>10. QED BY <1>9 DEF Lifecycle!Step

(* A result is a finish.                                                   *)
LEMMA YieldsView ==
  ASSUME NEW a \in Job, NEW b \in Job, NEW c \in Contents, Yields(a, b, c)
  PROVE  Lifecycle!Step(JobView(a), JobView(b))
<1>1. PhaseOf(a.status) = "leased" /\ PhaseOf(b.status) = "succeeded"
  BY DEF Yields, PhaseOf, Active
<1>2. JobView(a) = [phase |-> "leased", key |-> a.key, budget |-> a.max,
                    used |-> a.attempt, result |-> a.result]
  BY <1>1, ViewFields
<1>3. JobView(b) = [phase |-> "succeeded", key |-> a.key, budget |-> a.max,
                    used |-> a.attempt, result |-> c]
  BY <1>1, ViewFields DEF Yields, SameIdentity
<1> DEFINE View(x, r) == [phase |-> x, key |-> a.key, budget |-> a.max,
                          used |-> a.attempt, result |-> r]
<1>4. JobView(a) = View("leased", a.result) /\ JobView(b) = View("succeeded", c)
  BY <1>2, <1>3
<1>5. View("leased", a.result).phase = "leased"
  OBVIOUS
<1>6. [View("leased", a.result) EXCEPT !.phase = "succeeded", !.result = c]
        = View("succeeded", c)
  <2>1. [View("leased", a.result) EXCEPT !.phase = "succeeded", !.result = c]
          = [[View("leased", a.result) EXCEPT !.phase = "succeeded"] EXCEPT !.result = c]
    OBVIOUS
  <2>2. [View("leased", a.result) EXCEPT !.phase = "succeeded"] = View("succeeded", a.result)
    OBVIOUS
  <2>3. [View("succeeded", a.result) EXCEPT !.result = c] = View("succeeded", c)
    OBVIOUS
  <2>4. QED BY <2>1, <2>2, <2>3
<1> HIDE DEF View
<1>7. Lifecycle!Finish(JobView(a), JobView(b))
  BY <1>4, <1>5, <1>6 DEF Lifecycle!Finish
<1>8. QED BY <1>7 DEF Lifecycle!Step

(* An insert is an acceptance.                                             *)
LEMMA InsertView ==
  ASSUME NEW b \in Job, NeverHanded(b)
  PROVE  Lifecycle!Step(JobView(NoJob), JobView(b))
<1>1. PhaseOf(b.status) \in {"waiting", "canceled"}
  BY DEF NeverHanded, PhaseOf, Active
<1>2. JobView(b) = [phase |-> PhaseOf(b.status), key |-> b.key, budget |-> b.max,
                    used |-> 0, result |-> None]
  BY ViewFields DEF NeverHanded
<1>3. b.key \in Keys /\ b.max \in 1..MaxAttempts
  BY DEF Job
<1>4. JobView(NoJob) = Lifecycle!Absent
  BY DEF JobView, Lifecycle!Absent
<1>5. Lifecycle!Accept(JobView(NoJob), JobView(b))
  BY <1>1, <1>2, <1>3, <1>4 DEF Lifecycle!Accept
<1>6. QED BY <1>5 DEF Lifecycle!Step
(* A changed row is a step of the lifecycle.                               *)
LEMMA RowView ==
  ASSUME IInv, IInv', NEW j \in JobIds, RowChange(j)
  PROVE  \/ JobView(db'[j]) = JobView(db[j])
         \/ Lifecycle!Step(JobView(db[j]), JobView(db'[j]))
<1>1. /\ db[j] \in Job \cup {NoJob} /\ db'[j] \in Job \cup {NoJob}
  BY DEF IInv, Pair, SoundEngine, Engine
<1>2. CASE db'[j] = db[j]
  BY <1>2
<1>3. CASE db[j] = NoJob /\ db'[j] \in Job /\ NeverHanded(db'[j])
  BY <1>3, InsertView
<1>4. CASE db[j] # NoJob /\ db'[j] # NoJob /\ Shifts(db[j], db'[j])
  BY <1>1, <1>4, ShiftsView
<1>5. ASSUME NEW w \in Workers, NEW t \in Tokens, NEW n, db[j] # NoJob, db'[j] # NoJob,
             Hands(db[j], db'[j], w, t, n)
      PROVE  Lifecycle!Step(JobView(db[j]), JobView(db'[j]))
  BY <1>1, <1>5, HandsView
<1>6. ASSUME NEW c \in Contents, db[j] # NoJob, db'[j] # NoJob,
             Yields(db[j], db'[j], c)
      PROVE  Lifecycle!Step(JobView(db[j]), JobView(db'[j]))
  BY <1>1, <1>6, YieldsView
<1>7. QED BY <1>1, <1>2, <1>3, <1>4, <1>5, <1>6 DEF RowChange, HandedBy

(* The stored rows implement the lifecycle that a client relies on: no     *)
(* rollback, half-applied statement, crash or late worker ever shows a     *)
(* transition that JobLifecycle does not have.                             *)
THEOREM JobsFollowLifecycle == Spec => ImplementsLifecycle
<1> DEFINE rows == [j \in JobIds |-> JobView(db[j])]
<1>1. Init => Lifecycle!Init
  BY DEF Init, NoJobs, JobView, Lifecycle!Init, Lifecycle!Absent
<1>2. ASSUME IInv, IInv', JInv', Evolves PROVE Lifecycle!Next
  <2>1. rows' \in [JobIds -> Lifecycle!View \cup {Lifecycle!Absent}]
    <3>1. ASSUME NEW j \in JobIds
          PROVE  JobView(db'[j]) \in Lifecycle!View \cup {Lifecycle!Absent}
      <4>1. db'[j] \in Job \cup {NoJob}
        BY <1>2 DEF IInv, Pair, SoundEngine, Engine
      <4>2. CASE db'[j] \in Job
        BY <4>2, ViewFields
      <4>3. CASE db'[j] = NoJob
        BY <4>3 DEF JobView, Lifecycle!Absent
      <4>4. QED BY <4>1, <4>2, <4>3
    <3>2. QED BY <3>1
  <2>2. \A j \in JobIds : rows'[j] = rows[j] \/ Lifecycle!Step(rows[j], rows'[j])
    BY <1>2, RowView DEF Evolves
  <2>3. Lifecycle!UniqueKeys(rows')
    <3>1. SUFFICES ASSUME NEW i \in JobIds, NEW j \in JobIds,
                          JobView(db'[i]) # Lifecycle!Absent,
                          JobView(db'[j]) # Lifecycle!Absent,
                          JobView(db'[i]).key = JobView(db'[j]).key
                   PROVE  i = j
      BY DEF Lifecycle!UniqueKeys
    <3>2. db'[i] \in Job \cup {NoJob} /\ db'[j] \in Job \cup {NoJob}
      BY <1>2 DEF IInv, Pair, SoundEngine, Engine
    <3>3. db'[i] # NoJob /\ db'[j] # NoJob
      BY <3>1 DEF JobView, Lifecycle!Absent
    <3>4. db'[i].key = db'[j].key
      BY <3>1, <3>2, <3>3, ViewFields
    <3>5. QED BY <1>2, <3>3, <3>4 DEF JInv, KeysOK
  <2>4. QED BY <2>1, <2>2, <2>3 DEF Lifecycle!Next
<1>3. IInv /\ JInv /\ [Next]_vars => [Lifecycle!Next]_rows
  <2>1. ASSUME IInv, JInv, [Next]_vars PROVE Lifecycle!Next
    BY <1>2, <2>1, NextIInv, NextJInv
  <2>2. QED BY <2>1
<1>4. QED BY <1>1, <1>3, AlwaysJInv, PTL DEF Spec, ImplementsLifecycle, Lifecycle!Spec

-----------------------------------------------------------------------------
(* Engine and table side by side.                                          *)

(* With the connection open, engine and table hold the same version of a   *)
(* job, but for what an abandoned request leaves behind: a job without its *)
(* row, or a cancellation that did not reach the row.                      *)
Agrees(a, b) ==
  \/ a = b
  \/ /\ Disconnects /\ a # NoJob
     /\ b # NoJob => a.status = "canceled" /\ a.claimed = b.claimed

AllAgree(e, rows) == \A j \in JobIds : Agrees(e[j], rows[j])

SyncOK(e, rows, c) == c = "open" => AllAgree(e, rows)

(* A committed compare-and-swap writes what the engine holds.              *)
LEMMA CasAgrees ==
  ASSUME NEW before, NEW after, NEW rows, AllAgree(before, rows)
  PROVE  AllAgree(after, CasRows(rows, before, after))
<1>1. SUFFICES ASSUME NEW j \in JobIds
               PROVE  Agrees(after[j], CasRows(rows, before, after)[j])
  BY DEF AllAgree
<1>2. CASE after[j] # before[j]
  BY <1>2 DEF CasRows, Agrees
<1>3. CASE after[j] = before[j]
  BY <1>3 DEF CasRows, AllAgree
<1>4. QED BY <1>2, <1>3

(* A failed statement leaves both alone or closes the connection.          *)
LEMMA FailsAgrees ==
  ASSUME NEW before, NEW after, NEW rows, PersistFails(rows, before, after),
         conn = "open" => AllAgree(before, rows)
  PROVE  SyncOK(engine', db', conn')
  BY DEF PersistFails, SyncOK

(* persist_single_or_rollback.                                             *)
LEMMA SaveAgrees ==
  ASSUME SyncOK(engine, db, conn), NEW j, NEW job, NEW ok, Save(j, job, ok)
  PROVE  SyncOK(engine', db', conn')
<1> DEFINE after == [engine EXCEPT ![j] = job]
<1>1. \/ /\ engine' = after /\ db' = CasRows(db, engine, after) /\ conn' = conn
      \/ PersistFails(db, engine, after)
  BY DEF Save
<1> HIDE DEF after
<1>2. QED BY <1>1, CasAgrees, FailsAgrees DEF SyncOK

(* The engine and the table that a poll reaches.                           *)
LEMMA ReconciledAgrees ==
  ASSUME NEW w \in Workers, SyncOK(engine, db, conn)
  PROVE  /\ SyncOK(Reconciled(w), RowsReconciled(w), conn)
         /\ SyncOK(Requeued(w), RowsRequeued(w), conn)
  BY CasAgrees DEF SyncOK, RowsReconciled, RowsRequeued

(* Polls.                                                                  *)
LEMMA PollAgrees ==
  ASSUME SyncOK(engine, db, conn), NEW w \in Workers,
         \/ PollNoWork(w) \/ PollExpireFails(w) \/ PollRequeueFails(w)
         \/ \E j \in JobIds, t \in Tokens : PollClaimFails(w, j, t) \/ PollClaim(w, j, t)
  PROVE  SyncOK(engine', db', conn')
<1>1. /\ SyncOK(Reconciled(w), RowsReconciled(w), conn)
      /\ SyncOK(Requeued(w), RowsRequeued(w), conn)
  BY ReconciledAgrees
<1>2. CASE PollNoWork(w)
  BY <1>1, <1>2 DEF PollNoWork
<1>3. CASE PollExpireFails(w)
  <2>1. PersistFails(db, engine, Reconciled(w))
    BY <1>3 DEF PollExpireFails, Reconciled
  <2>2. QED BY <2>1, FailsAgrees DEF SyncOK
<1>4. CASE PollRequeueFails(w)
  <2>1. PersistFails(RowsReconciled(w), Reconciled(w), Requeued(w))
    BY <1>4 DEF PollRequeueFails
  <2>2. QED BY <1>1, <2>1, FailsAgrees DEF SyncOK
<1>5. ASSUME NEW j \in JobIds, NEW t \in Tokens, PollClaimFails(w, j, t)
      PROVE  SyncOK(engine', db', conn')
  <2>1. PersistFails(RowsRequeued(w), Requeued(w), ClaimedEngine(w, j, t))
    BY <1>5 DEF PollClaimFails
  <2>2. QED BY <1>1, <2>1, FailsAgrees DEF SyncOK
<1>6. ASSUME NEW j \in JobIds, NEW t \in Tokens, PollClaim(w, j, t)
      PROVE  SyncOK(engine', db', conn')
  <2>1. /\ engine' = ClaimedEngine(w, j, t) /\ conn' = conn
        /\ db' = CasRows(RowsRequeued(w), Requeued(w), ClaimedEngine(w, j, t))
    BY <1>6 DEF PollClaim
  <2>2. QED BY <1>1, <2>1, CasAgrees DEF SyncOK
<1>7. QED BY <1>2, <1>3, <1>4, <1>5, <1>6

(* cancel, also when its request is abandoned.                             *)
LEMMA CancelAgrees ==
  ASSUME IInv, SyncOK(engine, db, conn), NEW j \in JobIds, Cancel(j)
  PROVE  SyncOK(engine', db', conn')
<1> DEFINE after == [engine EXCEPT ![j] = CancelJob(engine[j])]
<1>1. CASE \E ok \in BOOLEAN : Save(j, CancelJob(engine[j]), ok)
  BY <1>1, SaveAgrees
<1>2. CASE /\ Disconnects /\ conn = "open" /\ engine' = after /\ conn' = conn
           /\ \/ db' = db
              \/ db' = CasRows(db, engine, after)
  <2>1. CASE db' = CasRows(db, engine, after)
    <3> HIDE DEF after
    <3>1. QED BY <1>2, <2>1, CasAgrees DEF SyncOK
  <2>2. CASE db' = db
    <3>1. engine[j] \in Job /\ engine \in [JobIds -> Job \cup {NoJob}]
      BY DEF Cancel, IInv, Pair, SoundEngine, Engine
    <3>2. /\ CancelJob(engine[j]) \in Job /\ CancelJob(engine[j]).status = "canceled"
          /\ CancelJob(engine[j]).claimed = engine[j].claimed
      BY <3>1, CancelSound, CancelShifts DEF Cancel, Shifts, IInv, Pair, SoundEngine
    <3>3. CancelJob(engine[j]) # NoJob /\ engine[j] # NoJob
      BY <3>1, <3>2, AbsentAssumption
    <3>4. db[j] # NoJob => engine[j].claimed = db[j].claimed
      BY <1>2, <3>3 DEF SyncOK, AllAgree, Agrees
    <3>5. Agrees(engine'[j], db[j])
      BY <1>2, <3>1, <3>2, <3>3, <3>4 DEF Agrees
    <3>6. \A i \in JobIds : i # j => engine'[i] = engine[i]
      BY <1>2, <3>1
    <3>7. QED BY <1>2, <2>2, <3>5, <3>6 DEF SyncOK, AllAgree
  <2>3. QED BY <1>2, <2>1, <2>2
<1>3. QED BY <1>1, <1>2 DEF Cancel

(* submit: the row that is stored is the job the engine keeps.             *)
LEMMA SubmitAgrees ==
  ASSUME IInv, JInv, SyncOK(engine, db, conn), NEW j \in JobIds, NEW job,
         Candidate(j, job), SubmitCandidate(j, job)
  PROVE  SyncOK(engine', db', conn')
<1> DEFINE new == InsertRow(j, job)
           k == StoredUnder(j, job)
<1>1. /\ job # NoJob /\ engine \in [JobIds -> Job \cup {NoJob}]
      /\ db \in [JobIds -> Job \cup {NoJob}]
  BY AbsentAssumption DEF Candidate, IInv, Pair, SoundEngine, Engine
<1>2. /\ \A i \in JobIds : i # j => new[i] = db[i]
      /\ new # db => new[j] = job /\ db[j] = NoJob
  BY InsertedRow
<1>3. db[j] # NoJob => engine[j] = job
  BY DEF Candidate
<1>4. CASE conn' = "closed" \/ (engine' = engine /\ db' = db /\ conn' = conn)
  BY <1>4 DEF SyncOK
<1>5. CASE /\ conn = "open" /\ db' = new /\ conn' = conn
           /\ engine' = IF /\ new[k].request = job.request
                           /\ Replaceable(j, job, k, new[k])
                        THEN [engine EXCEPT ![j] = new[k]] ELSE engine
  <2>1. CASE engine' # engine
    <3>1. k = j /\ engine' = [engine EXCEPT ![j] = new[j]]
      BY <1>5, <2>1 DEF Replaceable
    <3> HIDE DEF new, k
    <3>2. engine'[j] = db'[j] /\ \A i \in JobIds : i # j => engine'[i] = engine[i]
      BY <1>1, <1>5, <3>1
    <3>3. QED BY <1>2, <1>5, <3>2 DEF SyncOK, AllAgree, Agrees
  <2>2. CASE engine' = engine /\ new = db
    BY <1>5, <2>2 DEF SyncOK
  <2>3. CASE engine' = engine /\ new # db
    <3>1. engine[j] = job
      <4>1. CASE engine[j] = NoJob /\ ValidRecoveredJob(job)
        <5>1. k = j
          BY <1>5, <4>1, CandidateKey DEF StoredUnder
        <5>2. job.revision \in Nat
          BY DEF Candidate, Job
        <5>3. new[k].request = job.request /\ Replaceable(j, job, k, new[k])
          BY <1>2, <2>3, <4>1, <5>1, <5>2 DEF Replaceable
        <5>4. engine' = [engine EXCEPT ![j] = job]
          BY <1>2, <1>5, <2>3, <5>1, <5>3
        <5>5. QED BY <1>1, <2>3, <4>1, <5>4
      <4>2. QED BY <4>1 DEF Candidate
    <3> HIDE DEF new, k
    <3>2. QED BY <1>2, <1>5, <2>3, <3>1 DEF SyncOK, AllAgree, Agrees
  <2>4. QED BY <2>1, <2>2, <2>3
<1>6. CASE /\ Disconnects /\ conn = "open" /\ conn' = conn
           /\ engine' = [engine EXCEPT ![j] = job] /\ db' \in {db, new}
  <2> HIDE DEF new, k
  <2>1. engine'[j] = job /\ \A i \in JobIds : i # j => engine'[i] = engine[i]
    BY <1>1, <1>6
  <2>2. \A i \in JobIds : i # j => db'[i] = db[i]
    BY <1>2, <1>6
  <2>3. Agrees(engine'[j], db'[j])
    <3>1. CASE db'[j] = job
      BY <2>1, <3>1 DEF Agrees
    <3>2. CASE db' = db /\ db[j] = NoJob
      BY <1>1, <1>6, <2>1, <3>2 DEF Agrees
    <3>3. CASE db' = db /\ db[j] # NoJob
      BY <1>3, <1>6, <2>1, <3>3 DEF SyncOK, AllAgree
    <3>4. QED BY <1>2, <1>6, <3>1, <3>2, <3>3
  <2>4. QED BY <1>6, <2>1, <2>2, <2>3 DEF SyncOK, AllAgree
<1>7. QED BY <1>4, <1>5, <1>6 DEF SubmitCandidate

(* Every step keeps engine and table in agreement.                         *)
LEMMA NextSync ==
  IInv /\ JInv /\ SyncOK(engine, db, conn) /\ [Next]_vars => SyncOK(engine', db', conn')
<1> SUFFICES ASSUME IInv, JInv, SyncOK(engine, db, conn), [Next]_vars
             PROVE  SyncOK(engine', db', conn')
  OBVIOUS
<1>1. CASE UNCHANGED <<engine, db, conn>>
  BY <1>1
<1>2. CASE Tick \/ ConnectionLost \/ Crash \/ Restart
  <2>1. \/ engine' = engine /\ db' = db /\ conn' = conn
        \/ conn' = "closed"
        \/ engine' = db /\ db' = db
    BY <1>2 DEF Tick, ConnectionLost, Crash, Restart, store
  <2>2. QED BY <2>1 DEF SyncOK, AllAgree, Agrees
<1>3. ASSUME NEW j \in JobIds, NEW k \in Keys, NEW r \in Requests, NEW d \in Deadlines,
             NEW m \in 1..MaxAttempts, Submit(j, k, r, d, m)
      PROVE  SyncOK(engine', db', conn')
  BY <1>3, SubmitCandidates, SubmitAgrees
<1>4. ASSUME NEW j \in JobIds, Cancel(j) PROVE SyncOK(engine', db', conn')
  BY <1>4, CancelAgrees
<1>5. ASSUME NEW w \in Workers,
             \/ PollNoWork(w) \/ PollExpireFails(w) \/ PollRequeueFails(w)
             \/ \E j \in JobIds, t \in Tokens : PollClaimFails(w, j, t) \/ PollClaim(w, j, t)
      PROVE  SyncOK(engine', db', conn')
  BY <1>5, PollAgrees
<1>6. ASSUME NEW w \in Workers,
             \/ RequestPoll(w) \/ RequestStart(w) \/ RequestComplete(w)
             \/ RequestFail(w) \/ SessionTimeout(w) \/ WorkerExits(w)
             \/ AuthorizeResult(w) \/ VerifyStaging(w) \/ Promote(w)
             \/ \E c \in Contents : WriteResult(w, c)
      PROVE  UNCHANGED <<engine, db, conn>>
  BY <1>6 DEF RequestPoll, RequestStart, RequestComplete, RequestFail, SessionTimeout,
     WorkerExits, AuthorizeResult, VerifyStaging, Promote, WriteResult, Reject, store
<1>7. ASSUME NEW w \in Workers, Start(w) PROVE SyncOK(engine', db', conn')
  BY <1>1, <1>7, SaveAgrees DEF Start, Reject, store
<1>8. ASSUME NEW w \in Workers, NEW b \in BOOLEAN, Fail(w, b)
      PROVE  SyncOK(engine', db', conn')
  BY <1>1, <1>8, SaveAgrees DEF Fail, Reject, store
<1>9. ASSUME NEW w \in Workers, SucceedWithArtifact(w)
      PROVE  SyncOK(engine', db', conn')
  <2> DEFINE after == [engine EXCEPT ![worker[w].job] = Succeed(@, worker[w].content)]
  <2>1. \/ engine' = engine /\ db' = db /\ conn' = conn
        \/ engine' = after /\ db' = CasRows(db, engine, after) /\ conn' = conn
        \/ conn' = "closed"
    BY <1>9 DEF SucceedWithArtifact, Reject, store
  <2> HIDE DEF after
  <2>2. QED BY <2>1, CasAgrees DEF SyncOK
<1>10. CASE UNCHANGED vars
  BY <1>1, <1>10 DEF vars
<1>11. QED BY <1>1, <1>2, <1>3, <1>4, <1>5, <1>6, <1>7, <1>8, <1>9, <1>10 DEF Next

(* Agreement holds for ever.                                               *)
LEMMA AlwaysSync == Spec => [](IInv /\ JInv /\ SyncOK(engine, db, conn))
<1>1. Init => SyncOK(engine, db, conn)
  BY DEF Init, SyncOK, AllAgree, Agrees
<1>2. IInv /\ JInv /\ SyncOK(engine, db, conn) /\ [Next]_vars
        => (SyncOK(engine, db, conn))'
  BY NextSync
<1>3. QED BY <1>1, <1>2, AlwaysJInv, PTL DEF Spec

-----------------------------------------------------------------------------
(* Dispatch policies.                                                      *)

(* With an open connection the engine knows the claim time of every row.   *)
LEMMA ClaimsAgree ==
  ASSUME IInv, JInv, SyncOK(engine, db, conn), conn = "open", NEW i \in JobIds,
         db[i] # NoJob
  PROVE  /\ engine[i] # NoJob /\ engine[i].claimed = db[i].claimed
         /\ Type(engine[i]) = Type(db[i])
<1>1. engine[i] # NoJob
  BY DEF JInv, KeysOK
<1>2. engine[i].claimed = db[i].claimed
  BY DEF SyncOK, AllAgree, Agrees
<1>3. Type(engine[i]) = Type(db[i])
  BY <1>1 DEF IInv, Pair, Coupled, SameIdentity, Type
<1>4. QED BY <1>1, <1>2, <1>3

(* A new claim time is written by a poll that hands out the job, which     *)
(* compared its time with every earlier claim of the type.                 *)
LEMMA SpacingStep ==
  ASSUME DOMAIN Policies # {}, IInv, JInv, SyncOK(engine, db, conn), Evolves,
         NEW i \in JobIds, NEW j \in JobIds, db[i] # NoJob, db[j] # NoJob,
         db'[j].claimed # db[j].claimed, db[i].claimed # None,
         Type(db[i]) = Type(db[j])
  PROVE  db'[j].claimed - db[i].claimed >= Policies[Type(db[j])].minimum_interval
<1>1. PICK w \in Workers, t \in Tokens : HandedBy(w, t, j)
  <2>1. RowChange(j)
    BY DEF Evolves
  <2>2. ~Shifts(db[j], db'[j]) /\ \A c : ~Yields(db[j], db'[j], c)
    BY DEF Shifts, Yields
  <2>3. QED BY <2>1, <2>2 DEF RowChange
<1> DEFINE e == Requeued(w)
           now == worker[w].at
<1>2. /\ conn = "open" /\ ReachesClaim(w) /\ Claimable(e, j, Capabilities[w], now)
      /\ Hands(db[j], db'[j], w, t, now)
  BY <1>1 DEF HandedBy
<1>3. ShiftsAll(engine, e) /\ SoundEngine(e)
  BY <1>2, RequeuedShifts, ReconciledSound
<1> HIDE DEF e
<1>4. ASSUME NEW k \in JobIds, db[k] # NoJob
      PROVE  /\ e[k] # NoJob /\ e[k].claimed = db[k].claimed
             /\ Type(e[k]) = Type(db[k])
  <2>1. /\ engine[k] # NoJob /\ engine[k].claimed = db[k].claimed
        /\ Type(engine[k]) = Type(db[k])
    BY <1>2, <1>4, ClaimsAgree
  <2>2. e[k] # NoJob /\ Shifts(engine[k], e[k])
    BY <1>3, <2>1 DEF ShiftsAll
  <2>3. QED BY <2>1, <2>2 DEF Shifts, SameIdentity, Type
<1>5. WithinPolicy(e, Type(e[j]), now)
  BY <1>2 DEF Claimable
<1>6. e[i] \in Job /\ e[i].claimed # None /\ e[i].attempt > 0
  <2>1. e[i] \in Job /\ SoundJob(e[i]) /\ e[i].claimed # None
    BY <1>3, <1>4, FieldTypes DEF SoundEngine
  <2>2. e[i].attempt # 0 /\ e[i].attempt \in Nat
    BY <2>1 DEF SoundJob, AccountingValid, Job
  <2>3. QED BY <2>1, <2>2
<1>7. DispatchTime(e[i]) = e[i].claimed
  BY <1>6 DEF DispatchTime
<1>8. now - e[i].claimed >= Policies[Type(e[j])].minimum_interval
  BY <1>4, <1>5, <1>6, <1>7 DEF WithinPolicy, Present
<1>9. QED BY <1>2, <1>4, <1>8 DEF Hands

(* Where policies are configured, consecutive claims of a type keep the    *)
(* policy's minimum interval, whatever requests are abandoned and whenever *)
(* the daemon restarts.                                                    *)
THEOREM ClaimsAreSpaced ==
  ASSUME DOMAIN Policies # {} PROVE Spec => DispatchSpacing
<1>1. IInv /\ JInv /\ SyncOK(engine, db, conn) /\ [Next]_vars =>
        [\A i, j \in Present(db) :
           (/\ db'[j].claimed # db[j].claimed
            /\ db[i].claimed # None
            /\ Type(db[i]) = Type(db[j]))
             => db'[j].claimed - db[i].claimed
                  >= Policies[Type(db[j])].minimum_interval]_vars
  BY NextJInv, SpacingStep DEF Present
<1>2. QED BY <1>1, AlwaysSync, PTL DEF Spec, DispatchSpacing

(* The leases in flight of every type, under its policy.                   *)
Bounded(rows) ==
  \A ty \in JobTypes :
    /\ IsFiniteSet(InFlight(rows, ty))
    /\ InFlight(rows, ty) # {} =>
         /\ ty \in DOMAIN Policies
         /\ Cardinality(InFlight(rows, ty)) <= Policies[ty].max_in_flight

(* Fewer leases stay within the policy.                                    *)
LEMMA FewerInFlight ==
  ASSUME NEW rows, NEW new, NEW ty \in JobTypes, Bounded(rows),
         InFlight(new, ty) \subseteq InFlight(rows, ty)
  PROVE  /\ IsFiniteSet(InFlight(new, ty))
         /\ InFlight(new, ty) # {} =>
              /\ ty \in DOMAIN Policies
              /\ Cardinality(InFlight(new, ty)) <= Policies[ty].max_in_flight
<1> DEFINE S == InFlight(rows, ty)
           T == InFlight(new, ty)
<1>1. /\ IsFiniteSet(S) /\ T \in SUBSET S
      /\ S # {} => ty \in DOMAIN Policies /\ Cardinality(S) <= Policies[ty].max_in_flight
  BY DEF Bounded
<1> HIDE DEF S, T
<1>2. IsFiniteSet(T) /\ Cardinality(T) <= Cardinality(S)
  BY <1>1, FS_Subset
<1>3. Cardinality(T) \in Nat /\ Cardinality(S) \in Nat
  BY <1>1, <1>2, FS_CardinalityType
<1>4. ty \in DOMAIN Policies => Policies[ty].max_in_flight \in Nat
  BY PolicyAssumption DEF Policy
<1>5. T # {} => ty \in DOMAIN Policies /\ Cardinality(T) <= Policies[ty].max_in_flight
  BY <1>1, <1>2, <1>3, <1>4
<1>6. QED BY <1>2, <1>5 DEF S, T

(* Shifts never lease a job.                                               *)
LEMMA ShiftsInFlight ==
  ASSUME NEW e, NEW f, NEW ty, ShiftsAll(e, f)
  PROVE  InFlight(f, ty) \subseteq InFlight(e, ty)
<1>1. SUFFICES ASSUME NEW i \in InFlight(f, ty) PROVE i \in InFlight(e, ty)
  OBVIOUS
<1>2. i \in JobIds /\ f[i] # NoJob /\ Type(f[i]) = ty /\ f[i].status \in Active
  BY <1>1 DEF InFlight, Present
<1>3. e[i] # NoJob /\ Shifts(e[i], f[i])
  BY <1>2 DEF ShiftsAll
<1>4. e[i].status \in Active /\ Type(e[i]) = ty
  BY <1>2, <1>3 DEF Shifts, SameIdentity, Type, Active, Terminal
<1>5. QED BY <1>2, <1>3, <1>4 DEF InFlight, Present

(* A poll hands out one job, of a type with a lease to spare; every other  *)
(* step only ends leases.                                                  *)
LEMMA BoundedStep ==
  ASSUME ~Disconnects, DOMAIN Policies # {}, IInv, JInv, SyncOK(engine, db, conn),
         Evolves, Bounded(db)
  PROVE  Bounded(db')
<1>1. SUFFICES ASSUME NEW ty \in JobTypes
               PROVE  /\ IsFiniteSet(InFlight(db', ty))
                      /\ InFlight(db', ty) # {} =>
                           /\ ty \in DOMAIN Policies
                           /\ Cardinality(InFlight(db', ty)) <= Policies[ty].max_in_flight
  BY DEF Bounded
<1>2. CASE \E j \in JobIds, w \in Workers, t \in Tokens : db[j] # NoJob /\ HandedBy(w, t, j)
  <2>1. PICK j \in JobIds, w \in Workers, t \in Tokens : db[j] # NoJob /\ HandedBy(w, t, j)
    BY <1>2
  <2> DEFINE e == Requeued(w)
             now == worker[w].at
             S == InFlight(e, ty)
             T == InFlight(db', ty)
  <2>2. /\ conn = "open" /\ ReachesClaim(w) /\ Claimable(e, j, Capabilities[w], now)
        /\ Hands(db[j], db'[j], w, t, now)
        /\ \A i \in JobIds : i # j => db'[i] = RowsRequeued(w)[i]
    BY <2>1 DEF HandedBy
  <2>3. ShiftsAll(engine, e)
    BY <2>2, RequeuedShifts
  <2>4. \A i \in JobIds : engine[i] = db[i] /\ e[i] = RowsRequeued(w)[i]
    BY <2>2, ReconciledAgrees DEF SyncOK, AllAgree, Agrees
  <2>5. ShiftsAll(db, e)
    BY <2>3, <2>4 DEF ShiftsAll
  <2>6. WithinPolicy(e, Type(e[j]), now)
    BY <2>2 DEF Claimable
  <2>7. Type(db'[j]) = Type(e[j])
    <3>1. Type(e[j]) = Type(db[j])
      BY <2>1, <2>5 DEF ShiftsAll, Shifts, SameIdentity, Type
    <3>2. Type(db'[j]) = Type(db[j])
      BY <2>2 DEF Hands, SameIdentity, Type
    <3>3. QED BY <3>1, <3>2
  <2> HIDE DEF e, now
  <2>8. ASSUME NEW i \in T, i # j PROVE i \in S
    BY <2>2, <2>4, <2>8 DEF InFlight, Present
  <2>9. S \subseteq InFlight(db, ty)
    BY <2>5, ShiftsInFlight
  <2>10. CASE ty # Type(e[j])
    <3>1. j \notin T
      BY <2>7, <2>10 DEF InFlight
    <3>2. T \subseteq InFlight(db, ty)
      BY <2>8, <2>9, <3>1
    <3>3. QED BY <3>2, FewerInFlight
  <2>11. CASE ty = Type(e[j])
    <3>1. /\ ty \in DOMAIN Policies /\ Cardinality(S) < Policies[ty].max_in_flight
          /\ Policies[ty].max_in_flight \in Nat
      BY <2>6, <2>11, PolicyAssumption DEF WithinPolicy, Policy
    <3>2. IsFiniteSet(S)
      <4>1. IsFiniteSet(InFlight(db, ty)) /\ S \in SUBSET InFlight(db, ty)
        BY <2>9 DEF Bounded
      <4>2. QED BY ONLY <4>1, FS_Subset
    <3> HIDE DEF S, T
    <3>3. IsFiniteSet(S \cup {j}) /\ Cardinality(S \cup {j}) <= Cardinality(S) + 1
      <4>1. Cardinality(S) \in Nat
        BY <3>2, FS_CardinalityType
      <4>2. /\ IsFiniteSet(S \cup {j})
            /\ Cardinality(S \cup {j}) =
                 IF j \in S THEN Cardinality(S) ELSE Cardinality(S) + 1
        BY ONLY <3>2, FS_AddElement
      <4>3. QED BY ONLY <4>1, <4>2
    <3>4. T \in SUBSET (S \cup {j})
      BY <2>8
    <3>5. IsFiniteSet(T) /\ Cardinality(T) <= Cardinality(S \cup {j})
      BY <3>3, <3>4, FS_Subset
    <3>6. /\ Cardinality(T) \in Nat /\ Cardinality(S) \in Nat
          /\ Cardinality(S \cup {j}) \in Nat
      BY <3>2, <3>3, <3>5, FS_CardinalityType
    <3>7. Cardinality(T) <= Policies[ty].max_in_flight
      BY <3>1, <3>3, <3>5, <3>6
    <3>8. QED BY <3>1, <3>5, <3>7 DEF T
  <2>12. QED BY <2>10, <2>11
<1>3. CASE ~\E j \in JobIds, w \in Workers, t \in Tokens : db[j] # NoJob /\ HandedBy(w, t, j)
  <2>1. SUFFICES ASSUME NEW i \in InFlight(db', ty) PROVE i \in InFlight(db, ty)
    BY FewerInFlight
  <2>2. i \in JobIds /\ db'[i] # NoJob /\ Type(db'[i]) = ty /\ db'[i].status \in Active
    BY <2>1 DEF InFlight, Present
  <2>3. ~NeverHanded(db'[i]) /\ \A c : ~Yields(db[i], db'[i], c)
    BY <2>2 DEF NeverHanded, Yields, Active
  <2>4. db'[i] = db[i] \/ (db[i] # NoJob /\ Shifts(db[i], db'[i]))
    BY <1>3, <2>2, <2>3 DEF Evolves, RowChange
  <2>5. db[i] # NoJob /\ db[i].status \in Active /\ Type(db[i]) = ty
    BY <2>2, <2>4 DEF Shifts, SameIdentity, Type, Active, Terminal
  <2>6. QED BY <2>2, <2>5 DEF InFlight, Present
<1>4. QED BY <1>2, <1>3

(* Where policies are configured and clients wait for their answers, no    *)
(* more rows of a type are leased than its policy allows: the engine that  *)
(* decides on a claim agrees with the table.  (An abandoned cancellation   *)
(* may leave a leased row that the engine no longer counts.)               *)
THEOREM LeasesWithinPolicy ==
  ASSUME ~Disconnects, DOMAIN Policies # {} PROVE Spec => []InFlightWithinPolicy
<1>1. Init => Bounded(db)
  <2>1. ASSUME Init, NEW ty \in JobTypes PROVE InFlight(db, ty) = {}
    BY <2>1 DEF Init, NoJobs, InFlight, Present
  <2>2. QED BY <2>1, FS_EmptySet DEF Bounded
<1>2. /\ IInv /\ JInv /\ SyncOK(engine, db, conn) /\ Bounded(db) /\ [Next]_vars
        => (Bounded(db))'
  BY NextJInv, BoundedStep
<1>3. IInv /\ Bounded(db) => InFlightWithinPolicy
  <2>1. SUFFICES ASSUME IInv, Bounded(db), NEW j \in Present(db), db[j].status \in Active
                 PROVE  /\ Type(db[j]) \in DOMAIN Policies
                        /\ Cardinality(InFlight(db, Type(db[j])))
                             <= Policies[Type(db[j])].max_in_flight
    BY DEF InFlightWithinPolicy
  <2>2. j \in JobIds /\ db[j] \in Job
    BY <2>1, FieldTypes DEF Present, IInv, Pair
  <2>3. Type(db[j]) \in JobTypes
    BY <2>2, TypeAssumption DEF Type, Job
  <2>4. j \in InFlight(db, Type(db[j]))
    BY <2>1 DEF InFlight
  <2>5. QED BY <2>1, <2>3, <2>4 DEF Bounded
<1>4. QED BY <1>1, <1>2, <1>3, AlwaysSync, PTL DEF Spec
=============================================================================
