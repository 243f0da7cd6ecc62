------------------------------ MODULE JobEngine ------------------------------
(***************************************************************************)
(* The provider-job engine of crates/marketcow-jobs: the job record, the   *)
(* transitions JobEngine applies to one job and to its whole map, and the  *)
(* row validation that recovery runs.  An engine value is a function from  *)
(* job ids to a Job or NoJob; the idempotency index of the code is the key *)
(* field of the present jobs.                                              *)
(*                                                                         *)
(* Data is abstracted: a request stands for (type, schema, SHA-256), a     *)
(* content for the bytes of a result file, an id for a UUID (ids are       *)
(* ordered because the engine scans a BTreeMap).  owner, token and expiry  *)
(* are set and cleared together by the code and form one Lease.            *)
(***************************************************************************)
EXTENDS Integers, FiniteSets

CONSTANTS
  JobIds,         \* UUIDs the engine may draw, ordered as in the BTreeMap
  Keys,           \* idempotency keys
  Requests,       \* request payloads
  JobTypes,       \* job types
  TypeOf,         \* the job type of every request
  Contents,       \* result file contents
  Tokens,         \* lease tokens
  Workers,        \* worker processes
  Policies,       \* dispatch policy of the job types that have one
  LeaseDuration,  \* the 60 s lease of a poll, in clock ticks
  MaxAttempts,    \* largest max_attempts a client asks for
  None,           \* an absent optional field
  NoJob           \* an absent job

Active    == {"claimed", "running"}
Terminal  == {"succeeded", "failed_terminal", "canceled"}
Status    == {"pending", "failed_retryable"} \cup Active \cup Terminal

Lease == [owner: Workers, token: Tokens, expires: Nat]

Job == [key: Keys, request: Requests, status: Status, revision: Nat,
        lease: Lease \cup {None}, claimed: Nat \cup {None}, deadline: Nat,
        attempt: Nat, max: 1..MaxAttempts, created: Nat,
        started: Nat \cup {None}, finished: BOOLEAN, error: BOOLEAN,
        result: Contents \cup {None}]

(* A policy bounds the leases in flight of a type and spaces its claims.   *)
Policy == [max_in_flight: Nat \ {0}, minimum_interval: Nat]

ASSUME JobIdsAssumption == JobIds \subseteq Nat
ASSUME TypeAssumption == TypeOf \in [Requests -> JobTypes]
ASSUME PolicyAssumption ==
  /\ DOMAIN Policies \subseteq JobTypes
  /\ \A ty \in DOMAIN Policies : Policies[ty] \in Policy
ASSUME BoundsAssumption ==
  /\ LeaseDuration \in Nat \ {0}
  /\ MaxAttempts \in 1..20
ASSUME AbsentAssumption ==
  /\ None \notin Nat /\ None \notin Contents /\ None \notin Lease
  /\ None \notin Tokens
  /\ NoJob \notin Job

Engine == [JobIds -> Job \cup {NoJob}]

Present(e) == {j \in JobIds : e[j] # NoJob}
Type(job)  == TypeOf[job.request]

-----------------------------------------------------------------------------
(* Transitions of one job.                                                 *)

NewJob(key, request, deadline, max, now) ==
  [key |-> key, request |-> request, status |-> "pending", revision |-> 1,
   lease |-> None, claimed |-> None, deadline |-> deadline, attempt |-> 0,
   max |-> max, created |-> now, started |-> None, finished |-> FALSE,
   error |-> FALSE, result |-> None]

\* Mutant: the lease duration is subtracted.
LeaseEndBackwards(job, now) == now - LeaseDuration

LeaseEnd(job, now) ==
  IF now + LeaseDuration < job.deadline THEN now + LeaseDuration
                                        ELSE job.deadline

\* Mutant: a claim does not use up an attempt.
ClaimUncounted(job, w, token, now) ==
  [job EXCEPT !.status = "claimed", !.revision = @ + 1,
              !.attempt = IF @ = 0 THEN 1 ELSE @,
              !.lease = [owner |-> w, token |-> token,
                         expires |-> LeaseEnd(job, now)],
              !.claimed = now]

Claim(job, w, token, now) ==
  [job EXCEPT !.status = "claimed", !.revision = @ + 1, !.attempt = @ + 1,
              !.lease = [owner |-> w, token |-> token,
                         expires |-> LeaseEnd(job, now)],
              !.claimed = now]

\* Mutant: any live lease of the job is accepted, whoever presents it.
HoldsSomeLease(job, token, now) ==
  now < job.deadline /\ job.lease # None /\ now < job.lease.expires

(* leased_job_mut: the token is current and neither the lease nor the      *)
(* deadline has passed.                                                    *)
HoldsLease(job, token, now) ==
  /\ now < job.deadline
  /\ job.lease # None
  /\ job.lease.token = token
  /\ now < job.lease.expires

\* Mutant: start changes the job under its old revision.
StartJobUnversioned(job, now) ==
  [job EXCEPT !.status = "running", !.started = IF @ = None THEN now ELSE @]

StartJob(job, now) ==
  [job EXCEPT !.status = "running", !.revision = @ + 1,
              !.started = IF @ = None THEN now ELSE @]

(* The error of an earlier attempt is left in place.                       *)
Succeed(job, content) ==
  [job EXCEPT !.status = "succeeded", !.revision = @ + 1, !.finished = TRUE,
              !.result = content, !.lease = None]

(* fail and expire_leases end an attempt alike once they have decided      *)
(* whether the job may be retried.                                         *)
EndAttempt(job, retry) ==
  [job EXCEPT !.status = IF retry THEN "failed_retryable"
                                  ELSE "failed_terminal",
              !.revision = @ + 1, !.error = TRUE,
              !.finished = @ \/ ~retry, !.lease = None]

\* Mutant: a job on its last attempt is retried.
FailJobUnbounded(job, retryable) == EndAttempt(job, retryable)

FailJob(job, retryable) == EndAttempt(job, retryable /\ job.attempt < job.max)

ExpireJob(job, now) ==
  EndAttempt(job, job.attempt < job.max /\ now < job.deadline)

RequeueJob(job) == [job EXCEPT !.status = "pending", !.revision = @ + 1]

Cancelable(job) == job.status \notin Terminal

\* Mutant: cancel keeps the lease fields.
CancelJobLeased(job) ==
  [job EXCEPT !.status = "canceled", !.revision = @ + 1, !.finished = TRUE]

CancelJob(job) ==
  [job EXCEPT !.status = "canceled", !.revision = @ + 1, !.finished = TRUE,
              !.lease = None]

-----------------------------------------------------------------------------
(* Transitions of the whole map.                                           *)

\* Mutant: only jobs that were never started are expired.
LapsedClaimed(job, now) ==
  job.status = "claimed" /\ job.lease # None /\ now >= job.lease.expires

Lapsed(job, now) ==
  job.status \in Active /\ job.lease # None /\ now >= job.lease.expires

ExpireLeases(e, now) ==
  [j \in JobIds |->
     IF e[j] # NoJob /\ Lapsed(e[j], now) THEN ExpireJob(e[j], now) ELSE e[j]]

RequeueRetryable(e, now) ==
  [j \in JobIds |->
     IF e[j] # NoJob /\ e[j].status = "failed_retryable" /\ now < e[j].deadline
     THEN RequeueJob(e[j]) ELSE e[j]]

InFlight(e, ty) ==
  {j \in Present(e) : Type(e[j]) = ty /\ e[j].status \in Active}

\* Mutant: dispatches are dated by the creation of the job.
DispatchTimeOfCreation(job) == job.created

(* claimed_at, else started_at, else created_at.                           *)
DispatchTime(job) ==
  CASE job.claimed # None -> job.claimed
    [] job.claimed = None /\ job.started # None -> job.started
    [] OTHER -> job.created

\* Mutant: one lease more than the policy allows.
WithinPolicyPlusOne(e, ty, now) ==
  /\ ty \in DOMAIN Policies
  /\ Cardinality(InFlight(e, ty)) <= Policies[ty].max_in_flight
  /\ \A j \in Present(e) :
       Type(e[j]) = ty /\ e[j].attempt > 0
         => now - DispatchTime(e[j]) >= Policies[ty].minimum_interval

WithinPolicy(e, ty, now) ==
  /\ ty \in DOMAIN Policies
  /\ Cardinality(InFlight(e, ty)) < Policies[ty].max_in_flight
  /\ \A j \in Present(e) :
       Type(e[j]) = ty /\ e[j].attempt > 0
         => now - DispatchTime(e[j]) >= Policies[ty].minimum_interval

(* claim_next ignores policies; reconcile_and_claim calls it only when     *)
(* none is configured.                                                     *)
Claimable(e, j, capabilities, now) ==
  /\ e[j] # NoJob
  /\ e[j].status = "pending"
  /\ e[j].attempt < e[j].max
  /\ now < e[j].deadline
  /\ Type(e[j]) \in capabilities
  /\ DOMAIN Policies = {} \/ WithinPolicy(e, Type(e[j]), now)

(* The job a poll claims: the first claimable one in id order.             *)
NextClaim(e, j, capabilities, now) ==
  /\ Claimable(e, j, capabilities, now)
  /\ \A k \in JobIds : Claimable(e, k, capabilities, now) => j <= k

-----------------------------------------------------------------------------
(* validate_recovered_job, clause by clause.                               *)

LeaseFieldsValid(job) == (job.lease # None) <=> (job.status \in Active)

StatusFieldsValid(job) ==
  CASE job.status = "pending"  -> ~job.finished /\ job.result = None
    [] job.status = "claimed"  -> job.attempt > 0 /\ ~job.finished
                                  /\ job.result = None
    [] job.status = "running"  -> job.attempt > 0 /\ job.started # None
                                  /\ ~job.finished /\ job.result = None
    [] job.status = "succeeded" -> job.started # None /\ job.finished
                                   /\ job.result # None
    [] job.status = "failed_retryable" -> job.error /\ ~job.finished
                                          /\ job.result = None
    [] job.status = "failed_terminal"  -> job.error /\ job.finished
                                          /\ job.result = None
    [] job.status = "canceled" -> job.finished /\ job.result = None

SucceededWithoutError(job) == job.status = "succeeded" => ~job.error

ClaimNotBeforeCreation(job) == job.claimed # None => job.claimed >= job.created

AccountingValid(job) ==
  /\ job.revision > 0
  /\ job.attempt <= job.max
  /\ job.created < job.deadline
  /\ job.attempt = 0 => job.claimed = None
  /\ job.claimed # None => job.claimed < job.deadline

ValidRecoveredJob(job) ==
  /\ LeaseFieldsValid(job)
  /\ StatusFieldsValid(job)
  /\ SucceededWithoutError(job)
  /\ ClaimNotBeforeCreation(job)
  /\ AccountingValid(job)
=============================================================================
