---------------------------- MODULE JobLifecycle ----------------------------
(***************************************************************************)
(* What provider jobs promise to a client that reads the stored rows: an   *)
(* accepted job keeps its key and its attempt budget, is with one worker   *)
(* at a time, uses an attempt for every lease, and ends once.  Several     *)
(* jobs may step together, because one poll expires, requeues and claims   *)
(* in a single operation.                                                  *)
(***************************************************************************)
EXTENDS Naturals

CONSTANTS Jobs, JobKeys, Results, Budgets, NoResult

VARIABLE jobs   \* the client-visible part of every job

Phase == {"absent", "waiting", "leased", "succeeded", "failed", "canceled"}

Absent == [phase |-> "absent"]

View == [phase: Phase \ {"absent"}, key: JobKeys, budget: Budgets,
         used: Nat, result: Results \cup {NoResult}]

(* A job whose first submission was abandoned may be canceled before a     *)
(* repeated one stores it.                                                 *)
Accept(old, new) ==
  \E k \in JobKeys, b \in Budgets, p \in {"waiting", "canceled"} :
    /\ old = Absent
    /\ new = [phase |-> p, key |-> k, budget |-> b, used |-> 0,
              result |-> NoResult]

(* A new lease, also when the same step ends the previous one.             *)
Dispatch(old, new) ==
  /\ old.phase \in {"waiting", "leased"}
  /\ old.used < old.budget
  /\ new = [old EXCEPT !.phase = "leased", !.used = @ + 1]

Release(old, new) ==
  /\ old.phase = "leased"
  /\ old.used < old.budget
  /\ new = [old EXCEPT !.phase = "waiting"]

Finish(old, new) ==
  /\ old.phase = "leased"
  /\ \E r \in Results : new = [old EXCEPT !.phase = "succeeded", !.result = r]

GiveUp(old, new) ==
  /\ old.phase = "leased"
  /\ new = [old EXCEPT !.phase = "failed"]

Withdraw(old, new) ==
  /\ old.phase \in {"waiting", "leased"}
  /\ new = [old EXCEPT !.phase = "canceled"]

Step(old, new) ==
  \/ Accept(old, new)  \/ Dispatch(old, new) \/ Release(old, new)
  \/ Finish(old, new)  \/ GiveUp(old, new)   \/ Withdraw(old, new)

UniqueKeys(v) ==
  \A i, j \in Jobs : v[i] # Absent /\ v[j] # Absent /\ v[i].key = v[j].key
                       => i = j

Init == jobs = [j \in Jobs |-> Absent]

Next ==
  /\ jobs' \in [Jobs -> View \cup {Absent}]
  /\ \A j \in Jobs : jobs'[j] = jobs[j] \/ Step(jobs[j], jobs'[j])
  /\ UniqueKeys(jobs')

Spec == Init /\ [][Next]_jobs
=============================================================================
