------------------------------ MODULE JobBoard ------------------------------
(***************************************************************************)
(* What the scheduled_work table promises to the workers of one league,    *)
(* without instants, leases or SQL: jobs are offered, a worker takes every *)
(* job it can get, and a job that is held can change hands only when its   *)
(* holder is gone.  A job that is done is never offered or taken again.    *)
(***************************************************************************)
CONSTANTS Job, Worker, Gone

VARIABLES state, holder

boardVars == <<state, holder>>

State == {"none", "todo", "doing", "done", "dropped"}

BoardTypeOK ==
  /\ state \in [Job -> State]
  /\ holder \in [Job -> Worker \cup {Gone}]

\* Nobody who is still there holds the job.
Free(j) == state[j] = "todo" \/ (state[j] = "doing" /\ holder[j] = Gone)

Offer(j) ==
  /\ state[j] \in {"none", "todo", "dropped"}
  /\ state' = [state EXCEPT ![j] = "todo"]
  /\ UNCHANGED holder

Withdraw(jobs) ==
  /\ \A j \in jobs : Free(j)
  /\ state' = [j \in Job |-> IF j \in jobs THEN "dropped" ELSE state[j]]
  /\ UNCHANGED holder

WithdrawOffer(j) ==
  /\ state[j] \in {"todo", "dropped"}
  /\ state' = [state EXCEPT ![j] = "dropped"]
  /\ UNCHANGED holder

Take(w, jobs) ==
  /\ \A j \in jobs : Free(j)
  /\ state' = [j \in Job |-> IF j \in jobs THEN "doing" ELSE state[j]]
  /\ holder' = [j \in Job |-> IF j \in jobs THEN w ELSE holder[j]]

\* The holder is done with the job, gives it back, or finds it pointless.
PutDown(w, j) ==
  /\ state[j] = "doing" /\ holder[j] = w
  /\ \E result \in {"done", "todo", "dropped"} : state' = [state EXCEPT ![j] = result]
  /\ holder' = [holder EXCEPT ![j] = Gone]

Vanish(w) ==
  /\ holder' = [j \in Job |-> IF holder[j] = w THEN Gone ELSE holder[j]]
  /\ UNCHANGED state

BoardInit ==
  /\ state = [j \in Job |-> "none"]
  /\ holder = [j \in Job |-> Gone]

BoardNext ==
  \/ \E j \in Job : Offer(j) \/ WithdrawOffer(j)
  \/ \E jobs \in SUBSET Job : Withdraw(jobs)
  \/ \E w \in Worker, jobs \in SUBSET Job : Take(w, jobs)
  \/ \E w \in Worker, j \in Job : PutDown(w, j)
  \/ \E w \in Worker : Vanish(w)

BoardSpec == BoardInit /\ [][BoardNext]_boardVars
=============================================================================
