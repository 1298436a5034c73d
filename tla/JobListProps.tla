---------------------------- MODULE JobListProps ----------------------------
(***************************************************************************)
(* Properties of the job runner in JobList.                                *)
(***************************************************************************)
EXTENDS JobList

TypeOK ==
  /\ dependencies \in DepGraphs
  /\ waiting_jobs \in [Procs -> SUBSET Jobs]
  /\ runnable_jobs \in [Procs -> SUBSET Jobs]
  /\ running_jobs \in [Procs -> SUBSET Jobs]
  /\ completed_jobs \in [Procs -> SUBSET Names]
  /\ force_wait \in [Procs -> BOOLEAN]
  /\ failed \in [Procs -> BOOLEAN]
  /\ n_tokens \in [Procs -> Nat]
  /\ m_held_tokens \in [Procs -> SUBSET Tokens]
  /\ pool \in SUBSET Tokens
  /\ child \in [Jobs -> Statuses]
  /\ pc \in [Procs -> PCs]

\* The token ledger of the jobserver (return_one's assertion that a byte is
\* held never fails, and no byte is in two places): run_all's counter agrees
\* with the client's stack, and held bytes are neither in the pipe nor held
\* by a second process.
TokenLedger ==
  /\ \A p \in Procs : n_tokens[p] = Cardinality(m_held_tokens[p])
  /\ \A p \in Procs : m_held_tokens[p] \cap pool = {}
  /\ \A p, q \in Procs : p # q => m_held_tokens[p] \cap m_held_tokens[q] = {}

\* A process below a jobserver runs no more compilers than the tokens it
\* holds plus its own implicit one, at every point of the wait / release /
\* acquire loop; one that is about to start a job has a token for it.
WithinTokens ==
  \A p \in Procs :
    HasJobserver(p) =>
      /\ Cardinality(running_jobs[p]) <= 1 + n_tokens[p]
      /\ pc[p] = "start" => Cardinality(running_jobs[p]) <= n_tokens[p]

\* The `-j` limit (or one, without a jobserver) is never exceeded.
WithinLimit ==
  \A p \in Procs : JobLimit(p) > 0 => Cardinality(running_jobs[p]) <= JobLimit(p)

\* Whatever the processes sharing a jobserver do, the machine never runs more
\* compilers than the pipe's bytes plus one per process.
GlobalParallelism ==
  JobserverAuth =>
    Cardinality(UNION { running_jobs[p] : p \in Procs })
      <= Cardinality(Tokens) + Cardinality(Procs)

\* A compiler is only running, or queued to run, once every job it depends on
\* has completed successfully.
DependenciesBuilt ==
  \A p \in Procs : \A j \in runnable_jobs[p] \cup running_jobs[p] :
    dependencies[j] \subseteq completed_jobs[p]

\* Each job is in one queue at most and every spawned child is tracked: a job
\* neither runs twice nor gets lost between the queues while the loop runs.
JobsTracked ==
  \A p \in Procs : \A j \in { k \in Jobs : Owner[k] = p } :
    /\ j \in running_jobs[p] <=> child[j] \in {"live", "ok", "bad"}
    /\ j \in waiting_jobs[p] \cup runnable_jobs[p] => child[j] = "none"
    /\ waiting_jobs[p] \cap runnable_jobs[p] = {}

\* run_all returns true only if every job was built.
SuccessMeansAllBuilt ==
  \A p \in Procs : pc[p] = "returned" /\ ~failed[p] =>
    \A j \in Jobs : Owner[j] = p => NameOf[j] \in completed_jobs[p]

\* A child that failed makes run_all return false, also when it is reaped by
\* the non-blocking poll or by the final drain.
FailureReported ==
  \A p \in Procs : \A j \in Jobs :
    /\ Owner[j] = p
    /\ child[j] = "reaped"
    /\ NameOf[j] \notin completed_jobs[p]
    => failed[p] \/ pc[p] = "exited"

\* A process that returned holds no token and left no child behind.
CleanReturn ==
  \A p \in Procs : pc[p] = "returned" =>
    m_held_tokens[p] = {} /\ running_jobs[p] = {}

\* Once a failure was seen no further job is started, however many are
\* runnable and whatever order the remaining children exit in.
NoStartAfterFailure ==
  [][\A p \in Procs : failed[p] => running_jobs'[p] \subseteq running_jobs[p]]_vars

\* Every run_all ends: no process waits for ever on a child, on the pipe or on
\* jobs that cannot become runnable.
Terminates == <>Done

\* A token that was taken is given back.
TokensComeHome == \A p \in Procs : n_tokens[p] > 0 ~> n_tokens[p] = 0

-----------------------------------------------------------------------------
(* Refinement of the abstract schedule.                                    *)

\* Jobs that have been started, and those that run.
Begun == Jobs \ UNION { waiting_jobs[p] \cup runnable_jobs[p] : p \in Procs }
Active == UNION { running_jobs[p] : p \in Procs }

\* A process has failed once it knows, or a child of it ended badly.
Fails(p) ==
  \/ failed[p]
  \/ \E j \in Jobs : Owner[j] = p /\ child[j] = "reaped" /\ NameOf[j] \notin completed_jobs[p]
Broken == { p \in Procs : Fails(p) }

Schedules ==
  INSTANCE BuildSchedule WITH
    Builds <- Procs,
    Slots <- Cardinality(Tokens) + Cardinality(Procs),
    begun <- Begun,
    active <- Active,
    built <- completed_jobs,
    broken <- Broken

\* The runner, with its queues, waits and jobserver, is an implementation of
\* the abstract schedule.
ImplementsSchedule == Schedules!Spec
=============================================================================
