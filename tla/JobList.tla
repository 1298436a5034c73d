------------------------------- MODULE JobList -------------------------------
(***************************************************************************)
(* The parallel job runner of minicargo: JobList::run_all and wait_one     *)
(* (tools/minicargo/jobs.cpp), together with the make jobserver client it  *)
(* takes its parallelism from (tools/common/jobserver.cpp).                *)
(*                                                                         *)
(* Several minicargo processes (Procs) may run below one `make`; they are  *)
(* clients of one token pipe.  A process alternates between local work and *)
(* five operations other actors can see: waitpid, select and read on the   *)
(* pipe, write to the pipe, and spawning a compiler.  Each action below    *)
(* contains at most one of these and the local code that follows it.       *)
(***************************************************************************)
EXTENDS Naturals, FiniteSets

CONSTANTS
  Procs,            \* minicargo processes sharing the jobserver
  Jobs,             \* the jobs run_all keeps: those not already complete
  Owner,            \* [Jobs -> Procs]: the JobList each job was added to
  NameOf,           \* [Jobs -> Nat]: Job::name(), ordered as the strings are
  DepGraphs,        \* candidate values of Job::dependencies(), as functions
  Tokens,           \* the bytes that circulate in the jobserver pipe
  NumJobs,          \* [Procs -> Nat]: the `-j` argument, 0 when not given
  JobserverAuth,    \* whether MAKEFLAGS names a usable jobserver
  DryRun,           \* the processes started with `-n`
  RunOnce,          \* the processes that have MINICARGO_RUN_ONCE set
  SpawnMayFail,     \* whether posix_spawn may fail
  BlockingPipe      \* FALSE below a make that opens its pipe O_NONBLOCK

Names == { NameOf[j] : j \in Jobs }

\* Without a make above it, a process given `-jN` creates a pipe of its own
\* and fills it with N-1 bytes; nobody else is a client of that pipe.
ASSUME PrivateServerAssumption ==
  \/ JobserverAuth
  \/ \E p \in Procs :
       /\ Procs = {p}
       /\ NumJobs[p] > 1 => Cardinality(Tokens) = NumJobs[p] - 1

ASSUME ConstantsAssumption ==
  /\ IsFiniteSet(Jobs) /\ IsFiniteSet(Tokens)
  /\ Owner \in [Jobs -> Procs]
  /\ NameOf \in [Jobs -> Nat]
  /\ DepGraphs \subseteq [Jobs -> SUBSET Nat]
  /\ NumJobs \in [Procs -> Nat]
  /\ IsFiniteSet(Procs)
  /\ DryRun \subseteq Procs /\ RunOnce \subseteq Procs
  /\ {JobserverAuth, SpawnMayFail, BlockingPipe} \subseteq BOOLEAN

VARIABLES
  dependencies,     \* Job::dependencies(), fixed by BuildList::build
  waiting_jobs,     \* [Procs -> SUBSET Jobs]
  runnable_jobs,    \* [Procs -> SUBSET Jobs]: a deque, sorted before each use
  running_jobs,     \* [Procs -> SUBSET Jobs]
  completed_jobs,   \* [Procs -> SUBSET Names]
  force_wait,       \* [Procs -> BOOLEAN]
  failed,           \* [Procs -> BOOLEAN]
  n_tokens,         \* [Procs -> Nat]: run_all's own count
  m_held_tokens,    \* [Procs -> SUBSET Tokens]: the client's bytes
  pool,             \* bytes readable from the pipe
  child,            \* [Jobs -> status of the spawned process]
  pc                \* [Procs -> where run_all stands]

lists == <<waiting_jobs, runnable_jobs, running_jobs, completed_jobs>>
tokens == <<n_tokens, m_held_tokens, pool>>
vars == <<dependencies, lists, force_wait, failed, tokens, child, pc>>

PCs == {"head", "wait", "select", "read", "poll", "start", "drain",
        "returned", "exited"}
Statuses == {"none", "live", "ok", "bad", "reaped"}

-----------------------------------------------------------------------------
(* Configuration chosen at the top of run_all.                             *)

\* `jobserver` is null for dry runs and `-j1`; without `-j` only an existing
\* server is joined; `-jN` creates one when none exists.
HasJobserver(p) ==
  /\ p \notin DryRun
  /\ NumJobs[p] # 1
  /\ JobserverAuth \/ NumJobs[p] > 1

\* `num_jobs` after the fallback to one job when there is no jobserver.
JobLimit(p) == IF ~HasJobserver(p) /\ NumJobs[p] = 0 THEN 1 ELSE NumJobs[p]

-----------------------------------------------------------------------------
Busy(p) == waiting_jobs[p] \cup runnable_jobs[p] \cup running_jobs[p] # {}

AtLimit(p) == JobLimit(p) > 0 /\ Cardinality(running_jobs[p]) >= JobLimit(p)

MustWait(p) ==
  p \notin DryRun /\ running_jobs[p] # {} /\ (force_wait[p] \/ AtLimit(p))

\* Mutant: any_of instead of all_of over the dependencies.
Ready_AnyOf(p) ==
  { j \in waiting_jobs[p] :
      dependencies[j] = {} \/ dependencies[j] \cap completed_jobs[p] # {} }

Ready(p) == { j \in waiting_jobs[p] : dependencies[j] \subseteq completed_jobs[p] }

\* Children of p that waitpid can report.
Exited(p) == { j \in running_jobs[p] : child[j] \in {"ok", "bad"} }

\* Mutant: the release loop forgets the token of the job it keeps running.
Kept_OneTooFew(p) ==
  LET running == Cardinality(running_jobs[p]) IN
  IF 2 + n_tokens[p] <= running THEN n_tokens[p]
  ELSE IF running < 2 THEN 0 ELSE running - 2

\* Mutant: the release loop runs only while something is running.
Kept_WhenIdle(p) ==
  LET running == Cardinality(running_jobs[p]) IN
  IF running = 0 \/ 1 + n_tokens[p] <= running THEN n_tokens[p] ELSE running - 1

\* n_tokens after the release loop, `while 1+n_tokens > running_jobs.size()`:
\* one job always runs on the token the process was started with.
Kept(p) ==
  LET running == Cardinality(running_jobs[p]) IN
  IF 1 + n_tokens[p] <= running THEN n_tokens[p]
  ELSE IF running = 0 THEN 0 ELSE running - 1

\* The release loop: each round writes one held byte back to the pipe.
Release(p) ==
  IF HasJobserver(p)
  THEN \E T \in SUBSET m_held_tokens[p] :
         /\ Cardinality(T) = n_tokens[p] - Kept(p)
         /\ n_tokens' = [n_tokens EXCEPT ![p] = Kept(p)]
         /\ m_held_tokens' = [m_held_tokens EXCEPT ![p] = @ \ T]
         /\ pool' = pool \cup T
  ELSE UNCHANGED tokens

Goto(p, l) == pc' = [pc EXCEPT ![p] = l]

\* Mutant: `failed = !wait_one()` instead of `failed |= ...`.
FailedAfter_Overwrites(p, j) == child[j] = "bad"

\* run_all's `failed` once child j of p was reaped (exit(1) does not set it).
FailedAfter(p, j) == failed[p] \/ (child[j] = "bad" /\ p \notin RunOnce)

\* Mutant: the loop carries on after a failed job.
AfterReap_CarriesOn(p, j, next) == next

\* Where run_all goes on: a failure leaves the main loop, and
\* MINICARGO_RUN_ONCE ends the process after any job.
AfterReap(p, j, next) ==
  IF p \in RunOnce THEN "exited" ELSE IF child[j] = "ok" THEN next ELSE "drain"

\* The part of wait_one after waitpid reported child j, and its caller's use
\* of the result: `next` on success, the drain loop on failure.
Reap(p, j, next) ==
  /\ running_jobs' = [running_jobs EXCEPT ![p] = @ \ {j}]
  /\ completed_jobs' = IF child[j] = "ok"
                       THEN [completed_jobs EXCEPT ![p] = @ \cup {NameOf[j]}]
                       ELSE completed_jobs
  /\ child' = [child EXCEPT ![j] = "reaped"]
  /\ failed' = [failed EXCEPT ![p] = FailedAfter(p, j)]
  /\ Goto(p, AfterReap(p, j, next))
  /\ UNCHANGED <<dependencies, waiting_jobs, runnable_jobs, tokens>>

-----------------------------------------------------------------------------
(* The main loop of run_all.                                               *)

\* The condition of the main loop.
Head(p) ==
  /\ pc[p] = "head"
  /\ Goto(p, IF Busy(p) THEN "wait" ELSE "drain")
  /\ UNCHANGED <<dependencies, lists, force_wait, failed, tokens, child>>

\* One iteration of the inner wait loop: a blocking waitpid.
WaitOne(p) ==
  /\ pc[p] = "wait"
  /\ MustWait(p)
  /\ \E j \in Exited(p) :
       /\ Reap(p, j, "wait")
       /\ force_wait' = [force_wait EXCEPT ![p] = @ /\ child[j] = "bad"]

\* Mutant: an empty runnable queue ends the loop although jobs are running.
Decide_Breaks(p, runnable) ==
  CASE runnable = {} -> "drain"
    [] runnable # {} /\ running_jobs[p] # {} /\ HasJobserver(p) -> "select"
    [] OTHER -> "start"

\* Where an iteration goes once `runnable` is the runnable queue: out of the
\* loop, back to wait, to the jobserver, or straight to starting a job on the
\* token the process already owns.
Decide(p, runnable) ==
  CASE runnable = {} /\ running_jobs[p] = {} -> "drain"
    [] runnable = {} /\ running_jobs[p] # {} -> "head"
    [] runnable # {} /\ running_jobs[p] # {} /\ HasJobserver(p) -> "select"
    [] OTHER -> "start"

\* The flag that makes the next round wait for a child.
ForceWait(p, runnable) ==
  force_wait[p] \/ (runnable = {} /\ running_jobs[p] # {})

\* Nothing to wait for: surplus tokens are written back, newly runnable jobs
\* move across, and the loop decides what comes next.
Schedule(p) ==
  LET runnable == runnable_jobs[p] \cup Ready(p) IN
  /\ pc[p] = "wait"
  /\ ~MustWait(p)
  /\ Release(p)
  /\ waiting_jobs' = [waiting_jobs EXCEPT ![p] = @ \ Ready(p)]
  /\ runnable_jobs' = [runnable_jobs EXCEPT ![p] = runnable]
  /\ force_wait' = [force_wait EXCEPT ![p] = ForceWait(p, runnable)]
  /\ Goto(p, Decide(p, runnable))
  /\ UNCHANGED <<dependencies, running_jobs, completed_jobs, failed, child>>

\* Mutant: a timeout goes round the loop without reaping own children.
Select_NoPoll(p) ==
  /\ pc[p] = "select"
  /\ Goto(p, IF pool # {} THEN "read" ELSE "head")
  /\ UNCHANGED <<dependencies, lists, force_wait, failed, tokens, child>>

\* take_one(100): select on the pipe, which either reports a readable byte or
\* times out while the pipe is empty.
Select(p) ==
  /\ pc[p] = "select"
  /\ Goto(p, IF pool # {} THEN "read" ELSE "poll")
  /\ UNCHANGED <<dependencies, lists, force_wait, failed, tokens, child>>

\* Mutant: the token is read but not counted.
Read_Uncounted(p) ==
  /\ pc[p] = "read"
  /\ \E t \in pool :
       /\ pool' = pool \ {t}
       /\ m_held_tokens' = [m_held_tokens EXCEPT ![p] = @ \cup {t}]
  /\ Goto(p, "start")
  /\ UNCHANGED <<dependencies, lists, force_wait, failed, child, n_tokens>>

\* take_one: the read that follows.  The descriptor is blocking, so when
\* another client emptied the pipe after the select, this waits.
Read(p) ==
  /\ pc[p] = "read"
  /\ \E t \in pool :
       /\ pool' = pool \ {t}
       /\ m_held_tokens' = [m_held_tokens EXCEPT ![p] = @ \cup {t}]
  /\ n_tokens' = [n_tokens EXCEPT ![p] = @ + 1]
  /\ Goto(p, "start")
  /\ UNCHANGED <<dependencies, lists, force_wait, failed, child>>

\* On a non-blocking pipe the same read fails and take_one returns false.
ReadFails(p) ==
  /\ pc[p] = "read"
  /\ ~BlockingPipe /\ pool = {}
  /\ Goto(p, "poll")
  /\ UNCHANGED <<dependencies, lists, force_wait, failed, tokens, child>>

\* wait_one(false) after a timeout: reap a child if one has exited.
Poll(p) ==
  /\ pc[p] = "poll"
  /\ UNCHANGED force_wait
  /\ \/ \E j \in Exited(p) : Reap(p, j, "head")
     \/ /\ Exited(p) = {}
        /\ Goto(p, "head")
        /\ UNCHANGED <<dependencies, lists, failed, tokens, child>>

\* The front of the sorted runnable queue.
Fronts(p) == { j \in runnable_jobs[p] :
                 \A k \in runnable_jobs[p] : NameOf[j] <= NameOf[k] }

\* Pop the front job and spawn it; a dry run records it as complete instead.
\* A failed spawn ends the process with exit(1).
Start(p) ==
  /\ pc[p] = "start"
  /\ \E j \in Fronts(p) :
       /\ runnable_jobs' = [runnable_jobs EXCEPT ![p] = @ \ {j}]
       /\ IF p \in DryRun
          THEN /\ completed_jobs' = [completed_jobs EXCEPT ![p] = @ \cup {NameOf[j]}]
               /\ Goto(p, "head")
               /\ UNCHANGED <<running_jobs, child>>
          ELSE /\ UNCHANGED completed_jobs
               /\ \/ /\ running_jobs' = [running_jobs EXCEPT ![p] = @ \cup {j}]
                     /\ child' = [child EXCEPT ![j] = "live"]
                     /\ Goto(p, "head")
                  \/ /\ SpawnMayFail
                     /\ Goto(p, "exited")
                     /\ UNCHANGED <<running_jobs, child>>
  /\ UNCHANGED <<dependencies, waiting_jobs, force_wait, failed, tokens>>

\* After the main loop: wait for every job still running.
Drain(p) ==
  /\ pc[p] = "drain"
  /\ UNCHANGED force_wait
  /\ \E j \in Exited(p) : Reap(p, j, "drain")

\* Mutant: returns without the final release of the tokens.
Return_KeepsTokens(p) ==
  /\ pc[p] = "drain"
  /\ running_jobs[p] = {}
  /\ Goto(p, "returned")
  /\ UNCHANGED <<dependencies, lists, force_wait, failed, tokens, child>>

\* Give back all tokens and return !failed.
Return(p) ==
  /\ pc[p] = "drain"
  /\ running_jobs[p] = {}
  /\ Release(p)
  /\ Goto(p, "returned")
  /\ UNCHANGED <<dependencies, lists, force_wait, failed, child>>

-----------------------------------------------------------------------------
(* The environment: compilers exit, other jobserver clients use the pipe.  *)

HeldHere == UNION { m_held_tokens[p] : p \in Procs }
Elsewhere == Tokens \ (pool \cup HeldHere)

JobExits(j) ==
  /\ child[j] = "live"
  /\ \E status \in {"ok", "bad"} : child' = [child EXCEPT ![j] = status]
  /\ UNCHANGED <<dependencies, lists, force_wait, failed, tokens, pc>>

OtherTakes ==
  /\ JobserverAuth
  /\ \E t \in pool : pool' = pool \ {t}
  /\ UNCHANGED <<dependencies, lists, force_wait, failed, n_tokens,
                 m_held_tokens, child, pc>>

OtherReturns ==
  /\ \E t \in Elsewhere : pool' = pool \cup {t}
  /\ UNCHANGED <<dependencies, lists, force_wait, failed, n_tokens,
                 m_held_tokens, child, pc>>

-----------------------------------------------------------------------------
\* run_all has sorted the jobs and dropped those already complete: Jobs are
\* the dirty ones.
Init ==
  /\ dependencies \in DepGraphs
  /\ waiting_jobs = [p \in Procs |-> { j \in Jobs : Owner[j] = p }]
  /\ runnable_jobs = [p \in Procs |-> {}]
  /\ running_jobs = [p \in Procs |-> {}]
  /\ completed_jobs = [p \in Procs |-> {}]
  /\ force_wait = [p \in Procs |-> FALSE]
  /\ failed = [p \in Procs |-> FALSE]
  /\ n_tokens = [p \in Procs |-> 0]
  /\ m_held_tokens = [p \in Procs |-> {}]
  /\ pool = Tokens
  /\ child = [j \in Jobs |-> "none"]
  /\ pc = [p \in Procs |-> "head"]

Step(p) == \/ Head(p) \/ WaitOne(p) \/ Schedule(p) \/ Select(p) \/ Read(p)
           \/ ReadFails(p) \/ Poll(p) \/ Start(p) \/ Drain(p) \/ Return(p)

Done == \A p \in Procs : pc[p] \in {"returned", "exited"}

Next == \/ \E p \in Procs : Step(p)
        \/ \E j \in Jobs : JobExits(j)
        \/ OtherTakes
        \/ OtherReturns

Spec == Init /\ [][Next]_vars

\* A process keeps running, a compiler eventually exits, other clients give
\* their tokens back, and a reader blocked on the pipe is woken in its turn.
Fairness ==
  /\ \A p \in Procs : WF_vars(Step(p)) /\ SF_vars(Read(p))
  /\ \A j \in Jobs : WF_vars(JobExits(j))
  /\ WF_vars(OtherReturns)

FairSpec == Spec /\ Fairness
=============================================================================
