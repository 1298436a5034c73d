---------------------------- MODULE JobListProofs ----------------------------
(***************************************************************************)
(* Proofs about the job runner for every number of processes, jobs and     *)
(* tokens, every dependency graph and every setting of its options: its    *)
(* tokens, then the outcome of run_all (what happens to each job, what is  *)
(* left when it returns, how many compilers run at once, below one         *)
(* jobserver too), and that the runner implements the abstract schedule.   *)
(***************************************************************************)
EXTENDS JobListProps, FiniteSetTheorems, FunctionTheorems, TLAPS

-----------------------------------------------------------------------------
(* The size of a queue that gains or loses one entry.                      *)

\* A queue that gains an entry grows by one at most.
LEMMA OneMore ==
  ASSUME NEW S, NEW x, IsFiniteSet(S)
  PROVE  /\ Cardinality(S \cup {x}) \in Nat
         /\ Cardinality(S \cup {x}) <= Cardinality(S) + 1
<1>1. Cardinality(S) \in Nat
  BY FS_CardinalityType
<1>2. Cardinality(S \cup {x}) = IF x \in S THEN Cardinality(S) ELSE Cardinality(S) + 1
  BY FS_AddElement
<1> QED
  BY <1>1, <1>2

\* Taking an entry out of a queue that holds it leaves one less.
LEMMA OneLess ==
  ASSUME NEW S, NEW x \in S, IsFiniteSet(S)
  PROVE  Cardinality(S \ {x}) = Cardinality(S) - 1
BY FS_RemoveElement

-----------------------------------------------------------------------------
(* Lemmas about the release loop.                                          *)

\* The queues and the client's stack are finite, so their sizes are numbers.
LEMMA Sizes ==
  ASSUME TypeOK, NEW p \in Procs
  PROVE  /\ IsFiniteSet(running_jobs[p])
         /\ Cardinality(running_jobs[p]) \in Nat
         /\ Cardinality(running_jobs[p]) = 0 <=> running_jobs[p] = {}
         /\ IsFiniteSet(m_held_tokens[p])
         /\ Cardinality(m_held_tokens[p]) \in Nat
<1>1. running_jobs[p] \in SUBSET Jobs /\ m_held_tokens[p] \in SUBSET Tokens
  BY DEF TypeOK
<1>2. IsFiniteSet(running_jobs[p]) /\ IsFiniteSet(m_held_tokens[p])
  BY <1>1, FS_Subset, ConstantsAssumption
<1> QED
  BY <1>2, FS_CardinalityType, FS_EmptySet

\* The loop stops at a number of tokens that is no larger than before and that
\* still covers every running job but the one on the implicit token.
LEMMA KeptEnough ==
  ASSUME TypeOK, NEW p \in Procs
  PROVE  /\ Kept(p) \in Nat
         /\ Kept(p) <= n_tokens[p]
         /\ running_jobs[p] = {} => Kept(p) = 0
         /\ Cardinality(running_jobs[p]) <= 1 + n_tokens[p] =>
              Cardinality(running_jobs[p]) <= 1 + Kept(p)
<1>1. n_tokens[p] \in Nat
  BY DEF TypeOK
<1> DEFINE running == Cardinality(running_jobs[p])
<1>2. running \in Nat /\ (running = 0 <=> running_jobs[p] = {})
  BY Sizes
<1>3. Kept(p) = IF 1 + n_tokens[p] <= running THEN n_tokens[p]
                ELSE IF running = 0 THEN 0 ELSE running - 1
  BY DEF Kept
<1> HIDE DEF running
<1>4. /\ Kept(p) \in Nat
      /\ Kept(p) <= n_tokens[p]
      /\ running = 0 => Kept(p) = 0
      /\ running <= 1 + n_tokens[p] => running <= 1 + Kept(p)
  BY <1>1, <1>2, <1>3
<1> QED
  BY <1>2, <1>4 DEF running

\* return_one gives back bytes the process holds, and the counter stays a natural
\* number.
LEMMA ReleaseType ==
  ASSUME TypeOK, NEW p \in Procs, Release(p)
  PROVE  /\ n_tokens' \in [Procs -> Nat]
         /\ m_held_tokens' \in [Procs -> SUBSET Tokens]
         /\ pool' \in SUBSET Tokens
<1>1. CASE HasJobserver(p)
  <2>1. PICK T \in SUBSET m_held_tokens[p] :
          /\ n_tokens' = [n_tokens EXCEPT ![p] = Kept(p)]
          /\ m_held_tokens' = [m_held_tokens EXCEPT ![p] = @ \ T]
          /\ pool' = pool \cup T
    BY <1>1 DEF Release
  <2> QED
    BY <2>1, KeptEnough DEF TypeOK
<1>2. CASE ~HasJobserver(p)
  BY <1>2 DEF Release, tokens, TypeOK
<1> QED
  BY <1>1, <1>2

-----------------------------------------------------------------------------
(* Type correctness.                                                       *)

\* Reaping a job (wait_one) keeps the types of all that it changes.
LEMMA ReapType ==
  ASSUME TypeOK, NEW p \in Procs, NEW j \in Jobs, NEW l \in PCs, Reap(p, j, l),
         force_wait' \in [Procs -> BOOLEAN]
  PROVE  TypeOK'
<1>1. failed' \in [Procs -> BOOLEAN]
  BY DEF TypeOK, Reap, FailedAfter
<1>2. pc' \in [Procs -> PCs]
  BY DEF TypeOK, Reap, Goto, AfterReap, PCs
<1>3. child' \in [Jobs -> Statuses]
  BY DEF TypeOK, Reap, Statuses
<1>4. completed_jobs' \in [Procs -> SUBSET Names]
  BY DEF TypeOK, Reap, Names
<1>5. running_jobs' \in [Procs -> SUBSET Jobs]
  BY DEF TypeOK, Reap
<1> QED
  BY <1>1, <1>2, <1>3, <1>4, <1>5 DEF TypeOK, Reap, tokens

\* The processes start well-typed.
LEMMA TypeInit == Init => TypeOK
  BY ConstantsAssumption DEF Init, TypeOK, PCs, Statuses

\* No step of a process, of a job or of make breaks the types.
LEMMA TypeStep == TypeOK /\ [Next]_vars => TypeOK'
<1> SUFFICES ASSUME TypeOK, [Next]_vars PROVE TypeOK'
  OBVIOUS
<1>1. CASE UNCHANGED vars
  BY <1>1 DEF TypeOK, vars, lists, tokens
<1>2. ASSUME NEW p \in Procs, Step(p) PROVE TypeOK'
  <2>1. CASE Head(p)
    BY <2>1 DEF Head, Goto, TypeOK, PCs, lists, tokens
  <2>2. CASE WaitOne(p)
    <3>1. PICK j \in Exited(p) :
            /\ Reap(p, j, "wait")
            /\ force_wait' = [force_wait EXCEPT ![p] = @ /\ child[j] = "bad"]
      BY <2>2 DEF WaitOne
    <3>2. j \in Jobs
      BY DEF Exited, TypeOK
    <3>3. force_wait' \in [Procs -> BOOLEAN]
      BY <3>1 DEF TypeOK
    <3> QED
      BY <3>1, <3>2, <3>3, ReapType DEF PCs
  <2>3. CASE Schedule(p)
    <3>1. /\ n_tokens' \in [Procs -> Nat]
          /\ m_held_tokens' \in [Procs -> SUBSET Tokens]
          /\ pool' \in SUBSET Tokens
      BY <2>3, ReleaseType DEF Schedule
    <3>2. pc' \in [Procs -> PCs]
      BY <2>3 DEF Schedule, Goto, Decide, TypeOK, PCs
    <3>3. /\ waiting_jobs' \in [Procs -> SUBSET Jobs]
          /\ runnable_jobs' \in [Procs -> SUBSET Jobs]
          /\ force_wait' \in [Procs -> BOOLEAN]
      BY <2>3 DEF Schedule, Ready, ForceWait, TypeOK
    <3> QED
      BY <2>3, <3>1, <3>2, <3>3 DEF Schedule, TypeOK
  <2>4. CASE Select(p)
    BY <2>4 DEF Select, Goto, TypeOK, PCs, lists, tokens
  <2>5. CASE Read(p)
    <3>1. n_tokens' \in [Procs -> Nat]
      BY <2>5 DEF Read, TypeOK
    <3>2. /\ m_held_tokens' \in [Procs -> SUBSET Tokens]
          /\ pool' \in SUBSET Tokens
      BY <2>5 DEF Read, TypeOK
    <3> QED
      BY <2>5, <3>1, <3>2 DEF Read, Goto, TypeOK, PCs, lists
  <2>6. CASE ReadFails(p)
    BY <2>6 DEF ReadFails, Goto, TypeOK, PCs, lists, tokens
  <2>7. CASE Poll(p)
    <3>1. ASSUME NEW j \in Exited(p), Reap(p, j, "head") PROVE TypeOK'
      BY <2>7, <3>1, ReapType DEF Poll, Exited, TypeOK, PCs
    <3>2. ASSUME Goto(p, "head"),
                 UNCHANGED <<dependencies, lists, failed, tokens, child>>
          PROVE  TypeOK'
      BY <2>7, <3>2 DEF Poll, Goto, TypeOK, PCs, lists, tokens
    <3> QED
      BY <2>7, <3>1, <3>2 DEF Poll
  <2>8. CASE Start(p)
    <3>1. PICK j \in Jobs :
            /\ runnable_jobs' = [runnable_jobs EXCEPT ![p] = @ \ {j}]
            /\ \/ /\ completed_jobs' = [completed_jobs EXCEPT ![p] = @ \cup {NameOf[j]}]
                  /\ Goto(p, "head")
                  /\ UNCHANGED <<running_jobs, child>>
               \/ /\ running_jobs' = [running_jobs EXCEPT ![p] = @ \cup {j}]
                  /\ child' = [child EXCEPT ![j] = "live"]
                  /\ Goto(p, "head")
                  /\ UNCHANGED completed_jobs
               \/ /\ Goto(p, "exited")
                  /\ UNCHANGED <<running_jobs, child, completed_jobs>>
      BY <2>8 DEF Start, Fronts, TypeOK
    <3>2. /\ completed_jobs' \in [Procs -> SUBSET Names]
          /\ running_jobs' \in [Procs -> SUBSET Jobs]
          /\ child' \in [Jobs -> Statuses]
          /\ pc' \in [Procs -> PCs]
      BY <3>1 DEF Goto, TypeOK, PCs, Statuses, Names
    <3> QED
      BY <2>8, <3>1, <3>2 DEF Start, TypeOK, tokens
  <2>9. CASE Drain(p)
    BY <2>9, ReapType DEF Drain, Exited, TypeOK, PCs
  <2>10. CASE Return(p)
    BY <2>10, ReleaseType DEF Return, Goto, TypeOK, PCs, lists
  <2> QED
    BY <1>2, <2>1, <2>2, <2>3, <2>4, <2>5, <2>6, <2>7, <2>8, <2>9, <2>10 DEF Step
<1>3. ASSUME NEW j \in Jobs, JobExits(j) PROVE TypeOK'
  BY <1>3 DEF JobExits, TypeOK, Statuses, lists, tokens
<1>4. CASE OtherTakes
  BY <1>4 DEF OtherTakes, TypeOK, lists
<1>5. CASE OtherReturns
  BY <1>5 DEF OtherReturns, Elsewhere, TypeOK, lists
<1> QED
  BY <1>1, <1>2, <1>3, <1>4, <1>5 DEF Next

\* Type correctness: in particular n_tokens never wraps below zero.
THEOREM TypeCorrect == Spec => []TypeOK
  BY TypeInit, TypeStep, PTL DEF Spec

-----------------------------------------------------------------------------
(* The token ledger.                                                       *)

\* return_one moves bytes from the client to the pipe and loses none.
LEMMA ReleaseLedger ==
  ASSUME TypeOK, TokenLedger, NEW p \in Procs, Release(p)
  PROVE  TokenLedger'
<1>1. CASE HasJobserver(p)
  <2>1. PICK T \in SUBSET m_held_tokens[p] :
          /\ Cardinality(T) = n_tokens[p] - Kept(p)
          /\ n_tokens' = [n_tokens EXCEPT ![p] = Kept(p)]
          /\ m_held_tokens' = [m_held_tokens EXCEPT ![p] = @ \ T]
          /\ pool' = pool \cup T
    BY <1>1 DEF Release
  <2>2. n_tokens'[p] = Cardinality(m_held_tokens'[p])
    <3>1. n_tokens[p] \in Nat /\ Kept(p) \in Nat /\ Kept(p) <= n_tokens[p]
      BY KeptEnough DEF TypeOK
    <3>2. n_tokens[p] = Cardinality(m_held_tokens[p])
      BY DEF TokenLedger
    <3>3. m_held_tokens[p] \cap T = T
      BY <2>1
    <3>4. Cardinality(m_held_tokens[p] \ T)
            = Cardinality(m_held_tokens[p]) - Cardinality(m_held_tokens[p] \cap T)
      BY Sizes, FS_Difference
    <3>5. Cardinality(m_held_tokens[p] \ T) = n_tokens[p] - (n_tokens[p] - Kept(p))
      BY <2>1, <3>2, <3>3, <3>4
    <3>6. Cardinality(m_held_tokens[p] \ T) = Kept(p)
      BY <3>1, <3>5
    <3> QED
      BY <2>1, <3>6 DEF TypeOK
  <2>3. ASSUME NEW q \in Procs, q # p
        PROVE  n_tokens'[q] = n_tokens[q] /\ m_held_tokens'[q] = m_held_tokens[q]
    BY <2>1, <2>3 DEF TypeOK
  <2>4. m_held_tokens'[p] = m_held_tokens[p] \ T
    BY <2>1 DEF TypeOK
  <2>5. \A q \in Procs : n_tokens'[q] = Cardinality(m_held_tokens'[q])
    BY <2>2, <2>3 DEF TokenLedger
  <2>6. \A q \in Procs : m_held_tokens'[q] \cap pool' = {}
    BY <2>1, <2>3, <2>4 DEF TokenLedger
  <2>7. \A q, r \in Procs :
          q # r => m_held_tokens'[q] \cap m_held_tokens'[r] = {}
    BY <2>3, <2>4 DEF TokenLedger
  <2> QED
    BY <2>5, <2>6, <2>7 DEF TokenLedger
<1>2. CASE ~HasJobserver(p)
  BY <1>2 DEF Release, tokens, TokenLedger
<1> QED
  BY <1>1, <1>2

\* take_one moves one byte from the pipe to the client.
LEMMA ReadLedger ==
  ASSUME TypeOK, TokenLedger, NEW p \in Procs, Read(p)
  PROVE  TokenLedger'
<1>1. PICK t \in pool :
        /\ pool' = pool \ {t}
        /\ m_held_tokens' = [m_held_tokens EXCEPT ![p] = @ \cup {t}]
        /\ n_tokens' = [n_tokens EXCEPT ![p] = @ + 1]
  BY DEF Read
<1>2. \A q \in Procs : t \notin m_held_tokens[q]
  BY <1>1 DEF TokenLedger
<1>3. /\ m_held_tokens'[p] = m_held_tokens[p] \cup {t}
      /\ n_tokens'[p] = n_tokens[p] + 1
  BY <1>1 DEF TypeOK
<1>4. ASSUME NEW q \in Procs, q # p
      PROVE  n_tokens'[q] = n_tokens[q] /\ m_held_tokens'[q] = m_held_tokens[q]
  BY <1>1, <1>4 DEF TypeOK
<1>5. Cardinality(m_held_tokens[p] \cup {t}) = Cardinality(m_held_tokens[p]) + 1
  BY <1>2, Sizes, FS_AddElement
<1>6. \A q \in Procs : n_tokens'[q] = Cardinality(m_held_tokens'[q])
  BY <1>3, <1>4, <1>5 DEF TokenLedger
<1>7. \A q \in Procs : m_held_tokens'[q] \cap pool' = {}
  BY <1>1, <1>3, <1>4 DEF TokenLedger
<1>8. \A q, r \in Procs : q # r => m_held_tokens'[q] \cap m_held_tokens'[r] = {}
  BY <1>2, <1>3, <1>4 DEF TokenLedger
<1> QED
  BY <1>6, <1>7, <1>8 DEF TokenLedger

\* No step duplicates or forgets a byte.
LEMMA LedgerStep == TypeOK /\ TokenLedger /\ [Next]_vars => TokenLedger'
<1> SUFFICES ASSUME TypeOK, TokenLedger, [Next]_vars PROVE TokenLedger'
  OBVIOUS
<1>1. CASE UNCHANGED tokens
  BY <1>1 DEF TokenLedger, tokens
<1>2. ASSUME NEW p \in Procs, Step(p) PROVE TokenLedger'
  <2>1. CASE Schedule(p) \/ Return(p)
    BY <2>1, ReleaseLedger DEF Schedule, Return
  <2>2. CASE Read(p)
    BY <2>2, ReadLedger
  <2>3. CASE Head(p) \/ WaitOne(p) \/ Select(p) \/ ReadFails(p) \/ Start(p)
    BY <1>1, <2>3 DEF Head, WaitOne, Reap, Select, ReadFails, Start
  <2>4. CASE Poll(p) \/ Drain(p)
    BY <1>1, <2>4 DEF Poll, Drain, Reap
  <2> QED
    BY <1>2, <2>1, <2>2, <2>3, <2>4 DEF Step
<1>3. ASSUME NEW j \in Jobs, JobExits(j) PROVE TokenLedger'
  BY <1>1, <1>3 DEF JobExits
<1>4. CASE OtherTakes
  BY <1>4 DEF OtherTakes, TokenLedger
<1>5. CASE OtherReturns
  BY <1>5 DEF OtherReturns, Elsewhere, HeldHere, TokenLedger, TypeOK
<1>6. CASE UNCHANGED vars
  BY <1>1, <1>6 DEF vars
<1> QED
  BY <1>2, <1>3, <1>4, <1>5, <1>6 DEF Next

\* No byte of the pipe is ever duplicated or lost by the client's bookkeeping,
\* whatever the number of processes and the steps of make's other jobs.
THEOREM LedgerCorrect == Spec => []TokenLedger
<1>1. Init => TokenLedger
  BY FS_EmptySet DEF Init, TokenLedger
<1> QED
  BY <1>1, LedgerStep, TypeCorrect, PTL DEF Spec

-----------------------------------------------------------------------------
(* Jobs and tokens.                                                        *)

\* The other processes' queues are not touched by a step of p.
LEMMA OnlyOwnQueues ==
  ASSUME TypeOK, NEW p \in Procs, Step(p), NEW q \in Procs, q # p
  PROVE  /\ running_jobs'[q] = running_jobs[q]
         /\ runnable_jobs'[q] = runnable_jobs[q]
         /\ completed_jobs'[q] = completed_jobs[q]
         /\ n_tokens'[q] = n_tokens[q]
         /\ failed'[q] = failed[q]
         /\ pc'[q] = pc[q]
<1>1. ASSUME Release(p) PROVE n_tokens'[q] = n_tokens[q]
  BY <1>1 DEF Release, tokens, TypeOK
<1>2. ASSUME NEW j, NEW l, Reap(p, j, l)
      PROVE  /\ running_jobs'[q] = running_jobs[q]
             /\ runnable_jobs'[q] = runnable_jobs[q]
             /\ completed_jobs'[q] = completed_jobs[q]
             /\ n_tokens'[q] = n_tokens[q]
             /\ failed'[q] = failed[q]
             /\ pc'[q] = pc[q]
  BY <1>2 DEF Reap, Goto, TypeOK, tokens
<1>3. CASE WaitOne(p) \/ Drain(p)
  BY <1>2, <1>3 DEF WaitOne, Drain
<1>4. CASE Poll(p)
  BY <1>2, <1>4 DEF Poll, Goto, TypeOK, lists, tokens
<1>5. CASE Schedule(p)
  BY <1>1, <1>5 DEF Schedule, Goto, TypeOK
<1>6. CASE Return(p)
  BY <1>1, <1>6 DEF Return, Goto, TypeOK, lists
<1>7. CASE Head(p) \/ Select(p) \/ ReadFails(p)
  BY <1>7 DEF Head, Select, ReadFails, Goto, TypeOK, lists, tokens
<1>8. CASE Read(p)
  BY <1>8 DEF Read, Goto, TypeOK, lists
<1>9. CASE Start(p)
  BY <1>9 DEF Start, Goto, TypeOK, tokens
<1> QED
  BY <1>3, <1>4, <1>5, <1>6, <1>7, <1>8, <1>9 DEF Step

\* No step lets a process run more jobs than it holds tokens for, by one.
LEMMA TokensStep ==
  ASSUME TypeOK, TypeOK', WithinTokens, [Next]_vars
  PROVE  WithinTokens'
<1>1. CASE UNCHANGED <<running_jobs, n_tokens, pc>>
  BY <1>1 DEF WithinTokens, HasJobserver
<1>2. ASSUME NEW p \in Procs, Step(p) PROVE WithinTokens'
  <2> DEFINE Within(q) ==
        HasJobserver(q) =>
          /\ Cardinality(running_jobs'[q]) <= 1 + n_tokens'[q]
          /\ pc'[q] = "start" => Cardinality(running_jobs'[q]) <= n_tokens'[q]
  <2>1. ASSUME NEW q \in Procs, q # p PROVE Within(q)
    BY <1>2, <2>1, OnlyOwnQueues DEF WithinTokens
  <2>2. Within(p)
    <3> SUFFICES ASSUME HasJobserver(p) PROVE Within(p)
      OBVIOUS
    <3> DEFINE running == Cardinality(running_jobs[p])
    <3>1. /\ running \in Nat
          /\ n_tokens[p] \in Nat /\ n_tokens'[p] \in Nat
          /\ IsFiniteSet(running_jobs[p])
      BY Sizes DEF TypeOK
    <3>2. /\ running <= 1 + n_tokens[p]
          /\ pc[p] = "start" => running <= n_tokens[p]
      BY DEF WithinTokens
    <3>3. ASSUME Release(p) PROVE n_tokens'[p] = Kept(p)
      BY <3>3 DEF Release, TypeOK
    <3>4. ASSUME NEW j \in running_jobs[p], NEW l \in {"wait", "head", "drain"},
                 Reap(p, j, l)
          PROVE  Within(p)
      <4>1. /\ running_jobs'[p] = running_jobs[p] \ {j}
            /\ n_tokens'[p] = n_tokens[p]
            /\ pc'[p] # "start"
        BY <3>4 DEF Reap, Goto, AfterReap, TypeOK, tokens
      <4>2. Cardinality(running_jobs'[p]) = running - 1
        BY <3>1, <4>1, OneLess
      <4> QED
        BY <3>1, <3>2, <4>1, <4>2
    <3>5. CASE WaitOne(p) \/ Drain(p)
      BY <3>4, <3>5 DEF WaitOne, Drain, Exited
    <3>6. CASE Poll(p)
      <4>1. ASSUME Goto(p, "head"),
                   UNCHANGED <<dependencies, lists, failed, tokens, child>>
            PROVE  Within(p)
        BY <3>2, <4>1 DEF Goto, TypeOK, lists, tokens
      <4> QED
        BY <3>4, <3>6, <4>1 DEF Poll, Exited
    <3>7. CASE Schedule(p)
      <4>1. running_jobs' = running_jobs /\ n_tokens'[p] = Kept(p)
        BY <3>3, <3>7 DEF Schedule
      <4>2. running <= 1 + Kept(p)
        BY <3>2, KeptEnough
      <4>3. pc'[p] = "start" => running = 0
        <5>1. pc'[p] = Decide(p, runnable_jobs[p] \cup Ready(p))
          BY <3>7 DEF Schedule, Goto, TypeOK
        <5>2. pc'[p] = "start" => running_jobs[p] = {}
          BY <5>1 DEF Decide
        <5> QED
          BY <5>2, FS_EmptySet
      <4>4. Kept(p) \in Nat
        BY KeptEnough
      <4> QED
        BY <3>1, <4>1, <4>2, <4>3, <4>4
    <3>8. CASE Return(p)
      <4>1. /\ running_jobs' = running_jobs /\ running_jobs[p] = {}
            /\ pc'[p] # "start"
        BY <3>8 DEF Return, Goto, TypeOK, lists
      <4> QED
        BY <3>1, <4>1, FS_EmptySet
    <3>9. CASE Head(p) \/ Select(p) \/ ReadFails(p)
      BY <3>2, <3>9 DEF Head, Select, ReadFails, Goto, TypeOK, lists, tokens
    <3>10. CASE Read(p)
      <4>1. running_jobs' = running_jobs /\ n_tokens'[p] = n_tokens[p] + 1
        BY <3>10 DEF Read, TypeOK, lists
      <4> QED
        BY <3>1, <3>2, <4>1
    <3>11. CASE Start(p)
      <4>1. /\ \/ running_jobs'[p] = running_jobs[p]
               \/ \E j \in Jobs : running_jobs'[p] = running_jobs[p] \cup {j}
            /\ pc[p] = "start" /\ pc'[p] # "start"
            /\ n_tokens'[p] = n_tokens[p]
        BY <3>11 DEF Start, Fronts, Goto, TypeOK, tokens
      <4>2. /\ Cardinality(running_jobs'[p]) \in Nat
            /\ Cardinality(running_jobs'[p]) <= running + 1
        <5>1. CASE running_jobs'[p] = running_jobs[p]
          BY <3>1, <5>1
        <5>2. ASSUME NEW j \in Jobs, running_jobs'[p] = running_jobs[p] \cup {j}
              PROVE  /\ Cardinality(running_jobs'[p]) \in Nat
                     /\ Cardinality(running_jobs'[p]) <= running + 1
          BY <3>1, <5>2, OneMore
        <5> QED
          BY <4>1, <5>1, <5>2
      <4> QED
        BY <3>1, <3>2, <4>1, <4>2
    <3> QED
      BY <1>2, <3>5, <3>6, <3>7, <3>8, <3>9, <3>10, <3>11 DEF Step
  <2> QED
    BY <2>1, <2>2 DEF WithinTokens, HasJobserver
<1>3. ASSUME NEW j \in Jobs, JobExits(j) PROVE WithinTokens'
  BY <1>1, <1>3 DEF JobExits, lists, tokens
<1>4. CASE OtherTakes \/ OtherReturns
  BY <1>1, <1>4 DEF OtherTakes, OtherReturns, lists
<1>5. CASE UNCHANGED vars
  BY <1>1, <1>5 DEF vars, lists, tokens
<1> QED
  BY <1>2, <1>3, <1>4, <1>5 DEF Next

\* Below a jobserver, a process never runs more compilers than it holds tokens
\* for, for any -j, any number of clients and any order of their steps.
THEOREM TokensCoverJobs == Spec => []WithinTokens
<1>1. Init => WithinTokens
  BY FS_EmptySet DEF Init, WithinTokens
<1>2. TypeOK /\ TypeOK' /\ WithinTokens /\ [Next]_vars => WithinTokens'
  BY TokensStep
<1> QED
  BY <1>1, <1>2, TypeCorrect, PTL DEF Spec

-----------------------------------------------------------------------------
(* Dependencies and failures.                                              *)

\* A step that starts a job finds all it waits for completed.
LEMMA DependenciesStep ==
  ASSUME TypeOK, DependenciesBuilt, [Next]_vars
  PROVE  DependenciesBuilt'
<1>1. CASE UNCHANGED <<dependencies, runnable_jobs, running_jobs, completed_jobs>>
  BY <1>1 DEF DependenciesBuilt
<1>2. ASSUME NEW p \in Procs, Step(p) PROVE DependenciesBuilt'
  <2> DEFINE Built(q) == \A j \in runnable_jobs'[q] \cup running_jobs'[q] :
                           dependencies[j] \subseteq completed_jobs'[q]
  <2>1. dependencies' = dependencies
    BY <1>2 DEF Step, Head, WaitOne, Schedule, Select, Read, ReadFails, Poll,
                Start, Drain, Return, Reap
  <2>2. ASSUME NEW q \in Procs, q # p PROVE Built(q)
    BY <1>2, <2>2, OnlyOwnQueues DEF DependenciesBuilt
  <2>3. Built(p)
    <3>1. ASSUME NEW j, NEW l, Reap(p, j, l) PROVE Built(p)
      BY <3>1 DEF Reap, DependenciesBuilt, TypeOK
    <3>2. CASE WaitOne(p) \/ Drain(p)
      BY <3>1, <3>2 DEF WaitOne, Drain
    <3>3. CASE Poll(p)
      BY <3>1, <3>3 DEF Poll, DependenciesBuilt, lists
    <3>4. CASE Schedule(p)
      BY <3>4 DEF Schedule, Ready, DependenciesBuilt, TypeOK
    <3>5. CASE Head(p) \/ Select(p) \/ Read(p) \/ ReadFails(p) \/ Return(p)
      BY <3>5 DEF Head, Select, Read, ReadFails, Return, DependenciesBuilt, lists
    <3>6. CASE Start(p)
      <4>1. PICK j \in runnable_jobs[p] :
              /\ runnable_jobs' = [runnable_jobs EXCEPT ![p] = @ \ {j}]
              /\ running_jobs' \in {running_jobs,
                                    [running_jobs EXCEPT ![p] = @ \cup {j}]}
              /\ completed_jobs' \in {completed_jobs,
                                      [completed_jobs EXCEPT ![p] = @ \cup {NameOf[j]}]}
        BY <3>6 DEF Start, Fronts
      <4> QED
        BY <4>1 DEF DependenciesBuilt, TypeOK
    <3> QED
      BY <1>2, <3>2, <3>3, <3>4, <3>5, <3>6 DEF Step
  <2> QED
    BY <2>1, <2>2, <2>3 DEF DependenciesBuilt
<1>3. ASSUME NEW j \in Jobs, JobExits(j) PROVE DependenciesBuilt'
  BY <1>1, <1>3 DEF JobExits, lists
<1>4. CASE OtherTakes \/ OtherReturns
  BY <1>1, <1>4 DEF OtherTakes, OtherReturns, lists
<1>5. CASE UNCHANGED vars
  BY <1>1, <1>5 DEF vars, lists
<1> QED
  BY <1>2, <1>3, <1>4, <1>5 DEF Next

\* A compiler never runs before everything it depends on was built, for every
\* dependency graph, cyclic ones included.
THEOREM DependenciesFirst == Spec => []DependenciesBuilt
<1>1. Init => DependenciesBuilt
  BY DEF Init, DependenciesBuilt
<1> QED
  BY <1>1, DependenciesStep, TypeCorrect, PTL DEF Spec

\* A process that has seen a failure is past its main loop.
FailureLeavesLoop ==
  \A p \in Procs : failed[p] => pc[p] \in {"drain", "returned", "exited"}

\* A process that has seen a failure never re-enters the loop of run_all.
LEMMA FailureStep ==
  ASSUME TypeOK, FailureLeavesLoop, [Next]_vars
  PROVE  FailureLeavesLoop'
<1>1. CASE UNCHANGED <<failed, pc>>
  BY <1>1 DEF FailureLeavesLoop
<1>2. ASSUME NEW p \in Procs, Step(p) PROVE FailureLeavesLoop'
  <2>1. ASSUME NEW q \in Procs, q # p, failed'[q]
        PROVE  pc'[q] \in {"drain", "returned", "exited"}
    BY <1>2, <2>1, OnlyOwnQueues DEF FailureLeavesLoop
  <2>2. ASSUME failed'[p] PROVE pc'[p] \in {"drain", "returned", "exited"}
    <3>1. ASSUME NEW j \in Exited(p), NEW l, Reap(p, j, l), ~failed[p] \/ l = "drain"
          PROVE  pc'[p] \in {"drain", "returned", "exited"}
      BY <2>2, <3>1 DEF Reap, FailedAfter, AfterReap, Goto, TypeOK, Exited
    <3>2. CASE WaitOne(p)
      BY <3>1, <3>2 DEF WaitOne, FailureLeavesLoop
    <3>3. CASE Drain(p)
      BY <3>1, <3>3 DEF Drain
    <3>4. CASE Poll(p)
      BY <2>2, <3>1, <3>4 DEF Poll, FailureLeavesLoop
    <3>5. CASE Return(p)
      BY <3>5 DEF Return, Goto, TypeOK
    <3>6. CASE Head(p) \/ Schedule(p) \/ Select(p) \/ Read(p) \/ ReadFails(p) \/ Start(p)
      BY <2>2, <3>6 DEF Head, Schedule, Select, Read, ReadFails, Start,
                        FailureLeavesLoop
    <3> QED
      BY <1>2, <3>2, <3>3, <3>4, <3>5, <3>6 DEF Step
  <2> QED
    BY <2>1, <2>2 DEF FailureLeavesLoop
<1>3. ASSUME NEW j \in Jobs, JobExits(j) PROVE FailureLeavesLoop'
  BY <1>1, <1>3 DEF JobExits
<1>4. CASE OtherTakes \/ OtherReturns
  BY <1>1, <1>4 DEF OtherTakes, OtherReturns
<1>5. CASE UNCHANGED vars
  BY <1>1, <1>5 DEF vars
<1> QED
  BY <1>2, <1>3, <1>4, <1>5 DEF Next

\* After a failure nothing is started, for any number of jobs and processes.
THEOREM FailureStopsStarts == Spec => NoStartAfterFailure
<1> DEFINE NoStart == \A p \in Procs : failed[p] => running_jobs'[p] \subseteq running_jobs[p]
<1>1. Init => FailureLeavesLoop
  BY DEF Init, FailureLeavesLoop
<1>2. ASSUME TypeOK, FailureLeavesLoop, Next PROVE NoStart
  <2> SUFFICES ASSUME NEW q \in Procs, failed[q]
               PROVE  running_jobs'[q] \subseteq running_jobs[q]
    OBVIOUS
  <2>1. ASSUME NEW p \in Procs, Step(p)
        PROVE  running_jobs'[q] \subseteq running_jobs[q]
    <3>1. CASE Start(p)
      <4>1. p # q
        BY <1>2, <3>1 DEF Start, FailureLeavesLoop
      <4> QED
        BY <1>2, <2>1, <4>1, OnlyOwnQueues
    <3>2. CASE WaitOne(p) \/ Poll(p) \/ Drain(p)
      <4>1. ASSUME NEW j, NEW l, Reap(p, j, l)
            PROVE  running_jobs'[q] \subseteq running_jobs[q]
        BY <1>2, <4>1 DEF Reap, TypeOK
      <4> QED
        BY <2>1, <3>2, <4>1 DEF WaitOne, Poll, Drain, lists
    <3>3. CASE \/ Head(p) \/ Schedule(p) \/ Select(p) \/ Read(p)
               \/ ReadFails(p) \/ Return(p)
      BY <3>3 DEF Head, Schedule, Select, Read, ReadFails, Return, lists
    <3> QED
      BY <2>1, <3>1, <3>2, <3>3 DEF Step
  <2>2. CASE (\E j \in Jobs : JobExits(j)) \/ OtherTakes \/ OtherReturns
    BY <2>2 DEF JobExits, OtherTakes, OtherReturns, lists
  <2> QED
    BY <1>2, <2>1, <2>2 DEF Next
<1>3. TypeOK /\ FailureLeavesLoop /\ [Next]_vars => [NoStart]_vars
  BY <1>2
<1> QED
  BY <1>1, <1>3, FailureStep, TypeCorrect, PTL DEF Spec, NoStartAfterFailure

-----------------------------------------------------------------------------
(* The ways a step of a process can treat its queues.                      *)

\* Nothing happens to a job.
Keeps == UNCHANGED <<waiting_jobs, runnable_jobs, running_jobs, child>>

\* Jobs become runnable.
Moves(p) ==
  \E R \in SUBSET waiting_jobs[p] :
    /\ waiting_jobs' = [waiting_jobs EXCEPT ![p] = @ \ R]
    /\ runnable_jobs' = [runnable_jobs EXCEPT ![p] = @ \cup R]
    /\ UNCHANGED <<running_jobs, child>>

\* A child is reaped.
Reaps(p) ==
  \E j \in running_jobs[p] :
    /\ child[j] \in {"ok", "bad"}
    /\ running_jobs' = [running_jobs EXCEPT ![p] = @ \ {j}]
    /\ child' = [child EXCEPT ![j] = "reaped"]
    /\ UNCHANGED <<waiting_jobs, runnable_jobs>>

\* A job is taken from the queue, and started unless the run is dry or the
\* spawn fails.
Takes(p) ==
  \E j \in runnable_jobs[p] :
    /\ runnable_jobs' = [runnable_jobs EXCEPT ![p] = @ \ {j}]
    /\ UNCHANGED waiting_jobs
    /\ \/ /\ p \notin DryRun
          /\ running_jobs' = [running_jobs EXCEPT ![p] = @ \cup {j}]
          /\ child' = [child EXCEPT ![j] = "live"]
       \/ UNCHANGED <<running_jobs, child>>

\* The ending of a compiler or a step of another client of the pipe.
Environment == (\E j \in Jobs : JobExits(j)) \/ OtherTakes \/ OtherReturns

\* Each step of a process treats its queues in one of these ways.
LEMMA StepShapes ==
  ASSUME NEW p \in Procs, Step(p)
  PROVE  \/ Keeps
         \/ Schedule(p) /\ Moves(p)
         \/ Reaps(p)
         \/ Start(p) /\ Takes(p)
<1>1. ASSUME NEW j \in Exited(p), NEW l, Reap(p, j, l) PROVE Reaps(p)
  BY <1>1 DEF Reap, Reaps, Exited
<1>2. CASE WaitOne(p) \/ Drain(p)
  BY <1>1, <1>2 DEF WaitOne, Drain
<1>3. CASE Poll(p)
  BY <1>1, <1>3 DEF Poll, Keeps, lists
<1>4. CASE Schedule(p)
  BY <1>4 DEF Schedule, Moves, Ready
<1>5. CASE Start(p)
  BY <1>5 DEF Start, Takes, Fronts
<1>6. CASE Head(p) \/ Select(p) \/ Read(p) \/ ReadFails(p) \/ Return(p)
  BY <1>6 DEF Head, Select, Read, ReadFails, Return, Keeps, lists
<1> QED
  BY <1>2, <1>3, <1>4, <1>5, <1>6 DEF Step

-----------------------------------------------------------------------------
(* Every job is tracked.                                                   *)

\* A process has only its own jobs in its queues.
OwnJobs ==
  \A p \in Procs : \A j \in waiting_jobs[p] \cup runnable_jobs[p] \cup running_jobs[p] :
    Owner[j] = p

\* Where one job of p may be.
Tracked(p, j) ==
  /\ j \in running_jobs[p] <=> child[j] \in {"live", "ok", "bad"}
  /\ j \in waiting_jobs[p] \cup runnable_jobs[p] => child[j] = "none"
  /\ ~(j \in waiting_jobs[p] /\ j \in runnable_jobs[p])

\* The property in terms of single jobs.
LEMMA TrackedJobs ==
  ASSUME TypeOK, OwnJobs
  PROVE  JobsTracked <=> \A p \in Procs : \A j \in Jobs : Owner[j] = p => Tracked(p, j)
<1>1. ASSUME JobsTracked, NEW p \in Procs, NEW j \in Jobs, Owner[j] = p PROVE Tracked(p, j)
  BY <1>1 DEF JobsTracked, Tracked
<1>2. ASSUME \A p \in Procs : \A j \in Jobs : Owner[j] = p => Tracked(p, j)
      PROVE  JobsTracked
  <2>1. \A p \in Procs : \A j \in waiting_jobs[p] : j \in Jobs /\ Owner[j] = p
    BY DEF OwnJobs, TypeOK
  <2> QED
    BY <1>2, <2>1 DEF JobsTracked, Tracked
<1> QED
  BY <1>1, <1>2

\* A step of one process leaves the queues of the others alone.
LEMMA OnlyOwnWaiting ==
  ASSUME TypeOK, NEW p \in Procs, Step(p), NEW q \in Procs, q # p
  PROVE  waiting_jobs'[q] = waiting_jobs[q]
<1>1. waiting_jobs' = waiting_jobs \/ Moves(p)
  BY StepShapes DEF Keeps, Reaps, Takes
<1> QED
  BY <1>1 DEF Moves, TypeOK

\* What one step of p does to a job j of p.
LEMMA TrackedStep ==
  ASSUME TypeOK, OwnJobs, NEW p \in Procs, Step(p), NEW j \in Jobs, Owner[j] = p,
         Tracked(p, j)
  PROVE  Tracked(p, j)'
<1>1. CASE Keeps
  BY <1>1 DEF Keeps, Tracked
<1>2. CASE Moves(p)
  BY <1>2 DEF Moves, Tracked, TypeOK
<1>3. CASE Reaps(p)
  BY <1>3 DEF Reaps, Tracked, TypeOK
<1>4. CASE Takes(p)
  BY <1>4 DEF Takes, Tracked, TypeOK
<1> QED
  BY <1>1, <1>2, <1>3, <1>4, StepShapes

\* A step of p does not touch the child of another process's job.
LEMMA OthersChildren ==
  ASSUME TypeOK, OwnJobs, NEW p \in Procs, Step(p), NEW j \in Jobs, Owner[j] # p
  PROVE  child'[j] = child[j]
<1>1. CASE Keeps \/ Moves(p)
  BY <1>1 DEF Keeps, Moves
<1>2. CASE Reaps(p)
  BY <1>2 DEF Reaps, OwnJobs, TypeOK
<1>3. CASE Takes(p)
  BY <1>3 DEF Takes, OwnJobs, TypeOK
<1> QED
  BY <1>1, <1>2, <1>3, StepShapes

\* No step puts a job into a queue of a process it was not added to.
LEMMA OwnJobsStep ==
  ASSUME TypeOK, OwnJobs, [Next]_vars PROVE OwnJobs'
<1>1. CASE UNCHANGED lists
  BY <1>1 DEF OwnJobs, lists
<1>2. ASSUME NEW p \in Procs, Step(p) PROVE OwnJobs'
  <2>1. CASE Keeps
    BY <2>1 DEF Keeps, OwnJobs
  <2>2. CASE Moves(p)
    BY <2>2 DEF Moves, OwnJobs, TypeOK
  <2>3. CASE Reaps(p)
    BY <2>3 DEF Reaps, OwnJobs, TypeOK
  <2>4. CASE Takes(p)
    BY <2>4 DEF Takes, OwnJobs, TypeOK
  <2> QED
    BY <1>2, <2>1, <2>2, <2>3, <2>4, StepShapes
<1>3. CASE Environment \/ UNCHANGED vars
  BY <1>1, <1>3 DEF Environment, JobExits, OtherTakes, OtherReturns, vars
<1> QED
  BY <1>2, <1>3 DEF Next, Environment

\* No step loses track of a job.
LEMMA TrackedNext ==
  ASSUME TypeOK, OwnJobs, JobsTracked, [Next]_vars, OwnJobs', TypeOK'
  PROVE  JobsTracked'
<1>1. ASSUME NEW q \in Procs, NEW j \in Jobs, Owner[j] = q
      PROVE  Tracked(q, j)'
  <2>1. Tracked(q, j)
    BY <1>1, TrackedJobs
  <2>2. CASE UNCHANGED <<lists, child>>
    BY <2>1, <2>2 DEF Tracked, lists
  <2>3. ASSUME NEW p \in Procs, Step(p) PROVE Tracked(q, j)'
    <3>1. CASE p = q
      BY <1>1, <2>1, <2>3, <3>1, TrackedStep
    <3>2. CASE p # q
      <4>1. child'[j] = child[j]
        BY <1>1, <2>3, <3>2, OthersChildren
      <4>2. /\ waiting_jobs'[q] = waiting_jobs[q] /\ running_jobs'[q] = running_jobs[q]
            /\ runnable_jobs'[q] = runnable_jobs[q]
        BY <2>3, <3>2, OnlyOwnWaiting, OnlyOwnQueues
      <4> QED
        BY <2>1, <4>1, <4>2 DEF Tracked
    <3> QED
      BY <3>1, <3>2
  <2>4. ASSUME NEW k \in Jobs, JobExits(k) PROVE Tracked(q, j)'
    BY <2>1, <2>4 DEF JobExits, Tracked, lists, TypeOK
  <2>5. CASE OtherTakes \/ OtherReturns \/ UNCHANGED vars
    BY <2>2, <2>5 DEF OtherTakes, OtherReturns, vars
  <2> QED
    BY <2>3, <2>4, <2>5 DEF Next
<1>2. \A q \in Procs : \A j \in waiting_jobs'[q] : j \in Jobs /\ Owner[j] = q
  BY DEF OwnJobs, TypeOK
<1> QED
  BY <1>1, <1>2 DEF JobsTracked, Tracked

\* No job runs twice, is forgotten or is run by another process, for any number
\* of jobs and processes, whatever fails or ends early.
THEOREM EveryJobTracked == Spec => [](OwnJobs /\ JobsTracked)
<1>1. Init => OwnJobs /\ JobsTracked
  <2> SUFFICES ASSUME Init PROVE OwnJobs /\ JobsTracked
    OBVIOUS
  <2>1. OwnJobs
    BY DEF Init, OwnJobs
  <2>2. ASSUME NEW p \in Procs, NEW j \in Jobs PROVE Tracked(p, j)
    BY DEF Init, Tracked
  <2> QED
    BY <2>1, <2>2, TypeInit, TrackedJobs
<1>2. TypeOK /\ TypeOK' /\ OwnJobs /\ JobsTracked /\ [Next]_vars => OwnJobs' /\ JobsTracked'
  BY OwnJobsStep, TrackedNext
<1> QED
  BY <1>1, <1>2, TypeCorrect, PTL DEF Spec

-----------------------------------------------------------------------------
(* Failures are reported, and nothing is left behind.                      *)

\* A process that has returned or exited takes no step.
LEMMA Ended ==
  ASSUME NEW p \in Procs, pc[p] \in {"returned", "exited"} PROVE ~Step(p)
  BY DEF Step, Head, WaitOne, Schedule, Select, Read, ReadFails, Poll, Start, Drain, Return

\* Once set, the failure flag stays; names of completed jobs stay too.
LEMMA Monotone ==
  ASSUME TypeOK, NEW p \in Procs, Step(p)
  PROVE  /\ failed[p] => failed'[p]
         /\ completed_jobs[p] \subseteq completed_jobs'[p]
<1>1. ASSUME NEW j \in Exited(p), NEW l, Reap(p, j, l)
      PROVE  /\ failed[p] => failed'[p]
             /\ completed_jobs[p] \subseteq completed_jobs'[p]
  BY <1>1 DEF Reap, FailedAfter, TypeOK
<1>2. CASE WaitOne(p) \/ Drain(p) \/ Poll(p)
  BY <1>1, <1>2 DEF WaitOne, Drain, Poll, lists
<1>3. CASE Start(p)
  BY <1>3 DEF Start, TypeOK
<1>4. CASE Schedule(p)
  BY <1>4 DEF Schedule
<1>5. CASE Head(p) \/ Select(p) \/ Read(p) \/ ReadFails(p) \/ Return(p)
  BY <1>5 DEF Head, Select, Read, ReadFails, Return, lists
<1> QED
  BY <1>2, <1>3, <1>4, <1>5 DEF Step

\* A child is only reaped together with the report of its result.
LEMMA ReapReports ==
  ASSUME TypeOK, NEW p \in Procs, Step(p), NEW j \in Jobs,
         child[j] # "reaped", child'[j] = "reaped"
  PROVE  NameOf[j] \in completed_jobs'[p] \/ failed'[p] \/ pc'[p] = "exited"
<1>1. ASSUME NEW k \in Exited(p), NEW l, Reap(p, k, l)
      PROVE  NameOf[j] \in completed_jobs'[p] \/ failed'[p] \/ pc'[p] = "exited"
  <2>1. k = j /\ child[j] \in {"ok", "bad"}
    BY <1>1 DEF Reap, TypeOK, Exited
  <2>2. CASE child[j] = "ok"
    BY <1>1, <2>1, <2>2 DEF Reap, TypeOK
  <2>3. CASE child[j] = "bad" /\ p \in RunOnce
    BY <1>1, <2>1, <2>3 DEF Reap, AfterReap, Goto, TypeOK
  <2>4. CASE child[j] = "bad" /\ p \notin RunOnce
    BY <1>1, <2>1, <2>4 DEF Reap, FailedAfter, TypeOK
  <2> QED
    BY <2>1, <2>2, <2>3, <2>4
<1>2. CASE WaitOne(p) \/ Drain(p) \/ Poll(p)
  BY <1>1, <1>2 DEF WaitOne, Drain, Poll
<1>3. CASE Start(p)
  BY <1>3 DEF Start, Fronts, TypeOK
<1>4. CASE Head(p) \/ Schedule(p) \/ Select(p) \/ Read(p) \/ ReadFails(p) \/ Return(p)
  BY <1>4 DEF Head, Schedule, Select, Read, ReadFails, Return
<1> QED
  BY <1>2, <1>3, <1>4 DEF Step

\* No step drops a failure.
LEMMA FailureReportedStep ==
  ASSUME TypeOK, OwnJobs, FailureReported, [Next]_vars PROVE FailureReported'
<1> SUFFICES ASSUME NEW q \in Procs, NEW j \in Jobs, Owner[j] = q,
                    child'[j] = "reaped", NameOf[j] \notin completed_jobs'[q]
             PROVE  failed'[q] \/ pc'[q] = "exited"
  BY DEF FailureReported
<1>1. ASSUME UNCHANGED <<lists, failed, pc>>, child[j] = "reaped"
      PROVE  failed'[q] \/ pc'[q] = "exited"
  BY <1>1 DEF FailureReported, lists
<1>2. ASSUME NEW p \in Procs, Step(p) PROVE failed'[q] \/ pc'[q] = "exited"
  <2>1. CASE p # q
    BY <1>2, <2>1, OthersChildren, OnlyOwnQueues DEF FailureReported
  <2>2. CASE p = q /\ child[j] = "reaped"
    BY <1>2, <2>2, Monotone, Ended DEF FailureReported
  <2>3. CASE p = q /\ child[j] # "reaped"
    BY <1>2, <2>3, ReapReports
  <2> QED
    BY <2>1, <2>2, <2>3
<1>3. CASE Environment \/ UNCHANGED vars
  BY <1>1, <1>3 DEF Environment, JobExits, OtherTakes, OtherReturns, vars, TypeOK
<1> QED
  BY <1>2, <1>3 DEF Next, Environment

\* A failed job always makes run_all return false (or the process exit), for
\* any number of failing jobs and any order of their ends.
THEOREM FailuresReported == Spec => []FailureReported
<1>1. Init => FailureReported
  BY DEF Init, FailureReported
<1> QED
  BY <1>1, FailureReportedStep, TypeCorrect, EveryJobTracked, PTL DEF Spec

-----------------------------------------------------------------------------
(* The limit of -j, and what is left when run_all returns.                 *)

\* A dry run starts nothing, only processes with a jobserver ask it, and
\* whoever may start a job is below its limit.
Bounded(p) ==
  /\ p \in DryRun => running_jobs[p] = {}
  /\ ~HasJobserver(p) => m_held_tokens[p] = {}
  /\ pc[p] \in {"select", "read"} => HasJobserver(p)
  /\ pc[p] = "returned" => m_held_tokens[p] = {} /\ running_jobs[p] = {}
  /\ JobLimit(p) > 0 =>
       /\ Cardinality(running_jobs[p]) <= JobLimit(p)
       /\ pc[p] \in {"select", "read", "start"} => Cardinality(running_jobs[p]) < JobLimit(p)

\* The limit is a number.
LEMMA LimitType == ASSUME NEW p \in Procs PROVE JobLimit(p) \in Nat
  BY ConstantsAssumption DEF JobLimit

\* Releasing keeps to the client's own bytes, and leaves none when idle.
LEMMA ReleaseAll ==
  ASSUME TypeOK, TokenLedger, NEW p \in Procs, Release(p), Bounded(p)
  PROVE  /\ \A q \in Procs : q # p => m_held_tokens'[q] = m_held_tokens[q]
         /\ ~HasJobserver(p) => m_held_tokens'[p] = {}
         /\ running_jobs[p] = {} => m_held_tokens'[p] = {}
<1>1. CASE HasJobserver(p)
  <2>1. PICK T \in SUBSET m_held_tokens[p] :
          /\ Cardinality(T) = n_tokens[p] - Kept(p)
          /\ m_held_tokens' = [m_held_tokens EXCEPT ![p] = @ \ T]
    BY <1>1 DEF Release
  <2>2. ASSUME running_jobs[p] = {} PROVE m_held_tokens[p] \ T = {}
    <3>1. Cardinality(T) = Cardinality(m_held_tokens[p])
      BY <2>1, <2>2, KeptEnough DEF TokenLedger, TypeOK
    <3>2. IsFiniteSet(m_held_tokens[p])
      BY Sizes
    <3> QED
      BY <3>1, <3>2, FS_Subset
  <2> QED
    BY <1>1, <2>1, <2>2 DEF TypeOK
<1>2. CASE ~HasJobserver(p)
  BY <1>2 DEF Release, tokens, Bounded
<1> QED
  BY <1>1, <1>2

\* The bytes held by one process do not change in a step of another.
LEMMA OthersTokens ==
  ASSUME TypeOK, NEW p \in Procs, Step(p), NEW q \in Procs, q # p
  PROVE  m_held_tokens'[q] = m_held_tokens[q]
<1>1. CASE Schedule(p) \/ Return(p)
  BY <1>1 DEF Schedule, Return, Release, tokens, TypeOK
<1>2. CASE Read(p)
  BY <1>2 DEF Read, TypeOK
<1>3. CASE UNCHANGED m_held_tokens
  BY <1>3
<1>4. CASE WaitOne(p) \/ Drain(p) \/ Poll(p)
  BY <1>3, <1>4 DEF WaitOne, Drain, Poll, Reap, tokens
<1>5. CASE Head(p) \/ Select(p) \/ ReadFails(p) \/ Start(p)
  BY <1>3, <1>5 DEF Head, Select, ReadFails, Start, tokens
<1> QED
  BY <1>1, <1>2, <1>4, <1>5 DEF Step

\* A step of p keeps p within its bounds.
LEMMA BoundedStep ==
  ASSUME TypeOK, TokenLedger, NEW p \in Procs, Step(p), Bounded(p)
  PROVE  Bounded(p)'
<1> DEFINE running == Cardinality(running_jobs[p])
           limit == JobLimit(p)
<1>1. /\ running \in Nat /\ limit \in Nat /\ IsFiniteSet(running_jobs[p])
      /\ running_jobs[p] = {} => running = 0
  BY Sizes, LimitType
<1>2. ASSUME running_jobs'[p] = running_jobs[p], m_held_tokens'[p] = m_held_tokens[p],
             pc'[p] \notin {"select", "read", "start", "returned"}
      PROVE  Bounded(p)'
  BY <1>2 DEF Bounded, HasJobserver, JobLimit
<1>3. CASE Reaps(p) /\ ~Keeps
  <2>1. PICK j \in running_jobs[p] : running_jobs' = [running_jobs EXCEPT ![p] = @ \ {j}]
    BY <1>3 DEF Reaps
  <2>2. running_jobs'[p] = running_jobs[p] \ {j}
    BY <2>1 DEF TypeOK
  <2>3. Cardinality(running_jobs'[p]) = running - 1
    BY <1>1, <2>2, OneLess
  <2>4. /\ m_held_tokens'[p] = m_held_tokens[p]
        /\ pc'[p] \notin {"select", "read", "start", "returned"}
    <3>1. ASSUME NEW k, NEW l \in {"wait", "head", "drain"}, Reap(p, k, l)
          PROVE  /\ m_held_tokens'[p] = m_held_tokens[p]
                 /\ pc'[p] \notin {"select", "read", "start", "returned"}
      BY <3>1 DEF Reap, AfterReap, Goto, TypeOK, tokens
    <3>2. CASE WaitOne(p) \/ Drain(p)
      BY <3>1, <3>2 DEF WaitOne, Drain
    <3>3. CASE Poll(p)
      BY <1>3, <3>1, <3>3 DEF Poll, Keeps, lists
    <3>4. CASE Head(p) \/ Schedule(p) \/ Select(p) \/ Read(p) \/ ReadFails(p) \/ Return(p)
      BY <2>1, <2>2, <3>4 DEF Head, Schedule, Select, Read, ReadFails, Return, lists
    <3>5. CASE Start(p)
      BY <2>1, <2>2, <3>5 DEF Start, TypeOK
    <3> QED
      BY <3>2, <3>3, <3>4, <3>5 DEF Step
  <2> QED
    BY <1>1, <2>2, <2>3, <2>4 DEF Bounded, HasJobserver, JobLimit
<1>4. CASE Schedule(p)
  <2>1. /\ running_jobs' = running_jobs
        /\ pc'[p] = Decide(p, runnable_jobs[p] \cup Ready(p))
    BY <1>4 DEF Schedule, Goto, TypeOK
  <2>2. /\ pc'[p] # "read" /\ pc'[p] # "returned"
        /\ pc'[p] = "select" => HasJobserver(p)
    BY <2>1 DEF Decide
  <2>3. limit > 0 => running < limit \/ p \in DryRun \/ running_jobs[p] = {}
    BY <1>1, <1>4 DEF Schedule, MustWait, AtLimit
  <2>4. limit > 0 => running < limit
    BY <1>1, <2>3 DEF Bounded
  <2>5. ~HasJobserver(p) => m_held_tokens'[p] = {}
    BY <1>4, ReleaseAll DEF Schedule
  <2> QED
    BY <2>1, <2>2, <2>4, <2>5 DEF Bounded, HasJobserver, JobLimit
<1>5. CASE Select(p)
  BY <1>5 DEF Select, Goto, Bounded, HasJobserver, JobLimit, TypeOK, lists, tokens
<1>6. CASE Read(p)
  BY <1>6 DEF Read, Goto, Bounded, HasJobserver, JobLimit, TypeOK, lists
<1>7. CASE Head(p) \/ ReadFails(p)
  BY <1>2, <1>7 DEF Head, ReadFails, Goto, TypeOK, lists, tokens
<1>8. CASE WaitOne(p) \/ Drain(p)
  <2>1. Reaps(p) /\ ~Keeps
    BY <1>8 DEF WaitOne, Drain, Reap, Reaps, Exited, Keeps, TypeOK
  <2> QED
    BY <1>3, <2>1
<1>9. CASE Poll(p)
  <2>1. CASE Keeps
    BY <1>2, <1>9, <2>1 DEF Poll, Reap, Keeps, Goto, AfterReap, TypeOK, tokens
  <2>2. CASE ~Keeps
    <3>1. Reaps(p)
      BY <1>9, <2>2 DEF Poll, Reap, Reaps, Exited, Keeps, lists
    <3> QED
      BY <1>3, <2>2, <3>1
  <2> QED
    BY <2>1, <2>2
<1>10. CASE Start(p)
  <2>1. /\ pc[p] = "start" /\ m_held_tokens'[p] = m_held_tokens[p]
        /\ pc'[p] \in {"head", "exited"}
        /\ \/ running_jobs'[p] = running_jobs[p]
           \/ p \notin DryRun /\ \E j \in Jobs : running_jobs'[p] = running_jobs[p] \cup {j}
    BY <1>10 DEF Start, Fronts, Goto, TypeOK, tokens
  <2>2. CASE running_jobs'[p] = running_jobs[p]
    BY <1>2, <2>1, <2>2
  <2>3. ASSUME NEW j \in Jobs, running_jobs'[p] = running_jobs[p] \cup {j}, p \notin DryRun
        PROVE  Bounded(p)'
    <3>1. /\ Cardinality(running_jobs'[p]) \in Nat
          /\ Cardinality(running_jobs'[p]) <= running + 1
      BY <1>1, <2>3, OneMore
    <3> QED
      BY <1>1, <2>1, <2>3, <3>1 DEF Bounded, HasJobserver, JobLimit
  <2> QED
    BY <2>1, <2>2, <2>3
<1>11. CASE Return(p)
  <2>1. /\ running_jobs'[p] = {} /\ running_jobs' = running_jobs
        /\ m_held_tokens'[p] = {} /\ pc'[p] = "returned"
    BY <1>11, ReleaseAll DEF Return, Goto, TypeOK, lists
  <2> QED
    BY <2>1 DEF Bounded, HasJobserver, JobLimit
<1> QED
  BY <1>4, <1>5, <1>6, <1>7, <1>8, <1>9, <1>10, <1>11 DEF Step

\* Every process stays within its bounds.
LEMMA BoundsAlways == Spec => [](\A p \in Procs : Bounded(p))
<1>1. Init => \A p \in Procs : Bounded(p)
  <2> SUFFICES ASSUME Init, NEW p \in Procs PROVE Bounded(p)
    OBVIOUS
  <2>1. running_jobs[p] = {} /\ m_held_tokens[p] = {} /\ pc[p] = "head"
    BY DEF Init
  <2>2. Cardinality(running_jobs[p]) = 0
    BY <2>1, FS_EmptySet
  <2>3. JobLimit(p) \in Nat
    BY LimitType
  <2> QED
    BY <2>1, <2>2, <2>3 DEF Bounded
<1>2. TypeOK /\ TokenLedger /\ (\A p \in Procs : Bounded(p)) /\ [Next]_vars
        => (\A p \in Procs : Bounded(p))'
  <2> SUFFICES ASSUME TypeOK, TokenLedger, \A p \in Procs : Bounded(p), [Next]_vars,
                      NEW q \in Procs
               PROVE  Bounded(q)'
    OBVIOUS
  <2>1. CASE UNCHANGED <<running_jobs, m_held_tokens, pc>>
    BY <2>1 DEF Bounded, HasJobserver, JobLimit
  <2>2. ASSUME NEW p \in Procs, Step(p) PROVE Bounded(q)'
    <3>1. CASE p = q
      BY <2>2, <3>1, BoundedStep
    <3>2. CASE p # q
      BY <2>2, <3>2, OnlyOwnQueues, OthersTokens DEF Bounded, HasJobserver, JobLimit
    <3> QED
      BY <3>1, <3>2
  <2>3. CASE Environment \/ UNCHANGED vars
    BY <2>1, <2>3 DEF Environment, JobExits, OtherTakes, OtherReturns, vars, lists, tokens
  <2> QED
    BY <2>2, <2>3 DEF Next, Environment
<1> QED
  BY <1>1, <1>2, TypeCorrect, LedgerCorrect, PTL DEF Spec

\* A process that returned has given all tokens back and reaped every child,
\* also after failures.
THEOREM ReturnsClean == Spec => []CleanReturn
<1>1. (\A p \in Procs : Bounded(p)) => CleanReturn
  BY DEF Bounded, CleanReturn
<1> QED
  BY <1>1, BoundsAlways, PTL

\* No process runs more compilers than -j allows it.
THEOREM LimitKept == Spec => []WithinLimit
<1>1. (\A p \in Procs : Bounded(p)) => WithinLimit
  BY DEF Bounded, WithinLimit
<1> QED
  BY <1>1, BoundsAlways, PTL

-----------------------------------------------------------------------------
(* Success means that everything was built.                                *)

\* Jobs depend on jobs of their own list, and among any jobs one waits for
\* none of the others.
WellOrdered ==
  \A g \in DepGraphs :
    /\ \A j \in Jobs : \A n \in g[j] : \E k \in Jobs : Owner[k] = Owner[j] /\ NameOf[k] = n
    /\ \A C \in SUBSET Jobs : C # {} => \E j \in C : \A k \in C : NameOf[k] \notin g[j]

Accounted(p, j) ==
  j \in waiting_jobs[p] \cup runnable_jobs[p] \cup running_jobs[p]
  \/ NameOf[j] \in completed_jobs[p]

\* Unless something failed, each job is in a queue or built, and past the main
\* loop the queues are empty.
Placed(p) ==
  pc[p] # "exited" /\ ~failed[p] =>
    /\ \A j \in Jobs : Owner[j] = p => Accounted(p, j)
    /\ pc[p] \in {"drain", "returned"} => ~Busy(p)

\* The loop does not end because the rest cannot become runnable.
LEMMA NothingStuck ==
  ASSUME WellOrdered, TypeOK, OwnJobs, dependencies \in DepGraphs, NEW p \in Procs,
         \A j \in Jobs : Owner[j] = p => Accounted(p, j),
         runnable_jobs[p] = {}, running_jobs[p] = {}, Ready(p) = {}
  PROVE  waiting_jobs[p] = {}
<1> SUFFICES ASSUME waiting_jobs[p] # {} PROVE FALSE
  OBVIOUS
<1>1. waiting_jobs[p] \in SUBSET Jobs
  BY DEF TypeOK
<1>2. PICK j \in waiting_jobs[p] : \A k \in waiting_jobs[p] : NameOf[k] \notin dependencies[j]
  BY <1>1 DEF WellOrdered
<1>3. j \in Jobs /\ Owner[j] = p
  BY <1>1, <1>2 DEF OwnJobs
<1>4. ASSUME NEW n \in dependencies[j] PROVE n \in completed_jobs[p]
  <2>1. PICK k \in Jobs : Owner[k] = p /\ NameOf[k] = n
    BY <1>3, <1>4 DEF WellOrdered
  <2> QED
    BY <1>2, <1>4, <2>1 DEF Accounted
<1>5. j \in Ready(p)
  BY <1>2, <1>4 DEF Ready
<1> QED
  BY <1>5

\* What a step of p does to its own jobs.
LEMMA PlacedStep ==
  ASSUME WellOrdered, TypeOK, OwnJobs, NEW p \in Procs, Step(p), Placed(p)
  PROVE  Placed(p)'
<1> SUFFICES ASSUME pc'[p] # "exited", ~failed'[p]
             PROVE  /\ \A j \in Jobs : Owner[j] = p => Accounted(p, j)'
                    /\ pc'[p] \in {"drain", "returned"} => ~Busy(p)'
  BY DEF Placed
<1>1. /\ \A j \in Jobs : Owner[j] = p => Accounted(p, j)
      /\ pc[p] \in {"drain", "returned"} => ~Busy(p)
      /\ pc[p] # "exited"
  BY Ended, Monotone DEF Placed
<1>2. ASSUME UNCHANGED lists, pc'[p] \in {"drain", "returned"} => ~Busy(p)
      PROVE  /\ \A j \in Jobs : Owner[j] = p => Accounted(p, j)'
             /\ pc'[p] \in {"drain", "returned"} => ~Busy(p)'
  BY <1>1, <1>2 DEF lists, Accounted, Busy
<1>3. ASSUME NEW j \in Exited(p), NEW l, Reap(p, j, l), l \in {"wait", "head"} \/ pc[p] = "drain"
      PROVE  /\ \A k \in Jobs : Owner[k] = p => Accounted(p, k)'
             /\ pc'[p] \in {"drain", "returned"} => ~Busy(p)'
  <2>1. l \in {"wait", "head"}
    BY <1>1, <1>3 DEF Busy, Exited
  <2>2. child[j] = "ok" /\ p \notin RunOnce
    <3>1. failed'[p] = FailedAfter(p, j) /\ pc'[p] = AfterReap(p, j, l)
      BY <1>3 DEF Reap, Goto, TypeOK
    <3>2. child[j] \in {"ok", "bad"}
      BY DEF Exited
    <3> QED
      BY <3>1, <3>2 DEF FailedAfter, AfterReap
  <2>3. /\ running_jobs'[p] = running_jobs[p] \ {j}
        /\ completed_jobs'[p] = completed_jobs[p] \cup {NameOf[j]}
        /\ UNCHANGED <<waiting_jobs, runnable_jobs>>
        /\ pc'[p] = l
    BY <1>3, <2>2 DEF Reap, Goto, AfterReap, TypeOK
  <2> QED
    BY <1>1, <2>1, <2>3 DEF Accounted
<1>4. CASE WaitOne(p) \/ Drain(p) \/ Poll(p)
  <2>1. CASE Poll(p) /\ UNCHANGED lists
    <3>1. pc'[p] \notin {"drain", "returned"} \/ \E j \in Exited(p) : Reap(p, j, "head")
      BY <2>1 DEF Poll, Goto, TypeOK
    <3> QED
      BY <1>2, <1>3, <2>1, <3>1
  <2>2. CASE ~(Poll(p) /\ UNCHANGED lists)
    <3>1. \E j \in Exited(p), l \in {"wait", "head", "drain"} :
            Reap(p, j, l) /\ (l \in {"wait", "head"} \/ pc[p] = "drain")
      BY <1>4, <2>2 DEF WaitOne, Drain, Poll, lists
    <3> QED
      BY <1>3, <3>1
  <2> QED
    BY <2>1, <2>2
<1>5. CASE Head(p) \/ Return(p)
  BY <1>1, <1>2, <1>5 DEF Head, Return, Goto, TypeOK
<1>6. CASE Select(p) \/ Read(p) \/ ReadFails(p)
  <2>1. UNCHANGED lists /\ pc'[p] \in {"read", "poll", "start"}
    BY <1>6 DEF Select, Read, ReadFails, Goto, TypeOK
  <2> QED
    BY <1>2, <2>1
<1>7. CASE Start(p)
  <2>1. pc'[p] = "head"
    BY <1>7 DEF Start, Goto, TypeOK
  <2>2. PICK j \in Fronts(p) :
          /\ runnable_jobs'[p] = runnable_jobs[p] \ {j}
          /\ waiting_jobs' = waiting_jobs
          /\ \/ /\ completed_jobs'[p] = completed_jobs[p] \cup {NameOf[j]}
                /\ running_jobs' = running_jobs
             \/ /\ running_jobs'[p] = running_jobs[p] \cup {j}
                /\ completed_jobs' = completed_jobs
    BY <1>7, <2>1 DEF Start, Goto, TypeOK
  <2> QED
    BY <1>1, <2>1, <2>2 DEF Accounted
<1>8. CASE Schedule(p)
  <2>1. /\ waiting_jobs'[p] = waiting_jobs[p] \ Ready(p)
        /\ runnable_jobs'[p] = runnable_jobs[p] \cup Ready(p)
        /\ UNCHANGED <<running_jobs, completed_jobs>>
        /\ pc'[p] = Decide(p, runnable_jobs[p] \cup Ready(p))
    BY <1>8 DEF Schedule, Goto, TypeOK
  <2>2. pc'[p] \in {"drain", "returned"} =>
          /\ runnable_jobs[p] = {} /\ Ready(p) = {} /\ running_jobs[p] = {}
    BY <2>1 DEF Decide
  <2>3. pc'[p] \in {"drain", "returned"} => ~Busy(p)'
    <3>1. dependencies \in DepGraphs
      BY DEF TypeOK
    <3> QED
      BY <1>1, <2>1, <2>2, <3>1, NothingStuck DEF Busy
  <2> QED
    BY <1>1, <2>1, <2>3 DEF Accounted, Ready
<1> QED
  BY <1>4, <1>5, <1>6, <1>7, <1>8 DEF Step

\* run_all returns true only after it built every job, for every acyclic graph.
THEOREM SuccessIsComplete == ASSUME WellOrdered PROVE Spec => []SuccessMeansAllBuilt
<1>1. Init => \A p \in Procs : Placed(p)
  BY DEF Init, Placed, Accounted
<1>2. TypeOK /\ OwnJobs /\ (\A p \in Procs : Placed(p)) /\ [Next]_vars
        => (\A p \in Procs : Placed(p))'
  <2> SUFFICES ASSUME TypeOK, OwnJobs, \A p \in Procs : Placed(p), [Next]_vars,
                      NEW q \in Procs
               PROVE  Placed(q)'
    OBVIOUS
  <2>1. CASE UNCHANGED <<lists, failed, pc>>
    BY <2>1 DEF Placed, Accounted, Busy, lists
  <2>2. ASSUME NEW p \in Procs, Step(p) PROVE Placed(q)'
    <3>1. CASE p = q
      BY <2>2, <3>1, PlacedStep
    <3>2. CASE p # q
      BY <2>2, <3>2, OnlyOwnQueues, OnlyOwnWaiting DEF Placed, Accounted, Busy
    <3> QED
      BY <3>1, <3>2
  <2>3. CASE Environment \/ UNCHANGED vars
    BY <2>1, <2>3 DEF Environment, JobExits, OtherTakes, OtherReturns, vars, lists
  <2> QED
    BY <2>2, <2>3 DEF Next, Environment
<1>3. (\A p \in Procs : Placed(p)) => SuccessMeansAllBuilt
  BY DEF Placed, Accounted, Busy, SuccessMeansAllBuilt
<1> QED
  BY <1>1, <1>2, <1>3, TypeCorrect, EveryJobTracked, PTL DEF Spec

-----------------------------------------------------------------------------
(* Counting compilers: each has a seat, a token's or a process's own.      *)

\* A set that is no larger than another can be mapped into it.
LEMMA Fits ==
  ASSUME NEW S, NEW T, IsFiniteSet(S), IsFiniteSet(T), Cardinality(S) <= Cardinality(T)
  PROVE  Injection(S, T) # {}
<1> DEFINE m == Cardinality(S)
           n == Cardinality(T)
<1>1. m \in Nat /\ n \in Nat /\ ExistsBijection(1..m, S) /\ ExistsBijection(1..n, T)
  BY FS_CardinalityType
<1>2. ExistsInjection(S, 1..m) /\ ExistsInjection(1..n, T)
  BY <1>1, Fun_ExistsBijEquiv
<1>3. ExistsInjection(1..m, 1..n)
  BY <1>1, Fun_NatInjLeq
<1>4. ExistsInjection(S, T)
  BY <1>2, <1>3, Fun_ExistsInjTransitive
<1> QED
  BY <1>4, Fun_ExistsInj

TokenSeats(T) == { <<1, t>> : t \in T }
OwnSeats(P) == { <<0, p>> : p \in P }

\* Seats are counted by what they belong to.
LEMMA SeatCounts ==
  ASSUME NEW T, NEW P, IsFiniteSet(T), IsFiniteSet(P)
  PROVE  /\ IsFiniteSet(TokenSeats(T) \cup OwnSeats(P))
         /\ Cardinality(TokenSeats(T) \cup OwnSeats(P)) = Cardinality(T) + Cardinality(P)
<1>1. IsFiniteSet(TokenSeats(T)) /\ Cardinality(TokenSeats(T)) = Cardinality(T)
  <2> DEFINE f == [t \in T |-> <<1, t>>]
  <2>1. f \in Bijection(T, TokenSeats(T))
    BY Fun_IsBij DEF TokenSeats
  <2>2. ExistsBijection(T, TokenSeats(T))
    BY <2>1, Fun_ExistsBij
  <2> QED
    BY <2>2, FS_Bijection
<1>2. IsFiniteSet(OwnSeats(P)) /\ Cardinality(OwnSeats(P)) = Cardinality(P)
  <2> DEFINE f == [p \in P |-> <<0, p>>]
  <2>1. f \in Bijection(P, OwnSeats(P))
    BY Fun_IsBij DEF OwnSeats
  <2>2. ExistsBijection(P, OwnSeats(P))
    BY <2>1, Fun_ExistsBij
  <2> QED
    BY <2>2, FS_Bijection
<1>3. TokenSeats(T) \cap OwnSeats(P) = {}
  BY DEF TokenSeats, OwnSeats
<1>4. Cardinality(TokenSeats(T) \cap OwnSeats(P)) = 0
  BY <1>3, FS_EmptySet
<1>5. /\ IsFiniteSet(TokenSeats(T) \cup OwnSeats(P))
      /\ Cardinality(TokenSeats(T) \cup OwnSeats(P)) =
           Cardinality(TokenSeats(T)) + Cardinality(OwnSeats(P))
             - Cardinality(TokenSeats(T) \cap OwnSeats(P))
  BY <1>1, <1>2, FS_Union
<1>6. Cardinality(T) \in Nat /\ Cardinality(P) \in Nat
  BY FS_CardinalityType
<1> QED
  BY <1>1, <1>2, <1>4, <1>5, <1>6

\* If every process has seats of its own for its compilers, together they need
\* no more than there are.
LEMMA Seated ==
  ASSUME TypeOK, OwnJobs, NEW All, IsFiniteSet(All), NEW seat \in [Procs -> SUBSET All],
         \A p, q \in Procs : p # q => seat[p] \cap seat[q] = {},
         \A p \in Procs : Cardinality(running_jobs[p]) <= Cardinality(seat[p])
  PROVE  Cardinality(Active) <= Cardinality(All)
<1> DEFINE G == [p \in Procs |-> CHOOSE g \in Injection(running_jobs[p], seat[p]) : TRUE]
<1>1. \A p \in Procs : G[p] \in Injection(running_jobs[p], seat[p])
  <2> SUFFICES ASSUME NEW p \in Procs PROVE Injection(running_jobs[p], seat[p]) # {}
    OBVIOUS
  <2>1. IsFiniteSet(running_jobs[p])
    BY Sizes
  <2>2. IsFiniteSet(seat[p])
    BY FS_Subset
  <2> QED
    BY <2>1, <2>2, Fits
<1>2. \A p \in Procs : /\ G[p] \in [running_jobs[p] -> seat[p]]
                       /\ \A a, b \in running_jobs[p] : G[p][a] = G[p][b] => a = b
  BY <1>1, Fun_InjectionProperties
<1> HIDE DEF G
<1>3. \A j \in Active : Owner[j] \in Procs /\ j \in running_jobs[Owner[j]]
  BY DEF Active, OwnJobs, TypeOK
<1> DEFINE f == [j \in Active |-> G[Owner[j]][j]]
<1>4. \A j \in Active : f[j] \in seat[Owner[j]]
  BY <1>2, <1>3
<1>5. f \in [Active -> All]
  BY <1>3, <1>4
<1>6. \A a, b \in Active : f[a] = f[b] => a = b
  <2> SUFFICES ASSUME NEW a \in Active, NEW b \in Active, f[a] = f[b] PROVE a = b
    OBVIOUS
  <2>1. Owner[a] = Owner[b]
    BY <1>3, <1>4
  <2> QED
    BY <1>2, <1>3, <2>1
<1>7. f \in Injection(Active, All)
  BY <1>5, <1>6, Fun_IsInj
<1> QED
  BY <1>7, FS_Injection

\* The compilers of one process have a seat each: its tokens and its own; the
\* last is free when it is about to start another.
LEMMA Room ==
  ASSUME TypeOK, TokenLedger, WithinTokens, NEW p \in Procs, Bounded(p)
  PROVE  /\ Cardinality(running_jobs[p]) <= Cardinality(m_held_tokens[p]) + 1
         /\ pc[p] = "start" => Cardinality(running_jobs[p]) <= Cardinality(m_held_tokens[p])
<1>1. /\ Cardinality(running_jobs[p]) \in Nat /\ Cardinality(m_held_tokens[p]) \in Nat
      /\ running_jobs[p] = {} => Cardinality(running_jobs[p]) = 0
  BY Sizes
<1>2. CASE HasJobserver(p)
  BY <1>1, <1>2 DEF WithinTokens, TokenLedger
<1>3. CASE ~HasJobserver(p) /\ p \in DryRun
  BY <1>1, <1>3 DEF Bounded
<1>4. CASE ~HasJobserver(p) /\ p \notin DryRun
  <2>1. NumJobs[p] \in Nat
    BY ConstantsAssumption
  <2>2. JobLimit(p) = 1
    BY <1>4, <2>1 DEF JobLimit, HasJobserver
  <2> QED
    BY <1>1, <2>2 DEF Bounded
<1> QED
  BY <1>2, <1>3, <1>4

\* All compilers together have a seat each.
LEMMA Crowd ==
  ASSUME TypeOK, OwnJobs, TokenLedger, WithinTokens, \A p \in Procs : Bounded(p)
  PROVE  /\ Cardinality(Active) <= Cardinality(Tokens) + Cardinality(Procs)
         /\ \A p \in Procs : pc[p] = "start" =>
              Cardinality(Active) < Cardinality(Tokens) + Cardinality(Procs)
<1> DEFINE All == TokenSeats(Tokens) \cup OwnSeats(Procs)
           Own(p) == TokenSeats(m_held_tokens[p]) \cup OwnSeats({p})
<1>1. /\ IsFiniteSet(All) /\ Cardinality(All) = Cardinality(Tokens) + Cardinality(Procs)
      /\ Cardinality(All) \in Nat
  BY ConstantsAssumption, SeatCounts, FS_CardinalityType
<1>2. ASSUME NEW p \in Procs
      PROVE  /\ m_held_tokens[p] \subseteq Tokens /\ IsFiniteSet(m_held_tokens[p])
             /\ Cardinality(Own(p)) = Cardinality(m_held_tokens[p]) + 1
             /\ Cardinality(TokenSeats(m_held_tokens[p])) = Cardinality(m_held_tokens[p])
  <2>1. m_held_tokens[p] \subseteq Tokens /\ IsFiniteSet(m_held_tokens[p])
    BY Sizes DEF TypeOK
  <2>2. IsFiniteSet({p}) /\ Cardinality({p}) = 1
    BY FS_Singleton
  <2>3. Cardinality(Own(p)) = Cardinality(m_held_tokens[p]) + 1
    BY <2>1, <2>2, SeatCounts
  <2>4. TokenSeats(m_held_tokens[p]) = TokenSeats(m_held_tokens[p]) \cup OwnSeats({})
    BY DEF OwnSeats
  <2>5. Cardinality(TokenSeats(m_held_tokens[p])) = Cardinality(m_held_tokens[p]) + 0
    BY <2>1, <2>4, SeatCounts, FS_EmptySet
  <2>6. Cardinality(m_held_tokens[p]) \in Nat
    BY Sizes
  <2> QED
    BY <2>1, <2>3, <2>5, <2>6
<1>3. \A p, q \in Procs : p # q => Own(p) \cap Own(q) = {}
  BY DEF TokenLedger, TokenSeats, OwnSeats
<1>4. \A p \in Procs : Own(p) \subseteq All
  BY <1>2 DEF TokenSeats, OwnSeats
<1>5. Cardinality(Active) <= Cardinality(All)
  <2> DEFINE seat == [p \in Procs |-> Own(p)]
  <2>1. seat \in [Procs -> SUBSET All]
    BY <1>4
  <2>2. \A p \in Procs : Cardinality(running_jobs[p]) <= Cardinality(seat[p])
    BY <1>2, Room
  <2>3. \A p, q \in Procs : p # q => seat[p] \cap seat[q] = {}
    BY <1>3
  <2> HIDE DEF seat, All
  <2> QED
    BY <1>1, <2>1, <2>2, <2>3, Seated
<1>6. ASSUME NEW p \in Procs, pc[p] = "start"
      PROVE  Cardinality(Active) < Cardinality(All)
  <2> DEFINE Rest == All \ {<<0, p>>}
             seat == [q \in Procs |-> IF q = p THEN TokenSeats(m_held_tokens[p]) ELSE Own(q)]
  <2>1. IsFiniteSet(Rest) /\ Cardinality(Rest) = Cardinality(All) - 1
    <3>1. <<0, p>> \in All
      BY DEF OwnSeats
    <3> QED
      BY <1>1, <3>1, FS_RemoveElement
  <2>2. \A q \in Procs : seat[q] \subseteq Own(q)
    OBVIOUS
  <2>3. seat \in [Procs -> SUBSET Rest]
    <3>1. \A q \in Procs : <<0, p>> \notin seat[q]
      BY DEF TokenSeats, OwnSeats
    <3> QED
      BY <1>4, <2>2, <3>1
  <2>4. \A q, r \in Procs : q # r => seat[q] \cap seat[r] = {}
    BY <1>3, <2>2
  <2>5. \A q \in Procs : Cardinality(running_jobs[q]) <= Cardinality(seat[q])
    BY <1>2, <1>6, Room
  <2> HIDE DEF seat, Rest, All
  <2>6. Cardinality(Active) <= Cardinality(Rest)
    BY <2>1, <2>3, <2>4, <2>5, Seated
  <2>7. IsFiniteSet(Active) /\ Cardinality(Active) \in Nat
    <3>1. Active \subseteq Jobs
      BY DEF Active, TypeOK
    <3> QED
      BY <3>1, ConstantsAssumption, FS_Subset, FS_CardinalityType
  <2> QED
    BY <1>1, <2>1, <2>6, <2>7
<1> QED
  BY <1>1, <1>5, <1>6

\* However many minicargo processes share a jobserver, the machine runs at
\* most one compiler per token and one per process.
THEOREM ParallelismBounded == Spec => []GlobalParallelism
<1>1. TypeOK /\ OwnJobs /\ TokenLedger /\ WithinTokens /\ (\A p \in Procs : Bounded(p))
        => GlobalParallelism
  BY Crowd DEF Active, GlobalParallelism
<1> QED
  BY <1>1, TypeCorrect, EveryJobTracked, LedgerCorrect, TokensCoverJobs, BoundsAlways, PTL

-----------------------------------------------------------------------------
(* The runner implements the schedule.                                     *)

abstract == <<dependencies, Begun, Active, completed_jobs, Broken>>

\* What the refinement rests on, all shown above.
Sound ==
  /\ TypeOK /\ OwnJobs /\ JobsTracked /\ DependenciesBuilt
  /\ FailureReported /\ FailureLeavesLoop
  /\ TokenLedger /\ WithinTokens /\ \A p \in Procs : Bounded(p)

\* It always holds.
LEMMA SoundAlways == Spec => []Sound
<1>1. Init => FailureLeavesLoop
  BY DEF Init, FailureLeavesLoop
<1>2. Spec => []FailureLeavesLoop
  BY <1>1, FailureStep, TypeCorrect, PTL DEF Spec
<1> QED
  BY <1>2, TypeCorrect, EveryJobTracked, DependenciesFirst, FailuresReported,
     LedgerCorrect, TokensCoverJobs, BoundsAlways, PTL DEF Sound

\* A step that leaves queues, names and failures alone is a stutter.
LEMMA Stutters ==
  ASSUME UNCHANGED <<dependencies, running_jobs, completed_jobs>>,
         \A p \in Procs : waiting_jobs'[p] \cup runnable_jobs'[p]
                            = waiting_jobs[p] \cup runnable_jobs[p],
         \A p \in Procs : Fails(p)' <=> Fails(p)
  PROVE  UNCHANGED abstract
<1>1. Begun' = Begun
  BY DEF Begun
<1>2. Active' = Active
  BY DEF Active
<1>3. Broken' = Broken
  BY DEF Broken
<1> QED
  BY <1>1, <1>2, <1>3 DEF abstract

\* Only a step of a process or the reaping of its children makes it fail.
LEMMA OthersFail ==
  ASSUME Sound, NEW p \in Procs, Step(p), NEW q \in Procs, q # p
  PROVE  Fails(q)' <=> Fails(q)
<1>1. \A j \in Jobs : Owner[j] = q => child'[j] = child[j]
  BY OthersChildren DEF Sound
<1>2. failed'[q] = failed[q] /\ completed_jobs'[q] = completed_jobs[q]
  BY OnlyOwnQueues DEF Sound
<1> QED
  BY <1>1, <1>2 DEF Fails

\* A process that can still take a step has failed only if it knows.
LEMMA KnowsFailure ==
  ASSUME Sound, NEW p \in Procs, pc[p] # "exited"
  PROVE  Fails(p) <=> failed[p]
  BY DEF Sound, FailureReported, Fails

\* Reaping a child finishes its job.
LEMMA ReapFinishes ==
  ASSUME Sound, NEW p \in Procs, Step(p), NEW j \in Exited(p), NEW l, Reap(p, j, l)
  PROVE  Schedules!Finish(j)
<1> USE DEF Sound
<1>1. j \in running_jobs[p] /\ j \in Jobs /\ Owner[j] = p /\ child[j] \in {"ok", "bad"}
  BY DEF Exited, OwnJobs, TypeOK
<1>2. j \in Active /\ Active' = Active \ {j}
  <2>1. \A q \in Procs : q # p => j \notin running_jobs[q]
    BY <1>1 DEF OwnJobs
  <2>2. running_jobs' = [running_jobs EXCEPT ![p] = @ \ {j}]
    BY DEF Reap
  <2>3. /\ running_jobs'[p] = running_jobs[p] \ {j}
        /\ \A q \in Procs : q # p => running_jobs'[q] = running_jobs[q]
    BY <2>2 DEF TypeOK
  <2> QED
    BY <1>1, <2>1, <2>3 DEF Active
<1>3. Begun' = Begun /\ dependencies' = dependencies
  BY DEF Begun, Reap
<1>4. pc[p] # "exited"
  BY Ended
<1>5. Fails(p) <=> failed[p]
  BY <1>4, KnowsFailure
<1>6. \A q \in Procs : q # p => (Fails(q)' <=> Fails(q))
  BY OthersFail
<1>7. child' = [child EXCEPT ![j] = "reaped"] /\ failed' = [failed EXCEPT ![p] = FailedAfter(p, j)]
  BY DEF Reap
<1>8. CASE child[j] = "ok"
  <2>1. completed_jobs' = [completed_jobs EXCEPT ![p] = @ \cup {NameOf[j]}]
    BY <1>8 DEF Reap
  <2>2. failed'[p] = failed[p]
    BY <1>7, <1>8 DEF FailedAfter, TypeOK
  <2>3. /\ NameOf[j] \in completed_jobs'[p]
        /\ completed_jobs[p] \subseteq completed_jobs'[p]
        /\ \A k \in Jobs : k # j => child'[k] = child[k]
    BY <1>1, <1>7, <2>1 DEF TypeOK
  <2>4. Fails(p)' <=> Fails(p)
    BY <1>5, <2>2, <2>3 DEF Fails
  <2>5. Broken' = Broken
    BY <1>6, <2>4 DEF Broken
  <2> QED
    BY <1>1, <1>2, <1>3, <2>1, <2>5 DEF Schedules!Finish
<1>9. CASE child[j] = "bad"
  <2>1. completed_jobs' = completed_jobs
    BY <1>9 DEF Reap
  <2>2. child'[j] = "reaped" /\ \A k \in Jobs : k # j => child'[k] = child[k]
    BY <1>1, <1>7 DEF TypeOK
  <2>3. failed'[p] = (failed[p] \/ p \notin RunOnce)
    BY <1>7, <1>9 DEF FailedAfter, TypeOK
  <2>4. CASE Fails(p)'
    <3>1. Broken' = Broken \cup {p}
      BY <1>6, <2>4 DEF Broken
    <3> QED
      BY <1>1, <1>2, <1>3, <2>1, <3>1 DEF Schedules!Finish
  <2>5. CASE ~Fails(p)'
    <3>1. NameOf[j] \in completed_jobs[p] /\ ~failed[p]
      BY <1>1, <2>1, <2>2, <2>3, <2>5 DEF Fails
    <3>2. Broken' = Broken
      BY <1>5, <1>6, <2>5, <3>1 DEF Broken
    <3>3. completed_jobs' = [completed_jobs EXCEPT ![p] = @ \cup {NameOf[j]}]
      BY <2>1, <3>1 DEF TypeOK
    <3> QED
      BY <1>1, <1>2, <1>3, <3>2, <3>3 DEF Schedules!Finish
  <2> QED
    BY <2>4, <2>5
<1> QED
  BY <1>1, <1>8, <1>9

\* Taking a job from the queue begins it, fails to, or pretends to.
LEMMA StartBegins ==
  ASSUME Sound, NEW p \in Procs, Start(p)
  PROVE  \E j \in Jobs : Schedules!Begin(j) \/ Schedules!Misfire(j) \/ Schedules!Pretend(j)
<1> USE DEF Sound
<1>1. PICK j \in Fronts(p) :
        /\ runnable_jobs' = [runnable_jobs EXCEPT ![p] = @ \ {j}]
        /\ IF p \in DryRun
           THEN /\ completed_jobs' = [completed_jobs EXCEPT ![p] = @ \cup {NameOf[j]}]
                /\ UNCHANGED <<running_jobs, child>>
           ELSE /\ UNCHANGED completed_jobs
                /\ \/ /\ running_jobs' = [running_jobs EXCEPT ![p] = @ \cup {j}]
                      /\ child' = [child EXCEPT ![j] = "live"]
                   \/ UNCHANGED <<running_jobs, child>>
  BY DEF Start
<1>2. /\ pc[p] = "start" /\ Step(p)
      /\ UNCHANGED <<dependencies, waiting_jobs, failed>>
  BY DEF Start, Step
<1>3. j \in Jobs /\ j \in runnable_jobs[p] /\ Owner[j] = p
  BY DEF Fronts, OwnJobs, TypeOK
<1>4. child[j] = "none" /\ j \notin waiting_jobs[p]
  BY <1>3 DEF JobsTracked
<1>5. j \notin Begun /\ Begun' = Begun \cup {j}
  <2>1. \A q \in Procs : q # p => j \notin waiting_jobs[q] \cup runnable_jobs[q]
    BY <1>3 DEF OwnJobs
  <2>2. /\ runnable_jobs'[p] = runnable_jobs[p] \ {j}
        /\ \A q \in Procs : q # p => runnable_jobs'[q] = runnable_jobs[q]
    BY <1>1 DEF TypeOK
  <2> QED
    BY <1>2, <1>3, <1>4, <2>1, <2>2 DEF Begun
<1>6. ~Fails(p)
  BY <1>2, KnowsFailure DEF FailureLeavesLoop
<1>7. Schedules!MayBegin(j)
  BY <1>3, <1>5, <1>6 DEF Schedules!MayBegin, DependenciesBuilt, Broken
<1>8. ~Fails(p)'
  <2>1. \A k \in Jobs : child'[k] = "reaped" => child[k] = "reaped"
    BY <1>1, <1>3 DEF TypeOK
  <2>2. completed_jobs[p] \subseteq completed_jobs'[p]
    BY <1>1 DEF TypeOK
  <2> QED
    BY <1>2, <1>6, <2>1, <2>2 DEF Fails
<1>9. Broken' = Broken
  BY <1>2, <1>6, <1>8, OthersFail DEF Broken
<1>10. CASE p \in DryRun
  <2>1. Active' = Active
    BY <1>1, <1>10 DEF Active
  <2> QED
    BY <1>1, <1>2, <1>3, <1>5, <1>7, <1>9, <1>10, <2>1 DEF Schedules!Pretend
<1>11. CASE p \notin DryRun /\ UNCHANGED running_jobs
  <2>1. Active' = Active
    BY <1>11 DEF Active
  <2> QED
    BY <1>1, <1>2, <1>3, <1>5, <1>7, <1>9, <1>11, <2>1 DEF Schedules!Misfire
<1>12. CASE p \notin DryRun /\ running_jobs' = [running_jobs EXCEPT ![p] = @ \cup {j}]
  <2>1. /\ running_jobs'[p] = running_jobs[p] \cup {j}
        /\ \A q \in Procs : q # p => running_jobs'[q] = running_jobs[q]
    BY <1>12 DEF TypeOK
  <2>2. Active' = Active \cup {j}
    BY <2>1 DEF Active
  <2>3. Cardinality(Active) < Cardinality(Tokens) + Cardinality(Procs)
    BY <1>2, Crowd
  <2>4. Schedules!Cardinality(Active) = Cardinality(Active)
    BY DEF Schedules!Cardinality, Cardinality
  <2> QED
    BY <1>1, <1>2, <1>3, <1>5, <1>7, <1>9, <1>12, <2>2, <2>3, <2>4 DEF Schedules!Begin
<1> QED
  BY <1>1, <1>10, <1>11, <1>12

\* Every step of the runner, of its compilers and of make is a step of the
\* schedule or a stutter.
LEMMA StepImplements ==
  ASSUME Sound, [Next]_vars PROVE [Schedules!Next]_abstract
<1>1. ASSUME UNCHANGED <<dependencies, lists, failed, child>> PROVE UNCHANGED abstract
  BY <1>1, Stutters DEF Fails, lists
<1>2. ASSUME NEW p \in Procs, Step(p) PROVE [Schedules!Next]_abstract
  <2>1. ASSUME NEW j \in Exited(p), NEW l, Reap(p, j, l) PROVE Schedules!Next
    <3>1. j \in Jobs
      BY DEF Exited, Sound, TypeOK
    <3> QED
      BY <1>2, <2>1, <3>1, ReapFinishes DEF Schedules!Next
  <2>2. CASE WaitOne(p) \/ Drain(p)
    BY <2>1, <2>2 DEF WaitOne, Drain
  <2>3. CASE Poll(p)
    BY <1>1, <2>1, <2>3 DEF Poll
  <2>4. CASE Start(p)
    BY <2>4, StartBegins DEF Schedules!Next
  <2>5. CASE Schedule(p)
    <3>1. \A q \in Procs : waiting_jobs'[q] \cup runnable_jobs'[q]
                             = waiting_jobs[q] \cup runnable_jobs[q]
      BY <2>5 DEF Schedule, Ready, Sound, TypeOK
    <3>2. UNCHANGED <<dependencies, running_jobs, completed_jobs, failed, child>>
      BY <2>5 DEF Schedule
    <3> QED
      BY <3>1, <3>2, Stutters DEF Fails
  <2>6. CASE Head(p) \/ Select(p) \/ Read(p) \/ ReadFails(p) \/ Return(p)
    BY <1>1, <2>6 DEF Head, Select, Read, ReadFails, Return
  <2> QED
    BY <1>2, <2>2, <2>3, <2>4, <2>5, <2>6 DEF Step
<1>3. ASSUME NEW k \in Jobs, JobExits(k) PROVE UNCHANGED abstract
  <2>1. \A j \in Jobs : child'[j] = "reaped" <=> child[j] = "reaped"
    BY <1>3 DEF JobExits, Sound, TypeOK
  <2>2. UNCHANGED <<dependencies, lists, failed>>
    BY <1>3 DEF JobExits
  <2> QED
    BY <2>1, <2>2, Stutters DEF Fails, lists
<1>4. CASE OtherTakes \/ OtherReturns \/ UNCHANGED vars
  BY <1>1, <1>4 DEF OtherTakes, OtherReturns, vars
<1> QED
  BY <1>2, <1>3, <1>4 DEF Next

\* The runner, with its queues, waits, time-outs and tokens, implements the
\* abstract schedule, for all processes, jobs, tokens, graphs and options.
THEOREM RunnerImplementsSchedule == Spec => ImplementsSchedule
<1>1. Init => Schedules!Init
  <2> SUFFICES ASSUME Init PROVE Schedules!Init
    OBVIOUS
  <2>1. Begun = {}
    <3>1. \A j \in Jobs : Owner[j] \in Procs /\ j \in waiting_jobs[Owner[j]]
      BY ConstantsAssumption DEF Init
    <3> QED
      BY <3>1 DEF Begun
  <2>2. Active = {}
    BY DEF Init, Active
  <2>3. Broken = {}
    BY DEF Init, Broken, Fails
  <2> QED
    BY <2>1, <2>2, <2>3 DEF Init, Schedules!Init
<1>2. Sound /\ [Next]_vars => [Schedules!Next]_(Schedules!vars)
  BY StepImplements DEF abstract, Schedules!vars
<1> QED
  BY <1>1, <1>2, SoundAlways, PTL DEF Spec, ImplementsSchedule, Schedules!Spec

=============================================================================
