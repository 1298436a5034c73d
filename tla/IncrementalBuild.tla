-------------------------- MODULE IncrementalBuild --------------------------
(***************************************************************************)
(* What minicargo rebuilds: BuildList::build decides from file timestamps  *)
(* which jobs are dirty and what they wait for (tools/minicargo/build.cpp),*)
(* and the job runner executes them, some of which fail.  Between builds   *)
(* sources are edited and the compiler is replaced.                        *)
(*                                                                         *)
(* A job and the file it produces have the same name:                      *)
(*   <<"lib", p>>    a library         <<"build", p>>  a build script's exe*)
(*   <<"run", p>>    that exe's output <<"root", p>>   a binary or test    *)
(* Host and target builds are not distinguished (BuildOrder does), the     *)
(* order of jobs in the runner is only what JobList guarantees, and script *)
(* overrides and -Z emit-mmir, which skips running scripts, are left out.  *)
(***************************************************************************)
EXTENDS Naturals, FiniteSets, Sequences

CONSTANTS
  Pkgs,             \* packages
  Root,             \* the package being built
  Topologies,       \* candidates for graph
  TestMode,         \* --test: the root target is a test
  IgnoreTools,      \* MINICARGO_IGNTOOLS
  MaxEdits, MaxBuilds

ASSUME TopologyAssumption ==
  /\ Root \in Pkgs
  /\ \A g \in Topologies :
       /\ g.main \in [Pkgs -> SUBSET Pkgs]
       /\ g.build \in [Pkgs -> SUBSET Pkgs]
       /\ g.dev \in [Pkgs -> SUBSET Pkgs]
       /\ g.m_list \in Seq(Pkgs)
       /\ g.scripted \subseteq Pkgs

\* What BuildOrder makes m_list: no library is listed twice, the dependencies
\* of a library and of its script come before it, and those of the root, with
\* its library if it has one, are listed.
ASSUME OrderAssumption ==
  \A g \in Topologies :
    LET before(i) == { g.m_list[j] : j \in 1..(i - 1) }
        needs(p) == g.main[p] \cup (IF p \in g.scripted THEN g.build[p] ELSE {})
    IN /\ \A i, j \in DOMAIN g.m_list : g.m_list[i] = g.m_list[j] => i = j
       /\ \A i \in DOMAIN g.m_list : needs(g.m_list[i]) \subseteq before(i)
       /\ needs(Root) \cup (IF TestMode THEN g.dev[Root] ELSE {})
            \subseteq before(Len(g.m_list) + 1)
       /\ g.has_library = (Root \in before(Len(g.m_list) + 1))

VARIABLES
  graph,            \* fixed: main, build, dev dependencies, m_list, the packages
                    \* with a script, has_library (of the root), possible faults
  ts,               \* modification time of every file, 0 when it is missing
  content,          \* the versions <<source, time>> every file was made from
  broken,           \* outputs a process left incomplete
  phase,            \* "idle" or "building"
  jobs,             \* the dirty jobs, with the jobs each depends on
  status,           \* [DOMAIN jobs -> "waiting", "running", "done", "failed"]
  orphans,          \* jobs still running after their minicargo exited
  snapshot,         \* content of the inputs when each running job started
  result,           \* of the last build, "none" since an edit
  clock, edits, builds

vars == <<graph, ts, content, broken, phase, jobs, status, orphans, snapshot,
          result, clock, edits, builds>>

Tool == <<"tool", Root>>
RootTarget == <<"root", Root>>
Libs(D) == { <<"lib", d>> : d \in D }
Script(p) == IF p \in graph.scripted THEN {<<"build", p>>, <<"run", p>>} ELSE {}

Built == { graph.m_list[i] : i \in DOMAIN graph.m_list }
Outputs == Libs(Built) \cup (UNION { Script(p) : p \in Built \cup {Root} }) \cup {RootTarget}
Source(f) == <<"source of", f>>
Compiled == { f \in Outputs : f[1] # "run" }
Sources == { Source(f) : f \in Compiled } \cup {Tool}

\* What the process of a job reads: the arguments and the environment its
\* start() passes.  A build script is compiled with whatever variables the
\* scripts of other packages have set so far; those are left out.
Reads(f) ==
  LET p == f[2]
      out(D) == { <<"run", d>> : d \in D \cap graph.scripted }
      env == out(graph.main[p]) IN
  CASE f[1] = "lib"   -> {Source(f), Tool} \cup Libs(graph.main[p]) \cup out({p}) \cup env
    [] f[1] = "build" -> {Source(f), Tool} \cup Libs(graph.build[p])
    [] f[1] = "run"   -> {<<"build", p>>} \cup env
    [] f[1] = "root"  -> {Source(f), Tool} \cup Libs(graph.main[p]) \cup out({p}) \cup env
                         \cup Libs(IF graph.has_library THEN {p} ELSE {})
                         \cup Libs(IF TestMode THEN graph.dev[p] ELSE {})

-----------------------------------------------------------------------------
(* The plan: ConvertState and the loop over m_list.  The plan under        *)
(* construction maps each dirty job (items_built) to its dependencies.     *)

\* The libraries mrustc loads: those on its command line and, through the lists
\* in their metadata, those they were compiled with.
Loaded(f) ==
  LET given == { d \in Pkgs : <<"lib", d>> \in Reads(f) }
      closed(S) == given \subseteq S /\ \A d \in S : graph.main[d] \subseteq S
  IN Libs({ d \in Pkgs : \A S \in SUBSET Pkgs : closed(S) => d \in S })

\* The depfile mrustc writes next to its output.
Depfile(f) == {Source(f)} \cup Loaded(f)

\* Mutant: files older than the compiler are kept.
NeedsRebuild_IgnoresTool(f) == ts[f] = 0 \/ \E d \in Depfile(f) : ts[f] < ts[d]

\* RunState::outfile_needs_rebuild: missing, older than the compiler, or older
\* than a file named in its depfile.
NeedsRebuild(f) ==
  \/ ts[f] = 0
  \/ ~IgnoreTools /\ ts[f] < ts[Tool]
  \/ \E d \in Depfile(f) : ts[f] < ts[d]

\* Mutant: the comparison is the wrong way round.
Outdated_Swapped(plan, f, D) == \E d \in D : d \in DOMAIN plan \/ ts[d] < ts[f]

\* handle_dep over the dependencies D of f: one is dirty, or newer than f.
Outdated(plan, f, D) == \E d \in D : d \in DOMAIN plan \/ ts[f] < ts[d]

\* Mutant: a job does not wait for dependencies that are rebuilt.
AddJob_NoWait(plan, j, needed, D) ==
  IF needed THEN [k \in DOMAIN plan \cup {j} |-> IF k = j THEN {} ELSE plan[k]]
  ELSE plan

\* add_job, with handle_dep's rule that only dirty dependencies are waited for.
AddJob(plan, j, needed, D) ==
  IF needed
  THEN [k \in DOMAIN plan \cup {j} |->
          IF k = j THEN D \cap DOMAIN plan ELSE plan[k]]
  ELSE plan

\* bs_needs_run.
RunNeeded(plan, p) ==
  \/ <<"build", p>> \in DOMAIN plan
  \/ Outdated(plan, <<"run", p>>, Libs(graph.main[p]))
  \/ ts[<<"run", p>>] < ts[<<"build", p>>]

\* handle_build_script: a job to compile the script and a job to run it.
ConsiderScript(plan, p) ==
  LET exe == <<"build", p>>
      exe_deps == Libs(graph.build[p])
      with_exe == AddJob(plan, exe, NeedsRebuild(exe) \/ Outdated(plan, exe, exe_deps),
                         exe_deps)
  IN IF p \notin graph.scripted THEN plan
     ELSE AddJob(with_exe, <<"run", p>>, RunNeeded(with_exe, p),
                 {exe} \cup Libs(graph.main[p]))

\* Mutant: a name is returned whether or not there is such a job.
ScriptJob_Always(plan, p) == {<<"run", p>>}

\* The job name handle_build_script returns, which the library then waits for.
ScriptJob(plan, p) == {<<"run", p>>} \cap DOMAIN plan

\* One round of the loop over m_list.
ConsiderPackage(plan, p) ==
  LET lib == <<"lib", p>>
      scripted == ConsiderScript(plan, p)
      added == AddJob(scripted, lib,
                      \/ NeedsRebuild(lib)
                      \/ ScriptJob(scripted, p) # {}
                      \/ Outdated(scripted, lib, Libs(graph.main[p])),
                      Libs(graph.main[p]))
  IN IF lib \in DOMAIN added
     THEN [added EXCEPT ![lib] = @ \cup ScriptJob(scripted, p)]
     ELSE added

\* push_root_target: a target next to a library only looks at that library.
ConsiderRoot(plan) ==
  LET D == IF graph.has_library THEN Libs({Root}) ELSE Libs(graph.main[Root])
      scripted == IF graph.has_library THEN plan ELSE ConsiderScript(plan, Root)
  IN AddJob(scripted, RootTarget,
            NeedsRebuild(RootTarget) \/ Outdated(scripted, RootTarget, D), D)

\* The plan after i rounds.
Considered[i \in 0..Len(graph.m_list)] ==
  IF i = 0 THEN [j \in {} |-> {}] ELSE ConsiderPackage(Considered[i - 1], graph.m_list[i])

Plan == ConsiderRoot(Considered[Len(graph.m_list)])

-----------------------------------------------------------------------------
Now == clock + 1
Write(F) == /\ ts' = [f \in DOMAIN ts |-> IF f \in F THEN Now ELSE ts[f]]
            /\ clock' = IF F = {} THEN clock ELSE Now

\* An edit of a source, or a new compiler, while nothing is compiled.
Edit ==
  /\ phase = "idle" /\ orphans = {} /\ edits < MaxEdits
  /\ \E s \in Sources :
       /\ Write({s})
       /\ content' = [content EXCEPT ![s] = {<<s, Now>>}]
  /\ edits' = edits + 1
  /\ result' = "none"
  /\ UNCHANGED <<graph, broken, phase, jobs, status, orphans, snapshot, builds>>

\* BuildList::build up to run_all.
StartBuild ==
  /\ phase = "idle" /\ builds < MaxBuilds
  /\ phase' = "building"
  /\ builds' = builds + 1
  /\ jobs' = Plan
  /\ status' = [j \in DOMAIN Plan |-> "waiting"]
  /\ result' = "none"
  /\ UNCHANGED <<graph, ts, content, broken, orphans, snapshot, clock, edits>>

Failed == { j \in DOMAIN jobs : status[j] = "failed" }
Runnable == { j \in DOMAIN jobs : /\ status[j] = "waiting"
                                  /\ \A d \in jobs[j] : d \in DOMAIN jobs /\ status[d] = "done" }

\* A job is started.  A script's output file is its log: it is truncated.
StartJob(j) ==
  /\ phase = "building" /\ Failed = {}
  /\ j \in Runnable
  /\ status' = [status EXCEPT ![j] = "running"]
  /\ snapshot' = [snapshot EXCEPT ![j] = UNION { content[r] : r \in Reads(j) }]
  /\ Write(IF j[1] = "run" THEN {j} ELSE {})
  /\ broken' = IF j[1] = "run" THEN broken \cup {j} ELSE broken
  /\ UNCHANGED <<graph, content, phase, jobs, orphans, result, edits, builds>>

Succeed(j) ==
  /\ Write({j})
  /\ content' = [content EXCEPT ![j] = snapshot[j]]
  /\ broken' = broken \ {j}

JobSucceeds(j) ==
  /\ phase = "building" /\ status[j] = "running"
  /\ Succeed(j)
  /\ status' = [status EXCEPT ![j] = "done"]
  /\ UNCHANGED <<graph, phase, jobs, orphans, snapshot, result, edits, builds>>

\* Mutant: what a failed job wrote is kept.
JobFails_KeepsOutput(j) ==
  /\ "fail" \in graph.faults
  /\ phase = "building" /\ status[j] = "running"
  /\ status' = [status EXCEPT ![j] = "failed"]
  /\ UNCHANGED <<graph, ts, content, broken, phase, jobs, orphans, snapshot, result, clock,
                 edits, builds>>

\* Job::complete(false) removes (or renames) what the job wrote.
JobFails(j) ==
  /\ "fail" \in graph.faults
  /\ phase = "building" /\ status[j] = "running"
  /\ ts' = [ts EXCEPT ![j] = 0]
  /\ broken' = broken \ {j}
  /\ status' = [status EXCEPT ![j] = "failed"]
  /\ UNCHANGED <<graph, content, phase, jobs, orphans, snapshot, result, clock, edits, builds>>

Running == { j \in DOMAIN jobs : status[j] = "running" }

\* run_all returns once nothing runs and nothing more is started.
EndBuild ==
  /\ phase = "building"
  /\ Running = {}
  /\ Failed # {} \/ Runnable = {}
  /\ phase' = "idle"
  /\ result' = IF Failed = {} THEN "ok" ELSE "failed"
  /\ jobs' = [j \in {} |-> {}]
  /\ status' = [j \in {} |-> "done"]
  /\ UNCHANGED <<graph, ts, content, broken, orphans, snapshot, clock, edits, builds>>

\* exit(1): a job could not be spawned, or MINICARGO_RUN_ONCE is set.
Abandon ==
  /\ "exit" \in graph.faults
  /\ phase = "building"
  /\ phase' = "idle"
  /\ orphans' = orphans \cup Running
  /\ result' = "failed"
  /\ jobs' = [j \in {} |-> {}]
  /\ status' = [j \in {} |-> "done"]
  /\ UNCHANGED <<graph, ts, content, broken, snapshot, clock, edits, builds>>

\* A job without a parent ends; nobody calls complete.
OrphanEnds(j) ==
  /\ j \in orphans
  /\ orphans' = orphans \ {j}
  /\ \/ Succeed(j)
     \/ "fail" \in graph.faults /\ UNCHANGED <<ts, content, broken, clock>>
  /\ UNCHANGED <<graph, phase, jobs, status, snapshot, result, edits, builds>>

\* Every file is older than the clock; nothing was built yet.
Init ==
  /\ graph \in Topologies
  /\ ts = [f \in Sources \cup Outputs |-> IF f \in Outputs THEN 0 ELSE 1]
  /\ content = [f \in Sources \cup Outputs |-> IF f \in Sources THEN {<<f, 1>>} ELSE {}]
  /\ snapshot = [f \in Outputs |-> {}]
  /\ broken = {}
  /\ phase = "idle"
  /\ jobs = [j \in {} |-> {}]
  /\ status = [j \in {} |-> "done"]
  /\ orphans = {}
  /\ result = "none"
  /\ clock = 1 /\ edits = 0 /\ builds = 0

Next ==
  \/ Edit \/ StartBuild \/ EndBuild \/ Abandon
  \/ \E j \in DOMAIN jobs : StartJob(j) \/ JobSucceeds(j) \/ JobFails(j)
  \/ \E j \in orphans : OrphanEnds(j)

Spec == Init /\ [][Next]_vars

\* The script of p is at work, or done, and the library it is for is not.
Halfway(p) ==
  /\ {<<"run", p>>, <<"lib", p>>} \subseteq DOMAIN jobs
  /\ status[<<"run", p>>] \in {"running", "done"}
  /\ status[<<"lib", p>>] \in {"waiting", "running"}

\* Builds, however they end, do not end between a script and its library.
EndsOutsideScripts ==
  phase = "building" /\ phase' = "idle" => \A p \in graph.scripted : ~Halfway(p)
CarefulSpec == Init /\ [][Next /\ EndsOutsideScripts]_vars

-----------------------------------------------------------------------------
\* Complete, and made from the sources and the compiler as they are now.
Fresh(f) ==
  /\ ts[f] > 0 /\ f \notin broken
  /\ \A v \in content[f] : ts[v[1]] = v[2]

\* After a build that reports success every output was made from the present
\* contents of everything it depends on, whatever was edited, rebuilt, failed
\* or left clean before: comparing timestamps misses no change (handle_dep,
\* outfile_needs_rebuild).
SuccessMeansFresh == result = "ok" => \A f \in Outputs : Fresh(f)

\* However the builds before ended, minicargo's next plan rebuilds every
\* output that does not reflect the present sources.
StaleNoticed ==
  phase = "idle" /\ orphans = {} => \A f \in Outputs : Fresh(f) \/ f \in DOMAIN Plan

\* Where minicargo does not leave compilers behind that go on writing, a build
\* right after a successful one has nothing to do: BuildList::build finds
\* every job clean.
RebuildIsNoop ==
  result = "ok" /\ "exit" \notin graph.faults => DOMAIN Plan = {}

\* While a job of the build runs, each output it reads exists and is complete,
\* and no other job of the build writes it.  A compiler left behind by a
\* minicargo that exited still may: nothing here, or in the code, rules it out.
InputsReady ==
  phase = "building" => \A j \in Running : \A r \in Reads(j) \cap Outputs :
    ts[r] > 0 /\ r \notin broken /\ r \notin Running

\* Every dirty job waits for jobs of the same plan only, so that the runner
\* can run them all.
PlanClosed == \A j \in DOMAIN jobs : jobs[j] \subseteq DOMAIN jobs

=============================================================================
