------------------------------ MODULE TaskEngine ------------------------------
(***************************************************************************)
(* Engine.Run (internal/engine/engine.go) executed by any number of        *)
(* concurrent callers over one store, one node registry and one sandbox.   *)
(*                                                                         *)
(* Every element of Runs is one call of Run: a POST /v1/tasks, or a resume *)
(* of a task from its latest snapshot.  One label of pc per point at which *)
(* another goroutine, the store, the AI or a node can interleave.          *)
(***************************************************************************)
EXTENDS TaskStore, Rules

CONSTANTS Tasks,              \* task identifiers (uuids of POST /v1/tasks)
          HotNodes,           \* nodes whose manifest comes and goes at run time
          Keyworded,          \* tasks submitted with keywords
          MaxSteps, MaxSameNodeVisits, MaxParallelNodes,
          PlanningEnabled,    \* ai.routing_mode = "route_and_plan"
          StoreFaults,        \* postgres calls may fail, or lose their reply
          ExclusiveRuns,      \* the caller resumes a task only when no run has it
          MaxCrashes          \* bound on process restarts

ASSUME BoundsAssumption ==
  /\ MaxSteps \in Nat \ {0}
  /\ MaxSameNodeVisits \in Nat
  /\ MaxParallelNodes \in Nat \ {0}
  /\ MaxCrashes \in Nat

ASSUME TasksAssumption ==
  /\ Admission \in [Nodes -> RuleSets]
  /\ HotNodes \subseteq Nodes
  /\ Keyworded \subseteq Tasks
  /\ "none" \notin Tasks

ASSUME SwitchesAssumption ==
  /\ PlanningEnabled \in BOOLEAN
  /\ StoreFaults \in BOOLEAN
  /\ ExclusiveRuns \in BOOLEAN

VARIABLES
  \* the goroutine of each run
  pc, task, ctx, st, readonly, candidates, chosen, step, visited, reason, record,
  \* the store
  row, steps, lineage, snaps, summary, shortTerm, patterns,
  \* the process
  registry, metrics, crashes,
  \* auxiliary: how many patches the task had when the run began
  base

runVars   == <<task, ctx, st, readonly, candidates, chosen, step, visited, reason,
               record, base>>
storeVars == <<row, steps, lineage, snaps, summary, shortTerm, patterns>>
procVars  == <<registry, metrics, crashes>>
vars      == <<pc, runVars, storeVars, procVars>>

NoTask == "none"

\* How a call of Run can end: returning a summary, returning an error (named
\* after the statement that returned it), a panic, or with the process.
Errors   == {"err_store", "err_ai", "err_unknown", "err_node", "err_patch"}
Finished == Errors \cup {"ok", "panicked", "crashed"}

Running == {"lookup", "create", "refresh", "loop", "deciding", "admit", "acquire",
            "executing", "save_task", "save_snapshot", "save_step", "save_lineage",
            "remember", "conclude", "read_record", "finalize", "save_summary",
            "final_update"}

Active(r) == pc[r] \in Running
Expired(r) == ctx[r] \in {"deadline", "cancelled"}

Goto(r, label) == pc' = [pc EXCEPT ![r] = label]

-----------------------------------------------------------------------------
(***************************************************************************)
(* Store calls.  The memory store ignores its context and always works.    *)
(* Postgres refuses a context that is over; under StoreFaults a call may   *)
(* also fail, and a write may take effect and still report an error (the   *)
(* connection broke, or the deadline struck, before the reply).            *)
(***************************************************************************)
CallWorks(r) == Backend = "memory" \/ ~Expired(r)
CallFails(r) == Backend = "postgres" /\ (Expired(r) \/ StoreFaults)

\* A write of one table whose error ends the run.
Write(r, table, new, next) ==
  \/ /\ CallWorks(r)
     /\ table' = new
     /\ Goto(r, next)
  \/ /\ CallWorks(r) /\ CallFails(r)
     /\ table' = new
     /\ Goto(r, "err_store")
  \/ /\ CallFails(r)
     /\ table' = table
     /\ Goto(r, "err_store")

\* A write of one table whose error is logged and ignored.
TryWrite(r, table, new, next) ==
  /\ \/ CallWorks(r) /\ table' = new
     \/ CallFails(r) /\ table' = table
  /\ Goto(r, next)

SaveRow(r, s) == [row EXCEPT ![task[r]] = StoredRow(s, r)]

\* A column of postgres that is NOT NULL is given a nil slice.
NullKeywords(r) == Backend = "postgres" /\ task[r] \notin Keyworded

-----------------------------------------------------------------------------
Init ==
  /\ pc = [r \in Runs |-> "idle"]
  /\ task = [r \in Runs |-> NoTask]
  /\ ctx = [r \in Runs |-> "live"]
  /\ st = [r \in Runs |-> New]
  /\ readonly = [r \in Runs |-> New]
  /\ candidates = [r \in Runs |-> {}]
  /\ chosen = [r \in Runs |-> NoNode]
  /\ step = [r \in Runs |-> 0]
  /\ visited = [r \in Runs |-> [n \in Nodes |-> 0]]
  /\ reason = [r \in Runs |-> "ai_terminate"]
  /\ record = [r \in Runs |-> EmptyTable]
  /\ base = [r \in Runs |-> 0]
  /\ row = [t \in Tasks |-> AbsentRow]
  /\ steps = [t \in Tasks |-> EmptyTable]
  /\ lineage = [t \in Tasks |-> EmptyTable]
  /\ snaps = [t \in Tasks |-> EmptyTable]
  /\ summary = [t \in Tasks |-> NoSummary]
  /\ shortTerm = [t \in Tasks |-> [log |-> <<>>, last |-> NoNode]]
  /\ patterns = {}
  /\ registry = Nodes
  /\ metrics = [tasks |-> 0, failures |-> 0]
  /\ crashes = 0

-----------------------------------------------------------------------------
\* POST /v1/tasks: a fresh uuid and state.New, under the request's context.
Start(r, t) ==
  /\ pc[r] = "idle"
  /\ \A q \in Runs : task[q] # t
  /\ task' = [task EXCEPT ![r] = t]
  /\ Goto(r, "lookup")
  /\ UNCHANGED <<ctx, st, readonly, candidates, chosen, step, visited, reason, record,
                 base, storeVars, procVars>>

\* The resume handler: clone the latest snapshot, mark it running, and run it
\* under a context the client cannot cancel.
Resume(r, t) ==
  /\ pc[r] = "idle"
  /\ ExclusiveRuns => \A q \in Runs : task[q] = t => ~Active(q)
  /\ \E k \in DOMAIN snaps[t] :
       /\ IsLatest(snaps[t], k)
       /\ st' = [st EXCEPT ![r] = [snaps[t][k] EXCEPT !.status = "running"]]
       /\ base' = [base EXCEPT ![r] = Len(snaps[t][k].merged)]
  /\ task' = [task EXCEPT ![r] = t]
  /\ ctx' = [ctx EXCEPT ![r] = "detached"]
  /\ Goto(r, "lookup")
  /\ UNCHANGED <<readonly, candidates, chosen, step, visited, reason, record,
                 storeVars, procVars>>

\* store.GetTask: any error, not only "not found", leads to CreateTask.
Lookup(r) ==
  /\ pc[r] = "lookup"
  /\ \/ CallWorks(r) /\ row[task[r]].status # "absent" /\ Goto(r, "refresh")
     \/ CallWorks(r) /\ row[task[r]].status = "absent" /\ Goto(r, "create")
     \/ CallFails(r) /\ Goto(r, "create")
  /\ UNCHANGED <<runVars, storeVars, procVars>>

\* store.CreateTask, which refuses an existing task; then TaskCounter.Inc.
Create(r) ==
  /\ pc[r] = "create"
  /\ IF row[task[r]].status = "absent"
     THEN Write(r, row, SaveRow(r, st[r]), "loop")
     ELSE Goto(r, "err_store") /\ UNCHANGED row
  /\ metrics' = IF pc'[r] = "loop" THEN [metrics EXCEPT !.tasks = @ + 1] ELSE metrics
  /\ UNCHANGED <<runVars, steps, lineage, snaps, summary, shortTerm, patterns, registry,
                 crashes>>

\* A mutant: a task that is there is left as it is.
RefreshSkipped(r) ==
  /\ pc[r] = "refresh"
  /\ Goto(r, "loop")
  /\ UNCHANGED <<runVars, storeVars, procVars>>

\* store.UpdateTask of a task that is there.
Refresh(r) ==
  /\ pc[r] = "refresh"
  /\ Write(r, row, SaveRow(r, st[r]), "loop")
  /\ UNCHANGED <<runVars, steps, lineage, snaps, summary, shortTerm, patterns, procVars>>

-----------------------------------------------------------------------------
\* A decision error: the status changes in memory only.
FailDecision(r) ==
  /\ st' = [st EXCEPT ![r].status = "failed"]
  /\ metrics' = [metrics EXCEPT !.failures = @ + 1]
  /\ Goto(r, "err_ai")

\* A mutant: one step too many.
StepsLeftOffByOne(r) == step[r] <= MaxSteps

StepsLeft(r) == step[r] < MaxSteps

\* The head of the loop: recommendations (advice to the AI, read only), the
\* deep copy for this step, the list of candidates, and the first checks of
\* aiGateway.Decide, which refuse a context that is over and an empty list.
BeginStep(r) ==
  /\ pc[r] = "loop" /\ StepsLeft(r)
  /\ step' = [step EXCEPT ![r] = @ + 1]
  /\ readonly' = [readonly EXCEPT ![r] = st[r]]
  /\ IF Expired(r) \/ registry = {}
     THEN FailDecision(r) /\ UNCHANGED candidates
     ELSE /\ candidates' = [candidates EXCEPT ![r] = registry]
          /\ Goto(r, "deciding")
          /\ UNCHANGED <<st, metrics>>
  /\ UNCHANGED <<task, ctx, chosen, visited, reason, record, base, storeVars, registry,
                 crashes>>

\* A mutant: running out of steps is not told apart from termination.
StepsExhaustedSilently(r) ==
  /\ pc[r] = "loop" /\ step[r] = MaxSteps
  /\ Goto(r, "conclude")
  /\ UNCHANGED <<runVars, storeVars, procVars>>

\* The loop runs out of steps without a terminating decision.
StepsExhausted(r) ==
  /\ pc[r] = "loop" /\ step[r] = MaxSteps
  /\ reason' = [reason EXCEPT ![r] = "max_steps"]
  /\ Goto(r, "conclude")
  /\ UNCHANGED <<task, ctx, st, readonly, candidates, chosen, step, visited, record, base,
                 storeVars, procVars>>

\* Every provider and the breaker may fail.
DecideFails(r) ==
  /\ pc[r] = "deciding"
  /\ FailDecision(r)
  /\ UNCHANGED <<task, ctx, readonly, candidates, chosen, step, visited, reason, record,
                 base, storeVars, registry, crashes>>

\* A plan is recorded and uses up the step.
DecidePlan(r) ==
  /\ pc[r] = "deciding" /\ PlanningEnabled
  /\ st' = [st EXCEPT ![r] = AppendDecision(SetExt(@, "latest_plan"), "plan", NoNode,
                                           step[r])]
  /\ Goto(r, "loop")
  /\ UNCHANGED <<task, ctx, readonly, candidates, chosen, step, visited, reason, record,
                 base, storeVars, procVars>>

RecordRoute(r, n) ==
  st' = [st EXCEPT ![r] = AppendDecision(@, "route", n, step[r])]

DecideTerminate(r) ==
  /\ pc[r] = "deciding"
  /\ RecordRoute(r, Terminate)
  /\ Goto(r, "conclude")
  /\ UNCHANGED <<task, ctx, readonly, candidates, chosen, step, visited, reason, record,
                 base, storeVars, procVars>>

\* A mutant: the limit itself is still let through once more.
LoopingOffByOne(r, n) == visited[r][n] > MaxSameNodeVisits

\* Visits are counted when the node is chosen, before it is admitted.
Looping(r, n) == visited[r][n] + 1 > MaxSameNodeVisits

\* The gateway only lets a candidate of this step through; the registry may
\* have lost it since.
DecideRoute(r, n) ==
  /\ pc[r] = "deciding" /\ n \in candidates[r]
  /\ RecordRoute(r, n)
  /\ visited' = [visited EXCEPT ![r][n] = @ + 1]
  /\ chosen' = [chosen EXCEPT ![r] = n]
  /\ \/ /\ Looping(r, n)
        /\ reason' = [reason EXCEPT ![r] = "loop_detected"]
        /\ Goto(r, "conclude")
     \/ /\ ~Looping(r, n)
        /\ Goto(r, IF n \in registry THEN "admit" ELSE "err_unknown")
        /\ UNCHANGED reason
  /\ UNCHANGED <<task, ctx, readonly, candidates, step, record, base, storeVars, procVars>>

-----------------------------------------------------------------------------
\* A mutant: a node whose manifest lost its rules.
AllowedWithoutRules(r) == TRUE

\* rules.Evaluate on the step's copy of the state.
Allowed(r) == Allows(chosen[r], ToSet(readonly[r].merged))

RecordRejection(r) ==
  /\ st' = [st EXCEPT ![r] = SetExt(@, "last_rejection_reason")]
  /\ Goto(r, "loop")

\* The node's own CheckBefore, asked after the rules.  It runs in the goroutine of
\* Run without a timeout, and may never return.
InCheckBefore(r) == pc[r] = "admit" /\ Allowed(r)

\* Admission rules, then CheckBefore: it may admit, reject, panic, or hang (no
\* fairness asks for its end).
Admit(r) ==
  /\ pc[r] = "admit"
  /\ \/ RecordRejection(r)
     \/ Allowed(r) /\ Goto(r, "panicked") /\ UNCHANGED st
     \/ Allowed(r) /\ Goto(r, "acquire") /\ UNCHANGED st
  /\ UNCHANGED <<task, ctx, readonly, candidates, chosen, step, visited, reason, record,
                 base, storeVars, procVars>>

\* A mutant: a slot is released on the error paths only.
SlotsKeptOnSuccess ==
  Cardinality({q \in Runs : pc[q] = "executing" \/ Len(st[q].merged) > base[q]})

\* sandbox.Execute waits for a slot; a context that is over gives up.
SlotsInUse == Cardinality({q \in Runs : pc[q] = "executing"})

Acquire(r) ==
  /\ pc[r] = "acquire"
  /\ \/ ~Expired(r) /\ SlotsInUse < MaxParallelNodes /\ Goto(r, "executing")
     \/ Expired(r) /\ Goto(r, "err_node")
  /\ UNCHANGED <<runVars, storeVars, procVars>>

\* An error, a panic, a timeout or Success = false ends the run; nothing is
\* stored.
ExecuteFails(r) ==
  /\ pc[r] = "executing"
  /\ Goto(r, "err_node")
  /\ UNCHANGED <<runVars, storeVars, procVars>>

\* A result, even one that arrives together with the end of the context, is
\* merged; a patch that cannot be cloned is found out after the merge.
ExecuteSucceeds(r) ==
  /\ pc[r] = "executing"
  /\ st' = [st EXCEPT ![r] = MergePatch(@, chosen[r])]
  /\ \/ Goto(r, "save_task")
     \/ Unserialisable(chosen[r]) /\ Goto(r, "err_patch")
  /\ UNCHANGED <<task, ctx, readonly, candidates, chosen, step, visited, reason, record,
                 base, storeVars, procVars>>

-----------------------------------------------------------------------------
\* A mutant: the row of the task is left as it was.
SaveTaskSkipped(r) ==
  /\ pc[r] = "save_task"
  /\ Goto(r, "save_snapshot")
  /\ UNCHANGED <<runVars, storeVars, procVars>>

\* A mutant: the step is stored without its snapshot.
SaveTaskThenStep(r) ==
  /\ pc[r] = "save_task"
  /\ Write(r, row, SaveRow(r, st[r]), "save_step")
  /\ UNCHANGED <<runVars, steps, lineage, snaps, summary, shortTerm, patterns, procVars>>

SaveTask(r) ==
  /\ pc[r] = "save_task"
  /\ Write(r, row, SaveRow(r, st[r]), "save_snapshot")
  /\ UNCHANGED <<runVars, steps, lineage, snaps, summary, shortTerm, patterns, procVars>>

\* A mutant: a snapshot that cannot be stored is only logged.
SaveSnapshotBestEffort(r) ==
  /\ pc[r] = "save_snapshot"
  /\ TryWrite(r, snaps, [snaps EXCEPT ![task[r]] = Put(@, st[r].version, st[r])],
              "save_step")
  /\ UNCHANGED <<runVars, row, steps, lineage, summary, shortTerm, patterns, procVars>>

SaveSnapshot(r) ==
  /\ pc[r] = "save_snapshot"
  /\ Write(r, snaps, [snaps EXCEPT ![task[r]] = Put(@, st[r].version, st[r])], "save_step")
  /\ UNCHANGED <<runVars, row, steps, lineage, summary, shortTerm, patterns, procVars>>

StepRow(r) == [step |-> step[r], node |-> chosen[r]]

\* Postgres writes the lineage in a second statement, the memory store has
\* the step's input in the row itself.
SaveStep(r) ==
  /\ pc[r] = "save_step"
  /\ Write(r, steps, [steps EXCEPT ![task[r]] = Put(@, step[r], StepRow(r))],
           IF Backend = "memory" THEN "remember" ELSE "save_lineage")
  /\ UNCHANGED <<runVars, row, lineage, snaps, summary, shortTerm, patterns, procVars>>

SaveLineage(r) ==
  /\ pc[r] = "save_lineage"
  /\ Write(r, lineage, [lineage EXCEPT ![task[r]] = Put(@, step[r], StepRow(r))],
           "remember")
  /\ UNCHANGED <<runVars, row, steps, snaps, summary, shortTerm, patterns, procVars>>

\* memory.RecordStep stores the current sequence of the decisions followed by
\* the node once more; kept as the pair it is computed from.
RecordStep(r) ==
  /\ pc[r] = "remember"
  /\ TryWrite(r, shortTerm,
              [shortTerm EXCEPT ![task[r]] = [log |-> st[r].log, last |-> chosen[r]]],
              "loop")
  /\ UNCHANGED <<runVars, row, steps, lineage, snaps, summary, patterns, procVars>>

-----------------------------------------------------------------------------
(***************************************************************************)
(* After the loop: the verdict, the record read back for the summary, the  *)
(* pattern, the summary, the final status.                                 *)
(***************************************************************************)
Conclude(r) ==
  LET why == IF ctx[r] = "deadline" THEN "task_timeout" ELSE reason[r]
      verdict == CASE why = "task_timeout" -> "timed_out"
                   [] why = "ai_terminate" -> "completed"
                   [] OTHER -> "failed"
  IN  /\ pc[r] = "conclude"
      /\ reason' = [reason EXCEPT ![r] = why]
      /\ st' = [st EXCEPT ![r].status = verdict]
      /\ Goto(r, "read_record")
      /\ UNCHANGED <<task, ctx, readonly, candidates, chosen, step, visited, record, base,
                     storeVars, procVars>>

\* store.GetTask once more.  Postgres reads the steps row by row in the order
\* of their index, and never asks whether the rows ended or broke off.
RowsBefore(table, end) == [k \in {i \in DOMAIN table : i < end} |-> table[k]]

ReadRecord(r) ==
  /\ pc[r] = "read_record"
  /\ \/ /\ CallWorks(r)
        /\ record' = [record EXCEPT ![r] = steps[task[r]]]
        /\ Goto(r, "finalize")
     \/ /\ CallWorks(r) /\ CallFails(r)
        /\ \E end \in DOMAIN steps[task[r]] :
             record' = [record EXCEPT ![r] = RowsBefore(steps[task[r]], end)]
        /\ Goto(r, "finalize")
     \/ CallFails(r) /\ Goto(r, "err_store") /\ UNCHANGED record
  /\ UNCHANGED <<task, ctx, st, readonly, candidates, chosen, step, visited, reason, base,
                 storeVars, procVars>>

\* memory.Finalize: one more hit of the pattern made of this task's decisions.
\* Kept as the set of hits, each with the log its pattern is computed from.
\* Postgres refuses the row of a task without decisions: its sequence is nil.
Finalize(r) ==
  /\ pc[r] = "finalize"
  /\ IF NullKeywords(r) \/ (Backend = "postgres" /\ CurrentSequence(st[r].log) = <<>>)
     THEN UNCHANGED patterns /\ Goto(r, "save_summary")
     ELSE TryWrite(r, patterns, patterns \cup {[run |-> r, log |-> st[r].log]},
                   "save_summary")
  /\ UNCHANGED <<runVars, row, steps, lineage, snaps, summary, shortTerm, procVars>>

\* store.SaveSummary; the record has served and is dropped.
SaveSummary(r) ==
  /\ pc[r] = "save_summary"
  /\ IF NullKeywords(r)
     THEN UNCHANGED summary /\ Goto(r, "err_store")
     ELSE Write(r, summary,
                [summary EXCEPT ![task[r]] = BuildSummary(st[r], record[r], reason[r])],
                "final_update")
  /\ record' = [record EXCEPT ![r] = EmptyTable]
  /\ UNCHANGED <<task, ctx, st, readonly, candidates, chosen, step, visited, reason, base,
                 row, steps, lineage, snaps, shortTerm, patterns, procVars>>

FinalUpdate(r) ==
  /\ pc[r] = "final_update"
  /\ Write(r, row, SaveRow(r, st[r]), "ok")
  /\ UNCHANGED <<runVars, steps, lineage, snaps, summary, shortTerm, patterns, procVars>>

-----------------------------------------------------------------------------
\* The environment: the task timeout, the client going away, manifests coming
\* and going, the process dying.
Expire(r) ==
  /\ Active(r) /\ ~Expired(r)
  /\ ctx' = [ctx EXCEPT ![r] = "deadline"]
  /\ UNCHANGED <<pc, task, st, readonly, candidates, chosen, step, visited, reason, record,
                 base, storeVars, procVars>>

Cancel(r) ==
  /\ Active(r) /\ ctx[r] = "live"
  /\ ctx' = [ctx EXCEPT ![r] = "cancelled"]
  /\ UNCHANGED <<pc, task, st, readonly, candidates, chosen, step, visited, reason, record,
                 base, storeVars, procVars>>

Unload(n) ==
  /\ n \in HotNodes \cap registry
  /\ registry' = registry \ {n}
  /\ UNCHANGED <<pc, runVars, storeVars, metrics, crashes>>

Load(n) ==
  /\ n \in HotNodes \ registry
  /\ registry' = registry \cup {n}
  /\ UNCHANGED <<pc, runVars, storeVars, metrics, crashes>>

\* Every run dies with the process, and so does the memory store.
Crash ==
  /\ crashes < MaxCrashes
  /\ crashes' = crashes + 1
  /\ pc' = [r \in Runs |-> IF Active(r) THEN "crashed" ELSE pc[r]]
  /\ metrics' = [tasks |-> 0, failures |-> 0]
  /\ IF Backend = "memory"
     THEN /\ row' = [t \in Tasks |-> AbsentRow]
          /\ steps' = [t \in Tasks |-> EmptyTable]
          /\ lineage' = [t \in Tasks |-> EmptyTable]
          /\ snaps' = [t \in Tasks |-> EmptyTable]
          /\ summary' = [t \in Tasks |-> NoSummary]
          /\ shortTerm' = [t \in Tasks |-> [log |-> <<>>, last |-> NoNode]]
          /\ patterns' = {}
     ELSE UNCHANGED storeVars
  /\ UNCHANGED <<runVars, registry>>

-----------------------------------------------------------------------------
\* The goroutine of one run, from its first store call to its return.
RunStep(r) ==
  \/ Lookup(r) \/ Create(r) \/ Refresh(r)
  \/ BeginStep(r) \/ StepsExhausted(r)
  \/ DecideFails(r) \/ DecidePlan(r) \/ DecideTerminate(r)
  \/ \E n \in Nodes : DecideRoute(r, n)
  \/ Admit(r) \/ Acquire(r) \/ ExecuteFails(r) \/ ExecuteSucceeds(r)
  \/ SaveTask(r) \/ SaveSnapshot(r) \/ SaveStep(r) \/ SaveLineage(r) \/ RecordStep(r)
  \/ Conclude(r) \/ ReadRecord(r) \/ Finalize(r) \/ SaveSummary(r) \/ FinalUpdate(r)

Caller(r) == \E t \in Tasks : Start(r, t) \/ Resume(r, t)

Environment ==
  \/ \E r \in Runs : Expire(r) \/ Cancel(r)
  \/ \E n \in Nodes : Unload(n) \/ Load(n)
  \/ Crash

\* Every run that was asked for has returned.
Terminating ==
  /\ \A r \in Runs : ~Active(r)
  /\ UNCHANGED vars

Next ==
  \/ \E r \in Runs : Caller(r) \/ RunStep(r)
  \/ Environment
  \/ Terminating

Spec == Init /\ [][Next]_vars

\* Goroutines are scheduled, and model requests and node executions are bounded
\* by their own timeouts.  A node's CheckBefore is not, and the deadline of the
\* task is not relied on.
Fairness == \A r \in Runs : WF_vars(RunStep(r) /\ ~InCheckBefore(r))

FairSpec == Spec /\ Fairness

-----------------------------------------------------------------------------
RunTypeOK ==
  /\ pc \in [Runs -> {"idle"} \cup Running \cup Finished]
  /\ task \in [Runs -> Tasks \cup {NoTask}]
  /\ ctx \in [Runs -> {"live", "detached", "deadline", "cancelled"}]
  /\ st \in [Runs -> State]
  /\ readonly \in [Runs -> State]
  /\ candidates \in [Runs -> SUBSET Nodes]
  /\ chosen \in [Runs -> Nodes \cup {NoNode}]
  /\ step \in [Runs -> 0..MaxSteps]
  /\ visited \in [Runs -> [Nodes -> Nat]]
  /\ reason \in [Runs -> Reasons]
  /\ base \in [Runs -> Nat]
  /\ DOMAIN record = Runs
  /\ \A r \in Runs : IsTable(record[r], StepRecord)

\* Where a run has a task, and where it has chosen a node.
ControlOK ==
  \A r \in Runs :
    /\ pc[r] # "idle" => task[r] \in Tasks
    /\ pc[r] \in {"admit", "acquire", "executing", "save_task", "save_snapshot",
                  "save_step", "save_lineage", "remember"} => chosen[r] \in Nodes
    /\ pc[r] \in {"read_record", "finalize", "save_summary", "final_update"} =>
         st[r].status \in TerminalStatus

StoreTypeOK ==
  /\ row \in [Tasks -> Row]
  /\ DOMAIN steps = Tasks /\ \A t \in Tasks : IsTable(steps[t], StepRecord)
  /\ DOMAIN lineage = Tasks /\ \A t \in Tasks : IsTable(lineage[t], StepRecord)
  /\ DOMAIN snaps = Tasks /\ \A t \in Tasks : IsTable(snaps[t], State)
  /\ DOMAIN summary = Tasks /\ \A t \in Tasks : IsSummary(summary[t])
  /\ shortTerm \in [Tasks -> [log : Seq(DecisionRecord), last : Nodes \cup {NoNode}]]
  /\ patterns \subseteq [run : Runs, log : Seq(DecisionRecord)]

ProcTypeOK ==
  /\ registry \subseteq Nodes
  /\ metrics \in [tasks : Nat, failures : Nat]
  /\ crashes \in 0..MaxCrashes

\* Types of all variables, and what each label of a run says of its locals
\* (engine.go, state.go, store.go, postgres.go).
TypeOK == RunTypeOK /\ ControlOK /\ StoreTypeOK /\ ProcTypeOK

\* Every patch merged anywhere, in the state of a run or in a snapshot, went
\* into a state its node's rules allowed: they are evaluated on the step's
\* copy, before the wait for a slot and the execution, yet hold of the state
\* the patch goes into, rules that ask for the absence of a patch included,
\* across rejections, restarts and resumes (engine.go:166-192).
Before(merged, i) == {merged[j] : j \in 1..(i - 1)}

Justified(merged) ==
  \A i \in 1..Len(merged) : Allows(merged[i], Before(merged, i))

AdmissionRespected ==
  /\ \A r \in Runs : Justified(st[r].merged)
  /\ \A t \in Tasks : \A k \in DOMAIN snaps[t] : Justified(snaps[t][k].merged)

\* The version of a state counts the patches in it, in every snapshot and in
\* every run, resumed ones included; no snapshot is half a step
\* (state.go:179-223, resume.go:19-28).
VersionCountsPatches ==
  /\ \A r \in Runs : st[r].version = Len(st[r].merged) + 1
  /\ \A t \in Tasks : \A k \in DOMAIN snaps[t] :
       snaps[t][k].version = Len(snaps[t][k].merged) + 1

\* A later snapshot of a task extends an earlier one, patches and decisions,
\* whoever wrote them (postgres.go:85-96, resume.go:19-28).
SnapshotsFormOneHistory ==
  \A t \in Tasks : \A j, k \in DOMAIN snaps[t] :
    j < k => /\ IsStrictPrefix(snaps[t][j].merged, snaps[t][k].merged)
             /\ IsStrictPrefix(snaps[t][j].log, snaps[t][k].log)

\* Steps and lineage never claim more than the latest snapshot can restore: a
\* node with a step row is in it, and a lineage row has its step row
\* (engine.go:196-214, postgres.go:54-83).
StepsAreRestorable ==
  \A t \in Tasks :
    /\ \A i \in DOMAIN steps[t] : \E k \in DOMAIN snaps[t] :
         IsLatest(snaps[t], k) /\ steps[t][i].node \in ToSet(snaps[t][k].merged)
    /\ DOMAIN lineage[t] \subseteq DOMAIN steps[t]

\* A stored verdict has its summary, and the two agree, at every crash point
\* and also after a resume took the task up again (engine.go:243-249).
VerdictIsSummarised ==
  \A t \in Tasks : row[t].status \in TerminalStatus =>
    summary[t].status = row[t].status

\* What a resume of the task restores.
DurableHistory(t) ==
  IF DOMAIN snaps[t] = {} THEN <<>>
  ELSE snaps[t][CHOOSE k \in DOMAIN snaps[t] : IsLatest(snaps[t], k)].merged

\* What the memory store shows of a task neither falls behind what a resume
\* restores nor runs ahead of it by more than one patch: not in the version and
\* the decisions of the row, and not in the maps the row shares with a run that
\* goes on merging into them, or merged a patch in vain; once that run returned
\* its summary they agree (engine.go:59-73, 192-204, 247, state.go:179-223,
\* store.go:66-89).
RowKeepsPace ==
  \A t \in Tasks : row[t].status # "absent" =>
    LET kept == DurableHistory(t) IN
    /\ row[t].version \in {Len(kept) + 1, Len(kept) + 2}
    /\ \A k \in DOMAIN snaps[t] : IsPrefix(snaps[t][k].log, row[t].log)
    /\ \A r \in row[t].maps :
         /\ IsPrefix(kept, st[r].merged)
         /\ Len(st[r].merged) <= Len(kept) + 1
         /\ pc[r] = "ok" => st[r].merged = kept

\* The status and reason of a summary are what the decisions in it add up to
\* (engine.go:151-159, 219-234).
Routed(log, n) == Cardinality({i \in DOMAIN log : log[i].node = n})

VerdictExplainsDecisions ==
  \A t \in Tasks : LET s == summary[t] IN
    /\ s.status = "completed" <=> s.reason = "ai_terminate"
    /\ s.status = "timed_out" <=> s.reason = "task_timeout"
    /\ s.reason = "ai_terminate" => Last(s.log).node = Terminate
    /\ s.reason = "max_steps" => \A i \in DOMAIN s.log : s.log[i].node # Terminate
    /\ s.reason = "loop_detected" =>
         Routed(s.log, Last(s.log).node) > MaxSameNodeVisits

\* One run merges at most MaxSteps patches, and no more than MaxSameNodeVisits
\* of one node, however many steps plans and rejections use up and whatever
\* the snapshot it started from holds (engine.go:78, 155-159).
GuardsBoundEveryRun ==
  \A r \in Runs : LET mine == SubSeq(st[r].merged, base[r] + 1, Len(st[r].merged)) IN
    /\ Len(mine) <= step[r]
    /\ \A n \in Nodes : Cardinality({i \in DOMAIN mine : mine[i] = n})
                         <= MaxSameNodeVisits

\* What a run that returned its summary merged can still be restored, whatever
\* other runs of the task did since (engine.go:196-250, resume.go:19-28).
ReturnedWorkIsRestorable ==
  \A r \in Runs : pc[r] = "ok" /\ st[r].merged # <<>> =>
    \E k \in DOMAIN snaps[task[r]] :
      /\ IsLatest(snaps[task[r]], k)
      /\ IsPrefix(st[r].merged, snaps[task[r]][k].merged)

\* A snapshot is never rewritten or lost while its store lives
\* (store.go:103-114, postgres.go:85-96).
SnapshotsAreFinal ==
  [][\/ Backend = "memory" /\ crashes' # crashes
     \/ \A t \in Tasks : \A k \in DOMAIN snaps[t] :
          k \in DOMAIN snaps'[t] /\ snaps'[t][k] = snaps[t][k]]_vars

\* Every run that was started returns, whatever the AI and the executions of
\* nodes do and also without a deadline, unless a CheckBefore of its own never
\* returns; one that hangs in another run holds up nobody else
\* (engine.go:59-251, 174).
EveryRunReturns ==
  \A r \in Runs : pc[r] = "lookup" ~> (pc[r] \in Finished \/ []InCheckBefore(r))

-----------------------------------------------------------------------------
\* Whether a reader of the store finds a task, and its verdict.
DurablePhase(t) ==
  CASE row[t].status = "absent" -> "unknown"
    [] row[t].status \in TerminalStatus -> "closed"
    [] OTHER -> "open"

Durable == INSTANCE DurableTask WITH
  phase <- [t \in Tasks |-> DurablePhase(t)],
  history <- [t \in Tasks |-> DurableHistory(t)],
  Volatile <- (Backend = "memory")

\* With one run at a time per task, the engine over either store implements
\* the durable task (engine.go:59-251, router.go:62-84, 116-128).
ImplementsDurableTask == Durable!Spec

-----------------------------------------------------------------------------
(***************************************************************************)
(* What the documentation says and the code does not do.                   *)
(***************************************************************************)
\* A node that failed fails its task (docs/design.en.md:135), for whoever reads
\* the task.
NodeFailureFailsTask ==
  \A r \in Runs : pc[r] = "err_node" => row[task[r]].status = "failed"

\* Once its runs have returned, a task can be reconstructed from its execution
\* steps (docs/architecture.en.md:204-207): every merged patch has its step.
StepsCoverHistory ==
  \A t \in Tasks : (\A r \in Runs : task[r] = t => pc[r] = "ok") =>
    Cardinality(DOMAIN steps[t]) = Len(DurableHistory(t))

\* A task that was posted runs to the end of its chain, with its summary
\* (docs/integration.zh-CN.md:139), when the store works and time is left.
StoreAcceptsRun ==
  \A r \in Runs : pc[r] = "err_store" => Expired(r)

=============================================================================
