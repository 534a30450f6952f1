------------------------------ MODULE TaskStore ------------------------------
(***************************************************************************)
(* What persistence.Store keeps of a task, for its two implementations:    *)
(* MemoryStore (internal/persistence/store.go) and PostgresStore           *)
(* (internal/persistence/postgres.go, migrations/).                        *)
(*                                                                         *)
(* A table is a function from its key to its rows.  The memory store keeps *)
(* slices, whose key is the position; postgres has primary keys, and       *)
(* inserting a key that is there overwrites its row (ON CONFLICT).         *)
(***************************************************************************)
EXTENDS TaskState

CONSTANTS Backend,          \* storage.backend
          Runs              \* Engine.Run invocations

ASSUME BackendAssumption == Backend \in {"memory", "postgres"}

EmptyTable == <<>>

\* SaveStep and SaveSnapshot: append to the slice, or upsert by primary key.
Put(table, key, row) ==
  IF Backend = "memory"
  THEN Append(table, row)
  ELSE [k \in DOMAIN table \cup {key} |-> IF k = key THEN row ELSE table[k]]

\* A mutant: the rows in ascending order.
IsOldest(table, key) ==
  /\ key \in DOMAIN table
  /\ \A k \in DOMAIN table : k >= key

\* GetLatestSnapshot: the last element, or the row of the highest version.
IsLatest(table, key) ==
  /\ key \in DOMAIN table
  /\ \A k \in DOMAIN table : k <= key

IsTable(table, Rows) ==
  /\ Backend = "memory" => table \in Seq(Rows)
  /\ Backend = "postgres" =>
       /\ DOMAIN table \subseteq Nat
       /\ table \in [DOMAIN table -> Rows]

-----------------------------------------------------------------------------
(***************************************************************************)
(* The row of a task.  The memory store keeps the State struct it is given *)
(* by value: version, status and log are copies, but the maps stay those   *)
(* of the run that stored it, and a reader sees in them what the run       *)
(* merges since.  Postgres has columns for the status only: GetTask        *)
(* rebuilds the rest empty.                                                *)
(***************************************************************************)
Row == [status : TaskStatus \cup {"absent"}, version : Nat,
        log : Seq(DecisionRecord), maps : SUBSET Runs]

AbsentRow == [status |-> "absent", version |-> 0, log |-> <<>>, maps |-> {}]

StoredRow(s, r) ==
  IF Backend = "memory"
  THEN [status |-> s.status, version |-> s.version, log |-> s.log, maps |-> {r}]
  ELSE [AbsentRow EXCEPT !.status = s.status]

StepRecord == [step : Nat, node : Nodes]

\* summary.Generator.Build: status and reason of the verdict, the node
\* sequence of the steps read back from the store, the decisions.
Reasons == {"ai_terminate", "loop_detected", "max_steps", "task_timeout"}

IsSummary(x) ==
  /\ x.status \in TerminalStatus \cup {"none"}
  /\ x.reason \in Reasons \cup {"none"}
  /\ IsTable(x.nodes, StepRecord)
  /\ x.log \in Seq(DecisionRecord)
  /\ x.plan \in BOOLEAN

NoSummary == [status |-> "none", reason |-> "none", nodes |-> EmptyTable,
              log |-> <<>>, plan |-> FALSE]

BuildSummary(s, steps, reason) ==
  [status |-> s.status, reason |-> reason, nodes |-> steps, log |-> s.log,
   plan |-> "latest_plan" \in s.ext]

=============================================================================
