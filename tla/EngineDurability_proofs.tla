----------------------- MODULE EngineDurability_proofs -----------------------
(***************************************************************************)
(* Theorems about what the store holds of a task, for every number of      *)
(* runs, crashes and store faults, as long as a task is resumed only when  *)
(* no run has it (ExclusiveRuns): the snapshots of a task form one         *)
(* history, the steps and the verdict agree with it, and the engine over   *)
(* its store implements DurableTask.                                       *)
(***************************************************************************)
EXTENDS TaskEngine_proofs, SequenceTheorems

-----------------------------------------------------------------------------
(***************************************************************************)
(* Prefixes.                                                               *)
(***************************************************************************)
LEMMA PrefixByElements ==
  ASSUME NEW S, NEW s \in Seq(S), NEW t \in Seq(S)
  PROVE  IsPrefix(s, t) <=> Len(s) <= Len(t) /\ \A i \in 1..Len(s) : s[i] = t[i]
<1>1. Len(s) \in Nat /\ Len(t) \in Nat
  OBVIOUS
<1>2. CASE Len(s) <= Len(t)
  <2> DEFINE u == SubSeq(t, 1, Len(s))
  <2>1. \A i \in 1..Len(s) : t[i] \in S
    BY <1>1, <1>2
  <2>2. /\ u \in Seq(S)
        /\ Len(u) = IF 1 <= Len(s) THEN Len(s) - 1 + 1 ELSE 0
        /\ \A i \in 1..(Len(s) - 1 + 1) : u[i] = t[1 + i - 1]
    BY <1>1, <2>1, SubSeqProperties
  <2>3. Len(u) = Len(s) /\ \A i \in 1..Len(s) : u[i] = t[i]
    BY <1>1, <2>2
  <2> HIDE DEF u
  <2>4. s = u <=> \A i \in 1..Len(s) : s[i] = t[i]
    BY <2>2, <2>3, SeqEqual
  <2>5. QED
    BY <1>2, <2>4 DEF IsPrefix, u
<1>3. CASE ~(Len(s) <= Len(t))
  BY <1>3 DEF IsPrefix
<1>4. QED
  BY <1>2, <1>3

LEMMA PrefixRefl ==
  ASSUME NEW S, NEW s \in Seq(S)
  PROVE  IsPrefix(s, s)
<1>1. Len(s) \in Nat
  OBVIOUS
<1>2. QED
  BY <1>1, PrefixByElements

LEMMA PrefixAppend ==
  ASSUME NEW S, NEW s \in Seq(S), NEW t \in Seq(S), NEW x \in S, IsPrefix(s, t)
  PROVE  IsPrefix(s, Append(t, x)) /\ s # Append(t, x)
<1>1. /\ Append(t, x) \in Seq(S) /\ Len(Append(t, x)) = Len(t) + 1
      /\ \A i \in 1..Len(t) : Append(t, x)[i] = t[i]
      /\ Len(s) \in Nat /\ Len(t) \in Nat
  BY AppendProperties
<1>2. Len(s) <= Len(t) /\ \A i \in 1..Len(s) : s[i] = t[i]
  BY PrefixByElements
<1>3. /\ Len(s) <= Len(Append(t, x))
      /\ \A i \in 1..Len(s) : s[i] = Append(t, x)[i]
      /\ Len(s) # Len(Append(t, x))
  BY <1>1, <1>2
<1>4. IsPrefix(s, Append(t, x))
  BY <1>1, <1>3, PrefixByElements
<1>5. QED
  BY <1>3, <1>4

LEMMA PrefixTrans ==
  ASSUME NEW S, NEW s \in Seq(S), NEW t \in Seq(S), NEW u \in Seq(S),
         IsPrefix(s, t), IsPrefix(t, u)
  PROVE  IsPrefix(s, u) /\ (s = u => s = t)
<1>1. /\ Len(s) <= Len(t) /\ \A i \in 1..Len(s) : s[i] = t[i]
      /\ Len(t) <= Len(u) /\ \A i \in 1..Len(t) : t[i] = u[i]
      /\ Len(s) \in Nat /\ Len(t) \in Nat /\ Len(u) \in Nat
  BY PrefixByElements
<1>2. IsPrefix(s, u)
  BY <1>1, PrefixByElements
<1>3. ASSUME s = u PROVE s = t
  <2>1. Len(s) = Len(t)
    BY <1>1, <1>3
  <2>2. QED
    BY <1>1, <2>1, SeqEqual
<1>4. QED
  BY <1>2, <1>3

\* What was in a sequence is in a longer one.
LEMMA AppendSet ==
  ASSUME NEW S, NEW s \in Seq(S), NEW x \in S
  PROVE  ToSet(Append(s, x)) = ToSet(s) \cup {x}
<1>1. /\ DOMAIN s = 1..Len(s) /\ DOMAIN Append(s, x) = 1..(Len(s) + 1)
      /\ Append(s, x)[Len(s) + 1] = x /\ Len(s) \in Nat
      /\ \A i \in 1..Len(s) : Append(s, x)[i] = s[i]
  OBVIOUS
<1>2. QED
  BY <1>1 DEF ToSet

-----------------------------------------------------------------------------
(***************************************************************************)
(* The table of snapshots of one task.                                     *)
(***************************************************************************)
\* What a resume from the table restores.
Restores(table) ==
  IF DOMAIN table = {} THEN <<>>
  ELSE table[CHOOSE k \in DOMAIN table : IsLatest(table, k)].merged

OneHistory(table) ==
  /\ DOMAIN table # {} => \E k \in DOMAIN table : IsLatest(table, k)
  /\ Backend = "postgres" => \A k \in DOMAIN table : table[k].version = k
  /\ \A j, k \in DOMAIN table :
       j < k => /\ IsStrictPrefix(table[j].merged, table[k].merged)
                /\ IsStrictPrefix(table[j].log, table[k].log)

LEMMA RestoresLatest ==
  ASSUME NEW table, IsTable(table, State), NEW k, IsLatest(table, k)
  PROVE  Restores(table) = table[k].merged
<1>1. k \in DOMAIN table /\ \A j \in DOMAIN table : j \in Nat
  BY RowOfTable DEF IsLatest
<1> DEFINE c == CHOOSE j \in DOMAIN table : IsLatest(table, j)
<1>2. c \in DOMAIN table /\ IsLatest(table, c)
  BY <1>1
<1>3. c = k
  <2> HIDE DEF c
  <2>1. QED
    BY <1>1, <1>2 DEF IsLatest
<1>4. QED
  BY <1>1, <1>3 DEF Restores

LEMMA RestoresType ==
  ASSUME NEW table, IsTable(table, State), OneHistory(table)
  PROVE  Restores(table) \in Seq(Nodes)
<1>1. CASE DOMAIN table = {}
  BY <1>1 DEF Restores
<1>2. CASE DOMAIN table # {}
  <2>1. PICK k \in DOMAIN table : IsLatest(table, k)
    BY <1>2 DEF OneHistory
  <2>2. table[k] \in State
    BY RowOfTable
  <2>3. QED
    BY <2>1, <2>2, RestoresLatest DEF State
<1>3. QED
  BY <1>1, <1>2

\* Every snapshot is a part of what the latest restores.
LEMMA RestoresAll ==
  ASSUME NEW table, IsTable(table, State), OneHistory(table), NEW k \in DOMAIN table
  PROVE  IsPrefix(table[k].merged, Restores(table))
<1>1. PICK l \in DOMAIN table : IsLatest(table, l)
  BY DEF OneHistory
<1>2. /\ table[k] \in State /\ table[l] \in State /\ k \in Nat /\ l \in Nat /\ k <= l
  BY <1>1, RowOfTable DEF IsLatest
<1>3. table[k].merged \in Seq(Nodes)
  BY <1>2 DEF State
<1>4. CASE k = l
  BY <1>1, <1>3, <1>4, RestoresLatest, PrefixRefl
<1>5. CASE k < l
  BY <1>1, <1>5, RestoresLatest DEF OneHistory, IsStrictPrefix
<1>6. QED
  BY <1>2, <1>4, <1>5

\* A snapshot with one patch more, and more decisions than any there, becomes
\* the latest one and leaves those there as they are.
LEMMA PutSnapshot ==
  ASSUME NEW table, IsTable(table, State), OneHistory(table), NEW s \in State, NEW n \in Nodes,
         s.merged = Append(Restores(table), n), s.version = Len(s.merged) + 1,
         \A k \in DOMAIN table : table[k].version = Len(table[k].merged) + 1,
         \A k \in DOMAIN table : IsStrictPrefix(table[k].log, s.log)
  PROVE  LET grown == Put(table, s.version, s) IN
         /\ OneHistory(grown)
         /\ Restores(grown) = s.merged
         /\ \A k \in DOMAIN table : k \in DOMAIN grown /\ grown[k] = table[k]
<1> DEFINE grown == Put(table, s.version, s)
           key == IF Backend = "memory" THEN Len(table) + 1 ELSE s.version
<1>0. /\ Restores(table) \in Seq(Nodes) /\ s.merged \in Seq(Nodes) /\ s.version \in Nat
      /\ IsTable(grown, State)
  BY RestoresType, PutType DEF State
<1>a. \A k \in DOMAIN table : table[k] \in State
  BY RowOfTable
<1>1. /\ DOMAIN grown = DOMAIN table \cup {key} /\ grown[key] = s /\ key \in Nat
      /\ \A k \in DOMAIN table : grown[k] = table[k] /\ k < key
      /\ Backend = "postgres" => key = s.version
  <2>1. CASE Backend = "memory"
    <3>1. table \in Seq(State) /\ grown = Append(table, s)
      BY <2>1 DEF IsTable, Put
    <3>2. /\ DOMAIN table = 1..Len(table) /\ Len(table) \in Nat
          /\ DOMAIN grown = 1..(Len(table) + 1) /\ grown[Len(table) + 1] = s
          /\ \A k \in 1..Len(table) : grown[k] = table[k]
      BY <3>1
    <3>3. key = Len(table) + 1
      BY <2>1
    <3> HIDE DEF grown, key
    <3>4. QED
      BY <2>1, <3>2, <3>3
  <2>2. CASE Backend = "postgres"
    <3>1. key = s.version /\ DOMAIN table \subseteq Nat
      BY <2>2 DEF IsTable
    <3>2. ASSUME NEW k \in DOMAIN table PROVE k < s.version
      <4>1. IsPrefix(table[k].merged, Restores(table)) /\ table[k].merged \in Seq(Nodes)
        BY <1>a, RestoresAll DEF State
      <4>2. Len(table[k].merged) <= Len(Restores(table)) /\ Len(table[k].merged) \in Nat
        BY <1>0, <4>1, PrefixByElements
      <4>3. Len(s.merged) = Len(Restores(table)) + 1 /\ Len(Restores(table)) \in Nat
        BY <1>0
      <4>4. k = Len(table[k].merged) + 1
        BY <2>2 DEF OneHistory
      <4>5. QED
        BY <4>2, <4>3, <4>4
    <3>3. grown = [k \in DOMAIN table \cup {s.version} |-> IF k = s.version THEN s ELSE table[k]]
      BY <2>2 DEF Put
    <3>4. \A k \in DOMAIN table : k # s.version
      BY <1>0, <3>1, <3>2
    <3> HIDE DEF grown
    <3>5. QED
      BY <1>0, <2>2, <3>1, <3>2, <3>3, <3>4
  <2>3. QED
    BY <2>1, <2>2, BackendAssumption
<1> HIDE DEF grown, key
<1>2. \A k \in DOMAIN table : k \in Nat
  BY RowOfTable
<1>3. IsLatest(grown, key)
  BY <1>1, <1>2 DEF IsLatest
<1>4. Restores(grown) = s.merged
  BY <1>0, <1>1, <1>3, RestoresLatest
<1>5. ASSUME NEW j \in DOMAIN table
      PROVE  /\ IsStrictPrefix(table[j].merged, s.merged)
             /\ IsStrictPrefix(table[j].log, s.log)
  <2>1. IsPrefix(table[j].merged, Restores(table)) /\ table[j].merged \in Seq(Nodes)
    BY <1>a, RestoresAll DEF State
  <2>2. QED
    BY <1>0, <2>1, PrefixAppend DEF IsStrictPrefix
<1>6. ASSUME NEW j \in DOMAIN grown, NEW k \in DOMAIN grown, j < k
      PROVE  /\ IsStrictPrefix(grown[j].merged, grown[k].merged)
             /\ IsStrictPrefix(grown[j].log, grown[k].log)
  <2>1. j # key
    BY <1>1, <1>2, <1>6
  <2>2. j \in DOMAIN table /\ grown[j] = table[j]
    BY <1>1, <2>1
  <2>3. CASE k = key
    BY <1>1, <1>5, <2>2, <2>3
  <2>4. CASE k # key
    BY <1>1, <1>6, <2>2, <2>4 DEF OneHistory
  <2>5. QED
    BY <2>3, <2>4
<1>7. Backend = "postgres" => \A k \in DOMAIN grown : grown[k].version = k
  BY <1>1 DEF OneHistory
<1>8. OneHistory(grown)
  BY <1>1, <1>3, <1>6, <1>7 DEF OneHistory
<1>9. QED
  BY <1>1, <1>4, <1>8 DEF grown

-----------------------------------------------------------------------------
(***************************************************************************)
(* Where the steps of a run lead, and what each of them leaves alone.      *)
(***************************************************************************)
LEMMA Flow ==
  ASSUME TypeOK, NEW r \in Runs, RunStep(r)
  PROVE  /\ pc[r] \in Running /\ task' = task
         /\ pc[r] = "lookup" => pc'[r] \in {"refresh", "create"}
         /\ pc[r] \in {"create", "refresh"} => pc'[r] \in {"loop", "err_store"}
         /\ pc[r] = "loop" => pc'[r] \in {"deciding", "err_ai", "conclude"}
         /\ pc[r] = "deciding" =>
              pc'[r] \in {"err_ai", "loop", "conclude", "admit", "err_unknown"}
         /\ pc[r] = "admit" => pc'[r] \in {"loop", "panicked", "acquire"}
         /\ pc[r] = "acquire" => pc'[r] \in {"executing", "err_node"}
         /\ pc[r] = "executing" => pc'[r] \in {"err_node", "save_task", "err_patch"}
         /\ pc[r] = "save_task" => pc'[r] \in {"save_snapshot", "err_store"}
         /\ pc[r] = "save_snapshot" => pc'[r] \in {"save_step", "err_store"}
         /\ pc[r] = "save_step" =>
              \/ pc'[r] \in {"remember", "err_store"}
              \/ pc'[r] = "save_lineage" /\ Backend # "memory"
         /\ pc[r] = "save_lineage" => pc'[r] \in {"remember", "err_store"}
         /\ pc[r] = "remember" => pc'[r] = "loop"
         /\ pc[r] = "conclude" => pc'[r] = "read_record"
         /\ pc[r] = "read_record" => pc'[r] \in {"finalize", "err_store"}
         /\ pc[r] = "finalize" => pc'[r] = "save_summary"
         /\ pc[r] = "save_summary" => pc'[r] \in {"final_update", "err_store"}
         /\ pc[r] = "final_update" => pc'[r] \in {"ok", "err_store"}
<1> USE DEF TypeOK, RunTypeOK, Goto, runVars
<1>1. CASE \/ Lookup(r) \/ Create(r) \/ Refresh(r) \/ StepsExhausted(r) \/ Acquire(r)
           \/ ExecuteFails(r) \/ SaveTask(r) \/ SaveSnapshot(r) \/ SaveStep(r)
  BY <1>1 DEF Lookup, Create, Refresh, StepsExhausted, Acquire, ExecuteFails, SaveTask,
       SaveSnapshot, SaveStep, Write, Running
<1>2. CASE \/ SaveLineage(r) \/ RecordStep(r) \/ ReadRecord(r) \/ Finalize(r)
           \/ SaveSummary(r) \/ FinalUpdate(r) \/ Conclude(r)
  BY <1>2 DEF SaveLineage, RecordStep, ReadRecord, Finalize, SaveSummary, FinalUpdate,
       Conclude, Write, TryWrite, Running
<1>3. CASE BeginStep(r) \/ DecideFails(r) \/ DecidePlan(r) \/ DecideTerminate(r)
  BY <1>3 DEF BeginStep, DecideFails, DecidePlan, DecideTerminate, FailDecision,
       RecordRoute, Running
<1>4. ASSUME NEW n \in Nodes, DecideRoute(r, n)
      PROVE  /\ pc[r] = "deciding" /\ task' = task
             /\ pc'[r] \in {"conclude", "admit", "err_unknown"}
  BY <1>4 DEF DecideRoute
<1>5. CASE Admit(r) \/ ExecuteSucceeds(r)
  BY <1>5 DEF Admit, ExecuteSucceeds, RecordRejection, Running
<1>6. QED
  BY <1>1, <1>2, <1>3, <1>4, <1>5 DEF RunStep, Running

\* Every table is written at few places.
LEMMA Writes ==
  ASSUME TypeOK, NEW r \in Runs, RunStep(r)
  PROVE  /\ pc[r] # "save_snapshot" => snaps' = snaps
         /\ pc[r] # "save_step" => steps' = steps
         /\ pc[r] # "save_lineage" => lineage' = lineage
         /\ pc[r] # "save_summary" => summary' = summary
         /\ pc[r] \notin {"create", "refresh", "save_task", "final_update"} => row' = row
         /\ pc[r] # "deciding" => chosen' = chosen
         /\ pc[r] # "loop" => step' = step
         /\ crashes' = crashes
<1> USE DEF runVars, storeVars, procVars
<1>1. CASE \/ Lookup(r) \/ Create(r) \/ Refresh(r) \/ StepsExhausted(r) \/ Acquire(r)
           \/ ExecuteFails(r) \/ SaveTask(r) \/ SaveSnapshot(r) \/ SaveStep(r)
  BY <1>1 DEF Lookup, Create, Refresh, StepsExhausted, Acquire, ExecuteFails, SaveTask,
       SaveSnapshot, SaveStep
<1>2. CASE \/ SaveLineage(r) \/ RecordStep(r) \/ ReadRecord(r) \/ Finalize(r)
           \/ SaveSummary(r) \/ FinalUpdate(r) \/ Conclude(r)
  BY <1>2 DEF SaveLineage, RecordStep, ReadRecord, Finalize, SaveSummary, FinalUpdate,
       Conclude
<1>3. CASE BeginStep(r) \/ DecideFails(r) \/ DecidePlan(r) \/ DecideTerminate(r)
  BY <1>3 DEF BeginStep, DecideFails, DecidePlan, DecideTerminate
<1>4. ASSUME NEW n \in Nodes, DecideRoute(r, n)
      PROVE  /\ UNCHANGED <<storeVars, procVars, step>> /\ pc[r] = "deciding"
  BY <1>4 DEF DecideRoute
<1>5. CASE Admit(r) \/ ExecuteSucceeds(r)
  BY <1>5 DEF Admit, ExecuteSucceeds
<1>6. QED
  BY <1>1, <1>2, <1>3, <1>4, <1>5 DEF RunStep

\* What is written where a table is written.
LEMMA Written ==
  ASSUME TypeOK, NEW r \in Runs, RunStep(r)
  PROVE  /\ pc[r] = "save_snapshot" =>
              LET new == [snaps EXCEPT ![task[r]] = Put(@, st[r].version, st[r])] IN
              /\ snaps' = snaps \/ snaps' = new
              /\ pc'[r] = "save_step" => snaps' = new
              /\ Backend = "memory" => snaps' = new /\ pc'[r] = "save_step"
         /\ pc[r] = "save_step" =>
              LET new == [steps EXCEPT ![task[r]] = Put(@, step[r], StepRow(r))] IN
              /\ steps' = steps \/ steps' = new
              /\ pc'[r] = "save_lineage" => steps' = new
         /\ pc[r] = "save_lineage" =>
              \/ lineage' = lineage
              \/ lineage' = [lineage EXCEPT ![task[r]] = Put(@, step[r], StepRow(r))]
         /\ pc[r] = "save_summary" =>
              LET new == [summary EXCEPT ![task[r]] =
                            BuildSummary(st[r], record[r], reason[r])] IN
              /\ summary' = summary \/ summary' = new
              /\ pc'[r] = "final_update" => summary' = new
         /\ pc[r] \in {"create", "refresh", "save_task", "final_update"} =>
              /\ row' = row \/ row' = SaveRow(r, st[r])
              /\ pc'[r] # "err_store" => row' = SaveRow(r, st[r])
              /\ pc[r] = "create" /\ row' # row => row[task[r]].status = "absent"
              /\ Backend = "memory" /\ pc'[r] = "err_store" => row' = row
<1>1. pc \in [Runs -> {"idle"} \cup Running \cup Finished]
  BY DEF TypeOK, RunTypeOK
<1>2. CASE pc[r] = "save_snapshot"
  <2>1. SaveSnapshot(r)
    BY <1>2 DEF RunStep, Lookup, Create, Refresh, BeginStep, StepsExhausted,
         DecideFails, DecidePlan, DecideTerminate, DecideRoute, Admit, Acquire,
         ExecuteFails, ExecuteSucceeds, SaveTask, SaveStep, SaveLineage,
         RecordStep, Conclude, ReadRecord, Finalize, SaveSummary, FinalUpdate
  <2>2. QED
    BY <1>1, <1>2, <2>1 DEF SaveSnapshot, Write, Goto, CallFails
<1>3. CASE pc[r] = "save_step"
  <2>1. SaveStep(r)
    BY <1>3 DEF RunStep, Lookup, Create, Refresh, BeginStep, StepsExhausted,
         DecideFails, DecidePlan, DecideTerminate, DecideRoute, Admit, Acquire,
         ExecuteFails, ExecuteSucceeds, SaveTask, SaveSnapshot, SaveLineage,
         RecordStep, Conclude, ReadRecord, Finalize, SaveSummary, FinalUpdate
  <2>2. QED
    BY <1>1, <1>3, <2>1 DEF SaveStep, Write, Goto
<1>4. CASE pc[r] = "save_lineage"
  <2>1. SaveLineage(r)
    BY <1>4 DEF RunStep, Lookup, Create, Refresh, BeginStep, StepsExhausted,
         DecideFails, DecidePlan, DecideTerminate, DecideRoute, Admit, Acquire,
         ExecuteFails, ExecuteSucceeds, SaveTask, SaveSnapshot, SaveStep,
         RecordStep, Conclude, ReadRecord, Finalize, SaveSummary, FinalUpdate
  <2>2. QED
    BY <1>1, <1>4, <2>1 DEF SaveLineage, Write, Goto
<1>5. CASE pc[r] = "save_summary"
  <2>1. SaveSummary(r)
    BY <1>5 DEF RunStep, Lookup, Create, Refresh, BeginStep, StepsExhausted,
         DecideFails, DecidePlan, DecideTerminate, DecideRoute, Admit, Acquire,
         ExecuteFails, ExecuteSucceeds, SaveTask, SaveSnapshot, SaveStep, SaveLineage,
         RecordStep, Conclude, ReadRecord, Finalize, FinalUpdate
  <2>2. QED
    BY <1>1, <1>5, <2>1 DEF SaveSummary, Write, Goto
<1>6. CASE pc[r] \in {"create", "refresh", "save_task", "final_update"}
  <2>1. Create(r) \/ Refresh(r) \/ SaveTask(r) \/ FinalUpdate(r)
    BY <1>6 DEF RunStep, Lookup, BeginStep, StepsExhausted,
         DecideFails, DecidePlan, DecideTerminate, DecideRoute, Admit, Acquire,
         ExecuteFails, ExecuteSucceeds, SaveSnapshot, SaveStep, SaveLineage,
         RecordStep, Conclude, ReadRecord, Finalize, SaveSummary
  <2>2. QED
    BY <1>1, <1>6, <2>1 DEF Create, Refresh, SaveTask, FinalUpdate, Write, Goto, CallFails
<1>7. QED
  BY <1>2, <1>3, <1>4, <1>5, <1>6

\* A run writes to its own task only.
LEMMA OtherTasksKept ==
  ASSUME TypeOK, NEW r \in Runs, RunStep(r), NEW t \in Tasks, t # task[r]
  PROVE  /\ snaps'[t] = snaps[t] /\ steps'[t] = steps[t] /\ lineage'[t] = lineage[t]
         /\ summary'[t] = summary[t] /\ row'[t] = row[t]
<1>1. /\ DOMAIN snaps = Tasks /\ DOMAIN steps = Tasks /\ DOMAIN lineage = Tasks
      /\ DOMAIN summary = Tasks /\ DOMAIN row = Tasks
  BY DEF TypeOK, StoreTypeOK
<1>2. snaps'[t] = snaps[t]
  BY <1>1, Writes, Written
<1>3. steps'[t] = steps[t]
  BY <1>1, Writes, Written
<1>4. lineage'[t] = lineage[t]
  BY <1>1, Writes, Written
<1>5. summary'[t] = summary[t]
  BY <1>1, Writes, Written
<1>6. row'[t] = row[t]
  BY <1>1, Writes, Written DEF SaveRow
<1>7. QED
  BY <1>2, <1>3, <1>4, <1>5, <1>6

\* The callers write nothing to the store.
LEMMA CallersWriteNothing ==
  ASSUME NEW r \in Runs, Caller(r)
  PROVE  UNCHANGED <<snaps, steps, lineage, summary, row, crashes>>
  BY DEF Caller, Start, Resume, storeVars, procVars

\* No step of the environment but a crash of the memory store touches a table.
LEMMA EnvironmentKeeps ==
  ASSUME TypeOK, Environment
  PROVE  /\ UNCHANGED <<st, task, chosen, step>>
         /\ \A r \in Runs : pc'[r] = pc[r] \/ pc'[r] = "crashed"
         /\ \/ UNCHANGED <<snaps, steps, lineage, summary, row>>
            \/ /\ Backend = "memory" /\ crashes' # crashes /\ MaxCrashes # 0
               /\ \A r \in Runs : ~Active(r)'
               /\ snaps' = [t \in Tasks |-> EmptyTable]
               /\ steps' = [t \in Tasks |-> EmptyTable]
               /\ lineage' = [t \in Tasks |-> EmptyTable]
               /\ row' = [t \in Tasks |-> AbsentRow]
<1>1. CASE Crash
  <2>1. crashes \in Nat /\ MaxCrashes \in Nat
    BY BoundsAssumption DEF TypeOK, ProcTypeOK
  <2>2. crashes' # crashes /\ MaxCrashes # 0
    BY <1>1, <2>1 DEF Crash
  <2>3. \A r \in Runs : ~Active(r)' /\ (pc'[r] = pc[r] \/ pc'[r] = "crashed")
    BY <1>1 DEF Crash, Active, Running
  <2>4. UNCHANGED <<st, task, chosen, step>>
    BY <1>1 DEF Crash, runVars
  <2>5. QED
    BY <1>1, <2>2, <2>3, <2>4 DEF Crash, storeVars
<1>2. CASE ~Crash
  BY <1>2 DEF Environment, Expire, Cancel, Unload, Load, runVars, storeVars
<1>3. QED
  BY <1>1, <1>2

-----------------------------------------------------------------------------
(***************************************************************************)
(* One history per task.  While a run has a task, its state is what the    *)
(* latest snapshot restores, and one patch more between the merge and the  *)
(* snapshot; so the snapshot it adds extends the latest one, and the step  *)
(* it stores next names a node of it.  Nobody else writes in between.      *)
(***************************************************************************)
Exclusive == \A q, r \in Runs : Active(q) /\ Active(r) /\ task[q] = task[r] => q = r

Fresh ==
  /\ \A r \in Runs : pc[r] = "idle" => st[r] = New /\ task[r] = NoTask
  /\ \A t \in Tasks : (\A r \in Runs : task[r] # t) => snaps[t] = EmptyTable

TablesOf(t) ==
  /\ OneHistory(snaps[t])
  /\ \A i \in DOMAIN steps[t] : steps[t][i].node \in ToSet(Restores(snaps[t]))
  /\ DOMAIN lineage[t] \subseteq DOMAIN steps[t]

InStep == {"save_task", "save_snapshot"}

Decided == {"admit", "acquire", "executing", "save_task", "save_snapshot"}

\* What a run has in its hands agrees with the tables of its task.
RunKept(r) ==
  LET table == snaps[task[r]] IN
  Active(r) =>
    /\ pc[r] \notin InStep => st[r].merged = Restores(table)
    /\ pc[r] \in InStep => st[r].merged = Append(Restores(table), chosen[r])
    /\ \A k \in DOMAIN table : IsPrefix(table[k].log, st[r].log)
    /\ pc[r] \in Decided => \A k \in DOMAIN table : table[k].log # st[r].log
    /\ pc[r] \in {"save_step", "save_lineage"} => chosen[r] \in ToSet(st[r].merged)
    /\ pc[r] = "save_lineage" =>
         Backend # "memory" /\ step[r] \in DOMAIN steps[task[r]]

DurableInv ==
  /\ Exclusive /\ Fresh
  /\ \A t \in Tasks : TablesOf(t)
  /\ \A r \in Runs : RunKept(r)

LEMMA InitDurable == Init => DurableInv
<1> SUFFICES ASSUME Init PROVE DurableInv
  OBVIOUS
<1>1. Exclusive /\ Fresh /\ \A r \in Runs : RunKept(r)
  BY DEF Init, Exclusive, Fresh, RunKept, Active, Running
<1>2. ASSUME NEW t \in Tasks PROVE TablesOf(t)
  <2>1. snaps[t] = <<>> /\ steps[t] = <<>> /\ lineage[t] = <<>> /\ DOMAIN <<>> = {}
    BY DEF Init, EmptyTable
  <2>2. QED
    BY <2>1 DEF TablesOf, OneHistory
<1>3. QED
  BY <1>1, <1>2 DEF DurableInv

\* The snapshot a run adds fits what is there.
LEMMA SnapshotFits ==
  ASSUME TypeOK, HistoryInv, DurableInv, NEW r \in Runs, pc[r] = "save_snapshot"
  PROVE  LET table == snaps[task[r]]
             grown == Put(table, st[r].version, st[r])
         IN  /\ task[r] \in Tasks /\ chosen[r] \in Nodes
             /\ st[r].merged = Append(Restores(table), chosen[r])
             /\ Restores(table) \in Seq(Nodes)
             /\ IsTable(grown, State)
             /\ OneHistory(grown)
             /\ Restores(grown) = st[r].merged
             /\ \A k \in DOMAIN table : k \in DOMAIN grown /\ grown[k] = table[k]
<1> DEFINE table == snaps[task[r]]
<1>1. /\ task[r] \in Tasks /\ chosen[r] \in Nodes /\ st[r] \in State
      /\ Active(r)
  BY DEF TypeOK, ControlOK, RunTypeOK, Active, Running
<1>2. IsTable(table, State) /\ OneHistory(table)
  BY <1>1 DEF TypeOK, StoreTypeOK, DurableInv, TablesOf
<1>3. /\ st[r].merged = Append(Restores(table), chosen[r])
      /\ \A k \in DOMAIN table : IsStrictPrefix(table[k].log, st[r].log)
  BY <1>1 DEF DurableInv, RunKept, InStep, Decided, IsStrictPrefix
<1>4. /\ st[r].version = Len(st[r].merged) + 1
      /\ \A k \in DOMAIN table : table[k].version = Len(table[k].merged) + 1
  BY <1>1 DEF HistoryInv, Sound
<1>5. st[r].version \in Nat
  BY <1>1 DEF State
<1> HIDE DEF table
<1>6. Restores(table) \in Seq(Nodes) /\ IsTable(Put(table, st[r].version, st[r]), State)
  BY <1>1, <1>2, <1>5, RestoresType, PutType
<1>7. LET grown == Put(table, st[r].version, st[r]) IN
      /\ OneHistory(grown) /\ Restores(grown) = st[r].merged
      /\ \A k \in DOMAIN table : k \in DOMAIN grown /\ grown[k] = table[k]
  BY <1>1, <1>2, <1>3, <1>4, PutSnapshot
<1>8. QED
  BY <1>1, <1>3, <1>6, <1>7 DEF table

LEMMA StepTables ==
  ASSUME TypeOK, HistoryInv, DurableInv, NEW r \in Runs, RunStep(r), NEW t \in Tasks
  PROVE  TablesOf(t)'
<1>0. /\ TablesOf(t) /\ pc[r] \in Running /\ Active(r) /\ RunKept(r)
      /\ DOMAIN snaps = Tasks /\ DOMAIN steps = Tasks /\ DOMAIN lineage = Tasks
      /\ IsTable(steps[t], StepRecord) /\ IsTable(lineage[t], StepRecord)
  BY Flow DEF DurableInv, TypeOK, StoreTypeOK, Active
<1>1. CASE t # task[r]
  <2>1. snaps'[t] = snaps[t] /\ steps'[t] = steps[t] /\ lineage'[t] = lineage[t]
    BY <1>1, OtherTasksKept
  <2>2. QED
    BY <1>0, <2>1 DEF TablesOf
<1>2. CASE t = task[r] /\ pc[r] = "save_snapshot"
  <2> DEFINE grown == Put(snaps[t], st[r].version, st[r])
  <2>1. steps' = steps /\ lineage' = lineage /\ (snaps'[t] = snaps[t] \/ snaps'[t] = grown)
    BY <1>0, <1>2, Writes, Written
  <2>2. /\ OneHistory(grown) /\ Restores(grown) = Append(Restores(snaps[t]), chosen[r])
        /\ Restores(snaps[t]) \in Seq(Nodes) /\ chosen[r] \in Nodes
    BY <1>2, SnapshotFits
  <2> HIDE DEF grown
  <2>3. ToSet(Restores(snaps[t])) \subseteq ToSet(Restores(grown))
    BY <2>2, AppendSet
  <2>4. CASE snaps'[t] = snaps[t]
    BY <1>0, <2>1, <2>4 DEF TablesOf
  <2>5. CASE snaps'[t] = grown
    BY <1>0, <2>1, <2>2, <2>3, <2>5 DEF TablesOf
  <2>6. QED
    BY <2>1, <2>4, <2>5
<1>3. CASE t = task[r] /\ pc[r] = "save_step"
  <2> DEFINE grown == Put(steps[t], step[r], StepRow(r))
  <2>1. snaps' = snaps /\ lineage' = lineage /\ (steps'[t] = steps[t] \/ steps'[t] = grown)
    BY <1>0, <1>3, Writes, Written
  <2>2. StepRow(r).node \in ToSet(Restores(snaps[t]))
    BY <1>0, <1>3 DEF RunKept, InStep, StepRow
  <2>3. /\ \A i \in DOMAIN grown : \/ grown[i] = StepRow(r)
                                   \/ i \in DOMAIN steps[t] /\ grown[i] = steps[t][i]
    BY <1>0, PutElements
  <2>4. DOMAIN steps[t] \subseteq DOMAIN grown
    <3>1. CASE Backend = "memory"
      BY <1>0, <3>1 DEF IsTable, Put
    <3>2. CASE Backend # "memory"
      BY <3>2 DEF Put
    <3>3. QED
      BY <3>1, <3>2
  <2> HIDE DEF grown
  <2>5. CASE steps'[t] = steps[t]
    BY <1>0, <2>1, <2>5 DEF TablesOf
  <2>6. CASE steps'[t] = grown
    BY <1>0, <2>1, <2>2, <2>3, <2>4, <2>6 DEF TablesOf
  <2>7. QED
    BY <2>1, <2>5, <2>6
<1>4. CASE t = task[r] /\ pc[r] = "save_lineage"
  <2>1. /\ snaps' = snaps /\ steps' = steps
        /\ \/ lineage'[t] = lineage[t]
           \/ lineage'[t] = Put(lineage[t], step[r], StepRow(r))
    BY <1>0, <1>4, Writes, Written
  <2>2. Backend # "memory" /\ step[r] \in DOMAIN steps[t]
    BY <1>0, <1>4 DEF RunKept
  <2>3. DOMAIN lineage'[t] \subseteq DOMAIN steps[t]
    BY <1>0, <2>1, <2>2 DEF TablesOf, Put
  <2>4. QED
    BY <1>0, <2>1, <2>3 DEF TablesOf
<1>5. CASE t = task[r] /\ pc[r] \notin {"save_snapshot", "save_step", "save_lineage"}
  <2>1. snaps' = snaps /\ steps' = steps /\ lineage' = lineage
    BY <1>5, Writes
  <2>2. QED
    BY <1>0, <2>1 DEF TablesOf
<1>6. QED
  BY <1>1, <1>2, <1>3, <1>4, <1>5

LEMMA StepKept ==
  ASSUME TypeOK, HistoryInv, DurableInv, NEW r \in Runs, RunStep(r)
  PROVE  RunKept(r)'
<1> SUFFICES ASSUME Active(r)' PROVE RunKept(r)'
  BY DEF RunKept
<1> DEFINE t == task[r]
           table == snaps[t]
<1>0. /\ pc[r] \in Running /\ Active(r) /\ RunKept(r) /\ task' = task /\ t \in Tasks
      /\ DOMAIN snaps = Tasks /\ DOMAIN steps = Tasks
      /\ st[r] \in State /\ st[r].log \in Seq(DecisionRecord)
      /\ IsTable(table, State) /\ IsTable(steps[t], StepRecord)
      /\ pc'[r] \in Running
  <2>1. pc[r] \in Running /\ task' = task
    BY Flow
  <2>2. t \in Tasks /\ st[r] \in State
    BY <2>1 DEF TypeOK, ControlOK, RunTypeOK, Running
  <2>3. QED
    BY <2>1, <2>2 DEF DurableInv, TypeOK, StoreTypeOK, Active, State
<1>1. CASE pc[r] = "save_snapshot"
  <2> DEFINE grown == Put(table, st[r].version, st[r])
  <2>1. pc'[r] = "save_step"
    BY <1>0, <1>1, Flow DEF Running
  <2>2. snaps'[t] = grown
    BY <1>0, <1>1, <2>1, Written
  <2>3. /\ Restores(grown) = st[r].merged /\ chosen[r] \in Nodes
        /\ st[r].merged = Append(Restores(table), chosen[r])
        /\ Restores(table) \in Seq(Nodes)
    BY <1>1, SnapshotFits
  <2>4. chosen[r] \in ToSet(st[r].merged)
    BY <2>3, AppendSet
  <2>5. \A k \in DOMAIN grown : \/ grown[k] = st[r]
                                \/ k \in DOMAIN table /\ grown[k] = table[k]
    BY <1>0, PutElements
  <2>6. IsPrefix(st[r].log, st[r].log)
    BY <1>0, PrefixRefl
  <2>7. \A k \in DOMAIN table : IsPrefix(table[k].log, st[r].log)
    BY <1>0 DEF RunKept
  <2> HIDE DEF grown
  <2>8. \A k \in DOMAIN grown : IsPrefix(grown[k].log, st[r].log)
    BY <2>5, <2>6, <2>7
  <2>9. st'[r] = st[r] /\ chosen' = chosen
    BY <1>1, StateSteps, Writes
  <2>10. QED
    BY <1>0, <2>1, <2>2, <2>3, <2>4, <2>8, <2>9 DEF RunKept, InStep, Decided
<1>2. CASE pc[r] = "save_step"
  <2>1. st'[r] = st[r] /\ chosen' = chosen /\ snaps' = snaps /\ step' = step
    BY <1>2, StateSteps, Writes
  <2>2. \/ pc'[r] = "remember"
        \/ pc'[r] = "save_lineage" /\ Backend # "memory"
    BY <1>0, <1>2, Flow DEF Running
  <2>3. pc'[r] = "save_lineage" => step'[r] \in DOMAIN steps'[t]
    <3>1. CASE pc'[r] = "save_lineage"
      <4>1. steps' = [steps EXCEPT ![t] = Put(steps[t], step[r], StepRow(r))]
        BY <1>2, <3>1, Written
      <4>2. steps'[t] = Put(steps[t], step[r], StepRow(r))
        BY <1>0, <4>1
      <4>3. QED
        BY <2>1, <2>2, <3>1, <4>2 DEF Put
    <3>2. QED
      BY <3>1
  <2>4. QED
    BY <1>0, <1>2, <2>1, <2>2, <2>3 DEF RunKept, InStep, Decided
<1>3. CASE pc[r] = "executing"
  <2>1. pc'[r] = "save_task" /\ chosen' = chosen /\ snaps' = snaps
    BY <1>0, <1>3, Flow, Writes DEF Running
  <2>2. st'[r].merged = Append(st[r].merged, chosen[r]) /\ st'[r].log = st[r].log
    BY <1>3, <2>1, StateSteps
  <2>3. QED
    BY <1>0, <1>3, <2>1, <2>2 DEF RunKept, InStep, Decided
<1>4. CASE pc[r] = "deciding"
  <2>1. pc'[r] \in {"loop", "conclude", "admit"} /\ snaps' = snaps
    BY <1>0, <1>4, Flow, Writes DEF Running
  <2>2. /\ st'[r].merged = st[r].merged
        /\ \E d \in DecisionRecord : st'[r].log = Append(st[r].log, d)
    BY <1>4, <2>1, StateSteps
  <2>3. ASSUME NEW k \in DOMAIN table
        PROVE  IsPrefix(table[k].log, st'[r].log) /\ table[k].log # st'[r].log
    <3>1. table[k] \in State
      BY <1>0, RowOfTable
    <3>2. table[k].log \in Seq(DecisionRecord) /\ IsPrefix(table[k].log, st[r].log)
      BY <1>0, <3>1 DEF State, RunKept
    <3>3. QED
      BY <1>0, <2>2, <3>2, PrefixAppend
  <2>4. QED
    BY <1>0, <1>4, <2>1, <2>2, <2>3 DEF RunKept, InStep, Decided
<1>5. CASE pc[r] \in {"loop", "admit", "conclude"}
  <2>1. /\ pc'[r] \in {"deciding", "conclude", "loop", "acquire", "read_record"}
        /\ pc'[r] = "acquire" => pc[r] = "admit"
        /\ snaps' = snaps
    BY <1>0, <1>5, Flow, Writes DEF Running
  <2>2. st'[r].merged = st[r].merged /\ st'[r].log = st[r].log
    BY <1>5, StateSteps
  <2>3. QED
    BY <1>0, <1>5, <2>1, <2>2 DEF RunKept, InStep, Decided
<1>6. CASE pc[r] \in {"lookup", "create", "refresh", "acquire", "save_task", "save_lineage",
                      "remember", "read_record", "finalize", "save_summary",
                      "final_update"}
  <2>1. /\ pc'[r] \in {"refresh", "create", "loop", "executing", "save_snapshot",
                       "remember", "finalize", "save_summary", "final_update"}
        /\ pc'[r] = "executing" => pc[r] = "acquire"
        /\ pc'[r] = "save_snapshot" => pc[r] = "save_task"
        /\ pc[r] = "save_task" => pc'[r] = "save_snapshot"
    BY <1>0, <1>6, Flow DEF Running
  <2>2. st'[r] = st[r] /\ snaps' = snaps /\ chosen' = chosen
    BY <1>6, StateSteps, Writes
  <2>3. QED
    BY <1>0, <1>6, <2>1, <2>2 DEF RunKept, InStep, Decided
<1>7. QED
  BY <1>0, <1>1, <1>2, <1>3, <1>4, <1>5, <1>6 DEF Running

LEMMA StepDurable ==
  ASSUME TypeOK, HistoryInv, DurableInv, NEW r \in Runs, RunStep(r)
  PROVE  DurableInv'
<1>0. /\ Active(r) /\ task' = task /\ task[r] \in Tasks
      /\ \A q \in Runs \ {r} : /\ pc'[q] = pc[q] /\ st'[q] = st[q]
                               /\ chosen'[q] = chosen[q] /\ step'[q] = step[q]
  <2>1. pc[r] \in Running /\ task' = task
    BY Flow
  <2>2. QED
    BY <2>1, OthersKept DEF Active, TypeOK, ControlOK, Running
<1>1. \A q \in Runs : Active(q)' => Active(q)
  BY <1>0 DEF Active
<1>2. Exclusive'
  BY <1>0, <1>1 DEF DurableInv, Exclusive
<1>3. Fresh'
  <2>1. ASSUME NEW q \in Runs, pc'[q] = "idle" PROVE st'[q] = New /\ task'[q] = NoTask
    <3>1. q # r
      <4>1. pc'[r] # "idle"
        BY <1>0, Flow DEF Active, Running
      <4>2. QED
        BY <2>1, <4>1
    <3>2. QED
      BY <1>0, <2>1, <3>1 DEF DurableInv, Fresh
  <2>2. ASSUME NEW t \in Tasks, \A q \in Runs : task'[q] # t PROVE snaps'[t] = EmptyTable
    <3>1. t # task[r]
      BY <1>0, <2>2
    <3>2. QED
      BY <1>0, <2>2, <3>1, OtherTasksKept DEF DurableInv, Fresh
  <2>3. QED
    BY <2>1, <2>2 DEF Fresh
<1>4. ASSUME NEW q \in Runs PROVE RunKept(q)'
  <2>1. CASE q = r
    BY <2>1, StepKept
  <2>2. CASE q # r /\ Active(q)
    <3>1. task[q] # task[r] /\ task[q] \in Tasks
      BY <1>0, <2>2 DEF DurableInv, Exclusive, Active, Running, TypeOK, ControlOK
    <3>2. snaps'[task[q]] = snaps[task[q]] /\ steps'[task[q]] = steps[task[q]]
      BY <3>1, OtherTasksKept
    <3>3. RunKept(q)
      BY DEF DurableInv
    <3>4. QED
      BY <1>0, <2>2, <3>2, <3>3 DEF RunKept, Active
  <2>3. CASE q # r /\ ~Active(q)
    BY <1>1, <2>3 DEF RunKept
  <2>4. QED
    BY <2>1, <2>2, <2>3
<1>5. QED
  BY <1>2, <1>3, <1>4, StepTables DEF DurableInv

LEMMA CallerDurable ==
  ASSUME ExclusiveRuns, TypeOK, DurableInv, NEW r \in Runs, Caller(r)
  PROVE  DurableInv'
<1>0. UNCHANGED <<snaps, steps, lineage>>
  BY CallersWriteNothing
<1>1. /\ \A q \in Runs \ {r} : /\ pc'[q] = pc[q] /\ st'[q] = st[q] /\ task'[q] = task[q]
                               /\ chosen'[q] = chosen[q] /\ step'[q] = step[q]
      /\ pc[r] = "idle" /\ pc'[r] = "lookup"
  BY OthersKept DEF Caller, Start, Resume, Goto, TypeOK, RunTypeOK
<1>2. /\ task'[r] \in Tasks /\ \A q \in Runs : task[q] = task'[r] => ~Active(q)
  <2>1. ASSUME NEW t \in Tasks, Start(r, t) PROVE task'[r] = t
    BY <2>1 DEF Start, TypeOK, RunTypeOK
  <2>2. ASSUME NEW t \in Tasks, Resume(r, t) PROVE task'[r] = t
    BY <2>2 DEF Resume, TypeOK, RunTypeOK
  <2>3. QED
    BY <2>1, <2>2 DEF Caller, Start, Resume
<1>3. Exclusive'
  BY <1>1, <1>2 DEF DurableInv, Exclusive, Active, Running
<1>4. Fresh'
  <2>1. ASSUME NEW t \in Tasks, \A q \in Runs : task'[q] # t PROVE snaps'[t] = EmptyTable
    <3>1. \A q \in Runs : task[q] # t
      <4>1. task[r] = NoTask /\ NoTask # t
        BY <1>1, TasksAssumption DEF DurableInv, Fresh, NoTask
      <4>2. QED
        BY <1>1, <2>1, <4>1
    <3>2. QED
      BY <1>0, <3>1 DEF DurableInv, Fresh
  <2>2. QED
    BY <1>1, <2>1 DEF DurableInv, Fresh
<1>5. \A t \in Tasks : TablesOf(t)'
  BY <1>0 DEF DurableInv, TablesOf
<1>6. ASSUME NEW q \in Runs PROVE RunKept(q)'
  <2>1. CASE q # r
    <3>1. /\ pc'[q] = pc[q] /\ st'[q] = st[q] /\ task'[q] = task[q]
          /\ chosen'[q] = chosen[q] /\ step'[q] = step[q]
      BY <1>1, <2>1
    <3>2. RunKept(q)
      BY DEF DurableInv
    <3>3. QED
      BY <1>0, <3>1, <3>2 DEF RunKept, Active
  <2>2. CASE q = r
    <3> SUFFICES /\ st'[r].merged = Restores(snaps[task'[r]])
                 /\ \A k \in DOMAIN snaps[task'[r]] :
                      IsPrefix(snaps[task'[r]][k].log, st'[r].log)
      BY <1>0, <1>1, <2>2 DEF RunKept, InStep, Decided
    <3>1. ASSUME NEW t \in Tasks, Start(r, t)
          PROVE  /\ st'[r].merged = Restores(snaps[t]) /\ task'[r] = t
                 /\ \A k \in DOMAIN snaps[t] : IsPrefix(snaps[t][k].log, st'[r].log)
      <4>1. st'[r] = New /\ snaps[t] = <<>> /\ task'[r] = t /\ DOMAIN <<>> = {}
        BY <1>1, <3>1 DEF Start, DurableInv, Fresh, EmptyTable, TypeOK, RunTypeOK
      <4>2. QED
        BY <4>1 DEF New, Restores
    <3>2. ASSUME NEW t \in Tasks, Resume(r, t)
          PROVE  /\ st'[r].merged = Restores(snaps[t]) /\ task'[r] = t
                 /\ \A k \in DOMAIN snaps[t] : IsPrefix(snaps[t][k].log, st'[r].log)
      <4>1. PICK k \in DOMAIN snaps[t] :
              /\ IsLatest(snaps[t], k)
              /\ st' = [st EXCEPT ![r] = [snaps[t][k] EXCEPT !.status = "running"]]
        BY <3>2 DEF Resume
      <4>2. IsTable(snaps[t], State) /\ task'[r] = t /\ OneHistory(snaps[t])
        BY <3>2 DEF TypeOK, StoreTypeOK, RunTypeOK, Resume, DurableInv, TablesOf
      <4>3. \A j \in DOMAIN snaps[t] : snaps[t][j] \in State /\ j \in Nat
        BY <4>2, RowOfTable
      <4>4. st'[r].merged = snaps[t][k].merged /\ st'[r].log = snaps[t][k].log
        BY <4>1, <4>3, StateChanges DEF TypeOK, RunTypeOK
      <4>5. ASSUME NEW j \in DOMAIN snaps[t]
            PROVE  IsPrefix(snaps[t][j].log, snaps[t][k].log)
        <5>1. CASE j = k
          BY <4>3, <5>1, PrefixRefl DEF State
        <5>2. CASE j < k
          BY <4>2, <5>2 DEF OneHistory, IsStrictPrefix
        <5>3. QED
          BY <4>1, <4>3, <5>1, <5>2 DEF IsLatest
      <4>6. QED
        BY <4>1, <4>2, <4>4, <4>5, RestoresLatest
    <3>3. QED
      BY <3>1, <3>2 DEF Caller
  <2>3. QED
    BY <2>1, <2>2
<1>7. QED
  BY <1>3, <1>4, <1>5, <1>6 DEF DurableInv

LEMMA EnvironmentDurable ==
  ASSUME TypeOK, DurableInv, Environment
  PROVE  DurableInv'
<1>1. /\ UNCHANGED <<st, task, chosen, step>>
      /\ \A r \in Runs : pc'[r] = pc[r] \/ pc'[r] = "crashed"
  BY EnvironmentKeeps
<1>2. CASE UNCHANGED <<snaps, steps, lineage>>
  BY <1>1, <1>2 DEF DurableInv, Exclusive, Fresh, TablesOf, RunKept, Active, Running
<1>3. CASE ~UNCHANGED <<snaps, steps, lineage>>
  <2>1. /\ \A r \in Runs : ~Active(r)'
        /\ snaps' = [t \in Tasks |-> EmptyTable]
        /\ steps' = [t \in Tasks |-> EmptyTable]
        /\ lineage' = [t \in Tasks |-> EmptyTable]
    BY <1>3, EnvironmentKeeps
  <2>2. Exclusive' /\ Fresh' /\ \A r \in Runs : RunKept(r)'
    BY <1>1, <2>1 DEF DurableInv, Exclusive, Fresh, RunKept
  <2>3. ASSUME NEW t \in Tasks PROVE TablesOf(t)'
    <3>1. snaps'[t] = <<>> /\ steps'[t] = <<>> /\ lineage'[t] = <<>> /\ DOMAIN <<>> = {}
      BY <2>1 DEF EmptyTable
    <3>2. QED
      BY <3>1 DEF TablesOf, OneHistory
  <2>4. QED
    BY <2>2, <2>3 DEF DurableInv
<1>4. QED
  BY <1>2, <1>3

LEMMA NextDurable ==
  ASSUME ExclusiveRuns, TypeOK, HistoryInv, DurableInv, [Next]_vars
  PROVE  DurableInv'
<1>1. CASE UNCHANGED vars
  BY <1>1 DEF vars, runVars, storeVars, DurableInv, Exclusive, Fresh, TablesOf, RunKept,
     Active
<1>2. QED
  BY <1>1, StepDurable, CallerDurable, EnvironmentDurable DEF Next, Terminating

LEMMA DurableCorrect == Spec => [](TypeOK /\ HistoryInv /\ (ExclusiveRuns => DurableInv))
<1>1. Init => TypeOK /\ HistoryInv /\ (ExclusiveRuns => DurableInv)
  BY InitTypeOK, InitHistory, InitDurable
<1>2. /\ TypeOK /\ HistoryInv /\ (ExclusiveRuns => DurableInv) /\ [Next]_vars
      => (TypeOK /\ HistoryInv /\ (ExclusiveRuns => DurableInv))'
  BY NextType, NextHistory, NextDurable
<1>3. QED
  BY <1>1, <1>2, PTL DEF Spec

\* With one run at a time per task, every later snapshot of a task extends
\* every earlier one, patches and decisions, across any crashes and resumes
\* (engine.go:196-204, resume.go:19-28).
THEOREM SnapshotsAreOneHistory ==
  ASSUME ExclusiveRuns
  PROVE  Spec => []SnapshotsFormOneHistory
<1>1. DurableInv => SnapshotsFormOneHistory
  BY DEF DurableInv, TablesOf, OneHistory, SnapshotsFormOneHistory
<1>2. QED
  BY <1>1, DurableCorrect, PTL

\* With one run at a time per task, the steps and the lineage of a task never
\* claim a node that a resume of it would not find (engine.go:196-214).
THEOREM StepsCanBeRestored ==
  ASSUME ExclusiveRuns
  PROVE  Spec => []StepsAreRestorable
<1>1. TypeOK /\ DurableInv => StepsAreRestorable
  <2> SUFFICES ASSUME TypeOK, DurableInv, NEW t \in Tasks
               PROVE  /\ \A i \in DOMAIN steps[t] : \E k \in DOMAIN snaps[t] :
                           /\ IsLatest(snaps[t], k)
                           /\ steps[t][i].node \in ToSet(snaps[t][k].merged)
                      /\ DOMAIN lineage[t] \subseteq DOMAIN steps[t]
    BY DEF StepsAreRestorable
  <2>1. TablesOf(t) /\ IsTable(snaps[t], State)
    BY DEF DurableInv, TypeOK, StoreTypeOK
  <2>2. ASSUME NEW i \in DOMAIN steps[t]
        PROVE  \E k \in DOMAIN snaps[t] : /\ IsLatest(snaps[t], k)
                                          /\ steps[t][i].node \in ToSet(snaps[t][k].merged)
    <3>1. steps[t][i].node \in ToSet(Restores(snaps[t]))
      BY <2>1 DEF TablesOf
    <3>2. DOMAIN snaps[t] # {}
      BY <3>1 DEF Restores, ToSet
    <3>3. PICK k \in DOMAIN snaps[t] : IsLatest(snaps[t], k)
      BY <2>1, <3>2 DEF TablesOf, OneHistory
    <3>4. QED
      BY <2>1, <3>1, <3>3, RestoresLatest
  <2>3. QED
    BY <2>1, <2>2 DEF TablesOf
<1>2. QED
  BY <1>1, DurableCorrect, PTL

-----------------------------------------------------------------------------
(***************************************************************************)
(* What a resume restores only grows.                                      *)
(***************************************************************************)
LEMMA HistoryGrows ==
  ASSUME TypeOK, HistoryInv, DurableInv, NEW r \in Runs, RunStep(r), NEW t \in Tasks
  PROVE  \/ snaps'[t] = snaps[t]
         \/ /\ t = task[r] /\ pc[r] = "save_snapshot" /\ chosen[r] \in Nodes
            /\ Restores(snaps[t]) \in Seq(Nodes)
            /\ Restores(snaps'[t]) = Append(Restores(snaps[t]), chosen[r])
            /\ Restores(snaps'[t]) = st[r].merged
            /\ \A k \in DOMAIN snaps[t] :
                 k \in DOMAIN snaps'[t] /\ snaps'[t][k] = snaps[t][k]
<1>1. CASE t # task[r]
  BY <1>1, OtherTasksKept
<1>2. CASE pc[r] # "save_snapshot"
  BY <1>2, Writes
<1>3. CASE t = task[r] /\ pc[r] = "save_snapshot"
  <2>1. \/ snaps'[t] = snaps[t]
        \/ snaps'[t] = Put(snaps[t], st[r].version, st[r])
    BY <1>3, Written DEF TypeOK, StoreTypeOK
  <2>2. QED
    BY <1>3, <2>1, SnapshotFits
<1>4. QED
  BY <1>1, <1>2, <1>3

\* Also when many runs share a task, the memory store appends.
LEMMA MemoryAppends ==
  ASSUME Backend = "memory", TypeOK, NEW r \in Runs, RunStep(r), NEW t \in Tasks,
         NEW k \in DOMAIN snaps[t]
  PROVE  k \in DOMAIN snaps'[t] /\ snaps'[t][k] = snaps[t][k]
<1>1. CASE pc[r] # "save_snapshot"
  BY <1>1, Writes
<1>2. CASE pc[r] = "save_snapshot"
  <2>1. DOMAIN snaps = Tasks /\ snaps[t] \in Seq(State)
    BY DEF TypeOK, StoreTypeOK, IsTable
  <2>2. snaps'[t] = snaps[t] \/ snaps'[t] = Append(snaps[t], st[r])
    BY <1>2, <2>1, Written DEF Put
  <2>3. \A x : k \in DOMAIN Append(snaps[t], x) /\ Append(snaps[t], x)[k] = snaps[t][k]
    BY <2>1
  <2>4. QED
    BY <2>2, <2>3
<1>3. QED
  BY <1>1, <1>2

LEMMA NextKeepsSnapshots ==
  ASSUME ExclusiveRuns \/ Backend = "memory",
         TypeOK, HistoryInv, ExclusiveRuns => DurableInv, [Next]_vars
  PROVE  \/ Backend = "memory" /\ crashes' # crashes
         \/ \A t \in Tasks : \A k \in DOMAIN snaps[t] :
              k \in DOMAIN snaps'[t] /\ snaps'[t][k] = snaps[t][k]
<1>1. ASSUME NEW r \in Runs, RunStep(r), NEW t \in Tasks, NEW k \in DOMAIN snaps[t]
      PROVE  k \in DOMAIN snaps'[t] /\ snaps'[t][k] = snaps[t][k]
  BY <1>1, HistoryGrows, MemoryAppends
<1>2. ASSUME NEW r \in Runs, Caller(r) PROVE snaps' = snaps
  BY <1>2, CallersWriteNothing
<1>3. ASSUME Environment PROVE (Backend = "memory" /\ crashes' # crashes) \/ snaps' = snaps
  BY <1>3, EnvironmentKeeps
<1>4. CASE UNCHANGED vars
  BY <1>4 DEF vars, storeVars
<1>5. QED
  BY <1>1, <1>2, <1>3, <1>4 DEF Next, Terminating

\* No snapshot is rewritten or lost while its store lives: in the memory store
\* however many runs share a task, in postgres as long as they do not
\* (store.go:103-114, postgres.go:85-96).
THEOREM SnapshotsStay ==
  ASSUME ExclusiveRuns \/ Backend = "memory"
  PROVE  Spec => SnapshotsAreFinal
<1>1. TypeOK /\ HistoryInv /\ (ExclusiveRuns => DurableInv) /\ [Next]_vars =>
      [\/ Backend = "memory" /\ crashes' # crashes
       \/ \A t \in Tasks : \A k \in DOMAIN snaps[t] :
            k \in DOMAIN snaps'[t] /\ snaps'[t][k] = snaps[t][k]]_vars
  BY NextKeepsSnapshots
<1>2. QED
  BY <1>1, DurableCorrect, PTL DEF Spec, SnapshotsAreFinal

-----------------------------------------------------------------------------
(***************************************************************************)
(* What a run that returned its summary had merged was in the snapshots    *)
(* when it returned, and those only grow, unless the store dies with the   *)
(* process.                                                                *)
(***************************************************************************)
ReturnedInv ==
  \A r \in Runs : pc[r] = "ok" => IsPrefix(st[r].merged, Restores(snaps[task[r]]))

LEMMA NextReturned ==
  ASSUME Backend = "postgres" \/ MaxCrashes = 0,
         TypeOK, HistoryInv, DurableInv, ReturnedInv, [Next]_vars
  PROVE  ReturnedInv'
<1>1. CASE UNCHANGED vars
  BY <1>1 DEF vars, runVars, storeVars, ReturnedInv
<1>2. ASSUME NEW r \in Runs, RunStep(r) PROVE ReturnedInv'
  <2> SUFFICES ASSUME NEW q \in Runs, pc'[q] = "ok"
               PROVE  IsPrefix(st'[q].merged, Restores(snaps'[task'[q]]))
    BY DEF ReturnedInv
  <2>0. task' = task /\ st[q].merged \in Seq(Nodes)
    BY <1>2, Flow DEF TypeOK, RunTypeOK, State
  <2>1. CASE q = r
    <3>1. pc[r] = "final_update"
      BY <1>2, <2>1, Flow DEF Running
    <3>2. st'[r] = st[r] /\ snaps' = snaps
      BY <1>2, <3>1, StateSteps, Writes
    <3>3. st[r].merged = Restores(snaps[task[r]])
      BY <3>1 DEF DurableInv, RunKept, Active, Running, InStep
    <3>4. QED
      BY <2>0, <2>1, <3>2, <3>3, PrefixRefl
  <2>2. CASE q # r
    <3>1. pc[q] = "ok" /\ st'[q] = st[q]
      BY <1>2, <2>2, OthersKept
    <3>2. task[q] \in Tasks /\ IsPrefix(st[q].merged, Restores(snaps[task[q]]))
      BY <3>1 DEF ReturnedInv, TypeOK, ControlOK
    <3>3. CASE snaps'[task[q]] = snaps[task[q]]
      BY <2>0, <3>1, <3>2, <3>3
    <3>4. CASE snaps'[task[q]] # snaps[task[q]]
      <4>1. /\ chosen[r] \in Nodes /\ Restores(snaps[task[q]]) \in Seq(Nodes)
            /\ Restores(snaps'[task[q]]) = Append(Restores(snaps[task[q]]), chosen[r])
        BY <1>2, <3>2, <3>4, HistoryGrows
      <4>2. QED
        BY <2>0, <3>1, <3>2, <4>1, PrefixAppend
    <3>5. QED
      BY <3>3, <3>4
  <2>3. QED
    BY <2>1, <2>2
<1>3. ASSUME NEW r \in Runs, Caller(r) PROVE ReturnedInv'
  <2>1. snaps' = snaps /\ pc'[r] # "ok"
    BY <1>3, CallersWriteNothing DEF Caller, Start, Resume, Goto, TypeOK, RunTypeOK
  <2>2. \A q \in Runs \ {r} : pc'[q] = pc[q] /\ st'[q] = st[q] /\ task'[q] = task[q]
    BY <1>3, OthersKept
  <2>3. QED
    BY <2>1, <2>2 DEF ReturnedInv
<1>4. ASSUME Environment PROVE ReturnedInv'
  BY <1>4, EnvironmentKeeps DEF ReturnedInv
<1>5. QED
  BY <1>1, <1>2, <1>3, <1>4 DEF Next, Terminating

\* What a run that returned its summary merged can still be restored, whatever
\* later runs of its task did, wherever the store outlives the process
\* (engine.go:196-250, resume.go:19-28).
THEOREM ReturnedWorkStays ==
  ASSUME ExclusiveRuns, Backend = "postgres" \/ MaxCrashes = 0
  PROVE  Spec => []ReturnedWorkIsRestorable
<1>1. Init => ReturnedInv
  BY DEF Init, ReturnedInv
<1>2. TypeOK /\ HistoryInv /\ (ExclusiveRuns => DurableInv) /\ ReturnedInv /\ [Next]_vars
      => ReturnedInv'
  BY NextReturned
<1>3. TypeOK /\ (ExclusiveRuns => DurableInv) /\ ReturnedInv => ReturnedWorkIsRestorable
  <2> SUFFICES ASSUME TypeOK, DurableInv, ReturnedInv, NEW r \in Runs, pc[r] = "ok",
                      st[r].merged # <<>>
               PROVE  \E k \in DOMAIN snaps[task[r]] :
                        /\ IsLatest(snaps[task[r]], k)
                        /\ IsPrefix(st[r].merged, snaps[task[r]][k].merged)
    BY DEF ReturnedWorkIsRestorable
  <2>1. /\ task[r] \in Tasks /\ st[r].merged \in Seq(Nodes)
        /\ IsPrefix(st[r].merged, Restores(snaps[task[r]]))
    BY DEF TypeOK, ControlOK, RunTypeOK, State, ReturnedInv
  <2>2. IsTable(snaps[task[r]], State) /\ OneHistory(snaps[task[r]])
    BY <2>1 DEF TypeOK, StoreTypeOK, DurableInv, TablesOf
  <2>3. DOMAIN snaps[task[r]] # {}
    <3>1. SUFFICES ASSUME DOMAIN snaps[task[r]] = {} PROVE FALSE
      OBVIOUS
    <3>2. IsPrefix(st[r].merged, <<>>)
      BY <2>1, <3>1 DEF Restores
    <3>3. <<>> \in Seq(Nodes) /\ Len(<<>>) = 0
      OBVIOUS
    <3>4. Len(st[r].merged) <= 0
      BY <2>1, <3>2, <3>3, PrefixByElements
    <3>5. QED
      BY <2>1, <3>4
  <2>4. PICK k \in DOMAIN snaps[task[r]] : IsLatest(snaps[task[r]], k)
    BY <2>2, <2>3 DEF OneHistory
  <2>5. QED
    BY <2>1, <2>2, <2>4, RestoresLatest
<1>4. QED
  BY <1>1, <1>2, <1>3, DurableCorrect, PTL DEF Spec

-----------------------------------------------------------------------------
(***************************************************************************)
(* The verdict.  A run keeps the row of its task open from its first write *)
(* to its last, which comes after the summary with the same status.        *)
(***************************************************************************)
Open == {"pending", "running"}
Entering == {"lookup", "create", "refresh"}
Concluded == {"read_record", "finalize", "save_summary", "final_update"}

SummaryOf(r) ==
  Active(r) =>
    /\ pc[r] \notin Concluded => st[r].status \in Open
    /\ pc[r] \notin Entering => row[task[r]].status \in Open
    /\ pc[r] = "final_update" => summary[task[r]].status = st[r].status

SummaryInv == VerdictIsSummarised /\ \A r \in Runs : SummaryOf(r)

LEMMA StoredStatus ==
  ASSUME NEW s \in State, NEW r \in Runs
  PROVE  StoredRow(s, r).status = s.status
  BY DEF StoredRow, AbsentRow, State

\* The status of the row after a step of its run.
LEMMA StatusWritten ==
  ASSUME TypeOK, NEW r \in Runs, RunStep(r),
         pc[r] \in {"create", "refresh", "save_task", "final_update"}
  PROVE  /\ row'[task[r]].status = st[r].status \/ row' = row
         /\ pc'[r] # "err_store" => row'[task[r]].status = st[r].status
<1>1. task[r] \in Tasks /\ st[r] \in State /\ DOMAIN row = Tasks
  BY DEF TypeOK, ControlOK, RunTypeOK, StoreTypeOK
<1>2. \/ row' = row
      \/ row' = [row EXCEPT ![task[r]] = StoredRow(st[r], r)]
  BY Written DEF SaveRow
<1>3. pc'[r] # "err_store" => row' = [row EXCEPT ![task[r]] = StoredRow(st[r], r)]
  BY Written DEF SaveRow
<1>4. QED
  BY <1>1, <1>2, <1>3, StoredStatus

LEMMA StepSummary ==
  ASSUME TypeOK, HistoryInv, DurableInv, SummaryInv, NEW r \in Runs, RunStep(r)
  PROVE  SummaryInv'
<1> DEFINE t == task[r]
<1>0. /\ pc[r] \in Running /\ Active(r) /\ task' = task /\ t \in Tasks /\ st[r] \in State
      /\ DOMAIN summary = Tasks /\ SummaryOf(r)
  BY Flow DEF TypeOK, ControlOK, RunTypeOK, StoreTypeOK, Active, Running, SummaryInv
<1>1. ASSUME NEW u \in Tasks, row'[u].status \in TerminalStatus
      PROVE  summary'[u].status = row'[u].status
  <2>1. CASE u # t
    BY <1>1, <2>1, OtherTasksKept DEF SummaryInv, VerdictIsSummarised
  <2>2. CASE u = t /\ pc[r] = "save_summary"
    <3>1. row' = row /\ row[t].status \in Open
      BY <1>0, <2>2, Writes DEF SummaryOf, Entering
    <3>2. QED
      BY <1>1, <2>2, <3>1 DEF Open, TerminalStatus
  <2>3. CASE u = t /\ pc[r] \in {"create", "refresh", "save_task", "final_update"}
    <3>1. summary' = summary
      BY <2>3, Writes
    <3>2. CASE row' = row
      BY <1>1, <3>1, <3>2 DEF SummaryInv, VerdictIsSummarised
    <3>3. CASE row' # row
      <4>1. row'[t].status = st[r].status
        BY <2>3, <3>3, StatusWritten
      <4>2. pc[r] = "final_update"
        BY <1>0, <1>1, <2>3, <4>1 DEF SummaryOf, Concluded, Open, TerminalStatus
      <4>3. QED
        BY <1>0, <2>3, <3>1, <4>1, <4>2 DEF SummaryOf
    <3>4. QED
      BY <3>2, <3>3
  <2>4. CASE /\ u = t
             /\ pc[r] \notin {"create", "refresh", "save_task", "final_update", "save_summary"}
    BY <1>1, <2>4, Writes DEF SummaryInv, VerdictIsSummarised
  <2>5. QED
    BY <2>1, <2>2, <2>3, <2>4
<1>2. ASSUME pc'[r] \in Running PROVE SummaryOf(r)'
  <2>1. pc'[r] \notin Concluded => st'[r].status \in Open
    <3>1. CASE pc[r] = "conclude"
      BY <1>2, <3>1, Flow DEF Concluded
    <3>2. CASE pc[r] = "executing"
      BY <1>2, <3>2, StateSteps DEF Open, Running
    <3>3. CASE pc[r] \in {"loop", "deciding", "admit"}
      <4>1. st'[r].status = st[r].status
        BY <1>2, <3>3, StateSteps DEF Running
      <4>2. QED
        BY <1>0, <3>3, <4>1 DEF SummaryOf, Concluded
    <3>4. CASE pc[r] \in Concluded
      BY <1>2, <3>4, Flow DEF Concluded, Running
    <3>5. CASE pc[r] \notin Concluded \cup {"conclude", "executing", "loop", "deciding", "admit"}
      <4>1. st'[r] = st[r]
        BY <3>5, StateSteps
      <4>2. QED
        BY <1>0, <3>5, <4>1 DEF SummaryOf
    <3>6. QED
      BY <3>1, <3>2, <3>3, <3>4, <3>5
  <2>2. pc'[r] \notin Entering => row'[t].status \in Open
    <3>1. CASE pc[r] \in {"create", "refresh", "save_task"}
      <4>1. row'[t].status = st[r].status
        BY <1>2, <3>1, Flow, StatusWritten DEF Running
      <4>2. QED
        BY <1>0, <3>1, <4>1 DEF SummaryOf, Concluded
    <3>2. CASE pc[r] = "lookup"
      BY <3>2, Flow DEF Entering
    <3>3. CASE pc[r] \notin {"create", "refresh", "save_task", "lookup"}
      <4>1. pc[r] # "final_update"
        BY <1>2, Flow DEF Running
      <4>2. row' = row
        BY <3>3, <4>1, Writes
      <4>3. QED
        BY <1>0, <3>3, <4>2 DEF SummaryOf, Entering
    <3>4. QED
      BY <3>1, <3>2, <3>3
  <2>3. pc'[r] = "final_update" => summary'[t].status = st'[r].status
    <3> SUFFICES ASSUME pc'[r] = "final_update"
                 PROVE  summary'[t].status = st'[r].status
      OBVIOUS
    <3>1. pc[r] = "save_summary"
      BY <1>0, Flow DEF Running
    <3>2. summary'[t] = BuildSummary(st[r], record[r], reason[r]) /\ st'[r] = st[r]
      BY <1>0, <3>1, StateSteps, Written
    <3>3. QED
      BY <3>2 DEF BuildSummary
  <2>4. QED
    BY <1>0, <2>1, <2>2, <2>3 DEF SummaryOf
<1>3. ASSUME NEW q \in Runs PROVE SummaryOf(q)'
  <2>1. CASE q = r
    BY <1>2, <2>1 DEF SummaryOf, Active
  <2>2. CASE q # r
    <3>1. pc'[q] = pc[q] /\ st'[q] = st[q] /\ task'[q] = task[q] /\ SummaryOf(q)
      BY <2>2, OthersKept DEF SummaryInv
    <3>2. CASE Active(q)
      <4>1. task[q] # task[r] /\ task[q] \in Tasks
        BY <1>0, <2>2, <3>2 DEF DurableInv, Exclusive, Active, Running, TypeOK, ControlOK
      <4>2. summary'[task[q]] = summary[task[q]] /\ row'[task[q]] = row[task[q]]
        BY <4>1, OtherTasksKept
      <4>3. QED
        BY <3>1, <4>2 DEF SummaryOf, Active
    <3>3. CASE ~Active(q)
      BY <3>1, <3>3 DEF SummaryOf, Active
    <3>4. QED
      BY <3>2, <3>3
  <2>3. QED
    BY <2>1, <2>2
<1>4. QED
  BY <1>1, <1>3 DEF SummaryInv, VerdictIsSummarised

LEMMA CallerSummary ==
  ASSUME TypeOK, DurableInv, SummaryInv, NEW r \in Runs, Caller(r)
  PROVE  SummaryInv'
<1>1. UNCHANGED <<row, summary, snaps>> /\ pc[r] = "idle" /\ pc'[r] = "lookup"
  BY CallersWriteNothing DEF Caller, Start, Resume, Goto, TypeOK, RunTypeOK
<1>2. \A q \in Runs \ {r} : pc'[q] = pc[q] /\ st'[q] = st[q] /\ task'[q] = task[q]
  BY OthersKept
<1>3. st'[r].status \in Open
  <2>1. ASSUME NEW t \in Tasks, Start(r, t) PROVE st'[r].status = "pending"
    BY <1>1, <2>1 DEF Start, DurableInv, Fresh, New
  <2>2. ASSUME NEW t \in Tasks, Resume(r, t) PROVE st'[r].status = "running"
    <3>1. PICK k \in DOMAIN snaps[t] :
            st' = [st EXCEPT ![r] = [snaps[t][k] EXCEPT !.status = "running"]]
      BY <2>2 DEF Resume
    <3>2. snaps[t][k] \in State
      BY RowOfTable DEF TypeOK, StoreTypeOK
    <3>3. QED
      BY <3>1, <3>2, StateChanges DEF TypeOK, RunTypeOK
  <2>3. QED
    BY <2>1, <2>2 DEF Caller, Open
<1>4. ASSUME NEW q \in Runs PROVE SummaryOf(q)'
  <2>1. CASE q = r
    BY <1>1, <1>3, <2>1 DEF SummaryOf, Entering
  <2>2. CASE q # r
    <3>1. SummaryOf(q) /\ pc'[q] = pc[q] /\ st'[q] = st[q] /\ task'[q] = task[q]
      BY <1>2, <2>2 DEF SummaryInv
    <3>2. QED
      BY <1>1, <3>1 DEF SummaryOf, Active
  <2>3. QED
    BY <2>1, <2>2
<1>5. QED
  BY <1>1, <1>4 DEF SummaryInv, VerdictIsSummarised

LEMMA NextSummary ==
  ASSUME TypeOK, HistoryInv, DurableInv, SummaryInv, [Next]_vars
  PROVE  SummaryInv'
<1>1. CASE UNCHANGED vars
  BY <1>1 DEF vars, runVars, storeVars, SummaryInv, SummaryOf, VerdictIsSummarised, Active
<1>2. ASSUME Environment PROVE SummaryInv'
  <2>1. CASE UNCHANGED <<row, summary>>
    BY <1>2, <2>1, EnvironmentKeeps DEF SummaryInv, SummaryOf, VerdictIsSummarised, Active,
       Running
  <2>2. CASE ~UNCHANGED <<row, summary>>
    <3>1. row' = [t \in Tasks |-> AbsentRow] /\ \A r \in Runs : ~Active(r)'
      BY <1>2, <2>2, EnvironmentKeeps
    <3>2. QED
      BY <3>1 DEF SummaryInv, SummaryOf, VerdictIsSummarised, AbsentRow, TerminalStatus
  <2>3. QED
    BY <2>1, <2>2
<1>3. QED
  BY <1>1, <1>2, StepSummary, CallerSummary DEF Next, Terminating

LEMMA SummaryCorrect == Spec => [](ExclusiveRuns => SummaryInv)
<1>1. Init => SummaryInv
  BY DEF Init, SummaryInv, SummaryOf, VerdictIsSummarised, Active, Running, AbsentRow,
     TerminalStatus
<1>2. /\ TypeOK /\ HistoryInv /\ (ExclusiveRuns => DurableInv)
      /\ (ExclusiveRuns => SummaryInv) /\ [Next]_vars
      => (ExclusiveRuns => SummaryInv)'
  BY NextSummary
<1>3. QED
  BY <1>1, <1>2, DurableCorrect, PTL DEF Spec

\* With one run at a time per task, whoever reads a verdict finds the summary
\* with the same status, at every crash point and after every resume
\* (engine.go:243-249).
THEOREM VerdictHasSummary ==
  ASSUME ExclusiveRuns
  PROVE  Spec => []VerdictIsSummarised
<1>1. SummaryInv => VerdictIsSummarised
  BY DEF SummaryInv
<1>2. QED
  BY <1>1, SummaryCorrect, PTL

-----------------------------------------------------------------------------
(***************************************************************************)
(* The engine over its store implements DurableTask: what a reader of the  *)
(* store finds of a task is its phase and its history.                     *)
(***************************************************************************)
Phases == [t \in Tasks |-> DurablePhase(t)]
Histories == [t \in Tasks |-> DurableHistory(t)]

PhaseOf(status) ==
  CASE status = "absent" -> "unknown"
    [] status \in TerminalStatus -> "closed"
    [] OTHER -> "open"

LEMMA PhaseOfStatus ==
  /\ PhaseOf("absent") = "unknown"
  /\ \A status \in TerminalStatus : PhaseOf(status) = "closed"
  /\ \A status \in Open : PhaseOf(status) = "open"
  BY DEF PhaseOf, TerminalStatus, Open

LEMMA Seen ==
  /\ Phases = [t \in Tasks |-> PhaseOf(row[t].status)]
  /\ Phases' = [t \in Tasks |-> PhaseOf(row'[t].status)]
  /\ Histories = [t \in Tasks |-> Restores(snaps[t])]
  /\ Histories' = [t \in Tasks |-> Restores(snaps'[t])]
<1>1. \A t \in Tasks : /\ DurablePhase(t) = PhaseOf(row[t].status)
                       /\ DurablePhase(t)' = PhaseOf(row'[t].status)
  BY DEF DurablePhase, PhaseOf
<1>2. \A t \in Tasks : /\ DurableHistory(t) = Restores(snaps[t])
                       /\ DurableHistory(t)' = Restores(snaps'[t])
  BY DEF DurableHistory, Restores
<1>3. QED
  BY <1>1, <1>2 DEF Phases, Histories

\* The instance has its own copies of the operators on rules and sequences.
LEMMA SameOperators ==
  /\ \A n, patches : Durable!Allows(n, patches) <=> Allows(n, patches)
  /\ \A s : Durable!ToSet(s) = ToSet(s)
<1>1. Durable!Evaluate = Evaluate
  BY DEF Durable!Evaluate, Evaluate, Durable!EvaluateRule, EvaluateRule
<1>2. Durable!Allowing = Allowing
  BY <1>1 DEF Durable!Allowing, Allowing
<1>3. QED
  BY <1>2 DEF Durable!Allows, Allows, Durable!ToSet, ToSet

\* What the rules allowed of the last patch of a justified sequence.
LEMMA LastJustified ==
  ASSUME NEW s \in Seq(Nodes), NEW n \in Nodes, Justified(Append(s, n))
  PROVE  Allows(n, ToSet(s))
<1> DEFINE m == Append(s, n)
           i == Len(s) + 1
<1>1. /\ Len(s) \in Nat /\ Len(m) = i /\ m[i] = n /\ DOMAIN s = 1..Len(s)
      /\ \A j \in 1..Len(s) : m[j] = s[j]
  OBVIOUS
<1>2. Before(m, i) = ToSet(s)
  <2>1. i - 1 = Len(s)
    BY <1>1
  <2>2. Before(m, i) = {m[j] : j \in 1..Len(s)}
    BY <2>1 DEF Before
  <2>3. ToSet(s) = {s[j] : j \in 1..Len(s)}
    BY <1>1 DEF ToSet
  <2> HIDE DEF m
  <2>4. QED
    BY <1>1, <2>2, <2>3
<1>3. i \in 1..Len(m)
  BY <1>1
<1> HIDE DEF m, i
<1>4. Allows(m[i], Before(m, i))
  BY <1>3 DEF Justified, m
<1>5. QED
  BY <1>1, <1>2, <1>4

\* A step that concerns one task is a step on the phase and history of it.
LEMMA OneTask ==
  ASSUME NEW t \in Tasks,
         \A u \in Tasks \ {t} : row'[u] = row[u] /\ snaps'[u] = snaps[u]
  PROVE  /\ Phases' = [Phases EXCEPT ![t] = PhaseOf(row'[t].status)]
         /\ Histories' = [Histories EXCEPT ![t] = Restores(snaps'[t])]
         /\ Phases[t] = PhaseOf(row[t].status) /\ Histories[t] = Restores(snaps[t])
  BY Seen

\* Nothing a reader sees changes.
LEMMA NothingSeen ==
  ASSUME \A t \in Tasks : row'[t] = row[t] /\ snaps'[t] = snaps[t]
  PROVE  UNCHANGED Durable!vars
<1>1. Phases' = Phases /\ Histories' = Histories
  BY Seen
<1>2. QED
  BY <1>1 DEF Phases, Histories, Durable!vars

\* A snapshot that is stored commits the patch of its node.
LEMMA SnapshotCommits ==
  ASSUME TypeOK, HistoryInv, DurableInv, SummaryInv, NEW r \in Runs, RunStep(r),
         pc[r] = "save_snapshot"
  PROVE  [Durable!Next]_(Durable!vars)
<1> DEFINE t == task[r]
<1>1. t \in Tasks /\ row' = row /\ st[r].merged \in Seq(Nodes) /\ Active(r)
  BY Writes DEF TypeOK, ControlOK, RunTypeOK, State, Active, Running
<1>2. CASE snaps'[t] = snaps[t]
  <2>1. \A u \in Tasks : snaps'[u] = snaps[u]
    BY <1>2, OtherTasksKept
  <2>2. QED
    BY <1>1, <2>1, NothingSeen
<1>3. CASE snaps'[t] # snaps[t]
  <2> DEFINE h == Restores(snaps[t])
             n == chosen[r]
  <2>1. /\ n \in Nodes /\ h \in Seq(Nodes) /\ Restores(snaps'[t]) = Append(h, n)
        /\ st[r].merged = Append(h, n)
    BY <1>1, <1>3, HistoryGrows
  <2>2. Allows(n, ToSet(h))
    BY <2>1, LastJustified DEF HistoryInv, Sound
  <2>3. PhaseOf(row[t].status) = "open"
    BY <1>1, PhaseOfStatus DEF SummaryInv, SummaryOf, Entering
  <2>4. \A u \in Tasks \ {t} : row'[u] = row[u] /\ snaps'[u] = snaps[u]
    BY <1>1, OtherTasksKept
  <2> HIDE DEF h, n, t
  <2>5. Phases[t] = "open" /\ Histories[t] = h
    BY <1>1, <2>3, Seen DEF h
  <2>6. Histories' = [Histories EXCEPT ![t] = Append(h, n)]
    BY <1>1, <2>1, <2>4, OneTask
  <2>7. Phases' = Phases
    BY <1>1, Seen
  <2>8. Durable!Commit(t, n)
    BY <2>2, <2>5, <2>6, <2>7, SameOperators DEF Durable!Commit, Phases, Histories
  <2>9. QED
    BY <1>1, <2>1, <2>8 DEF Durable!Next
<1>4. QED
  BY <1>2, <1>3

\* A row that is stored accepts a task, reopens it, closes it, or says what it
\* said before.
LEMMA RowMovesPhase ==
  ASSUME TypeOK, SummaryInv, NEW r \in Runs, RunStep(r),
         pc[r] \in {"create", "refresh", "save_task", "final_update"}
  PROVE  [Durable!Next]_(Durable!vars)
<1> DEFINE t == task[r]
<1>1. /\ t \in Tasks /\ snaps' = snaps /\ Active(r) /\ SummaryOf(r)
      /\ row[t].status \in Open \cup TerminalStatus \cup {"absent"}
  <2>1. t \in Tasks /\ row[t] \in Row
    BY DEF TypeOK, ControlOK, StoreTypeOK
  <2>2. QED
    BY <2>1, Writes DEF SummaryInv, Active, Running, Row, TaskStatus, TerminalStatus, Open
<1>2. CASE row' = row
  BY <1>1, <1>2, NothingSeen
<1>3. CASE row' # row
  <2>1. row'[t].status = st[r].status
    BY <1>3, StatusWritten
  <2>2. \A u \in Tasks \ {t} : row'[u] = row[u] /\ snaps'[u] = snaps[u]
    BY <1>1, OtherTasksKept
  <2>3. /\ Phases' = [Phases EXCEPT ![t] = PhaseOf(st[r].status)]
        /\ Phases[t] = PhaseOf(row[t].status)
        /\ Histories' = Histories
    BY <1>1, <2>1, <2>2, OneTask, Seen
  <2>4. /\ st[r].status \in Open => PhaseOf(st[r].status) = "open"
        /\ st[r].status \in TerminalStatus => PhaseOf(st[r].status) = "closed"
    BY PhaseOfStatus
  <2>5. Phases[t] \in {"unknown", "open", "closed"}
    BY <1>1, <2>3, PhaseOfStatus
  <2>6. CASE pc[r] = "final_update"
    <3>1. st[r].status \in TerminalStatus /\ row[t].status \in Open
      BY <1>1, <2>6 DEF TypeOK, ControlOK, SummaryOf, Entering
    <3>2. Phases[t] = "open" /\ Phases' = [Phases EXCEPT ![t] = "closed"]
      BY <1>1, <2>3, <2>4, <3>1, PhaseOfStatus
    <3>3. Durable!Close(t)
      BY <2>3, <3>2 DEF Durable!Close, Phases, Histories
    <3>4. QED
      BY <1>1, <3>3 DEF Durable!Next
  <2>7. CASE pc[r] # "final_update"
    <3>1. st[r].status \in Open
      BY <1>1, <2>7 DEF SummaryOf, Concluded
    <3>2. Phases' = [Phases EXCEPT ![t] = "open"]
      BY <2>3, <2>4, <3>1
    <3>3. CASE Phases[t] = "unknown"
      <4>1. Durable!Accept(t)
        BY <2>3, <3>2, <3>3 DEF Durable!Accept, Phases, Histories
      <4>2. QED
        BY <1>1, <4>1 DEF Durable!Next
    <3>4. CASE Phases[t] = "closed"
      <4>1. Durable!Reopen(t)
        BY <2>3, <3>2, <3>4 DEF Durable!Reopen, Phases, Histories
      <4>2. QED
        BY <1>1, <4>1 DEF Durable!Next
    <3>5. CASE Phases[t] = "open"
      <4>1. Phases' = Phases
        BY <3>2, <3>5 DEF Phases
      <4>2. QED
        BY <2>3, <4>1 DEF Durable!vars, Phases, Histories
    <3>6. QED
      BY <2>5, <3>3, <3>4, <3>5
  <2>8. QED
    BY <2>6, <2>7
<1>4. QED
  BY <1>2, <1>3

\* The memory store is lost with the process.
LEMMA CrashForgets ==
  ASSUME TypeOK, Environment
  PROVE  [Durable!Next]_(Durable!vars)
<1>1. CASE UNCHANGED <<row, snaps>>
  BY <1>1, NothingSeen
<1>2. CASE ~UNCHANGED <<row, snaps>>
  <2>1. /\ Backend = "memory"
        /\ row' = [t \in Tasks |-> AbsentRow] /\ snaps' = [t \in Tasks |-> EmptyTable]
    BY <1>2, EnvironmentKeeps
  <2>2. ASSUME NEW t \in Tasks
        PROVE  PhaseOf(row'[t].status) = "unknown" /\ Restores(snaps'[t]) = <<>>
    <3>1. row'[t].status = "absent" /\ snaps'[t] = <<>> /\ DOMAIN <<>> = {}
      BY <2>1 DEF AbsentRow, EmptyTable
    <3>2. QED
      BY <3>1, PhaseOfStatus DEF Restores
  <2>3. /\ Phases' = [t \in Tasks |-> "unknown"]
        /\ Histories' = [t \in Tasks |-> <<>>]
    BY <2>2, Seen
  <2>4. Durable!Forget
    BY <2>1, <2>3 DEF Durable!Forget, Durable!Init, Phases, Histories
  <2>5. QED
    BY <2>4 DEF Durable!Next
<1>3. QED
  BY <1>1, <1>2

LEMMA StepImplements ==
  ASSUME TypeOK, HistoryInv, DurableInv, SummaryInv, [Next]_vars
  PROVE  [Durable!Next]_(Durable!vars)
<1>1. CASE UNCHANGED vars
  BY <1>1, NothingSeen DEF vars, storeVars
<1>2. ASSUME NEW r \in Runs, RunStep(r) PROVE [Durable!Next]_(Durable!vars)
  <2>1. CASE pc[r] = "save_snapshot"
    BY <1>2, <2>1, SnapshotCommits
  <2>2. CASE pc[r] \in {"create", "refresh", "save_task", "final_update"}
    BY <1>2, <2>2, RowMovesPhase
  <2>3. CASE pc[r] \notin {"save_snapshot", "create", "refresh", "save_task", "final_update"}
    BY <1>2, <2>3, Writes, NothingSeen
  <2>4. QED
    BY <2>1, <2>2, <2>3
<1>3. ASSUME NEW r \in Runs, Caller(r) PROVE [Durable!Next]_(Durable!vars)
  BY <1>3, CallersWriteNothing, NothingSeen
<1>4. QED
  BY <1>1, <1>2, <1>3, CrashForgets DEF Next, Terminating

\* With one run at a time per task, the engine over either store implements
\* the durable task, whatever crashes, is refused or loses its reply
\* (engine.go:59-251, router.go:62-84, 116-128).
THEOREM EngineIsDurable ==
  ASSUME ExclusiveRuns
  PROVE  Spec => ImplementsDurableTask
<1>1. Init => Durable!Init
  <2> SUFFICES ASSUME Init PROVE Durable!Init
    OBVIOUS
  <2>1. ASSUME NEW t \in Tasks
        PROVE  PhaseOf(row[t].status) = "unknown" /\ Restores(snaps[t]) = <<>>
    <3>1. row[t].status = "absent" /\ snaps[t] = <<>> /\ DOMAIN <<>> = {}
      BY DEF Init, AbsentRow, EmptyTable
    <3>2. QED
      BY <3>1, PhaseOfStatus DEF Restores
  <2>2. /\ Phases = [t \in Tasks |-> "unknown"]
        /\ Histories = [t \in Tasks |-> <<>>]
    BY <2>1, Seen
  <2>3. QED
    BY <2>2 DEF Durable!Init, Phases, Histories
<1>2. /\ TypeOK /\ HistoryInv /\ (ExclusiveRuns => DurableInv)
      /\ (ExclusiveRuns => SummaryInv) /\ [Next]_vars
      => [Durable!Next]_(Durable!vars)
  BY StepImplements
<1>3. QED
  BY <1>1, <1>2, DurableCorrect, SummaryCorrect, PTL
     DEF Spec, ImplementsDurableTask, Durable!Spec

-----------------------------------------------------------------------------
(***************************************************************************)
(* The row of the memory store, which shares its maps with the run that    *)
(* stored it.  From its first write to its last a run holds the row of its *)
(* task, so whoever adds a snapshot moves the row along.                   *)
(***************************************************************************)
PaceOf(t) ==
  LET kept == Restores(snaps[t]) IN
  /\ row[t].status = "absent" => row[t].maps = {}
  /\ row[t].status # "absent" =>
       /\ row[t].version \in {Len(kept) + 1, Len(kept) + 2}
       /\ \A k \in DOMAIN snaps[t] : IsPrefix(snaps[t][k].log, row[t].log)
  /\ \A r \in row[t].maps :
       /\ task[r] = t
       /\ IsPrefix(kept, st[r].merged)
       /\ Len(st[r].merged) <= Len(kept) + 1
       /\ pc[r] = "ok" => st[r].merged = kept

RowHeld(r) ==
  Active(r) /\ pc[r] \notin Entering =>
    /\ row[task[r]].maps = {r}
    /\ row[task[r]].status # "absent"
    /\ pc[r] = "save_snapshot" => /\ row[task[r]].version = Len(st[r].merged) + 1
                                  /\ row[task[r]].log = st[r].log

PaceInv == (\A t \in Tasks : PaceOf(t)) /\ \A r \in Runs : RowHeld(r)

LEMMA HistoryIsRestored ==
  ASSUME NEW t \in Tasks
  PROVE  DurableHistory(t) = Restores(snaps[t])
  BY DEF DurableHistory, Restores

\* What the memory store is given.
LEMMA RowGiven ==
  ASSUME Backend = "memory", TypeOK, NEW r \in Runs, RunStep(r), pc'[r] # "err_store",
         pc[r] \in {"create", "refresh", "save_task", "final_update"}
  PROVE  /\ row'[task[r]].status = st[r].status /\ st[r].status # "absent"
         /\ row'[task[r]].version = st[r].version
         /\ row'[task[r]].log = st[r].log /\ row'[task[r]].maps = {r}
<1>1. task[r] \in Tasks /\ st[r] \in State /\ DOMAIN row = Tasks
  BY DEF TypeOK, ControlOK, RunTypeOK, StoreTypeOK
<1>2. row'[task[r]] = StoredRow(st[r], r)
  BY <1>1, Written DEF SaveRow
<1>3. StoredRow(st[r], r) = [status |-> st[r].status, version |-> st[r].version,
                             log |-> st[r].log, maps |-> {r}]
  BY DEF StoredRow
<1>4. st[r].status # "absent"
  BY <1>1 DEF State, TaskStatus
<1>5. QED
  BY <1>2, <1>3, <1>4

\* The patches in the hands of a run, and the one more of a run in a step.
LEMMA HandsOf ==
  ASSUME TypeOK, HistoryInv, DurableInv, NEW r \in Runs, Active(r)
  PROVE  LET kept == Restores(snaps[task[r]]) IN
         /\ task[r] \in Tasks /\ kept \in Seq(Nodes) /\ st[r].merged \in Seq(Nodes)
         /\ st[r].version = Len(st[r].merged) + 1
         /\ IsPrefix(kept, st[r].merged)
         /\ Len(kept) \in Nat
         /\ pc[r] \notin InStep => st[r].merged = kept
         /\ pc[r] \in InStep => Len(st[r].merged) = Len(kept) + 1
<1> DEFINE kept == Restores(snaps[task[r]])
<1>1. task[r] \in Tasks /\ st[r].merged \in Seq(Nodes) /\ RunKept(r)
  BY DEF TypeOK, ControlOK, RunTypeOK, State, Active, Running, DurableInv
<1>2. IsTable(snaps[task[r]], State) /\ OneHistory(snaps[task[r]])
  BY <1>1 DEF TypeOK, StoreTypeOK, DurableInv, TablesOf
<1>3. kept \in Seq(Nodes)
  BY <1>2, RestoresType
<1>4. st[r].version = Len(st[r].merged) + 1
  BY DEF HistoryInv, Sound
<1> HIDE DEF kept
<1>5. CASE pc[r] \notin InStep
  <2>1. st[r].merged = kept
    BY <1>1, <1>5 DEF RunKept, kept
  <2>2. QED
    BY <1>1, <1>3, <1>4, <1>5, <2>1, PrefixRefl DEF kept
<1>6. CASE pc[r] \in InStep
  <2>1. chosen[r] \in Nodes /\ st[r].merged = Append(kept, chosen[r])
    BY <1>1, <1>6 DEF RunKept, InStep, TypeOK, ControlOK, kept
  <2>2. IsPrefix(kept, kept)
    BY <1>3, PrefixRefl
  <2>3. IsPrefix(kept, st[r].merged) /\ Len(st[r].merged) = Len(kept) + 1
    BY <1>3, <2>1, <2>2, PrefixAppend
  <2>4. QED
    BY <1>1, <1>3, <1>4, <1>6, <2>3 DEF kept
<1>7. QED
  BY <1>5, <1>6

\* A step that leaves the row and the snapshots of a task alone.
LEMMA PaceKept ==
  ASSUME NEW t \in Tasks, PaceOf(t), row'[t] = row[t], snaps'[t] = snaps[t],
         \A q \in row[t].maps :
           /\ task'[q] = task[q] /\ st'[q].merged = st[q].merged
           /\ pc'[q] = "ok" => pc[q] = "ok"
  PROVE  PaceOf(t)'
  BY DEF PaceOf

LEMMA StepPace ==
  ASSUME Backend = "memory", TypeOK, HistoryInv, DurableInv, PaceInv,
         NEW r \in Runs, RunStep(r), NEW t \in Tasks
  PROVE  PaceOf(t)'
<1> DEFINE kept == Restores(snaps[t])
<1>0. /\ PaceOf(t) /\ row[t].maps \subseteq Runs /\ task' = task /\ Active(r)
      /\ \A q \in Runs \ {r} : st'[q] = st[q] /\ pc'[q] = pc[q]
      /\ \A q \in row[t].maps : task[q] = t
      /\ pc[r] \in Running
  <2>1. row[t] \in Row
    BY DEF TypeOK, StoreTypeOK
  <2>2. QED
    BY <2>1, Flow, OthersKept DEF PaceInv, PaceOf, Row, Active
<1>1. CASE t # task[r]
  <2>1. row'[t] = row[t] /\ snaps'[t] = snaps[t]
    BY <1>1, OtherTasksKept
  <2>2. \A q \in row[t].maps : q \in Runs \ {r}
    BY <1>0, <1>1
  <2>3. QED
    BY <1>0, <2>1, <2>2, PaceKept
<1>2. CASE t = task[r] /\ pc[r] = "save_snapshot"
  <2>1. /\ row' = row /\ st'[r] = st[r] /\ pc'[r] = "save_step"
        /\ snaps'[t] = Put(snaps[t], st[r].version, st[r])
    BY <1>2, Writes, Written, StateSteps DEF TypeOK, StoreTypeOK
  <2>2. /\ row[t].maps = {r} /\ row[t].status # "absent"
        /\ row[t].version = Len(st[r].merged) + 1 /\ row[t].log = st[r].log
    BY <1>0, <1>2 DEF PaceInv, RowHeld, Entering
  <2>3. Restores(snaps'[t]) = st[r].merged
    BY <1>2, <2>1, SnapshotFits
  <2>4. \A k \in DOMAIN snaps'[t] : IsPrefix(snaps'[t][k].log, st[r].log)
    <3>1. RunKept(r)' /\ Active(r)'
      BY <2>1, StepKept DEF Active, Running
    <3>2. QED
      BY <1>0, <1>2, <2>1, <3>1 DEF RunKept
  <2>5. st[r].merged \in Seq(Nodes) /\ Len(st[r].merged) \in Nat
    BY DEF TypeOK, RunTypeOK, State
  <2>6. IsPrefix(st[r].merged, st[r].merged)
    BY <2>5, PrefixRefl
  <2>7. QED
    BY <1>0, <1>2, <2>1, <2>2, <2>3, <2>4, <2>5, <2>6 DEF PaceOf
<1>3. CASE /\ t = task[r] /\ pc'[r] # "err_store"
           /\ pc[r] \in {"create", "refresh", "save_task", "final_update"}
  <2>1. /\ row'[t].status # "absent" /\ row'[t].version = st[r].version
        /\ row'[t].log = st[r].log /\ row'[t].maps = {r}
    BY <1>3, RowGiven
  <2>2. snaps' = snaps /\ st'[r] = st[r]
    BY <1>3, Writes, StateSteps
  <2>3. pc'[r] = "ok" => pc[r] = "final_update"
    BY <1>3, Flow
  <2>4. \A k \in DOMAIN snaps[t] : IsPrefix(snaps[t][k].log, st[r].log)
    BY <1>0, <1>3 DEF DurableInv, RunKept
  <2>5. /\ kept \in Seq(Nodes) /\ st[r].merged \in Seq(Nodes)
        /\ st[r].version = Len(st[r].merged) + 1
        /\ IsPrefix(kept, st[r].merged) /\ Len(kept) \in Nat
        /\ pc[r] # "save_task" => st[r].merged = kept
        /\ pc[r] = "save_task" => Len(st[r].merged) = Len(kept) + 1
    BY <1>0, <1>3, HandsOf DEF InStep
  <2> HIDE DEF kept
  <2>6. /\ st[r].version \in {Len(kept) + 1, Len(kept) + 2}
        /\ Len(st[r].merged) <= Len(kept) + 1
    BY <2>5
  <2>7. QED
    BY <1>0, <1>3, <2>1, <2>2, <2>3, <2>4, <2>5, <2>6 DEF PaceOf, kept
<1>4. CASE t = task[r] /\ pc[r] = "executing"
  <2>1. row' = row /\ snaps' = snaps /\ pc'[r] # "ok"
    BY <1>4, Writes, Flow
  <2>2. /\ chosen[r] \in Nodes /\ kept \in Seq(Nodes) /\ st[r].merged = kept
        /\ Len(kept) \in Nat /\ IsPrefix(kept, kept)
    <3>1. kept \in Seq(Nodes) /\ st[r].merged = kept
      BY <1>0, <1>4, HandsOf DEF InStep
    <3>2. QED
      BY <1>4, <3>1, PrefixRefl DEF TypeOK, ControlOK
  <2>3. st'[r].merged = kept \/ st'[r].merged = Append(kept, chosen[r])
    BY <1>4, <2>2, StateSteps
  <2> HIDE DEF kept
  <2>4. IsPrefix(kept, st'[r].merged) /\ Len(st'[r].merged) <= Len(kept) + 1
    <3>1. CASE st'[r].merged = kept
      <4>1. Len(kept) <= Len(kept) + 1
        BY <2>2
      <4>2. QED
        BY <2>2, <3>1, <4>1
    <3>2. CASE st'[r].merged = Append(kept, chosen[r])
      <4>1. IsPrefix(kept, st'[r].merged)
        BY <2>2, <3>2, PrefixAppend
      <4>2. Len(Append(kept, chosen[r])) = Len(kept) + 1
        BY <2>2
      <4>3. Len(kept) + 1 <= Len(kept) + 1
        BY <2>2
      <4>4. QED
        BY <3>2, <4>1, <4>2, <4>3
    <3>3. QED
      BY <2>3, <3>1, <3>2
  <2>5. \A q \in row[t].maps :
          /\ task'[q] = t /\ IsPrefix(kept, st'[q].merged)
          /\ Len(st'[q].merged) <= Len(kept) + 1
          /\ pc'[q] = "ok" => st'[q].merged = kept
    BY <1>0, <2>1, <2>4 DEF PaceOf, kept
  <2>6. QED
    BY <1>0, <2>1, <2>5 DEF PaceOf, kept
<1>5. CASE /\ t = task[r] /\ pc[r] \notin {"save_snapshot", "executing"}
           /\ \/ pc'[r] = "err_store"
              \/ pc[r] \notin {"create", "refresh", "save_task", "final_update"}
  <2>1. row' = row /\ snaps' = snaps
    BY <1>5, Writes, Written
  <2>2. st'[r].merged = st[r].merged
    BY <1>5, StateSteps
  <2>3. pc'[r] # "ok"
    BY <1>0, <1>5, Flow DEF Running
  <2>4. QED
    BY <1>0, <2>1, <2>2, <2>3, PaceKept
<1>6. QED
  BY <1>1, <1>2, <1>3, <1>4, <1>5

LEMMA StepHeld ==
  ASSUME Backend = "memory", TypeOK, HistoryInv, DurableInv, PaceInv,
         NEW r \in Runs, RunStep(r), NEW q \in Runs
  PROVE  RowHeld(q)'
<1> SUFFICES ASSUME Active(q)', pc'[q] \notin Entering
             PROVE  /\ row'[task'[q]].maps = {q}
                    /\ row'[task'[q]].status # "absent"
                    /\ pc'[q] = "save_snapshot" =>
                         /\ row'[task'[q]].version = Len(st'[q].merged) + 1
                         /\ row'[task'[q]].log = st'[q].log
  BY DEF RowHeld
<1>0. task' = task /\ Active(r) /\ task[r] \in Tasks
  BY Flow DEF Active, TypeOK, ControlOK, Running
<1>1. CASE q # r
  <2>1. pc'[q] = pc[q] /\ st'[q] = st[q]
    BY <1>1, OthersKept
  <2>2. Active(q) /\ task[q] \in Tasks /\ task[q] # task[r]
    BY <1>0, <1>1, <2>1 DEF Active, Running, TypeOK, ControlOK, DurableInv, Exclusive
  <2>3. row'[task[q]] = row[task[q]]
    BY <2>2, OtherTasksKept
  <2>4. RowHeld(q)
    BY DEF PaceInv
  <2>5. QED
    BY <1>0, <2>1, <2>2, <2>3, <2>4 DEF RowHeld
<1>2. CASE q = r /\ pc[r] \in {"create", "refresh", "save_task", "final_update"}
  <2>1. pc'[r] # "err_store"
    BY <1>2 DEF Active, Running
  <2>2. st'[r] = st[r] /\ st[r].version = Len(st[r].merged) + 1
    BY <1>2, StateSteps DEF HistoryInv, Sound
  <2>3. QED
    BY <1>0, <1>2, <2>1, <2>2, RowGiven
<1>3. CASE q = r /\ pc[r] \notin {"create", "refresh", "save_task", "final_update"}
  <2>1. row' = row
    BY <1>3, Writes
  <2>2. pc'[r] # "save_snapshot" /\ pc[r] \notin Entering
    BY <1>0, <1>3, Flow DEF Active, Running, Entering
  <2>3. RowHeld(r)
    BY DEF PaceInv
  <2>4. QED
    BY <1>0, <1>3, <2>1, <2>2, <2>3 DEF RowHeld
<1>4. QED
  BY <1>1, <1>2, <1>3

LEMMA CallerPace ==
  ASSUME TypeOK, DurableInv, PaceInv, NEW r \in Runs, Caller(r)
  PROVE  PaceInv'
<1>1. /\ UNCHANGED <<row, snaps>> /\ pc[r] = "idle" /\ pc'[r] = "lookup"
      /\ \A q \in Runs \ {r} : pc'[q] = pc[q] /\ st'[q] = st[q] /\ task'[q] = task[q]
  BY CallersWriteNothing, OthersKept DEF Caller, Start, Resume, Goto, TypeOK, RunTypeOK
<1>2. ASSUME NEW t \in Tasks PROVE PaceOf(t)'
  <2>1. PaceOf(t) /\ row[t].maps \subseteq Runs
    BY DEF PaceInv, TypeOK, StoreTypeOK, Row
  <2>2. task[r] # t
    BY <1>1, TasksAssumption DEF DurableInv, Fresh, NoTask
  <2>3. r \notin row[t].maps
    BY <2>1, <2>2 DEF PaceOf
  <2>4. QED
    BY <1>1, <2>1, <2>3, PaceKept
<1>3. ASSUME NEW q \in Runs PROVE RowHeld(q)'
  <2>1. CASE q = r
    BY <1>1, <2>1 DEF RowHeld, Entering
  <2>2. CASE q # r
    <3>1. RowHeld(q) /\ pc'[q] = pc[q] /\ st'[q] = st[q] /\ task'[q] = task[q]
      BY <1>1, <2>2 DEF PaceInv
    <3>2. QED
      BY <1>1, <3>1 DEF RowHeld, Active
  <2>3. QED
    BY <2>1, <2>2
<1>4. QED
  BY <1>2, <1>3 DEF PaceInv

LEMMA EnvironmentPace ==
  ASSUME TypeOK, PaceInv, Environment
  PROVE  PaceInv'
<1>1. /\ UNCHANGED <<st, task>>
      /\ \A q \in Runs : pc'[q] = pc[q] \/ pc'[q] = "crashed"
  BY EnvironmentKeeps
<1>2. CASE UNCHANGED <<row, snaps>>
  <2>1. ASSUME NEW t \in Tasks PROVE PaceOf(t)'
    <3>1. PaceOf(t) /\ row[t].maps \subseteq Runs
      BY DEF PaceInv, TypeOK, StoreTypeOK, Row
    <3>2. QED
      BY <1>1, <1>2, <3>1, PaceKept
  <2>2. ASSUME NEW q \in Runs PROVE RowHeld(q)'
    <3>1. CASE pc'[q] = pc[q]
      BY <1>1, <1>2, <3>1 DEF PaceInv, RowHeld, Active
    <3>2. CASE pc'[q] = "crashed"
      BY <3>2 DEF RowHeld, Active, Running
    <3>3. QED
      BY <1>1, <3>1, <3>2
  <2>3. QED
    BY <2>1, <2>2 DEF PaceInv
<1>3. CASE ~UNCHANGED <<row, snaps>>
  <2>1. row' = [t \in Tasks |-> AbsentRow] /\ \A q \in Runs : ~Active(q)'
    BY <1>3, EnvironmentKeeps
  <2>2. ASSUME NEW t \in Tasks PROVE PaceOf(t)'
    <3>1. row'[t].status = "absent" /\ row'[t].maps = {}
      BY <2>1 DEF AbsentRow
    <3>2. QED
      BY <3>1 DEF PaceOf
  <2>3. QED
    BY <2>1, <2>2 DEF PaceInv, RowHeld
<1>4. QED
  BY <1>2, <1>3

LEMMA NextPace ==
  ASSUME Backend = "memory", TypeOK, HistoryInv, DurableInv, PaceInv, [Next]_vars
  PROVE  PaceInv'
<1>1. CASE UNCHANGED vars
  BY <1>1 DEF vars, runVars, storeVars, PaceInv, PaceOf, RowHeld, Active
<1>2. ASSUME NEW r \in Runs, RunStep(r) PROVE PaceInv'
  BY <1>2, StepPace, StepHeld DEF PaceInv
<1>3. QED
  BY <1>1, <1>2, CallerPace, EnvironmentPace DEF Next, Terminating

\* With one run at a time per task, what the memory store shows of a task, the
\* maps it shares with a run included, is never behind its snapshots, and never
\* more than one patch ahead of them, however many resumes, crashes and patches
\* merged in vain there are (engine.go:59-73, 192-204, 247, store.go:66-89).
THEOREM MemoryRowKeepsPace ==
  ASSUME ExclusiveRuns, Backend = "memory"
  PROVE  Spec => []RowKeepsPace
<1>1. Init => PaceInv
  <2> SUFFICES ASSUME Init PROVE PaceInv
    OBVIOUS
  <2>1. ASSUME NEW t \in Tasks PROVE PaceOf(t)
    <3>1. row[t].status = "absent" /\ row[t].maps = {}
      BY DEF Init, AbsentRow
    <3>2. QED
      BY <3>1 DEF PaceOf
  <2>2. QED
    BY <2>1 DEF PaceInv, Init, RowHeld, Active, Running
<1>2. /\ TypeOK /\ HistoryInv /\ (ExclusiveRuns => DurableInv) /\ PaceInv /\ [Next]_vars
      => PaceInv'
  BY NextPace
<1>3. PaceInv => RowKeepsPace
  <2> SUFFICES ASSUME PaceInv, NEW t \in Tasks, row[t].status # "absent"
               PROVE  LET kept == Restores(snaps[t]) IN
                      /\ row[t].version \in {Len(kept) + 1, Len(kept) + 2}
                      /\ \A k \in DOMAIN snaps[t] : IsPrefix(snaps[t][k].log, row[t].log)
                      /\ \A r \in row[t].maps :
                           /\ IsPrefix(kept, st[r].merged)
                           /\ Len(st[r].merged) <= Len(kept) + 1
                           /\ pc[r] = "ok" => st[r].merged = kept
    BY HistoryIsRestored DEF RowKeepsPace
  <2>1. QED
    BY DEF PaceInv, PaceOf
<1>4. QED
  BY <1>1, <1>2, <1>3, DurableCorrect, PTL DEF Spec

=============================================================================
