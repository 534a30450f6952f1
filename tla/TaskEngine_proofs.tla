-------------------------- MODULE TaskEngine_proofs --------------------------
(***************************************************************************)
(* Theorems about TaskEngine, for every set of runs, tasks and nodes, both *)
(* stores, every admission rule and every bound.                           *)
(***************************************************************************)
EXTENDS TaskEngine, TLAPS

-----------------------------------------------------------------------------
(***************************************************************************)
(* What the operators of the State Bus and of the store return.            *)
(***************************************************************************)
\* state.New is a state (state.go:82-108).
LEMMA NewType == New \in State
<1>1. <<>> \in Seq(Nodes) /\ <<>> \in Seq(DecisionRecord)
  OBVIOUS
<1>2. 1 \in Nat /\ "pending" \in TaskStatus
  BY DEF TaskStatus
<1>3. {} \in SUBSET {"latest_plan", "last_rejection_reason"}
  OBVIOUS
<1>4. QED
  BY <1>1, <1>2, <1>3 DEF New, State

\* A merge gives a state with one more patch (state.go:175-209).
LEMMA MergePatchType ==
  ASSUME NEW s \in State, NEW n \in Nodes
  PROVE  /\ MergePatch(s, n) \in State
         /\ MergePatch(s, n).merged = Append(s.merged, n)
         /\ MergePatch(s, n).version = s.version + 1
<1>1. Append(s.merged, n) \in Seq(Nodes) /\ s.version + 1 \in Nat
  BY DEF State
<1>2. "running" \in TaskStatus
  BY DEF TaskStatus
<1>3. QED
  BY <1>1, <1>2 DEF MergePatch, State

\* A decision goes to the log and nowhere else (state.go:226-229).
LEMMA AppendDecisionType ==
  ASSUME NEW s \in State, NEW type \in {"route", "plan"},
         NEW n \in Nodes \cup {Terminate, NoNode}, NEW i \in Nat
  PROVE  /\ AppendDecision(s, type, n, i) \in State
         /\ AppendDecision(s, type, n, i).merged = s.merged
         /\ AppendDecision(s, type, n, i).version = s.version
<1> DEFINE d == [type |-> type, node |-> n, step |-> i]
<1>1. d \in DecisionRecord
  BY DEF DecisionRecord
<1>2. Append(s.log, d) \in Seq(DecisionRecord)
  BY <1>1 DEF State
<1>3. AppendDecision(s, type, n, i) = [s EXCEPT !.log = Append(s.log, d)]
  BY DEF AppendDecision, State
<1> HIDE DEF d
<1>4. QED
  BY <1>2, <1>3 DEF State

\* The engine's own keys of Ext leave the patches alone (engine.go:110, 169).
LEMMA SetExtType ==
  ASSUME NEW s \in State, NEW key \in {"latest_plan", "last_rejection_reason"}
  PROVE  /\ SetExt(s, key) \in State
         /\ SetExt(s, key).merged = s.merged
         /\ SetExt(s, key).version = s.version
  BY DEF SetExt, State

\* A new status leaves the patches alone (engine.go:100, 226-233).
LEMMA StatusType ==
  ASSUME NEW s \in State, NEW status \in TaskStatus
  PROVE  /\ [s EXCEPT !.status = status] \in State
         /\ [s EXCEPT !.status = status].merged = s.merged
         /\ [s EXCEPT !.status = status].version = s.version
  BY DEF State

\* What a store keeps of a state is a row (store.go:77-88, postgres.go:43-52).
LEMMA StoredRowType ==
  ASSUME NEW s \in State, NEW r \in Runs
  PROVE  StoredRow(s, r) \in Row
<1>1. CASE Backend = "memory"
  BY <1>1 DEF StoredRow, Row, State
<1>2. CASE Backend # "memory"
  <2>1. StoredRow(s, r) = [status |-> s.status, version |-> 0, log |-> <<>>, maps |-> {}]
    BY <1>2 DEF StoredRow, AbsentRow
  <2>2. <<>> \in Seq(DecisionRecord) /\ 0 \in Nat /\ {} \in SUBSET Runs
    OBVIOUS
  <2>3. QED
    BY <2>1, <2>2 DEF Row, State
<1>3. QED
  BY <1>1, <1>2

\* Storing a row keeps a table a table (store.go:90-114, postgres.go:54-96).
LEMMA PutType ==
  ASSUME NEW Rows, NEW table, IsTable(table, Rows), NEW key \in Nat, NEW x \in Rows
  PROVE  IsTable(Put(table, key, x), Rows)
<1>1. CASE Backend = "memory"
  BY <1>1 DEF Put, IsTable
<1>2. CASE Backend = "postgres"
  BY <1>2 DEF Put, IsTable
<1>3. QED
  BY <1>1, <1>2, BackendAssumption

\* An empty table is a table (store.go:58-64).
LEMMA EmptyTableType ==
  ASSUME NEW Rows
  PROVE  IsTable(EmptyTable, Rows)
  BY DEF EmptyTable, IsTable

\* Every row of a table is of the table's type.
LEMMA RowOfTable ==
  ASSUME NEW Rows, NEW table, IsTable(table, Rows), NEW k \in DOMAIN table
  PROVE  table[k] \in Rows /\ k \in Nat
  BY BackendAssumption DEF IsTable


-----------------------------------------------------------------------------
(***************************************************************************)
(* Type correctness.                                                       *)
(***************************************************************************)
LEMMA InitTypeOK == Init => TypeOK
<1> SUFFICES ASSUME Init PROVE TypeOK
  OBVIOUS
<1>1. RunTypeOK
  BY NewType, EmptyTableType, BoundsAssumption DEF Init, RunTypeOK, Reasons
<1>2. ControlOK
  BY DEF Init, ControlOK
<1>3. StoreTypeOK
  <2>1. AbsentRow \in Row
    BY DEF AbsentRow, Row
  <2>2. IsSummary(NoSummary)
    BY EmptyTableType DEF IsSummary, NoSummary
  <2>3. QED
    BY <2>1, <2>2, EmptyTableType DEF Init, StoreTypeOK
<1>4. ProcTypeOK
  BY BoundsAssumption DEF Init, ProcTypeOK
<1>5. QED
  BY <1>1, <1>2, <1>3, <1>4 DEF TypeOK

LEMMA StartType ==
  ASSUME TypeOK, NEW r \in Runs, NEW t \in Tasks, Start(r, t)
  PROVE  TypeOK'
<1> USE DEF Start, Goto, TypeOK
<1>1. RunTypeOK'
  BY DEF RunTypeOK, Running
<1>2. ControlOK'
  BY DEF RunTypeOK, ControlOK
<1>3. StoreTypeOK'
  BY DEF StoreTypeOK, storeVars
<1>4. ProcTypeOK'
  BY DEF ProcTypeOK, procVars
<1>5. QED
  BY <1>1, <1>2, <1>3, <1>4

LEMMA LookupType ==
  ASSUME TypeOK, NEW r \in Runs, Lookup(r)
  PROVE  TypeOK'
<1> USE DEF Lookup, Goto, TypeOK
<1>1. RunTypeOK'
  BY DEF RunTypeOK, Running, runVars
<1>2. ControlOK'
  BY DEF RunTypeOK, ControlOK, runVars
<1>3. StoreTypeOK'
  BY DEF StoreTypeOK, storeVars
<1>4. ProcTypeOK'
  BY DEF ProcTypeOK, procVars
<1>5. QED
  BY <1>1, <1>2, <1>3, <1>4

LEMMA ResumeType ==
  ASSUME TypeOK, NEW r \in Runs, NEW t \in Tasks, Resume(r, t)
  PROVE  TypeOK'
<1> USE DEF Resume, Goto, TypeOK
<1>1. RunTypeOK'
  <2>1. PICK k \in DOMAIN snaps[t] :
          /\ st' = [st EXCEPT ![r] = [snaps[t][k] EXCEPT !.status = "running"]]
          /\ base' = [base EXCEPT ![r] = Len(snaps[t][k].merged)]
    OBVIOUS
  <2>2. snaps[t][k] \in State
    BY RowOfTable DEF StoreTypeOK
  <2>3. [snaps[t][k] EXCEPT !.status = "running"] \in State
    BY <2>2, StatusType DEF TaskStatus
  <2>4. Len(snaps[t][k].merged) \in Nat
    BY <2>2 DEF State
  <2>5. QED
    BY <2>1, <2>3, <2>4 DEF RunTypeOK, Running
<1>2. ControlOK'
  BY DEF RunTypeOK, ControlOK
<1>3. StoreTypeOK'
  BY DEF StoreTypeOK, storeVars
<1>4. ProcTypeOK'
  BY DEF ProcTypeOK, procVars
<1>5. QED
  BY <1>1, <1>2, <1>3, <1>4

LEMMA CreateType ==
  ASSUME TypeOK, NEW r \in Runs, Create(r)
  PROVE  TypeOK'
<1> USE DEF Create, Goto, TypeOK
<1>w. /\ row' = [row EXCEPT ![task[r]] = StoredRow(st[r], r)] \/ row' = row
      /\ \E label \in {"loop", "err_store"} : pc' = [pc EXCEPT ![r] = label]
  BY DEF Write, SaveRow
<1>s. StoredRow(st[r], r) \in Row
  BY StoredRowType DEF RunTypeOK
<1>1. RunTypeOK'
  BY <1>w DEF RunTypeOK, Running, Finished, Errors, runVars
<1>2. ControlOK'
  BY <1>w DEF RunTypeOK, ControlOK, runVars
<1>3. StoreTypeOK'
  BY ZenonT(40), <1>w, <1>s DEF StoreTypeOK
<1>4. ProcTypeOK'
  BY DEF ProcTypeOK
<1>5. QED
  BY <1>1, <1>2, <1>3, <1>4

LEMMA RefreshType ==
  ASSUME TypeOK, NEW r \in Runs, Refresh(r)
  PROVE  TypeOK'
<1> USE DEF Refresh, Goto, TypeOK
<1>w. /\ row' = [row EXCEPT ![task[r]] = StoredRow(st[r], r)] \/ row' = row
      /\ \E label \in {"loop", "err_store"} : pc' = [pc EXCEPT ![r] = label]
  BY DEF Write, SaveRow
<1>s. StoredRow(st[r], r) \in Row
  BY StoredRowType DEF RunTypeOK
<1>1. RunTypeOK'
  BY <1>w DEF RunTypeOK, Running, Finished, Errors, runVars
<1>2. ControlOK'
  BY <1>w DEF RunTypeOK, ControlOK, runVars
<1>3. StoreTypeOK'
  BY <1>w, <1>s DEF StoreTypeOK
<1>4. ProcTypeOK'
  BY DEF ProcTypeOK, procVars
<1>5. QED
  BY <1>1, <1>2, <1>3, <1>4

LEMMA SaveTaskType ==
  ASSUME TypeOK, NEW r \in Runs, SaveTask(r)
  PROVE  TypeOK'
<1> USE DEF SaveTask, Goto, TypeOK
<1>w. /\ row' = [row EXCEPT ![task[r]] = StoredRow(st[r], r)] \/ row' = row
      /\ \E label \in {"save_snapshot", "err_store"} : pc' = [pc EXCEPT ![r] = label]
  BY DEF Write, SaveRow
<1>s. StoredRow(st[r], r) \in Row
  BY StoredRowType DEF RunTypeOK
<1>1. RunTypeOK'
  BY <1>w DEF RunTypeOK, Running, Finished, Errors, runVars
<1>2. ControlOK'
  BY <1>w DEF RunTypeOK, ControlOK, runVars
<1>3. StoreTypeOK'
  BY <1>w, <1>s DEF StoreTypeOK
<1>4. ProcTypeOK'
  BY DEF ProcTypeOK, procVars
<1>5. QED
  BY <1>1, <1>2, <1>3, <1>4

LEMMA FinalUpdateType ==
  ASSUME TypeOK, NEW r \in Runs, FinalUpdate(r)
  PROVE  TypeOK'
<1> USE DEF FinalUpdate, Goto, TypeOK
<1>w. /\ row' = [row EXCEPT ![task[r]] = StoredRow(st[r], r)] \/ row' = row
      /\ \E label \in {"ok", "err_store"} : pc' = [pc EXCEPT ![r] = label]
  BY DEF Write, SaveRow
<1>s. StoredRow(st[r], r) \in Row
  BY StoredRowType DEF RunTypeOK
<1>1. RunTypeOK'
  BY <1>w DEF RunTypeOK, Running, Finished, Errors, runVars
<1>2. ControlOK'
  BY <1>w DEF RunTypeOK, ControlOK, runVars
<1>3. StoreTypeOK'
  BY <1>w, <1>s DEF StoreTypeOK
<1>4. ProcTypeOK'
  BY DEF ProcTypeOK, procVars
<1>5. QED
  BY <1>1, <1>2, <1>3, <1>4

LEMMA BeginStepType ==
  ASSUME TypeOK, NEW r \in Runs, BeginStep(r)
  PROVE  TypeOK'
<1> USE DEF BeginStep, Goto, TypeOK
<1>1. RunTypeOK'
  <2>1. step[r] + 1 \in 0..MaxSteps
    BY BoundsAssumption DEF RunTypeOK, StepsLeft
  <2>2. [st[r] EXCEPT !.status = "failed"] \in State
    BY StatusType DEF RunTypeOK, TaskStatus
  <2>3. step' \in [Runs -> 0..MaxSteps] /\ readonly' \in [Runs -> State]
    BY <2>1 DEF RunTypeOK
  <2>4. candidates' \in [Runs -> SUBSET Nodes]
    <3>1. candidates' = candidates \/ candidates' = [candidates EXCEPT ![r] = registry]
      OBVIOUS
    <3>2. registry \in SUBSET Nodes /\ candidates \in [Runs -> SUBSET Nodes]
      BY DEF RunTypeOK, ProcTypeOK
    <3> HIDE DEF BeginStep, TypeOK
    <3>3. QED
      BY <3>1, <3>2
  <2>5. st' \in [Runs -> State]
    <3>1. st' = st \/ st' = [st EXCEPT ![r] = [st[r] EXCEPT !.status = "failed"]]
      BY DEF FailDecision
    <3>2. QED
      BY ZenonT(40), <3>1, <2>2 DEF RunTypeOK
  <2>6. \E label \in {"deciding", "err_ai"} : pc' = [pc EXCEPT ![r] = label]
    BY DEF FailDecision
  <2>7. QED
    BY <2>3, <2>4, <2>5, <2>6 DEF RunTypeOK, Running, Finished, Errors
<1>2. ControlOK'
  BY DEF RunTypeOK, ControlOK, FailDecision
<1>3. StoreTypeOK'
  BY DEF StoreTypeOK, storeVars
<1>4. ProcTypeOK'
  BY DEF ProcTypeOK, FailDecision
<1>5. QED
  BY <1>1, <1>2, <1>3, <1>4

LEMMA StepsExhaustedType ==
  ASSUME TypeOK, NEW r \in Runs, StepsExhausted(r)
  PROVE  TypeOK'
<1> USE DEF StepsExhausted, Goto, TypeOK
<1>1. RunTypeOK'
  BY DEF RunTypeOK, Running, Reasons
<1>2. ControlOK'
  BY DEF RunTypeOK, ControlOK
<1>3. StoreTypeOK'
  BY DEF StoreTypeOK, storeVars
<1>4. ProcTypeOK'
  BY DEF ProcTypeOK, procVars
<1>5. QED
  BY <1>1, <1>2, <1>3, <1>4

LEMMA DecideFailsType ==
  ASSUME TypeOK, NEW r \in Runs, DecideFails(r)
  PROVE  TypeOK'
<1> USE DEF DecideFails, Goto, TypeOK
<1>1. RunTypeOK'
  <2>1. [st[r] EXCEPT !.status = "failed"] \in State
    BY StatusType DEF RunTypeOK, TaskStatus
  <2>2. QED
    BY <2>1 DEF RunTypeOK, Finished, Errors, FailDecision
<1>2. ControlOK'
  BY DEF RunTypeOK, ControlOK, FailDecision
<1>3. StoreTypeOK'
  BY DEF StoreTypeOK, storeVars
<1>4. ProcTypeOK'
  BY DEF ProcTypeOK, FailDecision
<1>5. QED
  BY <1>1, <1>2, <1>3, <1>4

LEMMA DecidePlanType ==
  ASSUME TypeOK, NEW r \in Runs, DecidePlan(r)
  PROVE  TypeOK'
<1> USE DEF DecidePlan, Goto, TypeOK
<1>1. RunTypeOK'
  <2>1. SetExt(st[r], "latest_plan") \in State
    BY SetExtType DEF RunTypeOK
  <2>2. step[r] \in Nat
    BY BoundsAssumption DEF RunTypeOK
  <2>3. AppendDecision(SetExt(st[r], "latest_plan"), "plan", NoNode, step[r]) \in State
    BY <2>1, <2>2, AppendDecisionType
  <2>4. QED
    BY <2>3 DEF RunTypeOK, Running
<1>2. ControlOK'
  BY DEF RunTypeOK, ControlOK
<1>3. StoreTypeOK'
  BY DEF StoreTypeOK, storeVars
<1>4. ProcTypeOK'
  BY DEF ProcTypeOK, procVars
<1>5. QED
  BY <1>1, <1>2, <1>3, <1>4

LEMMA DecideTerminateType ==
  ASSUME TypeOK, NEW r \in Runs, DecideTerminate(r)
  PROVE  TypeOK'
<1> USE DEF DecideTerminate, Goto, TypeOK
<1>1. RunTypeOK'
  <2>1. step[r] \in Nat
    BY BoundsAssumption DEF RunTypeOK
  <2>2. AppendDecision(st[r], "route", Terminate, step[r]) \in State
    BY <2>1, AppendDecisionType DEF RunTypeOK
  <2>3. QED
    BY <2>2 DEF RunTypeOK, Running, RecordRoute
<1>2. ControlOK'
  BY DEF RunTypeOK, ControlOK, RecordRoute
<1>3. StoreTypeOK'
  BY DEF StoreTypeOK, storeVars
<1>4. ProcTypeOK'
  BY DEF ProcTypeOK, procVars
<1>5. QED
  BY <1>1, <1>2, <1>3, <1>4

LEMMA DecideRouteType ==
  ASSUME TypeOK, NEW r \in Runs, NEW n \in Nodes, DecideRoute(r, n)
  PROVE  TypeOK'
<1> USE DEF DecideRoute, Goto, TypeOK
<1>1. RunTypeOK'
  <2>1. step[r] \in Nat
    BY BoundsAssumption DEF RunTypeOK
  <2>2. AppendDecision(st[r], "route", n, step[r]) \in State
    BY <2>1, AppendDecisionType DEF RunTypeOK
  <2>3. [visited EXCEPT ![r][n] = @ + 1] \in [Runs -> [Nodes -> Nat]]
    BY DEF RunTypeOK
  <2>4. \E label \in {"conclude", "admit", "err_unknown"} : pc' = [pc EXCEPT ![r] = label]
    OBVIOUS
  <2>5. reason' \in [Runs -> Reasons]
    BY DEF RunTypeOK, Reasons
  <2>6. QED
    BY <2>2, <2>3, <2>4, <2>5 DEF RunTypeOK, Running, Finished, Errors, RecordRoute
<1>2. ControlOK'
  <2>1. \E label \in {"conclude", "admit", "err_unknown"} : pc' = [pc EXCEPT ![r] = label]
    OBVIOUS
  <2>2. QED
    BY <2>1 DEF RunTypeOK, ControlOK, RecordRoute
<1>3. StoreTypeOK'
  BY DEF StoreTypeOK, storeVars
<1>4. ProcTypeOK'
  BY DEF ProcTypeOK, procVars
<1>5. QED
  BY <1>1, <1>2, <1>3, <1>4

LEMMA AdmitType ==
  ASSUME TypeOK, NEW r \in Runs, Admit(r)
  PROVE  TypeOK'
<1> USE DEF Admit, Goto, TypeOK
<1>w. \E label \in {"loop", "panicked", "acquire"} : pc' = [pc EXCEPT ![r] = label]
  BY DEF RecordRejection
<1>s. st' = st \/ st' = [st EXCEPT ![r] = SetExt(st[r], "last_rejection_reason")]
  BY DEF RecordRejection
<1>1. RunTypeOK'
  <2>1. SetExt(st[r], "last_rejection_reason") \in State
    BY SetExtType DEF RunTypeOK
  <2>2. st' \in [Runs -> State]
    <3>1. st \in [Runs -> State]
      BY DEF RunTypeOK
    <3> HIDE DEF Admit, TypeOK
    <3>2. QED
      BY <1>s, <2>1, <3>1
  <2>3. QED
    BY ZenonT(40), <1>w, <2>2 DEF RunTypeOK, Running, Finished
<1>2. ControlOK'
  BY <1>w, <1>s DEF RunTypeOK, ControlOK
<1>3. StoreTypeOK'
  BY DEF StoreTypeOK, storeVars
<1>4. ProcTypeOK'
  BY DEF ProcTypeOK, procVars
<1>5. QED
  BY <1>1, <1>2, <1>3, <1>4

LEMMA AcquireType ==
  ASSUME TypeOK, NEW r \in Runs, Acquire(r)
  PROVE  TypeOK'
<1> USE DEF Acquire, Goto, TypeOK
<1>1. RunTypeOK'
  BY DEF RunTypeOK, Running, Finished, Errors, runVars
<1>2. ControlOK'
  BY DEF RunTypeOK, ControlOK, runVars
<1>3. StoreTypeOK'
  BY DEF StoreTypeOK, storeVars
<1>4. ProcTypeOK'
  BY DEF ProcTypeOK, procVars
<1>5. QED
  BY <1>1, <1>2, <1>3, <1>4

LEMMA ExecuteFailsType ==
  ASSUME TypeOK, NEW r \in Runs, ExecuteFails(r)
  PROVE  TypeOK'
<1> USE DEF ExecuteFails, Goto, TypeOK
<1>1. RunTypeOK'
  BY DEF RunTypeOK, Running, Finished, Errors, runVars
<1>2. ControlOK'
  BY DEF RunTypeOK, ControlOK, runVars
<1>3. StoreTypeOK'
  BY DEF StoreTypeOK, storeVars
<1>4. ProcTypeOK'
  BY DEF ProcTypeOK, procVars
<1>5. QED
  BY <1>1, <1>2, <1>3, <1>4

LEMMA ExecuteSucceedsType ==
  ASSUME TypeOK, NEW r \in Runs, ExecuteSucceeds(r)
  PROVE  TypeOK'
<1> USE DEF ExecuteSucceeds, Goto, TypeOK
<1>w. \E label \in {"save_task", "err_patch"} : pc' = [pc EXCEPT ![r] = label]
  OBVIOUS
<1>s. chosen[r] \in Nodes
  BY DEF ControlOK
<1>1. RunTypeOK'
  <2>1. MergePatch(st[r], chosen[r]) \in State
    BY <1>s, MergePatchType DEF RunTypeOK
  <2>2. QED
    BY <1>w, <2>1 DEF RunTypeOK, Running, Finished, Errors
<1>2. ControlOK'
  BY <1>w DEF RunTypeOK, ControlOK
<1>3. StoreTypeOK'
  BY DEF StoreTypeOK, storeVars
<1>4. ProcTypeOK'
  BY DEF ProcTypeOK, procVars
<1>5. QED
  BY <1>1, <1>2, <1>3, <1>4

LEMMA SaveSnapshotType ==
  ASSUME TypeOK, NEW r \in Runs, SaveSnapshot(r)
  PROVE  TypeOK'
<1> USE DEF SaveSnapshot, Goto, TypeOK
<1>w. /\ snaps' = [snaps EXCEPT ![task[r]] = Put(@, st[r].version, st[r])] \/ snaps' = snaps
      /\ \E label \in {"save_step", "err_store"} : pc' = [pc EXCEPT ![r] = label]
  BY DEF Write
<1>1. RunTypeOK'
  BY <1>w DEF RunTypeOK, Running, Finished, Errors, runVars
<1>2. ControlOK'
  BY <1>w DEF RunTypeOK, ControlOK, runVars
<1>3. StoreTypeOK'
  <2>1. st[r] \in State /\ st[r].version \in Nat
    BY DEF RunTypeOK, State
  <2>2. ASSUME NEW t \in Tasks
        PROVE  IsTable(Put(snaps[t], st[r].version, st[r]), State)
    BY <2>1, PutType DEF StoreTypeOK
  <2>3. DOMAIN snaps' = Tasks /\ \A t \in Tasks : IsTable(snaps'[t], State)
    BY <1>w, <2>2 DEF StoreTypeOK
  <2>4. QED
    BY <2>3 DEF StoreTypeOK
<1>4. ProcTypeOK'
  BY DEF ProcTypeOK, procVars
<1>5. QED
  BY <1>1, <1>2, <1>3, <1>4

LEMMA SaveStepType ==
  ASSUME TypeOK, NEW r \in Runs, SaveStep(r)
  PROVE  TypeOK'
<1> USE DEF SaveStep, Goto, TypeOK
<1>w. /\ steps' = [steps EXCEPT ![task[r]] = Put(@, step[r], StepRow(r))] \/ steps' = steps
      /\ \E label \in {"remember", "save_lineage", "err_store"} : pc' = [pc EXCEPT ![r] = label]
  BY DEF Write
<1>1. RunTypeOK'
  BY <1>w DEF RunTypeOK, Running, Finished, Errors, runVars
<1>2. ControlOK'
  BY <1>w DEF RunTypeOK, ControlOK, runVars
<1>3. StoreTypeOK'
  <2>1. StepRow(r) \in StepRecord /\ step[r] \in Nat
    BY BoundsAssumption DEF RunTypeOK, ControlOK, StepRow, StepRecord
  <2>2. ASSUME NEW t \in Tasks
        PROVE  IsTable(Put(steps[t], step[r], StepRow(r)), StepRecord)
    BY <2>1, PutType DEF StoreTypeOK
  <2>3. DOMAIN steps' = Tasks /\ \A t \in Tasks : IsTable(steps'[t], StepRecord)
    BY <1>w, <2>2 DEF StoreTypeOK
  <2>4. QED
    BY <2>3 DEF StoreTypeOK
<1>4. ProcTypeOK'
  BY DEF ProcTypeOK, procVars
<1>5. QED
  BY <1>1, <1>2, <1>3, <1>4

LEMMA SaveLineageType ==
  ASSUME TypeOK, NEW r \in Runs, SaveLineage(r)
  PROVE  TypeOK'
<1> USE DEF SaveLineage, Goto, TypeOK
<1>w. /\ lineage' = [lineage EXCEPT ![task[r]] = Put(@, step[r], StepRow(r))] \/ lineage' = lineage
      /\ \E label \in {"remember", "err_store"} : pc' = [pc EXCEPT ![r] = label]
  BY DEF Write
<1>1. RunTypeOK'
  BY <1>w DEF RunTypeOK, Running, Finished, Errors, runVars
<1>2. ControlOK'
  BY <1>w DEF RunTypeOK, ControlOK, runVars
<1>3. StoreTypeOK'
  <2>1. StepRow(r) \in StepRecord /\ step[r] \in Nat
    BY BoundsAssumption DEF RunTypeOK, ControlOK, StepRow, StepRecord
  <2>2. ASSUME NEW t \in Tasks
        PROVE  IsTable(Put(lineage[t], step[r], StepRow(r)), StepRecord)
    BY <2>1, PutType DEF StoreTypeOK
  <2>3. DOMAIN lineage' = Tasks /\ \A t \in Tasks : IsTable(lineage'[t], StepRecord)
    BY <1>w, <2>2 DEF StoreTypeOK
  <2>4. QED
    BY <2>3 DEF StoreTypeOK
<1>4. ProcTypeOK'
  BY DEF ProcTypeOK, procVars
<1>5. QED
  BY <1>1, <1>2, <1>3, <1>4

LEMMA RecordStepType ==
  ASSUME TypeOK, NEW r \in Runs, RecordStep(r)
  PROVE  TypeOK'
<1> USE DEF RecordStep, Goto, TypeOK
<1>w. /\ \/ shortTerm' = [shortTerm EXCEPT ![task[r]] = [log |-> st[r].log,
                                                      last |-> chosen[r]]]
         \/ shortTerm' = shortTerm
      /\ pc' = [pc EXCEPT ![r] = "loop"]
  BY DEF TryWrite
<1>1. RunTypeOK'
  BY <1>w DEF RunTypeOK, Running, runVars
<1>2. ControlOK'
  BY <1>w DEF RunTypeOK, ControlOK, runVars
<1>3. StoreTypeOK'
  <2>1. st[r].log \in Seq(DecisionRecord) /\ chosen[r] \in Nodes
    BY DEF RunTypeOK, ControlOK, State
  <2>2. [log |-> st[r].log, last |-> chosen[r]]
           \in [log : Seq(DecisionRecord), last : Nodes \cup {NoNode}]
    BY <2>1
  <2>3. QED
    <3>1. StoreTypeOK
      OBVIOUS
    <3> HIDE DEF RecordStep, TypeOK
    <3>2. shortTerm' \in [Tasks -> [log : Seq(DecisionRecord), last : Nodes \cup {NoNode}]]
      BY <1>w, <2>2, <3>1 DEF StoreTypeOK
    <3>3. UNCHANGED <<row, steps, lineage, snaps, summary, patterns>>
      BY DEF RecordStep
    <3>4. QED
      BY <3>1, <3>2, <3>3 DEF StoreTypeOK
<1>4. ProcTypeOK'
  BY DEF ProcTypeOK, procVars
<1>5. QED
  BY <1>1, <1>2, <1>3, <1>4

LEMMA ConcludeType ==
  ASSUME TypeOK, NEW r \in Runs, Conclude(r)
  PROVE  TypeOK'
<1> USE DEF Conclude, Goto, TypeOK
<1>1. RunTypeOK'
  <2>1. PICK verdict \in TerminalStatus, why \in Reasons :
          /\ st' = [st EXCEPT ![r] = [st[r] EXCEPT !.status = verdict]]
          /\ reason' = [reason EXCEPT ![r] = why]
    BY DEF RunTypeOK, TerminalStatus, Reasons
  <2>2. [st[r] EXCEPT !.status = verdict] \in State
    BY StatusType DEF RunTypeOK, TaskStatus, TerminalStatus
  <2>3. st' \in [Runs -> State] /\ reason' \in [Runs -> Reasons]
    <3> USE DEF RunTypeOK
    <3> HIDE DEF Conclude, TypeOK
    <3>1. RunTypeOK
      BY DEF TypeOK
    <3>2. QED
      BY <2>1, <2>2, <3>1
  <2>4. QED
    BY <2>3 DEF RunTypeOK, Running
<1>2. ControlOK'
  <2>1. st'[r].status \in TerminalStatus
    BY DEF RunTypeOK, State, TerminalStatus
  <2>2. QED
    BY <2>1 DEF RunTypeOK, ControlOK
<1>3. StoreTypeOK'
  BY DEF StoreTypeOK, storeVars
<1>4. ProcTypeOK'
  BY DEF ProcTypeOK, procVars
<1>5. QED
  BY <1>1, <1>2, <1>3, <1>4

LEMMA ReadRecordType ==
  ASSUME TypeOK, NEW r \in Runs, ReadRecord(r)
  PROVE  TypeOK'
<1> USE DEF ReadRecord, Goto, TypeOK
<1>1. RunTypeOK'
  <2>1. IsTable(steps[task[r]], StepRecord)
    BY DEF StoreTypeOK, ControlOK
  <2>2. PICK new : /\ IsTable(new, StepRecord)
                   /\ record' = record \/ record' = [record EXCEPT ![r] = new]
    <3>1. CASE record' = record \/ record' = [record EXCEPT ![r] = steps[task[r]]]
      BY <2>1, <3>1
    <3>2. CASE CallFails(r) /\ \E end \in DOMAIN steps[task[r]] :
                 record' = [record EXCEPT ![r] = RowsBefore(steps[task[r]], end)]
      <4>1. PICK end \in DOMAIN steps[task[r]] :
              record' = [record EXCEPT ![r] = RowsBefore(steps[task[r]], end)]
        BY <3>2
      <4>2. Backend = "postgres"
        BY <3>2 DEF CallFails
      <4>3. IsTable(RowsBefore(steps[task[r]], end), StepRecord)
        BY <2>1, <4>2 DEF IsTable, RowsBefore
      <4>4. QED
        BY <4>1, <4>3
    <3>3. QED
      BY <3>1, <3>2
  <2>3. DOMAIN record' = Runs /\ \A q \in Runs : IsTable(record'[q], StepRecord)
    <3>1. DOMAIN record = Runs /\ \A q \in Runs : IsTable(record[q], StepRecord)
      BY DEF RunTypeOK
    <3> HIDE DEF ReadRecord, TypeOK
    <3>2. QED
      BY <2>2, <3>1
  <2>4. \E label \in {"finalize", "err_store"} : pc' = [pc EXCEPT ![r] = label]
    OBVIOUS
  <2>5. QED
    BY <2>3, <2>4 DEF RunTypeOK, Running, Finished, Errors
<1>2. ControlOK'
  BY DEF RunTypeOK, ControlOK
<1>3. StoreTypeOK'
  BY DEF StoreTypeOK, storeVars
<1>4. ProcTypeOK'
  BY DEF ProcTypeOK, procVars
<1>5. QED
  BY <1>1, <1>2, <1>3, <1>4

LEMMA FinalizeType ==
  ASSUME TypeOK, NEW r \in Runs, Finalize(r)
  PROVE  TypeOK'
<1> USE DEF Finalize, Goto, TypeOK
<1>w. /\ \/ patterns' = patterns \cup {[run |-> r, log |-> st[r].log]}
         \/ patterns' = patterns
      /\ pc' = [pc EXCEPT ![r] = "save_summary"]
  BY DEF TryWrite
<1>1. RunTypeOK'
  BY <1>w DEF RunTypeOK, Running, runVars
<1>2. ControlOK'
  BY <1>w DEF RunTypeOK, ControlOK, runVars
<1>3. StoreTypeOK'
  <2>1. st[r].log \in Seq(DecisionRecord)
    BY DEF RunTypeOK, State
  <2>2. [run |-> r, log |-> st[r].log] \in [run : Runs, log : Seq(DecisionRecord)]
    BY <2>1
  <2>3. QED
    BY <1>w, <2>2 DEF StoreTypeOK
<1>4. ProcTypeOK'
  BY DEF ProcTypeOK, procVars
<1>5. QED
  BY <1>1, <1>2, <1>3, <1>4

LEMMA SaveSummaryType ==
  ASSUME TypeOK, NEW r \in Runs, SaveSummary(r)
  PROVE  TypeOK'
<1> USE DEF SaveSummary, Goto, TypeOK
<1>w. /\ \/ summary' = [summary EXCEPT ![task[r]] =
                                  BuildSummary(st[r], record[r], reason[r])]
         \/ summary' = summary
      /\ \E label \in {"final_update", "err_store"} : pc' = [pc EXCEPT ![r] = label]
  BY DEF Write
<1>1. RunTypeOK'
  <2>1. record' = [record EXCEPT ![r] = EmptyTable]
    OBVIOUS
  <2>2. DOMAIN record' = Runs /\ \A q \in Runs : IsTable(record'[q], StepRecord)
    <3>1. DOMAIN record = Runs /\ \A q \in Runs : IsTable(record[q], StepRecord)
      BY DEF RunTypeOK
    <3> HIDE DEF SaveSummary, TypeOK
    <3>2. QED
      BY <2>1, <3>1, EmptyTableType
  <2>3. QED
    BY <1>w, <2>2 DEF RunTypeOK, Running, Finished, Errors
<1>2. ControlOK'
  BY <1>w DEF RunTypeOK, ControlOK
<1>3. StoreTypeOK'
  <2>1. st[r] \in State /\ st[r].status \in TerminalStatus /\ reason[r] \in Reasons
    BY DEF RunTypeOK, ControlOK
  <2>2. IsTable(record[r], StepRecord)
    BY DEF RunTypeOK
  <2>3. IsSummary(BuildSummary(st[r], record[r], reason[r]))
    BY <2>1, <2>2 DEF BuildSummary, IsSummary, State
  <2>4. DOMAIN summary' = Tasks /\ \A t \in Tasks : IsSummary(summary'[t])
    BY <1>w, <2>3 DEF StoreTypeOK
  <2>5. QED
    BY <2>4 DEF StoreTypeOK
<1>4. ProcTypeOK'
  BY DEF ProcTypeOK, procVars
<1>5. QED
  BY <1>1, <1>2, <1>3, <1>4

LEMMA ExpireType ==
  ASSUME TypeOK, NEW r \in Runs, Expire(r)
  PROVE  TypeOK'
<1> USE DEF Expire, Goto, TypeOK
<1>1. RunTypeOK'
  BY DEF RunTypeOK
<1>2. ControlOK'
  BY DEF ControlOK
<1>3. StoreTypeOK'
  BY DEF StoreTypeOK, storeVars
<1>4. ProcTypeOK'
  BY DEF ProcTypeOK, procVars
<1>5. QED
  BY <1>1, <1>2, <1>3, <1>4

LEMMA CancelType ==
  ASSUME TypeOK, NEW r \in Runs, Cancel(r)
  PROVE  TypeOK'
<1> USE DEF Cancel, Goto, TypeOK
<1>1. RunTypeOK'
  BY DEF RunTypeOK
<1>2. ControlOK'
  BY DEF ControlOK
<1>3. StoreTypeOK'
  BY DEF StoreTypeOK, storeVars
<1>4. ProcTypeOK'
  BY DEF ProcTypeOK, procVars
<1>5. QED
  BY <1>1, <1>2, <1>3, <1>4

LEMMA UnloadType ==
  ASSUME TypeOK, NEW n \in Nodes, Unload(n)
  PROVE  TypeOK'
<1> USE DEF Unload, TypeOK
<1>1. RunTypeOK'
  BY DEF RunTypeOK, runVars
<1>2. ControlOK'
  BY DEF ControlOK, runVars
<1>3. StoreTypeOK'
  BY DEF StoreTypeOK, storeVars
<1>4. ProcTypeOK'
  BY DEF ProcTypeOK
<1>5. QED
  BY <1>1, <1>2, <1>3, <1>4

LEMMA LoadType ==
  ASSUME TypeOK, NEW n \in Nodes, Load(n)
  PROVE  TypeOK'
<1> USE DEF Load, TypeOK
<1>1. RunTypeOK'
  BY DEF RunTypeOK, runVars
<1>2. ControlOK'
  BY DEF ControlOK, runVars
<1>3. StoreTypeOK'
  BY DEF StoreTypeOK, storeVars
<1>4. ProcTypeOK'
  BY DEF ProcTypeOK
<1>5. QED
  BY <1>1, <1>2, <1>3, <1>4

\* A crash empties the memory store and leaves postgres as it is.
LEMMA CrashType ==
  ASSUME TypeOK, Crash
  PROVE  TypeOK'
<1> USE DEF Crash, TypeOK
<1>1. RunTypeOK'
  BY DEF RunTypeOK, runVars, Finished
<1>2. ControlOK'
  BY DEF ControlOK, runVars, Active, Running
<1>3. StoreTypeOK'
  <2>1. CASE Backend = "memory"
    <3>1. AbsentRow \in Row
      BY DEF AbsentRow, Row
    <3>2. IsSummary(NoSummary)
      BY EmptyTableType DEF IsSummary, NoSummary
    <3>3. row' \in [Tasks -> Row] /\ patterns' = {}
      BY <2>1, <3>1
    <3>4. /\ DOMAIN steps' = Tasks /\ \A t \in Tasks : IsTable(steps'[t], StepRecord)
          /\ DOMAIN lineage' = Tasks /\ \A t \in Tasks : IsTable(lineage'[t], StepRecord)
          /\ DOMAIN snaps' = Tasks /\ \A t \in Tasks : IsTable(snaps'[t], State)
      BY <2>1, EmptyTableType
    <3>5. DOMAIN summary' = Tasks /\ \A t \in Tasks : IsSummary(summary'[t])
      BY <2>1, <3>2
    <3>6. shortTerm' \in [Tasks -> [log : Seq(DecisionRecord), last : Nodes \cup {NoNode}]]
      <4>1. [log |-> <<>>, last |-> NoNode]
              \in [log : Seq(DecisionRecord), last : Nodes \cup {NoNode}]
        OBVIOUS
      <4>2. shortTerm' = [t \in Tasks |-> [log |-> <<>>, last |-> NoNode]]
        BY <2>1
      <4>3. QED
        BY <4>1, <4>2
    <3>7. QED
      BY <3>3, <3>4, <3>5, <3>6 DEF StoreTypeOK
  <2>2. CASE Backend # "memory"
    BY <2>2 DEF StoreTypeOK, storeVars
  <2>3. QED
    BY <2>1, <2>2
<1>4. ProcTypeOK'
  BY BoundsAssumption DEF ProcTypeOK
<1>5. QED
  BY <1>1, <1>2, <1>3, <1>4

LEMMA StutterType ==
  ASSUME TypeOK, UNCHANGED vars
  PROVE  TypeOK'
<1> USE DEF vars, TypeOK
<1>1. RunTypeOK'
  BY DEF RunTypeOK, runVars
<1>2. ControlOK'
  BY DEF ControlOK, runVars
<1>3. StoreTypeOK'
  BY DEF StoreTypeOK, storeVars
<1>4. ProcTypeOK'
  BY DEF ProcTypeOK, procVars
<1>5. QED
  BY <1>1, <1>2, <1>3, <1>4

\* One step per action of the specification.
LEMMA NextType ==
  ASSUME TypeOK, [Next]_vars
  PROVE  TypeOK'
<1>1. CASE UNCHANGED vars
  BY <1>1, StutterType
<1>2. ASSUME NEW r \in Runs, Caller(r)
      PROVE  TypeOK'
  BY <1>2, StartType, ResumeType DEF Caller
<1>3. ASSUME NEW r \in Runs, RunStep(r)
      PROVE  TypeOK'
  BY <1>3, LookupType, CreateType, RefreshType, BeginStepType, StepsExhaustedType,
     DecideFailsType, DecidePlanType, DecideTerminateType, DecideRouteType, AdmitType,
     AcquireType, ExecuteFailsType, ExecuteSucceedsType, SaveTaskType, SaveSnapshotType,
     SaveStepType, SaveLineageType, RecordStepType, ConcludeType, ReadRecordType,
     FinalizeType, SaveSummaryType, FinalUpdateType
     DEF RunStep
<1>4. CASE Environment
  BY <1>4, ExpireType, CancelType, UnloadType, LoadType, CrashType DEF Environment
<1>5. CASE Terminating
  BY <1>5, StutterType DEF Terminating
<1>6. QED
  BY <1>1, <1>2, <1>3, <1>4, <1>5 DEF Next

\* Every variable of the engine and of its store keeps its type, and a run
\* that passed admission has a node of the registry's universe, a run that
\* writes its summary a verdict (engine.go:59-251).
THEOREM TypeCorrect == Spec => []TypeOK
<1>1. Init => TypeOK
  BY InitTypeOK
<1>2. TypeOK /\ [Next]_vars => TypeOK'
  BY NextType
<1>3. QED
  BY <1>1, <1>2, PTL DEF Spec

-----------------------------------------------------------------------------
(***************************************************************************)
(* Versions count patches, and no patch is merged before what its admission *)
(* rule asks for.  The rules are evaluated on the copy made when the step  *)
(* began; the inductive invariant says that the copy still is the state    *)
(* when they are, and that what they allowed stays allowed until the merge. *)
(***************************************************************************)
Sound(s) ==
  /\ s.version = Len(s.merged) + 1
  /\ Justified(s.merged)

Admitted(r) == Allows(chosen[r], ToSet(st[r].merged))

HistoryInv ==
  /\ \A r \in Runs : Sound(st[r])
  /\ \A t \in Tasks : \A k \in DOMAIN snaps[t] : Sound(snaps[t][k])
  /\ \A r \in Runs : pc[r] \in {"deciding", "admit"} => readonly[r].merged = st[r].merged
  /\ \A r \in Runs : pc[r] \in {"acquire", "executing"} => Admitted(r)

\* Merging a patch the rules allow keeps every patch justified
\* (engine.go:166-195).
LEMMA MergeJustified ==
  ASSUME NEW m \in Seq(Nodes), NEW n \in Nodes, Justified(m), Allows(n, ToSet(m))
  PROVE  Justified(Append(m, n))
<1> DEFINE mm == Append(m, n)
<1>1. Len(mm) = Len(m) + 1 /\ Len(m) \in Nat
  OBVIOUS
<1>2. \A i \in 1..Len(m) : mm[i] = m[i]
  OBVIOUS
<1>3. mm[Len(m) + 1] = n
  OBVIOUS
<1> HIDE DEF mm
<1>4. ASSUME NEW i \in 1..Len(mm)
      PROVE  Allows(mm[i], Before(mm, i))
  <2>1. CASE i \in 1..Len(m)
    <3>1. Before(mm, i) = Before(m, i)
      BY <1>1, <1>2, <2>1 DEF Before
    <3>2. QED
      BY <1>2, <2>1, <3>1 DEF Justified
  <2>2. CASE i = Len(m) + 1
    <3>1. Before(mm, i) = {m[j] : j \in 1..Len(m)}
      BY <1>1, <1>2, <2>2 DEF Before
    <3>2. Before(mm, i) = ToSet(m)
      BY <3>1 DEF ToSet
    <3>3. QED
      BY <2>2, <1>3, <3>2
  <2>3. QED
    BY <1>1, <2>1, <2>2
<1>5. QED
  BY <1>4 DEF Justified, mm

\* A step of a run that touches none of the variables of the invariant, and
\* does not enter the part of the loop between decision and result.
LEMMA QuietStep ==
  ASSUME HistoryInv, NEW r \in Runs, UNCHANGED <<st, readonly, chosen, snaps>>,
         \A q \in Runs \ {r} : pc'[q] = pc[q],
         \/ pc'[r] = pc[r]
         \/ pc'[r] \notin {"deciding", "admit", "acquire", "executing"}
  PROVE  HistoryInv'
  BY DEF HistoryInv, Admitted

\* A step that replaces the run's state by one with the same patches.
LEMMA SamePatches ==
  ASSUME HistoryInv, NEW r \in Runs, NEW s,
         st' = [st EXCEPT ![r] = s], s.merged = st[r].merged, s.version = st[r].version,
         UNCHANGED <<snaps, readonly>>,
         \A q \in Runs \ {r} : pc'[q] = pc[q] /\ chosen'[q] = chosen[q],
         pc'[r] \notin {"deciding", "admit", "acquire", "executing"},
         DOMAIN st = Runs
  PROVE  HistoryInv'
<1>1. Sound(s)
  BY DEF HistoryInv, Sound
<1>2. st'[r] = s /\ \A q \in Runs \ {r} : st'[q] = st[q]
  OBVIOUS
<1>3. QED
  BY <1>1, <1>2 DEF HistoryInv, Admitted

LEMMA InitHistory == Init => HistoryInv
  BY DEF Init, HistoryInv, Sound, Justified, New, EmptyTable

LEMMA ResumeHistory ==
  ASSUME TypeOK, HistoryInv, NEW r \in Runs, NEW t \in Tasks, Resume(r, t)
  PROVE  HistoryInv'
<1>1. PICK k \in DOMAIN snaps[t] : st' = [st EXCEPT ![r] = [snaps[t][k] EXCEPT !.status = "running"]]
  BY DEF Resume
<1>2. snaps[t][k] \in State /\ Sound(snaps[t][k])
  BY RowOfTable DEF TypeOK, StoreTypeOK, HistoryInv
<1> DEFINE s == [snaps[t][k] EXCEPT !.status = "running"]
<1>3. s.merged = snaps[t][k].merged /\ s.version = snaps[t][k].version
  BY <1>2, StatusType DEF TaskStatus
<1> HIDE DEF s
<1>4. Sound(s)
  BY <1>2, <1>3 DEF Sound
<1>5. /\ st'[r] = s
      /\ \A q \in Runs \ {r} : st'[q] = st[q] /\ pc'[q] = pc[q]
      /\ pc'[r] = "lookup"
      /\ UNCHANGED <<readonly, chosen, snaps>>
  BY <1>1 DEF TypeOK, RunTypeOK, Resume, Goto, storeVars, s
<1>6. QED
  BY <1>4, <1>5 DEF HistoryInv, Admitted

LEMMA BeginStepHistory ==
  ASSUME TypeOK, HistoryInv, NEW r \in Runs, BeginStep(r)
  PROVE  HistoryInv'
<1>1. CASE pc'[r] = "deciding"
  <2>1. /\ st' = st /\ readonly' = [readonly EXCEPT ![r] = st[r]]
        /\ \A q \in Runs \ {r} : pc'[q] = pc[q]
        /\ UNCHANGED <<chosen, snaps>>
    BY <1>1 DEF BeginStep, FailDecision, Goto, TypeOK, RunTypeOK, storeVars
  <2>2. /\ readonly'[r] = st[r]
        /\ \A q \in Runs \ {r} : readonly'[q] = readonly[q]
    BY <2>1 DEF TypeOK, RunTypeOK
  <2>3. QED
    BY <1>1, <2>1, <2>2 DEF HistoryInv, Admitted
<1>2. CASE pc'[r] # "deciding"
  <2>1. FailDecision(r) /\ pc'[r] = "err_ai"
    BY <1>2 DEF BeginStep, FailDecision, Goto, TypeOK, RunTypeOK
  <2>2. st[r] \in State
    BY DEF TypeOK, RunTypeOK
  <2> DEFINE s == [st[r] EXCEPT !.status = "failed"]
  <2>3. s.merged = st[r].merged /\ s.version = st[r].version
    BY <2>2, StatusType DEF TaskStatus
  <2>4. /\ st' = [st EXCEPT ![r] = s]
        /\ UNCHANGED <<chosen, snaps>>
        /\ \A q \in Runs \ {r} : pc'[q] = pc[q] /\ readonly'[q] = readonly[q]
    BY <2>1 DEF BeginStep, FailDecision, Goto, storeVars, TypeOK, RunTypeOK
  <2> HIDE DEF s
  <2>5. Sound(s)
    BY <2>3 DEF HistoryInv, Sound
  <2>6. st'[r] = s /\ \A q \in Runs \ {r} : st'[q] = st[q]
    BY <2>4 DEF TypeOK, RunTypeOK
  <2>7. QED
    BY <2>1, <2>4, <2>5, <2>6 DEF HistoryInv, Admitted
<1>3. QED
  BY <1>1, <1>2

LEMMA DecideFailsHistory ==
  ASSUME TypeOK, HistoryInv, NEW r \in Runs, DecideFails(r)
  PROVE  HistoryInv'
<1> DEFINE s == [st[r] EXCEPT !.status = "failed"]
<1>1. s.merged = st[r].merged /\ s.version = st[r].version
  BY StatusType DEF TaskStatus, TypeOK, RunTypeOK
<1>2. st' = [st EXCEPT ![r] = s]
  BY DEF DecideFails, FailDecision
<1> HIDE DEF s
<1>3. /\ UNCHANGED <<snaps, readonly, chosen>>
      /\ \A q \in Runs \ {r} : pc'[q] = pc[q]
      /\ pc'[r] = "err_ai"
      /\ DOMAIN st = Runs
  BY DEF DecideFails, FailDecision, Goto, storeVars, TypeOK, RunTypeOK
<1>4. QED
  BY <1>1, <1>2, <1>3, SamePatches

LEMMA DecidePlanHistory ==
  ASSUME TypeOK, HistoryInv, NEW r \in Runs, DecidePlan(r)
  PROVE  HistoryInv'
<1> DEFINE p == SetExt(st[r], "latest_plan")
           s == AppendDecision(p, "plan", NoNode, step[r])
<1>1. p \in State /\ p.merged = st[r].merged /\ p.version = st[r].version
  BY SetExtType DEF TypeOK, RunTypeOK
<1> HIDE DEF p
<1>2. step[r] \in Nat
  BY BoundsAssumption DEF TypeOK, RunTypeOK
<1>3. s.merged = st[r].merged /\ s.version = st[r].version
  BY <1>1, <1>2, AppendDecisionType
<1>4. st' = [st EXCEPT ![r] = s]
  BY DEF DecidePlan, p
<1> HIDE DEF s
<1>5. /\ UNCHANGED <<snaps, readonly, chosen>>
      /\ \A q \in Runs \ {r} : pc'[q] = pc[q]
      /\ pc'[r] = "loop"
      /\ DOMAIN st = Runs
  BY DEF DecidePlan, Goto, storeVars, TypeOK, RunTypeOK
<1>6. QED
  BY <1>3, <1>4, <1>5, SamePatches

LEMMA DecideTerminateHistory ==
  ASSUME TypeOK, HistoryInv, NEW r \in Runs, DecideTerminate(r)
  PROVE  HistoryInv'
<1> DEFINE s == AppendDecision(st[r], "route", Terminate, step[r])
<1>1. step[r] \in Nat
  BY BoundsAssumption DEF TypeOK, RunTypeOK
<1>2. s.merged = st[r].merged /\ s.version = st[r].version
  BY ZenonT(40), <1>1, AppendDecisionType DEF TypeOK, RunTypeOK
<1>3. st' = [st EXCEPT ![r] = s]
  BY DEF DecideTerminate, RecordRoute
<1> HIDE DEF s
<1>4. /\ UNCHANGED <<snaps, readonly, chosen>>
      /\ \A q \in Runs \ {r} : pc'[q] = pc[q]
      /\ pc'[r] = "conclude"
      /\ DOMAIN st = Runs
  BY DEF DecideTerminate, Goto, storeVars, TypeOK, RunTypeOK
<1>5. QED
  BY <1>2, <1>3, <1>4, SamePatches

LEMMA DecideRouteHistory ==
  ASSUME TypeOK, HistoryInv, NEW r \in Runs, NEW n \in Nodes, DecideRoute(r, n)
  PROVE  HistoryInv'
<1> DEFINE s == AppendDecision(st[r], "route", n, step[r])
<1>1. step[r] \in Nat
  BY BoundsAssumption DEF TypeOK, RunTypeOK
<1>2. s.merged = st[r].merged /\ s.version = st[r].version
  BY <1>1, AppendDecisionType DEF TypeOK, RunTypeOK
<1>3. st' = [st EXCEPT ![r] = s]
  BY DEF DecideRoute, RecordRoute
<1> HIDE DEF s
<1>4. st'[r] = s /\ \A q \in Runs \ {r} : st'[q] = st[q]
  BY <1>3 DEF TypeOK, RunTypeOK
<1>5. /\ UNCHANGED <<snaps, readonly>>
      /\ \A q \in Runs \ {r} : pc'[q] = pc[q] /\ chosen'[q] = chosen[q]
      /\ pc'[r] \in {"admit", "conclude", "err_unknown"}
      /\ pc[r] = "deciding"
  BY DEF DecideRoute, Goto, storeVars, TypeOK, RunTypeOK
<1>6. Sound(s)
  BY <1>2 DEF HistoryInv, Sound
<1>7. readonly[r].merged = s.merged
  BY <1>2, <1>5 DEF HistoryInv
<1>8. QED
  BY <1>4, <1>5, <1>6, <1>7 DEF HistoryInv, Admitted

LEMMA AdmitHistory ==
  ASSUME TypeOK, HistoryInv, NEW r \in Runs, Admit(r)
  PROVE  HistoryInv'
<1>1. CASE RecordRejection(r)
  <2> DEFINE s == SetExt(st[r], "last_rejection_reason")
  <2>1. s.merged = st[r].merged /\ s.version = st[r].version
    BY SetExtType DEF TypeOK, RunTypeOK
  <2>2. st' = [st EXCEPT ![r] = s]
    BY <1>1 DEF RecordRejection
  <2> HIDE DEF s
  <2>3. /\ UNCHANGED <<snaps, readonly, chosen>>
        /\ \A q \in Runs \ {r} : pc'[q] = pc[q]
        /\ pc'[r] = "loop"
        /\ DOMAIN st = Runs
    BY <1>1 DEF Admit, RecordRejection, Goto, storeVars, TypeOK, RunTypeOK
  <2>4. QED
    BY <2>1, <2>2, <2>3, SamePatches
<1>2. CASE Allowed(r) /\ UNCHANGED st
  <2>1. /\ UNCHANGED <<snaps, readonly, chosen, st>>
        /\ \A q \in Runs \ {r} : pc'[q] = pc[q]
        /\ pc[r] = "admit"
    BY <1>2 DEF Admit, RecordRejection, Goto, storeVars, TypeOK, RunTypeOK
  <2>2. pc'[r] \in {"panicked", "acquire", "loop"}
    BY DEF Admit, RecordRejection, Goto, TypeOK, RunTypeOK
  <2>3. Admitted(r)
    BY <1>2, <2>1 DEF HistoryInv, Allowed, Admitted
  <2>4. QED
    BY <2>1, <2>2, <2>3 DEF HistoryInv, Admitted
<1>3. QED
  BY <1>1, <1>2 DEF Admit

LEMMA AcquireHistory ==
  ASSUME TypeOK, HistoryInv, NEW r \in Runs, Acquire(r)
  PROVE  HistoryInv'
<1>1. /\ UNCHANGED <<st, snaps, readonly, chosen>>
      /\ \A q \in Runs \ {r} : pc'[q] = pc[q]
      /\ pc[r] = "acquire" /\ pc'[r] \in {"executing", "err_node"}
  BY DEF Acquire, Goto, storeVars, runVars, TypeOK, RunTypeOK
<1>2. QED
  BY <1>1 DEF HistoryInv, Admitted

LEMMA ExecuteSucceedsHistory ==
  ASSUME TypeOK, HistoryInv, NEW r \in Runs, ExecuteSucceeds(r)
  PROVE  HistoryInv'
<1> DEFINE s == MergePatch(st[r], chosen[r])
<1>1. st[r] \in State /\ chosen[r] \in Nodes /\ pc[r] = "executing"
  BY DEF TypeOK, RunTypeOK, ControlOK, ExecuteSucceeds
<1>2. s.merged = Append(st[r].merged, chosen[r]) /\ s.version = st[r].version + 1
  BY <1>1, MergePatchType
<1>3. st' = [st EXCEPT ![r] = s]
  BY DEF ExecuteSucceeds
<1> HIDE DEF s
<1>4. st[r].merged \in Seq(Nodes)
  BY <1>1 DEF State
<1>5. Sound(st[r]) /\ Admitted(r)
  BY <1>1 DEF HistoryInv
<1>6. Justified(s.merged)
  BY <1>1, <1>2, <1>4, <1>5, MergeJustified DEF Sound, Admitted
<1>7. Sound(s)
  BY <1>2, <1>4, <1>5, <1>6 DEF Sound
<1>8. st'[r] = s /\ \A q \in Runs \ {r} : st'[q] = st[q]
  BY <1>3 DEF TypeOK, RunTypeOK
<1>9. /\ UNCHANGED <<snaps, readonly, chosen>>
      /\ \A q \in Runs \ {r} : pc'[q] = pc[q]
      /\ pc'[r] \in {"save_task", "err_patch"}
  BY DEF ExecuteSucceeds, Goto, storeVars, TypeOK, RunTypeOK
<1>10. QED
  BY <1>7, <1>8, <1>9 DEF HistoryInv, Admitted

\* What is put in a table is in it, next to what was there.
LEMMA PutElements ==
  ASSUME NEW Rows, NEW table, IsTable(table, Rows), NEW key, NEW x,
         NEW k \in DOMAIN Put(table, key, x)
  PROVE  \/ Put(table, key, x)[k] = x
         \/ k \in DOMAIN table /\ Put(table, key, x)[k] = table[k]
<1>1. CASE Backend = "memory"
  BY <1>1 DEF Put, IsTable
<1>2. CASE Backend # "memory"
  BY <1>2 DEF Put
<1>3. QED
  BY <1>1, <1>2

LEMMA SaveSnapshotHistory ==
  ASSUME TypeOK, HistoryInv, NEW r \in Runs, SaveSnapshot(r)
  PROVE  HistoryInv'
<1>1. /\ \/ snaps' = [snaps EXCEPT ![task[r]] = Put(snaps[task[r]], st[r].version, st[r])]
         \/ snaps' = snaps
      /\ UNCHANGED <<st, readonly, chosen>>
      /\ \A q \in Runs \ {r} : pc'[q] = pc[q]
      /\ pc'[r] \in {"save_step", "err_store"}
  BY DEF SaveSnapshot, Write, Goto, runVars, TypeOK, RunTypeOK
<1>2. ASSUME NEW t \in Tasks, NEW k \in DOMAIN snaps'[t]
      PROVE  Sound(snaps'[t][k])
  <2>1. DOMAIN snaps = Tasks /\ IsTable(snaps[t], State)
    BY DEF TypeOK, StoreTypeOK
  <2>2. \/ snaps'[t] = snaps[t]
        \/ snaps'[t] = Put(snaps[t], st[r].version, st[r])
    BY <1>1, <2>1
  <2>3. \/ snaps'[t][k] = st[r]
        \/ k \in DOMAIN snaps[t] /\ snaps'[t][k] = snaps[t][k]
    BY <2>1, <2>2, PutElements
  <2>4. QED
    BY <2>3 DEF HistoryInv
<1>3. QED
  BY <1>1, <1>2 DEF HistoryInv, Admitted

LEMMA ConcludeHistory ==
  ASSUME TypeOK, HistoryInv, NEW r \in Runs, Conclude(r)
  PROVE  HistoryInv'
<1>1. PICK verdict \in TerminalStatus : st' = [st EXCEPT ![r] = [st[r] EXCEPT !.status = verdict]]
  BY DEF Conclude, TerminalStatus
<1> DEFINE s == [st[r] EXCEPT !.status = verdict]
<1>2. s.merged = st[r].merged /\ s.version = st[r].version
  BY StatusType DEF TaskStatus, TerminalStatus, TypeOK, RunTypeOK
<1>3. st' = [st EXCEPT ![r] = s]
  BY <1>1
<1> HIDE DEF s
<1>4. /\ UNCHANGED <<snaps, readonly, chosen>>
      /\ \A q \in Runs \ {r} : pc'[q] = pc[q]
      /\ pc'[r] = "read_record"
      /\ DOMAIN st = Runs
  BY DEF Conclude, Goto, storeVars, TypeOK, RunTypeOK
<1>5. QED
  BY <1>2, <1>3, <1>4, SamePatches

LEMMA CrashHistory ==
  ASSUME TypeOK, HistoryInv, Crash
  PROVE  HistoryInv'
<1>1. UNCHANGED <<st, readonly, chosen>>
  BY DEF Crash, runVars
<1>2. ASSUME NEW r \in Runs, pc'[r] \in {"deciding", "admit", "acquire", "executing"}
      PROVE  pc'[r] = pc[r]
  BY <1>2 DEF Crash, Active, Running
<1>3. ASSUME NEW t \in Tasks, NEW k \in DOMAIN snaps'[t]
      PROVE  Sound(snaps'[t][k])
  <2>1. CASE Backend = "memory"
    <3>1. snaps'[t] = <<>>
      BY <2>1 DEF Crash, EmptyTable
    <3>2. QED
      BY <3>1, <1>3
  <2>2. CASE Backend # "memory"
    BY <2>2, <1>3 DEF Crash, storeVars, HistoryInv
  <2>3. QED
    BY <2>1, <2>2
<1>4. QED
  BY <1>1, <1>2, <1>3 DEF HistoryInv, Admitted

\* The steps that touch neither states nor snapshots.
LEMMA OtherStepHistory ==
  ASSUME TypeOK, HistoryInv, NEW r \in Runs,
         \/ Lookup(r) \/ Create(r) \/ Refresh(r) \/ StepsExhausted(r) \/ ExecuteFails(r)
         \/ SaveTask(r) \/ SaveStep(r) \/ SaveLineage(r) \/ RecordStep(r)
         \/ ReadRecord(r) \/ Finalize(r) \/ SaveSummary(r) \/ FinalUpdate(r)
  PROVE  HistoryInv'
<1>1. UNCHANGED <<st, readonly, chosen, snaps>>
  BY DEF Lookup, Create, Refresh, StepsExhausted, ExecuteFails, SaveTask, SaveStep,
         SaveLineage, RecordStep, ReadRecord, Finalize, SaveSummary, FinalUpdate,
         runVars, storeVars
<1>2. \E label \in {"create", "refresh", "loop", "conclude", "save_snapshot", "save_lineage",
                    "remember", "finalize", "save_summary", "final_update", "ok",
                    "err_store", "err_node"} : pc' = [pc EXCEPT ![r] = label]
  BY DEF Lookup, Create, Refresh, StepsExhausted, ExecuteFails, SaveTask, SaveStep,
         SaveLineage, RecordStep, ReadRecord, Finalize, SaveSummary, FinalUpdate,
         Write, TryWrite, Goto
<1>3. /\ \A q \in Runs \ {r} : pc'[q] = pc[q]
      /\ pc'[r] \notin {"deciding", "admit", "acquire", "executing"}
  BY <1>2 DEF TypeOK, RunTypeOK
<1>4. QED
  BY <1>1, <1>3, QuietStep

LEMMA EnvironmentHistory ==
  ASSUME TypeOK, HistoryInv, Environment
  PROVE  HistoryInv'
<1>1. CASE Crash
  BY <1>1, CrashHistory
<1>2. CASE ~Crash
  <2>1. UNCHANGED <<pc, st, readonly, chosen, snaps>>
    BY <1>2 DEF Environment, Expire, Cancel, Unload, Load, runVars, storeVars
  <2>2. QED
    BY <2>1 DEF HistoryInv, Admitted
<1>3. QED
  BY <1>1, <1>2

LEMMA StartHistory ==
  ASSUME TypeOK, HistoryInv, NEW r \in Runs, NEW t \in Tasks, Start(r, t)
  PROVE  HistoryInv'
<1>1. /\ UNCHANGED <<st, readonly, chosen, snaps>>
      /\ \A q \in Runs \ {r} : pc'[q] = pc[q]
      /\ pc'[r] = "lookup"
  BY DEF Start, Goto, storeVars, TypeOK, RunTypeOK
<1>2. QED
  BY <1>1, QuietStep

LEMMA NextHistory ==
  ASSUME TypeOK, HistoryInv, [Next]_vars
  PROVE  HistoryInv'
<1>1. CASE UNCHANGED vars
  BY <1>1 DEF vars, runVars, storeVars, HistoryInv, Admitted
<1>2. ASSUME NEW r \in Runs, Caller(r)
      PROVE  HistoryInv'
  BY <1>2, StartHistory, ResumeHistory DEF Caller
<1>3. ASSUME NEW r \in Runs, RunStep(r)
      PROVE  HistoryInv'
  BY <1>3, BeginStepHistory, DecideFailsHistory, DecidePlanHistory,
     DecideTerminateHistory, DecideRouteHistory, AdmitHistory, AcquireHistory,
     ExecuteSucceedsHistory, SaveSnapshotHistory, ConcludeHistory, OtherStepHistory
     DEF RunStep
<1>4. CASE Environment
  BY <1>4, EnvironmentHistory
<1>5. CASE Terminating
  BY <1>1, <1>5 DEF Terminating
<1>6. QED
  BY <1>1, <1>2, <1>3, <1>4, <1>5 DEF Next

LEMMA HistoryCorrect == Spec => [](TypeOK /\ HistoryInv)
<1>1. Init => TypeOK /\ HistoryInv
  BY InitTypeOK, InitHistory
<1>2. TypeOK /\ HistoryInv /\ [Next]_vars => (TypeOK /\ HistoryInv)'
  BY NextType, NextHistory
<1>3. QED
  BY <1>1, <1>2, PTL DEF Spec

\* In every run and every snapshot, whoever resumed what and however many runs
\* a task has, the version counts the patches (state.go:179-223).
THEOREM VersionsCountPatches == Spec => []VersionCountsPatches
<1>1. HistoryInv => VersionCountsPatches
  BY DEF HistoryInv, Sound, VersionCountsPatches
<1>2. QED
  BY <1>1, HistoryCorrect, PTL

\* No patch is ever merged, in a run or a snapshot, before the patches its
\* admission rule asks for (engine.go:166-195).
THEOREM AdmissionIsRespected == Spec => []AdmissionRespected
<1>1. HistoryInv => AdmissionRespected
  BY DEF HistoryInv, Sound, AdmissionRespected
<1>2. QED
  BY <1>1, HistoryCorrect, PTL

-----------------------------------------------------------------------------
(***************************************************************************)
(* What a step leaves to the other runs, and makes of its own run's state. *)
(***************************************************************************)
\* What a step of one run leaves to the others.
LEMMA OthersKept ==
  ASSUME TypeOK, NEW r \in Runs, Caller(r) \/ RunStep(r), NEW q \in Runs \ {r}
  PROVE  /\ pc'[q] = pc[q] /\ task'[q] = task[q] /\ st'[q] = st[q]
         /\ chosen'[q] = chosen[q] /\ step'[q] = step[q] /\ visited'[q] = visited[q]
         /\ reason'[q] = reason[q] /\ base'[q] = base[q] /\ record'[q] = record[q]
<1> USE DEF TypeOK, RunTypeOK, Goto, runVars
<1>1. CASE Caller(r)
  BY <1>1 DEF Caller, Start, Resume
<1>2. CASE \/ Lookup(r) \/ Create(r) \/ Refresh(r) \/ StepsExhausted(r) \/ Acquire(r)
           \/ ExecuteFails(r)
  BY <1>2 DEF Lookup, Create, Refresh, StepsExhausted, Acquire, ExecuteFails, Write
<1>3. CASE BeginStep(r) \/ DecideFails(r) \/ DecidePlan(r) \/ DecideTerminate(r)
  BY <1>3 DEF BeginStep, DecideFails, DecidePlan, DecideTerminate, FailDecision, RecordRoute
<1>4. ASSUME NEW n \in Nodes, DecideRoute(r, n)
      PROVE  /\ pc'[q] = pc[q] /\ task'[q] = task[q] /\ st'[q] = st[q]
             /\ chosen'[q] = chosen[q] /\ step'[q] = step[q] /\ visited'[q] = visited[q]
             /\ reason'[q] = reason[q] /\ base'[q] = base[q] /\ record'[q] = record[q]
  BY <1>4 DEF DecideRoute, RecordRoute
<1>5. CASE Admit(r) \/ ExecuteSucceeds(r) \/ Conclude(r) \/ ReadRecord(r)
  BY <1>5 DEF Admit, ExecuteSucceeds, Conclude, ReadRecord, RecordRejection
<1>6. CASE \/ SaveTask(r) \/ SaveSnapshot(r) \/ SaveStep(r) \/ SaveLineage(r)
           \/ RecordStep(r) \/ Finalize(r) \/ FinalUpdate(r)
  BY <1>6 DEF SaveTask, SaveSnapshot, SaveStep, SaveLineage, RecordStep, Finalize,
              FinalUpdate, Write, TryWrite
<1>7. CASE SaveSummary(r)
  BY <1>7 DEF SaveSummary, Write
<1>8. QED
  BY <1>1, <1>2, <1>3, <1>4, <1>5, <1>6, <1>7 DEF RunStep

\* The log and the status a change of the state gives (state.go:175-229).
LEMMA StateChanges ==
  ASSUME NEW s \in State
  PROVE  /\ \A type, n, i : /\ AppendDecision(s, type, n, i).log =
                                 Append(s.log, [type |-> type, node |-> n, step |-> i])
                            /\ AppendDecision(s, type, n, i).merged = s.merged
                            /\ AppendDecision(s, type, n, i).status = s.status
         /\ \A key : /\ SetExt(s, key).log = s.log /\ SetExt(s, key).merged = s.merged
                     /\ SetExt(s, key).status = s.status
         /\ \A status : /\ [s EXCEPT !.status = status].log = s.log
                        /\ [s EXCEPT !.status = status].merged = s.merged
                        /\ [s EXCEPT !.status = status].status = status
         /\ \A n : /\ MergePatch(s, n).log = s.log
                   /\ MergePatch(s, n).merged = Append(s.merged, n)
                   /\ MergePatch(s, n).status = "running"
BY DEF AppendDecision, SetExt, MergePatch, State

\* What the steps of a run do to its state, by where the run is.
LEMMA StateSteps ==
  ASSUME TypeOK, NEW r \in Runs, RunStep(r)
  PROVE  /\ pc[r] \notin {"loop", "deciding", "admit", "executing", "conclude"} => st'[r] = st[r]
         /\ pc[r] = "loop" => \/ st'[r] = st[r] /\ pc'[r] \in {"deciding", "conclude"}
                              \/ /\ st'[r].merged = st[r].merged /\ st'[r].log = st[r].log
                                 /\ pc'[r] = "err_ai"
         /\ pc[r] = "deciding" =>
              /\ st'[r].merged = st[r].merged
              /\ \/ st'[r].log = st[r].log /\ pc'[r] = "err_ai"
                 \/ /\ st'[r].status = st[r].status
                    /\ \E d \in DecisionRecord : st'[r].log = Append(st[r].log, d)
         /\ pc[r] = "admit" =>
              /\ st'[r].merged = st[r].merged /\ st'[r].log = st[r].log
              /\ st'[r].status = st[r].status
         /\ pc[r] = "executing" =>
              \/ st'[r] = st[r] /\ pc'[r] = "err_node"
              \/ /\ st'[r].merged = Append(st[r].merged, chosen[r])
                 /\ st'[r].log = st[r].log /\ st'[r].status = "running"
                 /\ pc'[r] \in {"save_task", "err_patch"}
         /\ pc[r] = "conclude" =>
              /\ st'[r].merged = st[r].merged /\ st'[r].log = st[r].log
<1>1. st[r] \in State /\ step[r] \in Nat /\ st \in [Runs -> State]
      /\ pc \in [Runs -> {"idle"} \cup Running \cup Finished]
  BY BoundsAssumption DEF TypeOK, RunTypeOK
<1>2. CASE \/ Lookup(r) \/ Create(r) \/ Refresh(r) \/ StepsExhausted(r) \/ Acquire(r)
           \/ ExecuteFails(r) \/ SaveTask(r) \/ SaveSnapshot(r) \/ SaveStep(r)
           \/ SaveLineage(r) \/ RecordStep(r) \/ ReadRecord(r) \/ Finalize(r)
           \/ SaveSummary(r) \/ FinalUpdate(r)
  <2>1. UNCHANGED st
    BY <1>2 DEF Lookup, Create, Refresh, StepsExhausted, Acquire, ExecuteFails, SaveTask,
         SaveSnapshot, SaveStep, SaveLineage, RecordStep, ReadRecord, Finalize,
         SaveSummary, FinalUpdate, runVars
  <2>2. /\ pc[r] \notin {"deciding", "admit", "conclude"}
        /\ pc[r] = "loop" => pc'[r] = "conclude"
        /\ pc[r] = "executing" => pc'[r] = "err_node"
    BY <1>1, <1>2 DEF Lookup, Create, Refresh, StepsExhausted, Acquire, ExecuteFails,
         SaveTask, SaveSnapshot, SaveStep, SaveLineage, RecordStep, ReadRecord, Finalize,
         SaveSummary, FinalUpdate, Goto
  <2>3. QED
    BY <2>1, <2>2
<1>3. CASE BeginStep(r)
  <2>1. pc[r] = "loop"
    BY <1>3 DEF BeginStep
  <2>2. CASE FailDecision(r)
    BY <1>1, <2>1, <2>2, StateChanges DEF FailDecision, Goto
  <2>3. CASE ~FailDecision(r)
    BY <1>1, <1>3, <2>1, <2>3 DEF BeginStep, Goto
  <2>4. QED
    BY <2>2, <2>3
<1>4. CASE DecideFails(r)
  BY <1>1, <1>4, StateChanges DEF DecideFails, FailDecision, Goto
<1>5. CASE DecidePlan(r)
  <2> DEFINE p == SetExt(st[r], "latest_plan")
             d == [type |-> "plan", node |-> NoNode, step |-> step[r]]
  <2>1. /\ p \in State /\ p.log = st[r].log /\ p.merged = st[r].merged
        /\ p.status = st[r].status
    BY <1>1, SetExtType, StateChanges
  <2>2. d \in DecisionRecord
    BY <1>1 DEF DecisionRecord
  <2>3. st'[r] = AppendDecision(p, "plan", NoNode, step[r]) /\ pc[r] = "deciding"
    BY <1>1, <1>5 DEF DecidePlan
  <2> HIDE DEF p
  <2> DEFINE s == AppendDecision(p, "plan", NoNode, step[r])
  <2>4. s.log = Append(p.log, d) /\ s.merged = p.merged /\ s.status = p.status
    <3>1. \A x \in State : AppendDecision(x, "plan", NoNode, step[r]).log = Append(x.log, d)
      BY StateChanges
    <3>2. QED
      BY <2>1, <3>1, StateChanges
  <2> HIDE DEF d, s
  <2>5. QED
    BY <2>1, <2>2, <2>3, <2>4 DEF s
<1>6. CASE DecideTerminate(r)
  <2>1. [type |-> "route", node |-> Terminate, step |-> step[r]] \in DecisionRecord
    BY <1>1 DEF DecisionRecord
  <2>2. QED
    BY <1>1, <1>6, <2>1, StateChanges DEF DecideTerminate, RecordRoute, Goto
<1>7. ASSUME NEW n \in Nodes, DecideRoute(r, n)
      PROVE  /\ pc[r] = "deciding" /\ st'[r].merged = st[r].merged
             /\ st'[r].status = st[r].status
             /\ \E d \in DecisionRecord : st'[r].log = Append(st[r].log, d)
  <2>1. [type |-> "route", node |-> n, step |-> step[r]] \in DecisionRecord
    BY <1>1 DEF DecisionRecord
  <2>2. QED
    BY <1>1, <1>7, <2>1, StateChanges DEF DecideRoute, RecordRoute, Goto
<1>8. CASE Admit(r)
  BY <1>1, <1>8, StateChanges DEF Admit, RecordRejection, Goto
<1>9. CASE ExecuteSucceeds(r)
  BY <1>1, <1>9, StateChanges DEF ExecuteSucceeds, Goto
<1>10. CASE Conclude(r)
  BY <1>1, <1>10, StateChanges DEF Conclude, Goto
<1>11. QED
  BY <1>2, <1>3, <1>4, <1>5, <1>6, <1>7, <1>8, <1>9, <1>10 DEF RunStep

=============================================================================
