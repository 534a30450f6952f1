------------------------- MODULE EngineGuards_proofs -------------------------
(***************************************************************************)
(* Theorems about the guards and the verdict of a run of TaskEngine, for   *)
(* any number of concurrent runs, resumed ones included, and any bounds.   *)
(***************************************************************************)
EXTENDS TaskEngine_proofs, FiniteSetTheorems, SequenceTheorems

-----------------------------------------------------------------------------
(***************************************************************************)
(* How often a node occurs in a sequence from some place on.               *)
(***************************************************************************)
Times(m, from, n) == Cardinality({i \in (from + 1)..Len(m) : m[i] = n})

LEMMA TimesType ==
  ASSUME NEW m \in Seq(Nodes), NEW from \in Nat, NEW n
  PROVE  /\ IsFiniteSet({i \in (from + 1)..Len(m) : m[i] = n})
         /\ Times(m, from, n) \in Nat
<1>1. IsFiniteSet((from + 1)..Len(m))
  BY FS_Interval
<1>2. IsFiniteSet({i \in (from + 1)..Len(m) : m[i] = n})
  BY <1>1, FS_Subset
<1>3. QED
  BY <1>2, FS_CardinalityType DEF Times

\* Nothing occurs after the end.
LEMMA TimesAtEnd ==
  ASSUME NEW m \in Seq(Nodes), NEW n
  PROVE  Times(m, Len(m), n) = 0
<1>1. {i \in (Len(m) + 1)..Len(m) : m[i] = n} = {}
  OBVIOUS
<1>2. QED
  BY <1>1, FS_EmptySet DEF Times

LEMMA TimesAppend ==
  ASSUME NEW m \in Seq(Nodes), NEW from \in 0..Len(m), NEW x \in Nodes, NEW n \in Nodes
  PROVE  Times(Append(m, x), from, n) = Times(m, from, n) + (IF x = n THEN 1 ELSE 0)
<1> DEFINE S == {i \in (from + 1)..Len(m) : m[i] = n}
           T == {i \in (from + 1)..Len(Append(m, x)) : Append(m, x)[i] = n}
<1>0. from \in Nat /\ Len(m) \in Nat /\ from <= Len(m)
  OBVIOUS
<1>1. IsFiniteSet(S) /\ Cardinality(S) \in Nat
  BY <1>0, TimesType DEF Times
<1>2. /\ Len(Append(m, x)) = Len(m) + 1 /\ Append(m, x)[Len(m) + 1] = x
      /\ \A i \in 1..Len(m) : Append(m, x)[i] = m[i]
  OBVIOUS
<1>3. Times(m, from, n) = Cardinality(S) /\ Times(Append(m, x), from, n) = Cardinality(T)
  BY DEF Times
<1>4. CASE x = n
  <2>1. T = S \cup {Len(m) + 1} /\ Len(m) + 1 \notin S
    BY <1>0, <1>2, <1>4
  <2> HIDE DEF S, T
  <2>2. Cardinality(T) = Cardinality(S) + 1
    BY <1>1, <2>1, FS_AddElement
  <2>3. QED
    BY <1>3, <1>4, <2>2
<1>5. CASE x # n
  <2>1. T = S
    BY <1>0, <1>2, <1>5
  <2> HIDE DEF S, T
  <2>2. QED
    BY <1>1, <1>3, <1>5, <2>1
<1>6. QED
  BY <1>4, <1>5

\* Counting in the rest of a sequence is counting from its place on.
LEMMA TimesInRest ==
  ASSUME NEW m \in Seq(Nodes), NEW from \in 0..Len(m), NEW n
  PROVE  LET rest == SubSeq(m, from + 1, Len(m)) IN
         /\ Len(rest) = Len(m) - from
         /\ Cardinality({i \in DOMAIN rest : rest[i] = n}) = Times(m, from, n)
<1> DEFINE rest == SubSeq(m, from + 1, Len(m))
           S == {i \in (from + 1)..Len(m) : m[i] = n}
           R == {i \in DOMAIN rest : rest[i] = n}
           f == [i \in S |-> i - from]
<1>1. /\ Len(m) \in Nat /\ from \in Nat
      /\ \A i \in (from + 1)..Len(m) : m[i] \in Nodes
  OBVIOUS
<1>2. /\ rest \in Seq(Nodes)
      /\ Len(rest) = IF from + 1 <= Len(m) THEN Len(m) - (from + 1) + 1 ELSE 0
      /\ \A i \in 1..(Len(m) - (from + 1) + 1) : rest[i] = m[from + 1 + i - 1]
  BY <1>1, SubSeqProperties
<1>3. Len(rest) = Len(m) - from /\ DOMAIN rest = 1..(Len(m) - from)
  BY <1>1, <1>2
<1>4. \A i \in 1..(Len(m) - from) : rest[i] = m[from + i]
  BY <1>1, <1>2
<1> HIDE DEF rest
<1>5. f \in Bijection(S, R)
  <2>1. \A i \in S : i - from \in R
    BY <1>1, <1>3, <1>4
  <2>2. \A j \in R : j + from \in S /\ (j + from) - from = j
    BY <1>1, <1>3, <1>4
  <2>3. f \in [S -> R]
    BY <2>1
  <2>4. \A i, j \in S : f[i] = f[j] => i = j
    BY <1>1
  <2>5. \A j \in R : \E i \in S : f[i] = j
    BY <2>2
  <2>6. QED
    BY <2>3, <2>4, <2>5 DEF Bijection, Injection, Surjection, IsInjective
<1>6. IsFiniteSet(S)
  BY TimesType, <1>1
<1>7. Cardinality(R) = Cardinality(S)
  BY <1>5, <1>6, FS_Bijection DEF ExistsBijection
<1>8. QED
  BY <1>3, <1>7 DEF rest, Times

-----------------------------------------------------------------------------
(***************************************************************************)
(* Guards.  A visit is counted when a node is chosen, a merge follows some *)
(* labels later or never; so visits and steps are ahead of the merges, by  *)
(* one while a chosen node has not been merged.                            *)
(***************************************************************************)
\* The verdict is still ahead.
Ahead == {"idle", "lookup", "create", "refresh", "loop", "deciding", "admit", "acquire",
          "executing", "save_task", "save_snapshot", "save_step", "save_lineage",
          "remember"}

Chosen == {"admit", "acquire", "executing"}

GuardOf(r) ==
  /\ pc[r] = "idle" => step[r] = 0 /\ visited[r] = [n \in Nodes |-> 0]
  /\ base[r] <= Len(st[r].merged) /\ Len(st[r].merged) <= base[r] + step[r]
  /\ pc[r] \in Chosen \cup {"deciding"} => Len(st[r].merged) < base[r] + step[r]
  /\ \A n \in Nodes : Times(st[r].merged, base[r], n) <= visited[r][n]
  /\ \A n \in Nodes : Times(st[r].merged, base[r], n) <= MaxSameNodeVisits
  /\ pc[r] \in Chosen =>
       Times(st[r].merged, base[r], chosen[r]) < visited[r][chosen[r]]
  /\ pc[r] \in Ahead => \A n \in Nodes : visited[r][n] <= MaxSameNodeVisits

GuardInv == \A r \in Runs : GuardOf(r)

LEMMA InitGuards == Init => GuardInv
<1> SUFFICES ASSUME Init, NEW r \in Runs PROVE GuardOf(r)
  BY DEF GuardInv
<1>1. /\ pc[r] = "idle" /\ step[r] = 0 /\ base[r] = 0 /\ visited[r] = [n \in Nodes |-> 0]
      /\ st[r].merged = <<>>
  BY DEF Init, New
<1>2. <<>> \in Seq(Nodes) /\ Len(<<>>) = 0
  OBVIOUS
<1>3. \A n \in Nodes : Times(<<>>, 0, n) = 0
  BY <1>2, TimesAtEnd
<1>4. QED
  BY <1>1, <1>2, <1>3, BoundsAssumption DEF GuardOf, Chosen

\* A step that merges and counts nothing.
LEMMA GuardQuiet ==
  ASSUME NEW r \in Runs, GuardOf(r), st'[r].merged = st[r].merged,
         base'[r] = base[r], step'[r] = step[r], visited'[r] = visited[r],
         chosen'[r] = chosen[r], pc'[r] = "idle" => pc[r] = "idle",
         pc'[r] \in Ahead => pc[r] \in Ahead,
         pc'[r] \in Chosen => pc[r] \in Chosen,
         pc'[r] # "deciding"
  PROVE  GuardOf(r)'
BY DEF GuardOf

\* A step that merges nothing and counts one more step.
LEMMA RunGuards ==
  ASSUME TypeOK, NEW r \in Runs, GuardOf(r), RunStep(r)
  PROVE  GuardOf(r)'
<1>1. /\ st[r] \in State /\ st[r].merged \in Seq(Nodes) /\ step[r] \in Nat
      /\ base[r] \in Nat /\ visited[r] \in [Nodes -> Nat]
      /\ pc \in [Runs -> {"idle"} \cup Running \cup Finished]
      /\ step \in [Runs -> 0..MaxSteps] /\ visited \in [Runs -> [Nodes -> Nat]]
      /\ chosen \in [Runs -> Nodes \cup {NoNode}]
  BY BoundsAssumption DEF TypeOK, RunTypeOK, State
<1>2. ASSUME pc[r] \notin {"loop", "deciding", "executing"}
      PROVE  GuardOf(r)'
  <2>1. /\ st'[r].merged = st[r].merged
        /\ UNCHANGED <<base, step, visited, chosen>>
    BY <1>2, StateSteps DEF RunStep, Lookup, Create, Refresh, BeginStep, StepsExhausted,
         DecideFails, DecidePlan, DecideTerminate, DecideRoute, Admit, Acquire,
         ExecuteFails, ExecuteSucceeds, SaveTask, SaveSnapshot, SaveStep, SaveLineage,
         RecordStep, Conclude, ReadRecord, Finalize, SaveSummary, FinalUpdate, runVars
  <2>2. /\ pc[r] # "idle" /\ pc'[r] \notin {"idle", "deciding"}
        /\ pc'[r] \in Ahead => pc[r] \in Ahead
        /\ pc'[r] \in Chosen => pc[r] \in Chosen
    BY <1>1, <1>2 DEF RunStep, Lookup, Create, Refresh, BeginStep, StepsExhausted,
         DecideFails, DecidePlan, DecideTerminate, DecideRoute, Admit, Acquire,
         ExecuteFails, ExecuteSucceeds, SaveTask, SaveSnapshot, SaveStep, SaveLineage,
         RecordStep, Conclude, ReadRecord, Finalize, SaveSummary, FinalUpdate,
         RecordRejection, Write, TryWrite, Goto, Ahead, Chosen, Errors
  <2>3. QED
    BY <2>1, <2>2, GuardQuiet
<1>3. CASE BeginStep(r)
  <2>1. /\ step'[r] = step[r] + 1 /\ UNCHANGED <<base, visited, chosen>>
        /\ pc[r] = "loop" /\ pc'[r] \in {"deciding", "err_ai"}
    BY <1>1, <1>3 DEF BeginStep, FailDecision, Goto
  <2>2. st'[r].merged = st[r].merged
    BY <1>3, <2>1, StateSteps DEF RunStep
  <2>3. QED
    BY <1>1, <2>1, <2>2 DEF GuardOf, Ahead, Chosen
<1>4. CASE StepsExhausted(r) \/ ExecuteFails(r)
  <2>1. UNCHANGED <<base, step, visited, chosen, st>> /\ pc'[r] \in {"conclude", "err_node"}
    BY <1>1, <1>4 DEF StepsExhausted, ExecuteFails, Goto, runVars
  <2>2. QED
    BY <2>1, GuardQuiet DEF Ahead, Chosen
<1>5. CASE DecideFails(r) \/ DecidePlan(r) \/ DecideTerminate(r)
  <2>1. /\ UNCHANGED <<base, step, visited, chosen>> /\ pc[r] = "deciding"
        /\ pc'[r] \in {"err_ai", "loop", "conclude"}
    BY <1>1, <1>5 DEF DecideFails, DecidePlan, DecideTerminate, FailDecision, Goto
  <2>2. st'[r].merged = st[r].merged
    BY <2>1, StateSteps
  <2>3. QED
    BY <2>1, <2>2, GuardQuiet DEF Ahead, Chosen
<1>6. ASSUME NEW n \in Nodes, DecideRoute(r, n)
      PROVE  GuardOf(r)'
  <2>1. /\ UNCHANGED <<base, step>> /\ pc[r] = "deciding" /\ chosen'[r] = n
        /\ visited'[r] = [visited[r] EXCEPT ![n] = visited[r][n] + 1]
        /\ pc'[r] \in {"admit", "err_unknown", "conclude"}
        /\ pc'[r] \in Ahead => visited[r][n] + 1 <= MaxSameNodeVisits
    BY <1>1, <1>6, BoundsAssumption DEF DecideRoute, Goto, Looping, Ahead
  <2>2. st'[r].merged = st[r].merged
    BY <2>1, StateSteps
  <2>3. /\ visited'[r][n] = visited[r][n] + 1
        /\ \A x \in Nodes \ {n} : visited'[r][x] = visited[r][x]
    BY <1>1, <2>1
  <2>4. \A x \in Nodes : Times(st[r].merged, base[r], x) \in Nat
    BY <1>1, TimesType
  <2>5. QED
    BY <1>1, <2>1, <2>2, <2>3, <2>4, BoundsAssumption DEF GuardOf, Ahead, Chosen
<1>7. CASE ExecuteSucceeds(r)
  <2>1. /\ UNCHANGED <<base, step, visited, chosen>> /\ pc[r] = "executing"
        /\ pc'[r] \in {"save_task", "err_patch"} /\ chosen[r] \in Nodes
    BY <1>1, <1>7 DEF ExecuteSucceeds, Goto, TypeOK, ControlOK
  <2>2. st'[r].merged = Append(st[r].merged, chosen[r])
    BY <2>1, StateSteps
  <2>3. Len(st'[r].merged) = Len(st[r].merged) + 1 /\ Len(st[r].merged) \in Nat
    BY <1>1, <2>1, <2>2
  <2>4. \A n \in Nodes : Times(st'[r].merged, base[r], n) =
          Times(st[r].merged, base[r], n) + (IF chosen[r] = n THEN 1 ELSE 0)
    BY <1>1, <2>1, <2>2, <2>3, TimesAppend DEF GuardOf
  <2>5. \A x \in Nodes : Times(st[r].merged, base[r], x) \in Nat
    BY <1>1, TimesType
  <2>6. /\ base'[r] <= Len(st'[r].merged) /\ Len(st'[r].merged) <= base'[r] + step'[r]
        /\ pc'[r] \notin Chosen \cup {"idle", "deciding"}
    BY <1>1, <2>1, <2>3, BoundsAssumption DEF GuardOf, Chosen
  <2>7. \A n \in Nodes : visited[r][n] <= MaxSameNodeVisits /\ visited[r][n] \in Nat
    BY <1>1, <2>1 DEF GuardOf, Ahead
  <2>8. ASSUME NEW n \in Nodes
        PROVE  Times(st[r].merged, base[r], n) + (IF chosen[r] = n THEN 1 ELSE 0)
                 <= visited[r][n]
    BY <1>1, <2>1, <2>5, <2>7 DEF GuardOf, Chosen
  <2>9. \A n \in Nodes : /\ Times(st'[r].merged, base'[r], n) <= visited'[r][n]
                         /\ Times(st'[r].merged, base'[r], n) <= MaxSameNodeVisits
    BY <2>1, <2>4, <2>5, <2>7, <2>8, BoundsAssumption
  <2>10. QED
    BY <2>1, <2>6, <2>7, <2>9 DEF GuardOf
<1>8. QED
  BY <1>2, <1>3, <1>4, <1>5, <1>6, <1>7 DEF RunStep, Lookup, Create, Refresh, Admit,
     Acquire, SaveTask, SaveSnapshot, SaveStep, SaveLineage, RecordStep, Conclude,
     ReadRecord, Finalize, SaveSummary, FinalUpdate

LEMMA CallerGuards ==
  ASSUME TypeOK, NEW r \in Runs, GuardOf(r), Caller(r)
  PROVE  GuardOf(r)'
<1>1. /\ st[r].merged \in Seq(Nodes) /\ pc[r] = "idle" /\ pc'[r] = "lookup"
      /\ UNCHANGED <<step, visited, chosen>>
  BY DEF Caller, Start, Resume, Goto, TypeOK, RunTypeOK, State
<1>2. ASSUME NEW t \in Tasks, Start(r, t) PROVE GuardOf(r)'
  BY <1>1, <1>2, GuardQuiet DEF Start, Ahead, Chosen
<1>3. ASSUME NEW t \in Tasks, Resume(r, t) PROVE GuardOf(r)'
  <2>1. PICK k \in DOMAIN snaps[t] :
          /\ st' = [st EXCEPT ![r] = [snaps[t][k] EXCEPT !.status = "running"]]
          /\ base' = [base EXCEPT ![r] = Len(snaps[t][k].merged)]
    BY <1>3 DEF Resume
  <2>2. snaps[t][k] \in State
    BY RowOfTable DEF TypeOK, StoreTypeOK
  <2>3. st'[r].merged = snaps[t][k].merged /\ base'[r] = Len(st'[r].merged)
    BY <2>1, <2>2, StateChanges DEF TypeOK, RunTypeOK
  <2>4. st'[r].merged \in Seq(Nodes) /\ Len(st'[r].merged) \in Nat
    BY <2>2, <2>3 DEF State
  <2>5. \A n \in Nodes : Times(st'[r].merged, base'[r], n) = 0
    BY <2>3, <2>4, TimesAtEnd
  <2>6. step[r] = 0 /\ \A n \in Nodes : visited[r][n] = 0
    BY <1>1 DEF GuardOf
  <2>7. QED
    BY <1>1, <2>3, <2>4, <2>5, <2>6, BoundsAssumption DEF GuardOf, Chosen
<1>4. QED
  BY <1>2, <1>3 DEF Caller

LEMMA NextGuards ==
  ASSUME TypeOK, GuardInv, [Next]_vars
  PROVE  GuardInv'
<1> SUFFICES ASSUME NEW q \in Runs, GuardOf(q) PROVE GuardOf(q)'
  BY DEF GuardInv
<1>1. CASE UNCHANGED vars
  BY <1>1 DEF vars, runVars, GuardOf
<1>2. ASSUME NEW r \in Runs, Caller(r) \/ RunStep(r)
      PROVE  GuardOf(q)'
  <2>1. CASE q = r
    BY <1>2, <2>1, CallerGuards, RunGuards
  <2>2. CASE q # r
    <3>1. /\ pc'[q] = pc[q] /\ st'[q] = st[q] /\ chosen'[q] = chosen[q]
          /\ step'[q] = step[q] /\ visited'[q] = visited[q] /\ base'[q] = base[q]
      BY <1>2, <2>2, OthersKept
    <3>2. QED
      BY <3>1 DEF GuardOf
  <2>3. QED
    BY <2>1, <2>2
<1>3. CASE Environment
  <2>1. UNCHANGED <<st, base, step, visited, chosen>>
    BY <1>3 DEF Environment, Expire, Cancel, Unload, Load, Crash, runVars
  <2>2. pc'[q] = pc[q] \/ pc'[q] = "crashed"
    BY <1>3 DEF Environment, Expire, Cancel, Unload, Load, Crash
  <2>3. QED
    BY <2>1, <2>2 DEF GuardOf, Ahead, Chosen
<1>4. QED
  BY <1>1, <1>2, <1>3 DEF Next, Terminating

\* One run merges at most as many patches as it took steps, and no more than
\* MaxSameNodeVisits of one node, for any plans, rejections and snapshots it
\* starts from (engine.go:78, 155-159).
THEOREM GuardsHold == Spec => []GuardsBoundEveryRun
<1>1. Init => GuardInv
  BY InitGuards
<1>2. TypeOK /\ GuardInv /\ [Next]_vars => GuardInv'
  BY NextGuards
<1>3. TypeOK /\ GuardInv => GuardsBoundEveryRun
  <2> SUFFICES ASSUME TypeOK, GuardInv, NEW r \in Runs
               PROVE  LET mine == SubSeq(st[r].merged, base[r] + 1, Len(st[r].merged)) IN
                      /\ Len(mine) <= step[r]
                      /\ \A n \in Nodes : Cardinality({i \in DOMAIN mine : mine[i] = n})
                                            <= MaxSameNodeVisits
    BY DEF GuardsBoundEveryRun
  <2> DEFINE m == st[r].merged
             mine == SubSeq(m, base[r] + 1, Len(m))
  <2>1. GuardOf(r)
    BY DEF GuardInv
  <2>2. m \in Seq(Nodes) /\ base[r] \in Nat /\ step[r] \in Nat
    BY BoundsAssumption DEF TypeOK, RunTypeOK, State
  <2>3. base[r] \in 0..Len(m)
    BY <2>1, <2>2 DEF GuardOf
  <2>4. /\ Len(mine) = Len(m) - base[r]
        /\ \A n \in Nodes : Cardinality({i \in DOMAIN mine : mine[i] = n})
                              = Times(m, base[r], n)
    BY <2>2, <2>3, TimesInRest
  <2>5. QED
    BY <2>1, <2>2, <2>3, <2>4 DEF GuardOf
<1>4. QED
  BY <1>1, <1>2, <1>3, TypeCorrect, PTL DEF Spec

-----------------------------------------------------------------------------
(***************************************************************************)
(* The verdict.  A run counts a visit only for a decision it also records, *)
(* so a node over its limit occurs that often in the log; the log holds no *)
(* terminating decision until the run leaves its loop, and snapshots are   *)
(* only taken inside the loop.                                             *)
(***************************************************************************)
Unterminated(log) == \A i \in DOMAIN log : log[i].node # Terminate

Explains(why, log) ==
  /\ why = "ai_terminate" => Last(log).node = Terminate
  /\ why = "max_steps" => Unterminated(log)
  /\ why = "loop_detected" => Routed(log, Last(log).node) > MaxSameNodeVisits

Consistent(status, why) ==
  /\ status = "completed" <=> why = "ai_terminate"
  /\ status = "timed_out" <=> why = "task_timeout"

Judged == {"read_record", "finalize", "save_summary"}

VerdictOf(r) ==
  /\ pc[r] = "idle" => visited[r] = [n \in Nodes |-> 0]
  /\ pc[r] \in Ahead =>
       /\ reason[r] = "ai_terminate" /\ Unterminated(st[r].log)
       /\ \A n \in Nodes : visited[r][n] <= Routed(st[r].log, n)
  /\ pc[r] = "conclude" => reason[r] # "task_timeout"
  /\ pc[r] \in Judged \cup {"conclude"} => Explains(reason[r], st[r].log)
  /\ pc[r] \in Judged => Consistent(st[r].status, reason[r])

StoredVerdicts ==
  /\ \A t \in Tasks : \A k \in DOMAIN snaps[t] : Unterminated(snaps[t][k].log)
  /\ \A t \in Tasks : /\ Consistent(summary[t].status, summary[t].reason)
                      /\ Explains(summary[t].reason, summary[t].log)

VerdictInv == (\A r \in Runs : VerdictOf(r)) /\ StoredVerdicts

\* One more decision counts for the node it names, and for no other.
LEMMA RoutedAppend ==
  ASSUME NEW log \in Seq(DecisionRecord), NEW d \in DecisionRecord, NEW n
  PROVE  /\ Routed(log, n) \in Nat
         /\ Routed(Append(log, d), n) = Routed(log, n) + (IF d.node = n THEN 1 ELSE 0)
         /\ Last(Append(log, d)) = d
         /\ Unterminated(log) /\ d.node # Terminate => Unterminated(Append(log, d))
<1> DEFINE long == Append(log, d)
           S == {i \in DOMAIN log : log[i].node = n}
           T == {i \in DOMAIN long : long[i].node = n}
<1>1. /\ Len(long) = Len(log) + 1 /\ long[Len(log) + 1] = d
      /\ \A i \in 1..Len(log) : long[i] = log[i]
      /\ Len(log) \in Nat /\ DOMAIN log = 1..Len(log) /\ DOMAIN long = 1..(Len(log) + 1)
  OBVIOUS
<1>2. Routed(log, n) = Cardinality(S) /\ Routed(long, n) = Cardinality(T)
  BY DEF Routed
<1>3. IsFiniteSet(1..Len(log))
  <2>1. 1 \in Int /\ Len(log) \in Int
    OBVIOUS
  <2>2. QED
    BY <2>1, FS_Interval, Zenon
<1>4. IsFiniteSet(S) /\ Cardinality(S) \in Nat
  BY <1>1, <1>3, FS_Subset, FS_CardinalityType
<1>5. CASE d.node = n
  <2>1. T = S \cup {Len(log) + 1} /\ Len(log) + 1 \notin S
    BY <1>1, <1>5
  <2>2. Last(long) = d
    BY <1>1 DEF Last
  <2>3. Unterminated(log) /\ d.node # Terminate => Unterminated(long)
    BY <1>1 DEF Unterminated
  <2> HIDE DEF S, T
  <2>4. Cardinality(T) = Cardinality(S) + 1
    BY <1>4, <2>1, FS_AddElement
  <2>5. QED
    BY <1>2, <1>4, <1>5, <2>2, <2>3, <2>4
<1>6. CASE d.node # n
  <2>1. T = S
    BY <1>1, <1>6
  <2>2. Last(long) = d
    BY <1>1 DEF Last
  <2>3. Unterminated(log) /\ d.node # Terminate => Unterminated(long)
    BY <1>1 DEF Unterminated
  <2> HIDE DEF S, T
  <2>4. QED
    BY <1>2, <1>4, <1>6, <2>1, <2>2, <2>3
<1>7. QED
  BY <1>5, <1>6

LEMMA InitVerdict == Init => VerdictInv
<1> SUFFICES ASSUME Init PROVE VerdictInv
  OBVIOUS
<1>1. /\ Unterminated(<<>>)
      /\ \A n : Routed(<<>>, n) = 0
  <2>1. DOMAIN <<>> = {} /\ \A n : {i \in DOMAIN <<>> : <<>>[i].node = n} = {}
    OBVIOUS
  <2>2. QED
    BY <2>1, FS_EmptySet DEF Unterminated, Routed
<1>2. ASSUME NEW r \in Runs PROVE VerdictOf(r)
  BY <1>1 DEF Init, VerdictOf, New, Judged
<1>3. StoredVerdicts
  BY DEF Init, StoredVerdicts, EmptyTable, NoSummary, Consistent, Explains
<1>4. QED
  BY <1>2, <1>3 DEF VerdictInv

\* A step that decides nothing.
LEMMA VerdictQuiet ==
  ASSUME NEW r \in Runs, VerdictOf(r), st'[r].log = st[r].log, visited'[r] = visited[r],
         reason'[r] = reason[r], pc'[r] = "idle" => pc[r] = "idle",
         pc'[r] \in Ahead => pc[r] \in Ahead,
         pc'[r] \in Judged => pc[r] \in Judged /\ st'[r].status = st[r].status,
         pc'[r] # "conclude"
  PROVE  VerdictOf(r)'
BY DEF VerdictOf

LEMMA RunVerdict ==
  ASSUME TypeOK, NEW r \in Runs, VerdictOf(r), RunStep(r)
  PROVE  VerdictOf(r)'
<1>1. /\ st[r] \in State /\ st[r].log \in Seq(DecisionRecord) /\ step[r] \in Nat
      /\ visited[r] \in [Nodes -> Nat] /\ st \in [Runs -> State]
      /\ reason \in [Runs -> Reasons]
      /\ pc \in [Runs -> {"idle"} \cup Running \cup Finished]
      /\ visited \in [Runs -> [Nodes -> Nat]]
  BY BoundsAssumption DEF TypeOK, RunTypeOK, State
<1>2. CASE \/ Lookup(r) \/ Create(r) \/ Refresh(r) \/ Acquire(r) \/ ExecuteFails(r)
           \/ SaveTask(r) \/ SaveSnapshot(r) \/ SaveStep(r) \/ SaveLineage(r)
           \/ RecordStep(r) \/ ReadRecord(r) \/ Finalize(r) \/ SaveSummary(r)
           \/ FinalUpdate(r)
  <2>1. UNCHANGED <<st, visited, reason>>
    BY <1>2 DEF Lookup, Create, Refresh, Acquire, ExecuteFails, SaveTask,
         SaveSnapshot, SaveStep, SaveLineage, RecordStep, ReadRecord, Finalize,
         SaveSummary, FinalUpdate, runVars
  <2>2. /\ pc'[r] \notin {"idle", "conclude"}
        /\ pc'[r] \in Ahead => pc[r] \in Ahead
        /\ pc'[r] \in Judged => pc[r] \in Judged
    BY <1>1, <1>2 DEF Lookup, Create, Refresh, Acquire, ExecuteFails, SaveTask,
         SaveSnapshot, SaveStep, SaveLineage, RecordStep, ReadRecord, Finalize,
         SaveSummary, FinalUpdate, Goto, Write, TryWrite, Ahead, Judged
  <2>3. QED
    BY <2>1, <2>2, VerdictQuiet
<1>3. CASE BeginStep(r) \/ DecideFails(r)
  <2>1. /\ UNCHANGED <<visited, reason>>
        /\ \/ pc[r] = "loop" /\ pc'[r] \in {"deciding", "err_ai"}
           \/ pc[r] = "deciding" /\ pc'[r] = "err_ai"
    BY <1>1, <1>3 DEF BeginStep, DecideFails, FailDecision, Goto
  <2>2. st'[r].log = st[r].log
    <3>1. CASE BeginStep(r)
      BY <2>1, <3>1, StateSteps DEF BeginStep, RunStep
    <3>2. CASE DecideFails(r)
      BY <1>1, <3>2, StateChanges DEF DecideFails, FailDecision
    <3>3. QED
      BY <1>3, <3>1, <3>2
  <2>3. QED
    BY <2>1, <2>2, VerdictQuiet DEF Ahead, Judged
<1>4. CASE Admit(r) \/ ExecuteSucceeds(r)
  <2>1. /\ UNCHANGED <<visited, reason>> /\ pc[r] \in {"admit", "executing"}
        /\ pc'[r] \in {"loop", "panicked", "acquire", "save_task", "err_patch"}
    BY <1>1, <1>4 DEF Admit, ExecuteSucceeds, RecordRejection, Goto
  <2>2. st'[r].log = st[r].log
    BY <1>1, <1>4, StateChanges DEF Admit, ExecuteSucceeds, RecordRejection
  <2>3. QED
    BY <2>1, <2>2, VerdictQuiet DEF Ahead, Judged
<1>5. CASE StepsExhausted(r)
  <2>1. /\ UNCHANGED <<visited, st>> /\ pc[r] = "loop" /\ pc'[r] = "conclude"
        /\ reason'[r] = "max_steps"
    BY <1>1, <1>5 DEF StepsExhausted, Goto
  <2>2. QED
    BY <2>1 DEF VerdictOf, Ahead, Judged, Explains
<1>6. CASE DecidePlan(r)
  <2> DEFINE d == [type |-> "plan", node |-> NoNode, step |-> step[r]]
             s == SetExt(st[r], "latest_plan")
  <2>1. d \in DecisionRecord /\ d.node = NoNode /\ NoNode # Terminate /\ NoNode \notin Nodes
    BY <1>1, NodesAssumption DEF DecisionRecord, NoNode, Terminate
  <2>2. s \in State /\ s.log = st[r].log
    BY <1>1, SetExtType, StateChanges
  <2>3. /\ UNCHANGED <<visited, reason>> /\ pc[r] = "deciding" /\ pc'[r] = "loop"
        /\ st'[r] = AppendDecision(s, "plan", NoNode, step[r])
    BY <1>1, <1>6 DEF DecidePlan, Goto
  <2> HIDE DEF s
  <2>4. st'[r].log = Append(st[r].log, d)
    <3>1. \A x \in State : AppendDecision(x, "plan", NoNode, step[r]).log = Append(x.log, d)
      BY StateChanges
    <3>2. QED
      BY <2>2, <2>3, <3>1
  <2> HIDE DEF d
  <2>5. \A n \in Nodes : Routed(st'[r].log, n) = Routed(st[r].log, n)
    BY <1>1, <2>1, <2>4, RoutedAppend
  <2>6. Unterminated(st[r].log) => Unterminated(st'[r].log)
    BY <1>1, <2>1, <2>4, RoutedAppend
  <2>7. QED
    BY <2>3, <2>5, <2>6 DEF VerdictOf, Ahead, Judged
<1>7. CASE DecideTerminate(r)
  <2> DEFINE d == [type |-> "route", node |-> Terminate, step |-> step[r]]
  <2>1. d \in DecisionRecord /\ d.node = Terminate
    BY <1>1 DEF DecisionRecord
  <2>2. /\ UNCHANGED <<visited, reason>> /\ pc[r] = "deciding" /\ pc'[r] = "conclude"
        /\ st'[r].log = Append(st[r].log, d)
    BY <1>1, <1>7, StateChanges DEF DecideTerminate, RecordRoute, Goto
  <2> HIDE DEF d
  <2>3. Last(st'[r].log).node = Terminate
    BY <1>1, <2>1, <2>2, RoutedAppend
  <2>4. QED
    BY <2>2, <2>3 DEF VerdictOf, Ahead, Judged, Explains
<1>8. ASSUME NEW n \in Nodes, DecideRoute(r, n)
      PROVE  VerdictOf(r)'
  <2> DEFINE d == [type |-> "route", node |-> n, step |-> step[r]]
  <2>1. d \in DecisionRecord /\ d.node = n /\ n # Terminate
    BY <1>1, NodesAssumption DEF DecisionRecord, Terminate
  <2>2. /\ pc[r] = "deciding"
        /\ visited'[r] = [visited[r] EXCEPT ![n] = visited[r][n] + 1]
        /\ \/ /\ visited[r][n] + 1 > MaxSameNodeVisits
              /\ reason'[r] = "loop_detected" /\ pc'[r] = "conclude"
           \/ reason'[r] = reason[r] /\ pc'[r] \in {"admit", "err_unknown"}
    BY <1>1, <1>8 DEF DecideRoute, Goto, Looping
  <2>3. st'[r].log = Append(st[r].log, d)
    BY <1>1, <1>8, StateChanges DEF DecideRoute, RecordRoute
  <2> HIDE DEF d
  <2>4. \A x \in Nodes : /\ Routed(st[r].log, x) \in Nat
                         /\ Routed(st'[r].log, x) =
                              Routed(st[r].log, x) + (IF n = x THEN 1 ELSE 0)
    BY <1>1, <2>1, <2>3, RoutedAppend
  <2>5. /\ Unterminated(st[r].log) => Unterminated(st'[r].log)
        /\ Last(st'[r].log).node = n
    BY <1>1, <2>1, <2>3, RoutedAppend
  <2>6. /\ reason[r] = "ai_terminate" /\ Unterminated(st[r].log)
        /\ \A x \in Nodes : visited[r][x] <= Routed(st[r].log, x)
    BY <2>2 DEF VerdictOf, Ahead
  <2>7. ASSUME NEW x \in Nodes PROVE visited'[r][x] <= Routed(st'[r].log, x)
    <3>1. CASE x = n
      BY <1>1, <2>2, <2>4, <2>6, <3>1
    <3>2. CASE x # n
      BY <1>1, <2>2, <2>4, <2>6, <3>2
    <3>3. QED
      BY <3>1, <3>2
  <2>8. visited[r][n] + 1 > MaxSameNodeVisits => Routed(st'[r].log, n) > MaxSameNodeVisits
    BY <1>1, <2>4, <2>6, BoundsAssumption
  <2>9. QED
    BY <2>2, <2>5, <2>6, <2>7, <2>8 DEF VerdictOf, Ahead, Judged, Explains
<1>9. CASE Conclude(r)
  <2> DEFINE why == IF ctx[r] = "deadline" THEN "task_timeout" ELSE reason[r]
             verdict == CASE why = "task_timeout" -> "timed_out"
                          [] why = "ai_terminate" -> "completed"
                          [] OTHER -> "failed"
  <2>1. /\ UNCHANGED visited /\ pc[r] = "conclude" /\ pc'[r] = "read_record"
        /\ reason'[r] = why /\ st'[r] = [st[r] EXCEPT !.status = verdict]
    BY <1>1, <1>9 DEF Conclude, Goto
  <2>2. Consistent(verdict, why)
    BY DEF Consistent
  <2>3. Explains(reason[r], st[r].log) => Explains(why, st[r].log)
    BY DEF Explains
  <2> HIDE DEF why, verdict
  <2>4. st'[r].log = st[r].log /\ st'[r].status = verdict
    BY <1>1, <2>1, StateChanges
  <2>5. QED
    BY <2>1, <2>2, <2>3, <2>4 DEF VerdictOf, Ahead, Judged
<1>10. QED
  BY <1>2, <1>3, <1>4, <1>5, <1>6, <1>7, <1>8, <1>9 DEF RunStep

LEMMA CallerVerdict ==
  ASSUME TypeOK, StoredVerdicts, NEW r \in Runs, VerdictOf(r), Caller(r)
  PROVE  VerdictOf(r)'
<1>1. /\ pc[r] = "idle" /\ pc'[r] = "lookup" /\ UNCHANGED <<visited, reason>>
  BY DEF Caller, Start, Resume, Goto, TypeOK, RunTypeOK
<1>2. ASSUME NEW t \in Tasks, Start(r, t) PROVE VerdictOf(r)'
  BY <1>1, <1>2, VerdictQuiet DEF Start, Ahead, Judged
<1>3. ASSUME NEW t \in Tasks, Resume(r, t) PROVE VerdictOf(r)'
  <2>1. PICK k \in DOMAIN snaps[t] :
          st' = [st EXCEPT ![r] = [snaps[t][k] EXCEPT !.status = "running"]]
    BY <1>3 DEF Resume
  <2>2. snaps[t][k] \in State
    BY RowOfTable DEF TypeOK, StoreTypeOK
  <2>3. st'[r].log = snaps[t][k].log /\ st'[r].log \in Seq(DecisionRecord)
    BY <2>1, <2>2, StateChanges DEF TypeOK, RunTypeOK, State
  <2>4. Unterminated(st'[r].log)
    BY <2>3 DEF StoredVerdicts
  <2>5. \A n \in Nodes : Routed(st'[r].log, n) \in Nat
    <3>1. [type |-> "plan", node |-> NoNode, step |-> 0] \in DecisionRecord
      BY DEF DecisionRecord
    <3>2. QED
      BY <2>3, <3>1, RoutedAppend
  <2>6. QED
    BY <1>1, <2>4, <2>5 DEF VerdictOf, Ahead, Judged
<1>4. QED
  BY <1>2, <1>3 DEF Caller

\* What the run that stores a summary, or a snapshot, puts into the store.
LEMMA StoreVerdict ==
  ASSUME TypeOK, StoredVerdicts, NEW r \in Runs, VerdictOf(r), Caller(r) \/ RunStep(r)
  PROVE  StoredVerdicts'
<1>1. CASE SaveSummary(r)
  <2>1. /\ pc[r] = "save_summary" /\ UNCHANGED snaps /\ DOMAIN summary = Tasks
        /\ \/ summary' = summary
           \/ summary' = [summary EXCEPT ![task[r]] = BuildSummary(st[r], record[r], reason[r])]
    BY <1>1 DEF SaveSummary, Write, TypeOK, StoreTypeOK
  <2>2. Consistent(st[r].status, reason[r]) /\ Explains(reason[r], st[r].log)
    BY <2>1 DEF VerdictOf, Judged
  <2> DEFINE new == BuildSummary(st[r], record[r], reason[r])
  <2>3. new.status = st[r].status /\ new.reason = reason[r] /\ new.log = st[r].log
    BY DEF BuildSummary
  <2> HIDE DEF new
  <2>4. ASSUME NEW t \in Tasks
        PROVE  summary'[t] = summary[t] \/ summary'[t] = new
    BY <2>1 DEF new
  <2>5. QED
    BY <2>1, <2>2, <2>3, <2>4 DEF StoredVerdicts
<1>2. CASE SaveSnapshot(r)
  <2>1. /\ pc[r] = "save_snapshot" /\ UNCHANGED summary
        /\ \/ snaps' = snaps
           \/ snaps' = [snaps EXCEPT ![task[r]] = Put(snaps[task[r]], st[r].version, st[r])]
    BY <1>2 DEF SaveSnapshot, Write
  <2>2. Unterminated(st[r].log)
    BY <2>1 DEF VerdictOf, Ahead
  <2>3. ASSUME NEW t \in Tasks, NEW k \in DOMAIN snaps'[t]
        PROVE  Unterminated(snaps'[t][k].log)
    <3>1. DOMAIN snaps = Tasks /\ IsTable(snaps[t], State)
      BY DEF TypeOK, StoreTypeOK
    <3>2. \/ snaps'[t] = snaps[t]
          \/ snaps'[t] = Put(snaps[t], st[r].version, st[r])
      BY <2>1, <3>1
    <3>3. \/ snaps'[t][k] = st[r]
          \/ k \in DOMAIN snaps[t] /\ snaps'[t][k] = snaps[t][k]
      BY <3>1, <3>2, PutElements
    <3>4. QED
      BY <2>2, <3>3 DEF StoredVerdicts
  <2>4. QED
    BY <2>1, <2>3 DEF StoredVerdicts
<1>3. CASE ~SaveSummary(r) /\ ~SaveSnapshot(r)
  <2>1. UNCHANGED <<snaps, summary>>
    BY <1>3 DEF Caller, RunStep, Start, Resume, Lookup, Create, Refresh, BeginStep,
         StepsExhausted, DecideFails, DecidePlan, DecideTerminate, DecideRoute, Admit,
         Acquire, ExecuteFails, ExecuteSucceeds, SaveTask, SaveStep, SaveLineage,
         RecordStep, Conclude, ReadRecord, Finalize, FinalUpdate, storeVars
  <2>2. QED
    BY <2>1 DEF StoredVerdicts
<1>4. QED
  BY <1>1, <1>2, <1>3

LEMMA CrashVerdict ==
  ASSUME StoredVerdicts, Crash
  PROVE  StoredVerdicts'
<1>1. CASE Backend = "memory"
  <2>1. \A t \in Tasks : snaps'[t] = <<>> /\ summary'[t] = NoSummary
    BY <1>1 DEF Crash, EmptyTable
  <2>2. DOMAIN <<>> = {}
    OBVIOUS
  <2>3. Consistent(NoSummary.status, NoSummary.reason) /\ Explains(NoSummary.reason, NoSummary.log)
    BY DEF NoSummary, Consistent, Explains
  <2>4. QED
    BY <2>1, <2>2, <2>3 DEF StoredVerdicts
<1>2. CASE Backend # "memory"
  BY <1>2 DEF Crash, storeVars, StoredVerdicts
<1>3. QED
  BY <1>1, <1>2

LEMMA NextVerdict ==
  ASSUME TypeOK, VerdictInv, [Next]_vars
  PROVE  VerdictInv'
<1>1. CASE UNCHANGED vars
  BY <1>1 DEF vars, runVars, storeVars, VerdictInv, VerdictOf, StoredVerdicts
<1>2. ASSUME NEW r \in Runs, Caller(r) \/ RunStep(r)
      PROVE  VerdictInv'
  <2>1. StoredVerdicts'
    BY <1>2, StoreVerdict DEF VerdictInv
  <2>2. ASSUME NEW q \in Runs PROVE VerdictOf(q)'
    <3>1. CASE q = r
      BY <1>2, <3>1, CallerVerdict, RunVerdict DEF VerdictInv
    <3>2. CASE q # r
      <4>1. /\ pc'[q] = pc[q] /\ st'[q] = st[q] /\ visited'[q] = visited[q]
            /\ reason'[q] = reason[q]
        BY <1>2, <3>2, OthersKept
      <4>2. QED
        BY <4>1 DEF VerdictInv, VerdictOf
    <3>3. QED
      BY <3>1, <3>2
  <2>3. QED
    BY <2>1, <2>2 DEF VerdictInv
<1>3. CASE Environment
  <2>1. UNCHANGED <<st, visited, reason>>
    BY <1>3 DEF Environment, Expire, Cancel, Unload, Load, Crash, runVars
  <2>2. \A q \in Runs : pc'[q] = pc[q] \/ pc'[q] = "crashed"
    BY <1>3 DEF Environment, Expire, Cancel, Unload, Load, Crash
  <2>3. StoredVerdicts'
    <3>1. CASE Crash
      BY <3>1, CrashVerdict DEF VerdictInv
    <3>2. CASE ~Crash
      BY <1>3, <3>2 DEF Environment, Expire, Cancel, Unload, Load, storeVars, VerdictInv,
         StoredVerdicts
    <3>3. QED
      BY <3>1, <3>2
  <2>4. QED
    BY <2>1, <2>2, <2>3 DEF VerdictInv, VerdictOf, Ahead, Judged
<1>4. QED
  BY <1>1, <1>2, <1>3 DEF Next, Terminating

\* The verdict, the reason and the decisions of every stored summary agree,
\* whichever runs of a task wrote to the store, and in which order
\* (engine.go:151-159, 219-234).
THEOREM VerdictIsExplained == Spec => []VerdictExplainsDecisions
<1>1. Init => VerdictInv
  BY InitVerdict
<1>2. TypeOK /\ VerdictInv /\ [Next]_vars => VerdictInv'
  BY NextVerdict
<1>3. VerdictInv => VerdictExplainsDecisions
  BY DEF VerdictInv, StoredVerdicts, Consistent, Explains, Unterminated,
         VerdictExplainsDecisions
<1>4. QED
  BY <1>1, <1>2, <1>3, TypeCorrect, PTL DEF Spec

=============================================================================
