------------------------ MODULE BuiltinWorkflow_proofs ------------------------
(***************************************************************************)
(* Theorems about the shipped nodes under the mock provider and under any  *)
(* model, for every number of resumes on the server and, where it matters, *)
(* every budget of steps and visits that is large enough.                  *)
(***************************************************************************)
EXTENDS BuiltinWorkflow, SequenceTheorems, TLAPS

-----------------------------------------------------------------------------
(***************************************************************************)
(* Type correctness.  A resume takes its state from the snapshot, whose    *)
(* type is part of the invariant.                                          *)
(***************************************************************************)
Keys == {Sets(n) : n \in Nodes}

SnapshotType == [memory : SUBSET Keys, planned : BOOLEAN, merged : Seq(Nodes)]

TypeInv == TypeOK /\ saved \in SnapshotType

LEMMA HopType ==
  ASSUME TypeInv, NEW n \in Nodes, Hop(n)
  PROVE  TypeInv'
<1>1. memory \cup {Sets(n)} \subseteq Keys /\ Append(merged, n) \in Seq(Nodes)
  BY DEF TypeInv, TypeOK, Keys
<1>2. memory' \subseteq Keys /\ merged' \in Seq(Nodes) /\ planned' \in BOOLEAN
  BY <1>1 DEF Hop, TypeInv, TypeOK, Keys, stateVar
<1>3. saved' \in SnapshotType
  <2>1. CASE saved' = saved
    BY <2>1 DEF TypeInv
  <2>2. CASE Snapshot /\ planned' = planned
    BY <1>2, <2>2 DEF Snapshot, SnapshotType
  <2>3. QED
    BY <2>1, <2>2 DEF Hop
<1>4. step' \in 0..MaxSteps
  BY WorkflowAssumption DEF Hop, InLoop, TypeInv, TypeOK
<1>5. visited' \in [Nodes -> Nat] /\ status' \in {"running", "completed", "failed", "broken"}
  BY DEF Hop, TypeInv, TypeOK
<1>6. UNCHANGED <<task, resumes>>
  BY DEF Hop
<1>7. saved'.memory \subseteq Keys /\ saved'.merged \in Seq(Nodes)
  BY <1>3 DEF SnapshotType
<1>8. QED
  BY <1>2, <1>3, <1>4, <1>5, <1>6, <1>7 DEF TypeInv, TypeOK, task, Keys

LEMMA NextTypeInv == TypeInv /\ [Next]_vars => TypeInv'
<1> SUFFICES ASSUME TypeInv, [Next]_vars PROVE TypeInv'
  OBVIOUS
<1>1. CASE RecordPlan \/ Conclude \/ OutOfSteps \/ Break
  <2>1. step' \in 0..MaxSteps
    BY <1>1, WorkflowAssumption
       DEF RecordPlan, Conclude, OutOfSteps, Break, InLoop, TypeInv, TypeOK
  <2>2. QED
    BY <1>1, <2>1 DEF RecordPlan, Conclude, OutOfSteps, Break, TypeInv, TypeOK, task, stateVar
<1>2. CASE Resume
  <2>1. /\ memory' \subseteq Keys /\ planned' \in BOOLEAN /\ merged' \in Seq(Nodes)
    BY <1>2 DEF Resume, TypeInv, SnapshotType
  <2>2. resumes' \in 0..MaxResumes /\ step' \in 0..MaxSteps
    BY <1>2, WorkflowAssumption DEF Resume, TypeInv, TypeOK
  <2>3. visited' \in [Nodes -> Nat]
    BY <1>2 DEF Resume, NotVisited
  <2>4. QED
    BY <1>2, <2>1, <2>2, <2>3 DEF Resume, TypeInv, TypeOK, task, Keys
<1>3. CASE UNCHANGED vars
  BY <1>3 DEF TypeInv, TypeOK, vars, task, stateVar
<1>4. QED
  BY <1>1, <1>2, <1>3, HopType DEF Next, Done

LEMMA InitTypeInv == Init => TypeInv
<1> SUFFICES ASSUME Init PROVE TypeInv
  OBVIOUS
<1>1. saved \in SnapshotType /\ saved.memory = {} /\ saved.merged = <<>>
  BY DEF Init, NoSnapshot, SnapshotType
<1>2. visited \in [Nodes -> Nat] /\ 0 \in 0..MaxSteps /\ 0 \in 0..MaxResumes
  BY WorkflowAssumption DEF Init, NotVisited
<1>3. <<>> \in Seq(Nodes)
  OBVIOUS
<1>4. /\ deployment \in {"server", "demo"} /\ text \in {"blank", "weather", "other"}
      /\ planning \in BOOLEAN /\ planned \in BOOLEAN /\ model \in {"mock", "any"}
      /\ status \in {"running", "completed", "failed", "broken"}
      /\ memory \subseteq Keys /\ saved.memory \subseteq Keys
  BY <1>1 DEF Init
<1>5. merged \in Seq(Nodes) /\ saved.merged \in Seq(Nodes)
  BY <1>1, <1>3 DEF Init
<1>6. step \in 0..MaxSteps /\ resumes \in 0..MaxResumes
  BY <1>2 DEF Init
<1>7. QED
  BY <1>1, <1>2, <1>4, <1>5, <1>6 DEF TypeInv, TypeOK, Keys

\* Types of all variables, the snapshot a resume starts from included.
THEOREM WorkflowTyped == Spec => []TypeOK
<1>1. TypeInv => TypeOK
  BY DEF TypeInv
<1>2. QED
  BY <1>1, InitTypeInv, NextTypeInv, PTL DEF Spec

-----------------------------------------------------------------------------
(***************************************************************************)
(* The tools of the demo.  Each key of the working memory is set by one of *)
(* them only, and each of them is refused once its key is there.           *)
(***************************************************************************)
ToolsInv ==
  deployment = "demo" =>
    /\ \A i \in DOMAIN merged : merged[i] \in Weather /\ Sets(merged[i]) \in memory
    /\ ToolsRunOnce

\* A tool that is admitted has not run yet.
LEMMA ToolRefusedOnceRun ==
  ASSUME NEW n \in Weather, Admits(n)
  PROVE  Sets(n) \notin memory
<1>1. CASE n = "resolve_user_location"
  BY <1>1 DEF Admits, Sets
<1>2. CASE n = "query_weather"
  BY <1>2 DEF Admits, Sets
<1>3. CASE n = "finalize_weather_answer"
  BY <1>3 DEF Admits, Sets
<1>4. QED
  BY <1>1, <1>2, <1>3 DEF Weather

LEMMA NextTools == TypeInv /\ ToolsInv /\ [Next]_vars => ToolsInv'
<1> SUFFICES ASSUME TypeInv, ToolsInv, [Next]_vars, deployment' = "demo" PROVE ToolsInv'
  BY DEF ToolsInv
<1>1. deployment = "demo"
  BY DEF Next, RecordPlan, Conclude, Hop, OutOfSteps, Break, Resume, Done, task, vars
<1>2. CASE UNCHANGED <<memory, merged>>
  BY <1>1, <1>2 DEF ToolsInv, ToolsRunOnce
<1>3. ASSUME NEW n \in Nodes, Hop(n), ~UNCHANGED <<memory, merged>> PROVE ToolsInv'
  <2>1. /\ Admits(n) /\ memory' = memory \cup {Sets(n)} /\ merged' = Append(merged, n)
        /\ n \in Candidates
    BY <1>3 DEF Hop, stateVar
  <2>2. n \in Weather
    BY <1>1, <2>1 DEF Candidates
  <2>3. Sets(n) \notin memory
    BY <2>1, <2>2, ToolRefusedOnceRun
  <2>4. /\ DOMAIN merged = 1..Len(merged) /\ DOMAIN merged' = 1..(Len(merged) + 1)
        /\ Len(merged) \in Nat /\ merged'[Len(merged) + 1] = n
        /\ \A i \in 1..Len(merged) : merged'[i] = merged[i]
    BY <2>1 DEF TypeInv, TypeOK
  <2>5. \A i \in DOMAIN merged : /\ merged[i] \in Weather /\ Sets(merged[i]) \in memory
                                 /\ merged[i] # n
    BY <1>1, <2>3 DEF ToolsInv
  <2>6. \A i \in DOMAIN merged' : merged'[i] \in Weather /\ Sets(merged'[i]) \in memory'
    BY <2>1, <2>2, <2>4, <2>5
  <2>7. \A i, j \in DOMAIN merged : merged[i] = merged[j] => i = j
    BY <1>1 DEF ToolsInv, ToolsRunOnce
  <2>8. \A i, j \in DOMAIN merged' : merged'[i] = merged'[j] => i = j
    BY <2>4, <2>5, <2>7
  <2>9. QED
    BY <2>6, <2>8 DEF ToolsInv, ToolsRunOnce
<1>4. QED
  BY <1>1, <1>2, <1>3
     DEF Next, RecordPlan, Conclude, OutOfSteps, Break, Resume, Done, vars, stateVar

\* No tool of the demo runs twice in a task, whatever the model asks for and
\* however large the budgets are (weatherdemo.go:222-232, 273-283, 328-341).
THEOREM ToolsAreUsedOnce == Spec => []ToolsRunOnce
<1>1. Init => ToolsInv
  <2> SUFFICES ASSUME Init PROVE ToolsInv
    OBVIOUS
  <2>1. merged = <<>> /\ DOMAIN <<>> = {}
    BY DEF Init
  <2>2. QED
    BY <2>1 DEF ToolsInv, ToolsRunOnce
<1>2. Init => TypeInv
  BY InitTypeInv
<1>3. ToolsInv => ToolsRunOnce
  BY DEF ToolsInv, ToolsRunOnce
<1>4. QED
  BY <1>1, <1>2, <1>3, NextTypeInv, NextTools, PTL DEF Spec

-----------------------------------------------------------------------------
(***************************************************************************)
(* The mock provider finds its place.  What is merged is the first k stops *)
(* of the itinerary and the working memory holds what they set, in the run *)
(* and in the snapshot; from that place the provider names the next stop.  *)
(***************************************************************************)
Stops(d) ==
  IF d = "server" THEN <<"intent_parse", "text_transform", "finalize">>
  ELSE <<"resolve_user_location", "query_weather", "finalize_weather_answer">>

Stage(d, k, done, mem) ==
  /\ done \in Seq(Nodes) /\ Len(done) = k
  /\ \A i \in 1..k : done[i] = Stops(d)[i]
  /\ mem = {Sets(Stops(d)[i]) : i \in 1..k}

PlaceInv ==
  model = "mock" =>
    /\ \E k \in 0..3 : Stage(deployment, k, merged, memory)
    /\ \E k \in 0..3 : Stage(deployment, k, saved.merged, saved.memory)

LEMMA StopsFacts ==
  ASSUME NEW d \in {"server", "demo"}
  PROVE  /\ Stops(d) \in Seq(Nodes) /\ Len(Stops(d)) = 3
         /\ d = "server" => /\ Stops(d)[1] = "intent_parse"
                            /\ Stops(d)[2] = "text_transform"
                            /\ Stops(d)[3] = "finalize"
         /\ d = "demo" => /\ Stops(d)[1] = "resolve_user_location"
                          /\ Stops(d)[2] = "query_weather"
                          /\ Stops(d)[3] = "finalize_weather_answer"
<1>1. ASSUME NEW a \in Nodes, NEW b \in Nodes, NEW c \in Nodes
      PROVE  <<a, b, c>> \in Seq(Nodes) /\ Len(<<a, b, c>>) = 3
  OBVIOUS
<1>2. CASE d = "server"
  <2>1. Stops(d) = <<"intent_parse", "text_transform", "finalize">>
    BY <1>2 DEF Stops
  <2>2. "intent_parse" \in Nodes /\ "text_transform" \in Nodes /\ "finalize" \in Nodes
    BY DEF Nodes, Builtins
  <2>3. Stops(d) \in Seq(Nodes) /\ Len(Stops(d)) = 3
    BY <1>1, <2>1, <2>2
  <2>4. QED
    BY <1>2, <2>1, <2>3
<1>3. CASE d = "demo"
  <2>1. Stops(d) = <<"resolve_user_location", "query_weather", "finalize_weather_answer">>
    BY <1>3 DEF Stops
  <2>2. /\ "resolve_user_location" \in Nodes /\ "query_weather" \in Nodes
        /\ "finalize_weather_answer" \in Nodes
    BY DEF Nodes, Weather
  <2>3. Stops(d) \in Seq(Nodes) /\ Len(Stops(d)) = 3
    BY <1>1, <2>1, <2>2
  <2>4. QED
    BY <1>3, <2>1, <2>3
<1>4. QED
  BY <1>2, <1>3

\* One stop further.
LEMMA NextStage ==
  ASSUME NEW d \in {"server", "demo"}, NEW k \in 0..2, NEW done, NEW mem,
         Stage(d, k, done, mem), NEW n, n = Stops(d)[k + 1]
  PROVE  Stage(d, k + 1, Append(done, n), mem \cup {Sets(n)})
<1>1. n \in Nodes /\ done \in Seq(Nodes) /\ Len(done) = k
  <2>1. k + 1 \in 1..3
    OBVIOUS
  <2>2. QED
    BY <2>1, StopsFacts DEF Stage
<1>2. /\ Append(done, n) \in Seq(Nodes) /\ Len(Append(done, n)) = k + 1
      /\ \A i \in 1..(k + 1) : Append(done, n)[i] = IF i = k + 1 THEN n ELSE done[i]
  BY <1>1
<1>3. \A i \in 1..(k + 1) : Append(done, n)[i] = Stops(d)[i]
  BY <1>2 DEF Stage
<1>4. mem \cup {Sets(n)} = {Sets(Stops(d)[i]) : i \in 1..(k + 1)}
  <2>1. 1..(k + 1) = 1..k \cup {k + 1}
    OBVIOUS
  <2>2. QED
    BY <2>1 DEF Stage
<1>5. QED
  BY <1>2, <1>3, <1>4 DEF Stage

\* What is merged and what is known at each stage.
LEMMA AtStage ==
  ASSUME NEW d \in {"server", "demo"}, NEW k \in 0..3, NEW done, NEW mem,
         Stage(d, k, done, mem)
  PROVE  /\ ToSet(done) = {Stops(d)[i] : i \in 1..k}
         /\ k = 0 => mem = {} /\ ToSet(done) = {}
         /\ k = 1 => /\ mem = {Sets(Stops(d)[1])}
                     /\ ToSet(done) = {Stops(d)[1]}
         /\ k = 2 => /\ mem = {Sets(Stops(d)[1]), Sets(Stops(d)[2])}
                     /\ ToSet(done) = {Stops(d)[1], Stops(d)[2]}
         /\ k = 3 => /\ mem = {Sets(Stops(d)[1]), Sets(Stops(d)[2]), Sets(Stops(d)[3])}
                     /\ ToSet(done) = {Stops(d)[1], Stops(d)[2], Stops(d)[3]}
<1>1. DOMAIN done = 1..k
  BY DEF Stage
<1>2. ToSet(done) = {Stops(d)[i] : i \in 1..k}
  BY <1>1 DEF Stage, ToSet
<1>3. /\ 1..0 = {} /\ 1..1 = {1} /\ 1..2 = {1, 2} /\ 1..3 = {1, 2, 3}
  OBVIOUS
<1>4. mem = {Sets(Stops(d)[i]) : i \in 1..k}
  BY DEF Stage
<1>5. CASE k = 0
  BY <1>2, <1>3, <1>4, <1>5
<1>6. CASE k = 1
  BY <1>2, <1>3, <1>4, <1>6
<1>7. CASE k = 2
  BY <1>2, <1>3, <1>4, <1>7
<1>8. CASE k = 3
  BY <1>2, <1>3, <1>4, <1>8
<1>9. QED
  BY <1>2, <1>5, <1>6, <1>7, <1>8

\* The checks of the stops.
LEMMA AdmitsOf ==
  /\ Admits("intent_parse") <=> HasText
  /\ Admits("text_transform") <=> HasText
  /\ Admits("finalize") <=> HasContent
  /\ Admits("resolve_user_location") <=> HasText /\ "location" \notin memory
  /\ Admits("query_weather") <=> "weather" \notin memory
  /\ Admits("finalize_weather_answer") <=> "final_text" \notin memory
<1>1. (Admits("intent_parse") <=> HasText) /\ (Admits("text_transform") <=> HasText)
  BY DEF Admits
<1>2. Admits("finalize") <=> HasContent
  BY DEF Admits
<1>3. Admits("resolve_user_location") <=> HasText /\ "location" \notin memory
  BY DEF Admits
<1>4. /\ Admits("query_weather") <=> "weather" \notin memory
      /\ Admits("finalize_weather_answer") <=> "final_text" \notin memory
  BY DEF Admits
<1>5. QED
  BY <1>1, <1>2, <1>3, <1>4

\* From its place the provider plans, names the next stop, which lets itself be
\* entered unless there is nothing to parse, or ends.
LEMMA MockContinues ==
  ASSUME TypeInv, NEW k \in 0..3, Stage(deployment, k, merged, memory)
  PROVE  \/ MockReply = Plan /\ Plans
         \/ /\ k < 3 /\ MockReply = Stops(deployment)[k + 1]
            /\ Admits(MockReply) \/ (text = "blank" /\ deployment = "server")
         \/ /\ MockReply = Terminate
            /\ k = 3 \/ (deployment = "demo" /\ text # "weather")
<1> DEFINE d == deployment
<1>0. d \in {"server", "demo"}
  BY DEF TypeInv, TypeOK
<1>1. CASE d = "server"
  <2>1. ~HasWeatherWorkflow
    BY <1>1 DEF HasWeatherWorkflow, Weather, Candidates, Builtins
  <2>2. MockReply = BuiltinRoute
    BY <2>1 DEF MockReply, Plans
  <2>3. /\ k = 0 => Outputs = {}
        /\ k = 1 => Outputs = {"intent_parse"}
        /\ k = 2 => Outputs = {"intent_parse", "text_transform"}
        /\ k = 3 => Outputs = {"intent_parse", "text_transform", "finalize"}
    BY <1>0, <1>1, AtStage, StopsFacts DEF Outputs
  <2>4. /\ k = 0 => MockReply = "intent_parse"
        /\ k = 1 => MockReply = "text_transform"
        /\ k = 2 => MockReply = "finalize"
        /\ k = 3 => MockReply = Terminate
    BY <2>2, <2>3 DEF BuiltinRoute
  <2>5. k < 3 => Admits(MockReply) \/ text = "blank"
    <3>1. CASE k \in {0, 1}
      BY <2>4, <3>1, AdmitsOf DEF HasText
    <3>2. CASE k = 2
      BY <2>4, <3>2, AdmitsOf DEF HasText, HasContent
    <3>3. QED
      BY <3>1, <3>2
  <2>6. k < 3 => MockReply = Stops(d)[k + 1]
    <3>1. CASE k = 0
      BY <1>1, <2>4, <3>1, StopsFacts
    <3>2. CASE k = 1
      BY <1>1, <2>4, <3>2, StopsFacts
    <3>3. CASE k = 2
      BY <1>1, <2>4, <3>3, StopsFacts
    <3>4. QED
      BY <3>1, <3>2, <3>3
  <2>7. QED
    BY <1>1, <2>4, <2>5, <2>6
<1>2. CASE d = "demo" /\ ~Plans
  <2>1. HasWeatherWorkflow
    BY <1>2 DEF HasWeatherWorkflow, Candidates
  <2>2. MockReply = WeatherRoute
    BY <1>2, <2>1 DEF MockReply
  <2>3. /\ k = 0 => memory = {}
        /\ k = 1 => memory = {"location"}
        /\ k = 2 => memory = {"location", "weather"}
        /\ k = 3 => memory = {"location", "weather", "final_text"}
    <3>1. /\ Sets("resolve_user_location") = "location" /\ Sets("query_weather") = "weather"
          /\ Sets("finalize_weather_answer") = "final_text"
      BY DEF Sets
    <3>2. QED
      BY <1>0, <1>2, <3>1, AtStage, StopsFacts
  <2>4. /\ k = 0 /\ text = "weather" => MockReply = "resolve_user_location"
        /\ k = 0 /\ text # "weather" => MockReply = Terminate
        /\ k = 1 => MockReply = "query_weather"
        /\ k = 2 => MockReply = "finalize_weather_answer"
        /\ k = 3 => MockReply = Terminate
    BY <2>2, <2>3 DEF WeatherRoute
  <2>5. k < 3 /\ MockReply # Terminate => Admits(MockReply)
    <3>1. CASE k = 0
      BY <2>3, <2>4, <3>1, AdmitsOf DEF HasText
    <3>2. CASE k = 1
      BY <2>3, <2>4, <3>2, AdmitsOf
    <3>3. CASE k = 2
      BY <2>3, <2>4, <3>3, AdmitsOf
    <3>4. QED
      BY <3>1, <3>2, <3>3
  <2>6. k < 3 /\ MockReply # Terminate => MockReply = Stops(d)[k + 1]
    <3>1. CASE k = 0
      BY <1>2, <2>4, <3>1, StopsFacts
    <3>2. CASE k = 1
      BY <1>2, <2>4, <3>2, StopsFacts
    <3>3. CASE k = 2
      BY <1>2, <2>4, <3>3, StopsFacts
    <3>4. QED
      BY <3>1, <3>2, <3>3
  <2>7. MockReply = Terminate => k = 3 \/ text # "weather"
    BY <2>4 DEF Terminate
  <2>8. QED
    BY <1>2, <2>4, <2>5, <2>6, <2>7
<1>3. CASE d = "demo" /\ Plans
  BY <1>3 DEF MockReply
<1>4. QED
  BY <1>0, <1>1, <1>2, <1>3

\* A hop under the mock provider goes to the next stop.
LEMMA HopIsNextStop ==
  ASSUME TypeInv, model = "mock", NEW n \in Nodes, Hop(n),
         NEW k \in 0..3, Stage(deployment, k, merged, memory)
  PROVE  /\ k \in 0..2 /\ n = Stops(deployment)[k + 1]
         /\ Admits(n) \/ (text = "blank" /\ deployment = "server")
<1>1. n = MockReply
  BY DEF Hop, Replies
<1>2. n # Plan /\ n # Terminate
  BY DEF Nodes, Builtins, Weather, Plan, Terminate
<1>3. QED
  BY <1>1, <1>2, MockContinues

LEMMA NextPlace == TypeInv /\ PlaceInv /\ [Next]_vars => PlaceInv'
<1> SUFFICES ASSUME TypeInv, PlaceInv, [Next]_vars, model' = "mock" PROVE PlaceInv'
  BY DEF PlaceInv
<1>1. model = "mock" /\ deployment' = deployment /\ deployment \in {"server", "demo"}
  BY DEF Next, RecordPlan, Conclude, Hop, OutOfSteps, Break, Resume, Done, task, vars,
     TypeInv, TypeOK
<1>2. CASE UNCHANGED <<memory, merged, saved>>
  BY <1>1, <1>2 DEF PlaceInv
<1>3. ASSUME NEW n \in Nodes, Hop(n), ~UNCHANGED <<memory, merged, saved>> PROVE PlaceInv'
  <2>1. PICK k \in 0..3 : Stage(deployment, k, merged, memory)
    BY <1>1 DEF PlaceInv
  <2>2. k \in 0..2 /\ n = Stops(deployment)[k + 1]
    BY <1>1, <1>3, <2>1, HopIsNextStop
  <2>3. /\ memory' = memory \cup {Sets(n)} /\ merged' = Append(merged, n)
        /\ saved'.memory = memory' /\ saved'.merged = merged'
    BY <1>3 DEF Hop, stateVar, Snapshot
  <2>4. Stage(deployment, k + 1, merged', memory')
    <3>1. Stage(deployment, k + 1, Append(merged, n), memory \cup {Sets(n)})
      BY <1>1, <2>1, <2>2, NextStage
    <3>2. QED
      BY <2>3, <3>1
  <2>5. k + 1 \in 0..3
    BY <2>2
  <2>6. QED
    BY <1>1, <2>3, <2>4, <2>5 DEF PlaceInv
<1>4. CASE Resume
  <2>1. memory' = saved.memory /\ merged' = saved.merged /\ saved' = saved
    BY <1>4 DEF Resume
  <2>2. QED
    BY <1>1, <2>1 DEF PlaceInv
<1>5. QED
  BY <1>2, <1>3, <1>4
     DEF Next, RecordPlan, Conclude, OutOfSteps, Break, Done, vars, stateVar

LEMMA PlaceCorrect == Spec => [](TypeInv /\ PlaceInv)
<1>1. Init => PlaceInv
  <2> SUFFICES ASSUME Init PROVE PlaceInv
    OBVIOUS
  <2>1. merged = <<>> /\ memory = {} /\ saved.merged = <<>> /\ saved.memory = {}
    BY DEF Init, NoSnapshot
  <2>2. \A d : Stage(d, 0, <<>>, {})
    <3>1. <<>> \in Seq(Nodes) /\ Len(<<>>) = 0 /\ 1..0 = {}
      OBVIOUS
    <3>2. QED
      BY <3>1 DEF Stage
  <2>3. 0 \in 0..3
    OBVIOUS
  <2>4. QED
    BY <2>1, <2>2, <2>3 DEF PlaceInv
<1>2. QED
  BY <1>1, InitTypeInv, NextTypeInv, NextPlace, PTL DEF Spec

\* With the mock provider the nodes run in the order of the plan and none of
\* them twice, whatever breaks, however often the task is resumed, and whatever
\* the budgets are (gateway.go:410-442, 493-540).
THEOREM NodesFollowPlan == Spec => []WorkFollowsItinerary
<1>1. TypeInv /\ PlaceInv => WorkFollowsItinerary
  <2> SUFFICES ASSUME TypeInv, PlaceInv, model = "mock" PROVE IsPrefix(merged, Itinerary)
    BY DEF WorkFollowsItinerary
  <2>1. PICK k \in 0..3 : Stage(deployment, k, merged, memory)
    BY DEF PlaceInv
  <2>2. Itinerary = Stops(deployment)
    BY DEF Itinerary, Stops
  <2>3. deployment \in {"server", "demo"}
    BY DEF TypeInv, TypeOK
  <2>4. /\ merged \in Seq(Nodes) /\ Itinerary \in Seq(Nodes)
        /\ Len(merged) = k /\ Len(Itinerary) = 3
        /\ \A i \in 1..k : merged[i] = Itinerary[i]
    BY <2>1, <2>2, <2>3, StopsFacts DEF Stage
  <2> DEFINE head == SubSeq(Itinerary, 1, k)
  <2>5. \A i \in 1..k : Itinerary[i] \in Nodes
    BY <2>4
  <2>6. /\ head \in Seq(Nodes)
        /\ Len(head) = IF 1 <= k THEN k - 1 + 1 ELSE 0
        /\ \A i \in 1..(k - 1 + 1) : head[i] = Itinerary[1 + i - 1]
    BY <2>5, SubSeqProperties
  <2>7. Len(head) = k /\ \A i \in 1..k : head[i] = Itinerary[i]
    BY <2>6
  <2> HIDE DEF head
  <2>8. merged = head
    BY <2>4, <2>6, <2>7, SeqEqual
  <2>9. Len(merged) <= Len(Itinerary)
    BY <2>4
  <2>10. QED
    BY <2>4, <2>8, <2>9 DEF head, IsPrefix
<1>2. QED
  BY <1>1, PlaceCorrect, PTL

-----------------------------------------------------------------------------
(***************************************************************************)
(* The end of a task: only at the last stop, or where there was nothing to *)
(* do.                                                                     *)
(***************************************************************************)
WholeInv ==
  model = "mock" /\ status = "completed" /\ (deployment = "demo" => text = "weather") =>
    Len(merged) = 3

LEMMA NextWhole == TypeInv /\ PlaceInv /\ WholeInv /\ [Next]_vars => WholeInv'
<1> SUFFICES ASSUME TypeInv, PlaceInv, WholeInv, [Next]_vars,
                    model' = "mock", status' = "completed",
                    deployment' = "demo" => text' = "weather"
             PROVE  Len(merged') = 3
  BY DEF WholeInv
<1>1. model = "mock" /\ deployment' = deployment /\ text' = text
  BY DEF Next, RecordPlan, Conclude, Hop, OutOfSteps, Break, Resume, Done, task, vars
<1>2. CASE Conclude
  <2>1. PICK k \in 0..3 : Stage(deployment, k, merged, memory)
    BY <1>1 DEF PlaceInv
  <2>2. MockReply = Terminate /\ merged' = merged
    BY <1>1, <1>2 DEF Conclude, Replies, stateVar
  <2>3. k < 3 => Stops(deployment)[k + 1] # Terminate
    <3>1. \A n \in Nodes : n # Terminate
      BY DEF Nodes, Builtins, Weather, Terminate
    <3>2. k < 3 => k + 1 \in 1..3
      OBVIOUS
    <3>3. QED
      BY <3>1, <3>2, StopsFacts DEF TypeInv, TypeOK
  <2>4. k = 3
    BY <1>1, <2>1, <2>2, <2>3, MockContinues DEF Plan, Terminate
  <2>5. QED
    BY <2>1, <2>2, <2>4 DEF Stage
<1>3. CASE ~Conclude
  <2>1. status = "completed" /\ merged' = merged
    BY <1>3 DEF Next, RecordPlan, Hop, OutOfSteps, Break, Resume, Done, vars, stateVar, InLoop
  <2>2. QED
    BY <1>1, <2>1 DEF WholeInv
<1>4. QED
  BY <1>2, <1>3

\* A task the mock provider completed has run every node of its plan, resumed
\* or not (gateway.go:493-540).
THEOREM CompletedTasksAreWhole == Spec => []CompletedWorkIsWhole
<1>1. Init => WholeInv
  BY DEF Init, WholeInv
<1>2. TypeInv /\ PlaceInv /\ WholeInv => CompletedWorkIsWhole
  <2> SUFFICES ASSUME TypeInv, PlaceInv, model = "mock", Len(merged) = 3
               PROVE  merged = Itinerary
    BY DEF WholeInv, CompletedWorkIsWhole
  <2>1. PICK k \in 0..3 : Stage(deployment, k, merged, memory)
    BY DEF PlaceInv
  <2>2. Itinerary = Stops(deployment) /\ deployment \in {"server", "demo"}
    BY DEF Itinerary, Stops, TypeInv, TypeOK
  <2>3. /\ merged \in Seq(Nodes) /\ Itinerary \in Seq(Nodes) /\ Len(Itinerary) = 3
        /\ \A i \in 1..3 : merged[i] = Itinerary[i]
    BY <2>1, <2>2, StopsFacts DEF Stage
  <2>4. QED
    BY <2>3, SeqEqual
<1>3. QED
  BY <1>1, <1>2, NextWhole, PlaceCorrect, PTL DEF Spec

-----------------------------------------------------------------------------
(***************************************************************************)
(* The budgets.  Every step of a run either planned, once, or added a      *)
(* patch; and only nodes that ran were chosen.                             *)
(***************************************************************************)
BudgetInv ==
  model = "mock" /\ ~(text = "blank" /\ deployment = "server") =>
    /\ status # "failed"
    /\ status = "running" =>
         /\ step <= Len(merged) + (IF planned THEN 1 ELSE 0)
         /\ \A n \in Nodes : visited[n] > 0 => n \in ToSet(merged)

\* The next stop has not run.
LEMMA NextStopIsNew ==
  ASSUME NEW d \in {"server", "demo"}, NEW k \in 0..2, NEW done, NEW mem,
         Stage(d, k, done, mem)
  PROVE  Stops(d)[k + 1] \notin ToSet(done)
<1>1. /\ Stops(d)[1] # Stops(d)[2] /\ Stops(d)[1] # Stops(d)[3]
      /\ Stops(d)[2] # Stops(d)[3]
  BY StopsFacts
<1>2. CASE k = 0
  BY <1>2, AtStage
<1>3. CASE k = 1
  BY <1>1, <1>3, AtStage
<1>4. CASE k = 2
  BY <1>1, <1>4, AtStage
<1>5. QED
  BY <1>2, <1>3, <1>4

LEMMA NextBudget ==
  ASSUME MaxSteps >= 5, MaxSameNodeVisits >= 1,
         TypeInv, PlaceInv, BudgetInv, [Next]_vars
  PROVE  BudgetInv'
<1> SUFFICES ASSUME model' = "mock", ~(text' = "blank" /\ deployment' = "server")
             PROVE  /\ status' # "failed"
                    /\ status' = "running" =>
                         /\ step' <= Len(merged') + (IF planned' THEN 1 ELSE 0)
                         /\ \A n \in Nodes : visited'[n] > 0 => n \in ToSet(merged')
  BY DEF BudgetInv
<1>1. /\ model = "mock" /\ deployment' = deployment /\ text' = text
      /\ ~(text = "blank" /\ deployment = "server")
      /\ deployment \in {"server", "demo"}
  BY DEF Next, RecordPlan, Conclude, Hop, OutOfSteps, Break, Resume, Done, task, vars,
     TypeInv, TypeOK
<1>2. /\ status # "failed"
      /\ status = "running" =>
           /\ step <= Len(merged) + (IF planned THEN 1 ELSE 0)
           /\ \A n \in Nodes : visited[n] > 0 => n \in ToSet(merged)
  BY <1>1 DEF BudgetInv
<1>3. PICK k \in 0..3 : Stage(deployment, k, merged, memory)
  BY <1>1 DEF PlaceInv
<1>4. /\ merged \in Seq(Nodes) /\ Len(merged) = k /\ step \in Nat
      /\ visited \in [Nodes -> Nat] /\ planned \in BOOLEAN
  BY <1>3, WorkflowAssumption DEF Stage, TypeInv, TypeOK
<1>5. CASE RecordPlan
  <2>1. MockReply = Plan /\ status = "running" /\ merged' = merged
    BY <1>1, <1>5 DEF RecordPlan, Replies, InLoop
  <2>2. ~planned
    <3>1. \A n \in Nodes : n # Plan
      BY DEF Nodes, Builtins, Weather, Plan
    <3>2. k < 3 => k + 1 \in 1..3
      OBVIOUS
    <3>3. k < 3 => Stops(deployment)[k + 1] # Plan
      BY <1>1, <3>1, <3>2, StopsFacts
    <3>4. Plans
      BY <1>3, <2>1, <3>3, MockContinues DEF Plan, Terminate
    <3>5. QED
      BY <3>4 DEF Plans
  <2>3. planned' = TRUE /\ step' = step + 1 /\ visited' = visited /\ status' = status
    BY <1>5 DEF RecordPlan
  <2>4. step' <= Len(merged') + (IF planned' THEN 1 ELSE 0)
    BY <1>2, <1>4, <2>1, <2>2, <2>3
  <2>5. QED
    BY <1>2, <2>1, <2>3, <2>4
<1>6. ASSUME NEW n \in Nodes, Hop(n)
      PROVE  /\ status' # "failed"
             /\ step' <= Len(merged') + (IF planned' THEN 1 ELSE 0)
             /\ \A m \in Nodes : visited'[m] > 0 => m \in ToSet(merged')
  <2>1. k \in 0..2 /\ n = Stops(deployment)[k + 1] /\ Admits(n)
    BY <1>1, <1>3, <1>6, HopIsNextStop
  <2>2. n \notin ToSet(merged) /\ status = "running"
    BY <1>1, <1>3, <1>6, <2>1, NextStopIsNew DEF Hop, InLoop
  <2>3. visited[n] = 0
    BY <1>2, <1>4, <2>2
  <2>4. visited' = [visited EXCEPT ![n] = visited[n] + 1] /\ step' = step + 1
    BY <1>6 DEF Hop
  <2>5. visited'[n] <= MaxSameNodeVisits
    BY <1>4, <2>3, <2>4, WorkflowAssumption
  <2>6. merged' = Append(merged, n) /\ planned' = planned /\ status' = status
    BY <1>6, <2>1, <2>5, WorkflowAssumption, <1>4, <2>4 DEF Hop
  <2>7. Len(merged') = Len(merged) + 1 /\ ToSet(merged') = ToSet(merged) \cup {n}
    <3>1. /\ DOMAIN merged = 1..k /\ DOMAIN merged' = 1..(k + 1)
          /\ merged'[k + 1] = n /\ \A i \in 1..k : merged'[i] = merged[i]
      BY <1>4, <2>6
    <3>2. ToSet(merged') = ToSet(merged) \cup {n}
      BY <3>1 DEF ToSet
    <3>3. QED
      BY <1>4, <2>6, <3>2
  <2>8. step' <= Len(merged') + (IF planned' THEN 1 ELSE 0)
    BY <1>2, <1>4, <2>2, <2>4, <2>6, <2>7
  <2>9. \A m \in Nodes : visited'[m] > 0 => m \in ToSet(merged')
    BY <1>2, <1>4, <2>2, <2>4, <2>7
  <2>10. QED
    BY <2>2, <2>6, <2>8, <2>9
<1>7. ~OutOfSteps
  <2>1. status = "running" => step <= 4
    BY <1>2, <1>4
  <2>2. QED
    BY <1>4, <2>1, WorkflowAssumption DEF OutOfSteps
<1>8. CASE Resume
  <2>1. merged' \in Seq(Nodes) /\ step' = 0 /\ status' = "running" /\ visited' = NotVisited
    BY <1>8 DEF Resume, TypeInv, SnapshotType
  <2>2. Len(merged') \in Nat
    BY <2>1
  <2>3. QED
    BY <2>1, <2>2 DEF NotVisited
<1>9. CASE Conclude \/ Break
  BY <1>9 DEF Conclude, Break
<1>10. CASE UNCHANGED vars
  BY <1>2, <1>10 DEF vars, stateVar
<1>11. QED
  BY <1>5, <1>6, <1>7, <1>8, <1>9, <1>10 DEF Next, Done

\* With five steps or more, and one visit or more of a node, the mock provider
\* never fails a task with something to parse, resumed or not: the plan, the
\* hops and the end fit into every run (engine.go:78, 155-159).
THEOREM MockFitsBudget ==
  ASSUME MaxSteps >= 5, MaxSameNodeVisits >= 1
  PROVE  Spec => []BudgetSuffices
<1>1. Init => BudgetInv
  <2> SUFFICES ASSUME Init PROVE BudgetInv
    OBVIOUS
  <2>1. merged = <<>> /\ Len(<<>>) = 0 /\ step = 0 /\ status = "running" /\ planned = FALSE
    BY DEF Init
  <2>2. \A n \in Nodes : visited[n] = 0
    BY DEF Init, NotVisited
  <2>3. QED
    BY <2>1, <2>2 DEF BudgetInv
<1>2. TypeInv /\ PlaceInv /\ BudgetInv /\ [Next]_vars => BudgetInv'
  BY NextBudget
<1>3. BudgetInv => BudgetSuffices
  BY DEF BudgetInv, BudgetSuffices
<1>4. QED
  BY <1>1, <1>2, <1>3, PlaceCorrect, PTL DEF Spec

=============================================================================
