--------------------------- MODULE BuiltinWorkflow ---------------------------
(***************************************************************************)
(* What the shipped pieces do together: the mock_function provider         *)
(* (internal/ai/gateway.go), the builtin nodes of the server               *)
(* (plugins/builtin) and the weather nodes of the demo                     *)
(* (examples/weatherdemo), under the loop of Engine.Run.                   *)
(*                                                                         *)
(* One task at a time.  Of the state only the keys that are present are    *)
(* kept: every value these nodes write is a non-empty string.  A run may   *)
(* fail anywhere; on the server it can be resumed from its last snapshot.  *)
(***************************************************************************)
EXTENDS Naturals, Sequences, FiniteSets, SequencesExt

CONSTANTS MaxSteps, MaxSameNodeVisits,
          MaxResumes          \* bound on resumes

ASSUME WorkflowAssumption ==
  /\ MaxSteps \in Nat \ {0} /\ MaxSameNodeVisits \in Nat
  /\ MaxResumes \in Nat

Builtins == {"intent_parse", "text_transform", "generic_http_call", "finalize"}
Weather  == {"resolve_user_location", "query_weather", "finalize_weather_answer"}
Nodes    == Builtins \cup Weather

Terminate == "__terminate__"
Plan      == "propose_dag"

VARIABLES
  deployment, text, planning,   \* cmd/server or cmd/demo; the prompt; routing_mode
  model,                        \* "mock", or "any": whatever a model may reply
  memory, planned, merged,      \* working memory, Ext's latest_plan, node outputs
  step, visited, status,        \* of the run
  saved, resumes                \* the latest snapshot

task     == <<deployment, text, planning, model>>
stateVar == <<memory, planned, merged>>
vars     == <<task, stateVar, step, visited, status, saved, resumes>>

NoSnapshot == [memory |-> {}, planned |-> FALSE, merged |-> <<>>]

NotVisited == [n \in Nodes |-> 0]

\* The demo forces route_and_plan; the server takes it from its configuration.
Init ==
  /\ deployment \in {"server", "demo"}
  /\ text \in {"blank", "weather", "other"}
  /\ planning \in BOOLEAN /\ (deployment = "demo" => planning)
  /\ model \in {"mock", "any"}
  /\ memory = {} /\ planned = FALSE /\ merged = <<>>
  /\ step = 0 /\ visited = NotVisited /\ status = "running"
  /\ saved = NoSnapshot /\ resumes = 0

Candidates == IF deployment = "server" THEN Builtins ELSE Weather

-----------------------------------------------------------------------------
(***************************************************************************)
(* The mock provider.                                                      *)
(***************************************************************************)
HasWeatherWorkflow == Weather \subseteq Candidates

\* A mutant: a plan is proposed again and again.
PlansAlways == planning /\ HasWeatherWorkflow

\* Invoke proposes a plan once, where mockPlanNodes has one.
Plans == planning /\ ~planned /\ HasWeatherWorkflow

\* mockRoute of the weather workflow, by the keys of the working memory.
WeatherRoute ==
  IF "location" \notin memory /\ text = "weather" THEN "resolve_user_location"
  ELSE IF "location" \in memory /\ "weather" \notin memory THEN "query_weather"
  ELSE IF "weather" \in memory /\ "final_text" \notin memory
  THEN "finalize_weather_answer"
  ELSE Terminate

Outputs == ToSet(merged)

\* A mutant: the text is not transformed before the end.
BuiltinRouteEager ==
  IF "intent_parse" \notin Outputs THEN "intent_parse"
  ELSE IF "finalize" \in Outputs THEN Terminate
  ELSE "finalize"

\* A mutant: the end comes when the node for it is there, not when it has run.
BuiltinRouteEarly ==
  IF "intent_parse" \notin Outputs THEN "intent_parse"
  ELSE IF "text_transform" \notin Outputs THEN "text_transform"
  ELSE Terminate

\* mockRoute of the builtin nodes, by the outputs there are.
BuiltinRoute ==
  IF "intent_parse" \notin Outputs THEN "intent_parse"
  ELSE IF "text_transform" \notin Outputs THEN "text_transform"
  ELSE IF "finalize" \in Outputs THEN Terminate
  ELSE "finalize"

MockReply ==
  IF Plans THEN Plan ELSE IF HasWeatherWorkflow THEN WeatherRoute ELSE BuiltinRoute

\* The gateway lets a model name a candidate, the end, or, in route_and_plan,
\* a plan.
Replies ==
  IF model = "mock" THEN {MockReply}
  ELSE Candidates \cup {Terminate} \cup (IF planning THEN {Plan} ELSE {})

-----------------------------------------------------------------------------
(***************************************************************************)
(* The nodes.                                                              *)
(***************************************************************************)
\* The checks of the builtin nodes: something to parse or transform, to call, to
\* finalize.
HasText    == text # "blank"
HasUrl     == "http_url" \in memory
HasContent == "transformed_text" \in memory \/ HasText

\* A mutant: the location is resolved, though it is known.
AdmitsKnown(n) ==
  CASE n = "resolve_user_location" -> HasText
    [] n = "query_weather" -> "weather" \notin memory
    [] OTHER -> "final_text" \notin memory

\* CheckBefore.  query_weather formats the location before it looks whether it
\* is blank, and a missing one is formatted as "<nil>"; likewise for the
\* answer.
Admits(n) ==
  CASE n \in {"intent_parse", "text_transform"} -> HasText
    [] n = "generic_http_call" -> HasUrl
    [] n = "finalize" -> HasContent
    [] n = "resolve_user_location" -> HasText /\ "location" \notin memory
    [] n = "query_weather" -> "weather" \notin memory
    [] n = "finalize_weather_answer" -> "final_text" \notin memory

\* The key of the working memory Execute sets; its output is stored under the
\* node's own name.
Sets(n) ==
  CASE n = "intent_parse" -> "intent"
    [] n = "text_transform" -> "transformed_text"
    [] n = "generic_http_call" -> "http_result"
    [] n = "resolve_user_location" -> "location"
    [] n = "query_weather" -> "weather"
    [] OTHER -> "final_text"

-----------------------------------------------------------------------------
(***************************************************************************)
(* One iteration of the loop of Run.                                       *)
(***************************************************************************)
\* A mutant: one step too many.
InLoopOffByOne == status = "running" /\ step <= MaxSteps

InLoop == status = "running" /\ step < MaxSteps

RecordPlan ==
  /\ InLoop /\ Plan \in Replies
  /\ planned' = TRUE
  /\ step' = step + 1
  /\ UNCHANGED <<task, memory, merged, visited, status, saved, resumes>>

Conclude ==
  /\ InLoop /\ Terminate \in Replies
  /\ step' = step + 1
  /\ status' = "completed"
  /\ UNCHANGED <<task, stateVar, visited, saved, resumes>>

Snapshot == saved' = [memory |-> memory', planned |-> planned, merged |-> merged']

\* A node is chosen, counted, admitted, and its patch merged and stored.
Hop(n) ==
  /\ InLoop /\ n \in Replies \cap Candidates
  /\ step' = step + 1
  /\ visited' = [visited EXCEPT ![n] = @ + 1]
  /\ \/ /\ visited'[n] > MaxSameNodeVisits
        /\ status' = "failed"
        /\ UNCHANGED <<stateVar, saved>>
     \/ /\ visited'[n] <= MaxSameNodeVisits /\ ~Admits(n)
        /\ UNCHANGED <<stateVar, saved, status>>
     \/ /\ visited'[n] <= MaxSameNodeVisits /\ Admits(n)
        /\ memory' = memory \cup {Sets(n)}
        /\ merged' = Append(merged, n)
        /\ Snapshot
        /\ UNCHANGED <<planned, status>>
  /\ UNCHANGED <<task, resumes>>

OutOfSteps ==
  /\ status = "running" /\ step = MaxSteps
  /\ status' = "failed"
  /\ UNCHANGED <<task, stateVar, step, visited, saved, resumes>>

\* A node, the store or the process fails: what was not stored is lost.
Break ==
  /\ status = "running"
  /\ status' = "broken"
  /\ UNCHANGED <<task, stateVar, step, visited, saved, resumes>>

\* From the latest snapshot, with a loop of its own.
Resume ==
  /\ deployment = "server" /\ status # "running"
  /\ saved # NoSnapshot /\ resumes < MaxResumes
  /\ memory' = saved.memory /\ planned' = saved.planned /\ merged' = saved.merged
  /\ step' = 0 /\ visited' = NotVisited /\ status' = "running"
  /\ resumes' = resumes + 1
  /\ UNCHANGED <<task, saved>>

Done == status # "running" /\ UNCHANGED vars

Next ==
  \/ RecordPlan \/ Conclude \/ (\E n \in Nodes : Hop(n))
  \/ OutOfSteps \/ Break \/ Resume \/ Done

Spec == Init /\ [][Next]_vars

-----------------------------------------------------------------------------
TypeOK ==
  /\ deployment \in {"server", "demo"} /\ text \in {"blank", "weather", "other"}
  /\ planning \in BOOLEAN /\ planned \in BOOLEAN /\ model \in {"mock", "any"}
  /\ memory \subseteq {Sets(n) : n \in Nodes} /\ merged \in Seq(Nodes)
  /\ step \in 0..MaxSteps /\ visited \in [Nodes -> Nat]
  /\ status \in {"running", "completed", "failed", "broken"}
  /\ saved.memory \subseteq {Sets(n) : n \in Nodes} /\ saved.merged \in Seq(Nodes)
  /\ resumes \in 0..MaxResumes

Itinerary ==
  IF deployment = "server" THEN <<"intent_parse", "text_transform", "finalize">>
  ELSE <<"resolve_user_location", "query_weather", "finalize_weather_answer">>

\* With the mock provider the nodes run in the order of the plan and none of
\* them twice, whatever breaks and is resumed: the provider keeps no memory of
\* its own and finds its place in the state it is shown (gateway.go:410-442,
\* 493-540).
WorkFollowsItinerary == model = "mock" => IsPrefix(merged, Itinerary)

\* A task the mock provider completed has run them all.  Not claimed of the demo
\* asked for something else than the weather (gateway.go:493-540).
CompletedWorkIsWhole ==
  model = "mock" /\ status = "completed" /\ (deployment = "demo" => text = "weather") =>
    merged = Itinerary

\* Plan, hops and termination fit into the steps of every run, resumed ones
\* too; only a blank prompt on the server is rejected until the loop guard ends
\* it (engine.go:78, 155-159, intent_parse.go:28-34).
BudgetSuffices ==
  model = "mock" /\ status = "failed" => text = "blank" /\ deployment = "server"

\* No tool of the demo runs twice, whatever the model asks for
\* (weatherdemo.go:222-232, 273-283, 328-341).
ToolsRunOnce ==
  deployment = "demo" => \A i, j \in DOMAIN merged : merged[i] = merged[j] => i = j

=============================================================================
