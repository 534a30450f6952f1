------------------------------ MODULE ModelReply ------------------------------
(***************************************************************************)
(* What the gateway asks of a model and how it reads the reply: the        *)
(* provider adapters of internal/ai/gateway.go.                            *)
(*                                                                         *)
(* A reply is kept as far as the adapters look into it: whether the        *)
(* provider refused (a status of 400 or more, a body that is not JSON),    *)
(* and the lists of entries, in order.  A list that is missing or is not   *)
(* an array behaves like an empty one, but for the content of anthropic,   *)
(* where both end in the same error.                                       *)
(***************************************************************************)
EXTENDS Naturals, Sequences, FiniteSets

CONSTANTS Nodes,              \* node identifiers
          Nil,                \* arguments that are JSON null, or not an object
          Malformed           \* arguments that cannot be read as an object

Terminate == "__terminate__"

ASSUME NodesAreNotReserved == Terminate \notin Nodes /\ "" \notin Nodes

\* Decoded arguments, blanks trimmed; what is missing or has another type
\* reads as "" or as the empty list.
Arguments == [next_node : Nodes \cup {Terminate, ""},
              nodes : SUBSET (Nodes \cup {""}),
              edges : {"none", "named", "blank"}]

ASSUME ArgumentsAreObjects == Nil \notin Arguments /\ Malformed \notin Arguments

NoArguments == [next_node |-> "", nodes |-> {}, edges |-> "none"]

CallNames == {"route_next_node", "propose_dag", "other"}

FunctionCall == [name : CallNames, args : Arguments \cup {Nil}]

NoCall == [name |-> "", args |-> Nil]

\* One element of tool_calls, output or content.
Entry == [type : {"function_call", "tool_use", "text"}, name : CallNames \cup {""},
          args : Arguments \cup {Nil, Malformed}, text : {"", "words"}]

Entries == Seq(Entry)

OpenAIReply == [refused : BOOLEAN, tool_calls : Entries, choice : Entries,
                content : {"", "words"}, output : Entries]

AnthropicReply == [refused : BOOLEAN, content : Entries]

\* mock_function is asked in memory: a call or an error.
MockReply == [refused : BOOLEAN, call : FunctionCall]

IsReply(family, r) ==
  CASE family = "openai_compatible" -> r \in OpenAIReply
    [] family = "anthropic" -> r \in AnthropicReply
    [] family = "mock_function" -> r \in MockReply

-----------------------------------------------------------------------------
\* The places of the entries of a type.
OfType(entries, type) == {i \in DOMAIN entries : entries[i].type = type}

\* extractFunctionCallFromEntry.  Arguments given as the string "null" pass, as
\* a nil map; null itself does not.
CallOf(e) ==
  IF e.name = "" \/ e.args = Malformed THEN NoCall ELSE [name |-> e.name, args |-> e.args]

\* extractFunctionCall: of a list of tool calls only a single one is taken.
OnlyCall(entries) == IF Len(entries) = 1 THEN CallOf(entries[1]) ELSE NoCall

\* The output list is searched for its first function call.
FirstCall(entries) ==
  LET calls == OfType(entries, "function_call")
  IN  IF calls = {} THEN NoCall
      ELSE CallOf(entries[CHOOSE i \in calls : \A j \in calls : i <= j])

\* A mutant: tool calls within the first choice are not looked for.
OpenAICallWithoutChoices(r) ==
  IF OnlyCall(r.tool_calls) # NoCall THEN OnlyCall(r.tool_calls) ELSE FirstCall(r.output)

\* parseOpenAIFunctionCall: the first place that has a call.
OpenAICall(r) ==
  IF OnlyCall(r.tool_calls) # NoCall THEN OnlyCall(r.tool_calls)
  ELSE IF OnlyCall(r.choice) # NoCall THEN OnlyCall(r.choice)
  ELSE FirstCall(r.output)

\* parseAnthropicFunctionCall: exactly one tool_use block, whatever text is
\* around it.  A missing name is printed as "<nil>", which names no function,
\* and a missing input becomes the empty object.
AnthropicCall(r) ==
  LET uses == OfType(r.content, "tool_use")
      use == r.content[CHOOSE i \in uses : TRUE]
  IN  IF Cardinality(uses) # 1 THEN NoCall
      ELSE [name |-> IF use.name = "" THEN "other" ELSE use.name,
            args |-> IF use.args \in {Nil, Malformed} THEN NoArguments ELSE use.args]

\* The end of provider.Invoke.
ReadCall(family, r) ==
  CASE r.refused -> NoCall
    [] ~r.refused /\ family = "openai_compatible" -> OpenAICall(r)
    [] ~r.refused /\ family = "anthropic" -> AnthropicCall(r)
    [] ~r.refused /\ family = "mock_function" -> r.call

-----------------------------------------------------------------------------
HasWords(entries, places) == \E i \in places : entries[i].text # ""

\* parseOpenAITextResponse, parseAnthropicTextResponse: some text that is not
\* blank.  The mock writes one of its own.
ReadsText(family, r) ==
  CASE family = "openai_compatible" ->
         ~r.refused /\ (r.content # "" \/ HasWords(r.output, DOMAIN r.output))
    [] family = "anthropic" -> ~r.refused /\ HasWords(r.content, OfType(r.content, "text"))
    [] family = "mock_function" -> TRUE

-----------------------------------------------------------------------------
\* BuildFunctionDefs with its two schemas, which allow no further properties:
\* the calls a model is told it may make, given the candidates it is shown.
OfferedRoutes(candidates) ==
  {[name |-> "route_next_node", args |-> [NoArguments EXCEPT !.next_node = x]] :
     x \in candidates \cup {Terminate}}

OfferedPlans(candidates) ==
  [name : {"propose_dag"},
   args : [next_node : {""}, nodes : SUBSET candidates, edges : {"none", "named"}]]

Offered(candidates, planning) ==
  OfferedRoutes(candidates) \cup (IF planning THEN OfferedPlans(candidates) ELSE {})

=============================================================================
