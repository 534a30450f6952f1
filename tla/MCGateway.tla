------------------------------ MODULE MCGateway ------------------------------
(***************************************************************************)
(* Gateway with replies in every form the adapters tell apart, for two     *)
(* nodes of which any may be candidates; and, for the breaker, with one    *)
(* node and a model that answers in memory.                                *)
(***************************************************************************)
EXTENDS Gateway, TLC

CONSTANTS g1, g2, m, n

C == INSTANCE Configuration

Empty == [numbers |-> [name \in C!Numbers |-> 0],
          primary |-> "", fallback |-> "", routing_mode |-> "", backend |-> ""]

\* Two vendors and defaults; and no vendor, one attempt, one probe, a limit of
\* failures that is not positive.
Vendors == C!Completed([Empty EXCEPT !.primary = "qwen", !.fallback = "anthropic",
                                     !.routing_mode = "route_and_plan"])
InMemory == C!Completed([Empty EXCEPT !.numbers = [@ EXCEPT !["max_attempts"] = 1,
                                                            !["max_requests"] = 1,
                                                            !["failure_ratio"] = -1],
                                      !.routing_mode = "route_and_plan"])

Families(s) == [primary |-> C!FamilyOf(s.primary), fallback |-> C!FamilyOf(s.fallback)]

VendorFamilies == Families(Vendors)
VendorAttempts == Vendors.numbers["max_attempts"]
VendorProbes   == Vendors.numbers["max_requests"]
VendorShare    == Vendors.numbers["failure_ratio"]
MemoryFamilies == Families(InMemory)
MemoryAttempts == InMemory.numbers["max_attempts"]
MemoryProbes   == InMemory.numbers["max_requests"]
MemoryShare    == InMemory.numbers["failure_ratio"]

RouteTo(x) == [name |-> "route_next_node", args |-> [NoArguments EXCEPT !.next_node = x]]
Plan(S, e) == [name |-> "propose_dag",
               args |-> [next_node |-> "", nodes |-> S, edges |-> e]]

Item(type, f) == [type |-> type, name |-> f.name, args |-> f.args, text |-> ""]
Words == [type |-> "text", name |-> "", args |-> Nil, text |-> "words"]

Call(f) == Item("function_call", f)
Use(f) == Item("tool_use", f)

EmptyReply == [refused |-> FALSE, tool_calls |-> <<>>, choice |-> <<>>, content |-> "",
               output |-> <<>>]

SomeOpenAIReplies == {
  [EmptyReply EXCEPT !.refused = TRUE],
  [EmptyReply EXCEPT !.content = "words"],
  [EmptyReply EXCEPT !.tool_calls = <<Call(RouteTo(m))>>],
  [EmptyReply EXCEPT !.choice = <<Call(RouteTo(Terminate))>>, !.content = "words"],
  [EmptyReply EXCEPT !.choice = <<Call(RouteTo(m)), Call(RouteTo(n))>>],
  [EmptyReply EXCEPT !.choice = <<Call([name |-> "propose_dag", args |-> Malformed])>>],
  [EmptyReply EXCEPT !.choice = <<Call([name |-> "propose_dag", args |-> Nil])>>],
  [EmptyReply EXCEPT !.output = <<Words, Call(Plan({m, n}, "named"))>>],
  [EmptyReply EXCEPT !.output = <<Call(RouteTo("")), Call(RouteTo(m))>>]}

SomeAnthropicReplies == {[refused |-> FALSE, content |-> list] : list \in {
  <<>>, <<Words>>,
  <<Words, Use(RouteTo(n))>>,
  <<Use(RouteTo(m)), Use(RouteTo(n))>>,
  <<Use([name |-> "route_next_node", args |-> Nil])>>,
  <<Use([name |-> "", args |-> NoArguments])>>,
  <<Use(Plan({m}, "blank"))>>,
  <<Use(Plan({}, "none"))>>,
  <<Use(Plan({n}, "none")), Words>>}}

SomeReplies == [openai_compatible |-> SomeOpenAIReplies, anthropic |-> SomeAnthropicReplies]

OneReply == [mock_function |-> {[refused |-> FALSE, call |-> RouteTo(m)]}]

CallerSymmetry == Permutations(Callers)

=============================================================================
