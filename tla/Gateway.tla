------------------------------- MODULE Gateway -------------------------------
(***************************************************************************)
(* The AI gateway (internal/ai/gateway.go): Decide, called by every run    *)
(* once per step, and GenerateText, called by nodes.  Every element of     *)
(* Callers is a goroutine that makes one request after another.            *)
(* Providers that are not registered are refused when the configuration is *)
(* read (module Configuration) and do not occur.                           *)
(*                                                                         *)
(* The limiter and the circuit breaker are libraries.  Of the limiter only *)
(* "lets through or reports an error" is kept; the breaker is              *)
(* github.com/sony/gobreaker/v2, modelled as the gateway configures it,    *)
(* with its mutex making beforeRequest and afterRequest one action each.   *)
(***************************************************************************)
EXTENDS Integers, FiniteSets, ModelReply

CONSTANTS Callers,
          Kinds,              \* which of Decide and GenerateText they call
          Family,             \* of the primary and the fallback: their provider
          Replies,            \* of a family: what its models may reply
          PlanningEnabled,    \* ai.routing_mode = "route_and_plan"
          MaxAttempts,        \* ai.retry.max_attempts
          MaxProbes,          \* ai.circuit_breaker.max_requests
          FailureShare,       \* ai.circuit_breaker.failure_ratio, in percent
          MaxAsked            \* bound on the requests of all callers

ASSUME GatewayAssumption ==
  /\ MaxAttempts \in Nat \ {0}
  /\ MaxProbes \in Nat \ {0}
  /\ FailureShare \in Nat \ {0}
  /\ MaxAsked \in Nat
  /\ PlanningEnabled \in BOOLEAN
  /\ Kinds \subseteq {"decide", "text"}

ASSUME RepliesAssumption ==
  /\ Family \in [{"primary", "fallback"} ->
                  {"openai_compatible", "anthropic", "mock_function"}]
  /\ \A m \in DOMAIN Family : \A r \in Replies[Family[m]] : IsReply(Family[m], r)

VARIABLES
  pc, kind, candidates, over,     \* of every caller: its request and context
  model, attempt, answer,
  generation,                     \* of the breaker, when the request was let in
  breaker, due,                   \* due: the breaker's expiry has passed
  asked                           \* requests begun

reqVars == <<kind, candidates, over, model, attempt, answer, generation>>
vars    == <<pc, reqVars, breaker, due, asked>>

NoAnswer == [type |-> "none", nodes |-> {}]
Fail(why) == [type |-> why, nodes |-> {}]

NewCounts(state, g) == [state |-> state, generation |-> g, requests |-> 0,
                        successes |-> 0, failures |-> 0]

Init ==
  /\ pc = [c \in Callers |-> "idle"]
  /\ kind = [c \in Callers |-> "decide"]
  /\ candidates = [c \in Callers |-> {}]
  /\ over = [c \in Callers |-> FALSE]
  /\ model = [c \in Callers |-> "primary"]
  /\ attempt = [c \in Callers |-> 1]
  /\ answer = [c \in Callers |-> NoAnswer]
  /\ generation = [c \in Callers |-> 0]
  /\ breaker = NewCounts("closed", 0)
  /\ due = FALSE
  /\ asked = 0

Goto(c, label) == pc' = [pc EXCEPT ![c] = label]
Answer(c, a) == answer' = [answer EXCEPT ![c] = a]

-----------------------------------------------------------------------------
(***************************************************************************)
(* The breaker.                                                            *)
(***************************************************************************)
\* currentState: an interval that is over starts a new generation of a closed
\* breaker, a timeout that is over lets an open one try again.
Current ==
  CASE due /\ breaker.state = "closed" -> NewCounts("closed", breaker.generation + 1)
    [] due /\ breaker.state = "open" -> NewCounts("half_open", breaker.generation + 1)
    [] OTHER -> breaker

\* ReadyToTrip, as the gateway sets it.
ReadyToTrip(b) == b.requests >= 5 /\ b.failures * 100 >= b.requests * FailureShare

\* A mutant: one probe too many.
RefusesOffByOne(b) ==
  b.state = "open" \/ (b.state = "half_open" /\ b.requests > MaxProbes)

Refuses(b) == b.state = "open" \/ (b.state = "half_open" /\ b.requests >= MaxProbes)

\* afterRequest in the generation of the request.  A success of a half-open
\* breaker closes it once MaxProbes came in a row.
Succeed(b) ==
  LET counted == [b EXCEPT !.successes = @ + 1]
  IN  IF b.state = "half_open" /\ counted.successes >= MaxProbes
      THEN NewCounts("closed", b.generation + 1)
      ELSE counted

FailIn(b) ==
  LET counted == [b EXCEPT !.failures = @ + 1]
  IN  IF b.state = "half_open" \/ ReadyToTrip(counted)
      THEN NewCounts("open", b.generation + 1)
      ELSE counted

\* A mutant: an answer counts in whatever generation it arrives.
AccountedAnyway(c, b, good) == IF good THEN Succeed(b) ELSE FailIn(b)

\* An answer to a request of an earlier generation is not counted.
Accounted(c, b, good) ==
  IF generation[c] # b.generation THEN b
  ELSE IF good THEN Succeed(b) ELSE FailIn(b)

\* A new generation has a new expiry.
Renew(b) == due' = (due /\ b.generation = breaker.generation)

-----------------------------------------------------------------------------
\* validateRequest, or the check of the prompt.
Begin(c) ==
  /\ pc[c] = "idle" /\ asked < MaxAsked
  /\ asked' = asked + 1
  /\ \E k \in Kinds, S \in SUBSET Nodes :
       /\ kind' = [kind EXCEPT ![c] = k]
       /\ candidates' = [candidates EXCEPT ![c] = S]
       /\ IF S = {}
          THEN Answer(c, Fail("invalid")) /\ UNCHANGED pc
          ELSE Answer(c, NoAnswer) /\ Goto(c, "limiter")
  /\ over' = [over EXCEPT ![c] = FALSE]
  /\ model' = [model EXCEPT ![c] = "primary"]
  /\ attempt' = [attempt EXCEPT ![c] = 1]
  /\ UNCHANGED <<generation, breaker, due>>

\* limiter.Wait: lets the request through, or reports that the context is over
\* or will be before its turn comes.
Wait(c) ==
  /\ pc[c] = "limiter"
  /\ \/ /\ ~over[c]
        /\ Goto(c, IF kind[c] = "decide" THEN "breaker" ELSE "invoke")
        /\ UNCHANGED answer
     \/ /\ Goto(c, "idle")
        /\ Answer(c, Fail("limited"))
  /\ UNCHANGED <<kind, candidates, over, model, attempt, generation, breaker, due, asked>>

\* breaker.Execute up to the call of its function.
Enter(c) ==
  /\ pc[c] = "breaker"
  /\ LET b == Current IN
       /\ Renew(b)
       /\ IF Refuses(b)
          THEN /\ breaker' = b
               /\ Goto(c, "idle")
               /\ Answer(c, Fail("refused"))
               /\ UNCHANGED generation
          ELSE /\ breaker' = [b EXCEPT !.requests = @ + 1]
               /\ Goto(c, "invoke")
               /\ generation' = [generation EXCEPT ![c] = b.generation]
               /\ UNCHANGED answer
  /\ UNCHANGED <<kind, candidates, over, model, attempt, asked>>

-----------------------------------------------------------------------------
Exists(c, x) == x \in candidates[c]

\* A mutant: the reply is trusted.
ValidRouteUnchecked(c, f) ==
  f.name = "route_next_node" /\ f.args # Nil /\ f.args.next_node # ""

\* normalizeRouteDecision
ValidRoute(c, f) ==
  /\ f.name = "route_next_node" /\ f.args # Nil
  /\ f.args.next_node = Terminate \/ Exists(c, f.args.next_node)

\* normalizePlan, with the lists of nodes and edges it decodes.
ValidPlan(c, f) ==
  /\ f.name = "propose_dag" /\ f.args # Nil /\ PlanningEnabled
  /\ f.args.nodes # {} /\ \A x \in f.args.nodes : Exists(c, x)
  /\ f.args.edges # "blank"

\* A mutant: the fallback is not tried.
ModelFailsAtOnce(c) ==
  /\ Goto(c, "leave")
  /\ Answer(c, Fail("failed"))
  /\ UNCHANGED <<model, attempt>>

\* Leaving tryModel or tryGenerateModel without a result: on to the fallback,
\* once.
ModelFails(c) ==
  \/ /\ model[c] = "primary"
     /\ model' = [model EXCEPT ![c] = "fallback"]
     /\ attempt' = [attempt EXCEPT ![c] = 1]
     /\ Goto(c, "invoke")
     /\ UNCHANGED answer
  \/ /\ model[c] = "fallback"
     /\ Goto(c, "leave")
     /\ Answer(c, Fail("failed"))
     /\ UNCHANGED <<model, attempt>>

ModelReplies(c) == Replies[Family[model[c]]]

\* What the adapter makes of a reply: a call, or an error.
Heard(c, r) == ReadCall(Family[model[c]], r)

\* provider.Invoke or provider.GenerateText fails, or its timeout strikes; a
\* reply in which the adapter finds no call, or no text, is such a failure.
InvokeFails(c) ==
  /\ pc[c] = "invoke"
  /\ Goto(c, "backoff")
  /\ UNCHANGED <<reqVars, breaker, due, asked>>

ReplyIsUnreadable(c, r) ==
  /\ pc[c] = "invoke"
  /\ \/ kind[c] = "decide" /\ Heard(c, r) = NoCall
     \/ kind[c] = "text" /\ ~ReadsText(Family[model[c]], r)
  /\ Goto(c, "backoff")
  /\ UNCHANGED <<reqVars, breaker, due, asked>>

\* A call is normalised; one that does not pass is not asked for again.
InvokeReplies(c, r) ==
  /\ pc[c] = "invoke" /\ kind[c] = "decide" /\ Heard(c, r) # NoCall
  /\ LET f == Heard(c, r) IN
       \/ /\ ValidRoute(c, f)
          /\ Answer(c, [type |-> "route", nodes |-> {f.args.next_node}])
          /\ Goto(c, "leave")
          /\ UNCHANGED <<model, attempt>>
       \/ /\ ValidPlan(c, f)
          /\ Answer(c, [type |-> "plan", nodes |-> f.args.nodes])
          /\ Goto(c, "leave")
          /\ UNCHANGED <<model, attempt>>
       \/ /\ ~ValidRoute(c, f) /\ ~ValidPlan(c, f)
          /\ ModelFails(c)
  /\ UNCHANGED <<kind, candidates, over, generation, breaker, due, asked>>

InvokeWrites(c, r) ==
  /\ pc[c] = "invoke" /\ kind[c] = "text"
  /\ ReadsText(Family[model[c]], r)
  /\ Answer(c, [type |-> "text", nodes |-> {}])
  /\ Goto(c, "leave")
  /\ UNCHANGED <<kind, candidates, over, model, attempt, generation, breaker, due, asked>>

\* The select after a failed attempt: the end of the context, or the delay,
\* whichever is ready; the delay also follows the last attempt.
Abort(c) ==
  /\ pc[c] = "backoff" /\ over[c]
  /\ ModelFails(c)
  /\ UNCHANGED <<kind, candidates, over, generation, breaker, due, asked>>

\* A mutant: attempts are not counted.
RetryForever(c) ==
  /\ pc[c] = "backoff"
  /\ Goto(c, "invoke")
  /\ UNCHANGED <<reqVars, breaker, due, asked>>

\* A mutant: one attempt too many.
AttemptsLeftOffByOne(c) == attempt[c] <= MaxAttempts

AttemptsLeft(c) == attempt[c] < MaxAttempts

Retry(c) ==
  /\ pc[c] = "backoff"
  /\ \/ /\ AttemptsLeft(c)
        /\ attempt' = [attempt EXCEPT ![c] = @ + 1]
        /\ Goto(c, "invoke")
        /\ UNCHANGED <<model, answer>>
     \/ /\ ~AttemptsLeft(c)
        /\ ModelFails(c)
  /\ UNCHANGED <<kind, candidates, over, generation, breaker, due, asked>>

\* The breaker learns how the function ended; GenerateText just returns.
Leave(c) ==
  /\ pc[c] = "leave"
  /\ Goto(c, "idle")
  /\ IF kind[c] = "decide"
     THEN /\ breaker' = Accounted(c, Current, answer[c].type \in {"route", "plan"})
          /\ Renew(breaker')
     ELSE UNCHANGED <<breaker, due>>
  /\ UNCHANGED <<reqVars, asked>>

-----------------------------------------------------------------------------
Cancel(c) ==
  /\ pc[c] # "idle" /\ ~over[c]
  /\ over' = [over EXCEPT ![c] = TRUE]
  /\ UNCHANGED <<pc, kind, candidates, model, attempt, answer, generation, breaker, due,
                 asked>>

\* Time passes the breaker's expiry; a half-open breaker has none.
Elapse ==
  /\ ~due /\ breaker.state # "half_open"
  /\ due' = TRUE
  /\ UNCHANGED <<pc, reqVars, breaker, asked>>

RequestStep(c) ==
  \/ Wait(c) \/ Enter(c) \/ InvokeFails(c)
  \/ \E r \in ModelReplies(c) :
       ReplyIsUnreadable(c, r) \/ InvokeReplies(c, r) \/ InvokeWrites(c, r)
  \/ Abort(c) \/ Retry(c) \/ Leave(c)

Next ==
  \/ \E c \in Callers : Begin(c) \/ RequestStep(c) \/ Cancel(c)
  \/ Elapse

Spec == Init /\ [][Next]_vars

\* Goroutines are scheduled and every invocation has a timeout.
FairSpec == Spec /\ \A c \in Callers : WF_vars(RequestStep(c))

-----------------------------------------------------------------------------
AnswerTypes == {"none", "invalid", "limited", "refused", "failed", "route", "plan", "text"}

Answers == [type : AnswerTypes, nodes : SUBSET (Nodes \cup {Terminate})]

Breakers == [state : {"closed", "half_open", "open"}, generation : Nat,
             requests : Nat, successes : Nat, failures : Nat]

\* Types of all variables, whatever models reply (gateway.go:100-346).
TypeOK ==
  /\ pc \in [Callers -> {"idle", "limiter", "breaker", "invoke", "backoff", "leave"}]
  /\ kind \in [Callers -> {"decide", "text"}]
  /\ candidates \in [Callers -> SUBSET Nodes]
  /\ over \in [Callers -> BOOLEAN]
  /\ model \in [Callers -> {"primary", "fallback"}]
  /\ attempt \in [Callers -> 1..MaxAttempts]
  /\ answer \in [Callers -> Answers]
  /\ generation \in [Callers -> Nat]
  /\ breaker \in Breakers
  /\ due \in BOOLEAN
  /\ asked \in 0..MaxAsked

\* What the engine may rely on when Decide returns no error: a route to one of
\* the candidates it gave, or to the end; a plan of candidates, and only when
\* it asked for plans (gateway.go:257-346).
DecisionIsUsable ==
  \A c \in Callers :
    /\ answer[c].type = "route" =>
         \E x \in candidates[c] \cup {Terminate} : answer[c].nodes = {x}
    /\ answer[c].type = "plan" =>
         PlanningEnabled /\ answer[c].nodes # {} /\ answer[c].nodes \subseteq candidates[c]

\* The replies in which a provider of the family sends one call and nothing
\* else but words.
Carrying(family, f) ==
  LET entry(type) == [type |-> type, name |-> f.name, args |-> f.args, text |-> ""]
      words == [type |-> "text", name |-> "", args |-> Nil, text |-> "words"]
      empty == [refused |-> FALSE, tool_calls |-> <<>>, choice |-> <<>>, content |-> "",
                output |-> <<>>]
      call == entry("function_call")
      use == entry("tool_use")
  IN  CASE family = "openai_compatible" ->
             {[empty EXCEPT !.tool_calls = <<call>>],
              [empty EXCEPT !.choice = <<call>>, !.content = "words"],
              [empty EXCEPT !.output = <<words, call>>]}
        [] family = "anthropic" ->
             {[refused |-> FALSE, content |-> list] :
                list \in {<<use>>, <<words, use>>, <<use, words>>}}
        [] family = "mock_function" -> {[refused |-> FALSE, call |-> f]}

\* A model that does as it is told is understood: a call it was offered becomes
\* a decision, in whatever form its provider sends it.  What is offered, how it
\* is read and what is accepted are written apart from each other; only the
\* empty plan is offered and refused (gateway.go:257-346, 876-1110).
OffersAreHonoured ==
  \A c \in Callers : pc[c] = "invoke" /\ kind[c] = "decide" =>
    \A f \in Offered(candidates[c], PlanningEnabled) :
      \/ f.name = "propose_dag" /\ f.args.nodes = {}
      \/ \A r \in Carrying(Family[model[c]], f) :
           ValidRoute(c, Heard(c, r)) \/ ValidPlan(c, Heard(c, r))

\* Requests that were let in and have not been counted yet.
InFlight(g) ==
  {c \in Callers : /\ kind[c] = "decide" /\ generation[c] = g
                   /\ pc[c] \in {"invoke", "backoff", "leave"}}

\* Every request of the breaker's generation is counted once: as a success, a
\* failure, or on its way, whatever the order in which answers, intervals and
\* cancellations come (gateway.go:154-165).
RequestsAreCountedOnce ==
  breaker.requests =
    breaker.successes + breaker.failures + Cardinality(InFlight(breaker.generation))

\* An open breaker has let nobody in, a half-open one no more than its probes,
\* however slow the answers of earlier generations are (gateway.go:114-125).
ProbesAreLimited ==
  /\ breaker.state = "open" => InFlight(breaker.generation) = {}
  /\ breaker.state = "half_open" =>
       Cardinality(InFlight(breaker.generation)) <= MaxProbes

\* A request is given up only after the fallback, and a refused one costs no
\* model request (gateway.go:154-165, 176-185).
FallbackIsLastResort ==
  \A c \in Callers :
    /\ answer[c].type = "failed" => model[c] = "fallback"
    /\ answer[c].type \in {"refused", "limited", "invalid"} =>
         model[c] = "primary" /\ attempt[c] = 1

\* Every request returns, though models may fail for ever (gateway.go:146-245).
EveryRequestReturns == \A c \in Callers : pc[c] = "limiter" ~> pc[c] = "idle"

=============================================================================
