---------------------------- MODULE Gateway_proofs ----------------------------
(***************************************************************************)
(* Theorems about Gateway, for any callers, replies of models, attempts,   *)
(* probes and thresholds of the breaker.                                   *)
(***************************************************************************)
EXTENDS Gateway, FiniteSetTheorems, TLAPS

USE GatewayAssumption

-----------------------------------------------------------------------------
(***************************************************************************)
(* Types                                                                   *)
(***************************************************************************)
Labels == {"idle", "limiter", "breaker", "invoke", "backoff", "leave"}

LEMMA NewBreaker ==
  \A s \in {"closed", "half_open", "open"}, g \in Nat : NewCounts(s, g) \in Breakers
BY DEF NewCounts, Breakers

LEMMA BreakerTypes ==
  ASSUME breaker \in Breakers
  PROVE  /\ Current \in Breakers
         /\ \A c, good : Accounted(c, Current, good) \in Breakers
<1>1. Current \in Breakers
  <2>1. breaker.generation + 1 \in Nat
    BY DEF Breakers
  <2>2. QED
    BY <2>1, NewBreaker DEF Current
<1>2. ASSUME NEW b \in Breakers PROVE Succeed(b) \in Breakers /\ FailIn(b) \in Breakers
  <2>1. b.generation + 1 \in Nat
    BY DEF Breakers
  <2>2. /\ [b EXCEPT !.successes = @ + 1] \in Breakers
        /\ [b EXCEPT !.failures = @ + 1] \in Breakers
    BY DEF Breakers
  <2>3. QED
    BY <2>1, <2>2, NewBreaker DEF Succeed, FailIn
<1>3. QED
  BY <1>1, <1>2, Zenon DEF Accounted

LEMMA AnswerTypesOK ==
  /\ NoAnswer \in Answers
  /\ \A why \in AnswerTypes : Fail(why) \in Answers
  /\ \A t \in AnswerTypes, S \in SUBSET (Nodes \cup {Terminate}) :
       [type |-> t, nodes |-> S] \in Answers
BY DEF NoAnswer, Fail, Answers, AnswerTypes

LEMMA InitTypes == Init => TypeOK
<1> SUFFICES ASSUME Init PROVE TypeOK
  OBVIOUS
<1>1. breaker \in Breakers
  BY NewBreaker DEF Init
<1>2. answer \in [Callers -> Answers]
  BY AnswerTypesOK DEF Init
<1>3. pc \in [Callers -> Labels] /\ kind \in [Callers -> {"decide", "text"}]
  BY DEF Init, Labels
<1>4. /\ candidates \in [Callers -> SUBSET Nodes]
      /\ model \in [Callers -> {"primary", "fallback"}]
      /\ attempt \in [Callers -> 1..MaxAttempts] /\ generation \in [Callers -> Nat]
  BY DEF Init
<1>5. over \in [Callers -> BOOLEAN] /\ due \in BOOLEAN
  BY Zenon DEF Init
<1>6. asked \in 0..MaxAsked
  BY DEF Init
<1>7. QED
  BY <1>1, <1>2, <1>3, <1>4, <1>5, <1>6 DEF TypeOK, Labels

LEMMA ModelFailsTypes ==
  ASSUME TypeOK, NEW c \in Callers, ModelFails(c)
  PROVE  /\ pc' \in [Callers -> Labels] /\ model' \in [Callers -> {"primary", "fallback"}]
         /\ attempt' \in [Callers -> 1..MaxAttempts] /\ answer' \in [Callers -> Answers]
<1> USE DEF TypeOK, Goto, Answer, Labels
<1>1. CASE /\ model' = [model EXCEPT ![c] = "fallback"]
           /\ attempt' = [attempt EXCEPT ![c] = 1]
           /\ Goto(c, "invoke") /\ UNCHANGED answer
  BY <1>1
<1>2. CASE Goto(c, "leave") /\ Answer(c, Fail("failed")) /\ UNCHANGED <<model, attempt>>
  <2>1. Fail("failed") \in Answers
    BY AnswerTypesOK DEF AnswerTypes
  <2>2. QED
    BY <1>2, <2>1
<1>3. QED
  BY <1>1, <1>2 DEF ModelFails

LEMMA BeginTypes ==
  ASSUME TypeOK, NEW c \in Callers, Begin(c)
  PROVE  TypeOK'
<1> USE DEF TypeOK, Goto, Answer
<1>1. PICK k \in Kinds, S \in SUBSET Nodes :
        /\ kind' = [kind EXCEPT ![c] = k]
        /\ candidates' = [candidates EXCEPT ![c] = S]
        /\ IF S = {}
           THEN Answer(c, Fail("invalid")) /\ UNCHANGED pc
           ELSE Answer(c, NoAnswer) /\ Goto(c, "limiter")
  BY DEF Begin
<1>2. answer' \in [Callers -> Answers]
  BY <1>1, AnswerTypesOK DEF AnswerTypes
<1>3. asked' \in 0..MaxAsked
  BY DEF Begin
<1>4. QED
  BY <1>1, <1>2, <1>3 DEF Begin

LEMMA RequestTypes ==
  ASSUME TypeOK, NEW c \in Callers, RequestStep(c)
  PROVE  TypeOK'
<1> USE DEF TypeOK, Goto, Answer, reqVars
<1>1. CASE Wait(c)
  <2>1. answer' \in [Callers -> Answers]
    BY <1>1, AnswerTypesOK DEF Wait, AnswerTypes
  <2>2. QED
    BY <1>1, <2>1 DEF Wait
<1>2. CASE Enter(c)
  <2>1. Current \in Breakers /\ due' \in BOOLEAN
    BY <1>2, BreakerTypes DEF Enter, Renew
  <2>2. Current.generation \in Nat /\ [Current EXCEPT !.requests = @ + 1] \in Breakers
    BY <2>1 DEF Breakers
  <2>3. breaker' \in Breakers /\ generation' \in [Callers -> Nat]
    BY <1>2, <2>1, <2>2 DEF Enter
  <2>4. answer' \in [Callers -> Answers]
    BY <1>2, AnswerTypesOK DEF Enter, AnswerTypes
  <2>5. QED
    BY <1>2, <2>1, <2>3, <2>4 DEF Enter
<1>3. CASE InvokeFails(c)
  BY <1>3 DEF InvokeFails
<1>4. ASSUME NEW r, ReplyIsUnreadable(c, r) PROVE TypeOK'
  BY <1>4 DEF ReplyIsUnreadable
<1>5. ASSUME NEW r, InvokeReplies(c, r) PROVE TypeOK'
  <2> DEFINE f == Heard(c, r)
  <2>1. UNCHANGED <<kind, candidates, over, generation, breaker, due, asked>>
    BY <1>5 DEF InvokeReplies
  <2>2. ASSUME NEW t \in {"route", "plan"}, NEW S \in SUBSET (Nodes \cup {Terminate}),
               Answer(c, [type |-> t, nodes |-> S]), Goto(c, "leave"),
               UNCHANGED <<model, attempt>>
        PROVE  TypeOK'
    <3>1. [type |-> t, nodes |-> S] \in Answers
      BY AnswerTypesOK DEF AnswerTypes
    <3>2. QED
      BY <2>1, <2>2, <3>1
  <2>3. CASE ModelFails(c)
    BY <2>1, <2>3, ModelFailsTypes DEF Labels
  <2>4. ASSUME ValidRoute(c, f), Goto(c, "leave"), UNCHANGED <<model, attempt>>,
               Answer(c, [type |-> "route", nodes |-> {f.args.next_node}])
        PROVE  TypeOK'
    <3>1. {f.args.next_node} \in SUBSET (Nodes \cup {Terminate})
      BY <2>4 DEF ValidRoute, Exists
    <3>2. QED
      BY <2>2, <2>4, <3>1
  <2>5. ASSUME ValidPlan(c, f), Goto(c, "leave"), UNCHANGED <<model, attempt>>,
               Answer(c, [type |-> "plan", nodes |-> f.args.nodes])
        PROVE  TypeOK'
    <3>1. f.args.nodes \in SUBSET (Nodes \cup {Terminate})
      BY <2>5 DEF ValidPlan, Exists
    <3>2. QED
      BY <2>2, <2>5, <3>1
  <2>6. QED
    BY <1>5, <2>3, <2>4, <2>5 DEF InvokeReplies
<1>6. ASSUME NEW r, InvokeWrites(c, r) PROVE TypeOK'
  <2>1. [type |-> "text", nodes |-> {}] \in Answers
    BY AnswerTypesOK DEF AnswerTypes
  <2>2. QED
    BY <1>6, <2>1 DEF InvokeWrites
<1>7. CASE Abort(c)
  BY <1>7, ModelFailsTypes DEF Abort, Labels
<1>8. CASE Retry(c) /\ ModelFails(c)
  BY <1>8, ModelFailsTypes DEF Retry, Labels
<1>9. CASE Retry(c) /\ ~ModelFails(c)
  <2>1. attempt[c] < MaxAttempts /\ attempt' = [attempt EXCEPT ![c] = attempt[c] + 1]
    BY <1>9 DEF Retry, AttemptsLeft
  <2>2. attempt[c] + 1 \in 1..MaxAttempts
    BY <2>1
  <2>3. attempt' \in [Callers -> 1..MaxAttempts]
    BY <2>1, <2>2
  <2>4. QED
    BY <1>9, <2>3 DEF Retry
<1>10. CASE Leave(c)
  <2>1. breaker' \in Breakers
    <3>1. Accounted(c, Current, answer[c].type \in {"route", "plan"}) \in Breakers
      BY BreakerTypes, Zenon
    <3>2. QED
      BY <1>10, <3>1 DEF Leave
  <2>2. due' \in BOOLEAN
    BY <1>10 DEF Leave, Renew
  <2>3. QED
    BY <1>10, <2>1, <2>2 DEF Leave
<1>11. QED
  BY <1>1, <1>2, <1>3, <1>4, <1>5, <1>6, <1>7, <1>8, <1>9, <1>10 DEF RequestStep

\* The variables of the gateway and of its breaker have their types in every
\* state, whatever models reply (gateway.go:100-346).
THEOREM TypeCorrect == Spec => []TypeOK
<1>1. Init => TypeOK
  BY InitTypes
<1>2. TypeOK /\ [Next]_vars => TypeOK'
  <2> SUFFICES ASSUME TypeOK, [Next]_vars PROVE TypeOK'
    OBVIOUS
  <2>1. CASE UNCHANGED vars
    BY <2>1 DEF TypeOK, vars, reqVars
  <2>2. ASSUME NEW c \in Callers, Cancel(c) PROVE TypeOK'
    BY <2>2 DEF TypeOK, Cancel
  <2>3. CASE Elapse
    BY <2>3 DEF TypeOK, Elapse, reqVars
  <2>4. QED
    BY <2>1, <2>2, <2>3, BeginTypes, RequestTypes DEF Next
<1>3. QED
  BY <1>1, <1>2, PTL DEF Spec

-----------------------------------------------------------------------------
(***************************************************************************)
(* The breaker.  Its counters say nothing of earlier generations, whose    *)
(* requests may still be under way; that none of them is counted rests on  *)
(* generations being handed out in order.                                  *)
(***************************************************************************)
Counted(c) == kind[c] = "decide" /\ pc[c] \in {"invoke", "backoff", "leave"}

\* A breaker whose counters agree with the requests under way.
Sound(b) ==
  /\ \A c \in Callers : Counted(c) => generation[c] <= b.generation
  /\ IsFiniteSet(InFlight(b.generation))
  /\ b.requests = b.successes + b.failures + Cardinality(InFlight(b.generation))
  /\ b.state = "open" => b.requests = 0
  /\ b.state = "half_open" => b.requests <= MaxProbes

\* Where a request stands tells what has been answered and asked for.
PathOf(c) ==
  /\ pc[c] = "breaker" => kind[c] = "decide"
  /\ pc[c] \in {"limiter", "breaker"} => model[c] = "primary" /\ attempt[c] = 1
  /\ pc[c] \in {"limiter", "breaker", "invoke", "backoff"} => answer[c].type = "none"
  /\ answer[c].type = "failed" => model[c] = "fallback"
  /\ answer[c].type \in {"refused", "limited", "invalid"} =>
       model[c] = "primary" /\ attempt[c] = 1

PathInv == \A c \in Callers : PathOf(c)

UsableOf(c) ==
  /\ answer[c].type = "route" =>
       \E x \in candidates[c] \cup {Terminate} : answer[c].nodes = {x}
  /\ answer[c].type = "plan" =>
       PlanningEnabled /\ answer[c].nodes # {} /\ answer[c].nodes \subseteq candidates[c]

LEMMA FlightOf == \A g : InFlight(g) = {c \in Callers : Counted(c) /\ generation[c] = g}
BY DEF InFlight, Counted

\* A new generation begins with no request.
LEMMA NewIsSound ==
  ASSUME TypeOK, NEW g \in Nat, \A c \in Callers : Counted(c) => generation[c] <= g,
         NEW s \in {"closed", "half_open", "open"}
  PROVE  Sound(NewCounts(s, g + 1))
<1>1. InFlight(g + 1) = {}
  BY FlightOf DEF TypeOK
<1>2. IsFiniteSet({}) /\ Cardinality({}) = 0
  BY FS_EmptySet
<1>3. \A c \in Callers : Counted(c) => generation[c] <= g + 1
  BY DEF TypeOK
<1>4. QED
  BY <1>1, <1>2, <1>3 DEF Sound, NewCounts

LEMMA CurrentIsSound ==
  ASSUME TypeOK, Sound(breaker)
  PROVE  Sound(Current) /\ Current \in Breakers
<1>1. breaker.generation \in Nat /\ Current \in Breakers
  BY BreakerTypes DEF TypeOK, Breakers
<1>2. \A s \in {"closed", "half_open", "open"} :
        Sound(NewCounts(s, breaker.generation + 1))
  BY <1>1, NewIsSound DEF Sound
<1>3. QED
  BY <1>1, <1>2, Zenon DEF Current

\* A step of requests that the breaker does not see.
LEMMA FlightKept ==
  ASSUME Sound(breaker), UNCHANGED breaker,
         \A c \in Callers : /\ Counted(c)' <=> Counted(c)
                            /\ Counted(c) => generation'[c] = generation[c]
  PROVE  Sound(breaker)'
<1>1. \A g : InFlight(g)' = InFlight(g)
  BY FlightOf DEF InFlight, Counted
<1>2. QED
  BY <1>1 DEF Sound

LEMMA EnterIsCounted ==
  ASSUME TypeOK, PathInv, Sound(breaker), NEW c \in Callers, Enter(c)
  PROVE  Sound(breaker)'
<1>1. PICK b \in Breakers : b = Current /\ Sound(b)
  BY CurrentIsSound
<1>2. /\ pc[c] = "breaker" /\ kind[c] = "decide" /\ kind' = kind /\ ~Counted(c)
      /\ pc \in [Callers -> Labels] /\ generation \in [Callers -> Nat]
      /\ b.generation \in Nat /\ b.requests \in Nat
      /\ b.successes \in Nat /\ b.failures \in Nat
  BY <1>1 DEF Enter, PathInv, PathOf, TypeOK, Labels, Counted, Breakers
<1>3. CASE breaker' = b /\ Goto(c, "idle") /\ UNCHANGED generation
  <2>1. \A d \in Callers : (Counted(d)' <=> Counted(d)) /\ generation'[d] = generation[d]
    BY <1>2, <1>3 DEF Counted, Goto
  <2>2. InFlight(b.generation)' = InFlight(b.generation)
    BY <2>1, FlightOf DEF InFlight, Counted
  <2>3. QED
    BY <1>1, <1>3, <2>1, <2>2 DEF Sound, InFlight
<1>4. CASE /\ ~Refuses(b) /\ breaker' = [b EXCEPT !.requests = @ + 1] /\ Goto(c, "invoke")
           /\ generation' = [generation EXCEPT ![c] = b.generation]
  <2>1. /\ breaker'.generation = b.generation /\ breaker'.requests = b.requests + 1
        /\ breaker'.successes = b.successes /\ breaker'.failures = b.failures
        /\ breaker'.state = b.state
    BY <1>1, <1>4 DEF Breakers
  <2>2. /\ Counted(c)' /\ generation'[c] = b.generation
        /\ \A d \in Callers \ {c} :
             (Counted(d)' <=> Counted(d)) /\ generation'[d] = generation[d]
    BY <1>2, <1>4 DEF Counted, Goto
  <2>3. InFlight(b.generation)' = InFlight(b.generation) \cup {c}
    BY <2>2 DEF InFlight, Counted
  <2>4. c \notin InFlight(b.generation)
    BY <1>2, FlightOf
  <2>5. /\ IsFiniteSet(InFlight(b.generation)')
        /\ Cardinality(InFlight(b.generation)') = Cardinality(InFlight(b.generation)) + 1
        /\ Cardinality(InFlight(b.generation)) \in Nat
    BY <1>1, <2>3, <2>4, FS_AddElement, FS_CardinalityType DEF Sound
  <2>6. b.state # "open" /\ (b.state = "half_open" => b.requests < MaxProbes)
    BY <1>2, <1>4 DEF Refuses
  <2>7. \A d \in Callers : Counted(d)' => generation'[d] <= b.generation
    BY <1>1, <1>2, <2>2 DEF Sound
  <2>8. InFlight(breaker.generation)' = InFlight(b.generation)'
    BY <2>1 DEF InFlight
  <2>9. breaker'.state = "half_open" => breaker'.requests <= MaxProbes
    BY <1>2, <2>1, <2>6
  <2>10. breaker'.requests = breaker'.successes + breaker'.failures
                               + Cardinality(InFlight(b.generation)')
    BY <1>1, <1>2, <2>1, <2>5 DEF Sound
  <2>11. QED
    BY <2>1, <2>5, <2>6, <2>7, <2>8, <2>9, <2>10 DEF Sound
<1>5. QED
  BY <1>1, <1>3, <1>4 DEF Enter

\* An answer counted as such leaves the counters right; if it trips or closes
\* the breaker they begin anew.
LEMMA LeaveIsCounted ==
  ASSUME TypeOK, Sound(breaker), NEW c \in Callers, kind[c] = "decide", Leave(c)
  PROVE  Sound(breaker)'
<1>1. PICK b \in Breakers : b = Current /\ Sound(b)
  BY CurrentIsSound
<1>2. /\ Counted(c) /\ ~Counted(c)'
      /\ \A d \in Callers : d # c => (Counted(d)' <=> Counted(d))
      /\ generation' = generation /\ generation \in [Callers -> Nat]
  BY DEF Leave, Counted, Goto, TypeOK, Labels, reqVars
<1>3. /\ b.generation \in Nat /\ b.requests \in Nat /\ b.successes \in Nat /\ b.failures \in Nat
      /\ b.state \in {"closed", "half_open", "open"}
  BY DEF Breakers
<1>4. \A d \in Callers : Counted(d)' => generation'[d] <= b.generation
  BY <1>1, <1>2 DEF Sound
<1>5. ASSUME NEW s \in {"closed", "half_open", "open"},
             breaker' = NewCounts(s, b.generation + 1)
      PROVE  Sound(breaker)'
  <2>1. /\ breaker'.generation = b.generation + 1 /\ breaker'.requests = 0
        /\ breaker'.successes = 0 /\ breaker'.failures = 0
    BY <1>5 DEF NewCounts
  <2>2. InFlight(breaker.generation)' = {}
    BY <1>2, <1>3, <1>4, <2>1 DEF InFlight, Counted
  <2>3. \A d \in Callers : Counted(d)' => generation'[d] <= breaker'.generation
    BY <1>2, <1>3, <1>4, <2>1
  <2>4. IsFiniteSet({}) /\ Cardinality({}) = 0
    BY FS_EmptySet
  <2>5. QED
    BY <2>1, <2>2, <2>3, <2>4 DEF Sound
<1>6. CASE generation[c] # b.generation /\ breaker' = b
  <2>1. InFlight(b.generation)' = InFlight(b.generation)
    BY <1>2, <1>6 DEF InFlight, Counted
  <2>2. InFlight(breaker.generation)' = InFlight(b.generation)'
    BY <1>6 DEF InFlight
  <2>3. QED
    BY <1>1, <1>4, <1>6, <2>1, <2>2 DEF Sound
<1>7. CASE generation[c] = b.generation
  <2>1. /\ c \in InFlight(b.generation)
        /\ InFlight(b.generation)' = InFlight(b.generation) \ {c}
    BY <1>2, <1>7 DEF InFlight, Counted
  <2>2. /\ IsFiniteSet(InFlight(b.generation)')
        /\ Cardinality(InFlight(b.generation)') = Cardinality(InFlight(b.generation)) - 1
        /\ Cardinality(InFlight(b.generation)) \in Nat
    BY <1>1, <2>1, FS_RemoveElement, FS_CardinalityType DEF Sound
  <2>3. ASSUME /\ breaker'.generation = b.generation /\ breaker'.requests = b.requests
               /\ breaker'.state = b.state,
               \/ /\ breaker'.successes = b.successes + 1 /\ breaker'.failures = b.failures
               \/ /\ breaker'.successes = b.successes /\ breaker'.failures = b.failures + 1
        PROVE  Sound(breaker)'
    <3>1. InFlight(breaker.generation)' = InFlight(b.generation)'
      BY <2>3 DEF InFlight
    <3>2. breaker'.requests = breaker'.successes + breaker'.failures
                                + Cardinality(InFlight(b.generation)')
      BY <1>1, <1>3, <2>2, <2>3 DEF Sound
    <3>3. QED
      BY <1>1, <1>4, <2>2, <2>3, <3>1, <3>2 DEF Sound
  <2>4. CASE breaker' = Succeed(b)
    <3>1. CASE breaker' = NewCounts("closed", b.generation + 1)
      BY <1>5, <3>1
    <3>2. CASE breaker' = [b EXCEPT !.successes = @ + 1]
      <4>1. /\ breaker'.generation = b.generation /\ breaker'.requests = b.requests
            /\ breaker'.state = b.state /\ breaker'.successes = b.successes + 1
            /\ breaker'.failures = b.failures
        BY <3>2 DEF Breakers
      <4>2. QED
        BY <2>3, <4>1
    <3>3. QED
      BY <2>4, <3>1, <3>2 DEF Succeed
  <2>5. CASE breaker' = FailIn(b)
    <3>1. CASE breaker' = NewCounts("open", b.generation + 1)
      BY <1>5, <3>1
    <3>2. CASE breaker' = [b EXCEPT !.failures = @ + 1]
      <4>1. /\ breaker'.generation = b.generation /\ breaker'.requests = b.requests
            /\ breaker'.state = b.state /\ breaker'.successes = b.successes
            /\ breaker'.failures = b.failures + 1
        BY <3>2 DEF Breakers
      <4>2. QED
        BY <2>3, <4>1
    <3>3. QED
      BY <2>5, <3>1, <3>2 DEF FailIn
  <2>6. breaker' = Succeed(b) \/ breaker' = FailIn(b)
    BY <1>1, <1>7, Zenon DEF Leave, Accounted
  <2>7. QED
    BY <2>4, <2>5, <2>6
<1>8. generation[c] # b.generation => breaker' = b
  BY <1>1, Zenon DEF Leave, Accounted
<1>9. QED
  BY <1>6, <1>7, <1>8

\* Every other step leaves the requests under way as they are.
LEMMA BreakerStep ==
  ASSUME TypeOK, PathInv, Sound(breaker), [Next]_vars
  PROVE  Sound(breaker)'
<1>1. /\ pc \in [Callers -> Labels] /\ kind \in [Callers -> {"decide", "text"}]
      /\ generation \in [Callers -> Nat]
  BY DEF TypeOK, Labels
<1>2. CASE UNCHANGED vars
  BY <1>2, FlightKept DEF vars, reqVars, Counted
<1>3. CASE Elapse
  BY <1>3, FlightKept DEF Elapse, reqVars, Counted
<1>4. ASSUME NEW c \in Callers, Cancel(c) PROVE Sound(breaker)'
  BY <1>4, FlightKept DEF Cancel, Counted
<1>5. ASSUME NEW c \in Callers, Begin(c) PROVE Sound(breaker)'
  <2>1. ~Counted(c) /\ ~Counted(c)' /\ UNCHANGED <<generation, breaker>>
    BY <1>1, <1>5 DEF Begin, Counted, Goto
  <2>2. \A d \in Callers \ {c} : Counted(d)' <=> Counted(d)
    BY <1>1, <1>5 DEF Begin, Counted, Goto
  <2>3. QED
    BY <2>1, <2>2, FlightKept
<1>6. ASSUME NEW c \in Callers, RequestStep(c), ~Enter(c), ~(kind[c] = "decide" /\ Leave(c))
      PROVE  Sound(breaker)'
  <2>1. UNCHANGED <<kind, generation, breaker>>
    BY <1>1, <1>6 DEF RequestStep, Wait, InvokeFails, ReplyIsUnreadable, InvokeReplies,
                      InvokeWrites, Abort, Retry, Leave, reqVars
  <2>2. \A d \in Callers : Counted(d)' <=> Counted(d)
    BY <1>1, <1>6, <2>1 DEF RequestStep, Wait, InvokeFails, ReplyIsUnreadable,
         InvokeReplies, InvokeWrites, Abort, Retry, Leave, ModelFails, Goto, Counted
  <2>3. QED
    BY <2>1, <2>2, FlightKept
<1>7. QED
  BY <1>2, <1>3, <1>4, <1>5, <1>6, EnterIsCounted, LeaveIsCounted DEF Next, RequestStep

\* What an answer says holds of the request it was given to.
LEMMA AnswersAreKept ==
  ASSUME TypeOK, PathInv, DecisionIsUsable, [Next]_vars
  PROVE  PathInv' /\ DecisionIsUsable'
<1>1. /\ pc \in [Callers -> Labels] /\ kind \in [Callers -> {"decide", "text"}]
      /\ DOMAIN model = Callers /\ DOMAIN attempt = Callers
      /\ DOMAIN candidates = Callers /\ DOMAIN answer = Callers
      /\ model \in [Callers -> {"primary", "fallback"}]
      /\ attempt \in [Callers -> 1..MaxAttempts]
      /\ candidates \in [Callers -> SUBSET Nodes] /\ answer \in [Callers -> Answers]
  BY DEF TypeOK, Labels
<1>2. SUFFICES ASSUME NEW d \in Callers, PathOf(d), UsableOf(d)
               PROVE  PathOf(d)' /\ UsableOf(d)'
  BY DEF PathInv, DecisionIsUsable, UsableOf
<1>3. CASE UNCHANGED <<pc, kind, candidates, model, attempt, answer>>
  BY <1>2, <1>3 DEF PathOf, UsableOf
<1>4. CASE Elapse \/ UNCHANGED vars
  BY <1>3, <1>4 DEF Elapse, vars, reqVars
<1>5. ASSUME NEW c \in Callers, c # d, Begin(c) \/ RequestStep(c)
      PROVE  PathOf(d)' /\ UsableOf(d)'
  <2>1. /\ pc'[d] = pc[d] /\ kind'[d] = kind[d] /\ candidates'[d] = candidates[d]
        /\ model'[d] = model[d] /\ attempt'[d] = attempt[d] /\ answer'[d] = answer[d]
    BY <1>1, <1>5 DEF Begin, RequestStep, Wait, Enter, InvokeFails, ReplyIsUnreadable,
         InvokeReplies, InvokeWrites, Abort, Retry, Leave, ModelFails, Goto, Answer, reqVars
  <2>2. QED
    BY <1>2, <2>1 DEF PathOf, UsableOf
<1>6. CASE Begin(d)
  <2>1. \/ answer'[d].type = "none" /\ pc'[d] = "limiter"
        \/ answer'[d].type = "invalid" /\ pc'[d] = "idle"
    BY <1>1, <1>6 DEF Begin, Goto, Answer, NoAnswer, Fail
  <2>2. model'[d] = "primary" /\ attempt'[d] = 1
    BY <1>1, <1>6 DEF Begin
  <2>3. QED
    BY <2>1, <2>2 DEF PathOf, UsableOf
<1>7. ASSUME ModelFails(d), pc[d] \in {"invoke", "backoff"},
             UNCHANGED <<kind, candidates>>
      PROVE  PathOf(d)' /\ UsableOf(d)'
  <2>1. \/ answer'[d].type = "none" /\ pc'[d] = "invoke"
        \/ answer'[d].type = "failed" /\ pc'[d] = "leave" /\ model'[d] = "fallback"
    BY <1>1, <1>2, <1>7 DEF ModelFails, Goto, Answer, Fail, PathOf
  <2>2. QED
    BY <2>1 DEF PathOf, UsableOf
<1>8. ASSUME RequestStep(d) PROVE PathOf(d)' /\ UsableOf(d)'
  <2>1. CASE Wait(d)
    BY <1>1, <1>2, <2>1 DEF Wait, Goto, Answer, Fail, PathOf, UsableOf
  <2>2. CASE Enter(d)
    <3>1. UNCHANGED <<kind, candidates, model, attempt>> /\ pc[d] = "breaker"
      BY <2>2 DEF Enter
    <3>2. \/ answer'[d].type = "refused" /\ pc'[d] = "idle"
          \/ answer'[d] = answer[d] /\ pc'[d] = "invoke"
      BY <1>1, <2>2 DEF Enter, Goto, Answer, Fail
    <3>3. QED
      BY <1>2, <3>1, <3>2 DEF PathOf, UsableOf
  <2>3. CASE InvokeFails(d) \/ \E r : ReplyIsUnreadable(d, r)
    BY <1>1, <1>2, <2>3 DEF InvokeFails, ReplyIsUnreadable, Goto, reqVars, PathOf, UsableOf
  <2>4. ASSUME NEW r, InvokeReplies(d, r) PROVE PathOf(d)' /\ UsableOf(d)'
    <3> DEFINE f == Heard(d, r)
    <3>1. pc[d] = "invoke" /\ UNCHANGED <<kind, candidates>>
      BY <2>4 DEF InvokeReplies
    <3>2. ASSUME ValidRoute(d, f), Goto(d, "leave"),
                 Answer(d, [type |-> "route", nodes |-> {f.args.next_node}])
          PROVE  PathOf(d)' /\ UsableOf(d)'
      <4>1. /\ f.args.next_node \in candidates[d] \cup {Terminate}
            /\ answer'[d].type = "route" /\ answer'[d].nodes = {f.args.next_node}
            /\ pc'[d] = "leave"
        BY <1>1, <3>2 DEF ValidRoute, Exists, Goto, Answer
      <4>2. QED
        BY <3>1, <4>1 DEF PathOf, UsableOf
    <3>3. ASSUME ValidPlan(d, f), Goto(d, "leave"),
                 Answer(d, [type |-> "plan", nodes |-> f.args.nodes])
          PROVE  PathOf(d)' /\ UsableOf(d)'
      <4>1. /\ PlanningEnabled /\ f.args.nodes # {} /\ f.args.nodes \subseteq candidates[d]
            /\ answer'[d].type = "plan" /\ answer'[d].nodes = f.args.nodes
            /\ pc'[d] = "leave"
        BY <1>1, <3>3 DEF ValidPlan, Exists, Goto, Answer
      <4>2. QED
        BY <3>1, <4>1 DEF PathOf, UsableOf
    <3>4. QED
      BY <1>7, <2>4, <3>1, <3>2, <3>3 DEF InvokeReplies
  <2>5. ASSUME NEW r, InvokeWrites(d, r) PROVE PathOf(d)' /\ UsableOf(d)'
    BY <1>1, <2>5 DEF InvokeWrites, Goto, Answer, PathOf, UsableOf
  <2>6. CASE Abort(d) \/ (Retry(d) /\ ModelFails(d))
    BY <1>7, <2>6 DEF Abort, Retry
  <2>7. CASE Retry(d) /\ ~ModelFails(d)
    BY <1>1, <1>2, <2>7 DEF Retry, Goto, PathOf, UsableOf
  <2>8. CASE Leave(d)
    BY <1>1, <1>2, <2>8 DEF Leave, Goto, reqVars, PathOf, UsableOf
  <2>9. QED
    BY <1>8, <2>1, <2>2, <2>3, <2>4, <2>5, <2>6, <2>7, <2>8 DEF RequestStep
<1>9. ASSUME NEW c \in Callers, Cancel(c) PROVE PathOf(d)' /\ UsableOf(d)'
  BY <1>3, <1>9 DEF Cancel
<1>10. QED
  BY <1>4, <1>5, <1>6, <1>8, <1>9 DEF Next

LEMMA InitIsSound ==
  ASSUME Init
  PROVE  Sound(breaker) /\ PathInv /\ DecisionIsUsable
<1>1. InFlight(0) = {} /\ \A c \in Callers : ~Counted(c)
  BY DEF Init, InFlight, Counted
<1>2. IsFiniteSet({}) /\ Cardinality({}) = 0
  BY FS_EmptySet
<1>3. Sound(breaker)
  <2>1. breaker = [state |-> "closed", generation |-> 0, requests |-> 0,
                   successes |-> 0, failures |-> 0]
    BY Zenon DEF Init, NewCounts
  <2>2. /\ breaker.state = "closed" /\ breaker.generation = 0 /\ breaker.requests = 0
        /\ breaker.successes = 0 /\ breaker.failures = 0
    BY <2>1
  <2>3. InFlight(breaker.generation) = {}
    BY <1>1, <2>2
  <2>4. QED
    BY <1>1, <1>2, <2>2, <2>3 DEF Sound
<1>4. PathInv /\ DecisionIsUsable
  BY DEF Init, PathInv, PathOf, DecisionIsUsable, NoAnswer
<1>5. QED
  BY <1>3, <1>4

LEMMA GatewayInvariant == Spec => [](Sound(breaker) /\ PathInv /\ DecisionIsUsable)
<1>1. Init => Sound(breaker) /\ PathInv /\ DecisionIsUsable
  BY InitIsSound
<1>2. TypeOK /\ (Sound(breaker) /\ PathInv /\ DecisionIsUsable) /\ [Next]_vars
        => (Sound(breaker) /\ PathInv /\ DecisionIsUsable)'
  BY BreakerStep, AnswersAreKept
<1>3. QED
  BY <1>1, <1>2, TypeCorrect, PTL DEF Spec

\* Every request of the breaker's generation is counted once: as a success, a
\* failure, or on its way, for any number of callers (gateway.go:154-165).
THEOREM BreakerCountsRight == Spec => []RequestsAreCountedOnce
<1>1. Sound(breaker) => RequestsAreCountedOnce
  BY DEF Sound, RequestsAreCountedOnce
<1>2. QED
  BY <1>1, GatewayInvariant, PTL

\* An open breaker has let nobody in, a half-open one no more than its probes
\* (gateway.go:114-125).
THEOREM BreakerProtects == Spec => []ProbesAreLimited
<1>1. TypeOK /\ Sound(breaker) => ProbesAreLimited
  <2> SUFFICES ASSUME TypeOK, Sound(breaker) PROVE ProbesAreLimited
    OBVIOUS
  <2> DEFINE n == Cardinality(InFlight(breaker.generation))
  <2>1. /\ breaker.requests \in Nat /\ breaker.successes \in Nat /\ breaker.failures \in Nat
    BY DEF TypeOK, Breakers
  <2>2. n \in Nat /\ (n = 0 <=> InFlight(breaker.generation) = {})
    BY FS_CardinalityType, FS_EmptySet DEF Sound
  <2>3. breaker.requests = breaker.successes + breaker.failures + n
    BY DEF Sound
  <2> HIDE DEF n
  <2>4. n <= breaker.requests
    BY <2>1, <2>2, <2>3
  <2>5. breaker.state = "open" => n = 0
    BY <2>1, <2>2, <2>3 DEF Sound
  <2>6. breaker.state = "half_open" => n <= MaxProbes
    BY <2>1, <2>2, <2>4 DEF Sound
  <2>7. QED
    BY <2>2, <2>5, <2>6 DEF ProbesAreLimited, n
<1>2. QED
  BY <1>1, TypeCorrect, GatewayInvariant, PTL

\* A request is given up only after the fallback, and a refused one costs no
\* model request (gateway.go:154-165, 176-185).
THEOREM FallbackIsTried == Spec => []FallbackIsLastResort
<1>1. PathInv => FallbackIsLastResort
  BY DEF PathInv, PathOf, FallbackIsLastResort
<1>2. QED
  BY <1>1, GatewayInvariant, PTL

\* A route leads to a candidate or the end, a plan names candidates only,
\* whatever models reply (gateway.go:257-346).
THEOREM DecisionsAreChecked == Spec => []DecisionIsUsable
BY GatewayInvariant, PTL

-----------------------------------------------------------------------------
(***************************************************************************)
(* What is offered to a model is understood                                *)
(*                                                                         *)
(* A statement about the operators of ModelReply and the two checks of the *)
(* gateway; of the state only the types are needed.                        *)
(***************************************************************************)
LEMMA OffersAreCalls ==
  ASSUME NEW S \in SUBSET Nodes, NEW f \in Offered(S, PlanningEnabled)
  PROVE  /\ f.name \in {"route_next_node", "propose_dag"}
         /\ f.args # Nil /\ f.args # Malformed
         /\ f = [name |-> f.name, args |-> f.args]
<1>1. /\ f.name \in {"route_next_node", "propose_dag"} /\ f.args \in Arguments
      /\ f = [name |-> f.name, args |-> f.args]
  <2>1. CASE f \in OfferedRoutes(S)
    <3>1. PICK x \in S \cup {Terminate} :
            f = [name |-> "route_next_node", args |-> [NoArguments EXCEPT !.next_node = x]]
      BY <2>1 DEF OfferedRoutes
    <3>2. [NoArguments EXCEPT !.next_node = x] \in Arguments
      BY DEF NoArguments, Arguments
    <3>3. QED
      BY <3>1, <3>2
  <2>2. CASE f \in OfferedPlans(S)
    <3>1. /\ f = [name |-> f.name, args |-> f.args] /\ f.name = "propose_dag"
          /\ f.args \in [next_node : {""}, nodes : SUBSET S, edges : {"none", "named"}]
      BY <2>2 DEF OfferedPlans
    <3>2. f.args \in Arguments
      BY <3>1 DEF Arguments
    <3>3. QED
      BY <3>1, <3>2
  <2>3. QED
    BY <2>1, <2>2 DEF Offered
<1>2. QED
  BY <1>1, ArgumentsAreObjects

LEMMA OffersAreAccepted ==
  ASSUME TypeOK, NEW c \in Callers, NEW f \in Offered(candidates[c], PlanningEnabled)
  PROVE  \/ f.name = "propose_dag" /\ f.args.nodes = {}
         \/ ValidRoute(c, f) \/ ValidPlan(c, f)
<1>1. candidates[c] \in SUBSET Nodes
  BY DEF TypeOK
<1>2. f.args # Nil
  BY <1>1, OffersAreCalls
<1>3. CASE f \in OfferedRoutes(candidates[c])
  <2>1. PICK x \in candidates[c] \cup {Terminate} :
          f = [name |-> "route_next_node", args |-> [NoArguments EXCEPT !.next_node = x]]
    BY <1>3 DEF OfferedRoutes
  <2>2. f.name = "route_next_node" /\ f.args.next_node = x
    BY <2>1 DEF NoArguments
  <2>3. QED
    BY <1>2, <2>2 DEF ValidRoute, Exists
<1>4. CASE PlanningEnabled /\ f \in OfferedPlans(candidates[c])
  <2>1. /\ f.name = "propose_dag" /\ f.args.nodes \subseteq candidates[c]
        /\ f.args.edges # "blank"
    BY <1>4 DEF OfferedPlans
  <2>2. QED
    BY <1>2, <1>4, <2>1 DEF ValidPlan, Exists
<1>5. QED
  BY <1>3, <1>4 DEF Offered

\* An only element is the first one, and the one that is there.
LEMMA OnlyPlace ==
  ASSUME NEW i \in Nat
  PROVE  /\ Cardinality({i}) = 1 /\ {i} # {}
         /\ (CHOOSE j \in {i} : TRUE) = i
         /\ (CHOOSE j \in {i} : \A k \in {i} : j <= k) = i
BY FS_Singleton

\* The entries of a type in a list of one or two, one of which has the type.
LEMMA OneOfType ==
  ASSUME NEW type, NEW e, NEW w, e.type = type, w.type # type
  PROVE  /\ OfType(<<e>>, type) = {1} /\ OfType(<<w, e>>, type) = {2}
         /\ OfType(<<e, w>>, type) = {1}
<1>1. DOMAIN <<e>> = {1} /\ DOMAIN <<w, e>> = {1, 2} /\ DOMAIN <<e, w>> = {1, 2}
  OBVIOUS
<1>2. /\ <<e>>[1] = e /\ <<w, e>>[1] = w /\ <<w, e>>[2] = e
      /\ <<e, w>>[1] = e /\ <<e, w>>[2] = w
  OBVIOUS
<1> DEFINE places(s) == {i \in DOMAIN s : s[i].type = type}
<1>3. places(<<e>>) = {1} /\ places(<<w, e>>) = {2} /\ places(<<e, w>>) = {1}
  <2>1. \A s : DOMAIN s = {1} /\ s[1] = e => places(s) = {1}
    OBVIOUS
  <2>2. \A s : DOMAIN s = {1, 2} /\ s[1] = w /\ s[2] = e => places(s) = {2}
    OBVIOUS
  <2>3. \A s : DOMAIN s = {1, 2} /\ s[1] = e /\ s[2] = w => places(s) = {1}
    OBVIOUS
  <2> HIDE DEF places
  <2>4. QED
    BY <1>1, <1>2, <2>1, <2>2, <2>3
<1>4. QED
  BY <1>3, Zenon DEF OfType

LEMMA CallsAreRead ==
  ASSUME NEW S \in SUBSET Nodes, NEW f \in Offered(S, PlanningEnabled),
         NEW family \in {"openai_compatible", "anthropic", "mock_function"},
         NEW r \in Carrying(family, f)
  PROVE  ReadCall(family, r) = f
<1> DEFINE words == [type |-> "text", name |-> "", args |-> Nil, text |-> "words"]
           call == [type |-> "function_call", name |-> f.name, args |-> f.args, text |-> ""]
           use == [type |-> "tool_use", name |-> f.name, args |-> f.args, text |-> ""]
<1>1. /\ f.name \in {"route_next_node", "propose_dag"}
      /\ f.args # Nil /\ f.args # Malformed
      /\ f = [name |-> f.name, args |-> f.args]
  BY OffersAreCalls
<1>2. CallOf(call) = f /\ f # NoCall
  <2>1. f.name # "" /\ NoCall.name = ""
    BY <1>1 DEF NoCall
  <2>2. QED
    BY <1>1, <2>1 DEF CallOf
<1>3. OnlyCall(<<>>) = NoCall /\ OnlyCall(<<call>>) = f
  <2> HIDE DEF call
  <2>1. Len(<<call>>) = 1 /\ <<call>>[1] = call
    OBVIOUS
  <2>2. Len(<<>>) # 1
    OBVIOUS
  <2>3. OnlyCall(<<call>>) = f
    BY <1>2, <2>1, Zenon DEF OnlyCall
  <2>4. OnlyCall(<<>>) = NoCall
    BY <2>2, Zenon DEF OnlyCall
  <2>5. QED
    BY <2>3, <2>4
<1>4. FirstCall(<<words, call>>) = f
  <2>1. OfType(<<words, call>>, "function_call") = {2}
    <3>1. call.type = "function_call" /\ words.type # "function_call"
      OBVIOUS
    <3> HIDE DEF words, call
    <3>2. QED
      BY <3>1, OneOfType
  <2>2. <<words, call>>[2] = call
    OBVIOUS
  <2> HIDE DEF words, call
  <2>3. QED
    BY <1>2, <2>1, <2>2, OnlyPlace DEF FirstCall
<1>5. CASE family = "openai_compatible"
  <2> DEFINE empty == [refused |-> FALSE, tool_calls |-> <<>>, choice |-> <<>>,
                       content |-> "", output |-> <<>>]
  <2>1. /\ ~r.refused
        /\ \/ r.tool_calls = <<call>>
           \/ r.tool_calls = <<>> /\ r.choice = <<call>>
           \/ r.tool_calls = <<>> /\ r.choice = <<>> /\ r.output = <<words, call>>
    <3>1. r \in {[empty EXCEPT !.tool_calls = <<call>>],
                 [empty EXCEPT !.choice = <<call>>, !.content = "words"],
                 [empty EXCEPT !.output = <<words, call>>]}
      BY <1>5 DEF Carrying
    <3> HIDE DEF words, call
    <3>2. QED
      BY <3>1
  <2> HIDE DEF words, call
  <2>2. OpenAICall(r) = f
    <3>1. /\ OnlyCall(r.tool_calls) \in {f, NoCall}
          /\ OnlyCall(r.tool_calls) = NoCall => OnlyCall(r.choice) \in {f, NoCall}
          /\ OnlyCall(r.tool_calls) = NoCall /\ OnlyCall(r.choice) = NoCall
               => FirstCall(r.output) = f
      BY <1>2, <1>3, <1>4, <2>1, Zenon
    <3>2. QED
      BY <1>2, <3>1 DEF OpenAICall
  <2>3. QED
    BY <1>5, <2>1, <2>2 DEF ReadCall
<1>6. CASE family = "anthropic"
  <2>1. /\ ~r.refused
        /\ r.content = <<use>> \/ r.content = <<words, use>> \/ r.content = <<use, words>>
    <3>1. r \in {[refused |-> FALSE, content |-> list] :
                    list \in {<<use>>, <<words, use>>, <<use, words>>}}
      BY <1>6, Zenon DEF Carrying
    <3> HIDE DEF words, use
    <3>2. PICK list \in {<<use>>, <<words, use>>, <<use, words>>} :
            r = [refused |-> FALSE, content |-> list]
      BY <3>1, Zenon
    <3>3. ~r.refused /\ r.content = list
      BY <3>2
    <3>4. QED
      BY <3>2, <3>3, Zenon
  <2> DEFINE uses == OfType(r.content, "tool_use")
  <2>2. use.type = "tool_use" /\ words.type # "tool_use"
    OBVIOUS
  <2>3. use.name = f.name /\ use.args = f.args /\ f.name # ""
    BY <1>1
  <2> HIDE DEF words, use
  <2>4. PICK i \in {1, 2} : uses = {i} /\ r.content[i] = use
    <3>1. /\ <<use>>[1] = use /\ <<use, words>>[1] = use /\ <<words, use>>[2] = use
          /\ 1 \in {1, 2} /\ 2 \in {1, 2}
      OBVIOUS
    <3>2. /\ OfType(<<use>>, "tool_use") = {1} /\ OfType(<<use, words>>, "tool_use") = {1}
          /\ OfType(<<words, use>>, "tool_use") = {2}
      BY <2>2, OneOfType
    <3>3. QED
      BY <2>1, <3>1, <3>2, Zenon
  <2> HIDE DEF uses
  <2>5. Cardinality(uses) = 1 /\ (CHOOSE j \in uses : TRUE) = i
    BY <2>4, OnlyPlace
  <2>6. AnthropicCall(r) = [name |-> use.name, args |-> use.args]
    BY <1>1, <2>3, <2>4, <2>5 DEF AnthropicCall, uses
  <2>7. QED
    BY <1>1, <1>6, <2>1, <2>3, <2>6 DEF ReadCall
<1>7. CASE family = "mock_function"
  <2>1. r = [refused |-> FALSE, call |-> f]
    BY <1>7 DEF Carrying
  <2>2. QED
    BY <1>7, <2>1 DEF ReadCall
<1>8. QED
  BY <1>5, <1>6, <1>7

\* Every call a model is offered, but the empty plan, becomes a decision in
\* every form its provider may send it: BuildFunctionDefs, the three adapters
\* and normalizeDecision agree, for any nodes and candidates
\* (gateway.go:257-346, 876-1110).
THEOREM OffersAreUnderstood == Spec => []OffersAreHonoured
<1>1. TypeOK => OffersAreHonoured
  <2> SUFFICES ASSUME TypeOK, NEW c \in Callers,
                      NEW f \in Offered(candidates[c], PlanningEnabled),
                      NEW r \in Carrying(Family[model[c]], f)
               PROVE  \/ f.name = "propose_dag" /\ f.args.nodes = {}
                      \/ ValidRoute(c, Heard(c, r)) \/ ValidPlan(c, Heard(c, r))
    BY DEF OffersAreHonoured
  <2>1. candidates[c] \in SUBSET Nodes
    BY DEF TypeOK
  <2>2. Family[model[c]] \in {"openai_compatible", "anthropic", "mock_function"}
    BY RepliesAssumption DEF TypeOK
  <2>3. Heard(c, r) = f
    BY <2>1, <2>2, CallsAreRead DEF Heard
  <2>4. QED
    BY <2>3, OffersAreAccepted
<1>2. QED
  BY <1>1, TypeCorrect, PTL

=============================================================================
