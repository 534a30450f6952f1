------------------------------- MODULE Sandbox -------------------------------
(***************************************************************************)
(* sandbox.Executor (internal/sandbox/executor.go): every element of Calls *)
(* is one call of Execute.  The goroutine of the call waits for a slot of  *)
(* the weighted semaphore, starts a goroutine for the node, and takes the  *)
(* first of: the end of its context, a recovered panic, a result.          *)
(*                                                                         *)
(* The semaphore is golang.org/x/sync/semaphore, used with weight 1: its   *)
(* mutex makes each of its critical sections one action.                   *)
(***************************************************************************)
EXTENDS Naturals, Sequences, FiniteSets, SequencesExt

CONSTANTS Calls,            \* invocations of Execute
          MaxParallel       \* sandbox.max_parallel_nodes

ASSUME MaxParallelAssumption == MaxParallel \in Nat \ {0}

VARIABLES
  cur, waiters,         \* the semaphore
  pc, outcome,          \* the goroutine of Execute
  over, childDone,      \* the contexts that are over: the task's, the node's
  node,                 \* the goroutine of the node
  resultCh, errCh       \* the calls whose channel, of capacity 1, is full

callVars == <<pc, outcome>>
semVars  == <<cur, waiters>>
ctxVars  == <<over, childDone>>
nodeVars == <<node, resultCh, errCh>>
vars     == <<semVars, callVars, ctxVars, nodeVars>>

Init ==
  /\ cur = 0 /\ waiters = <<>>
  /\ pc = [c \in Calls |-> "idle"]
  /\ outcome = [c \in Calls |-> "none"]
  /\ over = {} /\ childDone = {}
  /\ node = [c \in Calls |-> "none"]
  /\ resultCh = {} /\ errCh = {}

Goto(c, label) == pc' = [pc EXCEPT ![c] = label]

-----------------------------------------------------------------------------
\* A call is in waiters until notifyWaiters gives it its token.
Granted(c) == pc[c] = "queued" /\ c \notin ToSet(waiters)

\* notifyWaiters: serve the queue in order while tokens last, when "used" are
\* taken and "queue" waits.
Notify(used, queue) ==
  IF queue # <<>> /\ used < MaxParallel
  THEN cur' = used + 1 /\ waiters' = Tail(queue)
  ELSE cur' = used /\ waiters' = queue

\* A mutant: tokens put back without a look at the queue.
ReleaseSilently == cur' = cur - 1 /\ waiters' = waiters

\* A mutant: a token put back twice.
ReleaseTwice == Notify(cur - 2, waiters)

\* One token comes back; with weight 1 at most one waiter can be served.
Release == Notify(cur - 1, waiters)

\* A mutant: the error of Acquire is noted, and ignored.
RefusedIgnored(c) == Goto(c, "holding") /\ outcome' = [outcome EXCEPT ![c] = "refused"]

Refused(c) == Goto(c, "returned") /\ outcome' = [outcome EXCEPT ![c] = "refused"]

\* A mutant: one slot too many.
HasRoomOffByOne == cur <= MaxParallel /\ waiters = <<>>

HasRoom == cur < MaxParallel /\ waiters = <<>>

\* pool.Acquire up to its unlock: a context that is over, a free token, or the
\* end of the queue.
Acquire(c) ==
  /\ pc[c] = "idle"
  /\ \/ /\ c \in over
        /\ Refused(c)
        /\ UNCHANGED semVars
     \/ /\ c \notin over /\ HasRoom
        /\ cur' = cur + 1
        /\ Goto(c, "holding")
        /\ UNCHANGED <<waiters, outcome>>
     \/ /\ c \notin over /\ ~HasRoom
        /\ waiters' = Append(waiters, c)
        /\ Goto(c, "queued")
        /\ UNCHANGED <<cur, outcome>>
  /\ UNCHANGED <<ctxVars, nodeVars>>

\* The ready channel is closed; the context is looked at once more.
Wake(c) ==
  /\ Granted(c)
  /\ \/ c \notin over /\ Goto(c, "holding") /\ UNCHANGED <<semVars, outcome>>
     \/ c \in over /\ Release /\ Refused(c)
  /\ UNCHANGED <<ctxVars, nodeVars>>

\* A mutant: the token that came with the end of the context is forgotten.
GiveUpKeepingToken(c) ==
  /\ pc[c] = "queued" /\ c \in over
  /\ waiters' = SelectSeq(waiters, LAMBDA w : w # c)
  /\ cur' = cur
  /\ Refused(c)
  /\ UNCHANGED <<ctxVars, nodeVars>>

\* The context ends first: a token that came meanwhile is put back, a place in
\* the queue is left.
GiveUp(c) ==
  /\ pc[c] = "queued" /\ c \in over
  /\ \/ Granted(c) /\ Release
     \/ \E i \in DOMAIN waiters :
          /\ waiters[i] = c
          /\ IF i = 1 /\ cur < MaxParallel
             THEN Notify(cur, RemoveAt(waiters, i))
             ELSE cur' = cur /\ waiters' = RemoveAt(waiters, i)
  /\ Refused(c)
  /\ UNCHANGED <<ctxVars, nodeVars>>

-----------------------------------------------------------------------------
\* The context of the node, its goroutine, the two channels.
Launch(c) ==
  /\ pc[c] = "holding"
  /\ Goto(c, "selecting")
  /\ node' = [node EXCEPT ![c] = "running"]
  /\ childDone' = IF c \in over THEN childDone \cup {c} ELSE childDone
  /\ UNCHANGED <<semVars, outcome, over, resultCh, errCh>>

\* n.Execute returns, or panics into the deferred recover.  Neither is under
\* the control of the sandbox.
NodeReturns(c) ==
  /\ node[c] = "running"
  /\ node' = [node EXCEPT ![c] = "returning"]
  /\ UNCHANGED <<semVars, callVars, ctxVars, resultCh, errCh>>

NodePanics(c) ==
  /\ node[c] = "running"
  /\ node' = [node EXCEPT ![c] = "recovering"]
  /\ UNCHANGED <<semVars, callVars, ctxVars, resultCh, errCh>>

\* A mutant: channels without a buffer.
RoomUnbuffered(channel, c) == c \notin channel /\ pc[c] = "selecting"

\* Capacity 1: a send waits only for the message before it.
Room(channel, c) == c \notin channel

Send(c) ==
  /\ \/ /\ node[c] = "returning" /\ Room(resultCh, c)
        /\ resultCh' = resultCh \cup {c}
        /\ UNCHANGED errCh
     \/ /\ node[c] = "recovering" /\ Room(errCh, c)
        /\ errCh' = errCh \cup {c}
        /\ UNCHANGED resultCh
  /\ node' = [node EXCEPT ![c] = "gone"]
  /\ UNCHANGED <<semVars, callVars, ctxVars>>

\* The deferred cancel runs before the deferred Release.
Leave(c, how) ==
  /\ Goto(c, "releasing")
  /\ outcome' = [outcome EXCEPT ![c] = how]
  /\ childDone' = childDone \cup {c}

\* The select: whichever case is ready, any of them when several are.
Ended(c) ==
  /\ pc[c] = "selecting" /\ c \in childDone
  /\ Leave(c, "expired")
  /\ UNCHANGED <<semVars, over, nodeVars>>

Failed(c) ==
  /\ pc[c] = "selecting" /\ c \in errCh
  /\ Leave(c, "panic")
  /\ errCh' = errCh \ {c}
  /\ UNCHANGED <<semVars, over, node, resultCh>>

Delivered(c) ==
  /\ pc[c] = "selecting" /\ c \in resultCh
  /\ Leave(c, "result")
  /\ resultCh' = resultCh \ {c}
  /\ UNCHANGED <<semVars, over, node, errCh>>

Finish(c) ==
  /\ pc[c] = "releasing"
  /\ Release
  /\ Goto(c, "returned")
  /\ UNCHANGED <<outcome, ctxVars, nodeVars>>

-----------------------------------------------------------------------------
\* The task's context ends, and every context made from it.
End(c) ==
  /\ c \notin over /\ pc[c] # "returned"
  /\ over' = over \cup {c}
  /\ childDone' = IF pc[c] \in {"selecting", "releasing"}
                  THEN childDone \cup {c} ELSE childDone
  /\ UNCHANGED <<semVars, callVars, nodeVars>>

\* A mutant: the node runs on the task's context, without its own timeout.
NoNodeTimeout(c) ==
  /\ c \in over \ childDone /\ pc[c] = "selecting"
  /\ childDone' = childDone \cup {c}
  /\ UNCHANGED <<semVars, callVars, over, nodeVars>>

\* The timer of nodeTimeout.
NodeTimeout(c) ==
  /\ c \notin childDone /\ pc[c] = "selecting"
  /\ childDone' = childDone \cup {c}
  /\ UNCHANGED <<semVars, callVars, over, nodeVars>>

-----------------------------------------------------------------------------
\* What the goroutine of the call does by itself.
CallStep(c) ==
  \/ Acquire(c) \/ Wake(c) \/ GiveUp(c) \/ Launch(c)
  \/ Ended(c) \/ Failed(c) \/ Delivered(c) \/ Finish(c)

Terminating ==
  /\ \A c \in Calls : pc[c] = "returned"
  /\ UNCHANGED vars

Next ==
  \/ \E c \in Calls : \/ CallStep(c) \/ NodeReturns(c) \/ NodePanics(c) \/ Send(c)
                      \/ End(c) \/ NodeTimeout(c)
  \/ Terminating

Spec == Init /\ [][Next]_vars

\* The goroutines of calls are scheduled, the timer fires, a node goroutine
\* that can send does.  A node need not return, a task need not end.
Fairness ==
  \A c \in Calls : WF_vars(CallStep(c)) /\ WF_vars(NodeTimeout(c)) /\ WF_vars(Send(c))

FairSpec == Spec /\ Fairness

-----------------------------------------------------------------------------
Outcomes == {"none", "refused", "expired", "panic", "result"}

\* Types, and what the contexts and channels say of a call before it has them
\* (executor.go:26-54).
TypeOK ==
  /\ cur \in Nat
  /\ waiters \in Seq(Calls)
  /\ pc \in [Calls -> {"idle", "queued", "holding", "selecting", "releasing", "returned"}]
  /\ outcome \in [Calls -> Outcomes]
  /\ over \subseteq Calls /\ childDone \subseteq Calls
  /\ node \in [Calls -> {"none", "running", "returning", "recovering", "gone"}]
  /\ resultCh \subseteq Calls /\ errCh \subseteq Calls

Holders == {c \in Calls : Granted(c) \/ pc[c] \in {"holding", "selecting", "releasing"}}

\* No token is lost or made up, in whatever order contexts end and tokens are
\* handed over (executor.go:27-30).
TokensAreHeld == cur = Cardinality(Holders) /\ cur <= MaxParallel

\* Nobody waits while a slot is free, and nobody waits twice.
NoLostWakeup ==
  /\ waiters # <<>> => cur = MaxParallel
  /\ \A i, j \in 1..Len(waiters) : waiters[i] = waiters[j] => i = j
  /\ \A i \in 1..Len(waiters) : pc[waiters[i]] = "queued"

\* What a call reports is what happened to its node: a call turned away never
\* ran it, and each message has one reader (executor.go:27-53).
OutcomesAreTrue ==
  \A c \in Calls :
    /\ outcome[c] = "refused" => node[c] = "none"
    /\ outcome[c] \in {"result", "panic"} => node[c] = "gone" /\ c \notin resultCh \cup errCh
    /\ outcome[c] = "none" /\ node[c] = "gone" => c \in resultCh \cup errCh

\* Every call returns, though nodes may hang for ever and tasks have no
\* deadline (executor.go:26-54).
EveryCallReturns == \A c \in Calls : pc[c] = "queued" ~> pc[c] = "returned"

\* A node that returned or panicked late leaves no goroutine behind
\* (executor.go:35-44).
GoroutinesEnd ==
  \A c \in Calls : node[c] \in {"returning", "recovering"} ~> node[c] = "gone"

\* What the engine relies on.
Phase(c) ==
  IF pc[c] = "idle" THEN "idle"
  ELSE IF pc[c] = "queued" THEN "waiting"
  ELSE IF pc[c] # "returned" THEN "inside"
  ELSE IF outcome[c] = "refused" THEN "refused" ELSE "returned"

Phases == [c \in Calls |-> Phase(c)]

Pool == INSTANCE SlotPool WITH phase <- Phases, over <- over

ImplementsSlotPool == Pool!Spec

\* Concurrency limits are applied to the execution of nodes
\* (docs/architecture.en.md:54).
LiveNodesAreBounded ==
  Cardinality({c \in Calls : node[c] = "running"}) <= MaxParallel

=============================================================================
