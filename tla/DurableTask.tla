----------------------------- MODULE DurableTask -----------------------------
(***************************************************************************)
(* What the framework promises of a task to whoever reads it back: its     *)
(* history of merged patches only ever grows by one node the admission     *)
(* rules allowed, nothing is added once the verdict is out, and only a     *)
(* resume opens a task again.                                              *)
(***************************************************************************)
EXTENDS Rules, SequencesExt

CONSTANTS Tasks, Nodes,
          Volatile          \* a restart forgets the tasks

VARIABLES phase, history

vars == <<phase, history>>

Init ==
  /\ phase = [t \in Tasks |-> "unknown"]
  /\ history = [t \in Tasks |-> <<>>]

\* The task is stored for the first time.
Accept(t) ==
  /\ phase[t] = "unknown"
  /\ phase' = [phase EXCEPT ![t] = "open"]
  /\ UNCHANGED history

\* A node's patch becomes durable.
Commit(t, n) ==
  /\ phase[t] = "open"
  /\ Allows(n, ToSet(history[t]))
  /\ history' = [history EXCEPT ![t] = Append(@, n)]
  /\ UNCHANGED phase

\* The verdict becomes durable.
Close(t) ==
  /\ phase[t] = "open"
  /\ phase' = [phase EXCEPT ![t] = "closed"]
  /\ UNCHANGED history

\* A resume takes a task up again from what it has.
Reopen(t) ==
  /\ phase[t] = "closed"
  /\ phase' = [phase EXCEPT ![t] = "open"]
  /\ UNCHANGED history

Forget ==
  /\ Volatile
  /\ Init'

Next ==
  \/ \E t \in Tasks : Accept(t) \/ Close(t) \/ Reopen(t)
  \/ \E t \in Tasks, n \in Nodes : Commit(t, n)
  \/ Forget

Spec == Init /\ [][Next]_vars

=============================================================================
