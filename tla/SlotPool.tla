------------------------------- MODULE SlotPool -------------------------------
(***************************************************************************)
(* What the engine relies on when it calls sandbox.Execute                 *)
(* (internal/engine/engine.go:182): at most MaxParallel calls are past the *)
(* pool at a time, a call is turned away only when its context is over,    *)
(* and every call that got in comes back.                                  *)
(***************************************************************************)
EXTENDS Naturals, FiniteSets

CONSTANTS Calls, MaxParallel

VARIABLES phase,        \* of every call
          over          \* the contexts that are over

InPhase(p) == {c \in Calls : phase[c] = p}

Init ==
  /\ phase = [c \in Calls |-> "idle"]
  /\ over = {}

Ask(c) ==
  /\ phase[c] = "idle"
  /\ phase' = [phase EXCEPT ![c] = "waiting"]
  /\ UNCHANGED over

Take(c) ==
  /\ phase[c] \in {"idle", "waiting"} /\ c \notin over
  /\ Cardinality(InPhase("inside")) < MaxParallel
  /\ phase' = [phase EXCEPT ![c] = "inside"]
  /\ UNCHANGED over

Refuse(c) ==
  /\ phase[c] \in {"idle", "waiting"} /\ c \in over
  /\ phase' = [phase EXCEPT ![c] = "refused"]
  /\ UNCHANGED over

Return(c) ==
  /\ phase[c] = "inside"
  /\ phase' = [phase EXCEPT ![c] = "returned"]
  /\ UNCHANGED over

End(c) ==
  /\ over' = over \cup {c}
  /\ UNCHANGED phase

Next == \E c \in Calls : Ask(c) \/ Take(c) \/ Refuse(c) \/ Return(c) \/ End(c)

\* Nobody stays inside, however the work inside behaves.
Spec == Init /\ [][Next]_<<phase, over>> /\ \A c \in Calls : WF_<<phase, over>>(Return(c))

=============================================================================
