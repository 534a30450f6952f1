------------------------------ MODULE TaskState ------------------------------
(***************************************************************************)
(* The State Bus (internal/state/state.go): the value one Engine.Run call  *)
(* owns, and the operations that change it.                                *)
(*                                                                         *)
(* WorkingMemory, NodeOutputs, Sensitive and the patch keys of Ext are     *)
(* abstracted to "merged", the sequence of nodes whose patches went into   *)
(* them; of Ext only the engine's own two keys are kept.                   *)
(***************************************************************************)
EXTENDS Naturals, Sequences, FiniteSets, SequencesExt

CONSTANTS Nodes,            \* identifiers of the nodes that may be registered
          BadPatches        \* nodes that may return a patch json.Marshal refuses

ASSUME NodesAssumption == "" \notin Nodes /\ "__terminate__" \notin Nodes
ASSUME BadPatchesAssumption == BadPatches \subseteq Nodes

Terminate == "__terminate__"
NoNode == ""                \* NextNode of a planning decision

TaskStatus == {"pending", "running", "completed", "failed", "timed_out"}
TerminalStatus == {"completed", "failed", "timed_out"}

DecisionRecord == [type : {"route", "plan"}, node : Nodes \cup {Terminate, NoNode},
                   step : Nat]

State == [version : Nat, status : TaskStatus, merged : Seq(Nodes),
          log : Seq(DecisionRecord),
          ext : SUBSET {"latest_plan", "last_rejection_reason"}]

New == [version |-> 1, status |-> "pending", merged |-> <<>>, log |-> <<>>, ext |-> {}]

-----------------------------------------------------------------------------
\* A mutant: the version is bumped only after the clone was taken.
MergePatchKeepsVersion(s, n) ==
  [s EXCEPT !.merged = Append(@, n), !.status = "running"]

\* A mutant: the patch replaces the accumulated state instead of joining it.
MergePatchOverwrites(s, n) ==
  [s EXCEPT !.merged = <<n>>, !.version = @ + 1, !.status = "running"]

\* ApplyPatch up to the clone: the maps are merged in place.
MergePatch(s, n) ==
  [version |-> s.version + 1, status |-> "running", merged |-> Append(s.merged, n),
   log |-> s.log, ext |-> s.ext]

\* The clone at the end of ApplyPatch is what can fail, after the merge.
Unserialisable(n) == n \in BadPatches

AppendDecision(s, type, n, step) ==
  [s EXCEPT !.log = Append(@, [type |-> type, node |-> n, step |-> step])]

SetExt(s, key) == [s EXCEPT !.ext = @ \cup {key}]

-----------------------------------------------------------------------------
\* memory.Engine.currentSequence: every decision but the terminating one, so
\* plans (NextNode "") and rejected nodes are part of it.
CurrentSequence(log) ==
  LET kept == SelectSeq(log, LAMBDA d : d.node # Terminate)
  IN  [i \in DOMAIN kept |-> kept[i].node]

=============================================================================
