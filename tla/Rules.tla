-------------------------------- MODULE Rules --------------------------------
(***************************************************************************)
(* Admission rules (internal/rules/rules.go): Evaluator.Evaluate and       *)
(* evaluateRule.                                                           *)
(*                                                                         *)
(* A CEL expression is kept as what it asks of the patches merged into the *)
(* state: that a node's is there ("has") or is not ("lacks").  "blank" is  *)
(* an expression of spaces, "broken" one that does not parse, check,       *)
(* evaluate or yield a bool, which includes a path that                    *)
(* normalizeExpression reads together with the bracket or operator glued   *)
(* to it: no state has such a key.                                         *)
(***************************************************************************)
EXTENDS Sequences

CONSTANTS RuleSets,         \* the rule sets of the manifests, nested ones included
          Admission         \* a node's admission_rules

RuleTests == {"has", "lacks", "blank", "broken"}
Operators == {"", "and", "or", "other"}

\* Without the node a rule is about, which the engine declares.
ASSUME RuleSetsAssumption ==
  \A S \in RuleSets :
    /\ S.operator \in Operators
    /\ S.groups \in Seq(RuleSets)
    /\ \A i \in DOMAIN S.rules : S.rules[i].test \in RuleTests

EvaluateRule(rule, patches) ==
  \/ rule.test = "blank"
  \/ rule.test = "has" /\ rule.node \in patches
  \/ rule.test = "lacks" /\ rule.node \notin patches

\* The states a rule set allows, each as the set of nodes whose patches were
\* merged into it.  Every operator but "or" means "and"; a set that asks
\* nothing allows.
Evaluate[S \in RuleSets] ==
  {patches \in SUBSET DOMAIN Admission :
     LET rule(i)  == EvaluateRule(S.rules[i], patches)
         group(i) == patches \in Evaluate[S.groups[i]]
     IN  \/ S.rules = <<>> /\ S.groups = <<>>
         \/ /\ S.operator = "or"
            /\ \/ \E i \in DOMAIN S.rules : rule(i)
               \/ \E i \in DOMAIN S.groups : group(i)
         \/ /\ S.operator # "or"
            /\ \A i \in DOMAIN S.rules : rule(i)
            /\ \A i \in DOMAIN S.groups : group(i)}

\* What each node's rules allow.
Allowing == [node \in DOMAIN Admission |-> Evaluate[Admission[node]]]

Allows(node, patches) == patches \in Allowing[node]

=============================================================================
