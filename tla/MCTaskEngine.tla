---------------------------- MODULE MCTaskEngine ----------------------------
(***************************************************************************)
(* Instances of TaskEngine for TLC.  b may only run after a, and, where    *)
(* rules can forbid as well, never a second time.                          *)
(***************************************************************************)
EXTENDS TaskEngine, TLC

CONSTANTS a, b, t1, t2, r1, r2

Rule(test, node) == [test |-> test, node |-> node]
RuleSet(operator, rules, groups) ==
  [operator |-> operator, rules |-> rules, groups |-> groups]

\* The node b offers two ways in, and only the nested one can be taken.
Anything  == RuleSet("", <<>>, <<>>)
AfterA    == RuleSet("", <<Rule("has", a), Rule("blank", b)>>, <<>>)
OnceA     == RuleSet("other", <<Rule("has", a), Rule("lacks", b)>>, <<Anything>>)
Either(S) == RuleSet("or", <<Rule("broken", a)>>, <<S>>)

Gate(S)     == (a :> Anything) @@ (b :> Either(S))
AThenB      == Gate(AfterA)
AThenBOnce  == Gate(OnceA)
Unruled     == [n \in Nodes |-> Anything]
SomeRuleSets == {Anything, AfterA, OnceA, Either(AfterA), Either(OnceA)}

RunSymmetry == Permutations(Runs)

=============================================================================
