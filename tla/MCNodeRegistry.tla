--------------------------- MODULE MCNodeRegistry ---------------------------
(***************************************************************************)
(* NodeRegistry with one manifest file per node, named after it.           *)
(***************************************************************************)
EXTENDS NodeRegistry

CONSTANTS a, b, fa, fb, run

Named == [f \in Files |-> IF f = fa THEN a ELSE b]

Plain(i, v) == [id |-> i, revision |-> v, autostart |-> FALSE]
Started(i, v) == [id |-> i, revision |-> v, autostart |-> TRUE]

\* Node a is started by the registry; node b runs elsewhere, hides a builtin, and
\* its manifest may be revised or broken.
OnePerNode ==
  [f \in Files |-> IF f = fa THEN {Started(a, 1)}
                            ELSE {Broken, Plain(b, 1), Plain(b, 2)}]

\* What runs elsewhere answers at any time; a's process comes and goes.
OfProcess == [c \in Callers |-> {a}]

=============================================================================
