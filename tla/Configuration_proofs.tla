------------------------- MODULE Configuration_proofs -------------------------
(***************************************************************************)
(* Every configuration the server starts with meets what the other modules *)
(* assume of their constants.                                              *)
(***************************************************************************)
EXTENDS Configuration, TLAPS

Positive == {i \in Int : i > 0}

\* No default is itself a value that would be replaced (config.go:128-232).
LEMMA DefaultsArePositive ==
  \A name \in DOMAIN DefaultOf : DefaultOf[name] \in Positive
  BY DEF DefaultOf, Positive

LEMMA ServerDefaultsCount ==
  \A name \in DOMAIN ServerDefaultOf : ServerDefaultOf[name] \in Positive
  BY DEF ServerDefaultOf, Positive

\* Completing settings a second time changes nothing, as the tests do that
\* complete what they wrote by hand: no default is replaced in its turn
\* (config.go:128-232).
THEOREM CompletedIsFinal ==
  ASSUME NEW c \in Written
  PROVE  Completed(Completed(c)) = Completed(c)
<1> DEFINE d == Completed(c)
<1>1. ASSUME NEW name \in Numbers
      PROVE  ~Left(name, d.numbers[name])
  <2>1. c.numbers[name] \in Int
    BY DEF Written
  <2>2. Default(name) \in Positive
    BY DefaultsArePositive, ServerDefaultsCount DEF Default, Numbers
  <2>3. d.numbers[name] = IF Left(name, c.numbers[name]) THEN Default(name)
                          ELSE c.numbers[name]
    BY DEF Completed
  <2>4. QED
    BY <2>1, <2>2, <2>3 DEF Left, Positive
<1>2. d.numbers = [name \in Numbers |-> d.numbers[name]]
  BY DEF Completed
<1>3. d.primary # "" /\ d.fallback # "" /\ d.routing_mode # "" /\ d.backend # ""
  BY DEF Completed, Or
<1>4. Completed(d).numbers = d.numbers
  <2>1. Completed(d).numbers =
          [name \in Numbers |-> IF Left(name, d.numbers[name]) THEN Default(name)
                                ELSE d.numbers[name]]
    BY DEF Completed
  <2>2. QED
    BY <1>1, <1>2, <2>1
<1>5. /\ Completed(d).primary = d.primary
      /\ Completed(d).fallback = d.fallback
      /\ Completed(d).routing_mode = d.routing_mode
      /\ Completed(d).backend = d.backend
  BY <1>3 DEF Completed, Or
<1>6. QED
  BY <1>4, <1>5 DEF Completed

\* Whatever is written, a configuration that is accepted meets the assumptions
\* TaskEngine, Sandbox and Gateway make of their constants: positive bounds and
\* shares, registered providers, a known routing mode (config.go:106-271,
\* gateway.go:111-146).  The server's timeouts may still be negative.
THEOREM AcceptedSettingsFit ==
  ASSUME NEW c \in Written, Accepted(c), NEW s, s = Completed(c)
  PROVE  /\ \A name \in DOMAIN DefaultOf : s.numbers[name] \in Positive
         /\ \A name \in DOMAIN ServerDefaultOf : s.numbers[name] \in Int \ {0}
         /\ s.routing_mode \in RoutingModes
         /\ FamilyOf(s.primary) \in {"openai_compatible", "anthropic", "mock_function"}
         /\ FamilyOf(s.fallback) \in {"openai_compatible", "anthropic", "mock_function"}
<1>1. ASSUME NEW name \in Numbers
      PROVE  /\ c.numbers[name] \in Int
             /\ s.numbers[name] = IF Left(name, c.numbers[name]) THEN Default(name)
                                  ELSE c.numbers[name]
  BY DEF Completed, Written
<1>2. ASSUME NEW name \in DOMAIN DefaultOf
      PROVE  s.numbers[name] \in Positive
  <2>1. name \in Numbers
    BY DEF Numbers
  <2>2. Default(name) \in Positive
    BY DefaultsArePositive DEF Default
  <2>3. QED
    BY <1>1, <2>1, <2>2 DEF Left, Positive
<1>3. ASSUME NEW name \in DOMAIN ServerDefaultOf
      PROVE  s.numbers[name] \in Int \ {0}
  <2>1. name \in Numbers
    BY DEF Numbers
  <2>2. Default(name) \in Positive
    BY DefaultsArePositive, ServerDefaultsCount DEF Default
  <2>3. QED
    BY <1>1, <2>1, <2>2 DEF Left, Positive
<1>4. Valid(s)
  BY DEF Accepted
<1>5. QED
  BY <1>2, <1>3, <1>4 DEF Valid, FamilyOf, Providers

=============================================================================
