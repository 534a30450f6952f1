---------------------------- MODULE Configuration ----------------------------
(***************************************************************************)
(* What becomes of the settings written in a configuration file before     *)
(* anything is built from them (internal/config/config.go): defaults for   *)
(* what is left out or not positive, then validation.  Kept are the        *)
(* settings the other modules depend on, and the timeouts of the server;   *)
(* a setting that is left out is 0 or "", as yaml leaves it.               *)
(***************************************************************************)
EXTENDS Integers

OpenAIFamily == {"openai", "openai_compatible", "qwen", "kimi", "glm"}
Providers    == OpenAIFamily \cup {"anthropic", "mock_function"}
RoutingModes == {"route_only", "route_and_plan"}

\* Integers and durations, of which anything that is not positive is replaced;
\* ratios are percentages.
DefaultOf == [
  max_steps |-> 12, task_timeout |-> 90000, node_timeout |-> 10000,
  max_parallel_nodes |-> 16, max_same_node_visits |-> 3,
  poll_interval |-> 3000, grpc_dial_timeout |-> 3000,
  primary_timeout |-> 5000, fallback_timeout |-> 5000,
  max_attempts |-> 2, base_delay |-> 300, requests_per_second |-> 20, burst |-> 10,
  max_requests |-> 2, interval |-> 30000, breaker_timeout |-> 20000,
  failure_ratio |-> 60]

\* Durations of which only 0 is replaced.
ServerDefaultOf == [
  read_timeout |-> 10000, write_timeout |-> 15000, shutdown_timeout |-> 15000]

Numbers == DOMAIN DefaultOf \cup DOMAIN ServerDefaultOf

\* A configuration file, as yaml.Unmarshal leaves it; max_requests is unsigned.
Written == [numbers : {v \in [Numbers -> Int] : v["max_requests"] >= 0},
            primary : STRING, fallback : STRING, routing_mode : STRING, backend : STRING]

Left(name, value) ==
  IF name \in DOMAIN DefaultOf THEN value <= 0 ELSE value = 0

Default(name) ==
  IF name \in DOMAIN DefaultOf THEN DefaultOf[name] ELSE ServerDefaultOf[name]

Or(value, default) == IF value = "" THEN default ELSE value

\* ApplyDefaultsAndValidate, up to the validation.
Completed(c) == [
  numbers |-> [name \in Numbers |->
                 IF Left(name, c.numbers[name]) THEN Default(name) ELSE c.numbers[name]],
  primary |-> Or(c.primary, "mock_function"),
  fallback |-> Or(c.fallback, "mock_function"),
  routing_mode |-> Or(c.routing_mode, "route_only"),
  backend |-> Or(c.backend, "memory")]

\* validateAIConfig: the names are compared as they are written.
Valid(c) ==
  /\ c.routing_mode \in RoutingModes
  /\ c.primary \in Providers
  /\ c.fallback \in Providers

\* Load: app.New is given the completed settings, or the server does not start.
Accepted(c) == Valid(Completed(c))

\* persistence.NewStore refuses what the validation let through.
StoreOpens(c) == c.backend \in {"memory", "postgres"}

\* providerFamily: which adapter serves a provider.
FamilyOf(provider) ==
  CASE provider \in OpenAIFamily -> "openai_compatible"
    [] provider = "anthropic" -> "anthropic"
    [] provider = "mock_function" -> "mock_function"
    [] OTHER -> "unknown"

=============================================================================
