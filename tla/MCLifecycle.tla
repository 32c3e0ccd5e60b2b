---------------------------- MODULE MCLifecycle ----------------------------
(* Instances of Lifecycle for TLC. *)
EXTENDS Lifecycle, TLC

RequestSymmetry == Permutations(Requests)

Setting(l, t, s, r) ==
  [d \in Deps |-> CASE d = "llm" -> l [] d = "tts" -> t
                    [] d = "session_store" -> s [] d = "rate_limiter" -> r]

(* Servers behind each kind of adapter among local ones, and a setting     *)
(* with a typing error in it.                                              *)
Deployments ==
  {Setting("http", "local", "postgres", "local"),
   Setting("local", "http", "local", "redis"),
   Setting("http", "local", "local", "unknown")}

=============================================================================
