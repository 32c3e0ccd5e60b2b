------------------------------ MODULE MCAccess ------------------------------
(* Instances of Access for TLC. *)
EXTENDS Access, TLC

RequestSymmetry == Permutations(Requests)

CONSTANTS t1, t2

(* The default tenant is one of the tenants with a key.                    *)
SomeLimits == t1 :> 2 @@ t2 :> 1

(* Redis with authentication, open or closed on error; in memory, and with *)
(* limits off, with and without authentication.                            *)
SomeConfigs ==
  {c \in Config : \/ c.limit /\ c.auth /\ c.backend = "redis"
                  \/ c.limit /\ ~ c.failOpen /\ c.backend = "memory"
                  \/ ~ c.limit /\ ~ c.failOpen /\ c.backend = "redis"}

=============================================================================
