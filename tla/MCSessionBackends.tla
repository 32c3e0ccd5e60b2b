------------------------- MODULE MCSessionBackends -------------------------
(* The Redis and the in-memory repository for TLC: a process runs the one  *)
(* its settings select (_build_session_repo in app/bootstrap.py), the      *)
(* other one stays as it began.                                            *)
EXTENDS RedisSession, TLC

CONSTANT s1

VARIABLES
  backend,      \* "redis" or "memory"
  heap, store, mpc, mop, ret   \* the in-memory repository

memoryVars == <<heap, store, mpc, mop, ret>>

Memory == INSTANCE MemorySession WITH pc <- mpc, op <- mop

BackendInit == /\ backend \in {"redis", "memory"}
               /\ Init
               /\ Memory!Init

BackendNext ==
  \/ backend = "redis" /\ Next /\ UNCHANGED <<backend, memoryVars>>
  \/ backend = "memory" /\ Memory!Next /\ UNCHANGED <<backend, vars>>

BackendSpec == BackendInit /\ [][BackendNext]_<<backend, vars, memoryVars>>

CallSymmetry == Permutations(Calls)

AppendOp(m, max) == [kind |-> "append", session |-> s1, msgs |-> m, max |-> max]
OtherOp(kind, m) == [kind |-> kind, session |-> s1, msgs |-> m, max |-> None]

(* Limits that trim, that drop everything and that are not there; an empty *)
(* append, replacements by something and by nothing, a read and a ping.    *)
StoreOps ==
  {AppendOp(<<"u", "a">>, 3), AppendOp(<<"u", "a">>, 0), AppendOp(<<"v">>, None),
   AppendOp(<< >>, 1), OtherOp("set", <<"x", "y">>), OtherOp("set", << >>),
   OtherOp("get", << >>), OtherOp("ping", << >>)}

(* Of MemorySession: the in-memory repository implements the port's        *)
(* promise although it changes lists in place.                             *)
MemoryImplementsSessionStore == Memory!MemoryImplementsSessionStore

(* Of MemorySession: a list a caller got from get_history keeps its        *)
(* contents for ever.                                                      *)
MemoryCallersListsKept == Memory!MemoryCallersListsKept

=============================================================================
