------------------------- MODULE MCPostgresSession -------------------------
(* Instances of PostgresSession for TLC. *)
EXTENDS PostgresSession, TLC

CallSymmetry == Permutations(Calls)

AppendOp(s, m, max) == [kind |-> "append", session |-> s, msgs |-> m, max |-> max]
SetOp(s, m) == [kind |-> "set", session |-> s, msgs |-> m, max |-> None]
GetOp(s) == [kind |-> "get", session |-> s, msgs |-> << >>, max |-> None]
PingOp(s) == [kind |-> "ping", session |-> s, msgs |-> << >>, max |-> None]

CONSTANT s1

(* An append trimmed to an odd count, one that is wholly trimmed, one      *)
(* without a limit, an empty one, a replacement longer than the limit, and *)
(* a read.                                                                 *)
StoreOps ==
  {AppendOp(s1, <<"u", "a">>, 3), AppendOp(s1, <<"u", "a">>, 0),
   AppendOp(s1, <<"v">>, None), AppendOp(s1, << >>, 1),
   SetOp(s1, <<"x", "y", "z">>), GetOp(s1)}

(* Contention only: two kinds of call, one connection, and a turn_index    *)
(* that overflows on the second append.                                    *)
LiveOps == {AppendOp(s1, <<"u", "a">>, 2), PingOp(s1)}

=============================================================================
