----------------------------- MODULE SessionOps -----------------------------
(***************************************************************************)
(* The calls a repository receives through the session repository port     *)
(* (app/ports/outbound/session_repository.py): which method, of which      *)
(* session, with which messages and limit.                                 *)
(***************************************************************************)
EXTENDS History

CONSTANTS
  Sessions,   \* session ids
  Calls,      \* repository calls, each run once
  Ops,        \* operations a call may perform
  Messages,   \* message contents, opaque
  None        \* Python's None

(* max is max_messages of append_messages; the other methods have none.    *)
Operation == [kind : {"get", "append", "set", "ping"}, session : Sessions,
              msgs : Seq(Messages), max : Int \cup {None}]

ASSUME OpsAssumption == Ops \subseteq Operation
ASSUME NoneAssumption == None \notin Operation \cup Int \cup Seq(Messages)

=============================================================================
