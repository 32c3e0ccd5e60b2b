---------------------------- MODULE SessionStore ----------------------------
(***************************************************************************)
(* What the session repository port (app/ports/outbound/                   *)
(* session_repository.py) promises the chat service, whatever the backend: *)
(* every operation takes effect at one instant between its call and its    *)
(* return, or not at all.  An operation that returns normally has taken    *)
(* effect; one that raises SessionStoreError (or is cancelled) may or may  *)
(* not have, and a write already on its way to the server may even take    *)
(* effect after its caller has given up.                                   *)
(*                                                                         *)
(* Backends differ in two ways the port leaves open, both parameters here: *)
(* how many messages they keep when the caller names no limit              *)
(* (DefaultLimit) and how many set_history keeps (SetLimit).  What becomes *)
(* of the messages of a session that expired is open as well: they may be  *)
(* dropped or only hidden.                                                 *)
(***************************************************************************)
EXTENDS History

CONSTANTS
  Sessions,      \* session ids
  Calls,         \* in-flight operations, each used once
  Ops,           \* the operations a caller may issue
  None,          \* Python's None
  DefaultLimit,  \* messages append keeps when max_messages is None
  SetLimit       \* messages set_history keeps

VARIABLES
  hist,          \* session -> stored messages
  live,          \* session -> the stored messages can be read
  phase,         \* call -> "idle", "called", "applied", "ok", "error", or
                 \*         "lost": given up by its caller, not by the server
  op,            \* call -> the operation it performs
  got,           \* call -> what a get_history read
  resent         \* call -> the backend's client sent it more than once

vars == <<hist, live, phase, op, got, resent>>

(* The last n messages, or all of them when there is no limit.             *)
Keep(h, n) == IF n = None THEN h ELSE Recent(h, n)

AppendLimit(o) == IF o.max = None THEN DefaultLimit ELSE o.max

Init ==
  /\ hist = [s \in Sessions |-> << >>]
  /\ live = [s \in Sessions |-> FALSE]
  /\ phase = [c \in Calls |-> "idle"]
  /\ op = [c \in Calls |-> None]
  /\ got = [c \in Calls |-> None]
  /\ resent = [c \in Calls |-> FALSE]

Call(c, o) ==
  /\ phase[c] = "idle"
  /\ op' = [op EXCEPT ![c] = o]
  /\ phase' = [phase EXCEPT ![c] = "called"]
  /\ UNCHANGED <<hist, live, got, resent>>

(* append_messages of an empty list returns without touching the store:    *)
(* it does not even trim the session or renew its life.                    *)
CallEmptyAppend(c, o) ==
  /\ phase[c] = "idle"
  /\ o.kind = "append" /\ o.msgs = << >>
  /\ op' = [op EXCEPT ![c] = o]
  /\ phase' = [phase EXCEPT ![c] = "ok"]
  /\ UNCHANGED <<hist, live, got, resent>>

(* The server performs the operation, in time or after the caller left.    *)
Take(c) ==
  /\ phase[c] \in {"called", "lost"}
  /\ phase' = [phase EXCEPT ![c] = IF @ = "lost" THEN "error" ELSE "applied"]

(* What the write of c makes of the history h of its session.              *)
Written(c, h) ==
  IF op[c].kind = "append" THEN Keep(h \o op[c].msgs, AppendLimit(op[c]))
  ELSE Keep(op[c].msgs, SetLimit)

Write(c) ==
  /\ op[c].kind \in {"append", "set"}
  /\ hist' = [hist EXCEPT ![op[c].session] = Written(c, @)]
  /\ live' = [live EXCEPT ![op[c].session] = TRUE]

ApplyWrite(c) == Take(c) /\ Write(c) /\ UNCHANGED <<op, got, resent>>

(* Only a write that was sent again may be performed again.                *)
ApplyAgain(c) == resent[c] /\ Write(c) /\ UNCHANGED <<phase, op, got, resent>>

(* The backend's client gets no answer and sends the operation again.      *)
Resend(c) ==
  /\ phase[c] \in {"called", "applied"}
  /\ phase' = [phase EXCEPT ![c] = "called"]
  /\ resent' = [resent EXCEPT ![c] = TRUE]
  /\ UNCHANGED <<hist, live, op, got>>

Visible(s) == IF live[s] THEN hist[s] ELSE << >>

ApplyGet(c) ==
  /\ Take(c) /\ op[c].kind = "get"
  /\ got' = [got EXCEPT ![c] = Visible(op[c].session)]
  /\ UNCHANGED <<hist, live, op, resent>>

ApplyPing(c) ==
  /\ Take(c) /\ op[c].kind = "ping"
  /\ UNCHANGED <<hist, live, op, got, resent>>

Return(c) ==
  /\ phase[c] = "applied"
  /\ phase' = [phase EXCEPT ![c] = "ok"]
  /\ UNCHANGED <<hist, live, op, got, resent>>

Raise(c) ==
  /\ phase[c] \in {"called", "applied"}
  /\ phase' = [phase EXCEPT ![c] = "error"]
  /\ UNCHANGED <<hist, live, op, got, resent>>

(* The caller gives up a write that the server may still perform.          *)
Abandon(c) ==
  /\ phase[c] = "called" /\ op[c].kind \in {"append", "set"}
  /\ phase' = [phase EXCEPT ![c] = "lost"]
  /\ UNCHANGED <<hist, live, op, got, resent>>

(* The server drops it instead.                                            *)
Drop(c) ==
  /\ phase[c] = "lost"
  /\ phase' = [phase EXCEPT ![c] = "error"]
  /\ UNCHANGED <<hist, live, op, got, resent>>

(* The session's time to live runs out.                                    *)
Expire(s) ==
  /\ live[s]
  /\ live' = [live EXCEPT ![s] = FALSE]
  /\ hist' \in {hist, [hist EXCEPT ![s] = << >>]}
  /\ UNCHANGED <<phase, op, got, resent>>

Next ==
  \/ \E c \in Calls, o \in Ops : Call(c, o) \/ CallEmptyAppend(c, o)
  \/ \E c \in Calls : \/ ApplyWrite(c) \/ ApplyAgain(c) \/ Resend(c) \/ ApplyGet(c)
                      \/ ApplyPing(c) \/ Return(c) \/ Raise(c) \/ Abandon(c)
                      \/ Drop(c)
  \/ \E s \in Sessions : Expire(s)

Spec == Init /\ [][Next]_vars

=============================================================================
