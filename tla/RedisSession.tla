---------------------------- MODULE RedisSession ----------------------------
(***************************************************************************)
(* The Redis session repository                                            *)
(* (app/adapters/outbound/redis_session_repository.py): one list per       *)
(* session with a time to live, written by MULTI/EXEC pipelines.           *)
(*                                                                         *)
(* Each member of Calls is one asyncio task running one repository method. *)
(* What it sends travels to the server, is executed there in one instant,  *)
(* and is answered; the connection may break, or the task be cancelled,    *)
(* on either way.  A transmission the task no longer waits for may still   *)
(* be executed.  The client library may transmit a command again whose     *)
(* answer did not come, up to Retries times: the repository configures     *)
(* nothing, the number is the installed library's.                         *)
(***************************************************************************)
EXTENDS SessionOps

CONSTANT Retries     \* transmissions the client library may add to the first

ASSUME RetriesAssumption == Retries \in Nat

VARIABLES
  key,        \* session -> the Redis key: its list and whether it has a TTL
  written,    \* session -> written since its last expiry (history variable)
  pc,         \* call -> "idle", "waiting", "answered", "ok" or "error"
  op,         \* call -> its operation
  got,        \* call -> messages read by get_history
  sent,       \* call -> transmissions so far
  wire        \* call -> the transmissions the server may still execute

vars == <<key, written, pc, op, got, sent, wire>>

(* Redis removes a list that becomes empty.                                *)
NoKey == [list |-> << >>, ttl |-> FALSE]

(* Redis commands, as functions of the key.  RPUSH creates the key without *)
(* a TTL, or keeps the one it has; EXPIRE of an absent key does nothing.   *)
RPUSH(k, msgs) == [k EXCEPT !.list = k.list \o msgs]
LTRIM(k, n) == [k EXCEPT !.list = Recent(k.list, n)]
EXPIRE(k) == IF k = NoKey THEN k ELSE [k EXCEPT !.ttl = TRUE]

-----------------------------------------------------------------------------
(* The pipelines of the repository.                                        *)

(* LTRIM key -max -1 with the sign of max taken for granted: LTRIM 0 -1    *)
(* keeps the whole list.                                                   *)
TrimUnguarded(k, max) == IF max = None \/ max = 0 THEN k ELSE LTRIM(k, max)

(* No limit, DEL when nothing may stay, or LTRIM.                          *)
Trim(k, max) ==
  IF max = None THEN k ELSE IF max <= 0 THEN NoKey ELSE LTRIM(k, max)

(* rpush, delete or ltrim, expire                                          *)
AppendPipeline(k, o) == EXPIRE(Trim(RPUSH(k, o.msgs), o.max))

(* delete, and rpush and expire when there is something to store           *)
SetPipeline(o) == IF o.msgs = << >> THEN NoKey ELSE EXPIRE(RPUSH(NoKey, o.msgs))

(* What the commands of a call make of the key.                            *)
Pipeline(k, o) ==
  IF o.kind = "append" THEN AppendPipeline(k, o)
  ELSE IF o.kind = "set" THEN SetPipeline(o)
  ELSE k

IsWrite(o) == o.kind \in {"append", "set"}

Init ==
  /\ key = [s \in Sessions |-> NoKey]
  /\ written = [s \in Sessions |-> FALSE]
  /\ pc = [c \in Calls |-> "idle"]
  /\ op = [c \in Calls |-> None]
  /\ got = [c \in Calls |-> None]
  /\ sent = [c \in Calls |-> 0]
  /\ wire = [c \in Calls |-> {}]

-----------------------------------------------------------------------------
(* Steps of a call and of the server.                                      *)

(* append_messages returns at once when there is nothing to append.        *)
StartEmptyAppend(c, o) ==
  /\ pc[c] = "idle"
  /\ o.kind = "append" /\ o.msgs = << >>
  /\ op' = [op EXCEPT ![c] = o]
  /\ pc' = [pc EXCEPT ![c] = "ok"]
  /\ UNCHANGED <<key, written, got, sent, wire>>

Transmit(c) ==
  /\ sent' = [sent EXCEPT ![c] = @ + 1]
  /\ wire' = [wire EXCEPT ![c] = @ \cup {sent'[c]}]
  /\ pc' = [pc EXCEPT ![c] = "waiting"]

(* lrange, ping, or execute() of the pipeline: everything is sent at once. *)
Start(c, o) ==
  /\ pc[c] = "idle"
  /\ ~ (o.kind = "append" /\ o.msgs = << >>)
  /\ op' = [op EXCEPT ![c] = o]
  /\ Transmit(c)
  /\ UNCHANGED <<key, written, got>>

(* A transmission is executed and leaves the key as k; its answer is for  *)
(* a call that still waits for this very transmission.                     *)
Execute(c, i, k) ==
  LET s == op[c].session IN
  /\ i \in wire[c]
  /\ wire' = [wire EXCEPT ![c] = @ \ {i}]
  /\ key' = [key EXCEPT ![s] = k]
  /\ written' = [written EXCEPT ![s] = @ \/ IsWrite(op[c])]
  /\ IF pc[c] = "waiting" /\ i = sent[c]
       THEN /\ pc' = [pc EXCEPT ![c] = "answered"]
            /\ got' = IF op[c].kind = "get" THEN [got EXCEPT ![c] = key[s].list]
                      ELSE got
       ELSE UNCHANGED <<pc, got>>
  /\ UNCHANGED <<op, sent>>

(* A pipeline without MULTI: the connection may break after RPUSH.         *)
ServePiecemeal(c) ==
  LET k == key[op[c].session] IN
  \E i \in wire[c] :
    \E left \in {Pipeline(k, op[c]), RPUSH(k, op[c].msgs)} : Execute(c, i, left)

(* MULTI ... EXEC: all commands of the pipeline, or none.                  *)
Serve(c) ==
  \E i \in wire[c] : Execute(c, i, Pipeline(key[op[c].session], op[c]))

(* The answer arrives.                                                     *)
Finish(c) ==
  /\ pc[c] = "answered"
  /\ pc' = [pc EXCEPT ![c] = "ok"]
  /\ UNCHANGED <<key, written, op, got, sent, wire>>

(* The connection breaks or the task is cancelled, before or after the     *)
(* server executed: SessionStoreError, or False from ping.  What was sent  *)
(* is lost or still under way.                                             *)
Fail(c) ==
  /\ pc[c] \in {"waiting", "answered"}
  /\ pc' = [pc EXCEPT ![c] = "error"]
  /\ wire' \in {wire, [wire EXCEPT ![c] = {}]}
  /\ UNCHANGED <<key, written, op, got, sent>>

(* As Resend, without end.                                                 *)
ResendForever(c) ==
  /\ pc[c] \in {"waiting", "answered"}
  /\ Transmit(c)
  /\ UNCHANGED <<key, written, op, got>>

(* The library notices a broken connection and sends everything again.     *)
Resend(c) ==
  /\ pc[c] \in {"waiting", "answered"}
  /\ sent[c] <= Retries
  /\ Transmit(c)
  /\ UNCHANGED <<key, written, op, got>>

(* The key's time to live runs out.                                        *)
Expire(s) ==
  /\ key[s].ttl
  /\ key' = [key EXCEPT ![s] = NoKey]
  /\ written' = [written EXCEPT ![s] = FALSE]
  /\ UNCHANGED <<pc, op, got, sent, wire>>

Next ==
  \/ \E c \in Calls : \/ \E o \in Ops : StartEmptyAppend(c, o) \/ Start(c, o)
                      \/ Serve(c) \/ Finish(c) \/ Fail(c) \/ Resend(c)
  \/ \E s \in Sessions : Expire(s)

Spec == Init /\ [][Next]_vars

-----------------------------------------------------------------------------
(* Properties.                                                             *)

(* No call transmits more often than the library's retries allow, and an   *)
(* empty list is an absent key.                                            *)
TypeOK ==
  /\ key \in [Sessions -> [list : Seq(Messages), ttl : BOOLEAN]]
  /\ \A s \in Sessions : key[s].list = << >> => key[s] = NoKey
  /\ written \in [Sessions -> BOOLEAN]
  /\ pc \in [Calls -> {"idle", "waiting", "answered", "ok", "error"}]
  /\ op \in [Calls -> Ops \cup {None}]
  /\ got \in [Calls -> Seq(Messages) \cup {None}]
  /\ sent \in [Calls -> 0 .. Retries + 1]
  /\ wire \in [Calls -> SUBSET Nat]
  /\ \A c \in Calls : wire[c] \subseteq 1 .. sent[c]

(* The comment of append_messages: a pipeline sent in parts could leave a  *)
(* key without a TTL.  A stored history always has one, wherever the       *)
(* connection broke and however often a pipeline was repeated.             *)
StoredExpires == \A s \in Sessions : key[s].list # << >> => key[s].ttl

(* A write its caller gave up, of which the only transmission is under way.*)
Lost(c) == /\ pc[c] = "error" /\ IsWrite(op[c])
           /\ sent[c] = 1 /\ wire[c] = {1}

Phase(c) == IF pc[c] = "waiting" THEN "called"
            ELSE IF pc[c] = "answered" THEN "applied"
            ELSE IF Lost(c) THEN "lost"
            ELSE pc[c]

Abstract ==
  INSTANCE SessionStore WITH
    hist <- [s \in Sessions |-> key[s].list],
    live <- written,
    phase <- [c \in Calls |-> Phase(c)],
    resent <- [c \in Calls |-> sent[c] > 1],
    DefaultLimit <- None,
    SetLimit <- None

(* The repository implements the port's promise (SessionStore): appends    *)
(* are atomic, trimmed to exactly the caller's limit, and none is lost; a  *)
(* write may be stored twice only if the library sent it again.            *)
ImplementsSessionStore == Abstract!Spec

=============================================================================
