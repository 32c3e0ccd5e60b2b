--------------------------- MODULE MemorySession ---------------------------
(***************************************************************************)
(* The in-memory session repository                                        *)
(* (app/adapters/outbound/inmemory_session_repository.py), the default     *)
(* backend.  Its methods never suspend: the lock is not held across an     *)
(* await, so it is always free and each method runs in one step.  What can *)
(* go wrong is aliasing: Python lists are objects, append_messages extends *)
(* the stored one in place, and a caller keeps the list get_history gave   *)
(* it while it awaits the LLM and other requests append.  Lists are        *)
(* therefore objects in a heap.                                            *)
(***************************************************************************)
EXTENDS SessionOps

VARIABLES
  heap,       \* the list objects made so far, by number
  store,      \* self._store: session -> list object, None if it has no entry
  pc,         \* call -> "idle", "called", "applied" or "ok"
  op,         \* call -> its operation
  ret         \* call -> the list object get_history returned

vars == <<heap, store, pc, op, ret>>

Init ==
  /\ heap = << >>
  /\ store = [s \in Sessions |-> None]
  /\ pc = [c \in Calls |-> "idle"]
  /\ op = [c \in Calls |-> None]
  /\ ret = [c \in Calls |-> None]

Contents(s) == IF store[s] = None THEN << >> ELSE heap[store[s]]

(* The method is called; append_messages of an empty list returns at once. *)
Call(c, o) ==
  /\ pc[c] = "idle"
  /\ pc' = [pc EXCEPT ![c] =
              IF o.kind = "append" /\ o.msgs = << >> THEN "ok" ELSE "called"]
  /\ op' = [op EXCEPT ![c] = o]
  /\ UNCHANGED <<heap, store, ret>>

Run(c, kind) ==
  /\ pc[c] = "called" /\ op[c].kind = kind
  /\ pc' = [pc EXCEPT ![c] = "applied"]
  /\ UNCHANGED op

(* The stored list itself is handed out.                                   *)
GetHistoryShared(c) ==
  /\ Run(c, "get")
  /\ store[op[c].session] # None
  /\ ret' = [ret EXCEPT ![c] = store[op[c].session]]
  /\ UNCHANGED <<heap, store>>

(* list(self._store.get(session_id, [])): a copy.                          *)
GetHistory(c) ==
  /\ Run(c, "get")
  /\ heap' = Append(heap, Contents(op[c].session))
  /\ ret' = [ret EXCEPT ![c] = Len(heap')]
  /\ UNCHANGED store

(* bucket[-max:] without the case of its own for max <= 0: the slice -0:   *)
(* is the whole list.                                                      *)
KeptUnguarded(all, max) ==
  IF max = None \/ max = 0 THEN all ELSE Recent(all, max)

Kept(all, max) == IF max = None THEN all ELSE Recent(all, max)

(* bucket.extend(messages) changes the stored list object in place; a new  *)
(* session or a trim that cuts stores a new object.                        *)
AppendMessages(c) ==
  LET s == op[c].session
      all == Contents(s) \o op[c].msgs
      extended == IF store[s] = None THEN heap
                  ELSE [heap EXCEPT ![store[s]] = all]
  IN
  /\ Run(c, "append")
  /\ IF store[s] # None /\ Kept(all, op[c].max) = all
       THEN heap' = extended /\ UNCHANGED store
       ELSE /\ heap' = Append(extended, Kept(all, op[c].max))
            /\ store' = [store EXCEPT ![s] = Len(heap')]
  /\ UNCHANGED ret

(* self._store[session_id] = list(messages)                                *)
SetHistory(c) ==
  /\ Run(c, "set")
  /\ heap' = Append(heap, op[c].msgs)
  /\ store' = [store EXCEPT ![op[c].session] = Len(heap')]
  /\ UNCHANGED ret

Ping(c) == Run(c, "ping") /\ UNCHANGED <<heap, store, ret>>

(* The caller goes on with the result, at once or after other tasks.       *)
Return(c) ==
  /\ pc[c] = "applied"
  /\ pc' = [pc EXCEPT ![c] = "ok"]
  /\ UNCHANGED <<heap, store, op, ret>>

Next ==
  \E c \in Calls :
    \/ \E o \in Ops : Call(c, o)
    \/ GetHistory(c) \/ AppendMessages(c) \/ SetHistory(c) \/ Ping(c) \/ Return(c)

Spec == Init /\ [][Next]_vars

-----------------------------------------------------------------------------
(* Properties.                                                             *)

Written(s) == \E c \in Calls : /\ pc[c] \in {"applied", "ok"}
                               /\ op[c].session = s
                               /\ op[c].kind \in {"append", "set"}
                               /\ op[c].kind = "append" => op[c].msgs # << >>

Abstract ==
  INSTANCE SessionStore WITH
    hist <- [s \in Sessions |-> Contents(s)],
    live <- [s \in Sessions |-> Written(s)],
    phase <- pc,
    got <- [c \in Calls |-> IF ret[c] = None THEN None ELSE heap[ret[c]]],
    resent <- [c \in Calls |-> FALSE],
    DefaultLimit <- None,
    SetLimit <- None

(* The repository implements the port's promise (SessionStore), though it  *)
(* changes lists in place: in particular a history that was read does not  *)
(* change when other requests append, trim or replace.                     *)
MemoryImplementsSessionStore == Abstract!Spec

(* The only list that is ever changed is the one the store holds: each     *)
(* list a caller got keeps its contents for ever.                          *)
MemoryCallersListsKept ==
  [][\A c \in Calls : ret[c] # None => heap'[ret[c]] = heap[ret[c]]]_vars

(* The types of the state; every reference is to a list of the heap.       *)
TypeOK ==
  /\ heap \in Seq(Seq(Messages))
  /\ store \in [Sessions -> (1 .. Len(heap)) \cup {None}]
  /\ pc \in [Calls -> {"idle", "called", "applied", "ok"}]
  /\ op \in [Calls -> Ops \cup {None}]
  /\ ret \in [Calls -> (1 .. Len(heap)) \cup {None}]

=============================================================================
