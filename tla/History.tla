------------------------------ MODULE History ------------------------------
(***************************************************************************)
(* The list arithmetic of a conversation history: what "the last n"        *)
(* messages are, what the prompt of the next turn is, and what a session   *)
(* store keeps after an append or a replacement.                           *)
(*                                                                         *)
(* Code: app/application/services/history_builder.py and the slices and    *)
(* trims of the session repositories.  A history is a sequence of          *)
(* messages, oldest first.                                                 *)
(***************************************************************************)
EXTENDS Integers, Sequences

AtLeastZero(n) == IF n < 0 THEN 0 ELSE n

(* history[-n:], with the guard every caller puts on it: a Python slice    *)
(* history[-0:] would be the whole list, so n <= 0 is a case of its own.   *)
Recent(h, n) ==
  IF n <= 0 THEN << >>
  ELSE IF Len(h) <= n THEN h
  ELSE SubSeq(h, Len(h) - n + 1, Len(h))

(* build_prompt_history: the last max_turns turns, then the new message.   *)
BuildPrompt(h, user, maxTurns) == Append(Recent(h, 2 * maxTurns), user)

=============================================================================
