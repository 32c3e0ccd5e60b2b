------------------------------- MODULE MCChat -------------------------------
(* Instances of Chat for TLC. *)
EXTENDS Chat, TLC

CONSTANTS s1, s2

RequestSymmetry == Permutations(Requests)

(* Requests, and the two sessions of TwoSessions.                          *)
FullSymmetry == RequestSymmetry \cup Permutations(Sessions)

Body(kind, blank, audio) ==
  [kind |-> kind, session |-> s1, blank |-> blank, audio |-> audio]

AllInputs == {Body("chat", FALSE, TRUE), Body("chat", FALSE, FALSE), Body("chat", TRUE, FALSE),
              Body("stream", FALSE, FALSE), Body("stream", TRUE, FALSE)}

SyncInputs == {Body("chat", FALSE, FALSE)}

(* Two conversations.                                                      *)
TwoSessions == SyncInputs \cup {[Body("chat", FALSE, FALSE) EXCEPT !.session = s2]}

StreamInputs == {Body("stream", FALSE, FALSE), Body("stream", TRUE, FALSE)}

=============================================================================
