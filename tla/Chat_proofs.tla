---------------------------- MODULE Chat_proofs ----------------------------
(***************************************************************************)
(* Proofs about Chat, for any number of requests, sessions, chunks and     *)
(* turns.                                                                  *)
(*                                                                         *)
(* ChatInv is a statement about each request by itself, and the gauge.     *)
(* Every step of the service or of the route ends in one of four ways:     *)
(* the route awaits the service, replies, emits an event or closes the     *)
(* stream; only a cancelled /chat just ends.  There is one lemma for each, *)
(* and the actions are brought back to them; what an action does besides   *)
(* (the answer, the store's call) is Rest(r).                              *)
(*                                                                         *)
(* TurnsInv (what sessions hold) and MemoryInv (what prompts remember) are *)
(* about the store calls only.  For them every step is an arrival, a call, *)
(* an answer or a caller giving up, or an effect in the store.             *)
(* ConversationInv (whose turns a prompt is made of) joins the two views:  *)
(* how far the service got with a request, and what its calls have done.   *)
(***************************************************************************)
EXTENDS Chat, FiniteSetTheorems, SequenceTheorems, TLAPS

Calls == Requests \X {"get", "put"}

Phases == {"idle", "called", "applied", "ok", "error", "lost"}

Events == {"start", "token", "done", "error"}

-----------------------------------------------------------------------------
(* The inductive invariant behind the properties of requests.              *)

OpenStreams == {r \in Streams : route[r] \in {"next", "send"}}

(* What route, service and store agree on about one request.               *)
Stages(r) ==
  /\ input[r] = None <=> route[r] = "idle"
  /\ route[r] = "idle" => sent[r] = << >> /\ result[r] = None
  /\ route[r] = "send" => r \in Streams
  /\ svc[r] \in {"put", "tts"} => route[r] = "next" /\ text[r] # "empty"
  /\ svc[r] = "tts" => r \in Syncs /\ phase[PutCall(r)] = "ok"
  /\ r \in Syncs /\ route[r] = "next" => result[r] = None
  /\ observed[r] = IF route[r] = "closed" THEN 1 ELSE 0

(* An open stream has sent something, nothing terminal while it waits for  *)
(* the service, and its label is that of the last event.                   *)
OpenStream(r) ==
  r \in OpenStreams =>
    /\ sent[r] # << >>
    /\ route[r] = "next" => LastEvent(r) \in {"start", "token"}
    /\ LastEvent(r) = "error" => result[r] \in {"error", "timeout"}
    /\ LastEvent(r) # "error" => result[r] = "success"

ChatInv ==
  /\ TypeOK /\ IsFiniteSet(OpenStreams)
  /\ phase \in [Requests \X {"get", "put"} ->
                {"idle", "called", "applied", "ok", "error", "lost"}]
  /\ SSEProtocol /\ AcknowledgedIsStored /\ MetricsBalance /\ ResultAgrees
  /\ \A r \in Requests : Stages(r) /\ OpenStream(r)

-----------------------------------------------------------------------------
(* The inductive invariant behind WholeTurns, on top of ChatInv.           *)

Messages == Requests \X {"user", "assistant"}

Operations == [kind : {"get", "append"}, session : Sessions,
               msgs : Seq(Messages), max : Int \cup {None}]

Turns(h) ==
  \E m \in 0 .. AtLeastZero(MaxTurns) :
    /\ Len(h) = 2 * m
    /\ \A k \in 1 .. m : \E r \in Requests : /\ h[2*k-1] = UserMessage(r)
                                           /\ h[2*k] = AssistantMessage(r)

(* No message is there twice, but for those of the requests R.              *)
DistinctBut(h, R) ==
  \A i, j \in DOMAIN h : h[i] = h[j] => i = j \/ h[i][1] \in R

(* The requests whose append the store's client sent again.                *)
Twice == {q \in Requests : resent[PutCall(q)]}

(* The call that stores r's turn is what _store_turn made it, nothing is   *)
(* sent again before it is made, and until it takes effect no session      *)
(* holds a message of r.                                                   *)
TurnCall(r) ==
  phase[PutCall(r)] # "idle" =>
    /\ op[PutCall(r)].kind = "append" /\ op[PutCall(r)].session \in Sessions
    /\ op[PutCall(r)].msgs = <<UserMessage(r), AssistantMessage(r)>>
    /\ op[PutCall(r)].max = AtLeastZero(MaxTurns * 2)

CalledFirst(r) == r \in Twice => phase[PutCall(r)] # "idle"

NotStoredYet(r) ==
  phase[PutCall(r)] \in {"idle", "called", "lost"} /\ r \notin Twice =>
    \A s \in Sessions : \A i \in DOMAIN hist[s] : hist[s][i][1] # r

TurnsInv ==
  /\ hist \in [Sessions -> Seq(Messages)]
  /\ op \in [Requests \X {"get", "put"} -> Operations \cup {None}]
  /\ resent \in [Requests \X {"get", "put"} -> BOOLEAN]
  /\ \A s \in Sessions : Turns(hist[s]) /\ DistinctBut(hist[s], Twice)
  /\ \A r \in Requests : TurnCall(r) /\ CalledFirst(r) /\ NotStoredYet(r)

-----------------------------------------------------------------------------
(* The inductive invariant behind PromptRemembers, on top of TurnsInv.     *)

(* The store calls of r are about its session, and there are none before   *)
(* it arrives.  The turns owed to it were stored in that session.          *)
SessionCalls(r) ==
  /\ route[r] = "idle" =>
       prompt[r] = << >> /\ phase[GetCall(r)] = "idle" /\ phase[PutCall(r)] = "idle"
  /\ phase[GetCall(r)] # "idle" => op[GetCall(r)].session = input[r].session
  /\ phase[PutCall(r)] # "idle" => op[PutCall(r)].session = input[r].session
  /\ phase[PutCall(r)] \in {"applied", "ok"} =>
       \E i \in DOMAIN log[input[r].session] : log[input[r].session][i] = r
  /\ \A q \in owed[r] : /\ phase[PutCall(q)] = "ok" /\ route[q] # "idle"
                        /\ input[q].session = input[r].session

(* The n-th turn from the end of the log is the n-th from the end of the   *)
(* history.                                                                *)
TurnAt(h, k, q) ==
  k \in 2 .. Len(h) /\ h[k-1] = UserMessage(q) /\ h[k] = AssistantMessage(q)

LogStored(s) ==
  \A i \in DOMAIN log[s] :
    log[s][i] \notin faded =>
      /\ live[s]
      /\ Len(log[s]) - i < MaxTurns =>
           TurnAt(hist[s], Len(hist[s]) - 2 * (Len(log[s]) - i), log[s][i])

(* What get_history has read for r.                                        *)
HistoryKnown(r) ==
  phase[GetCall(r)] = "applied" =>
    /\ got[GetCall(r)] \in Seq(Messages)
    /\ Len(got[GetCall(r)]) <= AtLeastZero(2 * MaxTurns)
    /\ \A q \in owed[r] \ faded :
         HoldsTurn(got[GetCall(r)], q) \/ Superseded(q, input[r].session)

MemoryInv ==
  /\ live \in [Sessions -> BOOLEAN] /\ log \in [Sessions -> Seq(Requests)]
  /\ got \in [Requests \X {"get", "put"} -> Seq(Messages) \cup {None}]
  /\ prompt \in [Requests -> Seq(Messages)] /\ owed \in [Requests -> SUBSET Requests]
  /\ PromptRemembers
  /\ \A r \in Requests : SessionCalls(r) /\ HistoryKnown(r)
  /\ \A s \in Sessions : LogStored(s)

-----------------------------------------------------------------------------
(* The inductive invariant behind PromptIsConversation, on top of the      *)
(* others.                                                                 *)

(* The service asked for q's turn to be stored, in session s.              *)
Asked(q, s) == phase[PutCall(q)] # "idle" /\ input[q].session = s

(* A session holds only turns of its own requests.                         *)
OwnTurns(s) == \A i \in DOMAIN hist[s] : Asked(hist[s][i][1], s)

(* h is whole turns of other requests of r's session.                      *)
PastTurns(h, r) ==
  \E m \in 0 .. AtLeastZero(MaxTurns) :
    /\ Len(h) = 2 * m
    /\ \A k \in 1 .. m : \E q \in Requests \ {r} :
         /\ h[2*k-1] = UserMessage(q) /\ h[2*k] = AssistantMessage(q)
         /\ Asked(q, input[r].session)

(* The service reads the history, then asks the LLM, then stores the turn, *)
(* and only of a message and an answer that are there.                     *)
Progress(r) ==
  /\ svc[r] \in {"new", "start", "get", "llm", "token"} => phase[PutCall(r)] = "idle"
  /\ svc[r] \in {"get", "llm", "token"} => ~ input[r].blank
  /\ svc[r] \in {"llm", "token"} => phase[GetCall(r)] = "ok"
  /\ phase[PutCall(r)] # "idle" =>
       /\ phase[GetCall(r)] = "ok" /\ ~ input[r].blank
       /\ text[r] \notin {"empty", None}

HistoryRight(r) ==
  phase[GetCall(r)] = "applied" => PastTurns(got[GetCall(r)], r)

PromptRight(r) ==
  prompt[r] # << >> =>
    \E h \in Seq(Messages) : PastTurns(h, r) /\ prompt[r] = Append(h, UserMessage(r))

ConversationInv ==
  /\ \A s \in Sessions : OwnTurns(s)
  /\ \A r \in Requests : Progress(r) /\ HistoryRight(r) /\ PromptRight(r)

-----------------------------------------------------------------------------
(* Requests one by one.                                                    *)

(* What ChatInv says of one request.                                       *)
Sound(r) ==
  /\ Stages(r) /\ OpenStream(r)
  /\ r \in Streams => Protocol(sent[r])
  /\ Acknowledged(r) => phase[PutCall(r)] = "ok" /\ text[r] # "empty"
  /\ r \in Streams /\ route[r] = "closed" => result[r] \in LabelsFor(LastEvent(r))

(* A step leaves request q alone, and what its call returned.              *)
Same(q) ==
  /\ input'[q] = input[q] /\ svc'[q] = svc[q] /\ route'[q] = route[q]
  /\ text'[q] = text[q] /\ sent'[q] = sent[q]
  /\ result'[q] = result[q] /\ observed'[q] = observed[q]
  /\ phase[PutCall(q)] = "ok" => phase'[PutCall(q)] = "ok"

Parts ==
  /\ TypeOK /\ IsFiniteSet(OpenStreams) /\ phase \in [Calls -> Phases]
  /\ gauge = Cardinality(OpenStreams)
  /\ \A r \in Requests : Sound(r)

(* The invariant, grouped by request.                                      *)
LEMMA InvParts == ChatInv <=> Parts
<1>1. SSEProtocol <=> \A r \in Requests : r \in Streams => Protocol(sent[r])
  BY DEF SSEProtocol, Streams
<1>2. ResultAgrees <=> \A r \in Requests : r \in Streams /\ route[r] = "closed" =>
                         result[r] \in LabelsFor(LastEvent(r))
  BY DEF ResultAgrees, Streams
<1>3. MetricsBalance <=> /\ gauge = Cardinality(OpenStreams)
                         /\ \A r \in Requests :
                              observed[r] = IF route[r] = "closed" THEN 1 ELSE 0
  BY DEF MetricsBalance, OpenStreams
<1>4. (\A r \in Requests : Stages(r)) =>
        \A r \in Requests : observed[r] = IF route[r] = "closed" THEN 1 ELSE 0
  BY DEF Stages
<1> QED BY <1>1, <1>2, <1>3, <1>4 DEF ChatInv, Parts, Sound, AcknowledgedIsStored,
       Calls, Phases

(* The same of the next state.                                             *)
LEMMA InvPartsPrime == ChatInv' <=> Parts'
BY InvParts, PTL

(* ... which then stays as it should be.                                   *)
LEMMA OtherRequest ==
  ASSUME NEW q \in Requests, Sound(q), Same(q)
  PROVE  Sound(q)' /\ (q \in OpenStreams' <=> q \in OpenStreams)
<1>1. (q \in Streams)' <=> q \in Streams
  BY DEF Same, Streams
<1>2. (q \in Syncs)' <=> q \in Syncs
  BY DEF Same, Syncs
<1>3. (q \in OpenStreams)' <=> q \in OpenStreams
  BY <1>1 DEF Same, OpenStreams
<1>4. LastEvent(q)' = LastEvent(q)
  BY DEF Same, LastEvent
<1>5. Acknowledged(q)' <=> Acknowledged(q)
  BY <1>1, <1>2 DEF Same, Acknowledged
<1>6. Stages(q)' /\ OpenStream(q)'
  BY <1>1, <1>2, <1>3, <1>4 DEF Sound, Same, Stages, OpenStream
<1> QED BY <1>1, <1>3, <1>4, <1>5, <1>6 DEF Sound, Same

(* A step of request r.                                                    *)
LEMMA OneRequest ==
  ASSUME ChatInv, NEW r \in Requests,
         TypeOK', phase' \in [Calls -> Phases],
         \A q \in Requests : q # r => Same(q),
         gauge' = gauge + (IF r \in OpenStreams' THEN 1 ELSE 0)
                        - (IF r \in OpenStreams THEN 1 ELSE 0),
         Sound(r)'
  PROVE  ChatInv'
<1>1. /\ IsFiniteSet(OpenStreams) /\ gauge = Cardinality(OpenStreams)
      /\ \A q \in Requests : Sound(q)
  BY InvParts DEF Parts
<1>2. \A q \in Requests : Sound(q)'
  BY <1>1, OtherRequest
<1>3. \A q \in Requests : q # r => (q \in OpenStreams' <=> q \in OpenStreams)
  BY <1>1, OtherRequest
<1>4. OpenStreams \subseteq Requests /\ OpenStreams' \subseteq Requests
  BY DEF OpenStreams, Streams
<1>5. Cardinality(OpenStreams) \in Nat
  BY <1>1, FS_CardinalityType
<1>6. IsFiniteSet(OpenStreams') /\ gauge' = Cardinality(OpenStreams')
  <2>1. CASE r \in OpenStreams' /\ r \notin OpenStreams
    <3>1. OpenStreams' = OpenStreams \cup {r}
      BY <1>3, <1>4, <2>1
    <3> QED BY <1>1, <1>5, <2>1, <3>1, FS_AddElement
  <2>2. CASE r \notin OpenStreams' /\ r \in OpenStreams
    <3>1. OpenStreams' = OpenStreams \ {r}
      BY <1>3, <1>4, <2>2
    <3> QED BY <1>1, <1>5, <2>2, <3>1, FS_RemoveElement
  <2>3. CASE r \in OpenStreams' <=> r \in OpenStreams
    <3>1. OpenStreams' = OpenStreams
      BY <1>3, <1>4, <2>3
    <3> QED BY <1>1, <1>5, <2>3, <3>1
  <2> QED BY <2>1, <2>2, <2>3
<1> QED BY <1>2, <1>6, InvPartsPrime DEF Parts

-----------------------------------------------------------------------------
(* Events.                                                                 *)

(* While nothing terminal was sent, the client was told nothing.           *)
LEMMA NotYetDone ==
  ASSUME TypeOK, NEW r \in Requests, Protocol(sent[r]), sent[r] # << >>,
         LastEvent(r) \in {"start", "token"}
  PROVE  \A i \in DOMAIN sent[r] : sent[r][i] # "done"
<1>1. sent[r] \in Seq(Events) /\ LastEvent(r) = sent[r][Len(sent[r])]
  BY DEF TypeOK, Events, LastEvent
<1> QED BY <1>1 DEF Protocol

(* One more event keeps the protocol.                                      *)
LEMMA OneMoreEvent ==
  ASSUME TypeOK, NEW r \in Requests, Protocol(sent[r]), sent[r] # << >>,
         LastEvent(r) \in {"start", "token"},
         NEW event \in {"token", "done", "error"},
         sent'[r] = Append(sent[r], event)
  PROVE  /\ Protocol(sent'[r]) /\ sent'[r] # << >> /\ LastEvent(r)' = event
         /\ (\E i \in DOMAIN sent'[r] : sent'[r][i] = "done") <=> event = "done"
<1> DEFINE e == sent[r]
           n == Len(sent[r])
<1>1. e \in Seq(Events) /\ n \in Nat /\ n > 0 /\ LastEvent(r) = e[n]
  BY DEF TypeOK, Events, LastEvent
<1>2. /\ Len(sent'[r]) = n + 1 /\ sent'[r][n + 1] = event
      /\ \A i \in 1 .. n : sent'[r][i] = e[i]
      /\ DOMAIN sent'[r] = 1 .. n + 1 /\ sent'[r] # << >>
  BY <1>1
<1>3. LastEvent(r)' = event
  BY <1>2 DEF LastEvent
<1>4. \A i \in 1 .. n : e[i] = IF i = 1 THEN "start" ELSE "token"
  BY <1>1 DEF Protocol
<1>5. Protocol(sent'[r])
  BY <1>1, <1>2, <1>4 DEF Protocol
<1> QED BY <1>1, <1>2, <1>3, <1>4, <1>5

-----------------------------------------------------------------------------
(* The four ways a step of a request ends.                                 *)

(* A call of the store that returned stays returned.                       *)
OkStays ==
  /\ phase' \in [Calls -> Phases]
  /\ \A q \in Requests : phase[PutCall(q)] = "ok" => phase'[PutCall(q)] = "ok"

(* What a step does to the request's other state: it may set its answer.   *)
Rest(r) ==
  /\ input' = input
  /\ left' \in [Requests -> 0 .. MaxChunks]
  /\ connected' \in [Requests -> BOOLEAN] /\ expired' \in [Requests -> BOOLEAN]
  /\ text' \in [Requests -> {"ok", "blank", "empty", None}]
  /\ \A q \in Requests : q # r => text'[q] = text[q]
  /\ OkStays

(* A request that arrived is of one of the two kinds.                      *)
LEMMA StreamOrSync ==
  ASSUME ChatInv, NEW r \in Requests
  PROVE  /\ route[r] # "idle" => r \in Streams \/ r \in Syncs
         /\ ~ (r \in Streams /\ r \in Syncs)
BY InvParts DEF Parts, TypeOK, Sound, Stages, Streams, Syncs, Input

(* The service goes on to its next await.                                  *)
LEMMA AwaitInv ==
  ASSUME ChatInv, NEW r \in Requests, Rest(r),
         NEW at \in {"get", "llm", "put", "tts"}, Await(r, at),
         \/ route[r] = "next"
         \/ route[r] = "send" /\ LastEvent(r) \in {"start", "token"},
         at \in {"put", "tts"} => text'[r] # "empty",
         at = "tts" => r \in Syncs /\ phase'[PutCall(r)] = "ok"
  PROVE  ChatInv'
<1> USE DEF Parts
<1>0. Parts
  BY InvParts
<1>1. TypeOK'
  BY <1>0 DEF TypeOK, Rest, Await, metricVars
<1>2. \A q \in Requests : q # r => Same(q)
  BY <1>0 DEF TypeOK, Rest, OkStays, Await, metricVars, Same
<1>3. /\ svc'[r] = at /\ route'[r] = "next" /\ sent'[r] = sent[r]
      /\ result'[r] = result[r] /\ observed'[r] = observed[r] /\ input'[r] = input[r]
      /\ gauge' = gauge /\ LastEvent(r)' = LastEvent(r)
  BY <1>0 DEF TypeOK, Rest, Await, metricVars, LastEvent
<1>4. /\ (r \in Streams)' <=> r \in Streams
      /\ (r \in Syncs)' <=> r \in Syncs
      /\ (r \in OpenStreams)' <=> r \in OpenStreams
  BY <1>3 DEF Streams, Syncs, OpenStreams
<1>5. Stages(r)'
  BY <1>0, <1>3, <1>4, StreamOrSync DEF Sound, Stages, TypeOK
<1>6. OpenStream(r)'
  BY <1>0, <1>3, <1>4 DEF Sound, OpenStream
<1>7. ~ Acknowledged(r)'
  <2>1. r \in Streams => ~ \E i \in DOMAIN sent[r] : sent[r][i] = "done"
    BY <1>0, NotYetDone DEF Sound, OpenStream, OpenStreams
  <2>2. r \in Syncs => result[r] # "success"
    BY <1>0, StreamOrSync, NoneAssumption DEF Sound, Stages
  <2> QED BY <1>3, <1>4, <2>1, <2>2 DEF Acknowledged
<1>8. Sound(r)'
  BY <1>0, <1>3, <1>4, <1>5, <1>6, <1>7 DEF Sound
<1>9. /\ phase' \in [Calls -> Phases]
      /\ gauge' = gauge + (IF r \in OpenStreams' THEN 1 ELSE 0)
                       - (IF r \in OpenStreams THEN 1 ELSE 0)
  BY <1>0, <1>3, <1>4 DEF TypeOK, Rest, OkStays
<1> QED BY <1>1, <1>2, <1>8, <1>9, OneRequest

(* The sync route answers; a success has its turn stored.                  *)
LEMMA ReplyInv ==
  ASSUME ChatInv, NEW r \in Requests, Rest(r), r \in Syncs, route[r] = "next",
         NEW res \in {"success", "failure"}, Reply(r, res),
         res = "success" => phase'[PutCall(r)] = "ok" /\ text'[r] # "empty"
  PROVE  ChatInv'
<1> USE DEF Parts
<1>0. Parts
  BY InvParts
<1>1. TypeOK'
  BY <1>0 DEF TypeOK, Rest, Reply
<1>2. \A q \in Requests : q # r => Same(q)
  BY <1>0 DEF TypeOK, Rest, Reply, OkStays, Same
<1>3. /\ svc'[r] = "ended" /\ route'[r] = "closed" /\ sent'[r] = sent[r]
      /\ result'[r] = res /\ observed'[r] = observed[r] + 1 /\ input'[r] = input[r]
      /\ gauge' = gauge
  BY <1>0 DEF TypeOK, Rest, Reply
<1>4. r \notin Streams /\ (r \in Streams)' = FALSE /\ (r \in Syncs)'
  BY <1>3, StreamOrSync DEF Streams, Syncs
<1>5. Sound(r)'
  BY <1>0, <1>3, <1>4 DEF Sound, Stages, OpenStream, OpenStreams, Acknowledged, Syncs
<1>6. r \notin OpenStreams /\ ~ (r \in OpenStreams)'
  BY <1>4 DEF OpenStreams
<1>7. /\ phase' \in [Calls -> Phases]
      /\ gauge' = gauge + (IF r \in OpenStreams' THEN 1 ELSE 0)
                       - (IF r \in OpenStreams THEN 1 ELSE 0)
  BY <1>0, <1>3, <1>6 DEF TypeOK, Rest, OkStays
<1> QED BY <1>1, <1>2, <1>5, <1>7, OneRequest

(* The SSE generator ends, with the label its last event calls for.        *)
LEMMA CloseInv ==
  ASSUME ChatInv, NEW r \in Requests, Rest(r), r \in OpenStreams,
         NEW res, CloseStream(r, res), res \in LabelsFor(LastEvent(r)),
         sent' = sent, dropped' \subseteq Requests,
         text'[r] = text[r] \/ ~ Acknowledged(r)
  PROVE  ChatInv'
<1> USE DEF Parts
<1>0. Parts
  BY InvParts
<1>1. res \in {"success", "error", "timeout", "disconnect"}
  BY DEF LabelsFor
<1>2. IsFiniteSet(OpenStreams) /\ gauge = Cardinality(OpenStreams) /\ OpenStreams # {}
  BY <1>0
<1>3. gauge \in Nat /\ gauge # 0
  BY <1>2, FS_CardinalityType, FS_EmptySet
<1>4. TypeOK'
  BY <1>0, <1>1, <1>3 DEF TypeOK, Rest, CloseStream
<1>5. \A q \in Requests : q # r => Same(q)
  BY <1>0 DEF TypeOK, Rest, CloseStream, OkStays, Same
<1>6. /\ svc'[r] = "ended" /\ route'[r] = "closed" /\ sent'[r] = sent[r]
      /\ result'[r] = res /\ observed'[r] = observed[r] + 1 /\ input'[r] = input[r]
      /\ gauge' = gauge - 1 /\ LastEvent(r)' = LastEvent(r)
  BY <1>0 DEF TypeOK, Rest, CloseStream, LastEvent
<1>7. r \in Streams /\ (r \in Streams)' /\ ~ (r \in Syncs)' /\ ~ (r \in OpenStreams)'
  BY <1>6, StreamOrSync DEF Streams, Syncs, OpenStreams
<1>8. Acknowledged(r)' => Acknowledged(r)
  BY <1>6, <1>7 DEF Acknowledged
<1>9. Stages(r)' /\ OpenStream(r)'
  BY <1>0, <1>6, <1>7 DEF Sound, Stages, OpenStream, OpenStreams
<1>10. Sound(r)'
  BY <1>0, <1>6, <1>7, <1>8, <1>9 DEF Sound, Rest, OkStays
<1>11. /\ phase' \in [Calls -> Phases]
       /\ gauge' = gauge + (IF r \in OpenStreams' THEN 1 ELSE 0)
                        - (IF r \in OpenStreams THEN 1 ELSE 0)
  BY <1>3, <1>6, <1>7 DEF Rest, OkStays
<1> QED BY <1>4, <1>5, <1>10, <1>11, OneRequest

(* The SSE generator yields one more event.                                *)
LEMMA SendInv ==
  ASSUME ChatInv, NEW r \in Requests, Rest(r), r \in OpenStreams,
         LastEvent(r) \in {"start", "token"},
         NEW event \in {"token", "done", "error"},
         sent' = [sent EXCEPT ![r] = Append(@, event)],
         route' = [route EXCEPT ![r] = "send"],
         NEW at \in {"new", "start", "get", "llm", "token", "done", "error", "ended"},
         svc' = [svc EXCEPT ![r] = at],
         NEW res \in {"success", "error", "timeout"},
         result' = [result EXCEPT ![r] = res],
         event = "error" <=> res # "success",
         UNCHANGED <<observed, dropped, gauge>>,
         event = "done" => phase'[PutCall(r)] = "ok" /\ text'[r] # "empty"
  PROVE  ChatInv'
<1> USE DEF Parts
<1>0. Parts
  BY InvParts
<1>1. r \in Streams /\ Protocol(sent[r]) /\ sent[r] # << >>
  BY <1>0 DEF Sound, OpenStream, OpenStreams
<1>2. /\ svc'[r] = at /\ route'[r] = "send" /\ sent'[r] = Append(sent[r], event)
      /\ result'[r] = res /\ observed'[r] = observed[r] /\ input'[r] = input[r]
      /\ gauge' = gauge
  BY <1>0 DEF TypeOK, Rest, OkStays
<1>3. /\ Protocol(sent'[r]) /\ sent'[r] # << >> /\ LastEvent(r)' = event
      /\ (\E i \in DOMAIN sent'[r] : sent'[r][i] = "done") <=> event = "done"
  BY <1>0, <1>1, <1>2, OneMoreEvent
<1>4. TypeOK'
  <2>1. sent' \in [Requests -> Seq({"start", "token", "done", "error"})]
    BY <1>0 DEF TypeOK
  <2> QED BY <1>0, <2>1 DEF TypeOK, Rest, OkStays
<1>5. \A q \in Requests : q # r => Same(q)
  BY <1>0 DEF TypeOK, Rest, OkStays, Same
<1>6. (r \in Streams)' /\ ~ (r \in Syncs)' /\ (r \in OpenStreams)'
  BY <1>1, <1>2, StreamOrSync DEF Streams, Syncs, OpenStreams
<1>7. Acknowledged(r)' <=> event = "done"
  BY <1>3, <1>6 DEF Acknowledged
<1>8. Stages(r)'
  BY <1>0, <1>2, <1>6 DEF Sound, Stages, OpenStreams
<1>9. OpenStream(r)'
  BY <1>2, <1>3 DEF OpenStream
<1>10. Sound(r)'
  BY <1>2, <1>3, <1>6, <1>7, <1>8, <1>9 DEF Sound
<1>11. /\ phase' \in [Calls -> Phases]
       /\ gauge' = gauge + (IF r \in OpenStreams' THEN 1 ELSE 0)
                        - (IF r \in OpenStreams THEN 1 ELSE 0)
  BY <1>0, <1>2, <1>6 DEF TypeOK, Rest, OkStays
<1> QED BY <1>4, <1>5, <1>10, <1>11, OneRequest

(* An event of the service: the client gets it, or its absence is noticed. *)
LEMMA EmitInv ==
  ASSUME ChatInv, NEW r \in Requests, Rest(r), r \in OpenStreams,
         LastEvent(r) \in {"start", "token"},
         NEW event \in {"token", "done", "error"},
         NEW at \in {"token", "done", "error"}, Emit(r, event, at),
         event = "done" => phase'[PutCall(r)] = "ok" /\ text'[r] # "empty"
  PROVE  ChatInv'
<1>0. Parts
  BY InvParts
<1>1. /\ r \in Streams /\ Protocol(sent[r]) /\ sent[r] # << >>
      /\ result[r] = "success"
  BY <1>0 DEF Parts, Sound, OpenStream, OpenStreams
<1>2. CASE /\ CloseStream(r, "disconnect")
           /\ dropped' = dropped \cup {r} /\ UNCHANGED sent
  <2>1. ~ Acknowledged(r)
    BY <1>0, <1>1, NotYetDone, StreamOrSync DEF Parts, Acknowledged
  <2>2. dropped' \subseteq Requests /\ "disconnect" \in LabelsFor(LastEvent(r))
    BY <1>0, <1>2 DEF Parts, TypeOK, LabelsFor
  <2> QED BY <1>2, <2>1, <2>2, CloseInv
<1>3. CASE /\ sent' = [sent EXCEPT ![r] = Append(@, event)]
           /\ route' = [route EXCEPT ![r] = "send"]
           /\ svc' = [svc EXCEPT ![r] = at]
           /\ result' = IF event = "error" THEN [result EXCEPT ![r] = "error"] ELSE result
           /\ UNCHANGED <<observed, dropped, gauge>>
  <2> DEFINE res == IF event = "error" THEN "error" ELSE "success"
  <2>1. result' = [result EXCEPT ![r] = res]
    BY <1>0, <1>1, <1>3 DEF Parts, TypeOK
  <2>2. res \in {"success", "error", "timeout"} /\ (event = "error" <=> res # "success")
    OBVIOUS
  <2> HIDE DEF res
  <2> QED BY <1>3, <2>1, <2>2, SendInv
<1> QED BY <1>2, <1>3 DEF Emit

-----------------------------------------------------------------------------
(* The calls of the store.                                                 *)

(* A store call that was not answered moves on.                            *)
LEMMA PhaseSet ==
  ASSUME phase \in [Calls -> Phases], NEW r \in Requests,
         NEW c \in {GetCall(r), PutCall(r)}, phase[c] # "ok",
         NEW p \in Phases, phase' = [phase EXCEPT ![c] = p]
  PROVE  OkStays /\ phase'[c] = p
<1>1. c \in Calls /\ \A q \in Requests : PutCall(q) \in Calls
  BY DEF Calls, GetCall, PutCall
<1> QED BY <1>1 DEF OkStays

(* No step of a store call undoes one that was answered.                   *)
LEMMA StoreStep ==
  ASSUME phase \in [Calls -> Phases], NEW r \in Requests,
         NEW c \in {GetCall(r), PutCall(r)},
         \/ \E o : Store!Call(c, o)
         \/ Store!Return(c) \/ Store!Raise(c) \/ Store!Abandon(c)
         \/ Store!ApplyWrite(c) \/ Store!ApplyGet(c)
         \/ Store!Resend(c) \/ Store!ApplyAgain(c)
  PROVE  OkStays /\ (Store!Return(c) => phase'[c] = "ok")
<1> USE DEF Phases
<1>1. ASSUME NEW o, Store!Call(c, o) PROVE OkStays /\ phase[c] = "idle"
  BY <1>1, PhaseSet DEF Store!Call
<1>2. CASE Store!Return(c)
  BY <1>2, PhaseSet DEF Store!Return
<1>3. CASE Store!Raise(c)
  BY <1>3, PhaseSet DEF Store!Raise, Store!Return
<1>4. CASE Store!Abandon(c)
  BY <1>4, PhaseSet DEF Store!Abandon, Store!Return
<1>5. CASE Store!ApplyWrite(c) \/ Store!ApplyGet(c)
  <2>1. Store!Take(c)
    BY <1>5 DEF Store!ApplyWrite, Store!ApplyGet
  <2>2. \E p \in {"error", "applied"} : phase' = [phase EXCEPT ![c] = p]
    BY <2>1 DEF Store!Take
  <2>3. phase[c] \in {"called", "lost"}
    BY <2>1 DEF Store!Take
  <2> QED BY <2>2, <2>3, PhaseSet DEF Store!Return
<1>6. CASE Store!Resend(c)
  BY <1>6, PhaseSet DEF Store!Resend, Store!Return
<1>7. CASE Store!ApplyAgain(c)
  <2>1. phase' = phase
    BY <1>7 DEF Store!ApplyAgain
  <2> QED BY <1>2, <2>1 DEF OkStays
<1> QED BY <1>1, <1>2, <1>3, <1>4, <1>5, <1>6, <1>7 DEF Store!Return

(* The call of a cancelled service, if it has one.                         *)
LEMMA AbandonStep ==
  ASSUME phase \in [Calls -> Phases], NEW r \in Requests, AbandonCall(r)
  PROVE  OkStays
<1>1. CASE svc[r] = "get"
  BY <1>1, StoreStep DEF AbandonCall
<1>2. CASE svc[r] = "put"
  BY <1>2, StoreStep DEF AbandonCall
<1>3. CASE svc[r] \notin {"get", "put"}
  BY <1>3 DEF AbandonCall, storeVars, OkStays
<1> QED BY <1>1, <1>2, <1>3

(* Nor does a step that leaves the store alone.                            *)
LEMMA NoStoreStep ==
  ASSUME phase \in [Calls -> Phases], NEW r \in Requests, UNCHANGED storeVars
  PROVE  OkStays
BY DEF storeVars, OkStays

(* The usual rest of a step.                                               *)
LEMMA RestOf ==
  ASSUME TypeOK, NEW r \in Requests, OkStays, UNCHANGED <<input, connected, expired>>,
         left' \in [Requests -> 0 .. MaxChunks],
         text' = text \/ \E t \in Answers : text' = [text EXCEPT ![r] = t]
  PROVE  Rest(r)
<1>1. /\ text' \in [Requests -> {"ok", "blank", "empty", None}]
      /\ \A q \in Requests : q # r => text'[q] = text[q]
  <2>1. CASE text' = text
    BY <2>1 DEF TypeOK
  <2>2. ASSUME NEW t \in Answers, text' = [text EXCEPT ![r] = t]
        PROVE  /\ text' \in [Requests -> {"ok", "blank", "empty", None}]
               /\ \A q \in Requests : q # r => text'[q] = text[q]
    BY <2>2, ChatAssumption DEF TypeOK
  <2> QED BY <2>1, <2>2
<1> QED BY <1>1 DEF TypeOK, Rest

-----------------------------------------------------------------------------
(* The actions.                                                            *)

(* A stream that waits for its service, or goes on after start or a token. *)
GoesOn(r) ==
  \/ route[r] = "next"
  \/ route[r] = "send" /\ LastEvent(r) \in {"start", "token"}

(* A request that goes on is not over.                                     *)
LEMMA GoesOnOpen ==
  ASSUME ChatInv, NEW r \in Requests, GoesOn(r)
  PROVE  /\ r \in Syncs => route[r] = "next" /\ r \notin Streams
         /\ r \in Streams => r \in OpenStreams /\ LastEvent(r) \in {"start", "token"}
         /\ r \in Syncs \/ r \in Streams
<1>1. Sound(r)
  BY InvParts DEF Parts
<1> QED BY <1>1, StreamOrSync DEF GoesOn, Sound, Stages, OpenStream, OpenStreams

(* An error of the service: a failure, or an error event.                  *)
LEMMA RaiseInv ==
  ASSUME ChatInv, NEW r \in Requests, Rest(r), GoesOn(r), Raise(r)
  PROVE  ChatInv'
<1>1. CASE r \in Syncs /\ Reply(r, "failure")
  BY <1>1, GoesOnOpen, ReplyInv
<1>2. CASE r \in Streams /\ Emit(r, "error", "error")
  BY <1>2, GoesOnOpen, EmitInv
<1> QED BY <1>1, <1>2 DEF Raise

(* HistoryRead, HistoryFailed, LLMFailed.                                  *)
LEMMA HistoryInv ==
  ASSUME ChatInv, NEW r \in Requests, HistoryRead(r) \/ HistoryFailed(r) \/ LLMFailed(r)
  PROVE  ChatInv'
<1>0. TypeOK /\ phase \in [Calls -> Phases]
  BY InvParts DEF Parts
<1>1. GoesOn(r)
  BY DEF HistoryRead, HistoryFailed, LLMFailed, Running, GoesOn
<1>2. OkStays
  <2>1. CASE HistoryRead(r)
    BY <1>0, <2>1, StoreStep DEF HistoryRead
  <2>2. CASE HistoryFailed(r)
    BY <1>0, <2>2, StoreStep DEF HistoryFailed
  <2>3. CASE LLMFailed(r)
    BY <1>0, <2>3, NoStoreStep DEF LLMFailed
  <2> QED BY <2>1, <2>2, <2>3
<1>3. Rest(r)
  <2>1. UNCHANGED <<input, connected, expired, left, text>>
    BY DEF HistoryRead, HistoryFailed, LLMFailed
  <2> QED BY <1>0, <1>2, <2>1, RestOf DEF TypeOK
<1>4. CASE HistoryRead(r)
  BY <1>1, <1>3, <1>4, AwaitInv DEF HistoryRead, GoesOn
<1>5. CASE HistoryFailed(r) \/ LLMFailed(r)
  BY <1>1, <1>3, <1>5, RaiseInv DEF HistoryFailed, LLMFailed
<1> QED BY <1>4, <1>5

(* generate answers a sync request.                                        *)
LEMMA LLMAnsweredInv ==
  ASSUME ChatInv, NEW r \in Requests, NEW t \in Answers, LLMAnswered(r, t)
  PROVE  ChatInv'
<1>0. TypeOK /\ phase \in [Calls -> Phases]
  BY InvParts DEF Parts
<1>1. GoesOn(r) /\ text'[r] = t
  BY <1>0 DEF LLMAnswered, Running, GoesOn, TypeOK
<1>2. OkStays
  BY <1>0, StoreStep, NoStoreStep DEF LLMAnswered, CallStoreTurn
<1>3. Rest(r)
  <2>1. /\ UNCHANGED <<input, connected, expired, left>>
        /\ text' = [text EXCEPT ![r] = t]
    BY DEF LLMAnswered
  <2> QED BY <1>0, <1>2, <2>1, RestOf DEF TypeOK
<1>4. CASE t = "empty" /\ Raise(r)
  BY <1>1, <1>3, <1>4, RaiseInv
<1>5. CASE t # "empty" /\ Await(r, "put")
  BY <1>1, <1>3, <1>5, AwaitInv DEF GoesOn
<1> QED BY <1>4, <1>5 DEF LLMAnswered

(* generate_stream yields its first chunk, or ends.                        *)
LEMMA LLMStreamsInv ==
  ASSUME ChatInv, NEW r \in Requests, NEW t \in Answers, NEW n \in 0 .. MaxChunks,
         LLMStreams(r, t, n)
  PROVE  ChatInv'
<1>0. TypeOK /\ phase \in [Calls -> Phases]
  BY InvParts DEF Parts
<1>1. GoesOn(r) /\ r \in Streams
  BY DEF LLMStreams, Running, GoesOn
<1>2. OkStays
  BY <1>0, NoStoreStep DEF LLMStreams
<1>3. left' \in [Requests -> 0 .. MaxChunks]
  <2>1. left' = left \/ (n > 0 /\ left' = [left EXCEPT ![r] = n - 1])
    BY DEF LLMStreams
  <2>2. n > 0 => n - 1 \in 0 .. MaxChunks
    BY ChatAssumption
  <2>3. left \in [Requests -> 0 .. MaxChunks]
    BY <1>0 DEF TypeOK
  <2> QED BY <2>1, <2>2, <2>3
<1>4. Rest(r)
  <2>1. UNCHANGED <<input, connected, expired>> /\ text' = [text EXCEPT ![r] = t]
    BY DEF LLMStreams
  <2> QED BY <1>0, <1>2, <1>3, <2>1, RestOf
<1>5. CASE Raise(r)
  BY <1>1, <1>4, <1>5, RaiseInv
<1>6. CASE Emit(r, "token", "token")
  BY <1>1, <1>4, <1>6, GoesOnOpen, EmitInv
<1> QED BY <1>5, <1>6 DEF LLMStreams

(* append_messages returns or raises.                                      *)
LEMMA TurnInv ==
  ASSUME ChatInv, NEW r \in Requests, TurnStored(r) \/ TurnNotStored(r)
  PROVE  ChatInv'
<1>0. TypeOK /\ phase \in [Calls -> Phases] /\ Sound(r)
  BY InvParts DEF Parts
<1>1. GoesOn(r) /\ svc[r] = "put" /\ UNCHANGED <<input, connected, expired, left, text>>
  BY DEF TurnStored, TurnNotStored, Running, GoesOn
<1>2. OkStays /\ (TurnStored(r) => phase'[PutCall(r)] = "ok")
  <2>1. CASE TurnStored(r)
    BY <1>0, <2>1, StoreStep DEF TurnStored
  <2>2. CASE TurnNotStored(r) /\ ~ TurnStored(r)
    BY <1>0, <2>2, StoreStep DEF TurnNotStored
  <2> QED BY <2>1, <2>2
<1>3. Rest(r)
  BY <1>0, <1>1, <1>2, RestOf DEF TypeOK
<1>4. text'[r] # "empty"
  BY <1>0, <1>1 DEF Sound, Stages
<1>5. CASE TurnStored(r)
  <2>1. CASE r \in Streams /\ Emit(r, "done", "done")
    BY <1>1, <1>2, <1>3, <1>4, <1>5, <2>1, GoesOnOpen, EmitInv
  <2>2. CASE r \in Syncs /\ Await(r, "tts")
    BY <1>1, <1>2, <1>3, <1>4, <1>5, <2>2, AwaitInv DEF GoesOn
  <2>3. CASE r \in Syncs /\ Reply(r, "success")
    BY <1>1, <1>2, <1>3, <1>4, <1>5, <2>3, GoesOnOpen, ReplyInv
  <2> QED BY <1>5, <2>1, <2>2, <2>3 DEF TurnStored
<1>6. CASE TurnNotStored(r)
  BY <1>1, <1>3, <1>6, RaiseInv DEF TurnNotStored
<1> QED BY <1>5, <1>6

(* The TTS provider answers or fails.                                      *)
LEMMA SynthesizedInv ==
  ASSUME ChatInv, NEW r \in Requests, NEW res \in {"success", "failure"},
         Synthesized(r, res)
  PROVE  ChatInv'
<1>0. TypeOK /\ phase \in [Calls -> Phases] /\ Sound(r)
  BY InvParts DEF Parts
<1>1. /\ route[r] = "next" /\ svc[r] = "tts" /\ Reply(r, res)
      /\ UNCHANGED <<input, connected, expired, left, text>> /\ UNCHANGED storeVars
  BY DEF Synthesized, Running
<1>2. Rest(r)
  BY <1>0, <1>1, NoStoreStep, RestOf DEF TypeOK
<1>3. r \in Syncs /\ phase'[PutCall(r)] = "ok" /\ text'[r] # "empty"
  BY <1>0, <1>1 DEF Sound, Stages, storeVars
<1> QED BY <1>1, <1>2, <1>3, ReplyInv

(* The loop of event_generator, and the end of its patience.               *)
LEMMA ResumeEndInv ==
  ASSUME ChatInv, NEW r \in Requests, ResumeEnd(r) \/ CancelSending(r)
  PROVE  ChatInv'
<1>0. TypeOK /\ phase \in [Calls -> Phases] /\ Sound(r)
  BY InvParts DEF Parts
<1>1. /\ route[r] = "send" /\ CloseStream(r, result[r])
      /\ UNCHANGED <<input, connected, expired, left, text, sent, dropped>>
      /\ UNCHANGED storeVars
  BY DEF ResumeEnd, CancelSending
<1>2. Rest(r)
  BY <1>0, <1>1, NoStoreStep, RestOf DEF TypeOK
<1>3. r \in OpenStreams /\ result[r] \in LabelsFor(LastEvent(r))
  BY <1>0, <1>1 DEF Sound, Stages, OpenStream, OpenStreams, LabelsFor
<1>4. dropped' \subseteq Requests /\ text'[r] = text[r]
  BY <1>0, <1>1 DEF TypeOK
<1> QED BY <1>1, <1>2, <1>3, <1>4, CloseInv

(* The total timeout is found at the top of the loop.                      *)
LEMMA ResumeTimeoutInv ==
  ASSUME ChatInv, NEW r \in Requests, ResumeTimeout(r)
  PROVE  ChatInv'
<1>0. TypeOK /\ phase \in [Calls -> Phases] /\ Sound(r)
  BY InvParts DEF Parts
<1>1. /\ GoesOn(r) /\ route[r] = "send"
      /\ UNCHANGED <<input, connected, expired, left, text>> /\ UNCHANGED storeVars
  BY DEF ResumeTimeout, GoesOn
<1>2. Rest(r)
  BY <1>0, <1>1, NoStoreStep, RestOf DEF TypeOK
<1>3. r \in OpenStreams /\ LastEvent(r) \in {"start", "token"}
  BY <1>0, <1>1, GoesOnOpen DEF Sound, Stages
<1>4. svc[r] \in {"new", "start", "get", "llm", "token", "done", "error", "ended"}
  BY <1>0, <1>1 DEF TypeOK, Sound, Stages
<1>5. /\ sent' = [sent EXCEPT ![r] = Append(@, "error")]
      /\ route' = [route EXCEPT ![r] = "send"] /\ svc' = [svc EXCEPT ![r] = svc[r]]
      /\ result' = [result EXCEPT ![r] = "timeout"]
      /\ UNCHANGED <<observed, dropped, gauge>>
  BY <1>0 DEF TypeOK, ResumeTimeout
<1> QED BY <1>2, <1>3, <1>4, <1>5, SendInv

(* The generator goes on after the start event.                            *)
LEMMA ResumeStartInv ==
  ASSUME ChatInv, NEW r \in Requests, ResumeStart(r)
  PROVE  ChatInv'
<1>0. TypeOK /\ phase \in [Calls -> Phases]
  BY InvParts DEF Parts
<1>1. GoesOn(r) /\ UNCHANGED <<input, connected, expired, left, text>>
  BY DEF ResumeStart, GoesOn
<1>2. OkStays
  BY <1>0, StoreStep, NoStoreStep DEF ResumeStart, CallGetHistory
<1>3. Rest(r)
  BY <1>0, <1>1, <1>2, RestOf DEF TypeOK
<1>4. CASE Raise(r)
  BY <1>1, <1>3, <1>4, RaiseInv
<1>5. CASE Await(r, "get")
  BY <1>1, <1>3, <1>5, AwaitInv DEF GoesOn
<1> QED BY <1>4, <1>5 DEF ResumeStart

(* It goes on after a token.                                               *)
LEMMA ResumeTokenInv ==
  ASSUME ChatInv, NEW r \in Requests, ResumeToken(r)
  PROVE  ChatInv'
<1>0. TypeOK /\ phase \in [Calls -> Phases] /\ Sound(r)
  BY InvParts DEF Parts
<1>1. /\ GoesOn(r) /\ route[r] = "send"
      /\ UNCHANGED <<input, connected, expired, text>>
  BY DEF ResumeToken, GoesOn
<1>2. OkStays
  BY <1>0, StoreStep, NoStoreStep DEF ResumeToken, CallStoreTurn
<1>3. left' \in [Requests -> 0 .. MaxChunks]
  <2>1. left' = left \/ (left[r] > 0 /\ left' = [left EXCEPT ![r] = @ - 1])
    BY DEF ResumeToken
  <2>2. left \in [Requests -> 0 .. MaxChunks]
    BY <1>0 DEF TypeOK
  <2>3. left[r] > 0 => left[r] - 1 \in 0 .. MaxChunks
    BY <2>2, ChatAssumption
  <2> QED BY <2>1, <2>2, <2>3
<1>4. Rest(r)
  BY <1>0, <1>1, <1>2, <1>3, RestOf
<1>5. r \in Streams
  BY <1>0, <1>1 DEF Sound, Stages
<1>6. CASE Emit(r, "token", "token")
  BY <1>1, <1>4, <1>5, <1>6, GoesOnOpen, EmitInv
<1>7. CASE Raise(r)
  BY <1>1, <1>4, <1>7, RaiseInv
<1>8. CASE text[r] = "ok" /\ Await(r, "put")
  BY <1>1, <1>4, <1>8, AwaitInv DEF GoesOn
<1> QED BY <1>6, <1>7, <1>8 DEF ResumeToken

(* wait_for gives up.                                                      *)
LEMMA WaitTimeoutInv ==
  ASSUME ChatInv, NEW r \in Requests, WaitTimeout(r)
  PROVE  ChatInv'
<1>0. TypeOK /\ phase \in [Calls -> Phases]
  BY InvParts DEF Parts
<1>1. /\ GoesOn(r) /\ r \in Streams /\ AbandonCall(r)
      /\ UNCHANGED <<input, connected, expired, left, text>>
      /\ UNCHANGED <<observed, dropped, gauge>>
      /\ result' = [result EXCEPT ![r] = "timeout"]
      /\ sent' = [sent EXCEPT ![r] = Append(@, "error")]
      /\ svc' = [svc EXCEPT ![r] = "ended"]
      /\ route' = [route EXCEPT ![r] = "send"]
  BY DEF WaitTimeout, GoesOn
<1>2. Rest(r)
  BY <1>0, <1>1, AbandonStep, RestOf DEF TypeOK
<1> QED BY <1>1, <1>2, GoesOnOpen, SendInv

(* The task is cancelled at an await.                                      *)
LEMMA CancelWaitingInv ==
  ASSUME ChatInv, NEW r \in Requests, CancelWaiting(r)
  PROVE  ChatInv'
<1>0. TypeOK /\ phase \in [Calls -> Phases]
  BY InvParts DEF Parts
<1>1. /\ GoesOn(r) /\ r \in Streams /\ AbandonCall(r)
      /\ UNCHANGED <<input, connected, expired, left, text, sent>>
      /\ CloseStream(r, "disconnect") /\ dropped' = dropped \cup {r}
  BY DEF CancelWaiting, GoesOn
<1>2. Rest(r)
  BY <1>0, <1>1, AbandonStep, RestOf DEF TypeOK
<1>3. r \in OpenStreams /\ "disconnect" \in LabelsFor(LastEvent(r))
  BY <1>1, GoesOnOpen DEF LabelsFor
<1>4. dropped' \subseteq Requests /\ text'[r] = text[r]
  BY <1>0, <1>1 DEF TypeOK
<1> QED BY <1>1, <1>2, <1>3, <1>4, CloseInv

(* A /chat is cancelled: it ends, and nothing is counted.                  *)
LEMMA CancelChatInv ==
  ASSUME ChatInv, NEW r \in Requests, CancelChat(r)
  PROVE  ChatInv'
<1> USE DEF Parts
<1>0. Parts
  BY InvParts
<1>1. /\ r \in Syncs /\ route[r] = "next" /\ AbandonCall(r)
      /\ UNCHANGED <<input, connected, expired, left, text, sent, metricVars>>
      /\ svc' = [svc EXCEPT ![r] = "ended"]
      /\ route' = [route EXCEPT ![r] = "cancelled"]
  BY DEF CancelChat
<1>2. Rest(r)
  BY <1>0, <1>1, AbandonStep, RestOf DEF TypeOK
<1>3. TypeOK'
  BY <1>0, <1>1 DEF TypeOK, metricVars
<1>4. \A q \in Requests : q # r => Same(q)
  BY <1>0, <1>1, <1>2 DEF TypeOK, Rest, OkStays, Same, metricVars
<1>5. /\ svc'[r] = "ended" /\ route'[r] = "cancelled" /\ sent'[r] = sent[r]
      /\ result'[r] = result[r] /\ observed'[r] = observed[r] /\ input'[r] = input[r]
      /\ gauge' = gauge
  BY <1>0, <1>1 DEF TypeOK, metricVars
<1>6. r \notin Streams /\ (r \in Streams)' = FALSE /\ (r \in Syncs)'
  BY <1>1, <1>5, StreamOrSync DEF Streams, Syncs
<1>7. result[r] = None /\ observed[r] = 0
  BY <1>0, <1>1 DEF Sound, Stages
<1>8. Sound(r)'
  BY <1>0, <1>1, <1>5, <1>6, <1>7, NoneAssumption
     DEF Sound, Stages, OpenStream, OpenStreams, Acknowledged, Syncs
<1>9. r \notin OpenStreams /\ ~ (r \in OpenStreams)'
  BY <1>6 DEF OpenStreams
<1>10. /\ phase' \in [Calls -> Phases]
       /\ gauge' = gauge + (IF r \in OpenStreams' THEN 1 ELSE 0)
                        - (IF r \in OpenStreams THEN 1 ELSE 0)
  BY <1>0, <1>2, <1>5, <1>9 DEF TypeOK, Rest, OkStays
<1> QED BY <1>3, <1>4, <1>8, <1>10, OneRequest

(* What an arrival finds, and what it makes of the request.                *)
LEMMA ArrivalFinds ==
  ASSUME ChatInv, NEW r \in Requests, NEW i \in Inputs, Accept(r, i)
  PROVE  /\ TypeOK /\ phase \in [Calls -> Phases] /\ gauge \in Nat
         /\ i \in Input /\ i # None /\ input'[r] = i
         /\ input' \in [Requests -> Input \cup {None}]
         /\ \A q \in Requests : q # r => input'[q] = input[q]
         /\ sent[r] = << >> /\ result[r] = None /\ observed[r] = 0
         /\ r \notin OpenStreams
         /\ (r \in Streams)' <=> i.kind = "stream"
         /\ (r \in Syncs)' <=> i.kind = "chat"
<1>1. TypeOK /\ phase \in [Calls -> Phases] /\ Sound(r)
  BY InvParts DEF Parts
<1>2. i \in Input /\ i # None
  BY InputsAssumption, NoneAssumption
<1>3. /\ input'[r] = i /\ input' \in [Requests -> Input \cup {None}]
      /\ \A q \in Requests : q # r => input'[q] = input[q]
  BY <1>1, <1>2 DEF Accept, TypeOK
<1>4. sent[r] = << >> /\ result[r] = None /\ observed[r] = 0 /\ route[r] = "idle"
  BY <1>1 DEF Accept, Sound, Stages
<1>5. /\ r \notin OpenStreams
      /\ (r \in Streams)' <=> i.kind = "stream"
      /\ (r \in Syncs)' <=> i.kind = "chat"
  BY <1>2, <1>3, <1>4 DEF OpenStreams, Streams, Syncs
<1> QED BY <1>1, <1>2, <1>3, <1>4, <1>5 DEF TypeOK

(* A sync request arrives.                                                 *)
LEMMA ArriveChatInv ==
  ASSUME ChatInv, NEW r \in Requests, NEW i \in Inputs, ArriveChat(r, i)
  PROVE  ChatInv'
<1>1. Accept(r, i) /\ i.kind = "chat" /\ UNCHANGED <<left, text, prompt, connected, expired>>
  BY DEF ArriveChat
<1>2. /\ TypeOK /\ phase \in [Calls -> Phases] /\ gauge \in Nat
      /\ input'[r] # None
      /\ input' \in [Requests -> Input \cup {None}]
      /\ \A q \in Requests : q # r => input'[q] = input[q]
      /\ sent[r] = << >> /\ result[r] = None /\ observed[r] = 0
      /\ r \notin OpenStreams /\ ~ (r \in Streams)' /\ (r \in Syncs)'
  BY <1>1, ArrivalFinds
<1>3. OkStays
  BY <1>2, StoreStep, NoStoreStep DEF ArriveChat, CallGetHistory
<1>4. ~ (r \in OpenStreams)'
  BY <1>2 DEF OpenStreams
<1>5. CASE Reply(r, "failure")
  <2>1. TypeOK'
    BY <1>1, <1>2, <1>5 DEF TypeOK, Reply
  <2>2. \A q \in Requests : q # r => Same(q)
    BY <1>1, <1>2, <1>3, <1>5 DEF TypeOK, Reply, Same, OkStays
  <2>3. /\ svc'[r] = "ended" /\ route'[r] = "closed" /\ result'[r] = "failure"
        /\ observed'[r] = 1 /\ gauge' = gauge
    BY <1>2, <1>5 DEF TypeOK, Reply
  <2>4. Sound(r)'
    BY <1>2, <1>4, <2>3 DEF Sound, Stages, OpenStream, Acknowledged
  <2>5. gauge' = gauge + (IF r \in OpenStreams' THEN 1 ELSE 0)
                       - (IF r \in OpenStreams THEN 1 ELSE 0)
    BY <1>2, <1>4, <2>3
  <2> QED BY <1>3, <2>1, <2>2, <2>4, <2>5, OneRequest DEF OkStays
<1>6. CASE Await(r, "get")
  <2>1. TypeOK'
    BY <1>1, <1>2, <1>6 DEF TypeOK, Await, metricVars
  <2>2. \A q \in Requests : q # r => Same(q)
    BY <1>1, <1>2, <1>3, <1>6 DEF TypeOK, Await, metricVars, Same, OkStays
  <2>3. /\ svc'[r] = "get" /\ route'[r] = "next" /\ result'[r] = None
        /\ observed'[r] = 0 /\ gauge' = gauge
    BY <1>2, <1>6 DEF TypeOK, Await, metricVars
  <2>4. Sound(r)'
    BY <1>2, <1>4, <2>3, NoneAssumption DEF Sound, Stages, OpenStream, Acknowledged
  <2>5. gauge' = gauge + (IF r \in OpenStreams' THEN 1 ELSE 0)
                       - (IF r \in OpenStreams THEN 1 ELSE 0)
    BY <1>2, <1>4, <2>3
  <2> QED BY <1>3, <2>1, <2>2, <2>4, <2>5, OneRequest DEF OkStays
<1> QED BY <1>5, <1>6 DEF ArriveChat

(* A streaming request arrives, its client there or gone.                  *)
LEMMA ArriveStreamInv ==
  ASSUME ChatInv, NEW r \in Requests, NEW i \in Inputs,
         ArriveStream(r, i) \/ ArriveGone(r, i)
  PROVE  ChatInv'
<1>1. Accept(r, i) /\ i.kind = "stream" /\ UNCHANGED <<left, text, prompt, expired, storeVars>>
  BY DEF ArriveStream, ArriveGone
<1>2. /\ TypeOK /\ phase \in [Calls -> Phases] /\ gauge \in Nat
      /\ input'[r] # None
      /\ input' \in [Requests -> Input \cup {None}]
      /\ \A q \in Requests : q # r => input'[q] = input[q]
      /\ sent[r] = << >> /\ result[r] = None /\ observed[r] = 0
      /\ r \notin OpenStreams /\ (r \in Streams)' /\ ~ (r \in Syncs)'
  BY <1>1, ArrivalFinds
<1>3. phase' \in [Calls -> Phases] /\ phase' = phase
  BY <1>1, <1>2 DEF storeVars
<1>4. CASE ArriveStream(r, i)
  <2>1. <<"start">> \in Seq({"start", "token", "done", "error"})
    OBVIOUS
  <2>2. sent' \in [Requests -> Seq({"start", "token", "done", "error"})]
    BY <1>2, <1>4, <2>1 DEF TypeOK, ArriveStream
  <2>3. TypeOK'
    BY <1>1, <1>2, <1>4, <2>2 DEF TypeOK, ArriveStream
  <2>4. \A q \in Requests : q # r => Same(q)
    BY <1>1, <1>2, <1>3, <1>4 DEF TypeOK, ArriveStream, Same
  <2>5. /\ svc'[r] = "start" /\ route'[r] = "send" /\ result'[r] = "success"
        /\ observed'[r] = 0 /\ gauge' = gauge + 1 /\ sent'[r] = <<"start">>
    BY <1>2, <1>4 DEF TypeOK, ArriveStream
  <2>6. (r \in OpenStreams)'
    BY <1>2, <2>5 DEF OpenStreams
  <2>7. /\ Protocol(sent'[r]) /\ LastEvent(r)' = "start" /\ sent'[r] # << >>
        /\ \A k \in DOMAIN sent'[r] : sent'[r][k] # "done"
    BY <2>5 DEF Protocol, LastEvent
  <2>8. Sound(r)'
    BY <1>2, <2>5, <2>6, <2>7 DEF Sound, Stages, OpenStream, Acknowledged
  <2>9. gauge' = gauge + (IF r \in OpenStreams' THEN 1 ELSE 0)
                       - (IF r \in OpenStreams THEN 1 ELSE 0)
    BY <1>2, <2>5, <2>6
  <2> QED BY <1>3, <2>3, <2>4, <2>8, <2>9, OneRequest
<1>5. CASE ArriveGone(r, i)
  <2>1. TypeOK'
    BY <1>1, <1>2, <1>5 DEF TypeOK, ArriveGone
  <2>2. \A q \in Requests : q # r => Same(q)
    BY <1>1, <1>2, <1>3, <1>5 DEF TypeOK, ArriveGone, Same
  <2>3. /\ svc'[r] = "ended" /\ route'[r] = "closed" /\ result'[r] = "disconnect"
        /\ observed'[r] = 1 /\ gauge' = gauge /\ sent'[r] = << >>
    BY <1>2, <1>5 DEF TypeOK, ArriveGone
  <2>4. ~ (r \in OpenStreams)'
    BY <2>3 DEF OpenStreams
  <2>5. /\ Protocol(sent'[r]) /\ LastEvent(r)' = None
        /\ \A k \in DOMAIN sent'[r] : sent'[r][k] # "done"
    BY <2>3 DEF Protocol, LastEvent
  <2>6. "disconnect" \in LabelsFor(None)
    BY NoneAssumption DEF LabelsFor
  <2>7. Sound(r)'
    BY <1>2, <2>3, <2>4, <2>5, <2>6 DEF Sound, Stages, OpenStream, Acknowledged
  <2>8. gauge' = gauge + (IF r \in OpenStreams' THEN 1 ELSE 0)
                       - (IF r \in OpenStreams THEN 1 ELSE 0)
    BY <1>2, <2>3, <2>4
  <2> QED BY <1>3, <2>1, <2>2, <2>7, <2>8, OneRequest
<1> QED BY <1>4, <1>5

(* The environment: no request moves.                                      *)
LEMMA NobodyMoves ==
  ASSUME ChatInv, OkStays, UNCHANGED <<input, svc, route, left, text, sent, metricVars>>,
         connected' \in [Requests -> BOOLEAN], expired' \in [Requests -> BOOLEAN]
  PROVE  ChatInv'
<1>1. Parts
  BY InvParts
<1>2. TypeOK'
  BY <1>1 DEF Parts, TypeOK, metricVars
<1>3. \A q \in Requests : Sound(q)'
  BY <1>1, OtherRequest DEF Parts, OkStays, Same, metricVars
<1>4. OpenStreams' = OpenStreams
  BY DEF OpenStreams, Streams
<1> QED BY <1>1, <1>2, <1>3, <1>4, InvPartsPrime DEF Parts, OkStays, metricVars

(* Time, clients leaving, the store's own steps and expiry.                *)
LEMMA EnvironmentInv ==
  ASSUME ChatInv,
         \/ \E r \in Requests : \/ TimePasses(r) \/ ClientLeaves(r)
                                \/ StoreReads(r) \/ StoreAppends(r)
                                \/ StoreResends(r) \/ StoreAppendsAgain(r)
         \/ \E s \in Sessions : SessionExpires(s)
         \/ UNCHANGED vars
  PROVE  ChatInv'
<1>0. TypeOK /\ phase \in [Calls -> Phases]
  BY InvParts DEF Parts
<1>1. ASSUME NEW r \in Requests, TimePasses(r) PROVE ChatInv'
  BY <1>0, <1>1, NoStoreStep, NobodyMoves DEF TypeOK, TimePasses
<1>2. ASSUME NEW r \in Requests, ClientLeaves(r) PROVE ChatInv'
  BY <1>0, <1>2, NoStoreStep, NobodyMoves DEF TypeOK, ClientLeaves
<1>3. ASSUME NEW r \in Requests, \/ StoreReads(r) \/ StoreAppends(r)
                                 \/ StoreResends(r) \/ StoreAppendsAgain(r)
      PROVE  ChatInv'
  <2>1. OkStays
    BY <1>0, <1>3, StoreStep DEF StoreReads, StoreAppends, StoreResends, StoreAppendsAgain
  <2>2. RequestsUnchanged
    BY <1>3 DEF StoreReads, StoreAppends, StoreResends, StoreAppendsAgain
  <2> QED BY <1>0, <2>1, <2>2, NobodyMoves DEF TypeOK, RequestsUnchanged
<1>4. ASSUME NEW s \in Sessions, SessionExpires(s) PROVE ChatInv'
  <2>1. OkStays /\ RequestsUnchanged
    BY <1>0, <1>4 DEF SessionExpires, Store!Expire, OkStays
  <2> QED BY <1>0, <2>1, NobodyMoves DEF TypeOK, RequestsUnchanged
<1>5. CASE UNCHANGED vars
  BY <1>0, <1>5, NobodyMoves DEF TypeOK, vars, storeVars, OkStays
<1> QED BY <1>1, <1>2, <1>3, <1>4, <1>5

(* Nothing has happened at first.                                          *)
LEMMA InitInv == Init => ChatInv
<1> SUFFICES ASSUME Init PROVE ChatInv
  OBVIOUS
<1>1. TypeOK
  BY ChatAssumption DEF Init, TypeOK
<1>2. phase \in [Calls -> Phases]
  BY DEF Init, Store!Init, Calls, Phases
<1>3. Streams = {} /\ Syncs = {} /\ OpenStreams = {}
  BY DEF Init, Streams, Syncs, OpenStreams
<1>4. IsFiniteSet(OpenStreams) /\ gauge = Cardinality(OpenStreams)
  BY <1>3, FS_EmptySet DEF Init
<1>5. \A r \in Requests : Sound(r)
  BY <1>3 DEF Init, Sound, Stages, OpenStream, Acknowledged
<1> QED BY <1>1, <1>2, <1>4, <1>5, InvParts DEF Parts

(* Every step keeps the invariant.                                         *)
LEMMA NextInv == ChatInv /\ [Next]_vars => ChatInv'
<1> SUFFICES ASSUME ChatInv, [Next]_vars PROVE ChatInv'
  OBVIOUS
<1>1. ASSUME NEW r \in Requests, NEW i \in Inputs,
             ArriveChat(r, i) \/ ArriveStream(r, i) \/ ArriveGone(r, i)
      PROVE  ChatInv'
  BY <1>1, ArriveChatInv, ArriveStreamInv
<1>2. ASSUME NEW r \in Requests, HistoryRead(r) \/ HistoryFailed(r) \/ LLMFailed(r)
      PROVE  ChatInv'
  BY <1>2, HistoryInv
<1>3. ASSUME NEW r \in Requests, NEW t \in Answers,
             LLMAnswered(r, t) \/ \E n \in 0 .. MaxChunks : LLMStreams(r, t, n)
      PROVE  ChatInv'
  BY <1>3, LLMAnsweredInv, LLMStreamsInv
<1>4. ASSUME NEW r \in Requests, TurnStored(r) \/ TurnNotStored(r) PROVE ChatInv'
  BY <1>4, TurnInv
<1>5. ASSUME NEW r \in Requests, NEW res \in {"success", "failure"}, Synthesized(r, res)
      PROVE  ChatInv'
  BY <1>5, SynthesizedInv
<1>6. ASSUME NEW r \in Requests, Resume(r) \/ WaitTimeout(r) PROVE ChatInv'
  BY <1>6, ResumeEndInv, ResumeTimeoutInv, ResumeStartInv, ResumeTokenInv,
     WaitTimeoutInv DEF Resume
<1>7. ASSUME NEW r \in Requests, CancelWaiting(r) \/ CancelSending(r) \/ CancelChat(r)
      PROVE  ChatInv'
  BY <1>7, CancelWaitingInv, ResumeEndInv, CancelChatInv
<1>8. CASE \/ \E r \in Requests : \/ TimePasses(r) \/ ClientLeaves(r)
                                  \/ StoreReads(r) \/ StoreAppends(r)
                                  \/ StoreResends(r) \/ StoreAppendsAgain(r)
           \/ \E s \in Sessions : SessionExpires(s)
           \/ UNCHANGED vars
  BY <1>8, EnvironmentInv
<1> QED BY <1>1, <1>2, <1>3, <1>4, <1>5, <1>6, <1>7, <1>8 DEF Next

-----------------------------------------------------------------------------
(* The results.                                                            *)

(* ChatInv holds in every reachable state.                                 *)
THEOREM SpecInv == Spec => []ChatInv
BY InitInv, NextInv, PTL DEF Spec

(* The state of requests and routes is of its types.                       *)
THEOREM TypeCorrect == Spec => []TypeOK
<1>1. ChatInv => TypeOK
  BY DEF ChatInv
<1> QED BY <1>1, SpecInv, PTL

(* The events of a stream follow the SSE protocol, whatever mixture of the *)
(* service, the timeout and the server produced them.                      *)
THEOREM StreamsFollowProtocol == Spec => []SSEProtocol
<1>1. ChatInv => SSEProtocol
  BY DEF ChatInv
<1> QED BY <1>1, SpecInv, PTL

(* No client is told that its turn succeeded unless the store returned.    *)
THEOREM AcknowledgedTurnsAreStored == Spec => []AcknowledgedIsStored
<1>1. ChatInv => AcknowledgedIsStored
  BY DEF ChatInv
<1> QED BY <1>1, SpecInv, PTL

(* The gauge of active streams never drifts, and a request was counted     *)
(* once if it ended with a reply, an exception or a closed stream, and not *)
(* at all if it is a /chat that was cancelled.                             *)
THEOREM MetricsNeverDrift == Spec => []MetricsBalance
<1>1. ChatInv => MetricsBalance
  BY DEF ChatInv
<1> QED BY <1>1, SpecInv, PTL

(* The label a stream is counted under is that of its last event.          *)
THEOREM LabelsAgree == Spec => []ResultAgrees
<1>1. ChatInv => ResultAgrees
  BY DEF ChatInv
<1> QED BY <1>1, SpecInv, PTL

-----------------------------------------------------------------------------
(* What a session holds.                                                   *)

(* Whole turns, or nothing when none are kept.                             *)
LEMMA KeepsNone ==
  ASSUME NEW e, NEW n, n = 0, NEW g, g = Recent(e, 2 * n)
  PROVE  g = << >>
BY DEF Recent

(* A history within the limit is kept whole.                               *)
LEMMA KeepsAll ==
  ASSUME NEW e, NEW n \in Nat, NEW k \in Nat, n # 0, Len(e) = 2 * k, k <= n,
         NEW g, g = Recent(e, 2 * n)
  PROVE  g = e
BY DEF Recent

(* One turn too many: the oldest two messages go.                          *)
LEMMA KeepsRest ==
  ASSUME NEW e, NEW n \in Nat, n # 0, Len(e) = 2 * n + 2,
         NEW g, g = Recent(e, 2 * n)
  PROVE  g = SubSeq(e, 3, 2 * n + 2)
<1>1. ~ (2 * n <= 0) /\ ~ (Len(e) <= 2 * n) /\ Len(e) - 2 * n + 1 = 3
  OBVIOUS
<1> QED BY <1>1 DEF Recent

(* What a list is without its first two elements.                          *)
LEMMA AllButTwo ==
  ASSUME NEW S, NEW e \in Seq(S), NEW m \in Nat, Len(e) = 2 * m + 2
  PROVE  /\ SubSeq(e, 3, 2 * m + 2) \in Seq(S)
         /\ Len(SubSeq(e, 3, 2 * m + 2)) = 2 * m
         /\ \A i \in 1 .. 2 * m : SubSeq(e, 3, 2 * m + 2)[i] = e[i + 2]
<1> DEFINE g == SubSeq(e, 3, 2 * m + 2)
<1>1. ASSUME NEW i \in 3 .. 2 * m + 2 PROVE e[i] \in S
  <2>1. i \in 1 .. Len(e)
    OBVIOUS
  <2> QED BY <2>1, ElementOfSeq
<1> DEFINE p == 3
           q == 2 * m + 2
<1>2. p \in Int /\ q \in Int /\ \A i \in p .. q : e[i] \in S
  BY <1>1
<1>3. q - p + 1 = 2 * m /\ \A i \in 1 .. 2 * m : p + i - 1 = i + 2
  OBVIOUS
<1>4. g = SubSeq(e, p, q) /\ (p <= q \/ m = 0)
  OBVIOUS
<1> HIDE DEF p, q
<1>5. /\ g \in Seq(S) /\ Len(g) = IF p <= q THEN q - p + 1 ELSE 0
      /\ \A i \in 1 .. q - p + 1 : g[i] = e[p + i - 1]
  BY <1>2, <1>4, SubSeqProperties
<1> QED BY <1>2, <1>3, <1>4, <1>5

(* The empty history.                                                      *)
LEMMA NoTurns ==
  /\ << >> \in Seq(Messages) /\ Turns(<< >>) /\ DOMAIN << >> = {}
  /\ \A R : DistinctBut(<< >>, R)
<1>1. << >> \in Seq(Messages) /\ Len(<< >>) = 2 * 0 /\ DOMAIN << >> = {}
  OBVIOUS
<1>2. 0 \in 0 .. AtLeastZero(MaxTurns) /\ 1 .. 0 = {}
  BY ChatAssumption DEF AtLeastZero
<1> QED BY <1>1, <1>2 DEF Turns, DistinctBut

WholeHistory(h, R) == h \in Seq(Messages) /\ Turns(h) /\ DistinctBut(h, R)

(* h has no message of r; g has none but those of h and of r.              *)
Lacks(h, r) == \A i \in DOMAIN h : h[i][1] # r
NoMoreThan(g, h, r) == \A i \in DOMAIN g : g[i][1] = r \/ \E j \in DOMAIN h : g[i] = h[j]

(* A history of whole turns is one of whole turns after one more is        *)
(* appended and the oldest one dropped, provided that it was not there or  *)
(* may be there twice.                                                     *)
LEMMA TurnAppended ==
  ASSUME NEW h, NEW R, WholeHistory(h, R), NEW r \in Requests, Lacks(h, r) \/ r \in R,
         NEW g, g = Recent(h \o <<UserMessage(r), AssistantMessage(r)>>,
                           AtLeastZero(MaxTurns * 2))
  PROVE  WholeHistory(g, R) /\ NoMoreThan(g, h, r)
<1> USE DEF WholeHistory, Lacks, NoMoreThan
<1> DEFINE T == AtLeastZero(MaxTurns)
           u == UserMessage(r)
           a == AssistantMessage(r)
           e == h \o <<u, a>>
<1>1. T \in Nat /\ AtLeastZero(MaxTurns * 2) = 2 * T
  BY ChatAssumption DEF AtLeastZero
<1>2. PICK m \in 0 .. T :
        /\ Len(h) = 2 * m
        /\ \A k \in 1 .. m : \E q \in Requests : /\ h[2*k-1] = UserMessage(q)
                                               /\ h[2*k] = AssistantMessage(q)
  BY DEF Turns
<1>3. u \in Messages /\ a \in Messages /\ u[1] = r /\ a[1] = r /\ u # a
  BY DEF UserMessage, AssistantMessage, Messages
<1> HIDE DEF T, u, a
<1>4. <<u, a>> \in Seq(Messages) /\ Len(<<u, a>>) = 2
  BY <1>3
<1>50. m \in Nat /\ m <= T /\ T \in Nat
  BY <1>1
<1>5. /\ m \in Nat /\ m <= T /\ T \in Nat /\ DOMAIN h = 1 .. 2 * m
      /\ \A i \in 1 .. 2 * m : i \in 1 .. 2 * m + 2
      /\ \A i \in 1 .. 2 * m + 2 : i \in 1 .. 2 * m \/ i = 2 * m + 1 \/ i = 2 * m + 2
      /\ \A k \in 1 .. m : 2 * k - 1 \in 1 .. 2 * m /\ 2 * k \in 1 .. 2 * m
  <2>1. m \in Nat /\ m <= T /\ T \in Nat
    BY <1>1
  <2>2. DOMAIN h = 1 .. Len(h) /\ Len(h) = 2 * m
    BY <1>2, LenProperties
  <2>3. /\ \A i \in 1 .. 2 * m : i \in 1 .. 2 * m + 2
        /\ \A i \in 1 .. 2 * m + 2 : i \in 1 .. 2 * m \/ i = 2 * m + 1 \/ i = 2 * m + 2
    BY <2>1
  <2>4. \A k \in 1 .. m : 2 * k - 1 \in 1 .. 2 * m /\ 2 * k \in 1 .. 2 * m
    BY <2>1
  <2> QED BY <2>1, <2>2, <2>3, <2>4
<1>6. /\ e \in Seq(Messages) /\ Len(e) = 2 * m + 2 /\ DOMAIN e = 1 .. 2 * m + 2
      /\ \A i \in 1 .. 2 * m : e[i] = h[i]
      /\ e[2 * m + 1] = u /\ e[2 * m + 2] = a
  <2>0. /\ e \in Seq(Messages) /\ Len(e) = Len(h) + Len(<<u, a>>)
        /\ \A i \in 1 .. Len(h) + Len(<<u, a>>) :
             e[i] = IF i <= Len(h) THEN h[i] ELSE <<u, a>>[i - Len(h)]
    BY <1>4, ConcatProperties
  <2> HIDE DEF e
  <2>1. e \in Seq(Messages) /\ Len(e) = 2 * m + 2
    BY <1>2, <1>4, <2>0
  <2>2. \A i \in 1 .. 2 * m + 2 :
          e[i] = IF i <= 2 * m THEN h[i] ELSE <<u, a>>[i - 2 * m]
    BY <1>2, <1>4, <2>0
  <2>3. \A i \in 1 .. 2 * m : e[i] = h[i]
    BY <1>5, <2>2
  <2>4. e[2 * m + 1] = <<u, a>>[1] /\ e[2 * m + 2] = <<u, a>>[2]
    BY <1>5, <2>2
  <2> QED BY <2>1, <2>3, <2>4
<1> HIDE DEF e
<1>7. \A k \in 1 .. m + 1 : \E q \in Requests : /\ e[2*k-1] = UserMessage(q)
                                             /\ e[2*k] = AssistantMessage(q)
  <2> SUFFICES ASSUME NEW k \in 1 .. m + 1
               PROVE  \E q \in Requests : /\ e[2*k-1] = UserMessage(q)
                                          /\ e[2*k] = AssistantMessage(q)
    OBVIOUS
  <2>1. CASE k = m + 1
    <3>1. 2 * k - 1 = 2 * m + 1 /\ 2 * k = 2 * m + 2
      BY <1>5, <2>1
    <3> QED BY <1>6, <3>1 DEF u, a
  <2>2. CASE k \in 1 .. m
    <3>1. e[2*k-1] = h[2*k-1] /\ e[2*k] = h[2*k]
      BY <1>5, <1>6, <2>2
    <3> QED BY <1>2, <2>2, <3>1
  <2> QED BY <1>5, <2>1, <2>2
<1>8. \A i \in 1 .. 2 * m : e[i] = h[i] /\ (e[i][1] # r \/ r \in R)
  BY <1>5, <1>6
<1>9. e[2 * m + 1][1] = r /\ e[2 * m + 2][1] = r /\ e[2 * m + 1] # e[2 * m + 2]
  BY <1>3, <1>6
<1>10. \A i \in 1 .. 2 * m + 2 : e[i][1] = r \/ \E j \in DOMAIN h : e[i] = h[j]
  BY <1>5, <1>8, <1>9
<1>11. ASSUME NEW i \in 1 .. 2 * m + 2, NEW j \in 1 .. 2 * m + 2, e[i] = e[j]
       PROVE  i = j \/ e[i][1] \in R
  <2>1. CASE i \in 1 .. 2 * m /\ j \in 1 .. 2 * m
    <3>1. h[i] = h[j] /\ e[i] = h[i] /\ i \in DOMAIN h /\ j \in DOMAIN h
      BY <1>5, <1>8, <1>11, <2>1
    <3> QED BY <3>1 DEF DistinctBut
  <2>2. CASE i \notin 1 .. 2 * m \/ j \notin 1 .. 2 * m
    <3>1. CASE i \in 1 .. 2 * m
      <4>1. j = 2 * m + 1 \/ j = 2 * m + 2
        BY <1>5, <2>2, <3>1
      <4>2. e[j][1] = r
        BY <1>9, <4>1
      <4> QED BY <1>8, <1>11, <3>1, <4>2
    <3>2. CASE j \in 1 .. 2 * m
      <4>1. i = 2 * m + 1 \/ i = 2 * m + 2
        BY <1>5, <2>2, <3>2
      <4>2. e[i][1] = r
        BY <1>9, <4>1
      <4> QED BY <1>8, <1>11, <3>2, <4>2
    <3>3. CASE i \notin 1 .. 2 * m /\ j \notin 1 .. 2 * m
      <4>1. (i = 2 * m + 1 \/ i = 2 * m + 2) /\ (j = 2 * m + 1 \/ j = 2 * m + 2)
        BY <1>5, <3>3
      <4>2. e[2 * m + 1] # e[2 * m + 2]
        BY <1>9
      <4>3. ~ (i = 2 * m + 1 /\ j = 2 * m + 2)
        BY <1>11, <4>2
      <4>4. ~ (i = 2 * m + 2 /\ j = 2 * m + 1)
        BY <1>11, <4>2
      <4> QED BY <4>1, <4>3, <4>4
    <3> QED BY <3>1, <3>2, <3>3
  <2> QED BY <2>1, <2>2
<1>12. g = Recent(e, 2 * T)
  BY <1>1 DEF e, u, a
<1>13. CASE T = 0
  <2>1. g = << >>
    BY <1>12, <1>13, KeepsNone
  <2> QED BY <2>1, NoTurns
<1>14. CASE T # 0 /\ m + 1 <= T
  <2>1. g = e
    <3>1. Len(e) = 2 * (m + 1) /\ m + 1 \in Nat /\ T \in Nat
      BY <1>50, <1>6
    <3> QED BY <1>12, <1>14, <3>1, KeepsAll
  <2>2. m + 1 \in 0 .. T /\ Len(g) = 2 * (m + 1)
    BY <1>50, <1>6, <1>14, <2>1
  <2>3. Turns(g)
    <3>1. \A k \in 1 .. m + 1 : \E q \in Requests : /\ g[2*k-1] = UserMessage(q)
                                                 /\ g[2*k] = AssistantMessage(q)
      BY <1>7, <2>1
    <3>2. m + 1 \in 0 .. AtLeastZero(MaxTurns)
      BY <2>2 DEF T
    <3> QED BY <2>2, <3>1, <3>2 DEF Turns
  <2>4. DistinctBut(g, R)
    BY <1>6, <1>11, <2>1 DEF DistinctBut
  <2> QED BY <1>6, <1>10, <2>1, <2>3, <2>4
<1>15. CASE T # 0 /\ m = T
  <2>1. g = SubSeq(e, 3, 2 * m + 2)
    BY <1>50, <1>6, <1>12, <1>15, KeepsRest
  <2>2. /\ g \in Seq(Messages) /\ Len(g) = 2 * m
        /\ \A i \in 1 .. 2 * m : g[i] = e[i + 2]
    <3>1. m \in Nat /\ e \in Seq(Messages) /\ Len(e) = 2 * m + 2
      BY <1>50, <1>6
    <3>2. /\ SubSeq(e, 3, 2 * m + 2) \in Seq(Messages)
          /\ Len(SubSeq(e, 3, 2 * m + 2)) = 2 * m
          /\ \A i \in 1 .. 2 * m : SubSeq(e, 3, 2 * m + 2)[i] = e[i + 2]
      BY <3>1, AllButTwo
    <3> QED BY <2>1, <3>2, Zenon
  <2>3. /\ DOMAIN g = 1 .. 2 * m
        /\ \A i \in 1 .. 2 * m : i + 2 \in 1 .. 2 * m + 2
    BY <1>5, <2>2
  <2>4. Turns(g)
    <3>1. ASSUME NEW k \in 1 .. m
          PROVE  \E q \in Requests : /\ g[2*k-1] = UserMessage(q)
                                     /\ g[2*k] = AssistantMessage(q)
      <4>1. /\ 2*k-1 \in 1 .. 2*m /\ 2*k \in 1 .. 2*m /\ k + 1 \in 1 .. m + 1
            /\ (2*k-1) + 2 = 2*(k+1) - 1 /\ 2*k + 2 = 2*(k+1)
        BY <1>5
      <4>2. g[2*k-1] = e[2*(k+1)-1] /\ g[2*k] = e[2*(k+1)]
        BY <2>2, <4>1
      <4> QED BY <1>7, <4>1, <4>2
    <3>2. m \in 0 .. T
      BY <1>5
    <3> QED BY <2>2, <3>1, <3>2 DEF Turns, T
  <2>5. DistinctBut(g, R)
    <3>1. ASSUME NEW i \in 1 .. 2 * m, NEW j \in 1 .. 2 * m, g[i] = g[j]
          PROVE  i = j \/ g[i][1] \in R
      <4>1. /\ i + 2 \in 1 .. 2 * m + 2 /\ j + 2 \in 1 .. 2 * m + 2
            /\ g[i] = e[i + 2] /\ e[i + 2] = e[j + 2]
        BY <2>2, <2>3, <3>1
      <4>2. i + 2 = j + 2 \/ g[i][1] \in R
        BY <1>11, <4>1
      <4> QED BY <1>5, <4>2
    <3> QED BY <2>3, <3>1 DEF DistinctBut
  <2>6. ASSUME NEW i \in DOMAIN g PROVE g[i][1] = r \/ \E j \in DOMAIN h : g[i] = h[j]
    <3>1. i + 2 \in 1 .. 2 * m + 2 /\ g[i] = e[i + 2]
      BY <2>2, <2>3
    <3> QED BY <1>10, <3>1
  <2> QED BY <2>2, <2>4, <2>5, <2>6
<1>16. T = 0 \/ (T # 0 /\ m + 1 <= T) \/ (T # 0 /\ m = T)
  BY <1>50
<1> QED BY <1>13, <1>14, <1>15, <1>16

(* What q's append is, whether it was made and whether it took effect are  *)
(* as before, unless it is sent again.                                     *)
Quiet(q) ==
  /\ op'[PutCall(q)] = op[PutCall(q)]
  /\ phase'[PutCall(q)] = "idle" <=> phase[PutCall(q)] = "idle"
  /\ resent[PutCall(q)] => resent'[PutCall(q)]
  /\ resent'[PutCall(q)] => resent[PutCall(q)] \/ phase[PutCall(q)] # "idle"
  /\ phase'[PutCall(q)] \in {"idle", "called", "lost"} =>
       phase[PutCall(q)] \in {"idle", "called", "lost"} \/ resent'[PutCall(q)]

(* A step that writes no history and opens no call that stores a turn.     *)
LEMMA QuietStep ==
  ASSUME TurnsInv, hist' = hist, op' \in [Calls -> Operations \cup {None}],
         resent' \in [Calls -> BOOLEAN], \A q \in Requests : Quiet(q)
  PROVE  TurnsInv'
<1>1. \A q \in Requests : TurnCall(q) /\ CalledFirst(q) /\ NotStoredYet(q)
  BY DEF TurnsInv
<1>2. \A q \in Requests : TurnCall(q)'
  BY <1>1 DEF TurnCall, Quiet
<1>3. \A q \in Requests : CalledFirst(q)'
  BY <1>1 DEF CalledFirst, Twice, Quiet
<1>4. \A q \in Requests : NotStoredYet(q)'
  BY <1>1 DEF NotStoredYet, Twice, Quiet
<1>5. ASSUME NEW s \in Sessions PROVE Turns(hist[s])' /\ DistinctBut(hist[s], Twice)'
  <2>1. Turns(hist[s]) /\ DistinctBut(hist[s], Twice)
    BY DEF TurnsInv
  <2>2. \A q \in Twice : q \in Twice'
    BY DEF Twice, Quiet
  <2> QED BY <2>1, <2>2 DEF DistinctBut
<1> QED BY <1>2, <1>3, <1>4, <1>5 DEF TurnsInv, Calls

(* The answers of the store, and its callers giving up.                    *)
LEMMA AnswerStep ==
  ASSUME phase \in [Calls -> Phases], TurnsInv, NEW r \in Requests,
         NEW c \in {GetCall(r), PutCall(r)},
         Store!Return(c) \/ Store!Raise(c) \/ Store!Abandon(c)
  PROVE  TurnsInv'
<1>1. c \in Calls /\ \A q \in Requests : PutCall(q) \in Calls
  BY DEF Calls, GetCall, PutCall
<1>2. hist' = hist /\ op' = op /\ resent' = resent /\ phase[c] # "idle"
  BY DEF Store!Return, Store!Raise, Store!Abandon
<1>3. \/ phase' = [phase EXCEPT ![c] = "ok"] \/ phase' = [phase EXCEPT ![c] = "error"]
      \/ phase' = [phase EXCEPT ![c] = "lost"] /\ phase[c] = "called"
  BY DEF Store!Return, Store!Raise, Store!Abandon
<1>4. \A q \in Requests : Quiet(q)
  BY <1>1, <1>2, <1>3 DEF Quiet
<1>5. op' \in [Calls -> Operations \cup {None}] /\ resent' \in [Calls -> BOOLEAN]
  BY <1>2 DEF TurnsInv, Calls
<1> QED BY <1>2, <1>4, <1>5, QuietStep

(* No call at all.                                                         *)
LEMMA NoCallStep ==
  ASSUME TurnsInv, UNCHANGED storeVars
  PROVE  TurnsInv'
<1>1. op' \in [Calls -> Operations \cup {None}] /\ resent' \in [Calls -> BOOLEAN]
  BY DEF TurnsInv, storeVars, Calls
<1>2. hist' = hist /\ \A q \in Requests : Quiet(q)
  BY DEF storeVars, Quiet
<1> QED BY <1>1, <1>2, QuietStep

(* A store call given up by its request writes nothing now.                *)
LEMMA CancelledCallStep ==
  ASSUME phase \in [Calls -> Phases], TurnsInv, NEW r \in Requests, AbandonCall(r)
  PROVE  TurnsInv'
<1>1. CASE svc[r] = "get"
  BY <1>1, AnswerStep DEF AbandonCall
<1>2. CASE svc[r] = "put"
  BY <1>2, AnswerStep DEF AbandonCall
<1>3. CASE svc[r] \notin {"get", "put"}
  BY <1>3, NoCallStep DEF AbandonCall
<1> QED BY <1>1, <1>2, <1>3

(* get_history is called, or performed.                                    *)
LEMMA ReadStep ==
  ASSUME phase \in [Calls -> Phases], TurnsInv, NEW r \in Requests,
         \/ \E s \in Sessions : CallGetHistory(r, s)
         \/ StoreReads(r)
  PROVE  TurnsInv'
<1>1. GetCall(r) \in Calls /\ \A q \in Requests : PutCall(q) \in Calls /\ PutCall(q) # GetCall(r)
  BY DEF Calls, GetCall, PutCall
<1>2. op \in [Calls -> Operations \cup {None}] /\ resent \in [Calls -> BOOLEAN]
  BY DEF TurnsInv, Calls
<1>3. ASSUME NEW s \in Sessions, CallGetHistory(r, s) PROVE TurnsInv'
  <2> DEFINE o == [kind |-> "get", session |-> s, msgs |-> << >>, max |-> None]
  <2>1. /\ op' = [op EXCEPT ![GetCall(r)] = o]
        /\ phase' = [phase EXCEPT ![GetCall(r)] = "called"]
        /\ hist' = hist /\ resent' = resent
    BY <1>3 DEF CallGetHistory, Store!Call
  <2>2. o \in Operations
    BY DEF Operations
  <2> HIDE DEF o
  <2>3. op' \in [Calls -> Operations \cup {None}]
    BY <1>1, <1>2, <2>1, <2>2
  <2>4. \A q \in Requests : op'[PutCall(q)] = op[PutCall(q)]
                            /\ phase'[PutCall(q)] = phase[PutCall(q)]
    BY <1>1, <1>2, <2>1
  <2>5. \A q \in Requests : Quiet(q)
    BY <2>1, <2>4 DEF Quiet
  <2> QED BY <1>2, <2>1, <2>3, <2>5, QuietStep
<1>4. CASE StoreReads(r)
  <2>1. hist' = hist /\ op' = op /\ resent' = resent /\ Store!Take(GetCall(r))
    BY <1>4 DEF StoreReads, Store!ApplyGet
  <2>2. \A q \in Requests : phase'[PutCall(q)] = phase[PutCall(q)]
    BY <1>1, <2>1 DEF Store!Take
  <2>3. \A q \in Requests : Quiet(q)
    BY <2>1, <2>2 DEF Quiet
  <2> QED BY <1>2, <2>1, <2>3, QuietStep
<1> QED BY <1>3, <1>4

(* The store's client sends an append again.                               *)
LEMMA ResendStep ==
  ASSUME phase \in [Calls -> Phases], TurnsInv, NEW r \in Requests, StoreResends(r)
  PROVE  TurnsInv'
<1>1. /\ PutCall(r) \in Calls
      /\ \A q \in Requests : PutCall(q) \in Calls /\ (q # r => PutCall(q) # PutCall(r))
  BY DEF Calls, PutCall
<1>2. /\ hist' = hist /\ op' = op /\ phase[PutCall(r)] # "idle"
      /\ phase' = [phase EXCEPT ![PutCall(r)] = "called"]
      /\ resent' = [resent EXCEPT ![PutCall(r)] = TRUE]
  BY DEF StoreResends, Store!Resend
<1>3. op \in [Calls -> Operations \cup {None}] /\ resent \in [Calls -> BOOLEAN]
  BY DEF TurnsInv, Calls
<1>4. resent' \in [Calls -> BOOLEAN]
  BY <1>1, <1>2, <1>3
<1>5. ASSUME NEW q \in Requests PROVE Quiet(q)
  <2>1. CASE q = r
    <3>1. phase'[PutCall(r)] = "called" /\ resent'[PutCall(r)]
      BY <1>1, <1>2, <1>3
    <3> QED BY <1>2, <2>1, <3>1 DEF Quiet
  <2>2. CASE q # r
    <3>1. phase'[PutCall(q)] = phase[PutCall(q)] /\ resent'[PutCall(q)] = resent[PutCall(q)]
      BY <1>1, <1>2, <1>3, <2>2
    <3> QED BY <1>2, <3>1 DEF Quiet
  <2> QED BY <2>1, <2>2
<1> QED BY <1>2, <1>3, <1>4, <1>5, QuietStep

(* _store_turn calls append_messages.                                      *)
LEMMA CallStoreTurnStep ==
  ASSUME phase \in [Calls -> Phases], TurnsInv, NEW r \in Requests,
         input[r] \in Input, CallStoreTurn(r)
  PROVE  TurnsInv'
<1> DEFINE o == [kind |-> "append", session |-> input[r].session,
                 msgs |-> <<UserMessage(r), AssistantMessage(r)>>,
                 max |-> AtLeastZero(MaxTurns * 2)]
<1>1. /\ op' = [op EXCEPT ![PutCall(r)] = o] /\ phase[PutCall(r)] = "idle"
      /\ phase' = [phase EXCEPT ![PutCall(r)] = "called"]
      /\ hist' = hist /\ resent' = resent
  BY DEF CallStoreTurn, Store!Call
<1>2. /\ PutCall(r) \in Calls
      /\ \A q \in Requests : PutCall(q) \in Calls /\ (q # r => PutCall(q) # PutCall(r))
  BY DEF Calls, PutCall
<1>3. /\ o.kind = "append" /\ o.session \in Sessions /\ o.max = AtLeastZero(MaxTurns * 2)
      /\ o.msgs = <<UserMessage(r), AssistantMessage(r)>>
  BY DEF Input
<1>4. o \in Operations
  <2>1. AtLeastZero(MaxTurns * 2) \in Int
    BY ChatAssumption DEF AtLeastZero
  <2>2. <<UserMessage(r), AssistantMessage(r)>> \in Seq(Messages)
    BY DEF UserMessage, AssistantMessage, Messages
  <2>3. input[r].session \in Sessions
    BY DEF Input
  <2> QED BY <2>1, <2>2, <2>3 DEF Operations
<1> HIDE DEF o
<1>5. /\ op \in [Calls -> Operations \cup {None}]
      /\ \A q \in Requests : TurnCall(q) /\ CalledFirst(q) /\ NotStoredYet(q)
  BY DEF TurnsInv, Calls
<1>6. op' \in [Calls -> Operations \cup {None}]
  BY <1>1, <1>2, <1>4, <1>5
<1>7. ASSUME NEW q \in Requests
      PROVE  TurnCall(q)' /\ CalledFirst(q)' /\ NotStoredYet(q)'
  <2>1. CASE q = r
    <3>1. op'[PutCall(r)] = o /\ phase'[PutCall(r)] = "called"
      BY <1>1, <1>2, <1>5
    <3>2. TurnCall(r)'
      BY <1>3, <3>1 DEF TurnCall
    <3>3. CalledFirst(r)' /\ NotStoredYet(r)'
      BY <1>1, <1>5, <3>1 DEF CalledFirst, NotStoredYet, Twice
    <3> QED BY <2>1, <3>2, <3>3
  <2>2. CASE q # r
    <3>1. op'[PutCall(q)] = op[PutCall(q)] /\ phase'[PutCall(q)] = phase[PutCall(q)]
      BY <1>1, <1>2, <1>5, <2>2
    <3> QED BY <1>1, <1>5, <3>1 DEF TurnCall, CalledFirst, NotStoredYet, Twice
  <2> QED BY <2>1, <2>2
<1>8. ASSUME NEW s \in Sessions PROVE Turns(hist[s])' /\ DistinctBut(hist[s], Twice)'
  <2>1. Turns(hist[s]) /\ DistinctBut(hist[s], Twice) /\ Twice' = Twice
    BY <1>1 DEF TurnsInv, Twice
  <2> QED BY <1>1, <2>1
<1> QED BY <1>1, <1>6, <1>7, <1>8 DEF TurnsInv, Calls

(* What the append of r writes: the turn, then the trim to the window.     *)
LEMMA AppendWrites ==
  ASSUME TurnsInv, NEW r \in Requests, StoreAppends(r) \/ StoreAppendsAgain(r)
  PROVE  /\ op[PutCall(r)].session \in Sessions
         /\ hist' = [hist EXCEPT ![op[PutCall(r)].session] =
                       Recent(hist[op[PutCall(r)].session]
                                \o <<UserMessage(r), AssistantMessage(r)>>,
                              AtLeastZero(MaxTurns * 2))]
<1> DEFINE c == PutCall(r)
           s == op[c].session
           e == hist[s] \o <<UserMessage(r), AssistantMessage(r)>>
           n == AtLeastZero(MaxTurns * 2)
<1>1. phase[c] # "idle" /\ TurnCall(r)
  BY DEF StoreAppends, Store!ApplyWrite, Store!Take, StoreAppendsAgain,
         Store!ApplyAgain, TurnsInv, CalledFirst, Twice
<1>2. /\ op[c].kind = "append" /\ s \in Sessions /\ op[c].max = n
      /\ op[c].msgs = <<UserMessage(r), AssistantMessage(r)>>
  BY <1>1 DEF TurnCall
<1>3. op[c].max # None
  <2>1. n \in Int
    BY ChatAssumption DEF AtLeastZero
  <2> QED BY <1>2, <2>1, NoneAssumption
<1>4. Store!Written(c, hist[s]) = Store!Recent(e, n)
  BY <1>2, <1>3 DEF Store!Written, Store!AppendLimit, Store!Keep
<1>5. Store!Recent(e, n) = Recent(e, n)
  BY DEF Store!Recent, Recent
<1>6. hist \in [Sessions -> Seq(Messages)]
  BY DEF TurnsInv
<1>7. hist' = [hist EXCEPT ![s] = Recent(e, n)]
  BY <1>2, <1>4, <1>5, <1>6 DEF StoreAppends, Store!ApplyWrite, StoreAppendsAgain,
     Store!ApplyAgain, Store!Write
<1> QED BY <1>2, <1>7

(* The store performs the append, in time, after its caller gave up, or a  *)
(* second time.  It adds messages of r only, to the session of the call.   *)
LEMMA AppendStep ==
  ASSUME phase \in [Calls -> Phases], TurnsInv, NEW r \in Requests,
         StoreAppends(r) \/ StoreAppendsAgain(r)
  PROVE  /\ TurnsInv'
         /\ \A z \in Sessions : \A i \in DOMAIN hist'[z] :
              \/ z = op[PutCall(r)].session /\ hist'[z][i][1] = r
              \/ \E j \in DOMAIN hist[z] : hist'[z][i] = hist[z][j]
<1> DEFINE c == PutCall(r)
           s == op[c].session
           g == Recent(hist[s] \o <<UserMessage(r), AssistantMessage(r)>>,
                       AtLeastZero(MaxTurns * 2))
<1>1. /\ c \in Calls
      /\ \A q \in Requests : PutCall(q) \in Calls /\ (q # r => PutCall(q) # c)
  BY DEF Calls, PutCall
<1>2. TurnCall(r) /\ CalledFirst(r) /\ NotStoredYet(r)
  BY DEF TurnsInv
<1>3. /\ phase[c] # "idle" /\ phase'[c] # "idle"
      /\ \/ phase[c] \in {"called", "lost"} /\ phase'[c] \in {"applied", "error"}
         \/ r \in Twice
      /\ \A q \in Requests : q # r => phase'[PutCall(q)] = phase[PutCall(q)]
  <2>1. CASE StoreAppends(r)
    BY <1>1, <2>1 DEF StoreAppends, Store!ApplyWrite, Store!Take
  <2>2. CASE StoreAppendsAgain(r)
    BY <1>2, <2>2 DEF StoreAppendsAgain, Store!ApplyAgain, CalledFirst, Twice
  <2> QED BY <2>1, <2>2
<1>4. op' = op /\ resent' = resent /\ Twice' = Twice
  BY DEF StoreAppends, Store!ApplyWrite, StoreAppendsAgain, Store!ApplyAgain, Twice
<1>5. s \in Sessions
  BY <1>2, <1>3 DEF TurnCall
<1>6. hist \in [Sessions -> Seq(Messages)]
  BY DEF TurnsInv
<1>7. hist' = [hist EXCEPT ![s] = g]
  BY AppendWrites
<1>9. /\ hist[s] \in Seq(Messages) /\ Turns(hist[s]) /\ DistinctBut(hist[s], Twice)
      /\ (\A i \in DOMAIN hist[s] : hist[s][i][1] # r) \/ r \in Twice
  BY <1>2, <1>3, <1>5, <1>6 DEF TurnsInv, NotStoredYet
<1>10. /\ g \in Seq(Messages) /\ Turns(g) /\ DistinctBut(g, Twice)
       /\ \A i \in DOMAIN g : g[i][1] = r \/ \E j \in DOMAIN hist[s] : g[i] = hist[s][j]
  <2> DEFINE h == hist[s]
             R == Twice
  <2>1. WholeHistory(h, R) /\ (Lacks(h, r) \/ r \in R)
    BY <1>9 DEF WholeHistory, Lacks
  <2>2. g = Recent(h \o <<UserMessage(r), AssistantMessage(r)>>, AtLeastZero(MaxTurns * 2))
    OBVIOUS
  <2> HIDE DEF g, h, R
  <2>3. WholeHistory(g, R) /\ NoMoreThan(g, h, r)
    BY <2>1, <2>2, TurnAppended
  <2> QED BY <2>3 DEF h, R, WholeHistory, NoMoreThan
<1> HIDE DEF g
<1>11. /\ hist' \in [Sessions -> Seq(Messages)]
       /\ \A z \in Sessions : hist'[z] = IF z = s THEN g ELSE hist[z]
  BY <1>5, <1>6, <1>7, <1>10
<1>12. \A z \in Sessions : Turns(hist[z])' /\ DistinctBut(hist[z], Twice)'
  BY <1>4, <1>10, <1>11 DEF TurnsInv
<1> HIDE DEF s
<1>13. ASSUME NEW q \in Requests
       PROVE  TurnCall(q)' /\ CalledFirst(q)' /\ NotStoredYet(q)'
  <2>1. CASE q = r
    <3>1. TurnCall(r)' /\ CalledFirst(r)'
      BY <1>2, <1>3, <1>4 DEF TurnCall, CalledFirst
    <3>2. NotStoredYet(r)'
      BY <1>3, <1>4 DEF NotStoredYet
    <3> QED BY <2>1, <3>1, <3>2
  <2>2. CASE q # r
    <3>1. /\ phase'[PutCall(q)] = phase[PutCall(q)]
          /\ TurnCall(q) /\ CalledFirst(q) /\ NotStoredYet(q)
      BY <1>3, <2>2 DEF TurnsInv
    <3>2. TurnCall(q)' /\ CalledFirst(q)'
      BY <1>4, <3>1 DEF TurnCall, CalledFirst
    <3>3. ASSUME phase[PutCall(q)] \in {"idle", "called", "lost"}, q \notin Twice,
                 NEW z \in Sessions, NEW i \in DOMAIN hist'[z]
          PROVE  hist'[z][i][1] # q
      <4>1. CASE z # s
        BY <1>11, <3>1, <3>3, <4>1 DEF NotStoredYet
      <4>2. CASE z = s
        <5>1. hist'[z] = g /\ i \in DOMAIN g
          BY <1>11, <4>2
        <5>2. \A j \in DOMAIN hist[s] : hist[s][j][1] # q
          BY <1>5, <3>1, <3>3 DEF NotStoredYet
        <5> QED BY <1>10, <2>2, <5>1, <5>2
      <4> QED BY <4>1, <4>2
    <3> QED BY <1>4, <3>1, <3>2, <3>3 DEF NotStoredYet
  <2> QED BY <2>1, <2>2
<1>14. ASSUME NEW z \in Sessions, NEW i \in DOMAIN hist'[z]
       PROVE  \/ z = s /\ hist'[z][i][1] = r
              \/ \E j \in DOMAIN hist[z] : hist'[z][i] = hist[z][j]
  BY <1>10, <1>11
<1>15. TurnsInv'
  BY <1>4, <1>11, <1>12, <1>13 DEF TurnsInv
<1> QED BY <1>14, <1>15 DEF s

(* A session expires: its messages stay, or are dropped.                   *)
LEMMA ExpireStep ==
  ASSUME TurnsInv, NEW s \in Sessions, SessionExpires(s)
  PROVE  TurnsInv'
<1>1. /\ op' = op /\ phase' = phase /\ resent' = resent
      /\ hist' \in {hist, [hist EXCEPT ![s] = << >>]}
  BY DEF SessionExpires, Store!Expire
<1>2. hist \in [Sessions -> Seq(Messages)] /\ Twice' = Twice
  BY <1>1 DEF TurnsInv, Twice
<1>3. CASE hist' = hist
  <2>1. op' \in [Calls -> Operations \cup {None}] /\ resent' \in [Calls -> BOOLEAN]
    BY <1>1 DEF TurnsInv, Calls
  <2>2. \A q \in Requests : Quiet(q)
    BY <1>1 DEF Quiet
  <2> QED BY <1>3, <2>1, <2>2, QuietStep
<1>4. CASE hist' = [hist EXCEPT ![s] = << >>]
  <2>1. /\ hist' \in [Sessions -> Seq(Messages)]
        /\ \A z \in Sessions : hist'[z] = hist[z] \/ hist'[z] = << >>
    BY <1>2, <1>4
  <2>2. ASSUME NEW z \in Sessions PROVE Turns(hist[z])' /\ DistinctBut(hist[z], Twice)'
    <3>1. Turns(hist[z]) /\ DistinctBut(hist[z], Twice)
      BY DEF TurnsInv
    <3> QED BY <1>2, <2>1, <3>1, NoTurns
  <2>3. \A q \in Requests : TurnCall(q)' /\ CalledFirst(q)'
    BY <1>1, <1>2 DEF TurnsInv, TurnCall, CalledFirst
  <2>4. ASSUME NEW q \in Requests PROVE NotStoredYet(q)'
    <3>1. NotStoredYet(q) /\ phase'[PutCall(q)] = phase[PutCall(q)]
      BY <1>1 DEF TurnsInv
    <3> QED BY <1>2, <2>1, <3>1, NoTurns DEF NotStoredYet
  <2> QED BY <1>1, <2>1, <2>2, <2>3, <2>4 DEF TurnsInv
<1> QED BY <1>1, <1>3, <1>4

(* Every step is one of these for the store.                               *)
LEMMA TurnsNext == ChatInv /\ TurnsInv /\ [Next]_vars => TurnsInv'
<1> SUFFICES ASSUME ChatInv, TurnsInv, [Next]_vars PROVE TurnsInv'
  OBVIOUS
<1>0. TypeOK /\ phase \in [Calls -> Phases] /\ \A r \in Requests : Stages(r)
  BY DEF ChatInv, Calls, Phases
<1>1. ASSUME NEW r \in Requests, route[r] # "idle" PROVE input[r] \in Input
  BY <1>0, <1>1 DEF TypeOK, Stages
<1>2. ASSUME NEW r \in Requests, NEW i \in Inputs,
             ArriveChat(r, i) \/ ArriveStream(r, i) \/ ArriveGone(r, i)
      PROVE  TurnsInv'
  <2>1. i.session \in Sessions
    BY InputsAssumption DEF Input
  <2>2. CallGetHistory(r, i.session) \/ UNCHANGED storeVars
    BY <1>2 DEF ArriveChat, ArriveStream, ArriveGone
  <2> QED BY <1>0, <2>1, <2>2, ReadStep, NoCallStep
<1>3. ASSUME NEW r \in Requests, HistoryRead(r) \/ HistoryFailed(r) \/ LLMFailed(r)
      PROVE  TurnsInv'
  BY <1>0, <1>3, AnswerStep, NoCallStep DEF HistoryRead, HistoryFailed, LLMFailed
<1>4. ASSUME NEW r \in Requests, NEW t \in Answers,
             LLMAnswered(r, t) \/ \E n \in 0 .. MaxChunks : LLMStreams(r, t, n)
      PROVE  TurnsInv'
  <2>1. CallStoreTurn(r) \/ UNCHANGED storeVars
    BY <1>4 DEF LLMAnswered, LLMStreams
  <2>2. input[r] \in Input
    BY <1>1, <1>4 DEF LLMAnswered, LLMStreams, Running
  <2> QED BY <1>0, <2>1, <2>2, CallStoreTurnStep, NoCallStep
<1>5. ASSUME NEW r \in Requests, TurnStored(r) \/ TurnNotStored(r) PROVE TurnsInv'
  BY <1>0, <1>5, AnswerStep DEF TurnStored, TurnNotStored
<1>6. ASSUME NEW r \in Requests, NEW res \in {"success", "failure"}, Synthesized(r, res)
      PROVE  TurnsInv'
  BY <1>6, NoCallStep DEF Synthesized
<1>7. ASSUME NEW r \in Requests, Resume(r) PROVE TurnsInv'
  <2>1. route[r] # "idle"
    BY <1>7 DEF Resume, ResumeEnd, ResumeTimeout, ResumeStart, ResumeToken
  <2>2. input[r] \in Input /\ input[r].session \in Sessions
    BY <1>1, <2>1 DEF Input
  <2>3. \/ UNCHANGED storeVars \/ CallGetHistory(r, input[r].session) \/ CallStoreTurn(r)
    BY <1>7 DEF Resume, ResumeEnd, ResumeTimeout, ResumeStart, ResumeToken
  <2> QED BY <1>0, <2>2, <2>3, NoCallStep, ReadStep, CallStoreTurnStep
<1>8. ASSUME NEW r \in Requests, WaitTimeout(r) \/ CancelWaiting(r) \/ CancelChat(r)
      PROVE  TurnsInv'
  BY <1>0, <1>8, CancelledCallStep DEF WaitTimeout, CancelWaiting, CancelChat
<1>9. ASSUME NEW r \in Requests, TimePasses(r) \/ ClientLeaves(r) \/ CancelSending(r)
      PROVE  TurnsInv'
  BY <1>9, NoCallStep DEF TimePasses, ClientLeaves, CancelSending
<1>10. ASSUME NEW r \in Requests, \/ StoreReads(r) \/ StoreAppends(r)
                                  \/ StoreResends(r) \/ StoreAppendsAgain(r)
       PROVE  TurnsInv'
  BY <1>0, <1>10, ReadStep, AppendStep, ResendStep
<1>11. ASSUME NEW s \in Sessions, SessionExpires(s) PROVE TurnsInv'
  BY <1>11, ExpireStep
<1>12. CASE UNCHANGED vars
  BY <1>12, NoCallStep DEF vars
<1> QED BY <1>2, <1>3, <1>4, <1>5, <1>6, <1>7, <1>8, <1>9, <1>10, <1>11, <1>12 DEF Next

(* Nothing is stored at the start.                                         *)
LEMMA TurnsInit == Init => TurnsInv
<1> SUFFICES ASSUME Init PROVE TurnsInv
  OBVIOUS
<1>1. /\ hist = [s \in Sessions |-> << >>] /\ op = [c \in Calls |-> None]
      /\ phase = [c \in Calls |-> "idle"] /\ resent = [c \in Calls |-> FALSE]
  BY DEF Init, Store!Init, Calls
<1>2. \A s \in Sessions : Turns(hist[s]) /\ DistinctBut(hist[s], Twice) /\ DOMAIN hist[s] = {}
  BY <1>1, NoTurns
<1>3. /\ hist \in [Sessions -> Seq(Messages)] /\ op \in [Calls -> Operations \cup {None}]
      /\ resent \in [Calls -> BOOLEAN]
  BY <1>1
<1>4. \A r \in Requests : PutCall(r) \in Calls
  BY DEF PutCall, Calls
<1>5. \A r \in Requests : TurnCall(r) /\ CalledFirst(r)
  BY <1>1, <1>4 DEF TurnCall, CalledFirst, Twice
<1>6. \A r \in Requests : NotStoredYet(r)
  BY <1>2 DEF NotStoredYet
<1> QED BY <1>2, <1>3, <1>5, <1>6 DEF TurnsInv, Calls

(* Whole turns have an even length.                                        *)
LEMMA TurnsAreWhole == TurnsInv => WholeTurns
<1> SUFFICES ASSUME TurnsInv, NEW s \in Sessions
             PROVE  LET h == hist[s] IN
                    /\ Len(h) % 2 = 0 /\ Len(h) <= AtLeastZero(2 * MaxTurns)
                    /\ \A k \in 1 .. Len(h) \div 2 :
                         \E r \in Requests : /\ h[2*k-1] = UserMessage(r)
                                             /\ h[2*k] = AssistantMessage(r)
                    /\ \A i, j \in DOMAIN h :
                         h[i] = h[j] => i = j \/ resent[PutCall(h[i][1])]
  BY DEF WholeTurns
<1>1. Turns(hist[s]) /\ DistinctBut(hist[s], Twice)
  BY DEF TurnsInv
<1>2. PICK m \in 0 .. AtLeastZero(MaxTurns) :
        /\ Len(hist[s]) = 2 * m
        /\ \A k \in 1 .. m : \E r \in Requests : /\ hist[s][2*k-1] = UserMessage(r)
                                               /\ hist[s][2*k] = AssistantMessage(r)
  BY <1>1 DEF Turns
<1>3. 2 * m <= AtLeastZero(2 * MaxTurns) /\ m \in Nat
  BY ChatAssumption DEF AtLeastZero
<1>4. (2 * m) % 2 = 0 /\ (2 * m) \div 2 = m
  BY <1>3
<1>5. \A i, j \in DOMAIN hist[s] :
        hist[s][i] = hist[s][j] => i = j \/ resent[PutCall(hist[s][i][1])]
  BY <1>1 DEF DistinctBut, Twice
<1> QED BY <1>2, <1>3, <1>4, <1>5

(* TurnsInv is an invariant of the specification.                          *)
LEMMA SpecTurns == Spec => []TurnsInv
  BY TurnsInit, TurnsNext, SpecInv, PTL DEF Spec

(* A session holds whole turns, at most MAX_HISTORY_TURNS, and none twice  *)
(* that was not sent twice, whatever requests, timeouts and cancellations  *)
(* overlap and whenever the store performs what it was asked.              *)
THEOREM SessionsHoldWholeTurns == Spec => []WholeTurns
  BY SpecTurns, TurnsAreWhole, PTL

-----------------------------------------------------------------------------
(* What a prompt remembers.                                                *)

(* The last n messages hold the turns among them, as far from the end.     *)
LEMMA RecentTurn ==
  ASSUME NEW e \in Seq(Messages), NEW n \in Nat, NEW k \in Int, NEW q,
         TurnAt(e, k, q), Len(e) - k + 2 <= n,
         NEW g, g = Recent(e, n)
  PROVE  g \in Seq(Messages) /\ TurnAt(g, Len(g) - (Len(e) - k), q)
<1>1. Len(e) \in Nat /\ k >= 2 /\ k <= Len(e) /\ n > 0
  BY LenProperties DEF TurnAt
<1>2. CASE Len(e) <= n
  <2>1. g = e /\ Len(e) - (Len(e) - k) = k
    BY <1>1, <1>2 DEF Recent
  <2> QED BY <2>1
<1>3. CASE Len(e) > n
  <2> DEFINE p == Len(e) - n + 1
  <2>1. g = SubSeq(e, p, Len(e))
    BY <1>1, <1>3 DEF Recent
  <2>2. /\ p \in Int /\ p >= 1 /\ p <= Len(e) /\ Len(e) - p + 1 = n
        /\ \A i \in p .. Len(e) : i \in 1 .. Len(e)
    BY <1>1, <1>3
  <2>3. \A i \in p .. Len(e) : e[i] \in Messages
    BY <2>2, ElementOfSeq
  <2>4. \A i \in 1 .. n : p + i - 1 = i + (Len(e) - n)
    BY <1>1
  <2> HIDE DEF p
  <2>5. /\ SubSeq(e, p, Len(e)) \in Seq(Messages)
        /\ Len(SubSeq(e, p, Len(e))) = IF p <= Len(e) THEN Len(e) - p + 1 ELSE 0
        /\ \A i \in 1 .. Len(e) - p + 1 : SubSeq(e, p, Len(e))[i] = e[p + i - 1]
    BY <1>1, <2>2, <2>3, SubSeqProperties
  <2>6. g \in Seq(Messages) /\ Len(g) = n /\ \A i \in 1 .. n : g[i] = e[i + (Len(e) - n)]
    BY <2>1, <2>2, <2>4, <2>5
  <2>7. PICK j \in Int : j = n - (Len(e) - k)
    BY <1>1
  <2>8. /\ j \in 1 .. n /\ j - 1 \in 1 .. n /\ j \in 2 .. n
        /\ j + (Len(e) - n) = k /\ (j - 1) + (Len(e) - n) = k - 1
    BY <1>1, <2>7
  <2>9. g[j] = e[k] /\ g[j-1] = e[k-1]
    BY <2>6, <2>8
  <2> QED BY <2>6, <2>7, <2>8, <2>9 DEF TurnAt
<1> QED BY <1>1, <1>2, <1>3

(* Appending the turn of r and trimming: it is the last turn, and every    *)
(* other is one further from the end.                                      *)
LEMMA TurnsShift ==
  ASSUME NEW h \in Seq(Messages), NEW r \in Requests, NEW n \in Nat,
         NEW g, g = Recent(h \o <<UserMessage(r), AssistantMessage(r)>>, n)
  PROVE  /\ n >= 2 => TurnAt(g, Len(g), r)
         /\ \A d \in Nat : \A q : 2 * d + 4 <= n /\ TurnAt(h, Len(h) - 2 * d, q) =>
              TurnAt(g, Len(g) - 2 * (d + 1), q)
<1> DEFINE u == UserMessage(r)
           a == AssistantMessage(r)
           e == h \o <<u, a>>
<1>1. <<u, a>> \in Seq(Messages) /\ Len(<<u, a>>) = 2 /\ Len(h) \in Nat
  BY LenProperties DEF UserMessage, AssistantMessage, Messages
<1>2. /\ e \in Seq(Messages) /\ Len(e) = Len(h) + Len(<<u, a>>)
      /\ \A i \in 1 .. Len(h) + Len(<<u, a>>) :
           e[i] = IF i <= Len(h) THEN h[i] ELSE <<u, a>>[i - Len(h)]
  BY <1>1, ConcatProperties
<1> HIDE DEF e
<1>3. /\ Len(e) = Len(h) + 2 /\ \A i \in 1 .. Len(h) : e[i] = h[i]
      /\ e[Len(h) + 1] = <<u, a>>[1] /\ e[Len(h) + 2] = <<u, a>>[2]
  BY <1>1, <1>2
<1>4. g = Recent(e, n)
  BY DEF e
<1>5. ASSUME n >= 2 PROVE TurnAt(g, Len(g), r)
  <2>1. PICK k \in Int : k = Len(e)
    BY <1>1, <1>3
  <2>2. TurnAt(e, k, r)
    <3>1. k \in 2 .. Len(e) /\ k - 1 = Len(h) + 1 /\ k = Len(h) + 2
      BY <1>1, <1>3, <2>1
    <3> QED BY <1>3, <3>1 DEF TurnAt
  <2>3. Len(e) - k + 2 <= n /\ Len(e) - k = 0
    BY <1>1, <1>3, <1>5, <2>1
  <2>4. g \in Seq(Messages) /\ TurnAt(g, Len(g) - (Len(e) - k), r)
    BY <1>2, <1>4, <2>2, <2>3, RecentTurn
  <2>5. Len(g) \in Nat
    BY <2>4, LenProperties
  <2>6. Len(g) - (Len(e) - k) = Len(g)
    BY <2>3, <2>5
  <2> QED BY <2>4, <2>6
<1>6. ASSUME NEW d \in Nat, NEW q, 2 * d + 4 <= n, TurnAt(h, Len(h) - 2 * d, q)
      PROVE  TurnAt(g, Len(g) - 2 * (d + 1), q)
  <2>1. PICK k \in Int : k = Len(h) - 2 * d
    BY <1>1
  <2>2. k \in 2 .. Len(h) /\ k - 1 \in 1 .. Len(h) /\ k \in 1 .. Len(h)
    BY <1>1, <1>6, <2>1 DEF TurnAt
  <2>3. k \in 2 .. Len(e)
    BY <1>1, <1>3, <2>2
  <2>4. TurnAt(e, k, q)
    BY <1>3, <1>6, <2>1, <2>2, <2>3 DEF TurnAt
  <2>5. Len(e) - k + 2 <= n /\ Len(e) - k = 2 * (d + 1)
    BY <1>1, <1>3, <1>6, <2>1
  <2>6. TurnAt(g, Len(g) - (Len(e) - k), q)
    BY <1>2, <1>4, <2>4, <2>5, RecentTurn
  <2> QED BY <2>5, <2>6
<1> QED BY <1>5, <1>6

(* What MemoryInv says of one request, and of the types.                   *)
Remembers(r) ==
  prompt[r] # << >> =>
    \A q \in owed[r] \ faded :
      HoldsTurn(prompt[r], q) \/ Superseded(q, input[r].session)

Mem(r) == Remembers(r) /\ SessionCalls(r) /\ HistoryKnown(r)

MemTypes ==
  /\ live \in [Sessions -> BOOLEAN] /\ log \in [Sessions -> Seq(Requests)]
  /\ got \in [Calls -> Seq(Messages) \cup {None}]
  /\ prompt \in [Requests -> Seq(Messages)] /\ owed \in [Requests -> SUBSET Requests]

(* The invariant, grouped by request.                                      *)
LEMMA MemParts ==
  /\ MemoryInv <=> MemTypes /\ (\A r \in Requests : Mem(r)) /\ \A s \in Sessions : LogStored(s)
  /\ MemoryInv' <=> MemTypes' /\ (\A r \in Requests : Mem(r)') /\ \A s \in Sessions : LogStored(s)'
  BY DEF MemoryInv, MemTypes, Mem, Remembers, PromptRemembers, Calls

InLog(q, s) == \E i \in DOMAIN log[s] : log[s][i] = q

(* Nothing that was stored, lost by age or acknowledged is taken back.     *)
Grows ==
  /\ faded \subseteq faded'
  /\ \A s \in Sessions, q \in Requests : /\ Superseded(q, s) => Superseded(q, s)'
                                         /\ InLog(q, s) => InLog(q, s)'
  /\ \A q \in Requests :
       /\ route[q] # "idle" => route'[q] # "idle" /\ input'[q] = input[q]
       /\ phase[PutCall(q)] = "ok" => phase'[PutCall(q)] = "ok"

(* No call of q takes effect, and a new one is about its session.          *)
CallsStay(q) ==
  /\ route[q] = "idle" => /\ phase'[GetCall(q)] = phase[GetCall(q)]
                          /\ phase'[PutCall(q)] = phase[PutCall(q)]
  /\ phase'[GetCall(q)] # "idle" => op'[GetCall(q)].session = input[q].session
  /\ phase'[PutCall(q)] # "idle" => op'[PutCall(q)].session = input[q].session
  /\ phase'[PutCall(q)] \in {"applied", "ok"} => phase[PutCall(q)] \in {"applied", "ok"}
  /\ phase'[GetCall(q)] = "applied" => phase[GetCall(q)] = "applied"

Stay(q) ==
  /\ CallsStay(q)
  /\ route'[q] = "idle" <=> route[q] = "idle"
  /\ input'[q] = input[q] /\ owed'[q] = owed[q] /\ prompt'[q] = prompt[q]
  /\ got'[GetCall(q)] = got[GetCall(q)]

Arrived == \A r \in Requests : route[r] # "idle" => input[r] \in Input

(* A request that a step leaves alone remembers what it did.               *)
LEMMA MemStays ==
  ASSUME NEW q \in Requests, Mem(q), owed[q] \subseteq Requests, Arrived, Grows, Stay(q)
  PROVE  Mem(q)'
<1>1. /\ input'[q] = input[q] /\ owed'[q] = owed[q] /\ prompt'[q] = prompt[q]
      /\ got'[GetCall(q)] = got[GetCall(q)] /\ CallsStay(q)
      /\ route'[q] = "idle" <=> route[q] = "idle"
  BY DEF Stay
<1>2. Remembers(q) /\ SessionCalls(q) /\ HistoryKnown(q)
  BY DEF Mem
<1>3. CASE route[q] = "idle"
  <2>1. prompt[q] = << >> /\ phase[GetCall(q)] = "idle" /\ phase[PutCall(q)] = "idle"
    BY <1>2, <1>3 DEF SessionCalls
  <2>2. phase'[GetCall(q)] = "idle" /\ phase'[PutCall(q)] = "idle"
    BY <1>1, <1>3, <2>1 DEF CallsStay
  <2>3. Remembers(q)' /\ HistoryKnown(q)'
    BY <1>1, <2>1, <2>2 DEF Remembers, HistoryKnown
  <2>4. \A p \in owed[q] : /\ phase'[PutCall(p)] = "ok" /\ route'[p] # "idle"
                           /\ input'[p].session = input'[q].session
    BY <1>1, <1>2 DEF SessionCalls, Grows
  <2>5. SessionCalls(q)'
    BY <1>1, <2>1, <2>2, <2>4 DEF SessionCalls
  <2> QED BY <2>3, <2>5 DEF Mem
<1>4. CASE route[q] # "idle"
  <2>1. PICK s \in Sessions : s = input[q].session /\ s = input'[q].session
    BY <1>1, <1>4 DEF Arrived, Input
  <2>2. /\ faded \subseteq faded'
        /\ \A p \in owed[q] : Superseded(p, s) => Superseded(p, s)'
    BY <2>1 DEF Grows
  <2>3. Remembers(q)'
    BY <1>1, <1>2, <2>1, <2>2 DEF Remembers, Superseded
  <2>4. HistoryKnown(q)'
    <3>1. SUFFICES ASSUME phase'[GetCall(q)] = "applied" PROVE HistoryKnown(q)'
      BY DEF HistoryKnown
    <3>2. phase[GetCall(q)] = "applied"
      BY <1>1, <3>1 DEF CallsStay
    <3>3. \A p \in owed[q] \ faded : HoldsTurn(got[GetCall(q)], p) \/ Superseded(p, s)
      BY <1>2, <2>1, <3>2 DEF HistoryKnown
    <3>4. \A p \in owed'[q] \ faded' : HoldsTurn(got'[GetCall(q)], p) \/ Superseded(p, s)'
      BY <1>1, <2>2, <3>3
    <3> QED BY <1>1, <1>2, <2>1, <3>2, <3>4 DEF HistoryKnown, Superseded
  <2>5. InLog(q, s) => InLog(q, s)'
    BY <2>1 DEF Grows
  <2>6. phase'[PutCall(q)] \in {"applied", "ok"} =>
          \E i \in DOMAIN log'[input'[q].session] : log'[input'[q].session][i] = q
    BY <1>1, <1>2, <2>1, <2>5 DEF SessionCalls, InLog, CallsStay
  <2>7. \A p \in owed[q] : /\ phase'[PutCall(p)] = "ok" /\ route'[p] # "idle"
                           /\ input'[p].session = input'[q].session
    BY <1>1, <1>2 DEF SessionCalls, Grows
  <2>8. SessionCalls(q)'
    BY <1>1, <1>4, <2>6, <2>7 DEF SessionCalls, CallsStay
  <2> QED BY <2>3, <2>4, <2>8 DEF Mem
<1> QED BY <1>3, <1>4

(* What the log says of a session stays true while nothing is written.     *)
LEMMA LogStays ==
  ASSUME NEW s \in Sessions, LogStored(s), faded \subseteq faded',
         log'[s] = log[s], live'[s] = live[s], hist'[s] = hist[s]
  PROVE  LogStored(s)'
  BY DEF LogStored

(* The calls of get_history and _store_turn, their answers, callers that   *)
(* give up, and what is sent again: none of them writes or is undone.      *)
Asks(r) ==
  \/ UNCHANGED storeVars
  \/ \E c \in {GetCall(r), PutCall(r)} : Store!Return(c) \/ Store!Raise(c) \/ Store!Abandon(c)
  \/ CallGetHistory(r, input[r].session)
  \/ CallStoreTurn(r)
  \/ Store!Resend(PutCall(r))

(* Such a call leaves every other alone, and is about the request's        *)
(* session.                                                                *)
LEMMA CallStays ==
  ASSUME phase \in [Calls -> Phases], op \in [Calls -> Operations \cup {None}],
         NEW r \in Requests, route[r] # "idle", Asks(r),
         \A q \in Requests : SessionCalls(q)
  PROVE  /\ hist' = hist /\ live' = live /\ got' = got
         /\ \A q \in Requests :
              CallsStay(q) /\ (phase[PutCall(q)] = "ok" => phase'[PutCall(q)] = "ok")
<1> DEFINE s == input[r].session
<1>1. \A q \in Requests : /\ GetCall(q) \in Calls /\ PutCall(q) \in Calls
                          /\ GetCall(q) # PutCall(r) /\ PutCall(q) # GetCall(r)
                          /\ q # r => GetCall(q) # GetCall(r) /\ PutCall(q) # PutCall(r)
  BY DEF Calls, GetCall, PutCall
<1>2. \A q \in Requests :
        /\ phase[GetCall(q)] # "idle" => op[GetCall(q)].session = input[q].session
        /\ phase[PutCall(q)] # "idle" => op[PutCall(q)].session = input[q].session
  BY DEF SessionCalls
<1>3. CASE UNCHANGED storeVars
  BY <1>2, <1>3 DEF storeVars, CallsStay
<1>4. ASSUME NEW c \in {GetCall(r), PutCall(r)},
             Store!Return(c) \/ Store!Raise(c) \/ Store!Abandon(c) \/ Store!Resend(c)
      PROVE  /\ hist' = hist /\ live' = live /\ got' = got
             /\ \A q \in Requests :
                  CallsStay(q) /\ (phase[PutCall(q)] = "ok" => phase'[PutCall(q)] = "ok")
  <2>1. hist' = hist /\ live' = live /\ got' = got /\ op' = op
    BY <1>4 DEF Store!Return, Store!Raise, Store!Abandon, Store!Resend
  <2>2. PICK x \in {"ok", "error", "lost", "called"} :
          /\ phase' = [phase EXCEPT ![c] = x] /\ (x = "ok" => phase[c] = "applied")
          /\ phase[c] \in {"called", "applied"}
    BY <1>4 DEF Store!Return, Store!Raise, Store!Abandon, Store!Resend
  <2>3. \A d \in Calls : phase'[d] = IF d = c THEN x ELSE phase[d]
    BY <2>2
  <2>4. ASSUME NEW q \in Requests
        PROVE  CallsStay(q) /\ (phase[PutCall(q)] = "ok" => phase'[PutCall(q)] = "ok")
    <3>1. /\ phase'[GetCall(q)] = IF GetCall(q) = c THEN x ELSE phase[GetCall(q)]
          /\ phase'[PutCall(q)] = IF PutCall(q) = c THEN x ELSE phase[PutCall(q)]
      BY <1>1, <2>3
    <3>2. GetCall(q) = c \/ PutCall(q) = c => q = r
      BY <1>1
    <3>3. phase[PutCall(q)] = "ok" => phase'[PutCall(q)] = "ok"
      BY <2>2, <3>1
    <3>4. CallsStay(q)
      BY <1>2, <2>1, <2>2, <3>1, <3>2 DEF CallsStay
    <3> QED BY <3>3, <3>4
  <2> QED BY <2>1, <2>4
<1>5. ASSUME NEW c \in {GetCall(r), PutCall(r)}, NEW o, o.session = s, Store!Call(c, o)
      PROVE  /\ hist' = hist /\ live' = live /\ got' = got
             /\ \A q \in Requests :
                  CallsStay(q) /\ (phase[PutCall(q)] = "ok" => phase'[PutCall(q)] = "ok")
  <2>1. hist' = hist /\ live' = live /\ got' = got
    BY <1>5 DEF Store!Call
  <2>2. phase[c] = "idle" /\ \A d \in Calls : /\ phase'[d] = IF d = c THEN "called" ELSE phase[d]
                                             /\ op'[d] = IF d = c THEN o ELSE op[d]
    BY <1>1, <1>5 DEF Store!Call
  <2>3. ASSUME NEW q \in Requests
        PROVE  CallsStay(q) /\ (phase[PutCall(q)] = "ok" => phase'[PutCall(q)] = "ok")
    <3>1. GetCall(q) = c \/ PutCall(q) = c => q = r
      BY <1>1
    <3>2. CallsStay(q)
      BY <1>1, <1>2, <1>5, <2>2, <3>1 DEF CallsStay
    <3> QED BY <1>1, <2>2, <3>2
  <2> QED BY <2>1, <2>3
<1>6. CASE CallGetHistory(r, s)
  BY <1>5, <1>6 DEF CallGetHistory
<1>7. CASE CallStoreTurn(r)
  BY <1>5, <1>7 DEF CallStoreTurn
<1> QED BY <1>3, <1>4, <1>6, <1>7 DEF Asks

(* What the steps below know of the state.                                 *)
Known ==
  /\ phase \in [Calls -> Phases] /\ op \in [Calls -> Operations \cup {None}]
  /\ hist \in [Sessions -> Seq(Messages)]
  /\ route \in [Requests -> {"idle", "next", "send", "closed", "cancelled"}]
  /\ input \in [Requests -> Input \cup {None}]
  /\ Arrived /\ MemTypes
  /\ \A r \in Requests : Mem(r)
  /\ \A s \in Sessions : LogStored(s)

(* The invariants give it.                                                 *)
LEMMA KnownHolds ==
  ASSUME ChatInv, TurnsInv, MemoryInv
  PROVE  Known
<1>1. TypeOK /\ phase \in [Calls -> Phases] /\ \A r \in Requests : Stages(r)
  BY DEF ChatInv, Calls, Phases
<1>2. Arrived
  BY <1>1 DEF Arrived, TypeOK, Stages
<1>3. op \in [Calls -> Operations \cup {None}] /\ hist \in [Sessions -> Seq(Messages)]
  BY DEF TurnsInv, Calls
<1> QED BY <1>1, <1>2, <1>3, MemParts DEF Known, TypeOK

(* Nothing grows but what the calls did.                                   *)
LEMMA GrowsByCalls ==
  ASSUME log' = log, faded' = faded,
         \A q \in Requests : route[q] # "idle" => route'[q] # "idle" /\ input'[q] = input[q],
         \A q \in Requests : phase[PutCall(q)] = "ok" => phase'[PutCall(q)] = "ok"
  PROVE  Grows
<1>1. \A s \in Sessions, q \in Requests : /\ Superseded(q, s) => Superseded(q, s)'
                                          /\ InLog(q, s) => InLog(q, s)'
  BY DEF Superseded, InLog
<1> QED BY <1>1 DEF Grows

(* The route of r moves on; it does not become idle again.                 *)
MovesOn(r) ==
  \/ route' = route
  \/ \E x \in {"next", "send", "closed", "cancelled"} : route' = [route EXCEPT ![r] = x]

(* A step of the route or the service that reads and writes no history.    *)
LEMMA RequestStep ==
  ASSUME Known, NEW r \in Requests, route[r] # "idle", MovesOn(r), Asks(r),
         input' = input, prompt' = prompt, UNCHANGED ghostVars
  PROVE  MemoryInv'
<1>1. \A q \in Requests : Mem(q) /\ SessionCalls(q)
  BY DEF Known, Mem
<1>2. /\ hist' = hist /\ live' = live /\ got' = got
      /\ \A q \in Requests :
           CallsStay(q) /\ (phase[PutCall(q)] = "ok" => phase'[PutCall(q)] = "ok")
  BY <1>1, CallStays DEF Known
<1>3. \A q \in Requests : route'[q] = "idle" <=> route[q] = "idle"
  BY DEF MovesOn, Known
<1>4. log' = log /\ owed' = owed /\ faded' = faded
  BY DEF ghostVars
<1>5. Grows
  BY <1>2, <1>3, <1>4, GrowsByCalls
<1>6. \A q \in Requests : Stay(q)
  BY <1>2, <1>3, <1>4 DEF Stay
<1>7. \A q \in Requests : owed[q] \subseteq Requests
  BY DEF Known, MemTypes
<1>8. \A q \in Requests : Mem(q)'
  BY <1>1, <1>5, <1>6, <1>7, MemStays DEF Known
<1>9. \A s \in Sessions : LogStored(s)'
  BY <1>2, <1>4, LogStays DEF Known
<1>10. MemTypes'
  BY <1>2, <1>4 DEF MemTypes, Known
<1> QED BY <1>8, <1>9, <1>10, MemParts

(* A history no longer than the window is the whole prompt.                *)
LEMMA PromptIsHistory ==
  ASSUME NEW h \in Seq(Messages), Len(h) <= AtLeastZero(2 * MaxTurns), NEW u \in Messages
  PROVE  /\ BuildPrompt(h, u, MaxTurns) \in Seq(Messages)
         /\ BuildPrompt(h, u, MaxTurns) = Append(h, u)
         /\ \A q : HoldsTurn(h, q) => HoldsTurn(BuildPrompt(h, u, MaxTurns), q)
<1>1. Len(h) \in Nat
  BY LenProperties
<1>2. Recent(h, 2 * MaxTurns) = h
  <2>1. CASE MaxTurns <= 0
    <3>1. Len(h) = 0
      BY <1>1, <2>1, ChatAssumption DEF AtLeastZero
    <3>2. h = << >>
      BY <3>1, EmptySeq
    <3> QED BY <2>1, <3>2, ChatAssumption DEF Recent
  <2>2. CASE MaxTurns > 0
    BY <2>2, ChatAssumption DEF Recent, AtLeastZero
  <2> QED BY <2>1, <2>2, ChatAssumption
<1>3. BuildPrompt(h, u, MaxTurns) = Append(h, u)
  BY <1>2 DEF BuildPrompt
<1>4. /\ Append(h, u) \in Seq(Messages) /\ Len(Append(h, u)) = Len(h) + 1
      /\ \A i \in 1 .. Len(h) : Append(h, u)[i] = h[i]
  BY AppendProperties
<1>5. \A q : HoldsTurn(h, q) => HoldsTurn(Append(h, u), q)
  BY <1>1, <1>4 DEF HoldsTurn
<1> QED BY <1>3, <1>4, <1>5

(* get_history has returned, and the prompt is made of what it read.       *)
LEMMA HistoryReadRemembers ==
  ASSUME Known, NEW r \in Requests, HistoryRead(r)
  PROVE  MemoryInv'
<1>1. \A q \in Requests : Mem(q) /\ SessionCalls(q)
  BY DEF Known, Mem
<1>2. /\ route[r] = "next" /\ Store!Return(GetCall(r)) /\ MovesOn(r)
      /\ input' = input /\ log' = log /\ owed' = owed /\ faded' = faded
      /\ prompt' = [prompt EXCEPT ![r] = PromptOf(r)]
  BY DEF HistoryRead, Running, Await, MovesOn, ghostVars
<1>3. Asks(r) /\ phase[GetCall(r)] = "applied" /\ GetCall(r) \in Calls
  BY <1>2 DEF Asks, Store!Return, GetCall, Calls
<1>4. /\ hist' = hist /\ live' = live /\ got' = got
      /\ \A q \in Requests :
           CallsStay(q) /\ (phase[PutCall(q)] = "ok" => phase'[PutCall(q)] = "ok")
  BY <1>1, <1>2, <1>3, CallStays DEF Known
<1>5. \A q \in Requests : route'[q] = "idle" <=> route[q] = "idle"
  BY <1>2 DEF MovesOn, Known
<1>6. Grows
  BY <1>2, <1>4, <1>5, GrowsByCalls
<1>7. \A q \in Requests : owed[q] \subseteq Requests
  BY DEF Known, MemTypes
<1>8. PICK h \in Seq(Messages) : h = got[GetCall(r)] /\ Len(h) <= AtLeastZero(2 * MaxTurns)
  BY <1>1, <1>3 DEF Mem, HistoryKnown
<1>9. PICK p : p = PromptOf(r)
  OBVIOUS
<1>10. p \in Seq(Messages) /\ \A q : HoldsTurn(h, q) => HoldsTurn(p, q)
  <2>1. UserMessage(r) \in Messages
    BY DEF UserMessage, Messages
  <2> QED BY <1>8, <1>9, <2>1, PromptIsHistory DEF PromptOf
<1>11. /\ prompt' \in [Requests -> Seq(Messages)]
       /\ \A q \in Requests : prompt'[q] = IF q = r THEN p ELSE prompt[q]
  BY <1>2, <1>9, <1>10 DEF Known, MemTypes
<1>12. Remembers(r)'
  BY <1>1, <1>2, <1>3, <1>8, <1>10, <1>11 DEF Mem, HistoryKnown, Remembers, Superseded
<1>13. phase'[GetCall(r)] = "ok"
  BY <1>2, <1>3 DEF Store!Return, Known
<1>14. SessionCalls(r)' /\ HistoryKnown(r)'
  <2>1. /\ phase'[PutCall(r)] # "idle" => op'[PutCall(r)].session = input'[r].session
        /\ op'[GetCall(r)].session = input'[r].session /\ route'[r] # "idle"
    BY <1>2, <1>4, <1>5, <1>13 DEF CallsStay
  <2>2. phase'[PutCall(r)] \in {"applied", "ok"} =>
          \E i \in DOMAIN log'[input'[r].session] : log'[input'[r].session][i] = r
    BY <1>1, <1>2, <1>4 DEF SessionCalls, CallsStay
  <2>3. \A q \in owed'[r] : /\ phase'[PutCall(q)] = "ok" /\ route'[q] # "idle"
                            /\ input'[q].session = input'[r].session
    BY <1>1, <1>2, <1>4, <1>5, <1>7 DEF SessionCalls
  <2>4. HistoryKnown(r)'
    BY <1>13 DEF HistoryKnown
  <2>5. SessionCalls(r)'
    BY <2>1, <2>2, <2>3 DEF SessionCalls
  <2> QED BY <2>4, <2>5
<1>15. ASSUME NEW q \in Requests PROVE Mem(q)'
  <2>1. CASE q = r
    BY <2>1, <1>12, <1>14 DEF Mem
  <2>2. CASE q # r
    <3>1. Stay(q)
      BY <1>2, <1>4, <1>5, <1>11, <2>2 DEF Stay
    <3> QED BY <1>1, <1>6, <1>7, <3>1, MemStays DEF Known
  <2> QED BY <2>1, <2>2
<1>16. \A s \in Sessions : LogStored(s)'
  BY <1>2, <1>4, LogStays DEF Known
<1>17. MemTypes'
  BY <1>2, <1>4, <1>11 DEF MemTypes, Known
<1> QED BY <1>15, <1>16, <1>17, MemParts

(* A request arrives: the turns owed to it were acknowledged, so stored.   *)
LEMMA ArrivalRemembers ==
  ASSUME Known, ChatInv, NEW r \in Requests, NEW i \in Inputs,
         ArriveChat(r, i) \/ ArriveStream(r, i) \/ ArriveGone(r, i)
  PROVE  MemoryInv'
<1>1. \A q \in Requests : Mem(q) /\ SessionCalls(q)
  BY DEF Known, Mem
<1>2. /\ Accept(r, i) /\ prompt' = prompt
      /\ UNCHANGED storeVars \/ CallGetHistory(r, i.session)
  BY DEF ArriveChat, ArriveStream, ArriveGone
<1>3. /\ route[r] = "idle" /\ log' = log /\ faded' = faded
      /\ input' = [input EXCEPT ![r] = i]
      /\ owed' = [owed EXCEPT ![r] = {q \in Requests : /\ Acknowledged(q)
                                                       /\ input[q].session = i.session}]
  BY <1>2 DEF Accept
<1>4. PICK x \in {"next", "send", "closed"} : route' = [route EXCEPT ![r] = x]
  BY DEF ArriveChat, ArriveStream, ArriveGone, Reply, Await
<1>5. /\ \A q \in Requests : route'[q] = IF q = r THEN x ELSE route[q]
      /\ \A q \in Requests : input'[q] = IF q = r THEN i ELSE input[q]
      /\ \A q \in Requests : q # r => owed'[q] = owed[q]
      /\ owed'[r] = {q \in Requests : Acknowledged(q) /\ input[q].session = i.session}
      /\ owed' \in [Requests -> SUBSET Requests]
  BY <1>3, <1>4 DEF Known, MemTypes
<1>6. \A q \in Requests : /\ GetCall(q) \in Calls /\ PutCall(q) \in Calls
                          /\ PutCall(q) # GetCall(r)
                          /\ q # r => GetCall(q) # GetCall(r)
  BY DEF Calls, GetCall, PutCall
<1>7. hist' = hist /\ live' = live /\ got' = got
  BY <1>2 DEF storeVars, CallGetHistory, Store!Call
<1>8. /\ \A q \in Requests : phase'[PutCall(q)] = phase[PutCall(q)]
      /\ \A q \in Requests : /\ q # r => phase'[GetCall(q)] = phase[GetCall(q)]
                             /\ q # r => op'[GetCall(q)] = op[GetCall(q)]
                             /\ op'[PutCall(q)] = op[PutCall(q)]
  BY <1>2, <1>6 DEF storeVars, CallGetHistory, Store!Call, Known
<1>9. /\ prompt[r] = << >> /\ phase[GetCall(r)] = "idle" /\ phase[PutCall(r)] = "idle"
  BY <1>1, <1>3 DEF SessionCalls
<1>10. /\ phase'[GetCall(r)] \in {"idle", "called"}
       /\ phase'[GetCall(r)] # "idle" => op'[GetCall(r)].session = i.session
  <2>1. CASE UNCHANGED storeVars
    BY <1>9, <2>1 DEF storeVars
  <2>2. CASE CallGetHistory(r, i.session)
    BY <1>6, <2>2 DEF CallGetHistory, Store!Call, Known
  <2> QED BY <1>2, <2>1, <2>2
<1>11. Grows
  BY <1>3, <1>5, <1>8, GrowsByCalls
<1>12. ASSUME NEW q \in Requests, q # r PROVE Mem(q)'
  <2>1. CallsStay(q)
    BY <1>1, <1>8, <1>12 DEF CallsStay, SessionCalls
  <2>2. Stay(q)
    BY <1>2, <1>5, <1>7, <1>12, <2>1 DEF Stay
  <2>3. owed[q] \subseteq Requests
    BY DEF Known, MemTypes
  <2> QED BY <1>1, <1>11, <2>2, <2>3, MemStays DEF Known
<1>13. Mem(r)'
  <2>1. Remembers(r)'
    BY <1>2, <1>9 DEF Remembers
  <2>2. HistoryKnown(r)'
    BY <1>10 DEF HistoryKnown
  <2>3. ASSUME NEW q \in owed'[r]
        PROVE  /\ phase'[PutCall(q)] = "ok" /\ route'[q] # "idle"
               /\ input'[q].session = input'[r].session
    <3>1. q \in Requests /\ Acknowledged(q) /\ input[q].session = i.session
      BY <1>5
    <3>2. phase[PutCall(q)] = "ok"
      BY <3>1 DEF ChatInv, AcknowledgedIsStored
    <3>3. input[q] # None /\ Stages(q)
      BY <3>1 DEF Acknowledged, Syncs, Streams, ChatInv
    <3>4. route[q] # "idle"
      BY <3>3 DEF Stages
    <3> QED BY <1>3, <1>5, <1>8, <3>1, <3>2, <3>4
  <2>4. SessionCalls(r)'
    BY <1>5, <1>8, <1>9, <1>10, <2>3 DEF SessionCalls
  <2> QED BY <2>1, <2>2, <2>4 DEF Mem
<1>14. \A s \in Sessions : LogStored(s)'
  BY <1>3, <1>7, LogStays DEF Known
<1>15. MemTypes'
  BY <1>2, <1>3, <1>5, <1>7 DEF MemTypes, Known
<1> QED BY <1>12, <1>13, <1>14, <1>15, MemParts

(* A session's history is no longer than the window.                       *)
LEMMA WindowBound ==
  ASSUME NEW h, Turns(h)
  PROVE  Len(h) <= AtLeastZero(2 * MaxTurns)
  BY ChatAssumption DEF Turns, AtLeastZero

(* get_history is performed: every turn owed is read, unless it faded or   *)
(* was superseded.                                                         *)
LEMMA ReadRemembers ==
  ASSUME Known, TurnsInv, NEW r \in Requests, StoreReads(r)
  PROVE  MemoryInv'
<1>1. \A q \in Requests : Mem(q) /\ SessionCalls(q)
  BY DEF Known, Mem
<1>2. /\ input' = input /\ route' = route /\ prompt' = prompt
      /\ log' = log /\ owed' = owed /\ faded' = faded
      /\ hist' = hist /\ live' = live /\ op' = op
      /\ got' = [got EXCEPT ![GetCall(r)] = Store!Visible(op[GetCall(r)].session)]
      /\ phase[GetCall(r)] \in {"called", "lost"}
      /\ phase' = [phase EXCEPT ![GetCall(r)] = IF @ = "lost" THEN "error" ELSE "applied"]
  BY DEF StoreReads, Store!ApplyGet, Store!Take, RequestsUnchanged, ghostVars
<1>3. \A q \in Requests : /\ GetCall(q) \in Calls /\ PutCall(q) \in Calls
                          /\ PutCall(q) # GetCall(r)
                          /\ q # r => GetCall(q) # GetCall(r)
  BY DEF Calls, GetCall, PutCall
<1>4. /\ \A q \in Requests : phase'[PutCall(q)] = phase[PutCall(q)]
      /\ \A q \in Requests : /\ q # r => phase'[GetCall(q)] = phase[GetCall(q)]
                             /\ q # r => got'[GetCall(q)] = got[GetCall(q)]
      /\ got'[GetCall(r)] = Store!Visible(op[GetCall(r)].session)
  BY <1>2, <1>3 DEF Known, MemTypes
<1>5. route[r] # "idle" /\ op[GetCall(r)].session = input[r].session
  BY <1>1, <1>2 DEF SessionCalls
<1>6. PICK s \in Sessions : s = input[r].session
  BY <1>5 DEF Known, Arrived, Input
<1>7. PICK h \in Seq(Messages) : h = got'[GetCall(r)] /\ h = IF live[s] THEN hist[s] ELSE << >>
  <2> DEFINE g == IF live[s] THEN hist[s] ELSE << >>
  <2>1. got'[GetCall(r)] = Store!Visible(s)
    BY <1>4, <1>5, <1>6
  <2>2. got'[GetCall(r)] = g
    BY <2>1 DEF Store!Visible
  <2>3. hist[s] \in Seq(Messages) /\ << >> \in Seq(Messages)
    BY DEF Known
  <2>4. g \in Seq(Messages)
    BY <2>3
  <2> QED BY <2>2, <2>4
<1>8. Len(h) <= AtLeastZero(2 * MaxTurns)
  <2>1. CASE live[s]
    BY <1>7, <2>1, WindowBound DEF TurnsInv
  <2>2. CASE ~ live[s]
    BY <1>7, <2>2, ChatAssumption DEF AtLeastZero
  <2> QED BY <2>1, <2>2
<1>9. ASSUME NEW q \in owed[r] \ faded PROVE HoldsTurn(h, q) \/ Superseded(q, s)
  <2>1. phase[PutCall(q)] = "ok" /\ input[q].session = s /\ q \in Requests
    BY <1>1, <1>6 DEF SessionCalls, Known, MemTypes
  <2>2. PICK i \in DOMAIN log[s] : log[s][i] = q
    BY <1>1, <2>1 DEF SessionCalls
  <2>3. /\ live[s]
        /\ Len(log[s]) - i < MaxTurns =>
             TurnAt(hist[s], Len(hist[s]) - 2 * (Len(log[s]) - i), q)
    BY <1>9, <2>2 DEF Known, LogStored
  <2>4. log[s] \in Seq(Requests)
    BY DEF Known, MemTypes
  <2>5. Len(log[s]) \in Nat /\ i \in Int
    BY <2>2, <2>4, LenProperties
  <2>6. CASE Len(log[s]) - i < MaxTurns
    BY <1>7, <2>3, <2>6 DEF TurnAt, HoldsTurn
  <2>7. CASE Len(log[s]) - i >= MaxTurns
    BY <2>2, <2>7 DEF Superseded
  <2> QED BY <2>5, <2>6, <2>7, ChatAssumption
<1>10. Grows
  BY <1>2, <1>4, GrowsByCalls
<1>11. ASSUME NEW q \in Requests, q # r PROVE Mem(q)'
  <2>1. CallsStay(q)
    BY <1>1, <1>2, <1>4, <1>11 DEF CallsStay, SessionCalls
  <2>2. Stay(q)
    BY <1>2, <1>4, <1>11, <2>1 DEF Stay
  <2>3. owed[q] \subseteq Requests
    BY DEF Known, MemTypes
  <2> QED BY <1>1, <1>10, <2>2, <2>3, MemStays DEF Known
<1>12. Mem(r)'
  <2>1. Remembers(r)'
    BY <1>1, <1>2 DEF Mem, Remembers, Superseded
  <2>2. HistoryKnown(r)'
    BY <1>2, <1>6, <1>7, <1>8, <1>9 DEF HistoryKnown, Superseded
  <2>3. \A q \in owed'[r] : /\ phase'[PutCall(q)] = "ok" /\ route'[q] # "idle"
                            /\ input'[q].session = input'[r].session
    BY <1>1, <1>2, <1>4 DEF SessionCalls, Known, MemTypes
  <2>4. SessionCalls(r)'
    BY <1>1, <1>2, <1>4, <1>5, <2>3 DEF SessionCalls
  <2> QED BY <2>1, <2>2, <2>4 DEF Mem
<1>13. \A z \in Sessions : LogStored(z)'
  BY <1>2, LogStays DEF Known
<1>14. got' \in [Calls -> Seq(Messages) \cup {None}]
  BY <1>2, <1>3, <1>4, <1>7 DEF Known, MemTypes
<1>15. MemTypes'
  BY <1>2, <1>14 DEF MemTypes, Known
<1> QED BY <1>11, <1>12, <1>13, <1>15, MemParts

(* append_messages is performed: the new turn is the last of the session,  *)
(* and it supersedes the one that falls out of the window.                 *)
LEMMA AppendRemembers ==
  ASSUME Known, TurnsInv, NEW r \in Requests, StoreAppends(r) \/ StoreAppendsAgain(r)
  PROVE  MemoryInv'
<1>1. \A q \in Requests : Mem(q) /\ SessionCalls(q)
  BY DEF Known, Mem
<1>2. /\ input' = input /\ route' = route /\ prompt' = prompt
      /\ owed' = owed /\ faded' = faded /\ op' = op /\ got' = got
      /\ log' = [log EXCEPT ![input[r].session] = Append(@, r)]
      /\ live' = [live EXCEPT ![op[PutCall(r)].session] = TRUE]
  BY DEF StoreAppends, Store!ApplyWrite, StoreAppendsAgain, Store!ApplyAgain,
         Store!Write, RequestsUnchanged
<1>3. \A q \in Requests : /\ GetCall(q) \in Calls /\ PutCall(q) \in Calls
                          /\ GetCall(q) # PutCall(r)
                          /\ q # r => PutCall(q) # PutCall(r)
  BY DEF Calls, GetCall, PutCall
<1>4. /\ \A q \in Requests : phase'[GetCall(q)] = phase[GetCall(q)]
      /\ \A q \in Requests : q # r => phase'[PutCall(q)] = phase[PutCall(q)]
      /\ \A q \in Requests : phase[PutCall(q)] = "ok" => phase'[PutCall(q)] = "ok"
      /\ phase[PutCall(r)] # "idle"
  <2>1. CASE StoreAppends(r)
    BY <1>3, <2>1 DEF Known, StoreAppends, Store!ApplyWrite, Store!Take
  <2>2. CASE StoreAppendsAgain(r)
    BY <2>2 DEF StoreAppendsAgain, Store!ApplyAgain, TurnsInv, CalledFirst, Twice
  <2> QED BY <2>1, <2>2
<1>5. route[r] # "idle" /\ op[PutCall(r)].session = input[r].session
  BY <1>1, <1>4 DEF SessionCalls
<1>6. PICK s \in Sessions : s = input[r].session
  BY <1>5 DEF Known, Arrived, Input
<1>7. PICK n \in Nat : n = AtLeastZero(MaxTurns * 2)
  BY ChatAssumption DEF AtLeastZero
<1>8. PICK g : g = Recent(hist[s] \o <<UserMessage(r), AssistantMessage(r)>>, n)
  OBVIOUS
<1>9. hist' = [hist EXCEPT ![s] = g]
  BY <1>5, <1>6, <1>7, <1>8, AppendWrites
<1>10. PICK l \in Seq(Requests) : l = log[s]
  BY DEF Known, MemTypes
<1>11. /\ Len(l) \in Nat /\ Append(l, r) \in Seq(Requests) /\ Len(Append(l, r)) = Len(l) + 1
       /\ \A i \in 1 .. Len(l) : Append(l, r)[i] = l[i]
       /\ Append(l, r)[Len(l) + 1] = r /\ DOMAIN l = 1 .. Len(l)
       /\ DOMAIN Append(l, r) = 1 .. Len(l) + 1
  BY LenProperties, AppendProperties
<1>12. /\ log'[s] = Append(l, r) /\ hist'[s] = g /\ live'[s] = TRUE
       /\ \A z \in Sessions : z # s => log'[z] = log[z] /\ hist'[z] = hist[z] /\ live'[z] = live[z]
  BY <1>2, <1>5, <1>6, <1>9, <1>10 DEF Known, MemTypes
<1>13. ASSUME NEW z \in Sessions, NEW q \in Requests
       PROVE  /\ Superseded(q, z) => Superseded(q, z)'
              /\ InLog(q, z) => InLog(q, z)'
  <2>1. CASE z # s
    BY <1>12, <2>1 DEF Superseded, InLog
  <2>2. CASE z = s
    <3>1. \A i \in DOMAIN l : /\ i \in DOMAIN Append(l, r) /\ Append(l, r)[i] = l[i]
                              /\ Len(l) - i >= MaxTurns => Len(Append(l, r)) - i >= MaxTurns
      BY <1>11, ChatAssumption
    <3> QED BY <1>10, <1>12, <2>2, <3>1 DEF Superseded, InLog
  <2> QED BY <2>1, <2>2
<1>14. Grows
  BY <1>2, <1>4, <1>13 DEF Grows
<1>15. \A q \in Requests : owed[q] \subseteq Requests
  BY DEF Known, MemTypes
<1>16. ASSUME NEW q \in Requests, q # r PROVE Mem(q)'
  <2>1. CallsStay(q)
    BY <1>1, <1>2, <1>4, <1>16 DEF CallsStay, SessionCalls
  <2>2. Stay(q)
    BY <1>2, <2>1 DEF Stay
  <2> QED BY <1>1, <1>14, <1>15, <2>2, MemStays DEF Known
<1>17. Mem(r)'
  <2>1. \A q \in owed[r] : Superseded(q, s) => Superseded(q, s)'
    BY <1>13, <1>15
  <2>2. Remembers(r)'
    <3>1. Remembers(r) /\ prompt' = prompt /\ owed' = owed /\ input' = input /\ faded' = faded
      BY <1>1, <1>2 DEF Mem
    <3>2. \A q \in owed[r] : Superseded(q, input[r].session) => Superseded(q, input[r].session)'
      BY <1>6, <2>1, <3>1 DEF Superseded
    <3> QED BY <3>1, <3>2 DEF Remembers
  <2>3. HistoryKnown(r)'
    <3>1. SUFFICES ASSUME phase'[GetCall(r)] = "applied" PROVE HistoryKnown(r)'
      BY DEF HistoryKnown
    <3>2. phase[GetCall(r)] = "applied" /\ HistoryKnown(r)
      BY <1>1, <1>4, <3>1 DEF Mem
    <3>3. \A q \in owed[r] \ faded : HoldsTurn(got[GetCall(r)], q) \/ Superseded(q, s)'
      BY <1>6, <2>1, <3>2 DEF HistoryKnown
    <3> QED BY <1>2, <1>6, <3>2, <3>3 DEF HistoryKnown, Superseded
  <2>4. \A q \in owed'[r] : /\ phase'[PutCall(q)] = "ok" /\ route'[q] # "idle"
                            /\ input'[q].session = input'[r].session
    BY <1>1, <1>2, <1>4, <1>15 DEF SessionCalls
  <2>5. \E i \in DOMAIN log'[input'[r].session] : log'[input'[r].session][i] = r
    <3>1. Len(l) + 1 \in DOMAIN Append(l, r)
      BY <1>11
    <3> QED BY <1>2, <1>6, <1>11, <1>12, <3>1
  <2>6. SessionCalls(r)'
    <3>1. route'[r] # "idle"
      BY <1>2, <1>5
    <3>2. phase'[GetCall(r)] # "idle" => op'[GetCall(r)].session = input'[r].session
      BY <1>1, <1>2, <1>4 DEF SessionCalls
    <3>3. op'[PutCall(r)].session = input'[r].session
      BY <1>2, <1>5
    <3> QED BY <2>4, <2>5, <3>1, <3>2, <3>3 DEF SessionCalls
  <2> QED BY <2>2, <2>3, <2>6 DEF Mem
<1>18. LogStored(s)'
  <2>1. /\ n >= 2 => TurnAt(g, Len(g), r)
        /\ \A d \in Nat : \A q : 2 * d + 4 <= n /\ TurnAt(hist[s], Len(hist[s]) - 2 * d, q) =>
             TurnAt(g, Len(g) - 2 * (d + 1), q)
    BY <1>8, TurnsShift DEF Known
  <2>2. ASSUME NEW i \in 1 .. Len(l) + 1, Append(l, r)[i] \notin faded,
               Len(l) + 1 - i < MaxTurns
        PROVE  TurnAt(g, Len(g) - 2 * (Len(l) + 1 - i), Append(l, r)[i])
    <3>1. CASE i = Len(l) + 1
      <4>1. n >= 2 /\ 2 * (Len(l) + 1 - i) = 0
        BY <1>7, <1>11, <2>2, <3>1, ChatAssumption DEF AtLeastZero
      <4>2. Len(g) \in Nat
        BY <2>1, <4>1 DEF TurnAt
      <4>3. Len(g) - 2 * (Len(l) + 1 - i) = Len(g)
        BY <4>1, <4>2
      <4> QED BY <1>11, <2>1, <3>1, <4>1, <4>3
    <3>2. CASE i # Len(l) + 1
      <4>0. Len(l) - i \in Nat
        BY <1>11, <3>2
      <4>1. PICK d \in Nat : d = Len(l) - i
        BY <4>0
      <4>2. i \in DOMAIN log[s] /\ Append(l, r)[i] = l[i] /\ d + 1 < MaxTurns /\ d < MaxTurns
        BY <1>10, <1>11, <2>2, <3>2, <4>1, ChatAssumption
      <4>3. TurnAt(hist[s], Len(hist[s]) - 2 * d, l[i])
        BY <1>10, <2>2, <4>1, <4>2 DEF Known, LogStored
      <4>4. 2 * d + 4 <= n /\ Len(l) + 1 - i = d + 1
        BY <1>7, <1>11, <4>1, <4>2, ChatAssumption DEF AtLeastZero
      <4>5. TurnAt(g, Len(g) - 2 * (d + 1), l[i])
        BY <2>1, <4>3, <4>4
      <4> QED BY <4>2, <4>4, <4>5
    <3> QED BY <3>1, <3>2
  <2>3. ASSUME NEW i \in DOMAIN log'[s], log'[s][i] \notin faded'
        PROVE  /\ live'[s]
               /\ Len(log'[s]) - i < MaxTurns =>
                    TurnAt(hist'[s], Len(hist'[s]) - 2 * (Len(log'[s]) - i), log'[s][i])
    <3>1. /\ log'[s] = Append(l, r) /\ hist'[s] = g /\ live'[s] /\ Len(log'[s]) = Len(l) + 1
          /\ i \in 1 .. Len(l) + 1 /\ Append(l, r)[i] \notin faded
      BY <1>2, <1>11, <1>12, <2>3
    <3> QED BY <2>2, <3>1
  <2> QED BY <2>3 DEF LogStored
<1>19. \A z \in Sessions : LogStored(z)'
  <2>1. ASSUME NEW z \in Sessions, z # s PROVE LogStored(z)'
    BY <1>2, <1>12, <2>1, LogStays DEF Known
  <2> QED BY <1>18, <2>1
<1>20. MemTypes'
  <2>1. live' \in [Sessions -> BOOLEAN]
    BY <1>2, <1>5, <1>6 DEF Known, MemTypes
  <2>2. log' \in [Sessions -> Seq(Requests)]
    BY <1>2, <1>6, <1>10, <1>11 DEF Known, MemTypes
  <2> QED BY <1>2, <2>1, <2>2 DEF MemTypes, Known
<1> QED BY <1>16, <1>17, <1>19, <1>20, MemParts

(* A session expires: every turn stored in it fades.                       *)
LEMMA ExpiryFades ==
  ASSUME Known, NEW s \in Sessions, SessionExpires(s)
  PROVE  MemoryInv'
<1>1. \A q \in Requests : Mem(q) /\ SessionCalls(q)
  BY DEF Known, Mem
<1>2. /\ input' = input /\ route' = route /\ prompt' = prompt
      /\ owed' = owed /\ log' = log /\ op' = op /\ got' = got /\ phase' = phase
      /\ faded' = faded \cup {log[s][i] : i \in DOMAIN log[s]}
      /\ live' = [live EXCEPT ![s] = FALSE]
      /\ hist' \in {hist, [hist EXCEPT ![s] = << >>]}
  BY DEF SessionExpires, Store!Expire, RequestsUnchanged
<1>3. Grows
  BY <1>2 DEF Grows, Superseded, InLog
<1>4. \A q \in Requests : Stay(q)
  BY <1>1, <1>2 DEF Stay, CallsStay, SessionCalls
<1>5. \A q \in Requests : owed[q] \subseteq Requests
  BY DEF Known, MemTypes
<1>6. \A q \in Requests : Mem(q)'
  BY <1>1, <1>3, <1>4, <1>5, MemStays DEF Known
<1>7. ASSUME NEW z \in Sessions PROVE LogStored(z)'
  <2>1. CASE z = s
    <3>1. \A i \in DOMAIN log'[z] : log'[z][i] \in faded'
      BY <1>2, <2>1
    <3> QED BY <3>1 DEF LogStored
  <2>2. CASE z # s
    <3>1. hist'[z] = hist[z] /\ live'[z] = live[z]
      BY <1>2, <2>2 DEF Known, MemTypes
    <3> QED BY <1>2, <3>1, LogStays DEF Known
  <2> QED BY <2>1, <2>2
<1>8. MemTypes'
  BY <1>2 DEF MemTypes, Known
<1> QED BY <1>6, <1>7, <1>8, MemParts

(* No request, no call and no turn at the start.                           *)
LEMMA MemoryInit == Init => MemoryInv
<1> SUFFICES ASSUME Init PROVE MemoryInv
  OBVIOUS
<1>1. /\ live = [s \in Sessions |-> FALSE] /\ got = [c \in Calls |-> None]
      /\ phase = [c \in Calls |-> "idle"] /\ log = [s \in Sessions |-> << >>]
      /\ prompt = [r \in Requests |-> << >>] /\ owed = [r \in Requests |-> {}]
  BY DEF Init, Store!Init, Calls
<1>2. \A r \in Requests : GetCall(r) \in Calls /\ PutCall(r) \in Calls
  BY DEF GetCall, PutCall, Calls
<1>3. MemTypes
  <2>1. << >> \in Seq(Messages) /\ << >> \in Seq(Requests)
    BY EmptySeq
  <2> QED BY <1>1, <2>1 DEF MemTypes
<1>4. ASSUME NEW r \in Requests PROVE Mem(r)
  <2>1. /\ prompt[r] = << >> /\ owed[r] = {}
        /\ phase[GetCall(r)] = "idle" /\ phase[PutCall(r)] = "idle"
    BY <1>1, <1>2
  <2> QED BY <2>1 DEF Mem, Remembers, SessionCalls, HistoryKnown
<1>5. \A s \in Sessions : LogStored(s)
  <2>1. \A s \in Sessions : DOMAIN log[s] = {}
    BY <1>1
  <2> QED BY <2>1 DEF LogStored
<1> QED BY <1>3, <1>4, <1>5, MemParts

(* A service that raises moves its route on.                               *)
LEMMA RaiseMovesOn ==
  ASSUME NEW r \in Requests,
         \/ Raise(r) \/ \E res : Reply(r, res) \/ CloseStream(r, res)
         \/ \E e, at : Emit(r, e, at) \/ Await(r, at)
  PROVE  MovesOn(r)
  BY DEF Raise, Reply, CloseStream, Emit, Await, MovesOn

(* A call given up is one of the calls that write nothing.                 *)
LEMMA AbandonAsks ==
  ASSUME NEW r \in Requests, AbandonCall(r)
  PROVE  Asks(r)
  BY DEF AbandonCall, Asks

(* Every step keeps what the prompts remember.                             *)
LEMMA MemoryNext == ChatInv /\ TurnsInv /\ MemoryInv /\ [Next]_vars => MemoryInv'
<1> SUFFICES ASSUME ChatInv, TurnsInv, MemoryInv, [Next]_vars PROVE MemoryInv'
  OBVIOUS
<1>1. Known
  BY KnownHolds
<1>2. ASSUME NEW r \in Requests, NEW i \in Inputs,
             ArriveChat(r, i) \/ ArriveStream(r, i) \/ ArriveGone(r, i)
      PROVE  MemoryInv'
  BY <1>1, <1>2, ArrivalRemembers
<1>3. ASSUME NEW r \in Requests, HistoryRead(r) PROVE MemoryInv'
  BY <1>1, <1>3, HistoryReadRemembers
<1>4. ASSUME NEW r \in Requests, HistoryFailed(r) \/ LLMFailed(r) PROVE MemoryInv'
  <2>1. /\ route[r] # "idle" /\ Raise(r) /\ Asks(r)
        /\ input' = input /\ prompt' = prompt /\ UNCHANGED ghostVars
    BY <1>4 DEF HistoryFailed, LLMFailed, Running, Asks
  <2> QED BY <1>1, <2>1, RaiseMovesOn, RequestStep
<1>5. ASSUME NEW r \in Requests, NEW t \in Answers,
             LLMAnswered(r, t) \/ \E n \in 0 .. MaxChunks : LLMStreams(r, t, n)
      PROVE  MemoryInv'
  <2>1. /\ route[r] # "idle" /\ Asks(r)
        /\ input' = input /\ prompt' = prompt /\ UNCHANGED ghostVars
    BY <1>5 DEF LLMAnswered, LLMStreams, Running, Asks
  <2>2. MovesOn(r)
    BY <1>5, RaiseMovesOn DEF LLMAnswered, LLMStreams
  <2> QED BY <1>1, <2>1, <2>2, RequestStep
<1>6. ASSUME NEW r \in Requests, TurnStored(r) \/ TurnNotStored(r) PROVE MemoryInv'
  <2>1. /\ route[r] # "idle" /\ Asks(r)
        /\ input' = input /\ prompt' = prompt /\ UNCHANGED ghostVars
    BY <1>6 DEF TurnStored, TurnNotStored, Running, Asks
  <2>2. MovesOn(r)
    BY <1>6, RaiseMovesOn DEF TurnStored, TurnNotStored
  <2> QED BY <1>1, <2>1, <2>2, RequestStep
<1>7. ASSUME NEW r \in Requests, NEW res \in {"success", "failure"}, Synthesized(r, res)
      PROVE  MemoryInv'
  <2>1. /\ route[r] # "idle" /\ Asks(r)
        /\ input' = input /\ prompt' = prompt /\ UNCHANGED ghostVars
    BY <1>7 DEF Synthesized, Running, Asks
  <2>2. MovesOn(r)
    BY <1>7, RaiseMovesOn DEF Synthesized
  <2> QED BY <1>1, <2>1, <2>2, RequestStep
<1>8. ASSUME NEW r \in Requests, Resume(r) PROVE MemoryInv'
  <2>1. CASE ResumeEnd(r) \/ ResumeTimeout(r)
    <3>1. /\ route[r] # "idle" /\ Asks(r)
          /\ input' = input /\ prompt' = prompt /\ UNCHANGED ghostVars
      BY <2>1 DEF ResumeEnd, ResumeTimeout, Asks
    <3>2. MovesOn(r)
      BY <2>1 DEF ResumeEnd, ResumeTimeout, CloseStream, MovesOn
    <3> QED BY <1>1, <3>1, <3>2, RequestStep
  <2>2. CASE ResumeStart(r)
    <3>1. /\ route[r] # "idle" /\ Asks(r)
          /\ input' = input /\ prompt' = prompt /\ UNCHANGED ghostVars
      BY <2>2 DEF ResumeStart, Asks
    <3>2. MovesOn(r)
      BY <2>2, RaiseMovesOn DEF ResumeStart
    <3> QED BY <1>1, <3>1, <3>2, RequestStep
  <2>3. CASE ResumeToken(r)
    <3>1. /\ route[r] # "idle" /\ Asks(r)
          /\ input' = input /\ prompt' = prompt /\ UNCHANGED ghostVars
      BY <2>3 DEF ResumeToken, Asks
    <3>2. MovesOn(r)
      BY <2>3, RaiseMovesOn DEF ResumeToken
    <3> QED BY <1>1, <3>1, <3>2, RequestStep
  <2> QED BY <1>8, <2>1, <2>2, <2>3 DEF Resume
<1>9. ASSUME NEW r \in Requests, WaitTimeout(r) \/ CancelWaiting(r) \/ CancelChat(r)
      PROVE  MemoryInv'
  <2>1. /\ route[r] # "idle" /\ AbandonCall(r)
        /\ input' = input /\ prompt' = prompt /\ UNCHANGED ghostVars
    BY <1>9 DEF WaitTimeout, CancelWaiting, CancelChat
  <2>2. MovesOn(r)
    BY <1>9 DEF WaitTimeout, CancelWaiting, CancelChat, CloseStream, MovesOn
  <2> QED BY <1>1, <2>1, <2>2, AbandonAsks, RequestStep
<1>10. ASSUME NEW r \in Requests, TimePasses(r) \/ ClientLeaves(r) \/ CancelSending(r)
       PROVE  MemoryInv'
  <2>1. /\ route[r] # "idle" /\ Asks(r)
        /\ input' = input /\ prompt' = prompt /\ UNCHANGED ghostVars
    BY <1>10 DEF TimePasses, ClientLeaves, CancelSending, Asks
  <2>2. MovesOn(r)
    BY <1>10 DEF TimePasses, ClientLeaves, CancelSending, CloseStream, MovesOn
  <2> QED BY <1>1, <2>1, <2>2, RequestStep
<1>11. ASSUME NEW r \in Requests, StoreReads(r) \/ StoreAppends(r) \/ StoreAppendsAgain(r)
       PROVE  MemoryInv'
  BY <1>1, <1>11, ReadRemembers, AppendRemembers
<1>12. ASSUME NEW s \in Sessions, SessionExpires(s) PROVE MemoryInv'
  BY <1>1, <1>12, ExpiryFades
<1>13. CASE UNCHANGED vars
  BY <1>13 DEF vars, storeVars, ghostVars, MemoryInv, PromptRemembers, Superseded,
               SessionCalls, HistoryKnown, LogStored
<1>14. ASSUME NEW r \in Requests, StoreResends(r) PROVE MemoryInv'
  <2>1. /\ Asks(r) /\ MovesOn(r) /\ phase[PutCall(r)] # "idle"
        /\ input' = input /\ prompt' = prompt /\ UNCHANGED ghostVars
    BY <1>14 DEF StoreResends, Store!Resend, RequestsUnchanged, Asks, MovesOn
  <2>2. route[r] # "idle"
    BY <2>1 DEF MemoryInv, SessionCalls
  <2> QED BY <1>1, <2>1, <2>2, RequestStep
<1> QED BY <1>2, <1>3, <1>4, <1>5, <1>6, <1>7, <1>8, <1>9, <1>10, <1>11, <1>12, <1>13,
           <1>14 DEF Next

(* MemoryInv is an invariant of the specification.                         *)
LEMMA SpecMemory == Spec => []MemoryInv
  BY MemoryInit, MemoryNext, SpecInv, SpecTurns, PTL DEF Spec

(* Conversation memory: a turn the client saw acknowledged before it sent  *)
(* its next message is in that message's prompt, unless MAX_HISTORY_TURNS  *)
(* newer turns were stored or the session expired, for any number of       *)
(* overlapping requests and any window.                                    *)
THEOREM PromptsRemember == Spec => []PromptRemembers
<1>1. MemoryInv => PromptRemembers
  BY DEF MemoryInv
<1> QED BY <1>1, SpecMemory, PTL

-----------------------------------------------------------------------------
(* Whose turns a prompt is made of.                                        *)

(* A turn that was to be stored still is.                                  *)
Firm ==
  \A q \in Requests : phase[PutCall(q)] # "idle" =>
                        phase'[PutCall(q)] # "idle" /\ input'[q] = input[q]

(* Past turns remain past turns.                                           *)
LEMMA PastStays ==
  ASSUME NEW r \in Requests, NEW h, PastTurns(h, r), input'[r] = input[r], Firm
  PROVE  PastTurns(h, r)'
<1>1. PICK m \in 0 .. AtLeastZero(MaxTurns) :
        /\ Len(h) = 2 * m
        /\ \A k \in 1 .. m : \E q \in Requests \ {r} :
             /\ h[2*k-1] = UserMessage(q) /\ h[2*k] = AssistantMessage(q)
             /\ Asked(q, input[r].session)
  BY DEF PastTurns
<1>2. \A q \in Requests : Asked(q, input[r].session) =>
                            phase'[PutCall(q)] # "idle" /\ input'[q].session = input'[r].session
  BY DEF Firm, Asked
<1>3. \A k \in 1 .. m : \E q \in Requests \ {r} :
        /\ h[2*k-1] = UserMessage(q) /\ h[2*k] = AssistantMessage(q)
        /\ phase'[PutCall(q)] # "idle" /\ input'[q].session = input'[r].session
  BY <1>1, <1>2
<1> QED BY <1>1, <1>3 DEF PastTurns, Asked

(* A session that is not written still holds turns of its own requests.    *)
LEMMA OwnTurnsStay ==
  ASSUME NEW s \in Sessions, hist[s] \in Seq(Messages), OwnTurns(s), hist'[s] = hist[s], Firm
  PROVE  OwnTurns(s)'
<1> SUFFICES ASSUME NEW i \in DOMAIN hist'[s] PROVE Asked(hist[s][i][1], s)'
  BY DEF OwnTurns
<1>1. hist[s][i] \in Messages /\ Asked(hist[s][i][1], s)
  BY DEF OwnTurns
<1>2. PICK q \in Requests : q = hist[s][i][1] /\ q = hist'[s][i][1]
  BY <1>1 DEF Messages
<1> QED BY <1>1, <1>2 DEF Asked, Firm

(* A step leaves what was read for q, and q's prompt.                      *)
ReadSame(q) ==
  /\ input'[q] = input[q] /\ prompt'[q] = prompt[q]
  /\ got'[GetCall(q)] = got[GetCall(q)]
  /\ phase'[GetCall(q)] = "applied" => phase[GetCall(q)] = "applied"

(* They are of past turns as before.                                       *)
LEMMA ReadStays ==
  ASSUME NEW q \in Requests, HistoryRight(q), PromptRight(q), ReadSame(q), Firm
  PROVE  HistoryRight(q)' /\ PromptRight(q)'
<1>1. ASSUME phase'[GetCall(q)] = "applied" PROVE PastTurns(got[GetCall(q)], q)'
  <2>1. PICK h : h = got[GetCall(q)] /\ h = got'[GetCall(q)]
    BY DEF ReadSame
  <2>2. PastTurns(h, q)
    BY <1>1, <2>1 DEF ReadSame, HistoryRight
  <2>3. PastTurns(h, q)'
    BY <2>2, PastStays DEF ReadSame
  <2> QED BY <2>1, <2>3 DEF PastTurns
<1>2. ASSUME prompt'[q] # << >>
      PROVE  \E h \in Seq(Messages) : PastTurns(h, q)' /\ prompt'[q] = Append(h, UserMessage(q))
  <2>1. PICK h \in Seq(Messages) : PastTurns(h, q) /\ prompt[q] = Append(h, UserMessage(q))
    BY <1>2 DEF ReadSame, PromptRight
  <2>2. PastTurns(h, q)'
    BY <2>1, PastStays DEF ReadSame
  <2> QED BY <2>1, <2>2 DEF ReadSame
<1> QED BY <1>1, <1>2 DEF HistoryRight, PromptRight

(* A step leaves q's service where it is, and its calls as far as they got. *)
ServiceSame(q) ==
  /\ svc'[q] = svc[q] /\ input'[q] = input[q] /\ text'[q] = text[q]
  /\ phase'[PutCall(q)] = "idle" <=> phase[PutCall(q)] = "idle"
  /\ phase[GetCall(q)] = "ok" => phase'[GetCall(q)] = "ok"

(* Its progress is the same.                                               *)
LEMMA ProgressStays ==
  ASSUME NEW q \in Requests, Progress(q), ServiceSame(q)
  PROVE  Progress(q)'
  BY DEF Progress, ServiceSame

Over == {"put", "tts", "done", "error", "ended"}

(* The service of r stores no new turn and goes past the LLM's answer.     *)
LEMMA ProgressEnds ==
  ASSUME NEW r \in Requests, Progress(r), svc'[r] \in Over, input'[r] = input[r],
         phase'[PutCall(r)] # "idle" => phase[PutCall(r)] # "idle" /\ text'[r] = text[r],
         phase[GetCall(r)] = "ok" => phase'[GetCall(r)] = "ok"
  PROVE  Progress(r)'
  BY DEF Progress, Over

(* What the calls of r do to the calls, and that they write nothing.       *)
LEMMA AskEffect ==
  ASSUME phase \in [Calls -> Phases], NEW r \in Requests, Asks(r)
  PROVE  /\ hist' = hist /\ got' = got
         /\ \A q \in Requests : q # r => /\ phase'[GetCall(q)] = phase[GetCall(q)]
                                         /\ phase'[PutCall(q)] = phase[PutCall(q)]
         /\ phase'[GetCall(r)] = "applied" => phase[GetCall(r)] = "applied"
         /\ phase[GetCall(r)] = "ok" => phase'[GetCall(r)] = "ok"
         /\ phase[PutCall(r)] # "idle" => phase'[PutCall(r)] # "idle"
         /\ CallStoreTurn(r) \/ (phase'[PutCall(r)] # "idle" => phase[PutCall(r)] # "idle")
<1>1. \A q \in Requests : /\ GetCall(q) \in Calls /\ PutCall(q) \in Calls
                          /\ GetCall(q) # PutCall(r) /\ PutCall(q) # GetCall(r)
                          /\ q # r => GetCall(q) # GetCall(r) /\ PutCall(q) # PutCall(r)
  BY DEF Calls, GetCall, PutCall
<1>2. CASE UNCHANGED storeVars
  BY <1>2 DEF storeVars
<1>3. CASE \E c \in {GetCall(r), PutCall(r)} :
             Store!Return(c) \/ Store!Raise(c) \/ Store!Abandon(c) \/ Store!Resend(PutCall(r))
  <2>1. PICK c \in {GetCall(r), PutCall(r)}, x \in {"ok", "error", "lost", "called"} :
          /\ hist' = hist /\ got' = got /\ phase' = [phase EXCEPT ![c] = x]
          /\ phase[c] \in {"called", "applied"}
    BY <1>3 DEF Store!Return, Store!Raise, Store!Abandon, Store!Resend
  <2>2. \A d \in Calls : phase'[d] = IF d = c THEN x ELSE phase[d]
    BY <2>1
  <2> QED BY <1>1, <2>1, <2>2
<1>4. CASE CallGetHistory(r, input[r].session)
  <2>1. /\ hist' = hist /\ got' = got /\ phase[GetCall(r)] = "idle"
        /\ \A d \in Calls : phase'[d] = IF d = GetCall(r) THEN "called" ELSE phase[d]
    BY <1>1, <1>4 DEF CallGetHistory, Store!Call
  <2> QED BY <1>1, <2>1
<1>5. CASE CallStoreTurn(r)
  <2>1. /\ hist' = hist /\ got' = got
        /\ \A d \in Calls : phase'[d] = IF d = PutCall(r) THEN "called" ELSE phase[d]
    BY <1>1, <1>5 DEF CallStoreTurn, Store!Call
  <2> QED BY <1>1, <1>5, <2>1
<1> QED BY <1>2, <1>3, <1>4, <1>5 DEF Asks

(* Only the service of r moves, and only its answer changes.               *)
Alone(r) == \A q \in Requests : q # r => svc'[q] = svc[q] /\ text'[q] = text[q]

(* A step of the route or the service that reads and writes no history.    *)
LEMMA ConversationGoesOn ==
  ASSUME Known, ConversationInv, NEW r \in Requests, Asks(r), Alone(r),
         input' = input, prompt' = prompt, Progress(r)'
  PROVE  ConversationInv'
<1>1. /\ hist' = hist /\ got' = got
      /\ \A q \in Requests : q # r => /\ phase'[GetCall(q)] = phase[GetCall(q)]
                                      /\ phase'[PutCall(q)] = phase[PutCall(q)]
      /\ phase'[GetCall(r)] = "applied" => phase[GetCall(r)] = "applied"
      /\ phase[PutCall(r)] # "idle" => phase'[PutCall(r)] # "idle"
  BY AskEffect DEF Known
<1>2. Firm
  BY <1>1 DEF Firm
<1>3. \A q \in Requests : ReadSame(q)
  BY <1>1 DEF ReadSame
<1>4. \A q \in Requests : HistoryRight(q)' /\ PromptRight(q)'
  BY <1>2, <1>3, ReadStays DEF ConversationInv
<1>5. ASSUME NEW q \in Requests, q # r PROVE Progress(q)'
  <2>1. ServiceSame(q)
    BY <1>1, <1>5 DEF ServiceSame, Alone
  <2> QED BY <2>1, ProgressStays DEF ConversationInv
<1>6. \A s \in Sessions : OwnTurns(s)'
  BY <1>1, <1>2, OwnTurnsStay DEF ConversationInv, Known
<1> QED BY <1>4, <1>5, <1>6 DEF ConversationInv

(* The answers of the store and callers that give up.                      *)
Hears(r) ==
  \/ UNCHANGED storeVars
  \/ \E c \in {GetCall(r), PutCall(r)} : Store!Return(c) \/ Store!Raise(c) \/ Store!Abandon(c)

(* They open no call.                                                      *)
LEMMA HearsOnly ==
  ASSUME phase \in [Calls -> Phases], NEW r \in Requests, Hears(r)
  PROVE  Asks(r) /\ (phase'[PutCall(r)] # "idle" => phase[PutCall(r)] # "idle")
<1>1. Asks(r)
  BY DEF Hears, Asks
<1>2. CASE UNCHANGED storeVars
  BY <1>1, <1>2 DEF storeVars
<1>3. ASSUME NEW c \in {GetCall(r), PutCall(r)},
             Store!Return(c) \/ Store!Raise(c) \/ Store!Abandon(c)
      PROVE  phase'[PutCall(r)] # "idle" => phase[PutCall(r)] # "idle"
  <2>1. phase[c] # "idle" /\ \E x : phase' = [phase EXCEPT ![c] = x]
    BY <1>3 DEF Store!Return, Store!Raise, Store!Abandon
  <2> QED BY <2>1
<1> QED BY <1>1, <1>2, <1>3 DEF Hears

Ends(r) == \E x \in Over : svc' = [svc EXCEPT ![r] = x]

(* The ways in which the service of a request ends or leaves its last      *)
(* event.                                                                  *)
LEMMA ServiceEnds ==
  ASSUME NEW r \in Requests,
         \/ Raise(r) \/ Emit(r, "done", "done") \/ Await(r, "tts")
         \/ \E res : Reply(r, res) \/ CloseStream(r, res)
  PROVE  Ends(r)
  BY DEF Raise, Emit, Reply, CloseStream, Await, Ends, Over

(* The service ends, or stores nothing more.                               *)
LEMMA EndingStep ==
  ASSUME TypeOK, Known, ConversationInv, NEW r \in Requests, Ends(r), Hears(r),
         input' = input, prompt' = prompt,
         \/ text' = text
         \/ svc[r] = "llm" /\ \E t : text' = [text EXCEPT ![r] = t]
  PROVE  ConversationInv'
<1>1. Alone(r) /\ svc'[r] \in Over
  BY DEF TypeOK, Alone, Ends
<1>2. Asks(r) /\ (phase'[PutCall(r)] # "idle" => phase[PutCall(r)] # "idle")
  BY HearsOnly DEF Known
<1>3. phase[GetCall(r)] = "ok" => phase'[GetCall(r)] = "ok"
  BY <1>2, AskEffect DEF Known
<1>4. Progress(r)
  BY DEF ConversationInv
<1>5. phase'[PutCall(r)] # "idle" => phase[PutCall(r)] # "idle" /\ text'[r] = text[r]
  BY <1>2, <1>4 DEF Progress
<1>6. Progress(r)'
  BY <1>1, <1>3, <1>4, <1>5, ProgressEnds
<1> QED BY <1>1, <1>2, <1>6, ConversationGoesOn

(* The service does not move.                                              *)
LEMMA WaitingStep ==
  ASSUME Known, ConversationInv, NEW r \in Requests, Hears(r) \/ Store!Resend(PutCall(r)),
         svc' = svc, text' = text, input' = input, prompt' = prompt
  PROVE  ConversationInv'
<1>1. Asks(r) /\ (phase'[PutCall(r)] # "idle" => phase[PutCall(r)] # "idle")
  <2>1. CASE Hears(r)
    BY <2>1, HearsOnly DEF Known
  <2>2. CASE Store!Resend(PutCall(r))
    BY <2>2 DEF Asks, Store!Resend
  <2> QED BY <2>1, <2>2
<1>2. /\ phase[GetCall(r)] = "ok" => phase'[GetCall(r)] = "ok"
      /\ phase[PutCall(r)] # "idle" => phase'[PutCall(r)] # "idle"
  BY <1>1, AskEffect DEF Known
<1>3. Progress(r)'
  BY <1>1, <1>2, ProgressStays DEF ServiceSame, ConversationInv
<1> QED BY <1>1, <1>3, ConversationGoesOn DEF Alone

(* The service has its answer and stores the turn.                         *)
LEMMA StoringStep ==
  ASSUME TypeOK, Known, ConversationInv, NEW r \in Requests, svc[r] \in {"llm", "token"},
         Await(r, "put"), CallStoreTurn(r), input' = input, prompt' = prompt,
         text' = text \/ \E t : text' = [text EXCEPT ![r] = t],
         text'[r] \in {"ok", "blank"}
  PROVE  ConversationInv'
<1>1. Alone(r) /\ svc'[r] = "put"
  BY DEF TypeOK, Alone, Await
<1>2. Asks(r)
  BY DEF Asks
<1>3. phase'[GetCall(r)] = "ok" /\ ~ input[r].blank
  BY <1>2, AskEffect DEF Known, ConversationInv, Progress
<1>4. text'[r] \notin {"empty", None}
  BY NoneAssumption
<1>5. Progress(r)'
  BY <1>1, <1>3, <1>4 DEF Progress
<1> QED BY <1>1, <1>2, <1>5, ConversationGoesOn

(* A token reaches the route.                                              *)
LEMMA TokenStep ==
  ASSUME TypeOK, Known, ConversationInv, NEW r \in Requests, UNCHANGED storeVars,
         Emit(r, "token", "token"), input' = input, prompt' = prompt,
         \/ svc[r] = "llm" /\ \E t : text' = [text EXCEPT ![r] = t]
         \/ svc[r] = "token" /\ text' = text
  PROVE  ConversationInv'
<1>1. Hears(r) /\ Asks(r) /\ phase' = phase
  BY DEF Hears, Asks, storeVars
<1>2. CASE svc' = [svc EXCEPT ![r] = "ended"]
  BY <1>1, <1>2, EndingStep DEF Ends, Over
<1>3. CASE svc' = [svc EXCEPT ![r] = "token"]
  <2>1. Alone(r) /\ svc'[r] = "token"
    BY <1>3 DEF TypeOK, Alone
  <2>2. Progress(r)'
    BY <1>1, <2>1 DEF ConversationInv, Progress
  <2> QED BY <1>1, <2>1, <2>2, ConversationGoesOn
<1> QED BY <1>2, <1>3 DEF Emit, CloseStream

(* After "start" the service reads the history.                            *)
LEMMA StartingStep ==
  ASSUME TypeOK, Known, ConversationInv, NEW r \in Requests, ResumeStart(r)
  PROVE  ConversationInv'
<1>1. input' = input /\ text' = text /\ prompt' = prompt /\ svc[r] = "start"
  BY DEF ResumeStart
<1>2. CASE Raise(r) /\ UNCHANGED storeVars
  BY <1>1, <1>2, ServiceEnds, EndingStep DEF Hears
<1>3. CASE ~ input[r].blank /\ Await(r, "get") /\ CallGetHistory(r, input[r].session)
  <2>1. Alone(r) /\ svc'[r] = "get"
    BY <1>1, <1>3 DEF TypeOK, Alone, Await
  <2>2. phase[PutCall(r)] = "idle" /\ PutCall(r) # GetCall(r)
    BY <1>1 DEF ConversationInv, Progress, PutCall, GetCall
  <2>3. phase'[PutCall(r)] = "idle"
    BY <1>3, <2>2 DEF CallGetHistory, Store!Call
  <2>4. Progress(r)'
    BY <1>1, <1>3, <2>1, <2>3 DEF Progress
  <2> QED BY <1>1, <1>3, <2>1, <2>4, ConversationGoesOn DEF Asks
<1> QED BY <1>2, <1>3 DEF ResumeStart

(* get_history has returned: the prompt is what it read, and the message.  *)
LEMMA PromptMade ==
  ASSUME TypeOK, Known, ConversationInv, NEW r \in Requests, HistoryRead(r)
  PROVE  ConversationInv'
<1>1. /\ svc[r] = "get" /\ Store!Return(GetCall(r)) /\ Await(r, "llm")
      /\ input' = input /\ text' = text /\ prompt' = [prompt EXCEPT ![r] = PromptOf(r)]
  BY DEF HistoryRead, Running
<1>2. Hears(r)
  BY <1>1 DEF Hears
<1>3. /\ hist' = hist /\ got' = got
      /\ \A q \in Requests : q # r => /\ phase'[GetCall(q)] = phase[GetCall(q)]
                                      /\ phase'[PutCall(q)] = phase[PutCall(q)]
      /\ phase[PutCall(r)] # "idle" => phase'[PutCall(r)] # "idle"
      /\ phase'[PutCall(r)] # "idle" => phase[PutCall(r)] # "idle"
  BY <1>2, HearsOnly, AskEffect DEF Known
<1>4. phase[GetCall(r)] = "applied" /\ phase'[GetCall(r)] = "ok"
  BY <1>1 DEF Store!Return, Known, Calls, GetCall
<1>5. Firm
  BY <1>1, <1>3 DEF Firm
<1>6. \A q \in Requests : Progress(q) /\ HistoryRight(q) /\ PromptRight(q)
  BY DEF ConversationInv
<1>7. PICK h \in Seq(Messages) : h = got[GetCall(r)] /\ Len(h) <= AtLeastZero(2 * MaxTurns)
  BY <1>4 DEF Known, Mem, HistoryKnown
<1>8. PastTurns(h, r)'
  <2>1. PastTurns(h, r)
    BY <1>4, <1>6, <1>7 DEF HistoryRight
  <2> QED BY <1>1, <1>5, <2>1, PastStays
<1>9. PromptOf(r) = Append(h, UserMessage(r))
  <2>1. UserMessage(r) \in Messages
    BY DEF UserMessage, Messages
  <2> QED BY <1>7, <2>1, PromptIsHistory DEF PromptOf
<1>10. prompt'[r] = Append(h, UserMessage(r)) /\ \A q \in Requests : q # r => prompt'[q] = prompt[q]
  BY <1>1, <1>9 DEF Known, MemTypes
<1>11. HistoryRight(r)' /\ PromptRight(r)'
  BY <1>4, <1>8, <1>10 DEF HistoryRight, PromptRight
<1>12. Progress(r)'
  <2>1. svc'[r] = "llm"
    BY <1>1 DEF Await, TypeOK
  <2> QED BY <1>1, <1>3, <1>4, <1>6, <2>1 DEF Progress
<1>13. ASSUME NEW q \in Requests, q # r PROVE Progress(q)' /\ HistoryRight(q)' /\ PromptRight(q)'
  <2>1. svc'[q] = svc[q]
    BY <1>1, <1>13 DEF Await, TypeOK
  <2>2. ServiceSame(q) /\ ReadSame(q)
    BY <1>1, <1>3, <1>10, <1>13, <2>1 DEF ServiceSame, ReadSame
  <2> QED BY <1>5, <1>6, <2>2, ProgressStays, ReadStays
<1>14. \A s \in Sessions : OwnTurns(s)'
  BY <1>3, <1>5, OwnTurnsStay DEF ConversationInv, Known
<1> QED BY <1>11, <1>12, <1>13, <1>14 DEF ConversationInv

(* A session's turns are past turns for a request whose turn was never to  *)
(* be stored.                                                              *)
LEMMA HistoryIsPast ==
  ASSUME TurnsInv, NEW r \in Requests, NEW s \in Sessions, s = input[r].session,
         OwnTurns(s), phase[PutCall(r)] = "idle"
  PROVE  PastTurns(hist[s], r)
<1>1. r \notin Twice /\ \A i \in DOMAIN hist[s] : hist[s][i][1] # r
  BY DEF TurnsInv, CalledFirst, NotStoredYet
<1>2. PICK m \in 0 .. AtLeastZero(MaxTurns) :
        /\ Len(hist[s]) = 2 * m
        /\ \A k \in 1 .. m : \E q \in Requests : /\ hist[s][2*k-1] = UserMessage(q)
                                               /\ hist[s][2*k] = AssistantMessage(q)
  BY DEF TurnsInv, Turns
<1>3. m \in Nat /\ DOMAIN hist[s] = 1 .. 2 * m
  <2>1. hist[s] \in Seq(Messages) /\ m \in Nat
    BY ChatAssumption DEF TurnsInv, AtLeastZero
  <2> QED BY <1>2, <2>1, LenProperties
<1>4. ASSUME NEW k \in 1 .. m
      PROVE  \E q \in Requests \ {r} : /\ hist[s][2*k-1] = UserMessage(q)
                                       /\ hist[s][2*k] = AssistantMessage(q)
                                       /\ Asked(q, s)
  <2>1. PICK q \in Requests : hist[s][2*k-1] = UserMessage(q) /\ hist[s][2*k] = AssistantMessage(q)
    BY <1>2
  <2>2. 2*k \in DOMAIN hist[s] /\ hist[s][2*k][1] = q
    BY <1>3, <2>1 DEF AssistantMessage
  <2>3. q # r /\ Asked(q, s)
    BY <1>1, <2>2 DEF OwnTurns
  <2> QED BY <2>1, <2>3
<1> QED BY <1>2, <1>4 DEF PastTurns

(* The store reads the history of r's session, or hides it.                *)
LEMMA HistoryReadRight ==
  ASSUME TurnsInv, Known, ConversationInv, NEW r \in Requests, StoreReads(r)
  PROVE  ConversationInv'
<1>1. /\ input' = input /\ svc' = svc /\ text' = text /\ prompt' = prompt /\ hist' = hist
      /\ got' = [got EXCEPT ![GetCall(r)] = Store!Visible(op[GetCall(r)].session)]
      /\ phase[GetCall(r)] \in {"called", "lost"}
      /\ phase' = [phase EXCEPT ![GetCall(r)] = IF @ = "lost" THEN "error" ELSE "applied"]
  BY DEF StoreReads, Store!ApplyGet, Store!Take, RequestsUnchanged
<1>2. \A q \in Requests : /\ GetCall(q) \in Calls /\ PutCall(q) \in Calls
                          /\ PutCall(q) # GetCall(r)
                          /\ q # r => GetCall(q) # GetCall(r)
  BY DEF Calls, GetCall, PutCall
<1>3. /\ \A q \in Requests : phase'[PutCall(q)] = phase[PutCall(q)]
      /\ \A q \in Requests : /\ q # r => phase'[GetCall(q)] = phase[GetCall(q)]
                             /\ q # r => got'[GetCall(q)] = got[GetCall(q)]
      /\ got'[GetCall(r)] = Store!Visible(op[GetCall(r)].session)
  BY <1>1, <1>2 DEF Known, MemTypes
<1>4. Firm
  BY <1>1, <1>3 DEF Firm
<1>5. \A q \in Requests : Progress(q) /\ HistoryRight(q) /\ PromptRight(q)
  BY DEF ConversationInv
<1>6. ASSUME NEW q \in Requests, q # r PROVE Progress(q)' /\ HistoryRight(q)' /\ PromptRight(q)'
  <2>1. ServiceSame(q) /\ ReadSame(q)
    BY <1>1, <1>3, <1>6 DEF ServiceSame, ReadSame
  <2> QED BY <1>4, <1>5, <2>1, ProgressStays, ReadStays
<1>7. Progress(r)'
  <2>1. ServiceSame(r)
    BY <1>1, <1>3 DEF ServiceSame
  <2> QED BY <1>5, <2>1, ProgressStays
<1>8. PromptRight(r)'
  <2> SUFFICES ASSUME prompt'[r] # << >>
               PROVE  \E h \in Seq(Messages) : PastTurns(h, r)' /\ prompt'[r] = Append(h, UserMessage(r))
    BY DEF PromptRight
  <2>1. PICK h \in Seq(Messages) : PastTurns(h, r) /\ prompt[r] = Append(h, UserMessage(r))
    BY <1>1, <1>5 DEF PromptRight
  <2> QED BY <1>1, <1>4, <2>1, PastStays
<1>9. HistoryRight(r)'
  <2>1. phase[PutCall(r)] = "idle"
    BY <1>1, <1>5 DEF Progress
  <2>2. SessionCalls(r)
    BY DEF Known, Mem
  <2>3. route[r] # "idle" /\ op[GetCall(r)].session = input[r].session
    BY <1>1, <2>2 DEF SessionCalls
  <2>4. PICK s \in Sessions : s = input[r].session
    BY <2>3 DEF Known, Arrived, Input
  <2>5. PICK h : h = got'[GetCall(r)] /\ h = IF live[s] THEN hist[s] ELSE << >>
    BY <1>3, <2>3, <2>4 DEF Store!Visible
  <2>6. PastTurns(h, r)
    <3>1. CASE live[s]
      BY <2>1, <2>4, <2>5, <3>1, HistoryIsPast DEF ConversationInv
    <3>2. CASE ~ live[s]
      <4>1. h = << >> /\ Len(<< >>) = 2 * 0 /\ 1 .. 0 = {}
        BY <2>5, <3>2
      <4>2. 0 \in 0 .. AtLeastZero(MaxTurns)
        BY ChatAssumption DEF AtLeastZero
      <4> QED BY <4>1, <4>2 DEF PastTurns
    <3> QED BY <3>1, <3>2
  <2>7. PastTurns(h, r)'
    BY <1>1, <1>4, <2>6, PastStays
  <2> QED BY <2>5, <2>7 DEF HistoryRight, PastTurns
<1>10. \A s \in Sessions : OwnTurns(s)'
  BY <1>1, <1>4, OwnTurnsStay DEF ConversationInv, Known
<1> QED BY <1>6, <1>7, <1>8, <1>9, <1>10 DEF ConversationInv

(* A write of the store, or an expiry, moves no request.                   *)
LEMMA WritingStep ==
  ASSUME ConversationInv, RequestsUnchanged, got' = got, \A s \in Sessions : OwnTurns(s)',
         \A q \in Requests : /\ phase'[GetCall(q)] = phase[GetCall(q)]
                             /\ phase'[PutCall(q)] = "idle" <=> phase[PutCall(q)] = "idle"
  PROVE  ConversationInv'
<1>1. \A q \in Requests : ServiceSame(q) /\ ReadSame(q)
  BY DEF RequestsUnchanged, ServiceSame, ReadSame
<1>2. Firm
  BY DEF RequestsUnchanged, Firm
<1>3. \A q \in Requests : Progress(q)' /\ HistoryRight(q)' /\ PromptRight(q)'
  BY <1>1, <1>2, ProgressStays, ReadStays DEF ConversationInv
<1> QED BY <1>3 DEF ConversationInv

(* append_messages adds a turn of r to r's session.                        *)
LEMMA AppendConverses ==
  ASSUME TurnsInv, Known, ConversationInv, NEW r \in Requests,
         StoreAppends(r) \/ StoreAppendsAgain(r)
  PROVE  ConversationInv'
<1>1. RequestsUnchanged /\ got' = got
  BY DEF StoreAppends, Store!ApplyWrite, StoreAppendsAgain, Store!ApplyAgain
<1>2. \A q \in Requests : /\ GetCall(q) \in Calls /\ PutCall(q) \in Calls
                          /\ GetCall(q) # PutCall(r)
                          /\ q # r => PutCall(q) # PutCall(r)
  BY DEF Calls, GetCall, PutCall
<1>3. /\ \A q \in Requests : phase'[GetCall(q)] = phase[GetCall(q)]
      /\ \A q \in Requests : phase'[PutCall(q)] = "idle" <=> phase[PutCall(q)] = "idle"
      /\ phase[PutCall(r)] # "idle"
  <2>1. CASE StoreAppends(r)
    BY <1>2, <2>1 DEF Known, StoreAppends, Store!ApplyWrite, Store!Take
  <2>2. CASE StoreAppendsAgain(r)
    BY <2>2 DEF StoreAppendsAgain, Store!ApplyAgain, TurnsInv, CalledFirst, Twice
  <2> QED BY <2>1, <2>2
<1>4. op[PutCall(r)].session = input[r].session
  <2>1. SessionCalls(r)
    BY DEF Known, Mem
  <2> QED BY <1>3, <2>1 DEF SessionCalls
<1>5. input' = input
  BY <1>1 DEF RequestsUnchanged
<1>6. ASSUME NEW z \in Sessions, NEW i \in DOMAIN hist'[z] PROVE Asked(hist[z][i][1], z)'
  <2>1. CASE z = op[PutCall(r)].session /\ hist'[z][i][1] = r
    BY <1>3, <1>4, <1>5, <2>1 DEF Asked
  <2>2. CASE \E j \in DOMAIN hist[z] : hist'[z][i] = hist[z][j]
    <3>1. PICK j \in DOMAIN hist[z] : hist'[z][i] = hist[z][j]
      BY <2>2
    <3>2. Asked(hist[z][j][1], z) /\ hist[z][j] \in Messages
      BY DEF ConversationInv, OwnTurns, Known
    <3>3. PICK q \in Requests : q = hist[z][j][1] /\ q = hist'[z][i][1]
      BY <3>1, <3>2 DEF Messages
    <3> QED BY <1>3, <1>5, <3>2, <3>3 DEF Asked
  <2> QED BY <2>1, <2>2, AppendStep DEF Known
<1>7. \A z \in Sessions : OwnTurns(z)'
  BY <1>6 DEF OwnTurns
<1> QED BY <1>1, <1>3, <1>7, WritingStep

(* An expiry adds none.                                                    *)
LEMMA ExpiryConverses ==
  ASSUME Known, ConversationInv, NEW s \in Sessions, SessionExpires(s)
  PROVE  ConversationInv'
<1>1. /\ RequestsUnchanged /\ got' = got /\ phase' = phase /\ input' = input
      /\ hist' \in {hist, [hist EXCEPT ![s] = << >>]}
  BY DEF SessionExpires, Store!Expire, RequestsUnchanged
<1>2. Firm
  BY <1>1 DEF Firm
<1>3. ASSUME NEW z \in Sessions PROVE OwnTurns(z)'
  <2>1. hist'[z] = hist[z] \/ hist'[z] = << >>
    BY <1>1 DEF Known
  <2>2. CASE hist'[z] = hist[z]
    BY <1>2, <2>2, OwnTurnsStay DEF ConversationInv, Known
  <2>3. CASE hist'[z] = << >>
    BY <2>3 DEF OwnTurns
  <2> QED BY <2>1, <2>2, <2>3
<1> QED BY <1>1, <1>3, WritingStep

(* A request arrives: nothing was read or stored for it.                   *)
LEMMA ArrivalConverses ==
  ASSUME TypeOK, Known, ConversationInv, NEW r \in Requests, NEW i \in Inputs,
         ArriveChat(r, i) \/ ArriveStream(r, i) \/ ArriveGone(r, i)
  PROVE  ConversationInv'
<1>1. /\ route[r] = "idle" /\ input' = [input EXCEPT ![r] = i]
      /\ prompt' = prompt /\ text' = text
      /\ UNCHANGED storeVars \/ CallGetHistory(r, i.session)
  BY DEF ArriveChat, ArriveStream, ArriveGone, Accept
<1>2. \/ \E x \in {"start", "ended"} : svc' = [svc EXCEPT ![r] = x]
      \/ svc' = [svc EXCEPT ![r] = "get"] /\ ~ i.blank
  BY DEF ArriveChat, ArriveStream, ArriveGone, Reply, Await
<1>3. prompt[r] = << >> /\ phase[GetCall(r)] = "idle" /\ phase[PutCall(r)] = "idle"
  BY <1>1 DEF Known, Mem, SessionCalls
<1>4. \A q \in Requests : /\ GetCall(q) \in Calls /\ PutCall(q) \in Calls
                          /\ PutCall(q) # GetCall(r)
                          /\ q # r => GetCall(q) # GetCall(r)
  BY DEF Calls, GetCall, PutCall
<1>5. /\ hist' = hist /\ got' = got
      /\ \A q \in Requests : /\ phase'[PutCall(q)] = phase[PutCall(q)]
                             /\ q # r => phase'[GetCall(q)] = phase[GetCall(q)]
      /\ phase'[GetCall(r)] # "applied"
  <2>1. CASE UNCHANGED storeVars
    BY <1>3, <2>1 DEF storeVars
  <2>2. CASE CallGetHistory(r, i.session)
    BY <1>4, <2>2 DEF CallGetHistory, Store!Call, Known
  <2> QED BY <1>1, <2>1, <2>2
<1>6. /\ input'[r] = i /\ \A q \in Requests : q # r => input'[q] = input[q] /\ svc'[q] = svc[q]
      /\ svc'[r] \in {"start", "ended"} \/ (svc'[r] = "get" /\ ~ i.blank)
  BY <1>1, <1>2 DEF TypeOK
<1>7. Firm
  BY <1>3, <1>5, <1>6 DEF Firm
<1>8. Progress(r)' /\ HistoryRight(r)' /\ PromptRight(r)'
  BY <1>1, <1>3, <1>5, <1>6 DEF Progress, HistoryRight, PromptRight
<1>9. ASSUME NEW q \in Requests, q # r PROVE Progress(q)' /\ HistoryRight(q)' /\ PromptRight(q)'
  <2>1. ServiceSame(q) /\ ReadSame(q)
    BY <1>1, <1>5, <1>6, <1>9 DEF ServiceSame, ReadSame
  <2> QED BY <1>7, <2>1, ProgressStays, ReadStays DEF ConversationInv
<1>10. \A s \in Sessions : OwnTurns(s)'
  BY <1>5, <1>7, OwnTurnsStay DEF ConversationInv, Known
<1> QED BY <1>8, <1>9, <1>10 DEF ConversationInv

(* Nothing is asked at the start.                                          *)
LEMMA ConversationInit == Init => ConversationInv
<1> SUFFICES ASSUME Init PROVE ConversationInv
  OBVIOUS
<1>1. /\ hist = [s \in Sessions |-> << >>] /\ phase = [c \in Calls |-> "idle"]
      /\ prompt = [r \in Requests |-> << >>] /\ svc = [r \in Requests |-> "new"]
  BY DEF Init, Store!Init, Calls
<1>2. \A r \in Requests : GetCall(r) \in Calls /\ PutCall(r) \in Calls
  BY DEF GetCall, PutCall, Calls
<1>3. ASSUME NEW r \in Requests PROVE Progress(r) /\ HistoryRight(r) /\ PromptRight(r)
  <2>1. /\ prompt[r] = << >> /\ svc[r] = "new"
        /\ phase[GetCall(r)] = "idle" /\ phase[PutCall(r)] = "idle"
    BY <1>1, <1>2
  <2> QED BY <2>1 DEF Progress, HistoryRight, PromptRight
<1>4. \A s \in Sessions : OwnTurns(s)
  BY <1>1 DEF OwnTurns
<1> QED BY <1>3, <1>4 DEF ConversationInv

(* Every step keeps it.                                                    *)
LEMMA ConversationNext ==
  ChatInv /\ TurnsInv /\ MemoryInv /\ ConversationInv /\ [Next]_vars => ConversationInv'
<1> SUFFICES ASSUME ChatInv, TurnsInv, MemoryInv, ConversationInv, [Next]_vars
             PROVE  ConversationInv'
  OBVIOUS
<1>1. Known /\ TypeOK
  BY KnownHolds DEF ChatInv
<1>2. ASSUME NEW r \in Requests, NEW i \in Inputs,
             ArriveChat(r, i) \/ ArriveStream(r, i) \/ ArriveGone(r, i)
      PROVE  ConversationInv'
  BY <1>1, <1>2, ArrivalConverses
<1>3. ASSUME NEW r \in Requests, HistoryRead(r) PROVE ConversationInv'
  BY <1>1, <1>3, PromptMade
<1>4. ASSUME NEW r \in Requests, HistoryFailed(r) \/ LLMFailed(r) PROVE ConversationInv'
  <2>1. Raise(r) /\ Hears(r) /\ input' = input /\ prompt' = prompt /\ text' = text
    BY <1>4 DEF HistoryFailed, LLMFailed, Hears
  <2> QED BY <1>1, <2>1, ServiceEnds, EndingStep
<1>5. ASSUME NEW r \in Requests, NEW t \in Answers, LLMAnswered(r, t) PROVE ConversationInv'
  <2>1. /\ svc[r] = "llm" /\ text' = [text EXCEPT ![r] = t] /\ input' = input /\ prompt' = prompt
        /\ \/ Raise(r) /\ UNCHANGED storeVars
           \/ t # "empty" /\ Await(r, "put") /\ CallStoreTurn(r)
    BY <1>5 DEF LLMAnswered, Running
  <2>2. CASE Raise(r) /\ UNCHANGED storeVars
    BY <1>1, <2>1, <2>2, ServiceEnds, EndingStep DEF Hears
  <2>3. CASE t # "empty" /\ Await(r, "put") /\ CallStoreTurn(r)
    <3>1. text'[r] \in {"ok", "blank"}
      BY <1>1, <2>1, <2>3, ChatAssumption DEF TypeOK
    <3> QED BY <1>1, <2>1, <2>3, <3>1, StoringStep
  <2> QED BY <2>1, <2>2, <2>3
<1>6. ASSUME NEW r \in Requests, NEW t \in Answers, NEW n \in 0 .. MaxChunks, LLMStreams(r, t, n)
      PROVE  ConversationInv'
  <2>1. /\ svc[r] = "llm" /\ text' = [text EXCEPT ![r] = t] /\ input' = input /\ prompt' = prompt
        /\ UNCHANGED storeVars
        /\ Raise(r) \/ Emit(r, "token", "token")
    BY <1>6 DEF LLMStreams, Running
  <2>2. CASE Raise(r)
    BY <1>1, <2>1, <2>2, ServiceEnds, EndingStep DEF Hears
  <2>3. CASE Emit(r, "token", "token")
    BY <1>1, <2>1, <2>3, TokenStep
  <2> QED BY <2>1, <2>2, <2>3
<1>7. ASSUME NEW r \in Requests, TurnStored(r) \/ TurnNotStored(r) PROVE ConversationInv'
  <2>1. Hears(r) /\ input' = input /\ prompt' = prompt /\ text' = text
    BY <1>7 DEF TurnStored, TurnNotStored, Hears
  <2>2. Ends(r)
    BY <1>7, ServiceEnds DEF TurnStored, TurnNotStored
  <2> QED BY <1>1, <2>1, <2>2, EndingStep
<1>8. ASSUME NEW r \in Requests, NEW res \in {"success", "failure"}, Synthesized(r, res)
      PROVE  ConversationInv'
  <2>1. /\ Reply(r, res) /\ Hears(r) /\ input' = input /\ prompt' = prompt /\ text' = text
    BY <1>8 DEF Synthesized, Hears
  <2> QED BY <1>1, <2>1, ServiceEnds, EndingStep
<1>9. ASSUME NEW r \in Requests, ResumeEnd(r) \/ CancelSending(r) PROVE ConversationInv'
  <2>1. /\ CloseStream(r, result[r]) /\ Hears(r)
        /\ input' = input /\ prompt' = prompt /\ text' = text
    BY <1>9 DEF ResumeEnd, CancelSending, Hears
  <2> QED BY <1>1, <2>1, ServiceEnds, EndingStep
<1>17. ASSUME NEW r \in Requests, ResumeStart(r) PROVE ConversationInv'
  BY <1>1, <1>17, StartingStep
<1>10. ASSUME NEW r \in Requests, ResumeToken(r) PROVE ConversationInv'
  <2>1. /\ svc[r] = "token" /\ input' = input /\ prompt' = prompt /\ text' = text
        /\ \/ Emit(r, "token", "token") /\ UNCHANGED storeVars
           \/ Raise(r) /\ UNCHANGED storeVars
           \/ text[r] = "ok" /\ Await(r, "put") /\ CallStoreTurn(r)
    BY <1>10 DEF ResumeToken
  <2>2. CASE Emit(r, "token", "token") /\ UNCHANGED storeVars
    BY <1>1, <2>1, <2>2, TokenStep
  <2>3. CASE Raise(r) /\ UNCHANGED storeVars
    BY <1>1, <2>1, <2>3, ServiceEnds, EndingStep DEF Hears
  <2>4. CASE text[r] = "ok" /\ Await(r, "put") /\ CallStoreTurn(r)
    BY <1>1, <2>1, <2>4, StoringStep
  <2> QED BY <2>1, <2>2, <2>3, <2>4
<1>11. ASSUME NEW r \in Requests, WaitTimeout(r) \/ CancelWaiting(r) \/ CancelChat(r)
       PROVE  ConversationInv'
  <2>1. AbandonCall(r) /\ input' = input /\ prompt' = prompt /\ text' = text
    BY <1>11 DEF WaitTimeout, CancelWaiting, CancelChat
  <2>2. Hears(r)
    BY <2>1 DEF AbandonCall, Hears
  <2>3. Ends(r)
    BY <1>11 DEF WaitTimeout, CancelWaiting, CancelChat, CloseStream, Ends, Over
  <2> QED BY <1>1, <2>1, <2>2, <2>3, EndingStep
<1>12. ASSUME NEW r \in Requests, ResumeTimeout(r) \/ TimePasses(r) \/ ClientLeaves(r)
       PROVE  ConversationInv'
  <2>1. Hears(r) /\ svc' = svc /\ text' = text /\ input' = input /\ prompt' = prompt
    BY <1>12 DEF ResumeTimeout, TimePasses, ClientLeaves, Hears
  <2> QED BY <1>1, <2>1, WaitingStep
<1>13. ASSUME NEW r \in Requests, StoreResends(r) PROVE ConversationInv'
  <2>1. Store!Resend(PutCall(r)) /\ svc' = svc /\ text' = text /\ input' = input /\ prompt' = prompt
    BY <1>13 DEF StoreResends, RequestsUnchanged
  <2> QED BY <1>1, <2>1, WaitingStep
<1>14. ASSUME NEW r \in Requests, StoreReads(r) \/ StoreAppends(r) \/ StoreAppendsAgain(r)
       PROVE  ConversationInv'
  BY <1>1, <1>14, HistoryReadRight, AppendConverses
<1>15. ASSUME NEW s \in Sessions, SessionExpires(s) PROVE ConversationInv'
  BY <1>1, <1>15, ExpiryConverses
<1>16. CASE UNCHANGED vars
  <2>1. RequestsUnchanged /\ UNCHANGED storeVars
    BY <1>16 DEF vars, RequestsUnchanged
  <2>2. hist' = hist /\ got' = got /\ phase' = phase /\ Firm
    BY <2>1 DEF storeVars, RequestsUnchanged, Firm
  <2>3. \A s \in Sessions : OwnTurns(s)'
    BY <1>1, <2>2, OwnTurnsStay DEF ConversationInv, Known
  <2> QED BY <2>1, <2>2, <2>3, WritingStep
<1> QED BY <1>2, <1>3, <1>4, <1>5, <1>6, <1>7, <1>8, <1>9, <1>10, <1>11, <1>12, <1>13,
           <1>14, <1>15, <1>16, <1>17 DEF Next, Resume

(* A prompt made of past turns is a conversation.                          *)
LEMMA PastTurnsConverse ==
  ASSUME ChatInv, MemoryInv, ConversationInv
  PROVE  PromptIsConversation
<1> SUFFICES ASSUME NEW r \in Requests, prompt[r] # << >>
             PROVE  LET p == prompt[r] IN
                    /\ Len(p) % 2 = 1 /\ Len(p) <= AtLeastZero(2 * MaxTurns) + 1
                    /\ p[Len(p)] = UserMessage(r)
                    /\ \A k \in 1 .. Len(p) \div 2 :
                         \E q \in Requests \ {r} :
                           /\ p[2*k-1] = UserMessage(q) /\ p[2*k] = AssistantMessage(q)
                           /\ Answered(q, input[r].session)
  BY DEF PromptIsConversation
<1>1. PICK h \in Seq(Messages) : PastTurns(h, r) /\ prompt[r] = Append(h, UserMessage(r))
  BY DEF ConversationInv, PromptRight
<1>2. PICK m \in 0 .. AtLeastZero(MaxTurns) :
        /\ Len(h) = 2 * m
        /\ \A k \in 1 .. m : \E q \in Requests \ {r} :
             /\ h[2*k-1] = UserMessage(q) /\ h[2*k] = AssistantMessage(q)
             /\ Asked(q, input[r].session)
  BY <1>1 DEF PastTurns
<1>3. m \in Nat /\ 2 * m <= AtLeastZero(2 * MaxTurns) /\ AtLeastZero(2 * MaxTurns) \in Nat
  BY ChatAssumption DEF AtLeastZero
<1>4. (2 * m + 1) % 2 = 1 /\ (2 * m + 1) \div 2 = m
  BY <1>3
<1>5. PICK p \in Seq(Messages) : p = prompt[r]
  BY DEF MemoryInv
<1>6. /\ Len(p) = 2 * m + 1 /\ p[2 * m + 1] = UserMessage(r)
      /\ \A i \in 1 .. 2 * m : p[i] = h[i]
  <2>1. UserMessage(r) \in Messages
    BY DEF UserMessage, Messages
  <2> QED BY <1>1, <1>2, <1>5, <2>1, AppendProperties
<1>7. ASSUME NEW q \in Requests, Asked(q, input[r].session)
      PROVE  Answered(q, input[r].session)
  <2>1. phase[PutCall(q)] # "idle" /\ input[q].session = input[r].session
    BY <1>7 DEF Asked
  <2>2. ~ input[q].blank /\ text[q] \notin {"empty", None}
    BY <2>1 DEF ConversationInv, Progress
  <2>3. SessionCalls(q) /\ Stages(q)
    BY DEF MemoryInv, ChatInv
  <2>4. input[q] # None
    BY <2>1, <2>3 DEF SessionCalls, Stages
  <2> QED BY <2>1, <2>2, <2>4 DEF Answered
<1>8. ASSUME NEW k \in 1 .. m
      PROVE  \E q \in Requests \ {r} :
               /\ p[2*k-1] = UserMessage(q) /\ p[2*k] = AssistantMessage(q)
               /\ Answered(q, input[r].session)
  <2>1. 2*k-1 \in 1 .. 2*m /\ 2*k \in 1 .. 2*m
    BY <1>3
  <2> QED BY <1>2, <1>6, <1>7, <2>1
<1>9. Len(p) % 2 = 1 /\ Len(p) <= AtLeastZero(2 * MaxTurns) + 1 /\ Len(p) \div 2 = m
  <2>1. Len(p) = 2 * m + 1
    BY <1>6
  <2>2. 2 * m + 1 <= AtLeastZero(2 * MaxTurns) + 1
    BY <1>3
  <2> QED BY <1>4, <2>1, <2>2
<1> QED BY <1>5, <1>6, <1>8, <1>9

(* What the LLM is given is one conversation: whole turns of answered      *)
(* requests of the session, no other session's and not the request's own,  *)
(* at most MAX_HISTORY_TURNS, and then the new message.                    *)
THEOREM PromptsAreConversations == Spec => []PromptIsConversation
<1>1. Spec => []ConversationInv
  BY ConversationInit, ConversationNext, SpecInv, SpecTurns, SpecMemory, PTL DEF Spec
<1> QED BY <1>1, PastTurnsConverse, SpecInv, SpecMemory, PTL

=============================================================================
