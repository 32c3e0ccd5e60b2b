------------------------ MODULE RedisSession_proofs ------------------------
(***************************************************************************)
(* Proofs about RedisSession, for any sessions, calls, operations and      *)
(* messages and any number of retries of the client library.               *)
(*                                                                         *)
(* A pipeline either leaves the key absent or gives it a TTL, whatever the *)
(* key was before: that is StoredExpires.  For the refinement a call's     *)
(* transmissions are counted: the one that was answered is not executed    *)
(* again, and any other one under way is a repetition, which the port      *)
(* allows only for a call that was sent again.                             *)
(***************************************************************************)
EXTENDS RedisSession, SequenceTheorems, TLAPS

-----------------------------------------------------------------------------
(* The inductive invariant behind the safety properties.                   *)

(* A transmission belongs to a started call; the one that was answered is  *)
(* no longer under way.                                                    *)
CallInv(c) ==
  /\ pc[c] = "idle" => sent[c] = 0
  /\ pc[c] # "idle" => op[c] \in Ops
  /\ pc[c] \in {"waiting", "answered"} => sent[c] # 0
  /\ pc[c] \in {"answered", "ok"} => sent[c] \notin wire[c]
  /\ sent[c] # 0 /\ op[c].kind = "append" => op[c].msgs # << >>

RedisInv ==
  /\ TypeOK /\ StoredExpires
  /\ \A s \in Sessions : key[s] # NoKey => written[s]
  /\ \A c \in Calls : CallInv(c)

-----------------------------------------------------------------------------
Key == [list : Seq(Messages), ttl : BOOLEAN]

(* An absent key, or a list with a TTL.                                    *)
Sound(k) == /\ k \in Key
            /\ k.list = << >> => k = NoKey
            /\ k.list # << >> => k.ttl

-----------------------------------------------------------------------------
(* The commands.                                                           *)

(* A slice of messages; of a list that is not empty, it is not either      *)
(* unless nothing may stay.                                                *)
LEMMA RecentType ==
  ASSUME NEW S, NEW h \in Seq(S), NEW n \in Int
  PROVE  Recent(h, n) \in Seq(S) /\ (n > 0 /\ h # << >> => Recent(h, n) # << >>)
<1>1. CASE n <= 0 \/ Len(h) <= n
  BY <1>1 DEF Recent
<1>2. CASE ~ (n <= 0) /\ ~ (Len(h) <= n)
  <2> DEFINE p == Len(h) - n + 1
             q == Len(h)
  <2>1. Len(h) \in Nat
    BY LenProperties
  <2>2. p \in Int /\ q \in Int /\ p >= 1 /\ p <= q /\ q - p + 1 = n
    BY <1>2, <2>1
  <2>3. \A i \in p .. q : h[i] \in S
    <3> TAKE i \in p .. q
    <3>1. i \in 1 .. Len(h)
      BY <2>1, <2>2
    <3> QED BY <3>1, ElementOfSeq
  <2>4. Recent(h, n) = SubSeq(h, p, q)
    BY <1>2 DEF Recent
  <2> HIDE DEF p, q
  <2>5. SubSeq(h, p, q) \in Seq(S) /\ Len(SubSeq(h, p, q)) = q - p + 1
    BY <2>2, <2>3, SubSeqProperties
  <2>6. Len(<< >>) = 0
    OBVIOUS
  <2> QED BY <1>2, <2>2, <2>4, <2>5, <2>6
<1> QED BY <1>1, <1>2

(* Appending messages leaves no empty list.                                *)
LEMMA ConcatType ==
  ASSUME NEW S, NEW g \in Seq(S), NEW h \in Seq(S)
  PROVE  g \o h \in Seq(S) /\ (h # << >> => g \o h # << >>)
<1>1. g \o h \in Seq(S) /\ Len(g \o h) = Len(g) + Len(h)
  BY ConcatProperties
<1>2. Len(g) \in Nat /\ Len(h) \in Nat /\ (h # << >> => Len(h) # 0)
  BY LenProperties, EmptySeq
<1>3. Len(<< >>) = 0
  OBVIOUS
<1> QED BY <1>1, <1>2, <1>3

(* EXPIRE gives a list its TTL.                                            *)
LEMMA ExpireSound ==
  ASSUME NEW k \in Key, k.list # << >>
  PROVE  Sound(EXPIRE(k)) /\ EXPIRE(k).list = k.list
<1>1. k # NoKey
  BY DEF NoKey
<1>2. EXPIRE(k) = [k EXCEPT !.ttl = TRUE]
  BY <1>1 DEF EXPIRE
<1>3. EXPIRE(k) \in Key /\ EXPIRE(k).list = k.list /\ EXPIRE(k).ttl = TRUE
  BY <1>2 DEF Key
<1> QED BY <1>3 DEF Sound

(* An absent key stays absent.                                             *)
LEMMA NoKeySound == Sound(NoKey) /\ NoKey.list = << >> /\ EXPIRE(NoKey) = NoKey
BY DEF Sound, NoKey, Key, EXPIRE

(* What append_messages of a list that is not empty makes of any key.      *)
LEMMA AppendPipelineSound ==
  ASSUME NEW k \in Key, NEW o \in Operation, o.msgs # << >>
  PROVE  /\ Sound(AppendPipeline(k, o))
         /\ AppendPipeline(k, o).list =
              IF o.max = None THEN k.list \o o.msgs ELSE Recent(k.list \o o.msgs, o.max)
<1> DEFINE all == k.list \o o.msgs
           p == RPUSH(k, o.msgs)
           t == Trim(p, o.max)
<1>1. o.msgs \in Seq(Messages) /\ o.max \in Int \cup {None} /\ k.list \in Seq(Messages)
  BY DEF Operation, Key
<1>2. all \in Seq(Messages) /\ all # << >>
  BY <1>1, ConcatType
<1>3. p \in Key /\ p.list = all
  BY <1>2 DEF RPUSH, Key
<1> HIDE DEF all, p
<1>4. CASE o.max = None
  <2>1. t = p
    BY <1>4 DEF Trim
  <2> QED BY <1>2, <1>3, <1>4, <2>1, ExpireSound DEF AppendPipeline, p, all
<1>5. CASE o.max # None /\ o.max <= 0
  <2>1. t = NoKey /\ Recent(all, o.max) = << >>
    BY <1>5 DEF Trim, Recent
  <2> QED BY <1>5, <2>1, NoKeySound DEF AppendPipeline, p, all
<1>6. CASE o.max # None /\ ~ (o.max <= 0)
  <2>1. o.max \in Int /\ o.max > 0
    BY <1>1, <1>6
  <2>2. Recent(all, o.max) \in Seq(Messages) /\ Recent(all, o.max) # << >>
    BY <1>2, <2>1, RecentType
  <2>3. t = LTRIM(p, o.max)
    BY <1>6 DEF Trim
  <2>4. t \in Key /\ t.list = Recent(all, o.max)
    BY <1>3, <2>2, <2>3 DEF LTRIM, Key
  <2> HIDE DEF t
  <2>5. Sound(EXPIRE(t)) /\ EXPIRE(t).list = t.list
    BY <2>2, <2>4, ExpireSound
  <2> QED BY <1>6, <2>4, <2>5 DEF AppendPipeline, t, p, all
<1> QED BY <1>4, <1>5, <1>6

(* What set_history makes of it.                                           *)
LEMMA SetPipelineSound ==
  ASSUME NEW o \in Operation
  PROVE  Sound(SetPipeline(o)) /\ SetPipeline(o).list = o.msgs
<1>1. CASE o.msgs = << >>
  BY <1>1, NoKeySound DEF SetPipeline
<1>2. CASE o.msgs # << >>
  <2> DEFINE p == RPUSH(NoKey, o.msgs)
  <2>1. << >> \o o.msgs = o.msgs /\ o.msgs \in Seq(Messages)
    BY ConcatEmptySeq DEF Operation
  <2>2. p \in Key /\ p.list = o.msgs
    BY <2>1 DEF RPUSH, NoKey, Key
  <2> HIDE DEF p
  <2>3. Sound(EXPIRE(p)) /\ EXPIRE(p).list = o.msgs
    BY <1>2, <2>2, ExpireSound
  <2> QED BY <1>2, <2>3 DEF SetPipeline, p
<1> QED BY <1>1, <1>2

(* What a call's commands make of a key, and the list they leave.          *)
LEMMA PipelineSound ==
  ASSUME NEW k, Sound(k), NEW o \in Operation, o.kind = "append" => o.msgs # << >>
  PROVE  /\ Sound(Pipeline(k, o))
         /\ ~ IsWrite(o) => Pipeline(k, o) = k
BY AppendPipelineSound, SetPipelineSound DEF Pipeline, Sound, IsWrite

-----------------------------------------------------------------------------
(* The invariant in parts: the keys, and the calls.                        *)

KeysInv == /\ key \in [Sessions -> Key] /\ written \in [Sessions -> BOOLEAN]
           /\ \A s \in Sessions : Sound(key[s]) /\ (key[s] # NoKey => written[s])

CallTypes == /\ pc \in [Calls -> {"idle", "waiting", "answered", "ok", "error"}]
             /\ op \in [Calls -> Ops \cup {None}]
             /\ got \in [Calls -> Seq(Messages) \cup {None}]
             /\ sent \in [Calls -> 0 .. Retries + 1]
             /\ wire \in [Calls -> SUBSET Nat]

Whole(c) == wire[c] \subseteq 1 .. sent[c] /\ CallInv(c)

CallsInv == CallTypes /\ \A c \in Calls : Whole(c)

(* The invariant is the two parts.                                         *)
LEMMA InvParts == RedisInv <=> KeysInv /\ CallsInv
BY DEF RedisInv, TypeOK, StoredExpires, KeysInv, CallsInv, CallTypes, Whole, Sound, Key

(* The same of the next state.                                             *)
LEMMA InvPartsPrime == RedisInv' <=> KeysInv' /\ CallsInv'
BY InvParts, PTL

(* The operation of a call that was started.                               *)
LEMMA OpType ==
  ASSUME CallsInv, NEW c \in Calls, pc[c] # "idle"
  PROVE  /\ op[c] \in Operation /\ op[c].session \in Sessions
         /\ op[c].msgs \in Seq(Messages) /\ op[c].max \in Int \cup {None}
BY OpsAssumption DEF CallsInv, Whole, CallInv, Operation

(* A step of call c keeps what holds of the other calls.                   *)
LEMMA OneCall ==
  ASSUME CallsInv, NEW c \in Calls, CallTypes', Whole(c)',
         \A b \in Calls : b # c => /\ pc'[b] = pc[b] /\ op'[b] = op[b]
                                   /\ sent'[b] = sent[b] /\ wire'[b] = wire[b]
  PROVE  CallsInv'
<1>1. ASSUME NEW b \in Calls, b # c PROVE Whole(b)'
  BY <1>1 DEF CallsInv, Whole, CallInv
<1> QED BY <1>1 DEF CallsInv

(* Sending: lrange, ping or execute() of a pipeline.                       *)
LEMMA TransmitInv ==
  ASSUME CallsInv, NEW c \in Calls, Transmit(c), sent[c] <= Retries, got' = got,
         op' \in [Calls -> Ops \cup {None}], op'[c] \in Ops,
         \A b \in Calls : b # c => op'[b] = op[b],
         op'[c].kind = "append" => op'[c].msgs # << >>
  PROVE  CallsInv'
<1>1. CallTypes /\ sent[c] \in Nat /\ wire[c] \subseteq 1 .. sent[c]
  BY RetriesAssumption DEF CallsInv, CallTypes, Whole
<1>2. /\ sent'[c] = sent[c] + 1 /\ wire'[c] = wire[c] \cup {sent[c] + 1}
      /\ pc'[c] = "waiting"
      /\ \A b \in Calls : b # c => /\ pc'[b] = pc[b] /\ sent'[b] = sent[b]
                                   /\ wire'[b] = wire[b]
  BY <1>1 DEF Transmit, CallTypes
<1>3. sent' \in [Calls -> 0 .. Retries + 1]
  <2>1. sent[c] + 1 \in 0 .. Retries + 1
    BY <1>1, RetriesAssumption
  <2> QED BY <1>1, <2>1 DEF Transmit, CallTypes
<1>4. wire' \in [Calls -> SUBSET Nat]
  <2>1. wire[c] \cup {sent'[c]} \in SUBSET Nat
    BY <1>1, <1>2
  <2> QED BY <1>1, <2>1 DEF Transmit, CallTypes
<1>5. CallTypes'
  BY <1>1, <1>3, <1>4 DEF CallTypes, Transmit
<1>6. wire'[c] \subseteq 1 .. sent'[c]
  BY <1>1, <1>2
<1>7. CallInv(c)'
  BY <1>1, <1>2 DEF CallInv
<1> QED BY <1>2, <1>5, <1>6, <1>7, OneCall DEF Whole

(* A write of its own on a session, or nothing.                            *)
LEMMA ExecuteKeys ==
  ASSUME KeysInv, CallsInv, NEW c \in Calls, Serve(c)
  PROVE  KeysInv'
<1>1. PICK i \in wire[c] : Execute(c, i, Pipeline(key[op[c].session], op[c]))
  BY DEF Serve
<1>2. pc[c] # "idle" /\ sent[c] # 0
  BY <1>1 DEF CallsInv, CallTypes, Whole, CallInv
<1>3. PICK s \in Sessions : s = op[c].session
  BY <1>2, OpType
<1>4. PICK k : k = Pipeline(key[s], op[c])
  OBVIOUS
<1>5. op[c] \in Operation /\ (op[c].kind = "append" => op[c].msgs # << >>)
  BY <1>2, OpType DEF CallsInv, Whole, CallInv
<1>6. Sound(k) /\ (~ IsWrite(op[c]) => k = key[s])
  BY <1>4, <1>5, PipelineSound DEF KeysInv
<1>7. /\ key' = [key EXCEPT ![s] = k]
      /\ written' = [written EXCEPT ![s] = written[s] \/ IsWrite(op[c])]
  BY <1>1, <1>3, <1>4 DEF Execute
<1>8. k \in Key
  BY <1>6 DEF Sound
<1>9. key' \in [Sessions -> Key] /\ written' \in [Sessions -> BOOLEAN]
  BY <1>7, <1>8 DEF KeysInv
<1>10. ASSUME NEW z \in Sessions PROVE Sound(key'[z]) /\ (key'[z] # NoKey => written'[z])
  <2>1. CASE z # s
    BY <1>7, <2>1 DEF KeysInv
  <2>2. CASE z = s /\ IsWrite(op[c])
    BY <1>6, <1>7, <2>2 DEF KeysInv
  <2>3. CASE z = s /\ ~ IsWrite(op[c])
    BY <1>6, <1>7, <2>3 DEF KeysInv
  <2> QED BY <2>1, <2>2, <2>3
<1> QED BY <1>9, <1>10 DEF KeysInv

(* An executed transmission is no longer under way.                        *)
LEMMA ExecuteCalls ==
  ASSUME KeysInv, CallsInv, NEW c \in Calls, Serve(c)
  PROVE  CallsInv'
<1>1. PICK i \in wire[c] : Execute(c, i, Pipeline(key[op[c].session], op[c]))
  BY DEF Serve
<1>2. CallTypes /\ Whole(c) /\ pc[c] # "idle" /\ sent[c] # 0
  BY <1>1 DEF CallsInv, CallTypes, Whole, CallInv
<1>3. PICK s \in Sessions : s = op[c].session
  BY <1>2, OpType
<1>4. /\ wire' = [wire EXCEPT ![c] = wire[c] \ {i}] /\ op' = op /\ sent' = sent
      /\ \/ /\ pc[c] = "waiting" /\ i = sent[c]
            /\ pc' = [pc EXCEPT ![c] = "answered"]
            /\ got' = got \/ got' = [got EXCEPT ![c] = key[s].list]
         \/ pc' = pc /\ got' = got
  BY <1>1, <1>3 DEF Execute
<1>5. key[s].list \in Seq(Messages)
  BY DEF KeysInv, Key
<1>6. pc' \in [Calls -> {"idle", "waiting", "answered", "ok", "error"}]
  BY <1>2, <1>4 DEF CallTypes
<1>7. got' \in [Calls -> Seq(Messages) \cup {None}]
  BY <1>2, <1>4, <1>5 DEF CallTypes
<1>8. wire' \in [Calls -> SUBSET Nat]
  BY <1>2, <1>4 DEF CallTypes
<1>9. CallTypes'
  BY <1>2, <1>4, <1>6, <1>7, <1>8 DEF CallTypes
<1>10. wire'[c] = wire[c] \ {i} /\ \A b \in Calls : b # c => wire'[b] = wire[b]
  BY <1>2, <1>4 DEF CallTypes
<1>11. /\ pc'[c] = pc[c] \/ (pc'[c] = "answered" /\ pc[c] = "waiting" /\ i = sent[c])
       /\ \A b \in Calls : b # c => pc'[b] = pc[b]
  BY <1>2, <1>4 DEF CallTypes
<1>12. Whole(c)'
  BY <1>2, <1>4, <1>10, <1>11 DEF Whole, CallInv
<1> QED BY <1>4, <1>9, <1>10, <1>11, <1>12, OneCall

(* The answer, or an error: nothing is sent.                               *)
LEMMA EndInv ==
  ASSUME CallsInv, NEW c \in Calls, Finish(c) \/ Fail(c)
  PROVE  CallsInv'
<1>1. CallTypes /\ Whole(c)
  BY DEF CallsInv
<1>2. /\ op' = op /\ sent' = sent /\ got' = got
      /\ \/ pc[c] = "answered" /\ pc' = [pc EXCEPT ![c] = "ok"] /\ wire' = wire
         \/ /\ pc[c] \in {"waiting", "answered"} /\ pc' = [pc EXCEPT ![c] = "error"]
            /\ wire' \in {wire, [wire EXCEPT ![c] = {}]}
  BY DEF Finish, Fail
<1>3. CallTypes'
  BY <1>1, <1>2 DEF CallTypes
<1>4. /\ (pc'[c] = "ok" /\ pc[c] = "answered") \/ pc'[c] = "error"
      /\ pc[c] # "idle" /\ wire'[c] \subseteq wire[c]
      /\ \A b \in Calls : b # c => pc'[b] = pc[b] /\ wire'[b] = wire[b]
  BY <1>1, <1>2 DEF CallTypes
<1>5. Whole(c)'
  BY <1>1, <1>2, <1>4 DEF Whole, CallInv
<1> QED BY <1>2, <1>3, <1>4, <1>5, OneCall

(* append_messages of nothing sends nothing.                               *)
LEMMA EmptyAppendInv ==
  ASSUME CallsInv, NEW c \in Calls, NEW o \in Ops, StartEmptyAppend(c, o)
  PROVE  CallsInv'
<1>1. CallTypes /\ Whole(c)
  BY DEF CallsInv
<1>2. CallTypes'
  BY <1>1 DEF CallTypes, StartEmptyAppend
<1>3. /\ pc[c] = "idle" /\ pc'[c] = "ok" /\ op'[c] = o
      /\ sent' = sent /\ wire' = wire
      /\ \A b \in Calls : b # c => pc'[b] = pc[b] /\ op'[b] = op[b]
  BY <1>1 DEF CallTypes, StartEmptyAppend
<1>4. sent[c] = 0 /\ wire[c] \subseteq 1 .. 0
  BY <1>1, <1>3 DEF Whole, CallInv
<1>5. Whole(c)'
  BY <1>3, <1>4 DEF Whole, CallInv
<1> QED BY <1>2, <1>3, <1>5, OneCall

(* Starting and repeating a call.                                          *)
LEMMA SendInv ==
  ASSUME CallsInv, NEW c \in Calls, (\E o \in Ops : Start(c, o)) \/ Resend(c)
  PROVE  CallsInv'
<1>1. CallTypes /\ Whole(c)
  BY DEF CallsInv
<1>2. ASSUME NEW o \in Ops, Start(c, o) PROVE CallsInv'
  <2>1. /\ pc[c] = "idle" /\ op' = [op EXCEPT ![c] = o] /\ Transmit(c) /\ got' = got
        /\ ~ (o.kind = "append" /\ o.msgs = << >>)
    BY <1>2 DEF Start
  <2>2. sent[c] <= Retries
    BY <1>1, <2>1, RetriesAssumption DEF Whole, CallInv
  <2>3. /\ op' \in [Calls -> Ops \cup {None}] /\ op'[c] = o
        /\ \A b \in Calls : b # c => op'[b] = op[b]
    BY <1>1, <2>1 DEF CallTypes
  <2> QED BY <2>1, <2>2, <2>3, TransmitInv
<1>3. CASE Resend(c)
  <2>1. /\ pc[c] \in {"waiting", "answered"} /\ sent[c] <= Retries /\ Transmit(c)
        /\ op' = op /\ got' = got
    BY <1>3 DEF Resend
  <2>2. op[c] \in Ops /\ (op[c].kind = "append" => op[c].msgs # << >>)
    BY <1>1, <2>1 DEF Whole, CallInv
  <2>3. op \in [Calls -> Ops \cup {None}]
    BY <1>1 DEF CallTypes
  <2> QED BY <2>1, <2>2, <2>3, TransmitInv
<1> QED BY <1>2, <1>3

(* The key expires.                                                        *)
LEMMA ExpireInv ==
  ASSUME KeysInv, NEW s \in Sessions, Expire(s)
  PROVE  KeysInv'
<1>1. /\ key' = [key EXCEPT ![s] = NoKey]
      /\ written' = [written EXCEPT ![s] = FALSE]
  BY DEF Expire
<1>2. NoKey \in Key /\ Sound(NoKey)
  BY NoKeySound DEF Sound
<1>3. key' \in [Sessions -> Key] /\ written' \in [Sessions -> BOOLEAN]
  BY <1>1, <1>2 DEF KeysInv
<1>4. ASSUME NEW z \in Sessions PROVE Sound(key'[z]) /\ (key'[z] # NoKey => written'[z])
  BY <1>1, <1>2 DEF KeysInv
<1> QED BY <1>3, <1>4 DEF KeysInv

(* Nothing is stored or sent at first.                                     *)
LEMMA InitInv == Init => RedisInv
<1> SUFFICES ASSUME Init PROVE RedisInv
  OBVIOUS
<1>1. KeysInv
  BY NoKeySound DEF Init, KeysInv, Sound
<1>2. CallTypes
  BY RetriesAssumption DEF Init, CallTypes
<1>3. ASSUME NEW c \in Calls PROVE Whole(c)
  BY DEF Init, Whole, CallInv
<1> QED BY <1>1, <1>2, <1>3, InvParts DEF CallsInv

(* Every step keeps the invariant.                                         *)
LEMMA NextInv ==
  ASSUME RedisInv, [Next]_vars
  PROVE  RedisInv'
<1>1. KeysInv /\ CallsInv
  BY InvParts
<1>2. ASSUME key' = key, written' = written PROVE KeysInv'
  BY <1>1, <1>2 DEF KeysInv
<1>3. ASSUME pc' = pc, op' = op, got' = got, sent' = sent, wire' = wire PROVE CallsInv'
  BY <1>1, <1>3 DEF CallsInv, CallTypes, Whole, CallInv
<1>4. ASSUME NEW c \in Calls, NEW o \in Ops, StartEmptyAppend(c, o)
      PROVE  KeysInv' /\ CallsInv'
  BY <1>1, <1>2, <1>4, EmptyAppendInv DEF StartEmptyAppend
<1>5. ASSUME NEW c \in Calls, (\E o \in Ops : Start(c, o)) \/ Resend(c)
      PROVE  KeysInv' /\ CallsInv'
  <2>1. key' = key /\ written' = written
    BY <1>5 DEF Start, Resend
  <2> QED BY <1>1, <1>2, <1>5, <2>1, SendInv
<1>6. ASSUME NEW c \in Calls, Serve(c) PROVE KeysInv' /\ CallsInv'
  BY <1>1, <1>6, ExecuteKeys, ExecuteCalls
<1>7. ASSUME NEW c \in Calls, Finish(c) \/ Fail(c) PROVE KeysInv' /\ CallsInv'
  <2>1. key' = key /\ written' = written
    BY <1>7 DEF Finish, Fail
  <2> QED BY <1>1, <1>2, <1>7, <2>1, EndInv
<1>8. ASSUME NEW s \in Sessions, Expire(s) PROVE KeysInv' /\ CallsInv'
  <2>1. pc' = pc /\ op' = op /\ got' = got /\ sent' = sent /\ wire' = wire
    BY <1>8 DEF Expire
  <2> QED BY <1>1, <1>3, <1>8, <2>1, ExpireInv
<1>9. ASSUME UNCHANGED vars PROVE KeysInv' /\ CallsInv'
  BY <1>2, <1>3, <1>9 DEF vars
<1>10. KeysInv' /\ CallsInv'
  BY <1>4, <1>5, <1>6, <1>7, <1>8, <1>9 DEF Next
<1> QED BY <1>10, InvPartsPrime

(* RedisInv holds in every reachable state.                                *)
THEOREM SpecInv == Spec => []RedisInv
BY InitInv, NextInv, PTL DEF Spec

(* No call transmits more often than the client library's retries allow,   *)
(* and an empty list is an absent key.                                     *)
THEOREM TypeCorrect == Spec => []TypeOK
BY SpecInv, PTL DEF RedisInv

(* A stored history always has a TTL, wherever the connection broke and    *)
(* however often a pipeline was repeated or executed late.                 *)
THEOREM HistoriesExpire == Spec => []StoredExpires
BY SpecInv, PTL DEF RedisInv

-----------------------------------------------------------------------------
(* The refinement.                                                         *)

AbstractHist == [s \in Sessions |-> key[s].list]
AbstractPhase == [c \in Calls |-> Phase(c)]
AbstractResent == [c \in Calls |-> sent[c] > 1]

(* Without a limit everything is kept; the slices of the two modules are   *)
(* one.                                                                    *)
LEMMA KeepIs ==
  ASSUME NEW h, NEW n
  PROVE  /\ Abstract!Keep(h, n) = IF n = None THEN h ELSE Recent(h, n)
         /\ Abstract!Keep(h, None) = h
BY DEF Abstract!Keep, Abstract!Recent, Recent

(* What the pipeline of a write leaves is what the port says.              *)
LEMMA PipelineWrites ==
  ASSUME NEW k, Sound(k), NEW c, op[c] \in Operation, IsWrite(op[c]),
         op[c].kind = "append" => op[c].msgs # << >>
  PROVE  Pipeline(k, op[c]).list = Abstract!Written(c, k.list)
<1>1. CASE op[c].kind = "append"
  <2>1. Pipeline(k, op[c]).list = IF op[c].max = None THEN k.list \o op[c].msgs
                                 ELSE Recent(k.list \o op[c].msgs, op[c].max)
    BY <1>1, AppendPipelineSound DEF Pipeline, Sound
  <2>2. Abstract!AppendLimit(op[c]) = op[c].max
    BY DEF Abstract!AppendLimit
  <2> QED BY <1>1, <2>1, <2>2, KeepIs DEF Abstract!Written
<1>2. CASE op[c].kind = "set"
  BY <1>2, SetPipelineSound, KeepIs DEF Pipeline, Abstract!Written
<1> QED BY <1>1, <1>2 DEF IsWrite

(* The phases change for the one call that takes the step.                 *)
LEMMA PhaseStep ==
  ASSUME NEW c \in Calls, NEW p, Phase(c)' = p,
         \A b \in Calls : b # c => /\ pc'[b] = pc[b] /\ op'[b] = op[b]
                                   /\ sent'[b] = sent[b] /\ wire'[b] = wire[b]
  PROVE  AbstractPhase' = [AbstractPhase EXCEPT ![c] = p]
<1>1. ASSUME NEW b \in Calls, b # c PROVE Phase(b)' = Phase(b)
  BY <1>1 DEF Phase, Lost
<1> QED BY <1>1 DEF AbstractPhase

(* The mapping at one call.                                                *)
LEMMA PhaseAt ==
  ASSUME NEW c \in Calls
  PROVE  /\ AbstractPhase[c] = Phase(c) /\ AbstractResent[c] = (sent[c] > 1)
         /\ [AbstractPhase EXCEPT ![c] = Phase(c)] = AbstractPhase
BY DEF AbstractPhase, AbstractResent

(* Nothing is stored or sent at first.                                     *)
LEMMA InitRefines == Init => Abstract!Init
<1> SUFFICES ASSUME Init PROVE Abstract!Init
  OBVIOUS
<1>1. AbstractHist = [s \in Sessions |-> << >>]
  BY DEF Init, AbstractHist, NoKey
<1>2. AbstractPhase = [c \in Calls |-> "idle"]
  BY DEF Init, AbstractPhase, Phase, Lost
<1>3. AbstractResent = [c \in Calls |-> FALSE]
  <2>1. \A c \in Calls : sent[c] = 0
    BY DEF Init
  <2>2. \A c \in Calls : (sent[c] > 1) = FALSE
    BY <2>1
  <2> QED BY <2>2, Zenon DEF AbstractResent
<1> QED BY <1>1, <1>2, <1>3
        DEF Init, Abstract!Init, AbstractHist, AbstractPhase, AbstractResent

(* Executing a pipeline, on the session's contents: a write is the port's, *)
(* a read changes nothing.                                                 *)
LEMMA ServeStore ==
  ASSUME KeysInv, CallsInv, NEW c \in Calls, Serve(c)
  PROVE  /\ IsWrite(op[c]) => Abstract!Write(c)
         /\ ~ IsWrite(op[c]) => AbstractHist' = AbstractHist /\ written' = written
<1>1. PICK i \in wire[c] : Execute(c, i, Pipeline(key[op[c].session], op[c]))
  BY DEF Serve
<1>2. pc[c] # "idle" /\ sent[c] # 0
  BY <1>1 DEF CallsInv, CallTypes, Whole, CallInv
<1>3. PICK s \in Sessions : s = op[c].session
  BY <1>2, OpType
<1>4. PICK k : k = Pipeline(key[s], op[c])
  OBVIOUS
<1>5. op[c] \in Operation /\ (op[c].kind = "append" => op[c].msgs # << >>)
  BY <1>2, OpType DEF CallsInv, Whole, CallInv
<1>6. Sound(key[s]) /\ key \in [Sessions -> Key] /\ written \in [Sessions -> BOOLEAN]
  BY DEF KeysInv
<1>7. /\ key' = [key EXCEPT ![s] = k]
      /\ written' = [written EXCEPT ![s] = written[s] \/ IsWrite(op[c])]
  BY <1>1, <1>3, <1>4 DEF Execute
<1>8. ASSUME IsWrite(op[c]) PROVE Abstract!Write(c)
  <2>1. k.list = Abstract!Written(c, key[s].list)
    BY <1>4, <1>5, <1>6, <1>8, PipelineWrites
  <2>2. AbstractHist' = [AbstractHist EXCEPT ![s] = k.list]
    BY <1>6, <1>7 DEF AbstractHist
  <2>3. AbstractHist[s] = key[s].list
    BY DEF AbstractHist
  <2>4. written' = [written EXCEPT ![s] = TRUE]
    BY <1>7, <1>8
  <2> QED BY <1>3, <1>8, <2>1, <2>2, <2>3, <2>4 DEF Abstract!Write, AbstractHist, IsWrite
<1>9. ASSUME ~ IsWrite(op[c]) PROVE AbstractHist' = AbstractHist /\ written' = written
  <2>1. k = key[s]
    BY <1>4, <1>5, <1>6, <1>9, PipelineSound
  <2>2. written[s] \in BOOLEAN /\ written' = [written EXCEPT ![s] = written[s]]
    BY <1>6, <1>7, <1>9
  <2> QED BY <1>6, <1>7, <2>1, <2>2 DEF AbstractHist
<1> QED BY <1>8, <1>9

(* A transmission is executed.  If its call waits for it, or gave it up    *)
(* and sent no other, the operation takes effect now; otherwise it takes   *)
(* effect once more, for a call that was sent again, or it was a read that *)
(* nobody waits for.                                                       *)
LEMMA ServeRefines ==
  ASSUME KeysInv, CallsInv, NEW c \in Calls, Serve(c)
  PROVE  Abstract!Next \/ UNCHANGED Abstract!vars
<1>1. PICK i \in wire[c] : Execute(c, i, Pipeline(key[op[c].session], op[c]))
  BY DEF Serve
<1>2. CallTypes /\ Whole(c) /\ pc[c] # "idle" /\ sent[c] # 0 /\ sent[c] \in Nat
  BY <1>1, RetriesAssumption DEF CallsInv, CallTypes, Whole, CallInv
<1>3. PICK s \in Sessions : s = op[c].session
  BY <1>2, OpType
<1>4. /\ wire' = [wire EXCEPT ![c] = wire[c] \ {i}] /\ op' = op /\ sent' = sent
      /\ IF pc[c] = "waiting" /\ i = sent[c]
           THEN /\ pc' = [pc EXCEPT ![c] = "answered"]
                /\ got' = IF op[c].kind = "get" THEN [got EXCEPT ![c] = key[s].list]
                          ELSE got
           ELSE pc' = pc /\ got' = got
  BY <1>1, <1>3 DEF Execute
<1>5. AbstractResent' = AbstractResent
  BY <1>4 DEF AbstractResent
<1>6. /\ wire'[c] = wire[c] \ {i} /\ \A b \in Calls : b # c => wire'[b] = wire[b]
      /\ \A b \in Calls : b # c => pc'[b] = pc[b]
  BY <1>2, <1>4 DEF CallTypes
<1>7. op[c].kind \in {"get", "append", "set", "ping"}
  BY <1>2, OpType DEF Operation
<1>8. i \in 1 .. sent[c]
  BY <1>1, <1>2 DEF Whole
<1>9. CASE pc[c] = "waiting" /\ i = sent[c]
  <2>1. pc'[c] = "answered" /\ Phase(c) = "called" /\ Phase(c)' = "applied"
    BY <1>2, <1>4, <1>9 DEF CallTypes, Phase
  <2>2. AbstractPhase' = [AbstractPhase EXCEPT ![c] = "applied"]
    BY <1>4, <1>6, <2>1, PhaseStep
  <2>3. Abstract!Take(c)
    BY <2>1, <2>2, PhaseAt DEF Abstract!Take, AbstractPhase
  <2>4. CASE IsWrite(op[c])
    <3>1. Abstract!ApplyWrite(c)
      BY <1>4, <1>5, <1>9, <2>3, <2>4, ServeStore
         DEF Abstract!ApplyWrite, AbstractResent, IsWrite
    <3> QED BY <3>1 DEF Abstract!Next
  <2>5. CASE op[c].kind = "get"
    <3>1. AbstractHist' = AbstractHist /\ written' = written
      BY <2>5, ServeStore DEF IsWrite
    <3>2. Abstract!Visible(s) = key[s].list
      <4>1. key[s].list # << >> => written[s]
        BY NoKeySound DEF KeysInv
      <4> QED BY <4>1 DEF Abstract!Visible
    <3>3. Abstract!ApplyGet(c)
      BY <1>3, <1>4, <1>5, <1>9, <2>3, <2>5, <3>1, <3>2
         DEF Abstract!ApplyGet, AbstractHist, AbstractResent
    <3> QED BY <3>3 DEF Abstract!Next
  <2>6. CASE op[c].kind = "ping"
    <3>1. AbstractHist' = AbstractHist /\ written' = written
      BY <2>6, ServeStore DEF IsWrite
    <3>2. Abstract!ApplyPing(c)
      BY <1>4, <1>5, <1>9, <2>3, <2>6, <3>1
         DEF Abstract!ApplyPing, AbstractHist, AbstractResent
    <3> QED BY <3>2 DEF Abstract!Next
  <2> QED BY <1>7, <2>4, <2>5, <2>6 DEF IsWrite
<1>10. CASE ~ (pc[c] = "waiting" /\ i = sent[c])
  <2>1. pc' = pc /\ got' = got
    BY <1>4, <1>10
  <2>2. CASE Lost(c)
    <3>1. Phase(c) = "lost" /\ IsWrite(op[c]) /\ pc[c] = "error" /\ i \in {1}
      BY <1>1, <2>2 DEF Phase, Lost
    <3>2. wire'[c] # {1}
      BY <1>6, <3>1
    <3>3. Phase(c)' = "error"
      BY <2>1, <3>1, <3>2 DEF Phase, Lost
    <3>4. AbstractPhase' = [AbstractPhase EXCEPT ![c] = "error"]
      BY <1>4, <1>6, <3>3, PhaseStep
    <3>5. Abstract!Take(c)
      BY <3>1, <3>4, PhaseAt DEF Abstract!Take, AbstractPhase
    <3>6. Abstract!ApplyWrite(c)
      BY <1>4, <1>5, <2>1, <3>1, <3>5, ServeStore DEF Abstract!ApplyWrite, AbstractResent
    <3> QED BY <3>6 DEF Abstract!Next
  <2>3. CASE ~ Lost(c)
    <3>1. ~ Lost(c)'
      <4>1. CASE sent[c] = 1
        <5>1. wire'[c] # {1}
          BY <1>6, <1>8, <4>1
        <5> QED BY <5>1 DEF Lost
      <4>2. CASE sent[c] # 1
        BY <1>4, <4>2 DEF Lost
      <4> QED BY <4>1, <4>2
    <3>2. Phase(c)' = Phase(c)
      BY <2>1, <2>3, <3>1 DEF Phase
    <3>3. AbstractPhase' = AbstractPhase
      <4>1. PICK p : p = Phase(c)
        OBVIOUS
      <4>2. AbstractPhase' = [AbstractPhase EXCEPT ![c] = p]
        BY <1>4, <1>6, <3>2, <4>1, PhaseStep
      <4> QED BY <4>1, <4>2, PhaseAt
    <3>4. CASE IsWrite(op[c])
      <4>1. sent[c] > 1
        <5>1. SUFFICES ASSUME sent[c] = 1 PROVE FALSE
          BY <1>2
        <5>2. i = 1 /\ wire[c] = {1}
          BY <1>1, <1>2, <1>8, <5>1 DEF Whole
        <5>3. pc[c] = "error"
          BY <1>2, <1>10, <5>1, <5>2 DEF Whole, CallInv, CallTypes
        <5> QED BY <2>3, <3>4, <5>1, <5>2, <5>3 DEF Lost
      <4>2. Abstract!ApplyAgain(c)
        BY <1>4, <1>5, <2>1, <3>3, <3>4, <4>1, PhaseAt, ServeStore
           DEF Abstract!ApplyAgain, AbstractPhase, AbstractResent
      <4> QED BY <4>2 DEF Abstract!Next
    <3>5. CASE ~ IsWrite(op[c])
      <4>1. AbstractHist' = AbstractHist /\ written' = written
        BY <3>5, ServeStore
      <4> QED BY <1>4, <1>5, <2>1, <3>3, <4>1
              DEF Abstract!vars, AbstractHist, AbstractPhase, AbstractResent
    <3> QED BY <3>4, <3>5
  <2> QED BY <2>2, <2>3
<1> QED BY <1>9, <1>10

(* The answer arrives: the port's return.                                  *)
LEMMA FinishRefines ==
  ASSUME CallsInv, NEW c \in Calls, Finish(c)
  PROVE  Abstract!Return(c)
<1>1. /\ pc[c] = "answered" /\ pc' = [pc EXCEPT ![c] = "ok"]
      /\ UNCHANGED <<key, written, op, got, sent, wire>> /\ CallTypes
  BY DEF Finish, CallsInv
<1>2. /\ pc'[c] = "ok" /\ \A b \in Calls : b # c => pc'[b] = pc[b]
  BY <1>1 DEF CallTypes
<1>3. Phase(c) = "applied" /\ Phase(c)' = "ok"
  BY <1>1, <1>2 DEF Phase, Lost
<1>4. AbstractPhase' = [AbstractPhase EXCEPT ![c] = "ok"]
  BY <1>1, <1>2, <1>3, PhaseStep
<1> QED BY <1>1, <1>3, <1>4, PhaseAt DEF Abstract!Return, AbstractPhase

(* The connection breaks or the task is cancelled.  A write of which the   *)
(* only transmission is under way is abandoned; any other call raises.     *)
LEMMA FailRefines ==
  ASSUME CallsInv, NEW c \in Calls, Fail(c)
  PROVE  Abstract!Abandon(c) \/ Abstract!Raise(c)
<1>1. /\ pc[c] \in {"waiting", "answered"} /\ pc' = [pc EXCEPT ![c] = "error"]
      /\ wire' \in {wire, [wire EXCEPT ![c] = {}]}
      /\ UNCHANGED <<key, written, op, got, sent>> /\ CallTypes /\ Whole(c)
  BY DEF Fail, CallsInv
<1>2. /\ pc'[c] = "error" /\ \A b \in Calls : b # c => pc'[b] = pc[b]
      /\ wire'[c] \subseteq wire[c] /\ \A b \in Calls : b # c => wire'[b] = wire[b]
  BY <1>1 DEF CallTypes
<1>3. CASE Lost(c)'
  <2>1. IsWrite(op[c]) /\ sent[c] = 1 /\ 1 \in wire[c]
    BY <1>1, <1>2, <1>3 DEF Lost, IsWrite
  <2>2. pc[c] = "waiting"
    BY <1>1, <2>1 DEF Whole, CallInv
  <2>3. Phase(c) = "called" /\ Phase(c)' = "lost"
    BY <1>2, <1>3, <2>2 DEF Phase
  <2>4. AbstractPhase' = [AbstractPhase EXCEPT ![c] = "lost"]
    BY <1>1, <1>2, <2>3, PhaseStep
  <2> QED BY <1>1, <2>1, <2>3, <2>4, PhaseAt DEF Abstract!Abandon, AbstractPhase, IsWrite
<1>4. CASE ~ Lost(c)'
  <2>1. Phase(c) \in {"called", "applied"} /\ Phase(c)' = "error"
    BY <1>1, <1>2, <1>4 DEF Phase
  <2>2. AbstractPhase' = [AbstractPhase EXCEPT ![c] = "error"]
    BY <1>1, <1>2, <2>1, PhaseStep
  <2> QED BY <1>1, <2>1, <2>2, PhaseAt DEF Abstract!Raise, AbstractPhase
<1> QED BY <1>3, <1>4

(* A call starts.                                                          *)
LEMMA EmptyAppendRefines ==
  ASSUME CallsInv, NEW c \in Calls, NEW o \in Ops, StartEmptyAppend(c, o)
  PROVE  Abstract!CallEmptyAppend(c, o)
<1>1. /\ pc[c] = "idle" /\ pc' = [pc EXCEPT ![c] = "ok"] /\ op' = [op EXCEPT ![c] = o]
      /\ o.kind = "append" /\ o.msgs = << >>
      /\ UNCHANGED <<key, written, got, sent, wire>> /\ CallTypes
  BY DEF StartEmptyAppend, CallsInv
<1>2. pc'[c] = "ok" /\ \A b \in Calls : b # c => pc'[b] = pc[b] /\ op'[b] = op[b]
  BY <1>1 DEF CallTypes
<1>3. Phase(c) = "idle" /\ Phase(c)' = "ok"
  BY <1>1, <1>2 DEF Phase, Lost
<1>4. AbstractPhase' = [AbstractPhase EXCEPT ![c] = "ok"]
  BY <1>1, <1>2, <1>3, PhaseStep
<1> QED BY <1>1, <1>3, <1>4, PhaseAt DEF Abstract!CallEmptyAppend, AbstractPhase

(* One more transmission of c, and what it says of phase and resent.       *)
LEMMA TransmitRefines ==
  ASSUME CallsInv, NEW c \in Calls, Transmit(c),
         \A b \in Calls : b # c => op'[b] = op[b]
  PROVE  /\ AbstractPhase' = [AbstractPhase EXCEPT ![c] = "called"]
         /\ AbstractResent' = [AbstractResent EXCEPT ![c] = sent[c] + 1 > 1]
<1>1. /\ pc'[c] = "waiting" /\ \A b \in Calls : b # c => pc'[b] = pc[b]
      /\ \A b \in Calls : b # c => sent'[b] = sent[b] /\ wire'[b] = wire[b]
      /\ sent' = [sent EXCEPT ![c] = sent[c] + 1] /\ sent'[c] = sent[c] + 1
  BY DEF Transmit, CallsInv, CallTypes
<1>2. Phase(c)' = "called"
  BY <1>1 DEF Phase
<1>3. AbstractPhase' = [AbstractPhase EXCEPT ![c] = "called"]
  BY <1>1, <1>2, PhaseStep
<1>4. \A b \in Calls : (sent'[b] > 1) = IF b = c THEN sent[c] + 1 > 1 ELSE sent[b] > 1
  BY <1>1
<1>5. AbstractResent' = [AbstractResent EXCEPT ![c] = sent[c] + 1 > 1]
  BY <1>4, Zenon DEF AbstractResent
<1> QED BY <1>3, <1>5

(* A call's first transmission is the port's call.                         *)
LEMMA StartRefines ==
  ASSUME CallsInv, NEW c \in Calls, NEW o \in Ops, Start(c, o)
  PROVE  Abstract!Call(c, o)
<1>1. /\ pc[c] = "idle" /\ op' = [op EXCEPT ![c] = o] /\ Transmit(c)
      /\ UNCHANGED <<key, written, got>> /\ CallTypes /\ Whole(c)
  BY DEF Start, CallsInv
<1>2. \A b \in Calls : b # c => op'[b] = op[b]
  BY <1>1 DEF CallTypes
<1>3. sent[c] = 0 /\ Phase(c) = "idle"
  BY <1>1 DEF Whole, CallInv, Phase, Lost
<1>4. /\ AbstractPhase' = [AbstractPhase EXCEPT ![c] = "called"]
      /\ AbstractResent' = [AbstractResent EXCEPT ![c] = sent[c] + 1 > 1]
  BY <1>1, <1>2, TransmitRefines
<1>5. (sent[c] + 1 > 1) = FALSE /\ (sent[c] > 1) = FALSE
  BY <1>3
<1>6. AbstractResent' = AbstractResent
  BY <1>4, <1>5, Zenon DEF AbstractResent
<1> QED BY <1>1, <1>3, <1>4, <1>6, PhaseAt
        DEF Abstract!Call, AbstractPhase, AbstractResent

(* Any further one is a repetition.                                        *)
LEMMA ResendRefines ==
  ASSUME CallsInv, NEW c \in Calls, Resend(c)
  PROVE  Abstract!Resend(c)
<1>1. /\ pc[c] \in {"waiting", "answered"} /\ Transmit(c)
      /\ UNCHANGED <<key, written, op, got>> /\ CallTypes /\ Whole(c)
  BY DEF Resend, CallsInv
<1>2. sent[c] # 0 /\ sent[c] \in Nat /\ Phase(c) \in {"called", "applied"}
  BY <1>1, RetriesAssumption DEF Whole, CallInv, Phase, CallTypes
<1>3. /\ AbstractPhase' = [AbstractPhase EXCEPT ![c] = "called"]
      /\ AbstractResent' = [AbstractResent EXCEPT ![c] = sent[c] + 1 > 1]
  BY <1>1, TransmitRefines
<1>4. (sent[c] + 1 > 1) = TRUE
  BY <1>2
<1>5. AbstractResent' = [AbstractResent EXCEPT ![c] = TRUE]
  BY <1>3, <1>4, Zenon
<1> QED BY <1>1, <1>2, <1>3, <1>5, PhaseAt
        DEF Abstract!Resend, AbstractPhase, AbstractResent

(* The session's time to live runs out, and its messages are gone.         *)
LEMMA ExpireRefines ==
  ASSUME KeysInv, NEW s \in Sessions, Expire(s)
  PROVE  Abstract!Expire(s)
<1>1. /\ key[s].ttl /\ key' = [key EXCEPT ![s] = NoKey]
      /\ written' = [written EXCEPT ![s] = FALSE]
      /\ UNCHANGED <<pc, op, got, sent, wire>> /\ key \in [Sessions -> Key]
  BY DEF Expire, KeysInv
<1>2. written[s]
  BY <1>1 DEF KeysInv, NoKey
<1>3. AbstractHist' = [AbstractHist EXCEPT ![s] = << >>]
  BY <1>1, NoKeySound DEF AbstractHist
<1>4. AbstractPhase' = AbstractPhase /\ AbstractResent' = AbstractResent
  BY <1>1 DEF AbstractPhase, AbstractResent, Phase, Lost
<1> QED BY <1>1, <1>2, <1>3, <1>4
        DEF Abstract!Expire, AbstractHist, AbstractPhase, AbstractResent

(* Every step is a step of the port's specification, or none.              *)
LEMMA NextRefines ==
  ASSUME RedisInv, [Next]_vars
  PROVE  [Abstract!Next]_(Abstract!vars)
<1>1. KeysInv /\ CallsInv
  BY InvParts
<1>2. ASSUME NEW c \in Calls, NEW o \in Ops, StartEmptyAppend(c, o) \/ Start(c, o)
      PROVE  Abstract!Next
  BY <1>1, <1>2, EmptyAppendRefines, StartRefines DEF Abstract!Next
<1>3. ASSUME NEW c \in Calls, Finish(c) \/ Fail(c) \/ Resend(c)
      PROVE  Abstract!Next
  BY <1>1, <1>3, FinishRefines, FailRefines, ResendRefines DEF Abstract!Next
<1>4. ASSUME NEW c \in Calls, Serve(c)
      PROVE  Abstract!Next \/ UNCHANGED Abstract!vars
  BY <1>1, <1>4, ServeRefines
<1>5. ASSUME NEW s \in Sessions, Expire(s) PROVE Abstract!Next
  BY <1>1, <1>5, ExpireRefines DEF Abstract!Next
<1>6. CASE UNCHANGED vars
  BY <1>6 DEF vars, Abstract!vars, Phase, Lost
<1> QED BY <1>2, <1>3, <1>4, <1>5, <1>6 DEF Next

(* The Redis repository implements the port: an append is atomic, trimmed  *)
(* to exactly the caller's limit and never lost once acknowledged, and a   *)
(* write is stored twice only if the client library sent it again.         *)
THEOREM RedisRefines == Spec => ImplementsSessionStore
<1>1. RedisInv /\ [Next]_vars => [Abstract!Next]_(Abstract!vars)
  BY NextRefines
<1> QED BY <1>1, InitRefines, SpecInv, PTL DEF Spec, ImplementsSessionStore, Abstract!Spec

=============================================================================
