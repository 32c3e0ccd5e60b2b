----------------------- MODULE MemorySession_proofs -----------------------
(***************************************************************************)
(* Proofs about MemorySession, for any sessions, calls, operations and     *)
(* messages.                                                               *)
(*                                                                         *)
(* The invariant is that no list is shared: a stored list belongs to one   *)
(* session and no caller holds it.  Changing it in place then changes what *)
(* one session holds and nothing else, which is what the port promises.    *)
(***************************************************************************)
EXTENDS MemorySession, SequenceTheorems, TLAPS

-----------------------------------------------------------------------------
(* The inductive invariant behind the properties: no list is shared.       *)

(* A stored list belongs to one session and to no caller.                  *)
NoSharing ==
  \A s \in Sessions : store[s] # None =>
    /\ \A z \in Sessions : store[z] = store[s] => z = s
    /\ \A c \in Calls : ret[c] # store[s]

MemoryInv ==
  /\ TypeOK /\ NoSharing
  /\ \A c \in Calls : pc[c] # "idle" => op[c] \in Ops
  /\ \A c \in Calls : pc[c] = "called" /\ op[c].kind = "append" => op[c].msgs # << >>
  /\ \A s \in Sessions : Written(s) \/ store[s] = None

-----------------------------------------------------------------------------
(* Lists.                                                                  *)

(* A slice is a list of the same messages.                                 *)
LEMMA RecentType ==
  ASSUME NEW S, NEW h \in Seq(S), NEW n \in Int
  PROVE  Recent(h, n) \in Seq(S)
<1>1. CASE n <= 0 \/ Len(h) <= n
  BY <1>1 DEF Recent
<1>2. CASE ~ (n <= 0) /\ ~ (Len(h) <= n)
  <2> DEFINE p == Len(h) - n + 1
             q == Len(h)
  <2>1. Len(h) \in Nat
    BY LenProperties
  <2>2. p \in Int /\ q \in Int /\ p >= 1
    BY <1>2, <2>1
  <2>3. \A i \in p .. q : h[i] \in S
    <3> TAKE i \in p .. q
    <3>1. i \in 1 .. Len(h)
      BY <2>1, <2>2
    <3> QED BY <3>1, ElementOfSeq
  <2>4. Recent(h, n) = SubSeq(h, p, q)
    BY <1>2 DEF Recent
  <2> HIDE DEF p, q
  <2> QED BY <2>2, <2>3, <2>4, SubSeqProperties
<1> QED BY <1>1, <1>2

(* What append_messages keeps.                                             *)
LEMMA KeptType ==
  ASSUME NEW h \in Seq(Messages), NEW max \in Int \cup {None}
  PROVE  Kept(h, max) \in Seq(Messages)
BY RecentType DEF Kept

(* One more list object.                                                   *)
LEMMA NewObject ==
  ASSUME NEW S, NEW h \in Seq(S), NEW x \in S
  PROVE  /\ Append(h, x) \in Seq(S) /\ Len(Append(h, x)) = Len(h) + 1
         /\ Append(h, x)[Len(h) + 1] = x
         /\ \A i \in 1 .. Len(h) : Append(h, x)[i] = h[i]
         /\ Len(h) \in Nat
BY LenProperties

(* A list object changed in place.                                         *)
LEMMA ChangedObject ==
  ASSUME NEW S, NEW h \in Seq(S), NEW k \in 1 .. Len(h), NEW x \in S
  PROVE  /\ [h EXCEPT ![k] = x] \in Seq(S) /\ Len([h EXCEPT ![k] = x]) = Len(h)
         /\ [h EXCEPT ![k] = x][k] = x
         /\ \A i \in 1 .. Len(h) : i # k => [h EXCEPT ![k] = x][i] = h[i]
BY LenProperties

(* What a session holds, and what an operation says, is of its type.       *)
LEMMA ContentsType ==
  ASSUME TypeOK, NEW s \in Sessions
  PROVE  Contents(s) \in Seq(Messages)
<1>1. CASE store[s] = None
  BY <1>1 DEF Contents
<1>2. CASE store[s] # None
  <2>1. store[s] \in 1 .. Len(heap) /\ heap \in Seq(Seq(Messages))
    BY <1>2 DEF TypeOK
  <2> QED BY <1>2, <2>1, ElementOfSeq DEF Contents
<1> QED BY <1>1, <1>2

(* The operation of a call that was started.                               *)
LEMMA OpType ==
  ASSUME MemoryInv, NEW c \in Calls, pc[c] # "idle"
  PROVE  /\ op[c].session \in Sessions /\ op[c].msgs \in Seq(Messages)
         /\ op[c].max \in Int \cup {None}
BY OpsAssumption DEF MemoryInv, Operation

-----------------------------------------------------------------------------
(* A write: session s gets the list k with contents w, an object of its    *)
(* own or a new one, and no other list changes.                            *)
Writes(s, k, w) ==
  /\ heap' \in Seq(Seq(Messages)) /\ Len(heap) <= Len(heap')
  /\ k \in 1 .. Len(heap') /\ (k = store[s] \/ k = Len(heap) + 1)
  /\ heap'[k] = w /\ store' = [store EXCEPT ![s] = k]
  /\ \A i \in 1 .. Len(heap) : i # store[s] => heap'[i] = heap[i]
  /\ ret' = ret

(* append_messages is a write of what is kept.                             *)
LEMMA AppendWrites ==
  ASSUME MemoryInv, NEW c \in Calls, AppendMessages(c)
  PROVE  LET s == op[c].session IN
         \E k : Writes(s, k, Kept(Contents(s) \o op[c].msgs, op[c].max))
<1> DEFINE s == op[c].session
           all == Contents(s) \o op[c].msgs
           kept == Kept(all, op[c].max)
           extended == IF store[s] = None THEN heap
                       ELSE [heap EXCEPT ![store[s]] = all]
<1>1. TypeOK /\ Run(c, "append") /\ ret' = ret
  BY DEF MemoryInv, AppendMessages
<1>2. s \in Sessions /\ op[c].msgs \in Seq(Messages) /\ op[c].max \in Int \cup {None}
  BY <1>1, OpType DEF Run
<1>3. all \in Seq(Messages)
  BY <1>1, <1>2, ContentsType, ConcatProperties
<1>4. kept \in Seq(Messages)
  BY <1>2, <1>3, KeptType
<1>5. /\ heap \in Seq(Seq(Messages)) /\ Len(heap) \in Nat
      /\ store \in [Sessions -> (1 .. Len(heap)) \cup {None}]
  BY <1>1, LenProperties DEF TypeOK
<1>6. IF store[s] # None /\ kept = all
        THEN heap' = extended /\ store' = store
        ELSE heap' = Append(extended, kept) /\ store' = [store EXCEPT ![s] = Len(heap')]
  BY DEF AppendMessages
<1> HIDE DEF all, kept, s
<1>7. /\ extended \in Seq(Seq(Messages)) /\ Len(extended) = Len(heap)
      /\ store[s] # None => extended[store[s]] = all
      /\ \A i \in 1 .. Len(heap) : i # store[s] => extended[i] = heap[i]
  <2>1. CASE store[s] = None
    BY <1>5, <2>1
  <2>2. CASE store[s] # None
    <3>1. store[s] \in 1 .. Len(heap)
      BY <1>2, <1>5, <2>2
    <3> QED BY <1>3, <1>5, <2>2, <3>1, ChangedObject
  <2> QED BY <2>1, <2>2
<1> HIDE DEF extended
<1>8. CASE store[s] # None /\ kept = all
  <2>1. store[s] \in 1 .. Len(heap) /\ store' = [store EXCEPT ![s] = store[s]]
    BY <1>2, <1>5, <1>6, <1>8
  <2>2. Writes(s, store[s], kept)
    BY <1>1, <1>5, <1>6, <1>7, <1>8, <2>1 DEF Writes
  <2> QED BY <2>2 DEF s, kept, all
<1>9. CASE ~ (store[s] # None /\ kept = all)
  <2>1. heap' = Append(extended, kept) /\ store' = [store EXCEPT ![s] = Len(heap')]
    BY <1>6, <1>9
  <2>2. /\ heap' \in Seq(Seq(Messages)) /\ Len(heap') = Len(heap) + 1
        /\ heap'[Len(heap) + 1] = kept
        /\ \A i \in 1 .. Len(heap) : heap'[i] = extended[i]
    BY <1>4, <1>7, <2>1, NewObject
  <2>3. Writes(s, Len(heap) + 1, kept)
    BY <1>1, <1>5, <1>7, <2>1, <2>2 DEF Writes
  <2> QED BY <2>3 DEF s, kept, all
<1> QED BY <1>8, <1>9

(* set_history stores a copy.                                              *)
LEMMA SetWrites ==
  ASSUME MemoryInv, NEW c \in Calls, SetHistory(c)
  PROVE  \E k : Writes(op[c].session, k, op[c].msgs)
<1>1. /\ TypeOK /\ Run(c, "set") /\ ret' = ret /\ heap' = Append(heap, op[c].msgs)
      /\ store' = [store EXCEPT ![op[c].session] = Len(heap')]
  BY DEF MemoryInv, SetHistory
<1>2. op[c].msgs \in Seq(Messages) /\ heap \in Seq(Seq(Messages))
  BY <1>1, OpType DEF Run, TypeOK
<1>3. /\ heap' \in Seq(Seq(Messages)) /\ Len(heap') = Len(heap) + 1
      /\ heap'[Len(heap) + 1] = op[c].msgs /\ Len(heap) \in Nat
      /\ \A i \in 1 .. Len(heap) : heap'[i] = heap[i]
  BY <1>1, <1>2, NewObject
<1>4. Writes(op[c].session, Len(heap) + 1, op[c].msgs)
  BY <1>1, <1>3 DEF Writes
<1> QED BY <1>4

(* A list somebody got is not the one that is changed.                     *)
LEMMA WriteKeepsLists ==
  ASSUME MemoryInv, NEW s \in Sessions, NEW k, NEW w, Writes(s, k, w)
  PROVE  /\ \A c \in Calls : ret[c] # None => heap'[ret[c]] = heap[ret[c]]
         /\ Contents(s)' = w
         /\ \A z \in Sessions : z # s => Contents(z)' = Contents(z)
<1>1. TypeOK /\ NoSharing
  BY DEF MemoryInv
<1>2. \A c \in Calls : ret[c] # None => ret[c] \in 1 .. Len(heap) /\ ret[c] # store[s]
  BY <1>1 DEF TypeOK, NoSharing
<1>3. store'[s] = k /\ k # None /\ \A z \in Sessions : z # s => store'[z] = store[z]
  <2>1. k \in Int
    BY DEF Writes
  <2> QED BY <1>1, <2>1, NoneAssumption DEF TypeOK, Writes
<1>4. Contents(s)' = w
  BY <1>3 DEF Contents, Writes
<1>5. ASSUME NEW z \in Sessions, z # s PROVE Contents(z)' = Contents(z)
  <2>1. store[z] # None => store[z] \in 1 .. Len(heap) /\ store[z] # store[s]
    BY <1>1, <1>5 DEF TypeOK, NoSharing
  <2> QED BY <1>3, <1>5, <2>1 DEF Contents, Writes
<1> QED BY <1>2, <1>4, <1>5 DEF Writes

-----------------------------------------------------------------------------
(* The invariant.                                                          *)

(* Which sessions were written.                                            *)
Writer(c, s) ==
  /\ pc[c] \in {"applied", "ok"} /\ op[c].session = s
  /\ op[c].kind \in {"append", "set"}
  /\ op[c].kind = "append" => op[c].msgs # << >>

(* A step of call c, which changes whether s was written only if c now     *)
(* wrote it.                                                               *)
LEMMA WrittenStep ==
  ASSUME TypeOK, NEW c \in Calls, NEW s,
         \A b \in Calls : b # c => pc'[b] = pc[b] /\ op'[b] = op[b],
         Writer(c, s) => Writer(c, s)'
  PROVE  /\ Written(s) => Written(s)'
         /\ Writer(c, s)' => Written(s)'
         /\ ~ Writer(c, s)' => (Written(s)' => Written(s))
<1>1. Written(s) <=> \E b \in Calls : Writer(b, s)
  BY DEF Written, Writer
<1>2. Written(s)' <=> \E b \in Calls : Writer(b, s)'
  BY DEF Written, Writer
<1>3. \A b \in Calls : b # c => (Writer(b, s)' <=> Writer(b, s))
  BY DEF Writer
<1> QED BY <1>1, <1>2, <1>3

(* A write keeps the invariant and makes its session written.              *)
LEMMA WriteInv ==
  ASSUME MemoryInv, NEW c \in Calls, NEW kind \in {"append", "set"}, Run(c, kind),
         NEW s \in Sessions, op[c].session = s, NEW k, NEW w, Writes(s, k, w)
  PROVE  /\ MemoryInv' /\ Written(s)'
         /\ \A z \in Sessions : z # s => (Written(z)' <=> Written(z))
<1>1. TypeOK /\ NoSharing
  BY DEF MemoryInv
<1>2. /\ pc[c] = "called" /\ op[c].kind = kind /\ op' = op
      /\ pc'[c] = "applied" /\ \A b \in Calls : b # c => pc'[b] = pc[b]
      /\ pc' \in [Calls -> {"idle", "called", "applied", "ok"}]
  BY <1>1 DEF Run, TypeOK
<1>3. /\ heap' \in Seq(Seq(Messages)) /\ Len(heap) \in Nat /\ Len(heap') \in Nat
      /\ Len(heap) <= Len(heap')
      /\ k \in 1 .. Len(heap') /\ (k = store[s] \/ k = Len(heap) + 1)
      /\ store' = [store EXCEPT ![s] = k] /\ ret' = ret
  BY <1>1, LenProperties DEF Writes, TypeOK
<1>4. \A i \in 1 .. Len(heap) : i \in 1 .. Len(heap')
  BY <1>3
<1>5. TypeOK'
  BY <1>1, <1>2, <1>3, <1>4 DEF TypeOK
<1>6. store'[s] = k /\ \A z \in Sessions : z # s => store'[z] = store[z]
  BY <1>1, <1>3 DEF TypeOK
<1>7. \A z \in Sessions : z # s => store[z] # k
  BY <1>1, <1>3, NoneAssumption DEF TypeOK, NoSharing
<1>8. \A b \in Calls : ret[b] # k
  BY <1>1, <1>3, NoneAssumption DEF TypeOK, NoSharing
<1>9. NoSharing'
  BY <1>1, <1>3, <1>6, <1>7, <1>8 DEF NoSharing
<1>10. Writer(c, s)' /\ \A z : ~ Writer(c, z) /\ (z # s => ~ Writer(c, z)')
  BY <1>2 DEF Writer, MemoryInv
<1>11. /\ Written(s)' /\ \A z \in Sessions : Written(z) => Written(z)'
       /\ \A z \in Sessions : z # s => (Written(z)' => Written(z))
  BY <1>1, <1>2, <1>10, WrittenStep
<1>12. \A z \in Sessions : Written(z)' \/ store'[z] = None
  <2>1. \A z \in Sessions : Written(z) \/ store[z] = None
    BY DEF MemoryInv
  <2> TAKE z \in Sessions
  <2>2. CASE z = s
    BY <1>11, <2>2
  <2>3. CASE z # s
    BY <1>6, <1>11, <2>1, <2>3
  <2> QED BY <2>2, <2>3
<1>13. /\ \A b \in Calls : pc'[b] # "idle" => op'[b] \in Ops
       /\ \A b \in Calls : pc'[b] = "called" /\ op'[b].kind = "append" => op'[b].msgs # << >>
  BY <1>2 DEF MemoryInv
<1> QED BY <1>5, <1>9, <1>11, <1>12, <1>13 DEF MemoryInv

(* A step that writes nothing.                                             *)
LEMMA NoWriteInv ==
  ASSUME MemoryInv, NEW c \in Calls, TypeOK', NoSharing', store' = store,
         \A b \in Calls : b # c => pc'[b] = pc[b] /\ op'[b] = op[b],
         pc'[c] # "idle" => op'[c] \in Ops,
         pc'[c] = "called" /\ op'[c].kind = "append" => op'[c].msgs # << >>,
         \A z : Writer(c, z)' <=> Writer(c, z)
  PROVE  MemoryInv' /\ \A z \in Sessions : Written(z)' <=> Written(z)
<1>1. \A z \in Sessions : Written(z)' <=> Written(z)
  <2> TAKE z \in Sessions
  <2>1. (\E b \in Calls : Writer(b, z)') <=> \E b \in Calls : Writer(b, z)
    BY DEF Writer
  <2> QED BY <2>1 DEF Written, Writer
<1> QED BY <1>1 DEF MemoryInv

(* get_history: a new list, for the caller alone.                          *)
LEMMA GetInv ==
  ASSUME MemoryInv, NEW c \in Calls, GetHistory(c)
  PROVE  /\ MemoryInv' /\ \A z \in Sessions : Written(z)' <=> Written(z)
         /\ \A z \in Sessions : Contents(z)' = Contents(z)
         /\ ret' = [ret EXCEPT ![c] = Len(heap) + 1]
         /\ heap'[Len(heap) + 1] = Contents(op[c].session)
         /\ \A b \in Calls : ret[b] # None => heap'[ret[b]] = heap[ret[b]]
         /\ Len(heap) + 1 # None
<1> DEFINE s == op[c].session
<1>1. TypeOK /\ NoSharing /\ s \in Sessions
  BY OpType DEF MemoryInv, GetHistory, Run
<1>2. /\ pc[c] = "called" /\ op[c].kind = "get" /\ op' = op
      /\ pc'[c] = "applied" /\ \A b \in Calls : b # c => pc'[b] = pc[b]
      /\ pc' \in [Calls -> {"idle", "called", "applied", "ok"}]
      /\ heap' = Append(heap, Contents(s)) /\ store' = store
      /\ ret' = [ret EXCEPT ![c] = Len(heap')]
  BY <1>1 DEF GetHistory, Run, TypeOK
<1>3. /\ heap' \in Seq(Seq(Messages)) /\ Len(heap') = Len(heap) + 1
      /\ heap'[Len(heap) + 1] = Contents(s) /\ Len(heap) \in Nat
      /\ \A i \in 1 .. Len(heap) : heap'[i] = heap[i]
  BY <1>1, <1>2, ContentsType, NewObject DEF TypeOK
<1> HIDE DEF s
<1>4. \A i \in 1 .. Len(heap) : i \in 1 .. Len(heap')
  BY <1>3
<1>5. Len(heap) + 1 \in 1 .. Len(heap') /\ Len(heap) + 1 # None
  BY <1>3, NoneAssumption
<1>6. ret' \in [Calls -> (1 .. Len(heap')) \cup {None}]
  BY <1>1, <1>2, <1>3, <1>4, <1>5 DEF TypeOK
<1>7. TypeOK'
  BY <1>1, <1>2, <1>3, <1>4, <1>6 DEF TypeOK
<1>8. NoSharing'
  <2>1. \A z \in Sessions : store[z] # None => store[z] # Len(heap) + 1
    BY <1>1, <1>3 DEF TypeOK
  <2>2. \A b \in Calls : ret'[b] = ret[b] \/ ret'[b] = Len(heap) + 1
    BY <1>1, <1>2, <1>3 DEF TypeOK
  <2> QED BY <1>1, <1>2, <2>1, <2>2 DEF NoSharing
<1>9. MemoryInv' /\ \A z \in Sessions : Written(z)' <=> Written(z)
  <2>1. \A z : Writer(c, z)' <=> Writer(c, z)
    BY <1>2 DEF Writer
  <2>2. op[c] \in Ops
    BY <1>2 DEF MemoryInv
  <2> QED BY <1>2, <1>7, <1>8, <2>1, <2>2, NoWriteInv
<1>10. \A z \in Sessions : Contents(z)' = Contents(z)
  BY <1>1, <1>2, <1>3 DEF TypeOK, Contents
<1>11. \A b \in Calls : ret[b] # None => heap'[ret[b]] = heap[ret[b]]
  BY <1>1, <1>3 DEF TypeOK
<1> QED BY <1>2, <1>3, <1>5, <1>9, <1>10, <1>11 DEF s

(* Calls, pings and returns touch no list.                                 *)
LEMMA QuietInv ==
  ASSUME MemoryInv, NEW c \in Calls,
         (\E o \in Ops : Call(c, o)) \/ Ping(c) \/ Return(c)
  PROVE  MemoryInv' /\ \A z \in Sessions : Written(z)' <=> Written(z)
<1>1. TypeOK /\ NoSharing
  BY DEF MemoryInv
<1>2. heap' = heap /\ store' = store /\ ret' = ret
  BY DEF Call, Ping, Return
<1>3. NoSharing'
  BY <1>1, <1>2 DEF NoSharing
<1>4. ASSUME NEW o \in Ops, Call(c, o)
      PROVE  MemoryInv' /\ \A z \in Sessions : Written(z)' <=> Written(z)
  <2>1. /\ pc[c] = "idle" /\ op'[c] = o
        /\ pc'[c] = IF o.kind = "append" /\ o.msgs = << >> THEN "ok" ELSE "called"
        /\ \A b \in Calls : b # c => pc'[b] = pc[b] /\ op'[b] = op[b]
    BY <1>1, <1>4 DEF Call, TypeOK
  <2>2. TypeOK'
    BY <1>1, <1>2, <1>4 DEF Call, TypeOK
  <2>3. \A z : ~ Writer(c, z)' /\ ~ Writer(c, z)
    BY <2>1 DEF Writer
  <2> QED BY <1>2, <1>3, <2>1, <2>2, <2>3, NoWriteInv
<1>5. CASE Ping(c) \/ Return(c)
  <2>1. /\ op' = op /\ op[c] \in Ops
        /\ \/ pc[c] = "called" /\ op[c].kind = "ping" /\ pc'[c] = "applied"
           \/ pc[c] = "applied" /\ pc'[c] = "ok"
        /\ \A b \in Calls : b # c => pc'[b] = pc[b] /\ op'[b] = op[b]
    BY <1>1, <1>5 DEF Ping, Run, Return, TypeOK, MemoryInv
  <2>2. TypeOK'
    BY <1>1, <1>2, <1>5 DEF Ping, Run, Return, TypeOK
  <2>3. \A z : Writer(c, z)' <=> Writer(c, z)
    BY <2>1 DEF Writer
  <2>4. pc'[c] # "called"
    BY <2>1
  <2> QED BY <1>2, <1>3, <2>1, <2>2, <2>3, <2>4, NoWriteInv
<1> QED BY <1>4, <1>5

(* Nothing is stored at first.                                             *)
LEMMA InitInv == Init => MemoryInv
<1> SUFFICES ASSUME Init PROVE MemoryInv
  OBVIOUS
<1>1. TypeOK
  BY DEF Init, TypeOK
<1>2. NoSharing
  BY DEF Init, NoSharing
<1> QED BY <1>1, <1>2 DEF Init, MemoryInv

(* Every step keeps the invariant and the lists callers hold.              *)
LEMMA NextInv ==
  ASSUME MemoryInv, [Next]_vars
  PROVE  MemoryInv' /\ \A c \in Calls : ret[c] # None => heap'[ret[c]] = heap[ret[c]]
<1> DEFINE Kept2 == \A c \in Calls : ret[c] # None => heap'[ret[c]] = heap[ret[c]]
<1>1. ASSUME NEW c \in Calls, AppendMessages(c) PROVE MemoryInv' /\ Kept2
  <2>1. Run(c, "append") /\ op[c].session \in Sessions
    BY <1>1, OpType DEF AppendMessages, Run
  <2>2. PICK k : Writes(op[c].session, k,
                        Kept(Contents(op[c].session) \o op[c].msgs, op[c].max))
    BY <1>1, AppendWrites
  <2> QED BY <2>1, <2>2, WriteInv, WriteKeepsLists
<1>2. ASSUME NEW c \in Calls, SetHistory(c) PROVE MemoryInv' /\ Kept2
  <2>1. Run(c, "set") /\ op[c].session \in Sessions
    BY <1>2, OpType DEF SetHistory, Run
  <2>2. PICK k : Writes(op[c].session, k, op[c].msgs)
    BY <1>2, SetWrites
  <2> QED BY <2>1, <2>2, WriteInv, WriteKeepsLists
<1>3. ASSUME NEW c \in Calls, GetHistory(c) PROVE MemoryInv' /\ Kept2
  BY <1>3, GetInv
<1>4. ASSUME NEW c \in Calls, (\E o \in Ops : Call(c, o)) \/ Ping(c) \/ Return(c)
      PROVE  MemoryInv' /\ Kept2
  <2>1. heap' = heap
    BY <1>4 DEF Call, Ping, Return
  <2> QED BY <1>4, <2>1, QuietInv
<1>5. CASE UNCHANGED vars
  <2>1. MemoryInv'
    BY <1>5 DEF vars, MemoryInv, TypeOK, NoSharing, Written
  <2> QED BY <1>5, <2>1 DEF vars
<1> QED BY <1>1, <1>2, <1>3, <1>4, <1>5 DEF Next

(* MemoryInv holds in every reachable state.                               *)
THEOREM SpecInv == Spec => []MemoryInv
BY InitInv, NextInv, PTL DEF Spec

(* A list that get_history gave to a caller keeps its contents for ever,   *)
(* although append_messages changes stored lists in place.                 *)
THEOREM CallersListsAreKept == Spec => MemoryCallersListsKept
<1>1. MemoryInv /\ [Next]_vars =>
        [\A c \in Calls : ret[c] # None => heap'[ret[c]] = heap[ret[c]]]_vars
  BY NextInv
<1> QED BY <1>1, SpecInv, PTL DEF Spec, MemoryCallersListsKept

-----------------------------------------------------------------------------
(* The refinement.  A primed function value is taken pointwise: the four   *)
(* that the mapping builds are compared at every argument.                 *)

(* The two modules' slices are one.                                        *)
LEMMA KeepIsKept ==
  ASSUME NEW h, NEW n
  PROVE  /\ Abstract!Keep(h, n) = Kept(h, n)
         /\ Abstract!Keep(h, None) = h
BY DEF Abstract!Keep, Kept, Abstract!Recent, Recent

(* What the abstract state is, before and after a step.                    *)
AbstractHist == [s \in Sessions |-> Contents(s)]
AbstractLive == [s \in Sessions |-> Written(s)]
AbstractGot == [c \in Calls |-> IF ret[c] = None THEN None ELSE heap[ret[c]]]

(* The repository starts as an empty store.                                *)
LEMMA InitRefines == Init => Abstract!Init
<1> SUFFICES ASSUME Init PROVE Abstract!Init
  OBVIOUS
<1>1. [s \in Sessions |-> Contents(s)] = [s \in Sessions |-> << >>]
  BY DEF Init, Contents
<1>2. [s \in Sessions |-> Written(s)] = [s \in Sessions |-> FALSE]
  BY DEF Init, Written
<1>3. [c \in Calls |-> IF ret[c] = None THEN None ELSE heap[ret[c]]]
        = [c \in Calls |-> None]
  BY DEF Init
<1> QED BY <1>1, <1>2, <1>3 DEF Init, Abstract!Init

(* A write is the port's write: append_messages and set_history.           *)
LEMMA WriteRefines ==
  ASSUME MemoryInv, NEW c \in Calls, NEW kind \in {"append", "set"}, Run(c, kind),
         NEW s \in Sessions, op[c].session = s, NEW k, NEW w, Writes(s, k, w),
         w = Abstract!Written(c, Contents(s))
  PROVE  Abstract!ApplyWrite(c)
<1>1. TypeOK /\ pc[c] = "called" /\ op[c].kind = kind /\ op' = op
  BY DEF MemoryInv, Run
<1>2. /\ \A b \in Calls : ret[b] # None => heap'[ret[b]] = heap[ret[b]]
      /\ Contents(s)' = w /\ \A z \in Sessions : z # s => Contents(z)' = Contents(z)
  BY <1>1, WriteKeepsLists
<1>3. Written(s)' /\ \A z \in Sessions : z # s => (Written(z)' <=> Written(z))
  BY WriteInv
<1>4. ret' = ret
  BY DEF Writes
<1>5. AbstractHist' = [AbstractHist EXCEPT ![s] = w]
  BY <1>1, <1>2 DEF AbstractHist
<1>6. AbstractLive' = [AbstractLive EXCEPT ![s] = TRUE]
  <2>1. \A z \in Sessions : Written(z)' = IF z = s THEN TRUE ELSE Written(z)
    BY <1>3 DEF Written
  <2> QED BY <2>1, Zenon DEF AbstractLive
<1>7. AbstractGot' = AbstractGot
  BY <1>2, <1>4 DEF AbstractGot
<1>8. pc' = [pc EXCEPT ![c] = IF pc[c] = "lost" THEN "error" ELSE "applied"]
  BY <1>1 DEF Run
<1>9. AbstractHist[s] = Contents(s)
  BY <1>1 DEF AbstractHist
<1>10. Abstract!Take(c)
  BY <1>1, <1>8 DEF Abstract!Take
<1>11. Abstract!Write(c)
  BY <1>1, <1>5, <1>6, <1>9 DEF Abstract!Write, AbstractHist, AbstractLive
<1> QED BY <1>1, <1>7, <1>10, <1>11 DEF Abstract!ApplyWrite, AbstractGot

(* append_messages keeps what the port says, and so does set_history.      *)
LEMMA AppendRefines ==
  ASSUME MemoryInv, NEW c \in Calls, AppendMessages(c)
  PROVE  Abstract!ApplyWrite(c)
<1>1. Run(c, "append") /\ op[c].kind = "append" /\ op[c].session \in Sessions
  BY OpType DEF AppendMessages, Run
<1>2. PICK s \in Sessions : op[c].session = s
  BY <1>1
<1>3. PICK k : Writes(s, k, Kept(Contents(s) \o op[c].msgs, op[c].max))
  BY <1>2, AppendWrites
<1>4. Abstract!AppendLimit(op[c]) = op[c].max
  BY DEF Abstract!AppendLimit
<1>5. Abstract!Written(c, Contents(s)) = Kept(Contents(s) \o op[c].msgs, op[c].max)
  BY <1>1, <1>4, KeepIsKept DEF Abstract!Written
<1>6. PICK w : w = Kept(Contents(s) \o op[c].msgs, op[c].max)
  OBVIOUS
<1> QED BY <1>1, <1>2, <1>3, <1>5, <1>6, WriteRefines

(* set_history is the port's replacement.                                  *)
LEMMA SetRefines ==
  ASSUME MemoryInv, NEW c \in Calls, SetHistory(c)
  PROVE  Abstract!ApplyWrite(c)
<1>1. Run(c, "set") /\ op[c].kind = "set" /\ op[c].session \in Sessions
  BY OpType DEF SetHistory, Run
<1>2. PICK s \in Sessions : op[c].session = s
  BY <1>1
<1>3. PICK w : w = op[c].msgs
  OBVIOUS
<1>4. PICK k : Writes(s, k, w)
  BY <1>2, <1>3, SetWrites
<1>5. Abstract!Written(c, Contents(s)) = w
  BY <1>1, <1>3, KeepIsKept DEF Abstract!Written
<1> QED BY <1>1, <1>2, <1>4, <1>5, WriteRefines

(* get_history reads what the session holds at that instant.               *)
LEMMA GetRefines ==
  ASSUME MemoryInv, NEW c \in Calls, GetHistory(c)
  PROVE  Abstract!ApplyGet(c)
<1>1. Run(c, "get") /\ TypeOK /\ op[c].session \in Sessions
  BY OpType DEF GetHistory, Run, MemoryInv
<1>2. /\ \A z \in Sessions : Written(z)' <=> Written(z)
      /\ \A z \in Sessions : Contents(z)' = Contents(z)
      /\ ret' = [ret EXCEPT ![c] = Len(heap) + 1]
      /\ heap'[Len(heap) + 1] = Contents(op[c].session)
      /\ \A b \in Calls : ret[b] # None => heap'[ret[b]] = heap[ret[b]]
      /\ Len(heap) + 1 # None
  BY GetInv
<1>3. PICK s \in Sessions : op[c].session = s
  BY <1>1
<1>4. AbstractHist' = AbstractHist
  BY <1>2 DEF AbstractHist
<1>5. AbstractLive' = AbstractLive
  <2>1. \A z \in Sessions : Written(z)' = Written(z)
    BY <1>2 DEF Written
  <2> QED BY <2>1, Zenon DEF AbstractLive
<1>6. AbstractGot' = [AbstractGot EXCEPT ![c] = Contents(s)]
  BY <1>1, <1>2, <1>3 DEF AbstractGot, TypeOK
<1>7. Abstract!Visible(s) = Contents(s)
  <2>1. Written(s) \/ store[s] = None
    BY DEF MemoryInv
  <2>2. CASE Written(s)
    BY <2>2 DEF Abstract!Visible
  <2>3. CASE store[s] = None
    BY <2>3 DEF Abstract!Visible, Contents
  <2> QED BY <2>1, <2>2, <2>3
<1>8. /\ Abstract!Take(c) /\ op[c].kind = "get" /\ op' = op
  BY <1>1 DEF Run, Abstract!Take
<1> QED BY <1>3, <1>4, <1>5, <1>6, <1>7, <1>8
        DEF Abstract!ApplyGet, AbstractHist, AbstractLive, AbstractGot

(* A step that touches no list leaves the abstract contents alone.         *)
LEMMA QuietKeeps ==
  ASSUME heap' = heap, store' = store, ret' = ret,
         \A z \in Sessions : Written(z)' <=> Written(z)
  PROVE  AbstractHist' = AbstractHist /\ AbstractLive' = AbstractLive
         /\ AbstractGot' = AbstractGot
<1>1. \A z \in Sessions : Written(z)' = Written(z)
  BY DEF Written
<1>2. AbstractLive' = AbstractLive
  BY <1>1, Zenon DEF AbstractLive
<1> QED BY <1>2 DEF AbstractHist, AbstractGot, Contents

(* Calls, pings and returns are the port's.                                *)
LEMMA QuietRefines ==
  ASSUME MemoryInv, NEW c \in Calls,
         (\E o \in Ops : Call(c, o)) \/ Ping(c) \/ Return(c)
  PROVE  Abstract!Next
<1>1. heap' = heap /\ store' = store /\ ret' = ret
  BY DEF Call, Ping, Return
<1>2. /\ AbstractHist' = AbstractHist /\ AbstractLive' = AbstractLive
      /\ AbstractGot' = AbstractGot
  BY <1>1, QuietInv, QuietKeeps
<1>3. ASSUME NEW o \in Ops, Call(c, o) PROVE Abstract!Next
  <2>1. CASE o.kind = "append" /\ o.msgs = << >>
    <3>1. Abstract!CallEmptyAppend(c, o)
      BY <1>2, <1>3, <2>1 DEF Call, Abstract!CallEmptyAppend,
         AbstractHist, AbstractLive, AbstractGot
    <3> QED BY <3>1 DEF Abstract!Next
  <2>2. CASE ~ (o.kind = "append" /\ o.msgs = << >>)
    <3>1. Abstract!Call(c, o)
      BY <1>2, <1>3, <2>2 DEF Call, Abstract!Call,
         AbstractHist, AbstractLive, AbstractGot
    <3> QED BY <3>1 DEF Abstract!Next
  <2> QED BY <2>1, <2>2
<1>4. CASE Ping(c)
  <2>1. Abstract!Take(c) /\ op[c].kind = "ping" /\ op' = op
    BY <1>4 DEF Ping, Run, Abstract!Take
  <2>2. Abstract!ApplyPing(c)
    BY <1>2, <2>1 DEF Abstract!ApplyPing, AbstractHist, AbstractLive, AbstractGot
  <2> QED BY <2>2 DEF Abstract!Next
<1>5. CASE Return(c)
  <2>1. Abstract!Return(c)
    BY <1>2, <1>5 DEF Return, Abstract!Return, AbstractHist, AbstractLive, AbstractGot
  <2> QED BY <2>1 DEF Abstract!Next
<1> QED BY <1>3, <1>4, <1>5

(* Every step is a step of the port's specification, or none.              *)
LEMMA NextRefines ==
  ASSUME MemoryInv, [Next]_vars
  PROVE  [Abstract!Next]_(Abstract!vars)
<1>1. ASSUME NEW c \in Calls, AppendMessages(c) \/ SetHistory(c) \/ GetHistory(c)
      PROVE  Abstract!Next
  BY <1>1, AppendRefines, SetRefines, GetRefines DEF Abstract!Next
<1>2. ASSUME NEW c \in Calls, (\E o \in Ops : Call(c, o)) \/ Ping(c) \/ Return(c)
      PROVE  Abstract!Next
  BY <1>2, QuietRefines
<1>3. CASE UNCHANGED vars
  <2>1. heap' = heap /\ store' = store /\ ret' = ret /\ pc' = pc /\ op' = op
    BY <1>3 DEF vars
  <2>2. \A z \in Sessions : Written(z)' <=> Written(z)
    BY <2>1 DEF Written
  <2>3. /\ AbstractHist' = AbstractHist /\ AbstractLive' = AbstractLive
        /\ AbstractGot' = AbstractGot
    BY <2>1, <2>2, QuietKeeps
  <2> QED BY <2>1, <2>3 DEF Abstract!vars, AbstractHist, AbstractLive, AbstractGot
<1> QED BY <1>1, <1>2, <1>3 DEF Next

(* The in-memory repository implements the port: every operation takes     *)
(* effect at one instant, trims to exactly the caller's limit, and a       *)
(* history that was read never changes, whatever other requests store.     *)
THEOREM MemoryRefines == Spec => MemoryImplementsSessionStore
<1>1. MemoryInv /\ [Next]_vars => [Abstract!Next]_(Abstract!vars)
  BY NextRefines
<1> QED BY <1>1, InitRefines, SpecInv, PTL
        DEF Spec, MemoryImplementsSessionStore, Abstract!Spec

=============================================================================
