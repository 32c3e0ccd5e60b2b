-------------------------- MODULE Lifecycle_proofs --------------------------
(***************************************************************************)
(* Proofs about Lifecycle, for any set of requests, any settings and any   *)
(* number of lives.                                                        *)
(***************************************************************************)
EXTENDS Lifecycle, SequenceTheorems, TLAPS

-----------------------------------------------------------------------------
(* The inductive invariant behind the properties of Lifecycle.             *)

RequestStates ==
  [kind : {"ready", "chat", None}, rest : Seq(Deps),
   oks : SUBSET Deps, seen : SUBSET Deps,
   status : {None, "ok", "degraded", "fail", "answered", "cancelled"}]

(* A request that awaits something is in flight.  A /ready in flight has   *)
(* seen what is up and what answered it, and awaits only what it counts.   *)
Awaits(r) == req[r].rest # << >> => InFlight(r)

ProbesSoFar(r) ==
  req[r].kind = "ready" /\ InFlight(r) =>
    /\ req[r].rest \in Seq(Probed)
    /\ req[r].oks \subseteq Probed \cap req[r].seen
    /\ {d \in Deps : up[d]} \subseteq req[r].seen

(* A local adapter needs no server and has no connection.                  *)
LocalIsUp == \A d \in Deps : Local(d) => up[d] /\ conn[d] # "open"

(* An application with a setting that no builder knows does not run.       *)
KnownKinds == app \in {"serving", "closing", "stopped"} => Supported

(* An httpx client that was closed is never open again.  The adapters that *)
(* would connect again need a request that uses them, and a draining       *)
(* server has none from its shutdown on.                                   *)
ClosedForGood ==
  /\ closing # {} => app = "closing"
  /\ app \in {"closing", "stopped"} /\ graceful => \A r \in Requests : ~ InFlight(r)
  /\ app \in {"closing", "stopped"} => \A d \in Deps \ (unclosed \cup closing) :
       /\ config[d] = "http" => conn[d] = "closed"
       /\ conn[d] = "open" => ~ graceful

RequestsInv ==
  /\ req \in [Requests -> RequestStates]
  /\ ReadyWasTrue
  /\ \A r \in Requests : Awaits(r) /\ ProbesSoFar(r)

LifecycleInv ==
  /\ TypeOK /\ RequestsInv
  /\ LocalIsUp /\ KnownKinds /\ ClosedForGood

-----------------------------------------------------------------------------
USE NoneAssumption, LivesAssumption, ConfigsAssumption, PathsAssumption

-----------------------------------------------------------------------------
(* What a request awaits.                                                  *)

(* The limiter is awaited first if it is enabled.                          *)
LEMMA LimiterType ==
  ASSUME NEW s, s = (IF limited THEN <<"rate_limiter">> ELSE << >>)
  PROVE  s \in Seq(Deps)
<1>1. CASE limited
  BY <1>1 DEF Deps
<1>2. CASE ~ limited
  BY <1>2
<1> QED BY <1>1, <1>2

(* /ready probes at least one dependency, and all that it counts.          *)
LEMMA ProbesType ==
  /\ Probes \in Seq(Probed) /\ Probes \in Seq(Deps) /\ Probes # << >>
  /\ Probed \subseteq Deps /\ Probed # {}
<1> DEFINE A == <<"llm", "tts", "session_store">>
           B == IF limited THEN <<"rate_limiter">> ELSE << >>
<1>1. A \in Seq(Deps) /\ Len(A) = 3
  BY DEF Deps
<1>2. B \in Seq(Deps)
  BY LimiterType
<1>3. Probes = A \o B
  BY DEF Probes
<1> HIDE DEF A, B
<1>4. Probes \in Seq(Deps) /\ Len(Probes) >= 3
  <2>1. A \o B \in Seq(Deps) /\ Len(A \o B) = Len(A) + Len(B)
    BY <1>1, <1>2, ConcatProperties, Zenon
  <2>2. Len(B) \in Nat
    BY <1>2, LenProperties
  <2> QED BY <1>1, <1>3, <2>1, <2>2
<1> HIDE DEF Probes
<1>5. Probes \in Seq(Probed) /\ Probed \subseteq Deps
  BY <1>4 DEF Probed
<1>6. 1 \in DOMAIN Probes /\ Probes # << >>
  BY <1>4
<1>7. Probed # {}
  BY <1>6 DEF Probed
<1> QED BY <1>4, <1>5, <1>6, <1>7

(* A chat request uses at least one dependency.                            *)
LEMMA UsesType == ASSUME NEW u \in Uses PROVE u \in Seq(Deps) /\ u # << >>
<1> DEFINE A == IF limited THEN <<"rate_limiter">> ELSE << >>
           B == <<"session_store", "llm", "session_store">>
<1>1. PICK C \in {<<"tts">>, << >>} : u = A \o B \o C
  BY DEF Uses
<1>2. A \in Seq(Deps)
  BY LimiterType
<1>3. B \in Seq(Deps) /\ Len(B) = 3
  BY DEF Deps
<1>4. C \in Seq(Deps)
  <2>1. CASE C = <<"tts">>
    BY <2>1 DEF Deps
  <2>2. CASE C = << >>
    BY <2>2
  <2> QED BY <1>1, <2>1, <2>2
<1> HIDE DEF A, B
<1>5. A \o B \in Seq(Deps) /\ Len(A \o B) >= 3
  <2>1. A \o B \in Seq(Deps) /\ Len(A \o B) = Len(A) + Len(B)
    BY <1>2, <1>3, ConcatProperties, Zenon
  <2>2. Len(A) \in Nat
    BY <1>2, LenProperties
  <2> QED BY <1>3, <2>1, <2>2
<1>6. u \in Seq(Deps) /\ Len(u) >= 3
  <2> DEFINE D == A \o B
  <2>1. u = D \o C
    BY <1>1
  <2> HIDE DEF D
  <2>2. D \o C \in Seq(Deps) /\ Len(D \o C) = Len(D) + Len(C)
    BY <1>4, <1>5, ConcatProperties, Zenon DEF D
  <2>3. Len(C) \in Nat /\ Len(D) \in Nat /\ Len(D) >= 3
    BY <1>4, <1>5, LenProperties DEF D
  <2> QED BY <2>1, <2>2, <2>3
<1> QED BY <1>6

-----------------------------------------------------------------------------
(* Frames.                                                                 *)

(* The part about requests stands while they, the settings and the servers *)
(* do.                                                                     *)
LEMMA RequestsKept ==
  RequestsInv /\ UNCHANGED <<req, limited, up>> => RequestsInv'
<1> SUFFICES ASSUME RequestsInv, UNCHANGED <<req, limited, up>> PROVE RequestsInv'
  OBVIOUS
<1>1. Probed' = Probed
  BY DEF Probed, Probes
<1> QED BY <1>1 DEF RequestsInv, ReadyWasTrue, Awaits, ProbesSoFar, InFlight

(* The application that has not started.                                   *)
LEMMA InitInv == Init => LifecycleInv
<1> SUFFICES ASSUME Init PROVE LifecycleInv
  OBVIOUS
<1>1. TypeOK
  BY DEF Init, TypeOK, NoRequest, Request, Deps
<1>2. RequestsInv
  <2>1. req \in [Requests -> RequestStates]
    BY DEF Init, NoRequest, Request, RequestStates
  <2> QED BY <2>1 DEF Init, NoRequest, Request, RequestsInv, ReadyWasTrue, Awaits, ProbesSoFar, InFlight
<1>3. LocalIsUp /\ KnownKinds /\ ClosedForGood
  BY DEF Init, LocalIsUp, KnownKinds, ClosedForGood
<1> QED BY <1>1, <1>2, <1>3 DEF LifecycleInv

-----------------------------------------------------------------------------
(* The lifespan.                                                           *)

(* A life starts with no connection, no success and no request in flight.  *)
LEMMA StartupInv == LifecycleInv /\ Startup => LifecycleInv'
<1> SUFFICES ASSUME LifecycleInv, Startup PROVE LifecycleInv'
  OBVIOUS
<1> USE DEF LifecycleInv, Startup, fixed
<1>1. TypeOK'
  BY DEF TypeOK
<1>2. RequestsInv'
  BY RequestsKept
<1>3. LocalIsUp' /\ KnownKinds'
  BY DEF LocalIsUp, Local, KnownKinds, Supported
<1>4. ClosedForGood'
  BY DEF TypeOK, ClosedForGood
<1> QED BY <1>1, <1>2, <1>3, <1>4

(* A shutdown counts on nobody being in flight only if the server drains.  *)
LEMMA ShutdownInv == LifecycleInv /\ Shutdown => LifecycleInv'
<1> SUFFICES ASSUME LifecycleInv, Shutdown PROVE LifecycleInv'
  OBVIOUS
<1> USE DEF LifecycleInv, Shutdown, fixed
<1>1. TypeOK'
  BY DEF TypeOK
<1>2. RequestsInv'
  BY RequestsKept
<1>3. LocalIsUp' /\ KnownKinds'
  BY DEF TypeOK, LocalIsUp, Local, KnownKinds, Supported
<1>4. ClosedForGood'
  BY DEF TypeOK, ClosedForGood, LocalIsUp, Local, InFlight
<1> QED BY <1>1, <1>2, <1>3, <1>4

(* One close() ends well or raises; the others are not touched.            *)
LEMMA CloseOneInv ==
  ASSUME LifecycleInv, NEW d \in Deps, CloseOne(d) \/ CloseOneFails(d)
  PROVE  LifecycleInv'
<1> USE DEF LifecycleInv, CloseOne, CloseOneFails, fixed
<1>1. TypeOK'
  BY DEF TypeOK, AfterClose
<1>2. RequestsInv'
  BY RequestsKept
<1>3. LocalIsUp' /\ KnownKinds'
  BY DEF TypeOK, LocalIsUp, Local, AfterClose, KnownKinds, Supported
<1>4. ClosedForGood'
  BY DEF TypeOK, ClosedForGood, AfterClose, InFlight
<1> QED BY <1>1, <1>2, <1>3, <1>4

(* gather returns when every close() has ended.                            *)
LEMMA StoppedInv == LifecycleInv /\ Stopped => LifecycleInv'
<1> SUFFICES ASSUME LifecycleInv, Stopped PROVE LifecycleInv'
  OBVIOUS
<1> USE DEF LifecycleInv, Stopped, fixed
<1>1. TypeOK'
  BY DEF TypeOK
<1>2. RequestsInv'
  BY RequestsKept
<1>3. LocalIsUp' /\ KnownKinds'
  BY DEF TypeOK, LocalIsUp, Local, KnownKinds, Supported
<1>4. ClosedForGood'
  BY DEF TypeOK, ClosedForGood, InFlight
<1> QED BY <1>1, <1>2, <1>3, <1>4

-----------------------------------------------------------------------------
(* Requests.                                                               *)

(* What ping() and a use of a dependency may end with: a good answer needs *)
(* a server that is up, and a local adapter opens nothing.                 *)
LEMMA PingResult ==
  ASSUME TypeOK, LocalIsUp, NEW d \in Deps, NEW x \in Ping(d)
  PROVE  /\ x[2] \in {"none", "open", "closed"}
         /\ x[1] => up[d]
         /\ Local(d) => x[2] # "open"
<1>1. conn[d] \in {"none", "open", "closed"}
  BY DEF TypeOK
<1>2. CASE Local(d)
  <2>1. x = <<TRUE, "none">> /\ up[d]
    BY <1>2 DEF Ping, LocalIsUp
  <2> QED BY <2>1
<1>3. CASE ~ Local(d)
  <2>1. x = <<FALSE, conn[d]>> \/ (up[d] /\ x \in {TRUE, FALSE} \X {"open"})
    BY <1>3 DEF Ping, PingHttp, PingServer
  <2>2. CASE x = <<FALSE, conn[d]>>
    BY <1>1, <1>3, <2>2
  <2>3. CASE up[d] /\ x \in {TRUE, FALSE} \X {"open"}
    BY <1>3, <2>3
  <2> QED BY <2>1, <2>2, <2>3
<1> QED BY <1>2, <1>3

(* One request changes to q.                                               *)
LEMMA OneRequest ==
  ASSUME RequestsInv, UNCHANGED <<limited, up>>,
         NEW r \in Requests, NEW q \in RequestStates, req' = [req EXCEPT ![r] = q],
         q.rest # << >> => q.kind # None /\ q.status = None,
         q.kind = "ready" /\ q.status = None =>
           /\ q.rest \in Seq(Probed) /\ q.oks \subseteq Probed \cap q.seen
           /\ {d \in Deps : up[d]} \subseteq q.seen,
         q.status = "ok" => Probed \subseteq q.seen,
         q.status = "degraded" => Probed \cap q.seen # {}
  PROVE  RequestsInv'
<1>1. Probed' = Probed
  BY DEF Probed, Probes
<1>2. \A p \in Requests : req'[p] = IF p = r THEN q ELSE req[p]
  BY DEF RequestsInv
<1>3. req' \in [Requests -> RequestStates]
  BY DEF RequestsInv
<1>4. ReadyWasTrue'
  BY <1>1, <1>2 DEF RequestsInv, ReadyWasTrue
<1>5. ASSUME NEW p \in Requests PROVE Awaits(p)' /\ ProbesSoFar(p)'
  <2>1. CASE p = r
    BY <1>1, <1>2, <2>1 DEF Awaits, ProbesSoFar, InFlight
  <2>2. CASE p # r
    BY <1>1, <1>2, <2>2 DEF RequestsInv, Awaits, ProbesSoFar, InFlight
  <2> QED BY <2>1, <2>2
<1> QED BY <1>3, <1>4, <1>5 DEF RequestsInv

(* A request arrives and either awaits something or is answered.           *)
LEMMA ArriveInv ==
  ASSUME LifecycleInv, NEW r \in Requests, NEW kind \in Paths, Arrive(r, kind)
  PROVE  LifecycleInv'
<1> USE DEF LifecycleInv, fixed, appVars
<1> DEFINE awaited == IF kind = "chat" THEN Uses ELSE IF boot THEN {Probes} ELSE {<< >>}
           seen == IF kind = "ready" THEN {d \in Deps : up[d]} ELSE {}
           status == IF kind = "ready" /\ ~ boot THEN "fail" ELSE None
           Q(rest) == Request(kind, rest, seen, status)
<1>1. PICK rest \in awaited : req' = [req EXCEPT ![r] = Q(rest)]
  BY DEF Arrive
<1>2. /\ rest \in Seq(Deps)
      /\ kind = "ready" => /\ rest \in Seq(Probed)
                           /\ rest # << >> => boot
  <2>1. CASE kind = "chat"
    BY <1>1, <2>1, UsesType
  <2>2. CASE kind = "ready" /\ boot
    BY <1>1, <2>2, ProbesType
  <2>3. CASE kind = "ready" /\ ~ boot
    BY <1>1, <2>3
  <2> QED BY <2>1, <2>2, <2>3
<1> DEFINE q == Q(rest)
<1>3. /\ q.kind = kind /\ q.rest = rest /\ q.oks = {}
      /\ q.seen = seen /\ q.status = status /\ q \in RequestStates
  <2>1. seen \in SUBSET Deps /\ status \in {"fail", None}
    OBVIOUS
  <2> HIDE DEF seen, status
  <2> QED BY <1>2, <2>1 DEF Request, RequestStates
<1>4. req' = [req EXCEPT ![r] = q]
  BY <1>1
<1> HIDE DEF q
<1>5. UNCHANGED <<fixed, appVars, conn, last, up>> /\ Accepts(kind)
  BY DEF Arrive
<1>6. RequestsInv'
  BY <1>2, <1>3, <1>4, <1>5, OneRequest
<1>7. TypeOK'
  BY <1>5, <1>6 DEF TypeOK, RequestsInv, RequestStates
<1>8. LocalIsUp' /\ KnownKinds'
  BY <1>5 DEF LocalIsUp, Local, KnownKinds, Supported
<1>9. ClosedForGood'
  <2>1. ~ (app \in {"closing", "stopped"} /\ graceful)
    BY <1>5 DEF Accepts
  <2> QED BY <1>5, <2>1 DEF ClosedForGood
<1> QED BY <1>6, <1>7, <1>8, <1>9

(* The connections, while the application and the settings stay: a use     *)
(* needs a request in flight, which a draining server that shuts down has  *)
(* none of.                                                                *)
LEMMA UseKeepsClosed ==
  ASSUME LifecycleInv, UNCHANGED <<fixed, appVars, up>>,
         NEW r \in Requests, InFlight(r), NEW d \in Deps, NEW x \in Ping(d),
         conn' = [conn EXCEPT ![d] = x[2]]
  PROVE  /\ conn' \in [Deps -> {"none", "open", "closed"}]
         /\ LocalIsUp' /\ ClosedForGood'
<1> USE DEF LifecycleInv, fixed, appVars
<1>1. x[2] \in {"none", "open", "closed"} /\ (Local(d) => x[2] # "open")
  BY PingResult
<1>2. conn' \in [Deps -> {"none", "open", "closed"}]
  BY <1>1 DEF TypeOK
<1>3. LocalIsUp'
  BY <1>1, <1>2 DEF TypeOK, LocalIsUp, Local
<1>4. ~ (app \in {"closing", "stopped"} /\ graceful)
  BY DEF ClosedForGood
<1>5. config[d] = "http" /\ conn[d] = "closed" => x[2] = "closed"
  BY DEF Ping, PingHttp, Local
<1>6. \A e \in Deps : conn'[e] = IF e = d THEN x[2] ELSE conn[e]
  BY DEF TypeOK
<1>7. ClosedForGood'
  <2>1. closing' # {} => app' = "closing"
    BY DEF ClosedForGood
  <2>2. ASSUME app' \in {"closing", "stopped"}, NEW e \in Deps \ (unclosed' \cup closing')
        PROVE  /\ config'[e] = "http" => conn'[e] = "closed"
               /\ conn'[e] = "open" => ~ graceful'
    <3>1. ~ graceful' /\ (config[e] = "http" => conn[e] = "closed")
      BY <1>4, <2>2 DEF ClosedForGood
    <3> QED BY <1>5, <1>6, <2>2, <3>1
  <2> QED BY <1>4, <2>1, <2>2 DEF ClosedForGood
<1> QED BY <1>2, <1>3, <1>7

(* A probe ends: its result joins what the request has seen.               *)
LEMMA ProbeEndsInv ==
  ASSUME LifecycleInv, NEW r \in Requests, ProbeEnds(r)
  PROVE  LifecycleInv'
<1> USE DEF LifecycleInv, fixed, appVars
<1> DEFINE d == Head(req[r].rest)
           rest == Tail(req[r].rest)
           Oks(x) == IF x[1] THEN req[r].oks \cup {d} ELSE req[r].oks
           Q(x) == [req[r] EXCEPT !.oks = Oks(x), !.rest = rest,
                      !.status = IF rest = << >> THEN Overall(Oks(x), Probed)
                                 ELSE req[r].status]
<1>1. PICK x \in Ping(d) :
        /\ conn' = [conn EXCEPT ![d] = x[2]]
        /\ last' = LastSuccess(d, x[1])
        /\ req' = [req EXCEPT ![r] = Q(x)]
  BY DEF ProbeEnds, ProbeResult
<1>2. /\ req[r] \in RequestStates /\ req[r].kind = "ready" /\ req[r].rest # << >>
      /\ UNCHANGED <<fixed, appVars, up>>
  BY DEF ProbeEnds, RequestsInv
<1>3. InFlight(r)
  BY <1>2 DEF RequestsInv, Awaits
<1>4. /\ req[r].rest \in Seq(Probed) /\ req[r].oks \subseteq Probed \cap req[r].seen
      /\ {e \in Deps : up[e]} \subseteq req[r].seen
  BY <1>2, <1>3 DEF RequestsInv, ProbesSoFar
<1>5. d \in Probed /\ rest \in Seq(Probed) /\ rest \in Seq(Deps) /\ d \in Deps
  <2>1. d \in Probed /\ rest \in Seq(Probed)
    BY <1>2, <1>4
  <2>2. rest \in Seq(Deps)
    BY <1>2 DEF RequestStates
  <2> QED BY <2>1, <2>2, ProbesType
<1> DEFINE oks == Oks(x)
           status == IF rest = << >> THEN Overall(oks, Probed) ELSE req[r].status
           q == [req[r] EXCEPT !.oks = oks, !.rest = rest, !.status = status]
<1>6. oks \subseteq Probed \cap req[r].seen
  <2>1. x[1] => d \in req[r].seen
    BY <1>1, <1>4, <1>5, PingResult
  <2> QED BY <1>4, <1>5, <2>1
<1>7. /\ q.kind = "ready" /\ q.rest = rest /\ q.oks = oks /\ q.seen = req[r].seen
      /\ q.status = status /\ status \in {None, "ok", "fail", "degraded"}
      /\ q \in RequestStates
  <2>1. oks \subseteq Deps
    BY <1>6, ProbesType
  <2>2. req[r].status = None
    BY <1>3 DEF InFlight
  <2>3. status \in {None, "ok", "fail", "degraded"}
    BY <2>2 DEF Overall
  <2> HIDE DEF rest, oks, d, status
  <2> QED BY <1>2, <1>5, <2>1, <2>3 DEF RequestStates
<1>8. /\ conn' = [conn EXCEPT ![d] = x[2]] /\ last' = LastSuccess(d, x[1])
      /\ req' = [req EXCEPT ![r] = q]
  BY <1>1
<1>9. RequestsInv'
  <2> HIDE DEF q, oks, rest, d
  <2>1. /\ q.status = "ok" => oks = Probed
        /\ q.status = "degraded" => oks # {}
        /\ rest # << >> => q.status = None
    BY <1>3, <1>7 DEF Overall, InFlight, status
  <2> HIDE DEF status
  <2>2. /\ q.status = "ok" => Probed \subseteq q.seen
        /\ q.status = "degraded" => Probed \cap q.seen # {}
    BY <1>6, <1>7, <2>1
  <2>3. q.rest # << >> => q.kind # None /\ q.status = None
    BY <1>7, <2>1
  <2>4. /\ q.rest \in Seq(Probed) /\ q.oks \subseteq Probed \cap q.seen
        /\ {e \in Deps : up[e]} \subseteq q.seen
    BY <1>4, <1>5, <1>6, <1>7
  <2> QED BY <1>2, <1>7, <1>8, <2>2, <2>3, <2>4, OneRequest
<1>10. /\ conn' \in [Deps -> {"none", "open", "closed"}]
       /\ LocalIsUp' /\ ClosedForGood'
  <2> HIDE DEF d
  <2> QED BY <1>1, <1>2, <1>3, <1>5, <1>8, UseKeepsClosed
<1>11. last' \subseteq Deps /\ KnownKinds'
  <2> HIDE DEF d
  <2> QED BY <1>2, <1>5, <1>8 DEF TypeOK, LastSuccess, KnownKinds, Supported
<1>12. TypeOK'
  BY <1>2, <1>9, <1>10, <1>11 DEF TypeOK, RequestsInv, RequestStates
<1> QED BY <1>9, <1>10, <1>11, <1>12

(* A chat request has used a dependency.                                   *)
LEMMA UseEndsInv ==
  ASSUME LifecycleInv, NEW r \in Requests, UseEnds(r)
  PROVE  LifecycleInv'
<1> USE DEF LifecycleInv, fixed, appVars
<1> DEFINE d == Head(req[r].rest)
           Q(rest) == [req[r] EXCEPT !.rest = rest,
                         !.status = IF rest = << >> THEN "answered" ELSE req[r].status]
<1>1. PICK x \in Ping(d), rest \in {Tail(req[r].rest), << >>} :
        /\ conn' = [conn EXCEPT ![d] = x[2]]
        /\ req' = [req EXCEPT ![r] = Q(rest)]
  BY DEF UseEnds
<1>2. /\ req[r] \in RequestStates /\ req[r].kind = "chat" /\ req[r].rest # << >>
      /\ UNCHANGED <<fixed, appVars, last, up>>
  BY DEF UseEnds, RequestsInv
<1>3. InFlight(r)
  BY <1>2 DEF RequestsInv, Awaits
<1>4. d \in Deps /\ rest \in Seq(Deps)
  <2>1. d \in Deps /\ Tail(req[r].rest) \in Seq(Deps)
    BY <1>2 DEF RequestStates
  <2>2. << >> \in Seq(Deps) /\ rest \in {Tail(req[r].rest), << >>}
    BY <1>1
  <2> QED BY <2>1, <2>2
<1> DEFINE q == Q(rest)
<1>5. /\ q.kind = "chat" /\ q.rest = rest /\ q.status \in {None, "answered"}
      /\ rest # << >> => q.status = None
      /\ q \in RequestStates
  BY <1>2, <1>3, <1>4 DEF RequestStates, InFlight
<1>6. conn' = [conn EXCEPT ![d] = x[2]] /\ req' = [req EXCEPT ![r] = q]
  BY <1>1
<1> HIDE DEF d, q
<1>7. RequestsInv'
  BY <1>2, <1>5, <1>6, OneRequest
<1>8. /\ conn' \in [Deps -> {"none", "open", "closed"}]
      /\ LocalIsUp' /\ ClosedForGood'
  BY <1>1, <1>2, <1>3, <1>4, <1>6, UseKeepsClosed DEF d
<1>9. KnownKinds'
  BY <1>2 DEF KnownKinds, Supported
<1>10. TypeOK'
  BY <1>2, <1>7, <1>8 DEF TypeOK, RequestsInv, RequestStates
<1> QED BY <1>7, <1>8, <1>9, <1>10

(* A cancelled request awaits nothing.                                     *)
LEMMA CancelRequestInv ==
  ASSUME LifecycleInv, NEW r \in Requests, CancelRequest(r)
  PROVE  LifecycleInv'
<1> USE DEF LifecycleInv, fixed, appVars
<1> DEFINE q == Request(req[r].kind, << >>, {}, "cancelled")
<1>1. /\ req[r] \in RequestStates /\ InFlight(r) /\ req' = [req EXCEPT ![r] = q]
      /\ UNCHANGED <<fixed, appVars, conn, last, up>>
  BY DEF CancelRequest, RequestsInv
<1>2. q.rest = << >> /\ q.status = "cancelled" /\ q \in RequestStates
  <2>1. req[r].kind \in {"ready", "chat", None}
    BY <1>1 DEF RequestStates
  <2> QED BY <2>1 DEF Request, RequestStates
<1> HIDE DEF q
<1>3. RequestsInv'
  BY <1>1, <1>2, OneRequest
<1>4. TypeOK'
  BY <1>1, <1>3 DEF TypeOK, RequestsInv, RequestStates
<1>5. LocalIsUp' /\ KnownKinds'
  BY <1>1 DEF LocalIsUp, Local, KnownKinds, Supported
<1>6. ClosedForGood'
  <2>1. ~ (app \in {"closing", "stopped"} /\ graceful)
    BY <1>1 DEF ClosedForGood
  <2> QED BY <1>1, <2>1 DEF ClosedForGood
<1> QED BY <1>3, <1>4, <1>5, <1>6

-----------------------------------------------------------------------------
(* The world outside.                                                      *)

(* A server stops answering: what was seen stays seen.                     *)
LEMMA DependencyFailsInv ==
  ASSUME LifecycleInv, NEW d \in Deps, DependencyFails(d)
  PROVE  LifecycleInv'
<1> USE DEF LifecycleInv, fixed, appVars, DependencyFails
<1>1. TypeOK'
  BY DEF TypeOK
<1>2. \A e \in Deps : up'[e] => up[e]
  BY DEF TypeOK
<1>3. RequestsInv'
  <2>1. Probed' = Probed
    BY DEF Probed, Probes
  <2> QED BY <1>2, <2>1 DEF RequestsInv, ReadyWasTrue, Awaits, ProbesSoFar, InFlight
<1>4. LocalIsUp'
  BY DEF TypeOK, LocalIsUp, Local
<1>5. KnownKinds' /\ ClosedForGood'
  BY DEF KnownKinds, Supported, ClosedForGood, InFlight
<1> QED BY <1>1, <1>3, <1>4, <1>5

(* A server answers again: every /ready in flight sees it.                 *)
LEMMA DependencyRecoversInv ==
  ASSUME LifecycleInv, NEW d \in Deps, DependencyRecovers(d)
  PROVE  LifecycleInv'
<1> USE DEF LifecycleInv, fixed, appVars
<1>1. /\ UNCHANGED <<fixed, appVars, conn, last>>
      /\ up' = [up EXCEPT ![d] = TRUE]
      /\ \A r \in Requests :
           req'[r] = IF InFlight(r) /\ req[r].kind = "ready"
                       THEN [req[r] EXCEPT !.seen = @ \cup {d}] ELSE req[r]
  BY DEF DependencyRecovers
<1>2. ASSUME NEW r \in Requests
      PROVE  /\ req'[r] \in RequestStates
             /\ req'[r].kind = req[r].kind /\ req'[r].rest = req[r].rest
             /\ req'[r].oks = req[r].oks /\ req'[r].status = req[r].status
             /\ req[r].seen \subseteq req'[r].seen
             /\ InFlight(r) /\ req[r].kind = "ready" => d \in req'[r].seen
  <2>1. req[r] \in RequestStates
    BY DEF RequestsInv
  <2>2. CASE InFlight(r) /\ req[r].kind = "ready"
    <3>1. req'[r] = [req[r] EXCEPT !.seen = @ \cup {d}]
      BY <1>1, <2>2
    <3>2. PICK q \in RequestStates : q = req[r]
      BY <2>1
    <3>3. /\ [q EXCEPT !.seen = @ \cup {d}] \in RequestStates
          /\ [q EXCEPT !.seen = @ \cup {d}].kind = q.kind
          /\ [q EXCEPT !.seen = @ \cup {d}].rest = q.rest
          /\ [q EXCEPT !.seen = @ \cup {d}].oks = q.oks
          /\ [q EXCEPT !.seen = @ \cup {d}].status = q.status
          /\ [q EXCEPT !.seen = @ \cup {d}].seen = q.seen \cup {d}
      BY DEF RequestStates
    <3> QED BY <3>1, <3>2, <3>3
  <2>3. CASE ~ (InFlight(r) /\ req[r].kind = "ready")
    <3>1. req'[r] = req[r]
      BY <1>1, <2>3
    <3> QED BY <2>1, <2>3, <3>1
  <2> QED BY <2>2, <2>3
<1>3. RequestsInv'
  <2>1. Probed' = Probed
    BY <1>1 DEF Probed, Probes
  <2>2. req' \in [Requests -> RequestStates]
    BY <1>2 DEF DependencyRecovers
  <2>3. ReadyWasTrue'
    BY <1>2, <2>1 DEF RequestsInv, ReadyWasTrue
  <2>4. ASSUME NEW r \in Requests PROVE Awaits(r)' /\ ProbesSoFar(r)'
    <3>1. Awaits(r)'
      BY <1>2 DEF RequestsInv, Awaits, InFlight
    <3>2. ProbesSoFar(r)'
      <4> SUFFICES ASSUME req[r].kind = "ready", InFlight(r)
                   PROVE  /\ req'[r].rest \in Seq(Probed)
                          /\ req'[r].oks \subseteq Probed \cap req'[r].seen
                          /\ {e \in Deps : up'[e]} \subseteq req'[r].seen
        BY <1>2, <2>1 DEF ProbesSoFar, InFlight
      <4>1. /\ req[r].rest \in Seq(Probed)
            /\ req[r].oks \subseteq Probed \cap req[r].seen
            /\ {e \in Deps : up[e]} \subseteq req[r].seen
        BY DEF RequestsInv, ProbesSoFar
      <4>2. \A e \in Deps : up'[e] => up[e] \/ e = d
        BY <1>1 DEF TypeOK
      <4> QED BY <1>2, <4>1, <4>2
    <3> QED BY <3>1, <3>2
  <2> QED BY <2>2, <2>3, <2>4 DEF RequestsInv
<1>4. TypeOK'
  BY <1>1, <1>3 DEF TypeOK, RequestsInv, RequestStates
<1>5. LocalIsUp'
  BY <1>1 DEF TypeOK, LocalIsUp, Local
<1>6. KnownKinds'
  BY <1>1 DEF KnownKinds, Supported
<1>7. ClosedForGood'
  BY <1>1, <1>2 DEF ClosedForGood, InFlight
<1> QED BY <1>3, <1>4, <1>5, <1>6, <1>7

(* Every step keeps the invariant.                                         *)
LEMMA NextInv == LifecycleInv /\ [Next]_vars => LifecycleInv'
<1> SUFFICES ASSUME LifecycleInv, [Next]_vars PROVE LifecycleInv'
  OBVIOUS
<1>1. CASE Startup \/ Shutdown \/ Stopped
  BY <1>1, StartupInv, ShutdownInv, StoppedInv
<1>2. ASSUME NEW d \in Deps, CloseOne(d) \/ CloseOneFails(d) PROVE LifecycleInv'
  BY <1>2, CloseOneInv
<1>3. ASSUME NEW d \in Deps, DependencyFails(d) \/ DependencyRecovers(d)
      PROVE  LifecycleInv'
  BY <1>3, DependencyFailsInv, DependencyRecoversInv
<1>4. ASSUME NEW r \in Requests, NEW kind \in Paths, Arrive(r, kind)
      PROVE  LifecycleInv'
  BY <1>4, ArriveInv
<1>5. ASSUME NEW r \in Requests, ProbeEnds(r) \/ UseEnds(r) \/ CancelRequest(r)
      PROVE  LifecycleInv'
  BY <1>5, ProbeEndsInv, UseEndsInv, CancelRequestInv
<1>6. CASE UNCHANGED vars
  <2> USE <1>6 DEF LifecycleInv, vars, fixed, appVars
  <2>1. TypeOK'
    BY DEF TypeOK
  <2>2. RequestsInv'
    BY RequestsKept
  <2>3. LocalIsUp' /\ KnownKinds' /\ ClosedForGood'
    BY DEF LocalIsUp, Local, KnownKinds, Supported, ClosedForGood, InFlight
  <2> QED BY <2>1, <2>2, <2>3
<1> QED BY <1>1, <1>2, <1>3, <1>4, <1>5, <1>6 DEF Next

-----------------------------------------------------------------------------
(* The results.                                                            *)

(* LifecycleInv holds in every reachable state.                            *)
THEOREM SpecInv == Spec => []LifecycleInv
BY InitInv, NextInv, PTL DEF Spec

(* The state is of its types, and bootstrap_complete says exactly when the *)
(* application serves.                                                     *)
THEOREM TypeCorrect == Spec => []TypeOK
<1>1. LifecycleInv => TypeOK
  BY DEF LifecycleInv
<1> QED BY <1>1, SpecInv, PTL

(* close_container leaks no connection of an adapter whose own close() did *)
(* not raise, in whatever order the four closes end or fail and whatever   *)
(* still runs: only Redis and PostgreSQL adapters can be opened again, and *)
(* only under a server that did not wait for its requests.                 *)
THEOREM ClosesEverything == Spec => []NothingLeftOpen
<1>1. ASSUME LifecycleInv, app = "stopped", NEW d \in Deps \ unclosed, conn[d] = "open"
      PROVE  ~ graceful /\ config[d] \in {"redis", "postgres"}
  <2>1. closing = {}
    BY <1>1 DEF LifecycleInv, ClosedForGood
  <2>2. ~ graceful /\ config[d] # "http"
    BY <1>1, <2>1 DEF LifecycleInv, ClosedForGood
  <2>3. config[d] \in Kinds /\ config[d] # "unknown" /\ config[d] # "local"
    BY <1>1 DEF LifecycleInv, TypeOK, KnownKinds, Supported, LocalIsUp, Local
  <2> QED BY <2>2, <2>3 DEF Kinds
<1>2. LifecycleInv => NothingLeftOpen
  BY <1>1 DEF NothingLeftOpen
<1> QED BY <1>2, SpecInv, PTL

(* GET /ready answers "ok" or "degraded" only for dependencies that were   *)
(* reachable while it ran.                                                 *)
THEOREM ReadyIsTrue == Spec => []ReadyWasTrue
<1>1. LifecycleInv => ReadyWasTrue
  BY DEF LifecycleInv, RequestsInv
<1> QED BY <1>1, SpecInv, PTL

=============================================================================
