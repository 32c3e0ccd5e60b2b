---------------------------- MODULE Access_proofs ----------------------------
(***************************************************************************)
(* Proofs about Access, for any number of requests, tenants, addresses and *)
(* routes, any limits and any length of window.                            *)
(*                                                                         *)
(* The counter of a window cannot be dropped while the window is open: its *)
(* life is at least WindowSec and begins no earlier than the window.  So   *)
(* the numbers it returns in the window are all different, and a request   *)
(* is let through only with a number up to the limit: the requests let     *)
(* through inject into 1 .. limit.  A script that runs late or once more   *)
(* only uses numbers up.                                                   *)
(*                                                                         *)
(* A counter is at most the number of transmissions for it that were       *)
(* executed: those that were sent, but for the one a request waits for and *)
(* those still under way.                                                  *)
(***************************************************************************)
EXTENDS Access, FiniteSetTheorems, TLAPS

-----------------------------------------------------------------------------
(* The inductive invariant behind the properties of Access.                *)

(* r was counted before the window it is charged to ended.                 *)
InWindow(r) ==
  key[r] # None /\ ranAt[r] # None /\ ranAt[r] < key[r].start + WindowSec

(* A request is charged to the counter of its header at some past instant, *)
(* and once counted has the answer its number gives.                       *)
RequestInv(r) ==
  /\ pc[r] = "idle" <=> req[r] = None
  /\ pc[r] = "idle" => key[r] = None
  /\ pc[r] = "counting" => key[r] # None
  /\ pc[r] \in {"idle", "counting"} => ranAt[r] = None
  /\ key[r] # None => ~ Crashes(req[r])
  /\ key[r] # None => \E t \in 0 .. now : key[r] = CounterOf(req[r], t)
  /\ ranAt[r] # None =>
       /\ key[r] # None /\ value[r] \in Nat \ {0} /\ ranAt[r] <= now
       /\ remaining[r] = Remaining(value[r], LimitOf(r))
       /\ pc[r] = Answer(r, value[r])

(* The transmissions of r: the one it waits for is the last, and not late. *)
SendInv(r) ==
  /\ key[r] = None => sends[r] = 0
  /\ late[r] \subseteq 1 .. sends[r]
  /\ pc[r] = "counting" => sends[r] >= 1 /\ sends[r] \notin late[r]

(* Those of r, and of all requests charged to k, that were executed.       *)
Done(r) ==
  (1 .. sends[r]) \ (late[r] \cup (IF pc[r] = "counting" THEN {sends[r]} ELSE {}))

Executed(k) ==
  {x \in Requests \X (1 .. Retries + 1) : key[x[1]] = k /\ x[2] \in Done(x[1])}

(* A counter counts scripts that were executed, and outlives its window.   *)
CounterInv(k) ==
  /\ counters[k].count <= Cardinality(Executed(k))
  /\ counters[k].expires \in Int /\ k.start + WindowSec <= counters[k].expires

(* While a window is open its counter is at least what it returned so far; *)
(* no number is returned twice in one window.                              *)
NumbersInv ==
  \A r \in Requests : InWindow(r) =>
    /\ now < key[r].start + WindowSec =>
         key[r] \in DOMAIN counters /\ value[r] <= counters[key[r]].count
    /\ \A q \in Requests :
         InWindow(q) /\ key[q] = key[r] /\ value[q] = value[r] => q = r

AccessInv ==
  /\ TypeOK
  /\ IsFiniteSet({r \in Requests : req[r] # None})
  /\ \A r \in Requests : RequestInv(r) /\ SendInv(r)
  /\ \A k \in DOMAIN counters : CounterInv(k)
  /\ NumbersInv

-----------------------------------------------------------------------------
Arrived == {r \in Requests : req[r] # None}

Answered == {"passed", "bypassed", "unauthorized", "limited", "cancelled"}

(* A window starts no later than the instants in it.                       *)
LEMMA WindowStarts ==
  ASSUME NEW t \in 0 .. MaxTime
  PROVE  WindowStart(t) \in Int /\ WindowStart(t) <= t
<1>1. WindowSec \in Nat /\ WindowSec > 0 /\ t \in Nat
  BY AccessAssumption
<1>2. t % WindowSec \in Nat
  BY <1>1
<1> QED BY <1>1, <1>2 DEF WindowStart

(* No counter is None.                                                     *)
LEMMA CountersNotNone == None \notin Counters
<1>1. ASSUME NEW k \in Counters
      PROVE  k \in [principal : Hosts \cup Tenants \cup {DefaultTenant},
                     route : Routes, auth : BOOLEAN, start : Int]
  BY WindowStarts DEF Counters
<1> QED BY <1>1, NoneAssumption

(* The header of a request names a counter.                                *)
LEMMA CounterTyped ==
  ASSUME config \in Configs, NEW i \in Header, ~ Crashes(i), NEW t \in 0 .. MaxTime
  PROVE  /\ CounterOf(i, t) \in Counters /\ CounterOf(i, t) # None
         /\ CounterOf(i, t).start = WindowStart(t)
         /\ CounterOf(i, t).auth = Refused(i)
         /\ CounterOf(i, t).route = i.route
         /\ CounterOf(i, t).principal = Principal(i)
<1>1. config.auth \in BOOLEAN
  BY AccessAssumption DEF Config
<1>2. Refused(i) \in BOOLEAN
  BY <1>1 DEF Refused
<1>3. Principal(i) \in Hosts \cup Tenants \cup {DefaultTenant}
  BY DEF Principal, Tenant, Refused, Header
<1>4. i.route \in Routes
  BY DEF Header
<1>5. WindowStart(t) \in Int
  BY WindowStarts
<1>6. CounterOf(i, t) \in Counters
  BY <1>2, <1>3, <1>4 DEF CounterOf, Counters
<1>7. CounterOf(i, t) # None
  BY <1>2, <1>3, <1>4, <1>5, NoneAssumption DEF CounterOf
<1> QED BY <1>6, <1>7 DEF CounterOf

(* ... with a limit.                                                       *)
LEMMA LimitTyped ==
  ASSUME AccessInv, NEW r \in Requests, key[r] # None
  PROVE  /\ LimitOf(r) \in Int /\ key[r] \in Counters
         /\ key[r].start \in Int /\ key[r].start <= now
         /\ req[r] \in Header /\ key[r].auth = Refused(req[r])
         /\ ~ Crashes(req[r]) /\ key[r].principal = Principal(req[r])
         /\ key[r].route = req[r].route
<1>1. TypeOK /\ RequestInv(r)
  BY DEF AccessInv
<1>2. PICK t \in 0 .. now : key[r] = CounterOf(req[r], t)
  BY <1>1 DEF RequestInv
<1>3. req[r] \in Header /\ ~ Crashes(req[r])
  BY <1>1 DEF TypeOK, RequestInv
<1>4. t \in 0 .. MaxTime /\ t <= now
  BY <1>1, <1>2, AccessAssumption DEF TypeOK
<1>5. /\ key[r] \in Counters /\ key[r].start = WindowStart(t)
      /\ key[r].auth = Refused(req[r]) /\ key[r].principal = Principal(req[r])
      /\ key[r].route = req[r].route
  BY <1>1, <1>2, <1>3, <1>4, CounterTyped DEF TypeOK
<1>6. key[r].start \in Int /\ key[r].start <= now
  BY <1>1, <1>4, <1>5, WindowStarts, AccessAssumption DEF TypeOK
<1>7. LimitOf(r) \in Int
  <2>1. ~ Refused(req[r]) => Principal(req[r]) \in Tenants \cup {DefaultTenant}
    BY <1>3 DEF Principal, Tenant, Refused, Header
  <2> QED BY <1>5, <2>1, AccessAssumption DEF LimitOf
<1> QED BY <1>3, <1>5, <1>6, <1>7

-----------------------------------------------------------------------------
(* Counters.                                                               *)

(* A transmission is one of finitely many, of a request that arrived.      *)
LEMMA ExecutedFinite ==
  ASSUME AccessInv, NEW k
  PROVE  /\ IsFiniteSet(Executed(k)) /\ Cardinality(Executed(k)) \in Nat
         /\ \A x \in Executed(k) :
              /\ x[1] \in Requests /\ x[2] \in 1 .. Retries + 1
              /\ key[x[1]] = k /\ k # None /\ req[x[1]] # None /\ x[2] <= sends[x[1]]
<1>1. IsFiniteSet(Arrived)
  BY DEF AccessInv, Arrived
<1>2. IsFiniteSet(1 .. Retries + 1)
  BY AccessAssumption, FS_Interval
<1>3. ASSUME NEW x \in Executed(k)
      PROVE  /\ x[1] \in Requests /\ x[2] \in 1 .. Retries + 1 /\ x = <<x[1], x[2]>>
             /\ key[x[1]] = k /\ k # None /\ req[x[1]] # None /\ x[2] <= sends[x[1]]
  <2>1. /\ x \in Requests \X (1 .. Retries + 1) /\ key[x[1]] = k /\ x[2] \in Done(x[1])
    BY DEF Executed
  <2>2. x[1] \in Requests /\ x[2] \in 1 .. Retries + 1 /\ x = <<x[1], x[2]>>
    BY <2>1
  <2>3. TypeOK /\ RequestInv(x[1]) /\ SendInv(x[1])
    BY <2>2 DEF AccessInv
  <2>4. x[2] \in 1 .. sends[x[1]] /\ sends[x[1]] \in Nat
    BY <2>1, <2>2, <2>3, AccessAssumption DEF TypeOK, Done
  <2>5. k # None
    BY <2>1, <2>3, <2>4 DEF SendInv
  <2>6. req[x[1]] # None
    BY <2>1, <2>3, <2>5 DEF RequestInv
  <2> QED BY <2>1, <2>2, <2>4, <2>5, <2>6
<1>4. Executed(k) \subseteq Arrived \X (1 .. Retries + 1)
  BY <1>3 DEF Arrived
<1>5. IsFiniteSet(Arrived \X (1 .. Retries + 1))
  BY <1>1, <1>2, FS_Product
<1>6. IsFiniteSet(Executed(k)) /\ Cardinality(Executed(k)) \in Nat
  BY <1>4, <1>5, FS_Subset, FS_CardinalityType
<1> QED BY <1>3, <1>6

(* INCR gives the next number.                                             *)
LEMMA Incremented ==
  ASSUME AccessInv, NEW k \in Counters, k.start \in Int, k.start <= now, Increment(k)
  PROVE  /\ NewValue(k) \in Nat \ {0}
         /\ DOMAIN counters' = DOMAIN counters \cup {k}
         /\ counters'[k].count = NewValue(k)
         /\ counters'[k].expires \in Int
         /\ k.start + WindowSec <= counters'[k].expires
         /\ \A l \in DOMAIN counters : l # k => counters'[l] = counters[l]
         /\ k \in DOMAIN counters => NewValue(k) = counters[k].count + 1
         /\ k \notin DOMAIN counters => NewValue(k) = 1
<1>1. k \in DOMAIN counters => /\ counters[k].count \in Nat \ {0}
                               /\ counters[k].expires \in Int
                               /\ k.start + WindowSec <= counters[k].expires
  BY DEF AccessInv, TypeOK, CounterInv
<1>2. now \in Int /\ WindowSec \in Int /\ Ttl = WindowSec
  BY AccessAssumption DEF AccessInv, TypeOK, Ttl
<1>3. /\ k \in DOMAIN counters => NewValue(k) = counters[k].count + 1
      /\ k \notin DOMAIN counters => NewValue(k) = 1
  BY DEF NewValue
<1>4. NewValue(k) \in Nat \ {0}
  BY <1>1, <1>3
<1> DEFINE x == IF k \in DOMAIN counters THEN counters[k].expires ELSE now + Ttl
<1>5. x \in Int /\ k.start + WindowSec <= x
  BY <1>1, <1>2
<1>6. counters' = [l \in DOMAIN counters \cup {k} |->
                     IF l = k THEN [count |-> NewValue(k), expires |-> x] ELSE counters[l]]
  BY DEF Increment
<1> HIDE DEF x
<1>7. /\ DOMAIN counters' = DOMAIN counters \cup {k}
      /\ counters'[k].count = NewValue(k) /\ counters'[k].expires = x
      /\ \A l \in DOMAIN counters : l # k => counters'[l] = counters[l]
  BY <1>6
<1> QED BY <1>3, <1>4, <1>5, <1>7

(* Nothing is executed: the counters stay right.                           *)
LEMMA NoneExecuted ==
  ASSUME AccessInv, UNCHANGED counters,
         \A q \in Requests : Done(q)' = Done(q) /\ (Done(q) # {} => key'[q] = key[q])
  PROVE  /\ \A k \in DOMAIN counters' : CounterInv(k)'
         /\ DOMAIN counters' \subseteq Counters
         /\ \A k \in DOMAIN counters' : counters'[k].count \in Nat \ {0}
<1>1. ASSUME NEW k, k # None PROVE Executed(k)' = Executed(k)
  BY DEF Executed
<1>2. ASSUME NEW k \in DOMAIN counters PROVE CounterInv(k)'
  <2>1. CounterInv(k) /\ k \in Counters
    BY DEF AccessInv, TypeOK
  <2>2. Executed(k)' = Executed(k)
    BY <1>1, <2>1, CountersNotNone
  <2> QED BY <2>1, <2>2 DEF CounterInv
<1> QED BY <1>2 DEF AccessInv, TypeOK

(* Transmission n of r is executed.                                        *)
LEMMA OneExecuted ==
  ASSUME AccessInv, NEW r \in Requests, NEW n \in 1 .. Retries + 1,
         n \notin Done(r), Done(r)' = Done(r) \cup {n},
         \A q \in Requests : q # r => Done(q)' = Done(q),
         key' = key, key[r] # None, Increment(key[r])
  PROVE  /\ \A k \in DOMAIN counters' : CounterInv(k)'
         /\ DOMAIN counters' \subseteq Counters
         /\ \A k \in DOMAIN counters' : counters'[k].count \in Nat \ {0}
<1>1. /\ TypeOK /\ \A k \in DOMAIN counters : CounterInv(k)
  BY DEF AccessInv
<1>2. key[r] \in Counters /\ key[r].start \in Int /\ key[r].start <= now
  BY LimitTyped
<1>3. PICK c : c = key[r]
  OBVIOUS
<1>4. Executed(c)' = Executed(c) \cup {<<r, n>>} /\ <<r, n>> \notin Executed(c)
  BY <1>3 DEF Executed
<1>5. \A k : k # c => Executed(k)' = Executed(k)
  BY <1>3 DEF Executed
<1>6. IsFiniteSet(Executed(c)) /\ Cardinality(Executed(c)) \in Nat
  BY ExecutedFinite
<1>7. Cardinality(Executed(c)') = Cardinality(Executed(c)) + 1
  BY <1>4, <1>6, FS_AddElement
<1>8. /\ DOMAIN counters' = DOMAIN counters \cup {c}
      /\ counters'[c].count = NewValue(c) /\ NewValue(c) \in Nat \ {0}
      /\ counters'[c].expires \in Int /\ c.start + WindowSec <= counters'[c].expires
      /\ c \in DOMAIN counters => NewValue(c) = counters[c].count + 1
      /\ c \notin DOMAIN counters => NewValue(c) = 1
      /\ \A l \in DOMAIN counters : l # c => counters'[l] = counters[l]
  BY <1>2, <1>3, Incremented
<1>9. NewValue(c) <= Cardinality(Executed(c)')
  <2>1. CASE c \in DOMAIN counters
    <3>1. counters[c].count \in Nat /\ counters[c].count <= Cardinality(Executed(c))
      BY <1>1, <2>1 DEF TypeOK, CounterInv
    <3> QED BY <1>6, <1>7, <1>8, <2>1, <3>1
  <2>2. CASE c \notin DOMAIN counters
    BY <1>6, <1>7, <1>8, <2>2
  <2> QED BY <2>1, <2>2
<1>10. CounterInv(c)'
  BY <1>8, <1>9 DEF CounterInv
<1>11. ASSUME NEW k \in DOMAIN counters, k # c PROVE CounterInv(k)'
  BY <1>1, <1>5, <1>8, <1>11 DEF CounterInv
<1> QED BY <1>1, <1>2, <1>3, <1>8, <1>10, <1>11 DEF TypeOK

-----------------------------------------------------------------------------
(* Requests.                                                               *)

Still(q) ==
  /\ pc'[q] = pc[q] /\ req'[q] = req[q] /\ key'[q] = key[q]
  /\ value'[q] = value[q] /\ remaining'[q] = remaining[q] /\ ranAt'[q] = ranAt[q]
  /\ sends'[q] = sends[q] /\ late'[q] = late[q]

(* A request that does not move stays right as time passes.                *)
LEMMA StillRight ==
  ASSUME AccessInv, config' = config, now' \in Int, now <= now',
         NEW q \in Requests, Still(q)
  PROVE  /\ RequestInv(q)' /\ SendInv(q)' /\ Done(q)' = Done(q)
         /\ InWindow(q)' <=> InWindow(q)
<1>1. TypeOK /\ RequestInv(q) /\ SendInv(q)
  BY DEF AccessInv
<1>2. /\ LimitOf(q)' = LimitOf(q) /\ \A i : Refused(i)' = Refused(i)
      /\ \A i : Crashes(i)' = Crashes(i)
      /\ \A i, t : CounterOf(i, t)' = CounterOf(i, t)
  BY DEF Still, LimitOf, Refused, Crashes, CounterOf, Principal, Tenant
<1>3. \A v : Answer(q, v)' = Answer(q, v)
  BY <1>2 DEF Answer, Still
<1>4. key[q] # None => \E t \in 0 .. now' : key[q] = CounterOf(req[q], t)'
  <2>1. ASSUME NEW t \in 0 .. now PROVE t \in 0 .. now'
    BY <1>1 DEF TypeOK
  <2> QED BY <1>1, <1>2, <2>1 DEF RequestInv, Still
<1>5. ranAt[q] # None => ranAt[q] <= now'
  BY <1>1, AccessAssumption DEF RequestInv, TypeOK
<1>6. RequestInv(q)'
  BY <1>1, <1>2, <1>3, <1>4, <1>5 DEF RequestInv, Still
<1>7. SendInv(q)' /\ Done(q)' = Done(q)
  BY <1>1 DEF SendInv, Done, Still
<1> QED BY <1>6, <1>7 DEF InWindow, Still

(* The numbers stay as they should when no request is counted.             *)
LEMMA SameNumbers ==
  ASSUME AccessInv, now' \in Int, now <= now',
         \A q \in Requests : /\ InWindow(q)' => InWindow(q)
                             /\ InWindow(q) => key'[q] = key[q] /\ value'[q] = value[q],
         \A q \in Requests : InWindow(q) /\ now' < key[q].start + WindowSec
                               /\ key[q] \in DOMAIN counters =>
              /\ key[q] \in DOMAIN counters'
              /\ counters[key[q]].count <= counters'[key[q]].count
              /\ counters'[key[q]].count \in Int
  PROVE  NumbersInv'
<1>1. TypeOK /\ NumbersInv
  BY DEF AccessInv
<1>2. ASSUME NEW q \in Requests, InWindow(q)', now' < key'[q].start + WindowSec
      PROVE  key'[q] \in DOMAIN counters' /\ value'[q] <= counters'[key'[q]].count
  <2>1. InWindow(q) /\ key'[q] = key[q] /\ value'[q] = value[q]
    BY <1>2
  <2>2. key[q].start \in Int /\ WindowSec \in Int /\ now \in Int
    BY <2>1, LimitTyped, AccessAssumption DEF InWindow, AccessInv, TypeOK
  <2>3. now < key[q].start + WindowSec
    BY <1>2, <2>1, <2>2
  <2>4. key[q] \in DOMAIN counters /\ value[q] <= counters[key[q]].count
    BY <1>1, <2>1, <2>3 DEF NumbersInv
  <2>5. value[q] \in Nat /\ counters[key[q]].count \in Nat
    BY <1>1, <2>1, <2>4 DEF AccessInv, RequestInv, InWindow, TypeOK
  <2> QED BY <1>2, <2>1, <2>4, <2>5
<1>3. ASSUME NEW q \in Requests, NEW z \in Requests, InWindow(q)', InWindow(z)',
             key'[z] = key'[q], value'[z] = value'[q]
      PROVE  z = q
  <2>1. InWindow(q) /\ InWindow(z) /\ key[z] = key[q] /\ value[z] = value[q]
    BY <1>3
  <2> QED BY <1>1, <2>1 DEF NumbersInv
<1> QED BY <1>2, <1>3 DEF NumbersInv

-----------------------------------------------------------------------------
(* The actions.                                                            *)

(* auth_dependency, up to its await.                                       *)
LEMMA ArriveInv ==
  ASSUME AccessInv, NEW r \in Requests, NEW i \in Header, Arrive(r, i)
  PROVE  AccessInv'
<1>1. /\ TypeOK /\ RequestInv(r) /\ SendInv(r)
  BY DEF AccessInv
<1>2. /\ pc[r] = "idle" /\ key[r] = None /\ ranAt[r] = None
      /\ req' = [req EXCEPT ![r] = i]
      /\ UNCHANGED <<config, now, counters, value, remaining, ranAt, late>>
  BY <1>1 DEF Arrive, RequestInv
<1>3. now \in Int /\ now \in 0 .. MaxTime /\ now \in 0 .. now
  BY <1>1, AccessAssumption DEF TypeOK
<1>4. ~ Crashes(i) => CounterOf(i, now) \in Counters /\ CounterOf(i, now) # None
  BY <1>1, <1>3, CounterTyped DEF TypeOK
<1>5. \/ /\ ~ Crashes(i) /\ key' = [key EXCEPT ![r] = CounterOf(i, now)]
         /\ pc' = [pc EXCEPT ![r] = "counting"] /\ sends' = [sends EXCEPT ![r] = 1]
      \/ /\ key' = key /\ sends' = sends
         /\ \E a \in {"unauthorized", "passed", "error"} : pc' = [pc EXCEPT ![r] = a]
  BY DEF Arrive
<1>6. TypeOK'
  BY <1>1, <1>2, <1>4, <1>5, AccessAssumption DEF TypeOK
<1>7. /\ pc'[r] \in {"counting", "unauthorized", "passed", "error"} /\ req'[r] = i
      /\ pc'[r] = "counting" =>
           ~ Crashes(i) /\ key'[r] = CounterOf(i, now) /\ sends'[r] = 1
      /\ pc'[r] # "counting" => key'[r] = None /\ sends'[r] = sends[r]
      /\ \A q \in Requests : q # r => Still(q)
  BY <1>1, <1>2, <1>5 DEF TypeOK, Still
<1>8. CounterOf(i, now)' = CounterOf(i, now) /\ Crashes(i)' = Crashes(i)
  BY <1>2 DEF CounterOf, Principal, Tenant, Refused, Crashes
<1>9. i # None
  BY NoneAssumption
<1>10. RequestInv(r)'
  BY <1>2, <1>3, <1>4, <1>7, <1>8, <1>9 DEF RequestInv
<1>11. sends[r] = 0 /\ late[r] = {} /\ late'[r] = {}
  BY <1>1, <1>2 DEF SendInv
<1>12. Done(r) = {} /\ Done(r)' = {} /\ SendInv(r)'
  BY <1>2, <1>4, <1>7, <1>11 DEF Done, SendInv
<1>13. \A q \in Requests : q # r => /\ RequestInv(q)' /\ SendInv(q)' /\ Done(q)' = Done(q)
                                    /\ InWindow(q)' <=> InWindow(q)
  BY <1>2, <1>3, <1>7, StillRight
<1>14. ~ InWindow(r) /\ ~ InWindow(r)'
  BY <1>2 DEF InWindow
<1>15. IsFiniteSet({q \in Requests : req[q] # None}')
  <2>1. {q \in Requests : req[q] # None}' = Arrived \cup {r}
    BY <1>7, <1>9 DEF Arrived, Still
  <2> QED BY <2>1, FS_AddElement DEF AccessInv, Arrived
<1>16. \A k \in DOMAIN counters' : CounterInv(k)'
  <2>1. \A q \in Requests : Done(q)' = Done(q) /\ (Done(q) # {} => key'[q] = key[q])
    BY <1>7, <1>12, <1>13 DEF Still
  <2> QED BY <1>2, <2>1, NoneExecuted
<1>17. NumbersInv'
  <2>1. \A q \in Requests : /\ InWindow(q)' => InWindow(q)
                            /\ InWindow(q) => key'[q] = key[q] /\ value'[q] = value[q]
    BY <1>7, <1>13, <1>14 DEF Still
  <2>2. \A q \in Requests : key[q] \in DOMAIN counters =>
             /\ key[q] \in DOMAIN counters'
             /\ counters[key[q]].count <= counters'[key[q]].count
             /\ counters'[key[q]].count \in Int
    BY <1>1, <1>2 DEF TypeOK
  <2> QED BY <1>2, <1>3, <2>1, <2>2, SameNumbers
<1> QED BY <1>6, <1>10, <1>12, <1>13, <1>15, <1>16, <1>17 DEF AccessInv

(* A request that was charged moves on, and what it left in Redis with it. *)
LEMMA OneMoves ==
  ASSUME AccessInv, NEW r \in Requests, UNCHANGED <<config, now, req, key>>,
         \A q \in Requests : q # r => Still(q),
         TypeOK', RequestInv(r)', SendInv(r)', NumbersInv',
         \A k \in DOMAIN counters' : CounterInv(k)'
  PROVE  AccessInv'
<1>1. now' \in Int /\ now <= now'
  BY AccessAssumption DEF AccessInv, TypeOK
<1>2. \A q \in Requests : q # r => RequestInv(q)' /\ SendInv(q)'
  BY <1>1, StillRight
<1>3. IsFiniteSet({q \in Requests : req[q] # None}')
  BY DEF AccessInv
<1> QED BY <1>2, <1>3 DEF AccessInv

(* What a request that waits has sent.                                     *)
LEMMA Waiting ==
  ASSUME AccessInv, NEW r \in Requests, pc[r] = "counting"
  PROVE  /\ sends[r] \in 1 .. Retries + 1 /\ sends[r] \notin late[r]
         /\ late[r] \subseteq 1 .. sends[r] /\ sends[r] \notin Done(r)
         /\ Done(r) = (1 .. sends[r]) \ (late[r] \cup {sends[r]})
BY AccessAssumption DEF AccessInv, TypeOK, SendInv, Done

(* consume() returns.                                                      *)
LEMMA ConsumeInv ==
  ASSUME AccessInv, NEW r \in Requests, Consume(r)
  PROVE  AccessInv'
<1> DEFINE k == key[r]
           v == NewValue(key[r])
<1>1. TypeOK /\ RequestInv(r) /\ NumbersInv
  BY DEF AccessInv
<1>2. /\ pc[r] = "counting" /\ Increment(k)
      /\ UNCHANGED <<config, now, req, key>> /\ UNCHANGED <<sends, late>>
      /\ value' = [value EXCEPT ![r] = v]
      /\ remaining' = [remaining EXCEPT ![r] = Remaining(v, LimitOf(r))]
      /\ ranAt' = [ranAt EXCEPT ![r] = now]
      /\ pc' = [pc EXCEPT ![r] = Answer(r, v)]
  BY DEF Consume
<1>3. k # None /\ ranAt[r] = None
  BY <1>1, <1>2 DEF RequestInv
<1>4. /\ LimitOf(r) \in Int /\ k \in Counters /\ k.start \in Int /\ k.start <= now
      /\ now \in 0 .. MaxTime /\ now \in Int /\ WindowSec \in Int
  BY <1>1, <1>3, LimitTyped, AccessAssumption DEF TypeOK
<1>5. /\ v \in Nat \ {0} /\ DOMAIN counters' = DOMAIN counters \cup {k}
      /\ counters'[k].count = v
      /\ \A l \in DOMAIN counters : l # k => counters'[l] = counters[l]
      /\ k \in DOMAIN counters => v = counters[k].count + 1
  BY <1>2, <1>4, Incremented
<1> HIDE DEF k, v
<1>6. Remaining(v, LimitOf(r)) \in Nat
  BY <1>4, <1>5 DEF Remaining
<1>7. Answer(r, v) \in Answered
  BY DEF Answer, Answered
<1>8. /\ value' \in [Requests -> Nat \cup {None}]
      /\ remaining' \in [Requests -> Nat \cup {None}]
      /\ ranAt' \in [Requests -> (0 .. MaxTime) \cup {None}]
  BY <1>1, <1>2, <1>4, <1>5, <1>6 DEF TypeOK
<1>9. \A q \in Requests : q # r => Still(q)
  BY <1>1, <1>2 DEF TypeOK, Still
<1>10. /\ value'[r] = v /\ remaining'[r] = Remaining(v, LimitOf(r)) /\ ranAt'[r] = now
       /\ pc'[r] = Answer(r, v)
  BY <1>1, <1>2 DEF TypeOK
<1>11. /\ LimitOf(r)' = LimitOf(r) /\ \A n : Answer(r, n)' = Answer(r, n)
       /\ \A i, t : CounterOf(i, t)' = CounterOf(i, t)
       /\ \A i : Crashes(i)' = Crashes(i)
  BY <1>2 DEF LimitOf, Answer, CounterOf, Principal, Tenant, Refused, Crashes
<1>12. RequestInv(r)'
  <2>1. key'[r] # None /\ req'[r] = req[r] /\ req[r] # None /\ ~ Crashes(req[r])'
    BY <1>1, <1>2, <1>3, <1>11 DEF RequestInv, k
  <2>2. \E t \in 0 .. now' : key'[r] = CounterOf(req[r], t)'
    BY <1>1, <1>2, <1>3, <1>11 DEF RequestInv, k
  <2>3. pc'[r] \notin {"idle", "counting"}
    BY <1>7, <1>10 DEF Answered
  <2>4. ranAt'[r] <= now' /\ value'[r] \in Nat \ {0}
    BY <1>2, <1>4, <1>5, <1>10
  <2>5. remaining'[r] = Remaining(value'[r], LimitOf(r)')
    BY <1>10, <1>11
  <2>6. pc'[r] = Answer(r, value[r])'
    BY <1>10, <1>11
  <2> QED BY <2>1, <2>2, <2>3, <2>4, <2>5, <2>6 DEF RequestInv
<1>13. \A q \in Requests : q # r => (InWindow(q)' <=> InWindow(q))
  BY <1>2, <1>4, <1>9, StillRight
<1>14. InWindow(r)' => now < k.start + WindowSec
  BY <1>2, <1>10 DEF InWindow, k
<1>15. ASSUME NEW q \in Requests, InWindow(q), key[q] = k, now < k.start + WindowSec
       PROVE  value[q] < v /\ value[q] \in Nat
  <2>1. k \in DOMAIN counters /\ value[q] <= counters[k].count
    BY <1>1, <1>15 DEF NumbersInv
  <2>2. value[q] \in Nat /\ counters[k].count \in Nat
    BY <1>1, <1>15, <2>1 DEF AccessInv, RequestInv, InWindow, TypeOK
  <2> QED BY <1>5, <2>1, <2>2
<1>16. ASSUME NEW q \in Requests, InWindow(q)', now' < key'[q].start + WindowSec
       PROVE  key'[q] \in DOMAIN counters' /\ value'[q] <= counters'[key'[q]].count
  <2>1. CASE q = r
    BY <1>2, <1>5, <1>10, <2>1 DEF k
  <2>2. CASE q # r
    <3>1. InWindow(q) /\ key'[q] = key[q] /\ value'[q] = value[q]
      BY <1>9, <1>13, <1>16, <2>2 DEF Still
    <3>2. now < key[q].start + WindowSec
      BY <1>2, <1>16, <3>1
    <3>3. key[q] \in DOMAIN counters /\ value[q] <= counters[key[q]].count
      BY <1>1, <3>1, <3>2 DEF NumbersInv
    <3>4. CASE key[q] = k
      BY <1>5, <1>15, <3>1, <3>2, <3>4
    <3>5. CASE key[q] # k
      BY <1>5, <3>1, <3>3, <3>5
    <3> QED BY <3>4, <3>5
  <2> QED BY <2>1, <2>2
<1>17. ASSUME NEW q \in Requests, NEW z \in Requests, InWindow(q)', InWindow(z)',
              key'[z] = key'[q], value'[z] = value'[q]
       PROVE  z = q
  <2>1. CASE q # r /\ z # r
    <3>1. InWindow(q) /\ InWindow(z) /\ key[z] = key[q] /\ value[z] = value[q]
      BY <1>9, <1>13, <1>17, <2>1 DEF Still
    <3> QED BY <1>1, <3>1 DEF NumbersInv
  <2>2. ASSUME NEW x \in Requests, x # r, InWindow(r)', InWindow(x)',
               key'[x] = key'[r], value'[x] = value'[r]
        PROVE  FALSE
    <3>1. InWindow(x) /\ key[x] = k /\ value[x] = v
      BY <1>2, <1>9, <1>10, <1>13, <2>2 DEF Still, k
    <3>2. now < k.start + WindowSec
      BY <1>14, <2>2
    <3>3. value[x] < v /\ value[x] \in Nat
      BY <1>15, <3>1, <3>2
    <3> QED BY <1>5, <3>1, <3>3
  <2> QED BY <1>17, <2>1, <2>2
<1>18. NumbersInv'
  BY <1>16, <1>17 DEF NumbersInv
<1>19. Increment(key[r]) /\ key[r] # None /\ key' = key
  BY <1>2, <1>3 DEF k
<1>20. /\ sends[r] \in 1 .. Retries + 1 /\ sends[r] \notin Done(r)
       /\ Done(r)' = Done(r) \cup {sends[r]} /\ SendInv(r)'
  <2>1. /\ sends[r] \in 1 .. Retries + 1 /\ sends[r] \notin late[r]
        /\ late[r] \subseteq 1 .. sends[r] /\ sends[r] \notin Done(r)
        /\ Done(r) = (1 .. sends[r]) \ (late[r] \cup {sends[r]})
    BY <1>2, Waiting
  <2>2. pc'[r] # "counting" /\ sends'[r] = sends[r] /\ late'[r] = late[r]
    BY <1>2, <1>7, <1>10 DEF Answered
  <2>3. Done(r)' = (1 .. sends[r]) \ late[r]
    BY <2>2 DEF Done
  <2> QED BY <1>19, <2>1, <2>2, <2>3 DEF SendInv
<1>21. \A q \in Requests : q # r => Done(q)' = Done(q)
  BY <1>2, <1>4, <1>9, StillRight
<1>22. /\ \A l \in DOMAIN counters' : CounterInv(l)'
       /\ DOMAIN counters' \subseteq Counters
       /\ \A l \in DOMAIN counters' : counters'[l].count \in Nat \ {0}
  BY <1>19, <1>20, <1>21, OneExecuted
<1>23. TypeOK'
  BY <1>1, <1>2, <1>7, <1>8, <1>22 DEF TypeOK, Answered
<1> QED BY <1>2, <1>9, <1>12, <1>18, <1>20, <1>22, <1>23, OneMoves

(* consume() raises, or its caller is cancelled: nothing is executed.      *)
LEMMA GivesUpInv ==
  ASSUME AccessInv, NEW r \in Requests, ConsumeFails(r) \/ Cancel(r)
  PROVE  AccessInv'
<1>1. TypeOK /\ RequestInv(r)
  BY DEF AccessInv
<1>2. /\ pc[r] = "counting" /\ GiveUp(r)
      /\ UNCHANGED <<config, now, req, key>>
      /\ UNCHANGED <<counters, value, remaining, ranAt, sends>>
      /\ \E a \in Answered : pc' = [pc EXCEPT ![r] = a]
  BY DEF ConsumeFails, Cancel, Answered
<1>3. PICK a \in Answered : pc' = [pc EXCEPT ![r] = a]
  BY <1>2
<1>4. key[r] # None /\ ranAt[r] = None /\ req[r] # None /\ now \in Int
  BY <1>1, <1>2, AccessAssumption DEF RequestInv, TypeOK
<1>5. /\ late' = [late EXCEPT ![r] = late[r] \cup {sends[r]}]
      /\ pc'[r] = a /\ late'[r] = late[r] \cup {sends[r]} /\ sends'[r] = sends[r]
  BY <1>1, <1>2, <1>3 DEF TypeOK, GiveUp
<1>6. \A q \in Requests : q # r => Still(q)
  BY <1>1, <1>2, <1>3, <1>5 DEF TypeOK, Still
<1>7. RequestInv(r)'
  <2>1. \A i, t : CounterOf(i, t)' = CounterOf(i, t) /\ Crashes(i)' = Crashes(i)
    BY <1>2 DEF CounterOf, Principal, Tenant, Refused, Crashes
  <2> QED BY <1>1, <1>2, <1>4, <1>5, <2>1 DEF RequestInv, Answered
<1>8. /\ sends[r] \in 1 .. Retries + 1 /\ sends[r] \notin late[r]
      /\ late[r] \subseteq 1 .. sends[r]
      /\ Done(r) = (1 .. sends[r]) \ (late[r] \cup {sends[r]})
  BY <1>2, Waiting
<1>9. Done(r)' = Done(r) /\ SendInv(r)'
  <2>1. pc'[r] # "counting" /\ key'[r] # None
    BY <1>2, <1>4, <1>5 DEF Answered
  <2>2. Done(r)' = (1 .. sends[r]) \ (late[r] \cup {sends[r]})
    BY <1>5, <2>1 DEF Done
  <2> QED BY <1>5, <1>8, <2>1, <2>2 DEF SendInv
<1>10. \A q \in Requests : Done(q)' = Done(q) /\ (InWindow(q)' <=> InWindow(q))
  <2>1. \A q \in Requests : q # r => Done(q)' = Done(q)
    BY <1>2, <1>4, <1>6, StillRight
  <2> QED BY <1>2, <1>9, <2>1 DEF InWindow
<1>11. \A k \in DOMAIN counters' : CounterInv(k)'
  BY <1>2, <1>10, NoneExecuted
<1>12. NumbersInv'
  <2>1. \A k \in DOMAIN counters : counters[k].count \in Nat
    BY <1>1 DEF TypeOK
  <2> QED BY <1>2, <1>4, <1>10, <2>1, SameNumbers
<1>13. TypeOK'
  BY <1>1, <1>2, <1>3, <1>5, <1>8 DEF TypeOK, Answered
<1> QED BY <1>2, <1>6, <1>7, <1>9, <1>11, <1>12, <1>13, OneMoves

(* Steps that only touch what was sent and the counters.                   *)
LEMMA RequestsStay ==
  ASSUME AccessInv, UNCHANGED <<config, now, pc, req, key, value, remaining, ranAt>>
  PROVE  /\ \A q \in Requests : RequestInv(q)' /\ (InWindow(q)' <=> InWindow(q))
         /\ now' \in Int /\ now <= now'
<1>1. \A q, v : LimitOf(q)' = LimitOf(q) /\ Answer(q, v)' = Answer(q, v)
  BY DEF LimitOf, Answer, Refused, Crashes
<1>2. \A i, t : CounterOf(i, t)' = CounterOf(i, t) /\ Crashes(i)' = Crashes(i)
  BY DEF CounterOf, Principal, Tenant, Refused, Crashes
<1>3. \A q \in Requests : RequestInv(q)' /\ (InWindow(q)' <=> InWindow(q))
  BY <1>1, <1>2 DEF AccessInv, RequestInv, InWindow
<1> QED BY <1>3, AccessAssumption DEF AccessInv, TypeOK

(* The client library sends the script again.                              *)
LEMMA ResendInv ==
  ASSUME AccessInv, NEW r \in Requests, Resend(r)
  PROVE  AccessInv'
<1>1. TypeOK /\ RequestInv(r)
  BY DEF AccessInv
<1>2. /\ pc[r] = "counting" /\ sends[r] <= Retries /\ GiveUp(r) /\ counters' = counters
      /\ sends' = [sends EXCEPT ![r] = sends[r] + 1]
      /\ UNCHANGED <<config, now, pc, req, key, value, remaining, ranAt>>
  BY DEF Resend
<1>3. PICK n : n = sends[r]
  OBVIOUS
<1>4. /\ n \in 1 .. Retries /\ n \notin late[r] /\ late[r] \subseteq 1 .. n
      /\ Done(r) = (1 .. n) \ (late[r] \cup {n}) /\ Retries \in Nat
  BY <1>2, <1>3, Waiting, AccessAssumption
<1>5. /\ late' = [late EXCEPT ![r] = late[r] \cup {n}]
      /\ late'[r] = late[r] \cup {n} /\ sends'[r] = n + 1 /\ pc'[r] = "counting"
  BY <1>1, <1>2, <1>3 DEF TypeOK, GiveUp
<1>6. \A q \in Requests : q # r => Still(q)
  BY <1>1, <1>2, <1>5 DEF TypeOK, Still
<1>7. Done(r)' = Done(r)
  <2>1. Done(r)' = (1 .. n + 1) \ ((late[r] \cup {n}) \cup {n + 1})
    BY <1>5 DEF Done
  <2> QED BY <1>4, <2>1
<1>8. SendInv(r)'
  <2>1. key'[r] # None
    BY <1>1, <1>2 DEF RequestInv
  <2> QED BY <1>4, <1>5, <2>1 DEF SendInv
<1>9. /\ \A q \in Requests : RequestInv(q)' /\ (InWindow(q)' <=> InWindow(q))
      /\ now' \in Int /\ now <= now'
  BY <1>2, RequestsStay
<1>10. \A q \in Requests : Done(q)' = Done(q)
  BY <1>2, <1>6, <1>7, <1>9, StillRight
<1>11. \A k \in DOMAIN counters' : CounterInv(k)'
  BY <1>2, <1>10, NoneExecuted
<1>12. NumbersInv'
  <2>1. \A k \in DOMAIN counters : counters[k].count \in Nat
    BY <1>1 DEF TypeOK
  <2> QED BY <1>2, <1>9, <2>1, SameNumbers
<1>13. TypeOK'
  <2>1. n + 1 \in 0 .. Retries + 1 /\ late[r] \cup {n} \in SUBSET (1 .. Retries + 1)
    BY <1>4
  <2>2. /\ sends' \in [Requests -> 0 .. Retries + 1]
        /\ late' \in [Requests -> SUBSET (1 .. Retries + 1)]
    BY <1>1, <1>2, <1>3, <1>5, <2>1 DEF TypeOK
  <2> QED BY <1>1, <1>2, <2>2 DEF TypeOK
<1> QED BY <1>2, <1>6, <1>8, <1>9, <1>11, <1>12, <1>13, OneMoves

(* Redis executes a script nobody waits for.                               *)
LEMMA RunLateInv ==
  ASSUME AccessInv, NEW r \in Requests, NEW n \in 1 .. Retries + 1, RunLate(r, n)
  PROVE  AccessInv'
<1>1. TypeOK /\ SendInv(r)
  BY DEF AccessInv
<1>2. /\ n \in late[r] /\ Increment(key[r]) /\ late' = [late EXCEPT ![r] = late[r] \ {n}]
      /\ UNCHANGED <<config, now, pc, req, key, value, remaining, ranAt>> /\ sends' = sends
  BY DEF RunLate
<1>3. late'[r] = late[r] \ {n} /\ sends'[r] = sends[r] /\ pc'[r] = pc[r] /\ key'[r] = key[r]
  BY <1>1, <1>2 DEF TypeOK
<1>4. \A q \in Requests : q # r => Still(q)
  BY <1>1, <1>2 DEF TypeOK, Still
<1>5. key[r] # None
  BY <1>1, <1>2 DEF SendInv
<1>6. SendInv(r)'
  BY <1>1, <1>3 DEF SendInv
<1>7. n \notin Done(r) /\ Done(r)' = Done(r) \cup {n}
  BY <1>1, <1>2, <1>3 DEF SendInv, Done
<1>8. /\ \A q \in Requests : RequestInv(q)' /\ (InWindow(q)' <=> InWindow(q))
      /\ now' \in Int /\ now <= now'
  BY <1>2, RequestsStay
<1>9. \A q \in Requests : q # r => Done(q)' = Done(q)
  BY <1>2, <1>4, <1>8, StillRight
<1>10. /\ \A k \in DOMAIN counters' : CounterInv(k)'
       /\ DOMAIN counters' \subseteq Counters
       /\ \A k \in DOMAIN counters' : counters'[k].count \in Nat \ {0}
  BY <1>2, <1>5, <1>7, <1>9, OneExecuted
<1>11. NumbersInv'
  <2>1. key[r] \in Counters /\ key[r].start \in Int /\ key[r].start <= now
    BY <1>5, LimitTyped
  <2>2. /\ DOMAIN counters' = DOMAIN counters \cup {key[r]}
        /\ counters'[key[r]].count = NewValue(key[r])
        /\ \A l \in DOMAIN counters : l # key[r] => counters'[l] = counters[l]
        /\ key[r] \in DOMAIN counters => NewValue(key[r]) = counters[key[r]].count + 1
    BY <1>2, <2>1, Incremented
  <2>3. ASSUME NEW l \in DOMAIN counters
        PROVE  /\ l \in DOMAIN counters' /\ counters[l].count <= counters'[l].count
               /\ counters'[l].count \in Int
    <3>1. counters[l].count \in Nat
      BY <1>1 DEF TypeOK
    <3> QED BY <2>2, <3>1
  <2> QED BY <1>2, <1>8, <2>3, SameNumbers
<1>12. TypeOK'
  <2>1. late' \in [Requests -> SUBSET (1 .. Retries + 1)]
    BY <1>1, <1>2 DEF TypeOK
  <2> QED BY <1>1, <1>2, <1>10, <2>1 DEF TypeOK
<1> QED BY <1>2, <1>4, <1>6, <1>8, <1>10, <1>11, <1>12, OneMoves

(* Redis drops a key whose life is over: its window is over as well.       *)
LEMMA ExpireInv ==
  ASSUME AccessInv, NEW k \in DOMAIN counters, Expire(k)
  PROVE  AccessInv'
<1>1. TypeOK /\ CounterInv(k) /\ \A l \in DOMAIN counters : CounterInv(l)
  BY DEF AccessInv
<1>2. /\ counters' = [l \in DOMAIN counters \ {k} |-> counters[l]]
      /\ counters[k].expires <= now
      /\ UNCHANGED <<config, now, pc, req, key, value, remaining, ranAt, sends, late>>
  BY DEF Expire
<1>3. now' \in Int /\ now <= now' /\ now \in Int
  BY <1>1, <1>2, AccessAssumption DEF TypeOK
<1>4. \A q \in Requests : /\ RequestInv(q)' /\ SendInv(q)' /\ Done(q)' = Done(q)
                          /\ InWindow(q)' <=> InWindow(q)
  BY <1>2, <1>3, StillRight DEF Still
<1>5. TypeOK'
  BY <1>1, <1>2 DEF TypeOK
<1>6. \A l \in DOMAIN counters' : CounterInv(l)'
  <2>1. \A l : Executed(l)' = Executed(l)
    BY <1>2, <1>4 DEF Executed
  <2> QED BY <1>1, <1>2, <2>1 DEF CounterInv
<1>7. ASSUME NEW q \in Requests, InWindow(q), now' < key[q].start + WindowSec,
             key[q] \in DOMAIN counters
      PROVE  /\ key[q] \in DOMAIN counters'
             /\ counters[key[q]].count <= counters'[key[q]].count
             /\ counters'[key[q]].count \in Int
  <2>1. key[q].start \in Int /\ WindowSec \in Int
    BY <1>7, LimitTyped, AccessAssumption DEF InWindow
  <2>2. key[q] # k
    BY <1>1, <1>2, <1>3, <1>7, <2>1 DEF CounterInv
  <2>3. counters[key[q]].count \in Nat
    BY <1>1, <1>7 DEF TypeOK
  <2> QED BY <1>2, <1>7, <2>2, <2>3
<1>8. NumbersInv'
  BY <1>2, <1>3, <1>4, <1>7, SameNumbers
<1>9. IsFiniteSet({q \in Requests : req[q] # None}')
  BY <1>2 DEF AccessInv
<1> QED BY <1>4, <1>5, <1>6, <1>8, <1>9 DEF AccessInv

(* The clock, and steps that change nothing.                               *)
LEMMA TickInv ==
  ASSUME AccessInv, Tick \/ UNCHANGED vars
  PROVE  AccessInv'
<1>1. TypeOK /\ \A l \in DOMAIN counters : CounterInv(l)
  BY DEF AccessInv
<1>2. UNCHANGED <<config, pc, req, key, counters, value, remaining, ranAt, sends, late>>
  BY DEF Tick, vars
<1>3. now' \in 0 .. MaxTime /\ now' \in Int /\ now <= now'
  <2>1. now \in 0 .. MaxTime /\ MaxTime \in Nat
    BY <1>1, AccessAssumption DEF TypeOK
  <2>2. now' = now \/ (now < MaxTime /\ now' = now + 1)
    BY DEF Tick, vars
  <2> QED BY <2>1, <2>2
<1>4. \A q \in Requests : /\ RequestInv(q)' /\ SendInv(q)' /\ Done(q)' = Done(q)
                          /\ InWindow(q)' <=> InWindow(q)
  BY <1>2, <1>3, StillRight DEF Still
<1>5. TypeOK'
  BY <1>1, <1>2, <1>3 DEF TypeOK
<1>6. \A l \in DOMAIN counters' : CounterInv(l)'
  <2>1. \A l : Executed(l)' = Executed(l)
    BY <1>2, <1>4 DEF Executed
  <2> QED BY <1>1, <1>2, <2>1 DEF CounterInv
<1>7. \A k \in DOMAIN counters : counters[k].count \in Nat
  BY <1>1 DEF TypeOK
<1>8. NumbersInv'
  BY <1>2, <1>3, <1>4, <1>7, SameNumbers
<1>9. IsFiniteSet({q \in Requests : req[q] # None}')
  BY <1>2 DEF AccessInv
<1> QED BY <1>4, <1>5, <1>6, <1>8, <1>9 DEF AccessInv

(* No request arrived and nothing is counted.                              *)
LEMMA InitInv == Init => AccessInv
<1> SUFFICES ASSUME Init PROVE AccessInv
  OBVIOUS
<1>1. TypeOK
  BY AccessAssumption DEF Init, TypeOK
<1>2. {r \in Requests : req[r] # None} = {} /\ DOMAIN counters = {}
  BY DEF Init
<1>3. \A r \in Requests : RequestInv(r) /\ SendInv(r) /\ ~ InWindow(r)
  BY DEF Init, RequestInv, SendInv, InWindow
<1> QED BY <1>1, <1>2, <1>3, FS_EmptySet DEF AccessInv, NumbersInv

(* Every step keeps the invariant.                                         *)
LEMMA NextInv == AccessInv /\ [Next]_vars => AccessInv'
BY ArriveInv, ConsumeInv, GivesUpInv, ResendInv, RunLateInv, ExpireInv, TickInv DEF Next

(* AccessInv holds in every reachable state.                               *)
THEOREM SpecInv == Spec => []AccessInv
BY InitInv, NextInv, PTL DEF Spec

-----------------------------------------------------------------------------
(* Counting what was let through.                                          *)

(* Requests with different numbers from a to b are at most b - a + 1.      *)
LEMMA Numbered ==
  ASSUME NEW S, NEW a \in Int, NEW b \in Int,
         \A r \in S : value[r] \in a .. b,
         \A r, q \in S : value[r] = value[q] => r = q
  PROVE  Cardinality(S) <= IF a > b THEN 0 ELSE b - a + 1
<1> DEFINE f == [r \in S |-> value[r]]
<1>1. f \in Injection(S, a .. b)
  BY DEF Injection, IsInjective
<1>2. IsFiniteSet(a .. b) /\ Cardinality(a .. b) = IF a > b THEN 0 ELSE b - a + 1
  BY FS_Interval
<1>3. Cardinality(S) <= Cardinality(a .. b)
  BY <1>1, <1>2, FS_Injection
<1> QED BY <1>2, <1>3

(* What is known of the requests a counter served in its window.           *)
LEMMA CountedAre ==
  ASSUME AccessInv, NEW k \in Keys, NEW r \in CountedInWindow(k)
  PROVE  /\ r \in Requests /\ InWindow(r) /\ key[r] = k /\ k # None
         /\ value[r] \in Nat \ {0} /\ LimitOf(r) \in Int
         /\ LimitOf(r) = IF k.auth THEN FailureLimit ELSE Limit[k.principal]
         /\ remaining[r] = Remaining(value[r], LimitOf(r))
         /\ pc[r] = Answer(r, value[r]) /\ k.auth = Refused(req[r])
<1>1. r \in Requests /\ InWindow(r) /\ key[r] = k /\ k # None
  BY DEF CountedInWindow, InWindow, Keys
<1>2. RequestInv(r)
  BY <1>1 DEF AccessInv
<1>3. LimitOf(r) \in Int /\ k.auth = Refused(req[r])
  BY <1>1, LimitTyped
<1> QED BY <1>1, <1>2, <1>3 DEF RequestInv, InWindow, LimitOf

(* Different requests of a window have different numbers.                  *)
LEMMA CountedOnce ==
  ASSUME AccessInv, NEW k \in Keys, NEW r \in CountedInWindow(k),
         NEW q \in CountedInWindow(k), value[r] = value[q]
  PROVE  r = q
BY CountedAre DEF AccessInv, NumbersInv

(* Up to n of them have numbers up to n.                                   *)
LEMMA AtMost ==
  ASSUME AccessInv, NEW k \in Keys, NEW S \in SUBSET CountedInWindow(k),
         NEW n \in Int, NEW m \in Nat, \A r \in S : value[r] > m /\ value[r] <= n
  PROVE  Cardinality(S) <= Positive(n - m)
<1>1. \A r \in S : value[r] \in m + 1 .. n
  BY CountedAre
<1>2. \A r, q \in S : value[r] = value[q] => r = q
  BY CountedOnce
<1>3. Cardinality(S) <= IF m + 1 > n THEN 0 ELSE n - (m + 1) + 1
  BY <1>1, <1>2, Numbered
<1> QED BY <1>3 DEF Positive

-----------------------------------------------------------------------------
(* The results.                                                            *)

(* The state is of its types; X-RateLimit-Remaining is never negative.     *)
THEOREM TypeCorrect == Spec => []TypeOK
<1>1. AccessInv => TypeOK
  BY DEF AccessInv
<1> QED BY <1>1, SpecInv, PTL

(* No more requests of a tenant pass on a route in one window than its     *)
(* limit, on either backend and however late Redis runs the script.        *)
THEOREM QuotasHold == Spec => []QuotaPerWindow
<1>1. AccessInv => QuotaPerWindow
  <2> SUFFICES ASSUME AccessInv, NEW k \in Keys, ~ k.auth
               PROVE  Cardinality({r \in CountedInWindow(k) : pc[r] = "passed"})
                        <= Positive(Limit[k.principal])
    BY DEF QuotaPerWindow
  <2> DEFINE S == {r \in CountedInWindow(k) : pc[r] = "passed"}
             n == Limit[k.principal]
  <2>1. ASSUME NEW r \in S PROVE value[r] > 0 /\ value[r] <= n /\ n \in Int
    <3>1. r \in CountedInWindow(k) /\ pc[r] = "passed"
      OBVIOUS
    <3>2. /\ value[r] \in Nat \ {0} /\ LimitOf(r) \in Int /\ LimitOf(r) = n
          /\ pc[r] = Answer(r, value[r])
      BY <3>1, CountedAre
    <3> QED BY <3>1, <3>2 DEF Answer
  <2>2. n \in Int
    <3>1. PICK r \in Requests : key[r] = k /\ k # None
      BY DEF Keys
    <3>2. LimitOf(r) \in Int
      BY <3>1, LimitTyped
    <3> QED BY <3>1, <3>2 DEF LimitOf
  <2>3. Cardinality(S) <= Positive(n - 0)
    <3> HIDE DEF n
    <3>1. S \in SUBSET CountedInWindow(k)
      OBVIOUS
    <3> HIDE DEF S
    <3> QED BY <2>1, <2>2, <3>1, AtMost
  <2> QED BY <2>2, <2>3
<1> QED BY <1>1, SpecInv, PTL

(* Of the failed authentications the limiter counts for an address on a    *)
(* route in one window, at most AUTH_FAILURE_LIMIT_PER_WINDOW are answered *)
(* 401.  Nothing is said of those answered while the limiter raises.       *)
THEOREM FailuresAreThrottled == Spec => []FailuresThrottled
<1>1. AccessInv => FailuresThrottled
  <2> SUFFICES ASSUME AccessInv, NEW k \in Keys, k.auth
               PROVE  Cardinality({r \in CountedInWindow(k) : pc[r] = "unauthorized"})
                        <= Positive(FailureLimit)
    BY DEF FailuresThrottled
  <2> DEFINE S == {r \in CountedInWindow(k) : pc[r] = "unauthorized"}
             n == FailureLimit
  <2>1. n \in Int
    BY AccessAssumption
  <2>2. ASSUME NEW r \in S PROVE value[r] > 0 /\ value[r] <= n
    <3>1. r \in CountedInWindow(k) /\ pc[r] = "unauthorized"
      OBVIOUS
    <3>2. /\ value[r] \in Nat \ {0} /\ LimitOf(r) = n
          /\ pc[r] = Answer(r, value[r])
      BY <3>1, CountedAre
    <3> QED BY <2>1, <3>1, <3>2 DEF Answer
  <2>3. Cardinality(S) <= Positive(n - 0)
    <3> HIDE DEF n
    <3>1. S \in SUBSET CountedInWindow(k)
      OBVIOUS
    <3> HIDE DEF S
    <3> QED BY <2>1, <2>2, <3>1, AtMost
  <2> QED BY <2>1, <2>3
<1> QED BY <1>1, SpecInv, PTL

(* A client told that n requests are left sees at most n more let through  *)
(* in its window.                                                          *)
THEOREM RemainingIsKept == Spec => []RemainingHolds
<1>1. AccessInv => RemainingHolds
  <2> SUFFICES ASSUME AccessInv, NEW k \in Keys, NEW r \in CountedInWindow(k)
               PROVE  Cardinality({q \in CountedInWindow(k) :
                         /\ value[q] > value[r]
                         /\ pc[q] = IF k.auth THEN "unauthorized" ELSE "passed"})
                        <= remaining[r]
    BY DEF RemainingHolds
  <2> DEFINE S == {q \in CountedInWindow(k) :
                     /\ value[q] > value[r]
                     /\ pc[q] = IF k.auth THEN "unauthorized" ELSE "passed"}
             n == LimitOf(r)
             m == value[r]
  <2>1. /\ m \in Nat /\ n \in Int /\ remaining[r] = Remaining(m, n)
        /\ n = IF k.auth THEN FailureLimit ELSE Limit[k.principal]
    BY CountedAre
  <2>2. ASSUME NEW q \in S PROVE value[q] > m /\ value[q] <= n
    <3>1. /\ q \in CountedInWindow(k) /\ value[q] > m
          /\ pc[q] = IF k.auth THEN "unauthorized" ELSE "passed"
      OBVIOUS
    <3>2. /\ value[q] \in Nat \ {0} /\ LimitOf(q) = n
          /\ pc[q] = Answer(q, value[q])
      BY <2>1, <3>1, CountedAre
    <3> QED BY <2>1, <3>1, <3>2 DEF Answer
  <2>3. Cardinality(S) <= Positive(n - m)
    <3>1. S \in SUBSET CountedInWindow(k)
      OBVIOUS
    <3> HIDE DEF S, n, m
    <3> QED BY <2>1, <2>2, <3>1, AtMost
  <2>4. Positive(n - m) = Remaining(m, n)
    BY DEF Positive, Remaining
  <2> QED BY <2>1, <2>3, <2>4
<1> QED BY <1>1, SpecInv, PTL

(* A counter of a tenant never exceeds the number of scripts sent for      *)
(* requests that were accepted as that tenant's: nobody else can spend its *)
(* quota, and the client library only by sending again.                    *)
THEOREM QuotasAreOwn == Spec => []OwnRequestsOnly
<1>1. AccessInv => OwnRequestsOnly
  <2> SUFFICES ASSUME AccessInv, NEW k \in DOMAIN counters, k.principal \notin Hosts
               PROVE  counters[k].count <=
                        Cardinality({x \in Requests \X (1 .. Retries + 1) :
                                       Owns(x[1], k) /\ x[2] <= sends[x[1]]})
    BY DEF OwnRequestsOnly
  <2> DEFINE S == {x \in Requests \X (1 .. Retries + 1) :
                     Owns(x[1], k) /\ x[2] <= sends[x[1]]}
  <2>1. IsFiniteSet(S) /\ Cardinality(S) \in Nat
    <3>1. IsFiniteSet(Arrived) /\ IsFiniteSet(1 .. Retries + 1)
      BY AccessAssumption, FS_Interval DEF AccessInv, Arrived
    <3>2. IsFiniteSet(Arrived \X (1 .. Retries + 1))
      BY <3>1, FS_Product
    <3>3. S \in SUBSET (Arrived \X (1 .. Retries + 1))
      BY DEF Arrived, Owns
    <3> QED BY <3>2, <3>3, FS_Subset, FS_CardinalityType
  <2>2. ASSUME NEW x \in Executed(k) PROVE x \in S
    <3>1. /\ x \in Requests \X (1 .. Retries + 1) /\ x[1] \in Requests
          /\ key[x[1]] = k /\ k # None /\ req[x[1]] # None /\ x[2] <= sends[x[1]]
      BY ExecutedFinite DEF Executed
    <3>2. /\ k.principal = Principal(req[x[1]]) /\ k.route = req[x[1]].route
          /\ req[x[1]] \in Header
      BY <3>1, LimitTyped
    <3>3. ~ Refused(req[x[1]])
      BY <3>2 DEF Principal, Header
    <3>4. Owns(x[1], k)
      BY <3>1, <3>2, <3>3 DEF Principal, Owns
    <3> QED BY <3>1, <3>4
  <2>3. Cardinality(Executed(k)) <= Cardinality(S) /\ Cardinality(Executed(k)) \in Nat
    <3>1. Executed(k) \in SUBSET S
      BY <2>2
    <3> HIDE DEF S
    <3> QED BY <2>1, <3>1, FS_Subset, ExecutedFinite
  <2>4. counters[k].count \in Nat /\ counters[k].count <= Cardinality(Executed(k))
    BY DEF AccessInv, TypeOK, CounterInv
  <2> QED BY <2>1, <2>3, <2>4
<1> QED BY <1>1, SpecInv, PTL

=============================================================================
