-------------------------- MODULE GithubBudgetProofs --------------------------
(***************************************************************************)
(* What TLAPS proves of GithubBudget for every set of consumers, policy,   *)
(* ceiling and length of the windows: its types and the four properties    *)
(* that its run checks.  A request that is admitted counted the rows of    *)
(* its own window and of every later one, since none is younger than the   *)
(* clock it is judged by; and a consumer whose requests still count is one *)
(* whose policy still binds.                                               *)
(***************************************************************************)
EXTENDS GithubBudget, FiniteSetTheorems, WellFoundedInduction, TLAPS

\* An admission is known by its id, and is never stamped later than now.
Stamped ==
    /\ IsFiniteSet(admissions)
    /\ \A a \in admissions : a.at <= clock
    /\ \A a, b \in admissions : a.id = b.id => a = b

\* The consumer of every admission that can still count was seen no earlier
\* than the admission, but for the time its last command waited.
PolicySeen ==
    \A a \in admissions : a.at >= clock - Hour + MaxWait =>
        \E p \in policies : p.who = a.who /\ p.at >= a.at - MaxWait

\* The billable responses of an actor, and those of the hour that ends at t.
Booked(who, res) == {a \in admissions : a.who = who /\ a.billable /\ a.res \in Pool(res)}
HourBefore(who, res, t) == {b \in Usage(admissions, who, res, t) : b.at <= t}

\* No hour that ends with one of them holds more than the actor's ceiling.
HoursHeld ==
    \A who \in Consumers, res \in Resources : Ceiling[who][res] > 0 =>
        \A a \in Booked(who, res) :
            Cardinality(HourBefore(who, res, a.at)) <= Ceiling[who][res]

BudgetInv == Stamped /\ PolicySeen /\ RateHeld /\ HoursHeld

-----------------------------------------------------------------------------
(* Finite sets of numbers.                                                 *)

\* A set of naturals has a least element, and MinOf is it.
LEMMA MinOfNats ==
  ASSUME NEW S \in SUBSET Nat, S # {}
  PROVE  MinOf(S) \in S /\ \A y \in S : MinOf(S) <= y
  <1>. DEFINE R == {p \in Nat \X Nat : p[1] < p[2]}
  <1>1. IsWellFoundedOn(R, Nat)
    BY NatLessThanWellFounded, Zenon DEF OpToRel
  <1>. HIDE DEF R
  <1>2. PICK x \in S : \A y \in S : <<y, x>> \notin R
    BY <1>1, WFMin
  <1>3. ASSUME NEW y \in S PROVE x <= y
    <2>1. x \in Nat /\ y \in Nat
      OBVIOUS
    <2>2. y < x => <<y, x>> \in R
      BY <2>1 DEF R
    <2>. QED  BY <1>2, <2>1, <2>2
  <1>. QED  BY <1>3 DEF MinOf

\* The larger of two numbers.
LEMMA MaxOfTwo ==
  ASSUME NEW x \in Int, NEW y \in Int
  PROVE  /\ MaxOf({x, y}) \in {x, y}
         /\ MaxOf({x, y}) >= x /\ MaxOf({x, y}) >= y
  BY DEF MaxOf

\* A finite set of numbers has a largest element: the one with the fewest
\* above it.
LEMMA MaxOfFinite ==
  ASSUME NEW S \in SUBSET Int, S # {}, IsFiniteSet(S)
  PROVE  MaxOf(S) \in S /\ \A y \in S : y <= MaxOf(S)
  <1>. DEFINE Above(x) == {z \in S : z > x}
              N == {Cardinality(Above(x)) : x \in S}
  <1>1. \A x \in S : IsFiniteSet(Above(x)) /\ Cardinality(Above(x)) \in Nat
    BY FS_Subset, FS_CardinalityType
  <1>2. N \in SUBSET Nat /\ N # {}
    BY <1>1
  <1>. HIDE DEF N
  <1>3. PICK n \in N : \A k \in N : n <= k
    BY <1>2, MinOfNats
  <1>4. PICK x \in S : n = Cardinality(Above(x))
    BY <1>3 DEF N
  <1>5. ASSUME NEW y \in S, y > x PROVE FALSE
    <2>1. Above(y) \subseteq Above(x) /\ y \in Above(x) /\ y \notin Above(y)
      <3>1. \A z \in S : z > y => z > x
        <4>1. x \in Int /\ y \in Int /\ S \subseteq Int
          OBVIOUS
        <4>. QED  BY <1>5, <4>1
      <3>2. ~(y > y)
        <4>1. y \in Int
          OBVIOUS
        <4>. QED  BY <4>1
      <3>. QED  BY <1>5, <3>1, <3>2
    <2>2. /\ Cardinality(Above(y)) <= Cardinality(Above(x))
          /\ Cardinality(Above(x)) = Cardinality(Above(y)) => Above(x) = Above(y)
      <3>1. IsFiniteSet(Above(x)) /\ Above(y) \in SUBSET Above(x)
        BY <1>1, <2>1
      <3>. HIDE DEF Above
      <3>. QED  BY <3>1, FS_Subset
    <2>3. Cardinality(Above(y)) \in N
      BY DEF N
    <2>4. n <= Cardinality(Above(y))
      BY <1>3, <2>3
    <2>. HIDE DEF Above
    <2>. QED  BY <1>1, <1>4, <2>1, <2>2, <2>4
  <1>6. \A y \in S : y <= x
    BY <1>5
  <1>. QED  BY <1>6 DEF MaxOf

\* Part of a finite set is finite and no larger; one more element is at most
\* one more.
LEMMA PartOf ==
  ASSUME NEW T, IsFiniteSet(T), NEW S \in SUBSET T
  PROVE  /\ IsFiniteSet(S) /\ Cardinality(S) \in Nat /\ Cardinality(T) \in Nat
         /\ Cardinality(S) <= Cardinality(T)
  BY FS_Subset, FS_CardinalityType

LEMMA OneMore ==
  ASSUME NEW T, IsFiniteSet(T), NEW x, NEW S \in SUBSET (T \cup {x})
  PROVE  IsFiniteSet(S) /\ Cardinality(S) \in Nat /\ Cardinality(S) <= Cardinality(T) + 1
  <1>. DEFINE U == T \cup {x}
  <1>1. IsFiniteSet(U) /\ Cardinality(U) = IF x \in T THEN Cardinality(T) ELSE Cardinality(T) + 1
    BY FS_AddElement
  <1>. HIDE DEF U
  <1>2. /\ IsFiniteSet(S) /\ Cardinality(S) \in Nat /\ Cardinality(U) \in Nat
        /\ Cardinality(S) <= Cardinality(U)
    BY <1>1, PartOf DEF U
  <1>3. Cardinality(T) \in Nat
    BY FS_CardinalityType
  <1>. QED  BY <1>1, <1>2, <1>3

-----------------------------------------------------------------------------
(* The response that must age out.                                         *)

\* Rows that are told apart by their ids.
Rows(rows) ==
    /\ IsFiniteSet(rows)
    /\ \A a \in rows : a.at \in Int /\ a.id \in Int
    /\ \A a, b \in rows : a.id = b.id => a = b

Older(rows, a) == {b \in rows : b.at < a.at \/ (b.at = a.at /\ b.id < a.id)}

\* Of two rows one is the older, and what is older than it is older than both.
LEMMA OlderOrders ==
  ASSUME NEW rows, Rows(rows), NEW a \in rows, NEW b \in rows
  PROVE  /\ Older(rows, a) \in SUBSET rows /\ a \notin Older(rows, a)
         /\ a # b => a \in Older(rows, b) \/ b \in Older(rows, a)
         /\ b \in Older(rows, a) => Older(rows, b) \subseteq Older(rows, a)
  <1>1. Older(rows, a) \in SUBSET rows /\ a \notin Older(rows, a)
    BY DEF Rows, Older
  <1>2. a # b => a \in Older(rows, b) \/ b \in Older(rows, a)
    BY DEF Rows, Older
  <1>3. ASSUME b \in Older(rows, a), NEW c \in Older(rows, b) PROVE c \in Older(rows, a)
    BY <1>3 DEF Rows, Older
  <1>. QED  BY <1>1, <1>2, <1>3

\* The older of two rows has fewer rows before it.
LEMMA OlderCounts ==
  ASSUME NEW rows, Rows(rows), NEW a \in rows
  PROVE  /\ IsFiniteSet(Older(rows, a)) /\ Cardinality(rows) \in Nat
         /\ Cardinality(Older(rows, a)) \in Nat
         /\ Cardinality(Older(rows, a)) < Cardinality(rows)
         /\ \A b \in Older(rows, a) : Cardinality(Older(rows, b)) < Cardinality(Older(rows, a))
  <1>1. IsFiniteSet(rows)
    BY DEF Rows
  <1>2. ASSUME NEW T, IsFiniteSet(T), NEW S \in SUBSET T, NEW x \in T, x \notin S
        PROVE  /\ IsFiniteSet(S) /\ Cardinality(S) \in Nat /\ Cardinality(T) \in Nat
               /\ Cardinality(S) < Cardinality(T)
    <2>1. /\ IsFiniteSet(S) /\ Cardinality(S) \in Nat /\ Cardinality(T) \in Nat
          /\ Cardinality(S) <= Cardinality(T)
      BY <1>2, PartOf
    <2>2. Cardinality(T) = Cardinality(S) => T = S
      BY <1>2, FS_Subset
    <2>. QED  BY <1>2, <2>1, <2>2
  <1>3. /\ IsFiniteSet(Older(rows, a)) /\ Cardinality(rows) \in Nat
        /\ Cardinality(Older(rows, a)) \in Nat
        /\ Cardinality(Older(rows, a)) < Cardinality(rows)
    BY <1>1, <1>2, OlderOrders
  <1>4. ASSUME NEW b \in Older(rows, a)
        PROVE  Cardinality(Older(rows, b)) < Cardinality(Older(rows, a))
    <2>1. b \in rows
      BY DEF Older
    <2>2. Older(rows, b) \in SUBSET Older(rows, a) /\ b \notin Older(rows, b)
      BY <1>4, <2>1, OlderOrders
    <2>. QED  BY <1>2, <1>3, <1>4, <2>2
  <1>. QED  BY <1>3, <1>4

\* Some row has exactly k rows before it: were there none, as many rows as
\* there are would share fewer ranks.
LEMMA RankExists ==
  ASSUME NEW rows, Rows(rows), NEW k \in Nat, k < Cardinality(rows)
  PROVE  \E a \in rows : Cardinality(Older(rows, a)) = k
  <1>. DEFINE n == Cardinality(rows)
              T == (0..n - 1) \ {k}
              rank == [a \in rows |-> Cardinality(Older(rows, a))]
  <1>1. IsFiniteSet(rows) /\ n \in Nat
    BY FS_CardinalityType DEF Rows
  <1>2. \A a \in rows : rank[a] \in 0..n - 1
    BY <1>1, OlderCounts
  <1>3. IsFiniteSet(T) /\ Cardinality(T) < n
    <2>1. n \in Nat /\ k < n
      BY <1>1
    <2>. HIDE DEF n
    <2>2. /\ IsFiniteSet(0..n - 1)
          /\ Cardinality(0..n - 1) = IF 0 > n - 1 THEN 0 ELSE (n - 1) - 0 + 1
      BY <2>1, n - 1 \in Int, FS_Interval
    <2>3. Cardinality(0..n - 1) = n /\ k \in 0..n - 1
      BY <2>1, <2>2
    <2>4. IsFiniteSet(T) /\ Cardinality(T) = n - 1
      <3>1. PICK R : R = 0..n - 1
        OBVIOUS
      <3>2. IsFiniteSet(R \ {k}) /\ Cardinality(R \ {k}) = IF k \in R THEN Cardinality(R) - 1 ELSE Cardinality(R)
        BY <2>2, <3>1, FS_RemoveElement
      <3>. QED  BY <2>3, <3>1, <3>2
    <2>. QED  BY <2>1, <2>4
  <1>4. ASSUME \A a \in rows : rank[a] # k PROVE FALSE
    <2>1. rank \in [rows -> T]
      BY <1>2, <1>4
    <2>. HIDE DEF T, rank, n
    <2>2. PICK a, b \in rows : a # b /\ rank[a] = rank[b]
      BY <1>1, <1>3, <2>1, FS_PigeonHole DEF n
    <2>3. rank[a] = Cardinality(Older(rows, a)) /\ rank[b] = Cardinality(Older(rows, b))
      BY DEF rank
    <2>4. a \in Older(rows, b) \/ b \in Older(rows, a)
      BY <2>2, OlderOrders
    <2>5. Cardinality(Older(rows, a)) \in Nat /\ Cardinality(Older(rows, b)) \in Nat
      BY <2>2, OlderCounts
    <2>6. a \in Older(rows, b) => Cardinality(Older(rows, a)) < Cardinality(Older(rows, b))
      BY <2>2, OlderCounts
    <2>7. b \in Older(rows, a) => Cardinality(Older(rows, b)) < Cardinality(Older(rows, a))
      BY <2>2, OlderCounts
    <2>8. Cardinality(Older(rows, a)) = Cardinality(Older(rows, b))
      BY <2>2, <2>3
    <2>. QED  BY <2>4, <2>5, <2>6, <2>7, <2>8
  <1>. QED  BY <1>4

\* The response `last` is the one to wait for: the younger ones are fewer than
\* the limit, and with those of its own age they are not.
WaitsFor(last, rows, limit, now) ==
    /\ AgesOut(rows, limit, now) = last.at + Hour - now /\ last.at + Hour - now >= 1
    /\ Cardinality({a \in rows : a.at > last.at}) < limit
    /\ Cardinality({a \in rows : a.at >= last.at}) >= limit
    /\ Cardinality(rows) = limit => \A a \in rows : last.at <= a.at

\* AgesOut waits for that response.
LEMMA AgesOutExact ==
  ASSUME NEW rows, Rows(rows), NEW limit \in Nat \ {0}, limit <= Cardinality(rows),
         NEW now \in Int, \A a \in rows : a.at > now - Hour
  PROVE  \E last \in rows : WaitsFor(last, rows, limit, now)
  <1>. DEFINE n == Cardinality(rows)
              last == CHOOSE a \in rows : Cardinality(Older(rows, a)) = n - limit
              Younger == {a \in rows : a.at > last.at}
              Aged == {a \in rows : a.at >= last.at}
  <1>1. IsFiniteSet(rows) /\ n \in Nat /\ n - limit \in Nat /\ n - limit < n
    BY FS_CardinalityType DEF Rows
  <1>2. last \in rows /\ Cardinality(Older(rows, last)) = n - limit
    <2>1. \E a \in rows : Cardinality(Older(rows, a)) = n - limit
      BY <1>1, RankExists
    <2>. QED  BY <2>1
  <1>3. AgesOut(rows, limit, now) = MaxOf({last.at + Hour - now, 1})
    BY DEF AgesOut, Older
  <1>. HIDE DEF last
  <1>4. Hour \in Int /\ last.at \in Int /\ last.at > now - Hour
    BY <1>2, WaitAssumption DEF Rows
  <1>5. AgesOut(rows, limit, now) = last.at + Hour - now /\ last.at + Hour - now >= 1
    <2>1. last.at + Hour - now \in Int /\ last.at + Hour - now >= 1
      BY <1>4
    <2>2. PICK wait \in Int : wait = last.at + Hour - now
      BY <2>1
    <2>3. MaxOf({wait, 1}) \in {wait, 1} /\ MaxOf({wait, 1}) >= wait
      BY <2>2, 1 \in Int, MaxOfTwo
    <2>. QED  BY <1>3, <2>1, <2>2, <2>3
  <1>6. /\ IsFiniteSet(Older(rows, last)) /\ Older(rows, last) \in SUBSET rows
        /\ last \notin Older(rows, last)
    BY <1>2, OlderOrders, OlderCounts
  \* what is not older
  <1>. DEFINE Rest == rows \ Older(rows, last)
  <1>7. IsFiniteSet(Rest) /\ Cardinality(Rest) = limit
    <2>1. rows \cap Older(rows, last) = Older(rows, last)
      BY <1>6
    <2>2. PICK O : O = Older(rows, last)
      OBVIOUS
    <2>3. IsFiniteSet(rows \ O) /\ Cardinality(rows \ O) = Cardinality(rows) - Cardinality(rows \cap O)
      BY <1>1, FS_Difference
    <2>. QED  BY <1>1, <1>2, <2>1, <2>2, <2>3
  <1>8. Cardinality(Younger) < limit
    <2>1. Younger \in SUBSET (Rest \ {last})
      BY <1>2, <1>4 DEF Rows, Older
    <2>2. last \in Rest
      BY <1>2, <1>6
    <2>. HIDE DEF Rest, Younger
    <2>3. IsFiniteSet(Rest \ {last}) /\ Cardinality(Rest \ {last}) = limit - 1
      BY <1>7, <2>2, FS_RemoveElement
    <2>. QED  BY <2>1, <2>3, PartOf
  <1>9. Cardinality(Aged) >= limit
    <2>1. Rest \in SUBSET Aged
      BY <1>2, <1>4 DEF Rows, Older
    <2>2. IsFiniteSet(Aged)
      BY <1>1, PartOf
    <2>. HIDE DEF Rest, Aged
    <2>. QED  BY <1>7, <2>1, <2>2, PartOf
  <1>10. ASSUME n = limit, NEW a \in rows PROVE last.at <= a.at
    <2>1. Older(rows, last) = {}
      BY <1>1, <1>2, <1>6, <1>10, FS_EmptySet
    <2>. QED  BY <1>2, <1>4, <2>1 DEF Rows, Older
  <1>. QED  BY <1>2, <1>5, <1>8, <1>9, <1>10 DEF WaitsFor

-----------------------------------------------------------------------------
(* Types.                                                                  *)

\* What a command reads as the time, and what it asks.
LEMMA NowIsRecent ==
  ASSUME TypeOK, NEW now \in Recent
  PROVE  now \in Nat /\ now <= clock /\ now >= clock - MaxWait
  BY WaitAssumption DEF TypeOK, Recent

LEMMA RequestIsTyped ==
  ASSUME NEW req \in Requests
  PROVE  /\ req.who \in Consumers /\ req.res \in Resources \cup {Unknown}
         /\ req.family \in Families /\ req.key \in Keys \cup {NoKey}
         /\ req.billable \in BOOLEAN
  BY BudgetAssumption DEF Request

\* Every table keeps its columns.
LEMMA TypeStep == TypeOK /\ [Next]_vars => TypeOK'
  <1>. SUFFICES ASSUME TypeOK, [Next]_vars PROVE TypeOK'
    OBVIOUS
  <1>. USE DEF TypeOK
  <1>1. CASE Tick
    BY <1>1 DEF Tick
  <1>2. ASSUME NEW now \in Recent, NEW req \in Requests, Refuse(req, now) PROVE TypeOK'
    <2>1. now \in Nat /\ req.who \in Consumers
      BY NowIsRecent, RequestIsTyped
    <2>2. policies' \subseteq [who: Consumers, at: Int]
      BY <1>2, <2>1 DEF Refuse, Observed, KeptPolicies
    <2>3. holds' \in [Resources -> Int]
      BY <1>2, <2>1 DEF Refuse, KeptHolds
    <2>4. leases' \subseteq leases /\ admissions' \subseteq admissions /\ claims' \subseteq claims
      BY <1>2 DEF Refuse, LiveLeases, KeptAdmissions, LiveClaims
    <2>. QED  BY <1>2, <2>2, <2>3, <2>4 DEF Refuse
  <1>3. ASSUME NEW now \in Recent, NEW req \in Requests, Grant(req, now) PROVE TypeOK'
    <2>1. now \in Nat /\ req.who \in Consumers /\ issued' = issued + 1 /\ issued' \in Nat
      BY <1>3, NowIsRecent, RequestIsTyped DEF Grant
    <2>2. policies' \subseteq [who: Consumers, at: Int]
      BY <1>3, <2>1 DEF Grant, Observed, KeptPolicies
    <2>3. holds' \in [Resources -> Int]
      BY <1>3, <2>1 DEF Grant, KeptHolds
    <2>4. 1..issued \subseteq 1..issued' /\ issued' \in 1..issued'
      BY <2>1
    <2>5. leases' \subseteq [id: 1..issued', family: Families, until: Int]
      <3>1. [id |-> issued', family |-> req.family, until |-> now + Ttl]
              \in [id: 1..issued', family: Families, until: Int]
        BY <2>1, <2>4, RequestIsTyped, BudgetAssumption
      <3>2. LiveLeases(now) \subseteq [id: 1..issued', family: Families, until: Int]
        BY <2>4 DEF LiveLeases
      <3>. QED  BY <1>3, <3>1, <3>2 DEF Grant
    <2>6. admissions' \subseteq
            [id: 1..issued', who: Consumers, res: Resources \cup {Unknown}, at: Int, billable: BOOLEAN]
      <3>1. [id |-> issued', who |-> req.who, res |-> req.res, at |-> now, billable |-> req.billable]
              \in [id: 1..issued', who: Consumers, res: Resources \cup {Unknown}, at: Int, billable: BOOLEAN]
        BY <2>1, <2>4, RequestIsTyped
      <3>2. KeptAdmissions(now) \subseteq
              [id: 1..issued', who: Consumers, res: Resources \cup {Unknown}, at: Int, billable: BOOLEAN]
        BY <2>4 DEF KeptAdmissions
      <3>. QED  BY <1>3, <3>1, <3>2 DEF Grant
    <2>7. claims' \subseteq [key: Keys, id: 1..issued', until: Int]
      <3>1. LiveClaims(now) \subseteq [key: Keys, id: 1..issued', until: Int]
        BY <2>4 DEF LiveClaims
      <3>2. req.key # NoKey =>
              [key |-> req.key, id |-> issued', until |-> now + ClaimTtl]
                \in [key: Keys, id: 1..issued', until: Int]
        BY <2>1, <2>4, RequestIsTyped, BudgetAssumption
      <3>. QED  BY <1>3, <3>1, <3>2 DEF Grant, Claimed
    <2>8. nextAdmission' \in Int
      BY <1>3, <2>1 DEF Grant
    <2>. QED  BY <1>3, <2>1, <2>2, <2>3, <2>4, <2>5, <2>6, <2>7, <2>8 DEF Grant
  <1>4. ASSUME NEW now \in Recent, NEW id \in calling, Renew(id, now) PROVE TypeOK'
    <2>1. now + Ttl \in Int
      BY NowIsRecent, BudgetAssumption
    <2>2. leases' \subseteq [id: 1..issued, family: Families, until: Int]
      BY <1>4, <2>1 DEF Renew
    <2>. QED  BY <1>4, <2>2 DEF Renew, Extra
  <1>5. ASSUME NEW now \in Recent, NEW delay \in Delays, Hold(now, delay) PROVE TypeOK'
    <2>1. now + delay \in Int
      BY NowIsRecent, BudgetAssumption
    <2>2. \A old \in Int : Extended(old, now + delay) \in Int
      BY <2>1, MaxOfTwo DEF Extended
    <2>. QED  BY <1>5, <2>2 DEF Hold, Extra
  <1>6. ASSUME NEW now \in Recent, Report(now) PROVE TypeOK'
    <2>1. now \in Nat
      BY NowIsRecent
    <2>2. holds' \in [Resources -> Int]
      BY <1>6, <2>1 DEF Report, KeptHolds
    <2>. QED
      BY <1>6, <2>2 DEF Report, LiveLeases, KeptAdmissions, KeptPolicies, LiveClaims
  <1>7. ASSUME NEW id \in calling, Release(id) PROVE TypeOK'
    BY <1>7 DEF Release, ClaimsAfter
  <1>8. ASSUME NEW id \in calling, Reconcile(id) PROVE TypeOK'
    <2>1. admissions' \subseteq
            [id: 1..issued, who: Consumers, res: Resources \cup {Unknown}, at: Int, billable: BOOLEAN]
      BY <1>8 DEF Reconcile
    <2>. QED  BY <1>8, <2>1 DEF Reconcile
  <1>9. CASE UNCHANGED vars
    BY <1>9 DEF vars
  <1>. QED  BY <1>1, <1>2, <1>3, <1>4, <1>5, <1>6, <1>7, <1>8, <1>9 DEF Next

\* Every reachable state is well-typed.
THEOREM TypeCorrect == Spec => []TypeOK
  <1>1. Init => TypeOK
    BY DEF Init, TypeOK
  <1>. QED  BY <1>1, TypeStep, PTL DEF Spec

-----------------------------------------------------------------------------
(* Holds and claims.                                                       *)

\* A request is admitted only to resources that nobody holds.
LEMMA AdmittedIsFree ==
  ASSUME TypeOK, NEW now \in Recent, NEW req \in Requests, ~Refused(req, now),
         NEW r \in Resources, req.res \in {r, Unknown}
  PROVE  holds[r] <= clock
  <1>. SUFFICES ASSUME holds[r] > clock PROVE FALSE
    BY DEF TypeOK
  <1>1. now \in Nat /\ now <= clock /\ clock \in Nat /\ holds \in [Resources -> Int]
    BY NowIsRecent DEF TypeOK
  <1>2. KeptHolds(now) \in [Resources -> Int] /\ KeptHolds(now)[r] > now
    BY <1>1 DEF KeptHolds
  <1>3. ~(ResourceHold(req.res, now) > now)
    BY DEF Refused, Held
  <1>4. CASE req.res = Unknown
    <2>. DEFINE S == {KeptHolds(now)[q] : q \in Resources}
                f == [q \in Resources |-> KeptHolds(now)[q]]
    <2>1. S \in SUBSET Int /\ KeptHolds(now)[r] \in S
      BY <1>2
    <2>2. f \in Surjection(Resources, S)
      BY DEF Surjection
    <2>3. IsFiniteSet(S)
      <3>. HIDE DEF S, f
      <3>. QED  BY <2>2, FS_Surjection, BudgetAssumption
    <2>4. MaxOf(S) \in S /\ KeptHolds(now)[r] <= MaxOf(S)
      <3>. HIDE DEF S
      <3>. QED  BY <2>1, <2>3, MaxOfFinite
    <2>5. ResourceHold(req.res, now) = MaxOf(S)
      BY <1>4 DEF ResourceHold
    <2>. HIDE DEF S
    <2>6. MaxOf(S) \in Int
      BY <2>1, <2>4
    <2>7. MaxOf(S) > now
      BY <1>1, <1>2, <2>4, <2>6
    <2>. QED  BY <1>3, <2>5, <2>7
  <1>5. CASE req.res # Unknown
    BY <1>2, <1>3, <1>5 DEF ResourceHold
  <1>. QED  BY <1>4, <1>5

\* What may happen to the holds in one step.
AdmissionsFree ==
    \A a \in admissions' \ admissions : \A r \in Resources :
        (a.id = issued' /\ issued' > issued /\ a.res \in {r, Unknown}) => holds[r] <= clock
HoldsKept == \A r \in Resources : holds'[r] < holds[r] => holds[r] <= clock

LEMMA HoldStep == TypeOK /\ [Next]_vars => AdmissionsFree /\ HoldsKept
  <1>. SUFFICES ASSUME TypeOK, [Next]_vars PROVE AdmissionsFree /\ HoldsKept
    OBVIOUS
  <1>1. clock \in Nat /\ issued \in Nat /\ holds \in [Resources -> Int]
    BY DEF TypeOK
  <1>2. ASSUME NEW now \in Recent, holds' = KeptHolds(now) PROVE HoldsKept
    BY <1>1, <1>2, NowIsRecent DEF HoldsKept, KeptHolds
  <1>3. holds' = holds => HoldsKept
    BY <1>1 DEF HoldsKept
  <1>4. issued' = issued => AdmissionsFree
    BY <1>1 DEF AdmissionsFree
  <1>5. ASSUME NEW now \in Recent, NEW req \in Requests, Grant(req, now)
        PROVE  AdmissionsFree /\ HoldsKept
    <2>1. holds' = KeptHolds(now) /\ ~Refused(req, now)
      BY <1>5 DEF Grant
    <2>2. \A a \in admissions' \ admissions : a.res = req.res
      BY <1>5 DEF Grant, KeptAdmissions
    <2>3. \A r \in Resources : req.res \in {r, Unknown} => holds[r] <= clock
      BY <2>1, AdmittedIsFree
    <2>. QED  BY <1>2, <2>1, <2>2, <2>3 DEF AdmissionsFree
  <1>6. ASSUME NEW now \in Recent, NEW delay \in Delays, Hold(now, delay)
        PROVE  AdmissionsFree /\ HoldsKept
    <2>1. now + delay \in Int
      BY NowIsRecent, BudgetAssumption
    <2>2. \A old \in Int : Extended(old, now + delay) \in Int /\ Extended(old, now + delay) >= old
      BY <2>1, MaxOfTwo DEF Extended
    <2>3. issued' = issued /\ \A r \in Resources : holds'[r] >= holds[r] /\ holds'[r] \in Int
      BY <1>1, <1>6, <2>2 DEF Hold
    <2>. QED  BY <1>1, <1>4, <2>3 DEF HoldsKept
  <1>7. ASSUME NEW now \in Recent, NEW req \in Requests, Refuse(req, now)
        PROVE  AdmissionsFree /\ HoldsKept
    BY <1>2, <1>4, <1>7 DEF Refuse
  <1>8. ASSUME NEW now \in Recent, Report(now)
        PROVE  AdmissionsFree /\ HoldsKept
    BY <1>2, <1>4, <1>8 DEF Report
  <1>9. ASSUME Tick \/ (\E now \in Recent, id \in calling : Renew(id, now))
                \/ (\E id \in calling : Release(id) \/ Reconcile(id)) \/ UNCHANGED vars
        PROVE  AdmissionsFree /\ HoldsKept
    BY <1>3, <1>4, <1>9 DEF Tick, Renew, Release, Reconcile, vars
  <1>. QED  BY <1>5, <1>6, <1>7, <1>8, <1>9 DEF Next

\* Nothing is admitted to a resource that is held, and a hold ends only when
\* its time has come, however late the commands commit.
THEOREM HoldsAreRespected == Spec => HoldRespected
  <1>1. TypeOK /\ [Next]_vars => [AdmissionsFree /\ HoldsKept]_vars
    BY HoldStep
  <1>. QED  BY <1>1, TypeCorrect, PTL DEF Spec, HoldRespected, AdmissionsFree, HoldsKept

\* Who may take the claim of a shared read away.
ClaimsKept ==
    \A c \in claims \ claims' :
        \/ c.until <= clock
        \/ c.id \in calling \ calling'
        \/ \E req \in Requests : req.ignoreClaim /\ req.key = c.key /\ issued' = issued + 1

LEMMA ClaimStep == TypeOK /\ [Next]_vars => ClaimsKept
  <1>. SUFFICES ASSUME TypeOK, [Next]_vars PROVE ClaimsKept
    OBVIOUS
  <1>1. clock \in Nat /\ \A c \in claims : c.until \in Int
    BY DEF TypeOK
  <1>2. ASSUME NEW now \in Recent, NEW c \in claims \ LiveClaims(now) PROVE c.until <= clock
    BY <1>1, NowIsRecent DEF LiveClaims
  <1>3. ASSUME NEW now \in Recent, claims' = LiveClaims(now) PROVE ClaimsKept
    BY <1>2, <1>3 DEF ClaimsKept
  <1>4. ASSUME NEW now \in Recent, NEW req \in Requests, Grant(req, now) PROVE ClaimsKept
    <2>. SUFFICES ASSUME NEW c \in claims \ claims', c \in LiveClaims(now)
                  PROVE  req.ignoreClaim /\ req.key = c.key /\ issued' = issued + 1
      BY <1>2 DEF ClaimsKept
    <2>1. req.key # NoKey /\ req.key = c.key
      BY <1>4 DEF Grant, Claimed
    <2>2. ~Followed(req, now) /\ issued' = issued + 1
      BY <1>4 DEF Grant, Refused
    <2>. QED  BY <2>1, <2>2 DEF Followed
  <1>5. ASSUME NEW id \in calling, Release(id) PROVE ClaimsKept
    BY <1>5 DEF Release, ClaimsAfter, ClaimsKept
  <1>6. claims' = claims => ClaimsKept
    BY DEF ClaimsKept
  <1>. QED
    BY <1>3, <1>4, <1>5, <1>6
       DEF Next, Tick, Refuse, Renew, Hold, Report, Reconcile, vars

\* The claim of a caller that still fetches is never lost to another's release,
\* to a cleanup before its time, or to a request that would have followed it.
THEOREM ClaimsAreHeld == Spec => ClaimHeld
  <1>1. TypeOK /\ [Next]_vars => [ClaimsKept]_vars
    BY ClaimStep
  <1>. QED  BY <1>1, TypeCorrect, PTL DEF Spec, ClaimHeld, ClaimsKept

-----------------------------------------------------------------------------
(* The inductive invariant.                                                *)

\* The admission that a grant books.
Booking(req, now) ==
    [id |-> issued + 1, who |-> req.who, res |-> req.res, at |-> now, billable |-> req.billable]

LEMMA GrantBooks ==
  ASSUME TypeOK, NEW now \in Recent, NEW req \in Requests, Grant(req, now)
  PROVE  /\ admissions' = KeptAdmissions(now) \cup {Booking(req, now)}
         /\ KeptAdmissions(now) \subseteq admissions
         /\ Booking(req, now).id = issued + 1 /\ Booking(req, now).who = req.who
         /\ Booking(req, now).res = req.res /\ Booking(req, now).at = now
         /\ Booking(req, now).billable = req.billable
  BY DEF Grant, KeptAdmissions, Booking

\* A 304 changes no more than whether the response counts.
LEMMA ReconcileForgives ==
  ASSUME TypeOK, NEW id \in calling, Reconcile(id)
  PROVE  \A b \in admissions' : \E a \in admissions :
           /\ b = (IF a.id = id THEN [a EXCEPT !.billable = FALSE] ELSE a)
           /\ b.id = a.id /\ b.who = a.who /\ b.res = a.res /\ b.at = a.at
           /\ b.billable => b = a
  BY DEF TypeOK, Reconcile

\* Ids are given once, and no command stamps the future.
LEMMA StampedStep == TypeOK /\ Stamped /\ [Next]_vars => Stamped'
  <1>. SUFFICES ASSUME TypeOK, Stamped, [Next]_vars PROVE Stamped'
    OBVIOUS
  <1>1. clock \in Nat /\ issued \in Nat /\ \A a \in admissions : a.at \in Int /\ a.id \in 1..issued
    BY DEF TypeOK
  <1>2. ASSUME admissions' \subseteq admissions, clock' \in {clock, clock + 1} PROVE Stamped'
    <2>1. IsFiniteSet(admissions')
      BY <1>2, PartOf DEF Stamped
    <2>. QED  BY <1>1, <1>2, <2>1 DEF Stamped
  <1>3. ASSUME NEW now \in Recent, NEW req \in Requests, Grant(req, now) PROVE Stamped'
    <2>. DEFINE new == Booking(req, now)
    <2>1. /\ admissions' = KeptAdmissions(now) \cup {new} /\ KeptAdmissions(now) \subseteq admissions
          /\ new.id = issued + 1 /\ new.at = now /\ clock' = clock
      BY <1>3, GrantBooks DEF Grant
    <2>. HIDE DEF new
    <2>2. IsFiniteSet(admissions')
      BY <2>1, PartOf, FS_AddElement DEF Stamped
    <2>3. \A a \in admissions : a.id # new.id
      BY <1>1, <2>1
    <2>4. now <= clock
      BY NowIsRecent
    <2>. QED  BY <2>1, <2>2, <2>3, <2>4 DEF Stamped
  <1>4. ASSUME NEW id \in calling, Reconcile(id) PROVE Stamped'
    <2>. DEFINE f == [a \in admissions |-> IF a.id = id THEN [a EXCEPT !.billable = FALSE] ELSE a]
    <2>1. f \in Surjection(admissions, admissions')
      BY <1>4 DEF Surjection, Reconcile
    <2>2. IsFiniteSet(admissions')
      <3>. HIDE DEF f
      <3>. QED  BY <2>1, FS_Surjection DEF Stamped
    <2>3. ASSUME NEW b \in admissions'
          PROVE  \E a \in admissions :
                   /\ b = (IF a.id = id THEN [a EXCEPT !.billable = FALSE] ELSE a)
                   /\ b.id = a.id /\ b.at = a.at
      BY <1>4, ReconcileForgives
    <2>4. clock' = clock /\ \A b \in admissions' : b.at <= clock
      BY <1>4, <2>3 DEF Stamped, Reconcile
    <2>5. ASSUME NEW b \in admissions', NEW c \in admissions', b.id = c.id PROVE b = c
      <3>1. PICK a \in admissions :
              b = (IF a.id = id THEN [a EXCEPT !.billable = FALSE] ELSE a) /\ b.id = a.id
        BY <2>3
      <3>2. PICK d \in admissions :
              c = (IF d.id = id THEN [d EXCEPT !.billable = FALSE] ELSE d) /\ c.id = d.id
        BY <2>3
      <3>3. a = d
        BY <2>5, <3>1, <3>2 DEF Stamped
      <3>. QED  BY <3>1, <3>2, <3>3
    <2>. QED  BY <2>2, <2>4, <2>5 DEF Stamped
  <1>. QED
    BY <1>1, <1>2, <1>3, <1>4
       DEF Next, Tick, Refuse, Renew, Hold, Report, Release, KeptAdmissions, vars

\* A consumer whose admissions still count is not forgotten.
LEMMA PolicyStep == TypeOK /\ Stamped /\ PolicySeen /\ [Next]_vars => PolicySeen'
  <1>. SUFFICES ASSUME TypeOK, Stamped, PolicySeen, [Next]_vars PROVE PolicySeen'
    OBVIOUS
  <1>1. /\ clock \in Nat /\ Hour \in Nat /\ MaxWait \in Nat
        /\ \A a \in admissions : a.at \in Int /\ a.at <= clock
        /\ \A p \in policies : p.at \in Int
    BY WaitAssumption DEF TypeOK, Stamped
  <1>2. ASSUME NEW now \in Recent, NEW req \in Requests, NEW a \in admissions,
               a.at >= clock - Hour + MaxWait
        PROVE  \E p \in Observed(req.who, now) : p.who = a.who /\ p.at >= a.at - MaxWait
    <2>1. now \in Nat /\ now <= clock /\ now >= clock - MaxWait
      BY NowIsRecent
    <2>2. CASE a.who = req.who
      <3>1. [who |-> req.who, at |-> now] \in Observed(req.who, now)
        BY DEF Observed
      <3>. QED  BY <1>1, <2>1, <2>2, <3>1
    <2>3. CASE a.who # req.who
      <3>1. PICK p \in policies : p.who = a.who /\ p.at >= a.at - MaxWait
        BY <1>2 DEF PolicySeen
      <3>2. p.at >= now - Hour
        BY <1>1, <1>2, <2>1, <3>1
      <3>. QED  BY <2>3, <3>1, <3>2 DEF Observed, KeptPolicies
    <2>. QED  BY <2>2, <2>3
  <1>3. ASSUME NEW now \in Recent, NEW req \in Requests, Refuse(req, now) PROVE PolicySeen'
    BY <1>2, <1>3 DEF Refuse, KeptAdmissions, PolicySeen
  <1>4. ASSUME NEW now \in Recent, NEW req \in Requests, Grant(req, now) PROVE PolicySeen'
    <2>. DEFINE new == Booking(req, now)
    <2>1. /\ admissions' = KeptAdmissions(now) \cup {new} /\ KeptAdmissions(now) \subseteq admissions
          /\ new.who = req.who /\ new.at = now /\ clock' = clock
          /\ policies' = Observed(req.who, now)
      BY <1>4, GrantBooks DEF Grant
    <2>. HIDE DEF new
    <2>2. \E p \in Observed(req.who, now) : p.who = new.who /\ p.at >= new.at - MaxWait
      <3>1. [who |-> req.who, at |-> now] \in Observed(req.who, now)
        BY DEF Observed
      <3>2. now \in Nat
        BY NowIsRecent
      <3>. QED  BY <1>1, <2>1, <3>1, <3>2
    <2>. QED  BY <1>2, <2>1, <2>2 DEF PolicySeen
  <1>5. ASSUME NEW now \in Recent, Report(now) PROVE PolicySeen'
    <2>1. now \in Nat /\ now <= clock
      BY NowIsRecent
    <2>2. ASSUME NEW p \in policies, NEW a \in admissions, p.at >= a.at - MaxWait,
                 a.at >= clock - Hour + MaxWait
          PROVE  p.at >= now - Hour
      BY <1>1, <2>1, <2>2
    <2>. QED  BY <1>5, <2>2 DEF Report, KeptAdmissions, KeptPolicies, PolicySeen
  <1>6. ASSUME NEW id \in calling, Reconcile(id) PROVE PolicySeen'
    <2>1. clock' = clock /\ policies' = policies
      BY <1>6 DEF Reconcile
    <2>. QED  BY <1>6, <2>1, ReconcileForgives DEF PolicySeen
  <1>7. CASE Tick
    <2>1. /\ clock' = clock + 1 /\ admissions' = admissions /\ policies' = policies
      BY <1>7 DEF Tick
    <2>2. \A a \in admissions : a.at >= clock' - Hour + MaxWait => a.at >= clock - Hour + MaxWait
      BY <1>1, <2>1
    <2>. QED  BY <2>1, <2>2 DEF PolicySeen
  <1>8. ASSUME UNCHANGED <<clock, admissions, policies>> PROVE PolicySeen'
    BY <1>8 DEF PolicySeen
  <1>. QED
    BY <1>3, <1>4, <1>5, <1>6, <1>7, <1>8 DEF Next, Renew, Hold, Release, vars

-----------------------------------------------------------------------------
(* The rate.                                                               *)

\* Whose requests of the last minute count, theirs is a limit that binds.
LEMMA RecentConsumerSeen ==
  ASSUME TypeOK, Stamped, PolicySeen, NEW now \in Recent, NEW who \in Consumers,
         NEW a \in admissions, a.at > now - Minute
  PROVE  a.who \in RecentConsumers(who, now)
  <1>1. /\ clock \in Nat /\ a.at \in Int /\ a.at <= clock
        /\ \A p \in policies : p.at \in Int
    BY DEF TypeOK, Stamped
  <1>2. now \in Nat /\ now <= clock /\ now >= clock - MaxWait
    BY NowIsRecent
  <1>. USE WaitAssumption
  <1>3. CASE a.who = who
    <2>1. [who |-> who, at |-> now] \in Observed(who, now) /\ now > now - PolicyWindow
      BY <1>2 DEF Observed
    <2>. QED  BY <1>3, <2>1 DEF RecentConsumers
  <1>4. CASE a.who # who
    <2>1. a.at >= clock - Hour + MaxWait
      BY <1>1, <1>2
    <2>2. PICK p \in policies : p.who = a.who /\ p.at >= a.at - MaxWait
      BY <2>1 DEF PolicySeen
    <2>3. p.at > now - PolicyWindow /\ p.at >= now - Hour
      BY <1>1, <1>2, <2>2
    <2>4. p \in Observed(who, now)
      BY <1>4, <2>2, <2>3 DEF Observed, KeptPolicies
    <2>. QED  BY <2>2, <2>3, <2>4 DEF RecentConsumers
  <1>. QED  BY <1>3, <1>4

\* The strictest of their limits is none larger than any.
LEMMA StrictestBinds ==
  ASSUME TypeOK, NEW now \in Recent, NEW who \in Consumers, NEW c \in RecentConsumers(who, now)
  PROVE  Strictest(Rpm, who, now) \in Nat /\ Rpm[c] \in Nat /\ Strictest(Rpm, who, now) <= Rpm[c]
  <1>1. RecentConsumers(who, now) \subseteq Consumers
    BY DEF RecentConsumers, Observed, KeptPolicies, TypeOK
  <1>. DEFINE S == {Rpm[d] : d \in RecentConsumers(who, now)}
  <1>2. S \in SUBSET Nat /\ Rpm[c] \in S
    BY <1>1, BudgetAssumption
  <1>3. Strictest(Rpm, who, now) = MinOf(S)
    BY DEF Strictest
  <1>. HIDE DEF S
  <1>4. MinOf(S) \in S /\ MinOf(S) <= Rpm[c]
    BY <1>2, MinOfNats
  <1>. QED  BY <1>2, <1>3, <1>4

\* An admission leaves every minute within the limits of all who share it.
LEMMA RateStep == TypeOK /\ Stamped /\ PolicySeen /\ RateHeld /\ [Next]_vars => RateHeld'
  <1>. SUFFICES ASSUME TypeOK, Stamped, PolicySeen, RateHeld, [Next]_vars PROVE RateHeld'
    OBVIOUS
  <1>1. /\ IsFiniteSet(admissions) /\ Minute \in Nat
        /\ \A a \in admissions : a.at \in Int /\ a.who \in Consumers
    BY WaitAssumption DEF TypeOK, Stamped
  <1>2. \A c \in Consumers : Rpm[c] \in Nat
    BY BudgetAssumption
  <1>3. ASSUME NEW b \in admissions, NEW a \in MinuteBefore(b), NEW M \in SUBSET MinuteBefore(b)
        PROVE  Cardinality(M) <= Rpm[a.who]
    <2>1. IsFiniteSet(MinuteBefore(b))
      BY <1>1, PartOf DEF MinuteBefore
    <2>2. /\ Cardinality(M) \in Nat /\ Cardinality(MinuteBefore(b)) \in Nat
          /\ Cardinality(M) <= Cardinality(MinuteBefore(b))
      BY <1>3, <2>1, PartOf
    <2>3. Cardinality(MinuteBefore(b)) <= Rpm[a.who]
      BY <1>3 DEF RateHeld
    <2>4. Rpm[a.who] \in Nat
      BY <1>1, <1>2 DEF MinuteBefore
    <2>. QED  BY <2>2, <2>3, <2>4
  <1>4. ASSUME admissions' \subseteq admissions PROVE RateHeld'
    <2>1. \A b \in admissions' : b \in admissions /\ MinuteBefore(b)' \subseteq MinuteBefore(b)
      BY <1>4 DEF MinuteBefore
    <2>2. ASSUME NEW b \in admissions', NEW a \in MinuteBefore(b)'
          PROVE  Cardinality(MinuteBefore(b)') <= Rpm[a.who]
      <3>. QED  BY <1>3, <2>1
    <2>. QED  BY <2>2 DEF RateHeld, MinuteBefore
  <1>5. ASSUME NEW now \in Recent, NEW req \in Requests, Grant(req, now) PROVE RateHeld'
    <2>. DEFINE new == Booking(req, now)
    <2>1. /\ admissions' = KeptAdmissions(now) \cup {new} /\ KeptAdmissions(now) \subseteq admissions
          /\ new.who = req.who /\ new.at = now /\ ~Refused(req, now)
      BY <1>5, GrantBooks DEF Grant
    <2>. HIDE DEF new
    <2>2. now \in Nat /\ req.who \in Consumers
      BY NowIsRecent, RequestIsTyped
    <2>3. IsFiniteSet(LastMinute(now)) /\ Cardinality(LastMinute(now)) \in Nat
      BY <1>1, PartOf DEF LastMinute
    <2>4. ~(Cardinality(LastMinute(now)) >= Strictest(Rpm, req.who, now))
      BY <2>1 DEF Refused, AtRate
    <2>5. ASSUME NEW b \in admissions', NEW a \in MinuteBefore(b)', b.at >= now
          PROVE  Cardinality(MinuteBefore(b)') <= Rpm[a.who]
      <3>1. b.at \in Int
        BY <1>1, <2>1, <2>2
      <3>2. MinuteBefore(b)' \in SUBSET (LastMinute(now) \cup {new})
        BY <1>1, <2>1, <2>2, <2>5, <3>1 DEF MinuteBefore, LastMinute
      <3>3. /\ Cardinality(MinuteBefore(b)') \in Nat
            /\ Cardinality(MinuteBefore(b)') <= Cardinality(LastMinute(now)) + 1
        <4>1. PICK M : M = MinuteBefore(b)'
          OBVIOUS
        <4>. QED  BY <2>3, <3>2, <4>1, OneMore
      <3>4. a.who \in RecentConsumers(req.who, now)
        <4>1. CASE a = new
          <5>1. [who |-> req.who, at |-> now] \in Observed(req.who, now)
                /\ now > now - PolicyWindow
            BY <2>2, WaitAssumption DEF Observed
          <5>. QED  BY <2>1, <4>1, <5>1 DEF RecentConsumers
        <4>2. CASE a \in LastMinute(now)
          BY <2>2, <4>2, RecentConsumerSeen DEF LastMinute
        <4>. QED  BY <3>2, <4>1, <4>2
      <3>5. /\ Strictest(Rpm, req.who, now) \in Nat /\ Rpm[a.who] \in Nat
            /\ Strictest(Rpm, req.who, now) <= Rpm[a.who]
        BY <2>2, <3>4, StrictestBinds
      <3>. QED  BY <2>3, <2>4, <3>3, <3>5
    <2>6. ASSUME NEW b \in admissions', NEW a \in MinuteBefore(b)', ~(b.at >= now)
          PROVE  Cardinality(MinuteBefore(b)') <= Rpm[a.who]
      <3>1. b \in admissions
        BY <2>1, <2>2, <2>6
      <3>2. MinuteBefore(b)' \subseteq MinuteBefore(b)
        BY <1>1, <2>1, <2>2, <2>6, <3>1 DEF MinuteBefore
      <3>. QED  BY <1>3, <2>6, <3>1, <3>2
    <2>. QED  BY <2>5, <2>6 DEF RateHeld, MinuteBefore
  <1>6. ASSUME NEW id \in calling, Reconcile(id) PROVE RateHeld'
    <2>1. ASSUME NEW b \in admissions', NEW a \in MinuteBefore(b)'
          PROVE  Cardinality(MinuteBefore(b)') <= Rpm[a.who]
      <3>1. PICK c \in admissions : b.at = c.at
        BY <1>6, ReconcileForgives
      <3>2. PICK d \in admissions : a.at = d.at /\ a.who = d.who
        BY <1>6, ReconcileForgives DEF MinuteBefore
      <3>3. d \in MinuteBefore(c)
        BY <2>1, <3>1, <3>2 DEF MinuteBefore
      <3>. DEFINE M == MinuteBefore(c)
                  f == [e \in M |-> IF e.id = id THEN [e EXCEPT !.billable = FALSE] ELSE e]
                  T == MinuteBefore(b)'
      <3>4. f \in Surjection(M, T)
        <4>1. ASSUME NEW e \in M PROVE f[e] \in T
          <5>1. f[e] \in admissions' /\ f[e].at = e.at
            BY <1>6 DEF Reconcile, MinuteBefore, TypeOK
          <5>. QED  BY <3>1, <5>1 DEF MinuteBefore
        <4>2. ASSUME NEW g \in T PROVE \E e \in M : f[e] = g
          <5>1. PICK e \in admissions :
                  g = (IF e.id = id THEN [e EXCEPT !.billable = FALSE] ELSE e) /\ g.at = e.at
            BY <1>6, ReconcileForgives DEF MinuteBefore
          <5>2. e \in M
            BY <3>1, <5>1 DEF MinuteBefore
          <5>. QED  BY <5>1, <5>2
        <4>. QED  BY <4>1, <4>2 DEF Surjection
      <3>5. IsFiniteSet(M)
        BY <1>1, PartOf DEF MinuteBefore
      <3>6. /\ Cardinality(T) <= Cardinality(M)
            /\ Cardinality(T) \in Nat /\ Cardinality(M) \in Nat
        <4>. HIDE DEF M, T, f
        <4>. QED  BY <3>4, <3>5, FS_Surjection, FS_CardinalityType
      <3>7. Cardinality(M) <= Rpm[d.who] /\ Rpm[d.who] \in Nat
        BY <1>1, <1>2, <3>3 DEF RateHeld
      <3>. QED  BY <3>2, <3>6, <3>7
    <2>. QED  BY <2>1 DEF RateHeld, MinuteBefore
  <1>. QED
    BY <1>4, <1>5, <1>6
       DEF Next, Tick, Refuse, Renew, Hold, Report, Release, KeptAdmissions, vars

-----------------------------------------------------------------------------
(* The ceilings.                                                           *)

\* The responses of an actor in the hour up to now, or later.
LEMMA UsageIsRows ==
  ASSUME TypeOK, Stamped, NEW who, NEW res, NEW now \in Int
  PROVE  /\ Usage(KeptAdmissions(now), who, res, now) = Usage(admissions, who, res, now)
         /\ Rows(Usage(admissions, who, res, now))
         /\ Cardinality(Usage(admissions, who, res, now)) \in Nat
         /\ \A a \in Usage(admissions, who, res, now) : a.at > now - Hour
  <1>1. \A a \in admissions : a.at \in Int /\ a.id \in Int
    BY DEF TypeOK
  <1>2. Usage(KeptAdmissions(now), who, res, now) = Usage(admissions, who, res, now)
    BY <1>1, WaitAssumption DEF Usage, KeptAdmissions
  <1>3. Usage(admissions, who, res, now) \in SUBSET admissions
    BY DEF Usage
  <1>4. /\ IsFiniteSet(Usage(admissions, who, res, now))
        /\ Cardinality(Usage(admissions, who, res, now)) \in Nat
    BY <1>3, PartOf DEF Stamped
  <1>. QED  BY <1>1, <1>2, <1>3, <1>4 DEF Usage, Rows, Stamped

\* The hold of an actor that has used up its limit lasts until a response ages
\* out: the wait is exact, and no other actor waits.
LEMMA ActorHoldExact ==
  ASSUME TypeOK, Stamped, NEW who, NEW res, NEW limit \in Nat \ {0}, NEW now \in Int
  PROVE  LET rows == Usage(admissions, who, res, now) IN
           IF Cardinality(rows) < limit THEN ActorHold(who, res, limit, now) = 0
           ELSE /\ ActorHold(who, res, limit, now) = AgesOut(rows, limit, now)
                /\ \E last \in rows : WaitsFor(last, rows, limit, now)
  <1>1. PICK rows : rows = Usage(admissions, who, res, now)
    OBVIOUS
  <1>2. /\ Usage(KeptAdmissions(now), who, res, now) = rows /\ Rows(rows)
        /\ Cardinality(rows) \in Nat /\ \A a \in rows : a.at > now - Hour
    BY <1>1, UsageIsRows
  <1>3. ActorHold(who, res, limit, now)
          = IF Cardinality(rows) < limit THEN 0 ELSE AgesOut(rows, limit, now)
    BY <1>2 DEF ActorHold, UnderCeiling
  <1>4. CASE Cardinality(rows) < limit
    BY <1>1, <1>3, <1>4
  <1>5. CASE ~(Cardinality(rows) < limit)
    <2>1. limit <= Cardinality(rows)
      BY <1>2, <1>5
    <2>2. \E last \in rows : WaitsFor(last, rows, limit, now)
      BY <1>2, <2>1, AgesOutExact
    <2>. QED  BY <1>1, <1>3, <1>5, <2>2
  <1>. QED  BY <1>4, <1>5

\* Who is admitted has room below its ceiling, counting what is younger too.
LEMMA AdmittedIsUnder ==
  ASSUME TypeOK, Stamped, NEW now \in Recent, NEW req \in Requests, ~Refused(req, now),
         NEW limit \in Nat \ {0}, Limit(req.who, req.res) = limit
  PROVE  Cardinality(Usage(admissions, req.who, req.res, now)) < limit
  <1>1. now \in Int /\ Hour \in Nat
    BY NowIsRecent, WaitAssumption
  <1>2. PICK rows : rows = Usage(admissions, req.who, req.res, now)
    OBVIOUS
  <1>. SUFFICES ASSUME ~(Cardinality(rows) < limit) PROVE FALSE
    BY <1>2
  <1>3. PICK last \in rows :
          /\ ActorHold(req.who, req.res, limit, now) = last.at + Hour - now
          /\ last.at + Hour - now >= 1
    <2>1. /\ ActorHold(req.who, req.res, limit, now) = AgesOut(rows, limit, now)
          /\ \E last \in rows : WaitsFor(last, rows, limit, now)
      BY <1>1, <1>2, ActorHoldExact
    <2>. QED  BY <2>1 DEF WaitsFor
  <1>4. ~(ActorHold(req.who, req.res, limit, now) > 0)
    BY DEF Refused
  <1>5. last.at \in Int
    BY <1>2 DEF Usage, TypeOK
  <1>. QED  BY <1>1, <1>3, <1>4, <1>5

\* Unknown requests share the pool and the ceiling of core.
LEMMA PoolsAgree ==
  ASSUME NEW who \in Consumers, NEW res \in Resources, NEW r \in Resources \cup {Unknown},
         r \in Pool(res)
  PROVE  Pool(r) = Pool(res) /\ Limit(who, r) = Ceiling[who][res]
  BY BudgetAssumption DEF Pool, Limit

LEMMA HoursStep == TypeOK /\ Stamped /\ HoursHeld /\ [Next]_vars => HoursHeld'
  <1>. SUFFICES ASSUME TypeOK, Stamped, HoursHeld, [Next]_vars,
                       NEW who \in Consumers, NEW res \in Resources, Ceiling[who][res] > 0,
                       NEW a \in Booked(who, res)'
                PROVE  Cardinality(HourBefore(who, res, a.at)') <= Ceiling[who][res]
    BY DEF HoursHeld, HourBefore, Usage
  <1>1. /\ IsFiniteSet(admissions) /\ Hour \in Nat
        /\ \A b \in admissions : b.at \in Int
    BY WaitAssumption DEF TypeOK, Stamped
  <1>2. PICK limit \in Nat \ {0} : Ceiling[who][res] = limit
    BY BudgetAssumption
  <1>3. ASSUME a \in Booked(who, res),
               HourBefore(who, res, a.at)' \in SUBSET HourBefore(who, res, a.at)
        PROVE  Cardinality(HourBefore(who, res, a.at)') <= limit
    <2>1. IsFiniteSet(HourBefore(who, res, a.at))
      BY <1>1, PartOf DEF HourBefore, Usage
    <2>2. Cardinality(HourBefore(who, res, a.at)) <= limit
      BY <1>2, <1>3 DEF HoursHeld
    <2>3. PICK S : S = HourBefore(who, res, a.at)'
      OBVIOUS
    <2>4. /\ Cardinality(S) <= Cardinality(HourBefore(who, res, a.at))
          /\ Cardinality(S) \in Nat /\ Cardinality(HourBefore(who, res, a.at)) \in Nat
      BY <1>3, <2>1, <2>3, PartOf
    <2>. QED  BY <2>2, <2>3, <2>4
  <1>4. ASSUME \A b \in admissions' : b.billable => b \in admissions
        PROVE  Cardinality(HourBefore(who, res, a.at)') <= limit
    BY <1>3, <1>4 DEF HourBefore, Usage, Booked
  <1>5. ASSUME NEW now \in Recent, NEW req \in Requests, Grant(req, now)
        PROVE  Cardinality(HourBefore(who, res, a.at)') <= limit
    <2>. DEFINE new == Booking(req, now)
    <2>1. /\ admissions' = KeptAdmissions(now) \cup {new} /\ KeptAdmissions(now) \subseteq admissions
          /\ new.who = req.who /\ new.res = req.res /\ new.at = now /\ ~Refused(req, now)
      BY <1>5, GrantBooks DEF Grant
    <2>. HIDE DEF new
    <2>2. now \in Nat /\ req.res \in Resources \cup {Unknown}
      BY NowIsRecent, RequestIsTyped
    <2>3. CASE new \notin HourBefore(who, res, a.at)'
      <3>1. a \in Booked(who, res)
        BY <1>1, <2>1, <2>2, <2>3, WaitAssumption DEF Booked, HourBefore, Usage
      <3>. QED  BY <1>3, <2>1, <2>3, <3>1 DEF HourBefore, Usage
    <2>4. CASE new \in HourBefore(who, res, a.at)'
      <3>1. req.who = who /\ req.res \in Pool(res) /\ now <= a.at
        BY <2>1, <2>4 DEF HourBefore, Usage
      <3>2. Pool(req.res) = Pool(res) /\ Limit(req.who, req.res) = limit
        BY <1>2, <2>2, <3>1, PoolsAgree
      <3>3. PICK rows : rows = Usage(admissions, req.who, req.res, now)
        OBVIOUS
      <3>4. Cardinality(rows) < limit
        BY <2>1, <3>2, <3>3, AdmittedIsUnder
      <3>5. IsFiniteSet(rows) /\ Cardinality(rows) \in Nat
        BY <1>1, <3>3, PartOf DEF Usage
      <3>6. HourBefore(who, res, a.at)' \in SUBSET (rows \cup {new})
        <4>1. a.at \in Int
          BY <1>1, <2>1, <2>2 DEF Booked
        <4>. QED  BY <1>1, <2>1, <2>2, <3>1, <3>2, <3>3, <4>1 DEF HourBefore, Usage
      <3>7. PICK S : S = HourBefore(who, res, a.at)'
        OBVIOUS
      <3>8. Cardinality(S) \in Nat /\ Cardinality(S) <= Cardinality(rows) + 1
        BY <3>5, <3>6, <3>7, OneMore
      <3>. QED  BY <3>4, <3>5, <3>7, <3>8
    <2>. QED  BY <2>3, <2>4
  <1>6. ASSUME NEW id \in calling, Reconcile(id)
        PROVE  \A b \in admissions' : b.billable => b \in admissions
    BY <1>6, ReconcileForgives
  <1>. QED
    BY <1>2, <1>4, <1>5, <1>6
       DEF Next, Tick, Refuse, Renew, Hold, Report, Release, KeptAdmissions, vars

\* The inductive invariant: who was admitted lately was seen lately, and every
\* minute and every hour that ends with an admission is within its limits.
THEOREM BudgetCorrect == Spec => [](TypeOK /\ BudgetInv)
  <1>1. Init => TypeOK /\ BudgetInv
    BY FS_EmptySet DEF Init, TypeOK, BudgetInv, Stamped, PolicySeen, RateHeld, HoursHeld, Booked
  <1>2. TypeOK /\ BudgetInv /\ [Next]_vars => (TypeOK /\ BudgetInv)'
    BY TypeStep, StampedStep, PolicyStep, RateStep, HoursStep DEF BudgetInv
  <1>. QED  BY <1>1, <1>2, PTL DEF Spec

\* No minute that ends with an admission holds more than any consumer in it
\* is allowed, whatever the policies of the others and however late the
\* commands commit.
THEOREM RateIsHeld == Spec => []RateHeld
  <1>1. BudgetInv => RateHeld
    BY DEF BudgetInv
  <1>. QED  BY <1>1, BudgetCorrect, PTL

\* No hour of an actor holds more billable responses than its ceiling, and the
\* wait that an exhausted actor is told ends exactly when one more is free,
\* whatever limit it asks with.
THEOREM CeilingIsHeld == Spec => []CeilingHeld
  <1>1. TypeOK /\ BudgetInv => CeilingHeld
    <2>. SUFFICES ASSUME TypeOK, BudgetInv PROVE CeilingHeld
      OBVIOUS
    <2>1. Stamped /\ HoursHeld /\ clock \in Int /\ Hour \in Nat
      BY WaitAssumption DEF BudgetInv, TypeOK
    <2>2. ASSUME NEW who \in Consumers, NEW res \in Resources, Ceiling[who][res] > 0,
                 NEW a \in Usage(admissions, who, res, clock)
          PROVE  Cardinality({b \in Usage(admissions, who, res, a.at) : b.at <= a.at})
                   <= Ceiling[who][res]
      BY <2>1, <2>2 DEF HoursHeld, HourBefore, Booked, Usage
    <2>3. ASSUME NEW who \in Consumers, NEW res \in Resources, NEW limit \in 1..MaxIssued,
                 ActorHold(who, res, limit, clock) > 0
          PROVE  LET wait == ActorHold(who, res, limit, clock)
                     used(t) == Cardinality(Usage(admissions, who, res, t))
                 IN /\ used(clock + wait - 1) >= limit
                    /\ used(clock + wait) < limit
                    /\ ResetAt(who, res, limit, clock) = clock + wait
      <3>1. limit \in Nat \ {0}
        OBVIOUS
      <3>2. PICK rows : rows = Usage(admissions, who, res, clock)
        OBVIOUS
      <3>3. PICK wait : wait = ActorHold(who, res, limit, clock)
        OBVIOUS
      <3>4. /\ Usage(KeptAdmissions(clock), who, res, clock) = rows
            /\ Cardinality(rows) \in Nat /\ \A a \in rows : a.at \in Int /\ a.at > clock - Hour
        BY <2>1, <3>2, UsageIsRows DEF Rows
      <3>5. /\ ~(Cardinality(rows) < limit)
            /\ wait = AgesOut(rows, limit, clock)
            /\ \E last \in rows : WaitsFor(last, rows, limit, clock)
        BY <2>1, <2>3, <3>1, <3>2, <3>3, ActorHoldExact
      <3>6. PICK last \in rows :
              /\ wait = last.at + Hour - clock
              /\ Cardinality({a \in rows : a.at > last.at}) < limit
              /\ Cardinality({a \in rows : a.at >= last.at}) >= limit
              /\ Cardinality(rows) = limit => \A a \in rows : last.at <= a.at
        BY <3>5 DEF WaitsFor
      <3>7. \A a \in admissions : a.at \in Int
        BY DEF TypeOK
      <3>8. /\ Usage(admissions, who, res, clock + wait - 1) = {a \in rows : a.at >= last.at}
            /\ Usage(admissions, who, res, clock + wait) = {a \in rows : a.at > last.at}
        <4>0. wait = last.at + Hour - clock /\ last.at \in Int /\ last.at > clock - Hour
          BY <3>4, <3>6
        <4>1. PICK t \in Int : t = last.at + Hour
          BY <2>1, <4>0
        <4>2. clock + wait = t /\ clock + wait - 1 = t - 1
          BY <2>1, <4>0, <4>1
        <4>3. \A a \in admissions :
                /\ a.at > t - 1 - Hour <=> a.at >= last.at
                /\ a.at > t - Hour <=> a.at > last.at
                /\ a.at >= last.at => a.at > clock - Hour
                /\ a.at > last.at => a.at > clock - Hour
          BY <2>1, <3>7, <4>0, <4>1
        <4>4. Usage(admissions, who, res, t - 1) = {a \in rows : a.at >= last.at}
          BY <3>2, <4>3, Zenon DEF Usage
        <4>5. Usage(admissions, who, res, t) = {a \in rows : a.at > last.at}
          BY <3>2, <4>3, Zenon DEF Usage
        <4>. QED  BY <4>2, <4>4, <4>5
      <3>9. ResetAt(who, res, limit, clock) = clock + wait
        <4>1. CASE Cardinality(rows) > limit
          BY <3>1, <3>4, <3>5, <4>1 DEF ResetAt
        <4>2. CASE ~(Cardinality(rows) > limit)
          <5>1. \A a \in rows : last.at <= a.at
            BY <3>1, <3>4, <3>5, <3>6, <4>2
          <5>2. MinOf({a.at : a \in rows}) = last.at
            BY <3>4, <5>1 DEF MinOf
          <5>3. ResetAt(who, res, limit, clock) = MinOf({a.at : a \in rows}) + Hour
            BY <3>4, <4>2 DEF ResetAt
          <5>. QED  BY <2>1, <3>4, <3>6, <5>2, <5>3
        <4>. QED  BY <4>1, <4>2
      <3>. QED  BY <3>3, <3>6, <3>8, <3>9
    <2>. QED  BY <2>2, <2>3 DEF CeilingHeld
  <1>. QED  BY <1>1, BudgetCorrect, PTL
=============================================================================
