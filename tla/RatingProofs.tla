---------------------------- MODULE RatingProofs ----------------------------
(***************************************************************************)
(* Nobody pays for a trunk of somebody else.  A leg is followed through    *)
(* the tariffication from the trunk of its route to the account it is      *)
(* charged to: by number the service of the number must be of the trunk's  *)
(* client, by trunk the order that is taken must be one of the trunk's     *)
(* services, wherever the sorting has put it.  Then the calls are followed *)
(* through memory, save, database, restart and recalculation.              *)
(***************************************************************************)
EXTENDS Rating, TarifficationProofs, WellFoundedInduction, FiniteSetTheorems

-----------------------------------------------------------------------------
(***************************************************************************)
(* Recursive functions over 0..n.  The induction is over a set of numbers: *)
(* a number that is not in the set would be a least one.                   *)
(***************************************************************************)

\* A set with 0 and with the successor of each of its numbers has all numbers.
LEMMA NatSet ==
  ASSUME NEW S, 0 \in S, \A n \in Nat : n \in S => n + 1 \in S
  PROVE  Nat \subseteq S
<1> DEFINE Bad == Nat \ S
           R == OpToRel(<, Nat)
<1>1. SUFFICES ASSUME Bad # {} PROVE FALSE
  OBVIOUS
<1>2. Bad \subseteq Nat
  OBVIOUS
<1>3. \E x \in Bad : \A y \in Bad : <<y, x>> \notin R
  <2> HIDE DEF Bad
  <2> QED BY <1>1, <1>2, NatLessThanWellFounded, WFMin
<1>4. PICK x \in Bad : \A y \in Bad : <<y, x>> \notin R
  BY <1>3
<1>5. x # 0 /\ x - 1 \in Nat /\ x - 1 + 1 = x
  OBVIOUS
<1>6. x - 1 \notin Bad
  <2>1. \A a, b \in Nat : a < b => <<a, b>> \in R
    BY DEF OpToRel
  <2>2. <<x - 1, x>> \in R
    <3> HIDE DEF R
    <3> QED BY <1>5, <2>1
  <2> HIDE DEF R
  <2> QED BY <1>4, <2>2
<1> QED BY <1>5, <1>6

\* The same up to n.
LEMMA UpTo ==
  ASSUME NEW n \in Nat, NEW S, 0 \in S, \A k \in 1..n : k - 1 \in S => k \in S
  PROVE  0..n \subseteq S
<1> DEFINE T == {k \in Nat : k <= n => k \in S}
<1>1. 0 \in T
  OBVIOUS
<1>2. ASSUME NEW k \in Nat, k \in T PROVE k + 1 \in T
  <2>1. k + 1 <= n => k + 1 \in 1..n /\ (k + 1) - 1 = k /\ k <= n
    OBVIOUS
  <2> QED BY <1>2, <2>1
<1>3. Nat \subseteq T
  <2> HIDE DEF T
  <2> QED BY <1>1, <1>2, NatSet
<1> QED BY <1>3

\* Values that follow from each other step by step, from a first one on, exist.
StepsFrom(f, n, base, step) == f[0] = base /\ \A k \in 1..n : f[k] = step[k][f[k - 1]]

LEMMA Recursion ==
  ASSUME NEW X, NEW n \in Nat, NEW base \in X, NEW step \in [1..n -> [X -> X]]
  PROVE  \E f \in [0..n -> X] : StepsFrom(f, n, base, step)
<1> DEFINE Fits(f, k) == f[0] = base /\ \A i \in 1..k : f[i] = step[i][f[i - 1]]
           Good == {k \in 0..n : \E f \in [0..k -> X] : Fits(f, k)}
<1>1. 0 \in Good
  <2> DEFINE f == [i \in 0..0 |-> base]
  <2>1. f \in [0..0 -> X] /\ Fits(f, 0)
    OBVIOUS
  <2> HIDE DEF f, Fits
  <2> QED BY <2>1
<1>2. ASSUME NEW k \in 1..n, k - 1 \in Good PROVE k \in Good
  <2>1. PICK g \in [0..(k - 1) -> X] : Fits(g, k - 1)
    BY <1>2
  <2> DEFINE new == step[k][g[k - 1]]
             f == [i \in 0..k |-> IF i = k THEN new ELSE g[i]]
  <2>2. new \in X
    <3>1. g[k - 1] \in X
      OBVIOUS
    <3> QED BY <3>1
  <2>3. f \in [0..k -> X] /\ f[k] = new /\ \A i \in 0..(k - 1) : f[i] = g[i]
    BY <2>2
  <2> HIDE DEF f
  <2>4. Fits(f, k)
    <3>1. f[0] = base
      BY <2>1, <2>3
    <3>2. ASSUME NEW i \in 1..k PROVE f[i] = step[i][f[i - 1]]
      <4>1. f[i - 1] = g[i - 1]
        BY <2>3
      <4>2. CASE i = k
        BY <2>3, <4>1, <4>2
      <4>3. CASE i # k
        <5>1. i \in 1..(k - 1) /\ f[i] = g[i]
          BY <2>3, <4>3
        <5> QED BY <2>1, <4>1, <5>1
      <4> QED BY <4>2, <4>3
    <3> QED BY <3>1, <3>2
  <2> HIDE DEF Fits
  <2> QED BY <2>3, <2>4
<1>3. 0..n \subseteq Good
  <2> HIDE DEF Good
  <2> QED BY <1>1, <1>2, UpTo
<1>4. n \in Good
  <2> HIDE DEF Good
  <2> QED BY <1>3
<1> QED BY <1>4 DEF StepsFrom

\* Lists that are joined one after another make a list of the same things.
LEMMA JoinedLists ==
  ASSUME NEW S, NEW n \in Nat, NEW lists, \A i \in 1..n : lists[i] \in Seq(S)
  PROVE  Joined(n, lists) \in Seq(S)
<1> DEFINE X == Seq(S)
           Step(k, l) == l \o lists[k]
           step == [k \in 1..n |-> [l \in X |-> Step(k, l)]]
           Chain(f) == f = [k \in 0..n |-> IF k = 0 THEN <<>> ELSE Step(k, f[k - 1])]
           g == CHOOSE g : Chain(g)
<1>1. <<>> \in X /\ \A k \in 1..n, l \in X : Step(k, l) \in X
  OBVIOUS
<1>2. Joined(n, lists) = g[n]
  BY DEF Joined
<1> HIDE DEF X, Step
<1>3. step \in [1..n -> [X -> X]] /\ \A k \in 1..n, l \in X : step[k][l] = Step(k, l)
  BY <1>1
<1> HIDE DEF step
<1>4. PICK f \in [0..n -> X] : StepsFrom(f, n, <<>>, step)
  BY <1>1, <1>3, Recursion
<1>5. Chain(f)
  <2>1. \A k \in 1..n : f[k - 1] \in X /\ f[k] = Step(k, f[k - 1])
    BY <1>3, <1>4 DEF StepsFrom
  <2>2. \A k \in 0..n : f[k] = IF k = 0 THEN <<>> ELSE Step(k, f[k - 1])
    BY <1>4, <2>1 DEF StepsFrom
  <2> QED BY <2>2
<1>6. Chain(g)
  <2> HIDE DEF Chain
  <2> QED BY <1>5
<1> HIDE DEF g
<1> DEFINE Good == {k \in 0..n : g[k] \in X}
<1>7. 0 \in Good
  BY <1>1, <1>6
<1>8. ASSUME NEW k \in 1..n, k - 1 \in Good PROVE k \in Good
  <2>1. g[k] = Step(k, g[k - 1])
    BY <1>6
  <2> QED BY <1>1, <1>8, <2>1
<1>9. 0..n \subseteq Good
  <2> HIDE DEF Good
  <2> QED BY <1>7, <1>8, UpTo
<1> QED BY <1>2, <1>9 DEF X

\* Insertion sort puts positions of the list, and nothing else, in an order.
LEMMA ArrangedPositions ==
  ASSUME NEW n \in Nat, NEW less
  PROVE  Arranged(n, less) \in [1..n -> 1..n]
<1> DEFINE X == [1..n -> 1..n]
           At(k, done) == Cardinality({i \in 1..(k - 1) : <<k, done[i]>> \notin less})
           Step(k, done) == [i \in 1..n |-> IF i <= At(k, done) \/ i > k THEN done[i]
                                            ELSE IF i = At(k, done) + 1 THEN k ELSE done[i - 1]]
           first == [i \in 1..n |-> i]
           step == [k \in 1..n |-> [l \in X |-> Step(k, l)]]
           Chain(f) == f = [k \in 0..n |-> IF k = 0 THEN first ELSE Step(k, f[k - 1])]
           g == CHOOSE g : Chain(g)
<1>1. ASSUME NEW k \in 1..n, NEW done \in X PROVE Step(k, done) \in X
  <2>1. At(k, done) \in Nat
    <3>1. IsFiniteSet(1..(k - 1))
      BY FS_Interval
    <3>2. IsFiniteSet({i \in 1..(k - 1) : <<k, done[i]>> \notin less})
      BY <3>1, FS_Subset
    <3> QED BY <3>2, FS_CardinalityType
  <2> HIDE DEF At
  <2> QED BY <2>1
<1>2. first \in X
  OBVIOUS
<1>3. Arranged(n, less) = g[n]
  BY DEF Arranged
<1> HIDE DEF X, Step, first
<1>4. step \in [1..n -> [X -> X]] /\ \A k \in 1..n, l \in X : step[k][l] = Step(k, l)
  BY <1>1
<1> HIDE DEF step
<1>5. PICK f \in [0..n -> X] : StepsFrom(f, n, first, step)
  BY <1>2, <1>4, Recursion
<1>6. Chain(f)
  <2>1. \A k \in 1..n : f[k - 1] \in X /\ f[k] = Step(k, f[k - 1])
    BY <1>4, <1>5 DEF StepsFrom
  <2>2. \A k \in 0..n : f[k] = IF k = 0 THEN first ELSE Step(k, f[k - 1])
    BY <1>5, <2>1 DEF StepsFrom
  <2> QED BY <2>2
<1>7. Chain(g)
  <2> HIDE DEF Chain
  <2> QED BY <1>6
<1> HIDE DEF g
<1> DEFINE Good == {k \in 0..n : g[k] \in X}
<1>8. 0 \in Good
  BY <1>2, <1>7
<1>9. ASSUME NEW k \in 1..n, k - 1 \in Good PROVE k \in Good
  <2>1. g[k] = Step(k, g[k - 1])
    BY <1>7
  <2> QED BY <1>1, <1>9, <2>1
<1>10. 0..n \subseteq Good
  <2> HIDE DEF Good
  <2> QED BY <1>8, <1>9, UpTo
<1>11. g[n] \in X
  BY <1>10
<1> QED BY <1>3, <1>11 DEF X

\* So a sorted list is a list of the same things, as long as the list was.
LEMMA ArrangedList ==
  ASSUME NEW S, NEW list \in Seq(S), NEW less
  PROVE  LET n == Len(list)
             sorted == [i \in 1..n |-> list[Arranged(n, less)[i]]]
         IN sorted \in Seq(S) /\ Len(sorted) = n
BY ArrangedPositions

-----------------------------------------------------------------------------
(* The orders of a trunk.                                                  *)

ServicesOf(r, trunk_id) == {x \in r.service_trunk : x.trunk_id = trunk_id}
\* The services of a trunk and their settings are found.
TrunkFinds(r, trunk) ==
  /\ getAllServiceTrunk(r, trunk.id) \in Seq(ServicesOf(r, trunk.id))
  /\ \A x \in r.service_trunk,
        type \in {SERVICE_TRUNK_SETTINGS_ORIGINATION, SERVICE_TRUNK_SETTINGS_TERMINATION} :
       getAllServiceTrunkSettings(r, x.id, type) \in Seq(r.service_trunk_settings)

\* Orders by services of the trunk.
TrunkOrders(r, trunk, src, dst) ==
  {o \in {SettingsOrder(r, trunk, s, x, src, dst)[1] :
            s \in ServicesOf(r, trunk.id), x \in r.service_trunk_settings} :
     o.serviceTrunk \in ServicesOf(r, trunk.id)}

\* A setting gives no order, or one by its own service (getTrunkSettingsOrderList).
LEMMA OneOrder ==
  ASSUME NEW r, NEW trunk, NEW service, NEW settings, NEW src, NEW dst
  PROVE  LET list == SettingsOrder(r, trunk, service, settings, src, dst)
         IN list = <<>> \/ \E o : list = <<o>> /\ o.serviceTrunk = service
<1> DEFINE list == SettingsOrder(r, trunk, service, settings, src, dst)
           account == getAccount(r, service.client_account_id)
           order == ServiceTrunkOrder(trunk, account, service, settings)
           Of(o) == o.serviceTrunk = service
<1>1. "serviceTrunk" \in DOMAIN order /\ order.serviceTrunk = service
  BY DEF ServiceTrunkOrder
<1> HIDE DEF order
<1>2. ASSUME NEW x, NEW y PROVE Of([order EXCEPT !.pricelist = x, !.price = y])
  BY <1>1
<1>3. ASSUME NEW a, NEW b, NEW c, NEW e
      PROVE  Of([order EXCEPT !.nnpPackagePricelist = a, !.nnpPackagePrice = b, !.nnpPackage = c,
                              !.nnp_price = e])
  BY <1>1
<1>4. ASSUME NEW dest
      PROVE  LET nnp == NNPOrder(r, order, dest, dst) IN nnp = <<>> \/ \E o : nnp = <<o>> /\ Of(o)
  <2> DEFINE With(a, b, c, e) == [order EXCEPT !.nnpPackagePricelist = a, !.nnpPackagePrice = b,
                                               !.nnpPackage = c, !.nnp_price = e]
  <2>1. \/ NNPOrder(r, order, dest, dst) = <<>>
        \/ \E a, b, c, e : NNPOrder(r, order, dest, dst) = <<With(a, b, c, e)>>
    BY ZenonT(30) DEF NNPOrder
  <2> HIDE DEF With, Of
  <2>2. \A a, b, c, e : Of(With(a, b, c, e))
    BY <1>3 DEF With
  <2> QED BY <2>1, <2>2
<1>5. list = <<>> \/ (\E x, y : list = <<[order EXCEPT !.pricelist = x, !.price = y]>>)
        \/ (\E dest : list = NNPOrder(r, order, dest, dst))
  <2> DEFINE pricelist == getPricelist(r, settings.pricelist_id)
             priced == <<[order EXCEPT !.pricelist = pricelist, !.price = SettingsPrice(r, pricelist, dst)]>>
             nnp == NNPOrder(r, order, getNNPDestinationByNum(r, dst), dst)
  <2>1. list \in {<<>>, priced, nnp}
    BY DEF SettingsOrder, order
  <2>2. \E x, y : priced = <<[order EXCEPT !.pricelist = x, !.price = y]>>
    BY Zenon
  <2> HIDE DEF list, priced
  <2> QED BY <2>1, <2>2
<1> HIDE DEF Of, list
<1>6. list = <<>> \/ \E o : list = <<o>> /\ Of(o)
  BY <1>2, <1>4, <1>5
<1> QED BY <1>6 DEF Of, list

\* All the orders of a trunk are by services of this trunk,
LEMMA OrdersOfServices ==
  ASSUME NEW r, NEW trunk, NEW src, NEW dst, TrunkFinds(r, trunk),
         NEW type \in {SERVICE_TRUNK_SETTINGS_ORIGINATION, SERVICE_TRUNK_SETTINGS_TERMINATION}
  PROVE  getTrunkSettingsOrderList(r, trunk, src, dst, type) \in Seq(TrunkOrders(r, trunk, src, dst))
<1> DEFINE S == TrunkOrders(r, trunk, src, dst)
           services == getAllServiceTrunk(r, trunk.id)
           count == Len(services)
           All(s) == getAllServiceTrunkSettings(r, s.id, type)
           Orders(s) == [j \in 1..Len(All(s)) |-> SettingsOrder(r, trunk, s, All(s)[j], src, dst)]
           OfService(s) == Joined(Len(All(s)), Orders(s))
           lists == [i \in 1..count |-> OfService(services[i])]
<1>1. ASSUME NEW s \in ServicesOf(r, trunk.id), NEW x \in r.service_trunk_settings
      PROVE  SettingsOrder(r, trunk, s, x, src, dst) \in Seq(S)
  <2> DEFINE list == SettingsOrder(r, trunk, s, x, src, dst)
  <2>1. CASE list = <<>>
    BY <2>1
  <2>2. CASE list # <<>>
    <3>1. PICK o : list = <<o>> /\ o.serviceTrunk = s
      BY <2>2, OneOrder
    <3>2. list[1] \in {SettingsOrder(r, trunk, y, z, src, dst)[1] :
                         y \in ServicesOf(r, trunk.id), z \in r.service_trunk_settings}
      OBVIOUS
    <3> HIDE DEF list
    <3>3. o \in S
      BY <3>1, <3>2 DEF TrunkOrders
    <3>4. <<o>> \in Seq(S)
      <4> HIDE DEF S
      <4> QED BY <3>3
    <3> QED BY <3>1, <3>4 DEF list
  <2> QED BY <2>1, <2>2
<1>2. ASSUME NEW s \in ServicesOf(r, trunk.id) PROVE OfService(s) \in Seq(S)
  <2>1. All(s) \in Seq(r.service_trunk_settings)
    BY DEF TrunkFinds, ServicesOf
  <2> HIDE DEF All, S
  <2>2. Len(All(s)) \in Nat /\ \A j \in 1..Len(All(s)) : Orders(s)[j] \in Seq(S)
    BY <1>1, <2>1
  <2> HIDE DEF Orders
  <2> QED BY <2>2, JoinedLists
<1>3. services \in Seq(ServicesOf(r, trunk.id))
  BY DEF TrunkFinds
<1>4. getTrunkSettingsOrderList(r, trunk, src, dst, type) = Joined(count, lists)
  BY DEF getTrunkSettingsOrderList
<1> HIDE DEF OfService, services, S
<1>5. count \in Nat /\ \A i \in 1..count : lists[i] \in Seq(S)
  BY <1>2, <1>3
<1> HIDE DEF lists, count
<1>6. Joined(count, lists) \in Seq(S)
  BY <1>5, JoinedLists
<1> QED BY <1>4, <1>6 DEF S

LEMMA TrunkOrdersOwn ==
  ASSUME NEW r, NEW trunk, NEW src, NEW dst, NEW o \in TrunkOrders(r, trunk, src, dst)
  PROVE  o.serviceTrunk \in ServicesOf(r, trunk.id)
BY DEF TrunkOrders

\* and sorting them, for either leg, adds no others.
LEMMA OrigSorted ==
  ASSUME NEW r, NEW S, NEW list \in Seq(S)
  PROVE  orderOrigTrunkSettingsOrderList(r, list) \in Seq(S)
<1> DEFINE n == Len(list)
           less == {p \in (1..n) \X (1..n) : trunkOrderLessThan(r, list[p[1]], list[p[2]])}
<1>1. orderOrigTrunkSettingsOrderList(r, list) = [i \in 1..n |-> list[Arranged(n, less)[i]]]
  BY DEF orderOrigTrunkSettingsOrderList, sort
<1> HIDE DEF less
<1> QED BY <1>1, ArrangedList

LEMMA TermSorted ==
  ASSUME NEW r, NEW S, NEW list \in Seq(S), NEW min, NEW used
  PROVE  LET sorted == orderTermTrunkSettingsOrderList(r, list, min, used)
         IN sorted \in Seq(S) /\ Len(sorted) = Len(list)
<1> DEFINE n == Len(list)
           Below(o) == min /\ BelowMinimum(o, used)
           Before(a, b) == IF Below(a) = Below(b) THEN trunkOrderLessThan(r, a, b) ELSE Below(a)
           less == {p \in (1..n) \X (1..n) : Before(list[p[1]], list[p[2]])}
           half == [i \in 1..n |-> list[Arranged(n, less)[i]]]
           k == Len(half)
           prior == {p \in (1..k) \X (1..k) : half[p[1]].priority > half[p[2]].priority}
           all == [i \in 1..k |-> half[Arranged(k, prior)[i]]]
<1>1. orderTermTrunkSettingsOrderList(r, list, min, used) = all
  BY DEF orderTermTrunkSettingsOrderList, sort
<1> HIDE DEF less
<1>2. half \in Seq(S) /\ k = n
  BY ArrangedList
<1> HIDE DEF half, prior
<1>3. all \in Seq(S) /\ Len(all) = k
  BY <1>2, ArrangedList
<1> QED BY <1>1, <1>2, <1>3

-----------------------------------------------------------------------------
(* One leg: from its trunk to the account it is charged to.                *)

\* Nothing is charged yet.
Free(s) == s.call.cost = 0 /\ s.call.package_time = 0
\* Steps that charge nothing and find no service.
Neutral(s, t) ==
  Shape(s) => /\ t.call.cost = s.call.cost /\ t.call.package_time = s.call.package_time
              /\ t.info.serviceNumber = s.info.serviceNumber /\ t.info.serviceTrunk = s.info.serviceTrunk

\* Steps before a service is looked for.
LEMMA N_processSignalingCallId ==
  ASSUME NEW s
  PROVE  Neutral(s, processSignalingCallId(s))
BY DEF Neutral, Shape, processSignalingCallId

LEMMA N_numberPreprocessing ==
  ASSUME NEW s
  PROVE  Neutral(s, numberPreprocessing(s))
BY DEF Neutral, Shape, numberPreprocessing

LEMMA N_processLineWithoutNumber ==
  ASSUME NEW s, NEW t
  PROVE  Neutral(s, processLineWithoutNumber(s, t))
BY DEF Neutral, Shape, processLineWithoutNumber

LEMMA N_processRedirectNumber ==
  ASSUME NEW s
  PROVE  Neutral(s, processRedirectNumber(s))
BY DEF Neutral, Shape, processRedirectNumber, processLineWithoutNumber

LEMMA N_processGeo ==
  ASSUME NEW s
  PROVE  Neutral(s, processGeo(s))
BY DEF Neutral, Shape, processGeo

LEMMA N_processDestinations ==
  ASSUME NEW s
  PROVE  Neutral(s, processDestinations(s))
BY DEF Neutral, Shape, processDestinations

LEMMA N_processNNP ==
  ASSUME NEW s
  PROVE  Neutral(s, processNNP(s))
BY DEF Neutral, Shape, processNNP

LEMMA N_setVatFlag ==
  ASSUME NEW s
  PROVE  Neutral(s, setVatFlag(s))
BY DEF Neutral, Shape, setVatFlag

LEMMA N_setupServiceTrunk ==
  ASSUME NEW s
  PROVE  Neutral(s, setupServiceTrunk(s))
BY DEF Neutral, Shape, setupServiceTrunk, Need, Throw

LEMMA N_setupAccount ==
  ASSUME NEW s
  PROVE  Neutral(s, setupAccount(s))
BY DEF Neutral, Shape, setupAccount, Need, Throw

\* A leg on its trunk, for which nothing has been found yet.
Begun(s, r, id, trunk) ==
  /\ Blank(s) /\ s.r = r /\ s.call.cdr_id = id
  /\ s.stop = "" => trunk # nullptr /\ s.info.trunk = trunk /\ s.call.trunk_id = trunk.id

\* A leg that charges nothing, or charges the client of its trunk.
Right(s, trunk) ==
  /\ trunk # nullptr /\ s.info.trunk = trunk /\ s.call.trunk_id = trunk.id
  /\ trunk.our_trunk \/ s.call.account_id \in {x.client_account_id : x \in ServicesOf(s.r, trunk.id)}

\* What the lemmas below show of a rated leg.
Rated(s, r, id, trunk) ==
  /\ Shape(s) /\ s.r = r /\ s.call.cdr_id = id
  /\ Free(s) \/ Right(s, trunk)

LEMMA BegunKept ==
  ASSUME NEW s, NEW t, NEW r, NEW id, NEW trunk, Begun(s, r, id, trunk), s.stop = "",
         Keeps(s, t), Neutral(s, t)
  PROVE  Begun(t, r, id, trunk)
BY DEF Begun, Blank, Keeps, Neutral

\* setupTrunk finds the trunk of the leg's route, or throws.
LEMMA TrunkBegins ==
  ASSUME NEW s, Blank(s)
  PROVE  Begun(setupTrunk(s), s.r, s.call.cdr_id, getTrunkByName(s.r, getRoute(s), s.r.origRegion))
<1> DEFINE trunk == getTrunkByName(s.r, getRoute(s), s.r.origRegion)
           a == [s EXCEPT !.info.trunk = trunk, !.call.server_id = s.r.instance_id]
           b == [a EXCEPT !.call.trunk_id = trunk.id, !.call.our = trunk.our_trunk \/ trunk.auth_by_number,
                          !.info.server = getServer(s.r, trunk.server_id)]
           c == [b EXCEPT !.call.server_id = trunk.server_id,
                          !.info.instanceSettings = getInstanceSettings(s.r, trunk.server_id)]
           Good(x) == Blank(x) /\ x.r = s.r /\ x.call.cdr_id = s.call.cdr_id
           On(x) == x.info.trunk = trunk /\ x.call.trunk_id = trunk.id
<1>1. Good(a) /\ a.info.trunk = trunk
  <2> HIDE DEF trunk
  <2> QED BY DEF Blank, Shape
<1>2. Good(b) /\ On(b)
  <2> HIDE DEF trunk, a
  <2> QED BY <1>1 DEF Blank, Shape
<1>3. Good(c) /\ On(c)
  <2> HIDE DEF trunk, b
  <2> QED BY <1>2 DEF Blank, Shape
<1>4. \/ setupTrunk(s) = Throw(a, "TRUNK WAS NOT FOUND")
      \/ setupTrunk(s) = Throw(b, "SERVER WAS NOT FOUND")
      \/ setupTrunk(s) = Throw(c, "INSTANCESETTINGS WAS NOT FOUND")
      \/ setupTrunk(s) = c /\ trunk # nullptr
  BY DEF setupTrunk, Need
<1> HIDE DEF a, b, c, trunk
<1>5. ASSUME NEW x, Good(x), NEW w, w # "" PROVE Good(Throw(x, w)) /\ Throw(x, w).stop # ""
  BY <1>5 DEF Blank, Shape, Throw
<1>6. "TRUNK WAS NOT FOUND" # "" /\ "SERVER WAS NOT FOUND" # "" /\ "INSTANCESETTINGS WAS NOT FOUND" # ""
  OBVIOUS
<1>7. ASSUME NEW x, Good(x), x.stop # "" PROVE Begun(x, s.r, s.call.cdr_id, trunk)
  BY <1>7 DEF Begun
<1>8. ASSUME NEW x, Good(x), On(x), trunk # nullptr PROVE Begun(x, s.r, s.call.cdr_id, trunk)
  BY <1>8 DEF Begun
<1>9. ASSUME setupTrunk(s) = c, trunk # nullptr PROVE Begun(setupTrunk(s), s.r, s.call.cdr_id, trunk)
  BY <1>3, <1>8, <1>9
<1>10. ASSUME ~(setupTrunk(s) = c /\ trunk # nullptr)
       PROVE  Begun(setupTrunk(s), s.r, s.call.cdr_id, trunk)
  <2> HIDE DEF Good
  <2> QED BY <1>1, <1>2, <1>3, <1>4, <1>5, <1>6, <1>7, <1>10
<1> QED BY <1>9, <1>10 DEF trunk

\* Up to the choice between trunk and number.
LEMMA PlacedBegins ==
  ASSUME NEW s, Blank(s)
  PROVE  Begun(Placed(s), s.r, s.call.cdr_id, getTrunkByName(s.r, getRoute(s), s.r.origRegion))
<1> DEFINE r == s.r
           id == s.call.cdr_id
           trunk == getTrunkByName(s.r, getRoute(s), s.r.origRegion)
           Good(x) == Begun(x, r, id, trunk)
<1>1. Good(setupTrunk(s))
  BY TrunkBegins
<1> HIDE DEF r, id, trunk
<1>2. ASSUME NEW x, NEW y, Good(x), x.stop = "", Keeps(x, y), Neutral(x, y) PROVE Good(y)
  BY <1>2, BegunKept
<1> HIDE DEF Good
<1>3. Good(OnTrunk(s))
  BY <1>1, <1>2, K_processSignalingCallId, K_numberPreprocessing, K_processRedirectNumber,
     N_processSignalingCallId, N_numberPreprocessing, N_processRedirectNumber DEF OnTrunk, Then
<1>4. Good(Placed(s))
  BY <1>2, <1>3, K_processGeo, K_processDestinations, K_processNNP, N_processGeo,
     N_processDestinations, N_processNNP
     DEF Placed, Then
<1> QED BY <1>4 DEF Good, r, id, trunk

LEMMA RightKept ==
  ASSUME NEW s, NEW t, NEW trunk, Shape(s), Right(s, trunk), Keeps(s, t)
  PROVE  Right(t, trunk)
BY DEF Right, Keeps

\* The account of the services.
\* setupAccount takes the client of the number, else of the trunk's service.
LEMMA AccountOfService ==
  ASSUME NEW s, Shape(s), NEW owner,
         \/ s.info.serviceNumber # nullptr /\ s.info.serviceNumber.client_account_id = owner
         \/ /\ s.info.serviceNumber = nullptr /\ s.info.serviceTrunk # nullptr
            /\ s.info.serviceTrunk.client_account_id = owner
  PROVE  LET t == setupAccount(s)
         IN t.stop = "" => t.call.account_id = owner
<1> DEFINE account == getAccount(s.r, owner)
           a == [s EXCEPT !.info.account = account]
           b == [a EXCEPT !.call.account_id = account.id, !.call.account_version = account.account_version]
<1>1. setupAccount(s) = IF account = nullptr THEN Throw(a, "ACCOUNT WAS NOT FOUND") ELSE b
  BY DEF setupAccount, Need
<1>2. account # nullptr => account.id = owner
  BY FoundById DEF getAccount
<1> HIDE DEF account
<1>3. Shape(a)
  BY DEF Shape
<1>4. Throw(a, "ACCOUNT WAS NOT FOUND").stop # ""
  BY <1>3 DEF Shape, Throw
<1>5. b.call.account_id = account.id
  <2> HIDE DEF a
  <2> QED BY <1>3 DEF Shape
<1> HIDE DEF a, b
<1> QED BY <1>1, <1>2, <1>4, <1>5

LEMMA AccountKeepsTrunk ==
  ASSUME NEW s, Shape(s)
  PROVE  LET t == setupAccount(s)
         IN /\ Shape(t) /\ t.r = s.r /\ t.call.cdr_id = s.call.cdr_id
            /\ t.info.trunk = s.info.trunk /\ t.call.trunk_id = s.call.trunk_id
BY DEF Shape, setupAccount, Need, Throw

\* Uncharged leg with the services.
Serviced(s, r, id, trunk) ==
  /\ Shape(s) /\ Free(s) /\ s.r = r /\ s.call.cdr_id = id
  /\ trunk # nullptr /\ s.info.trunk = trunk /\ s.call.trunk_id = trunk.id
  /\ s.stop = "" =>
       \/ trunk.our_trunk
       \/ \E x \in ServicesOf(r, trunk.id) :
            \/ s.info.serviceNumber # nullptr /\ s.info.serviceNumber.client_account_id = x.client_account_id
            \/ s.info.serviceNumber = nullptr /\ s.info.serviceTrunk = x /\ x # nullptr

\* The account is a client of the trunk, unless the trunk is our own.
LEMMA AccountIsOwner ==
  ASSUME NEW s, NEW r, NEW id, NEW trunk, Serviced(s, r, id, trunk)
  PROVE  LET t == Then(s, setupAccount)
         IN Shape(t) /\ t.r = r /\ t.call.cdr_id = id /\ Free(t) /\ (t.stop = "" => Right(t, trunk))
<1>1. CASE s.stop # ""
  BY <1>1 DEF Then, Serviced
<1>2. CASE s.stop = ""
  <2> DEFINE t == setupAccount(s)
  <2>1. Shape(t) /\ t.r = r /\ t.call.cdr_id = id /\ t.info.trunk = trunk /\ t.call.trunk_id = trunk.id
    BY AccountKeepsTrunk DEF Serviced
  <2>2. Free(t)
    BY N_setupAccount DEF Serviced, Neutral, Free
  <2>3. ASSUME t.stop = "", ~trunk.our_trunk
        PROVE  t.call.account_id \in {x.client_account_id : x \in ServicesOf(r, trunk.id)}
    <3>1. PICK x \in ServicesOf(r, trunk.id) :
            \/ s.info.serviceNumber # nullptr /\ s.info.serviceNumber.client_account_id = x.client_account_id
            \/ s.info.serviceNumber = nullptr /\ s.info.serviceTrunk = x /\ x # nullptr
      BY <1>2, <2>3 DEF Serviced
    <3>2. t.call.account_id = x.client_account_id
      BY <2>3, <3>1, AccountOfService DEF Serviced
    <3> QED BY <3>2
  <2> HIDE DEF t
  <2>4. t.stop = "" => Right(t, trunk)
    BY <2>1, <2>3 DEF Right, Serviced
  <2>5. Then(s, setupAccount) = t
    BY <1>2 DEF Then, t
  <2> QED BY <2>1, <2>2, <2>4, <2>5
<1> QED BY <1>1, <1>2

\* A leg on its trunk that goes on.
Ready(s, r, id, trunk) ==
  /\ Blank(s) /\ s.r = r /\ s.call.cdr_id = id
  /\ trunk # nullptr /\ s.info.trunk = trunk /\ s.call.trunk_id = trunk.id

\* A leg that goes on by number has a service number ...
LEMMA NumberFound ==
  ASSUME NEW s, Shape(s), Free(s)
  PROVE  LET t == setupServiceNumber(s)
         IN Free(t) /\ (t.stop = "" => t.info.serviceNumber # nullptr)
<1> DEFINE service == getServiceNumber(s.r, getOwnNumber(s))
           a == [s EXCEPT !.info.serviceNumber = service]
           b == [a EXCEPT !.call.number_service_id = service.id]
<1>1. setupServiceNumber(s) = IF service = nullptr THEN Throw(a, "SERVICE NUMBER WAS NOT FOUND") ELSE b
  BY DEF setupServiceNumber, Need
<1> HIDE DEF service
<1>2. Shape(a) /\ Free(a) /\ a.info.serviceNumber = service
  BY DEF Shape, Free
<1> HIDE DEF a
<1>3. Free(b) /\ b.info.serviceNumber = service
  BY <1>2 DEF Shape, Free
<1>4. Throw(a, "SERVICE NUMBER WAS NOT FOUND").stop # "" /\ Free(Throw(a, "SERVICE NUMBER WAS NOT FOUND"))
  BY <1>2 DEF Shape, Free, Throw
<1> HIDE DEF b
<1> QED BY <1>1, <1>3, <1>4

\* ... and the client of the trunk's service, unless the trunk is our own.
LEMMA NumberOnTrunk ==
  ASSUME NEW s, Shape(s), Free(s), s.info.serviceNumber # nullptr, TrunkFinds(s.r, s.info.trunk)
  PROVE  LET t == setupServiceTrunkForNumber(s)
         IN /\ Free(t) /\ t.info.serviceNumber = s.info.serviceNumber
            /\ t.stop = "" => \/ s.info.trunk.our_trunk
                              \/ \E x \in ServicesOf(s.r, s.info.trunk.id) :
                                   s.info.serviceNumber.client_account_id = x.client_account_id
<1> DEFINE trunk == s.info.trunk
           number == s.info.serviceNumber
           service == getServiceTrunk(s.r, trunk.id)
           a == [s EXCEPT !.info.serviceTrunk = service]
           b(y) == [a EXCEPT !.call.trunk_service_id = y]
           t == setupServiceTrunkForNumber(s)
           Good(x) == Shape(x) /\ Free(x) /\ x.info.serviceNumber = s.info.serviceNumber
<1>1. service # nullptr => service \in ServicesOf(s.r, trunk.id)
  BY DEF TrunkFinds, getServiceTrunk, First
<1>2. \/ t = Throw(a, "SERVICE TRUNK WAS NOT FOUND")
      \/ t = Throw(a, "SERVICE NUMBER ACCOUNT DIFFERENT FROM SERVICE TRUNK_ACCOUNT")
      \/ /\ trunk.our_trunk \/ (service # nullptr /\ number.client_account_id = service.client_account_id)
         /\ \E y : t = b(y)
  <2> DEFINE y0 == IF service = nullptr THEN a.call.trunk_service_id ELSE service.id
  <2>1. \/ t = Throw(a, "SERVICE TRUNK WAS NOT FOUND")
        \/ t = Throw(a, "SERVICE NUMBER ACCOUNT DIFFERENT FROM SERVICE TRUNK_ACCOUNT")
        \/ /\ trunk.our_trunk \/ (service # nullptr /\ number.client_account_id = service.client_account_id)
           /\ t = b(y0)
    BY DEF setupServiceTrunkForNumber
  <2> HIDE DEF t, b, trunk, service
  <2> QED BY <2>1
<1> HIDE DEF service, t
<1>3. Good(a)
  BY DEF Shape, Free
<1> HIDE DEF a
<1>4. ASSUME NEW y PROVE Good(b(y))
  BY <1>3 DEF Shape, Free
<1>5. ASSUME NEW w, w # "" PROVE Good(Throw(a, w)) /\ Throw(a, w).stop # ""
  BY <1>3, <1>5 DEF Shape, Free, Throw
<1>6. "SERVICE TRUNK WAS NOT FOUND" # "" /\ "SERVICE NUMBER ACCOUNT DIFFERENT FROM SERVICE TRUNK_ACCOUNT" # ""
  OBVIOUS
<1> HIDE DEF b
<1>7. Good(t) /\ (t.stop = "" => \/ trunk.our_trunk
                                 \/ \E x \in ServicesOf(s.r, trunk.id) :
                                      s.info.serviceNumber.client_account_id = x.client_account_id)
  <2> HIDE DEF Good, trunk
  <2> QED BY <1>1, <1>2, <1>4, <1>5, <1>6
<1> QED BY <1>7 DEF t

\* A leg on a number.
LEMMA ByNumberRated ==
  ASSUME NEW s, NEW skip, NEW r, NEW id, NEW trunk, Ready(s, r, id, trunk), TrunkFinds(r, trunk)
  PROVE  Rated(calcByNumber(s, skip), r, id, trunk)
<1> DEFINE a == IF s.call.orig /\ ToNumber(s.cdr.redirect_number) = Zero
                THEN processLineWithoutNumber(s, s.cdr.src_number) ELSE s
           n == setupServiceNumber(a)
           o == Then(n, setupServiceTrunkForNumber)
           b == Then(o, setupAccount)
<1>1. Ready(a, r, id, trunk)
  BY K_processLineWithoutNumber, N_processLineWithoutNumber DEF Ready, Blank, Keeps, Neutral
<1>2. /\ calcByNumber(s, skip) \in {b, calcTermByNumber(b), [b EXCEPT !.call.is_service_number = TRUE],
                                  calcOrigByNumber(b)}
      /\ b.stop # "" => calcByNumber(s, skip) = b
  BY DEF calcByNumber, Then
<1> HIDE DEF a
<1>3. /\ Shape(n) /\ n.r = r /\ n.call.cdr_id = id /\ n.info.trunk = trunk /\ n.call.trunk_id = trunk.id
      /\ Free(n) /\ (n.stop = "" => n.info.serviceNumber # nullptr)
  BY <1>1, NumberFound, K_setupServiceNumber DEF Ready, Blank, Keeps, Free
<1> HIDE DEF n
<1>4. Serviced(o, r, id, trunk)
  <2>0. trunk # nullptr
    BY DEF Ready
  <2>1. CASE n.stop # ""
    BY <1>3, <2>0, <2>1 DEF Then, Serviced
  <2>2. CASE n.stop = ""
    <3> DEFINE t == setupServiceTrunkForNumber(n)
    <3>1. Shape(t) /\ t.r = r /\ t.call.cdr_id = id /\ t.info.trunk = trunk /\ t.call.trunk_id = trunk.id
      BY <1>3, K_setupServiceTrunkForNumber DEF Keeps
    <3>2. /\ Free(t) /\ t.info.serviceNumber = n.info.serviceNumber
          /\ t.stop = "" => \/ trunk.our_trunk
                            \/ \E x \in ServicesOf(r, trunk.id) :
                                 n.info.serviceNumber.client_account_id = x.client_account_id
      BY <1>3, <2>2, NumberOnTrunk
    <3>3. o = t
      BY <2>2 DEF Then
    <3> HIDE DEF t, o
    <3> QED BY <1>3, <2>0, <2>2, <3>1, <3>2, <3>3 DEF Serviced
  <2> QED BY <2>1, <2>2
<1> HIDE DEF o
<1>5. Shape(b) /\ b.r = r /\ b.call.cdr_id = id /\ Free(b) /\ (b.stop = "" => Right(b, trunk))
  BY <1>4, AccountIsOwner
<1> HIDE DEF b
<1>6. ASSUME NEW t, Keeps(b, t), b.stop = "" PROVE Rated(t, r, id, trunk)
  BY <1>5, <1>6, RightKept DEF Rated, Keeps
<1>7. Keeps(b, [b EXCEPT !.call.is_service_number = TRUE])
  BY DEF Keeps, Shape
<1>8. CASE b.stop # ""
  BY <1>2, <1>5, <1>8 DEF Rated
<1> QED BY <1>2, <1>6, <1>7, <1>8, K_Refl, K_calcTermByNumber, K_calcOrigByNumber

\* Taking an order sets the service of the leg to the order's.
LEMMA OrderTaken ==
  ASSUME NEW s, NEW order, Shape(s)
  PROVE  LET t == TakeOrder(s, order)
         IN /\ Shape(t) /\ t.r = s.r /\ t.call.cdr_id = s.call.cdr_id
            /\ t.info.trunk = s.info.trunk /\ t.call.trunk_id = s.call.trunk_id
            /\ t.call.cost = s.call.cost /\ t.call.package_time = s.call.package_time
            /\ t.info.serviceNumber = s.info.serviceNumber /\ t.info.serviceTrunk = order.serviceTrunk
<1> DEFINE IdOf(x, id) == IF x = nullptr THEN id ELSE x.id
           a == [s EXCEPT !.info.account = order.account, !.info.serviceTrunk = order.serviceTrunk,
                     !.info.trunkSettings = order.trunkSettings, !.info.pricelist = order.pricelist,
                     !.info.price = order.price]
           b == [a EXCEPT !.info.nnpPackage = order.nnpPackage,
                    !.info.nnpPackagePricelist = order.nnpPackagePricelist,
                    !.info.nnpPackagePrice = order.nnpPackagePrice,
                    !.call.nnp_package_price_id = IdOf(order.nnpPackagePrice, @),
                    !.call.nnp_package_pricelist_id = IdOf(order.nnpPackagePricelist, @),
                    !.call.nnp_package_id = IdOf(order.nnpPackage, @), !.call.rate = order.nnp_price]
           Good(t) ==
            /\ Shape(t) /\ t.r = s.r /\ t.call.cdr_id = s.call.cdr_id
            /\ t.info.trunk = s.info.trunk /\ t.call.trunk_id = s.call.trunk_id
            /\ t.call.cost = s.call.cost /\ t.call.package_time = s.call.package_time
            /\ t.info.serviceNumber = s.info.serviceNumber /\ t.info.serviceTrunk = order.serviceTrunk
<1>1. Good(a)
  BY DEF Shape
<1>2. Good(b)
  <2> HIDE DEF a, IdOf
  <2> QED BY <1>1 DEF Shape
<1>3. TakeOrder(s, order) \in {a, b}
  BY DEF TakeOrder
<1> HIDE DEF a, b, Good
<1>4. Good(TakeOrder(s, order))
  BY <1>1, <1>2, <1>3
<1> QED BY <1>4 DEF Good

\* Uncharged leg whose service, if any, is one of the trunk.
OrderedOn(s, r, id, trunk) ==
  /\ Shape(s) /\ Free(s) /\ s.r = r /\ s.call.cdr_id = id
  /\ s.info.trunk = trunk /\ s.call.trunk_id = trunk.id
  /\ s.info.serviceNumber = nullptr
  /\ s.info.serviceTrunk \in ServicesOf(r, trunk.id) \cup {nullptr}

LEMMA ReadyOrdered ==
  ASSUME NEW s, NEW r, NEW id, NEW trunk, Ready(s, r, id, trunk)
  PROVE  OrderedOn(s, r, id, trunk)
BY DEF Ready, Blank, OrderedOn, Free

LEMMA TakenOrdered ==
  ASSUME NEW s, NEW r, NEW id, NEW trunk, OrderedOn(s, r, id, trunk), NEW src, NEW dst,
         NEW order \in TrunkOrders(r, trunk, src, dst)
  PROVE  OrderedOn(TakeOrder(s, order), r, id, trunk)
<1>1. order.serviceTrunk \in ServicesOf(r, trunk.id)
  BY TrunkOrdersOwn
<1> QED BY <1>1, OrderTaken DEF OrderedOn, Free

\* The first of the sorted orders is taken.
LEMMA OrigOrdered ==
  ASSUME NEW s, NEW r, NEW id, NEW trunk, Ready(s, r, id, trunk), TrunkFinds(r, trunk)
  PROVE  OrderedOn(setupEffectiveOrigTrunkSettings(s), r, id, trunk)
<1> DEFINE S == TrunkOrders(r, trunk, s.call.src_number, s.call.dst_number)
           orders == getTrunkSettingsOrderList(s.r, s.info.trunk, s.call.src_number, s.call.dst_number,
                                               SERVICE_TRUNK_SETTINGS_ORIGINATION)
           list == orderOrigTrunkSettingsOrderList(s.r, orders)
<1>1. orders \in Seq(S)
  BY OrdersOfServices DEF Ready
<1>2. setupEffectiveOrigTrunkSettings(s) = IF list = <<>> THEN s ELSE TakeOrder(s, list[1])
  BY DEF setupEffectiveOrigTrunkSettings
<1> HIDE DEF orders
<1>3. list \in Seq(S)
  BY <1>1, OrigSorted
<1> HIDE DEF list
<1>4. list # <<>> => list[1] \in S
  <2> HIDE DEF S
  <2> QED BY <1>3
<1> QED BY <1>2, <1>4, ReadyOrdered, TakenOrdered

LEMMA TermOrdered ==
  ASSUME NEW s, NEW r, NEW id, NEW trunk, Ready(s, r, id, trunk), TrunkFinds(r, trunk)
  PROVE  OrderedOn(setupEffectiveTermTrunkSettings(s), r, id, trunk)
<1> DEFINE S == TrunkOrders(r, trunk, s.call.src_number, s.call.dst_number)
           orders == getTrunkSettingsOrderList(s.r, s.info.trunk, s.call.src_number, s.call.dst_number,
                                               SERVICE_TRUNK_SETTINGS_TERMINATION)
           from   == getTrunkByName(s.r, s.cdr.src_route, s.r.origRegion)
           time   == s.call.connect_time
           opened == trunkOpen(s.m, time, orders)
           used   == [i \in {o.trunkSettings.id : o \in Range(orders)} |-> Find(opened, "trunk", i, time)]
           list   == orderTermTrunkSettingsOrderList(s.r, orders, from.sw_minimalki, used)
           a      == [s EXCEPT !.m = opened]
           b      == TakeOrder(a, list[1])
           c      == [b EXCEPT !.call.trunk_settings_stats_id = used[list[1].trunkSettings.id].id]
<1>1. orders \in Seq(S)
  BY OrdersOfServices DEF Ready
<1>2. \/ setupEffectiveTermTrunkSettings(s) = Throw(s, "ORIG TRUNK WAS NOT FOUND")
      \/ setupEffectiveTermTrunkSettings(s) = s
      \/ orders # <<>> /\ setupEffectiveTermTrunkSettings(s) = c
  BY DEF setupEffectiveTermTrunkSettings
<1> HIDE DEF orders, used, opened, from, time
<1>3. list \in Seq(S) /\ Len(list) = Len(orders)
  BY <1>1, TermSorted
<1> HIDE DEF list
<1>4. orders # <<>> => list[1] \in S
  <2> HIDE DEF S
  <2> QED BY <1>1, <1>3
<1>5. OrderedOn(s, r, id, trunk)
  BY ReadyOrdered
<1>6. OrderedOn(a, r, id, trunk)
  BY <1>5 DEF OrderedOn, Shape, Free
<1> HIDE DEF a
<1>7. orders # <<>> => OrderedOn(b, r, id, trunk)
  BY <1>4, <1>6, TakenOrdered
<1> HIDE DEF b
<1>8. OrderedOn(b, r, id, trunk) => OrderedOn(c, r, id, trunk)
  BY DEF OrderedOn, Shape, Free
<1>9. OrderedOn(Throw(s, "ORIG TRUNK WAS NOT FOUND"), r, id, trunk)
  BY <1>5 DEF OrderedOn, Shape, Free, Throw
<1> HIDE DEF c
<1> QED BY <1>2, <1>5, <1>7, <1>8, <1>9

\* A leg on a trunk.
LEMMA ByTrunkRated ==
  ASSUME NEW s, NEW r, NEW id, NEW trunk, Ready(s, r, id, trunk), TrunkFinds(r, trunk)
  PROVE  Rated(calcByTrunk(s), r, id, trunk)
<1> DEFINE a == IF s.call.orig THEN setupEffectiveOrigTrunkSettings(s) ELSE setupEffectiveTermTrunkSettings(s)
           o == Then(a, setupServiceTrunk)
           b == Then(o, setupAccount)
<1>1. OrderedOn(a, r, id, trunk)
  BY OrigOrdered, TermOrdered
<1>2. calcByTrunk(s) = Then(b, LAMBDA x : CASE x.call.account_version = CALL_ACCOUNT_VERSION_4 -> calcByTrunkV4(x)
                          [] x.call.account_version = CALL_ACCOUNT_VERSION_5 -> calcByTrunkV5(x)
                          [] OTHER -> Throw(x, "UNKNOW ACCOUNT VERSION"))
  BY DEF calcByTrunk
<1> HIDE DEF a
<1>3. Serviced(o, r, id, trunk)
  <2>0. trunk # nullptr
    BY DEF Ready
  <2>1. CASE a.stop # ""
    BY <1>1, <2>0, <2>1 DEF Then, Serviced, OrderedOn
  <2>2. CASE a.stop = ""
    <3>1. o = setupServiceTrunk(a)
      BY <2>2 DEF Then
    <3>2. Keeps(a, o) /\ Neutral(a, o)
      BY <3>1, K_setupServiceTrunk, N_setupServiceTrunk
    <3>3. o.stop = "" => a.info.serviceTrunk # nullptr
      BY <1>1, <3>1 DEF setupServiceTrunk, Need, Throw, OrderedOn, Shape
    <3> HIDE DEF o
    <3> QED BY <1>1, <2>0, <3>2, <3>3 DEF Serviced, OrderedOn, Keeps, Neutral, Free
  <2> QED BY <2>1, <2>2
<1> HIDE DEF o
<1>4. Shape(b) /\ b.r = r /\ b.call.cdr_id = id /\ Free(b) /\ (b.stop = "" => Right(b, trunk))
  BY <1>3, AccountIsOwner
<1> HIDE DEF b
<1>5. ASSUME NEW t, Keeps(b, t), b.stop = "" PROVE Rated(t, r, id, trunk)
  BY <1>4, <1>5, RightKept DEF Rated, Keeps
<1>6. Rated(b, r, id, trunk)
  BY <1>4 DEF Rated
<1> QED BY <1>2, <1>5, <1>6, K_calcByTrunkV4, K_calcByTrunkV5, K_Throw DEF Then

\* BillingCall::calc.
LEMMA CalcRates ==
  ASSUME NEW s, Blank(s), NEW trunk, trunk = getTrunkByName(s.r, getRoute(s), s.r.origRegion),
         trunk # nullptr => TrunkFinds(s.r, trunk)
  PROVE  Rated(calc(s), s.r, s.call.cdr_id, trunk)
<1> DEFINE p == Placed(s)
           q == Then(p, calcByTrunkOrNumber)
<1>1. Begun(p, s.r, s.call.cdr_id, trunk)
  BY PlacedBegins
<1> HIDE DEF p
<1>2. Rated(q, s.r, s.call.cdr_id, trunk)
  <2>1. CASE p.stop # ""
    BY <1>1, <2>1 DEF Then, Begun, Blank, Rated, Free
  <2>2. CASE p.stop = ""
    <3>1. Ready(p, s.r, s.call.cdr_id, trunk) /\ TrunkFinds(s.r, trunk)
      BY <1>1, <2>2 DEF Begun, Ready
    <3> QED BY <2>2, <3>1, ByNumberRated, ByTrunkRated DEF Then, calcByTrunkOrNumber
  <2> QED BY <2>1, <2>2
<1>3. calc(s) \in {q, setVatFlag(q)}
  BY DEF calc, Then, p
<1> HIDE DEF q
<1>4. Rated(setVatFlag(q), s.r, s.call.cdr_id, trunk)
  BY <1>2, K_setVatFlag, N_setVatFlag, RightKept DEF Rated, Keeps, Neutral, Free
<1> QED BY <1>2, <1>3, <1>4

-----------------------------------------------------------------------------
(* Both legs of a record.                                                  *)

\* The fields a record shares with the call it was written for.
CdrOfCall(cdr, call) ==
  /\ cdr.connect_time = call.connect_time /\ cdr.src_route = call.src_route /\ cdr.dst_route = call.dst_route

\* prepareAt changes the time and nothing else the search for trunks reads.
LEMMA PreparedTables ==
  ASSUME NEW w \in DOMAIN Worlds, NEW time
  PROVE  LET tables == Worlds[w].tables
             r == prepareAt(tables, time)
         IN /\ r.trunk = tables.trunk /\ r.service_trunk = tables.service_trunk
            /\ r.service_trunk_settings = tables.service_trunk_settings
            /\ Local(r, r.trunk) = Local(tables, tables.trunk)
<1> DEFINE tables == Worlds[w].tables
           r == prepareAt(tables, time)
<1>1. {"currentTime", "instance_id", "hub_id", "api_host", "server", "trunk", "service_trunk",
        "service_trunk_settings"} \subseteq DOMAIN tables
  BY RatingAssumption
<1> HIDE DEF tables
<1>2. /\ r.instance_id = tables.instance_id /\ r.hub_id = tables.hub_id /\ r.api_host = tables.api_host
      /\ r.server = tables.server /\ r.trunk = tables.trunk /\ r.service_trunk = tables.service_trunk
      /\ r.service_trunk_settings = tables.service_trunk_settings
  BY <1>1 DEF prepareAt
<1> HIDE DEF r
<1>3. Local(r, r.trunk) = Local(tables, tables.trunk)
  BY <1>2 DEF Local, sql_regions_list, getServersByHubId
<1> QED BY <1>2, <1>3 DEF r, tables

\* A leg that is charged right is charged to an owner of the trunk with its trunk_id.
LEMMA RightPays ==
  ASSUME NEW w \in DOMAIN Worlds, NEW call, SearchesFind(prepareAt(Worlds[w].tables, call.connect_time), call),
         NEW route \in {call.src_route, call.dst_route}, NEW s, NEW id,
         LET r == prepareAt(Worlds[w].tables, call.connect_time)
         IN Rated(s, r, id, getTrunkByName(r, route, r.origRegion))
  PROVE  s.call.cdr_id = id /\ OwnerPays(Worlds[w].tables, s.call)
<1> DEFINE tables == Worlds[w].tables
           r == prepareAt(tables, call.connect_time)
           trunk == getTrunkByName(r, route, r.origRegion)
           trunks == Local(r, r.trunk)
<1>1. r.service_trunk = tables.service_trunk /\ trunks = Local(tables, tables.trunk)
  BY PreparedTables
<1>2. /\ \A t \in trunks, u \in trunks : t.id = u.id => t = u
      /\ trunk \in trunks \cup {nullptr}
  BY DEF SearchesFind
<1>3. Rated(s, r, id, trunk)
  OBVIOUS
<1> HIDE DEF r, trunk, tables
<1>4. trunk # nullptr => getTrunk(tables, trunk.id) = trunk
  <2> HIDE DEF trunks
  <2> SUFFICES ASSUME trunk # nullptr PROVE ById(trunks, trunk.id) = trunk
    BY <1>1 DEF getTrunk
  <2>1. trunk \in {x \in trunks : x.id = trunk.id} /\ \A x \in {y \in trunks : y.id = trunk.id} : x = trunk
    BY <1>2
  <2> QED BY <2>1 DEF ById
<1>5. OwnerPays(tables, s.call)
  BY <1>1, <1>3, <1>4 DEF Rated, Free, Right, OwnerPays, Owners, ServicesOf
<1> QED BY <1>3, <1>5 DEF Rated, tables

\* Billing::calc: both legs, the terminating one with the originating one's numbers.
LEMMA LegsPay ==
  ASSUME NEW w \in DOMAIN Worlds, NEW call, NEW cdr, CdrOfCall(cdr, call), NEW mem,
         SearchesFind(prepareAt(Worlds[w].tables, call.connect_time), call)
  PROVE  LET legs == Legs(Worlds[w].tables, mem, cdr)
         IN \/ legs = <<>>
            \/ \E o, t : /\ legs = <<o, t>>
                         /\ o.call.cdr_id = cdr.id /\ OwnerPays(Worlds[w].tables, o.call)
                         /\ t.call.cdr_id = cdr.id /\ OwnerPays(Worlds[w].tables, t.call)
<1> DEFINE tables == Worlds[w].tables
           r == prepareAt(tables, cdr.connect_time)
           mega == PhaseCalc(r, prepareFromCdr(r, r.origRegion, cdr.src_route, cdr.src_number, cdr.dst_number))
           c1 == Call(cdr, TRUE, mem.lastCallId + 1)
           s1 == Start(r, mem.counters, cdr, mega, c1)
           o == calc(s1)
           c2 == [Call(cdr, FALSE, mem.lastCallId + 2) EXCEPT
                            !.src_number = o.call.src_number, !.dst_number = o.call.dst_number]
           s2 == Start(r, o.m, cdr, mega, c2)
           t == calc(s2)
           Good(x) == x.call.cdr_id = cdr.id /\ OwnerPays(tables, x.call)
<1>1. Legs(tables, mem, cdr) \in {<<>>, <<o, t>>}
  BY DEF Legs
<1>2. SearchesFind(r, call) /\ r = prepareAt(tables, call.connect_time)
  BY DEF CdrOfCall
<1> HIDE DEF mega
<1>3. ASSUME NEW m0, NEW c0, FreshCall(c0, cdr.id)
      PROVE  Good(calc(Start(r, m0, cdr, mega, c0)))
  <2> DEFINE s == Start(r, m0, cdr, mega, c0)
             trunk == getTrunkByName(s.r, getRoute(s), s.r.origRegion)
  <2>1. Blank(s) /\ s.r = r /\ s.call.cdr_id = cdr.id /\ s.cdr = cdr
    BY <1>3, StartsBlank DEF Start
  <2> HIDE DEF s
  <2>2. PICK route \in {call.src_route, call.dst_route} : getRoute(s) = route
    BY <2>1 DEF getRoute, CdrOfCall
  <2>3. trunk = getTrunkByName(r, route, r.origRegion)
    BY <2>1, <2>2
  <2>4. trunk # nullptr => TrunkFinds(s.r, trunk)
    BY <1>2, <2>1, <2>2, <2>3 DEF SearchesFind, TrunkFinds, ServicesOf
  <2> HIDE DEF trunk, r
  <2>5. Rated(calc(s), r, cdr.id, trunk)
    BY <2>1, <2>4, CalcRates DEF trunk
  <2>6. Good(calc(s))
    BY <1>2, <2>3, <2>5, RightPays
  <2> QED BY <2>6 DEF s
<1>4. FreshCall(c1, cdr.id)
  BY CallIsFresh
<1>5. Good(o)
  <2> HIDE DEF r, c1, Good
  <2> QED BY <1>3, <1>4
<1> HIDE DEF o, r
<1>6. FreshCall(c2, cdr.id)
  <2> DEFINE c == Call(cdr, FALSE, mem.lastCallId + 2)
  <2>1. FreshCall(c, cdr.id)
    BY CallIsFresh
  <2> HIDE DEF c
  <2>2. FreshCall([c EXCEPT !.src_number = o.call.src_number, !.dst_number = o.call.dst_number], cdr.id)
    BY <2>1 DEF FreshCall
  <2> QED BY <2>2 DEF c
<1> HIDE DEF c2
<1>7. Good(t)
  <2> HIDE DEF Good
  <2> QED BY <1>3, <1>6
<1> HIDE DEF t, Good
<1>8. Legs(tables, mem, cdr) = <<>> \/ \E x, y : Legs(tables, mem, cdr) = <<x, y>> /\ Good(x) /\ Good(y)
  BY <1>1, <1>5, <1>7
<1> QED BY <1>8 DEF Good

-----------------------------------------------------------------------------
(* The calls in memory and in the database: each is a leg of a record that *)
(* has come, and charges nobody or an owner of the trunk.                  *)

Well(c, n, tables) == c.cdr_id \in 1..n /\ OwnerPays(tables, c)
PartsWell(parts, n, tables) ==
  parts # <<>> /\ \E S : parts \in Seq(SUBSET S) /\ \A c \in S : Well(c, n, tables)

MemWell(x, n, tables) ==
  /\ {"counters", "calls", "lastCallId", "lastCdr"} \subseteq DOMAIN x
  /\ PartsWell(x.calls, n, tables) /\ x.lastCdr \in 0..n

DbWell(db, n, tables) ==
  /\ {"calls", "stats"} \subseteq DOMAIN db
  /\ \A c \in db.calls : Well(c, n, tables)

\* A set of numbers up to n that is not empty has its greatest.
LEMMA MaxOf ==
  ASSUME NEW n \in Nat, NEW S, S \subseteq 1..n, S # {}
  PROVE  Max(S) \in S
<1> DEFINE T == {k \in Nat : \E x \in S : x = n - k}
           R == OpToRel(<, Nat)
<1>1. PICK e \in S : TRUE
  OBVIOUS
<1>2. n - e \in T
  <2>1. e \in 1..n
    BY <1>1
  <2>2. n - e \in Nat /\ n - (n - e) = e
    BY <2>1
  <2> QED BY <1>1, <2>2
<1>3. PICK y \in T : \A z \in T : <<z, y>> \notin R
  <2>1. T \subseteq Nat /\ T # {}
    BY <1>2
  <2> HIDE DEF T
  <2> QED BY <2>1, NatLessThanWellFounded, WFMin
<1>4. \A z \in T : ~(z < y)
  <2>1. \A a, b \in Nat : a < b => <<a, b>> \in R
    BY DEF OpToRel
  <2>2. T \subseteq Nat
    OBVIOUS
  <2> HIDE DEF R, T
  <2> QED BY <1>3, <2>1, <2>2
<1>5. PICK x \in S : x = n - y
  BY <1>3
<1>6. ASSUME NEW z \in S PROVE x >= z
  <2>1. z \in 1..n /\ x \in 1..n /\ y \in Nat
    BY <1>3, <1>5
  <2>2. n - z \in Nat /\ n - (n - z) = z
    BY <2>1
  <2>3. n - z \in T
    BY <2>2
  <2>4. ~(n - z < y)
    BY <1>4, <2>3
  <2> QED BY <1>5, <2>1, <2>4
<1> QED BY <1>6 DEF Max

\* The last record with calls is one that has come.
LEMMA LastCdrBound ==
  ASSUME NEW db, NEW n \in Nat, NEW tables, DbWell(db, n, tables)
  PROVE  LastCdr(db) \in 0..n
<1> DEFINE S == {c.cdr_id : c \in db.calls}
<1>1. S \subseteq 1..n
  BY DEF DbWell, Well
<1> HIDE DEF S
<1>2. CASE S = {}
  BY <1>2 DEF LastCdr, MaxIn, S
<1>3. CASE S # {}
  <2>1. Max(S) \in S
    BY <1>1, <1>3, MaxOf
  <2>2. LastCdr(db) = Max(S)
    BY <1>3 DEF LastCdr, MaxIn, S
  <2>3. Max(S) \in 1..n
    BY <1>1, <2>1
  <2> QED BY <2>2, <2>3
<1> QED BY <1>2, <1>3

\* What a start loads from a good database.
LEMMA LoadedWell ==
  ASSUME NEW db, NEW n \in Nat, NEW tables, DbWell(db, n, tables)
  PROVE  MemWell(Loaded(db), n, tables)
<1> DEFINE all == loadAll(db)
           x == Loaded(db)
<1>1. DOMAIN all = {"counters", "calls", "lastCallId"} /\ all.calls = <<{}>>
  BY DEF loadAll
<1> HIDE DEF all
<1>2. /\ {"counters", "calls", "lastCallId", "lastCdr"} \subseteq DOMAIN x
      /\ x.calls = <<{}>> /\ x.lastCdr = LastCdr(db)
  BY <1>1 DEF Loaded, Put, all
<1> HIDE DEF x
<1>3. PartsWell(<<{}>>, n, tables)
  <2> DEFINE none == {}
  <2>1. <<none>> \in Seq(SUBSET none) /\ <<none>> # <<>> /\ \A c \in none : Well(c, n, tables)
    OBVIOUS
  <2> HIDE DEF none
  <2>2. PartsWell(<<none>>, n, tables)
    BY <2>1 DEF PartsWell
  <2> QED BY <2>2 DEF none
<1> QED BY <1>2, <1>3, LastCdrBound DEF MemWell, x

\* A call that is added goes to the last part.
LEMMA CallAdded ==
  ASSUME NEW b, NEW n, NEW tables, MemWell(b, n, tables), NEW call, NEW info, Well(call, n, tables)
  PROVE  MemWell(addCall(b, call, info), n, tables) /\ Len(addCall(b, call, info).calls) = Len(b.calls)
<1> DEFINE parts == b.calls
           k == Len(parts)
           more == [parts EXCEPT ![k] = @ \cup {call}]
           x == addCall(b, call, info)
<1>1. PICK S : parts \in Seq(SUBSET S) /\ \A c \in S : Well(c, n, tables)
  BY DEF MemWell, PartsWell
<1>2. more \in Seq(SUBSET (S \cup {call})) /\ more # <<>> /\ Len(more) = k
  <2>1. parts # <<>>
    BY DEF MemWell, PartsWell
  <2> HIDE DEF parts
  <2> QED BY <1>1, <2>1
<1>3. \A c \in S \cup {call} : Well(c, n, tables)
  BY <1>1
<1>4. PartsWell(more, n, tables)
  <2> HIDE DEF more
  <2> QED BY <1>2, <1>3 DEF PartsWell
<1>5. \E m0, i0 : x = [b EXCEPT !.counters = m0, !.calls = more, !.lastCallId = i0]
  <2> DEFINE m0 == nnpAdd(trunkAdd(packageAdd(freeminAdd(b.counters, call, info), call, info), call, info),
                          call, info)
  <2>1. x = [b EXCEPT !.counters = m0, !.calls[k] = @ \cup {call}, !.lastCallId = call.id]
    BY DEF addCall
  <2> HIDE DEF m0, x
  <2>2. x = [b EXCEPT !.counters = m0, !.calls = more, !.lastCallId = call.id]
    BY <2>1 DEF MemWell
  <2> HIDE DEF more
  <2> QED BY <2>2
<1> HIDE DEF x, more
<1>6. PICK m0, i0 : x = [b EXCEPT !.counters = m0, !.calls = more, !.lastCallId = i0]
  BY <1>5
<1>7. /\ {"counters", "calls", "lastCallId", "lastCdr"} \subseteq DOMAIN x
      /\ x.calls = more /\ x.lastCdr = b.lastCdr
  BY <1>6 DEF MemWell
<1>8. MemWell(x, n, tables) /\ Len(x.calls) = k
  BY <1>2, <1>4, <1>7 DEF MemWell
<1> QED BY <1>8 DEF x

\* The record of the switch with this number.
RecordOf(cdr, i, calls) == \E call \in calls : cdr = Put(call, "id", i)
LEMMA RecordFields ==
  ASSUME NEW w \in DOMAIN Worlds, NEW cdr, NEW i, NEW call \in Worlds[w].calls, cdr = Put(call, "id", i)
  PROVE  cdr.id = i /\ CdrOfCall(cdr, call)
<1>1. {"connect_time", "src_route", "dst_route"} \subseteq DOMAIN call
  BY RatingAssumption
<1> QED BY <1>1 DEF CdrOfCall, Put

\* Records are rated by Billing::calc.
Rates == \A tables, mem, cdr : Rate(tables, mem, cdr) = Legs(tables, mem, cdr)
\* Billing a record.
LEMMA BilledWell ==
  ASSUME Rates, ListsAreOrdered, world \in DOMAIN Worlds, NEW n \in Nat, NEW i \in 1..n,
         NEW b, MemWell(b.m, n, W.tables), NEW cdr, RecordOf(cdr, i, W.calls)
  PROVE  MemWell(Billed(b, cdr).m, n, W.tables) /\ Len(Billed(b, cdr).m.calls) = Len(b.m.calls)
<1> DEFINE tables == W.tables
           legs == Rate(tables, b.m, cdr)
           base == [b.m EXCEPT !.counters = legs[2].m]
           both == addCall(addCall(base, legs[1].call, legs[1].info), legs[2].call, legs[2].info)
           after == IF legs = <<>> THEN b.m ELSE both
           new == [after EXCEPT !.lastCdr = cdr.id]
<1>1. PICK call \in W.calls : cdr = Put(call, "id", i)
  BY DEF RecordOf
<1>2. cdr.id = i /\ CdrOfCall(cdr, call)
  BY <1>1, RecordFields DEF W
<1>3. \/ legs = <<>>
      \/ \E o, t : /\ legs = <<o, t>>
                   /\ o.call.cdr_id = cdr.id /\ OwnerPays(tables, o.call)
                   /\ t.call.cdr_id = cdr.id /\ OwnerPays(tables, t.call)
  <2>1. SearchesFind(prepareAt(Worlds[world].tables, call.connect_time), call)
    BY <1>1 DEF ListsAreOrdered, W
  <2>2. legs = Legs(tables, b.m, cdr)
    BY DEF Rates
  <2> HIDE DEF legs
  <2> QED BY <1>2, <2>1, <2>2, LegsPay DEF W
<1>4. Billed(b, cdr).m = new
  BY DEF Billed
<1> HIDE DEF legs, tables
<1>5. MemWell(after, n, tables) /\ Len(after.calls) = Len(b.m.calls)
  <2>1. CASE legs = <<>>
    BY <2>1 DEF tables
  <2>2. CASE legs # <<>>
    <3>1. Well(legs[1].call, n, tables) /\ Well(legs[2].call, n, tables)
      BY <1>2, <1>3, <2>2 DEF Well
    <3>2. MemWell(base, n, tables) /\ base.calls = b.m.calls
      BY DEF MemWell, tables
    <3> HIDE DEF base
    <3>3. MemWell(both, n, tables) /\ Len(both.calls) = Len(b.m.calls)
      <4> DEFINE one == addCall(base, legs[1].call, legs[1].info)
      <4>1. MemWell(one, n, tables) /\ Len(one.calls) = Len(b.m.calls)
        BY <3>1, <3>2, CallAdded
      <4> HIDE DEF one
      <4>2. LET two == addCall(one, legs[2].call, legs[2].info)
            IN MemWell(two, n, tables) /\ Len(two.calls) = Len(b.m.calls)
        BY <3>1, <4>1, CallAdded
      <4> QED BY <4>2 DEF one
    <3> HIDE DEF both
    <3> QED BY <2>2, <3>3
  <2> QED BY <2>1, <2>2
<1> HIDE DEF after
<1>6. MemWell(new, n, tables) /\ new.calls = after.calls
  BY <1>2, <1>5 DEF MemWell
<1> QED BY <1>4, <1>5, <1>6 DEF tables

\* The records are numbered in the order they have come.
RecordsWell(list, calls) ==
  /\ \E X : list \in Seq(X)
  /\ \A i \in 1..Len(list) : RecordOf(list[i], i, calls)

\* A recalculation bills every record without calls, one after another.
LEMMA BilledAgainWell ==
  ASSUME Rates, ListsAreOrdered, world \in DOMAIN Worlds, RecordsWell(cdrs, W.calls),
         NEW db, DbWell(db, Len(cdrs), W.tables)
  PROVE  MemWell(BilledAgain(db).m, Len(cdrs), W.tables)
<1> DEFINE n == Len(cdrs)
           last == LastCdr(db)
           start == [m |-> Loaded(db), charges |-> charges]
           Step(k, b) == IF k = 0 \/ k <= last THEN start ELSE Billed(b, cdrs[k])
           Chain(f, k) == f = [i \in 0..k |-> Step(i, f[i - 1])]
           g == CHOOSE g : Chain(g, n)
           Good == {k \in 0..n : MemWell(g[k].m, n, W.tables)}
           Built == {k \in 0..n : \E f : Chain(f, k)}
<1>1. n \in Nat
  BY DEF RecordsWell
<1>2. BilledAgain(db) = g[n]
  BY DEF BilledAgain
<1>3. MemWell(start.m, n, W.tables)
  BY <1>1, LoadedWell
<1>4. ASSUME NEW k \in 1..n, NEW b, MemWell(b.m, n, W.tables) PROVE MemWell(Step(k, b).m, n, W.tables)
  <2>1. RecordOf(cdrs[k], k, W.calls)
    BY <1>1 DEF RecordsWell
  <2> HIDE DEF start, n, last
  <2>2. MemWell(Billed(b, cdrs[k]).m, n, W.tables)
    BY <1>1, <1>4, <2>1, BilledWell
  <2> QED BY <1>3, <2>2
<1> HIDE DEF Step, start, n
<1>6. 0..n \subseteq Built
  <2>1. 0 \in Built
    <3> DEFINE f == [i \in 0..0 |-> start]
    <3>1. \A b : Step(0, b) = start
      BY DEF Step
    <3>2. Chain(f, 0)
      BY <3>1
    <3> HIDE DEF Chain, f
    <3> QED BY <1>1, <3>2
  <2>2. ASSUME NEW k \in 1..n, k - 1 \in Built PROVE k \in Built
    <3>1. PICK f : Chain(f, k - 1)
      BY <2>2
    <3> DEFINE new == Step(k, f[k - 1])
               h == [i \in 0..k |-> IF i = k THEN new ELSE f[i]]
    <3>0. \A b : Step(0, b) = start
      BY DEF Step
    <3>2. \A i \in 0..(k - 1) : f[i] = Step(i, f[i - 1])
      BY <3>1
    <3>3. h[k] = new /\ \A i \in 0..(k - 1) : h[i] = f[i]
      OBVIOUS
    <3>4. \A i \in 0..k : h[i] = Step(i, h[i - 1])
      <4> SUFFICES ASSUME NEW i \in 0..k PROVE h[i] = Step(i, h[i - 1])
        OBVIOUS
      <4> HIDE DEF h
      <4>1. CASE i = 0
        BY <3>0, <3>2, <3>3, <4>1
      <4>2. CASE i = k
        BY <3>3, <4>2
      <4>3. CASE i # 0 /\ i # k
        <5>1. i \in 0..(k - 1) /\ i - 1 \in 0..(k - 1)
          BY <4>3
        <5> QED BY <3>2, <3>3, <5>1
      <4> QED BY <4>1, <4>2, <4>3
    <3>5. Chain(h, k)
      BY <3>4
    <3> HIDE DEF Chain, h
    <3> QED BY <3>5
  <2> HIDE DEF Built
  <2> QED BY <1>1, <2>1, <2>2, UpTo
<1>7. Chain(g, n)
  <2>1. \E f : Chain(f, n)
    <3> HIDE DEF Chain
    <3> QED BY <1>1, <1>6
  <2> HIDE DEF Chain
  <2> QED BY <2>1
<1> HIDE DEF g
<1>5. \A k \in 0..n : g[k] = Step(k, g[k - 1])
  BY <1>7
<1>8. 0..n \subseteq Good
  <2>1. 0 \in Good
    <3>1. g[0] = start
      BY <1>1, <1>7 DEF Step
    <3> QED BY <1>1, <1>3, <3>1
  <2>2. ASSUME NEW k \in 1..n, k - 1 \in Good PROVE k \in Good
    <3>1. g[k] = Step(k, g[k - 1])
      BY <1>1, <1>5
    <3> QED BY <1>4, <2>2, <3>1
  <2> HIDE DEF Good
  <2> QED BY <1>1, <2>1, <2>2, UpTo
<1>9. MemWell(g[n].m, n, W.tables)
  BY <1>1, <1>8
<1> QED BY <1>2, <1>9 DEF n

-----------------------------------------------------------------------------
(***************************************************************************)
(* The inductive invariant.  The part save has prepared is a copy of the   *)
(* first part in memory, so it has to be in the invariant beside the       *)
(* memory and the database; the last record billed is one that has come,   *)
(* so the next one is found.                                               *)
(***************************************************************************)
RatingInv ==
  /\ world \in DOMAIN Worlds
  /\ RecordsWell(cdrs, W.calls)
  /\ MemWell(m, Len(cdrs), W.tables)
  /\ DbWell(d, Len(cdrs), W.tables)
  /\ prepared # nullptr => Len(m.calls) > 1 /\ \A c \in prepared.calls : Well(c, Len(cdrs), W.tables)

LEMMA SavedWell ==
  ASSUME NEW db, NEW part, NEW n, NEW tables, DbWell(db, n, tables), \A c \in part.calls : Well(c, n, tables)
  PROVE  DbWell(Saved(db, part), n, tables)
BY DEF DbWell, Saved

LEMMA FirstPartWell ==
  ASSUME NEW x, NEW n, NEW tables, MemWell(x, n, tables)
  PROVE  \A c \in FirstPart(x).calls : Well(c, n, tables)
<1>1. PICK S : x.calls \in Seq(SUBSET S) /\ \A c \in S : Well(c, n, tables)
  BY DEF MemWell, PartsWell
<1>2. x.calls[1] \in SUBSET S
  BY <1>1 DEF MemWell, PartsWell
<1> QED BY <1>1, <1>2 DEF FirstPart

LEMMA WellLonger ==
  ASSUME NEW c, NEW n \in Nat, NEW tables, Well(c, n, tables)
  PROVE  Well(c, n + 1, tables)
BY DEF Well

LEMMA ArriveKeeps ==
  ASSUME RatingInv, NEW call \in W.calls, Arrive(call)
  PROVE  RatingInv'
<1> DEFINE n == Len(cdrs)
           cdr == Put(call, "id", n + 1)
<1>1. cdrs' = Append(cdrs, cdr) /\ UNCHANGED <<world, m, prepared, d>>
  BY DEF Arrive
<1>2. W' = W
  BY <1>1 DEF W
<1>3. PICK X : cdrs \in Seq(X)
  BY DEF RatingInv, RecordsWell
<1> HIDE DEF cdr
<1>4. Append(cdrs, cdr) \in Seq(X \cup {cdr}) /\ n \in Nat /\ Len(Append(cdrs, cdr)) = n + 1
  BY <1>3
<1>5. RecordsWell(cdrs, W.calls)'
  <2>1. \A i \in 1..n : Append(cdrs, cdr)[i] = cdrs[i]
    BY <1>3
  <2>2. Append(cdrs, cdr)[n + 1] = cdr
    BY <1>3
  <2>3. RecordOf(cdr, n + 1, W.calls)
    BY DEF RecordOf, cdr
  <2>4. \A i \in 1..(n + 1) : RecordOf(Append(cdrs, cdr)[i], i, W.calls)
    BY <1>4, <2>1, <2>2, <2>3 DEF RatingInv, RecordsWell
  <2>5. RecordsWell(Append(cdrs, cdr), W.calls)
    BY <1>4, <2>4 DEF RecordsWell
  <2> QED BY <1>1, <1>2, <2>5
<1>6. \A c : Well(c, n, W.tables) => Well(c, n + 1, W.tables)
  BY <1>4, WellLonger
<1>7. MemWell(m, n + 1, W.tables) /\ DbWell(d, n + 1, W.tables)
  <2>1. PartsWell(m.calls, n, W.tables) => PartsWell(m.calls, n + 1, W.tables)
    BY <1>6 DEF PartsWell
  <2>2. m.lastCdr \in 0..(n + 1)
    BY <1>4 DEF RatingInv, MemWell
  <2> QED BY <1>6, <2>1, <2>2 DEF RatingInv, MemWell, DbWell
<1> QED BY <1>1, <1>2, <1>4, <1>5, <1>6, <1>7 DEF RatingInv

LEMMA BillKeeps ==
  ASSUME Rates, ListsAreOrdered, RatingInv, Bill
  PROVE  RatingInv'
<1> DEFINE n == Len(cdrs)
           i == m.lastCdr + 1
           b == [m |-> m, charges |-> charges]
           x == Billed(b, cdrs[i])
<1>1. m.lastCdr < n /\ m' = x.m /\ UNCHANGED <<world, cdrs, prepared, d>>
  BY DEF Bill
<1>2. n \in Nat /\ i \in 1..n
  BY <1>1 DEF RatingInv, MemWell, RecordsWell
<1>3. RecordOf(cdrs[i], i, W.calls)
  BY <1>2 DEF RatingInv, RecordsWell
<1>4. MemWell(x.m, n, W.tables) /\ Len(x.m.calls) = Len(m.calls)
  <2>1. MemWell(b.m, n, W.tables)
    BY DEF RatingInv
  <2> HIDE DEF b, i, n
  <2>2. b.m = m
    BY DEF b
  <2> QED BY <1>2, <1>3, <2>1, <2>2, BilledWell DEF RatingInv
<1> HIDE DEF x
<1> QED BY <1>1, <1>4 DEF RatingInv, W

LEMMA PartsGrow ==
  ASSUME NEW parts, NEW n, NEW tables, PartsWell(parts, n, tables)
  PROVE  /\ PartsWell(Append(parts, {}), n, tables) /\ Len(Append(parts, {})) > 1
         /\ Len(parts) > 1 => PartsWell(Tail(parts), n, tables)
<1> DEFINE none == {}
<1>1. PICK S : parts \in Seq(SUBSET S) /\ \A c \in S : Well(c, n, tables)
  BY DEF PartsWell
<1>2. none \in SUBSET S /\ parts # <<>>
  BY DEF PartsWell
<1> HIDE DEF none
<1>3. /\ Append(parts, none) \in Seq(SUBSET S) /\ Append(parts, none) # <<>> /\ Len(Append(parts, none)) > 1
      /\ Len(parts) > 1 => Tail(parts) \in Seq(SUBSET S) /\ Tail(parts) # <<>>
  BY <1>1, <1>2
<1>4. PartsWell(Append(parts, none), n, tables) /\ (Len(parts) > 1 => PartsWell(Tail(parts), n, tables))
  BY <1>1, <1>3 DEF PartsWell
<1> QED BY <1>3, <1>4 DEF none

LEMMA PrepareKeeps ==
  ASSUME RatingInv, SavePrepare
  PROVE  RatingInv'
<1> DEFINE more == [m EXCEPT !.calls = Append(@, {}), !.counters.parts = Append(@, NoStats)]
<1>1. /\ prepared' = FirstPart(m) /\ m' = IF Len(m.calls) > 1 THEN m ELSE more
      /\ UNCHANGED <<world, cdrs, d>>
  BY DEF SavePrepare
<1>2. \A c \in FirstPart(m).calls : Well(c, Len(cdrs), W.tables)
  BY FirstPartWell DEF RatingInv
<1>3. MemWell(more, Len(cdrs), W.tables) /\ Len(more.calls) > 1
  <2>1. /\ {"counters", "calls", "lastCallId", "lastCdr"} \subseteq DOMAIN more
        /\ more.calls = Append(m.calls, {}) /\ more.lastCdr = m.lastCdr
    BY DEF RatingInv, MemWell
  <2> HIDE DEF more
  <2> QED BY <2>1, PartsGrow DEF RatingInv, MemWell
<1> HIDE DEF more
<1> QED BY <1>1, <1>2, <1>3 DEF RatingInv, W

LEMMA CommitKeeps ==
  ASSUME RatingInv, SaveCommit
  PROVE  RatingInv'
<1> DEFINE less == [m EXCEPT !.calls = Tail(@), !.counters.parts = Tail(@)]
<1>1. /\ prepared # nullptr /\ prepared' = nullptr /\ d' = Saved(d, prepared) /\ m' = less
      /\ UNCHANGED <<world, cdrs>>
  BY DEF SaveCommit
<1>2. MemWell(less, Len(cdrs), W.tables)
  <2>1. /\ {"counters", "calls", "lastCallId", "lastCdr"} \subseteq DOMAIN less
        /\ less.calls = Tail(m.calls) /\ less.lastCdr = m.lastCdr
    BY DEF RatingInv, MemWell
  <2> HIDE DEF less
  <2> QED BY <1>1, <2>1, PartsGrow DEF RatingInv, MemWell
<1>3. DbWell(Saved(d, prepared), Len(cdrs), W.tables)
  BY <1>1, SavedWell DEF RatingInv
<1> HIDE DEF less
<1> QED BY <1>1, <1>2, <1>3 DEF RatingInv, W

LEMMA RestartKeeps ==
  ASSUME RatingInv, Restart
  PROVE  RatingInv'
<1>1. m' = Loaded(d) /\ prepared' = nullptr /\ UNCHANGED <<world, cdrs, d>>
  BY DEF Restart
<1>2. Len(cdrs) \in Nat
  BY DEF RatingInv, RecordsWell
<1>3. MemWell(Loaded(d), Len(cdrs), W.tables)
  BY <1>2, LoadedWell DEF RatingInv
<1> QED BY <1>1, <1>3 DEF RatingInv, W

LEMMA KeptWell ==
  ASSUME RatingInv, NEW date
  PROVE  DbWell(Deleted(date), Len(cdrs), W.tables) /\ DbWell(recalcAll(Deleted(date)), Len(cdrs), W.tables)
<1> DEFINE kept == Deleted(date)
<1>1. DbWell(kept, Len(cdrs), W.tables)
  BY DEF RatingInv, DbWell, Deleted
<1> HIDE DEF kept
<1>2. DbWell(recalcAll(kept), Len(cdrs), W.tables)
  BY <1>1 DEF DbWell, recalcAll
<1> QED BY <1>1, <1>2 DEF kept

LEMMA RecalculateKeeps ==
  ASSUME Rates, ListsAreOrdered, RatingInv, NEW date, Recalculate(date)
  PROVE  RatingInv'
<1> DEFINE kept == recalcAll(Deleted(date))
           again == BilledAgain(kept)
           db == Saved(kept, FirstPart(again.m))
<1>1. d' = db /\ m' = Loaded(db) /\ prepared = nullptr /\ UNCHANGED <<world, cdrs, prepared>>
  BY DEF Recalculate
<1>2. DbWell(kept, Len(cdrs), W.tables)
  BY KeptWell
<1> HIDE DEF kept
<1>3. MemWell(again.m, Len(cdrs), W.tables)
  BY <1>2, BilledAgainWell DEF RatingInv
<1> HIDE DEF again
<1>4. DbWell(db, Len(cdrs), W.tables)
  BY <1>2, <1>3, FirstPartWell, SavedWell
<1>5. MemWell(Loaded(db), Len(cdrs), W.tables)
  <2>1. Len(cdrs) \in Nat
    BY DEF RatingInv, RecordsWell
  <2> HIDE DEF db
  <2> QED BY <1>4, <2>1, LoadedWell
<1> HIDE DEF db
<1> QED BY <1>1, <1>4, <1>5 DEF RatingInv, W

LEMMA RecalculateFailsKeeps ==
  ASSUME RatingInv, NEW date, RecalculateFails(date)
  PROVE  RatingInv'
<1>1. d' = recalcAll(Deleted(date)) /\ UNCHANGED <<world, cdrs, m, prepared>>
  BY DEF RecalculateFails
<1> QED BY <1>1, KeptWell DEF RatingInv, W

LEMMA RatingInvStep ==
  ASSUME Rates, ListsAreOrdered, RatingInv, [Next]_vars
  PROVE  RatingInv'
<1>1. ASSUME NEW call \in W.calls, Arrive(call) PROVE RatingInv'
  BY <1>1, ArriveKeeps
<1>2. CASE Bill
  BY <1>2, BillKeeps
<1>3. CASE SavePrepare
  BY <1>3, PrepareKeeps
<1>4. CASE SaveCommit
  BY <1>4, CommitKeeps
<1>5. CASE SyncCounters
  BY <1>5 DEF SyncCounters, RatingInv, W
<1>6. CASE Restart
  BY <1>6, RestartKeeps
<1>7. ASSUME NEW date, Recalculate(date) PROVE RatingInv'
  BY <1>7, RecalculateKeeps
<1>8. ASSUME NEW date, RecalculateFails(date) PROVE RatingInv'
  BY <1>8, RecalculateFailsKeeps
<1>9. CASE UNCHANGED vars
  BY <1>9 DEF vars, RatingInv, W
<1> QED BY <1>1, <1>2, <1>3, <1>4, <1>5, <1>6, <1>7, <1>8, <1>9 DEF Next

LEMMA RatingInvInit ==
  ASSUME Init
  PROVE  RatingInv
<1>1. DbWell(d, 0, W.tables)
  BY DEF Init, DbWell
<1>2. MemWell(m, 0, W.tables)
  BY <1>1, LoadedWell DEF Init
<1>3. cdrs = <<>> /\ cdrs \in Seq({}) /\ Len(cdrs) = 0
  BY DEF Init
<1>4. RecordsWell(cdrs, W.calls)
  <2> DEFINE none == {}
  <2>1. cdrs \in Seq(none) /\ \A i \in 1..Len(cdrs) : RecordOf(cdrs[i], i, W.calls)
    BY <1>3
  <2> HIDE DEF none
  <2> QED BY <2>1 DEF RecordsWell
<1> QED BY <1>1, <1>2, <1>3, <1>4 DEF Init, RatingInv

(***************************************************************************)
(* Whatever records come and whatever tables the region has, every call in *)
(* memory or in the database charges nothing and uses up nothing, or is on *)
(* a trunk of our own, or is charged to a client with a service on the     *)
(* trunk of its leg; saves beside the billing, restarts, recalculations    *)
(* and recalculations that fail change nothing about it                    *)
(* (BillingCall::setupServiceTrunkForNumber, setupEffectiveOrig- and       *)
(* TermTrunkSettings, setupAccount, Billing::calc).  The hypothesis is     *)
(* that the searches of the repository return rows of their tables, which  *)
(* TLC evaluates for the tables it checks.                                 *)
(***************************************************************************)
THEOREM OwnersAreCharged ==
  ASSUME ListsAreOrdered, \A tables, mem, cdr : Rate(tables, mem, cdr) = Legs(tables, mem, cdr)
  PROVE  Spec => []ChargedToOwner
<1>1. Init => RatingInv
  BY RatingInvInit
<1>2. RatingInv /\ [Next]_vars => RatingInv'
  BY RatingInvStep DEF Rates
<1>3. RatingInv => ChargedToOwner
  <2> SUFFICES ASSUME RatingInv, NEW c \in Calls PROVE Well(c, Len(cdrs), W.tables)
    BY DEF ChargedToOwner, Well
  <2>1. PICK S : m.calls \in Seq(SUBSET S) /\ \A x \in S : Well(x, Len(cdrs), W.tables)
    BY DEF RatingInv, MemWell, PartsWell
  <2>2. UNION Range(m.calls) \subseteq S
    BY <2>1 DEF Range
  <2> QED BY <2>1, <2>2 DEF Calls, RatingInv, DbWell
<1> QED BY <1>1, <1>2, <1>3, PTL DEF Spec

=============================================================================
