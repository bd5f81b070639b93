------------------------ MODULE TarifficationProofs -------------------------
(***************************************************************************)
(* What the tariffication of one leg (BillingCall::calc) keeps on its      *)
(* way through the steps: the lemmas the proofs about rated calls and      *)
(* about authorised calls share.  Every step takes a leg to a leg, so each *)
(* lemma relates a leg with the same leg one step on.                      *)
(***************************************************************************)
EXTENDS Tariffication, TLAPS

\* A search by id finds a row with this id, or nothing.
LEMMA FoundById ==
  ASSUME NEW rows, NEW id, ById(rows, id) # nullptr
  PROVE  ById(rows, id) \in rows /\ ById(rows, id).id = id
BY DEF ById

\* The fields of a leg the lemmas look at.
Shape(s) ==
  /\ {"r", "m", "cdr", "mega", "call", "info", "stop"} \subseteq DOMAIN s
  /\ {"cdr_id", "account_id", "account_version", "trunk_id", "cost", "package_time"} \subseteq DOMAIN s.call
  /\ {"account", "trunk", "serviceNumber", "serviceTrunk"} \subseteq DOMAIN s.info

\* The leg keeps its tables, its record, its trunk and its account.
Keeps(s, t) ==
  Shape(s) =>
    /\ Shape(t) /\ t.r = s.r
    /\ t.call.account_id = s.call.account_id /\ t.info.account = s.info.account
    /\ t.call.trunk_id = s.call.trunk_id /\ t.info.trunk = s.info.trunk
    /\ t.call.cdr_id = s.call.cdr_id

-----------------------------------------------------------------------------
(* Every step of BillingCall but setupTrunk, setupAccount and TakeOrder    *)
(* keeps the tables, the record, the trunk and the account of its leg.     *)

LEMMA K_processSignalingCallId ==
  ASSUME NEW s
  PROVE  Keeps(s, processSignalingCallId(s))
BY DEF Keeps, Shape, processSignalingCallId

LEMMA K_numberPreprocessing ==
  ASSUME NEW s
  PROVE  Keeps(s, numberPreprocessing(s))
BY DEF Keeps, Shape, numberPreprocessing

LEMMA K_processRedirectNumber ==
  ASSUME NEW s
  PROVE  Keeps(s, processRedirectNumber(s))
BY DEF Keeps, Shape, processRedirectNumber, processLineWithoutNumber

LEMMA K_processGeo ==
  ASSUME NEW s
  PROVE  Keeps(s, processGeo(s))
BY DEF Keeps, Shape, processGeo

LEMMA K_processDestinations ==
  ASSUME NEW s
  PROVE  Keeps(s, processDestinations(s))
BY DEF Keeps, Shape, processDestinations

LEMMA K_processNNP ==
  ASSUME NEW s
  PROVE  Keeps(s, processNNP(s))
BY DEF Keeps, Shape, processNNP

LEMMA K_setupServiceTrunk ==
  ASSUME NEW s
  PROVE  Keeps(s, setupServiceTrunk(s))
BY DEF Keeps, Shape, setupServiceTrunk, Need, Throw

LEMMA K_setupServiceNumber ==
  ASSUME NEW s
  PROVE  Keeps(s, setupServiceNumber(s))
BY DEF Keeps, Shape, setupServiceNumber, Need, Throw

LEMMA K_setupServiceTrunkForNumber ==
  ASSUME NEW s
  PROVE  Keeps(s, setupServiceTrunkForNumber(s))
BY DEF Keeps, Shape, setupServiceTrunkForNumber, Throw

LEMMA K_setupBilledTime ==
  ASSUME NEW s
  PROVE  Keeps(s, setupBilledTime(s))
BY DEF Keeps, Shape, setupBilledTime

LEMMA K_setupCost ==
  ASSUME NEW s
  PROVE  Keeps(s, setupCost(s))
BY DEF Keeps, Shape, setupCost

LEMMA K_setupLogTariff ==
  ASSUME NEW s
  PROVE  Keeps(s, setupLogTariff(s))
BY DEF Keeps, Shape, setupLogTariff, Need, Throw

LEMMA K_setupMainTariff ==
  ASSUME NEW s
  PROVE  Keeps(s, setupMainTariff(s))
BY DEF Keeps, Shape, setupMainTariff, Need, Throw

LEMMA K_setupTariff ==
  ASSUME NEW s
  PROVE  Keeps(s, setupTariff(s))
BY DEF Keeps, Shape, setupTariff, Need, Throw

LEMMA K_setupPackagePricelist ==
  ASSUME NEW s
  PROVE  Keeps(s, setupPackagePricelist(s))
BY DEF Keeps, Shape, setupPackagePricelist

LEMMA K_setupFreemin ==
  ASSUME NEW s
  PROVE  Keeps(s, setupFreemin(s))
BY DEF Keeps, Shape, setupFreemin

LEMMA K_setupPackagePrepaid ==
  ASSUME NEW s
  PROVE  Keeps(s, setupPackagePrepaid(s))
BY DEF Keeps, Shape, setupPackagePrepaid

LEMMA K_setupInterconnect ==
  ASSUME NEW s
  PROVE  Keeps(s, setupInterconnect(s))
BY DEF Keeps, Shape, setupInterconnect, Interconnect

LEMMA K_setupNNPInterconnect ==
  ASSUME NEW s
  PROVE  Keeps(s, setupNNPInterconnect(s))
BY DEF Keeps, Shape, setupNNPInterconnect, Interconnect

LEMMA K_setVatFlag ==
  ASSUME NEW s
  PROVE  Keeps(s, setVatFlag(s))
BY DEF Keeps, Shape, setVatFlag

LEMMA K_processLineWithoutNumber ==
  ASSUME NEW s, NEW t
  PROVE  Keeps(s, processLineWithoutNumber(s, t))
BY DEF Keeps, Shape, processLineWithoutNumber

LEMMA K_setupPricelist ==
  ASSUME NEW s, NEW n
  PROVE  Keeps(s, setupPricelist(s, n))
BY DEF Keeps, Shape, setupPricelist, Need, Throw

LEMMA K_setupPrice ==
  ASSUME NEW s, NEW n
  PROVE  Keeps(s, setupPrice(s, n))
BY DEF Keeps, Shape, setupPrice, Need, Throw

LEMMA K_setupBilledTimeNNP ==
  ASSUME NEW s, NEW n
  PROVE  Keeps(s, setupBilledTimeNNP(s, n))
BY DEF Keeps, Shape, setupBilledTimeNNP, Throw

LEMMA K_SetupNNPRate ==
  ASSUME NEW s, NEW n, NEW d
  PROVE  Keeps(s, SetupNNPRate(s, n, d))
BY DEF Keeps, Shape, SetupNNPRate

LEMMA K_UseMinutes ==
  ASSUME NEW s, NEW n, NEW d
  PROVE  Keeps(s, UseMinutes(s, n, d))
BY DEF Keeps, Shape, UseMinutes

LEMMA K_Throw ==
  ASSUME NEW s, NEW w
  PROVE  Keeps(s, Throw(s, w))
BY DEF Keeps, Shape, Throw

\* Keeping is transitive and reflexive.
LEMMA K_Trans ==
  ASSUME NEW s, NEW t, NEW u, Keeps(s, t), Keeps(t, u)
  PROVE  Keeps(s, u)
BY DEF Keeps

LEMMA K_Refl ==
  ASSUME NEW s
  PROVE  Keeps(s, s)
BY DEF Keeps

\* Taking an order changes the account of the leg, never its account_id.
LEMMA K_TakeOrder ==
  ASSUME NEW s, NEW order, Shape(s)
  PROVE  Shape(TakeOrder(s, order)) /\ TakeOrder(s, order).call.account_id = s.call.account_id
<1> DEFINE IdOf(x, id) == IF x = nullptr THEN id ELSE x.id
           a == [s EXCEPT !.info.account = order.account, !.info.serviceTrunk = order.serviceTrunk,
                     !.info.trunkSettings = order.trunkSettings, !.info.pricelist = order.pricelist,
                     !.info.price = order.price]
           b == [a EXCEPT !.info.nnpPackage = order.nnpPackage,
                    !.info.nnpPackagePricelist = order.nnpPackagePricelist,
                    !.info.nnpPackagePrice = order.nnpPackagePrice,
                    !.call.nnp_package_price_id = IdOf(order.nnpPackagePrice, @),
                    !.call.nnp_package_pricelist_id = IdOf(order.nnpPackagePricelist, @),
                    !.call.nnp_package_id = IdOf(order.nnpPackage, @), !.call.rate = order.nnp_price]
<1>1. Shape(a) /\ a.call.account_id = s.call.account_id
  BY DEF Shape
<1>2. Shape(b) /\ b.call.account_id = a.call.account_id
  <2> HIDE DEF a, IdOf
  <2> QED BY <1>1 DEF Shape
<1>3. TakeOrder(s, order) \in {a, b}
  BY DEF TakeOrder
<1> HIDE DEF a, b
<1> QED BY <1>1, <1>2, <1>3
(* So do the steps they are put together into.                             *)

LEMMA K_calcOrigNNPByNumber ==
  ASSUME NEW s
  PROVE  Keeps(s, calcOrigNNPByNumber(s))
BY K_SetupNNPRate, K_setupBilledTimeNNP, K_UseMinutes, K_Throw, K_setupCost, K_Trans, K_Refl
   DEF calcOrigNNPByNumber, Then, Need, setupNNPCost

LEMMA K_NumberPrice ==
  ASSUME NEW s
  PROVE  Keeps(s, NumberPrice(s))
BY K_setupTariff, K_setupPricelist, K_setupPrice, K_Trans DEF NumberPrice, Then

LEMMA K_calcOrigByNumber ==
  ASSUME NEW s
  PROVE  Keeps(s, calcOrigByNumber(s))
<1> DEFINE a == Then(Then(Then(setupLogTariff(s), setupMainTariff), setupBilledTime), setupPackagePricelist)
           b == Then(Then(Then(Then(a, NumberPrice), setupFreemin), setupPackagePrepaid), setupCost)
<1>1. Keeps(s, a)
  BY K_setupLogTariff, K_setupMainTariff, K_setupBilledTime, K_setupPackagePricelist, K_Trans DEF Then
<1>2. Keeps(s, b)
  <2> HIDE DEF a
  <2> QED BY <1>1, K_NumberPrice, K_setupFreemin, K_setupPackagePrepaid, K_setupCost, K_Trans DEF Then
<1>3. calcOrigByNumber(s) \in {calcOrigNNPByNumber(s), b, Throw(s, "UNKNOW ACCOUNT VERSION")}
  BY DEF calcOrigByNumber
<1> HIDE DEF b
<1> QED BY <1>2, <1>3, K_calcOrigNNPByNumber, K_Throw

LEMMA K_Paid7800 ==
  ASSUME NEW s
  PROVE  Keeps(s, Paid7800(s))
<1>1. ASSUME NEW x PROVE Keeps(x, [x EXCEPT !.call.cost = -@])
  BY DEF Keeps, Shape
<1> QED BY <1>1, K_setupPricelist, K_setupPrice, K_setupCost, K_Trans DEF Paid7800, Then

LEMMA K_calcTermByNumber ==
  ASSUME NEW s
  PROVE  Keeps(s, calcTermByNumber(s))
BY K_setupLogTariff, K_setupMainTariff, K_setupBilledTime, K_Paid7800, K_Trans
   DEF calcTermByNumber, Then

LEMMA K_TrunkPrice ==
  ASSUME NEW s
  PROVE  Keeps(s, TrunkPrice(s))
BY K_setupPackagePricelist, K_setupPricelist, K_setupPrice, K_setupBilledTime, K_Trans, K_Refl
   DEF TrunkPrice, OrigPackage, Then

LEMMA K_calcByTrunkV4 ==
  ASSUME NEW s
  PROVE  Keeps(s, calcByTrunkV4(s))
BY K_TrunkPrice, K_setupPackagePrepaid, K_setupInterconnect, K_setupCost, K_Trans
   DEF calcByTrunkV4, OrigPackage, Then

LEMMA K_calcByTrunkV5 ==
  ASSUME NEW s
  PROVE  Keeps(s, calcByTrunkV5(s))
BY K_setupBilledTimeNNP, K_setupNNPInterconnect, K_setupCost, K_Trans DEF calcByTrunkV5, Then,
   setupNNPCost

-----------------------------------------------------------------------------
(* A leg's account_id is 0 until setupAccount writes it, together with the *)
(* account it stands for; no step after that changes either.               *)

Unsettled(s) == Shape(s) /\ s.call.account_id = 0
Settled(s) ==
  /\ Shape(s)
  /\ s.call.account_id = 0 \/ (s.info.account # nullptr /\ s.info.account.id = s.call.account_id)

\* The call of a leg that begins, and the leg.
FreshCall(call, id) ==
  /\ {"cdr_id", "account_id", "account_version", "trunk_id", "cost", "package_time"} \subseteq DOMAIN call
  /\ call.cdr_id = id /\ call.account_id = 0 /\ call.cost = 0 /\ call.package_time = 0

Blank(s) ==
  /\ Shape(s) /\ s.call.account_id = 0 /\ s.call.cost = 0 /\ s.call.package_time = 0
  /\ s.info.serviceNumber = nullptr /\ s.info.serviceTrunk = nullptr

\* The constructor of Call gives such a call.
LEMMA CallIsFresh ==
  ASSUME NEW cdr, NEW orig, NEW id
  PROVE  FreshCall(Call(cdr, orig, id), cdr.id)
BY DEF FreshCall, Call

\* A leg begins with nothing found and nothing charged.
LEMMA StartsBlank ==
  ASSUME NEW r, NEW m, NEW cdr, NEW mega, NEW call, NEW id, FreshCall(call, id)
  PROVE  LET s == [r |-> r, m |-> m, cdr |-> cdr, mega |-> mega, call |-> call, info |-> CallInfo, stop |-> ""]
         IN Blank(s) /\ s.r = r /\ s.call.cdr_id = id /\ s.cdr = cdr
<1> DEFINE s == [r |-> r, m |-> m, cdr |-> cdr, mega |-> mega, call |-> call, info |-> CallInfo, stop |-> ""]
<1>1. /\ {"account", "trunk", "serviceNumber", "serviceTrunk"} \subseteq DOMAIN CallInfo
      /\ CallInfo.serviceNumber = nullptr /\ CallInfo.serviceTrunk = nullptr
  BY DEF CallInfo
<1>2. /\ {"r", "m", "cdr", "mega", "call", "info", "stop"} \subseteq DOMAIN s
      /\ s.call = call /\ s.info = CallInfo /\ s.r = r /\ s.cdr = cdr
  OBVIOUS
<1> HIDE DEF s
<1>3. Blank(s) /\ s.r = r /\ s.call.cdr_id = id /\ s.cdr = cdr
  BY <1>1, <1>2 DEF Blank, Shape, FreshCall
<1> QED BY <1>3 DEF s

LEMMA KeptUnsettled ==
  ASSUME NEW s, NEW t, Keeps(s, t), Unsettled(s)
  PROVE  Unsettled(t)
BY DEF Keeps, Unsettled

LEMMA KeptSettled ==
  ASSUME NEW s, NEW t, Keeps(s, t), Settled(s)
  PROVE  Settled(t)
BY DEF Keeps, Settled

LEMMA UnsettledIsSettled ==
  ASSUME NEW s, Unsettled(s)
  PROVE  Settled(s)
BY DEF Unsettled, Settled

\* setupAccount writes the id of the account it has found, or throws first.
LEMMA AccountSettles ==
  ASSUME NEW s, Unsettled(s)
  PROVE  Settled(setupAccount(s))
BY DEF Unsettled, Settled, Shape, setupAccount, Need, Throw

LEMMA TakenUnsettled ==
  ASSUME NEW s, NEW o, Unsettled(s)
  PROVE  Unsettled(TakeOrder(s, o))
BY K_TakeOrder DEF Unsettled

LEMMA OrigUnsettled ==
  ASSUME NEW s, Unsettled(s)
  PROVE  Unsettled(setupEffectiveOrigTrunkSettings(s))
BY TakenUnsettled DEF setupEffectiveOrigTrunkSettings

LEMMA TermUnsettled ==
  ASSUME NEW s, Unsettled(s)
  PROVE  Unsettled(setupEffectiveTermTrunkSettings(s))
<1>1. ASSUME NEW m PROVE Unsettled([s EXCEPT !.m = m])
  BY DEF Unsettled, Shape
<1>2. ASSUME NEW x, NEW y, Unsettled(x) PROVE Unsettled([x EXCEPT !.call.trunk_settings_stats_id = y])
  BY <1>2 DEF Unsettled, Shape
<1> QED BY <1>1, <1>2, TakenUnsettled, K_Throw, KeptUnsettled DEF setupEffectiveTermTrunkSettings

\* A leg on a trunk: the order's account is replaced when setupAccount writes the id.
LEMMA ByTrunkSettles ==
  ASSUME NEW s, Unsettled(s)
  PROVE  Settled(calcByTrunk(s))
<1> DEFINE a == IF s.call.orig THEN setupEffectiveOrigTrunkSettings(s) ELSE setupEffectiveTermTrunkSettings(s)
           b == Then(Then(a, setupServiceTrunk), setupAccount)
<1>1. Unsettled(a)
  BY OrigUnsettled, TermUnsettled
<1>2. Settled(b)
  <2> HIDE DEF a
  <2> QED BY <1>1, K_setupServiceTrunk, KeptUnsettled, UnsettledIsSettled, AccountSettles DEF Then
<1>3. calcByTrunk(s) = Then(b, LAMBDA x : CASE x.call.account_version = CALL_ACCOUNT_VERSION_4 -> calcByTrunkV4(x)
                          [] x.call.account_version = CALL_ACCOUNT_VERSION_5 -> calcByTrunkV5(x)
                          [] OTHER -> Throw(x, "UNKNOW ACCOUNT VERSION"))
  BY DEF calcByTrunk
<1> HIDE DEF b
<1> QED BY <1>2, <1>3, K_calcByTrunkV4, K_calcByTrunkV5, K_Throw, KeptSettled DEF Then

\* A leg on a number.
LEMMA ByNumberSettles ==
  ASSUME NEW s, NEW skip, Unsettled(s)
  PROVE  Settled(calcByNumber(s, skip))
<1> DEFINE a == IF s.call.orig /\ ToNumber(s.cdr.redirect_number) = Zero
                THEN processLineWithoutNumber(s, s.cdr.src_number) ELSE s
           b == Then(Then(setupServiceNumber(a), setupServiceTrunkForNumber), setupAccount)
<1>1. Unsettled(a)
  BY K_processLineWithoutNumber, KeptUnsettled
<1>2. Settled(b)
  <2> HIDE DEF a
  <2> QED BY <1>1, K_setupServiceNumber, K_setupServiceTrunkForNumber, KeptUnsettled,
             UnsettledIsSettled, AccountSettles DEF Then
<1>3. calcByNumber(s, skip) \in {b, calcTermByNumber(b), [b EXCEPT !.call.is_service_number = TRUE],
                               calcOrigByNumber(b)}
  BY DEF calcByNumber, Then
<1> HIDE DEF b
<1>4. Keeps(b, [b EXCEPT !.call.is_service_number = TRUE])
  BY DEF Keeps, Shape
<1> QED BY <1>2, <1>3, <1>4, K_calcTermByNumber, K_calcOrigByNumber, KeptSettled

\* The steps before the leg is given to the trunk or the number leave it unsettled.
LEMMA TrunkUnsettled ==
  ASSUME NEW s, Unsettled(s)
  PROVE  Unsettled(setupTrunk(s))
BY DEF Unsettled, Shape, setupTrunk, Throw, Need

LEMMA OnTrunkUnsettled ==
  ASSUME NEW s, Unsettled(s)
  PROVE  Unsettled(OnTrunk(s))
BY TrunkUnsettled, K_processSignalingCallId, K_numberPreprocessing, K_processRedirectNumber,
   KeptUnsettled DEF OnTrunk, Then

LEMMA PlacedUnsettled ==
  ASSUME NEW s, Unsettled(s)
  PROVE  Unsettled(Placed(s))
BY OnTrunkUnsettled, K_processGeo, K_processDestinations, K_processNNP, KeptUnsettled DEF Placed, Then

(***************************************************************************)
(* What BillingCall::calc leaves in account_id is the id of the account    *)
(* it leaves in the leg's CallInfo, or 0: who is asked about the balance   *)
(* is who is charged.                                                      *)
(***************************************************************************)
LEMMA CalcSettles ==
  ASSUME NEW s, Unsettled(s)
  PROVE  Settled(calc(s))
<1>1. ASSUME NEW x, Unsettled(x) PROVE Settled(calcByTrunkOrNumber(x))
  BY <1>1, ByNumberSettles, ByTrunkSettles DEF calcByTrunkOrNumber
<1> QED BY <1>1, PlacedUnsettled, UnsettledIsSettled, K_setVatFlag, KeptSettled DEF calc, Then

=============================================================================
