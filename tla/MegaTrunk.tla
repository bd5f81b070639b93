----------------------------- MODULE MegaTrunk -----------------------------
(***************************************************************************)
(* StateMegaTrunk: calls of clients that have both numbers and a trunk of  *)
(* their own are carried between regions in two phases, and only one of    *)
(* the regions may charge them.  A state is a record made from the route   *)
(* and the numbers of a call.  The services are looked at as they are now, *)
(* not as they were when the call took place.                              *)
(***************************************************************************)
EXTENDS Repository

getServiceTrunkByClientID(r, client_id) ==
  SelectSeq(load(r.service_trunk, LAMBDA x : <<<<x.trunk_id>>, <<x.activation_dt>>>>),
            LAMBDA x : x.client_account_id = client_id)

\* The trunks a client uses at this moment.
ActiveTrunks(r, client_id) ==
  SelectSeq(getServiceTrunkByClientID(r, client_id),
            LAMBDA x : r.now <= x.expire_dt /\ x.activation_dt <= r.now)

prepareFromCdr(r, origRegion, src_route, aNumber, bNumber) ==
  [src_trunk |-> getTrunkByName(r, src_route, origRegion),
   serviceNumberNumA |-> getServiceNumber(r, aNumber),
   serviceNumberNumB |-> getServiceNumber(r, bNumber),
   simblingRegions |-> getSimblingRegion(r, origRegion),
   isPhase1 |-> FALSE, isPhase2 |-> FALSE, isNeedForceTermAuthByNumber |-> FALSE,
   isNeedForceTermTarifficationSkip |-> FALSE, destTrunk |-> nullptr, destRegion |-> 0]

\* A call to a number of the client goes to the region of the trunk (phase 1),
\* or into the trunk (phase 2): the first trunk decides.
CollectsCalls(r, q) ==
  IF q.serviceNumberNumB = nullptr THEN nullptr
  ELSE First(SelectSeq(ActiveTrunks(r, q.serviceNumberNumB.client_account_id), LAMBDA x : x.term_enabled))
\* A call that comes out of the trunk of the client goes to the region of its
\* number, if that is another one.
EmitsCalls(r, q) ==
  IF q.serviceNumberNumA = nullptr THEN nullptr
  ELSE First(SelectSeq(ActiveTrunks(r, q.serviceNumberNumA.client_account_id),
                       LAMBDA x : /\ x.orig_enabled /\ x.trunk_id = q.src_trunk.id
                                  /\ getTrunk(r, x.trunk_id) # nullptr
                                  /\ q.serviceNumberNumA.server_id \notin q.simblingRegions))
PhaseCalc(r, q) ==
  LET to   == CollectsCalls(r, q)
      from == EmitsCalls(r, q)
  IN CASE q.src_trunk = nullptr -> q
       [] q.src_trunk # nullptr /\ to # nullptr ->
            IF to.server_id \notin q.simblingRegions
            THEN [q EXCEPT !.destRegion = to.server_id, !.isPhase1 = TRUE,
                           !.isNeedForceTermAuthByNumber = TRUE]
            ELSE [q EXCEPT !.destTrunk = getTrunk(r, to.trunk_id),
                           !.isPhase2 = getTrunk(r, to.trunk_id) # nullptr,
                           !.isNeedForceTermTarifficationSkip = getTrunk(r, to.trunk_id) # nullptr]
       [] OTHER ->
            IF from = nullptr THEN q
            ELSE [q EXCEPT !.isPhase1 = TRUE, !.destRegion = q.serviceNumberNumA.server_id,
                           !.destTrunk = getTrunk(r, from.trunk_id)]

isForceOrgAuthByNumber(r, q) ==
  /\ q.src_trunk # nullptr
  /\ q.serviceNumberNumA # nullptr
  /\ q.serviceNumberNumA.server_id \in q.simblingRegions
  /\ \E i \in DOMAIN ActiveTrunks(r, q.serviceNumberNumA.client_account_id) :
       ActiveTrunks(r, q.serviceNumberNumA.client_account_id)[i].server_id \in q.src_trunk.road_to_regions
isForceOrigTarifficationSkip(r, q) ==
  /\ q.src_trunk # nullptr
  /\ q.serviceNumberNumA # nullptr
  /\ \E i \in DOMAIN ActiveTrunks(r, q.serviceNumberNumA.client_account_id) :
       LET x == ActiveTrunks(r, q.serviceNumberNumA.client_account_id)[i]
       IN /\ x.orig_enabled /\ x.trunk_id = q.src_trunk.id
          /\ getTrunk(r, x.trunk_id) # nullptr
          /\ ~isRegionOnHub(r, q.serviceNumberNumA.server_id)
isTechOrig(q) == q.src_trunk # nullptr /\ q.src_trunk.tech_trunk

\* Billing::calc bills only the calls this region has to charge.
isBilled(r, q) ==
  ~(isForceOrigTarifficationSkip(r, q) \/ q.isNeedForceTermTarifficationSkip \/ isTechOrig(q))

=============================================================================
