----------------------------- MODULE MCServices -----------------------------
(***************************************************************************)
(* Six parts that do not act on one another, checked by one run: a         *)
(* behaviour picks one of them (`which`) and is a behaviour of that part.  *)
(* EventPull, TableSync and CdrFlow are extended, the others are instances *)
(* with variables of their own.                                            *)
(***************************************************************************)
EXTENDS EventPull, TableSync, CdrFlow, Integers, Sequences

VARIABLES which,
          data, avlTree, avlRoot,
          plusTree, minusTree, plus, minus, subtracted, given,
          locks, antiFraud, switch, blacklist, calc, fetching, ready, left

numberRangeVars == <<data, avlTree, avlRoot>>
prefixTreeVars  == <<plusTree, minusTree, plus, minus, subtracted, given>>
blackListsVars  == <<locks, antiFraud, switch, blacklist, calc, fetching, ready, left>>

allVars == <<which, vars, numberRangeVars, prefixTreeVars, tableVars, blackListsVars, flowVars>>

-----------------------------------------------------------------------------
NumberRange == INSTANCE NumberRange WITH MaxNumber <- 5, MaxRanges <- 3

PrefixTree == INSTANCE PrefixTree WITH Base <- 3, Digits <- 3, MaxRanges <- 2

(* Every event of a pull, and one nobody pulls for, which                  *)
(* install/sql/newpackages.lev1/event.queue.notify.all.sql queues.         *)
QueuedEvents == {p.event : p \in Pulls} \cup {"service_number_package"}

(* A client with a toll-free number, and a trunk that is not authorised by *)
(* number.                                                                 *)
BlackLists == INSTANCE BlackLists WITH
  Clients <- {"c"},
  NumbersOf <- [c \in {"c"} |-> {[did |-> "f", is7800 |-> TRUE]}],
  TrunksOf <- [c \in {"c"} |-> {[trunk_name |-> "t", auth_by_number |-> FALSE]}],
  MaxChanges <- 2, MaxLost <- 1, MaxRestarts <- 1

(* Four files around the turn of a month.  The second has a call that does *)
(* not parse, the fourth one without setup_time.  The switch wrote call c  *)
(* after b although it was answered in the month before; d was set up      *)
(* before the turn and answered after it, and u was not finished.          *)
CallOf(hash, setup, month) ==
  [hash |-> hash, route |-> "r", setup |-> setup, month |-> month, finished |-> TRUE, form |-> "good"]

CdrFiles ==
  << <<CallOf("a", 1, 1), CallOf("b", 2, 2)>>,
     <<[CallOf("x", 2, 2) EXCEPT !.form = "broken"], CallOf("y", 2, 2)>>,
     <<CallOf("c", 1, 1), CallOf("d", 1, 2)>>,
     <<[CallOf("u", 2, 2) EXCEPT !.finished = FALSE], [CallOf("z", 2, 2) EXCEPT !.form = "undated"]>> >>

-----------------------------------------------------------------------------
Parts == {"EventPull", "NumberRange", "PrefixTree", "TableSync", "BlackLists", "CdrFlow"}

AllInit ==
  /\ which \in Parts
  /\ Init
  /\ NumberRange!Init
  /\ PrefixTree!Init
  /\ TableInit
  /\ BlackLists!Init
  /\ FlowInit

AllNext ==
  /\ UNCHANGED which
  /\ \/ /\ which = "EventPull"
        /\ Next
        /\ UNCHANGED <<numberRangeVars, prefixTreeVars, tableVars, blackListsVars, flowVars>>
     \/ /\ which = "NumberRange"
        /\ NumberRange!Next
        /\ UNCHANGED <<vars, prefixTreeVars, tableVars, blackListsVars, flowVars>>
     \/ /\ which = "PrefixTree"
        /\ PrefixTree!Next
        /\ UNCHANGED <<vars, numberRangeVars, tableVars, blackListsVars, flowVars>>
     \/ /\ which = "TableSync"
        /\ TableNext
        /\ UNCHANGED <<vars, numberRangeVars, prefixTreeVars, blackListsVars, flowVars>>
     \/ /\ which = "BlackLists"
        /\ BlackLists!Next
        /\ UNCHANGED <<vars, numberRangeVars, prefixTreeVars, tableVars, flowVars>>
     \/ /\ which = "CdrFlow"
        /\ FlowNext
        /\ UNCHANGED <<vars, numberRangeVars, prefixTreeVars, tableVars, blackListsVars>>

(* The fairness of the parts that state one.                               *)
AllFairness ==
  /\ WF_vars(which = "EventPull" /\ Sync)
  /\ WF_vars(which = "EventPull" /\ Loader)
  /\ WF_blackListsVars(which = "BlackLists" /\ BlackLists!Load)
  /\ WF_blackListsVars(which = "BlackLists" /\ BlackLists!Calc)
  /\ WF_blackListsVars(which = "BlackLists" /\ BlackLists!Fetcher)
  /\ WF_flowVars(which = "CdrFlow" /\ Parser)
  /\ WF_flowVars(which = "CdrFlow" /\ SyncCdrs)

AllSpec == AllInit /\ [][AllNext]_allVars /\ AllFairness

-----------------------------------------------------------------------------
(* The search of the tree of number ranges finds a shortest range          *)
(* (NNPNumberRangeList::searchNumberRanges).                               *)
FindsShortest == which = "NumberRange" => NumberRange!FindsShortest

(* A tree of prefixes covers exactly the ranges added to it, and once a    *)
(* tree is subtracted holds none of the excluded numbers                   *)
(* (PrefixTree::addRange, subTree).                                        *)
PrefixesFollowRanges == which = "PrefixTree" => PrefixTree!CoversRanges /\ PrefixTree!ExcludesMinus

(* The switch's lists of locked numbers converge (BlackList::push, fetch). *)
BlackListsConverge == which = "BlackLists" => BlackLists!BlackListsConverge
=============================================================================
