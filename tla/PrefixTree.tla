----------------------------- MODULE PrefixTree -----------------------------
(***************************************************************************)
(* Ranges of numbers turned into prefixes.  A tree node has one child per  *)
(* digit: nothing (NO), everything below (ALL) or another node.  Here a    *)
(* node is the sequence of digits that leads to it, and a tree is the set  *)
(* of its nodes and the set of its ALL children.  The prefixes of a        *)
(* destination are the tree of the ranges added to it minus the tree of    *)
(* the ranges excluded from it.  Only TLC evaluates this module.           *)
(***************************************************************************)
EXTENDS Integers, Sequences, FiniteSets, SequencesExt, FiniteSetsExt

CONSTANTS Base,        \* bound: the digits, 10 in the code
          Digits,      \* bound: the length of the numbers
          MaxRanges    \* bound: ranges added to or excluded from a destination

VARIABLES plusTree, minusTree,
          plus, minus,   \* history: the numbers of the ranges given so far
          subtracted, given

vars == <<plusTree, minusTree, plus, minus, subtracted, given>>

Empty == [all |-> {}, nodes |-> {}]
Digit == 0..(Base - 1)
\* "%lld" prints no leading zero.
Numbers == {n \in [1..Digits -> Digit] : n[1] # 0}

-----------------------------------------------------------------------------
(* PrefixNode: a child is replaced together with what hangs below it.      *)

Detached(t, p) ==
  [all |-> {q \in t.all : ~IsPrefix(p, q)}, nodes |-> {q \in t.nodes : ~IsPrefix(p, q)}]
setNO(t, p)   == Detached(t, p)
setALL(t, p)  == [Detached(t, p) EXCEPT !.all = @ \cup {p}]
setNode(t, p) == [t EXCEPT !.nodes = @ \cup {p}]
setAll(t, p)  == [t EXCEPT !.all = @ \cup {Append(p, d) : d \in Digit}]
Children(p, from, to) == {Append(p, d) : d \in from..to}
getCount(t, p) == Cardinality({d \in Digit : Append(p, d) \in t.all})

SetEach(t, ps) == FoldSet(LAMBDA p, u : setALL(u, p), t, ps)
\* Mutant: one child too early.
ClosedEarly(t, p) == IF getCount(t, p) >= Base - 1 THEN setALL(t, p) ELSE t
\* "== 10": a node all of whose children are ALL becomes ALL itself.
Closed(t, p) == IF getCount(t, p) = Base THEN setALL(t, p) ELSE t

-----------------------------------------------------------------------------
(* PrefixTree.                                                             *)

\* Below node p, the numbers from num upwards (rangeUp), downwards (rangeDown).
RECURSIVE rangeUp(_, _, _, _)
rangeUp(t, p, num, k) ==
  LET c   == Append(p, num[k])
      own == IF k = Digits THEN setALL(t, c)
             ELSE IF c \in t.all THEN t
             ELSE Closed(rangeUp(setNode(t, c), c, num, k + 1), c)
  IN SetEach(own, Children(p, num[k] + 1, Base - 1))

RECURSIVE rangeDown(_, _, _, _)
rangeDown(t, p, num, k) ==
  LET c   == Append(p, num[k])
      own == IF k = Digits THEN setALL(t, c)
             ELSE IF c \in t.all THEN t
             ELSE Closed(rangeDown(setNode(t, c), c, num, k + 1), c)
  IN SetEach(own, Children(p, 0, num[k] - 1))

RECURSIVE addRange(_, _, _, _, _)
addRange(t, p, high, low, k) ==
  LET h == Append(p, high[k])
      l == Append(p, low[k])
      between == SetEach(t, Children(p, low[k] + 1, high[k] - 1))
      down == IF h \in between.all THEN between
              ELSE Closed(rangeDown(setNode(between, h), h, high, k + 1), h)
  IN IF h = l
     THEN IF h \in t.all THEN t
          ELSE IF k = Digits THEN setALL(t, h)
          ELSE Closed(addRange(setNode(t, h), h, high, low, k + 1), h)
     ELSE IF k = Digits THEN SetEach(between, {h, l})
     ELSE IF l \in down.all THEN down
     ELSE Closed(rangeUp(setNode(down, l), l, low, k + 1), l)

RECURSIVE subNode(_, _, _)
subNode(t, tree, p) ==
  LET one(d, u) ==
        LET c == Append(p, d)
            opened == IF c \in u.all THEN setAll(setNode(setNO(u, c), c), c) ELSE u
            below  == subNode(opened, tree, c)
        IN IF c \notin u.all \cup u.nodes THEN u
           ELSE IF c \in tree.all THEN setNO(u, c)
           ELSE IF c \notin tree.nodes THEN u
           ELSE IF getCount(below, c) = 0 THEN setNO(below, c) ELSE below
  IN FoldSet(one, t, Digit)

checkInclusion(t, num) == \E k \in 1..Digits : SubSeq(num, 1, k) \in t.all

-----------------------------------------------------------------------------
(* getPrefixByNNPDestination: the ranges added, the ranges excluded, and   *)
(* the difference.  A range's ends have the same number of digits.         *)

NotAbove(a, b) == a = b \/ \E i \in 1..Digits : a[i] < b[i] /\ \A j \in 1..(i - 1) : a[j] = b[j]

Init ==
  /\ plusTree = Empty /\ minusTree = Empty
  /\ plus = {} /\ minus = {}
  /\ subtracted = FALSE /\ given = 0

AddPlus(from, to) ==
  /\ ~subtracted /\ minus = {} /\ given < MaxRanges
  /\ plusTree' = addRange(plusTree, <<>>, to, from, 1)
  /\ plus' = plus \cup {n \in Numbers : NotAbove(from, n) /\ NotAbove(n, to)}
  /\ given' = given + 1
  /\ UNCHANGED <<minusTree, minus, subtracted>>

AddMinus(from, to) ==
  /\ ~subtracted /\ given < MaxRanges
  /\ minusTree' = addRange(minusTree, <<>>, to, from, 1)
  /\ minus' = minus \cup {n \in Numbers : NotAbove(from, n) /\ NotAbove(n, to)}
  /\ given' = given + 1
  /\ UNCHANGED <<plusTree, plus, subtracted>>

subTree ==
  /\ ~subtracted
  /\ plusTree' = subNode(plusTree, minusTree, <<>>)
  /\ subtracted' = TRUE
  /\ UNCHANGED <<minusTree, plus, minus, given>>

Next ==
  \/ \E from, to \in Numbers : NotAbove(from, to) /\ (AddPlus(from, to) \/ AddMinus(from, to))
  \/ subTree

Spec == Init /\ [][Next]_vars

-----------------------------------------------------------------------------

Included(t) == {n \in Numbers : checkInclusion(t, n)}

\* The prefixes of a tree cover exactly the numbers of the ranges added to it,
\* whatever ranges overlap, touch or repeat (PrefixTree::addRange).
CoversRanges == /\ ~subtracted => Included(plusTree) = plus
                /\ Included(minusTree) = minus

\* After the subtraction no number that was excluded, or never added, is left
\* in the prefixes of the destination (PrefixTree::subTree).
ExcludesMinus == subtracted => Included(plusTree) \subseteq plus \ minus

=============================================================================
