---------------------------- MODULE NumberRange ----------------------------
(***************************************************************************)
(* The list of the national numbering plan's number ranges: ranges that    *)
(* may lie inside one another, kept in a balanced tree of key points.  A   *)
(* range hangs on the highest node whose key it contains, so a search that *)
(* follows one path sees every range containing the number; the shortest   *)
(* wins.  Insertion rebalances by rotations, which change who is highest.  *)
(* Only TLC evaluates this module: the tree's operations are recursive.    *)
(***************************************************************************)
EXTENDS Integers, Sequences, FiniteSets, SequencesExt, FiniteSetsExt

CONSTANTS MaxNumber,   \* bound: the largest phone number
          MaxRanges    \* bound: rows of the table

VARIABLES data,      \* the ranges, in the order of the query
          avlTree,   \* the nodes; links are positions, -1 for none
          avlRoot

vars == <<data, avlTree, avlRoot>>

\* What "full_number_from <= full_number_to" and "full_number_from >= 0" leave.
Rows == {r \in [from : 0..MaxNumber, to : 0..MaxNumber] : r.from <= r.to}

getLength(r) == r.to - r.from
getMidKey(r) == (r.to + r.from) \div 2

-----------------------------------------------------------------------------
(* One node.                                                               *)

isOverlaps(node, r) == r.from <= node.key /\ node.key <= r.to
addNNPNumberRange(node, index) == [node EXCEPT !.borders = Append(@, index)]
NNPNumberRangeTreeNode(index, r) ==
  [key |-> getMidKey(r), borders |-> <<index>>, left |-> -1, right |-> -1, height |-> 1]

Height(tree, p) == IF p = -1 THEN 0 ELSE tree[p].height
getBalanceFactor(tree, n) == Height(tree, tree[n].right) - Height(tree, tree[n].left)
fixHeight(tree, n) ==
  [tree EXCEPT ![n].height = Max({Height(tree, tree[n].left),
                                   Height(tree, tree[n].right)}) + 1]

\* The ranges of n that contain the key of q move up to q.
LiftBorders(tree, ranges, n, q) ==
  LET Lifts(i) == isOverlaps(tree[q], ranges[i])
  IN [tree EXCEPT ![q].borders = @ \o SelectSeq(tree[n].borders, Lifts),
                  ![n].borders = SelectSeq(@, LAMBDA i : ~Lifts(i))]

\* A rotation gives the tree and its new root.
\* Mutant: the ranges stay where they were.
rotateRightKeepsBorders(tree, ranges, n) ==
  LET q      == tree[n].left
      turned == [tree EXCEPT ![n].left = tree[q].right, ![q].right = n]
  IN [tree |-> fixHeight(fixHeight(turned, n), q), root |-> q]
rotateRight(tree, ranges, n) ==
  LET q      == tree[n].left
      turned == [tree EXCEPT ![n].left = tree[q].right, ![q].right = n]
  IN [tree |-> fixHeight(fixHeight(LiftBorders(turned, ranges, n, q), n), q), root |-> q]
rotateLeft(tree, ranges, n) ==
  LET q      == tree[n].right
      turned == [tree EXCEPT ![n].right = tree[q].left, ![q].left = n]
  IN [tree |-> fixHeight(fixHeight(LiftBorders(turned, ranges, n, q), n), q), root |-> q]
balance(t, ranges, n) ==
  LET tree == fixHeight(t, n)
      bf   == getBalanceFactor(tree, n)
  IN CASE bf = 2 ->
            LET child == tree[n].right
                inner == rotateRight(tree, ranges, child)
            IN IF getBalanceFactor(tree, child) < 0
               THEN rotateLeft([inner.tree EXCEPT ![n].right = inner.root], ranges, n)
               ELSE rotateLeft(tree, ranges, n)
       [] bf = -2 ->
            LET child == tree[n].left
                inner == rotateLeft(tree, ranges, child)
            IN IF getBalanceFactor(tree, child) > 0
               THEN rotateRight([inner.tree EXCEPT ![n].left = inner.root], ranges, n)
               ELSE rotateRight(tree, ranges, n)
       [] OTHER -> [tree |-> tree, root |-> n]
RECURSIVE insertNode(_, _, _, _)
insertNode(tree, ranges, p, index) ==
  LET r == ranges[index] IN
  IF p = -1 THEN [tree |-> Append(tree, NNPNumberRangeTreeNode(index, r)), root |-> Len(tree) + 1]
  ELSE IF isOverlaps(tree[p], r)
  THEN balance([tree EXCEPT ![p] = addNNPNumberRange(@, index)], ranges, p)
  ELSE IF getMidKey(r) < tree[p].key
  THEN LET below == insertNode(tree, ranges, tree[p].left, index)
       IN balance([below.tree EXCEPT ![p].left = below.root], ranges, p)
  ELSE LET below == insertNode(tree, ranges, tree[p].right, index)
       IN balance([below.tree EXCEPT ![p].right = below.root], ranges, p)

\* The row after the result so far: a range no longer than it replaces it.
Better(ranges, result, i) ==
  IF result # -1 /\ getLength(ranges[result]) < getLength(ranges[i]) THEN result ELSE i

RECURSIVE searchNumberRanges(_, _, _, _, _)
searchNumberRanges(tree, ranges, result, num, p) ==
  LET node == tree[p]
      hit  == SelectSeq(node.borders, LAMBDA i : ranges[i].from <= num /\ num <= ranges[i].to)
      here == FoldLeft(LAMBDA res, i : Better(ranges, res, i), result, hit)
      next == IF num <= node.key THEN node.left ELSE node.right
  IN IF num = node.key THEN FoldLeft(LAMBDA res, i : Better(ranges, res, i), result, node.borders)
     ELSE IF next = -1 THEN here
     ELSE searchNumberRanges(tree, ranges, here, num, next)

\* The position of the range found for a number, -1 for none.
getNNPNumberRange(tree, ranges, root, num) ==
  IF num <= 0 \/ ranges = <<>> THEN -1
  ELSE LET result == searchNumberRanges(tree, ranges, -1, num, root)
       IN IF result # -1 /\ ranges[result].from <= num /\ num <= ranges[result].to
          THEN result ELSE -1

-----------------------------------------------------------------------------
(* Loading the list: one row after another.                                *)

Init == data = <<>> /\ avlTree = <<>> /\ avlRoot = -1

parse_item_by_index(row) ==
  LET ranges == Append(data, row)
      after  == insertNode(avlTree, ranges, avlRoot, Len(ranges))
  IN /\ Len(data) < MaxRanges
     /\ data' = ranges
     /\ avlTree' = after.tree
     /\ avlRoot' = after.root

Next == \E row \in Rows : parse_item_by_index(row)

Spec == Init /\ [][Next]_vars

-----------------------------------------------------------------------------

\* A search that follows one path of the tree finds a shortest of all the
\* ranges that contain the number, whatever order they were loaded in and
\* whatever rotations that took (NNPNumberRangeList::searchNumberRanges).
FindsShortest ==
  \A num \in 1..MaxNumber :
    LET holding == {i \in 1..Len(data) : data[i].from <= num /\ num <= data[i].to}
        found   == getNNPNumberRange(avlTree, data, avlRoot, num)
    IN IF holding = {} THEN found = -1
       ELSE /\ found \in holding
            /\ \A i \in holding : getLength(data[found]) <= getLength(data[i])

=============================================================================
