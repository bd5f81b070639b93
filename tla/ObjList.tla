------------------------------ MODULE ObjList ------------------------------
(***************************************************************************)
(* The lists in memory and how they are searched.  A list is the answer of *)
(* its query, in the order the query asks for; every search is a binary    *)
(* one of the standard library, right only when that order agrees with the *)
(* comparison the search uses.  Texts (numbers, prefixes, names) are       *)
(* sequences of digits or letters given as numbers; a key is a sequence.   *)
(***************************************************************************)
EXTENDS Naturals, Sequences, SequencesExt, FiniteSetsExt

CONSTANT nullptr

\* strcmp(a, b) < 0
strcmpLess(a, b) ==
  \E i \in 1..Len(b) :
    /\ IF i <= Len(a) THEN a[i] < b[i] ELSE i = Len(a) + 1
    /\ \A j \in 1..(i - 1) : a[j] = b[j]

-----------------------------------------------------------------------------
(* The query: the rows ordered by key after key, and put into the list.    *)

\* The order of "order by k1, k2, ...": keys is a sequence of keys.
KeysLess(a, b) ==
  \E i \in 1..Len(a) : strcmpLess(a[i], b[i]) /\ \A j \in 1..(i - 1) : a[j] = b[j]

Inserted(list, row, Keys(_)) ==
  LET at == Cardinality({i \in 1..Len(list) : ~KeysLess(Keys(row), Keys(list[i]))})
  IN SubSeq(list, 1, at) \o <<row>> \o SubSeq(list, at + 1, Len(list))

\* ObjList::load of the rows the query selects.
load(rows, Keys(_)) == FoldSet(LAMBDA row, list : Inserted(list, row, Keys), <<>>, rows)

-----------------------------------------------------------------------------
(* The searches of the standard library.  Positions are those of the list, *)
(* one past the end included.                                              *)

\* lower_bound and upper_bound: the first position in first..first+len where
\* Before is false, by halving.
partition_point(list, first, len, Before(_)) ==
  LET search[f \in 1..(Len(list) + 1), n \in 0..Len(list)] ==
        LET half == n \div 2 IN
        IF n = 0 THEN f
        ELSE IF Before(list[f + half]) THEN search[f + half + 1, n - half - 1]
        ELSE search[f, half]
  IN search[first, len]

\* equal_range, as the part of the list it encloses.
equal_range(list, Before(_), After(_)) ==
  LET search[f \in 1..(Len(list) + 1), n \in 0..Len(list)] ==
        LET half == n \div 2
            mid  == f + half
        IN IF n = 0 THEN <<>>
           ELSE IF Before(list[mid]) THEN search[mid + 1, n - half - 1]
           ELSE IF After(list[mid]) THEN search[f, half]
           ELSE SubSeq(list, partition_point(list, f, half, Before),
                       partition_point(list, mid + 1, n - half - 1, LAMBDA x : ~After(x)) - 1)
  IN search[1, Len(list)]

\* The narrowing every find is made of: by a key, or by an interval of time.
Where(list, Key(_), key) ==
  equal_range(list, LAMBDA x : strcmpLess(Key(x), key), LAMBDA x : strcmpLess(key, Key(x)))
WhereActive(list, From(_), To(_), time) ==
  equal_range(list, LAMBDA x : To(x) < time, LAMBDA x : time < From(x))
Until(list, From(_), time) ==
  SubSeq(list, 1, partition_point(list, 1, Len(list), LAMBDA x : From(x) <= time) - 1)

\* begin < end ? &*begin : nullptr
First(list) == IF list = <<>> THEN nullptr ELSE list[1]

Id(row) == <<row.id>>
\* equal_range by id: the lists searched so are in the order of their ids.
ById(rows, id) ==
  LET same == {x \in rows : x.id = id} IN IF same = {} THEN nullptr ELSE CHOOSE x \in same : TRUE

\* The prefixes of a number, the longest first, until one is found.
LongestPrefix(number, Find(_)) ==
  LET found == {n \in 1..Len(number) : Find(SubSeq(number, 1, n)) # nullptr}
  IN IF found = {} THEN nullptr ELSE Find(SubSeq(number, 1, Max(found)))

=============================================================================
