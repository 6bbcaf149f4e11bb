----------------------------- MODULE RangeTree -----------------------------
(***************************************************************************)
(* Sets of image ids as trees of ranges, internal/rangetree/rangetree.go,  *)
(* in which the index database computes the versions of a tag.  A tree is  *)
(* the set of its ranges.  It is ordered by "ends before the other starts",*)
(* so that ranges that overlap are equal to it, and of several equal ones  *)
(* it replaces the one it meets first, here any of them.                   *)
(***************************************************************************)
EXTENDS Integers, FiniteSets

IdRange(low, high) == [low |-> low, high |-> high]
RangeCovers(r, x) == r.low <= x /\ x <= r.high
Overlap(r, s) == r.low <= s.high /\ s.low <= r.high
IdsOf(tree) == UNION {r.low..r.high : r \in tree}

\* Find, at most one range in a tree without overlaps.  The range [0,0] is taken
\* for none: ids start at 1.
FindRange(tree, x) == {r \in tree : RangeCovers(r, x) /\ r # IdRange(0, 0)}
FindOverlapping(tree, r) == {s \in tree : Overlap(r, s)}

ReplaceOrInsert(tree, r) ==
    IF FindOverlapping(tree, r) = {} THEN {tree \cup {r}}
    ELSE {(tree \ {s}) \cup {r} : s \in FindOverlapping(tree, r)}

\* Faulty variant: the range that follows is not joined.
AddBelow(tree, r) ==
    LET below == FindRange(tree, r.low - 1)
        joined == IdRange(IF below = {} THEN r.low ELSE (CHOOSE s \in below : TRUE).low, r.high)
    IN  ReplaceOrInsert(tree \ below, joined)

\* The trees that adding a range may give: it is joined with the ranges it
\* touches on both sides.
Add(tree, r) ==
    LET below == FindRange(tree, r.low - 1)
        above == FindRange(tree, r.high + 1)
        joined == IdRange(IF below = {} THEN r.low ELSE (CHOOSE s \in below : TRUE).low,
                        IF above = {} THEN r.high ELSE (CHOOSE s \in above : TRUE).high)
    IN  ReplaceOrInsert(tree \ (below \cup above), joined)

\* What is left of s without r.
Remainders(s, r) ==
    {t \in {IdRange(s.low, IF r.low - 1 < s.high THEN r.low - 1 ELSE s.high),
            IdRange(IF r.high + 1 > s.low THEN r.high + 1 ELSE s.low, s.high)} : t.low <= t.high}

Subtract(tree, r) ==
    LET hit == FindOverlapping(tree, r)
    IN  (tree \ hit) \cup UNION {Remainders(s, r) : s \in hit}

InvertInt(tree, x) ==
    IF FindRange(tree, x) # {} THEN {Subtract(tree, IdRange(x, x))} ELSE Add(tree, IdRange(x, x))

\* Invert, one id after the other.
Invert(tree, r) ==
    LET inverted[x \in (r.low - 1)..r.high] ==
            IF x < r.low THEN {tree} ELSE UNION {InvertInt(t, x) : t \in inverted[x - 1]}
    IN  inverted[r.high]

----------------------------------------------------------------------------
CONSTANT Universe   \* bound: the ids, 1..n

ASSUME UniverseAssumption == Universe \subseteq Nat \ {0}

VARIABLES
    tree,           \* the ranges
    members         \* the ids asked for

treeVars == <<tree, members>>

InitTree == tree = {} /\ members = {}

Ranges == {IdRange(p[1], p[2]) : p \in {p \in Universe \X Universe : p[1] <= p[2]}}
Xor(s, t) == (s \ t) \cup (t \ s)

\* The ranges of a tree are apart, so that its order is one.
Apart(t) == \A r, s \in t : r # s => r.high + 1 < s.low \/ s.high + 1 < r.low

\* AddInt and AddTree, SubtractInt and SubtractTree, InvertInt and InvertTree, of
\* each range.  What is done to a tree whose ranges are not apart depends on how
\* it is balanced and is not modelled.
AddRange(r) == tree' \in Add(tree, r) /\ members' = members \cup (r.low..r.high)
SubtractRange(r) == tree' = Subtract(tree, r) /\ members' = members \ (r.low..r.high)
InvertRange(r) == tree' \in Invert(tree, r) /\ members' = Xor(members, r.low..r.high)

TreeNext ==
    /\ Apart(tree)
    /\ \E r \in Ranges : AddRange(r) \/ SubtractRange(r) \/ InvertRange(r)

TreeSpec == InitTree /\ [][TreeNext]_treeVars

\* A tree holds the ids that were added, subtracted and inverted, in as few ranges
\* as can be, so that no id is listed twice; except when a range was just added
\* that covers several others, of which all but one are left in the tree.
TreeIsSet ==
    /\ IdsOf(tree) = members
    /\ Apart(tree) \/ \E r \in tree : Cardinality(FindOverlapping(tree, r)) > 1
=============================================================================
