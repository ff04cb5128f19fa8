----------------------------- MODULE NemuProofs -----------------------------
(***************************************************************************)
(* Proofs, for every size of the pool, every program and any commands of   *)
(* the user, that the two lists of watchpoints stay in order, that the     *)
(* variables of the monitor keep their types, that no watched change is    *)
(* missed, and that the run goes on only in agreement with the reference.  *)
(*                                                                         *)
(* The lists are pointers: next, from head and from free_.  The invariant  *)
(* names the two sequences of structures they spell (Lists); setting and   *)
(* deleting a watchpoint both move one structure from a place of one       *)
(* sequence to the front of the other (MoveKeepsApart, MoveKeepsLists).    *)
(***************************************************************************)
EXTENDS NemuMonitor, WellFoundedInduction, FiniteSetTheorems, TLAPS

\* Induction on the length of a walk, in the form of a least counterexample.
LEMMA LeastElement ==
  ASSUME NEW T, T \subseteq Nat, T # {}
  PROVE  \E x \in T : \A y \in T : x <= y
<1>1. \E x \in T : \A y \in T : ~ (<<y, x>> \in OpToRel(<, Nat))
  BY NatLessThanWellFounded, WFMin
<1>2. PICK x \in T : \A y \in T : ~ (<<y, x>> \in OpToRel(<, Nat))
  BY <1>1
<1>3. \A y \in T : ~ (y < x)
  BY <1>2 DEF OpToRel
<1>4. \A y \in T : y \in Nat /\ x \in Nat
  OBVIOUS
<1>5. QED BY <1>3, <1>4

\* s is a list of k structures along nx, and First the pointer to it.
IsList(nx, k, s) ==
  /\ k \in 0 .. NR_WP /\ s \in [1 .. k -> WP]
  /\ \A i \in 1 .. k : nx[s[i]] = IF i = k THEN NULL ELSE s[i + 1]
First(k, s) == IF k = 0 THEN NULL ELSE s[1]

\* One step of a walk.
Follows(first, f, n) ==
  IF n = 1 THEN first ELSE IF f[n - 1] = NULL THEN NULL ELSE next[f[n - 1]]
IsWalk(first, f) == f = [n \in 1 .. (NR_WP + 1) |-> Follows(first, f, n)]

\* The function that Walk defines by recursion exists when some walk does.
LEMMA WalkIsWalk ==
  ASSUME NEW first, NEW f, IsWalk(first, f)
  PROVE  IsWalk(first, Walk(first))
BY DEF Walk, IsWalk, Follows

\* A walk along a list visits it and then stays at its end.
LEMMA WalkOfList ==
  ASSUME NEW k, NEW s, IsList(next, k, s)
  PROVE  \A n \in 1 .. (NR_WP + 1) : Walk(First(k, s))[n] = IF n <= k THEN s[n] ELSE NULL
<1> DEFINE first == First(k, s)
           w == [n \in 1 .. (NR_WP + 1) |-> IF n <= k THEN s[n] ELSE NULL]
           T == {n \in 1 .. (NR_WP + 1) : Walk(first)[n] # w[n]}
<1>1. ASSUME NEW n \in 1 .. (NR_WP + 1) PROVE w[n] = Follows(first, w, n)
  <2>1. CASE n = 1
    BY <2>1, PoolAssumption DEF IsList, Follows, First
  <2>2. CASE n # 1
    <3>1. n - 1 \in 1 .. (NR_WP + 1) /\ w[n - 1] = IF n - 1 <= k THEN s[n - 1] ELSE NULL
      BY <2>2, PoolAssumption
    <3>2. CASE n - 1 <= k
      <4>1. n - 1 \in 1 .. k /\ s[n - 1] \in WP /\ s[n - 1] # NULL
        BY <3>1, <3>2, PoolAssumption DEF IsList, WP, NULL
      <4>2. QED BY <3>1, <3>2, <4>1, <2>2, PoolAssumption DEF IsList, Follows
    <3>3. CASE ~(n - 1 <= k)
      BY <3>1, <3>3, <2>2, PoolAssumption DEF IsList, Follows
    <3>4. QED BY <3>2, <3>3
  <2>3. QED BY <2>1, <2>2
<1>2. IsWalk(first, Walk(first))
  <2>1. IsWalk(first, w) BY <1>1 DEF IsWalk
  <2>2. QED BY <2>1, WalkIsWalk
<1> HIDE DEF w
<1>3. ASSUME T # {} PROVE FALSE
  <2>1. T \subseteq Nat OBVIOUS
  <2>2. PICK n \in T : \A y \in T : n <= y BY <1>3, <2>1, LeastElement
  <2>3. Walk(first)[n] = Follows(first, Walk(first), n)
    BY <1>2 DEF IsWalk
  <2>4. Follows(first, Walk(first), n) = Follows(first, w, n)
    <3>1. CASE n = 1 BY <3>1 DEF Follows
    <3>2. CASE n # 1
      <4>1. n - 1 \in 1 .. (NR_WP + 1) /\ ~(n <= n - 1)
        BY <3>2, PoolAssumption
      <4>2. Walk(first)[n - 1] = w[n - 1] BY <4>1, <2>2
      <4>3. QED BY <4>2, <3>2 DEF Follows
    <3>3. QED BY <3>1, <3>2
  <2>5. QED BY <2>2, <2>3, <2>4, <1>1
<1>4. QED BY <1>3 DEF w

\* The list that begins at a pointer is what Chain returns.
LEMMA ChainOfList ==
  ASSUME NEW k, NEW s, IsList(next, k, s)
  PROVE  Chain(First(k, s)) = s
<1> DEFINE first == First(k, s)
<1>0. \A n \in 1 .. (NR_WP + 1) : Walk(first)[n] = IF n <= k THEN s[n] ELSE NULL
  BY WalkOfList
<1>1. \A n \in 1 .. NR_WP : Walk(first)[n] # NULL <=> n \in 1 .. k
  BY <1>0, PoolAssumption DEF IsList, WP, NULL
<1>2. {n \in 1 .. NR_WP : Walk(first)[n] # NULL} = 1 .. k
  BY <1>1, PoolAssumption DEF IsList
<1>3. Cardinality(1 .. k) = k
  BY FS_Interval, PoolAssumption DEF IsList
<1>4. Chain(first) = [n \in 1 .. k |-> Walk(first)[n]]
  BY <1>2, <1>3 DEF Chain
<1>5. \A n \in 1 .. k : Walk(first)[n] = s[n]
  BY <1>0, PoolAssumption DEF IsList
<1>6. QED BY <1>4, <1>5 DEF IsList

LEMMA NodesOfList ==
  ASSUME NEW k, NEW s, IsList(next, k, s)
  PROVE  Nodes(First(k, s)) = {s[i] : i \in 1 .. k}
<1>1. Chain(First(k, s)) = s BY ChainOfList
<1>2. DOMAIN s = 1 .. k BY DEF IsList
<1>3. QED BY <1>1, <1>2 DEF Nodes

-----------------------------------------------------------------------------
(* Two lists that share the pool, and a structure that moves from a place  *)
(* of the one to the front of the other.                                   *)

Apart(k, s, j, t) ==
  /\ k + j = NR_WP
  /\ \A x, y \in 1 .. k : s[x] = s[y] => x = y
  /\ \A x, y \in 1 .. j : t[x] = t[y] => x = y
  /\ \A x \in 1 .. k, y \in 1 .. j : s[x] # t[y]
  /\ \A wp \in WP : (\E x \in 1 .. k : s[x] = wp) \/ (\E y \in 1 .. j : t[y] = wp)

Without(k, s, d) == [x \in 1 .. (k - 1) |-> IF x < d THEN s[x] ELSE s[x + 1]]
Before(wp, j, t) == [y \in 1 .. (j + 1) |-> IF y = 1 THEN wp ELSE t[y - 1]]

\* The pointers after the d-th structure of s was moved to the front of t.
Moves(nx, nx2, k, s, d, j, t) ==
  /\ nx2[s[d]] = First(j, t)
  /\ d > 1 => nx2[s[d - 1]] = nx[s[d]]
  /\ \A wp \in WP : wp # s[d] /\ (d > 1 => wp # s[d - 1]) => nx2[wp] = nx[wp]

\* No structure is lost or doubled when one moves.
LEMMA MoveKeepsApart ==
  ASSUME NEW k \in 0 .. NR_WP, NEW j \in 0 .. NR_WP,
         NEW s \in [1 .. k -> WP], NEW t \in [1 .. j -> WP], NEW d \in 1 .. k,
         Apart(k, s, j, t)
  PROVE  Apart(k - 1, Without(k, s, d), j + 1, Before(s[d], j, t))
<1> DEFINE s2 == Without(k, s, d)
           t2 == Before(s[d], j, t)
<1> USE PoolAssumption
<1>1. \A x \in 1 .. (k - 1) : /\ x < d => s2[x] = s[x]
                              /\ x >= d => s2[x] = s[x + 1] /\ x + 1 \in 1 .. k
  BY DEF Without
<1>2. \A y \in 1 .. (j + 1) : /\ y = 1 => t2[y] = s[d]
                              /\ y # 1 => t2[y] = t[y - 1] /\ y - 1 \in 1 .. j
  BY DEF Before
<1> HIDE DEF s2, t2
<1>3. \A x, y \in 1 .. (k - 1) : s2[x] = s2[y] => x = y
  BY <1>1 DEF Apart
<1>4. \A x, y \in 1 .. (j + 1) : t2[x] = t2[y] => x = y
  BY <1>2 DEF Apart
<1>5. \A x \in 1 .. (k - 1), y \in 1 .. (j + 1) : s2[x] # t2[y]
  <2>1. ASSUME NEW x \in 1 .. (k - 1), NEW y \in 1 .. (j + 1) PROVE s2[x] # t2[y]
    <3>1. CASE y = 1
      BY <1>1, <1>2, <3>1 DEF Apart
    <3>2. CASE y # 1
      <4>1. t2[y] = t[y - 1] /\ y - 1 \in 1 .. j
        BY <1>2, <3>2
      <4>2. QED BY <1>1, <4>1 DEF Apart
    <3>3. QED BY <3>1, <3>2
  <2>2. QED BY <2>1
<1>6. ASSUME NEW wp \in WP
      PROVE  (\E x \in 1 .. (k - 1) : s2[x] = wp) \/ (\E y \in 1 .. (j + 1) : t2[y] = wp)
  <2>1. CASE \E x \in 1 .. k : s[x] = wp
    <3>1. PICK x \in 1 .. k : s[x] = wp BY <2>1
    <3>2. CASE x < d
      <4>1. x \in 1 .. (k - 1) /\ s2[x] = wp BY <3>1, <3>2, <1>1
      <4>2. QED BY <4>1
    <3>3. CASE x = d
      <4>1. 1 \in 1 .. (j + 1) /\ t2[1] = wp BY <3>1, <3>3, <1>2
      <4>2. QED BY <4>1
    <3>4. CASE x > d
      <4>1. x - 1 \in 1 .. (k - 1) /\ s2[x - 1] = wp BY <3>1, <3>4, <1>1
      <4>2. QED BY <4>1
    <3>5. QED BY <3>2, <3>3, <3>4
  <2>2. CASE \E y \in 1 .. j : t[y] = wp
    <3>1. PICK y \in 1 .. j : t[y] = wp BY <2>2
    <3>2. y + 1 \in 1 .. (j + 1) /\ t2[y + 1] = wp BY <3>1, <1>2
    <3>3. QED BY <3>2
  <2>3. QED BY <2>1, <2>2 DEF Apart
<1>7. (k - 1) + (j + 1) = NR_WP BY DEF Apart
<1>8. QED BY <1>3, <1>4, <1>5, <1>6, <1>7 DEF Apart, s2, t2

\* Both are lists along the new pointers.
LEMMA MoveKeepsLists ==
  ASSUME NEW nx, NEW nx2, NEW k, NEW s, NEW j, NEW t, NEW d \in 1 .. k,
         IsList(nx, k, s), IsList(nx, j, t), Apart(k, s, j, t),
         Moves(nx, nx2, k, s, d, j, t)
  PROVE  /\ IsList(nx2, k - 1, Without(k, s, d))
         /\ IsList(nx2, j + 1, Before(s[d], j, t))
<1> DEFINE s2 == Without(k, s, d)
           t2 == Before(s[d], j, t)
<1> USE PoolAssumption
<1>0. /\ k \in 0 .. NR_WP /\ j \in 0 .. NR_WP /\ k + j = NR_WP
      /\ s \in [1 .. k -> WP] /\ t \in [1 .. j -> WP]
  BY DEF IsList, Apart
<1>1. \A x \in 1 .. k : x # d /\ x # d - 1 => nx2[s[x]] = nx[s[x]]
  BY <1>0 DEF Apart, Moves
<1>2. \A y \in 1 .. j : nx2[t[y]] = nx[t[y]]
  <2>1. ASSUME NEW y \in 1 .. j PROVE nx2[t[y]] = nx[t[y]]
    <3>1. t[y] \in WP /\ t[y] # s[d] BY <1>0 DEF Apart
    <3>2. d > 1 => t[y] # s[d - 1] BY <1>0 DEF Apart
    <3>3. QED BY <3>1, <3>2 DEF Moves
  <2>2. QED BY <2>1
<1>3. IsList(nx2, k - 1, s2)
  <2>1. s2 \in [1 .. (k - 1) -> WP] /\ k - 1 \in 0 .. NR_WP
    BY <1>0 DEF Without
  <2>2. ASSUME NEW x \in 1 .. (k - 1) PROVE nx2[s2[x]] = IF x = k - 1 THEN NULL ELSE s2[x + 1]
    <3>1. CASE x < d - 1
      <4>1. s2[x] = s[x] /\ s2[x + 1] = s[x + 1] /\ x # k - 1 /\ x \in 1 .. k
        BY <3>1, <1>0 DEF Without
      <4>2. QED BY <3>1, <4>1, <1>0, <1>1 DEF IsList
    <3>2. CASE x = d - 1
      <4>1. s2[x] = s[d - 1] /\ nx2[s2[x]] = nx[s[d]]
        BY <3>2, <1>0 DEF Without, Moves
      <4>2. nx[s[d]] = IF d = k THEN NULL ELSE s[d + 1]
        BY DEF IsList
      <4>3. x # k - 1 => s2[x + 1] = s[d + 1]
        BY <3>2, <1>0 DEF Without
      <4>4. d \in Int /\ k \in Int /\ (x = k - 1 <=> d = k)
        BY <3>2, <1>0
      <4>5. CASE d = k
        BY <4>1, <4>2, <4>4, <4>5
      <4>6. CASE d # k
        BY <4>1, <4>2, <4>3, <4>4, <4>6
      <4>7. QED BY <4>5, <4>6
    <3>3. CASE x >= d
      <4>1. s2[x] = s[x + 1] /\ x + 1 \in 1 .. k /\ (x # k - 1 => s2[x + 1] = s[x + 2])
        BY <3>3, <1>0 DEF Without
      <4>2. nx2[s[x + 1]] = nx[s[x + 1]] BY <3>3, <4>1, <1>0, <1>1
      <4>3. nx[s[x + 1]] = IF x + 1 = k THEN NULL ELSE s[x + 2]
        BY <4>1, <1>0 DEF IsList
      <4>4. QED BY <4>1, <4>2, <4>3, <1>0
    <3>4. QED BY <3>1, <3>2, <3>3, <1>0
  <2>3. QED BY <2>1, <2>2 DEF IsList
<1>4. IsList(nx2, j + 1, t2)
  <2>1. t2 \in [1 .. (j + 1) -> WP] /\ j + 1 \in 0 .. NR_WP
    BY <1>0 DEF Before
  <2>2. ASSUME NEW y \in 1 .. (j + 1) PROVE nx2[t2[y]] = IF y = j + 1 THEN NULL ELSE t2[y + 1]
    <3>1. CASE y = 1
      <4>1. nx2[t2[y]] = First(j, t) BY <3>1, <1>0 DEF Before, Moves
      <4>2. y # j + 1 => t2[y + 1] = t[1] BY <3>1, <1>0 DEF Before
      <4>3. QED BY <3>1, <4>1, <4>2, <1>0 DEF First
    <3>2. CASE y # 1
      <4>1. y - 1 \in 1 .. j /\ t2[y] = t[y - 1] /\ (y # j + 1 => t2[y + 1] = t[y])
        BY <3>2, <1>0 DEF Before
      <4>2. nx2[t[y - 1]] = nx[t[y - 1]] BY <4>1, <1>2
      <4>3. nx[t[y - 1]] = IF y - 1 = j THEN NULL ELSE t[y]
        BY <4>1, <1>0 DEF IsList
      <4>4. QED BY <4>1, <4>2, <4>3, <1>0
    <3>3. QED BY <3>1, <3>2
  <2>3. QED BY <2>1, <2>2 DEF IsList
<1>5. QED BY <1>3, <1>4

-----------------------------------------------------------------------------
(* The pool.                                                               *)

\* The structures that are set are the list s, the others the list t.
Lists(k, s, j, t) ==
  /\ next \in [WP -> WP \cup {NULL}]
  /\ head = First(k, s) /\ free_ = First(j, t)
  /\ IsList(next, k, s) /\ IsList(next, j, t)
  /\ Apart(k, s, j, t)

PoolInv == \E k, s, j, t : Lists(k, s, j, t)

ListsAreNodes == \A k, s, j, t : Lists(k, s, j, t) => Active = {s[i] : i \in 1 .. k}

LEMMA ActiveOfLists == ListsAreNodes
BY NodesOfList DEF Lists, Active, ListsAreNodes

LEMMA ActiveOfListsNext == ListsAreNodes'
BY ActiveOfLists, PTL

LEMMA PoolInvInit == ASSUME PoolState PROVE PoolInv /\ Active = {}
<1> DEFINE s == [x \in 1 .. 0 |-> 0]
           t == [x \in 1 .. NR_WP |-> x - 1]
<1>1. next \in [WP -> WP \cup {NULL}]
  BY PoolAssumption DEF PoolState, WP, NULL
<1>2. IsList(next, 0, s) /\ head = First(0, s)
  BY PoolAssumption DEF IsList, PoolState, First
<1>3. IsList(next, NR_WP, t) /\ free_ = First(NR_WP, t)
  BY PoolAssumption DEF IsList, PoolState, WP, NULL, First
<1>4. Apart(0, s, NR_WP, t)
  BY PoolAssumption DEF Apart, WP
<1>5. Lists(0, s, NR_WP, t)
  BY <1>1, <1>2, <1>3, <1>4 DEF Lists
<1>6. Active = {}
  BY <1>5, ActiveOfLists DEF ListsAreNodes
<1>7. QED BY <1>5, <1>6 DEF PoolInv

\* new_wp moves the first free structure to the front of those that are set.
LEMMA SetKeepsLists ==
  ASSUME NEW e, NEW v, PoolInv, wp_set(e, v)
  PROVE  PoolInv' /\ Active' = Active \cup {free_} /\ free_ \in WP
<1>1. PICK k, s, j, t : Lists(k, s, j, t)
  BY DEF PoolInv
<1>2. /\ k \in 0 .. NR_WP /\ j \in 0 .. NR_WP
      /\ s \in [1 .. k -> WP] /\ t \in [1 .. j -> WP]
  BY <1>1 DEF Lists, IsList
<1>3. 1 \in 1 .. j /\ free_ = t[1] /\ free_ \in WP
  BY <1>1, <1>2, PoolAssumption DEF Lists, First, wp_set
<1>4. Apart(j, t, k, s)
  BY <1>1, <1>2 DEF Lists, Apart
<1> DEFINE t2 == Without(j, t, 1)
           s2 == Before(t[1], k, s)
<1>5. next' \in [WP -> WP \cup {NULL}] /\ Moves(next, next', j, t, 1, k, s)
  <2>1. head \in WP \cup {NULL}
    BY <1>1, <1>2, PoolAssumption DEF Lists, First
  <2>2. QED BY <1>1, <1>3, <2>1 DEF Lists, wp_set, Moves
<1>6. IsList(next', j - 1, t2) /\ IsList(next', k + 1, s2) /\ Apart(j - 1, t2, k + 1, s2)
  BY <1>1, <1>2, <1>3, <1>4, <1>5, MoveKeepsApart, MoveKeepsLists DEF Lists
<1>7. free_' = First(j - 1, t2) /\ head' = First(k + 1, s2)
  BY <1>1, <1>2, <1>3, PoolAssumption DEF Lists, IsList, First, Without, Before, wp_set
<1>8. Apart(k + 1, s2, j - 1, t2)
  BY <1>6, <1>2, PoolAssumption DEF Apart
<1> HIDE DEF s2, t2
<1>9. Lists(k + 1, s2, j - 1, t2)'
  BY <1>5, <1>6, <1>7, <1>8 DEF Lists
<1>10. Active' = Active \cup {free_}
  <2>1. Active = {s[i] : i \in 1 .. k} BY <1>1, ActiveOfLists DEF ListsAreNodes
  <2>2. Active' = {s2[i] : i \in 1 .. (k + 1)} BY <1>9, ActiveOfListsNext DEF ListsAreNodes
  <2>3. s2[1] = free_ /\ \A i \in 1 .. k : s2[i + 1] = s[i]
    BY <1>2, <1>3, PoolAssumption DEF s2, Before
  <2>4. \A i \in 2 .. (k + 1) : i - 1 \in 1 .. k /\ s2[i] = s[i - 1]
    BY <1>2, <1>3, PoolAssumption DEF s2, Before
  <2>5. Active' \subseteq Active \cup {free_}
    <3>1. \A i \in 1 .. (k + 1) : i = 1 \/ i \in 2 .. (k + 1)
      BY <1>2, PoolAssumption
    <3>2. QED BY <3>1, <2>1, <2>2, <2>3, <2>4
  <2>6. Active \cup {free_} \subseteq Active'
    <3>1. 1 \in 1 .. (k + 1) /\ \A i \in 1 .. k : i + 1 \in 1 .. (k + 1)
      BY <1>2, PoolAssumption
    <3>2. QED BY <3>1, <2>1, <2>2, <2>3
  <2>7. QED BY <2>5, <2>6
<1>11. QED BY <1>9, <1>10, <1>3 DEF PoolInv

\* free_wp moves a structure that is set to the front of the free ones.
LEMMA FreeKeepsLists ==
  ASSUME PoolInv, NEW wp \in Active, free_wp(wp)
  PROVE  PoolInv' /\ Active' \subseteq Active
<1>1. PICK k, s, j, t : Lists(k, s, j, t)
  BY DEF PoolInv
<1>2. /\ k \in 0 .. NR_WP /\ j \in 0 .. NR_WP
      /\ s \in [1 .. k -> WP] /\ t \in [1 .. j -> WP]
  BY <1>1 DEF Lists, IsList
<1>3. PICK d \in 1 .. k : wp = s[d]
  BY <1>1, ActiveOfLists DEF ListsAreNodes
<1> DEFINE s2 == Without(k, s, d)
           t2 == Before(s[d], j, t)
<1>4. free_ \in WP \cup {NULL} /\ wp \in WP
  BY <1>1, <1>2, <1>3, PoolAssumption DEF Lists, First
<1>5. wp = head <=> d = 1
  <2>1. head = s[1] /\ 1 \in 1 .. k
    BY <1>1, <1>2, <1>3, PoolAssumption DEF Lists, First
  <2>2. QED BY <2>1, <1>1, <1>3 DEF Lists, Apart
<1>6. d # 1 => Predecessor(wp) = s[d - 1]
  <2> SUFFICES ASSUME d # 1 PROVE Predecessor(wp) = s[d - 1]
    OBVIOUS
  <2>1. d - 1 \in 1 .. k /\ next[s[d - 1]] = wp
    BY <1>1, <1>2, <1>3, PoolAssumption DEF Lists, IsList
  <2>2. \A i \in 1 .. k : next[s[i]] = wp => i = d - 1
    <3>1. ASSUME NEW i \in 1 .. k, next[s[i]] = wp PROVE i = d - 1
      <4>1. wp # NULL BY <1>4, PoolAssumption DEF WP, NULL
      <4>2. i # k /\ s[i + 1] = s[d] /\ i + 1 \in 1 .. k
        BY <3>1, <4>1, <1>1, <1>2, <1>3, PoolAssumption DEF Lists, IsList
      <4>3. i + 1 = d BY <4>2, <1>1 DEF Lists, Apart
      <4>4. QED BY <4>3, <1>2
    <3>2. QED BY <3>1
  <2>3. Nodes(head) = {s[i] : i \in 1 .. k}
    BY <1>1, ActiveOfLists DEF Active, ListsAreNodes
  <2>4. QED BY <2>1, <2>2, <2>3 DEF Predecessor
<1>7. next' \in [WP -> WP \cup {NULL}] /\ Moves(next, next', k, s, d, j, t)
  <2>1. free_ = First(j, t) /\ next \in [WP -> WP \cup {NULL}] BY <1>1 DEF Lists
  <2>2. CASE d = 1
    BY <2>1, <2>2, <1>3, <1>4, <1>5 DEF free_wp, Moves
  <2>3. CASE d # 1
    <3>1. next' = [next EXCEPT ![s[d - 1]] = next[wp], ![wp] = free_]
      BY <2>3, <1>5, <1>6 DEF free_wp
    <3>2. d - 1 \in 1 .. k /\ s[d - 1] \in WP /\ s[d - 1] # s[d]
      BY <2>3, <1>1, <1>2 DEF Lists, Apart
    <3>3. QED BY <2>1, <3>1, <3>2, <1>3, <1>4 DEF Moves
  <2>4. QED BY <2>2, <2>3
<1>8. IsList(next', k - 1, s2) /\ IsList(next', j + 1, t2) /\ Apart(k - 1, s2, j + 1, t2)
  BY <1>1, <1>2, <1>7, MoveKeepsApart, MoveKeepsLists DEF Lists
<1>9. head' = First(k - 1, s2) /\ free_' = First(j + 1, t2)
  <2>1. free_' = First(j + 1, t2)
    BY <1>2, <1>3, PoolAssumption DEF First, Before, free_wp
  <2>2. CASE d = 1
    <3>1. head' = next[s[1]] BY <2>2, <1>3, <1>5 DEF free_wp
    <3>2. next[s[1]] = IF 1 = k THEN NULL ELSE s[2]
      BY <1>1, <1>2, <2>2 DEF Lists, IsList
    <3>3. k # 1 => s2[1] = s[2] BY <1>2, <2>2, PoolAssumption DEF Without
    <3>4. QED BY <2>1, <3>1, <3>2, <3>3, <1>2 DEF First
  <2>3. CASE d # 1
    <3>1. head' = s[1] BY <2>3, <1>1, <1>2, <1>5 DEF Lists, First, free_wp
    <3>2. k # 1 /\ s2[1] = s[1] BY <1>2, <2>3, PoolAssumption DEF Without
    <3>3. QED BY <2>1, <3>1, <3>2, <1>2 DEF First
  <2>4. QED BY <2>1, <2>2, <2>3
<1>10. \A i \in 1 .. (k - 1) : s2[i] \in {s[x] : x \in 1 .. k}
  BY <1>2, PoolAssumption DEF Without
<1> HIDE DEF s2, t2
<1>11. Lists(k - 1, s2, j + 1, t2)'
  BY <1>7, <1>8, <1>9 DEF Lists
<1>12. Active' \subseteq Active
  <2>1. Active = {s[i] : i \in 1 .. k} BY <1>1, ActiveOfLists DEF ListsAreNodes
  <2>2. Active' = {s2[i] : i \in 1 .. (k - 1)} BY <1>11, ActiveOfListsNext DEF ListsAreNodes
  <2>3. QED BY <2>1, <2>2, <1>10
<1>13. QED BY <1>11, <1>12 DEF PoolInv

LEMMA StaysKeepsLists ==
  ASSUME PoolInv, UNCHANGED lists
  PROVE  PoolInv' /\ Active' = Active
<1>1. PICK k, s, j, t : Lists(k, s, j, t)
  BY DEF PoolInv
<1>2. Lists(k, s, j, t)'
  BY <1>1 DEF Lists, lists
<1>3. Active' = Active
  BY <1>1, <1>2, ActiveOfLists, ActiveOfListsNext DEF ListsAreNodes
<1>4. QED BY <1>2, <1>3 DEF PoolInv

LEMMA DeleteKeepsLists ==
  ASSUME PoolInv, NEW no, wp_delete(no)
  PROVE  PoolInv' /\ Active' \subseteq Active
<1>1. CASE wp_delete_none(no)
  BY <1>1, StaysKeepsLists DEF wp_delete_none, poolVars, lists
<1>2. CASE wp_delete_refused(no)
  BY <1>2, StaysKeepsLists DEF wp_delete_refused, Die
<1>3. CASE wp_delete_overrun(no)
  BY <1>3, StaysKeepsLists DEF wp_delete_overrun, Die
<1>4. CASE wp_delete_found(no)
  <2>1. PICK n \in Stops(no) : free_wp(Chain(head)[n])
    BY <1>4 DEF wp_delete_found
  <2>2. Chain(head)[n] \in Active
    BY DEF Stops, Active, Nodes
  <2>3. QED BY <2>1, <2>2, FreeKeepsLists
<1>5. QED BY <1>1, <1>2, <1>3, <1>4 DEF wp_delete

LEMMA PoolInvImpliesPartition == ASSUME PoolInv PROVE PoolPartition
<1>1. PICK k, s, j, t : Lists(k, s, j, t)
  BY DEF PoolInv
<1>2. Chain(head) = s /\ Chain(free_) = t
  BY <1>1, ChainOfList DEF Lists
<1>3. Nodes(head) = {s[i] : i \in 1 .. k} /\ Nodes(free_) = {t[i] : i \in 1 .. j}
  BY <1>1, NodesOfList DEF Lists
<1>4. /\ k \in 0 .. NR_WP /\ j \in 0 .. NR_WP
      /\ s \in [1 .. k -> WP] /\ t \in [1 .. j -> WP]
  BY <1>1 DEF Lists, IsList
<1>5. Nodes(head) \cup Nodes(free_) = WP
  BY <1>1, <1>3, <1>4 DEF Lists, Apart
<1>6. Len(s) = k /\ Len(t) = j
  BY <1>4, PoolAssumption
<1>7. (head # NULL => next[s[k]] = NULL) /\ (free_ # NULL => next[t[j]] = NULL)
  BY <1>1, <1>4 DEF Lists, IsList, First
<1>8. k + j = NR_WP BY <1>1 DEF Lists, Apart
<1>9. QED BY <1>2, <1>5, <1>6, <1>7, <1>8 DEF PoolPartition

\* Whatever is set and deleted, in whatever order, both lists end, and every
\* structure is on exactly one of them (new_wp, free_wp).
THEOREM PoolIsPartitioned == PoolSpec => []PoolPartition
<1>1. PoolInit => PoolInv
  BY PoolInvInit DEF PoolInit, init_wp_pool
<1>2. PoolInv /\ [PoolNext]_poolVars => PoolInv'
  <2> SUFFICES ASSUME PoolInv, [PoolNext]_poolVars PROVE PoolInv'
    OBVIOUS
  <2>1. ASSUME NEW e \in Exprs, NEW v \in Values, wp_set(e, v) PROVE PoolInv'
    BY <2>1, SetKeepsLists
  <2>2. CASE wp_set_full
    BY <2>2, StaysKeepsLists DEF wp_set_full, Die
  <2>3. ASSUME NEW no \in Numbers, wp_delete(no) PROVE PoolInv'
    BY <2>3, DeleteKeepsLists
  <2>4. ASSUME NEW now \in [WP -> Values], wp_difftest(now) PROVE PoolInv'
    BY <2>4, StaysKeepsLists DEF wp_difftest
  <2>5. CASE UNCHANGED poolVars
    BY <2>5, StaysKeepsLists DEF poolVars, lists
  <2>6. QED BY <2>1, <2>2, <2>3, <2>4, <2>5 DEF PoolNext, Commands, Died
<1>3. PoolInv => PoolPartition
  BY PoolInvImpliesPartition
<1>4. QED BY <1>1, <1>2, <1>3, PTL DEF PoolSpec

-----------------------------------------------------------------------------
(* The execution loop.                                                     *)

Machine == [pc : 1 .. Len(program), gpr : [Gprs -> Values]]

\* Every variable of the monitor keeps its type.
MonTypeOK ==
  /\ program \in Programs
  /\ cpu \in Machine /\ ref \in Machine /\ is_skip_ref \in BOOLEAN
  /\ nemu_state \in [state : {"RUNNING", "STOP", "END", "ABORT", "QUIT"},
                     halt_ret : Values \cup {-1}]
  /\ left \in Int
  /\ at \in {"prompt", "exec", "difftest", "watch", "check", "end", "main"}
  /\ masked \subseteq {"look", "stop"}
  /\ expr \in [WP -> Exprs \cup {"none"}] /\ old \in [WP -> Values]

\* What is watched is an expression, and the lists of the pool are in order.
WatchedOK == PoolInv /\ \A wp \in Active : expr[wp] \in Exprs

\* Registers are added modulo the number of values.
LEMMA ValuesAreRemainders ==
  /\ Cardinality(Values) \in Nat \ {0} /\ 0 \in Values
  /\ \A v, w \in Values : (v + w) % Cardinality(Values) \in Values
<1>1. Cardinality(Values) \in Nat
  BY MonitorAssumption, FS_CardinalityType
<1>2. Values = 0 .. (Cardinality(Values) - 1) /\ Values # {}
  BY MonitorAssumption
<1> HIDE DEF MonitorAssumption
<1> DEFINE c == Cardinality(Values)
<1> HIDE DEF c
<1>3. c \in Nat \ {0}
  BY <1>1, <1>2 DEF c
<1>4. \A v \in Nat : v % c \in 0 .. (c - 1)
  BY <1>3
<1>5. Values = 0 .. (c - 1)
  BY <1>2 DEF c
<1>6. ASSUME NEW v \in Values, NEW w \in Values PROVE (v + w) % c \in Values
  <2>1. v + w \in Nat BY <1>3, <1>5
  <2>2. QED BY <2>1, <1>4, <1>5
<1>7. 0 \in Values BY <1>3, <1>5
<1>8. QED BY <1>3, <1>6, <1>7 DEF c

LEMMA ProgramType ==
  ASSUME MonTypeOK
  PROVE  /\ Len(program) \in Nat \ {0}
         /\ \A i \in 1 .. Len(program) : program[i] \in Instruction
         /\ \A pc \in 1 .. Len(program) : NextPc(pc) \in 1 .. Len(program)
<1>1. program \in Seq(Instruction) /\ Len(program) > 0
  BY MonitorAssumption DEF MonTypeOK
<1>2. Len(program) \in Nat \ {0} /\ \A i \in 1 .. Len(program) : program[i] \in Instruction
  BY <1>1
<1>3. ASSUME NEW l \in Nat \ {0}, NEW pc \in 1 .. l PROVE (pc % l) + 1 \in 1 .. l
  OBVIOUS
<1>4. QED BY <1>2, <1>3 DEF NextPc

LEMMA ExecType ==
  ASSUME MonTypeOK, exec_once
  PROVE  /\ cpu' \in Machine /\ is_skip_ref' \in BOOLEAN
         /\ nemu_state' \in [state : {"RUNNING", "STOP", "END", "ABORT", "QUIT"},
                             halt_ret : Values \cup {-1}]
<1>1. inst \in Instruction /\ NextPc(cpu.pc) \in 1 .. Len(program) /\ cpu.pc \in 1 .. Len(program)
  BY ProgramType DEF MonTypeOK, Machine, inst
<1>2. inst.reg \in Gprs /\ inst.imm \in Values
  BY <1>1 DEF Instruction
<1>3. Add(cpu.gpr, inst) \in [Gprs -> Values]
  BY <1>2, ValuesAreRemainders DEF MonTypeOK, Machine, Add
<1>4. cpu.gpr["a0"] \in Values
  BY DEF MonTypeOK, Machine, Gprs
<1>5. CASE exec_alu
  BY <1>1, <1>3, <1>5 DEF exec_alu, MonTypeOK, Machine
<1>9. CASE exec_device
  <2>1. PICK v \in Values : cpu' = [pc |-> NextPc(cpu.pc), gpr |-> [cpu.gpr EXCEPT ![inst.reg] = v]]
    BY <1>9 DEF exec_device
  <2>2. [cpu.gpr EXCEPT ![inst.reg] = v] \in [Gprs -> Values]
    BY <1>2 DEF MonTypeOK, Machine
  <2>3. QED BY <1>1, <1>9, <2>1, <2>2, MonitorAssumption DEF exec_device, MonTypeOK, Machine
<1>6. CASE exec_ebreak
  BY <1>4, <1>6, MonitorAssumption DEF exec_ebreak, MonTypeOK
<1>7. CASE exec_invalid
  BY <1>1, <1>7, MonitorAssumption DEF exec_invalid, set_nemu_state, MonTypeOK, Machine
<1>8. QED BY <1>5, <1>6, <1>7, <1>9 DEF exec_once

LEMMA RefType == ASSUME MonTypeOK PROVE ref_difftest_exec \in Machine
<1>1. ref.pc \in 1 .. Len(program) /\ program[ref.pc] \in Instruction
  BY ProgramType DEF MonTypeOK, Machine
<1>2. program[ref.pc].reg \in Gprs /\ program[ref.pc].imm \in Values
  BY <1>1 DEF Instruction
<1>3. Add(ref.gpr, program[ref.pc]) \in [Gprs -> Values]
  BY <1>2, ValuesAreRemainders DEF MonTypeOK, Machine, Add
<1>4. NextPc(ref.pc) \in 1 .. Len(program)
  BY <1>1, ProgramType
<1>5. QED BY <1>3, <1>4 DEF ref_difftest_exec, MonTypeOK, Machine

LEMMA StateType ==
  ASSUME MonTypeOK, NEW x \in {"RUNNING", "STOP", "END", "ABORT", "QUIT"}
  PROVE  State(x) \in [state : {"RUNNING", "STOP", "END", "ABORT", "QUIT"},
                       halt_ret : Values \cup {-1}]
BY DEF MonTypeOK, State

LEMMA ActiveInPool ==
  ASSUME WatchedOK
  PROVE  Active \subseteq WP
<1>1. PICK k, s, j, t : Lists(k, s, j, t) BY DEF WatchedOK, PoolInv
<1>2. Active = {s[i] : i \in 1 .. k} BY <1>1, ActiveOfLists DEF ListsAreNodes
<1>3. s \in [1 .. k -> WP] BY <1>1 DEF Lists, IsList
<1>4. QED BY <1>2, <1>3

\* What the expressions of the watchpoints evaluate to: registers, and any value
\* of a device.
Now(seen) == [wp \in WP |-> IF wp \in OnDevice THEN seen[wp] ELSE cpu.gpr[expr[wp]]]

LEMMA NowType ==
  ASSUME MonTypeOK, WatchedOK, NEW seen \in [OnDevice -> Values]
  PROVE  /\ \A wp \in Active : Now(seen)[wp] \in Values
         /\ \A wp \in Active \ OnDevice : Now(seen)[wp] = cpu.gpr[expr[wp]]
<1>1. Active \subseteq WP BY ActiveInPool
<1>2. ASSUME NEW wp \in Active PROVE Now(seen)[wp] \in Values
  <2>1. CASE wp \in OnDevice
    BY <1>1, <2>1 DEF Now
  <2>2. CASE wp \notin OnDevice
    <3>1. expr[wp] \in Gprs
      BY <1>2, <2>2, MonitorAssumption DEF OnDevice, WatchedOK
    <3>2. cpu.gpr[expr[wp]] \in Values
      BY <3>1 DEF MonTypeOK, Machine
    <3>3. QED BY <1>1, <2>2, <3>2 DEF Now
  <2>3. QED BY <2>1, <2>2
<1>3. QED BY <1>1, <1>2 DEF Now

\* The pool when nothing of it changes, or when its watchpoints are looked at.
LEMMA WatchedType ==
  ASSUME MonTypeOK, WatchedOK,
         UNCHANGED poolVars \/ \E seen \in [OnDevice -> Values] : wp_difftest(Now(seen))
  PROVE  /\ (expr \in [WP -> Exprs \cup {"none"}] /\ old \in [WP -> Values])'
         /\ WatchedOK' /\ Active' = Active /\ expr' = expr
<1>1. UNCHANGED lists /\ expr' = expr
  BY DEF poolVars, wp_difftest, lists
<1>2. PoolInv' /\ Active' = Active
  BY <1>1, StaysKeepsLists DEF WatchedOK
<1>3. WatchedOK'
  BY <1>1, <1>2 DEF WatchedOK
<1>4. CASE UNCHANGED poolVars
  BY <1>1, <1>2, <1>3, <1>4 DEF MonTypeOK, poolVars
<1>5. ASSUME NEW seen \in [OnDevice -> Values], wp_difftest(Now(seen))
      PROVE  old' \in [WP -> Values]
  <2>1. \A wp \in Changed(Now(seen)) : Now(seen)[wp] \in Values
    BY NowType DEF Changed
  <2>2. old' = [wp \in WP |-> IF wp \in Changed(Now(seen)) THEN Now(seen)[wp] ELSE old[wp]]
    BY <1>5 DEF wp_difftest
  <2>3. QED BY <2>1, <2>2 DEF MonTypeOK
<1>6. QED BY <1>1, <1>2, <1>3, <1>4, <1>5 DEF MonTypeOK

LEMMA WatchType ==
  ASSUME MonTypeOK, check_watchpoints
  PROVE  /\ UNCHANGED poolVars \/ \E seen \in [OnDevice -> Values] : wp_difftest(Now(seen))
         /\ is_skip_ref' \in BOOLEAN /\ masked' \subseteq {"look", "stop"}
         /\ nemu_state' = nemu_state \/ nemu_state' = State("STOP")
BY MonitorAssumption DEF check_watchpoints, Now, MonTypeOK

LEMMA LookType ==
  ASSUME MonTypeOK, NEW looks \in BOOLEAN, Look(looks)
  PROVE  is_skip_ref' \in BOOLEAN /\ masked' \subseteq {"look", "stop"}
BY MonitorAssumption DEF Look, MonTypeOK

LEMMA AdvanceType ==
  ASSUME MonTypeOK, WatchedOK, Advance
  PROVE  MonTypeOK' /\ WatchedOK' /\ Active' = Active
<1>1. UNCHANGED poolVars \/ \E seen \in [OnDevice -> Values] : wp_difftest(Now(seen))
  BY WatchType DEF Advance, exec_once, difftest_step, execute_breaks, execute_goes_on, cpu_exec_end
<1>2. /\ expr' \in [WP -> Exprs \cup {"none"}] /\ old' \in [WP -> Values]
      /\ WatchedOK' /\ Active' = Active
  BY <1>1, WatchedType
<1>3. CASE exec_once
  BY <1>2, <1>3, ExecType DEF exec_once, MonTypeOK, Machine
<1>4. CASE difftest_step
  BY <1>2, <1>4, RefType, StateType DEF difftest_step, difftest_skips, difftest_compares, checkregs,
     MonTypeOK, Machine
<1>5. CASE check_watchpoints
  <2>1. /\ is_skip_ref' \in BOOLEAN /\ masked' \subseteq {"look", "stop"}
        /\ nemu_state' = nemu_state \/ nemu_state' = State("STOP")
    BY <1>5, WatchType
  <2>2. at' = "check" /\ UNCHANGED <<program, cpu, ref, left>>
    BY <1>5 DEF check_watchpoints
  <2>3. QED BY <1>2, <2>1, <2>2, StateType DEF MonTypeOK, Machine
<1>6. CASE execute_breaks
  BY <1>2, <1>6 DEF execute_breaks, MonTypeOK, Machine
<1>7. CASE execute_goes_on
  BY <1>2, <1>7, StateType DEF execute_goes_on, MonTypeOK, Machine, Forever
<1>8. CASE cpu_exec_end
  BY <1>2, <1>8, StateType DEF cpu_exec_end, MonTypeOK, Machine
<1>9. QED BY <1>3, <1>4, <1>5, <1>6, <1>7, <1>8 DEF Advance

LEMMA SetType ==
  ASSUME MonTypeOK, WatchedOK, NEW e \in Exprs, NEW result \in Results(e), wp_set(e, result)
  PROVE  /\ (expr \in [WP -> Exprs \cup {"none"}] /\ old \in [WP -> Values])'
         /\ WatchedOK' /\ Active' = Active \cup {free_} /\ free_ \in WP
<1>1. PoolInv' /\ Active' = Active \cup {free_} /\ free_ \in WP
  BY SetKeepsLists DEF WatchedOK
<1>2. result \in Values
  <2>1. CASE e = Device BY <2>1 DEF Results
  <2>2. CASE e # Device
    BY <2>2, MonitorAssumption DEF Results, MonTypeOK, Machine
  <2>3. QED BY <2>1, <2>2
<1>3. expr' = [expr EXCEPT ![free_] = e] /\ old' = [old EXCEPT ![free_] = result]
  BY DEF wp_set
<1>4. (expr \in [WP -> Exprs \cup {"none"}] /\ old \in [WP -> Values])'
  BY <1>1, <1>2, <1>3 DEF MonTypeOK
<1>5. \A wp \in Active' : expr'[wp] \in Exprs
  BY <1>1, <1>3 DEF MonTypeOK, WatchedOK
<1>6. QED BY <1>1, <1>4, <1>5 DEF WatchedOK

LEMMA DeleteType ==
  ASSUME MonTypeOK, WatchedOK, NEW no, wp_delete(no)
  PROVE  expr' = expr /\ old' = old /\ WatchedOK' /\ Active' \subseteq Active
<1>1. PoolInv' /\ Active' \subseteq Active
  BY DeleteKeepsLists DEF WatchedOK
<1>2. expr' = expr /\ old' = old
  BY DEF wp_delete, wp_delete_none, wp_delete_refused, wp_delete_overrun, wp_delete_found, Die, poolVars
<1>3. QED BY <1>1, <1>2 DEF WatchedOK

LEMMA CommandLooks ==
  ASSUME Command
  PROVE  \E looks \in BOOLEAN : Look(looks)
BY DEF Command, cmd_c, cmd_si, cmd_q, no_line, cmd_x_p, cmd_w, cmd_d

LEMMA CommandType ==
  ASSUME MonTypeOK, WatchedOK, Command
  PROVE  MonTypeOK' /\ WatchedOK'
<1>0. /\ program' = program /\ cpu' = cpu /\ ref' = ref
      /\ is_skip_ref' \in BOOLEAN /\ masked' \subseteq {"look", "stop"}
  BY CommandLooks, LookType DEF Command
<1>1. ASSUME NEW n \in Int, cpu_exec_start(n), UNCHANGED poolVars PROVE MonTypeOK' /\ WatchedOK'
  BY <1>0, <1>1, WatchedType, StateType DEF cpu_exec_start, MonTypeOK, Machine, Forever
<1>2. CASE cmd_q \/ no_line \/ cmd_x_p
  BY <1>0, <1>2, WatchedType, StateType DEF Command, cmd_q, no_line, cmd_x_p, MonTypeOK, Machine
<1>3. CASE cmd_w
  <2>1. UNCHANGED <<nemu_state, left, at>> BY <1>3 DEF cmd_w
  <2>2. CASE wp_set_full
    <3>1. UNCHANGED <<lists, expr, old>> BY <2>2 DEF wp_set_full, Die
    <3>2. WatchedOK' BY <3>1, StaysKeepsLists DEF WatchedOK
    <3>3. QED BY <1>0, <2>1, <3>1, <3>2 DEF MonTypeOK, Machine
  <2>3. ASSUME NEW e \in Exprs, NEW result \in Results(e), wp_set(e, result)
        PROVE  MonTypeOK' /\ WatchedOK'
    BY <1>0, <2>1, <2>3, SetType DEF MonTypeOK, Machine
  <2>4. QED BY <1>3, <2>2, <2>3 DEF cmd_w
<1>4. CASE cmd_d
  <2>1. UNCHANGED <<nemu_state, left, at>> BY <1>4 DEF cmd_d
  <2>2. PICK no \in Numbers : wp_delete(no) BY <1>4 DEF cmd_d
  <2>3. expr' = expr /\ old' = old /\ WatchedOK' BY <2>2, DeleteType
  <2>4. QED BY <1>0, <2>1, <2>3 DEF MonTypeOK, Machine
<1>5. CASE cmd_c
  BY <1>1, <1>5 DEF cmd_c, Forever
<1>6. CASE cmd_si
  BY <1>1, <1>6, MonitorAssumption DEF cmd_si
<1>7. QED BY <1>2, <1>3, <1>4, <1>5, <1>6 DEF Command

MonInv == MonTypeOK /\ WatchedOK

LEMMA MonInvInit == MonInit => MonInv /\ Active = {}
<1> SUFFICES ASSUME MonInit PROVE MonInv /\ Active = {}
  OBVIOUS
<1>1. PoolInv /\ Active = {}
  BY PoolInvInit DEF MonInit, init_wp_pool
<1>2. 0 \in Values
  BY ValuesAreRemainders
<1>3. Len(program) \in Nat \ {0}
  BY MonitorAssumption DEF MonInit
<1>4. MonTypeOK
  <2>1. cpu \in Machine /\ ref \in Machine
    BY <1>2, <1>3 DEF MonInit, Machine
  <2>2. expr \in [WP -> Exprs \cup {"none"}] /\ old \in [WP -> Values]
    BY <1>2 DEF MonInit, init_wp_pool, PoolState
  <2>3. nemu_state \in [state : {"RUNNING", "STOP", "END", "ABORT", "QUIT"},
                       halt_ret : Values \cup {-1}]
    BY <1>2 DEF MonInit
  <2>4. is_skip_ref \in BOOLEAN
    BY DEF MonInit
  <2>5. program \in Programs /\ left \in Int /\ at = "prompt" /\ masked = {}
    BY DEF MonInit
  <2>6. QED BY <2>1, <2>2, <2>3, <2>4, <2>5 DEF MonTypeOK
<1>5. QED BY <1>1, <1>4 DEF MonInv, WatchedOK

LEMMA MonInvNext == MonInv /\ [MonNext]_monVars => MonInv'
<1> SUFFICES ASSUME MonInv, [MonNext]_monVars PROVE MonInv'
  OBVIOUS
<1>1. CASE Advance
  BY <1>1, AdvanceType DEF MonInv
<1>2. CASE Command
  BY <1>2, CommandType DEF MonInv
<1>3. CASE UNCHANGED monVars
  BY <1>3, WatchedType DEF MonInv, monVars, nemuVars, MonTypeOK, Machine
<1>4. QED BY <1>1, <1>2, <1>3 DEF MonNext, Exited

\* Every variable of the monitor keeps its type, whatever the program and the
\* commands of the user.
THEOREM MonitorTyped == MonSpec => []MonTypeOK
<1>1. MonInit => MonInv
  BY MonInvInit
<1>2. MonInv => MonTypeOK
  BY DEF MonInv
<1>3. QED BY <1>1, <1>2, MonInvNext, PTL DEF MonSpec

\* At these places no instruction is under way.
Current == at \in {"exec", "prompt", "check", "end"}
             => \A wp \in Active \ OnDevice : old[wp] = cpu.gpr[expr[wp]]

\* When an instruction starts and when the user is asked, every watchpoint on
\* registers has seen the present value of its expression (wp_difftest).
THEOREM WatchpointsAreCurrent == ASSUME WATCHPOINT PROVE MonSpec => []WatchpointsCurrent
<1>1. MonInit => MonInv /\ Current
  BY MonInvInit DEF Current
<1>2. MonInv /\ Current /\ [MonNext]_monVars => Current'
  <2> SUFFICES ASSUME MonInv, Current, [MonNext]_monVars PROVE Current'
    OBVIOUS
  <2> USE DEF MonInv
  <2>1. CASE exec_once \/ difftest_step
    BY <2>1 DEF exec_once, difftest_step, Current
  <2>2. CASE check_watchpoints
    <3>1. PICK seen \in [OnDevice -> Values] : wp_difftest(Now(seen))
      BY <2>2 DEF check_watchpoints, Now
    <3>2. Active' = Active /\ expr' = expr /\ cpu' = cpu
      BY <2>2, <3>1, WatchedType DEF check_watchpoints
    <3>3. ASSUME NEW wp \in Active \ OnDevice PROVE old'[wp] = cpu.gpr[expr[wp]]
      <4>1. wp \in WP BY ActiveInPool
      <4>2. old'[wp] = Now(seen)[wp] BY <3>1, <4>1 DEF wp_difftest, Changed
      <4>3. QED BY <4>2, NowType
    <3>4. QED BY <3>2, <3>3 DEF Current, OnDevice
  <2>3. CASE execute_breaks \/ execute_goes_on \/ cpu_exec_end
    <3>1. at \in {"check", "end", "exec"} /\ UNCHANGED poolVars /\ cpu' = cpu
      BY <2>3 DEF execute_breaks, execute_goes_on, cpu_exec_end
    <3>2. Active' = Active BY <3>1, WatchedType
    <3>3. QED BY <3>1, <3>2 DEF Current, OnDevice, poolVars
  <2>4. CASE Command
    <3>1. at = "prompt" /\ cpu' = cpu BY <2>4 DEF Command
    <3>2. CASE cmd_c \/ cmd_si \/ cmd_q \/ no_line \/ cmd_x_p
      <4>1. UNCHANGED poolVars BY <3>2 DEF cmd_c, cmd_si, cmd_q, no_line, cmd_x_p
      <4>2. Active' = Active BY <4>1, WatchedType
      <4>3. QED BY <3>1, <4>1, <4>2 DEF Current, OnDevice, poolVars
    <3>3. CASE cmd_w
      <4>1. CASE wp_set_full
        <5>1. Active' = Active /\ UNCHANGED <<expr, old>>
          BY <4>1, StaysKeepsLists DEF wp_set_full, Die, WatchedOK
        <5>2. QED BY <3>1, <5>1 DEF Current, OnDevice
      <4>2. ASSUME NEW e \in Exprs, NEW result \in Results(e), wp_set(e, result) PROVE Current'
        <5>1. Active' = Active \cup {free_} /\ free_ \in WP BY <4>2, SetType
        <5>2. expr' = [expr EXCEPT ![free_] = e] /\ old' = [old EXCEPT ![free_] = result]
          BY <4>2 DEF wp_set
        <5>3. ASSUME NEW wp \in Active', expr'[wp] # Device PROVE old'[wp] = cpu.gpr[expr'[wp]]
          <6>1. CASE wp = free_
            BY <5>1, <5>2, <5>3, <6>1 DEF MonTypeOK, Results
          <6>2. CASE wp # free_
            <7>1. wp \in Active \ OnDevice BY <5>1, <5>2, <5>3, <6>2 DEF OnDevice, MonTypeOK
            <7>2. QED BY <3>1, <5>2, <6>2, <7>1 DEF Current, MonTypeOK
          <6>3. QED BY <6>1, <6>2
        <5>4. QED BY <3>1, <5>3 DEF Current, OnDevice
      <4>3. QED BY <3>3, <4>1, <4>2 DEF cmd_w
    <3>4. CASE cmd_d
      <4>1. expr' = expr /\ old' = old /\ Active' \subseteq Active
        BY <3>4, DeleteType DEF cmd_d
      <4>2. QED BY <3>1, <4>1 DEF Current, OnDevice
    <3>5. QED BY <2>4, <3>2, <3>3, <3>4 DEF Command
  <2>5. CASE UNCHANGED monVars
    <3>1. Active' = Active BY <2>5, WatchedType DEF monVars
    <3>2. QED BY <2>5, <3>1 DEF monVars, nemuVars, poolVars, Current, OnDevice
  <2>6. QED BY <2>1, <2>2, <2>3, <2>4, <2>5 DEF MonNext, Advance, Exited
<1>3. Current => WatchpointsCurrent
  BY DEF Current, WatchpointsCurrent
<1>4. QED BY <1>1, <1>2, <1>3, MonInvNext, PTL DEF MonSpec

-----------------------------------------------------------------------------
(* The differential test.                                                  *)

\* Both machines are at the same instruction, or the DUT is one ahead of the
\* reference; the machines are equal, or the run is aborted, or a watchpoint's
\* stop has replaced the abort; and a skip is of the last instruction or comes
\* from a look at a device.
Agree ==
  /\ at # "difftest" => /\ is_skip_ref => "look" \in masked
                        /\ cpu.pc = ref.pc
  /\ at = "difftest" => /\ is_skip_ref \/ cpu.pc = NextPc(ref.pc)
                        /\ is_skip_ref => \/ program[ref.pc].kind \in {Device, "ebreak", "invalid"}
                                          \/ "look" \in masked
  /\ at \notin {"difftest", "main"} =>
       cpu = ref \/ nemu_state.state = "ABORT" \/ "stop" \in masked
  /\ at = "watch" => masked = {}
  /\ at = "exec" => nemu_state.state # "ABORT"

\* What the differential test compares.
LEMMA CompareAgrees ==
  ASSUME MonTypeOK, difftest_compares, cpu.pc = NextPc(ref.pc)
  PROVE  ref'.pc = cpu.pc /\ (ref' = cpu \/ nemu_state'.state = "ABORT")
<1>0. ref'.pc = cpu.pc
  BY DEF difftest_compares, ref_difftest_exec
<1>1. CASE ref_difftest_exec.gpr = cpu.gpr
  <2>1. ref_difftest_exec = [pc |-> cpu.pc, gpr |-> cpu.gpr]
    BY <1>1 DEF ref_difftest_exec
  <2>2. cpu = [pc |-> cpu.pc, gpr |-> cpu.gpr]
    BY DEF MonTypeOK, Machine
  <2>3. QED BY <1>0, <2>1, <2>2 DEF difftest_compares
<1>2. CASE ref_difftest_exec.gpr # cpu.gpr
  BY <1>0, <1>2 DEF difftest_compares, checkregs, State, MonTypeOK
<1>3. QED BY <1>1, <1>2

\* The commands keep what was said of the two machines, and a skip they leave
\* is from a look.
LEMMA LookAgrees ==
  ASSUME Agree, at = "prompt", NEW looks \in BOOLEAN, Look(looks)
  PROVE  /\ is_skip_ref' => "look" \in masked'
         /\ masked \subseteq masked'
BY DEF Look, Agree

\* The first instruction whose result differs from that of the reference is the
\* last that is executed, and no skip is left for another instruction than the
\* one that asked for it (difftest_step, difftest_skip_ref).
THEOREM RunsAgree == ASSUME DIFFTEST PROVE MonSpec => []RunsInAgreement
<1>1. MonInit => MonInv /\ Agree
  BY MonInvInit DEF Agree, MonInit
<1>2. MonInv /\ Agree /\ [MonNext]_monVars => Agree'
  <2> SUFFICES ASSUME MonInv, Agree, [MonNext]_monVars PROVE Agree'
    OBVIOUS
  <2> USE DEF MonInv
  <2>1. CASE exec_once
    <3>1. /\ cpu.pc = ref.pc /\ (is_skip_ref => "look" \in masked)
          /\ at' = "difftest" /\ UNCHANGED <<program, ref, masked>>
      BY <2>1 DEF exec_once, Agree
    <3>2. /\ is_skip_ref' \/ cpu'.pc = NextPc(cpu.pc)
          /\ is_skip_ref' => inst.kind \in {Device, "ebreak", "invalid"} \/ is_skip_ref
      <4>1. CASE exec_alu BY <4>1 DEF exec_alu
      <4>2. CASE exec_device BY <4>2 DEF exec_device
      <4>3. CASE exec_ebreak BY <4>3 DEF exec_ebreak
      <4>4. CASE exec_invalid BY <4>4 DEF exec_invalid, set_nemu_state
      <4>5. QED BY <2>1, <4>1, <4>2, <4>3, <4>4 DEF exec_once
    <3>3. QED BY <3>1, <3>2 DEF Agree, NextPc, inst
  <2>2. CASE difftest_step
    <3>1. /\ at' = "watch" /\ masked' = {} /\ cpu' = cpu /\ at = "difftest"
          /\ difftest_skips \/ difftest_compares
      BY <2>2 DEF difftest_step
    <3>2. CASE difftest_skips
      BY <3>1, <3>2 DEF difftest_skips, Agree
    <3>3. CASE difftest_compares
      <4>1. cpu.pc = NextPc(ref.pc) BY <3>1, <3>3 DEF difftest_compares, Agree
      <4>2. ref'.pc = cpu.pc /\ (ref' = cpu \/ nemu_state'.state = "ABORT")
        BY <3>3, <4>1, CompareAgrees
      <4>3. ~is_skip_ref' BY <3>3 DEF difftest_compares
      <4>4. QED BY <3>1, <4>2, <4>3 DEF Agree
    <3>4. QED BY <3>1, <3>2, <3>3
  <2>3. CASE check_watchpoints
    <3>1. /\ at = "watch" /\ at' = "check" /\ UNCHANGED <<program, cpu, ref>>
          /\ cpu.pc = ref.pc /\ ~is_skip_ref
          /\ cpu = ref \/ nemu_state.state = "ABORT"
      BY <2>3 DEF check_watchpoints, Agree
    <3>2. /\ is_skip_ref' => "look" \in masked'
          /\ nemu_state.state = "ABORT" => nemu_state'.state = "ABORT" \/ "stop" \in masked'
      BY <2>3, <3>1 DEF check_watchpoints
    <3>3. QED BY <3>1, <3>2 DEF Agree
  <2>4. CASE execute_breaks
    BY <2>4 DEF execute_breaks, Agree
  <2>5. CASE execute_goes_on
    BY <2>5 DEF execute_goes_on, Agree, State, MonTypeOK
  <2>6. CASE cpu_exec_end
    BY <2>6 DEF cpu_exec_end, Agree, State, MonTypeOK
  <2>7. CASE Command
    <3>1. UNCHANGED <<program, cpu, ref>> /\ at = "prompt" BY <2>7 DEF Command
    <3>2. (is_skip_ref' => "look" \in masked') /\ masked \subseteq masked'
      BY <2>7, <3>1, CommandLooks, LookAgrees
    <3>3. ASSUME NEW n, cpu_exec_start(n) PROVE Agree'
      BY <3>1, <3>2, <3>3 DEF cpu_exec_start, Agree, State, MonTypeOK
    <3>4. CASE cmd_q \/ no_line
      BY <3>1, <3>2, <3>4 DEF cmd_q, no_line, Agree
    <3>5. CASE cmd_w \/ cmd_d \/ cmd_x_p
      BY <3>1, <3>2, <3>5 DEF cmd_w, cmd_d, cmd_x_p, Agree
    <3>6. CASE cmd_c BY <3>3, <3>6 DEF cmd_c
    <3>7. CASE cmd_si BY <3>3, <3>7 DEF cmd_si
    <3>8. QED BY <2>7, <3>4, <3>5, <3>6, <3>7 DEF Command
  <2>8. CASE UNCHANGED monVars
    BY <2>8 DEF monVars, nemuVars, Agree, NextPc
  <2>9. QED BY <2>1, <2>2, <2>3, <2>4, <2>5, <2>6, <2>7, <2>8 DEF MonNext, Advance, Exited
<1>3. Agree => RunsInAgreement
  BY DEF Agree, RunsInAgreement
<1>4. QED BY <1>1, <1>2, <1>3, MonInvNext, PTL DEF MonSpec
=============================================================================
