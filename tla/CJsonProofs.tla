------------------------------ MODULE CJsonProofs ------------------------------
(***************************************************************************)
(* Proofs about the JSON library, for a heap of any size.                   *)
(*                                                                          *)
(* Where an item is in the linked lists is described by two coordinates,    *)
(* the owner of its list and its place in it.  They are not in the code:    *)
(* the invariant says that some exist.  An item has its children for a      *)
(* list, and so has every array or object that the parser has open; no call *)
(* does more than move an item, or a whole list, from one owner to another. *)
(***************************************************************************)
EXTENDS CJson, FiniteSetTheorems, WellFoundedInduction, TLAPS

--------------------------------------------------------------------------------
(* Walks.                                                                   *)

\* A nonempty set of numbers has a least element; the inductions below are on it.
LEMMA Least ==
    ASSUME NEW S \in SUBSET Nat, S # {}
    PROVE  \E n \in S : \A m \in S : n <= m
<1> DEFINE below == {0..n : n \in S}
<1>1. below \subseteq FiniteSubsetsOf(Nat) /\ below # {}
  <2>1. \A n \in S : IsFiniteSet(0..n)
    BY FS_Interval
  <2>2. \A n \in S : 0..n \in SUBSET Nat
    OBVIOUS
  <2>3. \A n \in S : 0..n \in FiniteSubsetsOf(Nat)
    BY <2>1, <2>2, Zenon DEF FiniteSubsetsOf
  <2> QED
    BY <2>3, Zenon
<1>2. PICK x \in below : \A y \in below : ~(<<y, x>> \in StrictSubsetOrdering(Nat))
  <2> HIDE DEF below
  <2> QED
    BY <1>1, FS_StrictSubsetOrderingWellFounded, WFMin
<1>3. PICK n \in S : x = 0..n
  BY <1>2
<1>4. ASSUME NEW m \in S, m < n
      PROVE  FALSE
  <2>1. 0..m \in SUBSET Nat /\ x \in SUBSET Nat /\ 0..m \subseteq x
    BY <1>3, <1>4
  <2>2. n \in x /\ n \notin 0..m
    BY <1>3, <1>4
  <2>3. <<0..m, x>> \in StrictSubsetOrdering(Nat)
    BY <2>1, <2>2 DEF StrictSubsetOrdering
  <2>4. 0..m \in below
    BY Zenon
  <2> QED
    BY <1>2, <2>3, <2>4, Zenon
<1> QED
  BY <1>3, <1>4

\* What Min returns.
LEMMA MinIn ==
    ASSUME NEW S \in SUBSET Nat, S # {}
    PROVE  Min(S) \in S /\ \A m \in S : Min(S) <= m
  BY Least DEF Min

\* f is the walk along next of m steps.
IsWalk(f, h, first, m) == f = [n \in 1..m |-> IF n = 1 THEN first ELSE After(h, f[n - 1])]

\* The walk that Walk defines by recursion exists, for any length.
LEMMA WalkExists ==
    ASSUME NEW h, NEW first, NEW N \in Nat
    PROVE  \E f : IsWalk(f, h, first, N)
<1> DEFINE T == {m \in Nat : ~ \E f : IsWalk(f, h, first, m)}
<1> SUFFICES ASSUME T # {} PROVE FALSE
  OBVIOUS
<1>1. PICK m \in T : \A k \in T : m <= k
  <2>1. T \in SUBSET Nat
    OBVIOUS
  <2> HIDE DEF T
  <2> QED
    BY <2>1, Least
<1>2. IsWalk([n \in 1..0 |-> n], h, first, 0)
  BY DEF IsWalk
<1>3. m \in Nat /\ m # 0
  BY <1>1, <1>2
<1>4. m - 1 \in Nat /\ m - 1 \notin T
  BY <1>1, <1>3
<1>5. PICK f : IsWalk(f, h, first, m - 1)
  BY <1>4
<1> DEFINE g == [n \in 1..m |-> IF n = 1 THEN first ELSE After(h, f[n - 1])]
<1>6. \A n \in 1..(m-1) : g[n] = f[n]
  BY <1>3, <1>5 DEF IsWalk
<1>7. \A n \in 1..m : n # 1 => g[n-1] = f[n-1]
  BY <1>3, <1>6
<1>8. IsWalk(g, h, first, m)
  BY <1>3, <1>7 DEF IsWalk
<1> HIDE DEF g
<1> QED BY <1>1, <1>8

\* What Walk computes.
LEMMA WalkIs ==
    ASSUME NEW h, NEW first
    PROVE  IsWalk(Walk(h, first), h, first, Items)
<1> DEFINE at == CHOOSE f : f = [n \in 1..Items |-> IF n = 1 THEN first ELSE After(h, f[n - 1])]
<1>1. IsWalk(at, h, first, Items)
  <2>1. \E f : IsWalk(f, h, first, Items)
    BY WalkExists, BoundsAssumption
  <2> QED BY <2>1, Zenon DEF IsWalk
<1>2. Walk(h, first) = [n \in 1..Items |-> at[n]]
  BY Zenon DEF Walk
<1>3. Walk(h, first) = at
  <2> HIDE DEF at
  <2> QED BY <1>1, <1>2 DEF IsWalk
<1> QED BY <1>1, <1>3, Zenon

--------------------------------------------------------------------------------
(* Lists as coordinates: an item has an owner and a place.  What each call does *)
(* to the links, and that the lists survive it.                             *)

\* What a list may belong to: an item, or a frame of the parser, which has a number
\* above the addresses.  NULL owns nothing: an item without an owner is a root.
Owner == 0..(Items + NestingLimit)

\* What a pointer may hold.
Link == Item \cup {NULL}

\* NULL is no address, and owners are told apart from it.
LEMMA Addresses == Item \subseteq Owner /\ NULL \in Owner /\ NULL \notin Item
<1>1. Items \in Nat /\ NestingLimit \in Nat
  BY BoundsAssumption
<1>2. \A j \in Item : j \in Owner
  BY <1>1 DEF Item, Owner
<1> QED
  BY <1>1, <1>2 DEF Item, Owner, NULL

\* The links, the heads of the lists, and the coordinates of every item: the owner of
\* its list and its place in it.
Typed(next, prev, head, own, idx) ==
    /\ next \in [Item -> Link] /\ prev \in [Item -> Link] /\ head \in [Owner -> Link]
    /\ own \in [Item -> Owner] /\ idx \in [Item -> Nat]

\* The head of a list is the first of its owner.
HeadsFit(head, own, idx) ==
    /\ head[NULL] = NULL
    /\ \A o \in Owner : head[o] # NULL => own[head[o]] = o /\ idx[head[o]] = 1

\* A root is alone.
Loose(next, prev, own) == \A j \in Item : own[j] = NULL => next[j] = NULL /\ prev[j] = NULL

\* next goes to the next place, and ends at the last; a list that is not empty has a head.
Forward(next, head, own, idx, j) ==
    /\ idx[j] > 0 /\ head[own[j]] # NULL
    /\ idx[j] = 1 => head[own[j]] = j
    /\ next[j] # NULL => own[next[j]] = own[j] /\ idx[next[j]] = idx[j] + 1
    /\ next[j] = NULL => \A k \in Item : own[k] = own[j] => idx[k] <= idx[j]

\* prev goes back along next.  The prev of the first is the last, once the list has been
\* handed to an item; the parser ties it only then.
Backward(next, prev, own, idx, j) ==
    /\ idx[j] > 1 => prev[j] # NULL /\ own[prev[j]] = own[j] /\ next[prev[j]] = j
    /\ idx[j] = 1 /\ own[j] \in Item =>
        prev[j] # NULL /\ own[prev[j]] = own[j] /\ next[prev[j]] = NULL

\* A place is taken once.
Unique(own, idx) ==
    \A j, k \in Item : own[j] = own[k] /\ own[j] # NULL /\ idx[j] = idx[k] => j = k

\* The items form doubly linked lists, one for each owner.
Lists(next, prev, head, own, idx) ==
    /\ Typed(next, prev, head, own, idx)
    /\ HeadsFit(head, own, idx)
    /\ Loose(next, prev, own)
    /\ \A j \in Item : own[j] # NULL =>
        Forward(next, head, own, idx, j) /\ Backward(next, prev, own, idx, j)
    /\ Unique(own, idx)

\* i is linked after the last item of the list of o.
AppendsTo(next, prev, head, next2, prev2, o, last, i) ==
    /\ next2 \in [Item -> Link] /\ prev2 \in [Item -> Link]
    /\ \A j \in Item : next2[j] = IF j = last THEN i ELSE next[j]
    /\ \A j \in Item : prev2[j] = IF j = i THEN last
                                   ELSE IF j = head[o] /\ o \in Item THEN i ELSE prev[j]

\* i becomes the only item of the list of o.
PutsFirst(prev, prev2, o, i) ==
    /\ prev2 \in [Item -> Link]
    /\ \A j \in Item : prev2[j] = IF j = i /\ o \in Item THEN i ELSE prev[j]

\* i is linked before the item after.
InsertsBefore(next, prev, next2, prev2, after, i) ==
    /\ next2 \in [Item -> Link] /\ prev2 \in [Item -> Link]
    /\ \A j \in Item : next2[j] = IF j = i THEN after ELSE IF next[j] = after THEN i ELSE next[j]
    /\ \A j \in Item : prev2[j] = IF j = i THEN prev[after] ELSE IF j = after THEN i ELSE prev[j]

\* The item is taken out of its list.
Unlinks(next, prev, next2, prev2, item) ==
    /\ next2 \in [Item -> Link] /\ prev2 \in [Item -> Link]
    /\ \A j \in Item : next2[j] = IF j = item THEN NULL
                                   ELSE IF next[j] = item THEN next[item] ELSE next[j]
    /\ \A j \in Item : prev2[j] = IF j = item THEN NULL
                                   ELSE IF prev[j] = item THEN prev[item] ELSE prev[j]

\* i takes the place of the item.
Substitutes(next, prev, next2, prev2, item, i) ==
    /\ next2 \in [Item -> Link] /\ prev2 \in [Item -> Link]
    /\ \A j \in Item : next2[j] = IF j = item THEN NULL ELSE IF j = i THEN next[item]
                                   ELSE IF next[j] = item THEN i ELSE next[j]
    /\ \A j \in Item : prev2[j] = IF j = item THEN NULL
                                   ELSE IF j = i THEN IF prev[item] = item THEN i ELSE prev[item]
                                   ELSE IF prev[j] = item THEN i ELSE prev[j]

\* The prev of the first is set to the last.
Ties(prev, prev2, first, last) ==
    /\ prev2 \in [Item -> Link]
    /\ \A j \in Item : prev2[j] = IF j = first THEN last ELSE prev[j]

\* The items of S lose their links, and the owners in X their lists.
Drops(next, prev, head, next2, prev2, head2, S, X) ==
    /\ next2 \in [Item -> Link] /\ prev2 \in [Item -> Link]
    /\ head2 \in [Owner -> Link]
    /\ \A j \in Item : next2[j] = IF j \in S THEN NULL ELSE next[j]
    /\ \A j \in Item : prev2[j] = IF j \in S THEN NULL ELSE prev[j]
    /\ \A o \in Owner : head2[o] = IF o \in X THEN NULL ELSE head[o]

\* An item appended keeps the lists: add_item_to_array, and the loops of parse_array and
\* parse_object.
LEMMA Appended ==
    ASSUME NEW next, NEW prev, NEW head, NEW own, NEW idx, Lists(next, prev, head, own, idx),
           NEW o \in Owner, o # NULL, NEW i \in Item, own[i] = NULL,
           NEW last \in Item, own[last] = o, next[last] = NULL,
           NEW next2, NEW prev2, AppendsTo(next, prev, head, next2, prev2, o, last, i)
    PROVE Lists(next2, prev2, head, [own EXCEPT ![i] = o], [idx EXCEPT ![i] = idx[last] + 1])
<1> DEFINE own2 == [own EXCEPT ![i] = o]
           idx2 == [idx EXCEPT ![i] = idx[last] + 1]
<1> USE Addresses DEF Link, AppendsTo
<1>1. /\ head[o] \in Item /\ own[head[o]] = o /\ idx[head[o]] = 1 /\ idx[last] > 0
      /\ \A k \in Item : own[k] = o => idx[k] <= idx[last]
  BY DEF Lists, Typed, HeadsFit, Forward
<1>2. Typed(next2, prev2, head, own2, idx2)
  BY <1>1 DEF Lists, Typed
<1>3. HeadsFit(head, own2, idx2)
  BY <1>1 DEF Lists, Typed, HeadsFit
<1>4. Loose(next2, prev2, own2)
  BY <1>1 DEF Lists, Typed, Loose, HeadsFit
<1>5. ASSUME NEW j \in Item, own2[j] # NULL PROVE Forward(next2, head, own2, idx2, j)
  <2>1. CASE j = i
    BY <1>1, <2>1 DEF Lists, Typed, Loose, Forward
  <2>2. CASE j # i
    <3>1. own2[j] = own[j] /\ idx2[j] = idx[j] /\ own[j] # NULL /\ Forward(next, head, own, idx, j)
      BY <1>5, <2>2 DEF Lists, Typed
    <3>2. next2[j] # NULL => own2[next2[j]] = own2[j] /\ idx2[next2[j]] = idx2[j] + 1
      BY <1>1, <3>1, <2>2 DEF Lists, Typed, Forward, Loose
    <3>3. next2[j] = NULL => \A k \in Item : own2[k] = own2[j] => idx2[k] <= idx2[j]
      BY <1>1, <3>1, <2>2 DEF Lists, Typed, Forward, Unique
    <3> QED
      BY <3>1, <3>2, <3>3 DEF Forward
  <2> QED
    BY <2>1, <2>2
<1>6. ASSUME NEW j \in Item, own2[j] # NULL PROVE Backward(next2, prev2, own2, idx2, j)
  <2>1. CASE j = i
    BY <1>1, <2>1 DEF Lists, Typed, Backward
  <2>2. CASE j # i
    <3>1. own2[j] = own[j] /\ idx2[j] = idx[j] /\ own[j] # NULL /\ Forward(next, head, own, idx, j)
          /\ Backward(next, prev, own, idx, j)
      BY <1>6, <2>2 DEF Lists, Typed
    <3>2. ASSUME idx[j] > 1
          PROVE  prev2[j] # NULL /\ own2[prev2[j]] = own2[j] /\ next2[prev2[j]] = j
      <4>1. prev[j] \in Item /\ prev[j] # i /\ prev[j] # last /\ j # head[o]
        BY <1>1, <3>1, <3>2 DEF Lists, Typed, Backward
      <4> QED
        BY <4>1, <3>1, <3>2, <2>2 DEF Lists, Typed, Backward
    <3>3. ASSUME idx[j] = 1, own[j] \in Item
          PROVE  prev2[j] # NULL /\ own2[prev2[j]] = own2[j] /\ next2[prev2[j]] = NULL
      <4>1. CASE j = head[o]
        BY <1>1, <4>1, <2>2, <3>1, <3>3 DEF Lists, Typed, Loose
      <4>2. CASE j # head[o]
        <5>1. prev[j] \in Item /\ prev[j] # i /\ prev[j] # last
          BY <1>1, <3>1, <4>2, <3>3 DEF Lists, Typed, Backward, Forward
        <5> QED
          BY <5>1, <4>2, <3>1, <2>2, <3>3 DEF Lists, Typed, Backward
      <4> QED
        BY <4>1, <4>2
    <3> QED
      BY <3>1, <3>2, <3>3 DEF Backward
  <2> QED
    BY <2>1, <2>2
<1>7. Unique(own2, idx2)
  BY <1>1 DEF Lists, Typed, Unique
<1> HIDE DEF own2, idx2
<1>8. Lists(next2, prev2, head, own2, idx2)
  BY <1>2, <1>3, <1>4, <1>5, <1>6, <1>7 DEF Lists
<1> QED
  BY <1>8 DEF own2, idx2

\* So does the first item of a list.
LEMMA FirstPlaced ==
    ASSUME NEW next, NEW prev, NEW head, NEW own, NEW idx, Lists(next, prev, head, own, idx),
           NEW o \in Owner, o # NULL, head[o] = NULL, NEW i \in Item, own[i] = NULL,
           NEW prev2, PutsFirst(prev, prev2, o, i)
    PROVE Lists(next, prev2, [head EXCEPT ![o] = i], [own EXCEPT ![i] = o], [idx EXCEPT ![i] = 1])
<1> DEFINE own2 == [own EXCEPT ![i] = o]
           idx2 == [idx EXCEPT ![i] = 1]
           head2 == [head EXCEPT ![o] = i]
<1> USE Addresses DEF Link, PutsFirst
<1>1. \A k \in Item : own[k] # o
  BY DEF Lists, Typed, Forward
<1>2. Typed(next, prev2, head2, own2, idx2)
  BY DEF Lists, Typed
<1>3. HeadsFit(head2, own2, idx2)
  BY <1>1 DEF Lists, Typed, HeadsFit
<1>4. Loose(next, prev2, own2)
  BY <1>1 DEF Lists, Typed, Loose
<1>5. ASSUME NEW j \in Item, own2[j] # NULL PROVE Forward(next, head2, own2, idx2, j)
  <2>1. CASE j = i
    BY <1>1, <2>1 DEF Lists, Typed, Loose, Forward
  <2>2. CASE j # i
    <3>1. own2[j] = own[j] /\ idx2[j] = idx[j] /\ own[j] \notin {NULL, o} /\ Forward(next, head, own, idx, j)
      BY <1>1, <1>5, <2>2 DEF Lists, Typed
    <3> QED
      BY <1>1, <3>1, <2>2 DEF Lists, Typed, Forward
  <2> QED
    BY <2>1, <2>2
<1>6. ASSUME NEW j \in Item, own2[j] # NULL PROVE Backward(next, prev2, own2, idx2, j)
  <2>1. CASE j = i
    BY <1>1, <2>1 DEF Lists, Typed, Loose, Backward
  <2>2. CASE j # i
    <3>1. own2[j] = own[j] /\ idx2[j] = idx[j] /\ own[j] \notin {NULL, o} /\ Backward(next, prev, own, idx, j)
      BY <1>1, <1>6, <2>2 DEF Lists, Typed
    <3> QED
      BY <1>1, <3>1, <2>2 DEF Lists, Typed, Backward
  <2> QED
    BY <2>1, <2>2
<1>7. Unique(own2, idx2)
  BY <1>1 DEF Lists, Typed, Unique
<1> HIDE DEF own2, idx2, head2
<1>8. Lists(next, prev2, head2, own2, idx2)
  BY <1>2, <1>3, <1>4, <1>5, <1>6, <1>7 DEF Lists
<1> QED
  BY <1>8 DEF own2, idx2, head2

\* So does cJSON_InsertItemInArray: the places from there on move up by one.
LEMMA Inserted ==
    ASSUME NEW next, NEW prev, NEW head, NEW own, NEW idx, Lists(next, prev, head, own, idx),
           NEW after \in Item, own[after] \in Item, NEW i \in Item, own[i] = NULL,
           NEW next2, NEW prev2, InsertsBefore(next, prev, next2, prev2, after, i)
    PROVE \E idx2 : Lists(next2, prev2, [head EXCEPT ![own[after]] = IF @ = after THEN i ELSE @],
                          [own EXCEPT ![i] = own[after]], idx2)
<1> DEFINE a == own[after]
           own2 == [own EXCEPT ![i] = a]
           idx2 == [j \in Item |-> IF j = i THEN idx[after]
                                ELSE IF own[j] = a /\ idx[j] >= idx[after] THEN idx[j] + 1 ELSE idx[j]]
           head2 == [head EXCEPT ![a] = IF @ = after THEN i ELSE @]
<1> USE Addresses DEF Link, InsertsBefore
<1>1. /\ head[a] \in Item /\ own[head[a]] = a /\ idx[head[a]] = 1 /\ idx[after] > 0 /\ a # NULL /\ a \in Owner
      /\ head[a] = after <=> idx[after] = 1
      /\ prev[after] \in Item /\ own[prev[after]] = a
  BY DEF Lists, Typed, HeadsFit, Forward, Backward
<1>2. Typed(next2, prev2, head2, own2, idx2)
  BY <1>1 DEF Lists, Typed
<1>3. HeadsFit(head2, own2, idx2)
  BY <1>1 DEF Lists, Typed, HeadsFit
<1>4. Loose(next2, prev2, own2)
  BY <1>1 DEF Lists, Typed, Loose
<1>5. ASSUME NEW j \in Item, own2[j] # NULL PROVE Forward(next2, head2, own2, idx2, j)
  <2>1. CASE j = i
    BY <1>1, <2>1 DEF Lists, Typed, Loose, Forward
  <2>2. CASE j # i
    <3>1. own2[j] = own[j] /\ own[j] # NULL /\ Forward(next, head, own, idx, j)
      BY <1>1, <1>5, <2>2 DEF Lists, Typed
    <3>2. idx2[j] > 0 /\ head2[own2[j]] # NULL
      BY <1>1, <3>1, <2>2 DEF Lists, Typed, Forward
    <3>3. idx2[j] = 1 => head2[own2[j]] = j
      BY <1>1, <3>1, <2>2 DEF Lists, Typed, Forward
    <3>4. ASSUME next2[j] # NULL
          PROVE  own2[next2[j]] = own2[j] /\ idx2[next2[j]] = idx2[j] + 1
      <4>1. next[j] \in Item /\ own[next[j]] = own[j] /\ idx[next[j]] = idx[j] + 1
        BY <2>2, <3>1, <3>4 DEF Lists, Typed, Forward
      <4>2. CASE next[j] = after
        BY <2>2, <3>1, <4>1, <4>2 DEF Lists, Typed
      <4>3. CASE next[j] # after
        <5>1. next2[j] = next[j] /\ next[j] # i
          BY <2>2, <3>1, <4>1, <4>3
        <5>2. own[j] = a => idx[next[j]] # idx[after]
          <6>1. \A x, y \in Item : own[x] = own[y] /\ own[x] # NULL /\ idx[x] = idx[y] => x = y
            BY Zenon DEF Lists, Unique
          <6> QED
            BY <1>1, <3>1, <4>1, <4>3, <6>1
        <5>3. idx[j] \in Nat /\ idx[after] \in Nat
          BY DEF Lists, Typed
        <5>4. \A x \in Item : x # i => /\ own2[x] = own[x]
                 /\ idx2[x] = IF own[x] = a /\ idx[x] >= idx[after] THEN idx[x] + 1 ELSE idx[x]
          BY DEF Lists, Typed
        <5> HIDE DEF own2, idx2, a
        <5> QED
          BY <2>2, <3>1, <4>1, <5>1, <5>2, <5>3, <5>4
      <4> QED
        BY <4>2, <4>3
    <3>5. ASSUME next2[j] = NULL, NEW k \in Item, own2[k] = own2[j]
          PROVE  idx2[k] <= idx2[j]
      <4>1. next[j] = NULL /\ idx[j] \in Nat /\ idx[k] \in Nat /\ idx[after] \in Nat
        BY <2>2, <3>5 DEF Lists, Typed
      <4>2. idx2[j] = IF own[j] = a /\ idx[j] >= idx[after] THEN idx[j] + 1 ELSE idx[j]
        BY <2>2
      <4>3. CASE k = i
        <5>1. own[j] = a /\ idx2[k] = idx[after]
          BY <3>1, <3>5, <4>3 DEF Lists, Typed
        <5>2. idx[after] <= idx[j]
          BY <3>1, <4>1, <5>1 DEF Forward
        <5> HIDE DEF idx2
        <5> QED
          BY <4>1, <4>2, <5>1, <5>2
      <4>4. CASE k # i
        <5>1. own[k] = own[j] /\ idx2[k] = IF own[k] = a /\ idx[k] >= idx[after] THEN idx[k] + 1 ELSE idx[k]
          BY <3>1, <3>5, <4>4 DEF Lists, Typed
        <5>2. idx[k] <= idx[j]
          BY <3>1, <4>1, <5>1 DEF Forward
        <5> HIDE DEF idx2
        <5> QED
          BY <4>1, <4>2, <5>1, <5>2
      <4> QED
        BY <4>3, <4>4
    <3> QED
      BY <3>2, <3>3, <3>4, <3>5 DEF Forward
  <2> QED
    BY <2>1, <2>2
<1>6. ASSUME NEW j \in Item, own2[j] # NULL PROVE Backward(next2, prev2, own2, idx2, j)
  <2>1. CASE j = i
    BY <1>1, <2>1 DEF Lists, Typed, Backward, Forward
  <2>2. CASE j # i
    <3>1. own2[j] = own[j] /\ own[j] # NULL /\ Forward(next, head, own, idx, j)
          /\ Backward(next, prev, own, idx, j)
      BY <1>6, <2>2 DEF Lists, Typed
    <3>2. ASSUME idx2[j] > 1
          PROVE  prev2[j] # NULL /\ own2[prev2[j]] = own2[j] /\ next2[prev2[j]] = j
      BY <1>1, <3>1, <3>2, <2>2 DEF Lists, Typed, Backward, Forward
    <3>3. ASSUME idx2[j] = 1, own[j] \in Item
          PROVE  prev2[j] # NULL /\ own2[prev2[j]] = own2[j] /\ next2[prev2[j]] = NULL
      BY <1>1, <3>1, <3>3, <2>2 DEF Lists, Typed, Backward, Forward
    <3> QED
      BY <3>1, <3>2, <3>3 DEF Backward
  <2> QED
    BY <2>1, <2>2
<1>7. ASSUME NEW j \in Item, NEW k \in Item, own2[j] = own2[k], own2[j] # NULL, idx2[j] = idx2[k]
      PROVE  j = k
  <2>1. \A x \in Item : x # i => /\ own2[x] = own[x] /\ idx[x] \in Nat /\ idx[after] \in Nat
                                 /\ idx2[x] # idx[after] \/ own[x] # a
    BY DEF Lists, Typed
  <2>2. own2[i] = a /\ idx2[i] = idx[after]
    BY DEF Lists, Typed
  <2>3. CASE j = i \/ k = i
    <3> HIDE DEF own2, idx2
    <3> QED
      BY <1>7, <2>1, <2>2, <2>3
  <2>4. CASE j # i /\ k # i
    <3>1. own[j] = own[k] /\ own[j] # NULL
      BY <1>7, <2>1, <2>4
    <3>2. idx[j] = idx[k]
      BY <1>7, <2>1, <2>4, <3>1
    <3> QED
      BY <3>1, <3>2 DEF Lists, Unique
  <2> QED
    BY <2>3, <2>4
<1> HIDE DEF own2, idx2, head2
<1>8. Lists(next2, prev2, head2, own2, idx2)
  BY <1>2, <1>3, <1>4, <1>5, <1>6, <1>7 DEF Lists, Unique
<1> QED
  BY <1>8 DEF own2, head2

\* So does cJSON_DetachItemViaPointer: the places after the item move down by one.
LEMMA Detached ==
    ASSUME NEW next, NEW prev, NEW head, NEW own, NEW idx, Lists(next, prev, head, own, idx),
           NEW item \in Item, own[item] \in Item,
           NEW next2, NEW prev2, Unlinks(next, prev, next2, prev2, item)
    PROVE \E idx2 : Lists(next2, prev2, [head EXCEPT ![own[item]] = IF @ = item THEN next[item] ELSE @],
                          [own EXCEPT ![item] = NULL], idx2)
<1> DEFINE a == own[item]
           own2 == [own EXCEPT ![item] = NULL]
           idx2 == [j \in Item |-> IF own[j] = a /\ idx[j] > idx[item] THEN idx[j] - 1 ELSE idx[j]]
           head2 == [head EXCEPT ![a] = IF @ = item THEN next[item] ELSE @]
<1> USE Addresses DEF Link, Unlinks
<1>1. /\ head[a] \in Item /\ own[head[a]] = a /\ idx[head[a]] = 1 /\ idx[item] > 0 /\ a # NULL /\ a \in Owner
      /\ head[a] = item <=> idx[item] = 1
      /\ prev[item] \in Item /\ own[prev[item]] = a
      /\ next[item] # NULL => next[item] \in Item /\ own[next[item]] = a /\ idx[next[item]] = idx[item] + 1
      /\ next[item] = NULL => \A k \in Item : own[k] = a => idx[k] <= idx[item]
      /\ idx[item] > 1 => next[prev[item]] = item /\ idx[prev[item]] = idx[item] - 1
      /\ idx[item] = 1 => next[prev[item]] = NULL
  BY DEF Lists, Typed, HeadsFit, Forward, Backward
<1>2. Typed(next2, prev2, head2, own2, idx2)
  BY <1>1 DEF Lists, Typed
<1>3. HeadsFit(head2, own2, idx2)
  BY <1>1 DEF Lists, Typed, HeadsFit
<1>4. Loose(next2, prev2, own2)
  BY <1>1 DEF Lists, Typed, Loose
<1>5. ASSUME NEW j \in Item, own2[j] # NULL PROVE Forward(next2, head2, own2, idx2, j)
  <2>1. j # item /\ own2[j] = own[j] /\ own[j] # NULL /\ Forward(next, head, own, idx, j)
    BY <1>1, <1>5 DEF Lists, Typed
  <2>2. idx2[j] > 0
    BY <1>1, <2>1 DEF Lists, Typed, Forward
  <2>3. head2[own2[j]] # NULL
    BY <1>1, <2>1 DEF Lists, Typed, Forward, Unique
  <2>4. idx2[j] = 1 => head2[own2[j]] = j
    BY <1>1, <2>1 DEF Lists, Typed, Forward, Unique
  <2>5. next2[j] # NULL => own2[next2[j]] = own2[j] /\ idx2[next2[j]] = idx2[j] + 1
    BY <1>1, <2>1, SMTT(60) DEF Lists, Typed, Forward, Unique
  <2>6. next2[j] = NULL => \A k \in Item : own2[k] = own2[j] => idx2[k] <= idx2[j]
    BY <1>1, <2>1 DEF Lists, Typed, Forward, Unique
  <2> QED
    BY <2>2, <2>3, <2>4, <2>5, <2>6 DEF Forward
<1>6. ASSUME NEW j \in Item, own2[j] # NULL PROVE Backward(next2, prev2, own2, idx2, j)
  <2>1. j # item /\ own2[j] = own[j] /\ own[j] # NULL /\ Forward(next, head, own, idx, j)
        /\ Backward(next, prev, own, idx, j)
    BY <1>1, <1>6 DEF Lists, Typed
  <2>2. ASSUME idx2[j] > 1
        PROVE  prev2[j] # NULL /\ own2[prev2[j]] = own2[j] /\ next2[prev2[j]] = j
    BY <1>1, <2>1, <2>2 DEF Lists, Typed, Backward, Forward, Unique
  <2>3. ASSUME idx2[j] = 1, own[j] \in Item
        PROVE  prev2[j] # NULL /\ own2[prev2[j]] = own2[j] /\ next2[prev2[j]] = NULL
    <3>1. CASE own[j] # a
      BY <1>1, <2>1, <2>3, <3>1 DEF Lists, Typed, Backward, Forward
    <3>2. CASE own[j] = a /\ idx[j] = 1
      <4>1. prev[j] \in Item /\ own[prev[j]] = a /\ next[prev[j]] = NULL /\ idx[item] > 1
        BY <1>1, <2>1, <2>3, <3>2 DEF Lists, Typed, Backward, Forward
      <4> QED
        BY <1>1, <2>1, <3>2, <4>1 DEF Lists, Typed
    <3>3. CASE own[j] = a /\ idx[j] # 1
      <4>1. idx[item] = 1 /\ idx[j] = 2
        BY <1>1, <2>1, <2>3, <3>3 DEF Lists, Typed
      <4>2. prev[j] = item /\ next[item] = j
        BY <1>1, <2>1, <3>3, <4>1 DEF Lists, Typed, Backward, Forward, Unique
      <4> QED
        BY <1>1, <2>1, <3>3, <4>1, <4>2 DEF Lists, Typed
    <3> QED
      BY <3>1, <3>2, <3>3
  <2> QED
    BY <2>1, <2>2, <2>3 DEF Backward
<1>7. ASSUME NEW j \in Item, NEW k \in Item, own2[j] = own2[k], own2[j] # NULL, idx2[j] = idx2[k]
      PROVE  j = k
  <2>1. j # item /\ k # item /\ own[j] = own[k] /\ own[j] # NULL
    BY <1>7 DEF Lists, Typed
  <2>2. idx[j] \in Nat /\ idx[k] \in Nat /\ idx[item] \in Nat
    BY DEF Lists, Typed
  <2>3. own[j] = a => idx[j] # idx[item] /\ idx[k] # idx[item]
    <3>1. \A x, y \in Item : own[x] = own[y] /\ own[x] # NULL /\ idx[x] = idx[y] => x = y
      BY Zenon DEF Lists, Unique
    <3> QED
      BY <1>1, <2>1, <3>1, ZenonT(60)
  <2>4. idx[j] = idx[k]
    BY <1>7, <2>1, <2>2, <2>3
  <2> QED
    BY <2>1, <2>4 DEF Lists, Unique
<1> HIDE DEF own2, idx2, head2
<1>8. Lists(next2, prev2, head2, own2, idx2)
  BY <1>2, <1>3, <1>4, <1>5, <1>6, <1>7 DEF Lists, Unique
<1> QED
  BY <1>8 DEF own2, head2

\* So does cJSON_ReplaceItemViaPointer, which amounts to an insertion before the item and
\* its detachment.
LEMMA Replaced ==
    ASSUME NEW next, NEW prev, NEW head, NEW own, NEW idx, Lists(next, prev, head, own, idx),
           NEW item \in Item, own[item] \in Item, NEW i \in Item, own[i] = NULL,
           NEW next2, NEW prev2, Substitutes(next, prev, next2, prev2, item, i)
    PROVE \E idx2 : Lists(next2, prev2, [head EXCEPT ![own[item]] = IF @ = item THEN i ELSE @],
                          [own EXCEPT ![i] = own[item], ![item] = NULL], idx2)
<1> DEFINE a == own[item]
           next1 == [j \in Item |-> IF j = i THEN item ELSE IF next[j] = item THEN i ELSE next[j]]
           prev1 == [j \in Item |-> IF j = i THEN prev[item] ELSE IF j = item THEN i ELSE prev[j]]
           head1 == [head EXCEPT ![a] = IF @ = item THEN i ELSE @]
           own1 == [own EXCEPT ![i] = a]
<1> USE Addresses DEF Link, Substitutes
<1>0. /\ next \in [Item -> Link] /\ prev \in [Item -> Link] /\ head \in [Owner -> Link]
      /\ own \in [Item -> Owner] /\ a \in Owner /\ i # item
  BY DEF Lists, Typed
<1>1. next[item] # item /\ prev[item] \in Item
  BY DEF Lists, Typed, Forward, Backward
<1>2. PICK idx1 : Lists(next1, prev1, head1, own1, idx1)
  <2>1. InsertsBefore(next, prev, next1, prev1, item, i)
    BY <1>0 DEF InsertsBefore
  <2> HIDE DEF next1, prev1
  <2> QED
    BY <2>1, Inserted
<1>3. own1[item] = a /\ a \in Item
  BY <1>0
<1>4. Unlinks(next1, prev1, next2, prev2, item)
  BY <1>0, <1>1 DEF Unlinks
<1>5. \E idx2 : Lists(next2, prev2,
                       [head1 EXCEPT ![own1[item]] = IF @ = item THEN next1[item] ELSE @],
                       [own1 EXCEPT ![item] = NULL], idx2)
  <2> HIDE DEF next1, prev1, head1, own1, a
  <2> QED
    BY <1>2, <1>3, <1>4, Detached
<1>6. [head1 EXCEPT ![own1[item]] = IF @ = item THEN next1[item] ELSE @] = head1
  BY <1>0, <1>3
<1>7. [own1 EXCEPT ![item] = NULL] = [own EXCEPT ![i] = a, ![item] = NULL]
  BY <1>0
<1> QED
  BY <1>5, <1>6, <1>7

\* So does the end of parse_array and parse_object, which ties the list of the frame f and
\* hands it to the item a.
LEMMA Closed ==
    ASSUME NEW next, NEW prev, NEW head, NEW own, NEW idx, Lists(next, prev, head, own, idx),
           NEW f \in Owner \ Item, NEW a \in Item, head[a] = NULL, head[f] # NULL,
           NEW last \in Item, own[last] = f, next[last] = NULL,
           NEW prev2, Ties(prev, prev2, head[f], last)
    PROVE Lists(next, prev2, [head EXCEPT ![a] = head[f], ![f] = NULL],
                [j \in Item |-> IF own[j] = f THEN a ELSE own[j]], idx)
<1> DEFINE own2 == [j \in Item |-> IF own[j] = f THEN a ELSE own[j]]
           head2 == [head EXCEPT ![a] = head[f], ![f] = NULL]
<1> USE Addresses DEF Link, Ties
<1>0. f # NULL
  BY DEF Lists, HeadsFit
<1>1. \A k \in Item : own[k] # a
  BY DEF Lists, Typed, Forward
<1>2. head[f] \in Item /\ own[head[f]] = f /\ idx[head[f]] = 1
  BY DEF Lists, Typed, HeadsFit
<1>3. Typed(next, prev2, head2, own2, idx)
  BY <1>2 DEF Lists, Typed
<1>4. HeadsFit(head2, own2, idx)
  BY <1>1, <1>2 DEF Lists, Typed, HeadsFit
<1>5. Loose(next, prev2, own2)
  BY <1>0, <1>2 DEF Lists, Typed, Loose
<1>6. ASSUME NEW j \in Item, own2[j] # NULL PROVE Forward(next, head2, own2, idx, j)
  <2>1. own[j] \notin {NULL, a} /\ Forward(next, head, own, idx, j)
    BY <1>0, <1>1, <1>6 DEF Lists, Typed
  <2> QED
    BY <1>1, <1>2, <2>1 DEF Lists, Typed, Forward
<1>7. ASSUME NEW j \in Item, own2[j] # NULL PROVE Backward(next, prev2, own2, idx, j)
  <2>1. own[j] \notin {NULL, a} /\ Forward(next, head, own, idx, j) /\ Backward(next, prev, own, idx, j)
    BY <1>0, <1>1, <1>7 DEF Lists, Typed
  <2>2. j # head[f] => prev2[j] = prev[j] /\ (idx[j] = 1 => own[j] # f)
    BY <2>1 DEF Forward
  <2> QED
    BY <1>1, <1>2, <2>1, <2>2 DEF Lists, Typed, Backward
<1>8. ASSUME NEW j \in Item, NEW k \in Item, own2[j] = own2[k], own2[j] # NULL, idx[j] = idx[k]
      PROVE  j = k
  <2>1. own[j] = own[k] /\ own[j] # NULL
    BY <1>0, <1>1, <1>8
  <2> QED
    BY <1>8, <2>1 DEF Lists, Unique
<1> HIDE DEF own2, head2
<1>9. Lists(next, prev2, head2, own2, idx)
  BY <1>3, <1>4, <1>5, <1>6, <1>7, <1>8 DEF Lists, Unique
<1> QED
  BY <1>9 DEF own2, head2

\* A set that has the head of a list, and with an item the next one, has the whole list.
LEMMA ListIn ==
    ASSUME NEW next, NEW prev, NEW head, NEW own, NEW idx, Lists(next, prev, head, own, idx),
           NEW S, NEW o \in Owner, o # NULL, head[o] \in S,
           \A j \in S \cap Item : next[j] # NULL => next[j] \in S
    PROVE \A j \in Item : own[j] = o => j \in S
<1> DEFINE out == {j \in Item : own[j] = o /\ j \notin S}
           T == {idx[j] : j \in out}
<1> SUFFICES ASSUME out # {} PROVE FALSE
  OBVIOUS
<1> USE Addresses DEF Link
<1>1. T \in SUBSET Nat /\ T # {}
  BY DEF Lists, Typed
<1>2. PICK m \in T : \A n \in T : m <= n
  <2> HIDE DEF T
  <2> QED
    BY <1>1, Least
<1>3. PICK j \in out : idx[j] = m
  BY <1>2
<1>4. Forward(next, head, own, idx, j) /\ Backward(next, prev, own, idx, j)
  BY <1>3 DEF Lists
<1>5. idx[j] > 1 /\ prev[j] \in Item /\ own[prev[j]] = o /\ next[prev[j]] = j
  BY <1>3, <1>4 DEF Forward, Backward, Lists, Typed
<1>6. idx[j] = idx[prev[j]] + 1 /\ idx[prev[j]] \in Nat
  BY <1>3, <1>5 DEF Lists, Typed, Forward
<1>7. prev[j] \in out
  BY <1>3, <1>5
<1>8. idx[prev[j]] \in T
  BY <1>7
<1> HIDE DEF T, out
<1> QED
  BY <1>2, <1>3, <1>6, <1>8

\* Dropping whole lists keeps the others.
LEMMA Dropped ==
    ASSUME NEW next, NEW prev, NEW head, NEW own, NEW idx, Lists(next, prev, head, own, idx),
           NEW S \in SUBSET Item, NEW X \in SUBSET Owner, NULL \notin X,
           \A j \in Item : own[j] # NULL => (j \in S <=> own[j] \in X),
           NEW next2, NEW prev2, NEW head2, Drops(next, prev, head, next2, prev2, head2, S, X)
    PROVE Lists(next2, prev2, head2, [j \in Item |-> IF j \in S THEN NULL ELSE own[j]], idx)
<1> DEFINE own2 == [j \in Item |-> IF j \in S THEN NULL ELSE own[j]]
<1> USE Addresses DEF Link, Drops
<1>1. Typed(next2, prev2, head2, own2, idx)
  BY DEF Lists, Typed
<1>2. HeadsFit(head2, own2, idx)
  <2>1. head2[NULL] = NULL
    BY DEF Lists, HeadsFit
  <2>2. ASSUME NEW o \in Owner, head2[o] # NULL
        PROVE  own2[head2[o]] = o /\ idx[head2[o]] = 1
    <3>1. o \notin X /\ head2[o] = head[o] /\ head[o] \in Item /\ own[head[o]] = o /\ idx[head[o]] = 1
      BY <2>2 DEF Lists, Typed, HeadsFit
    <3>2. o # NULL
      BY <2>1, <2>2
    <3> QED
      BY <3>1, <3>2
  <2> QED
    BY <2>1, <2>2 DEF HeadsFit
<1>3. Loose(next2, prev2, own2)
  BY DEF Lists, Typed, Loose
<1>4. ASSUME NEW j \in Item, own2[j] # NULL PROVE Forward(next2, head2, own2, idx, j)
  <2>1. j \notin S /\ own[j] # NULL /\ own[j] \notin X /\ own[j] \in Owner /\ Forward(next, head, own, idx, j)
    BY <1>4 DEF Lists, Typed
  <2>2. next[j] # NULL => next[j] \in Item /\ next[j] \notin S
    BY <2>1 DEF Lists, Typed, Forward
  <2> QED
    BY <2>1, <2>2 DEF Forward
<1>5. ASSUME NEW j \in Item, own2[j] # NULL PROVE Backward(next2, prev2, own2, idx, j)
  <2>1. j \notin S /\ own[j] # NULL /\ own[j] \notin X /\ own[j] \in Owner /\ Backward(next, prev, own, idx, j)
    BY <1>5 DEF Lists, Typed
  <2>2. prev[j] # NULL /\ own[prev[j]] = own[j] => prev[j] \in Item /\ prev[j] \notin S
    BY <2>1 DEF Lists, Typed
  <2> QED
    BY <2>1, <2>2 DEF Backward
<1>6. Unique(own2, idx)
  BY DEF Lists, Unique
<1> HIDE DEF own2
<1>7. Lists(next2, prev2, head2, own2, idx)
  BY <1>1, <1>2, <1>3, <1>4, <1>5, <1>6 DEF Lists
<1> QED
  BY <1>7 DEF own2

--------------------------------------------------------------------------------
(* Walking a list.                                                          *)

\* The contents of an address.
Structure == [type : Types, valuestring : Strings \cup {NoString},
              string : Strings \cup {NoString}, next : Item \cup {NULL},
              prev : Item \cup {NULL}, child : Item \cup {NULL}]

\* The links of a heap.
NextOf(h) == [j \in Item |-> h[j].next]
PrevOf(h) == [j \in Item |-> h[j].prev]

\* The bounds as numbers.
LEMMA Sizes == Items \in Nat /\ Items > 0 /\ NestingLimit \in Nat
<1>1. Items \in Nat \ {0} /\ NestingLimit \in Nat
  BY BoundsAssumption
<1> QED
  BY <1>1

\* ListOf walks the list of its owner: every item on it has that owner, and the prev that
\* WellLinked asks for.
LEMMA ListWalk ==
    ASSUME NEW h, NEW head, NEW own, NEW idx,
           Lists(NextOf(h), PrevOf(h), head, own, idx),
           NEW a \in Item, h[a].child = head[a],
           NEW n \in DOMAIN ListOf(h, a)
    PROVE  LET l == ListOf(h, a) IN
           /\ l[n] \in Item /\ own[l[n]] = a
           /\ h[l[n]].prev = IF n = 1 THEN l[Len(l)] ELSE l[n - 1]
<1> DEFINE at == Walk(h, h[a].child)
           good(k) == at[k] # NULL =>
                        /\ at[k] \in Item /\ own[at[k]] = a /\ idx[at[k]] = k
                        /\ \A j \in 1..k : at[j] # NULL
<1> USE Sizes, Addresses DEF Link
<1>0. /\ NextOf(h) \in [Item -> Link] /\ PrevOf(h) \in [Item -> Link]
      /\ own \in [Item -> Owner] /\ idx \in [Item -> Nat] /\ head[a] \in Link
      /\ \A j \in Item : h[j].next \in Link /\ h[j].next = NextOf(h)[j] /\ h[j].prev = PrevOf(h)[j]
  BY DEF Lists, Typed, NextOf, PrevOf
<1>1. /\ at[1] = head[a]
      /\ \A k \in 1..Items : k > 1 => at[k] = IF at[k - 1] = NULL THEN NULL ELSE h[at[k - 1]].next
  <2>1. at = [k \in 1..Items |-> IF k = 1 THEN h[a].child ELSE After(h, at[k - 1])]
    BY WalkIs DEF IsWalk
  <2> HIDE DEF at
  <2> QED
    BY <2>1 DEF After
<1>2. ASSUME NEW k \in 1..Items PROVE good(k)
  <2> DEFINE bad == {j \in 1..Items : ~good(j)}
  <2> HIDE DEF at
  <2> SUFFICES ASSUME bad # {} PROVE FALSE
    OBVIOUS
  <2>1. bad \in SUBSET Nat
    OBVIOUS
  <2>2. PICK m \in bad : \A j \in bad : m <= j
    <3> HIDE DEF bad
    <3> QED
      BY <2>1, Least
  <2>3. m \in 1..Items /\ ~good(m)
    OBVIOUS
  <2>4. CASE m = 1
    BY <1>0, <1>1, <2>3, <2>4 DEF Lists, HeadsFit
  <2>5. CASE m > 1
    <3>1. m - 1 \in 1..Items /\ good(m - 1)
      BY <2>2, <2>3, <2>5
    <3>2. at[m] # NULL /\ at[m - 1] # NULL /\ at[m] = h[at[m - 1]].next
      BY <1>1, <2>3, <2>5
    <3>3. at[m - 1] \in Item /\ own[at[m - 1]] = a /\ idx[at[m - 1]] = m - 1
          /\ \A j \in 1..(m - 1) : at[j] # NULL
      BY <3>1, <3>2
    <3>4. Forward(NextOf(h), head, own, idx, at[m - 1])
      BY <3>3 DEF Lists
    <3>5. at[m] \in Item /\ own[at[m]] = a /\ idx[at[m]] = m
      BY <1>0, <3>2, <3>3, <3>4, <2>3 DEF Forward
    <3> QED
      BY <2>3, <3>2, <3>3, <3>5
  <2> QED
    BY <2>3, <2>4, <2>5
<1> HIDE DEF at
<1>3. PICK m \in 0..Items : {k \in 1..Items : at[k] # NULL} = 1..m
  <2> DEFINE stop == {k \in 1..Items : at[k] = NULL} \cup {Items + 1}
  <2>1. stop \in SUBSET Nat /\ stop # {}
    OBVIOUS
  <2>2. PICK e \in stop : \A k \in stop : e <= k
    <3> HIDE DEF stop
    <3> QED
      BY <2>1, Least
  <2>3. e \in 1..(Items + 1) /\ \A k \in 1..Items : k < e => at[k] # NULL
    BY <2>2
  <2>4. \A k \in 1..Items : k >= e => at[k] = NULL
    BY <1>2, <2>2, <2>3
  <2>5. {k \in 1..Items : at[k] # NULL} = 1..(e - 1) /\ e - 1 \in 0..Items
    BY <2>3, <2>4
  <2> QED
    BY <2>5
<1> DEFINE l == ListOf(h, a)
<1>4. l = [k \in 1..m |-> at[k]]
  <2>1. Cardinality(1..m) = m
    BY FS_Interval
  <2>2. l = SubSeq(at, 1, Cardinality({k \in 1..Items : at[k] # NULL}))
    BY Zenon DEF ListOf, at
  <2>3. l = SubSeq(at, 1, m)
    BY <1>3, <2>1, <2>2
  <2>4. at = [k \in 1..Items |-> at[k]]
    BY WalkIs DEF IsWalk, at
  <2>5. at \in [1..Items -> Link]
    BY <1>2, <2>4
  <2> QED
    BY <2>3, <2>5
<1> HIDE DEF l
<1>5. Len(l) = m /\ DOMAIN l = 1..m
  BY <1>4
<1>6. n \in 1..m /\ m \in 1..Items /\ 1 \in 1..m
  BY <1>5 DEF l
<1>7. \A k \in 1..m : l[k] = at[k] /\ l[k] \in Item /\ own[l[k]] = a /\ idx[l[k]] = k
  BY <1>2, <1>3, <1>4
<1>8. NextOf(h)[l[m]] = NULL
  <2>1. CASE m < Items
    <3>1. m + 1 \in 1..Items /\ at[m + 1] = NULL
      BY <1>3, <2>1, <1>6
    <3> QED
      BY <1>0, <1>1, <1>6, <1>7, <3>1
  <2>2. CASE m = Items
    <3> SUFFICES ASSUME NextOf(h)[l[m]] # NULL PROVE FALSE
      OBVIOUS
    <3> DEFINE x == NextOf(h)[l[m]]
               f == [k \in 1..(Items + 1) |-> IF k = Items + 1 THEN x ELSE l[k]]
    <3>1. x \in Item /\ idx[x] = Items + 1
      BY <1>0, <1>6, <1>7, <2>2 DEF Lists, Forward
    <3> HIDE DEF x
    <3>2. f \in [1..(Items + 1) -> Item] /\ \A k \in 1..(Items + 1) : idx[f[k]] = k
      BY <1>7, <2>2, <3>1
    <3>3. IsFiniteSet(1..(Items + 1)) /\ IsFiniteSet(Item) /\ Cardinality(Item) < Cardinality(1..(Items + 1))
      BY FS_Interval DEF Item
    <3> HIDE DEF f
    <3> QED
      BY <3>2, <3>3, FS_PigeonHole
  <2> QED
    BY <1>6, <2>1, <2>2
<1>9. h[l[n]].prev = IF n = 1 THEN l[Len(l)] ELSE l[n - 1]
  <2>1. /\ Forward(NextOf(h), head, own, idx, l[n]) /\ Backward(NextOf(h), PrevOf(h), own, idx, l[n])
        /\ h[l[n]].prev = PrevOf(h)[l[n]] /\ PrevOf(h)[l[n]] \in Link
    BY <1>0, <1>6, <1>7 DEF Lists
  <2>2. \A x, y \in Item : own[x] = own[y] /\ own[x] # NULL /\ idx[x] = idx[y] => x = y
    BY Zenon DEF Lists, Unique
  <2>3. CASE n = 1
    <3> DEFINE q == PrevOf(h)[l[n]]
    <3>1. q \in Item /\ own[q] = a /\ NextOf(h)[q] = NULL
      BY <1>6, <1>7, <2>1, <2>3 DEF Backward
    <3>2. idx[q] = idx[l[m]]
      <4>1. Forward(NextOf(h), head, own, idx, q) /\ Forward(NextOf(h), head, own, idx, l[m])
        BY <1>6, <1>7, <3>1 DEF Lists
      <4> HIDE DEF q
      <4> QED
        BY <1>0, <1>6, <1>7, <1>8, <3>1, <4>1 DEF Forward
    <3> HIDE DEF q
    <3>3. q = l[m]
      BY <1>6, <1>7, <2>2, <3>1, <3>2
    <3> QED
      BY <1>5, <2>1, <2>3, <3>3 DEF q
  <2>4. CASE n > 1
    <3> DEFINE q == PrevOf(h)[l[n]]
    <3>1. q \in Item /\ own[q] = a /\ NextOf(h)[q] = l[n]
      BY <1>6, <1>7, <2>1, <2>4 DEF Backward
    <3>2. Forward(NextOf(h), head, own, idx, q)
      BY <3>1 DEF Lists
    <3> HIDE DEF q
    <3>3. idx[q] = n - 1 /\ n - 1 \in 1..m
      BY <1>0, <1>6, <1>7, <2>4, <3>1, <3>2 DEF Forward
    <3>4. q = l[n - 1]
      BY <1>7, <2>2, <3>1, <3>3
    <3> QED
      BY <2>1, <2>4, <3>4 DEF q
  <2> QED
    BY <1>6, <2>3, <2>4
<1> QED
  BY <1>6, <1>7, <1>9 DEF l

--------------------------------------------------------------------------------
(* Strings.                                                                 *)

\* What is free has been wiped.
Tidy(h) == \A j \in Item : h[j].type = "free" => h[j] = Freed

\* The items that have a name, and those that have a value.
Named(h, S) == {j \in S : h[j].string # NoString}
Valued(h, S) == {j \in S : h[j].valuestring # NoString}

\* Sets of items are finite.
LEMMA FiniteItems ==
    ASSUME NEW S \in SUBSET Item
    PROVE  IsFiniteSet(S) /\ Cardinality(S) \in 0..Items
<1>1. IsFiniteSet(Item) /\ Cardinality(Item) = Items
  BY Sizes, FS_Interval DEF Item
<1>2. IsFiniteSet(S) /\ Cardinality(S) <= Items
  BY <1>1, FS_Subset
<1> QED
  BY <1>2, FS_CardinalityType, Sizes

\* Only items in use have strings, two at most.
LEMMA StringsCounted ==
    ASSUME NEW h, Tidy(h)
    PROVE  StringsOf(h, InUse(h)) = StringsOf(h, Item) /\ StringsOf(h, Item) \in 0..(2 * Items)
<1>1. Named(h, InUse(h)) = Named(h, Item) /\ Valued(h, InUse(h)) = Valued(h, Item)
  BY DEF Named, Valued, InUse, Tidy, Freed, Blank
<1>2. Cardinality(Named(h, Item)) \in 0..Items /\ Cardinality(Valued(h, Item)) \in 0..Items
  BY FiniteItems DEF Named, Valued
<1>3. \A S : StringsOf(h, S) = Cardinality(Named(h, S)) + Cardinality(Valued(h, S))
  BY DEF StringsOf, Named, Valued
<1> QED
  BY <1>1, <1>2, <1>3, Sizes

\* The count depends on the strings alone.
LEMMA StringsSame ==
    ASSUME NEW h, NEW h2, NEW S,
           \A j \in S : h2[j].string = h[j].string /\ h2[j].valuestring = h[j].valuestring
    PROVE  StringsOf(h2, S) = StringsOf(h, S)
<1>1. Named(h2, S) = Named(h, S) /\ Valued(h2, S) = Valued(h, S)
  BY DEF Named, Valued
<1> QED
  BY <1>1 DEF StringsOf, Named, Valued

\* Freeing a set of items frees their strings.
LEMMA StringsFreed ==
    ASSUME NEW h, NEW S \in SUBSET Item,
           NEW h2, \A j \in Item : h2[j] = IF j \in S THEN Freed ELSE h[j]
    PROVE  StringsOf(h2, Item) = StringsOf(h, Item) - StringsOf(h, S)
<1>1. /\ Named(h2, Item) = Named(h, Item) \ S /\ Valued(h2, Item) = Valued(h, Item) \ S
      /\ Named(h, S) = Named(h, Item) \cap S /\ Valued(h, S) = Valued(h, Item) \cap S
  BY DEF Named, Valued, Freed, Blank
<1>2. /\ IsFiniteSet(Named(h, Item)) /\ IsFiniteSet(Valued(h, Item))
      /\ Cardinality(Named(h, Item)) \in Int /\ Cardinality(Valued(h, Item)) \in Int
      /\ Cardinality(Named(h, S)) \in Int /\ Cardinality(Valued(h, S)) \in Int
  <2>1. {Named(h, Item), Valued(h, Item), Named(h, S), Valued(h, S)} \subseteq SUBSET Item
    BY DEF Named, Valued
  <2> QED
    BY <2>1, FiniteItems
<1>3. /\ Cardinality(Named(h2, Item)) = Cardinality(Named(h, Item)) - Cardinality(Named(h, S))
      /\ Cardinality(Valued(h2, Item)) = Cardinality(Valued(h, Item)) - Cardinality(Valued(h, S))
  BY <1>1, <1>2, FS_Difference
<1>4. \A g, T : StringsOf(g, T) = Cardinality(Named(g, T)) + Cardinality(Valued(g, T))
  BY DEF StringsOf, Named, Valued
<1> QED
  BY <1>2, <1>3, <1>4

\* One string of one item is set.
LEMMA StringsSet ==
    ASSUME NEW h, NEW h2, NEW i \in Item,
           \A j \in Item \ {i} : h2[j].string = h[j].string /\ h2[j].valuestring = h[j].valuestring
    PROVE  /\ h2[i].valuestring = h[i].valuestring /\ h[i].string = NoString /\ h2[i].string # NoString
                => StringsOf(h2, Item) = StringsOf(h, Item) + 1
           /\ h2[i].string = h[i].string /\ h[i].valuestring = NoString /\ h2[i].valuestring # NoString
                => StringsOf(h2, Item) = StringsOf(h, Item) + 1
<1>0. /\ IsFiniteSet(Named(h, Item)) /\ IsFiniteSet(Valued(h, Item))
      /\ Cardinality(Named(h, Item)) \in Int /\ Cardinality(Valued(h, Item)) \in Int
  BY FiniteItems DEF Named, Valued
<1>4. \A g, T : StringsOf(g, T) = Cardinality(Named(g, T)) + Cardinality(Valued(g, T))
  BY DEF StringsOf, Named, Valued
<1>1. ASSUME h2[i].valuestring = h[i].valuestring, h[i].string = NoString, h2[i].string # NoString
      PROVE  StringsOf(h2, Item) = StringsOf(h, Item) + 1
  <2>1. Named(h2, Item) = Named(h, Item) \cup {i} /\ i \notin Named(h, Item) /\ Valued(h2, Item) = Valued(h, Item)
    BY <1>1 DEF Named, Valued
  <2>2. Cardinality(Named(h2, Item)) = Cardinality(Named(h, Item)) + 1
    BY <1>0, <2>1, FS_AddElement
  <2>3. /\ StringsOf(h2, Item) = Cardinality(Named(h2, Item)) + Cardinality(Valued(h2, Item))
        /\ StringsOf(h, Item) = Cardinality(Named(h, Item)) + Cardinality(Valued(h, Item))
    BY <1>4
  <2> QED
    BY <1>0, <2>1, <2>2, <2>3
<1>2. ASSUME h2[i].string = h[i].string, h[i].valuestring = NoString, h2[i].valuestring # NoString
      PROVE  StringsOf(h2, Item) = StringsOf(h, Item) + 1
  <2>1. Valued(h2, Item) = Valued(h, Item) \cup {i} /\ i \notin Valued(h, Item) /\ Named(h2, Item) = Named(h, Item)
    BY <1>2 DEF Named, Valued
  <2>2. Cardinality(Valued(h2, Item)) = Cardinality(Valued(h, Item)) + 1
    BY <1>0, <2>1, FS_AddElement
  <2> QED
    BY <1>0, <1>4, <2>1, <2>2
<1> QED
  BY <1>1, <1>2

\* An item is given a name in the place of the one it has.
LEMMA StringsRenamed ==
    ASSUME NEW h \in [Item -> Structure], NEW i \in Item, NEW name \in Strings
    PROVE  StringsOf([h EXCEPT ![i].string = name], Item)
             = StringsOf(h, Item) + 1 - StringsOf([h EXCEPT ![i].valuestring = NoString], {i})
<1> DEFINE bare == [h EXCEPT ![i].string = NoString]
           named == [h EXCEPT ![i].string = name]
           g == [h EXCEPT ![i].valuestring = NoString]
<1>0. name # NoString
  BY BoundsAssumption DEF NoString
<1>1. \A j \in Item \ {i} : /\ bare[j].string = h[j].string /\ bare[j].valuestring = h[j].valuestring
                            /\ named[j].string = bare[j].string /\ named[j].valuestring = bare[j].valuestring
  OBVIOUS
<1>2. /\ bare[i].string = NoString /\ named[i].string = name /\ named[i].valuestring = bare[i].valuestring
      /\ bare[i].valuestring = h[i].valuestring /\ g[i].valuestring = NoString /\ g[i].string = h[i].string
  BY DEF Structure
<1> HIDE DEF bare, named, g
<1>3. StringsOf(named, Item) = StringsOf(bare, Item) + 1
  BY <1>0, <1>1, <1>2, StringsSet
<1>4. CASE h[i].string = NoString
  <2>1. StringsOf(bare, Item) = StringsOf(h, Item)
    BY <1>1, <1>2, <1>4, StringsSame
  <2>2. {j \in {i} : g[j].string # NoString} = {} /\ {j \in {i} : g[j].valuestring # NoString} = {}
    BY <1>2, <1>4
  <2>3. StringsOf(g, {i}) = 0
    BY <2>2, FS_EmptySet, SMTT(60) DEF StringsOf
  <2>4. StringsOf(h, Item) \in Int
    <3>1. \A S \in SUBSET Item : Cardinality(S) \in Int
      BY FiniteItems
    <3> QED
      BY <3>1 DEF StringsOf
  <2> QED
    BY <1>3, <2>1, <2>3, <2>4 DEF named, g
<1>5. CASE h[i].string # NoString
  <2>1. StringsOf(h, Item) = StringsOf(bare, Item) + 1
    BY <1>1, <1>2, <1>5, StringsSet
  <2>2. Named(g, {i}) = {i} /\ Valued(g, {i}) = {}
    BY <1>2, <1>5 DEF Named, Valued
  <2>3. StringsOf(g, {i}) = 1
    <3>1. Cardinality({i}) = 1 /\ Cardinality({}) = 0
      BY FS_EmptySet, FS_Singleton, Zenon
    <3>2. StringsOf(g, {i}) = Cardinality(Named(g, {i})) + Cardinality(Valued(g, {i}))
      BY Zenon DEF StringsOf, Named, Valued
    <3> QED
      BY <2>2, <3>1, <3>2
  <2>4. StringsOf(bare, Item) \in Int
    <3>1. \A S \in SUBSET Item : Cardinality(S) \in Int
      BY FiniteItems
    <3> QED
      BY <3>1 DEF StringsOf
  <2> QED
    BY <1>3, <2>1, <2>3, <2>4 DEF named, g
<1> QED
  BY <1>4, <1>5

--------------------------------------------------------------------------------
(* The calls, from assignments to links to lists.                           *)

\* The heads of the lists: the child of an item, the head of a frame.
Heads(h, stack) ==
    [o \in Owner |-> IF o = NULL THEN NULL
                     ELSE IF o \in Item THEN h[o].child
                     ELSE IF o - Items <= Len(stack) THEN stack[Len(stack) + 1 - (o - Items)].head
                     ELSE NULL]

\* A heap whose items form lists, with coordinates own and idx.
Shape(h, stack, own, idx) ==
    /\ h \in [Item -> Structure]
    /\ Tidy(h)
    /\ Lists(NextOf(h), PrevOf(h), Heads(h, stack), own, idx)
    /\ \A j \in Item : own[j] # NULL => h[j].type # "free"

\* Only links have changed.
SameData(h, h2) ==
    \A j \in Item : /\ h2[j].type = h[j].type /\ h2[j].string = h[j].string
                    /\ h2[j].valuestring = h[j].valuestring

\* The fields of a heap have their types.
LEMMA Fields ==
    ASSUME NEW h \in [Item -> Structure]
    PROVE  /\ \A j \in Item : h[j].next = NextOf(h)[j] /\ h[j].prev = PrevOf(h)[j]
           /\ \A j \in Item : h[j].next \in Link /\ h[j].prev \in Link /\ h[j].child \in Link
           /\ NextOf(h) \in [Item -> Link] /\ PrevOf(h) \in [Item -> Link]
  BY Addresses DEF NextOf, PrevOf, Structure, Link

\* g is h with the links of j set, and nothing else.
Sets(h, g, j, next, prev, child) ==
    /\ h \in [Item -> Structure] /\ g \in [Item -> Structure] /\ SameData(h, g)
    /\ g[j].next = next /\ g[j].prev = prev /\ g[j].child = child
    /\ \A k \in Item : k # j => g[k] = h[k]

\* What an assignment to one link does.
LEMMA FieldSet ==
    ASSUME NEW h \in [Item -> Structure], NEW j \in Item, NEW x \in Link
    PROVE  /\ Sets(h, [h EXCEPT ![j].next = x], j, x, h[j].prev, h[j].child)
           /\ Sets(h, [h EXCEPT ![j].prev = x], j, h[j].next, x, h[j].child)
           /\ Sets(h, [h EXCEPT ![j].child = x], j, h[j].next, h[j].prev, x)
<1>1. /\ [h[j] EXCEPT !.next = x] \in Structure /\ [h[j] EXCEPT !.prev = x] \in Structure
      /\ [h[j] EXCEPT !.child = x] \in Structure
  BY DEF Structure, Link
<1>2. Sets(h, [h EXCEPT ![j].next = x], j, x, h[j].prev, h[j].child)
  BY <1>1 DEF Sets, SameData, Structure
<1>3. Sets(h, [h EXCEPT ![j].prev = x], j, h[j].next, x, h[j].child)
  BY <1>1 DEF Sets, SameData, Structure
<1>4. Sets(h, [h EXCEPT ![j].child = x], j, h[j].next, h[j].prev, x)
  BY <1>1 DEF Sets, SameData, Structure
<1> QED
  BY <1>2, <1>3, <1>4

\* The head of the list of an item is its child.
LEMMA HeadOf ==
    ASSUME NEW h \in [Item -> Structure], NEW stack
    PROVE  \A a \in Item : Heads(h, stack)[a] = h[a].child
  BY Addresses DEF Heads

\* A child that is set is a head that is set.
LEMMA Headed ==
    ASSUME NEW h \in [Item -> Structure], NEW h2 \in [Item -> Structure], NEW stack,
           NEW a \in Item, \A j \in Item : j # a => h2[j].child = h[j].child
    PROVE  Heads(h2, stack) = [Heads(h, stack) EXCEPT ![a] = h2[a].child]
  BY Addresses DEF Heads

\* The heads depend on the children and the frames.
LEMMA HeadsKept ==
    ASSUME NEW h \in [Item -> Structure], NEW h2 \in [Item -> Structure], NEW stack,
           \A j \in Item : h2[j].child = h[j].child
    PROVE  Heads(h2, stack) = Heads(h, stack)
  BY Addresses DEF Heads

\* Relinking items in use keeps the shape when it keeps the lists.
LEMMA Reshaped ==
    ASSUME NEW h, NEW stack, NEW own, NEW idx, Shape(h, stack, own, idx),
           NEW h2 \in [Item -> Structure], SameData(h, h2),
           \A j \in Item : h[j].type = "free" => h2[j] = h[j],
           NEW stack2, NEW own2, NEW idx2, Lists(NextOf(h2), PrevOf(h2), Heads(h2, stack2), own2, idx2),
           \A j \in Item : own2[j] # NULL => h[j].type # "free"
    PROVE  Shape(h2, stack2, own2, idx2)
  BY DEF Shape, SameData, Tidy

\* The fields after add_item_to_array to an empty array.
LEMMA AddFirstFields ==
    ASSUME NEW h \in [Item -> Structure], NEW a \in Item, NEW i \in Item, i # a, h[a].child = NULL
    PROVE  LET h2 == add_item_to_array(h, a, i) IN
           /\ h2 \in [Item -> Structure] /\ SameData(h, h2)
           /\ \A j \in Item : /\ h2[j].next = IF j = i THEN NULL ELSE h[j].next
                              /\ h2[j].prev = IF j = i THEN i ELSE h[j].prev
                              /\ h2[j].child = IF j = a THEN i ELSE h[j].child
                              /\ j \notin {a, i} => h2[j] = h[j]
<1> DEFINE h2 == add_item_to_array(h, a, i)
           g == [h EXCEPT ![a].child = i]
           k == [g EXCEPT ![i].prev = i]
<1>1. h2 = [k EXCEPT ![i].next = NULL]
  BY DEF add_item_to_array
<1>2. Sets(h, g, a, h[a].next, h[a].prev, i)
  BY FieldSet DEF Link
<1>3. Sets(g, k, i, g[i].next, i, g[i].child)
  <2>1. g \in [Item -> Structure]
    BY <1>2 DEF Sets
  <2> HIDE DEF g
  <2> QED
    BY <2>1, FieldSet DEF Link
<1>4. Sets(k, h2, i, NULL, k[i].prev, k[i].child)
  <2>1. k \in [Item -> Structure]
    BY <1>3 DEF Sets
  <2> HIDE DEF k, h2
  <2> QED
    BY <1>1, <2>1, FieldSet DEF Link
<1> HIDE DEF g, k, h2
<1> QED
  BY <1>2, <1>3, <1>4 DEF Sets, SameData, h2

\* The fields after add_item_to_array to an array that has a last item.
LEMMA AddLastFields ==
    ASSUME NEW h \in [Item -> Structure], NEW a \in Item, NEW i \in Item,
           NEW child \in Item, child = h[a].child, NEW last \in Item, last = h[child].prev,
           i # child, i # last
    PROVE  LET h2 == add_item_to_array(h, a, i) IN
           /\ h2 \in [Item -> Structure] /\ SameData(h, h2)
           /\ \A j \in Item : /\ h2[j].next = IF j = last THEN i ELSE h[j].next
                              /\ h2[j].prev = IF j = i THEN last ELSE IF j = child THEN i ELSE h[j].prev
                              /\ h2[j].child = h[j].child
                              /\ j \notin {last, child, i} => h2[j] = h[j]
<1> DEFINE h2 == add_item_to_array(h, a, i)
           g == [h EXCEPT ![last].next = i]
           k == [g EXCEPT ![i].prev = last]
<1>1. h2 = [k EXCEPT ![child].prev = i]
  BY Addresses DEF add_item_to_array
<1>2. Sets(h, g, last, i, h[last].prev, h[last].child)
  BY FieldSet DEF Link
<1>3. Sets(g, k, i, g[i].next, last, g[i].child)
  <2>1. g \in [Item -> Structure]
    BY <1>2 DEF Sets
  <2> HIDE DEF g
  <2> QED
    BY <2>1, FieldSet DEF Link
<1>4. Sets(k, h2, child, k[child].next, i, k[child].child)
  <2>1. k \in [Item -> Structure]
    BY <1>3 DEF Sets
  <2> HIDE DEF k, h2
  <2> QED
    BY <1>1, <2>1, FieldSet DEF Link
<1> HIDE DEF g, k, h2
<1>5. h2 \in [Item -> Structure] /\ SameData(h, h2)
  BY <1>2, <1>3, <1>4 DEF Sets, SameData
<1>6. ASSUME NEW j \in Item
      PROVE  /\ h2[j].next = IF j = last THEN i ELSE h[j].next
             /\ h2[j].prev = IF j = i THEN last ELSE IF j = child THEN i ELSE h[j].prev
             /\ h2[j].child = h[j].child
             /\ j \notin {last, child, i} => h2[j] = h[j]
  BY <1>2, <1>3, <1>4 DEF Sets
<1> QED
  BY <1>5, <1>6 DEF h2

\* add_item_to_array moves a root to the end of the list of a.
LEMMA AddLinks ==
    ASSUME NEW h, NEW stack, NEW own, NEW idx, Shape(h, stack, own, idx),
           NEW a \in InUse(h), NEW i \in InUse(h), i # a, own[i] = NULL
    PROVE  LET h2 == add_item_to_array(h, a, i) IN
           SameData(h, h2) /\ \E idx2 : Shape(h2, stack, [own EXCEPT ![i] = a], idx2)
<1> DEFINE h2 == add_item_to_array(h, a, i)
           child == h[a].child
           last == h[child].prev
           head == Heads(h, stack)
           next == NextOf(h)
           prev == PrevOf(h)
           own2 == [own EXCEPT ![i] = a]
<1> USE Addresses
<1>1. /\ a \in Item /\ i \in Item /\ h \in [Item -> Structure] /\ Lists(next, prev, head, own, idx)
      /\ own \in [Item -> Owner] /\ a \in Owner /\ a # NULL
  BY DEF Shape, InUse, Lists, Typed
<1>2. /\ \A j \in Item : h[j].next = next[j] /\ h[j].prev = prev[j]
      /\ head[a] = child /\ next[i] = NULL /\ prev[i] = NULL
      /\ \A j \in Item : h[j].next \in Link /\ h[j].prev \in Link /\ h[j].child \in Link
  BY <1>1, Fields, HeadOf DEF Lists, Loose
<1>3. \A j \in Item : own2[j] # NULL => h[j].type # "free"
  BY <1>1 DEF Shape, InUse
<1>4. SUFFICES /\ h2 \in [Item -> Structure] /\ SameData(h, h2)
               /\ \A j \in Item : h[j].type = "free" => h2[j] = h[j]
               /\ \E idx2 : Lists(NextOf(h2), PrevOf(h2), Heads(h2, stack), own2, idx2)
  <2> HIDE DEF own2, h2
  <2>1. \E idx2 : Shape(h2, stack, own2, idx2)
    BY <1>3, <1>4, Reshaped
  <2> QED
    BY <1>4, <2>1 DEF own2, h2
<1>5. CASE child = NULL
  <2>1. /\ h2 \in [Item -> Structure] /\ SameData(h, h2)
        /\ \A j \in Item : /\ h2[j].next = h[j].next
                           /\ h2[j].prev = IF j = i THEN i ELSE h[j].prev
                           /\ h2[j].child = IF j = a THEN i ELSE h[j].child
                           /\ j \notin {a, i} => h2[j] = h[j]
    BY <1>1, <1>2, <1>5, AddFirstFields
  <2> HIDE DEF h2
  <2>2. \A j \in Item : h[j].type = "free" => h2[j] = h[j]
    BY <2>1 DEF InUse
  <2>3. NextOf(h2) = next
    BY <2>1 DEF NextOf
  <2>4. PutsFirst(prev, PrevOf(h2), a, i)
    BY <1>1, <1>2, <2>1, Fields DEF PutsFirst
  <2>5. Heads(h2, stack) = [head EXCEPT ![a] = i]
    BY <1>1, <2>1 DEF Heads
  <2>6. Lists(next, PrevOf(h2), [head EXCEPT ![a] = i], own2, [idx EXCEPT ![i] = 1])
    <3> HIDE DEF next, prev, head
    <3> QED
      BY <1>1, <1>2, <1>5, <2>4, FirstPlaced
  <2> QED
    BY <2>1, <2>2, <2>3, <2>5, <2>6
<1>6. CASE child # NULL
  <2>0. /\ child \in Item /\ own[child] = a /\ last \in Item /\ own[last] = a /\ next[last] = NULL
        /\ child # i /\ last # i
    BY <1>1, <1>2, <1>6 DEF Lists, HeadsFit, Backward, Link
  <2>1. /\ h2 \in [Item -> Structure] /\ SameData(h, h2)
        /\ \A j \in Item : /\ h2[j].next = IF j = last THEN i ELSE h[j].next
                           /\ h2[j].prev = IF j = i THEN last ELSE IF j = child THEN i ELSE h[j].prev
                           /\ h2[j].child = h[j].child
                           /\ j \notin {last, child, i} => h2[j] = h[j]
    BY <1>1, <2>0, AddLastFields
  <2> HIDE DEF h2, last
  <2>2. \A j \in Item : h[j].type = "free" => h2[j] = h[j]
    BY <1>1, <2>0, <2>1 DEF InUse, Shape
  <2>3. AppendsTo(next, prev, head, NextOf(h2), PrevOf(h2), a, last, i)
    <3>1. /\ \A j \in Item : h2[j].next = NextOf(h2)[j] /\ h2[j].prev = PrevOf(h2)[j]
          /\ NextOf(h2) \in [Item -> Link] /\ PrevOf(h2) \in [Item -> Link]
      BY <2>1, Fields
    <3> HIDE DEF next, prev, head
    <3> QED
      BY <1>1, <1>2, <2>1, <3>1 DEF AppendsTo
  <2>4. Heads(h2, stack) = head
    BY <1>1, <2>1, HeadsKept
  <2>5. Lists(NextOf(h2), PrevOf(h2), head, own2, [idx EXCEPT ![i] = idx[last] + 1])
    <3> HIDE DEF next, prev, head
    <3> QED
      BY <1>1, <2>0, <2>3, Appended
  <2> QED
    BY <2>1, <2>2, <2>4, <2>5
<1> QED
  BY <1>5, <1>6

\* The neighbours of an item in its list.
LEMMA Neighbours ==
    ASSUME NEW next, NEW prev, NEW head, NEW own, NEW idx, Lists(next, prev, head, own, idx),
           \A j \in Item : own[j] \in Item \cup {NULL},
           NEW a \in Item, NEW item \in Item, own[item] = a
    PROVE  /\ prev[item] \in Item /\ own[prev[item]] = a /\ head[a] \in Item /\ own[head[a]] = a
           /\ next[item] \in Link /\ next[item] # item /\ (next[item] # NULL => own[next[item]] = a)
           /\ \A j \in Item : next[j] = item <=> j = prev[item] /\ head[a] # item
           /\ \A j \in Item : prev[j] = item <=> j = next[item] \/ (j = head[a] /\ next[item] = NULL)
           /\ prev[item] = item <=> head[a] = item /\ next[item] = NULL
           /\ prev[item] = head[a] /\ head[a] = item => next[item] = NULL
<1> USE Addresses DEF Link
<1>1. /\ next \in [Item -> Link] /\ prev \in [Item -> Link] /\ head \in [Owner -> Link]
      /\ idx \in [Item -> Nat]
  BY DEF Lists, Typed
<1>2. \A x, y \in Item : own[x] = own[y] /\ own[x] # NULL /\ idx[x] = idx[y] => x = y
  BY Zenon DEF Lists, Unique
<1>3. /\ head[a] \in Item /\ own[head[a]] = a /\ idx[head[a]] = 1 /\ idx[item] > 0
      /\ head[a] = item <=> idx[item] = 1
  BY <1>1 DEF Lists, HeadsFit, Forward
\* every successor
<1>4. ASSUME NEW j \in Item, NEW k \in Item, own[j] # NULL, next[j] = k
      PROVE  own[k] = own[j] /\ idx[k] = idx[j] + 1 /\ idx[j] > 0
  BY <1>1, <1>4 DEF Lists, Forward
<1>5. ASSUME NEW k \in Item, own[k] # NULL, idx[k] > 1
      PROVE  /\ prev[k] \in Item /\ own[prev[k]] = own[k] /\ next[prev[k]] = k
             /\ idx[prev[k]] = idx[k] - 1
  <2>1. prev[k] \in Item /\ own[prev[k]] = own[k] /\ next[prev[k]] = k
    BY <1>1, <1>5 DEF Lists, Backward
  <2>2. idx[k] = idx[prev[k]] + 1
    BY <1>4, <1>5, <2>1
  <2> QED
    BY <1>1, <1>5, <2>1, <2>2
<1>6. ASSUME NEW k \in Item, own[k] # NULL, idx[k] = 1
      PROVE  /\ prev[k] \in Item /\ own[prev[k]] = own[k] /\ next[prev[k]] = NULL
             /\ \A x \in Item : own[x] = own[k] /\ next[x] = NULL => x = prev[k]
  <2>1. prev[k] \in Item /\ own[prev[k]] = own[k] /\ next[prev[k]] = NULL
    BY <1>1, <1>6 DEF Lists, Backward
  <2>2. ASSUME NEW x \in Item, own[x] = own[k], next[x] = NULL
        PROVE  idx[x] = idx[prev[k]]
    BY <1>1, <1>6, <2>1, <2>2 DEF Lists, Forward
  <2> QED
    BY <1>2, <1>6, <2>1, <2>2
<1>7. \A k \in Item : own[k] # NULL => idx[k] > 0
  BY DEF Lists, Forward
<1>8. \A j \in Item : own[j] = NULL => next[j] = NULL /\ prev[j] = NULL
  BY DEF Lists, Loose
<1>9. prev[item] \in Item /\ own[prev[item]] = a
  BY <1>1, <1>3, <1>5, <1>6
<1>10. next[item] \in Link /\ next[item] # item /\ (next[item] # NULL => own[next[item]] = a)
  BY <1>1, <1>4
<1>11. ASSUME NEW j \in Item
       PROVE  next[j] = item <=> j = prev[item] /\ head[a] # item
  <2>1. ASSUME next[j] = item PROVE j = prev[item] /\ head[a] # item
    <3>1. own[j] # NULL
      BY <1>8, <2>1
    <3>2. own[j] = a /\ idx[item] = idx[j] + 1 /\ idx[j] > 0
      BY <1>4, <2>1, <3>1
    <3>3. idx[item] > 1
      BY <1>1, <3>2
    <3>4. own[prev[item]] = a /\ idx[prev[item]] = idx[item] - 1 /\ prev[item] \in Item
      BY <1>5, <3>3
    <3> QED
      BY <1>1, <1>2, <1>3, <3>2, <3>3, <3>4
  <2>2. ASSUME j = prev[item], head[a] # item PROVE next[j] = item
    BY <1>1, <1>3, <1>5, <2>2
  <2> QED
    BY <2>1, <2>2
<1>12. ASSUME NEW j \in Item
       PROVE  prev[j] = item <=> j = next[item] \/ (j = head[a] /\ next[item] = NULL)
  <2>1. ASSUME prev[j] = item PROVE j = next[item] \/ (j = head[a] /\ next[item] = NULL)
    <3>1. own[j] # NULL
      BY <1>8, <2>1
    <3>2. CASE idx[j] > 1
      BY <1>5, <2>1, <3>1, <3>2
    <3>3. CASE idx[j] = 1
      BY <1>2, <1>3, <1>6, <2>1, <3>1, <3>3
    <3> QED
      BY <1>1, <1>7, <3>1, <3>2, <3>3
  <2>2. ASSUME j = next[item] PROVE prev[j] = item
    <3>1. own[j] = a /\ idx[j] = idx[item] + 1 /\ idx[item] > 0
      BY <1>4, <2>2
    <3>2. idx[j] > 1
      BY <1>1, <3>1
    <3>3. prev[j] \in Item /\ own[prev[j]] = a /\ idx[prev[j]] = idx[j] - 1
      BY <1>5, <3>1, <3>2
    <3> QED
      BY <1>1, <1>2, <3>1, <3>3
  <2>3. ASSUME j = head[a], next[item] = NULL PROVE prev[j] = item
    BY <1>3, <1>6, <2>3
  <2> QED
    BY <2>1, <2>2, <2>3
<1>13. prev[item] = item <=> head[a] = item /\ next[item] = NULL
  BY <1>3, <1>10, <1>12
<1>14. prev[item] = head[a] /\ head[a] = item => next[item] = NULL
  BY <1>13
<1> QED
  BY <1>3, <1>9, <1>10, <1>11, <1>12, <1>13, <1>14

\* The fields after insert_item.
LEMMA InsertFields ==
    ASSUME NEW h \in [Item -> Structure], NEW a \in Item, NEW i \in Item,
           NEW after \in Item, NEW before \in Item, before = h[after].prev, i # after, i # before
    PROVE  LET h2 == insert_item(h, a, after, i)
               first == after = h[a].child
           IN /\ h2 \in [Item -> Structure] /\ SameData(h, h2)
              /\ \A j \in Item :
                    /\ h2[j].next = IF j = i THEN after
                                    ELSE IF j = before /\ ~first THEN i ELSE h[j].next
                    /\ h2[j].prev = IF j = i THEN before ELSE IF j = after THEN i ELSE h[j].prev
                    /\ h2[j].child = IF j = a /\ first THEN i ELSE h[j].child
                    /\ j \notin {a, i, after, before} => h2[j] = h[j]
<1> DEFINE h2 == insert_item(h, a, after, i)
           first == after = h[a].child
           g == [h EXCEPT ![i].next = after]
           k == [g EXCEPT ![i].prev = before]
           m == [k EXCEPT ![after].prev = i]
<1>1. h2 = IF first THEN [m EXCEPT ![a].child = i] ELSE [m EXCEPT ![before].next = i]
  BY DEF insert_item
<1>2. Sets(h, g, i, after, h[i].prev, h[i].child)
  BY FieldSet DEF Link
<1>3. Sets(g, k, i, g[i].next, before, g[i].child)
  <2>1. g \in [Item -> Structure]
    BY <1>2 DEF Sets
  <2> HIDE DEF g
  <2> QED
    BY <2>1, FieldSet DEF Link
<1>4. Sets(k, m, after, k[after].next, i, k[after].child)
  <2>1. k \in [Item -> Structure]
    BY <1>3 DEF Sets
  <2> HIDE DEF k
  <2> QED
    BY <2>1, FieldSet DEF Link
<1>5. /\ first => Sets(m, h2, a, m[a].next, m[a].prev, i)
      /\ ~first => Sets(m, h2, before, i, m[before].prev, m[before].child)
  <2>1. m \in [Item -> Structure]
    BY <1>4 DEF Sets
  <2> HIDE DEF m, h2, first
  <2> QED
    BY <1>1, <2>1, FieldSet DEF Link
<1> HIDE DEF g, k, m, h2, first
<1>6. CASE first
  BY <1>2, <1>3, <1>4, <1>5, <1>6, SMTT(60) DEF Sets, SameData, h2, first
<1>7. CASE ~first
  BY <1>2, <1>3, <1>4, <1>5, <1>7 DEF Sets, SameData, h2, first
<1> QED
  BY <1>6, <1>7

\* The fields after DetachItemViaPointer.
LEMMA DetachFields ==
    ASSUME NEW h \in [Item -> Structure], NEW a \in Item, NEW item \in Item,
           NEW before \in Item, before = h[item].prev, NEW after \in Link, after = h[item].next,
           NEW child \in Item, child = h[a].child
    PROVE  LET h2 == DetachItemViaPointer(h, a, item)
               first == item = child
           IN /\ h2 \in [Item -> Structure] /\ SameData(h, h2)
              /\ \A j \in Item :
                    /\ h2[j].next = IF j = item THEN NULL
                                    ELSE IF j = before /\ ~first THEN after ELSE h[j].next
                    /\ h2[j].prev = IF j = item THEN NULL
                                    ELSE IF j = after \/ (j = child /\ ~first /\ after = NULL) THEN before
                                    ELSE h[j].prev
                    /\ h2[j].child = IF j = a /\ first THEN after ELSE h[j].child
                    /\ j \notin {a, item, after, before, child} => h2[j] = h[j]
<1> DEFINE h2 == DetachItemViaPointer(h, a, item)
           first == item = child
           g == IF first THEN h ELSE [h EXCEPT ![before].next = after]
           k == IF after = NULL THEN g ELSE [g EXCEPT ![after].prev = before]
           m == IF first THEN [k EXCEPT ![a].child = after]
                ELSE IF after = NULL THEN [k EXCEPT ![child].prev = before]
                ELSE k
           q == [m EXCEPT ![item].prev = NULL]
<1> USE Addresses
<1>1. h2 = [q EXCEPT ![item].next = NULL]
  BY DEF DetachItemViaPointer
<1>2. IF first THEN g = h ELSE Sets(h, g, before, after, h[before].prev, h[before].child)
  BY FieldSet
<1>3. IF after = NULL THEN k = g ELSE Sets(g, k, after, g[after].next, before, g[after].child)
  <2>1. g \in [Item -> Structure]
    BY <1>2 DEF Sets
  <2> HIDE DEF g
  <2> QED
    BY <2>1, FieldSet DEF Link
<1>4. /\ first => Sets(k, m, a, k[a].next, k[a].prev, after)
      /\ ~first /\ after = NULL => Sets(k, m, child, k[child].next, before, k[child].child)
      /\ ~first /\ after # NULL => m = k
      /\ k \in [Item -> Structure]
  <2>1. k \in [Item -> Structure]
    BY <1>2, <1>3 DEF Sets
  <2> HIDE DEF k, first
  <2> QED
    BY <2>1, FieldSet DEF Link
<1>5. Sets(m, q, item, m[item].next, NULL, m[item].child)
  <2>1. m \in [Item -> Structure]
    <3> HIDE DEF m, k
    <3> QED
      BY <1>4 DEF Sets
  <2> HIDE DEF m
  <2> QED
    BY <2>1, FieldSet DEF Link
<1>6. Sets(q, h2, item, NULL, q[item].prev, q[item].child)
  <2>1. q \in [Item -> Structure]
    BY <1>5 DEF Sets
  <2> HIDE DEF q, h2
  <2> QED
    BY <1>1, <2>1, FieldSet DEF Link
<1> HIDE DEF g, k, m, q, h2
<1>7. CASE first
  <2>1. h2 \in [Item -> Structure] /\ SameData(h, h2)
    BY <1>2, <1>3, <1>4, <1>5, <1>6, <1>7 DEF Sets, SameData
  <2>2. ASSUME NEW j \in Item
        PROVE  /\ h2[j].next = IF j = item THEN NULL ELSE h[j].next
               /\ h2[j].prev = IF j = item THEN NULL ELSE IF j = after THEN before ELSE h[j].prev
               /\ h2[j].child = IF j = a THEN after ELSE h[j].child
               /\ j \notin {a, item, after, before, child} => h2[j] = h[j]
    BY <1>2, <1>3, <1>4, <1>5, <1>6, <1>7 DEF Sets
  <2> QED
    BY <1>7, <2>1, <2>2 DEF h2
<1>8. CASE ~first /\ after = NULL
  BY <1>2, <1>3, <1>4, <1>5, <1>6, <1>8 DEF Sets, SameData, h2
<1>9. CASE ~first /\ after # NULL
  BY <1>2, <1>3, <1>4, <1>5, <1>6, <1>9 DEF Sets, SameData, h2
<1> QED
  BY <1>7, <1>8, <1>9

\* The fields after ReplaceItemViaPointer.
LEMMA ReplaceFields ==
    ASSUME NEW h \in [Item -> Structure], NEW a \in Item, NEW item \in Item, NEW new \in Item,
           NEW before \in Item, before = h[item].prev, NEW after \in Link, after = h[item].next,
           NEW child \in Item, child = h[a].child, new \notin {item, before, after, child}
    PROVE  LET h2 == ReplaceItemViaPointer(h, a, item, new)
               first == child = item
           IN /\ h2 \in [Item -> Structure] /\ SameData(h, h2)
              /\ \A j \in Item :
                    /\ h2[j].next = IF j = item THEN NULL ELSE IF j = new THEN after
                                    ELSE IF j = before /\ ~first THEN new ELSE h[j].next
                    /\ h2[j].prev = IF j = item THEN NULL
                                    ELSE IF j = new THEN IF first /\ before = item THEN new ELSE before
                                    ELSE IF j = after \/ (j = child /\ ~first /\ after = NULL) THEN new
                                    ELSE h[j].prev
                    /\ h2[j].child = IF j = a /\ first THEN new ELSE h[j].child
                    /\ j \notin {a, item, after, before, child, new} => h2[j] = h[j]
<1> DEFINE h2 == ReplaceItemViaPointer(h, a, item, new)
           first == child = item
           f == [h EXCEPT ![new].next = after]
           g == [f EXCEPT ![new].prev = before]
           k == IF after = NULL THEN g ELSE [g EXCEPT ![after].prev = new]
           l == IF first THEN IF before = item THEN [k EXCEPT ![new].prev = new] ELSE k
                ELSE [k EXCEPT ![before].next = new]
           m == IF first THEN [l EXCEPT ![a].child = new]
                ELSE IF after = NULL THEN [l EXCEPT ![child].prev = new] ELSE l
           q == [m EXCEPT ![item].next = NULL]
<1> USE Addresses
<1>1. h2 = [q EXCEPT ![item].prev = NULL]
  <2> DEFINE h3 == IF first
                   THEN IF before = item
                        THEN [k EXCEPT ![new].prev = new, ![a].child = new]
                        ELSE [k EXCEPT ![a].child = new]
                   ELSE IF after = NULL
                   THEN [k EXCEPT ![before].next = new, ![child].prev = new]
                   ELSE [k EXCEPT ![before].next = new]
  <2>1. h2 = [h3 EXCEPT ![item].next = NULL, ![item].prev = NULL]
    BY DEF ReplaceItemViaPointer
  <2>2. h3 = m
    <3> HIDE DEF k, first
    <3> QED
      OBVIOUS
  <2> HIDE DEF h3, m, h2
  <2> QED
    BY <2>1, <2>2
<1>2. Sets(h, f, new, after, h[new].prev, h[new].child)
  BY FieldSet
<1>3. Sets(f, g, new, f[new].next, before, f[new].child)
  <2>1. f \in [Item -> Structure]
    BY <1>2 DEF Sets
  <2> HIDE DEF f
  <2> QED
    BY <2>1, FieldSet DEF Link
<1>4. IF after = NULL THEN k = g ELSE Sets(g, k, after, g[after].next, new, g[after].child)
  <2>1. g \in [Item -> Structure]
    BY <1>3 DEF Sets
  <2> HIDE DEF g
  <2> QED
    BY <2>1, FieldSet DEF Link
<1>5. /\ first /\ before = item => Sets(k, l, new, k[new].next, new, k[new].child)
      /\ first /\ before # item => l = k
      /\ ~first => Sets(k, l, before, new, k[before].prev, k[before].child)
      /\ k \in [Item -> Structure]
  <2>1. k \in [Item -> Structure]
    BY <1>3, <1>4 DEF Sets
  <2> HIDE DEF k, first
  <2> QED
    BY <2>1, FieldSet DEF Link
<1>6. /\ first => Sets(l, m, a, l[a].next, l[a].prev, new)
      /\ ~first /\ after = NULL => Sets(l, m, child, l[child].next, new, l[child].child)
      /\ ~first /\ after # NULL => m = l
      /\ l \in [Item -> Structure]
  <2>1. l \in [Item -> Structure]
    <3> HIDE DEF l, k
    <3> QED
      BY <1>5 DEF Sets
  <2> HIDE DEF l, first
  <2> QED
    BY <2>1, FieldSet DEF Link
<1>7. Sets(m, q, item, NULL, m[item].prev, m[item].child)
  <2>1. m \in [Item -> Structure]
    <3> HIDE DEF m, l
    <3> QED
      BY <1>6 DEF Sets
  <2> HIDE DEF m
  <2> QED
    BY <2>1, FieldSet DEF Link
<1>8. Sets(q, h2, item, q[item].next, NULL, q[item].child)
  <2>1. q \in [Item -> Structure]
    BY <1>7 DEF Sets
  <2> HIDE DEF q, h2
  <2> QED
    BY <1>1, <2>1, FieldSet DEF Link
<1> HIDE DEF f, g, k, l, m, q, h2
<1>9. CASE first
  <2>1. CASE before = item
    BY <1>2, <1>3, <1>4, <1>5, <1>6, <1>7, <1>8, <1>9, <2>1, SMTT(60) DEF Sets, SameData, h2
  <2>2. CASE before # item
    BY <1>2, <1>3, <1>4, <1>5, <1>6, <1>7, <1>8, <1>9, <2>2, SMTT(60) DEF Sets, SameData, h2
  <2> QED
    BY <2>1, <2>2
<1>10. CASE ~first /\ after = NULL
  BY <1>2, <1>3, <1>4, <1>5, <1>6, <1>7, <1>8, <1>10, SMTT(60) DEF Sets, SameData, h2
<1>11. CASE ~first /\ after # NULL
  BY <1>2, <1>3, <1>4, <1>5, <1>6, <1>7, <1>8, <1>11, SMTT(60) DEF Sets, SameData, h2
<1> QED
  BY <1>9, <1>10, <1>11

\* No list belongs to a frame.
Placed(own) == \A j \in Item : own[j] \in Item \cup {NULL}

\* insert_item moves a root into the list of a.
LEMMA InsertLinks ==
    ASSUME NEW h, NEW stack, NEW own, NEW idx, Shape(h, stack, own, idx), Placed(own),
           NEW a \in Item, NEW after \in Item, own[after] = a, NEW i \in InUse(h), own[i] = NULL
    PROVE  LET h2 == insert_item(h, a, after, i) IN
           SameData(h, h2) /\ \E idx2 : Shape(h2, stack, [own EXCEPT ![i] = a], idx2)
<1> DEFINE h2 == insert_item(h, a, after, i)
           head == Heads(h, stack)
           next == NextOf(h)
           prev == PrevOf(h)
           before == prev[after]
           own2 == [own EXCEPT ![i] = a]
<1> USE Addresses
<1>1. /\ i \in Item /\ h \in [Item -> Structure] /\ Lists(next, prev, head, own, idx)
      /\ own \in [Item -> Owner] /\ a # NULL
  BY DEF Shape, InUse, Lists, Typed
<1>2. /\ \A j \in Item : h[j].next = next[j] /\ h[j].prev = prev[j]
      /\ head[a] = h[a].child
  BY <1>1, Fields, HeadOf
<1>3. /\ before \in Item /\ own[before] = a
      /\ \A j \in Item : next[j] = after <=> j = before /\ head[a] # after
  <2> HIDE DEF next, prev, head
  <2> QED
    BY <1>1, Neighbours DEF Placed
<1>4. h[a].type # "free"
  BY <1>1, <1>2 DEF Shape, Tidy, Freed, Blank, Lists, Forward
<1>5. /\ h2 \in [Item -> Structure] /\ SameData(h, h2)
      /\ \A j \in Item :
                /\ h2[j].next = IF j = i THEN after
                                ELSE IF j = before /\ after # h[a].child THEN i ELSE h[j].next
                /\ h2[j].prev = IF j = i THEN before ELSE IF j = after THEN i ELSE h[j].prev
                /\ h2[j].child = IF j = a /\ after = h[a].child THEN i ELSE h[j].child
                /\ j \notin {a, i, after, before} => h2[j] = h[j]
  BY <1>1, <1>2, <1>3, InsertFields, SMTT(60)
<1> HIDE DEF h2, before
<1>6. \A j \in Item : h[j].type = "free" => h2[j] = h[j]
  BY <1>1, <1>3, <1>4, <1>5 DEF InUse, Shape
<1>7. \A j \in Item : own2[j] # NULL => h[j].type # "free"
  BY <1>1 DEF Shape, InUse
<1>8. InsertsBefore(next, prev, NextOf(h2), PrevOf(h2), after, i)
  <2>1. /\ \A j \in Item : h2[j].next = NextOf(h2)[j] /\ h2[j].prev = PrevOf(h2)[j]
        /\ NextOf(h2) \in [Item -> Link] /\ PrevOf(h2) \in [Item -> Link]
    BY <1>5, Fields
  <2> HIDE DEF next, prev, head
  <2> QED
    BY <1>1, <1>2, <1>3, <1>5, <2>1 DEF InsertsBefore, before
<1>9. Heads(h2, stack) = [head EXCEPT ![a] = IF @ = after THEN i ELSE @]
  BY <1>1, <1>2, <1>5 DEF Heads
<1>10. \E idx2 : Lists(NextOf(h2), PrevOf(h2), Heads(h2, stack), own2, idx2)
  <2> HIDE DEF next, prev, head
  <2>1. \E idx2 : Lists(NextOf(h2), PrevOf(h2), [head EXCEPT ![own[after]] = IF @ = after THEN i ELSE @],
                        [own EXCEPT ![i] = own[after]], idx2)
    BY <1>1, <1>8, Inserted
  <2> QED
    BY <1>9, <2>1
<1>11. \E idx2 : Shape(h2, stack, own2, idx2)
  <2> HIDE DEF own2
  <2> QED
    BY <1>5, <1>6, <1>7, <1>10, Reshaped
<1> QED
  BY <1>5, <1>11 DEF h2

\* DetachItemViaPointer makes the item a root.
LEMMA DetachLinks ==
    ASSUME NEW h, NEW stack, NEW own, NEW idx, Shape(h, stack, own, idx), Placed(own),
           NEW a \in Item, NEW item \in Item, own[item] = a
    PROVE  LET h2 == DetachItemViaPointer(h, a, item) IN
           SameData(h, h2) /\ \E idx2 : Shape(h2, stack, [own EXCEPT ![item] = NULL], idx2)
<1> DEFINE h2 == DetachItemViaPointer(h, a, item)
           head == Heads(h, stack)
           next == NextOf(h)
           prev == PrevOf(h)
           before == prev[item]
           after == next[item]
           child == head[a]
           own2 == [own EXCEPT ![item] = NULL]
<1> USE Addresses
<1>1. /\ h \in [Item -> Structure] /\ Lists(next, prev, head, own, idx)
      /\ own \in [Item -> Owner] /\ a # NULL
  BY DEF Shape, InUse, Lists, Typed
<1>2. /\ \A j \in Item : h[j].next = next[j] /\ h[j].prev = prev[j]
      /\ child = h[a].child
  BY <1>1, Fields, HeadOf
<1>3. /\ before \in Item /\ own[before] = a /\ child \in Item /\ own[child] = a
      /\ after \in Link /\ (after # NULL => own[after] = a)
      /\ \A j \in Item : next[j] = item <=> j = before /\ child # item
      /\ \A j \in Item : prev[j] = item <=> j = after \/ (j = child /\ after = NULL)
  <2> HIDE DEF next, prev, head
  <2> QED
    BY <1>1, Neighbours DEF Placed
<1>4. h[a].type # "free"
  BY <1>1, <1>2, <1>3 DEF Shape, Tidy, Freed, Blank
<1>5. /\ h2 \in [Item -> Structure] /\ SameData(h, h2)
      /\ \A j \in Item :
                    /\ h2[j].next = IF j = item THEN NULL
                                    ELSE IF j = before /\ item # child THEN after ELSE h[j].next
                    /\ h2[j].prev = IF j = item THEN NULL
                                    ELSE IF j = after \/ (j = child /\ item # child /\ after = NULL) THEN before
                                    ELSE h[j].prev
                    /\ h2[j].child = IF j = a /\ item = child THEN after ELSE h[j].child
                    /\ j \notin {a, item, after, before, child} => h2[j] = h[j]
  <2> HIDE DEF child, after, before
  <2>1. before = h[item].prev /\ after = h[item].next
    BY <1>2 DEF before, after
  <2> QED
    BY <1>1, <1>2, <1>3, <2>1, DetachFields
<1> HIDE DEF h2, before, after, child
<1>6. \A j \in Item : h[j].type = "free" => h2[j] = h[j]
  BY <1>1, <1>3, <1>4, <1>5 DEF Shape
<1>7. \A j \in Item : own2[j] # NULL => h[j].type # "free"
  BY <1>1 DEF Shape
<1>8. Unlinks(next, prev, NextOf(h2), PrevOf(h2), item)
  <2>1. /\ \A j \in Item : h2[j].next = NextOf(h2)[j] /\ h2[j].prev = PrevOf(h2)[j]
        /\ NextOf(h2) \in [Item -> Link] /\ PrevOf(h2) \in [Item -> Link]
    BY <1>5, Fields
  <2> HIDE DEF next, prev, head
  <2> QED
    BY <1>1, <1>2, <1>3, <1>5, <2>1 DEF Unlinks, before, after
<1>9. Heads(h2, stack) = [head EXCEPT ![a] = IF @ = item THEN next[item] ELSE @]
  <2>1. child = head[a] /\ after = next[item]
    BY DEF child, after
  <2> QED
    BY <1>1, <1>2, <1>5, <2>1 DEF Heads
<1>10. \E idx2 : Lists(NextOf(h2), PrevOf(h2), Heads(h2, stack), own2, idx2)
  <2> HIDE DEF next, prev, head
  <2>1. \E idx2 : Lists(NextOf(h2), PrevOf(h2), [head EXCEPT ![own[item]] = IF @ = item THEN next[item] ELSE @],
                        [own EXCEPT ![item] = NULL], idx2)
    BY <1>1, <1>8, Detached
  <2> QED
    BY <1>9, <2>1
<1>11. \E idx2 : Shape(h2, stack, own2, idx2)
  <2> HIDE DEF own2
  <2> QED
    BY <1>5, <1>6, <1>7, <1>10, Reshaped
<1> QED
  BY <1>5, <1>11 DEF h2

\* ReplaceItemViaPointer exchanges a root and an item of the list of a.
LEMMA ReplaceLinks ==
    ASSUME NEW h, NEW stack, NEW own, NEW idx, Shape(h, stack, own, idx), Placed(own),
           NEW a \in Item, NEW item \in Item, own[item] = a, NEW new \in InUse(h), own[new] = NULL
    PROVE  LET h2 == ReplaceItemViaPointer(h, a, item, new) IN
           SameData(h, h2) /\ \E idx2 : Shape(h2, stack, [own EXCEPT ![new] = a, ![item] = NULL], idx2)
<1> DEFINE h2 == ReplaceItemViaPointer(h, a, item, new)
           head == Heads(h, stack)
           next == NextOf(h)
           prev == PrevOf(h)
           before == prev[item]
           after == next[item]
           child == head[a]
           own2 == [own EXCEPT ![new] = a, ![item] = NULL]
<1> USE Addresses
<1>1. /\ h \in [Item -> Structure] /\ Lists(next, prev, head, own, idx) /\ new \in Item
      /\ own \in [Item -> Owner] /\ a # NULL
  BY DEF Shape, InUse, Lists, Typed
<1>2. /\ \A j \in Item : h[j].next = next[j] /\ h[j].prev = prev[j]
      /\ child = h[a].child
  BY <1>1, Fields, HeadOf
<1>3. /\ before \in Item /\ own[before] = a /\ child \in Item /\ own[child] = a
      /\ after \in Link /\ (after # NULL => own[after] = a)
      /\ \A j \in Item : next[j] = item <=> j = before /\ child # item
      /\ \A j \in Item : prev[j] = item <=> j = after \/ (j = child /\ after = NULL)
      /\ before = item <=> child = item /\ after = NULL
  <2> HIDE DEF next, prev, head
  <2> QED
    BY <1>1, Neighbours DEF Placed
<1>4. h[a].type # "free" /\ new \notin {item, before, after, child}
  BY <1>1, <1>2, <1>3 DEF Shape, Tidy, Freed, Blank
<1>5. /\ h2 \in [Item -> Structure] /\ SameData(h, h2)
      /\ \A j \in Item :
                    /\ h2[j].next = IF j = item THEN NULL ELSE IF j = new THEN after
                                    ELSE IF j = before /\ child # item THEN new ELSE h[j].next
                    /\ h2[j].prev = IF j = item THEN NULL
                                    ELSE IF j = new THEN IF child = item /\ before = item THEN new ELSE before
                                    ELSE IF j = after \/ (j = child /\ child # item /\ after = NULL) THEN new
                                    ELSE h[j].prev
                    /\ h2[j].child = IF j = a /\ child = item THEN new ELSE h[j].child
                    /\ j \notin {a, item, after, before, child, new} => h2[j] = h[j]
  <2> HIDE DEF child, after, before
  <2>1. before = h[item].prev /\ after = h[item].next
    BY <1>2 DEF before, after
  <2>2. h \in [Item -> Structure] /\ new \in Item
    BY <1>1
  <2>3. before \in Item /\ after \in Link /\ child \in Item
    BY <1>3
  <2>4. child = h[a].child
    BY <1>2
  <2>5. new \notin {item, before, after, child}
    BY <1>4
  <2> QED
    BY <2>1, <2>2, <2>3, <2>4, <2>5, ReplaceFields
<1> HIDE DEF h2, before, after, child
<1>6. \A j \in Item : h[j].type = "free" => h2[j] = h[j]
  BY <1>1, <1>3, <1>4, <1>5 DEF Shape, InUse
<1>7. \A j \in Item : own2[j] # NULL => h[j].type # "free"
  BY <1>1 DEF Shape, InUse
<1>8. Substitutes(next, prev, NextOf(h2), PrevOf(h2), item, new)
  <2>1. /\ \A j \in Item : h2[j].next = NextOf(h2)[j] /\ h2[j].prev = PrevOf(h2)[j]
        /\ NextOf(h2) \in [Item -> Link] /\ PrevOf(h2) \in [Item -> Link]
    BY <1>5, Fields
  <2>2. before = prev[item] /\ after = next[item]
    BY DEF before, after
  <2> HIDE DEF next, prev, head
  <2>3. \A j \in Item : NextOf(h2)[j] = IF j = item THEN NULL ELSE IF j = new THEN next[item]
                                        ELSE IF next[j] = item THEN new ELSE next[j]
    BY <1>2, <1>3, <1>5, <2>1, <2>2
  <2>4. \A j \in Item : PrevOf(h2)[j] = IF j = item THEN NULL
                                        ELSE IF j = new THEN IF prev[item] = item THEN new ELSE prev[item]
                                        ELSE IF prev[j] = item THEN new ELSE prev[j]
    BY <1>2, <1>3, <1>5, <2>1, <2>2
  <2> QED
    BY <2>1, <2>3, <2>4 DEF Substitutes
<1>9. Heads(h2, stack) = [head EXCEPT ![a] = IF @ = item THEN new ELSE @]
  <2>1. child = head[a]
    BY DEF child
  <2> QED
    BY <1>1, <1>2, <1>5, <2>1 DEF Heads
<1>10. \E idx2 : Lists(NextOf(h2), PrevOf(h2), Heads(h2, stack), own2, idx2)
  <2> HIDE DEF next, prev, head
  <2>1. \E idx2 : Lists(NextOf(h2), PrevOf(h2), [head EXCEPT ![own[item]] = IF @ = item THEN new ELSE @],
                        [own EXCEPT ![new] = own[item], ![item] = NULL], idx2)
    BY <1>1, <1>8, Replaced
  <2> QED
    BY <1>9, <2>1
<1>11. \E idx2 : Shape(h2, stack, own2, idx2)
  <2> HIDE DEF own2
  <2> QED
    BY <1>5, <1>6, <1>7, <1>10, Reshaped
<1> QED
  BY <1>5, <1>11 DEF h2

--------------------------------------------------------------------------------
(* Deletion.                                                                *)

\* S has with an item its siblings and its children.
ClosedSet(h, i, S) ==
    /\ i = NULL \/ i \in S
    /\ \A j \in S : /\ h[j].next = NULL \/ h[j].next \in S
                    /\ h[j].child = NULL \/ h[j].child \in S

\* Below is the least closed set.
LEMMA BelowLeast ==
    ASSUME NEW h \in [Item -> Structure], NEW i \in Link
    PROVE  /\ Below(h, i) \in SUBSET Item /\ ClosedSet(h, i, Below(h, i))
           /\ \A T \in SUBSET Item : ClosedSet(h, i, T) => Below(h, i) \subseteq T
<1>1. Below(h, i) = {j \in Item : \A S \in SUBSET Item : ClosedSet(h, i, S) => j \in S}
  BY DEF Below, ClosedSet
<1>2. \A j \in Item : h[j].next \in Link /\ h[j].child \in Link
  BY Fields
<1>3. ClosedSet(h, i, Below(h, i))
  <2>1. i = NULL \/ i \in Below(h, i)
    BY <1>1 DEF ClosedSet, Link
  <2>2. ASSUME NEW j \in Below(h, i), h[j].next # NULL PROVE h[j].next \in Below(h, i)
    BY <1>1, <1>2, <2>2 DEF ClosedSet, Link
  <2>3. ASSUME NEW j \in Below(h, i), h[j].child # NULL PROVE h[j].child \in Below(h, i)
    BY <1>1, <1>2, <2>3 DEF ClosedSet, Link
  <2> QED
    BY <2>1, <2>2, <2>3 DEF ClosedSet
<1> QED
  BY <1>1, <1>3

\* i is loose or the first of an open list: what is deleted with it are whole lists.
Detachable(head, own, i) ==
    i # NULL => own[i] = NULL \/ (own[i] \notin Item /\ head[own[i]] = i)

\* The owners of the lists that go.
Gone(h, own, i) == Below(h, i) \cup (IF i = NULL THEN {} ELSE {own[i]} \ {NULL})

\* What cJSON_Delete frees are whole lists: an item goes exactly if its owner does.
LEMMA WholeLists ==
    ASSUME NEW h \in [Item -> Structure], NEW head, NEW own, NEW idx,
           Lists(NextOf(h), PrevOf(h), head, own, idx), \A a \in Item : head[a] = h[a].child,
           NEW i \in Link, Detachable(head, own, i)
    PROVE  /\ Gone(h, own, i) \in SUBSET Owner /\ NULL \notin Gone(h, own, i)
           /\ \A j \in Item : own[j] # NULL => (j \in Below(h, i) <=> own[j] \in Gone(h, own, i))
           /\ \A j \in Below(h, i) : own[j] = NULL => j = i
<1> DEFINE S == Below(h, i)
           X == Gone(h, own, i)
           T == {j \in S : IF own[j] = NULL THEN j = i ELSE own[j] \in X}
<1> USE Addresses
<1>1. S \in SUBSET Item /\ ClosedSet(h, i, S) /\ \A R \in SUBSET Item : ClosedSet(h, i, R) => S \subseteq R
  BY BelowLeast
<1>2. X = S \cup (IF i = NULL THEN {} ELSE {own[i]} \ {NULL})
  BY DEF Gone
<1> HIDE DEF S, X
<1>3. /\ own \in [Item -> Owner] /\ NextOf(h) \in [Item -> Link] /\ head \in [Owner -> Link]
      /\ \A j \in Item : h[j].next = NextOf(h)[j] /\ h[j].child \in Link /\ h[j].next \in Link
  BY Fields DEF Lists, Typed
<1>4. X \in SUBSET Owner /\ NULL \notin X
  BY <1>1, <1>2, <1>3 DEF Link
<1>5. i # NULL => i \in S
  BY <1>1 DEF ClosedSet
<1>6. ClosedSet(h, i, T)
  <2>1. i = NULL \/ i \in T
    BY <1>2, <1>3, <1>5 DEF Link
  <2>2. ASSUME NEW j \in T, h[j].next # NULL PROVE h[j].next \in T
    <3>1. j \in Item /\ h[j].next \in S /\ h[j].next \in Item
      BY <1>1, <1>3, <2>2 DEF ClosedSet
    <3>2. own[j] # NULL
      BY <1>3, <2>2, <3>1 DEF Lists, Loose
    <3>3. own[h[j].next] = own[j]
      BY <1>3, <2>2, <3>1, <3>2 DEF Lists, Forward
    <3> QED
      BY <3>1, <3>2, <3>3
  <2>3. ASSUME NEW j \in T, h[j].child # NULL PROVE h[j].child \in T
    <3>1. j \in Item /\ j \in S /\ h[j].child \in S /\ h[j].child \in Item
      BY <1>1, <1>3, <2>3 DEF ClosedSet
    <3>2. own[h[j].child] = j /\ j # NULL
      BY <1>3, <2>3, <3>1 DEF Lists, HeadsFit
    <3> QED
      BY <1>2, <3>1, <3>2
  <2> QED
    BY <2>1, <2>2, <2>3 DEF ClosedSet
<1>7. S \subseteq T
  <2>1. T \in SUBSET Item
    BY <1>1
  <2> HIDE DEF T
  <2> QED
    BY <1>1, <1>6, <2>1
<1>8. ASSUME NEW j \in Item, own[j] # NULL, own[j] \in X PROVE j \in S
  <2>1. own[j] \in Owner /\ head[own[j]] \in Link /\ head[own[j]] # NULL
    BY <1>3, <1>8 DEF Lists, Forward
  <2>2. head[own[j]] \in S
    <3>1. CASE own[j] \in S
      BY <1>1, <2>1, <3>1 DEF ClosedSet
    <3>2. CASE own[j] \notin S
      <4>1. i # NULL /\ own[j] = own[i] /\ own[i] # NULL
        BY <1>2, <1>8, <3>2
      <4>2. head[own[i]] = i
        BY <4>1 DEF Detachable
      <4> QED
        BY <1>5, <4>1, <4>2
    <3> QED
      BY <3>1, <3>2
  <2>3. \A k \in S \cap Item : NextOf(h)[k] # NULL => NextOf(h)[k] \in S
    BY <1>1, <1>3 DEF ClosedSet
  <2> QED
    BY <1>8, <2>1, <2>2, <2>3, ListIn
<1>9. ASSUME NEW j \in S PROVE j \in Item /\ (own[j] = NULL => j = i) /\ (own[j] # NULL => own[j] \in X)
  BY <1>1, <1>7
<1> QED
  BY <1>4, <1>8, <1>9 DEF S, X

\* cJSON_Delete of a root, or of the list a frame has built, keeps the shape of the rest and
\* frees the strings of what it visits.
LEMMA Deleted ==
    ASSUME NEW h, NEW stack, NEW own, NEW idx, Shape(h, stack, own, idx),
           NEW i \in Link, Detachable(Heads(h, stack), own, i), NEW stack2,
           LET h2 == cJSON_Delete(h, i) IN
           \A o \in Owner : o \notin Item =>
                Heads(h2, stack2)[o] = IF o \in Gone(h, own, i) THEN NULL ELSE Heads(h, stack)[o]
    PROVE  /\ Shape(cJSON_Delete(h, i), stack2, [j \in Item |-> IF j \in Below(h, i) THEN NULL ELSE own[j]], idx)
           /\ StringsOf(cJSON_Delete(h, i), Item) = StringsOf(h, Item) - StringsOf(h, Below(h, i))
           /\ Below(h, i) \in SUBSET Item
           /\ \A j \in Below(h, i) : own[j] # NULL => own[j] \in Gone(h, own, i)
           /\ \A j \in Below(h, i) : own[j] = NULL => j = i
           /\ \A j \in Item : cJSON_Delete(h, i)[j] = IF j \in Below(h, i) THEN Freed ELSE h[j]
<1> DEFINE S == Below(h, i)
           X == Gone(h, own, i)
           h2 == cJSON_Delete(h, i)
           own2 == [j \in Item |-> IF j \in S THEN NULL ELSE own[j]]
           head == Heads(h, stack)
           head2 == Heads(h2, stack2)
<1> USE Addresses
<1>1. h \in [Item -> Structure] /\ Lists(NextOf(h), PrevOf(h), head, own, idx) /\ Tidy(h)
  BY DEF Shape
<1>2. \A a \in Item : head[a] = h[a].child
  BY <1>1, HeadOf
<1>3. /\ X \in SUBSET Owner /\ NULL \notin X
      /\ \A j \in Item : own[j] # NULL => (j \in S <=> own[j] \in X)
      /\ \A j \in S : own[j] = NULL => j = i
  BY <1>1, <1>2, WholeLists
<1>4. S \in SUBSET Item
  BY <1>1, BelowLeast
<1>5. /\ h2 = [j \in Item |-> IF j \in S THEN Freed ELSE h[j]]
      /\ X = S \cup (IF i = NULL THEN {} ELSE {own[i]} \ {NULL})
  BY DEF cJSON_Delete, Gone
<1>6. Freed \in Structure /\ Freed.next = NULL /\ Freed.prev = NULL /\ Freed.child = NULL /\ Freed.type = "free"
  BY DEF Freed, Blank, Structure, Types
<1> HIDE DEF S, X, h2
<1>7. h2 \in [Item -> Structure]
  BY <1>1, <1>5, <1>6
<1>8. Drops(NextOf(h), PrevOf(h), head, NextOf(h2), PrevOf(h2), head2, S, X)
  <2>1. /\ \A j \in Item : h2[j].next = NextOf(h2)[j] /\ h2[j].prev = PrevOf(h2)[j]
        /\ NextOf(h2) \in [Item -> Link] /\ PrevOf(h2) \in [Item -> Link]
        /\ \A j \in Item : h[j].next = NextOf(h)[j] /\ h[j].prev = PrevOf(h)[j] /\ h2[j].child \in Link
    BY <1>1, <1>7, Fields
  <2>2. \A a \in Item : head2[a] = h2[a].child
    BY <1>7, HeadOf
  <2>3. ASSUME NEW o \in Owner PROVE head2[o] = IF o \in X THEN NULL ELSE head[o]
    <3>1. CASE o \notin Item
      BY <3>1 DEF h2, X
    <3>2. CASE o \in Item
      <4>1. o \in X <=> o \in S
        BY <1>5, <3>2 DEF Detachable
      <4> HIDE DEF head, head2
      <4> QED
        BY <1>2, <1>5, <1>6, <2>2, <3>2, <4>1
    <3> QED
      BY <3>1, <3>2
  <2>4. head \in [Owner -> Link]
    BY <1>1 DEF Lists, Typed
  <2>5. head2 \in [Owner -> Link]
    <3>1. \A o \in Owner : head2[o] \in Link
      <4> HIDE DEF head, head2
      <4> QED
        BY <2>3, <2>4 DEF Link
    <3> QED
      BY <3>1 DEF Heads
  <2>6. \A j \in Item : /\ NextOf(h2)[j] = IF j \in S THEN NULL ELSE NextOf(h)[j]
                        /\ PrevOf(h2)[j] = IF j \in S THEN NULL ELSE PrevOf(h)[j]
    BY <1>5, <1>6, <2>1
  <2> HIDE DEF head, head2
  <2> QED
    BY <2>1, <2>3, <2>5, <2>6 DEF Drops
<1>9. Lists(NextOf(h2), PrevOf(h2), head2, own2, idx)
  <2> HIDE DEF head, head2
  <2> QED
    BY <1>1, <1>3, <1>4, <1>8, Dropped
<1>10. Tidy(h2)
  BY <1>1, <1>5 DEF Tidy
<1>11. \A j \in Item : own2[j] # NULL => h2[j].type # "free"
  BY <1>5 DEF Shape
<1>12. StringsOf(h2, Item) = StringsOf(h, Item) - StringsOf(h, S)
  BY <1>4, <1>5, StringsFreed
<1>13. Shape(h2, stack2, own2, idx)
  <2> HIDE DEF own2
  <2> QED
    BY <1>7, <1>9, <1>10, <1>11 DEF Shape
<1> QED
  BY <1>3, <1>4, <1>5, <1>12, <1>13 DEF S, X, h2

--------------------------------------------------------------------------------
(* The invariant.                                                           *)

\* A frame of the parser.
Frame == [kind : {"Array", "Object"}, item : Item, head : Link, cur : Link]

\* The owner that the frame k is.  Frames are numbered from the outermost, so that a push or
\* a pop leaves the others their numbers.
Level(stack, k) == Items + Len(stack) + 1 - k

\* A frame has a current item, the last of its list, exactly if it has a head; its item has no
\* child yet, and is what the frame around it is parsing.
FramesOK(h, stack, root, own) ==
    /\ stack \in Seq(Frame) /\ Len(stack) <= NestingLimit
    /\ \A k \in 1..Len(stack) :
        /\ stack[k].head = NULL <=> stack[k].cur = NULL
        /\ stack[k].cur # NULL => own[stack[k].cur] = Level(stack, k) /\ h[stack[k].cur].next = NULL
        /\ h[stack[k].item].child = NULL
        /\ stack[k].item = IF k = Len(stack) THEN root ELSE stack[k + 1].cur

\* Parsing and Target, of any parse.
Active(q) == q.mode \in {"value", "first", "name", "after", "fail"}

TargetOf(q) == IF q.stack = <<>> THEN q.root ELSE Head(q.stack).cur

\* While a parse is under way the program holds nothing, the root is a root, and the item to
\* parse into is empty.
ParseOK(h, hl, q, own) ==
    /\ q = [mode |-> q.mode, text |-> q.text, pos |-> q.pos, root |-> q.root,
            stack |-> q.stack, oom |-> q.oom]
    /\ q.mode \in Modes
    /\ FramesOK(h, q.stack, q.root, own)
    /\ ~Active(q) => q.stack = <<>>
    /\ Active(q) => hl = {} /\ q.root \in Item /\ own[q.root] = NULL /\ h[q.root].type # "free"
    /\ q.mode \in {"first", "name", "after"} => q.stack # <<>>
    /\ q.mode \in {"value", "name"} =>
        /\ TargetOf(q) \in Item /\ h[TargetOf(q)].child = NULL
        /\ h[TargetOf(q)].valuestring = NoString
    /\ q.mode = "name" => h[TargetOf(q)].string = NoString

\* What the program holds is in use and a root.
HeldOK(h, hl, own) == \A i \in hl : i \in InUse(h) /\ own[i] = NULL

\* The parts of the invariant, for given coordinates.
Sound(h, s, hl, q, own, idx) ==
    /\ Shape(h, q.stack, own, idx)
    /\ s = StringsOf(h, Item)
    /\ HeldOK(h, hl, own)
    /\ ParseOK(h, hl, q, own)

\* The inductive invariant: coordinates exist that make the heap a set of lists, one for each
\* item and each frame, with every string counted and every held item a root.
Inv == \E own, idx : Sound(heap, strings, held, p, own, idx)

\* No parse has nothing to satisfy.
LEMMA Idle ==
    ASSUME NEW h, NEW hl, NEW own
    PROVE  ParseOK(h, hl, NoParse, own) /\ NoParse.stack = <<>>
<1>1. NoParse.stack = <<>> /\ NoParse.mode = "idle" /\ NoParse.mode \in Modes
  BY DEF NoParse, Modes
<1>2. FramesOK(h, <<>>, NoParse.root, own)
  BY Sizes DEF FramesOK
<1>3. NoParse = [mode |-> NoParse.mode, text |-> NoParse.text, pos |-> NoParse.pos, root |-> NoParse.root,
                 stack |-> NoParse.stack, oom |-> NoParse.oom]
  BY DEF NoParse
<1> QED
  BY <1>1, <1>2, <1>3 DEF ParseOK, Active

\* Without frames every owner is an item.
LEMMA NoFrames ==
    ASSUME NEW h, NEW own, NEW idx, Shape(h, <<>>, own, idx)
    PROVE  Placed(own)
<1> SUFFICES ASSUME NEW j \in Item, own[j] \notin Item \cup {NULL} PROVE FALSE
  BY DEF Placed
<1>1. own[j] \in Owner /\ Heads(h, <<>>)[own[j]] # NULL
  BY DEF Shape, Lists, Typed, Forward
<1>2. own[j] > Items
  BY <1>1, Sizes DEF Owner, Item, NULL
<1>3. Heads(h, <<>>)[own[j]] = NULL
  <2>1. own[j] \in Int /\ ~(own[j] - Items <= 0)
    BY <1>1, <1>2, Sizes DEF Owner
  <2> QED
    BY <1>1, <2>1 DEF Heads
<1> QED
  BY <1>1, <1>3

\* What is looked up in the list of a is an item of a.
LEMMA ItemFound ==
    ASSUME NEW h, NEW stack, NEW own, NEW idx, Shape(h, stack, own, idx), NEW a \in Item
    PROVE  /\ \A k \in Nat : get_array_item(h, a, k) # NULL =>
                get_array_item(h, a, k) \in Item /\ own[get_array_item(h, a, k)] = a
           /\ \A name \in Strings : get_object_item(h, a, name) # NULL =>
                get_object_item(h, a, name) \in Item /\ own[get_object_item(h, a, name)] = a
<1> DEFINE l == ListOf(h, a)
<1>1. \A n \in DOMAIN l : l[n] \in Item /\ own[l[n]] = a
  <2>1. /\ h \in [Item -> Structure] /\ Lists(NextOf(h), PrevOf(h), Heads(h, stack), own, idx)
        /\ h[a].child = Heads(h, stack)[a]
    BY HeadOf DEF Shape
  <2> QED
    BY <2>1, ListWalk
<1>2. DOMAIN l \in SUBSET Nat
  <2>1. l = SubSeq(Walk(h, h[a].child), 1, Cardinality({n \in 1..Items : Walk(h, h[a].child)[n] # NULL}))
    BY Zenon DEF ListOf
  <2>2. Cardinality({n \in 1..Items : Walk(h, h[a].child)[n] # NULL}) \in Nat
    BY FiniteItems DEF Item
  <2> QED
    BY <2>1, <2>2
<1> HIDE DEF l
<1>3. ASSUME NEW k \in Nat, get_array_item(h, a, k) # NULL
      PROVE  get_array_item(h, a, k) \in Item /\ own[get_array_item(h, a, k)] = a
  <2>1. get_array_item(h, a, k) = IF k + 1 \in DOMAIN l THEN l[k + 1] ELSE NULL
    BY Zenon DEF get_array_item, l
  <2> QED
    BY <1>1, <1>3, <2>1
<1>4. ASSUME NEW name \in Strings, get_object_item(h, a, name) # NULL
      PROVE  get_object_item(h, a, name) \in Item /\ own[get_object_item(h, a, name)] = a
  <2> DEFINE ends == {n \in DOMAIN l : h[l[n]].string \in {name, NoString}}
  <2>1. get_object_item(h, a, name) = IF ends = {} \/ h[l[Min(ends)]].string = NoString THEN NULL
                                      ELSE l[Min(ends)]
    BY Zenon DEF get_object_item, l
  <2>2. ends # {} /\ get_object_item(h, a, name) = l[Min(ends)]
    BY <1>4, <2>1
  <2>3. Min(ends) \in ends
    <3>1. ends \in SUBSET Nat
      BY <1>2
    <3> HIDE DEF ends
    <3> QED
      BY <2>2, <3>1, MinIn
  <2> QED
    BY <1>1, <2>2, <2>3
<1> QED
  BY <1>3, <1>4

\* The same links, other contents; items may come into use.
LEMMA Relabelled ==
    ASSUME NEW h, NEW stack, NEW own, NEW idx, Shape(h, stack, own, idx),
           NEW h2 \in [Item -> Structure],
           \A j \in Item : h2[j].next = h[j].next /\ h2[j].prev = h[j].prev /\ h2[j].child = h[j].child,
           \A j \in Item : h2[j].type = "free" => h2[j] = h[j]
    PROVE  Shape(h2, stack, own, idx)
<1>1. NextOf(h2) = NextOf(h) /\ PrevOf(h2) = PrevOf(h)
  BY DEF NextOf, PrevOf
<1>2. Heads(h2, stack) = Heads(h, stack)
  BY HeadsKept DEF Shape
<1> QED
  BY <1>1, <1>2 DEF Shape, Tidy

--------------------------------------------------------------------------------
(* The calls.                                                               *)

\* What holds when the program calls.
LEMMA Quiet ==
    ASSUME NEW own, NEW idx, Sound(heap, strings, held, p, own, idx), Edit
    PROVE  /\ Shape(heap, <<>>, own, idx) /\ Placed(own) /\ heap \in [Item -> Structure]
           /\ \A hl, h, o2 : ParseOK(h, hl, p', o2) /\ p'.stack = <<>>
           /\ strings = StringsOf(heap, Item)
           /\ \A i \in held : i \in InUse(heap) /\ i \in Item /\ own[i] = NULL
           /\ own \in [Item -> Owner]
<1>1. p' = NoParse /\ ~Active(p)
  BY DEF Edit, Parsing, Active
<1>2. p.stack = <<>>
  BY <1>1 DEF Sound, ParseOK
<1>3. Shape(heap, <<>>, own, idx)
  BY <1>2 DEF Sound
<1>4. Placed(own)
  BY <1>3, NoFrames
<1>5. \A hl, h, o2 : ParseOK(h, hl, p', o2) /\ p'.stack = <<>>
  BY <1>1, Idle
<1>6. \A i \in held : i \in InUse(heap) /\ i \in Item /\ own[i] = NULL
  BY DEF Sound, HeldOK, InUse
<1> QED
  BY <1>3, <1>4, <1>5, <1>6 DEF Sound, Shape, Lists, Typed

\* What a call has to establish.
LEMMA Settled ==
    ASSUME Edit, \A hl, h, o2 : ParseOK(h, hl, p', o2) /\ p'.stack = <<>>,
           NEW own, NEW idx, Shape(heap', <<>>, own, idx), strings' = StringsOf(heap', Item),
           HeldOK(heap', held', own)
    PROVE  Inv'
<1>1. Sound(heap', strings', held', p', own, idx)
  BY DEF Sound
<1> QED
  BY <1>1 DEF Inv

\* cJSON_CreateObject and cJSON_CreateString keep the invariant.
LEMMA CreateSound ==
    ASSUME Inv, NEW type \in {"Object", "String"}, Create(type)
    PROVE  Inv'
<1> PICK own, idx : Sound(heap, strings, held, p, own, idx)
  BY DEF Inv
<1>0. Edit
  BY DEF Create
<1>1. /\ Shape(heap, <<>>, own, idx) /\ heap \in [Item -> Structure]
      /\ \A hl, h, o2 : ParseOK(h, hl, p', o2) /\ p'.stack = <<>>
      /\ strings = StringsOf(heap, Item)
      /\ \A i \in held : i \in InUse(heap) /\ i \in Item /\ own[i] = NULL
  BY <1>0, Quiet
<1> DEFINE i == Min(Unused)
           s == CHOOSE s \in Strings : TRUE
           new == [Blank EXCEPT !.type = type, !.valuestring = IF type = "String" THEN s ELSE NoString]
<1>2. i \in Item /\ i \notin InUse(heap)
  <2>1. Unused \in SUBSET Nat /\ Unused # {}
    BY DEF Unused, Item, Create
  <2> QED
    BY <2>1, MinIn DEF Unused
<1>3. heap[i] = Freed
  BY <1>1, <1>2 DEF InUse, Shape, Tidy
<1>4. own[i] = NULL
  BY <1>1, <1>2 DEF Shape, InUse
<1>5. heap' = [heap EXCEPT ![i] = new] /\ held' = held \cup {i}
      /\ strings' = IF type = "String" THEN strings + 1 ELSE strings
  BY Zenon DEF Create
<1>6. new \in Structure /\ new.next = NULL /\ new.prev = NULL /\ new.child = NULL /\ new.type = type
      /\ new.string = NoString /\ new.valuestring = IF type = "String" THEN s ELSE NoString
  <2>1. s \in Strings
    BY BoundsAssumption
  <2> HIDE DEF s
  <2> QED
    BY <2>1 DEF Blank, Structure, Types
<1>7. type # "free" /\ s # NoString
  <2>1. s \in Strings
    BY BoundsAssumption
  <2> HIDE DEF s
  <2> QED
    BY <2>1, BoundsAssumption DEF NoString
<1> HIDE DEF new, s
<1>8. heap' \in [Item -> Structure] /\ \A j \in Item : heap'[j] = IF j = i THEN new ELSE heap[j]
  BY <1>1, <1>2, <1>5, <1>6
<1>9. Shape(heap', <<>>, own, idx)
  <2>1. \A j \in Item : /\ heap'[j].next = heap[j].next /\ heap'[j].prev = heap[j].prev
                        /\ heap'[j].child = heap[j].child
    BY <1>3, <1>6, <1>8 DEF Freed, Blank
  <2>2. \A j \in Item : heap'[j].type = "free" => heap'[j] = heap[j]
    BY <1>6, <1>7, <1>8
  <2> QED
    BY <1>1, <1>8, <2>1, <2>2, Relabelled
<1>10. strings' = StringsOf(heap', Item)
  <2>1. \A j \in Item \ {i} : heap'[j].string = heap[j].string /\ heap'[j].valuestring = heap[j].valuestring
    BY <1>8
  <2>2. heap[i].string = NoString /\ heap[i].valuestring = NoString /\ heap'[i] = new
    BY <1>2, <1>3, <1>8 DEF Freed, Blank
  <2>3. CASE type = "String"
    BY <1>1, <1>2, <1>5, <1>6, <1>7, <2>1, <2>2, <2>3, StringsSet, ZenonT(60)
  <2>4. CASE type # "String"
    <3>1. \A j \in Item : heap'[j].string = heap[j].string /\ heap'[j].valuestring = heap[j].valuestring
      BY <1>6, <2>1, <2>2, <2>4
    <3> QED
      BY <1>1, <1>5, <2>4, <3>1, StringsSame
  <2> QED
    BY <2>3, <2>4
<1>11. HeldOK(heap', held', own)
  BY <1>1, <1>2, <1>4, <1>5, <1>6, <1>7, <1>8 DEF HeldOK, InUse
<1> QED
  BY <1>0, <1>1, <1>9, <1>10, <1>11, Settled

\* The calls that keep the contents of the items.
LEMMA LinksSound ==
    ASSUME Edit, NEW own, NEW idx, Sound(heap, strings, held, p, own, idx),
           NEW own2, NEW idx2, Shape(heap', <<>>, own2, idx2), SameData(heap, heap'),
           strings' = strings, \A i \in held' : own2[i] = NULL /\ i \in InUse(heap)
    PROVE  Inv'
<1>1. /\ \A hl, h, o2 : ParseOK(h, hl, p', o2) /\ p'.stack = <<>>
      /\ strings = StringsOf(heap, Item)
  BY Quiet
<1>2. strings' = StringsOf(heap', Item)
  BY <1>1, StringsSame DEF SameData
<1>3. HeldOK(heap', held', own2)
  BY DEF HeldOK, SameData, InUse
<1> QED
  BY <1>1, <1>2, <1>3, Settled

\* cJSON_AddItemToArray keeps the invariant.
LEMMA AddToArraySound ==
    ASSUME Inv, NEW i \in held, NEW a \in InUse(heap), a # i, AddItemToArray(a, i)
    PROVE  Inv'
<1> PICK own, idx : Sound(heap, strings, held, p, own, idx)
  BY DEF Inv
<1>0. Edit /\ heap' = add_item_to_array(heap, a, i) /\ held' = held \ {i} /\ strings' = strings
  BY DEF AddItemToArray
<1>1. /\ Shape(heap, <<>>, own, idx)
      /\ \A k \in held : k \in InUse(heap) /\ k \in Item /\ own[k] = NULL
      /\ own \in [Item -> Owner]
  BY <1>0, Quiet
<1>2. SameData(heap, heap') /\ \E idx2 : Shape(heap', <<>>, [own EXCEPT ![i] = a], idx2)
  BY <1>0, <1>1, AddLinks
<1>3. \A k \in held' : [own EXCEPT ![i] = a][k] = NULL /\ k \in InUse(heap)
  BY <1>0, <1>1
<1> QED
  BY <1>0, <1>2, <1>3, LinksSound

\* cJSON_InsertItemInArray keeps the invariant.
LEMMA InsertSound ==
    ASSUME Inv, NEW i \in held, NEW a \in InUse(heap), a # i, NEW which \in Nat,
           InsertItemInArray(a, which, i)
    PROVE  Inv'
<1> PICK own, idx : Sound(heap, strings, held, p, own, idx)
  BY DEF Inv
<1> DEFINE after == get_array_item(heap, a, which)
<1>0. /\ Edit /\ held' = held \ {i} /\ strings' = strings
      /\ heap' = IF after = NULL THEN add_item_to_array(heap, a, i)
                 ELSE insert_item(heap, a, after, i)
  BY DEF InsertItemInArray
<1>1. /\ Shape(heap, <<>>, own, idx) /\ Placed(own)
      /\ \A k \in held : k \in InUse(heap) /\ k \in Item /\ own[k] = NULL
      /\ own \in [Item -> Owner]
  BY <1>0, Quiet
<1>2. a \in Item /\ (after # NULL => after \in Item /\ own[after] = a)
  BY <1>1, ItemFound DEF InUse
<1> HIDE DEF after
<1>3. SameData(heap, heap') /\ \E idx2 : Shape(heap', <<>>, [own EXCEPT ![i] = a], idx2)
  <2>1. CASE after = NULL
    BY <1>0, <1>1, <2>1, AddLinks
  <2>2. CASE after # NULL
    BY <1>0, <1>1, <1>2, <2>2, InsertLinks
  <2> QED
    BY <2>1, <2>2
<1>4. \A k \in held' : [own EXCEPT ![i] = a][k] = NULL /\ k \in InUse(heap)
  BY <1>0, <1>1
<1> QED
  BY <1>0, <1>3, <1>4, LinksSound

\* The detaching calls keep the invariant.
LEMMA DetachSound ==
    ASSUME Inv, NEW a \in Containers, NEW item, Detach(a, item),
           \A own, idx : Shape(heap, <<>>, own, idx) /\ item # NULL => item \in Item /\ own[item] = a
    PROVE  Inv'
<1> PICK own, idx : Sound(heap, strings, held, p, own, idx)
  BY DEF Inv
<1>0. /\ Edit /\ held' = held \cup {item} /\ strings' = strings /\ item # NULL
      /\ heap' = DetachItemViaPointer(heap, a, item)
  BY DEF Detach
<1>1. /\ Shape(heap, <<>>, own, idx) /\ Placed(own)
      /\ \A k \in held : k \in InUse(heap) /\ k \in Item /\ own[k] = NULL
      /\ own \in [Item -> Owner]
  BY <1>0, Quiet
<1>2. item \in Item /\ own[item] = a /\ a \in Item
  BY <1>0, <1>1 DEF Containers, InUse
<1>3. SameData(heap, heap') /\ \E idx2 : Shape(heap', <<>>, [own EXCEPT ![item] = NULL], idx2)
  BY <1>0, <1>1, <1>2, DetachLinks
<1>4. item \in InUse(heap)
  BY <1>1, <1>2, Addresses DEF Shape, InUse
<1>5. \A k \in held' : [own EXCEPT ![item] = NULL][k] = NULL /\ k \in InUse(heap)
  BY <1>0, <1>1, <1>2, <1>4
<1> QED
  BY <1>0, <1>3, <1>5, LinksSound

\* Deleting a root.
LEMMA RootDeleted ==
    ASSUME NEW h, NEW own, NEW idx, Shape(h, <<>>, own, idx), NEW i \in Item, own[i] = NULL
    PROVE  /\ \E own2 : /\ Shape(cJSON_Delete(h, i), <<>>, own2, idx)
                        /\ \A j \in Item : j # i /\ own[j] = NULL =>
                              own2[j] = NULL /\ cJSON_Delete(h, i)[j] = h[j]
           /\ StringsOf(cJSON_Delete(h, i), Item) = StringsOf(h, Item) - StringsOf(h, Below(h, i))
<1>1. i \in Link /\ Detachable(Heads(h, <<>>), own, i)
  BY DEF Link, Detachable
<1> DEFINE h2 == cJSON_Delete(h, i)
           own2 == [j \in Item |-> IF j \in Below(h, i) THEN NULL ELSE own[j]]
<1>2. Below(h, i) \in SUBSET Item
  BY <1>1, BelowLeast DEF Shape
<1>3. \A o \in Owner : o \notin Item =>
         Heads(h2, <<>>)[o] = IF o \in Gone(h, own, i) THEN NULL ELSE Heads(h, <<>>)[o]
  <2>1. \A o \in Owner : o \notin Item => o \notin Gone(h, own, i)
    BY <1>2, Addresses DEF Gone
  <2>2. \A o \in Owner : o \notin Item => Heads(h2, <<>>)[o] = Heads(h, <<>>)[o]
    BY DEF Heads
  <2> QED
    BY <2>1, <2>2
<1>4. /\ Shape(h2, <<>>, own2, idx)
      /\ StringsOf(h2, Item) = StringsOf(h, Item) - StringsOf(h, Below(h, i))
      /\ \A j \in Below(h, i) : own[j] = NULL => j = i
      /\ \A j \in Item : h2[j] = IF j \in Below(h, i) THEN Freed ELSE h[j]
  BY <1>1, <1>3, Deleted
<1> HIDE DEF h2
<1>5. \A j \in Item : j # i /\ own[j] = NULL => own2[j] = NULL /\ h2[j] = h[j]
  BY <1>4
<1> QED
  BY <1>4, <1>5 DEF h2

\* cJSON_Delete keeps the invariant.
LEMMA DeleteSound ==
    ASSUME Inv, NEW i \in held, Delete(i)
    PROVE  Inv'
<1> PICK own, idx : Sound(heap, strings, held, p, own, idx)
  BY DEF Inv
<1>0. /\ Edit /\ held' = held \ {i} /\ heap' = cJSON_Delete(heap, i)
      /\ strings' = strings - StringsOf(heap, Below(heap, i))
  BY DEF Delete
<1>1. /\ Shape(heap, <<>>, own, idx)
      /\ \A k \in held : k \in InUse(heap) /\ k \in Item /\ own[k] = NULL
      /\ \A hl, h, o2 : ParseOK(h, hl, p', o2) /\ p'.stack = <<>>
      /\ strings = StringsOf(heap, Item)
  BY <1>0, Quiet
<1>2. PICK own2 : /\ Shape(heap', <<>>, own2, idx)
                     /\ \A j \in Item : j # i /\ own[j] = NULL => own2[j] = NULL /\ heap'[j] = heap[j]
  BY <1>0, <1>1, RootDeleted
<1>3. strings' = StringsOf(heap', Item)
  BY <1>0, <1>1, RootDeleted
<1>4. HeldOK(heap', held', own2)
  BY <1>0, <1>1, <1>2 DEF HeldOK, InUse
<1> QED
  BY <1>0, <1>1, <1>2, <1>3, <1>4, Settled

\* An item in use is given a name, or loses it.
LEMMA Renamed ==
    ASSUME NEW h, NEW stack, NEW own, NEW idx, Shape(h, stack, own, idx),
           NEW i \in InUse(h), NEW name \in Strings \cup {NoString}
    PROVE  LET h2 == [h EXCEPT ![i].string = name] IN
           /\ Shape(h2, stack, own, idx) /\ h2 \in [Item -> Structure]
           /\ InUse(h2) = InUse(h)
<1> DEFINE h2 == [h EXCEPT ![i].string = name]
<1>1. h \in [Item -> Structure] /\ i \in Item
  BY DEF Shape, InUse
<1>2. [h[i] EXCEPT !.string = name] \in Structure
  BY <1>1 DEF Structure
<1>3. h2 \in [Item -> Structure]
  BY <1>1, <1>2
<1>4. \A j \in Item : /\ h2[j].next = h[j].next /\ h2[j].prev = h[j].prev /\ h2[j].child = h[j].child
                      /\ h2[j].type = h[j].type /\ (j # i => h2[j] = h[j])
  BY <1>1 DEF Structure
<1> HIDE DEF h2
<1>5. InUse(h2) = InUse(h)
  BY <1>4 DEF InUse
<1>6. \A j \in Item : h2[j].type = "free" => h2[j] = h[j]
  <2>1. h[i].type # "free"
    BY DEF InUse
  <2> QED
    BY <1>1, <1>4, <2>1
<1> QED
  BY <1>3, <1>4, <1>5, <1>6, Relabelled DEF h2

\* cJSON_AddItemToObject keeps the invariant.
LEMMA AddToObjectSound ==
    ASSUME Inv, NEW i \in held, NEW o \in InUse(heap), o # i, NEW name \in Strings,
           AddItemToObject(o, name, i)
    PROVE  Inv'
<1> PICK own, idx : Sound(heap, strings, held, p, own, idx)
  BY DEF Inv
<1> DEFINE named == [heap EXCEPT ![i].string = name]
<1>0. /\ Edit /\ heap' = add_item_to_array(named, o, i) /\ held' = held \ {i}
      /\ strings' = strings + 1 - StringsOf([heap EXCEPT ![i].valuestring = NoString], {i})
  BY DEF AddItemToObject
<1>1. /\ Shape(heap, <<>>, own, idx) /\ heap \in [Item -> Structure]
      /\ \A k \in held : k \in InUse(heap) /\ k \in Item /\ own[k] = NULL
      /\ own \in [Item -> Owner]
      /\ \A hl, h, o2 : ParseOK(h, hl, p', o2) /\ p'.stack = <<>>
      /\ strings = StringsOf(heap, Item)
  BY <1>0, Quiet
<1>2. Shape(named, <<>>, own, idx) /\ InUse(named) = InUse(heap)
  BY <1>1, Renamed
<1>3. StringsOf(named, Item) = strings'
  BY <1>0, <1>1, StringsRenamed
<1> HIDE DEF named
<1>4. SameData(named, heap') /\ \E idx2 : Shape(heap', <<>>, [own EXCEPT ![i] = o], idx2)
  BY <1>0, <1>1, <1>2, AddLinks
<1>5. strings' = StringsOf(heap', Item)
  BY <1>3, <1>4, StringsSame DEF SameData
<1>6. HeldOK(heap', held', [own EXCEPT ![i] = o])
  <2>1. InUse(heap') = InUse(heap)
    BY <1>2, <1>4 DEF SameData, InUse
  <2> QED
    BY <1>0, <1>1, <2>1 DEF HeldOK
<1> QED
  BY <1>0, <1>1, <1>4, <1>5, <1>6, Settled

\* The replacement i takes the place of the item, which is deleted.
LEMMA Substituted ==
    ASSUME NEW h, NEW own, NEW idx, Shape(h, <<>>, own, idx), Placed(own),
           NEW a \in Item, NEW item \in Item, own[item] = a, NEW i \in InUse(h), own[i] = NULL
    PROVE  LET h1 == ReplaceItemViaPointer(h, a, item, i)
               h2 == cJSON_Delete(h1, item)
           IN /\ \E own2, idx2 : /\ Shape(h2, <<>>, own2, idx2)
                                 /\ \A j \in InUse(h) : j # i /\ own[j] = NULL =>
                                        own2[j] = NULL /\ j \in InUse(h2)
              /\ StringsOf(h2, Item) = StringsOf(h, Item) - StringsOf(h1, Below(h1, item))
<1> DEFINE h1 == ReplaceItemViaPointer(h, a, item, i)
           h2 == cJSON_Delete(h1, item)
           own1 == [own EXCEPT ![i] = a, ![item] = NULL]
<1> USE Addresses
<1>1. SameData(h, h1) /\ \E idx1 : Shape(h1, <<>>, own1, idx1)
  BY ReplaceLinks
<1>2. PICK idx1 : Shape(h1, <<>>, own1, idx1)
  BY <1>1
<1>3. i \in Item /\ i # item /\ own \in [Item -> Owner]
  BY DEF InUse, Shape, Lists, Typed
<1>4. own1[item] = NULL /\ \A j \in Item : j # i /\ j # item => own1[j] = own[j]
  BY <1>3
<1> HIDE DEF h1, own1
<1>5. PICK own2 : /\ Shape(h2, <<>>, own2, idx1)
                  /\ \A j \in Item : j # item /\ own1[j] = NULL => own2[j] = NULL /\ h2[j] = h1[j]
  BY <1>2, <1>4, RootDeleted
<1>6. StringsOf(h2, Item) = StringsOf(h1, Item) - StringsOf(h1, Below(h1, item))
  BY <1>2, <1>4, RootDeleted
<1>7. StringsOf(h1, Item) = StringsOf(h, Item)
  BY <1>1, StringsSame DEF SameData
<1> HIDE DEF h2
<1>8. \A j \in InUse(h) : j # i /\ own[j] = NULL => own2[j] = NULL /\ j \in InUse(h2)
  <2> SUFFICES ASSUME NEW j \in InUse(h), j # i, own[j] = NULL
               PROVE  own2[j] = NULL /\ j \in InUse(h2)
    OBVIOUS
  <2>1. j \in Item /\ j # item /\ own1[j] = NULL
    BY <1>4 DEF InUse
  <2>2. h2[j] = h1[j] /\ own2[j] = NULL
    BY <1>5, <2>1
  <2> QED
    BY <1>1, <2>1, <2>2 DEF SameData, InUse
<1> QED
  BY <1>5, <1>6, <1>7, <1>8 DEF h1, h2

\* cJSON_ReplaceItemInArray keeps the invariant.
LEMMA ReplaceInArraySound ==
    ASSUME Inv, NEW i \in held, NEW a \in InUse(heap), NEW which \in Nat,
           ReplaceItemInArray(a, which, i)
    PROVE  Inv'
<1> PICK own, idx : Sound(heap, strings, held, p, own, idx)
  BY DEF Inv
<1> DEFINE item == get_array_item(heap, a, which)
           h == ReplaceItemViaPointer(heap, a, item, i)
<1>0. /\ Edit /\ item # NULL /\ heap' = cJSON_Delete(h, item) /\ held' = held \ {i}
      /\ strings' = strings - StringsOf(h, Below(h, item))
  BY Zenon DEF ReplaceItemInArray
<1>1. /\ Shape(heap, <<>>, own, idx) /\ Placed(own)
      /\ \A k \in held : k \in InUse(heap) /\ k \in Item /\ own[k] = NULL
      /\ \A hl, g, o2 : ParseOK(g, hl, p', o2) /\ p'.stack = <<>>
      /\ strings = StringsOf(heap, Item)
  BY <1>0, Quiet
<1>2. a \in Item /\ item \in Item /\ own[item] = a
  BY <1>0, <1>1, ItemFound DEF InUse
<1> HIDE DEF item
<1>3. /\ \E own2, idx2 : /\ Shape(heap', <<>>, own2, idx2)
                         /\ \A j \in InUse(heap) : j # i /\ own[j] = NULL =>
                                own2[j] = NULL /\ j \in InUse(heap')
      /\ StringsOf(heap', Item) = StringsOf(heap, Item) - StringsOf(h, Below(h, item))
  BY <1>0, <1>1, <1>2, Substituted
<1>4. PICK own2, idx2 : /\ Shape(heap', <<>>, own2, idx2)
                        /\ \A j \in InUse(heap) : j # i /\ own[j] = NULL =>
                                own2[j] = NULL /\ j \in InUse(heap')
  BY <1>3
<1>5. strings' = StringsOf(heap', Item)
  BY <1>0, <1>1, <1>3
<1>6. HeldOK(heap', held', own2)
  BY <1>0, <1>1, <1>4 DEF HeldOK
<1> QED
  BY <1>0, <1>1, <1>4, <1>5, <1>6, Settled

\* Strings are counted by numbers.
LEMMA StringsInt ==
    ASSUME NEW h, NEW S \in SUBSET Item
    PROVE  StringsOf(h, S) \in Int
<1>1. Cardinality({j \in S : h[j].string # NoString}) \in Int /\ Cardinality({j \in S : h[j].valuestring # NoString}) \in Int
  <2>1. {j \in S : h[j].string # NoString} \in SUBSET Item /\ {j \in S : h[j].valuestring # NoString} \in SUBSET Item
    OBVIOUS
  <2> QED
    BY <2>1, FiniteItems, Sizes
<1> QED
  BY <1>1 DEF StringsOf

\* cJSON_ReplaceItemInObject keeps the invariant, whether the member and the memory for the
\* name are found or not.
LEMMA ReplaceInObjectSound ==
    ASSUME Inv, NEW i \in held, NEW o \in InUse(heap), NEW name \in Strings,
           ReplaceItemInObject(o, name, i)
    PROVE  Inv'
<1> PICK own, idx : Sound(heap, strings, held, p, own, idx)
  BY DEF Inv
<1> DEFINE item == get_object_item(heap, o, name)
<1>0. Edit
  BY DEF ReplaceItemInObject
<1>1. /\ Shape(heap, <<>>, own, idx) /\ Placed(own) /\ heap \in [Item -> Structure]
      /\ \A k \in held : k \in InUse(heap) /\ k \in Item /\ own[k] = NULL
      /\ \A hl, g, o2 : ParseOK(g, hl, p', o2) /\ p'.stack = <<>>
      /\ strings = StringsOf(heap, Item)
  BY <1>0, Quiet
<1>2. o \in Item /\ (item # NULL => item \in Item /\ own[item] = o)
  BY <1>1, ItemFound DEF InUse
<1>3. PICK copy \in {name, NoString} :
        LET named == [heap EXCEPT ![i].string = copy]
            h == ReplaceItemViaPointer(named, o, item, i)
            new == StringsOf(named, InUse(heap)) - StringsOf(heap, InUse(heap))
        IN IF item = NULL
           THEN heap' = named /\ strings' = strings + new /\ held' = held
           ELSE /\ heap' = cJSON_Delete(h, item)
                /\ strings' = strings + new - StringsOf(h, Below(h, item))
                /\ held' = held \ {i}
  BY DEF ReplaceItemInObject
<1> DEFINE named == [heap EXCEPT ![i].string = copy]
           h == ReplaceItemViaPointer(named, o, item, i)
           new == StringsOf(named, InUse(heap)) - StringsOf(heap, InUse(heap))
<1>4. Shape(named, <<>>, own, idx) /\ InUse(named) = InUse(heap)
  <2>1. copy \in Strings \cup {NoString}
    OBVIOUS
  <2> QED
    BY <1>1, <2>1, Renamed
<1> HIDE DEF named, item
<1>5. strings + new = StringsOf(named, Item) /\ strings \in Int /\ new \in Int
  <2>1. StringsOf(heap, InUse(heap)) = StringsOf(heap, Item) /\ StringsOf(heap, Item) \in 0..(2 * Items)
    BY <1>1, StringsCounted DEF Shape
  <2>2. StringsOf(named, InUse(heap)) = StringsOf(named, Item) /\ StringsOf(named, Item) \in 0..(2 * Items)
    BY <1>4, StringsCounted DEF Shape
  <2> QED
    BY <1>1, <2>1, <2>2, Sizes
<1>6. CASE item = NULL
  <2>1. heap' = named /\ strings' = strings + new /\ held' = held
    BY <1>3, <1>6 DEF named
  <2>2. HeldOK(heap', held', own)
    BY <1>1, <1>4, <2>1 DEF HeldOK
  <2> HIDE DEF new
  <2> QED
    BY <1>0, <1>1, <1>4, <1>5, <2>1, <2>2, Settled
<1>7. CASE item # NULL
  <2>1. /\ heap' = cJSON_Delete(h, item) /\ strings' = strings + new - StringsOf(h, Below(h, item))
        /\ held' = held \ {i}
    BY <1>3, <1>7 DEF named
  <2>2. /\ \E own2, idx2 : /\ Shape(heap', <<>>, own2, idx2)
                           /\ \A j \in InUse(heap) : j # i /\ own[j] = NULL =>
                                own2[j] = NULL /\ j \in InUse(heap')
        /\ StringsOf(heap', Item) = StringsOf(named, Item) - StringsOf(h, Below(h, item))
    BY <1>1, <1>2, <1>4, <1>7, <2>1, Substituted
  <2>3. PICK own2, idx2 : /\ Shape(heap', <<>>, own2, idx2)
                          /\ \A j \in InUse(heap) : j # i /\ own[j] = NULL =>
                                own2[j] = NULL /\ j \in InUse(heap')
    BY <2>2
  <2>4. strings' = StringsOf(heap', Item)
    <3> DEFINE gone == StringsOf(h, Below(h, item))
    <3>1. strings' = strings + (new - gone)
      BY <2>1, Zenon
    <3>2. StringsOf(heap', Item) = StringsOf(named, Item) - gone
      BY <2>2, Zenon
    <3>3. gone \in Int
      <4>1. Below(h, item) \in SUBSET Item
        BY DEF Below
      <4> HIDE DEF h
      <4> QED
        BY <4>1, StringsInt
    <3> HIDE DEF new, h, gone
    <3> QED
      BY <1>5, <3>1, <3>2, <3>3
  <2>5. HeldOK(heap', held', own2)
    BY <1>1, <2>1, <2>3 DEF HeldOK
  <2> QED
    BY <1>0, <1>1, <2>3, <2>4, <2>5, Settled
<1> QED
  BY <1>6, <1>7

--------------------------------------------------------------------------------
(* The stack of the parser.                                                 *)

\* The owner that the top frame is.
TopOwner(stack) == Items + Len(stack)

\* What the invariant says of the top frame.
LEMMA TopFrame ==
    ASSUME NEW h \in [Item -> Structure], NEW stack, NEW root, NEW own, FramesOK(h, stack, root, own), stack # <<>>
    PROVE  /\ Head(stack) = stack[1] /\ stack[1] \in Frame /\ Len(stack) \in 1..NestingLimit
           /\ TopOwner(stack) \in Owner \ Item /\ TopOwner(stack) # NULL
           /\ Heads(h, stack)[TopOwner(stack)] = stack[1].head
           /\ stack[1].head = NULL <=> stack[1].cur = NULL
           /\ stack[1].cur # NULL => stack[1].cur \in Item /\ own[stack[1].cur] = TopOwner(stack) /\ h[stack[1].cur].next = NULL
           /\ stack[1].item \in Item /\ h[stack[1].item].child = NULL
<1>1. stack \in Seq(Frame) /\ Len(stack) <= NestingLimit /\ Len(stack) \in Nat /\ Len(stack) # 0
  BY DEF FramesOK
<1>2. 1 \in 1..Len(stack) /\ Len(stack) \in 1..NestingLimit /\ stack[1] \in Frame /\ Head(stack) = stack[1]
  BY <1>1, Sizes
<1>3. TopOwner(stack) \in Owner \ Item /\ TopOwner(stack) # NULL
  BY <1>2, Sizes DEF TopOwner, Owner, Item, NULL
<1>4. Heads(h, stack)[TopOwner(stack)] = stack[1].head
  <2>1. TopOwner(stack) - Items = Len(stack) /\ Len(stack) + 1 - Len(stack) = 1 /\ Len(stack) <= Len(stack)
    BY <1>1, Sizes DEF TopOwner
  <2> QED
    BY <1>3, <2>1 DEF Heads
<1>5. Level(stack, 1) = TopOwner(stack)
  BY <1>1, Sizes DEF Level, TopOwner
<1>6. /\ stack[1].head = NULL <=> stack[1].cur = NULL
      /\ stack[1].cur # NULL => own[stack[1].cur] = Level(stack, 1) /\ h[stack[1].cur].next = NULL
      /\ h[stack[1].item].child = NULL
  BY <1>2 DEF FramesOK
<1>7. stack[1].item \in Item /\ stack[1].cur \in Link
  BY <1>2 DEF Frame
<1> QED
  BY <1>2, <1>3, <1>4, <1>5, <1>6, <1>7 DEF Link

\* A frame without a head adds no list.
LEMMA HeadsPush ==
    ASSUME NEW h, NEW stack \in Seq(Frame), NEW f \in Frame, f.head = NULL
    PROVE  Heads(h, <<f>> \o stack) = Heads(h, stack)
<1> DEFINE st == <<f>> \o stack
           n == Len(stack)
<1>1. n \in Nat /\ Len(st) = n + 1 /\ st[1] = f /\ \A k \in 1..n : st[k + 1] = stack[k]
  OBVIOUS
<1> HIDE DEF st, n
<1>2. ASSUME NEW o \in Owner, o # NULL, o \notin Item
      PROVE  (IF o - Items <= Len(st) THEN st[Len(st) + 1 - (o - Items)].head ELSE NULL)
                = (IF o - Items <= n THEN stack[n + 1 - (o - Items)].head ELSE NULL)
  <2>1. o \in Int /\ o > Items
    BY <1>2, Sizes DEF Owner, NULL, Item
  <2>2. CASE o - Items <= n
    <3>1. n + 1 - (o - Items) \in 1..n /\ Len(st) + 1 - (o - Items) = (n + 1 - (o - Items)) + 1 /\ o - Items <= Len(st)
      BY <1>1, <2>1, <2>2, Sizes
    <3> QED
      BY <1>1, <2>2, <3>1
  <2>3. CASE o - Items = n + 1
    <3>1. Len(st) + 1 - (o - Items) = 1 /\ o - Items <= Len(st) /\ ~(o - Items <= n)
      BY <1>1, <2>1, <2>3, Sizes
    <3> QED
      BY <1>1, <3>1
  <2>4. CASE o - Items > n + 1
    <3>1. ~(o - Items <= Len(st)) /\ ~(o - Items <= n)
      BY <1>1, <2>1, <2>4, Sizes
    <3> QED
      BY <3>1
  <2> QED
    BY <1>1, <2>1, <2>2, <2>3, <2>4, Sizes
<1> QED
  BY <1>2 DEF Heads, st, n

\* The top frame takes its list with it.
LEMMA HeadsPop ==
    ASSUME NEW h, NEW stack \in Seq(Frame), stack # <<>>
    PROVE  Heads(h, Tail(stack)) = [Heads(h, stack) EXCEPT ![TopOwner(stack)] = NULL]
<1> DEFINE st == Tail(stack)
           n == Len(stack)
<1>1. n \in Nat /\ n > 0 /\ Len(st) = n - 1 /\ \A k \in 1..(n - 1) : st[k] = stack[k + 1]
  OBVIOUS
<1> HIDE DEF st, n
<1>2. ASSUME NEW o \in Owner, o # NULL, o \notin Item
      PROVE  (IF o - Items <= Len(st) THEN st[Len(st) + 1 - (o - Items)].head ELSE NULL)
                = (IF o = Items + n THEN NULL ELSE
                   IF o - Items <= n THEN stack[n + 1 - (o - Items)].head ELSE NULL)
  <2>1. o \in Int /\ o > Items
    BY <1>2, Sizes DEF Owner, NULL, Item
  <2>2. CASE o - Items <= n - 1
    <3>1. Len(st) + 1 - (o - Items) \in 1..(n - 1) /\ (Len(st) + 1 - (o - Items)) + 1 = n + 1 - (o - Items)
          /\ o - Items <= Len(st) /\ o # Items + n /\ o - Items <= n
      BY <1>1, <2>1, <2>2, Sizes
    <3> QED
      BY <1>1, <2>2, <3>1
  <2>3. CASE o - Items > n - 1
    <3>1. ~(o - Items <= Len(st)) /\ (o = Items + n \/ ~(o - Items <= n))
      BY <1>1, <2>1, <2>3, Sizes
    <3> QED
      BY <3>1
  <2> QED
    BY <1>1, <2>1, <2>2, <2>3, Sizes
<1>3. Items + n # NULL /\ Items + n \notin Item
  BY <1>1, Sizes DEF NULL, Item
<1> DEFINE H(o) == IF o = NULL THEN NULL ELSE IF o \in Item THEN h[o].child
                   ELSE IF o - Items <= n THEN stack[n + 1 - (o - Items)].head ELSE NULL
<1>4. Heads(h, stack) = [o \in Owner |-> H(o)]
  BY DEF Heads, n
<1>5. Heads(h, st) = [o \in Owner |-> IF o = Items + n THEN NULL ELSE H(o)]
  BY <1>2, <1>3 DEF Heads
<1> HIDE DEF H
<1> QED
  BY <1>4, <1>5 DEF TopOwner, n, st

\* Another top frame changes one head.
LEMMA HeadsTop ==
    ASSUME NEW h, NEW stack \in Seq(Frame), stack # <<>>, NEW st \in Seq(Frame), Len(st) = Len(stack),
           \A k \in 2..Len(stack) : st[k] = stack[k]
    PROVE  Heads(h, st) = [Heads(h, stack) EXCEPT ![TopOwner(stack)] = st[1].head]
<1> DEFINE n == Len(stack)
<1>1. n \in Nat /\ n > 0
  OBVIOUS
<1> HIDE DEF n
<1>2. ASSUME NEW o \in Owner, o # NULL, o \notin Item
      PROVE  (IF o - Items <= n THEN st[n + 1 - (o - Items)].head ELSE NULL)
                = (IF o = Items + n THEN st[1].head ELSE
                   IF o - Items <= n THEN stack[n + 1 - (o - Items)].head ELSE NULL)
  <2>1. o \in Int /\ o > Items
    BY <1>2, Sizes DEF Owner, NULL, Item
  <2>2. CASE o = Items + n
    <3>1. o - Items <= n /\ n + 1 - (o - Items) = 1
      BY <1>1, <2>2, Sizes
    <3> QED
      BY <2>2, <3>1
  <2>3. CASE o # Items + n /\ o - Items <= n
    <3>1. n + 1 - (o - Items) \in 2..n
      BY <1>1, <2>1, <2>3, Sizes
    <3> QED
      BY <2>3, <3>1 DEF n
  <2>4. CASE o # Items + n /\ ~(o - Items <= n)
    BY <2>4
  <2> QED
    BY <2>2, <2>3, <2>4
<1>3. Items + n # NULL /\ Items + n \notin Item
  BY <1>1, Sizes DEF NULL, Item
<1> DEFINE H(o) == IF o = NULL THEN NULL ELSE IF o \in Item THEN h[o].child
                   ELSE IF o - Items <= n THEN stack[n + 1 - (o - Items)].head ELSE NULL
<1>4. Heads(h, stack) = [o \in Owner |-> H(o)]
  BY DEF Heads, n
<1>5. Heads(h, st) = [o \in Owner |-> IF o = Items + n THEN st[1].head ELSE H(o)]
  BY <1>2, <1>3 DEF Heads, n
<1> HIDE DEF H
<1> QED
  BY <1>4, <1>5 DEF TopOwner, n

--------------------------------------------------------------------------------
(* Steps of the parser.                                                     *)

\* What holds while a text is parsed.
LEMMA Underway ==
    ASSUME NEW own, NEW idx, Sound(heap, strings, held, p, own, idx), Active(p)
    PROVE  /\ Shape(heap, p.stack, own, idx) /\ heap \in [Item -> Structure]
           /\ strings = StringsOf(heap, Item) /\ held = {}
           /\ p.root \in Item /\ own[p.root] = NULL /\ heap[p.root].type # "free"
           /\ FramesOK(heap, p.stack, p.root, own) /\ p.stack \in Seq(Frame)
           /\ p = [mode |-> p.mode, text |-> p.text, pos |-> p.pos, root |-> p.root,
                   stack |-> p.stack, oom |-> p.oom]
           /\ own \in [Item -> Owner]
  BY DEF Sound, ParseOK, Shape, FramesOK, Lists, Typed

\* The frames depend on next and child.
LEMMA FramesKept ==
    ASSUME NEW h, NEW stack, NEW root, NEW own, FramesOK(h, stack, root, own),
           NEW h2, \A j \in Item : h2[j].next = h[j].next /\ h2[j].child = h[j].child
    PROVE  FramesOK(h2, stack, root, own)
<1>1. \A k \in 1..Len(stack) : stack[k].item \in Item /\ (stack[k].cur # NULL => stack[k].cur \in Item)
  <2>1. stack \in Seq(Frame)
    BY DEF FramesOK
  <2>2. \A k \in 1..Len(stack) : stack[k] \in Frame
    BY <2>1
  <2> QED
    BY <2>2 DEF Frame, Link
<1> QED
  BY <1>1 DEF FramesOK

\* A parse that fails leaves its items to Unwind.
LEMMA FailSound ==
    ASSUME NEW own, NEW idx, Shape(heap', p.stack, own, idx), strings' = StringsOf(heap', Item),
           FramesOK(heap', p.stack, p.root, own), held' = {},
           p.root \in Item, own[p.root] = NULL, heap'[p.root].type # "free", NEW pos, NEW oom,
           p' = [mode |-> "fail", text |-> p.text, pos |-> pos, root |-> p.root,
                 stack |-> p.stack, oom |-> oom]
    PROVE  Inv'
<1>1. /\ p'.mode = "fail" /\ p'.stack = p.stack /\ p'.root = p.root
      /\ p' = [mode |-> p'.mode, text |-> p'.text, pos |-> p'.pos, root |-> p'.root,
               stack |-> p'.stack, oom |-> p'.oom]
  OBVIOUS
<1>2. ParseOK(heap', held', p', own)
  BY <1>1 DEF ParseOK, Active, Modes
<1>3. Sound(heap', strings', held', p', own, idx)
  BY <1>1, <1>2 DEF Sound, HeldOK
<1> QED
  BY <1>3 DEF Inv

\* Giving up keeps the invariant.
LEMMA GivenUp ==
    ASSUME Inv, Active(p), UNCHANGED <<heap, strings, held>>,
           p' = [p EXCEPT !.mode = "fail"] \/ p' = [p EXCEPT !.mode = "fail", !.oom = TRUE]
    PROVE  Inv'
<1> PICK own, idx : Sound(heap, strings, held, p, own, idx)
  BY DEF Inv
<1>1. /\ Shape(heap, p.stack, own, idx) /\ strings = StringsOf(heap, Item) /\ held = {}
      /\ p.root \in Item /\ own[p.root] = NULL /\ heap[p.root].type # "free"
      /\ FramesOK(heap, p.stack, p.root, own)
      /\ p = [mode |-> p.mode, text |-> p.text, pos |-> p.pos, root |-> p.root,
              stack |-> p.stack, oom |-> p.oom]
  BY Underway
<1>2. \E oom : p' = [mode |-> "fail", text |-> p.text, pos |-> p.pos, root |-> p.root,
                     stack |-> p.stack, oom |-> oom]
  <2>1. CASE p' = [p EXCEPT !.mode = "fail"]
    <3>1. p' = [mode |-> "fail", text |-> p.text, pos |-> p.pos, root |-> p.root,
                     stack |-> p.stack, oom |-> p.oom]
      BY <1>1, <2>1
    <3> QED
      BY <3>1
  <2>2. CASE p' = [p EXCEPT !.mode = "fail", !.oom = TRUE]
    <3>1. p' = [mode |-> "fail", text |-> p.text, pos |-> p.pos, root |-> p.root,
                     stack |-> p.stack, oom |-> TRUE]
      BY <1>1, <2>2
    <3> QED
      BY <3>1
  <2> QED
    BY <2>1, <2>2
<1>3. heap' = heap /\ strings' = strings /\ held' = held
  OBVIOUS
<1> QED
  BY <1>1, <1>2, <1>3, FailSound

\* goto fail keeps the invariant.
LEMMA UnexpectedSound ==
    ASSUME Inv, Unexpected
    PROVE  Inv'
<1>1. Active(p)
  BY DEF Unexpected, Active
<1> QED
  BY <1>1, GivenUp DEF Unexpected

\* The return from parse_value.
LEMMA Returned ==
    ASSUME NEW own, NEW idx, NEW stack, NEW used, Return(stack, used),
           Shape(heap', stack, own, idx), strings' = StringsOf(heap', Item),
           FramesOK(heap', stack, p.root, own), held = {},
           p.root \in Item, own[p.root] = NULL, heap'[p.root].type # "free",
           p = [mode |-> p.mode, text |-> p.text, pos |-> p.pos, root |-> p.root,
                stack |-> p.stack, oom |-> p.oom]
    PROVE  Inv'
<1> DEFINE mode == IF stack = <<>> THEN "parsed" ELSE "after"
<1>1. p' = [mode |-> mode, text |-> p.text, pos |-> p.pos + used, root |-> p.root,
            stack |-> stack, oom |-> p.oom]
  BY DEF Return
<1>2. /\ p'.mode = mode /\ p'.stack = stack /\ p'.root = p.root
      /\ p' = [mode |-> p'.mode, text |-> p'.text, pos |-> p'.pos, root |-> p'.root,
               stack |-> p'.stack, oom |-> p'.oom]
  BY <1>1
<1>3. held' = IF stack = <<>> THEN {p.root} ELSE {}
  BY DEF Return
<1>4. ParseOK(heap', held', p', own)
  BY <1>2, <1>3 DEF ParseOK, Active, Modes
<1>5. HeldOK(heap', held', own)
  BY <1>3 DEF HeldOK, InUse
<1>6. Sound(heap', strings', held', p', own, idx)
  BY <1>2, <1>4, <1>5 DEF Sound
<1> QED
  BY <1>6 DEF Inv

\* What the parser writes into the item it has at hand.
LEMMA Filled ==
    ASSUME NEW h, NEW stack, NEW root, NEW own, NEW idx, Shape(h, stack, own, idx), FramesOK(h, stack, root, own),
           NEW t \in Item, NEW rec \in Structure, rec.type # "free",
           rec.next = h[t].next, rec.prev = h[t].prev, rec.child = h[t].child,
           NEW h2, h2 = [h EXCEPT ![t] = rec]
    PROVE  /\ Shape(h2, stack, own, idx) /\ FramesOK(h2, stack, root, own)
           /\ \A j \in Item : h[j].type # "free" => h2[j].type # "free"
           /\ \A j \in Item \ {t} : h2[j] = h[j]
           /\ h2[t] = rec
<1>1. h \in [Item -> Structure]
  BY DEF Shape
<1>2. h2 \in [Item -> Structure] /\ h2[t] = rec /\ \A j \in Item \ {t} : h2[j] = h[j]
  BY <1>1
<1>3. /\ \A j \in Item : h2[j].next = h[j].next /\ h2[j].prev = h[j].prev /\ h2[j].child = h[j].child
      /\ \A j \in Item : h2[j].type = "free" => h2[j] = h[j]
      /\ \A j \in Item : h[j].type # "free" => h2[j].type # "free"
  BY <1>2
<1>4. Shape(h2, stack, own, idx)
  BY <1>2, <1>3, Relabelled
<1> QED
  BY <1>2, <1>3, <1>4, FramesKept

\* The item to parse into.
LEMMA TargetFound ==
    ASSUME NEW own, NEW idx, Sound(heap, strings, held, p, own, idx), p.mode \in {"value", "name"}
    PROVE  /\ Target \in Item /\ heap[Target].child = NULL /\ heap[Target].valuestring = NoString
           /\ p.mode = "name" => heap[Target].string = NoString /\ p.stack # <<>> /\ Target = Top.cur
  BY DEF Sound, ParseOK, Target, TargetOf, Top

\* A record after a string or a name is written.
LEMMA Written ==
    ASSUME NEW r \in Structure, NEW s \in Strings
    PROVE  /\ LET x == [r EXCEPT !.type = "String", !.valuestring = s] IN
              /\ x \in Structure /\ x.next = r.next /\ x.prev = r.prev /\ x.child = r.child
              /\ x.type = "String" /\ x.type # "free" /\ x.string = r.string /\ x.valuestring = s
           /\ LET x == [r EXCEPT !.type = "String", !.string = s] IN
              /\ x \in Structure /\ x.next = r.next /\ x.prev = r.prev /\ x.child = r.child
              /\ x.type = "String" /\ x.type # "free" /\ x.string = s /\ x.valuestring = r.valuestring
  BY DEF Structure, Types

\* parse_value of a literal keeps the invariant.
LEMMA LiteralSound ==
    ASSUME Inv, ParseLiteral
    PROVE  Inv'
<1> PICK own, idx : Sound(heap, strings, held, p, own, idx)
  BY DEF Inv
<1>0. p.mode = "value" /\ Active(p)
  BY DEF ParseLiteral, Active
<1>1. /\ Shape(heap, p.stack, own, idx) /\ strings = StringsOf(heap, Item) /\ held = {}
      /\ p.root \in Item /\ own[p.root] = NULL /\ heap[p.root].type # "free"
      /\ FramesOK(heap, p.stack, p.root, own) /\ heap \in [Item -> Structure]
      /\ p = [mode |-> p.mode, text |-> p.text, pos |-> p.pos, root |-> p.root,
              stack |-> p.stack, oom |-> p.oom]
  BY <1>0, Underway
<1>2. Target \in Item
  BY <1>0, TargetFound
<1> DEFINE rec == [heap[Target] EXCEPT !.type = "Literal"]
<1>3. heap' = [heap EXCEPT ![Target] = rec] /\ strings' = strings /\ Return(p.stack, 1)
  BY <1>1, <1>2 DEF ParseLiteral
<1>4. /\ rec \in Structure /\ rec.next = heap[Target].next /\ rec.prev = heap[Target].prev
      /\ rec.child = heap[Target].child /\ rec.type = "Literal" /\ rec.type # "free"
      /\ rec.string = heap[Target].string /\ rec.valuestring = heap[Target].valuestring
  BY <1>1, <1>2 DEF Structure, Types
<1> HIDE DEF rec
<1>5. /\ Shape(heap', p.stack, own, idx) /\ FramesOK(heap', p.stack, p.root, own)
      /\ heap'[p.root].type # "free"
      /\ \A j \in Item \ {Target} : heap'[j] = heap[j]
      /\ heap'[Target] = rec
  BY <1>1, <1>2, <1>3, <1>4, Filled
<1>6. strings' = StringsOf(heap', Item)
  <2>1. \A j \in Item : heap'[j].string = heap[j].string /\ heap'[j].valuestring = heap[j].valuestring
    BY <1>4, <1>5
  <2>2. StringsOf(heap', Item) = StringsOf(heap, Item)
    BY <2>1, StringsSame
  <2> QED
    BY <1>1, <1>3, <2>2
<1> QED
  BY <1>1, <1>3, <1>5, <1>6, Returned

\* parse_string keeps the invariant.
LEMMA StringSound ==
    ASSUME Inv, ParseString
    PROVE  Inv'
<1> PICK own, idx : Sound(heap, strings, held, p, own, idx)
  BY DEF Inv
<1>0. p.mode = "value" /\ Active(p) /\ Peek \in Strings
  BY DEF ParseString, Active
<1>1. /\ Shape(heap, p.stack, own, idx) /\ strings = StringsOf(heap, Item) /\ held = {}
      /\ p.root \in Item /\ own[p.root] = NULL /\ heap[p.root].type # "free"
      /\ FramesOK(heap, p.stack, p.root, own) /\ heap \in [Item -> Structure]
      /\ p = [mode |-> p.mode, text |-> p.text, pos |-> p.pos, root |-> p.root,
              stack |-> p.stack, oom |-> p.oom]
  BY <1>0, Underway
<1>2. Target \in Item /\ heap[Target].valuestring = NoString
  BY <1>0, TargetFound
<1>3. Peek # NoString
  BY <1>0, BoundsAssumption DEF NoString
<1>4. CASE OutOfMemory
  BY <1>0, <1>4, GivenUp DEF OutOfMemory
<1> DEFINE rec == [heap[Target] EXCEPT !.type = "String", !.valuestring = Peek]
<1>5. CASE /\ heap' = [heap EXCEPT ![Target].type = "String", ![Target].valuestring = Peek]
           /\ strings' = strings + 1 /\ Return(p.stack, 1)
  <2>1. heap' = [heap EXCEPT ![Target] = rec]
    BY <1>1, <1>2, <1>5
  <2>2. /\ rec \in Structure /\ rec.next = heap[Target].next /\ rec.prev = heap[Target].prev
        /\ rec.child = heap[Target].child /\ rec.type = "String" /\ rec.type # "free"
        /\ rec.string = heap[Target].string /\ rec.valuestring = Peek
    <3>1. heap[Target] \in Structure
      BY <1>1, <1>2
    <3> QED
      BY <1>0, <3>1, Written, ZenonT(60)
  <2> HIDE DEF rec
  <2>3. /\ Shape(heap', p.stack, own, idx) /\ FramesOK(heap', p.stack, p.root, own)
        /\ heap'[p.root].type # "free"
        /\ \A j \in Item \ {Target} : heap'[j] = heap[j]
        /\ heap'[Target] = rec
    BY <1>1, <1>2, <2>1, <2>2, Filled
  <2>4. strings' = StringsOf(heap', Item)
    <3>1. \A j \in Item \ {Target} : heap'[j].string = heap[j].string /\ heap'[j].valuestring = heap[j].valuestring
      BY <2>3
    <3>2. heap'[Target].string = heap[Target].string /\ heap'[Target].valuestring = Peek
      BY <2>2, <2>3
    <3>3. StringsOf(heap', Item) = StringsOf(heap, Item) + 1
      BY <1>2, <1>3, <3>1, <3>2, StringsSet
    <3> QED
      BY <1>1, <1>5, <3>3
  <2> QED
    BY <1>1, <1>5, <2>3, <2>4, Returned
<1> QED
  BY <1>4, <1>5 DEF ParseString

\* The name of a member keeps the invariant, with the colon and without.
LEMMA NameSound ==
    ASSUME Inv, ParseName
    PROVE  Inv'
<1> PICK own, idx : Sound(heap, strings, held, p, own, idx)
  BY DEF Inv
<1>0. p.mode = "name" /\ Active(p) /\ Peek \in Strings
  BY DEF ParseName, Active
<1>1. /\ Shape(heap, p.stack, own, idx) /\ strings = StringsOf(heap, Item) /\ held = {}
      /\ p.root \in Item /\ own[p.root] = NULL /\ heap[p.root].type # "free"
      /\ FramesOK(heap, p.stack, p.root, own) /\ heap \in [Item -> Structure]
      /\ p = [mode |-> p.mode, text |-> p.text, pos |-> p.pos, root |-> p.root,
              stack |-> p.stack, oom |-> p.oom]
  BY <1>0, Underway
<1>2. /\ Target \in Item /\ heap[Target].string = NoString /\ Target = Top.cur
      /\ heap[Target].child = NULL /\ heap[Target].valuestring = NoString /\ p.stack # <<>>
  BY <1>0, TargetFound
<1>3. Peek # NoString
  BY <1>0, BoundsAssumption DEF NoString
<1>4. CASE OutOfMemory
  BY <1>0, <1>4, GivenUp DEF OutOfMemory
<1> DEFINE rec == [heap[Target] EXCEPT !.type = "String", !.string = Peek]
<1>5. CASE /\ heap' = [heap EXCEPT ![Top.cur].type = "String", ![Top.cur].string = Peek]
           /\ strings' = strings + 1
           /\ p' = IF p.pos < Len(p.text) /\ p.text[p.pos + 1] = ":"
                   THEN [p EXCEPT !.mode = "value", !.pos = @ + 2]
                   ELSE [p EXCEPT !.mode = "fail", !.pos = @ + 1]
           /\ UNCHANGED held
  <2>1. heap' = [heap EXCEPT ![Target] = rec]
    BY <1>1, <1>2, <1>5
  <2>2. /\ rec \in Structure /\ rec.next = heap[Target].next /\ rec.prev = heap[Target].prev
        /\ rec.child = heap[Target].child /\ rec.type = "String" /\ rec.type # "free"
        /\ rec.string = Peek /\ rec.valuestring = heap[Target].valuestring
    <3>1. heap[Target] \in Structure
      BY <1>1, <1>2
    <3> QED
      BY <1>0, <3>1, Written, ZenonT(60)
  <2> HIDE DEF rec
  <2>3. /\ Shape(heap', p.stack, own, idx) /\ FramesOK(heap', p.stack, p.root, own)
        /\ heap'[p.root].type # "free"
        /\ \A j \in Item \ {Target} : heap'[j] = heap[j]
        /\ heap'[Target] = rec
    BY <1>1, <1>2, <2>1, <2>2, Filled
  <2>4. strings' = StringsOf(heap', Item)
    <3>1. \A j \in Item \ {Target} : heap'[j].string = heap[j].string /\ heap'[j].valuestring = heap[j].valuestring
      BY <2>3
    <3>2. heap'[Target].string = Peek /\ heap'[Target].valuestring = heap[Target].valuestring
      BY <2>2, <2>3
    <3>3. StringsOf(heap', Item) = StringsOf(heap, Item) + 1
      BY <1>2, <1>3, <3>1, <3>2, StringsSet
    <3> QED
      BY <1>1, <1>5, <3>3
  <2>5. CASE p' = [p EXCEPT !.mode = "value", !.pos = @ + 2]
    <3>1. /\ p'.mode = "value" /\ p'.stack = p.stack /\ p'.root = p.root
          /\ p' = [mode |-> p'.mode, text |-> p'.text, pos |-> p'.pos, root |-> p'.root,
                   stack |-> p'.stack, oom |-> p'.oom]
      <4>1. p' = [mode |-> "value", text |-> p.text, pos |-> p.pos + 2, root |-> p.root,
                   stack |-> p.stack, oom |-> p.oom]
        BY <1>1, <2>5
      <4> QED
        BY <4>1
    <3>2. TargetOf(p') = Target /\ heap'[Target].child = NULL /\ heap'[Target].valuestring = NoString
      BY <1>2, <2>2, <2>3, <3>1 DEF TargetOf, Target, Top
    <3>3. ParseOK(heap', held', p', own)
      BY <1>1, <1>2, <1>5, <2>3, <3>1, <3>2 DEF ParseOK, Active, Modes
    <3>4. Sound(heap', strings', held', p', own, idx)
      BY <1>1, <1>5, <2>3, <2>4, <3>1, <3>3 DEF Sound, HeldOK
    <3> QED
      BY <3>4 DEF Inv
  <2>6. CASE p' = [p EXCEPT !.mode = "fail", !.pos = @ + 1]
    <3>1. p' = [mode |-> "fail", text |-> p.text, pos |-> p.pos + 1, root |-> p.root,
                 stack |-> p.stack, oom |-> p.oom]
      BY <1>1, <2>6
    <3>2. held' = {}
      BY <1>1, <1>5
    <3> QED
      BY <1>1, <2>3, <2>4, <3>1, <3>2, FailSound
  <2> QED
    BY <1>5, <2>5, <2>6
<1> QED
  BY <1>4, <1>5 DEF ParseName

\* The start of cJSON_Parse keeps the invariant.
LEMMA BeginSound ==
    ASSUME Inv, NEW t, ParseBegin(t)
    PROVE  Inv'
<1> PICK own, idx : Sound(heap, strings, held, p, own, idx)
  BY DEF Inv
<1>0. p.mode = "idle" /\ ~Active(p) /\ InUse(heap) = {} /\ strings' = strings /\ held' = held
  BY DEF ParseBegin, Active
<1>1. p.stack = <<>> /\ Shape(heap, <<>>, own, idx) /\ strings = StringsOf(heap, Item) /\ held = {}
  BY <1>0 DEF Sound, ParseOK, HeldOK
<1>2. heap \in [Item -> Structure] /\ Tidy(heap)
  BY <1>1 DEF Shape
<1>3. \A h, root : FramesOK(h, <<>>, root, own)
  BY Sizes DEF FramesOK
<1>4. CASE p' = [NoParse EXCEPT !.mode = "refused", !.text = t, !.oom = TRUE] /\ heap' = heap
  <2>1. p' = [mode |-> "refused", text |-> t, pos |-> 1, root |-> NULL, stack |-> <<>>, oom |-> TRUE]
    BY <1>4 DEF NoParse
  <2>2. ParseOK(heap', held', p', own)
    BY <1>3, <2>1 DEF ParseOK, Active, Modes
  <2>3. p'.stack = <<>> /\ heap' = heap
    <3>1. p'.stack = <<>>
      BY <2>1
    <3> QED
      BY <1>4, <3>1
  <2>4. Sound(heap', strings', held', p', own, idx)
    BY <1>0, <1>1, <2>2, <2>3 DEF Sound, HeldOK
  <2> QED
    BY <2>4 DEF Inv
<1> DEFINE i == Min(Unused)
<1>5. CASE heap' = [heap EXCEPT ![i] = Blank]
           /\ p' = [NoParse EXCEPT !.mode = "value", !.text = t, !.root = i]
  <2>1. i \in Item
    <3>1. Unused = Item /\ Item \in SUBSET Nat /\ Item # {}
      BY <1>0, Sizes DEF Unused, Item
    <3> QED
      BY <3>1, MinIn
  <2> HIDE DEF i
  <2>2. p' = [mode |-> "value", text |-> t, pos |-> 1, root |-> i, stack |-> <<>>, oom |-> FALSE]
    BY <1>5 DEF NoParse
  <2>3. heap[i] = Freed
    BY <1>0, <1>2, <2>1 DEF InUse, Tidy
  <2>4. /\ Blank \in Structure /\ Blank.type # "free" /\ Blank.next = Freed.next /\ Blank.prev = Freed.prev
        /\ Blank.child = Freed.child /\ Blank.child = NULL /\ Blank.string = Freed.string
        /\ Blank.valuestring = Freed.valuestring /\ Blank.valuestring = NoString /\ Freed.type = "free"
    BY DEF Blank, Freed, Structure, Types
  <2>5. /\ Shape(heap', <<>>, own, idx) /\ heap'[i] = Blank
        /\ \A j \in Item \ {i} : heap'[j] = heap[j]
    <3>1. FramesOK(heap, p.stack, i, own) /\ Shape(heap, p.stack, own, idx)
      BY <1>1, <1>3
    <3>2. heap' = [heap EXCEPT ![i] = Blank]
      BY <1>5
    <3>3. Blank.next = heap[i].next /\ Blank.prev = heap[i].prev /\ Blank.child = heap[i].child
      BY <2>3, <2>4
    <3>4. Shape(heap', p.stack, own, idx) /\ heap'[i] = Blank /\ \A j \in Item \ {i} : heap'[j] = heap[j]
      <4>1. Blank \in Structure /\ Blank.type # "free"
        BY <2>4
      <4> DEFINE h2 == heap'
      <4>2. h2 = [heap EXCEPT ![i] = Blank]
        BY <3>2
      <4> HIDE DEF h2
      <4>3. Shape(h2, p.stack, own, idx) /\ h2[i] = Blank /\ \A j \in Item \ {i} : h2[j] = heap[j]
        BY <1>2, <2>1, <3>1, <3>3, <4>1, <4>2, Filled
      <4> QED
        BY <4>3 DEF h2
    <3> QED
      BY <1>1, <3>4
  <2>6. strings' = StringsOf(heap', Item)
    <3>1. \A j \in Item : heap'[j].string = heap[j].string /\ heap'[j].valuestring = heap[j].valuestring
      BY <2>3, <2>4, <2>5
    <3> QED
      BY <1>0, <1>1, <3>1, StringsSame
  <2>7. own[i] = NULL
    BY <1>1, <2>1, <2>3, <2>4 DEF Shape
  <2>8. ParseOK(heap', held', p', own)
    BY <1>0, <1>1, <1>3, <2>1, <2>2, <2>4, <2>5, <2>7 DEF ParseOK, Active, Modes, TargetOf
  <2>9. Sound(heap', strings', held', p', own, idx)
    BY <1>0, <1>1, <2>2, <2>5, <2>6, <2>8 DEF Sound, HeldOK
  <2> QED
    BY <2>9 DEF Inv
<1> QED
  BY <1>4, <1>5 DEF ParseBegin

\* What the invariant says of the frame k.
FrameFits(h, stack, root, own, k) ==
    /\ stack[k].head = NULL <=> stack[k].cur = NULL
    /\ stack[k].cur # NULL => own[stack[k].cur] = Level(stack, k) /\ h[stack[k].cur].next = NULL
    /\ h[stack[k].item].child = NULL
    /\ stack[k].item = IF k = Len(stack) THEN root ELSE stack[k + 1].cur

\* The frames one by one.
LEMMA FrameByFrame ==
    ASSUME NEW h, NEW stack, NEW root, NEW own
    PROVE  FramesOK(h, stack, root, own) <=>
             /\ stack \in Seq(Frame) /\ Len(stack) <= NestingLimit
             /\ \A k \in 1..Len(stack) : FrameFits(h, stack, root, own, k)
  BY DEF FramesOK, FrameFits

\* A frame for the item being parsed fits on the stack.
LEMMA FramesPushed ==
    ASSUME NEW h, NEW stack, NEW root \in Item, NEW own, FramesOK(h, stack, root, own), Len(stack) < NestingLimit,
           NEW f \in Frame, f.head = NULL, f.cur = NULL, h[f.item].child = NULL,
           f.item = IF stack = <<>> THEN root ELSE Head(stack).cur
    PROVE  FramesOK(h, <<f>> \o stack, root, own)
<1> DEFINE st == <<f>> \o stack
           n == Len(stack)
<1>1. stack \in Seq(Frame) /\ \A k \in 1..n : FrameFits(h, stack, root, own, k)
  BY FrameByFrame
<1>2. /\ st \in Seq(Frame) /\ n \in Nat /\ Len(st) = n + 1 /\ st[1] = f /\ \A k \in 1..n : st[k + 1] = stack[k]
      /\ stack = <<>> <=> n = 0
      /\ stack # <<>> => Head(stack) = stack[1]
  BY <1>1
<1> HIDE DEF st
<1>3. FrameFits(h, st, root, own, 1)
  <2>1. f.item = IF 1 = Len(st) THEN root ELSE st[1 + 1].cur
    <3>1. CASE n = 0
      BY <1>2, <3>1
    <3>2. CASE n # 0
      <4>1. 1 \in 1..n /\ 1 # Len(st)
        BY <1>2, <3>2
      <4>2. st[1 + 1] = stack[1] /\ stack # <<>>
        BY <1>2, <3>2, <4>1
      <4> QED
        BY <1>2, <4>1, <4>2
    <3> QED
      BY <3>1, <3>2
  <2> QED
    BY <1>2, <2>1 DEF FrameFits
<1>4. ASSUME NEW k \in 1..n PROVE FrameFits(h, st, root, own, k + 1)
  <2>1. st[k + 1] = stack[k] /\ FrameFits(h, stack, root, own, k) /\ k \in Nat
    BY <1>1, <1>2
  <2>2. Level(st, k + 1) = Level(stack, k)
    BY <1>2, <2>1, Sizes DEF Level
  <2>3. stack[k].item = IF k + 1 = Len(st) THEN root ELSE st[(k + 1) + 1].cur
    <3>1. CASE k = n
      BY <1>2, <2>1, <3>1 DEF FrameFits
    <3>2. CASE k # n
      <4>1. k + 1 \in 1..n /\ k + 1 # Len(st)
        BY <1>2, <2>1, <3>2
      <4>2. st[(k + 1) + 1] = stack[k + 1]
        BY <1>2, <4>1
      <4> QED
        BY <2>1, <3>2, <4>1, <4>2 DEF FrameFits
    <3> QED
      BY <3>1, <3>2
  <2> QED
    BY <2>1, <2>2, <2>3 DEF FrameFits
<1>5. \A k \in 1..Len(st) : FrameFits(h, st, root, own, k)
  <2> SUFFICES ASSUME NEW k \in 1..Len(st) PROVE FrameFits(h, st, root, own, k)
    OBVIOUS
  <2>1. CASE k = 1
    BY <1>3, <2>1
  <2>2. CASE k # 1
    <3>1. k - 1 \in 1..n /\ (k - 1) + 1 = k
      BY <1>2, <2>2
    <3>2. FrameFits(h, st, root, own, (k - 1) + 1)
      BY <1>4, <3>1
    <3> QED
      BY <3>1, <3>2
  <2> QED
    BY <2>1, <2>2
<1>6. Len(st) <= NestingLimit
  BY <1>2, Sizes
<1> QED
  BY <1>2, <1>5, <1>6, FrameByFrame DEF st

\* An opening bracket keeps the invariant.
LEMMA OpenSound ==
    ASSUME Inv, Open
    PROVE  Inv'
<1> PICK own, idx : Sound(heap, strings, held, p, own, idx)
  BY DEF Inv
<1>0. /\ p.mode = "value" /\ Active(p) /\ Len(p.stack) < NestingLimit
      /\ heap' = heap /\ strings' = strings /\ held' = held
  BY DEF Open, Active
<1>1. /\ Shape(heap, p.stack, own, idx) /\ strings = StringsOf(heap, Item) /\ held = {}
      /\ p.root \in Item /\ own[p.root] = NULL /\ heap[p.root].type # "free"
      /\ FramesOK(heap, p.stack, p.root, own) /\ p.stack \in Seq(Frame)
      /\ p = [mode |-> p.mode, text |-> p.text, pos |-> p.pos, root |-> p.root,
              stack |-> p.stack, oom |-> p.oom]
  BY <1>0, Underway
<1>2. Target \in Item /\ heap[Target].child = NULL
  BY <1>0, TargetFound
<1> DEFINE f == [kind |-> IF Peek = "[" THEN "Array" ELSE "Object",
                 item |-> Target, head |-> NULL, cur |-> NULL]
           st == <<f>> \o p.stack
<1>3. p' = [mode |-> "first", text |-> p.text, pos |-> p.pos + 1, root |-> p.root,
            stack |-> st, oom |-> p.oom]
  <2>1. p' = [p EXCEPT !.mode = "first", !.pos = @ + 1, !.stack = st]
    BY DEF Open
  <2> HIDE DEF st
  <2> QED
    BY <1>1, <2>1
<1>4. f \in Frame /\ f.head = NULL /\ f.cur = NULL /\ f.item = Target
  BY <1>2 DEF Frame, Link
<1> HIDE DEF f
<1>5. FramesOK(heap, st, p.root, own)
  BY <1>0, <1>1, <1>2, <1>4, FramesPushed DEF Target, Top
<1>6. Heads(heap, st) = Heads(heap, p.stack)
  BY <1>1, <1>4, HeadsPush
<1>7. st # <<>>
  BY <1>1
<1> HIDE DEF st
<1>8. Shape(heap, st, own, idx)
  BY <1>1, <1>6 DEF Shape
<1>9. /\ p'.mode = "first" /\ p'.stack = st /\ p'.root = p.root
      /\ p' = [mode |-> p'.mode, text |-> p'.text, pos |-> p'.pos, root |-> p'.root,
               stack |-> p'.stack, oom |-> p'.oom]
  BY <1>3
<1>10. ParseOK(heap', held', p', own)
  BY <1>0, <1>1, <1>5, <1>7, <1>9 DEF ParseOK, Active, Modes
<1>11. Sound(heap', strings', held', p', own, idx)
  BY <1>0, <1>1, <1>8, <1>9, <1>10 DEF Sound, HeldOK
<1> QED
  BY <1>11 DEF Inv

\* The frames below the top one.
LEMMA LowerFrames ==
    ASSUME NEW h \in [Item -> Structure], NEW stack, NEW root \in Item, NEW own, FramesOK(h, stack, root, own), own[root] = NULL
    PROVE  \A k \in 2..Len(stack) :
             /\ stack[k] \in Frame /\ stack[k].item # stack[1].item
             /\ stack[k].cur # NULL => /\ stack[k].cur \in Item /\ own[stack[k].cur] # NULL
                                       /\ own[stack[k].cur] # TopOwner(stack)
                                       /\ own[stack[k].cur] \notin Item
<1> SUFFICES ASSUME NEW k \in 2..Len(stack)
             PROVE  /\ stack[k] \in Frame /\ stack[k].item # stack[1].item
                    /\ stack[k].cur # NULL => /\ stack[k].cur \in Item /\ own[stack[k].cur] # NULL
                                              /\ own[stack[k].cur] # TopOwner(stack)
                                              /\ own[stack[k].cur] \notin Item
  OBVIOUS
<1> DEFINE n == Len(stack)
<1>1. stack \in Seq(Frame) /\ \A m \in 1..n : FrameFits(h, stack, root, own, m)
  BY FrameByFrame
<1>2. n \in Nat /\ k \in Nat /\ k >= 2 /\ k <= n /\ \A m \in 1..n : stack[m] \in Frame
  BY <1>1
<1> HIDE DEF n
<1>3. \A m \in 2..n : Level(stack, m) # NULL /\ Level(stack, m) # TopOwner(stack) /\ Level(stack, m) \notin Item
  BY <1>2, Sizes DEF Level, TopOwner, NULL, Item, n
<1>4. \A m, l \in 1..n : m # l => Level(stack, m) # Level(stack, l)
  BY <1>2, Sizes DEF Level, n
<1>5. \A m \in 1..n : stack[m].item \in Item /\ (stack[m].cur # NULL => stack[m].cur \in Item)
  BY <1>2 DEF Frame, Link
<1>6. stack[1].item = stack[2].cur /\ stack[2].cur # NULL /\ own[stack[2].cur] = Level(stack, 2)
  <2>1. 1 \in 1..n /\ 1 # n /\ 2 \in 1..n
    BY <1>2
  <2>2. stack[1].item = stack[1 + 1].cur
    BY <1>1, <2>1 DEF FrameFits, n
  <2> QED
    BY <1>1, <1>5, <2>1, <2>2, Addresses DEF FrameFits
<1>7. stack[k].item # stack[1].item
  <2>1. k \in 1..n /\ 2 \in 2..n /\ k \in 2..n
    BY <1>2
  <2>2. CASE k = n
    <3>1. stack[k].item = root
      BY <1>1, <2>1, <2>2 DEF FrameFits, n
    <3> QED
      BY <1>3, <1>6, <2>1, <3>1
  <2>3. CASE k # n
    <3>1. k + 1 \in 1..n /\ k + 1 # 2 /\ 2 \in 1..n
      BY <1>2, <2>3
    <3>2. stack[k].item = stack[k + 1].cur
      BY <1>1, <2>1, <2>3 DEF FrameFits, n
    <3>3. own[stack[k + 1].cur] = Level(stack, k + 1)
      BY <1>1, <1>5, <2>1, <3>1, <3>2, Addresses DEF FrameFits
    <3> QED
      BY <1>4, <1>6, <3>1, <3>2, <3>3
  <2> QED
    BY <2>2, <2>3
<1>8. k \in 1..n /\ k \in 2..n
  BY <1>2
<1>9. stack[k].cur # NULL => own[stack[k].cur] = Level(stack, k)
  BY <1>1, <1>8 DEF FrameFits
<1> QED
  BY <1>2, <1>3, <1>5, <1>7, <1>8, <1>9

\* A stack without its top frame, where the rest has not been touched.
LEMMA FramesPopped ==
    ASSUME NEW h, NEW stack, NEW root, NEW own, FramesOK(h, stack, root, own), stack # <<>>,
           NEW h2, NEW own2,
           \A k \in 2..Len(stack) : /\ h2[stack[k].item].child = NULL
                                    /\ stack[k].cur # NULL => own2[stack[k].cur] = own[stack[k].cur]
                                                              /\ h2[stack[k].cur].next = h[stack[k].cur].next
    PROVE  FramesOK(h2, Tail(stack), root, own2)
<1> DEFINE st == Tail(stack)
           n == Len(stack)
<1>1. stack \in Seq(Frame) /\ n <= NestingLimit /\ \A m \in 1..n : FrameFits(h, stack, root, own, m)
  BY FrameByFrame
<1>2. /\ st \in Seq(Frame) /\ n \in Nat /\ n > 0 /\ Len(st) = n - 1 /\ \A k \in 1..(n - 1) : st[k] = stack[k + 1]
  BY <1>1
<1> HIDE DEF st
<1>3. ASSUME NEW k \in 1..Len(st) PROVE FrameFits(h2, st, root, own2, k)
  <2>1. k \in 1..(n - 1) /\ k + 1 \in 2..n /\ k + 1 \in 1..n /\ k \in Nat
    BY <1>2
  <2>2. st[k] = stack[k + 1] /\ FrameFits(h, stack, root, own, k + 1)
    BY <1>1, <1>2, <2>1
  <2>3. Level(st, k) = Level(stack, k + 1)
    BY <1>2, <2>1, Sizes DEF Level
  <2>4. st[k].item = IF k = Len(st) THEN root ELSE st[k + 1].cur
    <3>1. CASE k = Len(st)
      <4>1. k + 1 = n
        BY <1>2, <3>1
      <4> QED
        BY <2>2, <3>1, <4>1 DEF FrameFits
    <3>2. CASE k # Len(st)
      <4>1. k + 1 \in 1..(n - 1) /\ k + 1 # n
        BY <1>2, <2>1, <3>2
      <4>2. st[k + 1] = stack[(k + 1) + 1]
        BY <1>2, <4>1
      <4> QED
        BY <2>2, <3>2, <4>1, <4>2 DEF FrameFits
    <3> QED
      BY <3>1, <3>2
  <2>5. /\ h2[st[k].item].child = NULL
        /\ st[k].cur # NULL => own2[st[k].cur] = own[st[k].cur] /\ h2[st[k].cur].next = h[st[k].cur].next
    BY <2>1, <2>2
  <2> QED
    BY <2>2, <2>3, <2>4, <2>5 DEF FrameFits
<1>4. Len(st) <= NestingLimit
  BY <1>1, <1>2, Sizes
<1> QED
  BY <1>2, <1>3, <1>4, FrameByFrame DEF st

\* The top frame with a new last item.
Grown(stack, st, i) ==
    /\ st \in Seq(Frame) /\ Len(st) = Len(stack) /\ \A k \in 2..Len(stack) : st[k] = stack[k]
    /\ st[1].head = IF stack[1].head = NULL THEN i ELSE stack[1].head
    /\ st[1].cur = i /\ st[1].item = stack[1].item /\ st # <<>>

\* The assignments to head and current_item.
LEMMA StackGrown ==
    ASSUME NEW stack \in Seq(Frame), stack # <<>>, NEW i \in Item, NEW x \in Link,
           x = IF stack[1].head = NULL THEN i ELSE stack[1].head
    PROVE  Grown(stack, [stack EXCEPT ![1].head = x, ![1].cur = i], i)
<1> DEFINE f == [stack[1] EXCEPT !.head = x, !.cur = i]
           st == [stack EXCEPT ![1] = f]
<1>1. Len(stack) \in Nat /\ Len(stack) > 0 /\ 1 \in 1..Len(stack) /\ 1 \in DOMAIN stack /\ stack[1] \in Frame
  OBVIOUS
<1>2. f \in Frame /\ f.head = x /\ f.cur = i /\ f.item = stack[1].item
  BY <1>1 DEF Frame, Link
<1>3. [stack EXCEPT ![1].head = x, ![1].cur = i] = st
  BY <1>1
<1> HIDE DEF f
<1>4. st \in Seq(Frame) /\ Len(st) = Len(stack) /\ st[1] = f /\ \A k \in 2..Len(stack) : st[k] = stack[k]
  BY <1>1, <1>2
<1>5. st # <<>>
  BY <1>1, <1>4
<1> HIDE DEF st
<1> QED
  BY <1>2, <1>3, <1>4, <1>5 DEF Grown

\* The heap with a new item at the end of the open list.
NewLinked(h, cur, i) ==
    IF cur = NULL THEN [h EXCEPT ![i] = Blank]
    ELSE [h EXCEPT ![i] = [Blank EXCEPT !.prev = cur], ![cur].next = i]

\* The fields after a new item is linked.
LEMMA NewFields ==
    ASSUME NEW h \in [Item -> Structure], NEW i \in Item, h[i] = Freed, NEW cur \in Link, cur # i
    PROVE  LET h2 == NewLinked(h, cur, i) IN
           /\ h2 \in [Item -> Structure]
           /\ \A j \in Item : /\ h2[j].next = IF j = cur THEN i ELSE h[j].next
                              /\ h2[j].prev = IF j = i THEN cur ELSE h[j].prev
                              /\ h2[j].child = h[j].child
                              /\ h2[j].string = h[j].string /\ h2[j].valuestring = h[j].valuestring
                              /\ h2[j].type = IF j = i THEN "Invalid" ELSE h[j].type
                              /\ j \notin {cur, i} => h2[j] = h[j]
           /\ h2[i].string = NoString /\ h2[i].valuestring = NoString /\ h2[i].child = NULL /\ h2[i].next = NULL
<1> USE Addresses
<1> DEFINE h2 == NewLinked(h, cur, i)
           new == [Blank EXCEPT !.prev = cur]
<1>1. /\ new \in Structure /\ new.type = "Invalid" /\ new.next = NULL /\ new.prev = cur /\ new.child = NULL
      /\ new.string = NoString /\ new.valuestring = NoString
      /\ (cur = NULL => new = Blank)
  BY DEF Blank, Structure, Types, Link
<1>2. h[i].next = NULL /\ h[i].prev = NULL /\ h[i].child = NULL /\ h[i].string = NoString /\ h[i].valuestring = NoString
  BY DEF Freed, Blank
<1> DEFINE g == [h EXCEPT ![i] = new]
<1>3. g \in [Item -> Structure] /\ g[i] = new /\ \A j \in Item \ {i} : g[j] = h[j]
  BY <1>1
<1>4. \A j \in Item \ {i} : g[j] = h[j]
  BY <1>3
<1>5. /\ g[i].next = NULL /\ g[i].prev = cur /\ g[i].child = NULL /\ g[i].string = NoString
      /\ g[i].valuestring = NoString /\ g[i].type = "Invalid"
  <2> HIDE DEF new, g
  <2> QED
    BY <1>1, <1>3
<1>6. /\ h2 \in [Item -> Structure] /\ \A j \in Item \ {cur} : h2[j] = g[j]
      /\ cur # NULL => /\ h2[cur].next = i /\ h2[cur].prev = g[cur].prev /\ h2[cur].child = g[cur].child
                       /\ h2[cur].type = g[cur].type /\ h2[cur].string = g[cur].string
                       /\ h2[cur].valuestring = g[cur].valuestring
  <2>1. CASE cur = NULL
    <3>1. h2 = g
      BY <1>1, <2>1 DEF NewLinked
    <3> HIDE DEF g, h2
    <3> QED
      BY <1>3, <2>1, <3>1
  <2>2. CASE cur # NULL
    <3>0. cur \in Item
      BY <2>2 DEF Link
    <3>1. h2 = [g EXCEPT ![cur].next = i]
      BY <2>2 DEF NewLinked
    <3> HIDE DEF g, new
    <3>2. Sets(g, [g EXCEPT ![cur].next = i], cur, i, g[cur].prev, g[cur].child)
      BY <1>3, <3>0, FieldSet DEF Link
    <3>3. Sets(g, h2, cur, i, g[cur].prev, g[cur].child)
      BY <3>1, <3>2
    <3> HIDE DEF h2
    <3> QED
      BY <3>0, <3>3 DEF Sets, SameData
  <2> QED
    BY <2>1, <2>2
<1> HIDE DEF g, h2, new
<1>7. ASSUME NEW j \in Item
      PROVE /\ h2[j].next = IF j = cur THEN i ELSE h[j].next
            /\ h2[j].prev = IF j = i THEN cur ELSE h[j].prev
            /\ h2[j].child = h[j].child
            /\ h2[j].string = h[j].string /\ h2[j].valuestring = h[j].valuestring
            /\ h2[j].type = IF j = i THEN "Invalid" ELSE h[j].type
            /\ j \notin {cur, i} => h2[j] = h[j]
  <2>1. CASE j = i
    <3>1. h2[j] = g[i]
      BY <1>6, <2>1
    <3> QED
      BY <1>2, <1>5, <2>1, <3>1
  <2>2. CASE j = cur
    <3>1. g[cur] = h[cur] /\ cur # NULL
      BY <1>4, <2>2
    <3> QED
      BY <1>6, <2>2, <3>1
  <2>3. CASE j \notin {cur, i}
    <3>1. h2[j] = h[j]
      BY <1>4, <1>6, <2>3
    <3> QED
      BY <2>3, <3>1
  <2> QED
    BY <2>1, <2>2, <2>3
<1>8. h2[i] = g[i]
  BY <1>6
<1> QED
  BY <1>5, <1>6, <1>7, <1>8 DEF h2

\* A new item goes to the end of the list of the top frame.
LEMMA ElementLinked ==
    ASSUME NEW h, NEW stack, NEW root \in Item, NEW own, NEW idx, Shape(h, stack, own, idx),
           FramesOK(h, stack, root, own), own[root] = NULL, stack # <<>>,
           NEW i \in Item, h[i] = Freed,
           NEW st, Grown(stack, st, i), NEW h2, h2 = NewLinked(h, stack[1].cur, i)
    PROVE  /\ \E idx2 : Shape(h2, st, [own EXCEPT ![i] = TopOwner(stack)], idx2)
           /\ FramesOK(h2, st, root, [own EXCEPT ![i] = TopOwner(stack)])
           /\ StringsOf(h2, Item) = StringsOf(h, Item)
           /\ \A j \in Item : h[j].type # "free" => h2[j].type # "free"
           /\ h2[i].string = NoString /\ h2[i].valuestring = NoString /\ h2[i].child = NULL
<1> USE Addresses
<1> DEFINE o == TopOwner(stack)
           cur == stack[1].cur
           own2 == [own EXCEPT ![i] = o]
           head == Heads(h, stack)
           head2 == Heads(h2, st)
           next == NextOf(h)
           prev == PrevOf(h)
<1>1. /\ h \in [Item -> Structure] /\ Tidy(h) /\ Lists(next, prev, head, own, idx)
      /\ own \in [Item -> Owner] /\ stack \in Seq(Frame)
      /\ \A j \in Item : own[j] # NULL => h[j].type # "free"
  BY DEF Shape, Lists, Typed, FramesOK
<1>2. Freed.type = "free"
  BY DEF Freed, Blank
<1>3. own[i] = NULL /\ h[i].type = "free"
  BY <1>1, <1>2
<1>4. /\ stack[1] \in Frame /\ o \in Owner \ Item /\ o # NULL /\ head[o] = stack[1].head
      /\ stack[1].head = NULL <=> cur = NULL
      /\ cur # NULL => cur \in Item /\ own[cur] = o /\ h[cur].next = NULL
      /\ h[stack[1].item].child = NULL /\ stack[1].item \in Item
      /\ Len(stack) \in 1..NestingLimit
  BY <1>1, TopFrame
<1>5. cur \in Link /\ cur # i
  BY <1>3, <1>4 DEF Link
<1>6. /\ h2 \in [Item -> Structure]
      /\ \A j \in Item : /\ h2[j].next = IF j = cur THEN i ELSE h[j].next
                         /\ h2[j].prev = IF j = i THEN cur ELSE h[j].prev
                         /\ h2[j].child = h[j].child
                         /\ h2[j].string = h[j].string /\ h2[j].valuestring = h[j].valuestring
                         /\ h2[j].type = IF j = i THEN "Invalid" ELSE h[j].type
                         /\ j \notin {cur, i} => h2[j] = h[j]
      /\ h2[i].string = NoString /\ h2[i].valuestring = NoString /\ h2[i].child = NULL /\ h2[i].next = NULL
  BY <1>1, <1>5, NewFields
<1>7. Tidy(h2)
  BY <1>1, <1>3, <1>4, <1>6 DEF Tidy
<1>8. \A j \in Item : own2[j] # NULL => h2[j].type # "free"
  BY <1>1, <1>6
<1>9. head2 = [head EXCEPT ![o] = st[1].head]
  <2>1. Heads(h2, st) = [Heads(h2, stack) EXCEPT ![TopOwner(stack)] = st[1].head]
    BY <1>1, HeadsTop DEF Grown
  <2>2. Heads(h2, stack) = Heads(h, stack)
    BY <1>1, <1>6, HeadsKept
  <2> QED
    BY <2>1, <2>2
<1>10. /\ NextOf(h2) \in [Item -> Link] /\ PrevOf(h2) \in [Item -> Link]
       /\ next \in [Item -> Link] /\ prev \in [Item -> Link]
       /\ \A j \in Item : NextOf(h2)[j] = IF j = cur THEN i ELSE next[j]
       /\ \A j \in Item : PrevOf(h2)[j] = IF j = i THEN cur ELSE prev[j]
  <2>1. /\ \A j \in Item : h2[j].next = NextOf(h2)[j] /\ h2[j].prev = PrevOf(h2)[j]
        /\ \A j \in Item : h[j].next = next[j] /\ h[j].prev = prev[j]
        /\ NextOf(h2) \in [Item -> Link] /\ PrevOf(h2) \in [Item -> Link]
        /\ next \in [Item -> Link] /\ prev \in [Item -> Link]
    BY <1>1, <1>6, Fields
  <2> QED
    BY <1>6, <2>1
<1>11. \E idx2 : Lists(NextOf(h2), PrevOf(h2), head2, own2, idx2)
  <2>1. CASE cur = NULL
    <3>1. head[o] = NULL /\ st[1].head = i
      BY <1>4, <2>1 DEF Grown
    <3>2. NextOf(h2) = next
      <4> HIDE DEF next
      <4> QED
        BY <1>10, <2>1
    <3>3. PutsFirst(prev, PrevOf(h2), o, i)
      <4>1. prev[i] = NULL
        BY <1>1, <1>3 DEF Lists, Loose
      <4> HIDE DEF prev
      <4> QED
        BY <1>4, <1>10, <2>1, <4>1 DEF PutsFirst
    <3> HIDE DEF next, prev, head, o
    <3>4. Lists(next, PrevOf(h2), [head EXCEPT ![o] = i], own2, [idx EXCEPT ![i] = 1])
      BY <1>1, <1>3, <1>4, <3>1, <3>3, FirstPlaced
    <3> HIDE DEF head2, own2
    <3> QED
      BY <1>9, <3>1, <3>2, <3>4
  <2>2. CASE cur # NULL
    <3>1. cur \in Item /\ own[cur] = o /\ next[cur] = NULL /\ head[o] = st[1].head
      BY <1>1, <1>4, <2>2, Fields DEF Grown
    <3>2. AppendsTo(next, prev, head, NextOf(h2), PrevOf(h2), o, cur, i)
      <4> HIDE DEF next, prev, head, o
      <4> QED
        BY <1>4, <1>10 DEF AppendsTo
    <3>3. head2 = head
      <4>1. head \in [Owner -> Link]
        BY <1>1 DEF Lists, Typed
      <4> HIDE DEF head2, head, o
      <4> QED
        BY <1>9, <3>1, <4>1
    <3> HIDE DEF next, prev, head, o, cur
    <3>4. Lists(NextOf(h2), PrevOf(h2), head, own2, [idx EXCEPT ![i] = idx[cur] + 1])
      BY <1>1, <1>3, <1>4, <3>1, <3>2, Appended
    <3> HIDE DEF own2
    <3> QED
      BY <3>3, <3>4
  <2> QED
    BY <2>1, <2>2
<1>12. FramesOK(h2, st, root, own2)
  <2> DEFINE n == Len(stack)
  <2>1. n <= NestingLimit /\ \A k \in 1..n : FrameFits(h, stack, root, own, k)
    BY FrameByFrame
  <2>2. \A k \in 2..n : /\ stack[k] \in Frame
                        /\ stack[k].cur # NULL => stack[k].cur \in Item /\ own[stack[k].cur] # NULL
                                                  /\ own[stack[k].cur] # o
    BY <1>1, LowerFrames
  <2>3. /\ st \in Seq(Frame) /\ Len(st) = n /\ \A k \in 2..n : st[k] = stack[k]
        /\ st[1].head = IF stack[1].head = NULL THEN i ELSE stack[1].head
        /\ st[1].cur = i /\ st[1].item = stack[1].item
    BY DEF Grown
  <2>4. n \in Nat /\ n >= 1
    BY <1>4
  <2> HIDE DEF n
  <2>5. \A k \in 1..n : Level(st, k) = Level(stack, k) /\ (k # n => st[k + 1] = stack[k + 1])
    <3>1. \A k \in 1..n : k # n => k + 1 \in 2..n
      BY <2>4
    <3> QED
      BY <2>3, <3>1 DEF Level, n
  <2>6. FrameFits(h2, st, root, own2, 1)
    <3>1. 1 \in 1..n
      BY <2>4
    <3>2. Level(st, 1) = o /\ own2[i] = o
      BY <1>1, <2>3, <2>4, Sizes DEF Level, TopOwner, n
    <3>3. st[1].head # NULL /\ st[1].cur # NULL /\ h2[st[1].cur].next = NULL
      BY <1>6, <2>3
    <3>4. h2[st[1].item].child = NULL
      BY <1>4, <1>6, <2>3
    <3>5. st[1].item = IF 1 = n THEN root ELSE st[1 + 1].cur
      BY <2>1, <2>3, <2>5, <3>1 DEF FrameFits, n
    <3> QED
      BY <2>3, <3>2, <3>3, <3>4, <3>5 DEF FrameFits
  <2>7. ASSUME NEW k \in 2..n PROVE FrameFits(h2, st, root, own2, k)
    <3>1. k \in 1..n /\ st[k] = stack[k] /\ FrameFits(h, stack, root, own, k)
      BY <2>1, <2>3, <2>4
    <3>2. stack[k].cur # NULL => own2[stack[k].cur] = own[stack[k].cur] /\ h2[stack[k].cur].next = h[stack[k].cur].next
      <4>1. stack[k].cur # NULL => stack[k].cur \in Item /\ stack[k].cur # i /\ stack[k].cur # cur
        BY <1>3, <1>4, <2>2
      <4> QED
        BY <1>1, <1>6, <4>1
    <3>3. h2[stack[k].item].child = NULL
      <4>1. stack[k].item \in Item
        BY <2>2 DEF Frame
      <4> QED
        BY <1>6, <3>1, <4>1 DEF FrameFits
    <3>4. st[k].item = IF k = n THEN root ELSE st[k + 1].cur
      BY <2>5, <3>1 DEF FrameFits, n
    <3> HIDE DEF own2
    <3> QED
      BY <2>3, <2>5, <3>1, <3>2, <3>3, <3>4 DEF FrameFits
  <2>8. \A k \in 1..n : FrameFits(h2, st, root, own2, k)
    <3> HIDE DEF own2
    <3>1. \A k \in 1..n : k = 1 \/ k \in 2..n
      BY <2>4
    <3> QED
      BY <2>6, <2>7, <3>1
  <2> QED
    BY <2>1, <2>3, <2>8, FrameByFrame DEF n
<1>13. StringsOf(h2, Item) = StringsOf(h, Item)
  BY <1>6, StringsSame
<1> HIDE DEF own2, head2
<1>14. \E idx2 : Shape(h2, st, own2, idx2)
  BY <1>6, <1>7, <1>8, <1>11 DEF Shape, head2
<1> QED
  BY <1>6, <1>12, <1>13, <1>14 DEF own2

\* A turn of the loops of parse_array and parse_object keeps the invariant.
LEMMA ElementSound ==
    ASSUME Inv, NewElement
    PROVE  Inv'
<1> PICK own, idx : Sound(heap, strings, held, p, own, idx)
  BY DEF Inv
<1>0. p.mode \in {"first", "after"} /\ Active(p)
  BY DEF NewElement, Active
<1>1. /\ Shape(heap, p.stack, own, idx) /\ strings = StringsOf(heap, Item) /\ held = {}
      /\ p.root \in Item /\ own[p.root] = NULL /\ heap[p.root].type # "free"
      /\ FramesOK(heap, p.stack, p.root, own) /\ p.stack \in Seq(Frame)
      /\ p = [mode |-> p.mode, text |-> p.text, pos |-> p.pos, root |-> p.root,
              stack |-> p.stack, oom |-> p.oom]
      /\ heap \in [Item -> Structure] /\ own \in [Item -> Owner]
  BY <1>0, Underway
<1>2. p.stack # <<>>
  BY <1>0 DEF Sound, ParseOK
<1>3. /\ Top = p.stack[1] /\ p.stack[1] \in Frame
      /\ p.stack[1].head = NULL <=> p.stack[1].cur = NULL
  BY <1>1, <1>2, TopFrame DEF Top
<1>4. CASE OutOfMemory
  BY <1>0, <1>4, GivenUp DEF OutOfMemory
<1> DEFINE i == Min(Unused)
           x == IF p.stack[1].head = NULL THEN i ELSE p.stack[1].head
           st == [p.stack EXCEPT ![1].head = x, ![1].cur = i]
           mode == IF Top.kind = "Array" THEN "value" ELSE "name"
           pos == LoopOffset + 1
           own2 == [own EXCEPT ![i] = TopOwner(p.stack)]
<1>5. CASE /\ Unused # {}
           /\ heap' = IF Top.head = NULL THEN [heap EXCEPT ![i] = Blank]
                      ELSE [heap EXCEPT ![i] = [Blank EXCEPT !.prev = Top.cur],
                                        ![Top.cur].next = i]
           /\ p' = [p EXCEPT !.mode = IF Top.kind = "Array" THEN "value" ELSE "name",
                             !.pos = LoopOffset + 1,
                             !.stack[1].head = IF @ = NULL THEN i ELSE @,
                             !.stack[1].cur = i]
           /\ UNCHANGED <<strings, held>>
  <2>1. i \in Item /\ i \notin InUse(heap)
    <3>1. Unused \in SUBSET Nat /\ Unused # {}
      BY <1>5 DEF Unused, Item
    <3> QED
      BY <3>1, MinIn DEF Unused
  <2>2. heap[i] = Freed
    BY <1>1, <2>1 DEF InUse, Shape, Tidy
  <2>3. heap' = NewLinked(heap, p.stack[1].cur, i)
    BY <1>3, <1>5, Zenon DEF NewLinked
  <2>4. p' = [mode |-> mode, text |-> p.text, pos |-> pos, root |-> p.root, stack |-> st, oom |-> p.oom]
    <3>1. 1 \in DOMAIN p.stack /\ p.stack[1] \in Frame
      BY <1>1, <1>2
    <3> HIDE DEF i
    <3> QED
      BY <1>1, <1>5, <3>1
  <2> HIDE DEF i
  <2>5. Grown(p.stack, st, i)
    <3>1. x \in Link
      BY <1>3, <2>1 DEF Frame, Link
    <3> HIDE DEF x
    <3>2. x = IF p.stack[1].head = NULL THEN i ELSE p.stack[1].head
      BY DEF x
    <3> QED
      BY <1>1, <1>2, <2>1, <3>1, <3>2, StackGrown
  <2> HIDE DEF st, mode, pos
  <2>6. /\ \E idx2 : Shape(heap', st, own2, idx2)
        /\ FramesOK(heap', st, p.root, own2)
        /\ StringsOf(heap', Item) = StringsOf(heap, Item)
        /\ heap'[p.root].type # "free"
        /\ heap'[i].string = NoString /\ heap'[i].valuestring = NoString /\ heap'[i].child = NULL
    <3> DEFINE h2 == heap'
               stack == p.stack
               root == p.root
    <3>1. /\ Shape(heap, stack, own, idx) /\ FramesOK(heap, stack, root, own) /\ stack # <<>>
          /\ root \in Item /\ own[root] = NULL /\ heap[root].type # "free"
          /\ Grown(stack, st, i) /\ h2 = NewLinked(heap, stack[1].cur, i)
      BY <1>1, <1>2, <2>3, <2>5
    <3> HIDE DEF h2, stack, root
    <3>2. /\ \E idx2 : Shape(h2, st, [own EXCEPT ![i] = TopOwner(stack)], idx2)
          /\ FramesOK(h2, st, root, [own EXCEPT ![i] = TopOwner(stack)])
          /\ StringsOf(h2, Item) = StringsOf(heap, Item)
          /\ \A j \in Item : heap[j].type # "free" => h2[j].type # "free"
          /\ h2[i].string = NoString /\ h2[i].valuestring = NoString /\ h2[i].child = NULL
      BY <2>1, <2>2, <3>1, ElementLinked, SMTT(60)
    <3> QED
      BY <3>1, <3>2 DEF h2, stack, root
  <2>7. p.root # i
    BY <1>1, <2>1 DEF InUse
  <2>8. own2[p.root] = NULL
    BY <1>1, <2>7
  <2> HIDE DEF own2
  <2>9. PICK idx2 : Shape(heap', st, own2, idx2)
    BY <2>6
  <2>10. /\ p'.mode = mode /\ p'.stack = st /\ p'.root = p.root
         /\ p' = [mode |-> p'.mode, text |-> p'.text, pos |-> p'.pos, root |-> p'.root,
                  stack |-> p'.stack, oom |-> p'.oom]
    BY <2>4
  <2>11. mode \in {"value", "name"}
    BY DEF mode
  <2>12. st # <<>> /\ TargetOf(p') = i
    <3>1. st # <<>> /\ st \in Seq(Frame) /\ st[1].cur = i
      BY <2>5 DEF Grown
    <3>2. Head(st) = st[1]
      BY <3>1
    <3> QED
      BY <2>10, <3>1, <3>2 DEF TargetOf
  <2>13. held' = {} /\ strings' = strings
    BY <1>1, <1>5
  <2>14. ParseOK(heap', held', p', own2)
    BY <1>1, <2>1, <2>6, <2>8, <2>10, <2>11, <2>12, <2>13 DEF ParseOK, Active, Modes
  <2>15. Sound(heap', strings', held', p', own2, idx2)
    BY <1>1, <2>6, <2>9, <2>10, <2>13, <2>14 DEF Sound, HeldOK
  <2> QED
    BY <2>15 DEF Inv
<1> QED
  BY <1>4, <1>5 DEF NewElement

\* What Close leaves in the heap: the list of the top frame is tied and handed to its item.
HandedOver(h, f) ==
    LET tied == IF f.head = NULL THEN h ELSE [h EXCEPT ![f.head].prev = f.cur]
    IN [tied EXCEPT ![f.item].type = f.kind, ![f.item].child = f.head]

\* The fields after Close.
LEMMA HandedFields ==
    ASSUME NEW h \in [Item -> Structure], NEW f \in Frame, f.head = NULL <=> f.cur = NULL
    PROVE  LET h2 == HandedOver(h, f) IN
           /\ h2 \in [Item -> Structure]
           /\ \A j \in Item : /\ h2[j].next = h[j].next
                              /\ h2[j].prev = IF j = f.head THEN f.cur ELSE h[j].prev
                              /\ h2[j].child = IF j = f.item THEN f.head ELSE h[j].child
                              /\ h2[j].string = h[j].string /\ h2[j].valuestring = h[j].valuestring
                              /\ h2[j].type = IF j = f.item THEN f.kind ELSE h[j].type
                              /\ j \notin {f.head, f.item} => h2[j] = h[j]
<1> USE Addresses
<1> DEFINE h2 == HandedOver(h, f)
           tied == IF f.head = NULL THEN h ELSE [h EXCEPT ![f.head].prev = f.cur]
<1>1. f.item \in Item /\ f.head \in Link /\ f.cur \in Link /\ f.kind \in {"Array", "Object"}
  BY DEF Frame
<1>2. /\ tied \in [Item -> Structure]
      /\ \A j \in Item : /\ tied[j].next = h[j].next
                         /\ tied[j].prev = IF j = f.head THEN f.cur ELSE h[j].prev
                         /\ tied[j].child = h[j].child /\ tied[j].type = h[j].type
                         /\ tied[j].string = h[j].string /\ tied[j].valuestring = h[j].valuestring
                         /\ j # f.head => tied[j] = h[j]
  <2>1. CASE f.head = NULL
    <3>1. tied = h
      BY <2>1
    <3> HIDE DEF tied
    <3> QED
      BY <2>1, <3>1
  <2>2. CASE f.head # NULL
    <3>1. f.head \in Item
      BY <1>1, <2>2 DEF Link
    <3>2. Sets(h, [h EXCEPT ![f.head].prev = f.cur], f.head, h[f.head].next, f.cur, h[f.head].child)
      BY <1>1, <3>1, FieldSet
    <3>3. tied = [h EXCEPT ![f.head].prev = f.cur]
      BY <2>2
    <3>4. Sets(h, tied, f.head, h[f.head].next, f.cur, h[f.head].child)
      BY <3>2, <3>3
    <3> HIDE DEF tied
    <3> QED
      BY <3>1, <3>4 DEF Sets, SameData
  <2> QED
    BY <2>1, <2>2
<1>3. h2 = [tied EXCEPT ![f.item].type = f.kind, ![f.item].child = f.head]
  BY DEF HandedOver
<1> HIDE DEF tied, h2
<1> DEFINE rec == [tied[f.item] EXCEPT !.type = f.kind, !.child = f.head]
<1>4. h2 = [tied EXCEPT ![f.item] = rec]
  BY <1>1, <1>2, <1>3
<1>5. /\ rec \in Structure /\ rec.type = f.kind /\ rec.child = f.head /\ rec.next = tied[f.item].next
      /\ rec.prev = tied[f.item].prev /\ rec.string = tied[f.item].string
      /\ rec.valuestring = tied[f.item].valuestring
  <2>1. tied[f.item] \in Structure
    BY <1>1, <1>2
  <2> QED
    BY <1>1, <2>1 DEF Structure, Types, Link
<1> HIDE DEF rec
<1>6. h2 \in [Item -> Structure] /\ h2[f.item] = rec /\ \A j \in Item \ {f.item} : h2[j] = tied[j]
  BY <1>1, <1>2, <1>4, <1>5
<1>7. ASSUME NEW j \in Item
      PROVE  /\ h2[j].next = h[j].next
             /\ h2[j].prev = IF j = f.head THEN f.cur ELSE h[j].prev
             /\ h2[j].child = IF j = f.item THEN f.head ELSE h[j].child
             /\ h2[j].string = h[j].string /\ h2[j].valuestring = h[j].valuestring
             /\ h2[j].type = IF j = f.item THEN f.kind ELSE h[j].type
             /\ j \notin {f.head, f.item} => h2[j] = h[j]
  <2>1. CASE j = f.item
    BY <1>2, <1>5, <1>6, <2>1
  <2>2. CASE j # f.item
    <3>1. h2[j] = tied[j]
      BY <1>6, <2>2
    <3> QED
      BY <1>2, <2>2, <3>1
  <2> QED
    BY <2>1, <2>2
<1> QED
  BY <1>6, <1>7 DEF h2

\* The list of the top frame becomes the list of its item.
LEMMA ListHandedOver ==
    ASSUME NEW h, NEW stack, NEW root \in Item, NEW own, NEW idx, Shape(h, stack, own, idx),
           FramesOK(h, stack, root, own), own[root] = NULL, stack # <<>>,
           NEW h2, h2 = HandedOver(h, stack[1])
    PROVE  /\ \E own2 : /\ Shape(h2, Tail(stack), own2, idx) /\ FramesOK(h2, Tail(stack), root, own2)
                        /\ own2[root] = NULL
           /\ StringsOf(h2, Item) = StringsOf(h, Item)
           /\ \A j \in Item : h[j].type # "free" => h2[j].type # "free"
<1> USE Addresses
<1> DEFINE o == TopOwner(stack)
           f == stack[1]
           own2 == [j \in Item |-> IF own[j] = o THEN f.item ELSE own[j]]
           head == Heads(h, stack)
           head2 == Heads(h2, Tail(stack))
           next == NextOf(h)
           prev == PrevOf(h)
<1>1. /\ h \in [Item -> Structure] /\ Tidy(h) /\ Lists(next, prev, head, own, idx)
      /\ own \in [Item -> Owner] /\ stack \in Seq(Frame)
      /\ \A j \in Item : own[j] # NULL => h[j].type # "free"
  BY DEF Shape, Lists, Typed, FramesOK
<1>2. /\ f \in Frame /\ o \in Owner \ Item /\ o # NULL /\ head[o] = f.head
      /\ f.head = NULL <=> f.cur = NULL
      /\ f.cur # NULL => f.cur \in Item /\ own[f.cur] = o /\ h[f.cur].next = NULL
      /\ h[f.item].child = NULL /\ f.item \in Item
  BY <1>1, TopFrame
<1>3. f.kind # "free" /\ f.head \in Link
  BY <1>2 DEF Frame
<1>4. /\ h2 \in [Item -> Structure]
      /\ \A j \in Item : /\ h2[j].next = h[j].next
                         /\ h2[j].prev = IF j = f.head THEN f.cur ELSE h[j].prev
                         /\ h2[j].child = IF j = f.item THEN f.head ELSE h[j].child
                         /\ h2[j].string = h[j].string /\ h2[j].valuestring = h[j].valuestring
                         /\ h2[j].type = IF j = f.item THEN f.kind ELSE h[j].type
                         /\ j \notin {f.head, f.item} => h2[j] = h[j]
  BY <1>1, <1>2, HandedFields
<1>5. f.head # NULL => f.head \in Item /\ own[f.head] = o
  <2>1. head[o] # NULL => own[head[o]] = o
    BY <1>1, <1>2 DEF Lists, HeadsFit
  <2> QED
    BY <1>2, <1>3, <2>1 DEF Link
<1>6. \A j \in Item : h[j].type # "free" => h2[j].type # "free"
  BY <1>3, <1>4
<1>7. Tidy(h2)
  <2> SUFFICES ASSUME NEW j \in Item, h2[j].type = "free" PROVE h2[j] = Freed
    BY DEF Tidy
  <2>1. j # f.item /\ h[j].type = "free"
    BY <1>3, <1>4
  <2>2. j # f.head
    BY <1>1, <1>2, <1>5, <2>1
  <2> QED
    BY <1>1, <1>4, <2>1, <2>2 DEF Tidy
<1>8. \A j \in Item : own2[j] # NULL => h2[j].type # "free"
  BY <1>1, <1>2, <1>6
<1>9. head \in [Owner -> Link]
  BY <1>1 DEF Lists, Typed
<1>10. head2 = [head EXCEPT ![f.item] = f.head, ![o] = NULL]
  <2>1. Heads(h2, Tail(stack)) = [Heads(h2, stack) EXCEPT ![TopOwner(stack)] = NULL]
    BY <1>1, HeadsPop
  <2>2. Heads(h2, stack) = [Heads(h, stack) EXCEPT ![f.item] = h2[f.item].child]
    BY <1>1, <1>2, <1>4, Headed, SMTT(60)
  <2>3. h2[f.item].child = f.head
    BY <1>2, <1>4
  <2> QED
    BY <2>1, <2>2, <2>3
<1>11. NextOf(h2) = next
  BY <1>4 DEF NextOf
<1>12. \A j \in Item : h[j].next = next[j] /\ h[j].prev = prev[j] /\ h2[j].prev = PrevOf(h2)[j]
  BY <1>1, <1>4, Fields
<1>13. PrevOf(h2) \in [Item -> Link] /\ prev \in [Item -> Link]
  BY <1>1, <1>4, Fields
<1>14. Lists(NextOf(h2), PrevOf(h2), head2, own2, idx)
  <2>1. CASE f.head = NULL
    <3>1. head2 = head
      <4>1. head[f.item] = NULL
        BY <1>1, <1>2, HeadOf
      <4> HIDE DEF head, head2, o, f
      <4> QED
        BY <1>2, <1>9, <1>10, <2>1, <4>1
    <3>2. PrevOf(h2) = prev
      <4>1. \A j \in Item : PrevOf(h2)[j] = prev[j]
        BY <1>4, <1>12, <2>1
      <4> HIDE DEF prev
      <4> QED
        BY <1>13, <4>1
    <3>3. own2 = own
      <4>1. \A j \in Item : own[j] # o
        BY <1>1, <1>2, <2>1 DEF Lists, Forward
      <4> QED
        BY <1>1, <4>1
    <3> HIDE DEF head, head2, own2
    <3> QED
      BY <1>1, <1>11, <3>1, <3>2, <3>3
  <2>2. CASE f.head # NULL
    <3>1. Ties(prev, PrevOf(h2), head[o], f.cur)
      <4>1. \A j \in Item : PrevOf(h2)[j] = IF j = f.head THEN f.cur ELSE prev[j]
        BY <1>4, <1>12
      <4> HIDE DEF prev, head, o, f
      <4> QED
        BY <1>2, <1>13, <4>1 DEF Ties
    <3>2. f.cur \in Item /\ own[f.cur] = o /\ next[f.cur] = NULL /\ head[f.item] = NULL
      BY <1>1, <1>2, <1>12, <2>2, HeadOf
    <3> DEFINE a == f.item
               last == f.cur
    <3>a. /\ a \in Item /\ last \in Item /\ own[last] = o /\ next[last] = NULL /\ head[a] = NULL
          /\ head[o] # NULL /\ o \in Owner \ Item /\ Ties(prev, PrevOf(h2), head[o], last)
      BY <1>2, <2>2, <3>1, <3>2
    <3> HIDE DEF prev, next, head, head2, o, f, a, last
    <3>b. Lists(next, PrevOf(h2), [head EXCEPT ![a] = head[o], ![o] = NULL],
                [j \in Item |-> IF own[j] = o THEN a ELSE own[j]], idx)
      <4>1. Lists(next, prev, head, own, idx)
        BY <1>1
      <4>2. o \in Owner /\ o \notin Item
        BY <3>a
      <4> QED
        BY <3>a, <4>1, <4>2, Closed
    <3>3. Lists(next, PrevOf(h2), [head EXCEPT ![f.item] = head[o], ![o] = NULL], own2, idx)
      BY <3>b DEF a
    <3> HIDE DEF own2
    <3> QED
      BY <1>2, <1>10, <1>11, <3>3
  <2> QED
    BY <2>1, <2>2
<1>15. Shape(h2, Tail(stack), own2, idx)
  <2> HIDE DEF own2
  <2> QED
    BY <1>4, <1>7, <1>8, <1>14 DEF Shape
<1>16. FramesOK(h2, Tail(stack), root, own2)
  <2>1. ASSUME NEW k \in 2..Len(stack)
        PROVE  /\ h2[stack[k].item].child = NULL
               /\ stack[k].cur # NULL => own2[stack[k].cur] = own[stack[k].cur]
                                         /\ h2[stack[k].cur].next = h[stack[k].cur].next
    <3>1. /\ stack[k] \in Frame /\ stack[k].item # f.item
          /\ stack[k].cur # NULL => stack[k].cur \in Item /\ own[stack[k].cur] # o
      BY <1>1, LowerFrames
    <3>2. stack[k].item \in Item
      BY <3>1 DEF Frame
    <3>3. h[stack[k].item].child = NULL
      <4>1. k \in 1..Len(stack)
        BY <1>1
      <4> QED
        BY <4>1, FrameByFrame DEF FrameFits
    <3> QED
      BY <1>4, <3>1, <3>2, <3>3
  <2> HIDE DEF own2
  <2> QED
    BY <2>1, FramesPopped
<1>17. own2[root] = NULL
  BY <1>2
<1>18. StringsOf(h2, Item) = StringsOf(h, Item)
  BY <1>4, StringsSame
<1> HIDE DEF own2
<1> QED
  BY <1>6, <1>15, <1>16, <1>17, <1>18

\* A closing bracket keeps the invariant.
LEMMA CloseSound ==
    ASSUME Inv, Close
    PROVE  Inv'
<1> PICK own, idx : Sound(heap, strings, held, p, own, idx)
  BY DEF Inv
<1>0. p.mode \in {"first", "after"} /\ Active(p) /\ strings' = strings
  BY DEF Close, Active
<1>1. /\ Shape(heap, p.stack, own, idx) /\ strings = StringsOf(heap, Item) /\ held = {}
      /\ p.root \in Item /\ own[p.root] = NULL /\ heap[p.root].type # "free"
      /\ FramesOK(heap, p.stack, p.root, own) /\ heap \in [Item -> Structure]
      /\ p = [mode |-> p.mode, text |-> p.text, pos |-> p.pos, root |-> p.root,
              stack |-> p.stack, oom |-> p.oom]
  BY <1>0, Underway
<1>2. p.stack # <<>>
  BY <1>0 DEF Sound, ParseOK
<1>3. Top = p.stack[1]
  BY <1>1, <1>2, TopFrame DEF Top
<1>4. heap' = HandedOver(heap, p.stack[1]) /\ Return(Tail(p.stack), 1)
  BY <1>3, Zenon DEF Close, HandedOver
<1> DEFINE h2 == heap'
           stack == p.stack
           root == p.root
<1>5. /\ Shape(heap, stack, own, idx) /\ FramesOK(heap, stack, root, own) /\ stack # <<>>
      /\ root \in Item /\ own[root] = NULL /\ heap[root].type # "free"
      /\ h2 = HandedOver(heap, stack[1])
  BY <1>1, <1>2, <1>4
<1> HIDE DEF h2, stack, root
<1>6. /\ \E own2 : /\ Shape(h2, Tail(stack), own2, idx) /\ FramesOK(h2, Tail(stack), root, own2)
                   /\ own2[root] = NULL
      /\ StringsOf(h2, Item) = StringsOf(heap, Item)
      /\ \A j \in Item : heap[j].type # "free" => h2[j].type # "free"
  BY <1>5, ListHandedOver
<1>7. PICK own2 : /\ Shape(h2, Tail(stack), own2, idx) /\ FramesOK(h2, Tail(stack), root, own2)
                  /\ own2[root] = NULL
  BY <1>6
<1> USE DEF h2, stack, root
<1>8. strings' = StringsOf(heap', Item) /\ heap'[p.root].type # "free"
  BY <1>0, <1>1, <1>6
<1> QED
  BY <1>1, <1>4, <1>7, <1>8, Returned

\* A level of the unwinding keeps the invariant: it frees the list of its frame and nothing
\* else.
LEMMA UnwindSound ==
    ASSUME Inv, Unwind
    PROVE  Inv'
<1> PICK own, idx : Sound(heap, strings, held, p, own, idx)
  BY DEF Inv
<1>0. p.mode = "fail" /\ Active(p) /\ held' = held
  BY DEF Unwind, Active
<1>1. /\ Shape(heap, p.stack, own, idx) /\ strings = StringsOf(heap, Item) /\ held = {}
      /\ p.root \in Item /\ own[p.root] = NULL /\ heap[p.root].type # "free"
      /\ FramesOK(heap, p.stack, p.root, own) /\ heap \in [Item -> Structure]
      /\ p.stack \in Seq(Frame)
      /\ p = [mode |-> p.mode, text |-> p.text, pos |-> p.pos, root |-> p.root,
              stack |-> p.stack, oom |-> p.oom]
  BY <1>0, Underway
<1>2. CASE p.stack = <<>>
  <2>1. /\ heap' = cJSON_Delete(heap, p.root)
        /\ strings' = strings - StringsOf(heap, Below(heap, p.root))
        /\ p' = [p EXCEPT !.mode = "refused", !.root = NULL]
    BY <1>2 DEF Unwind
  <2>2. Shape(heap, <<>>, own, idx)
    BY <1>1, <1>2
  <2>3. PICK own2 : Shape(heap', <<>>, own2, idx)
    BY <1>1, <2>1, <2>2, RootDeleted
  <2>4. strings' = StringsOf(heap', Item)
    BY <1>1, <2>1, <2>2, RootDeleted
  <2>5. p' = [mode |-> "refused", text |-> p.text, pos |-> p.pos, root |-> NULL,
              stack |-> <<>>, oom |-> p.oom]
    BY <1>1, <1>2, <2>1
  <2>6. /\ p'.mode = "refused" /\ p'.stack = <<>>
        /\ p' = [mode |-> p'.mode, text |-> p'.text, pos |-> p'.pos, root |-> p'.root,
                 stack |-> p'.stack, oom |-> p'.oom]
    BY <2>5
  <2>7. FramesOK(heap', <<>>, p'.root, own2)
    BY Sizes DEF FramesOK
  <2>8. ParseOK(heap', held', p', own2)
    BY <2>6, <2>7 DEF ParseOK, Active, Modes
  <2>9. Sound(heap', strings', held', p', own2, idx)
    BY <1>0, <1>1, <2>3, <2>4, <2>6, <2>8 DEF Sound, HeldOK
  <2> QED
    BY <2>9 DEF Inv
<1>3. CASE p.stack # <<>>
  <2> DEFINE stack == p.stack
             i == stack[1].head
             o == TopOwner(stack)
             h2 == cJSON_Delete(heap, i)
             S == Below(heap, i)
             own2 == [j \in Item |-> IF j \in S THEN NULL ELSE own[j]]
  <2>1. /\ Head(stack) = stack[1] /\ stack[1] \in Frame
        /\ o \in Owner \ Item /\ o # NULL /\ Heads(heap, stack)[o] = i
    BY <1>1, <1>3, TopFrame
  <2>2. /\ heap' = h2 /\ strings' = strings - StringsOf(heap, S)
        /\ p' = [p EXCEPT !.stack = Tail(@)]
    BY <1>3, <2>1 DEF Unwind, Top
  <2>3. i \in Link
    BY <2>1 DEF Frame
  <2>4. i # NULL => i \in Item /\ own[i] = o
    <3>1. Heads(heap, stack)[o] # NULL => own[Heads(heap, stack)[o]] = o
      BY <1>1, <2>1 DEF Shape, Lists, HeadsFit
    <3> QED
      BY <2>1, <2>3, <3>1 DEF Link
  <2>5. Detachable(Heads(heap, stack), own, i)
    BY <2>1, <2>4 DEF Detachable
  <2>6. S \in SUBSET Item
    BY <1>1, <2>3, BelowLeast
  <2>7. \A x \in Owner : x \notin Item =>
           Heads(h2, Tail(stack))[x] = IF x \in Gone(heap, own, i) THEN NULL ELSE Heads(heap, stack)[x]
    <3>1. Heads(h2, Tail(stack)) = [Heads(h2, stack) EXCEPT ![o] = NULL]
      BY <1>1, <1>3, HeadsPop
    <3>2. \A x \in Owner : x \notin Item => Heads(h2, stack)[x] = Heads(heap, stack)[x]
      BY DEF Heads
    <3>3. \A x \in Owner : x \notin Item => (x \in Gone(heap, own, i) <=> i # NULL /\ x = o)
      BY <2>1, <2>4, <2>6, Addresses DEF Gone
    <3>4. DOMAIN Heads(h2, stack) = Owner
      BY DEF Heads
    <3> HIDE DEF h2, o, i
    <3> QED
      BY <2>1, <3>1, <3>2, <3>3, <3>4
  <2>8. /\ Shape(h2, Tail(stack), own2, idx)
        /\ StringsOf(h2, Item) = StringsOf(heap, Item) - StringsOf(heap, S)
        /\ \A j \in S : own[j] # NULL => own[j] \in Gone(heap, own, i)
        /\ \A j \in S : own[j] = NULL => j = i
        /\ \A j \in Item : h2[j] = IF j \in S THEN Freed ELSE heap[j]
    <3> DEFINE st == Tail(stack)
    <3>1. /\ Shape(heap, stack, own, idx) /\ Detachable(Heads(heap, stack), own, i)
          /\ \A x \in Owner : x \notin Item =>
                Heads(cJSON_Delete(heap, i), st)[x]
                   = IF x \in Gone(heap, own, i) THEN NULL ELSE Heads(heap, stack)[x]
      BY <1>1, <2>5, <2>7
    <3> HIDE DEF stack, i, st
    <3>2. /\ Shape(cJSON_Delete(heap, i), st, [j \in Item |-> IF j \in Below(heap, i) THEN NULL ELSE own[j]], idx)
          /\ StringsOf(cJSON_Delete(heap, i), Item) = StringsOf(heap, Item) - StringsOf(heap, Below(heap, i))
          /\ \A j \in Below(heap, i) : own[j] # NULL => own[j] \in Gone(heap, own, i)
          /\ \A j \in Below(heap, i) : own[j] = NULL => j = i
          /\ \A j \in Item : cJSON_Delete(heap, i)[j] = IF j \in Below(heap, i) THEN Freed ELSE heap[j]
      BY <2>3, <3>1, Deleted
    <3> QED
      BY <3>2 DEF st
  <2>9. \A x \in Gone(heap, own, i) : x \in Item \/ x = o
    BY <2>4, <2>6 DEF Gone
  <2>10. p.root \notin S
    BY <1>1, <2>1, <2>4, <2>8, Addresses
  <2> HIDE DEF h2, S
  <2>11. h2[p.root].type # "free" /\ own2[p.root] = NULL
    BY <1>1, <2>8, <2>10
  <2>12. FramesOK(h2, Tail(stack), p.root, own2)
    <3>1. ASSUME NEW k \in 2..Len(stack)
          PROVE  /\ h2[stack[k].item].child = NULL
                 /\ stack[k].cur # NULL => own2[stack[k].cur] = own[stack[k].cur]
                                           /\ h2[stack[k].cur].next = heap[stack[k].cur].next
      <4>1. /\ stack[k] \in Frame
            /\ stack[k].cur # NULL => /\ stack[k].cur \in Item /\ own[stack[k].cur] # NULL
                                      /\ own[stack[k].cur] # o /\ own[stack[k].cur] \notin Item
        BY <1>1, LowerFrames
      <4>2. stack[k].item \in Item
        BY <4>1 DEF Frame
      <4>3. heap[stack[k].item].child = NULL
        <5>1. k \in 1..Len(stack)
          BY <1>1
        <5> QED
          BY <1>1, <5>1, FrameByFrame DEF FrameFits
      <4>4. Freed.child = NULL
        BY DEF Freed, Blank
      <4>5. stack[k].cur # NULL => stack[k].cur \notin S
        BY <2>8, <2>9, <4>1
      <4> QED
        BY <2>8, <4>1, <4>2, <4>3, <4>4, <4>5
    <3> HIDE DEF own2
    <3> QED
      BY <1>1, <1>3, <3>1, FramesPopped
  <2> HIDE DEF own2
  <2>13. p' = [mode |-> "fail", text |-> p.text, pos |-> p.pos, root |-> p.root,
               stack |-> Tail(stack), oom |-> p.oom]
    BY <1>0, <1>1, <2>2
  <2>14. /\ p'.mode = "fail" /\ p'.stack = Tail(stack) /\ p'.root = p.root
         /\ p' = [mode |-> p'.mode, text |-> p'.text, pos |-> p'.pos, root |-> p'.root,
                  stack |-> p'.stack, oom |-> p'.oom]
    BY <2>13
  <2>15. strings' = StringsOf(heap', Item)
    BY <1>1, <2>2, <2>8
  <2>16. ParseOK(heap', held', p', own2)
    BY <1>0, <1>1, <2>2, <2>11, <2>12, <2>14 DEF ParseOK, Active, Modes
  <2>17. Sound(heap', strings', held', p', own2, idx)
    BY <1>0, <1>1, <2>2, <2>8, <2>14, <2>15, <2>16 DEF Sound, HeldOK
  <2> QED
    BY <2>17 DEF Inv
<1> QED
  BY <1>2, <1>3

--------------------------------------------------------------------------------
(* The theorem.                                                             *)

\* The invariant holds at the start.
LEMMA InvInit ==
    ASSUME Init
    PROVE  Inv
<1> USE Addresses
<1> DEFINE own == [j \in Item |-> NULL]
           idx == [j \in Item |-> 1]
<1>1. heap = [i \in Item |-> Freed] /\ strings = 0 /\ held = {} /\ p = NoParse
  BY DEF Init
<1>2. Freed \in Structure /\ Freed.next = NULL /\ Freed.prev = NULL /\ Freed.child = NULL
      /\ Freed.string = NoString /\ Freed.valuestring = NoString
  BY DEF Freed, Blank, Structure, Types
<1>3. /\ heap \in [Item -> Structure]
      /\ \A j \in Item : heap[j] = Freed /\ heap[j].next = NULL /\ heap[j].prev = NULL /\ heap[j].child = NULL
  BY <1>1, <1>2
<1>4. Tidy(heap)
  BY <1>3 DEF Tidy
<1>5. Heads(heap, <<>>) = [o \in Owner |-> NULL]
  <2>1. \A o \in Owner : o # NULL /\ o \notin Item => o \in Int /\ ~(o - Items <= 0)
    BY Sizes DEF Owner, Item, NULL
  <2> QED
    BY <1>3, <2>1 DEF Heads
<1>6. Lists(NextOf(heap), PrevOf(heap), Heads(heap, <<>>), own, idx)
  <2>1. NextOf(heap) = [j \in Item |-> NULL] /\ PrevOf(heap) = [j \in Item |-> NULL]
    BY <1>3 DEF NextOf, PrevOf
  <2> QED
    BY <1>5, <2>1 DEF Lists, Typed, HeadsFit, Loose, Unique, Link
<1>7. StringsOf(heap, Item) = 0
  <2>1. {j \in Item : heap[j].string # NoString} = {} /\ {j \in Item : heap[j].valuestring # NoString} = {}
    BY <1>2, <1>3
  <2>2. Cardinality({}) = 0
    BY FS_EmptySet
  <2> QED
    BY <2>1, <2>2 DEF StringsOf
<1>8. Shape(heap, <<>>, own, idx)
  BY <1>3, <1>4, <1>6 DEF Shape
<1>9. ParseOK(heap, held, p, own) /\ p.stack = <<>>
  BY <1>1, Idle
<1>10. Sound(heap, strings, held, p, own, idx)
  BY <1>1, <1>7, <1>8, <1>9 DEF Sound, HeldOK
<1> QED
  BY <1>10 DEF Inv

\* The calls that take a held item keep the invariant.
LEMMA InvAdd ==
    ASSUME Inv, NEW i \in held, NEW a \in Containers \ Below(heap, i), Add(a, i)
    PROVE  Inv'
<1>1. PICK own, idx : Sound(heap, strings, held, p, own, idx)
  BY DEF Inv
<1>2. i \in Item /\ heap \in [Item -> Structure]
  BY <1>1 DEF Sound, HeldOK, InUse, Shape
<1>3. i \in Below(heap, i)
  BY <1>2, BelowLeast, Addresses DEF ClosedSet, Link
<1>4. a \in InUse(heap) /\ a # i
  BY <1>3 DEF Containers
<1>5. CASE AddItemToArray(a, i)
  BY <1>4, <1>5, AddToArraySound
<1>6. ASSUME NEW k \in 0..(Items - 1), InsertItemInArray(a, k, i) PROVE Inv'
  <2>1. k \in Nat
    BY Sizes
  <2> QED
    BY <1>4, <1>6, <2>1, InsertSound
<1>7. ASSUME NEW k \in 0..(Items - 1), ReplaceItemInArray(a, k, i) PROVE Inv'
  <2>1. k \in Nat
    BY Sizes
  <2> QED
    BY <1>4, <1>7, <2>1, ReplaceInArraySound
<1>8. ASSUME NEW name \in Strings, AddItemToObject(a, name, i) PROVE Inv'
  BY <1>4, <1>8, AddToObjectSound
<1>9. ASSUME NEW name \in Strings, ReplaceItemInObject(a, name, i) PROVE Inv'
  BY <1>4, <1>9, ReplaceInObjectSound
<1> QED
  BY <1>5, <1>6, <1>7, <1>8, <1>9 DEF Add

\* Every step keeps the invariant.
LEMMA InvStep ==
    ASSUME Inv, [Next]_vars
    PROVE  Inv'
<1>1. ASSUME NEW t \in Texts, ParseBegin(t) PROVE Inv'
  BY <1>1, BeginSound
<1>2. CASE ParseLiteral \/ ParseString \/ Open \/ NewElement
  BY <1>2, LiteralSound, StringSound, OpenSound, ElementSound
<1>3. CASE ParseName \/ Close \/ Unexpected \/ Unwind
  BY <1>3, NameSound, CloseSound, UnexpectedSound, UnwindSound
<1>4. ASSUME NEW type \in {"Object", "String"}, Create(type) PROVE Inv'
  BY <1>4, CreateSound
<1>5. ASSUME NEW i \in held, NEW a \in Containers \ Below(heap, i), Add(a, i) PROVE Inv'
  BY <1>5, InvAdd
<1>6. ASSUME NEW a \in Containers, NEW k \in 0..(Items - 1), Detach(a, get_array_item(heap, a, k)) PROVE Inv'
  <2>1. k \in Nat /\ a \in Item
    BY Sizes DEF Containers, InUse
  <2> DEFINE item == get_array_item(heap, a, k)
  <2>2. \A own, idx : Shape(heap, <<>>, own, idx) /\ item # NULL => item \in Item /\ own[item] = a
    BY <2>1, ItemFound
  <2>3. Detach(a, item)
    BY <1>6
  <2> HIDE DEF item
  <2> QED
    BY <2>2, <2>3, DetachSound
<1>7. ASSUME NEW a \in Containers, NEW name \in Strings, Detach(a, get_object_item(heap, a, name)) PROVE Inv'
  <2>1. a \in Item
    BY DEF Containers, InUse
  <2> DEFINE item == get_object_item(heap, a, name)
  <2>2. \A own, idx : Shape(heap, <<>>, own, idx) /\ item # NULL => item \in Item /\ own[item] = a
    BY <2>1, ItemFound
  <2>3. Detach(a, item)
    BY <1>7
  <2> HIDE DEF item
  <2> QED
    BY <2>2, <2>3, DetachSound
<1>8. ASSUME NEW i \in held, Delete(i) PROVE Inv'
  BY <1>8, DeleteSound
<1>9. CASE UNCHANGED vars
  BY <1>9 DEF Inv, vars
<1> QED
  BY <1>1, <1>2, <1>3, <1>4, <1>5, <1>6, <1>7, <1>8, <1>9 DEF Next, Parse

\* The invariant implies MemorySound.
LEMMA InvSound ==
    ASSUME Inv
    PROVE  MemorySound
<1>1. PICK own, idx : Sound(heap, strings, held, p, own, idx)
  BY DEF Inv
<1>2. /\ Shape(heap, p.stack, own, idx) /\ strings = StringsOf(heap, Item)
      /\ HeldOK(heap, held, own) /\ ParseOK(heap, held, p, own)
  BY <1>1 DEF Sound
<1>3. /\ heap \in [Item -> Structure] /\ Tidy(heap)
      /\ Lists(NextOf(heap), PrevOf(heap), Heads(heap, p.stack), own, idx)
      /\ \A j \in Item : own[j] # NULL => heap[j].type # "free"
  BY <1>2 DEF Shape
<1>4. StringsOf(heap, InUse(heap)) = StringsOf(heap, Item) /\ StringsOf(heap, Item) \in 0..(2 * Items)
  BY <1>3, StringsCounted
<1>5. TypeOK
  <2>1. p.mode \in Modes /\ Len(p.stack) <= NestingLimit
    BY <1>2 DEF ParseOK, FramesOK
  <2>2. held \subseteq InUse(heap)
    BY <1>2 DEF HeldOK
  <2>3. heap \in [Item -> [type : Types, valuestring : Strings \cup {NoString},
                           string : Strings \cup {NoString}, next : Item \cup {NULL},
                           prev : Item \cup {NULL}, child : Item \cup {NULL}]]
    BY <1>3 DEF Structure
  <2>4. strings \in 0..(2 * Items)
    BY <1>2, <1>4
  <2> QED
    BY <2>1, <2>2, <2>3, <2>4 DEF TypeOK
<1>6. WellLinked
  <2>1. ASSUME NEW a \in InUse(heap), NEW n \in DOMAIN ListOf(heap, a)
        PROVE  LET l == ListOf(heap, a) IN
               l[n] \in InUse(heap) /\ heap[l[n]].prev = IF n = 1 THEN l[Len(l)] ELSE l[n - 1]
    <3>1. a \in Item /\ a # NULL
      BY Addresses DEF InUse
    <3>2. heap[a].child = Heads(heap, p.stack)[a]
      BY <1>3, <3>1, HeadOf
    <3> DEFINE l == ListOf(heap, a)
    <3>3. l[n] \in Item /\ own[l[n]] = a /\ heap[l[n]].prev = IF n = 1 THEN l[Len(l)] ELSE l[n - 1]
      BY <1>3, <3>1, <3>2, ListWalk
    <3> HIDE DEF l
    <3>4. l[n] \in InUse(heap)
      BY <1>3, <3>1, <3>3 DEF InUse
    <3> QED
      BY <3>3, <3>4 DEF l
  <2>2. \A i \in held : heap[i].next = NULL /\ heap[i].prev = NULL
    <3> SUFFICES ASSUME NEW i \in held PROVE heap[i].next = NULL /\ heap[i].prev = NULL
      OBVIOUS
    <3>1. i \in Item /\ own[i] = NULL
      BY <1>2 DEF HeldOK, InUse
    <3> QED
      BY <1>3, <3>1, Fields DEF Lists, Loose
  <2> QED
    BY <2>1, <2>2 DEF WellLinked
<1> QED
  BY <1>2, <1>4, <1>5, <1>6 DEF MemorySound

\* For a heap of any size, any nesting limit and any texts: at every step of a parse and after
\* every sequence of calls, whichever allocation fails, the lists are linked as the next call
\* expects them, nothing that the program holds has been freed, and no string is lost or freed
\* twice.
THEOREM MemoryIsSound == Spec => []MemorySound
<1>1. Init => Inv
  BY InvInit
<1>2. Inv /\ [Next]_vars => Inv'
  BY InvStep
<1>3. Inv => MemorySound
  BY InvSound
<1> QED
  BY <1>1, <1>2, <1>3, PTL DEF Spec

================================================================================
