---------------------------- MODULE CollectionsProofs --------------------------
(***************************************************************************)
(* What Collections promises of lists, iterators and references, for any   *)
(* sets of collections and items and any nesting of calls.                 *)
(***************************************************************************)
EXTENDS CollectionsRefinement, SequenceTheorems, FiniteSetTheorems,
        WellFoundedInduction, TLAPS

CollType == [order : Seq(Items), size : Nat, ref : Nat, destroyed : BOOLEAN,
             called : BOOLEAN, void : BOOLEAN, freed : BOOLEAN]
ItemType == [ref : Nat, destroyed : BOOLEAN, called : BOOLEAN, cbRef : Nat,
             cbDestroyed : BOOLEAN, cbCalled : BOOLEAN, freed : BOOLEAN]
LinkType == [ref : Nat, destroyed : BOOLEAN]
FrameType == [op : Ops, c : Colls \cup {None}, i : Items \cup {None},
              next : Items \cup {None}, pc : {"call", "next", "stop"}]
(* What a call of each kind has in its frame.                              *)
FrameShape(f) ==
    /\ f.op \in {"hold", "dtor"} =>
           f.c = None /\ f.i \in Items /\ f.next = None /\ f.pc = "call"
    /\ f.op = "lock" => f.c \in Colls /\ f.i \in Items /\ f.next = None /\ f.pc = "call"
    /\ f.op = "iterate" => f.c \in Colls /\ f.i = None
    /\ f.op = "match" => f.c \in Colls /\ (f.i \in Items <=> f.pc = "call")
    /\ f.op \in {"empty", "destroy"} => f.c \in Colls /\ f.i = None /\ f.pc = "next"
    /\ f.op = "unref" => f.c \in Colls /\ f.i = None /\ f.next = None /\ f.pc = "next"
Frames == {f \in FrameType : FrameShape(f)}
States == [coll : [Colls -> CollType], item : [Items -> ItemType],
           link : [Colls -> [Items -> LinkType]], stack : Seq(Frames)]

Live(s, c) == {i \in Linked(s, c) : ~s.link[c][i].destroyed}

Typed(s) == s \in States /\ \A c \in Colls : IsInjective(s.coll[c].order)
NextOK(s) == \A n \in DOMAIN s.stack : LET f == s.stack[n] IN
    f.next # None => f.next \in Linked(s, f.c)
LinksOK(s) == \A c \in Colls, i \in Items :
    /\ i \notin Linked(s, c) => s.link[c][i] = NewLink
    /\ i \in Linked(s, c) /\ s.link[c][i].destroyed => s.link[c][i].ref > 0
Sizes(s) == \A c \in Colls : s.coll[c].size = Cardinality(Live(s, c))

(* How many references the frame f has to a collection, to an item, to the *)
(* collectible in it and to an instance of it.                             *)
One(b) == IF b THEN 1 ELSE 0
Using(f) == f.op \in {"iterate", "match", "empty", "unref"}
Holding(f) == f.op = "hold" \/ LocksIt(f)
CollRefs(f, c) == One(f.c = c /\ Using(f)) + One(f.c = c /\ LocksIt(f))
ItemRefs(f, i) == One(f.i = i /\ Holding(f))
CbRefs(f, i) == One(f.i = i /\ LocksIt(f))
LinkRefs(f, c, i) == One(f.c = c /\ f.i = i /\ LocksIt(f))
(* How many the calls in progress have.                                    *)
CbLockers(s, i) == {n \in DOMAIN s.stack : s.stack[n].i = i /\ LocksIt(s.stack[n])}
LinkLockers(s, c, i) == {n \in DOMAIN s.stack : LET f == s.stack[n] IN
                            f.c = c /\ f.i = i /\ LocksIt(f)}
CollCount(s, c) == Cardinality(Users(s, c)) + Cardinality(Lockers(s, c))
ItemCount(s, i) == Cardinality(Holders(s, i))
CbCount(s, i) == Cardinality(CbLockers(s, i))
LinkCount(s, c, i) == Cardinality(LinkLockers(s, c, i))

(* The references are those of the calls in progress, and what a call that *)
(* was taken off the stack has still to give back to the collection C and  *)
(* the item I: kc, ki, kb and kl.  A collection that is destroyed while a  *)
(* callback runs keeps the references of the callback.                     *)
AtLeast(a, b) == a >= b /\ (~DestroyBusy => a = b)
Owed(x, y, k) == IF x = y THEN k ELSE 0
Refs(s, C, I, kc, ki, kb, kl) ==
    /\ \A c \in Colls : AtLeast(s.coll[c].ref, CollCount(s, c) + Owed(c, C, kc))
    /\ \A i \in Items : AtLeast(s.item[i].ref, ItemCount(s, i) + Owed(i, I, ki))
    /\ \A i \in Items : AtLeast(s.item[i].cbRef, CbCount(s, i) + Owed(i, I, kb))
    /\ \A c \in Colls, i \in Items :
           AtLeast(s.link[c][i].ref, LinkCount(s, c, i) + Owed(<<c, i>>, <<C, I>>, kl))
Even(s) == Refs(s, None, None, 0, 0, 0, 0)

(* The life of an item and of a collection, and what the calls in progress *)
(* may count on.  I and C are those that an operation is half way through. *)
ItemLife(s, i) ==
    /\ s.item[i].freed => s.item[i].called
    /\ s.item[i].called /\ ~s.item[i].freed =>
           \E n \in DOMAIN s.stack : s.stack[n].op = "dtor" /\ s.stack[n].i = i
    /\ s.item[i].destroyed /\ ~s.item[i].called => s.item[i].ref > 0
    /\ s.item[i].cbCalled => s.item[i].destroyed \/ s.item[i].called
    /\ ~DestroyBusy /\ s.item[i].called => s.item[i].cbCalled
    /\ ~DestroyBusy /\ s.item[i].cbCalled => \A c \in Colls : i \notin Linked(s, c)
CollLife(s, c) ==
    /\ s.coll[c].freed => s.coll[c].called
    /\ s.coll[c].called => s.coll[c].void
    /\ s.coll[c].called /\ ~s.coll[c].freed =>
           \E n \in DOMAIN s.stack : s.stack[n].op = "destroy" /\ s.stack[n].c = c
    /\ ~DestroyBusy => ~s.coll[c].destroyed
ItemCall(s, f) ==
    /\ f.op = "dtor" => s.item[f.i].called
    /\ f.i # None => ~s.item[f.i].freed
    /\ LocksIt(f) => ~s.item[f.i].called
CollCall(s, f) ==
    /\ f.op = "destroy" => s.coll[f.c].called
    /\ f.c # None => ~s.coll[f.c].freed
    /\ LocksIt(f) => ~s.coll[f.c].called
    /\ f.op = "match" => ~s.coll[f.c].void
(* A destructor begins when no call below it has to do with its object.    *)
Apart(f, g) == /\ g.op = "dtor" => g.i # f.i
               /\ g.op = "destroy" => g.c # f.c
Calls(s) ==
    /\ \A n \in 1 .. Len(s.stack) : ItemCall(s, s.stack[n]) /\ CollCall(s, s.stack[n])
    /\ \A n, m \in 1 .. Len(s.stack) : n < m => Apart(s.stack[n], s.stack[m])
Alive(s, I, C) == /\ \A i \in Items \ I : ItemLife(s, i)
                  /\ \A c \in Colls \ C : CollLife(s, c)
                  /\ Calls(s)
Swept(s) == \A n \in 1 .. Len(s.stack) : LET f == s.stack[n] IN
    f.op = "destroy" => Members(s, f.c) \subseteq ToVisit(s, f.c, f.next)
Emptied(s) == \A c \in Colls : s.coll[c].freed /\ ~DestroyBusy =>
    \A i \in Linked(s, c) : s.item[i].destroyed \/ s.item[i].cbDestroyed
Nested(s) == \A n \in 1 .. Len(s.stack) : Running(s.stack[n]) => n <= MaxDepth
ListsOK(s) == Typed(s) /\ NextOK(s) /\ LinksOK(s) /\ Sizes(s)
Sound(s, I, C) == ListsOK(s) /\ Alive(s, I, C) /\ Swept(s) /\ Emptied(s) /\ Nested(s)

(* From s to t items leave, collections or all there is: what they leave   *)
(* their iterators do not reach any more, and reach all else they did.     *)
(* The calls in progress stay, and those that begin iterate nothing.       *)
SameCall(f, g) == g.op = f.op /\ g.c = f.c /\ g.i = f.i /\ g.pc = f.pc
Leaves(s, t) ==
    /\ \A c \in Colls : Members(t, c) \subseteq Members(s, c)
    /\ Len(s.stack) <= Len(t.stack)
    /\ \A n \in 1 .. Len(s.stack) : LET f == s.stack[n]  g == t.stack[n] IN
           /\ SameCall(f, g)
           /\ f.c \in Colls =>
                  ToVisit(t, f.c, g.next) = ToVisit(s, f.c, f.next) \cap Members(t, f.c)
    /\ \A n \in Len(s.stack) + 1 .. Len(t.stack) : ~Running(t.stack[n])

(* What instance_destroy of i in the collections C does beyond the lists:  *)
(* i leaves, or stays marked where it is locked, and nothing else changes. *)
SameFlags(k, l) == /\ l.ref = k.ref /\ l.destroyed = k.destroyed /\ l.called = k.called
                   /\ l.void = k.void /\ l.freed = k.freed
Removed(s, t, C, i) ==
    /\ t.item = s.item
    /\ \A c \in Colls :
        /\ SameFlags(s.coll[c], t.coll[c])
        /\ Linked(t, c) \subseteq Linked(s, c)
        /\ Linked(s, c) \ {i} \subseteq Linked(t, c)
        /\ c \notin C => Linked(t, c) = Linked(s, c)
    /\ Len(t.stack) = Len(s.stack)
    /\ \A n \in 1 .. Len(s.stack) : SameCall(s.stack[n], t.stack[n])

(*---------------------------------- lists ---------------------------------*)
(* A set of positions has a least one.                                     *)
LEMMA LeastPosition ==
  ASSUME NEW T \in SUBSET Nat, T # {}
  PROVE  \E k \in T : \A m \in T : k <= m
<1> DEFINE R == OpToRel(<, Nat)
<1>1. IsWellFoundedOn(R, Nat)
  BY NatLessThanWellFounded
<1>2. ASSUME NEW k \in Nat, NEW m \in Nat, m < k
      PROVE  <<m, k>> \in R
  BY <1>2 DEF OpToRel
<1> HIDE DEF R
<1>3. PICK k \in T : \A m \in T : ~ (<<m, k>> \in R)
  BY <1>1, WFMin
<1>4. ASSUME NEW m \in T PROVE k <= m
  <2>1. m \in Nat /\ k \in Nat OBVIOUS
  <2>2. ~(<<m, k>> \in R) BY <1>3
  <2>3. ~(m < k) BY <1>2, <2>1, <2>2
  <2>4. QED BY <2>1, <2>3
<1>5. QED
  BY <1>4

LEMMA PosIs ==
  ASSUME NEW q \in Seq(Items), NEW i \in ToSet(q)
  PROVE  Pos(q, i) \in 1 .. Len(q) /\ q[Pos(q, i)] = i /\ i \in Items
<1>1. DOMAIN q = 1 .. Len(q) /\ q \in [1 .. Len(q) -> Items] /\ Len(q) \in Nat
  BY LenProperties
<1>2. \E k \in DOMAIN q : q[k] = i
  BY DEF ToSet
<1>3. QED
  BY <1>1, <1>2 DEF Pos

LEMMA PosOf ==
  ASSUME NEW q \in Seq(Items), IsInjective(q), NEW k \in 1 .. Len(q)
  PROVE  q[k] \in ToSet(q) /\ Pos(q, q[k]) = k
<1>1. DOMAIN q = 1 .. Len(q)
  BY LenProperties
<1>2. q[k] \in ToSet(q)
  BY <1>1 DEF ToSet
<1>3. Pos(q, q[k]) \in 1 .. Len(q) /\ q[Pos(q, q[k])] = q[k]
  BY <1>2, PosIs
<1>4. QED
  BY <1>1, <1>2, <1>3 DEF IsInjective

(* What is ahead of n, by the positions.                                   *)
LEMMA AheadIs ==
  ASSUME NEW q \in Seq(Items), IsInjective(q), NEW n \in ToSet(q), NEW i
  PROVE  i \in Ahead(q, n) <=> i \in ToSet(q) /\ Pos(q, n) <= Pos(q, i)
<1>1. n # None
  BY PosIs, CollectionAssumption
<1>2. Pos(q, n) \in 1 .. Len(q) /\ Len(q) \in Nat
  BY PosIs, LenProperties
<1>3. ASSUME i \in Ahead(q, n) PROVE i \in ToSet(q) /\ Pos(q, n) <= Pos(q, i)
  <2>1. PICK k \in Pos(q, n) .. Len(q) : i = q[k]
    BY <1>1, <1>3 DEF Ahead
  <2>2. k \in 1 .. Len(q)
    BY <1>2
  <2>3. QED
    BY <1>2, <2>1, <2>2, PosOf
<1>4. ASSUME i \in ToSet(q), Pos(q, n) <= Pos(q, i) PROVE i \in Ahead(q, n)
  <2>1. Pos(q, i) \in 1 .. Len(q) /\ q[Pos(q, i)] = i
    BY <1>4, PosIs
  <2>2. Pos(q, i) \in Pos(q, n) .. Len(q)
    BY <1>2, <1>4, <2>1
  <2>3. QED
    BY <1>1, <2>1, <2>2 DEF Ahead
<1>5. QED
  BY <1>3, <1>4

(* The list without i.                                                     *)
LEMMA WithoutIs ==
  ASSUME NEW q \in Seq(Items), IsInjective(q), NEW i \in ToSet(q)
  PROVE  /\ Without(q, i) \in Seq(Items)
         /\ Len(Without(q, i)) = Len(q) - 1
         /\ \A k \in 1 .. Len(q) - 1 :
                Without(q, i)[k] = IF k < Pos(q, i) THEN q[k] ELSE q[k + 1]
<1> DEFINE p == Pos(q, i)
           a == SubSeq(q, 1, p - 1)
           b == SubSeq(q, p + 1, Len(q))
           l == Len(q)
<1>1. p \in 1 .. l /\ l \in Nat
  BY PosIs, LenProperties
<1>2. \A k \in 1 .. l : q[k] \in Items
  BY ElementOfSeq
<1> HIDE DEF p, l
<1>3. a \in Seq(Items) /\ Len(a) = p - 1 /\ \A k \in 1 .. p - 1 : a[k] = q[k]
  <2>1. \A k \in 1 .. p - 1 : q[k] \in Items
    BY <1>1, <1>2
  <2>2. /\ a \in Seq(Items)
        /\ Len(a) = IF 1 <= p - 1 THEN (p - 1) - 1 + 1 ELSE 0
        /\ \A k \in 1 .. (p - 1) - 1 + 1 : a[k] = q[1 + k - 1]
    BY <1>1, <2>1, SubSeqProperties
  <2>3. QED
    BY <1>1, <2>2
<1>4. b \in Seq(Items) /\ Len(b) = l - p /\ \A k \in 1 .. l - p : b[k] = q[p + k]
  <2>1. \A k \in p + 1 .. l : q[k] \in Items
    BY <1>1, <1>2
  <2>2. /\ b \in Seq(Items)
        /\ Len(b) = IF p + 1 <= l THEN l - (p + 1) + 1 ELSE 0
        /\ \A k \in 1 .. l - (p + 1) + 1 : b[k] = q[(p + 1) + k - 1]
    BY <1>1, <2>1, SubSeqProperties DEF l
  <2>3. QED
    BY <1>1, <2>2
<1>5. Without(q, i) = a \o b
  BY DEF Without, RemoveAt, p
<1> HIDE DEF a, b
<1>6. /\ a \o b \in Seq(Items) /\ Len(a \o b) = Len(a) + Len(b)
      /\ \A k \in 1 .. Len(a) + Len(b) :
             (a \o b)[k] = IF k <= Len(a) THEN a[k] ELSE b[k - Len(a)]
  BY <1>3, <1>4, ConcatProperties
<1>7. ASSUME NEW k \in 1 .. l - 1
      PROVE  (a \o b)[k] = IF k < p THEN q[k] ELSE q[k + 1]
  <2>1. (a \o b)[k] = IF k <= p - 1 THEN a[k] ELSE b[k - (p - 1)]
    BY <1>1, <1>3, <1>4, <1>6, SMTT(40)
  <2>2. CASE k < p
    BY <1>1, <1>3, <2>1, <2>2
  <2>3. CASE ~(k < p)
    <3>1. k - (p - 1) \in 1 .. l - p /\ p + (k - (p - 1)) = k + 1
      BY <1>1, <2>3
    <3>2. QED
      BY <1>1, <1>4, <2>1, <2>3, <3>1
  <2>4. QED
    BY <2>2, <2>3
<1>8. QED
  BY <1>1, <1>3, <1>4, <1>5, <1>6, <1>7 DEF p, l

LEMMA WithoutPos ==
  ASSUME NEW q \in Seq(Items), IsInjective(q), NEW i \in ToSet(q)
  PROVE  /\ Without(q, i) \in Seq(Items) /\ IsInjective(Without(q, i))
         /\ ToSet(Without(q, i)) = ToSet(q) \ {i}
         /\ \A j \in ToSet(q) \ {i} :
                Pos(Without(q, i), j) = IF Pos(q, j) < Pos(q, i) THEN Pos(q, j) ELSE Pos(q, j) - 1
<1> DEFINE p == Pos(q, i)
           r == Without(q, i)
           l == Len(q)
<1>1. p \in 1 .. l /\ l \in Nat /\ q[p] = i
  BY PosIs, LenProperties
<1>2. /\ r \in Seq(Items) /\ Len(r) = l - 1
      /\ \A k \in 1 .. l - 1 : r[k] = IF k < p THEN q[k] ELSE q[k + 1]
  BY WithoutIs
<1>3. DOMAIN q = 1 .. l /\ DOMAIN r = 1 .. l - 1
  BY <1>2, LenProperties
<1>4. \A k, m \in 1 .. l : q[k] = q[m] => k = m
  BY <1>3 DEF IsInjective
<1> HIDE DEF p, r, l
<1>5. IsInjective(r)
  <2>1. SUFFICES ASSUME NEW k \in 1 .. l - 1, NEW m \in 1 .. l - 1, r[k] = r[m]
                 PROVE  k = m
    BY <1>3 DEF IsInjective
  <2>2. k \in 1 .. l /\ m \in 1 .. l /\ k + 1 \in 1 .. l /\ m + 1 \in 1 .. l
    BY <1>1
  <2>3. QED
    BY <1>1, <1>2, <1>4, <2>1, <2>2
<1>6. ASSUME NEW j \in ToSet(q), j # i
      PROVE  LET m == IF Pos(q, j) < p THEN Pos(q, j) ELSE Pos(q, j) - 1
             IN  m \in 1 .. l - 1 /\ r[m] = j
  <2> DEFINE k == Pos(q, j)
  <2>1. k \in 1 .. l /\ q[k] = j
    BY PosIs DEF l
  <2> HIDE DEF k
  <2>2. k # p
    BY <1>1, <1>6, <2>1
  <2>3. CASE k < p
    BY <1>1, <1>2, <2>1, <2>3 DEF k
  <2>4. CASE ~(k < p)
    <3>1. k - 1 \in 1 .. l - 1 /\ ~(k - 1 < p) /\ (k - 1) + 1 = k
      BY <1>1, <2>1, <2>2, <2>4
    <3>2. r[k - 1] = j
      BY <1>2, <2>1, <3>1
    <3>3. QED
      BY <2>4, <3>1, <3>2 DEF k
  <2>5. QED
    BY <2>3, <2>4
<1>7. ToSet(r) = ToSet(q) \ {i}
  <2>1. ASSUME NEW j \in ToSet(r) PROVE j \in ToSet(q) \ {i}
    <3>1. PICK k \in 1 .. l - 1 : r[k] = j
      BY <1>3 DEF ToSet
    <3>2. k \in 1 .. l /\ k + 1 \in 1 .. l /\ (k < p => k # p) /\ (~(k < p) => k + 1 # p)
      BY <1>1
    <3>3. PICK m \in 1 .. l : j = q[m] /\ m # p
      BY <1>2, <3>1, <3>2
    <3>4. QED
      BY <1>1, <1>3, <1>4, <3>3 DEF ToSet
  <2>2. ASSUME NEW j \in ToSet(q) \ {i} PROVE j \in ToSet(r)
    BY <1>3, <1>6 DEF ToSet
  <2>3. QED
    BY <2>1, <2>2
<1>8. ASSUME NEW j \in ToSet(q) \ {i}
      PROVE  Pos(r, j) = IF Pos(q, j) < p THEN Pos(q, j) ELSE Pos(q, j) - 1
  BY <1>2, <1>5, <1>6, PosOf
<1>9. QED
  BY <1>2, <1>5, <1>7, <1>8 DEF p, r

(* What is ahead in the list without i.                                    *)
LEMMA AheadWithout ==
  ASSUME NEW q \in Seq(Items), IsInjective(q), NEW i \in ToSet(q), NEW n \in ToSet(q), n # i
  PROVE  n \in ToSet(Without(q, i)) /\ Ahead(Without(q, i), n) = Ahead(q, n) \ {i}
<1> DEFINE r == Without(q, i)
<1>1. /\ r \in Seq(Items) /\ IsInjective(r) /\ ToSet(r) = ToSet(q) \ {i}
      /\ \A j \in ToSet(q) \ {i} :
             Pos(r, j) = IF Pos(q, j) < Pos(q, i) THEN Pos(q, j) ELSE Pos(q, j) - 1
  BY WithoutPos
<1> HIDE DEF r
<1>2. n \in ToSet(r)
  BY <1>1
<1>3. \A j \in ToSet(q) : Pos(q, j) \in Nat /\ q[Pos(q, j)] = j
  BY PosIs
<1>4. ASSUME NEW j
      PROVE  j \in Ahead(r, n) <=> j \in Ahead(q, n) \ {i}
  <2>1. j \in Ahead(r, n) <=> j \in ToSet(r) /\ Pos(r, n) <= Pos(r, j)
    BY <1>1, <1>2, AheadIs
  <2>2. j \in Ahead(q, n) <=> j \in ToSet(q) /\ Pos(q, n) <= Pos(q, j)
    BY AheadIs
  <2>3. ASSUME j \in ToSet(q), j # i
        PROVE  Pos(r, n) <= Pos(r, j) <=> Pos(q, n) <= Pos(q, j)
    <3> DEFINE a == Pos(q, n)  b == Pos(q, j)  p == Pos(q, i)
    <3>1. a \in Nat /\ b \in Nat /\ p \in Nat /\ a # p /\ b # p
      BY <1>3, <2>3
    <3>2. /\ Pos(r, n) = IF a < p THEN a ELSE a - 1
          /\ Pos(r, j) = IF b < p THEN b ELSE b - 1
      BY <1>1, <2>3
    <3> HIDE DEF a, b, p
    <3>3. Pos(r, n) <= Pos(r, j) <=> a <= b
      BY <3>1, <3>2
    <3>4. QED
      BY <3>3 DEF a, b
  <2>4. QED
    BY <1>1, <2>1, <2>2, <2>3
<1>5. QED
  BY <1>2, <1>4 DEF r

(* What follows i has the rest ahead of it.                                *)
LEMMA AfterIs ==
  ASSUME NEW q \in Seq(Items), IsInjective(q), NEW i \in ToSet(q)
  PROVE  /\ After(q, i) # None => After(q, i) \in ToSet(q) \ {i}
         /\ After(q, i) \in Items \cup {None}
         /\ Ahead(q, After(q, i)) = Ahead(q, i) \ {i}
<1> DEFINE p == Pos(q, i)
           l == Len(q)
<1>1. p \in 1 .. l /\ l \in Nat /\ q[p] = i
  BY PosIs, LenProperties
<1> HIDE DEF p, l
<1>2. ASSUME NEW j \in ToSet(q) PROVE Pos(q, j) \in 1 .. l /\ (j # i => Pos(q, j) # p)
  <2>1. q[Pos(q, j)] = j /\ Pos(q, j) \in 1 .. l
    BY PosIs DEF l
  <2>2. QED
    BY <1>1, <2>1
<1>3. CASE p = l
  <2>1. After(q, i) = None
    BY <1>3 DEF After, p, l
  <2>2. ASSUME NEW j \in Ahead(q, i) PROVE j = i
    <3>1. j \in ToSet(q) /\ p <= Pos(q, j)
      BY AheadIs DEF p
    <3>2. QED
      BY <1>1, <1>2, <1>3, <3>1
  <2>3. QED
    BY <2>1, <2>2 DEF Ahead
<1>4. CASE p # l
  <2>1. After(q, i) = q[p + 1] /\ p + 1 \in 1 .. l
    BY <1>1, <1>4 DEF After, p, l
  <2>2. q[p + 1] \in ToSet(q) /\ Pos(q, q[p + 1]) = p + 1
    BY <2>1, PosOf DEF l
  <2>3. q[p + 1] # i
    BY <1>1, <2>2 DEF p
  <2>4. ASSUME NEW j
        PROVE  j \in Ahead(q, q[p + 1]) <=> j \in Ahead(q, i) \ {i}
    <3>1. j \in Ahead(q, q[p + 1]) <=> j \in ToSet(q) /\ p + 1 <= Pos(q, j)
      BY <2>2, AheadIs
    <3>2. j \in Ahead(q, i) <=> j \in ToSet(q) /\ p <= Pos(q, j)
      BY AheadIs DEF p
    <3>3. j = i => Pos(q, j) = p
      BY DEF p
    <3>4. j \in ToSet(q) => (p + 1 <= Pos(q, j) <=> p <= Pos(q, j) /\ j # i)
      BY <1>1, <1>2, <3>3
    <3>5. QED
      BY <3>1, <3>2, <3>4
  <2>5. QED
    BY <2>1, <2>2, <2>3, <2>4, PosIs
<1>5. QED
  BY <1>3, <1>4

(* One of the items of a list has the others ahead of it.                  *)
LEMMA FirstIs ==
  ASSUME NEW q \in Seq(Items), IsInjective(q), NEW V, V \subseteq ToSet(q), V # {}
  PROVE  LET x == CHOOSE i \in V : V \subseteq Ahead(q, i)
         IN  x \in V /\ V \subseteq Ahead(q, x)
<1> DEFINE T == {Pos(q, i) : i \in V}
<1>1. \A i \in V : Pos(q, i) \in Nat
  BY PosIs
<1>2. T \in SUBSET Nat /\ T # {}
  BY <1>1
<1>3. PICK k \in T : \A m \in T : k <= m
  BY <1>2, LeastPosition
<1>4. PICK x \in V : k = Pos(q, x)
  OBVIOUS
<1>5. \A i \in V : i \in ToSet(q) /\ Pos(q, x) <= Pos(q, i)
  BY <1>3, <1>4
<1>6. V \subseteq Ahead(q, x)
  BY <1>5, AheadIs
<1>7. QED
  BY <1>6

LEMMA PrependIs ==
  ASSUME NEW q \in Seq(Items), IsInjective(q), NEW i \in Items, i \notin ToSet(q)
  PROVE  LET r == <<i>> \o q
         IN  /\ r \in Seq(Items) /\ IsInjective(r) /\ ToSet(r) = ToSet(q) \cup {i}
             /\ \A n \in ToSet(q) : Ahead(r, n) = Ahead(q, n)
<1> DEFINE r == <<i>> \o q
           l == Len(q)
<1>1. <<i>> \in Seq(Items) /\ Len(<<i>>) = 1 /\ <<i>>[1] = i
  OBVIOUS
<1>2. DOMAIN q = 1 .. l /\ l \in Nat
  BY LenProperties
<1>3. /\ r \in Seq(Items) /\ Len(r) = 1 + l
      /\ \A k \in 1 .. 1 + l : r[k] = IF k <= 1 THEN <<i>>[k] ELSE q[k - 1]
  BY <1>1, ConcatProperties
<1>4. DOMAIN r = 1 .. 1 + l
  BY <1>3, LenProperties
<1>5. \A k \in 1 .. l : q[k] # i /\ q[k] \in ToSet(q)
  BY <1>2 DEF ToSet
<1>6. \A k, m \in 1 .. l : q[k] = q[m] => k = m
  BY <1>2 DEF IsInjective
<1> HIDE DEF r, l
<1>7. r[1] = i /\ \A k \in 1 .. l : r[k + 1] = q[k]
  <2>1. r[1] = <<i>>[1]
    BY <1>2, <1>3
  <2>2. ASSUME NEW k \in 1 .. l PROVE r[k + 1] = q[k]
    <3>1. k + 1 \in 1 .. 1 + l /\ ~(k + 1 <= 1) /\ (k + 1) - 1 = k
      BY <1>2
    <3>2. QED
      BY <1>3, <3>1
  <2>3. QED
    BY <1>1, <2>1, <2>2
<1>8. ASSUME NEW k \in 1 .. 1 + l, k # 1
      PROVE  k - 1 \in 1 .. l /\ r[k] = q[k - 1]
  <2>1. k - 1 \in 1 .. l /\ (k - 1) + 1 = k
    BY <1>2, <1>8
  <2>2. QED
    BY <1>7, <2>1
<1>9. IsInjective(r)
  <2>1. SUFFICES ASSUME NEW k \in 1 .. 1 + l, NEW m \in 1 .. 1 + l, r[k] = r[m]
                 PROVE  k = m
    BY <1>4 DEF IsInjective
  <2>2. CASE k = 1
    BY <1>5, <1>7, <1>8, <2>1, <2>2
  <2>3. CASE m = 1
    BY <1>5, <1>7, <1>8, <2>1, <2>3
  <2>4. CASE k # 1 /\ m # 1
    <3>1. k - 1 = m - 1
      BY <1>6, <1>8, <2>1, <2>4
    <3>2. QED
      BY <1>2, <3>1
  <2>5. QED
    BY <2>2, <2>3, <2>4
<1>10. ToSet(r) = ToSet(q) \cup {i}
  <2>1. ASSUME NEW j \in ToSet(r) PROVE j \in ToSet(q) \cup {i}
    <3>1. PICK k \in 1 .. 1 + l : r[k] = j
      BY <1>4 DEF ToSet
    <3>2. QED
      BY <1>5, <1>7, <1>8, <3>1
  <2>2. ASSUME NEW j \in ToSet(q) PROVE j \in ToSet(r)
    <3>1. PICK k \in 1 .. l : q[k] = j
      BY <1>2 DEF ToSet
    <3>2. k + 1 \in 1 .. 1 + l /\ r[k + 1] = j
      BY <1>2, <1>7, <3>1
    <3>3. QED
      BY <1>4, <3>2 DEF ToSet
  <2>3. i \in ToSet(r)
    <3>1. 1 \in 1 .. 1 + l
      BY <1>2
    <3>2. QED
      BY <1>4, <1>7, <3>1 DEF ToSet
  <2>4. QED
    BY <2>1, <2>2, <2>3
<1>11. ASSUME NEW n \in ToSet(q) PROVE Pos(r, n) = Pos(q, n) + 1 /\ n # i
  <2>1. Pos(q, n) \in 1 .. l /\ q[Pos(q, n)] = n
    BY PosIs DEF l
  <2>2. Pos(q, n) + 1 \in 1 .. 1 + l /\ r[Pos(q, n) + 1] = n
    BY <1>2, <1>7, <2>1
  <2>3. Pos(r, n) = Pos(q, n) + 1
    BY <1>3, <1>9, <2>2, PosOf
  <2>4. QED
    BY <2>3
<1>12. ASSUME NEW n \in ToSet(q), NEW j PROVE j \in Ahead(r, n) <=> j \in Ahead(q, n)
  <2>1. j \in Ahead(r, n) <=> j \in ToSet(r) /\ Pos(r, n) <= Pos(r, j)
    BY <1>3, <1>9, <1>10, AheadIs
  <2>2. j \in Ahead(q, n) <=> j \in ToSet(q) /\ Pos(q, n) <= Pos(q, j)
    BY AheadIs
  <2>3. Pos(q, n) \in 1 .. l /\ Pos(r, n) = Pos(q, n) + 1
    BY <1>11, PosIs DEF l
  <2>4. CASE j \in ToSet(q)
    <3>1. Pos(q, j) \in 1 .. l /\ Pos(r, j) = Pos(q, j) + 1
      BY <1>11, <2>4, PosIs DEF l
    <3>2. QED
      BY <1>2, <1>10, <2>1, <2>2, <2>3, <2>4, <3>1
  <2>5. CASE j = i
    <3>1. Pos(r, i) = 1
      <4>1. 1 \in 1 .. Len(r)
        BY <1>2, <1>3
      <4>2. QED
        BY <1>3, <1>7, <1>9, <4>1, PosOf
    <3>2. QED
      BY <1>2, <2>1, <2>2, <2>3, <2>5, <3>1
  <2>6. QED
    BY <1>10, <2>1, <2>2, <2>4, <2>5
<1>13. QED
  BY <1>3, <1>9, <1>10, <1>12 DEF r

LEMMA AppendIs ==
  ASSUME NEW q \in Seq(Items), IsInjective(q), NEW i \in Items, i \notin ToSet(q)
  PROVE  LET r == q \o <<i>>
         IN  r \in Seq(Items) /\ IsInjective(r) /\ ToSet(r) = ToSet(q) \cup {i}
<1> DEFINE r == q \o <<i>>
           l == Len(q)
<1>1. <<i>> \in Seq(Items) /\ Len(<<i>>) = 1 /\ <<i>>[1] = i
  OBVIOUS
<1>2. DOMAIN q = 1 .. l /\ l \in Nat
  BY LenProperties
<1>3. /\ r \in Seq(Items) /\ Len(r) = l + 1
      /\ \A k \in 1 .. l + 1 : r[k] = IF k <= l THEN q[k] ELSE <<i>>[k - l]
  BY <1>1, ConcatProperties
<1>4. DOMAIN r = 1 .. l + 1
  BY <1>3, LenProperties
<1>5. \A k \in 1 .. l : q[k] # i /\ q[k] \in ToSet(q)
  BY <1>2 DEF ToSet
<1>6. \A k, m \in 1 .. l : q[k] = q[m] => k = m
  BY <1>2 DEF IsInjective
<1> HIDE DEF r, l
<1>7. r[l + 1] = i /\ \A k \in 1 .. l : r[k] = q[k]
  <2>1. l + 1 \in 1 .. l + 1 /\ (l + 1) - l = 1 /\ ~(l + 1 <= l)
    BY <1>2
  <2>2. \A k \in 1 .. l : k \in 1 .. l + 1 /\ k <= l
    BY <1>2
  <2>3. QED
    BY <1>1, <1>3, <2>1, <2>2
<1>8. 1 .. l + 1 = 1 .. l \cup {l + 1}
  BY <1>2
<1>9. IsInjective(r)
  BY <1>4, <1>5, <1>6, <1>7, <1>8 DEF IsInjective
<1>10. ToSet(r) = ToSet(q) \cup {i}
  <2>1. ASSUME NEW j \in ToSet(r) PROVE j \in ToSet(q) \cup {i}
    <3>1. PICK k \in 1 .. l + 1 : r[k] = j
      BY <1>4 DEF ToSet
    <3>2. QED
      BY <1>5, <1>7, <1>8, <3>1
  <2>2. ASSUME NEW j \in ToSet(q) PROVE j \in ToSet(r)
    <3>1. PICK k \in 1 .. l : q[k] = j
      BY <1>2 DEF ToSet
    <3>2. QED
      BY <1>4, <1>7, <1>8, <3>1 DEF ToSet
  <2>3. i \in ToSet(r)
    BY <1>4, <1>7, <1>8 DEF ToSet
  <2>4. QED
    BY <2>1, <2>2, <2>3
<1>11. QED
  BY <1>3, <1>9, <1>10 DEF r

(* The head of a list has all of it ahead.                                 *)
LEMMA HeadIs ==
  ASSUME NEW q \in Seq(Items), IsInjective(q), q # <<>>
  PROVE  Head(q) \in ToSet(q) /\ Head(q) \in Items /\ Ahead(q, Head(q)) = ToSet(q)
<1>1. Len(q) \in Nat \ {0} /\ Head(q) = q[1]
  BY EmptySeq
<1>2. 1 \in 1 .. Len(q)
  BY <1>1
<1>3. q[1] \in ToSet(q) /\ Pos(q, q[1]) = 1 /\ q[1] \in Items
  BY <1>2, PosOf, PosIs
<1>4. ASSUME NEW j PROVE j \in Ahead(q, q[1]) <=> j \in ToSet(q)
  <2>1. j \in Ahead(q, q[1]) <=> j \in ToSet(q) /\ 1 <= Pos(q, j)
    BY <1>3, AheadIs
  <2>2. j \in ToSet(q) => Pos(q, j) \in 1 .. Len(q)
    BY PosIs
  <2>3. QED
    BY <2>1, <2>2
<1>5. QED
  BY <1>1, <1>3, <1>4

LEMMA FiniteList ==
  ASSUME NEW q \in Seq(Items)
  PROVE  IsFiniteSet(ToSet(q))
<1>1. DOMAIN q = 1 .. Len(q) /\ Len(q) \in Nat
  BY LenProperties
<1>2. IsFiniteSet(1 .. Len(q))
  BY <1>1, FS_Interval
<1>3. q \in Surjection(1 .. Len(q), ToSet(q))
  BY <1>1, LenProperties DEF Surjection, ToSet
<1>4. QED
  BY <1>2, <1>3, FS_Surjection

(*---------------------------- calls in progress ---------------------------*)
LEMMA StackIs ==
  ASSUME NEW s \in States
  PROVE  /\ s.stack \in Seq(Frames) /\ Len(s.stack) \in Nat
         /\ DOMAIN s.stack = 1 .. Len(s.stack)
         /\ \A n \in 1 .. Len(s.stack) : s.stack[n] \in Frames
<1>1. s.stack \in Seq(Frames)
  BY DEF States
<1>2. QED
  BY <1>1, LenProperties, ElementOfSeq

LEMMA SameState ==
  ASSUME NEW s \in States, NEW t \in States,
         s.coll = t.coll, s.item = t.item, s.link = t.link, s.stack = t.stack
  PROVE  s = t
<1>1. s = [coll |-> s.coll, item |-> s.item, link |-> s.link, stack |-> s.stack]
  BY DEF States
<1>2. t = [coll |-> t.coll, item |-> t.item, link |-> t.link, stack |-> t.stack]
  BY DEF States
<1>3. QED
  BY <1>1, <1>2

LEMMA PushIs ==
  ASSUME NEW s \in States, NEW f \in Frames
  PROVE  LET t == Push(s, f)
         IN  /\ t \in States
             /\ t.coll = s.coll /\ t.item = s.item /\ t.link = s.link
             /\ Len(t.stack) = Len(s.stack) + 1
             /\ DOMAIN t.stack = 1 .. Len(s.stack) + 1
             /\ \A n \in 1 .. Len(s.stack) : t.stack[n] = s.stack[n]
             /\ t.stack[Len(s.stack) + 1] = f
<1> DEFINE t == Push(s, f)
<1>1. s.stack \in Seq(Frames)
  BY StackIs
<1>2. /\ t.coll = s.coll /\ t.item = s.item /\ t.link = s.link
      /\ t.stack = Append(s.stack, f)
  BY DEF Push, States
<1>3. /\ Append(s.stack, f) \in Seq(Frames)
      /\ Len(Append(s.stack, f)) = Len(s.stack) + 1
      /\ \A n \in 1 .. Len(s.stack) : Append(s.stack, f)[n] = s.stack[n]
      /\ Append(s.stack, f)[Len(s.stack) + 1] = f
  BY <1>1, AppendProperties
<1>4. t \in States
  BY <1>3 DEF Push, States
<1>5. DOMAIN t.stack = 1 .. Len(s.stack) + 1
  BY <1>2, <1>3, LenProperties
<1>6. QED
  BY <1>2, <1>3, <1>4, <1>5

LEMMA PopIs ==
  ASSUME NEW s \in States, s.stack # <<>>
  PROVE  LET t == Pop(s)
         IN  /\ t \in States
             /\ t.coll = s.coll /\ t.item = s.item /\ t.link = s.link
             /\ Len(s.stack) \in Nat \ {0} /\ Len(t.stack) = Len(s.stack) - 1
             /\ DOMAIN t.stack = 1 .. Len(s.stack) - 1
             /\ \A n \in 1 .. Len(s.stack) - 1 : t.stack[n] = s.stack[n]
             /\ Top(s) = s.stack[Len(s.stack)] /\ Top(s) \in Frames
             /\ s = Push(t, Top(s))
<1> DEFINE t == Pop(s)
           l == Len(s.stack)
<1>1. s.stack \in Seq(Frames) /\ l \in Nat \ {0} /\ \A n \in 1 .. l : s.stack[n] \in Frames
  BY StackIs, EmptySeq
<1>2. /\ t.coll = s.coll /\ t.item = s.item /\ t.link = s.link
      /\ t.stack = SubSeq(s.stack, 1, l - 1)
  BY DEF Pop, States, Front
<1> HIDE DEF l
<1>3. /\ SubSeq(s.stack, 1, l - 1) \in Seq(Frames)
      /\ Len(SubSeq(s.stack, 1, l - 1)) = l - 1
      /\ \A n \in 1 .. l - 1 : SubSeq(s.stack, 1, l - 1)[n] = s.stack[n]
  <2>1. \A n \in 1 .. l - 1 : s.stack[n] \in Frames
    BY <1>1
  <2>2. /\ SubSeq(s.stack, 1, l - 1) \in Seq(Frames)
        /\ Len(SubSeq(s.stack, 1, l - 1)) = IF 1 <= l - 1 THEN (l - 1) - 1 + 1 ELSE 0
        /\ \A n \in 1 .. (l - 1) - 1 + 1 : SubSeq(s.stack, 1, l - 1)[n] = s.stack[1 + n - 1]
    BY <1>1, <2>1, SubSeqProperties
  <2>3. QED
    BY <1>1, <2>2
<1>4. t \in States
  BY <1>2, <1>3 DEF Pop, States
<1>5. DOMAIN t.stack = 1 .. l - 1
  BY <1>2, <1>3, LenProperties
<1>6. Top(s) = s.stack[l] /\ Top(s) \in Frames
  BY <1>1 DEF Top, Last, l
<1>7. s = Push(t, Top(s))
  <2> DEFINE u == Push(t, Top(s))
  <2>1. /\ u \in States /\ u.coll = t.coll /\ u.item = t.item /\ u.link = t.link
        /\ Len(u.stack) = Len(t.stack) + 1
        /\ \A n \in 1 .. Len(t.stack) : u.stack[n] = t.stack[n]
        /\ u.stack[Len(t.stack) + 1] = Top(s)
    BY <1>4, <1>6, PushIs
  <2> HIDE DEF u
  <2>2. Len(u.stack) = l /\ \A n \in 1 .. l : u.stack[n] = s.stack[n]
    <3>1. Len(t.stack) = l - 1 /\ (l - 1) + 1 = l /\ 1 .. l = 1 .. l - 1 \cup {l}
      BY <1>1, <1>2, <1>3
    <3>2. QED
      BY <1>2, <1>3, <1>6, <2>1, <3>1
  <2>3. u.stack = s.stack
    <3>1. u.stack \in Seq(Frames)
      BY <2>1, StackIs
    <3>2. QED
      BY <1>1, <2>2, <3>1, SeqEqual DEF l
  <2>4. u = s
    BY <1>2, <2>1, <2>3, SameState
  <2>5. QED
    BY <2>4 DEF u
<1>8. QED
  BY <1>1, <1>2, <1>3, <1>4, <1>5, <1>6, <1>7 DEF l

LEMMA SetTopIs ==
  ASSUME NEW s \in States, s.stack # <<>>, NEW f \in Frames
  PROVE  SetTop(s, f) = Push(Pop(s), f)
<1> DEFINE t == SetTop(s, f)
           u == Push(Pop(s), f)
           l == Len(s.stack)
<1>1. s.stack \in Seq(Frames) /\ l \in Nat \ {0}
  BY StackIs, EmptySeq
<1>2. /\ t.coll = s.coll /\ t.item = s.item /\ t.link = s.link
      /\ t.stack = [s.stack EXCEPT ![l] = f]
  BY DEF SetTop, States
<1>3. /\ t.stack \in Seq(Frames) /\ Len(t.stack) = l
      /\ \A n \in 1 .. l : t.stack[n] = IF n = l THEN f ELSE s.stack[n]
  <2>1. l \in 1 .. Len(s.stack)
    BY <1>1
  <2>2. QED
    BY <1>1, <1>2, <2>1, ExceptSeq
<1>4. t \in States
  BY <1>2, <1>3 DEF SetTop, States
<1>5. /\ Pop(s) \in States
      /\ Pop(s).coll = s.coll /\ Pop(s).item = s.item /\ Pop(s).link = s.link
      /\ Len(Pop(s).stack) = l - 1
      /\ \A n \in 1 .. l - 1 : Pop(s).stack[n] = s.stack[n]
  BY PopIs
<1>6. /\ u \in States
      /\ u.coll = Pop(s).coll /\ u.item = Pop(s).item /\ u.link = Pop(s).link
      /\ Len(u.stack) = Len(Pop(s).stack) + 1
      /\ \A n \in 1 .. Len(Pop(s).stack) : u.stack[n] = Pop(s).stack[n]
      /\ u.stack[Len(Pop(s).stack) + 1] = f
  BY <1>5, PushIs
<1>7. u.stack = t.stack
  <2>1. u.stack \in Seq(Frames)
    BY <1>6, StackIs
  <2> HIDE DEF t, u, l
  <2>2. Len(u.stack) = l /\ \A n \in 1 .. l : u.stack[n] = t.stack[n]
    <3>1. (l - 1) + 1 = l /\ \A n \in 1 .. l : n # l => n \in 1 .. l - 1
      BY <1>1
    <3>2. QED
      BY <1>3, <1>5, <1>6, <3>1
  <2>3. QED
    BY <1>3, <2>1, <2>2, SeqEqual
<1>8. t = u
  <2> HIDE DEF t, u
  <2>1. QED
    BY <1>2, <1>4, <1>5, <1>6, <1>7, SameState
<1>9. QED
  BY <1>8

(*------------------------------- references -------------------------------*)
LEMMA CountOneMore ==
  ASSUME NEW l \in Nat, NEW A \in SUBSET (1 .. l), NEW B \in SUBSET (1 .. l + 1),
         \A n \in 1 .. l : n \in A <=> n \in B
  PROVE  /\ Cardinality(A) \in Nat /\ Cardinality(B) \in Nat
         /\ Cardinality(B) = Cardinality(A) + One(l + 1 \in B)
<1>1. IsFiniteSet(A)
  <2>1. IsFiniteSet(1 .. l)
    BY FS_Interval
  <2>2. QED
    BY <2>1, FS_Subset
<1>2. Cardinality(A) \in Nat
  BY <1>1, FS_CardinalityType
<1>3. l + 1 \notin A /\ \A n \in 1 .. l + 1 : n # l + 1 => n \in 1 .. l
  OBVIOUS
<1>4. CASE l + 1 \in B
  <2>1. B = A \cup {l + 1}
    BY <1>3, <1>4
  <2>2. Cardinality(B) = Cardinality(A) + 1
    BY <1>1, <1>3, <2>1, FS_AddElement
  <2>3. QED
    BY <1>2, <1>4, <2>2 DEF One
<1>5. CASE l + 1 \notin B
  <2>1. B = A
    BY <1>3, <1>5
  <2>2. QED
    BY <1>2, <1>5, <2>1 DEF One
<1>6. QED
  BY <1>4, <1>5

LEMMA PushCounts ==
  ASSUME NEW s \in States, NEW f \in Frames
  PROVE  LET t == Push(s, f)
         IN  /\ \A c : /\ CollCount(s, c) \in Nat /\ CollCount(t, c) \in Nat
                       /\ CollCount(t, c) = CollCount(s, c) + CollRefs(f, c)
             /\ \A i : /\ ItemCount(s, i) \in Nat /\ ItemCount(t, i) \in Nat
                       /\ ItemCount(t, i) = ItemCount(s, i) + ItemRefs(f, i)
                       /\ CbCount(s, i) \in Nat /\ CbCount(t, i) \in Nat
                       /\ CbCount(t, i) = CbCount(s, i) + CbRefs(f, i)
             /\ \A c, i : /\ LinkCount(s, c, i) \in Nat /\ LinkCount(t, c, i) \in Nat
                          /\ LinkCount(t, c, i) = LinkCount(s, c, i) + LinkRefs(f, c, i)
<1> DEFINE t == Push(s, f)
           l == Len(s.stack)
<1>1. /\ l \in Nat /\ DOMAIN s.stack = 1 .. l /\ DOMAIN t.stack = 1 .. l + 1
      /\ \A n \in 1 .. l : t.stack[n] = s.stack[n]
      /\ t.stack[l + 1] = f
  BY StackIs, PushIs
<1>2. l + 1 \in 1 .. l + 1 /\ \A n \in 1 .. l : n \in 1 .. l + 1
  BY <1>1
<1> HIDE DEF t, l
<1>3. ASSUME NEW c
      PROVE  /\ Cardinality(Users(s, c)) \in Nat /\ Cardinality(Users(t, c)) \in Nat
             /\ Cardinality(Users(t, c)) = Cardinality(Users(s, c)) + One(f.c = c /\ Using(f))
  <2>1. Users(s, c) \in SUBSET (1 .. l) /\ Users(t, c) \in SUBSET (1 .. l + 1)
    BY <1>1 DEF Users
  <2>2. \A n \in 1 .. l : n \in Users(s, c) <=> n \in Users(t, c)
    BY <1>1, <1>2 DEF Users
  <2>3. l + 1 \in Users(t, c) <=> f.c = c /\ Using(f)
    BY <1>1, <1>2 DEF Users, Using
  <2>4. One(l + 1 \in Users(t, c)) = One(f.c = c /\ Using(f))
    BY <2>3 DEF One
  <2>5. QED
    BY <1>1, <2>1, <2>2, <2>4, CountOneMore
<1>4. ASSUME NEW c
      PROVE  /\ Cardinality(Lockers(s, c)) \in Nat /\ Cardinality(Lockers(t, c)) \in Nat
             /\ Cardinality(Lockers(t, c)) = Cardinality(Lockers(s, c)) + One(f.c = c /\ LocksIt(f))
  <2>1. Lockers(s, c) \in SUBSET (1 .. l) /\ Lockers(t, c) \in SUBSET (1 .. l + 1)
    BY <1>1 DEF Lockers
  <2>2. \A n \in 1 .. l : n \in Lockers(s, c) <=> n \in Lockers(t, c)
    BY <1>1, <1>2 DEF Lockers
  <2>3. l + 1 \in Lockers(t, c) <=> f.c = c /\ LocksIt(f)
    BY <1>1, <1>2 DEF Lockers
  <2>4. One(l + 1 \in Lockers(t, c)) = One(f.c = c /\ LocksIt(f))
    BY <2>3 DEF One
  <2>5. QED
    BY <1>1, <2>1, <2>2, <2>4, CountOneMore
<1>5. ASSUME NEW i
      PROVE  /\ ItemCount(s, i) \in Nat /\ ItemCount(t, i) \in Nat
             /\ ItemCount(t, i) = ItemCount(s, i) + ItemRefs(f, i)
  <2>1. Holders(s, i) \in SUBSET (1 .. l) /\ Holders(t, i) \in SUBSET (1 .. l + 1)
    BY <1>1 DEF Holders
  <2>2. \A n \in 1 .. l : n \in Holders(s, i) <=> n \in Holders(t, i)
    BY <1>1, <1>2 DEF Holders
  <2>3. l + 1 \in Holders(t, i) <=> f.i = i /\ Holding(f)
    BY <1>1, <1>2 DEF Holders, Holding
  <2>4. One(l + 1 \in Holders(t, i)) = One(f.i = i /\ Holding(f))
    BY <2>3 DEF One
  <2>5. QED
    BY <1>1, <2>1, <2>2, <2>4, CountOneMore DEF ItemCount, ItemRefs
<1>6. ASSUME NEW i
      PROVE  /\ CbCount(s, i) \in Nat /\ CbCount(t, i) \in Nat
             /\ CbCount(t, i) = CbCount(s, i) + CbRefs(f, i)
  <2>1. CbLockers(s, i) \in SUBSET (1 .. l) /\ CbLockers(t, i) \in SUBSET (1 .. l + 1)
    BY <1>1 DEF CbLockers
  <2>2. \A n \in 1 .. l : n \in CbLockers(s, i) <=> n \in CbLockers(t, i)
    BY <1>1, <1>2 DEF CbLockers
  <2>3. l + 1 \in CbLockers(t, i) <=> f.i = i /\ LocksIt(f)
    BY <1>1, <1>2 DEF CbLockers
  <2>4. One(l + 1 \in CbLockers(t, i)) = One(f.i = i /\ LocksIt(f))
    BY <2>3 DEF One
  <2>5. QED
    BY <1>1, <2>1, <2>2, <2>4, CountOneMore DEF CbCount, CbRefs
<1>7. ASSUME NEW c, NEW i
      PROVE  /\ LinkCount(s, c, i) \in Nat /\ LinkCount(t, c, i) \in Nat
             /\ LinkCount(t, c, i) = LinkCount(s, c, i) + LinkRefs(f, c, i)
  <2>1. LinkLockers(s, c, i) \in SUBSET (1 .. l) /\ LinkLockers(t, c, i) \in SUBSET (1 .. l + 1)
    BY <1>1 DEF LinkLockers
  <2>2. \A n \in 1 .. l : n \in LinkLockers(s, c, i) <=> n \in LinkLockers(t, c, i)
    BY <1>1, <1>2 DEF LinkLockers
  <2>3. l + 1 \in LinkLockers(t, c, i) <=> f.c = c /\ f.i = i /\ LocksIt(f)
    BY <1>1, <1>2 DEF LinkLockers
  <2>4. One(l + 1 \in LinkLockers(t, c, i)) = One(f.c = c /\ f.i = i /\ LocksIt(f))
    BY <2>3 DEF One
  <2>5. QED
    BY <1>1, <2>1, <2>2, <2>4, CountOneMore DEF LinkCount, LinkRefs
<1>8. ASSUME NEW c
      PROVE  /\ CollCount(s, c) \in Nat /\ CollCount(t, c) \in Nat
             /\ CollCount(t, c) = CollCount(s, c) + CollRefs(f, c)
  <2> DEFINE a == One(f.c = c /\ Using(f))  b == One(f.c = c /\ LocksIt(f))
  <2>1. a \in Nat /\ b \in Nat
    BY DEF One
  <2> HIDE DEF a, b
  <2>2. CollRefs(f, c) = a + b
    BY DEF CollRefs, a, b
  <2>3. QED
    BY <1>3, <1>4, <2>1, <2>2 DEF CollCount, a, b
<1>9. QED
  BY <1>5, <1>6, <1>7, <1>8 DEF t

(* A collection or an item that no call refers to has no such call.        *)
LEMMA CountsAreNat ==
  ASSUME NEW s \in States
  PROVE  /\ \A c : CollCount(s, c) \in Nat
         /\ \A i : ItemCount(s, i) \in Nat /\ CbCount(s, i) \in Nat
         /\ \A c, i : LinkCount(s, c, i) \in Nat
         /\ \A c : CollCount(s, c) = 0 <=>
                \A n \in 1 .. Len(s.stack) : ~(s.stack[n].c = c /\ (Using(s.stack[n]) \/ LocksIt(s.stack[n])))
         /\ \A i : ItemCount(s, i) = 0 <=>
                \A n \in 1 .. Len(s.stack) : ~(s.stack[n].i = i /\ Holding(s.stack[n]))
         /\ \A i : CbCount(s, i) = 0 <=>
                \A n \in 1 .. Len(s.stack) : ~(s.stack[n].i = i /\ LocksIt(s.stack[n]))
         /\ \A c, i : LinkCount(s, c, i) = 0 <=>
                \A n \in 1 .. Len(s.stack) :
                    ~(s.stack[n].c = c /\ s.stack[n].i = i /\ LocksIt(s.stack[n]))
<1> DEFINE l == Len(s.stack)
<1>1. l \in Nat /\ DOMAIN s.stack = 1 .. l
  BY StackIs
<1>2. \A A \in SUBSET (1 .. l) : Cardinality(A) \in Nat /\ (Cardinality(A) = 0 <=> A = {})
  <2>1. IsFiniteSet(1 .. l)
    BY <1>1, FS_Interval
  <2>2. \A A \in SUBSET (1 .. l) : IsFiniteSet(A)
    BY <2>1, FS_Subset
  <2>3. QED
    BY <2>2, FS_CardinalityType, FS_EmptySet
<1> HIDE DEF l
<1>3. \A c : Users(s, c) \in SUBSET (1 .. l) /\ Lockers(s, c) \in SUBSET (1 .. l)
  BY <1>1 DEF Users, Lockers
<1>4. \A i : Holders(s, i) \in SUBSET (1 .. l) /\ CbLockers(s, i) \in SUBSET (1 .. l)
  BY <1>1 DEF Holders, CbLockers
<1>5. \A c, i : LinkLockers(s, c, i) \in SUBSET (1 .. l)
  BY <1>1 DEF LinkLockers
<1>6. ASSUME NEW c
      PROVE  /\ CollCount(s, c) \in Nat
             /\ CollCount(s, c) = 0 <=>
                \A n \in 1 .. l : ~(s.stack[n].c = c /\ (Using(s.stack[n]) \/ LocksIt(s.stack[n])))
  <2>1. Cardinality(Users(s, c)) \in Nat /\ Cardinality(Lockers(s, c)) \in Nat
    BY <1>2, <1>3
  <2>2. CollCount(s, c) \in Nat /\ (CollCount(s, c) = 0 <=> Users(s, c) = {} /\ Lockers(s, c) = {})
    <3>1. /\ Cardinality(Users(s, c)) = 0 <=> Users(s, c) = {}
          /\ Cardinality(Lockers(s, c)) = 0 <=> Lockers(s, c) = {}
      BY <1>2, <1>3
    <3>2. QED
      BY <2>1, <3>1 DEF CollCount
  <2>3. Users(s, c) = {} <=> \A n \in 1 .. l : ~(s.stack[n].c = c /\ Using(s.stack[n]))
    BY <1>1 DEF Users, Using
  <2>4. Lockers(s, c) = {} <=> \A n \in 1 .. l : ~(s.stack[n].c = c /\ LocksIt(s.stack[n]))
    BY <1>1 DEF Lockers
  <2>5. QED
    BY <2>2, <2>3, <2>4
<1>7. ASSUME NEW i
      PROVE  /\ ItemCount(s, i) \in Nat
             /\ ItemCount(s, i) = 0 <=>
                \A n \in 1 .. l : ~(s.stack[n].i = i /\ Holding(s.stack[n]))
  <2>1. Holders(s, i) = {} <=> \A n \in 1 .. l : ~(s.stack[n].i = i /\ Holding(s.stack[n]))
    BY <1>1 DEF Holders, Holding
  <2>2. QED
    BY <1>2, <1>4, <2>1 DEF ItemCount
<1>8. ASSUME NEW i
      PROVE  /\ CbCount(s, i) \in Nat
             /\ CbCount(s, i) = 0 <=>
                \A n \in 1 .. l : ~(s.stack[n].i = i /\ LocksIt(s.stack[n]))
  <2>1. CbLockers(s, i) = {} <=> \A n \in 1 .. l : ~(s.stack[n].i = i /\ LocksIt(s.stack[n]))
    BY <1>1 DEF CbLockers
  <2>2. QED
    BY <1>2, <1>4, <2>1 DEF CbCount
<1>9. ASSUME NEW c, NEW i
      PROVE  /\ LinkCount(s, c, i) \in Nat
             /\ LinkCount(s, c, i) = 0 <=>
                \A n \in 1 .. l :
                    ~(s.stack[n].c = c /\ s.stack[n].i = i /\ LocksIt(s.stack[n]))
  <2>1. LinkLockers(s, c, i) = {} <=>
            \A n \in 1 .. l : ~(s.stack[n].c = c /\ s.stack[n].i = i /\ LocksIt(s.stack[n]))
    BY <1>1 DEF LinkLockers
  <2>2. QED
    BY <1>2, <1>5, <2>1 DEF LinkCount
<1>10. QED
  BY <1>6, <1>7, <1>8, <1>9 DEF l

(* Calls that only moved their iterators have the references they had.     *)
LEMMA SameCounts ==
  ASSUME NEW s \in States, NEW t \in States, Len(t.stack) = Len(s.stack),
         \A n \in 1 .. Len(s.stack) : SameCall(s.stack[n], t.stack[n])
  PROVE  /\ \A c : CollCount(t, c) = CollCount(s, c)
         /\ \A i : ItemCount(t, i) = ItemCount(s, i) /\ CbCount(t, i) = CbCount(s, i)
         /\ \A c, i : LinkCount(t, c, i) = LinkCount(s, c, i)
<1> DEFINE l == Len(s.stack)
<1>1. DOMAIN s.stack = 1 .. l /\ DOMAIN t.stack = 1 .. l
  BY StackIs
<1>2. \A n \in 1 .. l : /\ t.stack[n].op = s.stack[n].op /\ t.stack[n].c = s.stack[n].c
                        /\ t.stack[n].i = s.stack[n].i /\ t.stack[n].pc = s.stack[n].pc
  BY DEF SameCall
<1> HIDE DEF l
<1>3. \A n \in 1 .. l : LocksIt(t.stack[n]) <=> LocksIt(s.stack[n])
  BY <1>2 DEF LocksIt
<1>4. \A c : Users(t, c) = Users(s, c) /\ Lockers(t, c) = Lockers(s, c)
  BY <1>1, <1>2, <1>3 DEF Users, Lockers
<1>5. \A i : Holders(t, i) = Holders(s, i) /\ CbLockers(t, i) = CbLockers(s, i)
  BY <1>1, <1>2, <1>3 DEF Holders, CbLockers
<1>6. \A c, i : LinkLockers(t, c, i) = LinkLockers(s, c, i)
  BY <1>1, <1>2, <1>3 DEF LinkLockers
<1>7. QED
  BY <1>4, <1>5, <1>6 DEF CollCount, ItemCount, CbCount, LinkCount

(*-------------------------------- iterators -------------------------------*)
LEMMA CollIs ==
  ASSUME NEW s, Typed(s), NEW c \in Colls
  PROVE  /\ s \in States /\ s.coll[c] \in CollType
         /\ s.coll[c].order \in Seq(Items) /\ IsInjective(s.coll[c].order)
         /\ \A i \in Linked(s, c) : i \in Items /\ i # None
<1>1. /\ s \in States /\ s.coll[c] \in CollType
      /\ s.coll[c].order \in Seq(Items) /\ IsInjective(s.coll[c].order)
  BY DEF Typed, States, CollType
<1>2. QED
  BY <1>1, PosIs, CollectionAssumption DEF Linked

LEMMA FrameIs ==
  ASSUME NEW f \in Frames
  PROVE  /\ f \in FrameType /\ FrameShape(f)
         /\ f.c \in Colls \cup {None} /\ f.i \in Items \cup {None}
         /\ f.next \in Items \cup {None} /\ (f.next # None => f.c \in Colls)
<1>1. /\ f \in FrameType /\ FrameShape(f)
      /\ f.op \in Ops /\ f.c \in Colls \cup {None} /\ f.i \in Items \cup {None}
      /\ f.next \in Items \cup {None}
  BY DEF Frames, FrameType
<1>2. QED
  BY <1>1 DEF FrameShape, Ops

LEMMA ToVisitIs ==
  ASSUME NEW s, Typed(s), NEW c \in Colls, NEW n \in Linked(s, c) \cup {None}
  PROVE  ToVisit(s, c, n) \subseteq Members(s, c) /\ Members(s, c) \subseteq Linked(s, c)
<1> DEFINE q == s.coll[c].order
<1>1. q \in Seq(Items) /\ IsInjective(q)
  BY CollIs
<1>2. Ahead(q, n) \subseteq ToSet(q)
  <2>1. CASE n = None
    BY <2>1 DEF Ahead
  <2>2. CASE n # None
    <3>1. n \in ToSet(q)
      BY <2>2 DEF Linked
    <3>2. QED
      BY <1>1, <3>1, AheadIs
  <2>3. QED
    BY <2>1, <2>2
<1>3. QED
  BY <1>2 DEF ToVisit, Members, Linked

(* collection_next finds an item to visit, if there is one, and the        *)
(* iterator that moved past it has the others to visit.                    *)
LEMMA FoundIs ==
  ASSUME NEW s, Typed(s), NEW c \in Colls, NEW n \in Linked(s, c) \cup {None}
  PROVE  LET x == Found(s, c, n)
             m == After(s.coll[c].order, x)
         IN  /\ x = None <=> ToVisit(s, c, n) = {}
             /\ x # None =>
                    /\ x \in ToVisit(s, c, n) /\ x \in Linked(s, c) /\ x \in Items
                    /\ Valid(s, c, x) /\ ~s.coll[c].destroyed
                    /\ m \in Linked(s, c) \cup {None}
                    /\ ToVisit(s, c, m) = ToVisit(s, c, n) \ {x}
<1> DEFINE q == s.coll[c].order
           V == ToVisit(s, c, n)
           x == Found(s, c, n)
           m == After(q, x)
<1>1. q \in Seq(Items) /\ IsInjective(q)
  BY CollIs
<1>2. V \subseteq ToSet(q)
  BY ToVisitIs DEF Linked
<1>3. CASE V = {}
  BY <1>3 DEF Found
<1>4. CASE V # {}
  <2>1. x = CHOOSE i \in V : V \subseteq Ahead(q, i)
    BY <1>4 DEF Found
  <2> HIDE DEF x
  <2>2. x \in V /\ V \subseteq Ahead(q, x)
    <3> HIDE DEF V, q
    <3>1. QED
      BY <1>1, <1>2, <1>4, <2>1, FirstIs
  <2>3. x \in ToSet(q) /\ x \in Items /\ x # None
    BY <1>1, <1>2, <2>2, PosIs, CollectionAssumption
  <2>4. ~s.coll[c].destroyed /\ Valid(s, c, x) /\ x \in Ahead(q, n)
    BY <2>2 DEF ToVisit
  <2>5. n # None /\ n \in ToSet(q)
    BY <2>4 DEF Ahead, Linked
  <2>6. /\ m # None => m \in ToSet(q) \ {x}
        /\ Ahead(q, m) = Ahead(q, x) \ {x}
    <3> HIDE DEF q
    <3>1. QED
      BY <1>1, <2>3, AfterIs
  <2>7. Ahead(q, x) \subseteq Ahead(q, n)
    <3> HIDE DEF q
    <3>1. Pos(q, n) <= Pos(q, x)
      BY <1>1, <2>4, <2>5, AheadIs
    <3>2. \A i \in ToSet(q) : Pos(q, i) \in Nat
      BY <1>1, PosIs
    <3>3. ASSUME NEW i \in Ahead(q, x) PROVE i \in Ahead(q, n)
      <4>1. i \in ToSet(q) /\ Pos(q, x) <= Pos(q, i)
        BY <1>1, <2>3, AheadIs
      <4>2. Pos(q, n) <= Pos(q, i)
        BY <2>3, <2>5, <3>1, <3>2, <4>1
      <4>3. QED
        BY <1>1, <2>5, <4>1, <4>2, AheadIs
    <3>4. QED
      BY <3>3
  <2>8. ToVisit(s, c, m) = V \ {x}
    <3>1. V = {i \in Ahead(q, n) : Valid(s, c, i)}
      BY <2>4 DEF ToVisit
    <3>2. ToVisit(s, c, m) = {i \in Ahead(q, m) : Valid(s, c, i)}
      BY <2>4 DEF ToVisit
    <3> HIDE DEF V, m, q
    <3>3. QED
      BY <2>2, <2>6, <2>7, <3>1, <3>2
  <2>9. QED
    BY <1>4, <2>2, <2>3, <2>4, <2>6, <2>8 DEF Linked, x
<1>5. QED
  BY <1>3, <1>4

LEMMA LiveIs ==
  ASSUME NEW s, Typed(s), NEW c \in Colls
  PROVE  /\ IsFiniteSet(Live(s, c)) /\ Cardinality(Live(s, c)) \in Nat
         /\ Cardinality(Live(s, c)) = 0 <=> Live(s, c) = {}
         /\ \A i \in Live(s, c) : Cardinality(Live(s, c) \ {i}) = Cardinality(Live(s, c)) - 1
         /\ Members(s, c) \subseteq Live(s, c)
<1>1. IsFiniteSet(Linked(s, c))
  BY CollIs, FiniteList DEF Linked
<1>2. IsFiniteSet(Live(s, c))
  BY <1>1, FS_Subset DEF Live
<1>3. \A i \in Live(s, c) : Cardinality(Live(s, c) \ {i}) = Cardinality(Live(s, c)) - 1
  BY <1>2, FS_RemoveElement
<1>4. Members(s, c) \subseteq Live(s, c)
  BY DEF Members, Live, Valid
<1>5. QED
  BY <1>2, <1>3, <1>4, FS_CardinalityType, FS_EmptySet

(* A new iterator has every member to visit.                               *)
LEMMA NewIteratorIs ==
  ASSUME NEW s, Typed(s), Sizes(s), NEW c \in Colls
  PROVE  LET n == NewIterator(s, c)
         IN  /\ n \in Linked(s, c) \cup {None} /\ n \in Items \cup {None}
             /\ ToVisit(s, c, n) = Members(s, c)
<1> DEFINE q == s.coll[c].order
           n == NewIterator(s, c)
<1>1. q \in Seq(Items) /\ IsInjective(q)
  BY CollIs
<1>2. CASE s.coll[c].destroyed
  BY <1>2 DEF NewIterator, ToVisit, Members
<1>3. CASE ~s.coll[c].destroyed /\ s.coll[c].size = 0
  <2>1. Live(s, c) = {}
    BY <1>3, LiveIs DEF Sizes
  <2>2. Members(s, c) = {}
    BY <2>1, LiveIs
  <2>3. n = None
    BY <1>3 DEF NewIterator
  <2>4. ToVisit(s, c, None) = {}
    BY DEF ToVisit, Ahead
  <2>5. QED
    BY <2>2, <2>3, <2>4
<1>4. CASE ~s.coll[c].destroyed /\ s.coll[c].size # 0
  <2>1. Live(s, c) # {}
    BY <1>4, LiveIs DEF Sizes
  <2>2. q # <<>>
    BY <2>1 DEF Live, Linked, ToSet
  <2>3. n = Head(q)
    BY <1>4 DEF NewIterator
  <2>4. Head(q) \in ToSet(q) /\ Head(q) \in Items /\ Ahead(q, Head(q)) = ToSet(q)
    <3> HIDE DEF q
    <3>1. QED
      BY <1>1, <2>2, HeadIs
  <2>5. QED
    BY <1>4, <2>3, <2>4 DEF ToVisit, Members, Linked
<1>5. QED
  BY <1>2, <1>3, <1>4

(*-------------------------------- instances -------------------------------*)
(* The fields of what instance_obj_destroy returns.                        *)
Unlinked(s, t, C, i) ==
    /\ t \in States /\ t.item = s.item
    /\ \A c \in C : t.coll[c] = [s.coll[c] EXCEPT !.order = Without(s.coll[c].order, i)]
    /\ \A c \in Colls \ C : t.coll[c] = s.coll[c]
    /\ \A c \in C : t.link[c] = [s.link[c] EXCEPT ![i] = NewLink]
    /\ \A c \in Colls \ C : t.link[c] = s.link[c]
    /\ Len(t.stack) = Len(s.stack)
    /\ \A n \in 1 .. Len(s.stack) :
           LET f == s.stack[n] IN
           t.stack[n] = IF f.c \in C /\ f.next = i
                        THEN [f EXCEPT !.next = After(s.coll[f.c].order, i)] ELSE f

LEMMA UnlinkFields ==
  ASSUME NEW s, Typed(s), NEW C \in SUBSET Colls, NEW i \in Items,
         \A c \in C : i \in Linked(s, c)
  PROVE  Unlinked(s, InstanceObjDestroy(s, C, i), C, i)
<1> DEFINE t == InstanceObjDestroy(s, C, i)
           Order(c) == Without(s.coll[c].order, i)
           NewC == [c \in Colls |-> IF c \in C THEN [s.coll[c] EXCEPT !.order = Order(c)] ELSE s.coll[c]]
           NewL == [c \in Colls |-> IF c \in C THEN [s.link[c] EXCEPT ![i] = NewLink] ELSE s.link[c]]
           Moved(f) == IF f.c \in C /\ f.next = i
                       THEN [f EXCEPT !.next = After(s.coll[f.c].order, i)] ELSE f
           NewS == [n \in 1 .. Len(s.stack) |-> Moved(s.stack[n])]
<1>1. /\ s \in States /\ DOMAIN s.stack = 1 .. Len(s.stack) /\ Len(s.stack) \in Nat
      /\ \A n \in 1 .. Len(s.stack) : s.stack[n] \in Frames
  BY StackIs DEF Typed
<1>2. /\ t.item = s.item /\ t.coll = NewC /\ t.link = NewL /\ t.stack = NewS
      /\ t = [coll |-> NewC, item |-> s.item, link |-> NewL, stack |-> NewS]
  <2> DEFINE Old == [n \in DOMAIN s.stack |-> Moved(s.stack[n])]
  <2>1. Old = NewS
    BY <1>1
  <2>2. t = [s EXCEPT !.coll = NewC, !.link = NewL, !.stack = Old]
    BY DEF InstanceObjDestroy
  <2>3. s = [coll |-> s.coll, item |-> s.item, link |-> s.link, stack |-> s.stack]
    BY <1>1 DEF States
  <2> HIDE DEF t, NewC, NewL, NewS, Old
  <2>4. QED
    BY <2>1, <2>2, <2>3
<1>3. NewC \in [Colls -> CollType]
  <2>1. ASSUME NEW c \in Colls PROVE NewC[c] \in CollType
    <3>1. s.coll[c] \in CollType
      BY CollIs
    <3>2. c \in C => Order(c) \in Seq(Items)
      <4>1. ASSUME c \in C PROVE Order(c) \in Seq(Items)
        <5>1. i \in ToSet(s.coll[c].order)
          BY <4>1 DEF Linked
        <5>2. s.coll[c].order \in Seq(Items) /\ IsInjective(s.coll[c].order)
          BY CollIs
        <5>3. QED
          BY <5>1, <5>2, WithoutPos
      <4>2. QED
        BY <4>1
    <3> HIDE DEF Order
    <3>3. QED
      BY <3>1, <3>2 DEF CollType
  <2> HIDE DEF Order
  <2>2. QED
    BY <2>1
<1>4. NewL \in [Colls -> [Items -> LinkType]]
  <2>1. NewLink \in LinkType
    BY DEF NewLink, LinkType
  <2>2. s.link \in [Colls -> [Items -> LinkType]]
    BY <1>1 DEF States
  <2>3. QED
    BY <2>1, <2>2
<1>5. ASSUME NEW n \in 1 .. Len(s.stack)
      PROVE  Moved(s.stack[n]) \in Frames
  <2> DEFINE f == s.stack[n]
  <2>1. f \in FrameType /\ FrameShape(f) /\ f \in Frames
    BY <1>1, FrameIs
  <2>2. CASE f.c \in C /\ f.next = i
    <3> DEFINE a == After(s.coll[f.c].order, i)
    <3>1. i \in ToSet(s.coll[f.c].order)
      BY <2>2 DEF Linked
    <3>2. s.coll[f.c].order \in Seq(Items) /\ IsInjective(s.coll[f.c].order)
      BY <2>2, CollIs
    <3>3. a \in Items \cup {None}
      BY <3>1, <3>2, AfterIs
    <3>4. f.next # None
      BY <2>2, CollectionAssumption
    <3>5. Moved(f) = [f EXCEPT !.next = a]
      BY <2>2
    <3> HIDE DEF f, a
    <3>6. [f EXCEPT !.next = a] \in FrameType
      BY <2>1, <3>3 DEF FrameType
    <3>7. FrameShape([f EXCEPT !.next = a])
      BY <2>1, <3>4 DEF FrameShape, FrameType
    <3>8. QED
      BY <3>5, <3>6, <3>7 DEF Frames, f
  <2>3. CASE ~(f.c \in C /\ f.next = i)
    BY <2>1, <2>3
  <2>4. QED
    BY <2>2, <2>3
<1>6. NewS \in Seq(Frames) /\ Len(NewS) = Len(s.stack)
  <2> DEFINE e(n) == Moved(s.stack[n])
  <2> HIDE DEF Moved
  <2>1. \A n \in 1 .. Len(s.stack) : e(n) \in Frames
    BY <1>5
  <2> HIDE DEF e
  <2>2. [n \in 1 .. Len(s.stack) |-> e(n)] \in Seq(Frames)
    BY <1>1, <2>1, IsASeq
  <2>3. Len([n \in 1 .. Len(s.stack) |-> e(n)]) = Len(s.stack)
    BY <1>1
  <2>4. QED
    BY <2>2, <2>3 DEF e
<1>7. t \in States
  <2>1. s.item \in [Items -> ItemType]
    BY <1>1 DEF States
  <2> HIDE DEF t, NewC, NewL, NewS
  <2>2. QED
    BY <1>2, <1>3, <1>4, <1>6, <2>1 DEF States
<1>8. QED
  <2> HIDE DEF t
  <2>1. Len(t.stack) = Len(s.stack)
    BY <1>2, <1>6
  <2>2. /\ \A c \in C : t.coll[c] = [s.coll[c] EXCEPT !.order = Order(c)]
        /\ \A c \in Colls \ C : t.coll[c] = s.coll[c]
        /\ \A c \in C : t.link[c] = [s.link[c] EXCEPT ![i] = NewLink]
        /\ \A c \in Colls \ C : t.link[c] = s.link[c]
    BY <1>2
  <2>3. \A n \in 1 .. Len(s.stack) : t.stack[n] = Moved(s.stack[n])
    BY <1>2
  <2>4. QED
    BY <1>2, <1>7, <2>1, <2>2, <2>3 DEF t, Unlinked

(* Instances that are marked and that nobody locks leave, and no iterator  *)
(* sees a difference.                                                      *)
LeaveUnseen(s, t, C, i) ==
    /\ Typed(t) /\ NextOK(t) /\ t.item = s.item
    /\ \A c \in Colls :
           /\ SameFlags(s.coll[c], t.coll[c]) /\ t.coll[c].size = s.coll[c].size
           /\ Linked(t, c) = IF c \in C THEN Linked(s, c) \ {i} ELSE Linked(s, c)
           /\ \A j \in Items : t.link[c][j] = IF c \in C /\ j = i THEN NewLink
                                              ELSE s.link[c][j]
           /\ Live(t, c) = Live(s, c) /\ Members(t, c) = Members(s, c)
    /\ Len(t.stack) = Len(s.stack)
    /\ \A n \in 1 .. Len(s.stack) : LET f == s.stack[n]  g == t.stack[n] IN
           /\ SameCall(f, g)
           /\ f.c \in Colls => ToVisit(t, f.c, g.next) = ToVisit(s, f.c, f.next)
LEMMA UnlinkIs ==
  ASSUME NEW s, Typed(s), NextOK(s), NEW C \in SUBSET Colls, NEW i \in Items,
         \A c \in C : i \in Linked(s, c) /\ s.link[c][i].destroyed
  PROVE  LeaveUnseen(s, InstanceObjDestroy(s, C, i), C, i)
<1> DEFINE t == InstanceObjDestroy(s, C, i)
           q(c) == s.coll[c].order
<1>1. /\ t \in States /\ t.item = s.item
      /\ \A c \in C : t.coll[c] = [s.coll[c] EXCEPT !.order = Without(q(c), i)]
      /\ \A c \in Colls \ C : t.coll[c] = s.coll[c]
      /\ \A c \in C : t.link[c] = [s.link[c] EXCEPT ![i] = NewLink]
      /\ \A c \in Colls \ C : t.link[c] = s.link[c]
      /\ Len(t.stack) = Len(s.stack)
      /\ \A n \in 1 .. Len(s.stack) :
             LET f == s.stack[n] IN
             t.stack[n] = IF f.c \in C /\ f.next = i
                          THEN [f EXCEPT !.next = After(q(f.c), i)] ELSE f
  <2>1. \A c \in C : i \in Linked(s, c)
    OBVIOUS
  <2>2. Unlinked(s, t, C, i)
    BY <2>1, UnlinkFields
  <2> HIDE DEF t
  <2>3. QED
    BY <2>2 DEF Unlinked
<1> HIDE DEF t
<1>2. /\ s \in States /\ DOMAIN s.stack = 1 .. Len(s.stack) /\ DOMAIN t.stack = 1 .. Len(s.stack)
      /\ \A n \in 1 .. Len(s.stack) : s.stack[n] \in Frames
  BY <1>1, StackIs DEF Typed
<1>3. ASSUME NEW c \in Colls
      PROVE  /\ SameFlags(s.coll[c], t.coll[c]) /\ t.coll[c].size = s.coll[c].size
             /\ t.coll[c].order = IF c \in C THEN Without(q(c), i) ELSE q(c)
             /\ \A j \in Items : t.link[c][j] = IF c \in C /\ j = i THEN NewLink ELSE s.link[c][j]
  <2>1. s.coll[c] \in CollType
    BY CollIs
  <2>2. s.link[c] \in [Items -> LinkType]
    BY <1>2 DEF States
  <2>3. CASE c \in C
    <3>1. t.coll[c] = [s.coll[c] EXCEPT !.order = Without(q(c), i)] /\ t.link[c] = [s.link[c] EXCEPT ![i] = NewLink]
      BY <1>1, <2>3
    <3>2. QED
      BY <2>1, <2>2, <2>3, <3>1 DEF SameFlags, CollType
  <2>4. CASE c \notin C
    BY <1>1, <2>4 DEF SameFlags
  <2>5. QED
    BY <2>3, <2>4
<1>4. ASSUME NEW c \in C
      PROVE  /\ q(c) \in Seq(Items) /\ IsInjective(q(c)) /\ i \in ToSet(q(c))
             /\ Without(q(c), i) \in Seq(Items) /\ IsInjective(Without(q(c), i))
             /\ ToSet(Without(q(c), i)) = ToSet(q(c)) \ {i}
  <2>1. q(c) \in Seq(Items) /\ IsInjective(q(c)) /\ i \in ToSet(q(c))
    BY CollIs DEF Linked
  <2> HIDE DEF q
  <2>2. QED
    BY <2>1, WithoutPos
<1>5. ASSUME NEW c \in Colls
      PROVE  /\ IsInjective(t.coll[c].order)
             /\ Linked(t, c) = IF c \in C THEN Linked(s, c) \ {i} ELSE Linked(s, c)
  <2>1. IsInjective(s.coll[c].order)
    BY CollIs
  <2>2. QED
    BY <1>3, <1>4, <2>1 DEF Linked
<1>6. Typed(t)
  BY <1>1, <1>5 DEF Typed
<1>7. ASSUME NEW c \in Colls, NEW j \in Items
      PROVE  ~(c \in C /\ j = i) => (Valid(t, c, j) <=> Valid(s, c, j))
  BY <1>1, <1>3 DEF Valid
<1>8. ASSUME NEW c \in C PROVE ~Valid(s, c, i)
  BY DEF Valid
<1>9. ASSUME NEW c \in Colls
      PROVE  Live(t, c) = Live(s, c) /\ Members(t, c) = Members(s, c)
  <2>1. \A j \in Linked(s, c) : j \in Items
    BY CollIs
  <2>2. t.coll[c].destroyed = s.coll[c].destroyed
    BY <1>3 DEF SameFlags
  <2>3. Live(t, c) = Live(s, c)
    BY <1>3, <1>5, <2>1 DEF Live
  <2>4. Members(t, c) = Members(s, c)
    BY <1>5, <1>7, <1>8, <2>1, <2>2 DEF Members
  <2>5. QED
    BY <2>3, <2>4
<1>10. ASSUME NEW n \in 1 .. Len(s.stack)
       PROVE  LET f == s.stack[n]  g == t.stack[n] IN
              /\ SameCall(f, g)
              /\ g.next # None => g.next \in Linked(t, g.c)
              /\ f.c \in Colls => ToVisit(t, f.c, g.next) = ToVisit(s, f.c, f.next)
  <2> DEFINE f == s.stack[n]
             g == t.stack[n]
             c == f.c
  <2>1. /\ f \in FrameType /\ c \in Colls \cup {None} /\ f.next \in Items \cup {None}
        /\ f.next # None => c \in Colls
    BY <1>2, FrameIs
  <2>2. g = IF c \in C /\ f.next = i THEN [f EXCEPT !.next = After(q(c), i)] ELSE f
    BY <1>1
  <2>3. f.next # None => f.next \in Linked(s, c)
    BY <1>2 DEF NextOK
  <2> HIDE DEF f, g, c
  <2>4. SameCall(f, g) /\ g.c = c
    BY <2>1, <2>2 DEF SameCall, FrameType, c
  <2> SUFFICES /\ g.next # None => g.next \in Linked(t, c)
               /\ c \in Colls => ToVisit(t, c, g.next) = ToVisit(s, c, f.next)
    BY <2>4 DEF f, g, c
  <2>5. CASE c \in C /\ f.next = i
    <3>1. g.next = After(q(c), i)
      BY <2>1, <2>2, <2>5 DEF FrameType
    <3>2. /\ After(q(c), i) # None => After(q(c), i) \in ToSet(q(c)) \ {i}
          /\ Ahead(q(c), After(q(c), i)) = Ahead(q(c), i) \ {i}
      <4>1. q(c) \in Seq(Items) /\ IsInjective(q(c)) /\ i \in ToSet(q(c))
        BY <1>4, <2>5
      <4> HIDE DEF q
      <4>2. QED
        BY <4>1, AfterIs
    <3>3. g.next # None => g.next \in Linked(t, c)
      BY <1>5, <2>5, <3>1, <3>2 DEF Linked
    <3>4. Ahead(t.coll[c].order, g.next) = Ahead(q(c), i) \ {i}
      <4>1. t.coll[c].order = Without(q(c), i)
        BY <1>3, <2>5
      <4>2. CASE g.next = None
        BY <3>1, <3>2, <4>2 DEF Ahead
      <4>3. CASE g.next # None
        <5>1. g.next \in ToSet(q(c)) /\ g.next # i
          BY <3>1, <3>2, <4>3
        <5>2. q(c) \in Seq(Items) /\ IsInjective(q(c)) /\ i \in ToSet(q(c))
          BY <1>4, <2>5
        <5>3. Ahead(Without(q(c), i), g.next) = Ahead(q(c), g.next) \ {i}
          <6> HIDE DEF q
          <6>1. QED
            BY <5>1, <5>2, AheadWithout
        <5>4. QED
          BY <3>1, <3>2, <4>1, <5>3
      <4>4. QED
        BY <4>2, <4>3
    <3>5. ToVisit(t, c, g.next) = ToVisit(s, c, f.next)
      <4>1. Ahead(q(c), i) \subseteq ToSet(q(c))
        <5>1. q(c) \in Seq(Items) /\ IsInjective(q(c)) /\ i \in ToSet(q(c))
          BY <1>4, <2>5
        <5> HIDE DEF q
        <5>2. QED
          BY <5>1, AheadIs
      <4>2. \A j \in ToSet(q(c)) : j \in Items
        BY <2>5, CollIs DEF Linked
      <4>3. t.coll[c].destroyed = s.coll[c].destroyed
        BY <1>3, <2>5 DEF SameFlags
      <4>4. \A j \in Ahead(q(c), i) \ {i} : Valid(t, c, j) <=> Valid(s, c, j)
        BY <1>7, <2>5, <4>1, <4>2
      <4>5. {j \in Ahead(q(c), i) \ {i} : Valid(t, c, j)} = {j \in Ahead(q(c), i) : Valid(s, c, j)}
        BY <1>8, <2>5, <4>4
      <4>6. QED
        BY <2>5, <3>4, <4>3, <4>5 DEF ToVisit
    <3>6. QED
      BY <2>4, <3>3, <3>5
  <2>6. CASE ~(c \in C /\ f.next = i)
    <3>1. g = f
      BY <2>2, <2>6
    <3>2. CASE c \notin Colls
      BY <2>1, <3>1, <3>2
    <3>3. CASE c \in Colls /\ f.next = None
      <4>1. t.coll[c].destroyed = s.coll[c].destroyed
        BY <1>3, <3>3 DEF SameFlags
      <4>2. QED
        BY <3>1, <3>3, <4>1 DEF ToVisit, Ahead
    <3>4. CASE c \in Colls /\ f.next # None
      <4>1. f.next \in ToSet(q(c)) /\ (c \in C => f.next # i)
        BY <2>3, <2>6, <3>4 DEF Linked
      <4>2. f.next \in Linked(t, c)
        BY <1>5, <3>4, <4>1 DEF Linked
      <4>3. t.coll[c].destroyed = s.coll[c].destroyed
        BY <1>3, <3>4 DEF SameFlags
      <4>4. Ahead(t.coll[c].order, f.next) = IF c \in C THEN Ahead(q(c), f.next) \ {i} ELSE Ahead(q(c), f.next)
        <5>1. CASE c \in C
          <6>1. q(c) \in Seq(Items) /\ IsInjective(q(c)) /\ i \in ToSet(q(c))
            BY <1>4, <5>1
          <6>2. t.coll[c].order = Without(q(c), i)
            BY <1>3, <5>1
          <6> HIDE DEF q
          <6>3. QED
            BY <4>1, <5>1, <6>1, <6>2, AheadWithout
        <5>2. CASE c \notin C
          BY <1>3, <3>4, <5>2
        <5>3. QED
          BY <5>1, <5>2
      <4>5. \A j \in Ahead(q(c), f.next) : j \in Items
        <5>1. q(c) \in Seq(Items) /\ IsInjective(q(c)) /\ \A j \in ToSet(q(c)) : j \in Items
          BY <3>4, CollIs DEF Linked
        <5> HIDE DEF q
        <5>2. QED
          BY <4>1, <5>1, AheadIs
      <4>6. ToVisit(t, c, f.next) = ToVisit(s, c, f.next)
        <5>1. CASE s.coll[c].destroyed
          BY <4>3, <5>1 DEF ToVisit
        <5>2. CASE ~s.coll[c].destroyed
          <6>1. ToVisit(s, c, f.next) = {j \in Ahead(q(c), f.next) : Valid(s, c, j)}
            BY <5>2 DEF ToVisit
          <6>2. ToVisit(t, c, f.next) = {j \in Ahead(t.coll[c].order, f.next) : Valid(t, c, j)}
            BY <4>3, <5>2 DEF ToVisit
          <6> HIDE DEF q
          <6>3. QED
            BY <1>7, <1>8, <3>4, <4>4, <4>5, <6>1, <6>2
        <5>3. QED
          BY <5>1, <5>2
      <4>7. QED
        BY <2>4, <3>1, <4>2, <4>6
    <3>5. QED
      BY <2>1, <3>2, <3>3, <3>4
  <2>7. QED
    BY <2>5, <2>6
<1>11. NextOK(t)
  BY <1>2, <1>10 DEF NextOK
<1>12. QED
  BY <1>1, <1>3, <1>5, <1>6, <1>9, <1>10, <1>11 DEF t, LeaveUnseen

(* Where the list stays and fewer of its items are valid.                  *)
LEMMA FewerValid ==
  ASSUME NEW s, Typed(s), NEW t, Typed(t), NEW c \in Colls,
         t.coll[c].order = s.coll[c].order,
         s.coll[c].destroyed => t.coll[c].destroyed,
         \A j \in Linked(s, c) : Valid(t, c, j) => Valid(s, c, j),
         NEW n \in Linked(s, c) \cup {None}
  PROVE  /\ Members(t, c) \subseteq Members(s, c)
         /\ ToVisit(t, c, n) = ToVisit(s, c, n) \cap Members(t, c)
<1> DEFINE A == Ahead(s.coll[c].order, n)
<1>1. A \subseteq Linked(s, c)
  <2>1. CASE n = None
    BY <2>1 DEF Ahead
  <2>2. CASE n # None
    <3>1. n \in ToSet(s.coll[c].order)
      BY <2>2 DEF Linked
    <3>2. s.coll[c].order \in Seq(Items) /\ IsInjective(s.coll[c].order)
      BY CollIs
    <3>3. QED
      BY <3>1, <3>2, AheadIs DEF Linked
  <2>3. QED
    BY <2>1, <2>2
<1>2. Linked(t, c) = Linked(s, c)
  BY DEF Linked
<1>3. Members(t, c) \subseteq Members(s, c)
  BY <1>2 DEF Members
<1>4. CASE t.coll[c].destroyed
  BY <1>4 DEF ToVisit, Members
<1>5. CASE ~t.coll[c].destroyed
  <2>1. ToVisit(t, c, n) = {j \in A : Valid(t, c, j)}
    BY <1>5 DEF ToVisit
  <2>2. ToVisit(s, c, n) = {j \in A : Valid(s, c, j)}
    BY <1>5 DEF ToVisit
  <2>3. Members(t, c) = {j \in Linked(s, c) : Valid(t, c, j)}
    BY <1>2, <1>5 DEF Members
  <2> HIDE DEF A
  <2>4. QED
    BY <1>1, <1>3, <2>1, <2>2, <2>3
<1>6. QED
  BY <1>3, <1>4, <1>5

(* The instances of i in the collections D are marked and counted out.     *)
Marked(s, D, i) ==
    [s EXCEPT
        !.coll = [c \in Colls |->
            IF c \in D THEN [s.coll[c] EXCEPT !.size = @ - 1] ELSE s.coll[c]],
        !.link = [c \in Colls |->
            IF c \in D THEN [s.link[c] EXCEPT ![i].destroyed = TRUE] ELSE s.link[c]]]
CountedOut(s, m, D, i) ==
    /\ Typed(m) /\ NextOK(m) /\ Sizes(m) /\ m.item = s.item /\ m.stack = s.stack
    /\ \A c \in Colls :
           /\ SameFlags(s.coll[c], m.coll[c]) /\ m.coll[c].order = s.coll[c].order
           /\ Linked(m, c) = Linked(s, c)
           /\ \A j \in Items :
               /\ m.link[c][j].ref = s.link[c][j].ref
               /\ m.link[c][j].destroyed <=> s.link[c][j].destroyed \/ (c \in D /\ j = i)
               /\ ~(c \in D /\ j = i) => m.link[c][j] = s.link[c][j]
           /\ Members(m, c) \subseteq Members(s, c)
           /\ \A n \in Linked(s, c) \cup {None} :
                  ToVisit(m, c, n) = ToVisit(s, c, n) \cap Members(m, c)
LEMMA MarkedIs ==
  ASSUME NEW s, ListsOK(s), NEW D \in SUBSET Colls, NEW i \in Items,
         \A c \in D : i \in Live(s, c)
  PROVE  CountedOut(s, Marked(s, D, i), D, i)
<1> DEFINE m == Marked(s, D, i)
           NewC == [c \in Colls |-> IF c \in D THEN [s.coll[c] EXCEPT !.size = @ - 1] ELSE s.coll[c]]
           NewL == [c \in Colls |-> IF c \in D THEN [s.link[c] EXCEPT ![i].destroyed = TRUE] ELSE s.link[c]]
<1>1. Typed(s) /\ NextOK(s) /\ Sizes(s) /\ s \in States
  BY DEF ListsOK, Typed
<1>2. m.coll = NewC /\ m.link = NewL /\ m.item = s.item /\ m.stack = s.stack
  BY <1>1 DEF Marked, States
<1>3. ASSUME NEW c \in Colls
      PROVE  /\ NewC[c] \in CollType /\ SameFlags(s.coll[c], NewC[c])
             /\ NewC[c].order = s.coll[c].order
             /\ NewC[c].size = IF c \in D THEN s.coll[c].size - 1 ELSE s.coll[c].size
  <2>1. s.coll[c] \in CollType
    BY <1>1, CollIs
  <2>2. CASE c \in D
    <3>1. s.coll[c].size = Cardinality(Live(s, c)) /\ Live(s, c) # {}
      BY <1>1, <2>2 DEF Sizes
    <3>2. s.coll[c].size - 1 \in Nat
      BY <1>1, <3>1, LiveIs
    <3>3. NewC[c] = [s.coll[c] EXCEPT !.size = s.coll[c].size - 1]
      BY <2>2
    <3> HIDE DEF NewC
    <3>4. QED
      BY <2>1, <2>2, <3>2, <3>3 DEF CollType, SameFlags
  <2>3. CASE c \notin D
    BY <2>1, <2>3 DEF SameFlags
  <2>4. QED
    BY <2>2, <2>3
<1>4. ASSUME NEW c \in Colls
      PROVE  /\ NewL[c] \in [Items -> LinkType]
             /\ \A j \in Items :
                    /\ NewL[c][j].ref = s.link[c][j].ref
                    /\ NewL[c][j].destroyed <=> s.link[c][j].destroyed \/ (c \in D /\ j = i)
                    /\ ~(c \in D /\ j = i) => NewL[c][j] = s.link[c][j]
  <2>1. s.link[c] \in [Items -> LinkType]
    BY <1>1 DEF States
  <2>2. CASE c \in D
    <3>1. NewL[c] = [s.link[c] EXCEPT ![i].destroyed = TRUE]
      BY <2>2
    <3> HIDE DEF NewL
    <3> DEFINE k == [s.link[c][i] EXCEPT !.destroyed = TRUE]
    <3>2. s.link[c][i] \in LinkType
      BY <2>1
    <3>3. k \in LinkType /\ k.ref = s.link[c][i].ref /\ k.destroyed
      BY <3>2 DEF LinkType
    <3>4. NewL[c] = [s.link[c] EXCEPT ![i] = k]
      BY <2>1, <3>1
    <3> HIDE DEF k
    <3>5. NewL[c] \in [Items -> LinkType]
      BY <2>1, <3>3, <3>4
    <3>6. NewL[c][i] = k /\ \A j \in Items : j # i => NewL[c][j] = s.link[c][j]
      BY <2>1, <3>4
    <3>7. ASSUME NEW j \in Items
          PROVE  /\ NewL[c][j].ref = s.link[c][j].ref
                 /\ NewL[c][j].destroyed <=> s.link[c][j].destroyed \/ j = i
                 /\ j # i => NewL[c][j] = s.link[c][j]
      BY <3>3, <3>6
    <3>8. QED
      BY <2>2, <3>5, <3>7
  <2>3. CASE c \notin D
    BY <2>1, <2>3
  <2>4. QED
    BY <2>2, <2>3
<1>5. m \in States
  <2>1. NewC \in [Colls -> CollType] /\ NewL \in [Colls -> [Items -> LinkType]]
    BY <1>3, <1>4
  <2>2. m = [s EXCEPT !.coll = NewC, !.link = NewL]
    BY DEF Marked
  <2> HIDE DEF m, NewC, NewL
  <2>3. QED
    BY <1>1, <2>1, <2>2 DEF States
<1> HIDE DEF m, NewC, NewL
<1>6. \A c \in Colls : m.coll[c].order = s.coll[c].order /\ Linked(m, c) = Linked(s, c)
  BY <1>2, <1>3 DEF Linked
<1>7. Typed(m)
  BY <1>1, <1>5, <1>6 DEF Typed
<1>8. NextOK(m)
  <2>1. ASSUME NEW n \in DOMAIN m.stack, m.stack[n].next # None
        PROVE  m.stack[n].next \in Linked(m, m.stack[n].c)
    <3>1. s.stack[n].next \in Linked(s, s.stack[n].c) /\ s.stack[n] \in Frames
      BY <1>1, <1>2, <2>1, StackIs DEF NextOK
    <3>2. s.stack[n].c \in Colls
      BY <1>2, <2>1, <3>1, FrameIs
    <3>3. QED
      BY <1>2, <1>6, <3>1, <3>2
  <2>2. QED
    BY <2>1 DEF NextOK
<1>9. ASSUME NEW c \in Colls
      PROVE  /\ Live(m, c) = IF c \in D THEN Live(s, c) \ {i} ELSE Live(s, c)
  <2>1. \A j \in Linked(s, c) : j \in Items
    BY <1>1, CollIs
  <2>2. QED
    BY <1>2, <1>4, <1>6, <2>1 DEF Live
<1>10. Sizes(m)
  <2>1. ASSUME NEW c \in Colls PROVE m.coll[c].size = Cardinality(Live(m, c))
    <3>1. s.coll[c].size = Cardinality(Live(s, c))
      BY <1>1 DEF Sizes
    <3>2. CASE c \in D
      BY <1>1, <1>2, <1>3, <1>9, <3>1, <3>2, LiveIs
    <3>3. CASE c \notin D
      BY <1>2, <1>3, <1>9, <3>1, <3>3
    <3>4. QED
      BY <3>2, <3>3
  <2>2. QED
    BY <2>1 DEF Sizes
<1>11. ASSUME NEW c \in Colls
       PROVE  /\ Members(m, c) \subseteq Members(s, c)
              /\ \A n \in Linked(s, c) \cup {None} :
                     ToVisit(m, c, n) = ToVisit(s, c, n) \cap Members(m, c)
  <2>1. \A j \in Linked(s, c) : j \in Items
    BY <1>1, CollIs
  <2>2. \A j \in Linked(s, c) : Valid(m, c, j) => Valid(s, c, j)
    BY <1>2, <1>4, <2>1 DEF Valid
  <2>3. s.coll[c].destroyed => m.coll[c].destroyed
    BY <1>2, <1>3 DEF SameFlags
  <2>4. ASSUME NEW n \in Linked(s, c) \cup {None}
        PROVE  /\ Members(m, c) \subseteq Members(s, c)
               /\ ToVisit(m, c, n) = ToVisit(s, c, n) \cap Members(m, c)
    BY <1>1, <1>6, <1>7, <2>2, <2>3, FewerValid
  <2>5. QED
    BY <2>4
<1>12. QED
  <2>1. ASSUME NEW c \in Colls
        PROVE  /\ SameFlags(s.coll[c], m.coll[c])
               /\ \A j \in Items :
                        /\ m.link[c][j].ref = s.link[c][j].ref
                        /\ m.link[c][j].destroyed <=> s.link[c][j].destroyed \/ (c \in D /\ j = i)
                        /\ ~(c \in D /\ j = i) => m.link[c][j] = s.link[c][j]
    BY <1>2, <1>3, <1>4
  <2>2. QED
    BY <1>2, <1>6, <1>7, <1>8, <1>10, <1>11, <2>1 DEF m, CountedOut

LEMMA LeavesInPlace ==
  ASSUME NEW s \in States, NEW t, Len(t.stack) = Len(s.stack),
         \A c \in Colls : Members(t, c) \subseteq Members(s, c),
         \A n \in 1 .. Len(s.stack) : SameCall(s.stack[n], t.stack[n]),
         ASSUME NEW n \in 1 .. Len(s.stack), s.stack[n].c \in Colls
         PROVE  ToVisit(t, s.stack[n].c, t.stack[n].next) =
                    ToVisit(s, s.stack[n].c, s.stack[n].next) \cap Members(t, s.stack[n].c)
  PROVE  Leaves(s, t)
<1>1. Len(s.stack) \in Nat
  BY StackIs
<1>2. \A n \in 1 .. Len(s.stack) : s.stack[n].c \in Colls =>
          ToVisit(t, s.stack[n].c, t.stack[n].next) =
              ToVisit(s, s.stack[n].c, s.stack[n].next) \cap Members(t, s.stack[n].c)
  OBVIOUS
<1>3. Len(s.stack) + 1 .. Len(t.stack) = {}
  BY <1>1
<1>4. QED
  BY <1>1, <1>2, <1>3 DEF Leaves

LEMMA InstanceDestroyIs ==
  ASSUME NEW s, ListsOK(s), NEW C \in SUBSET Colls, NEW i \in Items
  PROVE  LET t == InstanceDestroy(s, C, i)
         IN  /\ ListsOK(t) /\ Removed(s, t, C, i) /\ Leaves(s, t)
             /\ \A c \in Colls, j \in Items : t.link[c][j].ref = s.link[c][j].ref
             /\ \A c \in C : i \in Linked(t, c) => t.link[c][i].destroyed
<1> DEFINE D == {c \in C : i \in Linked(s, c) /\ ~s.link[c][i].destroyed}
           F == {c \in D : s.link[c][i].ref = 0}
           m == Marked(s, D, i)
           t == InstanceObjDestroy(m, F, i)
<1>1. Typed(s) /\ NextOK(s) /\ LinksOK(s) /\ s \in States
  BY DEF ListsOK, Typed
<1>2. D \in SUBSET Colls /\ F \in SUBSET D /\ \A c \in D : i \in Live(s, c)
  BY DEF Live
<1>3. /\ Typed(m) /\ NextOK(m) /\ Sizes(m) /\ m.item = s.item /\ m.stack = s.stack
      /\ \A c \in Colls :
             /\ SameFlags(s.coll[c], m.coll[c]) /\ m.coll[c].order = s.coll[c].order
             /\ Linked(m, c) = Linked(s, c)
             /\ \A j \in Items :
                 /\ m.link[c][j].ref = s.link[c][j].ref
                 /\ m.link[c][j].destroyed <=> s.link[c][j].destroyed \/ (c \in D /\ j = i)
                 /\ ~(c \in D /\ j = i) => m.link[c][j] = s.link[c][j]
             /\ Members(m, c) \subseteq Members(s, c)
             /\ \A n \in Linked(s, c) \cup {None} :
                    ToVisit(m, c, n) = ToVisit(s, c, n) \cap Members(m, c)
  <2> HIDE DEF D, F
  <2>1. CountedOut(s, m, D, i)
    BY <1>2, MarkedIs
  <2> HIDE DEF m
  <2>2. QED
    BY <2>1 DEF CountedOut
<1>4. InstanceDestroy(s, C, i) = t
  <2>1. InstanceDestroy(s, C, i) = InstanceObjDestroy(m, {c \in D : s.link[c][i].ref = 0}, i)
    BY DEF InstanceDestroy, Marked
  <2>2. QED
    BY <2>1
<1>5. \A c \in F : i \in Linked(m, c) /\ m.link[c][i].destroyed
  <2>1. ASSUME NEW c \in F PROVE c \in D /\ c \in Colls /\ i \in Linked(s, c)
    BY <1>2
  <2> HIDE DEF m, F, D
  <2>2. QED
    BY <1>3, <2>1
<1>6. /\ Typed(t) /\ NextOK(t) /\ t.item = m.item
      /\ \A c \in Colls :
             /\ SameFlags(m.coll[c], t.coll[c]) /\ t.coll[c].size = m.coll[c].size
             /\ Linked(t, c) = IF c \in F THEN Linked(m, c) \ {i} ELSE Linked(m, c)
             /\ \A j \in Items : t.link[c][j] = IF c \in F /\ j = i THEN NewLink
                                                ELSE m.link[c][j]
             /\ Live(t, c) = Live(m, c) /\ Members(t, c) = Members(m, c)
      /\ Len(t.stack) = Len(m.stack)
      /\ \A n \in 1 .. Len(m.stack) : LET f == m.stack[n]  g == t.stack[n] IN
             /\ SameCall(f, g)
             /\ f.c \in Colls => ToVisit(t, f.c, g.next) = ToVisit(m, f.c, f.next)
  <2>1. F \in SUBSET Colls
    BY <1>2
  <2> HIDE DEF m, F, D
  <2>2. LeaveUnseen(m, t, F, i)
    BY <1>3, <1>5, <2>1, UnlinkIs
  <2> HIDE DEF t
  <2>3. QED
    BY <2>2 DEF LeaveUnseen
<1>7. \A c \in F : s.link[c][i].ref = 0
  OBVIOUS
<1>8. \A c \in D : c \notin F => s.link[c][i].ref # 0
  OBVIOUS
<1>9. ASSUME NEW c \in C PROVE i \in Linked(s, c) /\ c \notin D => s.link[c][i].destroyed
  OBVIOUS
<1> HIDE DEF m, t, F, D
<1>10. ASSUME NEW c \in Colls, NEW j \in Items
       PROVE  /\ t.link[c][j].ref = s.link[c][j].ref
              /\ s.link[c][j] \in LinkType
  <2>1. s.link[c][j] \in LinkType
    BY <1>1 DEF States
  <2>2. CASE c \in F /\ j = i
    BY <1>6, <1>7, <2>1, <2>2 DEF NewLink
  <2>3. CASE ~(c \in F /\ j = i)
    BY <1>3, <1>6, <2>1, <2>3
  <2>4. QED
    BY <2>2, <2>3
<1>11. Sizes(t)
  BY <1>3, <1>6 DEF Sizes
<1>12. LinksOK(t)
  <2>1. ASSUME NEW c \in Colls, NEW j \in Items
        PROVE  /\ j \notin Linked(t, c) => t.link[c][j] = NewLink
               /\ j \in Linked(t, c) /\ t.link[c][j].destroyed => t.link[c][j].ref > 0
    <3>1. /\ j \notin Linked(s, c) => s.link[c][j] = NewLink
          /\ j \in Linked(s, c) /\ s.link[c][j].destroyed => s.link[c][j].ref > 0
      BY <1>1 DEF LinksOK
    <3>2. c \in D => i \in Linked(s, c)
      BY <1>2 DEF Live
    <3>3. s.link[c][j].ref \in Nat
      BY <1>10 DEF LinkType
    <3>4. CASE c \in F /\ j = i
      BY <1>2, <1>3, <1>6, <3>4
    <3>5. CASE c \in D /\ c \notin F /\ j = i
      BY <1>3, <1>6, <1>8, <1>10, <3>2, <3>3, <3>5
    <3>6. CASE ~(c \in D /\ j = i)
      <4>1. t.link[c][j] = s.link[c][j] /\ (j \in Linked(t, c) <=> j \in Linked(s, c))
        BY <1>2, <1>3, <1>6, <3>6
      <4>2. QED
        BY <3>1, <4>1
    <3>7. QED
      BY <1>2, <3>4, <3>5, <3>6
  <2>2. QED
    BY <2>1 DEF LinksOK
<1>13. Removed(s, t, C, i)
  <2>1. ASSUME NEW c \in Colls PROVE SameFlags(s.coll[c], t.coll[c])
    <3>1. SameFlags(s.coll[c], m.coll[c]) /\ SameFlags(m.coll[c], t.coll[c])
      BY <1>3, <1>6
    <3>2. QED
      BY <3>1 DEF SameFlags
  <2>2. F \subseteq C
    BY <1>2 DEF D
  <2>3. QED
    BY <1>3, <1>6, <2>1, <2>2 DEF Removed
<1>14. \A c \in C : i \in Linked(t, c) => t.link[c][i].destroyed
  <2>1. ASSUME NEW c \in C, i \in Linked(t, c) PROVE t.link[c][i].destroyed
    <3>1. c \in Colls /\ c \notin F /\ i \in Linked(s, c)
      BY <1>3, <1>6, <2>1
    <3>2. t.link[c][i] = m.link[c][i]
      BY <1>6, <3>1
    <3>3. QED
      BY <1>3, <1>9, <3>1, <3>2
  <2>2. QED
    BY <2>1
<1>15. Leaves(s, t)
  <2>1. s.stack \in Seq(Frames) /\ Len(s.stack) \in Nat /\ DOMAIN s.stack = 1 .. Len(s.stack)
    BY <1>1, StackIs
  <2>2. ASSUME NEW n \in 1 .. Len(s.stack), s.stack[n].c \in Colls
        PROVE  ToVisit(t, s.stack[n].c, t.stack[n].next) =
                   ToVisit(s, s.stack[n].c, s.stack[n].next) \cap Members(t, s.stack[n].c)
    <3> DEFINE c == s.stack[n].c
    <3>1. s.stack[n].next \in Linked(s, c) \cup {None}
      BY <1>1, <2>1 DEF NextOK
    <3>2. ToVisit(t, c, t.stack[n].next) = ToVisit(m, c, s.stack[n].next)
      BY <1>3, <1>6, <2>2
    <3>3. Members(t, c) = Members(m, c)
      BY <1>6, <2>2
    <3>4. ToVisit(m, c, s.stack[n].next) = ToVisit(s, c, s.stack[n].next) \cap Members(m, c)
      BY <1>3, <2>2, <3>1
    <3>5. QED
      BY <3>2, <3>3, <3>4
  <2>3. \A n \in 1 .. Len(s.stack) : SameCall(s.stack[n], t.stack[n])
    BY <1>3, <1>6
  <2>4. \A c \in Colls : Members(t, c) \subseteq Members(s, c)
    BY <1>3, <1>6
  <2>5. Len(t.stack) = Len(s.stack)
    BY <1>3, <1>6
  <2>6. QED
    BY <1>1, <2>2, <2>3, <2>4, <2>5, LeavesInPlace
<1>16. QED
  BY <1>4, <1>6, <1>10, <1>11, <1>12, <1>13, <1>14, <1>15 DEF ListsOK

(* obj_unref of an instance that is locked.                                *)
LEMMA InstanceUnrefIs ==
  ASSUME NEW s, ListsOK(s), NEW c \in Colls, NEW i \in Items, s.link[c][i].ref > 0
  PROVE  LET t == InstanceUnref(s, c, i)
         IN  /\ ListsOK(t) /\ Removed(s, t, {c}, i) /\ Leaves(s, t)
             /\ t.link[c][i].ref = s.link[c][i].ref - 1
             /\ \A k \in Colls, j \in Items :
                    <<k, j>> # <<c, i>> => t.link[k][j].ref = s.link[k][j].ref
<1> DEFINE l == s.link[c][i]
           k0 == [l EXCEPT !.ref = @ - 1]
           m == [s EXCEPT !.link[c][i].ref = @ - 1]
           t == InstanceUnref(s, c, i)
<1>1. Typed(s) /\ NextOK(s) /\ LinksOK(s) /\ Sizes(s) /\ s \in States
  BY DEF ListsOK, Typed
<1>2. l \in LinkType /\ s.link \in [Colls -> [Items -> LinkType]]
  BY <1>1 DEF States
<1>3. /\ k0 \in LinkType /\ k0.destroyed = l.destroyed /\ k0.ref = l.ref - 1
  <2> HIDE DEF l
  <2>1. l.ref \in Nat /\ l.ref - 1 \in Nat
    <3>1. l.ref > 0
      BY DEF l
    <3>2. QED
      BY <1>2, <3>1 DEF LinkType
  <2>2. QED
    BY <1>2, <2>1 DEF LinkType
<1>4. /\ m.item = s.item /\ m.coll = s.coll /\ m.stack = s.stack
      /\ m.link = [s.link EXCEPT ![c][i] = k0]
  BY <1>1, <1>2 DEF States
<1>5. i \in Linked(s, c)
  BY <1>1, <1>2 DEF LinksOK, NewLink
<1>6. m \in States
  <2>1. [s.link EXCEPT ![c][i] = k0] \in [Colls -> [Items -> LinkType]]
    <3> HIDE DEF k0
    <3>1. QED
      BY <1>2, <1>3
  <2>2. m = [s EXCEPT !.link = [s.link EXCEPT ![c][i] = k0]]
    BY <1>1, <1>2 DEF States
  <2> HIDE DEF m, k0
  <2>3. QED
    BY <1>1, <2>1, <2>2 DEF States
<1>7. /\ m.link[c][i] = k0
      /\ \A k \in Colls, j \in Items : <<k, j>> # <<c, i>> => m.link[k][j] = s.link[k][j]
  <2> HIDE DEF m, k0
  <2>1. QED
    BY <1>2, <1>4
<1>8. t = IF k0.destroyed /\ k0.ref = 0 THEN InstanceObjDestroy(m, {c}, i) ELSE m
  <2>1. ~(s.link[c][i].ref = 0)
    BY <1>2 DEF LinkType
  <2>2. t = IF m.link[c][i].destroyed /\ m.link[c][i].ref = 0 THEN InstanceObjDestroy(m, {c}, i) ELSE m
    BY <2>1 DEF InstanceUnref
  <2> HIDE DEF m, t
  <2>3. QED
    BY <1>7, <2>2
<1> HIDE DEF m, t, k0, l
<1>9. \A k \in Colls : Linked(m, k) = Linked(s, k)
  BY <1>4 DEF Linked
<1>10. Typed(m) /\ NextOK(m)
  BY <1>1, <1>4, <1>6 DEF Typed, NextOK, Linked
<1>11. ASSUME NEW k \in Colls, NEW j \in Items
       PROVE  m.link[k][j].destroyed = s.link[k][j].destroyed
  <2>1. CASE k = c /\ j = i
    BY <1>3, <1>7, <2>1 DEF l
  <2>2. CASE ~(k = c /\ j = i)
    BY <1>7, <2>2
  <2>3. QED
    BY <2>1, <2>2
<1>12. \A k \in Colls : Live(m, k) = Live(s, k) /\ Members(m, k) = Members(s, k)
  <2>1. \A k \in Colls : \A j \in Linked(s, k) : j \in Items
    BY <1>1, CollIs
  <2>2. \A k \in Colls : Live(m, k) = Live(s, k)
    BY <1>9, <1>11, <2>1 DEF Live
  <2>3. \A k \in Colls : \A j \in Linked(s, k) : Valid(m, k, j) <=> Valid(s, k, j)
    BY <1>4, <1>11, <2>1 DEF Valid
  <2>4. QED
    BY <1>4, <1>9, <2>2, <2>3 DEF Members
<1>13. ASSUME NEW k \in Colls, NEW n \in Linked(s, k) \cup {None}
       PROVE  ToVisit(m, k, n) = ToVisit(s, k, n) /\ ToVisit(s, k, n) \subseteq Members(s, k)
  <2>1. \A j \in Linked(s, k) : j \in Items
    BY <1>1, CollIs
  <2>2. \A j \in Linked(s, k) : Valid(m, k, j) => Valid(s, k, j)
    BY <1>4, <1>11, <2>1 DEF Valid
  <2>3. m.coll[k].order = s.coll[k].order /\ m.coll[k].destroyed = s.coll[k].destroyed
    BY <1>4
  <2>4. ToVisit(m, k, n) = ToVisit(s, k, n) \cap Members(m, k)
    BY <1>1, <1>10, <2>2, <2>3, FewerValid
  <2>5. ToVisit(s, k, n) \subseteq Members(s, k)
    BY <1>1, ToVisitIs
  <2>6. QED
    BY <1>12, <2>4, <2>5
<1>14. /\ Len(s.stack) \in Nat /\ DOMAIN s.stack = 1 .. Len(s.stack)
  BY <1>1, StackIs
<1>15. Sizes(m)
  BY <1>1, <1>4, <1>12 DEF Sizes
<1>16. CASE k0.destroyed /\ k0.ref = 0
  <2>1. t = InstanceObjDestroy(m, {c}, i)
    BY <1>8, <1>16
  <2>2. \A k \in {c} : i \in Linked(m, k) /\ m.link[k][i].destroyed
    BY <1>5, <1>7, <1>9, <1>16
  <2>3. /\ Typed(t) /\ NextOK(t) /\ t.item = m.item
        /\ \A k \in Colls :
               /\ SameFlags(m.coll[k], t.coll[k]) /\ t.coll[k].size = m.coll[k].size
               /\ Linked(t, k) = IF k \in {c} THEN Linked(m, k) \ {i} ELSE Linked(m, k)
               /\ \A j \in Items : t.link[k][j] = IF k \in {c} /\ j = i THEN NewLink
                                                  ELSE m.link[k][j]
               /\ Live(t, k) = Live(m, k) /\ Members(t, k) = Members(m, k)
        /\ Len(t.stack) = Len(m.stack)
        /\ \A n \in 1 .. Len(m.stack) : LET f == m.stack[n]  g == t.stack[n] IN
               /\ SameCall(f, g)
               /\ f.c \in Colls => ToVisit(t, f.c, g.next) = ToVisit(m, f.c, f.next)
    <3>1. LeaveUnseen(m, t, {c}, i)
      BY <1>10, <2>1, <2>2, UnlinkIs
    <3>2. QED
      BY <3>1 DEF LeaveUnseen
  <2>4. Sizes(t)
    BY <1>15, <2>3 DEF Sizes
  <2>5. LinksOK(t)
    <3>1. ASSUME NEW k \in Colls, NEW j \in Items
          PROVE  /\ j \notin Linked(t, k) => t.link[k][j] = NewLink
                 /\ j \in Linked(t, k) /\ t.link[k][j].destroyed => t.link[k][j].ref > 0
      <4>1. CASE k = c /\ j = i
        BY <2>3, <4>1
      <4>2. CASE ~(k = c /\ j = i)
        <5>1. t.link[k][j] = s.link[k][j] /\ (j \in Linked(t, k) <=> j \in Linked(s, k))
          BY <1>7, <1>9, <2>3, <4>2
        <5>2. QED
          BY <1>1, <5>1 DEF LinksOK
      <4>3. QED
        BY <4>1, <4>2
    <3>2. QED
      BY <3>1 DEF LinksOK
  <2>6. Removed(s, t, {c}, i)
    BY <1>4, <1>9, <2>3 DEF Removed
  <2>7. Leaves(s, t)
    <3>1. ASSUME NEW n \in 1 .. Len(s.stack), s.stack[n].c \in Colls
          PROVE  ToVisit(t, s.stack[n].c, t.stack[n].next) =
                     ToVisit(s, s.stack[n].c, s.stack[n].next) \cap Members(t, s.stack[n].c)
      <4>1. s.stack[n].next \in Linked(s, s.stack[n].c) \cup {None}
        BY <1>1, <1>14 DEF NextOK
      <4>2. ToVisit(t, s.stack[n].c, t.stack[n].next) = ToVisit(s, s.stack[n].c, s.stack[n].next)
        BY <1>4, <1>13, <2>3, <3>1, <4>1
      <4>3. Members(t, s.stack[n].c) = Members(s, s.stack[n].c)
        BY <1>12, <2>3, <3>1
      <4>4. QED
        BY <1>13, <3>1, <4>1, <4>2, <4>3
    <3>2. QED
      <4>1. /\ Len(t.stack) = Len(s.stack) /\ \A k \in Colls : Members(t, k) \subseteq Members(s, k)
            /\ \A n \in 1 .. Len(s.stack) : SameCall(s.stack[n], t.stack[n])
        BY <1>4, <1>12, <2>3
      <4>2. QED
        BY <1>1, <3>1, <4>1, LeavesInPlace
  <2>8. t.link[c][i].ref = l.ref - 1
    BY <1>3, <1>16, <2>3 DEF NewLink
  <2>9. \A k \in Colls, j \in Items : <<k, j>> # <<c, i>> => t.link[k][j] = s.link[k][j]
    BY <1>7, <2>3
  <2>10. QED
    BY <2>3, <2>4, <2>5, <2>6, <2>7, <2>8, <2>9 DEF ListsOK, t, l
<1>17. CASE ~(k0.destroyed /\ k0.ref = 0)
  <2>1. t = m
    BY <1>8, <1>17
  <2>2. LinksOK(m)
    <3>1. ASSUME NEW k \in Colls, NEW j \in Items
          PROVE  /\ j \notin Linked(m, k) => m.link[k][j] = NewLink
                 /\ j \in Linked(m, k) /\ m.link[k][j].destroyed => m.link[k][j].ref > 0
      <4>1. CASE k = c /\ j = i
        <5>1. k0.ref \in Nat
          BY <1>3 DEF LinkType
        <5>2. QED
          BY <1>5, <1>7, <1>9, <1>17, <4>1, <5>1
      <4>2. CASE ~(k = c /\ j = i)
        BY <1>1, <1>7, <1>9, <4>2 DEF LinksOK
      <4>3. QED
        BY <4>1, <4>2
    <3>2. QED
      BY <3>1 DEF LinksOK
  <2>3. Removed(s, m, {c}, i)
    BY <1>4, <1>9 DEF Removed, SameFlags, SameCall
  <2>4. Leaves(s, m)
    <3>1. ASSUME NEW n \in 1 .. Len(s.stack), s.stack[n].c \in Colls
          PROVE  ToVisit(m, s.stack[n].c, m.stack[n].next) =
                     ToVisit(s, s.stack[n].c, s.stack[n].next) \cap Members(m, s.stack[n].c)
      <4>1. s.stack[n].next \in Linked(s, s.stack[n].c) \cup {None}
        BY <1>1, <1>14 DEF NextOK
      <4>2. QED
        BY <1>4, <1>12, <1>13, <3>1, <4>1
    <3>2. QED
      <4>1. /\ Len(m.stack) = Len(s.stack) /\ \A k \in Colls : Members(m, k) \subseteq Members(s, k)
            /\ \A n \in 1 .. Len(s.stack) : SameCall(s.stack[n], m.stack[n])
        BY <1>4, <1>12 DEF SameCall
      <4>2. QED
        BY <1>1, <3>1, <4>1, LeavesInPlace
  <2>5. m.link[c][i].ref = l.ref - 1
    BY <1>3, <1>7
  <2>6. QED
    BY <1>7, <1>10, <1>15, <2>1, <2>2, <2>3, <2>4, <2>5 DEF ListsOK, t, l
<1>18. QED
  BY <1>16, <1>17

(*---------------------------- what a step leaves --------------------------*)
LEMMA NoneIs ==
  /\ None \notin Colls /\ None \notin Items
  /\ Cascade \subseteq Colls /\ MaxDepth \in Nat /\ DestroyBusy \in BOOLEAN
BY CollectionAssumption

(* An iterator has only members to visit.                                  *)
LEMMA VisitsMembers ==
  ASSUME NEW s, ListsOK(s), NEW n \in 1 .. Len(s.stack)
  PROVE  /\ s.stack[n] \in Frames
         /\ s.stack[n].c \in Colls =>
                /\ s.stack[n].next \in Linked(s, s.stack[n].c) \cup {None}
                /\ ToVisit(s, s.stack[n].c, s.stack[n].next) \subseteq Members(s, s.stack[n].c)
<1>1. Typed(s) /\ NextOK(s) /\ s \in States
  BY DEF ListsOK, Typed
<1>2. n \in DOMAIN s.stack /\ s.stack[n] \in Frames
  BY <1>1, StackIs
<1>3. s.stack[n].next \in Linked(s, s.stack[n].c) \cup {None}
  BY <1>1, <1>2 DEF NextOK
<1>4. QED
  BY <1>1, <1>2, <1>3, ToVisitIs

LEMMA LeavesTwice ==
  ASSUME NEW s, NEW t, NEW u, ListsOK(s), ListsOK(t), ListsOK(u), Leaves(s, t), Leaves(t, u)
  PROVE  Leaves(s, u)
<1>1. Len(s.stack) \in Nat /\ Len(t.stack) \in Nat /\ Len(u.stack) \in Nat
  BY StackIs DEF ListsOK, Typed
<1>2. \A c \in Colls : Members(t, c) \subseteq Members(s, c) /\ Members(u, c) \subseteq Members(t, c)
  BY DEF Leaves
<1>3. Len(s.stack) <= Len(t.stack) /\ Len(t.stack) <= Len(u.stack)
  BY DEF Leaves
<1>4. ASSUME NEW n \in 1 .. Len(s.stack)
      PROVE  LET f == s.stack[n]  g == u.stack[n] IN
             /\ SameCall(f, g)
             /\ f.c \in Colls =>
                    ToVisit(u, f.c, g.next) = ToVisit(s, f.c, f.next) \cap Members(u, f.c)
  <2> DEFINE f == s.stack[n]  g == t.stack[n]  h == u.stack[n]
  <2>1. n \in 1 .. Len(t.stack)
    BY <1>1, <1>3
  <2>2. /\ SameCall(f, g)
        /\ f.c \in Colls => ToVisit(t, f.c, g.next) = ToVisit(s, f.c, f.next) \cap Members(t, f.c)
    BY DEF Leaves
  <2>3. /\ SameCall(g, h)
        /\ g.c \in Colls => ToVisit(u, g.c, h.next) = ToVisit(t, g.c, g.next) \cap Members(u, g.c)
    BY <2>1 DEF Leaves
  <2> HIDE DEF f, g, h
  <2>4. SameCall(f, h) /\ g.c = f.c
    BY <2>2, <2>3 DEF SameCall
  <2>5. f.c \in Colls => ToVisit(u, f.c, h.next) = ToVisit(s, f.c, f.next) \cap Members(u, f.c)
    BY <1>2, <2>2, <2>3, <2>4
  <2>6. QED
    BY <2>4, <2>5 DEF f, h
<1>5. ASSUME NEW n \in Len(s.stack) + 1 .. Len(u.stack)
      PROVE  ~Running(u.stack[n])
  <2>1. CASE n \in Len(t.stack) + 1 .. Len(u.stack)
    BY <2>1 DEF Leaves
  <2>2. CASE n \notin Len(t.stack) + 1 .. Len(u.stack)
    <3>1. n \in 1 .. Len(t.stack) /\ n \in Len(s.stack) + 1 .. Len(t.stack)
      BY <1>1, <2>2
    <3>2. ~Running(t.stack[n]) /\ SameCall(t.stack[n], u.stack[n])
      BY <3>1 DEF Leaves
    <3>3. QED
      BY <3>2 DEF Running, SameCall
  <2>3. QED
    BY <2>1, <2>2
<1>6. QED
  <2>1. \A c \in Colls : Members(u, c) \subseteq Members(s, c)
    BY <1>2
  <2>2. Len(s.stack) <= Len(u.stack)
    BY <1>1, <1>3
  <2>3. QED
    BY <1>4, <1>5, <2>1, <2>2 DEF Leaves

(* A step that only counts references or raises marks.                     *)
Touched(s, t) ==
    /\ t \in States /\ t.stack = s.stack /\ LinksOK(t)
    /\ \A c \in Colls :
           /\ t.coll[c].order = s.coll[c].order /\ t.coll[c].size = s.coll[c].size
           /\ s.coll[c].destroyed => t.coll[c].destroyed
           /\ \A i \in Items : t.link[c][i].destroyed = s.link[c][i].destroyed
    /\ \A i \in Items :
           /\ s.item[i].destroyed => t.item[i].destroyed
           /\ s.item[i].cbDestroyed => t.item[i].cbDestroyed
           /\ s.item[i].called => t.item[i].called
LEMMA TouchedIs ==
  ASSUME NEW s, ListsOK(s), NEW t, Touched(s, t)
  PROVE  /\ ListsOK(t) /\ Leaves(s, t)
         /\ \A c \in Colls : Linked(t, c) = Linked(s, c)
<1>1. Typed(s) /\ NextOK(s) /\ s \in States /\ t \in States /\ t.stack = s.stack
  BY DEF ListsOK, Typed, Touched
<1>2. \A c \in Colls : t.coll[c].order = s.coll[c].order /\ Linked(t, c) = Linked(s, c)
  BY DEF Touched, Linked
<1>3. Typed(t)
  BY <1>1, <1>2 DEF Typed
<1>4. ASSUME NEW n \in 1 .. Len(s.stack)
      PROVE  /\ s.stack[n] \in Frames /\ n \in DOMAIN s.stack
             /\ s.stack[n].next # None => s.stack[n].next \in Linked(s, s.stack[n].c) /\ s.stack[n].c \in Colls
  <2>1. n \in DOMAIN s.stack /\ s.stack[n] \in Frames
    BY <1>1, StackIs
  <2>2. QED
    BY <1>1, <2>1, FrameIs DEF NextOK
<1>5. NextOK(t)
  <2>1. DOMAIN s.stack = 1 .. Len(s.stack)
    BY <1>1, StackIs
  <2>2. QED
    BY <1>1, <1>2, <1>4, <2>1 DEF NextOK
<1>6. ASSUME NEW c \in Colls
      PROVE  /\ Live(t, c) = Live(s, c)
             /\ \A j \in Linked(s, c) : Valid(t, c, j) => Valid(s, c, j)
  <2>1. \A j \in Linked(s, c) : j \in Items
    BY <1>1, CollIs
  <2>2. QED
    BY <1>2, <2>1 DEF Touched, Live, Valid
<1>7. ASSUME NEW c \in Colls, NEW n \in Linked(s, c) \cup {None}
      PROVE  /\ Members(t, c) \subseteq Members(s, c)
             /\ ToVisit(t, c, n) = ToVisit(s, c, n) \cap Members(t, c)
  <2>1. s.coll[c].destroyed => t.coll[c].destroyed
    BY DEF Touched
  <2>2. QED
    BY <1>1, <1>2, <1>3, <1>6, <2>1, FewerValid
<1>8. ListsOK(t)
  <2>1. Sizes(t)
    BY <1>6 DEF Touched, Sizes, ListsOK
  <2>2. LinksOK(t)
    BY DEF Touched
  <2>3. QED
    BY <1>3, <1>5, <2>1, <2>2 DEF ListsOK
<1>9. Leaves(s, t)
  <2>1. ASSUME NEW n \in 1 .. Len(s.stack), s.stack[n].c \in Colls
        PROVE  ToVisit(t, s.stack[n].c, t.stack[n].next) =
                   ToVisit(s, s.stack[n].c, s.stack[n].next) \cap Members(t, s.stack[n].c)
    <3>1. s.stack[n].next \in Linked(s, s.stack[n].c) \cup {None}
      BY <1>4
    <3>2. QED
      BY <1>1, <1>7, <2>1, <3>1
  <2>2. \A c \in Colls : Members(t, c) \subseteq Members(s, c)
    BY <1>7
  <2>3. \A n \in 1 .. Len(s.stack) : SameCall(s.stack[n], t.stack[n])
    BY <1>1 DEF SameCall
  <2>4. QED
    BY <1>1, <2>1, <2>2, <2>3, LeavesInPlace
<1>10. QED
  BY <1>2, <1>8, <1>9

(* Calls that only moved their iterators.                                  *)
SameCalls(s, t) == /\ Len(t.stack) = Len(s.stack)
                   /\ \A n \in 1 .. Len(s.stack) : SameCall(s.stack[n], t.stack[n])
LEMMA LeavesCalls ==
  ASSUME NEW s \in States, NEW t \in States, SameCalls(s, t), Leaves(s, t)
  PROVE  /\ Swept(s) => Swept(t)
         /\ Nested(s) => Nested(t)
<1>1. ASSUME Swept(s), NEW n \in 1 .. Len(t.stack), t.stack[n].op = "destroy"
      PROVE  Members(t, t.stack[n].c) \subseteq ToVisit(t, t.stack[n].c, t.stack[n].next)
  <2>1. n \in 1 .. Len(s.stack) /\ SameCall(s.stack[n], t.stack[n]) /\ s.stack[n] \in Frames
    BY <1>1, StackIs DEF SameCalls
  <2>2. s.stack[n].op = "destroy" /\ t.stack[n].c = s.stack[n].c
    BY <1>1, <2>1 DEF SameCall
  <2>3. s.stack[n].c \in Colls
    BY <2>1, <2>2, FrameIs DEF FrameShape
  <2>4. Members(s, s.stack[n].c) \subseteq ToVisit(s, s.stack[n].c, s.stack[n].next)
    BY <1>1, <2>1, <2>2 DEF Swept
  <2>5. /\ ToVisit(t, s.stack[n].c, t.stack[n].next) =
               ToVisit(s, s.stack[n].c, s.stack[n].next) \cap Members(t, s.stack[n].c)
        /\ Members(t, s.stack[n].c) \subseteq Members(s, s.stack[n].c)
    BY <2>1, <2>3 DEF Leaves
  <2>6. QED
    BY <2>2, <2>4, <2>5
<1>2. ASSUME Nested(s), NEW n \in 1 .. Len(t.stack), Running(t.stack[n]) PROVE n <= MaxDepth
  <2>1. n \in 1 .. Len(s.stack) /\ SameCall(s.stack[n], t.stack[n])
    BY DEF SameCalls
  <2>2. Running(s.stack[n])
    BY <1>2, <2>1 DEF Running, SameCall
  <2>3. QED
    BY <1>2, <2>1, <2>2 DEF Nested
<1>3. QED
  BY <1>1, <1>2 DEF Swept, Nested

(* Lives go on in a step that changes no object and no call.               *)
LEMMA SameLife ==
  ASSUME NEW s \in States, NEW t \in States, SameCalls(s, t), t.item = s.item,
         \A c \in Colls : SameFlags(s.coll[c], t.coll[c]) /\ Linked(t, c) \subseteq Linked(s, c)
  PROVE  /\ \A i \in Items : ItemLife(s, i) => ItemLife(t, i)
         /\ \A c \in Colls : CollLife(s, c) => CollLife(t, c)
         /\ Calls(s) => Calls(t)
         /\ Emptied(s) => Emptied(t)
<1>1. DOMAIN s.stack = 1 .. Len(s.stack) /\ DOMAIN t.stack = 1 .. Len(s.stack) /\ Len(t.stack) = Len(s.stack)
  BY StackIs DEF SameCalls
<1>2. ASSUME NEW n \in 1 .. Len(s.stack)
      PROVE  /\ t.stack[n].op = s.stack[n].op /\ t.stack[n].c = s.stack[n].c
             /\ t.stack[n].i = s.stack[n].i /\ t.stack[n].pc = s.stack[n].pc
             /\ LocksIt(t.stack[n]) <=> LocksIt(s.stack[n])
             /\ s.stack[n].c # None => s.stack[n].c \in Colls
             /\ s.stack[n].op \in {"destroy", "match", "lock"} => s.stack[n].c \in Colls
  <2>1. SameCall(s.stack[n], t.stack[n]) /\ s.stack[n] \in Frames
    BY StackIs DEF SameCalls
  <2>2. s.stack[n].c \in Colls \cup {None} /\ FrameShape(s.stack[n])
    BY <2>1, FrameIs
  <2>3. QED
    BY <2>1, <2>2 DEF SameCall, LocksIt, FrameShape
<1>3. ASSUME NEW i \in Items, ItemLife(s, i) PROVE ItemLife(t, i)
  BY <1>1, <1>2, <1>3 DEF ItemLife
<1>4. ASSUME NEW c \in Colls, CollLife(s, c) PROVE CollLife(t, c)
  <2>1. SameFlags(s.coll[c], t.coll[c])
    OBVIOUS
  <2>2. QED
    BY <1>1, <1>2, <1>4, <2>1 DEF CollLife, SameFlags
<1>5. ASSUME Calls(s) PROVE Calls(t)
  <2>1. ASSUME NEW n \in 1 .. Len(s.stack)
        PROVE  ItemCall(t, t.stack[n]) /\ CollCall(t, t.stack[n])
    <3>1. ItemCall(s, s.stack[n]) /\ CollCall(s, s.stack[n])
      BY <1>5 DEF Calls
    <3>2. ItemCall(t, t.stack[n])
      BY <1>2, <3>1 DEF ItemCall
    <3>3. s.stack[n].c \in Colls => SameFlags(s.coll[s.stack[n].c], t.coll[s.stack[n].c])
      OBVIOUS
    <3>4. LocksIt(s.stack[n]) => s.stack[n].c \in Colls
      BY <1>2 DEF LocksIt
    <3>5. CollCall(t, t.stack[n])
      BY <1>2, <3>1, <3>3, <3>4 DEF CollCall, SameFlags
    <3>6. QED
      BY <3>2, <3>5
  <2>2. ASSUME NEW n \in 1 .. Len(s.stack), NEW m \in 1 .. Len(s.stack), n < m
        PROVE  Apart(t.stack[n], t.stack[m])
    <3>1. Apart(s.stack[n], s.stack[m])
      BY <1>5, <2>2 DEF Calls
    <3>2. QED
      BY <1>2, <3>1 DEF Apart
  <2>3. QED
    BY <1>1, <2>1, <2>2 DEF Calls
<1>6. ASSUME Emptied(s) PROVE Emptied(t)
  BY <1>6 DEF Emptied, SameFlags
<1>7. QED
  BY <1>3, <1>4, <1>5, <1>6

LEMMA RemovedSound ==
  ASSUME NEW s, NEW t, NEW I, NEW C, Sound(s, I, C), ListsOK(t), NEW D, NEW i,
         Removed(s, t, D, i), Leaves(s, t)
  PROVE  Sound(t, I, C)
<1>1. s \in States /\ t \in States /\ ListsOK(s)
  BY DEF Sound, ListsOK, Typed
<1>2. SameCalls(s, t) /\ t.item = s.item
  BY DEF Removed, SameCalls
<1>3. \A c \in Colls : SameFlags(s.coll[c], t.coll[c]) /\ Linked(t, c) \subseteq Linked(s, c)
  BY DEF Removed
<1>4. /\ \A j \in Items : ItemLife(s, j) => ItemLife(t, j)
      /\ \A c \in Colls : CollLife(s, c) => CollLife(t, c)
      /\ Calls(s) => Calls(t)
      /\ Emptied(s) => Emptied(t)
  BY <1>1, <1>2, <1>3, SameLife
<1>5. Swept(t) /\ Nested(t)
  BY <1>1, <1>2, LeavesCalls DEF Sound
<1>6. QED
  BY <1>4, <1>5 DEF Sound, Alive

LEMMA RemovedRefs ==
  ASSUME NEW s \in States, NEW t \in States, NEW D, NEW x, Removed(s, t, D, x),
         \A c \in Colls, i \in Items : t.link[c][i].ref = s.link[c][i].ref,
         NEW C, NEW I, NEW kc, NEW ki, NEW kb, NEW kl, Refs(s, C, I, kc, ki, kb, kl)
  PROVE  Refs(t, C, I, kc, ki, kb, kl)
<1>1. /\ \A c : CollCount(t, c) = CollCount(s, c)
      /\ \A i : ItemCount(t, i) = ItemCount(s, i) /\ CbCount(t, i) = CbCount(s, i)
      /\ \A c, i : LinkCount(t, c, i) = LinkCount(s, c, i)
  BY SameCounts DEF Removed
<1>2. t.item = s.item /\ \A c \in Colls : t.coll[c].ref = s.coll[c].ref
  BY DEF Removed, SameFlags
<1>3. QED
  BY <1>1, <1>2 DEF Refs

(* Calls alone change no list.                                             *)
LEMMA SameSets ==
  ASSUME NEW s, NEW t, t.coll = s.coll, t.item = s.item, t.link = s.link, NEW c
  PROVE  /\ Linked(t, c) = Linked(s, c) /\ Live(t, c) = Live(s, c)
         /\ Members(t, c) = Members(s, c)
         /\ \A n : ToVisit(t, c, n) = ToVisit(s, c, n)
<1>1. Linked(t, c) = Linked(s, c)
  BY DEF Linked
<1>2. \A i : Valid(t, c, i) <=> Valid(s, c, i)
  BY DEF Valid
<1>3. Live(t, c) = Live(s, c)
  BY <1>1 DEF Live
<1>4. {i \in Linked(t, c) : Valid(t, c, i)} = {i \in Linked(s, c) : Valid(s, c, i)}
  BY <1>1, <1>2
<1>5. Members(t, c) = Members(s, c)
  BY <1>4 DEF Members
<1>6. ASSUME NEW n PROVE ToVisit(t, c, n) = ToVisit(s, c, n)
  BY <1>2 DEF ToVisit
<1>7. QED
  BY <1>1, <1>3, <1>5, <1>6

(* A call begins, or ends, or is on top.                                   *)
Fits(s, f) ==
    /\ f \in Frames /\ f.op \notin {"dtor", "destroy"}
    /\ f.next # None => f.next \in Linked(s, f.c)
    /\ ItemCall(s, f) /\ CollCall(s, f)
    /\ Running(f) => Len(s.stack) + 1 <= MaxDepth
LEMMA PushLists ==
  ASSUME NEW s, ListsOK(s), NEW f \in Frames, f.next # None => f.next \in Linked(s, f.c)
  PROVE  /\ ListsOK(Push(s, f))
         /\ ~Running(f) => Leaves(s, Push(s, f))
         /\ \A c : Members(Push(s, f), c) = Members(s, c)
         /\ \A c, n : ToVisit(Push(s, f), c, n) = ToVisit(s, c, n)
<1> DEFINE t == Push(s, f)
           l == Len(s.stack)
<1>1. Typed(s) /\ NextOK(s) /\ s \in States
  BY DEF ListsOK, Typed
<1>2. /\ t \in States /\ t.coll = s.coll /\ t.item = s.item /\ t.link = s.link
      /\ Len(t.stack) = l + 1 /\ DOMAIN t.stack = 1 .. l + 1
      /\ \A n \in 1 .. l : t.stack[n] = s.stack[n]
      /\ t.stack[l + 1] = f /\ l \in Nat /\ DOMAIN s.stack = 1 .. l
  BY <1>1, PushIs, StackIs
<1> HIDE DEF t, l
<1>0. t.coll = s.coll /\ t.item = s.item /\ t.link = s.link
  BY <1>2
<1>3. \A c : Linked(t, c) = Linked(s, c) /\ Live(t, c) = Live(s, c)
  BY <1>0, SameSets
<1>5. \A c : Members(t, c) = Members(s, c) /\ \A n : ToVisit(t, c, n) = ToVisit(s, c, n)
  BY <1>0, SameSets
<1>7. ListsOK(t)
  <2>1. Typed(t)
    BY <1>1, <1>2 DEF Typed
  <2>2. NextOK(t)
    <3>1. ASSUME NEW n \in 1 .. l + 1, t.stack[n].next # None
          PROVE  t.stack[n].next \in Linked(t, t.stack[n].c)
      <4>1. CASE n = l + 1
        BY <1>2, <1>3, <3>1, <4>1
      <4>2. CASE n # l + 1
        <5>1. n \in 1 .. l
          BY <1>2, <4>2
        <5>2. QED
          BY <1>1, <1>2, <1>3, <3>1, <5>1 DEF NextOK
      <4>3. QED
        BY <4>1, <4>2
    <3>2. QED
      BY <1>2, <3>1 DEF NextOK
  <2>3. LinksOK(t)
    BY <1>2, <1>3 DEF LinksOK, ListsOK
  <2>4. Sizes(t)
    BY <1>2, <1>3 DEF Sizes, ListsOK
  <2>5. QED
    BY <2>1, <2>2, <2>3, <2>4 DEF ListsOK
<1>8. ASSUME ~Running(f) PROVE Leaves(s, t)
  <2>1. ASSUME NEW n \in 1 .. l
        PROVE  LET e == s.stack[n]  g == t.stack[n] IN
               /\ SameCall(e, g)
               /\ e.c \in Colls => ToVisit(t, e.c, g.next) = ToVisit(s, e.c, e.next) \cap Members(t, e.c)
    <3>1. t.stack[n] = s.stack[n]
      BY <1>2
    <3>2. s.stack[n].c \in Colls =>
              ToVisit(s, s.stack[n].c, s.stack[n].next) \subseteq Members(s, s.stack[n].c)
      BY VisitsMembers DEF l
    <3>3. QED
      BY <1>5, <3>1, <3>2 DEF SameCall
  <2>2. \A n \in l + 1 .. l + 1 : ~Running(t.stack[n])
    <3>1. \A n \in l + 1 .. l + 1 : n = l + 1
      BY <1>2
    <3>2. QED
      BY <1>2, <1>8, <3>1
  <2>3. l <= Len(t.stack) /\ \A c \in Colls : Members(t, c) \subseteq Members(s, c)
    BY <1>2, <1>5
  <2>4. QED
    BY <1>2, <2>1, <2>2, <2>3 DEF Leaves, l
<1>9. QED
  BY <1>5, <1>7, <1>8 DEF t

LEMMA PopLists ==
  ASSUME NEW s, ListsOK(s), s.stack # <<>>
  PROVE  /\ ListsOK(Pop(s))
         /\ \A c : Linked(Pop(s), c) = Linked(s, c) /\ Members(Pop(s), c) = Members(s, c)
         /\ \A c, n : ToVisit(Pop(s), c, n) = ToVisit(s, c, n)
<1> DEFINE t == Pop(s)
           l == Len(s.stack)
<1>1. Typed(s) /\ NextOK(s) /\ s \in States
  BY DEF ListsOK, Typed
<1>2. /\ t \in States /\ t.coll = s.coll /\ t.item = s.item /\ t.link = s.link
      /\ l \in Nat \ {0} /\ Len(t.stack) = l - 1 /\ DOMAIN t.stack = 1 .. l - 1
      /\ \A n \in 1 .. l - 1 : t.stack[n] = s.stack[n]
      /\ DOMAIN s.stack = 1 .. l
  BY <1>1, PopIs, StackIs
<1> HIDE DEF t, l
<1>0. t.coll = s.coll /\ t.item = s.item /\ t.link = s.link
  BY <1>2
<1>3. \A c : Linked(t, c) = Linked(s, c) /\ Live(t, c) = Live(s, c)
  BY <1>0, SameSets
<1>5. \A c : Members(t, c) = Members(s, c) /\ \A n : ToVisit(t, c, n) = ToVisit(s, c, n)
  BY <1>0, SameSets
<1>7. NextOK(t)
  <2>1. \A n \in 1 .. l - 1 : n \in 1 .. l
    BY <1>2
  <2>2. QED
    BY <1>1, <1>2, <1>3, <2>1 DEF NextOK
<1>8. Typed(t)
  BY <1>1, <1>2 DEF Typed
<1>9. LinksOK(t)
  BY <1>2, <1>3 DEF LinksOK, ListsOK
<1>10. Sizes(t)
  BY <1>2, <1>3 DEF Sizes, ListsOK
<1>11. QED
  BY <1>3, <1>5, <1>7, <1>8, <1>9, <1>10 DEF ListsOK, t

LEMMA PushLife ==
  ASSUME NEW s \in States, NEW f \in Frames
  PROVE  /\ \A i \in Items : ItemLife(s, i) => ItemLife(Push(s, f), i)
         /\ \A c \in Colls : CollLife(s, c) => CollLife(Push(s, f), c)
         /\ Emptied(s) => Emptied(Push(s, f))
         /\ Calls(s) /\ ItemCall(s, f) /\ CollCall(s, f)
            /\ (\A n \in 1 .. Len(s.stack) : Apart(s.stack[n], f)) => Calls(Push(s, f))
         /\ Nested(s) /\ (Running(f) => Len(s.stack) + 1 <= MaxDepth) => Nested(Push(s, f))
<1> DEFINE t == Push(s, f)
           l == Len(s.stack)
<1>1. /\ t.coll = s.coll /\ t.item = s.item /\ t.link = s.link
      /\ Len(t.stack) = l + 1 /\ DOMAIN t.stack = 1 .. l + 1
      /\ \A n \in 1 .. l : t.stack[n] = s.stack[n]
      /\ t.stack[l + 1] = f /\ l \in Nat /\ DOMAIN s.stack = 1 .. l
  BY PushIs, StackIs
<1> HIDE DEF t, l
<1>2. \A n \in 1 .. l : n \in 1 .. l + 1 /\ n < l + 1
  BY <1>1
<1>3. \A n \in 1 .. l + 1 : n \notin 1 .. l => n = l + 1
  BY <1>1
<1>4. \A c : Linked(t, c) = Linked(s, c)
  BY <1>1 DEF Linked
<1>5. ASSUME NEW i \in Items, ItemLife(s, i) PROVE ItemLife(t, i)
  BY <1>1, <1>2, <1>4, <1>5 DEF ItemLife
<1>6. ASSUME NEW c \in Colls, CollLife(s, c) PROVE CollLife(t, c)
  BY <1>1, <1>2, <1>6 DEF CollLife
<1>7. ASSUME Emptied(s) PROVE Emptied(t)
  BY <1>1, <1>4, <1>7 DEF Emptied
<1>8. ASSUME Calls(s), ItemCall(s, f), CollCall(s, f), \A n \in 1 .. l : Apart(s.stack[n], f)
      PROVE  Calls(t)
  <2>1. \A g : (ItemCall(s, g) => ItemCall(t, g)) /\ (CollCall(s, g) => CollCall(t, g))
    BY <1>1 DEF ItemCall, CollCall
  <2>2. \A n \in 1 .. l : ItemCall(s, s.stack[n]) /\ CollCall(s, s.stack[n])
    BY <1>8 DEF Calls, l
  <2>3. \A n \in 1 .. l + 1 : ItemCall(t, t.stack[n]) /\ CollCall(t, t.stack[n])
    BY <1>1, <1>3, <1>8, <2>1, <2>2
  <2>4. ASSUME NEW n \in 1 .. l + 1, NEW m \in 1 .. l + 1, n < m
        PROVE  Apart(t.stack[n], t.stack[m])
    <3>1. CASE m = l + 1
      <4>1. n \in 1 .. l
        BY <1>1, <2>4, <3>1
      <4>2. QED
        BY <1>1, <1>8, <3>1, <4>1
    <3>2. CASE m # l + 1
      <4>1. n \in 1 .. l /\ m \in 1 .. l
        BY <1>1, <2>4, <3>2
      <4>2. Apart(s.stack[n], s.stack[m])
        BY <1>8, <2>4, <4>1 DEF Calls, l
      <4>3. QED
        BY <1>1, <4>1, <4>2
    <3>3. QED
      BY <3>1, <3>2
  <2>5. QED
    BY <1>1, <2>3, <2>4 DEF Calls
<1>9. ASSUME Nested(s), Running(f) => l + 1 <= MaxDepth PROVE Nested(t)
  <2>1. ASSUME NEW n \in 1 .. l + 1, Running(t.stack[n]) PROVE n <= MaxDepth
    <3>1. CASE n = l + 1
      BY <1>1, <1>9, <2>1, <3>1
    <3>2. CASE n # l + 1
      <4>1. n \in 1 .. l /\ t.stack[n] = s.stack[n]
        BY <1>1, <1>3, <3>2
      <4>2. QED
        BY <1>9, <2>1, <4>1 DEF Nested, l
    <3>3. QED
      BY <3>1, <3>2
  <2>2. QED
    BY <1>1, <2>1 DEF Nested
<1>10. QED
  BY <1>5, <1>6, <1>7, <1>8, <1>9 DEF t, l

LEMMA PushSound ==
  ASSUME NEW s, NEW I, NEW C, Sound(s, I, C), NEW f, Fits(s, f)
  PROVE  Sound(Push(s, f), I, C)
<1> DEFINE t == Push(s, f)
<1>1. s \in States /\ ListsOK(s) /\ f \in Frames /\ f.op \notin {"dtor", "destroy"}
  BY DEF Sound, ListsOK, Typed, Fits
<1>2. ListsOK(t) /\ \A c : Members(t, c) = Members(s, c) /\ \A n : ToVisit(t, c, n) = ToVisit(s, c, n)
  BY <1>1, PushLists DEF Fits
<1>3. /\ \A i \in Items : ItemLife(s, i) => ItemLife(t, i)
      /\ \A c \in Colls : CollLife(s, c) => CollLife(t, c)
      /\ Emptied(s) => Emptied(t)
      /\ Calls(s) /\ ItemCall(s, f) /\ CollCall(s, f)
         /\ (\A n \in 1 .. Len(s.stack) : Apart(s.stack[n], f)) => Calls(t)
      /\ Nested(s) /\ (Running(f) => Len(s.stack) + 1 <= MaxDepth) => Nested(t)
  BY <1>1, PushLife
<1>4. /\ Len(t.stack) = Len(s.stack) + 1 /\ Len(s.stack) \in Nat
      /\ \A n \in 1 .. Len(s.stack) : t.stack[n] = s.stack[n]
      /\ t.stack[Len(s.stack) + 1] = f
  BY <1>1, PushIs, StackIs
<1> HIDE DEF t
<1>5. \A n \in 1 .. Len(s.stack) : Apart(s.stack[n], f)
  BY <1>1 DEF Apart
<1>6. Swept(t)
  <2>1. ASSUME NEW n \in 1 .. Len(t.stack), t.stack[n].op = "destroy"
        PROVE  Members(t, t.stack[n].c) \subseteq ToVisit(t, t.stack[n].c, t.stack[n].next)
    <3>1. n \in 1 .. Len(s.stack) /\ t.stack[n] = s.stack[n]
      BY <1>1, <1>4, <2>1
    <3>2. Members(s, s.stack[n].c) \subseteq ToVisit(s, s.stack[n].c, s.stack[n].next)
      BY <2>1, <3>1 DEF Swept, Sound
    <3>3. QED
      BY <1>2, <3>1, <3>2
  <2>2. QED
    BY <2>1 DEF Swept
<1>7. Alive(t, I, C) /\ Emptied(t) /\ Nested(t)
  BY <1>3, <1>5 DEF Sound, Alive, Fits
<1>8. QED
  BY <1>2, <1>6, <1>7 DEF Sound, t

LEMMA PopLife ==
  ASSUME NEW s \in States, s.stack # <<>>
  PROVE  /\ \A i \in Items : ItemLife(s, i) /\ ~(Top(s).op = "dtor" /\ Top(s).i = i) => ItemLife(Pop(s), i)
         /\ \A c \in Colls : CollLife(s, c) /\ ~(Top(s).op = "destroy" /\ Top(s).c = c) => CollLife(Pop(s), c)
         /\ Emptied(s) => Emptied(Pop(s))
         /\ Calls(s) => Calls(Pop(s)) /\ ItemCall(Pop(s), Top(s)) /\ CollCall(Pop(s), Top(s))
                        /\ \A n \in 1 .. Len(Pop(s).stack) : Apart(Pop(s).stack[n], Top(s))
         /\ Nested(s) => Nested(Pop(s)) /\ (Running(Top(s)) => Len(Pop(s).stack) + 1 <= MaxDepth)
<1> DEFINE t == Pop(s)
           l == Len(s.stack)
<1>1. /\ t.coll = s.coll /\ t.item = s.item /\ t.link = s.link
      /\ l \in Nat \ {0} /\ Len(t.stack) = l - 1 /\ DOMAIN t.stack = 1 .. l - 1
      /\ \A n \in 1 .. l - 1 : t.stack[n] = s.stack[n]
      /\ Top(s) = s.stack[l] /\ DOMAIN s.stack = 1 .. l
  BY PopIs, StackIs
<1> HIDE DEF t, l
<1>2. l \in 1 .. l /\ \A n \in 1 .. l - 1 : n \in 1 .. l /\ n < l
  BY <1>1
<1>3. \A n \in 1 .. l : n # l => n \in 1 .. l - 1
  BY <1>1
<1>4. \A c : Linked(t, c) = Linked(s, c)
  BY <1>1 DEF Linked
<1>5. ASSUME NEW i \in Items, ItemLife(s, i), ~(Top(s).op = "dtor" /\ Top(s).i = i) PROVE ItemLife(t, i)
  BY <1>1, <1>3, <1>4, <1>5 DEF ItemLife
<1>6. ASSUME NEW c \in Colls, CollLife(s, c), ~(Top(s).op = "destroy" /\ Top(s).c = c) PROVE CollLife(t, c)
  BY <1>1, <1>3, <1>6 DEF CollLife
<1>7. ASSUME Emptied(s) PROVE Emptied(t)
  BY <1>1, <1>4, <1>7 DEF Emptied
<1>8. ASSUME Calls(s)
      PROVE  /\ Calls(t) /\ ItemCall(t, Top(s)) /\ CollCall(t, Top(s))
             /\ \A n \in 1 .. l - 1 : Apart(t.stack[n], Top(s))
  <2>1. \A g : (ItemCall(s, g) => ItemCall(t, g)) /\ (CollCall(s, g) => CollCall(t, g))
    BY <1>1 DEF ItemCall, CollCall
  <2>2. /\ \A n \in 1 .. l : ItemCall(s, s.stack[n]) /\ CollCall(s, s.stack[n])
        /\ \A n, m \in 1 .. l : n < m => Apart(s.stack[n], s.stack[m])
    BY <1>8 DEF Calls, l
  <2>3. \A n \in 1 .. l - 1 : ItemCall(t, t.stack[n]) /\ CollCall(t, t.stack[n])
    BY <1>1, <1>2, <2>1, <2>2
  <2>4. \A n, m \in 1 .. l - 1 : n < m => Apart(t.stack[n], t.stack[m])
    BY <1>1, <1>2, <2>2
  <2>5. \A n \in 1 .. l - 1 : Apart(t.stack[n], Top(s))
    BY <1>1, <1>2, <2>2
  <2>6. QED
    BY <1>1, <1>2, <2>1, <2>2, <2>3, <2>4, <2>5 DEF Calls
<1>9. ASSUME Nested(s) PROVE Nested(t) /\ (Running(Top(s)) => (l - 1) + 1 <= MaxDepth)
  BY <1>1, <1>2, <1>9 DEF Nested, l
<1>10. QED
  BY <1>1, <1>5, <1>6, <1>7, <1>8, <1>9 DEF t, l

LEMMA PopSound ==
  ASSUME NEW s, NEW I, NEW C, Sound(s, I, C), s.stack # <<>>
  PROVE  /\ Top(s).op \notin {"dtor", "destroy"} => Sound(Pop(s), I, C)
         /\ Top(s).op = "dtor" => Sound(Pop(s), I \cup {Top(s).i}, C)
         /\ Top(s).op = "destroy" => Sound(Pop(s), I, C \cup {Top(s).c})
         /\ Top(s) \in Frames /\ ItemCall(Pop(s), Top(s)) /\ CollCall(Pop(s), Top(s))
<1> DEFINE t == Pop(s)
<1>1. s \in States /\ ListsOK(s)
  BY DEF Sound, ListsOK, Typed
<1>2. ListsOK(t) /\ \A c : Members(t, c) = Members(s, c) /\ \A n : ToVisit(t, c, n) = ToVisit(s, c, n)
  BY <1>1, PopLists
<1>3. /\ \A i \in Items : ItemLife(s, i) /\ ~(Top(s).op = "dtor" /\ Top(s).i = i) => ItemLife(t, i)
      /\ \A c \in Colls : CollLife(s, c) /\ ~(Top(s).op = "destroy" /\ Top(s).c = c) => CollLife(t, c)
      /\ Emptied(s) => Emptied(t)
      /\ Calls(s) => Calls(t) /\ ItemCall(t, Top(s)) /\ CollCall(t, Top(s))
      /\ Nested(s) => Nested(t)
  BY <1>1, PopLife
<1>4. /\ Len(s.stack) \in Nat \ {0} /\ Len(t.stack) = Len(s.stack) - 1 /\ Top(s) \in Frames
      /\ \A n \in 1 .. Len(s.stack) - 1 : t.stack[n] = s.stack[n]
  BY <1>1, PopIs
<1> HIDE DEF t
<1>5. Swept(t)
  <2>1. ASSUME NEW n \in 1 .. Len(t.stack), t.stack[n].op = "destroy"
        PROVE  Members(t, t.stack[n].c) \subseteq ToVisit(t, t.stack[n].c, t.stack[n].next)
    <3>1. n \in 1 .. Len(s.stack) /\ t.stack[n] = s.stack[n]
      BY <1>1, <1>4, <2>1
    <3>2. Members(s, s.stack[n].c) \subseteq ToVisit(s, s.stack[n].c, s.stack[n].next)
      BY <2>1, <3>1 DEF Swept, Sound
    <3>3. QED
      BY <1>2, <3>1, <3>2
  <2>2. QED
    BY <2>1 DEF Swept
<1>6. Emptied(t) /\ Nested(t) /\ Calls(t) /\ ItemCall(t, Top(s)) /\ CollCall(t, Top(s))
  BY <1>3 DEF Sound, Alive
<1>7. ASSUME Top(s).op \notin {"dtor", "destroy"} PROVE Alive(t, I, C)
  BY <1>3, <1>6, <1>7 DEF Sound, Alive
<1>8. ASSUME Top(s).op = "dtor" PROVE Alive(t, I \cup {Top(s).i}, C)
  BY <1>3, <1>6, <1>8 DEF Sound, Alive
<1>9. ASSUME Top(s).op = "destroy" PROVE Alive(t, I, C \cup {Top(s).c})
  BY <1>3, <1>6, <1>9 DEF Sound, Alive
<1>10. QED
  BY <1>2, <1>4, <1>5, <1>6, <1>7, <1>8, <1>9 DEF Sound, t

(* The references of a call, as debts.                                     *)
FrameOwes(f, C, I, a, b, d, e) ==
    /\ \A c : CollRefs(f, c) = Owed(c, C, a)
    /\ \A i : ItemRefs(f, i) = Owed(i, I, b) /\ CbRefs(f, i) = Owed(i, I, d)
    /\ \A c, i : LinkRefs(f, c, i) = Owed(<<c, i>>, <<C, I>>, e)
LEMMA FrameOwesIs ==
  ASSUME NEW f \in Frames
  PROVE  /\ f.op \in {"dtor", "destroy"} => \A C, I : FrameOwes(f, C, I, 0, 0, 0, 0)
         /\ f.op \in {"iterate", "empty", "unref"} \/ (f.op = "match" /\ f.pc # "call") =>
                \A I : FrameOwes(f, f.c, I, 1, 0, 0, 0)
         /\ f.op = "hold" => \A C : FrameOwes(f, C, f.i, 0, 1, 0, 0)
         /\ f.op = "lock" => FrameOwes(f, f.c, f.i, 1, 1, 1, 1)
         /\ f.op = "match" /\ f.pc = "call" => FrameOwes(f, f.c, f.i, 2, 1, 1, 1)
<1>1. ASSUME f.op \in {"dtor", "destroy"}, NEW C, NEW I PROVE FrameOwes(f, C, I, 0, 0, 0, 0)
  <2>1. ~Using(f) /\ ~Holding(f) /\ ~LocksIt(f)
    BY <1>1 DEF Using, Holding, LocksIt
  <2>2. QED
    BY <2>1 DEF FrameOwes, CollRefs, ItemRefs, CbRefs, LinkRefs, One, Owed
<1>2. ASSUME f.op \in {"iterate", "empty", "unref"} \/ (f.op = "match" /\ f.pc # "call"), NEW I
      PROVE  FrameOwes(f, f.c, I, 1, 0, 0, 0)
  <2>1. Using(f) /\ ~Holding(f) /\ ~LocksIt(f)
    BY <1>2 DEF Using, Holding, LocksIt
  <2>2. QED
    BY <2>1 DEF FrameOwes, CollRefs, ItemRefs, CbRefs, LinkRefs, One, Owed
<1>3. ASSUME f.op = "hold", NEW C PROVE FrameOwes(f, C, f.i, 0, 1, 0, 0)
  <2>1. ~Using(f) /\ Holding(f) /\ ~LocksIt(f)
    BY <1>3 DEF Using, Holding, LocksIt
  <2>2. QED
    BY <2>1 DEF FrameOwes, CollRefs, ItemRefs, CbRefs, LinkRefs, One, Owed
<1>4. ASSUME f.op = "lock" PROVE FrameOwes(f, f.c, f.i, 1, 1, 1, 1)
  <2>1. ~Using(f) /\ Holding(f) /\ LocksIt(f)
    BY <1>4 DEF Using, Holding, LocksIt
  <2>2. \A c, i : LinkRefs(f, c, i) = Owed(<<c, i>>, <<f.c, f.i>>, 1)
    BY <2>1 DEF LinkRefs, One, Owed
  <2>3. QED
    BY <2>1, <2>2 DEF FrameOwes, CollRefs, ItemRefs, CbRefs, One, Owed
<1>5. ASSUME f.op = "match", f.pc = "call" PROVE FrameOwes(f, f.c, f.i, 2, 1, 1, 1)
  <2>1. Using(f) /\ Holding(f) /\ LocksIt(f)
    BY <1>5 DEF Using, Holding, LocksIt
  <2>2. \A c, i : LinkRefs(f, c, i) = Owed(<<c, i>>, <<f.c, f.i>>, 1)
    BY <2>1 DEF LinkRefs, One, Owed
  <2>3. QED
    BY <2>1, <2>2 DEF FrameOwes, CollRefs, ItemRefs, CbRefs, One, Owed
<1>6. QED
  BY <1>1, <1>2, <1>3, <1>4, <1>5

LEMMA RefsNone ==
  ASSUME NEW s, NEW C, NEW I
  PROVE  Refs(s, C, I, 0, 0, 0, 0) <=> Even(s)
BY DEF Refs, Even, Owed

(* A call that ends leaves its references to be given back.                *)
LEMMA PushRefs ==
  ASSUME NEW s \in States, NEW f \in Frames, NEW C, NEW I,
         NEW a \in Nat, NEW b \in Nat, NEW d \in Nat, NEW e \in Nat,
         FrameOwes(f, C, I, a, b, d, e),
         NEW kc \in Nat, NEW ki \in Nat, NEW kb \in Nat, NEW kl \in Nat
  PROVE  Refs(Push(s, f), C, I, kc, ki, kb, kl) <=> Refs(s, C, I, kc + a, ki + b, kb + d, kl + e)
<1> DEFINE t == Push(s, f)
<1>1. /\ \A c : /\ CollCount(s, c) \in Nat
                /\ CollCount(t, c) = CollCount(s, c) + CollRefs(f, c)
      /\ \A i : /\ ItemCount(s, i) \in Nat /\ CbCount(s, i) \in Nat
                /\ ItemCount(t, i) = ItemCount(s, i) + ItemRefs(f, i)
                /\ CbCount(t, i) = CbCount(s, i) + CbRefs(f, i)
      /\ \A c, i : /\ LinkCount(s, c, i) \in Nat
                   /\ LinkCount(t, c, i) = LinkCount(s, c, i) + LinkRefs(f, c, i)
  BY PushCounts
<1>2. t.coll = s.coll /\ t.item = s.item /\ t.link = s.link
  BY PushIs
<1> HIDE DEF t
<1>3. ASSUME NEW x, NEW y, NEW n \in Nat, NEW k \in Nat, NEW g \in Nat
      PROVE  n + Owed(x, y, g) + Owed(x, y, k) = n + Owed(x, y, k + g)
  BY DEF Owed
<1>4. \A c : CollCount(t, c) + Owed(c, C, kc) = CollCount(s, c) + Owed(c, C, kc + a)
  <2>1. ASSUME NEW c PROVE CollCount(t, c) + Owed(c, C, kc) = CollCount(s, c) + Owed(c, C, kc + a)
    <3>1. CollCount(s, c) \in Nat /\ CollCount(t, c) = CollCount(s, c) + Owed(c, C, a)
      BY <1>1 DEF FrameOwes
    <3>2. QED
      BY <1>3, <3>1
  <2>2. QED
    BY <2>1
<1>5. \A i : ItemCount(t, i) + Owed(i, I, ki) = ItemCount(s, i) + Owed(i, I, ki + b)
  <2>1. ASSUME NEW i PROVE ItemCount(t, i) + Owed(i, I, ki) = ItemCount(s, i) + Owed(i, I, ki + b)
    <3>1. ItemCount(s, i) \in Nat /\ ItemCount(t, i) = ItemCount(s, i) + Owed(i, I, b)
      BY <1>1 DEF FrameOwes
    <3>2. QED
      BY <1>3, <3>1
  <2>2. QED
    BY <2>1
<1>6. \A i : CbCount(t, i) + Owed(i, I, kb) = CbCount(s, i) + Owed(i, I, kb + d)
  <2>1. ASSUME NEW i PROVE CbCount(t, i) + Owed(i, I, kb) = CbCount(s, i) + Owed(i, I, kb + d)
    <3>1. CbCount(s, i) \in Nat /\ CbCount(t, i) = CbCount(s, i) + Owed(i, I, d)
      BY <1>1 DEF FrameOwes
    <3>2. QED
      BY <1>3, <3>1
  <2>2. QED
    BY <2>1
<1>7. \A c, i : LinkCount(t, c, i) + Owed(<<c, i>>, <<C, I>>, kl)
                    = LinkCount(s, c, i) + Owed(<<c, i>>, <<C, I>>, kl + e)
  <2>1. ASSUME NEW c, NEW i
        PROVE  LinkCount(t, c, i) + Owed(<<c, i>>, <<C, I>>, kl)
                   = LinkCount(s, c, i) + Owed(<<c, i>>, <<C, I>>, kl + e)
    <3>1. LinkCount(s, c, i) \in Nat /\ LinkCount(t, c, i) = LinkCount(s, c, i) + Owed(<<c, i>>, <<C, I>>, e)
      BY <1>1 DEF FrameOwes
    <3>2. QED
      BY <1>3, <3>1
  <2>2. QED
    BY <2>1
<1>8. QED
  BY <1>2, <1>4, <1>5, <1>6, <1>7 DEF Refs, t

(*--------------------------------- objects --------------------------------*)
LEMMA SoundAgain ==
  ASSUME NEW s, NEW I, NEW C
  PROVE  /\ \A i : Sound(s, I \cup {i}, C) /\ ItemLife(s, i) => Sound(s, I, C)
         /\ \A c : Sound(s, I, C \cup {c}) /\ CollLife(s, c) => Sound(s, I, C)
         /\ \A i : Sound(s, I, C) => Sound(s, I \cup {i}, C)
         /\ \A c : Sound(s, I, C) => Sound(s, I, C \cup {c})
BY DEF Sound, Alive

(* An object of an item, or of a collection, with another state.           *)
WithItem(s, i, k) == [s EXCEPT !.item = [s.item EXCEPT ![i] = k]]
WithColl(s, c, k) == [s EXCEPT !.coll = [s.coll EXCEPT ![c] = k]]
ItemWas(s, t, i, k) ==
    /\ t \in States /\ t.coll = s.coll /\ t.link = s.link /\ t.stack = s.stack
    /\ t.item[i] = k /\ \A j \in Items : j # i => t.item[j] = s.item[j]
CollWas(s, t, c, k) ==
    /\ t \in States /\ t.item = s.item /\ t.link = s.link /\ t.stack = s.stack
    /\ t.coll[c] = k /\ \A d \in Colls : d # c => t.coll[d] = s.coll[d]
LEMMA WithItemFields ==
  ASSUME NEW s \in States, NEW i \in Items, NEW k \in ItemType
  PROVE  ItemWas(s, WithItem(s, i, k), i, k)
<1>1. s.item \in [Items -> ItemType]
  BY DEF States
<1>2. [s.item EXCEPT ![i] = k] \in [Items -> ItemType]
  BY <1>1
<1>3. QED
  BY <1>1, <1>2 DEF WithItem, States, ItemWas

LEMMA WithCollFields ==
  ASSUME NEW s \in States, NEW c \in Colls, NEW k \in CollType
  PROVE  CollWas(s, WithColl(s, c, k), c, k)
<1>1. s.coll \in [Colls -> CollType]
  BY DEF States
<1>2. [s.coll EXCEPT ![c] = k] \in [Colls -> CollType]
  BY <1>1
<1>3. QED
  BY <1>1, <1>2 DEF WithColl, States, CollWas

LEMMA WithItemIs ==
  ASSUME NEW s, NEW I, NEW C, Sound(s, I, C), NEW i \in Items, NEW k \in ItemType,
         s.item[i].destroyed => k.destroyed,
         s.item[i].cbDestroyed => k.cbDestroyed,
         s.item[i].called => k.called,
         \/ k.called = s.item[i].called
         \/ \A n \in 1 .. Len(s.stack) : ~(s.stack[n].i = i /\ LocksIt(s.stack[n])),
         k.freed = s.item[i].freed \/ \A n \in 1 .. Len(s.stack) : s.stack[n].i # i
  PROVE  LET t == WithItem(s, i, k)
         IN  Sound(t, I \cup {i}, C) /\ Leaves(s, t) /\ \A c \in Colls : Linked(t, c) = Linked(s, c)
<1> DEFINE t == WithItem(s, i, k)
<1>1. s \in States /\ ListsOK(s)
  BY DEF Sound, ListsOK, Typed
<1>2. /\ t \in States /\ t.coll = s.coll /\ t.link = s.link /\ t.stack = s.stack
      /\ t.item[i] = k /\ \A j \in Items : j # i => t.item[j] = s.item[j]
  <2>1. ItemWas(s, t, i, k)
    BY <1>1, WithItemFields
  <2> HIDE DEF t
  <2>2. QED
    BY <2>1 DEF ItemWas
<1> HIDE DEF t
<1>3. \A c : Linked(t, c) = Linked(s, c)
  BY <1>2 DEF Linked
<1>4. Touched(s, t)
  <2>1. LinksOK(t)
    BY <1>1, <1>2, <1>3 DEF LinksOK, ListsOK
  <2>2. ASSUME NEW j \in Items
        PROVE  /\ s.item[j].destroyed => t.item[j].destroyed
               /\ s.item[j].cbDestroyed => t.item[j].cbDestroyed
               /\ s.item[j].called => t.item[j].called
    BY <1>2
  <2>3. QED
    BY <1>2, <2>1, <2>2 DEF Touched
<1>5. ListsOK(t) /\ Leaves(s, t)
  BY <1>1, <1>4, TouchedIs
<1>6. SameCalls(s, t)
  BY <1>2 DEF SameCalls, SameCall
<1>7. Swept(t) /\ Nested(t)
  BY <1>1, <1>2, <1>5, <1>6, LeavesCalls DEF Sound
<1>8. ASSUME NEW c \in Colls, s.coll[c].freed, ~DestroyBusy, NEW j \in Linked(s, c)
      PROVE  t.item[j].destroyed \/ t.item[j].cbDestroyed
  <2>1. s.item[j].destroyed \/ s.item[j].cbDestroyed
    BY <1>8 DEF Sound, Emptied
  <2>2. j \in Items
    BY <1>1, CollIs DEF ListsOK
  <2>3. QED
    BY <1>4, <2>1, <2>2 DEF Touched
<1>9. Emptied(t)
  BY <1>2, <1>3, <1>8 DEF Emptied
<1>10. ASSUME NEW n \in 1 .. Len(s.stack) PROVE ItemCall(t, s.stack[n]) /\ CollCall(t, s.stack[n])
  <2> DEFINE f == s.stack[n]
  <2>1. ItemCall(s, f) /\ CollCall(s, f)
    BY DEF Sound, Alive, Calls
  <2>2. f \in Frames
    BY <1>1, StackIs
  <2>3. f.i \in Items \cup {None} /\ FrameShape(f)
    BY <2>2, FrameIs
  <2>4. ~(f.i = i /\ LocksIt(f)) \/ k.called = s.item[i].called
    OBVIOUS
  <2>5. f.i # i \/ k.freed = s.item[i].freed
    OBVIOUS
  <2> HIDE DEF f
  <2>6. f.op = "dtor" \/ LocksIt(f) => f.i \in Items
    BY <2>3 DEF FrameShape, LocksIt
  <2>7. ItemCall(t, f)
    BY <1>2, <2>1, <2>3, <2>4, <2>5, <2>6 DEF ItemCall
  <2>8. CollCall(t, f)
    BY <1>2, <2>1 DEF CollCall
  <2>9. QED
    BY <2>7, <2>8 DEF f
<1>11. Calls(t)
  BY <1>2, <1>10 DEF Sound, Alive, Calls
<1>12. ASSUME NEW j \in Items \ (I \cup {i}) PROVE ItemLife(t, j)
  <2>1. ItemLife(s, j) /\ j # i
    BY DEF Sound, Alive
  <2>2. QED
    BY <1>2, <1>3, <2>1 DEF ItemLife
<1>13. \A c \in Colls \ C : CollLife(t, c)
  BY <1>2 DEF Sound, Alive, CollLife
<1>14. Sound(t, I \cup {i}, C)
  BY <1>5, <1>7, <1>9, <1>11, <1>12, <1>13 DEF Sound, Alive
<1>15. QED
  BY <1>3, <1>5, <1>14 DEF t

LEMMA WithCollIs ==
  ASSUME NEW s, NEW I, NEW C, Sound(s, I, C), NEW c \in Colls, NEW k \in CollType,
         k.order = s.coll[c].order, k.size = s.coll[c].size,
         s.coll[c].destroyed => k.destroyed,
         s.coll[c].called => k.called,
         \/ k.called = s.coll[c].called
         \/ \A n \in 1 .. Len(s.stack) : ~(s.stack[n].c = c /\ LocksIt(s.stack[n])),
         \/ k.void = s.coll[c].void
         \/ \A n \in 1 .. Len(s.stack) : ~(s.stack[n].c = c /\ s.stack[n].op = "match"),
         \/ k.freed = s.coll[c].freed
         \/ /\ \A n \in 1 .. Len(s.stack) : s.stack[n].c # c
            /\ ~DestroyBusy => \A i \in Linked(s, c) : s.item[i].destroyed \/ s.item[i].cbDestroyed
  PROVE  LET t == WithColl(s, c, k)
         IN  /\ Sound(t, I, C \cup {c}) /\ Leaves(s, t)
             /\ \A d \in Colls : Linked(t, d) = Linked(s, d)
             /\ k.destroyed = s.coll[c].destroyed => \A d \in Colls : Members(t, d) = Members(s, d)
<1> DEFINE t == WithColl(s, c, k)
<1>1. s \in States /\ ListsOK(s)
  BY DEF Sound, ListsOK, Typed
<1>2. /\ t \in States /\ t.item = s.item /\ t.link = s.link /\ t.stack = s.stack
      /\ t.coll[c] = k /\ \A d \in Colls : d # c => t.coll[d] = s.coll[d]
  <2>1. CollWas(s, t, c, k)
    BY <1>1, WithCollFields
  <2> HIDE DEF t
  <2>2. QED
    BY <2>1 DEF CollWas
<1> HIDE DEF t
<1>3. \A d \in Colls : Linked(t, d) = Linked(s, d)
  BY <1>2 DEF Linked
<1>4. Touched(s, t)
  <2>1. LinksOK(t)
    BY <1>1, <1>2, <1>3 DEF LinksOK, ListsOK
  <2>2. QED
    BY <1>2, <2>1 DEF Touched
<1>5. ListsOK(t) /\ Leaves(s, t)
  BY <1>1, <1>4, TouchedIs
<1>6. SameCalls(s, t)
  BY <1>2 DEF SameCalls, SameCall
<1>7. Swept(t) /\ Nested(t)
  BY <1>1, <1>2, <1>5, <1>6, LeavesCalls DEF Sound
<1>8. ASSUME NEW d \in Colls, t.coll[d].freed, ~DestroyBusy, NEW j \in Linked(s, d)
      PROVE  t.item[j].destroyed \/ t.item[j].cbDestroyed
  <2>1. CASE s.coll[d].freed
    BY <1>2, <1>8, <2>1 DEF Sound, Emptied
  <2>2. CASE ~s.coll[d].freed
    BY <1>2, <1>8, <2>2
  <2>3. QED
    BY <2>1, <2>2
<1>9. Emptied(t)
  BY <1>3, <1>8 DEF Emptied
<1>10. ASSUME NEW n \in 1 .. Len(s.stack) PROVE ItemCall(t, s.stack[n]) /\ CollCall(t, s.stack[n])
  <2> DEFINE f == s.stack[n]
  <2>1. ItemCall(s, f) /\ CollCall(s, f)
    BY DEF Sound, Alive, Calls
  <2>2. f \in Frames
    BY <1>1, StackIs
  <2>3. f.c \in Colls \cup {None} /\ FrameShape(f)
    BY <2>2, FrameIs
  <2>4. /\ ~(f.c = c /\ LocksIt(f)) \/ k.called = s.coll[c].called
        /\ ~(f.c = c /\ f.op = "match") \/ k.void = s.coll[c].void
        /\ f.c # c \/ k.freed = s.coll[c].freed
    OBVIOUS
  <2> HIDE DEF f
  <2>5. f.op \in {"destroy", "match"} \/ LocksIt(f) => f.c \in Colls
    BY <2>3 DEF FrameShape, LocksIt
  <2>6. CollCall(t, f)
    BY <1>2, <2>1, <2>3, <2>4, <2>5 DEF CollCall
  <2>7. ItemCall(t, f)
    BY <1>2, <2>1 DEF ItemCall
  <2>8. QED
    BY <2>6, <2>7 DEF f
<1>11. Calls(t)
  BY <1>2, <1>10 DEF Sound, Alive, Calls
<1>12. \A j \in Items \ I : ItemLife(t, j)
  BY <1>2, <1>3 DEF Sound, Alive, ItemLife
<1>13. ASSUME NEW d \in Colls \ (C \cup {c}) PROVE CollLife(t, d)
  <2>1. CollLife(s, d) /\ d # c
    BY DEF Sound, Alive
  <2>2. QED
    BY <1>2, <2>1 DEF CollLife
<1>14. Sound(t, I, C \cup {c})
  BY <1>5, <1>7, <1>9, <1>11, <1>12, <1>13 DEF Sound, Alive
<1>15. ASSUME k.destroyed = s.coll[c].destroyed, NEW d \in Colls PROVE Members(t, d) = Members(s, d)
  <2>1. \A i : Valid(t, d, i) <=> Valid(s, d, i)
    BY <1>2 DEF Valid
  <2>2. t.coll[d].destroyed = s.coll[d].destroyed
    BY <1>2, <1>15
  <2>3. {i \in Linked(t, d) : Valid(t, d, i)} = {i \in Linked(s, d) : Valid(s, d, i)}
    BY <1>3, <2>1
  <2>4. QED
    BY <2>2, <2>3 DEF Members
<1>16. QED
  BY <1>3, <1>5, <1>14, <1>15 DEF t

(* Who is not referred to has no call that uses, holds or locks it.        *)
LEMMA NotHeld ==
  ASSUME NEW s \in States, NEW C, NEW I, NEW kc \in Nat, NEW ki \in Nat, NEW kb \in Nat, NEW kl \in Nat,
         Refs(s, C, I, kc, ki, kb, kl)
  PROVE  /\ \A c \in Colls : s.coll[c].ref = 0 =>
                \A n \in 1 .. Len(s.stack) :
                    s.stack[n].c = c => ~Using(s.stack[n]) /\ ~LocksIt(s.stack[n])
         /\ \A i \in Items : s.item[i].ref = 0 =>
                /\ \A n \in 1 .. Len(s.stack) :
                       s.stack[n].i = i => ~Holding(s.stack[n]) /\ ~LocksIt(s.stack[n])
                /\ CbCount(s, i) = 0 /\ \A c \in Colls : LinkCount(s, c, i) = 0
         /\ \A c \in Colls : CollCount(s, c) \in Nat
         /\ \A i \in Items : ItemCount(s, i) \in Nat /\ CbCount(s, i) \in Nat
         /\ \A c \in Colls, i \in Items : LinkCount(s, c, i) \in Nat
<1>1. /\ \A c : CollCount(s, c) \in Nat
      /\ \A i : ItemCount(s, i) \in Nat /\ CbCount(s, i) \in Nat
      /\ \A c, i : LinkCount(s, c, i) \in Nat
      /\ \A c : CollCount(s, c) = 0 <=>
             \A n \in 1 .. Len(s.stack) : ~(s.stack[n].c = c /\ (Using(s.stack[n]) \/ LocksIt(s.stack[n])))
      /\ \A i : ItemCount(s, i) = 0 <=>
             \A n \in 1 .. Len(s.stack) : ~(s.stack[n].i = i /\ Holding(s.stack[n]))
      /\ \A i : CbCount(s, i) = 0 <=>
             \A n \in 1 .. Len(s.stack) : ~(s.stack[n].i = i /\ LocksIt(s.stack[n]))
      /\ \A c, i : LinkCount(s, c, i) = 0 <=>
             \A n \in 1 .. Len(s.stack) :
                 ~(s.stack[n].c = c /\ s.stack[n].i = i /\ LocksIt(s.stack[n]))
  BY CountsAreNat
<1>2. \A x, y : Owed(x, y, kc) \in Nat /\ Owed(x, y, ki) \in Nat
  BY DEF Owed
<1>3. ASSUME NEW c \in Colls, s.coll[c].ref = 0 PROVE CollCount(s, c) = 0
  <2>1. s.coll[c].ref >= CollCount(s, c) + Owed(c, C, kc)
    BY DEF Refs, AtLeast
  <2>2. CollCount(s, c) \in Nat /\ Owed(c, C, kc) \in Nat
    BY <1>1, <1>2
  <2>3. QED
    BY <1>3, <2>1, <2>2
<1>4. ASSUME NEW i \in Items, s.item[i].ref = 0
      PROVE  ItemCount(s, i) = 0 /\ CbCount(s, i) = 0 /\ \A c \in Colls : LinkCount(s, c, i) = 0
  <2>1. s.item[i].ref >= ItemCount(s, i) + Owed(i, I, ki)
    BY DEF Refs, AtLeast
  <2>2. ItemCount(s, i) \in Nat /\ Owed(i, I, ki) \in Nat
    BY <1>1, <1>2
  <2>3. ItemCount(s, i) = 0
    BY <1>4, <2>1, <2>2
  <2>4. \A n \in 1 .. Len(s.stack) : ~(s.stack[n].i = i /\ LocksIt(s.stack[n]))
    BY <1>1, <2>3 DEF Holding
  <2>5. QED
    BY <1>1, <2>3, <2>4
<1>5. QED
  BY <1>1, <1>3, <1>4 DEF Holding

LEMMA SameRefs ==
  ASSUME NEW s, NEW t, t.stack = s.stack,
         \A c \in Colls : t.coll[c].ref = s.coll[c].ref,
         \A i \in Items : t.item[i].ref = s.item[i].ref /\ t.item[i].cbRef = s.item[i].cbRef,
         \A c \in Colls, i \in Items : t.link[c][i].ref = s.link[c][i].ref,
         NEW C, NEW I, NEW kc, NEW ki, NEW kb, NEW kl
  PROVE  Refs(t, C, I, kc, ki, kb, kl) <=> Refs(s, C, I, kc, ki, kb, kl)
<1>1. /\ \A c : CollCount(t, c) = CollCount(s, c)
      /\ \A i : ItemCount(t, i) = ItemCount(s, i) /\ CbCount(t, i) = CbCount(s, i)
      /\ \A c, i : LinkCount(t, c, i) = LinkCount(s, c, i)
  BY DEF CollCount, ItemCount, CbCount, LinkCount, Users, Lockers, Holders, CbLockers, LinkLockers
<1>2. QED
  BY <1>1 DEF Refs

(* Nothing in progress has to do with an object that nobody refers to and  *)
(* whose destructor did not begin.                                         *)
LEMMA NobodyHas ==
  ASSUME NEW s, NEW I, NEW C, Sound(s, I, C), Even(s)
  PROVE  /\ \A i \in Items : s.item[i].ref = 0 /\ ~s.item[i].called =>
                \A n \in 1 .. Len(s.stack) : s.stack[n].i # i
         /\ \A c \in Colls : s.coll[c].ref = 0 /\ ~s.coll[c].called =>
                \A n \in 1 .. Len(s.stack) : s.stack[n].c # c
<1>1. s \in States
  BY DEF Sound, ListsOK, Typed
<1>2. /\ \A c \in Colls : s.coll[c].ref = 0 =>
             \A n \in 1 .. Len(s.stack) :
                 s.stack[n].c = c => ~Using(s.stack[n]) /\ ~LocksIt(s.stack[n])
      /\ \A i \in Items : s.item[i].ref = 0 =>
             \A n \in 1 .. Len(s.stack) :
                 s.stack[n].i = i => ~Holding(s.stack[n]) /\ ~LocksIt(s.stack[n])
  BY <1>1, NotHeld DEF Even
<1>3. ASSUME NEW n \in 1 .. Len(s.stack)
      PROVE  /\ s.stack[n].op \in Ops /\ FrameShape(s.stack[n])
             /\ ItemCall(s, s.stack[n]) /\ CollCall(s, s.stack[n])
  <2>1. s.stack[n] \in Frames
    BY <1>1, StackIs
  <2>2. QED
    BY <2>1, FrameIs DEF FrameType, Sound, Alive, Calls
<1>4. ASSUME NEW i \in Items, s.item[i].ref = 0, ~s.item[i].called,
             NEW n \in 1 .. Len(s.stack), s.stack[n].i = i
      PROVE  FALSE
  <2>1. ~Holding(s.stack[n]) /\ ~LocksIt(s.stack[n])
    BY <1>2, <1>4
  <2>2. s.stack[n].op \notin {"hold", "lock"} /\ ~(s.stack[n].op = "match" /\ s.stack[n].pc = "call")
    BY <2>1 DEF Holding, LocksIt
  <2>3. s.stack[n].op # "dtor"
    BY <1>3, <1>4 DEF ItemCall
  <2>4. QED
    BY <1>3, <1>4, <2>2, <2>3, NoneIs DEF FrameShape, Ops
<1>5. ASSUME NEW c \in Colls, s.coll[c].ref = 0, ~s.coll[c].called,
             NEW n \in 1 .. Len(s.stack), s.stack[n].c = c
      PROVE  FALSE
  <2>1. ~Using(s.stack[n]) /\ ~LocksIt(s.stack[n])
    BY <1>2, <1>5
  <2>2. s.stack[n].op \notin {"iterate", "match", "empty", "unref", "lock"}
    BY <2>1 DEF Using, LocksIt
  <2>3. s.stack[n].op # "destroy"
    BY <1>3, <1>5 DEF CollCall
  <2>4. QED
    BY <1>3, <1>5, <2>2, <2>3, NoneIs DEF FrameShape, Ops
<1>6. QED
  BY <1>4, <1>5

(* What every operation ends with.                                         *)
Good(s, t) == Sound(t, {}, {}) /\ Even(t) /\ Leaves(s, t)

(* The frame of a destructor of an item, after the rest of it.             *)
Going(s, a, i) ==
    /\ Sound(a, {i}, {}) /\ Even(a) /\ Leaves(s, a)
    /\ a.item[i].called /\ ~a.item[i].freed
    /\ ~DestroyBusy => a.item[i].cbCalled /\ \A c \in Colls : i \notin Linked(a, c)
    /\ \A n \in 1 .. Len(a.stack) : a.stack[n].i # i
LEMMA PushDtor ==
  ASSUME NEW s, ListsOK(s), NEW a, NEW i \in Items, Going(s, a, i)
  PROVE  Good(s, Push(a, Frame("dtor", None, i, None, "call")))
<1> DEFINE f == Frame("dtor", None, i, None, "call")
           t == Push(a, f)
<1>1. a \in States /\ ListsOK(a)
  BY DEF Going, Sound, ListsOK, Typed
<1>2. /\ f.op = "dtor" /\ f.c = None /\ f.i = i /\ f.next = None /\ f.pc = "call"
      /\ f \in Frames
  BY DEF Frame, Frames, FrameType, FrameShape, Ops
<1> HIDE DEF f
<1>3. /\ ListsOK(t) /\ (~Running(f) => Leaves(a, t))
      /\ \A c : Members(t, c) = Members(a, c)
      /\ \A c, n : ToVisit(t, c, n) = ToVisit(a, c, n)
  <2>1. f.next # None => f.next \in Linked(a, f.c)
    BY <1>2
  <2>2. QED
    BY <1>1, <1>2, <2>1, PushLists
<1>4. Leaves(s, t)
  <2>1. ~Running(f)
    BY <1>2 DEF Running
  <2>2. QED
    BY <1>1, <1>3, <2>1, LeavesTwice DEF Going
<1>5. /\ \A j \in Items : ItemLife(a, j) => ItemLife(t, j)
      /\ \A c \in Colls : CollLife(a, c) => CollLife(t, c)
      /\ Emptied(a) => Emptied(t)
      /\ Calls(a) /\ ItemCall(a, f) /\ CollCall(a, f)
         /\ (\A n \in 1 .. Len(a.stack) : Apart(a.stack[n], f)) => Calls(t)
      /\ Nested(a) /\ (Running(f) => Len(a.stack) + 1 <= MaxDepth) => Nested(t)
  BY <1>1, <1>2, PushLife
<1>6. /\ Len(t.stack) = Len(a.stack) + 1 /\ Len(a.stack) \in Nat
      /\ DOMAIN t.stack = 1 .. Len(a.stack) + 1
      /\ \A n \in 1 .. Len(a.stack) : t.stack[n] = a.stack[n]
      /\ t.stack[Len(a.stack) + 1] = f
      /\ t.coll = a.coll /\ t.item = a.item
  BY <1>1, <1>2, PushIs, StackIs
<1>7. Even(t)
  <2>1. FrameOwes(f, None, None, 0, 0, 0, 0)
    BY <1>2, FrameOwesIs
  <2>2. Refs(t, None, None, 0, 0, 0, 0) <=> Refs(a, None, None, 0 + 0, 0 + 0, 0 + 0, 0 + 0)
    BY <1>1, <1>2, <2>1, PushRefs
  <2>3. QED
    BY <2>2 DEF Even, Going
<1> HIDE DEF t
<1>8. Calls(t)
  <2>1. ItemCall(a, f) /\ CollCall(a, f)
    BY <1>2 DEF ItemCall, CollCall, LocksIt, Going
  <2>2. \A n \in 1 .. Len(a.stack) : Apart(a.stack[n], f)
    BY <1>2 DEF Apart, Going
  <2>3. QED
    BY <1>5, <2>1, <2>2 DEF Going, Sound, Alive
<1>9. ItemLife(t, i)
  <2>1. \E n \in DOMAIN t.stack : t.stack[n].op = "dtor" /\ t.stack[n].i = i
    <3>1. Len(a.stack) + 1 \in 1 .. Len(a.stack) + 1
      BY <1>6
    <3>2. QED
      BY <1>2, <1>6, <3>1
  <2>2. \A c \in Colls : Linked(t, c) = Linked(a, c)
    BY <1>6 DEF Linked
  <2>3. QED
    BY <1>6, <2>1, <2>2 DEF ItemLife, Going
<1>10. Alive(t, {}, {})
  BY <1>5, <1>8, <1>9 DEF Going, Sound, Alive
<1>11. Swept(t)
  <2>1. ASSUME NEW n \in 1 .. Len(t.stack), t.stack[n].op = "destroy"
        PROVE  Members(t, t.stack[n].c) \subseteq ToVisit(t, t.stack[n].c, t.stack[n].next)
    <3>1. n \in 1 .. Len(a.stack) /\ t.stack[n] = a.stack[n]
      BY <1>2, <1>6, <2>1
    <3>2. Members(a, a.stack[n].c) \subseteq ToVisit(a, a.stack[n].c, a.stack[n].next)
      BY <2>1, <3>1 DEF Swept, Sound, Going
    <3>3. QED
      BY <1>3, <3>1, <3>2
  <2>2. QED
    BY <2>1 DEF Swept
<1>12. Emptied(t) /\ Nested(t)
  BY <1>2, <1>5 DEF Going, Sound, Running
<1>13. QED
  BY <1>3, <1>4, <1>7, <1>10, <1>11, <1>12 DEF Good, Sound, t, f

LEMMA ItemsTyped ==
  ASSUME NEW s \in States
  PROVE  /\ \A i \in Items : s.item[i] \in ItemType
         /\ \A c \in Colls : s.coll[c] \in CollType
         /\ \A c \in Colls, i \in Items : s.link[c][i] \in LinkType
BY DEF States

(* Marks do not change a reference.                                        *)
LEMMA WithItemSame ==
  ASSUME NEW s \in States, NEW i \in Items, NEW k \in ItemType,
         k.ref = s.item[i].ref, k.cbRef = s.item[i].cbRef
  PROVE  /\ ItemWas(s, WithItem(s, i, k), i, k)
         /\ Even(s) => Even(WithItem(s, i, k))
<1> DEFINE t == WithItem(s, i, k)
<1>1. ItemWas(s, t, i, k)
  BY WithItemFields
<1> HIDE DEF t
<1>2. /\ t.stack = s.stack /\ t.coll = s.coll /\ t.link = s.link
      /\ \A j \in Items : t.item[j].ref = s.item[j].ref /\ t.item[j].cbRef = s.item[j].cbRef
  BY <1>1 DEF ItemWas
<1>3. Refs(t, None, None, 0, 0, 0, 0) <=> Refs(s, None, None, 0, 0, 0, 0)
  BY <1>2, SameRefs
<1>4. QED
  BY <1>1, <1>3 DEF t, Even

(* Out of every collection, unless it is locked.                           *)
LEMMA ApartIs ==
  ASSUME NEW s, NEW I, NEW C, NEW C0, NEW I0, NEW kc, NEW ki, NEW kb, NEW kl,
         Sound(s, I, C), Refs(s, C0, I0, kc, ki, kb, kl), NEW D \in SUBSET Colls, NEW i \in Items
  PROVE  LET t == InstanceDestroy(s, D, i)
         IN  /\ Sound(t, I, C) /\ Refs(t, C0, I0, kc, ki, kb, kl) /\ Leaves(s, t)
             /\ Removed(s, t, D, i)
             /\ \A c \in Colls, j \in Items : t.link[c][j].ref = s.link[c][j].ref
             /\ \A c \in D : i \in Linked(t, c) => s.link[c][i].ref > 0
<1> DEFINE t == InstanceDestroy(s, D, i)
<1>1. ListsOK(s) /\ s \in States
  BY DEF Sound, ListsOK, Typed
<1>2. /\ ListsOK(t) /\ Removed(s, t, D, i) /\ Leaves(s, t)
      /\ \A c \in Colls, j \in Items : t.link[c][j].ref = s.link[c][j].ref
      /\ \A c \in D : i \in Linked(t, c) => t.link[c][i].destroyed
  BY <1>1, InstanceDestroyIs
<1> HIDE DEF t
<1>3. Sound(t, I, C)
  BY <1>2, RemovedSound
<1>4. t \in States
  BY <1>2 DEF ListsOK, Typed
<1>5. Refs(t, C0, I0, kc, ki, kb, kl)
  BY <1>1, <1>2, <1>4, RemovedRefs
<1>6. ASSUME NEW c \in D, i \in Linked(t, c) PROVE s.link[c][i].ref > 0
  <2>1. t.link[c][i].ref > 0
    BY <1>2, <1>6 DEF ListsOK, LinksOK
  <2>2. QED
    BY <1>2, <2>1
<1>7. QED
  BY <1>2, <1>3, <1>5, <1>6 DEF t

LEMMA BeginDtorIs ==
  ASSUME NEW s, NEW i \in Items, Sound(s, {i}, {}), Even(s),
         ~s.item[i].called, ~s.item[i].freed, s.item[i].ref = 0,
         ~DestroyBusy /\ s.item[i].cbCalled => \A c \in Colls : i \notin Linked(s, c)
  PROVE  Good(s, BeginDtor(s, i))
<1> DEFINE f == Frame("dtor", None, i, None, "call")
           k == s.item[i]
           called == [s EXCEPT !.item[i].called = TRUE]
           k1 == [k EXCEPT !.called = TRUE]
           k2 == [k1 EXCEPT !.cbDestroyed = TRUE]
           k3 == [k1 EXCEPT !.cbCalled = TRUE]
<1>1. s \in States /\ ListsOK(s) /\ k \in ItemType
  BY ItemsTyped DEF Sound, ListsOK, Typed
<1>2. /\ called = WithItem(s, i, k1)
      /\ [called EXCEPT !.item[i].cbDestroyed = TRUE] = WithItem(s, i, k2)
      /\ [called EXCEPT !.item[i].cbCalled = TRUE] = WithItem(s, i, k3)
  <2>1. called = WithItem(s, i, k1)
    BY <1>1 DEF WithItem, States
  <2>2. k1 \in ItemType
    BY <1>1 DEF ItemType
  <2> HIDE DEF called, k1
  <2>3. /\ [WithItem(s, i, k1) EXCEPT !.item[i].cbDestroyed = TRUE] = WithItem(s, i, k2)
        /\ [WithItem(s, i, k1) EXCEPT !.item[i].cbCalled = TRUE] = WithItem(s, i, k3)
    BY <1>1, <2>2 DEF WithItem, States
  <2>4. QED
    BY <2>1, <2>3
<1>3. /\ k1 \in ItemType /\ k2 \in ItemType /\ k3 \in ItemType
      /\ k1.ref = k.ref /\ k2.ref = k.ref /\ k3.ref = k.ref
      /\ k1.cbRef = k.cbRef /\ k2.cbRef = k.cbRef /\ k3.cbRef = k.cbRef
      /\ k1.called /\ k2.called /\ k3.called
      /\ k1.freed = k.freed /\ k2.freed = k.freed /\ k3.freed = k.freed
      /\ k1.destroyed = k.destroyed /\ k2.destroyed = k.destroyed /\ k3.destroyed = k.destroyed
      /\ k1.cbDestroyed = k.cbDestroyed /\ k2.cbDestroyed /\ k3.cbDestroyed = k.cbDestroyed
      /\ k1.cbCalled = k.cbCalled /\ k2.cbCalled = k.cbCalled /\ k3.cbCalled
  BY <1>1 DEF ItemType
<1> HIDE DEF called, k1, k2, k3
<1>4. \A n \in 1 .. Len(s.stack) : s.stack[n].i # i
  BY NobodyHas
<1>5. ASSUME NEW h \in ItemType, h.ref = k.ref, h.cbRef = k.cbRef, h.called, h.freed = k.freed,
             h.destroyed = k.destroyed, k.cbDestroyed => h.cbDestroyed
      PROVE  /\ ItemWas(s, WithItem(s, i, h), i, h) /\ Even(WithItem(s, i, h))
             /\ Sound(WithItem(s, i, h), {i}, {}) /\ Leaves(s, WithItem(s, i, h))
             /\ \A c \in Colls : Linked(WithItem(s, i, h), c) = Linked(s, c)
  <2>1. ItemWas(s, WithItem(s, i, h), i, h) /\ Even(WithItem(s, i, h))
    BY <1>1, <1>5, WithItemSame
  <2>2. \A n \in 1 .. Len(s.stack) : ~(s.stack[n].i = i /\ LocksIt(s.stack[n]))
    BY <1>4
  <2>3. /\ Sound(WithItem(s, i, h), {i} \cup {i}, {}) /\ Leaves(s, WithItem(s, i, h))
        /\ \A c \in Colls : Linked(WithItem(s, i, h), c) = Linked(s, c)
    BY <1>5, <2>2, WithItemIs
  <2>4. {i} \cup {i} = {i}
    OBVIOUS
  <2>5. QED
    BY <2>1, <2>3, <2>4
<1>6. CASE k.cbCalled
  <2> DEFINE a == WithItem(s, i, k1)
  <2>1. BeginDtor(s, i) = Push(a, f)
    BY <1>2, <1>6 DEF BeginDtor, called
  <2>2. /\ ItemWas(s, a, i, k1) /\ Even(a) /\ Sound(a, {i}, {}) /\ Leaves(s, a)
        /\ \A c \in Colls : Linked(a, c) = Linked(s, c)
    BY <1>3, <1>5
  <2> HIDE DEF a
  <2>3. Going(s, a, i)
    BY <1>3, <1>4, <1>6, <2>2 DEF Going, ItemWas
  <2>4. QED
    BY <1>1, <2>1, <2>3, PushDtor
<1>7. CASE ~k.cbCalled /\ k.cbRef > 0
  <2> DEFINE a == WithItem(s, i, k2)
  <2>1. BeginDtor(s, i) = Push(a, f)
    BY <1>2, <1>7 DEF BeginDtor, called
  <2>2. /\ ItemWas(s, a, i, k2) /\ Even(a) /\ Sound(a, {i}, {}) /\ Leaves(s, a)
        /\ \A c \in Colls : Linked(a, c) = Linked(s, c)
    BY <1>3, <1>5
  <2> HIDE DEF a
  <2>3. DestroyBusy
    <3>1. CbCount(s, i) = 0
      BY <1>1, NotHeld DEF Even
    <3>2. ~DestroyBusy => k.cbRef = CbCount(s, i) + Owed(i, None, 0)
      BY DEF Even, Refs, AtLeast
    <3>3. Owed(i, None, 0) = 0
      BY DEF Owed
    <3>4. QED
      BY <1>7, <3>1, <3>2, <3>3
  <2>4. Going(s, a, i)
    BY <1>3, <1>4, <2>2, <2>3 DEF Going, ItemWas
  <2>5. QED
    BY <1>1, <2>1, <2>4, PushDtor
<1>8. CASE ~k.cbCalled /\ ~(k.cbRef > 0)
  <2> DEFINE b == WithItem(s, i, k3)
             a == InstanceDestroy(b, Colls, i)
  <2>1. BeginDtor(s, i) = Push(a, f)
    BY <1>2, <1>8 DEF BeginDtor, called
  <2>2. /\ ItemWas(s, b, i, k3) /\ Even(b) /\ Sound(b, {i}, {}) /\ Leaves(s, b)
    BY <1>3, <1>5
  <2> HIDE DEF b
  <2>3. /\ Sound(a, {i}, {}) /\ Refs(a, None, None, 0, 0, 0, 0) /\ Leaves(b, a)
        /\ Removed(b, a, Colls, i)
        /\ \A c \in Colls : i \in Linked(a, c) => b.link[c][i].ref > 0
    BY <2>2, ApartIs DEF Even
  <2> HIDE DEF a
  <2>4. ASSUME ~DestroyBusy, NEW c \in Colls PROVE i \notin Linked(a, c)
    <3>1. LinkCount(s, c, i) = 0
      BY <1>1, NotHeld DEF Even
    <3>2. s.link[c][i].ref = LinkCount(s, c, i) + Owed(<<c, i>>, <<None, None>>, 0)
      BY <2>4 DEF Even, Refs, AtLeast
    <3>3. s.link[c][i].ref = 0
      BY <3>1, <3>2 DEF Owed
    <3>4. b.link = s.link
      BY <2>2 DEF ItemWas
    <3>5. QED
      BY <2>3, <3>3, <3>4
  <2>5. a.item = b.item /\ b.item[i] = k3
    BY <2>2, <2>3 DEF Removed, ItemWas
  <2>6. \A n \in 1 .. Len(a.stack) : a.stack[n].i # i
    BY <1>4, <2>2, <2>3 DEF Removed, ItemWas, SameCall
  <2>7. Leaves(s, a)
    BY <1>1, <2>2, <2>3, LeavesTwice DEF Sound
  <2>8. Going(s, a, i)
    BY <1>3, <2>3, <2>4, <2>5, <2>6, <2>7 DEF Going, Even
  <2>9. QED
    BY <1>1, <2>1, <2>8, PushDtor
<1>9. QED
  BY <1>6, <1>7, <1>8

LEMMA WithItemRefs ==
  ASSUME NEW s \in States, NEW i \in Items, NEW k \in ItemType, NEW a \in Int, NEW b \in Int,
         k.ref = s.item[i].ref + a, k.cbRef = s.item[i].cbRef + b,
         NEW C, NEW kc \in Int, NEW ki \in Int, NEW kb \in Int, NEW kl \in Int,
         Refs(s, C, i, kc, ki, kb, kl)
  PROVE  Refs(WithItem(s, i, k), C, i, kc, ki + a, kb + b, kl)
<1> DEFINE t == WithItem(s, i, k)
<1>1. /\ t.coll = s.coll /\ t.link = s.link /\ t.stack = s.stack
      /\ t.item[i] = k /\ \A j \in Items : j # i => t.item[j] = s.item[j]
  <2>1. ItemWas(s, t, i, k)
    BY WithItemFields
  <2> HIDE DEF t
  <2>2. QED
    BY <2>1 DEF ItemWas
<1> HIDE DEF t
<1>2. /\ \A c : CollCount(t, c) = CollCount(s, c)
      /\ \A j : ItemCount(t, j) = ItemCount(s, j) /\ CbCount(t, j) = CbCount(s, j)
      /\ \A c, j : LinkCount(t, c, j) = LinkCount(s, c, j)
  BY <1>1 DEF CollCount, ItemCount, CbCount, LinkCount, Users, Lockers, Holders, CbLockers, LinkLockers
<1>3. \A j \in Items : ItemCount(s, j) \in Nat /\ CbCount(s, j) \in Nat /\ s.item[j] \in ItemType
  BY CountsAreNat, ItemsTyped
<1>4. ASSUME NEW j \in Items
      PROVE  /\ AtLeast(t.item[j].ref, ItemCount(t, j) + Owed(j, i, ki + a))
             /\ AtLeast(t.item[j].cbRef, CbCount(t, j) + Owed(j, i, kb + b))
  <2>1. /\ AtLeast(s.item[j].ref, ItemCount(s, j) + Owed(j, i, ki))
        /\ AtLeast(s.item[j].cbRef, CbCount(s, j) + Owed(j, i, kb))
    BY DEF Refs
  <2>2. s.item[j].ref \in Nat /\ s.item[j].cbRef \in Nat /\ ItemCount(s, j) \in Nat /\ CbCount(s, j) \in Nat
    BY <1>3 DEF ItemType
  <2>3. CASE j = i
    BY <1>1, <1>2, <2>1, <2>2, <2>3 DEF AtLeast, Owed
  <2>4. CASE j # i
    BY <1>1, <1>2, <2>1, <2>4 DEF Owed
  <2>5. QED
    BY <2>3, <2>4
<1>5. QED
  BY <1>1, <1>2, <1>4 DEF Refs, t

(* What an operation on the item i ends with that has still to give back   *)
(* one reference to it, or none.                                           *)
Paid(s, t, i, k) == Sound(t, {}, {}) /\ Refs(t, None, i, 0, k, 0, 0) /\ Leaves(s, t)
LEMMA ObjDestroyIs ==
  ASSUME NEW s, NEW i \in Items, Sound(s, {i}, {}), NEW k \in {0, 1}, Refs(s, None, i, 0, k, 0, 0),
         ~s.item[i].called, ~s.item[i].freed,
         ~DestroyBusy /\ s.item[i].cbCalled => \A c \in Colls : i \notin Linked(s, c)
  PROVE  /\ Paid(s, ObjDestroy(s, i), i, k)
         /\ s.item[i].ref > 0 => ~ObjDestroy(s, i).item[i].called
<1> DEFINE h == [s.item[i] EXCEPT !.destroyed = TRUE]
           t == WithItem(s, i, h)
<1>1. s \in States /\ ListsOK(s) /\ s.item[i] \in ItemType
  BY ItemsTyped DEF Sound, ListsOK, Typed
<1>2. ItemCount(s, i) \in Nat /\ s.item[i].ref \in Nat
  BY <1>1, CountsAreNat DEF ItemType
<1>3. CASE s.item[i].ref > 0
  <2>1. ObjDestroy(s, i) = t
    <3>1. [s EXCEPT !.item[i].destroyed = TRUE] = t
      BY <1>1 DEF WithItem, States
    <3>2. QED
      BY <1>3, <3>1 DEF ObjDestroy
  <2>2. /\ h \in ItemType /\ h.destroyed /\ h.cbDestroyed = s.item[i].cbDestroyed
        /\ h.called = s.item[i].called /\ h.freed = s.item[i].freed
        /\ h.ref = s.item[i].ref + 0 /\ h.cbRef = s.item[i].cbRef + 0 /\ h.cbCalled = s.item[i].cbCalled
    <3>1. s.item[i].ref = s.item[i].ref + 0 /\ s.item[i].cbRef = s.item[i].cbRef + 0
      BY <1>1 DEF ItemType
    <3>2. QED
      BY <1>1, <3>1 DEF ItemType
  <2> HIDE DEF h
  <2>3. /\ Sound(t, {i} \cup {i}, {}) /\ Leaves(s, t)
        /\ \A c \in Colls : Linked(t, c) = Linked(s, c)
    BY <2>2, WithItemIs
  <2>4. t.item[i] = h
    <3>1. ItemWas(s, t, i, h)
      BY <1>1, <2>2, WithItemFields
    <3> HIDE DEF t
    <3>2. QED
      BY <3>1 DEF ItemWas
  <2>5. Refs(t, None, i, 0, k + 0, 0 + 0, 0)
    BY <1>1, <2>2, WithItemRefs
  <2> HIDE DEF t
  <2>6. ItemLife(t, i)
    BY <1>2, <1>3, <2>2, <2>3, <2>4 DEF ItemLife
  <2>7. Sound(t, {}, {})
    <3>1. {i} \cup {i} = {} \cup {i}
      OBVIOUS
    <3>2. QED
      BY <2>3, <2>6, <3>1, SoundAgain
  <2>8. Paid(s, t, i, k)
    BY <2>3, <2>5, <2>7 DEF Paid
  <2>9. QED
    BY <2>1, <2>2, <2>4, <2>8
<1>4. CASE ~(s.item[i].ref > 0)
  <2>1. s.item[i].ref = 0
    BY <1>2, <1>4
  <2>2. s.item[i].ref >= ItemCount(s, i) + Owed(i, i, k)
    BY DEF Refs, AtLeast
  <2>3. k = 0
    <3>1. Owed(i, i, k) = k
      BY DEF Owed
    <3>2. QED
      BY <1>2, <2>1, <2>2, <3>1
  <2>4. Even(s)
    BY <2>3, RefsNone
  <2>5. Good(s, BeginDtor(s, i))
    BY <2>1, <2>4, BeginDtorIs
  <2>6. ObjDestroy(s, i) = BeginDtor(s, i)
    BY <1>4 DEF ObjDestroy
  <2>7. Refs(BeginDtor(s, i), None, i, 0, 0, 0, 0)
    BY <2>5, RefsNone DEF Good
  <2>8. QED
    BY <1>4, <2>3, <2>5, <2>6, <2>7 DEF Good, Paid
<1>5. QED
  BY <1>3, <1>4

LEMMA ObjUnrefIs ==
  ASSUME NEW s, NEW i \in Items, Sound(s, {}, {}), Refs(s, None, i, 0, 1, 0, 0)
  PROVE  Good(s, ObjUnref(s, i))
<1> DEFINE h == [s.item[i] EXCEPT !.ref = @ - 1]
           t == WithItem(s, i, h)
<1>1. s \in States /\ ListsOK(s) /\ s.item[i] \in ItemType
  BY ItemsTyped DEF Sound, ListsOK, Typed
<1>2. ItemCount(s, i) \in Nat /\ s.item[i].ref \in Nat
  BY <1>1, CountsAreNat DEF ItemType
<1>3. s.item[i].ref >= 1
  <2>1. s.item[i].ref >= ItemCount(s, i) + Owed(i, i, 1)
    BY DEF Refs, AtLeast
  <2>2. Owed(i, i, 1) = 1
    BY DEF Owed
  <2>3. QED
    BY <1>2, <2>1, <2>2
<1>4. [s EXCEPT !.item[i].ref = @ - 1] = t
  BY <1>1 DEF WithItem, States
<1>5. /\ h \in ItemType /\ h.destroyed = s.item[i].destroyed /\ h.cbDestroyed = s.item[i].cbDestroyed
      /\ h.called = s.item[i].called /\ h.freed = s.item[i].freed
      /\ h.ref = s.item[i].ref + (-1) /\ h.cbRef = s.item[i].cbRef + 0 /\ h.cbCalled = s.item[i].cbCalled
  <2>1. s.item[i].ref - 1 \in Nat /\ s.item[i].ref - 1 = s.item[i].ref + (-1)
    BY <1>2, <1>3
  <2>2. QED
    BY <1>1, <2>1 DEF ItemType
<1> HIDE DEF h
<1>6. /\ Sound(t, {} \cup {i}, {}) /\ Leaves(s, t)
      /\ \A c \in Colls : Linked(t, c) = Linked(s, c)
  BY <1>5, WithItemIs
<1>7. t.item[i] = h /\ t.stack = s.stack
  <2>1. ItemWas(s, t, i, h)
    BY <1>1, <1>5, WithItemFields
  <2> HIDE DEF t
  <2>2. QED
    BY <2>1 DEF ItemWas
<1>8. Even(t)
  <2>1. Refs(t, None, i, 0, 1 + (-1), 0 + 0, 0)
    BY <1>1, <1>5, WithItemRefs
  <2>2. 1 + (-1) = 0 /\ 0 + 0 = 0
    OBVIOUS
  <2>3. QED
    BY <2>1, <2>2, RefsNone
<1>9. ~(s.item[i].ref = 0)
  BY <1>2, <1>3
<1>10. ObjUnref(s, i) = IF t.item[i].destroyed /\ t.item[i].ref = 0 /\ ~t.item[i].called
                        THEN BeginDtor(t, i) ELSE t
  BY <1>4, <1>9 DEF ObjUnref
<1> HIDE DEF t
<1>11. ItemLife(s, i)
  BY DEF Sound, Alive
<1>12. CASE t.item[i].destroyed /\ t.item[i].ref = 0 /\ ~t.item[i].called
  <2>1. {} \cup {i} = {i}
    OBVIOUS
  <2>2. ~t.item[i].freed /\ (~DestroyBusy /\ t.item[i].cbCalled => \A c \in Colls : i \notin Linked(t, c))
    BY <1>5, <1>6, <1>7, <1>11, <1>12 DEF ItemLife
  <2>3. Good(t, BeginDtor(t, i))
    BY <1>6, <1>8, <1>12, <2>1, <2>2, BeginDtorIs
  <2>4. Good(s, BeginDtor(t, i))
    BY <1>1, <1>6, <2>3, LeavesTwice DEF Good, Sound
  <2>5. QED
    BY <1>10, <1>12, <2>4
<1>13. CASE ~(t.item[i].destroyed /\ t.item[i].ref = 0 /\ ~t.item[i].called)
  <2>1. h.ref \in Nat
    BY <1>5 DEF ItemType
  <2>2. ItemLife(t, i)
    BY <1>5, <1>6, <1>7, <1>11, <1>13, <2>1 DEF ItemLife
  <2>3. Sound(t, {}, {})
    BY <1>6, <2>2, SoundAgain
  <2>4. QED
    BY <1>6, <1>8, <1>10, <1>13, <2>3 DEF Good
<1>14. QED
  BY <1>12, <1>13

LEMMA CollectibleObjDestroyIs ==
  ASSUME NEW s, NEW i \in Items, Sound(s, {i}, {}), NEW k \in {0, 1}, Refs(s, None, i, 0, k, 0, 0),
         ~s.item[i].called, ~s.item[i].freed, s.item[i].cbRef = 0
  PROVE  /\ Paid(s, CollectibleObjDestroy(s, i), i, k)
         /\ s.item[i].ref > 0 => ~CollectibleObjDestroy(s, i).item[i].called
<1> DEFINE h == [s.item[i] EXCEPT !.cbCalled = TRUE]
           b == WithItem(s, i, h)
           a == InstanceDestroy(b, Colls, i)
<1>1. s \in States /\ ListsOK(s) /\ s.item[i] \in ItemType
  BY ItemsTyped DEF Sound, ListsOK, Typed
<1>2. [s EXCEPT !.item[i].cbCalled = TRUE] = b
  BY <1>1 DEF WithItem, States
<1>3. /\ h \in ItemType /\ h.destroyed = s.item[i].destroyed /\ h.cbDestroyed = s.item[i].cbDestroyed
      /\ h.called = s.item[i].called /\ h.freed = s.item[i].freed
      /\ h.ref = s.item[i].ref + 0 /\ h.cbRef = s.item[i].cbRef + 0 /\ h.cbCalled
  <2>1. s.item[i].ref = s.item[i].ref + 0 /\ s.item[i].cbRef = s.item[i].cbRef + 0
    BY <1>1 DEF ItemType
  <2>2. QED
    BY <1>1, <2>1 DEF ItemType
<1> HIDE DEF h
<1>4. Sound(b, {i} \cup {i}, {}) /\ Leaves(s, b)
  BY <1>3, WithItemIs
<1>5. b.item[i] = h /\ b.link = s.link /\ b.stack = s.stack
  <2>1. ItemWas(s, b, i, h)
    BY <1>1, <1>3, WithItemFields
  <2> HIDE DEF b
  <2>2. QED
    BY <2>1 DEF ItemWas
<1>6. Refs(b, None, i, 0, k + 0, 0 + 0, 0)
  BY <1>1, <1>3, WithItemRefs
<1> HIDE DEF b
<1>7. /\ Sound(a, {i} \cup {i}, {}) /\ Refs(a, None, i, 0, k + 0, 0 + 0, 0) /\ Leaves(b, a)
      /\ Removed(b, a, Colls, i)
      /\ \A c \in Colls : i \in Linked(a, c) => b.link[c][i].ref > 0
  BY <1>4, <1>6, ApartIs
<1> HIDE DEF a
<1>8. Sound(a, {i}, {}) /\ Refs(a, None, i, 0, k, 0, 0)
  <2>1. k + 0 = k /\ 0 + 0 = 0 /\ {i} \cup {i} = {i}
    OBVIOUS
  <2>2. QED
    BY <1>7, <2>1
<1>9. a.item[i] = h
  BY <1>5, <1>7 DEF Removed
<1>10. ASSUME ~DestroyBusy, NEW c \in Colls PROVE i \notin Linked(a, c)
  <2>1. s.item[i].cbRef = CbCount(s, i) + Owed(i, i, 0)
    BY <1>10 DEF Refs, AtLeast
  <2>2. CbCount(s, i) = 0
    BY <1>1, <2>1, CountsAreNat DEF Owed
  <2>3. LinkCount(s, c, i) = 0
    BY <1>1, <2>2, CountsAreNat
  <2>4. s.link[c][i].ref = LinkCount(s, c, i) + Owed(<<c, i>>, <<None, i>>, 0)
    BY <1>10 DEF Refs, AtLeast
  <2>5. s.link[c][i].ref = 0
    BY <2>3, <2>4 DEF Owed
  <2>6. QED
    BY <1>5, <1>7, <2>5
<1>11. CollectibleObjDestroy(s, i) = ObjDestroy(a, i)
  BY <1>2 DEF CollectibleObjDestroy, a
<1>12. /\ Paid(a, ObjDestroy(a, i), i, k)
       /\ a.item[i].ref > 0 => ~ObjDestroy(a, i).item[i].called
  BY <1>3, <1>8, <1>9, <1>10, ObjDestroyIs
<1>13. Leaves(s, ObjDestroy(a, i))
  <2>1. Leaves(s, a)
    BY <1>1, <1>4, <1>7, LeavesTwice DEF Sound
  <2>2. QED
    BY <1>1, <1>8, <1>12, <2>1, LeavesTwice DEF Paid, Sound
<1>14. a.item[i].ref = s.item[i].ref
  BY <1>1, <1>3, <1>9 DEF ItemType
<1>15. QED
  BY <1>11, <1>12, <1>13, <1>14 DEF Paid

LEMMA CollectibleDestroyIs ==
  ASSUME NEW s, NEW i \in Items, Sound(s, {}, {}), Even(s), ~s.item[i].called
  PROVE  Good(s, CollectibleDestroy(s, i))
<1> DEFINE h == [s.item[i] EXCEPT !.cbDestroyed = TRUE]
           b == WithItem(s, i, h)
<1>1. s \in States /\ ListsOK(s) /\ s.item[i] \in ItemType
  BY ItemsTyped DEF Sound, ListsOK, Typed
<1>2. ItemLife(s, i) /\ ~s.item[i].freed
  BY DEF Sound, Alive, ItemLife
<1>3. CASE s.item[i].cbCalled
  <2>1. CollectibleDestroy(s, i) = s
    BY <1>3 DEF CollectibleDestroy
  <2>2. Touched(s, s)
    BY <1>1 DEF Touched, ListsOK
  <2>3. Leaves(s, s)
    BY <1>1, <2>2, TouchedIs
  <2>4. QED
    BY <2>1, <2>3 DEF Good
<1>4. CASE ~s.item[i].cbCalled /\ s.item[i].cbRef > 0
  <2>1. CollectibleDestroy(s, i) = b
    <3>1. [s EXCEPT !.item[i].cbDestroyed = TRUE] = b
      BY <1>1 DEF WithItem, States
    <3>2. QED
      BY <1>4, <3>1 DEF CollectibleDestroy
  <2>2. /\ h \in ItemType /\ h.destroyed = s.item[i].destroyed /\ h.cbDestroyed
        /\ h.called = s.item[i].called /\ h.freed = s.item[i].freed
        /\ h.ref = s.item[i].ref /\ h.cbRef = s.item[i].cbRef /\ h.cbCalled = s.item[i].cbCalled
    BY <1>1 DEF ItemType
  <2> HIDE DEF h
  <2>3. /\ Sound(b, {} \cup {i}, {}) /\ Leaves(s, b)
        /\ \A c \in Colls : Linked(b, c) = Linked(s, c)
    BY <2>2, WithItemIs
  <2>4. ItemWas(s, b, i, h) /\ Even(b)
    BY <1>1, <2>2, WithItemSame
  <2> HIDE DEF b
  <2>5. ItemLife(b, i)
    BY <1>2, <2>2, <2>3, <2>4 DEF ItemLife, ItemWas
  <2>6. QED
    BY <2>1, <2>3, <2>4, <2>5, SoundAgain DEF Good
<1>5. CASE ~s.item[i].cbCalled /\ ~(s.item[i].cbRef > 0)
  <2>1. CollectibleDestroy(s, i) = CollectibleObjDestroy(s, i)
    BY <1>5 DEF CollectibleDestroy
  <2>2. s.item[i].cbRef = 0
    BY <1>1, <1>5 DEF ItemType
  <2>3. Sound(s, {i}, {})
    <3>1. Sound(s, {} \cup {i}, {})
      BY SoundAgain
    <3>2. {} \cup {i} = {i}
      OBVIOUS
    <3>3. QED
      BY <3>1, <3>2
  <2>4. Refs(s, None, i, 0, 0, 0, 0)
    BY RefsNone
  <2>5. Paid(s, CollectibleObjDestroy(s, i), i, 0)
    BY <1>2, <2>2, <2>3, <2>4, CollectibleObjDestroyIs
  <2>6. QED
    BY <2>1, <2>5, RefsNone DEF Paid, Good
<1>6. QED
  BY <1>3, <1>4, <1>5

LEMMA CollectibleUnrefIs ==
  ASSUME NEW s, NEW i \in Items, Sound(s, {}, {}), Refs(s, None, i, 0, 1, 1, 0), ~s.item[i].called
  PROVE  /\ Paid(s, CollectibleUnref(s, i), i, 1)
         /\ ~CollectibleUnref(s, i).item[i].called
<1> DEFINE h == [s.item[i] EXCEPT !.cbRef = @ - 1]
           t == WithItem(s, i, h)
<1>1. s \in States /\ ListsOK(s) /\ s.item[i] \in ItemType
  BY ItemsTyped DEF Sound, ListsOK, Typed
<1>2. /\ ItemCount(s, i) \in Nat /\ CbCount(s, i) \in Nat
      /\ s.item[i].ref \in Nat /\ s.item[i].cbRef \in Nat
  BY <1>1, CountsAreNat DEF ItemType
<1>3. s.item[i].ref >= 1 /\ s.item[i].cbRef >= 1
  <2>1. /\ s.item[i].ref >= ItemCount(s, i) + Owed(i, i, 1)
        /\ s.item[i].cbRef >= CbCount(s, i) + Owed(i, i, 1)
    BY DEF Refs, AtLeast
  <2>2. Owed(i, i, 1) = 1
    BY DEF Owed
  <2>3. QED
    BY <1>2, <2>1, <2>2
<1>4. [s EXCEPT !.item[i].cbRef = @ - 1] = t
  BY <1>1 DEF WithItem, States
<1>5. /\ h \in ItemType /\ h.destroyed = s.item[i].destroyed /\ h.cbDestroyed = s.item[i].cbDestroyed
      /\ h.called = s.item[i].called /\ h.freed = s.item[i].freed
      /\ h.ref = s.item[i].ref + 0 /\ h.cbRef = s.item[i].cbRef + (-1) /\ h.cbCalled = s.item[i].cbCalled
  <2>1. /\ s.item[i].cbRef - 1 \in Nat /\ s.item[i].cbRef - 1 = s.item[i].cbRef + (-1)
        /\ s.item[i].ref = s.item[i].ref + 0
    BY <1>2, <1>3
  <2>2. QED
    BY <1>1, <2>1 DEF ItemType
<1> HIDE DEF h
<1>6. /\ Sound(t, {} \cup {i}, {}) /\ Leaves(s, t)
      /\ \A c \in Colls : Linked(t, c) = Linked(s, c)
  BY <1>5, WithItemIs
<1>7. t.item[i] = h /\ t.stack = s.stack
  <2>1. ItemWas(s, t, i, h)
    BY <1>1, <1>5, WithItemFields
  <2> HIDE DEF t
  <2>2. QED
    BY <2>1 DEF ItemWas
<1>8. Refs(t, None, i, 0, 1, 0, 0)
  <2>1. Refs(t, None, i, 0, 1 + 0, 1 + (-1), 0)
    BY <1>1, <1>5, WithItemRefs
  <2>2. 1 + (-1) = 0 /\ 1 + 0 = 1
    OBVIOUS
  <2>3. QED
    BY <2>1, <2>2
<1>9. ~(s.item[i].cbRef = 0)
  BY <1>2, <1>3
<1>10. CollectibleUnref(s, i) = IF t.item[i].cbDestroyed /\ t.item[i].cbRef = 0 /\ ~t.item[i].cbCalled
                                THEN CollectibleObjDestroy(t, i) ELSE t
  BY <1>4, <1>9 DEF CollectibleUnref
<1> HIDE DEF t
<1>11. ItemLife(s, i)
  BY DEF Sound, Alive
<1>12. ItemLife(t, i) /\ ~t.item[i].freed /\ ~t.item[i].called
  <2>1. t.item[i].ref = s.item[i].ref
    BY <1>2, <1>5, <1>7
  <2>2. QED
    BY <1>5, <1>6, <1>7, <1>11, <2>1 DEF ItemLife
<1>13. Sound(t, {}, {})
  BY <1>6, <1>12, SoundAgain
<1>14. CASE t.item[i].cbDestroyed /\ t.item[i].cbRef = 0 /\ ~t.item[i].cbCalled
  <2>1. {} \cup {i} = {i}
    OBVIOUS
  <2>2. t.item[i].ref > 0
    BY <1>2, <1>3, <1>5, <1>7
  <2>3. /\ Paid(t, CollectibleObjDestroy(t, i), i, 1)
        /\ ~CollectibleObjDestroy(t, i).item[i].called
    BY <1>6, <1>8, <1>12, <1>14, <2>1, <2>2, CollectibleObjDestroyIs
  <2>4. Paid(s, CollectibleObjDestroy(t, i), i, 1)
    BY <1>1, <1>6, <2>3, LeavesTwice DEF Paid, Sound
  <2>5. QED
    BY <1>10, <1>14, <2>3, <2>4
<1>15. CASE ~(t.item[i].cbDestroyed /\ t.item[i].cbRef = 0 /\ ~t.item[i].cbCalled)
  BY <1>6, <1>8, <1>10, <1>12, <1>13, <1>15 DEF Paid
<1>16. QED
  BY <1>14, <1>15

(*-------------------------- collections as objects ------------------------*)
LEMMA WithCollRefs ==
  ASSUME NEW s \in States, NEW c \in Colls, NEW k \in CollType, NEW a \in Int,
         k.ref = s.coll[c].ref + a,
         NEW I, NEW kc \in Int, NEW ki \in Int, NEW kb \in Int, NEW kl \in Int,
         Refs(s, c, I, kc, ki, kb, kl)
  PROVE  Refs(WithColl(s, c, k), c, I, kc + a, ki, kb, kl)
<1> DEFINE t == WithColl(s, c, k)
<1>1. /\ t.item = s.item /\ t.link = s.link /\ t.stack = s.stack
      /\ t.coll[c] = k /\ \A d \in Colls : d # c => t.coll[d] = s.coll[d]
  <2>1. CollWas(s, t, c, k)
    BY WithCollFields
  <2> HIDE DEF t
  <2>2. QED
    BY <2>1 DEF CollWas
<1> HIDE DEF t
<1>2. /\ \A d : CollCount(t, d) = CollCount(s, d)
      /\ \A j : ItemCount(t, j) = ItemCount(s, j) /\ CbCount(t, j) = CbCount(s, j)
      /\ \A d, j : LinkCount(t, d, j) = LinkCount(s, d, j)
  BY <1>1 DEF CollCount, ItemCount, CbCount, LinkCount, Users, Lockers, Holders, CbLockers, LinkLockers
<1>3. \A d \in Colls : CollCount(s, d) \in Nat /\ s.coll[d] \in CollType
  BY CountsAreNat, ItemsTyped
<1>4. ASSUME NEW d \in Colls
      PROVE  AtLeast(t.coll[d].ref, CollCount(t, d) + Owed(d, c, kc + a))
  <2>1. AtLeast(s.coll[d].ref, CollCount(s, d) + Owed(d, c, kc))
    BY DEF Refs
  <2>2. s.coll[d].ref \in Nat /\ CollCount(s, d) \in Nat
    BY <1>3 DEF CollType
  <2>3. CASE d = c
    BY <1>1, <1>2, <2>1, <2>2, <2>3 DEF AtLeast, Owed
  <2>4. CASE d # c
    BY <1>1, <1>2, <2>1, <2>4 DEF Owed
  <2>5. QED
    BY <2>3, <2>4
<1>5. QED
  BY <1>1, <1>2, <1>4 DEF Refs, t

SameMembers(s, t) == \A d \in Colls : Members(t, d) = Members(s, d)
LEMMA CollectionObjDestroyIs ==
  ASSUME NEW s, NEW c \in Colls, Sound(s, {}, {c}), Even(s),
         s.coll[c].ref = 0, ~s.coll[c].called, ~s.coll[c].freed,
         ~DestroyBusy => ~s.coll[c].destroyed
  PROVE  Good(s, CollectionObjDestroy(s, c)) /\ SameMembers(s, CollectionObjDestroy(s, c))
<1> DEFINE n0 == NewIterator(s, c)
           f == Frame("destroy", c, None, n0, "next")
           k == [s.coll[c] EXCEPT !.called = TRUE, !.void = TRUE]
           b == WithColl(s, c, k)
           t == Push(b, f)
<1>1. s \in States /\ ListsOK(s) /\ Typed(s) /\ Sizes(s) /\ s.coll[c] \in CollType
  BY ItemsTyped DEF Sound, ListsOK, Typed
<1>2. CollectionObjDestroy(s, c) = t
  <2>1. [s EXCEPT !.coll[c].called = TRUE, !.coll[c].void = TRUE] = b
    BY <1>1 DEF WithColl, States
  <2>2. QED
    BY <2>1 DEF CollectionObjDestroy
<1>3. /\ n0 \in Linked(s, c) \cup {None} /\ n0 \in Items \cup {None}
      /\ ToVisit(s, c, n0) = Members(s, c)
  BY <1>1, NewIteratorIs
<1> HIDE DEF n0
<1>4. /\ f.op = "destroy" /\ f.c = c /\ f.i = None /\ f.next = n0 /\ f.pc = "next"
      /\ f \in Frames
  BY <1>3 DEF Frame, Frames, FrameType, FrameShape, Ops
<1> HIDE DEF f
<1>5. /\ k \in CollType /\ k.order = s.coll[c].order /\ k.size = s.coll[c].size
      /\ k.destroyed = s.coll[c].destroyed /\ k.called /\ k.void /\ k.freed = s.coll[c].freed
      /\ k.ref = s.coll[c].ref
  BY <1>1 DEF CollType
<1> HIDE DEF k
<1>6. \A n \in 1 .. Len(s.stack) : s.stack[n].c # c
  BY NobodyHas
<1>7. /\ Sound(b, {}, {c} \cup {c}) /\ Leaves(s, b)
      /\ \A d \in Colls : Linked(b, d) = Linked(s, d)
      /\ SameMembers(s, b)
  <2>1. /\ \A n \in 1 .. Len(s.stack) : ~(s.stack[n].c = c /\ LocksIt(s.stack[n]))
        /\ \A n \in 1 .. Len(s.stack) : ~(s.stack[n].c = c /\ s.stack[n].op = "match")
    BY <1>6
  <2>2. QED
    BY <1>5, <2>1, WithCollIs DEF SameMembers
<1>8. /\ b \in States /\ b.item = s.item /\ b.link = s.link /\ b.stack = s.stack
      /\ b.coll[c] = k /\ \A d \in Colls : d # c => b.coll[d] = s.coll[d]
  <2>1. CollWas(s, b, c, k)
    BY <1>1, <1>5, WithCollFields
  <2> HIDE DEF b
  <2>2. QED
    BY <2>1 DEF CollWas
<1> HIDE DEF b
<1>9. /\ ListsOK(t) /\ (~Running(f) => Leaves(b, t))
      /\ \A d : Members(t, d) = Members(b, d)
      /\ \A d, n : ToVisit(t, d, n) = ToVisit(b, d, n)
  <2>1. f.next # None => f.next \in Linked(b, f.c)
    BY <1>3, <1>4, <1>7
  <2>2. QED
    BY <1>4, <1>7, <2>1, PushLists DEF Sound
<1>10. /\ \A j \in Items : ItemLife(b, j) => ItemLife(t, j)
       /\ \A d \in Colls : CollLife(b, d) => CollLife(t, d)
       /\ Emptied(b) => Emptied(t)
       /\ Calls(b) /\ ItemCall(b, f) /\ CollCall(b, f)
          /\ (\A n \in 1 .. Len(b.stack) : Apart(b.stack[n], f)) => Calls(t)
       /\ Nested(b) /\ (Running(f) => Len(b.stack) + 1 <= MaxDepth) => Nested(t)
  BY <1>4, <1>8, PushLife
<1>11. /\ Len(t.stack) = Len(b.stack) + 1 /\ Len(b.stack) \in Nat
       /\ DOMAIN t.stack = 1 .. Len(b.stack) + 1
       /\ \A n \in 1 .. Len(b.stack) : t.stack[n] = b.stack[n]
       /\ t.stack[Len(b.stack) + 1] = f
       /\ t.coll = b.coll /\ t.item = b.item
  BY <1>4, <1>8, PushIs, StackIs
<1>12. Even(t)
  <2>1. FrameOwes(f, None, None, 0, 0, 0, 0)
    BY <1>4, FrameOwesIs
  <2>2. Refs(t, None, None, 0, 0, 0, 0) <=> Refs(b, None, None, 0 + 0, 0 + 0, 0 + 0, 0 + 0)
    BY <1>4, <1>8, <2>1, PushRefs
  <2>3. Refs(b, None, None, 0, 0, 0, 0) <=> Refs(s, None, None, 0, 0, 0, 0)
    <3>1. \A d \in Colls : b.coll[d].ref = s.coll[d].ref
      BY <1>5, <1>8
    <3>2. QED
      BY <1>8, <3>1, SameRefs
  <2>4. QED
    BY <2>2, <2>3 DEF Even
<1> HIDE DEF t
<1>13. Calls(t)
  <2>1. ItemCall(b, f) /\ CollCall(b, f)
    BY <1>4, <1>5, <1>8 DEF ItemCall, CollCall, LocksIt
  <2>2. \A n \in 1 .. Len(b.stack) : Apart(b.stack[n], f)
    BY <1>4, <1>6, <1>8 DEF Apart
  <2>3. QED
    BY <1>7, <1>10, <2>1, <2>2 DEF Sound, Alive
<1>14. CollLife(t, c)
  <2>1. \E n \in DOMAIN t.stack : t.stack[n].op = "destroy" /\ t.stack[n].c = c
    <3>1. Len(b.stack) + 1 \in 1 .. Len(b.stack) + 1
      BY <1>11
    <3>2. QED
      BY <1>4, <1>11, <3>1
  <2>2. QED
    BY <1>5, <1>8, <1>11, <2>1 DEF CollLife
<1>15. Alive(t, {}, {})
  BY <1>7, <1>10, <1>13, <1>14 DEF Sound, Alive
<1>16. Swept(t)
  <2>1. ASSUME NEW n \in 1 .. Len(t.stack), t.stack[n].op = "destroy"
        PROVE  Members(t, t.stack[n].c) \subseteq ToVisit(t, t.stack[n].c, t.stack[n].next)
    <3>1. CASE n = Len(b.stack) + 1
      <4>1. Members(t, c) = Members(s, c)
        BY <1>7, <1>9 DEF SameMembers
      <4>2. ToVisit(t, c, n0) = ToVisit(s, c, n0)
        <5>1. ToVisit(b, c, n0) = ToVisit(s, c, n0)
          <6>1. b.coll[c].destroyed = s.coll[c].destroyed /\ b.coll[c].order = s.coll[c].order
            BY <1>5, <1>8
          <6>2. \A i : Valid(b, c, i) <=> Valid(s, c, i)
            BY <1>8 DEF Valid
          <6>3. QED
            BY <6>1, <6>2 DEF ToVisit
        <5>2. QED
          BY <1>9, <5>1
      <4>3. QED
        BY <1>3, <1>4, <1>11, <3>1, <4>1, <4>2
    <3>2. CASE n # Len(b.stack) + 1
      <4>1. n \in 1 .. Len(b.stack) /\ t.stack[n] = b.stack[n]
        BY <1>11, <3>2
      <4>2. Members(b, b.stack[n].c) \subseteq ToVisit(b, b.stack[n].c, b.stack[n].next)
        BY <1>7, <2>1, <4>1 DEF Swept, Sound
      <4>3. QED
        BY <1>9, <4>1, <4>2
    <3>3. QED
      BY <3>1, <3>2
  <2>2. QED
    BY <2>1 DEF Swept
<1>17. Leaves(s, t)
  <2>1. ~Running(f)
    BY <1>4 DEF Running
  <2>2. QED
    BY <1>1, <1>7, <1>9, <2>1, LeavesTwice DEF Sound
<1>18. SameMembers(s, t)
  BY <1>7, <1>9 DEF SameMembers
<1>19. Emptied(t) /\ Nested(t)
  BY <1>4, <1>7, <1>10 DEF Sound, Running
<1>20. QED
  BY <1>2, <1>9, <1>12, <1>15, <1>16, <1>17, <1>18, <1>19 DEF Good, Sound

LEMMA CollectionDestroyIs ==
  ASSUME NEW s, NEW c \in Colls, Sound(s, {}, {}), Even(s), ~s.coll[c].freed,
         s.coll[c].ref > 0 => DestroyBusy
  PROVE  Good(s, CollectionDestroy(s, c))
<1> DEFINE k == [s.coll[c] EXCEPT !.destroyed = TRUE]
           b == WithColl(s, c, k)
<1>1. s \in States /\ ListsOK(s) /\ s.coll[c] \in CollType
  BY ItemsTyped DEF Sound, ListsOK, Typed
<1>2. CollLife(s, c)
  BY DEF Sound, Alive
<1>3. CASE s.coll[c].called
  <2>1. CollectionDestroy(s, c) = s
    BY <1>3 DEF CollectionDestroy
  <2>2. Touched(s, s)
    BY <1>1 DEF Touched, ListsOK
  <2>3. Leaves(s, s)
    BY <1>1, <2>2, TouchedIs
  <2>4. QED
    BY <2>1, <2>3 DEF Good
<1>4. CASE ~s.coll[c].called /\ s.coll[c].ref > 0
  <2>1. CollectionDestroy(s, c) = b
    <3>1. [s EXCEPT !.coll[c].destroyed = TRUE] = b
      BY <1>1 DEF WithColl, States
    <3>2. QED
      BY <1>4, <3>1 DEF CollectionDestroy
  <2>2. /\ k \in CollType /\ k.order = s.coll[c].order /\ k.size = s.coll[c].size
        /\ k.destroyed /\ k.called = s.coll[c].called /\ k.void = s.coll[c].void
        /\ k.freed = s.coll[c].freed /\ k.ref = s.coll[c].ref
    BY <1>1 DEF CollType
  <2> HIDE DEF k
  <2>3. Sound(b, {}, {} \cup {c}) /\ Leaves(s, b)
    BY <2>2, WithCollIs
  <2>4. /\ b.item = s.item /\ b.link = s.link /\ b.stack = s.stack
        /\ b.coll[c] = k /\ \A d \in Colls : d # c => b.coll[d] = s.coll[d]
    <3>1. CollWas(s, b, c, k)
      BY <1>1, <2>2, WithCollFields
    <3> HIDE DEF b
    <3>2. QED
      BY <3>1 DEF CollWas
  <2> HIDE DEF b
  <2>5. Refs(b, None, None, 0, 0, 0, 0) <=> Refs(s, None, None, 0, 0, 0, 0)
    <3>1. \A d \in Colls : b.coll[d].ref = s.coll[d].ref
      BY <2>2, <2>4
    <3>2. QED
      BY <2>4, <3>1, SameRefs
  <2>6. CollLife(b, c)
    BY <1>2, <1>4, <2>2, <2>4 DEF CollLife
  <2>7. QED
    BY <2>1, <2>3, <2>5, <2>6, SoundAgain DEF Good, Even
<1>5. CASE ~s.coll[c].called /\ ~(s.coll[c].ref > 0)
  <2>1. CollectionDestroy(s, c) = CollectionObjDestroy(s, c)
    BY <1>5 DEF CollectionDestroy
  <2>2. s.coll[c].ref = 0
    BY <1>1, <1>5 DEF CollType
  <2>3. Sound(s, {}, {c})
    <3>1. Sound(s, {}, {} \cup {c})
      BY SoundAgain
    <3>2. {} \cup {c} = {c}
      OBVIOUS
    <3>3. QED
      BY <3>1, <3>2
  <2>4. ~DestroyBusy => ~s.coll[c].destroyed
    BY <1>2 DEF CollLife
  <2>5. QED
    BY <1>5, <2>1, <2>2, <2>3, <2>4, CollectionObjDestroyIs
<1>6. QED
  BY <1>3, <1>4, <1>5

LEMMA CollectionUnrefIs ==
  ASSUME NEW s, NEW c \in Colls, Sound(s, {}, {}), Refs(s, c, None, 1, 0, 0, 0)
  PROVE  Good(s, CollectionUnref(s, c)) /\ SameMembers(s, CollectionUnref(s, c))
<1> DEFINE k == [s.coll[c] EXCEPT !.ref = @ - 1]
           t == WithColl(s, c, k)
<1>1. s \in States /\ ListsOK(s) /\ s.coll[c] \in CollType
  BY ItemsTyped DEF Sound, ListsOK, Typed
<1>2. CollCount(s, c) \in Nat /\ s.coll[c].ref \in Nat
  BY <1>1, CountsAreNat DEF CollType
<1>3. s.coll[c].ref >= 1
  <2>1. s.coll[c].ref >= CollCount(s, c) + Owed(c, c, 1)
    BY DEF Refs, AtLeast
  <2>2. Owed(c, c, 1) = 1
    BY DEF Owed
  <2>3. QED
    BY <1>2, <2>1, <2>2
<1>4. [s EXCEPT !.coll[c].ref = @ - 1] = t
  BY <1>1 DEF WithColl, States
<1>5. /\ k \in CollType /\ k.order = s.coll[c].order /\ k.size = s.coll[c].size
      /\ k.destroyed = s.coll[c].destroyed /\ k.called = s.coll[c].called /\ k.void = s.coll[c].void
      /\ k.freed = s.coll[c].freed /\ k.ref = s.coll[c].ref + (-1)
  <2>1. s.coll[c].ref - 1 \in Nat /\ s.coll[c].ref - 1 = s.coll[c].ref + (-1)
    BY <1>2, <1>3
  <2>2. QED
    BY <1>1, <2>1 DEF CollType
<1> HIDE DEF k
<1>6. Sound(t, {}, {} \cup {c}) /\ Leaves(s, t) /\ SameMembers(s, t)
  BY <1>5, WithCollIs DEF SameMembers
<1>7. t.coll[c] = k /\ t.stack = s.stack
  <2>1. CollWas(s, t, c, k)
    BY <1>1, <1>5, WithCollFields
  <2> HIDE DEF t
  <2>2. QED
    BY <2>1 DEF CollWas
<1>8. Even(t)
  <2>1. Refs(t, c, None, 1 + (-1), 0, 0, 0)
    BY <1>1, <1>5, WithCollRefs
  <2>2. 1 + (-1) = 0
    OBVIOUS
  <2>3. QED
    BY <2>1, <2>2, RefsNone
<1>9. ~(s.coll[c].ref = 0)
  BY <1>2, <1>3
<1>10. CollectionUnref(s, c) = IF t.coll[c].destroyed /\ t.coll[c].ref = 0 /\ ~t.coll[c].called
                               THEN CollectionObjDestroy(t, c) ELSE t
  BY <1>4, <1>9 DEF CollectionUnref
<1> HIDE DEF t
<1>11. CollLife(t, c)
  BY <1>5, <1>7 DEF Sound, Alive, CollLife
<1>12. CASE t.coll[c].destroyed /\ t.coll[c].ref = 0 /\ ~t.coll[c].called
  <2>1. {} \cup {c} = {c}
    OBVIOUS
  <2>2. ~t.coll[c].freed /\ (~DestroyBusy => ~t.coll[c].destroyed)
    BY <1>11, <1>12 DEF CollLife
  <2>3. Good(t, CollectionObjDestroy(t, c)) /\ SameMembers(t, CollectionObjDestroy(t, c))
    BY <1>6, <1>8, <1>12, <2>1, <2>2, CollectionObjDestroyIs
  <2>4. Good(s, CollectionObjDestroy(t, c))
    BY <1>1, <1>6, <2>3, LeavesTwice DEF Good, Sound
  <2>5. QED
    BY <1>6, <1>10, <1>12, <2>3, <2>4 DEF SameMembers
<1>13. CASE ~(t.coll[c].destroyed /\ t.coll[c].ref = 0 /\ ~t.coll[c].called)
  BY <1>6, <1>8, <1>10, <1>11, <1>13, SoundAgain DEF Good
<1>14. QED
  BY <1>12, <1>13

(*---------------------------------- locks ---------------------------------*)
WithLink(s, c, i, k) == [s EXCEPT !.link = [s.link EXCEPT ![c] = [s.link[c] EXCEPT ![i] = k]]]
LinkWas(s, t, c, i, k) ==
    /\ t \in States /\ t.coll = s.coll /\ t.item = s.item /\ t.stack = s.stack
    /\ t.link[c][i] = k
    /\ \A d \in Colls, j \in Items : <<d, j>> # <<c, i>> => t.link[d][j] = s.link[d][j]
LEMMA WithLinkFields ==
  ASSUME NEW s \in States, NEW c \in Colls, NEW i \in Items, NEW k \in LinkType
  PROVE  LinkWas(s, WithLink(s, c, i, k), c, i, k)
<1> DEFINE l == [s.link EXCEPT ![c] = [s.link[c] EXCEPT ![i] = k]]
<1>1. s.link \in [Colls -> [Items -> LinkType]]
  BY DEF States
<1>2. /\ l \in [Colls -> [Items -> LinkType]] /\ l[c][i] = k
      /\ \A d \in Colls, j \in Items : <<d, j>> # <<c, i>> => l[d][j] = s.link[d][j]
  BY <1>1
<1>3. WithLink(s, c, i, k) = [s EXCEPT !.link = l]
  BY DEF WithLink
<1> HIDE DEF l
<1>4. QED
  BY <1>2, <1>3 DEF States, LinkWas

LEMMA WithLinkIs ==
  ASSUME NEW s, NEW I, NEW C, Sound(s, I, C), NEW c \in Colls, NEW i \in Linked(s, c),
         NEW k \in LinkType, k.destroyed = s.link[c][i].destroyed, k.ref > 0
  PROVE  LET t == WithLink(s, c, i, k)
         IN  Sound(t, I, C) /\ Leaves(s, t) /\ SameMembers(s, t)
<1> DEFINE t == WithLink(s, c, i, k)
<1>1. s \in States /\ ListsOK(s) /\ i \in Items
  BY CollIs DEF Sound, ListsOK, Typed
<1>2. /\ t \in States /\ t.coll = s.coll /\ t.item = s.item /\ t.stack = s.stack
      /\ t.link[c][i] = k
      /\ \A d \in Colls, j \in Items : <<d, j>> # <<c, i>> => t.link[d][j] = s.link[d][j]
  <2>1. LinkWas(s, t, c, i, k)
    BY <1>1, WithLinkFields
  <2> HIDE DEF t
  <2>2. QED
    BY <2>1 DEF LinkWas
<1> HIDE DEF t
<1>3. \A d \in Colls : Linked(t, d) = Linked(s, d)
  BY <1>2 DEF Linked
<1>4. \A d \in Colls, j \in Items : t.link[d][j].destroyed = s.link[d][j].destroyed
  <2>1. ASSUME NEW d \in Colls, NEW j \in Items PROVE t.link[d][j].destroyed = s.link[d][j].destroyed
    <3>1. CASE d = c /\ j = i
      BY <1>2, <3>1
    <3>2. CASE ~(d = c /\ j = i)
      BY <1>2, <3>2
    <3>3. QED
      BY <3>1, <3>2
  <2>2. QED
    BY <2>1
<1>5. LinksOK(t)
  <2>1. ASSUME NEW d \in Colls, NEW j \in Items
        PROVE  /\ j \notin Linked(t, d) => t.link[d][j] = NewLink
               /\ j \in Linked(t, d) /\ t.link[d][j].destroyed => t.link[d][j].ref > 0
    <3>1. CASE d = c /\ j = i
      BY <1>2, <1>3, <3>1
    <3>2. CASE ~(d = c /\ j = i)
      BY <1>1, <1>2, <1>3, <3>2 DEF LinksOK, ListsOK
    <3>3. QED
      BY <3>1, <3>2
  <2>2. QED
    BY <2>1 DEF LinksOK
<1>6. Touched(s, t)
  BY <1>2, <1>4, <1>5 DEF Touched
<1>7. ListsOK(t) /\ Leaves(s, t)
  BY <1>1, <1>6, TouchedIs
<1>8. SameCalls(s, t)
  BY <1>2 DEF SameCalls, SameCall
<1>9. Swept(t) /\ Nested(t)
  BY <1>1, <1>2, <1>7, <1>8, LeavesCalls DEF Sound
<1>10. /\ \A j \in Items : ItemLife(s, j) => ItemLife(t, j)
       /\ \A d \in Colls : CollLife(s, d) => CollLife(t, d)
       /\ Calls(s) => Calls(t)
       /\ Emptied(s) => Emptied(t)
  <2>1. \A d \in Colls : SameFlags(s.coll[d], t.coll[d]) /\ Linked(t, d) \subseteq Linked(s, d)
    BY <1>2, <1>3 DEF SameFlags
  <2>2. QED
    BY <1>1, <1>2, <1>8, <2>1, SameLife
<1>11. SameMembers(s, t)
  <2>1. ASSUME NEW d \in Colls PROVE Members(t, d) = Members(s, d)
    <3>1. \A j \in Linked(s, d) : j \in Items
      BY <1>1, CollIs DEF ListsOK
    <3>2. \A j \in Linked(s, d) : Valid(t, d, j) <=> Valid(s, d, j)
      BY <1>2, <1>4, <3>1 DEF Valid
    <3>3. {j \in Linked(t, d) : Valid(t, d, j)} = {j \in Linked(s, d) : Valid(s, d, j)}
      BY <1>3, <3>2
    <3>4. QED
      BY <1>2, <3>3 DEF Members
  <2>2. QED
    BY <2>1 DEF SameMembers
<1>12. QED
  BY <1>7, <1>9, <1>10, <1>11 DEF Sound, Alive, t

LEMMA WithLinkRefs ==
  ASSUME NEW s \in States, NEW c \in Colls, NEW i \in Items, NEW k \in LinkType, NEW a \in Int,
         k.ref = s.link[c][i].ref + a,
         NEW kc \in Int, NEW ki \in Int, NEW kb \in Int, NEW kl \in Int,
         Refs(s, c, i, kc, ki, kb, kl)
  PROVE  Refs(WithLink(s, c, i, k), c, i, kc, ki, kb, kl + a)
<1> DEFINE t == WithLink(s, c, i, k)
<1>1. /\ t.coll = s.coll /\ t.item = s.item /\ t.stack = s.stack
      /\ t.link[c][i] = k
      /\ \A d \in Colls, j \in Items : <<d, j>> # <<c, i>> => t.link[d][j] = s.link[d][j]
  <2>1. LinkWas(s, t, c, i, k)
    BY WithLinkFields
  <2> HIDE DEF t
  <2>2. QED
    BY <2>1 DEF LinkWas
<1> HIDE DEF t
<1>2. /\ \A d : CollCount(t, d) = CollCount(s, d)
      /\ \A j : ItemCount(t, j) = ItemCount(s, j) /\ CbCount(t, j) = CbCount(s, j)
      /\ \A d, j : LinkCount(t, d, j) = LinkCount(s, d, j)
  BY <1>1 DEF CollCount, ItemCount, CbCount, LinkCount, Users, Lockers, Holders, CbLockers, LinkLockers
<1>3. \A d \in Colls, j \in Items : LinkCount(s, d, j) \in Nat /\ s.link[d][j] \in LinkType
  BY CountsAreNat, ItemsTyped
<1>4. ASSUME NEW d \in Colls, NEW j \in Items
      PROVE  AtLeast(t.link[d][j].ref, LinkCount(t, d, j) + Owed(<<d, j>>, <<c, i>>, kl + a))
  <2>1. AtLeast(s.link[d][j].ref, LinkCount(s, d, j) + Owed(<<d, j>>, <<c, i>>, kl))
    BY DEF Refs
  <2>2. s.link[d][j].ref \in Nat /\ LinkCount(s, d, j) \in Nat
    BY <1>3 DEF LinkType
  <2>3. CASE <<d, j>> = <<c, i>>
    <3>1. d = c /\ j = i
      BY <2>3
    <3>2. Owed(<<d, j>>, <<c, i>>, kl + a) = kl + a /\ Owed(<<d, j>>, <<c, i>>, kl) = kl
      BY <2>3 DEF Owed
    <3>3. QED
      BY <1>1, <1>2, <2>1, <2>2, <3>1, <3>2 DEF AtLeast
  <2>4. CASE <<d, j>> # <<c, i>>
    <3>1. Owed(<<d, j>>, <<c, i>>, kl + a) = 0 /\ Owed(<<d, j>>, <<c, i>>, kl) = 0
      BY <2>4 DEF Owed
    <3>2. QED
      BY <1>1, <1>2, <2>1, <2>4, <3>1
  <2>5. QED
    BY <2>3, <2>4
<1>5. QED
  BY <1>1, <1>2, <1>4 DEF Refs, t

(* What a lock counts.                                                     *)
LockWas(s, t, c, i) ==
    /\ t \in States /\ t.stack = s.stack
    /\ t.coll = [s.coll EXCEPT ![c] = [s.coll[c] EXCEPT !.ref = @ + 1]]
    /\ t.item = [s.item EXCEPT ![i] = [s.item[i] EXCEPT !.ref = @ + 1, !.cbRef = @ + 1]]
    /\ t.link = [s.link EXCEPT ![c] = [s.link[c] EXCEPT ![i] = [s.link[c][i] EXCEPT !.ref = @ + 1]]]
LEMMA LockFields ==
  ASSUME NEW s \in States, NEW c \in Colls, NEW i \in Items,
         ~s.coll[c].destroyed, ~s.coll[c].void, Valid(s, c, i)
  PROVE  LockWas(s, LockItem(s, c, i), c, i)
<1> DEFINE a == [s.coll EXCEPT ![c] = [s.coll[c] EXCEPT !.ref = @ + 1]]
           b == [s.item EXCEPT ![i] = [s.item[i] EXCEPT !.ref = @ + 1, !.cbRef = @ + 1]]
           d == [s.link EXCEPT ![c] = [s.link[c] EXCEPT ![i] = [s.link[c][i] EXCEPT !.ref = @ + 1]]]
           t == [s EXCEPT !.coll = a, !.item = b, !.link = d]
<1>1. /\ s.coll[c] \in CollType /\ s.item[i] \in ItemType /\ s.link[c][i] \in LinkType
      /\ s.coll \in [Colls -> CollType] /\ s.item \in [Items -> ItemType]
      /\ s.link \in [Colls -> [Items -> LinkType]] /\ s.link[c] \in [Items -> LinkType]
  BY DEF States
<1>2. /\ a \in [Colls -> CollType] /\ b \in [Items -> ItemType]
      /\ d \in [Colls -> [Items -> LinkType]]
  <2>1. [s.coll[c] EXCEPT !.ref = @ + 1] \in CollType
    <3>1. s.coll[c] \in CollType
      BY <1>1
    <3>2. s.coll[c].ref + 1 \in Nat
      BY <3>1 DEF CollType
    <3>3. QED
      BY <3>1, <3>2 DEF CollType
  <2>2. [s.item[i] EXCEPT !.ref = @ + 1, !.cbRef = @ + 1] \in ItemType
    <3>1. s.item[i].ref + 1 \in Nat /\ s.item[i].cbRef + 1 \in Nat
      BY <1>1 DEF ItemType
    <3>2. QED
      BY <1>1, <3>1 DEF ItemType
  <2>3. [s.link[c][i] EXCEPT !.ref = @ + 1] \in LinkType
    BY <1>1 DEF LinkType
  <2>4. [s.link[c] EXCEPT ![i] = [s.link[c][i] EXCEPT !.ref = @ + 1]] \in [Items -> LinkType]
    BY <1>1, <2>3
  <2>5. QED
    BY <1>1, <2>1, <2>2, <2>4
<1>3. LockItem(s, c, i) = t
  <2>1. LockItem(s, c, i) = [s EXCEPT !.coll[c].ref = @ + 1, !.item[i].ref = @ + 1,
                   !.item[i].cbRef = @ + 1, !.link[c][i].ref = @ + 1]
    BY DEF LockItem
  <2>2. [s EXCEPT !.coll[c].ref = @ + 1, !.item[i].ref = @ + 1,
                  !.item[i].cbRef = @ + 1, !.link[c][i].ref = @ + 1]
        = [s EXCEPT !.coll = [s.coll EXCEPT ![c].ref = @ + 1],
                    !.item = [s.item EXCEPT ![i].ref = @ + 1, ![i].cbRef = @ + 1],
                    !.link = [s.link EXCEPT ![c][i].ref = @ + 1]]
    BY DEF States
  <2>3. [s.coll EXCEPT ![c].ref = @ + 1] = a
    BY <1>1 DEF CollType
  <2>4. [s.item EXCEPT ![i].ref = @ + 1, ![i].cbRef = @ + 1] = b
    BY <1>1 DEF ItemType
  <2>5. [s.link EXCEPT ![c][i].ref = @ + 1] = d
    BY <1>1 DEF LinkType
  <2> HIDE DEF a, b, d
  <2>6. QED
    BY <2>1, <2>2, <2>3, <2>4, <2>5
<1> HIDE DEF a, b, d
<1>4. t \in States /\ t.coll = a /\ t.item = b /\ t.link = d /\ t.stack = s.stack
  BY <1>2 DEF States
<1> HIDE DEF t
<1>5. QED
  BY <1>3, <1>4 DEF LockWas, a, b, d

Locked(s, t, c, i, kc, ki, kb, kl) ==
    /\ Sound(t, {}, {}) /\ Refs(t, c, i, kc + 1, ki + 1, kb + 1, kl + 1)
    /\ Leaves(s, t) /\ SameMembers(s, t)
    /\ t.stack = s.stack /\ t.item[i].freed = s.item[i].freed /\ t.item[i].called = s.item[i].called
    /\ SameFlags([s.coll[c] EXCEPT !.ref = @ + 1], t.coll[c])
    /\ \A d \in Colls : Linked(t, d) = Linked(s, d)
LEMMA LockItemIs ==
  ASSUME NEW s, NEW c \in Colls, NEW i \in Linked(s, c), Sound(s, {}, {}),
         ~s.coll[c].destroyed, ~s.coll[c].void, Valid(s, c, i),
         NEW kc \in Int, NEW ki \in Int, NEW kb \in Int, NEW kl \in Int,
         Refs(s, c, i, kc, ki, kb, kl)
  PROVE  /\ Locked(s, LockItem(s, c, i), c, i, kc, ki, kb, kl)
         /\ \A f \in Frames : LockItem(Push(s, f), c, i) = Push(LockItem(s, c, i), f)
<1> DEFINE k == [s.coll[c] EXCEPT !.ref = @ + 1]
           h == [s.item[i] EXCEPT !.ref = @ + 1, !.cbRef = @ + 1]
           l == [s.link[c][i] EXCEPT !.ref = @ + 1]
           u == WithColl(s, c, k)
           v == WithItem(u, i, h)
           t == WithLink(v, c, i, l)
<1>1. s \in States /\ ListsOK(s) /\ i \in Items
  BY CollIs DEF Sound, ListsOK, Typed
<1>2. s.coll[c] \in CollType /\ s.item[i] \in ItemType /\ s.link[c][i] \in LinkType
  BY <1>1, ItemsTyped
<1>3. LockItem(s, c, i) = t
  <2>1. LockWas(s, LockItem(s, c, i), c, i)
    BY <1>1, LockFields
  <2>2. k \in CollType /\ h \in ItemType /\ l \in LinkType
    <3>1. s.item[i].ref + 1 \in Nat /\ s.item[i].cbRef + 1 \in Nat
      BY <1>2 DEF ItemType
    <3>2. s.coll[c].ref + 1 \in Nat /\ s.link[c][i].ref + 1 \in Nat
      BY <1>2 DEF CollType, LinkType
    <3>3. QED
      BY <1>2, <3>1, <3>2 DEF CollType, ItemType, LinkType
  <2> HIDE DEF k, h, l
  <2>3. CollWas(s, u, c, k) /\ u.coll = [s.coll EXCEPT ![c] = k]
    BY <1>1, <2>2, WithCollFields DEF WithColl, States
  <2> HIDE DEF u
  <2>4. /\ u \in States /\ u.item = s.item /\ u.link = s.link /\ u.stack = s.stack
    BY <2>3 DEF CollWas
  <2>5. ItemWas(u, v, i, h) /\ v.item = [u.item EXCEPT ![i] = h]
    BY <1>1, <2>2, <2>4, WithItemFields DEF WithItem, States
  <2> HIDE DEF v
  <2>6. v \in States /\ v.coll = u.coll /\ v.link = u.link /\ v.stack = u.stack
    BY <2>5 DEF ItemWas
  <2>7. LinkWas(v, t, c, i, l) /\ t.link = [v.link EXCEPT ![c] = [v.link[c] EXCEPT ![i] = l]]
    BY <1>1, <2>2, <2>6, WithLinkFields DEF WithLink, States
  <2> HIDE DEF t
  <2>8. t \in States /\ t.coll = v.coll /\ t.item = v.item /\ t.stack = v.stack
    BY <2>7 DEF LinkWas
  <2>9. LET w == LockItem(s, c, i) IN
        w \in States /\ w.coll = t.coll /\ w.item = t.item /\ w.link = t.link /\ w.stack = t.stack
    BY <2>1, <2>3, <2>4, <2>5, <2>6, <2>7, <2>8 DEF LockWas, k, h, l
  <2>10. QED
    BY <2>8, <2>9, SameState
<1>4. \A f \in Frames : LockItem(Push(s, f), c, i) = Push(LockItem(s, c, i), f)
  <2>1. ASSUME NEW f \in Frames PROVE LockItem(Push(s, f), c, i) = Push(LockItem(s, c, i), f)
    <3> DEFINE p == Push(s, f)
               q == LockItem(p, c, i)
               w == LockItem(s, c, i)
               r == Push(w, f)
    <3>1. p \in States /\ p.coll = s.coll /\ p.item = s.item /\ p.link = s.link
          /\ p.stack = Append(s.stack, f)
      BY <1>1, PushIs DEF Push, States
    <3>2. Valid(p, c, i)
      BY <3>1 DEF Valid
    <3> HIDE DEF p
    <3>3. LockWas(p, q, c, i)
      BY <1>1, <3>1, <3>2, LockFields
    <3>4. LockWas(s, w, c, i)
      BY <1>1, LockFields
    <3> HIDE DEF q, w
    <3>5. w \in States
      BY <3>4 DEF LockWas
    <3>6. r \in States /\ r.coll = w.coll /\ r.item = w.item /\ r.link = w.link
          /\ r.stack = Append(w.stack, f)
      BY <3>5, PushIs DEF Push, States
    <3> HIDE DEF r
    <3>7. q \in States /\ q.coll = r.coll /\ q.item = r.item /\ q.link = r.link /\ q.stack = r.stack
      BY <3>1, <3>3, <3>4, <3>6 DEF LockWas
    <3>8. q = r
      BY <3>6, <3>7, SameState
    <3>9. QED
      BY <3>8 DEF q, p, r, w
  <2>2. QED
    BY <2>1
<1>5. /\ k \in CollType /\ k.order = s.coll[c].order /\ k.size = s.coll[c].size
      /\ k.destroyed = s.coll[c].destroyed /\ k.called = s.coll[c].called /\ k.void = s.coll[c].void
      /\ k.freed = s.coll[c].freed /\ k.ref = s.coll[c].ref + 1
  BY <1>2 DEF CollType
<1>6. /\ h \in ItemType /\ h.destroyed = s.item[i].destroyed /\ h.cbDestroyed = s.item[i].cbDestroyed
      /\ h.called = s.item[i].called /\ h.freed = s.item[i].freed
      /\ h.ref = s.item[i].ref + 1 /\ h.cbRef = s.item[i].cbRef + 1 /\ h.cbCalled = s.item[i].cbCalled
  <2>1. s.item[i].ref + 1 \in Nat /\ s.item[i].cbRef + 1 \in Nat
    BY <1>2 DEF ItemType
  <2>2. QED
    BY <1>2, <2>1 DEF ItemType
<1>7. l \in LinkType /\ l.destroyed = s.link[c][i].destroyed /\ l.ref = s.link[c][i].ref + 1 /\ l.ref > 0
  BY <1>2 DEF LinkType
<1> USE DEF SameFlags
<1> HIDE DEF h, l
<1>8. /\ Sound(u, {}, {} \cup {c}) /\ Leaves(s, u) /\ SameMembers(s, u)
      /\ \A d \in Colls : Linked(u, d) = Linked(s, d)
  <2> HIDE DEF k
  <2>1. QED
    BY <1>5, WithCollIs DEF SameMembers
<1>9. Refs(u, c, i, kc + 1, ki, kb, kl)
  <2> HIDE DEF k
  <2>1. QED
    BY <1>1, <1>5, WithCollRefs
<1>10. /\ u \in States /\ u.item = s.item /\ u.link = s.link /\ u.stack = s.stack
       /\ u.coll[c] = k /\ \A d \in Colls : d # c => u.coll[d] = s.coll[d]
  <2> HIDE DEF k
  <2>1. CollWas(s, u, c, k)
    BY <1>1, <1>5, WithCollFields
  <2> HIDE DEF u
  <2>2. QED
    BY <2>1 DEF CollWas
<1> HIDE DEF u
<1>11. Sound(u, {}, {})
  <2>1. CollLife(s, c)
    BY DEF Sound, Alive
  <2> HIDE DEF k
  <2>2. CollLife(u, c)
    BY <1>5, <1>10, <2>1 DEF CollLife
  <2>3. QED
    BY <1>8, <2>2, SoundAgain
<1>12. /\ Sound(v, {} \cup {i}, {}) /\ Leaves(u, v)
       /\ \A d \in Colls : Linked(v, d) = Linked(u, d)
  <2>1. /\ h.destroyed = u.item[i].destroyed /\ h.cbDestroyed = u.item[i].cbDestroyed
        /\ h.called = u.item[i].called /\ h.freed = u.item[i].freed
    BY <1>6, <1>10
  <2>2. h \in ItemType
    BY <1>6
  <2>3. QED
    BY <1>1, <1>11, <2>1, <2>2, WithItemIs
<1>13. Refs(v, c, i, kc + 1, ki + 1, kb + 1, kl)
  BY <1>1, <1>6, <1>9, <1>10, WithItemRefs
<1>14. /\ v \in States /\ v.coll = u.coll /\ v.link = u.link /\ v.stack = u.stack
       /\ v.item[i] = h /\ \A j \in Items : j # i => v.item[j] = u.item[j]
  <2>1. ItemWas(u, v, i, h)
    BY <1>1, <1>6, <1>10, WithItemFields
  <2> HIDE DEF v
  <2>2. QED
    BY <2>1 DEF ItemWas
<1> HIDE DEF v
<1>15. Sound(v, {}, {})
  <2>1. ItemLife(s, i)
    BY <1>1 DEF Sound, Alive
  <2>2. s.item[i].ref \in Nat
    BY <1>2 DEF ItemType
  <2>3. ItemLife(v, i)
    BY <1>6, <1>8, <1>10, <1>12, <1>14, <2>1, <2>2 DEF ItemLife
  <2>4. QED
    BY <1>12, <2>3, SoundAgain
<1>16. SameMembers(u, v)
  <2>1. ASSUME NEW d \in Colls PROVE Members(v, d) = Members(u, d)
    <3>1. \A j \in Linked(u, d) : j \in Items
      BY <1>11, CollIs DEF Sound, ListsOK
    <3>2. \A j \in Linked(u, d) : Valid(v, d, j) <=> Valid(u, d, j)
      BY <1>6, <1>10, <1>14, <3>1 DEF Valid
    <3>3. {j \in Linked(v, d) : Valid(v, d, j)} = {j \in Linked(u, d) : Valid(u, d, j)}
      BY <1>12, <3>2
    <3>4. QED
      BY <1>14, <3>3 DEF Members
  <2>2. QED
    BY <2>1 DEF SameMembers
<1>17. i \in Linked(v, c) /\ v.link[c][i] = s.link[c][i]
  BY <1>8, <1>10, <1>12, <1>14
<1>18. Sound(t, {}, {}) /\ Leaves(v, t) /\ SameMembers(v, t)
  BY <1>7, <1>15, <1>17, WithLinkIs
<1>19. Refs(t, c, i, kc + 1, ki + 1, kb + 1, kl + 1)
  BY <1>1, <1>7, <1>13, <1>14, <1>17, WithLinkRefs
<1>20. t.coll = v.coll /\ t.item = v.item /\ t.stack = v.stack
  <2>1. LinkWas(v, t, c, i, l)
    BY <1>1, <1>7, <1>14, WithLinkFields
  <2> HIDE DEF t
  <2>2. QED
    BY <2>1 DEF LinkWas
<1> HIDE DEF t
<1>21. Leaves(s, t)
  <2>1. Leaves(s, v)
    BY <1>1, <1>8, <1>11, <1>12, <1>15, LeavesTwice DEF Sound
  <2>2. QED
    BY <1>1, <1>15, <1>18, <2>1, LeavesTwice DEF Sound
<1>22. SameMembers(s, t)
  BY <1>8, <1>16, <1>18 DEF SameMembers
<1>23. \A d \in Colls : Linked(t, d) = Linked(s, d)
  BY <1>8, <1>12, <1>20 DEF Linked
<1>24. Locked(s, t, c, i, kc, ki, kb, kl)
  BY <1>6, <1>10, <1>14, <1>18, <1>19, <1>20, <1>21, <1>22, <1>23 DEF Locked
<1>25. QED
  BY <1>3, <1>4, <1>24

(* An instance is given back its reference.                                *)
LEMMA UnrefLink ==
  ASSUME NEW s \in States, NEW t \in States, NEW c \in Colls, NEW i \in Items,
         Removed(s, t, {c}, i), t.link[c][i].ref = s.link[c][i].ref - 1,
         \A d \in Colls, j \in Items : <<d, j>> # <<c, i>> => t.link[d][j].ref = s.link[d][j].ref,
         NEW ki, NEW kb, Refs(s, c, i, 0, ki, kb, 1)
  PROVE  Refs(t, None, i, 0, ki, kb, 0)
<1>1. /\ \A d : CollCount(t, d) = CollCount(s, d)
      /\ \A j : ItemCount(t, j) = ItemCount(s, j) /\ CbCount(t, j) = CbCount(s, j)
      /\ \A d, j : LinkCount(t, d, j) = LinkCount(s, d, j)
  BY SameCounts DEF Removed
<1>2. t.item = s.item /\ \A d \in Colls : t.coll[d].ref = s.coll[d].ref
  BY DEF Removed, SameFlags
<1>3. \A d \in Colls, j \in Items : LinkCount(s, d, j) \in Nat /\ s.link[d][j].ref \in Nat
  BY CountsAreNat, ItemsTyped DEF LinkType
<1>4. ASSUME NEW d \in Colls, NEW j \in Items
      PROVE  AtLeast(t.link[d][j].ref, LinkCount(t, d, j) + Owed(<<d, j>>, <<None, i>>, 0))
  <2>1. AtLeast(s.link[d][j].ref, LinkCount(s, d, j) + Owed(<<d, j>>, <<c, i>>, 1))
    BY DEF Refs
  <2>2. Owed(<<d, j>>, <<None, i>>, 0) = 0
    BY DEF Owed
  <2>3. CASE <<d, j>> = <<c, i>>
    <3>1. d = c /\ j = i
      BY <2>3
    <3>2. Owed(<<d, j>>, <<c, i>>, 1) = 1
      BY <2>3 DEF Owed
    <3>3. QED
      BY <1>1, <1>3, <2>1, <2>2, <3>1, <3>2 DEF AtLeast
  <2>4. CASE <<d, j>> # <<c, i>>
    <3>1. Owed(<<d, j>>, <<c, i>>, 1) = 0
      BY <2>4 DEF Owed
    <3>2. QED
      BY <1>1, <2>1, <2>2, <2>4, <3>1
  <2>5. QED
    BY <2>3, <2>4
<1>5. \A d \in Colls : Owed(d, None, 0) = Owed(d, c, 0)
  BY DEF Owed
<1>6. QED
  BY <1>1, <1>2, <1>4, <1>5 DEF Refs

(* A lock is let go of: the instance, the collectible, the item, and, in a *)
(* call of its own, the collection.                                        *)
LEMMA UnlockItemIs ==
  ASSUME NEW s, NEW c \in Colls, NEW i \in Items, Sound(s, {}, {}), Refs(s, c, i, 1, 1, 1, 1),
         ~s.item[i].called, ~s.coll[c].freed
  PROVE  Good(s, UnlockItem(s, c, i))
<1> DEFINE f == Frame("unref", c, None, None, "next")
           p == Push(s, f)
           q == InstanceUnref(p, c, i)
           r == CollectibleUnref(q, i)
<1>1. s \in States /\ ListsOK(s)
  BY DEF Sound, ListsOK, Typed
<1>2. s.link[c][i].ref > 0
  <2>1. AtLeast(s.link[c][i].ref, LinkCount(s, c, i) + 1)
    BY DEF Refs, Owed
  <2>2. s.link[c][i].ref \in Nat /\ LinkCount(s, c, i) \in Nat
    BY <1>1, CountsAreNat, ItemsTyped DEF LinkType
  <2>3. QED
    BY <2>1, <2>2 DEF AtLeast
<1>3. i \in Linked(s, c)
  BY <1>1, <1>2 DEF ListsOK, LinksOK, NewLink
<1>4. f \in Frames /\ f.op = "unref" /\ f.c = c /\ f.i = None /\ f.next = None /\ f.pc = "next"
  BY DEF Frame, Frames, FrameType, FrameShape, Ops
<1> HIDE DEF f
<1>5. Fits(s, f) /\ ~Running(f)
  BY <1>4, NoneIs DEF Fits, ItemCall, CollCall, LocksIt, Running
<1>6. Sound(p, {}, {}) /\ Leaves(s, p)
  BY <1>1, <1>4, <1>5, PushSound, PushLists
<1>7. p \in States /\ p.coll = s.coll /\ p.item = s.item /\ p.link = s.link
  BY <1>1, <1>4, PushIs
<1>8. Refs(p, c, i, 0, 1, 1, 1)
  <2>1. FrameOwes(f, c, i, 1, 0, 0, 0)
    BY <1>4, FrameOwesIs
  <2>2. Refs(p, c, i, 0, 1, 1, 1) <=> Refs(s, c, i, 0 + 1, 1 + 0, 1 + 0, 1 + 0)
    BY <1>1, <1>4, <2>1, PushRefs
  <2>3. QED
    BY <2>2
<1> HIDE DEF p
<1>9. p.link[c][i].ref > 0 /\ ListsOK(p)
  BY <1>2, <1>6, <1>7 DEF Sound
<1>10. /\ ListsOK(q) /\ Removed(p, q, {c}, i) /\ Leaves(p, q)
       /\ q.link[c][i].ref = p.link[c][i].ref - 1
       /\ \A d \in Colls, j \in Items : <<d, j>> # <<c, i>> => q.link[d][j].ref = p.link[d][j].ref
  <2>1. LET t == InstanceUnref(p, c, i)
        IN  /\ ListsOK(t) /\ Removed(p, t, {c}, i) /\ Leaves(p, t)
            /\ t.link[c][i].ref = p.link[c][i].ref - 1
            /\ \A k \in Colls, j \in Items :
                   <<k, j>> # <<c, i>> => t.link[k][j].ref = p.link[k][j].ref
    <3> HIDE DEF q
    <3>1. QED
      BY <1>9, InstanceUnrefIs
  <2>2. QED
    BY <2>1
<1> HIDE DEF q
<1>11. Sound(q, {}, {})
  BY <1>6, <1>10, RemovedSound
<1>12. Refs(q, None, i, 0, 1, 1, 0)
  <2>1. q \in States
    BY <1>10 DEF ListsOK, Typed
  <2>2. QED
    BY <1>7, <1>8, <1>10, <2>1, UnrefLink
<1>13. ~q.item[i].called
  BY <1>7, <1>10 DEF Removed
<1>14. Paid(q, r, i, 1) /\ ~r.item[i].called
  BY <1>11, <1>12, <1>13, CollectibleUnrefIs
<1> HIDE DEF r
<1>15. Good(r, ObjUnref(r, i))
  BY <1>14, ObjUnrefIs DEF Paid
<1>16. UnlockItem(s, c, i) = ObjUnref(r, i)
  BY <1>3, <1>14 DEF UnlockItem, r, q, p, f
<1>17. Leaves(s, r)
  <2>1. ListsOK(r) /\ Leaves(q, r)
    BY <1>14 DEF Paid, Sound
  <2>2. Leaves(s, q)
    BY <1>1, <1>6, <1>9, <1>10, LeavesTwice
  <2>3. QED
    BY <1>1, <1>10, <2>1, <2>2, LeavesTwice
<1>18. Leaves(s, ObjUnref(r, i))
  <2>1. ListsOK(r) /\ ListsOK(ObjUnref(r, i)) /\ Leaves(r, ObjUnref(r, i))
    BY <1>14, <1>15 DEF Paid, Good, Sound
  <2>2. QED
    BY <1>1, <1>17, <2>1, LeavesTwice
<1>19. QED
  BY <1>15, <1>16, <1>18 DEF Good

(*--------------------------------- actions --------------------------------*)
(* An operation that does nothing.                                         *)
LEMMA LeavesSelf ==
  ASSUME NEW s, ListsOK(s)
  PROVE  Leaves(s, s)
<1>1. Touched(s, s)
  BY DEF Touched, ListsOK, Typed
<1>2. QED
  BY <1>1, TouchedIs

(* collection_delete                                                       *)
LEMMA DeleteIs ==
  ASSUME NEW s, Sound(s, {}, {}), Even(s), NEW c \in Colls, NEW i \in Items
  PROVE  Good(s, InstanceDestroy(s, {c}, i))
<1>1. Refs(s, None, None, 0, 0, 0, 0)
  BY DEF Even
<1>2. LET t == InstanceDestroy(s, {c}, i)
      IN  Sound(t, {}, {}) /\ Refs(t, None, None, 0, 0, 0, 0) /\ Leaves(s, t)
  BY <1>1, ApartIs
<1>3. QED
  BY <1>2 DEF Good, Even

(* collection_void                                                         *)
LEMMA MakeVoidIs ==
  ASSUME NEW s, Sound(s, {}, {}), Even(s), NEW c \in Colls,
         \A n \in 1 .. Len(s.stack) : ~(s.stack[n].c = c /\ s.stack[n].op = "match")
  PROVE  Good(s, WithColl(s, c, [s.coll[c] EXCEPT !.void = TRUE]))
<1> DEFINE k == [s.coll[c] EXCEPT !.void = TRUE]
           t == WithColl(s, c, k)
<1>1. s \in States /\ s.coll[c] \in CollType
  BY ItemsTyped DEF Sound, ListsOK, Typed
<1>2. /\ k \in CollType /\ k.order = s.coll[c].order /\ k.size = s.coll[c].size
      /\ k.destroyed = s.coll[c].destroyed /\ k.called = s.coll[c].called
      /\ k.freed = s.coll[c].freed /\ k.ref = s.coll[c].ref + 0 /\ k.void
  <2>1. s.coll[c].ref = s.coll[c].ref + 0
    BY <1>1 DEF CollType
  <2>2. QED
    BY <1>1, <2>1 DEF CollType
<1> HIDE DEF k
<1>3. Sound(t, {}, {} \cup {c}) /\ Leaves(s, t)
  BY <1>2, WithCollIs
<1>4. t.coll[c] = k /\ t.stack = s.stack
  <2>1. CollWas(s, t, c, k)
    BY <1>1, <1>2, WithCollFields
  <2> HIDE DEF t
  <2>2. QED
    BY <2>1 DEF CollWas
<1>5. Even(t)
  <2>1. Refs(s, c, None, 0, 0, 0, 0)
    BY RefsNone
  <2>2. Refs(t, c, None, 0 + 0, 0, 0, 0)
    BY <1>1, <1>2, <2>1, WithCollRefs
  <2>3. 0 + 0 = 0
    OBVIOUS
  <2>4. QED
    BY <2>2, <2>3, RefsNone
<1> HIDE DEF t
<1>6. CollLife(t, c)
  BY <1>2, <1>4 DEF Sound, Alive, CollLife
<1>7. Good(s, t)
  BY <1>3, <1>5, <1>6, SoundAgain DEF Good
<1>8. QED
  BY <1>7 DEF t, k

(* obj_destroy of an item by a caller.                                     *)
LEMMA DestroyItemIs ==
  ASSUME NEW s, Sound(s, {}, {}), Even(s), NEW i \in Items, ~s.item[i].freed
  PROVE  Good(s, ObjDestroy(s, i))
<1>1. CASE s.item[i].called
  <2>1. ObjDestroy(s, i) = s
    BY <1>1 DEF ObjDestroy
  <2>2. QED
    BY <2>1, LeavesSelf DEF Good, Sound
<1>2. CASE ~s.item[i].called
  <2>1. Sound(s, {i}, {})
    <3>1. {} \cup {i} = {i}
      OBVIOUS
    <3>2. QED
      BY <3>1, SoundAgain
  <2>2. Refs(s, None, i, 0, 0, 0, 0) /\ 0 \in {0, 1}
    BY RefsNone
  <2>3. ~DestroyBusy /\ s.item[i].cbCalled => \A c \in Colls : i \notin Linked(s, c)
    BY DEF Sound, Alive, ItemLife
  <2>4. Paid(s, ObjDestroy(s, i), i, 0)
    BY <1>2, <2>1, <2>2, <2>3, ObjDestroyIs
  <2>5. QED
    BY <2>4, RefsNone DEF Paid, Good
<1>3. QED
  BY <1>1, <1>2

(* obj_ref by a caller.                                                    *)
LEMMA HoldIs ==
  ASSUME NEW s, Sound(s, {}, {}), Even(s), NEW i \in Items, ~s.item[i].freed
  PROVE  Good(s, Push([s EXCEPT !.item[i].ref = @ + 1], Frame("hold", None, i, None, "call")))
<1> DEFINE h == [s.item[i] EXCEPT !.ref = @ + 1]
           u == WithItem(s, i, h)
           f == Frame("hold", None, i, None, "call")
           t == Push(u, f)
<1>1. s \in States /\ ListsOK(s) /\ s.item[i] \in ItemType /\ s.item[i].ref \in Nat /\ s.item[i].cbRef \in Nat
  BY ItemsTyped DEF Sound, ListsOK, Typed, ItemType
<1>2. [s EXCEPT !.item[i].ref = @ + 1] = u
  BY <1>1 DEF WithItem, States
<1>3. /\ h \in ItemType /\ h.destroyed = s.item[i].destroyed /\ h.cbDestroyed = s.item[i].cbDestroyed
      /\ h.called = s.item[i].called /\ h.freed = s.item[i].freed
      /\ h.ref = s.item[i].ref + 1 /\ h.cbRef = s.item[i].cbRef + 0 /\ h.cbCalled = s.item[i].cbCalled
  <2>1. s.item[i].ref + 1 \in Nat /\ s.item[i].cbRef = s.item[i].cbRef + 0
    BY <1>1
  <2>2. QED
    BY <1>1, <2>1 DEF ItemType
<1> HIDE DEF h
<1>4. /\ Sound(u, {} \cup {i}, {}) /\ Leaves(s, u)
      /\ \A c \in Colls : Linked(u, c) = Linked(s, c)
  BY <1>3, WithItemIs
<1>5. u \in States /\ u.item[i] = h /\ u.stack = s.stack
  <2>1. ItemWas(s, u, i, h)
    BY <1>1, <1>3, WithItemFields
  <2> HIDE DEF u
  <2>2. QED
    BY <2>1 DEF ItemWas
<1>6. Refs(u, None, i, 0, 1, 0, 0)
  <2>1. Refs(s, None, i, 0, 0, 0, 0)
    BY RefsNone
  <2>2. Refs(u, None, i, 0, 0 + 1, 0 + 0, 0)
    BY <1>1, <1>3, <2>1, WithItemRefs
  <2>3. 0 + 1 = 1 /\ 0 + 0 = 0
    OBVIOUS
  <2>4. QED
    BY <2>2, <2>3
<1> HIDE DEF u
<1>7. Sound(u, {}, {})
  <2>1. ItemLife(s, i)
    BY DEF Sound, Alive
  <2>2. ItemLife(u, i)
    BY <1>1, <1>3, <1>4, <1>5, <2>1 DEF ItemLife
  <2>3. QED
    BY <1>4, <2>2, SoundAgain
<1>8. f \in Frames /\ f.op = "hold" /\ f.c = None /\ f.i = i /\ f.next = None /\ f.pc = "call"
  BY DEF Frame, Frames, FrameType, FrameShape, Ops
<1> HIDE DEF f
<1>9. Fits(u, f) /\ ~Running(f)
  BY <1>3, <1>5, <1>8, NoneIs DEF Fits, ItemCall, CollCall, LocksIt, Running
<1>10. Sound(t, {}, {}) /\ Leaves(u, t)
  BY <1>7, <1>8, <1>9, PushSound, PushLists DEF Sound
<1>11. Even(t)
  <2>1. FrameOwes(f, None, i, 0, 1, 0, 0)
    BY <1>8, FrameOwesIs
  <2>2. Refs(t, None, i, 0, 0, 0, 0) <=> Refs(u, None, i, 0 + 0, 0 + 1, 0 + 0, 0 + 0)
    BY <1>5, <1>8, <2>1, PushRefs
  <2>3. 0 + 1 = 1 /\ 0 + 0 = 0
    OBVIOUS
  <2>4. QED
    BY <1>6, <2>2, <2>3, RefsNone
<1> HIDE DEF t
<1>12. Leaves(s, t)
  BY <1>1, <1>4, <1>7, <1>10, LeavesTwice DEF Sound
<1>13. Good(s, t)
  BY <1>10, <1>11, <1>12 DEF Good
<1>14. QED
  BY <1>2, <1>13 DEF t, f

(* collection_lock by a caller.                                            *)
LEMMA LockIs ==
  ASSUME NEW s, Sound(s, {}, {}), Even(s), NEW c \in Colls, NEW i \in Linked(s, c), ~s.coll[c].freed,
         ~s.coll[c].destroyed, ~s.coll[c].void, Valid(s, c, i)
  PROVE  Good(s, Push(LockItem(s, c, i), Frame("lock", c, i, None, "call")))
<1> DEFINE u == LockItem(s, c, i)
           f == Frame("lock", c, i, None, "call")
           t == Push(u, f)
<1>1. s \in States /\ ListsOK(s) /\ i \in Items /\ s.coll[c] \in CollType
  BY CollIs DEF Sound, ListsOK, Typed
<1>2. Locked(s, u, c, i, 0, 0, 0, 0)
  <2>1. Refs(s, c, i, 0, 0, 0, 0)
    BY RefsNone
  <2>2. QED
    BY <2>1, LockItemIs
<1> HIDE DEF u
<1>3. Sound(u, {}, {}) /\ Leaves(s, u) /\ u \in States
  BY <1>2 DEF Locked, Sound, ListsOK, Typed
<1>4. Refs(u, c, i, 1, 1, 1, 1)
  <2>1. Refs(u, c, i, 0 + 1, 0 + 1, 0 + 1, 0 + 1) /\ 0 + 1 = 1
    BY <1>2 DEF Locked
  <2>2. QED
    BY <2>1
<1>5. /\ ~u.item[i].called /\ ~u.item[i].freed
      /\ ~u.coll[c].called /\ ~u.coll[c].freed
  <2>1. ItemLife(s, i) /\ CollLife(s, c)
    BY <1>1 DEF Sound, Alive
  <2>2. ~s.item[i].called /\ ~s.item[i].freed
    BY <2>1 DEF Valid, ItemLife
  <2>3. ~s.coll[c].called
    BY <2>1 DEF CollLife
  <2>4. /\ u.coll[c].called = s.coll[c].called /\ u.coll[c].freed = s.coll[c].freed
    BY <1>1, <1>2 DEF Locked, SameFlags, CollType
  <2>5. u.item[i].called = s.item[i].called /\ u.item[i].freed = s.item[i].freed
    BY <1>2 DEF Locked
  <2>6. QED
    BY <2>2, <2>3, <2>4, <2>5
<1>6. f \in Frames /\ f.op = "lock" /\ f.c = c /\ f.i = i /\ f.next = None /\ f.pc = "call"
  BY <1>1 DEF Frame, Frames, FrameType, FrameShape, Ops
<1> HIDE DEF f
<1>7. Fits(u, f) /\ ~Running(f)
  BY <1>5, <1>6 DEF Fits, ItemCall, CollCall, LocksIt, Running
<1>8. Sound(t, {}, {}) /\ Leaves(u, t)
  BY <1>3, <1>6, <1>7, PushSound, PushLists DEF Sound
<1>9. Even(t)
  <2>1. FrameOwes(f, c, i, 1, 1, 1, 1)
    BY <1>6, FrameOwesIs
  <2>2. Refs(t, c, i, 0, 0, 0, 0) <=> Refs(u, c, i, 0 + 1, 0 + 1, 0 + 1, 0 + 1)
    BY <1>3, <1>6, <2>1, PushRefs
  <2>3. 0 + 1 = 1
    OBVIOUS
  <2>4. QED
    BY <1>4, <2>2, <2>3, RefsNone
<1> HIDE DEF t
<1>10. Leaves(s, t)
  BY <1>1, <1>3, <1>8, LeavesTwice DEF Sound
<1>11. Good(s, t)
  BY <1>8, <1>9, <1>10 DEF Good
<1>12. QED
  BY <1>11 DEF t, f, u

(* A loop begins: it refers to its collection, and has all of its members  *)
(* before it.                                                              *)
Loops(s, u, f, c) ==
    /\ Sound(Push(u, f), {}, {}) /\ Even(Push(u, f))
    /\ Sound(u, {}, {}) /\ Leaves(s, u) /\ SameMembers(s, u) /\ Len(u.stack) = Len(s.stack)
    /\ f \in Frames /\ f.c = c /\ f.pc = "next" /\ ToVisit(u, c, f.next) = Members(u, c)
LEMMA BeginIs ==
  ASSUME NEW s, Sound(s, {}, {}), Even(s), NEW c \in Colls, NEW op \in {"iterate", "match", "empty"},
         ~s.coll[c].freed, op = "match" => ~s.coll[c].void, Len(s.stack) < MaxDepth
  PROVE  Loops(s, [s EXCEPT !.coll[c].ref = @ + 1], Frame(op, c, None, NewIterator(s, c), "next"), c)
<1> DEFINE k == [s.coll[c] EXCEPT !.ref = @ + 1]
           u == WithColl(s, c, k)
           n == NewIterator(s, c)
           f == Frame(op, c, None, n, "next")
           t == Push(u, f)
<1>1. s \in States /\ ListsOK(s) /\ s.coll[c] \in CollType /\ s.coll[c].ref \in Nat
  BY ItemsTyped DEF Sound, ListsOK, Typed, CollType
<1>2. [s EXCEPT !.coll[c].ref = @ + 1] = u
  BY <1>1 DEF WithColl, States
<1>3. /\ k \in CollType /\ k.order = s.coll[c].order /\ k.size = s.coll[c].size
      /\ k.destroyed = s.coll[c].destroyed /\ k.called = s.coll[c].called /\ k.void = s.coll[c].void
      /\ k.freed = s.coll[c].freed /\ k.ref = s.coll[c].ref + 1
  <2>1. s.coll[c].ref + 1 \in Nat
    BY <1>1
  <2>2. QED
    BY <1>1, <2>1 DEF CollType
<1> HIDE DEF k
<1>4. /\ Sound(u, {}, {} \cup {c}) /\ Leaves(s, u) /\ SameMembers(s, u)
      /\ \A d \in Colls : Linked(u, d) = Linked(s, d)
  BY <1>3, WithCollIs, ZenonT(40) DEF SameMembers
<1>5. /\ u \in States /\ u.item = s.item /\ u.link = s.link /\ u.coll[c] = k /\ u.stack = s.stack
  <2>1. CollWas(s, u, c, k)
    BY <1>1, <1>3, WithCollFields
  <2> HIDE DEF u
  <2>2. QED
    BY <2>1 DEF CollWas
<1>6. Refs(u, c, None, 1, 0, 0, 0)
  <2>1. Refs(s, c, None, 0, 0, 0, 0)
    BY RefsNone
  <2>2. Refs(u, c, None, 0 + 1, 0, 0, 0)
    BY <1>1, <1>3, <2>1, WithCollRefs
  <2>3. 0 + 1 = 1
    OBVIOUS
  <2>4. QED
    BY <2>2, <2>3
<1> HIDE DEF u
<1>7. Sound(u, {}, {})
  <2>1. CollLife(u, c)
    BY <1>3, <1>5 DEF Sound, Alive, CollLife
  <2>2. QED
    BY <1>4, <2>1, SoundAgain
<1>8. n \in Linked(s, c) \cup {None} /\ n \in Items \cup {None} /\ ToVisit(s, c, n) = Members(s, c)
  BY <1>1, NewIteratorIs DEF ListsOK
<1> HIDE DEF n
<1>9. ToVisit(u, c, n) = Members(u, c)
  <2>1. ToVisit(u, c, n) = ToVisit(s, c, n)
    BY <1>3, <1>5 DEF ToVisit, Valid
  <2>2. QED
    BY <1>4, <1>8, <2>1 DEF SameMembers
<1>10. /\ f \in Frames /\ f.op = op /\ f.c = c /\ f.i = None /\ f.next = n /\ f.pc = "next"
  BY <1>8, NoneIs DEF Frame, Frames, FrameType, FrameShape, Ops
<1> HIDE DEF f
<1>11. Fits(u, f)
  <2>1. Len(u.stack) + 1 <= MaxDepth
    BY <1>1, <1>5, StackIs, CollectionAssumption
  <2>2. QED
    BY <1>3, <1>4, <1>5, <1>8, <1>10, <2>1, NoneIs DEF Fits, ItemCall, CollCall, LocksIt
<1>12. Sound(t, {}, {})
  BY <1>7, <1>11, PushSound
<1>13. Even(t)
  <2>1. FrameOwes(f, c, None, 1, 0, 0, 0)
    BY <1>10, FrameOwesIs
  <2>2. Refs(t, c, None, 0, 0, 0, 0) <=> Refs(u, c, None, 0 + 1, 0 + 0, 0 + 0, 0 + 0)
    BY <1>5, <1>10, <2>1, PushRefs
  <2>3. 0 + 1 = 1 /\ 0 + 0 = 0
    OBVIOUS
  <2>4. QED
    BY <1>6, <2>2, <2>3, RefsNone
<1>14. Loops(s, u, f, c)
  BY <1>4, <1>5, <1>7, <1>9, <1>10, <1>12, <1>13 DEF Loops
<1>15. QED
  BY <1>2, <1>14 DEF f, n

(* A call that was taken off the stack is owed its references.             *)
LEMMA PopRefs ==
  ASSUME NEW s, s \in States, Even(s), s.stack # <<>>, NEW C, NEW I,
         NEW a \in Nat, NEW b \in Nat, NEW d \in Nat, NEW e \in Nat,
         FrameOwes(Top(s), C, I, a, b, d, e)
  PROVE  Refs(Pop(s), C, I, a, b, d, e)
<1>1. Pop(s) \in States /\ Top(s) \in Frames /\ s = Push(Pop(s), Top(s))
  BY PopIs
<1>2. Refs(Push(Pop(s), Top(s)), C, I, 0, 0, 0, 0) <=> Refs(Pop(s), C, I, 0 + a, 0 + b, 0 + d, 0 + e)
  BY <1>1, PushRefs
<1>3. 0 + a = a /\ 0 + b = b /\ 0 + d = d /\ 0 + e = e
  OBVIOUS
<1>4. QED
  BY <1>1, <1>2, <1>3, RefsNone

(* A call begins that has the references it is owed.                       *)
LEMMA PushEven ==
  ASSUME NEW s \in States, NEW f \in Frames, NEW C, NEW I,
         NEW a \in Nat, NEW b \in Nat, NEW d \in Nat, NEW e \in Nat,
         FrameOwes(f, C, I, a, b, d, e), Refs(s, C, I, a, b, d, e)
  PROVE  Even(Push(s, f))
<1>1. Refs(Push(s, f), C, I, 0, 0, 0, 0) <=> Refs(s, C, I, 0 + a, 0 + b, 0 + d, 0 + e)
  BY PushRefs
<1>2. 0 + a = a /\ 0 + b = b /\ 0 + d = d /\ 0 + e = e
  OBVIOUS
<1>3. QED
  BY <1>1, <1>2, RefsNone

(* The loop of an iteration visits x: the call on top goes on as g.        *)
Visits(s, u, g, x) ==
    /\ Sound(Push(u, g), {}, {}) /\ Even(Push(u, g))
    /\ Sound(u, {}, {}) /\ Leaves(Pop(s), u) /\ SameMembers(Pop(s), u)
    /\ Len(u.stack) = Len(Pop(s).stack)
    /\ g \in Frames /\ g.op = Top(s).op /\ g.c = Top(s).c /\ g.pc = "call"
    /\ x \in ToVisit(s, g.c, Top(s).next)
    /\ ToVisit(u, g.c, g.next) = ToVisit(s, g.c, Top(s).next) \ {x}
LEMMA IterateIs ==
  ASSUME NEW s, Sound(s, {}, {}), Even(s), s.stack # <<>>,
         Top(s).op = "iterate", Top(s).pc = "next",
         NEW x, x = Found(s, Top(s).c, Top(s).next), x # None
  PROVE  LET g == Frame(Top(s).op, Top(s).c, None, After(s.coll[Top(s).c].order, x), "call")
         IN  SetTop(s, g) = Push(Pop(s), g) /\ Visits(s, Pop(s), g, x)
<1> DEFINE f == Top(s)
           p == Pop(s)
           n == After(s.coll[f.c].order, x)
           g == Frame(f.op, f.c, None, n, "call")
<1>1. s \in States /\ ListsOK(s) /\ Typed(s)
  BY DEF Sound, ListsOK, Typed
<1>2. /\ p \in States /\ p.coll = s.coll /\ p.item = s.item /\ p.link = s.link /\ s = Push(p, f)
      /\ f \in Frames
  BY <1>1, PopIs
<1>3. /\ Sound(p, {}, {}) /\ ItemCall(p, f) /\ CollCall(p, f)
      /\ Len(p.stack) + 1 <= MaxDepth
  <2>1. Running(f)
    BY DEF Running
  <2>2. Sound(p, {}, {}) /\ ItemCall(p, f) /\ CollCall(p, f)
    BY PopSound
  <2>3. QED
    BY <1>1, <2>1, <2>2, PopLife DEF Sound
<1>4. /\ \A c : Linked(p, c) = Linked(s, c)
      /\ \A c, m : ToVisit(p, c, m) = ToVisit(s, c, m)
  BY <1>1, PopLists
<1>5. f.c \in Colls /\ f.next \in Linked(s, f.c) \cup {None}
  <2>1. f.c \in Colls
    BY <1>2 DEF Frames, FrameShape
  <2>2. f = s.stack[Len(s.stack)] /\ Len(s.stack) \in DOMAIN s.stack
    BY <1>1, PopIs, StackIs
  <2>3. QED
    BY <1>1, <2>1, <2>2 DEF ListsOK, NextOK
<1>6. /\ x \in ToVisit(s, f.c, f.next) /\ n \in Linked(s, f.c) \cup {None}
      /\ ToVisit(s, f.c, n) = ToVisit(s, f.c, f.next) \ {x}
  BY <1>1, <1>5, FoundIs
<1>7. n \in Items \cup {None}
  BY <1>1, <1>5, <1>6, CollIs
<1> HIDE DEF n, f, p
<1>8. /\ g \in Frames /\ g.op = "iterate" /\ g.c = f.c /\ g.i = None /\ g.next = n /\ g.pc = "call"
  <2>1. f.op = "iterate"
    BY DEF f
  <2>2. QED
    BY <1>5, <1>7, <2>1, NoneIs DEF Frame, Frames, FrameType, FrameShape, Ops
<1> HIDE DEF g
<1>9. Fits(p, g)
  <2>1. ~p.coll[f.c].freed
    BY <1>3, <1>5, NoneIs DEF CollCall
  <2>2. QED
    BY <1>3, <1>4, <1>5, <1>6, <1>8, <2>1, NoneIs DEF Fits, ItemCall, CollCall, LocksIt
<1>10. Sound(Push(p, g), {}, {})
  BY <1>3, <1>9, PushSound
<1>11. Even(Push(p, g))
  <2>1. FrameOwes(f, f.c, None, 1, 0, 0, 0) /\ FrameOwes(g, f.c, None, 1, 0, 0, 0)
    BY <1>2, <1>8, FrameOwesIs DEF f
  <2>2. Refs(p, f.c, None, 1, 0, 0, 0)
    BY <1>1, <2>1, PopRefs DEF f, p
  <2>3. QED
    BY <1>2, <1>8, <2>1, <2>2, PushEven
<1>12. SetTop(s, g) = Push(p, g)
  BY <1>1, <1>8, SetTopIs DEF p
<1>13. Leaves(p, p) /\ SameMembers(p, p)
  BY <1>3, LeavesSelf DEF Sound, SameMembers
<1>14. Visits(s, p, g, x)
  <2>1. g.op = Top(s).op /\ g.c = Top(s).c /\ f.next = Top(s).next /\ p = Pop(s)
    BY <1>8 DEF f, p
  <2>2. ToVisit(p, g.c, g.next) = ToVisit(s, g.c, f.next) \ {x} /\ x \in ToVisit(s, g.c, f.next)
    BY <1>4, <1>6, <1>8
  <2>3. QED
    BY <1>3, <1>8, <1>10, <1>11, <1>13, <2>1, <2>2 DEF Visits
<1>15. QED
  BY <1>12, <1>14 DEF g, f, n, p
LEMMA MatchIs ==
  ASSUME NEW s, Sound(s, {}, {}), Even(s), s.stack # <<>>,
         Top(s).op = "match", Top(s).pc = "next",
         NEW x, x = Found(s, Top(s).c, Top(s).next), x # None
  PROVE  LET g == Frame(Top(s).op, Top(s).c, x, After(s.coll[Top(s).c].order, x), "call")
             u == LockItem(Pop(s), Top(s).c, x)
         IN  LockItem(SetTop(s, g), Top(s).c, x) = Push(u, g) /\ Visits(s, u, g, x)
<1> DEFINE f == Top(s)
           p == Pop(s)
           n == After(s.coll[f.c].order, x)
           g == Frame(f.op, f.c, x, n, "call")
           u == LockItem(p, f.c, x)
<1>1. s \in States /\ ListsOK(s) /\ Typed(s)
  BY DEF Sound, ListsOK, Typed
<1>2. /\ p \in States /\ p.coll = s.coll /\ p.item = s.item /\ p.link = s.link /\ s = Push(p, f)
      /\ f \in Frames
  BY <1>1, PopIs
<1>3. /\ Sound(p, {}, {}) /\ ItemCall(p, f) /\ CollCall(p, f)
      /\ Len(p.stack) + 1 <= MaxDepth
  <2>1. Running(f)
    BY DEF Running
  <2>2. Sound(p, {}, {}) /\ ItemCall(p, f) /\ CollCall(p, f)
    BY PopSound
  <2>3. QED
    BY <1>1, <2>1, <2>2, PopLife DEF Sound
<1>4. /\ \A c : Linked(p, c) = Linked(s, c)
      /\ \A c, m : ToVisit(p, c, m) = ToVisit(s, c, m)
  BY <1>1, PopLists
<1>5. f.c \in Colls /\ f.next \in Linked(s, f.c) \cup {None}
  <2>1. f.c \in Colls
    BY <1>2 DEF Frames, FrameShape
  <2>2. f = s.stack[Len(s.stack)] /\ Len(s.stack) \in DOMAIN s.stack
    BY <1>1, PopIs, StackIs
  <2>3. QED
    BY <1>1, <2>1, <2>2 DEF ListsOK, NextOK
<1>6. /\ x \in ToVisit(s, f.c, f.next) /\ n \in Linked(s, f.c) \cup {None}
      /\ ToVisit(s, f.c, n) = ToVisit(s, f.c, f.next) \ {x}
      /\ x \in Linked(s, f.c) /\ x \in Items /\ Valid(s, f.c, x) /\ ~s.coll[f.c].destroyed
  BY <1>1, <1>5, FoundIs
<1>7. n \in Items \cup {None}
  BY <1>1, <1>5, <1>6, CollIs
<1> HIDE DEF n, f, p
<1>8. /\ g \in Frames /\ g.op = "match" /\ g.c = f.c /\ g.i = x /\ g.next = n /\ g.pc = "call"
  <2>1. f.op = "match"
    BY DEF f
  <2>2. QED
    BY <1>5, <1>6, <1>7, <2>1, NoneIs DEF Frame, Frames, FrameType, FrameShape, Ops
<1> HIDE DEF g
<1>9. /\ x \in Linked(p, f.c) /\ Valid(p, f.c, x) /\ ~p.coll[f.c].destroyed
      /\ ~p.coll[f.c].void /\ ~p.coll[f.c].freed
  <2>1. Valid(p, f.c, x)
    BY <1>2, <1>6 DEF Valid
  <2>2. ~p.coll[f.c].void /\ ~p.coll[f.c].freed
    BY <1>3, <1>5, NoneIs DEF CollCall, f
  <2>3. QED
    BY <1>2, <1>4, <1>6, <2>1, <2>2
<1>10. FrameOwes(f, f.c, x, 1, 0, 0, 0) /\ FrameOwes(g, f.c, x, 2, 1, 1, 1)
  <2>1. f.op = "match" /\ f.pc # "call"
    BY DEF f
  <2>2. QED
    BY <1>2, <1>8, <2>1, FrameOwesIs
<1>11. Refs(p, f.c, x, 1, 0, 0, 0)
  BY <1>1, <1>10, PopRefs DEF f, p
<1>12. /\ Locked(p, u, f.c, x, 1, 0, 0, 0)
       /\ LockItem(Push(p, g), f.c, x) = Push(u, g)
  BY <1>3, <1>5, <1>8, <1>9, <1>11, LockItemIs
<1> HIDE DEF u
<1>13. /\ Sound(u, {}, {}) /\ Refs(u, f.c, x, 2, 1, 1, 1) /\ Leaves(p, u) /\ SameMembers(p, u)
       /\ u.stack = p.stack
  <2>1. Refs(u, f.c, x, 1 + 1, 0 + 1, 0 + 1, 0 + 1) /\ 1 + 1 = 2 /\ 0 + 1 = 1
    BY <1>12 DEF Locked
  <2>2. Refs(u, f.c, x, 2, 1, 1, 1)
    BY <2>1
  <2>3. QED
    BY <1>12, <2>2 DEF Locked
<1>14. u \in States /\ Len(u.stack) + 1 <= MaxDepth
  BY <1>3, <1>13 DEF Sound, ListsOK, Typed
<1>15. /\ ~u.item[x].called /\ ~u.item[x].freed /\ x # None
       /\ ~u.coll[f.c].called /\ ~u.coll[f.c].freed /\ ~u.coll[f.c].void
       /\ \A d \in Colls : Linked(u, d) = Linked(p, d)
  <2>1. ItemLife(p, x) /\ CollLife(p, f.c) /\ p.coll[f.c] \in CollType
    BY <1>2, <1>3, <1>5, <1>6, ItemsTyped DEF Sound, Alive
  <2>2. ~p.item[x].called /\ ~p.item[x].freed /\ ~p.coll[f.c].called
    BY <1>9, <2>1 DEF Valid, ItemLife, CollLife
  <2>3. /\ u.coll[f.c].called = p.coll[f.c].called /\ u.coll[f.c].freed = p.coll[f.c].freed
        /\ u.coll[f.c].void = p.coll[f.c].void
    BY <1>12, <2>1 DEF Locked, SameFlags, CollType
  <2>4. u.item[x].called = p.item[x].called /\ u.item[x].freed = p.item[x].freed
    BY <1>12 DEF Locked
  <2>5. \A d \in Colls : Linked(u, d) = Linked(p, d)
    BY <1>12 DEF Locked
  <2>6. QED
    BY <1>9, <2>2, <2>3, <2>4, <2>5
<1>16. Fits(u, g)
  <2>1. g.next # None => g.next \in Linked(u, g.c)
    BY <1>4, <1>5, <1>6, <1>8, <1>15
  <2>2. ItemCall(u, g) /\ CollCall(u, g)
    BY <1>8, <1>15 DEF ItemCall, CollCall, LocksIt
  <2>3. QED
    BY <1>8, <1>14, <2>1, <2>2 DEF Fits
<1>17. Sound(Push(u, g), {}, {})
  BY <1>13, <1>16, PushSound
<1>18. Even(Push(u, g))
  BY <1>8, <1>10, <1>13, <1>14, PushEven
<1>19. SetTop(s, g) = Push(p, g)
  BY <1>1, <1>8, SetTopIs DEF p
<1>20. ToVisit(u, g.c, g.next) = ToVisit(s, g.c, f.next) \ {x} /\ x \in ToVisit(s, g.c, f.next)
  <2>1. ToVisit(p, f.c, n) = ToVisit(s, f.c, f.next) \ {x} /\ x \in ToVisit(s, f.c, f.next)
    BY <1>4, <1>6
  <2>2. ToVisit(u, f.c, n) = ToVisit(p, f.c, n)
    <3>1. p \in States /\ p.coll[f.c] \in CollType
      BY <1>2, <1>5, ItemsTyped
    <3>2. LockWas(p, u, f.c, x)
      BY <1>3, <1>5, <1>6, <1>9, <3>1, LockFields DEF u
    <3>3. u.coll[f.c] = [p.coll[f.c] EXCEPT !.ref = @ + 1]
      BY <1>5, <3>1, <3>2 DEF LockWas, States
    <3>4. u.coll[f.c].order = p.coll[f.c].order /\ u.coll[f.c].destroyed = p.coll[f.c].destroyed
      BY <3>1, <3>3 DEF CollType
    <3>5. \A j \in Items : Valid(u, f.c, j) <=> Valid(p, f.c, j)
      <4>1. ASSUME NEW j \in Items PROVE Valid(u, f.c, j) <=> Valid(p, f.c, j)
        <5>1. /\ u.item[j].destroyed = p.item[j].destroyed /\ u.item[j].called = p.item[j].called
              /\ u.item[j].cbDestroyed = p.item[j].cbDestroyed
          <6>1. p.item \in [Items -> ItemType] /\ u.item = [p.item EXCEPT ![x] = [p.item[x] EXCEPT !.ref = @ + 1, !.cbRef = @ + 1]]
            BY <3>1, <3>2 DEF LockWas, States
          <6>2. QED
            BY <1>6, <4>1, <6>1 DEF ItemType
        <5>2. u.link[f.c][j].destroyed = p.link[f.c][j].destroyed
          <6>1. /\ p.link \in [Colls -> [Items -> LinkType]]
                /\ u.link = [p.link EXCEPT ![f.c] = [p.link[f.c] EXCEPT ![x] = [p.link[f.c][x] EXCEPT !.ref = @ + 1]]]
            BY <3>1, <3>2 DEF LockWas, States
          <6>2. QED
            BY <1>5, <1>6, <4>1, <6>1 DEF LinkType
        <5>3. QED
          BY <5>1, <5>2 DEF Valid
      <4>2. QED
        BY <4>1
    <3>6. Ahead(p.coll[f.c].order, n) \subseteq Items
      <4>1. n \in ToSet(p.coll[f.c].order) => Ahead(p.coll[f.c].order, n) \subseteq ToSet(p.coll[f.c].order)
        BY <1>2, <1>5, <1>1, CollIs, AheadIs
      <4>2. n = None => Ahead(p.coll[f.c].order, n) = {}
        BY DEF Ahead
      <4>3. QED
        BY <1>1, <1>2, <1>5, <1>6, <4>1, <4>2, CollIs DEF Linked
    <3>7. QED
      BY <3>4, <3>5, <3>6 DEF ToVisit
  <2>3. QED
    BY <1>8, <2>1, <2>2
<1>21. Visits(s, u, g, x)
  <2>1. g.op = Top(s).op /\ g.c = Top(s).c /\ f.next = Top(s).next /\ p = Pop(s)
    BY <1>8 DEF f, p
  <2>2. QED
    BY <1>8, <1>13, <1>17, <1>18, <1>20, <2>1 DEF Visits
<1>22. QED
  BY <1>12, <1>19, <1>21 DEF g, f, n, p, u

(* The end of a loop, or of the call that lets go of its collection.       *)
LEMMA FinishIs ==
  ASSUME NEW s, Sound(s, {}, {}), Even(s), s.stack # <<>>,
         Top(s).op \in {"iterate", "empty", "unref"} \/ (Top(s).op = "match" /\ Top(s).pc # "call")
  PROVE  LET t == CollectionUnref(Pop(s), Top(s).c)
         IN  Good(Pop(s), t) /\ SameMembers(Pop(s), t)
<1>1. s \in States
  BY DEF Sound, ListsOK, Typed
<1>2. Sound(Pop(s), {}, {}) /\ Top(s) \in Frames
  BY PopSound
<1>3. Top(s).c \in Colls
  BY <1>2 DEF Frames, FrameShape
<1>4. FrameOwes(Top(s), Top(s).c, None, 1, 0, 0, 0)
  BY <1>2, FrameOwesIs
<1>5. Refs(Pop(s), Top(s).c, None, 1, 0, 0, 0)
  BY <1>1, <1>4, PopRefs
<1>6. QED
  BY <1>2, <1>3, <1>5, CollectionUnrefIs

(* The code that holds an item, or has it locked, is done.                 *)
LEMMA ReleaseIs ==
  ASSUME NEW s, Sound(s, {}, {}), Even(s), s.stack # <<>>
  PROVE  /\ Top(s).op = "hold" => Good(Pop(s), ObjUnref(Pop(s), Top(s).i))
         /\ Top(s).op = "lock" => Good(Pop(s), UnlockItem(Pop(s), Top(s).c, Top(s).i))
<1>1. s \in States
  BY DEF Sound, ListsOK, Typed
<1>2. /\ Top(s).op \notin {"dtor", "destroy"} => Sound(Pop(s), {}, {})
      /\ Top(s) \in Frames /\ ItemCall(Pop(s), Top(s)) /\ CollCall(Pop(s), Top(s))
  BY PopSound
<1>3. ASSUME Top(s).op = "hold" PROVE Good(Pop(s), ObjUnref(Pop(s), Top(s).i))
  <2>1. Top(s).i \in Items /\ Sound(Pop(s), {}, {})
    BY <1>2, <1>3 DEF Frames, FrameShape
  <2>2. FrameOwes(Top(s), None, Top(s).i, 0, 1, 0, 0)
    BY <1>2, <1>3, FrameOwesIs
  <2>3. Refs(Pop(s), None, Top(s).i, 0, 1, 0, 0)
    BY <1>1, <2>2, PopRefs
  <2>4. QED
    BY <2>1, <2>3, ObjUnrefIs
<1>4. ASSUME Top(s).op = "lock" PROVE Good(Pop(s), UnlockItem(Pop(s), Top(s).c, Top(s).i))
  <2>1. Top(s).i \in Items /\ Top(s).c \in Colls /\ Sound(Pop(s), {}, {})
    BY <1>2, <1>4 DEF Frames, FrameShape
  <2>2. FrameOwes(Top(s), Top(s).c, Top(s).i, 1, 1, 1, 1)
    BY <1>2, <1>4, FrameOwesIs
  <2>3. Refs(Pop(s), Top(s).c, Top(s).i, 1, 1, 1, 1)
    BY <1>1, <2>2, PopRefs
  <2>4. ~Pop(s).item[Top(s).i].called /\ ~Pop(s).coll[Top(s).c].freed
    BY <1>2, <1>4, <2>1, NoneIs DEF ItemCall, CollCall, LocksIt
  <2>5. QED
    BY <2>1, <2>3, <2>4, UnlockItemIs
<1>5. QED
  BY <1>3, <1>4

(* The destructor of an item ends.                                         *)
LEMMA FreeItemIs ==
  ASSUME NEW s, Sound(s, {}, {}), Even(s), s.stack # <<>>, Top(s).op = "dtor"
  PROVE  Good(Pop(s), [Pop(s) EXCEPT !.item[Top(s).i].freed = TRUE])
<1> DEFINE p == Pop(s)
           i == Top(s).i
           h == [p.item[i] EXCEPT !.freed = TRUE]
           t == WithItem(p, i, h)
<1>1. s \in States
  BY DEF Sound, ListsOK, Typed
<1>2. p \in States /\ p.item = s.item /\ p.coll = s.coll
  BY <1>1, PopIs
<1>3. /\ Sound(p, {} \cup {i}, {}) /\ Top(s) \in Frames /\ ItemCall(p, Top(s))
      /\ \A n \in 1 .. Len(p.stack) : Apart(p.stack[n], Top(s))
  BY <1>1, PopSound, PopLife DEF Sound, Alive
<1>4. i \in Items /\ i # None
  BY <1>3, NoneIs DEF Frames, FrameShape
<1>5. p.item[i].called /\ \A n \in 1 .. Len(p.stack) : p.stack[n].i # i
  BY <1>3 DEF ItemCall, Apart
<1>6. Even(p)
  <2>1. FrameOwes(Top(s), None, None, 0, 0, 0, 0)
    BY <1>3, FrameOwesIs
  <2>2. QED
    BY <1>1, <2>1, PopRefs, RefsNone
<1>7. [p EXCEPT !.item[i].freed = TRUE] = t
  BY <1>2 DEF WithItem, States
<1>8. ItemLife(s, i)
  BY <1>4 DEF Sound, Alive
<1>9. \A c \in Colls : Linked(p, c) = Linked(s, c)
  BY <1>2 DEF Linked
<1>10. p.item[i] \in ItemType
  BY <1>2, <1>4, ItemsTyped
<1> HIDE DEF p, i
<1>11. /\ h \in ItemType /\ h.destroyed = p.item[i].destroyed /\ h.cbDestroyed = p.item[i].cbDestroyed
       /\ h.called = p.item[i].called /\ h.freed /\ h.cbCalled = p.item[i].cbCalled
       /\ h.ref = p.item[i].ref /\ h.cbRef = p.item[i].cbRef
  BY <1>10 DEF ItemType
<1> HIDE DEF h
<1>12. /\ Sound(t, ({} \cup {i}) \cup {i}, {}) /\ Leaves(p, t)
       /\ \A c \in Colls : Linked(t, c) = Linked(p, c)
  BY <1>3, <1>4, <1>5, <1>11, WithItemIs
<1>13. ItemWas(p, t, i, h) /\ Even(t)
  BY <1>2, <1>4, <1>6, <1>11, WithItemSame
<1> HIDE DEF t
<1>14. t.item[i] = h
  BY <1>13 DEF ItemWas
<1>15. ItemLife(t, i)
  BY <1>2, <1>5, <1>8, <1>9, <1>11, <1>12, <1>14 DEF ItemLife
<1>16. Sound(t, {}, {})
  <2>1. ({} \cup {i}) \cup {i} = {} \cup {i}
    OBVIOUS
  <2>2. QED
    BY <1>12, <1>15, <2>1, SoundAgain
<1>17. Good(p, t)
  BY <1>12, <1>13, <1>16 DEF Good
<1>18. QED
  BY <1>7, <1>17 DEF p, i

(* The destructor of a collection ends: those that are left in it were     *)
(* marked, themselves or their collectible.                                *)
LEMMA FreeCollectionIs ==
  ASSUME NEW s, Sound(s, {}, {}), Even(s), s.stack # <<>>, Top(s).op = "destroy",
         ToVisit(s, Top(s).c, Top(s).next) = {}
  PROVE  Good(Pop(s), [Pop(s) EXCEPT !.coll[Top(s).c].freed = TRUE])
<1> DEFINE p == Pop(s)
           c == Top(s).c
           k == [p.coll[c] EXCEPT !.freed = TRUE]
           t == WithColl(p, c, k)
<1>1. s \in States /\ ListsOK(s)
  BY DEF Sound, ListsOK, Typed
<1>2. p \in States /\ p.item = s.item /\ p.coll = s.coll /\ p.link = s.link
  BY <1>1, PopIs
<1>3. /\ Sound(p, {}, {} \cup {c}) /\ Top(s) \in Frames /\ CollCall(p, Top(s))
      /\ \A n \in 1 .. Len(p.stack) : Apart(p.stack[n], Top(s))
  BY <1>1, PopSound, PopLife DEF Sound, Alive
<1>4. c \in Colls /\ c # None
  BY <1>3, NoneIs DEF Frames, FrameShape
<1>5. p.coll[c].called /\ \A n \in 1 .. Len(p.stack) : p.stack[n].c # c
  BY <1>3 DEF CollCall, Apart
<1>6. Even(p)
  <2>1. FrameOwes(Top(s), None, None, 0, 0, 0, 0)
    BY <1>3, FrameOwesIs
  <2>2. QED
    BY <1>1, <2>1, PopRefs, RefsNone
<1>7. [p EXCEPT !.coll[c].freed = TRUE] = t
  BY <1>2 DEF WithColl, States
<1>8. CollLife(s, c) /\ Members(s, c) = {}
  <2>1. CollLife(s, c)
    BY <1>4 DEF Sound, Alive
  <2>2. Top(s) = s.stack[Len(s.stack)] /\ Len(s.stack) \in 1 .. Len(s.stack)
    BY <1>1, PopIs
  <2>3. Members(s, c) \subseteq ToVisit(s, c, Top(s).next)
    BY <2>2 DEF Sound, Swept
  <2>4. QED
    BY <2>1, <2>3
<1>9. \A d \in Colls : Linked(p, d) = Linked(s, d)
  BY <1>2 DEF Linked
<1>10. p.coll[c] \in CollType
  BY <1>2, <1>4, ItemsTyped
<1>11. ASSUME ~DestroyBusy, NEW i \in Linked(p, c)
       PROVE  p.item[i].destroyed \/ p.item[i].cbDestroyed
  <2>1. i \in Linked(s, c) /\ i \in Items
    BY <1>1, <1>4, <1>9, <1>11, CollIs DEF ListsOK
  <2>2. ~s.coll[c].destroyed
    BY <1>8, <1>11 DEF CollLife
  <2>3. ~Valid(s, c, i)
    BY <1>8, <2>1, <2>2 DEF Members
  <2>4. ~s.item[i].called
    <3>1. ItemLife(s, i)
      BY <2>1 DEF Sound, Alive
    <3>2. QED
      BY <1>4, <1>11, <2>1, <3>1 DEF ItemLife
  <2>5. ~s.link[c][i].destroyed
    <3>1. SUFFICES ASSUME s.link[c][i].destroyed PROVE FALSE
      OBVIOUS
    <3>2. s.link[c][i].ref > 0
      BY <1>1, <1>4, <2>1, <3>1 DEF ListsOK, LinksOK
    <3>3. p.link[c][i].ref > 0 /\ p.link[c][i].ref = LinkCount(p, c, i)
      <4>1. AtLeast(p.link[c][i].ref, LinkCount(p, c, i) + Owed(<<c, i>>, <<None, None>>, 0))
        BY <1>4, <1>6, <2>1 DEF Even, Refs
      <4>2. Owed(<<c, i>>, <<None, None>>, 0) = 0
        BY DEF Owed
      <4>3. LinkCount(p, c, i) \in Nat
        BY <1>2, CountsAreNat
      <4>4. QED
        BY <1>2, <1>11, <3>2, <4>1, <4>2, <4>3 DEF AtLeast
    <3>4. LinkCount(p, c, i) = 0
      BY <1>2, <1>5, CountsAreNat
    <3>5. QED
      BY <3>3, <3>4
  <2>6. QED
    BY <1>2, <2>3, <2>4, <2>5 DEF Valid
<1> HIDE DEF p, c
<1>12. /\ k \in CollType /\ k.order = p.coll[c].order /\ k.size = p.coll[c].size
       /\ k.destroyed = p.coll[c].destroyed /\ k.called = p.coll[c].called /\ k.void = p.coll[c].void
       /\ k.freed /\ k.ref = p.coll[c].ref + 0
  <2>1. p.coll[c].ref = p.coll[c].ref + 0
    BY <1>10 DEF CollType
  <2>2. QED
    BY <1>10, <2>1 DEF CollType
<1> HIDE DEF k
<1>13. Sound(t, {}, ({} \cup {c}) \cup {c}) /\ Leaves(p, t)
  BY <1>3, <1>4, <1>5, <1>11, <1>12, WithCollIs
<1>14. CollWas(p, t, c, k) /\ Even(t)
  <2>1. Refs(p, c, None, 0, 0, 0, 0)
    BY <1>6, RefsNone
  <2>2. Refs(t, c, None, 0 + 0, 0, 0, 0)
    BY <1>2, <1>4, <1>12, <2>1, WithCollRefs
  <2>3. 0 + 0 = 0
    OBVIOUS
  <2>4. QED
    BY <1>2, <1>4, <1>12, <2>2, <2>3, RefsNone, WithCollFields
<1> HIDE DEF t
<1>15. t.coll[c] = k
  BY <1>14 DEF CollWas
<1>16. CollLife(t, c)
  BY <1>2, <1>5, <1>8, <1>12, <1>15 DEF CollLife
<1>17. Sound(t, {}, {})
  <2>1. ({} \cup {c}) \cup {c} = {} \cup {c}
    OBVIOUS
  <2>2. QED
    BY <1>13, <1>16, <2>1, SoundAgain
<1>18. Good(p, t)
  BY <1>13, <1>14, <1>17 DEF Good
<1>19. QED
  BY <1>7, <1>18 DEF p, c

(* The loop of collection_empty and of a destructor takes an item out.     *)
LEMMA SweepIs ==
  ASSUME NEW s, Sound(s, {}, {}), Even(s), s.stack # <<>>, Top(s).op \in {"empty", "destroy"},
         NEW x, x = Found(s, Top(s).c, Top(s).next), x # None
  PROVE  LET out == InstanceDestroy(
                        SetTop(s, [Top(s) EXCEPT !.next = After(s.coll[Top(s).c].order, x)]),
                        {Top(s).c}, x)
         IN  Good(Pop(s), out) /\ Good(Pop(s), CollectibleDestroy(out, x))
<1> DEFINE f == Top(s)
           p == Pop(s)
           n == After(s.coll[f.c].order, x)
           g == [f EXCEPT !.next = n]
           q == Push(p, g)
           t == InstanceDestroy(q, {f.c}, x)
           N == Len(s.stack)
<1>1. s \in States /\ ListsOK(s) /\ Typed(s)
  BY DEF Sound, ListsOK, Typed
<1>2. /\ p \in States /\ p.coll = s.coll /\ p.item = s.item /\ p.link = s.link
      /\ f \in Frames /\ f = s.stack[N] /\ N \in Nat \ {0} /\ Len(p.stack) = N - 1
      /\ \A m \in 1 .. N - 1 : p.stack[m] = s.stack[m]
  BY <1>1, PopIs
<1>3. ListsOK(p) /\ \A c : Linked(p, c) = Linked(s, c)
  BY <1>1, PopLists
<1>4. f.c \in Colls /\ f.next \in Linked(s, f.c) \cup {None}
  <2>1. f.c \in Colls
    BY <1>2 DEF Frames, FrameShape
  <2>2. N \in DOMAIN s.stack
    BY <1>1, <1>2, StackIs
  <2>3. QED
    BY <1>1, <1>2, <2>1, <2>2 DEF ListsOK, NextOK
<1>5. /\ n \in Linked(s, f.c) \cup {None}
      /\ ToVisit(s, f.c, n) = ToVisit(s, f.c, f.next) \ {x}
      /\ x \in Items /\ Valid(s, f.c, x)
  BY <1>1, <1>4, FoundIs
<1>6. n \in Items \cup {None}
  BY <1>1, <1>4, <1>5, CollIs
<1>7. f.op \in {"empty", "destroy"}
  OBVIOUS
<1> HIDE DEF n, f, p
<1>8. /\ g \in Frames /\ g.op = f.op /\ g.c = f.c /\ g.i = f.i /\ g.next = n /\ g.pc = f.pc
  BY <1>2, <1>6, <1>7 DEF Frames, FrameType, FrameShape
<1>9. ~Running(g) /\ ~Running(f)
  BY <1>7, <1>8 DEF Running
<1> HIDE DEF g
<1>10. /\ ListsOK(q) /\ Leaves(p, q)
       /\ \A c : Members(q, c) = Members(p, c)
       /\ \A c, m : ToVisit(q, c, m) = ToVisit(p, c, m)
  BY <1>3, <1>4, <1>5, <1>8, <1>9, PushLists
<1>11. /\ q \in States /\ q.coll = p.coll /\ q.item = p.item /\ q.link = p.link
       /\ Len(q.stack) = Len(p.stack) + 1
       /\ \A m \in 1 .. Len(p.stack) : q.stack[m] = p.stack[m]
       /\ q.stack[Len(p.stack) + 1] = g
  BY <1>2, <1>8, PushIs
<1> HIDE DEF q
<1>12. /\ \A c : Members(q, c) = Members(s, c)
       /\ \A c, m : ToVisit(q, c, m) = ToVisit(s, c, m)
  BY <1>1, <1>10, PopLists DEF p
<1>13. SameCalls(s, q)
  <2>1. Len(q.stack) = N
    BY <1>2, <1>11
  <2>2. ASSUME NEW m \in 1 .. N PROVE SameCall(s.stack[m], q.stack[m])
    <3>1. CASE m = N
      BY <1>2, <1>8, <1>11, <3>1 DEF SameCall
    <3>2. CASE m # N
      <4>1. m \in 1 .. N - 1
        BY <1>2, <3>2
      <4>2. QED
        BY <1>2, <1>11, <4>1 DEF SameCall
    <3>3. QED
      BY <3>1, <3>2
  <2>3. QED
    BY <2>1, <2>2 DEF SameCalls
<1> HIDE DEF N
<1>14. /\ \A i \in Items : ItemLife(q, i)
       /\ \A c \in Colls : CollLife(q, c)
       /\ Calls(q) /\ Emptied(q)
  <2>1. \A c \in Colls : SameFlags(s.coll[c], q.coll[c]) /\ Linked(q, c) \subseteq Linked(s, c)
    BY <1>2, <1>11 DEF SameFlags, Linked
  <2>2. \A i \in Items : ItemLife(s, i)
    BY DEF Sound, Alive
  <2>3. \A c \in Colls : CollLife(s, c)
    BY DEF Sound, Alive
  <2>4. Calls(s) /\ Emptied(s)
    BY DEF Sound, Alive
  <2>5. q.item = s.item
    BY <1>2, <1>11
  <2>6. QED
    BY <1>1, <1>11, <1>13, <2>1, <2>2, <2>3, <2>4, <2>5, SameLife
<1>15. Nested(q)
  BY <1>13 DEF Sound, Nested, SameCalls, SameCall, Running
<1>16. Even(q)
  <2>1. f.op = "empty" => Even(q)
    <3>1. SUFFICES ASSUME f.op = "empty" PROVE Even(q)
      OBVIOUS
    <3>2. FrameOwes(f, f.c, None, 1, 0, 0, 0) /\ FrameOwes(g, f.c, None, 1, 0, 0, 0)
      BY <1>2, <1>8, <3>1, FrameOwesIs
    <3>3. Refs(p, f.c, None, 1, 0, 0, 0)
      BY <1>1, <3>2, PopRefs DEF p, f
    <3>4. QED
      BY <1>2, <1>8, <3>2, <3>3, PushEven DEF q
  <2>2. f.op = "destroy" => Even(q)
    <3>1. SUFFICES ASSUME f.op = "destroy" PROVE Even(q)
      OBVIOUS
    <3>2. FrameOwes(f, None, None, 0, 0, 0, 0) /\ FrameOwes(g, None, None, 0, 0, 0, 0)
      BY <1>2, <1>8, <3>1, FrameOwesIs
    <3>3. Refs(p, None, None, 0, 0, 0, 0)
      BY <1>1, <3>2, PopRefs DEF p, f
    <3>4. QED
      BY <1>2, <1>8, <3>2, <3>3, PushEven DEF q
  <2>3. QED
    BY <1>7, <2>1, <2>2
<1>17. LET w == InstanceDestroy(q, {f.c}, x)
       IN  /\ ListsOK(w) /\ Removed(q, w, {f.c}, x) /\ Leaves(q, w)
           /\ \A c \in Colls, j \in Items : w.link[c][j].ref = q.link[c][j].ref
           /\ \A c \in {f.c} : x \in Linked(w, c) => w.link[c][x].destroyed
  <2> DEFINE D == {f.c}
  <2>1. D \in SUBSET Colls
    BY <1>4
  <2> HIDE DEF t, D
  <2>2. LET w == InstanceDestroy(q, D, x)
        IN  /\ ListsOK(w) /\ Removed(q, w, D, x) /\ Leaves(q, w)
            /\ \A c \in Colls, j \in Items : w.link[c][j].ref = q.link[c][j].ref
            /\ \A c \in D : x \in Linked(w, c) => w.link[c][x].destroyed
    <3>1. ListsOK(q) /\ x \in Items
      BY <1>5, <1>10
    <3>2. QED
      BY <2>1, <3>1, InstanceDestroyIs, ZenonT(40)
  <2>3. QED
    BY <2>2 DEF D
<1>18. /\ ListsOK(t) /\ Removed(q, t, {f.c}, x) /\ Leaves(q, t) /\ t \in States
       /\ \A c \in Colls, j \in Items : t.link[c][j].ref = q.link[c][j].ref
       /\ x \in Linked(t, f.c) => t.link[f.c][x].destroyed
  BY <1>17 DEF ListsOK, Typed
<1> HIDE DEF t
<1>19. SameCalls(q, t) /\ t.item = q.item
  BY <1>18 DEF Removed, SameCalls
<1>20. /\ \A i \in Items : ItemLife(t, i)
       /\ \A c \in Colls : CollLife(t, c)
       /\ Calls(t) /\ Emptied(t)
  <2>1. \A c \in Colls : SameFlags(q.coll[c], t.coll[c]) /\ Linked(t, c) \subseteq Linked(q, c)
    BY <1>18 DEF Removed
  <2>2. QED
    BY <1>11, <1>14, <1>18, <1>19, <2>1, SameLife
<1>21. Nested(t)
  BY <1>11, <1>15, <1>18, <1>19, LeavesCalls
<1>22. Even(t)
  <2>1. Refs(q, None, None, 0, 0, 0, 0)
    BY <1>16 DEF Even
  <2>2. Refs(t, None, None, 0, 0, 0, 0)
    BY <1>11, <1>18, <2>1, RemovedRefs
  <2>3. QED
    BY <2>2 DEF Even
<1>23. Swept(t)
  <2>1. ASSUME NEW m \in 1 .. Len(t.stack), t.stack[m].op = "destroy"
        PROVE  Members(t, t.stack[m].c) \subseteq ToVisit(t, t.stack[m].c, t.stack[m].next)
    <3> DEFINE c == t.stack[m].c
    <3>1. Len(t.stack) = Len(q.stack) /\ Len(q.stack) = Len(s.stack)
      BY <1>13, <1>19 DEF SameCalls
    <3>2. m \in 1 .. Len(q.stack) /\ m \in 1 .. Len(s.stack)
      BY <2>1, <3>1
    <3>3. /\ q.stack[m].op = "destroy" /\ q.stack[m].c = c
          /\ s.stack[m].op = "destroy" /\ s.stack[m].c = c
      BY <1>13, <1>19, <2>1, <3>2 DEF SameCalls, SameCall
    <3>4. c \in Colls
      BY <1>11, <3>2, <3>3, StackIs DEF Frames, FrameShape
    <3>5. /\ Members(t, c) \subseteq Members(q, c)
          /\ ToVisit(t, c, t.stack[m].next) = ToVisit(q, c, q.stack[m].next) \cap Members(t, c)
      BY <1>18, <3>2, <3>3, <3>4 DEF Leaves
    <3>6. Members(s, c) \subseteq ToVisit(s, c, s.stack[m].next)
      BY <3>2, <3>3 DEF Sound, Swept
    <3> HIDE DEF c
    <3>7. CASE m = Len(s.stack)
      <4>1. s.stack[m] = f /\ q.stack[m] = g
        BY <1>2, <1>11, <3>7 DEF N
      <4>2. c = f.c
        BY <3>3, <4>1
      <4>3. x \notin Members(t, c)
        BY <1>18, <4>2 DEF Members, Valid
      <4>4. ToVisit(q, c, g.next) = ToVisit(s, c, f.next) \ {x}
        BY <1>5, <1>8, <1>12, <4>2
      <4>5. Members(t, c) \subseteq ToVisit(t, c, t.stack[m].next)
        BY <1>12, <3>5, <3>6, <4>1, <4>3, <4>4
      <4>6. QED
        BY <4>5 DEF c
    <3>8. CASE m # Len(s.stack)
      <4>1. q.stack[m] = s.stack[m]
        <5>1. m \in 1 .. Len(s.stack) - 1
          BY <1>2, <3>2, <3>8 DEF N
        <5>2. QED
          BY <1>2, <1>11, <5>1 DEF N
      <4>2. Members(t, c) \subseteq ToVisit(t, c, t.stack[m].next)
        BY <1>12, <3>5, <3>6, <4>1
      <4>3. QED
        BY <4>2 DEF c
    <3>9. QED
      BY <3>7, <3>8
  <2>2. QED
    BY <2>1 DEF Swept
<1>24. Sound(t, {}, {})
  BY <1>18, <1>20, <1>21, <1>23 DEF Sound, Alive
<1>25. Leaves(p, t)
  BY <1>3, <1>10, <1>18, LeavesTwice
<1>26. Good(p, t)
  BY <1>22, <1>24, <1>25 DEF Good
<1>27. Good(p, CollectibleDestroy(t, x))
  <2>1. ~t.item[x].called
    BY <1>2, <1>5, <1>11, <1>19 DEF Valid
  <2>2. Good(t, CollectibleDestroy(t, x))
    BY <1>5, <1>22, <1>24, <2>1, CollectibleDestroyIs
  <2>3. QED
    BY <1>3, <1>18, <1>25, <2>2, LeavesTwice DEF Good, Sound
<1>28. SetTop(s, g) = q
  BY <1>1, <1>8, SetTopIs DEF q, p
<1>29. QED
  BY <1>26, <1>27, <1>28 DEF t, g, f, n, p

(* Where collections are destroyed while they are in use, references that  *)
(* are not given back are left over.                                       *)
LEMMA Leftover ==
  ASSUME NEW s \in States, NEW C, NEW I, NEW a \in Nat, NEW b \in Nat, NEW d \in Nat, NEW e \in Nat,
         Refs(s, C, I, a, b, d, e), DestroyBusy
  PROVE  Even(s)
<1>1. ASSUME NEW x \in Nat, NEW y \in Nat, NEW k \in Nat, AtLeast(x, y + k)
      PROVE  AtLeast(x, y + 0)
  BY <1>1 DEF AtLeast
<1>2. \A x, y, k : k \in Nat => Owed(x, y, k) \in Nat /\ Owed(x, y, 0) = 0
  BY DEF Owed
<1>3. /\ \A c \in Colls : CollCount(s, c) \in Nat /\ s.coll[c].ref \in Nat
      /\ \A i \in Items : ItemCount(s, i) \in Nat /\ s.item[i].ref \in Nat
      /\ \A i \in Items : CbCount(s, i) \in Nat /\ s.item[i].cbRef \in Nat
      /\ \A c \in Colls, i \in Items : LinkCount(s, c, i) \in Nat /\ s.link[c][i].ref \in Nat
  BY CountsAreNat, ItemsTyped DEF CollType, ItemType, LinkType
<1>4. \A c \in Colls : AtLeast(s.coll[c].ref, CollCount(s, c) + Owed(c, None, 0))
  <2>1. ASSUME NEW c \in Colls PROVE AtLeast(s.coll[c].ref, CollCount(s, c) + Owed(c, None, 0))
    <3>1. AtLeast(s.coll[c].ref, CollCount(s, c) + Owed(c, C, a))
      BY DEF Refs
    <3>2. Owed(c, C, a) \in Nat /\ Owed(c, None, 0) = 0
      BY <1>2
    <3>3. QED
      BY <1>1, <1>3, <3>1, <3>2
  <2>2. QED
    BY <2>1
<1>5. \A i \in Items : AtLeast(s.item[i].ref, ItemCount(s, i) + Owed(i, None, 0))
  <2>1. ASSUME NEW i \in Items PROVE AtLeast(s.item[i].ref, ItemCount(s, i) + Owed(i, None, 0))
    <3>1. AtLeast(s.item[i].ref, ItemCount(s, i) + Owed(i, I, b))
      BY DEF Refs
    <3>2. Owed(i, I, b) \in Nat /\ Owed(i, None, 0) = 0
      BY <1>2
    <3>3. QED
      BY <1>1, <1>3, <3>1, <3>2
  <2>2. QED
    BY <2>1
<1>6. \A i \in Items : AtLeast(s.item[i].cbRef, CbCount(s, i) + Owed(i, None, 0))
  <2>1. ASSUME NEW i \in Items PROVE AtLeast(s.item[i].cbRef, CbCount(s, i) + Owed(i, None, 0))
    <3>1. AtLeast(s.item[i].cbRef, CbCount(s, i) + Owed(i, I, d))
      BY DEF Refs
    <3>2. Owed(i, I, d) \in Nat /\ Owed(i, None, 0) = 0
      BY <1>2
    <3>3. QED
      BY <1>1, <1>3, <3>1, <3>2
  <2>2. QED
    BY <2>1
<1>7. \A c \in Colls, i \in Items :
          AtLeast(s.link[c][i].ref, LinkCount(s, c, i) + Owed(<<c, i>>, <<None, None>>, 0))
  <2>1. ASSUME NEW c \in Colls, NEW i \in Items
        PROVE  AtLeast(s.link[c][i].ref, LinkCount(s, c, i) + Owed(<<c, i>>, <<None, None>>, 0))
    <3>1. AtLeast(s.link[c][i].ref, LinkCount(s, c, i) + Owed(<<c, i>>, <<C, I>>, e))
      BY DEF Refs
    <3>2. Owed(<<c, i>>, <<C, I>>, e) \in Nat /\ Owed(<<c, i>>, <<None, None>>, 0) = 0
      BY <1>2
    <3>3. QED
      BY <1>1, <1>3, <3>1, <3>2
  <2>2. QED
    BY <2>1
<1>8. QED
  BY <1>4, <1>5, <1>6, <1>7 DEF Even, Refs

(* A callback returns: the call on top goes on as g.                       *)
LEMMA CallbackIs ==
  ASSUME NEW s, Sound(s, {}, {}), Even(s), s.stack # <<>>,
         Top(s).op \in {"iterate", "match"}, Top(s).pc = "call", NEW stop \in BOOLEAN
  PROVE  LET gone == s.coll[Top(s).c].destroyed
             g == [Top(s) EXCEPT !.i = None, !.pc = IF stop \/ gone THEN "stop" ELSE "next"]
             q == SetTop(s, g)
         IN  /\ q = Push(Pop(s), g) /\ ListsOK(q) /\ g \in Frames
             /\ g.op = Top(s).op /\ g.c = Top(s).c /\ g.next = Top(s).next
             /\ g.pc = IF stop \/ gone THEN "stop" ELSE "next"
             /\ Good(q, IF Top(s).op = "match" /\ ~gone THEN UnlockItem(q, Top(s).c, Top(s).i) ELSE q)
<1> DEFINE f == Top(s)
           p == Pop(s)
           gone == s.coll[f.c].destroyed
           pc == IF stop \/ gone THEN "stop" ELSE "next"
           g == [f EXCEPT !.i = None, !.pc = pc]
           q == Push(p, g)
<1>1. s \in States /\ ListsOK(s) /\ Typed(s)
  BY DEF Sound, ListsOK, Typed
<1>2. /\ p \in States /\ p.coll = s.coll /\ p.item = s.item /\ p.link = s.link
      /\ f \in Frames
  BY <1>1, PopIs
<1>3. /\ Sound(p, {}, {}) /\ ItemCall(p, f) /\ CollCall(p, f)
      /\ Len(p.stack) + 1 <= MaxDepth
  <2>1. Running(f)
    BY DEF Running
  <2>2. Sound(p, {}, {}) /\ ItemCall(p, f) /\ CollCall(p, f)
    BY PopSound
  <2>3. QED
    BY <1>1, <2>1, <2>2, PopLife DEF Sound
<1>4. \A c : Linked(p, c) = Linked(s, c)
  BY <1>1, PopLists
<1>5. f.c \in Colls /\ f.next \in Linked(s, f.c) \cup {None}
  <2>1. f.c \in Colls
    BY <1>2 DEF Frames, FrameShape
  <2>2. f = s.stack[Len(s.stack)] /\ Len(s.stack) \in DOMAIN s.stack
    BY <1>1, PopIs, StackIs
  <2>3. QED
    BY <1>1, <2>1, <2>2 DEF ListsOK, NextOK
<1>6. f.op \in {"iterate", "match"} /\ f.pc = "call" /\ (f.op = "match" => f.i \in Items)
  BY <1>2 DEF Frames, FrameShape
<1>7. pc \in {"stop", "next"}
  OBVIOUS
<1>8. gone => DestroyBusy
  BY <1>5 DEF Sound, Alive, CollLife
<1> HIDE DEF f, p, pc
<1>9. g \in Frames /\ g.op = f.op /\ g.c = f.c /\ g.i = None /\ g.next = f.next /\ g.pc = pc /\ g.pc # "call"
  BY <1>2, <1>6, <1>7, NoneIs DEF Frames, FrameType, FrameShape
<1> HIDE DEF g
<1>10. Fits(p, g)
  <2>1. ~p.coll[f.c].freed /\ (f.op = "match" => ~p.coll[f.c].void)
    BY <1>3, <1>5, NoneIs DEF CollCall
  <2>2. ItemCall(p, g) /\ CollCall(p, g)
    BY <1>6, <1>9, <2>1 DEF ItemCall, CollCall, LocksIt
  <2>3. QED
    BY <1>3, <1>4, <1>5, <1>6, <1>9, <2>2 DEF Fits
<1>11. Sound(q, {}, {}) /\ q \in States /\ q.coll = p.coll /\ q.item = p.item
  BY <1>2, <1>3, <1>9, <1>10, PushSound, PushIs
<1>12. SetTop(s, g) = q
  BY <1>1, <1>9, SetTopIs DEF p
<1>13. ASSUME f.op = "iterate" PROVE Good(q, q)
  <2>1. FrameOwes(f, f.c, None, 1, 0, 0, 0) /\ FrameOwes(g, f.c, None, 1, 0, 0, 0)
    BY <1>2, <1>9, <1>13, FrameOwesIs
  <2>2. Refs(p, f.c, None, 1, 0, 0, 0)
    BY <1>1, <2>1, PopRefs DEF f, p
  <2>3. Even(q)
    BY <1>2, <1>9, <2>1, <2>2, PushEven
  <2> HIDE DEF q
  <2>4. QED
    BY <1>11, <2>3, LeavesSelf DEF Good, Sound
<1>14. ASSUME f.op = "match" PROVE Good(q, IF ~gone THEN UnlockItem(q, f.c, f.i) ELSE q)
  <2>1. FrameOwes(f, f.c, f.i, 2, 1, 1, 1) /\ FrameOwes(g, f.c, f.i, 1, 0, 0, 0)
    BY <1>2, <1>6, <1>9, <1>14, FrameOwesIs
  <2>2. Refs(p, f.c, f.i, 2, 1, 1, 1)
    BY <1>1, <2>1, PopRefs DEF f, p
  <2>3. Refs(q, f.c, f.i, 1, 1, 1, 1)
    <3>1. Refs(q, f.c, f.i, 1, 1, 1, 1) <=> Refs(p, f.c, f.i, 1 + 1, 1 + 0, 1 + 0, 1 + 0)
      BY <1>2, <1>9, <2>1, PushRefs, ZenonT(40)
    <3>2. 1 + 1 = 2 /\ 1 + 0 = 1
      OBVIOUS
    <3>3. QED
      BY <2>2, <3>1, <3>2
  <2> HIDE DEF q
  <2>4. CASE gone
    <3>1. Even(q)
      BY <1>8, <1>11, <2>3, <2>4, Leftover
    <3>2. Good(q, q)
      BY <1>11, <3>1, LeavesSelf DEF Good, Sound
    <3>3. QED
      BY <2>4, <3>2
  <2>5. CASE ~gone
    <3>1. ~q.item[f.i].called /\ ~q.coll[f.c].freed
      BY <1>3, <1>5, <1>6, <1>11, <1>14, NoneIs DEF ItemCall, CollCall, LocksIt
    <3>2. Good(q, UnlockItem(q, f.c, f.i))
      BY <1>5, <1>6, <1>11, <1>14, <2>3, <3>1, UnlockItemIs
    <3>3. QED
      BY <1>14, <2>5, <3>2
  <2>6. QED
    BY <2>4, <2>5
<1>15. Good(q, IF f.op = "match" /\ ~gone THEN UnlockItem(q, f.c, f.i) ELSE q)
  BY <1>6, <1>13, <1>14
<1> HIDE DEF q
<1>16. ListsOK(q)
  BY <1>11 DEF Sound
<1>17. QED
  BY <1>9, <1>12, <1>15, <1>16 DEF g, f, pc, p, q

(* The list of a collection gets other items or another order.             *)
Listed(s, t, c) ==
    /\ t \in States /\ t.item = s.item /\ t.link = s.link /\ t.stack = s.stack
    /\ SameFlags(s.coll[c], t.coll[c])
    /\ \A d \in Colls : d # c => t.coll[d] = s.coll[d]
LEMMA ListedIs ==
  ASSUME NEW s, Sound(s, {}, {}), Even(s), NEW c \in Colls, NEW t, Listed(s, t, c)
  PROVE  /\ Even(t) /\ Nested(t) /\ Calls(t)
         /\ \A d \in Colls : CollLife(t, d)
         /\ \A j \in Items : (\A d \in Colls : j \in Linked(t, d) => j \in Linked(s, d)) => ItemLife(t, j)
         /\ \A d \in Colls : \A j : Valid(t, d, j) <=> Valid(s, d, j)
         /\ \A d \in Colls : d # c => /\ Linked(t, d) = Linked(s, d) /\ Members(t, d) = Members(s, d)
                                      /\ Live(t, d) = Live(s, d)
                                      /\ \A n : ToVisit(t, d, n) = ToVisit(s, d, n)
<1>1. s \in States /\ t \in States
  BY DEF Sound, ListsOK, Typed, Listed
<1>2. /\ t.item = s.item /\ t.link = s.link /\ t.stack = s.stack
      /\ \A d \in Colls : SameFlags(s.coll[d], t.coll[d])
  BY DEF Listed, SameFlags
<1>3. Even(t)
  <2>1. Refs(s, None, None, 0, 0, 0, 0)
    BY DEF Even
  <2>2. Refs(t, None, None, 0, 0, 0, 0)
    BY <1>2, <2>1, SameRefs DEF SameFlags
  <2>3. QED
    BY <2>2 DEF Even
<1>4. Nested(t)
  BY <1>2 DEF Sound, Nested
<1>5. Calls(s) /\ \A d \in Colls : CollLife(s, d)
  BY DEF Sound, Alive
<1>6. \A d \in Colls : CollLife(t, d)
  BY <1>2, <1>5 DEF CollLife, SameFlags
<1>7. ASSUME NEW f \in Frames, ItemCall(s, f), CollCall(s, f) PROVE ItemCall(t, f) /\ CollCall(t, f)
  <2>1. ItemCall(t, f)
    BY <1>2, <1>7 DEF ItemCall
  <2>2. f.c = None \/ f.c \in Colls
    BY <1>7 DEF Frames, FrameType
  <2>3. LocksIt(f) \/ f.op \in {"destroy", "match"} => f.c \in Colls
    BY <1>7 DEF Frames, FrameShape, LocksIt
  <2>4. CollCall(t, f)
    BY <1>2, <1>7, <2>2, <2>3 DEF CollCall, SameFlags
  <2>5. QED
    BY <2>1, <2>4
<1>8. Calls(t)
  <2>1. \A n \in 1 .. Len(s.stack) : s.stack[n] \in Frames
    BY <1>1, StackIs
  <2>2. \A n \in 1 .. Len(t.stack) : ItemCall(t, t.stack[n]) /\ CollCall(t, t.stack[n])
    BY <1>2, <1>5, <1>7, <2>1 DEF Calls
  <2>3. QED
    BY <1>2, <1>5, <2>2 DEF Calls
<1>9. ASSUME NEW j \in Items, \A d \in Colls : j \in Linked(t, d) => j \in Linked(s, d)
      PROVE  ItemLife(t, j)
  <2>1. ItemLife(s, j)
    BY DEF Sound, Alive
  <2>2. QED
    BY <1>2, <1>9, <2>1 DEF ItemLife
<1>10. \A d \in Colls : \A j : Valid(t, d, j) <=> Valid(s, d, j)
  BY <1>2 DEF Valid
<1>11. ASSUME NEW d \in Colls, d # c
       PROVE  /\ Linked(t, d) = Linked(s, d) /\ Members(t, d) = Members(s, d)
              /\ Live(t, d) = Live(s, d)
              /\ \A n : ToVisit(t, d, n) = ToVisit(s, d, n)
  <2>1. t.coll[d] = s.coll[d]
    BY <1>11 DEF Listed
  <2>2. Linked(t, d) = Linked(s, d)
    BY <2>1 DEF Linked
  <2>3. {j \in Linked(t, d) : Valid(t, d, j)} = {j \in Linked(s, d) : Valid(s, d, j)}
    BY <1>10, <2>2
  <2>4. \A n : {j \in Ahead(t.coll[d].order, n) : Valid(t, d, j)} = {j \in Ahead(s.coll[d].order, n) : Valid(s, d, j)}
    BY <1>10, <2>1
  <2>5. Live(t, d) = Live(s, d)
    BY <1>2, <2>2 DEF Live
  <2>6. QED
    BY <2>1, <2>2, <2>3, <2>4, <2>5 DEF Members, ToVisit
<1>12. QED
  BY <1>3, <1>4, <1>6, <1>8, <1>9, <1>10, <1>11

(* collection_add: the items ahead of an iterator are those that were.     *)
Joins(s, t, c, i) ==
    /\ Sound(t, {}, {}) /\ Even(t) /\ t.stack = s.stack
    /\ i \notin Members(s, c) /\ Members(t, c) = Members(s, c) \cup {i}
    /\ \A d \in Colls : d # c => Members(t, d) = Members(s, d)
    /\ \A d \in Colls : \A n \in Linked(s, d) \cup {None} : ToVisit(t, d, n) = ToVisit(s, d, n)
LEMMA AddIs ==
  ASSUME NEW s, Sound(s, {}, {}), Even(s), NEW c \in Colls, NEW i \in Items,
         ~s.coll[c].freed, i \notin Linked(s, c), Valid(s, c, i), ~s.coll[c].destroyed, ~s.coll[c].void
  PROVE  Joins(s, WithColl(s, c, [s.coll[c] EXCEPT !.order = <<i>> \o @, !.size = @ + 1]), c, i)
<1> DEFINE q == s.coll[c].order
           r == <<i>> \o q
           k == [s.coll[c] EXCEPT !.order = <<i>> \o @, !.size = @ + 1]
           t == WithColl(s, c, k)
<1>1. s \in States /\ ListsOK(s) /\ Typed(s) /\ s.coll[c] \in CollType
  BY ItemsTyped DEF Sound, ListsOK, Typed
<1>2. q \in Seq(Items) /\ IsInjective(q) /\ i \notin ToSet(q) /\ s.coll[c].size \in Nat
  BY <1>1, CollIs DEF Linked, CollType
<1>3. /\ r \in Seq(Items) /\ IsInjective(r) /\ ToSet(r) = ToSet(q) \cup {i}
      /\ \A n \in ToSet(q) : Ahead(r, n) = Ahead(q, n)
  <2> HIDE DEF q, r
  <2>1. LET w == <<i>> \o q
        IN  /\ w \in Seq(Items) /\ IsInjective(w) /\ ToSet(w) = ToSet(q) \cup {i}
            /\ \A n \in ToSet(q) : Ahead(w, n) = Ahead(q, n)
    BY <1>2, PrependIs
  <2>2. QED
    BY <2>1 DEF r
<1>4. k = [s.coll[c] EXCEPT !.order = r, !.size = s.coll[c].size + 1]
  OBVIOUS
<1> HIDE DEF r
<1>5. /\ k \in CollType /\ k.order = r /\ k.size = s.coll[c].size + 1 /\ SameFlags(s.coll[c], k)
  <2>1. s.coll[c].size + 1 \in Nat
    BY <1>2
  <2>2. QED
    BY <1>1, <1>3, <1>4, <2>1 DEF CollType, SameFlags
<1> HIDE DEF q, k
<1>6. Listed(s, t, c) /\ t.coll[c] = k
  <2>1. CollWas(s, t, c, k)
    BY <1>1, <1>5, WithCollFields
  <2> HIDE DEF t
  <2>2. QED
    BY <1>5, <2>1 DEF CollWas, Listed
<1> HIDE DEF t
<1>7. t \in States /\ t.item = s.item /\ t.link = s.link /\ t.stack = s.stack
  BY <1>6 DEF Listed
<1>8. /\ Even(t) /\ Nested(t) /\ Calls(t)
      /\ \A d \in Colls : CollLife(t, d)
      /\ \A j \in Items : (\A d \in Colls : j \in Linked(t, d) => j \in Linked(s, d)) => ItemLife(t, j)
      /\ \A d \in Colls : \A j : Valid(t, d, j) <=> Valid(s, d, j)
      /\ \A d \in Colls : d # c => /\ Linked(t, d) = Linked(s, d) /\ Members(t, d) = Members(s, d)
                                   /\ Live(t, d) = Live(s, d)
                                   /\ \A n : ToVisit(t, d, n) = ToVisit(s, d, n)
  BY <1>6, ListedIs
<1>9. Linked(t, c) = Linked(s, c) \cup {i}
  BY <1>3, <1>5, <1>6 DEF Linked, q
<1>10. \A d \in Colls, j \in Items : (j # i \/ d # c) => (j \in Linked(t, d) <=> j \in Linked(s, d))
  BY <1>8, <1>9
<1>11. Typed(t)
  <2>1. ASSUME NEW d \in Colls PROVE IsInjective(t.coll[d].order)
    <3>1. CASE d = c
      BY <1>3, <1>5, <1>6, <3>1
    <3>2. CASE d # c
      BY <1>1, <1>6, <3>2 DEF Typed, Listed
    <3>3. QED
      BY <3>1, <3>2
  <2>2. QED
    BY <1>7, <2>1 DEF Typed
<1>12. \A d \in Colls : \A n \in Linked(s, d) \cup {None} : ToVisit(t, d, n) = ToVisit(s, d, n)
  <2>1. ASSUME NEW n \in Linked(s, c) \cup {None} PROVE ToVisit(t, c, n) = ToVisit(s, c, n)
    <3>1. Ahead(r, n) = Ahead(q, n)
      <4>1. CASE n = None
        BY <4>1 DEF Ahead
      <4>2. CASE n \in Linked(s, c)
        BY <1>3, <4>2 DEF Linked, q
      <4>3. QED
        BY <4>1, <4>2
    <3>2. t.coll[c].order = r /\ s.coll[c].order = q /\ t.coll[c].destroyed = s.coll[c].destroyed
      BY <1>5, <1>6 DEF q, SameFlags
    <3>3. {j \in Ahead(t.coll[c].order, n) : Valid(t, c, j)} = {j \in Ahead(s.coll[c].order, n) : Valid(s, c, j)}
      BY <1>8, <3>1, <3>2
    <3>4. QED
      BY <3>2, <3>3 DEF ToVisit
  <2>2. ASSUME NEW d \in Colls, NEW n \in Linked(s, d) \cup {None} PROVE ToVisit(t, d, n) = ToVisit(s, d, n)
    <3>1. CASE d = c
      BY <2>1, <2>2, <3>1
    <3>2. CASE d # c
      BY <1>8, <3>2
    <3>3. QED
      BY <3>1, <3>2
  <2>3. QED
    BY <2>2
<1>13. i \notin Members(s, c) /\ Members(t, c) = Members(s, c) \cup {i}
  <2>1. Members(s, c) = {j \in Linked(s, c) : Valid(s, c, j)}
    BY DEF Members
  <2>2. Members(t, c) = {j \in Linked(t, c) : Valid(t, c, j)}
    BY <1>5, <1>6 DEF Members, SameFlags
  <2>3. QED
    BY <1>8, <1>9, <2>1, <2>2
<1>14. s.link[c][i] = NewLink
  BY <1>1 DEF ListsOK, LinksOK
<1>15. NextOK(t)
  <2>1. ASSUME NEW n \in DOMAIN s.stack, s.stack[n].next # None
        PROVE  s.stack[n].next \in Linked(t, s.stack[n].c)
    <3>1. s.stack[n] \in Frames /\ s.stack[n].next \in Linked(s, s.stack[n].c)
      BY <1>1, <2>1, StackIs DEF ListsOK, NextOK
    <3>2. s.stack[n].c \in Colls
      BY <2>1, <3>1, FrameIs
    <3>3. CASE s.stack[n].c = c
      BY <1>9, <3>1, <3>3
    <3>4. CASE s.stack[n].c # c
      BY <1>8, <3>1, <3>2, <3>4
    <3>5. QED
      BY <3>3, <3>4
  <2>2. QED
    BY <1>7, <2>1 DEF NextOK
<1>16. LinksOK(t)
  <2>1. ASSUME NEW d \in Colls, NEW j \in Items
        PROVE  /\ j \notin Linked(t, d) => t.link[d][j] = NewLink
               /\ j \in Linked(t, d) /\ t.link[d][j].destroyed => t.link[d][j].ref > 0
    <3>1. CASE d = c /\ j = i
      BY <1>7, <1>9, <1>14, <3>1 DEF NewLink
    <3>2. CASE j # i \/ d # c
      BY <1>1, <1>7, <1>10, <3>2 DEF ListsOK, LinksOK
    <3>3. QED
      BY <3>1, <3>2
  <2>2. QED
    BY <2>1 DEF LinksOK
<1>17. Sizes(t)
  <2>1. Live(t, c) = Live(s, c) \cup {i} /\ i \notin Live(s, c)
    BY <1>7, <1>9, <1>14 DEF Live, NewLink
  <2>2. s.coll[c].size = Cardinality(Live(s, c))
    BY <1>1 DEF ListsOK, Sizes
  <2>3. Cardinality(Live(t, c)) = Cardinality(Live(s, c)) + 1
    BY <1>1, <2>1, LiveIs, FS_AddElement
  <2>4. ASSUME NEW d \in Colls PROVE t.coll[d].size = Cardinality(Live(t, d))
    <3>1. CASE d = c
      BY <1>5, <1>6, <2>2, <2>3, <3>1
    <3>2. CASE d # c
      BY <1>1, <1>6, <1>8, <3>2 DEF ListsOK, Sizes, Listed
    <3>3. QED
      BY <3>1, <3>2
  <2>5. QED
    BY <2>4 DEF Sizes
<1>18. \A j \in Items : ItemLife(t, j)
  <2>1. ASSUME NEW j \in Items, j # i PROVE ItemLife(t, j)
    BY <1>8, <1>10, <2>1
  <2>2. ItemLife(s, i)
    BY DEF Sound, Alive
  <2>3. ~s.item[i].called /\ ~s.item[i].destroyed
    BY DEF Valid
  <2>4. ItemLife(t, i)
    BY <1>7, <2>2, <2>3 DEF ItemLife
  <2>5. QED
    BY <2>1, <2>4
<1>19. Swept(t)
  <2>1. ASSUME NEW n \in 1 .. Len(s.stack), s.stack[n].op = "destroy"
        PROVE  Members(t, s.stack[n].c) \subseteq ToVisit(t, s.stack[n].c, s.stack[n].next)
    <3>1. s.stack[n] \in Frames /\ s.stack[n].c \in Colls
      BY <1>1, <2>1, StackIs DEF Frames, FrameShape
    <3>2. s.coll[s.stack[n].c].called /\ CollLife(s, s.stack[n].c)
      BY <2>1, <3>1 DEF Sound, Alive, Calls, CollCall
    <3>3. s.stack[n].c # c
      BY <3>2 DEF CollLife
    <3>4. Members(s, s.stack[n].c) \subseteq ToVisit(s, s.stack[n].c, s.stack[n].next)
      BY <2>1 DEF Sound, Swept
    <3>5. QED
      BY <1>8, <3>1, <3>3, <3>4
  <2>2. QED
    BY <1>7, <2>1 DEF Swept
<1>20. Emptied(t)
  <2>1. ASSUME NEW d \in Colls, t.coll[d].freed, ~DestroyBusy, NEW j \in Linked(t, d)
        PROVE  t.item[j].destroyed \/ t.item[j].cbDestroyed
    <3>1. d # c
      BY <1>5, <1>6, <2>1 DEF SameFlags
    <3>2. s.coll[d].freed /\ j \in Linked(s, d)
      BY <1>6, <1>8, <2>1, <3>1 DEF Listed
    <3>3. QED
      BY <1>7, <2>1, <3>2 DEF Sound, Emptied
  <2>2. QED
    BY <2>1 DEF Emptied
<1>21. Sound(t, {}, {})
  BY <1>8, <1>11, <1>15, <1>16, <1>17, <1>18, <1>19, <1>20 DEF Sound, Alive, ListsOK
<1>22. Joins(s, t, c, i)
  BY <1>7, <1>8, <1>12, <1>13, <1>21 DEF Joins
<1>23. QED
  BY <1>22 DEF t, k

(* collection_movelast, which no call in progress has to do with.          *)
LEMMA MoveLastIs ==
  ASSUME NEW s, Sound(s, {}, {}), Even(s), NEW c \in Colls, NEW i \in Linked(s, c),
         \A n \in 1 .. Len(s.stack) : s.stack[n].c # c
  PROVE  Good(s, WithColl(s, c, [s.coll[c] EXCEPT !.order = Without(@, i) \o <<i>>]))
<1> DEFINE q == s.coll[c].order
           r == Without(q, i) \o <<i>>
           k == [s.coll[c] EXCEPT !.order = Without(@, i) \o <<i>>]
           t == WithColl(s, c, k)
<1>1. s \in States /\ ListsOK(s) /\ Typed(s) /\ s.coll[c] \in CollType /\ i \in Items
  BY ItemsTyped, CollIs DEF Sound, ListsOK, Typed
<1>2. q \in Seq(Items) /\ IsInjective(q) /\ i \in ToSet(q)
  BY <1>1, CollIs DEF Linked
<1>3. r \in Seq(Items) /\ IsInjective(r) /\ ToSet(r) = ToSet(q)
  <2> DEFINE w == Without(q, i)
  <2>1. w \in Seq(Items) /\ IsInjective(w) /\ ToSet(w) = ToSet(q) \ {i}
    <3> HIDE DEF q
    <3>1. QED
      BY <1>2, WithoutPos
  <2> HIDE DEF w, q
  <2>2. i \notin ToSet(w)
    BY <2>1
  <2>3. w \o <<i>> \in Seq(Items) /\ IsInjective(w \o <<i>>) /\ ToSet(w \o <<i>>) = ToSet(w) \cup {i}
    BY <1>1, <2>1, <2>2, AppendIs
  <2>4. QED
    BY <1>2, <2>1, <2>3 DEF w
<1>4. k = [s.coll[c] EXCEPT !.order = r]
  OBVIOUS
<1> HIDE DEF r
<1>5. k \in CollType /\ k.order = r /\ k.size = s.coll[c].size /\ SameFlags(s.coll[c], k)
  BY <1>1, <1>3, <1>4 DEF CollType, SameFlags
<1> HIDE DEF q, k
<1>6. Listed(s, t, c) /\ t.coll[c] = k
  <2>1. CollWas(s, t, c, k)
    BY <1>1, <1>5, WithCollFields
  <2> HIDE DEF t
  <2>2. QED
    BY <1>5, <2>1 DEF CollWas, Listed
<1> HIDE DEF t
<1>7. t \in States /\ t.item = s.item /\ t.link = s.link /\ t.stack = s.stack
  BY <1>6 DEF Listed
<1>8. /\ Even(t) /\ Nested(t) /\ Calls(t)
      /\ \A d \in Colls : CollLife(t, d)
      /\ \A j \in Items : (\A d \in Colls : j \in Linked(t, d) => j \in Linked(s, d)) => ItemLife(t, j)
      /\ \A d \in Colls : \A j : Valid(t, d, j) <=> Valid(s, d, j)
      /\ \A d \in Colls : d # c => /\ Linked(t, d) = Linked(s, d) /\ Members(t, d) = Members(s, d)
                                   /\ Live(t, d) = Live(s, d)
                                   /\ \A n : ToVisit(t, d, n) = ToVisit(s, d, n)
  BY <1>6, ListedIs
<1>9. \A d \in Colls : Linked(t, d) = Linked(s, d)
  <2>1. Linked(t, c) = Linked(s, c)
    BY <1>3, <1>5, <1>6 DEF Linked, q
  <2>2. QED
    BY <1>8, <2>1
<1>10. Typed(t)
  <2>1. ASSUME NEW d \in Colls PROVE IsInjective(t.coll[d].order)
    <3>1. CASE d = c
      BY <1>3, <1>5, <1>6, <3>1
    <3>2. CASE d # c
      BY <1>1, <1>6, <3>2 DEF Typed, Listed
    <3>3. QED
      BY <3>1, <3>2
  <2>2. QED
    BY <1>7, <2>1 DEF Typed
<1>11. SameMembers(s, t)
  <2>1. Members(t, c) = Members(s, c)
    <3>1. {j \in Linked(t, c) : Valid(t, c, j)} = {j \in Linked(s, c) : Valid(s, c, j)}
      BY <1>8, <1>9
    <3>2. QED
      BY <1>5, <1>6, <3>1 DEF Members, SameFlags
  <2>2. QED
    BY <1>8, <2>1 DEF SameMembers
<1>12. \A n \in 1 .. Len(s.stack) : s.stack[n].c \in Colls =>
           ToVisit(t, s.stack[n].c, s.stack[n].next) = ToVisit(s, s.stack[n].c, s.stack[n].next)
  BY <1>8
<1>13. NextOK(t)
  <2>1. ASSUME NEW n \in DOMAIN s.stack, s.stack[n].next # None
        PROVE  s.stack[n].next \in Linked(t, s.stack[n].c)
    <3>1. s.stack[n] \in Frames /\ s.stack[n].next \in Linked(s, s.stack[n].c)
      BY <1>1, <2>1, StackIs DEF ListsOK, NextOK
    <3>2. s.stack[n].c \in Colls
      BY <2>1, <3>1, FrameIs
    <3>3. QED
      BY <1>9, <3>1, <3>2
  <2>2. QED
    BY <1>7, <2>1 DEF NextOK
<1>14. LinksOK(t)
  BY <1>1, <1>7, <1>9 DEF ListsOK, LinksOK
<1>15. Sizes(t)
  <2>1. ASSUME NEW d \in Colls PROVE t.coll[d].size = Cardinality(Live(t, d))
    <3>1. Live(t, d) = Live(s, d)
      BY <1>7, <1>9 DEF Live
    <3>2. t.coll[d].size = s.coll[d].size
      BY <1>5, <1>6 DEF Listed
    <3>3. QED
      BY <1>1, <3>1, <3>2 DEF ListsOK, Sizes
  <2>2. QED
    BY <2>1 DEF Sizes
<1>16. \A j \in Items : ItemLife(t, j)
  BY <1>8, <1>9
<1>17. Swept(t)
  <2>1. ASSUME NEW n \in 1 .. Len(s.stack), s.stack[n].op = "destroy"
        PROVE  Members(t, s.stack[n].c) \subseteq ToVisit(t, s.stack[n].c, s.stack[n].next)
    <3>1. s.stack[n].c \in Colls
      BY <1>1, <2>1, StackIs DEF Frames, FrameShape
    <3>2. Members(s, s.stack[n].c) \subseteq ToVisit(s, s.stack[n].c, s.stack[n].next)
      BY <2>1 DEF Sound, Swept
    <3>3. QED
      BY <1>11, <1>12, <2>1, <3>1, <3>2 DEF SameMembers
  <2>2. QED
    BY <1>7, <2>1 DEF Swept
<1>18. Emptied(t)
  <2>1. \A d \in Colls : t.coll[d].freed = s.coll[d].freed
    BY <1>5, <1>6 DEF Listed, SameFlags
  <2>2. QED
    BY <1>7, <1>9, <2>1 DEF Sound, Emptied
<1>19. Sound(t, {}, {})
  BY <1>8, <1>10, <1>13, <1>14, <1>15, <1>16, <1>17, <1>18 DEF Sound, Alive, ListsOK
<1>20. Leaves(s, t)
  <2>1. ASSUME NEW n \in 1 .. Len(s.stack), s.stack[n].c \in Colls
        PROVE  ToVisit(t, s.stack[n].c, s.stack[n].next)
               = ToVisit(s, s.stack[n].c, s.stack[n].next) \cap Members(t, s.stack[n].c)
    <3>1. ToVisit(s, s.stack[n].c, s.stack[n].next) \subseteq Members(s, s.stack[n].c)
      BY <1>1, <2>1, VisitsMembers
    <3>2. QED
      BY <1>11, <1>12, <2>1, <3>1 DEF SameMembers
  <2>2. Len(s.stack) \in Nat /\ Len(s.stack) <= Len(s.stack)
    BY <1>1, StackIs
  <2>3. \A n \in Len(s.stack) + 1 .. Len(t.stack) : ~Running(t.stack[n])
    BY <1>7, <2>2
  <2>4. \A d \in Colls : Members(t, d) \subseteq Members(s, d)
    BY <1>11 DEF SameMembers
  <2>5. QED
    BY <1>7, <2>1, <2>2, <2>3, <2>4 DEF Leaves, SameCall
<1>21. Good(s, t)
  BY <1>8, <1>19, <1>20 DEF Good
<1>22. QED
  BY <1>21 DEF t, k

(*------------------------------- the invariant ----------------------------*)
Inv == Sound(State, {}, {}) /\ Even(State)

LEMMA StateIs ==
  State.coll = coll /\ State.item = item /\ State.link = link /\ State.stack = stack
BY DEF State

LEMMA InitIs ==
  ASSUME Init
  PROVE  Inv
<1> DEFINE s == State
<1>1. /\ s.coll = [c \in Colls |-> NewColl] /\ s.item = [i \in Items |-> NewItem]
      /\ s.link = [c \in Colls |-> [i \in Items |-> NewLink]] /\ s.stack = <<>>
  BY StateIs DEF Init
<1>2. NewColl \in CollType /\ NewItem \in ItemType /\ NewLink \in LinkType
  BY DEF NewColl, NewItem, NewLink, CollType, ItemType, LinkType
<1>3. s \in States
  <2>1. /\ coll \in [Colls -> CollType] /\ item \in [Items -> ItemType]
        /\ link \in [Colls -> [Items -> LinkType]] /\ stack \in Seq(Frames)
    <3>1. <<>> \in Seq(Frames)
      OBVIOUS
    <3>2. /\ coll = [c \in Colls |-> NewColl] /\ item = [i \in Items |-> NewItem]
          /\ link = [c \in Colls |-> [i \in Items |-> NewLink]] /\ stack = <<>>
      BY DEF Init
    <3>3. QED
      BY <1>2, <3>1, <3>2
  <2>2. QED
    BY <2>1 DEF State, States
<1> HIDE DEF s
<1>4. ToSet(<<>>) = {} /\ IsInjective(<<>>) /\ Len(s.stack) = 0
  BY <1>1 DEF ToSet, IsInjective
<1>5. \A c \in Colls : s.coll[c] = NewColl /\ Linked(s, c) = {} /\ Live(s, c) = {}
  BY <1>1, <1>4 DEF Linked, Live, NewColl
<1>6. \A i \in Items : s.item[i] = NewItem /\ \A c \in Colls : s.link[c][i] = NewLink
  BY <1>1
<1>7. ListsOK(s)
  <2>1. Typed(s)
    BY <1>3, <1>4, <1>5 DEF Typed, NewColl
  <2>2. NextOK(s)
    BY <1>1 DEF NextOK
  <2>3. LinksOK(s)
    BY <1>5, <1>6 DEF LinksOK
  <2>4. Sizes(s)
    <3>1. Cardinality({}) = 0
      BY FS_EmptySet
    <3>2. \A c \in Colls : s.coll[c].size = 0
      BY <1>5 DEF NewColl
    <3>3. QED
      BY <1>5, <3>1, <3>2 DEF Sizes
  <2>5. QED
    BY <2>1, <2>2, <2>3, <2>4 DEF ListsOK
<1>8. Alive(s, {}, {}) /\ Swept(s) /\ Emptied(s) /\ Nested(s)
  <2>1. \A i \in Items : ItemLife(s, i)
    BY <1>6 DEF ItemLife, NewItem
  <2>2. \A c \in Colls : CollLife(s, c)
    BY <1>5 DEF CollLife, NewColl
  <2>3. Calls(s) /\ Swept(s) /\ Nested(s)
    BY <1>4 DEF Calls, Swept, Nested
  <2>4. Emptied(s)
    BY <1>5 DEF Emptied, NewColl
  <2>5. QED
    BY <2>1, <2>2, <2>3, <2>4 DEF Alive
<1>9. Even(s)
  <2>1. /\ \A c \in Colls : CollCount(s, c) = 0
        /\ \A i \in Items : ItemCount(s, i) = 0 /\ CbCount(s, i) = 0
        /\ \A c \in Colls, i \in Items : LinkCount(s, c, i) = 0
    BY <1>3, <1>4, CountsAreNat
  <2>2. AtLeast(0, 0 + 0)
    BY DEF AtLeast
  <2>3. \A x, y : Owed(x, y, 0) = 0
    BY DEF Owed
  <2>4. /\ \A c \in Colls : s.coll[c].ref = 0
        /\ \A i \in Items : s.item[i].ref = 0 /\ s.item[i].cbRef = 0
        /\ \A c \in Colls, i \in Items : s.link[c][i].ref = 0
    BY <1>5, <1>6 DEF NewColl, NewItem, NewLink
  <2>5. QED
    BY <2>1, <2>2, <2>3, <2>4 DEF Even, Refs
<1>10. QED
  BY <1>7, <1>8, <1>9 DEF Inv, Sound, s

(* An action that becomes a state becomes that state.                      *)
LEMMA BecomeIs ==
  ASSUME NEW t, t \in States, Become(t)
  PROVE  State' = t
<1>1. State' = [coll |-> t.coll, item |-> t.item, link |-> t.link, stack |-> t.stack]
  BY DEF Become, State
<1>2. State' \in States
  BY <1>1 DEF States
<1>3. State'.coll = t.coll /\ State'.item = t.item /\ State'.link = t.link /\ State'.stack = t.stack
  BY <1>1
<1>4. QED
  BY <1>2, <1>3, SameState

(*-------------------------------- iterations ------------------------------*)
(* What a call that iterates is to Iterations, and what becomes of the     *)
(* iterations from s to t.                                                 *)
View(s, f) == [c |-> f.c, todo |-> ToVisit(s, f.c, f.next), stopped |-> f.pc = "stop"]
Left(s, t, stop) ==
    /\ \A c \in Colls : Members(t, c) \subseteq Members(s, c)
    /\ DOMAIN Runs(t) = DOMAIN Runs(s)
    /\ \A n \in DOMAIN Runs(s) : LET r == Runs(s)[n] IN
           Runs(t)[n] = [c |-> r.c, todo |-> r.todo \cap Members(t, r.c),
                         stopped |-> r.stopped \/ (stop /\ \A m \in DOMAIN Runs(s) : m <= n)]
RunType == [c : Colls, todo : SUBSET Items, stopped : BOOLEAN]

LEMMA RunsAre ==
  ASSUME NEW s, ListsOK(s)
  PROVE  /\ DOMAIN Runs(s) = {n \in 1 .. Len(s.stack) : Running(s.stack[n])}
         /\ \A n \in DOMAIN Runs(s) :
                /\ n \in 1 .. Len(s.stack) /\ s.stack[n] \in Frames /\ s.stack[n].c \in Colls
                /\ Runs(s)[n] = View(s, s.stack[n]) /\ Runs(s)[n] \in RunType
                /\ Runs(s)[n].todo \subseteq Members(s, Runs(s)[n].c)
         /\ Runs(s) = [n \in DOMAIN Runs(s) |-> Runs(s)[n]]
<1>1. s \in States
  BY DEF ListsOK, Typed
<1>2. DOMAIN s.stack = 1 .. Len(s.stack) /\ \A n \in 1 .. Len(s.stack) : s.stack[n] \in Frames
  BY <1>1, StackIs
<1>3. /\ DOMAIN Runs(s) = {n \in 1 .. Len(s.stack) : Running(s.stack[n])}
      /\ Runs(s) = [n \in DOMAIN Runs(s) |-> Runs(s)[n]]
      /\ \A n \in DOMAIN Runs(s) : Runs(s)[n] = View(s, s.stack[n])
  BY <1>2 DEF Runs, View
<1>4. ASSUME NEW n \in DOMAIN Runs(s)
      PROVE  /\ n \in 1 .. Len(s.stack) /\ s.stack[n] \in Frames /\ s.stack[n].c \in Colls
             /\ Runs(s)[n] \in RunType
             /\ Runs(s)[n].todo \subseteq Members(s, Runs(s)[n].c)
  <2>1. n \in 1 .. Len(s.stack) /\ s.stack[n] \in Frames /\ Running(s.stack[n])
    BY <1>2, <1>3, <1>4
  <2>2. s.stack[n].c \in Colls
    BY <2>1 DEF Frames, FrameShape, Running
  <2>3. ToVisit(s, s.stack[n].c, s.stack[n].next) \subseteq Members(s, s.stack[n].c)
    BY <2>1, <2>2, VisitsMembers
  <2>4. Members(s, s.stack[n].c) \subseteq Items
    BY <2>2, CollIs DEF Members, ListsOK
  <2>5. View(s, s.stack[n]) \in RunType /\ View(s, s.stack[n]).c = s.stack[n].c
        /\ View(s, s.stack[n]).todo = ToVisit(s, s.stack[n].c, s.stack[n].next)
    BY <2>2, <2>3, <2>4 DEF View, RunType
  <2>6. QED
    BY <1>3, <1>4, <2>1, <2>2, <2>3, <2>5
<1>5. QED
  BY <1>3, <1>4

(* Items leave, and every iteration.                                       *)
LEMMA LeftIs ==
  ASSUME NEW s, NEW t, ListsOK(s), ListsOK(t), Leaves(s, t)
  PROVE  Left(s, t, FALSE)
<1>1. Len(s.stack) \in Nat /\ Len(t.stack) \in Nat
  BY StackIs DEF ListsOK, Typed
<1>2. \A n \in 1 .. Len(s.stack) : n \in 1 .. Len(t.stack) /\ SameCall(s.stack[n], t.stack[n])
  BY <1>1 DEF Leaves
<1>3. ASSUME NEW n \in 1 .. Len(t.stack), Running(t.stack[n]) PROVE n \in 1 .. Len(s.stack)
  BY <1>1, <1>3 DEF Leaves
<1>4. DOMAIN Runs(t) = DOMAIN Runs(s)
  <2>1. \A n \in 1 .. Len(s.stack) : Running(t.stack[n]) <=> Running(s.stack[n])
    BY <1>2 DEF SameCall, Running
  <2>2. {n \in 1 .. Len(t.stack) : Running(t.stack[n])} = {n \in 1 .. Len(s.stack) : Running(s.stack[n])}
    BY <1>2, <1>3, <2>1
  <2>3. QED
    BY <2>2, RunsAre
<1>5. ASSUME NEW n \in DOMAIN Runs(s)
      PROVE  LET r == Runs(s)[n] IN
             Runs(t)[n] = [c |-> r.c, todo |-> r.todo \cap Members(t, r.c),
                           stopped |-> r.stopped \/ (FALSE /\ \A m \in DOMAIN Runs(s) : m <= n)]
  <2> DEFINE f == s.stack[n]
             g == t.stack[n]
  <2>1. /\ n \in 1 .. Len(s.stack) /\ f.c \in Colls
        /\ Runs(s)[n] = View(s, f) /\ Runs(t)[n] = View(t, g)
    BY <1>4, <1>5, RunsAre
  <2>2. g.c = f.c /\ g.pc = f.pc /\ ToVisit(t, f.c, g.next) = ToVisit(s, f.c, f.next) \cap Members(t, f.c)
    BY <2>1 DEF Leaves, SameCall
  <2> HIDE DEF f, g
  <2>3. (f.pc = "stop" \/ (FALSE /\ \A m \in DOMAIN Runs(s) : m <= n)) = (f.pc = "stop")
    OBVIOUS
  <2> DEFINE r == Runs(s)[n]
             st == r.stopped \/ (FALSE /\ \A m \in DOMAIN Runs(s) : m <= n)
  <2>4. r.c = f.c /\ r.todo = ToVisit(s, f.c, f.next) /\ r.stopped = (f.pc = "stop")
    BY <2>1 DEF View
  <2>5. Runs(t)[n] = [c |-> f.c, todo |-> r.todo \cap Members(t, f.c), stopped |-> f.pc = "stop"]
    BY <2>1, <2>2, <2>4 DEF View
  <2>6. st = (f.pc = "stop")
    BY <2>3, <2>4
  <2> HIDE DEF r, st
  <2>7. Runs(t)[n] = [c |-> r.c, todo |-> r.todo \cap Members(t, r.c), stopped |-> st]
    BY <2>4, <2>5, <2>6
  <2>8. QED
    BY <2>7 DEF r, st
<1>6. \A c \in Colls : Members(t, c) \subseteq Members(s, c)
  BY DEF Leaves
<1>7. QED
  BY <1>4, <1>5, <1>6 DEF Left

LEMMA SameRuns ==
  ASSUME NEW s, NEW t, ListsOK(s), ListsOK(t), Leaves(s, t), SameMembers(s, t)
  PROVE  Runs(t) = Runs(s)
<1>1. Left(s, t, FALSE)
  BY LeftIs
<1>2. DOMAIN Runs(t) = DOMAIN Runs(s)
  BY <1>1 DEF Left
<1>3. ASSUME NEW n \in DOMAIN Runs(s) PROVE Runs(t)[n] = Runs(s)[n]
  <2> DEFINE r == Runs(s)[n]
  <2>1. /\ Runs(t)[n] = [c |-> r.c, todo |-> r.todo \cap Members(t, r.c),
                         stopped |-> r.stopped \/ (FALSE /\ \A m \in DOMAIN Runs(s) : m <= n)]
    BY <1>1, <1>3 DEF Left
  <2>2. r \in RunType /\ r.todo \subseteq Members(s, r.c)
    BY <1>3, RunsAre
  <2> HIDE DEF r
  <2>3. r.todo \cap Members(t, r.c) = r.todo
    BY <2>2 DEF SameMembers, RunType
  <2>4. (r.stopped \/ (FALSE /\ \A m \in DOMAIN Runs(s) : m <= n)) = r.stopped
    BY <2>2 DEF RunType
  <2>5. r = [c |-> r.c, todo |-> r.todo, stopped |-> r.stopped]
    BY <2>2 DEF RunType
  <2>6. Runs(t)[n] = r
    BY <2>1, <2>3, <2>4, <2>5
  <2>7. QED
    BY <2>6 DEF r
<1>4. /\ Runs(s) = [n \in DOMAIN Runs(s) |-> Runs(s)[n]]
      /\ Runs(t) = [n \in DOMAIN Runs(t) |-> Runs(t)[n]]
  BY RunsAre
<1>5. QED
  BY <1>2, <1>3, <1>4

(* A call that is on top, above those of s.                                *)
LEMMA PushRuns ==
  ASSUME NEW s, ListsOK(s), NEW f \in Frames, ListsOK(Push(s, f))
  PROVE  LET n == Len(s.stack) + 1
             t == Push(s, f)
         IN  /\ \A m \in DOMAIN Runs(s) : m < n
             /\ ~Running(f) => Runs(t) = Runs(s)
             /\ Running(f) =>
                    /\ DOMAIN Runs(t) = DOMAIN Runs(s) \cup {n}
                    /\ Runs(t)[n] = View(s, f)
                    /\ \A m \in DOMAIN Runs(s) : Runs(t)[m] = Runs(s)[m]
<1> DEFINE n == Len(s.stack) + 1
           t == Push(s, f)
<1>1. s \in States /\ Len(s.stack) \in Nat
  BY StackIs DEF ListsOK, Typed
<1>2. /\ Len(t.stack) = n /\ t.stack[n] = f
      /\ \A m \in 1 .. Len(s.stack) : t.stack[m] = s.stack[m]
  BY <1>1, PushIs
<1>3. \A c, m : ToVisit(t, c, m) = ToVisit(s, c, m)
  BY <1>1, PushIs DEF ToVisit, Valid
<1>4. \A g : View(t, g) = View(s, g)
  BY <1>3 DEF View
<1>5. /\ DOMAIN Runs(s) = {m \in 1 .. Len(s.stack) : Running(s.stack[m])}
      /\ \A m \in DOMAIN Runs(s) : Runs(s)[m] = View(s, s.stack[m])
      /\ Runs(s) = [m \in DOMAIN Runs(s) |-> Runs(s)[m]]
  BY RunsAre
<1>6. /\ DOMAIN Runs(t) = {m \in 1 .. Len(t.stack) : Running(t.stack[m])}
      /\ \A m \in DOMAIN Runs(t) : Runs(t)[m] = View(t, t.stack[m])
      /\ Runs(t) = [m \in DOMAIN Runs(t) |-> Runs(t)[m]]
  BY RunsAre
<1> HIDE DEF t
<1>7. \A m \in DOMAIN Runs(s) : m \in 1 .. Len(s.stack) /\ m < n
  BY <1>1, <1>5
<1>8. 1 .. n = (1 .. Len(s.stack)) \cup {n} /\ n \notin 1 .. Len(s.stack)
  BY <1>1
<1> HIDE DEF n
<1>9. ~Running(f) => DOMAIN Runs(t) = DOMAIN Runs(s)
  BY <1>2, <1>5, <1>6, <1>8
<1>10. Running(f) => DOMAIN Runs(t) = DOMAIN Runs(s) \cup {n}
  BY <1>2, <1>5, <1>6, <1>8
<1>11. \A m \in DOMAIN Runs(s) : m \in DOMAIN Runs(t) => Runs(t)[m] = Runs(s)[m]
  BY <1>2, <1>4, <1>5, <1>6, <1>7
<1>12. ~Running(f) => Runs(t) = Runs(s)
  BY <1>5, <1>6, <1>9, <1>11
<1>13. Running(f) => Runs(t)[n] = View(s, f)
  BY <1>2, <1>4, <1>6, <1>10
<1>14. QED
  BY <1>7, <1>10, <1>11, <1>12, <1>13 DEF n, t

(*---------------------------------- steps ---------------------------------*)
LEMMA MappingIs ==
  /\ members = [c \in Colls |-> Members(State, c)] /\ running = Runs(State)
  /\ members' = [c \in Colls |-> Members(State', c)] /\ running' = Runs(State')
BY DEF members, running

LEMMA LeaveStep ==
  ASSUME ListsOK(State), ListsOK(State'), NEW stop \in BOOLEAN, Left(State, State', stop)
  PROVE  Abs!Next
<1>1. /\ members' \in [Colls -> SUBSET Items]
      /\ \A c \in Colls : members'[c] \subseteq members[c]
  <2>1. \A c \in Colls : Members(State', c) \subseteq Items
    BY CollIs DEF Members, ListsOK
  <2>2. QED
    BY <2>1, MappingIs DEF Left
<1>2. /\ Runs(State) = [n \in DOMAIN Runs(State) |-> Runs(State)[n]]
      /\ Runs(State') = [n \in DOMAIN Runs(State') |-> Runs(State')[n]]
      /\ \A n \in DOMAIN Runs(State) : Runs(State)[n] \in RunType
  BY RunsAre
<1>3. ASSUME NEW n \in DOMAIN running
      PROVE  running'[n] = [running[n] EXCEPT !.todo = @ \cap members'[running[n].c],
                                              !.stopped = @ \/ (stop /\ Abs!Deepest(n))]
  <2> DEFINE r == running[n]
             todo == r.todo \cap members'[r.c]
             st == r.stopped \/ (stop /\ Abs!Deepest(n))
  <2>1. n \in DOMAIN Runs(State) /\ r = Runs(State)[n] /\ r \in RunType
    BY <1>2, <1>3, MappingIs
  <2>2. members'[r.c] = Members(State', r.c)
    BY <2>1, MappingIs DEF RunType
  <2>3. Runs(State')[n] = [c |-> r.c, todo |-> r.todo \cap Members(State', r.c),
                           stopped |-> r.stopped \/ (stop /\ \A m \in DOMAIN Runs(State) : m <= n)]
    BY <2>1 DEF Left
  <2>4. st = (r.stopped \/ (stop /\ \A m \in DOMAIN Runs(State) : m <= n))
    BY <2>1, MappingIs DEF Abs!Deepest
  <2>5. running'[n] = [c |-> r.c, todo |-> todo, stopped |-> st]
    <3> HIDE DEF r
    <3>1. QED
      BY <2>2, <2>3, <2>4, MappingIs
  <2>0. todo \in SUBSET Items /\ st \in BOOLEAN
    BY <2>1 DEF RunType
  <2> HIDE DEF r, todo, st
  <2>6. [r EXCEPT !.todo = todo, !.stopped = st] = [c |-> r.c, todo |-> todo, stopped |-> st]
    <3> DEFINE a == [r EXCEPT !.todo = todo, !.stopped = st]
               b == [c |-> r.c, todo |-> todo, stopped |-> st]
    <3>1. a \in RunType /\ b \in RunType
      BY <2>0, <2>1 DEF RunType
    <3>2. a.c = b.c /\ a.todo = b.todo /\ a.stopped = b.stopped
      BY <2>1 DEF RunType
    <3> HIDE DEF a, b
    <3>3. a = b
      BY <3>1, <3>2 DEF RunType
    <3>4. QED
      BY <3>3 DEF a, b
  <2>7. running'[n] = [r EXCEPT !.todo = todo, !.stopped = st]
    BY <2>5, <2>6
  <2>8. QED
    BY <2>7 DEF r, todo, st
<1>4. DOMAIN running' = DOMAIN running
  BY MappingIs DEF Left
<1>5. running' = [n \in DOMAIN running |->
          [running[n] EXCEPT !.todo = @ \cap members'[running[n].c],
                             !.stopped = @ \/ (stop /\ Abs!Deepest(n))]]
  <2>1. running' = [n \in DOMAIN running' |-> running'[n]]
    BY <1>2, MappingIs
  <2>2. QED
    BY <1>3, <1>4, <2>1
<1>6. Abs!Leave(stop)
  BY <1>1, <1>5 DEF Abs!Leave
<1>7. QED
  BY <1>6 DEF Abs!Next

LEMMA GoodStep ==
  ASSUME Inv, Good(State, State')
  PROVE  Inv' /\ Abs!Next
<1>1. ListsOK(State) /\ ListsOK(State')
  BY DEF Inv, Good, Sound
<1>2. Left(State, State', FALSE) /\ FALSE \in BOOLEAN
  BY <1>1, LeftIs DEF Good
<1>3. QED
  BY <1>1, <1>2, LeaveStep DEF Inv, Good

(* A call that does not iterate has ended.                                 *)
LEMMA PopStep ==
  ASSUME Inv, stack # <<>>, ~Running(Top(State)), Good(Pop(State), State')
  PROVE  Inv' /\ Abs!Next
<1> DEFINE s == State
           p == Pop(s)
<1>1. s \in States /\ ListsOK(s) /\ ListsOK(State') /\ s.stack # <<>>
  BY StateIs DEF Inv, Good, Sound, ListsOK, Typed
<1> HIDE DEF s
<1>2. ListsOK(p) /\ \A c : Members(p, c) = Members(s, c)
  BY <1>1, PopLists
<1>3. Top(s) \in Frames /\ s = Push(p, Top(s))
  BY <1>1, PopIs
<1>4. Good(p, State') /\ ~Running(Top(s))
  BY DEF s
<1> HIDE DEF p
<1>5. Runs(s) = Runs(p)
  BY <1>1, <1>2, <1>3, <1>4, PushRuns
<1>6. Left(p, State', FALSE)
  BY <1>1, <1>2, <1>4, LeftIs DEF Good
<1>7. Left(s, State', FALSE) /\ FALSE \in BOOLEAN
  BY <1>2, <1>5, <1>6 DEF Left
<1>8. QED
  BY <1>1, <1>4, <1>7, LeaveStep DEF Inv, Good, s

LEMMA JoinStep ==
  ASSUME Inv, NEW c \in Colls, NEW i \in Items, Joins(State, State', c, i)
  PROVE  Inv' /\ Abs!Next
<1> DEFINE s == State
           t == State'
<1>1. ListsOK(s) /\ ListsOK(t) /\ t.stack = s.stack /\ Inv'
  BY DEF Inv, Joins, Sound
<1>2. /\ DOMAIN Runs(s) = {n \in 1 .. Len(s.stack) : Running(s.stack[n])}
      /\ \A n \in DOMAIN Runs(s) : /\ n \in 1 .. Len(s.stack) /\ s.stack[n].c \in Colls
                                   /\ Runs(s)[n] = View(s, s.stack[n])
      /\ Runs(s) = [n \in DOMAIN Runs(s) |-> Runs(s)[n]]
  BY <1>1, RunsAre
<1>3. /\ DOMAIN Runs(t) = {n \in 1 .. Len(t.stack) : Running(t.stack[n])}
      /\ \A n \in DOMAIN Runs(t) : Runs(t)[n] = View(t, t.stack[n])
      /\ Runs(t) = [n \in DOMAIN Runs(t) |-> Runs(t)[n]]
  BY <1>1, RunsAre
<1> HIDE DEF s, t
<1>4. Joins(s, t, c, i)
  BY DEF s, t
<1>5. DOMAIN Runs(t) = DOMAIN Runs(s)
  BY <1>1, <1>2, <1>3
<1>6. ASSUME NEW n \in DOMAIN Runs(s) PROVE Runs(t)[n] = Runs(s)[n]
  <2>1. s.stack[n].next \in Linked(s, s.stack[n].c) \cup {None}
    BY <1>1, <1>2, <1>6, VisitsMembers
  <2>2. ToVisit(t, s.stack[n].c, s.stack[n].next) = ToVisit(s, s.stack[n].c, s.stack[n].next)
    BY <1>2, <1>4, <1>6, <2>1 DEF Joins
  <2>3. View(t, s.stack[n]) = View(s, s.stack[n])
    BY <2>2 DEF View
  <2>4. QED
    BY <1>1, <1>2, <1>3, <1>5, <1>6, <2>3
<1>7. Runs(t) = Runs(s)
  BY <1>2, <1>3, <1>5, <1>6
<1>8. running' = running
  BY <1>7, MappingIs DEF s, t
<1>9. /\ members = [d \in Colls |-> Members(s, d)] /\ members' = [d \in Colls |-> Members(t, d)]
  BY MappingIs DEF s, t
<1>10. i \notin members[c] /\ members' = [members EXCEPT ![c] = @ \cup {i}]
  BY <1>4, <1>9 DEF Joins
<1>11. Abs!Join(c, i)
  BY <1>8, <1>10 DEF Abs!Join
<1>12. QED
  BY <1>1, <1>11 DEF Abs!Next

LEMMA BeginStep ==
  ASSUME Inv, NEW c \in Colls, NEW u, NEW f, Loops(State, u, f, c), Running(f),
         Len(stack) < MaxDepth, State' = Push(u, f)
  PROVE  Inv' /\ Abs!Next
<1> DEFINE s == State
           t == Push(u, f)
           n == Len(u.stack) + 1
<1>1. /\ ListsOK(s) /\ ListsOK(t) /\ ListsOK(u) /\ Inv' /\ u \in States
  BY DEF Inv, Loops, Sound, ListsOK, Typed
<1>2. n \in 1 .. MaxDepth
  <2>1. Len(u.stack) = Len(stack) /\ Len(u.stack) \in Nat
    BY <1>1, StackIs, StateIs DEF Loops
  <2>2. QED
    BY <2>1, CollectionAssumption
<1> HIDE DEF s
<1>3. Loops(s, u, f, c)
  BY DEF s
<1>4. Runs(u) = Runs(s)
  BY <1>1, <1>3, SameRuns DEF Loops
<1>5. /\ \A m \in DOMAIN Runs(u) : m < n
      /\ DOMAIN Runs(t) = DOMAIN Runs(u) \cup {n}
      /\ Runs(t)[n] = View(u, f)
      /\ \A m \in DOMAIN Runs(u) : Runs(t)[m] = Runs(u)[m]
  BY <1>1, <1>3, PushRuns DEF Loops
<1>6. Runs(t) = [m \in DOMAIN Runs(t) |-> Runs(t)[m]]
  BY <1>1, RunsAre
<1>7. \A d \in Colls : Members(t, d) = Members(s, d) /\ Members(u, d) = Members(s, d)
  <2>1. \A d \in Colls : Members(t, d) = Members(u, d)
    BY <1>1, PushIs, <1>3, SameSets DEF Loops
  <2>2. QED
    BY <1>3, <2>1 DEF Loops, SameMembers
<1>8. View(u, f) = [c |-> c, todo |-> Members(s, c), stopped |-> FALSE]
  <2>1. f.c = c /\ (f.pc = "stop") = FALSE /\ ToVisit(u, f.c, f.next) = Members(s, c)
    BY <1>3, <1>7 DEF Loops
  <2>2. QED
    BY <2>1 DEF View
<1> HIDE DEF t, n
<1>9. /\ members = [d \in Colls |-> Members(s, d)] /\ members' = [d \in Colls |-> Members(t, d)]
      /\ running = Runs(s) /\ running' = Runs(t)
  BY MappingIs DEF s, t
<1>10. members' = members /\ members[c] = Members(s, c)
  BY <1>7, <1>9
<1>11. running' = [m \in DOMAIN running \cup {n} |->
           IF m = n THEN [c |-> c, todo |-> members[c], stopped |-> FALSE] ELSE running[m]]
  BY <1>4, <1>5, <1>6, <1>8, <1>9, <1>10
<1>12. Abs!Begin(n, c)
  BY <1>4, <1>5, <1>9, <1>10, <1>11 DEF Abs!Begin
<1>13. QED
  BY <1>1, <1>2, <1>12 DEF Abs!Next

LEMMA VisitStep ==
  ASSUME Inv, stack # <<>>, Running(Top(State)), Top(State).pc = "next", NEW u, NEW g, NEW x,
         Visits(State, u, g, x), State' = Push(u, g)
  PROVE  Inv' /\ Abs!Next
<1> DEFINE s == State
           f == Top(s)
           p == Pop(s)
           t == Push(u, g)
           n == Len(u.stack) + 1
<1>1. /\ ListsOK(s) /\ ListsOK(t) /\ ListsOK(u) /\ Inv' /\ s \in States /\ u \in States
      /\ s.stack # <<>>
  BY StateIs DEF Inv, Visits, Sound, ListsOK, Typed
<1>2. Visits(s, u, g, x) /\ Running(f) /\ f.pc = "next"
  OBVIOUS
<1>3. /\ members = [d \in Colls |-> Members(s, d)] /\ members' = [d \in Colls |-> Members(t, d)]
      /\ running = Runs(s) /\ running' = Runs(t)
  BY MappingIs
<1>4. Nested(s)
  BY DEF Inv, Sound
<1> HIDE DEF s
<1>5. /\ ListsOK(p) /\ \A d : Members(p, d) = Members(s, d)
      /\ \A d, m : ToVisit(p, d, m) = ToVisit(s, d, m)
  BY <1>1, PopLists
<1>6. /\ f \in Frames /\ s = Push(p, f) /\ Len(s.stack) \in Nat \ {0} /\ Len(p.stack) = Len(s.stack) - 1
      /\ f = s.stack[Len(s.stack)]
  BY <1>1, PopIs
<1>7. Runs(u) = Runs(p)
  BY <1>1, <1>2, <1>5, SameRuns DEF Visits
<1>8. n = Len(s.stack) /\ n \in 1 .. MaxDepth
  <2>1. n = Len(s.stack)
    BY <1>2, <1>6 DEF Visits
  <2>2. n \in 1 .. Len(s.stack) /\ s.stack[n] = f
    BY <1>6, <2>1
  <2>3. n <= MaxDepth
    BY <1>2, <1>4, <2>2 DEF Nested
  <2>4. QED
    BY <1>6, <2>1, <2>3, CollectionAssumption
<1>9. x \in ToVisit(s, f.c, f.next) /\ ToVisit(u, g.c, g.next) = ToVisit(s, f.c, f.next) \ {x}
      /\ g.c = f.c /\ g.pc = "call" /\ g.op = f.op /\ g \in Frames
  BY <1>2 DEF Visits
<1> HIDE DEF f, p
<1>10. /\ \A m \in DOMAIN Runs(p) : m < n
       /\ DOMAIN Runs(s) = DOMAIN Runs(p) \cup {n}
       /\ Runs(s)[n] = View(p, f)
       /\ \A m \in DOMAIN Runs(p) : Runs(s)[m] = Runs(p)[m]
  <2>1. Len(p.stack) + 1 = n
    BY <1>6, <1>8
  <2> HIDE DEF n
  <2>2. QED
    BY <1>1, <1>2, <1>5, <1>6, <2>1, PushRuns
<1>11. /\ DOMAIN Runs(t) = DOMAIN Runs(u) \cup {n}
       /\ Runs(t)[n] = View(u, g)
       /\ \A m \in DOMAIN Runs(u) : Runs(t)[m] = Runs(u)[m]
  <2>1. Running(g)
    BY <1>2, <1>9 DEF Running
  <2>2. QED
    BY <1>1, <1>9, <2>1, PushRuns
<1>12. /\ Runs(t) = [m \in DOMAIN Runs(t) |-> Runs(t)[m]]
       /\ Runs(s) = [m \in DOMAIN Runs(s) |-> Runs(s)[m]]
  BY <1>1, RunsAre
<1>13. View(p, f) = [c |-> f.c, todo |-> ToVisit(s, f.c, f.next), stopped |-> FALSE]
  <2>1. (f.pc = "stop") = FALSE
    BY <1>2
  <2>2. QED
    BY <1>5, <2>1 DEF View
<1>14. View(u, g) = [c |-> f.c, todo |-> ToVisit(s, f.c, f.next) \ {x}, stopped |-> FALSE]
  <2>1. (g.pc = "stop") = FALSE
    BY <1>9
  <2>2. QED
    BY <1>9, <2>1 DEF View
<1>15. \A d \in Colls : Members(t, d) = Members(s, d)
  <2>1. \A d \in Colls : Members(t, d) = Members(u, d)
    BY <1>1, <1>9, PushIs, SameSets
  <2>2. QED
    BY <1>2, <1>5, <2>1 DEF Visits, SameMembers, p
<1> HIDE DEF t, n
<1>16. members' = members
  BY <1>3, <1>15
<1>17. Abs!Deepest(n)
  <2>0. n \in Nat /\ \A m \in DOMAIN Runs(p) : m \in Nat
    <3>1. \A m \in DOMAIN Runs(p) : m \in 1 .. Len(p.stack)
      BY <1>5, RunsAre
    <3>2. QED
      BY <1>6, <1>8, <3>1
  <2>1. \A m \in DOMAIN running : m <= n
    BY <1>3, <1>10, <2>0
  <2>2. QED
    BY <1>3, <1>10, <2>1 DEF Abs!Deepest
<1>18. x \in running[n].todo /\ ~running[n].stopped
  BY <1>3, <1>9, <1>10, <1>13
<1>19. running' = [running EXCEPT ![n].todo = @ \ {x}]
  <2>0. running[n] = [c |-> f.c, todo |-> ToVisit(s, f.c, f.next), stopped |-> FALSE]
    BY <1>3, <1>10, <1>13
  <2>1. [running[n] EXCEPT !.todo = @ \ {x}] = Runs(t)[n]
    <3>1. [running[n] EXCEPT !.todo = @ \ {x}]
          = [c |-> f.c, todo |-> ToVisit(s, f.c, f.next) \ {x}, stopped |-> FALSE]
      <4> DEFINE r == running[n]
                 d == f.c
                 w == ToVisit(s, f.c, f.next)
      <4>1. r = [c |-> d, todo |-> w, stopped |-> FALSE]
        BY <2>0
      <4>2. [running[n] EXCEPT !.todo = @ \ {x}] = [r EXCEPT !.todo = w \ {x}]
        BY <2>0
      <4>3. r \in RunType
        BY <1>1, <1>3, <1>10, RunsAre
      <4> HIDE DEF r, d, w
      <4>4. [r EXCEPT !.todo = w \ {x}] = [c |-> d, todo |-> w \ {x}, stopped |-> FALSE]
        <5> DEFINE a == [r EXCEPT !.todo = w \ {x}]
                   b == [c |-> d, todo |-> w \ {x}, stopped |-> FALSE]
        <5>1. d \in Colls /\ w \in SUBSET Items
          BY <4>1, <4>3 DEF RunType
        <5>2. a \in RunType /\ b \in RunType
          BY <4>3, <5>1 DEF RunType
        <5>3. a.c = b.c /\ a.todo = b.todo /\ a.stopped = b.stopped
          BY <4>1, <4>3 DEF RunType
        <5> HIDE DEF a, b
        <5>4. a = b
          BY <5>2, <5>3 DEF RunType
        <5>5. QED
          BY <5>4 DEF a, b
      <4>5. QED
        BY <4>2, <4>4 DEF d, w
    <3>2. QED
      BY <1>11, <1>14, <3>1
  <2>2. [running EXCEPT ![n].todo = @ \ {x}] = [running EXCEPT ![n] = [running[n] EXCEPT !.todo = @ \ {x}]]
    OBVIOUS
  <2>3. DOMAIN Runs(t) = DOMAIN Runs(s) /\ n \notin DOMAIN Runs(p)
    BY <1>6, <1>7, <1>8, <1>10, <1>11
  <2>4. \A m \in DOMAIN Runs(s) : m # n => Runs(t)[m] = Runs(s)[m]
    BY <1>7, <1>10, <1>11
  <2>5. Runs(t) = [Runs(s) EXCEPT ![n] = Runs(t)[n]]
    BY <1>10, <1>12, <2>3, <2>4
  <2>6. QED
    BY <1>3, <2>1, <2>2, <2>5
<1>20. x \in Items
  <2>1. ToVisit(s, f.c, f.next) \subseteq Items
    <3>1. n \in DOMAIN Runs(s)
      BY <1>10
    <3>2. Runs(s)[n] \in RunType
      BY <1>1, <3>1, RunsAre
    <3>3. QED
      BY <1>10, <1>13, <3>2 DEF RunType
  <2>2. QED
    BY <1>9, <2>1
<1>21. Abs!Visit(n, x)
  BY <1>16, <1>17, <1>18, <1>19 DEF Abs!Visit
<1>22. QED
  BY <1>1, <1>8, <1>20, <1>21 DEF Abs!Next

LEMMA EndStep ==
  ASSUME Inv, stack # <<>>, Running(Top(State)),
         Top(State).pc = "stop" \/ ToVisit(State, Top(State).c, Top(State).next) = {},
         Good(Pop(State), State'), SameMembers(Pop(State), State')
  PROVE  Inv' /\ Abs!Next
<1> DEFINE s == State
           f == Top(s)
           p == Pop(s)
           t == State'
           n == Len(s.stack)
<1>1. /\ ListsOK(s) /\ ListsOK(t) /\ Inv' /\ s \in States /\ s.stack # <<>>
  BY StateIs DEF Inv, Good, Sound, ListsOK, Typed
<1>2. /\ Running(f) /\ (f.pc = "stop" \/ ToVisit(s, f.c, f.next) = {})
      /\ Good(p, t) /\ SameMembers(p, t)
  OBVIOUS
<1>3. /\ members = [d \in Colls |-> Members(s, d)] /\ members' = [d \in Colls |-> Members(t, d)]
      /\ running = Runs(s) /\ running' = Runs(t)
  BY MappingIs
<1>4. Nested(s)
  BY DEF Inv, Sound
<1> HIDE DEF s, t
<1>5. /\ ListsOK(p) /\ \A d : Members(p, d) = Members(s, d)
      /\ \A d, m : ToVisit(p, d, m) = ToVisit(s, d, m)
  BY <1>1, PopLists
<1>6. /\ f \in Frames /\ s = Push(p, f) /\ n \in Nat \ {0} /\ Len(p.stack) = n - 1
      /\ f = s.stack[n]
  BY <1>1, PopIs
<1> HIDE DEF f, p
<1>7. Runs(t) = Runs(p)
  BY <1>1, <1>2, <1>5, SameRuns DEF Good
<1>8. n \in 1 .. MaxDepth
  <2>1. n \in 1 .. n
    BY <1>6
  <2>2. n <= MaxDepth
    BY <1>2, <1>4, <1>6, <2>1 DEF Nested
  <2>3. QED
    BY <1>6, <2>2, CollectionAssumption
<1>9. /\ \A m \in DOMAIN Runs(p) : m < n
      /\ DOMAIN Runs(s) = DOMAIN Runs(p) \cup {n}
      /\ Runs(s)[n] = View(p, f)
      /\ \A m \in DOMAIN Runs(p) : Runs(s)[m] = Runs(p)[m]
  <2>1. Len(p.stack) + 1 = n
    BY <1>6
  <2> HIDE DEF n
  <2>2. QED
    BY <1>1, <1>2, <1>5, <1>6, <2>1, PushRuns
<1>10. /\ Runs(p) = [m \in DOMAIN Runs(p) |-> Runs(p)[m]]
       /\ DOMAIN Runs(p) \subseteq Nat
  <2>1. \A m \in DOMAIN Runs(p) : m \in 1 .. Len(p.stack)
    BY <1>5, RunsAre
  <2>2. DOMAIN Runs(p) \subseteq Nat
    BY <1>6, <2>1
  <2>3. Runs(p) = [m \in DOMAIN Runs(p) |-> Runs(p)[m]]
    BY <1>5, RunsAre
  <2>4. QED
    BY <2>2, <2>3
<1> HIDE DEF n
<1>11. members' = members
  BY <1>2, <1>3, <1>5 DEF SameMembers
<1>12. Abs!Deepest(n)
  <2>1. \A m \in DOMAIN running : m <= n
    BY <1>3, <1>8, <1>9, <1>10
  <2>2. QED
    BY <1>3, <1>9, <2>1 DEF Abs!Deepest
<1>13. running[n].todo = {} \/ running[n].stopped
  <2>1. running[n] = [c |-> f.c, todo |-> ToVisit(s, f.c, f.next), stopped |-> f.pc = "stop"]
    BY <1>3, <1>5, <1>9 DEF View
  <2>2. running[n].todo = ToVisit(s, f.c, f.next) /\ running[n].stopped = (f.pc = "stop")
    BY <2>1
  <2>3. f.pc = "stop" \/ ToVisit(s, f.c, f.next) = {}
    BY <1>2
  <2>4. QED
    BY <2>2, <2>3
<1>14. running' = [m \in DOMAIN running \ {n} |-> running[m]]
  <2>1. n \notin DOMAIN Runs(p)
    BY <1>8, <1>9, <1>10
  <2>2. DOMAIN Runs(s) \ {n} = DOMAIN Runs(p)
    BY <1>9, <2>1
  <2>3. QED
    BY <1>3, <1>7, <1>9, <1>10, <2>2
<1>15. Abs!End(n)
  BY <1>11, <1>12, <1>13, <1>14 DEF Abs!End
<1>16. QED
  BY <1>1, <1>8, <1>15 DEF Abs!Next

LEMMA CallbackStep ==
  ASSUME Inv, stack # <<>>, Running(Top(State)), Top(State).pc = "call", NEW stop \in BOOLEAN,
         NEW g \in Frames, g.op = Top(State).op, g.c = Top(State).c, g.next = Top(State).next,
         g.pc = IF stop THEN "stop" ELSE "next",
         ListsOK(Push(Pop(State), g)), Good(Push(Pop(State), g), State')
  PROVE  Inv' /\ Abs!Next
<1> DEFINE s == State
           f == Top(s)
           p == Pop(s)
           q == Push(p, g)
           t == State'
           n == Len(s.stack)
<1>1. /\ ListsOK(s) /\ ListsOK(t) /\ Inv' /\ s \in States /\ s.stack # <<>>
  BY StateIs DEF Inv, Good, Sound, ListsOK, Typed
<1>2. /\ Running(f) /\ f.pc = "call" /\ g.op = f.op /\ g.c = f.c /\ g.next = f.next
      /\ ListsOK(q) /\ Good(q, t)
  OBVIOUS
<1> HIDE DEF s, t
<1>3. /\ ListsOK(p) /\ \A d : Members(p, d) = Members(s, d)
      /\ \A d, m : ToVisit(p, d, m) = ToVisit(s, d, m)
  BY <1>1, PopLists
<1>4. /\ f \in Frames /\ s = Push(p, f) /\ n \in Nat \ {0} /\ Len(p.stack) = n - 1 /\ p \in States
  BY <1>1, PopIs
<1> HIDE DEF f, p
<1>5. Len(p.stack) + 1 = n
  BY <1>4
<1> HIDE DEF n
<1>6. /\ \A m \in DOMAIN Runs(p) : m < n
      /\ DOMAIN Runs(s) = DOMAIN Runs(p) \cup {n}
      /\ Runs(s)[n] = View(p, f)
      /\ \A m \in DOMAIN Runs(p) : Runs(s)[m] = Runs(p)[m]
  BY <1>1, <1>2, <1>3, <1>4, <1>5, PushRuns
<1>7. /\ DOMAIN Runs(q) = DOMAIN Runs(p) \cup {n}
      /\ Runs(q)[n] = View(p, g)
      /\ \A m \in DOMAIN Runs(p) : Runs(q)[m] = Runs(p)[m]
  <2>1. Running(g)
    BY <1>2 DEF Running
  <2>2. QED
    BY <1>2, <1>3, <1>5, <2>1, PushRuns
<1>8. /\ \A d \in Colls : Members(q, d) = Members(s, d)
  BY <1>3, <1>4, PushIs, SameSets
<1> HIDE DEF q
<1>9. Left(q, t, FALSE)
  BY <1>1, <1>2, LeftIs DEF Good
<1>10. \A m \in DOMAIN Runs(p) : m \in Nat /\ m < n
  <2>1. \A m \in DOMAIN Runs(p) : m \in 1 .. Len(p.stack)
    BY <1>3, RunsAre
  <2>2. QED
    BY <1>4, <1>6, <2>1
<1>11. Left(s, t, stop)
  <2>1. ASSUME NEW m \in DOMAIN Runs(s)
        PROVE  LET r == Runs(s)[m] IN
               Runs(t)[m] = [c |-> r.c, todo |-> r.todo \cap Members(t, r.c),
                             stopped |-> r.stopped \/ (stop /\ \A k \in DOMAIN Runs(s) : k <= m)]
    <3> DEFINE r == Runs(s)[m]
               w == Runs(q)[m]
               top == \A k \in DOMAIN Runs(s) : k <= m
    <3>1. Runs(t)[m] = [c |-> w.c, todo |-> w.todo \cap Members(t, w.c),
                        stopped |-> w.stopped \/ (FALSE /\ \A k \in DOMAIN Runs(q) : k <= m)]
      BY <1>6, <1>7, <1>9, <2>1 DEF Left
    <3>2. r \in RunType /\ w \in RunType
      BY <1>1, <1>2, <1>6, <1>7, <2>1, RunsAre
    <3>3. w.c = r.c /\ w.todo = r.todo /\ w.stopped = (r.stopped \/ (stop /\ top))
      <4>1. CASE m = n
        <5>1. top
          BY <1>4, <1>6, <1>10, <4>1 DEF n
        <5>2. /\ r.c = f.c /\ r.todo = ToVisit(p, f.c, f.next) /\ r.stopped = FALSE
              /\ w.c = f.c /\ w.todo = ToVisit(p, f.c, f.next) /\ w.stopped = stop
          <6>1. (f.pc = "stop") = FALSE /\ (g.pc = "stop") = stop
            BY <1>2
          <6>2. View(p, f) = [c |-> f.c, todo |-> ToVisit(p, f.c, f.next), stopped |-> FALSE]
            BY <6>1 DEF View
          <6>3. View(p, g) = [c |-> f.c, todo |-> ToVisit(p, f.c, f.next), stopped |-> stop]
            BY <1>2, <6>1 DEF View
          <6>4. r = View(p, f) /\ w = View(p, g)
            BY <1>6, <1>7, <4>1
          <6> HIDE DEF r, w
          <6>5. QED
            BY <6>2, <6>3, <6>4
        <5> HIDE DEF top, r, w
        <5>3. QED
          BY <5>1, <5>2
      <4>2. CASE m # n
        <5>1. m \in DOMAIN Runs(p) /\ n \in DOMAIN Runs(s)
          BY <1>6, <2>1, <4>2
        <5>2. ~top
          <6>1. m \in Nat /\ m < n /\ n \in Nat
            BY <1>4, <1>10, <5>1 DEF n
          <6>2. ~(n <= m)
            BY <6>1
          <6>3. QED
            BY <5>1, <6>2
        <5>3. w = r
          BY <1>6, <1>7, <5>1
        <5> HIDE DEF top, r, w
        <5>4. w.stopped \in BOOLEAN
          BY <3>2 DEF RunType
        <5>5. QED
          BY <5>2, <5>3, <5>4
      <4>3. QED
        BY <4>1, <4>2
    <3> HIDE DEF top, w
    <3>4. (w.stopped \/ (FALSE /\ \A k \in DOMAIN Runs(q) : k <= m)) = w.stopped
      BY <3>2 DEF RunType
    <3> HIDE DEF r
    <3>5. Runs(t)[m] = [c |-> r.c, todo |-> r.todo \cap Members(t, r.c),
                        stopped |-> r.stopped \/ (stop /\ top)]
      BY <3>1, <3>3, <3>4
    <3>6. QED
      BY <3>5 DEF r, top
  <2>2. DOMAIN Runs(t) = DOMAIN Runs(s)
    BY <1>6, <1>7, <1>9 DEF Left
  <2>3. \A d \in Colls : Members(t, d) \subseteq Members(s, d)
    BY <1>8, <1>9 DEF Left
  <2>4. QED
    BY <2>1, <2>2, <2>3 DEF Left
<1>12. QED
  BY <1>1, <1>11, LeaveStep DEF s, t

(*--------------------------------- actions --------------------------------*)
LEMMA BecomesGood ==
  ASSUME Inv, NEW t, Good(State, t), Become(t)
  PROVE  Inv' /\ Abs!Next
<1>1. t \in States
  BY DEF Good, Sound, ListsOK, Typed
<1>2. State' = t
  BY <1>1, BecomeIs
<1>3. QED
  BY <1>2, GoodStep

LEMMA PopsGood ==
  ASSUME Inv, stack # <<>>, ~Running(Top(State)), NEW t, Good(Pop(State), t), Become(t)
  PROVE  Inv' /\ Abs!Next
<1>1. t \in States
  BY DEF Good, Sound, ListsOK, Typed
<1>2. State' = t
  BY <1>1, BecomeIs
<1>3. QED
  BY <1>2, PopStep

LEMMA CollAction ==
  ASSUME Inv, NEW c \in Colls, NEW k, coll' = [coll EXCEPT ![c] = k], UNCHANGED <<item, link, stack>>,
         WithColl(State, c, k) \in States
  PROVE  State' = WithColl(State, c, k)
<1> DEFINE t == WithColl(State, c, k)
<1>1. t.coll = [coll EXCEPT ![c] = k] /\ t.item = item /\ t.link = link /\ t.stack = stack
  BY DEF WithColl, State
<1> HIDE DEF t
<1>2. Become(t)
  BY <1>1 DEF Become
<1>3. t \in States
  BY DEF t
<1>4. QED
  BY <1>2, <1>3, BecomeIs DEF t

LEMMA TopIs ==
  ASSUME Inv
  PROVE  /\ State \in States /\ ListsOK(State) /\ Sound(State, {}, {}) /\ Even(State)
         /\ Len(stack) \in Nat /\ DOMAIN stack = 1 .. Len(stack)
         /\ stack # <<>> => /\ Top(State) = Last(stack) /\ Top(State) \in Frames
                            /\ State.stack # <<>>
<1>1. State \in States /\ ListsOK(State) /\ Sound(State, {}, {}) /\ Even(State)
  BY DEF Inv, Sound, ListsOK, Typed
<1>2. Len(stack) \in Nat /\ DOMAIN stack = 1 .. Len(stack)
  BY <1>1, StackIs, StateIs
<1>3. ASSUME stack # <<>> PROVE Top(State) = Last(stack) /\ Top(State) \in Frames
  BY <1>1, <1>3, PopIs, StateIs DEF Top
<1>4. QED
  BY <1>1, <1>2, <1>3, StateIs

LEMMA AddStep ==
  ASSUME Inv, NEW c \in Colls, NEW i \in Items, Add(c, i)
  PROVE  Inv' /\ Abs!Next
<1> DEFINE k == [coll[c] EXCEPT !.order = <<i>> \o @, !.size = @ + 1]
           t == WithColl(State, c, k)
<1>1. /\ ~coll[c].freed /\ i \notin Linked(State, c) /\ Valid(State, c, i)
      /\ ~coll[c].destroyed /\ ~coll[c].void
      /\ coll' = [coll EXCEPT ![c].order = <<i>> \o @, ![c].size = @ + 1]
      /\ UNCHANGED <<item, link, stack>>
  BY DEF Add
<1>2. Joins(State, t, c, i)
  BY <1>1, AddIs, TopIs, StateIs
<1>3. coll' = [coll EXCEPT ![c] = k]
  <2>1. coll \in [Colls -> CollType]
    BY TopIs, StateIs DEF States
  <2>2. coll[c] \in CollType
    BY <2>1
  <2>3. QED
    BY <1>1, <2>1, <2>2 DEF CollType
<1>4. t \in States
  BY <1>2 DEF Joins, Sound, ListsOK, Typed
<1> HIDE DEF k
<1>5. State' = t
  BY <1>1, <1>3, <1>4, CollAction
<1>6. QED
  BY <1>2, <1>5, JoinStep

LEMMA DeleteStep ==
  ASSUME Inv, NEW c \in Colls, NEW i \in Items, Delete(c, i)
  PROVE  Inv' /\ Abs!Next
<1>1. Good(State, InstanceDestroy(State, {c}, i))
  BY DeleteIs, TopIs
<1>2. Become(InstanceDestroy(State, {c}, i))
  BY DEF Delete
<1>3. QED
  BY <1>1, <1>2, BecomesGood

LEMMA MoveLastStep ==
  ASSUME Inv, NEW c \in Colls, NEW i \in Items, MoveLast(c, i)
  PROVE  Inv' /\ Abs!Next
<1> DEFINE k == [coll[c] EXCEPT !.order = Without(@, i) \o <<i>>]
           t == WithColl(State, c, k)
<1>1. /\ i \in Linked(State, c) /\ ~InUse(c)
      /\ coll' = [coll EXCEPT ![c].order = Without(@, i) \o <<i>>]
      /\ UNCHANGED <<item, link, stack>>
  BY DEF MoveLast
<1>2. \A n \in 1 .. Len(State.stack) : State.stack[n].c # c
  BY <1>1, TopIs, StateIs DEF InUse
<1>3. Good(State, t)
  BY <1>1, <1>2, MoveLastIs, TopIs, StateIs
<1>4. coll' = [coll EXCEPT ![c] = k]
  BY <1>1
<1>5. t \in States
  BY <1>3 DEF Good, Sound, ListsOK, Typed
<1> HIDE DEF k
<1>6. State' = t
  BY <1>1, <1>4, <1>5, CollAction
<1>7. QED
  BY <1>3, <1>6, GoodStep

LEMMA MakeVoidStep ==
  ASSUME Inv, NEW c \in Colls, MakeVoid(c)
  PROVE  Inv' /\ Abs!Next
<1> DEFINE k == [coll[c] EXCEPT !.void = TRUE]
           t == WithColl(State, c, k)
<1>1. /\ ~\E n \in DOMAIN stack : stack[n].op = "match" /\ stack[n].c = c
      /\ coll' = [coll EXCEPT ![c].void = TRUE]
      /\ UNCHANGED <<item, link, stack>>
  BY DEF MakeVoid
<1>2. \A n \in 1 .. Len(State.stack) : ~(State.stack[n].c = c /\ State.stack[n].op = "match")
  BY <1>1, TopIs, StateIs
<1>3. Good(State, t)
  BY <1>2, MakeVoidIs, TopIs, StateIs
<1>4. coll' = [coll EXCEPT ![c] = k]
  BY <1>1
<1>5. t \in States
  BY <1>3 DEF Good, Sound, ListsOK, Typed
<1> HIDE DEF k
<1>6. State' = t
  BY <1>1, <1>4, <1>5, CollAction
<1>7. QED
  BY <1>3, <1>6, GoodStep

LEMMA DestroyItemStep ==
  ASSUME Inv, NEW i \in Items, DestroyItem(i)
  PROVE  Inv' /\ Abs!Next
<1>1. ~State.item[i].freed /\ Become(ObjDestroy(State, i))
  BY StateIs DEF DestroyItem
<1>2. Good(State, ObjDestroy(State, i))
  BY <1>1, DestroyItemIs, TopIs
<1>3. QED
  BY <1>1, <1>2, BecomesGood

LEMMA DestroyCollectionStep ==
  ASSUME Inv, NEW c \in Colls, DestroyCollection(c)
  PROVE  Inv' /\ Abs!Next
<1>1. /\ ~State.coll[c].freed /\ (State.coll[c].ref > 0 => DestroyBusy)
      /\ Become(CollectionDestroy(State, c))
  BY StateIs DEF DestroyCollection
<1>2. Good(State, CollectionDestroy(State, c))
  BY <1>1, CollectionDestroyIs, TopIs
<1>3. QED
  BY <1>1, <1>2, BecomesGood

LEMMA HoldStep ==
  ASSUME Inv, NEW i \in Items, Hold(i)
  PROVE  Inv' /\ Abs!Next
<1> DEFINE t == Push([State EXCEPT !.item[i].ref = @ + 1], Frame("hold", None, i, None, "call"))
<1>1. ~State.item[i].freed /\ Become(t)
  BY StateIs DEF Hold
<1>2. Good(State, t)
  BY <1>1, HoldIs, TopIs
<1> HIDE DEF t
<1>3. QED
  BY <1>1, <1>2, BecomesGood

LEMMA LockStep ==
  ASSUME Inv, NEW c \in Colls, NEW i \in Items, Lock(c, i)
  PROVE  Inv' /\ Abs!Next
<1> DEFINE t == Push(LockItem(State, c, i), Frame("lock", c, i, None, "call"))
<1>1. /\ i \in Linked(State, c) /\ Valid(State, c, i)
      /\ ~State.coll[c].freed /\ ~State.coll[c].destroyed /\ ~State.coll[c].void
      /\ Become(t)
  BY StateIs DEF Lock
<1>2. Good(State, t)
  BY <1>1, LockIs, TopIs
<1> HIDE DEF t
<1>3. QED
  BY <1>1, <1>2, BecomesGood

LEMMA BeginOpStep ==
  ASSUME Inv, NEW c \in Colls, NEW op \in {"iterate", "match", "empty"}, Begin(op, c)
  PROVE  Inv' /\ Abs!Next
<1> DEFINE u == [State EXCEPT !.coll[c].ref = @ + 1]
           f == Frame(op, c, None, NewIterator(State, c), "next")
           t == Push(u, f)
<1>1. /\ ~State.coll[c].freed /\ (op = "match" => ~State.coll[c].void)
      /\ Len(stack) < MaxDepth /\ Become(t)
  BY StateIs DEF Begin, CanNest
<1>2. Loops(State, u, f, c)
  BY <1>1, BeginIs, TopIs, StateIs
<1>3. f.op = op
  BY DEF Frame
<1> HIDE DEF u, f
<1>4. t \in States
  BY <1>2 DEF Loops, Sound, ListsOK, Typed
<1> HIDE DEF t
<1>5. State' = t
  BY <1>1, <1>4, BecomeIs
<1>6. CASE Running(f)
  BY <1>1, <1>2, <1>5, <1>6, BeginStep DEF t
<1>7. CASE ~Running(f)
  <2>1. ListsOK(State) /\ ListsOK(u) /\ ListsOK(t)
    BY <1>2, TopIs DEF Loops, Sound, t
  <2>2. Leaves(u, t)
    <3>1. f \in Frames
      BY <1>2 DEF Loops
    <3>2. u \in States /\ t \in States
      BY <2>1 DEF ListsOK, Typed
    <3>3. f.next # None => f.next \in Linked(u, f.c)
      <4>1. /\ Len(t.stack) = Len(u.stack) + 1 /\ DOMAIN t.stack = 1 .. Len(u.stack) + 1
            /\ t.stack[Len(u.stack) + 1] = f /\ t.coll = u.coll /\ Len(u.stack) \in Nat
        BY <3>1, <3>2, PushIs, StackIs DEF t
      <4>2. Len(u.stack) + 1 \in DOMAIN t.stack
        BY <4>1
      <4>3. f.next # None => f.next \in Linked(t, f.c)
        BY <2>1, <4>1, <4>2 DEF ListsOK, NextOK
      <4>4. QED
        BY <4>1, <4>3 DEF Linked
    <3>4. QED
      BY <1>7, <2>1, <3>1, <3>3, PushLists DEF t
  <2>3. Leaves(State, t)
    BY <1>2, <2>1, <2>2, LeavesTwice DEF Loops
  <2>4. Good(State, t)
    BY <1>2, <2>3 DEF Loops, Good, t
  <2>5. QED
    BY <1>5, <2>4, GoodStep
<1>8. QED
  BY <1>6, <1>7

LEMMA AdvanceStep ==
  ASSUME Inv, Advance
  PROVE  Inv' /\ Abs!Next
<1> DEFINE s == State
           f == Top(s)
           x == Found(s, f.c, f.next)
           g == Frame(f.op, f.c, None, After(s.coll[f.c].order, x), "call")
           h == Frame(f.op, f.c, x, After(s.coll[f.c].order, x), "call")
           u == LockItem(Pop(s), f.c, x)
<1>1. stack # <<>>
  BY DEF Advance
<1>2. f = Last(stack) /\ s.coll = coll /\ s.stack # <<>> /\ Sound(s, {}, {}) /\ Even(s)
  BY <1>1, TopIs, StateIs
<1>3. /\ f.op \in {"iterate", "match"} /\ f.pc = "next" /\ x # None
      /\ Become(IF f.op = "match" THEN LockItem(SetTop(s, h), f.c, x) ELSE SetTop(s, g))
  BY <1>2 DEF Advance
<1>4. Running(f)
  BY <1>3 DEF Running
<1>5. CASE f.op = "iterate"
  <2>1. SetTop(s, g) = Push(Pop(s), g) /\ Visits(s, Pop(s), g, x)
    <3> HIDE DEF s
    <3>1. QED
      BY <1>2, <1>3, <1>5, IterateIs
  <2>2. Become(SetTop(s, g))
    BY <1>3, <1>5
  <2> DEFINE p == Pop(s)
  <2> HIDE DEF s, f, x, g, p
  <2>3. Visits(s, p, g, x) /\ Become(Push(p, g))
    BY <2>1, <2>2 DEF p
  <2>4. Push(p, g) \in States
    BY <2>3 DEF Visits, Sound, ListsOK, Typed
  <2>5. State' = Push(p, g)
    BY <2>3, <2>4, BecomeIs
  <2>6. QED
    BY <1>1, <1>3, <1>4, <2>3, <2>5, VisitStep DEF s, f
<1>6. CASE f.op = "match"
  <2>1. LockItem(SetTop(s, h), f.c, x) = Push(u, h) /\ Visits(s, u, h, x)
    <3> HIDE DEF s
    <3>1. QED
      BY <1>2, <1>3, <1>6, MatchIs
  <2>2. Become(LockItem(SetTop(s, h), f.c, x))
    BY <1>3, <1>6
  <2> HIDE DEF s, f, x, h, u
  <2>3. Visits(s, u, h, x) /\ Become(Push(u, h))
    BY <2>1, <2>2
  <2>4. Push(u, h) \in States
    BY <2>3 DEF Visits, Sound, ListsOK, Typed
  <2>5. State' = Push(u, h)
    BY <2>3, <2>4, BecomeIs
  <2>6. QED
    BY <1>1, <1>3, <1>4, <2>3, <2>5, VisitStep DEF s, f
<1>7. QED
  BY <1>3, <1>5, <1>6

(* The item that collection_next finds, for the call on top.               *)
LEMMA TopFinds ==
  ASSUME Inv, stack # <<>>, Top(State).c \in Colls
  PROVE  Found(State, Top(State).c, Top(State).next) = None
         <=> ToVisit(State, Top(State).c, Top(State).next) = {}
<1> DEFINE s == State
           n == Len(s.stack)
<1>1. ListsOK(s) /\ s \in States /\ s.stack # <<>> /\ Typed(s)
  BY TopIs DEF ListsOK
<1> HIDE DEF s
<1>2. n \in 1 .. n /\ Top(s) = s.stack[n]
  BY <1>1, PopIs
<1>3. Top(s).c \in Colls
  BY DEF s
<1>4. Top(s).next \in Linked(s, Top(s).c) \cup {None}
  BY <1>1, <1>2, <1>3, VisitsMembers
<1>5. Found(s, Top(s).c, Top(s).next) = None <=> ToVisit(s, Top(s).c, Top(s).next) = {}
  BY <1>1, <1>3, <1>4, FoundIs
<1>6. QED
  BY <1>5 DEF s

LEMMA FinishStep ==
  ASSUME Inv, Finish
  PROVE  Inv' /\ Abs!Next
<1> DEFINE s == State
           f == Top(s)
           t == CollectionUnref(Pop(s), f.c)
<1>1. stack # <<>>
  BY DEF Finish
<1>2. f = Last(stack) /\ f \in Frames /\ s.stack # <<>> /\ Sound(s, {}, {}) /\ Even(s)
  BY <1>1, TopIs
<1>3. /\ f.op \in {"iterate", "match"} /\ Become(t)
      /\ f.pc = "stop" \/ (f.pc = "next" /\ Found(s, f.c, f.next) = None)
  BY <1>2 DEF Finish
<1>4. f.c \in Colls /\ Running(f)
  BY <1>2, <1>3 DEF Frames, FrameShape, Running
<1>5. f.pc = "stop" \/ ToVisit(s, f.c, f.next) = {}
  BY <1>1, <1>3, <1>4, TopFinds
<1>6. Good(Pop(s), t) /\ SameMembers(Pop(s), t)
  <2>1. f.op \in {"iterate", "empty", "unref"} \/ (f.op = "match" /\ f.pc # "call")
    BY <1>3
  <2> HIDE DEF s
  <2>2. QED
    BY <1>2, <2>1, FinishIs
<1>7. t \in States
  BY <1>6 DEF Good, Sound, ListsOK, Typed
<1> HIDE DEF t
<1>8. State' = t
  BY <1>3, <1>7, BecomeIs
<1>9. QED
  BY <1>1, <1>4, <1>5, <1>6, <1>8, EndStep

LEMMA CallbackReturnsStep ==
  ASSUME Inv, NEW stop \in BOOLEAN, CallbackReturns(stop)
  PROVE  Inv' /\ Abs!Next
<1> DEFINE s == State
           f == Top(s)
           gone == s.coll[f.c].destroyed
           g == [f EXCEPT !.i = None, !.pc = IF stop \/ gone THEN "stop" ELSE "next"]
           q == SetTop(s, g)
           t == IF f.op = "match" /\ ~gone THEN UnlockItem(q, f.c, f.i) ELSE q
<1>1. stack # <<>>
  BY DEF CallbackReturns
<1>2. f = Last(stack) /\ f \in Frames /\ s.stack # <<>> /\ Sound(s, {}, {}) /\ Even(s) /\ s.coll = coll
      /\ s \in States
  BY <1>1, TopIs, StateIs
<1>3. f.op \in {"iterate", "match"} /\ f.pc = "call" /\ Become(t)
  BY <1>2 DEF CallbackReturns
<1>4. f.c \in Colls /\ Running(f)
  BY <1>2, <1>3 DEF Frames, FrameShape, Running
<1>5. /\ q = Push(Pop(s), g) /\ ListsOK(q) /\ g \in Frames
      /\ g.op = f.op /\ g.c = f.c /\ g.next = f.next
      /\ g.pc = IF stop \/ gone THEN "stop" ELSE "next"
      /\ Good(q, t)
  <2> HIDE DEF s
  <2>1. QED
    BY <1>2, <1>3, CallbackIs
<1>6. (stop \/ gone) \in BOOLEAN
  OBVIOUS
<1>7. t \in States
  BY <1>5 DEF Good, Sound, ListsOK, Typed
<1> HIDE DEF t
<1>8. State' = t
  BY <1>3, <1>7, BecomeIs
<1> DEFINE b == stop \/ gone
<1>9. b \in BOOLEAN /\ g.pc = IF b THEN "stop" ELSE "next"
  BY <1>5, <1>6
<1> HIDE DEF b, q, g
<1>10. ListsOK(Push(Pop(State), g)) /\ Good(Push(Pop(State), g), State')
  BY <1>5, <1>8
<1>11. QED
  BY <1>1, <1>3, <1>4, <1>5, <1>9, <1>10, CallbackStep

LEMMA SweepStep ==
  ASSUME Inv, Sweep
  PROVE  Inv' /\ Abs!Next
<1> DEFINE s == State
           f == Top(s)
           x == Found(s, f.c, f.next)
           out == InstanceDestroy(
                      SetTop(s, [f EXCEPT !.next = After(s.coll[f.c].order, x)]), {f.c}, x)
<1>1. stack # <<>>
  BY DEF Sweep
<1>2. f = Last(stack) /\ s.stack # <<>> /\ Sound(s, {}, {}) /\ Even(s) /\ s.coll = coll
  BY <1>1, TopIs, StateIs
<1>3. /\ f.op \in {"empty", "destroy"} /\ x # None
      /\ Become(IF f.c \in Cascade THEN CollectibleDestroy(out, x) ELSE out)
  BY <1>2 DEF Sweep
<1>4. Good(Pop(s), out) /\ Good(Pop(s), CollectibleDestroy(out, x))
  <2> HIDE DEF s
  <2>1. QED
    BY <1>2, <1>3, SweepIs
<1>5. ~Running(f)
  BY <1>3 DEF Running
<1> HIDE DEF out
<1>6. CASE f.c \in Cascade
  BY <1>1, <1>3, <1>4, <1>5, <1>6, PopsGood
<1>7. CASE f.c \notin Cascade
  BY <1>1, <1>3, <1>4, <1>5, <1>7, PopsGood
<1>8. QED
  BY <1>6, <1>7

LEMMA SweepEndsStep ==
  ASSUME Inv, SweepEnds
  PROVE  Inv' /\ Abs!Next
<1> DEFINE s == State
           f == Top(s)
           t == CollectionUnref(Pop(s), f.c)
           u == [Pop(s) EXCEPT !.coll[f.c].freed = TRUE]
<1>1. stack # <<>>
  BY DEF SweepEnds
<1>2. f = Last(stack) /\ f \in Frames /\ s.stack # <<>> /\ Sound(s, {}, {}) /\ Even(s)
  BY <1>1, TopIs
<1>3. /\ f.op \in {"empty", "destroy"} /\ Found(s, f.c, f.next) = None
      /\ Become(IF f.op = "empty" THEN t ELSE u)
  BY <1>2 DEF SweepEnds
<1>4. f.c \in Colls /\ ~Running(f)
  BY <1>2, <1>3 DEF Frames, FrameShape, Running
<1>5. CASE f.op = "empty"
  <2>1. Good(Pop(s), t)
    <3> HIDE DEF s
    <3>1. QED
      BY <1>2, <1>5, FinishIs
  <2>2. Become(t)
    BY <1>3, <1>5
  <2> HIDE DEF t
  <2>3. QED
    BY <1>1, <1>4, <2>1, <2>2, PopsGood
<1>6. CASE f.op = "destroy"
  <2>1. ToVisit(s, f.c, f.next) = {}
    BY <1>1, <1>3, <1>4, TopFinds
  <2>2. Good(Pop(s), u)
    <3> HIDE DEF s
    <3>1. QED
      BY <1>2, <1>6, <2>1, FreeCollectionIs
  <2>3. Become(u)
    BY <1>3, <1>6
  <2> HIDE DEF u
  <2>4. QED
    BY <1>1, <1>4, <2>2, <2>3, PopsGood
<1>7. QED
  BY <1>3, <1>5, <1>6

LEMMA ReturnStep ==
  ASSUME Inv, Return
  PROVE  Inv' /\ Abs!Next
<1> DEFINE s == State
           f == Top(s)
           t1 == ObjUnref(Pop(s), f.i)
           t2 == UnlockItem(Pop(s), f.c, f.i)
           t3 == [Pop(s) EXCEPT !.item[f.i].freed = TRUE]
           t4 == CollectionUnref(Pop(s), f.c)
<1>1. stack # <<>>
  BY DEF Return
<1>2. f = Last(stack) /\ s.stack # <<>> /\ Sound(s, {}, {}) /\ Even(s)
  BY <1>1, TopIs
<1>3. \/ f.op = "hold" /\ Become(t1)
      \/ f.op = "lock" /\ Become(t2)
      \/ f.op = "dtor" /\ Become(t3)
      \/ f.op = "unref" /\ Become(t4)
  BY <1>2 DEF Return
<1>4. ~Running(f)
  BY <1>3 DEF Running
<1>5. /\ f.op = "hold" => Good(Pop(s), t1)
      /\ f.op = "lock" => Good(Pop(s), t2)
      /\ f.op = "dtor" => Good(Pop(s), t3)
      /\ f.op = "unref" => Good(Pop(s), t4)
  <2> HIDE DEF s
  <2>1. (f.op = "hold" => Good(Pop(s), t1)) /\ (f.op = "lock" => Good(Pop(s), t2))
    BY <1>2, ReleaseIs
  <2>2. f.op = "dtor" => Good(Pop(s), t3)
    BY <1>2, FreeItemIs
  <2>3. f.op = "unref" => Good(Pop(s), t4)
    BY <1>2, FinishIs
  <2>4. QED
    BY <2>1, <2>2, <2>3
<1> HIDE DEF t1, t2, t3, t4
<1>6. CASE f.op = "hold" /\ Become(t1)
  BY <1>1, <1>4, <1>5, <1>6, PopsGood
<1>7. CASE f.op = "lock" /\ Become(t2)
  BY <1>1, <1>4, <1>5, <1>7, PopsGood
<1>8. CASE f.op = "dtor" /\ Become(t3)
  BY <1>1, <1>4, <1>5, <1>8, PopsGood
<1>9. CASE f.op = "unref" /\ Become(t4)
  BY <1>1, <1>4, <1>5, <1>9, PopsGood
<1>10. QED
  BY <1>3, <1>6, <1>7, <1>8, <1>9

LEMMA StepIs ==
  ASSUME Inv, [Next]_vars
  PROVE  Inv' /\ [Abs!Next]_(Abs!vars)
<1>1. CASE UNCHANGED vars
  <2>1. coll' = coll /\ item' = item /\ link' = link /\ stack' = stack
    BY <1>1 DEF vars
  <2>2. State' = State
    BY <2>1 DEF State
  <2>3. Inv'
    BY <2>2 DEF Inv
  <2>4. members' = members /\ running' = running
    BY <2>2, MappingIs
  <2>5. QED
    BY <2>3, <2>4 DEF Abs!vars
<1>2. CASE Next
  <2>1. ASSUME NEW c \in Colls, NEW i \in Items,
               Add(c, i) \/ Delete(c, i) \/ MoveLast(c, i) \/ Lock(c, i)
        PROVE  Inv' /\ Abs!Next
    BY <2>1, AddStep, DeleteStep, MoveLastStep, LockStep
  <2>2. ASSUME NEW c \in Colls, MakeVoid(c) \/ DestroyCollection(c)
        PROVE  Inv' /\ Abs!Next
    BY <2>2, MakeVoidStep, DestroyCollectionStep
  <2>3. ASSUME NEW c \in Colls, NEW op \in {"iterate", "match", "empty"}, Begin(op, c)
        PROVE  Inv' /\ Abs!Next
    BY <2>3, BeginOpStep
  <2>4. ASSUME NEW i \in Items, DestroyItem(i) \/ Hold(i)
        PROVE  Inv' /\ Abs!Next
    BY <2>4, DestroyItemStep, HoldStep
  <2>5. ASSUME NEW stop \in BOOLEAN, CallbackReturns(stop)
        PROVE  Inv' /\ Abs!Next
    BY <2>5, CallbackReturnsStep
  <2>6. ASSUME Advance \/ Finish \/ Sweep \/ SweepEnds \/ Return
        PROVE  Inv' /\ Abs!Next
    BY <2>6, AdvanceStep, FinishStep, SweepStep, SweepEndsStep, ReturnStep
  <2>7. QED
    BY <1>2, <2>1, <2>2, <2>3, <2>4, <2>5, <2>6 DEF Next
<1>3. QED
  BY <1>1, <1>2

(*-------------------------------- theorems --------------------------------*)
(* The lists of the collections, the iterators, what every object has gone *)
(* through and the references to it agree, whatever the callbacks of       *)
(* collection_iterate and collection_match and the destructors called by   *)
(* obj_destroy and obj_unref do.                                           *)
THEOREM CollectionsSound == Spec => []Inv
<1>1. Init => Inv
  BY InitIs
<1>2. Inv /\ [Next]_vars => Inv'
  BY StepIs
<1>3. QED
  BY <1>1, <1>2, PTL DEF Spec

LEMMA InvNextIsLinked ==
  ASSUME Inv
  PROVE  NextIsLinked
BY StateIs DEF Inv, Sound, ListsOK, NextOK, NextIsLinked

(* The item an iterator is to read next is linked in its collection at all *)
(* times: instance_obj_destroy moves on every iterator that is at the      *)
(* instance it frees, those of the calls further down as well.             *)
THEOREM IteratorsStayLinked == Spec => []NextIsLinked
<1>1. Inv => NextIsLinked
  BY InvNextIsLinked
<1>2. QED
  BY <1>1, CollectionsSound, PTL

LEMMA InvHeldStays ==
  ASSUME Inv
  PROVE  HeldStays
<1>1. DOMAIN stack = 1 .. Len(stack) /\ Len(stack) \in Nat /\ Calls(State)
  BY TopIs DEF Sound, Alive
<1>2. SUFFICES ASSUME NEW n \in 1 .. Len(stack)
               PROVE  LET f == stack[n] IN
                      /\ f.i # None => ~item[f.i].freed /\ ~DestructedIn(n, f.i)
                      /\ f.c # None => ~coll[f.c].freed
                      /\ f.op = "destroy" =>
                             ~\E m \in n + 1 .. Len(stack) : stack[m].op = "destroy" /\ stack[m].c = f.c
  BY <1>1 DEF HeldStays
<1> DEFINE f == stack[n]
<1>3. ItemCall(State, f) /\ CollCall(State, f)
  BY <1>1, StateIs DEF Calls
<1>4. ASSUME NEW m \in n + 1 .. Len(stack) PROVE Apart(f, stack[m])
  <2>1. m \in 1 .. Len(stack) /\ n < m
    BY <1>1
  <2>2. QED
    BY <1>1, <2>1, StateIs DEF Calls
<1>5. f.i # None => ~item[f.i].freed
  BY <1>3, StateIs DEF ItemCall
<1>6. ~DestructedIn(n, f.i)
  BY <1>4 DEF DestructedIn, Apart
<1>7. f.c # None => ~coll[f.c].freed
  BY <1>3, StateIs DEF CollCall
<1>8. ~\E m \in n + 1 .. Len(stack) : stack[m].op = "destroy" /\ stack[m].c = f.c
  BY <1>4 DEF Apart
<1>9. QED
  BY <1>5, <1>6, <1>7, <1>8

(* What a call in progress iterates, locks, refers to or destructs is not  *)
(* freed under it, and no destructor runs twice: obj_destroy waits for the *)
(* references and obj_unref for the last of them, and both look at called. *)
THEOREM HeldObjectsStay == Spec => []HeldStays
<1>1. Inv => HeldStays
  BY InvHeldStays
<1>2. QED
  BY <1>1, CollectionsSound, PTL

LEMMA InvSizes ==
  ASSUME Inv
  PROVE  TypeOK /\ SizesAgree
<1>1. State \in States /\ Typed(State) /\ Sizes(State)
  BY TopIs DEF ListsOK, Typed
<1>2. TypeOK
  <2>1. /\ coll \in [Colls -> CollType] /\ item \in [Items -> ItemType]
        /\ link \in [Colls -> [Items -> LinkType]] /\ stack \in Seq(Frames)
    BY <1>1, StateIs DEF States
  <2>2. Seq(Frames) \subseteq Seq(FrameType)
    <3>1. ASSUME NEW q \in Seq(Frames) PROVE q \in Seq(FrameType)
      <4>1. Len(q) \in Nat /\ q \in [1 .. Len(q) -> Frames]
        BY LenProperties
      <4>2. q \in [1 .. Len(q) -> FrameType]
        BY <4>1 DEF Frames
      <4>3. QED
        BY <4>1, <4>2, SeqDef
    <3>2. QED
      BY <3>1
  <2>3. \A c \in Colls : IsInjective(coll[c].order)
    BY <1>1, StateIs DEF Typed
  <2>4. QED
    BY <2>1, <2>2, <2>3 DEF TypeOK, CollType, ItemType, LinkType, FrameType
<1>3. SizesAgree
  BY <1>1, StateIs DEF Sizes, Live, SizesAgree
<1>4. QED
  BY <1>2, <1>3

(* collection_size counts the instances that are not marked, and every     *)
(* list names an item once, also where a collection is destroyed while it  *)
(* is iterated.                                                            *)
THEOREM SizesStayTrue == Spec => [](TypeOK /\ SizesAgree)
<1>1. Inv => TypeOK /\ SizesAgree
  BY InvSizes
<1>2. QED
  BY <1>1, CollectionsSound, PTL

LEMMA InvListsAgree ==
  ASSUME Inv, ~DestroyBusy
  PROVE  ListsAgree
<1>1. LinksAreLive
  <2>1. SUFFICES ASSUME NEW c \in Colls, NEW i \in Linked(State, c)
                 PROVE  ~item[i].freed /\ (coll[c].freed => item[i].destroyed \/ item[i].cbDestroyed)
    BY DEF LinksAreLive
  <2>2. i \in Items
    BY TopIs, CollIs DEF ListsOK
  <2>3. ItemLife(State, i) /\ Emptied(State)
    BY <2>2, TopIs DEF Sound, Alive
  <2>4. ~item[i].freed
    BY <2>3, StateIs DEF ItemLife
  <2>5. coll[c].freed => item[i].destroyed \/ item[i].cbDestroyed
    BY <2>3, StateIs DEF Emptied
  <2>6. QED
    BY <2>4, <2>5
<1>2. QED
  BY <1>1, InvSizes DEF ListsAgree

(* Where callers do not destroy a collection in use, an item is out of     *)
(* every collection when its destructor is done, however collectible_      *)
(* destroy met its references, and collection_obj_destroy leaves none in a *)
(* collection but those that somebody still held.                          *)
THEOREM ListsStayTrue == ASSUME ~DestroyBusy PROVE Spec => []ListsAgree
<1>1. Inv => ListsAgree
  BY InvListsAgree
<1>2. QED
  BY <1>1, CollectionsSound, PTL

LEMMA InvRefs ==
  ASSUME Inv
  PROVE  /\ \A c \in Colls : AtLeast(coll[c].ref, CollCount(State, c))
         /\ \A i \in Items : AtLeast(item[i].ref, ItemCount(State, i))
         /\ \A c \in Colls, i \in Items : AtLeast(link[c][i].ref, LinkCount(State, c, i))
<1>1. Even(State)
  BY TopIs
<1>2. /\ \A c : CollCount(State, c) \in Nat
      /\ \A i : ItemCount(State, i) \in Nat
      /\ \A c, i : LinkCount(State, c, i) \in Nat
  BY TopIs, CountsAreNat
<1>3. \A x, y : Owed(x, y, 0) = 0
  BY DEF Owed
<1>4. /\ \A c : CollCount(State, c) + Owed(c, None, 0) = CollCount(State, c)
      /\ \A i : ItemCount(State, i) + Owed(i, None, 0) = ItemCount(State, i)
      /\ \A c, i : LinkCount(State, c, i) + Owed(<<c, i>>, <<None, None>>, 0) = LinkCount(State, c, i)
  BY <1>2, <1>3
<1>5. QED
  BY <1>1, <1>4, StateIs DEF Even, Refs

LEMMA InvRefsAreHeld ==
  ASSUME Inv, ~DestroyBusy
  PROVE  RefsAreHeld
<1>1. ASSUME NEW c \in Colls
      PROVE  coll[c].ref = Cardinality(Users(State, c)) + Cardinality(Lockers(State, c))
  BY InvRefs DEF AtLeast, CollCount
<1>2. ASSUME NEW i \in Items
      PROVE  item[i].ref = Cardinality(Holders(State, i))
  BY InvRefs DEF AtLeast, ItemCount
<1>3. QED
  BY <1>1, <1>2 DEF RefsAreHeld

(* The count of an object never falls below the calls that refer to it,    *)
(* which is what keeps it: obj_unref gives back no reference it did not    *)
(* take, also where a collection is destroyed while it is iterated and a   *)
(* match leaves without unlocking.                                         *)
THEOREM RefsSuffice ==
  Spec => [](/\ \A c \in Colls : coll[c].ref >= CollCount(State, c)
             /\ \A i \in Items : item[i].ref >= ItemCount(State, i))
<1>1. Inv => /\ \A c \in Colls : coll[c].ref >= CollCount(State, c)
             /\ \A i \in Items : item[i].ref >= ItemCount(State, i)
  BY InvRefs DEF AtLeast
<1>2. QED
  BY <1>1, CollectionsSound, PTL

(* Where callers do not destroy a collection in use, the references to a   *)
(* collection and to an item are exactly the calls that hold them: none is *)
(* lost between collection_lock and collection_unlock, whatever the        *)
(* callback in between does to the item or its collections.                *)
THEOREM RefsAreExact == ASSUME ~DestroyBusy PROVE Spec => []RefsAreHeld
<1>1. Inv => RefsAreHeld
  BY InvRefsAreHeld
<1>2. QED
  BY <1>1, CollectionsSound, PTL

LEMMA InvNothingLeft ==
  ASSUME Inv, ~DestroyBusy
  PROVE  NothingLeft
<1>1. SUFFICES ASSUME stack = <<>>
               PROVE  /\ \A c \in Colls : coll[c].destroyed \/ coll[c].called => coll[c].freed
                      /\ \A i \in Items : item[i].destroyed \/ item[i].called => item[i].freed
                      /\ \A c \in Colls : \A i \in Linked(State, c) : ~link[c][i].destroyed
  BY DEF NothingLeft
<1>2. Len(State.stack) = 0 /\ DOMAIN State.stack = {} /\ State \in States
  BY <1>1, TopIs, StateIs
<1>3. /\ \A i : ItemCount(State, i) = 0
      /\ \A c, i : LinkCount(State, c, i) = 0
  BY <1>2, CountsAreNat
<1>4. /\ \A i \in Items : item[i].ref = 0
      /\ \A c \in Colls, i \in Items : link[c][i].ref = 0
  BY <1>3, InvRefs DEF AtLeast
<1>5. ASSUME NEW c \in Colls PROVE coll[c].destroyed \/ coll[c].called => coll[c].freed
  <2>1. CollLife(State, c)
    BY TopIs DEF Sound, Alive
  <2>2. QED
    BY <1>2, <2>1, StateIs DEF CollLife
<1>6. ASSUME NEW i \in Items PROVE item[i].destroyed \/ item[i].called => item[i].freed
  <2>1. ItemLife(State, i)
    BY TopIs DEF Sound, Alive
  <2>2. QED
    BY <1>2, <1>4, <2>1, StateIs DEF ItemLife
<1>7. ASSUME NEW c \in Colls, NEW i \in Linked(State, c) PROVE ~link[c][i].destroyed
  <2>1. LinksOK(State) /\ i \in Items
    BY TopIs, CollIs DEF ListsOK
  <2>2. QED
    BY <1>4, <2>1, StateIs DEF LinksOK
<1>8. QED
  BY <1>5, <1>6, <1>7

(* Where callers do not destroy a collection in use, what obj_destroy      *)
(* marked while somebody held it is gone once nobody does.                 *)
THEOREM NothingStaysMarked == ASSUME ~DestroyBusy PROVE Spec => []NothingLeft
<1>1. Inv => NothingLeft
  BY InvNothingLeft
<1>2. QED
  BY <1>1, CollectionsSound, PTL

LEMMA InitImplements ==
  ASSUME Init
  PROVE  Abs!Init
<1> DEFINE s == State
<1>1. ListsOK(s) /\ s.stack = <<>> /\ \A c \in Colls : s.coll[c] = NewColl
  BY InitIs, StateIs DEF Inv, Sound, Init
<1>2. /\ members = [c \in Colls |-> Members(s, c)] /\ running = Runs(s)
  BY MappingIs
<1> HIDE DEF s
<1>3. Runs(s) = [n \in DOMAIN Runs(s) |-> Runs(s)[n]]
      /\ DOMAIN Runs(s) = {n \in 1 .. Len(s.stack) : Running(s.stack[n])}
  BY <1>1, RunsAre
<1>4. DOMAIN Runs(s) = {}
  <2>1. Len(s.stack) = 0
    BY <1>1
  <2>2. QED
    BY <1>3, <2>1
<1>5. running = [n \in {} |-> {}]
  BY <1>2, <1>3, <1>4
<1>6. \A c \in Colls : Members(s, c) = {}
  <2>1. \A c \in Colls : Linked(s, c) = {}
    BY <1>1 DEF Linked, NewColl, ToSet
  <2>2. QED
    BY <2>1 DEF Members
<1>7. members = [c \in Colls |-> {}]
  BY <1>2, <1>6
<1>8. QED
  BY <1>5, <1>7 DEF Abs!Init

(* Collections implements Iterations: whatever its callbacks and those of  *)
(* the iterations around it do, collection_iterate visits each member that *)
(* stays until it is visited, once, and none that left or came later.      *)
THEOREM CollectionsImplementIterations == Spec => ImplementsIterations
<1>1. Init => Abs!Init
  BY InitImplements
<1>2. Inv /\ [Next]_vars => [Abs!Next]_(Abs!vars)
  BY StepIs
<1>3. QED
  BY <1>1, <1>2, CollectionsSound, PTL DEF Spec, ImplementsIterations, Abs!Spec
================================================================================
