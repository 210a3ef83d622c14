--------------------------- MODULE PacketStreamProofs ---------------------------
(***************************************************************************)
(* Every step of PacketStream is a step of PacketQueue or none, for any    *)
(* number and size of packets, any wrapping, and any cut of the stream.    *)
(*                                                                         *)
(* The invariant says what stands in the stream: Chain, that the cells the *)
(* reader has of a packet and those it has not read are packets one after  *)
(* the other, from the first that was not taken to the last that was given *)
(* (or, where a send was cut short, into the one it ends in); and Begun,   *)
(* that the size in the reader's io context is that of the packet whose    *)
(* cells it has.  A loss empties the stream and lets go of both.           *)
(***************************************************************************)
EXTENDS PacketStream, SequenceTheorems, WellFoundedInduction, TLAPS

(* The values packets, cells and the reader's io context can have.         *)
Wrappers == {"compressed", "encrypted"}
PacketType == [id : Nat \ {0}, data : DataSizes, wraps : Seq(Wrappers), size : Nat]
CellType == [of : PacketType, at : Nat]
GivenType == [id : Nat, data : DataSizes]
IoShape(p) == p \in [size : Nat, cells : {p.cells}, filled : Nat]

(* Cell j of what is not taken: in the packet that is being read, and then *)
(* in the stream.                                                          *)
At(p, s, j) == IF j <= p.filled THEN p.cells[j] ELSE s[j - p.filled]
Total(p, s) == p.filled + Len(s)

(* A cell is of a packet that was given as it is in the packet; only a     *)
(* stream that ends (~o) has cells of one that was not, and not its last.  *)
Fits(c, g, o) ==
    /\ c \in CellType /\ c.of.size >= Header /\ c.at \in 1 .. c.of.size
    /\ IF c.of.id <= Len(g) THEN g[c.of.id] = [id |-> c.of.id, data |-> c.of.data]
       ELSE ~o /\ c.at < c.of.size
(* After a cell comes the next of its packet, or the first of the next one.*)
Follows(b, c) == IF c.at < c.of.size THEN b = [of |-> c.of, at |-> c.at + 1]
                 ELSE b.at = 1 /\ b.of.id = c.of.id + 1
(* What is not taken follows what is; while the connection is open, it ends*)
(* with the last packet that was given.                                    *)
Chain(p, s, g, t, o) ==
    /\ \A j \in 1 .. Total(p, s) : Fits(At(p, s, j), g, o)
    /\ \A j \in 1 .. Total(p, s) - 1 : Follows(At(p, s, j + 1), At(p, s, j))
    /\ Total(p, s) > 0 => At(p, s, 1).at = 1 /\ At(p, s, 1).of.id = Len(t) + 1
    /\ o => IF Total(p, s) = 0 THEN Len(t) = Len(g)
            ELSE LET c == At(p, s, Total(p, s)) IN c.at = c.of.size /\ c.of.id = Len(g)
(* The reader is inside a packet, and has its size.                        *)
Begun(p, s) == /\ IoShape(p) /\ DOMAIN p.cells = 1 .. p.size /\ p.filled \in 1 .. p.size - 1
               /\ p.size = At(p, s, 1).of.size

(* Every set of numbers that is not empty has a least one.                 *)
LEMMA LeastOf ==
  ASSUME NEW T \in SUBSET Nat, T # {}
  PROVE  \E k \in T : \A m \in T : k <= m
<1> DEFINE R == OpToRel(<, Nat)
<1>1. IsWellFoundedOn(R, Nat)
  BY NatLessThanWellFounded
<1>2. ASSUME NEW k \in Nat, NEW m \in Nat, m < k
      PROVE  <<m, k>> \in R
  BY <1>2 DEF OpToRel
<1> HIDE DEF R
<1>3. PICK k \in T : \A m \in T : ~ (<<m, k>> \in R)
  BY <1>1, WFMin
<1>4. ASSUME NEW m \in T PROVE k <= m
  <2>1. m \in Nat /\ k \in Nat
    OBVIOUS
  <2>2. ~(m < k)
    BY <1>2, <1>3, <2>1
  <2> QED  BY <2>1, <2>2
<1> QED  BY <1>4

(*---------------------------------- writing -------------------------------*)
(* Whatever it is wrapped in, a packet is the one that was made.           *)
LEMMA FormsAre ==
  ASSUME NEW n \in Nat \ {0}, NEW d \in DataSizes, NEW p \in Forms(New(n, d))
  PROVE  p \in PacketType /\ p.id = n /\ p.data = d /\ p.size >= Header
<1> DEFINE a == New(n, d)
           Good(q) == q \in PacketType /\ q.id = n /\ q.data = d /\ q.size >= Header
<1>1. DataSizes \subseteq Nat
  BY StreamAssumption
<1>2. Good(a)
  BY <1>1, EmptySeq DEF New, PacketType, Header
<1>3. ASSUME NEW q, Good(q), NEW w \in Wrappers, NEW e \in Nat
      PROVE  Good(Wrapped(q, w, e))
  <2>1. Append(q.wraps, w) \in Seq(Wrappers)
    BY <1>3, AppendProperties DEF PacketType
  <2>2. Wrapped(q, w, e) = [q EXCEPT !.wraps = Append(q.wraps, w), !.size = Header + e]
    BY <1>3 DEF Wrapped, PacketType
  <2> DEFINE v == Append(q.wraps, w)
             z == Header + e
             x == [q EXCEPT !.wraps = v, !.size = z]
  <2>3. z \in Nat /\ z >= Header
    BY DEF Header
  <2> HIDE DEF v, z
  <2>4. x \in PacketType /\ x.id = q.id /\ x.data = q.data /\ x.size = z
    BY <1>3, <2>1, <2>3 DEF PacketType, v
  <2> QED  BY <1>3, <2>2, <2>3, <2>4 DEF v, z
<1> HIDE DEF a, Good
<1>4. ASSUME NEW q \in Compressions(a) PROVE Good(q)
  BY <1>1, <1>2, <1>3 DEF Compressions, Wrappers
<1>5. ASSUME NEW q, Good(q), NEW r \in Encryptions(q) PROVE Good(r)
  <2>1. q.size \in Nat
    BY <1>5 DEF Good, PacketType
  <2> QED  BY <1>3, <1>5, <2>1 DEF Encryptions, Wrappers
<1>6. PICK q \in Compressions(a) : p \in Encryptions(q)
  BY DEF Forms, a
<1>7. Good(p)
  BY <1>4, <1>5, <1>6
<1> QED  BY <1>7 DEF Good

(*---------------------------------- reading -------------------------------*)
(* Cells that recv() moves from the stream to the packet stay in place.    *)
LEMMA FilledIs ==
  ASSUME NEW q, IoShape(q), DOMAIN q.cells = 1 .. q.size, NEW n \in Nat,
         q.filled + n <= q.size, n <= Len(stream), stream \in Seq(CellType)
  PROVE  LET r == Filled(q, q.filled, n)
             s == SubSeq(stream, n + 1, Len(stream))
         IN  /\ IoShape(r) /\ r.size = q.size /\ DOMAIN r.cells = 1 .. q.size
             /\ r.cells = [i \in 1 .. q.size |-> r.cells[i]] /\ r.filled = q.filled + n
             /\ s \in Seq(CellType) /\ Len(s) = Len(stream) - n
             /\ Total(r, s) = Total(q, stream)
             /\ \A j \in 1 .. Total(q, stream) : At(r, s, j) = At(q, stream, j)
<1> DEFINE r == Filled(q, q.filled, n)
           m == Len(stream)
           s == SubSeq(stream, n + 1, m)
           f == q.filled
           cells == [i \in 1 .. q.size |->
                       IF i \in f + 1 .. f + n THEN stream[i - f] ELSE q.cells[i]]
<1>1. m \in Nat /\ f \in Nat /\ q.size \in Nat
  BY LenProperties DEF IoShape
<1>2. r = [q EXCEPT !.cells = cells, !.filled = f + n]
  BY DEF Filled, IoShape
<1>3. DOMAIN cells = 1 .. q.size /\ cells = [i \in 1 .. q.size |-> cells[i]]
  OBVIOUS
<1>4. /\ \A i \in f + 1 .. f + n : cells[i] = stream[i - f]
      /\ \A i \in 1 .. f : cells[i] = q.cells[i]
  BY <1>1
<1>5. s \in Seq(CellType) /\ Len(s) = m - n /\ \A i \in 1 .. m - n : s[i] = stream[n + i]
  <2>1. \A i \in n + 1 .. m : stream[i] \in CellType
    BY <1>1, ElementOfSeq
  <2>2. n + 1 \in Int /\ m \in Int
    BY <1>1
  <2> HIDE DEF m
  <2>3. /\ s \in Seq(CellType) /\ Len(s) = (IF n + 1 <= m THEN m - (n + 1) + 1 ELSE 0)
        /\ \A i \in 1 .. m - (n + 1) + 1 : s[i] = stream[n + 1 + i - 1]
    BY <2>1, <2>2, SubSeqProperties
  <2>4. (IF n + 1 <= m THEN m - (n + 1) + 1 ELSE 0) = m - n /\ m - (n + 1) + 1 = m - n
    BY <1>1 DEF m
  <2>5. \A i \in 1 .. m - n : n + 1 + i - 1 = n + i
    BY <1>1
  <2> QED  BY <2>3, <2>4, <2>5
<1> HIDE DEF r, s, cells, m, f
<1>6. /\ IoShape(r) /\ r.size = q.size /\ r.cells = cells
      /\ r.filled = f + n
  <2> DEFINE z == f + n
             x == [q EXCEPT !.cells = cells, !.filled = z]
  <2>1. z \in Nat
    BY <1>1
  <2> HIDE DEF z
  <2>2. /\ x \in [size : Nat, cells : {cells}, filled : Nat]
        /\ x.size = q.size /\ x.cells = cells /\ x.filled = z
    BY <2>1 DEF IoShape
  <2>3. r = x
    BY <1>2 DEF z
  <2> HIDE DEF x
  <2> QED  BY <2>2, <2>3 DEF IoShape, z
<1>7. Total(r, s) = Total(q, stream) /\ Total(q, stream) = f + m
  BY <1>1, <1>5, <1>6 DEF Total, f, m
<1>8. ASSUME NEW j \in 1 .. f + m PROVE At(r, s, j) = At(q, stream, j)
  <2>1. At(r, s, j) = IF j <= f + n THEN cells[j] ELSE s[j - (f + n)]
    BY <1>6 DEF At
  <2>2. At(q, stream, j) = IF j <= f THEN q.cells[j] ELSE stream[j - f]
    BY DEF At, f
  <2>3. CASE j <= f
    BY <1>1, <1>4, <2>1, <2>2, <2>3
  <2>4. CASE ~(j <= f) /\ j <= f + n
    BY <1>1, <1>4, <2>1, <2>2, <2>4
  <2>5. CASE ~(j <= f + n)
    <3>1. j - (f + n) \in 1 .. m - n /\ n + (j - (f + n)) = j - f /\ ~(j <= f)
      BY <1>1, <2>5
    <3> QED  BY <1>5, <2>1, <2>2, <2>5, <3>1
  <2> QED  BY <2>3, <2>4, <2>5
<1> QED  BY <1>3, <1>5, <1>6, <1>7, <1>8 DEF r, s, f, m

(* Chain looks at the cells only, not at where the reader has them.        *)
LEMMA SameChain ==
  ASSUME NEW p, NEW s, NEW q, NEW u, NEW g, NEW t, NEW o, Total(p, s) \in Nat,
         Total(q, u) = Total(p, s), \A j \in 1 .. Total(p, s) : At(q, u, j) = At(p, s, j),
         Chain(p, s, g, t, o)
  PROVE  Chain(q, u, g, t, o)
<1> DEFINE n == Total(p, s)
<1>1. /\ \A j \in 1 .. n - 1 : j \in 1 .. n /\ j + 1 \in 1 .. n
      /\ n > 0 => 1 \in 1 .. n
      /\ n # 0 => n \in 1 .. n
  OBVIOUS
<1> HIDE DEF n
<1>2. Total(p, s) = n /\ Total(q, u) = n /\ \A j \in 1 .. n : At(q, u, j) = At(p, s, j)
  BY DEF n
<1> QED  BY <1>1, <1>2 DEF Chain

(* The packet that comes first, if all of it is there.                     *)
LEMMA Whole ==
  ASSUME NEW p, NEW s, NEW g, NEW t, NEW o, Total(p, s) \in Nat, Chain(p, s, g, t, o),
         NEW w, w = At(p, s, 1).of, Total(p, s) > 0, w.size <= Total(p, s)
  PROVE  \A j \in 1 .. w.size : At(p, s, j) = [of |-> w, at |-> j]
<1> DEFINE n == Total(p, s)
           T == {j \in 1 .. w.size : At(p, s, j) # [of |-> w, at |-> j]}
<1>1. Fits(At(p, s, 1), g, o) /\ At(p, s, 1).at = 1
  <2>1. 1 \in 1 .. n
    OBVIOUS
  <2> QED  BY <2>1 DEF Chain
<1>2. w.size \in Nat /\ At(p, s, 1) = [of |-> w, at |-> 1]
  BY <1>1 DEF Fits, CellType, PacketType
<1>3. SUFFICES ASSUME T # {} PROVE FALSE
  OBVIOUS
<1>4. T \in SUBSET Nat
  OBVIOUS
<1> HIDE DEF T
<1>5. PICK k \in T : \A j \in T : k <= j
  BY <1>3, <1>4, LeastOf
<1>6. k \in 1 .. w.size /\ k # 1
  BY <1>2, <1>5 DEF T
<1>7. k - 1 \in 1 .. w.size /\ k - 1 \in 1 .. n - 1 /\ k - 1 < w.size /\ k - 1 + 1 = k
  BY <1>2, <1>6
<1>8. k - 1 \notin T
  BY <1>5, <1>7
<1>9. At(p, s, k - 1) = [of |-> w, at |-> k - 1]
  BY <1>7, <1>8 DEF T
<1>10. Follows(At(p, s, k - 1 + 1), At(p, s, k - 1))
  BY <1>7 DEF Chain
<1>11. At(p, s, k) = [of |-> w, at |-> k]
  BY <1>7, <1>9, <1>10 DEF Follows
<1> QED  BY <1>5, <1>11 DEF T

(* io_read_packet hands over the packet that was written next, or keeps    *)
(* what it has of it.                                                      *)
LEMMA ReadIs ==
  ASSUME NEW q, IoShape(q), DOMAIN q.cells = 1 .. q.size, NEW n \in Nat \ {0},
         q.filled + n <= q.size, n <= Len(stream), stream \in Seq(CellType),
         NEW g \in Seq(GivenType), NEW t \in Seq(GivenType), NEW o,
         Chain(q, stream, g, t, o), q.size = At(q, stream, 1).of.size
  PROVE  LET r == Filled(q, q.filled, n)
             s == SubSeq(stream, n + 1, Len(stream))
         IN  /\ s \in Seq(CellType) /\ Len(s) = Len(stream) - n
             /\ Received(r) =>
                   /\ Len(t) < Len(g) /\ Unwrapped(r) = g[Len(t) + 1]
                   /\ Chain(NoPacket, s, g, Append(t, g[Len(t) + 1]), o)
             /\ ~Received(r) => Chain(r, s, g, t, o) /\ Begun(r, s)
<1> DEFINE r == Filled(q, q.filled, n)
           s == SubSeq(stream, n + 1, Len(stream))
           w == At(q, stream, 1).of
           l == Total(q, stream)
           m == w.size
<1>1. /\ IoShape(r) /\ r.size = q.size /\ DOMAIN r.cells = 1 .. q.size
      /\ r.cells = [i \in 1 .. q.size |-> r.cells[i]] /\ r.filled = q.filled + n
      /\ s \in Seq(CellType) /\ Len(s) = Len(stream) - n
      /\ Total(r, s) = l /\ \A j \in 1 .. l : At(r, s, j) = At(q, stream, j)
  BY FilledIs
<1>2. /\ q.filled \in Nat /\ Len(stream) \in Nat /\ Len(g) \in Nat /\ Len(t) \in Nat
      /\ q.size \in Nat /\ l \in Nat /\ l > 0
  <2>1. q.filled \in Nat /\ Len(stream) \in Nat /\ Len(g) \in Nat /\ Len(t) \in Nat
        /\ q.size \in Nat
    BY LenProperties DEF IoShape
  <2> QED  BY <2>1 DEF Total
<1> HIDE DEF r, s, l
<1>3. Fits(At(q, stream, 1), g, o) /\ At(q, stream, 1).at = 1 /\ w.id = Len(t) + 1
  BY <1>2 DEF Chain, l
<1>4. /\ m = q.size /\ m \in Nat /\ m >= Header /\ w \in PacketType
      /\ At(q, stream, 1) = [of |-> w, at |-> 1] /\ w = At(q, stream, 1).of /\ m = w.size
  BY <1>3 DEF Fits, CellType, PacketType
<1> HIDE DEF w, m
<1>a. m \in Nat /\ m >= 1 /\ r.filled \in Nat /\ r.filled >= 1 /\ r.filled <= m
  BY <1>1, <1>2, <1>4 DEF Header
<1>5. Received(r) <=> r.filled = m
  BY <1>1, <1>4 DEF Received, Header
<1>6. Chain(r, s, g, t, o)
  BY <1>1, <1>2, SameChain DEF l
<1>7. ASSUME ~Received(r) PROVE Begun(r, s)
  <2>1. r.filled \in 1 .. m - 1
    BY <1>5, <1>7, <1>a
  <2>2. At(r, s, 1) = At(q, stream, 1)
    BY <1>1, <1>2
  <2> QED  BY <1>1, <1>4, <2>1, <2>2 DEF Begun
<1>8. ASSUME Received(r)
      PROVE  /\ Len(t) < Len(g) /\ Unwrapped(r) = g[Len(t) + 1]
             /\ Chain(NoPacket, s, g, Append(t, g[Len(t) + 1]), o)
  <2>1. r.filled = m /\ l = m + Len(s) /\ Len(s) \in Nat /\ m \in Nat /\ m >= 1
    BY <1>1, <1>2, <1>5, <1>8, <1>a, LenProperties DEF Total
  <2>2. \A j \in 1 .. m : At(q, stream, j) = [of |-> w, at |-> j]
    <3>1. w.size <= Total(q, stream) /\ Total(q, stream) > 0 /\ Total(q, stream) \in Nat
      BY <1>2, <1>4, <2>1 DEF l
    <3> QED  BY <1>4, <3>1, Whole
  <2>3. \A j \in 1 .. m : r.cells[j] = [of |-> w, at |-> j]
    <3>1. \A j \in 1 .. m : j \in 1 .. l /\ j <= r.filled
      BY <2>1
    <3> QED  BY <1>1, <2>2, <3>1 DEF At
  <2>4. r.cells = Cells(w)
    <3>1. r.cells = [j \in 1 .. m |-> r.cells[j]]
      BY <1>1, <1>4
    <3> QED  BY <1>4, <2>3, <3>1 DEF Cells
  <2>5. m \in 1 .. l /\ At(q, stream, m).of = w /\ At(q, stream, m).at = m
    <3>1. m \in 1 .. m
      BY <1>4 DEF Header
    <3>2. At(q, stream, m) = [of |-> w, at |-> m]
      BY <2>2, <3>1
    <3> QED  BY <2>1, <3>1, <3>2
  <2>6. Fits(At(q, stream, m), g, o)
    BY <2>5 DEF Chain, l
  <2>7. w.id <= Len(g) /\ g[w.id] = [id |-> w.id, data |-> w.data]
    BY <1>4, <2>5, <2>6 DEF Fits
  <2>8. Unwrapped(r) = [id |-> w.id, data |-> w.data]
    <3>1. r.cells[1].of = w
      BY <1>4, <2>3 DEF Header
    <3> QED  BY <2>4, <3>1 DEF Unwrapped
  <2> DEFINE a == Append(t, g[Len(t) + 1])
  <2>9. Len(a) = Len(t) + 1
    <3>1. g[Len(t) + 1] \in GivenType
      BY <1>2, <1>3, <2>7, ElementOfSeq
    <3> QED  BY <3>1, AppendProperties
  <2> HIDE DEF a
  <2>10. Total(NoPacket, s) = Len(s) /\ \A j \in 1 .. Len(s) : At(NoPacket, s, j) = s[j]
    BY <2>1 DEF Total, At, NoPacket
  <2>11. ASSUME NEW j \in 1 .. Len(s)
         PROVE  m + j \in 1 .. l /\ At(NoPacket, s, j) = At(q, stream, m + j)
    <3>1. m + j \in 1 .. l /\ ~(m + j <= r.filled) /\ (m + j) - r.filled = j
      BY <2>1
    <3>2. At(r, s, m + j) = s[j]
      <4> DEFINE k == m + j
      <4>1. ~(k <= r.filled)
        BY <3>1
      <4> HIDE DEF k
      <4>2. At(r, s, k) = s[k - r.filled]
        BY <4>1 DEF At
      <4>3. k - r.filled = j
        BY <3>1 DEF k
      <4>4. At(r, s, k) = s[j]
        BY <4>2, <4>3
      <4> QED  BY <4>4 DEF k
    <3>3. At(r, s, m + j) = At(q, stream, m + j)
      BY <1>1, <3>1
    <3>4. At(NoPacket, s, j) = s[j]
      BY <2>10
    <3> QED  BY <3>1, <3>2, <3>3, <3>4
  <2>12. ASSUME NEW j \in 1 .. Len(s) PROVE Fits(At(NoPacket, s, j), g, o)
    BY <2>11 DEF Chain, l
  <2>13. ASSUME NEW j \in 1 .. Len(s) - 1
         PROVE  Follows(At(NoPacket, s, j + 1), At(NoPacket, s, j))
    <3>1. /\ j \in 1 .. Len(s) /\ j + 1 \in 1 .. Len(s)
          /\ m + j \in 1 .. l - 1 /\ m + (j + 1) = m + j + 1
      <4>1. j \in Nat /\ 1 <= j /\ j <= Len(s) - 1
        BY <2>1
      <4> QED  BY <2>1, <4>1
    <3>2. Follows(At(q, stream, m + j + 1), At(q, stream, m + j))
      BY <3>1 DEF Chain, l
    <3> QED  BY <2>11, <3>1, <3>2
  <2>14. ASSUME Len(s) > 0
         PROVE  At(NoPacket, s, 1).at = 1 /\ At(NoPacket, s, 1).of.id = Len(a) + 1
    <3>1. 1 \in 1 .. Len(s) /\ m \in 1 .. l - 1
      BY <2>1, <2>5, <2>14
    <3>2. Follows(At(q, stream, m + 1), At(q, stream, m))
      BY <3>1 DEF Chain, l
    <3>3. ~(At(q, stream, m).at < At(q, stream, m).of.size)
      BY <1>4, <2>5
    <3>4. At(q, stream, m + 1).at = 1 /\ At(q, stream, m + 1).of.id = w.id + 1
      BY <2>5, <3>2, <3>3 DEF Follows
    <3> QED  BY <1>3, <2>9, <2>11, <3>1, <3>4
  <2>15. ASSUME o
         PROVE  IF Len(s) = 0 THEN Len(a) = Len(g)
                ELSE LET c == At(NoPacket, s, Len(s)) IN c.at = c.of.size /\ c.of.id = Len(g)
    <3>1. At(q, stream, l).at = At(q, stream, l).of.size /\ At(q, stream, l).of.id = Len(g)
      BY <1>2, <2>15 DEF Chain, l
    <3>2. CASE Len(s) = 0
      <4>1. l = m
        BY <1>4, <2>1, <3>2
      <4> QED  BY <1>3, <2>5, <2>9, <3>1, <3>2, <4>1
    <3>3. CASE Len(s) # 0
      <4>1. Len(s) \in 1 .. Len(s) /\ m + Len(s) = l
        BY <2>1, <3>3
      <4> QED  BY <2>11, <3>1, <3>3, <4>1
    <3> QED  BY <3>2, <3>3
  <2>16. Chain(NoPacket, s, g, a, o)
    BY <2>10, <2>12, <2>13, <2>14, <2>15 DEF Chain
  <2> QED  BY <1>2, <1>3, <2>7, <2>8, <2>16 DEF a
<1> QED  BY <1>1, <1>6, <1>7, <1>8 DEF r, s

(* What n cells of p, sent after what is not taken, do to it.              *)
Appended(q, g, t, p, n) ==
  LET s == stream \o SubSeq(Cells(p), 1, n)
      h == IF n = p.size THEN Append(g, [id |-> p.id, data |-> p.data]) ELSE g
  IN  /\ s \in Seq(CellType) /\ Len(s) = Len(stream) + n
      /\ h \in Seq(GivenType) /\ Len(g) <= Len(h)
      /\ Chain(q, s, h, t, n = p.size)
      /\ \A j \in 1 .. Total(q, stream) : At(q, s, j) = At(q, stream, j)

(* A packet that is sent follows those before it; one that is sent in part *)
(* ends the stream.                                                        *)
LEMMA WriteIs ==
  ASSUME NEW q, IoShape(q), stream \in Seq(CellType),
         NEW g \in Seq(GivenType), NEW t \in Seq(GivenType), Chain(q, stream, g, t, TRUE),
         NEW p \in PacketType, p.id = Len(g) + 1, p.size >= Header, NEW n \in 0 .. p.size
  PROVE  Appended(q, g, t, p, n)
<1> DEFINE a == SubSeq(Cells(p), 1, n)
           s == stream \o a
           e == [id |-> p.id, data |-> p.data]
           h == IF n = p.size THEN Append(g, e) ELSE g
           f == q.filled
           m == Len(stream)
           l == Total(q, stream)
           o == n = p.size
<1>1. /\ m \in Nat /\ f \in Nat /\ p.size \in Nat /\ n \in Nat /\ n <= p.size
      /\ Len(g) \in Nat /\ Len(t) \in Nat /\ l = f + m /\ p.size >= 1
  <2>1. m \in Nat /\ f \in Nat /\ p.size \in Nat /\ Len(g) \in Nat /\ Len(t) \in Nat
    BY LenProperties DEF IoShape, PacketType
  <2> QED  BY <2>1 DEF Total, Header
<1>2. a \in Seq(CellType) /\ Len(a) = n /\ \A i \in 1 .. n : a[i] = [of |-> p, at |-> i]
  <2>1. \A i \in 1 .. p.size : Cells(p)[i] = [of |-> p, at |-> i] /\ [of |-> p, at |-> i] \in CellType
    BY <1>1 DEF Cells, CellType
  <2>2. \A i \in 1 .. n : i \in 1 .. p.size
    BY <1>1
  <2>3. 1 \in Int /\ n \in Int /\ \A i \in 1 .. n : Cells(p)[i] \in CellType
    <3>1. \A i \in 1 .. n : Cells(p)[i] \in CellType
      BY <2>1, <2>2
    <3> QED  BY <1>1, <3>1
  <2>4. /\ a \in Seq(CellType) /\ Len(a) = (IF 1 <= n THEN n - 1 + 1 ELSE 0)
        /\ \A i \in 1 .. n - 1 + 1 : a[i] = Cells(p)[1 + i - 1]
    BY <2>3, SubSeqProperties
  <2>5. (IF 1 <= n THEN n - 1 + 1 ELSE 0) = n /\ n - 1 + 1 = n
    BY <1>1
  <2>6. \A i \in 1 .. n : 1 + i - 1 = i
    OBVIOUS
  <2> HIDE DEF a
  <2> QED  BY <2>1, <2>2, <2>4, <2>5, <2>6
<1> HIDE DEF a
<1>3. /\ s \in Seq(CellType) /\ Len(s) = m + n
      /\ \A i \in 1 .. m + n : s[i] = IF i <= m THEN stream[i] ELSE a[i - m]
  BY <1>1, <1>2, ConcatProperties
<1>4. e \in GivenType /\ e.id = p.id
  BY <1>1 DEF GivenType, PacketType
<1>5. /\ h \in Seq(GivenType) /\ \A i \in 1 .. Len(g) : h[i] = g[i]
      /\ Len(h) = (IF o THEN Len(g) + 1 ELSE Len(g)) /\ (o => h[Len(g) + 1] = e)
  <2> HIDE DEF e
  <2> QED  BY <1>1, <1>4, AppendProperties
<1> HIDE DEF s, h, f, m, l
<1>6. Total(q, s) = l + n /\ Total(q, stream) = l
  BY <1>1, <1>3 DEF Total, f, l
<1>7. ASSUME NEW j \in 1 .. l PROVE At(q, s, j) = At(q, stream, j)
  <2>1. CASE j <= f
    BY <2>1 DEF At, f
  <2>2. CASE ~(j <= f)
    <3>1. j - f \in 1 .. m /\ j - f \in 1 .. m + n
      BY <1>1, <2>2
    <3>2. s[j - f] = stream[j - f]
      BY <1>1, <1>3, <3>1
    <3> QED  BY <2>2, <3>2 DEF At, f
  <2> QED  BY <2>1, <2>2
<1>8. ASSUME NEW i \in 1 .. n PROVE At(q, s, l + i) = [of |-> p, at |-> i]
  <2> DEFINE j == l + i
  <2>1. ~(j <= f) /\ j - f = m + i /\ m + i \in 1 .. m + n /\ ~(m + i <= m) /\ (m + i) - m = i
    BY <1>1
  <2> HIDE DEF j
  <2>2. At(q, s, j) = s[m + i]
    BY <2>1 DEF At, f
  <2>3. s[m + i] = a[i]
    BY <1>3, <2>1
  <2> QED  BY <1>2, <2>2, <2>3 DEF j
<1>9. ASSUME NEW j \in 1 .. l PROVE Fits(At(q, stream, j), h, o) /\ At(q, stream, j).of.id <= Len(g)
  <2>1. Fits(At(q, stream, j), g, TRUE)
    BY <1>6 DEF Chain
  <2>2. At(q, stream, j).of.id \in 1 .. Len(g)
    BY <1>1, <2>1 DEF Fits, CellType, PacketType
  <2>3. At(q, stream, j).of.id <= Len(h)
    BY <1>1, <1>5, <2>2
  <2> QED  BY <1>5, <2>1, <2>2, <2>3 DEF Fits
<1>10. ASSUME NEW i \in 1 .. n PROVE Fits([of |-> p, at |-> i], h, o)
  <2> DEFINE c == [of |-> p, at |-> i]
  <2>1. c \in CellType /\ c.of = p /\ c.at = i /\ i \in 1 .. p.size
    BY <1>1 DEF CellType
  <2>2. CASE o
    BY <1>1, <1>5, <2>1, <2>2 DEF Fits
  <2>3. CASE ~o
    <3>1. i < p.size /\ ~(p.id <= Len(h))
      BY <1>1, <1>5, <2>3
    <3> QED  BY <2>1, <2>3, <3>1 DEF Fits
  <2> QED  BY <2>2, <2>3
<1>11. \A j \in 1 .. l + n : j \in 1 .. l \/ (j - l \in 1 .. n /\ j = l + (j - l))
  BY <1>1
<1>12. ASSUME NEW j \in 1 .. l + n PROVE Fits(At(q, s, j), h, o)
  <2>1. CASE j \in 1 .. l
    BY <1>7, <1>9, <2>1
  <2>2. CASE j \notin 1 .. l
    <3> DEFINE i == j - l
    <3>1. i \in 1 .. n /\ j = l + i
      BY <1>11, <2>2
    <3> HIDE DEF i
    <3>2. At(q, s, j) = [of |-> p, at |-> i]
      BY <1>8, <3>1
    <3> QED  BY <1>10, <3>1, <3>2
  <2> QED  BY <2>1, <2>2
<1>13. l > 0 => At(q, stream, l).at = At(q, stream, l).of.size /\ At(q, stream, l).of.id = Len(g)
  BY <1>1, <1>6 DEF Chain
<1>14. ASSUME NEW j \in 1 .. (l + n) - 1 PROVE Follows(At(q, s, j + 1), At(q, s, j))
  <2>1. CASE j < l
    <3>1. j \in 1 .. l - 1 /\ j \in 1 .. l /\ j + 1 \in 1 .. l
      BY <1>1, <2>1
    <3>2. Follows(At(q, stream, j + 1), At(q, stream, j))
      BY <1>6, <3>1 DEF Chain
    <3> QED  BY <1>7, <3>1, <3>2
  <2>2. CASE j = l
    <3>1. 1 \in 1 .. n /\ l \in 1 .. l /\ l > 0
      BY <1>1, <2>2
    <3>2. At(q, s, l + 1) = [of |-> p, at |-> 1] /\ At(q, s, l) = At(q, stream, l)
      BY <1>7, <1>8, <3>1
    <3>3. At(q, stream, l).of.size \in Nat
      BY <1>9, <3>1 DEF Fits, CellType, PacketType
    <3> DEFINE b == At(q, s, l + 1)
               c == At(q, s, l)
    <3>4. b.at = 1 /\ b.of.id = p.id
      BY <3>2
    <3>5. c.at = c.of.size /\ c.of.id = Len(g) /\ ~(c.at < c.of.size)
      BY <1>13, <3>1, <3>2, <3>3
    <3> HIDE DEF b, c
    <3>6. Follows(b, c)
      BY <3>4, <3>5 DEF Follows
    <3> QED  BY <2>2, <3>6 DEF b, c
  <2>3. CASE j > l
    <3> DEFINE i == j - l
    <3>1. i \in 1 .. n /\ i + 1 \in 1 .. n /\ j = l + i /\ j + 1 = l + (i + 1)
      BY <1>1, <2>3
    <3> HIDE DEF i
    <3>2. At(q, s, j) = [of |-> p, at |-> i] /\ At(q, s, j + 1) = [of |-> p, at |-> i + 1]
      BY <1>8, <3>1
    <3>3. i < p.size
      BY <1>1, <3>1
    <3> QED  BY <3>2, <3>3 DEF Follows
  <2> QED  BY <1>1, <2>1, <2>2, <2>3
<1>15. ASSUME l + n > 0 PROVE At(q, s, 1).at = 1 /\ At(q, s, 1).of.id = Len(t) + 1
  <2>1. CASE l > 0
    <3>1. 1 \in 1 .. l
      BY <1>1, <2>1
    <3> QED  BY <1>6, <1>7, <2>1, <3>1 DEF Chain
  <2>2. CASE ~(l > 0)
    <3>1. l = 0 /\ 1 \in 1 .. n /\ l + 1 = 1
      BY <1>1, <1>15, <2>2
    <3>2. At(q, s, 1) = [of |-> p, at |-> 1]
      BY <1>8, <3>1
    <3>3. Len(t) = Len(g)
      BY <1>6, <3>1 DEF Chain
    <3> QED  BY <3>2, <3>3
  <2> QED  BY <2>1, <2>2
<1>16. ASSUME o
       PROVE  LET c == At(q, s, l + n)
              IN  l + n # 0 /\ c.at = c.of.size /\ c.of.id = Len(h)
  <2>1. n \in 1 .. n /\ n = p.size /\ l + n # 0
    BY <1>1, <1>16
  <2>2. At(q, s, l + n) = [of |-> p, at |-> n]
    BY <1>8, <2>1
  <2>3. p.id = Len(h)
    BY <1>5, <1>16
  <2> QED  BY <2>1, <2>2, <2>3
<1>17. Chain(q, s, h, t, o)
  <2> DEFINE k == l + n
  <2>1. Total(q, s) = k
    BY <1>6
  <2> HIDE DEF k, o
  <2>2. /\ \A j \in 1 .. k : Fits(At(q, s, j), h, o)
        /\ \A j \in 1 .. k - 1 : Follows(At(q, s, j + 1), At(q, s, j))
    BY <1>12, <1>14 DEF k
  <2>3. k > 0 => At(q, s, 1).at = 1 /\ At(q, s, 1).of.id = Len(t) + 1
    BY <1>15 DEF k
  <2>4. o => LET c == At(q, s, k) IN k # 0 /\ c.at = c.of.size /\ c.of.id = Len(h)
    BY <1>16 DEF k
  <2> QED  BY <2>1, <2>2, <2>3, <2>4 DEF Chain
<1>18. Len(g) <= Len(h)
  BY <1>1, <1>5
<1> QED  BY <1>3, <1>5, <1>7, <1>17, <1>18 DEF Appended, s, a, h, l, m

(*--------------------------------- actions --------------------------------*)
(* The shape of a state.                                                   *)
Typed == /\ stream \in Seq(CellType) /\ given \in Seq(GivenType) /\ taken \in Seq(GivenType)
         /\ arrived \in 0 .. Len(stream) /\ IoShape(io) /\ open \in BOOLEAN
         /\ (over => ~open)
(* Until the connection is lost, what was sent and not taken is whole      *)
(* packets, of which the reader has the beginning of the first.            *)
Flows == \/ over
         \/ ~open /\ stream = <<>>
         \/ /\ Chain(io, stream, given, taken, open)
            /\ io = NoPacket \/ Begun(io, stream)
Inv == Typed /\ Flows

(* Which steps of PacketQueue the steps are.                               *)
AbsStep == [Queue!Next]_(Queue!vars)
LEMMA AbsTake == ~over /\ Len(taken) < Len(given)
                 /\ taken' = Append(taken, given[Len(taken) + 1])
                 /\ UNCHANGED <<given, over>> => AbsStep
  BY DEF AbsStep, Queue!Next, Queue!Take
LEMMA AbsEnd == over' = TRUE /\ UNCHANGED <<given, taken>> => AbsStep
  BY DEF AbsStep, Queue!Next, Queue!End
LEMMA AbsNothing == UNCHANGED <<given, taken, over>> => AbsStep
  BY DEF AbsStep, Queue!vars

(* Min of two numbers is one of them, and no more than the other.          *)
LEMMA MinOf ==
  ASSUME NEW a \in Nat, NEW b \in Nat
  PROVE  Min({a, b}) \in {a, b} /\ Min({a, b}) <= a /\ Min({a, b}) <= b
<1>1. \E x \in {a, b} : \A y \in {a, b} : x <= y
  BY LeastOf
<1>2. Min({a, b}) \in {a, b} /\ \A y \in {a, b} : Min({a, b}) <= y
  BY <1>1 DEF Min
<1> QED  BY <1>2

(* Between two packets, what is not taken is the stream.                   *)
LEMMA NothingIs ==
  /\ IoShape(NoPacket) /\ NoPacket.filled = 0
  /\ \A s, j : Len(s) \in Nat /\ j \in 1 .. Len(s) =>
        Total(NoPacket, s) = Len(s) /\ At(NoPacket, s, j) = s[j]
  BY DEF IoShape, NoPacket, Total, At

(* A stream that was lost or is new is a state's.                          *)
LEMMA LostIs ==
  ASSUME stream' = <<>>, arrived' = 0, given' \in Seq(GivenType), taken' \in Seq(GivenType),
         open' \in BOOLEAN, over' => ~open', IoShape(io')
  PROVE  Typed'
<1>1. stream' \in Seq(CellType) /\ arrived' \in 0 .. Len(stream')
  <2>1. <<>> \in Seq(CellType) /\ Len(<<>>) = 0
    BY EmptySeq
  <2> QED  BY <2>1
<1> QED  BY <1>1 DEF Typed

(* A new connection has nothing to take; a closed one has what it had.     *)
LEMMA EmptyChain == \A o : Chain(NoPacket, <<>>, <<>>, <<>>, o)
<1>1. Total(NoPacket, <<>>) = 0
  BY DEF Total, NoPacket
<1> QED  BY <1>1 DEF Chain

LEMMA CloseChain ==
  ASSUME NEW p, NEW s, NEW g, NEW t, Chain(p, s, g, t, TRUE)
  PROVE  Chain(p, s, g, t, FALSE)
  BY DEF Chain, Fits

(* A read of n cells of the packet q, complete or not.                     *)
LEMMA HandIs ==
  ASSUME Typed, ~over, NEW q, IoShape(q), DOMAIN q.cells = 1 .. q.size, NEW n \in Nat \ {0},
         q.filled + n <= q.size, n <= arrived,
         Chain(q, stream, given, taken, open), q.size = At(q, stream, 1).of.size,
         Hand(Filled(q, q.filled, n)), Consume(n), UNCHANGED <<open, over, given>>
  PROVE  Typed' /\ Flows' /\ AbsStep
<1> DEFINE r == Filled(q, q.filled, n)
           s == SubSeq(stream, n + 1, Len(stream))
           x == given[Len(taken) + 1]
<1>0. Len(stream) \in Nat /\ Len(given) \in Nat /\ Len(taken) \in Nat /\ arrived \in Nat
      /\ n <= Len(stream)
  BY LenProperties DEF Typed
<1>1. /\ s \in Seq(CellType) /\ Len(s) = Len(stream) - n
      /\ Received(r) => /\ Len(taken) < Len(given) /\ Unwrapped(r) = x
                        /\ Chain(NoPacket, s, given, Append(taken, x), open)
      /\ ~Received(r) => Chain(r, s, given, taken, open) /\ Begun(r, s)
  BY <1>0, ReadIs DEF Typed
<1>2. stream' = s /\ arrived' = arrived - n
  BY DEF Consume
<1>3. IF Received(r) THEN io' = NoPacket /\ taken' = Append(taken, Unwrapped(r))
      ELSE io' = r /\ UNCHANGED taken
  BY DEF Hand
<1> HIDE DEF r, s
<1>4. arrived' \in 0 .. Len(stream')
  BY <1>0, <1>1, <1>2 DEF Typed
<1>5. CASE Received(r)
  <2>1. x \in GivenType
    BY <1>0, <1>1, <1>5, ElementOfSeq DEF Typed
  <2> HIDE DEF x
  <2>2. io' = NoPacket /\ taken' = Append(taken, x) /\ taken' \in Seq(GivenType)
    <3>1. io' = NoPacket /\ taken' = Append(taken, x)
      BY <1>1, <1>3, <1>5 DEF x
    <3>2. taken \in Seq(GivenType)
      BY DEF Typed
    <3>3. Append(taken, x) \in Seq(GivenType)
      BY <2>1, <3>2, AppendProperties
    <3> QED  BY <3>1, <3>3
  <2>3. Typed'
    BY <1>1, <1>2, <1>4, <2>2, NothingIs DEF Typed
  <2>4. Flows'
    BY <1>1, <1>2, <1>5, <2>2 DEF Flows
  <2>5. AbsStep
    BY <1>1, <1>5, <2>2, AbsTake DEF x
  <2> QED  BY <2>3, <2>4, <2>5
<1>6. CASE ~Received(r)
  <2>1. io' = r /\ taken' = taken
    BY <1>3, <1>6
  <2>2. Typed'
    BY <1>1, <1>2, <1>4, <1>6, <2>1 DEF Typed, Begun
  <2>3. Flows'
    BY <1>1, <1>2, <1>6, <2>1 DEF Flows
  <2> QED  BY <2>1, <2>2, <2>3, AbsNothing
<1> QED  BY <1>5, <1>6

(* A write, whole or cut short, gives one packet or none.                  *)
LEMMA WriteStep ==
  ASSUME ~ShortSends, Inv, Write
  PROVE  Inv' /\ AbsStep
<1>1. PICK d \in DataSizes :
        \E p \in Forms(New(Len(given) + 1, d)) : \E n \in 0 .. p.size :
           /\ WriteData(p, n) \/ HandleOutputs(p, n)
           /\ given' = IF n = p.size THEN Append(given, [id |-> p.id, data |-> p.data]) ELSE given
  BY DEF Write
<1>2. PICK p \in Forms(New(Len(given) + 1, d)) : \E n \in 0 .. p.size :
           /\ WriteData(p, n) \/ HandleOutputs(p, n)
           /\ given' = IF n = p.size THEN Append(given, [id |-> p.id, data |-> p.data]) ELSE given
  BY <1>1
<1>3. PICK n \in 0 .. p.size :
           /\ WriteData(p, n) \/ HandleOutputs(p, n)
           /\ given' = IF n = p.size THEN Append(given, [id |-> p.id, data |-> p.data]) ELSE given
  BY <1>2
<1>4. /\ Typed /\ open = TRUE /\ ~over /\ Len(given) \in Nat /\ Len(stream) \in Nat
      /\ Len(given) < MaxPackets /\ UNCHANGED <<arrived, io, taken, over>>
      /\ Chain(io, stream, given, taken, TRUE) /\ (io = NoPacket \/ Begun(io, stream))
  BY LenProperties DEF Inv, Typed, Flows, Write
<1>5. p \in PacketType /\ p.id = Len(given) + 1 /\ p.data = d /\ p.size >= Header
  BY <1>4, FormsAre
<1> DEFINE s == stream \o SubSeq(Cells(p), 1, n)
           h == IF n = p.size THEN Append(given, [id |-> p.id, data |-> p.data]) ELSE given
<1>6. /\ s \in Seq(CellType) /\ Len(s) = Len(stream) + n
      /\ h \in Seq(GivenType)
      /\ Chain(io, s, h, taken, n = p.size)
      /\ \A j \in 1 .. Total(io, stream) : At(io, s, j) = At(io, stream, j)
  <2>1. /\ stream \in Seq(CellType) /\ given \in Seq(GivenType) /\ taken \in Seq(GivenType)
        /\ IoShape(io)
    BY <1>4 DEF Typed
  <2>2. /\ Chain(io, stream, given, taken, TRUE) /\ p \in PacketType
        /\ p.id = Len(given) + 1 /\ p.size >= Header /\ n \in 0 .. p.size
    BY <1>4, <1>5
  <2>3. Appended(io, given, taken, p, n)
    BY <2>1, <2>2, WriteIs
  <2> QED  BY <2>3 DEF Appended
<1>7. stream' = s /\ given' = h
  BY <1>3 DEF WriteData, HandleOutputs, Sent
<1>8. n \in Nat /\ p.size \in Nat
  BY <1>5 DEF PacketType
<1>9. open' \in BOOLEAN /\ Chain(io, s, h, taken, open')
  <2>1. CASE WriteData(p, n)
    BY <1>6, <2>1 DEF WriteData
  <2>2. CASE HandleOutputs(p, n)
    <3>1. open' = TRUE /\ (n = 0 \/ n = p.size)
      BY <1>4, <1>8, <2>2 DEF HandleOutputs
    <3>2. CASE n = p.size
      <4>1. (n = p.size) = TRUE
        BY <3>2
      <4> HIDE DEF s, h
      <4> QED  BY <1>6, <3>1, <4>1
    <3>3. CASE n = 0
      <4>1. SubSeq(Cells(p), 1, 0) = <<>>
        BY SubSeqEmpty
      <4>2. s = stream
        BY <1>4, <3>3, <4>1, ConcatEmptySeq DEF Typed
      <4>3. h = given
        BY <1>5, <3>3 DEF Header
      <4> HIDE DEF s, h
      <4> QED  BY <1>4, <3>1, <4>2, <4>3
    <3> QED  BY <3>1, <3>2, <3>3
  <2> QED  BY <1>3, <2>1, <2>2
<1>10. io = NoPacket \/ Begun(io, s)
  <2>1. ASSUME Begun(io, stream) PROVE Begun(io, s)
    <3>1. 1 \in 1 .. Total(io, stream)
      BY <1>4, <2>1 DEF Begun, Total
    <3> HIDE DEF s
    <3> QED  BY <1>6, <2>1, <3>1 DEF Begun
  <2> QED  BY <1>4, <2>1
<1>11. AbsStep
  <2>1. CASE n = p.size
    <3> DEFINE e == [id |-> p.id, data |-> p.data]
    <3>1. e \in [id : 1 .. MaxPackets, data : DataSizes]
      BY <1>4, <1>5, StreamAssumption
    <3>2. given' = Append(given, e) /\ UNCHANGED <<taken, over>>
      BY <1>4, <1>7, <2>1
    <3> HIDE DEF e
    <3> QED  BY <3>1, <3>2 DEF AbsStep, Queue!Next, Queue!Put
  <2>2. CASE n # p.size
    BY <1>4, <1>7, <2>2, AbsNothing
  <2> QED  BY <2>1, <2>2
<1> HIDE DEF s, h
<1>12. Typed'
  <2>1. arrived \in 0 .. Len(s)
    BY <1>4, <1>6, <1>8 DEF Typed
  <2> QED  BY <1>4, <1>6, <1>7, <1>9, <2>1 DEF Typed
<1>13. Flows'
  BY <1>4, <1>7, <1>9, <1>10 DEF Flows
<1> QED  BY <1>11, <1>12, <1>13 DEF Inv

(* A read into a packet that was begun, and one at the start of a packet:  *)
(* they take the next packet, none, or end the connection.                 *)
LEMMA ResumeStep ==
  ASSUME Inv, ~over, Resume, UNCHANGED <<writer, flags, given>>
  PROVE  Inv' /\ AbsStep
<1>1. Typed /\ Chain(io, stream, given, taken, open) /\ Begun(io, stream) /\ arrived \in Nat
  BY DEF Inv, Flows, Resume, Typed
<1> DEFINE n == Rest(io)
<1>2. n \in Nat \ {0} /\ io.filled + n <= io.size /\ n <= arrived
  <2>1. arrived > 0 /\ io.filled \in 1 .. io.size - 1 /\ io.size \in Nat
    BY <1>1 DEF Resume, Begun, IoShape
  <2> DEFINE b == io.size - io.filled
  <2>2. b \in Nat /\ b > 0
    BY <2>1
  <2>3. n = Min({arrived, b})
    BY DEF Rest
  <2> HIDE DEF b
  <2>4. n \in {arrived, b} /\ n <= arrived /\ n <= b
    BY <1>1, <2>2, <2>3, MinOf
  <2> HIDE DEF n
  <2> QED  BY <1>1, <2>1, <2>2, <2>4 DEF b
<1> HIDE DEF n
<1>3. CASE Hand(Filled(io, io.filled, n)) /\ Consume(n) /\ UNCHANGED <<open, over>>
  BY <1>1, <1>2, <1>3, HandIs DEF Inv, Begun
<1>4. CASE Disconnect /\ Lost /\ UNCHANGED taken
  <2>1. Inv'
    <3>1. Typed'
      BY <1>1, <1>4, NothingIs, LostIs DEF Disconnect, Lost, Typed
    <3> QED  BY <1>4, <3>1 DEF Disconnect, Inv, Flows
  <2>2. AbsStep
    BY <1>4, AbsEnd DEF Disconnect
  <2> QED  BY <2>1, <2>2
<1> QED  BY <1>3, <1>4 DEF Resume, n

LEMMA BeginStep ==
  ASSUME Inv, ~over, Begin, UNCHANGED <<writer, flags, given>>
  PROVE  Inv' /\ AbsStep
<1>1. /\ Typed /\ Chain(NoPacket, stream, given, taken, open) /\ io = NoPacket
      /\ arrived \in Nat /\ arrived >= 1 /\ Len(stream) \in Nat /\ Len(stream) >= 1
  <2>1. /\ Typed /\ io = NoPacket /\ arrived \in Nat /\ arrived >= 1
        /\ Len(stream) \in Nat /\ Len(stream) >= 1
    BY LenProperties DEF Inv, Begin, Typed, Header
  <2>2. stream # <<>>
    BY <2>1
  <2> QED  BY <2>1, <2>2 DEF Inv, Flows, Begun, NoPacket
<1> DEFINE w == stream[1].of
<1>2. /\ Total(NoPacket, stream) = Len(stream)
      /\ \A j \in 1 .. Len(stream) : At(NoPacket, stream, j) = stream[j]
  BY <1>1, NothingIs
<1>3. 1 \in 1 .. Len(stream)
  BY <1>1
<1>4. stream[1].at = 1 /\ w.size \in Nat /\ w.size >= Header
  <2>1. At(NoPacket, stream, 1).at = 1 /\ Fits(At(NoPacket, stream, 1), given, open)
    BY <1>1, <1>2, <1>3 DEF Chain
  <2>2. stream[1].at = 1 /\ Fits(stream[1], given, open)
    BY <1>2, <1>3, <2>1
  <2> QED  BY <2>2 DEF Fits, CellType, PacketType
<1> DEFINE q == [size |-> w.size, cells |-> [i \in 1 .. w.size |-> Nothing], filled |-> 0]
           n == Min({arrived, w.size})
<1>5. \/ Hand(Filled(q, 0, n)) /\ Consume(n) /\ UNCHANGED <<open, over>>
      \/ Disconnect /\ Lost /\ UNCHANGED taken
      \/ /\ io' = [q EXCEPT !.filled = SizeCells - 1]
         /\ Lost /\ UNCHANGED <<taken, over>>
  BY <1>4 DEF Begin
<1>6. IoShape(q) /\ DOMAIN q.cells = 1 .. q.size /\ q.size = w.size /\ q.filled = 0
  BY <1>4 DEF IoShape
<1>7. n \in Nat \ {0} /\ n <= arrived /\ n <= w.size
  <2> DEFINE b == w.size
  <2>1. b \in Nat /\ b >= 1
    BY <1>4 DEF Header
  <2> HIDE DEF b
  <2>2. Min({arrived, b}) \in {arrived, b} /\ Min({arrived, b}) <= arrived /\ Min({arrived, b}) <= b
    BY <1>1, <2>1, MinOf
  <2>3. n = Min({arrived, b})
    BY DEF b
  <2> HIDE DEF n
  <2> QED  BY <1>1, <2>1, <2>2, <2>3 DEF b
<1>8. IoShape([q EXCEPT !.filled = SizeCells - 1])
  BY <1>4 DEF IoShape, SizeCells
<1> HIDE DEF q, n
<1>9. /\ Total(q, stream) = Len(stream)
      /\ \A j \in 1 .. Len(stream) : At(q, stream, j) = stream[j]
  BY <1>1, <1>6 DEF Total, At
<1>10. Chain(q, stream, given, taken, open)
  BY <1>1, <1>2, <1>9, SameChain
<1>11. CASE Hand(Filled(q, 0, n)) /\ Consume(n) /\ UNCHANGED <<open, over>>
  <2>1. q.size = At(q, stream, 1).of.size
    BY <1>3, <1>6, <1>9
  <2>2. q.filled + n <= q.size
    BY <1>4, <1>6, <1>7
  <2> HIDE DEF w
  <2>3. Typed' /\ Flows' /\ AbsStep
    BY <1>1, <1>6, <1>7, <1>10, <1>11, <2>1, <2>2, HandIs
  <2> QED  BY <2>3 DEF Inv
<1>12. CASE Disconnect /\ Lost /\ UNCHANGED taken
  <2>1. Inv'
    <3>1. Typed'
      BY <1>1, <1>12, NothingIs, LostIs DEF Disconnect, Lost, Typed
    <3> QED  BY <1>12, <3>1 DEF Disconnect, Inv, Flows
  <2>2. AbsStep
    BY <1>12, AbsEnd DEF Disconnect
  <2> QED  BY <2>1, <2>2
<1>13. CASE /\ io' = [q EXCEPT !.filled = SizeCells - 1]
            /\ Lost /\ UNCHANGED <<taken, over>>
  <2>1. Inv'
    <3>1. Typed'
      BY <1>1, <1>8, <1>13, LostIs DEF Lost, Typed
    <3> QED  BY <1>13, <3>1 DEF Lost, Inv, Flows
  <2> QED  BY <1>13, <2>1, AbsNothing
<1> QED  BY <1>5, <1>11, <1>12, <1>13

(* The invariant, and the step that each step is.                          *)
LEMMA InvInit == Init => Inv /\ Queue!Init
<1> SUFFICES ASSUME Init PROVE Inv /\ Queue!Init
  OBVIOUS
<1>1. Typed
  <2>1. <<>> \in Seq(CellType) /\ <<>> \in Seq(GivenType) /\ Len(<<>>) = 0
    BY EmptySeq
  <2> QED  BY <2>1, NothingIs DEF Init, Typed
<1>2. Flows
  BY EmptyChain DEF Init, Flows
<1> QED  BY <1>1, <1>2 DEF Init, Inv, Queue!Init

LEMMA InvStep ==
  ASSUME ~ShortSends, Inv, [Next]_vars
  PROVE  Inv' /\ AbsStep
<1>1. CASE Write
  BY <1>1, WriteStep
<1>2. CASE Close
  <2>1. Typed' /\ AbsStep
    BY <1>2, AbsNothing DEF Close, Inv, Typed
  <2>2. Flows'
    <3>1. Chain(io, stream, given, taken, TRUE) /\ (io = NoPacket \/ Begun(io, stream))
      BY <1>2 DEF Close, Inv, Typed, Flows
    <3> QED  BY <1>2, <3>1, CloseChain DEF Close, Flows
  <2> QED  BY <2>1, <2>2 DEF Inv
<1>3. CASE Arrive
  <2>1. Typed'
    BY <1>3, LenProperties DEF Arrive, Inv, Typed
  <2>2. Flows'
    BY <1>3 DEF Arrive, Inv, Flows
  <2>3. AbsStep
    BY <1>3, AbsNothing DEF Arrive
  <2> QED  BY <2>1, <2>2, <2>3 DEF Inv
<1>4. CASE Read
  <2>1. ~over /\ UNCHANGED <<writer, flags, given>>
    BY <1>4 DEF Read
  <2>2. CASE Resume
    BY <2>1, <2>2, ResumeStep
  <2>3. CASE Begin
    BY <2>1, <2>3, BeginStep
  <2>4. CASE Closed
    <3>1. Inv'
      BY <2>1, <2>4, NothingIs DEF Closed, Disconnect, Inv, Typed, Flows
    <3> QED  BY <2>1, <2>4, <3>1, AbsEnd DEF Closed, Disconnect
  <2> QED  BY <1>4, <2>2, <2>3, <2>4 DEF Read
<1>5. CASE WriteFails
  <2>1. Inv'
    <3>1. Typed'
      BY <1>5, NothingIs, LostIs DEF WriteFails, Disconnect, Lost, Inv, Typed
    <3> QED  BY <1>5, <3>1 DEF WriteFails, Disconnect, Inv, Flows
  <2> QED  BY <1>5, <2>1, AbsEnd DEF WriteFails, Disconnect
<1>6. CASE Reconnect
  <2>1. Inv'
    <3>1. Typed'
      BY <1>6, NothingIs, EmptySeq, LostIs DEF Reconnect
    <3> QED  BY <1>6, <3>1, EmptyChain DEF Reconnect, Inv, Flows
  <2>2. AbsStep
    BY <1>6 DEF Reconnect, AbsStep, Queue!Next, Queue!Again
  <2> QED  BY <2>1, <2>2
<1>7. ASSUME NEW f \in {"compressed", "encrypted"}, SetFlag(f)
      PROVE  Inv' /\ AbsStep
  BY <1>7, AbsNothing DEF SetFlag, Inv, Typed, Flows
<1>8. CASE UNCHANGED vars
  BY <1>8, AbsNothing DEF vars, Inv, Typed, Flows
<1> QED  BY <1>1, <1>2, <1>3, <1>4, <1>5, <1>6, <1>7, <1>8 DEF Next

(* As long as send() takes all of a packet of the slave or nothing, the    *)
(* reader is handed the packets that were written, each once, unchanged    *)
(* and in order, however the stream is cut, the packets are wrapped, and   *)
(* the connection is lost: io_read_packet (packet.c) never goes on with a  *)
(* packet in the middle of another, and ImplementsQueue holds but for its  *)
(* fairness.                                                               *)
THEOREM PacketsKeepTheirOrder ==
  ASSUME ~ShortSends
  PROVE  Spec => Queue!Init /\ [][Queue!Next]_(Queue!vars)
<1>1. Inv /\ [Next]_vars => Inv' /\ AbsStep
  BY InvStep
<1> QED  BY <1>1, InvInit, PTL DEF Spec, AbsStep
================================================================================
