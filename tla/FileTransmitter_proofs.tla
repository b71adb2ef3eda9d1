----------------------- MODULE FileTransmitter_proofs ------------------------
(***************************************************************************)
(* Proofs about FileTransmitter, for files, blocks and names of any length *)
(* and whatever file the receiver already has.  The argument is a grammar  *)
(* of the stream: the two programs agree on where they are in it because   *)
(* what lies between them reads from the receiver's place to the sender's. *)
(***************************************************************************)
EXTENDS FileTransmitter, WellFoundedInduction, TLAPS

-----------------------------------------------------------------------------
(* A place in the stream: how many bytes of the block are left, and how    *)
(* many bytes of the file are before it.  The name is a block of NameLen   *)
(* bytes before the file; behind the last size is nothing.                 *)

Place(left, off) == [left |-> left, off |-> off]
Places == [left: Int, off: Int]
Start == Place(0, -NameLen)

(* Blocks that may begin at off.                                           *)
Fits(off, n) ==
    /\ n > 0
    /\ off < 0 => off = -NameLen /\ n = NameLen
    /\ off >= 0 => n <= Block /\ off + n <= FileLen

Content(i) == IF i <= 0 THEN Foreign ELSE i

(* unit leads from the place p to the place q.                             *)
BlockSize(p, unit, q) ==
    /\ p.left = 0 /\ Fits(p.off, q.left) /\ q.off = p.off
    /\ unit = Size(q.left)
BlockByte(p, unit, q) ==
    /\ p.left > 0 /\ q = Place(p.left - 1, p.off + 1)
    /\ unit = Byte(Content(q.off))
LastSize(p, unit, q) ==
    /\ p.left = 0 /\ p.off >= 0 /\ q = Place(-1, p.off)
    /\ \/ unit = Size(-1)
       \/ unit = Size(0) /\ p.off = FileLen
Reads(p, unit, q) ==
    BlockSize(p, unit, q) \/ BlockByte(p, unit, q) \/ LastSize(p, unit, q)

Units == [t: {"size", "byte"}, v: Int]

(* at is the place before each unit of s and behind the last.              *)
Follows(s, at) ==
    /\ at \in [0 .. Len(s) -> Places]
    /\ \A i \in 1 .. Len(s) : Reads(at[i - 1], s[i], at[i])

(* s leads from p to q.                                                    *)
Stream(s, p, q) == \E at : Follows(s, at) /\ at[0] = p /\ at[Len(s)] = q

-----------------------------------------------------------------------------
(* The grammar.                                                            *)

LEMMA Lengths == FileLen \in Nat /\ Block \in Nat /\ NameLen \in Nat /\ Block > 0 /\ NameLen > 0
  BY FileTransmitterAssumption

LEMMA Constructors ==
    /\ \A n : Size(n).t = "size" /\ Size(n).v = n
    /\ \A n : Byte(n).t = "byte" /\ Byte(n).v = n
    /\ \A n \in Int : Size(n) \in Units /\ Byte(n) \in Units
    /\ \A l, o : Place(l, o).left = l /\ Place(l, o).off = o
    /\ \A l, o \in Int : Place(l, o) \in Places
    /\ \A o \in Int : Content(o) \in Int
  BY DEF Size, Byte, Units, Place, Places, Content, Foreign

LEMMA ReadsUnit ==
    ASSUME NEW p \in Places, NEW q \in Places, NEW unit, Reads(p, unit, q)
    PROVE  /\ unit \in Units
           /\ p.left = 0 => unit.t = "size"
           /\ p.left > 0 => /\ unit = Byte(Content(p.off + 1))
                            /\ q = Place(p.left - 1, p.off + 1)
           /\ p.left >= 0
<1>1. p.left \in Int /\ p.off \in Int /\ q.left \in Int /\ q.off \in Int
  BY DEF Places
<1>2. CASE BlockSize(p, unit, q)
  BY <1>1, <1>2, Constructors DEF BlockSize
<1>3. CASE BlockByte(p, unit, q)
  <2>1. q.off = p.off + 1 /\ p.off + 1 \in Int /\ p.left > 0
    BY <1>1, <1>3 DEF BlockByte, Place
  <2>2. unit = Byte(Content(p.off + 1)) /\ q = Place(p.left - 1, p.off + 1)
    BY <1>3, <2>1 DEF BlockByte
  <2>3. unit \in Units
    <3>1. Content(p.off + 1) \in Int
      BY <2>1, Constructors
    <3> QED  BY <2>2, <3>1 DEF Byte, Units
  <2>4. ~(p.left = 0) /\ p.left >= 0
    BY <1>1, <2>1
  <2> QED  BY <2>2, <2>3, <2>4
<1>4. CASE LastSize(p, unit, q)
  BY <1>1, <1>4, Constructors DEF LastSize
<1> QED  BY <1>2, <1>3, <1>4 DEF Reads

LEMMA Nothing == ASSUME NEW p \in Places PROVE Stream(<<>>, p, p)
<1> DEFINE at == [i \in 0 .. 0 |-> p]
<1>1. Follows(<<>>, at) /\ at[0] = p /\ at[Len(<<>>)] = p
  BY DEF Follows
<1> QED  BY <1>1 DEF Stream

LEMMA NothingStays ==
    ASSUME NEW p, NEW q, Stream(<<>>, p, q)
    PROVE  p = q
  BY DEF Stream

LEMMA OneUnit ==
    ASSUME NEW p \in Places, NEW q \in Places, NEW unit, Reads(p, unit, q)
    PROVE  Stream(<<unit>>, p, q)
<1> DEFINE at == [i \in 0 .. 1 |-> IF i = 0 THEN p ELSE q]  s == <<unit>>
<1>1. Len(s) = 1 /\ s[1] = unit
  OBVIOUS
<1>2. at \in [0 .. 1 -> Places] /\ at[0] = p /\ at[1] = q
  OBVIOUS
<1>3. Follows(s, at)
  BY <1>1, <1>2 DEF Follows
<1> QED  BY <1>1, <1>2, <1>3 DEF Stream

LEMMA StreamPlaces ==
    ASSUME NEW s \in Seq(Units), NEW p, NEW q, Stream(s, p, q)
    PROVE  p \in Places /\ q \in Places
  BY DEF Stream, Follows

LEMMA Joined ==
    ASSUME NEW s \in Seq(Units), NEW u \in Seq(Units), NEW p, NEW q, NEW r,
           Stream(s, p, q), Stream(u, q, r)
    PROVE  s \o u \in Seq(Units) /\ Stream(s \o u, p, r)
<1>1. PICK f : Follows(s, f) /\ f[0] = p /\ f[Len(s)] = q
  BY DEF Stream
<1>2. PICK g : Follows(u, g) /\ g[0] = q /\ g[Len(u)] = r
  BY DEF Stream
<1> DEFINE m == Len(s)  n == Len(u)
           at == [i \in 0 .. m + n |-> IF i <= m THEN f[i] ELSE g[i - m]]
<1>3. m \in Nat /\ n \in Nat /\ s \o u \in Seq(Units) /\ Len(s \o u) = m + n
      /\ \A i \in 1 .. m + n : (s \o u)[i] = IF i <= m THEN s[i] ELSE u[i - m]
  OBVIOUS
<1>4. /\ f \in [0 .. m -> Places] /\ \A i \in 1 .. m : Reads(f[i - 1], s[i], f[i])
      /\ g \in [0 .. n -> Places] /\ \A i \in 1 .. n : Reads(g[i - 1], u[i], g[i])
  BY <1>1, <1>2 DEF Follows
<1> HIDE DEF m, n
<1>5. at \in [0 .. m + n -> Places]
  <2> SUFFICES ASSUME NEW i \in 0 .. m + n
               PROVE  (IF i <= m THEN f[i] ELSE g[i - m]) \in Places
    OBVIOUS
  <2>1. CASE i <= m
    BY <1>3, <1>4, <2>1
  <2>2. CASE ~(i <= m)
    <3>1. i - m \in 0 .. n
      BY <1>3, <2>2
    <3> QED  BY <1>4, <2>2, <3>1
  <2> QED  BY <2>1, <2>2
<1>6. at[0] = p /\ at[m + n] = r
  <2>1. at[0] = p
    BY <1>1, <1>3
  <2>2. CASE n = 0
    BY <1>1, <1>2, <1>3, <2>2 DEF m, n
  <2>3. CASE n # 0
    <3>1. ~(m + n <= m) /\ (m + n) - m = n /\ m + n \in 0 .. m + n
      BY <1>3, <2>3
    <3> QED  BY <1>2, <2>1, <3>1 DEF n
  <2> QED  BY <2>1, <2>2, <2>3
<1>7. ASSUME NEW i \in 1 .. m + n
      PROVE  Reads(at[i - 1], (s \o u)[i], at[i])
  <2>0. i - 1 \in 0 .. m + n /\ i \in 0 .. m + n
    BY <1>3
  <2>1. CASE i <= m
    <3>1. i \in 1 .. m /\ i - 1 <= m
      BY <1>3, <2>1
    <3>2. at[i - 1] = f[i - 1] /\ at[i] = f[i] /\ (s \o u)[i] = s[i]
      BY <1>3, <2>0, <2>1, <3>1
    <3> QED  BY <1>4, <3>1, <3>2
  <2>2. CASE i = m + 1
    <3>1. 1 \in 1 .. n /\ i - m = 1 /\ i - 1 = m /\ ~(i <= m) /\ 1 - 1 = 0
      BY <1>3, <2>2
    <3>2. at[i - 1] = f[m] /\ at[i] = g[1] /\ (s \o u)[i] = u[1]
      BY <1>3, <2>0, <3>1
    <3>3. f[m] = g[0]
      BY <1>1, <1>2 DEF m
    <3> QED  BY <1>4, <3>1, <3>2, <3>3
  <2>3. CASE i > m + 1
    <3>1. i - m \in 1 .. n /\ (i - m) - 1 = (i - 1) - m /\ ~(i <= m) /\ ~(i - 1 <= m)
      BY <1>3, <2>3
    <3>2. at[i - 1] = g[(i - m) - 1] /\ at[i] = g[i - m] /\ (s \o u)[i] = u[i - m]
      BY <1>3, <2>0, <3>1
    <3> QED  BY <1>4, <3>1, <3>2
  <2>4. i <= m \/ i = m + 1 \/ i > m + 1
    BY <1>3
  <2> QED  BY <2>1, <2>2, <2>3, <2>4
<1> HIDE DEF at
<1>8. Follows(s \o u, at)
  BY <1>3, <1>5, <1>7 DEF Follows
<1> QED  BY <1>3, <1>6, <1>8 DEF Stream

(* A stream can be cut anywhere: there is a place in between.              *)
LEMMA Divided ==
    ASSUME NEW s \in Seq(Units), NEW p, NEW r, Stream(s, p, r), NEW k \in 0 .. Len(s)
    PROVE  /\ SubSeq(s, 1, k) \in Seq(Units) /\ SubSeq(s, k + 1, Len(s)) \in Seq(Units)
           /\ Len(SubSeq(s, 1, k)) = k
           /\ \E q : Stream(SubSeq(s, 1, k), p, q) /\ Stream(SubSeq(s, k + 1, Len(s)), q, r)
<1>1. PICK at : Follows(s, at) /\ at[0] = p /\ at[Len(s)] = r
  BY DEF Stream
<1> DEFINE n == Len(s)  a == SubSeq(s, 1, k)  b == SubSeq(s, k + 1, n)
           f == [i \in 0 .. k |-> at[i]]  g == [i \in 0 .. n - k |-> at[k + i]]
<1>2. /\ n \in Nat /\ k \in Nat /\ k <= n /\ n - k \in Nat
      /\ a \in Seq(Units) /\ Len(a) = k /\ \A i \in 1 .. k : a[i] = s[i]
      /\ b \in Seq(Units) /\ Len(b) = n - k /\ \A i \in 1 .. n - k : b[i] = s[k + i]
  OBVIOUS
<1>3. at \in [0 .. n -> Places] /\ \A i \in 1 .. n : Reads(at[i - 1], s[i], at[i])
  BY <1>1 DEF Follows
<1> HIDE DEF n, a, b
<1>4. Follows(a, f)
  <2>1. f \in [0 .. k -> Places]
    BY <1>2, <1>3
  <2>2. ASSUME NEW i \in 1 .. k PROVE Reads(f[i - 1], a[i], f[i])
    <3>1. i \in 1 .. n /\ i - 1 \in 0 .. k /\ i \in 0 .. k
      BY <1>2
    <3> QED  BY <1>2, <1>3, <3>1
  <2> QED  BY <1>2, <2>1, <2>2 DEF Follows
<1>5. Follows(b, g)
  <2>1. g \in [0 .. n - k -> Places]
    <3> SUFFICES ASSUME NEW i \in 0 .. n - k PROVE at[k + i] \in Places
      OBVIOUS
    <3>1. k + i \in 0 .. n
      BY <1>2
    <3> QED  BY <1>3, <3>1
  <2>2. ASSUME NEW i \in 1 .. n - k PROVE Reads(g[i - 1], b[i], g[i])
    <3>1. k + i \in 1 .. n /\ i - 1 \in 0 .. n - k /\ i \in 0 .. n - k
          /\ k + (i - 1) = (k + i) - 1
      BY <1>2
    <3>2. g[i - 1] = at[(k + i) - 1] /\ g[i] = at[k + i] /\ b[i] = s[k + i]
      BY <1>2, <3>1
    <3> QED  BY <1>3, <3>1, <3>2
  <2> QED  BY <1>2, <2>1, <2>2 DEF Follows
<1>6. f[0] = p /\ f[k] = at[k] /\ g[0] = at[k] /\ g[n - k] = r
  <2>1. 0 \in 0 .. k /\ k \in 0 .. k /\ 0 \in 0 .. n - k /\ n - k \in 0 .. n - k
        /\ k + 0 = k /\ k + (n - k) = n
    BY <1>2
  <2>2. at[n] = r
    BY <1>1 DEF n
  <2> QED  BY <1>1, <2>1, <2>2
<1> HIDE DEF f, g
<1>7. Stream(a, p, at[k]) /\ Stream(b, at[k], r)
  BY <1>2, <1>4, <1>5, <1>6 DEF Stream
<1> QED  BY <1>2, <1>7 DEF a, b, n

LEMMA SameSeq ==
    ASSUME NEW S, NEW s \in Seq(S), NEW u \in Seq(S), Len(s) = 1, Len(u) = 1, s[1] = u[1]
    PROVE  s = u
<1>1. s \in [1 .. 1 -> S] /\ u \in [1 .. 1 -> S]
  OBVIOUS
<1>2. \A i \in 1 .. 1 : s[i] = u[i]
  OBVIOUS
<1> QED  BY <1>1, <1>2

(* Behind the whole of a stream.                                           *)
LEMMA FirstUnit ==
    ASSUME NEW s \in Seq(Units), NEW p, NEW r, Stream(s, p, r), s # <<>>
    PROVE  /\ Tail(s) \in Seq(Units) /\ s[1] = Head(s)
           /\ \E q \in Places : Reads(p, s[1], q) /\ Stream(Tail(s), q, r)
<1>0. Len(s) \in Nat /\ Len(s) >= 1
  OBVIOUS
<1>1. PICK q : Stream(SubSeq(s, 1, 1), p, q) /\ Stream(SubSeq(s, 2, Len(s)), q, r)
  <2>1. 1 \in 0 .. Len(s) /\ 1 + 1 = 2
    BY <1>0
  <2> QED  BY <2>1, Divided
<1>2. SubSeq(s, 1, 1) = <<s[1]>> /\ SubSeq(s, 2, Len(s)) = Tail(s) /\ Tail(s) \in Seq(Units)
      /\ s[1] = Head(s)
  <2>1. SubSeq(s, 1, 1) = <<s[1]>>
    <3>1. SubSeq(s, 1, 1) \in Seq(Units) /\ Len(SubSeq(s, 1, 1)) = 1 /\ SubSeq(s, 1, 1)[1] = s[1]
          /\ s[1] \in Units
      BY <1>0
    <3>2. <<s[1]>> \in Seq(Units) /\ Len(<<s[1]>>) = 1 /\ <<s[1]>>[1] = s[1]
      BY <3>1
    <3> QED  BY <3>1, <3>2, SameSeq
  <2>2. SubSeq(s, 2, Len(s)) = Tail(s) /\ Tail(s) \in Seq(Units) /\ s[1] = Head(s)
    BY <1>0
  <2> QED  BY <2>1, <2>2
<1>3. PICK at : Follows(<<s[1]>>, at) /\ at[0] = p /\ at[Len(<<s[1]>>)] = q
  BY <1>1, <1>2 DEF Stream
<1>4. Reads(at[1 - 1], <<s[1]>>[1], at[1]) /\ at[1] \in Places
  <2>1. Len(<<s[1]>>) = 1 /\ 1 \in 1 .. 1 /\ 1 \in 0 .. 1
    OBVIOUS
  <2> QED  BY <1>3, <2>1 DEF Follows
<1>5. 1 - 1 = 0 /\ Len(<<s[1]>>) = 1 /\ <<s[1]>>[1] = s[1]
  OBVIOUS
<1>6. Reads(p, s[1], q) /\ q \in Places
  BY <1>3, <1>4, <1>5
<1> QED  BY <1>1, <1>2, <1>6

(* A set of numbers that has 0 and with a number the next has them all up  *)
(* to a bound.                                                             *)
LEMMA UpToBound ==
    ASSUME NEW n \in Nat, NEW S, 0 \in S,
           \A i \in 0 .. n : i \in S /\ i < n => i + 1 \in S
    PROVE  \A i \in 0 .. n : i \in S
<1> SUFFICES ASSUME NEW j \in 0 .. n, j \notin S PROVE FALSE
  OBVIOUS
<1> DEFINE T == {i \in 0 .. n : i \notin S}
<1>1. T \subseteq Nat /\ T # {}
  OBVIOUS
<1>2. PICK x \in T : \A y \in T : ~(<<y, x>> \in OpToRel(<, Nat))
  BY <1>1, NatLessThanWellFounded, WFMin
<1>3. x \in 0 .. n /\ x \notin S /\ x # 0 /\ x - 1 \in 0 .. n /\ x - 1 < n
      /\ (x - 1) + 1 = x
  <2>1. x \in 0 .. n /\ x \notin S /\ x # 0
    OBVIOUS
  <2> QED  BY <2>1
<1>4. x - 1 \in T
  BY <1>3
<1>5. <<x - 1, x>> \in OpToRel(<, Nat)
  BY <1>3 DEF OpToRel
<1> QED  BY <1>2, <1>4, <1>5

(* Inside a block every unit is the next byte of it.                       *)
LEMMA InBlock ==
    ASSUME NEW s \in Seq(Units), NEW p, NEW r, Stream(s, p, r),
           NEW k \in 0 .. Len(s), k <= p.left
    PROVE  /\ \A i \in 1 .. k : s[i] = Byte(Content(p.off + i))
           /\ SubSeq(s, k + 1, Len(s)) \in Seq(Units)
           /\ Stream(SubSeq(s, k + 1, Len(s)), Place(p.left - k, p.off + k), r)
<1>1. PICK at : Follows(s, at) /\ at[0] = p /\ at[Len(s)] = r
  BY DEF Stream
<1> DEFINE n == Len(s)
<1>2. n \in Nat /\ k \in Nat /\ k <= n
  OBVIOUS
<1>3. at \in [0 .. n -> Places] /\ \A i \in 1 .. n : Reads(at[i - 1], s[i], at[i])
  BY <1>1 DEF Follows
<1>4. p \in Places /\ p.left \in Int /\ p.off \in Int /\ at[0] = p
  <2>1. p \in Places
    BY StreamPlaces
  <2> QED  BY <1>1, <2>1 DEF Places
<1> HIDE DEF n
<1> DEFINE Inner == {i \in 0 .. k : at[i] = Place(p.left - i, p.off + i)}
<1>5. 0 \in Inner
  BY <1>2, <1>4 DEF Place, Places
<1>6. ASSUME NEW i \in 0 .. k, i \in Inner, i < k
      PROVE  /\ i + 1 \in Inner
             /\ s[i + 1] = Byte(Content(p.off + (i + 1)))
  <2>1. i + 1 \in 1 .. n /\ i + 1 \in 0 .. k /\ (i + 1) - 1 = i /\ i \in 0 .. n /\ i + 1 \in 0 .. n
    BY <1>2, <1>6
  <2> DEFINE b == Place(p.left - i, p.off + i)  c == at[i + 1]
  <2>2. Reads(b, s[i + 1], c) /\ b \in Places /\ c \in Places
    BY <1>3, <1>6, <2>1
  <2>3. b.left = p.left - i /\ b.off = p.off + i /\ b.left > 0
    BY <1>2, <1>4, <1>6 DEF Place
  <2> HIDE DEF b, c
  <2>4. s[i + 1] = Byte(Content(b.off + 1)) /\ c = Place(b.left - 1, b.off + 1)
    BY <2>2, <2>3, ReadsUnit
  <2>5. b.off + 1 = p.off + (i + 1) /\ b.left - 1 = p.left - (i + 1)
    BY <1>2, <1>4, <2>3
  <2>6. at[i + 1] = Place(p.left - (i + 1), p.off + (i + 1))
    BY <2>4, <2>5 DEF c
  <2> QED  BY <2>1, <2>4, <2>5, <2>6
<1> HIDE DEF Inner
<1>7. \A i \in 0 .. k : i \in Inner
  BY <1>2, <1>5, <1>6, UpToBound
<1>8. ASSUME NEW i \in 1 .. k PROVE s[i] = Byte(Content(p.off + i))
  <2>1. i - 1 \in 0 .. k /\ i - 1 < k /\ (i - 1) + 1 = i
    BY <1>2
  <2> QED  BY <1>6, <1>7, <2>1
<1>9. at[k] = Place(p.left - k, p.off + k)
  BY <1>2, <1>7 DEF Inner
<1>10. SubSeq(s, k + 1, Len(s)) \in Seq(Units)
       /\ Stream(SubSeq(s, k + 1, Len(s)), at[k], r)
  <2> DEFINE b == SubSeq(s, k + 1, n)  g == [i \in 0 .. n - k |-> at[k + i]]
  <2>1. n - k \in Nat /\ b \in Seq(Units) /\ Len(b) = n - k
        /\ \A i \in 1 .. n - k : b[i] = s[k + i]
    BY <1>2 DEF n
  <2> HIDE DEF b
  <2>2. g \in [0 .. n - k -> Places]
    <3> SUFFICES ASSUME NEW i \in 0 .. n - k PROVE at[k + i] \in Places
      OBVIOUS
    <3>1. k + i \in 0 .. n
      BY <1>2
    <3> QED  BY <1>3, <3>1
  <2>3. ASSUME NEW i \in 1 .. n - k PROVE Reads(g[i - 1], b[i], g[i])
    <3>1. k + i \in 1 .. n /\ i - 1 \in 0 .. n - k /\ i \in 0 .. n - k
          /\ k + (i - 1) = (k + i) - 1
      BY <1>2
    <3>2. g[i - 1] = at[(k + i) - 1] /\ g[i] = at[k + i] /\ b[i] = s[k + i]
      BY <2>1, <3>1
    <3> QED  BY <1>3, <3>1, <3>2
  <2>4. g[0] = at[k] /\ g[n - k] = r
    <3>1. 0 \in 0 .. n - k /\ n - k \in 0 .. n - k /\ k + 0 = k /\ k + (n - k) = n
      BY <1>2
    <3>2. at[n] = r
      BY <1>1 DEF n
    <3> QED  BY <3>1, <3>2
  <2> HIDE DEF g
  <2>5. Stream(b, at[k], r)
    BY <2>1, <2>2, <2>3, <2>4 DEF Stream, Follows
  <2> QED  BY <2>1, <2>5 DEF b, n
<1> QED  BY <1>8, <1>9, <1>10

(* The first k bytes of what is left of a block.                           *)
Part(off, k) == [i \in 1 .. k |-> Byte(Content(off + i))]

LEMMA BlockPart ==
    ASSUME NEW left \in Int, NEW off \in Int, NEW k \in Nat, k <= left
    PROVE  /\ Part(off, k) \in Seq(Units)
           /\ Stream(Part(off, k), Place(left, off), Place(left - k, off + k))
<1> DEFINE s == Part(off, k)  at == [i \in 0 .. k |-> Place(left - i, off + i)]
<1>1. s \in Seq(Units) /\ Len(s) = k
  <2>1. \A i \in 1 .. k : Byte(Content(off + i)) \in Units
    BY Constructors
  <2> QED  BY <2>1 DEF Part
<1>2. at \in [0 .. k -> Places]
  BY Constructors
<1>3. ASSUME NEW i \in 1 .. k PROVE Reads(at[i - 1], s[i], at[i])
  <2>1. i - 1 \in 0 .. k /\ i \in 0 .. k /\ (left - (i - 1)) - 1 = left - i
        /\ (off + (i - 1)) + 1 = off + i /\ left - (i - 1) > 0
    OBVIOUS
  <2>2. at[i - 1] = Place(left - (i - 1), off + (i - 1)) /\ at[i] = Place(left - i, off + i)
        /\ s[i] = Byte(Content(off + i))
    BY <2>1 DEF Part
  <2>3. BlockByte(at[i - 1], s[i], at[i])
    BY <2>1, <2>2 DEF BlockByte, Place
  <2> QED  BY <2>3 DEF Reads
<1>4. at[0] = Place(left, off) /\ at[k] = Place(left - k, off + k)
  OBVIOUS
<1> HIDE DEF s, at
<1>5. Follows(s, at)
  BY <1>1, <1>2, <1>3 DEF Follows
<1> QED  BY <1>1, <1>4, <1>5 DEF Stream, s

-----------------------------------------------------------------------------
(* The inductive invariant.                                                *)

(* Nothing will ever be received any more.                                 *)
Drained == closed /\ net = <<>>

(* Where the receiver is in the stream, unless it is at its end, where the *)
(* receiver gets no further.                                               *)
ReceiverAt(p) ==
    /\ p.off <= FileLen
    /\ rpc \in {"setup", "accept", "namelen"} => p = Start
    /\ rpc \in {"namelen", "name"} => len \in Nat
    /\ rpc = "name" => Drained \/ (len = NameLen /\ p = Place(NameLen, -NameLen))
    /\ rpc = "create" => Drained \/ (named = NameLen /\ p = Place(0, 0))
    /\ rpc = "len" => Drained \/ (p.left = 0 /\ p.off >= 0)
    /\ rpc = "data" => /\ p.off >= 0 /\ p.left = len
                       /\ len = -1 \/ Fits(p.off, len)
    /\ rpc = "write" =>
          /\ 0 < rc /\ rc <= len /\ len <= Block /\ rc <= p.off
          /\ Drained \/ (rc = len /\ p.left = 0)
          /\ \A i \in 1 .. rc : recvBuf[i] = (p.off - rc) + i

(* Where the sender is in it.                                              *)
SenderAt(q) ==
    /\ spc \in {"connect", "open", "name"} => net = <<>> /\ sent = 0 /\ q = Start
    /\ spc \in {"read", "size", "last"} => q = Place(0, sent)
    /\ spc = "data" => q = Place(size, sent)
    /\ spc \in {"size", "data"} => Fits(sent, size)
    /\ spc = "last" => size = -1 \/ (size = 0 /\ sent = FileLen)

(* What is in the file of what has been received.                          *)
WrittenAt(p) ==
    /\ rpc \in {"setup", "accept", "namelen", "name", "create"} =>
          pos = 0 /\ good = 0 /\ ~failed
    /\ rpc \in {"len", "data"} => \/ /\ pos <= p.off
                                     /\ ~failed => pos = p.off /\ good = p.off
                                  \/ rpc = "len" /\ Drained
    /\ rpc = "write" => /\ pos <= p.off - rc
                        /\ ~failed => pos = p.off - rc /\ good = p.off - rc

Ending ==
    /\ closed => spc = "end"
    /\ rpc # "end" => how = "running"
    /\ how = "complete" /\ ~failed => good = FileLen
    /\ ~failed /\ pos # good => Drained /\ pos - good < Block /\ how # "complete"
    /\ dest = "other" => pos = 0 /\ Drained /\ rpc \in {"len", "end"}

FileHas ==
    /\ good <= pos /\ pos <= Len(file)
    /\ PrefixWritten

SenderTypes ==
    /\ spc \in {"connect", "open", "name", "read", "size", "data", "last", "end"}
    /\ sent \in 0 .. FileLen /\ size \in -1 .. Block
    /\ up \in BOOLEAN /\ closed \in BOOLEAN
    /\ net \in Seq(Units) /\ arrived \in 0 .. Len(net)

ReceiverTypes ==
    /\ rpc \in {"setup", "accept", "namelen", "name", "create", "len", "data",
                "write", "end"}
    /\ len \in Int /\ rc \in 0 .. Block
    /\ recvBuf \in [1 .. Block -> 0 .. FileLen]
    /\ named \in 0 .. NameLen /\ dest \in {"none", "other", "file"}
    /\ file \in Seq(Int) /\ pos \in 0 .. (FileLen + Block) /\ good \in 0 .. FileLen
    /\ failed \in BOOLEAN /\ how \in {"running", "cut", "complete"}

Types == SenderTypes /\ ReceiverTypes

IInv ==
    /\ Types /\ Ending /\ FileHas
    /\ \E p, q \in Places :
          Stream(net, p, q) /\ ReceiverAt(p) /\ WrittenAt(p) /\ SenderAt(q)

LEMMA TypesAreOK == ASSUME Types PROVE TypeOK
<1>1. \A i \in DOMAIN net : net[i].t \in {"size", "byte"}
  <2>1. ASSUME NEW i \in DOMAIN net PROVE net[i].t \in {"size", "byte"}
    <3>1. net[i] \in Units
      BY DEF Types, SenderTypes
    <3> QED  BY <3>1 DEF Units
  <2> QED  BY <2>1
<1> QED  BY <1>1, Zenon DEF Types, TypeOK, SenderTypes, ReceiverTypes

-----------------------------------------------------------------------------
(* The initial state.                                                      *)
LEMMA InitIInv == Init => IInv
<1> SUFFICES ASSUME Init PROVE IInv
  OBVIOUS
<1>0. Start \in Places /\ Start.left = 0 /\ Start.off = -NameLen
  BY Lengths DEF Start, Place, Places
<1>1. PICK n \in OldLens : file = [i \in 1 .. n |-> Old]
  BY DEF Init
<1>2. file \in Seq(Int) /\ Len(file) \in Nat
  <2>1. n \in Nat /\ Old \in Int
    BY FileTransmitterAssumption DEF Old
  <2> QED  BY <1>1, <2>1
<1>3. Types
  <2>1. recvBuf \in [1 .. Block -> 0 .. FileLen]
    BY Lengths DEF Init, Foreign
  <2>2. /\ spc \in {"connect", "open", "name", "read", "size", "data", "last", "end"}
        /\ rpc \in {"setup", "accept", "namelen", "name", "create", "len", "data", "write", "end"}
        /\ how \in {"running", "cut", "complete"} /\ dest \in {"none", "other", "file"}
        /\ up \in BOOLEAN /\ closed \in BOOLEAN /\ failed \in BOOLEAN
    BY Zenon DEF Init
  <2>3. /\ sent \in 0 .. FileLen /\ size \in -1 .. Block /\ arrived \in 0 .. Len(net)
        /\ rc \in 0 .. Block /\ named \in 0 .. NameLen /\ pos \in 0 .. (FileLen + Block)
        /\ good \in 0 .. FileLen /\ len \in Int /\ net \in Seq(Units)
    BY Lengths DEF Init
  <2> QED  BY <1>2, <2>1, <2>2, <2>3 DEF Types, SenderTypes, ReceiverTypes
<1>4. Ending
  BY DEF Init, Ending
<1>5. FileHas
  <2>1. good = 0 /\ pos = 0
    BY DEF Init
  <2>2. 0 <= Len(file)
    BY <1>2
  <2>3. PrefixWritten
    BY <2>1 DEF PrefixWritten
  <2> QED  BY <2>1, <2>2, <2>3 DEF FileHas
<1>6. Stream(net, Start, Start)
  BY <1>0, Nothing DEF Init
<1>7. ReceiverAt(Start) /\ WrittenAt(Start) /\ SenderAt(Start)
  BY <1>0, Lengths DEF Init, ReceiverAt, WrittenAt, SenderAt
<1> QED  BY <1>0, <1>3, <1>4, <1>5, <1>6, <1>7 DEF IInv

-----------------------------------------------------------------------------
(* A step of the sender or of the network leads the stream elsewhere from  *)
(* the receiver's place.                                                   *)

LEMMA SenderKeeps ==
    ASSUME IInv, UNCHANGED receiver, SenderTypes', closed' => spc' = "end",
           Drained => Drained',
           NEW p \in Places, ReceiverAt(p), WrittenAt(p),
           NEW r \in Places, Stream(net', p, r), SenderAt(r)'
    PROVE  IInv'
<1>1. UNCHANGED <<rpc, len, rc, recvBuf, named, dest, file, pos, good, failed, how>>
  BY DEF receiver
<1>2. Types'
  BY <1>1 DEF IInv, Types, ReceiverTypes
<1>3. Ending'
  BY <1>1 DEF IInv, Ending
<1>4. FileHas'
  BY <1>1 DEF IInv, FileHas, PrefixWritten
<1>5. ReceiverAt(p)' /\ WrittenAt(p)'
  BY <1>1 DEF ReceiverAt, WrittenAt
<1> QED  BY <1>2, <1>3, <1>4, <1>5 DEF IInv

(* What the two programs send, and where it leads.                         *)

LEMMA NameLeads ==
    /\ <<Size(NameLen)>> \in Seq(Units) /\ Name \in Seq(Units) /\ Len(Name) = NameLen
    /\ <<Size(NameLen)>> \o Name \in Seq(Units)
    /\ Stream(<<Size(NameLen)>> \o Name, Start, Place(0, 0))
<1> DEFINE full == Place(NameLen, -NameLen)
<1>1. Start \in Places /\ full \in Places /\ Size(NameLen) \in Units
  BY Lengths, Constructors DEF Start
<1>2. Reads(Start, Size(NameLen), full)
  BY Lengths DEF Reads, BlockSize, Fits, Start, Place
<1>3. Stream(<<Size(NameLen)>>, Start, full) /\ <<Size(NameLen)>> \in Seq(Units)
  BY <1>1, <1>2, OneUnit
<1>4. Name = Part(-NameLen, NameLen)
  <2>1. \A i \in 1 .. NameLen : Content(-NameLen + i) = Foreign
    BY Lengths DEF Content
  <2> QED  BY <2>1 DEF Name, Part
<1>5. Name \in Seq(Units) /\ Stream(Name, full, Place(0, 0))
  <2>1. -NameLen \in Int /\ NameLen \in Int /\ NameLen \in Nat /\ NameLen <= NameLen
        /\ NameLen - NameLen = 0 /\ -NameLen + NameLen = 0
    BY Lengths
  <2>2. /\ Part(-NameLen, NameLen) \in Seq(Units)
        /\ Stream(Part(-NameLen, NameLen), Place(NameLen, -NameLen),
                  Place(NameLen - NameLen, -NameLen + NameLen))
    BY <2>1, BlockPart
  <2> QED  BY <1>4, <2>1, <2>2
<1>6. Len(Name) = NameLen
  BY Lengths DEF Name
<1> QED  BY <1>3, <1>5, <1>6, Joined

LEMMA BytesLead ==
    ASSUME NEW off \in Nat, NEW n \in Int, NEW k \in Nat, k <= n
    PROVE  /\ Bytes(off, k) \in Seq(Units)
           /\ Stream(Bytes(off, k), Place(n, off), Place(n - k, off + k))
<1>1. Bytes(off, k) = Part(off, k)
  <2>1. \A i \in 1 .. k : Content(off + i) = off + i
    BY DEF Content
  <2> QED  BY <2>1 DEF Bytes, Part
<1> QED  BY <1>1, BlockPart

(* Any number of units at the start of a stream.                           *)
LEMMA Beginning ==
    ASSUME NEW s \in Seq(Units), NEW p, NEW r, Stream(s, p, r), NEW k \in 0 .. Len(s)
    PROVE  /\ SubSeq(s, 1, k) \in Seq(Units) /\ Len(SubSeq(s, 1, k)) = k
           /\ \E q \in Places : Stream(SubSeq(s, 1, k), p, q)
<1>1. /\ SubSeq(s, 1, k) \in Seq(Units) /\ SubSeq(s, k + 1, Len(s)) \in Seq(Units)
      /\ Len(SubSeq(s, 1, k)) = k
      /\ \E q : Stream(SubSeq(s, 1, k), p, q) /\ Stream(SubSeq(s, k + 1, Len(s)), q, r)
  BY Divided
<1>2. PICK q : Stream(SubSeq(s, 1, k), p, q)
  BY <1>1
<1>3. q \in Places
  BY <1>1, <1>2, StreamPlaces
<1> QED  BY <1>1, <1>2, <1>3

(* The network and the sender never take anything back that has arrived,   *)
(* and a sender that has not ended has not closed its side.                *)
LEMMA Appends ==
    ASSUME SenderTypes, NEW u \in Seq(Units), net' = net \o u, UNCHANGED arrived
    PROVE  net' \in Seq(Units) /\ arrived' \in 0 .. Len(net')
<1>1. net \in Seq(Units) /\ arrived \in 0 .. Len(net)
  BY DEF SenderTypes
<1>2. net \o u \in Seq(Units) /\ Len(net \o u) = Len(net) + Len(u)
      /\ Len(net) \in Nat /\ Len(u) \in Nat
  BY <1>1
<1> QED  BY <1>1, <1>2

LEMMA AppendsOne ==
    ASSUME SenderTypes, NEW unit \in Units, net' = Append(net, unit)
    PROVE  net' = net \o <<unit>> /\ <<unit>> \in Seq(Units)
  BY DEF SenderTypes

-----------------------------------------------------------------------------
(* The steps of the sender and of the network keep the invariant.          *)

LEMMA SenderFacts ==
    ASSUME SenderTypes
    PROVE  /\ sent \in Int /\ 0 <= sent /\ sent <= FileLen /\ size \in Int
           /\ -1 <= size /\ size <= Block
           /\ net \in Seq(Units) /\ Len(net) \in Nat
           /\ arrived \in Int /\ 0 <= arrived /\ arrived <= Len(net)
  BY Lengths DEF SenderTypes

LEMMA SenderIInv == ASSUME IInv, Sender PROVE IInv'
<1>0. /\ Types /\ SenderTypes /\ (closed => spc = "end") /\ UNCHANGED receiver
      /\ spc # "end" /\ ~closed /\ ~Drained
  <2>1. Types /\ SenderTypes /\ (closed => spc = "end")
    BY DEF IInv, Types, Ending
  <2>2. spc # "end" /\ UNCHANGED receiver
    BY DEF Sender, Connect, ConnectFail, OpenSource, OpenSourceFail, SendName, Read,
           ReadFail, SendSize, SendData, SendLast
  <2> QED  BY <2>1, <2>2 DEF Drained
<1>1. PICK p \in Places, q \in Places :
         Stream(net, p, q) /\ ReceiverAt(p) /\ WrittenAt(p) /\ SenderAt(q)
  BY DEF IInv
(* What is left of SenderKeeps when nothing is sent.                       *)
<1>2. ASSUME spc' \in {"connect", "open", "name", "read", "size", "data", "last", "end"},
             sent' = sent, size' \in -1 .. Block, up' \in BOOLEAN, closed' \in BOOLEAN,
             closed' => spc' = "end", net' = net, arrived' = arrived, SenderAt(q)'
      PROVE  IInv'
  <2>1. SenderTypes'
    BY <1>0, <1>2 DEF SenderTypes
  <2> QED  BY <1>0, <1>1, <1>2, <2>1, SenderKeeps
<1>3. ASSUME spc' \in {"read", "data", "end"}, sent' \in 0 .. FileLen, size' = size,
             up' = up, closed' \in BOOLEAN, closed' => spc' = "end", arrived' = arrived,
             NEW u \in Seq(Units), net' = net \o u,
             NEW r \in Places, Stream(u, q, r), SenderAt(r)'
      PROVE  IInv'
  <2>1. net' \in Seq(Units) /\ arrived' \in 0 .. Len(net')
    BY <1>0, <1>3, Appends
  <2>2. SenderTypes'
    BY <1>0, <1>3, <2>1 DEF SenderTypes
  <2>3. Stream(net', p, r)
    <3>1. net \in Seq(Units)
      BY <1>0 DEF SenderTypes
    <3> QED  BY <1>1, <1>3, <3>1, Joined
  <2> QED  BY <1>0, <1>1, <1>3, <2>2, <2>3, SenderKeeps
<1>4. CASE Connect
  <2>1. spc' = "open" /\ up' = TRUE /\ UNCHANGED <<sent, size, net, closed, arrived>>
        /\ SenderAt(q)'
    BY <1>1, <1>4 DEF Connect, SenderAt
  <2>2. size' \in -1 .. Block /\ up' \in BOOLEAN /\ closed' \in BOOLEAN
        /\ spc' \in {"connect", "open", "name", "read", "size", "data", "last", "end"}
        /\ (closed' => spc' = "end")
    BY <1>0, <2>1 DEF SenderTypes
  <2> QED  BY <1>2, <2>1, <2>2
<1>5. CASE ConnectFail \/ OpenSource \/ OpenSourceFail
  <2>1. /\ \/ spc' = "end"
           \/ spc = "open" /\ spc' = "name" /\ closed' = closed
        /\ closed' \in {closed, TRUE}
        /\ UNCHANGED <<sent, size, up, net, arrived>>
    <3>1. CASE ConnectFail
      BY <3>1 DEF ConnectFail, connection
    <3>2. CASE OpenSource
      BY <3>2 DEF OpenSource, connection
    <3>3. CASE OpenSourceFail
      BY <3>3 DEF OpenSourceFail
    <3> QED  BY <1>5, <3>1, <3>2, <3>3
  <2>2. size' \in -1 .. Block /\ up' \in BOOLEAN /\ closed' \in BOOLEAN
        /\ spc' \in {"connect", "open", "name", "read", "size", "data", "last", "end"}
    BY <1>0, <2>1 DEF SenderTypes
  <2>3. SenderAt(q)'
    BY <1>1, <2>1 DEF SenderAt
  <2>4. closed' => spc' = "end"
    BY <1>0, <2>1
  <2> QED  BY <1>2, <2>1, <2>2, <2>3, <2>4
<1>6. CASE SendName
  <2>1. /\ spc = "name" /\ spc' = "read" /\ UNCHANGED <<sent, size, up, closed, arrived>>
        /\ net' = net \o (<<Size(NameLen)>> \o Name)
    <3>1. /\ spc = "name" /\ spc' = "read" /\ UNCHANGED <<sent, size, up, closed, arrived>>
          /\ net' = net \o <<Size(NameLen)>> \o Name
      BY <1>6 DEF SendName
    <3>2. net = <<>>
      BY <1>1, <3>1 DEF SenderAt
    <3>3. net' = <<Size(NameLen)>> \o Name /\ net \o (<<Size(NameLen)>> \o Name) = <<Size(NameLen)>> \o Name
      <4>1. <<Size(NameLen)>> \in Seq(Units) /\ Name \in Seq(Units) /\ <<>> \in Seq(Units)
        BY NameLeads
      <4>2. \A s \in Seq(Units) : <<>> \o s = s
        OBVIOUS
      <4>3. <<Size(NameLen)>> \o Name \in Seq(Units)
        BY <4>1
      <4> QED  BY <3>1, <3>2, <4>1, <4>2, <4>3
    <3> QED  BY <3>1, <3>3
  <2>2. q = Start /\ sent = 0
    BY <1>1, <2>1 DEF SenderAt
  <2>3. Place(0, 0) \in Places
    BY Constructors
  <2>4. SenderAt(Place(0, 0))'
    BY <2>1, <2>2 DEF SenderAt
  <2> QED  BY <1>0, <1>3, <2>1, <2>2, <2>3, <2>4, NameLeads DEF SenderTypes
<1>7. CASE Read \/ ReadFail
  <2>1. spc = "read" /\ UNCHANGED <<sent, up, net, closed, arrived>>
    BY <1>7 DEF Read, ReadFail, connection
  <2>2. /\ spc' \in {"size", "last"} /\ size' \in -1 .. Block
        /\ spc' = "size" => Fits(sent, size')
        /\ spc' = "last" => size' = -1 \/ (size' = 0 /\ sent = FileLen)
    <3>1. CASE ReadFail
      BY <3>1, Lengths DEF ReadFail
    <3>2. CASE Read /\ sent < FileLen
      <4>1. PICK n \in 1 .. Least(Block, FileLen - sent) : size' = n /\ spc' = "size"
        BY <3>2 DEF Read
      <4>2. n \in Int /\ n > 0 /\ n <= Block /\ sent + n <= FileLen
        BY <1>0, <4>1, Lengths, SenderFacts DEF Least
      <4>3. Fits(sent, n)
        BY <1>0, <4>2, Lengths, SenderFacts DEF Fits
      <4>4. n \in -1 .. Block
        BY <4>2, Lengths
      <4> QED  BY <4>1, <4>3, <4>4
    <3>3. CASE Read /\ ~(sent < FileLen)
      <4>1. size' = 0 /\ spc' = "last"
        BY <3>3 DEF Read
      <4>2. sent = FileLen
        BY <1>0, <3>3, Lengths, SenderFacts
      <4> QED  BY <4>1, <4>2, Lengths
    <3> QED  BY <1>7, <3>1, <3>2, <3>3
  <2>3. SenderAt(q)'
    BY <1>1, <2>1, <2>2 DEF SenderAt
  <2>4. up' \in BOOLEAN /\ closed' \in BOOLEAN /\ ~closed'
    BY <1>0, <2>1 DEF SenderTypes
  <2> QED  BY <1>2, <2>1, <2>2, <2>3, <2>4
<1>8. CASE SendSize
  <2>1. /\ spc = "size" /\ spc' = "data" /\ UNCHANGED <<sent, size, up, closed, arrived>>
        /\ net' = Append(net, Size(size))
    BY <1>8 DEF SendSize
  <2>2. q = Place(0, sent) /\ Fits(sent, size)
    BY <1>1, <2>1 DEF SenderAt
  <2>3. Place(size, sent) \in Places /\ Size(size) \in Units
    BY <1>0, SenderFacts, Constructors
  <2>4. PICK r \in Places : r = Place(size, sent)
    BY <2>3
  <2>5. Stream(<<Size(size)>>, q, r)
    <3>1. BlockSize(q, Size(size), r)
      BY <2>2, <2>4 DEF BlockSize, Place
    <3> QED  BY <2>3, <3>1, OneUnit DEF Reads
  <2>6. SenderAt(r)'
    BY <2>1, <2>2, <2>4 DEF SenderAt
  <2>7. net' = net \o <<Size(size)>> /\ <<Size(size)>> \in Seq(Units)
    BY <1>0, <2>1, <2>3, AppendsOne
  <2>8. sent' \in 0 .. FileLen /\ closed' \in BOOLEAN /\ ~closed'
    BY <1>0, <2>1 DEF SenderTypes
  <2> QED  BY <1>3, <2>1, <2>5, <2>6, <2>7, <2>8
<1>9. CASE SendData
  <2>1. /\ spc = "data" /\ spc' = "read" /\ UNCHANGED <<size, up, closed, arrived>>
        /\ net' = net \o Bytes(sent, size) /\ sent' = sent + size
    BY <1>9 DEF SendData
  <2>2. q = Place(size, sent) /\ Fits(sent, size)
    BY <1>1, <2>1 DEF SenderAt
  <2>3. sent \in Nat /\ size \in Nat /\ size \in Int /\ size <= size /\ size - size = 0
        /\ sent + size \in 0 .. FileLen /\ sent + size \in Int
    BY <1>0, <2>2, SenderFacts, Lengths DEF Fits
  <2>4. PICK r \in Places : r = Place(0, sent + size)
    BY <2>3, Constructors
  <2>5. Bytes(sent, size) \in Seq(Units) /\ Stream(Bytes(sent, size), q, r)
    <3>1. /\ Bytes(sent, size) \in Seq(Units)
          /\ Stream(Bytes(sent, size), Place(size, sent), Place(size - size, sent + size))
      BY <2>3, BytesLead
    <3> QED  BY <2>2, <2>3, <2>4, <3>1
  <2>6. SenderAt(r)'
    BY <2>1, <2>4 DEF SenderAt
  <2>7. closed' \in BOOLEAN /\ ~closed' /\ sent' \in 0 .. FileLen
    BY <1>0, <2>1, <2>3 DEF SenderTypes
  <2> QED  BY <1>3, <2>1, <2>4, <2>5, <2>6, <2>7
<1>10. CASE SendLast
  <2>1. /\ spc = "last" /\ spc' = "end" /\ closed' = TRUE /\ UNCHANGED <<sent, size, up, arrived>>
        /\ net' = Append(net, Size(size))
    BY <1>10 DEF SendLast
  <2>2. q = Place(0, sent) /\ (size = -1 \/ (size = 0 /\ sent = FileLen))
    BY <1>1, <2>1 DEF SenderAt
  <2>3. Place(-1, sent) \in Places /\ Size(size) \in Units /\ sent >= 0
    BY <1>0, SenderFacts, Constructors
  <2>4. PICK r \in Places : r = Place(-1, sent)
    BY <2>3
  <2>5. Stream(<<Size(size)>>, q, r)
    <3>1. LastSize(q, Size(size), r)
      BY <2>2, <2>3, <2>4 DEF LastSize, Place
    <3> QED  BY <2>3, <3>1, OneUnit DEF Reads
  <2>6. SenderAt(r)'
    BY <2>1 DEF SenderAt
  <2>7. net' = net \o <<Size(size)>> /\ <<Size(size)>> \in Seq(Units)
    BY <1>0, <2>1, <2>3, AppendsOne
  <2>8. sent' \in 0 .. FileLen
    BY <1>0, <2>1 DEF SenderTypes
  <2> QED  BY <1>3, <2>1, <2>5, <2>6, <2>7, <2>8
<1> QED  BY <1>4, <1>5, <1>6, <1>7, <1>8, <1>9, <1>10 DEF Sender

LEMMA SenderDiesIInv == ASSUME IInv, SenderDies PROVE IInv'
<1>0. /\ SenderTypes /\ (closed => spc = "end") /\ UNCHANGED receiver
      /\ spc # "end" /\ ~closed /\ ~Drained
      /\ spc' = "end" /\ closed' = TRUE /\ UNCHANGED <<sent, size, up, arrived>>
  BY DEF IInv, Types, Ending, SenderDies, Drained
<1>1. PICK p \in Places, q \in Places :
         Stream(net, p, q) /\ ReceiverAt(p) /\ WrittenAt(p) /\ SenderAt(q)
  BY DEF IInv
<1>2. /\ net' \in Seq(Units) /\ Len(net) <= Len(net')
      /\ \E r \in Places : Stream(net', p, r)
  <2>1. CASE spc = "name"
    <3> DEFINE full == <<Size(NameLen)>> \o Name
    <3>1. full \in Seq(Units) /\ Len(full) = NameLen + 1 /\ Stream(full, Start, Place(0, 0))
      <4>1. Len(full) = 1 + Len(Name)
        BY NameLeads
      <4> QED  BY <4>1, NameLeads, Lengths
    <3>2. PICK k \in 0 .. NameLen + 1 : net' = SubSeq(full, 1, k)
      <4>1. net' \in {SubSeq(<<Size(NameLen)>> \o Name, 1, k) : k \in 0..NameLen + 1}
        BY <2>1 DEF SenderDies
      <4> QED  BY <4>1
    <3>3. net = <<>> /\ q = Start /\ p = Start
      <4>1. net = <<>> /\ q = Start
        BY <1>1, <2>1 DEF SenderAt
      <4> QED  BY <1>1, <4>1, NothingStays
    <3> HIDE DEF full
    <3>4. /\ SubSeq(full, 1, k) \in Seq(Units) /\ Len(SubSeq(full, 1, k)) = k
          /\ \E r \in Places : Stream(SubSeq(full, 1, k), Start, r)
      BY <3>1, <3>2, Beginning
    <3>5. Len(net) = 0 /\ 0 <= k
      BY <3>2, <3>3
    <3> QED  BY <3>2, <3>3, <3>4, <3>5
  <2>2. CASE spc = "data"
    <3>1. PICK k \in 0 .. size : net' = net \o Bytes(sent, k)
      BY <2>2 DEF SenderDies
    <3>2. q = Place(size, sent)
      BY <1>1, <2>2 DEF SenderAt
    <3>3. sent \in Nat /\ size \in Int /\ k \in Nat /\ k <= size /\ size - k \in Int
          /\ sent + k \in Int
      BY <1>0, <3>1, SenderFacts
    <3> DEFINE u == Bytes(sent, k)  r == Place(size - k, sent + k)
    <3>4. u \in Seq(Units) /\ Stream(u, q, r)
      BY <3>2, <3>3, BytesLead
    <3>5. r \in Places
      BY <3>3, Constructors
    <3>6. net \in Seq(Units)
      BY <1>0, SenderFacts
    <3> HIDE DEF u, r
    <3>7. Stream(net \o u, p, r) /\ net \o u \in Seq(Units)
      BY <1>1, <3>4, <3>6, Joined
    <3>8. Len(net) <= Len(net \o u)
      BY <3>4, <3>6
    <3> QED  BY <3>1, <3>5, <3>7, <3>8 DEF u
  <2>3. CASE spc # "name" /\ spc # "data"
    <3>1. net' = net
      BY <2>3 DEF SenderDies
    <3> QED  BY <1>0, <1>1, <3>1, SenderFacts
  <2> QED  BY <2>1, <2>2, <2>3
<1>3. PICK r \in Places : Stream(net', p, r)
  BY <1>2
<1>4. SenderTypes'
  <2>1. arrived' \in 0 .. Len(net')
    BY <1>0, <1>2, SenderFacts
  <2> QED  BY <1>0, <1>2, <2>1 DEF SenderTypes
<1>5. SenderAt(r)'
  BY <1>0 DEF SenderAt
<1> QED  BY <1>0, <1>1, <1>3, <1>4, <1>5, SenderKeeps

LEMMA ConnectionBreaksIInv == ASSUME IInv, ConnectionBreaks PROVE IInv'
<1>0. /\ SenderTypes /\ UNCHANGED receiver /\ ~Drained
      /\ spc' = "end" /\ closed' \in BOOLEAN /\ UNCHANGED <<sent, size, up>>
  <2>1. SenderTypes /\ Types
    BY DEF IInv, Types
  <2>2. /\ UNCHANGED receiver /\ ~Ended
        /\ spc' = "end" /\ closed' \in BOOLEAN /\ UNCHANGED <<sent, size, up>>
    BY DEF ConnectionBreaks
  <2>3. ~Drained
    BY <2>1, <2>2, SenderFacts DEF Drained, Ended, SenderTypes
  <2> QED  BY <2>1, <2>2, <2>3
<1>1. PICK p \in Places, q \in Places :
         Stream(net, p, q) /\ ReceiverAt(p) /\ WrittenAt(p) /\ SenderAt(q)
  BY DEF IInv
<1>2. PICK k \in 0 .. Len(net) : net' = SubSeq(net, 1, k) /\ arrived' = Least(arrived, k)
  BY DEF ConnectionBreaks
<1>3. k \in 0 .. Len(net) /\ net \in Seq(Units)
  BY <1>0, <1>2, SenderFacts
<1>4. PICK r \in Places : Stream(net', p, r)
  BY <1>1, <1>2, <1>3, Beginning
<1>5. net' \in Seq(Units) /\ Len(net') = k
  BY <1>1, <1>2, <1>3, Beginning
<1>6. arrived' \in 0 .. Len(net')
  BY <1>0, <1>2, <1>5, SenderFacts DEF Least
<1>7. SenderTypes'
  BY <1>0, <1>5, <1>6 DEF SenderTypes
<1>8. SenderAt(r)'
  BY <1>0 DEF SenderAt
<1> QED  BY <1>0, <1>1, <1>4, <1>7, <1>8, SenderKeeps

LEMMA ArriveIInv == ASSUME IInv, Arrive PROVE IInv'
<1>0. /\ SenderTypes /\ UNCHANGED receiver /\ (closed => spc = "end")
      /\ UNCHANGED <<spc, sent, size, up, net, closed>>
      /\ arrived' = arrived + 1 /\ arrived < Len(net)
  BY DEF IInv, Types, Ending, Arrive, sender
<1>1. PICK p \in Places, q \in Places :
         Stream(net, p, q) /\ ReceiverAt(p) /\ WrittenAt(p) /\ SenderAt(q)
  BY DEF IInv
<1>2. arrived' \in 0 .. Len(net')
  BY <1>0, SenderFacts
<1>3. SenderTypes'
  BY <1>0, <1>2 DEF SenderTypes
<1>4. SenderAt(q)' /\ (Drained => Drained')
  BY <1>0, <1>1 DEF SenderAt, Drained
<1> QED  BY <1>0, <1>1, <1>3, <1>4, SenderKeeps

-----------------------------------------------------------------------------
(* A step of the receiver takes some units and goes to the place behind    *)
(* them.                                                                   *)

LEMMA ReceiverKeeps ==
    ASSUME IInv, UNCHANGED <<spc, sent, size, up, closed>>,
           net' \in Seq(Units), arrived' \in 0 .. Len(net'), net = <<>> => net' = <<>>,
           ReceiverTypes', Ending', FileHas',
           NEW q \in Places, SenderAt(q),
           NEW r \in Places, Stream(net', r, q), ReceiverAt(r)', WrittenAt(r)'
    PROVE  IInv'
<1>1. Types'
  BY DEF IInv, Types, SenderTypes
<1>2. SenderAt(q)'
  BY DEF SenderAt
<1> QED  BY <1>1, <1>2 DEF IInv

(* What recv(..., n, MSG_WAITALL) leaves: it took n units, or there will   *)
(* never be another one.                                                   *)
LEMMA TakenIs ==
    ASSUME SenderTypes, NEW n \in Nat, Available(n), Take(n), UNCHANGED closed
    PROVE  /\ Least(n, arrived) \in 0 .. Len(net) /\ Least(n, arrived) <= n
           /\ Least(n, arrived) = n \/ Drained'
           /\ Taken(n) = SubSeq(net, 1, Least(n, arrived))
           /\ Taken(n) \in Seq(Units) /\ Len(Taken(n)) = Least(n, arrived)
           /\ net' = SubSeq(net, Least(n, arrived) + 1, Len(net))
           /\ net' \in Seq(Units) /\ arrived' \in 0 .. Len(net')
           /\ net = <<>> => net' = <<>>
<1> DEFINE k == Least(n, arrived)
<1>1. net \in Seq(Units) /\ Len(net) \in Nat /\ arrived \in 0 .. Len(net)
  BY DEF SenderTypes
<1>2. k \in 0 .. Len(net) /\ k <= n /\ k <= arrived /\ (k = n \/ k = arrived)
      /\ (arrived >= n => k = n)
  BY <1>1 DEF Least
<1>3. net' = SubSeq(net, k + 1, Len(net)) /\ arrived' = arrived - k
      /\ Taken(n) = SubSeq(net, 1, k)
  BY DEF Take, Taken
<1> HIDE DEF k
<1>4. SubSeq(net, k + 1, Len(net)) \in Seq(Units)
      /\ Len(SubSeq(net, k + 1, Len(net))) = Len(net) - k
      /\ SubSeq(net, 1, k) \in Seq(Units) /\ Len(SubSeq(net, 1, k)) = k
  BY <1>1, <1>2
<1>5. arrived' \in 0 .. Len(net')
  BY <1>1, <1>2, <1>3, <1>4
<1>6. ASSUME k # n PROVE Drained'
  <2>1. closed /\ arrived = Len(net) /\ k = arrived
    BY <1>1, <1>2, <1>6 DEF Available, Ended
  <2>2. Len(net') = 0 /\ net' \in Seq(Units)
    BY <1>1, <1>3, <1>4, <2>1
  <2> QED  BY <2>1, <2>2 DEF Drained
<1>7. ASSUME net = <<>> PROVE net' = <<>>
  <2>1. Len(net) = 0
    BY <1>7
  <2>2. Len(net') = 0 /\ net' \in Seq(Units)
    BY <1>2, <1>3, <1>4, <2>1
  <2> QED  BY <2>2
<1> QED  BY <1>2, <1>3, <1>4, <1>5, <1>6, <1>7 DEF k

LEMMA ReceiverFacts ==
    ASSUME ReceiverTypes
    PROVE  /\ len \in Int /\ rc \in Int /\ 0 <= rc /\ rc <= Block
           /\ named \in Int /\ 0 <= named /\ named <= NameLen
           /\ file \in Seq(Int) /\ Len(file) \in Nat
           /\ pos \in Int /\ 0 <= pos /\ pos <= FileLen + Block
           /\ good \in Int /\ 0 <= good /\ good <= FileLen
  BY Lengths DEF ReceiverTypes

LEMMA PlaceIs ==
    ASSUME NEW p \in Places
    PROVE  p.left \in Int /\ p.off \in Int /\ p = Place(p.left, p.off)
  BY DEF Places, Place

(* Steps that take nothing.                                                *)
LEMMA SetUpIInv == ASSUME IInv, SetUp \/ SetUpFail \/ Accept PROVE IInv'
<1>0. Types /\ SenderTypes /\ ReceiverTypes /\ Ending /\ FileHas
  BY DEF IInv, Types
<1>1. PICK p \in Places, q \in Places :
         Stream(net, p, q) /\ ReceiverAt(p) /\ WrittenAt(p) /\ SenderAt(q)
  BY DEF IInv
<1>2. /\ rpc \in {"setup", "accept"}
      /\ \/ rpc' = "accept" /\ how' = how
         \/ rpc' = "namelen" /\ how' = how /\ len' = AddrLen
         \/ rpc' = "end" /\ how' = "cut"
      /\ len' \in {len, AddrLen}
      /\ UNCHANGED <<spc, sent, size, up, net, closed, arrived>>
      /\ UNCHANGED <<rc, recvBuf, named, dest, file, pos, good, failed>>
  <2>1. CASE SetUp
    BY <2>1, Zenon DEF SetUp, sender, connection
  <2>2. CASE SetUpFail
    BY <2>2, Zenon DEF SetUpFail, sender, connection
  <2>3. CASE Accept
    BY <2>3, Zenon DEF Accept, sender, connection
  <2> QED  BY <2>1, <2>2, <2>3
<1>3. net' \in Seq(Units) /\ arrived' \in 0 .. Len(net')
  BY <1>0, <1>2 DEF SenderTypes
<1>4. ReceiverTypes'
  BY <1>0, <1>2 DEF ReceiverTypes, AddrLen
<1>5. pos = 0 /\ good = 0 /\ ~failed /\ p = Start
  BY <1>1, <1>2 DEF WrittenAt, ReceiverAt
<1>6. FileHas' /\ WrittenAt(p)' /\ ReceiverAt(p)'
  <2>1. FileHas'
    BY <1>0, <1>2 DEF FileHas, PrefixWritten
  <2>2. WrittenAt(p)'
    BY <1>1, <1>2, <1>5 DEF WrittenAt
  <2>3. ReceiverAt(p)'
    BY <1>1, <1>2, <1>5 DEF ReceiverAt, AddrLen
  <2> QED  BY <2>1, <2>2, <2>3
<1>7. Ending'
  <2>1. ~(dest = "other")
    BY <1>0, <1>2 DEF Ending
  <2> QED  BY <1>0, <1>2, <1>5, <2>1 DEF Ending
<1> QED  BY <1>1, <1>2, <1>3, <1>4, <1>6, <1>7, ReceiverKeeps

LEMMA CreateIInv == ASSUME IInv, Create PROVE IInv'
<1>0. Types /\ SenderTypes /\ ReceiverTypes /\ Ending /\ FileHas
  BY DEF IInv, Types
<1>1. PICK p \in Places, q \in Places :
         Stream(net, p, q) /\ ReceiverAt(p) /\ WrittenAt(p) /\ SenderAt(q)
  BY DEF IInv
<1>2. /\ rpc = "create" /\ rpc' = "len"
      /\ dest' \in {"none", "other", "file"}
      /\ dest' = "other" => named # NameLen
      /\ UNCHANGED <<spc, sent, size, up, net, closed, arrived>>
      /\ UNCHANGED <<len, rc, recvBuf, named, file, pos, good, failed, how>>
  <2>1. /\ rpc = "create" /\ rpc' = "len"
        /\ UNCHANGED <<spc, sent, size, up, net, closed, arrived>>
        /\ UNCHANGED <<len, rc, recvBuf, named, file, pos, good, failed, how>>
    BY Zenon DEF Create, sender, connection
  <2>2. dest' \in {"none", "other", "file"} /\ (dest' = "other" => named # NameLen)
    BY DEF Create
  <2> QED  BY <2>1, <2>2
<1>3. net' \in Seq(Units) /\ arrived' \in 0 .. Len(net')
  BY <1>0, <1>2 DEF SenderTypes
<1>4. ReceiverTypes'
  BY <1>0, <1>2 DEF ReceiverTypes
<1>5. pos = 0 /\ good = 0 /\ ~failed
  BY <1>1, <1>2 DEF WrittenAt
<1>6. Drained \/ (named = NameLen /\ p.left = 0 /\ p.off = 0)
  BY <1>1, <1>2 DEF ReceiverAt, Place
<1>7. FileHas'
  BY <1>0, <1>2 DEF FileHas, PrefixWritten
<1>8. WrittenAt(p)'
  BY <1>1, <1>2, <1>5, <1>6 DEF WrittenAt, Drained
<1>9. ReceiverAt(p)'
  BY <1>1, <1>2, <1>6 DEF ReceiverAt, Drained
<1>10. Ending'
  BY <1>0, <1>2, <1>5, <1>6 DEF Ending, Drained
<1> QED  BY <1>1, <1>2, <1>3, <1>4, <1>7, <1>8, <1>9, <1>10, ReceiverKeeps

(* A size: one unit, or nothing any more.                                  *)
LEMMA OneTaken ==
    ASSUME SenderTypes, Available(1), Take(1), UNCHANGED closed,
           NEW p \in Places, NEW q \in Places, Stream(net, p, q)
    PROVE  /\ arrived = 0 => Drained /\ net' = <<>>
           /\ arrived # 0 => /\ net # <<>>
                             /\ \E r \in Places : Reads(p, Head(net), r) /\ Stream(net', r, q)
<1>1. net \in Seq(Units) /\ Len(net) \in Nat /\ arrived \in 0 .. Len(net)
  BY DEF SenderTypes
<1>2. CASE arrived = 0
  <2>1. closed /\ Len(net) = 0
    BY <1>2 DEF Available, Ended
  <2>2. net = <<>>
    BY <1>1, <2>1
  <2>3. net' = <<>>
    BY <1>1, <2>2, TakenIs
  <2> QED  BY <1>2, <2>1, <2>2, <2>3 DEF Drained
<1>3. CASE arrived # 0
  <2>1. net # <<>> /\ Least(1, arrived) = 1
    BY <1>1, <1>3 DEF Least
  <2>2. net' = SubSeq(net, 2, Len(net))
    BY <2>1 DEF Take
  <2>3. net' = Tail(net)
    BY <1>1, <2>1, <2>2
  <2>4. \E r \in Places : Reads(p, Head(net), r) /\ Stream(net', r, q)
    BY <1>1, <2>1, <2>3, FirstUnit
  <2> QED  BY <1>3, <2>1, <2>4
<1> QED  BY <1>2, <1>3

LEMMA RecvNameLenIInv == ASSUME IInv, RecvNameLen PROVE IInv'
<1>0. Types /\ SenderTypes /\ ReceiverTypes /\ Ending /\ FileHas
  BY DEF IInv, Types
<1>1. PICK p \in Places, q \in Places :
         Stream(net, p, q) /\ ReceiverAt(p) /\ WrittenAt(p) /\ SenderAt(q)
  BY DEF IInv
<1>2. /\ rpc = "namelen" /\ rpc' = "name" /\ Available(1) /\ Take(1)
      /\ len' = IF arrived = 0 THEN len ELSE Head(net).v
      /\ UNCHANGED <<spc, sent, size, up, closed>>
      /\ UNCHANGED <<rc, recvBuf, named, dest, file, pos, good, failed, how>>
  BY Zenon DEF RecvNameLen, sender
<1>3. /\ net' \in Seq(Units) /\ arrived' \in 0 .. Len(net')
      /\ net = <<>> => net' = <<>>
  BY <1>0, <1>2, TakenIs
<1>4. pos = 0 /\ good = 0 /\ ~failed /\ p = Start
  BY <1>1, <1>2 DEF WrittenAt, ReceiverAt
<1>5. PICK r \in Places : /\ Stream(net', r, q) /\ r.off <= FileLen
                          /\ len' \in Nat
                          /\ Drained' \/ (len' = NameLen /\ r = Place(NameLen, -NameLen))
  <2>1. CASE arrived = 0
    <3>1. Drained /\ net' = <<>> /\ len' = len
      BY <1>0, <1>1, <1>2, <2>1, OneTaken
    <3>2. Drained' /\ Stream(net', p, q) /\ p.off <= FileLen /\ len' \in Nat
      BY <1>0, <1>1, <1>2, <3>1 DEF Drained, ReceiverAt, ReceiverTypes
    <3> QED  BY <3>2
  <2>2. CASE arrived # 0
    <3>1. PICK r \in Places : Reads(p, Head(net), r) /\ Stream(net', r, q)
      BY <1>0, <1>1, <1>2, <2>2, OneTaken
    <3>2. p.left = 0 /\ p.off = -NameLen
      BY <1>4 DEF Start, Place
    <3>3. BlockSize(p, Head(net), r)
      BY <3>1, <3>2, Lengths DEF Reads, BlockByte, LastSize
    <3>4. r.left = NameLen /\ r.off = -NameLen /\ Head(net) = Size(NameLen)
      BY <3>2, <3>3, Lengths DEF BlockSize, Fits
    <3>5. r = Place(NameLen, -NameLen) /\ len' = NameLen
      BY <1>2, <2>2, <3>4, PlaceIs, Constructors
    <3> QED  BY <3>1, <3>4, <3>5, Lengths
  <2> QED  BY <2>1, <2>2
<1>6. ReceiverTypes'
  BY <1>0, <1>2, <1>5 DEF ReceiverTypes
<1>7. FileHas'
  BY <1>0, <1>2 DEF FileHas, PrefixWritten
<1>8. WrittenAt(r)'
  BY <1>2, <1>4 DEF WrittenAt
<1>9. ReceiverAt(r)'
  BY <1>2, <1>5 DEF ReceiverAt
<1>10. Ending'
  BY <1>0, <1>2, <1>4 DEF Ending
<1> QED  BY <1>1, <1>2, <1>3, <1>5, <1>6, <1>7, <1>8, <1>9, <1>10, ReceiverKeeps

LEMMA RecvNameIInv == ASSUME IInv, RecvName PROVE IInv'
<1>0. Types /\ SenderTypes /\ ReceiverTypes /\ Ending /\ FileHas
  BY DEF IInv, Types
<1>1. PICK p \in Places, q \in Places :
         Stream(net, p, q) /\ ReceiverAt(p) /\ WrittenAt(p) /\ SenderAt(q)
  BY DEF IInv
<1>2. /\ rpc = "name" /\ rpc' = "create" /\ Available(len) /\ Take(len)
      /\ named' = Len(Taken(len))
      /\ UNCHANGED <<spc, sent, size, up, closed>>
      /\ UNCHANGED <<len, rc, recvBuf, dest, file, pos, good, failed, how>>
  BY Zenon DEF RecvName, sender
<1>4. pos = 0 /\ good = 0 /\ ~failed
  BY <1>1, <1>2 DEF WrittenAt
<1>5. PICK r \in Places :
         /\ Stream(net', r, q) /\ r.off <= FileLen /\ named' \in 0 .. NameLen
         /\ net' \in Seq(Units) /\ arrived' \in 0 .. Len(net')
         /\ net = <<>> => net' = <<>>
         /\ Drained' \/ (named' = NameLen /\ r = Place(0, 0))
  <2>1. CASE Drained
    <3>1. net = <<>> /\ closed /\ arrived = 0 /\ len \in Nat
      BY <1>0, <1>1, <1>2, <2>1 DEF SenderTypes, Drained, ReceiverAt
    <3>2. /\ Least(len, arrived) \in 0 .. Len(net) /\ Len(Taken(len)) = Least(len, arrived)
          /\ net' \in Seq(Units) /\ arrived' \in 0 .. Len(net')
          /\ net = <<>> => net' = <<>>
      BY <1>0, <1>2, <3>1, TakenIs
    <3>3. named' = 0
      BY <1>2, <3>1, <3>2
    <3>4. Drained' /\ Stream(net', p, q) /\ p.off <= FileLen
      BY <1>1, <1>2, <3>1, <3>2 DEF Drained, ReceiverAt
    <3> QED  BY <3>2, <3>3, <3>4, Lengths
  <2>2. CASE len = NameLen /\ p = Place(NameLen, -NameLen)
    <3> DEFINE k == Least(NameLen, arrived)
    <3>1. /\ k \in 0 .. Len(net) /\ k <= NameLen /\ (k = NameLen \/ Drained')
          /\ Len(Taken(NameLen)) = k
          /\ net' = SubSeq(net, k + 1, Len(net))
          /\ net' \in Seq(Units) /\ arrived' \in 0 .. Len(net')
          /\ net = <<>> => net' = <<>>
      BY <1>0, <1>2, <2>2, Lengths, TakenIs
    <3> HIDE DEF k
    <3>2. p.left = NameLen /\ p.off = -NameLen
      BY <2>2 DEF Place
    <3>3. Stream(net', Place(NameLen - k, -NameLen + k), q)
      BY <1>0, <1>1, <3>1, <3>2, InBlock DEF SenderTypes
    <3>4. Place(NameLen - k, -NameLen + k) \in Places /\ -NameLen + k <= FileLen
          /\ Place(NameLen - k, -NameLen + k).off = -NameLen + k
      <4>1. Len(net) \in Nat
        BY <1>0, SenderFacts
      <4>2. NameLen - k \in Int /\ -NameLen + k \in Int /\ -NameLen + k <= FileLen
        BY <3>1, <4>1, Lengths
      <4> QED  BY <4>2, Constructors
    <3>5. k = NameLen => Place(NameLen - k, -NameLen + k) = Place(0, 0)
      BY Lengths
    <3>6. named' = k /\ k \in 0 .. NameLen
      BY <1>2, <2>2, <3>1, Lengths
    <3> QED  BY <3>1, <3>3, <3>4, <3>5, <3>6
  <2> QED  BY <1>1, <1>2, <2>1, <2>2 DEF ReceiverAt
<1>6. ReceiverTypes'
  BY <1>0, <1>2, <1>5 DEF ReceiverTypes
<1>7. FileHas'
  BY <1>0, <1>2 DEF FileHas, PrefixWritten
<1>8. WrittenAt(r)'
  BY <1>2, <1>4 DEF WrittenAt
<1>9. ReceiverAt(r)'
  BY <1>2, <1>5 DEF ReceiverAt
<1>10. Ending'
  <2>1. ~(dest = "other")
    BY <1>0, <1>2 DEF Ending
  <2> QED  BY <1>0, <1>2, <1>4, <2>1 DEF Ending
<1> QED  BY <1>1, <1>2, <1>5, <1>6, <1>7, <1>8, <1>9, <1>10, ReceiverKeeps

LEMMA RecvLenIInv == ASSUME IInv, RecvLen PROVE IInv'
<1>0. Types /\ SenderTypes /\ ReceiverTypes /\ Ending /\ FileHas
  BY DEF IInv, Types
<1>1. PICK p \in Places, q \in Places :
         Stream(net, p, q) /\ ReceiverAt(p) /\ WrittenAt(p) /\ SenderAt(q)
  BY DEF IInv
<1>2. /\ rpc = "len" /\ Available(1) /\ Take(1)
      /\ UNCHANGED <<spc, sent, size, up, closed>>
      /\ UNCHANGED <<rc, recvBuf, named, dest, file, pos, good, failed>>
  BY Zenon DEF RecvLen, sender
<1>3. /\ net' \in Seq(Units) /\ arrived' \in 0 .. Len(net')
      /\ net = <<>> => net' = <<>>
  BY <1>0, <1>2, TakenIs
<1>4. FileHas'
  BY <1>0, <1>2 DEF FileHas, PrefixWritten
<1>5. CASE arrived = 0
  <2>1. rpc' = "end" /\ how' = "cut" /\ len' = len
    BY <1>5 DEF RecvLen, EndAs
  <2>2. Drained /\ Drained' /\ Stream(net', p, q)
    <3>1. Drained /\ net' = <<>>
      BY <1>0, <1>1, <1>2, <1>5, OneTaken
    <3> QED  BY <1>1, <1>2, <3>1 DEF Drained
  <2>3. ReceiverTypes'
    BY <1>0, <1>2, <2>1 DEF ReceiverTypes
  <2>4. Ending'
    BY <1>0, <1>2, <2>1, <2>2 DEF Ending
  <2>5. ReceiverAt(p)' /\ WrittenAt(p)'
    BY <1>1, <2>1 DEF ReceiverAt, WrittenAt
  <2> QED  BY <1>1, <1>2, <1>3, <1>4, <2>2, <2>3, <2>4, <2>5, ReceiverKeeps
<1>6. CASE arrived # 0
  <2>1. net # <<>> /\ ~Drained
    BY <1>0, <1>1, <1>2, <1>6, OneTaken DEF Drained
  <2>2. PICK r \in Places : Reads(p, Head(net), r) /\ Stream(net', r, q)
    BY <1>0, <1>1, <1>2, <1>6, OneTaken
  <2>3. /\ p.left = 0 /\ p.off >= 0 /\ p.off <= FileLen /\ pos <= p.off
        /\ ~failed => pos = p.off /\ good = p.off
        /\ how = "running" /\ dest # "other"
    BY <1>0, <1>1, <1>2, <2>1 DEF ReceiverAt, WrittenAt, Ending
  <2>4. /\ len' = Head(net).v
        /\ len' = 0 => rpc' = "end" /\ how' = "complete"
        /\ len' # 0 => rpc' = "data" /\ how' = how
    <3>1. len' = Head(net).v
      BY <1>6 DEF RecvLen
    <3>2. IF len' = 0 THEN EndAs("complete") ELSE rpc' = "data" /\ UNCHANGED how
      BY <1>6 DEF RecvLen
    <3> QED  BY <3>1, <3>2 DEF EndAs
  <2>5. p.off \in Int /\ r.off \in Int /\ r.left \in Int
    BY PlaceIs
  <2>6. /\ r.off = p.off /\ len' \in Int
        /\ \/ r.left = len' /\ (len' = -1 \/ Fits(r.off, len')) /\ len' # 0
           \/ len' = 0 /\ p.off = FileLen
    <3>1. CASE BlockSize(p, Head(net), r)
      <4>1. Head(net).v = r.left
        BY <3>1, Constructors DEF BlockSize
      <4>2. r.left > 0 /\ Fits(p.off, r.left) /\ r.off = p.off
        BY <3>1 DEF BlockSize, Fits
      <4> QED  BY <2>4, <2>5, <4>1, <4>2
    <3>2. CASE LastSize(p, Head(net), r)
      <4>1. r.left = -1 /\ r.off = p.off
        BY <3>2 DEF LastSize, Place
      <4>2. \/ Head(net).v = -1
            \/ Head(net).v = 0 /\ p.off = FileLen
        BY <3>2, Constructors DEF LastSize
      <4> QED  BY <2>4, <4>1, <4>2
    <3>3. ~BlockByte(p, Head(net), r)
      BY <2>3 DEF BlockByte
    <3> QED  BY <2>2, <3>1, <3>2, <3>3 DEF Reads
  <2>7. rpc' \in {"end", "data"} /\ (rpc' = "data" <=> len' # 0)
    BY <2>4
  <2>8. ReceiverTypes'
    BY <1>0, <1>2, <2>4, <2>6 DEF ReceiverTypes
  <2>9. Ending'
    <3>1. (closed' => spc' = "end") /\ (rpc' # "end" => how' = "running")
      BY <1>0, <1>2, <2>3, <2>4 DEF Ending
    <3>2. how' = "complete" /\ ~failed' => good' = FileLen
      BY <1>2, <2>3, <2>4, <2>6
    <3>3. (~failed' => pos' = good') /\ dest' # "other"
      BY <1>2, <2>3
    <3> QED  BY <3>1, <3>2, <3>3 DEF Ending
  <2>10. ReceiverAt(r)'
    BY <2>3, <2>4, <2>6 DEF ReceiverAt
  <2>11. WrittenAt(r)'
    BY <1>2, <2>3, <2>6, <2>7 DEF WrittenAt
  <2> QED  BY <1>1, <1>2, <1>3, <1>4, <2>2, <2>8, <2>9, <2>10, <2>11, ReceiverKeeps
<1> QED  BY <1>5, <1>6

(* What RecvData takes: what is left of the block, or less at the end.     *)
LEMMA DataTaken ==
    ASSUME IInv, rpc = "data", Available(Wanted), Take(Wanted), UNCHANGED closed,
           NEW p \in Places, NEW q \in Places, Stream(net, p, q), ReceiverAt(p)
    PROVE  \E k \in Nat :
              /\ Taken(Wanted) \in Seq(Units) /\ Len(Taken(Wanted)) = k
              /\ k <= Block /\ p.off + k <= FileLen
              /\ k # 0 => /\ k <= len /\ len <= Block
                          /\ Drained' \/ k = len
                          /\ \A i \in 1 .. k : Taken(Wanted)[i].v = p.off + i
              /\ net' \in Seq(Units) /\ arrived' \in 0 .. Len(net')
              /\ net = <<>> => net' = <<>>
              /\ Stream(net', Place(p.left - k, p.off + k), q)
<1>0. SenderTypes /\ net \in Seq(Units) /\ Len(net) \in Nat /\ arrived \in 0 .. Len(net)
      /\ len \in Int
  BY DEF IInv, Types, SenderTypes, ReceiverTypes
<1>1. /\ p.off >= 0 /\ p.left = len /\ p.off <= FileLen /\ p.off \in Int
      /\ len = -1 \/ Fits(p.off, len)
  BY PlaceIs DEF ReceiverAt
<1>2. CASE len = -1
  <2>1. net = <<>>
    <3> SUFFICES ASSUME net # <<>> PROVE FALSE
      OBVIOUS
    <3>1. PICK r \in Places : Reads(p, net[1], r)
      BY <1>0, FirstUnit
    <3>2. p.left >= 0
      BY <3>1, ReadsUnit
    <3> QED  BY <1>1, <1>2, <3>2
  <2>2. Wanted = 1 /\ 1 \in Nat
    BY <1>2, <2>1 DEF Wanted
  <2>3. /\ Taken(Wanted) \in Seq(Units)
        /\ Len(Taken(Wanted)) = Least(1, arrived) /\ Least(1, arrived) \in 0 .. Len(net)
        /\ net' \in Seq(Units) /\ arrived' \in 0 .. Len(net')
        /\ net = <<>> => net' = <<>>
    BY <1>0, <2>2, TakenIs
  <2>4. Least(1, arrived) = 0
    BY <2>1, <2>3
  <2>5. Place(p.left - 0, p.off + 0) = p
    <3>1. p.left - 0 = p.left /\ p.off + 0 = p.off
      BY PlaceIs
    <3> QED  BY <3>1, PlaceIs
  <2>6. Stream(net', Place(p.left - 0, p.off + 0), q)
    BY <2>1, <2>3, <2>5
  <2>7. 0 <= Block /\ p.off + 0 <= FileLen /\ 0 \in Nat
    BY <1>1, Lengths
  <2> QED  BY <2>3, <2>4, <2>6, <2>7
<1>3. CASE len # -1
  <2>1. Fits(p.off, len) /\ len \in Nat /\ len > 0 /\ len <= Block /\ p.off + len <= FileLen
        /\ Wanted = len
    BY <1>0, <1>1, <1>3 DEF Fits, Wanted
  <2> DEFINE k == Least(len, arrived)
  <2>2. /\ k \in 0 .. Len(net) /\ k <= len /\ (k = len \/ Drained')
        /\ Taken(len) = SubSeq(net, 1, k) /\ Taken(len) \in Seq(Units) /\ Len(Taken(len)) = k
        /\ net' = SubSeq(net, k + 1, Len(net))
        /\ net' \in Seq(Units) /\ arrived' \in 0 .. Len(net')
        /\ net = <<>> => net' = <<>>
    BY <1>0, <2>1, TakenIs
  <2> HIDE DEF k
  <2>3. /\ \A i \in 1 .. k : net[i] = Byte(Content(p.off + i))
        /\ Stream(net', Place(p.left - k, p.off + k), q)
    <3>1. k \in 0 .. Len(net) /\ k <= p.left /\ net' = SubSeq(net, k + 1, Len(net))
      BY <1>1, <2>2
    <3> QED  BY <1>0, <3>1, InBlock
  <2>4. k \in Nat /\ k <= Block /\ p.off + k <= FileLen
    BY <1>0, <1>1, <2>1, <2>2, Lengths
  <2>5. ASSUME NEW i \in 1 .. k PROVE Taken(len)[i].v = p.off + i
    <3>1. Taken(len)[i] = net[i]
      BY <1>0, <2>2
    <3>2. p.off + i > 0
      BY <1>1, <2>4
    <3>3. Content(p.off + i) = p.off + i
      BY <1>1, <2>4, <3>2 DEF Content
    <3> QED  BY <2>3, <3>1, <3>3, Constructors
  <2> QED  BY <2>1, <2>2, <2>3, <2>4, <2>5
<1> QED  BY <1>2, <1>3

LEMMA RecvDataIInv == ASSUME IInv, RecvData PROVE IInv'
<1>0. Types /\ SenderTypes /\ ReceiverTypes /\ Ending /\ FileHas
  BY DEF IInv, Types
<1>1. PICK p \in Places, q \in Places :
         Stream(net, p, q) /\ ReceiverAt(p) /\ WrittenAt(p) /\ SenderAt(q)
  BY DEF IInv
<1>2. /\ rpc = "data" /\ Available(Wanted) /\ Take(Wanted) /\ Received(Taken(Wanted))
      /\ UNCHANGED <<spc, sent, size, up, closed>>
      /\ UNCHANGED <<len, named, dest, file, pos, good, failed>>
  BY Zenon DEF RecvData, sender
<1>3. PICK k \in Nat :
         /\ Taken(Wanted) \in Seq(Units) /\ Len(Taken(Wanted)) = k
         /\ k <= Block /\ p.off + k <= FileLen
         /\ k # 0 => /\ k <= len /\ len <= Block
                     /\ Drained' \/ k = len
                     /\ \A i \in 1 .. k : Taken(Wanted)[i].v = p.off + i
         /\ net' \in Seq(Units) /\ arrived' \in 0 .. Len(net')
         /\ net = <<>> => net' = <<>>
         /\ Stream(net', Place(p.left - k, p.off + k), q)
  BY <1>1, <1>2, DataTaken
<1>4. /\ p.off >= 0 /\ p.left = len /\ p.off \in Int /\ len \in Int
      /\ pos <= p.off /\ (~failed => pos = p.off /\ good = p.off)
      /\ how = "running" /\ dest # "other"
  BY <1>0, <1>1, <1>2, PlaceIs DEF ReceiverAt, WrittenAt, Ending, ReceiverTypes
<1>5. PICK r \in Places : r = Place(p.left - k, p.off + k) /\ r.left = len - k /\ r.off = p.off + k
  <2>1. p.left - k \in Int /\ p.off + k \in Int
    BY <1>4
  <2>2. Place(p.left - k, p.off + k) \in Places
    BY <2>1, Constructors
  <2>3. Place(p.left - k, p.off + k).left = len - k /\ Place(p.left - k, p.off + k).off = p.off + k
    BY <1>4 DEF Place
  <2> QED  BY <2>2, <2>3
<1>6. FileHas'
  BY <1>0, <1>2 DEF FileHas, PrefixWritten
<1>7. rc' = k
  BY <1>2, <1>3 DEF Received
<1>8. /\ rpc' \in {"end", "write"} /\ (rpc' = "write" => k # 0)
      /\ rpc' = "end" => how' = "cut" /\ recvBuf' = recvBuf
      /\ rpc' = "write" =>
            /\ how' = how
            /\ recvBuf' = [i \in 1 .. Block |-> IF i <= k THEN Taken(Wanted)[i].v ELSE recvBuf[i]]
  <2>1. CASE Taken(Wanted) = <<>>
    BY <1>2, <2>1 DEF Received, EndAs
  <2>2. CASE Taken(Wanted) # <<>>
    <3>1. rpc' = "write" /\ how' = how
          /\ recvBuf' = [i \in 1 .. Block |->
                IF i <= Len(Taken(Wanted)) THEN Taken(Wanted)[i].v ELSE recvBuf[i]]
      BY <1>2, <2>2 DEF Received
    <3>2. k # 0
      BY <1>3, <2>2
    <3> QED  BY <1>3, <3>1, <3>2
  <2> QED  BY <2>1, <2>2
<1>9. recvBuf' \in [1 .. Block -> 0 .. FileLen]
  <2>1. recvBuf \in [1 .. Block -> 0 .. FileLen]
    BY <1>0 DEF ReceiverTypes
  <2>2. ASSUME k # 0, NEW i \in 1 .. Block, i <= k PROVE Taken(Wanted)[i].v \in 0 .. FileLen
    BY <1>3, <1>4, <2>2, Lengths
  <2> QED  BY <1>8, <2>1, <2>2
<1>10. ReceiverTypes'
  BY <1>0, <1>2, <1>3, <1>7, <1>8, <1>9 DEF ReceiverTypes
<1>11. Ending'
  BY <1>0, <1>2, <1>4, <1>8 DEF Ending
<1>12. ASSUME rpc' = "write"
       PROVE  /\ 0 < k /\ k <= len /\ len <= Block /\ k <= r.off
              /\ Drained' \/ (k = len /\ r.left = 0)
              /\ \A i \in 1 .. k : recvBuf'[i] = (r.off - k) + i
              /\ r.off - k = p.off
  <2>1. k # 0 /\ k <= len /\ len <= Block /\ (Drained' \/ k = len)
    BY <1>3, <1>8, <1>12
  <2>2. ASSUME NEW i \in 1 .. k PROVE recvBuf'[i] = (r.off - k) + i
    <3>1. i \in 1 .. Block /\ i <= k
      BY <1>3, Lengths
    <3>2. recvBuf'[i] = Taken(Wanted)[i].v
      BY <1>8, <1>12, <3>1
    <3>3. Taken(Wanted)[i].v = p.off + i
      BY <1>3, <2>1
    <3> QED  BY <1>4, <1>5, <3>2, <3>3
  <2> QED  BY <1>4, <1>5, <2>1, <2>2
<1>13. ReceiverAt(r)'
  BY <1>2, <1>3, <1>5, <1>7, <1>8, <1>12 DEF ReceiverAt
<1>14. WrittenAt(r)'
  BY <1>2, <1>4, <1>7, <1>8, <1>12 DEF WrittenAt
<1> QED  BY <1>1, <1>2, <1>3, <1>5, <1>6, <1>10, <1>11, <1>13, <1>14, ReceiverKeeps

(* What write() does to the file.                                          *)
LEMMA OverwrittenIs ==
    ASSUME ReceiverTypes, pos <= Len(file), NEW w \in Nat, w <= Block
    PROVE  /\ Overwritten(w) \in Seq(Int)
           /\ Len(Overwritten(w)) >= Len(file) /\ Len(Overwritten(w)) >= pos + w
           /\ \A i \in 1 .. pos : Overwritten(w)[i] = file[i]
           /\ \A i \in 1 .. w : Overwritten(w)[pos + i] = recvBuf[i]
<1>1. file \in Seq(Int) /\ Len(file) \in Nat /\ pos \in Nat
      /\ recvBuf \in [1 .. Block -> 0 .. FileLen]
  BY ReceiverFacts DEF ReceiverTypes
<1> DEFINE n == IF pos + w > Len(file) THEN pos + w ELSE Len(file)
<1>2. n \in Nat /\ n >= pos + w /\ n >= Len(file) /\ (n = pos + w \/ n = Len(file))
  BY <1>1
<1>3. Overwritten(w) = [i \in 1 .. n |->
         IF i \in (pos + 1) .. (pos + w) THEN recvBuf[i - pos] ELSE file[i]]
  BY DEF Overwritten
<1> HIDE DEF n
<1>4. ASSUME NEW i \in 1 .. n
      PROVE  (IF i \in (pos + 1) .. (pos + w) THEN recvBuf[i - pos] ELSE file[i]) \in Int
  <2>1. CASE i \in (pos + 1) .. (pos + w)
    <3>1. i - pos \in 1 .. Block
      BY <1>1, <1>2, <2>1, Lengths
    <3>2. recvBuf[i - pos] \in 0 .. FileLen
      BY <1>1, <3>1
    <3> QED  BY <2>1, <3>2, Lengths
  <2>2. CASE ~(i \in (pos + 1) .. (pos + w))
    <3>1. i \in 1 .. Len(file)
      BY <1>1, <1>2, <2>2
    <3>2. file[i] \in Int
      BY <1>1, <3>1
    <3> QED  BY <2>2, <3>2
  <2> QED  BY <2>1, <2>2
<1>5. Overwritten(w) \in Seq(Int) /\ Len(Overwritten(w)) = n
  BY <1>2, <1>3, <1>4
<1>6. ASSUME NEW i \in 1 .. pos PROVE Overwritten(w)[i] = file[i]
  <2>1. i \in 1 .. n /\ ~(i \in (pos + 1) .. (pos + w))
    BY <1>1, <1>2
  <2> QED  BY <1>3, <2>1
<1>7. ASSUME NEW i \in 1 .. w PROVE Overwritten(w)[pos + i] = recvBuf[i]
  <2>1. pos + i \in 1 .. n /\ pos + i \in (pos + 1) .. (pos + w) /\ (pos + i) - pos = i
    BY <1>1, <1>2
  <2> QED  BY <1>3, <2>1
<1> QED  BY <1>2, <1>5, <1>6, <1>7

LEMMA WriteIInv == ASSUME IInv, Write PROVE IInv'
<1>0. Types /\ SenderTypes /\ ReceiverTypes /\ Ending /\ FileHas
  BY DEF IInv, Types
<1>1. PICK p \in Places, q \in Places :
         Stream(net, p, q) /\ ReceiverAt(p) /\ WrittenAt(p) /\ SenderAt(q)
  BY DEF IInv
<1>2. /\ rpc = "write" /\ rpc' = "len"
      /\ UNCHANGED <<spc, sent, size, up, net, closed, arrived>>
      /\ UNCHANGED <<len, rc, recvBuf, named, dest, how>>
  BY Zenon DEF Write, sender, connection
<1>3. PICK w \in 0 .. len :
         /\ w > 0 => dest # "none"
         /\ file' = IF dest = "file" THEN Overwritten(w) ELSE file
         /\ pos' = pos + w
         /\ good' = IF failed \/ dest # "file" THEN good ELSE good + Least(w, rc)
         /\ failed' = (failed \/ w < len)
  BY DEF Write
<1>4. /\ p.off \in Int /\ p.off <= FileLen /\ 0 < rc /\ rc <= len /\ len <= Block /\ rc <= p.off
      /\ Drained \/ (rc = len /\ p.left = 0)
      /\ \A i \in 1 .. rc : recvBuf[i] = (p.off - rc) + i
      /\ pos <= p.off - rc
      /\ ~failed => pos = p.off - rc /\ good = p.off - rc
      /\ dest # "other" /\ how = "running" /\ failed \in BOOLEAN
      /\ dest \in {"none", "other", "file"}
  BY <1>0, <1>1, <1>2, PlaceIs DEF ReceiverAt, WrittenAt, Ending, ReceiverTypes
<1>5. /\ len \in Int /\ rc \in Int /\ pos \in Nat /\ good \in Nat /\ good <= FileLen
      /\ good <= pos /\ w \in Nat /\ w <= len /\ w <= Block /\ Len(file) \in Nat
      /\ pos <= Len(file)
  <2>1. /\ len \in Int /\ rc \in Int /\ pos \in Nat /\ good \in Nat /\ good <= FileLen
        /\ Len(file) \in Nat
    BY <1>0, ReceiverFacts
  <2>2. good <= pos /\ pos <= Len(file)
    BY <1>0 DEF FileHas
  <2>3. w \in Nat /\ w <= len /\ w <= Block
    BY <1>3, <1>4, <2>1, Lengths
  <2> QED  BY <2>1, <2>2, <2>3
<1>6. net' \in Seq(Units) /\ arrived' \in 0 .. Len(net')
  BY <1>0, <1>2 DEF SenderTypes
<1>7. /\ Overwritten(w) \in Seq(Int)
      /\ Len(Overwritten(w)) >= Len(file) /\ Len(Overwritten(w)) >= pos + w
      /\ \A i \in 1 .. pos : Overwritten(w)[i] = file[i]
      /\ \A i \in 1 .. w : Overwritten(w)[pos + i] = recvBuf[i]
  BY <1>0, <1>5, OverwrittenIs
<1> DEFINE m == Least(w, rc)
<1>8. m \in Nat /\ m <= w /\ m <= rc /\ (w = len => m = rc)
  BY <1>4, <1>5 DEF Least
<1> HIDE DEF m
(* What is written of what was received.                                   *)
<1>9. \/ good' = good /\ (failed \/ dest = "none")
      \/ good' = good + m /\ ~failed /\ dest = "file"
  BY <1>3, <1>4 DEF m
<1>10. good' \in 0 .. FileLen /\ good' <= pos' /\ good' >= good
  <2>1. CASE good' = good
    BY <1>3, <1>5, <2>1, Lengths
  <2>2. CASE good' = good + m /\ ~failed
    BY <1>3, <1>4, <1>5, <1>8, <2>2, Lengths
  <2> QED  BY <1>9, <2>1, <2>2
<1>11. file' \in Seq(Int) /\ pos' <= Len(file')
  <2>1. CASE dest = "file"
    <3>1. file' = Overwritten(w)
      BY <1>3, <2>1
    <3>2. Len(Overwritten(w)) \in Nat
      BY <1>7
    <3>3. pos' = pos + w
      BY <1>3
    <3> QED  BY <1>7, <3>1, <3>2, <3>3
  <2>2. CASE dest # "file"
    <3>1. file' = file /\ w = 0
      BY <1>3, <1>4, <1>5, <2>2
    <3>2. pos' = pos
      BY <1>3, <1>5, <3>1
    <3> QED  BY <1>0, <1>5, <3>1, <3>2, ReceiverFacts
  <2> QED  BY <2>1, <2>2
<1>12. PrefixWritten'
  <2>0. \A i \in 1 .. good : file[i] = i
    BY <1>0 DEF FileHas, PrefixWritten
  <2> SUFFICES ASSUME NEW i \in 1 .. good' PROVE file'[i] = i
    BY DEF PrefixWritten
  <2>1. i \in Int /\ i >= 1 /\ i <= good'
    BY <1>10, Lengths
  <2>2. CASE dest # "file"
    <3>1. file' = file /\ good' = good
      BY <1>3, <2>2
    <3> QED  BY <2>0, <3>1
  <2>3. CASE dest = "file" /\ i <= good
    <3>1. i \in 1 .. pos /\ i \in 1 .. good
      BY <1>5, <2>1, <2>3
    <3> QED  BY <1>3, <1>7, <2>0, <2>3, <3>1
  <2>4. CASE dest = "file" /\ ~(i <= good)
    <3>1. good' = good + m /\ ~failed
      BY <1>5, <1>9, <1>10, <2>1, <2>4
    <3>2. pos = p.off - rc /\ good = pos
      BY <1>4, <3>1
    <3>3. i - pos \in 1 .. w /\ i - pos \in 1 .. rc /\ pos + (i - pos) = i
      <4>1. pos \in Int /\ rc \in Int /\ w \in Int /\ m \in Int /\ m <= w /\ m <= rc
        BY <1>5, <1>8
      <4>2. i > pos /\ i <= pos + m
        BY <2>1, <2>4, <3>1, <3>2, <4>1
      <4> QED  BY <2>1, <4>1, <4>2
    <3>4. recvBuf[i - pos] = i
      BY <1>4, <2>1, <3>2, <3>3
    <3>5. file'[i] = recvBuf[i - pos]
      BY <1>3, <1>7, <2>4, <3>3
    <3> QED  BY <3>4, <3>5
  <2> QED  BY <2>2, <2>3, <2>4
<1>13. pos' \in 0 .. (FileLen + Block) /\ failed' \in BOOLEAN
  <2>1. pos' \in 0 .. (FileLen + Block)
    BY <1>3, <1>4, <1>5, Lengths
  <2>2. failed' \in BOOLEAN
    BY <1>3
  <2> QED  BY <2>1, <2>2
<1>14. ReceiverTypes'
  BY <1>0, <1>2, <1>10, <1>11, <1>13 DEF ReceiverTypes
<1>15. FileHas'
  BY <1>10, <1>11, <1>12 DEF FileHas
<1>16. ASSUME ~failed'
       PROVE  /\ pos' = (p.off - rc) + len /\ good' = p.off
              /\ ~Drained => pos' = p.off
              /\ pos' # good' => Drained /\ pos' - good' < Block
  <2>0. ~failed /\ ~(w < len)
    BY <1>3, <1>16, Zenon
  <2>1. ~failed /\ w = len
    BY <1>5, <2>0
  <2>2. dest = "file" /\ good' = good + rc
    BY <1>3, <1>4, <1>5, <1>8, <1>9, <2>1
  <2>3. pos = p.off - rc /\ good = p.off - rc /\ pos' = pos + len /\ (Drained \/ rc = len)
    BY <1>3, <1>4, <2>1
  <2>4. p.off \in Int /\ rc \in Int /\ len \in Int /\ 0 < rc /\ rc <= len /\ len <= Block /\ Block \in Int
    BY <1>4, <1>5, Lengths
  <2> QED  BY <2>2, <2>3, <2>4
<1>17. Ending'
  <2>1. (closed' => spc' = "end") /\ rpc' # "end" /\ how' = "running" /\ dest' # "other"
    BY <1>0, <1>2, <1>4 DEF Ending
  <2>2. Drained' = Drained
    BY <1>2 DEF Drained
  <2> QED  BY <1>16, <2>1, <2>2 DEF Ending
<1>18. ReceiverAt(p)'
  BY <1>2, <1>4, <1>5 DEF ReceiverAt, Drained
<1>19. WrittenAt(p)'
  <2>1. CASE Drained
    BY <1>2, <2>1 DEF WrittenAt, Drained
  <2>2. CASE ~Drained
    <3>1. pos' <= p.off
      BY <1>3, <1>4, <1>5, <2>2
    <3> QED  BY <1>2, <1>16, <2>2, <3>1 DEF WrittenAt
  <2> QED  BY <2>1, <2>2
<1> QED  BY <1>1, <1>2, <1>6, <1>14, <1>15, <1>17, <1>18, <1>19, ReceiverKeeps

-----------------------------------------------------------------------------
(* The invariant and what it says.                                         *)

LEMMA NextIInv == ASSUME IInv, [Next]_vars PROVE IInv'
<1>1. CASE Sender
  BY <1>1, SenderIInv
<1>2. CASE SenderDies
  BY <1>2, SenderDiesIInv
<1>3. CASE ConnectionBreaks
  BY <1>3, ConnectionBreaksIInv
<1>4. CASE Arrive
  BY <1>4, ArriveIInv
<1>5. CASE Receiver
  BY <1>5, SetUpIInv, RecvNameLenIInv, RecvNameIInv, CreateIInv, RecvLenIInv,
     RecvDataIInv, WriteIInv DEF Receiver
<1>6. CASE UNCHANGED vars
  <2>1. UNCHANGED sender /\ UNCHANGED connection /\ UNCHANGED receiver
    BY <1>6, Zenon DEF vars
  <2>2. /\ UNCHANGED <<spc, sent, size, up, net, closed, arrived>>
        /\ UNCHANGED <<rpc, len, rc, recvBuf, named, dest, file, pos, good, failed, how>>
    BY <2>1 DEF sender, connection, receiver
  <2>3. Types'
    BY <2>2 DEF IInv, Types, SenderTypes, ReceiverTypes
  <2>4. Ending' /\ FileHas'
    BY <2>2 DEF IInv, Ending, FileHas, PrefixWritten, Drained
  <2>5. PICK p \in Places, q \in Places :
           Stream(net, p, q) /\ ReceiverAt(p) /\ WrittenAt(p) /\ SenderAt(q)
    BY DEF IInv
  <2>6. Stream(net', p, q) /\ ReceiverAt(p)' /\ WrittenAt(p)' /\ SenderAt(q)'
    BY <2>2, <2>5 DEF ReceiverAt, WrittenAt, SenderAt, Drained
  <2> QED  BY <2>3, <2>4, <2>6 DEF IInv
<1> QED  BY <1>1, <1>2, <1>3, <1>4, <1>5, <1>6 DEF Next

LEMMA Invariant == Spec => []IInv
  BY InitIInv, NextIInv, PTL DEF Spec

(* The variables keep to their types: in particular what the receiver      *)
(* counts never exceeds the file by more than the block it writes.         *)
THEOREM FileTransmitterType == Spec => []TypeOK
<1>1. IInv => TypeOK
  BY TypesAreOK DEF IInv
<1> QED  BY <1>1, Invariant, PTL

(* Where the receiver expects a size there is one, and where it expects    *)
(* bytes there are bytes.                                                  *)
LEMMA Framed == ASSUME IInv PROVE Framing
<1>0. net \in Seq(Units) /\ Len(net) \in Nat /\ len \in Int
  BY DEF IInv, Types, SenderTypes, ReceiverTypes
<1>1. PICK p \in Places, q \in Places : Stream(net, p, q) /\ ReceiverAt(p)
  BY DEF IInv
<1>2. ASSUME rpc \in {"namelen", "len"}, net # <<>> PROVE Head(net).t = "size"
  <2>1. p.left = 0
    BY <1>1, <1>2 DEF ReceiverAt, Start, Place, Drained
  <2>2. PICK r \in Places : Reads(p, net[1], r)
    BY <1>0, <1>1, <1>2, FirstUnit
  <2>3. net[1].t = "size" /\ net[1] = Head(net)
    BY <1>0, <1>1, <1>2, <2>1, <2>2, ReadsUnit, FirstUnit
  <2> QED  BY <2>3
<1>3. ASSUME rpc \in {"name", "data"}, NEW i \in 1 .. Least(Wanted, Len(net))
      PROVE  net[i].t = "byte"
  <2>1. Wanted \in Int /\ Least(Wanted, Len(net)) \in Int
        /\ Least(Wanted, Len(net)) <= Len(net) /\ Least(Wanted, Len(net)) <= Wanted
    BY <1>0 DEF Least, Wanted
  <2>2. net # <<>>
    BY <1>0, <2>1
  <2>3. PICK r \in Places : Reads(p, net[1], r)
    BY <1>0, <1>1, <2>2, FirstUnit
  <2>4. p.left >= 0
    BY <2>3, ReadsUnit
  <2>5. len = p.left
    BY <1>1, <1>3, <2>2 DEF ReceiverAt, Place, Drained
  <2>6. Wanted = p.left
    BY <1>0, <2>4, <2>5 DEF Wanted
  <2> DEFINE k == Least(Wanted, Len(net))
  <2>7. k \in 0 .. Len(net) /\ k <= p.left /\ i \in 1 .. k
    BY <1>0, <2>1, <2>6
  <2> HIDE DEF k
  <2>8. net[i] = Byte(Content(p.off + i))
    BY <1>0, <1>1, <2>7, InBlock
  <2> QED  BY <2>8, Constructors
<1> QED  BY <1>2, <1>3 DEF Framing

(* What a cut connection leaves, for every file, block and name.           *)
THEOREM FileStarts == Spec => []FileStartsAsSent
<1>1. ASSUME IInv PROVE FileStartsAsSent
  <2>1. PrefixWritten
    BY <1>1 DEF IInv, FileHas
  <2>2. DamagedEndOnly
    <3>1. pos > good => pos # good
      BY <1>1 DEF IInv, Types, ReceiverTypes
    <3> QED  BY <1>1, <3>1 DEF IInv, Ending, Drained, DamagedEndOnly
  <2>3. OtherFileUntouched
    BY <1>1 DEF IInv, Ending, OtherFileUntouched
  <2> QED  BY <1>1, <2>1, <2>2, <2>3, Framed DEF FileStartsAsSent
<1> QED  BY <1>1, Invariant, PTL

-----------------------------------------------------------------------------
(* The transmitter implements FileTransfer.                                *)

LEMMA VerdictIs ==
    /\ rpc # "end" => verdict = "open"
    /\ rpc = "end" /\ how = "complete" /\ ~failed => verdict = "complete"
    /\ rpc = "end" /\ ~(how = "complete" /\ ~failed) => verdict = "incomplete"
  BY DEF verdict

LEMMA StutterOutside ==
    ASSUME UNCHANGED receiver PROVE UNCHANGED <<good, verdict>>
  BY DEF receiver, verdict

(* As long as the receiver goes on the transfer stays open.                *)
LEMMA GoesOn ==
    ASSUME rpc # "end", rpc' # "end" PROVE verdict = "open" /\ verdict' = "open"
  BY DEF verdict

(* Where it ends it has everything or gives up.                            *)
LEMMA EndsSo ==
    ASSUME IInv', rpc # "end", rpc' = "end", good' = good
    PROVE  Transfer!Complete \/ Transfer!GiveUp
<1>1. verdict = "open"
  BY VerdictIs
<1>2. CASE how' = "complete" /\ ~failed'
  <2>1. verdict' = "complete"
    BY <1>2 DEF verdict
  <2>2. good' = FileLen
    BY <1>2 DEF IInv, Ending
  <2> QED  BY <1>1, <2>1, <2>2 DEF Transfer!Complete
<1>3. CASE ~(how' = "complete" /\ ~failed')
  <2>1. verdict' = "incomplete"
    BY <1>3 DEF verdict
  <2> QED  BY <1>1, <2>1 DEF Transfer!GiveUp
<1> QED  BY <1>2, <1>3

(* Only write() makes the file grow.                                       *)
LEMMA WriteGrows ==
    ASSUME IInv, IInv', Write PROVE Transfer!Grow \/ UNCHANGED <<good, verdict>>
<1>1. rpc = "write" /\ rpc' = "len"
  BY DEF Write
<1>2. verdict = "open" /\ verdict' = "open"
  BY <1>1, GoesOn
<1>3. ReceiverTypes /\ good' \in 0 .. FileLen
  BY DEF IInv, Types, ReceiverTypes
<1>4. good \in Nat /\ rc \in Int /\ rc >= 0 /\ len \in Int
  BY <1>3, ReceiverFacts
<1>5. PICK w \in 0 .. len :
         good' = IF failed \/ dest # "file" THEN good ELSE good + Least(w, rc)
  BY DEF Write
<1>6. good' >= good
  <2>1. Least(w, rc) \in Int /\ Least(w, rc) >= 0
    BY <1>4, <1>5 DEF Least
  <2> QED  BY <1>4, <1>5, <2>1
<1>7. good' = good \/ good' \in (good + 1) .. FileLen
  BY <1>3, <1>4, <1>6, Lengths
<1> QED  BY <1>2, <1>7 DEF Transfer!Grow

LEMMA StepImplements ==
    ASSUME IInv, IInv', [Next]_vars
    PROVE  [Transfer!Next]_<<good, verdict>>
<1>1. CASE Sender \/ SenderDies \/ ConnectionBreaks \/ Arrive \/ UNCHANGED vars
  <2>1. UNCHANGED receiver
    <3>1. CASE Sender
      BY <3>1 DEF Sender, Connect, ConnectFail, OpenSource, OpenSourceFail, SendName,
             Read, ReadFail, SendSize, SendData, SendLast
    <3>2. CASE SenderDies \/ ConnectionBreaks \/ Arrive
      BY <3>2 DEF SenderDies, ConnectionBreaks, Arrive
    <3>3. CASE UNCHANGED vars
      BY <3>3, Zenon DEF vars
    <3> QED  BY <1>1, <3>1, <3>2, <3>3
  <2> QED  BY <2>1, StutterOutside
<1>2. CASE SetUp \/ SetUpFail \/ Accept \/ RecvNameLen \/ RecvName \/ Create \/ RecvLen \/ RecvData
  <2>1. good' = good /\ rpc # "end"
    BY <1>2 DEF SetUp, SetUpFail, Accept, RecvNameLen, RecvName, Create, RecvLen, RecvData
  <2>2. CASE rpc' = "end"
    <3>1. Transfer!Complete \/ Transfer!GiveUp
      BY <2>1, <2>2, EndsSo
    <3> QED  BY <3>1 DEF Transfer!Next
  <2>3. CASE rpc' # "end"
    <3>1. verdict = "open" /\ verdict' = "open"
      BY <2>1, <2>3, GoesOn
    <3> QED  BY <2>1, <3>1
  <2> QED  BY <2>2, <2>3
<1>3. CASE Write
  <2>1. Transfer!Grow \/ UNCHANGED <<good, verdict>>
    BY <1>3, WriteGrows
  <2> QED  BY <2>1 DEF Transfer!Next
<1> QED  BY <1>1, <1>2, <1>3 DEF Next, Receiver

(* Every behaviour of the two programs is one of FileTransfer: a transfer  *)
(* that ends with the size 0 and without a failed write is complete, and   *)
(* what the file has of the sent file only grows.                          *)
THEOREM TransmitterImplements == Spec => ImplementsTransfer
<1>1. Init => Transfer!Init
  <2> SUFFICES ASSUME Init PROVE good = 0 /\ verdict = "open"
    BY DEF Transfer!Init
  <2> QED  BY VerdictIs DEF Init
<1>2. IInv /\ IInv' /\ [Next]_vars => [Transfer!Next]_<<good, verdict>>
  BY StepImplements
<1> QED  BY <1>1, <1>2, Invariant, PTL DEF Spec, ImplementsTransfer, Transfer!Spec
=============================================================================
