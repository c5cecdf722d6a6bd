---------------------------- MODULE IoMap_proofs ----------------------------
(***************************************************************************)
(* The process image, for every bus: the map gives each slave its own bits *)
(* and cuts no slave of whole bytes, and an exchange without losses shows  *)
(* the program and the slaves the same.                                    *)
(***************************************************************************)
EXTENDS IoMap, FiniteSetTheorems, WellFoundedInduction, TLAPS


----------------------------------------------------------------------------
(* Induction over the numbers up to one, in the form of sets. *)

LEMMA Least ==
  ASSUME NEW T \in SUBSET Nat, T # {}
  PROVE  \E x \in T : \A y \in T : x <= y
<1>1. IsWellFoundedOn(OpToRel(<, Nat), Nat)
  BY NatLessThanWellFounded
<1>2. PICK x \in T : \A y \in T : ~ (<< y, x >> \in OpToRel(<, Nat))
  BY <1>1, WFMin
<1>3. \A y \in T : ~(y < x)
  BY <1>2 DEF OpToRel
<1> QED
  BY <1>3

LEMMA Induct ==
  ASSUME NEW N \in Nat, NEW S, 0 \in S,
         ASSUME NEW k \in 0 .. N - 1, k \in S PROVE k + 1 \in S
  PROVE  0 .. N \subseteq S
<1> DEFINE T == (0 .. N) \ S
<1> SUFFICES ASSUME T # {} PROVE FALSE
  OBVIOUS
<1>1. PICK x \in T : \A y \in T : x <= y
  <2>1. T \in SUBSET Nat
    OBVIOUS
  <2> HIDE DEF T
  <2> QED
    BY <2>1, Least
<1>2. x \in 0 .. N /\ x # 0 /\ x \notin S
  OBVIOUS
<1>3. x - 1 \in 0 .. N - 1 /\ ~(x <= x - 1)
  BY <1>2
<1>4. x - 1 \in S
  BY <1>1, <1>3
<1>5. (x - 1) + 1 \in S
  BY <1>3, <1>4
<1>6. (x - 1) + 1 = x
  BY <1>2
<1> QED
  BY <1>2, <1>5, <1>6

----------------------------------------------------------------------------
(* The bytes before each segment. *)

EndsOf(f, segments, l) ==
  f = [k \in 0 .. l |-> IF k = 0 THEN 0 ELSE f[k - 1] + segments[k]]

LEMMA EndsIs ==
  ASSUME NEW s \in Seq(Nat)
  PROVE  EndsOf(Ends(s), s, Len(s))
<1> DEFINE S == {l \in Nat : \E f : EndsOf(f, s, l)}
<1>1. 0 \in S
  <2> DEFINE f == [k \in 0 .. 0 |-> 0]
  <2>1. EndsOf(f, s, 0)
    BY DEF EndsOf
  <2> QED
    BY <2>1
<1>2. ASSUME NEW l \in 0 .. Len(s) - 1, l \in S
      PROVE  l + 1 \in S
  <2>1. l \in Nat /\ l + 1 \in Nat /\ l + 1 # 0 /\ (l + 1) - 1 = l
    OBVIOUS
  <2>2. PICK f : EndsOf(f, s, l)
    BY <1>2
  <2> DEFINE g == [k \in 0 .. l + 1 |-> IF k = l + 1 THEN f[l] + s[l + 1] ELSE f[k]]
  <2>3. ASSUME NEW k \in 0 .. l + 1
        PROVE  g[k] = IF k = 0 THEN 0 ELSE g[k - 1] + s[k]
    <3>1. CASE k = l + 1
      BY <2>1, <3>1
    <3>2. CASE k # l + 1
      <4>1. k \in 0 .. l /\ (k = 0 \/ k - 1 \in 0 .. l) /\ k - 1 # l + 1
        BY <2>1, <3>2
      <4>2. f[k] = IF k = 0 THEN 0 ELSE f[k - 1] + s[k]
        BY <2>2, <4>1 DEF EndsOf
      <4> QED
        BY <4>1, <4>2, <3>2
    <3> QED
      BY <3>1, <3>2
  <2>4. EndsOf(g, s, l + 1)
    BY <2>3 DEF EndsOf
  <2> QED
    BY <2>1, <2>4
<1>3. 0 .. Len(s) \subseteq S
  <2>1. Len(s) \in Nat
    OBVIOUS
  <2> HIDE DEF S
  <2> QED
    BY <1>1, <1>2, <2>1, Induct
<1>4. \E f : EndsOf(f, s, Len(s))
  <2>1. Len(s) \in 0 .. Len(s)
    OBVIOUS
  <2> QED
    BY <1>3, <2>1
<1>5. Ends(s) = CHOOSE f : EndsOf(f, s, Len(s))
  BY DEF Ends, EndsOf
<1> QED
  BY <1>4, <1>5

\* What the proofs use of it.
LEMMA EndsFacts ==
  ASSUME NEW s \in Seq(Nat)
  PROVE  /\ Ends(s)[0] = 0
         /\ \A k \in 1 .. Len(s) : Ends(s)[k] = Ends(s)[k - 1] + s[k]
         /\ \A k \in 0 .. Len(s) : Ends(s)[k] \in Nat
<1> DEFINE f == Ends(s)
<1>1. Len(s) \in Nat /\ \A k \in 1 .. Len(s) : s[k] \in Nat
  OBVIOUS
<1>2. f[0] = 0
  BY EndsIs, <1>1 DEF EndsOf
<1>3. \A k \in 1 .. Len(s) : f[k] = f[k - 1] + s[k]
  BY EndsIs, <1>1 DEF EndsOf
<1> HIDE DEF f
<1> DEFINE S == {k \in 0 .. Len(s) : f[k] \in Nat}
<1>4. 0 \in S
  BY <1>1, <1>2
<1>5. ASSUME NEW k \in 0 .. Len(s) - 1, k \in S PROVE k + 1 \in S
  BY <1>1, <1>3, <1>5
<1>6. 0 .. Len(s) \subseteq S
  <2> HIDE DEF S
  <2> QED
    BY <1>1, <1>4, <1>5, Induct
<1> QED
  BY <1>2, <1>3, <1>6 DEF f

\* Another segment leaves the others where they are.
LEMMA EndsAppend ==
  ASSUME NEW s \in Seq(Nat), NEW x \in Nat
  PROVE  /\ \A k \in 0 .. Len(s) : Ends(Append(s, x))[k] = Ends(s)[k]
         /\ Ends(Append(s, x))[Len(s) + 1] = Ends(s)[Len(s)] + x
<1> DEFINE a == Append(s, x)
           S == {k \in 0 .. Len(s) : Ends(a)[k] = Ends(s)[k]}
<1>1. /\ a \in Seq(Nat) /\ Len(a) = Len(s) + 1 /\ Len(s) \in Nat /\ a[Len(s) + 1] = x
      /\ \A k \in 1 .. Len(s) : a[k] = s[k]
  OBVIOUS
<1> HIDE DEF a
<1>2. /\ Ends(a)[0] = 0
      /\ \A k \in 1 .. Len(s) + 1 : Ends(a)[k] = Ends(a)[k - 1] + a[k]
  BY <1>1, EndsFacts
<1>3. 0 \in S
  BY <1>1, <1>2, EndsFacts
<1>4. ASSUME NEW k \in 0 .. Len(s) - 1, k \in S PROVE k + 1 \in S
  <2>1. k + 1 \in 1 .. Len(s) /\ k + 1 \in 1 .. Len(s) + 1 /\ (k + 1) - 1 = k
        /\ k + 1 \in 0 .. Len(s)
    BY <1>1
  <2>2. Ends(a)[k + 1] = Ends(a)[k] + a[k + 1]
    BY <1>2, <2>1
  <2>3. Ends(s)[k + 1] = Ends(s)[k] + s[k + 1]
    BY <2>1, EndsFacts
  <2> QED
    BY <1>1, <1>4, <2>1, <2>2, <2>3
<1>5. 0 .. Len(s) \subseteq S
  <2> HIDE DEF S
  <2> QED
    BY <1>1, <1>3, <1>4, Induct
<1>6. Ends(a)[Len(s) + 1] = Ends(a)[Len(s)] + x
  <2>1. Len(s) + 1 \in 1 .. Len(s) + 1 /\ (Len(s) + 1) - 1 = Len(s)
    BY <1>1
  <2> QED
    BY <1>1, <1>2, <2>1
<1>7. \A k \in 0 .. Len(s) : Ends(a)[k] = Ends(s)[k]
  BY <1>5
<1> QED
  BY <1>1, <1>6, <1>7 DEF a

----------------------------------------------------------------------------
(* Placing slaves. *)

AfterOf(f, m, bits, l) ==
  f = [n \in 0 .. l |-> IF n = 0 THEN m ELSE PlaceSlave(f[n - 1], bits[n])]

LEMMA AfterIs ==
  ASSUME NEW m, NEW bits \in Seq(Nat)
  PROVE  AfterOf(After(m, bits), m, bits, Len(bits))
<1> DEFINE S == {l \in Nat : \E f : AfterOf(f, m, bits, l)}
<1>1. 0 \in S
  <2> DEFINE f == [k \in 0 .. 0 |-> m]
  <2>1. AfterOf(f, m, bits, 0)
    BY DEF AfterOf
  <2> QED
    BY <2>1
<1>2. ASSUME NEW l \in 0 .. Len(bits) - 1, l \in S
      PROVE  l + 1 \in S
  <2>1. l \in Nat /\ l + 1 \in Nat /\ l + 1 # 0 /\ (l + 1) - 1 = l
    OBVIOUS
  <2>2. PICK f : AfterOf(f, m, bits, l)
    BY <1>2
  <2> DEFINE g == [k \in 0 .. l + 1 |->
                    IF k = l + 1 THEN PlaceSlave(f[l], bits[l + 1]) ELSE f[k]]
  <2>3. ASSUME NEW k \in 0 .. l + 1
        PROVE  g[k] = IF k = 0 THEN m ELSE PlaceSlave(g[k - 1], bits[k])
    <3>1. CASE k = l + 1
      <4>1. l \in 0 .. l + 1 /\ l # l + 1
        BY <2>1
      <4> QED
        BY <2>1, <3>1, <4>1
    <3>2. CASE k # l + 1
      <4>1. k \in 0 .. l /\ (k = 0 \/ k - 1 \in 0 .. l) /\ k - 1 # l + 1
        BY <2>1, <3>2
      <4>2. f[k] = IF k = 0 THEN m ELSE PlaceSlave(f[k - 1], bits[k])
        BY <2>2, <4>1 DEF AfterOf
      <4> QED
        BY <4>1, <4>2, <3>2
    <3> QED
      BY <3>1, <3>2
  <2>4. AfterOf(g, m, bits, l + 1)
    BY <2>3 DEF AfterOf
  <2> QED
    BY <2>1, <2>4
<1>3. 0 .. Len(bits) \subseteq S
  <2>1. Len(bits) \in Nat
    OBVIOUS
  <2> HIDE DEF S
  <2> QED
    BY <1>1, <1>2, <2>1, Induct
<1>4. \E f : AfterOf(f, m, bits, Len(bits))
  <2>1. Len(bits) \in 0 .. Len(bits)
    OBVIOUS
  <2> QED
    BY <1>3, <2>1
<1>5. After(m, bits) = CHOOSE f : AfterOf(f, m, bits, Len(bits))
  BY DEF After, AfterOf
<1> QED
  BY <1>4, <1>5

\* Records of the map.
Maps ==
  [ addr : Nat, bit : 0 .. 7, done : Nat, size : Nat, segments : Seq(Nat),
    places : Seq(Nat \X (0 .. 7)) ]

\* Bytes in which the slaves so far have data.
Top(m) == IF m.bit > 0 THEN m.addr + 1 ELSE m.addr

Location == Nat \X (0 .. 7)
Locations == Seq(Location)

LEMMA Moved ==
  ASSUME NEW m, NEW addr, NEW bit, NEW places
  PROVE  /\ Move(m, addr, bit, places).addr = addr /\ Move(m, addr, bit, places).bit = bit
         /\ Move(m, addr, bit, places).done = m.done
         /\ Move(m, addr, bit, places).size = m.size
         /\ Move(m, addr, bit, places).segments = m.segments
         /\ Move(m, addr, bit, places).places = places
  BY DEF Move

LEMMA MovedType ==
  ASSUME NEW m \in Maps, NEW addr \in Nat, NEW bit \in 0 .. 7, NEW places \in Locations
  PROVE  Move(m, addr, bit, places) \in Maps
  BY DEF Move, Maps, Locations, Location

LEMMA Accounted ==
  ASSUME NEW m \in Maps, m.done <= m.addr
  PROVE  /\ Account(m) \in Maps
         /\ Account(m).places = m.places /\ Account(m).addr = m.addr
         /\ Account(m).bit = m.bit /\ Account(m).done = m.addr
         /\ \/ /\ m.size + (m.addr - m.done) > MaxSegment
               /\ Account(m).segments = Append(m.segments, m.size)
               /\ Account(m).size = m.addr - m.done
            \/ /\ m.size + (m.addr - m.done) <= MaxSegment
               /\ Account(m).segments = m.segments
               /\ Account(m).size = m.size + (m.addr - m.done)
<1>1. /\ m.addr \in Nat /\ m.done \in Nat /\ m.size \in Nat /\ m.bit \in 0 .. 7
      /\ m.segments \in Seq(Nat) /\ m.places \in Seq(Nat \X (0 .. 7))
  BY DEF Maps
<1>2. m.addr - m.done \in Nat /\ m.size + (m.addr - m.done) \in Nat /\ MaxSegment \in Nat
  BY <1>1, IoAssumption
<1>3. Append(m.segments, m.size) \in Seq(Nat)
  BY <1>1
<1> QED
  BY <1>1, <1>2, <1>3 DEF Account, Maps

\* The first bit of a slave's data, and the byte of its last one.
FirstBit(place) == 8 * place[1] + place[2]
LastByte(place, bits) == place[1] + ((place[2] + bits) - 1) \div 8

LEMMA BitDiv ==
  ASSUME NEW a \in Nat, NEW s \in 0 .. 7
  PROVE  (8 * a + s) \div 8 = a
OBVIOUS

LEMMA Eights ==
  ASSUME NEW a \in Nat
  PROVE  /\ a \div 8 \in Nat /\ a % 8 \in 0 .. 7
         /\ a = 8 * (a \div 8) + (a % 8)
         /\ 8 * (a \div 8) <= a /\ a < 8 * (a \div 8) + 8
OBVIOUS

LEMMA Carry ==
  ASSUME NEW x \in 1 .. 14
  PROVE  /\ x \div 8 \in 0 .. 1 /\ x % 8 \in 0 .. 7 /\ x = 8 * (x \div 8) + (x % 8)
         /\ (x - 1) \div 8 + 1 = IF x % 8 > 0 THEN (x \div 8) + 1 ELSE x \div 8
OBVIOUS

LEMMA Regroup ==
  ASSUME NEW a \in Nat, NEW b \in Nat, NEW c \in Nat, NEW e \in Nat, b + c = e
  PROVE  8 * a + b \in Nat /\ (8 * a + b) + c = 8 * a + e
OBVIOUS

\* PlaceSlave: next is the map after it.
StepFacts(m, next, bits, place) ==
  /\ next \in Maps /\ next.done = next.addr /\ m.addr <= next.addr
  /\ next.places = Append(m.places, place)
  /\ m.addr <= place[1] /\ place[1] <= Top(m)
  /\ place[2] > 0 => m.bit > 0 /\ place[1] = m.addr
  /\ bits = 0 => Top(next) = Top(m) /\ next.addr = m.addr /\ next.bit = m.bit
  /\ bits > 0 => /\ 8 * m.addr + m.bit <= FirstBit(place)
                 /\ FirstBit(place) + bits <= 8 * next.addr + next.bit
                 /\ LastByte(place, bits) + 1 = Top(next)
  /\ bits > 7 => place[2] = 0 /\ next.bit = 0
  /\ \/ next.segments = Append(m.segments, m.size) /\ next.size = next.addr - m.addr
     \/ next.segments = m.segments /\ next.size = m.size + (next.addr - m.addr)
        /\ (bits > 0 => next.size <= MaxSegment)
  /\ (bits + 7) \div 8 <= MaxSegment => next.addr - m.addr <= MaxSegment + 1

LEMMA PlaceNone ==
  ASSUME NEW m \in Maps, m.done = m.addr
  PROVE  StepFacts(m, PlaceSlave(m, 0), 0, << m.addr, 0 >>)
<1> DEFINE place == << m.addr, 0 >>
           places == Append(m.places, place)
           next == Move(m, m.addr, m.bit, places)
<1>1. /\ m.addr \in Nat /\ m.size \in Nat /\ m.bit \in 0 .. 7 /\ MaxSegment \in Nat
      /\ m.places \in Locations
  BY IoAssumption DEF Maps, Locations, Location
<1>2. places \in Locations
  BY <1>1 DEF Locations, Location
<1> HIDE DEF places
<1>3. /\ next \in Maps
      /\ next.addr = m.addr /\ next.bit = m.bit /\ next.done = m.done
      /\ next.size = m.size /\ next.segments = m.segments
      /\ next.places = places
  <2>1. next \in Maps
    BY <1>1, <1>2, MovedType
  <2> QED
    BY <2>1, Moved
<1>4. PlaceSlave(m, 0) = next
  BY DEF PlaceSlave, places
<1>5. place[1] = m.addr /\ place[2] = 0
  OBVIOUS
<1> HIDE DEF next, place
<1>6. StepFacts(m, next, 0, place)
  BY <1>1, <1>3, <1>5 DEF StepFacts, Top, places
<1> QED
  BY <1>4, <1>6 DEF place

LEMMA PlaceWhole ==
  ASSUME NEW m \in Maps, m.done = m.addr, NEW bits \in Nat, bits > 7
  PROVE  StepFacts(m, PlaceSlave(m, bits), bits, << Top(m), 0 >>)
<1> DEFINE place == << Top(m), 0 >>
           w == (bits + 7) \div 8
           places == Append(m.places, place)
           addr == Top(m) + w
           mid == Move(m, addr, 0, places)
           next == Account(mid)
<1>1. /\ m.addr \in Nat /\ m.size \in Nat /\ m.bit \in 0 .. 7 /\ MaxSegment \in Nat
      /\ m.places \in Locations /\ Top(m) \in Nat /\ m.addr <= Top(m) /\ Top(m) <= m.addr + 1
  BY IoAssumption DEF Maps, Locations, Location, Top
<1>2. w \in Nat /\ 8 * w >= bits /\ w >= 1 /\ (bits - 1) \div 8 + 1 = w
  OBVIOUS
<1> HIDE DEF w
<1>3. places \in Locations /\ addr \in Nat /\ 0 \in 0 .. 7
  BY <1>1, <1>2 DEF Locations, Location
<1> HIDE DEF places, addr
<1>4. /\ mid \in Maps
      /\ mid.addr = addr /\ mid.bit = 0 /\ mid.done = m.done
      /\ mid.size = m.size /\ mid.segments = m.segments
      /\ mid.places = places
  <2>1. mid \in Maps
    BY <1>1, <1>3, MovedType
  <2> QED
    BY <2>1, Moved
<1>5. PlaceSlave(m, bits) = next
  BY DEF PlaceSlave, PlaceBytes, Top, w, places, addr
<1>6. place[1] = Top(m) /\ place[2] = 0
  OBVIOUS
<1> HIDE DEF mid, place
<1>7. mid.done <= mid.addr
  BY <1>1, <1>2, <1>4 DEF addr
<1>8. /\ next \in Maps
      /\ next.addr = mid.addr /\ next.bit = 0 /\ next.done = mid.addr
      /\ next.places = mid.places
      /\ \/ next.segments = Append(m.segments, m.size) /\ next.size = mid.addr - mid.done
         \/ /\ next.segments = m.segments /\ next.size = m.size + (mid.addr - mid.done)
            /\ m.size + (mid.addr - mid.done) <= MaxSegment
  BY <1>4, <1>7, Accounted
<1> HIDE DEF next
<1>9. /\ m.addr <= next.addr /\ next.addr = addr /\ next.done = next.addr
      /\ next.addr - m.addr \in Nat
      /\ \/ next.segments = Append(m.segments, m.size) /\ next.size = next.addr - m.addr
         \/ /\ next.segments = m.segments /\ next.size = m.size + (next.addr - m.addr)
            /\ next.size <= MaxSegment
  BY <1>1, <1>2, <1>4, <1>8 DEF addr
<1>10. LastByte(place, bits) + 1 = Top(next)
  <2>1. LastByte(place, bits) = Top(m) + ((bits - 1) \div 8)
    BY <1>6 DEF LastByte
  <2>2. Top(next) = addr
    BY <1>8, <1>9 DEF Top
  <2>3. (bits - 1) \div 8 \in Nat
    OBVIOUS
  <2> QED
    BY <1>1, <1>2, <2>1, <2>2, <2>3 DEF addr
<1>11. /\ 8 * m.addr + m.bit <= FirstBit(place)
       /\ FirstBit(place) + bits <= 8 * next.addr + next.bit
  <2>1. FirstBit(place) = 8 * Top(m)
    BY <1>1, <1>6 DEF FirstBit
  <2>2. 8 * m.addr + m.bit <= 8 * Top(m)
    BY <1>1 DEF Top
  <2>3. 8 * next.addr + next.bit = 8 * Top(m) + 8 * w
    BY <1>1, <1>2, <1>8, <1>9 DEF addr
  <2> QED
    BY <1>1, <1>2, <2>1, <2>2, <2>3
<1>12. w <= MaxSegment => next.addr - m.addr <= MaxSegment + 1
  BY <1>1, <1>2, <1>9 DEF addr
<1>13. next.places = Append(m.places, place)
  BY <1>4, <1>8 DEF places
<1>14. bits > 0 /\ bits # 0
  OBVIOUS
<1> HIDE DEF addr
<1>15. StepFacts(m, next, bits, place)
  BY <1>1, <1>6, <1>8, <1>9, <1>10, <1>11, <1>12, <1>13, <1>14 DEF StepFacts, w
<1> QED
  BY <1>5, <1>15 DEF place

LEMMA PlaceFew ==
  ASSUME NEW m \in Maps, m.done = m.addr, NEW bits \in 1 .. 7
  PROVE  StepFacts(m, PlaceSlave(m, bits), bits, << m.addr, m.bit >>)
<1> DEFINE place == << m.addr, m.bit >>
           d == (m.bit + bits) \div 8
           r == (m.bit + bits) % 8
           places == Append(m.places, place)
           addr == m.addr + d
           mid == Move(m, addr, r, places)
           next == Account(mid)
<1>1. /\ m.addr \in Nat /\ m.size \in Nat /\ m.bit \in 0 .. 7 /\ MaxSegment \in Nat \ {0}
      /\ m.places \in Locations
  BY IoAssumption DEF Maps, Locations, Location
<1>2. /\ d \in 0 .. 1 /\ r \in 0 .. 7 /\ m.bit + bits = 8 * d + r
      /\ ((m.bit + bits) - 1) \div 8 + 1 = IF r > 0 THEN d + 1 ELSE d
  <2>1. m.bit + bits \in 1 .. 14
    BY <1>1
  <2> QED
    BY <2>1, Carry
<1> HIDE DEF d, r
<1>3. places \in Locations /\ addr \in Nat
  BY <1>1, <1>2 DEF Locations, Location
<1> HIDE DEF places, addr
<1>4. /\ mid \in Maps /\ mid.addr = addr /\ mid.bit = r /\ mid.done = m.done
      /\ mid.size = m.size /\ mid.segments = m.segments
      /\ mid.places = places
  <2>1. mid \in Maps
    BY <1>1, <1>2, <1>3, MovedType
  <2> QED
    BY <2>1, Moved
<1>5. PlaceSlave(m, bits) = next
  BY DEF PlaceSlave, PlaceBits, d, r, places, addr
<1>6. place[1] = m.addr /\ place[2] = m.bit
  OBVIOUS
<1> HIDE DEF mid, place
<1>7. mid.done <= mid.addr
  BY <1>1, <1>2, <1>4 DEF addr
<1>8. /\ next \in Maps /\ next.addr = mid.addr /\ next.bit = r /\ next.done = mid.addr
      /\ next.places = mid.places
      /\ \/ next.segments = Append(m.segments, m.size) /\ next.size = mid.addr - mid.done
         \/ /\ next.segments = m.segments /\ next.size = m.size + (mid.addr - mid.done)
            /\ m.size + (mid.addr - mid.done) <= MaxSegment
  BY <1>4, <1>7, Accounted
<1> HIDE DEF next
<1>9. /\ m.addr <= next.addr /\ next.addr = addr /\ next.done = next.addr
      /\ next.addr - m.addr \in Nat
      /\ \/ next.segments = Append(m.segments, m.size) /\ next.size = next.addr - m.addr
         \/ /\ next.segments = m.segments /\ next.size = m.size + (next.addr - m.addr)
            /\ next.size <= MaxSegment
  <2>1. addr \in Nat /\ m.addr <= addr
    BY <1>1, <1>2 DEF addr
  <2> QED
    BY <1>1, <1>4, <1>8, <2>1
<1>10. LastByte(place, bits) + 1 = Top(next)
  <2>1. LastByte(place, bits) = m.addr + (((m.bit + bits) - 1) \div 8)
    BY <1>6 DEF LastByte
  <2>2. ((m.bit + bits) - 1) \div 8 \in Nat
    BY <1>1
  <2>3. Top(next) = IF r > 0 THEN addr + 1 ELSE addr
    BY <1>8, <1>9 DEF Top
  <2> QED
    BY <1>1, <1>2, <2>1, <2>2, <2>3 DEF addr
<1>11. /\ 8 * m.addr + m.bit <= FirstBit(place)
       /\ FirstBit(place) + bits <= 8 * next.addr + next.bit
  <2>1. FirstBit(place) = 8 * m.addr + m.bit
    BY <1>1, <1>6 DEF FirstBit
  <2>2. 8 * next.addr + next.bit = 8 * m.addr + (8 * d + r)
    BY <1>1, <1>2, <1>8, <1>9 DEF addr
  <2>3. bits \in Nat /\ m.bit \in Nat /\ d \in Nat /\ r \in Nat
    BY <1>1, <1>2
  <2> DEFINE e == 8 * d + r
  <2>4. e \in Nat /\ m.bit + bits = e
    BY <1>2, <2>3
  <2> HIDE DEF e
  <2>5. 8 * m.addr + m.bit \in Nat /\ (8 * m.addr + m.bit) + bits = 8 * m.addr + e
    BY <1>1, <2>3, <2>4, Regroup
  <2> QED
    BY <2>1, <2>2, <2>3, <2>5 DEF e
<1>12. next.addr - m.addr <= MaxSegment + 1
  BY <1>1, <1>2, <1>9 DEF addr
<1>13. next.places = Append(m.places, place)
  BY <1>4, <1>8 DEF places
<1>14. bits > 0 /\ bits # 0 /\ ~(bits > 7)
  OBVIOUS
<1>15. place[1] <= Top(m) /\ m.addr <= place[1]
  BY <1>1, <1>6 DEF Top
<1> HIDE DEF addr
<1>16. StepFacts(m, next, bits, place)
  BY <1>1, <1>6, <1>8, <1>9, <1>10, <1>11, <1>12, <1>13, <1>14, <1>15 DEF StepFacts
<1> QED
  BY <1>5, <1>16 DEF place

LEMMA Placed ==
  ASSUME NEW m \in Maps, m.done = m.addr, NEW bits \in Nat
  PROVE  \E place \in Nat \X (0 .. 7) : StepFacts(m, PlaceSlave(m, bits), bits, place)
<1>1. m.addr \in Nat /\ Top(m) \in Nat /\ m.bit \in 0 .. 7
  BY DEF Maps, Top
<1>2. bits = 0 \/ bits \in 1 .. 7 \/ bits > 7
  OBVIOUS
<1>3. CASE bits = 0
  <2> DEFINE place == << m.addr, 0 >>
  <2>1. place \in Nat \X (0 .. 7)
    BY <1>1
  <2>2. StepFacts(m, PlaceSlave(m, bits), bits, place)
    BY <1>3, PlaceNone
  <2> QED
    BY <2>1, <2>2
<1>4. CASE bits \in 1 .. 7
  <2> DEFINE place == << m.addr, m.bit >>
  <2>1. place \in Nat \X (0 .. 7)
    BY <1>1
  <2>2. StepFacts(m, PlaceSlave(m, bits), bits, place)
    BY <1>4, PlaceFew
  <2> QED
    BY <2>1, <2>2
<1>5. CASE bits > 7
  <2> DEFINE place == << Top(m), 0 >>
  <2>1. place \in Nat \X (0 .. 7)
    BY <1>1
  <2>2. StepFacts(m, PlaceSlave(m, bits), bits, place)
    BY <1>5, PlaceWhole
  <2> QED
    BY <2>1, <2>2
<1> QED
  BY <1>2, <1>3, <1>4, <1>5

----------------------------------------------------------------------------
(* The layout of the slaves placed so far. *)

\* The bytes in which a slave has data.
Bytes(place, bits) == {y \in Nat : bits > 0 /\ place[1] <= y /\ y <= LastByte(place, bits)}

LEMMA PlaceFacts ==
  ASSUME NEW place \in Location, NEW bits \in Nat
  PROVE  /\ place[1] \in Nat /\ place[2] \in 0 .. 7
         /\ FirstBit(place) \in Nat /\ FirstBit(place) + bits \in Nat
         /\ LastByte(place, bits) \in Int
         /\ bits > 0 => LastByte(place, bits) \in Nat /\ place[1] <= LastByte(place, bits)
<1>1. place[1] \in Nat /\ place[2] \in 0 .. 7
  BY DEF Location
<1> DEFINE d == ((place[2] + bits) - 1) \div 8
<1>2. d \in Int /\ (bits > 0 => d \in Nat)
  <2> DEFINE e == (place[2] + bits) - 1
  <2>1. e \in Int /\ (bits > 0 => e \in Nat)
    BY <1>1
  <2> HIDE DEF e
  <2>2. e \div 8 \in Int /\ (bits > 0 => e \div 8 \in Nat)
    BY <2>1
  <2> QED
    BY <2>2 DEF e
<1> HIDE DEF d
<1>3. LastByte(place, bits) = place[1] + d
  BY DEF LastByte, d
<1>4. FirstBit(place) = 8 * place[1] + place[2]
  BY DEF FirstBit
<1> QED
  BY <1>1, <1>2, <1>3, <1>4

LEMMA DataIs ==
  ASSUME NEW place \in Location, NEW bits \in Nat
  PROVE  \A b : b \in DataBits(place, bits)
                 <=> b \in Nat /\ FirstBit(place) <= b /\ b < FirstBit(place) + bits
<1>1. place[1] \in Nat /\ place[2] \in Nat
  BY DEF Location
<1> DEFINE x == 8 * place[1] + place[2]
<1>2. x \in Nat
  BY <1>1
<1> HIDE DEF x
<1>3. DataBits(place, bits) = {x + c : c \in 0 .. bits - 1}
  BY DEF DataBits, SlaveBit, x
<1>4. ASSUME NEW b \in Nat, x <= b, b < x + bits
      PROVE  \E c \in 0 .. bits - 1 : b = x + c
  <2>1. b - x \in 0 .. bits - 1 /\ b = x + (b - x)
    BY <1>2, <1>4
  <2> QED
    BY <2>1
<1>5. ASSUME NEW c \in 0 .. bits - 1
      PROVE  x + c \in Nat /\ x <= x + c /\ x + c < x + bits
  BY <1>2
<1>6. FirstBit(place) = x
  BY DEF FirstBit, x
<1> QED
  BY <1>3, <1>4, <1>5, <1>6

LEMMA BytesAre ==
  ASSUME NEW place \in Location, NEW bits \in Nat
  PROVE  BytesOf(DataBits(place, bits)) = Bytes(place, bits)
<1> DEFINE a == place[1]
           s == place[2]
           x == 8 * a + s
           last == (s + bits) - 1
<1>1. a \in Nat /\ s \in 0 .. 7 /\ x \in Nat
  BY DEF Location
<1>2. FirstBit(place) = x /\ LastByte(place, bits) = a + (last \div 8)
  BY DEF FirstBit, LastByte
<1>3. ASSUME NEW y \in BytesOf(DataBits(place, bits)) PROVE y \in Bytes(place, bits)
  <2>1. PICK b \in DataBits(place, bits) : y = b \div 8
    BY DEF BytesOf
  <2>2. b \in Nat /\ x <= b /\ b < x + bits
    BY <1>2, DataIs
  <2>3. bits > 0 /\ last \in Nat
    BY <1>1, <2>2
  <2>4. /\ y \in Nat /\ 8 * y <= b /\ b < 8 * y + 8
        /\ last \div 8 \in Nat /\ last < 8 * (last \div 8) + 8
    BY <2>1, <2>2, <2>3, Eights
  <2> DEFINE z == last \div 8
  <2> HIDE DEF z
  <2>5. z \in Nat /\ last < 8 * z + 8
    BY <2>4 DEF z
  <2>6. a <= y
    BY <1>1, <2>2, <2>4
  <2>7. y <= a + z
    BY <1>1, <2>2, <2>3, <2>4, <2>5
  <2> QED
    BY <1>2, <2>3, <2>4, <2>6, <2>7 DEF Bytes, z
<1>4. ASSUME NEW y \in Bytes(place, bits) PROVE y \in BytesOf(DataBits(place, bits))
  <2>1. y \in Nat /\ bits > 0 /\ a <= y /\ y <= a + (last \div 8)
    BY <1>2 DEF Bytes
  <2>2. last \in Nat
    BY <1>1, <2>1
  <2>3. last \div 8 \in Nat /\ 8 * (last \div 8) <= last
    BY <2>2, Eights
  <2> DEFINE z == last \div 8
  <2> HIDE DEF z
  <2>4. z \in Nat /\ 8 * z <= last /\ y <= a + z
    BY <2>1, <2>3 DEF z
  <2>5. CASE y = a
    <3>1. x \in DataBits(place, bits)
      BY <1>1, <1>2, <2>1, DataIs
    <3>2. x \div 8 = y
      BY <1>1, <2>5, BitDiv
    <3> QED
      BY <3>1, <3>2 DEF BytesOf
  <2>6. CASE y # a
    <3>1. 8 * y \in Nat /\ x <= 8 * y /\ 8 * y < x + bits
      BY <1>1, <2>1, <2>2, <2>4, <2>6
    <3>2. 8 * y \in DataBits(place, bits)
      BY <1>2, <3>1, DataIs
    <3>3. (8 * y) \div 8 = y
      BY <2>1
    <3> QED
      BY <3>2, <3>3 DEF BytesOf
  <2> QED
    BY <2>5, <2>6
<1> QED
  BY <1>3, <1>4

(***************************************************************************)
(* n slaves lie in the bytes from base on, up to top, and before bit lim:  *)
(* one after the other, on all of the bytes; a slave that starts within a  *)
(* byte shares it with one before.                                         *)
(***************************************************************************)
Within(base, lim, top, places, bits, n) ==
  \A p \in 1 .. n : bits[p] > 0 =>
    /\ base <= places[p][1] /\ LastByte(places[p], bits[p]) < top
    /\ FirstBit(places[p]) + bits[p] <= lim

Apart(places, bits, n) ==
  \A p, q \in 1 .. n : p < q /\ bits[p] > 0 /\ bits[q] > 0 =>
    FirstBit(places[p]) + bits[p] <= FirstBit(places[q])

Sharing(places, bits, n) ==
  \A p \in 1 .. n :
    /\ places[p][2] > 0 => \E q \in 1 .. p - 1 : places[p][1] \in Bytes(places[q], bits[q])
    /\ bits[p] > 7 => places[p][2] = 0

Covering(base, top, places, bits, n) ==
  \A y \in Nat : base <= y /\ y < top => \E p \in 1 .. n : y \in Bytes(places[p], bits[p])

Layout(base, lim, top, places, bits, n) ==
  /\ Within(base, lim, top, places, bits, n) /\ Apart(places, bits, n)
  /\ Sharing(places, bits, n) /\ Covering(base, top, places, bits, n)

\* The next slave.
LEMMA LayoutStep ==
  ASSUME NEW base \in Nat, NEW addr \in Nat, NEW lim \in Nat, NEW lim2 \in Nat,
         NEW top \in Nat, NEW top2 \in Nat,
         NEW places \in Locations, NEW bits \in Seq(Nat), NEW place \in Location,
         NEW n \in 0 .. Len(bits) - 1, Len(places) = n,
         Layout(base, lim, top, places, bits, n),
         base <= addr, addr <= top, top <= addr + 1,
         addr <= place[1], place[1] <= top,
         place[2] > 0 => addr < top /\ place[1] = addr,
         bits[n + 1] = 0 => top2 = top /\ lim2 = lim,
         bits[n + 1] > 0 => /\ lim <= FirstBit(place) /\ FirstBit(place) + bits[n + 1] <= lim2
                            /\ LastByte(place, bits[n + 1]) + 1 = top2,
         bits[n + 1] > 7 => place[2] = 0
  PROVE  Layout(base, lim2, top2, Append(places, place), bits, n + 1)
<1> DEFINE pl == Append(places, place)
           x == bits[n + 1]
<1>1. /\ n \in Nat /\ n + 1 \in 1 .. Len(bits) /\ x \in Nat /\ pl[n + 1] = place
      /\ \A p \in 1 .. n : pl[p] = places[p] /\ places[p] \in Location /\ bits[p] \in Nat
      /\ 1 .. n + 1 = (1 .. n) \cup {n + 1}
  <2>1. n \in Nat /\ n + 1 \in 1 .. Len(bits) /\ 1 .. n + 1 = (1 .. n) \cup {n + 1}
    OBVIOUS
  <2>2. x \in Nat /\ \A p \in 1 .. n : bits[p] \in Nat
    BY <2>1
  <2>3. /\ pl[n + 1] = place
        /\ \A p \in 1 .. n : pl[p] = places[p] /\ places[p] \in Location
    BY <2>1 DEF Locations
  <2> QED
    BY <2>1, <2>2, <2>3
<1> HIDE DEF pl, x
<1>2. /\ place[1] \in Nat /\ place[2] \in 0 .. 7 /\ FirstBit(place) \in Nat
      /\ LastByte(place, x) \in Int /\ (x > 0 => place[1] <= LastByte(place, x))
  BY <1>1, PlaceFacts
<1>3. top <= top2 /\ lim <= lim2
  <2>1. CASE x = 0
    BY <2>1 DEF x
  <2>2. CASE x > 0
    <3>1. LastByte(place, x) + 1 = top2 /\ lim <= FirstBit(place) /\ FirstBit(place) + x <= lim2
      BY <2>2 DEF x
    <3>2. top <= top2
      <4>1. top <= place[1] + 1
        BY <1>2
      <4>2. place[1] <= LastByte(place, x) /\ LastByte(place, x) + 1 = top2
        BY <1>2, <2>2, <3>1
      <4> QED
        BY <1>2, <4>1, <4>2
    <3>3. lim <= lim2
      BY <1>1, <1>2, <2>2, <3>1
    <3> QED
      BY <3>2, <3>3
  <2> QED
    BY <1>1, <2>1, <2>2
<1>4. Within(base, lim2, top2, pl, bits, n + 1)
  <2> SUFFICES ASSUME NEW p \in 1 .. n + 1, bits[p] > 0
               PROVE  /\ base <= pl[p][1] /\ LastByte(pl[p], bits[p]) < top2
                      /\ FirstBit(pl[p]) + bits[p] <= lim2
    BY DEF Within
  <2>1. CASE p = n + 1
    <3>1. x > 0 /\ bits[p] = x /\ pl[p] = place
      BY <1>1, <2>1 DEF x
    <3>2. LastByte(place, x) + 1 = top2 /\ FirstBit(place) + x <= lim2
      BY <3>1 DEF x
    <3>3. LastByte(place, x) < top2
      BY <1>2, <3>2
    <3>4. base <= place[1]
      BY <1>2
    <3> QED
      BY <3>1, <3>2, <3>3, <3>4
  <2>2. CASE p \in 1 .. n
    <3>1. /\ base <= pl[p][1] /\ LastByte(pl[p], bits[p]) < top
          /\ FirstBit(pl[p]) + bits[p] <= lim
      BY <1>1, <2>2 DEF Layout, Within
    <3>2. LastByte(pl[p], bits[p]) \in Int /\ FirstBit(pl[p]) + bits[p] \in Nat
      <4> DEFINE at == pl[p]
                 b == bits[p]
      <4>1. at \in Location /\ b \in Nat
        BY <1>1, <2>2
      <4> HIDE DEF at, b
      <4>2. LastByte(at, b) \in Int /\ FirstBit(at) + b \in Nat
        BY <4>1, PlaceFacts, Zenon
      <4> QED
        BY <4>2 DEF at, b
    <3> QED
      BY <1>3, <3>1, <3>2
  <2> QED
    BY <1>1, <2>1, <2>2
<1>5. Apart(pl, bits, n + 1)
  <2> SUFFICES ASSUME NEW p \in 1 .. n + 1, NEW q \in 1 .. n + 1, p < q, bits[p] > 0, bits[q] > 0
               PROVE  FirstBit(pl[p]) + bits[p] <= FirstBit(pl[q])
    BY DEF Apart
  <2>1. p \in 1 .. n
    BY <1>1
  <2>2. CASE q = n + 1
    <3>1. FirstBit(pl[p]) + bits[p] <= lim
      BY <1>1, <2>1 DEF Layout, Within
    <3>2. lim <= FirstBit(place) /\ pl[q] = place
      BY <1>1, <2>2
    <3>3. FirstBit(pl[p]) + bits[p] \in Int
      <4> DEFINE at == pl[p]
                 b == bits[p]
      <4>1. at \in Location /\ b \in Nat
        BY <1>1, <2>1
      <4> HIDE DEF at, b
      <4>2. FirstBit(at) + b \in Int
        BY <4>1, PlaceFacts
      <4> QED
        BY <4>2 DEF at, b
    <3> QED
      BY <1>2, <3>1, <3>2, <3>3
  <2>3. CASE q \in 1 .. n
    BY <1>1, <2>1, <2>3 DEF Layout, Apart
  <2> QED
    BY <1>1, <2>2, <2>3
<1>6. \A p \in 1 .. n : Bytes(pl[p], bits[p]) = Bytes(places[p], bits[p])
  BY <1>1
<1>7. Covering(base, top2, pl, bits, n + 1)
  <2> SUFFICES ASSUME NEW y \in Nat, base <= y, y < top2
               PROVE  \E p \in 1 .. n + 1 : y \in Bytes(pl[p], bits[p])
    BY DEF Covering
  <2>1. CASE y < top
    <3>1. PICK p \in 1 .. n : y \in Bytes(places[p], bits[p])
      BY <2>1 DEF Layout, Covering
    <3>2. p \in 1 .. n + 1 /\ y \in Bytes(pl[p], bits[p])
      BY <1>1, <1>6, <3>1
    <3> QED
      BY <3>2
  <2>2. CASE ~(y < top)
    <3>1. x > 0 /\ LastByte(place, x) + 1 = top2
      <4>1. x # 0
        BY <2>2 DEF x
      <4> QED
        BY <1>1, <4>1 DEF x
    <3>2. place[1] <= y /\ y <= LastByte(place, x)
      BY <1>2, <2>2, <3>1
    <3>3. y \in Bytes(pl[n + 1], bits[n + 1])
      BY <1>1, <3>1, <3>2 DEF Bytes, x
    <3>4. n + 1 \in 1 .. n + 1
      BY <1>1
    <3> QED
      BY <3>3, <3>4
  <2> QED
    BY <2>1, <2>2
<1>8. Sharing(pl, bits, n + 1)
  <2>1. ASSUME NEW p \in 1 .. n + 1, pl[p][2] > 0
        PROVE  \E q \in 1 .. p - 1 : pl[p][1] \in Bytes(pl[q], bits[q])
    <3>1. CASE p = n + 1
      <4>1. addr < top /\ pl[p][1] = addr
        BY <1>1, <2>1, <3>1
      <4>2. PICK q \in 1 .. n : addr \in Bytes(places[q], bits[q])
        BY <4>1 DEF Layout, Covering
      <4>3. q \in 1 .. p - 1
        BY <1>1, <3>1
      <4> QED
        BY <1>6, <4>1, <4>2, <4>3
    <3>2. CASE p \in 1 .. n
      <4>1. PICK q \in 1 .. p - 1 : places[p][1] \in Bytes(places[q], bits[q])
        BY <1>1, <2>1, <3>2 DEF Layout, Sharing
      <4>2. q \in 1 .. n
        BY <1>1, <3>2
      <4> QED
        BY <1>1, <1>6, <3>2, <4>1, <4>2
    <3> QED
      BY <1>1, <3>1, <3>2
  <2>2. ASSUME NEW p \in 1 .. n + 1, bits[p] > 7 PROVE pl[p][2] = 0
    <3>1. CASE p = n + 1
      BY <1>1, <2>2, <3>1
    <3>2. CASE p \in 1 .. n
      BY <1>1, <2>2, <3>2 DEF Layout, Sharing
    <3> QED
      BY <1>1, <3>1, <3>2
  <2> QED
    BY <2>1, <2>2 DEF Sharing
<1> QED
  BY <1>4, <1>5, <1>7, <1>8 DEF Layout, pl

----------------------------------------------------------------------------
(* The segments. *)

\* Where they begin, and where they end.
Cuts(segments) == {Ends(segments)[k] : k \in 0 .. Len(segments)}
Total(segments) == Ends(segments)[Len(segments)]

LEMMA CutsFacts ==
  ASSUME NEW s \in Seq(Nat)
  PROVE  Total(s) \in Nat /\ Cuts(s) \subseteq Nat
<1>1. Len(s) \in 0 .. Len(s)
  OBVIOUS
<1> QED
  BY <1>1, EndsFacts DEF Total, Cuts

LEMMA CutsAppend ==
  ASSUME NEW s \in Seq(Nat), NEW x \in Nat
  PROVE  /\ Total(Append(s, x)) = Total(s) + x
         /\ \A c \in Cuts(Append(s, x)) : c \in Cuts(s) \/ c = Total(s) + x
<1> DEFINE a == Append(s, x)
<1>1. /\ Len(a) = Len(s) + 1 /\ Len(s) \in Nat
      /\ 0 .. Len(a) = (0 .. Len(s)) \cup {Len(s) + 1}
  OBVIOUS
<1>2. /\ \A k \in 0 .. Len(s) : Ends(a)[k] = Ends(s)[k]
      /\ Ends(a)[Len(s) + 1] = Ends(s)[Len(s)] + x
  BY EndsAppend
<1> HIDE DEF a
<1>3. Total(a) = Total(s) + x
  BY <1>1, <1>2 DEF Total
<1>4. ASSUME NEW k \in 0 .. Len(a) PROVE Ends(a)[k] \in Cuts(s) \/ Ends(a)[k] = Total(s) + x
  BY <1>1, <1>2 DEF Cuts, Total
<1> QED
  BY <1>3, <1>4 DEF Cuts, a

(***************************************************************************)
(* The segments make up the bytes so far, and begin where slaves do: at    *)
(* one of old, from an earlier part of the image, or between base and the  *)
(* last byte.                                                              *)
(***************************************************************************)
Segmented(old, base, m) ==
  /\ m \in Maps /\ m.done = m.addr /\ base <= m.addr
  /\ Total(m.segments) + m.size = m.addr
  /\ \A c \in Cuts(m.segments) : c \in old \/ (base <= c /\ c <= m.addr)

Advances(m, next) ==
  /\ next \in Maps /\ next.done = next.addr /\ m.addr <= next.addr
  /\ \/ next.segments = Append(m.segments, m.size) /\ next.size = next.addr - m.addr
     \/ next.segments = m.segments /\ next.size = m.size + (next.addr - m.addr)

LEMMA SegmentStep ==
  ASSUME NEW old, NEW base \in Nat, NEW m, NEW next, Segmented(old, base, m), Advances(m, next)
  PROVE  /\ Segmented(old, base, next)
         /\ \A c \in Cuts(next.segments) : c \in Cuts(m.segments) \/ c = m.addr
<1>1. /\ m.addr \in Nat /\ m.size \in Nat /\ m.segments \in Seq(Nat)
      /\ next.addr \in Nat /\ next.size \in Nat
  BY DEF Segmented, Advances, Maps
<1>2. Total(m.segments) \in Nat /\ Total(m.segments) + m.size = m.addr
  BY <1>1, CutsFacts DEF Segmented
<1>3. /\ next \in Maps /\ next.done = next.addr /\ m.addr <= next.addr /\ base <= m.addr
      /\ base <= next.addr
  BY <1>1 DEF Segmented, Advances
<1>4. \A c \in Cuts(m.segments) : c \in Nat /\ (c \in old \/ (base <= c /\ c <= m.addr))
  BY <1>1, CutsFacts DEF Segmented
<1>5. CASE next.segments = Append(m.segments, m.size) /\ next.size = next.addr - m.addr
  <2>1. Total(next.segments) = m.addr
    BY <1>1, <1>2, <1>5, CutsAppend
  <2>2. \A c \in Cuts(next.segments) : c \in Cuts(m.segments) \/ c = m.addr
    BY <1>1, <1>2, <1>5, CutsAppend
  <2>3. Total(next.segments) + next.size = next.addr
    BY <1>1, <1>5, <2>1
  <2>4. \A c \in Cuts(next.segments) : c \in old \/ (base <= c /\ c <= next.addr)
    BY <1>1, <1>3, <1>4, <2>2
  <2> QED
    BY <1>3, <2>2, <2>3, <2>4 DEF Segmented
<1>6. CASE next.segments = m.segments /\ next.size = m.size + (next.addr - m.addr)
  <2>1. Total(next.segments) + next.size = next.addr
    BY <1>1, <1>2, <1>6
  <2>2. \A c \in Cuts(next.segments) : c \in old \/ (base <= c /\ c <= next.addr)
    BY <1>1, <1>3, <1>4, <1>6
  <2> QED
    BY <1>3, <1>6, <2>1, <2>2 DEF Segmented
<1> QED
  BY <1>5, <1>6 DEF Advances

\* A slave of whole bytes lies in one segment, and before the end of the last one.
Uncut(cuts, places, bits, n) ==
  \A p \in 1 .. n : bits[p] > 7 =>
    \A c \in cuts : ~(places[p][1] < c /\ c <= LastByte(places[p], bits[p]))

Counted(addr, places, bits, n) ==
  \A p \in 1 .. n : bits[p] > 7 => LastByte(places[p], bits[p]) < addr

Stage(old, base, m, bits, n) ==
  /\ Segmented(old, base, m) /\ Len(m.places) = n
  /\ Layout(base, 8 * m.addr + m.bit, Top(m), m.places, bits, n)
  /\ Uncut(Cuts(m.segments), m.places, bits, n)
  /\ Counted(m.addr, m.places, bits, n)

\* The next slave's segments.
LEMMA UncutStep ==
  ASSUME NEW cuts \in SUBSET Nat, NEW cuts2 \in SUBSET Nat, NEW addr \in Nat, NEW addr2 \in Nat,
         NEW places \in Locations, NEW bits \in Seq(Nat), NEW place \in Location,
         NEW n \in 0 .. Len(bits) - 1, Len(places) = n,
         Uncut(cuts, places, bits, n), Counted(addr, places, bits, n),
         \A c \in cuts : c <= addr, \A c \in cuts2 : c \in cuts \/ c = addr,
         addr <= addr2, addr <= place[1],
         bits[n + 1] > 7 => LastByte(place, bits[n + 1]) < addr2
  PROVE  /\ Uncut(cuts2, Append(places, place), bits, n + 1)
         /\ Counted(addr2, Append(places, place), bits, n + 1)
<1> DEFINE pl == Append(places, place)
           x == bits[n + 1]
<1>1. /\ n \in Nat /\ x \in Nat /\ pl[n + 1] = place
      /\ \A p \in 1 .. n : pl[p] = places[p] /\ places[p] \in Location /\ bits[p] \in Nat
      /\ 1 .. n + 1 = (1 .. n) \cup {n + 1}
  <2>1. n \in Nat /\ n + 1 \in 1 .. Len(bits) /\ 1 .. n + 1 = (1 .. n) \cup {n + 1}
    OBVIOUS
  <2>2. x \in Nat /\ \A p \in 1 .. n : bits[p] \in Nat
    BY <2>1
  <2>3. /\ pl[n + 1] = place
        /\ \A p \in 1 .. n : pl[p] = places[p] /\ places[p] \in Location
    BY <2>1 DEF Locations
  <2> QED
    BY <2>1, <2>2, <2>3
<1> HIDE DEF pl, x
<1>2. ASSUME NEW p \in 1 .. n + 1, bits[p] > 7, NEW c \in cuts2
      PROVE  ~(pl[p][1] < c /\ c <= LastByte(pl[p], bits[p]))
  <2>1. CASE p = n + 1
    <3>1. pl[p] = place /\ c <= addr /\ c \in Nat
      BY <1>1, <2>1
    <3>2. place[1] \in Nat
      BY DEF Location
    <3>3. ~(pl[p][1] < c)
      BY <3>1, <3>2
    <3> QED
      BY <1>2, <2>1, <3>1, <3>3
  <2>2. CASE p \in 1 .. n
    <3> DEFINE at == places[p]
               b == bits[p]
               last == LastByte(at, b)
    <3>1. at \in Location /\ b \in Nat /\ pl[p] = at
      BY <1>1, <2>2
    <3>2. last < addr /\ (c \in cuts => ~(at[1] < c /\ c <= last))
      BY <1>2, <2>2 DEF Counted, Uncut
    <3> HIDE DEF at, b
    <3>3. last \in Int
      BY <3>1, PlaceFacts, Zenon
    <3> HIDE DEF last
    <3>4. ~(at[1] < c /\ c <= last)
      BY <3>2, <3>3
    <3> QED
      BY <3>1, <3>4 DEF last, b
  <2> QED
    BY <1>1, <2>1, <2>2
<1>3. ASSUME NEW p \in 1 .. n + 1, bits[p] > 7 PROVE LastByte(pl[p], bits[p]) < addr2
  <2>1. CASE p = n + 1
    BY <1>1, <1>3, <2>1
  <2>2. CASE p \in 1 .. n
    <3> DEFINE at == places[p]
               b == bits[p]
               last == LastByte(at, b)
    <3>1. at \in Location /\ b \in Nat /\ pl[p] = at
      BY <1>1, <2>2
    <3>2. last < addr
      BY <1>3, <2>2 DEF Counted
    <3> HIDE DEF at, b
    <3>3. last \in Int
      BY <3>1, PlaceFacts, Zenon
    <3> HIDE DEF last
    <3>4. last < addr2
      BY <3>2, <3>3
    <3> QED
      BY <3>1, <3>4 DEF last, b
  <2> QED
    BY <1>1, <2>1, <2>2
<1> QED
  BY <1>2, <1>3 DEF Uncut, Counted, pl

\* No segment is larger than what a frame carries, and a byte that slaves share.
Small(m) ==
  /\ m.size <= MaxSegment + 1
  /\ \A k \in 1 .. Len(m.segments) : m.segments[k] <= MaxSegment + 1

Fit(bits) == \A p \in 1 .. Len(bits) : (bits[p] + 7) \div 8 <= MaxSegment

LEMMA SmallStep ==
  ASSUME NEW m, NEW next, m \in Maps, next \in Maps, Small(m),
         \/ next.segments = Append(m.segments, m.size)
         \/ next.segments = m.segments,
         next.size <= MaxSegment + 1
  PROVE  Small(next)
<1>1. m.segments \in Seq(Nat) /\ m.size \in Nat
  BY DEF Maps
<1>2. CASE next.segments = Append(m.segments, m.size)
  <2> DEFINE s == m.segments
             x == m.size
             bound == MaxSegment + 1
  <2>1. s \in Seq(Nat) /\ x \in Nat /\ x <= bound /\ \A k \in 1 .. Len(s) : s[k] <= bound
    BY <1>1 DEF Small
  <2>2. next.segments = Append(s, x)
    BY <1>2
  <2> HIDE DEF s, x, bound
  <2>3. \A k \in 1 .. Len(Append(s, x)) : Append(s, x)[k] <= bound
    <3>1. /\ Len(Append(s, x)) = Len(s) + 1 /\ Len(s) \in Nat /\ Append(s, x)[Len(s) + 1] = x
          /\ \A k \in 1 .. Len(s) : Append(s, x)[k] = s[k]
          /\ 1 .. Len(s) + 1 = (1 .. Len(s)) \cup {Len(s) + 1}
      BY <2>1
    <3> QED
      BY <2>1, <3>1
  <2> QED
    BY <2>2, <2>3 DEF Small, bound
<1>3. CASE next.segments = m.segments
  BY <1>3 DEF Small
<1> QED
  BY <1>2, <1>3

LEMMA MapFacts ==
  ASSUME NEW m \in Maps
  PROVE  /\ m.addr \in Nat /\ m.bit \in Nat /\ m.bit \in 0 .. 7 /\ m.size \in Nat
         /\ m.segments \in Seq(Nat) /\ m.places \in Locations
         /\ Top(m) \in Nat /\ m.addr <= Top(m) /\ Top(m) <= m.addr + 1
         /\ m.bit > 0 => m.addr < Top(m)
         /\ 8 * m.addr + m.bit \in Nat
<1>1. /\ m.addr \in Nat /\ m.bit \in Nat /\ m.bit \in 0 .. 7 /\ m.size \in Nat
      /\ m.segments \in Seq(Nat) /\ m.places \in Locations
  BY DEF Maps, Locations, Location
<1>2. /\ Top(m) \in Nat /\ m.addr <= Top(m) /\ Top(m) <= m.addr + 1
      /\ m.bit > 0 => m.addr < Top(m)
  BY <1>1 DEF Top
<1>3. 8 * m.addr + m.bit \in Nat
  BY <1>1
<1> QED
  BY <1>1, <1>2, <1>3

LEMMA StageStep ==
  ASSUME NEW old, NEW base \in Nat, NEW m, NEW bits \in Seq(Nat),
         NEW n \in 0 .. Len(bits) - 1, \A c \in old : c <= base,
         Stage(old, base, m, bits, n)
  PROVE  LET next == PlaceSlave(m, bits[n + 1])
         IN  /\ Stage(old, base, next, bits, n + 1)
             /\ Fit(bits) /\ Small(m) => Small(next)
<1> DEFINE x == bits[n + 1]
           next == PlaceSlave(m, x)
           lim == 8 * m.addr + m.bit
           lim2 == 8 * next.addr + next.bit
<1>1. x \in Nat /\ n + 1 \in 1 .. Len(bits)
  OBVIOUS
<1> HIDE DEF x
<1>2. m \in Maps /\ m.done = m.addr
  BY DEF Stage, Segmented
<1>3. PICK place \in Location : StepFacts(m, next, x, place)
  BY <1>1, <1>2, Placed DEF Location
<1> HIDE DEF next
<1>4. /\ m.addr \in Nat /\ m.bit \in 0 .. 7 /\ m.size \in Nat /\ m.segments \in Seq(Nat)
      /\ m.places \in Locations /\ Top(m) \in Nat /\ m.addr <= Top(m) /\ Top(m) <= m.addr + 1
      /\ m.bit > 0 => m.addr < Top(m)
  BY <1>2, MapFacts
<1>5. next \in Maps
  BY <1>3 DEF StepFacts
<1>6. next.addr \in Nat /\ next.bit \in 0 .. 7 /\ next.segments \in Seq(Nat) /\ Top(next) \in Nat
  BY <1>5, MapFacts
<1>7. lim \in Nat /\ lim2 \in Nat
  BY <1>2, <1>5, MapFacts
<1> HIDE DEF lim, lim2
<1>8. /\ next.places = Append(m.places, place) /\ m.addr <= next.addr
      /\ m.addr <= place[1] /\ place[1] <= Top(m)
      /\ place[2] > 0 => m.addr < Top(m) /\ place[1] = m.addr
      /\ x = 0 => Top(next) = Top(m) /\ lim2 = lim
      /\ x > 0 => /\ lim <= FirstBit(place) /\ FirstBit(place) + x <= lim2
                  /\ LastByte(place, x) + 1 = Top(next)
      /\ x > 7 => place[2] = 0 /\ next.bit = 0
  <2>1. x = 0 => lim2 = lim
    BY <1>3 DEF StepFacts, lim, lim2
  <2>2. x > 0 => lim <= FirstBit(place) /\ FirstBit(place) + x <= lim2
    BY <1>3 DEF StepFacts, lim, lim2
  <2> QED
    BY <1>3, <1>4, <2>1, <2>2 DEF StepFacts
<1>9. Advances(m, next)
  BY <1>3 DEF StepFacts, Advances
<1>10. Segmented(old, base, m) /\ base <= m.addr
  BY DEF Stage, Segmented
<1>11. /\ Segmented(old, base, next)
       /\ \A c \in Cuts(next.segments) : c \in Cuts(m.segments) \/ c = m.addr
  BY <1>9, <1>10, SegmentStep
<1>12. Layout(base, lim, Top(m), m.places, bits, n) /\ Len(m.places) = n
  BY DEF Stage, lim
<1>13. Layout(base, lim2, Top(next), next.places, bits, n + 1)
  <2> DEFINE addr == m.addr
             top == Top(m)
             top2 == Top(next)
             places == m.places
  <2>1. addr \in Nat /\ top \in Nat /\ top2 \in Nat /\ places \in Locations
    BY <1>4, <1>6
  <2>2. Layout(base, lim, top, places, bits, n) /\ Len(places) = n
    BY <1>12
  <2>3. base <= addr /\ addr <= top /\ top <= addr + 1 /\ addr <= place[1] /\ place[1] <= top
    BY <1>4, <1>8, <1>10
  <2>4. place[2] > 0 => addr < top /\ place[1] = addr
    BY <1>8
  <2>5. x = 0 => top2 = top /\ lim2 = lim
    BY <1>8
  <2>6. x > 0 => /\ lim <= FirstBit(place) /\ FirstBit(place) + x <= lim2
                 /\ LastByte(place, x) + 1 = top2
    BY <1>8
  <2>7. x > 7 => place[2] = 0
    BY <1>8
  <2> HIDE DEF addr, top, top2, places
  <2>8. Layout(base, lim2, top2, Append(places, place), bits, n + 1)
    BY <1>7, <2>1, <2>2, <2>3, <2>4, <2>5, <2>6, <2>7, LayoutStep DEF x
  <2> QED
    BY <1>8, <2>8 DEF top2, places
<1>14. /\ Uncut(Cuts(next.segments), next.places, bits, n + 1)
       /\ Counted(next.addr, next.places, bits, n + 1)
  <2> DEFINE addr == m.addr
             addr2 == next.addr
             places == m.places
             cuts == Cuts(m.segments)
             cuts2 == Cuts(next.segments)
  <2>1. /\ addr \in Nat /\ addr2 \in Nat /\ places \in Locations
        /\ cuts \in SUBSET Nat /\ cuts2 \in SUBSET Nat
    BY <1>4, <1>6, CutsFacts
  <2>2. \A c \in cuts : c <= addr
    BY <1>4, <1>10, <2>1 DEF Segmented
  <2>3. \A c \in cuts2 : c \in cuts \/ c = addr
    BY <1>11
  <2>4. addr <= addr2 /\ addr <= place[1] /\ Len(places) = n
    BY <1>8, <1>12
  <2>5. Uncut(cuts, places, bits, n) /\ Counted(addr, places, bits, n)
    BY DEF Stage
  <2>6. x > 7 => LastByte(place, x) < addr2
    <3>1. ASSUME x > 7 PROVE LastByte(place, x) + 1 = addr2
      <4>1. x > 0 /\ next.bit = 0
        BY <1>1, <1>8, <3>1
      <4> QED
        BY <1>8, <4>1 DEF Top
    <3>2. LastByte(place, x) \in Int
      BY <1>1, PlaceFacts
    <3> QED
      BY <2>1, <3>1, <3>2
  <2>7. next.places = Append(places, place)
    BY <1>8
  <2> HIDE DEF addr, addr2, places, cuts, cuts2
  <2>8. /\ Uncut(cuts2, Append(places, place), bits, n + 1)
        /\ Counted(addr2, Append(places, place), bits, n + 1)
    BY <2>1, <2>2, <2>3, <2>4, <2>5, <2>6, UncutStep DEF x
  <2> QED
    BY <2>7, <2>8 DEF addr2, cuts2
<1>15. Len(next.places) = n + 1
  <2> DEFINE places == m.places
  <2>1. places \in Locations /\ Len(places) = n /\ next.places = Append(places, place)
    BY <1>4, <1>8, <1>12
  <2> HIDE DEF places
  <2> QED
    BY <2>1 DEF Locations
<1>16. Stage(old, base, next, bits, n + 1)
  BY <1>11, <1>13, <1>14, <1>15 DEF Stage, lim2
<1>17. ASSUME Fit(bits), Small(m) PROVE Small(next)
  <2>1. next.addr - m.addr <= MaxSegment + 1 /\ MaxSegment \in Nat
    BY <1>1, <1>3, <1>17, IoAssumption DEF StepFacts, Fit, x
  <2>2. next.size <= MaxSegment + 1
    <3>1. CASE next.size = next.addr - m.addr
      BY <2>1, <3>1
    <3>2. CASE x > 0 /\ next.size <= MaxSegment
      BY <1>5, <2>1, <3>2 DEF Maps
    <3>3. CASE x = 0 /\ next.size = m.size + (next.addr - m.addr)
      <4>1. next.addr = m.addr
        BY <1>3, <3>3 DEF StepFacts
      <4>2. m.size <= MaxSegment + 1
        BY <1>17 DEF Small
      <4> QED
        BY <1>4, <2>1, <3>3, <4>1, <4>2
    <3> QED
      BY <1>1, <1>3, <3>1, <3>2, <3>3 DEF StepFacts
  <2>3. next.segments = Append(m.segments, m.size) \/ next.segments = m.segments
    BY <1>3 DEF StepFacts
  <2> QED
    BY <1>2, <1>5, <1>17, <2>2, <2>3, SmallStep
<1> QED
  BY <1>16, <1>17 DEF next, x

LEMMA AllPlaced ==
  ASSUME NEW old, NEW base \in Nat, NEW m, NEW bits \in Seq(Nat), \A c \in old : c <= base,
         Stage(old, base, m, bits, 0)
  PROVE  LET next == After(m, bits)[Len(bits)]
         IN  /\ Stage(old, base, next, bits, Len(bits))
             /\ Fit(bits) /\ Small(m) => Small(next)
<1> DEFINE after == After(m, bits)
           Holds(n) == /\ Stage(old, base, after[n], bits, n)
                       /\ Fit(bits) /\ Small(m) => Small(after[n])
           S == {n \in Nat : Holds(n)}
<1>1. /\ Len(bits) \in Nat /\ after[0] = m
      /\ \A n \in 0 .. Len(bits) - 1 : after[n + 1] = PlaceSlave(after[n], bits[n + 1])
  <2>1. AfterOf(after, m, bits, Len(bits))
    BY AfterIs
  <2> HIDE DEF after
  <2>2. Len(bits) \in Nat
    OBVIOUS
  <2>3. ASSUME NEW n \in 0 .. Len(bits) - 1
        PROVE  after[n + 1] = PlaceSlave(after[n], bits[n + 1])
    <3>1. n + 1 \in 0 .. Len(bits) /\ n + 1 # 0 /\ (n + 1) - 1 = n
      BY <2>2
    <3> QED
      BY <2>1, <3>1 DEF AfterOf
  <2> QED
    BY <2>1, <2>2, <2>3 DEF AfterOf
<1> HIDE DEF after
<1>2. 0 \in S
  BY <1>1
<1>3. ASSUME NEW n \in 0 .. Len(bits) - 1, n \in S PROVE n + 1 \in S
  <2>1. Stage(old, base, after[n], bits, n) /\ n + 1 \in Nat
    BY <1>3
  <2>2. /\ Stage(old, base, after[n + 1], bits, n + 1)
        /\ Fit(bits) /\ Small(after[n]) => Small(after[n + 1])
    BY <1>1, <2>1, StageStep
  <2> QED
    BY <1>3, <2>1, <2>2
<1>4. 0 .. Len(bits) \subseteq S
  <2> HIDE DEF S
  <2> QED
    BY <1>1, <1>2, <1>3, Induct
<1>5. Holds(Len(bits))
  <2>1. Len(bits) \in 0 .. Len(bits)
    BY <1>1
  <2> HIDE DEF Holds
  <2> QED
    BY <1>4, <2>1
<1> QED
  BY <1>5 DEF after

\* Segments that begin behind the slaves do not cut them.
LEMMA UncutMore ==
  ASSUME NEW places \in Locations, NEW bits \in Seq(Nat), NEW n \in 0 .. Len(bits),
         Len(places) = n,
         NEW cuts \in SUBSET Nat, NEW cuts2 \in SUBSET Nat, NEW addr \in Nat, NEW addr2 \in Nat,
         Uncut(cuts, places, bits, n), Counted(addr, places, bits, n),
         addr <= addr2, \A c \in cuts2 : c \in cuts \/ addr <= c
  PROVE  Uncut(cuts2, places, bits, n) /\ Counted(addr2, places, bits, n)
<1>1. ASSUME NEW p \in 1 .. n, bits[p] > 7
      PROVE  /\ LastByte(places[p], bits[p]) < addr2
             /\ \A c \in cuts2 : ~(places[p][1] < c /\ c <= LastByte(places[p], bits[p]))
  <2> DEFINE at == places[p]
             b == bits[p]
             last == LastByte(at, b)
  <2>1. at \in Location /\ b \in Nat
    BY DEF Locations
  <2>2. last < addr /\ \A c \in cuts : ~(at[1] < c /\ c <= last)
    BY <1>1 DEF Uncut, Counted
  <2> HIDE DEF at, b
  <2>3. last \in Int
    BY <2>1, PlaceFacts, Zenon
  <2> HIDE DEF last
  <2>4. last < addr2 /\ \A c \in cuts2 : ~(at[1] < c /\ c <= last)
    BY <2>2, <2>3
  <2> QED
    BY <2>4 DEF last, at, b
<1> QED
  BY <1>1 DEF Uncut, Counted

\* The end of the outputs or of the inputs.
LEMMA Aligned ==
  ASSUME NEW old, NEW base \in Nat, NEW m, NEW bits \in Seq(Nat),
         Stage(old, base, m, bits, Len(bits))
  PROVE  /\ Segmented(old, base, Align(m)) /\ Align(m).places = m.places
         /\ Align(m).bit = 0 /\ Align(m).addr = Top(m)
         /\ Counted(Align(m).addr, m.places, bits, Len(bits))
         /\ Uncut(Cuts(Align(m).segments), m.places, bits, Len(bits))
         /\ Small(m) => Small(Align(m))
<1>1. m \in Maps /\ m.done = m.addr /\ Segmented(old, base, m)
  BY DEF Stage, Segmented
<1>2. /\ m.addr \in Nat /\ m.bit \in 0 .. 7
      /\ m.places \in Locations /\ Len(m.places) = Len(bits)
      /\ m.segments \in Seq(Nat) /\ MaxSegment \in Nat \ {0}
  BY <1>1, MapFacts, IoAssumption DEF Stage
<1>3. /\ Uncut(Cuts(m.segments), m.places, bits, Len(bits))
      /\ Counted(m.addr, m.places, bits, Len(bits))
  BY DEF Stage
<1>4. CASE m.bit = 0
  <2>1. Align(m) = m /\ Top(m) = m.addr
    BY <1>4 DEF Align, Top
  <2> QED
    BY <1>1, <1>3, <1>4, <2>1
<1>5. CASE m.bit > 0
  <2> DEFINE addr == m.addr + 1
             places == m.places
             mid == Move(m, addr, 0, places)
             next == Account(mid)
  <2>1. Align(m) = next /\ Top(m) = addr
    BY <1>2, <1>5 DEF Align, Top
  <2>2. addr \in Nat /\ places \in Locations /\ 0 \in 0 .. 7
    BY <1>2
  <2> HIDE DEF addr, places
  <2>3. /\ mid.addr = addr /\ mid.bit = 0 /\ mid.done = m.done
        /\ mid.size = m.size /\ mid.segments = m.segments /\ mid.places = places
    BY Moved
  <2>4. mid \in Maps
    BY <1>1, <2>2, MovedType
  <2> HIDE DEF mid
  <2>5. mid.done <= mid.addr /\ mid.addr - mid.done = 1
    BY <1>1, <1>2, <2>3 DEF addr
  <2>6. /\ next \in Maps /\ next.addr = addr /\ next.bit = 0 /\ next.done = addr
        /\ next.places = places
        /\ \/ next.segments = Append(m.segments, m.size) /\ next.size = 1
           \/ /\ next.segments = m.segments /\ next.size = m.size + 1
              /\ next.size <= MaxSegment
    BY <2>3, <2>4, <2>5, Accounted
  <2> HIDE DEF next
  <2>7. m.addr <= addr /\ addr - m.addr = 1
    BY <1>2 DEF addr
  <2>8. Advances(m, next)
    BY <2>6, <2>7 DEF Advances
  <2>9. /\ Segmented(old, base, next)
        /\ \A c \in Cuts(next.segments) : c \in Cuts(m.segments) \/ c = m.addr
    BY <1>1, <2>8, SegmentStep
  <2>10. next.segments \in Seq(Nat)
    BY <2>6, MapFacts
  <2>11. Cuts(next.segments) \in SUBSET Nat /\ Cuts(m.segments) \in SUBSET Nat
    BY <1>2, <2>10, CutsFacts
  <2>12. \A c \in Cuts(next.segments) : c \in Cuts(m.segments) \/ m.addr <= c
    BY <1>2, <2>9
  <2>13. Len(bits) \in 0 .. Len(bits)
    OBVIOUS
  <2>14. /\ Uncut(Cuts(next.segments), m.places, bits, Len(bits))
         /\ Counted(addr, m.places, bits, Len(bits))
    BY <1>2, <1>3, <2>2, <2>7, <2>11, <2>12, <2>13, UncutMore
  <2>15. ASSUME Small(m) PROVE Small(next)
    <3>1. next.size <= MaxSegment + 1
      BY <1>2, <2>6, MapFacts
    <3>2. next.segments = Append(m.segments, m.size) \/ next.segments = m.segments
      BY <2>6
    <3>3. next \in Maps
      BY <2>6
    <3> QED
      BY <1>1, <2>15, <3>1, <3>2, <3>3, SmallStep
  <2> QED
    BY <2>1, <2>6, <2>9, <2>14, <2>15 DEF places
<1> QED
  BY <1>2, <1>4, <1>5

LEMMA AllLaid ==
  ASSUME NEW old, NEW base \in Nat, NEW m, NEW bits \in Seq(Nat), \A c \in old : c <= base,
         Stage(old, base, m, bits, 0)
  PROVE  LET all == PlaceAll(m, bits)
         IN  /\ Segmented(old, base, all) /\ all.bit = 0 /\ Len(all.places) = Len(bits)
             /\ \E lim \in Nat : Layout(base, lim, all.addr, all.places, bits, Len(bits))
             /\ Counted(all.addr, all.places, bits, Len(bits))
             /\ Uncut(Cuts(all.segments), all.places, bits, Len(bits))
             /\ Fit(bits) /\ Small(m) => Small(all)
<1> DEFINE last == After(m, bits)[Len(bits)]
           all == PlaceAll(m, bits)
           lim == 8 * last.addr + last.bit
<1>1. /\ Stage(old, base, last, bits, Len(bits))
      /\ Fit(bits) /\ Small(m) => Small(last)
  BY AllPlaced
<1>2. all = Align(last)
  BY DEF PlaceAll
<1> HIDE DEF last, all
<1>3. /\ Segmented(old, base, all) /\ all.places = last.places /\ all.bit = 0
      /\ all.addr = Top(last) /\ Counted(all.addr, last.places, bits, Len(bits))
      /\ Uncut(Cuts(all.segments), last.places, bits, Len(bits))
      /\ Small(last) => Small(all)
  BY <1>1, <1>2, Aligned
<1>4. lim \in Nat
  BY <1>1, MapFacts DEF Stage, Segmented
<1>5. Layout(base, lim, all.addr, all.places, bits, Len(bits)) /\ Len(all.places) = Len(bits)
  BY <1>1, <1>3 DEF Stage
<1> QED
  BY <1>1, <1>3, <1>4, <1>5 DEF all

\* Nothing is placed yet.
LEMMA NonePlaced ==
  ASSUME NEW old, NEW base \in Nat, NEW m, NEW bits, m \in Maps, m.done = m.addr,
         m.addr = base, m.bit = 0, m.places = << >>,
         Total(m.segments) + m.size = m.addr,
         \A c \in Cuts(m.segments) : c \in old \/ c = base
  PROVE  Stage(old, base, m, bits, 0)
<1>1. Segmented(old, base, m)
  BY DEF Segmented
<1>2. Top(m) = base
  BY DEF Top
<1>3. Layout(base, 8 * m.addr + m.bit, base, m.places, bits, 0)
  <2>1. Within(base, 8 * m.addr + m.bit, base, m.places, bits, 0)
    BY DEF Within
  <2>2. Apart(m.places, bits, 0) /\ Sharing(m.places, bits, 0)
    BY DEF Apart, Sharing
  <2>3. Covering(base, base, m.places, bits, 0)
    BY DEF Covering
  <2> QED
    BY <2>1, <2>2, <2>3 DEF Layout
<1>4. Uncut(Cuts(m.segments), m.places, bits, 0) /\ Counted(m.addr, m.places, bits, 0)
  BY DEF Uncut, Counted
<1>5. Len(m.places) = 0
  OBVIOUS
<1> QED
  BY <1>1, <1>2, <1>3, <1>4, <1>5 DEF Stage

(***************************************************************************)
(* The map of a bus: outputs fill the bytes below mid, inputs those from   *)
(* there to total; the segments make up all of them and cut no slave of    *)
(* whole bytes.                                                            *)
(***************************************************************************)
Mapped(mid, total, outs, ins, segments, ob, ib, n) ==
  /\ mid \in Nat /\ total \in Nat /\ mid <= total /\ segments \in Seq(Nat)
  /\ outs \in Locations /\ Len(outs) = n /\ ins \in Locations /\ Len(ins) = n
  /\ \E lim \in Nat : Layout(0, lim, mid, outs, ob, n)
  /\ \E lim \in Nat : Layout(mid, lim, total, ins, ib, n)
  /\ Uncut(Cuts(segments), outs, ob, n) /\ Uncut(Cuts(segments), ins, ib, n)
  /\ Total(segments) = total
  /\ Fit(ob) /\ Fit(ib) => \A k \in 1 .. Len(segments) : segments[k] <= MaxSegment + 1

BusMapped(bus) ==
  Mapped(MapOutputs(bus).addr, MapInputs(bus).addr, MapOutputs(bus).places,
         MapInputs(bus).places, Segments(bus), OutBits(bus), InBits(bus), Len(bus))

LEMMA BusIsMapped ==
  ASSUME NEW bus \in Seq([out : Nat, in : Nat])
  PROVE  BusMapped(bus)
<1> DEFINE ob == OutBits(bus)
           ib == InBits(bus)
           n == Len(bus)
           O == MapOutputs(bus)
           start == Move(O, O.addr, O.bit, << >>)
           I == MapInputs(bus)
           S == Segments(bus)
           oldCuts == Cuts(O.segments)
<1>1. ob \in Seq(Nat) /\ ib \in Seq(Nat) /\ Len(ob) = n /\ Len(ib) = n /\ n \in Nat
  <2>1. n \in Nat /\ \A p \in 1 .. n : bus[p].out \in Nat /\ bus[p].in \in Nat
    <3> DEFINE R == [out : Nat, in : Nat]
    <3>1. \A s \in R : s.out \in Nat /\ s.in \in Nat
      OBVIOUS
    <3> HIDE DEF R
    <3>2. bus \in Seq(R)
      BY DEF R
    <3>3. n \in Nat /\ \A p \in 1 .. n : bus[p] \in R
      BY <3>2
    <3> QED
      BY <3>1, <3>3
  <2>2. ob \in [1 .. n -> Nat] /\ ib \in [1 .. n -> Nat]
    BY <2>1 DEF OutBits, InBits
  <2> HIDE DEF ob, ib, n
  <2>3. ob \in Seq(Nat) /\ ib \in Seq(Nat) /\ Len(ob) = n /\ Len(ib) = n
    BY <2>1, <2>2
  <2> QED
    BY <2>1, <2>3 DEF ob, ib, n
<1>2. O = PlaceAll(EmptyMap, ob) /\ I = PlaceAll(start, ib) /\ S = Append(I.segments, I.size)
  BY DEF MapOutputs, MapInputs, Segments
<1> HIDE DEF ob, ib, O, I, S
<1>3. /\ EmptyMap \in Maps /\ EmptyMap.done = EmptyMap.addr /\ EmptyMap.addr = 0
      /\ EmptyMap.bit = 0 /\ EmptyMap.places = << >> /\ EmptyMap.segments = << >>
      /\ EmptyMap.size = 0
  BY DEF EmptyMap, Maps
<1>4. Total(<< >>) = 0 /\ \A c \in Cuts(<< >>) : c = 0
  <2>1. << >> \in Seq(Nat) /\ Len(<< >>) = 0
    OBVIOUS
  <2>2. Ends(<< >>)[0] = 0
    BY <2>1, EndsFacts
  <2> QED
    BY <2>1, <2>2 DEF Total, Cuts
<1>5. Stage({}, 0, EmptyMap, ob, 0)
  BY <1>3, <1>4, NonePlaced
<1>6. Small(EmptyMap)
  BY <1>3, IoAssumption DEF Small
<1>7. /\ Segmented({}, 0, O) /\ O.bit = 0 /\ Len(O.places) = n
      /\ \E lim \in Nat : Layout(0, lim, O.addr, O.places, ob, n)
      /\ Counted(O.addr, O.places, ob, n) /\ Uncut(oldCuts, O.places, ob, n)
      /\ Fit(ob) => Small(O)
  <2>1. \A c \in {} : c <= 0
    OBVIOUS
  <2> QED
    BY <1>1, <1>2, <1>5, <1>6, <2>1, AllLaid
<1>8. /\ O \in Maps /\ O.done = O.addr /\ Total(O.segments) + O.size = O.addr
      /\ \A c \in oldCuts : c <= O.addr
  BY <1>7 DEF Segmented
<1>9. /\ O.addr \in Nat /\ O.places \in Locations /\ O.segments \in Seq(Nat)
      /\ O.bit \in 0 .. 7
  BY <1>8, MapFacts
<1>10. /\ start \in Maps /\ start.done = start.addr /\ start.addr = O.addr
       /\ start.bit = 0 /\ start.places = << >> /\ start.segments = O.segments
       /\ start.size = O.size
  <2>1. << >> \in Locations
    BY DEF Locations
  <2>2. start \in Maps
    BY <1>8, <1>9, <2>1, MovedType
  <2> QED
    BY <1>7, <1>8, <2>2, Moved
<1> HIDE DEF start
<1>11. Stage(oldCuts, O.addr, start, ib, 0)
  <2>1. Total(start.segments) + start.size = start.addr
    BY <1>8, <1>10
  <2>2. \A c \in Cuts(start.segments) : c \in oldCuts \/ c = O.addr
    BY <1>10
  <2> QED
    BY <1>9, <1>10, <2>1, <2>2, NonePlaced
<1>12. /\ Segmented(oldCuts, O.addr, I) /\ Len(I.places) = n
       /\ \E lim \in Nat : Layout(O.addr, lim, I.addr, I.places, ib, n)
       /\ Counted(I.addr, I.places, ib, n) /\ Uncut(Cuts(I.segments), I.places, ib, n)
       /\ Fit(ib) /\ Small(start) => Small(I)
  <2> DEFINE base == O.addr
  <2>1. base \in Nat /\ Stage(oldCuts, base, start, ib, 0) /\ \A c \in oldCuts : c <= base
    BY <1>8, <1>9, <1>11
  <2> HIDE DEF base, oldCuts
  <2>2. /\ Segmented(oldCuts, base, I) /\ Len(I.places) = n
        /\ \E lim \in Nat : Layout(base, lim, I.addr, I.places, ib, n)
        /\ Counted(I.addr, I.places, ib, n) /\ Uncut(Cuts(I.segments), I.places, ib, n)
        /\ Fit(ib) /\ Small(start) => Small(I)
    BY <1>1, <1>2, <2>1, AllLaid
  <2> QED
    BY <2>2 DEF base
<1>13. /\ I \in Maps /\ O.addr <= I.addr /\ Total(I.segments) + I.size = I.addr
       /\ \A c \in Cuts(I.segments) : c \in oldCuts \/ O.addr <= c
  BY <1>12 DEF Segmented
<1>14. I.addr \in Nat /\ I.places \in Locations /\ I.segments \in Seq(Nat) /\ I.size \in Nat
  BY <1>13, MapFacts
<1>15. S \in Seq(Nat)
  <2> DEFINE s == I.segments
             x == I.size
  <2>1. s \in Seq(Nat) /\ x \in Nat /\ S = Append(s, x)
    BY <1>2, <1>14
  <2> HIDE DEF s, x
  <2> QED
    BY <2>1
<1>16. Total(S) = I.addr /\ \A c \in Cuts(S) : c \in Cuts(I.segments) \/ c = I.addr
  BY <1>2, <1>13, <1>14, CutsAppend
<1>17. /\ Cuts(S) \in SUBSET Nat /\ oldCuts \in SUBSET Nat /\ Cuts(I.segments) \in SUBSET Nat
  BY <1>9, <1>14, <1>15, CutsFacts
<1>18. n \in 0 .. Len(ob) /\ n \in 0 .. Len(ib)
  BY <1>1
<1>19. Uncut(Cuts(S), O.places, ob, n)
  <2>1. \A c \in Cuts(S) : c \in oldCuts \/ O.addr <= c
    BY <1>9, <1>13, <1>14, <1>16
  <2>2. O.addr <= O.addr
    BY <1>9
  <2> QED
    BY <1>1, <1>7, <1>9, <1>17, <1>18, <2>1, <2>2, UncutMore
<1>20. Uncut(Cuts(S), I.places, ib, n)
  <2>1. \A c \in Cuts(S) : c \in Cuts(I.segments) \/ I.addr <= c
    BY <1>14, <1>16
  <2>2. I.addr <= I.addr
    BY <1>14
  <2> QED
    BY <1>1, <1>12, <1>14, <1>17, <1>18, <2>1, <2>2, UncutMore
<1>21. ASSUME Fit(ob), Fit(ib) PROVE \A k \in 1 .. Len(S) : S[k] <= MaxSegment + 1
  <2>1. Small(start)
    BY <1>7, <1>10, <1>21 DEF Small
  <2>2. Small(I)
    BY <1>12, <1>21, <2>1
  <2> DEFINE s == I.segments
             x == I.size
             bound == MaxSegment + 1
  <2>3. /\ s \in Seq(Nat) /\ x \in Nat /\ S = Append(s, x) /\ x <= bound
        /\ \A k \in 1 .. Len(s) : s[k] <= bound
    BY <1>2, <1>14, <2>2 DEF Small
  <2> HIDE DEF s, x, bound
  <2>4. /\ Len(S) = Len(s) + 1 /\ Len(s) \in Nat /\ S[Len(s) + 1] = x
        /\ \A k \in 1 .. Len(s) : S[k] = s[k]
        /\ 1 .. Len(s) + 1 = (1 .. Len(s)) \cup {Len(s) + 1}
    BY <2>3
  <2> QED
    BY <2>3, <2>4 DEF bound
<1>22. Mapped(O.addr, I.addr, O.places, I.places, S, ob, ib, n)
  BY <1>7, <1>9, <1>12, <1>13, <1>14, <1>15, <1>16, <1>19, <1>20, <1>21 DEF Mapped
<1> QED
  BY <1>22 DEF BusMapped, O, I, S, ob, ib


----------------------------------------------------------------------------
(* The data of the slaves of one way. *)

Data(places, bits, p) == DataBits(places[p], bits[p])

\* Its size is the number of its bits.
LEMMA DataSize ==
  ASSUME NEW place \in Location, NEW bits \in Nat
  PROVE  Cardinality(DataBits(place, bits)) = bits
<1> DEFINE x == FirstBit(place)
           y == (x + bits) - 1
<1>1. x \in Nat /\ x + bits \in Nat /\ y \in Int
  BY PlaceFacts
<1>2. DataBits(place, bits) = x .. y
  <2>1. \A b : b \in DataBits(place, bits) <=> b \in Nat /\ x <= b /\ b < x + bits
    BY DataIs
  <2> HIDE DEF x
  <2>2. \A b : b \in x .. y <=> b \in Nat /\ x <= b /\ b < x + bits
    BY <1>1
  <2> QED
    BY <2>1, <2>2
<1> HIDE DEF x, y
<1>3. Cardinality(x .. y) = IF x > y THEN 0 ELSE y - x + 1
  BY <1>1, FS_Interval
<1>4. y - x + 1 = bits /\ (x > y <=> bits = 0)
  BY <1>1 DEF y
<1> QED
  BY <1>2, <1>3, <1>4

OneWayFacts(n, base, top, places, bits) ==
  /\ \A p \in 1 .. n : \A y \in BytesOf(Data(places, bits, p)) :
       y \in Nat /\ base <= y /\ y < top
  /\ \A y \in Nat : base <= y /\ y < top =>
       \E p \in 1 .. n : y \in BytesOf(Data(places, bits, p))
  /\ \A p, q \in 1 .. n : p # q =>
       Data(places, bits, p) \cap Data(places, bits, q) = {}
  /\ \A p \in 1 .. n : Cardinality(Data(places, bits, p)) = bits[p]

LEMMA OneWay ==
  ASSUME NEW n, NEW base, NEW top, NEW places, NEW bits,
         n \in Nat, base \in Nat, top \in Nat, places \in Locations, Len(places) = n,
         bits \in Seq(Nat), Len(bits) = n,
         \E lim \in Nat : Layout(base, lim, top, places, bits, n)
  PROVE  OneWayFacts(n, base, top, places, bits)
<1>1. \A p \in 1 .. n : places[p] \in Location /\ bits[p] \in Nat
  BY DEF Locations
<1>2. PICK lim \in Nat : Layout(base, lim, top, places, bits, n)
  OBVIOUS
<1>3. \A p \in 1 .. n : BytesOf(Data(places, bits, p)) = Bytes(places[p], bits[p])
  BY <1>1, BytesAre DEF Data
<1>4. ASSUME NEW p \in 1 .. n, NEW y \in Bytes(places[p], bits[p])
      PROVE  y \in Nat /\ base <= y /\ y < top
  <2> DEFINE b == bits[p]
             first == places[p][1]
             last == LastByte(places[p], bits[p])
  <2>1. y \in Nat /\ b > 0 /\ first <= y /\ y <= last
    BY <1>4 DEF Bytes
  <2>2. first \in Nat /\ last \in Int
    BY <1>1, PlaceFacts
  <2>3. base <= first /\ last < top
    BY <1>2, <2>1 DEF Layout, Within
  <2> HIDE DEF b, first, last
  <2> QED
    BY <2>1, <2>2, <2>3
<1>5. \A y \in Nat : base <= y /\ y < top => \E p \in 1 .. n : y \in Bytes(places[p], bits[p])
  BY <1>2 DEF Layout, Covering
<1>6. ASSUME NEW p \in 1 .. n, NEW q \in 1 .. n, p < q
      PROVE  Data(places, bits, p) \cap Data(places, bits, q) = {}
  <2> SUFFICES ASSUME NEW b \in Data(places, bits, p), b \in Data(places, bits, q)
               PROVE  FALSE
    OBVIOUS
  <2> DEFINE f == FirstBit(places[p])
             g == FirstBit(places[q])
             x == bits[p]
             z == bits[q]
  <2>1. f \in Nat /\ g \in Nat /\ x \in Nat /\ z \in Nat
    BY <1>1, PlaceFacts
  <2>2. /\ b \in Nat /\ f <= b /\ b < f + x
        /\ g <= b /\ b < g + z
    BY <1>1, DataIs DEF Data
  <2>3. x > 0 /\ z > 0 => f + x <= g
    BY <1>2, <1>6 DEF Layout, Apart
  <2> HIDE DEF f, g, x, z
  <2> QED
    BY <2>1, <2>2, <2>3
<1>7. \A p \in 1 .. n : Cardinality(Data(places, bits, p)) = bits[p]
  BY <1>1, DataSize DEF Data
<1>8. \A p, q \in 1 .. n : p # q => p < q \/ q < p
  OBVIOUS
<1>9. \A p, q \in 1 .. n : p # q => Data(places, bits, p) \cap Data(places, bits, q) = {}
  BY <1>6, <1>8
<1> QED
  BY <1>3, <1>4, <1>5, <1>7, <1>9 DEF OneWayFacts

----------------------------------------------------------------------------
(* The segment of a byte. *)

InBounds(b, k) == Ends(ioSegments)[k - 1] <= b /\ b < Ends(ioSegments)[k]

LEMMA SegmentIs ==
  ASSUME ioSegments \in Seq(Nat), NEW b \in Nat, b < Total(ioSegments)
  PROVE  SegmentOf(b) \in DOMAIN ioSegments /\ InBounds(b, SegmentOf(b))
<1> DEFINE l == Len(ioSegments)
           E == Ends(ioSegments)
           T == {k \in 1 .. l : b < E[k]}
<1>1. l \in Nat /\ DOMAIN ioSegments = 1 .. l
  OBVIOUS
<1>2. E[0] = 0 /\ \A k \in 0 .. l : E[k] \in Nat
  BY EndsFacts
<1>3. b < E[l]
  BY DEF Total
<1> HIDE DEF l, E
<1>4. l # 0
  BY <1>1, <1>2, <1>3
<1>5. l \in T
  BY <1>1, <1>3, <1>4
<1>6. T \in SUBSET Nat
  OBVIOUS
<1> HIDE DEF T
<1>7. PICK k \in T : \A y \in T : k <= y
  BY <1>5, <1>6, Least
<1>8. k \in 1 .. l /\ b < E[k]
  BY <1>7 DEF T
<1>9. k - 1 \in 0 .. l /\ E[k - 1] \in Nat
  BY <1>1, <1>2, <1>8
<1>10. E[k - 1] <= b
  <2> SUFFICES ASSUME b < E[k - 1] PROVE FALSE
    BY <1>9
  <2>1. k - 1 # 0
    BY <1>2
  <2>2. k - 1 \in T
    BY <1>1, <1>8, <2>1 DEF T
  <2> QED
    BY <1>1, <1>7, <1>8, <2>2
<1>11. k \in DOMAIN ioSegments /\ InBounds(b, k)
  BY <1>1, <1>8, <1>10 DEF InBounds, E
<1>12. SegmentOf(b) = CHOOSE i \in DOMAIN ioSegments : InBounds(b, i)
  BY DEF SegmentOf, InBounds
<1> QED
  BY <1>11, <1>12

\* Bytes without a cut between them are in one segment.
LEMMA SameSegment ==
  ASSUME ioSegments \in Seq(Nat), NEW b \in Nat, NEW e \in Nat, b <= e,
         \A c \in Cuts(ioSegments) : ~(b < c /\ c <= e)
  PROVE  SegmentOf(b) = SegmentOf(e)
<1> DEFINE l == Len(ioSegments)
           E == Ends(ioSegments)
<1>1. l \in Nat /\ DOMAIN ioSegments = 1 .. l
  OBVIOUS
<1>2. \A k \in 0 .. l : E[k] \in Nat /\ ~(b < E[k] /\ E[k] <= e)
  BY EndsFacts DEF Cuts
<1>3. \A k \in 1 .. l : InBounds(b, k) <=> InBounds(e, k)
  <2> SUFFICES ASSUME NEW k \in 1 .. l PROVE InBounds(b, k) <=> InBounds(e, k)
    OBVIOUS
  <2> DEFINE x == E[k - 1]
             y == E[k]
  <2>1. x \in Nat /\ y \in Nat /\ ~(b < x /\ x <= e) /\ ~(b < y /\ y <= e)
    <3>1. k - 1 \in 0 .. l /\ k \in 0 .. l
      BY <1>1
    <3> HIDE DEF E
    <3> QED
      BY <1>2, <3>1
  <2> HIDE DEF x, y
  <2>2. (x <= b /\ b < y) <=> (x <= e /\ e < y)
    BY <2>1
  <2> QED
    BY <2>2 DEF InBounds, x, y
<1>4. \A k \in DOMAIN ioSegments : InBounds(b, k) <=> InBounds(e, k)
  BY <1>1, <1>3
<1>5. SegmentOf(b) = CHOOSE k \in DOMAIN ioSegments : InBounds(b, k)
  BY DEF SegmentOf, InBounds
<1>6. SegmentOf(e) = CHOOSE k \in DOMAIN ioSegments : InBounds(e, k)
  BY DEF SegmentOf, InBounds
<1>7. (CHOOSE k \in DOMAIN ioSegments : InBounds(b, k))
        = (CHOOSE k \in DOMAIN ioSegments : InBounds(e, k))
  BY <1>4
<1> QED
  BY <1>5, <1>6, <1>7

\* So a slave of whole bytes travels in one frame.
LEMMA OneFrame ==
  ASSUME ioSegments \in Seq(Nat), NEW place \in Location, NEW bits \in Nat, bits > 7,
         \A c \in Cuts(ioSegments) : ~(place[1] < c /\ c <= LastByte(place, bits))
  PROVE  \A b, e \in BytesOf(DataBits(place, bits)) : SegmentOf(b) = SegmentOf(e)
<1> DEFINE first == place[1]
           last == LastByte(place, bits)
<1>1. first \in Nat /\ last \in Int
  BY PlaceFacts
<1>2. \A b \in BytesOf(DataBits(place, bits)) : b \in Nat /\ first <= b /\ b <= last
  BY BytesAre DEF Bytes
<1>3. Cuts(ioSegments) \subseteq Nat /\ \A c \in Cuts(ioSegments) : ~(first < c /\ c <= last)
  BY CutsFacts
<1> HIDE DEF first, last
<1>4. ASSUME NEW b \in BytesOf(DataBits(place, bits)), NEW e \in BytesOf(DataBits(place, bits)),
             b <= e
      PROVE  SegmentOf(b) = SegmentOf(e)
  <2>1. \A c \in Cuts(ioSegments) : ~(b < c /\ c <= e)
    BY <1>1, <1>2, <1>3
  <2> QED
    BY <1>2, <1>4, <2>1, SameSegment
<1>5. \A b, e \in BytesOf(DataBits(place, bits)) : b <= e \/ e <= b
  BY <1>2
<1> QED
  BY <1>4, <1>5

----------------------------------------------------------------------------
(* The map stays that of the bus. *)

IoMapped ==
  /\ ioBus \in IoBuses
  /\ ioOutputs = MapOutputs(ioBus).places /\ ioInputs = MapInputs(ioBus).places
  /\ ioSegments = Segments(ioBus)

LEMMA MappedInit == IoInit => IoMapped
BY DEF IoInit, IoBegin, IoMapped

LEMMA MappedStep == IoMapped /\ [IoNext]_ioVars => IoMapped'
BY DEF IoMapped, IoNext, IoWrite, IoChange, IoSend, IoReceive, ioVars, ioMap

MappedAt(mid, total) ==
  Mapped(mid, total, ioOutputs, ioInputs, ioSegments, OutBits(ioBus), InBits(ioBus),
         Len(ioBus))

\* What the proofs use of it.
LEMMA MappedFacts ==
  ASSUME IoMapped
  PROVE  /\ DOMAIN ioBus = 1 .. Len(ioBus) /\ Len(ioBus) \in Nat
         /\ OutBits(ioBus) \in Seq(Nat) /\ InBits(ioBus) \in Seq(Nat)
         /\ Len(OutBits(ioBus)) = Len(ioBus) /\ Len(InBits(ioBus)) = Len(ioBus)
         /\ \A p \in Slaves : /\ ioBus[p].out \in Nat /\ OutBits(ioBus)[p] = ioBus[p].out
                              /\ ioBus[p].in \in Nat /\ InBits(ioBus)[p] = ioBus[p].in
         /\ \E mid, total \in Nat : MappedAt(mid, total)
<1> DEFINE S == [out : Nat, in : Nat]
           n == Len(ioBus)
<1>1. \A s \in S : s.out \in Nat /\ s.in \in Nat
  OBVIOUS
<1>2. ioBus \in Seq(S)
  BY IoAssumption DEF IoMapped
<1>3. BusMapped(ioBus)
  BY <1>2, BusIsMapped
<1> HIDE DEF S
<1>4. n \in Nat /\ DOMAIN ioBus = 1 .. n /\ \A p \in 1 .. n : ioBus[p] \in S
  BY <1>2
<1>5. \A p \in 1 .. n : ioBus[p].out \in Nat /\ ioBus[p].in \in Nat
  <2> HIDE DEF n
  <2> QED
    BY <1>1, <1>4
<1>6. /\ OutBits(ioBus) = [p \in 1 .. n |-> ioBus[p].out]
      /\ InBits(ioBus) = [p \in 1 .. n |-> ioBus[p].in]
  BY DEF OutBits, InBits
<1> HIDE DEF n
<1>7. OutBits(ioBus) \in [1 .. n -> Nat] /\ InBits(ioBus) \in [1 .. n -> Nat]
  BY <1>5, <1>6
<1>8. /\ OutBits(ioBus) \in Seq(Nat) /\ InBits(ioBus) \in Seq(Nat)
      /\ Len(OutBits(ioBus)) = n /\ Len(InBits(ioBus)) = n
  <2> DEFINE f == OutBits(ioBus)
             g == InBits(ioBus)
  <2>1. f \in [1 .. n -> Nat] /\ g \in [1 .. n -> Nat]
    BY <1>7
  <2> HIDE DEF f, g
  <2>2. f \in Seq(Nat) /\ g \in Seq(Nat) /\ Len(f) = n /\ Len(g) = n
    BY <1>4, <2>1
  <2> QED
    BY <2>2 DEF f, g
<1>9. \A p \in 1 .. n : /\ OutBits(ioBus)[p] = ioBus[p].out
                        /\ InBits(ioBus)[p] = ioBus[p].in
  BY <1>6
<1>10. MappedAt(MapOutputs(ioBus).addr, MapInputs(ioBus).addr)
  BY <1>3 DEF BusMapped, MappedAt, IoMapped
<1>11. \E mid, total \in Nat : MappedAt(mid, total)
  BY <1>10 DEF MappedAt, Mapped
<1>12. \A p \in Slaves : /\ ioBus[p].out \in Nat /\ OutBits(ioBus)[p] = ioBus[p].out
                         /\ ioBus[p].in \in Nat /\ InBits(ioBus)[p] = ioBus[p].in
  BY <1>4, <1>5, <1>9 DEF Slaves
<1>13. DOMAIN ioBus = 1 .. Len(ioBus) /\ Len(ioBus) \in Nat
  BY <1>4 DEF n
<1>14. Len(OutBits(ioBus)) = Len(ioBus) /\ Len(InBits(ioBus)) = Len(ioBus)
  BY <1>8 DEF n
<1> QED
  BY <1>8, <1>11, <1>12, <1>13, <1>14

----------------------------------------------------------------------------
(* The map is exact. *)

\* No slave has more data each way than a frame carries.
SlavesFit == \A bus \in IoBuses : Fit(OutBits(bus)) /\ Fit(InBits(bus))

LEMMA WaysAre ==
  ASSUME IoMapped, NEW mid \in Nat, NEW total \in Nat, MappedAt(mid, total)
  PROVE  /\ Slaves = 1 .. Len(ioBus)
         /\ \A p \in Slaves : /\ OutData[p] = Data(ioOutputs, OutBits(ioBus), p)
                              /\ InData[p] = Data(ioInputs, InBits(ioBus), p)
         /\ \A p \in Slaves : \A y \in BytesOf(OutData[p]) : y \in Nat /\ y < mid
         /\ \A p \in Slaves : \A y \in BytesOf(InData[p]) : y \in Nat /\ mid <= y /\ y < total
         /\ \A y \in Nat : y < mid => \E p \in Slaves : y \in BytesOf(OutData[p])
         /\ \A y \in Nat : mid <= y /\ y < total => \E p \in Slaves : y \in BytesOf(InData[p])
         /\ \A p, q \in Slaves : p # q =>
              OutData[p] \cap OutData[q] = {} /\ InData[p] \cap InData[q] = {}
         /\ \A p \in Slaves : /\ Cardinality(OutData[p]) = ioBus[p].out
                              /\ Cardinality(InData[p]) = ioBus[p].in
<1> DEFINE n == Len(ioBus)
           ob == OutBits(ioBus)
           ib == InBits(ioBus)
<1>1. /\ Slaves = 1 .. n /\ n \in Nat /\ ob \in Seq(Nat) /\ ib \in Seq(Nat)
      /\ Len(ob) = n /\ Len(ib) = n
  BY MappedFacts DEF Slaves
<1>2. \A p \in Slaves : ob[p] = ioBus[p].out /\ ib[p] = ioBus[p].in
  BY MappedFacts
<1>3. \A p \in Slaves : /\ OutData[p] = Data(ioOutputs, ob, p)
                        /\ InData[p] = Data(ioInputs, ib, p)
  BY <1>2 DEF OutData, InData, Data
<1>4. /\ ioOutputs \in Locations /\ Len(ioOutputs) = n
      /\ ioInputs \in Locations /\ Len(ioInputs) = n
      /\ \E lim \in Nat : Layout(0, lim, mid, ioOutputs, ob, n)
      /\ \E lim \in Nat : Layout(mid, lim, total, ioInputs, ib, n)
  BY DEF MappedAt, Mapped
<1> HIDE DEF n, ob, ib
<1>5. /\ \A p \in 1 .. n : \A y \in BytesOf(Data(ioOutputs, ob, p)) :
           y \in Nat /\ 0 <= y /\ y < mid
      /\ \A y \in Nat : 0 <= y /\ y < mid =>
           \E p \in 1 .. n : y \in BytesOf(Data(ioOutputs, ob, p))
      /\ \A p, q \in 1 .. n : p # q =>
           Data(ioOutputs, ob, p) \cap Data(ioOutputs, ob, q) = {}
      /\ \A p \in 1 .. n : Cardinality(Data(ioOutputs, ob, p)) = ob[p]
  <2> DEFINE base == 0
  <2>1. base \in Nat
    OBVIOUS
  <2>2. \E lim \in Nat : Layout(base, lim, mid, ioOutputs, ob, n)
    BY <1>4
  <2> HIDE DEF base
  <2>3. OneWayFacts(n, base, mid, ioOutputs, ob)
    BY <1>1, <1>4, <2>1, <2>2, OneWay
  <2> QED
    BY <2>3 DEF OneWayFacts, base
<1>6. /\ \A p \in 1 .. n : \A y \in BytesOf(Data(ioInputs, ib, p)) :
           y \in Nat /\ mid <= y /\ y < total
      /\ \A y \in Nat : mid <= y /\ y < total =>
           \E p \in 1 .. n : y \in BytesOf(Data(ioInputs, ib, p))
      /\ \A p, q \in 1 .. n : p # q =>
           Data(ioInputs, ib, p) \cap Data(ioInputs, ib, q) = {}
      /\ \A p \in 1 .. n : Cardinality(Data(ioInputs, ib, p)) = ib[p]
  <2>1. OneWayFacts(n, mid, total, ioInputs, ib)
    BY <1>1, <1>4, OneWay
  <2> QED
    BY <2>1 DEF OneWayFacts
<1>7. \A y \in Nat : 0 <= y
  OBVIOUS
<1>8. \A p \in Slaves : \A y \in BytesOf(OutData[p]) : y \in Nat /\ y < mid
  BY <1>1, <1>3, <1>5
<1>9. \A p \in Slaves : \A y \in BytesOf(InData[p]) : y \in Nat /\ mid <= y /\ y < total
  BY <1>1, <1>3, <1>6
<1>10. \A y \in Nat : y < mid => \E p \in Slaves : y \in BytesOf(OutData[p])
  BY <1>1, <1>3, <1>5, <1>7
<1>11. \A y \in Nat : mid <= y /\ y < total => \E p \in Slaves : y \in BytesOf(InData[p])
  BY <1>1, <1>3, <1>6
<1>12. \A p, q \in Slaves : p # q =>
         OutData[p] \cap OutData[q] = {} /\ InData[p] \cap InData[q] = {}
  BY <1>1, <1>3, <1>5, <1>6
<1>13. \A p \in Slaves : /\ Cardinality(OutData[p]) = ioBus[p].out
                         /\ Cardinality(InData[p]) = ioBus[p].in
  BY <1>1, <1>2, <1>3, <1>5, <1>6
<1> QED
  BY <1>1, <1>3, <1>8, <1>9, <1>10, <1>11, <1>12, <1>13 DEF n, ob, ib

LEMMA MappedExact == SlavesFit /\ IoMapped => MapExact
<1> SUFFICES ASSUME SlavesFit, IoMapped PROVE MapExact
  OBVIOUS
<1> DEFINE total == Ends(ioSegments)[Len(ioSegments)]
           data == {OutData[p] : p \in Slaves} \cup {InData[p] : p \in Slaves}
<1>1. PICK mid \in Nat, sum \in Nat : MappedAt(mid, sum)
  BY MappedFacts
<1>2. sum = total /\ total \in Nat /\ mid <= total /\ ioSegments \in Seq(Nat)
  BY <1>1 DEF MappedAt, Mapped, Total
<1> HIDE DEF total
<1>3. MappedAt(mid, total)
  BY <1>1, <1>2
<1>4. ASSUME NEW p \in Slaves, NEW q \in Slaves
      PROVE  /\ p # q => OutData[p] \cap OutData[q] = {} /\ InData[p] \cap InData[q] = {}
             /\ \A b \in BytesOf(OutData[p]), d \in BytesOf(InData[q]) : b < d
  <2>1. p # q => OutData[p] \cap OutData[q] = {} /\ InData[p] \cap InData[q] = {}
    BY <1>2, <1>3, WaysAre
  <2>2. \A b \in BytesOf(OutData[p]), d \in BytesOf(InData[q]) :
          b \in Nat /\ d \in Nat /\ b < mid /\ mid <= d
    BY <1>2, <1>3, WaysAre
  <2> QED
    BY <2>1, <2>2
<1>5. UNION {BytesOf(d) : d \in data} = 0 .. total - 1
  <2>1. ASSUME NEW d \in data, NEW y \in BytesOf(d) PROVE y \in Nat /\ y < total
    <3>1. CASE \E p \in Slaves : d = OutData[p]
      <4>1. y \in Nat /\ y < mid
        BY <1>2, <1>3, <2>1, <3>1, WaysAre
      <4> QED
        BY <1>2, <4>1
    <3>2. CASE \E p \in Slaves : d = InData[p]
      BY <1>2, <1>3, <2>1, <3>2, WaysAre
    <3> QED
      BY <3>1, <3>2
  <2>2. ASSUME NEW y \in Nat, y < total PROVE \E d \in data : y \in BytesOf(d)
    <3>1. y < mid \/ mid <= y
      OBVIOUS
    <3>2. \E p \in Slaves : y \in BytesOf(OutData[p]) \/ y \in BytesOf(InData[p])
      BY <1>2, <1>3, <2>2, <3>1, WaysAre
    <3> QED
      BY <3>2
  <2> HIDE DEF data
  <2>3. \A y : y \in 0 .. total - 1 <=> y \in Nat /\ y < total
    BY <1>2
  <2>4. \A y : y \in UNION {BytesOf(d) : d \in data} <=> y \in Nat /\ y < total
    BY <2>1, <2>2
  <2> QED
    BY <2>3, <2>4
<1>6. \A k \in DOMAIN ioSegments : ioSegments[k] <= MaxSegment + 1
  <2>1. Fit(OutBits(ioBus)) /\ Fit(InBits(ioBus))
    BY DEF SlavesFit, IoMapped
  <2>2. \A k \in 1 .. Len(ioSegments) : ioSegments[k] <= MaxSegment + 1
    BY <1>3, <2>1 DEF MappedAt, Mapped
  <2> QED
    BY <1>2, <2>2
<1>7. ASSUME NEW d \in data, Cardinality(d) > 7
      PROVE  \A b, e \in BytesOf(d) : SegmentOf(b) = SegmentOf(e)
  <2> DEFINE n == Len(ioBus)
             ob == OutBits(ioBus)
             ib == InBits(ioBus)
  <2>1. /\ ioOutputs \in Locations /\ Len(ioOutputs) = n /\ ioInputs \in Locations
        /\ Len(ioInputs) = n /\ Uncut(Cuts(ioSegments), ioOutputs, ob, n)
        /\ Uncut(Cuts(ioSegments), ioInputs, ib, n)
    BY <1>3 DEF MappedAt, Mapped
  <2>2. /\ Slaves = 1 .. n /\ n \in Nat
        /\ \A p \in Slaves : ob[p] \in Nat /\ ib[p] \in Nat
        /\ \A p \in Slaves : ob[p] = ioBus[p].out /\ ib[p] = ioBus[p].in
    BY MappedFacts DEF Slaves
  <2> HIDE DEF n
  <2>3. \A p \in Slaves : ioOutputs[p] \in Location /\ ioInputs[p] \in Location
    BY <2>1, <2>2 DEF Locations
  <2> HIDE DEF ob, ib
  <2>4. CASE \E p \in Slaves : d = OutData[p]
    <3>1. PICK p \in Slaves : d = OutData[p]
      BY <2>4
    <3>2. d = DataBits(ioOutputs[p], ob[p])
      BY <1>2, <1>3, <3>1, WaysAre DEF Data, ob
    <3>3. ob[p] > 7
      BY <1>2, <1>3, <1>7, <2>2, <3>1, WaysAre
    <3>4. \A c \in Cuts(ioSegments) :
            ~(ioOutputs[p][1] < c /\ c <= LastByte(ioOutputs[p], ob[p]))
      BY <2>1, <2>2, <3>3 DEF Uncut
    <3> QED
      BY <1>2, <2>2, <2>3, <3>2, <3>3, <3>4, OneFrame, SMTT(30)
  <2>5. CASE \E p \in Slaves : d = InData[p]
    <3>1. PICK p \in Slaves : d = InData[p]
      BY <2>5
    <3>2. d = DataBits(ioInputs[p], ib[p])
      BY <1>2, <1>3, <3>1, WaysAre DEF Data, ib
    <3>3. ib[p] > 7
      BY <1>2, <1>3, <1>7, <2>2, <3>1, WaysAre
    <3>4. \A c \in Cuts(ioSegments) :
            ~(ioInputs[p][1] < c /\ c <= LastByte(ioInputs[p], ib[p]))
      BY <2>1, <2>2, <3>3 DEF Uncut
    <3> QED
      BY <1>2, <2>2, <2>3, <3>2, <3>3, <3>4, OneFrame, SMTT(30)
  <2> QED
    BY <2>4, <2>5
<1> HIDE DEF data
<1> QED
  BY <1>4, <1>5, <1>6, <1>7 DEF MapExact, total, data

\* MapExact for every bus: what ec_config_map_group computes, as long as no slave
\* has more data each way than a frame carries.
THEOREM MapIsExact == ASSUME SlavesFit PROVE IoSpec => []MapExact
<1>1. IoInit => IoMapped
  BY MappedInit
<1>2. IoMapped /\ [IoNext]_ioVars => IoMapped'
  BY MappedStep
<1>3. IoMapped => MapExact
  BY MappedExact
<1> QED
  BY <1>1, <1>2, <1>3, PTL DEF IoSpec


----------------------------------------------------------------------------
(* The channels of a slave in the image. *)

LEMMA ChannelBits ==
  ASSUME NEW place \in Location, NEW bits \in Nat, NEW c \in 0 .. bits - 1
  PROVE  /\ SlaveBit(place, c) \in DataBits(place, bits)
         /\ CodeBit(place, c) \in Nat
         /\ CodeBit(place, c) \div 8 \in BytesOf(DataBits(place, bits))
         /\ place[2] = 0 => CodeBit(place, c) = SlaveBit(place, c)
         /\ \A d \in Int : (CodeBit(place, c) = CodeBit(place, d) => c = d)
                           /\ (SlaveBit(place, c) = SlaveBit(place, d) => c = d)
<1> DEFINE a == place[1]
           s == place[2]
           last == (s + bits) - 1
           e == 8 * a + c
<1>1. a \in Nat /\ s \in 0 .. 7 /\ c \in Nat /\ c < bits /\ last \in Nat
  BY DEF Location
<1>2. /\ SlaveBit(place, c) = 8 * a + s + c /\ CodeBit(place, c) = e
      /\ LastByte(place, bits) = a + (last \div 8)
      /\ \A d : SlaveBit(place, d) = 8 * a + s + d /\ CodeBit(place, d) = 8 * a + d
  BY DEF SlaveBit, CodeBit, LastByte
<1>3. SlaveBit(place, c) \in DataBits(place, bits)
  BY DEF DataBits
<1> HIDE DEF a, s, last, e
<1>4. e \in Nat /\ e = 8 * a + c
  BY <1>1 DEF e
<1>5. c <= last
  BY <1>1 DEF last
<1> DEFINE z == last \div 8
           y == e \div 8
<1>6. z \in Nat /\ last < 8 * z + 8 /\ y \in Nat /\ 8 * y <= e /\ e < 8 * y + 8
  BY <1>1, <1>4, Eights
<1> HIDE DEF z, y
<1>7. a <= y /\ y <= a + z
  BY <1>1, <1>4, <1>5, <1>6
<1>8. CodeBit(place, c) \div 8 \in Bytes(place, bits)
  <2>1. CodeBit(place, c) \div 8 = y /\ LastByte(place, bits) = a + z
    BY <1>2 DEF y, z
  <2>2. bits > 0
    BY <1>1
  <2> QED
    BY <1>6, <1>7, <2>1, <2>2 DEF Bytes, a
<1>9. ASSUME NEW d \in Int
      PROVE  /\ 8 * a + c = 8 * a + d => c = d
             /\ 8 * a + s + c = 8 * a + s + d => c = d
  BY <1>1
<1>10. s = 0 => 8 * a + c = 8 * a + s + c
  BY <1>1
<1>11. CodeBit(place, c) \div 8 \in BytesOf(DataBits(place, bits))
  BY <1>8, BytesAre
<1>12. place[2] = 0 => CodeBit(place, c) = SlaveBit(place, c)
  BY <1>2, <1>4, <1>10 DEF s
<1>13. \A d \in Int : (CodeBit(place, c) = CodeBit(place, d) => c = d)
                      /\ (SlaveBit(place, c) = SlaveBit(place, d) => c = d)
  BY <1>2, <1>4, <1>9
<1> QED
  BY <1>2, <1>3, <1>4, <1>11, <1>12, <1>13

\* A slave that starts within a byte shares it.
Sole(n, places, bits, p) ==
  \A q \in (1 .. n) \ {p} :
    BytesOf(Data(places, bits, p)) \cap BytesOf(Data(places, bits, q)) = {}

OnByte(places, bits, p) == bits[p] > 0 => places[p][2] = 0

LEMMA AloneStarts ==
  ASSUME NEW n, NEW base, NEW top, NEW places, NEW bits,
         n \in Nat, places \in Locations, Len(places) = n, bits \in Seq(Nat), Len(bits) = n,
         \E lim \in Nat : Layout(base, lim, top, places, bits, n),
         NEW p, p \in 1 .. n, Sole(n, places, bits, p)
  PROVE  OnByte(places, bits, p)
<1> SUFFICES ASSUME bits[p] > 0 PROVE places[p][2] = 0
  BY DEF OnByte
<1>1. \A q \in 1 .. n : places[q] \in Location /\ bits[q] \in Nat
  BY DEF Locations
<1>2. \A q \in 1 .. n : BytesOf(Data(places, bits, q)) = Bytes(places[q], bits[q])
  BY <1>1, BytesAre DEF Data
<1>3. places[p][1] \in Bytes(places[p], bits[p])
  <2> DEFINE a == places[p][1]
             last == LastByte(places[p], bits[p])
  <2>1. a \in Nat /\ last \in Nat /\ a <= last
    BY <1>1, PlaceFacts
  <2> HIDE DEF last
  <2>2. a <= a
    BY <2>1
  <2> QED
    BY <2>1, <2>2 DEF Bytes, last
<1>4. \A q \in 1 .. p - 1 : q \in (1 .. n) \ {p}
  OBVIOUS
<1>5. ~(places[p][2] > 0)
  BY <1>2, <1>3, <1>4 DEF Layout, Sharing, Sole
<1>6. places[p][2] \in 0 .. 7
  BY <1>1, PlaceFacts
<1> QED
  BY <1>5, <1>6

\* Channel c of slave p: the slave's bit and the code's, and their bytes.
ChannelsLie ==
  /\ \A p \in Slaves : \A c \in 0 .. ioBus[p].out - 1 :
       /\ SlaveBit(ioOutputs[p], c) \in OutData[p]
       /\ CodeBit(ioOutputs[p], c) \div 8 \in BytesOf(OutData[p])
       /\ Alone(p) => CodeBit(ioOutputs[p], c) = SlaveBit(ioOutputs[p], c)
       /\ \A d \in 0 .. ioBus[p].out - 1 :
            CodeBit(ioOutputs[p], c) = CodeBit(ioOutputs[p], d) => c = d
  /\ \A p \in Slaves : \A c \in 0 .. ioBus[p].in - 1 :
       /\ SlaveBit(ioInputs[p], c) \in InData[p]
       /\ Alone(p) => CodeBit(ioInputs[p], c) = SlaveBit(ioInputs[p], c)
       /\ \A d \in 0 .. ioBus[p].in - 1 :
            SlaveBit(ioInputs[p], c) = SlaveBit(ioInputs[p], d) => c = d
  /\ \A p, q \in Slaves : /\ OutData[p] \cap InData[q] = {}
                          /\ p # q => InData[p] \cap InData[q] = {}
  /\ \A p \in Slaves : \A b \in OutData[p] \cup InData[p] :
       SegmentOf(b \div 8) \in DOMAIN ioSegments

LEMMA ChannelsAre == IoMapped => ChannelsLie
<1> SUFFICES ASSUME IoMapped PROVE ChannelsLie
  OBVIOUS
<1> DEFINE n == Len(ioBus)
           ob == OutBits(ioBus)
           ib == InBits(ioBus)
<1>1. PICK mid \in Nat, total \in Nat : MappedAt(mid, total)
  BY MappedFacts
<1>2. /\ ioOutputs \in Locations /\ Len(ioOutputs) = n /\ ioInputs \in Locations
      /\ Len(ioInputs) = n /\ ioSegments \in Seq(Nat) /\ mid <= total
      /\ Total(ioSegments) = total
      /\ \E lim \in Nat : Layout(0, lim, mid, ioOutputs, ob, n)
      /\ \E lim \in Nat : Layout(mid, lim, total, ioInputs, ib, n)
  BY <1>1 DEF MappedAt, Mapped
<1>3. /\ n \in Nat /\ ob \in Seq(Nat) /\ ib \in Seq(Nat) /\ Len(ob) = n /\ Len(ib) = n
      /\ \A p \in Slaves : /\ ioBus[p].out \in Nat /\ ob[p] = ioBus[p].out
                           /\ ioBus[p].in \in Nat /\ ib[p] = ioBus[p].in
  BY MappedFacts
<1>4. /\ Slaves = 1 .. n
      /\ \A p \in Slaves : /\ OutData[p] = Data(ioOutputs, ob, p)
                           /\ InData[p] = Data(ioInputs, ib, p)
      /\ \A p \in Slaves : \A y \in BytesOf(OutData[p]) : y \in Nat /\ y < mid
      /\ \A p \in Slaves : \A y \in BytesOf(InData[p]) : y \in Nat /\ mid <= y /\ y < total
      /\ \A p, q \in Slaves : p # q => InData[p] \cap InData[q] = {}
  BY <1>1, WaysAre
<1> HIDE DEF n, ob, ib
<1>5. \A p \in Slaves : ioOutputs[p] \in Location /\ ioInputs[p] \in Location
  BY <1>2, <1>4 DEF Locations
<1>6. \A p \in Slaves : OutData[p] = DataBits(ioOutputs[p], ioBus[p].out)
                        /\ InData[p] = DataBits(ioInputs[p], ioBus[p].in)
  BY DEF OutData, InData
<1>7. ASSUME NEW p \in Slaves, Alone(p)
      PROVE  /\ ioBus[p].out > 0 => ioOutputs[p][2] = 0
             /\ ioBus[p].in > 0 => ioInputs[p][2] = 0
  <2>1. Sole(n, ioOutputs, ob, p) /\ Sole(n, ioInputs, ib, p)
    BY <1>4, <1>7 DEF Alone, Sole
  <2>2. OnByte(ioOutputs, ob, p)
    <3> DEFINE base == 0
    <3>1. \E lim \in Nat : Layout(base, lim, mid, ioOutputs, ob, n)
      BY <1>2
    <3> HIDE DEF base
    <3> QED
      BY <1>2, <1>3, <1>4, <2>1, <3>1, AloneStarts
  <2>3. OnByte(ioInputs, ib, p)
    BY <1>2, <1>3, <1>4, <2>1, AloneStarts
  <2> QED
    <3>1. ob[p] = ioBus[p].out /\ ib[p] = ioBus[p].in
      BY <1>3
    <3> QED
      BY <2>2, <2>3, <3>1 DEF OnByte
<1>8. ASSUME NEW p \in Slaves, NEW c \in 0 .. ioBus[p].out - 1
      PROVE  /\ SlaveBit(ioOutputs[p], c) \in OutData[p]
             /\ CodeBit(ioOutputs[p], c) \div 8 \in BytesOf(OutData[p])
             /\ Alone(p) => CodeBit(ioOutputs[p], c) = SlaveBit(ioOutputs[p], c)
             /\ \A d \in 0 .. ioBus[p].out - 1 :
                  CodeBit(ioOutputs[p], c) = CodeBit(ioOutputs[p], d) => c = d
  <2> DEFINE place == ioOutputs[p]
             bits == ioBus[p].out
  <2>1. place \in Location /\ bits \in Nat /\ OutData[p] = DataBits(place, bits)
    BY <1>3, <1>5, <1>6
  <2>2. bits > 0 /\ \A d \in 0 .. bits - 1 : d \in Int
    BY <2>1
  <2>3. Alone(p) => place[2] = 0
    BY <1>7, <2>2
  <2> HIDE DEF place, bits
  <2>4. c \in 0 .. bits - 1
    BY DEF bits
  <2>5. /\ SlaveBit(place, c) \in DataBits(place, bits)
        /\ CodeBit(place, c) \div 8 \in BytesOf(DataBits(place, bits))
        /\ place[2] = 0 => CodeBit(place, c) = SlaveBit(place, c)
        /\ \A d \in Int : CodeBit(place, c) = CodeBit(place, d) => c = d
    BY <2>1, <2>4, ChannelBits
  <2> QED
    BY <2>1, <2>2, <2>3, <2>5 DEF place, bits
<1>9. ASSUME NEW p \in Slaves, NEW c \in 0 .. ioBus[p].in - 1
      PROVE  /\ SlaveBit(ioInputs[p], c) \in InData[p]
             /\ Alone(p) => CodeBit(ioInputs[p], c) = SlaveBit(ioInputs[p], c)
             /\ \A d \in 0 .. ioBus[p].in - 1 :
                  SlaveBit(ioInputs[p], c) = SlaveBit(ioInputs[p], d) => c = d
  <2> DEFINE place == ioInputs[p]
             bits == ioBus[p].in
  <2>1. place \in Location /\ bits \in Nat /\ InData[p] = DataBits(place, bits)
    BY <1>3, <1>5, <1>6
  <2>2. bits > 0 /\ \A d \in 0 .. bits - 1 : d \in Int
    BY <2>1
  <2>3. Alone(p) => place[2] = 0
    BY <1>7, <2>2
  <2> HIDE DEF place, bits
  <2>4. c \in 0 .. bits - 1
    BY DEF bits
  <2>5. /\ SlaveBit(place, c) \in DataBits(place, bits)
        /\ place[2] = 0 => CodeBit(place, c) = SlaveBit(place, c)
        /\ \A d \in Int : SlaveBit(place, c) = SlaveBit(place, d) => c = d
    BY <2>1, <2>4, ChannelBits
  <2> QED
    BY <2>1, <2>2, <2>3, <2>5 DEF place, bits
<1>10. ASSUME NEW p \in Slaves, NEW q \in Slaves PROVE OutData[p] \cap InData[q] = {}
  <2> SUFFICES ASSUME NEW b \in OutData[p], b \in InData[q] PROVE FALSE
    OBVIOUS
  <2>1. b \div 8 \in BytesOf(OutData[p]) /\ b \div 8 \in BytesOf(InData[q])
    BY DEF BytesOf
  <2> DEFINE y == b \div 8
  <2>2. y \in BytesOf(OutData[p]) /\ y \in BytesOf(InData[q])
    BY <2>1
  <2> HIDE DEF y
  <2>3. y \in Nat /\ y < mid /\ mid <= y
    BY <1>4, <2>2
  <2> QED
    BY <2>3
<1>11. ASSUME NEW p \in Slaves, NEW b \in OutData[p] \cup InData[p]
       PROVE  SegmentOf(b \div 8) \in DOMAIN ioSegments
  <2> DEFINE y == b \div 8
  <2>1. y \in BytesOf(OutData[p]) \/ y \in BytesOf(InData[p])
    BY DEF BytesOf
  <2> HIDE DEF y
  <2>2. y \in Nat /\ y < total
    BY <1>2, <1>4, <2>1
  <2>3. SegmentOf(y) \in DOMAIN ioSegments
    BY <1>2, <2>2, SegmentIs
  <2> QED
    BY <2>3 DEF y
<1> QED
  BY <1>4, <1>8, <1>9, <1>10, <1>11 DEF ChannelsLie


(***************************************************************************)
(* The invariant of the exchange: a slave that shares no byte has in the   *)
(* image the outputs last written to it, whatever is under way; the frames *)
(* that come back hold the image of ec_send with the inputs of the slaves; *)
(* after an exchange without losses the slaves have these outputs and, when*)
(* it is over, the image has their inputs.                                 *)
(***************************************************************************)
IoTypes ==
  /\ ioPc \in {"free", "sent"} /\ ioWhole \in BOOLEAN
  /\ DOMAIN ioIn = Slaves /\ DOMAIN ioWritten = Slaves
  /\ \A p \in Slaves : ioIn[p] \subseteq 0 .. ioBus[p].in - 1
                       /\ ioWritten[p] \subseteq 0 .. ioBus[p].out - 1

WrittenShown ==
  \A p \in Slaves : Alone(p) => \A c \in 0 .. ioBus[p].out - 1 :
    CodeBit(ioOutputs[p], c) \in ioImage <=> c \in ioWritten[p]

FramesShow ==
  ioPc = "sent" =>
    /\ \A k \in DOMAIN ioFrames : ioFrames[k] = InSegment(k, Passed(ioImage))
    /\ ioWhole => DOMAIN ioFrames = DOMAIN ioSegments

OutputsTaken == ioWhole => \A p \in Slaves : Alone(p) => ioOut[p] = ioWritten[p]

InputsTaken ==
  ioPc = "free" /\ ioWhole =>
    \A p \in Slaves : Alone(p) => \A c \in 0 .. ioBus[p].in - 1 :
      CodeBit(ioInputs[p], c) \in ioImage <=> c \in ioIn[p]

IoInv ==
  IoMapped /\ IoTypes /\ WrittenShown /\ FramesShow /\ OutputsTaken /\ InputsTaken

LEMMA InitImage == IoInit => IoInv
<1> SUFFICES ASSUME IoInit PROVE IoInv
  OBVIOUS
<1>1. IoMapped
  BY MappedInit
<1>2. PICK bus \in IoBuses : IoBegin(bus)
  BY DEF IoInit
<1>3. IoTypes
  BY <1>2 DEF IoBegin, IoTypes, Slaves
<1>4. WrittenShown
  BY <1>2 DEF IoBegin, WrittenShown, Slaves
<1>5. FramesShow /\ OutputsTaken /\ InputsTaken
  BY <1>2 DEF IoBegin, FramesShow, OutputsTaken, InputsTaken
<1> QED
  BY <1>1, <1>3, <1>4, <1>5 DEF IoInv

\* The map does not change, nor what is computed from it alone.
LEMMA MapStays ==
  ASSUME UNCHANGED ioMap
  PROVE  /\ ioBus' = ioBus /\ ioOutputs' = ioOutputs /\ ioInputs' = ioInputs
         /\ ioSegments' = ioSegments /\ Slaves' = Slaves
         /\ \A p : Alone(p)' <=> Alone(p)
BY DEF ioMap, Slaves, Alone, OutData, InData

LEMMA StepWrite ==
  ASSUME IoInv, NEW p \in Slaves, NEW c \in IoChannels, NEW on \in BOOLEAN, IoWrite(p, c, on)
  PROVE  IoInv'
<1> DEFINE bit == CodeBit(ioOutputs[p], c)
<1>1. /\ ioPc' = "free" /\ ioIn' = ioIn /\ ioWhole' = FALSE
      /\ ioWritten' = [ioWritten EXCEPT ![p] = IF on THEN @ \cup {c} ELSE @ \ {c}]
      /\ ioImage' = IF on THEN ioImage \cup {bit} ELSE ioImage \ {bit}
      /\ UNCHANGED ioMap
  BY DEF IoWrite
<1>2. /\ ioBus' = ioBus /\ ioOutputs' = ioOutputs /\ Slaves' = Slaves
      /\ \A q : Alone(q)' <=> Alone(q)
  BY <1>1, MapStays
<1>3. IoMapped'
  BY MappedStep DEF IoInv, IoNext
<1>4. c \in 0 .. ioBus[p].out - 1
  <2>1. c \in Nat /\ c < ioBus[p].out
    BY IoAssumption DEF IoWrite
  <2>2. ioBus[p].out \in Nat
    BY MappedFacts DEF IoInv
  <2> QED
    BY <2>1, <2>2
<1>5. ChannelsLie
  BY ChannelsAre DEF IoInv
<1>6. IoTypes /\ WrittenShown
  BY DEF IoInv
<1> HIDE DEF bit
<1>7. /\ ioWritten'[p] = IF on THEN ioWritten[p] \cup {c} ELSE ioWritten[p] \ {c}
      /\ \A q \in Slaves : q # p => ioWritten'[q] = ioWritten[q]
      /\ DOMAIN ioWritten' = DOMAIN ioWritten
  BY <1>1, <1>6 DEF IoTypes
<1>8. IoTypes'
  <2>1. \A q \in Slaves : ioWritten'[q] \subseteq 0 .. ioBus[q].out - 1
    BY <1>4, <1>6, <1>7 DEF IoTypes
  <2> QED
    BY <1>1, <1>2, <1>6, <1>7, <2>1 DEF IoTypes
<1>9. ASSUME NEW q \in Slaves, Alone(q), NEW d \in 0 .. ioBus[q].out - 1
      PROVE  CodeBit(ioOutputs[q], d) \in ioImage' <=> d \in ioWritten'[q]
  <2>1. CodeBit(ioOutputs[q], d) \in ioImage <=> d \in ioWritten[q]
    BY <1>6, <1>9 DEF WrittenShown
  <2>2. CASE q = p
    <3>1. CodeBit(ioOutputs[q], d) = bit => d = c
      BY <1>4, <1>5, <1>9, <2>2 DEF ChannelsLie, bit
    <3>2. d = c => CodeBit(ioOutputs[q], d) = bit
      BY <2>2 DEF bit
    <3> QED
      BY <1>1, <1>7, <2>1, <2>2, <3>1, <3>2
  <2>3. CASE q # p
    <3>1. /\ CodeBit(ioOutputs[q], d) \div 8 \in BytesOf(OutData[q])
          /\ bit \div 8 \in BytesOf(OutData[p])
      BY <1>4, <1>5, <1>9 DEF ChannelsLie, bit
    <3>2. BytesOf(OutData[q]) \cap BytesOf(OutData[p]) = {}
      BY <1>9, <2>3 DEF Alone
    <3>3. CodeBit(ioOutputs[q], d) # bit
      BY <3>1, <3>2
    <3> QED
      BY <1>1, <1>7, <2>1, <2>3, <3>3
  <2> QED
    BY <2>2, <2>3
<1>10. WrittenShown'
  BY <1>2, <1>9 DEF WrittenShown
<1>11. FramesShow' /\ OutputsTaken' /\ InputsTaken'
  BY <1>1 DEF FramesShow, OutputsTaken, InputsTaken
<1> QED
  BY <1>3, <1>8, <1>10, <1>11 DEF IoInv

LEMMA StepChange ==
  ASSUME IoInv, NEW p \in Slaves, NEW c \in IoChannels, IoChange(p, c)
  PROVE  IoInv'
<1>1. /\ ioPc = "free" /\ ioPc' = ioPc /\ ioWritten' = ioWritten /\ ioWhole' = FALSE
      /\ ioIn' = [ioIn EXCEPT ![p] = IF c \in @ THEN @ \ {c} ELSE @ \cup {c}]
      /\ ioImage' = ioImage /\ UNCHANGED ioMap
  BY DEF IoChange
<1>2. /\ ioBus' = ioBus /\ ioOutputs' = ioOutputs /\ Slaves' = Slaves
      /\ \A q : Alone(q)' <=> Alone(q)
  BY <1>1, MapStays
<1>3. IoMapped'
  BY MappedStep DEF IoInv, IoNext
<1>4. c \in 0 .. ioBus[p].in - 1
  <2>1. c \in Nat /\ c < ioBus[p].in
    BY IoAssumption DEF IoChange
  <2>2. ioBus[p].in \in Nat
    BY MappedFacts DEF IoInv
  <2> QED
    BY <2>1, <2>2
<1>5. IoTypes /\ WrittenShown
  BY DEF IoInv
<1>6. IoTypes'
  <2>1. DOMAIN ioIn' = Slaves /\ \A q \in Slaves : ioIn'[q] \subseteq 0 .. ioBus[q].in - 1
    BY <1>1, <1>4, <1>5 DEF IoTypes
  <2> QED
    BY <1>1, <1>2, <1>5, <2>1 DEF IoTypes
<1>7. WrittenShown'
  BY <1>1, <1>2, <1>5 DEF WrittenShown
<1>8. FramesShow' /\ OutputsTaken' /\ InputsTaken'
  BY <1>1 DEF FramesShow, OutputsTaken, InputsTaken
<1> QED
  BY <1>3, <1>6, <1>7, <1>8 DEF IoInv

LEMMA StepSend == ASSUME IoInv, IoSend PROVE IoInv'
<1>1. /\ ioPc' = "sent" /\ ioImage' = ioImage /\ ioIn' = ioIn /\ ioWritten' = ioWritten
      /\ UNCHANGED ioMap
  BY DEF IoSend
<1>2. /\ ioBus' = ioBus /\ ioOutputs' = ioOutputs /\ ioInputs' = ioInputs
      /\ ioSegments' = ioSegments /\ Slaves' = Slaves
      /\ \A q : Alone(q)' <=> Alone(q)
  BY <1>1, MapStays
<1>3. IoMapped'
  BY MappedStep DEF IoInv, IoNext
<1>4. IoTypes /\ WrittenShown /\ ChannelsLie
  BY ChannelsAre DEF IoInv
<1>0. PICK arrived \in SUBSET DOMAIN ioSegments : \E back \in SUBSET arrived :
        /\ ioOut' = [p \in Slaves |->
             {c \in 0 .. ioBus[p].out - 1 :
                LET b == SlaveBit(ioOutputs[p], c)
                IN IF SegmentOf(b \div 8) \in arrived THEN b \in ioImage ELSE c \in ioOut[p]}]
        /\ ioFrames' = [k \in back |-> InSegment(k, Passed(ioImage))]
        /\ ioWhole' = (back = DOMAIN ioSegments)
  BY DEF IoSend
<1>5. PICK back \in SUBSET arrived :
        /\ ioOut' = [p \in Slaves |->
             {c \in 0 .. ioBus[p].out - 1 :
                LET b == SlaveBit(ioOutputs[p], c)
                IN IF SegmentOf(b \div 8) \in arrived THEN b \in ioImage ELSE c \in ioOut[p]}]
        /\ ioFrames' = [k \in back |-> InSegment(k, Passed(ioImage))]
        /\ ioWhole' = (back = DOMAIN ioSegments)
  BY <1>0
<1>6. IoTypes'
  <2>1. ioWhole' \in BOOLEAN
    BY <1>5
  <2> QED
    BY <1>1, <1>2, <1>4, <2>1 DEF IoTypes
<1>7. WrittenShown'
  BY <1>1, <1>2, <1>4 DEF WrittenShown
<1>8. FramesShow'
  <2>1. /\ DOMAIN ioFrames' = back
        /\ \A k \in back : ioFrames'[k] = InSegment(k, Passed(ioImage))
    BY <1>5
  <2>2. \A k : InSegment(k, Passed(ioImage))' = InSegment(k, Passed(ioImage))
    BY <1>1, <1>2 DEF InSegment, Passed, SegmentOf
  <2>3. ioWhole' => back = DOMAIN ioSegments
    BY <1>5
  <2> QED
    BY <1>2, <2>1, <2>2, <2>3 DEF FramesShow
<1>9. ASSUME ioWhole', NEW p \in Slaves, Alone(p) PROVE ioOut'[p] = ioWritten[p]
  <2>1. DOMAIN ioSegments \subseteq arrived
    BY <1>5, <1>9
  <2>2. ioOut'[p] = {c \in 0 .. ioBus[p].out - 1 :
           IF SegmentOf(SlaveBit(ioOutputs[p], c) \div 8) \in arrived
           THEN SlaveBit(ioOutputs[p], c) \in ioImage ELSE c \in ioOut[p]}
    BY <1>5
  <2>3. \A c \in 0 .. ioBus[p].out - 1 :
          /\ SegmentOf(SlaveBit(ioOutputs[p], c) \div 8) \in arrived
          /\ SlaveBit(ioOutputs[p], c) \in ioImage <=> c \in ioWritten[p]
    BY <1>4, <1>9, <2>1 DEF ChannelsLie, WrittenShown
  <2>4. ioWritten[p] \subseteq 0 .. ioBus[p].out - 1
    BY <1>4 DEF IoTypes
  <2> QED
    BY <2>2, <2>3, <2>4
<1>10. OutputsTaken'
  BY <1>1, <1>2, <1>9 DEF OutputsTaken
<1>11. InputsTaken'
  BY <1>1 DEF InputsTaken
<1> QED
  BY <1>3, <1>6, <1>7, <1>8, <1>10, <1>11 DEF IoInv

\* ec_receive takes a bit from its frame, or leaves it.
LEMMA Received ==
  ASSUME IoReceive, FramesShow
  PROVE  \A b : b \in ioImage' <=> IF SegmentOf(b \div 8) \in DOMAIN ioFrames
                                   THEN b \in Passed(ioImage) ELSE b \in ioImage
<1>1. ioImage' = {b \in ioImage : SegmentOf(b \div 8) \notin DOMAIN ioFrames}
                  \cup UNION {ioFrames[k] : k \in DOMAIN ioFrames}
  BY DEF IoReceive
<1>2. \A k \in DOMAIN ioFrames : \A b :
        b \in ioFrames[k] <=> b \in Passed(ioImage) /\ SegmentOf(b \div 8) = k
  BY DEF FramesShow, IoReceive, InSegment
<1> QED
  BY <1>1, <1>2

LEMMA StepReceive == ASSUME IoInv, IoReceive PROVE IoInv'
<1>1. /\ ioPc = "sent" /\ ioPc' = "free" /\ ioOut' = ioOut /\ ioIn' = ioIn
      /\ ioWritten' = ioWritten /\ ioWhole' = ioWhole /\ UNCHANGED ioMap
  BY DEF IoReceive
<1>2. /\ ioBus' = ioBus /\ ioOutputs' = ioOutputs /\ ioInputs' = ioInputs
      /\ Slaves' = Slaves /\ \A q : Alone(q)' <=> Alone(q)
  BY <1>1, MapStays
<1>3. IoMapped'
  BY MappedStep DEF IoInv, IoNext
<1>4. IoTypes /\ WrittenShown /\ OutputsTaken /\ ChannelsLie
  BY ChannelsAre DEF IoInv
<1>5. \A b : b \in ioImage' <=> IF SegmentOf(b \div 8) \in DOMAIN ioFrames
                                THEN b \in Passed(ioImage) ELSE b \in ioImage
  BY Received DEF IoInv
<1>6. ioWhole => DOMAIN ioFrames = DOMAIN ioSegments
  BY <1>1 DEF IoInv, FramesShow
<1>7. InData = [p \in Slaves |-> DataBits(ioInputs[p], ioBus[p].in)]
  BY DEF InData
<1>8. \A b : b \in Passed(ioImage)
               <=> \/ b \in ioImage /\ \A q \in Slaves : b \notin InData[q]
                   \/ \E q \in Slaves : \E d \in ioIn[q] : b = SlaveBit(ioInputs[q], d)
  BY <1>7 DEF Passed
<1>9. \A q \in Slaves : \A d \in ioIn[q] : /\ d \in 0 .. ioBus[q].in - 1
                                           /\ SlaveBit(ioInputs[q], d) \in InData[q]
  BY <1>4 DEF IoTypes, ChannelsLie
<1>10. ASSUME NEW p \in Slaves, NEW b \in OutData[p] PROVE b \in ioImage' <=> b \in ioImage
  <2>1. \A q \in Slaves : b \notin InData[q]
    BY <1>4 DEF ChannelsLie
  <2>2. b \in Passed(ioImage) <=> b \in ioImage
    BY <1>8, <1>9, <2>1
  <2> QED
    BY <1>5, <2>2
<1>11. ASSUME NEW p \in Slaves, NEW c \in 0 .. ioBus[p].in - 1
       PROVE  SlaveBit(ioInputs[p], c) \in Passed(ioImage) <=> c \in ioIn[p]
  <2> DEFINE b == SlaveBit(ioInputs[p], c)
  <2>1. b \in InData[p]
    BY <1>4 DEF ChannelsLie
  <2>2. ASSUME NEW q \in Slaves, NEW d \in ioIn[q], b = SlaveBit(ioInputs[q], d)
        PROVE  c \in ioIn[p]
    <3>1. b \in InData[q] /\ d \in 0 .. ioBus[q].in - 1
      BY <1>9, <2>2
    <3>2. q = p
      BY <1>4, <2>1, <3>1 DEF ChannelsLie
    <3>3. c = d
      BY <1>4, <2>2, <3>1, <3>2 DEF ChannelsLie
    <3> QED
      BY <2>2, <3>2, <3>3
  <2> HIDE DEF b
  <2>3. c \in ioIn[p] => \E q \in Slaves : \E d \in ioIn[q] : b = SlaveBit(ioInputs[q], d)
    BY DEF b
  <2>4. b \in Passed(ioImage) <=> c \in ioIn[p]
    BY <1>8, <2>1, <2>2, <2>3
  <2> QED
    BY <2>4 DEF b
<1>12. IoTypes'
  BY <1>1, <1>2, <1>4 DEF IoTypes
<1>13. WrittenShown'
  <2>1. ASSUME NEW p \in Slaves, Alone(p), NEW c \in 0 .. ioBus[p].out - 1
        PROVE  CodeBit(ioOutputs[p], c) \in ioImage' <=> c \in ioWritten[p]
    <3>1. CodeBit(ioOutputs[p], c) \in OutData[p]
      BY <1>4, <2>1 DEF ChannelsLie
    <3>2. CodeBit(ioOutputs[p], c) \in ioImage <=> c \in ioWritten[p]
      BY <1>4, <2>1 DEF WrittenShown
    <3> QED
      BY <1>10, <3>1, <3>2
  <2> QED
    BY <1>1, <1>2, <2>1 DEF WrittenShown
<1>14. FramesShow'
  BY <1>1 DEF FramesShow
<1>15. OutputsTaken'
  BY <1>1, <1>2, <1>4 DEF OutputsTaken
<1>16. InputsTaken'
  <2>1. ASSUME ioWhole, NEW p \in Slaves, Alone(p), NEW c \in 0 .. ioBus[p].in - 1
        PROVE  CodeBit(ioInputs[p], c) \in ioImage' <=> c \in ioIn[p]
    <3> DEFINE b == SlaveBit(ioInputs[p], c)
    <3>1. CodeBit(ioInputs[p], c) = b /\ b \in InData[p]
      BY <1>4, <2>1 DEF ChannelsLie
    <3>2. b \in Passed(ioImage) <=> c \in ioIn[p]
      BY <1>11
    <3> HIDE DEF b
    <3>3. SegmentOf(b \div 8) \in DOMAIN ioFrames
      BY <1>4, <1>6, <2>1, <3>1 DEF ChannelsLie
    <3> QED
      BY <1>5, <3>1, <3>2, <3>3
  <2> QED
    BY <1>1, <1>2, <2>1 DEF InputsTaken
<1> QED
  BY <1>3, <1>12, <1>13, <1>14, <1>15, <1>16 DEF IoInv

LEMMA StepImage == IoInv /\ [IoNext]_ioVars => IoInv'
<1> SUFFICES ASSUME IoInv, [IoNext]_ioVars PROVE IoInv'
  OBVIOUS
<1>1. ASSUME NEW p \in Slaves, NEW c \in IoChannels, NEW on \in BOOLEAN, IoWrite(p, c, on)
      PROVE  IoInv'
  BY <1>1, StepWrite
<1>2. ASSUME NEW p \in Slaves, NEW c \in IoChannels, IoChange(p, c) PROVE IoInv'
  BY <1>2, StepChange
<1>3. CASE IoSend
  BY <1>3, StepSend
<1>4. CASE IoReceive
  BY <1>4, StepReceive
<1>5. CASE UNCHANGED ioVars
  <2>1. /\ ioBus' = ioBus /\ ioOutputs' = ioOutputs /\ ioInputs' = ioInputs
        /\ ioSegments' = ioSegments /\ Slaves' = Slaves /\ \A p : Alone(p)' <=> Alone(p)
    BY <1>5, MapStays DEF ioVars
  <2>2. IoMapped'
    BY MappedStep DEF IoInv
  <2>3. /\ ioImage' = ioImage /\ ioPc' = ioPc /\ ioFrames' = ioFrames /\ ioOut' = ioOut
        /\ ioIn' = ioIn /\ ioWritten' = ioWritten /\ ioWhole' = ioWhole
    BY <1>5 DEF ioVars
  <2>4. \A k : InSegment(k, Passed(ioImage))' = InSegment(k, Passed(ioImage))
    BY <2>1, <2>3 DEF InSegment, Passed, SegmentOf
  <2>5. IoTypes' /\ WrittenShown' /\ OutputsTaken' /\ InputsTaken'
    BY <2>1, <2>3 DEF IoInv, IoTypes, WrittenShown, OutputsTaken, InputsTaken
  <2>6. FramesShow'
    BY <2>1, <2>3, <2>4 DEF IoInv, FramesShow
  <2> QED
    BY <2>2, <2>5, <2>6 DEF IoInv
<1> QED
  BY <1>1, <1>2, <1>3, <1>4, <1>5 DEF IoNext

LEMMA InvImage == IoInv => ImageFollows
<1> SUFFICES ASSUME IoInv, Settled, NEW p \in Slaves, Alone(p) PROVE Follows(p)
  BY DEF ImageFollows
<1>1. ioOut[p] = ioWritten[p]
  BY DEF IoInv, OutputsTaken, Settled
<1>2. ASSUME NEW c \in IoChannels, c < ioBus[p].in
      PROVE  CodeBit(ioInputs[p], c) \in ioImage <=> c \in ioIn[p]
  <2>1. c \in Nat /\ ioBus[p].in \in Nat
    BY IoAssumption, MappedFacts DEF IoInv
  <2>2. c \in 0 .. ioBus[p].in - 1
    BY <1>2, <2>1
  <2> QED
    BY <2>2 DEF IoInv, InputsTaken, Settled
<1> QED
  BY <1>1, <1>2 DEF Follows

\* ImageFollows for every bus: after ec_send and ec_receive without losses a slave
\* that shares no byte has the outputs written to it and the program its inputs.
THEOREM ImageIsFollowed == IoSpec => []ImageFollows
<1>1. IoInit => IoInv
  BY InitImage
<1>2. IoInv /\ [IoNext]_ioVars => IoInv'
  BY StepImage
<1>3. IoInv => ImageFollows
  BY InvImage
<1> QED
  BY <1>1, <1>2, <1>3, PTL DEF IoSpec
=============================================================================
