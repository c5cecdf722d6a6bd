--------------------------- MODULE EcPorts_proofs ---------------------------
(***************************************************************************)
(* The port tables, for every bus and every history of starts: each        *)
(* channel on the bus has one port, in the order of the bus, and where     *)
(* only E-boxes have outputs what is written to a pwm port comes out on    *)
(* its channel.                                                            *)
(***************************************************************************)
EXTENDS EcPorts, IoMap_proofs, SequenceTheorems

----------------------------------------------------------------------------
(* Functions that are defined by recursion over the slaves. *)

\* A start and a step make a function on 0 .. N.
Follow(f, a, g, N) ==
  f[0] = a /\ \A p \in 1 .. N : f[p] = g[<< f[p - 1], p >>]

LEMMA Recursion ==
  ASSUME NEW N \in Nat, NEW S, NEW a \in S, NEW g \in [S \X (1 .. N) -> S]
  PROVE  \E f \in [0 .. N -> S] : Follow(f, a, g, N)
<1> DEFINE T == {l \in 0 .. N : \E f \in [0 .. l -> S] : Follow(f, a, g, l)}
<1>1. 0 \in T
  <2> DEFINE f == [k \in 0 .. 0 |-> a]
  <2>1. f \in [0 .. 0 -> S] /\ Follow(f, a, g, 0)
    BY DEF Follow
  <2> QED
    BY <2>1
<1>2. ASSUME NEW l \in 0 .. N - 1, l \in T PROVE l + 1 \in T
  <2>1. l \in Nat /\ l + 1 \in 1 .. N /\ (l + 1) - 1 = l
    OBVIOUS
  <2>2. PICK f \in [0 .. l -> S] : Follow(f, a, g, l)
    BY <1>2
  <2> DEFINE x == g[<< f[l], l + 1 >>]
             h == [k \in 0 .. l + 1 |-> IF k = l + 1 THEN x ELSE f[k]]
  <2>3. x \in S
    BY <2>1, <2>2
  <2> HIDE DEF x
  <2>4. h \in [0 .. l + 1 -> S]
    BY <2>1, <2>2, <2>3
  <2>5. h[l + 1] = x /\ \A k \in 0 .. l : h[k] = f[k]
    BY <2>1
  <2> HIDE DEF h
  <2>6. ASSUME NEW p \in 1 .. l + 1 PROVE h[p] = g[<< h[p - 1], p >>]
    <3>1. CASE p = l + 1
      <4>1. h[p - 1] = f[l]
        BY <2>1, <2>5, <3>1
      <4> QED
        BY <2>5, <3>1, <4>1 DEF x
    <3>2. CASE p # l + 1
      <4>1. p \in 1 .. l /\ p \in 0 .. l /\ p - 1 \in 0 .. l
        BY <2>1, <3>2
      <4>2. f[p] = g[<< f[p - 1], p >>]
        BY <2>2, <4>1 DEF Follow
      <4> QED
        BY <2>5, <4>1, <4>2
    <3> QED
      BY <3>1, <3>2
  <2>7. h[0] = a
    BY <2>1, <2>2, <2>5 DEF Follow
  <2>8. Follow(h, a, g, l + 1)
    BY <2>6, <2>7 DEF Follow
  <2> QED
    BY <2>1, <2>4, <2>8
<1>3. 0 .. N \subseteq T
  <2> HIDE DEF T
  <2> QED
    BY <1>1, <1>2, Induct
<1>4. N \in 0 .. N
  OBVIOUS
<1> QED
  BY <1>3, <1>4

----------------------------------------------------------------------------
(* Buses. *)

BusesAll == Seq(Kinds)

LEMMA BusFacts ==
  ASSUME NEW bus \in BusesAll
  PROVE  Len(bus) \in Nat /\ \A p \in 1 .. Len(bus) : bus[p] \in Kinds
BY DEF BusesAll

LEMMA NChanType ==
  ASSUME NEW ty \in Types, NEW k \in Kinds
  PROVE  NChan(ty, k) \in 0 .. 8 /\ NChan(ty, "unknown") = 0
<1>1. CASE ty = "din"
  BY <1>1 DEF NChan
<1>2. CASE ty = "dout"
  BY <1>2 DEF NChan
<1>3. CASE ty = "adc"
  BY <1>3 DEF NChan
<1>4. CASE ty = "dac"
  BY <1>4 DEF NChan
<1>5. CASE ty = "enc"
  BY <1>5 DEF NChan
<1>6. CASE ty = "pwm"
  BY <1>6 DEF NChan
<1> QED
  BY <1>1, <1>2, <1>3, <1>4, <1>5, <1>6 DEF Types

\* The channels of the slaves before one.
LEMMA ChannelsToFacts ==
  ASSUME NEW ty \in Types, NEW bus \in BusesAll
  PROVE  /\ ChannelsTo(ty, bus) \in [0 .. Len(bus) -> Nat]
         /\ ChannelsTo(ty, bus)[0] = 0
         /\ \A p \in 1 .. Len(bus) :
              ChannelsTo(ty, bus)[p] = ChannelsTo(ty, bus)[p - 1] + NChan(ty, bus[p])
<1> DEFINE n == Len(bus)
           Is(f) == f = [p \in 0 .. n |-> IF p = 0 THEN 0 ELSE f[p - 1] + NChan(ty, bus[p])]
           g == [xp \in Nat \X (1 .. n) |-> xp[1] + NChan(ty, bus[xp[2]])]
<1>1. n \in Nat /\ \A p \in 1 .. n : NChan(ty, bus[p]) \in Nat
  <2>1. n \in Nat /\ \A p \in 1 .. n : bus[p] \in Kinds
    BY BusFacts
  <2>2. \A k \in Kinds : NChan(ty, k) \in Nat
    BY NChanType
  <2> QED
    BY <2>1, <2>2
<1> HIDE DEF n
<1>2. g \in [Nat \X (1 .. n) -> Nat]
  BY <1>1
<1>3. \A x \in Nat, p \in 1 .. n : g[<< x, p >>] = x + NChan(ty, bus[p])
  OBVIOUS
<1> HIDE DEF g
<1>4. PICK f \in [0 .. n -> Nat] : Follow(f, 0, g, n)
  BY <1>1, <1>2, Recursion
<1>5. \A p \in 0 .. n : f[p] = IF p = 0 THEN 0 ELSE f[p - 1] + NChan(ty, bus[p])
  <2> SUFFICES ASSUME NEW p \in 0 .. n, p # 0 PROVE f[p] = f[p - 1] + NChan(ty, bus[p])
    BY <1>4 DEF Follow
  <2>1. p \in 1 .. n /\ p - 1 \in 0 .. n
    BY <1>1
  <2> QED
    BY <1>3, <1>4, <2>1 DEF Follow
<1>6. Is(f)
  BY <1>4, <1>5
<1>7. ChannelsTo(ty, bus) = CHOOSE h : Is(h)
  BY DEF ChannelsTo, n
<1>8. Is(ChannelsTo(ty, bus))
  BY <1>6, <1>7
<1> DEFINE c == ChannelsTo(ty, bus)
<1>9. c = [p \in 0 .. n |-> IF p = 0 THEN 0 ELSE c[p - 1] + NChan(ty, bus[p])]
  BY <1>8
<1> HIDE DEF c, Is
<1>10. c[0] = 0 /\ \A p \in 1 .. n : c[p] = c[p - 1] + NChan(ty, bus[p])
  <2>1. 0 \in 0 .. n /\ \A p \in 1 .. n : p \in 0 .. n /\ p # 0
    BY <1>1
  <2> QED
    BY <1>9, <2>1
<1> DEFINE S == {p \in 0 .. n : c[p] \in Nat}
<1>11. 0 .. n \subseteq S
  <2>1. 0 \in S
    BY <1>1, <1>10
  <2>2. ASSUME NEW k \in 0 .. n - 1, k \in S PROVE k + 1 \in S
    <3>1. k + 1 \in 1 .. n /\ k + 1 \in 0 .. n /\ (k + 1) - 1 = k
      BY <1>1
    <3> QED
      BY <1>1, <1>10, <2>2, <3>1
  <2> HIDE DEF S
  <2> QED
    BY <1>1, <2>1, <2>2, Induct
<1>12. c \in [0 .. n -> Nat]
  <2>1. \A p \in 0 .. n : c[p] \in Nat
    BY <1>11
  <2>2. c = [p \in 0 .. n |-> c[p]]
    BY <1>9
  <2> QED
    BY <2>1, <2>2
<1> QED
  BY <1>10, <1>12 DEF c, n

\* The slaves of a kind.
LEMMA LinksToFacts ==
  ASSUME NEW k, NEW bus \in BusesAll
  PROVE  /\ LinksTo(k, bus)[0] = << >>
         /\ \A p \in 1 .. Len(bus) :
              LinksTo(k, bus)[p] = IF bus[p] = k THEN Append(LinksTo(k, bus)[p - 1], p)
                                   ELSE LinksTo(k, bus)[p - 1]
         /\ \A p \in 0 .. Len(bus) : LinksTo(k, bus)[p] \in Seq(Nat)
<1> DEFINE n == Len(bus)
           Next(x, p) == IF bus[p] = k THEN Append(x, p) ELSE x
           Is(f) == f = [p \in 0 .. n |-> IF p = 0 THEN << >> ELSE Next(f[p - 1], p)]
           g == [xp \in Seq(Nat) \X (1 .. n) |-> Next(xp[1], xp[2])]
<1>1. n \in Nat
  BY BusFacts
<1> HIDE DEF n
<1>2. \A x \in Seq(Nat), p \in Nat : Next(x, p) \in Seq(Nat)
  OBVIOUS
<1>3. << >> \in Seq(Nat)
  OBVIOUS
<1> HIDE DEF Next
<1>4. g \in [Seq(Nat) \X (1 .. n) -> Seq(Nat)]
  BY <1>1, <1>2
<1>5. \A x \in Seq(Nat), p \in 1 .. n : g[<< x, p >>] = Next(x, p)
  OBVIOUS
<1> HIDE DEF g
<1>6. PICK f \in [0 .. n -> Seq(Nat)] : Follow(f, << >>, g, n)
  BY <1>1, <1>3, <1>4, Recursion
<1>7. \A p \in 0 .. n : f[p] = IF p = 0 THEN << >> ELSE Next(f[p - 1], p)
  <2> SUFFICES ASSUME NEW p \in 0 .. n, p # 0 PROVE f[p] = Next(f[p - 1], p)
    BY <1>6 DEF Follow
  <2>1. p \in 1 .. n /\ p - 1 \in 0 .. n
    BY <1>1
  <2> QED
    BY <1>5, <1>6, <2>1 DEF Follow
<1>8. Is(f)
  BY <1>6, <1>7
<1>9. LinksTo(k, bus) = CHOOSE h : Is(h)
  BY DEF LinksTo, Next, n
<1> DEFINE c == LinksTo(k, bus)
<1>10. c = [p \in 0 .. n |-> IF p = 0 THEN << >> ELSE Next(c[p - 1], p)]
  BY <1>8, <1>9
<1> HIDE DEF c, Is
<1>11. c[0] = << >> /\ \A p \in 1 .. n : c[p] = Next(c[p - 1], p)
  <2>1. 0 \in 0 .. n /\ \A p \in 1 .. n : p \in 0 .. n /\ p # 0
    BY <1>1
  <2> QED
    BY <1>10, <2>1
<1> DEFINE S == {p \in 0 .. n : c[p] \in Seq(Nat)}
<1>12. 0 .. n \subseteq S
  <2>1. 0 \in S
    <3>1. c[0] \in Seq(Nat)
      BY <1>3, <1>11, Zenon
    <3>2. 0 \in 0 .. n
      BY <1>1
    <3> QED
      BY <3>1, <3>2
  <2>2. ASSUME NEW i \in 0 .. n - 1, i \in S PROVE i + 1 \in S
    <3> DEFINE j == i + 1
    <3>1. j \in 1 .. n /\ j \in 0 .. n /\ j - 1 = i /\ j \in Nat
      BY <1>1
    <3> HIDE DEF j
    <3>2. c[j] = Next(c[i], j)
      BY <1>11, <3>1
    <3>3. Next(c[i], j) \in Seq(Nat)
      BY <1>2, <2>2, <3>1
    <3>4. j \in S
      BY <3>1, <3>2, <3>3
    <3> QED
      BY <3>4 DEF j
  <2> HIDE DEF S
  <2> QED
    BY <1>1, <2>1, <2>2, Induct
<1>13. \A p \in 1 .. n : c[p] = IF bus[p] = k THEN Append(c[p - 1], p) ELSE c[p - 1]
  BY <1>11 DEF Next
<1>14. \A p \in 0 .. n : c[p] \in Seq(Nat)
  BY <1>12
<1> QED
  BY <1>11, <1>13, <1>14 DEF c, n

\* A slave keeps the link that it gets.
LEMMA LinksHold ==
  ASSUME NEW k, NEW bus \in BusesAll
  PROVE  \A q \in 0 .. Len(bus) : \A p \in 1 .. q : bus[p] = k =>
           /\ Len(LinksTo(k, bus)[p - 1]) < Len(LinksTo(k, bus)[q])
           /\ LinksTo(k, bus)[q][Len(LinksTo(k, bus)[p - 1]) + 1] = p
<1> DEFINE n == Len(bus)
           L == LinksTo(k, bus)
           Holds(q, p) == Len(L[p - 1]) < Len(L[q]) /\ L[q][Len(L[p - 1]) + 1] = p
           S == {q \in 0 .. n : \A p \in 1 .. q : bus[p] = k => Holds(q, p)}
<1>1. /\ n \in Nat
      /\ \A p \in 1 .. n : L[p] = IF bus[p] = k THEN Append(L[p - 1], p) ELSE L[p - 1]
      /\ \A p \in 0 .. n : L[p] \in Seq(Nat)
  BY BusFacts, LinksToFacts
<1> HIDE DEF n, L
<1>2. 0 \in S
  BY <1>1
<1>3. ASSUME NEW q \in 0 .. n - 1, q \in S PROVE q + 1 \in S
  <2>1. q + 1 \in 1 .. n /\ q + 1 \in 0 .. n /\ q \in 0 .. n /\ (q + 1) - 1 = q /\ q + 1 \in Nat
    BY <1>1
  <2>2. \A p \in 1 .. q : bus[p] = k => Holds(q, p)
    BY <1>3
  <2> DEFINE s == L[q]
             t == L[q + 1]
  <2>3. s \in Seq(Nat) /\ t = IF bus[q + 1] = k THEN Append(s, q + 1) ELSE s
    BY <1>1, <2>1
  <2> HIDE DEF s, t
  <2>4. bus[q + 1] = k => /\ Len(t) = Len(s) + 1 /\ t[Len(s) + 1] = q + 1 /\ Len(s) \in Nat
                          /\ \A i \in 1 .. Len(s) : t[i] = s[i]
    BY <2>1, <2>3
  <2>5. ASSUME NEW p \in 1 .. q + 1, bus[p] = k PROVE Holds(q + 1, p)
    <3>1. CASE p = q + 1
      <4>1. L[p - 1] = s /\ bus[q + 1] = k
        BY <2>1, <2>5, <3>1 DEF s
      <4>2. Len(s) < Len(t) /\ t[Len(s) + 1] = p
        BY <2>4, <3>1, <4>1
      <4> QED
        BY <4>1, <4>2 DEF t
    <3>2. CASE p # q + 1
      <4>1. p \in 1 .. q /\ p - 1 \in 0 .. n
        BY <1>1, <2>1, <3>2
      <4> DEFINE i == Len(L[p - 1])
      <4>2. i \in Nat
        BY <1>1, <4>1
      <4>3. i < Len(s) /\ s[i + 1] = p
        BY <2>2, <2>5, <4>1 DEF s
      <4> HIDE DEF i
      <4>4. i < Len(t) /\ t[i + 1] = p
        <5>1. CASE bus[q + 1] = k
          <6>1. i + 1 \in 1 .. Len(s)
            BY <2>4, <4>2, <4>3, <5>1
          <6> QED
            BY <2>4, <4>2, <4>3, <5>1, <6>1
        <5>2. CASE bus[q + 1] # k
          BY <2>3, <4>3, <5>2
        <5> QED
          BY <5>1, <5>2
      <4> QED
        BY <4>4 DEF i, t
    <3> QED
      BY <3>1, <3>2
  <2> HIDE DEF Holds
  <2> QED
    BY <2>1, <2>5
<1>4. 0 .. n \subseteq S
  <2> HIDE DEF S
  <2> QED
    BY <1>1, <1>2, <1>3, Induct
<1>5. \A q \in 0 .. n : \A p \in 1 .. q : bus[p] = k => Holds(q, p)
  BY <1>4
<1> QED
  BY <1>5 DEF n, L

----------------------------------------------------------------------------
(* The table of a type. *)

Port == [dev : Kinds, link : Nat, chan : 0 .. 7, enabled : {0, 1}, clipped : {0, 1}]

LinksTyped == epLinks \in [Kinds -> Seq(Nat)]

\* A port's fields that are not marks.
Names(port, dev, link, chan) == port.dev = dev /\ port.link = link /\ port.chan = chan

LEMMA PortsOfFacts ==
  ASSUME LinksTyped, NEW ty \in Types, NEW bus \in BusesAll, NEW p \in 1 .. Len(bus)
  PROVE  /\ PortsOf(ty, bus, p) \in Seq(Port)
         /\ Len(PortsOf(ty, bus, p)) = NChan(ty, bus[p])
         /\ \A c \in 1 .. NChan(ty, bus[p]) :
              Names(PortsOf(ty, bus, p)[c], bus[p], LinkOf(bus, p), c - 1)
<1> DEFINE m == NChan(ty, bus[p])
           l == LinkOf(bus, p)
           k == bus[p]
           s == PortsOf(ty, bus, p)
<1>1. k \in Kinds /\ m \in 0 .. 8
  BY BusFacts, NChanType
<1>2. l \in Nat
  <2> DEFINE a == Len(epLinks[k])
             b == Len(LinksTo(k, bus)[p - 1])
  <2>1. a \in Nat
    BY <1>1 DEF LinksTyped
  <2>2. b \in Nat
    <3>1. p - 1 \in 0 .. Len(bus)
      BY BusFacts
    <3>2. LinksTo(k, bus)[p - 1] \in Seq(Nat)
      BY <3>1, LinksToFacts
    <3> QED
      BY <3>2
  <2>3. l = a + b
    BY DEF LinkOf
  <2> HIDE DEF a, b
  <2> QED
    BY <2>1, <2>2, <2>3
<1>3. s = [c \in 1 .. m |-> [dev |-> k, link |-> l, chan |-> c - 1,
                              enabled |-> 1, clipped |-> 0]]
  BY DEF PortsOf
<1> HIDE DEF m, l, k, s
<1>4. \A c \in 1 .. m : c - 1 \in 0 .. 7
  BY <1>1
<1>5. s \in [1 .. m -> Port]
  BY <1>1, <1>2, <1>3, <1>4 DEF Port
<1>6. s \in Seq(Port) /\ Len(s) = m
  BY <1>1, <1>5
<1>7. \A c \in 1 .. m : Names(s[c], k, l, c - 1)
  BY <1>3 DEF Names
<1> QED
  BY <1>6, <1>7 DEF m, l, k, s

LEMMA PortsToFacts ==
  ASSUME LinksTyped, NEW ty \in Types, NEW bus \in BusesAll
  PROVE  /\ PortsTo(ty, bus)[0] = << >>
         /\ \A p \in 1 .. Len(bus) :
              PortsTo(ty, bus)[p] = PortsTo(ty, bus)[p - 1] \o PortsOf(ty, bus, p)
         /\ \A p \in 0 .. Len(bus) : PortsTo(ty, bus)[p] \in Seq(Port)
<1> DEFINE n == Len(bus)
           Next(x, p) == x \o PortsOf(ty, bus, p)
           Is(f) == f = [p \in 0 .. n |-> IF p = 0 THEN << >> ELSE Next(f[p - 1], p)]
           g == [xp \in Seq(Port) \X (1 .. n) |-> Next(xp[1], xp[2])]
<1>1. n \in Nat
  BY BusFacts
<1>2. ASSUME NEW x \in Seq(Port), NEW p \in 1 .. n PROVE Next(x, p) \in Seq(Port)
  <2>1. PortsOf(ty, bus, p) \in Seq(Port)
    BY PortsOfFacts
  <2> QED
    BY <2>1, ConcatProperties
<1> HIDE DEF n
<1>3. << >> \in Seq(Port)
  OBVIOUS
<1> HIDE DEF Next
<1>4. g \in [Seq(Port) \X (1 .. n) -> Seq(Port)]
  BY <1>1, <1>2
<1>5. \A x \in Seq(Port), p \in 1 .. n : g[<< x, p >>] = Next(x, p)
  OBVIOUS
<1> HIDE DEF g
<1>6. PICK f \in [0 .. n -> Seq(Port)] : Follow(f, << >>, g, n)
  BY <1>1, <1>3, <1>4, Recursion
<1>7. \A p \in 0 .. n : f[p] = IF p = 0 THEN << >> ELSE Next(f[p - 1], p)
  <2> SUFFICES ASSUME NEW p \in 0 .. n, p # 0 PROVE f[p] = Next(f[p - 1], p)
    BY <1>6 DEF Follow
  <2>1. p \in 1 .. n /\ p - 1 \in 0 .. n
    BY <1>1
  <2> QED
    BY <1>5, <1>6, <2>1 DEF Follow
<1>8. Is(f)
  BY <1>6, <1>7
<1>9. PortsTo(ty, bus) = CHOOSE h : Is(h)
  BY DEF PortsTo, Next, n
<1> DEFINE c == PortsTo(ty, bus)
<1>10. c = [p \in 0 .. n |-> IF p = 0 THEN << >> ELSE Next(c[p - 1], p)]
  BY <1>8, <1>9
<1> HIDE DEF c, Is
<1>11. c[0] = << >> /\ \A p \in 1 .. n : c[p] = Next(c[p - 1], p)
  <2>1. 0 \in 0 .. n /\ \A p \in 1 .. n : p \in 0 .. n /\ p # 0
    BY <1>1
  <2> QED
    BY <1>10, <2>1
<1> DEFINE S == {p \in 0 .. n : c[p] \in Seq(Port)}
<1>12. 0 .. n \subseteq S
  <2>1. 0 \in S
    <3>1. c[0] \in Seq(Port)
      BY <1>3, <1>11, Zenon
    <3>2. 0 \in 0 .. n
      BY <1>1
    <3> QED
      BY <3>1, <3>2
  <2>2. ASSUME NEW i \in 0 .. n - 1, i \in S PROVE i + 1 \in S
    <3> DEFINE j == i + 1
    <3>1. j \in 1 .. n /\ j \in 0 .. n /\ j - 1 = i
      BY <1>1
    <3> HIDE DEF j
    <3>2. c[j] = Next(c[i], j)
      BY <1>11, <3>1
    <3>3. Next(c[i], j) \in Seq(Port)
      BY <1>2, <2>2, <3>1
    <3>4. j \in S
      BY <3>1, <3>2, <3>3
    <3> QED
      BY <3>4 DEF j
  <2> HIDE DEF S
  <2> QED
    BY <1>1, <2>1, <2>2, Induct
<1>13. \A p \in 1 .. n : c[p] = c[p - 1] \o PortsOf(ty, bus, p)
  BY <1>11 DEF Next
<1>14. \A p \in 0 .. n : c[p] \in Seq(Port)
  BY <1>12
<1> QED
  BY <1>11, <1>13, <1>14 DEF c, n

\* Entry i of the table of the first q slaves is that of channel c of slave p.
EntryOf(ty, bus, table, q, i, p, c) ==
  /\ p \in 1 .. q /\ c \in 0 .. NChan(ty, bus[p]) - 1
  /\ i = ChannelsTo(ty, bus)[p - 1] + c + 1
  /\ Names(table[i], bus[p], LinkOf(bus, p), c)

LEMMA TableFacts ==
  ASSUME LinksTyped, NEW ty \in Types, NEW bus \in BusesAll
  PROVE  \A q \in 0 .. Len(bus) :
           /\ Len(PortsTo(ty, bus)[q]) = ChannelsTo(ty, bus)[q]
           /\ \A i \in 1 .. Len(PortsTo(ty, bus)[q]) : \E p, c :
                EntryOf(ty, bus, PortsTo(ty, bus)[q], q, i, p, c)
<1> DEFINE n == Len(bus)
           T == PortsTo(ty, bus)
           F == ChannelsTo(ty, bus)
           Entry(q, i, p, c) == EntryOf(ty, bus, T[q], q, i, p, c)
           Holds(q) == /\ Len(T[q]) = F[q]
                       /\ \A i \in 1 .. Len(T[q]) : \E p, c : Entry(q, i, p, c)
           S == {q \in 0 .. n : Holds(q)}
<1>1. /\ n \in Nat
      /\ T[0] = << >> /\ \A p \in 1 .. n : T[p] = T[p - 1] \o PortsOf(ty, bus, p)
      /\ \A p \in 0 .. n : T[p] \in Seq(Port)
      /\ F[0] = 0 /\ \A p \in 1 .. n : F[p] = F[p - 1] + NChan(ty, bus[p])
      /\ F \in [0 .. n -> Nat]
  BY BusFacts, PortsToFacts, ChannelsToFacts
<1>2. ASSUME NEW p \in 1 .. n
      PROVE  /\ PortsOf(ty, bus, p) \in Seq(Port)
             /\ Len(PortsOf(ty, bus, p)) = NChan(ty, bus[p]) /\ NChan(ty, bus[p]) \in Nat
             /\ \A c \in 1 .. NChan(ty, bus[p]) :
                  Names(PortsOf(ty, bus, p)[c], bus[p], LinkOf(bus, p), c - 1)
  <2>1. bus[p] \in Kinds
    BY BusFacts
  <2>2. NChan(ty, bus[p]) \in Nat
    BY <2>1, NChanType
  <2> QED
    BY <2>2, PortsOfFacts
<1> HIDE DEF n, T, F
<1>3. 0 \in S
  <2>1. Len(T[0]) = 0
    BY <1>1
  <2>2. Holds(0)
    BY <1>1, <2>1
  <2> HIDE DEF Holds
  <2> QED
    BY <1>1, <2>2
<1>4. ASSUME NEW q \in 0 .. n - 1, q \in S PROVE q + 1 \in S
  <2> DEFINE j == q + 1
             old == T[q]
             new == PortsOf(ty, bus, j)
             m == NChan(ty, bus[j])
             k == bus[j]
             l == LinkOf(bus, j)
             all == T[j]
  <2>1. j \in 1 .. n /\ j \in 0 .. n /\ q \in 0 .. n /\ j - 1 = q
    BY <1>1
  <2> HIDE DEF j
  <2>2. /\ old \in Seq(Port) /\ new \in Seq(Port) /\ all = old \o new
        /\ Len(new) = m /\ m \in Nat
    BY <1>1, <1>2, <2>1
  <2>3. \A c \in 1 .. m : Names(new[c], k, l, c - 1)
    BY <1>2, <2>1
  <2>4. Len(old) = F[q] /\ F[j] = F[q] + m /\ F[q] \in Nat
    BY <1>1, <1>4, <2>1
  <2>5. \A i \in 1 .. Len(old) : \E p, c : Entry(q, i, p, c)
    BY <1>4
  <2> HIDE DEF old, new, m, k, l, all
  <2>6. /\ Len(all) = Len(old) + m /\ Len(old) \in Nat
        /\ \A i \in 1 .. Len(old) + m : all[i] = IF i <= Len(old) THEN old[i]
                                                 ELSE new[i - Len(old)]
    <3>1. /\ Len(old \o new) = Len(old) + Len(new)
          /\ \A i \in 1 .. Len(old) + Len(new) :
               (old \o new)[i] = IF i <= Len(old) THEN old[i] ELSE new[i - Len(old)]
      BY <2>2, ConcatProperties, Zenon
    <3>2. Len(old) \in Nat
      BY <2>2
    <3> QED
      BY <2>2, <3>1, <3>2, Zenon
  <2>7. ASSUME NEW i \in 1 .. Len(all) PROVE \E p, c : Entry(j, i, p, c)
    <3>1. CASE i <= Len(old)
      <4>1. i \in 1 .. Len(old) /\ all[i] = old[i]
        BY <2>6, <3>1
      <4>2. PICK p, c : Entry(q, i, p, c)
        BY <2>5, <4>1
      <4>3. p \in 1 .. q => p \in 1 .. j
        BY <2>1
      <4>4. Entry(j, i, p, c)
        BY <4>1, <4>2, <4>3 DEF EntryOf, all, old
      <4> QED
        BY <4>4
    <3>2. CASE ~(i <= Len(old))
      <4> DEFINE d == i - Len(old)
                 c == d - 1
      <4>1. d \in 1 .. m /\ all[i] = new[d]
        <5>1. i \in 1 .. Len(old) + m
          BY <2>6
        <5>2. all[i] = new[d]
          BY <2>6, <3>2, <5>1
        <5> QED
          BY <2>2, <2>6, <3>2, <5>1, <5>2
      <4>2. c \in 0 .. m - 1 /\ i = F[q] + c + 1
        BY <2>2, <2>4, <2>6, <3>2
      <4> HIDE DEF d
      <4>3. Names(new[d], k, l, c)
        BY <2>3, <4>1
      <4> HIDE DEF c
      <4>4. j \in 1 .. j
        BY <2>1
      <4>5. Entry(j, i, j, c)
        BY <2>1, <4>1, <4>2, <4>3, <4>4 DEF EntryOf, F, k, l, m, all
      <4> QED
        BY <4>5
    <3> QED
      BY <3>1, <3>2
  <2>8. Len(all) = F[j]
    BY <2>4, <2>6
  <2>9. Holds(j)
    BY <2>7, <2>8 DEF all
  <2> HIDE DEF Holds
  <2>10. j \in S
    BY <2>1, <2>9
  <2> QED
    BY <2>10 DEF j
<1>5. 0 .. n \subseteq S
  <2> HIDE DEF S
  <2> QED
    BY <1>1, <1>3, <1>4, Induct
<1>6. \A q \in 0 .. n : Holds(q)
  BY <1>5
<1> QED
  BY <1>6 DEF n, T, F

----------------------------------------------------------------------------
(* The channels on the bus, counted. *)

\* Those of the first q slaves, and the first m of slave p.
Chans(ty, bus, q) == {pc \in (1 .. q) \X (0 .. 7) : pc[2] < NChan(ty, bus[pc[1]])}
Row(p, m) == {p} \X (0 .. m - 1)

LEMMA RowSize ==
  ASSUME NEW p, NEW m \in Nat
  PROVE  IsFiniteSet(Row(p, m)) /\ Cardinality(Row(p, m)) = m
<1> DEFINE z == 0
           l == m - 1
<1>1. z \in Int /\ l \in Int /\ (IF z > l THEN 0 ELSE l - z + 1) = m
  OBVIOUS
<1> HIDE DEF z, l
<1>2. IsFiniteSet(z .. l) /\ Cardinality(z .. l) = m
  BY <1>1, FS_Interval
<1>3. IsFiniteSet({p}) /\ Cardinality({p}) = 1
  BY FS_Singleton
<1>4. IsFiniteSet({p} \X (z .. l)) /\ Cardinality({p} \X (z .. l)) = 1 * m
  BY <1>2, <1>3, FS_Product
<1>5. 1 * m = m
  OBVIOUS
<1> QED
  BY <1>4, <1>5 DEF Row, z, l

\* A row after the channels of the first q slaves.
LEMMA RowAdds ==
  ASSUME NEW C, NEW p, NEW m \in Nat, IsFiniteSet(C), C \cap Row(p, m) = {}
  PROVE  /\ IsFiniteSet(C \cup Row(p, m))
         /\ Cardinality(C \cup Row(p, m)) = Cardinality(C) + m
<1>1. IsFiniteSet(Row(p, m)) /\ Cardinality(Row(p, m)) = m
  BY RowSize
<1>2. /\ IsFiniteSet(C \cup Row(p, m))
      /\ Cardinality(C \cup Row(p, m))
           = Cardinality(C) + Cardinality(Row(p, m)) - Cardinality(C \cap Row(p, m))
  BY <1>1, FS_Union
<1>3. Cardinality(C \cap Row(p, m)) = 0
  BY FS_EmptySet
<1>4. Cardinality(C) \in Nat
  BY FS_CardinalityType
<1> QED
  BY <1>1, <1>2, <1>3, <1>4

LEMMA ChansApart ==
  ASSUME NEW ty, NEW bus, NEW q \in Nat, NEW m \in Nat
  PROVE  Chans(ty, bus, q) \cap Row(q + 1, m) = {}
BY DEF Chans, Row

LEMMA ChansSize ==
  ASSUME NEW ty \in Types, NEW bus \in BusesAll
  PROVE  \A q \in 0 .. Len(bus) :
           /\ IsFiniteSet(Chans(ty, bus, q))
           /\ Cardinality(Chans(ty, bus, q)) = ChannelsTo(ty, bus)[q]
<1> DEFINE n == Len(bus)
           F == ChannelsTo(ty, bus)
           C(q) == Chans(ty, bus, q)
           Holds(q) == IsFiniteSet(C(q)) /\ Cardinality(C(q)) = F[q]
           S == {q \in 0 .. n : Holds(q)}
<1>1. n \in Nat /\ F[0] = 0 /\ \A p \in 1 .. n : F[p] = F[p - 1] + NChan(ty, bus[p])
  BY BusFacts, ChannelsToFacts
<1>2. \A p \in 1 .. n : NChan(ty, bus[p]) \in 0 .. 8
  <2>1. \A p \in 1 .. n : bus[p] \in Kinds
    BY BusFacts
  <2> QED
    BY <2>1, NChanType
<1> HIDE DEF n, F
<1>3. 0 \in S
  <2>1. C(0) = {}
    BY DEF Chans
  <2>2. Holds(0)
    BY <1>1, <2>1, FS_EmptySet
  <2> HIDE DEF Holds
  <2> QED
    BY <1>1, <2>2
<1>4. ASSUME NEW q \in 0 .. n - 1, q \in S PROVE q + 1 \in S
  <2> DEFINE j == q + 1
             m == NChan(ty, bus[j])
  <2>1. j \in 1 .. n /\ j \in 0 .. n /\ j - 1 = q /\ q \in Nat
    BY <1>1
  <2>2. m \in 0 .. 8
    BY <1>2, <2>1
  <2>3. C(j) = C(q) \cup Row(j, m)
    <3>1. ASSUME NEW o \in C(j) PROVE o \in C(q) \/ o \in Row(j, m)
      <4>1. /\ o = << o[1], o[2] >> /\ o[1] \in 1 .. j /\ o[2] \in 0 .. 7
            /\ o[2] < NChan(ty, bus[o[1]])
        BY <3>1 DEF Chans
      <4>2. CASE o[1] = j
        <5>1. o[2] \in 0 .. m - 1
          BY <2>2, <4>1, <4>2
        <5> QED
          BY <4>1, <4>2, <5>1 DEF Row
      <4>3. CASE o[1] # j
        <5>1. o[1] \in 1 .. q
          BY <2>1, <4>1, <4>3
        <5> QED
          BY <4>1, <5>1 DEF Chans
      <4> QED
        BY <4>2, <4>3
    <3>2. ASSUME NEW o \in C(q) PROVE o \in C(j)
      <4>1. \A x \in 1 .. q : x \in 1 .. j
        BY <2>1
      <4> QED
        BY <3>2, <4>1 DEF Chans
    <3>3. ASSUME NEW o \in Row(j, m) PROVE o \in C(j)
      <4>1. PICK d \in 0 .. m - 1 : o = << j, d >>
        BY <3>3 DEF Row
      <4>2. d \in 0 .. 7 /\ d < m /\ j \in 1 .. j
        BY <2>1, <2>2, <4>1
      <4> QED
        BY <4>1, <4>2 DEF Chans
    <3> QED
      BY <3>1, <3>2, <3>3
  <2>4. C(q) \cap Row(j, m) = {}
    <3>1. m \in Nat
      BY <2>2
    <3> HIDE DEF m
    <3> QED
      BY <2>1, <3>1, ChansApart
  <2>5. F[j] = F[q] + m
    BY <1>1, <2>1
  <2>6. Holds(q)
    BY <1>4
  <2>7. m \in Nat
    BY <2>2
  <2> HIDE DEF j, m, C
  <2>8. Holds(j)
    BY <2>3, <2>4, <2>5, <2>6, <2>7, RowAdds
  <2> HIDE DEF Holds
  <2>9. j \in S
    BY <2>1, <2>8
  <2> QED
    BY <2>9 DEF j
<1>5. 0 .. n \subseteq S
  <2> HIDE DEF S
  <2> QED
    BY <1>1, <1>3, <1>4, Induct
<1>6. \A q \in 0 .. n : Holds(q)
  BY <1>5
<1> QED
  BY <1>6 DEF n, F

\* A channel's number is that of its port.
LEMMA RankIs ==
  ASSUME epBus \in BusesAll, NEW ty \in Types, NEW p \in 1 .. Len(epBus),
         NEW c \in 0 .. NChan(ty, epBus[p]) - 1
  PROVE  /\ << p, c >> \in ChannelsOf(ty)
         /\ Rank(ty, << p, c >>) = ChannelsTo(ty, epBus)[p - 1] + c
<1> DEFINE n == Len(epBus)
           m == NChan(ty, epBus[p])
           q == p - 1
           C == Chans(ty, epBus, q)
           R == {o \in ChannelsOf(ty) : o[1] < p \/ (o[1] = p /\ o[2] < c)}
<1>1. n \in Nat /\ q \in 0 .. n /\ q \in Nat /\ p = q + 1 /\ c \in Nat /\ m \in 0 .. 8
  <2>1. n \in Nat /\ epBus[p] \in Kinds
    BY BusFacts
  <2>2. m \in 0 .. 8
    BY <2>1, NChanType
  <2> QED
    BY <2>1, <2>2
<1>2. c \in 0 .. 7 /\ c < m
  BY <1>1
<1>3. << p, c >> \in ChannelsOf(ty)
  BY <1>2 DEF ChannelsOf
<1>4. R = C \cup Row(p, c)
  <2>1. ASSUME NEW o \in R PROVE o \in C \/ o \in Row(p, c)
    <3>1. /\ o = << o[1], o[2] >> /\ o[1] \in 1 .. n /\ o[2] \in 0 .. 7
          /\ o[2] < NChan(ty, epBus[o[1]])
      BY <2>1 DEF ChannelsOf
    <3>2. CASE o[1] < p
      <4>1. o[1] \in 1 .. q
        BY <1>1, <3>1, <3>2
      <4> QED
        BY <3>1, <4>1 DEF Chans
    <3>3. CASE o[1] = p /\ o[2] < c
      <4>1. o[2] \in 0 .. c - 1
        BY <1>1, <3>1, <3>3
      <4> QED
        BY <3>1, <3>3, <4>1 DEF Row
    <3> QED
      BY <2>1, <3>2, <3>3
  <2>2. ASSUME NEW o \in C PROVE o \in R
    <3>1. /\ o \in (1 .. q) \X (0 .. 7) /\ o[1] \in 1 .. q
          /\ o[2] < NChan(ty, epBus[o[1]]) /\ o[2] \in 0 .. 7 /\ o = << o[1], o[2] >>
      BY <2>2 DEF Chans
    <3>2. o[1] \in 1 .. n /\ o[1] < p
      BY <1>1, <3>1
    <3> QED
      BY <3>1, <3>2 DEF ChannelsOf
  <2>3. ASSUME NEW o \in Row(p, c) PROVE o \in R
    <3>1. PICK d \in 0 .. c - 1 : o = << p, d >>
      BY <2>3 DEF Row
    <3>2. d \in 0 .. 7 /\ d < m /\ d < c
      BY <1>1, <1>2, <3>1
    <3> QED
      BY <3>1, <3>2 DEF ChannelsOf
  <2> HIDE DEF R, C
  <2> QED
    BY <2>1, <2>2, <2>3
<1>5. IsFiniteSet(C) /\ Cardinality(C) = ChannelsTo(ty, epBus)[q]
  BY <1>1, ChansSize
<1>6. C \cap Row(p, c) = {}
  BY <1>1, ChansApart
<1>7. Rank(ty, << p, c >>) = Cardinality(R)
  BY DEF Rank
<1> HIDE DEF C, R
<1>8. Cardinality(C \cup Row(p, c)) = Cardinality(C) + c
  BY <1>1, <1>5, <1>6, RowAdds
<1> QED
  BY <1>3, <1>4, <1>5, <1>7, <1>8

(***************************************************************************)
(* The invariant: entry i of a type's table that is not empty stands for   *)
(* channel c of slave p, whose number on the bus is i - 1, and its link    *)
(* leads to slave p.                                                       *)
(***************************************************************************)
EpTypes ==
  /\ epBus \in BusesAll /\ LinksTyped /\ epTable \in [Types -> Seq(Port)]
  /\ epState = "op" => \A ty \in Types :
       Len(epTable[ty]) = epCount[ty] /\ epCount[ty] = ChannelsTo(ty, epBus)[Len(epBus)]

Leads(port, p, c) ==
  /\ port.dev = epBus[p] /\ port.chan = c
  /\ port.link < Len(epLinks[epBus[p]]) /\ epLinks[epBus[p]][port.link + 1] = p

Numbered(ty, i, p, c) ==
  /\ p \in 1 .. Len(epBus) /\ c \in 0 .. NChan(ty, epBus[p]) - 1
  /\ i = ChannelsTo(ty, epBus)[p - 1] + c + 1

Resolved(ty) ==
  epTable[ty] # << >> =>
    /\ Len(epTable[ty]) = epCount[ty] /\ epCount[ty] = ChannelsTo(ty, epBus)[Len(epBus)]
    /\ \A i \in 1 .. Len(epTable[ty]) : \E p, c :
         Numbered(ty, i, p, c) /\ Leads(epTable[ty][i], p, c)

EpInv == EpTypes /\ (\A ty \in Types : Resolved(ty)) /\ PwmLands

LEMMA InitPorts == EpInit => EpInv
<1> SUFFICES ASSUME EpInit PROVE EpInv
  OBVIOUS
<1>1. /\ epBus = << >> /\ epState = "closed" /\ epLinks = [k \in Kinds |-> << >>]
      /\ epTable = [ty \in Types |-> << >>] /\ epWritten = {}
  BY DEF EpInit
<1>2. epBus \in BusesAll
  BY <1>1 DEF BusesAll
<1>3. LinksTyped
  BY <1>1 DEF LinksTyped
<1>4. epTable \in [Types -> Seq(Port)]
  BY <1>1
<1>5. EpTypes
  BY <1>1, <1>2, <1>3, <1>4 DEF EpTypes
<1>6. \A ty \in Types : Resolved(ty)
  BY <1>1 DEF Resolved
<1>7. PwmLands
  BY <1>1 DEF PwmLands
<1> QED
  BY <1>5, <1>6, <1>7 DEF EpInv

\* A port stands for its channel.
LEMMA PlaceIs ==
  ASSUME EpTypes, NEW ty \in Types, NEW i, NEW p, NEW c, Numbered(ty, i, p, c),
         NEW port \in Port, Leads(port, p, c)
  PROVE  /\ Place(ty, port) = << p, c >>
         /\ << p, c >> \in ChannelsOf(ty) /\ Rank(ty, << p, c >>) = i - 1
<1>1. /\ epBus \in BusesAll /\ p \in 1 .. Len(epBus) /\ c \in 0 .. NChan(ty, epBus[p]) - 1
      /\ i = ChannelsTo(ty, epBus)[p - 1] + c + 1
  BY DEF EpTypes, Numbered
<1>2. /\ port.dev = epBus[p] /\ port.chan = c
      /\ port.link < Len(epLinks[port.dev]) /\ epLinks[port.dev][port.link + 1] = p
  BY DEF Leads
<1>3. port.chan < NChan(ty, port.dev)
  <2> DEFINE m == NChan(ty, epBus[p])
  <2>1. m \in 0 .. 8
    <3>1. epBus[p] \in Kinds
      BY <1>1, BusFacts
    <3> QED
      BY <3>1, NChanType
  <2>2. c \in 0 .. m - 1
    BY <1>1
  <2> HIDE DEF m
  <2>3. c < m
    BY <2>1, <2>2
  <2> QED
    BY <1>2, <2>3 DEF m
<1>4. Place(ty, port) = << p, c >>
  BY <1>2, <1>3 DEF Place
<1>5. << p, c >> \in ChannelsOf(ty) /\ Rank(ty, << p, c >>) = ChannelsTo(ty, epBus)[p - 1] + c
  BY <1>1, RankIs
<1>6. ChannelsTo(ty, epBus)[p - 1] \in Nat /\ c \in Nat
  <2>1. p - 1 \in 0 .. Len(epBus)
    BY <1>1, BusFacts
  <2>2. ChannelsTo(ty, epBus) \in [0 .. Len(epBus) -> Nat]
    BY <1>1, ChannelsToFacts
  <2> QED
    BY <1>1, <2>1, <2>2
<1>7. Rank(ty, << p, c >>) = i - 1
  BY <1>1, <1>5, <1>6
<1> QED
  BY <1>4, <1>5, <1>7

LEMMA InvPorts == EpInv => PortsResolve
<1> SUFFICES ASSUME EpInv, NEW ty \in Types, epTable[ty] # << >>
             PROVE  /\ Len(epTable[ty]) = epCount[ty]
                    /\ epCount[ty] = Cardinality(ChannelsOf(ty))
                    /\ \A i \in DOMAIN epTable[ty] :
                         LET place == Place(ty, epTable[ty][i])
                         IN place \in ChannelsOf(ty) /\ Rank(ty, place) = i - 1
  BY DEF PortsResolve
<1>1. EpTypes /\ Resolved(ty)
  BY DEF EpInv
<1>2. epTable[ty] \in Seq(Port) /\ epBus \in BusesAll
  BY <1>1 DEF EpTypes
<1>3. epCount[ty] = Cardinality(ChannelsOf(ty))
  <2>1. Len(epBus) \in 0 .. Len(epBus)
    BY <1>2, BusFacts
  <2>2. Cardinality(Chans(ty, epBus, Len(epBus))) = ChannelsTo(ty, epBus)[Len(epBus)]
    BY <1>2, <2>1, ChansSize
  <2>3. ChannelsOf(ty) = Chans(ty, epBus, Len(epBus))
    BY DEF ChannelsOf, Chans
  <2> QED
    BY <1>1, <2>2, <2>3 DEF Resolved
<1>4. ASSUME NEW i \in DOMAIN epTable[ty]
      PROVE  /\ Place(ty, epTable[ty][i]) \in ChannelsOf(ty)
             /\ Rank(ty, Place(ty, epTable[ty][i])) = i - 1
  <2>1. i \in 1 .. Len(epTable[ty]) /\ epTable[ty][i] \in Port
    BY <1>2
  <2>2. PICK p, c : Numbered(ty, i, p, c) /\ Leads(epTable[ty][i], p, c)
    BY <1>1, <2>1 DEF Resolved
  <2> DEFINE port == epTable[ty][i]
  <2>3. port \in Port /\ Leads(port, p, c)
    BY <2>1, <2>2
  <2> HIDE DEF port
  <2>4. /\ Place(ty, port) = << p, c >>
        /\ << p, c >> \in ChannelsOf(ty) /\ Rank(ty, << p, c >>) = i - 1
    BY <1>1, <2>2, <2>3, PlaceIs
  <2>5. Place(ty, port) \in ChannelsOf(ty) /\ Rank(ty, Place(ty, port)) = i - 1
    BY <2>4
  <2> QED
    BY <2>5 DEF port
<1> QED
  BY <1>1, <1>3, <1>4 DEF Resolved

----------------------------------------------------------------------------
(* The steps. *)

\* ec_start finds the slaves: their links lead back to them.
LEMMA LinksLead ==
  ASSUME LinksTyped, NEW bus \in BusesAll, NEW p \in 1 .. Len(bus), bus[p] # "unknown"
  PROVE  /\ LinkOf(bus, p) < Len(AddLinks(bus)[bus[p]])
         /\ AddLinks(bus)[bus[p]][LinkOf(bus, p) + 1] = p
<1> DEFINE k == bus[p]
           n == Len(bus)
           L == LinksTo(k, bus)
           old == epLinks[k]
           new == L[n]
           before == Len(L[p - 1])
           all == AddLinks(bus)[k]
<1>1. n \in Nat /\ p \in 1 .. n /\ k \in Kinds
  BY BusFacts
<1>2. n \in 0 .. n /\ p - 1 \in 0 .. n
  BY <1>1
<1>3. new \in Seq(Nat) /\ before \in Nat
  <2>1. L[n] \in Seq(Nat) /\ L[p - 1] \in Seq(Nat)
    BY <1>2, LinksToFacts
  <2> HIDE DEF L
  <2> QED
    BY <2>1
<1>4. old \in Seq(Nat)
  BY <1>1 DEF LinksTyped
<1>5. before < Len(new) /\ new[before + 1] = p
  BY <1>1, <1>2, LinksHold
<1>6. all = old \o new
  BY <1>1 DEF AddLinks
<1>7. LinkOf(bus, p) = Len(old) + before
  BY DEF LinkOf
<1> HIDE DEF k, n, L, old, new, before, all
<1>8. /\ Len(old \o new) = Len(old) + Len(new)
      /\ \A i \in 1 .. Len(old) + Len(new) :
           (old \o new)[i] = IF i <= Len(old) THEN old[i] ELSE new[i - Len(old)]
  BY <1>3, <1>4, ConcatProperties, Zenon
<1>9. Len(old) \in Nat /\ Len(new) \in Nat
  BY <1>3, <1>4
<1> DEFINE i == Len(old) + before + 1
<1>10. i \in 1 .. Len(old) + Len(new) /\ ~(i <= Len(old)) /\ i - Len(old) = before + 1
  BY <1>3, <1>5, <1>9
<1> HIDE DEF i
<1>11. all[i] = p
  BY <1>5, <1>6, <1>8, <1>10
<1>12. Len(old) + before < Len(all)
  <2>1. Len(all) = Len(old) + Len(new)
    BY <1>6, <1>8
  <2> QED
    BY <1>3, <1>5, <1>9, <2>1
<1>13. (Len(old) + before) + 1 = i
  BY <1>3, <1>9 DEF i
<1> QED
  BY <1>7, <1>11, <1>12, <1>13 DEF k, all

LEMMA AddLinksTyped ==
  ASSUME LinksTyped, NEW bus \in BusesAll
  PROVE  AddLinks(bus) \in [Kinds -> Seq(Nat)]
<1>1. ASSUME NEW k \in Kinds PROVE epLinks[k] \o LinksTo(k, bus)[Len(bus)] \in Seq(Nat)
  <2> DEFINE old == epLinks[k]
             new == LinksTo(k, bus)[Len(bus)]
  <2>1. old \in Seq(Nat)
    BY DEF LinksTyped
  <2>2. new \in Seq(Nat)
    <3>1. Len(bus) \in 0 .. Len(bus)
      BY BusFacts
    <3> QED
      BY <3>1, LinksToFacts
  <2> HIDE DEF old, new
  <2>3. old \o new \in Seq(Nat)
    BY <2>1, <2>2, ConcatProperties
  <2> QED
    BY <2>3 DEF old, new
<1>2. \A k \in Kinds : epLinks[k] \in Seq(Nat)
  BY DEF LinksTyped
<1> QED
  BY <1>1, <1>2 DEF AddLinks

LEMMA StepStart ==
  ASSUME EpInv, NEW bus \in Buses, NEW up, EpStart(bus, up)
  PROVE  EpInv'
<1> DEFINE n == Len(bus)
<1>1. /\ epBus' = bus /\ epCount' = CountPorts(bus) /\ epLinks' = AddLinks(bus)
      /\ epTable' = [ty \in Types |-> MakeTable(ty, bus)] /\ epWritten' = {}
  BY DEF EpStart
<1>2. bus \in BusesAll /\ LinksTyped
  BY PortsAssumption DEF BusesAll, EpInv, EpTypes
<1>3. n \in 0 .. n
  BY <1>2, BusFacts
<1>4. LinksTyped'
  BY <1>1, <1>2, AddLinksTyped DEF LinksTyped
<1>5. ASSUME NEW ty \in Types
      PROVE  /\ epTable'[ty] \in Seq(Port) /\ Len(epTable'[ty]) = epCount'[ty]
             /\ epCount'[ty] = ChannelsTo(ty, bus)[n]
             /\ \A i \in 1 .. Len(epTable'[ty]) : \E p, c :
                  EntryOf(ty, bus, epTable'[ty], n, i, p, c)
  <2>1. epTable'[ty] = PortsTo(ty, bus)[n]
    BY <1>1 DEF MakeTable
  <2>2. epCount'[ty] = ChannelsTo(ty, bus)[n]
    BY <1>1 DEF CountPorts
  <2>3. PortsTo(ty, bus)[n] \in Seq(Port)
    BY <1>2, <1>3, PortsToFacts
  <2> DEFINE T == PortsTo(ty, bus)[n]
  <2>4. /\ Len(T) = ChannelsTo(ty, bus)[n]
        /\ \A i \in 1 .. Len(T) : \E p, c : EntryOf(ty, bus, T, n, i, p, c)
    BY <1>2, <1>3, TableFacts
  <2> QED
    BY <2>1, <2>2, <2>3, <2>4
<1>6. EpTypes'
  <2>1. epTable' \in [Types -> Seq(Port)]
    BY <1>1, <1>5
  <2> QED
    BY <1>1, <1>2, <1>4, <1>5, <2>1 DEF EpTypes
<1>7. ASSUME NEW ty \in Types, NEW i \in 1 .. Len(epTable'[ty])
      PROVE  \E p, c : Numbered(ty, i, p, c)' /\ Leads(epTable[ty][i], p, c)'
  <2>1. PICK p, c : EntryOf(ty, bus, epTable'[ty], n, i, p, c)
    BY <1>5
  <2> DEFINE port == epTable'[ty][i]
             l == LinkOf(bus, p)
  <2>2. /\ p \in 1 .. n /\ c \in 0 .. NChan(ty, bus[p]) - 1
        /\ i = ChannelsTo(ty, bus)[p - 1] + c + 1
        /\ port.dev = bus[p] /\ port.link = l /\ port.chan = c
    BY <2>1 DEF EntryOf, Names
  <2>3. bus[p] # "unknown"
    <3>1. NChan(ty, "unknown") = 0
      <4>1. "unknown" \in Kinds
        BY DEF Kinds
      <4> QED
        BY <4>1, NChanType
    <3> QED
      BY <2>2, <3>1
  <2>4. l < Len(epLinks'[bus[p]]) /\ epLinks'[bus[p]][l + 1] = p
    BY <1>1, <1>2, <2>2, <2>3, LinksLead
  <2>5. Numbered(ty, i, p, c)'
    BY <1>1, <2>2 DEF Numbered
  <2> HIDE DEF l
  <2>6. Leads(epTable[ty][i], p, c)'
    BY <1>1, <2>2, <2>4 DEF Leads
  <2> QED
    BY <2>5, <2>6
<1>8. ASSUME NEW ty \in Types PROVE Resolved(ty)'
  BY <1>1, <1>5, <1>7 DEF Resolved
<1>9. PwmLands'
  BY <1>1 DEF PwmLands
<1> QED
  BY <1>6, <1>8, <1>9 DEF EpInv

\* ec_start that fails, ec_stop: what is not freed stays.
LEMMA StepStartFails == ASSUME EpInv, EpStartFails PROVE EpInv'
<1>1. /\ epBus' = epBus /\ epCount' = epCount /\ epLinks' = epLinks /\ epTable' = epTable
      /\ epWritten' = epWritten /\ epState' = "failed"
  BY DEF EpStartFails
<1>2. EpTypes'
  BY <1>1 DEF EpInv, EpTypes, LinksTyped
<1>3. ASSUME NEW ty \in Types PROVE Resolved(ty)'
  <2>1. Resolved(ty)
    BY DEF EpInv
  <2> QED
    BY <1>1, <2>1 DEF Resolved, Numbered, Leads
<1>4. PwmLands'
  BY <1>1 DEF EpInv, PwmLands, BoxOutputs, ChannelsOf, Rank, EpStartFails
<1> QED
  BY <1>2, <1>3, <1>4 DEF EpInv

\* ec_start that overruns: the tables are as they were, and nothing is said of them.
LEMMA StepOverruns == ASSUME EpInv, NEW bus, EpStartOverruns(bus) PROVE EpInv'
<1>1. /\ epBus' = epBus /\ epCount' = epCount /\ epLinks' = epLinks /\ epTable' = epTable
      /\ epState' = "overrun"
  BY DEF EpStartOverruns
<1>2. EpTypes'
  BY <1>1 DEF EpInv, EpTypes, LinksTyped
<1>3. ASSUME NEW ty \in Types PROVE Resolved(ty)'
  <2>1. Resolved(ty)
    BY DEF EpInv
  <2> QED
    BY <1>1, <2>1 DEF Resolved, Numbered, Leads
<1>4. PwmLands'
  BY <1>1 DEF PwmLands
<1> QED
  BY <1>2, <1>3, <1>4 DEF EpInv

LEMMA StepStop == ASSUME EpInv, EpStop PROVE EpInv'
<1>1. /\ epBus' = epBus /\ epLinks' = epLinks /\ epTable' = [ty \in Types |-> << >>]
      /\ epWritten' = epWritten /\ epState' = "closed"
  BY DEF EpStop
<1>2. EpTypes'
  <2>1. epTable' \in [Types -> Seq(Port)]
    BY <1>1
  <2> QED
    BY <1>1, <2>1 DEF EpInv, EpTypes, LinksTyped
<1>3. ASSUME NEW ty \in Types PROVE Resolved(ty)'
  BY <1>1 DEF Resolved
<1>4. PwmLands'
  BY <1>1 DEF EpInv, EpStop, PwmLands, BoxOutputs, ChannelsOf, Rank
<1> QED
  BY <1>2, <1>3, <1>4 DEF EpInv

\* What a write does not touch.
Wired == << epBus, epState, epCount, epLinks, epTable >>

LEMMA WiredKept ==
  ASSUME EpInv, Wired' = Wired
  PROVE  /\ EpTypes' /\ (\A ty \in Types : Resolved(ty)')
         /\ (epWritten' = epWritten => PwmLands')
<1>1. /\ epBus' = epBus /\ epState' = epState /\ epCount' = epCount /\ epLinks' = epLinks
      /\ epTable' = epTable
  BY DEF Wired
<1>2. EpTypes'
  BY <1>1 DEF EpInv, EpTypes, LinksTyped
<1>3. ASSUME NEW ty \in Types PROVE Resolved(ty)'
  <2>1. Resolved(ty)
    BY DEF EpInv
  <2> QED
    BY <1>1, <2>1 DEF Resolved, Numbered, Leads
<1>4. epWritten' = epWritten => PwmLands'
  BY <1>1 DEF EpInv, PwmLands, BoxOutputs, ChannelsOf, Rank
<1> QED
  BY <1>2, <1>3, <1>4

\* A write to another type of port is no write to a pwm port.
LEMMA OtherWrite ==
  ASSUME EpInv, Wired' = Wired, NEW ty \in {"dac", "dout"}, NEW i, NEW place, NEW value,
         Write(ty, i, place, value)
  PROVE  EpInv'
<1>1. epWritten' = {[type |-> ty, port |-> i, place |-> place, value |-> value]}
  BY DEF Write
<1>2. \A w \in epWritten' : w.type # "pwm"
  BY <1>1
<1>3. PwmLands'
  BY <1>2 DEF PwmLands
<1> QED
  BY <1>3, WiredKept DEF EpInv

LEMMA StepDacWrite ==
  ASSUME EpInv, NEW i, NEW v, EpDacWrite(i, v)
  PROVE  EpInv'
<1>1. Wired' = Wired
  BY DEF EpDacWrite, Wired
<1> DEFINE place == Place("dac", epTable["dac"][i])
<1>2. Write("dac", i, place, ToDac(v))
  BY DEF EpDacWrite
<1> HIDE DEF place
<1> QED
  BY <1>1, <1>2, OtherWrite

LEMMA StepDoutWrite ==
  ASSUME EpInv, NEW i, NEW v, EpDoutWrite(i, v)
  PROVE  EpInv'
<1>1. Wired' = Wired
  BY DEF EpDoutWrite, Wired
<1>2. PICK d \in DacEntries(i) :
        Write("dout", i, Place("dout", [dev |-> epTable["dout"][i].dev, link |-> d.link,
                                        chan |-> d.chan]), v)
  BY DEF EpDoutWrite
<1> DEFINE place == Place("dout", [dev |-> epTable["dout"][i].dev, link |-> d.link,
                                   chan |-> d.chan])
<1>3. Write("dout", i, place, v)
  BY <1>2
<1> HIDE DEF place
<1> QED
  BY <1>1, <1>3, OtherWrite

\* Where only E-boxes have outputs, a slave has as many DACs as pwm channels, no more
\* than digital outputs, and is an E-box if it has any.
LEMMA BoxChannels ==
  ASSUME EpTypes, BoxOutputs, NEW p \in 1 .. Len(epBus)
  PROVE  /\ NChan("pwm", epBus[p]) = NChan("dac", epBus[p])
         /\ NChan("pwm", epBus[p]) <= NChan("dout", epBus[p])
         /\ (NChan("dout", epBus[p]) # 0 \/ NChan("dac", epBus[p]) # 0) => epBus[p] = "Ebox"
<1>1. epBus[p] \notin {"EL2004", "EL2008", "EL4132", "EL4038"}
  BY DEF BoxOutputs
<1> DEFINE k == epBus[p]
<1>2. NChan("pwm", k) = IF k = "Ebox" THEN 2 ELSE 0
  BY DEF NChan
<1>3. NChan("dac", k) = IF k = "Ebox" THEN 2 ELSE 0
  BY <1>1 DEF NChan
<1>4. NChan("dout", k) = IF k = "Ebox" THEN 8 ELSE 0
  BY <1>1 DEF NChan
<1> HIDE DEF k
<1>5. /\ NChan("pwm", k) = NChan("dac", k) /\ NChan("pwm", k) <= NChan("dout", k)
      /\ (NChan("dout", k) # 0 \/ NChan("dac", k) # 0) => k = "Ebox"
  BY <1>2, <1>3, <1>4
<1> QED
  BY <1>5 DEF k

\* The size of a table.
LEMMA TableSize ==
  ASSUME EpTypes, epState = "op", NEW ty \in Types
  PROVE  /\ Len(epTable[ty]) = Cardinality(ChannelsOf(ty)) /\ IsFiniteSet(ChannelsOf(ty))
         /\ epTable[ty] \in Seq(Port)
<1>1. /\ epBus \in BusesAll /\ epTable[ty] \in Seq(Port)
      /\ Len(epTable[ty]) = ChannelsTo(ty, epBus)[Len(epBus)]
  BY DEF EpTypes
<1>2. Len(epBus) \in 0 .. Len(epBus)
  BY <1>1, BusFacts
<1>3. /\ Cardinality(Chans(ty, epBus, Len(epBus))) = ChannelsTo(ty, epBus)[Len(epBus)]
      /\ IsFiniteSet(Chans(ty, epBus, Len(epBus)))
  BY <1>1, <1>2, ChansSize
<1>4. ChannelsOf(ty) = Chans(ty, epBus, Len(epBus))
  BY DEF ChannelsOf, Chans
<1> QED
  BY <1>1, <1>3, <1>4

\* There, a pwm port has a DAC's entry and a digital output's with its number.
LEMMA BoxTables ==
  ASSUME EpTypes, epState = "op", BoxOutputs
  PROVE  /\ ChannelsOf("pwm") = ChannelsOf("dac")
         /\ Len(epTable["pwm"]) = Len(epTable["dac"])
         /\ Len(epTable["pwm"]) <= Len(epTable["dout"])
<1>1. "pwm" \in Types /\ "dac" \in Types /\ "dout" \in Types
  BY DEF Types
<1>2. \A p \in 1 .. Len(epBus) : NChan("pwm", epBus[p]) = NChan("dac", epBus[p])
  BY BoxChannels
<1>3. ChannelsOf("pwm") = ChannelsOf("dac")
  BY <1>2 DEF ChannelsOf
<1>4. ChannelsOf("pwm") \subseteq ChannelsOf("dout")
  <2> SUFFICES ASSUME NEW o \in ChannelsOf("pwm") PROVE o \in ChannelsOf("dout")
    OBVIOUS
  <2>1. /\ o \in (1 .. Len(epBus)) \X (0 .. 7) /\ o[1] \in 1 .. Len(epBus)
        /\ o[2] \in 0 .. 7 /\ o[2] < NChan("pwm", epBus[o[1]])
    BY DEF ChannelsOf
  <2> DEFINE a == NChan("pwm", epBus[o[1]])
             b == NChan("dout", epBus[o[1]])
  <2>2. a <= b
    BY <2>1, BoxChannels
  <2>3. a \in 0 .. 8 /\ b \in 0 .. 8
    <3>1. epBus[o[1]] \in Kinds
      BY <2>1, BusFacts DEF EpTypes
    <3> QED
      BY <1>1, <3>1, NChanType
  <2>4. o[2] < a
    BY <2>1
  <2> HIDE DEF a, b
  <2>5. o[2] < b
    BY <2>1, <2>2, <2>3, <2>4
  <2> QED
    BY <2>1, <2>5 DEF ChannelsOf, b
<1>5. Cardinality(ChannelsOf("pwm")) <= Cardinality(ChannelsOf("dout"))
  BY <1>1, <1>4, TableSize, FS_Subset
<1> QED
  BY <1>1, <1>3, <1>5, TableSize

\* ec_pwm_write_chan: by way of the other tables to the port's own channel.
LEMMA StepPwmWrite ==
  ASSUME EpInv, NEW i, NEW v, EpPwmWrite(i, v)
  PROVE  EpInv'
<1>1. /\ Wired' = Wired /\ epBus' = epBus /\ epState = "op" /\ i \in DOMAIN epTable["pwm"]
  BY DEF EpPwmWrite, Wired
<1>2. PICK d \in DacEntries(i) :
        Write("pwm", i,
              IF epTable["dout"][i].dev = "Ebox"
              THEN Place("pwm", [dev |-> "Ebox", link |-> d.link, chan |-> d.chan])
              ELSE << >>,
              ToPwm(v))
  BY DEF EpPwmWrite
<1> DEFINE port == [dev |-> "Ebox", link |-> d.link, chan |-> d.chan]
           place == IF epTable["dout"][i].dev = "Ebox" THEN Place("pwm", port) ELSE << >>
<1>3. epWritten' = {[type |-> "pwm", port |-> i, place |-> place, value |-> ToPwm(v)]}
  BY <1>2 DEF Write
<1>4. ASSUME BoxOutputs
      PROVE  place \in ChannelsOf("pwm") /\ Rank("pwm", place) = i - 1
  <2>1. "pwm" \in Types /\ "dac" \in Types /\ "dout" \in Types
    BY DEF Types
  <2>2. /\ EpTypes /\ Resolved("dac") /\ Resolved("dout")
        /\ \A ty \in Types : epTable[ty] \in Seq(Port)
    BY <2>1 DEF EpInv, EpTypes
  <2>3. i \in 1 .. Len(epTable["pwm"])
    BY <1>1, <2>1, <2>2
  <2>4. i \in 1 .. Len(epTable["dac"]) /\ i \in 1 .. Len(epTable["dout"])
    <3>1. \A ty \in Types : Len(epTable[ty]) \in Nat
      BY <2>2
    <3> QED
      BY <1>1, <1>4, <2>1, <2>2, <2>3, <3>1, BoxTables
  <2>5. epTable["dout"][i].dev = "Ebox"
    <3>1. epTable["dout"] # << >>
      BY <2>1, <2>2, <2>4
    <3>2. PICK p, c : Numbered("dout", i, p, c) /\ Leads(epTable["dout"][i], p, c)
      BY <2>2, <2>4, <3>1 DEF Resolved
    <3>3. /\ p \in 1 .. Len(epBus) /\ c \in 0 .. NChan("dout", epBus[p]) - 1
          /\ epTable["dout"][i].dev = epBus[p]
      BY <3>2 DEF Numbered, Leads
    <3>4. NChan("dout", epBus[p]) # 0
      BY <3>3
    <3> QED
      BY <1>4, <2>2, <3>3, <3>4, BoxChannels
  <2>6. d = epTable["dac"][i] /\ d \in Port
    <3>1. i \in DOMAIN epTable["dac"] /\ epTable["dac"][i] \in Port
      BY <2>1, <2>2, <2>4
    <3> QED
      BY <3>1 DEF DacEntries
  <2>7. PICK p, c : Numbered("dac", i, p, c) /\ Leads(d, p, c)
    <3>1. epTable["dac"] # << >>
      BY <2>1, <2>2, <2>4
    <3> QED
      BY <2>2, <2>4, <2>6, <3>1 DEF Resolved
  <2>8. /\ p \in 1 .. Len(epBus) /\ c \in 0 .. NChan("dac", epBus[p]) - 1
        /\ d.dev = epBus[p] /\ d.chan = c
        /\ d.link < Len(epLinks[epBus[p]]) /\ epLinks[epBus[p]][d.link + 1] = p
    BY <2>7 DEF Numbered, Leads
  <2>9. epBus[p] = "Ebox" /\ d.dev = "Ebox"
    <3>1. NChan("dac", epBus[p]) # 0
      BY <2>8
    <3> QED
      BY <1>4, <2>2, <2>8, <3>1, BoxChannels
  <2>10. /\ Place("dac", d) = << p, c >>
         /\ << p, c >> \in ChannelsOf("dac") /\ Rank("dac", << p, c >>) = i - 1
    BY <2>1, <2>2, <2>6, <2>7, PlaceIs
  <2>11. Place("pwm", port) = << p, c >>
    <3>1. c < NChan("pwm", "Ebox")
      <4>1. NChan("pwm", "Ebox") = 2 /\ NChan("dac", "Ebox") = 2
        BY DEF NChan
      <4>2. c \in 0 .. 2 - 1
        BY <2>8, <2>9, <4>1
      <4> QED
        BY <4>1, <4>2
    <3>2. port.dev = "Ebox" /\ port.link = d.link /\ port.chan = c
      BY <2>8
    <3> HIDE DEF port
    <3> QED
      BY <2>8, <2>9, <3>1, <3>2 DEF Place
  <2>12. ChannelsOf("pwm") = ChannelsOf("dac")
    BY <1>1, <1>4, <2>2, BoxTables
  <2>13. Rank("pwm", << p, c >>) = Rank("dac", << p, c >>)
    BY <2>12 DEF Rank
  <2>14. place = << p, c >>
    BY <2>5, <2>11
  <2> QED
    BY <2>10, <2>12, <2>13, <2>14
<1> HIDE DEF place
<1>5. PICK at : at = place
  OBVIOUS
<1>6. epWritten' = {[type |-> "pwm", port |-> i, place |-> at, value |-> ToPwm(v)]}
  BY <1>3, <1>5
<1>7. PwmLands'
  <2> SUFFICES ASSUME BoxOutputs', NEW w \in epWritten'
               PROVE  w.place \in ChannelsOf("pwm")' /\ Rank("pwm", w.place)' = w.port - 1
    BY DEF PwmLands
  <2>1. BoxOutputs
    BY <1>1 DEF BoxOutputs
  <2>2. w.place = at /\ w.port = i
    BY <1>6
  <2>3. at \in ChannelsOf("pwm") /\ Rank("pwm", at) = i - 1
    BY <1>4, <1>5, <2>1
  <2>4. at \in ChannelsOf("pwm")' /\ Rank("pwm", at)' = i - 1
    BY <1>1, <2>3 DEF ChannelsOf, Rank
  <2> QED
    BY <2>2, <2>4
<1> QED
  BY <1>1, <1>7, WiredKept DEF EpInv

\* Marks on the ports leave their entries as they are.
SamePort(new, old) == new.dev = old.dev /\ new.link = old.link /\ new.chan = old.chan

LEMMA MarksKeep ==
  ASSUME EpInv, epTable' \in [Types -> Seq(Port)],
         << epBus, epCount, epLinks, epState, epWritten >>'
           = << epBus, epCount, epLinks, epState, epWritten >>,
         \A ty \in Types : /\ Len(epTable'[ty]) = Len(epTable[ty])
                           /\ \A i \in 1 .. Len(epTable[ty]) :
                                SamePort(epTable'[ty][i], epTable[ty][i])
  PROVE  EpInv'
<1>1. /\ epBus' = epBus /\ epCount' = epCount /\ epLinks' = epLinks
      /\ epState' = epState /\ epWritten' = epWritten
  OBVIOUS
<1>2. EpTypes'
  BY <1>1 DEF EpInv, EpTypes, LinksTyped
<1>3. ASSUME NEW ty \in Types PROVE Resolved(ty)'
  <2>1. Resolved(ty) /\ epTable[ty] \in Seq(Port)
    BY DEF EpInv, EpTypes
  <2>2. Len(epTable'[ty]) = Len(epTable[ty]) /\ epTable'[ty] \in Seq(Port)
    OBVIOUS
  <2> SUFFICES ASSUME epTable'[ty] # << >>, NEW i \in 1 .. Len(epTable'[ty])
               PROVE  /\ Len(epTable'[ty]) = epCount'[ty]
                      /\ epCount'[ty] = ChannelsTo(ty, epBus')[Len(epBus')]
                      /\ \E p, c : Numbered(ty, i, p, c)' /\ Leads(epTable[ty][i], p, c)'
    <3>1. epTable'[ty] # << >> => 1 \in 1 .. Len(epTable'[ty])
      BY <2>2
    <3> QED
      BY <3>1 DEF Resolved
  <2>3. epTable[ty] # << >>
    BY <2>1, <2>2
  <2>4. i \in 1 .. Len(epTable[ty]) /\ SamePort(epTable'[ty][i], epTable[ty][i])
    BY <2>2
  <2>5. PICK p, c : Numbered(ty, i, p, c) /\ Leads(epTable[ty][i], p, c)
    BY <2>1, <2>3, <2>4 DEF Resolved
  <2>6. Numbered(ty, i, p, c)' /\ Leads(epTable[ty][i], p, c)'
    BY <1>1, <2>4, <2>5 DEF Numbered, Leads, SamePort
  <2> QED
    BY <1>1, <2>1, <2>2, <2>3, <2>6 DEF Resolved
<1>4. PwmLands'
  BY <1>1 DEF EpInv, PwmLands, BoxOutputs, ChannelsOf, Rank
<1> QED
  BY <1>2, <1>3, <1>4 DEF EpInv

\* One entry of one table changes.
LEMMA OneMark ==
  ASSUME EpInv, NEW a \in Types, NEW j \in 1 .. Len(epTable[a]), NEW new \in Port,
         SamePort(new, epTable[a][j]),
         epTable' = [epTable EXCEPT ![a] = [@ EXCEPT ![j] = new]],
         << epBus, epCount, epLinks, epState, epWritten >>'
           = << epBus, epCount, epLinks, epState, epWritten >>
  PROVE  EpInv'
<1>1. epTable \in [Types -> Seq(Port)]
  BY DEF EpInv, EpTypes
<1> DEFINE s == epTable[a]
           t == [s EXCEPT ![j] = new]
<1>2. s \in Seq(Port) /\ j \in 1 .. Len(s) /\ SamePort(new, s[j])
  BY <1>1
<1>3. epTable' = [epTable EXCEPT ![a] = t]
  OBVIOUS
<1> HIDE DEF s
<1>4. /\ t \in Seq(Port) /\ Len(t) = Len(s)
      /\ t[j] = new /\ \A i \in 1 .. Len(s) : i # j => t[i] = s[i]
  BY <1>2
<1> HIDE DEF t
<1>5. epTable'[a] = t /\ \A ty \in Types : ty # a => epTable'[ty] = epTable[ty]
  BY <1>1, <1>3
<1>6. epTable' \in [Types -> Seq(Port)]
  BY <1>1, <1>3, <1>4
<1>7. ASSUME NEW ty \in Types
      PROVE  /\ Len(epTable'[ty]) = Len(epTable[ty])
             /\ \A i \in 1 .. Len(epTable[ty]) : SamePort(epTable'[ty][i], epTable[ty][i])
  <2>1. CASE ty = a
    <3>1. \A i \in 1 .. Len(s) : SamePort(t[i], s[i])
      BY <1>2, <1>4 DEF SamePort
    <3> QED
      BY <1>4, <1>5, <2>1, <3>1 DEF s
  <2>2. CASE ty # a
    BY <1>5, <2>2 DEF SamePort
  <2> QED
    BY <2>1, <2>2
<1> QED
  BY <1>6, <1>7, MarksKeep

LEMMA Marked ==
  ASSUME NEW port \in Port, NEW x \in {0, 1}
  PROVE  /\ [port EXCEPT !.clipped = x] \in Port
         /\ SamePort([port EXCEPT !.clipped = x], port)
         /\ [port EXCEPT !.enabled = x] \in Port
         /\ SamePort([port EXCEPT !.enabled = x], port)
BY DEF Port, SamePort

LEMMA StepAdcRead ==
  ASSUME EpInv, NEW i, NEW v, EpAdcRead(i, v)
  PROVE  EpInv'
<1> DEFINE x == IF v = "over" THEN 1 ELSE 0
           new == [epTable["adc"][i] EXCEPT !.clipped = x]
<1>1. "adc" \in Types /\ x \in {0, 1}
  BY DEF Types
<1>2. i \in DOMAIN epTable["adc"]
  BY DEF EpAdcRead
<1>3. epTable["adc"] \in Seq(Port)
  BY <1>1 DEF EpInv, EpTypes
<1>4. i \in 1 .. Len(epTable["adc"]) /\ epTable["adc"][i] \in Port
  BY <1>2, <1>3
<1>5. epTable' = [epTable EXCEPT !["adc"] = [@ EXCEPT ![i] = new]]
  BY DEF EpAdcRead
<1>6. new \in Port /\ SamePort(new, epTable["adc"][i])
  <2> HIDE DEF x
  <2> QED
    BY <1>1, <1>4, Marked
<1>7. << epBus, epCount, epLinks, epState, epWritten >>'
        = << epBus, epCount, epLinks, epState, epWritten >>
  BY DEF EpAdcRead
<1> HIDE DEF new
<1> QED
  BY <1>1, <1>4, <1>5, <1>6, <1>7, OneMark

LEMMA StepSetState ==
  ASSUME EpInv, NEW ty \in {"adc", "enc"}, NEW i \in 1 .. MaxPort, NEW on \in {0, 1},
         EpSetState(ty, i, on)
  PROVE  EpInv'
<1> DEFINE new == [epTable[ty][i] EXCEPT !.enabled = on]
<1>1. ty \in Types
  BY DEF Types
<1>2. epState = "op" /\ i <= epCount[ty]
  BY DEF EpSetState
<1>3. epTable[ty] \in Seq(Port) /\ Len(epTable[ty]) = epCount[ty]
  BY <1>1, <1>2 DEF EpInv, EpTypes
<1>4. i \in 1 .. Len(epTable[ty]) /\ epTable[ty][i] \in Port
  BY <1>2, <1>3, PortsAssumption
<1>5. epTable' = [epTable EXCEPT ![ty] = [@ EXCEPT ![i] = new]]
  BY DEF EpSetState
<1>6. new \in Port /\ SamePort(new, epTable[ty][i])
  BY <1>4, Marked
<1>7. << epBus, epCount, epLinks, epState, epWritten >>'
        = << epBus, epCount, epLinks, epState, epWritten >>
  BY DEF EpSetState
<1> HIDE DEF new
<1> QED
  BY <1>1, <1>4, <1>5, <1>6, <1>7, OneMark

LEMMA StepPorts == ASSUME EpInv, [EpNext]_epVars PROVE EpInv'
<1>1. CASE \E bus \in Buses, up \in BOOLEAN : EpStart(bus, up)
  BY <1>1, StepStart
<1>10. CASE \E bus \in Buses : EpStartOverruns(bus)
  BY <1>10, StepOverruns
<1>2. CASE EpStartFails
  BY <1>2, StepStartFails
<1>3. CASE EpStop
  BY <1>3, StepStop
<1>4. CASE \E i \in 1 .. epCount["dac"], v \in Volts : EpDacWrite(i, v)
  BY <1>4, StepDacWrite
<1>5. CASE \E i \in 1 .. epCount["dout"], v \in Volts : EpDoutWrite(i, v)
  BY <1>5, StepDoutWrite
<1>6. CASE \E i \in 1 .. epCount["pwm"], v \in Volts : EpPwmWrite(i, v)
  BY <1>6, StepPwmWrite
<1>7. CASE \E i \in 1 .. MaxPort, v \in Volts : EpAdcRead(i, v)
  BY <1>7, StepAdcRead
<1>8. CASE \E ty \in {"adc", "enc"}, i \in 1 .. MaxPort, on \in {0, 1} : EpSetState(ty, i, on)
  BY <1>8, StepSetState
<1>9. CASE \/ \E l \in DOMAIN epPar : EpGetParameters(l)
           \/ \E l \in DOMAIN epPar, m \in {0, 1}, accepted \in BOOLEAN :
                EpSetParameters(l, m, accepted)
           \/ UNCHANGED epVars
  <2>1. Wired' = Wired /\ epWritten' = epWritten
    BY <1>9 DEF EpGetParameters, EpSetParameters, epVars, Wired
  <2> QED
    BY <2>1, WiredKept DEF EpInv
<1> QED
  BY <1>1, <1>2, <1>3, <1>4, <1>5, <1>6, <1>7, <1>8, <1>9, <1>10 DEF EpNext

\* Every channel on the bus has exactly one port, and ports are numbered in the order
\* of the bus, whatever slaves were found before (ec_start, whose counters of slaves go
\* on counting), until it overruns its arrays.
THEOREM PortsAreResolved == EpSpec => []PortsResolve
<1>1. EpInit => EpInv
  BY InitPorts
<1>2. EpInv /\ [EpNext]_epVars => EpInv'
  BY StepPorts
<1>3. EpInv => PortsResolve
  BY InvPorts
<1> QED
  BY <1>1, <1>2, <1>3, PTL DEF EpSpec

\* If only E-boxes have outputs, a write to a pwm port comes out on the pwm channel with
\* the port's number, although ec_pwm_write_chan goes by the tables of the digital
\* outputs and of the DACs.
THEOREM PwmsLand == EpSpec => []PwmLands
<1>1. EpInit => EpInv
  BY InitPorts
<1>2. EpInv /\ [EpNext]_epVars => EpInv'
  BY StepPorts
<1>3. EpInv => PwmLands
  BY DEF EpInv
<1> QED
  BY <1>1, <1>2, <1>3, PTL DEF EpSpec
=============================================================================
