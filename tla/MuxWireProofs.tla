--------------------------- MODULE MuxWireProofs ----------------------------
(***************************************************************************)
(* What the frame codec makes of the bytes on the wire, for all headers    *)
(* the library builds.                                                     *)
(*                                                                         *)
(* Loops.  MuxWire computes like the code, in loops over bits and bytes,   *)
(* as recursive functions.  Such a function exists and takes its turns one *)
(* after the other (Loop); what a loop computes follows by induction over  *)
(* the set of the turns after which it is right (Induction).               *)
(*                                                                         *)
(* Layouts.  The fields fill the 24 bytes without overlap, so reading and  *)
(* writing undo each other in both directions.                             *)
(*                                                                         *)
(* Checksum.  The register of ch32mux_crc16() holds the remainder of the   *)
(* bytes so far.  It is linear: turned bits add to the checksum what they  *)
(* alone would leave of it, whatever the header.  A header is refused      *)
(* unless that residue is empty.  Bits within two bytes have a residue,    *)
(* because the next bytes cannot undo what the first did.  So do one, two  *)
(* or three bits anywhere, because each leaves the remainder of a power of *)
(* x, no two of these are the same, and each of them is odd.               *)
(***************************************************************************)
EXTENDS MuxWire, WellFoundedInduction, FiniteSetTheorems, TLAPS

-----------------------------------------------------------------------------
(* Induction.  The library's theorems take a predicate; these take a set.  *)

\* The order of the numbers.
Less == {ij \in Nat \X Nat : ij[1] < ij[2]}

\* A set with 0 and with the next of each of its numbers has all numbers.
LEMMA Induction ==
  ASSUME NEW S, 0 \in S, \A n \in Nat : n \in S => n + 1 \in S
  PROVE  Nat \subseteq S
  <1>1. SUFFICES ASSUME Nat \ S # {} PROVE FALSE
    OBVIOUS
  <1>2. IsWellFoundedOn(Less, Nat)
    BY NatLessThanWellFounded DEF Less, OpToRel
  <1>3. Nat \ S \subseteq Nat
    OBVIOUS
  <1>4. PICK m \in Nat \ S : \A k \in Nat \ S : <<k, m>> \notin Less
    BY <1>1, <1>2, <1>3, WFMin
  <1>5. m - 1 \in Nat /\ m - 1 + 1 = m
    OBVIOUS
  <1>6. <<m - 1, m>> \in Less
    BY <1>5 DEF Less
  <1>7. m - 1 \in S
    BY <1>4, <1>5, <1>6
  <1> QED
    BY <1>5, <1>7

\* The same for the numbers up to N.
LEMMA InductionUpTo ==
  ASSUME NEW N \in Nat, NEW S, 0 \in S, \A n \in 0 .. N - 1 : n \in S => n + 1 \in S
  PROVE  0 .. N \subseteq S
  <1> DEFINE T == {n \in Nat : n <= N => n \in S}
  <1>1. 0 \in T
    OBVIOUS
  <1>2. ASSUME NEW n \in Nat, n \in T PROVE n + 1 \in T
    BY <1>2
  <1> HIDE DEF T
  <1>3. Nat \subseteq T
    BY <1>1, <1>2, Induction
  <1> QED
    BY <1>3 DEF T

\* What the register of a loop holds after each of its turns.
Turns(g, D, start, N, turn) ==
  g \in [0 .. N -> D] /\ g[0] = start /\ \A n \in 1 .. N : g[n] = turn[n][g[n - 1]]

\* A loop that runs N times has a register for each of its turns.
LEMMA Loop ==
  ASSUME NEW D, NEW start \in D, NEW N \in Nat, NEW turn \in [1 .. N -> [D -> D]]
  PROVE  \E g : Turns(g, D, start, N, turn)
  <1> DEFINE Runs(g, m) == Turns(g, D, start, m, turn)
             S == {m \in 0 .. N : \E g : Runs(g, m)}
  <1>1. 0 \in S
    <2>1. Runs([i \in 0 .. 0 |-> start], 0)
      BY DEF Turns
    <2> HIDE DEF Runs
    <2> QED
      BY <2>1
  <1>2. ASSUME NEW m \in 0 .. N - 1, m \in S
        PROVE  m + 1 \in S
    <2>1. PICK g : Runs(g, m)
      BY <1>2
    <2> USE DEF Turns
    <2> DEFINE h == [i \in 0 .. m + 1 |-> IF i = m + 1 THEN turn[m + 1][g[m]] ELSE g[i]]
    <2>2. g[m] \in D /\ turn[m + 1] \in [D -> D]
      BY <2>1
    <2>3. turn[m + 1][g[m]] \in D
      BY <2>2
    <2>4. h \in [0 .. m + 1 -> D] /\ h[0] = start
      BY <2>1, <2>3
    <2>5. \A n \in 1 .. m + 1 : h[n] = turn[n][h[n - 1]]
      BY <2>1
    <2> HIDE DEF h
    <2>6. Runs(h, m + 1)
      BY <2>4, <2>5
    <2>7. m + 1 \in 0 .. N
      OBVIOUS
    <2> HIDE DEF Runs
    <2> QED
      BY <2>6, <2>7
  <1> HIDE DEF S
  <1>3. 0 .. N \subseteq S
    BY <1>1, <1>2, InductionUpTo
  <1>4. N \in S
    BY <1>3
  <1> QED
    BY <1>4 DEF S

-----------------------------------------------------------------------------
(* Numbers and their bits.                                                 *)

\* The value of a bit.
Pow(n) == 2^n

\* The lowest bit has the value 1.
LEMMA PowerOfNone == Pow(0) = 1
  BY DEF Pow

\* Each bit has twice the value of the one below it.
LEMMA PowerDoubles ==
  ASSUME NEW n \in 0 .. 15
  PROVE  Pow(n) \in Nat \ {0} /\ Pow(n + 1) = 2 * Pow(n)
  <1>0. CASE n = 0 BY <1>0 DEF Pow
  <1>1. CASE n = 1 BY <1>1 DEF Pow
  <1>2. CASE n = 2 BY <1>2 DEF Pow
  <1>3. CASE n = 3 BY <1>3 DEF Pow
  <1>4. CASE n = 4 BY <1>4 DEF Pow
  <1>5. CASE n = 5 BY <1>5 DEF Pow
  <1>6. CASE n = 6 BY <1>6 DEF Pow
  <1>7. CASE n = 7 BY <1>7 DEF Pow
  <1>8. CASE n = 8 BY <1>8 DEF Pow
  <1>9. CASE n = 9 BY <1>9 DEF Pow
  <1>10. CASE n = 10 BY <1>10 DEF Pow
  <1>11. CASE n = 11 BY <1>11 DEF Pow
  <1>12. CASE n = 12 BY <1>12 DEF Pow
  <1>13. CASE n = 13 BY <1>13 DEF Pow
  <1>14. CASE n = 14 BY <1>14 DEF Pow
  <1>15. CASE n = 15 BY <1>15 DEF Pow
  <1> QED
    BY <1>0, <1>1, <1>2, <1>3, <1>4, <1>5, <1>6, <1>7, <1>8,
       <1>9, <1>10, <1>11, <1>12, <1>13, <1>14, <1>15

\* To drop one bit more is to halve once more.
LEMMA HalfAgain ==
  ASSUME NEW v \in Nat, NEW n \in 0 .. 15
  PROVE  v \div Pow(n) \in Nat /\ v \div Pow(n + 1) = (v \div Pow(n)) \div 2
  <1>0. CASE n = 0 BY <1>0 DEF Pow
  <1>1. CASE n = 1 BY <1>1 DEF Pow
  <1>2. CASE n = 2 BY <1>2 DEF Pow
  <1>3. CASE n = 3 BY <1>3 DEF Pow
  <1>4. CASE n = 4 BY <1>4 DEF Pow
  <1>5. CASE n = 5 BY <1>5 DEF Pow
  <1>6. CASE n = 6 BY <1>6 DEF Pow
  <1>7. CASE n = 7 BY <1>7 DEF Pow
  <1>8. CASE n = 8 BY <1>8 DEF Pow
  <1>9. CASE n = 9 BY <1>9 DEF Pow
  <1>10. CASE n = 10 BY <1>10 DEF Pow
  <1>11. CASE n = 11 BY <1>11 DEF Pow
  <1>12. CASE n = 12 BY <1>12 DEF Pow
  <1>13. CASE n = 13 BY <1>13 DEF Pow
  <1>14. CASE n = 14 BY <1>14 DEF Pow
  <1>15. CASE n = 15 BY <1>15 DEF Pow
  <1> QED
    BY <1>0, <1>1, <1>2, <1>3, <1>4, <1>5, <1>6, <1>7, <1>8,
       <1>9, <1>10, <1>11, <1>12, <1>13, <1>14, <1>15

\* What a bit adds to the number that is built of the bits from the top.
Digit(i, bits) == IF i \in bits THEN 1 ELSE 0

\* v[m] is the number that the m highest bits make.
Builds(v, bits) ==
  /\ v \in [0 .. 16 -> Nat] /\ v[0] = 0
  /\ \A m \in 1 .. 16 : v[m] = Digit(16 - m, bits) + 2 * v[m - 1]

\* The number after each of its bits.
Building(bits) == CHOOSE v : Builds(v, bits)

\* The highest bits can be taken one after the other.
LEMMA Built ==
  ASSUME NEW bits
  PROVE  Builds(Building(bits), bits)
  <1> DEFINE turn == [m \in 1 .. 16 |-> [x \in Nat |-> Digit(16 - m, bits) + 2 * x]]
  <1>1. \A m \in 1 .. 16, x \in Nat : Digit(16 - m, bits) + 2 * x \in Nat
    BY DEF Digit
  <1>2. turn \in [1 .. 16 -> [Nat -> Nat]]
    BY <1>1
  <1>3. \A m \in 1 .. 16, x \in Nat : turn[m][x] = Digit(16 - m, bits) + 2 * x
    OBVIOUS
  <1> HIDE DEF turn
  <1>4. PICK v : Turns(v, Nat, 0, 16, turn)
    BY <1>2, Loop
  <1>5. v \in [0 .. 16 -> Nat] /\ v[0] = 0 /\ \A m \in 1 .. 16 : v[m] = turn[m][v[m - 1]]
    BY <1>4 DEF Turns
  <1>6. \A m \in 1 .. 16 : v[m - 1] \in Nat
    BY <1>5
  <1>7. Builds(v, bits)
    BY <1>3, <1>5, <1>6 DEF Builds
  <1> QED
    BY <1>7 DEF Building

\* Each further bit doubles the number and adds itself.
LEMMA BuildingType ==
  ASSUME NEW bits
  PROVE  /\ Building(bits) \in [0 .. 16 -> Nat] /\ Building(bits)[0] = 0
         /\ \A m \in 0 .. 15 : /\ Building(bits)[m] \in Nat /\ Building(bits)[m + 1] \in Nat
                               /\ Building(bits)[m + 1] = Digit(15 - m, bits) + 2 * Building(bits)[m]
  <1> DEFINE v == Building(bits)
  <1>1. Builds(v, bits)
    BY Built
  <1> HIDE DEF v
  <1>2. v \in [0 .. 16 -> Nat] /\ v[0] = 0
    BY <1>1 DEF Builds
  <1>3. ASSUME NEW m \in 0 .. 15
        PROVE  v[m] \in Nat /\ v[m + 1] \in Nat /\ v[m + 1] = Digit(15 - m, bits) + 2 * v[m]
    <2>1. m + 1 \in 1 .. 16 /\ m + 1 - 1 = m /\ 16 - (m + 1) = 15 - m
      OBVIOUS
    <2>2. v[m + 1] = Digit(16 - (m + 1), bits) + 2 * v[m + 1 - 1]
      BY <1>1, <2>1 DEF Builds
    <2> QED
      BY <1>2, <2>1, <2>2
  <1> QED
    BY <1>2, <1>3 DEF v

\* The number all bits make.
Value(bits) == Building(bits)[16]

\* No bit set makes 0.
LEMMA ValueOfNone == Value({}) = 0
  <1> DEFINE v == Building({})
             S == {m \in 0 .. 16 : v[m] = 0}
  <1>1. 0 \in S
    BY BuildingType
  <1>2. ASSUME NEW m \in 0 .. 15, m \in S PROVE m + 1 \in S
    <2>1. v[m] = 0 /\ v[m + 1] = Digit(15 - m, {}) + 2 * v[m]
      BY <1>2, BuildingType
    <2>2. Digit(15 - m, {}) = 0
      BY DEF Digit
    <2> HIDE DEF v
    <2>3. v[m + 1] = 0
      BY <2>1, <2>2
    <2> QED
      BY <2>3
  <1> HIDE DEF S
  <1>3. 0 .. 16 \subseteq S
    BY <1>1, <1>2, InductionUpTo
  <1> QED
    BY <1>3 DEF S, Value

\* A bit that is set adds its value to that of the others.
LEMMA ValueTakesOne ==
  ASSUME NEW bits, NEW k \in bits, k \in 0 .. 15
  PROVE  Value(bits) = Pow(k) + Value(bits \ {k})
  <1> DEFINE v == Building(bits)
             u == Building(bits \ {k})
             More(m) == IF m < 16 - k THEN 0 ELSE Pow(m - (16 - k))
             S == {m \in 0 .. 16 : v[m] = u[m] + More(m)}
  <1>1. 0 \in S
    BY BuildingType
  <1>2. ASSUME NEW m \in 0 .. 15, m \in S PROVE m + 1 \in S
    <2>1. /\ v[m] \in Nat /\ v[m + 1] = Digit(15 - m, bits) + 2 * v[m]
          /\ u[m] \in Nat /\ u[m + 1] = Digit(15 - m, bits \ {k}) + 2 * u[m]
      BY BuildingType
    <2>2. v[m] = u[m] + More(m)
      BY <1>2
    <2> HIDE DEF u, v
    <2>3. CASE m + 1 < 16 - k
      <3>1. More(m) = 0 /\ More(m + 1) = 0
        BY <2>3
      <3>2. Digit(15 - m, bits) = Digit(15 - m, bits \ {k})
        BY <2>3 DEF Digit
      <3> QED
        BY <2>1, <2>2, <3>1, <3>2 DEF Digit
    <2>4. CASE m + 1 = 16 - k
      <3>1. More(m) = 0 /\ More(m + 1) = 1
        <4>1. m < 16 - k /\ ~ (m + 1 < 16 - k) /\ m + 1 - (16 - k) = 0
          BY <2>4
        <4> QED
          BY <4>1, PowerOfNone
      <3>2. Digit(15 - m, bits) = 1 /\ Digit(15 - m, bits \ {k}) = 0
        BY <2>4 DEF Digit
      <3> QED
        BY <2>1, <2>2, <3>1, <3>2
    <2>5. CASE m + 1 > 16 - k
      <3> DEFINE d == m - (16 - k)
      <3>1. d \in 0 .. 15 /\ m + 1 - (16 - k) = d + 1
        BY <2>5
      <3>2. Pow(d) \in Nat /\ Pow(d + 1) = 2 * Pow(d)
        BY <3>1, PowerDoubles
      <3>3. More(m) = Pow(d) /\ More(m + 1) = Pow(d + 1)
        BY <2>5, <3>1
      <3>4. Digit(15 - m, bits) = Digit(15 - m, bits \ {k}) /\ Digit(15 - m, bits) \in Nat
        BY <2>5 DEF Digit
      <3> HIDE DEF d, More
      <3>5. PICK p \in Nat : p = Pow(d)
        BY <3>2
      <3>6. v[m] = u[m] + p /\ More(m + 1) = 2 * p
        BY <2>2, <3>2, <3>3, <3>5
      <3> QED
        BY <2>1, <3>4, <3>6
    <2> QED
      BY <2>3, <2>4, <2>5
  <1> HIDE DEF S
  <1>3. 0 .. 16 \subseteq S
    BY <1>1, <1>2, InductionUpTo
  <1>4. v[16] = u[16] + More(16) /\ v[16] \in Nat /\ u[16] \in Nat
    BY <1>3, BuildingType DEF S
  <1>5. More(16) = Pow(k) /\ Pow(k) \in Nat
    <2>1. 16 - (16 - k) = k /\ ~ (16 < 16 - k)
      OBVIOUS
    <2> QED
      BY <2>1, PowerDoubles
  <1> HIDE DEF u, v, More
  <1>6. v[16] = Pow(k) + u[16]
    BY <1>4, <1>5
  <1> QED
    BY <1>6 DEF Value, u, v

\* A higher bit has a higher value.
LEMMA PowersGrow ==
  ASSUME NEW m \in 0 .. 15, NEW n \in 0 .. 15, m < n
  PROVE  Pow(m) < Pow(n)
  <1> DEFINE S == {d \in 0 .. 15 : d <= m \/ Pow(m) < Pow(d)}
  <1>1. 0 \in S
    OBVIOUS
  <1>2. ASSUME NEW d \in 0 .. 14, d \in S PROVE d + 1 \in S
    <2>0. d \in 0 .. 15
      OBVIOUS
    <2>1. PICK p \in Nat \ {0} : p = Pow(d)
      BY <2>0, PowerDoubles
    <2>2. Pow(d + 1) = 2 * p
      BY <2>0, <2>1, PowerDoubles
    <2>3. PICK q \in Nat \ {0} : q = Pow(m)
      BY PowerDoubles
    <2>4. CASE d = m
      BY <2>1, <2>2, <2>4
    <2>5. CASE d < m
      BY <2>5
    <2>6. CASE d > m
      BY <1>2, <2>1, <2>2, <2>3, <2>6
    <2> QED
      BY <2>4, <2>5, <2>6
  <1> HIDE DEF S
  <1>3. 0 .. 15 \subseteq S
    BY <1>1, <1>2, InductionUpTo
  <1>4. n \in S
    BY <1>3
  <1> QED
    BY <1>4 DEF S

\* Two bits never have the same value.
LEMMA PowersDiffer ==
  ASSUME NEW m \in 0 .. 15, NEW n \in 0 .. 15, Pow(m) = Pow(n)
  PROVE  m = n
  <1>1. Pow(m) \in Nat /\ Pow(n) \in Nat
    BY PowerDoubles
  <1>2. ~ (m < n) /\ ~ (n < m)
    BY <1>1, PowersGrow
  <1> QED
    BY <1>2

\* The sum is the value of the bits, in whatever order its terms are taken.
LEMMA SumOfBits ==
  ASSUME NEW bits \in SUBSET (0 .. 15)
  PROVE  NumberOf(bits) = Value(bits)
  <1> DEFINE Powers   == {Pow(i) : i \in bits}
             Places(s) == {i \in 0 .. 15 : Pow(i) \in s}
             W(s) == Value(Places(s))
             One(s) == CHOOSE x \in s : TRUE
             Sums(it) == it = [s \in SUBSET Powers |->
                                 IF s = {} THEN 0 ELSE One(s) + it[s \ {One(s)}]]
  <1>1. W({}) = 0
    <2>1. Places({}) = {}
      OBVIOUS
    <2> QED
      BY <2>1, ValueOfNone
  <1>2. ASSUME NEW s \in SUBSET Powers, NEW x \in s
        PROVE  /\ W(s) = x + W(s \ {x}) /\ x \in Nat \ {0}
               /\ W(s) \in Nat /\ W(s \ {x}) \in Nat /\ s \ {x} \in SUBSET Powers
    <2>1. PICK k \in bits : x = Pow(k)
      OBVIOUS
    <2>2. k \in 0 .. 15 /\ k \in Places(s)
      BY <2>1
    <2>3. Places(s \ {x}) = Places(s) \ {k}
      BY <2>1, <2>2, PowersDiffer
    <2>4. W(s) \in Nat /\ W(s \ {x}) \in Nat
      BY BuildingType DEF Value
    <2>5. x \in Nat \ {0}
      BY <2>1, <2>2, PowerDoubles
    <2> HIDE DEF Places
    <2>6. Value(Places(s)) = Pow(k) + Value(Places(s) \ {k})
      BY <2>2, ValueTakesOne
    <2> QED
      BY <2>1, <2>3, <2>4, <2>5, <2>6
  <1>3. \A s \in SUBSET Powers : s # {} => One(s) \in s
    OBVIOUS
  <1> HIDE DEF Powers, W, One
  <1>4. Sums([s \in SUBSET Powers |-> W(s)])
    BY <1>1, <1>2, <1>3
  <1> DEFINE it == CHOOSE g : Sums(g)
  <1>5. Sums(it)
    <2> HIDE DEF Sums
    <2> QED
      BY <1>4
  <1>6. SumSet(Powers) = it[Powers]
    BY DEF SumSet, FoldSet, MapThenFoldSet, One
  <1> HIDE DEF it
  <1>7. it[{}] = 0 /\ \A s \in SUBSET Powers : s # {} => it[s] = One(s) + it[s \ {One(s)}]
    BY <1>5
  <1> DEFINE T == {n \in Nat : \A s \in SUBSET Powers : W(s) <= n => it[s] = W(s)}
  <1>8. 0 \in T
    <2> SUFFICES ASSUME NEW s \in SUBSET Powers, W(s) <= 0 PROVE it[s] = W(s)
      OBVIOUS
    <2>1. s = {}
      <3> SUFFICES ASSUME NEW x \in s PROVE FALSE
        OBVIOUS
      <3>1. W(s) = x + W(s \ {x}) /\ x \in Nat \ {0} /\ W(s \ {x}) \in Nat /\ W(s) \in Nat
        BY <1>2
      <3> QED
        BY <3>1
    <2> QED
      BY <1>1, <1>7, <2>1
  <1>9. ASSUME NEW n \in Nat, n \in T PROVE n + 1 \in T
    <2> SUFFICES ASSUME NEW s \in SUBSET Powers, W(s) <= n + 1, s # {} PROVE it[s] = W(s)
      BY <1>1, <1>7
    <2>1. One(s) \in s
      BY <1>3
    <2>2. W(s \ {One(s)}) <= n
      <3> DEFINE x == One(s)
      <3> HIDE DEF x
      <3>1. x \in s
        BY <2>1 DEF x
      <3>2. W(s) = x + W(s \ {x}) /\ x \in Nat \ {0} /\ W(s \ {x}) \in Nat /\ W(s) \in Nat
        BY <1>2, <3>1
      <3>3. W(s \ {x}) <= n
        BY <3>2
      <3> QED
        BY <3>3 DEF x
    <2>3. it[s \ {One(s)}] = W(s \ {One(s)})
      BY <1>2, <1>9, <2>1, <2>2
    <2> QED
      BY <1>2, <1>7, <2>1, <2>3
  <1> HIDE DEF T
  <1>10. Nat \subseteq T
    BY <1>8, <1>9, Induction
  <1>11. W(Powers) \in Nat
    BY BuildingType DEF Value, W
  <1>12. it[Powers] = W(Powers)
    BY <1>10, <1>11 DEF T
  <1>13. Places(Powers) = bits
    BY PowersDiffer DEF Powers
  <1> QED
    BY <1>6, <1>12, <1>13 DEF NumberOf, W, Powers, Pow

\* 16 bits make a number below 65536.
LEMMA ValueType ==
  ASSUME NEW bits
  PROVE  Value(bits) \in Nat /\ Value(bits) < 65536
  <1> DEFINE v == Building(bits)
             S == {m \in 0 .. 16 : v[m] < Pow(m)}
  <1>1. 0 \in S
    BY BuildingType, PowerOfNone
  <1>2. ASSUME NEW m \in 0 .. 15, m \in S PROVE m + 1 \in S
    <2>1. /\ v[m] \in Nat /\ v[m + 1] = Digit(15 - m, bits) + 2 * v[m]
          /\ Pow(m) \in Nat /\ Pow(m + 1) = 2 * Pow(m) /\ v[m] < Pow(m)
      BY <1>2, BuildingType, PowerDoubles
    <2>2. Digit(15 - m, bits) \in 0 .. 1
      BY DEF Digit
    <2> HIDE DEF v
    <2>3. v[m + 1] < Pow(m + 1)
      BY <2>1, <2>2
    <2> QED
      BY <2>3
  <1> HIDE DEF S
  <1>3. 16 \in S
    BY <1>1, <1>2, InductionUpTo
  <1>4. v[16] < Pow(16) /\ v[16] \in Nat
    BY <1>3, BuildingType DEF S
  <1>5. Pow(16) = 65536
    BY DEF Pow
  <1> HIDE DEF v
  <1>6. v[16] \in Nat /\ v[16] < 65536
    BY <1>4, <1>5
  <1> QED
    BY <1>6 DEF Value, v

\* Halving leaves the higher bits.
LEMMA ValueHalved ==
  ASSUME NEW bits, NEW n \in 0 .. 16
  PROVE  Value(bits) \div Pow(n) = Building(bits)[16 - n]
  <1> DEFINE v == Building(bits)
             S == {m \in 0 .. 16 : v[16] \div Pow(m) = v[16 - m]}
  <1>0. v[16] \in Nat
    BY BuildingType
  <1>1. 0 \in S
    BY <1>0, PowerOfNone
  <1>2. ASSUME NEW m \in 0 .. 15, m \in S PROVE m + 1 \in S
    <2> DEFINE k == 15 - m
    <2>1. k \in 0 .. 15 /\ k + 1 = 16 - m /\ 16 - (m + 1) = k /\ 15 - k = m
      OBVIOUS
    <2>2. v[k] \in Nat /\ v[k + 1] = Digit(15 - k, bits) + 2 * v[k]
      BY <2>1, BuildingType
    <2>3. v[16] \div Pow(m + 1) = (v[16] \div Pow(m)) \div 2
      BY <1>0, HalfAgain
    <2>4. v[16] \div Pow(m) = v[k + 1]
      BY <1>2, <2>1
    <2>5. Digit(15 - k, bits) \in 0 .. 1
      BY DEF Digit
    <2> HIDE DEF v, k
    <2>6. v[k + 1] \div 2 = v[k]
      BY <2>2, <2>5
    <2> QED
      BY <2>1, <2>3, <2>4, <2>6
  <1> HIDE DEF S
  <1>3. n \in S
    BY <1>1, <1>2, InductionUpTo
  <1> QED
    BY <1>3 DEF S, Value

\* A set of bits is the bits of its number.
LEMMA BitsOfNumber ==
  ASSUME NEW bits \in SUBSET (0 .. 15)
  PROVE  BitsOf(NumberOf(bits)) = bits /\ NumberOf(bits) \in Nat /\ NumberOf(bits) < 65536
  <1>1. NumberOf(bits) = Value(bits)
    BY SumOfBits
  <1>2. ASSUME NEW i \in 0 .. 15
        PROVE  (Value(bits) \div Pow(i)) % 2 = Digit(i, bits)
    <2> DEFINE v == Building(bits)
               k == 15 - i
    <2>1. k \in 0 .. 15 /\ k + 1 = 16 - i /\ 15 - k = i
      OBVIOUS
    <2>2. v[k] \in Nat /\ v[k + 1] = Digit(i, bits) + 2 * v[k]
      BY <2>1, BuildingType
    <2>3. Value(bits) \div Pow(i) = v[k + 1]
      BY <2>1, ValueHalved
    <2>4. Digit(i, bits) \in 0 .. 1
      BY DEF Digit
    <2> HIDE DEF v, k
    <2> QED
      BY <2>2, <2>3, <2>4
  <1>3. BitsOf(Value(bits)) = {i \in 0 .. 15 : (Value(bits) \div Pow(i)) % 2 = 1}
    BY DEF BitsOf, Pow
  <1>4. BitsOf(Value(bits)) = {i \in 0 .. 15 : Digit(i, bits) = 1}
    BY <1>2, <1>3
  <1>5. BitsOf(Value(bits)) = bits
    <2>1. \A i : Digit(i, bits) = 1 <=> i \in bits
      BY DEF Digit
    <2> QED
      BY <1>4, <2>1
  <1> QED
    BY <1>1, <1>5, ValueType

\* A number is the sum of its bits.
LEMMA NumberOfBits ==
  ASSUME NEW n \in Nat, n < 65536
  PROVE  NumberOf(BitsOf(n)) = n
  <1> DEFINE bits == BitsOf(n)
             v == Building(bits)
             S == {m \in 0 .. 16 : v[m] = n \div Pow(16 - m)}
  <1>1. 0 \in S
    <2>1. Pow(16) = 65536
      BY DEF Pow
    <2>2. n \div 65536 = 0
      OBVIOUS
    <2>3. v[0] = 0
      BY BuildingType
    <2> HIDE DEF v
    <2> QED
      BY <2>1, <2>2, <2>3
  <1>2. ASSUME NEW m \in 0 .. 15, m \in S PROVE m + 1 \in S
    <2> DEFINE k == 15 - m
    <2>1. k \in 0 .. 15 /\ k + 1 = 16 - m /\ 16 - (m + 1) = k
      OBVIOUS
    <2> HIDE DEF k
    <2>2. n \div Pow(k) \in Nat /\ n \div Pow(k + 1) = (n \div Pow(k)) \div 2
      BY <2>1, HalfAgain
    <2>3. PICK h \in Nat : h = n \div Pow(k)
      BY <2>2
    <2>4. n \div Pow(k + 1) = h \div 2
      BY <2>2, <2>3
    <2>5. v[m] = h \div 2 /\ v[m + 1] = Digit(k, bits) + 2 * v[m]
      BY <1>2, <2>1, <2>4, BuildingType
    <2>6. bits = {i \in 0 .. 15 : (n \div Pow(i)) % 2 = 1}
      BY DEF BitsOf, Pow
    <2>7. Digit(k, bits) = IF h % 2 = 1 THEN 1 ELSE 0
      BY <2>1, <2>6, <2>3 DEF Digit
    <2> HIDE DEF v, bits
    <2>8. v[m + 1] = h
      BY <2>4, <2>5, <2>7
    <2> QED
      BY <2>1, <2>8, <2>3
  <1> HIDE DEF S
  <1>3. 16 \in S
    BY <1>1, <1>2, InductionUpTo
  <1>4. v[16] = n
    BY <1>3, PowerOfNone DEF S
  <1>5. bits \in SUBSET (0 .. 15)
    BY DEF BitsOf
  <1>6. NumberOf(bits) = v[16]
    BY <1>5, SumOfBits DEF Value
  <1> QED
    BY <1>4, <1>6

\* A number of one byte has its bits in that byte.
LEMMA ByteHasEightBits ==
  ASSUME NEW n \in Nat, n < 256
  PROVE  BitsOf(n) \subseteq 0 .. 7
  <1> DEFINE S == {d \in 0 .. 7 : n \div Pow(8 + d) = 0}
  <1>1. 0 \in S
    <2>1. Pow(8) = 256
      BY DEF Pow
    <2> QED
      BY <2>1
  <1>2. ASSUME NEW d \in 0 .. 6, d \in S PROVE d + 1 \in S
    <2> DEFINE i == 8 + d
    <2>1. i \in 0 .. 15 /\ i + 1 = 8 + (d + 1)
      OBVIOUS
    <2>2. n \div Pow(i + 1) = (n \div Pow(i)) \div 2
      BY <2>1, HalfAgain
    <2>3. n \div Pow(i) = 0
      BY <1>2
    <2> HIDE DEF i
    <2>4. n \div Pow(i + 1) = 0
      BY <2>2, <2>3
    <2> QED
      BY <2>1, <2>4
  <1> HIDE DEF S
  <1>3. 0 .. 7 \subseteq S
    BY <1>1, <1>2, InductionUpTo
  <1>4. ASSUME NEW i \in 8 .. 15 PROVE (n \div Pow(i)) % 2 # 1
    <2>1. i - 8 \in S /\ 8 + (i - 8) = i
      BY <1>3
    <2>2. n \div Pow(i) = 0
      BY <2>1 DEF S
    <2> QED
      BY <2>2
  <1>5. BitsOf(n) = {i \in 0 .. 15 : (n \div Pow(i)) % 2 = 1}
    BY DEF BitsOf, Pow
  <1> QED
    BY <1>4, <1>5

\* Eight bits make a number below 256.
LEMMA EightBitsAreAByte ==
  ASSUME NEW bits \in SUBSET (0 .. 7)
  PROVE  NumberOf(bits) \in Nat /\ NumberOf(bits) < 256
  <1> DEFINE v == Building(bits)
             S == {m \in 0 .. 8 : v[m] = 0}
  <1>1. 0 \in S
    BY BuildingType
  <1>2. ASSUME NEW m \in 0 .. 7, m \in S PROVE m + 1 \in S
    <2>1. v[m] = 0 /\ v[m + 1] = Digit(15 - m, bits) + 2 * v[m]
      BY <1>2, BuildingType
    <2>2. Digit(15 - m, bits) = 0
      BY DEF Digit
    <2> HIDE DEF v
    <2>3. v[m + 1] = 0
      BY <2>1, <2>2
    <2> QED
      BY <2>3
  <1> HIDE DEF S
  <1>3. 8 \in S
    BY <1>1, <1>2, InductionUpTo
  <1>4. Value(bits) \div Pow(8) = v[8]
    BY ValueHalved
  <1>5. v[8] = 0 /\ Pow(8) = 256 /\ Value(bits) \in Nat
    BY <1>3, ValueType DEF S, Pow
  <1>6. NumberOf(bits) = Value(bits)
    BY SumOfBits
  <1> HIDE DEF v
  <1> QED
    BY <1>4, <1>5, <1>6
-----------------------------------------------------------------------------
(* Where the fields are.                                                   *)

\* The fields of a header, the first byte and the number of bytes of each.
Fields == DOMAIN HeaderLayout
First(f) == HeaderLayout[f][1]
Size(f) == HeaderLayout[f][2]

\* The fields of ch32mux_header_t.
LEMMA FieldNames ==
  Fields = {"magic", "version", "header_len", "total_len", "seq", "ref_seq", "ch_type", "ch_id",
            "msg_type", "opcode", "flags", "status", "payload_len", "header_crc16", "reserved"}
  BY DEF Fields, HeaderLayout

\* Where write_le16() and the assignments of serialize_header() put them.
LEMMA Places ==
  /\ First("magic") = 0 /\ Size("magic") = 2 /\ First("version") = 2 /\ Size("version") = 1
  /\ First("header_len") = 3 /\ Size("header_len") = 1
  /\ First("total_len") = 4 /\ Size("total_len") = 2 /\ First("seq") = 6 /\ Size("seq") = 2
  /\ First("ref_seq") = 8 /\ Size("ref_seq") = 2 /\ First("ch_type") = 10 /\ Size("ch_type") = 1
  /\ First("ch_id") = 11 /\ Size("ch_id") = 1 /\ First("msg_type") = 12 /\ Size("msg_type") = 1
  /\ First("opcode") = 13 /\ Size("opcode") = 1 /\ First("flags") = 14 /\ Size("flags") = 2
  /\ First("status") = 16 /\ Size("status") = 2
  /\ First("payload_len") = 18 /\ Size("payload_len") = 2
  /\ First("header_crc16") = 20 /\ Size("header_crc16") = 2
  /\ First("reserved") = 22 /\ Size("reserved") = 2
  BY DEF First, Size, HeaderLayout

\* Every field lies within the 24 bytes.
LEMMA FieldsInBounds ==
  ASSUME NEW f \in Fields
  PROVE  First(f) \in 0 .. 22 /\ Size(f) \in {1, 2} /\ First(f) + Size(f) <= 24
  BY FieldNames, Places

\* No two fields share a byte.
LEMMA FieldsDisjoint ==
  ASSUME NEW f \in Fields, NEW g \in Fields, f # g
  PROVE  First(f) + Size(f) <= First(g) \/ First(g) + Size(g) <= First(f)
  BY FieldNames, Places

\* Every byte belongs to a field.
LEMMA FieldsCover ==
  ASSUME NEW b \in 0 .. 23
  PROVE  \E f \in Fields : b \in First(f) .. First(f) + Size(f) - 1
  BY FieldNames, Places

\* The field a bit of the wire belongs to.
LEMMA BitHasPlace ==
  ASSUME NEW p \in 0 .. 191
  PROVE  \E f \in Fields : p \in 8 * First(f) .. 8 * (First(f) + Size(f)) - 1
  <1>1. PICK b \in 0 .. 23 : 8 * b <= p /\ p < 8 * b + 8
    <2>1. p \div 8 \in 0 .. 23 /\ 8 * (p \div 8) <= p /\ p < 8 * (p \div 8) + 8
      OBVIOUS
    <2> QED
      BY <2>1
  <1>2. PICK f \in Fields : b \in First(f) .. First(f) + Size(f) - 1
    BY FieldsCover
  <1>3. First(f) \in Nat /\ Size(f) \in Nat
    BY FieldsInBounds
  <1> QED
    BY <1>1, <1>2, <1>3

\* The fields of ch32mux_header_t hold numbers of one byte or of two.
Fits(h) ==
  /\ h = [f \in Fields |-> h[f]]
  /\ \A f \in Fields : h[f] \in Nat /\ (Size(f) = 1 => h[f] < 256) /\ (Size(f) = 2 => h[f] < 65536)

\* A value that fits its field has no bit outside it.
LEMMA BitsFit ==
  ASSUME NEW h, Fits(h), NEW f \in Fields
  PROVE  BitsOf(h[f]) \subseteq 0 .. 8 * Size(f) - 1
  <1>1. CASE Size(f) = 1
    BY <1>1, ByteHasEightBits DEF Fits
  <1>2. CASE Size(f) = 2
    BY <1>2 DEF BitsOf
  <1> QED
    BY <1>1, <1>2, FieldsInBounds

\* A bit on the wire is a bit of a field, moved to its place.
LEMMA BitsOnTheWire ==
  ASSUME NEW h, NEW p
  PROVE  p \in serialize_header(h) <=> \E f \in Fields : \E i \in BitsOf(h[f]) : p = 8 * First(f) + i
  BY DEF serialize_header, Spread, Fields, First

\* serialize_header() writes 24 bytes.
LEMMA HeaderOnTheWire ==
  ASSUME NEW h, Fits(h)
  PROVE  serialize_header(h) \subseteq 0 .. 191
  <1> SUFFICES ASSUME NEW f \in Fields, NEW i \in BitsOf(h[f])
               PROVE  8 * First(f) + i \in 0 .. 191
    BY BitsOnTheWire
  <1>1. i \in 0 .. 8 * Size(f) - 1
    BY BitsFit
  <1> QED
    BY <1>1, FieldsInBounds

\* What is found at the place of a field.
Found(w, f) == {i \in 0 .. 8 * Size(f) - 1 : 8 * First(f) + i \in w}

\* The bits at the place of a field are those of its value.
LEMMA FieldFound ==
  ASSUME NEW h, Fits(h), NEW f \in Fields
  PROVE  Found(serialize_header(h), f) = BitsOf(h[f])
  <1>1. ASSUME NEW i \in BitsOf(h[f])
        PROVE  i \in Found(serialize_header(h), f)
    BY BitsFit, BitsOnTheWire DEF Found
  <1>2. ASSUME NEW i \in 0 .. 8 * Size(f) - 1, 8 * First(f) + i \in serialize_header(h)
        PROVE  i \in BitsOf(h[f])
    <2>1. PICK g \in Fields : \E k \in BitsOf(h[g]) : 8 * First(f) + i = 8 * First(g) + k
      BY <1>2, BitsOnTheWire
    <2>0. PICK k \in BitsOf(h[g]) : 8 * First(f) + i = 8 * First(g) + k
      BY <2>1
    <2>2. k \in 0 .. 8 * Size(g) - 1
      BY BitsFit
    <2>3. /\ First(f) \in Nat /\ Size(f) \in Nat /\ First(g) \in Nat /\ Size(g) \in Nat
      BY FieldsInBounds
    <2>4. f = g
      BY <2>0, <2>2, <2>3, FieldsDisjoint
    <2> QED
      BY <2>0, <2>2, <2>3, <2>4
  <1> QED
    BY <1>1, <1>2 DEF Found

\* deserialize_header() makes a number of the bits at the place of a field.
LEMMA FieldGathered ==
  ASSUME NEW w, NEW f \in Fields
  PROVE  /\ deserialize_header(w)[f] = NumberOf(Found(w, f))
         /\ Found(w, f) \in SUBSET (0 .. 15)
         /\ Size(f) = 1 => Found(w, f) \in SUBSET (0 .. 7)
  <1>1. deserialize_header(w)[f] = NumberOf(Found(w, f))
    BY DEF deserialize_header, Gather, Found, Fields, First, Size
  <1> QED
    BY <1>1, FieldsInBounds DEF Found

\* Whatever is received, the values read fit their fields.
LEMMA GatheredFits ==
  ASSUME NEW w
  PROVE  Fits(deserialize_header(w))
  <1> DEFINE h == deserialize_header(w)
  <1>1. h = [f \in Fields |-> h[f]]
    BY DEF deserialize_header, Fields
  <1>2. ASSUME NEW f \in Fields
        PROVE  h[f] \in Nat /\ (Size(f) = 1 => h[f] < 256) /\ (Size(f) = 2 => h[f] < 65536)
    <2>1. h[f] \in Nat /\ h[f] < 65536
      BY FieldGathered, BitsOfNumber
    <2>2. Size(f) = 1 => h[f] < 256
      BY FieldGathered, EightBitsAreAByte
    <2> QED
      BY <2>1, <2>2
  <1> HIDE DEF h
  <1>3. Fits(h)
    BY <1>1, <1>2 DEF Fits
  <1> QED
    BY <1>3 DEF h

\* read_le16() reads back what write_le16() wrote, field by field.
LEMMA ReadsBack ==
  ASSUME NEW h, Fits(h)
  PROVE  deserialize_header(serialize_header(h)) = h
  <1> DEFINE w == serialize_header(h)
             g == deserialize_header(w)
  <1>1. ASSUME NEW f \in Fields PROVE g[f] = h[f]
    <2>1. g[f] = NumberOf(BitsOf(h[f]))
      BY FieldFound, FieldGathered
    <2>2. h[f] \in Nat /\ h[f] < 65536
      BY FieldsInBounds DEF Fits
    <2> QED
      BY <2>1, <2>2, NumberOfBits
  <1>2. g = [f \in Fields |-> g[f]]
    BY GatheredFits DEF Fits
  <1>3. h = [f \in Fields |-> h[f]]
    BY DEF Fits
  <1> HIDE DEF g
  <1>4. g = h
    BY <1>1, <1>2, <1>3
  <1> QED
    BY <1>4 DEF g

\* And the other way round: the fields leave no bit of the 24 bytes out.
LEMMA WritesBack ==
  ASSUME NEW w \in SUBSET (0 .. 191)
  PROVE  serialize_header(deserialize_header(w)) = w
  <1> DEFINE h == deserialize_header(w)
  <1>1. Fits(h)
    BY GatheredFits
  <1>2. \A f \in Fields : BitsOf(h[f]) = Found(w, f)
    BY FieldGathered, BitsOfNumber
  <1> HIDE DEF h
  <1>3. ASSUME NEW p \in w PROVE p \in serialize_header(h)
    <2>1. PICK f \in Fields : p \in 8 * First(f) .. 8 * (First(f) + Size(f)) - 1
      BY BitHasPlace
    <2>2. First(f) \in Nat /\ Size(f) \in Nat
      BY FieldsInBounds
    <2>3. p - 8 * First(f) \in 0 .. 8 * Size(f) - 1 /\ 8 * First(f) + (p - 8 * First(f)) = p
      BY <2>1, <2>2
    <2>4. p - 8 * First(f) \in BitsOf(h[f])
      BY <1>2, <2>3 DEF Found
    <2> QED
      BY <2>3, <2>4, BitsOnTheWire
  <1>4. ASSUME NEW p \in serialize_header(h) PROVE p \in w
    <2>1. PICK f \in Fields : \E i \in BitsOf(h[f]) : p = 8 * First(f) + i
      BY <1>4, BitsOnTheWire
    <2> QED
      BY <1>2, <2>1 DEF Found
  <1>5. serialize_header(h) = w
    BY <1>3, <1>4
  <1> QED
    BY <1>5 DEF h
-----------------------------------------------------------------------------
(* The shift register.                                                     *)

\* The 16 bit register.
Register == SUBSET (0 .. 15)

\* Exclusive or, bit by bit.
LEMMA SymDiffIn ==
  ASSUME NEW a, NEW b
  PROVE  \A x : x \in SymDiff(a, b) <=> ~ (x \in a <=> x \in b)
  BY DEF SymDiff

\* Exclusive or of two registers is a register.
LEMMA SymDiffRegister ==
  ASSUME NEW a \in Register, NEW b \in Register
  PROVE  SymDiff(a, b) \in Register
  BY DEF Register, SymDiff

\* A turn of the inner loop, bit by bit.
LEMMA ShiftOutIn ==
  ASSUME NEW c \in Register
  PROVE  \A j : j \in ShiftOut(c) <=>
                   j \in 0 .. 15 /\ ~ (j - 1 \in c <=> (15 \in c /\ j \in POLYNOMIAL))
  <1> DEFINE shifted == {i + 1 : i \in c \ {15}}
  <1>1. \A j : j \in shifted <=> j \in 1 .. 15 /\ j - 1 \in c
    BY DEF Register
  <1>2. ShiftOut(c) = IF 15 \in c THEN SymDiff(shifted, POLYNOMIAL) ELSE shifted
    BY DEF ShiftOut
  <1>3. -1 \notin c
    BY DEF Register
  <1> HIDE DEF shifted
  <1>4. \A j : j \in POLYNOMIAL => j \in 0 .. 15
    BY DEF POLYNOMIAL
  <1>5. \A j \in 0 .. 15 : j - 1 \in c => j \in 1 .. 15
    BY <1>3
  <1>6. \A j : j \in 1 .. 15 => j \in 0 .. 15
    OBVIOUS
  <1>7. CASE 15 \in c
    BY <1>1, <1>2, <1>4, <1>5, <1>6, <1>7, SymDiffIn
  <1>8. CASE 15 \notin c
    BY <1>1, <1>2, <1>5, <1>6, <1>8
  <1> QED
    BY <1>7, <1>8

\* A turn leaves 16 bits.
LEMMA ShiftOutType ==
  ASSUME NEW c \in Register
  PROVE  ShiftOut(c) \in Register
  BY ShiftOutIn DEF Register

\* A turn of the loop is linear: exclusive or goes through it.
LEMMA ShiftOutLinear ==
  ASSUME NEW a \in Register, NEW b \in Register
  PROVE  ShiftOut(SymDiff(a, b)) = SymDiff(ShiftOut(a), ShiftOut(b))
  <1> DEFINE d == SymDiff(a, b)
  <1>1. d \in Register
    BY SymDiffRegister
  <1>2. \A x : x \in d <=> ~ (x \in a <=> x \in b)
    BY SymDiffIn
  <1> HIDE DEF d
  <1>3. ASSUME NEW j
        PROVE  j \in ShiftOut(d) <=> j \in SymDiff(ShiftOut(a), ShiftOut(b))
    BY <1>1, <1>2, ShiftOutIn, SymDiffIn
  <1> QED
    BY <1>3 DEF d

\* No two registers become the same.
LEMMA ShiftOutKeepsBits ==
  ASSUME NEW c \in Register, ShiftOut(c) = {}
  PROVE  c = {}
  <1>1. \A j : j \in 0 .. 15 => (j - 1 \in c <=> (15 \in c /\ j \in POLYNOMIAL))
    BY ShiftOutIn
  <1>2. -1 \notin c
    BY DEF Register
  <1>3. 15 \notin c
    <2>1. 0 - 1 \in c <=> (15 \in c /\ 0 \in POLYNOMIAL)
      BY <1>1
    <2>2. 0 - 1 = -1 /\ 0 \in POLYNOMIAL
      BY DEF POLYNOMIAL
    <2> QED
      BY <1>2, <2>1, <2>2
  <1>4. ASSUME NEW i \in 0 .. 14, i \in c PROVE FALSE
    <2>1. i + 1 \in 0 .. 15 /\ i + 1 - 1 = i
      OBVIOUS
    <2>2. i + 1 - 1 \in c <=> (15 \in c /\ i + 1 \in POLYNOMIAL)
      BY <1>1, <2>1
    <2> QED
      BY <1>3, <1>4, <2>1, <2>2
  <1>5. \A i \in c : i \in 0 .. 15
    BY DEF Register
  <1>6. \A i \in c : i \in 0 .. 14
    BY <1>3, <1>5
  <1> QED
    BY <1>4, <1>6

\* The inner loop, turn by turn.
LEMMA EightTurnsUnrolled ==
  ASSUME NEW start \in Register
  PROVE  EightTurns(start) =
           ShiftOut(ShiftOut(ShiftOut(ShiftOut(ShiftOut(ShiftOut(ShiftOut(ShiftOut(start))))))))
  <1> DEFINE turn == [n \in 1 .. 8 |-> [c \in Register |-> ShiftOut(c)]]
             Next1(x) == UNION {ShiftOut(c) : c \in {x}}
             Runs(crc) == crc = [bit \in 0 .. 8 |->
                                   IF bit = 0 THEN start ELSE Next1(crc[bit - 1])]
  <1>1. turn \in [1 .. 8 -> [Register -> Register]]
    BY ShiftOutType
  <1>2. \A n \in 1 .. 8, c \in Register : turn[n][c] = ShiftOut(c)
    OBVIOUS
  <1> HIDE DEF turn
  <1>3. PICK g : Turns(g, Register, start, 8, turn)
    BY <1>1, Loop
  <1>4. /\ g \in [0 .. 8 -> Register] /\ g[0] = start
        /\ \A n \in 1 .. 8 : g[n] = ShiftOut(g[n - 1])
    <2>1. g \in [0 .. 8 -> Register] /\ g[0] = start /\ \A n \in 1 .. 8 : g[n] = turn[n][g[n - 1]]
      BY <1>3 DEF Turns
    <2>2. \A n \in 1 .. 8 : g[n - 1] \in Register
      BY <2>1
    <2> QED
      BY <1>2, <2>1, <2>2
  <1>0. \A x : Next1(x) = ShiftOut(x)
    OBVIOUS
  <1> HIDE DEF Next1
  <1>5. Runs(g)
    BY <1>4, <1>0
  <1> DEFINE crc == CHOOSE x : Runs(x)
  <1>6. Runs(crc)
    <2> HIDE DEF Runs
    <2> QED
      BY <1>5
  <1>7. EightTurns(start) = crc[8]
    BY DEF EightTurns, Next1
  <1> HIDE DEF crc
  <1>8. crc[0] = start
    BY <1>6
  <1>9. \A n \in 0 .. 7 : crc[n + 1] = ShiftOut(crc[n])
    <2> TAKE n \in 0 .. 7
    <2>1. n + 1 \in 0 .. 8 /\ n + 1 # 0 /\ n + 1 - 1 = n
      OBVIOUS
    <2>2. crc[n + 1] = Next1(crc[n + 1 - 1])
      BY <1>6, <2>1
    <2> QED
      BY <1>0, <2>1, <2>2
  <1> HIDE DEF Runs
  <1>10. /\ crc[1] = ShiftOut(crc[0]) /\ crc[2] = ShiftOut(crc[1]) /\ crc[3] = ShiftOut(crc[2])
         /\ crc[4] = ShiftOut(crc[3]) /\ crc[5] = ShiftOut(crc[4]) /\ crc[6] = ShiftOut(crc[5])
         /\ crc[7] = ShiftOut(crc[6]) /\ crc[8] = ShiftOut(crc[7])
    BY <1>9
  <1> QED
    BY <1>7, <1>8, <1>10

\* The inner loop leaves 16 bits.
LEMMA EightTurnsType ==
  ASSUME NEW c \in Register
  PROVE  EightTurns(c) \in Register
  BY ShiftOutType, EightTurnsUnrolled

\* The inner loop is linear.
LEMMA EightTurnsLinear ==
  ASSUME NEW a \in Register, NEW b \in Register
  PROVE  EightTurns(SymDiff(a, b)) = SymDiff(EightTurns(a), EightTurns(b))
  BY ShiftOutType, ShiftOutLinear, SymDiffRegister, EightTurnsUnrolled

\* The inner loop makes no two registers the same.
LEMMA EightTurnsKeepBits ==
  ASSUME NEW c \in Register, EightTurns(c) = {}
  PROVE  c = {}
  BY ShiftOutType, ShiftOutKeepsBits, EightTurnsUnrolled

\* The byte at n, in the high bits of the register.
ByteOf(w, n) == {i + 8 : i \in {j \in 0 .. 7 : 8 * n + j \in w}}

\* A byte is in the high half of the register.
LEMMA ByteType ==
  ASSUME NEW w, NEW n
  PROVE  ByteOf(w, n) \in SUBSET (8 .. 15) /\ ByteOf(w, n) \in Register
  BY DEF ByteOf, Register

\* The bits of a byte.
LEMMA ByteIn ==
  ASSUME NEW w, NEW n \in Nat
  PROVE  \A i : i \in ByteOf(w, n) <=> i \in 8 .. 15 /\ 8 * n + (i - 8) \in w
  <1>1. ASSUME NEW i \in 8 .. 15, 8 * n + (i - 8) \in w PROVE i \in ByteOf(w, n)
    <2>1. i - 8 \in 0 .. 7 /\ i - 8 + 8 = i
      OBVIOUS
    <2> QED
      BY <1>1, <2>1 DEF ByteOf
  <1>2. ASSUME NEW i \in ByteOf(w, n) PROVE i \in 8 .. 15 /\ 8 * n + (i - 8) \in w
    <2>1. PICK j \in 0 .. 7 : i = j + 8 /\ 8 * n + j \in w
      BY DEF ByteOf
    <2>2. i - 8 = j
      BY <2>1
    <2> QED
      BY <2>1, <2>2
  <1> QED
    BY <1>1, <1>2

\* One round of the outer loop.
Round(c, w, n) == EightTurns(SymDiff(c, ByteOf(w, n)))

\* A round leaves 16 bits.
LEMMA RoundType ==
  ASSUME NEW c \in Register, NEW w, NEW n
  PROVE  Round(c, w, n) \in Register
  BY EightTurnsType, SymDiffRegister, ByteType DEF Round

\* The register after each round.
Rounds(crc, w, len) ==
  /\ crc \in [0 .. len -> Register] /\ crc[0] = 0 .. 15
  /\ \A n \in 0 .. len - 1 : crc[n + 1] = Round(crc[n], w, n)

\* ch32mux_crc16() returns what the last round leaves.
LEMMA CrcOfRounds ==
  ASSUME NEW w, NEW len \in Nat
  PROVE  \E crc : Rounds(crc, w, len) /\ crc16(w, len) = crc[len]
  <1> DEFINE turn == [n \in 1 .. len |-> [c \in Register |-> Round(c, w, n - 1)]]
             Next1(x, n) == UNION {EightTurns(SymDiff(c, ByteOf(w, n - 1))) : c \in {x}}
             Runs(crc) == crc = [n \in 0 .. len |->
                                   IF n = 0 THEN 0 .. 15 ELSE Next1(crc[n - 1], n)]
  <1>0. \A x, n : Next1(x, n) = Round(x, w, n - 1)
    BY DEF Round
  <1> HIDE DEF Next1
  <1>1. turn \in [1 .. len -> [Register -> Register]]
    BY RoundType
  <1>2. \A n \in 1 .. len, c \in Register : turn[n][c] = Round(c, w, n - 1)
    OBVIOUS
  <1> HIDE DEF turn
  <1>3. 0 .. 15 \in Register
    BY DEF Register
  <1>4. PICK g : Turns(g, Register, 0 .. 15, len, turn)
    BY <1>1, <1>3, Loop
  <1>5. /\ g \in [0 .. len -> Register] /\ g[0] = 0 .. 15
        /\ \A n \in 1 .. len : g[n] = Round(g[n - 1], w, n - 1)
    <2>1. /\ g \in [0 .. len -> Register] /\ g[0] = 0 .. 15
          /\ \A n \in 1 .. len : g[n] = turn[n][g[n - 1]]
      BY <1>4 DEF Turns
    <2>2. \A n \in 1 .. len : g[n - 1] \in Register
      BY <2>1
    <2> QED
      BY <1>2, <2>1, <2>2
  <1>6. Runs(g)
    BY <1>0, <1>5
  <1> DEFINE crc == CHOOSE x : Runs(x)
  <1>7. Runs(crc)
    <2> HIDE DEF Runs
    <2> QED
      BY <1>6
  <1>8. crc16(w, len) = crc[len]
    BY DEF crc16, ByteOf, Next1
  <1> HIDE DEF crc
  <1>9. crc[0] = 0 .. 15
    BY <1>7
  <1>10. \A n \in 0 .. len - 1 : crc[n + 1] = Round(crc[n], w, n)
    <2>1. ASSUME NEW m \in 1 .. len PROVE crc[m] = Round(crc[m - 1], w, m - 1)
      <3>1. m \in 0 .. len /\ m # 0
        OBVIOUS
      <3>2. crc[m] = Next1(crc[m - 1], m)
        BY <1>7, <3>1
      <3> QED
        BY <1>0, <3>2
    <2> TAKE n \in 0 .. len - 1
    <2>2. PICK m \in 1 .. len : m = n + 1 /\ m - 1 = n
      OBVIOUS
    <2> QED
      BY <2>1, <2>2
  <1>11. crc = [n \in 0 .. len |-> crc[n]]
    BY <1>7
  <1> HIDE DEF Runs
  <1> DEFINE S == {n \in 0 .. len : crc[n] \in Register}
  <1>12. 0 \in S
    BY <1>3, <1>9
  <1>13. ASSUME NEW n \in 0 .. len - 1, n \in S PROVE n + 1 \in S
    BY <1>10, <1>13, RoundType
  <1> HIDE DEF S
  <1>14. 0 .. len \subseteq S
    BY <1>12, <1>13, InductionUpTo
  <1>15. \A n \in 0 .. len : crc[n] \in Register
    BY <1>14 DEF S
  <1>16. crc \in [0 .. len -> Register]
    BY <1>11, <1>15
  <1>17. Rounds(crc, w, len)
    BY <1>9, <1>10, <1>16 DEF Rounds
  <1> QED
    BY <1>8, <1>17

\* The first rounds do not depend on how many follow.
LEMMA RoundsAgree ==
  ASSUME NEW w, NEW m \in Nat, NEW len \in Nat, m <= len,
         NEW c, NEW d, Rounds(c, w, m), Rounds(d, w, len)
  PROVE  c[m] = d[m]
  <1> DEFINE S == {n \in 0 .. m : c[n] = d[n]}
  <1>1. 0 \in S
    <2>1. c[0] = 0 .. 15 /\ d[0] = 0 .. 15
      BY DEF Rounds
    <2> QED
      BY <2>1
  <1>2. ASSUME NEW n \in 0 .. m - 1, n \in S PROVE n + 1 \in S
    <2>1. n \in 0 .. len - 1 /\ n + 1 \in 0 .. m
      OBVIOUS
    <2>2. c[n + 1] = Round(c[n], w, n) /\ d[n + 1] = Round(d[n], w, n) /\ c[n] = d[n]
      BY <1>2, <2>1 DEF Rounds
    <2> QED
      BY <2>1, <2>2
  <1> HIDE DEF S
  <1>3. 0 .. m \subseteq S
    BY <1>1, <1>2, InductionUpTo
  <1>4. m \in S
    BY <1>3
  <1> QED
    BY <1>4 DEF S

\* ch32mux_crc16() byte by byte.
LEMMA CrcSteps ==
  ASSUME NEW w, NEW n \in Nat
  PROVE  /\ crc16(w, 0) = 0 .. 15
         /\ crc16(w, n) \in Register
         /\ crc16(w, n + 1) = Round(crc16(w, n), w, n)
  <1>1. PICK z : Rounds(z, w, 0) /\ crc16(w, 0) = z[0]
    BY CrcOfRounds
  <1>2. PICK c : Rounds(c, w, n) /\ crc16(w, n) = c[n]
    BY CrcOfRounds
  <1>3. n + 1 \in Nat
    OBVIOUS
  <1>4. PICK d : Rounds(d, w, n + 1) /\ crc16(w, n + 1) = d[n + 1]
    BY <1>3, CrcOfRounds
  <1>5. c[n] = d[n]
    BY <1>2, <1>3, <1>4, RoundsAgree
  <1>6. d[n + 1] = Round(d[n], w, n)
    BY <1>4 DEF Rounds
  <1>7. c[n] \in Register
    BY <1>2 DEF Rounds
  <1>8. z[0] = 0 .. 15
    BY <1>1 DEF Rounds
  <1> QED
    BY <1>1, <1>2, <1>4, <1>5, <1>6, <1>7, <1>8
-----------------------------------------------------------------------------
(* Headers as they are encoded.                                            *)

\* The values of a header that is sent fit their fields.
LEMMA SentFits ==
  ASSUME NEW h \in Headers
  PROVE  Fits(h) /\ h.payload_len \in 0 .. 488
  <1>1. ASSUME NEW f \in Fields, Size(f) = 1 PROVE h[f] \in Nat /\ h[f] < 256
    <2>1. h[f] \in 0 .. 256^1 - 1
      BY <1>1, HeadersAssumption DEF Fields, Size
    <2>2. 256^1 = 256
      OBVIOUS
    <2> QED
      BY <2>1, <2>2
  <1>2. ASSUME NEW f \in Fields, Size(f) = 2 PROVE h[f] \in Nat /\ h[f] < 65536
    <2>1. h[f] \in 0 .. 256^2 - 1
      BY <1>2, HeadersAssumption DEF Fields, Size
    <2>2. 256^2 = 65536
      OBVIOUS
    <2> QED
      BY <2>1, <2>2
  <1>3. h = [f \in Fields |-> h[f]]
    BY HeadersAssumption DEF Fields
  <1>4. Fits(h)
    BY <1>1, <1>2, <1>3, FieldsInBounds DEF Fits
  <1>5. h.payload_len \in Nat
    BY <1>4, FieldNames DEF Fits
  <1> QED
    BY <1>4, <1>5, HeadersAssumption DEF MAX_PAYLOAD, MAX_FRAME_LEN, HEADER_LEN

\* What ch32mux_encode_header() puts in the fields it does not take over.
Plain(h) ==
  [h EXCEPT !.magic = Codec!MAGIC, !.version = Codec!VERSION, !.header_len = HEADER_LEN,
            !.total_len = Codec!Uint16(HEADER_LEN + h.payload_len), !.header_crc16 = 0]

\* What encode_header() writes: Plain with its checksum.
Sealed(h) == [Plain(h) EXCEPT !.header_crc16 = NumberOf(crc16(serialize_header(Plain(h)), HEADER_LEN))]

\* encode_header() writes the sealed header.
LEMMA Encoded == \A h : encode_header(h) = serialize_header(Sealed(h))
  BY DEF encode_header, Sealed, Plain

\* The fields encode_header() sets itself.
Constants == {"magic", "version", "header_len", "total_len", "header_crc16"}

\* An assignment to a field leaves the others.
LEMMA OneFieldSet ==
  ASSUME NEW h, h = [f \in Fields |-> h[f]], NEW g \in Fields, NEW x
  PROVE  LET p == [h EXCEPT ![g] = x]
         IN  p = [f \in Fields |-> p[f]] /\ p[g] = x /\ \A f \in Fields : f # g => p[f] = h[f]
  OBVIOUS

\* What encode_header() sets before it computes the checksum.
LEMMA PlainFields ==
  ASSUME NEW h, h = [f \in Fields |-> h[f]], h.payload_len \in 0 .. 488
  PROVE  LET p == Plain(h)
         IN  /\ p = [f \in Fields |-> p[f]]
             /\ p.magic = 42330 /\ p.version = 1 /\ p.header_len = 24
             /\ p.total_len = 24 + h.payload_len /\ p.header_crc16 = 0
             /\ \A f \in Fields \ Constants : p[f] = h[f]
  <1> DEFINE p1 == [h  EXCEPT !["magic"] = Codec!MAGIC]
             p2 == [p1 EXCEPT !["version"] = Codec!VERSION]
             p3 == [p2 EXCEPT !["header_len"] = HEADER_LEN]
             p4 == [p3 EXCEPT !["total_len"] = Codec!Uint16(HEADER_LEN + h.payload_len)]
             p5 == [p4 EXCEPT !["header_crc16"] = 0]
  <1>1. Codec!MAGIC = 42330 /\ Codec!VERSION = 1 /\ HEADER_LEN = 24
    BY DEF Codec!MAGIC, Codec!VERSION, HEADER_LEN
  <1>2. Codec!Uint16(HEADER_LEN + h.payload_len) = 24 + h.payload_len
    BY DEF Codec!Uint16, Codec!RANGE16, HEADER_LEN
  <1>3. Plain(h) = p5
    BY DEF Plain
  <1>4. Constants \subseteq Fields
    BY FieldNames DEF Constants
  <1>5. p1 = [f \in Fields |-> p1[f]] /\ p1["magic"] = Codec!MAGIC
        /\ \A f \in Fields : f # "magic" => p1[f] = h[f]
    BY <1>4, OneFieldSet DEF Constants
  <1> HIDE DEF p1
  <1>6. p2 = [f \in Fields |-> p2[f]] /\ p2["version"] = Codec!VERSION
        /\ \A f \in Fields : f # "version" => p2[f] = p1[f]
    BY <1>4, <1>5, OneFieldSet DEF Constants
  <1> HIDE DEF p2
  <1>7. p3 = [f \in Fields |-> p3[f]] /\ p3["header_len"] = HEADER_LEN
        /\ \A f \in Fields : f # "header_len" => p3[f] = p2[f]
    BY <1>4, <1>6, OneFieldSet DEF Constants
  <1> HIDE DEF p3
  <1>8. p4 = [f \in Fields |-> p4[f]] /\ p4["total_len"] = Codec!Uint16(HEADER_LEN + h.payload_len)
        /\ \A f \in Fields : f # "total_len" => p4[f] = p3[f]
    BY <1>4, <1>7, OneFieldSet DEF Constants
  <1> HIDE DEF p4
  <1>9. p5 = [f \in Fields |-> p5[f]] /\ p5["header_crc16"] = 0
        /\ \A f \in Fields : f # "header_crc16" => p5[f] = p4[f]
    BY <1>4, <1>8, OneFieldSet DEF Constants
  <1> HIDE DEF p5
  <1> QED
    BY <1>1, <1>2, <1>3, <1>4, <1>5, <1>6, <1>7, <1>8, <1>9 DEF Constants

\* The values it sets fit their fields.
LEMMA PlainFits ==
  ASSUME NEW h \in Headers
  PROVE  Fits(Plain(h))
  <1> DEFINE p == Plain(h)
  <1>1. Fits(h) /\ h.payload_len \in 0 .. 488
    BY SentFits
  <1>2. h = [f \in Fields |-> h[f]]
    BY <1>1 DEF Fits
  <1>3. /\ p = [f \in Fields |-> p[f]]
        /\ p["magic"] = 42330 /\ p["version"] = 1 /\ p["header_len"] = 24
        /\ p["total_len"] = 24 + h.payload_len /\ p["header_crc16"] = 0
        /\ \A f \in Fields \ Constants : p[f] = h[f]
    BY <1>1, <1>2, PlainFields
  <1> HIDE DEF p
  <1>4. ASSUME NEW f \in Fields \ Constants
        PROVE  p[f] \in Nat /\ (Size(f) = 1 => p[f] < 256) /\ (Size(f) = 2 => p[f] < 65536)
    BY <1>1, <1>3 DEF Fits
  <1>5. ASSUME NEW f \in Constants
        PROVE  p[f] \in Nat /\ (Size(f) = 1 => p[f] < 256) /\ (Size(f) = 2 => p[f] < 65536)
    <2>1. /\ Size("magic") = 2 /\ Size("version") = 1 /\ Size("header_len") = 1
          /\ Size("total_len") = 2 /\ Size("header_crc16") = 2
      BY Places
    <2> QED
      BY <1>1, <1>3, <2>1 DEF Constants
  <1> QED
    BY <1>3, <1>4, <1>5 DEF Fits, p

\* The checksum is the last field to be set.
LEMMA SealedFields ==
  ASSUME NEW h \in Headers
  PROVE  LET s == Sealed(h)
         IN  /\ Fits(s)
             /\ s.header_crc16 = NumberOf(crc16(serialize_header(Plain(h)), HEADER_LEN))
             /\ \A f \in Fields : f # "header_crc16" => s[f] = Plain(h)[f]
  <1> DEFINE p == Plain(h)
             sum == NumberOf(crc16(serialize_header(p), HEADER_LEN))
             s == [p EXCEPT !["header_crc16"] = sum]
  <1>1. Fits(p)
    BY PlainFits
  <1>2. "header_crc16" \in Fields /\ Size("header_crc16") = 2
    BY FieldNames, Places
  <1>3. sum \in Nat /\ sum < 65536
    <2>1. HEADER_LEN \in Nat
      BY DEF HEADER_LEN
    <2> QED
      BY <2>1, CrcSteps, BitsOfNumber DEF Register
  <1>4. Sealed(h) = s
    BY DEF Sealed
  <1> HIDE DEF p, sum
  <1>5. p = [f \in Fields |-> p[f]]
    BY <1>1 DEF Fits
  <1>6. s = [f \in Fields |-> s[f]] /\ s["header_crc16"] = sum
        /\ \A f \in Fields : f # "header_crc16" => s[f] = p[f]
    BY <1>2, <1>5, OneFieldSet
  <1> HIDE DEF s
  <1>7. Fits(s)
    BY <1>1, <1>2, <1>3, <1>6 DEF Fits
  <1> QED
    BY <1>4, <1>6, <1>7 DEF p, sum

-----------------------------------------------------------------------------
(* Headers as they are decoded.                                            *)

\* The copy header_crc_matches() clears the checksum of.
Cleared(h) == [h EXCEPT !["header_crc16"] = 0]

\* The copy differs in the checksum only.
LEMMA ClearedFields ==
  ASSUME NEW h, h = [f \in Fields |-> h[f]]
  PROVE  /\ Cleared(h) = [f \in Fields |-> Cleared(h)[f]] /\ Cleared(h)["header_crc16"] = 0
         /\ \A f \in Fields : f # "header_crc16" => Cleared(h)[f] = h[f]
  <1>1. "header_crc16" \in Fields
    BY FieldNames
  <1> QED
    BY <1>1, OneFieldSet DEF Cleared

\* To read the field of the checksum as 0 is to clear it in the copy.
LEMMA ClearedOnTheWire ==
  ASSUME NEW w \in SUBSET (0 .. 191)
  PROVE  serialize_header(Cleared(deserialize_header(w))) = w \ CrcBits
  <1> DEFINE x == w \ CrcBits
             h == deserialize_header(w)
             g == deserialize_header(x)
  <1>1. CrcBits = 160 .. 175
    BY Places DEF CrcBits, First
  <1>2. First("header_crc16") = 20 /\ Size("header_crc16") = 2 /\ "header_crc16" \in Fields
    BY Places, FieldNames
  <1>3. Found(x, "header_crc16") = {}
    BY <1>1, <1>2 DEF Found
  <1>4. ASSUME NEW f \in Fields, f # "header_crc16"
        PROVE  Found(x, f) = Found(w, f)
    <2>1. First(f) + Size(f) <= 20 \/ 22 <= First(f)
      BY <1>2, <1>4, FieldsDisjoint
    <2>2. First(f) \in Nat /\ Size(f) \in Nat
      BY FieldsInBounds
    <2>3. \A i \in 0 .. 8 * Size(f) - 1 : 8 * First(f) + i \notin 160 .. 175
      BY <2>1, <2>2
    <2> QED
      BY <1>1, <2>3 DEF Found
  <1>5. NumberOf({}) = 0
    BY SumOfBits, ValueOfNone
  <1>6. g["header_crc16"] = 0
    <2> HIDE DEF x
    <2>1. g["header_crc16"] = NumberOf(Found(x, "header_crc16"))
      BY <1>2, FieldGathered
    <2> HIDE DEF g
    <2> QED
      BY <1>3, <1>5, <2>1
  <1>7. \A f \in Fields : f # "header_crc16" => g[f] = h[f]
    BY <1>4, FieldGathered
  <1>8. g = [f \in Fields |-> g[f]] /\ h = [f \in Fields |-> h[f]]
    BY GatheredFits DEF Fits
  <1>9. serialize_header(g) = x
    BY WritesBack
  <1> HIDE DEF g, h
  <1>10. Cleared(h) = [f \in Fields |-> Cleared(h)[f]] /\ Cleared(h)["header_crc16"] = 0
         /\ \A f \in Fields : f # "header_crc16" => Cleared(h)[f] = h[f]
    BY <1>8, ClearedFields
  <1>11. Cleared(h) = g
    <2>1. \A f \in Fields : Cleared(h)[f] = g[f]
      BY <1>6, <1>7, <1>10
    <2> QED
      BY <1>8, <1>10, <2>1
  <1> QED
    BY <1>9, <1>11 DEF h

\* Nothing is lost in MuxCodec's view of a header.
LEMMA ConcreteIsCleared ==
  ASSUME NEW h, h = [f \in Fields |-> h[f]]
  PROVE  Concrete([Abstract(h) EXCEPT !.header_crc16 = 0]) = Cleared(h)
  <1> DEFINE a == [Abstract(h) EXCEPT !.header_crc16 = 0]
             c == Concrete(a)
  <1>1. /\ a.rest = [f \in Carried |-> h[f]] /\ a.magic = h.magic /\ a.version = h.version
        /\ a.header_len = h.header_len /\ a.total_len = h.total_len
        /\ a.payload_len = h.payload_len /\ a.header_crc16 = 0
    BY DEF Abstract
  <1> HIDE DEF a
  <1>2. c = [f \in Fields |-> IF f \in Carried THEN a.rest[f] ELSE a[f]]
    BY DEF Concrete, Fields
  <1>3. \A f \in Fields : f \in Carried => c[f] = h[f]
    BY <1>1, <1>2
  <1>4. \A f \in Fields \ Carried :
          f \in {"magic", "version", "header_len", "total_len", "payload_len", "header_crc16"}
    BY FieldNames DEF Carried
  <1>5. \A f \in Fields \ Carried : c[f] = IF f = "header_crc16" THEN 0 ELSE h[f]
    BY <1>1, <1>2, <1>4
  <1>6. "header_crc16" \notin Carried
    BY DEF Carried
  <1>7. c = [f \in Fields |-> c[f]]
    BY <1>2
  <1> HIDE DEF c
  <1>8. Cleared(h) = [f \in Fields |-> Cleared(h)[f]] /\ Cleared(h)["header_crc16"] = 0
        /\ \A f \in Fields : f # "header_crc16" => Cleared(h)[f] = h[f]
    BY ClearedFields
  <1>9. \A f \in Fields : c[f] = Cleared(h)[f]
    BY <1>3, <1>5, <1>6, <1>8
  <1>10. c = Cleared(h)
    BY <1>7, <1>8, <1>9
  <1> QED
    BY <1>10 DEF c, a

\* The two ways to compute the checksum agree.
LEMMA SameChecksum ==
  ASSUME NEW w \in SUBSET (0 .. 191)
  PROVE  Codec!ChecksumOf(Abstract(deserialize_header(w))) = NumberOf(crc16(w \ CrcBits, HEADER_LEN))
  <1>1. deserialize_header(w) = [f \in Fields |-> deserialize_header(w)[f]]
    BY GatheredFits DEF Fits
  <1>2. Codec!ChecksumOf(Abstract(deserialize_header(w)))
          = NumberOf(crc16(serialize_header(Concrete(
              [Abstract(deserialize_header(w)) EXCEPT !.header_crc16 = 0])), HEADER_LEN))
    BY DEF Codec!ChecksumOf
  <1> QED
    BY <1>1, <1>2, ConcreteIsCleared, ClearedOnTheWire

\* decode_header() of the bytes decides as MuxCodec does of the header.
LEMMA SameDecision ==
  ASSUME NEW w \in SUBSET (0 .. 191), NEW n \in Nat
  PROVE  decode_header(w, n) = Codec!decode_header(Abstract(deserialize_header(w)), n)
  <1> DEFINE h == deserialize_header(w)
             a == Abstract(h)
             sum == NumberOf(crc16(w \ CrcBits, HEADER_LEN))
  <1>1. /\ a.magic = h.magic /\ a.version = h.version /\ a.header_len = h.header_len
        /\ a.total_len = h.total_len /\ a.payload_len = h.payload_len
        /\ a.header_crc16 = h.header_crc16
    BY DEF Abstract
  <1>2. Codec!ChecksumOf(a) = sum
    BY SameChecksum
  <1>3. Codec!LengthsAgree(a) <=> Codec!LengthsAgree(h)
    BY <1>1 DEF Codec!LengthsAgree
  <1>4. ChecksumAgrees(w, h) <=> sum = h.header_crc16
    BY DEF ChecksumAgrees
  <1>5. Codec!HEADER_LEN = HEADER_LEN /\ Codec!MAX_FRAME_LEN = MAX_FRAME_LEN
    BY DEF Codec!HEADER_LEN, HEADER_LEN, Codec!MAX_FRAME_LEN, MAX_FRAME_LEN
  <1>6. decode_header(w, n) =
          IF n < HEADER_LEN THEN "ERR_PROTO"
          ELSE IF h.magic # Codec!MAGIC \/ h.version # Codec!VERSION
                  \/ h.header_len # HEADER_LEN \/ ~ Codec!LengthsAgree(h) THEN "ERR_PROTO"
          ELSE IF h.total_len > MAX_FRAME_LEN THEN "ERR_OVERFLOW"
          ELSE IF ~ ChecksumAgrees(w, h) THEN "ERR_PROTO"
          ELSE "OK"
    BY DEF decode_header
  <1> HIDE DEF h, a, sum
  <1>7. Codec!decode_stage(a, n) =
          IF n < HEADER_LEN THEN "short"
          ELSE IF h.magic # Codec!MAGIC THEN "magic"
          ELSE IF h.version # Codec!VERSION THEN "version"
          ELSE IF h.header_len # HEADER_LEN THEN "header_len"
          ELSE IF ~ Codec!LengthsAgree(h) THEN "total_len"
          ELSE IF h.total_len > MAX_FRAME_LEN THEN "too_long"
          ELSE IF sum # h.header_crc16 THEN "crc"
          ELSE "accepted"
    BY <1>1, <1>2, <1>3, <1>5 DEF Codec!decode_stage
  <1>8. decode_header(w, n) = Codec!decode_header(a, n)
    BY <1>4, <1>6, <1>7 DEF Codec!decode_header, Codec!ResultOf
  <1> QED
    BY <1>8 DEF a, h
-----------------------------------------------------------------------------
(* A header that arrives whole.                                            *)

\* What is sent without the bits of the checksum, and what is received of it.
LEMMA EncodedHeader ==
  ASSUME NEW h \in Headers
  PROVE  /\ encode_header(h) \in SUBSET (0 .. 191)
         /\ deserialize_header(encode_header(h)) = Sealed(h)
         /\ encode_header(h) \ CrcBits = serialize_header(Plain(h))
  <1> DEFINE s == Sealed(h)
             p == Plain(h)
             w == encode_header(h)
  <1>1. Fits(s) /\ \A f \in Fields : f # "header_crc16" => s[f] = p[f]
    BY SealedFields
  <1>2. Fits(h) /\ h.payload_len \in 0 .. 488
    BY SentFits
  <1>3. h = [f \in Fields |-> h[f]]
    BY <1>2 DEF Fits
  <1>4. p = [f \in Fields |-> p[f]] /\ p["header_crc16"] = 0
    BY <1>2, <1>3, PlainFields
  <1>5. w = serialize_header(s)
    BY Encoded
  <1> HIDE DEF s, p, w
  <1>6. w \in SUBSET (0 .. 191)
    BY <1>1, <1>5, HeaderOnTheWire
  <1>7. deserialize_header(w) = s
    BY <1>1, <1>5, ReadsBack
  <1>8. Cleared(s) = p
    <2>1. s = [f \in Fields |-> s[f]]
      BY <1>1 DEF Fits
    <2>2. /\ Cleared(s) = [f \in Fields |-> Cleared(s)[f]] /\ Cleared(s)["header_crc16"] = 0
          /\ \A f \in Fields : f # "header_crc16" => Cleared(s)[f] = s[f]
      BY <2>1, ClearedFields
    <2>3. \A f \in Fields : Cleared(s)[f] = p[f]
      BY <1>1, <1>4, <2>2
    <2> QED
      BY <1>4, <2>2, <2>3
  <1>9. w \ CrcBits = serialize_header(p)
    BY <1>6, <1>7, <1>8, ClearedOnTheWire
  <1> QED
    BY <1>6, <1>7, <1>9 DEF s, p, w

\* s is h with the constants of the protocol and with a checksum.
SealedAs(h, s, sum) ==
  /\ s.magic = 42330 /\ s.version = 1 /\ s.header_len = 24
  /\ s.total_len = 24 + h.payload_len /\ s.header_crc16 = sum
  /\ \A f \in Fields \ Constants : s[f] = h[f]
  /\ h.payload_len \in 0 .. 488

\* A sealed header is such a header.
LEMMA SealedShape ==
  ASSUME NEW h \in Headers
  PROVE  SealedAs(h, Sealed(h), NumberOf(crc16(encode_header(h) \ CrcBits, HEADER_LEN)))
  <1> DEFINE s == Sealed(h)
             p == Plain(h)
             sum == NumberOf(crc16(serialize_header(Plain(h)), HEADER_LEN))
  <1>1. s.header_crc16 = sum /\ \A f \in Fields : f # "header_crc16" => s[f] = p[f]
    BY SealedFields
  <1>2. Fits(h) /\ h.payload_len \in 0 .. 488
    BY SentFits
  <1>3. h = [f \in Fields |-> h[f]]
    BY <1>2 DEF Fits
  <1>4. /\ p.magic = 42330 /\ p.version = 1 /\ p.header_len = 24
        /\ p.total_len = 24 + h.payload_len
        /\ \A f \in Fields \ Constants : p[f] = h[f]
    BY <1>2, <1>3, PlainFields
  <1>5. sum = NumberOf(crc16(encode_header(h) \ CrcBits, HEADER_LEN))
    BY EncodedHeader
  <1> HIDE DEF s, p, sum
  <1>6. s.magic = p.magic /\ s.version = p.version /\ s.header_len = p.header_len
        /\ s.total_len = p.total_len
    BY <1>1, FieldNames
  <1>7. \A f \in Fields \ Constants : s[f] = h[f]
    BY <1>1, <1>4 DEF Constants
  <1> QED
    BY <1>1, <1>2, <1>4, <1>5, <1>6, <1>7 DEF s, SealedAs

\* What encode_header() writes passes every check of decode_header(), and what
\* the caller set comes back.
LEMMA EncodedIsAccepted ==
  ASSUME NEW h \in Headers
  PROVE  /\ decode_header(encode_header(h), HEADER_LEN) = "OK"
         /\ \A f \in Carried \cup {"payload_len"} :
              deserialize_header(encode_header(h))[f] = h[f]
  <1> DEFINE s == Sealed(h)
             w == encode_header(h)
             sum == NumberOf(crc16(w \ CrcBits, HEADER_LEN))
  <1>1. deserialize_header(w) = s
    BY EncodedHeader
  <1>0. SealedAs(h, s, sum)
    BY SealedShape
  <1> HIDE DEF s, w, sum
  <1>2. /\ s.magic = 42330 /\ s.version = 1 /\ s.header_len = 24
        /\ s.total_len = 24 + h.payload_len /\ s.header_crc16 = sum
        /\ \A f \in Fields \ Constants : s[f] = h[f]
        /\ h.payload_len \in 0 .. 488
    BY <1>0 DEF SealedAs
  <1>3. s.payload_len = h.payload_len
    BY <1>2, FieldNames DEF Constants
  <1>4. s.magic = Codec!MAGIC /\ s.version = Codec!VERSION
    BY <1>2 DEF Codec!MAGIC, Codec!VERSION
  <1>5. HEADER_LEN = 24 /\ MAX_FRAME_LEN = 512
    BY DEF HEADER_LEN, MAX_FRAME_LEN
  <1>6. Codec!LengthsAgree(s)
    BY <1>2, <1>3 DEF Codec!LengthsAgree, Codec!Uint16, Codec!RANGE16
  <1>7. ChecksumAgrees(w, s)
    BY <1>2 DEF ChecksumAgrees, sum
  <1>8. s.total_len <= MAX_FRAME_LEN
    BY <1>2, <1>5
  <1>9. decode_header(w, HEADER_LEN) = "OK"
    BY <1>1, <1>2, <1>4, <1>5, <1>6, <1>7, <1>8 DEF decode_header
  <1>10. Carried \cup {"payload_len"} \subseteq Fields \ Constants
    BY FieldNames DEF Carried, Constants
  <1> QED
    BY <1>1, <1>2, <1>9, <1>10 DEF w

\* encode_header() of the bytes is that of MuxCodec.
LEMMA EncodedAgrees ==
  ASSUME NEW h \in Headers
  PROVE  Abstract(deserialize_header(encode_header(h)))
           = Codec!encode_header([f \in Carried |-> h[f]], h.payload_len)
  <1> DEFINE s    == Sealed(h)
             rest == [f \in Carried |-> h[f]]
             u    == Codec!Unsealed(rest, h.payload_len)
             sum  == NumberOf(crc16(encode_header(h) \ CrcBits, HEADER_LEN))
  <1>1. deserialize_header(encode_header(h)) = s
    BY EncodedHeader
  <1>0. SealedAs(h, s, sum)
    BY SealedShape
  <1>3. u = [magic |-> Codec!MAGIC, version |-> Codec!VERSION, header_len |-> HEADER_LEN,
             total_len |-> Codec!Uint16(HEADER_LEN + h.payload_len),
             payload_len |-> h.payload_len, rest |-> rest, header_crc16 |-> 0]
    BY DEF Codec!Unsealed, Codec!HEADER_LEN, HEADER_LEN
  <1>4. Abstract(s) = [magic |-> s.magic, version |-> s.version, header_len |-> s.header_len,
                       total_len |-> s.total_len, payload_len |-> s.payload_len,
                       rest |-> [f \in Carried |-> s[f]], header_crc16 |-> s.header_crc16]
    BY DEF Abstract
  <1> HIDE DEF s, sum, u
  <1>2. /\ s.magic = 42330 /\ s.version = 1 /\ s.header_len = 24
        /\ s.total_len = 24 + h.payload_len /\ s.header_crc16 = sum
        /\ \A f \in Fields \ Constants : s[f] = h[f]
        /\ h.payload_len \in 0 .. 488
    BY <1>0 DEF SealedAs
  <1>5. s.payload_len = h.payload_len /\ [f \in Carried |-> s[f]] = rest
    <2>1. Carried \cup {"payload_len"} \subseteq Fields \ Constants
      BY FieldNames DEF Carried, Constants
    <2> QED
      BY <1>2, <2>1
  <1> HIDE DEF rest
  <1>6. /\ s.magic = Codec!MAGIC /\ s.version = Codec!VERSION /\ s.header_len = HEADER_LEN
        /\ s.total_len = Codec!Uint16(HEADER_LEN + h.payload_len)
    BY <1>2 DEF Codec!MAGIC, Codec!VERSION, HEADER_LEN, Codec!Uint16, Codec!RANGE16
  <1>7. Abstract(s) = [u EXCEPT !.header_crc16 = sum]
    BY <1>2, <1>3, <1>4, <1>5, <1>6
  <1>8. [Abstract(s) EXCEPT !.header_crc16 = 0] = u
    <2>1. /\ u = [f \in DOMAIN u |-> u[f]] /\ "header_crc16" \in DOMAIN u
          /\ u["header_crc16"] = 0
      BY <1>3
    <2>2. ASSUME NEW g, g = [f \in DOMAIN g |-> g[f]], NEW c \in DOMAIN g, NEW x
          PROVE  [[g EXCEPT ![c] = x] EXCEPT ![c] = g[c]] = g
      BY <2>2
    <2>3. [[u EXCEPT !["header_crc16"] = sum] EXCEPT !["header_crc16"] = u["header_crc16"]] = u
      BY ONLY <2>1, <2>2
    <2> QED
      BY <1>7, <2>1, <2>3
  <1>9. Codec!ChecksumOf(u) = sum
    <2>1. [u EXCEPT !.header_crc16 = 0] = u
      BY <1>3
    <2>2. Codec!ChecksumOf(Abstract(s)) = Codec!ChecksumOf(u)
      BY <1>8, <2>1 DEF Codec!ChecksumOf
    <2>3. encode_header(h) \in SUBSET (0 .. 191)
      BY EncodedHeader
    <2>4. Codec!ChecksumOf(Abstract(s)) = sum
      BY <1>1, <2>3, SameChecksum DEF sum
    <2> QED
      BY <2>2, <2>4
  <1>10. Codec!encode_header(rest, h.payload_len) = [u EXCEPT !.header_crc16 = sum]
    BY <1>9 DEF Codec!encode_header, u
  <1> QED
    BY <1>1, <1>7, <1>10 DEF s, rest
-----------------------------------------------------------------------------
(* What is read.                                                           *)

\* No parser reads past the bytes it has asked for.
LEMMA LayoutsRead ==
  /\ BytesRead(HeaderLayout) \subseteq 0 .. 23
  /\ BytesRead(HintLayout) \subseteq 0 .. 7
  /\ BytesRead(ScanLayout) \subseteq 0 .. 15
  <1>1. BytesRead(HeaderLayout) \subseteq 0 .. 23
    <2>1. \A b \in BytesRead(HeaderLayout) : \E f \in Fields : b \in First(f) .. First(f) + Size(f) - 1
      BY DEF BytesRead, Fields, First, Size
    <2> QED
      BY <2>1, FieldsInBounds
  <1>2. BytesRead(HintLayout) \subseteq 0 .. 7
    BY DEF BytesRead, HintLayout
  <1>3. BytesRead(ScanLayout) \subseteq 0 .. 15
    BY DEF BytesRead, ScanLayout
  <1> QED
    BY <1>1, <1>2, <1>3
-----------------------------------------------------------------------------
(* What is on the wire.                                                    *)

\* The bits turned are few, or close to each other.
Few    == Cardinality(flips) <= MaxFlips
Narrow == \A a, b \in flips : a < b => b - a < MaxBurst

\* A header on the wire is an encoded one with the turned bits, and bits are
\* turned only of one that arrived whole; hints and scan reports are left alone.
HeaderOnWire ==
  /\ \E h \in Headers : message = Sent(h) /\ wire = SymDiff(encode_header(h), flips)
  /\ flips \in SUBSET (0 .. 8 * HEADER_LEN - 1)
  /\ got \in 0 .. HEADER_LEN
  /\ flips # {} => got = HEADER_LEN /\ (Few \/ Narrow)
HintOnWire   == message = Hint /\ flips = {} /\ got \in 0 .. EP_HINT_SIZE
ReportOnWire == message = Report /\ flips = {} /\ got \in 0 .. 16

\* The inductive invariant.
OnTheWire == HeaderOnWire \/ HintOnWire \/ ReportOnWire

\* What is on the wire tells its kind.
LEMMA Kinds ==
  /\ HeaderOnWire => message.kind = "header"
  /\ HintOnWire   => message.kind = "hint"
  /\ ReportOnWire => message.kind = "report"
  BY DEF HeaderOnWire, HintOnWire, ReportOnWire, Sent, Hint, Report

\* Exclusive or with nothing.
LEMMA NothingTurned ==
  ASSUME NEW w
  PROVE  SymDiff(w, {}) = w
  BY DEF SymDiff

\* What is sent is on the wire.
LEMMA InitOnTheWire == Init => OnTheWire
  <1> SUFFICES ASSUME Init PROVE OnTheWire
    OBVIOUS
  <1>1. CASE \E h \in Headers :
               message = Sent(h) /\ wire = encode_header(h) /\ got = HEADER_LEN
    <2>1. HEADER_LEN \in 0 .. HEADER_LEN
      BY DEF HEADER_LEN
    <2> QED
      BY <1>1, <2>1, NothingTurned DEF Init, OnTheWire, HeaderOnWire
  <1>2. CASE message = Hint /\ got = EP_HINT_SIZE
    BY <1>2 DEF Init, OnTheWire, HintOnWire, EP_HINT_SIZE
  <1>3. CASE message = Report /\ got = 16
    BY <1>3 DEF Init, OnTheWire, ReportOnWire
  <1> QED
    BY <1>1, <1>2, <1>3 DEF Init

\* A turned bit is one more of a few, or within the bits in a row.
LEMMA TurnOnTheWire ==
  ASSUME OnTheWire, NEW b \in 0 .. 8 * HEADER_LEN - 1, Turn(b)
  PROVE  OnTheWire'
  <1>1. HeaderOnWire
    BY Kinds DEF OnTheWire, Turn
  <1>2. PICK h \in Headers : message = Sent(h) /\ wire = SymDiff(encode_header(h), flips)
    BY <1>1 DEF HeaderOnWire
  <1>3. b \notin flips /\ flips \in SUBSET (0 .. 191) /\ b \in 0 .. 191
    BY <1>1 DEF Turn, HeaderOnWire, HEADER_LEN
  <1>4. wire' = SymDiff(encode_header(h), flips')
    BY <1>2, <1>3 DEF Turn, SymDiff
  <1>5. flips' \in SUBSET (0 .. 8 * HEADER_LEN - 1)
    BY <1>3 DEF Turn, HEADER_LEN
  <1>6. (Few \/ Narrow)'
    <2>1. CASE Cardinality(flips) < MaxFlips
      <3>1. IsFiniteSet(flips)
        <4>1. \A m, n \in Int : IsFiniteSet(m .. n)
          BY FS_Interval
        <4>2. 0 \in Int /\ 191 \in Int
          OBVIOUS
        <4>3. IsFiniteSet(0 .. 191)
          BY <4>1, <4>2
        <4> QED
          BY <1>3, <4>3, FS_Subset
      <3>2. Cardinality(flips \cup {b}) = Cardinality(flips) + 1 /\ Cardinality(flips) \in Nat
        BY <1>3, <3>1, FS_AddElement, FS_CardinalityType
      <3>3. MaxFlips \in Nat
        BY DamageAssumption
      <3>4. Cardinality(flips') <= MaxFlips
        BY <2>1, <3>2, <3>3 DEF Turn
      <3> QED
        BY <3>4 DEF Few
    <2>2. CASE \A a \in flips : b - a < MaxBurst
      <3>1. \A a \in flips : a < b
        BY DEF Turn
      <3>2. ASSUME NEW a \in flips', NEW c \in flips', a < c
            PROVE  c - a < MaxBurst
        <4>1. a \in flips \cup {b} /\ c \in flips \cup {b}
          BY DEF Turn
        <4>2. a \in 0 .. 191 /\ c \in 0 .. 191 /\ MaxBurst \in Nat
          BY <1>3, <4>1, DamageAssumption
        <4>3. a \in flips
          BY <3>1, <3>2, <4>1, <4>2, <1>3
        <4>4. c <= b /\ b - a < MaxBurst
          BY <1>3, <2>2, <3>1, <4>1, <4>2, <4>3
        <4> QED
          BY <1>3, <4>2, <4>4
      <3> QED
        BY <3>2 DEF Narrow
    <2> QED
      BY <2>1, <2>2 DEF Turn
  <1>7. message' = message /\ got' = got /\ got = HEADER_LEN /\ HEADER_LEN \in 0 .. HEADER_LEN
    BY DEF Turn, HEADER_LEN
  <1>8. HeaderOnWire'
    BY <1>2, <1>4, <1>5, <1>6, <1>7 DEF HeaderOnWire
  <1> QED
    BY <1>8 DEF OnTheWire

\* Fewer bytes are still within the bytes sent.
LEMMA ShortenOnTheWire ==
  ASSUME OnTheWire, Shorten
  PROVE  OnTheWire'
  <1> USE DEF Shorten, HEADER_LEN, EP_HINT_SIZE
  <1>1. CASE HeaderOnWire
    BY <1>1 DEF OnTheWire, HeaderOnWire
  <1>2. CASE HintOnWire
    BY <1>2 DEF OnTheWire, HintOnWire
  <1>3. CASE ReportOnWire
    BY <1>3 DEF OnTheWire, ReportOnWire
  <1> QED
    BY <1>1, <1>2, <1>3 DEF OnTheWire

\* What arrives is what was sent but for the turned bits and the missing bytes.
LEMMA WireInvariant == Spec => []OnTheWire
  <1>1. ASSUME OnTheWire, [Next]_vars PROVE OnTheWire'
    <2>1. CASE Next
      BY <1>1, <2>1, TurnOnTheWire, ShortenOnTheWire DEF Next
    <2>2. CASE UNCHANGED vars
      BY <1>1, <2>2
      DEF vars, OnTheWire, HeaderOnWire, HintOnWire, ReportOnWire, Few, Narrow
    <2> QED
      BY <1>1, <2>1, <2>2
  <1> QED
    BY <1>1, InitOnTheWire, PTL DEF Spec

\* decode_header() returns CH32MUX_ERR_PROTO for less than a header.
LEMMA AcceptedIsLong ==
  ASSUME NEW w, NEW n, decode_header(w, n) = "OK"
  PROVE  ~ (n < HEADER_LEN)
  BY DEF decode_header

\* Every parser that accepts has been given the bytes it reads.
LEMMA OnlyReceived ==
  ASSUME OnTheWire
  PROVE  OnlyReceivedBytes
  <1>1. got \in 0 .. 24
    BY DEF OnTheWire, HeaderOnWire, HintOnWire, ReportOnWire, HEADER_LEN, EP_HINT_SIZE
  <1>2. ASSUME message.kind = "header", decode_header(wire, got) = "OK"
        PROVE  BytesRead(HeaderLayout) \subseteq 0 .. got - 1
    <2>1. got = 24
      BY <1>1, <1>2, AcceptedIsLong DEF HEADER_LEN
    <2> QED
      BY <2>1, LayoutsRead
  <1>3. ASSUME message.kind = "hint", read_hint(wire, got) = "OK"
        PROVE  BytesRead(HintLayout) \subseteq 0 .. got - 1
    <2>1. got = 8
      BY <1>3 DEF read_hint, EP_HINT_SIZE
    <2> QED
      BY <2>1, LayoutsRead
  <1>4. ASSUME message.kind = "report", ble_parse_scan_result(got) = "OK"
        PROVE  BytesRead(ScanLayout) \subseteq 0 .. got - 1
    <2>1. 16 <= got
      BY <1>1, <1>4 DEF ble_parse_scan_result
    <2> QED
      BY <1>1, <2>1, LayoutsRead
  <1> QED
    BY <1>2, <1>3, <1>4 DEF OnlyReceivedBytes

\* What the invariant says of a header.
LEMMA HeaderBits ==
  ASSUME OnTheWire, message.kind = "header"
  PROVE  /\ HeaderOnWire
         /\ wire \in SUBSET (0 .. 191) /\ got \in 0 .. 24
         /\ \E h \in Headers : message.header = h /\ wire = SymDiff(encode_header(h), flips)
  <1>1. HeaderOnWire
    BY Kinds DEF OnTheWire
  <1>2. PICK h \in Headers : message = Sent(h) /\ wire = SymDiff(encode_header(h), flips)
    BY <1>1 DEF HeaderOnWire
  <1>3. encode_header(h) \in SUBSET (0 .. 191)
    BY EncodedHeader
  <1>4. flips \in SUBSET (0 .. 191) /\ got \in 0 .. 24
    BY <1>1 DEF HeaderOnWire, HEADER_LEN
  <1>5. wire \in SUBSET (0 .. 191)
    BY <1>2, <1>3, <1>4 DEF SymDiff
  <1> QED
    BY <1>1, <1>2, <1>4, <1>5 DEF Sent

\* A header that arrives undamaged and whole is accepted with its fields.
LEMMA Whole ==
  ASSUME OnTheWire
  PROVE  WholeIsUnderstood
  <1> SUFFICES ASSUME message.kind = "header", flips = {}, got = HEADER_LEN
               PROVE  /\ decode_header(wire, got) = "OK"
                      /\ \A f \in Carried \cup {"payload_len"} :
                           deserialize_header(wire)[f] = message.header[f]
    BY DEF WholeIsUnderstood
  <1>1. PICK h \in Headers : message.header = h /\ wire = SymDiff(encode_header(h), flips)
    BY HeaderBits
  <1>2. wire = encode_header(h)
    BY <1>1, NothingTurned
  <1> QED
    BY <1>1, <1>2, EncodedIsAccepted

\* Bytes and MuxCodec agree on what is sent and on what is accepted.
LEMMA Agrees ==
  ASSUME OnTheWire
  PROVE  CodecAgrees
  <1> SUFFICES ASSUME message.kind = "header" PROVE CodecAgrees
    BY DEF CodecAgrees
  <1>1. PICK h \in Headers : message.header = h /\ wire = SymDiff(encode_header(h), flips)
    BY HeaderBits
  <1>2. wire \in SUBSET (0 .. 191) /\ got \in Nat
    BY HeaderBits
  <1>3. decode_header(wire, got) = Codec!decode_header(Abstract(deserialize_header(wire)), got)
    BY <1>2, SameDecision
  <1>4. ASSUME flips = {}
        PROVE  Abstract(deserialize_header(wire)) =
                 Codec!encode_header([f \in Carried |-> message.header[f]],
                                     message.header.payload_len)
    <2>1. wire = encode_header(h)
      BY <1>1, <1>4, NothingTurned
    <2> QED
      BY <1>1, <2>1, EncodedAgrees
  <1> QED
    BY <1>3, <1>4 DEF CodecAgrees

\* ch32mux_decode_header(), the hint parser and ble_parse_scan_result() accept
\* nothing of which they read a byte that has not been received.
THEOREM OnlyReceivedBytesAlways == Spec => []OnlyReceivedBytes
  <1>1. OnTheWire => OnlyReceivedBytes
    BY OnlyReceived
  <1> QED
    BY <1>1, WireInvariant, PTL

\* For every header the library builds: ch32mux_decode_header() accepts what
\* ch32mux_encode_header() wrote, and each field has the value it was given.
THEOREM WholeIsUnderstoodAlways == Spec => []WholeIsUnderstood
  <1>1. OnTheWire => WholeIsUnderstood
    BY Whole
  <1> QED
    BY <1>1, WireInvariant, PTL

\* MuxCodec, which the other modules are built on, decides about every header,
\* damaged or short, as the code does about its bytes.
THEOREM CodecAgreesAlways == Spec => []CodecAgrees
  <1>1. OnTheWire => CodecAgrees
    BY Agrees
  <1> QED
    BY <1>1, WireInvariant, PTL
-----------------------------------------------------------------------------
(* The checksum as a remainder.                                            *)

\* A polynomial over two elements is the set of the degrees of its terms.
Polynomials == SUBSET Int

\* The sum of two polynomials is one.
LEMMA SymDiffPolynomials ==
  ASSUME NEW a \in Polynomials, NEW b \in Polynomials
  PROVE  SymDiff(a, b) \in Polynomials
  <1>1. \A x \in SymDiff(a, b) : x \in a \/ x \in b
    BY DEF SymDiff
  <1> QED
    BY <1>1 DEF Polynomials

\* A step of the division leaves a polynomial.
LEMMA DivideOutType ==
  ASSUME NEW r \in Polynomials, NEW d \in Int
  PROVE  DivideOut(r, d) \in Polynomials
  <1>1. {d - 16 + k : k \in {0, 5, 12, 16}} \in Polynomials
    BY DEF Polynomials
  <1> QED
    BY <1>1, SymDiffPolynomials DEF DivideOut

\* The bits of a register as coefficients, the lowest of the degree k.
At(c, k) == {j + k : j \in c}

\* The terms of a register.
LEMMA AtIn ==
  ASSUME NEW c \in Register, NEW k \in Int
  PROVE  \A x : x \in At(c, k) <=> x \in Int /\ x - k \in c
  <1>1. ASSUME NEW x \in At(c, k) PROVE x \in Int /\ x - k \in c
    <2>1. PICK j \in c : x = j + k
      BY DEF At
    <2>2. j \in Int
      BY DEF Register
    <2>3. x \in Int /\ x - k = j
      BY <2>1, <2>2
    <2> QED
      BY <2>3
  <1>2. ASSUME NEW x \in Int, x - k \in c PROVE x \in At(c, k)
    <2>1. x - k + k = x
      OBVIOUS
    <2> QED
      BY <1>2, <2>1 DEF At
  <1> QED
    BY <1>1, <1>2

\* They are a polynomial.
LEMMA AtType ==
  ASSUME NEW c \in Register, NEW k \in Int
  PROVE  At(c, k) \in Polynomials
  BY AtIn DEF Polynomials

\* A turn of the inner loop is a step of the division.
LEMMA TurnDivides ==
  ASSUME NEW c \in Register, NEW m \in Polynomials, NEW d \in Int, d \notin m
  PROVE  DivideOut(SymDiff(At(c, d - 15), m), d) = SymDiff(At(ShiftOut(c), d - 16), m)
  <1> DEFINE r == SymDiff(At(c, d - 15), m)
             s == ShiftOut(c)
  <1>1. \A x : x \in r <=> ~ (x \in Int /\ x - (d - 15) \in c <=> x \in m)
    BY AtIn, SymDiffIn
  <1>2. \A x : x \in SymDiff(At(s, d - 16), m) <=> ~ (x \in Int /\ x - (d - 16) \in s <=> x \in m)
    <2>1. s \in Register
      BY ShiftOutType
    <2> HIDE DEF s
    <2> QED
      BY <2>1, AtIn, SymDiffIn
  <1>3. \A j : j \in s <=> j \in 0 .. 15 /\ ~ (j - 1 \in c <=> (15 \in c /\ j \in POLYNOMIAL))
    BY ShiftOutIn
  <1>4. r \in Polynomials
    <2>1. d - 15 \in Int
      OBVIOUS
    <2> QED
      BY <2>1, AtType, SymDiffPolynomials
  <1> HIDE DEF r, s
  <1>5. d \in r <=> 15 \in c
    <2>1. d - (d - 15) = 15
      OBVIOUS
    <2> QED
      BY <1>1, <2>1
  <1>6. \A x : x \in DivideOut(r, d) <=>
                 ~ (x \in r <=> (15 \in c /\ x \in {d - 16, d - 11, d - 4, d}))
    <2>1. {d - 16 + k : k \in {0, 5, 12, 16}} = {d - 16, d - 11, d - 4, d}
      OBVIOUS
    <2>2. DivideOut(r, d) = IF 15 \in c THEN SymDiff(r, {d - 16, d - 11, d - 4, d}) ELSE r
      BY <1>5, <2>1 DEF DivideOut
    <2> QED
      BY <2>2, SymDiffIn
  <1>7. ASSUME NEW x \in Int
        PROVE  x \in DivideOut(r, d) <=> x \in SymDiff(At(s, d - 16), m)
    <2>1. PICK j \in Int : j = x - (d - 16)
      OBVIOUS
    <2>2. x - (d - 15) = j - 1
      BY <2>1
    <2>3. x \in {d - 16, d - 11, d - 4, d} <=> j \in {0, 5, 12, 16}
      BY <2>1
    <2>4. j - 1 \in c => j \in 1 .. 16
      BY DEF Register
    <2>5. j = 16 => x = d /\ x \notin m
      BY <2>1
    <2>6. j = 16 => (j - 1 \in c <=> 15 \in c)
      OBVIOUS
    <2>7. x \in DivideOut(r, d) <=>
            ~ (~ (j - 1 \in c <=> x \in m) <=> (15 \in c /\ j \in {0, 5, 12, 16}))
      BY <1>1, <1>6, <2>2, <2>3
    <2>8. x \in SymDiff(At(s, d - 16), m) <=> ~ (j \in s <=> x \in m)
      BY <1>2, <2>1
    <2>9. CASE j = 16
      <3>1. j \notin s
        BY <1>3, <2>9
      <3> QED
        BY <2>5, <2>6, <2>7, <2>8, <2>9, <3>1
    <2>10. CASE j # 16
      <3>1. j \in {0, 5, 12, 16} <=> j \in POLYNOMIAL
        BY <2>10 DEF POLYNOMIAL
      <3>2. j - 1 \in c => j \in 0 .. 15
        BY <2>4, <2>10
      <3>3. j \in POLYNOMIAL => j \in 0 .. 15
        BY DEF POLYNOMIAL
      <3>4. j \in s <=> ~ (j - 1 \in c <=> (15 \in c /\ j \in POLYNOMIAL))
        BY <1>3, <3>2, <3>3
      <3> QED
        BY <2>7, <2>8, <3>1, <3>4
    <2> QED
      BY <2>9, <2>10
  <1>8. DivideOut(r, d) \in Polynomials
    BY <1>4, DivideOutType
  <1>9. SymDiff(At(s, d - 16), m) \in Polynomials
    BY <1>2 DEF Polynomials
  <1> HIDE DEF At
  <1>10. DivideOut(r, d) = SymDiff(At(s, d - 16), m)
    BY <1>7, <1>8, <1>9 DEF Polynomials
  <1> QED
    BY <1>10 DEF r, s

\* The division of a byte, step by step.
LEMMA DivideByteUnrolled ==
  ASSUME NEW start \in Polynomials, NEW top \in Int
  PROVE  \E rest : /\ rest[0] = start /\ DivideByte(start, top) = rest[8]
                   /\ \A n \in 0 .. 7 : rest[n + 1] = DivideOut(rest[n], top - n)
  <1> DEFINE turn == [n \in 1 .. 8 |-> [r \in Polynomials |-> DivideOut(r, top + 1 - n)]]
             Next1(x, n) == UNION {DivideOut(r, top + 1 - n) : r \in {x}}
             Runs(rest) == rest = [n \in 0 .. 8 |->
                                     IF n = 0 THEN start ELSE Next1(rest[n - 1], n)]
  <1>1. turn \in [1 .. 8 -> [Polynomials -> Polynomials]]
    BY DivideOutType
  <1>2. \A n \in 1 .. 8, r \in Polynomials : turn[n][r] = DivideOut(r, top + 1 - n)
    OBVIOUS
  <1> HIDE DEF turn
  <1>3. PICK g : Turns(g, Polynomials, start, 8, turn)
    BY <1>1, Loop
  <1>4. /\ g \in [0 .. 8 -> Polynomials] /\ g[0] = start
        /\ \A n \in 1 .. 8 : g[n] = DivideOut(g[n - 1], top + 1 - n)
    <2>1. /\ g \in [0 .. 8 -> Polynomials] /\ g[0] = start
          /\ \A n \in 1 .. 8 : g[n] = turn[n][g[n - 1]]
      BY <1>3 DEF Turns
    <2>2. \A n \in 1 .. 8 : g[n - 1] \in Polynomials
      BY <2>1
    <2> QED
      BY <1>2, <2>1, <2>2
  <1>5. \A x, n : Next1(x, n) = DivideOut(x, top + 1 - n)
    OBVIOUS
  <1> HIDE DEF Next1
  <1>6. Runs(g)
    BY <1>4, <1>5
  <1> DEFINE rest == CHOOSE x : Runs(x)
  <1>7. Runs(rest)
    <2> HIDE DEF Runs
    <2> QED
      BY <1>6
  <1>8. DivideByte(start, top) = rest[8]
    BY DEF DivideByte, Next1
  <1> HIDE DEF rest
  <1>9. rest[0] = start
    BY <1>7
  <1>10. \A n \in 0 .. 7 : rest[n + 1] = DivideOut(rest[n], top - n)
    <2> TAKE n \in 0 .. 7
    <2>1. n + 1 \in 0 .. 8 /\ n + 1 # 0 /\ n + 1 - 1 = n /\ top + 1 - (n + 1) = top - n
      OBVIOUS
    <2>2. rest[n + 1] = Next1(rest[n + 1 - 1], n + 1)
      BY <1>7, <2>1
    <2> QED
      BY <1>5, <2>1, <2>2
  <1> QED
    BY <1>8, <1>9, <1>10

\* And the inner loop is the division of one byte.
LEMMA ByteDivides ==
  ASSUME NEW c \in Register, NEW m \in Polynomials, NEW top \in Int,
         \A i \in 0 .. 7 : top - i \notin m
  PROVE  DivideByte(SymDiff(At(c, top - 15), m), top) = SymDiff(At(EightTurns(c), top - 23), m)
  <1> DEFINE start == SymDiff(At(c, top - 15), m)
             c1 == ShiftOut(c)  c2 == ShiftOut(c1) c3 == ShiftOut(c2) c4 == ShiftOut(c3)
             c5 == ShiftOut(c4) c6 == ShiftOut(c5) c7 == ShiftOut(c6) c8 == ShiftOut(c7)
  <1>1. EightTurns(c) = c8
    BY EightTurnsUnrolled
  <1>2. start \in Polynomials
    <2>1. top - 15 \in Int
      OBVIOUS
    <2> QED
      BY <2>1, AtType, SymDiffPolynomials
  <1>3. PICK rest : /\ rest[0] = start /\ DivideByte(start, top) = rest[8]
                    /\ \A n \in 0 .. 7 : rest[n + 1] = DivideOut(rest[n], top - n)
    BY <1>2, DivideByteUnrolled
  <1>4. ASSUME NEW n \in 0 .. 7, NEW d \in Register, rest[n] = SymDiff(At(d, top - n - 15), m)
        PROVE  rest[n + 1] = SymDiff(At(ShiftOut(d), top - (n + 1) - 15), m)
    <2>1. top - n \in Int /\ top - n \notin m
      OBVIOUS
    <2>2. top - (n + 1) - 15 = top - n - 16
      OBVIOUS
    <2>3. rest[n + 1] = DivideOut(rest[n], top - n)
      BY <1>3
    <2> QED
      BY <1>4, <2>1, <2>2, <2>3, TurnDivides
  <1>5. /\ c1 \in Register /\ c2 \in Register /\ c3 \in Register /\ c4 \in Register
        /\ c5 \in Register /\ c6 \in Register /\ c7 \in Register
    BY ShiftOutType
  <1>6. rest[0] = SymDiff(At(c, top - 0 - 15), m)
    BY <1>3
  <1> HIDE DEF c1, c2, c3, c4, c5, c6, c7, c8
  <1>7. rest[1] = SymDiff(At(c1, top - 1 - 15), m)
    BY <1>4, <1>6 DEF c1
  <1>8. rest[2] = SymDiff(At(c2, top - 2 - 15), m)
    BY <1>4, <1>5, <1>7 DEF c2
  <1>9. rest[3] = SymDiff(At(c3, top - 3 - 15), m)
    BY <1>4, <1>5, <1>8 DEF c3
  <1>10. rest[4] = SymDiff(At(c4, top - 4 - 15), m)
    BY <1>4, <1>5, <1>9 DEF c4
  <1>11. rest[5] = SymDiff(At(c5, top - 5 - 15), m)
    BY <1>4, <1>5, <1>10 DEF c5
  <1>12. rest[6] = SymDiff(At(c6, top - 6 - 15), m)
    BY <1>4, <1>5, <1>11 DEF c6
  <1>13. rest[7] = SymDiff(At(c7, top - 7 - 15), m)
    BY <1>4, <1>5, <1>12 DEF c7
  <1>14. rest[8] = SymDiff(At(c8, top - 8 - 15), m)
    BY <1>4, <1>5, <1>13 DEF c8
  <1>15. top - 8 - 15 = top - 23
    OBVIOUS
  <1> QED
    BY <1>1, <1>3, <1>14, <1>15

-----------------------------------------------------------------------------
(* A message as a polynomial.                                              *)

\* Where bit p of the message ends up when the first bit has the degree top.
Degree(p, top) == top - (8 * (p \div 8) + 7 - (p % 8))

\* What is left of the message after its first n bytes.
Left(w, n, top) == {Degree(p, top) : p \in {q \in w : q \div 8 >= n}}

\* Bytes come with the highest degrees first, and so do the bits of a byte.
LEMMA DegreeOfBit ==
  ASSUME NEW n \in Nat, NEW i \in 0 .. 7, NEW top \in Int
  PROVE  /\ (8 * n + i) \div 8 = n /\ (8 * n + i) % 8 = i
         /\ Degree(8 * n + i, top) = top - 8 * n - 7 + i
  BY DEF Degree

\* A byte adds its eight bits to what is left behind it.
LEMMA LeftIn ==
  ASSUME NEW w \in SUBSET Nat, NEW n \in Nat, NEW top \in Int
  PROVE  /\ Left(w, n, top) \in Polynomials
         /\ \A x \in Left(w, n, top) : x <= top - 8 * n
         /\ \A x : x \in Left(w, n, top) <=>
                     \/ x \in Left(w, n + 1, top)
                     \/ \E i \in 0 .. 7 : 8 * n + i \in w /\ x = top - 8 * n - 7 + i
  <1>1. ASSUME NEW p \in w
        PROVE  /\ p \in Nat /\ p \div 8 \in Nat /\ p % 8 \in 0 .. 7 /\ p = 8 * (p \div 8) + (p % 8)
               /\ Degree(p, top) \in Int /\ Degree(p, top) <= top - 8 * (p \div 8)
    BY DEF Degree
  <1>2. \A x \in Left(w, n, top) : x \in Int /\ x <= top - 8 * n
    <2> SUFFICES ASSUME NEW p \in w, p \div 8 >= n
                 PROVE  Degree(p, top) \in Int /\ Degree(p, top) <= top - 8 * n
      BY DEF Left
    <2> QED
      BY <1>1
  <1>3. ASSUME NEW x \in Left(w, n, top), x \notin Left(w, n + 1, top)
        PROVE  \E i \in 0 .. 7 : 8 * n + i \in w /\ x = top - 8 * n - 7 + i
    <2>1. PICK p \in w : p \div 8 >= n /\ x = Degree(p, top)
      BY DEF Left
    <2>2. ~ (p \div 8 >= n + 1)
      BY <1>3, <2>1 DEF Left
    <2>3. p \div 8 = n
      BY <1>1, <2>1, <2>2
    <2>4. p % 8 \in 0 .. 7 /\ p = 8 * n + (p % 8)
      BY <1>1, <2>3
    <2> QED
      BY <2>1, <2>4, DegreeOfBit
  <1>4. ASSUME NEW x \in Left(w, n + 1, top)
        PROVE  x \in Left(w, n, top)
    <2>1. PICK p \in w : p \div 8 >= n + 1 /\ x = Degree(p, top)
      BY DEF Left
    <2>2. p \div 8 >= n
      BY <1>1, <2>1
    <2> QED
      BY <2>1, <2>2 DEF Left
  <1>5. ASSUME NEW i \in 0 .. 7, 8 * n + i \in w
        PROVE  top - 8 * n - 7 + i \in Left(w, n, top)
    <2>1. (8 * n + i) \div 8 = n /\ Degree(8 * n + i, top) = top - 8 * n - 7 + i
      BY DegreeOfBit
    <2>2. n >= n
      OBVIOUS
    <2> QED
      BY <1>5, <2>1, <2>2 DEF Left
  <1> QED
    BY <1>2, <1>3, <1>4, <1>5 DEF Polynomials

\* To add a byte to the register is to take it from what is left.
LEMMA ByteTaken ==
  ASSUME NEW w \in SUBSET Nat, NEW n \in Nat, NEW top \in Int, NEW c \in Register
  PROVE  SymDiff(At(c, top - 8 * n - 15), Left(w, n, top))
           = SymDiff(At(SymDiff(c, ByteOf(w, n)), top - 8 * n - 15), Left(w, n + 1, top))
  <1> DEFINE b == ByteOf(w, n)
             e == SymDiff(c, b)
             this == Left(w, n, top)
             later == Left(w, n + 1, top)
  <1>1. PICK k \in Int : k = top - 8 * n - 15
    OBVIOUS
  <1>2. b \in Register /\ \A i : i \in b <=> i \in 8 .. 15 /\ 8 * n + (i - 8) \in w
    BY ByteType, ByteIn
  <1>3. \A x \in later : x \in Int /\ x <= k + 7
    <2>1. n + 1 \in Nat
      OBVIOUS
    <2>2. later \in Polynomials /\ \A x \in later : x <= top - 8 * (n + 1)
      BY <2>1, LeftIn
    <2> HIDE DEF later
    <2> QED
      BY <1>1, <2>2 DEF Polynomials
  <1>4. \A x : x \in this <=>
                 x \in later \/ \E i \in 0 .. 7 : 8 * n + i \in w /\ x = top - 8 * n - 7 + i
    BY LeftIn
  <1>5. this \in Polynomials
    BY LeftIn
  <1>6. e \in Register /\ \A i : i \in e <=> ~ (i \in c <=> i \in b)
    BY <1>2, SymDiffRegister, SymDiffIn
  <1> HIDE DEF b, e, this, later
  <1>7. ASSUME NEW x \in Int
        PROVE  x \in this <=> ~ (x - k \in b <=> x \in later)
    <2>1. PICK j \in Int : j = x - k
      OBVIOUS
    <2>2. j \in b <=> \E i \in 0 .. 7 : 8 * n + i \in w /\ x = top - 8 * n - 7 + i
      <3>1. ASSUME j \in b PROVE \E i \in 0 .. 7 : 8 * n + i \in w /\ x = top - 8 * n - 7 + i
        <4>1. j - 8 \in 0 .. 7 /\ 8 * n + (j - 8) \in w
          BY <1>2, <3>1
        <4>2. x = top - 8 * n - 7 + (j - 8)
          BY <1>1, <2>1
        <4> QED
          BY <4>1, <4>2
      <3>2. ASSUME NEW i \in 0 .. 7, 8 * n + i \in w, x = top - 8 * n - 7 + i PROVE j \in b
        <4>1. j \in 8 .. 15 /\ j - 8 = i
          BY <1>1, <2>1, <3>2
        <4> QED
          BY <1>2, <3>2, <4>1
      <3> QED
        BY <3>1, <3>2
    <2>3. j \in b => x \notin later
      BY <1>2, <1>3, <2>1
    <2> QED
      BY <1>4, <2>1, <2>2, <2>3
  <1>8. ASSUME NEW x \in Int
        PROVE  x \in SymDiff(At(c, k), this) <=> x \in SymDiff(At(e, k), later)
    BY <1>6, <1>7, AtIn, SymDiffIn
  <1>9. SymDiff(At(c, k), this) \in Polynomials
    BY <1>5, AtType, SymDiffPolynomials
  <1>10. later \in Polynomials
    BY <1>3 DEF Polynomials
  <1>11. SymDiff(At(e, k), later) \in Polynomials
    BY <1>6, <1>10, AtType, SymDiffPolynomials
  <1>12. SymDiff(At(c, k), this) = SymDiff(At(e, k), later)
    BY <1>8, <1>9, <1>11 DEF Polynomials
  <1> QED
    BY <1>1, <1>12 DEF b, e, this, later

\* The division of a byte leaves a polynomial.
LEMMA DivideByteType ==
  ASSUME NEW start \in Polynomials, NEW top \in Int
  PROVE  DivideByte(start, top) \in Polynomials
  <1>1. PICK rest : /\ rest[0] = start /\ DivideByte(start, top) = rest[8]
                    /\ \A n \in 0 .. 7 : rest[n + 1] = DivideOut(rest[n], top - n)
    BY DivideByteUnrolled
  <1> DEFINE S == {n \in 0 .. 8 : rest[n] \in Polynomials}
  <1>2. 0 \in S
    BY <1>1
  <1>3. ASSUME NEW n \in 0 .. 7, n \in S PROVE n + 1 \in S
    <2>1. top - n \in Int /\ n + 1 \in 0 .. 8
      OBVIOUS
    <2> QED
      BY <1>1, <1>3, <2>1, DivideOutType
  <1> HIDE DEF S
  <1>4. 8 \in S
    BY <1>2, <1>3, InductionUpTo
  <1> QED
    BY <1>1, <1>4 DEF S

\* The whole division, byte by byte.
LEMMA RemainderOfBytes ==
  ASSUME NEW w \in SUBSET Nat, NEW bytes \in Nat, NEW top \in Int, top = 8 * bytes + 15
  PROVE  \E rest : /\ rest[0] = SymDiff(Left(w, 0, top), top - 15 .. top)
                   /\ Remainder(w, bytes) = rest[bytes]
                   /\ \A n \in 0 .. bytes - 1 : rest[n + 1] = DivideByte(rest[n], top - 8 * n)
  <1> DEFINE dividend == SymDiff({Degree(p, top) : p \in w}, top - 15 .. top)
             turn == [n \in 1 .. bytes |->
                        [r \in Polynomials |-> DivideByte(r, top - 8 * (n - 1))]]
             Next1(x, n) == UNION {DivideByte(r, top - 8 * (n - 1)) : r \in {x}}
             Runs(rest) == rest = [n \in 0 .. bytes |->
                                     IF n = 0 THEN dividend ELSE Next1(rest[n - 1], n)]
  <1>1. {Degree(p, top) : p \in w} = Left(w, 0, top)
    <2>1. \A p \in w : p \div 8 >= 0
      OBVIOUS
    <2>2. {p \in w : p \div 8 >= 0} = w
      BY <2>1
    <2> QED
      BY <2>2 DEF Left
  <1>2. dividend \in Polynomials
    <2>1. Left(w, 0, top) \in Polynomials
      BY LeftIn
    <2>2. top - 15 .. top \in Polynomials
      BY DEF Polynomials
    <2> QED
      BY <1>1, <2>1, <2>2, SymDiffPolynomials
  <1>3. turn \in [1 .. bytes -> [Polynomials -> Polynomials]]
    BY DivideByteType
  <1>4. \A n \in 1 .. bytes, r \in Polynomials : turn[n][r] = DivideByte(r, top - 8 * (n - 1))
    OBVIOUS
  <1>5. Remainder(w, bytes) = (CHOOSE rest : Runs(rest))[bytes]
    BY DEF Remainder, Degree
  <1> HIDE DEF turn, dividend
  <1>6. PICK g : Turns(g, Polynomials, dividend, bytes, turn)
    BY <1>2, <1>3, Loop
  <1>7. /\ g \in [0 .. bytes -> Polynomials] /\ g[0] = dividend
        /\ \A n \in 1 .. bytes : g[n] = DivideByte(g[n - 1], top - 8 * (n - 1))
    <2>1. /\ g \in [0 .. bytes -> Polynomials] /\ g[0] = dividend
          /\ \A n \in 1 .. bytes : g[n] = turn[n][g[n - 1]]
      BY <1>6 DEF Turns
    <2>2. \A n \in 1 .. bytes : g[n - 1] \in Polynomials
      BY <2>1
    <2> QED
      BY <1>4, <2>1, <2>2
  <1>8. \A x, n : Next1(x, n) = DivideByte(x, top - 8 * (n - 1))
    OBVIOUS
  <1> HIDE DEF Next1
  <1>9. Runs(g)
    BY <1>7, <1>8
  <1> DEFINE rest == CHOOSE x : Runs(x)
  <1>10. Runs(rest)
    <2> HIDE DEF Runs
    <2> QED
      BY <1>9
  <1> HIDE DEF rest
  <1>11. rest[0] = dividend
    BY <1>10
  <1>12. ASSUME NEW n \in 0 .. bytes - 1
         PROVE  rest[n + 1] = DivideByte(rest[n], top - 8 * n)
    <2>1. n + 1 \in 0 .. bytes /\ n + 1 # 0 /\ n + 1 - 1 = n
      OBVIOUS
    <2>2. rest[n + 1] = Next1(rest[n + 1 - 1], n + 1)
      BY <1>10, <2>1
    <2>3. Next1(rest[n], n + 1) = DivideByte(rest[n], top - 8 * (n + 1 - 1))
      BY <1>8
    <2> QED
      BY <2>1, <2>2, <2>3
  <1>13. dividend = SymDiff(Left(w, 0, top), top - 15 .. top)
    BY <1>1 DEF dividend
  <1>14. Remainder(w, bytes) = rest[bytes]
    BY <1>5 DEF rest
  <1> QED
    BY <1>11, <1>12, <1>13, <1>14

\* ch32mux_crc16() is the CRC16-CCITT of every message of every length.
THEOREM CrcIsRemainder ==
  ASSUME NEW bytes \in Nat, NEW w \in SUBSET (0 .. 8 * bytes - 1)
  PROVE  crc16(w, bytes) = Remainder(w, bytes)
  <1>1. PICK top \in Int : top = 8 * bytes + 15
    OBVIOUS
  <1>2. w \in SUBSET Nat
    OBVIOUS
  <1>3. PICK rest : /\ rest[0] = SymDiff(Left(w, 0, top), top - 15 .. top)
                    /\ Remainder(w, bytes) = rest[bytes]
                    /\ \A n \in 0 .. bytes - 1 : rest[n + 1] = DivideByte(rest[n], top - 8 * n)
    BY <1>1, <1>2, RemainderOfBytes
  <1> DEFINE Holds(n) == rest[n] = SymDiff(At(crc16(w, n), top - 8 * n - 15), Left(w, n, top))
             S == {n \in 0 .. bytes : Holds(n)}
  <1>4. 0 \in S
    <2>1. crc16(w, 0) = 0 .. 15 /\ 0 .. 15 \in Register
      BY CrcSteps DEF Register
    <2>2. At(0 .. 15, top - 15) = top - 15 .. top
      <3>1. \A x : x \in At(0 .. 15, top - 15) <=> x \in Int /\ x - (top - 15) \in 0 .. 15
        BY <2>1, AtIn
      <3>2. \A x : x \in Int /\ x - (top - 15) \in 0 .. 15 <=> x \in top - 15 .. top
        OBVIOUS
      <3> HIDE DEF S
      <3>3. \A x : x \in At(0 .. 15, top - 15) <=> x \in top - 15 .. top
        BY <3>1, <3>2
      <3> QED
        BY ONLY <3>3
    <2>3. SymDiff(Left(w, 0, top), top - 15 .. top) = SymDiff(top - 15 .. top, Left(w, 0, top))
      BY DEF SymDiff
    <2>4. top - 8 * 0 - 15 = top - 15
      OBVIOUS
    <2>5. Holds(0)
      BY <1>3, <2>1, <2>2, <2>3, <2>4
    <2> HIDE DEF Holds
    <2> QED
      BY <2>5
  <1>5. ASSUME NEW n \in 0 .. bytes - 1, n \in S PROVE n + 1 \in S
    <2> DEFINE c == crc16(w, n)
               e == SymDiff(c, ByteOf(w, n))
               later == Left(w, n + 1, top)
    <2>1. c \in Register /\ e \in Register /\ crc16(w, n + 1) = EightTurns(e)
      BY CrcSteps, ByteType, SymDiffRegister DEF Round
    <2>2. n \in Nat /\ n + 1 \in Nat /\ n + 1 \in 0 .. bytes
      OBVIOUS
    <2>3. SymDiff(At(c, top - 8 * n - 15), Left(w, n, top)) = SymDiff(At(e, top - 8 * n - 15), later)
      BY <1>2, <2>1, <2>2, ByteTaken
    <2>4. rest[n] = SymDiff(At(c, top - 8 * n - 15), Left(w, n, top))
      BY <1>5
    <2>5. rest[n + 1] = DivideByte(rest[n], top - 8 * n)
      BY <1>3
    <2>6. later \in Polynomials /\ \A x \in later : x <= top - 8 * (n + 1)
      BY <1>2, <2>2, LeftIn
    <2> HIDE DEF c, e, later
    <2>7. PICK first \in Int : first = top - 8 * n
      OBVIOUS
    <2>8. \A i \in 0 .. 7 : first - i \notin later
      BY <2>6, <2>7
    <2>9. DivideByte(SymDiff(At(e, first - 15), later), first)
            = SymDiff(At(EightTurns(e), first - 23), later)
      BY <2>1, <2>6, <2>8, ByteDivides
    <2>10. first - 23 = top - 8 * (n + 1) - 15
      BY <2>7
    <2>11. rest[n + 1] = SymDiff(At(EightTurns(e), top - 8 * (n + 1) - 15), later)
      BY <2>3, <2>4, <2>5, <2>7, <2>9, <2>10
    <2> QED
      BY <2>1, <2>2, <2>11 DEF later
  <1> HIDE DEF S
  <1>6. bytes \in S
    BY <1>4, <1>5, InductionUpTo
  <1>7. rest[bytes] = SymDiff(At(crc16(w, bytes), top - 8 * bytes - 15), Left(w, bytes, top))
    BY <1>6 DEF S
  <1>8. Left(w, bytes, top) = {}
    <2>1. \A p \in w : ~ (p \div 8 >= bytes)
      OBVIOUS
    <2> QED
      BY <2>1 DEF Left
  <1>9. At(crc16(w, bytes), 0) = crc16(w, bytes)
    <2>1. crc16(w, bytes) \in Register
      BY CrcSteps
    <2>2. \A j \in crc16(w, bytes) : j \in Int /\ j + 0 = j
      BY <2>1 DEF Register
    <2> QED
      BY <2>2 DEF At
  <1>10. top - 8 * bytes - 15 = 0
    BY <1>1
  <1> QED
    BY <1>3, <1>7, <1>8, <1>9, <1>10, NothingTurned

\* ch32mux_crc16() of the bytes in a header is their remainder in CRC16-CCITT.
THEOREM CrcIsCcittAlways == Spec => []CrcIsCcitt
  <1>1. ASSUME OnTheWire PROVE CrcIsCcitt
    <2> SUFFICES ASSUME message.kind = "header"
                 PROVE  crc16(wire, HEADER_LEN) = Remainder(wire, HEADER_LEN)
      BY DEF CrcIsCcitt
    <2>1. wire \in SUBSET (0 .. 8 * HEADER_LEN - 1) /\ HEADER_LEN \in Nat
      BY <1>1, HeaderBits DEF HEADER_LEN
    <2> QED
      BY <2>1, CrcIsRemainder
  <1> QED
    BY <1>1, WireInvariant, PTL
-----------------------------------------------------------------------------
(* Eight turns at once.                                                    *)

\* Exclusive or of two bits.
Xor(p, q) == ~ (p <=> q)

\* The bits of the register s that a turn makes of b.
Shifted(s, b) ==
  /\ 0 \in s <=> 15 \in b
  /\ 1 \in s <=> 0 \in b
  /\ 2 \in s <=> 1 \in b
  /\ 3 \in s <=> 2 \in b
  /\ 4 \in s <=> 3 \in b
  /\ 5 \in s <=> Xor(4 \in b, 15 \in b)
  /\ 6 \in s <=> 5 \in b
  /\ 7 \in s <=> 6 \in b
  /\ 8 \in s <=> 7 \in b
  /\ 9 \in s <=> 8 \in b
  /\ 10 \in s <=> 9 \in b
  /\ 11 \in s <=> 10 \in b
  /\ 12 \in s <=> Xor(11 \in b, 15 \in b)
  /\ 13 \in s <=> 12 \in b
  /\ 14 \in s <=> 13 \in b
  /\ 15 \in s <=> 14 \in b

\* A turn of the inner loop is such a step.
LEMMA ShiftOutBits ==
  ASSUME NEW c \in Register
  PROVE  Shifted(ShiftOut(c), c)
  <1>1. \A j \in 0 .. 15 : j \in ShiftOut(c) <=> ~ (j - 1 \in c <=> (15 \in c /\ j \in POLYNOMIAL))
    BY ShiftOutIn
  <1>2. ASSUME NEW j \in 0 .. 15, NEW i \in -1 .. 14, i = j - 1
        PROVE  j \in ShiftOut(c) <=> ~ (i \in c <=> (15 \in c /\ j \in {0, 5, 12}))
    BY <1>1, <1>2 DEF POLYNOMIAL
  <1>3. -1 \notin c
    BY DEF Register
  <1>4. 0 \in ShiftOut(c) <=> 15 \in c
    BY <1>2, <1>3
  <1>5. 5 \in ShiftOut(c) <=> Xor(4 \in c, 15 \in c)
    BY <1>2 DEF Xor
  <1>6. 12 \in ShiftOut(c) <=> Xor(11 \in c, 15 \in c)
    BY <1>2 DEF Xor
  <1>7. /\ 1 \in ShiftOut(c) <=> 0 \in c
        /\ 2 \in ShiftOut(c) <=> 1 \in c
        /\ 3 \in ShiftOut(c) <=> 2 \in c
        /\ 4 \in ShiftOut(c) <=> 3 \in c
        /\ 6 \in ShiftOut(c) <=> 5 \in c
        /\ 7 \in ShiftOut(c) <=> 6 \in c
        /\ 8 \in ShiftOut(c) <=> 7 \in c
    BY <1>2
  <1>8. /\ 9 \in ShiftOut(c) <=> 8 \in c
        /\ 10 \in ShiftOut(c) <=> 9 \in c
        /\ 11 \in ShiftOut(c) <=> 10 \in c
        /\ 13 \in ShiftOut(c) <=> 12 \in c
        /\ 14 \in ShiftOut(c) <=> 13 \in c
        /\ 15 \in ShiftOut(c) <=> 14 \in c
    BY <1>2
  <1> QED
    BY <1>4, <1>5, <1>6, <1>7, <1>8 DEF Shifted

\* The bits of the register e that eight turns make of c.
EightTurnsAre(e, c) ==
  /\ 0 \in e <=> Xor(8 \in c, 12 \in c)
  /\ 1 \in e <=> Xor(9 \in c, 13 \in c)
  /\ 2 \in e <=> Xor(10 \in c, 14 \in c)
  /\ 3 \in e <=> Xor(11 \in c, 15 \in c)
  /\ 4 \in e <=> 12 \in c
  /\ 5 \in e <=> Xor(13 \in c, Xor(8 \in c, 12 \in c))
  /\ 6 \in e <=> Xor(14 \in c, Xor(9 \in c, 13 \in c))
  /\ 7 \in e <=> Xor(15 \in c, Xor(10 \in c, 14 \in c))
  /\ 8 \in e <=> Xor(0 \in c, Xor(11 \in c, 15 \in c))
  /\ 9 \in e <=> Xor(1 \in c, 12 \in c)
  /\ 10 \in e <=> Xor(2 \in c, 13 \in c)
  /\ 11 \in e <=> Xor(3 \in c, 14 \in c)
  /\ 12 \in e <=> Xor(4 \in c, Xor(15 \in c, Xor(8 \in c, 12 \in c)))
  /\ 13 \in e <=> Xor(5 \in c, Xor(9 \in c, 13 \in c))
  /\ 14 \in e <=> Xor(6 \in c, Xor(10 \in c, 14 \in c))
  /\ 15 \in e <=> Xor(7 \in c, Xor(11 \in c, 15 \in c))

\* The inner loop computes these bits.
LEMMA EightTurnsBits ==
  ASSUME NEW c \in Register
  PROVE  EightTurnsAre(EightTurns(c), c)
  <1> DEFINE c1 == ShiftOut(c)  c2 == ShiftOut(c1) c3 == ShiftOut(c2) c4 == ShiftOut(c3)
             c5 == ShiftOut(c4) c6 == ShiftOut(c5) c7 == ShiftOut(c6) c8 == ShiftOut(c7)
  <1>1. EightTurns(c) = c8
    BY EightTurnsUnrolled
  <1>2. /\ c1 \in Register /\ c2 \in Register /\ c3 \in Register /\ c4 \in Register
        /\ c5 \in Register /\ c6 \in Register /\ c7 \in Register
    BY ShiftOutType
  <1>3. \A b \in Register : Shifted(ShiftOut(b), b)
    BY ShiftOutBits
  <1>4. /\ Shifted(c1, c)  /\ Shifted(c2, c1) /\ Shifted(c3, c2) /\ Shifted(c4, c3)
        /\ Shifted(c5, c4) /\ Shifted(c6, c5) /\ Shifted(c7, c6) /\ Shifted(c8, c7)
    BY <1>2, <1>3
  <1> HIDE DEF c1, c2, c3, c4, c5, c6, c7, c8
  <1>5. EightTurnsAre(c8, c)
    BY ONLY <1>4 DEF Shifted, EightTurnsAre, Xor
  <1> QED
    BY <1>1, <1>5
-----------------------------------------------------------------------------
(* What turned bits do to the checksum.                                    *)

\* What is added twice is gone.
LEMMA SymDiffSame ==
  ASSUME NEW a
  PROVE  SymDiff(a, a) = {} /\ SymDiff({}, a) = a
  BY DEF SymDiff

\* The order of two additions does not matter.
LEMMA SymDiffLast ==
  ASSUME NEW a, NEW b, NEW c
  PROVE  SymDiff(SymDiff(a, b), c) = SymDiff(SymDiff(a, c), b)
  BY DEF SymDiff

\* Nor does that of four.
LEMMA SymDiffPairs ==
  ASSUME NEW a, NEW b, NEW c, NEW d
  PROVE  SymDiff(SymDiff(a, b), SymDiff(c, d)) = SymDiff(SymDiff(a, c), SymDiff(b, d))
  BY DEF SymDiff

\* Two registers without a difference are the same.
LEMMA SymDiffNone ==
  ASSUME NEW a, NEW b, SymDiff(a, b) = {}
  PROVE  a = b
  BY DEF SymDiff

\* The register starts with all ones, whatever follows.
LEMMA CrcStarts ==
  ASSUME NEW w
  PROVE  crc16(w, 0) = 0 .. 15
  <1>1. 0 \in Nat
    OBVIOUS
  <1> QED
    BY <1>1, CrcSteps

\* The bytes of two messages differ where their bits do.
LEMMA BytesOfDifference ==
  ASSUME NEW a, NEW b, NEW n \in Nat
  PROVE  ByteOf(SymDiff(a, b), n) = SymDiff(ByteOf(a, n), ByteOf(b, n)) /\ ByteOf({}, n) = {}
  <1>1. \A i : i \in ByteOf(SymDiff(a, b), n) <=> i \in SymDiff(ByteOf(a, n), ByteOf(b, n))
    BY ByteIn, SymDiffIn
  <1>2. \A i : i \notin ByteOf({}, n)
    BY ByteIn
  <1> QED
    BY <1>1, <1>2

\* What a checksum owes to the bits and not to its initial value.
Syndrome(e, n) == SymDiff(crc16(e, n), crc16({}, n))

\* The syndrome is computed like the checksum, from zero.
LEMMA SyndromeSteps ==
  ASSUME NEW e, NEW n \in Nat
  PROVE  /\ Syndrome(e, 0) = {}
         /\ Syndrome(e, n) \in Register
         /\ Syndrome(e, n + 1) = EightTurns(SymDiff(Syndrome(e, n), ByteOf(e, n)))
  <1> DEFINE c == crc16(e, n)
             z == crc16({}, n)
             b == ByteOf(e, n)
  <1>1. Syndrome(e, 0) = {}
    BY CrcStarts, SymDiffSame DEF Syndrome
  <1>2. c \in Register /\ z \in Register /\ b \in Register
    BY CrcSteps, ByteType
  <1>3. crc16(e, n + 1) = EightTurns(SymDiff(c, b))
    BY CrcSteps DEF Round
  <1>4. crc16({}, n + 1) = EightTurns(z)
    <2>1. crc16({}, n + 1) = EightTurns(SymDiff(z, ByteOf({}, n)))
      BY CrcSteps DEF Round
    <2> QED
      BY <2>1, BytesOfDifference, NothingTurned
  <1>5. Syndrome(e, n + 1) = SymDiff(EightTurns(SymDiff(c, b)), EightTurns(z))
    BY <1>3, <1>4 DEF Syndrome
  <1>6. Syndrome(e, n) = SymDiff(c, z)
    BY DEF Syndrome
  <1> HIDE DEF c, z, b
  <1>7. SymDiff(EightTurns(SymDiff(c, b)), EightTurns(z)) = EightTurns(SymDiff(SymDiff(c, b), z))
    BY <1>2, SymDiffRegister, EightTurnsLinear
  <1>8. SymDiff(SymDiff(c, b), z) = SymDiff(SymDiff(c, z), b)
    BY SymDiffLast
  <1>9. Syndrome(e, n) \in Register
    BY <1>2, <1>6, SymDiffRegister
  <1> QED
    BY <1>1, <1>5, <1>6, <1>7, <1>8, <1>9 DEF b

\* Turned bits add their syndrome to the checksum.
LEMMA CrcAddsSyndrome ==
  ASSUME NEW w, NEW e, NEW n \in Nat
  PROVE  crc16(SymDiff(w, e), n) = SymDiff(crc16(w, n), Syndrome(e, n))
  <1> DEFINE x == SymDiff(w, e)
             S == {m \in Nat : crc16(x, m) = SymDiff(crc16(w, m), Syndrome(e, m))}
  <1>1. 0 \in S
    <2>1. crc16(x, 0) = 0 .. 15 /\ crc16(w, 0) = 0 .. 15
      BY CrcStarts
    <2>2. Syndrome(e, 0) = {}
      BY SyndromeSteps
    <2>3. SymDiff(0 .. 15, {}) = 0 .. 15
      BY NothingTurned
    <2>4. crc16(x, 0) = SymDiff(crc16(w, 0), Syndrome(e, 0))
      BY <2>1, <2>2, <2>3
    <2> QED
      BY <2>4
  <1>2. ASSUME NEW m \in Nat, m \in S PROVE m + 1 \in S
    <2> DEFINE c == crc16(w, m)
               s == Syndrome(e, m)
               b == ByteOf(w, m)
               d == ByteOf(e, m)
    <2>1. c \in Register /\ s \in Register /\ b \in Register /\ d \in Register
      BY CrcSteps, SyndromeSteps, ByteType
    <2>2. crc16(x, m) = SymDiff(c, s)
      BY <1>2
    <2>3. crc16(x, m + 1) = EightTurns(SymDiff(crc16(x, m), ByteOf(x, m)))
      BY CrcSteps DEF Round
    <2>4. ByteOf(x, m) = SymDiff(b, d)
      BY BytesOfDifference
    <2>5. crc16(w, m + 1) = EightTurns(SymDiff(c, b))
      BY CrcSteps DEF Round
    <2>6. Syndrome(e, m + 1) = EightTurns(SymDiff(s, d))
      BY SyndromeSteps
    <2> HIDE DEF c, s, b, d, x
    <2>7. SymDiff(SymDiff(c, s), SymDiff(b, d)) = SymDiff(SymDiff(c, b), SymDiff(s, d))
      BY SymDiffPairs
    <2>8. SymDiff(c, b) \in Register /\ SymDiff(s, d) \in Register
      BY <2>1, SymDiffRegister
    <2>9. EightTurns(SymDiff(SymDiff(c, b), SymDiff(s, d)))
            = SymDiff(EightTurns(SymDiff(c, b)), EightTurns(SymDiff(s, d)))
      BY <2>8, EightTurnsLinear
    <2>10. crc16(x, m + 1) = SymDiff(crc16(w, m + 1), Syndrome(e, m + 1))
      BY <2>2, <2>3, <2>4, <2>5, <2>6, <2>7, <2>9
    <2> QED
      BY <2>10
  <1> HIDE DEF S
  <1>3. n \in S
    BY <1>1, <1>2, Induction
  <1> QED
    BY <1>3 DEF S

\* The syndrome of two sets of bits is the sum of theirs.
LEMMA SyndromeAdds ==
  ASSUME NEW a, NEW b, NEW n \in Nat
  PROVE  Syndrome(SymDiff(a, b), n) = SymDiff(Syndrome(a, n), Syndrome(b, n))
  <1>1. crc16(SymDiff(a, b), n) = SymDiff(crc16(a, n), Syndrome(b, n))
    BY CrcAddsSyndrome
  <1>2. SymDiff(SymDiff(crc16(a, n), Syndrome(b, n)), crc16({}, n))
          = SymDiff(SymDiff(crc16(a, n), crc16({}, n)), Syndrome(b, n))
    BY SymDiffLast
  <1> QED
    BY <1>1, <1>2 DEF Syndrome

\* The difference between the checksum of what is received and the one received.
Residue(e) == SymDiff(Syndrome(e \ CrcBits, HEADER_LEN), Found(e, "header_crc16"))

\* Bits turned in a field are turned in what is found there.
LEMMA FoundOfDifference ==
  ASSUME NEW a, NEW b, NEW f
  PROVE  Found(SymDiff(a, b), f) = SymDiff(Found(a, f), Found(b, f))
  BY DEF Found, SymDiff

\* The residue of two sets of bits is the sum of theirs.
LEMMA ResidueAdds ==
  ASSUME NEW a, NEW b
  PROVE  Residue(SymDiff(a, b)) = SymDiff(Residue(a), Residue(b))
  <1> DEFINE c == a \ CrcBits
             d == b \ CrcBits
  <1>1. SymDiff(a, b) \ CrcBits = SymDiff(c, d)
    BY DEF SymDiff
  <1>2. HEADER_LEN \in Nat
    BY DEF HEADER_LEN
  <1> HIDE DEF c, d
  <1>3. Syndrome(SymDiff(c, d), HEADER_LEN) = SymDiff(Syndrome(c, HEADER_LEN), Syndrome(d, HEADER_LEN))
    BY <1>2, SyndromeAdds
  <1>4. Found(SymDiff(a, b), "header_crc16")
          = SymDiff(Found(a, "header_crc16"), Found(b, "header_crc16"))
    BY FoundOfDifference
  <1>5. Residue(a) = SymDiff(Syndrome(c, HEADER_LEN), Found(a, "header_crc16"))
        /\ Residue(b) = SymDiff(Syndrome(d, HEADER_LEN), Found(b, "header_crc16"))
    BY DEF Residue, c, d
  <1>6. Residue(SymDiff(a, b)) = SymDiff(Syndrome(SymDiff(c, d), HEADER_LEN),
                                         Found(SymDiff(a, b), "header_crc16"))
    BY <1>1 DEF Residue
  <1> QED
    BY <1>3, <1>4, <1>5, <1>6, SymDiffPairs

\* An accepted header has the checksum of its bits.
LEMMA AcceptedHasSum ==
  ASSUME NEW w, NEW n, decode_header(w, n) = "OK"
  PROVE  crc16(w \ CrcBits, HEADER_LEN) = Found(w, "header_crc16")
  <1> DEFINE c == crc16(w \ CrcBits, HEADER_LEN)
             f == Found(w, "header_crc16")
             h == deserialize_header(w)
  <1>1. ChecksumAgrees(w, h)
    BY DEF decode_header
  <1>2. NumberOf(c) = h["header_crc16"]
    BY <1>1 DEF ChecksumAgrees
  <1>3. h["header_crc16"] = NumberOf(f) /\ f \in SUBSET (0 .. 15)
    BY FieldNames, FieldGathered
  <1>4. c \in SUBSET (0 .. 15)
    BY CrcSteps DEF Register, HEADER_LEN
  <1> HIDE DEF c, f, h
  <1>5. BitsOf(NumberOf(c)) = c /\ BitsOf(NumberOf(f)) = f
    BY <1>3, <1>4, BitsOfNumber
  <1>6. c = f
    BY <1>2, <1>3, <1>5
  <1> QED
    BY <1>6 DEF c, f

\* decode_header() accepts damage of a sealed header only if it has no residue.
LEMMA AcceptedHasNoResidue ==
  ASSUME NEW h \in Headers, NEW e, NEW n, decode_header(SymDiff(encode_header(h), e), n) = "OK"
  PROVE  Residue(e) = {}
  <1> DEFINE w == encode_header(h)
             x == SymDiff(w, e)
             f(u) == Found(u, "header_crc16")
             v == w \ CrcBits
             d == e \ CrcBits
             s == Syndrome(d, HEADER_LEN)
  <1>1. crc16(v, HEADER_LEN) = f(w)
    BY EncodedIsAccepted, AcceptedHasSum
  <1>2. crc16(x \ CrcBits, HEADER_LEN) = f(x)
    BY AcceptedHasSum
  <1>3. x \ CrcBits = SymDiff(v, d)
    BY DEF SymDiff
  <1>4. crc16(SymDiff(v, d), HEADER_LEN) = SymDiff(crc16(v, HEADER_LEN), s)
    <2>1. HEADER_LEN \in Nat
      BY DEF HEADER_LEN
    <2> HIDE DEF v, d
    <2> QED
      BY <2>1, CrcAddsSyndrome
  <1>5. f(x) = SymDiff(f(w), f(e))
    BY FoundOfDifference
  <1>6. Residue(e) = SymDiff(s, f(e))
    BY DEF Residue
  <1> HIDE DEF f, s, x, w, v, d
  <1>7. SymDiff(f(w), s) = SymDiff(f(w), f(e))
    BY <1>1, <1>2, <1>3, <1>4, <1>5
  <1>8. ASSUME NEW a, NEW b, NEW c, SymDiff(a, b) = SymDiff(a, c)
        PROVE  SymDiff(b, c) = {}
    <2>1. \A i : i \in SymDiff(a, b) <=> i \in SymDiff(a, c)
      BY <1>8
    <2> QED
      BY <2>1, SymDiffIn DEF SymDiff
  <1> QED
    BY <1>6, <1>7, <1>8
-----------------------------------------------------------------------------
(* Damage within two bytes.                                                *)

\* The inner loop leaves an empty register empty.
LEMMA EightTurnsOfNone == EightTurns({}) = {}
  <1>1. {} \in Register
    BY DEF Register
  <1>2. EightTurns(SymDiff({}, {})) = SymDiff(EightTurns({}), EightTurns({}))
    BY <1>1, EightTurnsLinear
  <1> QED
    BY <1>2, SymDiffSame

\* A bit of a message is in its byte.
LEMMA ByteHas ==
  ASSUME NEW w, NEW n \in Nat, NEW j \in 0 .. 7, 8 * n + j \in w
  PROVE  j + 8 \in ByteOf(w, n)
  BY DEF ByteOf

\* Nothing happens before the first turned bit.
LEMMA SyndromeBefore ==
  ASSUME NEW e, NEW n \in Nat, \A m \in 0 .. n - 1 : ByteOf(e, m) = {}
  PROVE  Syndrome(e, n) = {}
  <1> DEFINE S == {m \in 0 .. n : Syndrome(e, m) = {}}
  <1>1. 0 \in S
    <2>1. Syndrome(e, 0) = {}
      BY SyndromeSteps
    <2> QED
      BY <2>1
  <1>2. ASSUME NEW m \in 0 .. n - 1, m \in S PROVE m + 1 \in S
    <2>1. Syndrome(e, m + 1) = EightTurns(SymDiff(Syndrome(e, m), ByteOf(e, m)))
      BY SyndromeSteps
    <2>2. Syndrome(e, m) = {} /\ ByteOf(e, m) = {}
      BY <1>2
    <2>3. Syndrome(e, m + 1) = {}
      BY <2>1, <2>2, SymDiffSame, EightTurnsOfNone
    <2> QED
      BY <2>3
  <1> HIDE DEF S
  <1>3. n \in S
    BY <1>1, <1>2, InductionUpTo
  <1> QED
    BY <1>3 DEF S

\* And after the last one a difference stays a difference.
LEMMA SyndromeStays ==
  ASSUME NEW e, NEW n \in Nat, NEW d \in Nat, Syndrome(e, n) # {},
         \A m \in n .. n + d - 1 : ByteOf(e, m) = {}
  PROVE  Syndrome(e, n + d) # {}
  <1> DEFINE S == {m \in 0 .. d : Syndrome(e, n + m) # {}}
  <1>1. 0 \in S
    OBVIOUS
  <1>2. ASSUME NEW m \in 0 .. d - 1, m \in S PROVE m + 1 \in S
    <2>1. n + m \in Nat /\ n + m + 1 = n + (m + 1) /\ n + m \in n .. n + d - 1
      OBVIOUS
    <2>2. /\ Syndrome(e, n + m) \in Register
          /\ Syndrome(e, n + m + 1) = EightTurns(SymDiff(Syndrome(e, n + m), ByteOf(e, n + m)))
      BY <2>1, SyndromeSteps
    <2>3. Syndrome(e, n + m + 1) = EightTurns(Syndrome(e, n + m))
      BY <2>1, <2>2, NothingTurned
    <2>4. Syndrome(e, n + m) # {}
      BY <1>2
    <2>5. Syndrome(e, n + m + 1) # {}
      BY <2>2, <2>3, <2>4, EightTurnsKeepBits
    <2> QED
      BY <2>1, <2>5
  <1> HIDE DEF S
  <1>3. d \in S
    BY <1>1, <1>2, InductionUpTo
  <1> QED
    BY <1>3 DEF S

\* A register none of whose bits is set is empty.
LEMMA NoBits ==
  ASSUME NEW c \in Register,
         /\ 0 \notin c /\ 1 \notin c /\ 2 \notin c /\ 3 \notin c
         /\ 4 \notin c /\ 5 \notin c /\ 6 \notin c /\ 7 \notin c
         /\ 8 \notin c /\ 9 \notin c /\ 10 \notin c /\ 11 \notin c
         /\ 12 \notin c /\ 13 \notin c /\ 14 \notin c /\ 15 \notin c
  PROVE  c = {}
  <1>1. \A i \in 0 .. 15 : i \notin c
    OBVIOUS
  <1> QED
    BY <1>1 DEF Register

\* Only bits of the high byte, only bits of the low byte.
HighByte(c) ==
  /\ 0 \notin c /\ 1 \notin c /\ 2 \notin c /\ 3 \notin c
  /\ 4 \notin c /\ 5 \notin c /\ 6 \notin c /\ 7 \notin c

LowByte(c) ==
  /\ 8 \notin c /\ 9 \notin c /\ 10 \notin c /\ 11 \notin c
  /\ 12 \notin c /\ 13 \notin c /\ 14 \notin c /\ 15 \notin c

\* A register that is in both halves is empty.
LEMMA NoByte ==
  ASSUME NEW c \in Register, HighByte(c), LowByte(c)
  PROVE  c = {}
  BY NoBits DEF HighByte, LowByte

\* Bytes are added to the high half.
LEMMA ByteIsHigh ==
  ASSUME NEW w, NEW n
  PROVE  HighByte(ByteOf(w, n))
  <1>1. ByteOf(w, n) \in SUBSET (8 .. 15)
    BY ByteType
  <1> QED
    BY <1>1 DEF HighByte

\* The next byte cannot undo what turned bits of a byte did.
LEMMA NextByte ==
  ASSUME NEW c \in Register, HighByte(c), HighByte(EightTurns(c))
  PROVE  c = {}
  <1>1. EightTurnsAre(EightTurns(c), c)
    BY EightTurnsBits
  <1>2. LowByte(c)
    BY ONLY <1>1, HighByte(c), HighByte(EightTurns(c)) DEF EightTurnsAre, HighByte, LowByte, Xor
  <1> QED
    BY <1>2, NoByte

\* Nor can the low byte of the checksum, four bytes later.
LEMMA FiveBytesOn ==
  ASSUME NEW c \in Register, HighByte(c),
         LowByte(EightTurns(EightTurns(EightTurns(EightTurns(EightTurns(c))))))
  PROVE  c = {}
  <1> DEFINE c1 == EightTurns(c)  c2 == EightTurns(c1) c3 == EightTurns(c2)
             c4 == EightTurns(c3) c5 == EightTurns(c4)
  <1>1. c1 \in Register /\ c2 \in Register /\ c3 \in Register /\ c4 \in Register
    BY EightTurnsType
  <1>2. /\ EightTurnsAre(c1, c)  /\ EightTurnsAre(c2, c1) /\ EightTurnsAre(c3, c2)
        /\ EightTurnsAre(c4, c3) /\ EightTurnsAre(c5, c4)
    BY <1>1, EightTurnsBits
  <1>3. LowByte(c5)
    OBVIOUS
  <1> HIDE DEF c1, c2, c3, c4, c5
  <1>4. LowByte(c)
    BY ONLY <1>2, <1>3, HighByte(c) DEF EightTurnsAre, HighByte, LowByte, Xor
  <1> QED
    BY <1>4, NoByte

\* The high byte of the checksum can undo turned bits of the byte behind it, but
\* only if the first of its bits and the last of the other's are among them.
LEMMA TwoBytesOn ==
  ASSUME NEW c \in Register, HighByte(c), HighByte(EightTurns(EightTurns(c))), c # {}
  PROVE  15 \in c /\ 8 \in EightTurns(EightTurns(c))
  <1> DEFINE c1 == EightTurns(c)  c2 == EightTurns(c1)
  <1>1. c1 \in Register
    BY EightTurnsType
  <1>2. EightTurnsAre(c1, c) /\ EightTurnsAre(c2, c1)
    BY <1>1, EightTurnsBits
  <1>3. HighByte(c2)
    OBVIOUS
  <1>4. ~ LowByte(c)
    BY NoByte
  <1> HIDE DEF c1, c2
  <1>5. 15 \in c /\ 8 \in c2
    BY ONLY <1>2, <1>3, <1>4, HighByte(c) DEF EightTurnsAre, HighByte, LowByte, Xor
  <1> QED
    BY <1>5 DEF c1, c2

\* What turned bits within two bytes leave when the checksum is not among them.
LEMMA TwoBytesOfData ==
  ASSUME NEW n \in 0 .. 22, NEW e \in SUBSET (8 * n .. 8 * n + 15), e # {}
  PROVE  Syndrome(e, 24) # {}
  <1> DEFINE u == ByteOf(e, n)
             v == ByteOf(e, n + 1)
  <1>1. \A m \in Nat : m # n /\ m # n + 1 => ByteOf(e, m) = {}
    <2> SUFFICES ASSUME NEW m \in Nat, m # n, m # n + 1, NEW i, i \in ByteOf(e, m) PROVE FALSE
      OBVIOUS
    <2>1. i \in 8 .. 15 /\ 8 * m + (i - 8) \in e
      BY ByteIn
    <2> QED
      BY <2>1
  <1>2. u = {} /\ v = {} => e = {}
    <2> SUFFICES ASSUME NEW p \in e PROVE u # {} \/ v # {}
      OBVIOUS
    <2>1. CASE p <= 8 * n + 7
      <3>1. PICK j \in 0 .. 7 : p = 8 * n + j
        <4>1. p - 8 * n \in 0 .. 7 /\ p = 8 * n + (p - 8 * n)
          BY <2>1
        <4> QED
          BY <4>1
      <3>2. j + 8 \in ByteOf(e, n)
        BY <3>1, ByteHas
      <3> QED
        BY <3>2
    <2>2. CASE p > 8 * n + 7
      <3>1. PICK j \in 0 .. 7 : p = 8 * (n + 1) + j
        <4>1. p - 8 * (n + 1) \in 0 .. 7 /\ p = 8 * (n + 1) + (p - 8 * (n + 1))
          BY <2>2
        <4> QED
          BY <4>1
      <3>2. n + 1 \in Nat
        OBVIOUS
      <3>3. j + 8 \in ByteOf(e, n + 1)
        BY <3>1, <3>2, ByteHas
      <3> QED
        BY <3>3
    <2> QED
      BY <2>1, <2>2
  <1>3. u \in Register /\ v \in Register /\ HighByte(u) /\ HighByte(v)
    BY ByteType, ByteIsHigh
  <1>4. Syndrome(e, n) = {}
    BY <1>1, SyndromeBefore
  <1>5. Syndrome(e, n + 1) = EightTurns(u)
    <2>1. Syndrome(e, n + 1) = EightTurns(SymDiff(Syndrome(e, n), ByteOf(e, n)))
      BY SyndromeSteps
    <2> QED
      BY <1>4, <2>1, SymDiffSame
  <1>6. Syndrome(e, n + 1 + 1) = EightTurns(SymDiff(EightTurns(u), v))
    <2>1. n + 1 \in Nat
      OBVIOUS
    <2> QED
      BY <1>5, <2>1, SyndromeSteps
  <1> HIDE DEF u, v
  <1>7. SymDiff(EightTurns(u), v) # {}
    <2> SUFFICES ASSUME SymDiff(EightTurns(u), v) = {} PROVE FALSE
      OBVIOUS
    <2>1. EightTurns(u) = v
      BY SymDiffNone
    <2>2. u = {}
      BY <1>3, <2>1, NextByte
    <2>3. v = {}
      BY <2>1, <2>2, EightTurnsOfNone
    <2> QED
      BY <1>2, <2>2, <2>3
  <1>8. Syndrome(e, n + 1 + 1) # {}
    <2>1. SymDiff(EightTurns(u), v) \in Register
      BY <1>3, EightTurnsType, SymDiffRegister
    <2> QED
      BY <1>6, <1>7, <2>1, EightTurnsKeepBits
  <1>9. PICK k \in Nat : k = n + 1 + 1
    OBVIOUS
  <1>10. PICK d \in Nat : k + d = 24
    <2>1. 22 - n \in Nat /\ k + (22 - n) = 24
      BY <1>9
    <2> QED
      BY <2>1
  <1>11. \A m \in k .. k + d - 1 : ByteOf(e, m) = {}
    BY <1>1, <1>9
  <1>12. Syndrome(e, k + d) # {}
    BY <1>8, <1>9, <1>11, SyndromeStays
  <1> QED
    BY <1>10, <1>12

\* The checksum is bytes 20 and 21.
LEMMA ChecksumPlace ==
  /\ CrcBits = 160 .. 175
  /\ \A w : Found(w, "header_crc16") = {i \in 0 .. 15 : 160 + i \in w}
  <1>1. CrcBits = 160 .. 175
    BY Places DEF CrcBits, First
  <1>2. First("header_crc16") = 20 /\ Size("header_crc16") = 2
    BY Places
  <1> QED
    BY <1>1, <1>2 DEF Found

\* The least of a set of numbers.
LEMMA Least ==
  ASSUME NEW S \in SUBSET Nat, S # {}
  PROVE  \E m \in S : \A k \in S : m <= k
  <1>1. IsWellFoundedOn(Less, Nat)
    BY NatLessThanWellFounded DEF Less, OpToRel
  <1>2. PICK m \in S : \A k \in S : <<k, m>> \notin Less
    BY <1>1, WFMin
  <1>3. ASSUME NEW k \in S PROVE m <= k
    <2>1. k \in Nat /\ m \in Nat /\ ~ (k < m)
      BY <1>2 DEF Less
    <2> QED
      BY <2>1
  <1> QED
    BY <1>3

\* Nine bits in a row touch two bytes at most.
LEMMA DamageWithinTwoBytes ==
  ASSUME NEW e \in SUBSET (0 .. 191), e # {}, \A a, b \in e : a < b => b - a < 9
  PROVE  \E n \in 0 .. 22 : e \subseteq 8 * n .. 8 * n + 15
  <1>1. PICK a \in e : \A b \in e : a <= b
    BY Least
  <1>2. \A b \in e : b \in 0 .. 191 /\ a <= b /\ b <= a + 8
    BY <1>1
  <1>3. PICK m \in 0 .. 23 : 8 * m <= a /\ a <= 8 * m + 7
    <2>1. a \div 8 \in 0 .. 23 /\ 8 * (a \div 8) <= a /\ a <= 8 * (a \div 8) + 7
      OBVIOUS
    <2> QED
      BY <2>1
  <1>4. CASE m = 23
    <2>1. PICK k \in 0 .. 22 : k = 22
      OBVIOUS
    <2>2. \A b \in e : b \in 8 * k .. 8 * k + 15
      BY <1>2, <1>3, <1>4, <2>1
    <2> QED
      BY <2>2
  <1>5. CASE m < 23
    <2>1. \A b \in e : b \in 8 * m .. 8 * m + 15
      BY <1>2, <1>3
    <2>2. m \in 0 .. 22
      BY <1>5
    <2> QED
      BY <2>1, <2>2
  <1> QED
    BY <1>4, <1>5

\* Any of nine bits in a row leave a residue: in two bytes of data, in one of
\* data and one of the checksum, or in the checksum.
LEMMA BurstLeavesResidue ==
  ASSUME NEW e \in SUBSET (0 .. 191), e # {}, \A a, b \in e : a < b => b - a < 9
  PROVE  Residue(e) # {}
  <1> DEFINE d == e \ CrcBits
             f == Found(e, "header_crc16")
  <1>1. PICK n \in 0 .. 22 : e \subseteq 8 * n .. 8 * n + 15
    BY DamageWithinTwoBytes
  <1>2. /\ \A i : i \in d <=> i \in e /\ i \notin 160 .. 175
        /\ \A i : i \in f <=> i \in 0 .. 15 /\ 160 + i \in e
    BY ChecksumPlace
  <1>3. Residue(e) = SymDiff(Syndrome(d, 24), f)
    BY DEF Residue, HEADER_LEN
  <1>4. ASSUME d = {}, f = {} PROVE FALSE
    <2>1. PICK p \in e : p \in 160 .. 175
      BY <1>2, <1>4
    <2>2. p - 160 \in 0 .. 15 /\ 160 + (p - 160) = p
      BY <2>1
    <2> QED
      BY <1>2, <1>4, <2>2
  <1>5. f \in Register
    BY <1>2 DEF Register
  <1> HIDE DEF d, f
  <1>6. CASE n <= 18 \/ n = 22
    <2>1. \A i \in e : i \in 8 * n .. 8 * n + 15 /\ i \notin 160 .. 175
      BY <1>1, <1>6
    <2>2. f = {}
      <3>1. ASSUME NEW i \in f PROVE FALSE
        <4>1. i \in 0 .. 15 /\ 160 + i \in e
          BY <1>2, <3>1
        <4>2. 160 + i \in 160 .. 175
          BY <4>1
        <4> QED
          BY <2>1, <4>1, <4>2
      <3> QED
        BY <3>1
    <2>3. d = e
      BY <1>2, <2>1
    <2>4. Syndrome(d, 24) # {}
      BY <1>1, <2>3, TwoBytesOfData
    <2> QED
      BY <1>3, <2>2, <2>4, NothingTurned
  <1>7. CASE n = 20
    <2>1. d = {}
      <3>1. \A i \in e : i \in 160 .. 175
        BY <1>1, <1>7
      <3>2. ASSUME NEW i \in d PROVE FALSE
        <4>1. i \in e /\ i \notin 160 .. 175
          BY <1>2, <3>2
        <4> QED
          BY <3>1, <4>1
      <3> QED
        BY <3>2
    <2>2. Residue(e) = f
      BY <1>3, <2>1, SymDiffSame DEF Syndrome
    <2> QED
      BY <1>4, <2>1, <2>2
  <1>8. CASE n = 19
    <2> SUFFICES ASSUME Syndrome(d, 24) = f PROVE FALSE
      BY <1>3, SymDiffNone
    <2> DEFINE u == ByteOf(d, 19)
    <2>1. \A i \in e : i \in 152 .. 167
      BY <1>1, <1>8
    <2>2. \A m \in Nat : m # 19 => ByteOf(d, m) = {}
      <3> SUFFICES ASSUME NEW m \in Nat, m # 19, NEW i, i \in ByteOf(d, m) PROVE FALSE
        OBVIOUS
      <3>1. i \in 8 .. 15 /\ 8 * m + (i - 8) \in d
        BY ByteIn
      <3>2. 8 * m + (i - 8) \in 152 .. 159
        BY <1>2, <2>1, <3>1
      <3> QED
        BY <3>1, <3>2
    <2>3. LowByte(f)
      <3>1. ASSUME NEW i \in 8 .. 15 PROVE i \notin f
        <4>1. 160 + i \notin 152 .. 167
          OBVIOUS
        <4> QED
          BY <1>2, <2>1, <4>1
      <3> QED
        BY <3>1 DEF LowByte
    <2>4. u \in Register /\ HighByte(u)
      BY ByteType, ByteIsHigh
    <2>5. Syndrome(d, 19) = {}
      BY <2>2, SyndromeBefore
    <2>6. Syndrome(d, 20) = EightTurns(u)
      <3>1. Syndrome(d, 19 + 1) = EightTurns(SymDiff(Syndrome(d, 19), ByteOf(d, 19)))
        BY SyndromeSteps
      <3> QED
        BY <2>5, <3>1, SymDiffSame
    <2>7. ASSUME NEW m \in 20 .. 23 PROVE Syndrome(d, m + 1) = EightTurns(Syndrome(d, m))
      <3>1. Syndrome(d, m + 1) = EightTurns(SymDiff(Syndrome(d, m), ByteOf(d, m)))
        BY SyndromeSteps
      <3>2. ByteOf(d, m) = {}
        BY <2>2
      <3> QED
        BY <3>1, <3>2, NothingTurned
    <2> HIDE DEF u
    <2>8. /\ Syndrome(d, 20 + 1) = EightTurns(Syndrome(d, 20))
          /\ Syndrome(d, 21 + 1) = EightTurns(Syndrome(d, 21))
          /\ Syndrome(d, 22 + 1) = EightTurns(Syndrome(d, 22))
          /\ Syndrome(d, 23 + 1) = EightTurns(Syndrome(d, 23))
      BY <2>7
    <2>9. f = EightTurns(EightTurns(EightTurns(EightTurns(EightTurns(u)))))
      BY <2>6, <2>8
    <2>10. u = {}
      BY <2>3, <2>4, <2>9, FiveBytesOn
    <2>11. f = {}
      BY <2>9, <2>10, EightTurnsOfNone
    <2>12. ASSUME NEW p \in d PROVE FALSE
      <3>1. p \in 152 .. 159
        <4>1. p \in e /\ p \notin 160 .. 175
          BY <1>2, <2>12
        <4>2. p \in 152 .. 167
          BY <2>1, <4>1
        <4> QED
          BY <4>1, <4>2
      <3>2. PICK j \in 0 .. 7 : p = 8 * 19 + j
        <4>1. p - 152 \in 0 .. 7 /\ p = 8 * 19 + (p - 152)
          BY <3>1
        <4> QED
          BY <4>1
      <3>3. j + 8 \in ByteOf(d, 19)
        BY <2>12, <3>2, ByteHas
      <3> QED
        BY <2>10, <3>3 DEF u
    <2> QED
      BY <1>4, <2>11, <2>12
  <1>9. CASE n = 21
    <2> SUFFICES ASSUME Syndrome(d, 24) = f PROVE FALSE
      BY <1>3, SymDiffNone
    <2> DEFINE v == ByteOf(d, 22)
    <2>1. \A i \in e : i \in 168 .. 183
      BY <1>1, <1>9
    <2>2. \A m \in Nat : m # 22 => ByteOf(d, m) = {}
      <3> SUFFICES ASSUME NEW m \in Nat, m # 22, NEW i, i \in ByteOf(d, m) PROVE FALSE
        OBVIOUS
      <3>1. i \in 8 .. 15 /\ 8 * m + (i - 8) \in d
        BY ByteIn
      <3>2. 8 * m + (i - 8) \in 176 .. 183
        BY <1>2, <2>1, <3>1
      <3> QED
        BY <3>1, <3>2
    <2>3. HighByte(f)
      <3>1. ASSUME NEW i \in 0 .. 7 PROVE i \notin f
        <4>1. 160 + i \notin 168 .. 183
          OBVIOUS
        <4> QED
          BY <1>2, <2>1, <4>1
      <3> QED
        BY <3>1 DEF HighByte
    <2>4. v \in Register /\ HighByte(v)
      BY ByteType, ByteIsHigh
    <2>5. Syndrome(d, 22) = {}
      BY <2>2, SyndromeBefore
    <2>6. Syndrome(d, 23) = EightTurns(v)
      <3>1. Syndrome(d, 22 + 1) = EightTurns(SymDiff(Syndrome(d, 22), ByteOf(d, 22)))
        BY SyndromeSteps
      <3> QED
        BY <2>5, <3>1, SymDiffSame
    <2>7. Syndrome(d, 24) = EightTurns(Syndrome(d, 23))
      <3>1. Syndrome(d, 23 + 1) = EightTurns(SymDiff(Syndrome(d, 23), ByteOf(d, 23)))
        BY SyndromeSteps
      <3>2. ByteOf(d, 23) = {}
        BY <2>2
      <3> QED
        BY <3>1, <3>2, NothingTurned
    <2> HIDE DEF v
    <2>8. f = EightTurns(EightTurns(v))
      BY <2>6, <2>7
    <2>9. CASE v = {}
      <3>1. f = {}
        BY <2>8, <2>9, EightTurnsOfNone
      <3>2. ASSUME NEW p \in d PROVE FALSE
        <4>1. p \in 176 .. 183
          <5>1. p \in e /\ p \notin 160 .. 175
            BY <1>2, <3>2
          <5>2. p \in 168 .. 183
            BY <2>1, <5>1
          <5> QED
            BY <5>1, <5>2
        <4>2. PICK j \in 0 .. 7 : p = 8 * 22 + j
          <5>1. p - 176 \in 0 .. 7 /\ p = 8 * 22 + (p - 176)
            BY <4>1
          <5> QED
            BY <5>1
        <4>3. j + 8 \in ByteOf(d, 22)
          BY <3>2, <4>2, ByteHas
        <4> QED
          BY <2>9, <4>3 DEF v
      <3> QED
        BY <1>4, <3>1, <3>2
    <2>10. CASE v # {}
      <3>1. 15 \in v /\ 8 \in f
        BY <2>3, <2>4, <2>8, <2>10, TwoBytesOn
      <3>2. 8 * 22 + (15 - 8) \in d
        BY <3>1, ByteIn DEF v
      <3>3. 183 \in e /\ 168 \in e
        BY <1>2, <3>1, <3>2
      <3> QED
        BY <3>3
    <2> QED
      BY <2>9, <2>10
  <1> QED
    BY <1>6, <1>7, <1>8, <1>9
-----------------------------------------------------------------------------
(* A few bits turned anywhere.                                             *)

\* A turn can be turned back.
LEMMA ShiftOutOneToOne ==
  ASSUME NEW a \in Register, NEW b \in Register, ShiftOut(a) = ShiftOut(b)
  PROVE  a = b
  <1>1. ShiftOut(SymDiff(a, b)) = {}
    BY ShiftOutLinear, SymDiffSame
  <1>2. SymDiff(a, b) = {}
    BY <1>1, SymDiffRegister, ShiftOutKeepsBits
  <1> QED
    BY <1>2, SymDiffNone

\* x^n on division by the polynomial.
LastDegree == 208

\* The powers of x modulo the polynomial.
AreMonomials(x) ==
  /\ x \in [0 .. LastDegree -> Register] /\ x[0] = {0}
  /\ \A n \in 0 .. LastDegree - 1 : x[n + 1] = ShiftOut(x[n])

Monomial(n) == (CHOOSE x : AreMonomials(x))[n]

\* Each power is one turn from the one before.
LEMMA MonomialSteps ==
  /\ \A n \in 0 .. 208 : Monomial(n) \in Register
  /\ Monomial(0) = {0}
  /\ \A n \in 0 .. 207 : Monomial(n + 1) = ShiftOut(Monomial(n))
  <1> DEFINE turn == [n \in 1 .. LastDegree |-> [c \in Register |-> ShiftOut(c)]]
  <1>0. LastDegree \in Nat
    BY DEF LastDegree
  <1>1. turn \in [1 .. LastDegree -> [Register -> Register]]
    BY ShiftOutType
  <1>2. \A n \in 1 .. LastDegree, c \in Register : turn[n][c] = ShiftOut(c)
    OBVIOUS
  <1>3. {0} \in Register
    BY DEF Register
  <1> HIDE DEF turn
  <1>4. PICK g : Turns(g, Register, {0}, LastDegree, turn)
    BY <1>0, <1>1, <1>3, Loop
  <1>5. /\ g \in [0 .. LastDegree -> Register] /\ g[0] = {0}
        /\ \A n \in 1 .. LastDegree : g[n] = turn[n][g[n - 1]]
    BY <1>4 DEF Turns
  <1>6. ASSUME NEW n \in 0 .. LastDegree - 1 PROVE g[n + 1] = ShiftOut(g[n])
    <2>1. n + 1 \in 1 .. LastDegree /\ n + 1 - 1 = n /\ n \in 0 .. LastDegree
      BY <1>0
    <2>2. g[n + 1] = turn[n + 1][g[n + 1 - 1]]
      BY <1>5, <2>1
    <2>3. g[n] \in Register
      BY <1>5, <2>1
    <2>4. turn[n + 1][g[n]] = ShiftOut(g[n])
      BY <1>2, <2>1, <2>3
    <2> QED
      BY <2>1, <2>2, <2>4
  <1>7. AreMonomials(g)
    BY <1>5, <1>6 DEF AreMonomials
  <1> DEFINE x == CHOOSE y : AreMonomials(y)
  <1>8. AreMonomials(x)
    BY <1>7
  <1>9. \A n : Monomial(n) = x[n]
    BY DEF Monomial
  <1> HIDE DEF x
  <1> QED
    BY <1>8, <1>9 DEF AreMonomials, LastDegree

\* The inner loop multiplies by the eighth power of x.
LEMMA EightMore ==
  ASSUME NEW n \in 0 .. 200
  PROVE  EightTurns(Monomial(n)) = Monomial(n + 8)
  <1>1. Monomial(n) \in Register
    BY MonomialSteps
  <1>2. ASSUME NEW i \in 0 .. 7, NEW j \in 1 .. 8, j = i + 1
        PROVE  ShiftOut(Monomial(n + i)) = Monomial(n + j)
    <2>1. n + i \in 0 .. 207 /\ n + i + 1 = n + j
      BY <1>2
    <2> QED
      BY <2>1, MonomialSteps
  <1>3. ShiftOut(Monomial(n)) = Monomial(n + 1)
    BY MonomialSteps
  <1>4. /\ ShiftOut(Monomial(n + 1)) = Monomial(n + 2) /\ ShiftOut(Monomial(n + 2)) = Monomial(n + 3)
        /\ ShiftOut(Monomial(n + 3)) = Monomial(n + 4) /\ ShiftOut(Monomial(n + 4)) = Monomial(n + 5)
        /\ ShiftOut(Monomial(n + 5)) = Monomial(n + 6) /\ ShiftOut(Monomial(n + 6)) = Monomial(n + 7)
        /\ ShiftOut(Monomial(n + 7)) = Monomial(n + 8)
    BY <1>2
  <1> QED
    BY <1>1, <1>3, <1>4, EightTurnsUnrolled

\* Below degree 16 there is nothing to divide.
LEMMA LowMonomials ==
  ASSUME NEW n \in 0 .. 15
  PROVE  Monomial(n) = {n}
  <1> DEFINE S == {m \in 0 .. 15 : Monomial(m) = {m}}
  <1>1. 0 \in S
    BY MonomialSteps
  <1>2. ASSUME NEW m \in 0 .. 14, m \in S PROVE m + 1 \in S
    <2>1. Monomial(m) = {m} /\ Monomial(m + 1) = ShiftOut(Monomial(m))
      BY <1>2, MonomialSteps
    <2>2. {i + 1 : i \in {m} \ {15}} = {m + 1} /\ 15 \notin {m}
      OBVIOUS
    <2>3. ShiftOut({m}) = {m + 1}
      BY <2>2 DEF ShiftOut
    <2>4. Monomial(m + 1) = {m + 1} /\ m + 1 \in 0 .. 15
      BY <2>1, <2>3
    <2> QED
      BY <2>4
  <1> HIDE DEF S
  <1>3. 0 .. 15 \subseteq S
    BY <1>1, <1>2, InductionUpTo
  <1> QED
    BY <1>3 DEF S

\* A register with these bits is what the inner loop leaves.
LEMMA EightTurnsTo ==
  ASSUME NEW c \in Register, NEW e \in Register, EightTurnsAre(e, c)
  PROVE  EightTurns(c) = e
  <1> DEFINE d == EightTurns(c)
  <1>1. d \in Register /\ EightTurnsAre(d, c)
    BY EightTurnsType, EightTurnsBits
  <1> HIDE DEF d
  <1> DEFINE x == SymDiff(d, e)
  <1>2. \A i : i \in x <=> Xor(i \in d, i \in e)
    BY SymDiffIn DEF Xor
  <1>3. x \in Register
    BY <1>1, SymDiffRegister
  <1> HIDE DEF x
  <1>4. /\ 0 \notin x /\ 1 \notin x /\ 2 \notin x /\ 3 \notin x
        /\ 4 \notin x /\ 5 \notin x /\ 6 \notin x /\ 7 \notin x
        /\ 8 \notin x /\ 9 \notin x /\ 10 \notin x /\ 11 \notin x
        /\ 12 \notin x /\ 13 \notin x /\ 14 \notin x /\ 15 \notin x
    BY <1>1, <1>2 DEF EightTurnsAre, Xor
  <1>5. x = {}
    BY <1>3, <1>4, NoBits
  <1> QED
    BY <1>5, SymDiffNone DEF x, d

\* One line of the division by hand.
LEMMA NextMonomial ==
  ASSUME NEW n \in 0 .. 200, NEW e \in Register, EightTurnsAre(e, Monomial(n))
  PROVE  Monomial(n + 8) = e
  BY MonomialSteps, EightMore, EightTurnsTo

\* Division by hand, eight degrees at a time.
LEMMA MonomialTable ==
  /\ Monomial(8) = {8}
  /\ Monomial(16) = {0, 5, 12}
  /\ Monomial(24) = {0, 4, 5, 8, 9, 12, 13}
  /\ Monomial(32) = {4, 5, 8, 9, 10, 12, 13}
  /\ Monomial(40) = {2, 4, 5, 7, 9, 10, 12, 13, 14}
  /\ Monomial(48) = {0, 4, 6, 9, 11, 13, 15}
  /\ Monomial(56) = {5, 7, 8, 10, 14}
  /\ Monomial(64) = {0, 5, 6, 11, 12, 13, 15}
  /\ Monomial(72) = {0, 1, 4, 6, 7, 8, 9, 10, 14}
  /\ Monomial(80) = {0, 1, 5, 8, 9, 11, 13, 14, 15}
  /\ Monomial(88) = {0, 2, 6, 8, 9, 10, 11, 13, 14}
  /\ Monomial(96) = {0, 3, 6, 11, 12, 14, 15}
  /\ Monomial(104) = {0, 2, 4, 5, 6, 8, 9}
  /\ Monomial(112) = {0, 1, 5, 6, 8, 10, 14}
  /\ Monomial(120) = {0, 5, 6, 8, 9, 11, 12, 13, 14}
  /\ Monomial(128) = {2, 3, 4, 5, 6, 7, 9, 10, 11, 13, 15}
  /\ Monomial(136) = {2, 5, 11, 13, 15}
  /\ Monomial(144) = {1, 5, 6, 7, 12}
  /\ Monomial(152) = {0, 4, 5, 12, 13, 14, 15}
  /\ Monomial(160) = {0, 1, 2, 3, 4, 9, 10, 11, 12, 14, 15}
  /\ Monomial(168) = {0, 1, 4, 5, 7, 8, 10, 12, 13}
  /\ Monomial(176) = {1, 2, 4, 5, 6, 7, 8, 10, 12, 14, 15}
  /\ Monomial(184) = {3, 4, 6, 7, 8, 10, 11, 13, 14}
  /\ Monomial(192) = {0, 1, 3, 8, 10, 13, 14}
  /\ Monomial(200) = {0, 1, 8, 9, 10, 12, 13}
  /\ Monomial(208) = {2, 4, 5, 7, 8, 10, 14}
  <1>1. Monomial(8) = {8}
    BY LowMonomials
  <1>2. Monomial(16) = {0, 5, 12}
    <2>1. {0, 5, 12} \in Register
      BY DEF Register
    <2>2. EightTurnsAre({0, 5, 12}, Monomial(8))
      BY <1>1 DEF EightTurnsAre, Xor
    <2> QED
      BY <2>1, <2>2, NextMonomial
  <1>3. Monomial(24) = {0, 4, 5, 8, 9, 12, 13}
    <2>1. {0, 4, 5, 8, 9, 12, 13} \in Register
      BY DEF Register
    <2>2. EightTurnsAre({0, 4, 5, 8, 9, 12, 13}, Monomial(16))
      BY <1>2 DEF EightTurnsAre, Xor
    <2> QED
      BY <2>1, <2>2, NextMonomial
  <1>4. Monomial(32) = {4, 5, 8, 9, 10, 12, 13}
    <2>1. {4, 5, 8, 9, 10, 12, 13} \in Register
      BY DEF Register
    <2>2. EightTurnsAre({4, 5, 8, 9, 10, 12, 13}, Monomial(24))
      BY <1>3 DEF EightTurnsAre, Xor
    <2> QED
      BY <2>1, <2>2, NextMonomial
  <1>5. Monomial(40) = {2, 4, 5, 7, 9, 10, 12, 13, 14}
    <2>1. {2, 4, 5, 7, 9, 10, 12, 13, 14} \in Register
      BY DEF Register
    <2>2. EightTurnsAre({2, 4, 5, 7, 9, 10, 12, 13, 14}, Monomial(32))
      BY <1>4 DEF EightTurnsAre, Xor
    <2> QED
      BY <2>1, <2>2, NextMonomial
  <1>6. Monomial(48) = {0, 4, 6, 9, 11, 13, 15}
    <2>1. {0, 4, 6, 9, 11, 13, 15} \in Register
      BY DEF Register
    <2>2. EightTurnsAre({0, 4, 6, 9, 11, 13, 15}, Monomial(40))
      BY <1>5 DEF EightTurnsAre, Xor
    <2> QED
      BY <2>1, <2>2, NextMonomial
  <1>7. Monomial(56) = {5, 7, 8, 10, 14}
    <2>1. {5, 7, 8, 10, 14} \in Register
      BY DEF Register
    <2>2. EightTurnsAre({5, 7, 8, 10, 14}, Monomial(48))
      BY <1>6 DEF EightTurnsAre, Xor
    <2> QED
      BY <2>1, <2>2, NextMonomial
  <1>8. Monomial(64) = {0, 5, 6, 11, 12, 13, 15}
    <2>1. {0, 5, 6, 11, 12, 13, 15} \in Register
      BY DEF Register
    <2>2. EightTurnsAre({0, 5, 6, 11, 12, 13, 15}, Monomial(56))
      BY <1>7 DEF EightTurnsAre, Xor
    <2> QED
      BY <2>1, <2>2, NextMonomial
  <1>9. Monomial(72) = {0, 1, 4, 6, 7, 8, 9, 10, 14}
    <2>1. {0, 1, 4, 6, 7, 8, 9, 10, 14} \in Register
      BY DEF Register
    <2>2. EightTurnsAre({0, 1, 4, 6, 7, 8, 9, 10, 14}, Monomial(64))
      BY <1>8 DEF EightTurnsAre, Xor
    <2> QED
      BY <2>1, <2>2, NextMonomial
  <1>10. Monomial(80) = {0, 1, 5, 8, 9, 11, 13, 14, 15}
    <2>1. {0, 1, 5, 8, 9, 11, 13, 14, 15} \in Register
      BY DEF Register
    <2>2. EightTurnsAre({0, 1, 5, 8, 9, 11, 13, 14, 15}, Monomial(72))
      BY <1>9 DEF EightTurnsAre, Xor
    <2> QED
      BY <2>1, <2>2, NextMonomial
  <1>11. Monomial(88) = {0, 2, 6, 8, 9, 10, 11, 13, 14}
    <2>1. {0, 2, 6, 8, 9, 10, 11, 13, 14} \in Register
      BY DEF Register
    <2>2. EightTurnsAre({0, 2, 6, 8, 9, 10, 11, 13, 14}, Monomial(80))
      BY <1>10 DEF EightTurnsAre, Xor
    <2> QED
      BY <2>1, <2>2, NextMonomial
  <1>12. Monomial(96) = {0, 3, 6, 11, 12, 14, 15}
    <2>1. {0, 3, 6, 11, 12, 14, 15} \in Register
      BY DEF Register
    <2>2. EightTurnsAre({0, 3, 6, 11, 12, 14, 15}, Monomial(88))
      BY <1>11 DEF EightTurnsAre, Xor
    <2> QED
      BY <2>1, <2>2, NextMonomial
  <1>13. Monomial(104) = {0, 2, 4, 5, 6, 8, 9}
    <2>1. {0, 2, 4, 5, 6, 8, 9} \in Register
      BY DEF Register
    <2>2. EightTurnsAre({0, 2, 4, 5, 6, 8, 9}, Monomial(96))
      BY <1>12 DEF EightTurnsAre, Xor
    <2> QED
      BY <2>1, <2>2, NextMonomial
  <1>14. Monomial(112) = {0, 1, 5, 6, 8, 10, 14}
    <2>1. {0, 1, 5, 6, 8, 10, 14} \in Register
      BY DEF Register
    <2>2. EightTurnsAre({0, 1, 5, 6, 8, 10, 14}, Monomial(104))
      BY <1>13 DEF EightTurnsAre, Xor
    <2> QED
      BY <2>1, <2>2, NextMonomial
  <1>15. Monomial(120) = {0, 5, 6, 8, 9, 11, 12, 13, 14}
    <2>1. {0, 5, 6, 8, 9, 11, 12, 13, 14} \in Register
      BY DEF Register
    <2>2. EightTurnsAre({0, 5, 6, 8, 9, 11, 12, 13, 14}, Monomial(112))
      BY <1>14 DEF EightTurnsAre, Xor
    <2> QED
      BY <2>1, <2>2, NextMonomial
  <1>16. Monomial(128) = {2, 3, 4, 5, 6, 7, 9, 10, 11, 13, 15}
    <2>1. {2, 3, 4, 5, 6, 7, 9, 10, 11, 13, 15} \in Register
      BY DEF Register
    <2>2. EightTurnsAre({2, 3, 4, 5, 6, 7, 9, 10, 11, 13, 15}, Monomial(120))
      BY <1>15 DEF EightTurnsAre, Xor
    <2> QED
      BY <2>1, <2>2, NextMonomial
  <1>17. Monomial(136) = {2, 5, 11, 13, 15}
    <2>1. {2, 5, 11, 13, 15} \in Register
      BY DEF Register
    <2>2. EightTurnsAre({2, 5, 11, 13, 15}, Monomial(128))
      BY <1>16 DEF EightTurnsAre, Xor
    <2> QED
      BY <2>1, <2>2, NextMonomial
  <1>18. Monomial(144) = {1, 5, 6, 7, 12}
    <2>1. {1, 5, 6, 7, 12} \in Register
      BY DEF Register
    <2>2. EightTurnsAre({1, 5, 6, 7, 12}, Monomial(136))
      BY <1>17 DEF EightTurnsAre, Xor
    <2> QED
      BY <2>1, <2>2, NextMonomial
  <1>19. Monomial(152) = {0, 4, 5, 12, 13, 14, 15}
    <2>1. {0, 4, 5, 12, 13, 14, 15} \in Register
      BY DEF Register
    <2>2. EightTurnsAre({0, 4, 5, 12, 13, 14, 15}, Monomial(144))
      BY <1>18 DEF EightTurnsAre, Xor
    <2> QED
      BY <2>1, <2>2, NextMonomial
  <1>20. Monomial(160) = {0, 1, 2, 3, 4, 9, 10, 11, 12, 14, 15}
    <2>1. {0, 1, 2, 3, 4, 9, 10, 11, 12, 14, 15} \in Register
      BY DEF Register
    <2>2. EightTurnsAre({0, 1, 2, 3, 4, 9, 10, 11, 12, 14, 15}, Monomial(152))
      BY <1>19 DEF EightTurnsAre, Xor
    <2> QED
      BY <2>1, <2>2, NextMonomial
  <1>21. Monomial(168) = {0, 1, 4, 5, 7, 8, 10, 12, 13}
    <2>1. {0, 1, 4, 5, 7, 8, 10, 12, 13} \in Register
      BY DEF Register
    <2>2. EightTurnsAre({0, 1, 4, 5, 7, 8, 10, 12, 13}, Monomial(160))
      BY <1>20 DEF EightTurnsAre, Xor
    <2> QED
      BY <2>1, <2>2, NextMonomial
  <1>22. Monomial(176) = {1, 2, 4, 5, 6, 7, 8, 10, 12, 14, 15}
    <2>1. {1, 2, 4, 5, 6, 7, 8, 10, 12, 14, 15} \in Register
      BY DEF Register
    <2>2. EightTurnsAre({1, 2, 4, 5, 6, 7, 8, 10, 12, 14, 15}, Monomial(168))
      BY <1>21 DEF EightTurnsAre, Xor
    <2> QED
      BY <2>1, <2>2, NextMonomial
  <1>23. Monomial(184) = {3, 4, 6, 7, 8, 10, 11, 13, 14}
    <2>1. {3, 4, 6, 7, 8, 10, 11, 13, 14} \in Register
      BY DEF Register
    <2>2. EightTurnsAre({3, 4, 6, 7, 8, 10, 11, 13, 14}, Monomial(176))
      BY <1>22 DEF EightTurnsAre, Xor
    <2> QED
      BY <2>1, <2>2, NextMonomial
  <1>24. Monomial(192) = {0, 1, 3, 8, 10, 13, 14}
    <2>1. {0, 1, 3, 8, 10, 13, 14} \in Register
      BY DEF Register
    <2>2. EightTurnsAre({0, 1, 3, 8, 10, 13, 14}, Monomial(184))
      BY <1>23 DEF EightTurnsAre, Xor
    <2> QED
      BY <2>1, <2>2, NextMonomial
  <1>25. Monomial(200) = {0, 1, 8, 9, 10, 12, 13}
    <2>1. {0, 1, 8, 9, 10, 12, 13} \in Register
      BY DEF Register
    <2>2. EightTurnsAre({0, 1, 8, 9, 10, 12, 13}, Monomial(192))
      BY <1>24 DEF EightTurnsAre, Xor
    <2> QED
      BY <2>1, <2>2, NextMonomial
  <1>26. Monomial(208) = {2, 4, 5, 7, 8, 10, 14}
    <2>1. {2, 4, 5, 7, 8, 10, 14} \in Register
      BY DEF Register
    <2>2. EightTurnsAre({2, 4, 5, 7, 8, 10, 14}, Monomial(200))
      BY <1>25 DEF EightTurnsAre, Xor
    <2> QED
      BY <2>1, <2>2, NextMonomial
  <1> QED
    BY <1>1, <1>2, <1>3, <1>4, <1>5, <1>6, <1>7, <1>8, <1>9, <1>10, <1>11, <1>12, <1>13,
       <1>14, <1>15, <1>16, <1>17, <1>18, <1>19, <1>20, <1>21, <1>22, <1>23, <1>24, <1>25, <1>26

\* None of these remainders is a power below 8 again.
LEMMA NoSingleMonomial ==
  ASSUME NEW k \in 1 .. 26, NEW j \in 0 .. 7
  PROVE  Monomial(8 * k) # {j}
  BY MonomialTable

\* No two powers of x up to the length of a header have the same remainder: they
\* would stay the same when divided by x until one of them is x to the less than 8.
LEMMA MonomialsDiffer ==
  ASSUME NEW a \in 0 .. 207, NEW b \in 0 .. 207, a < b
  PROVE  Monomial(a) # Monomial(b)
  <1> SUFFICES ASSUME Monomial(a) = Monomial(b) PROVE FALSE
    OBVIOUS
  <1> DEFINE S == {k \in 0 .. a : Monomial(a - k) = Monomial(b - k)}
  <1>1. 0 \in S
    OBVIOUS
  <1>2. ASSUME NEW k \in 0 .. a - 1, k \in S PROVE k + 1 \in S
    <2>1. PICK m \in 0 .. 206 : m = a - (k + 1) /\ m + 1 = a - k
      <3>1. a - (k + 1) \in 0 .. 206 /\ a - (k + 1) + 1 = a - k
        OBVIOUS
      <3> QED
        BY <3>1
    <2>2. PICK n \in 0 .. 206 : n = b - (k + 1) /\ n + 1 = b - k
      <3>1. b - (k + 1) \in 0 .. 206 /\ b - (k + 1) + 1 = b - k
        OBVIOUS
      <3> QED
        BY <3>1
    <2>3. Monomial(m + 1) = Monomial(n + 1)
      BY <1>2, <2>1, <2>2
    <2>4. /\ Monomial(m) \in Register /\ Monomial(m + 1) = ShiftOut(Monomial(m))
          /\ Monomial(n) \in Register /\ Monomial(n + 1) = ShiftOut(Monomial(n))
      BY MonomialSteps
    <2>5. Monomial(m) = Monomial(n)
      BY <2>3, <2>4, ShiftOutOneToOne
    <2> QED
      BY <2>1, <2>2, <2>5
  <1> HIDE DEF S
  <1>3. a \in S
    BY <1>1, <1>2, InductionUpTo
  <1>4. PICK d \in 1 .. 207 : d = b - a
    OBVIOUS
  <1>5. Monomial(0) = Monomial(d)
    BY <1>3, <1>4 DEF S
  <1>6. PICK k \in 1 .. 26 : \E i \in 0 .. 7 : 8 * k = d + i
    <2>1. /\ (d + 7) \div 8 \in 1 .. 26 /\ 8 * ((d + 7) \div 8) - d \in 0 .. 7
          /\ 8 * ((d + 7) \div 8) = d + (8 * ((d + 7) \div 8) - d)
      OBVIOUS
    <2> QED
      BY <2>1
  <1>7. PICK i \in 0 .. 7 : 8 * k = d + i
    BY <1>6
  <1> DEFINE T == {j \in 0 .. i : Monomial(j) = Monomial(d + j)}
  <1>8. 0 \in T
    BY <1>5
  <1>9. ASSUME NEW j \in 0 .. i - 1, j \in T PROVE j + 1 \in T
    <2>1. j \in 0 .. 207 /\ d + j \in 0 .. 207 /\ d + j + 1 = d + (j + 1)
      BY <1>7
    <2>2. Monomial(j + 1) = ShiftOut(Monomial(j)) /\ Monomial(d + j + 1) = ShiftOut(Monomial(d + j))
      BY <2>1, MonomialSteps
    <2>3. Monomial(j) = Monomial(d + j)
      BY <1>9
    <2>4. Monomial(j + 1) = Monomial(d + (j + 1))
      BY <2>1, <2>2, <2>3
    <2> QED
      BY <2>4
  <1> HIDE DEF T
  <1>10. i \in T
    BY <1>8, <1>9, InductionUpTo
  <1>11. Monomial(i) = Monomial(8 * k)
    BY <1>7, <1>10 DEF T
  <1> QED
    BY <1>11, LowMonomials, NoSingleMonomial

\* The degree of a bit of a header, its checksum behind the rest.
HeaderDegree(p) == IF p \in 160 .. 175 THEN p - 160 ELSE 8 * (25 - p \div 8) + (p % 8)

\* A header and its checksum have the degrees below 208.
LEMMA HeaderDegreeType ==
  ASSUME NEW p \in 0 .. 191
  PROVE  HeaderDegree(p) \in 0 .. 207
  BY DEF HeaderDegree

\* Each bit has a degree of its own.
LEMMA HeaderDegreesDiffer ==
  ASSUME NEW p \in 0 .. 191, NEW q \in 0 .. 191, HeaderDegree(p) = HeaderDegree(q)
  PROVE  p = q
  <1>1. \A r \in 0 .. 191 : r = 8 * (r \div 8) + (r % 8) /\ r \div 8 \in 0 .. 23 /\ r % 8 \in 0 .. 7
    OBVIOUS
  <1> QED
    BY <1>1 DEF HeaderDegree

\* A single bit is in a single byte.
LEMMA BytesOfBit ==
  ASSUME NEW n \in Nat, NEW i \in 0 .. 7, NEW m \in Nat
  PROVE  ByteOf({8 * n + i}, m) = IF m = n THEN {8 + i} ELSE {}
  <1> DEFINE p == 8 * n + i
             b == ByteOf({p}, m)
  <1>1. \A j : j \in b <=> j \in 8 .. 15 /\ 8 * m + (j - 8) = p
    BY ByteIn
  <1> HIDE DEF b
  <1>2. \A j \in 8 .. 15 : 8 * m + (j - 8) = p <=> m = n /\ j = 8 + i
    OBVIOUS
  <1>3. \A j : j \in b <=> m = n /\ j = 8 + i
    BY <1>1, <1>2
  <1>4. b = IF m = n THEN {8 + i} ELSE {}
    BY <1>3
  <1> QED
    BY <1>4 DEF b

\* A turned bit leaves the remainder of its power of x.
LEMMA ResidueOfBit ==
  ASSUME NEW p \in 0 .. 191
  PROVE  Residue({p}) = Monomial(HeaderDegree(p))
  <1> DEFINE d == {p} \ CrcBits
             f == Found({p}, "header_crc16")
  <1>1. /\ \A i : i \in d <=> i = p /\ i \notin 160 .. 175
        /\ \A i : i \in f <=> i \in 0 .. 15 /\ 160 + i = p
    BY ChecksumPlace
  <1>2. Residue({p}) = SymDiff(Syndrome(d, 24), f)
    BY DEF Residue, HEADER_LEN
  <1> HIDE DEF d, f
  <1>3. CASE p \in 160 .. 175
    <2>1. d = {}
      BY <1>1, <1>3
    <2>2. PICK i \in 0 .. 15 : p = 160 + i /\ HeaderDegree(p) = i
      <3>1. p - 160 \in 0 .. 15 /\ p = 160 + (p - 160)
        BY <1>3
      <3> QED
        BY <1>3, <3>1 DEF HeaderDegree
    <2>3. f = {i}
      <3>1. \A j : j \in f <=> j = i
        BY <1>1, <2>2
      <3> QED
        BY <3>1
    <2>4. Residue({p}) = f
      BY <1>2, <2>1, SymDiffSame DEF Syndrome
    <2> QED
      BY <2>2, <2>3, <2>4, LowMonomials
  <1>4. CASE p \notin 160 .. 175
    <2>1. PICK n \in 0 .. 23, i \in 0 .. 7 : p = 8 * n + i /\ HeaderDegree(p) = 8 * (25 - n) + i
      <3>1. p \div 8 \in 0 .. 23 /\ p % 8 \in 0 .. 7 /\ p = 8 * (p \div 8) + (p % 8)
        OBVIOUS
      <3> QED
        BY <1>4, <3>1 DEF HeaderDegree
    <2>2. d = {8 * n + i}
      <3>1. \A j : j \in d <=> j = p
        BY <1>1, <1>4
      <3> QED
        BY <2>1, <3>1
    <2>3. f = {}
      <3>1. \A j : j \notin f
        BY <1>1, <1>4
      <3> QED
        BY <3>1
    <2>4. \A m \in Nat : ByteOf(d, m) = IF m = n THEN {8 + i} ELSE {}
      <3> SUFFICES ASSUME NEW m \in Nat PROVE ByteOf(d, m) = IF m = n THEN {8 + i} ELSE {}
        OBVIOUS
      <3>1. n \in Nat
        OBVIOUS
      <3>2. ByteOf({8 * n + i}, m) = IF m = n THEN {8 + i} ELSE {}
        BY <3>1, BytesOfBit
      <3> QED
        BY <2>2, <3>2
    <2>5. Syndrome(d, n) = {}
      BY <2>4, SyndromeBefore
    <2> DEFINE after == 23 - n
               S == {k \in 0 .. after : Syndrome(d, n + 1 + k) = Monomial(16 + i + 8 * k)}
    <2>6. 0 \in S
      <3>1. Syndrome(d, n + 1) = EightTurns(SymDiff(Syndrome(d, n), ByteOf(d, n)))
        BY SyndromeSteps
      <3>2. Syndrome(d, n + 1) = EightTurns({8 + i})
        BY <2>4, <2>5, <3>1, SymDiffSame
      <3>3. 8 + i \in 0 .. 15 /\ 8 + i \in 0 .. 200 /\ 8 + i + 8 = 16 + i
        OBVIOUS
      <3>4. EightTurns({8 + i}) = Monomial(16 + i)
        BY <3>3, LowMonomials, EightMore
      <3>5. n + 1 + 0 = n + 1 /\ 16 + i + 8 * 0 = 16 + i
        OBVIOUS
      <3>6. Syndrome(d, n + 1 + 0) = Monomial(16 + i + 8 * 0)
        BY <3>2, <3>4, <3>5
      <3> QED
        BY <3>6
    <2>7. ASSUME NEW k \in 0 .. after - 1, k \in S PROVE k + 1 \in S
      <3>1. PICK m \in Nat : m = n + 1 + k /\ m + 1 = n + 1 + (k + 1) /\ m # n
        OBVIOUS
      <3>2. PICK j \in 0 .. 200 : j = 16 + i + 8 * k /\ j + 8 = 16 + i + 8 * (k + 1)
        <4>1. 16 + i + 8 * k \in 0 .. 200 /\ 16 + i + 8 * k + 8 = 16 + i + 8 * (k + 1)
          OBVIOUS
        <4> QED
          BY <4>1
      <3>3. Syndrome(d, m) = Monomial(j)
        BY <2>7, <3>1, <3>2
      <3>4. Syndrome(d, m + 1) = EightTurns(SymDiff(Syndrome(d, m), ByteOf(d, m)))
        BY SyndromeSteps
      <3>5. Syndrome(d, m + 1) = EightTurns(Monomial(j))
        BY <2>4, <3>1, <3>3, <3>4, NothingTurned
      <3>6. Syndrome(d, m + 1) = Monomial(j + 8)
        BY <3>5, EightMore
      <3> QED
        BY <3>1, <3>2, <3>6
    <2> HIDE DEF S
    <2>8. after \in S
      BY <2>6, <2>7, InductionUpTo
    <2>9. Syndrome(d, n + 1 + after) = Monomial(16 + i + 8 * after)
      BY <2>8 DEF S
    <2>10. n + 1 + after = 24 /\ 16 + i + 8 * after = 8 * (25 - n) + i
      OBVIOUS
    <2>11. Syndrome(d, 24) = Monomial(HeaderDegree(p))
      BY <2>1, <2>9, <2>10
    <2> QED
      BY <1>2, <2>3, <2>11, NothingTurned
  <1> QED
    BY <1>3, <1>4

\* Two turned bits do not cancel.
LEMMA TwoBitsLeaveResidue ==
  ASSUME NEW p \in 0 .. 191, NEW q \in 0 .. 191, p # q
  PROVE  Residue({p, q}) # {}
  <1>1. {p, q} = SymDiff({p}, {q})
    BY DEF SymDiff
  <1>2. Residue({p, q}) = SymDiff(Monomial(HeaderDegree(p)), Monomial(HeaderDegree(q)))
    <2>1. Residue({p}) = Monomial(HeaderDegree(p)) /\ Residue({q}) = Monomial(HeaderDegree(q))
      BY ResidueOfBit
    <2>2. Residue(SymDiff({p}, {q})) = SymDiff(Residue({p}), Residue({q}))
      BY ResidueAdds
    <2> QED
      BY <1>1, <2>1, <2>2
  <1>3. PICK a \in 0 .. 207 : a = HeaderDegree(p)
    BY HeaderDegreeType
  <1>4. PICK b \in 0 .. 207 : b = HeaderDegree(q)
    BY HeaderDegreeType
  <1>5. a # b
    BY <1>3, <1>4, HeaderDegreesDiffer
  <1>6. a < b \/ b < a
    BY <1>5
  <1>7. Monomial(a) # Monomial(b)
    BY <1>6, MonomialsDiffer
  <1> QED
    BY <1>2, <1>3, <1>4, <1>7, SymDiffNone

-----------------------------------------------------------------------------
(* An odd number of bits: the polynomial has an even number of terms.      *)

\* An odd number of bits of the register is set.
OddOfFour(a, b, c, d) == Xor(Xor(a, b), Xor(c, d))

Odd(c) ==
  Xor(Xor(OddOfFour(0 \in c, 1 \in c, 2 \in c, 3 \in c),
          OddOfFour(4 \in c, 5 \in c, 6 \in c, 7 \in c)),
      Xor(OddOfFour(8 \in c, 9 \in c, 10 \in c, 11 \in c),
          OddOfFour(12 \in c, 13 \in c, 14 \in c, 15 \in c)))

\* A turn of the inner loop keeps the parity.
LEMMA OddStays ==
  ASSUME NEW c \in Register, Odd(c)
  PROVE  Odd(ShiftOut(c))
  <1> DEFINE s == ShiftOut(c)
  <1>1. Shifted(s, c)
    BY ShiftOutBits
  <1> HIDE DEF s
  <1>2. Odd(s)
    BY ONLY <1>1, Odd(c) DEF Shifted, Odd, OddOfFour, Xor
  <1> QED
    BY <1>2 DEF s

\* So every power of x leaves an odd remainder.
LEMMA MonomialsAreOdd ==
  ASSUME NEW n \in 0 .. 207
  PROVE  Odd(Monomial(n))
  <1> DEFINE S == {m \in 0 .. 207 : Odd(Monomial(m))}
  <1>1. 0 \in S
    <2>1. Odd({0})
      BY DEF Odd, OddOfFour, Xor
    <2> QED
      BY <2>1, MonomialSteps
  <1>2. ASSUME NEW m \in 0 .. 206, m \in S PROVE m + 1 \in S
    <2>1. Monomial(m) \in Register /\ Odd(Monomial(m)) /\ Monomial(m + 1) = ShiftOut(Monomial(m))
      BY <1>2, MonomialSteps
    <2>2. Odd(Monomial(m + 1)) /\ m + 1 \in 0 .. 207
      BY <2>1, OddStays
    <2> QED
      BY <2>2
  <1> HIDE DEF S
  <1>3. 0 .. 207 \subseteq S
    BY <1>1, <1>2, InductionUpTo
  <1> QED
    BY <1>3 DEF S

\* Parities add.
LEMMA OddOfDifference ==
  ASSUME NEW a, NEW b
  PROVE  Odd(SymDiff(a, b)) <=> Xor(Odd(a), Odd(b))
  <1> DEFINE d == SymDiff(a, b)
             Four(x, i, j, k, l) == OddOfFour(i \in x, j \in x, k \in x, l \in x)
  <1>1. \A i : i \in d <=> Xor(i \in a, i \in b)
    BY SymDiffIn DEF Xor
  <1> HIDE DEF d
  <1>2. \A i, j, k, l : Four(d, i, j, k, l) <=> Xor(Four(a, i, j, k, l), Four(b, i, j, k, l))
    BY <1>1 DEF OddOfFour, Xor
  <1>3. \A x : Odd(x) <=> Xor(Xor(Four(x, 0, 1, 2, 3), Four(x, 4, 5, 6, 7)),
                             Xor(Four(x, 8, 9, 10, 11), Four(x, 12, 13, 14, 15)))
    BY DEF Odd
  <1> HIDE DEF Four
  <1>4. Odd(d) <=> Xor(Odd(a), Odd(b))
    BY <1>2, <1>3 DEF Xor
  <1> QED
    BY <1>4 DEF d

\* Three turned bits do not cancel either: their residue is odd.
LEMMA ThreeBitsLeaveResidue ==
  ASSUME NEW p \in 0 .. 191, NEW q \in 0 .. 191, NEW r \in 0 .. 191, p # q, p # r, q # r
  PROVE  Residue({p, q, r}) # {}
  <1>1. {p, q, r} = SymDiff(SymDiff({p}, {q}), {r})
    BY DEF SymDiff
  <1>2. Odd(Residue({p})) /\ Odd(Residue({q})) /\ Odd(Residue({r}))
    BY ResidueOfBit, HeaderDegreeType, MonomialsAreOdd
  <1>3. Residue(SymDiff(SymDiff({p}, {q}), {r}))
          = SymDiff(SymDiff(Residue({p}), Residue({q})), Residue({r}))
    <2>1. Residue(SymDiff({p}, {q})) = SymDiff(Residue({p}), Residue({q}))
      BY ResidueAdds
    <2>2. Residue(SymDiff(SymDiff({p}, {q}), {r})) = SymDiff(Residue(SymDiff({p}, {q})), Residue({r}))
      BY ResidueAdds
    <2> QED
      BY <2>1, <2>2
  <1>4. Odd(SymDiff(SymDiff(Residue({p}), Residue({q})), Residue({r})))
    BY <1>2, OddOfDifference DEF Xor
  <1>5. ~ Odd({})
    BY DEF Odd, OddOfFour, Xor
  <1> QED
    BY <1>1, <1>3, <1>4, <1>5

\* The bits of a header can be counted.
LEMMA HeaderBitsFinite ==
  ASSUME NEW e \in SUBSET (0 .. 191)
  PROVE  IsFiniteSet(e) /\ Cardinality(e) \in Nat
  <1>1. \A m, n \in Int : IsFiniteSet(m .. n)
    BY FS_Interval
  <1>2. 0 \in Int /\ 191 \in Int
    OBVIOUS
  <1>3. IsFiniteSet(0 .. 191)
    BY <1>1, <1>2
  <1>4. IsFiniteSet(e)
    BY <1>3, FS_Subset
  <1> QED
    BY <1>4, FS_CardinalityType

\* The sets of up to three elements.
LEMMA FewElements ==
  ASSUME NEW S, IsFiniteSet(S), S # {}, Cardinality(S) <= 3
  PROVE  \/ \E p \in S : S = {p}
         \/ \E p, q \in S : p # q /\ S = {p, q}
         \/ \E p, q, r \in S : p # q /\ p # r /\ q # r /\ S = {p, q, r}
  <1>1. PICK p \in S : TRUE
    OBVIOUS
  <1>2. IsFiniteSet(S \ {p}) /\ Cardinality(S \ {p}) = Cardinality(S) - 1
    BY FS_RemoveElement
  <1>3. CASE S \ {p} = {}
    BY <1>3
  <1>4. CASE S \ {p} # {}
    <2>1. PICK q \in S \ {p} : TRUE
      BY <1>4
    <2> DEFINE R == (S \ {p}) \ {q}
    <2>2. IsFiniteSet(R) /\ Cardinality(R) = Cardinality(S \ {p}) - 1
      BY <1>2, <2>1, FS_RemoveElement
    <2>3. CASE R = {}
      <3>1. S = {p, q}
        BY <2>1, <2>3
      <3> QED
        BY <2>1, <3>1
    <2>4. CASE R # {}
      <3>1. PICK r \in R : TRUE
        BY <2>4
      <3>2. IsFiniteSet(R \ {r}) /\ Cardinality(R \ {r}) = Cardinality(R) - 1
        BY <2>2, <3>1, FS_RemoveElement
      <3>3. Cardinality(S) \in Nat /\ Cardinality(R \ {r}) \in Nat
        BY <3>2, FS_CardinalityType
      <3>4. Cardinality(R \ {r}) = 0
        BY <1>2, <2>2, <3>2, <3>3
      <3>5. R \ {r} = {}
        BY <3>2, <3>4, FS_EmptySet
      <3>6. S = {p, q, r}
        BY <2>1, <3>1, <3>5
      <3> QED
        BY <2>1, <3>1, <3>6
    <2> QED
      BY <2>3, <2>4
  <1> QED
    BY <1>3, <1>4

\* Up to three turned bits leave a residue, wherever they are.
LEMMA FewLeaveResidue ==
  ASSUME NEW e \in SUBSET (0 .. 191), IsFiniteSet(e), e # {}, Cardinality(e) <= 3
  PROVE  Residue(e) # {}
  <1>1. CASE \E p \in e : e = {p}
    <2>1. PICK p \in e : e = {p}
      BY <1>1
    <2>2. \A a, b \in e : a < b => b - a < 9
      BY <2>1
    <2> QED
      BY <2>2, BurstLeavesResidue
  <1>2. CASE \E p, q \in e : p # q /\ e = {p, q}
    <2>1. PICK p \in e, q \in e : p # q /\ e = {p, q}
      BY <1>2
    <2>2. p \in 0 .. 191 /\ q \in 0 .. 191
      BY <2>1
    <2> QED
      BY <2>1, <2>2, TwoBitsLeaveResidue
  <1>3. CASE \E p, q, r \in e : p # q /\ p # r /\ q # r /\ e = {p, q, r}
    <2>1. PICK p \in e, q \in e, r \in e : p # q /\ p # r /\ q # r /\ e = {p, q, r}
      BY <1>3
    <2>2. p \in 0 .. 191 /\ q \in 0 .. 191 /\ r \in 0 .. 191
      BY <2>1
    <2> QED
      BY <2>1, <2>2, ThreeBitsLeaveResidue
  <1> QED
    BY <1>1, <1>2, <1>3, FewElements

\* No header with turned bits passes the checksum.
LEMMA Refused ==
  ASSUME OnTheWire
  PROVE  DamageIsRefused
  <1> SUFFICES ASSUME message.kind = "header", flips # {}, decode_header(wire, got) = "OK"
               PROVE  FALSE
    BY DEF DamageIsRefused
  <1>1. HeaderOnWire
    BY HeaderBits
  <1>2. PICK h \in Headers : message.header = h /\ wire = SymDiff(encode_header(h), flips)
    BY HeaderBits
  <1>3. flips \in SUBSET (0 .. 191) /\ (Few \/ Narrow)
    BY <1>1 DEF HeaderOnWire, HEADER_LEN
  <1>4. Residue(flips) = {}
    BY <1>2, AcceptedHasNoResidue
  <1>5. CASE Few
    <2>1. IsFiniteSet(flips) /\ Cardinality(flips) \in Nat
      BY <1>3, HeaderBitsFinite
    <2>2. Cardinality(flips) <= 3
      BY <1>5, <2>1, DamageAssumption DEF Few
    <2> QED
      BY <1>3, <1>4, <2>1, <2>2, FewLeaveResidue
  <1>6. CASE Narrow
    <2>1. \A a, b \in flips : a < b => b - a < 9
      <3> TAKE a \in flips, b \in flips
      <3> HAVE a < b
      <3>1. b - a < MaxBurst /\ a \in Int /\ b \in Int
        BY <1>3, <1>6 DEF Narrow
      <3> QED
        BY <3>1, DamageAssumption
    <2> QED
      BY <1>3, <1>4, <2>1, BurstLeavesResidue
  <1> QED
    BY <1>3, <1>5, <1>6

\* For every header the library builds: with up to three of its bits turned, or any
\* of nine in a row, ch32mux_decode_header() refuses it.
THEOREM DamageIsRefusedAlways == Spec => []DamageIsRefused
  <1>1. OnTheWire => DamageIsRefused
    BY Refused
  <1> QED
    BY <1>1, WireInvariant, PTL
=============================================================================
