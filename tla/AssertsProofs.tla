---------------------------- MODULE AssertsProofs ----------------------------
(***************************************************************************)
(* Proofs about Asserts: equality and order asserts decide by the numbers  *)
(* they were given, the within asserts by their distance, those of buffers *)
(* by contents and those of bits by the bits; and every text of a failure  *)
(* denotes the number it stands for.  The loops of the code are recursive  *)
(* functions, whose values are found turn by turn.                         *)
(***************************************************************************)
EXTENDS Asserts, SequenceTheorems, WellFoundedInduction, TLAPS

Sizes == {1, 2, 4, 8}

-----------------------------------------------------------------------------
(* Induction in a form that is about sets.                                 *)
LEMMA LeastNumber ==
    ASSUME NEW S, S \subseteq Nat, S # {}
    PROVE  \E k \in S : \A m \in S : k <= m
<1>1. PICK k \in S : \A m \in S : ~(<<m, k>> \in OpToRel(<, Nat))
  BY NatLessThanWellFounded, WFMin, Zenon
<1>2. \A m \in S : ~(m < k)
  BY <1>1 DEF OpToRel
<1> QED
  BY <1>2

(* Induction up to a bound.                                                *)
LEMMA Reaches ==
    ASSUME NEW n \in Nat, NEW S, 0 \in S,
           \A k \in 0 .. n - 1 : k \in S => k + 1 \in S
    PROVE  0 .. n \subseteq S
<1> DEFINE Out == {k \in 0 .. n : k \notin S}
<1>1. ASSUME Out # {} PROVE FALSE
  <2>1. Out \subseteq Nat
    OBVIOUS
  <2>2. PICK k \in Out : \A m \in Out : k <= m
    BY <1>1, <2>1, LeastNumber
  <2>3. k \in 0 .. n /\ k # 0 /\ k - 1 \in 0 .. n - 1 /\ k - 1 \in 0 .. n
    BY <2>2
  <2>4. k - 1 \in S
    BY <2>2, <2>3
  <2>5. (k - 1) + 1 \in S
    BY <2>3, <2>4
  <2> QED
    BY <2>2, <2>3, <2>5
<1> QED
  BY <1>1

RunsUp(f, n, base, turn) == f[0] = base /\ \A k \in 1 .. n : f[k] = turn[k][f[k - 1]]
RunsDown(f, n, base, turn) == f[n] = base /\ \A k \in 0 .. n - 1 : f[k] = turn[k][f[k + 1]]

(* A loop of n turns whose turns are given by a function has its states.   *)
LEMMA LoopUp ==
    ASSUME NEW n \in Nat, NEW X, NEW base \in X, NEW turn \in [1 .. n -> [X -> X]]
    PROVE  \E f \in [0 .. n -> X] : RunsUp(f, n, base, turn)
<1> DEFINE Good(f, m) == f[0] = base /\ \A k \in 1 .. m : f[k] = turn[k][f[k - 1]]
           S == {m \in 0 .. n : \E f \in [0 .. n -> X] : Good(f, m)}
<1>1. 0 \in S
  <2>1. PICK f \in [0 .. n -> X] : f = [k \in 0 .. n |-> base]
    OBVIOUS
  <2>2. Good(f, 0) /\ 0 \in 0 .. n
    BY <2>1
  <2> QED
    BY <2>2
<1>2. ASSUME NEW m \in 0 .. n - 1, m \in S PROVE m + 1 \in S
  <2>1. PICK f \in [0 .. n -> X] : Good(f, m)
    BY <1>2
  <2>2. PICK x \in X : x = turn[m + 1][f[m]]
    <3>1. m + 1 \in 1 .. n /\ f[m] \in X
      BY <2>1
    <3> QED
      BY <3>1
  <2>3. PICK g \in [0 .. n -> X] : g = [f EXCEPT ![m + 1] = x]
    BY <2>2
  <2>4. \A k \in 0 .. n : g[k] = IF k = m + 1 THEN x ELSE f[k]
    BY <2>3
  <2>5. Good(g, m + 1)
    <3>1. g[0] = base
      BY <2>1, <2>4
    <3>2. ASSUME NEW k \in 1 .. m + 1 PROVE g[k] = turn[k][g[k - 1]]
      <4>1. g[k - 1] = f[k - 1]
        BY <2>4
      <4> QED
        BY <2>1, <2>2, <2>4, <4>1
    <3> QED
      BY <3>1, <3>2
  <2> QED
    BY <2>5
<1>3. n \in S
  <2> HIDE DEF S
  <2>1. 0 .. n \subseteq S
    BY <1>1, <1>2, Reaches
  <2> QED
    BY <2>1
<1> QED
  BY <1>3 DEF RunsUp

(* The same for a loop that counts down.                                   *)
LEMMA LoopDown ==
    ASSUME NEW n \in Nat, NEW X, NEW base \in X, NEW turn \in [0 .. n - 1 -> [X -> X]]
    PROVE  \E f \in [0 .. n -> X] : RunsDown(f, n, base, turn)
<1>1. PICK up \in [1 .. n -> [X -> X]] : up = [k \in 1 .. n |-> turn[n - k]]
  <2>1. \A k \in 1 .. n : n - k \in 0 .. n - 1
    OBVIOUS
  <2> QED
    BY <2>1
<1>2. PICK g \in [0 .. n -> X] : RunsUp(g, n, base, up)
  BY <1>1, LoopUp, Zenon
<1>3. PICK f : f = [k \in 0 .. n |-> g[n - k]]
  OBVIOUS
<1>4. f \in [0 .. n -> X]
  <2>1. \A k \in 0 .. n : n - k \in 0 .. n
    OBVIOUS
  <2> QED
    BY <1>3, <2>1
<1>5. f[n] = base
  BY <1>2, <1>3 DEF RunsUp
<1>6. ASSUME NEW k \in 0 .. n - 1 PROVE f[k] = turn[k][f[k + 1]]
  <2>1. n - k \in 1 .. n /\ k + 1 \in 0 .. n /\ n - (k + 1) = (n - k) - 1 /\ n - (n - k) = k
    OBVIOUS
  <2>2. f[k] = g[n - k] /\ f[k + 1] = g[(n - k) - 1]
    BY <1>3, <2>1
  <2>3. g[n - k] = up[n - k][g[(n - k) - 1]]
    BY <1>2, <2>1 DEF RunsUp
  <2>4. up[n - k] = turn[k]
    BY <1>1, <2>1
  <2> QED
    BY <2>2, <2>3, <2>4
<1> QED
  BY <1>4, <1>5, <1>6 DEF RunsDown

-----------------------------------------------------------------------------
(* Division and powers of two.                                             *)

(* Division leaves one remainder.                                          *)
LEMMA Remainder ==
    ASSUME NEW m \in Nat \ {0}, NEW x \in Int
    PROVE  /\ x % m \in 0 .. m - 1
           /\ \E q \in Int : x = q * m + (x % m)
<1>1. x % m \in 0 .. m - 1
  OBVIOUS
<1>2. x = (x \div m) * m + (x % m)
  OBVIOUS
<1>3. x \div m \in Int
  OBVIOUS
<1>4. \E q \in Int : x = q * m + (x % m)
  BY <1>2, <1>3, Zenon
<1> QED
  BY <1>1, <1>4

(* A number has one quotient and one remainder.                            *)
LEMMA OnlyRemainder ==
    ASSUME NEW m \in Nat \ {0}, NEW x \in Int, NEW q \in Int, NEW r \in 0 .. m - 1,
           x = q * m + r
    PROVE  x % m = r /\ x \div m = q
<1>1. PICK p \in Int : x = p * m + (x % m)
  BY Remainder
<1>2. PICK s \in 0 .. m - 1 : s = x % m
  BY Remainder
<1>3. (q - p) * m = s - r
  BY <1>1, <1>2
<1>4. q - p >= 1 => (q - p) * m >= m
  OBVIOUS
<1>5. q - p <= -1 => (q - p) * m <= -m
  OBVIOUS
<1>6. q = p
  BY <1>2, <1>3, <1>4, <1>5
<1> QED
  BY <1>2, <1>3, <1>6

(* A digit has at least one bit.                                           *)
LEMMA NibbleSize == NibbleBits \in Nat /\ NibbleBits > 0
BY AssertsAssumption DEF AssertsAssumption

(* Sizes of types in bits.                                                 *)
LEMMA SizeInBits ==
    ASSUME NEW size \in Sizes
    PROVE  Bits(size) \in 1 .. Bits(8) /\ Bits(8) = 16 * NibbleBits /\ Bits(8) \in Nat
<1>1. \A b \in Nat : b > 0 => 2 * size * b \in 1 .. 16 * b
  BY DEF Sizes
<1> QED
  BY <1>1, NibbleSize DEF Bits

(* Each power is twice the one before.                                     *)
LEMMA Powers ==
    /\ PowerOf2[0] = 1
    /\ \A n \in 0 .. Bits(8) : PowerOf2[n] \in Nat \ {0}
    /\ \A n \in 1 .. Bits(8) : PowerOf2[n] = 2 * PowerOf2[n - 1]
<1>1. PICK n \in Nat : n = Bits(8)
  BY SizeInBits DEF Sizes
<1>2. PICK turn : turn = [k \in 1 .. n |-> [v \in Nat \ {0} |-> 2 * v]]
  OBVIOUS
<1>3. turn \in [1 .. n -> [Nat \ {0} -> Nat \ {0}]]
  BY <1>2
<1>4. PICK f \in [0 .. n -> Nat \ {0}] : RunsUp(f, n, 1, turn)
  <2>1. 1 \in Nat \ {0}
    OBVIOUS
  <2> QED
    BY <1>3, <2>1, LoopUp, Zenon
<1>5. f = [k \in 0 .. n |-> IF k = 0 THEN 1 ELSE 2 * f[k - 1]]
  <2>1. ASSUME NEW k \in 1 .. n PROVE turn[k][f[k - 1]] = 2 * f[k - 1]
    <3>1. f[k - 1] \in Nat \ {0}
      BY <1>4
    <3> QED
      BY <1>2, <3>1
  <2>2. \A k \in 0 .. n : f[k] = IF k = 0 THEN 1 ELSE 2 * f[k - 1]
    BY <1>4, <2>1 DEF RunsUp
  <2> QED
    BY <1>4, <2>2
<1>6. PowerOf2 = [k \in 0 .. n |-> IF k = 0 THEN 1 ELSE 2 * PowerOf2[k - 1]]
  BY <1>1, <1>5 DEF PowerOf2
<1> DEFINE S == {k \in 0 .. n : PowerOf2[k] \in Nat \ {0}}
<1>7. 0 \in S /\ PowerOf2[0] = 1
  BY <1>6
<1>8. ASSUME NEW k \in 0 .. n - 1, k \in S PROVE k + 1 \in S
  <2>1. PowerOf2[k + 1] = 2 * PowerOf2[k]
    <3>1. k + 1 \in 0 .. n /\ k + 1 # 0 /\ (k + 1) - 1 = k
      OBVIOUS
    <3> QED
      BY <1>6, <3>1
  <2> QED
    BY <1>8, <2>1
<1>9. 0 .. n \subseteq S
  <2> HIDE DEF S
  <2> QED
    BY <1>7, <1>8, Reaches
<1>10. \A k \in 1 .. n : PowerOf2[k] = 2 * PowerOf2[k - 1]
  BY <1>6
<1> QED
  BY <1>1, <1>7, <1>9, <1>10

(* Every type has an even number of values.                                *)
LEMMA ModulusIsEven ==
    ASSUME NEW size \in Sizes
    PROVE  Half(size) \in Nat \ {0} /\ Modulus(size) = 2 * Half(size)
<1>1. PICK n : n = Bits(size)
  OBVIOUS
<1>2. n \in 1 .. Bits(8) /\ n - 1 \in 0 .. Bits(8)
  BY <1>1, SizeInBits
<1>3. PICK h \in Nat \ {0} : h = PowerOf2[n - 1]
  BY <1>2, Powers
<1>4. Modulus(size) = 2 * h
  BY <1>1, <1>2, <1>3, Powers DEF Modulus
<1> QED
  BY <1>4 DEF Half

(* Shifting by one place more leaves out a bit.                            *)
LEMMA Halves ==
    ASSUME NEW u \in Int, NEW k \in 0 .. Bits(8) - 1
    PROVE  /\ Bit(u, k) \in {0, 1} /\ u \div PowerOf2[k] \in Int
           /\ u \div PowerOf2[k + 1] \in Int
           /\ u \div PowerOf2[k] = 2 * (u \div PowerOf2[k + 1]) + Bit(u, k)
<1>1. Bits(8) \in Nat
  BY SizeInBits DEF Sizes
<1>2. PICK p \in Nat \ {0} : p = PowerOf2[k]
  BY <1>1, Powers
<1>3. PowerOf2[k + 1] = 2 * p
  <2>1. k + 1 \in 1 .. Bits(8) /\ (k + 1) - 1 = k
    BY <1>1
  <2> QED
    BY <1>2, <2>1, Powers
<1>4. PICK m \in Nat \ {0} : m = 2 * p
  BY <1>2
<1>5. PICK q \in Int, r \in 0 .. m - 1 : u = q * m + r
  BY <1>4, Remainder
<1>6. u \div m = q
  BY <1>5, OnlyRemainder
<1>7. q * m = (2 * q) * p
  BY <1>2, <1>4
<1>8. CASE r < p
  <2>1. u = (2 * q) * p + r /\ 2 * q \in Int /\ r \in 0 .. p - 1
    BY <1>5, <1>7, <1>8
  <2>2. u \div p = 2 * q
    BY <2>1, OnlyRemainder
  <2>3. (2 * q) % 2 = 0
    OBVIOUS
  <2> QED
    BY <1>2, <1>3, <1>4, <1>6, <2>2, <2>3 DEF Bit
<1>9. CASE ~(r < p)
  <2>1. r - p \in 0 .. p - 1
    BY <1>4, <1>9
  <2>2. (2 * q + 1) * p = (2 * q) * p + p
    OBVIOUS
  <2>3. u = (2 * q + 1) * p + (r - p) /\ 2 * q + 1 \in Int
    BY <1>5, <1>7, <2>2
  <2>4. u \div p = 2 * q + 1
    BY <2>1, <2>3, OnlyRemainder
  <2>5. (2 * q + 1) % 2 = 1
    OBVIOUS
  <2> QED
    BY <1>2, <1>3, <1>4, <1>6, <2>4, <2>5 DEF Bit
<1> QED
  BY <1>8, <1>9

(* Shifting by nothing, and shifting everything out.                       *)
LEMMA ShiftEnds ==
    ASSUME NEW n \in 0 .. Bits(8)
    PROVE  /\ \A u \in Int : u \div PowerOf2[0] = u
           /\ \A u \in 0 .. PowerOf2[n] - 1 : u \div PowerOf2[n] = 0 /\ u % PowerOf2[n] = u
<1>1. PICK p \in Nat \ {0} : p = PowerOf2[n]
  BY Powers
<1>2. ASSUME NEW u \in Int PROVE u \div 1 = u
  <2>1. u = u * 1 + 0 /\ 0 \in 0 .. 1 - 1
    OBVIOUS
  <2> QED
    BY <2>1, OnlyRemainder
<1>3. ASSUME NEW u \in 0 .. p - 1 PROVE u \div p = 0 /\ u % p = u
  <2>1. u = 0 * p + u
    OBVIOUS
  <2> QED
    BY <2>1, OnlyRemainder
<1> QED
  BY <1>1, <1>2, <1>3, Powers

(* Shifting by two distances in turn.                                      *)
LEMMA PowersMultiply ==
    ASSUME NEW k \in Nat, NEW n \in Nat, k + n \in 0 .. Bits(8)
    PROVE  PowerOf2[k + n] = PowerOf2[k] * PowerOf2[n]
<1> DEFINE S == {i \in 0 .. n : PowerOf2[k + i] = PowerOf2[k] * PowerOf2[i]}
<1>1. Bits(8) \in Nat
  BY SizeInBits DEF Sizes
<1>2. PICK p \in Nat \ {0} : p = PowerOf2[k]
  BY <1>1, Powers
<1>3. 0 \in S
  <2>1. p = p * 1 /\ k + 0 = k
    OBVIOUS
  <2> QED
    BY <1>2, <2>1, Powers
<1>4. ASSUME NEW i \in 0 .. n - 1, i \in S PROVE i + 1 \in S
  <2>1. i \in 0 .. Bits(8) /\ i + 1 \in 1 .. Bits(8) /\ k + (i + 1) \in 1 .. Bits(8)
    BY <1>1
  <2>2. PICK a \in Nat : a = PowerOf2[i]
    BY <2>1, Powers
  <2>3. PowerOf2[i + 1] = 2 * a
    <3>1. (i + 1) - 1 = i
      OBVIOUS
    <3> QED
      BY <2>1, <2>2, <3>1, Powers
  <2>4. PowerOf2[k + (i + 1)] = 2 * (p * a)
    <3>1. (k + (i + 1)) - 1 = k + i
      OBVIOUS
    <3>2. PowerOf2[k + i] = p * a
      BY <1>2, <1>4, <2>2
    <3> QED
      BY <2>1, <3>1, <3>2, Powers
  <2>5. 2 * (p * a) = p * (2 * a)
    OBVIOUS
  <2> QED
    BY <1>2, <2>3, <2>4, <2>5
<1>5. 0 .. n \subseteq S
  <2> HIDE DEF S
  <2> QED
    BY <1>3, <1>4, Reaches
<1> QED
  BY <1>5

(* The bits of a remainder are bits of the number.                         *)
LEMMA BitsOfRemainder ==
    ASSUME NEW x \in Int, NEW n \in 0 .. Bits(8), NEW k \in 0 .. n - 1
    PROVE  Bit(x % PowerOf2[n], k) = Bit(x, k)
<1>1. Bits(8) \in Nat
  BY SizeInBits DEF Sizes
<1>2. k \in 0 .. Bits(8) /\ n - k \in 1 .. Bits(8) /\ (n - k) - 1 \in 0 .. Bits(8)
  BY <1>1
<1>3. PICK p \in Nat \ {0}, h \in Nat \ {0}, m \in Nat \ {0} :
         p = PowerOf2[k] /\ h = PowerOf2[(n - k) - 1] /\ m = PowerOf2[n]
  BY <1>2, Powers
<1>4. m = p * (2 * h)
  <2>1. k + (n - k) = n /\ n - k \in Nat
    BY <1>2
  <2>2. PowerOf2[n - k] = 2 * h
    BY <1>2, <1>3, Powers
  <2> QED
    BY <1>1, <1>3, <2>1, <2>2, PowersMultiply
<1>5. PICK q \in Int : x = q * m + (x % m)
  BY Remainder
<1>6. PICK u \in 0 .. m - 1 : u = x % m
  BY Remainder
<1>7. PICK s \in Int, r \in 0 .. p - 1 : u = s * p + r
  <2>1. u \in Int
    BY <1>3, <1>6
  <2>2. PICK s \in Int : u = s * p + (u % p)
    BY <1>3, <2>1, Remainder
  <2>3. u % p \in 0 .. p - 1
    BY <1>3, <2>1, Remainder
  <2> QED
    BY <2>2, <2>3
<1>8. u \div p = s
  BY <1>7, OnlyRemainder
<1>9. x \div p = 2 * (q * h) + s
  <2>1. q * m = (2 * (q * h)) * p
    BY <1>4
  <2>2. PICK a \in Int : a = 2 * (q * h)
    OBVIOUS
  <2>3. a * p + s * p = (a + s) * p
    OBVIOUS
  <2>4. x = (a + s) * p + r /\ a + s \in Int
    BY <1>5, <1>6, <1>7, <2>1, <2>2, <2>3
  <2> QED
    BY <2>2, <2>4, OnlyRemainder
<1>10. (2 * (q * h) + s) % 2 = s % 2
  <2>1. \A a, b \in Int : (2 * a + b) % 2 = b % 2
    OBVIOUS
  <2> QED
    BY <2>1
<1> QED
  BY <1>3, <1>6, <1>8, <1>9, <1>10 DEF Bit

-----------------------------------------------------------------------------
(* Binary numbers: f[k] is what is left of one without its lowest k bits.  *)
Binary(f, n, b) ==
    /\ f \in [0 .. n -> Nat] /\ f[n] = 0
    /\ \A k \in 0 .. n - 1 : b[k] \in {0, 1} /\ f[k] = 2 * f[k + 1] + b[k]

(* Numbers are the same if and only if their bits are.                     *)
LEMMA SameBits ==
    ASSUME NEW n \in Nat, NEW f, NEW g, NEW b, NEW c, Binary(f, n, b), Binary(g, n, c)
    PROVE  f[0] = g[0] <=> \A k \in 0 .. n - 1 : b[k] = c[k]
<1>1. /\ \A k \in 0 .. n : f[k] \in Nat /\ g[k] \in Nat
      /\ f[n] = 0 /\ g[n] = 0
      /\ \A k \in 0 .. n - 1 : /\ b[k] \in {0, 1} /\ f[k] = 2 * f[k + 1] + b[k]
                               /\ c[k] \in {0, 1} /\ g[k] = 2 * g[k + 1] + c[k]
  BY DEF Binary
<1>2. ASSUME NEW k \in 0 .. n - 1, f[k] = g[k] PROVE f[k + 1] = g[k + 1] /\ b[k] = c[k]
  <2>1. k + 1 \in 0 .. n
    OBVIOUS
  <2>2. PICK x \in Nat, y \in Nat : x = f[k + 1] /\ y = g[k + 1]
    BY <1>1, <2>1
  <2>3. 2 * x + b[k] = 2 * y + c[k] /\ b[k] \in {0, 1} /\ c[k] \in {0, 1}
    BY <1>1, <1>2, <2>2
  <2> QED
    BY <2>2, <2>3
<1>3. ASSUME f[0] = g[0] PROVE \A k \in 0 .. n - 1 : b[k] = c[k]
  <2> DEFINE S == {k \in 0 .. n : f[k] = g[k]}
  <2>1. 0 \in S
    BY <1>3
  <2>2. \A k \in 0 .. n - 1 : k \in S => k + 1 \in S
    BY <1>2
  <2>3. 0 .. n \subseteq S
    <3> HIDE DEF S
    <3> QED
      BY <2>1, <2>2, Reaches
  <2> QED
    BY <1>2, <2>3
<1>4. ASSUME \A k \in 0 .. n - 1 : b[k] = c[k] PROVE f[0] = g[0]
  <2> DEFINE S == {j \in 0 .. n : f[n - j] = g[n - j]}
  <2>1. 0 \in S
    BY <1>1
  <2>2. ASSUME NEW j \in 0 .. n - 1, j \in S PROVE j + 1 \in S
    <3>1. PICK k \in 0 .. n - 1 : k = n - (j + 1) /\ k + 1 = n - j
      <4>1. n - (j + 1) \in 0 .. n - 1 /\ (n - (j + 1)) + 1 = n - j
        OBVIOUS
      <4> QED
        BY <4>1
    <3>2. f[k + 1] = g[k + 1]
      BY <2>2, <3>1
    <3>3. f[k] = g[k]
      BY <1>1, <1>4, <3>2
    <3> QED
      BY <3>1, <3>3
  <2>3. 0 .. n \subseteq S
    <3> HIDE DEF S
    <3> QED
      BY <2>1, <2>2, Reaches
  <2>4. n \in S /\ n - n = 0
    BY <2>3
  <2> QED
    BY <2>4
<1> QED
  BY <1>3, <1>4

(* A number of n bits is less than 2^n.                                    *)
LEMMA BinaryBound ==
    ASSUME NEW n \in 0 .. Bits(8), NEW f, NEW b, Binary(f, n, b)
    PROVE  f[0] \in 0 .. PowerOf2[n] - 1
<1>0. Bits(8) \in Nat /\ n \in Nat
  BY SizeInBits DEF Sizes
<1>1. /\ \A k \in 0 .. n : f[k] \in Nat
      /\ f[n] = 0
      /\ \A k \in 0 .. n - 1 : b[k] \in {0, 1} /\ f[k] = 2 * f[k + 1] + b[k]
  BY DEF Binary
<1> DEFINE S == {j \in 0 .. n : f[n - j] < PowerOf2[j]}
<1>2. 0 \in S
  BY <1>0, <1>1, Powers
<1>3. ASSUME NEW j \in 0 .. n - 1, j \in S PROVE j + 1 \in S
  <2>1. PICK k \in 0 .. n - 1 : k = n - (j + 1) /\ k + 1 = n - j
    <3>1. n - (j + 1) \in 0 .. n - 1 /\ (n - (j + 1)) + 1 = n - j
      BY <1>0
    <3> QED
      BY <3>1
  <2>2. PICK p \in Nat : p = PowerOf2[j] /\ PowerOf2[j + 1] = 2 * p
    <3>1. j \in 0 .. Bits(8) /\ j + 1 \in 1 .. Bits(8) /\ (j + 1) - 1 = j
      BY <1>0
    <3> QED
      BY <3>1, Powers
  <2>3. PICK y \in Nat : y = f[k + 1]
    BY <1>0, <1>1
  <2>4. y < p
    BY <1>3, <2>1, <2>2, <2>3
  <2>5. f[k] = 2 * y + b[k] /\ b[k] \in {0, 1}
    BY <1>1, <2>3
  <2>6. f[k] < 2 * p
    BY <2>2, <2>3, <2>4, <2>5
  <2> QED
    BY <2>1, <2>2, <2>6
<1>4. 0 .. n \subseteq S
  <2> HIDE DEF S
  <2> QED
    BY <1>0, <1>2, <1>3, Reaches
<1>5. n \in S /\ n - n = 0 /\ 0 \in 0 .. n
  BY <1>0, <1>4
<1>6. PICK p \in Nat, y \in Nat : p = PowerOf2[n] /\ y = f[0]
  BY <1>1, <1>5, Powers
<1> QED
  BY <1>5, <1>6

(* A number less than 2^n has n bits.                                      *)
LEMMA BinaryOf ==
    ASSUME NEW n \in 0 .. Bits(8), NEW u \in 0 .. PowerOf2[n] - 1
    PROVE  \E f : Binary(f, n, [k \in 0 .. n - 1 |-> Bit(u, k)]) /\ f[0] = u
<1>0. Bits(8) \in Nat /\ n \in Nat /\ PowerOf2[n] \in Nat \ {0}
  BY SizeInBits, Powers DEF Sizes
<1>1. u \in Nat
  BY <1>0
<1>2. PICK f : f = [k \in 0 .. n |-> u \div PowerOf2[k]]
  OBVIOUS
<1>3. PICK b : b = [k \in 0 .. n - 1 |-> Bit(u, k)]
  OBVIOUS
<1>4. ASSUME NEW k \in 0 .. n PROVE f[k] \in Nat
  <2>1. PICK p \in Nat \ {0} : p = PowerOf2[k]
    BY <1>0, Powers
  <2>2. u \div p \in Nat
    BY <1>1
  <2> QED
    BY <1>2, <2>1, <2>2
<1>5. f \in [0 .. n -> Nat]
  BY <1>2, <1>4
<1>6. f[n] = 0 /\ f[0] = u
  <2>1. 0 \in 0 .. n /\ n \in 0 .. n /\ u \in Int
    BY <1>0, <1>1
  <2>2. f[0] = u \div PowerOf2[0] /\ f[n] = u \div PowerOf2[n]
    BY <1>2, <2>1
  <2> QED
    BY <2>1, <2>2, ShiftEnds
<1>7. ASSUME NEW k \in 0 .. n - 1 PROVE b[k] \in {0, 1} /\ f[k] = 2 * f[k + 1] + b[k]
  <2>1. k \in 0 .. Bits(8) - 1 /\ k \in 0 .. n /\ k + 1 \in 0 .. n /\ u \in Int
    BY <1>0, <1>1
  <2>2. b[k] = Bit(u, k) /\ f[k] = u \div PowerOf2[k] /\ f[k + 1] = u \div PowerOf2[k + 1]
    BY <1>2, <1>3, <2>1
  <2> QED
    BY <2>1, <2>2, Halves
<1>8. Binary(f, n, b)
  BY <1>5, <1>6, <1>7 DEF Binary
<1> QED
  BY <1>3, <1>6, <1>8

(* Numbers have the same remainder if their difference has none.           *)
LEMMA SameRemainder ==
    ASSUME NEW m \in Nat \ {0}, NEW x \in Int, NEW y \in Int
    PROVE  x % m = y % m <=> (x - y) % m = 0
<1>1. PICK p \in Int, q \in Int : x = p * m + (x % m) /\ y = q * m + (y % m)
  BY Remainder
<1>2. x % m \in 0 .. m - 1 /\ y % m \in 0 .. m - 1
  BY Remainder
<1>3. ASSUME x % m = y % m PROVE (x - y) % m = 0
  <2>1. x - y = (p - q) * m + 0
    BY <1>1, <1>2, <1>3
  <2> QED
    BY <2>1, OnlyRemainder
<1>4. ASSUME (x - y) % m = 0 PROVE x % m = y % m
  <2>1. PICK z \in Int : z = x - y
    OBVIOUS
  <2>2. PICK d \in Int : z = d * m + (z % m)
    BY Remainder
  <2>3. PICK r \in 0 .. m - 1 : r = y % m
    BY <1>2
  <2>4. x = (d + q) * m + r
    <3>1. z = d * m
      BY <1>4, <2>1, <2>2
    <3>2. (d + q) * m = d * m + q * m
      OBVIOUS
    <3>3. y = q * m + r
      BY <1>1, <2>3
    <3>4. x = z + y
      BY <2>1
    <3>5. d * m \in Int /\ q * m \in Int
      OBVIOUS
    <3> QED
      BY <3>1, <3>2, <3>3, <3>4, <3>5
  <2>5. x % m = r
    BY <2>4, d + q \in Int, OnlyRemainder
  <2> QED
    BY <2>3, <2>5
<1> QED
  BY <1>3, <1>4

(* A conversion keeps what makes numbers equal in the type, and nothing    *)
(* else; what lies in the range of the type it leaves alone.               *)
LEMMA Conversions ==
    ASSUME NEW size \in Sizes, NEW x \in Int, NEW y \in Int
    PROVE  /\ Unsigned(size, x) = Unsigned(size, y) <=> (x - y) % Modulus(size) = 0
           /\ Signed(size, x) = Signed(size, y) <=> (x - y) % Modulus(size) = 0
<1> DEFINE m == Modulus(size)
           h == Half(size)
<1>1. m \in Nat \ {0} /\ h \in Nat \ {0} /\ m = 2 * h
  BY ModulusIsEven
<1>2. x % m \in 0 .. m - 1 /\ y % m \in 0 .. m - 1
  BY <1>1, Remainder
<1>3. x % m = y % m <=> (x - y) % m = 0
  BY <1>1, SameRemainder
<1>4. /\ Signed(size, x) = IF x % m < h THEN x % m ELSE (x % m) - m
      /\ Signed(size, y) = IF y % m < h THEN y % m ELSE (y % m) - m
  BY DEF Signed, Unsigned
<1> HIDE DEF m, h
<1>5. Signed(size, x) = Signed(size, y) <=> x % m = y % m
  BY <1>1, <1>2, <1>4
<1> QED
  BY <1>3, <1>5 DEF Unsigned, m

(* A conversion to signed ends in the range of the type and keeps it.      *)
LEMMA SignedInRange ==
    ASSUME NEW size \in Sizes, NEW x \in Int
    PROVE  /\ Signed(size, x) \in IntRange(size)
           /\ x \in IntRange(size) => Signed(size, x) = x
<1> DEFINE m == Modulus(size)
           h == Half(size)
<1>1. m \in Nat \ {0} /\ h \in Nat \ {0} /\ m = 2 * h
  BY ModulusIsEven
<1>2. x % m \in 0 .. m - 1
  BY <1>1, Remainder
<1>3. Signed(size, x) = IF x % m < h THEN x % m ELSE (x % m) - m
  BY DEF Signed, Unsigned
<1>4. IntRange(size) = -h .. h - 1
  BY DEF IntRange
<1> HIDE DEF m, h
<1>5. Signed(size, x) \in IntRange(size)
  BY <1>1, <1>2, <1>3, <1>4
<1>6. ASSUME x \in 0 .. h - 1 PROVE x % m = x
  <2>1. x = 0 * m + x /\ x \in 0 .. m - 1
    BY <1>1, <1>6
  <2> QED
    BY <1>1, <2>1, OnlyRemainder
<1>7. ASSUME x \in -h .. -1 PROVE x % m = x + m
  <2>1. x = (-1) * m + (x + m) /\ x + m \in 0 .. m - 1
    BY <1>1, <1>7
  <2> QED
    BY <1>1, <2>1, OnlyRemainder
<1> QED
  BY <1>1, <1>3, <1>4, <1>5, <1>6, <1>7

-----------------------------------------------------------------------------
(* What an assert has answered is one of the results of the call.          *)
Answered == call \in Calls /\ (Evaluated => result \in Results(call))

(* Evaluate answers the call it was made for.                              *)
LEMMA CallsAnswered == Spec => []Answered
<1>1. Init => Answered
  BY DEF Init, Answered, Evaluated
<1>2. Answered /\ [Evaluate]_vars => Answered'
  BY DEF Answered, Evaluate, Evaluated, vars
<1> QED
  BY <1>1, <1>2, PTL DEF Spec

(* All integer arguments are integers.                                     *)
LEMMA ValuesAreInt == Values \subseteq Int /\ Deltas \subseteq Int
<1>1. 8 \in Sizes
  BY DEF Sizes
<1>2. Half(8) \in Nat /\ Modulus(8) \in Nat
  BY <1>1, ModulusIsEven
<1> QED
  BY <1>2, AssertsAssumption DEF AssertsAssumption, IntRange

(* The arguments of a call are those of its assert.                        *)
LEMMA Arguments ==
    ASSUME NEW c \in Calls
    PROVE  /\ c.fn = "EQUAL" => c.macro \in EqualMacros
           /\ c.fn \in {"EQUAL", "NOT_EQUAL", "GREATER", "LESS", "BITS_HIGH", "BITS_LOW"}
                => c.args \in Values \X Values
           /\ c.fn \in {"TRUE", "FALSE"} => c.args \in Values \X {0}
           /\ c.fn \in {"NULL", "NOT_NULL"} => c.args \in Pointers \X {0}
           /\ c.fn = "INT_WITHIN" => c.args \in Deltas \X Values \X Values
           /\ c.fn = "FLOAT_WITHIN" => c.args \in AllFloats \X AllFloats \X AllFloats
           /\ c.fn = "STRING" => c.args \in Pointers \X Pointers
           /\ c.fn = "STRING_LEN" => c.args \in Pointers \X Pointers \X Lengths
           /\ c.fn \in {"MEMORY", "INT_ARRAY", "UINT8_ARRAY"} => c.args \in Readable
BY DEF Calls, Bytes

(* What is called is what answers.                                         *)
LEMMA ResultIs ==
    ASSUME NEW c, NEW r \in Results(c), NEW x, x = c.args
    PROVE  /\ c.fn = "EQUAL" => r = AssertEqual(c.macro, x[1], x[2])
           /\ c.fn = "TRUE" => r = AssertTrue(x[1])
           /\ c.fn = "FALSE" => r = AssertFalse(x[1])
           /\ c.fn = "NULL" => r = AssertNull(x[1])
           /\ c.fn = "NOT_NULL" => r = AssertNotNull(x[1])
           /\ c.fn = "NOT_EQUAL" => r = AssertNotEqual(x[1], x[2])
           /\ c.fn = "GREATER" => r = AssertGreater(x[1], x[2])
           /\ c.fn = "LESS" => r = AssertLess(x[1], x[2])
           /\ c.fn = "INT_WITHIN" => r \in AssertIntWithin(x[1], x[2], x[3])
           /\ c.fn = "FLOAT_WITHIN" => r = AssertFloatWithin(x[1], x[2], x[3])
           /\ c.fn = "STRING" => r = AssertString(x[1], x[2])
           /\ c.fn = "STRING_LEN" => r = AssertStringLen(x[1], x[2], x[3])
           /\ c.fn = "MEMORY" => r = AssertMemory(x[1], x[2], x[3])
           /\ c.fn = "INT_ARRAY" => r = AssertArray(FALSE, x[1], x[2], x[3])
           /\ c.fn = "UINT8_ARRAY" => r = AssertArray(TRUE, x[1], x[2], x[3])
BY DEF Results

(* A check passes if its condition holds.                                  *)
LEMMA CheckPasses ==
    ASSUME NEW passed \in BOOLEAN, NEW shown
    PROVE  Check(passed, shown).passed <=> passed
BY DEF Check

-----------------------------------------------------------------------------
(* Equality and order.                                                     *)
LEMMA TruthIsKept ==
    ASSUME NEW x \in Int
    PROVE  Signed(4, Truth(x)) # 0 <=> x # 0
<1>1. 4 \in Sizes /\ Truth(x) \in Int /\ 0 \in Int
  BY DEF Sizes, Truth
<1>2. Modulus(4) \in Nat \ {0} /\ Half(4) \in Nat \ {0} /\ Modulus(4) = 2 * Half(4)
  BY <1>1, ModulusIsEven
<1>3. 0 \in IntRange(4) /\ Signed(4, 0) = 0
  BY <1>1, <1>2, SignedInRange DEF IntRange
<1>4. 1 % Modulus(4) = 1
  <2>1. 1 \in 0 .. Modulus(4) - 1 /\ 1 = 0 * Modulus(4) + 1
    BY <1>2
  <2> QED
    BY <1>2, <2>1, OnlyRemainder
<1>5. Signed(4, 1) # 0
  BY <1>2, <1>4 DEF Signed, Unsigned
<1> QED
  BY <1>3, <1>5 DEF Truth

(* What EQUAL, in all its types and sizes, says of two integers.           *)
LEMMA EqualIsSame ==
    ASSUME NEW macro \in EqualMacros, NEW x \in Int, NEW y \in Int
    PROVE  AssertEqual(macro, x, y).passed
              <=> (x - y) % Modulus(IF macro.size = 0 THEN 8 ELSE macro.size) = 0
<1> DEFINE size == IF macro.size = 0 THEN 8 ELSE macro.size
<1>1. size \in Sizes
  BY DEF EqualMacros, Sizes
<1>2. AssertEqual(macro, x, y).passed <=> Narrow(macro, x) = Narrow(macro, y)
  BY DEF AssertEqual, Check
<1> HIDE DEF size
<1>3. Narrow(macro, x) = Narrow(macro, y) <=> (x - y) % Modulus(size) = 0
  BY <1>1, Conversions DEF Narrow, size
<1> QED
  BY <1>2, <1>3 DEF size

(* GREATER and LESS of numbers that int64_t has.                           *)
LEMMA OrderIsKept ==
    ASSUME NEW t \in IntRange(8), NEW a \in IntRange(8), t \in Int, a \in Int
    PROVE  /\ AssertGreater(t, a).passed <=> a > t
           /\ AssertLess(t, a).passed <=> a < t
<1>1. Signed(8, t) = t /\ Signed(8, a) = a
  BY SignedInRange DEF Sizes
<1>2. (a > t) \in BOOLEAN /\ (a < t) \in BOOLEAN
  OBVIOUS
<1>3. AssertGreater(t, a).passed <=> a > t
  <2>1. PICK shown : AssertGreater(t, a) = Check(a > t, shown)
    BY <1>1 DEF AssertGreater
  <2> QED
    BY <1>2, <2>1, CheckPasses
<1>4. AssertLess(t, a).passed <=> a < t
  <2>1. PICK shown : AssertLess(t, a) = Check(a < t, shown)
    BY <1>1 DEF AssertLess
  <2> QED
    BY <1>2, <2>1, CheckPasses
<1> QED
  BY <1>3, <1>4

(* Every equality, order and truth assert decides by the numbers it was    *)
(* given, modulo the range of its type, for any widths of the types.       *)
THEOREM EqualityExact == Spec => []EqualityIsExact
<1>1. ASSUME Answered, Evaluated PROVE EqualityIsExact
  <2> DEFINE x == call.args
  <2>1. call \in Calls /\ result \in Results(call)
    BY <1>1 DEF Answered
  <2>2. 8 \in Sizes
    BY DEF Sizes
  <2>3. call.fn = "EQUAL" => (result.passed
            <=> (x[1] - x[2]) % Modulus(IF call.macro.size = 0 THEN 8 ELSE call.macro.size) = 0)
    <3> SUFFICES ASSUME call.fn = "EQUAL"
                 PROVE  result.passed
            <=> (x[1] - x[2]) % Modulus(IF call.macro.size = 0 THEN 8 ELSE call.macro.size) = 0
      OBVIOUS
    <3>1. call.macro \in EqualMacros /\ x[1] \in Int /\ x[2] \in Int
      BY <2>1, Arguments, ValuesAreInt
    <3>2. result = AssertEqual(call.macro, x[1], x[2])
      BY <2>1, ResultIs
    <3> QED
      BY <3>1, <3>2, EqualIsSame
  <2>4. call.fn = "NOT_EQUAL" => (result.passed <=> ~((x[1] - x[2]) % Modulus(8) = 0))
    <3> SUFFICES ASSUME call.fn = "NOT_EQUAL"
                 PROVE  result.passed <=> ~((x[1] - x[2]) % Modulus(8) = 0)
      OBVIOUS
    <3>1. x[1] \in Int /\ x[2] \in Int
      BY <2>1, Arguments, ValuesAreInt
    <3>2. result.passed <=> Signed(8, x[1]) # Signed(8, x[2])
      BY <2>1, ResultIs, CheckPasses DEF AssertNotEqual
    <3> QED
      BY <2>2, <3>1, <3>2, Conversions
  <2>5. /\ call.fn = "TRUE" => (result.passed <=> x[1] # 0)
        /\ call.fn = "FALSE" => (result.passed <=> x[1] = 0)
    <3>1. call.fn \in {"TRUE", "FALSE"} => x[1] \in Int
      BY <2>1, Arguments, ValuesAreInt
    <3>2. call.fn = "TRUE" => (result.passed <=> Signed(4, Truth(x[1])) # 0)
      BY <2>1, ResultIs, CheckPasses DEF AssertTrue
    <3>3. call.fn = "FALSE" => (result.passed <=> Signed(4, Truth(x[1])) = 0)
      BY <2>1, ResultIs, CheckPasses DEF AssertFalse
    <3> QED
      BY <3>1, <3>2, <3>3, TruthIsKept
  <2>6. /\ call.fn = "NOT_NULL" => (result.passed <=> x[1] # 0)
        /\ call.fn = "NULL" => (result.passed <=> x[1] = 0)
    BY <2>1, ResultIs, CheckPasses DEF AssertNull, AssertNotNull
  <2>7. ASSUME x[1] \in IntRange(8), x[2] \in IntRange(8)
        PROVE  /\ call.fn = "GREATER" => (result.passed <=> x[2] > x[1])
               /\ call.fn = "LESS" => (result.passed <=> x[2] < x[1])
    <3>1. call.fn \in {"GREATER", "LESS"} => x[1] \in Int /\ x[2] \in Int
      BY <2>1, Arguments, ValuesAreInt
    <3> QED
      BY <2>1, <2>7, <3>1, ResultIs, OrderIsKept
  <2> QED
    BY <2>3, <2>4, <2>5, <2>6, <2>7 DEF EqualityIsExact
<1>2. ~Evaluated => EqualityIsExact
  BY DEF EqualityIsExact
<1> QED
  BY <1>1, <1>2, CallsAnswered, PTL

-----------------------------------------------------------------------------
(* Distances.                                                              *)
LEMMA IntWithinIsDistance ==
    ASSUME NEW delta \in Int, NEW expected \in Int, NEW actual \in Int,
           NEW e, e = Signed(8, expected), NEW a, a = Signed(8, actual),
           (a - e) \in IntRange(8), (e - a) \in IntRange(8),
           NEW r \in AssertIntWithin(delta, expected, actual)
    PROVE  r.passed <=> e - delta <= a /\ a <= e + delta
<1>1. e \in Int /\ a \in Int
  <2>1. IntRange(8) \subseteq Int
    BY ModulusIsEven DEF IntRange, Sizes
  <2> QED
    BY <2>1, SignedInRange DEF Sizes
<1>2. Distance(a, e) \in IntRange(8)
  BY DEF Distance
<1>3. PICK shown : r = Check(Distance(a, e) <= delta, shown)
  BY <1>2 DEF AssertIntWithin
<1>4. /\ (Distance(a, e) <= delta) \in BOOLEAN
      /\ Distance(a, e) <= delta <=> e - delta <= a /\ a <= e + delta
  BY <1>1 DEF Distance
<1> QED
  BY <1>3, <1>4, CheckPasses

(* The rules of IEEE 754, in one formula.                                  *)
Near(delta, e, a) ==
    /\ NaN \notin {delta, e, a}
    /\ ~(e = a /\ e \in Infinities)
    /\ \/ delta = Infinity
       \/ {e, a} \subseteq Floats /\ e - delta <= a /\ a <= e + delta

(* The within asserts of floats follow these rules.                        *)
LEMMA FloatWithinIsDistance ==
    ASSUME NEW delta \in AllFloats, NEW e \in AllFloats, NEW a \in AllFloats
    PROVE  AssertFloatWithin(delta, e, a).passed <=> Near(delta, e, a)
<1>1. /\ Infinity \in Nat /\ NaN \in Nat /\ Infinity < NaN
      /\ \A f \in Floats : f \in Int /\ -Infinity < f /\ f < Infinity
      /\ \A f, g \in Floats : f - g < Infinity
  BY AssertsAssumption DEF AssertsAssumption
<1> DEFINE diff == IF Greater(a, e) THEN Minus(a, e) ELSE Minus(e, a)
<1>2. AssertFloatWithin(delta, e, a).passed <=> AtMost(diff, delta)
  <2>1. AtMost(diff, delta) \in BOOLEAN
    BY DEF AtMost
  <2>2. AssertFloatWithin(delta, e, a) = Check(AtMost(diff, delta), <<>>)
    BY DEF AssertFloatWithin
  <2> HIDE DEF diff
  <2> QED
    BY <2>1, <2>2, CheckPasses
<1>3. \E d : /\ diff = d
             /\ d = IF Greater(a, e) THEN Minus(a, e) ELSE Minus(e, a)
  OBVIOUS
<1>4. PICK d : diff = d /\ d = IF Greater(a, e) THEN Minus(a, e) ELSE Minus(e, a)
  BY <1>3
<1> HIDE DEF diff
<1>5. CASE NaN \in {e, a}
  <2>1. d = NaN
    BY <1>4, <1>5 DEF Minus, Infinities
  <2> QED
    BY <1>2, <1>4, <1>5, <2>1 DEF Near, AtMost
<1>6. CASE e \in Floats /\ a \in Floats
  <2>1. NaN \notin {e, a} /\ {e, a} \cap Infinities = {}
    BY <1>1, <1>6 DEF Infinities
  <2>2. d = IF a > e THEN a - e ELSE e - a
    BY <1>4, <2>1 DEF Greater, Minus
  <2>3. d \in Int /\ d >= 0 /\ d < Infinity /\ e \in Int /\ a \in Int
    BY <1>1, <1>6, <2>2
  <2>4. CASE delta \in Floats
    <3>1. delta \in Int /\ delta < Infinity
      BY <1>1, <2>4
    <3>2. d <= delta <=> e - delta <= a /\ a <= e + delta
      BY <2>2, <2>3, <3>1
    <3>3. AtMost(d, delta) <=> d <= delta
      BY <1>1, <2>3, <3>1 DEF AtMost
    <3>4. Near(delta, e, a) <=> e - delta <= a /\ a <= e + delta
      BY <1>1, <1>6, <2>1, <3>1 DEF Near
    <3> QED
      BY <1>2, <1>4, <3>2, <3>3, <3>4
  <2>5. CASE delta = Infinity
    <3>1. AtMost(d, delta)
      BY <1>1, <2>3, <2>5 DEF AtMost
    <3>2. Near(delta, e, a)
      BY <1>1, <2>1, <2>5 DEF Near
    <3> QED
      BY <1>2, <1>4, <3>1, <3>2
  <2>6. CASE delta = -Infinity
    <3>1. ~AtMost(d, delta)
      BY <1>1, <2>3, <2>6 DEF AtMost
    <3>2. ~Near(delta, e, a)
      BY <1>1, <2>3, <2>6 DEF Near
    <3> QED
      BY <1>2, <1>4, <3>1, <3>2
  <2>7. CASE delta = NaN
    BY <1>2, <1>4, <2>7 DEF Near, AtMost
  <2> QED
    BY <2>4, <2>5, <2>6, <2>7 DEF AllFloats, Infinities
<1>7. CASE NaN \notin {e, a} /\ e = a /\ e \in Infinities
  <2>1. d = NaN
    BY <1>4, <1>7 DEF Minus, Infinities
  <2> QED
    BY <1>2, <1>4, <1>7, <2>1 DEF Near, AtMost
<1>8. CASE NaN \notin {e, a} /\ e # a /\ ~(e \in Floats /\ a \in Floats)
  <2>1. d = Infinity
    <3>1. CASE Greater(a, e)
      <4>1. d = Minus(a, e) /\ a > e
        BY <1>4, <3>1 DEF Greater
      <4>2. a = Infinity \/ (a \in Floats /\ e = -Infinity)
        BY <1>1, <1>8, <4>1 DEF AllFloats, Infinities
      <4> QED
        BY <1>1, <1>8, <4>1, <4>2 DEF Minus, Infinities
    <3>2. CASE ~Greater(a, e)
      <4>1. d = Minus(e, a) /\ ~(a > e)
        BY <1>4, <1>8, <3>2 DEF Greater
      <4>2. e = Infinity \/ (e \in Floats /\ a = -Infinity)
        BY <1>1, <1>8, <4>1 DEF AllFloats, Infinities
      <4> QED
        BY <1>1, <1>8, <4>1, <4>2 DEF Minus, Infinities
    <3> QED
      BY <3>1, <3>2
  <2>2. AtMost(d, delta) <=> delta = Infinity
    <3>1. delta \in Int /\ (delta >= Infinity <=> delta \in {Infinity, NaN})
      BY <1>1 DEF AllFloats, Infinities
    <3> QED
      BY <1>1, <2>1, <3>1 DEF AtMost
  <2> QED
    BY <1>1, <1>2, <1>4, <1>8, <2>2 DEF Near
<1> QED
  BY <1>5, <1>6, <1>7, <1>8 DEF AllFloats, Infinities

(* A value is within delta exactly if its distance is, for integers of any *)
(* width whose distance the type can hold and for floats with infinities   *)
(* and NaN.                                                                *)
THEOREM WithinDistance == Spec => []WithinIsDistance
<1>1. ASSUME Answered, Evaluated PROVE WithinIsDistance
  <2> DEFINE x == call.args
             e == Signed(8, x[2])
             a == Signed(8, x[3])
  <2>1. call \in Calls /\ result \in Results(call)
    BY <1>1 DEF Answered
  <2>2. ASSUME call.fn = "INT_WITHIN", (a - e) \in IntRange(8), (e - a) \in IntRange(8)
        PROVE  result.passed <=> e - x[1] <= a /\ a <= e + x[1]
    <3>1. x[1] \in Int /\ x[2] \in Int /\ x[3] \in Int
      BY <2>1, <2>2, Arguments, ValuesAreInt
    <3>2. result \in AssertIntWithin(x[1], x[2], x[3])
      BY <2>1, <2>2, ResultIs
    <3> QED
      BY <2>2, <3>1, <3>2, IntWithinIsDistance
  <2>3. ASSUME call.fn = "FLOAT_WITHIN"
        PROVE  /\ result.passed <=> Near(x[1], x[2], x[3])
               /\ ToSet(x) = {x[1], x[2], x[3]}
    <3>1. x \in AllFloats \X AllFloats \X AllFloats
      BY <2>1, <2>3, Arguments
    <3>2. result = AssertFloatWithin(x[1], x[2], x[3])
      BY <2>1, <2>3, ResultIs
    <3>3. ToSet(x) = {x[1], x[2], x[3]}
      BY <3>1 DEF ToSet
    <3> QED
      BY <3>1, <3>2, <3>3, FloatWithinIsDistance
  <2> QED
    BY <2>2, <2>3 DEF WithinIsDistance, Near
<1>2. ~Evaluated => WithinIsDistance
  BY DEF WithinIsDistance
<1> QED
  BY <1>1, <1>2, CallsAnswered, PTL

-----------------------------------------------------------------------------
(* Buffers.  Behind the end of a string there is the byte that is in none. *)
Nul == Modulus(4)
ByteOf(s, i) == IF i <= Len(s) THEN s[i] ELSE Nul

Alike(s, t, n) ==
    \A i \in 1 .. n : \/ ByteOf(s, i) = ByteOf(t, i)
                      \/ \E j \in 1 .. i - 1 : ByteOf(s, j) = Nul /\ ByteOf(t, j) = Nul

Cut(s, n) == SubSeq(s, 1, IF n < Len(s) THEN n ELSE Len(s))

(* The byte behind the end is in no string.                                *)
LEMMA NulIsNoByte ==
    ASSUME NEW b \in IntRange(4)
    PROVE  b \in Int /\ b # Nul
<1>1. Half(4) \in Nat \ {0} /\ Nul = 2 * Half(4)
  BY ModulusIsEven DEF Sizes, Nul
<1> QED
  BY <1>1 DEF IntRange

(* Up to the end of a string that is compared, what is alike is equal.     *)
LEMMA AlikeUpToEnd ==
    ASSUME NEW s \in Seq(IntRange(4)), NEW t \in Seq(IntRange(4)), NEW n \in Nat,
           Alike(s, t, n), NEW i \in 1 .. n, i <= Len(s)
    PROVE  i <= Len(t) /\ s[i] = t[i]
<1>1. Len(s) \in Nat /\ Len(t) \in Nat /\ \A j \in 1 .. Len(s) : s[j] \in IntRange(4)
  BY LenProperties
<1>2. \A j \in 1 .. i : ByteOf(s, j) = s[j] /\ s[j] # Nul
  <2> SUFFICES ASSUME NEW j \in 1 .. i PROVE ByteOf(s, j) = s[j] /\ s[j] # Nul
    OBVIOUS
  <2>1. j \in 1 .. Len(s) /\ j <= Len(s)
    BY <1>1
  <2> QED
    BY <1>1, <2>1, NulIsNoByte DEF ByteOf
<1>3. ByteOf(s, i) = ByteOf(t, i)
  BY <1>2 DEF Alike
<1>4. ByteOf(t, i) = s[i] /\ s[i] # Nul
  BY <1>2, <1>3
<1> QED
  BY <1>1, <1>4 DEF ByteOf

(* Likeness goes both ways.                                                *)
LEMMA AlikeIsMutual ==
    ASSUME NEW s, NEW t, NEW n, Alike(s, t, n)
    PROVE  Alike(t, s, n)
BY DEF Alike

(* strncmp and memcmp: what they read is equal if the bytes are, as far as *)
(* both strings go.                                                        *)
LEMMA CutsAlike ==
    ASSUME NEW s \in Seq(IntRange(4)), NEW t \in Seq(IntRange(4)), NEW n \in Nat
    PROVE  Cut(s, n) = Cut(t, n) <=> Alike(s, t, n)
<1> DEFINE End(u) == IF n < Len(u) THEN n ELSE Len(u)
<1>1. Len(s) \in Nat /\ Len(t) \in Nat
  BY LenProperties
<1>2. ASSUME NEW u \in Seq(IntRange(4)), Len(u) \in Nat
      PROVE  /\ Cut(u, n) \in Seq(IntRange(4)) /\ Len(Cut(u, n)) = End(u)
             /\ \A i \in 1 .. End(u) : Cut(u, n)[i] = u[i]
  <2>1. End(u) \in Nat /\ End(u) <= Len(u)
    BY <1>2
  <2>2. \A i \in 1 .. End(u) : u[i] \in IntRange(4)
    BY <1>2, <2>1
  <2>3. Cut(u, n) = SubSeq(u, 1, End(u))
    BY DEF Cut
  <2> HIDE DEF End
  <2>4. /\ SubSeq(u, 1, End(u)) \in Seq(IntRange(4))
        /\ Len(SubSeq(u, 1, End(u))) = IF 1 <= End(u) THEN End(u) - 1 + 1 ELSE 0
        /\ \A i \in 1 .. End(u) - 1 + 1 : SubSeq(u, 1, End(u))[i] = u[1 + i - 1]
    BY <2>1, <2>2, SubSeqProperties
  <2> QED
    BY <2>1, <2>3, <2>4
<1>3. ASSUME Cut(s, n) = Cut(t, n) PROVE Alike(s, t, n)
  <2>1. End(s) = End(t) /\ \A i \in 1 .. End(s) : s[i] = t[i]
    BY <1>1, <1>2, <1>3
  <2>2. ASSUME NEW i \in 1 .. n PROVE ByteOf(s, i) = ByteOf(t, i)
    <3>1. CASE i <= End(s)
      BY <1>1, <2>1, <3>1 DEF ByteOf
    <3>2. CASE i > End(s)
      BY <1>1, <2>1, <3>2 DEF ByteOf
    <3> QED
      BY <1>1, <3>1, <3>2
  <2> QED
    BY <2>2 DEF Alike
<1>4. ASSUME Alike(s, t, n) PROVE Cut(s, n) = Cut(t, n)
  <2>1. \A i \in 1 .. n : i <= Len(s) => i <= Len(t) /\ s[i] = t[i]
    BY <1>4, AlikeUpToEnd
  <2>2. \A i \in 1 .. n : i <= Len(t) => i <= Len(s)
    BY <1>4, AlikeIsMutual, AlikeUpToEnd
  <2>3. End(s) = End(t)
    <3>1. End(s) \in 1 .. n => End(s) <= Len(t)
      BY <1>1, <2>1
    <3>2. End(t) \in 1 .. n => End(t) <= Len(s)
      BY <1>1, <2>2
    <3> QED
      BY <1>1, <3>1, <3>2
  <2>4. \A i \in 1 .. End(s) : s[i] = t[i]
    BY <1>1, <2>1
  <2> HIDE DEF End
  <2>5. \A i \in 1 .. Len(Cut(s, n)) : Cut(s, n)[i] = Cut(t, n)[i]
    BY <1>1, <1>2, <2>3, <2>4
  <2> QED
    BY <1>1, <1>2, <2>3, <2>5, SeqEqual
<1> QED
  BY <1>3, <1>4

(* Two pointers that are not NULL to buffers with the same bytes.          *)
Agree(e, a, n) == e # 0 /\ a # 0 /\ Alike(Memory[e], Memory[a], n)

(* Where a pointer points there is a string.                               *)
LEMMA MemoryIsBytes ==
    ASSUME NEW p \in Pointers, p # 0
    PROVE  Memory[p] \in Seq(IntRange(4)) /\ Len(Memory[p]) \in Nat
<1>1. Memory[p] \in Seq(IntRange(4))
  BY AssertsAssumption DEF AssertsAssumption, Pointers
<1> QED
  BY <1>1, LenProperties

(* What strncmp and memcmp read is alike if it is equal.                   *)
LEMMA SameUpTo ==
    ASSUME NEW e \in Pointers, NEW a \in Pointers, NEW n \in Nat
    PROVE  (e # 0 /\ a # 0 /\ UpTo(e, n) = UpTo(a, n)) <=> Agree(e, a, n)
<1>1. UpTo(e, n) = Cut(Memory[e], n) /\ UpTo(a, n) = Cut(Memory[a], n)
  BY DEF UpTo, Cut
<1> QED
  BY <1>1, MemoryIsBytes, CutsAlike DEF Agree

(* Strings are equal if they are as far as the two of them go.             *)
LEMMA SameString ==
    ASSUME NEW e \in Pointers, NEW a \in Pointers
    PROVE  (e # 0 /\ a # 0 /\ Memory[e] = Memory[a])
               <=> Agree(e, a, Len(Memory[e]) + Len(Memory[a]) + 1)
<1> SUFFICES ASSUME e # 0, a # 0
             PROVE  Memory[e] = Memory[a]
                       <=> Alike(Memory[e], Memory[a], Len(Memory[e]) + Len(Memory[a]) + 1)
  BY DEF Agree
<1> DEFINE n == Len(Memory[e]) + Len(Memory[a]) + 1
<1>1. /\ Memory[e] \in Seq(IntRange(4)) /\ Len(Memory[e]) \in Nat
      /\ Memory[a] \in Seq(IntRange(4)) /\ Len(Memory[a]) \in Nat
  BY MemoryIsBytes
<1>2. n \in Nat /\ ~(n < Len(Memory[e])) /\ ~(n < Len(Memory[a]))
  <2>1. \A k, l \in Nat : k + l + 1 \in Nat /\ ~(k + l + 1 < k) /\ ~(k + l + 1 < l)
    OBVIOUS
  <2> QED
    BY <1>1, <2>1
<1>3. Cut(Memory[e], n) = Memory[e] /\ Cut(Memory[a], n) = Memory[a]
  <2> HIDE DEF n
  <2> QED
    BY <1>1, <1>2, SubSeqFull DEF Cut
<1>4. Cut(Memory[e], n) = Cut(Memory[a], n) <=> Alike(Memory[e], Memory[a], n)
  BY <1>1, <1>2, CutsAlike
<1> QED
  BY <1>3, <1>4

(* The first difference between arrays is one between their elements.      *)
LEMMA SameArray ==
    ASSUME NEW hex, NEW e \in Pointers, NEW a \in Pointers, NEW n \in Nat,
           e # 0 => n <= Len(Memory[e]), a # 0 => n <= Len(Memory[a])
    PROVE  AssertArray(hex, e, a, n).passed <=> Agree(e, a, n)
<1>1. CASE e = 0 \/ a = 0
  BY <1>1, CheckPasses DEF AssertArray, Agree
<1>2. CASE e # 0 /\ a # 0
  <2>1. PICK shown : AssertArray(hex, e, a, n) = Check(Differ(e, a, n) = {}, shown)
    BY <1>2 DEF AssertArray
  <2>2. AssertArray(hex, e, a, n).passed <=> Differ(e, a, n) = {}
    BY <2>1, CheckPasses
  <2>3. /\ Memory[e] \in Seq(IntRange(4)) /\ Len(Memory[e]) \in Nat
        /\ Memory[a] \in Seq(IntRange(4)) /\ Len(Memory[a]) \in Nat
    BY <1>2, MemoryIsBytes
  <2>4. ASSUME Differ(e, a, n) = {} PROVE Alike(Memory[e], Memory[a], n)
    BY <1>2, <2>3, <2>4 DEF Differ, Alike, ByteOf
  <2>5. ASSUME Alike(Memory[e], Memory[a], n) PROVE Differ(e, a, n) = {}
    BY <1>2, <2>3, <2>5, AlikeUpToEnd DEF Differ
  <2> QED
    BY <1>2, <2>2, <2>4, <2>5 DEF Agree
<1> QED
  BY <1>1, <1>2

(* String, memory and array asserts pass exactly if the contents they are  *)
(* asked to compare are the same, wherever they lie, whatever the lengths, *)
(* and never let NULL pass for a buffer.                                   *)
THEOREM BuffersCompare == Spec => []BuffersCompareContents
<1>1. ASSUME Answered, Evaluated PROVE BuffersCompareContents
  <2> DEFINE x == call.args
             r == result.passed
  <2>1. call \in Calls /\ result \in Results(call)
    BY <1>1 DEF Answered
  <2>2. Lengths \subseteq Nat
    BY AssertsAssumption DEF AssertsAssumption
  <2>3. ASSUME call.fn = "STRING"
        PROVE  r <=> x[1] = x[2] \/ Agree(x[1], x[2], Len(Memory[x[1]]) + Len(Memory[x[2]]) + 1)
    <3>1. x[1] \in Pointers /\ x[2] \in Pointers
      BY <2>1, <2>3, Arguments
    <3>2. r <=> x[1] = x[2] \/ (x[1] # 0 /\ x[2] # 0 /\ Memory[x[1]] = Memory[x[2]])
      BY <2>1, <2>3, ResultIs, CheckPasses DEF AssertString
    <3>3. PICK e \in Pointers, a \in Pointers : e = x[1] /\ a = x[2]
      BY <3>1
    <3>4. (e # 0 /\ a # 0 /\ Memory[e] = Memory[a])
             <=> Agree(e, a, Len(Memory[e]) + Len(Memory[a]) + 1)
      BY SameString
    <3>5. r <=> e = a \/ (e # 0 /\ a # 0 /\ Memory[e] = Memory[a])
      BY <3>2, <3>3
    <3>6. r <=> e = a \/ Agree(e, a, Len(Memory[e]) + Len(Memory[a]) + 1)
      BY <3>4, <3>5, Zenon
    <3> HIDE DEF x, r
    <3> QED
      BY <3>3, <3>6
  <2>4. ASSUME call.fn = "STRING_LEN" PROVE r <=> x[1] = x[2] \/ Agree(x[1], x[2], x[3])
    <3>1. x[1] \in Pointers /\ x[2] \in Pointers /\ x[3] \in Nat
      BY <2>1, <2>2, <2>4, Arguments
    <3>2. r <=> x[1] = x[2] \/ (x[1] # 0 /\ x[2] # 0 /\ UpTo(x[1], x[3]) = UpTo(x[2], x[3]))
      BY <2>1, <2>4, ResultIs, CheckPasses DEF AssertStringLen
    <3> QED
      BY <3>1, <3>2, SameUpTo
  <2>5. ASSUME call.fn = "MEMORY"
        PROVE  r <=> x[3] = 0 \/ x[1] = x[2] \/ Agree(x[1], x[2], x[3])
    <3>1. x[1] \in Pointers /\ x[2] \in Pointers /\ x[3] \in Nat
      BY <2>1, <2>2, <2>5, Arguments DEF Readable
    <3>2. r <=> \/ x[3] = 0 \/ x[1] = x[2]
                \/ x[1] # 0 /\ x[2] # 0 /\ UpTo(x[1], x[3]) = UpTo(x[2], x[3])
      BY <2>1, <2>5, ResultIs, CheckPasses DEF AssertMemory
    <3> QED
      BY <3>1, <3>2, SameUpTo
  <2>6. ASSUME call.fn \in {"INT_ARRAY", "UINT8_ARRAY"} PROVE r <=> Agree(x[1], x[2], x[3])
    <3>1. /\ x[1] \in Pointers /\ x[2] \in Pointers /\ x[3] \in Nat
          /\ \A p \in {x[1], x[2]} \ {0} : x[3] <= Len(Memory[p])
      BY <2>1, <2>2, <2>6, Arguments DEF Readable
    <3>2. PICK hex : result = AssertArray(hex, x[1], x[2], x[3])
      BY <2>1, <2>6, ResultIs
    <3> QED
      BY <3>1, <3>2, SameArray
  <2>7. \A e, a, n : Agree(e, a, n) <=>
          /\ e # 0 /\ a # 0
          /\ \A i \in 1 .. n :
                \/ ByteOf(Memory[e], i) = ByteOf(Memory[a], i)
                \/ \E j \in 1 .. i - 1 : ByteOf(Memory[e], j) = Nul /\ ByteOf(Memory[a], j) = Nul
    BY DEF Agree, Alike
  <2> QED
    BY <2>3, <2>4, <2>5, <2>6, <2>7 DEF BuffersCompareContents, ByteOf, Nul
<1>2. ~Evaluated => BuffersCompareContents
  BY DEF BuffersCompareContents
<1> QED
  BY <1>1, <1>2, CallsAnswered, PTL

-----------------------------------------------------------------------------
(* Bits.                                                                   *)
Both(mask, x, k) == Bit(mask, k) * Bit(x, k)
Places == 0 .. Bits(4) - 1

(* The bits of a masked number are those of both.                          *)
LEMMA MaskedIs ==
    ASSUME NEW mask \in Int, NEW x \in Int
    PROVE  \E f : /\ Binary(f, Bits(4), [k \in Places |-> Both(mask, x, k)])
                  /\ f[0] = Masked(mask, x)
<1>1. PICK n \in 0 .. Bits(8) : n = Bits(4) /\ n \in Nat /\ n # 0
  BY SizeInBits DEF Sizes
<1>2. Bits(8) \in Nat /\ PowerOf2[n] \in Nat \ {0}
  BY <1>1, SizeInBits, Powers DEF Sizes
<1>3. PICK a, b : a = Unsigned(4, mask) /\ b = Unsigned(4, x)
  OBVIOUS
<1>4. a = mask % PowerOf2[n] /\ b = x % PowerOf2[n]
  BY <1>1, <1>3 DEF Unsigned, Modulus
<1>5. ASSUME NEW k \in 0 .. n - 1
      PROVE  /\ Bit(a, k) = Bit(mask, k) /\ Bit(b, k) = Bit(x, k)
             /\ Bit(mask, k) \in {0, 1} /\ Bit(x, k) \in {0, 1}
  <2>1. k \in 0 .. Bits(8) - 1
    BY <1>1, <1>2
  <2> QED
    BY <1>4, <2>1, BitsOfRemainder, Halves
<1>6. ASSUME NEW k \in 0 .. n - 1
      PROVE  Bit(a, k) * Bit(b, k) = Both(mask, x, k) /\ Both(mask, x, k) \in {0, 1}
  <2>1. PICK i \in {0, 1}, j \in {0, 1} : i = Bit(mask, k) /\ j = Bit(x, k)
    BY <1>5
  <2>2. i * j \in {0, 1}
    OBVIOUS
  <2> QED
    BY <1>5, <2>1, <2>2 DEF Both
<1>7. PICK turn : turn = [k \in 0 .. n - 1 |-> [v \in Nat |-> 2 * v + Bit(a, k) * Bit(b, k)]]
  OBVIOUS
<1>8. turn \in [0 .. n - 1 -> [Nat -> Nat]]
  <2>1. ASSUME NEW k \in 0 .. n - 1 PROVE turn[k] \in [Nat -> Nat]
    <3>1. PICK c \in {0, 1} : c = Bit(a, k) * Bit(b, k)
      BY <1>6
    <3>2. turn[k] = [v \in Nat |-> 2 * v + c]
      BY <1>7, <3>1
    <3> QED
      BY <3>2
  <2> QED
    BY <1>7, <2>1
<1>9. PICK f \in [0 .. n -> Nat] : RunsDown(f, n, 0, turn)
  <2>1. 0 \in Nat
    OBVIOUS
  <2> QED
    BY <1>1, <1>8, <2>1, LoopDown, Zenon
<1> DEFINE Loop(g) == g = [k \in 0 .. n |-> IF k = n THEN 0
                                            ELSE 2 * g[k + 1] + Bit(a, k) * Bit(b, k)]
<1>10. Loop(f)
  <2>1. ASSUME NEW k \in 0 .. n - 1 PROVE f[k] = 2 * f[k + 1] + Bit(a, k) * Bit(b, k)
    <3>1. f[k + 1] \in Nat
      BY <1>1, <1>9
    <3>2. f[k] = turn[k][f[k + 1]]
      BY <1>9 DEF RunsDown
    <3> QED
      BY <1>7, <3>1, <3>2
  <2>2. f[n] = 0
    BY <1>9 DEF RunsDown
  <2>3. \A k \in 0 .. n : f[k] = IF k = n THEN 0 ELSE 2 * f[k + 1] + Bit(a, k) * Bit(b, k)
    <3>1. \A k \in 0 .. n : k = n \/ k \in 0 .. n - 1
      BY <1>1
    <3> QED
      BY <2>1, <2>2, <3>1
  <2> QED
    BY <1>9, <2>3
<1>11. PICK g : g = CHOOSE h : Loop(h)
  OBVIOUS
<1>12. Loop(g)
  BY <1>10, <1>11
<1>13. Masked(mask, x) = g[0]
  BY <1>1, <1>3, <1>11 DEF Masked
<1>14. g[n] = 0 /\ \A k \in 0 .. n - 1 : g[k] = 2 * g[k + 1] + Both(mask, x, k)
  <2>1. g[n] = 0
    BY <1>1, <1>12
  <2>2. ASSUME NEW k \in 0 .. n - 1 PROVE g[k] = 2 * g[k + 1] + Both(mask, x, k)
    <3>1. k \in 0 .. n /\ k # n
      BY <1>1
    <3>2. g[k] = 2 * g[k + 1] + Bit(a, k) * Bit(b, k)
      BY <1>12, <3>1
    <3> QED
      BY <1>6, <3>2
  <2> QED
    BY <2>1, <2>2
<1>15. g \in [0 .. n -> Nat]
  <2> DEFINE S == {j \in 0 .. n : g[n - j] \in Nat}
  <2>1. 0 \in S
    BY <1>1, <1>14
  <2>2. ASSUME NEW j \in 0 .. n - 1, j \in S PROVE j + 1 \in S
    <3>1. PICK k \in 0 .. n - 1 : k = n - (j + 1) /\ k + 1 = n - j
      <4>1. n - (j + 1) \in 0 .. n - 1 /\ (n - (j + 1)) + 1 = n - j
        BY <1>1
      <4> QED
        BY <4>1
    <3>2. g[k + 1] \in Nat
      BY <2>2, <3>1
    <3>3. PICK c \in {0, 1} : c = Both(mask, x, k)
      BY <1>6
    <3>4. g[k] = 2 * g[k + 1] + c
      BY <1>14, <3>3
    <3>5. g[k] \in Nat
      BY <3>2, <3>4
    <3> QED
      BY <3>1, <3>5
  <2>3. 0 .. n \subseteq S
    <3> HIDE DEF S
    <3> QED
      BY <1>1, <2>1, <2>2, Reaches
  <2>4. ASSUME NEW k \in 0 .. n PROVE g[k] \in Nat
    <3>1. n - k \in S /\ n - (n - k) = k
      <4>1. n - k \in 0 .. n /\ n - (n - k) = k
        BY <1>1
      <4> QED
        BY <2>3, <4>1
    <3> QED
      BY <3>1
  <2> QED
    BY <1>12, <2>4
<1>16. PICK both : both = [k \in 0 .. n - 1 |-> Both(mask, x, k)]
  OBVIOUS
<1>17. Binary(g, n, both)
  BY <1>6, <1>14, <1>15, <1>16 DEF Binary
<1> QED
  BY <1>1, <1>13, <1>16, <1>17 DEF Places

(* Masked numbers are the same if the bits the mask selects are.           *)
LEMMA SameMasked ==
    ASSUME NEW m1 \in Int, NEW x1 \in Int, NEW m2 \in Int, NEW x2 \in Int
    PROVE  /\ Masked(m1, x1) \in 0 .. Modulus(4) - 1
           /\ Masked(m1, x1) = Masked(m2, x2)
                <=> \A k \in Places : Both(m1, x1, k) = Both(m2, x2, k)
<1>1. PICK n \in 0 .. Bits(8) : n = Bits(4) /\ n \in Nat
  BY SizeInBits DEF Sizes
<1>2. PICK b, c : /\ b = [k \in 0 .. n - 1 |-> Both(m1, x1, k)]
                  /\ c = [k \in 0 .. n - 1 |-> Both(m2, x2, k)]
  OBVIOUS
<1>3. PICK f : Binary(f, n, b) /\ f[0] = Masked(m1, x1)
  BY <1>1, <1>2, MaskedIs DEF Places
<1>4. PICK g : Binary(g, n, c) /\ g[0] = Masked(m2, x2)
  BY <1>1, <1>2, MaskedIs DEF Places
<1>5. f[0] = g[0] <=> \A k \in 0 .. n - 1 : b[k] = c[k]
  BY <1>1, <1>3, <1>4, SameBits
<1>6. f[0] \in 0 .. PowerOf2[n] - 1
  BY <1>3, BinaryBound
<1> QED
  BY <1>1, <1>2, <1>3, <1>4, <1>5, <1>6 DEF Places, Modulus

(* The same for a number that is not masked.                               *)
LEMMA MaskedWhole ==
    ASSUME NEW mask \in Int, NEW x \in Int, NEW u \in 0 .. Modulus(4) - 1
    PROVE  Masked(mask, x) = u <=> \A k \in Places : Both(mask, x, k) = Bit(u, k)
<1>1. PICK n \in 0 .. Bits(8) : n = Bits(4) /\ n \in Nat
  BY SizeInBits DEF Sizes
<1>2. PICK b, c : /\ b = [k \in 0 .. n - 1 |-> Both(mask, x, k)]
                  /\ c = [k \in 0 .. n - 1 |-> Bit(u, k)]
  OBVIOUS
<1>3. PICK f : Binary(f, n, b) /\ f[0] = Masked(mask, x)
  BY <1>1, <1>2, MaskedIs DEF Places
<1>4. PICK g : Binary(g, n, c) /\ g[0] = u
  BY <1>1, <1>2, BinaryOf DEF Modulus
<1>5. f[0] = g[0] <=> \A k \in 0 .. n - 1 : b[k] = c[k]
  BY <1>1, <1>3, <1>4, SameBits
<1> QED
  BY <1>1, <1>2, <1>3, <1>4, <1>5 DEF Places

(* The bits of any number, of its conversion and of 0.                     *)
LEMMA PlaceBits ==
    ASSUME NEW x \in Int, NEW k \in Places
    PROVE  Bit(x, k) \in {0, 1} /\ Bit(Unsigned(4, x), k) = Bit(x, k) /\ Bit(0, k) = 0
<1>1. PICK n \in 0 .. Bits(8) : n = Bits(4) /\ n \in Nat
  BY SizeInBits DEF Sizes
<1>2. Bits(8) \in Nat
  BY SizeInBits DEF Sizes
<1>3. k \in 0 .. n - 1 /\ k \in 0 .. Bits(8) - 1 /\ k \in 0 .. Bits(8)
  BY <1>1, <1>2 DEF Places
<1>4. Bit(0, k) = 0
  <2>1. PICK p \in Nat \ {0} : p = PowerOf2[k]
    BY <1>3, Powers
  <2>2. 0 \div p = 0
    <3>1. 0 = 0 * p + 0 /\ 0 \in 0 .. p - 1
      OBVIOUS
    <3> QED
      BY <3>1, OnlyRemainder
  <2> QED
    BY <2>1, <2>2 DEF Bit
<1> QED
  BY <1>1, <1>3, <1>4, Halves, BitsOfRemainder DEF Unsigned, Modulus

(* The bit asserts decide bit by bit.                                      *)
LEMMA BitsDecide ==
    ASSUME NEW mask \in Int, NEW e \in Int, NEW a \in Int
    PROVE  /\ AssertBits(mask, e, a).passed <=>
                 \A k \in Places : Bit(mask, k) = 1 => Bit(e, k) = Bit(a, k)
           /\ AssertBitsHigh(mask, a).passed <=>
                 \A k \in Places : Bit(mask, k) = 1 => Bit(a, k) = 1
           /\ AssertBitsLow(mask, a).passed <=>
                 \A k \in Places : Bit(mask, k) = 1 => Bit(a, k) = 0
<1>1. ASSUME NEW k \in Places, NEW y \in Int, NEW z \in Int
      PROVE  /\ Both(mask, y, k) = Both(mask, z, k)
                  <=> (Bit(mask, k) = 1 => Bit(y, k) = Bit(z, k))
             /\ Both(mask, y, k) = Bit(mask, k) <=> (Bit(mask, k) = 1 => Bit(y, k) = 1)
             /\ Both(mask, y, k) = 0 <=> (Bit(mask, k) = 1 => Bit(y, k) = 0)
  <2>1. PICK i \in {0, 1}, j \in {0, 1}, l \in {0, 1} :
           i = Bit(mask, k) /\ j = Bit(y, k) /\ l = Bit(z, k)
    BY PlaceBits
  <2>2. /\ i * j = i * l <=> (i = 1 => j = l)
        /\ i * j = i <=> (i = 1 => j = 1)
        /\ i * j = 0 <=> (i = 1 => j = 0)
    OBVIOUS
  <2> QED
    BY <2>1, <2>2 DEF Both
<1>2. Masked(mask, e) = Masked(mask, a)
         <=> \A k \in Places : Bit(mask, k) = 1 => Bit(e, k) = Bit(a, k)
  BY <1>1, SameMasked
<1>3. Masked(mask, a) = Unsigned(4, mask)
         <=> \A k \in Places : Bit(mask, k) = 1 => Bit(a, k) = 1
  <2>1. Unsigned(4, mask) \in 0 .. Modulus(4) - 1
    <3>1. 4 \in Sizes /\ Modulus(4) \in Nat \ {0}
      BY ModulusIsEven DEF Sizes
    <3> QED
      BY <3>1, Remainder DEF Unsigned
  <2> QED
    BY <1>1, <2>1, MaskedWhole, PlaceBits
<1>4. Masked(mask, a) = 0
         <=> \A k \in Places : Bit(mask, k) = 1 => Bit(a, k) = 0
  <2>1. 0 \in 0 .. Modulus(4) - 1
    <3>1. 4 \in Sizes /\ Modulus(4) \in Nat \ {0}
      BY ModulusIsEven DEF Sizes
    <3> QED
      BY <3>1
  <2> QED
    BY <1>1, <2>1, MaskedWhole, PlaceBits
<1> QED
  BY <1>2, <1>3, <1>4, CheckPasses DEF AssertBits, AssertBitsHigh, AssertBitsLow

(* What the calls of the bit asserts answer.                               *)
LEMMA BitResults ==
    ASSUME NEW c \in Calls, NEW r \in Results(c), NEW x, x = c.args
    PROVE  /\ c.fn = "BITS" => x \in Values \X Values \X Values
                               /\ r = AssertBits(x[1], x[2], x[3])
           /\ c.fn = "BITS_HIGH" => x \in Values \X Values /\ r = AssertBitsHigh(x[1], x[2])
           /\ c.fn = "BITS_LOW" => x \in Values \X Values /\ r = AssertBitsLow(x[1], x[2])
<1>1. /\ c.fn = "BITS" => x \in Values \X Values \X Values
      /\ c.fn \in {"BITS_HIGH", "BITS_LOW"} => x \in Values \X Values
  BY DEF Calls
<1>2. /\ c.fn = "BITS" => r = AssertBits(x[1], x[2], x[3])
      /\ c.fn = "BITS_HIGH" => r = AssertBitsHigh(x[1], x[2])
      /\ c.fn = "BITS_LOW" => r = AssertBitsLow(x[1], x[2])
  BY DEF Results
<1> QED
  BY <1>1, <1>2

(* The bit asserts look at the bits of the mask, whatever the integers     *)
(* that are passed, and agree on them.                                     *)
THEOREM BitsAgree == Spec => []BitMasksAgree
<1>1. Answered => BitMasksAgree
  <2> SUFFICES ASSUME Answered, Evaluated PROVE BitMasksAgree
    BY DEF BitMasksAgree
  <2>1. call \in Calls /\ result \in Results(call)
    BY DEF Answered
  <2>2. PICK x : x = call.args
    OBVIOUS
  <2>3. PICK fn : fn = call.fn
    OBVIOUS
  <2>4. /\ fn = "BITS" => x \in Values \X Values \X Values
                          /\ result = AssertBits(x[1], x[2], x[3])
        /\ fn = "BITS_HIGH" => x \in Values \X Values /\ result = AssertBitsHigh(x[1], x[2])
        /\ fn = "BITS_LOW" => x \in Values \X Values /\ result = AssertBitsLow(x[1], x[2])
    BY <2>1, <2>2, <2>3, BitResults
  <2>5. CASE fn = "BITS"
    <3>1. x[1] \in Int /\ x[2] \in Int /\ x[3] \in Int
      BY <2>4, <2>5, ValuesAreInt
    <3>2. result.passed <=> \A k \in Places : Bit(x[1], k) = 1 => Bit(x[2], k) = Bit(x[3], k)
      BY <2>4, <2>5, <3>1, BitsDecide
    <3> QED
      BY <2>2, <2>3, <2>5, <3>2 DEF BitMasksAgree, Places
  <2>6. CASE fn = "BITS_HIGH"
    <3>1. x[1] \in Int /\ x[2] \in Int
      BY <2>4, <2>6, ValuesAreInt
    <3>2. PICK m \in Int, a \in Int : m = x[1] /\ a = x[2]
      BY <3>1
    <3>3. result.passed <=> \A k \in Places : Bit(m, k) = 1 => Bit(a, k) = 1
      BY <2>4, <2>6, <3>2, BitsDecide
    <3>4. AssertBits(m, m, a).passed
             <=> \A k \in Places : Bit(m, k) = 1 => Bit(m, k) = Bit(a, k)
      BY BitsDecide
    <3>5. result.passed <=> AssertBits(m, m, a).passed
      BY <3>3, <3>4
    <3> QED
      BY <2>2, <2>3, <2>6, <3>2, <3>5 DEF BitMasksAgree
  <2>7. CASE fn = "BITS_LOW"
    <3>1. x[1] \in Int /\ x[2] \in Int
      BY <2>4, <2>7, ValuesAreInt
    <3>2. PICK m \in Int, a \in Int : m = x[1] /\ a = x[2]
      BY <3>1
    <3>3. result.passed <=> \A k \in Places : Bit(m, k) = 1 => Bit(a, k) = 0
      BY <2>4, <2>7, <3>2, BitsDecide
    <3>4. AssertBits(m, 0, a).passed
             <=> \A k \in Places : Bit(m, k) = 1 => Bit(0, k) = Bit(a, k)
      BY BitsDecide
    <3>5. result.passed <=> AssertBits(m, 0, a).passed
      BY <3>3, <3>4, PlaceBits
    <3> QED
      BY <2>2, <2>3, <2>7, <3>2, <3>5 DEF BitMasksAgree
  <2>8. CASE fn \notin {"BITS", "BITS_HIGH", "BITS_LOW"}
    BY <2>3, <2>8 DEF BitMasksAgree
  <2> QED
    BY <2>5, <2>6, <2>7, <2>8
<1> QED
  BY <1>1, CallsAnswered, PTL

-----------------------------------------------------------------------------
(* Texts of numbers.                                                       *)
Reads(f, base, s) ==
    /\ f \in [0 .. Len(s) -> Nat] /\ f[0] = 0
    /\ \A k \in 1 .. Len(s) : f[k] = base * f[k - 1] + s[k]

(* Number is a loop over the digits.                                       *)
LEMMA NumberIs ==
    ASSUME NEW base \in Nat, NEW s \in Seq(Nat)
    PROVE  \E f : Reads(f, base, s) /\ Number(base, s) = f[Len(s)]
<1>1. PICK n \in Nat : n = Len(s)
  BY LenProperties
<1>2. \A k \in 1 .. n : s[k] \in Nat
  BY <1>1, ElementOfSeq
<1>3. PICK turn : turn = [k \in 1 .. n |-> [v \in Nat |-> base * v + s[k]]]
  OBVIOUS
<1>4. turn \in [1 .. n -> [Nat -> Nat]]
  <2>1. ASSUME NEW k \in 1 .. n PROVE turn[k] \in [Nat -> Nat]
    <3>1. PICK d \in Nat : d = s[k]
      BY <1>2
    <3>2. turn[k] = [v \in Nat |-> base * v + d]
      BY <1>3, <3>1
    <3>3. ASSUME NEW v \in Nat PROVE base * v + d \in Nat
      <4>1. base * v \in Nat
        OBVIOUS
      <4> QED
        BY <4>1
    <3> QED
      BY <3>2, <3>3, Zenon
  <2> QED
    BY <1>3, <2>1
<1>5. PICK f \in [0 .. n -> Nat] : RunsUp(f, n, 0, turn)
  <2>1. 0 \in Nat
    OBVIOUS
  <2> QED
    BY <1>1, <1>4, <2>1, LoopUp, Zenon
<1> DEFINE Loop(g) == g = [k \in 0 .. n |-> IF k = 0 THEN 0 ELSE base * g[k - 1] + s[k]]
<1>6. Loop(f)
  <2>1. ASSUME NEW k \in 1 .. n PROVE f[k] = base * f[k - 1] + s[k]
    <3>1. f[k - 1] \in Nat
      BY <1>1, <1>5
    <3>2. f[k] = turn[k][f[k - 1]]
      BY <1>5 DEF RunsUp
    <3> QED
      BY <1>3, <3>1, <3>2
  <2>2. f[0] = 0
    BY <1>5 DEF RunsUp
  <2>3. \A k \in 0 .. n : f[k] = IF k = 0 THEN 0 ELSE base * f[k - 1] + s[k]
    <3>1. \A k \in 0 .. n : k = 0 \/ k \in 1 .. n
      BY <1>1
    <3> QED
      BY <2>1, <2>2, <3>1
  <2> QED
    BY <1>5, <2>3
<1>7. PICK g : g = CHOOSE h : Loop(h)
  OBVIOUS
<1>8. Loop(g)
  BY <1>6, <1>7
<1>9. Number(base, s) = g[n]
  BY <1>1, <1>7 DEF Number
<1>10. g[0] = 0 /\ \A k \in 1 .. n : g[k] = base * g[k - 1] + s[k]
  <2>1. g[0] = 0
    BY <1>1, <1>8
  <2>2. ASSUME NEW k \in 1 .. n PROVE g[k] = base * g[k - 1] + s[k]
    <3>1. k \in 0 .. n /\ k # 0
      BY <1>1
    <3> QED
      BY <1>8, <3>1
  <2> QED
    BY <2>1, <2>2
<1>11. g \in [0 .. n -> Nat]
  <2> DEFINE S == {k \in 0 .. n : g[k] \in Nat}
  <2>1. 0 \in S
    BY <1>1, <1>10
  <2>2. ASSUME NEW k \in 0 .. n - 1, k \in S PROVE k + 1 \in S
    <3>1. k + 1 \in 1 .. n /\ (k + 1) - 1 = k
      BY <1>1
    <3>2. PICK v \in Nat, d \in Nat : v = g[k] /\ d = s[k + 1]
      BY <1>2, <2>2, <3>1
    <3>3. g[k + 1] = base * v + d
      BY <1>10, <3>1, <3>2
    <3>4. base * v + d \in Nat
      OBVIOUS
    <3> QED
      BY <3>1, <3>3, <3>4
  <2>3. 0 .. n \subseteq S
    <3> HIDE DEF S
    <3> QED
      BY <1>1, <2>1, <2>2, Reaches
  <2> QED
    BY <1>8, <2>3
<1> QED
  BY <1>1, <1>9, <1>10, <1>11 DEF Reads

(* One digit more.                                                         *)
LEMMA NumberAppends ==
    ASSUME NEW base \in Nat, NEW s \in Seq(Nat), NEW d \in Nat
    PROVE  /\ Number(base, s) \in Nat
           /\ Number(base, Append(s, d)) = base * Number(base, s) + d
<1>1. PICK t : t = Append(s, d)
  OBVIOUS
<1>2. PICK n \in Nat : n = Len(s)
  BY LenProperties
<1>3. t \in Seq(Nat) /\ Len(t) = n + 1 /\ t[n + 1] = d /\ \A k \in 1 .. n : t[k] = s[k]
  BY <1>1, <1>2, AppendProperties
<1>4. PICK f : Reads(f, base, s) /\ Number(base, s) = f[n]
  BY <1>2, NumberIs
<1>5. PICK g : Reads(g, base, t) /\ Number(base, t) = g[n + 1]
  BY <1>3, NumberIs
<1>6. f \in [0 .. n -> Nat] /\ f[0] = 0 /\ \A k \in 1 .. n : f[k] = base * f[k - 1] + s[k]
  BY <1>2, <1>4 DEF Reads
<1>7. g \in [0 .. n + 1 -> Nat] /\ g[0] = 0 /\ \A k \in 1 .. n + 1 : g[k] = base * g[k - 1] + t[k]
  BY <1>3, <1>5 DEF Reads
<1> DEFINE S == {k \in 0 .. n : f[k] = g[k]}
<1>8. 0 \in S
  BY <1>2, <1>6, <1>7
<1>9. ASSUME NEW k \in 0 .. n - 1, k \in S PROVE k + 1 \in S
  <2>1. k + 1 \in 1 .. n /\ k + 1 \in 1 .. n + 1 /\ (k + 1) - 1 = k
    BY <1>2
  <2>2. f[k + 1] = base * f[k] + s[k + 1] /\ g[k + 1] = base * g[k] + t[k + 1]
    BY <1>6, <1>7, <2>1
  <2>3. t[k + 1] = s[k + 1]
    BY <1>3, <2>1
  <2> QED
    BY <1>9, <2>1, <2>2, <2>3
<1>10. 0 .. n \subseteq S
  <2> HIDE DEF S
  <2> QED
    BY <1>2, <1>8, <1>9, Reaches
<1>11. f[n] = g[n] /\ f[n] \in Nat
  BY <1>2, <1>6, <1>10
<1>12. g[n + 1] = base * g[n] + d
  <2>1. n + 1 \in 1 .. n + 1 /\ (n + 1) - 1 = n
    BY <1>2
  <2> QED
    BY <1>3, <1>7, <2>1
<1> QED
  BY <1>1, <1>4, <1>5, <1>11, <1>12

(* No digits denote 0.                                                     *)
LEMMA NumberOfNone == ASSUME NEW base \in Nat PROVE Number(base, <<>>) = 0
<1>1. <<>> \in Seq(Nat) /\ Len(<<>>) = 0
  BY EmptySeq
<1>2. PICK s : s = <<>>
  OBVIOUS
<1>3. PICK f : Reads(f, base, s) /\ Number(base, s) = f[Len(s)]
  BY <1>1, <1>2, NumberIs
<1> QED
  BY <1>1, <1>2, <1>3 DEF Reads

-----------------------------------------------------------------------------
(* Long division.                                                          *)
Turn(u, k, v) ==
    LET r == 2 * v.r + Bit(u, k)
    IN  IF r >= 10 THEN [q |-> v.q + PowerOf2[k], r |-> r - 10] ELSE [q |-> v.q, r |-> r]
Part == [q : Nat, r : 0 .. 9]

(* A turn keeps the remainder below ten.                                   *)
LEMMA TurnType ==
    ASSUME NEW u \in Int, NEW k \in 0 .. Bits(8) - 1, NEW v \in Part
    PROVE  Turn(u, k, v) \in Part
<1>1. PICK b \in {0, 1} : b = Bit(u, k)
  BY Halves
<1>2. PICK p \in Nat : p = PowerOf2[k]
  <2>1. k \in 0 .. Bits(8)
    BY SizeInBits DEF Sizes
  <2> QED
    BY <2>1, Powers
<1>3. PICK q \in Nat, r \in 0 .. 9 : q = v.q /\ r = v.r
  BY DEF Part
<1>4. Turn(u, k, v) = IF 2 * r + b >= 10 THEN [q |-> q + p, r |-> 2 * r + b - 10]
                      ELSE [q |-> q, r |-> 2 * r + b]
  BY <1>1, <1>2, <1>3 DEF Turn
<1>5. CASE 2 * r + b >= 10
  <2>1. 2 * r + b - 10 \in 0 .. 9 /\ q + p \in Nat
    BY <1>5
  <2> QED
    BY <1>4, <1>5, <2>1 DEF Part
<1>6. CASE ~(2 * r + b >= 10)
  <2>1. 2 * r + b \in 0 .. 9
    BY <1>6
  <2> QED
    BY <1>4, <1>6, <2>1 DEF Part
<1> QED
  BY <1>5, <1>6

(* The loop of pt_as_u64_div10 has its states.                             *)
LEMMA Div10Is ==
    ASSUME NEW u \in Int
    PROVE  \E f : /\ f[Bits(8)] = [q |-> 0, r |-> 0]
                  /\ \A k \in 0 .. Bits(8) - 1 : f[k] = Turn(u, k, f[k + 1])
                  /\ Div10(u) = f[0]
<1>1. PICK n \in Nat : n = Bits(8)
  BY SizeInBits DEF Sizes
<1>2. PICK zero : zero = [q |-> 0, r |-> 0]
  OBVIOUS
<1>3. PICK turn : turn = [k \in 0 .. n - 1 |-> [v \in Part |-> Turn(u, k, v)]]
  OBVIOUS
<1>4. turn \in [0 .. n - 1 -> [Part -> Part]]
  BY <1>1, <1>3, TurnType
<1>5. zero \in Part
  BY <1>2 DEF Part
<1>6. PICK f \in [0 .. n -> Part] : RunsDown(f, n, zero, turn)
  BY <1>1, <1>4, <1>5, LoopDown, Zenon
<1> DEFINE Loop(g) ==
       g = [bit \in 0 .. n |->
              IF bit = n THEN [q |-> 0, r |-> 0]
              ELSE LET prev == g[bit + 1]
                       r == 2 * prev.r + Bit(u, bit)
                   IN  IF r >= 10 THEN [q |-> prev.q + PowerOf2[bit], r |-> r - 10]
                       ELSE [q |-> prev.q, r |-> r]]
       Same(g) == g = [k \in 0 .. n |-> IF k = n THEN zero ELSE Turn(u, k, g[k + 1])]
<1>7. Same(f)
  <2>1. ASSUME NEW k \in 0 .. n - 1 PROVE f[k] = Turn(u, k, f[k + 1])
    <3>1. f[k + 1] \in Part
      BY <1>1, <1>6
    <3>2. f[k] = turn[k][f[k + 1]]
      BY <1>6 DEF RunsDown
    <3> QED
      BY <1>3, <3>1, <3>2
  <2>2. f[n] = zero
    BY <1>6 DEF RunsDown
  <2>3. \A k \in 0 .. n : f[k] = IF k = n THEN zero ELSE Turn(u, k, f[k + 1])
    <3>1. \A k \in 0 .. n : k = n \/ k \in 0 .. n - 1
      BY <1>1
    <3> QED
      BY <2>1, <2>2, <3>1
  <2> QED
    BY <1>6, <2>3
<1>8. \A g : Loop(g) <=> Same(g)
  BY <1>2 DEF Turn
<1>9. PICK g : g = CHOOSE h : Loop(h)
  OBVIOUS
<1>10. Same(g)
  <2> HIDE DEF Same, Loop
  <2>1. Loop(f)
    BY <1>7, <1>8
  <2>2. Loop(g)
    BY <1>9, <2>1
  <2> QED
    BY <1>8, <2>2
<1>11. Div10(u) = g[0]
  BY <1>1, <1>9 DEF Div10
<1>12. g[n] = zero /\ \A k \in 0 .. n - 1 : g[k] = Turn(u, k, g[k + 1])
  <2>1. g[n] = zero
    BY <1>1, <1>10
  <2>2. ASSUME NEW k \in 0 .. n - 1 PROVE g[k] = Turn(u, k, g[k + 1])
    <3>1. k \in 0 .. n /\ k # n
      BY <1>1
    <3> QED
      BY <1>10, <3>1
  <2> QED
    BY <2>1, <2>2
<1> QED
  BY <1>1, <1>2, <1>11, <1>12

(* What is left of u from bit k on, divided by ten so far.                 *)
Divided(u, k, v) ==
    \E q \in Nat : v.q = q * PowerOf2[k] /\ u \div PowerOf2[k] = 10 * q + v.r

(* A turn brings the next bit down.                                        *)
LEMMA TurnDivides ==
    ASSUME NEW u \in Int, NEW k \in 0 .. Bits(8) - 1, NEW v \in Part, Divided(u, k + 1, v)
    PROVE  Divided(u, k, Turn(u, k, v))
<1>1. Bits(8) \in Nat
  BY SizeInBits DEF Sizes
<1>2. k \in 0 .. Bits(8) /\ k + 1 \in 1 .. Bits(8) /\ (k + 1) - 1 = k
  BY <1>1
<1>3. PICK p \in Nat : p = PowerOf2[k] /\ PowerOf2[k + 1] = 2 * p
  BY <1>2, Powers
<1>4. PICK b \in {0, 1}, y \in Int, z \in Int :
        b = Bit(u, k) /\ y = u \div PowerOf2[k] /\ z = u \div PowerOf2[k + 1] /\ y = 2 * z + b
  <2>1. PICK b : b = Bit(u, k)
    OBVIOUS
  <2>2. PICK y, z : y = u \div PowerOf2[k] /\ z = u \div PowerOf2[k + 1]
    OBVIOUS
  <2>3. b \in {0, 1} /\ y \in Int /\ z \in Int /\ y = 2 * z + b
    BY <2>1, <2>2, Halves, Zenon
  <2> QED
    BY <2>1, <2>2, <2>3, Zenon
<1>5. PICK q \in Nat, r \in 0 .. 9 : q = v.q /\ r = v.r
  BY DEF Part
<1>6. PICK i \in Nat : q = i * (2 * p) /\ z = 10 * i + r
  BY <1>3, <1>4, <1>5 DEF Divided
<1>7. Turn(u, k, v) = IF 2 * r + b >= 10 THEN [q |-> q + p, r |-> 2 * r + b - 10]
                      ELSE [q |-> q, r |-> 2 * r + b]
  BY <1>3, <1>4, <1>5 DEF Turn
<1>8. CASE 2 * r + b >= 10
  <2>1. Turn(u, k, v) = [q |-> q + p, r |-> 2 * r + b - 10]
    BY <1>7, <1>8
  <2>2. q + p = (2 * i + 1) * p
    BY <1>6
  <2>3. y = 10 * (2 * i + 1) + (2 * r + b - 10)
    BY <1>4, <1>6
  <2>4. 2 * i + 1 \in Nat
    OBVIOUS
  <2> QED
    BY <1>3, <1>4, <2>1, <2>2, <2>3, <2>4 DEF Divided
<1>9. CASE ~(2 * r + b >= 10)
  <2>1. Turn(u, k, v) = [q |-> q, r |-> 2 * r + b]
    BY <1>7, <1>9
  <2>2. q = (2 * i) * p
    BY <1>6
  <2>3. y = 10 * (2 * i) + (2 * r + b)
    BY <1>4, <1>6
  <2>4. 2 * i \in Nat
    OBVIOUS
  <2> QED
    BY <1>3, <1>4, <2>1, <2>2, <2>3, <2>4 DEF Divided
<1> QED
  BY <1>8, <1>9

(* pt_as_u64_div10 divides by ten.                                         *)
LEMMA DividesByTen ==
    ASSUME NEW u \in 0 .. Modulus(8) - 1
    PROVE  /\ Div10(u).q \in Nat /\ Div10(u).r \in 0 .. 9
           /\ u = 10 * Div10(u).q + Div10(u).r
<1>1. PICK n \in Nat : n = Bits(8)
  BY SizeInBits DEF Sizes
<1>2. n \in 0 .. Bits(8) /\ u \in 0 .. PowerOf2[n] - 1
  BY <1>1 DEF Modulus
<1>3. PowerOf2[n] \in Nat
  BY <1>2, Powers
<1>4. u \in Nat
  BY <1>2, <1>3
<1>5. PICK f : /\ f[n] = [q |-> 0, r |-> 0]
               /\ \A k \in 0 .. n - 1 : f[k] = Turn(u, k, f[k + 1])
               /\ Div10(u) = f[0]
  BY <1>1, <1>4, Div10Is
<1> DEFINE Good(k) == f[k] \in Part /\ Divided(u, k, f[k])
           S == {i \in 0 .. n : Good(n - i)}
<1>6. 0 \in S
  <2>1. f[n] \in Part
    BY <1>5 DEF Part
  <2>2. Divided(u, n, f[n])
    <3>1. u \div PowerOf2[n] = 0
      BY <1>2, ShiftEnds
    <3>2. PICK p \in Nat : p = PowerOf2[n]
      BY <1>3
    <3>3. 0 = 0 * p /\ 0 = 10 * 0 + 0
      OBVIOUS
    <3> QED
      BY <1>5, <3>1, <3>2, <3>3 DEF Divided
  <2>3. n - 0 = n /\ 0 \in 0 .. n
    BY <1>1
  <2> QED
    BY <2>1, <2>2, <2>3
<1>7. ASSUME NEW i \in 0 .. n - 1, i \in S PROVE i + 1 \in S
  <2>1. PICK k \in 0 .. n - 1 : k = n - (i + 1) /\ k + 1 = n - i
    BY <1>1
  <2>2. Good(k + 1)
    BY <1>7, <2>1
  <2>3. f[k] = Turn(u, k, f[k + 1])
    BY <1>5, <2>1
  <2>4. k \in 0 .. Bits(8) - 1
    BY <1>1, <2>1
  <2>5. Good(k)
    BY <1>4, <2>2, <2>3, <2>4, TurnType, TurnDivides
  <2>6. i + 1 \in 0 .. n
    BY <1>1
  <2> QED
    BY <2>1, <2>5, <2>6
<1>8. Good(0)
  <2>1. 0 .. n \subseteq S
    <3> HIDE DEF S
    <3> QED
      BY <1>6, <1>7, Reaches
  <2>2. n \in 0 .. n /\ n - n = 0
    BY <1>1
  <2>3. n \in S
    BY <2>1, <2>2
  <2> QED
    BY <2>2, <2>3
<1>9. PICK q \in Nat, r \in 0 .. 9 : q = f[0].q /\ r = f[0].r
  BY <1>8 DEF Part
<1>10. PICK i \in Nat : q = i * 1 /\ u = 10 * i + r
  <2>1. PowerOf2[0] = 1 /\ u \div PowerOf2[0] = u
    BY <1>2, <1>4, Powers, ShiftEnds
  <2> QED
    BY <1>8, <1>9, <2>1 DEF Divided
<1> QED
  BY <1>5, <1>9, <1>10

-----------------------------------------------------------------------------
(* Decimal digits.                                                         *)

(* The digits of the numbers up to n.                                      *)
Digits(g, n) ==
    /\ g \in [0 .. n -> Seq(0 .. 9)]
    /\ \A v \in 0 .. n : g[v] = IF v = 0 THEN <<>> ELSE Append(g[Div10(v).q], Div10(v).r)

(* A tenth of a number is less than the number.                            *)
LEMMA Tenth ==
    ASSUME NEW v \in 1 .. Modulus(8) - 1
    PROVE  Div10(v).q \in 0 .. v - 1 /\ Div10(v).r \in 0 .. 9
<1>1. Modulus(8) \in Nat /\ v \in 0 .. Modulus(8) - 1 /\ v \in Nat /\ v >= 1
  <2>1. Modulus(8) \in Nat
    BY ModulusIsEven DEF Sizes
  <2> QED
    BY <2>1
<1>2. PICK q \in Nat, r \in 0 .. 9 : q = Div10(v).q /\ r = Div10(v).r /\ v = 10 * q + r
  BY <1>1, DividesByTen
<1>3. q \in 0 .. v - 1
  BY <1>1, <1>2
<1> QED
  BY <1>2, <1>3

(* Each number has digits.                                                 *)
LEMMA HasDigits ==
    ASSUME NEW n \in 0 .. Modulus(8) - 1
    PROVE  \E g : Digits(g, n)
<1>1. Modulus(8) \in Nat /\ n \in Nat
  <2>1. Modulus(8) \in Nat
    BY ModulusIsEven DEF Sizes
  <2> QED
    BY <2>1
<1> DEFINE S == {m \in 0 .. n : \E g : Digits(g, m)}
<1>2. 0 \in S
  <2>1. PICK g : g = [v \in 0 .. 0 |-> <<>>]
    OBVIOUS
  <2>2. <<>> \in Seq(0 .. 9)
    BY EmptySeq
  <2>3. g \in [0 .. 0 -> Seq(0 .. 9)]
    BY <2>1, <2>2
  <2>4. \A v \in 0 .. 0 : v = 0 /\ g[v] = <<>>
    BY <2>1
  <2>5. Digits(g, 0)
    BY <2>3, <2>4 DEF Digits
  <2> QED
    BY <1>1, <2>5
<1>3. ASSUME NEW m \in 0 .. n - 1, m \in S PROVE m + 1 \in S
  <2>1. PICK g : Digits(g, m)
    BY <1>3
  <2>2. PICK w : w = m + 1
    OBVIOUS
  <2>3. w \in 1 .. Modulus(8) - 1 /\ w - 1 = m /\ w \in 0 .. n /\ w # 0
    BY <1>1, <2>2
  <2>4. PICK q \in 0 .. m, r \in 0 .. 9 : q = Div10(w).q /\ r = Div10(w).r
    BY <2>3, Tenth
  <2>5. PICK s \in Seq(0 .. 9) : s = Append(g[q], r)
    <3>1. g[q] \in Seq(0 .. 9)
      BY <2>1, <2>4 DEF Digits
    <3> QED
      BY <2>4, <3>1, AppendProperties
  <2>6. PICK h : h = [v \in 0 .. w |-> IF v = w THEN s ELSE g[v]]
    OBVIOUS
  <2>7. \A v \in 0 .. w : v = w \/ v \in 0 .. m
    BY <2>2
  <2>8. h[w] = s /\ \A v \in 0 .. m : h[v] = g[v] /\ v # w
    BY <2>2, <2>3, <2>6
  <2>9. h \in [0 .. w -> Seq(0 .. 9)]
    <3>1. \A v \in 0 .. m : g[v] \in Seq(0 .. 9)
      BY <2>1 DEF Digits
    <3> QED
      BY <2>5, <2>6, <2>7, <3>1
  <2>10. ASSUME NEW v \in 0 .. m
         PROVE  h[v] = IF v = 0 THEN <<>> ELSE Append(h[Div10(v).q], Div10(v).r)
    <3>1. g[v] = IF v = 0 THEN <<>> ELSE Append(g[Div10(v).q], Div10(v).r)
      BY <2>1 DEF Digits
    <3>2. ASSUME v # 0 PROVE h[Div10(v).q] = g[Div10(v).q]
      <4>1. v \in 1 .. Modulus(8) - 1
        BY <1>1, <2>3, <3>2
      <4>2. Div10(v).q \in 0 .. v - 1
        BY <4>1, Tenth
      <4>3. Div10(v).q \in 0 .. m
        BY <4>2
      <4> QED
        BY <2>8, <4>3
    <3> QED
      BY <2>8, <3>1, <3>2
  <2>11. h[w] = Append(h[Div10(w).q], Div10(w).r)
    BY <2>4, <2>5, <2>8
  <2>12. Digits(h, w)
    BY <2>3, <2>7, <2>9, <2>10, <2>11 DEF Digits
  <2> QED
    BY <2>2, <2>3, <2>12
<1>4. n \in S
  <2> HIDE DEF S
  <2>1. 0 .. n \subseteq S
    BY <1>1, <1>2, <1>3, Reaches
  <2> QED
    BY <1>1, <2>1
<1> QED
  BY <1>4

(* The digits of a number denote it.                                       *)
LEMMA DigitsDenote ==
    ASSUME NEW n \in 0 .. Modulus(8) - 1, NEW g, Digits(g, n), NEW v \in 0 .. n
    PROVE  g[v] \in Seq(Nat) /\ Number(10, g[v]) = v
<1>1. Modulus(8) \in Nat /\ n \in Nat
  <2>1. Modulus(8) \in Nat
    BY ModulusIsEven DEF Sizes
  <2> QED
    BY <2>1
<1> DEFINE Bad == {w \in 0 .. n : ~(g[w] \in Seq(Nat) /\ Number(10, g[w]) = w)}
<1>2. ASSUME Bad # {} PROVE FALSE
  <2>1. PICK w \in Bad : \A x \in Bad : w <= x
    <3>1. Bad \subseteq Nat
      OBVIOUS
    <3> QED
      BY <1>2, <3>1, LeastNumber
  <2>2. g[w] = IF w = 0 THEN <<>> ELSE Append(g[Div10(w).q], Div10(w).r)
    BY <2>1 DEF Digits
  <2>3. CASE w = 0
    <3>1. g[w] = <<>>
      BY <2>2, <2>3
    <3>2. Number(10, <<>>) = 0 /\ <<>> \in Seq(Nat)
      BY NumberOfNone, EmptySeq
    <3> QED
      BY <2>1, <2>3, <3>1, <3>2
  <2>4. CASE w # 0
    <3>1. w \in 1 .. Modulus(8) - 1 /\ w \in 0 .. Modulus(8) - 1
      BY <1>1, <2>1, <2>4
    <3>2. PICK q \in 0 .. w - 1, r \in 0 .. 9 : q = Div10(w).q /\ r = Div10(w).r
      BY <3>1, Tenth
    <3>3. w = 10 * q + r
      BY <3>1, <3>2, DividesByTen
    <3>4. q \in 0 .. n /\ q \notin Bad
      BY <1>1, <2>1, <3>2
    <3>5. PICK s \in Seq(Nat) : s = g[q] /\ Number(10, s) = q
      BY <3>4
    <3>6. g[w] = Append(s, r)
      BY <2>2, <2>4, <3>2, <3>5
    <3>7. Append(s, r) \in Seq(Nat)
      <4>1. r \in Nat
        BY <3>2
      <4> QED
        BY <3>5, <4>1, AppendProperties
    <3>8. Number(10, Append(s, r)) = 10 * Number(10, s) + r
      <4>1. 10 \in Nat /\ r \in Nat
        BY <3>2
      <4> QED
        BY <3>5, <4>1, NumberAppends, Zenon
    <3> QED
      BY <2>1, <3>3, <3>5, <3>6, <3>7, <3>8
  <2> QED
    BY <2>3, <2>4
<1> QED
  BY <1>2

(* pt_as_append_u64 prints the number.                                     *)
LEMMA DecimalDenotes ==
    ASSUME NEW u \in 0 .. Modulus(8) - 1
    PROVE  Number(10, Decimal(u)) = u
<1>1. Modulus(8) \in Nat /\ u \in Nat
  <2>1. Modulus(8) \in Nat
    BY ModulusIsEven DEF Sizes
  <2> QED
    BY <2>1
<1>2. CASE u = 0
  <2>1. Decimal(u) = <<0>>
    BY <1>2 DEF Decimal
  <2>2. <<0>> = Append(<<>>, 0)
    OBVIOUS
  <2>3. <<>> \in Seq(Nat) /\ Number(10, <<>>) = 0
    BY NumberOfNone, EmptySeq
  <2>4. Number(10, Append(<<>>, 0)) = 10 * 0 + 0
    <3>1. 10 \in Nat /\ 0 \in Nat
      OBVIOUS
    <3>2. Number(10, Append(<<>>, 0)) = 10 * Number(10, <<>>) + 0
      BY <2>3, <3>1, NumberAppends, Zenon
    <3> QED
      BY <2>3, <3>2
  <2> QED
    BY <1>2, <2>1, <2>2, <2>4
<1>3. CASE u # 0
  <2> DEFINE Loop(g) == g = [v \in 0 .. u |-> IF v = 0 THEN <<>>
                                              ELSE Append(g[Div10(v).q], Div10(v).r)]
  <2>1. PICK f : Digits(f, u)
    BY HasDigits
  <2>2. Loop(f)
    BY <2>1 DEF Digits
  <2>3. PICK g : g = CHOOSE h : Loop(h)
    OBVIOUS
  <2>4. Loop(g)
    BY <2>2, <2>3
  <2>5. Decimal(u) = g[u]
    BY <1>3, <2>3 DEF Decimal
  <2>6. \A v \in 0 .. u : g[v] = IF v = 0 THEN <<>> ELSE Append(g[Div10(v).q], Div10(v).r)
    BY <2>4
  <2>7. \A v \in 0 .. u : g[v] = f[v]
    <3> DEFINE Bad == {v \in 0 .. u : g[v] # f[v]}
    <3>1. ASSUME Bad # {} PROVE FALSE
      <4>1. PICK w \in Bad : \A x \in Bad : w <= x
        <5>1. Bad \subseteq Nat
          OBVIOUS
        <5> QED
          BY <3>1, <5>1, LeastNumber
      <4>2. f[w] = IF w = 0 THEN <<>> ELSE Append(f[Div10(w).q], Div10(w).r)
        BY <2>1, <4>1 DEF Digits
      <4>3. w # 0
        BY <2>6, <4>1, <4>2
      <4>4. w \in 1 .. Modulus(8) - 1
        BY <1>1, <4>1, <4>3
      <4>5. Div10(w).q \in 0 .. w - 1
        BY <4>4, Tenth
      <4>6. Div10(w).q \in 0 .. u /\ Div10(w).q \notin Bad
        BY <1>1, <4>1, <4>5
      <4>7. g[Div10(w).q] = f[Div10(w).q]
        BY <4>6
      <4> QED
        BY <2>6, <4>1, <4>2, <4>3, <4>7
    <3> QED
      BY <3>1
  <2>8. u \in 0 .. u
    BY <1>1
  <2>9. Number(10, f[u]) = u
    BY <2>1, <2>8, DigitsDenote
  <2> QED
    BY <2>5, <2>7, <2>8, <2>9
<1> QED
  BY <1>2, <1>3

-----------------------------------------------------------------------------
(* Texts.                                                                  *)
Denoted(text, base) == text.sign * Number(base, text.digits)

(* What fits the modulus is kept by a conversion to unsigned.              *)
LEMMA UnsignedKeeps ==
    ASSUME NEW size \in Sizes, NEW u \in 0 .. Modulus(size) - 1
    PROVE  Unsigned(size, u) = u
<1>1. PICK m \in Nat \ {0} : m = Modulus(size)
  BY ModulusIsEven
<1>2. u \in Int /\ u = 0 * m + u /\ u \in 0 .. m - 1 /\ 0 \in Int
  BY <1>1
<1>3. u % m = u
  BY <1>2, OnlyRemainder
<1> QED
  BY <1>1, <1>3 DEF Unsigned

(* pt_as_append_u64.                                                       *)
LEMMA UnsignedText ==
    ASSUME NEW u \in 0 .. Modulus(8) - 1
    PROVE  Denoted(TextU64(u), 10) = u
<1>1. Number(10, Decimal(u)) = u
  BY DecimalDenotes
<1>2. u \in Int
  <2>1. Modulus(8) \in Nat
    BY ModulusIsEven DEF Sizes
  <2> QED
    BY <2>1
<1>3. TextU64(u).sign = 1 /\ TextU64(u).digits = Decimal(u)
  BY DEF TextU64
<1> QED
  BY <1>1, <1>2, <1>3 DEF Denoted

(* pt_as_append_i64, for the least integer too.                            *)
LEMMA SignedText ==
    ASSUME NEW v \in IntRange(8)
    PROVE  Denoted(TextI64(v), 10) = v
<1>1. PICK h \in Nat \ {0} : h = Half(8) /\ Modulus(8) = 2 * h /\ 8 \in Sizes
  BY ModulusIsEven DEF Sizes
<1>2. v \in -h .. h - 1
  BY <1>1 DEF IntRange
<1>3. CASE v < 0
  <2>1. PICK w \in 0 .. h - 1 : w = -(v + 1) /\ w + 1 = -v
    BY <1>2, <1>3
  <2>2. Signed(8, w) = w
    BY <1>1, <2>1, SignedInRange DEF IntRange
  <2>3. w + 1 \in 0 .. Modulus(8) - 1
    BY <1>1, <2>1
  <2>4. Unsigned(8, w + 1) = w + 1
    BY <1>1, <2>3, UnsignedKeeps
  <2>5. Number(10, Decimal(w + 1)) = w + 1
    BY <2>3, DecimalDenotes
  <2>6. TextI64(v).sign = -1 /\ TextI64(v).digits = Decimal(w + 1)
    BY <1>3, <2>1, <2>2, <2>4 DEF TextI64
  <2> QED
    BY <1>2, <2>1, <2>5, <2>6 DEF Denoted
<1>4. CASE ~(v < 0)
  <2>1. v \in 0 .. Modulus(8) - 1
    BY <1>1, <1>2, <1>4
  <2>2. Number(10, Decimal(v)) = v
    BY <2>1, DecimalDenotes
  <2>3. TextI64(v).sign = 1 /\ TextI64(v).digits = Decimal(v)
    BY <1>4 DEF TextI64
  <2> QED
    BY <1>2, <2>2, <2>3 DEF Denoted
<1> QED
  BY <1>3, <1>4

(* One digit in base h of what is left above a power.                      *)
LEMMA NextDigit ==
    ASSUME NEW u \in Int, NEW p \in Nat \ {0}, NEW h \in Nat \ {0},
           NEW m \in Nat \ {0}, m = p * h
    PROVE  u \div p = h * (u \div m) + ((u \div p) % h)
<1>1. PICK y \in Int, r \in 0 .. p - 1 : y = u \div p /\ u = y * p + r
  <2>1. u = (u \div p) * p + (u % p) /\ u % p \in 0 .. p - 1 /\ u \div p \in Int
    OBVIOUS
  <2> QED
    BY <2>1
<1>2. PICK z \in Int, s \in 0 .. h - 1 : z = y \div h /\ s = y % h /\ y = z * h + s
  <2>1. y = (y \div h) * h + (y % h) /\ y % h \in 0 .. h - 1 /\ y \div h \in Int
    OBVIOUS
  <2> QED
    BY <2>1
<1>3. u = z * m + (s * p + r)
  <2>1. u = (z * h + s) * p + r
    BY <1>1, <1>2
  <2>2. (z * h + s) * p = z * (p * h) + s * p
    OBVIOUS
  <2> QED
    BY <2>1, <2>2
<1>4. s * p + r \in 0 .. m - 1
  <2>1. PICK t \in Nat : t = h - 1 - s
    BY <1>2
  <2>2. h = t + s + 1
    BY <2>1
  <2>3. m = t * p + s * p + p
    BY <2>2
  <2>4. t * p \in Nat /\ s * p \in Nat
    OBVIOUS
  <2> QED
    BY <2>3, <2>4
<1>5. u \div m = z
  BY <1>3, <1>4, OnlyRemainder
<1>6. y = h * z + s
  BY <1>2
<1> QED
  BY <1>1, <1>2, <1>5, <1>6

(* pt_as_append_hex, if there are digits enough.                           *)
LEMMA HexText ==
    ASSUME NEW n \in 1 .. 16, NEW u \in 0 .. PowerOf2[n * NibbleBits] - 1
    PROVE  Denoted(TextHex(u, n), HexBase) = u
<1>1. PICK b \in Nat : b = NibbleBits /\ b > 0 /\ Bits(8) = 16 * b
  BY NibbleSize, SizeInBits DEF Sizes
<1>2. ASSUME NEW i \in 0 .. 16 PROVE i * b \in 0 .. Bits(8)
  BY <1>1
<1>3. PICK h \in Nat \ {0} : h = HexBase /\ h = PowerOf2[b]
  <2>1. b \in 0 .. Bits(8)
    BY <1>1
  <2> QED
    BY <1>1, <2>1, Powers DEF HexBase
<1>4. PICK s : s = [k \in 1 .. n |-> (u \div PowerOf2[(n - k) * b]) % h]
  OBVIOUS
<1>5. TextHex(u, n).sign = 1 /\ TextHex(u, n).digits = s
  BY <1>1, <1>3, <1>4 DEF TextHex
<1>6. u \in Nat
  <2>1. n \in 0 .. 16
    OBVIOUS
  <2>2. PowerOf2[n * b] \in Nat
    BY <1>2, <2>1, Powers
  <2> QED
    BY <1>1, <2>2
<1>7. ASSUME NEW k \in 0 .. n
      PROVE  PowerOf2[(n - k) * b] \in Nat \ {0} /\ u \div PowerOf2[(n - k) * b] \in Int
  <2>1. n - k \in 0 .. 16
    OBVIOUS
  <2>2. PICK p \in Nat \ {0} : p = PowerOf2[(n - k) * b]
    BY <1>2, <2>1, Powers
  <2> QED
    BY <1>6, <2>2
<1>8. ASSUME NEW k \in 1 .. n
      PROVE  /\ s[k] \in Nat
             /\ u \div PowerOf2[(n - k) * b] = h * (u \div PowerOf2[(n - (k - 1)) * b]) + s[k]
  <2>1. PICK i \in 0 .. 15 : i = n - k /\ i + 1 = n - (k - 1) /\ i + 1 \in 0 .. 16 /\ i \in 0 .. 16
    OBVIOUS
  <2>2. PICK j \in Nat : /\ j = i * b /\ (i + 1) * b = j + b
                         /\ j \in 0 .. Bits(8) /\ j + b \in 0 .. Bits(8)
    <3>1. (i + 1) * b = i * b + b
      OBVIOUS
    <3>2. i * b \in 0 .. Bits(8) /\ (i + 1) * b \in 0 .. Bits(8)
      BY <1>2, <2>1
    <3> QED
      BY <3>1, <3>2
  <2>3. PICK p \in Nat \ {0}, m \in Nat \ {0} : p = PowerOf2[j] /\ m = PowerOf2[j + b]
    BY <2>2, Powers
  <2>4. m = p * h
    BY <1>1, <1>3, <2>2, <2>3, PowersMultiply
  <2>5. s[k] = (u \div p) % h
    BY <1>4, <2>1, <2>2, <2>3
  <2>6. u \div p = h * (u \div m) + ((u \div p) % h)
    <3>1. u \in Int
      BY <1>6
    <3> QED
      BY <2>4, <3>1, NextDigit, Zenon
  <2>7. (u \div p) % h \in Nat
    <3>1. u \div p \in Int
      BY <1>6
    <3> QED
      BY <3>1
  <2> QED
    BY <2>1, <2>2, <2>3, <2>5, <2>6, <2>7
<1>9. s \in Seq(Nat) /\ Len(s) = n
  <2>1. s = [k \in 1 .. n |-> s[k]]
    BY <1>4
  <2>2. s \in [1 .. n -> Nat]
    BY <1>8, <2>1
  <2>3. n \in Nat
    OBVIOUS
  <2> QED
    BY <2>2, <2>3
<1>10. PICK f : Reads(f, h, s) /\ Number(h, s) = f[n]
  BY <1>9, NumberIs
<1>11. f \in [0 .. n -> Nat] /\ f[0] = 0 /\ \A k \in 1 .. n : f[k] = h * f[k - 1] + s[k]
  BY <1>9, <1>10 DEF Reads
<1> DEFINE S == {k \in 0 .. n : f[k] = u \div PowerOf2[(n - k) * b]}
<1>12. 0 \in S
  <2>1. n \in 0 .. 16 /\ n - 0 = n /\ 0 \in 0 .. n
    OBVIOUS
  <2>2. n * b \in 0 .. Bits(8)
    BY <1>2, <2>1
  <2>3. u \div PowerOf2[n * b] = 0
    BY <1>1, <2>2, ShiftEnds
  <2> QED
    BY <1>11, <2>1, <2>3
<1>13. ASSUME NEW k \in 0 .. n - 1, k \in S PROVE k + 1 \in S
  <2>1. PICK l \in 1 .. n : l = k + 1 /\ l - 1 = k /\ l \in 0 .. n
    OBVIOUS
  <2>2. PICK y \in Int, z \in Int : /\ y = u \div PowerOf2[(n - l) * b]
                                    /\ z = u \div PowerOf2[(n - k) * b]
    <3>1. k \in 0 .. n
      OBVIOUS
    <3>2. u \div PowerOf2[(n - l) * b] \in Int /\ u \div PowerOf2[(n - k) * b] \in Int
      BY <1>7, <2>1, <3>1, Zenon
    <3> QED
      BY <3>2, Zenon
  <2>3. y = h * z + s[l]
    BY <1>8, <2>1, <2>2
  <2>4. f[l] = h * f[k] + s[l] /\ f[k] = z
    BY <1>11, <1>13, <2>1, <2>2
  <2>5. f[l] = y
    BY <2>3, <2>4
  <2> QED
    BY <2>1, <2>2, <2>5
<1>14. f[n] = u
  <2>1. 0 .. n \subseteq S
    <3>1. n \in Nat
      OBVIOUS
    <3> HIDE DEF S
    <3> QED
      BY <1>12, <1>13, <3>1, Reaches
  <2>2. n \in 0 .. n /\ (n - n) * b = 0
    BY <1>1
  <2>3. f[n] = u \div PowerOf2[0]
    BY <2>1, <2>2
  <2>4. u \div PowerOf2[0] = u
    BY <1>2, <1>6, ShiftEnds, 0 \in 0 .. Bits(8), <1>1
  <2> QED
    BY <2>3, <2>4
<1> QED
  BY <1>3, <1>5, <1>6, <1>10, <1>14 DEF Denoted

(* The smaller types are within the largest.                               *)
LEMMA TypesFit ==
    ASSUME NEW size \in Sizes
    PROVE  /\ IntRange(size) \subseteq IntRange(8)
           /\ 0 .. Modulus(size) - 1 \subseteq 0 .. Modulus(8) - 1
           /\ \A x \in Int : Unsigned(size, x) \in 0 .. Modulus(size) - 1
<1>1. 8 \in Sizes
  BY DEF Sizes
<1>2. PICK k \in Nat, n \in Nat : k = Bits(size) /\ n = Bits(8) - Bits(size) /\ k + n = Bits(8)
                                  /\ k \in 0 .. Bits(8) /\ n \in 0 .. Bits(8)
  BY SizeInBits
<1>3. PICK p \in Nat \ {0}, q \in Nat \ {0} : p = PowerOf2[k] /\ q = PowerOf2[n]
  BY <1>2, Powers
<1>4. Modulus(8) = p * q /\ Modulus(size) = p
  BY <1>2, <1>3, SizeInBits, PowersMultiply DEF Modulus
<1>5. p * q >= p
  OBVIOUS
<1>6. PICK h \in Nat \ {0}, g \in Nat \ {0} :
        h = Half(8) /\ g = Half(size) /\ Modulus(8) = 2 * h /\ Modulus(size) = 2 * g
  BY <1>1, ModulusIsEven
<1>7. g <= h
  BY <1>4, <1>5, <1>6
<1>8. ASSUME NEW x \in Int PROVE Unsigned(size, x) \in 0 .. Modulus(size) - 1
  BY <1>3, <1>4, Remainder DEF Unsigned
<1> QED
  BY <1>6, <1>7, <1>8 DEF IntRange

(* The number that the k-th text of a failure denotes.                     *)
ShownIn(r, base, k) == Denoted(r.shown[k], base)

(* A failed check shows what it was given to show.                         *)
LEMMA CheckShows ==
    ASSUME NEW passed, NEW shown, ~Check(passed, shown).passed
    PROVE  ~passed /\ Check(passed, shown).shown = shown
BY DEF Check

(* Conversions end in the range of the widest type.                        *)
LEMMA SignedIsText ==
    ASSUME NEW size \in Sizes, NEW x \in Int
    PROVE  Denoted(TextI64(Signed(size, x)), 10) = Signed(size, x)
<1>1. Signed(size, x) \in IntRange(8)
  BY SignedInRange, TypesFit
<1> QED
  BY <1>1, SignedText

(* The same for unsigned numbers, in both bases.                           *)
LEMMA UnsignedIsText ==
    ASSUME NEW size \in Sizes, NEW x \in Int
    PROVE  /\ Denoted(TextU64(Unsigned(size, x)), 10) = Unsigned(size, x)
           /\ Denoted(TextHex(Unsigned(size, x), 2 * size), HexBase) = Unsigned(size, x)
<1>1. PICK u : u = Unsigned(size, x)
  OBVIOUS
<1>2. u \in 0 .. Modulus(size) - 1 /\ u \in 0 .. Modulus(8) - 1
  BY <1>1, TypesFit
<1>3. Denoted(TextU64(u), 10) = u
  BY <1>2, UnsignedText
<1>4. 2 * size \in 1 .. 16
  BY DEF Sizes
<1>5. u \in 0 .. PowerOf2[(2 * size) * NibbleBits] - 1
  BY <1>2 DEF Modulus, Bits
<1>6. Denoted(TextHex(u, 2 * size), HexBase) = u
  BY <1>4, <1>5, HexText
<1> QED
  BY <1>1, <1>3, <1>6

(* What the equality asserts show.                                         *)
EqualText(macro, x) ==
    CASE macro.type = "INT"  -> TextI64(x)
      [] macro.type = "UINT" -> TextU64(x)
      [] macro.type = "HEX"  -> TextHex(x, 2 * macro.size)
EqualBase(macro) == IF macro.type = "HEX" THEN HexBase ELSE 10

(* Each text of an equality assert denotes its argument.                   *)
LEMMA EqualTextIs ==
    ASSUME NEW macro \in EqualMacros, NEW x \in Int
    PROVE  Denoted(EqualText(macro, Narrow(macro, x)), EqualBase(macro)) = Narrow(macro, x)
<1>1. PICK size \in Sizes : /\ size = IF macro.size = 0 THEN 8 ELSE macro.size
                            /\ macro.type = "HEX" => size = macro.size
  BY DEF EqualMacros, Sizes
<1>2. macro.type \in {"INT", "UINT", "HEX"}
  BY DEF EqualMacros
<1>3. CASE macro.type = "INT"
  <2>1. Narrow(macro, x) = Signed(size, x)
    BY <1>1, <1>3 DEF Narrow
  <2>2. \A y : EqualText(macro, y) = TextI64(y)
    BY <1>3 DEF EqualText
  <2>3. EqualBase(macro) = 10
    BY <1>3 DEF EqualBase
  <2> QED
    BY <2>1, <2>2, <2>3, SignedIsText
<1>4. CASE macro.type = "UINT"
  <2>1. Narrow(macro, x) = Unsigned(size, x)
    BY <1>1, <1>4 DEF Narrow
  <2>2. \A y : EqualText(macro, y) = TextU64(y)
    BY <1>4 DEF EqualText
  <2>3. EqualBase(macro) = 10
    BY <1>4 DEF EqualBase
  <2> QED
    BY <2>1, <2>2, <2>3, UnsignedIsText
<1>5. CASE macro.type = "HEX"
  <2>1. Narrow(macro, x) = Unsigned(size, x)
    BY <1>1, <1>5 DEF Narrow
  <2>2. \A y : EqualText(macro, y) = TextHex(y, 2 * size)
    BY <1>1, <1>5 DEF EqualText
  <2>3. EqualBase(macro) = HexBase
    BY <1>5 DEF EqualBase
  <2> QED
    BY <2>1, <2>2, <2>3, UnsignedIsText
<1> QED
  BY <1>2, <1>3, <1>4, <1>5

(* An equality assert that fails shows two different numbers.              *)
LEMMA EqualShows ==
    ASSUME NEW macro \in EqualMacros, NEW x \in Int, NEW y \in Int,
           NEW r, r = AssertEqual(macro, x, y), ~r.passed
    PROVE  /\ ShownIn(r, EqualBase(macro), 1) = Narrow(macro, x)
           /\ ShownIn(r, EqualBase(macro), 2) = Narrow(macro, y)
           /\ Narrow(macro, x) # Narrow(macro, y)
<1>1. PICK e, a : e = Narrow(macro, x) /\ a = Narrow(macro, y)
  OBVIOUS
<1>2. AssertEqual(macro, x, y) = Check(e = a, <<EqualText(macro, e), EqualText(macro, a)>>)
  BY <1>1 DEF AssertEqual, EqualText
<1>3. e # a /\ r.shown = <<EqualText(macro, e), EqualText(macro, a)>>
  BY <1>2, CheckShows
<1>4. r.shown[1] = EqualText(macro, e) /\ r.shown[2] = EqualText(macro, a)
  BY <1>3
<1> QED
  BY <1>1, <1>3, <1>4, EqualTextIs DEF ShownIn

(* What NOT_EQUAL, GREATER and LESS show first.                            *)
LEMMA OrderShows ==
    ASSUME NEW x \in Int, NEW y \in Int, NEW r, ~r.passed
    PROVE  /\ r = AssertNotEqual(x, y) => ShownIn(r, 10, 1) = Signed(8, x)
           /\ r \in {AssertGreater(x, y), AssertLess(x, y)} => ShownIn(r, 10, 1) = Signed(8, y)
<1>1. PICK e, a : e = Signed(8, x) /\ a = Signed(8, y)
  OBVIOUS
<1>2. Denoted(TextI64(e), 10) = e /\ Denoted(TextI64(a), 10) = a
  BY <1>1, SignedIsText DEF Sizes
<1>3. ASSUME r = AssertNotEqual(x, y) PROVE ShownIn(r, 10, 1) = e
  <2>1. r = Check(e # a, <<TextI64(e)>>)
    BY <1>1, <1>3 DEF AssertNotEqual
  <2>2. r.shown = <<TextI64(e)>>
    BY <2>1, CheckShows
  <2>3. r.shown[1] = TextI64(e)
    BY <2>2
  <2> QED
    BY <1>2, <2>3 DEF ShownIn
<1>4. ASSUME r \in {AssertGreater(x, y), AssertLess(x, y)} PROVE ShownIn(r, 10, 1) = a
  <2>1. PICK passed : r = Check(passed, <<TextI64(a), TextI64(e)>>)
    BY <1>1, <1>4 DEF AssertGreater, AssertLess
  <2>2. r.shown = <<TextI64(a), TextI64(e)>>
    BY <2>1, CheckShows
  <2>3. r.shown[1] = TextI64(a)
    BY <2>2
  <2> QED
    BY <1>2, <2>3 DEF ShownIn
<1> QED
  BY <1>1, <1>3, <1>4

(* INT_WITHIN shows the actual number, the tolerance and the expected one. *)
LEMMA IntWithinShows ==
    ASSUME NEW delta \in IntRange(8), NEW x \in Int, NEW y \in Int,
           NEW r \in AssertIntWithin(delta, x, y), ~r.passed
    PROVE  /\ ShownIn(r, 10, 1) = Signed(8, y)
           /\ ShownIn(r, 10, 2) = delta
           /\ ShownIn(r, 10, 3) = Signed(8, x)
<1>1. PICK e, a : e = Signed(8, x) /\ a = Signed(8, y)
  OBVIOUS
<1>2. Denoted(TextI64(e), 10) = e /\ Denoted(TextI64(a), 10) = a
  BY <1>1, SignedIsText DEF Sizes
<1>3. Denoted(TextI64(delta), 10) = delta
  BY SignedText
<1>4. PICK passed : r = Check(passed, <<TextI64(a), TextI64(delta), TextI64(e)>>)
  BY <1>1 DEF AssertIntWithin
<1>5. r.shown = <<TextI64(a), TextI64(delta), TextI64(e)>>
  BY <1>4, CheckShows
<1>6. r.shown[1] = TextI64(a) /\ r.shown[2] = TextI64(delta) /\ r.shown[3] = TextI64(e)
  BY <1>5
<1> QED
  BY <1>1, <1>2, <1>3, <1>6 DEF ShownIn

(* BITS shows two different numbers.                                       *)
LEMMA BitsShow ==
    ASSUME NEW mask \in Int, NEW x \in Int, NEW y \in Int,
           NEW r, r = AssertBits(mask, x, y), ~r.passed
    PROVE  ShownIn(r, HexBase, 1) # ShownIn(r, HexBase, 2)
<1>1. PICK e, a : e = Masked(mask, x) /\ a = Masked(mask, y)
  OBVIOUS
<1>2. e \in 0 .. Modulus(4) - 1 /\ a \in 0 .. Modulus(4) - 1
  BY <1>1, SameMasked
<1>3. Modulus(4) = PowerOf2[8 * NibbleBits]
  BY DEF Modulus, Bits
<1>4. 8 \in 1 .. 16
  OBVIOUS
<1>5. Denoted(TextHex(e, 8), HexBase) = e /\ Denoted(TextHex(a, 8), HexBase) = a
  BY <1>2, <1>3, <1>4, HexText
<1>6. r = Check(e = a, <<TextHex(e, 8), TextHex(a, 8)>>)
  BY <1>1 DEF AssertBits
<1>7. e # a /\ r.shown = <<TextHex(e, 8), TextHex(a, 8)>>
  BY <1>6, CheckShows
<1>8. r.shown[1] = TextHex(e, 8) /\ r.shown[2] = TextHex(a, 8)
  BY <1>7
<1> QED
  BY <1>5, <1>7, <1>8 DEF ShownIn

(* What a comparison of arrays shows: the index of the first difference    *)
(* and the elements there.                                                 *)
ArrayText(hex, x) == IF hex THEN TextHex(x, 2) ELSE TextI64(x)

HasArray(p, n, hex) ==
    p # 0 => /\ n <= Len(Memory[p])
             /\ hex => \A i \in 1 .. n : Unsigned(1, Memory[p][i]) = Memory[p][i]

ShowsFirst(r, base, e, a, n) ==
    \E i \in 1 .. n :
        /\ ShownIn(r, 10, 1) + 1 = i
        /\ ShownIn(r, base, 2) = Memory[e][i] /\ ShownIn(r, base, 3) = Memory[a][i]
        /\ Memory[e][i] # Memory[a][i]
        /\ \A j \in 1 .. i - 1 : Memory[e][j] = Memory[a][j]

(* An array assert that fails shows the first place that differs.          *)
LEMMA ArrayShows ==
    ASSUME NEW hex \in BOOLEAN, NEW e \in Pointers, NEW a \in Pointers,
           NEW n \in 0 .. Modulus(8) - 1, HasArray(e, n, hex), HasArray(a, n, hex),
           NEW r, r = AssertArray(hex, e, a, n), ~r.passed, r.shown # <<>>
    PROVE  ShowsFirst(r, IF hex THEN HexBase ELSE 10, e, a, n)
<1> DEFINE base == IF hex THEN HexBase ELSE 10
<1>1. e # 0 /\ a # 0
  <2>1. ASSUME e = 0 \/ a = 0 PROVE FALSE
    <3>1. r = Check(FALSE, <<>>)
      BY <2>1 DEF AssertArray
    <3> QED
      BY <3>1 DEF Check
  <2> QED
    BY <2>1
<1> DEFINE D == Differ(e, a, n)
           I == CHOOSE k \in D : \A j \in D : k <= j
<1>2. PICK at, i : at = D /\ i = I
  OBVIOUS
<1>3. PICK s, t : s = Memory[e][i] /\ t = Memory[a][i]
  OBVIOUS
<1>4. PICK shown : /\ shown = <<TextU64(i - 1), ArrayText(hex, s), ArrayText(hex, t)>>
                   /\ r = Check(at = {}, shown)
  <2>1. AssertArray(hex, e, a, n)
          = IF e = 0 \/ a = 0 THEN Check(FALSE, <<>>)
            ELSE Check(D = {}, <<TextU64(I - 1), ArrayText(hex, Memory[e][I]),
                                 ArrayText(hex, Memory[a][I])>>)
    BY DEF AssertArray, ArrayText
  <2> HIDE DEF D, I
  <2>2. AssertArray(hex, e, a, n) = Check(D = {}, <<TextU64(I - 1), ArrayText(hex, Memory[e][I]),
                                                    ArrayText(hex, Memory[a][I])>>)
    BY <1>1, <2>1
  <2>3. \E shown : /\ shown = <<TextU64(I - 1), ArrayText(hex, Memory[e][I]),
                                 ArrayText(hex, Memory[a][I])>>
                   /\ r = Check(D = {}, shown)
    BY <2>2
  <2> QED
    BY <1>2, <1>3, <2>3
<1>5. at # {} /\ r.shown = <<TextU64(i - 1), ArrayText(hex, s), ArrayText(hex, t)>>
  <2>1. PICK passed : passed = (at = {})
    OBVIOUS
  <2>2. r = Check(passed, shown)
    BY <1>4, <2>1
  <2>3. ~passed /\ r.shown = shown
    BY <2>2, CheckShows
  <2> QED
    BY <1>4, <2>1, <2>3
<1>6. at \subseteq 1 .. n
  BY <1>2 DEF Differ
<1>7. i \in at /\ \A j \in at : i <= j
  <2>1. at \subseteq Nat
    BY <1>6
  <2>2. \E k \in at : \A j \in at : k <= j
    BY <1>5, <2>1, LeastNumber
  <2> QED
    BY <1>2, <2>2
<1>8. i \in 1 .. n
  BY <1>6, <1>7
<1>9. s # t
  BY <1>2, <1>3, <1>7 DEF Differ
<1>10. \A j \in 1 .. i - 1 : Memory[e][j] = Memory[a][j]
  <2>1. ASSUME NEW j \in 1 .. i - 1 PROVE Memory[e][j] = Memory[a][j]
    <3>1. j \in 1 .. n /\ ~(i <= j)
      BY <1>8
    <3>2. j \notin at
      BY <1>7, <3>1
    <3> QED
      BY <1>2, <3>1, <3>2 DEF Differ
  <2> QED
    BY <2>1
<1>11. Denoted(TextU64(i - 1), 10) + 1 = i
  <2>1. Modulus(8) \in Nat
    BY ModulusIsEven DEF Sizes
  <2>2. i - 1 \in 0 .. Modulus(8) - 1
    BY <1>8, <2>1
  <2>3. Denoted(TextU64(i - 1), 10) = i - 1
    BY <2>2, UnsignedText
  <2> QED
    BY <1>8, <2>3
<1>12. ASSUME NEW p \in {e, a}
       PROVE  Denoted(ArrayText(hex, Memory[p][i]), base) = Memory[p][i]
  <2>1. p \in Pointers /\ p # 0
    BY <1>1
  <2>2. Memory[p] \in Seq(IntRange(4)) /\ Len(Memory[p]) \in Nat
    BY <2>1, MemoryIsBytes
  <2>3. i \in 1 .. Len(Memory[p])
    BY <1>8, <2>1, <2>2 DEF HasArray
  <2>4. PICK b \in IntRange(4) : b = Memory[p][i]
    BY <2>2, <2>3, ElementOfSeq
  <2>5. 4 \in Sizes /\ 1 \in Sizes
    BY DEF Sizes
  <2>6. b \in IntRange(8) /\ b \in Int
    BY <2>5, TypesFit, NulIsNoByte
  <2>7. CASE ~hex
    <3>1. Denoted(TextI64(b), 10) = b
      BY <2>6, SignedText
    <3> QED
      BY <2>4, <2>7, <3>1 DEF ArrayText
  <2>8. CASE hex
    <3>1. Unsigned(1, b) = b
      BY <1>8, <2>1, <2>4, <2>8 DEF HasArray
    <3>2. 2 * 1 = 2
      OBVIOUS
    <3>3. Denoted(TextHex(Unsigned(1, b), 2 * 1), HexBase) = Unsigned(1, b)
      BY <2>5, <2>6, UnsignedIsText
    <3>4. Denoted(TextHex(b, 2), HexBase) = b
      BY <3>1, <3>2, <3>3
    <3> QED
      BY <2>4, <2>8, <3>4 DEF ArrayText
  <2> QED
    BY <2>7, <2>8
<1>13. /\ r.shown[1] = TextU64(i - 1) /\ r.shown[2] = ArrayText(hex, s)
       /\ r.shown[3] = ArrayText(hex, t)
  BY <1>5
<1>14. /\ ShownIn(r, 10, 1) + 1 = i
       /\ ShownIn(r, base, 2) = s /\ ShownIn(r, base, 3) = t
  BY <1>3, <1>11, <1>12, <1>13 DEF ShownIn
<1> QED
  BY <1>3, <1>8, <1>9, <1>10, <1>14 DEF ShowsFirst

(* The base in which the k-th text of a failed call is read.               *)
TextBase(c, k) ==
    IF (\/ c.fn \in {"BITS", "UINT8_ARRAY"}
        \/ c.fn = "EQUAL" /\ c.macro.type = "HEX") /\ ~(c.fn = "UINT8_ARRAY" /\ k = 1)
    THEN HexBase ELSE 10

(* Only hexadecimal values are read in base HexBase.                       *)
LEMMA TextBases ==
    ASSUME NEW c, NEW k
    PROVE  /\ c.fn = "EQUAL" => TextBase(c, k) = EqualBase(c.macro)
           /\ c.fn \in {"NOT_EQUAL", "GREATER", "LESS", "INT_WITHIN", "INT_ARRAY"}
                => TextBase(c, k) = 10
           /\ c.fn = "BITS" => TextBase(c, k) = HexBase
           /\ c.fn = "UINT8_ARRAY" => TextBase(c, k) = IF k = 1 THEN 10 ELSE HexBase
BY DEF TextBase, EqualBase

(* What UINT8_ARRAY compares are bytes.                                    *)
LEMMA BytesAreBytes ==
    ASSUME NEW c \in Calls, c.fn = "UINT8_ARRAY",
           NEW p \in {c.args[1], c.args[2]} \ {0}, NEW i \in 1 .. c.args[3]
    PROVE  Unsigned(1, Memory[p][i]) = Memory[p][i]
<1>1. c.args \in Bytes
  BY DEF Calls
<1>2. c.args \in Readable /\ \A b \in ToSet(Memory[p]) : Unsigned(1, b) = b
  BY <1>1 DEF Bytes
<1>3. p \in Pointers /\ p # 0 /\ c.args[3] <= Len(Memory[p]) /\ c.args[3] \in Nat
  <2>1. PICK x : x = c.args
    OBVIOUS
  <2>2. x[1] \in Pointers /\ x[2] \in Pointers /\ x[3] \in Lengths
    BY <1>2, <2>1 DEF Readable
  <2>3. \A q \in {x[1], x[2]} \ {0} : x[3] <= Len(Memory[q])
    BY <1>2, <2>1 DEF Readable
  <2>4. x[3] \in Nat
    <3>1. Lengths \subseteq Nat
      BY AssertsAssumption DEF AssertsAssumption
    <3> QED
      BY <2>2, <3>1
  <2> QED
    BY <2>1, <2>2, <2>3, <2>4
<1>4. Memory[p] \in Seq(IntRange(4)) /\ Len(Memory[p]) \in Nat
  BY <1>3, MemoryIsBytes
<1>5. i \in 1 .. Len(Memory[p]) /\ DOMAIN Memory[p] = 1 .. Len(Memory[p])
  BY <1>3, <1>4
<1>6. Memory[p][i] \in ToSet(Memory[p])
  BY <1>5 DEF ToSet
<1> QED
  BY <1>2, <1>6

(* Every number that a failure shows reads back as what was compared, for  *)
(* the least integer and the widest types too; the numbers a message says  *)
(* differ do; and an array failure shows the first place that differs.     *)
THEOREM TextsTrue == Spec => []TextsDenoteValues
<1>1. ASSUME Answered, Evaluated, ~result.passed PROVE TextsDenoteValues
  <2>1. call \in Calls /\ result \in Results(call)
    BY <1>1 DEF Answered
  <2>2. PICK x : x = call.args
    OBVIOUS
  <2> DEFINE Value(k) == ShownIn(result, TextBase(call, k), k)
  <2>3. ASSUME call.fn = "EQUAL"
        PROVE  /\ Value(1) # Value(2)
               /\ \A k \in {1, 2} : Value(k) = Narrow(call.macro, x[k])
    <3>1. call.macro \in EqualMacros /\ x[1] \in Int /\ x[2] \in Int
      BY <2>1, <2>2, <2>3, Arguments, ValuesAreInt
    <3>2. result = AssertEqual(call.macro, x[1], x[2])
      BY <2>1, <2>2, <2>3, ResultIs
    <3>3. \A k \in {1, 2} : TextBase(call, k) = EqualBase(call.macro)
      BY <2>3, TextBases
    <3> QED
      BY <1>1, <3>1, <3>2, <3>3, EqualShows
  <2>4. ASSUME call.fn \in {"NOT_EQUAL", "GREATER", "LESS"}
        PROVE  \E k \in {1, 2} : Value(1) = Signed(8, x[k])
    <3>1. x[1] \in Int /\ x[2] \in Int
      BY <2>1, <2>2, <2>4, Arguments, ValuesAreInt
    <3>2. result \in {AssertNotEqual(x[1], x[2]), AssertGreater(x[1], x[2]), AssertLess(x[1], x[2])}
      BY <2>1, <2>2, <2>4, ResultIs
    <3>3. TextBase(call, 1) = 10
      BY <2>4, TextBases
    <3>4. ShownIn(result, 10, 1) \in {Signed(8, x[1]), Signed(8, x[2])}
      BY <1>1, <3>1, <3>2, OrderShows
    <3> QED
      BY <3>3, <3>4
  <2>5. ASSUME call.fn = "INT_WITHIN"
        PROVE  <<Value(1), Value(2), Value(3)>> = <<Signed(8, x[3]), x[1], Signed(8, x[2])>>
    <3>1. x[1] \in IntRange(8) /\ x[2] \in Int /\ x[3] \in Int
      BY <2>1, <2>2, <2>5, Arguments, ValuesAreInt, AssertsAssumption DEF AssertsAssumption
    <3>2. result \in AssertIntWithin(x[1], x[2], x[3])
      BY <2>1, <2>2, <2>5, ResultIs
    <3>3. \A k \in {1, 2, 3} : TextBase(call, k) = 10
      BY <2>5, TextBases
    <3> QED
      BY <1>1, <3>1, <3>2, <3>3, IntWithinShows
  <2>6. ASSUME call.fn = "BITS" PROVE Value(1) # Value(2)
    <3>1. x \in Values \X Values \X Values /\ result = AssertBits(x[1], x[2], x[3])
      BY <2>1, <2>2, <2>6, BitResults
    <3>2. x[1] \in Int /\ x[2] \in Int /\ x[3] \in Int
      BY <3>1, ValuesAreInt
    <3>3. \A k \in {1, 2} : TextBase(call, k) = HexBase
      BY <2>6, TextBases
    <3> QED
      BY <1>1, <3>1, <3>2, <3>3, BitsShow
  <2>7. ASSUME call.fn \in {"INT_ARRAY", "UINT8_ARRAY"}, result.shown # <<>>
        PROVE  \E i \in 1 .. x[3] :
                  /\ Value(1) + 1 = i
                  /\ Value(2) = Memory[x[1]][i] /\ Value(3) = Memory[x[2]][i]
                  /\ Memory[x[1]][i] # Memory[x[2]][i]
                  /\ \A j \in 1 .. i - 1 : Memory[x[1]][j] = Memory[x[2]][j]
    <3>1. PICK hex \in BOOLEAN : hex <=> call.fn = "UINT8_ARRAY"
      OBVIOUS
    <3>2. result = AssertArray(hex, x[1], x[2], x[3])
      BY <2>1, <2>2, <2>7, <3>1, ResultIs
    <3>3. /\ x[1] \in Pointers /\ x[2] \in Pointers /\ x[3] \in 0 .. Modulus(8) - 1
          /\ \A p \in {x[1], x[2]} \ {0} : x[3] <= Len(Memory[p])
      BY <2>1, <2>2, <2>7, Arguments, AssertsAssumption DEF AssertsAssumption, Readable
    <3>4. \A p \in {x[1], x[2]} \ {0} :
             hex => \A i \in 1 .. x[3] : Unsigned(1, Memory[p][i]) = Memory[p][i]
      BY <2>1, <2>2, <3>1, BytesAreBytes
    <3>5. HasArray(x[1], x[3], hex) /\ HasArray(x[2], x[3], hex)
      BY <3>3, <3>4 DEF HasArray
    <3>6. ShowsFirst(result, IF hex THEN HexBase ELSE 10, x[1], x[2], x[3])
      BY <1>1, <2>7, <3>1, <3>2, <3>3, <3>5, ArrayShows, Zenon
    <3>7. /\ TextBase(call, 1) = 10
          /\ \A k \in {2, 3} : TextBase(call, k) = IF hex THEN HexBase ELSE 10
      BY <2>7, <3>1, TextBases
    <3> QED
      BY <3>6, <3>7 DEF ShowsFirst
  <2>8. call.fn \in {"INT_ARRAY", "UINT8_ARRAY"} /\ result.shown # <<>> =>
          /\ Value(2) = Memory[x[1]][Value(1) + 1] /\ Value(3) = Memory[x[2]][Value(1) + 1]
          /\ Value(2) # Value(3)
          /\ \A i \in 1 .. (Value(1) + 1) - 1 : Memory[x[1]][i] = Memory[x[2]][i]
    <3> HIDE DEF Value
    <3> QED
      BY <2>7
  <2> QED
    BY <2>2, <2>3, <2>4, <2>5, <2>6, <2>8 DEF TextsDenoteValues, ShownIn, Denoted, TextBase
<1>2. ~Evaluated \/ result.passed => TextsDenoteValues
  BY DEF TextsDenoteValues
<1> QED
  BY <1>1, <1>2, CallsAnswered, PTL
=============================================================================
