---------------------- MODULE MessagePackFramingProofs ----------------------
(***************************************************************************)
(* Proofs about MessagePackFraming, for every base, prefix length, maximum *)
(* length and set of byte strings that its assumptions allow.  They go     *)
(* from the arithmetic of a prefix (induction over its digits, by way of   *)
(* the least element of a set of numbers) to the two invariants of the     *)
(* reader: Sent, which locates the sender's frames in the data and says    *)
(* which of them are found, and Walked, which says that every cut of the   *)
(* data into frames begins the way the reader has cut it so far.           *)
(***************************************************************************)
EXTENDS MessagePackFraming, SequenceTheorems, WellFoundedInduction, TLAPS

----------------------------------------------------------------------------
\* Induction over the natural numbers, for a set instead of a predicate.
LEMMA LeastNatural ==
  ASSUME NEW S, S \subseteq Nat, S # {}
  PROVE  \E x \in S : \A y \in S : x <= y
  <1> DEFINE R == OpToRel(<, Nat)
  <1>1. IsWellFoundedOn(R, Nat)
    BY NatLessThanWellFounded
  <1>2. \A x, y \in Nat : y < x => <<y, x>> \in R
    BY DEF OpToRel
  <1> HIDE DEF R
  <1>3. PICK x \in S : \A y \in S : ~(<<y, x>> \in R)
    BY <1>1, WFMin
  <1>4. ASSUME NEW y \in S PROVE x <= y
    <2>1. x \in Nat /\ y \in Nat /\ ~(y < x)
      BY <1>2, <1>3
    <2> QED BY <2>1
  <1> QED BY <1>4

LEMMA SetInduction ==
  ASSUME NEW S, 0 \in S, \A n \in Nat : n \in S => n + 1 \in S
  PROVE  \A n \in Nat : n \in S
  <1> DEFINE Missing == Nat \ S
  <1> SUFFICES ASSUME Missing # {} PROVE FALSE
    OBVIOUS
  <1>1. PICK x \in Missing : \A y \in Missing : x <= y
    BY LeastNatural
  <1>2. x \in Nat /\ x \notin S /\ x # 0
    OBVIOUS
  <1>3. x - 1 \in Nat /\ x - 1 \notin Missing
    BY <1>1, <1>2
  <1> QED BY <1>2, <1>3

\* The weights are those of the digits.
LEMMA WeightDef == Weight = [i \in 0..MaxPrefix |-> IF i = 0 THEN 1 ELSE Base * Weight[i - 1]]
  <1> DEFINE Step(f, n) == f = [i \in 0..n |-> IF i = 0 THEN 1 ELSE Base * f[i - 1]]
             S == {n \in Nat : \E f : Step(f, n)}
  <1>1. 0 \in S
    <2>1. Step([i \in 0..0 |-> 1], 0)
      OBVIOUS
    <2> QED BY <2>1
  <1>2. ASSUME NEW n \in Nat, n \in S PROVE n + 1 \in S
    <2>1. PICK f : Step(f, n)
      BY <1>2
    <2> DEFINE g == [i \in 0..(n + 1) |-> IF i = n + 1 THEN Base * f[n] ELSE f[i]]
    <2>2. /\ DOMAIN g = 0..(n + 1) /\ g[n + 1] = Base * f[n]
          /\ \A i \in 0..n : g[i] = f[i]
      <3>1. n + 1 \in 0..(n + 1) /\ \A i \in 0..n : i \in 0..(n + 1) /\ i # n + 1
        BY <1>2
      <3> QED BY <3>1
    <2>3. \A i \in 0..n : f[i] = IF i = 0 THEN 1 ELSE Base * f[i - 1]
      BY <2>1
    <2> HIDE DEF g
    <2>4. ASSUME NEW i \in 0..(n + 1)
          PROVE  g[i] = IF i = 0 THEN 1 ELSE Base * g[i - 1]
      <3>1. CASE i = n + 1
        <4>1. i - 1 = n /\ n \in 0..n /\ i # 0
          BY <3>1
        <4> QED BY <2>2, <3>1, <4>1
      <3>2. CASE i # n + 1
        <4>1. i \in 0..n /\ (i # 0 => i - 1 \in 0..n)
          BY <3>2
        <4> QED BY <2>2, <2>3, <4>1
      <3> QED BY <3>1, <3>2
    <2>5. g = [i \in 0..(n + 1) |-> g[i]]
      BY <2>2 DEF g
    <2>6. Step(g, n + 1)
      BY <2>4, <2>5
    <2> QED BY <2>6
  <1>3. MaxPrefix \in S
    <2> HIDE DEF S
    <2> QED BY <1>1, <1>2, SetInduction, PrefixHoldsEveryLength
  <1>4. \E f : Step(f, MaxPrefix)
    BY <1>3
  <1> QED BY <1>4, Zenon DEF Weight

LEMMA WeightFacts ==
  /\ Weight[0] = 1
  /\ \A i \in 1..MaxPrefix : Weight[i] = Base * Weight[i - 1]
  /\ \A i \in 0..MaxPrefix : Weight[i] \in Nat \ {0}
  <1> USE BaseAtLeastTwo, PrefixHoldsEveryLength
  <1>1. Weight[0] = 1 /\ \A i \in 1..MaxPrefix : Weight[i] = Base * Weight[i - 1]
    <2> DEFINE W == Weight
    <2>1. W = [i \in 0..MaxPrefix |-> IF i = 0 THEN 1 ELSE Base * W[i - 1]]
      BY WeightDef
    <2> HIDE DEF W
    <2>2. \A i \in 0..MaxPrefix : W[i] = IF i = 0 THEN 1 ELSE Base * W[i - 1]
      BY <2>1, Zenon
    <2>3. 0 \in 0..MaxPrefix /\ \A i \in 1..MaxPrefix : i \in 0..MaxPrefix /\ i # 0
      OBVIOUS
    <2> QED BY <2>2, <2>3 DEF W
  <1> DEFINE S == {i \in Nat : i <= MaxPrefix => Weight[i] \in Nat \ {0}}
  <1>2. 0 \in S
    BY <1>1
  <1>3. ASSUME NEW n \in Nat, n \in S PROVE n + 1 \in S
    <2> SUFFICES ASSUME n + 1 <= MaxPrefix PROVE Weight[n + 1] \in Nat \ {0}
      OBVIOUS
    <2>1. Weight[n] \in Nat \ {0} /\ Weight[n + 1] = Base * Weight[n]
      <3>1. n + 1 \in 1..MaxPrefix /\ (n + 1) - 1 = n
        OBVIOUS
      <3> QED BY <1>1, <1>3, <3>1
    <2> QED BY <2>1
  <1>4. \A n \in Nat : n \in S
    <2> HIDE DEF S
    <2> QED BY <1>2, <1>3, SetInduction
  <1> QED BY <1>1, <1>4

\* The partial sums of Number, the last of which is the number itself.
LEMMA NumberFacts ==
  ASSUME NEW s \in Seq(Byte), Len(s) <= MaxPrefix
  PROVE  \E v : /\ Number(s) = v[Len(s)] /\ v[0] = 0
                /\ \A i \in 1..Len(s) : v[i] = v[i - 1] + (s[i] % Base) * Weight[i - 1]
                /\ \A i \in 0..Len(s) : v[i] \in Nat
  <1> DEFINE Term(i) == (s[i] % Base) * Weight[i - 1]
             Step(f, n) == f = [i \in 0..n |-> IF i = 0 THEN 0 ELSE f[i - 1] + Term(i)]
             S == {n \in Nat : \E f : Step(f, n)}
  <1>1. 0 \in S
    <2>1. Step([i \in 0..0 |-> 0], 0)
      OBVIOUS
    <2> QED BY <2>1
  <1>2. ASSUME NEW n \in Nat, n \in S PROVE n + 1 \in S
    <2> HIDE DEF Term
    <2>1. PICK f : Step(f, n)
      BY <1>2
    <2> DEFINE g == [i \in 0..(n + 1) |-> IF i = n + 1 THEN f[n] + Term(n + 1) ELSE f[i]]
    <2>2. /\ DOMAIN g = 0..(n + 1) /\ g[n + 1] = f[n] + Term(n + 1)
          /\ \A i \in 0..n : g[i] = f[i]
      <3>1. n + 1 \in 0..(n + 1) /\ \A i \in 0..n : i \in 0..(n + 1) /\ i # n + 1
        BY <1>2
      <3> QED BY <3>1
    <2>3. \A i \in 0..n : f[i] = IF i = 0 THEN 0 ELSE f[i - 1] + Term(i)
      BY <2>1
    <2> HIDE DEF g
    <2>4. ASSUME NEW i \in 0..(n + 1)
          PROVE  g[i] = IF i = 0 THEN 0 ELSE g[i - 1] + Term(i)
      <3>1. CASE i = n + 1
        <4>1. i - 1 = n /\ n \in 0..n /\ i # 0
          BY <3>1
        <4> QED BY <2>2, <3>1, <4>1
      <3>2. CASE i # n + 1
        <4>1. i \in 0..n /\ (i # 0 => i - 1 \in 0..n)
          BY <3>2
        <4> QED BY <2>2, <2>3, <4>1
      <3> QED BY <3>1, <3>2
    <2>5. g = [i \in 0..(n + 1) |-> g[i]]
      BY <2>2 DEF g
    <2>6. Step(g, n + 1)
      BY <2>4, <2>5
    <2> QED BY <2>6
  <1>3. Len(s) \in Nat /\ \A i \in 1..Len(s) : s[i] \in Byte
    BY LenProperties, ElementOfSeq
  <1>4. Len(s) \in S
    <2> HIDE DEF S
    <2> QED BY <1>1, <1>2, <1>3, SetInduction
  <1>5. \E f : Step(f, Len(s))
    BY <1>4
  <1> DEFINE v == CHOOSE f : Step(f, Len(s))
  <1>6. Step(v, Len(s))
    BY <1>5, Zenon
  <1>7. Number(s) = v[Len(s)]
    BY Zenon DEF Number
  <1> HIDE DEF v, Term
  <1>8. \A i \in 0..Len(s) : v[i] = IF i = 0 THEN 0 ELSE v[i - 1] + Term(i)
    BY <1>6, Zenon
  <1>9. v[0] = 0 /\ \A i \in 1..Len(s) : v[i] = v[i - 1] + Term(i)
    <2>1. 0 \in 0..Len(s) /\ \A i \in 1..Len(s) : i \in 0..Len(s) /\ i # 0
      BY <1>3
    <2> QED BY <1>8, <2>1
  <1>10. \A i \in 1..Len(s) : Term(i) \in Nat
    <2> SUFFICES ASSUME NEW i \in 1..Len(s) PROVE Term(i) \in Nat
      OBVIOUS
    <2>1. s[i] % Base \in Nat
      BY <1>3, BaseAtLeastTwo DEF Byte
    <2>2. Weight[i - 1] \in Nat
      <3>1. i - 1 \in 0..MaxPrefix
        BY <1>3, PrefixHoldsEveryLength
      <3> QED BY <3>1, WeightFacts
    <2> QED BY <2>1, <2>2 DEF Term
  <1> DEFINE T == {i \in Nat : i <= Len(s) => v[i] \in Nat}
  <1>11. 0 \in T
    BY <1>9
  <1>12. ASSUME NEW n \in Nat, n \in T PROVE n + 1 \in T
    <2> SUFFICES ASSUME n + 1 <= Len(s) PROVE v[n + 1] \in Nat
      OBVIOUS
    <2>1. n + 1 \in 1..Len(s) /\ (n + 1) - 1 = n /\ v[n] \in Nat
      BY <1>3, <1>12
    <2>2. v[n + 1] = v[n] + Term(n + 1) /\ Term(n + 1) \in Nat
      BY <1>9, <1>10, <2>1
    <2> QED BY <2>1, <2>2
  <1>13. \A n \in Nat : n \in T
    <2> HIDE DEF T
    <2> QED BY <1>11, <1>12, SetInduction
  <1>14. \A i \in 0..Len(s) : v[i] \in Nat
    BY <1>3, <1>13
  <1> QED BY <1>7, <1>9, <1>14 DEF Term

\* A length that may be sent has a shortest prefix.
LEMMA DigitsFacts ==
  ASSUME NEW length \in 0..MaxLength
  PROVE  /\ Digits(length) \in 1..MaxPrefix /\ length < Weight[Digits(length)]
         /\ \A m \in 1..(Digits(length) - 1) : length >= Weight[m]
  <1> DEFINE S == {n \in 1..MaxPrefix : length < Weight[n]}
  <1>1. MaxPrefix \in S
    <2>1. Weight[MaxPrefix] \in Nat
      BY WeightFacts, PrefixHoldsEveryLength
    <2> QED BY <2>1, PrefixHoldsEveryLength
  <1>2. PICK n \in S : \A y \in S : n <= y
    <2>1. S \subseteq Nat
      OBVIOUS
    <2> HIDE DEF S
    <2> QED BY <1>1, <2>1, LeastNatural
  <1>3. \A m \in 1..(n - 1) : length >= Weight[m]
    <2> SUFFICES ASSUME NEW m \in 1..(n - 1) PROVE length >= Weight[m]
      OBVIOUS
    <2>1. m \in 1..MaxPrefix /\ m \in 0..MaxPrefix /\ ~(n <= m)
      <3>1. n \in 1..MaxPrefix /\ m \in Int /\ 1 <= m /\ m <= n - 1 /\ MaxPrefix \in Int
        BY PrefixHoldsEveryLength
      <3> QED BY <3>1
    <2>3. m \notin S
      BY <1>2, <2>1
    <2>2. Weight[m] \in Nat /\ ~(length < Weight[m])
      BY <2>1, <2>3, WeightFacts
    <2> QED BY <2>2, PrefixHoldsEveryLength
  <1>4. \E k \in 1..MaxPrefix : /\ length < Weight[k]
                                /\ \A m \in 1..(k - 1) : length >= Weight[m]
    BY <1>2, <1>3
  <1> QED BY <1>4, Zenon DEF Digits

----------------------------------------------------------------------------
\* Division, as the digits of a number need it.
LEMMA DivMod ==
  ASSUME NEW a \in Nat, NEW b \in Nat \ {0}
  PROVE  /\ a \div b \in Nat /\ a % b \in 0..(b - 1)
         /\ a = b * (a \div b) + (a % b)
  OBVIOUS

LEMMA DivUnique ==
  ASSUME NEW a \in Nat, NEW b \in Nat \ {0}, NEW q \in Nat, NEW r \in 0..(b - 1), a = b * q + r
  PROVE  q = a \div b
  <1> DEFINE p == a \div b
             t == a % b
  <1>1. p \in Nat /\ t \in 0..(b - 1) /\ a = b * p + t
    BY DivMod
  <1> HIDE DEF p, t
  <1>2. ~(p < q)
    <2> SUFFICES ASSUME p + 1 <= q PROVE FALSE
      BY <1>1
    <2>1. b * (p + 1) <= b * q
      BY <1>1
    <2>2. b * (p + 1) = b * p + b
      BY <1>1
    <2> QED BY <1>1, <2>1, <2>2
  <1>3. ~(q < p)
    <2> SUFFICES ASSUME q + 1 <= p PROVE FALSE
      BY <1>1
    <2>1. b * (q + 1) <= b * p
      BY <1>1
    <2>2. b * (q + 1) = b * q + b
      OBVIOUS
    <2> QED BY <1>1, <2>1, <2>2
  <1> QED BY <1>1, <1>2, <1>3 DEF p

\* A digit taken off the rest, the rest is that of the next digit.
LEMMA NestedDiv ==
  ASSUME NEW a \in Nat, NEW w \in Nat \ {0}, NEW b \in Nat \ {0}
  PROVE  (a \div w) \div b = a \div (b * w)
  <1>1. PICK q \in Nat, r \in 0..(w - 1) : q = a \div w /\ a = w * q + r
    BY DivMod
  <1>2. PICK p \in Nat, d \in 0..(b - 1) : p = q \div b /\ q = b * p + d
    BY DivMod
  <1>3. a = (b * w) * p + (w * d + r)
    <2>1. w * (b * p + d) = (b * w) * p + w * d
      OBVIOUS
    <2>2. w * q = w * (b * p + d)
      BY <1>2
    <2>3. (b * w) * p \in Int /\ w * d \in Int
      OBVIOUS
    <2> QED BY <1>1, <2>1, <2>2, <2>3
  <1>4. w * d + r \in 0..(b * w - 1)
    <2>1. w * d \in Nat /\ w * d <= w * (b - 1) /\ w * (b - 1) = b * w - w
      OBVIOUS
    <2>2. b * w \in Nat
      OBVIOUS
    <2> QED BY <2>1, <2>2
  <1>5. b * w \in Nat \ {0}
    OBVIOUS
  <1>6. p = a \div (b * w)
    BY <1>3, <1>4, <1>5, DivUnique
  <1> QED BY <1>1, <1>2, <1>6

----------------------------------------------------------------------------
\* The bytes of a prefix: the last one, and only that, is without the flag.
LEMMA VarintFacts ==
  ASSUME NEW length \in 0..MaxLength
  PROVE  LET n == Digits(length)  s == WriteVarint(length) IN
         /\ s \in Seq(Byte) /\ Len(s) = n /\ n \in 1..MaxPrefix
         /\ \A i \in 1..n : /\ s[i] % Base = (length \div Weight[i - 1]) % Base
                            /\ s[i] < Base <=> i = n
  <1> DEFINE n == Digits(length)
             s == WriteVarint(length)
             digit(i) == (length \div Weight[i - 1]) % Base
  <1>1. n \in 1..MaxPrefix /\ n \in Nat
    BY DigitsFacts, PrefixHoldsEveryLength
  <1>2. ASSUME NEW i \in 1..n PROVE digit(i) \in 0..(Base - 1)
    <2>1. i - 1 \in 0..MaxPrefix
      BY <1>1, PrefixHoldsEveryLength
    <2>2. Weight[i - 1] \in Nat \ {0} /\ length \in Nat /\ Base \in Nat \ {0}
      BY <2>1, WeightFacts, BaseAtLeastTwo, PrefixHoldsEveryLength
    <2>3. length \div Weight[i - 1] \in Nat
      BY <2>2, DivMod
    <2> QED BY <2>2, <2>3, DivMod
  <1>3. s = [i \in 1..n |-> digit(i) + (IF i < n THEN Base ELSE 0)]
    BY DEF WriteVarint
  <1> HIDE DEF n, s, digit
  <1>4. ASSUME NEW i \in 1..n
        PROVE  s[i] \in Byte /\ s[i] % Base = digit(i) /\ (s[i] < Base <=> i = n)
    <2>1. digit(i) \in 0..(Base - 1) /\ s[i] = digit(i) + (IF i < n THEN Base ELSE 0)
      BY <1>2, <1>3
    <2>2. digit(i) % Base = digit(i) /\ (digit(i) + Base) % Base = digit(i)
      BY <2>1, BaseAtLeastTwo
    <2>3. CASE i < n
      <3>1. s[i] = digit(i) + Base /\ i # n
        BY <1>1, <2>1, <2>3
      <3> QED BY <2>1, <2>2, <3>1, BaseAtLeastTwo DEF Byte
    <2>4. CASE i = n
      <3>1. s[i] = digit(i)
        BY <1>1, <2>1, <2>4
      <3> QED BY <2>1, <2>2, <2>4, <3>1, BaseAtLeastTwo DEF Byte
    <2> QED BY <1>1, <2>3, <2>4
  <1>5. s \in [1..n -> Byte]
    BY <1>3, <1>4
  <1>6. s \in Seq(Byte) /\ Len(s) = n
    BY <1>1, <1>5, SeqDef
  <1> QED BY <1>1, <1>4, <1>6 DEF n, s, digit

\* What is read from a prefix is the length it was written for, for every
\* length the protocol lets through (write_varint_length against
\* read_varint_length): no digit is lost, none is one too many.
THEOREM VarintRoundTrip == \A length \in 0..MaxLength : Number(WriteVarint(length)) = length
  <1> SUFFICES ASSUME NEW length \in 0..MaxLength PROVE Number(WriteVarint(length)) = length
    OBVIOUS
  <1> DEFINE n == Digits(length)
             s == WriteVarint(length)
  <1>1. /\ s \in Seq(Byte) /\ Len(s) = n /\ n \in 1..MaxPrefix
        /\ \A i \in 1..n : s[i] % Base = (length \div Weight[i - 1]) % Base
    BY VarintFacts
  <1>2. length \in Nat /\ n \in Nat /\ length < Weight[n] /\ Base \in Nat \ {0}
    BY <1>1, DigitsFacts, PrefixHoldsEveryLength, BaseAtLeastTwo
  <1>3. n <= MaxPrefix /\ \A i \in 0..n : i \in 0..MaxPrefix /\ Weight[i] \in Nat \ {0}
    BY <1>1, <1>2, PrefixHoldsEveryLength, WeightFacts
  <1> HIDE DEF n, s
  <1>4. PICK v : /\ Number(s) = v[n] /\ v[0] = 0
                 /\ \A i \in 1..n : v[i] = v[i - 1] + (s[i] % Base) * Weight[i - 1]
                 /\ \A i \in 0..n : v[i] \in Nat
    BY <1>1, <1>3, NumberFacts
  <1> DEFINE S == {i \in Nat : i <= n => v[i] + (length \div Weight[i]) * Weight[i] = length}
  <1>5. 0 \in S
    <2>1. Weight[0] = 1 /\ length \div 1 = length
      BY <1>2, WeightFacts
    <2> QED BY <1>2, <1>4, <2>1
  <1>6. ASSUME NEW k \in Nat, k \in S PROVE k + 1 \in S
    <2> SUFFICES ASSUME k + 1 <= n
                 PROVE  v[k + 1] + (length \div Weight[k + 1]) * Weight[k + 1] = length
      OBVIOUS
    <2> DEFINE w == Weight[k]
               q == length \div w
    <2>1. k + 1 \in 1..n /\ (k + 1) - 1 = k /\ k \in 0..n /\ k + 1 \in 1..MaxPrefix
      BY <1>1, <1>2, <1>3, PrefixHoldsEveryLength
    <2>2. w \in Nat \ {0} /\ Weight[k + 1] = Base * w
      BY <1>3, <2>1, WeightFacts
    <2>3. v[k] \in Nat /\ v[k] + q * w = length /\ v[k + 1] = v[k] + (q % Base) * w
      BY <1>1, <1>2, <1>4, <1>6, <2>1
    <2> HIDE DEF w
    <2>4. q \in Nat /\ length \div Weight[k + 1] = q \div Base
      <3>1. q \in Nat
        BY <1>2, <2>2, DivMod
      <3>2. q \div Base = length \div (Base * w)
        BY <1>2, <2>2, NestedDiv
      <3> QED BY <2>2, <3>1, <3>2
    <2> HIDE DEF q
    <2> DEFINE p == q \div Base
               d == q % Base
    <2>5. p \in Nat /\ d \in Nat /\ q = Base * p + d
      <3>1. q % Base \in 0..(Base - 1)
        BY <1>2, <2>4, DivMod
      <3>2. q \div Base \in Nat /\ q = Base * (q \div Base) + (q % Base)
        BY <1>2, <2>4, DivMod
      <3>3. q % Base \in Nat
        BY <1>2, <3>1
      <3> QED BY <3>2, <3>3
    <2>10. p = q \div Base /\ d = q % Base
      OBVIOUS
    <2> HIDE DEF p, d
    <2>6. d * w + p * (Base * w) = (Base * p + d) * w
      BY <1>2, <2>2, <2>5
    <2>7. (Base * p + d) * w = q * w /\ d * w \in Int /\ p * (Base * w) \in Int
      BY <1>2, <2>2, <2>5
    <2>8. v[k + 1] = v[k] + d * w
      BY <2>3, <2>10
    <2>9. (length \div Weight[k + 1]) * Weight[k + 1] = p * (Base * w)
      BY <2>2, <2>4, <2>10
    <2> QED BY <2>3, <2>6, <2>7, <2>8, <2>9
  <1>7. n \in S
    <2> HIDE DEF S
    <2> QED BY <1>2, <1>5, <1>6, SetInduction
  <1>8. length \div Weight[n] = 0
    <2>1. Weight[n] \in Nat \ {0}
      BY <1>2, <1>3
    <2>2. length = Weight[n] * 0 + length /\ length \in 0..(Weight[n] - 1)
      BY <1>2, <2>1
    <2> QED BY <1>2, <2>1, <2>2, DivUnique
  <1>9. v[n] + 0 * Weight[n] = length /\ v[n] \in Nat /\ Weight[n] \in Nat
    BY <1>2, <1>3, <1>4, <1>7, <1>8
  <1> QED BY <1>4, <1>9 DEF s

----------------------------------------------------------------------------
\* What the reader makes of a prefix.
LEMMA ValueFacts ==
  ASSUME data \in Seq(Byte), offset \in 0..Len(data),
         NEW n \in 1..MaxPrefix, offset + n <= Len(data)
  PROVE  /\ SubSeq(data, offset + 1, offset + n) \in Seq(Byte)
         /\ Len(SubSeq(data, offset + 1, offset + n)) = n
         /\ \A i \in 1..n : SubSeq(data, offset + 1, offset + n)[i] = data[offset + i]
         /\ Value(n) \in Nat
  <1> DEFINE s == SubSeq(data, offset + 1, offset + n)
  <1>1. /\ Len(data) \in Nat /\ offset \in Nat /\ n \in Nat /\ n <= MaxPrefix
        /\ \A i \in 1..Len(data) : data[i] \in Byte
    BY LenProperties, ElementOfSeq, PrefixHoldsEveryLength
  <1>2. /\ s \in Seq(Byte) /\ Len(s) = n
        /\ \A i \in 1..n : s[i] = data[offset + i]
    <2>1. offset + 1 \in Int /\ offset + n \in Int /\ offset + 1 <= offset + n
          /\ \A i \in (offset + 1)..(offset + n) : data[i] \in Byte
      BY <1>1
    <2>2. /\ s \in Seq(Byte)
          /\ Len(s) = (offset + n) - (offset + 1) + 1
          /\ \A i \in 1..((offset + n) - (offset + 1) + 1) : s[i] = data[(offset + 1) + i - 1]
      BY <2>1, SubSeqProperties
    <2>3. (offset + n) - (offset + 1) + 1 = n /\ \A i \in 1..n : (offset + 1) + i - 1 = offset + i
      BY <1>1
    <2> QED BY <2>2, <2>3
  <1>3. Value(n) = Number(s)
    BY DEF Value
  <1> HIDE DEF s
  <1>4. Number(s) \in Nat
    <2>1. n \in 0..n
      BY <1>1
    <2> QED BY <1>1, <1>2, <2>1, NumberFacts
  <1> QED BY <1>2, <1>3, <1>4 DEF s

\* A prefix ends at its first byte without the flag.
LEMMA OnePrefix ==
  ASSUME data \in Seq(Byte), offset \in 0..Len(data),
         NEW n \in 1..MaxPrefix, NEW m \in 1..MaxPrefix, PrefixEnds(n), PrefixEnds(m)
  PROVE  n = m
  <1>1. /\ offset + n \in 1..Len(data) /\ offset + m \in 1..Len(data)
        /\ Len(data) \in Nat /\ offset \in Nat /\ n \in Nat /\ m \in Nat /\ n >= 1 /\ m >= 1
    BY LenProperties, PrefixHoldsEveryLength DEF PrefixEnds
  <1>2. data[offset + n] \in Nat /\ data[offset + m] \in Nat /\ Base \in Nat
    BY <1>1, ElementOfSeq, BaseAtLeastTwo DEF Byte
  <1>3. data[offset + n] < Base /\ data[offset + m] < Base
    BY DEF PrefixEnds
  <1>4. ~(n < m)
    <2>1. n < m => n \in 1..(m - 1)
      BY <1>1
    <2>2. n < m => data[offset + n] >= Base
      BY <2>1 DEF PrefixEnds
    <2> QED BY <1>2, <1>3, <2>2
  <1>5. ~(m < n)
    <2>1. m < n => m \in 1..(n - 1)
      BY <1>1
    <2>2. m < n => data[offset + m] >= Base
      BY <2>1 DEF PrefixEnds
    <2> QED BY <1>2, <1>3, <2>2
  <1> QED BY <1>1, <1>4, <1>5

LEMMA TypeStep == TypeOK /\ [Next]_vars => TypeOK'
  <1> SUFFICES ASSUME TypeOK, [Next]_vars PROVE TypeOK'
    OBVIOUS
  <1> DEFINE Slice == [from : 1..(Len(data) + 1), to : 0..offset]
  <1>1. /\ data \in Seq(Byte) /\ Len(data) \in Nat /\ offset \in 0..Len(data)
        /\ framed \in Seq(Payloads) /\ frames \in Seq(Slice)
    BY LenProperties DEF TypeOK
  <1>2. ASSUME NEW payload \in Payloads, Frame(payload) PROVE TypeOK'
    <2>1. payload \in Seq(Byte) /\ Len(payload) \in 0..MaxLength
      <3>1. payload \in Seq(Byte)
        BY PayloadsAreBytes
      <3>2. Len(payload) \in Nat /\ Len(payload) <= MaxLength
        BY <1>2, <3>1, LenProperties DEF Frame
      <3> QED BY <3>1, <3>2, PrefixHoldsEveryLength
    <2> DEFINE prefix == WriteVarint(Len(payload))
    <2>2. prefix \in Seq(Byte)
      BY <2>1, VarintFacts
    <2> HIDE DEF prefix
    <2>3. data' = (data \o prefix) \o payload
      BY <1>2 DEF Frame, prefix
    <2>4. data \o prefix \in Seq(Byte) /\ Len(data \o prefix) = Len(data) + Len(prefix)
      BY <1>1, <2>2, ConcatProperties
    <2>5. data' \in Seq(Byte) /\ Len(data') = (Len(data) + Len(prefix)) + Len(payload)
      BY <2>1, <2>3, <2>4, ConcatProperties
    <2>6. Len(data') \in Nat /\ Len(data') >= Len(data)
      BY <1>1, <2>1, <2>2, <2>5, LenProperties
    <2>7. framed' \in Seq(Payloads)
      BY <1>1, <1>2, AppendProperties DEF Frame
    <2>8. frames \in Seq([from : 1..(Len(data') + 1), to : 0..offset])
      <3>1. Slice \subseteq [from : 1..(Len(data') + 1), to : 0..offset]
        BY <1>1, <2>6
      <3> DEFINE Wide == [from : 1..(Len(data') + 1), to : 0..offset]
      <3> HIDE DEF Slice, Wide
      <3> QED BY <1>1, <3>1, SeqMonotonic DEF Wide
    <2>9. offset \in 0..Len(data')
      BY <1>1, <2>6
    <2>10. UNCHANGED <<status, offset, frames>>
      BY <1>2 DEF Frame
    <2> QED BY <2>5, <2>7, <2>8, <2>9, <2>10 DEF TypeOK
  <1>3. CASE Deliver
    BY <1>3 DEF Deliver, TypeOK
  <1>4. CASE Reject
    <2>1. frames' = <<>> /\ status' = "rejected" /\ UNCHANGED <<framed, data, offset>>
      BY <1>4 DEF Reject
    <2>2. frames' \in Seq(Slice) /\ DOMAIN frames' = {}
      <3> HIDE DEF Slice
      <3> QED BY <2>1
    <2> QED BY <1>1, <2>1, <2>2 DEF TypeOK
  <1>5. CASE Finish
    BY <1>5 DEF Finish, TypeOK
  <1>6. ASSUME NEW n \in 1..MaxPrefix, ReadFrame(n) PROVE TypeOK'
    <2> DEFINE end == offset + n + Value(n)
               new == [from |-> offset + n + 1, to |-> end]
               Wide == [from : 1..(Len(data) + 1), to : 0..end]
    <2>1. offset + n <= Len(data) /\ Value(n) \in Nat /\ end <= Len(data) /\ n \in Nat
      BY <1>1, <1>6, ValueFacts, PrefixHoldsEveryLength DEF ReadFrame, PrefixEnds, Fits
    <2>2. frames' = Append(frames, new) /\ offset' = end /\ UNCHANGED <<framed, data, status>>
      BY <1>6 DEF ReadFrame
    <2>3. new \in Wide /\ Slice \subseteq Wide /\ end \in 0..Len(data) /\ new.from <= new.to + 1
      BY <1>1, <2>1
    <2> HIDE DEF new, end
    <2>4. /\ frames' \in Seq(Wide)
          /\ Len(frames') = Len(frames) + 1 /\ Len(frames) \in Nat
          /\ \A i \in 1..Len(frames) : frames'[i] = frames[i]
          /\ frames'[Len(frames) + 1] = new
          /\ DOMAIN frames' = 1..(Len(frames) + 1) /\ DOMAIN frames = 1..Len(frames)
      <3> HIDE DEF Slice, Wide
      <3>1. frames \in Seq(Wide)
        BY <1>1, <2>3, SeqMonotonic
      <3>2. /\ frames' \in Seq(Wide)
            /\ Len(frames') = Len(frames) + 1
            /\ \A i \in 1..Len(frames) : frames'[i] = frames[i]
            /\ frames'[Len(frames) + 1] = new
        BY <2>2, <2>3, <3>1, AppendProperties
      <3> QED BY <3>1, <3>2, LenProperties
    <2>5. \A i \in DOMAIN frames' : frames'[i].from <= frames'[i].to + 1
      <3>1. \A i \in DOMAIN frames' : i \in DOMAIN frames \/ i = Len(frames) + 1
        BY <2>4
      <3>2. \A i \in DOMAIN frames : frames[i].from <= frames[i].to + 1
        BY DEF TypeOK
      <3> QED BY <2>3, <2>4, <3>1, <3>2
    <2>6. frames' \in Seq([from : 1..(Len(data') + 1), to : 0..offset'])
      BY <2>2, <2>4
    <2>7. offset' \in 0..Len(data')
      BY <2>2, <2>3
    <2> QED BY <2>2, <2>5, <2>6, <2>7 DEF TypeOK
  <1>7. CASE UNCHANGED vars
    BY <1>7 DEF vars, TypeOK
  <1> QED BY <1>2, <1>3, <1>4, <1>5, <1>6, <1>7 DEF Next, Reader

LEMMA TypeInit == Init => TypeOK
  <1> SUFFICES ASSUME Init PROVE TypeOK
    OBVIOUS
  <1>1. framed = <<>> /\ offset = 0 /\ frames = <<>>
    BY DEF Init
  <1>2. status \in {"writing", "reading"} /\ data \in Seq(Byte)
    <2>1. <<>> \in Seq(Byte)
      BY EmptySeq
    <2> QED BY <2>1, WildAreBytes DEF Init
  <1> DEFINE Slice == [from : 1..(Len(data) + 1), to : 0..offset]
  <1>3. <<>> \in Seq(Payloads) /\ <<>> \in Seq(Slice)
    <2> HIDE DEF Slice
    <2> QED OBVIOUS
  <1>4. Len(data) \in Nat
    BY <1>2, LenProperties
  <1> QED BY <1>1, <1>2, <1>3, <1>4 DEF TypeOK

\* What the model's variables hold: in particular that the reader's offset, and
\* each slice it hands on, stay inside the bytes received.
THEOREM TypeCorrect == Spec => []TypeOK
  BY TypeInit, TypeStep, PTL DEF Spec

----------------------------------------------------------------------------
\* The frames of the sender: payload k ends at byte b[k], and what is between
\* b[k - 1] and that are its prefix and its bytes.
Framing(b) ==
    /\ b \in [0..Len(framed) -> 0..Len(data)]
    /\ b[0] = 0 /\ b[Len(framed)] = Len(data)
    /\ \A k \in 1..Len(framed) :
          LET n == Digits(Len(framed[k])) IN
          /\ Len(framed[k]) <= MaxLength
          /\ b[k] = b[k - 1] + n + Len(framed[k])
          /\ \A i \in 1..n : data[b[k - 1] + i] = WriteVarint(Len(framed[k]))[i]
          /\ \A i \in 1..Len(framed[k]) : data[b[k - 1] + n + i] = framed[k][i]

\* The reader has found the first of them, and is at the end of the last it has found.
FoundSoFar(b) ==
    /\ Len(frames) <= Len(framed) /\ offset = b[Len(frames)]
    /\ \A k \in 1..Len(frames) :
          /\ frames[k].from = b[k - 1] + Digits(Len(framed[k])) + 1
          /\ frames[k].to = b[k]

Sent ==
    (status = "writing" \/ framed # <<>>) =>
        /\ status # "rejected" /\ (status = "writing" => frames = <<>>)
        /\ status = "split" => Len(frames) = Len(framed)
        /\ \E b : Framing(b) /\ FoundSoFar(b)

\* The reader finds the next of the sender's frames where it is.
LEMMA NextFrame ==
  ASSUME TypeOK, NEW b, Framing(b), FoundSoFar(b), Len(frames) < Len(framed)
  PROVE  LET k == Len(frames) + 1  n == Digits(Len(framed[k])) IN
         /\ n \in 1..MaxPrefix /\ PrefixEnds(n) /\ Fits(n)
         /\ Value(n) = Len(framed[k]) /\ b[k] = offset + n + Value(n)
         /\ k \in 1..Len(framed)
  <1> DEFINE k == Len(frames) + 1
             payload == framed[k]
             n == Digits(Len(payload))
             s == WriteVarint(Len(payload))
  <1>1. /\ data \in Seq(Byte) /\ offset \in 0..Len(data) /\ Len(data) \in Nat
        /\ Len(frames) \in Nat /\ Len(framed) \in Nat /\ framed \in Seq(Payloads)
    BY LenProperties DEF TypeOK
  <1>2. k \in 1..Len(framed) /\ k \in 0..Len(framed) /\ k - 1 = Len(frames)
    BY <1>1
  <1>3. payload \in Seq(Byte) /\ Len(payload) \in 0..MaxLength
    <2>1. payload \in Payloads
      BY <1>1, <1>2, ElementOfSeq
    <2>2. payload \in Seq(Byte)
      BY <2>1, PayloadsAreBytes
    <2>3. Len(payload) \in Nat
      BY <2>2, LenProperties
    <2>4. Len(payload) <= MaxLength
      BY <1>2 DEF Framing
    <2> QED BY <2>2, <2>3, <2>4, PrefixHoldsEveryLength
  <1>4. /\ s \in Seq(Byte) /\ Len(s) = n /\ n \in 1..MaxPrefix /\ n \in Nat
        /\ \A i \in 1..n : s[i] < Base <=> i = n
    BY <1>3, VarintFacts, PrefixHoldsEveryLength
  <1>5. /\ b[k] = offset + n + Len(payload) /\ b[k] \in 0..Len(data)
        /\ \A i \in 1..n : data[offset + i] = s[i]
    <2>1. b[k - 1] = offset
      BY <1>2 DEF FoundSoFar
    <2>2. /\ b[k] = b[k - 1] + n + Len(payload)
          /\ \A i \in 1..n : data[b[k - 1] + i] = s[i]
      BY <1>2 DEF Framing
    <2>3. b[k] \in 0..Len(data)
      BY <1>2 DEF Framing
    <2> QED BY <2>1, <2>2, <2>3
  <1>10. Number(s) = Len(payload)
    BY <1>3, VarintRoundTrip
  <1> HIDE DEF k, n, s, payload
  <1>6. offset + n <= Len(data) /\ n >= 1 /\ Len(payload) \in Nat
    BY <1>1, <1>3, <1>4, <1>5, PrefixHoldsEveryLength
  <1>7. Value(n) = Len(payload)
    <2> DEFINE t == SubSeq(data, offset + 1, offset + n)
    <2>1. t \in Seq(Byte) /\ Len(t) = n /\ \A i \in 1..n : t[i] = data[offset + i]
      BY <1>1, <1>4, <1>6, ValueFacts
    <2>2. Value(n) = Number(t)
      BY DEF Value
    <2> HIDE DEF t
    <2>3. t = s
      <3>1. \A i \in 1..Len(t) : t[i] = s[i]
        BY <1>5, <2>1
      <3> QED BY <1>4, <2>1, <3>1, SeqEqual
    <2> QED BY <1>10, <2>2, <2>3
  <1>8. PrefixEnds(n)
    <2>1. data[offset + n] < Base
      BY <1>4, <1>5, <1>6
    <2>2. ASSUME NEW i \in 1..(n - 1) PROVE data[offset + i] >= Base
      <3>1. i \in 1..n /\ i # n /\ i \in 1..Len(s)
        BY <1>4
      <3>2. s[i] \in Byte
        BY <1>4, <3>1, ElementOfSeq
      <3>3. s[i] \in Nat /\ Base \in Nat /\ ~(s[i] < Base)
        BY <1>4, <3>1, <3>2, BaseAtLeastTwo DEF Byte
      <3> QED BY <1>5, <3>1, <3>3
    <2> QED BY <1>4, <1>6, <2>1, <2>2 DEF PrefixEnds
  <1>9. Fits(n)
    BY <1>1, <1>3, <1>5, <1>7, PrefixHoldsEveryLength DEF Fits
  <1> QED BY <1>2, <1>4, <1>5, <1>7, <1>8, <1>9 DEF k, n, payload

LEMMA SentStep == TypeOK /\ Sent /\ [Next]_vars => Sent'
  <1> SUFFICES ASSUME TypeOK, Sent, [Next]_vars PROVE Sent'
    OBVIOUS
  <1>1. /\ data \in Seq(Byte) /\ Len(data) \in Nat /\ offset \in 0..Len(data)
        /\ framed \in Seq(Payloads) /\ Len(framed) \in Nat /\ Len(frames) \in Nat
        /\ DOMAIN frames = 1..Len(frames)
    BY LenProperties DEF TypeOK
  <1>2. CASE UNCHANGED <<framed, data, status, offset, frames>>
    BY <1>2 DEF Sent, Framing, FoundSoFar
  <1>3. CASE Deliver
    BY <1>3 DEF Deliver, Sent, Framing, FoundSoFar
  <1>4. ASSUME NEW payload \in Payloads, Frame(payload) PROVE Sent'
    <2> DEFINE prefix == WriteVarint(Len(payload))
               n == Digits(Len(payload))
               last == Len(framed) + 1
               end == Len(data) + n + Len(payload)
    <2>1. /\ status = "writing" /\ status' = "writing" /\ frames' = frames /\ offset' = offset
          /\ framed' = Append(framed, payload)
          /\ data' = (data \o prefix) \o payload
          /\ Len(payload) <= MaxLength
      BY <1>4 DEF Frame
    <2>2. payload \in Seq(Byte) /\ Len(payload) \in 0..MaxLength /\ Len(payload) \in Nat
      <3>1. payload \in Seq(Byte)
        BY PayloadsAreBytes
      <3>2. Len(payload) \in Nat
        BY <3>1, LenProperties
      <3> QED BY <2>1, <3>1, <3>2, PrefixHoldsEveryLength
    <2>3. prefix \in Seq(Byte) /\ Len(prefix) = n /\ n \in Nat /\ n >= 1
      BY <2>2, VarintFacts, PrefixHoldsEveryLength
    <2>4. PICK b : frames = <<>> /\ Framing(b) /\ FoundSoFar(b)
      BY <2>1 DEF Sent
    <2>5. /\ Len(framed') = last /\ framed'[last] = payload
          /\ \A k \in 1..Len(framed) : framed'[k] = framed[k]
      BY <1>1, <2>1, AppendProperties
    <2>6. /\ last \in Nat /\ last - 1 = Len(framed) /\ end \in Nat /\ end > Len(data)
          /\ \A k \in 1..last : k \in 1..Len(framed) \/ k = last
          /\ \A k \in 0..last : k \in 0..Len(framed) \/ k = last
      BY <1>1, <2>2, <2>3
    <2>7. /\ Len(data') = end
          /\ \A i \in 1..Len(data) : data'[i] = data[i]
          /\ \A i \in 1..n : data'[Len(data) + i] = prefix[i]
          /\ \A i \in 1..Len(payload) : data'[Len(data) + n + i] = payload[i]
      <3> DEFINE d == data \o prefix
      <3>1. /\ d \in Seq(Byte) /\ Len(d) = Len(data) + Len(prefix)
            /\ \A i \in 1..(Len(data) + Len(prefix)) :
                  d[i] = IF i <= Len(data) THEN data[i] ELSE prefix[i - Len(data)]
        BY <1>1, <2>3, ConcatProperties
      <3>2. data' = d \o payload
        BY <2>1
      <3> HIDE DEF d, prefix, n
      <3>3. /\ Len(data') = Len(d) + Len(payload)
            /\ \A i \in 1..(Len(d) + Len(payload)) :
                  data'[i] = IF i <= Len(d) THEN d[i] ELSE payload[i - Len(d)]
        <4>1. /\ Len(d \o payload) = Len(d) + Len(payload)
              /\ \A i \in 1..(Len(d) + Len(payload)) :
                    (d \o payload)[i] = IF i <= Len(d) THEN d[i] ELSE payload[i - Len(d)]
          <5>1. d \in Seq(Byte) /\ payload \in Seq(Byte)
            BY <2>2, <3>1
          <5> QED BY <5>1, ConcatProperties
        <4> QED BY <3>2, <4>1
      <3>4. Len(d) = Len(data) + n
        BY <2>3, <3>1
      <3>5. ASSUME NEW i \in 1..Len(data) PROVE data'[i] = data[i]
        <4>1. i <= Len(d) /\ i \in 1..(Len(d) + Len(payload)) /\ i \in 1..(Len(data) + Len(prefix))
              /\ i <= Len(data)
          BY <1>1, <2>2, <2>3, <3>4
        <4> QED BY <3>1, <3>3, <4>1
      <3>6. ASSUME NEW i \in 1..n PROVE data'[Len(data) + i] = prefix[i]
        <4> DEFINE j == Len(data) + i
        <4>1. j <= Len(d) /\ j \in 1..(Len(d) + Len(payload)) /\ j \in 1..(Len(data) + Len(prefix))
              /\ ~(j <= Len(data)) /\ j - Len(data) = i
          BY <1>1, <2>2, <2>3, <3>4
        <4> HIDE DEF j
        <4>2. data'[j] = prefix[i]
          BY <3>1, <3>3, <4>1
        <4> QED BY <4>2 DEF j
      <3>7. ASSUME NEW i \in 1..Len(payload) PROVE data'[Len(data) + n + i] = payload[i]
        <4> DEFINE j == Len(data) + n + i
        <4>1. ~(j <= Len(d)) /\ j \in 1..(Len(d) + Len(payload)) /\ j - Len(d) = i
          BY <1>1, <2>2, <2>3, <3>4
        <4> HIDE DEF j
        <4>2. data'[j] = payload[i]
          BY <3>3, <4>1
        <4> QED BY <4>2 DEF j
      <3>8. Len(data') = end
        BY <3>3, <3>4 DEF n
      <3> QED BY <3>5, <3>6, <3>7, <3>8
    <2> HIDE DEF prefix, end, last, n
    <2>12. PICK c : c = [k \in 0..last |-> IF k = last THEN end ELSE b[k]]
      OBVIOUS
    <2>8. c[last] = end /\ DOMAIN c = 0..last /\ \A k \in 0..Len(framed) : c[k] = b[k]
      BY <1>1, <2>6, <2>12
    <2>9. /\ b \in [0..Len(framed) -> 0..Len(data)] /\ b[0] = 0 /\ b[Len(framed)] = Len(data)
      BY <2>4 DEF Framing
    <2>10. Framing(c)'
      <3>1. c \in [0..Len(framed') -> 0..Len(data')]
        <4>1. ASSUME NEW k \in 0..last PROVE c[k] \in 0..end
          <5>1. CASE k = last
            BY <2>6, <2>8, <5>1
          <5>2. CASE k \in 0..Len(framed)
            <6>1. c[k] = b[k] /\ b[k] \in 0..Len(data)
              BY <2>8, <2>9, <5>2
            <6> QED BY <1>1, <2>6, <6>1
          <5> QED BY <2>6, <5>1, <5>2
        <4>2. c = [k \in 0..last |-> c[k]]
          BY <2>12
        <4> QED BY <2>5, <2>7, <4>1, <4>2
      <3>2. c[0] = 0 /\ c[Len(framed')] = Len(data')
        BY <1>1, <2>5, <2>7, <2>8, <2>9
      <3>3. ASSUME NEW k \in 1..Len(framed)
            PROVE  LET m == Digits(Len(framed'[k])) IN
                   /\ Len(framed'[k]) <= MaxLength
                   /\ c[k] = c[k - 1] + m + Len(framed'[k])
                   /\ \A i \in 1..m : data'[c[k - 1] + i] = WriteVarint(Len(framed'[k]))[i]
                   /\ \A i \in 1..Len(framed'[k]) : data'[c[k - 1] + m + i] = framed'[k][i]
        <4> DEFINE p == framed[k]
                   m == Digits(Len(p))
                   o == b[k - 1]
        <4>1. /\ framed'[k] = p /\ c[k] = b[k] /\ c[k - 1] = o
              /\ o \in 0..Len(data) /\ b[k] \in 0..Len(data)
          <5>1. k \in 0..Len(framed) /\ k - 1 \in 0..Len(framed)
            BY <1>1
          <5>2. c[k] = b[k] /\ c[k - 1] = b[k - 1]
            BY <2>8, <5>1
          <5>3. b[k - 1] \in 0..Len(data) /\ b[k] \in 0..Len(data)
            BY <2>9, <5>1
          <5> QED BY <2>5, <5>2, <5>3
        <4>2. /\ Len(p) <= MaxLength /\ b[k] = o + m + Len(p)
              /\ \A i \in 1..m : data[o + i] = WriteVarint(Len(p))[i]
              /\ \A i \in 1..Len(p) : data[o + m + i] = p[i]
          BY <2>4 DEF Framing
        <4>3. Len(p) \in Nat /\ m \in Nat
          <5>1. p \in Payloads
            BY <1>1, ElementOfSeq
          <5>2. Len(p) \in Nat
            BY <5>1, PayloadsAreBytes, LenProperties
          <5>3. Len(p) \in 0..MaxLength
            BY <4>2, <5>2, PrefixHoldsEveryLength
          <5> QED BY <5>2, <5>3, DigitsFacts, PrefixHoldsEveryLength
        <4> HIDE DEF o, m, p
        <4>4. \A i \in 1..m : o + i \in 1..Len(data)
          BY <1>1, <4>1, <4>2, <4>3
        <4>5. \A i \in 1..Len(p) : o + m + i \in 1..Len(data)
          BY <1>1, <4>1, <4>2, <4>3
        <4>6. \A i \in 1..m : data'[o + i] = WriteVarint(Len(p))[i]
          BY <2>7, <4>2, <4>4
        <4>7. \A i \in 1..Len(p) : data'[o + m + i] = p[i]
          BY <2>7, <4>2, <4>5
        <4> QED BY <4>1, <4>2, <4>6, <4>7 DEF m
      <3>4. /\ Len(framed'[last]) <= MaxLength
            /\ c[last] = c[last - 1] + n + Len(framed'[last])
            /\ \A i \in 1..n : data'[c[last - 1] + i] = prefix[i]
            /\ \A i \in 1..Len(framed'[last]) : data'[c[last - 1] + n + i] = framed'[last][i]
        <4>1. c[last - 1] = Len(data) /\ c[last] = Len(data) + n + Len(payload)
          BY <1>1, <2>6, <2>8, <2>9 DEF end
        <4> QED BY <2>1, <2>5, <2>7, <4>1
      <3>5. n = Digits(Len(framed'[last])) /\ prefix = WriteVarint(Len(framed'[last]))
        BY <2>5 DEF n, prefix
      <3>6. ASSUME NEW k \in 1..Len(framed')
            PROVE  LET m == Digits(Len(framed'[k])) IN
                   /\ Len(framed'[k]) <= MaxLength
                   /\ c[k] = c[k - 1] + m + Len(framed'[k])
                   /\ \A i \in 1..m : data'[c[k - 1] + i] = WriteVarint(Len(framed'[k]))[i]
                   /\ \A i \in 1..Len(framed'[k]) : data'[c[k - 1] + m + i] = framed'[k][i]
        <4>1. CASE k \in 1..Len(framed)
          BY <3>3, <4>1
        <4>2. CASE k = last
          BY <3>4, <3>5, <4>2
        <4> QED BY <2>5, <2>6, <4>1, <4>2
      <3> QED BY <3>1, <3>2, <3>6 DEF Framing
    <2>11. FoundSoFar(c)'
      <3>1. Len(frames) = 0 /\ offset = b[0]
        BY <2>4 DEF FoundSoFar
      <3>2. c[0] = b[0] /\ 0 <= last
        BY <1>1, <2>6, <2>8
      <3>3. Len(frames') <= Len(framed') /\ offset' = c[Len(frames')] /\ 1..Len(frames') = {}
        BY <2>1, <2>5, <3>1, <3>2
      <3> QED BY <3>3 DEF FoundSoFar
    <2> QED BY <2>1, <2>4, <2>10, <2>11 DEF Sent
  <1>5. CASE Reject
    <2>1. status = "reading" /\ framed' = framed /\ status' = "rejected" /\ offset < Len(data)
          /\ ~\E n \in 1..MaxPrefix : PrefixEnds(n) /\ Fits(n)
      BY <1>5 DEF Reject
    <2>2. ASSUME framed # <<>> PROVE FALSE
      <3>1. PICK b : Framing(b) /\ FoundSoFar(b)
        BY <2>2 DEF Sent
      <3>2. Len(frames) < Len(framed)
        BY <1>1, <2>1, <3>1 DEF Framing, FoundSoFar
      <3> QED BY <2>1, <3>1, <3>2, NextFrame
    <2> QED BY <2>1, <2>2 DEF Sent
  <1>6. CASE Finish
    <2>1. /\ status = "reading" /\ offset = Len(data) /\ status' = "split"
          /\ UNCHANGED <<framed, data, offset, frames>>
      BY <1>6 DEF Finish
    <2>2. ASSUME framed # <<>>
          PROVE  Len(frames) = Len(framed) /\ \E b : Framing(b) /\ FoundSoFar(b)
      <3>1. PICK b : Framing(b) /\ FoundSoFar(b)
        BY <2>2 DEF Sent
      <3>2. ~(Len(frames) < Len(framed))
        <4> SUFFICES ASSUME Len(frames) < Len(framed) PROVE FALSE
          OBVIOUS
        <4>1. \E n \in 1..MaxPrefix : PrefixEnds(n)
          BY <3>1, NextFrame
        <4> QED BY <1>1, <2>1, <4>1, PrefixHoldsEveryLength DEF PrefixEnds
      <3> QED BY <1>1, <3>1, <3>2 DEF FoundSoFar
    <2> QED BY <2>1, <2>2 DEF Sent, Framing, FoundSoFar
  <1>7. ASSUME NEW n \in 1..MaxPrefix, ReadFrame(n) PROVE Sent'
    <2> DEFINE end == offset + n + Value(n)
               new == [from |-> offset + n + 1, to |-> end]
    <2>1. /\ status = "reading" /\ offset < Len(data) /\ PrefixEnds(n) /\ Fits(n)
          /\ UNCHANGED <<framed, data, status>>
          /\ frames' = Append(frames, new) /\ offset' = end
      BY <1>7 DEF ReadFrame
    <2>2. ASSUME framed # <<>> PROVE \E b : (Framing(b) /\ FoundSoFar(b))'
      <3>1. PICK b : Framing(b) /\ FoundSoFar(b)
        BY <2>2 DEF Sent
      <3> DEFINE k == Len(frames) + 1
      <3>2. Len(frames) < Len(framed)
        BY <1>1, <2>1, <3>1 DEF Framing, FoundSoFar
      <3>3. /\ Digits(Len(framed[k])) \in 1..MaxPrefix /\ PrefixEnds(Digits(Len(framed[k])))
            /\ b[k] = offset + Digits(Len(framed[k])) + Value(Digits(Len(framed[k])))
            /\ k \in 1..Len(framed)
        BY <3>1, <3>2, NextFrame
      <3>4. n = Digits(Len(framed[k])) /\ b[k] = end
        <4>1. n = Digits(Len(framed[k]))
          BY <1>1, <2>1, <3>3, OnePrefix
        <4> QED BY <3>3, <4>1
      <3> HIDE DEF end
      <3>5. /\ Len(frames') = k /\ frames'[k] = new
            /\ \A i \in 1..Len(frames) : frames'[i] = frames[i]
        <4> DEFINE Any == [from : Int, to : Int]
                   Slice == [from : 1..(Len(data) + 1), to : 0..offset]
        <4>1. frames \in Seq(Any)
          <5>1. frames \in Seq(Slice) /\ Slice \subseteq Any
            BY <1>1 DEF TypeOK
          <5> HIDE DEF Slice, Any
          <5> QED BY <5>1, SeqMonotonic
        <4>2. new \in Any
          <5>1. n \in Int /\ Value(n) \in Int /\ offset + n \in Int
            BY <1>1, <2>1, ValueFacts, PrefixHoldsEveryLength DEF PrefixEnds
          <5> QED BY <1>1, <5>1 DEF end
        <4> HIDE DEF Any, new
        <4> QED BY <2>1, <4>1, <4>2, AppendProperties
      <3>6. Framing(b)'
        BY <2>1, <3>1 DEF Framing
      <3>7. FoundSoFar(b)'
        <4>1. k \in Nat /\ k <= Len(framed) /\ k - 1 = Len(frames) /\ Len(framed') = Len(framed)
              /\ \A i \in 1..k : i \in 1..Len(frames) \/ i = k
          BY <1>1, <2>1, <3>3
        <4>2. offset = b[k - 1]
          BY <3>1, <4>1 DEF FoundSoFar
        <4>3. new.from = b[k - 1] + Digits(Len(framed[k])) + 1 /\ new.to = b[k]
          BY <3>4, <4>2
        <4> HIDE DEF new, k
        <4>4. \A i \in 1..Len(frames) : frames[i].from = b[i - 1] + Digits(Len(framed[i])) + 1
                                        /\ frames[i].to = b[i]
          BY <3>1 DEF FoundSoFar
        <4>5. \A i \in 1..k : frames'[i].from = b[i - 1] + Digits(Len(framed[i])) + 1
                              /\ frames'[i].to = b[i]
          BY <3>5, <4>1, <4>3, <4>4
        <4> QED BY <2>1, <3>4, <3>5, <4>1, <4>5 DEF FoundSoFar
      <3> QED BY <3>6, <3>7
    <2> QED BY <2>1, <2>2 DEF Sent
  <1> QED BY <1>2, <1>3, <1>4, <1>5, <1>6, <1>7 DEF Next, Reader, vars

LEMMA SentInit == Init => Sent
  <1> SUFFICES ASSUME Init PROVE Sent
    OBVIOUS
  <1>1. framed = <<>> /\ frames = <<>> /\ offset = 0
        /\ (status = "writing" => data = <<>>) /\ status \in {"writing", "reading"}
    BY DEF Init
  <1> DEFINE b == [k \in 0..0 |-> 0]
  <1>2. ASSUME status = "writing" PROVE Framing(b) /\ FoundSoFar(b)
    <2>1. Len(framed) = 0 /\ Len(frames) = 0 /\ Len(data) = 0
      BY <1>1, <1>2
    <2> QED BY <1>1, <2>1 DEF Framing, FoundSoFar
  <1> QED BY <1>1, <1>2 DEF Sent

LEMMA SentRecovers == TypeOK /\ Sent => PayloadsRecovered
  <1> SUFFICES ASSUME TypeOK, Sent, framed # <<>>, status = "split"
               PROVE  framed = [i \in DOMAIN frames |-> SubSeq(data, frames[i].from, frames[i].to)]
    BY DEF Sent, PayloadsRecovered
  <1>1. /\ data \in Seq(Byte) /\ Len(data) \in Nat
        /\ framed \in Seq(Payloads) /\ Len(framed) \in Nat
        /\ DOMAIN framed = 1..Len(framed) /\ DOMAIN frames = 1..Len(frames)
        /\ framed = [i \in 1..Len(framed) |-> framed[i]]
    BY LenProperties DEF TypeOK
  <1>2. PICK b : Len(frames) = Len(framed) /\ Framing(b) /\ FoundSoFar(b)
    BY DEF Sent
  <1>3. ASSUME NEW k \in 1..Len(framed)
        PROVE  framed[k] = SubSeq(data, frames[k].from, frames[k].to)
    <2> DEFINE p == framed[k]
               m == Digits(Len(p))
               from == b[k - 1] + m + 1
    <2>1. frames[k].from = from /\ frames[k].to = b[k]
      BY <1>2 DEF FoundSoFar
    <2>2. b[k - 1] \in 0..Len(data) /\ b[k] \in 0..Len(data) /\ Len(p) <= MaxLength
          /\ b[k] = b[k - 1] + m + Len(p) /\ \A i \in 1..Len(p) : data[b[k - 1] + m + i] = p[i]
      BY <1>1, <1>2 DEF Framing
    <2>3. p \in Seq(Byte) /\ Len(p) \in Nat /\ m \in Nat
      <3>1. p \in Payloads
        BY <1>1, ElementOfSeq
      <3>2. p \in Seq(Byte)
        BY <3>1, PayloadsAreBytes
      <3>3. Len(p) \in Nat
        BY <3>2, LenProperties
      <3>4. Len(p) \in 0..MaxLength
        BY <2>2, <3>3, PrefixHoldsEveryLength
      <3> QED BY <3>2, <3>4, DigitsFacts, PrefixHoldsEveryLength
    <2> HIDE DEF m, p
    <2>4. /\ from \in Int /\ b[k] \in Int /\ b[k] - from + 1 = Len(p)
          /\ (IF from <= b[k] THEN b[k] - from + 1 ELSE 0) = Len(p)
          /\ \A i \in from..b[k] : i \in 1..Len(data)
          /\ \A i \in 1..Len(p) : from + i - 1 = b[k - 1] + m + i
      <3> DEFINE o == b[k - 1]
                 e == b[k]
      <3>1. o \in Nat /\ e \in Nat /\ e <= Len(data) /\ e = o + m + Len(p)
        BY <1>1, <2>2
      <3>2. from = o + m + 1
        OBVIOUS
      <3> HIDE DEF o, e, from
      <3>3. from \in Int /\ from >= 1 /\ e - from + 1 = Len(p) /\ (from <= e \/ Len(p) = 0)
        BY <2>3, <3>1, <3>2
      <3>4. \A i \in from..e : i \in 1..Len(data)
        BY <1>1, <3>1, <3>3
      <3>5. \A i \in 1..Len(p) : from + i - 1 = o + m + i
        BY <2>3, <3>1, <3>2
      <3>6. (IF from <= e THEN e - from + 1 ELSE 0) = Len(p)
        BY <2>3, <3>1, <3>3
      <3> QED BY <3>1, <3>3, <3>4, <3>5, <3>6 DEF o, e
    <2> HIDE DEF from
    <2>5. \A i \in from..b[k] : data[i] \in Byte
      BY <1>1, <2>4, ElementOfSeq
    <2> DEFINE t == SubSeq(data, from, b[k])
    <2>6. t \in Seq(Byte) /\ Len(t) = Len(p) /\ \A i \in 1..Len(p) : t[i] = data[from + i - 1]
      BY <2>4, <2>5, SubSeqProperties
    <2> HIDE DEF t
    <2>7. \A i \in 1..Len(p) : p[i] = t[i]
      BY <2>2, <2>4, <2>6
    <2>8. p = t
      BY <2>3, <2>6, <2>7, SeqEqual
    <2> QED BY <2>1, <2>8 DEF t, p
  <1> QED BY <1>1, <1>2, <1>3

\* Whatever payloads a sender frames into one binary message, the reader hands
\* on those payloads, in their order and byte for byte, and never rejects the
\* message (frame_messagepack_payload against split_messagepack_frames).
THEOREM PayloadsComeBack == Spec => []PayloadsRecovered
  <1>1. Spec => [](TypeOK /\ Sent)
    <2>1. Init => TypeOK /\ Sent
      BY TypeInit, SentInit
    <2>2. TypeOK /\ Sent /\ [Next]_vars => (TypeOK /\ Sent)'
      BY TypeStep, SentStep
    <2> QED BY <2>1, <2>2, PTL DEF Spec
  <1>2. TypeOK /\ Sent => PayloadsRecovered
    BY SentRecovers
  <1> QED BY <1>1, <1>2, PTL

----------------------------------------------------------------------------
\* The ways to cut the data, and where the frames found so far end.
AllCuts == {S \cup {Len(data)} : S \in SUBSET (1..(Len(data) - 1))}

Ends == {frames[i].to : i \in DOMAIN frames}

\* The reader has cut what is behind it into frames, the way every cut of the
\* data into frames has to.
Walked ==
    /\ status = "writing" => frames = <<>> /\ offset = 0
    /\ status = "split" => offset = Len(data)
    /\ status # "rejected" =>
          /\ Ends \subseteq 1..offset /\ offset \in {0} \cup Ends
          /\ Splittable(Ends)
          /\ data # <<>> =>
                \A cut \in AllCuts : Splittable(cut) => {e \in cut : e <= offset} = Ends
    /\ status = "rejected" => \A cut \in AllCuts : ~Splittable(cut)

LEMMA CutFacts ==
  ASSUME data \in Seq(Byte), data # <<>>, NEW cut \in AllCuts
  PROVE  cut \subseteq 1..Len(data) /\ Len(data) \in cut
  <1>1. Len(data) \in Nat \ {0}
    BY EmptySeq
  <1>2. PICK S \in SUBSET (1..(Len(data) - 1)) : cut = S \cup {Len(data)}
    BY DEF AllCuts
  <1>3. \A e \in cut : e \in 1..(Len(data) - 1) \/ e = Len(data)
    BY <1>2
  <1>4. Len(data) \in cut
    BY <1>2
  <1>5. \A e \in cut : e \in 1..Len(data)
    BY <1>1, <1>3
  <1> QED BY <1>4, <1>5

\* What can be split depends on the data alone.
LEMMA SameCuts ==
  ASSUME data' = data
  PROVE  AllCuts' = AllCuts /\ \A S : Splittable(S)' <=> Splittable(S)
  <1>1. AllCuts' = AllCuts
    BY DEF AllCuts
  <1>2. \A lo, hi : OneFrame(lo, hi)' <=> OneFrame(lo, hi)
    BY DEF OneFrame
  <1>3. ASSUME NEW S PROVE Splittable(S)' <=> Splittable(S)
    BY <1>2, Zenon DEF Splittable
  <1> QED BY <1>1, <1>3

\* A frame of the reference at the reader's offset is one the reader finds.
LEMMA OneFrameHere ==
  ASSUME TypeOK, NEW e \in 0..Len(data)
  PROVE  OneFrame(offset + 1, e) <=>
           \E n \in 1..MaxPrefix : PrefixEnds(n) /\ Fits(n) /\ e = offset + n + Value(n)
  <1>1. /\ data \in Seq(Byte) /\ Len(data) \in Nat /\ offset \in 0..Len(data) /\ offset \in Nat
        /\ e \in Nat /\ e <= Len(data) /\ Base \in Nat /\ MaxLength \in Nat
    BY LenProperties, BaseAtLeastTwo, PrefixHoldsEveryLength DEF TypeOK
  <1>2. ASSUME NEW n \in 1..MaxPrefix
        PROVE  /\ n \in Nat /\ n >= 1 /\ (offset + 1) + n - 1 = offset + n
               /\ \A i \in 1..n : (offset + 1) + i - 1 = offset + i
               /\ Number(SubSeq(data, offset + 1, (offset + 1) + n - 1)) = Value(n)
    <2>1. n \in Nat /\ n >= 1 /\ (offset + 1) + n - 1 = offset + n
          /\ \A i \in 1..n : (offset + 1) + i - 1 = offset + i
      BY <1>1, PrefixHoldsEveryLength
    <2> QED BY <2>1 DEF Value
  <1>3. ASSUME NEW n \in 1..MaxPrefix, offset + n <= Len(data)
        PROVE  PrefixEnds(n) <=> \A i \in 1..n : (data[offset + i] < Base) <=> (i = n)
    <2>1. ASSUME NEW i \in 1..n PROVE data[offset + i] \in Nat
      <3>1. offset + i \in 1..Len(data)
        BY <1>1, <1>2, <1>3
      <3>2. data[offset + i] \in Byte
        BY <1>1, <3>1, ElementOfSeq
      <3> QED BY <1>1, <3>2 DEF Byte
    <2>2. n \in 1..n /\ \A i \in 1..n : i = n \/ i \in 1..(n - 1)
      BY <1>2
    <2>3. \A i \in 1..(n - 1) : i \in 1..n /\ i # n
      BY <1>2
    <2>4. ASSUME PrefixEnds(n), NEW i \in 1..n PROVE (data[offset + i] < Base) <=> (i = n)
      <3>1. CASE i = n
        BY <2>4, <3>1 DEF PrefixEnds
      <3>2. CASE i \in 1..(n - 1)
        <4>1. data[offset + i] >= Base /\ data[offset + i] \in Nat /\ i # n
          BY <2>1, <2>3, <2>4, <3>2 DEF PrefixEnds
        <4> QED BY <1>1, <4>1
      <3> QED BY <2>2, <3>1, <3>2
    <2>5. ASSUME \A i \in 1..n : (data[offset + i] < Base) <=> (i = n) PROVE PrefixEnds(n)
      <3>1. data[offset + n] < Base
        BY <2>2, <2>5
      <3>2. ASSUME NEW i \in 1..(n - 1) PROVE data[offset + i] >= Base
        <4>1. ~(data[offset + i] < Base) /\ data[offset + i] \in Nat
          BY <2>1, <2>3, <2>5
        <4> QED BY <1>1, <4>1
      <3> QED BY <1>3, <3>1, <3>2 DEF PrefixEnds
    <2> QED BY <2>4, <2>5
  <1>4. ASSUME NEW n \in 1..MaxPrefix, PrefixEnds(n), Fits(n), e = offset + n + Value(n)
        PROVE  OneFrame(offset + 1, e)
    <2>1. offset + n <= Len(data) /\ Value(n) \in Nat /\ Value(n) <= MaxLength
      BY <1>1, <1>4, ValueFacts DEF PrefixEnds, Fits
    <2>2. \A i \in 1..n : (data[offset + i] < Base) <=> (i = n)
      BY <1>3, <1>4, <2>1
    <2>3. (offset + 1) + n - 1 <= e /\ Value(n) = e - (offset + 1) - n + 1
      BY <1>1, <1>2, <1>4, <2>1
    <2>4. \A i \in 1..n : (data[(offset + 1) + i - 1] < Base) <=> (i = n)
      BY <1>2, <2>2
    <2> QED BY <1>2, <2>1, <2>3, <2>4 DEF OneFrame
  <1>5. ASSUME OneFrame(offset + 1, e)
        PROVE  \E n \in 1..MaxPrefix : PrefixEnds(n) /\ Fits(n) /\ e = offset + n + Value(n)
    <2>1. PICK n \in 1..MaxPrefix :
             /\ (offset + 1) + n - 1 <= e
             /\ \A i \in 1..n : (data[(offset + 1) + i - 1] < Base) <=> (i = n)
             /\ LET length == Number(SubSeq(data, offset + 1, (offset + 1) + n - 1)) IN
                length <= MaxLength /\ length = e - (offset + 1) - n + 1
      BY <1>5 DEF OneFrame
    <2>2. /\ offset + n <= e /\ Value(n) <= MaxLength /\ Value(n) = e - (offset + 1) - n + 1
          /\ \A i \in 1..n : (data[offset + i] < Base) <=> (i = n)
      BY <1>2, <2>1
    <2>3. offset + n <= Len(data) /\ e = offset + n + Value(n)
      BY <1>1, <1>2, <2>2
    <2>4. PrefixEnds(n)
      BY <1>3, <2>2, <2>3
    <2>5. Fits(n)
      BY <1>1, <2>2, <2>3 DEF Fits
    <2> QED BY <2>3, <2>4, <2>5
  <1> QED BY <1>4, <1>5

\* In a cut that agrees with the reader so far the next frame is the reader's.
LEMMA NextEnd ==
  ASSUME TypeOK, Walked, status = "reading", offset < Len(data),
         NEW cut \in AllCuts, Splittable(cut)
  PROVE  \E n \in 1..MaxPrefix :
            /\ PrefixEnds(n) /\ Fits(n) /\ offset + n + Value(n) \in cut
            /\ \A c \in cut : c <= offset \/ c >= offset + n + Value(n)
  <1>1. data \in Seq(Byte) /\ Len(data) \in Nat /\ offset \in Nat /\ data # <<>>
    <2>1. data \in Seq(Byte) /\ Len(data) \in Nat /\ offset \in Nat
      BY LenProperties DEF TypeOK
    <2> QED BY <2>1
  <1>2. cut \subseteq 1..Len(data) /\ Len(data) \in cut
    BY <1>1, CutFacts
  <1>3. {c \in cut : c <= offset} = Ends /\ offset \in {0} \cup Ends
    BY <1>1 DEF Walked
  <1> DEFINE Later == {c \in cut : c > offset}
  <1>4. PICK e \in Later : \A c \in Later : e <= c
    <2>1. Later \subseteq Nat /\ Later # {}
      <3>1. Len(data) \in Later
        BY <1>1, <1>2
      <3>2. \A c \in Later : c \in 1..Len(data)
        BY <1>2
      <3>3. \A c \in 1..Len(data) : c \in Nat
        BY <1>1
      <3> QED BY <3>1, <3>2, <3>3
    <2> HIDE DEF Later
    <2> QED BY <2>1, LeastNatural
  <1>5. e \in cut /\ e \in 0..Len(data) /\ e > offset
    BY <1>1, <1>2, <1>4
  <1>6. PICK b \in {0} \cup cut : b < e /\ (\A c \in cut : ~(b < c /\ c < e)) /\ OneFrame(b + 1, e)
    BY <1>5 DEF Splittable
  <1>7. b = offset
    <2>1. b \in Nat
      BY <1>1, <1>2
    <2>2. ~(b > offset)
      <3> SUFFICES ASSUME b > offset PROVE FALSE
        OBVIOUS
      <3>1. b \in Later
        BY <1>1, <2>1
      <3>2. e <= b
        BY <1>4, <3>1
      <3> QED BY <1>5, <1>6, <2>1, <3>2
    <2>3. ~(b < offset)
      <3> SUFFICES ASSUME b < offset PROVE FALSE
        OBVIOUS
      <3>1. offset \in cut
        BY <1>1, <1>3, <2>1
      <3> QED BY <1>5, <1>6, <3>1
    <2> QED BY <1>1, <2>1, <2>2, <2>3
  <1>8. PICK n \in 1..MaxPrefix : PrefixEnds(n) /\ Fits(n) /\ e = offset + n + Value(n)
    BY <1>5, <1>6, <1>7, OneFrameHere
  <1>9. ASSUME NEW c \in cut PROVE c <= offset \/ c >= e
    <2>1. c \in Nat /\ e \in Nat
      BY <1>1, <1>2, <1>5
    <2>2. c > offset => c \in Later
      OBVIOUS
    <2>3. c \in Later => e <= c
      BY <1>4
    <2> QED BY <1>1, <2>1, <2>2, <2>3
  <1> QED BY <1>5, <1>8, <1>9

LEMMA WalkedInit == Init => Walked
  <1> SUFFICES ASSUME Init PROVE Walked
    OBVIOUS
  <1>1. frames = <<>> /\ offset = 0 /\ status \in {"writing", "reading"} /\ data \in Seq(Byte)
    <2>1. <<>> \in Seq(Byte)
      BY EmptySeq
    <2> QED BY <2>1, WildAreBytes DEF Init
  <1>2. Ends = {} /\ Splittable(Ends)
    BY <1>1 DEF Ends, Splittable
  <1>3. ASSUME NEW cut \in AllCuts, data # <<>> PROVE {e \in cut : e <= offset} = {}
    <2>1. cut \subseteq 1..Len(data) /\ Len(data) \in Nat
      BY <1>1, <1>3, CutFacts, LenProperties
    <2>2. \A e \in cut : ~(e <= offset)
      BY <1>1, <2>1
    <2> QED BY <2>2
  <1> QED BY <1>1, <1>2, <1>3 DEF Walked

LEMMA WalkedStep == TypeOK /\ Walked /\ [Next]_vars => Walked'
  <1> SUFFICES ASSUME TypeOK, Walked, [Next]_vars PROVE Walked'
    OBVIOUS
  <1>1. /\ data \in Seq(Byte) /\ Len(data) \in Nat /\ offset \in Nat /\ offset \in 0..Len(data)
        /\ DOMAIN frames = 1..Len(frames) /\ Len(frames) \in Nat
    BY LenProperties DEF TypeOK
  <1>2. CASE UNCHANGED vars
    <2>1. data' = data /\ status' = status /\ offset' = offset /\ frames' = frames /\ Ends' = Ends
      BY <1>2 DEF vars, Ends
    <2> QED BY <2>1, SameCuts DEF Walked
  <1>3. CASE Deliver
    <2>1. data' = data /\ status = "writing" /\ status' = "reading" /\ offset' = offset
          /\ frames' = frames /\ Ends' = Ends
      BY <1>3 DEF Deliver, Ends
    <2> QED BY <2>1, SameCuts DEF Walked
  <1>4. ASSUME NEW payload \in Payloads, Frame(payload) PROVE Walked'
    <2>1. /\ status = "writing" /\ status' = "writing" /\ frames' = <<>> /\ offset' = 0
          /\ data' = (data \o WriteVarint(Len(payload))) \o payload
      BY <1>4 DEF Frame, Walked
    <2>2. Ends' = {} /\ Splittable(Ends)'
      BY <2>1 DEF Ends, Splittable
    <2>3. data' \in Seq(Byte) /\ Len(data') \in Nat \ {0}
      <3>1. payload \in Seq(Byte)
        BY PayloadsAreBytes
      <3>2. Len(payload) \in Nat
        BY <3>1, LenProperties
      <3>3. Len(payload) \in 0..MaxLength
        BY <1>4, <3>2, PrefixHoldsEveryLength DEF Frame
      <3> DEFINE prefix == WriteVarint(Len(payload))
      <3>4. prefix \in Seq(Byte) /\ Len(prefix) \in Nat /\ Len(prefix) >= 1
        BY <3>3, VarintFacts, PrefixHoldsEveryLength
      <3> HIDE DEF prefix
      <3> DEFINE d == data \o prefix
      <3>5. d \in Seq(Byte) /\ Len(d) = Len(data) + Len(prefix)
        BY <1>1, <3>4, ConcatProperties
      <3>6. data' = d \o payload
        BY <2>1 DEF prefix
      <3> HIDE DEF d
      <3>7. d \o payload \in Seq(Byte) /\ Len(d \o payload) = Len(d) + Len(payload)
        BY <3>1, <3>5, ConcatProperties
      <3> QED BY <1>1, <3>2, <3>4, <3>5, <3>6, <3>7
    <2>4. ASSUME NEW cut \in AllCuts' PROVE {e \in cut : e <= offset'} = {}
      <3>1. PICK S \in SUBSET (1..(Len(data') - 1)) : cut = S \cup {Len(data')}
        BY DEF AllCuts
      <3>2. \A e \in cut : e \in Nat \ {0}
        BY <2>3, <3>1
      <3> QED BY <2>1, <3>2
    <2>5. offset' \in {0} \cup Ends' /\ Ends' \subseteq 1..offset' /\ status' # "rejected"
          /\ status' # "split"
      BY <2>1, <2>2
    <2> QED BY <2>1, <2>2, <2>4, <2>5 DEF Walked
  <1>5. CASE Reject
    <2>1. /\ status = "reading" /\ status' = "rejected" /\ offset < Len(data) /\ data' = data
          /\ ~\E n \in 1..MaxPrefix : PrefixEnds(n) /\ Fits(n)
      BY <1>5 DEF Reject
    <2>2. \A cut \in AllCuts : ~Splittable(cut)
      BY <2>1, NextEnd
    <2>3. (\A cut \in AllCuts : ~Splittable(cut))'
      BY <2>1, <2>2, SameCuts
    <2> QED BY <2>1, <2>3 DEF Walked
  <1>6. CASE Finish
    <2>1. data' = data /\ status = "reading" /\ status' = "split" /\ offset = Len(data)
          /\ offset' = offset /\ frames' = frames /\ Ends' = Ends
      BY <1>6 DEF Finish, Ends
    <2> QED BY <2>1, SameCuts DEF Walked
  <1>7. ASSUME NEW n \in 1..MaxPrefix, ReadFrame(n) PROVE Walked'
    <2> DEFINE end == offset + n + Value(n)
               new == [from |-> offset + n + 1, to |-> end]
    <2>1. /\ status = "reading" /\ status' = "reading" /\ offset < Len(data)
          /\ PrefixEnds(n) /\ Fits(n)
          /\ data' = data /\ offset' = end /\ frames' = Append(frames, new)
      BY <1>7 DEF ReadFrame
    <2>2. /\ offset + n <= Len(data) /\ Value(n) \in Nat /\ n \in Nat
          /\ end \in 0..Len(data) /\ end \in Nat /\ end > offset
      BY <1>1, <2>1, ValueFacts, PrefixHoldsEveryLength DEF PrefixEnds, Fits
    <2>3. OneFrame(offset + 1, end)
      BY <2>1, <2>2, OneFrameHere
    <2> HIDE DEF end
    <2>4. Ends' = Ends \cup {end}
      <3> DEFINE Any == [from : Int, to : Int]
                 Slice == [from : 1..(Len(data) + 1), to : 0..offset]
      <3>1. frames \in Seq(Any)
        <4>1. frames \in Seq(Slice) /\ Slice \subseteq Any
          BY <1>1 DEF TypeOK
        <4> HIDE DEF Slice, Any
        <4> QED BY <4>1, SeqMonotonic
      <3>2. new \in Any /\ new.to = end
        BY <1>1, <2>2
      <3> HIDE DEF Any, new
      <3>3. /\ frames' \in Seq(Any) /\ Len(frames') = Len(frames) + 1
            /\ frames'[Len(frames) + 1] = new
            /\ \A i \in 1..Len(frames) : frames'[i] = frames[i]
        BY <2>1, <3>1, <3>2, AppendProperties
      <3>4. DOMAIN frames' = 1..(Len(frames) + 1)
        BY <3>3, LenProperties
      <3>5. \A i : i \in DOMAIN frames' <=> i \in DOMAIN frames \/ i = Len(frames) + 1
        BY <1>1, <3>4
      <3>6. ASSUME NEW x PROVE x \in Ends' <=> x \in Ends \/ x = end
        <4>1. x \in Ends' => x \in Ends \/ x = end
          BY <1>1, <3>2, <3>3, <3>5 DEF Ends
        <4>2. x \in Ends => x \in Ends'
          BY <1>1, <3>3, <3>5 DEF Ends
        <4>3. end \in Ends'
          BY <3>2, <3>3, <3>5 DEF Ends
        <4> QED BY <4>1, <4>2, <4>3
      <3> QED BY <3>6
    <2>5. /\ Ends \subseteq 1..offset /\ offset \in {0} \cup Ends /\ Splittable(Ends)
          /\ data # <<>> => \A cut \in AllCuts : Splittable(cut) => {e \in cut : e <= offset} = Ends
      BY <2>1 DEF Walked
    <2>6. Ends' \subseteq 1..offset' /\ offset' \in {0} \cup Ends'
      BY <1>1, <2>1, <2>2, <2>4, <2>5
    <2>7. Splittable(Ends \cup {end})
      <3>1. ASSUME NEW e \in Ends
            PROVE  \E b \in {0} \cup (Ends \cup {end}) :
                      /\ b < e /\ (\A c \in Ends \cup {end} : ~(b < c /\ c < e))
                      /\ OneFrame(b + 1, e)
        <4>1. PICK b \in {0} \cup Ends :
                 b < e /\ (\A c \in Ends : ~(b < c /\ c < e)) /\ OneFrame(b + 1, e)
          BY <2>5 DEF Splittable
        <4>2. ~(end < e)
          BY <1>1, <2>2, <2>5
        <4> QED BY <4>1, <4>2
      <3>2. offset < end /\ \A c \in Ends \cup {end} : ~(offset < c /\ c < end)
        BY <1>1, <2>2, <2>5
      <3>3. offset \in {0} \cup (Ends \cup {end})
        BY <2>5
      <3> QED BY <2>3, <3>1, <3>2, <3>3 DEF Splittable
    <2>8. Splittable(Ends)'
      <3>1. Splittable(Ends') <=> Splittable(Ends)'
        <4>1. \A lo, hi : OneFrame(lo, hi)' <=> OneFrame(lo, hi)
          BY <2>1 DEF OneFrame
        <4> QED BY <4>1, Zenon DEF Splittable
      <3> QED BY <2>4, <2>7, <3>1
    <2>9. ASSUME NEW cut \in AllCuts, Splittable(cut) PROVE {e \in cut : e <= end} = Ends \cup {end}
      <3>1. PICK m \in 1..MaxPrefix :
               /\ PrefixEnds(m) /\ Fits(m) /\ offset + m + Value(m) \in cut
               /\ \A c \in cut : c <= offset \/ c >= offset + m + Value(m)
        BY <2>1, <2>9, NextEnd
      <3>2. m = n
        BY <1>1, <2>1, <3>1, OnePrefix
      <3>3. end \in cut /\ \A c \in cut : c <= offset \/ c >= end
        BY <3>1, <3>2 DEF end
      <3>4. cut \subseteq Nat /\ data # <<>>
        <4>1. data # <<>>
          BY <1>1, <2>1
        <4>2. cut \subseteq 1..Len(data)
          BY <1>1, <4>1, CutFacts
        <4> QED BY <1>1, <4>1, <4>2
      <3>5. {e \in cut : e <= offset} = Ends
        BY <2>5, <2>9, <3>4
      <3>6. ASSUME NEW e \in cut PROVE e <= end <=> e \in Ends \cup {end}
        <4>1. e \in Nat
          BY <3>4
        <4> QED BY <1>1, <2>2, <3>3, <3>5, <4>1
      <3> QED BY <3>3, <3>5, <3>6
    <2>10. ASSUME NEW cut \in AllCuts', Splittable(cut)' PROVE {e \in cut : e <= offset'} = Ends'
      <3>1. cut \in AllCuts /\ Splittable(cut)
        BY <2>1, <2>10, SameCuts
      <3> QED BY <2>1, <2>4, <2>9, <3>1
    <2> QED BY <2>1, <2>6, <2>8, <2>10 DEF Walked
  <1> QED BY <1>2, <1>3, <1>4, <1>5, <1>6, <1>7 DEF Next, Reader

LEMMA WalkedDecides == TypeOK /\ Walked => SplitIffSplittable
  <1> SUFFICES ASSUME TypeOK, Walked PROVE SplitIffSplittable
    OBVIOUS
  <1>1. data \in Seq(Byte) /\ Len(data) \in Nat
    BY LenProperties DEF TypeOK
  <1>2. status = "rejected" => ~\E ends \in AllCuts : Splittable(ends)
    BY DEF Walked
  <1>3. ASSUME status = "split", data # <<>>, NEW ends \in AllCuts
        PROVE  Splittable(ends) <=> ends = Ends
    <2>1. /\ offset = Len(data) /\ Splittable(Ends)
          /\ Splittable(ends) => {e \in ends : e <= offset} = Ends
      BY <1>3 DEF Walked
    <2>2. ends \subseteq 1..Len(data)
      BY <1>1, <1>3, CutFacts
    <2>3. \A e \in ends : e <= Len(data)
      BY <1>1, <2>2
    <2>4. {e \in ends : e <= offset} = ends
      BY <2>1, <2>3
    <2> QED BY <2>1, <2>4
  <1> QED BY <1>2, <1>3 DEF SplitIffSplittable, AllCuts, Ends

\* Of any bytes at all, the reader that never goes back finds the one way there
\* is to cut them into frames, and rejects them only when there is none
\* (split_messagepack_frames against read_varint_length's format).
THEOREM OneWayToSplit == Spec => []SplitIffSplittable
  <1>1. Spec => [](TypeOK /\ Walked)
    <2>1. Init => TypeOK /\ Walked
      BY TypeInit, WalkedInit
    <2>2. TypeOK /\ Walked /\ [Next]_vars => (TypeOK /\ Walked)'
      BY TypeStep, WalkedStep
    <2> QED BY <2>1, <2>2, PTL DEF Spec
  <1>2. TypeOK /\ Walked => SplitIffSplittable
    BY WalkedDecides
  <1> QED BY <1>1, <1>2, PTL

==============================================================================
