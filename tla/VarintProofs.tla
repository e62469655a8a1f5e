---------------------------- MODULE VarintProofs ----------------------------
(***************************************************************************)
(* The varint codec is exact for every width of a digit and of a word: the *)
(* loops of read_uvarint and put_uvarint compute what the bytes denote.    *)
(***************************************************************************)
EXTENDS Varint, TLAPS, SequenceTheorems, WellFoundedInduction

(* A set of natural numbers has a least one. *)
LEMMA Least ==
  ASSUME NEW T, T \subseteq Nat, T # {}
  PROVE  \E x \in T : \A y \in T : x <= y
<1> DEFINE R == OpToRel(<, Nat)
<1>1. IsWellFoundedOn(R, Nat)
  BY NatLessThanWellFounded
<1> HIDE DEF R
<1>2. PICK x \in T : \A y \in T : ~(<<y, x>> \in R)
  BY <1>1, WFMin
<1>3. \A y \in T : ~(y < x)
  BY <1>2 DEF R, OpToRel
<1> QED BY <1>2, <1>3

(* Induction, for a set instead of a predicate. *)
LEMMA SetInduction ==
  ASSUME NEW G, 0 \in G, \A n \in Nat : n \in G => n + 1 \in G
  PROVE  Nat \subseteq G
<1> DEFINE T == Nat \ G
<1>1. SUFFICES ASSUME T # {} PROVE FALSE
  OBVIOUS
<1>2. PICK x \in T : \A y \in T : x <= y
  BY <1>1, Least
<1>3. x # 0 /\ x - 1 \in Nat /\ x - 1 \notin T
  BY <1>2
<1> QED BY <1>2, <1>3

-----------------------------------------------------------------------------
(* Loops.  F gives the value after pass k + 1 from the one after pass k.      *)

(* What a loop that starts with a has computed after each of n passes. *)
IsLoop(g, a, F, n) ==
  DOMAIN g = 0..n /\ g[0] = a /\ \A k \in 0..(n - 1) : g[k + 1] = F[<<k, g[k]>>]

(* The same of a loop without end. *)
IsEndless(f, a, F) ==
  f = [k \in Nat |-> f[k]] /\ f[0] = a /\ \A k \in Nat : f[k + 1] = F[<<k, f[k]>>]

(* A loop can be run for any number of passes. *)
LEMMA LoopRuns ==
  ASSUME NEW a, NEW F, NEW n \in Nat
  PROVE  \E g : IsLoop(g, a, F, n)
<1> DEFINE G == {m \in Nat : \E g : IsLoop(g, a, F, m)}
<1>1. 0 \in G
  <2>1. IsLoop([k \in 0..0 |-> a], a, F, 0)
    BY DEF IsLoop
  <2> QED BY <2>1
<1>2. ASSUME NEW m \in Nat, m \in G PROVE m + 1 \in G
  <2>1. PICK g : IsLoop(g, a, F, m)
    BY <1>2
  <2> DEFINE h == [k \in 0..(m + 1) |-> IF k <= m THEN g[k] ELSE F[<<m, g[m]>>]]
  <2>2. IsLoop(h, a, F, m + 1)
    <3>1. DOMAIN h = 0..(m + 1) /\ h[0] = a
      BY <2>1 DEF IsLoop
    <3>2. ASSUME NEW k \in 0..((m + 1) - 1) PROVE h[k + 1] = F[<<k, h[k]>>]
      <4>1. k \in 0..m /\ k + 1 \in 0..(m + 1) /\ h[k] = g[k]
        OBVIOUS
      <4>2. CASE k < m
        BY <2>1, <4>1, <4>2 DEF IsLoop
      <4>3. CASE k = m
        BY <4>1, <4>3
      <4> QED BY <4>1, <4>2, <4>3
    <3> QED BY <3>1, <3>2 DEF IsLoop
  <2> QED BY <2>2
<1>3. Nat \subseteq G
  BY <1>1, <1>2, SetInduction
<1> QED BY <1>3

(* Two runs of a loop agree as far as both go. *)
LEMMA LoopsAgree ==
  ASSUME NEW a, NEW F, NEW n \in Nat, NEW m \in Nat, NEW g, NEW h,
         IsLoop(g, a, F, n), IsLoop(h, a, F, m), NEW k \in Nat, k <= n, k <= m
  PROVE  g[k] = h[k]
<1> DEFINE G == {j \in Nat : j <= n /\ j <= m => g[j] = h[j]}
<1>1. 0 \in G
  BY DEF IsLoop
<1>2. ASSUME NEW j \in Nat, j \in G PROVE j + 1 \in G
  <2>1. CASE j + 1 <= n /\ j + 1 <= m
    <3>1. j \in 0..(n - 1) /\ j \in 0..(m - 1) /\ g[j] = h[j]
      BY <1>2, <2>1
    <3>2. g[j + 1] = F[<<j, g[j]>>] /\ h[j + 1] = F[<<j, h[j]>>]
      BY <3>1 DEF IsLoop
    <3> QED BY <3>1, <3>2
  <2> QED BY <2>1
<1>3. Nat \subseteq G
  BY <1>1, <1>2, SetInduction
<1> QED BY <1>3

(* And without end. *)
LEMMA LoopRunsOn ==
  ASSUME NEW a, NEW F
  PROVE  \E f : IsEndless(f, a, F)
<1> DEFINE run(n) == CHOOSE g : IsLoop(g, a, F, n)
           f == [n \in Nat |-> run(n)[n]]
<1>1. \A n \in Nat : IsLoop(run(n), a, F, n)
  BY LoopRuns
<1>2. f[0] = a
  BY <1>1 DEF IsLoop
<1>3. ASSUME NEW k \in Nat PROVE f[k + 1] = F[<<k, f[k]>>]
  <2>1. IsLoop(run(k), a, F, k) /\ IsLoop(run(k + 1), a, F, k + 1)
    BY <1>1
  <2> HIDE DEF run
  <2>2. run(k + 1)[k + 1] = F[<<k, run(k + 1)[k]>>]
    BY <2>1 DEF IsLoop
  <2>3. run(k)[k] = run(k + 1)[k]
    BY <2>1, LoopsAgree
  <2> QED BY <2>2, <2>3
<1>4. f = [k \in Nat |-> f[k]]
  OBVIOUS
<1> HIDE DEF f
<1> QED BY <1>2, <1>3, <1>4 DEF IsEndless

-----------------------------------------------------------------------------
(* The equations that define Pow2 have a solution. *)
LEMMA Pow2Is ==
  /\ Pow2 \in [Nat -> Nat \ {0}]
  /\ Pow2[0] = 1
  /\ \A n \in Nat : Pow2[n + 1] = 2 * Pow2[n]
<1> DEFINE F == [q \in Nat \X Nat |-> 2 * q[2]]
<1>0. \A k, v \in Nat : F[<<k, v>>] = 2 * v
  OBVIOUS
<1> HIDE DEF F
<1>1. PICK f : IsEndless(f, 1, F)
  BY LoopRunsOn
<1> DEFINE G == {n \in Nat : f[n] \in Nat /\ f[n + 1] = 2 * f[n]}
<1>2. 0 \in G
  <2>1. f[0 + 1] = F[<<0, f[0]>>] /\ f[0] = 1
    BY <1>1 DEF IsEndless
  <2> QED BY <1>0, <2>1
<1>3. ASSUME NEW n \in Nat, n \in G PROVE n + 1 \in G
  <2>1. f[n + 1] \in Nat
    BY <1>3
  <2>2. f[(n + 1) + 1] = F[<<n + 1, f[n + 1]>>]
    BY <1>1 DEF IsEndless
  <2> QED BY <1>0, <2>1, <2>2
<1>4. Nat \subseteq G
  BY <1>2, <1>3, SetInduction
<1>5. f = [n \in Nat |-> IF n = 0 THEN 1 ELSE 2 * f[n - 1]]
  <2>1. ASSUME NEW n \in Nat PROVE f[n] = IF n = 0 THEN 1 ELSE 2 * f[n - 1]
    <3>1. CASE n = 0
      BY <1>1, <3>1 DEF IsEndless
    <3>2. CASE n # 0
      <4>1. n - 1 \in Nat /\ (n - 1) + 1 = n
        BY <3>2
      <4> QED BY <1>4, <3>2, <4>1
    <3> QED BY <3>1, <3>2
  <2> QED BY <1>1, <2>1 DEF IsEndless
<1>6. Pow2 = [n \in Nat |-> IF n = 0 THEN 1 ELSE 2 * Pow2[n - 1]]
  BY <1>5 DEF Pow2
<1>7. Pow2[0] = 1 /\ \A n \in Nat : Pow2[n + 1] = 2 * Pow2[n]
  BY <1>6
<1> DEFINE H == {n \in Nat : Pow2[n] \in Nat \ {0}}
<1>8. Nat \subseteq H
  <2>1. 0 \in H
    BY <1>7
  <2>2. ASSUME NEW n \in Nat, n \in H PROVE n + 1 \in H
    BY <1>7, <2>2
  <2> QED BY <2>1, <2>2, SetInduction
<1>9. Pow2 \in [Nat -> Nat \ {0}]
  BY <1>6, <1>8
<1> QED BY <1>7, <1>9

(* Powers multiply where exponents add. *)
LEMMA Pow2Adds ==
  ASSUME NEW m \in Nat, NEW n \in Nat
  PROVE  Pow2[m + n] = Pow2[m] * Pow2[n]
<1> DEFINE G == {k \in Nat : Pow2[m + k] = Pow2[m] * Pow2[k]}
<1>1. 0 \in G
  BY Pow2Is
<1>2. ASSUME NEW k \in Nat, k \in G PROVE k + 1 \in G
  <2>1. Pow2[m + (k + 1)] = 2 * Pow2[m + k] /\ Pow2[k + 1] = 2 * Pow2[k]
    <3>1. m + k \in Nat /\ (m + k) + 1 = m + (k + 1)
      OBVIOUS
    <3> QED BY <3>1, Pow2Is
  <2>2. Pow2[m + k] = Pow2[m] * Pow2[k] /\ Pow2[m] \in Nat /\ Pow2[k] \in Nat
    BY <1>2, Pow2Is
  <2>3. ASSUME NEW x \in Nat, NEW y \in Nat PROVE 2 * (x * y) = x * (2 * y)
    OBVIOUS
  <2>4. Pow2[m + (k + 1)] = Pow2[m] * Pow2[k + 1]
    BY <2>1, <2>2, <2>3
  <2> QED BY <2>4
<1>3. Nat \subseteq G
  BY <1>1, <1>2, SetInduction
<1> QED BY <1>3

(* A power is at least as large as one with a smaller exponent. *)
LEMMA Pow2Grows ==
  ASSUME NEW m \in Nat, NEW n \in Nat, m <= n
  PROVE  Pow2[m] <= Pow2[n]
<1>1. n - m \in Nat /\ m + (n - m) = n
  OBVIOUS
<1>2. Pow2[n] = Pow2[m] * Pow2[n - m] /\ Pow2[m] \in Nat /\ Pow2[n - m] \in Nat \ {0}
  BY <1>1, Pow2Adds, Pow2Is
<1>3. ASSUME NEW x \in Nat, NEW y \in Nat \ {0} PROVE x <= x * y
  OBVIOUS
<1> QED BY <1>2, <1>3

-----------------------------------------------------------------------------
Byte == 0..(2 * Radix - 1)

(* The weight of the digit that byte k carries, the first byte being byte 0. *)
W(k) == Pow2[DigitBits * k]

(* The word holds LastIndex digits and one bit. *)
LEMMA Weights ==
  /\ Radix \in Nat /\ Radix >= 2 /\ Word \in Nat
  /\ W(0) = 1 /\ Word = 2 * W(LastIndex)
  /\ \A k \in Nat : W(k) \in Nat \ {0} /\ W(k + 1) = Radix * W(k)
<1>1. Radix \in Nat /\ Radix >= 2
  <2>1. DigitBits - 1 \in Nat /\ (DigitBits - 1) + 1 = DigitBits
    BY UvarintAssumption
  <2>2. Pow2[DigitBits] = 2 * Pow2[DigitBits - 1] /\ Pow2[DigitBits - 1] \in Nat \ {0}
    BY <2>1, Pow2Is
  <2> QED BY <2>2 DEF Radix
<1>2. ASSUME NEW k \in Nat PROVE W(k) \in Nat \ {0} /\ W(k + 1) = Radix * W(k)
  <2>1. DigitBits * k \in Nat /\ DigitBits * (k + 1) = DigitBits * k + DigitBits /\ DigitBits \in Nat
    BY UvarintAssumption
  <2>2. W(k) \in Nat \ {0} /\ Radix \in Nat
    BY <2>1, Pow2Is DEF W, Radix
  <2>3. W(k + 1) = W(k) * Radix
    BY <2>1, Pow2Adds DEF W, Radix
  <2> QED BY <2>2, <2>3
<1>3. Word = 2 * W(LastIndex)
  <2>1. DigitBits * LastIndex \in Nat /\ WordBits = DigitBits * LastIndex + 1
    BY UvarintAssumption
  <2> QED BY <2>1, Pow2Is DEF W, Word
<1>4. W(0) = 1
  <2>1. DigitBits * 0 = 0
    BY UvarintAssumption
  <2> QED BY <2>1, Pow2Is DEF W
<1>5. Word \in Nat
  BY <1>2, <1>3, UvarintAssumption
<1> QED BY <1>1, <1>2, <1>3, <1>4, <1>5

LEMMA RadixIs == Radix \in Nat /\ Radix >= 2
BY Weights

LEMMA WeightsGrow ==
  ASSUME NEW k \in Nat, NEW m \in Nat, k <= m
  PROVE  W(k) <= W(m)
<1>1. DigitBits * k \in Nat /\ DigitBits * m \in Nat /\ DigitBits * k <= DigitBits * m
  <2>1. ASSUME NEW x \in Nat PROVE x * k \in Nat /\ x * m \in Nat /\ x * k <= x * m
    OBVIOUS
  <2> QED BY <2>1, UvarintAssumption
<1> QED BY <1>1, Pow2Grows DEF W

(* The digit of a byte and its continuation bit. *)
LEMMA Digits ==
  ASSUME NEW b \in Byte
  PROVE  /\ b % Radix \in 0..(Radix - 1)
         /\ b < Radix => b % Radix = b
         /\ b >= Radix => b = Radix + (b % Radix)
<1>1. ASSUME NEW r \in Nat, r >= 2, NEW c \in 0..(2 * r - 1)
      PROVE  c % r \in 0..(r - 1) /\ (c < r => c % r = c) /\ (c >= r => c = r + (c % r))
  <2>1. CASE c < r
    BY <1>1, <2>1
  <2>2. CASE c >= r
    <3>1. c = r * 1 + (c - r) /\ c - r \in 0..(r - 1)
      BY <1>1, <2>2
    <3>2. c % r = c - r
      BY <1>1, <3>1
    <3> QED BY <1>1, <3>1, <3>2, <2>2
  <2> QED BY <1>1, <2>1, <2>2
<1> QED BY <1>1, Weights DEF Byte

-----------------------------------------------------------------------------
(* A loop whose passes keep a set stays in it. *)
LEMMA LoopStays ==
  ASSUME NEW a, NEW F, NEW n \in Nat, NEW g, IsLoop(g, a, F, n), NEW S, a \in S,
         \A k \in 0..(n - 1), v \in S : F[<<k, v>>] \in S
  PROVE  \A k \in 0..n : g[k] \in S
<1> DEFINE G == {k \in Nat : k <= n => g[k] \in S}
<1>1. 0 \in G
  BY DEF IsLoop
<1>2. ASSUME NEW k \in Nat, k \in G PROVE k + 1 \in G
  <2>1. CASE k + 1 <= n
    <3>1. k \in 0..(n - 1) /\ g[k] \in S
      BY <1>2, <2>1
    <3>2. g[k + 1] = F[<<k, g[k]>>]
      BY <3>1 DEF IsLoop
    <3> QED BY <3>1, <3>2
  <2> QED BY <2>1
<1>3. Nat \subseteq G
  BY <1>1, <1>2, SetInduction
<1> QED BY <1>3

-----------------------------------------------------------------------------
(* What the first bytes of buf denote, digit by digit. *)
SumF(buf) == [q \in Nat \X Nat |-> q[2] + (buf[q[1] + 1] % Radix) * W(q[1])]

LEMMA SumPass ==
  ASSUME NEW buf \in Seq(Byte), NEW k \in Nat, k < Len(buf), NEW v \in Nat
  PROVE  /\ SumF(buf)[<<k, v>>] = v + (buf[k + 1] % Radix) * W(k)
         /\ SumF(buf)[<<k, v>>] \in Nat
<1>1. buf[k + 1] \in Byte
  OBVIOUS
<1>2. SumF(buf)[<<k, v>>] = v + (buf[k + 1] % Radix) * W(k)
  BY DEF SumF
<1>3. ASSUME NEW x \in Nat, NEW y \in Nat PROVE v + x * y \in Nat
  OBVIOUS
<1>4. buf[k + 1] % Radix \in Nat /\ W(k) \in Nat
  <2>1. buf[k + 1] % Radix \in 0..(Radix - 1)
    BY <1>1, Digits
  <2> QED BY <2>1, Weights
<1> QED BY <1>2, <1>3, <1>4

LEMMA DenotedRuns ==
  ASSUME bytes \in Seq(Byte), NEW n \in 0..Len(bytes)
  PROVE  \E g : IsLoop(g, 0, SumF(bytes), n) /\ Denoted(n) = g[n]
<1> DEFINE d(k) == (bytes[k] % Radix) * W(k - 1)
           body(h) == [k \in 0..n |-> IF k = 0 THEN 0 ELSE h[k - 1] + d(k)]
           sum == CHOOSE h : h = body(h)
<1>9. n \in Nat
  OBVIOUS
<1>0. Denoted(n) = sum[n]
  BY DEF Denoted, W
<1>1. \E h : h = body(h)
  <2>1. PICK g : IsLoop(g, 0, SumF(bytes), n)
    BY LoopRuns
  <2>2. \A k \in 0..n : g[k] \in Nat
    <3>1. ASSUME NEW k \in 0..(n - 1), NEW v \in Nat PROVE SumF(bytes)[<<k, v>>] \in Nat
      <4>1. k \in Nat /\ k < Len(bytes)
        OBVIOUS
      <4> QED BY <4>1, SumPass
    <3> DEFINE S == Nat
    <3>2. 0 \in S /\ \A k \in 0..(n - 1), v \in S : SumF(bytes)[<<k, v>>] \in S
      BY <3>1
    <3> HIDE DEF S
    <3>3. \A k \in 0..n : g[k] \in S
      BY <1>9, <2>1, <3>2, LoopStays
    <3> QED BY <3>3 DEF S
  <2> DEFINE h == [k \in 0..n |-> g[k]]
  <2>3. ASSUME NEW k \in 0..n PROVE h[k] = body(h)[k]
    <3>1. CASE k = 0
      BY <2>1, <3>1 DEF IsLoop
    <3>2. CASE k # 0
      <4>1. k - 1 \in 0..(n - 1) /\ (k - 1) + 1 = k /\ k - 1 < Len(bytes) /\ k - 1 \in Nat
        BY <3>2
      <4>2. g[k] = SumF(bytes)[<<k - 1, g[k - 1]>>]
        BY <2>1, <4>1 DEF IsLoop
      <4>3. g[k] = g[k - 1] + d(k)
        BY <2>2, <4>1, <4>2, SumPass
      <4> QED BY <3>2, <4>1, <4>3
    <3> QED BY <3>1, <3>2
  <2>4. h = body(h)
    BY <2>3
  <2> QED BY <2>4
<1>2. sum = body(sum)
  BY <1>1
<1> HIDE DEF sum
<1>3. \A k \in 0..n : sum[k] \in Nat
  <2> DEFINE G == {k \in Nat : k <= n => sum[k] \in Nat}
  <2>1. 0 \in G
    BY <1>2
  <2>2. ASSUME NEW k \in Nat, k \in G PROVE k + 1 \in G
    <3>1. CASE k + 1 <= n
      <4>1. sum[k] \in Nat /\ sum[k + 1] = sum[k] + d(k + 1) /\ k < Len(bytes) /\ (k + 1) - 1 = k
        BY <1>2, <2>2, <3>1
      <4>2. sum[k + 1] = SumF(bytes)[<<k, sum[k]>>]
        BY <4>1, SumPass
      <4> QED BY <4>1, <4>2, SumPass
    <3> QED BY <3>1
  <2>3. Nat \subseteq G
    BY <2>1, <2>2, SetInduction
  <2> QED BY <2>3
<1>4. IsLoop(sum, 0, SumF(bytes), n)
  <2>1. ASSUME NEW k \in 0..(n - 1) PROVE sum[k + 1] = SumF(bytes)[<<k, sum[k]>>]
    <3>1. sum[k] \in Nat /\ k + 1 \in 0..n /\ k < Len(bytes) /\ (k + 1) - 1 = k
      BY <1>3
    <3>2. sum[k + 1] = sum[k] + d(k + 1)
      BY <1>2, <3>1
    <3> QED BY <3>1, <3>2, SumPass
  <2>2. DOMAIN sum = 0..n /\ sum[0] = 0
    BY <1>2
  <2> QED BY <2>1, <2>2 DEF IsLoop
<1> QED BY <1>0, <1>4

(* The equations that define Denoted, and how large it can be. *)
LEMMA DenotedIs ==
  ASSUME bytes \in Seq(Byte)
  PROVE  /\ Denoted(0) = 0
         /\ \A n \in 0..(Len(bytes) - 1) :
              Denoted(n + 1) = Denoted(n) + (bytes[n + 1] % Radix) * W(n)
         /\ \A n \in 0..Len(bytes) : Denoted(n) \in 0..(W(n) - 1)
<1>1. Denoted(0) = 0
  <2>1. PICK g : IsLoop(g, 0, SumF(bytes), 0) /\ Denoted(0) = g[0]
    BY DenotedRuns
  <2> QED BY <2>1 DEF IsLoop
<1> DEFINE G == {n \in Nat : n <= Len(bytes) => Denoted(n) \in 0..(W(n) - 1)}
<1>2. ASSUME NEW n \in Nat, n < Len(bytes), n \in G
      PROVE  /\ Denoted(n + 1) = Denoted(n) + (bytes[n + 1] % Radix) * W(n)
             /\ Denoted(n + 1) \in 0..(W(n + 1) - 1)
  <2>1. n \in 0..Len(bytes) /\ n + 1 \in 0..Len(bytes) /\ n + 1 \in Nat /\ bytes[n + 1] \in Byte
    BY <1>2
  <2>2. PICK g : IsLoop(g, 0, SumF(bytes), n) /\ Denoted(n) = g[n]
    BY <2>1, DenotedRuns
  <2>3. PICK h : IsLoop(h, 0, SumF(bytes), n + 1) /\ Denoted(n + 1) = h[n + 1]
    BY <2>1, DenotedRuns
  <2>4. g[n] = h[n]
    BY <2>1, <2>2, <2>3, LoopsAgree
  <2>5. h[n + 1] = SumF(bytes)[<<n, h[n]>>]
    BY <2>1, <2>3 DEF IsLoop
  <2>6. Denoted(n) \in 0..(W(n) - 1) /\ W(n) \in Nat \ {0}
    <3>1. Denoted(n) \in 0..(W(n) - 1)
      BY <1>2
    <3> QED BY <3>1, Weights
  <2>7. Denoted(n) \in Nat
    BY <2>6
  <2>8. Denoted(n + 1) = Denoted(n) + (bytes[n + 1] % Radix) * W(n)
    BY <1>2, <2>2, <2>3, <2>4, <2>5, <2>7, SumPass
  <2>9. bytes[n + 1] % Radix \in 0..(Radix - 1) /\ Radix \in Nat /\ W(n + 1) = Radix * W(n)
    BY <2>1, Digits, Weights
  <2>10. ASSUME NEW r \in Nat, NEW w \in Nat \ {0}, NEW x \in 0..(w - 1), NEW d \in 0..(r - 1)
         PROVE  x + d * w \in 0..(r * w - 1)
    <3>1. d * w \in Nat /\ r * w \in Nat /\ (d + 1) * w <= r * w
      OBVIOUS
    <3>2. (d + 1) * w = d * w + w
      OBVIOUS
    <3> QED BY <3>1, <3>2
  <2> QED BY <2>6, <2>8, <2>9, <2>10
<1>3. Nat \subseteq G
  <2>1. W(0) = 1
    BY Weights
  <2>9. 0 \in G
    BY <1>1, <2>1
  <2>2. ASSUME NEW n \in Nat, n \in G PROVE n + 1 \in G
    <3>1. CASE n < Len(bytes)
      BY <1>2, <2>2, <3>1
    <3>2. CASE ~(n < Len(bytes))
      BY <3>2
    <3> QED BY <3>1, <3>2
  <2> QED BY <2>9, <2>2, SetInduction
<1>4. ASSUME NEW n \in 0..(Len(bytes) - 1)
      PROVE  Denoted(n + 1) = Denoted(n) + (bytes[n + 1] % Radix) * W(n)
  <2>1. n \in Nat /\ n < Len(bytes)
    OBVIOUS
  <2> QED BY <1>2, <1>3, <2>1
<1>5. ASSUME NEW n \in 0..Len(bytes) PROVE Denoted(n) \in 0..(W(n) - 1)
  BY <1>3
<1> QED BY <1>1, <1>4, <1>5

-----------------------------------------------------------------------------
(* A word. *)
U64 == 0..(Word - 1)

(* What a shift leaves is a word; a digit that fits is put at its weight. *)
LEMMA Shifts ==
  ASSUME NEW b \in Nat, NEW k \in Nat
  PROVE  /\ Shl(b, DigitBits * k) \in U64
         /\ k <= LastIndex /\ b * W(k) < Word => Shl(b, DigitBits * k) = b * W(k)
<1> DEFINE s == DigitBits * k
           t == IF s < WordBits THEN s ELSE s % WordBits
<1>1. s \in Nat /\ WordBits \in Nat \ {0} /\ DigitBits \in Nat /\ LastIndex \in Nat
  BY UvarintAssumption
<1>2. t \in Nat
  BY <1>1
<1>3. Pow2[t] \in Nat /\ Word \in Nat \ {0}
  BY <1>1, <1>2, Pow2Is DEF Word
<1>4. Shl(b, s) = (b * Pow2[t]) % Word
  BY DEF Shl
<1>5. ASSUME NEW x \in Nat, NEW y \in Nat \ {0} PROVE x % y \in 0..(y - 1) /\ (x < y => x % y = x)
  OBVIOUS
<1>6. b * Pow2[t] \in Nat
  BY <1>3
<1>7. Shl(b, s) \in U64 /\ (b * Pow2[t] < Word => Shl(b, s) = b * Pow2[t])
  BY <1>3, <1>4, <1>5, <1>6 DEF U64
<1>8. k <= LastIndex => s < WordBits
  <2>1. ASSUME NEW x \in Nat, NEW y \in Nat, NEW z \in Nat, x <= y PROVE z * x <= z * y /\ z * y \in Nat /\ z * x \in Nat
    BY <2>1
  <2>2. WordBits = DigitBits * LastIndex + 1
    BY UvarintAssumption
  <2> QED BY <1>1, <2>1, <2>2
<1> QED BY <1>7, <1>8 DEF W

(* What the passes of read_uvarint gather. *)
GatherF(buf) ==
  [q \in Nat \X U64 |-> WordOr(q[2], Shl(buf[q[1] + 1] % Radix, DigitBits * q[1]))]

LEMMA GatherPass ==
  ASSUME NEW buf \in Seq(Byte), NEW k \in Nat, k < Len(buf), NEW v \in U64
  PROVE  /\ GatherF(buf)[<<k, v>>] = WordOr(v, Shl(buf[k + 1] % Radix, DigitBits * k))
         /\ GatherF(buf)[<<k, v>>] \in U64
<1>1. buf[k + 1] \in Byte
  OBVIOUS
<1>2. GatherF(buf)[<<k, v>>] = WordOr(v, Shl(buf[k + 1] % Radix, DigitBits * k))
  BY DEF GatherF
<1>3. buf[k + 1] % Radix \in Nat
  <2>1. buf[k + 1] % Radix \in 0..(Radix - 1)
    BY <1>1, Digits
  <2> QED BY <2>1, Weights
<1>4. Shl(buf[k + 1] % Radix, DigitBits * k) \in U64
  BY <1>3, Shifts
<1>5. \A x, y \in U64 : WordOr(x, y) \in U64
  BY UvarintAssumption DEF U64
<1> QED BY <1>2, <1>4, <1>5

LEMMA GatheredRuns ==
  ASSUME NEW buf \in Seq(Byte), NEW n \in 0..Len(buf)
  PROVE  \E g : IsLoop(g, 0, GatherF(buf), n) /\ Gathered(buf, 0, n) = g[n]
<1> DEFINE d(k) == Shl(buf[0 + k] % Radix, DigitBits * (k - 1))
           body(h) == [k \in 0..n |-> IF k = 0 THEN 0 ELSE WordOr(h[k - 1], d(k))]
           x == CHOOSE h : h = body(h)
<1>1. n \in Nat /\ 0 \in U64
  <2>1. Word \in Nat \ {0}
    BY Pow2Is, UvarintAssumption DEF Word
  <2> QED BY <2>1 DEF U64
<1>2. Gathered(buf, 0, n) = x[n]
  BY DEF Gathered
<1>3. \E h : h = body(h)
  <2>1. PICK g : IsLoop(g, 0, GatherF(buf), n)
    BY <1>1, LoopRuns
  <2>2. \A k \in 0..n : g[k] \in U64
    <3>1. ASSUME NEW k \in 0..(n - 1), NEW v \in U64 PROVE GatherF(buf)[<<k, v>>] \in U64
      <4>1. k \in Nat /\ k < Len(buf)
        OBVIOUS
      <4> QED BY <4>1, GatherPass
    <3> QED BY <1>1, <2>1, <3>1, LoopStays
  <2> DEFINE h == [k \in 0..n |-> g[k]]
  <2>3. ASSUME NEW k \in 0..n PROVE h[k] = body(h)[k]
    <3>1. CASE k = 0
      BY <2>1, <3>1 DEF IsLoop
    <3>2. CASE k # 0
      <4>1. /\ k - 1 \in 0..(n - 1) /\ k - 1 \in 0..n /\ k - 1 \in Nat /\ k - 1 < Len(buf)
            /\ (k - 1) + 1 = k /\ 0 + k = k
        BY <3>2
      <4>2. g[k] = GatherF(buf)[<<k - 1, g[k - 1]>>] /\ g[k - 1] \in U64
        BY <2>1, <2>2, <4>1 DEF IsLoop
      <4>3. g[k] = WordOr(g[k - 1], d(k))
        BY <4>1, <4>2, GatherPass
      <4> QED BY <3>2, <4>1, <4>3
    <3> QED BY <3>1, <3>2
  <2>4. h = body(h)
    BY <2>3
  <2> QED BY <2>4
<1>4. x = body(x)
  BY <1>3
<1> HIDE DEF x
<1>5. ASSUME NEW k \in 0..(n - 1), x[k] \in U64
      PROVE  x[k + 1] = GatherF(buf)[<<k, x[k]>>] /\ x[k + 1] \in U64
  <2>1. k \in Nat /\ k + 1 \in 0..n /\ k < Len(buf) /\ (k + 1) - 1 = k /\ 0 + (k + 1) = k + 1 /\ k + 1 # 0
    OBVIOUS
  <2>2. x[k + 1] = WordOr(x[k], d(k + 1))
    BY <1>4, <2>1
  <2> QED BY <1>5, <2>1, <2>2, GatherPass
<1>6. \A k \in 0..n : x[k] \in U64
  <2> DEFINE G == {k \in Nat : k <= n => x[k] \in U64}
  <2>1. 0 \in G
    BY <1>1, <1>4
  <2>2. ASSUME NEW k \in Nat, k \in G PROVE k + 1 \in G
    <3>1. CASE k + 1 <= n
      <4>1. k \in 0..(n - 1) /\ x[k] \in U64
        BY <2>2, <3>1
      <4>2. x[k + 1] \in U64
        BY <1>5, <4>1
      <4> QED BY <4>2
    <3> QED BY <3>1
  <2>3. Nat \subseteq G
    BY <2>1, <2>2, SetInduction
  <2> QED BY <2>3
<1>7. IsLoop(x, 0, GatherF(buf), n)
  <2>1. DOMAIN x = 0..n /\ x[0] = 0
    BY <1>4
  <2>2. \A k \in 0..(n - 1) : x[k] \in U64
    BY <1>6
  <2> QED BY <1>5, <2>1, <2>2 DEF IsLoop
<1> QED BY <1>2, <1>7

(* The passes of a varint of at most LastIndex + 1 bytes lose nothing. *)
LEMMA GatheredIs ==
  ASSUME bytes \in Seq(Byte), NEW n \in Nat, n <= Len(bytes), n <= LastIndex
  PROVE  Gathered(bytes, 0, n) = Denoted(n)
<1>0. n \in 0..Len(bytes) /\ LastIndex \in Nat
  BY UvarintAssumption
<1>1. PICK g : IsLoop(g, 0, GatherF(bytes), n) /\ Gathered(bytes, 0, n) = g[n]
  BY <1>0, GatheredRuns
<1> DEFINE G == {k \in Nat : k <= n => g[k] = Denoted(k)}
<1>2. 0 \in G
  BY <1>1, DenotedIs DEF IsLoop
<1>3. ASSUME NEW k \in Nat, k \in G PROVE k + 1 \in G
  <2>1. CASE k + 1 <= n
    <3>1. /\ g[k] = Denoted(k) /\ k \in 0..(n - 1) /\ k < Len(bytes) /\ k \in 0..Len(bytes)
          /\ k \in 0..(Len(bytes) - 1) /\ k + 1 <= LastIndex /\ k <= LastIndex
      BY <1>0, <1>3, <2>1
    <3> DEFINE d == bytes[k + 1] % Radix
    <3>2. d \in 0..(Radix - 1)
      <4>1. bytes[k + 1] \in Byte
        BY <3>1
      <4> QED BY <4>1, Digits
    <3>3. Denoted(k + 1) = Denoted(k) + d * W(k) /\ Denoted(k) \in 0..(W(k) - 1)
      BY <3>1, DenotedIs
    <3> HIDE DEF d
    <3>4. Radix \in Nat /\ W(k) \in Nat \ {0} /\ W(k + 1) = Radix * W(k) /\ W(LastIndex) \in Nat
      BY <1>0, Weights
    <3>5. W(k + 1) <= W(LastIndex) /\ W(k) <= W(LastIndex) /\ Word = 2 * W(LastIndex)
      BY <1>0, <3>1, WeightsGrow, Weights
    <3>6. ASSUME NEW r \in Nat, NEW w \in Nat, NEW e \in 0..(r - 1) PROVE e * w <= r * w /\ e * w \in Nat
      OBVIOUS
    <3>7. d \in Nat /\ d * W(k) \in Nat /\ d * W(k) <= W(k + 1)
      BY <3>2, <3>4, <3>6
    <3>8. W(LastIndex) < Word /\ d * W(k) < Word /\ Denoted(k) < Word /\ Word \in Nat
      <4>1. W(LastIndex) \in Nat \ {0}
        BY <1>0, Weights
      <4> QED BY <3>3, <3>4, <3>5, <3>7, <4>1, SMTT(20)
    <3>9. Denoted(k) \in U64 /\ d \in U64
      <4>1. ASSUME NEW w \in Nat \ {0}, NEW e \in Nat PROVE e <= e * w
        OBVIOUS
      <4>2. d <= d * W(k)
        BY <3>4, <3>7, <4>1
      <4> QED BY <3>3, <3>4, <3>7, <3>8, <4>2, SMTT(20) DEF U64
    <3>10. g[k + 1] = WordOr(Denoted(k), Shl(d, DigitBits * k))
      <4>1. g[k + 1] = GatherF(bytes)[<<k, g[k]>>]
        BY <1>1, <3>1 DEF IsLoop
      <4> QED BY <3>1, <3>9, <4>1, GatherPass DEF d
    <3>11. Shl(d, DigitBits * k) = d * W(k)
      BY <3>1, <3>7, <3>8, Shifts
    <3>12. WordOr(Denoted(k), d * W(k)) = Denoted(k) + d * W(k)
      <4>1. DigitBits * k \in 0..WordBits
        <5>1. ASSUME NEW x \in Nat, NEW y \in Nat, NEW z \in Nat, x <= y
              PROVE  z * x <= z * y /\ z * x \in Nat /\ z * y \in Nat
          BY <5>1
        <5> QED BY <1>0, <3>1, <5>1, UvarintAssumption
      <4> QED BY <3>3, <3>8, <3>9, <4>1, UvarintAssumption DEF W, U64
    <3> QED BY <3>3, <3>10, <3>11, <3>12
  <2> QED BY <2>1
<1>4. Nat \subseteq G
  BY <1>2, <1>3, SetInduction
<1> QED BY <1>1, <1>4

-----------------------------------------------------------------------------
(* The passes that go on are those over the bytes before the first one        *)
(* without a continuation bit.                                                *)
LEMMA PassesAreThose ==
  ASSUME NEW buf \in Seq(Byte), NEW n \in Nat, n <= Len(buf), GoesOn(buf, 0, n)
  PROVE  PassesOn(buf, 0) = n
<1>1. n \in 0..(Len(buf) - 0)
  OBVIOUS
<1> DEFINE m == PassesOn(buf, 0)
<1>2. m \in 0..(Len(buf) - 0) /\ GoesOn(buf, 0, m)
  BY <1>1 DEF PassesOn
<1> HIDE DEF m
<1>3. m \in Nat /\ m <= Len(buf) /\ \A i \in 1..Len(buf) : buf[i] \in Int
  <2>1. \A i \in 1..Len(buf) : buf[i] \in Byte
    OBVIOUS
  <2> QED BY <1>2, <2>1, RadixIs DEF Byte
<1>4. ASSUME NEW x \in Nat, NEW y \in Nat, GoesOn(buf, 0, x), GoesOn(buf, 0, y), x < y, y <= Len(buf)
      PROVE  FALSE
  <2>1. buf[0 + (x + 1)] >= Radix /\ buf[0 + x + 1] < Radix
    BY <1>4 DEF GoesOn
  <2>2. buf[x + 1] >= Radix /\ buf[x + 1] < Radix /\ buf[x + 1] \in Int
    BY <1>3, <1>4, <2>1
  <2> QED BY <2>2, RadixIs
<1>5. m = n
  BY <1>2, <1>3, <1>4
<1> QED BY <1>5 DEF m

(* LastByte is the byte after them, if it has arrived. *)
LEMMA LastByteIs ==
  ASSUME bytes \in Seq(Byte)
  PROVE  \/ /\ LastByte = 0 /\ PassesOn(bytes, 0) = Len(bytes)
         \/ /\ LastByte \in 1..Len(bytes) /\ PassesOn(bytes, 0) = LastByte - 1
            /\ bytes[LastByte] < Radix /\ \A i \in 1..(LastByte - 1) : bytes[i] >= Radix
<1> DEFINE ends == {n \in 1..Len(bytes) : bytes[n] < Radix}
<1>1. \A i \in 1..Len(bytes) : bytes[i] \in Int
  <2>1. \A i \in 1..Len(bytes) : bytes[i] \in Byte
    OBVIOUS
  <2> QED BY <2>1, RadixIs DEF Byte
<1>2. Radix \in Nat
  BY RadixIs
<1>3. CASE ends = {}
  <2>1. LastByte = 0
    BY <1>3 DEF LastByte
  <2>2. GoesOn(bytes, 0, Len(bytes))
    BY <1>1, <1>2, <1>3 DEF GoesOn
  <2> QED BY <2>1, <2>2, PassesAreThose
<1>4. CASE ends # {}
  <2>1. \E n \in ends : \A m \in ends : n <= m
    <3>1. ends \subseteq Nat
      OBVIOUS
    <3> QED BY <1>4, <3>1, Least
  <2>2. LastByte = CHOOSE n \in ends : \A m \in ends : n <= m
    BY <1>4 DEF LastByte
  <2>3. LastByte \in ends /\ \A m \in ends : LastByte <= m
    BY <2>1, <2>2
  <2>4. LastByte \in 1..Len(bytes) /\ bytes[LastByte] < Radix
    BY <2>3
  <2>5. ASSUME NEW i \in 1..(LastByte - 1) PROVE bytes[i] >= Radix
    <3>1. i \in 1..Len(bytes) /\ ~(LastByte <= i)
      BY <2>4
    <3> QED BY <1>1, <1>2, <2>3, <3>1
  <2>6. GoesOn(bytes, 0, LastByte - 1)
    BY <2>4, <2>5 DEF GoesOn
  <2>7. LastByte - 1 \in Nat /\ LastByte - 1 <= Len(bytes)
    BY <2>4
  <2> QED BY <2>4, <2>5, <2>6, <2>7, PassesAreThose
<1> QED BY <1>3, <1>4

-----------------------------------------------------------------------------
(* The inductive invariant: result is what read_uvarint makes of the bytes. *)
IInv == bytes \in Seq(Byte) /\ result = ReadUvarint(bytes, 0)

LEMMA IInvHolds == Spec => []IInv
<1>1. Init => IInv
  BY DEF Init, IInv
<1>2. IInv /\ [Next]_vars => IInv'
  <2>1. SUFFICES ASSUME IInv, [Next]_vars PROVE IInv'
    OBVIOUS
  <2>2. ASSUME NEW b \in Byte, Arrive(b) PROVE IInv'
    <3>1. bytes' \in Seq(Byte)
      BY <2>1, <2>2 DEF IInv, Arrive
    <3> QED BY <2>2, <3>1 DEF IInv, Arrive
  <2>3. CASE UNCHANGED vars
    BY <2>1, <2>3 DEF IInv, vars
  <2> QED BY <2>1, <2>2, <2>3 DEF Next, Byte
<1> QED BY <1>1, <1>2, PTL DEF Spec

(* A shift reaches the width of a word after the last index. *)
LEMMA PanicIs ==
  ASSUME NEW k \in Nat
  PROVE  ShiftPanics(DigitBits * k) <=> (k > LastIndex /\ ~Release)
<1>1. DigitBits \in Nat \ {0} /\ LastIndex \in Nat /\ WordBits = DigitBits * LastIndex + 1
  BY UvarintAssumption
<1>2. ASSUME NEW d \in Nat \ {0}, NEW x \in Nat, NEW y \in Nat
      PROVE  d * x >= d * y + 1 <=> x > y
  <2>1. CASE x <= y
    <3>1. d * x <= d * y
      BY <2>1
    <3> QED BY <2>1, <3>1
  <2>2. CASE x >= y + 1
    <3>1. d * x >= d * (y + 1) /\ d * (y + 1) = d * y + d
      BY <2>2
    <3> QED BY <2>2, <3>1
  <2> QED BY <2>1, <2>2
<1>3. DigitBits * k >= WordBits <=> k > LastIndex
  BY <1>1, <1>2
<1> QED BY <1>3 DEF ShiftPanics

(* The pass that returns, over a byte that it may add. *)
LEMMA LastPassIs ==
  ASSUME bytes \in Seq(Byte), NEW n \in Nat, n < Len(bytes), n <= LastIndex, bytes[n + 1] < Radix
  PROVE  LET v == Denoted(n + 1) IN
         /\ v \in Nat
         /\ LastPass(Denoted(n), n, bytes[n + 1], 0) = IF v >= Word THEN Fault("err") ELSE Ok(v, n + 1)
<1> DEFINE b == bytes[n + 1]
           v == Denoted(n + 1)
<1>1. /\ n \in 0..(Len(bytes) - 1) /\ n \in 0..Len(bytes) /\ n + 1 \in 0..Len(bytes)
      /\ LastIndex \in Nat /\ b \in Byte
  BY UvarintAssumption
<1>2. b \in 0..(Radix - 1) /\ b % Radix = b /\ Radix \in Nat /\ b \in Nat
  <2>1. b % Radix = b
    BY <1>1, Digits
  <2> QED BY <1>1, <2>1, RadixIs DEF Byte
<1>3. v = Denoted(n) + b * W(n) /\ Denoted(n) \in 0..(W(n) - 1) /\ v \in 0..(W(n + 1) - 1)
  <2>1. v = Denoted(n) + (b % Radix) * W(n)
    BY <1>1, DenotedIs
  <2> QED BY <1>1, <1>2, <2>1, DenotedIs
<1> HIDE DEF b, v
<1>4. W(n) \in Nat \ {0} /\ W(n + 1) \in Nat /\ W(LastIndex) \in Nat \ {0}
  BY <1>1, Weights
<1>11. Word = 2 * W(LastIndex) /\ W(n) <= W(LastIndex) /\ b * W(n) \in Nat
  <2>1. Word = 2 * W(LastIndex)
    BY Weights
  <2>2. W(n) <= W(LastIndex)
    BY <1>1, WeightsGrow
  <2> QED BY <1>2, <1>4, <2>1, <2>2
<1>5. v \in Nat
  BY <1>3, <1>4
<1>6. Overflows(n, b) <=> v >= Word
  <2>1. CASE n < LastIndex
    <3>1. W(n + 1) <= W(LastIndex)
      BY <1>1, <2>1, WeightsGrow
    <3> QED BY <1>1, <1>3, <1>4, <1>11, <2>1, <3>1, SMTT(20) DEF Overflows
  <2>2. CASE n = LastIndex
    <3>1. ASSUME NEW w \in Nat \ {0}, NEW x \in 0..(w - 1), NEW c \in Nat
          PROVE  c > 1 <=> x + c * w >= 2 * w
      <4>1. CASE c > 1
        <5>1. c * w >= 2 * w
          BY <4>1
        <5> QED BY <4>1, <5>1
      <4>2. CASE c = 0 \/ c = 1
        BY <4>2
      <4> QED BY <4>1, <4>2
    <3> QED BY <1>2, <1>3, <1>4, <1>11, <2>2, <3>1 DEF Overflows
  <2> QED BY <1>1, <2>1, <2>2
<1>7. ~ShiftPanics(DigitBits * n)
  BY <1>1, PanicIs
<1>8. ASSUME v < Word PROVE WordOr(Denoted(n), Shl(b, DigitBits * n)) = v
  <2>1. b * W(n) < Word /\ Denoted(n) \in 0..(W(n) - 1) /\ Word \in Nat
    BY <1>3, <1>4, <1>11, <1>8, SMTT(20)
  <2>2. Shl(b, DigitBits * n) = b * W(n)
    BY <1>2, <2>1, Shifts
  <2>3. b \in 0..(Word - 1)
    <3>1. ASSUME NEW w \in Nat \ {0}, NEW e \in Nat PROVE e <= e * w
      OBVIOUS
    <3> QED BY <1>2, <1>4, <1>11, <2>1, <3>1, SMTT(20)
  <2>4. DigitBits * n \in 0..WordBits
    <3>1. ASSUME NEW x \in Nat, NEW y \in Nat, NEW z \in Nat, x <= y
          PROVE  z * x <= z * y /\ z * x \in Nat /\ z * y \in Nat
      BY <3>1
    <3> QED BY <1>1, <3>1, UvarintAssumption
  <2>5. WordOr(Denoted(n), b * W(n)) = Denoted(n) + b * W(n)
    BY <2>1, <2>3, <2>4, UvarintAssumption DEF W
  <2> QED BY <1>3, <2>2, <2>5
<1>9. Word \in Nat /\ 0 + n + 1 = n + 1
  BY <1>4, <1>11
<1>10. LastPass(Denoted(n), n, b, 0) = IF v >= Word THEN Fault("err") ELSE Ok(v, n + 1)
  BY <1>5, <1>6, <1>7, <1>8, <1>9 DEF LastPass
<1> QED BY <1>5, <1>10 DEF b, v

-----------------------------------------------------------------------------
(* What read_uvarint returns, by where the varint ends. *)
LEMMA ReadIs ==
  ASSUME bytes \in Seq(Byte), LastByte <= LastIndex + 1
  PROVE  ReadUvarint(bytes, 0) =
           IF LastByte = 0
             THEN IF ~Release /\ Len(bytes) > LastIndex + 1 THEN Fault("panic") ELSE Fault("block")
             ELSE IF Value >= Word THEN Fault("err") ELSE Ok(Value, LastByte)
<1> DEFINE n == PassesOn(bytes, 0)
<1>1. LastIndex \in Nat /\ Release \in BOOLEAN /\ Len(bytes) \in Nat
  BY UvarintAssumption
<1>2. CASE LastByte = 0
  <2>1. n = Len(bytes)
    BY <1>2, LastByteIs
  <2>2. n > 0 /\ ShiftPanics(DigitBits * (n - 1)) <=> ~Release /\ Len(bytes) > LastIndex + 1
    <3>1. CASE Len(bytes) = 0
      BY <1>1, <2>1, <3>1
    <3>2. CASE Len(bytes) > 0
      <4>1. Len(bytes) - 1 \in Nat
        BY <1>1, <3>2
      <4>2. ShiftPanics(DigitBits * (Len(bytes) - 1)) <=> (Len(bytes) - 1 > LastIndex /\ ~Release)
        BY <4>1, PanicIs
      <4> QED BY <1>1, <2>1, <3>2, <4>2
    <3> QED BY <1>1, <3>1, <3>2
  <2>3. 0 + n = Len(bytes)
    BY <2>1
  <2> HIDE DEF n
  <2> QED BY <1>2, <2>2, <2>3 DEF ReadUvarint, OutOfBytes, n
<1>3. CASE LastByte # 0
  <2>1. /\ LastByte \in 1..Len(bytes) /\ n = LastByte - 1 /\ bytes[LastByte] < Radix
    BY <1>3, LastByteIs
  <2>2. /\ n \in Nat /\ n < Len(bytes) /\ n <= LastIndex /\ n + 1 = LastByte /\ 0 + n # Len(bytes)
        /\ 0 + n + 1 = LastByte /\ bytes[n + 1] < Radix
    BY <1>1, <2>1
  <2>3. ~(n > 0 /\ ShiftPanics(DigitBits * (n - 1)))
    <3>1. CASE n > 0
      <4>1. n - 1 \in Nat /\ ~(n - 1 > LastIndex)
        BY <1>1, <2>2, <3>1
      <4> QED BY <4>1, PanicIs
    <3> QED BY <3>1
  <2>4. Gathered(bytes, 0, n) = Denoted(n)
    BY <2>2, GatheredIs
  <2>5. ReadUvarint(bytes, 0) = LastPass(Denoted(n), n, bytes[LastByte], 0)
    BY <2>2, <2>3, <2>4 DEF ReadUvarint
  <2>6. LastPass(Denoted(n), n, bytes[n + 1], 0) =
          IF Denoted(n + 1) >= Word THEN Fault("err") ELSE Ok(Denoted(n + 1), n + 1)
    BY <2>2, LastPassIs
  <2> HIDE DEF n
  <2> QED BY <1>3, <2>2, <2>5, <2>6 DEF Value
<1> QED BY <1>2, <1>3

(* Whatever the widths of digits and words, and in builds with and without    *)
(* overflow checks: read_uvarint of at most LastIndex + 1 bytes is the number *)
(* they denote, or the error, the wait or the panic that it must be.          *)
THEOREM ReadsAreExact == Spec => []ExactUpToTen
<1>1. IInv => ExactUpToTen
  <2>1. SUFFICES ASSUME IInv, LastByte <= LastIndex + 1
        PROVE  result = CASE LastByte = 0 /\ (Release \/ Len(bytes) <= LastIndex + 1) -> Fault("block")
                          [] LastByte = 0 /\ ~Release /\ Len(bytes) > LastIndex + 1 -> Fault("panic")
                          [] LastByte > 0 /\ Value >= Word -> Fault("err")
                          [] LastByte > 0 /\ Value < Word -> Ok(Value, LastByte)
    BY DEF ExactUpToTen
  <2>2. result = IF LastByte = 0
                   THEN IF ~Release /\ Len(bytes) > LastIndex + 1 THEN Fault("panic") ELSE Fault("block")
                   ELSE IF Value >= Word THEN Fault("err") ELSE Ok(Value, LastByte)
    BY <2>1, ReadIs DEF IInv
  <2>3. LastIndex \in Nat /\ Release \in BOOLEAN /\ Len(bytes) \in Nat /\ LastByte \in Nat
    BY <2>1, UvarintAssumption, LastByteIs DEF IInv
  <2>4. Value \in Int /\ Word \in Nat
    <3>1. LastByte \in 0..Len(bytes)
      BY <2>1, LastByteIs DEF IInv
    <3>2. Value \in 0..(W(LastByte) - 1)
      BY <2>1, <3>1, DenotedIs DEF IInv, Value
    <3>3. W(LastByte) \in Nat
      BY <2>3, Weights
    <3>4. Word \in Nat
      BY Weights
    <3> QED BY <3>2, <3>3, <3>4
  <2>5. CASE LastByte = 0
    BY <2>2, <2>3, <2>5
  <2>6. CASE LastByte > 0
    BY <2>2, <2>3, <2>4, <2>6
  <2>7. LastByte = 0 \/ LastByte > 0
    BY <2>3
  <2> QED BY <2>5, <2>6, <2>7, Zenon
<1> QED BY <1>1, IInvHolds, PTL

-----------------------------------------------------------------------------
(* Once a varint is complete, the bytes after it are not read. *)
LEMMA ReadsOn ==
  ASSUME bytes \in Seq(Byte), NEW b \in Byte, ReadUvarint(bytes, 0).st = "ok"
  PROVE  ReadUvarint(Append(bytes, b), 0) = ReadUvarint(bytes, 0)
<1> DEFINE n == PassesOn(bytes, 0)
           more == Append(bytes, b)
<1>1. n \in Nat /\ n < Len(bytes) /\ GoesOn(bytes, 0, n)
  <2>1. n # Len(bytes)
    <3>1. ASSUME n = Len(bytes) PROVE FALSE
      <4>1. 0 + n = Len(bytes)
        BY <3>1
      <4>2. ReadUvarint(bytes, 0) \in {Fault("panic"), Fault("block")}
        BY <4>1 DEF ReadUvarint, OutOfBytes
      <4> QED BY <4>2 DEF Fault
    <3> QED BY <3>1
  <2>2. LastByte \in 1..Len(bytes) /\ n = LastByte - 1 /\ bytes[LastByte] < Radix /\ \A i \in 1..(LastByte - 1) : bytes[i] >= Radix
    BY <2>1, LastByteIs
  <2> HIDE DEF n
  <2> QED BY <2>2 DEF GoesOn
<1> HIDE DEF n
<1>2. /\ more \in Seq(Byte) /\ Len(more) = Len(bytes) + 1
      /\ \A i \in 1..Len(bytes) : more[i] = bytes[i]
  OBVIOUS
<1> HIDE DEF more
<1>3. PassesOn(more, 0) = n
  <2>1. GoesOn(more, 0, n)
    <3>1. \A i \in 1..n : more[0 + i] = bytes[0 + i]
      BY <1>1, <1>2
    <3>2. more[0 + n + 1] = bytes[0 + n + 1]
      BY <1>1, <1>2
    <3> QED BY <1>1, <1>2, <3>1, <3>2 DEF GoesOn
  <2>2. n <= Len(more)
    BY <1>1, <1>2
  <2> QED BY <1>1, <1>2, <2>1, <2>2, PassesAreThose
<1>4. Gathered(more, 0, n) = Gathered(bytes, 0, n)
  <2>1. n \in 0..Len(bytes) /\ n \in 0..Len(more)
    BY <1>1, <1>2
  <2>2. PICK g : IsLoop(g, 0, GatherF(bytes), n) /\ Gathered(bytes, 0, n) = g[n]
    BY <2>1, GatheredRuns
  <2>3. PICK h : IsLoop(h, 0, GatherF(more), n) /\ Gathered(more, 0, n) = h[n]
    BY <1>2, <2>1, GatheredRuns
  <2>4. \A k \in 0..n : g[k] \in U64
    <3>1. ASSUME NEW k \in 0..(n - 1), NEW v \in U64 PROVE GatherF(bytes)[<<k, v>>] \in U64
      <4>1. k \in Nat /\ k < Len(bytes)
        BY <1>1
      <4> QED BY <4>1, GatherPass
    <3>2. 0 \in U64
      <4>1. Word \in Nat \ {0}
        BY Pow2Is, UvarintAssumption DEF Word
      <4> QED BY <4>1 DEF U64
    <3>3. n \in Nat /\ IsLoop(g, 0, GatherF(bytes), n)
      BY <1>1, <2>2
    <3>4. \A k \in 0..(n - 1), v \in U64 : GatherF(bytes)[<<k, v>>] \in U64
      BY <3>1
    <3> QED BY <3>2, <3>3, <3>4, LoopStays
  <2>5. IsLoop(g, 0, GatherF(more), n)
    <3>1. ASSUME NEW k \in 0..(n - 1) PROVE g[k + 1] = GatherF(more)[<<k, g[k]>>]
      <4>1. k \in Nat /\ k < Len(bytes) /\ k < Len(more) /\ k + 1 \in 1..Len(bytes) /\ g[k] \in U64
        BY <1>1, <1>2, <2>4
      <4>2. more[k + 1] = bytes[k + 1]
        BY <1>2, <4>1
      <4>3. g[k + 1] = GatherF(bytes)[<<k, g[k]>>]
        BY <2>2 DEF IsLoop
      <4>4. GatherF(bytes)[<<k, g[k]>>] = WordOr(g[k], Shl(bytes[k + 1] % Radix, DigitBits * k))
        BY <4>1, GatherPass
      <4>5. GatherF(more)[<<k, g[k]>>] = WordOr(g[k], Shl(more[k + 1] % Radix, DigitBits * k))
        BY <1>2, <4>1, GatherPass
      <4> QED BY <4>2, <4>3, <4>4, <4>5
    <3> QED BY <2>2, <3>1 DEF IsLoop
  <2>6. g[n] = h[n]
    BY <1>1, <2>3, <2>5, LoopsAgree
  <2> QED BY <2>2, <2>3, <2>6
<1>5. 0 + n # Len(bytes) /\ 0 + n # Len(more) /\ more[0 + n + 1] = bytes[0 + n + 1]
  BY <1>1, <1>2
<1>6. ReadUvarint(more, 0) = ReadUvarint(bytes, 0)
  BY <1>3, <1>4, <1>5 DEF ReadUvarint, n
<1> QED BY <1>6 DEF more

(* Bytes that arrive after a varint is complete never change how it is read,  *)
(* however long it is.                                                        *)
THEOREM CompleteReadsStay == Spec => Stable
<1>1. IInv /\ [Next]_vars => [result.st = "ok" => result' = result]_vars
  <2>1. SUFFICES ASSUME IInv, Next, result.st = "ok" PROVE result' = result
    BY DEF vars
  <2>2. ASSUME NEW b \in Byte, Arrive(b) PROVE result' = result
    <3>1. result' = ReadUvarint(Append(bytes, b), 0)
      BY <2>2 DEF Arrive
    <3> QED BY <2>1, <3>1, ReadsOn DEF IInv
  <2>3. CASE UNCHANGED vars
    BY <2>3 DEF vars
  <2> QED BY <2>1, <2>2, <2>3 DEF Next, Byte
<1> QED BY <1>1, IInvHolds, PTL DEF Spec, Stable

-----------------------------------------------------------------------------
(* Division by a weight drops the digits below it. *)
LEMMA Division ==
  ASSUME NEW w \in Nat \ {0}, NEW x \in 0..(w - 1), NEW t \in Nat
  PROVE  (x + w * t) \div w = t /\ (x + w * t) % w = x
OBVIOUS

(* What put_uvarint has left of the number after k passes: the digits from    *)
(* byte k on.                                                                 *)
LEMMA MxIs ==
  ASSUME bytes \in Seq(Byte), NEW l \in 1..Len(bytes), NEW v, v = Denoted(l), bytes[l] < Radix
  PROVE  /\ Mx(v, l - 1) = bytes[l]
         /\ \A k \in 0..(l - 1) : Mx(v, k) \in Nat /\ (bytes[l] # 0 => Mx(v, k) # 0)
         /\ \A k \in 0..(l - 2) : Mx(v, k) = (bytes[k + 1] % Radix) + Radix * Mx(v, k + 1)
<1> DEFINE n == l - 1
           S(k) == /\ Mx(v, k) \in Nat /\ v = Denoted(k) + W(k) * Mx(v, k)
                   /\ bytes[l] # 0 => Mx(v, k) # 0
<1>1. n \in Nat /\ n + 1 = l /\ Radix \in Nat
  BY RadixIs
<1>2. ASSUME NEW k \in Nat, k <= n
      PROVE  /\ bytes[k + 1] % Radix \in 0..(Radix - 1)
             /\ Denoted(k) \in 0..(W(k) - 1) /\ W(k) \in Nat \ {0} /\ W(k + 1) = Radix * W(k)
             /\ Denoted(k + 1) = Denoted(k) + (bytes[k + 1] % Radix) * W(k)
  <2>1. k \in 0..(Len(bytes) - 1) /\ k \in 0..Len(bytes) /\ bytes[k + 1] \in Byte
    BY <1>1, <1>2
  <2>2. W(k) \in Nat \ {0} /\ W(k + 1) = Radix * W(k)
    BY Weights
  <2>3. bytes[k + 1] % Radix \in 0..(Radix - 1)
    BY <2>1, Digits
  <2> QED BY <2>1, <2>2, <2>3, DenotedIs
<1>3. ASSUME NEW k \in Nat, NEW t \in Nat, k <= n, v = Denoted(k) + W(k) * t
      PROVE  Mx(v, k) = t
  <2>1. W(k) \in Nat \ {0} /\ Denoted(k) \in 0..(W(k) - 1)
    BY <1>2, <1>3
  <2>2. (Denoted(k) + W(k) * t) \div W(k) = t
    BY <2>1, Division
  <2> QED BY <1>3, <2>2 DEF Mx, W
<1>4. Mx(v, n) = bytes[l] /\ S(n)
  <2>1. bytes[l] \in Nat /\ bytes[l] % Radix = bytes[l]
    <3>1. bytes[l] \in Byte
      OBVIOUS
    <3>2. bytes[l] % Radix = bytes[l]
      BY <3>1, Digits
    <3> QED BY <3>1, <3>2, RadixIs DEF Byte
  <2>2. v = Denoted(n) + bytes[l] * W(n) /\ W(n) \in Nat
    <3>1. n \in Nat /\ n <= n
      BY <1>1
    <3>2. Denoted(n + 1) = Denoted(n) + (bytes[n + 1] % Radix) * W(n) /\ W(n) \in Nat \ {0}
      BY <1>2, <3>1
    <3> QED BY <1>1, <2>1, <3>2
  <2>3. bytes[l] * W(n) = W(n) * bytes[l]
    BY <2>1, <2>2
  <2>4. v = Denoted(n) + W(n) * bytes[l]
    BY <2>2, <2>3
  <2>5. Mx(v, n) = bytes[l]
    BY <1>1, <1>3, <2>1, <2>4
  <2> QED BY <2>1, <2>4, <2>5
<1>5. ASSUME NEW k \in Nat, k + 1 <= n, S(k + 1)
      PROVE  S(k) /\ Mx(v, k) = (bytes[k + 1] % Radix) + Radix * Mx(v, k + 1)
  <2> DEFINE d == bytes[k + 1] % Radix
             t == Mx(v, k + 1)
             w == W(k)
  <2>1. /\ d \in 0..(Radix - 1) /\ w \in Nat \ {0} /\ W(k + 1) = Radix * w /\ t \in Nat
        /\ Denoted(k) \in 0..(w - 1) /\ Denoted(k + 1) = Denoted(k) + d * w
        /\ v = Denoted(k + 1) + W(k + 1) * t /\ (bytes[l] # 0 => t # 0)
    <3>1. k <= n
      BY <1>1, <1>5
    <3> QED BY <1>2, <1>5, <3>1
  <2> HIDE DEF d, t, w
  <2>2. ASSUME NEW x \in Nat, NEW e \in Nat, NEW z \in Nat, NEW r \in Nat, NEW u \in Nat
        PROVE  (x + e * z) + (r * z) * u = x + z * (e + r * u)
    OBVIOUS
  <2>3. d \in Nat /\ Denoted(k) \in Nat /\ Radix \in Nat \ {0}
    BY <1>1, <2>1, RadixIs
  <2>4. v = Denoted(k) + w * (d + Radix * t)
    BY <2>1, <2>2, <2>3
  <2>5. d + Radix * t \in Nat /\ (t # 0 => d + Radix * t # 0)
    <3>1. ASSUME NEW r \in Nat \ {0}, NEW u \in Nat PROVE r * u \in Nat /\ (u # 0 => r * u # 0)
      OBVIOUS
    <3>2. Radix * t \in Nat /\ (t # 0 => Radix * t # 0)
      BY <2>1, <2>3, <3>1
    <3> QED BY <2>3, <3>2
  <2>6. Mx(v, k) = d + Radix * t
    <3>1. k <= n
      BY <1>1, <1>5
    <3> QED BY <1>3, <2>4, <2>5, <3>1 DEF w
  <2> QED BY <2>1, <2>4, <2>5, <2>6 DEF d, t, w
<1> HIDE DEF S
<1> DEFINE G == {j \in Nat : j <= n => S(n - j)}
<1>6. Nat \subseteq G
  <2>1. 0 \in G
    <3>1. n - 0 = n
      BY <1>1
    <3> QED BY <1>4, <3>1
  <2>2. ASSUME NEW j \in Nat, j \in G PROVE j + 1 \in G
    <3>1. CASE j + 1 <= n
      <4>1. n - (j + 1) \in Nat /\ (n - (j + 1)) + 1 = n - j /\ n - j <= n /\ j <= n
        BY <1>1, <3>1
      <4>2. S((n - (j + 1)) + 1)
        BY <2>2, <4>1
      <4>3. S(n - (j + 1))
        BY <1>5, <4>1, <4>2
      <4> QED BY <4>3
    <3> QED BY <3>1
  <2> QED BY <2>1, <2>2, SetInduction
<1>7. ASSUME NEW k \in 0..n PROVE S(k)
  <2>1. n - k \in Nat /\ n - k <= n /\ n - (n - k) = k
    BY <1>1
  <2>2. n - k \in G
    BY <1>6, <2>1
  <2> QED BY <2>1, <2>2
<1>8. ASSUME NEW k \in 0..(l - 2)
      PROVE  Mx(v, k) = (bytes[k + 1] % Radix) + Radix * Mx(v, k + 1)
  <2>1. k \in Nat /\ k + 1 <= n /\ k + 1 \in 0..n
    BY <1>1
  <2> QED BY <1>5, <1>7, <2>1
<1>9. \A k \in 0..(l - 1) : Mx(v, k) \in Nat /\ (bytes[l] # 0 => Mx(v, k) # 0)
  BY <1>7 DEF S
<1> QED BY <1>4, <1>8, <1>9

(* put_uvarint of what a varint in its shortest form denotes. *)
LEMMA PutIs ==
  ASSUME bytes \in Seq(Byte), NEW l \in 1..Len(bytes), l <= LastIndex + 1, bytes[l] < Radix,
         \A i \in 1..(l - 1) : bytes[i] >= Radix, l > 1 => bytes[l] # 0
  PROVE  PutUvarint(Denoted(l)) = SubSeq(bytes, 1, l)
<1> DEFINE v == Denoted(l)
           n == l - 1
<1>1. n \in Nat /\ n + 1 = l /\ LastIndex \in Nat /\ n \in 0..LastIndex
  BY UvarintAssumption
<1>2. /\ Mx(v, n) = bytes[l]
      /\ \A k \in 0..(l - 1) : Mx(v, k) \in Nat /\ (bytes[l] # 0 => Mx(v, k) # 0)
      /\ \A k \in 0..(l - 2) : Mx(v, k) = (bytes[k + 1] % Radix) + Radix * Mx(v, k + 1)
  BY MxIs
<1>3. ASSUME NEW k \in 0..(n - 1)
      PROVE  /\ Mx(v, k) = (bytes[k + 1] % Radix) + Radix * Mx(v, k + 1)
             /\ Mx(v, k + 1) \in Nat \ {0} /\ bytes[k + 1] % Radix \in 0..(Radix - 1)
             /\ bytes[k + 1] = Radix + (bytes[k + 1] % Radix)
  <2>1. /\ k \in 0..(l - 2) /\ k + 1 \in 0..(l - 1) /\ k + 1 \in 1..(l - 1) /\ l > 1
        /\ k + 1 \in 1..Len(bytes)
    BY <1>1
  <2>2. bytes[k + 1] \in Byte /\ bytes[k + 1] >= Radix
    BY <2>1
  <2>3. bytes[k + 1] % Radix \in 0..(Radix - 1) /\ bytes[k + 1] = Radix + (bytes[k + 1] % Radix)
    BY <2>2, Digits
  <2>4. Mx(v, k + 1) \in Nat /\ Mx(v, k + 1) # 0
    BY <1>2, <2>1
  <2> QED BY <1>2, <2>1, <2>3, <2>4
<1> HIDE DEF v
<1>4. ASSUME NEW r \in Nat \ {0}, NEW d \in 0..(r - 1), NEW t \in Nat \ {0}
      PROVE  d + r * t >= r /\ (d + r * t) % r = d
  <2>1. (d + r * t) % r = d
    BY Division
  <2>2. r * t >= r
    OBVIOUS
  <2> QED BY <2>1, <2>2
<1>5. ASSUME NEW k \in 0..(n - 1)
      PROVE  Continues(Mx(v, k)) /\ Mx(v, k) % Radix = bytes[k + 1] % Radix
  <2>1. Radix \in Nat \ {0}
    BY RadixIs
  <2> DEFINE d == bytes[k + 1] % Radix
             t == Mx(v, k + 1)
  <2>2. Mx(v, k) = d + Radix * t /\ t \in Nat \ {0} /\ d \in 0..(Radix - 1)
    BY <1>3
  <2> HIDE DEF d, t
  <2>3. d + Radix * t >= Radix /\ (d + Radix * t) % Radix = d
    BY <1>4, <2>1, <2>2
  <2> QED BY <2>2, <2>3 DEF Continues, d
<1>6. ~Continues(Mx(v, n))
  <2>1. bytes[l] \in Byte
    OBVIOUS
  <2> QED BY <1>2, <2>1, RadixIs DEF Continues, Byte
<1>7. Passes(v) = n
  <2> DEFINE m == Passes(v)
             P(p) == ~Continues(Mx(v, p)) /\ \A i \in 0..(p - 1) : Continues(Mx(v, i))
  <2>1. P(n)
    BY <1>5, <1>6
  <2>2. m = CHOOSE p \in 0..LastIndex : P(p)
    BY DEF Passes
  <2>3. m \in 0..LastIndex /\ P(m)
    BY <1>1, <2>1, <2>2
  <2> HIDE DEF m
  <2>4. ~(m < n)
    <3>1. m < n => m \in 0..(n - 1)
      BY <1>1, <2>3
    <3> QED BY <2>1, <2>3, <3>1
  <2>5. ~(n < m)
    <3>1. n < m => n \in 0..(m - 1)
      BY <1>1, <2>3
    <3> QED BY <2>1, <2>3, <3>1
  <2>6. m = n
    BY <1>1, <2>3, <2>4, <2>5
  <2> QED BY <2>6 DEF m
<1>8. ASSUME NEW i \in 1..l
      PROVE  (IF i <= n THEN Radix + (Mx(v, i - 1) % Radix) ELSE Mx(v, i - 1)) = bytes[i]
  <2>1. CASE i <= n
    <3>1. i - 1 \in 0..(n - 1) /\ (i - 1) + 1 = i
      BY <1>1, <2>1
    <3>2. Mx(v, i - 1) % Radix = bytes[i] % Radix /\ bytes[i] = Radix + (bytes[i] % Radix)
      BY <1>3, <1>5, <3>1
    <3> QED BY <2>1, <3>2
  <2>2. CASE ~(i <= n)
    <3>1. i = l
      BY <1>1, <2>2
    <3> QED BY <1>2, <2>2, <3>1
  <2> QED BY <2>1, <2>2
<1>9. PutUvarint(v) = [i \in 1..l |-> bytes[i]]
  BY <1>1, <1>7, <1>8 DEF PutUvarint
<1>10. SubSeq(bytes, 1, l) = [i \in 1..l |-> bytes[i]]
  OBVIOUS
<1> QED BY <1>9, <1>10 DEF v

(* put_uvarint writes what was read back as it was, from the shortest form.   *)
THEOREM PutInvertsRead == Spec => []RoundTrip
<1>1. IInv => RoundTrip
  <2>1. SUFFICES ASSUME IInv, result.st = "ok", LastByte > 1 => bytes[LastByte] # 0, LastByte <= LastIndex + 1
        PROVE  PutUvarint(result.val) = SubSeq(bytes, 1, LastByte)
    BY DEF RoundTrip
  <2>2. result = IF LastByte = 0
                   THEN IF ~Release /\ Len(bytes) > LastIndex + 1 THEN Fault("panic") ELSE Fault("block")
                   ELSE IF Value >= Word THEN Fault("err") ELSE Ok(Value, LastByte)
    BY <2>1, ReadIs DEF IInv
  <2>3. LastByte # 0 /\ result.val = Denoted(LastByte)
    BY <2>1, <2>2 DEF Ok, Fault, Value
  <2>4. LastByte \in 1..Len(bytes) /\ bytes[LastByte] < Radix /\ \A i \in 1..(LastByte - 1) : bytes[i] >= Radix
    BY <2>1, <2>3, LastByteIs DEF IInv
  <2> QED BY <2>1, <2>3, <2>4, PutIs DEF IInv
<1> QED BY <1>1, IInvHolds, PTL
=============================================================================
