----------------------------- MODULE TextsProofs -----------------------------
(***************************************************************************)
(* What is read out and what is understood, for every amount, every time   *)
(* of the day, every week of opening hours, every weekday asked for and    *)
(* every documented start.                                                 *)
(***************************************************************************)
EXTENDS Texts, FiniteSetTheorems, TLAPS

\* Of naturals there is a least: what stands in for an induction.
LEMMA LeastNatural ==
  ASSUME NEW S \in SUBSET Nat, S # {}
  PROVE  \E m \in S : \A k \in S : m <= k
<1>1. PICK m \in S : \A k \in S : <<k, m>> \notin OpToRel(<, Nat)
  BY WFMin, NatLessThanWellFounded
<1>2. \A k \in S : ~(k < m)
  BY <1>1 DEF OpToRel
<1>3. \A k \in S : m <= k
  BY <1>2
<1>4. QED
  BY <1>3

-----------------------------------------------------------------------------
(* A listener, word by word                                                *)

\* What the listener knows after each of the words.
Hears(sofar, words, after) ==
    /\ after = [i \in 0..Len(words) |-> after[i]]
    /\ after[0] = sofar
    /\ \A i \in 1..Len(words) : after[i] = HearWord(after[i - 1], words[i])

LEMMA SomeHearing ==
  ASSUME NEW sofar, NEW words \in Seq(Int)
  PROVE  \E after : Hears(sofar, words, after)
<1> DEFINE Upto(n, after) ==
              /\ after = [i \in 0..n |-> after[i]]
              /\ after[0] = sofar
              /\ \A i \in 1..n : after[i] = HearWord(after[i - 1], words[i])
           Bad == {n \in Nat : ~\E after : Upto(n, after)}
<1>1. Bad = {}
  <2>1. SUFFICES ASSUME Bad # {} PROVE FALSE
    OBVIOUS
  <2>2. PICK n \in Bad : \A k \in Bad : n <= k
    BY <2>1, LeastNatural
  <2>3. n # 0
    <3>1. Upto(0, [i \in 0..0 |-> sofar])
      OBVIOUS
    <3>2. QED
      BY <3>1
  <2>4. n - 1 \in Nat /\ n - 1 \notin Bad
    BY <2>2, <2>3
  <2>5. PICK after : Upto(n - 1, after)
    BY <2>4
  <2> DEFINE more == [i \in 0..n |-> IF i = n THEN HearWord(after[n - 1], words[n]) ELSE after[i]]
  <2>6. /\ more = [i \in 0..n |-> more[i]]
        /\ more[0] = sofar
    BY <2>3, <2>5
  <2>7. ASSUME NEW i \in 1..n PROVE more[i] = HearWord(more[i - 1], words[i])
    <3>1. i \in 0..n /\ i - 1 \in 0..n /\ i - 1 # n
      OBVIOUS
    <3>2. more[i - 1] = after[i - 1]
      BY <3>1
    <3>3. CASE i = n
      BY <3>1, <3>2, <3>3
    <3>4. CASE i # n
      <4>1. i \in 1..(n - 1) /\ more[i] = after[i]
        BY <3>1, <3>4
      <4>2. QED
        BY <2>5, <3>2, <4>1
    <3>5. QED
      BY <3>3, <3>4
  <2>8. Upto(n, more)
    BY <2>6, <2>7
  <2>9. QED
    BY <2>8
<1>2. Len(words) \in Nat /\ Len(words) \notin Bad
  BY <1>1
<1>3. \E after : Upto(Len(words), after)
  BY <1>2
<1>4. QED
  BY <1>3 DEF Hears

LEMMA OneHearing ==
  ASSUME NEW sofar, NEW words \in Seq(Int), NEW f, NEW g,
         Hears(sofar, words, f), Hears(sofar, words, g)
  PROVE  f = g
<1> DEFINE Bad == {i \in 0..Len(words) : f[i] # g[i]}
<1>1. Bad = {}
  <2>1. SUFFICES ASSUME Bad # {} PROVE FALSE
    OBVIOUS
  <2>0. Bad \in SUBSET Nat
    OBVIOUS
  <2>2. PICK n \in Bad : \A k \in Bad : n <= k
    BY <2>0, <2>1, LeastNatural
  <2>3. n \in 1..Len(words)
    BY DEF Hears
  <2>4. f[n - 1] = g[n - 1]
    BY <2>2, <2>3
  <2>5. QED
    BY <2>3, <2>4 DEF Hears
<1>2. \A i \in 0..Len(words) : f[i] = g[i]
  BY <1>1
<1>3. QED
  BY <1>2 DEF Hears

LEMMA HearsFrom ==
  ASSUME NEW sofar, NEW words \in Seq(Int), NEW after, Hears(sofar, words, after)
  PROVE  HearFrom(sofar, words) = after[Len(words)]
<1> DEFINE Step(f) == [i \in 0..Len(words) |->
                          IF i = 0 THEN sofar ELSE HearWord(f[i - 1], words[i])]
           heard == CHOOSE f : f = Step(f)
<1>1. after = Step(after)
  <2>1. \A i \in 0..Len(words) : after[i] = Step(after)[i]
    BY DEF Hears
  <2>2. after = [i \in 0..Len(words) |-> after[i]]
    BY DEF Hears
  <2> HIDE DEF Step
  <2>3. Step(after) = [i \in 0..Len(words) |-> Step(after)[i]]
    BY DEF Step
  <2>4. QED
    BY <2>1, <2>2, <2>3
<1>2. heard = Step(heard)
  BY <1>1
<1>3. HearFrom(sofar, words) = heard[Len(words)]
  BY DEF HearFrom
<1> HIDE DEF heard
<1>4. Hears(sofar, words, heard)
  BY <1>2 DEF Hears
<1>5. QED
  BY <1>3, <1>4, OneHearing

\* A text is heard piece by piece.
LEMMA HearBoth ==
  ASSUME NEW sofar, NEW u \in Seq(Int), NEW v \in Seq(Int)
  PROVE  HearFrom(sofar, u \o v) = HearFrom(HearFrom(sofar, u), v)
<1>1. PICK f : Hears(sofar, u, f)
  BY SomeHearing
<1>2. PICK g : Hears(f[Len(u)], v, g)
  BY SomeHearing
<1> DEFINE m == Len(u)
           n == Len(v)
           h == [i \in 0..(m + n) |-> IF i <= m THEN f[i] ELSE g[i - m]]
<1>3. m \in Nat /\ n \in Nat /\ Len(u \o v) = m + n /\ u \o v \in Seq(Int)
  OBVIOUS
<1>4. ASSUME NEW i \in 1..(m + n)
      PROVE  (u \o v)[i] = IF i <= m THEN u[i] ELSE v[i - m]
  OBVIOUS
<1>5. /\ f[0] = sofar /\ \A i \in 1..m : f[i] = HearWord(f[i - 1], u[i])
      /\ g[0] = f[m] /\ \A i \in 1..n : g[i] = HearWord(g[i - 1], v[i])
  BY <1>1, <1>2 DEF Hears
<1> HIDE DEF m, n
<1>6. ASSUME NEW i \in 1..(m + n) PROVE h[i] = HearWord(h[i - 1], (u \o v)[i])
  <2>1. CASE i <= m
    <3>1. i \in 1..m /\ h[i] = f[i] /\ h[i - 1] = f[i - 1]
      BY <1>3, <2>1
    <3>2. QED
      BY <1>4, <1>5, <2>1, <3>1
  <2>2. CASE i > m
    <3>1. i - m \in 1..n /\ h[i] = g[i - m] /\ (u \o v)[i] = v[i - m]
      BY <1>3, <1>4, <2>2
    <3>2. h[i - 1] = g[(i - m) - 1]
      <4>1. CASE i = m + 1
        BY <1>3, <1>5, <4>1
      <4>2. CASE i # m + 1
        BY <1>3, <2>2, <4>2
      <4>3. QED
        BY <4>1, <4>2
    <3>3. QED
      BY <1>5, <3>1, <3>2
  <2>3. QED
    BY <1>3, <2>1, <2>2
<1>7. h[0] = sofar /\ h[m + n] = g[n]
  <2>1. h[0] = sofar /\ m + n \in 0..(m + n)
    BY <1>3, <1>5
  <2>2. CASE n = 0
    BY <1>3, <1>5, <2>1, <2>2
  <2>3. CASE n # 0
    BY <1>3, <2>1, <2>3
  <2>4. QED
    BY <2>1, <2>2, <2>3
<1>8. h = [i \in 0..(m + n) |-> h[i]]
  OBVIOUS
<1> HIDE DEF h
<1>9. Hears(sofar, u \o v, h)
  BY <1>3, <1>6, <1>7, <1>8 DEF Hears
<1>10. HearFrom(sofar, u) = f[m] /\ HearFrom(f[m], v) = g[n]
  BY <1>1, <1>2, HearsFrom DEF m, n
<1>11. QED
  BY <1>3, <1>7, <1>9, <1>10, HearsFrom

LEMMA HearOne ==
  ASSUME NEW sofar, NEW w \in Int
  PROVE  /\ HearFrom(sofar, <<>>) = sofar
         /\ HearFrom(sofar, <<w>>) = HearWord(sofar, w)
<1>1. Hears(sofar, <<>>, [i \in 0..0 |-> sofar])
  BY DEF Hears
<1>2. Hears(sofar, <<w>>, [i \in 0..1 |-> IF i = 0 THEN sofar ELSE HearWord(sofar, w)])
  BY DEF Hears
<1>3. <<>> \in Seq(Int) /\ <<w>> \in Seq(Int) /\ Len(<<>>) = 0 /\ Len(<<w>>) = 1
  OBVIOUS
<1>4. QED
  BY <1>1, <1>2, <1>3, HearsFrom

-----------------------------------------------------------------------------
(* The words of a number                                                   *)

\* What numberToWords makes of n with f for the numbers it calls itself on.
WordsBy(f, n) ==
    IF n < 0 THEN <<Minus>> \o f[-n]
    ELSE IF n < 20 THEN <<n>>
    ELSE (IF n < 100 THEN <<n - Rest(n)>> ELSE f[n \div Unit(n)] \o <<Unit(n)>>)
         \o (IF Rest(n) = 0 THEN <<>> ELSE f[Rest(n)])

LEMMA UnitIs ==
  ASSUME NEW n \in Nat
  PROVE  /\ Unit(n) \in Nat
         /\ n < 100 => Unit(n) = 10 /\ Rest(n) = n % 10
         /\ n >= 100 /\ n < 1000 => Unit(n) = 100 /\ Rest(n) = n % 100
         /\ n >= 1000 /\ n < 100000 => Unit(n) = 1000 /\ Rest(n) = n % 1000
         /\ n >= 100000 => Unit(n) = 100000 /\ Rest(n) = n % 100000
<1>1. /\ Unit(n) \in Nat
      /\ n < 100 => Unit(n) = 10
      /\ n >= 100 /\ n < 1000 => Unit(n) = 100
      /\ n >= 1000 /\ n < 100000 => Unit(n) = 1000
      /\ n >= 100000 => Unit(n) = 100000
  BY DEF Unit
<1>2. QED
  BY <1>1 DEF Rest

\* What the remainders and quotients come to.
LEMMA Tens ==
  ASSUME NEW n \in Nat, n < 100
  PROVE  n % 10 \in Nat /\ n % 10 < 10 /\ n - (n % 10) \in Nat /\ n - (n % 10) < 100
  OBVIOUS

LEMMA Hundreds ==
  ASSUME NEW n \in Nat, n < 1000
  PROVE  /\ n \div 100 \in Nat /\ n \div 100 < 100
         /\ n % 100 \in Nat /\ n % 100 < 100
         /\ (n \div 100) * 100 + (n % 100) = n
  OBVIOUS

LEMMA Thousands ==
  ASSUME NEW n \in Nat, n < 100000
  PROVE  /\ n \div 1000 \in Nat /\ n \div 1000 < 100
         /\ n % 1000 \in Nat /\ n % 1000 < 1000
         /\ (n \div 1000) * 1000 + (n % 1000) = n
  OBVIOUS

LEMMA Lakhs ==
  ASSUME NEW n \in Nat, n >= 100000
  PROVE  /\ n \div 100000 \in Nat /\ n \div 100000 < n
         /\ n % 100000 \in Nat /\ n % 100000 < 100000
         /\ (n \div 100000) * 100000 + (n % 100000) = n
  OBVIOUS

\* It only ever calls itself on smaller numbers.
LEMMA CallsAreSmaller ==
  ASSUME NEW n \in Nat, n >= 20
  PROVE  /\ Rest(n) \in 0..(n - 1)
         /\ n >= 100 => n \div Unit(n) \in 1..(n - 1)
<1>1. CASE n < 100
  BY <1>1, UnitIs, Tens
<1>2. CASE n >= 100 /\ n < 1000
  BY <1>2, UnitIs, Hundreds
<1>3. CASE n >= 1000 /\ n < 100000
  BY <1>3, UnitIs, Thousands
<1>4. CASE n >= 100000
  BY <1>4, UnitIs, Lakhs
<1>5. QED
  BY <1>1, <1>2, <1>3, <1>4

\* f holds the words of 0..n.
Spells(n, f) == /\ f = [k \in 0..n |-> f[k]]
                /\ \A k \in 0..n : f[k] = WordsBy(f, k)

LEMMA SameWords ==
  ASSUME NEW f, NEW g, NEW n \in Nat, \A k \in Nat : k < n => f[k] = g[k]
  PROVE  WordsBy(f, n) = WordsBy(g, n)
<1>1. CASE n < 20
  BY <1>1 DEF WordsBy
<1>2. CASE n >= 20
  <2>1. /\ Rest(n) \in Nat /\ Rest(n) < n
        /\ n >= 100 => n \div Unit(n) \in Nat /\ n \div Unit(n) < n
    BY <1>2, CallsAreSmaller
  <2>2. f[Rest(n)] = g[Rest(n)] /\ (n >= 100 => f[n \div Unit(n)] = g[n \div Unit(n)])
    BY <2>1
  <2>3. QED
    BY <1>2, <2>2 DEF WordsBy
<1>3. QED
  BY <1>1, <1>2

LEMMA SomeSpelling ==
  ASSUME NEW n \in Nat
  PROVE  \E f : Spells(n, f)
<1> DEFINE Bad == {k \in Nat : ~\E f : Spells(k, f)}
<1>1. Bad = {}
  <2>1. SUFFICES ASSUME Bad # {} PROVE FALSE
    OBVIOUS
  <2>2. PICK k \in Bad : \A i \in Bad : k <= i
    BY <2>1, LeastNatural
  <2>3. CASE k = 0
    <3>1. Spells(0, [i \in 0..0 |-> <<0>>])
      BY DEF Spells, WordsBy
    <3>2. QED
      BY <2>3, <3>1
  <2>4. CASE k # 0
    <3>1. k - 1 \in Nat /\ k - 1 \notin Bad
      BY <2>2, <2>4
    <3>2. PICK f : Spells(k - 1, f)
      BY <3>1
    <3> DEFINE g == [i \in 0..k |-> IF i = k THEN WordsBy(f, k) ELSE f[i]]
    <3>3. \A i \in Nat : i < k => g[i] = f[i]
      OBVIOUS
    <3>4. g[k] = WordsBy(f, k) /\ g = [i \in 0..k |-> g[i]]
      OBVIOUS
    <3> HIDE DEF g
    <3>5. ASSUME NEW i \in 0..k PROVE g[i] = WordsBy(g, i)
      <4>1. WordsBy(g, i) = WordsBy(f, i)
        BY <3>3, SameWords
      <4>2. CASE i = k
        BY <3>4, <4>1, <4>2
      <4>3. CASE i # k
        <5>1. i \in 0..(k - 1) /\ i \in Nat /\ i < k
          BY <3>1, <4>3
        <5>2. QED
          BY <3>2, <3>3, <4>1, <5>1 DEF Spells
      <4>4. QED
        BY <4>2, <4>3
    <3>6. Spells(k, g)
      BY <3>4, <3>5 DEF Spells
    <3>7. QED
      BY <3>6
  <2>5. QED
    BY <2>3, <2>4
<1>2. QED
  BY <1>1

LEMMA OneSpelling ==
  ASSUME NEW m \in Nat, NEW n \in Nat, m <= n, NEW f, NEW g, Spells(m, f), Spells(n, g)
  PROVE  \A k \in 0..m : f[k] = g[k]
<1> DEFINE Bad == {k \in 0..m : f[k] # g[k]}
<1>1. SUFFICES ASSUME Bad # {} PROVE FALSE
  OBVIOUS
<1>2. Bad \in SUBSET Nat
  OBVIOUS
<1>3. PICK k \in Bad : \A i \in Bad : k <= i
  BY <1>1, <1>2, LeastNatural
<1>4. k \in Nat /\ k \in 0..m /\ k \in 0..n /\ f[k] # g[k]
  OBVIOUS
<1>5. ASSUME NEW i \in Nat, i < k PROVE f[i] = g[i]
  BY <1>3, <1>4, <1>5
<1>6. WordsBy(f, k) = WordsBy(g, k)
  BY <1>4, <1>5, SameWords
<1>7. QED
  BY <1>4, <1>6 DEF Spells

\* numberToWords is defined by what it says: its calls of itself end.
LEMMA NumberToWords ==
  /\ numberToWords = [n \in Int |-> numberToWords[n]]
  /\ \A n \in Int : numberToWords[n] = WordsBy(numberToWords, n)
<1> DEFINE Body(f) == [n \in Int |->
              IF n < 0 THEN <<Minus>> \o f[-n]
              ELSE IF n < 20 THEN <<n>>
              ELSE (IF n < 100 THEN <<n - Rest(n)>> ELSE f[n \div Unit(n)] \o <<Unit(n)>>)
                   \o (IF Rest(n) = 0 THEN <<>> ELSE f[Rest(n)])]
           spelling == [n \in Nat |-> CHOOSE f : Spells(n, f)]
           words == [n \in Nat |-> spelling[n][n]]
           all == [n \in Int |-> IF n < 0 THEN <<Minus>> \o words[-n] ELSE words[n]]
<1>1. \A n \in Nat : Spells(n, spelling[n])
  BY SomeSpelling
<1>2. \A n \in Nat : words[n] = spelling[n][n]
  OBVIOUS
<1> HIDE DEF spelling, words
<1>3. ASSUME NEW n \in Nat PROVE words[n] = WordsBy(words, n)
  <2>1. \A k \in Nat : k < n => words[k] = spelling[n][k]
    BY <1>1, <1>2, OneSpelling
  <2>2. WordsBy(words, n) = WordsBy(spelling[n], n)
    BY <2>1, SameWords
  <2>3. n \in 0..n /\ Spells(n, spelling[n])
    BY <1>1
  <2>4. spelling[n][n] = WordsBy(spelling[n], n)
    BY <2>3 DEF Spells
  <2>5. QED
    BY <1>2, <2>2, <2>4
<1>4. \A n \in Nat : all[n] = words[n]
  OBVIOUS
<1>5. \A n \in Int : n < 0 => all[n] = <<Minus>> \o all[-n]
  OBVIOUS
<1>6. all = [n \in Int |-> all[n]]
  OBVIOUS
<1> HIDE DEF all
<1>7. ASSUME NEW n \in Int PROVE all[n] = WordsBy(all, n)
  <2>1. CASE n < 0
    BY <1>5, <2>1 DEF WordsBy
  <2>2. CASE n >= 0
    BY <1>3, <1>4, <2>2, SameWords
  <2>3. QED
    BY <2>1, <2>2
<1>8. all = Body(all)
  <2>1. \A n \in Int : WordsBy(all, n) = Body(all)[n]
    BY DEF WordsBy
  <2>2. Body(all) = [n \in Int |-> Body(all)[n]]
    OBVIOUS
  <2> HIDE DEF Body
  <2>3. QED
    BY <1>6, <1>7, <2>1, <2>2
<1>9. numberToWords = CHOOSE f : f = Body(f)
  BY DEF numberToWords
<1> HIDE DEF Body
<1>10. numberToWords = Body(numberToWords)
  BY <1>8, <1>9
<1>11. \A f, n : n \in Int => Body(f)[n] = WordsBy(f, n)
  BY DEF Body, WordsBy
<1>12. \A f : Body(f) = [n \in Int |-> Body(f)[n]]
  BY DEF Body
<1>13. QED
  BY <1>10, <1>11, <1>12

LEMMA ShortWords ==
  ASSUME NEW n \in Nat, n < 20
  PROVE  numberToWords[n] = <<n>>
<1>1. numberToWords[n] = WordsBy(numberToWords, n) /\ ~(n < 0)
  BY NumberToWords, SMT
<1>2. QED
  BY <1>1, Zenon DEF WordsBy

LEMMA LongWords ==
  ASSUME NEW n \in Nat, n >= 20
  PROVE  numberToWords[n] =
           (IF n < 100 THEN <<n - Rest(n)>> ELSE numberToWords[n \div Unit(n)] \o <<Unit(n)>>)
           \o (IF Rest(n) = 0 THEN <<>> ELSE numberToWords[Rest(n)])
<1>1. numberToWords[n] = WordsBy(numberToWords, n) /\ ~(n < 0) /\ ~(n < 20)
  BY NumberToWords, SMT
<1>2. QED
  BY <1>1, Zenon DEF WordsBy

LEMMA MinusWords ==
  ASSUME NEW n \in Int, n < 0
  PROVE  numberToWords[n] = <<Minus>> \o numberToWords[-n]
<1>1. numberToWords[n] = WordsBy(numberToWords, n)
  BY NumberToWords, SMT
<1>2. QED
  BY <1>1, Zenon DEF WordsBy

LEMMA WordsType == \A n \in Int : numberToWords[n] \in Seq(Int)
<1> DEFINE Bad == {n \in Nat : numberToWords[n] \notin Seq(Int)}
<1>1. Bad = {}
  <2>1. SUFFICES ASSUME Bad # {} PROVE FALSE
    OBVIOUS
  <2>2. PICK n \in Bad : \A k \in Bad : n <= k
    BY <2>1, LeastNatural
  <2>3. \A k \in Nat : k < n => numberToWords[k] \in Seq(Int)
    BY <2>2
  <2>4. n \in Nat /\ numberToWords[n] \notin Seq(Int)
    OBVIOUS
  <2>5. CASE n < 20
    <3>1. numberToWords[n] = <<n>> /\ n \in Int
      BY <2>5, ShortWords, SMT
    <3>2. <<n>> \in Seq(Int)
      BY <3>1
    <3>3. QED
      BY <2>4, <3>1, <3>2, Zenon
  <2>6. CASE n >= 20
    <3>0. Unit(n) \in Int
      BY UnitIs, SMT
    <3>1. /\ Rest(n) \in Nat /\ Rest(n) < n /\ Unit(n) \in Int
          /\ n >= 100 => n \div Unit(n) \in Nat /\ n \div Unit(n) < n
      BY <2>6, <3>0, CallsAreSmaller, SMT
    <3>2. numberToWords[Rest(n)] \in Seq(Int)
      BY <2>3, <3>1
    <3>3. n >= 100 => numberToWords[n \div Unit(n)] \in Seq(Int)
      BY <2>3, <3>1, Zenon
    <3>4. <<n - Rest(n)>> \in Seq(Int) /\ <<Unit(n)>> \in Seq(Int) /\ <<>> \in Seq(Int)
      BY <3>1
    <3> DEFINE first == IF n < 100 THEN <<n - Rest(n)>>
                        ELSE numberToWords[n \div Unit(n)] \o <<Unit(n)>>
               rest == IF Rest(n) = 0 THEN <<>> ELSE numberToWords[Rest(n)]
    <3>5. first \in Seq(Int) /\ rest \in Seq(Int)
      BY <3>2, <3>3, <3>4, SMT
    <3>6. numberToWords[n] = first \o rest
      BY <2>6, LongWords, Zenon
    <3> HIDE DEF first, rest
    <3>7. first \o rest \in Seq(Int)
      BY <3>5
    <3>8. QED
      BY <2>4, <3>6, <3>7, Zenon
  <2>7. QED
    BY <2>5, <2>6
<1>2. \A n \in Nat : numberToWords[n] \in Seq(Int)
  BY <1>1
<1>3. ASSUME NEW n \in Int, n < 0 PROVE numberToWords[n] \in Seq(Int)
  <2>1. numberToWords[n] = <<Minus>> \o numberToWords[-n]
    BY <1>3, MinusWords
  <2>2. numberToWords[-n] \in Seq(Int) /\ <<Minus>> \in Seq(Int)
    BY <1>2, <1>3 DEF Minus
  <2>3. QED
    BY <2>1, <2>2
<1>4. QED
  BY <1>2, <1>3

-----------------------------------------------------------------------------
(* What the words of a number are heard as                                 *)

\* What a listener knows: whole and part are what was said so far.
Heard(s, w, p) == [sign |-> s, whole |-> w, part |-> p]

\* The words of n from 20 on, with those of its rest, if any, heard at the end.
LEMMA HeardTail ==
  ASSUME NEW sofar, NEW n \in Nat, n >= 20
  PROVE  HearFrom(sofar, numberToWords[n]) =
           LET head == IF n < 100 THEN HearWord(sofar, n - Rest(n))
                       ELSE HearWord(HearFrom(sofar, numberToWords[n \div Unit(n)]), Unit(n))
           IN IF Rest(n) = 0 THEN head ELSE HearFrom(head, numberToWords[Rest(n)])
<1>1. /\ Rest(n) \in Nat /\ Unit(n) \in Int /\ n - Rest(n) \in Int
      /\ n >= 100 => n \div Unit(n) \in Nat
  BY CallsAreSmaller, UnitIs, SMT
<1> DEFINE q == n \div Unit(n)
           r == Rest(n)
           u == Unit(n)
           t == n - Rest(n)
<1>2. /\ r \in Nat /\ u \in Int /\ t \in Int /\ (n >= 100 => q \in Nat)
      /\ numberToWords[n] = (IF n < 100 THEN <<t>> ELSE numberToWords[q] \o <<u>>)
                              \o (IF r = 0 THEN <<>> ELSE numberToWords[r])
  BY <1>1, LongWords, Zenon
<1> HIDE DEF q, r, u, t
<1> DEFINE first == IF n < 100 THEN <<t>> ELSE numberToWords[q] \o <<u>>
           head == IF n < 100 THEN HearWord(sofar, t)
                   ELSE HearWord(HearFrom(sofar, numberToWords[q]), u)
           rest == IF r = 0 THEN <<>> ELSE numberToWords[r]
<1>3. <<t>> \in Seq(Int) /\ <<u>> \in Seq(Int) /\ <<>> \in Seq(Int) /\ n \in Int /\ r \in Int
  BY <1>2
<1>4. first \in Seq(Int) /\ HearFrom(sofar, first) = head
  <2>1. CASE n < 100
    <3>1. HearFrom(sofar, <<t>>) = HearWord(sofar, t)
      BY <1>2, HearOne, Zenon
    <3>2. QED
      BY <1>3, <2>1, <3>1, Zenon
  <2>2. CASE ~(n < 100)
    <3>0. q \in Int
      BY <1>2, <2>2, SMT
    <3>1. numberToWords[q] \in Seq(Int)
      BY <3>0, WordsType, Zenon
    <3>2. HearFrom(sofar, numberToWords[q] \o <<u>>) =
            HearFrom(HearFrom(sofar, numberToWords[q]), <<u>>)
      BY <1>3, <3>1, HearBoth, Zenon
    <3>3. HearFrom(HearFrom(sofar, numberToWords[q]), <<u>>) =
            HearWord(HearFrom(sofar, numberToWords[q]), u)
      BY <1>2, HearOne, Zenon
    <3>4. numberToWords[q] \o <<u>> \in Seq(Int)
      BY <1>3, <3>1, SMT
    <3>5. QED
      BY <2>2, <3>2, <3>3, <3>4, Zenon
  <2>3. QED
    BY <2>1, <2>2, Zenon
<1>5. rest \in Seq(Int)
  BY <1>3, WordsType, Zenon
<1>6. HearFrom(head, rest) = IF r = 0 THEN head ELSE HearFrom(head, numberToWords[r])
  <2>1. 0 \in Int
    OBVIOUS
  <2>2. HearFrom(head, <<>>) = head
    BY <2>1, HearOne, Zenon
  <2>3. QED
    BY <2>2, Zenon
<1>7. HearFrom(sofar, numberToWords[n]) = HearFrom(head, rest)
  <2>1. HearFrom(sofar, first \o rest) = HearFrom(HearFrom(sofar, first), rest)
    BY <1>4, <1>5, HearBoth, Zenon
  <2>2. QED
    BY <1>2, <1>4, <2>1, Zenon
<1>8. QED
  BY <1>6, <1>7, Zenon DEF q, r, u, t

LEMMA SmallWordHeard ==
  ASSUME NEW s, NEW w \in Nat, NEW p \in Nat, NEW n \in Nat, n < 100
  PROVE  HearWord(Heard(s, w, p), n) = Heard(s, w, p + n)
<1>1. n # Minus /\ n # 100 /\ n # 1000 /\ n >= 0
  BY SMT DEF Minus
<1>2. HearWord(Heard(s, w, p), n) = [Heard(s, w, p) EXCEPT !.part = @ + n]
  BY <1>1, SMT DEF HearWord
<1>3. QED
  BY <1>2, SMT DEF Heard

LEMMA MultipliersHeard ==
  ASSUME NEW s, NEW w \in Nat, NEW p \in Nat
  PROVE  /\ HearWord(Heard(s, w, p), 100) = Heard(s, w, p * 100)
         /\ HearWord(Heard(s, w, p), 1000) = Heard(s, w + p * 1000, 0)
         /\ HearWord(Heard(s, w, p), 100000) = Heard(s, (w + p) * 100000, 0)
<1>1. HearWord(Heard(s, w, p), 100) = Heard(s, w, p * 100)
  BY SMT DEF HearWord, Heard, Minus
<1>2. HearWord(Heard(s, w, p), 1000) = Heard(s, w + p * 1000, 0)
  BY SMT DEF HearWord, Heard, Minus
<1>3. HearWord(Heard(s, w, p), 100000) = Heard(s, (w + p) * 100000, 0)
  BY SMT DEF HearWord, Heard, Minus
<1>4. QED
  BY <1>1, <1>2, <1>3, SMT

\* Up to 99 what is said is added.
LEMMA HeardTo99 ==
  ASSUME NEW s, NEW w \in Nat, NEW p \in Nat, NEW n \in Nat, n < 100
  PROVE  HearFrom(Heard(s, w, p), numberToWords[n]) = Heard(s, w, p + n)
<1>1. ASSUME NEW q \in Nat, NEW k \in Nat, k < 20
      PROVE  HearFrom(Heard(s, w, q), numberToWords[k]) = Heard(s, w, q + k)
  <2>1. numberToWords[k] = <<k>> /\ k \in Int /\ k < 100
    BY <1>1, ShortWords, SMT
  <2>2. HearFrom(Heard(s, w, q), <<k>>) = HearWord(Heard(s, w, q), k)
    BY <2>1, HearOne, Zenon
  <2>3. HearWord(Heard(s, w, q), k) = Heard(s, w, q + k)
    BY <2>1, SmallWordHeard, SMT
  <2>4. QED
    BY <2>1, <2>2, <2>3, Zenon
<1>2. CASE n < 20
  BY <1>1, <1>2
<1>3. CASE n >= 20
  <2> DEFINE r == Rest(n)
             q == p + (n - r)
  <2>1. r \in Nat /\ r < 10 /\ n - r \in Nat /\ n - r < 100
    BY UnitIs, Tens
  <2> HIDE DEF r
  <2>2. q \in Nat /\ q + r = p + n
    BY <2>1
  <2>3. HearWord(Heard(s, w, p), n - r) = Heard(s, w, q)
    BY <2>1, SmallWordHeard, SMT
  <2> HIDE DEF q
  <2>4. HearFrom(Heard(s, w, q), numberToWords[r]) = Heard(s, w, p + n)
    BY <1>1, <2>1, <2>2
  <2>5. HearFrom(Heard(s, w, p), numberToWords[n]) =
          IF r = 0 THEN Heard(s, w, q) ELSE HearFrom(Heard(s, w, q), numberToWords[r])
    BY <1>3, <2>3, HeardTail DEF r
  <2>6. r = 0 => Heard(s, w, q) = Heard(s, w, p + n)
    BY <2>2
  <2>7. QED
    BY <2>4, <2>5, <2>6
<1>4. QED
  BY <1>2, <1>3

\* Up to 999 too, when nothing waits for its multiplier.
LEMMA HeardTo999 ==
  ASSUME NEW s, NEW w \in Nat, NEW n \in Nat, n < 1000
  PROVE  HearFrom(Heard(s, w, 0), numberToWords[n]) = Heard(s, w, n)
<1>1. CASE n < 100
  BY <1>1, HeardTo99
<1>2. CASE n >= 100
  <2> DEFINE q == n \div 100
             r == n % 100
             v == q * 100
  <2>1. Unit(n) = 100 /\ Rest(n) = r /\ n \div Unit(n) = q
    BY <1>2, UnitIs
  <2>2. q \in Nat /\ q < 100 /\ r \in Nat /\ r < 100 /\ q * 100 + r = n
    BY Hundreds
  <2> HIDE DEF q, r
  <2>3. HearFrom(Heard(s, w, 0), numberToWords[q]) = Heard(s, w, q)
    BY <2>2, HeardTo99
  <2>4. HearWord(Heard(s, w, q), 100) = Heard(s, w, v) /\ v \in Nat /\ v + r = n
    BY <2>2, MultipliersHeard, SMT
  <2> HIDE DEF v
  <2>5. HearFrom(Heard(s, w, v), numberToWords[r]) = Heard(s, w, v + r)
    <3>1. v \in Nat /\ r \in Nat /\ r < 100
      BY <2>2, <2>4, Zenon
    <3>2. QED
      BY <3>1, HeardTo99, Zenon
  <2>6. HearFrom(Heard(s, w, 0), numberToWords[n]) =
          IF r = 0 THEN Heard(s, w, v) ELSE HearFrom(Heard(s, w, v), numberToWords[r])
    <3>1. n >= 20 /\ ~(n < 100)
      BY <1>2, SMT
    <3>2. HearWord(Heard(s, w, q), 100) = Heard(s, w, v)
      BY <2>4, Zenon
    <3>3. QED
      BY <2>1, <2>3, <3>1, <3>2, HeardTail, SMT
  <2>7. r = 0 => v = n
    BY <2>2, <2>4
  <2>8. QED
    BY <2>4, <2>5, <2>6, <2>7
<1>3. QED
  BY <1>1, <1>2

\* And below a lakh, as thousands and the rest.
LEMMA HeardToLakh ==
  ASSUME NEW s, NEW w \in Nat, NEW n \in Nat, n < 100000
  PROVE  \E a, b \in Nat : /\ HearFrom(Heard(s, w, 0), numberToWords[n]) = Heard(s, a, b)
                           /\ a + b = w + n
<1>1. CASE n < 1000
  BY <1>1, HeardTo999
<1>2. CASE n >= 1000
  <2> DEFINE q == n \div 1000
             r == n % 1000
             v == w + q * 1000
  <2>1. Unit(n) = 1000 /\ Rest(n) = r /\ n \div Unit(n) = q
    BY <1>2, UnitIs
  <2>2. q \in Nat /\ q < 100 /\ r \in Nat /\ r < 1000 /\ q * 1000 + r = n
    BY Thousands
  <2> HIDE DEF q, r
  <2>3. HearFrom(Heard(s, w, 0), numberToWords[q]) = Heard(s, w, q)
    BY <2>2, HeardTo99
  <2>4. HearWord(Heard(s, w, q), 1000) = Heard(s, v, 0) /\ v \in Nat /\ v + r = w + n
    BY <2>2, MultipliersHeard, SMT
  <2> HIDE DEF v
  <2>5. HearFrom(Heard(s, v, 0), numberToWords[r]) = Heard(s, v, r)
    BY <2>2, <2>4, HeardTo999
  <2>6. HearFrom(Heard(s, w, 0), numberToWords[n]) =
          IF r = 0 THEN Heard(s, v, 0) ELSE HearFrom(Heard(s, v, 0), numberToWords[r])
    BY <1>2, <2>1, <2>3, <2>4, HeardTail
  <2>7. HearFrom(Heard(s, w, 0), numberToWords[n]) = Heard(s, v, r)
    BY <2>5, <2>6
  <2>8. QED
    BY <2>2, <2>4, <2>7
<1>3. QED
  BY <1>1, <1>2

\* From a lakh on the number of lakhs may have lakhs of its own.
LEMMA HeardAll ==
  ASSUME NEW s, NEW n \in Nat
  PROVE  \E a, b \in Nat : /\ HearFrom(Heard(s, 0, 0), numberToWords[n]) = Heard(s, a, b)
                           /\ a + b = n
<1> DEFINE Right(k) == \E a, b \in Nat :
                          /\ HearFrom(Heard(s, 0, 0), numberToWords[k]) = Heard(s, a, b)
                          /\ a + b = k
           Bad == {k \in Nat : ~Right(k)}
<1>1. SUFFICES ASSUME Bad # {} PROVE FALSE
  OBVIOUS
<1>2. PICK m \in Bad : \A k \in Bad : m <= k
  BY <1>1, LeastNatural
<1>3. m \in Nat /\ ~Right(m) /\ \A k \in Nat : k < m => Right(k)
  BY <1>2
<1> HIDE DEF Bad
<1>4. CASE m < 100000
  <2>1. Right(m)
    BY <1>3, <1>4, HeardToLakh, SMT
  <2>2. QED
    BY <1>3, <2>1
<1>5. CASE m >= 100000
  <2> DEFINE q == m \div 100000
             r == m % 100000
             w == q * 100000
  <2>1. Unit(m) = 100000 /\ Rest(m) = r /\ m \div Unit(m) = q
    BY <1>3, <1>5, UnitIs, SMT
  <2>2. q \in Nat /\ q < m /\ r \in Nat /\ r < 100000 /\ q * 100000 + r = m
    BY <1>3, <1>5, Lakhs, SMT
  <2> HIDE DEF q, r
  <2>3. PICK a, b \in Nat : /\ HearFrom(Heard(s, 0, 0), numberToWords[q]) = Heard(s, a, b)
                            /\ a + b = q
    BY <1>3, <2>2
  <2>4. w \in Nat /\ w + r = m /\ (a + b) * 100000 = w
    BY <2>2, <2>3
  <2>5. HearWord(Heard(s, a, b), 100000) = Heard(s, w, 0)
    <3>1. HearWord(Heard(s, a, b), 100000) = Heard(s, (a + b) * 100000, 0)
      BY MultipliersHeard, SMT
    <3>2. QED
      BY <2>4, <3>1, SMT
  <2> HIDE DEF w
  <2>6. PICK c, d \in Nat : /\ HearFrom(Heard(s, w, 0), numberToWords[r]) = Heard(s, c, d)
                            /\ c + d = w + r
    BY <2>2, <2>4, HeardToLakh
  <2>7. HearFrom(Heard(s, 0, 0), numberToWords[m]) =
          IF r = 0 THEN Heard(s, w, 0) ELSE HearFrom(Heard(s, w, 0), numberToWords[r])
    <3>1. m \in Nat /\ m >= 20 /\ ~(m < 100)
      BY <1>3, <1>5, SMT
    <3>2. QED
      BY <2>1, <2>3, <2>5, <3>1, HeardTail, SMT
  <2>8. Right(m)
    <3>1. CASE r = 0
      <4>1. HearFrom(Heard(s, 0, 0), numberToWords[m]) = Heard(s, w, 0) /\ w + 0 = m
        BY <2>4, <2>7, <3>1, SMT
      <4>2. QED
        BY <2>4, <4>1
    <3>2. CASE r # 0
      <4>1. HearFrom(Heard(s, 0, 0), numberToWords[m]) = Heard(s, c, d) /\ c + d = m
        BY <2>4, <2>6, <2>7, <3>2, SMT
      <4>2. QED
        BY <4>1
    <3>3. QED
      BY <3>1, <3>2
  <2>9. QED
    BY <1>3, <2>8
<1>6. QED
  BY <1>3, <1>4, <1>5

\* What is said of any whole number is heard as that number.
THEOREM NumbersAreHeard ==
  /\ \A n \in Int : HearNumber(numberToWords[n]) = n
  /\ HearNumber(<<>>) = 0
<1> DEFINE start == Heard(1, 0, 0)
<1>1. ASSUME NEW n \in Nat PROVE HearNumber(numberToWords[n]) = n
  <2>1. PICK a, b \in Nat : /\ HearFrom(Heard(1, 0, 0), numberToWords[n]) = Heard(1, a, b)
                            /\ a + b = n
    BY HeardAll
  <2>2. QED
    BY <2>1 DEF HearNumber, Heard
<1>2. ASSUME NEW n \in Int, n < 0 PROVE HearNumber(numberToWords[n]) = n
  <2> DEFINE m == -n
  <2>1. m \in Nat /\ m \in Int /\ n = -m /\ numberToWords[n] = <<Minus>> \o numberToWords[m]
    BY <1>2, MinusWords
  <2> HIDE DEF m
  <2>2. <<Minus>> \in Seq(Int) /\ Minus \in Int /\ numberToWords[m] \in Seq(Int)
    BY <2>1, WordsType DEF Minus
  <2>3. HearFrom(start, numberToWords[n]) = HearFrom(Heard(-1, 0, 0), numberToWords[m])
    <3>1. HearFrom(start, <<Minus>> \o numberToWords[m]) =
            HearFrom(HearFrom(start, <<Minus>>), numberToWords[m])
      BY <2>2, HearBoth, Zenon
    <3>2. HearFrom(start, <<Minus>>) = HearWord(start, Minus)
      BY <2>2, HearOne, Zenon
    <3>3. HearWord(start, Minus) = Heard(-1, 0, 0)
      BY SMT DEF HearWord, Heard, Minus
    <3>4. QED
      BY <2>1, <3>1, <3>2, <3>3, Zenon
  <2>4. PICK a, b \in Nat : /\ HearFrom(Heard(-1, 0, 0), numberToWords[m]) = Heard(-1, a, b)
                            /\ a + b = m
    BY <2>1, HeardAll
  <2>5. QED
    BY <2>1, <2>3, <2>4 DEF HearNumber, Heard
<1>3. HearNumber(<<>>) = 0
  <2>0. 0 \in Int
    OBVIOUS
  <2>1. HearFrom(start, <<>>) = start
    BY <2>0, HearOne, Zenon
  <2>2. QED
    BY <2>1, SMT DEF HearNumber, Heard
<1>4. QED
  BY <1>1, <1>2, <1>3

-----------------------------------------------------------------------------
(* Durations and times                                                     *)

LEMMA DurationHeard ==
  ASSUME NEW t \in Nat
  PROVE  HearDuration(durationToWords(t)) = t
<1> DEFINE h == t \div 60
           r == t % 60
<1>1. h \in Nat /\ r \in Nat /\ 60 * h + r = t /\ (t < 60 => h = 0)
  OBVIOUS
<1> DEFINE hours == IF t < 60 THEN <<>> ELSE numberToWords[h]
           half == hours # <<>> /\ r = 30
           minutes == IF half \/ (r = 0 /\ hours # <<>>) THEN <<>> ELSE numberToWords[r]
<1>2. durationToWords(t) = [hours |-> hours, half |-> half, minutes |-> minutes]
  BY Zenon DEF durationToWords
<1> HIDE DEF h, r
<1>3. h \in Int /\ r \in Int
  BY <1>1
<1>4. HearNumber(numberToWords[h]) = h /\ HearNumber(numberToWords[r]) = r /\ HearNumber(<<>>) = 0
  BY <1>3, NumbersAreHeard, Zenon
<1>5. HearNumber(hours) = h
  BY <1>1, <1>4
<1>6. HearNumber(minutes) = IF half \/ (r = 0 /\ hours # <<>>) THEN 0 ELSE r
  BY <1>4, Zenon
<1>7. half => r = 30
  OBVIOUS
<1> HIDE DEF hours, minutes, half
<1>8. HearDuration(durationToWords(t)) = 60 * h + HearNumber(minutes) + (IF half THEN 30 ELSE 0)
  BY <1>2, <1>5 DEF HearDuration
<1>9. QED
  BY <1>1, <1>6, <1>7, <1>8

LEMMA DayTimes == Noon = 720 /\ Evening = 1020 /\ Midnight = 1440
  BY DEF Noon, Evening, Midnight

LEMMA TwelveHours ==
  ASSUME NEW h \in Nat, h < 24
  PROVE  Twelve(h) = IF h = 0 THEN 12 ELSE IF h <= 12 THEN h ELSE h - 12
<1>1. h % 12 = IF h < 12 THEN h ELSE h - 12
  OBVIOUS
<1>2. QED
  BY <1>1 DEF Twelve

\* The periods tell the two halves of the day apart.
LEMMA PeriodTells ==
  ASSUME NEW t \in Nat, NEW h \in Nat, NEW m \in Nat, m < 60, h < 24, t = 60 * h + m,
         NEW x \in Nat
  PROVE  x \in Span[Period(h)] <=>
            IF h < 12 THEN x < 720 ELSE IF h < 17 THEN 720 <= x /\ x < 1020
            ELSE 1020 <= x /\ x < 1440
<1>1. CASE h < 12
  <2>1. Span[Period(h)] = 0..(Noon - 1)
    BY <1>1 DEF Span, Period
  <2>2. QED
    BY <1>1, <2>1, DayTimes
<1>2. CASE ~(h < 12) /\ h < 17
  <2>1. Span[Period(h)] = Noon..(Evening - 1)
    BY <1>2 DEF Span, Period
  <2>2. QED
    BY <1>2, <2>1, DayTimes
<1>3. CASE ~(h < 12) /\ ~(h < 17)
  <2>1. Span[Period(h)] = Evening..(Midnight - 1)
    BY <1>3 DEF Span, Period
  <2>2. QED
    BY <1>3, <2>1, DayTimes
<1>4. QED
  BY <1>1, <1>2, <1>3

\* Whatever half of the day t is in, it is shown as t on a clock.
LEMMA ClockTurns ==
  ASSUME NEW t \in Nat, t < 1440, NEW s \in Nat,
         s = t \/ (t < 720 /\ s = t + 720) \/ (t >= 720 /\ s = t - 720)
  PROVE  s % 720 = IF t < 720 THEN t ELSE t - 720
<1>1. \A x \in Nat : x < 720 => x % 720 = x
  OBVIOUS
<1>2. \A x \in Nat : x >= 720 /\ x < 1440 => x % 720 = x - 720
  OBVIOUS
<1>3. QED
  BY <1>1, <1>2

LEMMA TimeHeard ==
  ASSUME NEW t \in TimesOfDay
  PROVE  HearTime(timeToWords(t)) = {t}
<1>0. t \in Nat /\ t < 1440
  BY DayTimes DEF TimesOfDay
<1> DEFINE h == t \div 60
           m == t % 60
<1>1. h \in Nat /\ h < 24 /\ m \in Nat /\ m < 60 /\ t = 60 * h + m
  BY <1>0
<1> DEFINE named == IF m # 45 THEN Twelve(h) ELSE IF Twelve(h) = 12 THEN 1 ELSE Twelve(h) + 1
           core == IF m \in {0, 15, 30, 45} THEN m ELSE InMinutes
           phrase == timeToWords(t)
<1>2. phrase = [core |-> core, hour |-> numberToWords[named], minutes |-> numberToWords[m],
                period |-> Period(h)]
  BY Zenon DEF timeToWords
<1> HIDE DEF h, m
<1>3. Twelve(h) = IF h = 0 THEN 12 ELSE IF h <= 12 THEN h ELSE h - 12
  BY <1>1, TwelveHours
<1>4. named \in Int /\ m \in Int
  BY <1>1, <1>3
<1> DEFINE shown == CASE phrase.core = InMinutes -> 60 * HearNumber(phrase.hour)
                                                       + HearNumber(phrase.minutes)
                      [] phrase.core = 45 -> 60 * HearNumber(phrase.hour) - 15
                      [] OTHER -> 60 * HearNumber(phrase.hour) + phrase.core
<1>5. HearTime(phrase) = {x \in {shown % Noon, Noon + (shown % Noon)} : x \in Span[phrase.period]}
  BY Zenon DEF HearTime
<1>6. HearNumber(phrase.hour) = named /\ HearNumber(phrase.minutes) = m
      /\ phrase.core = core /\ phrase.period = Period(h)
  <2>1. HearNumber(numberToWords[named]) = named /\ HearNumber(numberToWords[m]) = m
    BY <1>4, NumbersAreHeard, Zenon
  <2> HIDE DEF named, core
  <2>2. QED
    BY <1>2, <2>1
<1>7. shown = IF m = 45 THEN 60 * named - 15 ELSE 60 * named + m
  <2> HIDE DEF named, phrase
  <2>1. CASE m \in {0, 15, 30}
    BY <1>6, <2>1 DEF InMinutes
  <2>2. CASE m = 45
    BY <1>6, <2>2 DEF InMinutes
  <2>3. CASE m \notin {0, 15, 30, 45}
    BY <1>6, <2>3 DEF InMinutes
  <2>4. QED
    BY <2>1, <2>2, <2>3
<1> HIDE DEF shown, core, phrase
<1>8. /\ shown \in Nat
      /\ shown = t \/ (t < 720 /\ shown = t + 720) \/ (t >= 720 /\ shown = t - 720)
  <2>1. CASE m # 45
    BY <1>1, <1>3, <1>7, <2>1
  <2>2. CASE m = 45
    BY <1>1, <1>3, <1>7, <2>2
  <2>3. QED
    BY <2>1, <2>2
<1> HIDE DEF named
<1> DEFINE s == shown % 720
<1>9. s = IF t < 720 THEN t ELSE t - 720
  BY <1>0, <1>8, ClockTurns
<1> HIDE DEF s
<1>10. s \in Nat /\ 720 + s \in Nat /\ t \in {s, 720 + s}
  BY <1>0, <1>9
<1>11. HearTime(phrase) = {x \in {s, 720 + s} : x \in Span[Period(h)]}
  BY <1>5, <1>6, DayTimes DEF s
<1>12. ASSUME NEW x \in {s, 720 + s}
       PROVE  x \in Span[Period(h)] <=> x = t
  BY <1>0, <1>1, <1>9, <1>10, PeriodTells
<1>13. QED
  BY <1>10, <1>11, <1>12 DEF phrase

-----------------------------------------------------------------------------
(* Phrases and starts                                                      *)

LEMMA DaysOfWeek ==
  ASSUME NEW today \in Nat, NEW n \in 1..14
  PROVE  /\ WeekdayOf(today) \in Weekdays
         /\ WeekdayOf(today + n) =
              IF WeekdayOf(today) + (n % 7) > 7 THEN WeekdayOf(today) + (n % 7) - 7
              ELSE WeekdayOf(today) + (n % 7)
<1> DEFINE k == today \div 7
           r == today % 7
<1>1. k \in Nat /\ r \in 0..6 /\ today = 7 * k + r
  OBVIOUS
<1> HIDE DEF k
<1>2. (today + n) % 7 = (r + n) % 7
  BY <1>1
<1>3. QED
  BY <1>1, <1>2 DEF WeekdayOf, Weekdays

LEMMA WeekdayResolved ==
  ASSUME NEW today \in Nat, NEW phrase, phrase.kind = "weekday", phrase.target \in Weekdays
  PROVE  LET answer == resolveDate(today, phrase) IN
         \/ /\ answer.code = "error"
            /\ Cardinality(SuchDays(phrase.target, today, LastDay)) < Meant(phrase, today)
         \/ /\ answer.code = "confident" /\ answer.day <= LastDay
            /\ WeekdayOf(answer.day) = phrase.target
            /\ Cardinality(SuchDays(phrase.target, today, answer.day)) = Meant(phrase, today)
<1> DEFINE w == WeekdayOf(today)
           target == phrase.target
           n == DaysAhead(today, phrase)
           far == phrase.modifier = "next" /\ w # target
           near == IF target > w THEN target - w ELSE target - w + 7
<1>1. w \in 1..7 /\ target \in 1..7
  BY DaysOfWeek DEF Weekdays
<1>2. near \in 1..7
  BY <1>1
<1>3. n = IF far THEN near + 7 ELSE near
  BY <1>1 DEF DaysAhead
<1> DEFINE answer == resolveDate(today, phrase)
<1>4. answer = ok(today + n)
  BY DEF resolveDate
<1> HIDE DEF w, target, n, answer
<1>5. near \in 1..7 /\ n \in 1..14 /\ today + n \in Nat
  BY <1>1, <1>3
<1>6. \A k \in 1..14 : k <= n /\ WeekdayOf(today + k) = target <=>
          k = near \/ (far /\ k = near + 7)
  <2>1. ASSUME NEW k \in 1..14
        PROVE  WeekdayOf(today + k) = target <=> k = near \/ k = near + 7
    <3>1. WeekdayOf(today + k) = IF w + (k % 7) > 7 THEN w + (k % 7) - 7 ELSE w + (k % 7)
      BY DaysOfWeek, Zenon DEF w
    <3>2. k % 7 = IF k < 7 THEN k ELSE IF k < 14 THEN k - 7 ELSE 0
      OBVIOUS
    <3>3. QED
      BY <1>1, <3>1, <3>2
  <2>2. QED
    BY <1>3, <1>5, <2>1
<1>7. WeekdayOf(today + n) = target
  BY <1>3, <1>5, <1>6
<1> DEFINE such == SuchDays(target, today, today + n)
<1>8. such = IF far THEN {today + near, today + near + 7} ELSE {today + near}
  <2>1. \A d : d \in such <=> \E k \in 1..14 : d = today + k /\ k <= n /\ WeekdayOf(d) = target
    BY <1>5 DEF SuchDays
  <2> HIDE DEF such
  <2>2. \A d : d \in such <=> d = today + near \/ (far /\ d = today + near + 7)
    BY <1>5, <1>6, <2>1
  <2>3. QED
    BY <2>2
<1>9. Cardinality(such) = IF far THEN 2 ELSE 1
  <2> HIDE DEF such, far, near
  <2>1. IsFiniteSet({today + near}) /\ Cardinality({today + near}) = 1
    BY FS_Singleton
  <2>2. today + near + 7 \notin {today + near}
    BY <1>5
  <2>3. {today + near, today + near + 7} = {today + near} \cup {today + near + 7}
    OBVIOUS
  <2>4. Cardinality({today + near} \cup {today + near + 7}) = 2
    BY <2>1, <2>2, FS_AddElement
  <2>5. QED
    BY <1>8, <2>1, <2>3, <2>4
<1>10. CASE today + n <= LastDay
  BY <1>4, <1>7, <1>9, <1>10 DEF ok, answer, target, w, Meant
<1>11. CASE ~(today + n <= LastDay)
  <2> DEFINE left == SuchDays(target, today, LastDay)
  <2>1. LastDay \in Nat /\ LastDay < today + n
    BY <1>5, <1>11, CallerTextAssumption
  <2>2. today + n \in such
    <3> HIDE DEF such, near, far
    <3>1. n = IF far THEN near + 7 ELSE near
      BY <1>3
    <3>2. CASE far
      BY <1>8, <3>1, <3>2, <1>5
    <3>3. CASE ~far
      BY <1>8, <3>1, <3>3
    <3>4. QED
      BY <3>2, <3>3
  <2>3. left \subseteq such \ {today + n}
    BY <1>5, <2>1 DEF SuchDays
  <2>4. IsFiniteSet(such)
    <3> HIDE DEF such, near, far
    <3>1. such \subseteq (today + near)..(today + near + 7)
      BY <1>5, <1>8
    <3>2. today + near \in Int /\ today + near + 7 \in Int
      BY <1>5
    <3>3. IsFiniteSet((today + near)..(today + near + 7))
      BY <3>2, FS_Interval, Zenon
    <3>4. QED
      BY <3>1, <3>3, FS_Subset, Zenon
  <2> HIDE DEF such, left
  <2>5. Cardinality(such \ {today + n}) = Cardinality(such) - 1 /\ IsFiniteSet(such \ {today + n})
    BY <2>2, <2>4, FS_RemoveElement
  <2>6. IsFiniteSet(left) /\ Cardinality(left) <= Cardinality(such \ {today + n})
    BY <2>3, <2>5, FS_Subset
  <2>7. Cardinality(left) \in Int /\ Cardinality(left) < IF far THEN 2 ELSE 1
    BY <1>9, <2>5, <2>6, FS_CardinalityType
  <2>8. QED
    BY <1>4, <1>11, <2>7 DEF ok, answer, target, w, Meant, left
<1>12. QED
  BY <1>10, <1>11

\* Twelve o'clock, either side of noon, and every other hour of a clock.
LEMMA HoursRead ==
  ASSUME NEW c \in ClockItem, ShownByClock(c)
  PROVE  LET h == HourOf(c.h, c.half) IN
         /\ h \in 0..23
         /\ 60 * h + (IF c.m = Undefined THEN 0 ELSE c.m) = MeansTime(c)
<1>1. c.h \in Nat /\ c.half \in {"am", "pm", "none"} /\ c.kind = "clock" /\ c.m \in Int
  BY DEF ClockItem, Undefined
<1>2. c.half = "none" => c.h \in 0..23
  BY DEF ShownByClock
<1>3. c.half # "none" => c.h \in 1..12
  BY DEF ShownByClock
<1>4. CASE c.half = "none"
  BY <1>1, <1>2, <1>4 DEF HourOf, MeansTime
<1>5. CASE c.half = "am"
  BY <1>1, <1>3, <1>5 DEF HourOf, MeansTime
<1>6. CASE c.half = "pm"
  BY <1>1, <1>3, <1>6 DEF HourOf, MeansTime
<1>7. QED
  BY <1>1, <1>4, <1>5, <1>6

LEMMA ClockCoerced ==
  ASSUME NEW text, Len(text) \in {1, 2}, text[1] \in ClockItem, ShownByClock(text[1])
  PROVE  60 * coerceTime(text).h + coerceTime(text).m = MeansTime(text[1])
<1> DEFINE c == text[1]
<1>1. c.kind = "clock" /\ (c.padded => c.half = "none" /\ c.m # Undefined)
  BY DEF ClockItem
<1>2. LET h == HourOf(c.h, c.half) IN
      h \in 0..23 /\ 60 * h + (IF c.m = Undefined THEN 0 ELSE c.m) = MeansTime(c)
  BY HoursRead, Zenon
<1>3. CASE BareTime(text)
  <2>1. coerceTime(text) = [h |-> c.h, m |-> c.m]
    BY <1>3 DEF coerceTime
  <2>2. c.half = "none" /\ c.m # Undefined
    BY <1>1, <1>3 DEF BareTime
  <2>3. HourOf(c.h, c.half) = c.h
    BY <2>2 DEF HourOf
  <2>4. QED
    BY <1>2, <2>1, <2>2, <2>3
<1>4. CASE ~BareTime(text)
  <2> DEFINE h == HourOf(c.h, c.half)
  <2>1. FirstNumber(c) = [h |-> c.h, m |-> c.m, half |-> c.half]
    BY <1>1 DEF FirstNumber
  <2>2. coerceTime(text) =
          IF h \in 0..23 THEN [h |-> h, m |-> IF c.m = Undefined THEN 0 ELSE c.m]
          ELSE [h |-> Undefined, m |-> Undefined]
    BY <1>1, <1>4, <2>1 DEF coerceTime
  <2> HIDE DEF h
  <2>3. coerceTime(text) = [h |-> h, m |-> IF c.m = Undefined THEN 0 ELSE c.m]
    BY <1>2, <2>2 DEF h
  <2>4. QED
    BY <1>2, <2>3 DEF h
<1>5. QED
  BY <1>3, <1>4

LEMMA DateCoerced ==
  ASSUME NEW text, Len(text) = 2, DOMAIN text = 1..2, text[1] \in ClockItem,
         text[2] \in DateItem, NEW today
  PROVE  coerceDate(text, today) = text[2].day
<1> DEFINE dates == Items(text, "ymd") \cup Items(text, "iso")
           names == Items(text, "named")
           first(S) == CHOOSE i \in S : \A j \in S : i <= j
<1>1. text[1].kind = "clock" /\ text[2].kind \in {"named", "ymd"}
  BY DEF ClockItem, DateItem
<1>2. coerceDate(text, today) =
        IF dates # {} THEN text[first(dates)].day
        ELSE IF names # {} THEN text[first(names)].day
        ELSE IF BareTime(text) /\ text[1].h <= 23 /\ text[1].m <= 59 THEN today
        ELSE Undefined
  BY Zenon DEF coerceDate
<1>3. first({2}) = 2
  OBVIOUS
<1>4. CASE text[2].kind = "ymd"
  <2>1. dates = {2}
    BY <1>1, <1>4 DEF Items
  <2>2. QED
    BY <1>2, <1>3, <2>1
<1>5. CASE text[2].kind = "named"
  <2>1. dates = {} /\ names = {2}
    BY <1>1, <1>5 DEF Items
  <2>2. QED
    BY <1>2, <1>3, <2>1
<1>6. QED
  BY <1>1, <1>4, <1>5

LEMMA DatetimeCoerced ==
  ASSUME NEW text, Len(text) = 1, DOMAIN text = 1..1, text[1] \in DatetimeItem,
         text[1].offset \in {SameZone, ServerOffset}, NEW today
  PROVE  /\ 60 * coerceTime(text).h + coerceTime(text).m = MeansTime(text[1])
         /\ coerceDate(text, today) = text[1].day
<1> DEFINE i == text[1]
<1>1. i.kind = "iso" /\ i.at \in TimesOfDay /\ ~BareTime(text)
  BY DEF DatetimeItem, BareTime
<1>2. i.at \in Nat /\ i.at < 1440
  BY <1>1, DayTimes DEF TimesOfDay
<1>3. (IF i.offset = SameZone THEN 0 ELSE ServerOffset - i.offset) = 0
  BY CallerTextAssumption
<1>4. coerceTime(text) = [h |-> i.at \div 60, m |-> i.at % 60]
  <2>1. (i.at + 0) % 1440 = i.at
    BY <1>2
  <2>2. QED
    BY <1>1, <1>3, <2>1 DEF coerceTime
<1>5. 60 * (i.at \div 60) + (i.at % 60) = i.at
  BY <1>2
<1>6. 60 * coerceTime(text).h + coerceTime(text).m = MeansTime(i)
  BY <1>1, <1>4, <1>5 DEF MeansTime
<1>7. Items(text, "ymd") \cup Items(text, "iso") = {1}
  BY <1>1 DEF Items
<1>8. coerceDate(text, today) = i.day
  BY <1>7 DEF coerceDate
<1>9. QED
  BY <1>6, <1>8

-----------------------------------------------------------------------------
(* Opening hours                                                           *)

LEMMA LatestDay ==
  ASSUME NEW S \in SUBSET Weekdays, S # {}
  PROVE  Max(S) \in S /\ \A d \in S : d <= Max(S)
<1>1. S \subseteq 1..7
  BY DEF Weekdays
<1>2. \E d \in S : \A e \in S : d >= e
  <2>1. {n \in Nat : 7 - n \in S} # {}
    <3>1. PICK d \in S : TRUE
      OBVIOUS
    <3>2. 7 - d \in Nat /\ 7 - (7 - d) = d
      BY <1>1, <3>1
    <3>3. QED
      BY <3>2
  <2>2. PICK n \in {k \in Nat : 7 - k \in S} : \A k \in {k \in Nat : 7 - k \in S} : n <= k
    BY <2>1, LeastNatural, Zenon
  <2>3. ASSUME NEW e \in S PROVE 7 - n >= e
    <3>1. 7 - e \in Nat /\ 7 - (7 - e) = e
      BY <1>1
    <3>2. n <= 7 - e
      BY <2>2, <3>1
    <3>3. QED
      BY <1>1, <2>2, <3>2
  <2>4. QED
    BY <2>2, <2>3
<1>3. Max(S) \in S /\ \A e \in S : Max(S) >= e
  BY <1>2 DEF Max
<1>4. QED
  BY <1>1, <1>3

LEMMA WeekOf ==
  ASSUME NEW hours \in Weeks, NEW d \in Weekdays
  PROVE  sortedHours(hours)[d] \in [open: TimesOfDay \cup {Closed}, close: TimesOfDay \cup {Closed}]
<1>1. PICK D \in SUBSET Weekdays :
        hours \in [D -> [open: TimesOfDay \cup {Closed}, close: TimesOfDay \cup {Closed}]]
  BY TextsAssumption, Zenon
<1>2. QED
  BY <1>1 DEF sortedHours

\* Along a part of the phrase the hours stay the same.
LEMMA PartKeepsHours ==
  ASSUME NEW week, NEW from \in Weekdays, NEW to \in Weekdays,
         Opens(week[from]), Opens(week[to]), from <= to,
         \A f \in PartsBegin(week) : f <= from \/ f > to
  PROVE  SameHours(week[from], week[to])
<1> DEFINE openDays == {d \in Weekdays : Opens(week[d])}
           Other == {n \in Nat : n \in openDays /\ from <= n /\ n <= to
                                   /\ ~SameHours(week[from], week[n])}
<1>1. Weekdays \subseteq Nat /\ from \in openDays /\ to \in openDays
  BY DEF Weekdays
<1>2. PartsBegin(week) = {d \in openDays :
            \A e \in openDays : (e < d /\ \A f \in openDays : f <= e \/ f >= d)
                                    => ~SameHours(week[e], week[d])}
  BY Zenon DEF PartsBegin
<1> HIDE DEF openDays
<1>3. openDays \subseteq Nat
  BY <1>1 DEF openDays
<1>4. SUFFICES ASSUME Other # {} PROVE FALSE
  BY <1>1
<1>5. PICK n \in Other : \A k \in Other : n <= k
  BY <1>4, LeastNatural, Zenon
<1>6. n # from
  BY <1>5 DEF SameHours
<1>7. n \notin PartsBegin(week)
  BY <1>1, <1>5, <1>6
<1>8. PICK e \in openDays : /\ e < n
                            /\ \A f \in openDays : f <= e \/ f >= n
                            /\ SameHours(week[e], week[n])
  BY <1>2, <1>5, <1>7
<1>9. from <= e
  BY <1>1, <1>3, <1>5, <1>6, <1>8
<1>10. SameHours(week[from], week[e])
  BY <1>1, <1>3, <1>5, <1>8, <1>9
<1>11. QED
  BY <1>5, <1>8, <1>10 DEF SameHours

\* Every open day lies behind the beginning of a part.
LEMMA PartOf ==
  ASSUME NEW week, NEW d \in Weekdays, Opens(week[d])
  PROVE  \E b \in PartsBegin(week) : b <= d /\ \A f \in PartsBegin(week) : f <= b \/ f > d
<1> DEFINE openDays == {e \in Weekdays : Opens(week[e])}
           Before == {b \in PartsBegin(week) : b <= d}
<1>1. PartsBegin(week) \subseteq openDays /\ openDays \subseteq Nat /\ d \in openDays
  BY DEF PartsBegin, Weekdays
<1>2. PICK first \in openDays : \A e \in openDays : first <= e
  <2>1. openDays \in SUBSET Nat /\ openDays # {}
    BY <1>1
  <2>2. QED
    BY <2>1, LeastNatural, Zenon
<1>3. first \in PartsBegin(week)
  <2>1. \A e \in openDays : ~(e < first)
    BY <1>1, <1>2
  <2>2. QED
    BY <1>2, <2>1 DEF PartsBegin
<1>4. Before \in SUBSET Weekdays /\ Before # {}
  BY <1>1, <1>2, <1>3
<1>5. Max(Before) \in Before /\ \A b \in Before : b <= Max(Before)
  BY <1>4, LatestDay, Zenon
<1>6. \A f \in PartsBegin(week) : f <= Max(Before) \/ f > d
  BY <1>1, <1>5
<1>7. QED
  BY <1>5, <1>6

LEMMA HoursHeard ==
  ASSUME NEW hours \in Weeks, NEW d \in Weekdays
  PROVE  HearHours(hoursSpoken(hours))[d] =
           IF Opens(sortedHours(hours)[d]) THEN {sortedHours(hours)[d]} ELSE {}
<1> DEFINE week == sortedHours(hours)
           openDays == {e \in Weekdays : Opens(week[e])}
           begins == PartsBegin(week)
           Until(b) == {e \in openDays : e >= b /\ \A f \in begins : f <= b \/ f > e}
           part(b) == [first |-> b, last |-> Max(Until(b)),
                       from |-> timeToWords(week[b].open), to |-> timeToWords(week[b].close)]
           phrase == hoursSpoken(hours)
<1>1. phrase = [parts |-> {part(b) : b \in begins}, closed |-> Weekdays \ openDays]
  BY Zenon DEF hoursSpoken
<1> DEFINE heard(p) == {[open |-> o, close |-> c] : o \in HearTime(p.from), c \in HearTime(p.to)}
           over == {p \in phrase.parts : p.first <= d /\ d <= p.last}
<1>2. HearHours(phrase)[d] = IF d \in phrase.closed THEN {} ELSE UNION {heard(p) : p \in over}
  <2>1. HearHours(phrase) = [e \in Weekdays |->
           IF e \in phrase.closed THEN {}
           ELSE UNION {heard(p) : p \in {q \in phrase.parts : q.first <= e /\ e <= q.last}}]
    BY DEF HearHours
  <2> HIDE DEF heard, phrase
  <2>2. QED
    BY <2>1
<1>3. begins \subseteq openDays /\ openDays \subseteq Weekdays /\ Weekdays = 1..7
  BY DEF PartsBegin, Weekdays
<1>4. \A e \in Weekdays :
        week[e] \in [open: TimesOfDay \cup {Closed}, close: TimesOfDay \cup {Closed}]
  BY WeekOf, Zenon
<1> HIDE DEF week, phrase
<1>5. CASE ~Opens(week[d])
  <2>1. phrase.closed = Weekdays \ openDays
    BY <1>1
  <2>2. d \in phrase.closed
    BY <1>5, <2>1
  <2> HIDE DEF heard, over
  <2>3. HearHours(phrase)[d] = {}
    BY <1>2, <2>2
  <2>4. QED
    BY <1>5, <2>3 DEF week, phrase
<1>6. CASE Opens(week[d])
  <2>1. PICK b \in begins : b <= d /\ \A f \in begins : f <= b \/ f > d
    BY <1>6, PartOf, Zenon
  <2>2. \A a \in begins : a \in Until(a) /\ Until(a) \in SUBSET Weekdays
    BY <1>3
  <2>3. \A a \in begins : Max(Until(a)) \in Until(a) /\ \A e \in Until(a) : e <= Max(Until(a))
    <3>1. \A a \in begins : Until(a) # {} /\ Until(a) \in SUBSET Weekdays
      BY <2>2
    <3>2. QED
      BY <3>1, LatestDay, Zenon
  <2>4. d \in Until(b)
    BY <1>3, <1>6, <2>1
  <2> HIDE DEF Until
  <2>5. \A a \in begins : a <= d /\ d <= Max(Until(a)) <=> a = b
    <3>1. b <= d /\ d <= Max(Until(b))
      BY <2>1, <2>3, <2>4
    <3>2. ASSUME NEW a \in begins, a <= d, d <= Max(Until(a)) PROVE a = b
      <4>1. b <= a \/ b > Max(Until(a))
        BY <2>3 DEF Until
      <4>2. Max(Until(a)) \in 1..7 /\ a \in 1..7 /\ b \in 1..7 /\ d \in 1..7
        BY <1>3, <2>1, <2>3 DEF Until
      <4>3. a <= b
        BY <2>1, <3>2, <4>2
      <4>4. QED
        BY <2>1, <3>2, <4>1, <4>2, <4>3
    <3>3. QED
      BY <3>1, <3>2
  <2>6. over = {part(b)}
    <3>1. phrase.parts = {part(a) : a \in begins}
      BY <1>1
    <3>2. \A a \in begins : part(a).first = a /\ part(a).last = Max(Until(a))
      OBVIOUS
    <3> HIDE DEF part
    <3>3. QED
      BY <2>1, <2>5, <3>1, <3>2
  <2>7. d \notin phrase.closed
    BY <1>1, <1>6
  <2>8. HearHours(phrase)[d] = heard(part(b))
    <3> HIDE DEF heard, over
    <3>1. UNION {heard(p) : p \in over} = heard(part(b))
      BY <2>6
    <3>2. QED
      BY <1>2, <2>7, <3>1
  <2>9. SameHours(week[b], week[d])
    <3>1. b \in Weekdays /\ Opens(week[b])
      BY <1>3, <2>1
    <3>2. QED
      BY <1>6, <2>1, <3>1, PartKeepsHours, Zenon
  <2>10. week[d].open \in TimesOfDay /\ week[d].close \in TimesOfDay
         /\ week[d] = [open |-> week[d].open, close |-> week[d].close]
    BY <1>4, <1>6 DEF Opens
  <2>11. HearTime(part(b).from) = {week[d].open} /\ HearTime(part(b).to) = {week[d].close}
    <3>1. part(b).from = timeToWords(week[d].open) /\ part(b).to = timeToWords(week[d].close)
      BY <2>9 DEF SameHours
    <3>2. QED
      BY <2>10, <3>1, TimeHeard, Zenon
  <2>12. heard(part(b)) = {week[d]}
    <3> HIDE DEF part
    <3>1. heard(part(b)) = {[open |-> week[d].open, close |-> week[d].close]}
      BY <2>11
    <3>2. QED
      BY <2>10, <3>1
  <2>13. QED
    BY <1>6, <2>8, <2>12 DEF week, phrase
<1>7. QED
  BY <1>5, <1>6

-----------------------------------------------------------------------------
(* The requests                                                            *)

\* What came in is of its kind, and what went out is the conversion of it.
Converted ==
    /\ said.what = "number" =>
         said.value \in Int /\ told \in {<<>>, <<numberToWords[said.value]>>}
    /\ said.what = "duration" =>
         said.value \in Nat /\ told \in {<<>>, <<durationToWords(said.value)>>}
    /\ said.what = "time" =>
         said.value \in TimesOfDay /\ told \in {<<>>, <<timeToWords(said.value)>>}
    /\ said.what = "hours" =>
         said.value \in Weeks /\ told \in {<<>>, <<hoursSpoken(said.value)>>}
    /\ said.what = "phrase" =>
         /\ said.value \in Phrases /\ said.today \in Nat
         /\ told \in {<<>>, <<resolveDate(said.today, said.value)>>}
    /\ said.what = "start" =>
         /\ said.value \in Starts
         /\ told \in {<<>>, <<[date |-> coerceDate(said.value, said.today),
                               time |-> coerceTime(said.value)]>>}

LEMMA ConvertedInit == TextsInit => Converted
<1> SUFFICES ASSUME TextsInit PROVE Converted
  OBVIOUS
<1>1. told = <<>>
  BY DEF TextsInit
<1>2. /\ Numbers \subseteq Int /\ Lengths \subseteq Nat /\ Times \subseteq TimesOfDay
      /\ Todays \subseteq Nat
  BY TextsAssumption, Zenon
<1>3. \/ said \in [what: {"number"}, value: Numbers]
      \/ said \in [what: {"duration"}, value: Lengths]
      \/ said \in [what: {"time"}, value: Times]
      \/ said \in [what: {"hours"}, value: Weeks]
      \/ said \in [what: {"phrase"}, value: Phrases, today: Todays]
      \/ said \in [what: {"start"}, value: Starts, today: Todays]
  BY Zenon DEF TextsInit
<1>4. QED
  BY <1>1, <1>2, <1>3 DEF Converted

LEMMA ConvertedStep == Converted /\ [TextsNext]_<<said, told>> => Converted'
<1> SUFFICES ASSUME Converted, [TextsNext]_<<said, told>> PROVE Converted'
  OBVIOUS
<1>1. said' = said
  BY DEF TextsNext, SpeakNumber, SpeakDuration, SpeakTime, SpeakHours, ResolvePhrase,
         CoerceStart, Answering
<1>2. CASE SpeakNumber
  BY <1>1, <1>2 DEF Converted, SpeakNumber, Answering
<1>3. CASE SpeakDuration
  BY <1>1, <1>3 DEF Converted, SpeakDuration, Answering
<1>4. CASE SpeakTime
  BY <1>1, <1>4 DEF Converted, SpeakTime, Answering
<1>5. CASE SpeakHours
  BY <1>1, <1>5 DEF Converted, SpeakHours, Answering
<1>6. CASE ResolvePhrase
  BY <1>1, <1>6 DEF Converted, ResolvePhrase, Answering
<1>7. CASE CoerceStart
  BY <1>1, <1>7 DEF Converted, CoerceStart, Answering
<1>8. CASE UNCHANGED <<said, told>>
  BY <1>1, <1>8 DEF Converted
<1>9. QED
  BY <1>2, <1>3, <1>4, <1>5, <1>6, <1>7, <1>8 DEF TextsNext

LEMMA ConvertedHolds == TextsSpec => []Converted
  BY ConvertedInit, ConvertedStep, PTL DEF TextsSpec

\* numberToWords and durationToWords: who hears a price, a count or a duration
\* hears that number.
THEOREM AmountsUnderstood == TextsSpec => []AmountsHeardRight
<1>1. Converted => AmountsHeardRight
  <2> SUFFICES ASSUME Converted PROVE AmountsHeardRight
    OBVIOUS
  <2>1. ASSUME Told("number") PROVE HearNumber(Answer) = said.value
    <3>1. said.value \in Int /\ Answer = numberToWords[said.value]
      BY <2>1 DEF Converted, Told, Answer
    <3>2. QED
      BY <3>1, NumbersAreHeard, Zenon
  <2>2. ASSUME Told("duration") PROVE HearDuration(Answer) = said.value
    <3>1. said.value \in Nat /\ Answer = durationToWords(said.value)
      BY <2>2 DEF Converted, Told, Answer
    <3>2. QED
      BY <3>1, DurationHeard, Zenon
  <2>3. QED
    BY <2>1, <2>2 DEF AmountsHeardRight
<1>2. QED
  BY <1>1, ConvertedHolds, PTL

\* timeToWords: who hears a time hears one time of the day, and the right one.
THEOREM TimesUnderstood == TextsSpec => []TimesHeardRight
<1>1. Converted => TimesHeardRight
  <2> SUFFICES ASSUME Converted, Told("time") PROVE HearTime(Answer) = {said.value}
    BY DEF TimesHeardRight
  <2>1. said.value \in TimesOfDay /\ Answer = timeToWords(said.value)
    BY DEF Converted, Told, Answer
  <2>2. QED
    BY <2>1, TimeHeard, Zenon
<1>2. QED
  BY <1>1, ConvertedHolds, PTL

\* hoursSpoken: who hears the opening hours knows every day's.
THEOREM HoursUnderstood == TextsSpec => []HoursHeardRight
<1>1. Converted => HoursHeardRight
  <2> SUFFICES ASSUME Converted, Told("hours"), NEW d \in Weekdays
               PROVE  HearHours(Answer)[d] =
                        IF Opens(sortedHours(said.value)[d])
                        THEN {sortedHours(said.value)[d]} ELSE {}
    BY Zenon DEF HoursHeardRight
  <2>1. said.value \in Weeks /\ Answer = hoursSpoken(said.value)
    BY DEF Converted, Told, Answer
  <2>2. QED
    BY <2>1, HoursHeard, Zenon
<1>2. QED
  BY <1>1, ConvertedHolds, PTL

\* resolveDate: a weekday resolves to that weekday, the first or the second one
\* ahead, or to an error past the calendar's end.
THEOREM WeekdaysUnderstood == TextsSpec => []WeekdaysResolvedRight
<1>1. Converted => WeekdaysResolvedRight
  <2> SUFFICES ASSUME Converted, Told("phrase"), said.value.kind = "weekday"
               PROVE  WeekdaysResolvedRight
    BY Zenon DEF WeekdaysResolvedRight
  <2>1. /\ said.value \in Phrases /\ said.today \in Nat
        /\ Answer = resolveDate(said.today, said.value)
    BY DEF Converted, Told, Answer
  <2>2. said.value.target \in Weekdays
    BY <2>1, TextsAssumption, Zenon
  <2>3. QED
    BY <2>1, <2>2, WeekdayResolved, Zenon DEF WeekdaysResolvedRight
<1>2. QED
  BY <1>1, ConvertedHolds, PTL

\* coerceTime and coerceDate: a start in a documented shape is coerced to the
\* time and the date it says.
THEOREM StartsUnderstood == TextsSpec => []StartsReadRight
<1>1. Converted => StartsReadRight
  <2> SUFFICES ASSUME Converted, Told("start"), IsDocumented(said.value)
               PROVE  /\ 60 * Answer.time.h + Answer.time.m = MeansTime(said.value[1])
                      /\ Len(said.value) = 2 => Answer.date = said.value[2].day
                      /\ said.value[1].kind = "iso" => Answer.date = said.value[1].day
    BY Zenon DEF StartsReadRight
  <2> DEFINE text == said.value
  <2>1. /\ text \in Starts
        /\ Answer.date = coerceDate(text, said.today)
        /\ Answer.time = coerceTime(text)
    BY DEF Converted, Told, Answer
  <2>2. \/ text \in [1..1 -> ClockItem \cup DateItem \cup DatetimeItem]
        \/ text \in {c \in ClockItem : MoreThanAnHour(c)} \X DateItem
        \/ text \in DateItem \X ClockItem
    BY <2>1, TextsAssumption, Zenon
  <2>3. /\ \A item \in ClockItem : item.kind = "clock"
        /\ \A item \in DateItem : item.kind \in {"named", "ymd"}
        /\ \A item \in DatetimeItem : item.kind = "iso"
    BY DEF ClockItem, DateItem, DatetimeItem
  <2> HIDE DEF text
  <2>4. \/ text[1].kind = "clock" /\ ShownByClock(text[1])
        \/ text[1].kind = "iso" /\ text[1].offset \in {SameZone, ServerOffset}
    BY Zenon DEF IsDocumented, text
  <2>5. CASE text \in [1..1 -> ClockItem \cup DateItem \cup DatetimeItem]
    <3>1. Len(text) = 1 /\ DOMAIN text = 1..1
      BY <2>5
    <3>2. text[1] \in ClockItem \cup DateItem \cup DatetimeItem
      BY <2>5
    <3>3. CASE text[1].kind = "clock"
      <4>1. text[1] \in ClockItem /\ ShownByClock(text[1])
        BY <2>3, <2>4, <3>2, <3>3
      <4>2. 60 * coerceTime(text).h + coerceTime(text).m = MeansTime(text[1])
        BY <3>1, <4>1, ClockCoerced
      <4>3. QED
        BY <2>1, <3>1, <3>3, <4>2 DEF text
    <3>4. CASE text[1].kind = "iso"
      <4>1. text[1] \in DatetimeItem /\ text[1].offset \in {SameZone, ServerOffset}
        BY <2>3, <2>4, <3>2, <3>4
      <4>2. /\ 60 * coerceTime(text).h + coerceTime(text).m = MeansTime(text[1])
            /\ coerceDate(text, said.today) = text[1].day
        BY <3>1, <4>1, DatetimeCoerced
      <4>3. QED
        BY <2>1, <3>1, <4>2 DEF text
    <3>5. QED
      BY <2>4, <3>3, <3>4
  <2>6. CASE text \in {c \in ClockItem : MoreThanAnHour(c)} \X DateItem
    <3>1. Len(text) = 2 /\ DOMAIN text = 1..2 /\ text[1] \in ClockItem /\ text[2] \in DateItem
      BY <2>6
    <3>2. text[1].kind = "clock" /\ ShownByClock(text[1])
      BY <2>3, <2>4, <3>1
    <3>3. 60 * coerceTime(text).h + coerceTime(text).m = MeansTime(text[1])
      BY <3>1, <3>2, ClockCoerced
    <3>4. coerceDate(text, said.today) = text[2].day
      BY <3>1, DateCoerced
    <3>5. QED
      BY <2>1, <3>2, <3>3, <3>4 DEF text
  <2>7. CASE text \in DateItem \X ClockItem
    <3>1. text[1] \in DateItem
      BY <2>7
    <3>2. QED
      BY <2>3, <2>4, <3>1
  <2>8. QED
    BY <2>2, <2>5, <2>6, <2>7
<1>2. QED
  BY <1>1, ConvertedHolds, PTL
=============================================================================
