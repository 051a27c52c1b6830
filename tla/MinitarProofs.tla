----------------------------- MODULE MinitarProofs -----------------------------
(***************************************************************************)
(* Proofs about Minitar, for all contents, block sizes, size fields and    *)
(* lists of files.                                                         *)
(*                                                                         *)
(* First what the recursive functions of the model compute, by induction   *)
(* over sets of numbers: the octal size field holds every size that fits   *)
(* it, the starts of the members are the one way forward through complete  *)
(* members, and the walk of the listing is just that way in an archive as  *)
(* it should be.  Then Orderly, which always holds: types, and that        *)
(* extraction is where the walk leads and has copied just the blocks it    *)
(* passed.  On it rest EarlierKept and, with Building (what is written of  *)
(* an archive that nothing has damaged), the refinement of the log; with   *)
(* Copied (what extraction has left so far), ExtractsLatest.               *)
(***************************************************************************)
EXTENDS Minitar, SequenceTheorems, WellFoundedInduction, TLAPS

-------------------------------------------------------------------------------
(* Induction, said of sets: what holds of every number *)

LEMMA LeastNumber ==
  ASSUME NEW T \in SUBSET Nat, T # {}
  PROVE  \E x \in T : \A y \in T : x <= y
<1>1. \E x \in T : \A y \in T : ~ (<<y, x>> \in OpToRel(<, Nat))
  BY NatLessThanWellFounded, WFMin
<1>2. \A x, y \in T : x < y => <<x, y>> \in OpToRel(<, Nat)
  BY DEF OpToRel
<1>3. \A x, y \in T : ~(y < x) => x <= y
  OBVIOUS
<1> QED  BY <1>1, <1>2, <1>3

LEMMA Upward ==
  ASSUME NEW n \in Nat, NEW G, 0 \in G,
         \A m \in 0 .. n - 1 : m \in G => m + 1 \in G
  PROVE  \A m \in 0 .. n : m \in G
<1> DEFINE Bad == {m \in 0 .. n : m \notin G}
<1>1. SUFFICES ASSUME Bad # {}  PROVE FALSE
  OBVIOUS
<1>2. PICK m \in Bad : \A y \in Bad : m <= y
  <2>1. Bad \in SUBSET Nat
    OBVIOUS
  <2> HIDE DEF Bad
  <2> QED  BY <1>1, <2>1, LeastNumber
<1>3. m # 0 /\ m - 1 \in 0 .. n - 1 /\ m - 1 + 1 = m /\ m - 1 \in 0 .. n
  BY <1>2
<1>4. m - 1 \notin Bad
  BY <1>2, <1>3
<1> QED  BY <1>2, <1>3, <1>4

\* Down from n.
LEMMA Downward ==
  ASSUME NEW n \in Nat, NEW G,
         \A p \in 1 .. n : (\A q \in p + 1 .. n : q \in G) => p \in G
  PROVE  \A p \in 1 .. n : p \in G
<1> DEFINE Bad == {m \in Nat : n - m \in 1 .. n /\ n - m \notin G}
<1>1. SUFFICES ASSUME Bad # {}  PROVE FALSE
  <2>1. ASSUME Bad = {}, NEW p \in 1 .. n  PROVE p \in G
    <3>1. n - p \in Nat /\ n - (n - p) = p
      OBVIOUS
    <3> QED  BY <2>1, <3>1
  <2> QED  BY <2>1
<1>2. PICK m \in Bad : \A y \in Bad : m <= y
  <2>1. Bad \in SUBSET Nat
    OBVIOUS
  <2> HIDE DEF Bad
  <2> QED  BY <1>1, <2>1, LeastNumber
<1>3. ASSUME NEW q \in n - m + 1 .. n  PROVE q \in G
  <2>1. n - q \in Nat /\ n - (n - q) = q /\ q \in 1 .. n /\ ~(m <= n - q)
    BY <1>2
  <2>2. n - q \notin Bad
    BY <1>2, <2>1
  <2> QED  BY <2>1, <2>2
<1> QED  BY <1>2, <1>3

-------------------------------------------------------------------------------
(* Powers of 8 and octal digits *)

Powers(f, m) == f = [power \in 0 .. m |-> IF power = 0 THEN 1 ELSE 8 * f[power - 1]]

LEMMA PowersExist ==
  ASSUME NEW n \in Nat
  PROVE  \E f : Powers(f, n)
<1> DEFINE Good == {m \in Nat : \E f : Powers(f, m)}
<1>1. 0 \in Good
  <2>1. Powers([power \in 0 .. 0 |-> 1], 0)
    BY DEF Powers
  <2> QED  BY <2>1
<1>2. ASSUME NEW m \in 0 .. n - 1, m \in Good  PROVE m + 1 \in Good
  <2>1. PICK f : Powers(f, m)
    BY <1>2
  <2> DEFINE g == [power \in 0 .. m + 1 |-> IF power = m + 1 THEN 8 * f[m] ELSE f[power]]
  <2>2. \A p \in 0 .. m + 1 : g[p] = IF p = 0 THEN 1 ELSE 8 * g[p - 1]
    <3>1. TAKE p \in 0 .. m + 1
    <3>2. CASE p = m + 1
      <4>1. p - 1 = m /\ p # 0 /\ m \in 0 .. m + 1 /\ m # m + 1
        BY <3>2
      <4> QED  BY <3>2, <4>1
    <3>3. CASE p # m + 1
      <4>1. p \in 0 .. m /\ g[p] = f[p] /\ (p # 0 => p - 1 \in 0 .. m /\ g[p - 1] = f[p - 1])
        BY <3>3
      <4> HIDE DEF g
      <4> QED  BY <2>1, <4>1 DEF Powers
    <3> QED  BY <3>2, <3>3
  <2>3. g = [power \in 0 .. m + 1 |-> g[power]]
    OBVIOUS
  <2> HIDE DEF g
  <2>4. Powers(g, m + 1)
    BY <2>2, <2>3 DEF Powers
  <2> QED  BY <2>4
<1> HIDE DEF Good
<1>3. n \in Good
  BY <1>1, <1>2, Upward
<1> QED  BY <1>3 DEF Good

LEMMA PowerIs ==
  /\ Power8[0] = 1
  /\ \A d \in 1 .. Digits : Power8[d] = 8 * Power8[d - 1]
  /\ \A d \in 0 .. Digits : Power8[d] \in Nat \ {0}
<1> USE DigitsAssumption
<1>1. Powers(Power8, Digits)
  <2>1. \E f : Powers(f, Digits)
    BY PowersExist
  <2>2. Powers(CHOOSE f : Powers(f, Digits), Digits)
    BY <2>1, Zenon
  <2>3. Power8 = CHOOSE f : Powers(f, Digits)
    BY DEF Power8, Powers
  <2> QED  BY <2>2, <2>3
<1>2. Power8[0] = 1 /\ \A d \in 1 .. Digits : Power8[d] = 8 * Power8[d - 1]
  BY <1>1 DEF Powers
<1> DEFINE Good == {d \in Nat : Power8[d] \in Nat \ {0}}
<1>3. 0 \in Good
  BY <1>2
<1>4. ASSUME NEW d \in 0 .. Digits - 1, d \in Good  PROVE d + 1 \in Good
  <2>1. d + 1 \in 1 .. Digits /\ d + 1 - 1 = d
    OBVIOUS
  <2>2. Power8[d + 1] = 8 * Power8[d]
    BY <1>2, <2>1
  <2> QED  BY <1>4, <2>2
<1> HIDE DEF Good
<1>5. \A d \in 0 .. Digits : d \in Good
  BY <1>3, <1>4, Upward
<1> QED  BY <1>2, <1>5 DEF Good

\* Division with remainder.
LEMMA Divides ==
  ASSUME NEW n \in Nat, NEW d \in Nat \ {0}
  PROVE  \E q \in Nat : \E r \in 0 .. d - 1 : q = n \div d /\ r = n % d /\ n = d * q + r
<1>1. n \div d \in Nat /\ n % d \in 0 .. d - 1
  OBVIOUS
<1>2. PICK q \in Nat : q = n \div d
  BY <1>1
<1>3. PICK r \in 0 .. d - 1 : r = n % d
  BY <1>1
<1>4. PICK x \in Int : x = d * q
  OBVIOUS
<1>5. n = x + r
  BY <1>2, <1>3, <1>4
<1>6. n = d * q + r
  BY <1>4, <1>5
<1> QED  BY <1>2, <1>3, <1>6

LEMMA DivideUnique ==
  ASSUME NEW d \in Nat \ {0}, NEW q \in Nat, NEW r \in 0 .. d - 1,
         NEW x \in Nat, NEW y \in 0 .. d - 1, d * q + r = d * x + y
  PROVE  q = x /\ r = y
<1>1. \A a, b \in Nat : a < b => d * b >= d * a + d
  <2>1. TAKE a, b \in Nat
  <2>2. SUFFICES ASSUME a < b  PROVE d * b >= d * a + d
    OBVIOUS
  <2>3. PICK c \in Nat : b = a + 1 + c
    <3>1. b - a - 1 \in Nat /\ b = a + 1 + (b - a - 1)
      BY <2>2
    <3> QED  BY <3>1
  <2>4. d * b = d * a + d + d * c /\ d * c \in Nat /\ d * a \in Nat
    BY <2>3
  <2> QED  BY <2>4
<1>2. d * q \in Nat /\ d * x \in Nat
  OBVIOUS
<1>3. ~(q < x) /\ ~(x < q)
  BY <1>1, <1>2
<1>4. q = x
  BY <1>3
<1> QED  BY <1>2, <1>4

LEMMA Divided ==
  ASSUME NEW n \in Nat, NEW d \in Nat \ {0}, NEW q \in Nat, NEW r \in 0 .. d - 1,
         n = d * q + r
  PROVE  n \div d = q /\ n % d = r
<1>1. PICK x \in Nat, y \in 0 .. d - 1 : x = n \div d /\ y = n % d /\ n = d * x + y
  BY Divides
<1>2. q = x /\ r = y
  BY <1>1, DivideUnique
<1> QED  BY <1>1, <1>2

\* Dividing by d and then by 8.
LEMMA DivideTwice ==
  ASSUME NEW n \in Nat, NEW d \in Nat \ {0}
  PROVE  n \div (8 * d) = (n \div d) \div 8
<1>1. PICK q \in Nat, r \in 0 .. d - 1 : q = n \div d /\ n = d * q + r
  BY Divides
<1>2. PICK x \in Nat, y \in 0 .. 7 : x = q \div 8 /\ q = 8 * x + y
  <2>1. 8 \in Nat \ {0} /\ 8 - 1 = 7
    OBVIOUS
  <2> QED  BY <2>1, Divides
<1>3. d * q = (8 * d) * x + d * y
  <2>1. d * (8 * x + y) = (8 * d) * x + d * y
    OBVIOUS
  <2> QED  BY <1>2, <2>1
<1>4. d * y + r \in 0 .. 8 * d - 1
  <2>1. y \in {0, 1, 2, 3, 4, 5, 6, 7}
    BY <1>2
  <2> QED  BY <1>1, <2>1
<1>5. n = (8 * d) * x + (d * y + r)
  <2>1. (8 * d) * x \in Nat /\ d * y \in Nat /\ d * q \in Nat
    BY <1>1, <1>2
  <2> QED  BY <1>1, <1>3, <2>1
<1>6. 8 * d \in Nat \ {0}
  OBVIOUS
<1>7. n \div (8 * d) = x
  BY <1>2, <1>4, <1>5, <1>6, Divided
<1> QED  BY <1>1, <1>2, <1>7

\* What a digit counts for.
Worth(digits, d) == IF digits[d] \in 0 .. 9 THEN digits[d] * Power8[Digits - d] ELSE 0

Sums(f, digits, m) ==
  f = [d \in 0 .. m |-> IF d = 0 THEN 0
                        ELSE ToInt(f[d - 1] + IF digits[d] \in 0 .. 9
                                              THEN digits[d] * Power8[Digits - d] ELSE 0)]

LEMMA SumsExist ==
  ASSUME NEW n \in Nat, NEW digits
  PROVE  \E f : Sums(f, digits, n)
<1> DEFINE Good == {m \in Nat : \E f : Sums(f, digits, m)}
<1>1. 0 \in Good
  <2>1. Sums([d \in 0 .. 0 |-> 0], digits, 0)
    BY DEF Sums
  <2> QED  BY <2>1
<1>2. ASSUME NEW m \in 0 .. n - 1, m \in Good  PROVE m + 1 \in Good
  <2>1. PICK f : Sums(f, digits, m)
    BY <1>2
  <2> DEFINE w(d) == Worth(digits, d)
             g == [d \in 0 .. m + 1 |-> IF d = m + 1 THEN ToInt(f[m] + w(m + 1)) ELSE f[d]]
  <2>2. \A d \in 0 .. m + 1 : g[d] = IF d = 0 THEN 0 ELSE ToInt(g[d - 1] + w(d))
    <3>1. TAKE d \in 0 .. m + 1
    <3> HIDE DEF w
    <3>2. CASE d = m + 1
      <4>1. d - 1 = m /\ d # 0 /\ m \in 0 .. m + 1 /\ m # m + 1
        BY <3>2
      <4> QED  BY <3>2, <4>1
    <3>3. CASE d # m + 1
      <4>1. d \in 0 .. m /\ g[d] = f[d] /\ (d # 0 => d - 1 \in 0 .. m /\ g[d - 1] = f[d - 1])
        BY <3>3
      <4>2. f[d] = IF d = 0 THEN 0 ELSE ToInt(f[d - 1] + w(d))
        BY <2>1, <4>1 DEF Sums, w, Worth
      <4> HIDE DEF g
      <4> QED  BY <4>1, <4>2
    <3> QED  BY <3>2, <3>3
  <2>3. g = [d \in 0 .. m + 1 |-> g[d]]
    OBVIOUS
  <2> HIDE DEF g
  <2>4. Sums(g, digits, m + 1)
    <3>1. g = [d \in 0 .. m + 1 |-> IF d = 0 THEN 0 ELSE ToInt(g[d - 1] + w(d))]
      <4> HIDE DEF w
      <4> QED  BY <2>2, <2>3
    <3> QED  BY <3>1 DEF Sums, Worth
  <2> QED  BY <2>4
<1> HIDE DEF Good
<1>3. n \in Good
  BY <1>1, <1>2, Upward
<1> QED  BY <1>3 DEF Good

LEMMA SizeIs ==
  ASSUME NEW digits
  PROVE  \E f : /\ SizeFromOctal(digits) = f[Digits] /\ f[0] = 0
                /\ \A d \in 1 .. Digits : f[d] = ToInt(f[d - 1] + Worth(digits, d))
<1> DEFINE f == CHOOSE g : Sums(g, digits, Digits)
<1>1. \E g : Sums(g, digits, Digits)
  BY SumsExist, DigitsAssumption
<1>2. Sums(f, digits, Digits)
  BY <1>1, Zenon
<1>3. SizeFromOctal(digits) = f[Digits]
  BY DEF SizeFromOctal, Sums
<1> HIDE DEF f
<1>4. f[0] = 0 /\ \A d \in 1 .. Digits : f[d] = ToInt(f[d - 1] + Worth(digits, d))
  BY <1>2, DigitsAssumption DEF Sums, Worth
<1> QED  BY <1>3, <1>4

\* What fits the size field and an int, and the fields that hold it.
FitsField(n) == n < Power8[Digits] /\ n <= INT_MAX

Octals ==
  {digits \in [1 .. Digits -> {Blank} \cup 0 .. 7] :
     SizeFromOctal(digits) \in Nat /\ FitsField(SizeFromOctal(digits))}

\* A field that nothing was written to holds zero.
LEMMA BlanksRead == [d \in 1 .. Digits |-> Blank] \in Octals
<1> USE DigitsAssumption
<1> DEFINE blanks == [d \in 1 .. Digits |-> Blank]
<1>1. PICK f : /\ SizeFromOctal(blanks) = f[Digits] /\ f[0] = 0
               /\ \A d \in 1 .. Digits : f[d] = ToInt(f[d - 1] + Worth(blanks, d))
  BY SizeIs
<1> DEFINE Good == {d \in Nat : f[d] = 0}
<1>2. 0 \in Good
  BY <1>1
<1>3. ASSUME NEW d \in 0 .. Digits - 1, d \in Good  PROVE d + 1 \in Good
  <2>1. d + 1 \in 1 .. Digits /\ d + 1 - 1 = d
    OBVIOUS
  <2>2. Worth(blanks, d + 1) = 0
    BY <2>1 DEF Worth, Blank
  <2>3. f[d + 1] = ToInt(0)
    BY <1>1, <1>3, <2>1, <2>2
  <2> QED  BY <2>3 DEF ToInt, INT_MAX
<1> HIDE DEF Good
<1>4. Digits \in Good
  BY <1>2, <1>3, Upward
<1>5. SizeFromOctal(blanks) = 0
  BY <1>1, <1>4 DEF Good
<1>6. blanks \in [1 .. Digits -> {Blank} \cup 0 .. 7]
  OBVIOUS
<1> HIDE DEF blanks
<1>7. blanks \in Octals
  BY <1>5, <1>6, PowerIs DEF Octals, FitsField, INT_MAX
<1> QED  BY <1>7 DEF blanks

\* sizeFromOctal reads from the size field what snprintf wrote to it, whatever size fits
\* the field and an int: the cast to unsigned and the sums in an int change nothing, the
\* blanks count for nothing, and the digits for the remainders of the divisions.
THEOREM OctalRead ==
  ASSUME NEW size \in Nat, size < Power8[Digits], size <= INT_MAX
  PROVE  Octal(size) \in Octals /\ SizeFromOctal(Octal(size)) = size
<1> USE DigitsAssumption
<1> DEFINE q(d) == size \div Power8[Digits - d]
<1>1. \A d \in 0 .. Digits : q(d) \in Nat
  <2>1. TAKE d \in 0 .. Digits
  <2>2. Digits - d \in 0 .. Digits
    OBVIOUS
  <2>3. Power8[Digits - d] \in Nat \ {0}
    BY <2>2, PowerIs
  <2> QED  BY <2>3, Divides
<1>2. \A d \in 1 .. Digits :
        Octal(size)[d] = IF q(d) = 0 /\ d < Digits THEN Blank ELSE q(d) % 8
  <2>1. Unsigned(size) = size
    BY DEF Unsigned
  <2> QED  BY <2>1 DEF Octal
<1>3. Octal(size) \in [1 .. Digits -> {Blank} \cup 0 .. 7]
  <2>1. \A d \in 1 .. Digits : q(d) % 8 \in 0 .. 7
    <3>1. \A d \in 1 .. Digits : q(d) \in Nat
      BY <1>1
    <3> HIDE DEF q
    <3> QED  BY <3>1
  <2>2. Octal(size) = [d \in 1 .. Digits |-> Octal(size)[d]]
    BY DEF Octal
  <2>3. \A d \in 1 .. Digits : Octal(size)[d] \in {Blank} \cup 0 .. 7
    <3> HIDE DEF q
    <3> QED  BY <1>2, <2>1
  <2> QED  BY <2>2, <2>3
<1>4. PICK f : /\ SizeFromOctal(Octal(size)) = f[Digits] /\ f[0] = 0
               /\ \A d \in 1 .. Digits : f[d] = ToInt(f[d - 1] + Worth(Octal(size), d))
  BY SizeIs
<1> DEFINE Good == {d \in Nat : f[d] = q(d) * Power8[Digits - d]}
<1>5. 0 \in Good
  <2>1. Power8[Digits] \in Nat \ {0}
    BY PowerIs
  <2>2. size = Power8[Digits] * 0 + size
    BY <2>1
  <2>3. size \div Power8[Digits] = 0
    BY <2>1, <2>2, Divided
  <2>4. q(0) = 0 /\ Digits - 0 = Digits
    BY <2>3
  <2> HIDE DEF q
  <2> QED  BY <1>4, <2>1, <2>4
<1>6. ASSUME NEW d \in 0 .. Digits - 1, d \in Good  PROVE d + 1 \in Good
  <2> DEFINE p == Power8[Digits - (d + 1)]
             x == q(d + 1)
  <2>1. p \in Nat \ {0} /\ Power8[Digits - d] = 8 * p
    <3>1. Digits - (d + 1) \in 0 .. Digits /\ Digits - d \in 1 .. Digits
          /\ Digits - d - 1 = Digits - (d + 1)
      OBVIOUS
    <3> QED  BY <3>1, PowerIs
  <2>2. x \in Nat /\ q(d) = x \div 8
    <3>1. q(d) = size \div (8 * p)
      BY <2>1
    <3>2. x = size \div p
      OBVIOUS
    <3>3. x \in Nat
      <4>1. d + 1 \in 0 .. Digits
        OBVIOUS
      <4> HIDE DEF q
      <4> QED  BY <1>1, <4>1
    <3> HIDE DEF q, p, x
    <3> QED  BY <2>1, <3>1, <3>2, <3>3, DivideTwice
  <2>3. Worth(Octal(size), d + 1) = (x % 8) * p
    <3>1. Octal(size)[d + 1] = IF x = 0 /\ d + 1 < Digits THEN Blank ELSE x % 8
      BY <1>2
    <3>2. x % 8 \in 0 .. 7 /\ (x = 0 => x % 8 = 0)
      <4> HIDE DEF x
      <4> QED  BY <2>2
    <3>3. CASE Octal(size)[d + 1] = Blank
      <4>1. x = 0
        <5> HIDE DEF x
        <5> QED  BY <3>1, <3>2, <3>3 DEF Blank
      <4>2. Worth(Octal(size), d + 1) = 0
        BY <3>3 DEF Worth, Blank
      <4> HIDE DEF x, p
      <4> QED  BY <2>1, <3>2, <4>1, <4>2
    <3>4. CASE Octal(size)[d + 1] = x % 8
      <4>1. Octal(size)[d + 1] \in 0 .. 9
        <5> HIDE DEF x
        <5> QED  BY <3>2, <3>4
      <4> QED  BY <3>4, <4>1 DEF Worth
    <3> QED  BY <3>1, <3>3, <3>4
  <2>4. f[d + 1] = ToInt(f[d] + Worth(Octal(size), d + 1))
    <3>1. d + 1 \in 1 .. Digits /\ d + 1 - 1 = d
      OBVIOUS
    <3> QED  BY <1>4, <3>1
  <2>5. f[d] = (x \div 8) * (8 * p)
    BY <1>6, <2>1, <2>2
  <2> HIDE DEF x, p, q
  <2>6. f[d + 1] = x * p
    <3>1. PICK a \in Nat, b \in 0 .. 7 : a = x \div 8 /\ b = x % 8 /\ x = 8 * a + b
      <4>1. 8 \in Nat \ {0} /\ 8 - 1 = 7 /\ x \in Nat
        BY <2>2
      <4> QED  BY <4>1, Divides
    <3>2. (8 * a + b) * p = a * (8 * p) + b * p
      BY <2>1
    <3>3. f[d + 1] = ToInt(x * p)
      BY <2>3, <2>4, <2>5, <3>1, <3>2
    <3>4. PICK r \in 0 .. p - 1 : size = p * x + r
      BY <2>1, Divides DEF x, q, p
    <3>5. p * x \in Nat /\ x * p = p * x
      BY <2>1, <2>2
    <3> QED  BY <3>3, <3>4, <3>5 DEF ToInt, INT_MAX
  <2> QED  BY <2>6 DEF x, p
<1> HIDE DEF Good
<1>7. Digits \in Good
  BY <1>5, <1>6, Upward
<1>8. f[Digits] = q(Digits) * Power8[0] /\ q(Digits) = size \div Power8[0]
  <2>1. Digits - Digits = 0
    OBVIOUS
  <2> QED  BY <1>7, <2>1 DEF Good
<1>9. size \div 1 = size
  OBVIOUS
<1>10. f[Digits] = size
  <2> HIDE DEF q
  <2> QED  BY <1>8, <1>9, PowerIs
<1>11. SizeFromOctal(Octal(size)) = size
  BY <1>4, <1>10
<1> QED  BY <1>3, <1>11 DEF Octals, FitsField

-------------------------------------------------------------------------------
(* Blocks *)

\* Byte x of a file is byte r of its block q.
LEMMA ByteAt ==
  ASSUME NEW size \in Nat, NEW x \in 1 .. size
  PROVE  \E q \in 0 .. Blocks(size) - 1 : \E r \in 1 .. BLOCK_SIZE :
           q = (x - 1) \div BLOCK_SIZE /\ r = ((x - 1) % BLOCK_SIZE) + 1 /\ x = q * BLOCK_SIZE + r
<1> USE BlockAssumption
<1>1. PICK q \in Nat, r \in 0 .. BLOCK_SIZE - 1 :
        q = (x - 1) \div BLOCK_SIZE /\ r = (x - 1) % BLOCK_SIZE /\ x - 1 = BLOCK_SIZE * q + r
  <2>1. x - 1 \in Nat
    OBVIOUS
  <2> QED  BY <2>1, Divides
<1>2. PICK b \in Nat, s \in 0 .. BLOCK_SIZE - 1 :
        b = Blocks(size) /\ size + BLOCK_SIZE - 1 = BLOCK_SIZE * b + s
  <2>1. size + BLOCK_SIZE - 1 \in Nat
    OBVIOUS
  <2> QED  BY <2>1, Divides DEF Blocks
<1>3. q < b
  <2> SUFFICES ASSUME b <= q  PROVE FALSE
    BY <1>1, <1>2
  <2>1. PICK e \in Nat : q = b + e
    <3>1. q - b \in Nat /\ q = b + (q - b)
      OBVIOUS
    <3> QED  BY <3>1
  <2>2. BLOCK_SIZE * q = BLOCK_SIZE * b + BLOCK_SIZE * e
        /\ BLOCK_SIZE * e \in Nat /\ BLOCK_SIZE * b \in Nat
    BY <2>1
  <2> QED  BY <1>1, <1>2, <2>2
<1>4. r + 1 \in 1 .. BLOCK_SIZE /\ q \in 0 .. b - 1
  BY <1>1, <1>3
<1>5. x = q * BLOCK_SIZE + (r + 1)
  <2>1. BLOCK_SIZE * q = q * BLOCK_SIZE /\ q * BLOCK_SIZE \in Nat
    OBVIOUS
  <2> QED  BY <1>1, <2>1
<1> QED  BY <1>1, <1>2, <1>4, <1>5

\* A file of some bytes fills all its blocks but for the last, and that too if nothing
\* remains.
LEMMA BlocksFill ==
  ASSUME NEW size \in Nat
  PROVE  /\ Blocks(size) \in Nat /\ size % BLOCK_SIZE \in 0 .. BLOCK_SIZE - 1
         /\ size = 0 <=> Blocks(size) = 0
         /\ Blocks(size) * BLOCK_SIZE
              = IF size % BLOCK_SIZE = 0 THEN size
                ELSE size + (BLOCK_SIZE - (size % BLOCK_SIZE))
<1> USE BlockAssumption
<1>1. PICK q \in Nat, r \in 0 .. BLOCK_SIZE - 1 :
        r = size % BLOCK_SIZE /\ size = BLOCK_SIZE * q + r
  BY Divides
<1>2. size + BLOCK_SIZE - 1 \in Nat /\ BLOCK_SIZE * q \in Nat
      /\ BLOCK_SIZE * (q + 1) = BLOCK_SIZE * q + BLOCK_SIZE
      /\ q * BLOCK_SIZE = BLOCK_SIZE * q
      /\ (q + 1) * BLOCK_SIZE = BLOCK_SIZE * q + BLOCK_SIZE
      /\ (q = 0 => BLOCK_SIZE * q = 0) /\ (q # 0 => BLOCK_SIZE * q # 0)
  BY <1>1
<1>3. CASE r = 0
  <2>1. size + BLOCK_SIZE - 1 = BLOCK_SIZE * q + (BLOCK_SIZE - 1)
    BY <1>1, <1>2, <1>3
  <2>2. BLOCK_SIZE - 1 \in 0 .. BLOCK_SIZE - 1
    OBVIOUS
  <2>3. Blocks(size) = q
    BY <1>2, <2>1, <2>2, Divided DEF Blocks
  <2>4. size = BLOCK_SIZE * q
    BY <1>1, <1>2, <1>3
  <2> QED  BY <1>1, <1>2, <1>3, <2>3, <2>4
<1>4. CASE r # 0
  <2>1. size + BLOCK_SIZE - 1 = BLOCK_SIZE * (q + 1) + (r - 1) /\ r - 1 \in 0 .. BLOCK_SIZE - 1
    BY <1>1, <1>2, <1>4
  <2>2. Blocks(size) = q + 1
    <3>1. q + 1 \in Nat
      OBVIOUS
    <3> QED  BY <1>2, <2>1, <3>1, Divided DEF Blocks
  <2>3. size # 0 /\ q + 1 # 0 /\ BLOCK_SIZE * q + BLOCK_SIZE = size + (BLOCK_SIZE - r)
    BY <1>1, <1>2, <1>4
  <2>4. Blocks(size) * BLOCK_SIZE = size + (BLOCK_SIZE - r)
    <3>1. Blocks(size) * BLOCK_SIZE = (q + 1) * BLOCK_SIZE
      BY <2>2
    <3> QED  BY <1>2, <2>3, <3>1
  <2>5. Blocks(size) \in Nat /\ Blocks(size) # 0
    BY <2>2, <2>3
  <2>6. r = size % BLOCK_SIZE /\ r \in 0 .. BLOCK_SIZE - 1
    BY <1>1
  <2>7. size # 0
    BY <2>3
  <2> HIDE DEF Blocks
  <2> QED  BY <1>4, <2>4, <2>5, <2>6, <2>7
<1> QED  BY <1>3, <1>4

Bytes == 0 .. 255
DataBlocks == [kind : {"data"}, bytes : [1 .. BLOCK_SIZE -> Bytes]]
HeaderBlocks == [kind : {"header"}, name : Names, size : Octals]
Archives == Seq(DataBlocks \cup HeaderBlocks)

LEMMA BlockShapes ==
  ASSUME NEW a \in Archives, NEW p \in 1 .. Len(a)
  PROVE  /\ a[p].kind \in {"header", "data"}
         /\ a[p].kind = "header" =>
              /\ a[p].name \in Names /\ a[p].size \in Octals
              /\ HeaderSize(a[p]) \in Nat /\ FitsField(HeaderSize(a[p]))
              /\ NextHeader(a, p) = p + 1 + Blocks(HeaderSize(a[p]))
              /\ NextHeader(a, p) \in Nat /\ NextHeader(a, p) > p
         /\ a[p].kind = "data" => a[p].bytes \in [1 .. BLOCK_SIZE -> Bytes]
<1>1. a[p] \in DataBlocks \cup HeaderBlocks
  BY DEF Archives
<1>2. ASSUME a[p].kind = "header"
      PROVE  /\ a[p].name \in Names /\ a[p].size \in Octals
             /\ HeaderSize(a[p]) \in Nat /\ FitsField(HeaderSize(a[p]))
  <2>1. a[p].name \in Names /\ a[p].size \in Octals
    BY <1>1, <1>2 DEF DataBlocks, HeaderBlocks
  <2> QED  BY <2>1 DEF HeaderSize, Octals
<1>3. ASSUME a[p].kind = "header"
      PROVE  /\ NextHeader(a, p) = p + 1 + Blocks(HeaderSize(a[p]))
             /\ NextHeader(a, p) \in Nat /\ NextHeader(a, p) > p
  <2>1. Blocks(HeaderSize(a[p])) \in Nat
    BY <1>2, <1>3, BlocksFill
  <2> QED  BY <2>1 DEF NextHeader
<1>4. a[p].kind = "data" => a[p].bytes \in [1 .. BLOCK_SIZE -> Bytes]
  BY <1>1 DEF DataBlocks, HeaderBlocks
<1>5. a[p].kind \in {"header", "data"}
  BY <1>1 DEF DataBlocks, HeaderBlocks
<1> QED  BY <1>2, <1>3, <1>4, <1>5

-------------------------------------------------------------------------------
(* Ways through an archive, by induction from its end *)

\* From each place, what is there, and the way from the next place on.
Ways(f, first, last, here, next) ==
  f = [p \in first .. last |->
         here[p] \o (IF next[p] \in 1 .. last THEN f[next[p]] ELSE <<>>)]

LEMMA WaysExist ==
  ASSUME NEW last \in Nat, NEW here, NEW next,
         \A p \in 1 .. last : next[p] \in 1 .. last => next[p] \in p + 1 .. last
  PROVE  \E f : Ways(f, 1, last, here, next)
<1> DEFINE Good == {p \in 1 .. last : \E f : Ways(f, p, last, here, next)}
<1>1. ASSUME NEW p \in 1 .. last, NEW g, Ways(g, p + 1, last, here, next)
      PROVE  \E f : Ways(f, p, last, here, next)
  <2> DEFINE value(f, x) == here[x] \o (IF next[x] \in 1 .. last THEN f[next[x]] ELSE <<>>)
             h == [x \in p .. last |-> IF x = p THEN value(g, p) ELSE g[x]]
  <2>1. ASSUME NEW x \in p .. last, NEW y \in 1 .. last, y = next[x]
        PROVE  h[y] = g[y]
    <3>1. y \in x + 1 .. last
      BY <2>1
    <3>2. y \in p .. last /\ y # p
      BY <3>1
    <3> QED  BY <3>2
  <2>2. ASSUME NEW x \in p .. last  PROVE value(h, x) = value(g, x)
    <3> HIDE DEF h
    <3> QED  BY <2>1, Zenon
  <2>3. ASSUME NEW x \in p .. last  PROVE h[x] = value(g, x)
    <3>1. CASE x = p
      BY <3>1
    <3>2. CASE x # p
      <4>1. x \in p + 1 .. last /\ h[x] = g[x]
        BY <3>2
      <4> HIDE DEF h
      <4> QED  BY <1>1, <4>1 DEF Ways
    <3> QED  BY <3>1, <3>2
  <2>4. h = [x \in p .. last |-> h[x]]
    OBVIOUS
  <2>5. h = [x \in p .. last |-> value(h, x)]
    <3> HIDE DEF h, value
    <3> QED  BY <2>2, <2>3, <2>4
  <2> HIDE DEF h
  <2>6. Ways(h, p, last, here, next)
    BY <2>5, Zenon DEF Ways
  <2> QED  BY <2>6
<1>2. Ways([x \in last + 1 .. last |-> <<>>], last + 1, last, here, next)
  <2>1. last + 1 .. last = {}
    OBVIOUS
  <2> QED  BY <2>1 DEF Ways
<1>3. ASSUME NEW p \in 1 .. last, \A q \in p + 1 .. last : q \in Good  PROVE p \in Good
  <2>1. CASE p = last
    BY <1>1, <1>2, <2>1
  <2>2. CASE p # last
    <3>1. p + 1 \in p + 1 .. last
      BY <2>2
    <3> QED  BY <1>1, <1>3, <3>1
  <2> QED  BY <2>1, <2>2
<1>4. CASE last = 0
  <2>1. 0 + 1 = 1
    OBVIOUS
  <2> QED  BY <1>2, <1>4, <2>1
<1>5. CASE last # 0
  <2> HIDE DEF Good
  <2>1. 1 \in Good
    <3>1. 1 \in 1 .. last
      BY <1>5
    <3> QED  BY <1>3, <3>1, Downward
  <2> QED  BY <2>1 DEF Good
<1> QED  BY <1>4, <1>5

\* The way from each place p by the complete members.
MembersFrom(f, a) ==
  f = [p \in 1 .. Len(a) + 1 |->
         IF Complete(a, p) THEN <<p>> \o f[NextHeader(a, p)] ELSE <<>>]

LEMMA CompleteNext ==
  ASSUME NEW a \in Archives, NEW p \in Nat \ {0}, Complete(a, p)
  PROVE  /\ p \in 1 .. Len(a) /\ NextHeader(a, p) \in p + 1 .. Len(a) + 1
         /\ a[p].kind = "header" /\ HeaderSize(a[p]) \in Nat
<1>1. Len(a) \in Nat
  BY DEF Archives
<1>2. p \in 1 .. Len(a) /\ a[p].kind = "header" /\ NextHeader(a, p) <= Len(a) + 1
  BY <1>1 DEF Complete
<1> QED  BY <1>1, <1>2, BlockShapes

LEMMA StartsDefined ==
  ASSUME NEW a \in Archives
  PROVE  \E f : MembersFrom(f, a) /\ Starts(a) = f[1]
<1> DEFINE last == Len(a) + 1
           here == [p \in 1 .. last |-> IF Complete(a, p) THEN <<p>> ELSE <<>>]
           next == [p \in 1 .. last |-> IF Complete(a, p) THEN NextHeader(a, p) ELSE 0]
<1>1. last \in Nat
  BY DEF Archives
<1>2. \A p \in 1 .. last : p \in Nat \ {0} /\ (Complete(a, p) => next[p] \in p + 1 .. last)
  BY <1>1, CompleteNext
<1>3. \A p \in 1 .. last : next[p] \in 1 .. last => next[p] \in p + 1 .. last
  BY <1>2
<1>4. PICK f : Ways(f, 1, last, here, next)
  <2> HIDE DEF last, here, next
  <2> QED  BY <1>1, <1>3, WaysExist
<1>5. MembersFrom(f, a)
  <2>1. ASSUME NEW p \in 1 .. last
        PROVE  here[p] \o (IF next[p] \in 1 .. last THEN f[next[p]] ELSE <<>>)
                 = IF Complete(a, p) THEN <<p>> \o f[NextHeader(a, p)] ELSE <<>>
    <3>1. CASE Complete(a, p)
      <4>1. next[p] \in 1 .. last /\ next[p] = NextHeader(a, p) /\ here[p] = <<p>>
        BY <1>1, <1>2, <3>1
      <4> HIDE DEF here, next, last
      <4> QED  BY <3>1, <4>1
    <3>2. CASE ~Complete(a, p)
      <4>1. next[p] \notin 1 .. last /\ here[p] = <<>>
        BY <3>2
      <4> HIDE DEF here, next, last
      <4> QED  BY <3>2, <4>1
    <3> QED  BY <3>1, <3>2
  <2>2. f = [p \in 1 .. last |->
               here[p] \o (IF next[p] \in 1 .. last THEN f[next[p]] ELSE <<>>)]
    <3> HIDE DEF here, next, last
    <3> QED  BY <1>4, Zenon DEF Ways
  <2> HIDE DEF here, next
  <2>3. f = [p \in 1 .. last |->
               IF Complete(a, p) THEN <<p>> \o f[NextHeader(a, p)] ELSE <<>>]
    <3> HIDE DEF last
    <3> QED  BY <2>1, <2>2
  <2> QED  BY <2>3 DEF MembersFrom
<1>6. MembersFrom(CHOOSE g : MembersFrom(g, a), a)
  BY <1>5, Zenon
<1>7. Starts(a) = (CHOOSE g : MembersFrom(g, a))[1]
  BY DEF Starts, MembersFrom
<1> QED  BY <1>6, <1>7

\* Where a way s from p stands after m members.
Stop(a, p, s, m) == IF m = 0 THEN p ELSE NextHeader(a, s[m])

\* s is the way from p by the complete members.
WayFrom(a, p, s) ==
  /\ s \in Seq(Nat \ {0})
  /\ \A m \in 1 .. Len(s) : Complete(a, s[m]) /\ s[m] = Stop(a, p, s, m - 1)
  /\ ~Complete(a, Stop(a, p, s, Len(s)))

\* It goes forward.
Forward(a, p, s) ==
  /\ Stop(a, p, s, Len(s)) \in p .. Len(a) + 1
  /\ \A m \in 1 .. Len(s) : NextHeader(a, s[m]) <= Stop(a, p, s, Len(s))

LEMMA WaysForward ==
  ASSUME NEW a \in Archives, NEW f, MembersFrom(f, a)
  PROVE  \A p \in 1 .. Len(a) + 1 : WayFrom(a, p, f[p]) /\ Forward(a, p, f[p])
<1> DEFINE last == Len(a) + 1
           Good == {p \in 1 .. last : WayFrom(a, p, f[p]) /\ Forward(a, p, f[p])}
<1>1. last \in Nat /\ Len(a) \in Nat
  BY DEF Archives
<1>2. ASSUME NEW p \in 1 .. last, \A q \in p + 1 .. last : q \in Good  PROVE p \in Good
  <2>1. f[p] = IF Complete(a, p) THEN <<p>> \o f[NextHeader(a, p)] ELSE <<>>
    BY DEF MembersFrom
  <2>2. CASE ~Complete(a, p)
    <3>1. f[p] = <<>> /\ <<>> \in Seq(Nat \ {0}) /\ Len(<<>>) = 0
      BY <2>1, <2>2
    <3>2. Stop(a, p, <<>>, 0) = p
      BY DEF Stop
    <3>3. WayFrom(a, p, f[p])
      BY <2>2, <3>1, <3>2 DEF WayFrom
    <3>4. Forward(a, p, f[p])
      BY <1>1, <3>1, <3>2 DEF Forward
    <3> QED  BY <3>3, <3>4
  <2>3. CASE Complete(a, p)
    <3> DEFINE q == NextHeader(a, p)
               t == f[q]
               s == f[p]
    <3>1. q \in p + 1 .. last /\ p \in Nat \ {0}
      BY <2>3, CompleteNext
    <3>2. WayFrom(a, q, t) /\ Forward(a, q, t)
      BY <1>2, <3>1
    <3>3. t \in Seq(Nat \ {0}) /\ s = <<p>> \o t
      BY <2>1, <2>3, <3>2 DEF WayFrom
    <3> HIDE DEF s, t, q
    <3>4. /\ s \in Seq(Nat \ {0}) /\ Len(s) = Len(t) + 1 /\ s[1] = p /\ Len(t) \in Nat
          /\ \A m \in 2 .. Len(s) : s[m] = t[m - 1]
      BY <3>1, <3>3
    <3>5. ASSUME NEW m \in 1 .. Len(s)  PROVE Stop(a, p, s, m) = Stop(a, q, t, m - 1)
      <4>1. CASE m = 1
        BY <3>4, <4>1 DEF Stop, q
      <4>2. CASE m # 1
        <5>1. m \in 2 .. Len(s) /\ m # 0 /\ m - 1 # 0
          BY <3>4, <4>2
        <5> QED  BY <3>4, <5>1 DEF Stop
      <4> QED  BY <4>1, <4>2
    <3>6. Stop(a, p, s, Len(s)) = Stop(a, q, t, Len(t))
      <4>1. Len(s) \in 1 .. Len(s) /\ Len(s) - 1 = Len(t)
        BY <3>4
      <4> QED  BY <3>5, <4>1
    <3>7. ASSUME NEW m \in 1 .. Len(s)
          PROVE  /\ Complete(a, s[m]) /\ s[m] = Stop(a, p, s, m - 1)
                 /\ NextHeader(a, s[m]) <= Stop(a, p, s, Len(s))
      <4>1. CASE m = 1
        <5>1. s[m] = p /\ m - 1 = 0 /\ NextHeader(a, s[m]) = q
          BY <3>4, <4>1 DEF q
        <5>2. q <= Stop(a, q, t, Len(t))
          BY <1>1, <3>1, <3>2 DEF Forward
        <5> QED  BY <2>3, <3>6, <5>1, <5>2 DEF Stop
      <4>2. CASE m # 1
        <5>1. m \in 2 .. Len(s) /\ m - 1 \in 1 .. Len(t) /\ m - 1 \in 1 .. Len(s) /\ m - 1 - 1 = m - 2
          BY <3>4, <4>2
        <5>2. s[m] = t[m - 1] /\ Complete(a, t[m - 1]) /\ t[m - 1] = Stop(a, q, t, m - 2)
              /\ NextHeader(a, t[m - 1]) <= Stop(a, q, t, Len(t))
          BY <3>2, <3>4, <5>1 DEF WayFrom, Forward
        <5>3. Stop(a, p, s, m - 1) = Stop(a, q, t, m - 2)
          BY <3>5, <5>1
        <5> QED  BY <3>6, <5>2, <5>3
      <4> QED  BY <4>1, <4>2
    <3>8. WayFrom(a, p, s)
      BY <3>2, <3>4, <3>6, <3>7 DEF WayFrom
    <3>9. Stop(a, p, s, Len(s)) \in p .. Len(a) + 1
      BY <1>1, <3>1, <3>2, <3>6 DEF Forward
    <3>10. Forward(a, p, s)
      BY <3>7, <3>9 DEF Forward
    <3> QED  BY <3>8, <3>10 DEF s
  <2> QED  BY <2>2, <2>3
<1> HIDE DEF Good
<1>3. \A p \in 1 .. last : p \in Good
  BY <1>1, <1>2, Downward
<1> QED  BY <1>3 DEF Good

LEMMA StartsAre ==
  ASSUME NEW a \in Archives
  PROVE  /\ WayFrom(a, 1, Starts(a)) /\ Forward(a, 1, Starts(a))
         /\ End(a) = Stop(a, 1, Starts(a), Len(Starts(a)))
<1>1. Len(a) \in Nat
  BY DEF Archives
<1>2. WayFrom(a, 1, Starts(a)) /\ Forward(a, 1, Starts(a))
  <2>1. PICK f : MembersFrom(f, a) /\ Starts(a) = f[1]
    BY StartsDefined
  <2>2. 1 \in 1 .. Len(a) + 1
    BY <1>1
  <2> QED  BY <2>1, <2>2, WaysForward
<1>3. Starts(a) \in Seq(Nat \ {0})
  BY <1>2 DEF WayFrom
<1>4. Starts(a) = <<>> <=> Len(Starts(a)) = 0
  BY <1>3
<1> QED  BY <1>2, <1>4 DEF End, Stop, Last

LEMMA OneWay ==
  ASSUME NEW a, NEW p, NEW s, NEW t, WayFrom(a, p, s), WayFrom(a, p, t)
  PROVE  s = t
<1>1. ASSUME NEW u, NEW v, WayFrom(a, p, u), WayFrom(a, p, v)
      PROVE  Len(u) <= Len(v) /\ \A m \in 1 .. Len(u) : u[m] = v[m]
  <2> DEFINE Good == {m \in Nat : m <= Len(v) /\ (m = 0 \/ u[m] = v[m])}
  <2>1. Len(u) \in Nat /\ Len(v) \in Nat
    BY <1>1 DEF WayFrom
  <2>2. 0 \in Good
    BY <2>1
  <2>3. ASSUME NEW m \in 0 .. Len(u) - 1, m \in Good  PROVE m + 1 \in Good
    <3>1. Stop(a, p, u, m) = Stop(a, p, v, m)
      BY <2>3 DEF Stop
    <3>2. m + 1 \in 1 .. Len(u) /\ m + 1 - 1 = m
      BY <2>1
    <3>3. Complete(a, Stop(a, p, u, m)) /\ u[m + 1] = Stop(a, p, u, m)
      BY <1>1, <3>2 DEF WayFrom
    <3>4. m # Len(v)
      BY <1>1, <3>1, <3>3 DEF WayFrom
    <3>5. m + 1 \in 1 .. Len(v)
      BY <2>1, <2>3, <3>4
    <3>6. v[m + 1] = Stop(a, p, v, m)
      BY <1>1, <3>2, <3>5 DEF WayFrom
    <3> QED  BY <3>1, <3>3, <3>5, <3>6
  <2> HIDE DEF Good
  <2>4. \A m \in 0 .. Len(u) : m \in Good
    BY <2>1, <2>2, <2>3, Upward
  <2> QED  BY <2>1, <2>4 DEF Good
<1>2. Len(s) <= Len(t) /\ Len(t) <= Len(s) /\ \A m \in 1 .. Len(s) : s[m] = t[m]
  BY <1>1
<1>3. s \in Seq(Nat \ {0}) /\ t \in Seq(Nat \ {0})
  BY DEF WayFrom
<1> QED  BY <1>2, <1>3, SeqEqual

LEMMA EndIs ==
  ASSUME NEW a \in Archives
  PROVE  End(a) \in 1 .. Len(a) + 1 /\ ~Complete(a, End(a))
BY StartsAre DEF WayFrom, Forward

\* Two archives that agree up to where a member ends agree on it.
LEMMA MemberStays ==
  ASSUME NEW a \in Archives, NEW b \in Archives, NEW e \in 1 .. Len(b) + 1,
         \A x \in 1 .. e - 1 : a[x] = b[x],
         NEW p \in Nat \ {0}, Complete(a, p), NextHeader(a, p) <= e
  PROVE  /\ Complete(b, p) /\ NextHeader(b, p) = NextHeader(a, p)
         /\ MemberAt(b)[p] = MemberAt(a)[p]
<1>1. /\ Len(a) \in Nat /\ Len(b) \in Nat
      /\ p \in 1 .. Len(a) /\ NextHeader(a, p) \in p + 1 .. Len(a) + 1
      /\ a[p].kind = "header" /\ HeaderSize(a[p]) \in Nat
  BY CompleteNext DEF Archives
<1>2. p \in 1 .. e - 1 /\ p \in 1 .. Len(b) /\ a[p] = b[p]
  BY <1>1
<1>3. NextHeader(b, p) = NextHeader(a, p)
  BY <1>2 DEF NextHeader
<1>4. \A x \in p + 1 .. NextHeader(a, p) - 1 : a[x] = b[x]
  BY <1>1
<1>5. Complete(b, p)
  BY <1>1, <1>2, <1>3, <1>4 DEF Complete
<1>6. ASSUME NEW x \in 1 .. HeaderSize(a[p])
      PROVE  a[p + 1 + (x - 1) \div BLOCK_SIZE] = b[p + 1 + (x - 1) \div BLOCK_SIZE]
  <2>1. PICK q \in 0 .. Blocks(HeaderSize(a[p])) - 1 : q = (x - 1) \div BLOCK_SIZE
    BY <1>1, ByteAt
  <2>2. NextHeader(a, p) = p + 1 + Blocks(HeaderSize(a[p])) /\ Blocks(HeaderSize(a[p])) \in Nat
    BY <1>1, BlocksFill DEF NextHeader
  <2>3. p + 1 + q \in p + 1 .. NextHeader(a, p) - 1
    BY <1>1, <2>2
  <2> QED  BY <1>4, <2>1, <2>3
<1>7. MemberAt(b)[p] = MemberAt(a)[p]
  <2>1. MemberAt(b)[p] =
          [name |-> b[p].name,
           content |-> [x \in 1 .. HeaderSize(b[p]) |->
             b[p + 1 + (x - 1) \div BLOCK_SIZE].bytes[((x - 1) % BLOCK_SIZE) + 1]]]
    BY <1>2 DEF MemberAt
  <2>2. MemberAt(a)[p] =
          [name |-> a[p].name,
           content |-> [x \in 1 .. HeaderSize(a[p]) |->
             a[p + 1 + (x - 1) \div BLOCK_SIZE].bytes[((x - 1) % BLOCK_SIZE) + 1]]]
    BY <1>1 DEF MemberAt
  <2> QED  BY <1>2, <1>6, <2>1, <2>2
<1> QED  BY <1>3, <1>5, <1>7

\* What agrees with an archive up to the end of its members has them too, and no other
\* if none is complete there.
LEMMA MembersStay ==
  ASSUME NEW a \in Archives, NEW b \in Archives, End(a) <= Len(b) + 1,
         \A x \in 1 .. End(a) - 1 : a[x] = b[x]
  PROVE  /\ WayFrom(b, 1, Starts(a)) <=> ~Complete(b, End(a))
         /\ Stop(b, 1, Starts(a), Len(Starts(a))) = End(a)
         /\ \A m \in 1 .. Len(Starts(a)) :
              /\ Complete(b, Starts(a)[m]) /\ Starts(a)[m] = Stop(b, 1, Starts(a), m - 1)
              /\ MemberAt(b)[Starts(a)[m]] = MemberAt(a)[Starts(a)[m]]
         /\ ~Complete(b, End(a)) =>
              Starts(b) = Starts(a) /\ Members(b) = Members(a) /\ End(b) = End(a)
<1> DEFINE s == Starts(a)
           e == End(a)
<1>1. /\ WayFrom(a, 1, s) /\ Forward(a, 1, s) /\ e = Stop(a, 1, s, Len(s))
      /\ s \in Seq(Nat \ {0}) /\ Len(s) \in Nat
  BY StartsAre DEF WayFrom
<1>2. e \in 1 .. Len(a) + 1 /\ e \in 1 .. Len(b) + 1
  BY EndIs DEF Archives
<1> HIDE DEF s, e
<1>3. ASSUME NEW m \in 1 .. Len(s)
      PROVE  /\ s[m] \in Nat \ {0} /\ Complete(b, s[m])
             /\ NextHeader(b, s[m]) = NextHeader(a, s[m])
             /\ MemberAt(b)[s[m]] = MemberAt(a)[s[m]]
  <2>1. s[m] \in Nat \ {0} /\ Complete(a, s[m]) /\ NextHeader(a, s[m]) <= e
    BY <1>1 DEF WayFrom, Forward
  <2>2. \A x \in 1 .. e - 1 : a[x] = b[x]
    BY DEF e
  <2> QED  BY <1>2, <2>1, <2>2, MemberStays
<1>4. ASSUME NEW m \in 0 .. Len(s)  PROVE Stop(b, 1, s, m) = Stop(a, 1, s, m)
  <2>1. CASE m = 0
    BY <2>1 DEF Stop
  <2>2. CASE m # 0
    <3>1. m \in 1 .. Len(s)
      BY <1>1, <2>2
    <3> QED  BY <1>3, <2>2, <3>1 DEF Stop
  <2> QED  BY <2>1, <2>2
<1>5. Stop(b, 1, s, Len(s)) = e
  <2>1. Len(s) \in 0 .. Len(s)
    BY <1>1
  <2> QED  BY <1>1, <1>4, <2>1
<1>6. ASSUME NEW m \in 1 .. Len(s)  PROVE s[m] = Stop(b, 1, s, m - 1)
  <2>1. m - 1 \in 0 .. Len(s)
    BY <1>1
  <2> QED  BY <1>1, <1>4, <2>1 DEF WayFrom
<1>7. WayFrom(b, 1, s) <=> ~Complete(b, e)
  BY <1>1, <1>3, <1>5, <1>6 DEF WayFrom
<1>8. ASSUME ~Complete(b, e)
      PROVE  Starts(b) = s /\ Members(b) = Members(a) /\ End(b) = e
  <2>1. Starts(b) = s
    BY <1>7, <1>8, StartsAre, OneWay
  <2>2. End(b) = e
    BY <1>5, <2>1, StartsAre
  <2>3. DOMAIN s = 1 .. Len(s)
    BY <1>1
  <2>4. Members(b) = Members(a)
    BY <1>3, <2>1, <2>3 DEF Members, s
  <2> QED  BY <2>1, <2>2, <2>4
<1> QED  BY <1>3, <1>5, <1>6, <1>7, <1>8 DEF s, e

\* One more, if it is complete there and the last.
LEMMA MemberAdded ==
  ASSUME NEW a \in Archives, NEW b \in Archives, End(a) <= Len(b) + 1,
         \A x \in 1 .. End(a) - 1 : a[x] = b[x],
         Complete(b, End(a)), NextHeader(b, End(a)) = Len(b) + 1
  PROVE  /\ Members(b) = Append(Members(a), MemberAt(b)[End(a)])
         /\ End(b) = Len(b) + 1
<1> DEFINE s == Starts(a)
           e == End(a)
           t == Append(s, e)
<1>1. /\ s \in Seq(Nat \ {0}) /\ Len(s) \in Nat /\ e \in Nat \ {0}
      /\ Len(b) \in Nat
  BY StartsAre, EndIs DEF WayFrom, Archives
<1>2. /\ Stop(b, 1, s, Len(s)) = e
      /\ \A m \in 1 .. Len(s) :
           /\ Complete(b, s[m]) /\ s[m] = Stop(b, 1, s, m - 1)
           /\ MemberAt(b)[s[m]] = MemberAt(a)[s[m]]
  BY MembersStay
<1>3. Complete(b, e) /\ NextHeader(b, e) = Len(b) + 1
  OBVIOUS
<1>4. Members(a) = [m \in 1 .. Len(s) |-> MemberAt(a)[s[m]]]
  <2>1. DOMAIN s = 1 .. Len(s)
    <3> HIDE DEF s
    <3> QED  BY <1>1
  <2> QED  BY <2>1 DEF Members
<1> HIDE DEF s, e
<1>5. /\ t \in Seq(Nat \ {0}) /\ Len(t) = Len(s) + 1 /\ t[Len(s) + 1] = e
      /\ \A m \in 1 .. Len(s) : t[m] = s[m]
  BY <1>1
<1> HIDE DEF t
<1>6. ASSUME NEW m \in 0 .. Len(s)  PROVE Stop(b, 1, t, m) = Stop(b, 1, s, m)
  <2>1. m # 0 => m \in 1 .. Len(s)
    BY <1>1
  <2> QED  BY <1>5, <2>1 DEF Stop
<1>7. ASSUME NEW m \in 1 .. Len(t)  PROVE Complete(b, t[m]) /\ t[m] = Stop(b, 1, t, m - 1)
  <2>1. m - 1 \in 0 .. Len(s) /\ m \in Nat
    BY <1>1, <1>5
  <2>2. CASE m = Len(s) + 1
    <3>1. m - 1 = Len(s)
      BY <1>1, <2>2
    <3> QED  BY <1>2, <1>3, <1>5, <1>6, <2>1, <2>2, <3>1
  <2>3. CASE m # Len(s) + 1
    <3>1. m \in 1 .. Len(s)
      BY <1>1, <1>5, <2>3
    <3> QED  BY <1>2, <1>5, <1>6, <2>1, <3>1
  <2> QED  BY <2>2, <2>3
<1>8. Stop(b, 1, t, Len(t)) = Len(b) + 1
  BY <1>1, <1>3, <1>5 DEF Stop
<1>9. ~Complete(b, Len(b) + 1)
  BY <1>1 DEF Complete
<1>10. WayFrom(b, 1, t)
  BY <1>5, <1>7, <1>8, <1>9 DEF WayFrom
<1>11. Starts(b) = t
  BY <1>10, StartsAre, OneWay
<1>12. End(b) = Len(b) + 1
  BY <1>8, <1>11, StartsAre
<1>13. Members(b) = Append(Members(a), MemberAt(b)[e])
  <2>1. Members(b) = [m \in 1 .. Len(s) + 1 |-> MemberAt(b)[t[m]]]
    <3>1. DOMAIN t = 1 .. Len(s) + 1
      BY <1>1, <1>5
    <3> QED  BY <1>11, <3>1 DEF Members
  <2> DEFINE x == [m \in 1 .. Len(s) |-> MemberAt(a)[s[m]]]
             y == MemberAt(b)[e]
  <2>2. /\ Len(x) = Len(s)
        /\ Append(x, y) = [m \in 1 .. Len(s) + 1 |-> IF m = Len(s) + 1 THEN y ELSE x[m]]
    <3> DEFINE S == {x[m] : m \in 1 .. Len(s)} \cup {y}
    <3>1. x \in [1 .. Len(s) -> S]
      OBVIOUS
    <3> HIDE DEF x, S
    <3>2. x \in Seq(S) /\ Len(x) = Len(s)
      BY <1>1, <3>1
    <3> QED  BY <1>1, <3>2
  <2>3. \A m \in 1 .. Len(s) + 1 : MemberAt(b)[t[m]] = IF m = Len(s) + 1 THEN y ELSE x[m]
    <3>1. TAKE m \in 1 .. Len(s) + 1
    <3>2. CASE m = Len(s) + 1
      BY <1>5, <3>2
    <3>3. CASE m # Len(s) + 1
      <4>1. m \in 1 .. Len(s)
        BY <1>1, <3>3
      <4> QED  BY <1>2, <1>5, <3>3, <4>1
    <3> QED  BY <3>2, <3>3
  <2> HIDE DEF x, y
  <2>4. Members(b) = Append(x, y)
    BY <2>1, <2>2, <2>3
  <2> QED  BY <1>4, <2>4 DEF x, y
<1> QED  BY <1>12, <1>13 DEF e

\* The two cases of a block that is added.
LEMMA BlockAdded ==
  ASSUME NEW a \in Archives, NEW block \in DataBlocks \cup HeaderBlocks
  PROVE  LET b == Append(a, block) IN
         /\ b \in Archives /\ Len(b) = Len(a) + 1
         /\ Complete(b, End(a)) =>
              /\ NextHeader(b, End(a)) = Len(b) + 1 /\ End(b) = Len(b) + 1
              /\ Members(b) = Append(Members(a), MemberAt(b)[End(a)])
         /\ ~Complete(b, End(a)) => Members(b) = Members(a) /\ End(b) = End(a)
<1> DEFINE b == Append(a, block)
<1>1. /\ b \in Archives /\ Len(b) = Len(a) + 1 /\ Len(a) \in Nat
      /\ \A x \in 1 .. Len(a) : b[x] = a[x]
  BY DEF Archives
<1>2. End(a) \in 1 .. Len(a) + 1 /\ ~Complete(a, End(a))
  BY EndIs
<1> HIDE DEF b
<1>3. \A x \in 1 .. End(a) - 1 : a[x] = b[x]
  BY <1>1, <1>2
<1>4. ASSUME Complete(b, End(a))  PROVE NextHeader(b, End(a)) = Len(b) + 1
  <2>1. NextHeader(b, End(a)) \in End(a) + 1 .. Len(b) + 1
    BY <1>1, <1>2, <1>4, CompleteNext
  <2>2. ASSUME NextHeader(b, End(a)) # Len(b) + 1  PROVE FALSE
    <3>1. \A x \in 1 .. NextHeader(b, End(a)) - 1 : b[x] = a[x]
      BY <1>1, <1>2, <2>1, <2>2
    <3>2. NextHeader(b, End(a)) \in 1 .. Len(a) + 1
      BY <1>1, <1>2, <2>1, <2>2
    <3>3. Complete(a, End(a))
      <4>1. PICK e \in 1 .. Len(a) + 1 : e = NextHeader(b, End(a))
        BY <3>2
      <4>2. End(a) \in Nat \ {0} /\ NextHeader(b, End(a)) <= e
        BY <1>2, <4>1
      <4> QED  BY <1>1, <1>4, <3>1, <4>1, <4>2, MemberStays
    <3> QED  BY <1>2, <3>3
  <2> QED  BY <2>2
<1>5. Complete(b, End(a)) =>
        Members(b) = Append(Members(a), MemberAt(b)[End(a)]) /\ End(b) = Len(b) + 1
  BY <1>1, <1>2, <1>3, <1>4, MemberAdded
<1>6. ~Complete(b, End(a)) => Members(b) = Members(a) /\ End(b) = End(a)
  BY <1>1, <1>2, <1>3, MembersStay
<1> QED  BY <1>1, <1>4, <1>5, <1>6 DEF b

\* The footer, or what is taken for it, goes.
LEMMA FooterGone ==
  ASSUME NEW a \in Archives, Closed(a)
  PROVE  /\ Stripped(a) \in Archives /\ Members(Stripped(a)) = Members(a)
         /\ End(Stripped(a)) = Len(Stripped(a)) + 1
<1> DEFINE b == Stripped(a)
<1>1. Len(a) \in Nat /\ Len(a) >= 2 /\ End(a) = Len(a) - 1
  BY DEF Archives, Closed
<1>2. b = SubSeq(a, 1, Len(a) - 2)
  BY <1>1 DEF Stripped
<1>3. b \in Archives /\ Len(b) = Len(a) - 2 /\ \A x \in 1 .. Len(b) : b[x] = a[x]
  <2>1. Len(a) - 2 \in 0 .. Len(a)
    BY <1>1
  <2>2. \A x \in 1 .. Len(a) - 2 : x \in 1 .. Len(a) /\ 1 + x - 1 = x
    BY <1>1
  <2> HIDE DEF b
  <2>3. a \in Seq(DataBlocks \cup HeaderBlocks)
    BY DEF Archives
  <2>4. b \in Seq(DataBlocks \cup HeaderBlocks) /\ Len(b) = Len(a) - 2
        /\ \A x \in 1 .. Len(a) - 2 : b[x] = a[x]
    <3> DEFINE S == DataBlocks \cup HeaderBlocks
               n == Len(a) - 2
    <3>1. n \in Nat /\ n \in Int /\ 1 \in Int /\ \A x \in 1 .. n : a[x] \in S
      BY <1>1, <2>2, <2>3
    <3> HIDE DEF S, n
    <3>2. /\ SubSeq(a, 1, n) \in Seq(S)
          /\ Len(SubSeq(a, 1, n)) = IF 1 <= n THEN n - 1 + 1 ELSE 0
          /\ \A x \in 1 .. n - 1 + 1 : SubSeq(a, 1, n)[x] = a[1 + x - 1]
      BY <3>1, SubSeqProperties
    <3>3. Len(SubSeq(a, 1, n)) = n /\ \A x \in 1 .. n : SubSeq(a, 1, n)[x] = a[x]
      BY <3>1, <3>2
    <3> QED  BY <1>2, <3>2, <3>3 DEF S, n
  <2> QED  BY <2>4 DEF Archives
<1> HIDE DEF b
<1>4. ~Complete(b, End(a))
  BY <1>1, <1>3 DEF Complete
<1>5. \A x \in 1 .. End(a) - 1 : a[x] = b[x]
  BY <1>1, <1>3
<1>6. Members(b) = Members(a) /\ End(b) = End(a)
  BY <1>1, <1>3, <1>4, <1>5, MembersStay
<1> QED  BY <1>1, <1>3, <1>6 DEF b

LEMMA NoMembers ==
  <<>> \in Archives /\ Members(<<>>) = <<>> /\ End(<<>>) = 1 /\ Stripped(<<>>) = <<>>
<1>1. <<>> \in Archives /\ Len(<<>>) = 0
  BY DEF Archives
<1>2. ~Complete(<<>>, 1)
  BY <1>1 DEF Complete
<1>3. <<>> \in Seq(Nat \ {0})
  OBVIOUS
<1>4. WayFrom(<<>>, 1, <<>>)
  BY <1>1, <1>2, <1>3 DEF WayFrom, Stop
<1>5. Starts(<<>>) = <<>>
  BY <1>1, <1>4, StartsAre, OneWay
<1>6. Members(<<>>) = <<>>
  BY <1>5 DEF Members
<1> QED  BY <1>1, <1>5, <1>6 DEF End, Stripped

-------------------------------------------------------------------------------
(* The walk of file_list_no_print *)

WalksFrom(f, a) ==
  f = [p \in 1 .. Len(a) |->
         <<p>> \o IF a[p].kind = "header" /\ MoreAt(a, NextHeader(a, p))
                  THEN f[NextHeader(a, p)] ELSE <<>>]

\* One more round than the walk has made when it is at block p.
Goes(a, p) == a[p].kind = "header" /\ MoreAt(a, NextHeader(a, p))

LEMMA GoesOn ==
  ASSUME NEW a \in Archives, NEW p \in 1 .. Len(a), Goes(a, p)
  PROVE  a[p].kind = "header" /\ NextHeader(a, p) \in p + 1 .. Len(a)
<1>1. Len(a) \in Nat
  BY DEF Archives
<1> QED  BY <1>1, BlockShapes DEF Goes, MoreAt

LEMMA WalkDefined ==
  ASSUME NEW a \in Archives
  PROVE  \E f : WalksFrom(f, a) /\ Walk(a) = f[1]
<1> DEFINE last == Len(a)
           here == [p \in 1 .. last |-> <<p>>]
           next == [p \in 1 .. last |-> IF Goes(a, p) THEN NextHeader(a, p) ELSE 0]
<1>1. last \in Nat
  BY DEF Archives
<1>2. \A p \in 1 .. last : Goes(a, p) => next[p] \in p + 1 .. last
  BY <1>1, GoesOn
<1>3. \A p \in 1 .. last : next[p] \in 1 .. last => next[p] \in p + 1 .. last
  BY <1>2
<1>4. PICK f : Ways(f, 1, last, here, next)
  <2> HIDE DEF last, here, next
  <2> QED  BY <1>1, <1>3, WaysExist
<1>5. WalksFrom(f, a)
  <2>1. ASSUME NEW p \in 1 .. last
        PROVE  here[p] \o (IF next[p] \in 1 .. last THEN f[next[p]] ELSE <<>>)
                 = <<p>> \o IF Goes(a, p) THEN f[NextHeader(a, p)] ELSE <<>>
    <3>1. CASE Goes(a, p)
      <4>1. next[p] \in 1 .. last /\ next[p] = NextHeader(a, p) /\ here[p] = <<p>>
        BY <1>1, <1>2, <3>1
      <4> HIDE DEF here, next, last
      <4> QED  BY <3>1, <4>1
    <3>2. CASE ~Goes(a, p)
      <4>1. next[p] \notin 1 .. last /\ here[p] = <<p>>
        BY <3>2
      <4> HIDE DEF here, next, last
      <4> QED  BY <3>2, <4>1
    <3> QED  BY <3>1, <3>2
  <2>2. f = [p \in 1 .. last |->
               here[p] \o (IF next[p] \in 1 .. last THEN f[next[p]] ELSE <<>>)]
    <3> HIDE DEF here, next, last
    <3> QED  BY <1>4, Zenon DEF Ways
  <2> HIDE DEF here, next
  <2>3. f = [p \in 1 .. last |-> <<p>> \o IF Goes(a, p) THEN f[NextHeader(a, p)] ELSE <<>>]
    <3> HIDE DEF last
    <3> QED  BY <2>1, <2>2
  <2> QED  BY <2>3 DEF WalksFrom, Goes
<1>6. WalksFrom(CHOOSE g : WalksFrom(g, a), a)
  BY <1>5, Zenon
<1>7. Walk(a) = (CHOOSE g : WalksFrom(g, a))[1]
  BY DEF Walk, WalksFrom
<1> QED  BY <1>6, <1>7

\* s is a walk from block p.
WalkFrom(a, p, s) ==
  /\ s \in Seq(1 .. Len(a)) /\ Len(s) >= 1 /\ s[1] = p
  /\ \A m \in 1 .. Len(s) - 1 : Goes(a, s[m]) /\ s[m + 1] = NextHeader(a, s[m])
  /\ ~Goes(a, s[Len(s)])

LEMMA WalkIs ==
  ASSUME NEW a \in Archives, a # <<>>
  PROVE  WalkFrom(a, 1, Walk(a))
<1>1. PICK f : WalksFrom(f, a) /\ Walk(a) = f[1]
  BY WalkDefined
<1> DEFINE last == Len(a)
           Good == {p \in 1 .. last : WalkFrom(a, p, f[p])}
<1>2. last \in Nat /\ 1 \in 1 .. last
  BY DEF Archives
<1>3. ASSUME NEW p \in 1 .. last, \A q \in p + 1 .. last : q \in Good  PROVE p \in Good
  <2>1. f[p] = <<p>> \o IF Goes(a, p) THEN f[NextHeader(a, p)] ELSE <<>>
    BY <1>1 DEF WalksFrom, Goes
  <2>2. CASE ~Goes(a, p)
    <3>1. f[p] = <<p>> /\ <<p>> \in Seq(1 .. Len(a)) /\ Len(<<p>>) = 1 /\ <<p>>[1] = p
      BY <2>1, <2>2
    <3>2. WalkFrom(a, p, f[p])
      BY <2>2, <3>1 DEF WalkFrom
    <3> QED  BY <3>2
  <2>3. CASE Goes(a, p)
    <3> DEFINE q == NextHeader(a, p)
               t == f[q]
               s == f[p]
    <3>1. q \in p + 1 .. last /\ q \in 1 .. last
      BY <1>2, <2>3, GoesOn
    <3>2. WalkFrom(a, q, t)
      BY <1>3, <3>1
    <3>3. t \in Seq(1 .. Len(a)) /\ s = <<p>> \o t
      BY <2>1, <2>3, <3>2 DEF WalkFrom
    <3> HIDE DEF s, t, q
    <3>4. /\ s \in Seq(1 .. Len(a)) /\ Len(s) = Len(t) + 1 /\ s[1] = p /\ Len(t) \in Nat
          /\ \A m \in 2 .. Len(s) : s[m] = t[m - 1]
      BY <3>1, <3>3
    <3>5. Len(t) >= 1 /\ t[1] = q
      BY <3>2 DEF WalkFrom
    <3>6. ASSUME NEW m \in 1 .. Len(s) - 1
          PROVE  Goes(a, s[m]) /\ s[m + 1] = NextHeader(a, s[m])
      <4>1. CASE m = 1
        <5>1. 2 \in 2 .. Len(s) /\ m + 1 = 2
          BY <3>4, <3>5, <4>1
        <5>2. s[2] = t[1]
          BY <3>4, <5>1
        <5> QED  BY <2>3, <3>4, <3>5, <4>1, <5>1, <5>2 DEF q
      <4>2. CASE m # 1
        <5>1. m \in 2 .. Len(s) /\ m + 1 \in 2 .. Len(s) /\ m - 1 \in 1 .. Len(t) - 1
              /\ m - 1 + 1 = m /\ m + 1 - 1 = m
          BY <3>4, <4>2
        <5>2. Goes(a, t[m - 1]) /\ t[m] = NextHeader(a, t[m - 1])
          BY <3>2, <5>1 DEF WalkFrom
        <5>3. s[m] = t[m - 1] /\ s[m + 1] = t[m + 1 - 1]
          BY <3>4, <5>1
        <5> QED  BY <5>1, <5>2, <5>3
      <4> QED  BY <4>1, <4>2
    <3>7. ~Goes(a, s[Len(s)])
      <4>1. s[Len(s)] = t[Len(t)]
        BY <3>4, <3>5
      <4> QED  BY <3>2, <4>1 DEF WalkFrom
    <3>8. WalkFrom(a, p, s)
      BY <3>4, <3>5, <3>6, <3>7 DEF WalkFrom
    <3> QED  BY <3>8 DEF s
  <2> QED  BY <2>2, <2>3
<1> HIDE DEF Good
<1>4. 1 \in Good
  BY <1>2, <1>3, Downward
<1> QED  BY <1>1, <1>4 DEF Good

\* In an archive that is as it should be the walk meets just the members.
LEMMA WalkMeetsMembers ==
  ASSUME NEW a \in Archives, Closed(a), Readable(a)
  PROVE  Walk(a) = Starts(a)
<1> DEFINE w == Walk(a)
           s == Starts(a)
<1>1. WalkFrom(a, 1, w) /\ a # <<>>
  BY WalkIs DEF Readable
<1>2. /\ WayFrom(a, 1, s) /\ s \in Seq(Nat \ {0}) /\ Len(s) \in Nat
      /\ End(a) = Stop(a, 1, s, Len(s))
  BY StartsAre DEF WayFrom
<1>3. /\ w \in Seq(1 .. Len(a)) /\ Len(w) \in Nat \ {0} /\ w[1] = 1 /\ Len(a) \in Nat
      /\ \A m \in 1 .. Len(w) : w[m] \in 1 .. Len(a) /\ a[w[m]].kind = "header"
  BY <1>1 DEF WalkFrom, Readable, Archives
<1>4. End(a) \in 1 .. Len(a) /\ a[End(a)] = Zero /\ ~MoreAt(a, End(a))
  <2>1. End(a) \in 1 .. Len(a) /\ a[End(a)] = Zero
    BY <1>3 DEF Closed
  <2>2. Zero.kind # "header" /\ \A b \in 1 .. 4 : Zero.bytes[b] = 0
    BY BlockAssumption DEF Zero
  <2> QED  BY <2>1, <2>2 DEF MoreAt
<1>5. ASSUME NEW m \in 1 .. Len(s)  PROVE MoreAt(a, s[m]) /\ a[s[m]].kind = "header"
  <2>1. Complete(a, s[m])
    BY <1>2 DEF WayFrom
  <2> QED  BY <2>1 DEF Complete, MoreAt
<1> HIDE DEF w, s
<1>6. Len(s) # 0
  <2>1. ASSUME Len(s) = 0  PROVE FALSE
    <3>1. End(a) = 1
      BY <1>2, <2>1 DEF Stop
    <3>2. a[1] = Zero /\ a[1].kind = "header"
      BY <1>3, <1>4, <3>1
    <3> QED  BY <3>2 DEF Zero
  <2> QED  BY <2>1
<1>7. ASSUME NEW m \in 1 .. Len(s) - 1  PROVE s[m + 1] = NextHeader(a, s[m])
  <2>1. m + 1 \in 1 .. Len(s) /\ m + 1 - 1 = m /\ m # 0
    BY <1>2
  <2>2. s[m + 1] = Stop(a, 1, s, m)
    BY <1>2, <2>1 DEF WayFrom
  <2> QED  BY <2>1, <2>2 DEF Stop
<1>8. s[1] = 1
  <2>1. 1 \in 1 .. Len(s) /\ 1 - 1 = 0
    BY <1>2, <1>6
  <2> QED  BY <1>2, <2>1 DEF WayFrom, Stop
<1> DEFINE Good == {m \in Nat : m + 1 <= Len(s) /\ w[m + 1] = s[m + 1]}
<1>9. 0 \in Good
  BY <1>2, <1>3, <1>6, <1>8
<1>10. ASSUME NEW m \in 0 .. (Len(w) - 1) - 1, m \in Good  PROVE m + 1 \in Good
  <2>1. m + 1 \in 1 .. Len(w) - 1 /\ m + 1 \in 1 .. Len(s) /\ w[m + 1] = s[m + 1]
    BY <1>2, <1>3, <1>10
  <2>2. Goes(a, w[m + 1]) /\ w[m + 1 + 1] = NextHeader(a, w[m + 1])
    BY <1>1, <2>1 DEF WalkFrom
  <2>3. MoreAt(a, NextHeader(a, s[m + 1]))
    BY <2>1, <2>2 DEF Goes
  <2>4. m + 1 # Len(s)
    <3>1. ASSUME m + 1 = Len(s)  PROVE FALSE
      <4>1. End(a) = NextHeader(a, s[m + 1])
        BY <1>2, <1>6, <3>1 DEF Stop
      <4> QED  BY <1>4, <2>3, <4>1
    <3> QED  BY <3>1
  <2>5. m + 1 \in 1 .. Len(s) - 1 /\ m + 1 + 1 <= Len(s)
    BY <1>2, <2>1, <2>4
  <2>6. s[m + 1 + 1] = NextHeader(a, s[m + 1])
    BY <1>7, <2>5
  <2> QED  BY <2>1, <2>2, <2>5, <2>6
<1> HIDE DEF Good
<1>11. \A m \in 0 .. Len(w) - 1 : m \in Good
  <2>1. Len(w) - 1 \in Nat
    BY <1>3
  <2> QED  BY <1>9, <1>10, <2>1, Upward
<1>12. \A m \in 1 .. Len(w) : m <= Len(s) /\ w[m] = s[m]
  <2>1. TAKE m \in 1 .. Len(w)
  <2>2. m - 1 \in 0 .. Len(w) - 1 /\ m - 1 + 1 = m
    BY <1>3
  <2>3. m - 1 \in Good
    BY <1>11, <2>2
  <2> QED  BY <2>2, <2>3 DEF Good
<1>13. Len(w) = Len(s)
  <2>1. Len(w) \in 1 .. Len(w) /\ Len(w) <= Len(s) /\ w[Len(w)] = s[Len(w)]
    BY <1>3, <1>12
  <2>2. ASSUME Len(w) < Len(s)  PROVE FALSE
    <3>1. Len(w) \in 1 .. Len(s) - 1 /\ Len(w) + 1 \in 1 .. Len(s)
      BY <1>2, <1>3, <2>2
    <3>2. MoreAt(a, NextHeader(a, w[Len(w)]))
      BY <1>5, <1>7, <2>1, <3>1
    <3>3. Goes(a, w[Len(w)])
      BY <1>3, <2>1, <3>2 DEF Goes
    <3> QED  BY <1>1, <3>3 DEF WalkFrom
  <2> QED  BY <1>2, <1>3, <2>1, <2>2
<1>14. w = s
  BY <1>2, <1>3, <1>12, <1>13, SeqEqual
<1> QED  BY <1>14 DEF w, s

-------------------------------------------------------------------------------
(* What extraction copies *)

LEMMA ReadableWalk ==
  ASSUME NEW a \in Archives, Readable(a)
  PROVE  /\ Walk(a) \in Seq(1 .. Len(a)) /\ Len(Walk(a)) \in Nat \ {0} /\ Walk(a)[1] = 1
         /\ Listing(a) \in Seq(Names) /\ Len(Listing(a)) = Len(Walk(a))
         /\ \A m \in 1 .. Len(Walk(a)) :
              /\ Walk(a)[m] \in 1 .. Len(a) /\ a[Walk(a)[m]].kind = "header"
              /\ Listing(a)[m] = a[Walk(a)[m]].name
              /\ \A x \in Walk(a)[m] + 1 .. NextHeader(a, Walk(a)[m]) - 1 :
                   x <= Len(a) => a[x].kind = "data"
              /\ m < Len(Walk(a)) => Walk(a)[m + 1] = NextHeader(a, Walk(a)[m])
<1> DEFINE w == Walk(a)
<1>1. /\ w \in Seq(1 .. Len(a)) /\ Len(w) \in Nat /\ Len(w) >= 1 /\ w[1] = 1
      /\ \A m \in 1 .. Len(w) - 1 : w[m + 1] = NextHeader(a, w[m])
  BY WalkIs DEF Readable, WalkFrom
<1>2. \A m \in 1 .. Len(w) :
        /\ w[m] \in 1 .. Len(a) /\ a[w[m]].kind = "header"
        /\ \A x \in w[m] + 1 .. NextHeader(a, w[m]) - 1 : x <= Len(a) => a[x].kind = "data"
  BY <1>1 DEF Readable
<1>3. Listing(a) = [m \in 1 .. Len(w) |-> a[w[m]].name]
  <2>1. DOMAIN w = 1 .. Len(w)
    <3> HIDE DEF w
    <3> QED  BY <1>1
  <2> QED  BY <2>1 DEF Listing
<1>4. \A m \in 1 .. Len(w) : a[w[m]].name \in Names
  BY <1>2, BlockShapes
<1> HIDE DEF w
<1>5. Listing(a) \in Seq(Names) /\ Len(Listing(a)) = Len(w)
  <2>1. Listing(a) \in [1 .. Len(w) -> Names]
    BY <1>3, <1>4
  <2> QED  BY <1>1, <2>1
<1>6. \A m \in 1 .. Len(w) : m < Len(w) => w[m + 1] = NextHeader(a, w[m])
  BY <1>1
<1> QED  BY <1>1, <1>2, <1>3, <1>5, <1>6 DEF w

\* Behind the end of an archive there are zeros.
BlockAt(a, p) == IF p <= Len(a) THEN a[p] ELSE Zero

\* The first bytes of the data behind the header at block p.
Data(a, p, size) ==
  [x \in 1 .. size |->
     BlockAt(a, p + 1 + (x - 1) \div BLOCK_SIZE).bytes[((x - 1) % BLOCK_SIZE) + 1]]

LEMMA BlocksOf ==
  ASSUME NEW i \in Nat
  PROVE  i * BLOCK_SIZE \in Nat /\ Blocks(i * BLOCK_SIZE) = i
         /\ (i + 1) * BLOCK_SIZE = i * BLOCK_SIZE + BLOCK_SIZE
<1> USE BlockAssumption
<1>1. i * BLOCK_SIZE \in Nat /\ i * BLOCK_SIZE = BLOCK_SIZE * i
      /\ (i + 1) * BLOCK_SIZE = i * BLOCK_SIZE + BLOCK_SIZE
  OBVIOUS
<1>2. i * BLOCK_SIZE + BLOCK_SIZE - 1 \in Nat /\ BLOCK_SIZE - 1 \in 0 .. BLOCK_SIZE - 1
      /\ i * BLOCK_SIZE + BLOCK_SIZE - 1 = BLOCK_SIZE * i + (BLOCK_SIZE - 1)
  BY <1>1
<1>3. (i * BLOCK_SIZE + BLOCK_SIZE - 1) \div BLOCK_SIZE = i
  BY <1>2, Divided
<1> QED  BY <1>1, <1>3 DEF Blocks

\* The blocks from p + 1 on hold bytes.
Held(a, p, blocks) == \A q \in 0 .. blocks - 1 : BlockAt(a, p + 1 + q) \in DataBlocks

LEMMA DataBytes ==
  ASSUME NEW a, NEW p \in Nat, NEW size \in Nat, Held(a, p, Blocks(size))
  PROVE  /\ Data(a, p, size) \in Seq(Bytes) /\ Len(Data(a, p, size)) = size
         /\ DOMAIN Data(a, p, size) = 1 .. size
<1>1. ASSUME NEW x \in 1 .. size
      PROVE  BlockAt(a, p + 1 + (x - 1) \div BLOCK_SIZE).bytes[((x - 1) % BLOCK_SIZE) + 1]
               \in Bytes
  <2>1. PICK q \in 0 .. Blocks(size) - 1, r \in 1 .. BLOCK_SIZE :
          q = (x - 1) \div BLOCK_SIZE /\ r = ((x - 1) % BLOCK_SIZE) + 1
    BY ByteAt
  <2>2. BlockAt(a, p + 1 + q) \in DataBlocks
    BY <2>1 DEF Held
  <2>3. BlockAt(a, p + 1 + q).bytes \in [1 .. BLOCK_SIZE -> Bytes]
    BY <2>2 DEF DataBlocks
  <2> QED  BY <2>1, <2>3
<1>2. Data(a, p, size) \in [1 .. size -> Bytes]
  BY <1>1 DEF Data
<1> QED  BY <1>2

\* A block more.
LEMMA DataGrows ==
  ASSUME NEW a, NEW p \in Nat, NEW i \in Nat, Held(a, p, i + 1)
  PROVE  Data(a, p, (i + 1) * BLOCK_SIZE)
           = Data(a, p, i * BLOCK_SIZE) \o BlockAt(a, p + 1 + i).bytes
<1> USE BlockAssumption
<1> DEFINE n == i * BLOCK_SIZE
           c == Data(a, p, n)
           d == Data(a, p, n + BLOCK_SIZE)
           e == BlockAt(a, p + 1 + i).bytes
<1>1. n \in Nat /\ Blocks(n) = i /\ (i + 1) * BLOCK_SIZE = n + BLOCK_SIZE
      /\ Blocks(n + BLOCK_SIZE) = i + 1
  <2>1. i + 1 \in Nat
    OBVIOUS
  <2> QED  BY <2>1, BlocksOf
<1>2. c \in Seq(Bytes) /\ Len(c) = n /\ DOMAIN c = 1 .. n
  <2>1. Held(a, p, i)
    BY DEF Held
  <2> HIDE DEF n
  <2> QED  BY <1>1, <2>1, DataBytes
<1>3. d \in Seq(Bytes) /\ Len(d) = n + BLOCK_SIZE
  <2>1. n + BLOCK_SIZE \in Nat
    BY <1>1
  <2> HIDE DEF n
  <2> QED  BY <1>1, <2>1, DataBytes
<1>4. e \in [1 .. BLOCK_SIZE -> Bytes] /\ e \in Seq(Bytes) /\ Len(e) = BLOCK_SIZE
  <2>1. BlockAt(a, p + 1 + i) \in DataBlocks
    BY DEF Held
  <2>2. e \in [1 .. BLOCK_SIZE -> Bytes]
    BY <2>1 DEF DataBlocks
  <2> HIDE DEF e
  <2> QED  BY <2>2
<1>5. ASSUME NEW x \in 1 .. n  PROVE d[x] = c[x]
  BY <1>1 DEF Data
<1>6. ASSUME NEW x \in 1 .. BLOCK_SIZE  PROVE d[n + x] = e[x]
  <2>1. PICK y \in 1 .. n + BLOCK_SIZE, r \in 0 .. BLOCK_SIZE - 1 : y = n + x /\ r = x - 1
    BY <1>1
  <2>2. y - 1 \in Nat /\ y - 1 = BLOCK_SIZE * i + r
    BY <1>1, <2>1
  <2>3. (y - 1) \div BLOCK_SIZE = i /\ (y - 1) % BLOCK_SIZE = r
    BY <2>2, Divided
  <2>4. d[y] = BlockAt(a, p + 1 + (y - 1) \div BLOCK_SIZE).bytes[((y - 1) % BLOCK_SIZE) + 1]
    BY DEF Data
  <2>5. d[y] = e[r + 1] /\ r + 1 = x
    BY <2>1, <2>3, <2>4
  <2> HIDE DEF d, e
  <2> QED  BY <2>1, <2>5
<1> HIDE DEF n, c, d, e
<1>7. d = c \o e
  <2>1. c \o e \in Seq(Bytes) /\ Len(c \o e) = n + BLOCK_SIZE
    BY <1>1, <1>2, <1>4
  <2>2. ASSUME NEW x \in 1 .. n + BLOCK_SIZE  PROVE d[x] = (c \o e)[x]
    <3>1. CASE x <= n
      <4>1. x \in 1 .. n
        BY <1>1, <3>1
      <4> QED  BY <1>1, <1>2, <1>4, <1>5, <4>1
    <3>2. CASE ~(x <= n)
      <4>1. PICK y \in 1 .. BLOCK_SIZE : x = n + y
        <5>1. x - n \in 1 .. BLOCK_SIZE /\ x = n + (x - n)
          BY <1>1, <3>2
        <5> QED  BY <5>1
      <4>2. (c \o e)[x] = e[x - n] /\ x - n = y
        BY <1>1, <1>2, <1>4, <3>2, <4>1
      <4> QED  BY <1>6, <4>1, <4>2
    <3> QED  BY <3>1, <3>2
  <2> QED  BY <1>3, <2>1, <2>2, SeqEqual
<1> QED  BY <1>1, <1>7 DEF c, d, e, n

\* What is trimmed is what the last block has too many.
LEMMA TrimsToSize ==
  ASSUME NEW a, NEW p \in Nat, NEW size \in Nat, Held(a, p, Blocks(size))
  PROVE  Trimmed(Data(a, p, Blocks(size) * BLOCK_SIZE), size) = Data(a, p, size)
<1> USE BlockAssumption
<1> DEFINE n == Blocks(size) * BLOCK_SIZE
           c == Data(a, p, n)
           d == Data(a, p, size)
           r == size % BLOCK_SIZE
<1>1. /\ Blocks(size) \in Nat /\ r \in 0 .. BLOCK_SIZE - 1
      /\ n = IF r = 0 THEN size ELSE size + (BLOCK_SIZE - r)
  BY BlocksFill
<1>2. n \in Nat /\ Blocks(n) = Blocks(size)
  BY <1>1, BlocksOf
<1>3. c \in Seq(Bytes) /\ Len(c) = n
  <2> HIDE DEF n
  <2> QED  BY <1>2, DataBytes
<1>4. d \in Seq(Bytes) /\ Len(d) = size
  BY DataBytes
<1>5. \A x \in 1 .. size : x \in 1 .. n => d[x] = c[x]
  <2> HIDE DEF n
  <2> QED  BY DEF Data
<1>6. Trimmed(c, size) = IF r = 0 THEN c ELSE SubSeq(c, 1, Len(c) - (BLOCK_SIZE - r))
  BY DEF Trimmed
<1> HIDE DEF c, d, n, r
<1>7. CASE r = 0
  <2>1. n = size
    BY <1>1, <1>7
  <2>2. Trimmed(c, size) = d
    BY <1>3, <1>4, <1>5, <1>6, <1>7, <2>1, SeqEqual
  <2> QED  BY <2>2 DEF c, d, n
<1>8. CASE r # 0
  <2>1. Trimmed(c, size) = SubSeq(c, 1, size) /\ size <= n
    <3>1. Len(c) - (BLOCK_SIZE - r) = size /\ size <= n
      BY <1>1, <1>3, <1>8
    <3> QED  BY <1>6, <1>8, <3>1
  <2>2. SubSeq(c, 1, size) \in Seq(Bytes) /\ Len(SubSeq(c, 1, size)) = size
        /\ \A x \in 1 .. size : SubSeq(c, 1, size)[x] = c[x]
    <3>1. \A x \in 1 .. size : c[x] \in Bytes
      BY <1>2, <1>3, <2>1
    <3>2. size \in Int /\ 1 \in Int
      OBVIOUS
    <3>3. /\ SubSeq(c, 1, size) \in Seq(Bytes)
          /\ Len(SubSeq(c, 1, size)) = IF 1 <= size THEN size - 1 + 1 ELSE 0
          /\ \A x \in 1 .. size - 1 + 1 : SubSeq(c, 1, size)[x] = c[1 + x - 1]
      BY <3>1, <3>2, SubSeqProperties
    <3>4. (IF 1 <= size THEN size - 1 + 1 ELSE 0) = size /\ size - 1 + 1 = size
      OBVIOUS
    <3> QED  BY <3>3, <3>4
  <2>3. \A x \in 1 .. size : d[x] = c[x]
    BY <1>2, <1>5, <2>1
  <2>4. Trimmed(c, size) = d
    BY <1>4, <2>1, <2>2, <2>3, SeqEqual
  <2> QED  BY <2>4 DEF c, d, n
<1> QED  BY <1>7, <1>8

\* The walk takes only bytes for data.
LEMMA WalkHeld ==
  ASSUME NEW a \in Archives, Readable(a), NEW m \in 1 .. Len(Walk(a))
  PROVE  /\ Held(a, Walk(a)[m], Blocks(HeaderSize(a[Walk(a)[m]])))
         /\ HeaderSize(a[Walk(a)[m]]) \in Nat
         /\ FitsField(HeaderSize(a[Walk(a)[m]]))
         /\ NextHeader(a, Walk(a)[m]) = Walk(a)[m] + 1 + Blocks(HeaderSize(a[Walk(a)[m]]))
<1> DEFINE p == Walk(a)[m]
<1>1. /\ p \in 1 .. Len(a) /\ a[p].kind = "header" /\ Len(a) \in Nat
      /\ \A x \in p + 1 .. NextHeader(a, p) - 1 : x <= Len(a) => a[x].kind = "data"
  BY ReadableWalk DEF Archives
<1> HIDE DEF p
<1>2. /\ HeaderSize(a[p]) \in Nat /\ FitsField(HeaderSize(a[p]))
      /\ NextHeader(a, p) = p + 1 + Blocks(HeaderSize(a[p]))
  BY <1>1, BlockShapes
<1>3. Blocks(HeaderSize(a[p])) \in Nat
  BY <1>2, BlocksFill
<1>4. ASSUME NEW q \in 0 .. Blocks(HeaderSize(a[p])) - 1
      PROVE  BlockAt(a, p + 1 + q) \in DataBlocks
  <2>1. CASE p + 1 + q <= Len(a)
    <3>1. p + 1 + q \in p + 1 .. NextHeader(a, p) - 1 /\ p + 1 + q \in 1 .. Len(a)
      BY <1>1, <1>2, <1>3, <2>1
    <3>2. a[p + 1 + q].kind = "data" /\ a[p + 1 + q] \in DataBlocks \cup HeaderBlocks
      BY <1>1, <2>1, <3>1 DEF Archives
    <3> QED  BY <2>1, <3>2 DEF BlockAt, HeaderBlocks
  <2>2. CASE ~(p + 1 + q <= Len(a))
    BY <2>2 DEF BlockAt, Zero, DataBlocks, Bytes
  <2> QED  BY <2>1, <2>2
<1> QED  BY <1>2, <1>4 DEF Held, p

-------------------------------------------------------------------------------
(* What always holds: types, where a command is, and what extraction has read *)

Stages == {"idle", "header", "stat", "data", "footer", "open", "copy"}

TypeOK ==
  /\ archive \in Archives
  /\ disk \in [Names -> Seq(Bytes)]
  /\ damaged \in BOOLEAN
  /\ stage \in Stages
  /\ files \in Seq(Names)
  /\ src_size \in Nat /\ pos \in Nat /\ k \in Nat /\ j \in Nat

\* A command is at one of its files or behind the last, and at one of the blocks of the
\* file or behind the last.
Cursor ==
  /\ stage \in {"open", "copy"} <=> op = "extract"
  /\ stage \in {"header", "stat", "data"} => k < Len(files)
  /\ stage \in {"idle", "header", "stat"} => j = 0
  /\ stage = "data" => j <= Blocks(src_size)
  /\ stage = "footer" => j <= 2

\* Every file fits the size field of a header, but for the one that extraction has not
\* trimmed yet.
Fits ==
  \A n \in Names : FitsField(Len(disk[n])) \/ (stage = "copy" /\ n = files[k + 1])

\* Extraction follows the walk, and the file it writes holds the blocks it has read.
Opening(a, fs, p, i) ==
  /\ Readable(a) /\ fs = Listing(a)
  /\ i <= Len(fs)
  /\ i < Len(fs) => p = Walk(a)[i + 1]

Copying(a, content, fs, size, p, i, blocks) ==
  /\ Readable(a) /\ fs = Listing(a)
  /\ i < Len(fs)
  /\ size = HeaderSize(a[Walk(a)[i + 1]]) /\ blocks <= Blocks(size)
  /\ p = Walk(a)[i + 1] + 1 + blocks
  /\ content = Data(a, Walk(a)[i + 1], blocks * BLOCK_SIZE)

Reading ==
  /\ stage = "open" => Opening(archive, files, pos, k)
  /\ stage = "copy" => Copying(archive, disk[files[k + 1]], files, src_size, pos, k, j)

Orderly == TypeOK /\ Cursor /\ Fits /\ Reading

LEMMA StrippedType ==
  ASSUME NEW a \in Archives
  PROVE  Stripped(a) \in Archives
<1>1. CASE Len(a) < 2
  BY <1>1 DEF Stripped
<1>2. CASE ~(Len(a) < 2)
  <2> DEFINE S == DataBlocks \cup HeaderBlocks
             n == Len(a) - 2
  <2>1. a \in Seq(S) /\ n \in Int /\ 1 \in Int /\ \A x \in 1 .. n : a[x] \in S
    BY <1>2 DEF Archives
  <2>2. Stripped(a) = SubSeq(a, 1, n)
    BY <1>2 DEF Stripped
  <2> HIDE DEF S, n
  <2>3. SubSeq(a, 1, n) \in Seq(S)
    BY <2>1, SubSeqProperties
  <2> QED  BY <2>2, <2>3 DEF S, Archives
<1> QED  BY <1>1, <1>2

LEMMA WrittenTypes ==
  /\ Zero \in DataBlocks
  /\ \A c \in Seq(Bytes) : \A b \in Nat : DataBlock(c, b) \in DataBlocks
<1>1. Zero \in DataBlocks
  BY DEF Zero, DataBlocks, Bytes
<1>2. ASSUME NEW c \in Seq(Bytes), NEW b \in Nat  PROVE DataBlock(c, b) \in DataBlocks
  <2>1. ASSUME NEW x \in 1 .. BLOCK_SIZE, b * BLOCK_SIZE + x <= Len(c)
        PROVE  c[b * BLOCK_SIZE + x] \in Bytes
    <3>1. b * BLOCK_SIZE \in Nat
      BY BlockAssumption
    <3>2. b * BLOCK_SIZE + x \in 1 .. Len(c)
      BY <2>1, <3>1
    <3> QED  BY <3>2
  <2>2. 0 \in Bytes
    BY DEF Bytes
  <2> QED  BY <2>1, <2>2 DEF DataBlock, DataBlocks
<1> QED  BY <1>1, <1>2

LEMMA HeaderType ==
  ASSUME TypeOK, NEW n \in Names
  PROVE  /\ PartHeader(n) \in HeaderBlocks
         /\ FitsField(Len(disk[n])) =>
              Header(n) \in HeaderBlocks /\ HeaderSize(Header(n)) = Len(disk[n])
<1>1. Len(disk[n]) \in Nat
  BY DEF TypeOK
<1>2. ASSUME FitsField(Len(disk[n]))
      PROVE  Octal(Len(disk[n])) \in Octals /\ SizeFromOctal(Octal(Len(disk[n]))) = Len(disk[n])
  BY <1>1, <1>2, OctalRead DEF FitsField
<1>3. PartHeader(n) \in HeaderBlocks
  BY BlanksRead DEF PartHeader, HeaderBlocks
<1>4. FitsField(Len(disk[n])) =>
        Header(n) \in HeaderBlocks /\ HeaderSize(Header(n)) = Len(disk[n])
  BY <1>2 DEF Header, HeaderBlocks, HeaderSize
<1> QED  BY <1>3, <1>4

LEMMA OrderlyInit == TarInit => Orderly
<1> SUFFICES ASSUME TarInit PROVE Orderly
  OBVIOUS
<1>1. disk \in [Names -> Seq(Bytes)] /\ \A n \in Names : FitsField(Len(disk[n]))
  BY ContentsAssumption, BlockAssumption DEF TarInit, Bytes, FitsField, INT_MAX
<1>2. <<>> \in Archives /\ <<>> \in Seq(Names)
  BY NoMembers
<1>3. TypeOK
  BY <1>1, <1>2 DEF TarInit, TypeOK, Stages
<1> QED  BY <1>1, <1>3 DEF TarInit, Orderly, Cursor, Fits, Reading

LEMMA EditOrderly ==
  ASSUME Orderly, NEW n \in Names, NEW c \in Contents, Edit(n, c)
  PROVE  Orderly'
<1>1. c \in Seq(Bytes) /\ FitsField(Len(c))
  BY ContentsAssumption, BlockAssumption DEF Bytes, FitsField, INT_MAX
<1>2. disk' = [disk EXCEPT ![n] = c] /\ stage \in {"idle", "stat"}
      /\ damaged' \in BOOLEAN
      /\ UNCHANGED <<archive, stage, op, files, src_size, pos, k, j>>
  BY DEF Edit, Orderly, TypeOK
<1>3. TypeOK'
  BY <1>1, <1>2 DEF Orderly, TypeOK
<1>4. Cursor' /\ Reading'
  BY <1>2 DEF Orderly, Cursor, Reading
<1>5. Fits'
  BY <1>1, <1>2 DEF Orderly, Fits, TypeOK
<1> QED  BY <1>3, <1>4, <1>5 DEF Orderly

\* A command starts to write, or ends.
LEMMA StartOrderly ==
  ASSUME Orderly, NEW label, NEW name, NEW list, Start(label, name, list),
         \/ /\ label = IF list = <<>> THEN "footer" ELSE "header"
            /\ name \in {"create", "append"} /\ list \in FileLists
         \/ label = "idle" /\ name = "create" /\ list = <<>>,
         archive' \in Archives, damaged' \in BOOLEAN, UNCHANGED disk,
         stage # "copy"
  PROVE  Orderly'
<1>1. list \in Seq(Names) /\ (label = "header" => Len(list) \in Nat \ {0})
  <2>1. CASE list \in FileLists
    <3>1. list \in Seq(Names) /\ (list # <<>> => Len(list) \in Nat \ {0})
      BY <2>1, ListsAssumption
    <3>2. label = "header" => list # <<>>
      OBVIOUS
    <3> QED  BY <3>1, <3>2
  <2>2. CASE label = "idle" /\ list = <<>>
    BY <2>2
  <2> QED  BY <2>1, <2>2
<1>2. /\ stage' = label /\ op' = name /\ files' = list
      /\ src_size' = 0 /\ pos' = 1 /\ k' = 0 /\ j' = 0
  BY DEF Start
<1>3. TypeOK'
  BY <1>1, <1>2 DEF Orderly, TypeOK, Stages
<1>4. Cursor' /\ Reading'
  BY <1>1, <1>2 DEF Cursor, Reading
<1>5. Fits'
  BY DEF Orderly, Fits
<1> QED  BY <1>3, <1>4, <1>5 DEF Orderly

\* A step of a command that writes and leaves the files alone.
LEMMA WriteOrderly ==
  ASSUME Orderly, archive' \in Archives, damaged' \in BOOLEAN,
         stage \in {"header", "stat", "data", "footer"},
         stage' \in {"header", "stat", "data", "footer"},
         src_size' \in Nat, k' \in Nat, j' \in Nat,
         UNCHANGED <<disk, op, files, pos>>, Cursor'
  PROVE  Orderly'
<1>1. TypeOK'
  BY DEF Orderly, TypeOK, Stages
<1>2. Fits' /\ Reading'
  BY DEF Orderly, Fits, Reading
<1> QED  BY <1>1, <1>2 DEF Orderly

LEMMA WriteStepsOrderly ==
  ASSUME Orderly,
         \/ WriteHeader \/ WritePartHeader \/ StatAgain \/ WriteBlock \/ NextFile
         \/ WriteFooter \/ FooterLost
  PROVE  Orderly'
<1>1. /\ archive \in Archives /\ k \in Nat /\ j \in Nat /\ src_size \in Nat
      /\ Blocks(src_size) \in Nat /\ damaged \in BOOLEAN /\ files \in Seq(Names)
  BY BlocksFill DEF Orderly, TypeOK
<1>2. ASSUME NEW block \in DataBlocks \cup HeaderBlocks, archive' = Append(archive, block)
      PROVE  archive' \in Archives
  BY <1>1, <1>2 DEF Archives
<1>3. ASSUME k < Len(files)
      PROVE  files[k + 1] \in Names /\ disk[files[k + 1]] \in Seq(Bytes)
  BY <1>1, <1>3 DEF Orderly, TypeOK
<1>4. CASE WriteHeader
  <2>1. files[k + 1] \in Names /\ FitsField(Len(disk[files[k + 1]]))
    BY <1>3, <1>4 DEF WriteHeader, Orderly, Fits
  <2>2. Header(files[k + 1]) \in HeaderBlocks
    BY <2>1, HeaderType DEF Orderly
  <2>3. archive' \in Archives
    BY <1>2, <1>4, <2>2 DEF WriteHeader
  <2>4. Cursor'
    BY <1>4 DEF WriteHeader, Orderly, Cursor
  <2> QED  BY <1>1, <1>4, <2>3, <2>4, WriteOrderly DEF WriteHeader
<1>10. CASE WritePartHeader
  <2>1. PartHeader(files[k + 1]) \in HeaderBlocks
    BY <1>3, <1>10, HeaderType DEF WritePartHeader, Orderly
  <2>2. archive' \in Archives
    BY <1>2, <1>10, <2>1 DEF WritePartHeader
  <2>3. Cursor'
    BY <1>10 DEF WritePartHeader, Orderly, Cursor
  <2> QED  BY <1>1, <1>10, <2>2, <2>3, WriteOrderly DEF WritePartHeader
<1>5. CASE StatAgain
  <2>1. src_size' \in Nat
    BY <1>3, <1>5 DEF StatAgain, Orderly, Cursor
  <2>2. Blocks(src_size') \in Nat
    BY <2>1, BlocksFill
  <2>3. j = 0 /\ op # "extract" /\ k < Len(files)
    BY <1>5 DEF StatAgain, Orderly, Cursor
  <2>4. stage' = "data" /\ UNCHANGED <<op, files, k, j>>
    BY <1>5 DEF StatAgain
  <2>5. Cursor'
    BY <2>2, <2>3, <2>4 DEF Cursor
  <2> QED  BY <1>1, <1>5, <2>1, <2>5, WriteOrderly DEF StatAgain
<1>6. CASE WriteBlock
  <2>1. disk[files[k + 1]] \in Seq(Bytes)
    BY <1>3, <1>6 DEF WriteBlock, Orderly, Cursor
  <2>2. archive' \in Archives
    BY <1>1, <1>2, <1>6, <2>1, WrittenTypes DEF WriteBlock
  <2>3. j' \in Nat /\ j' <= Blocks(src_size)
    BY <1>1, <1>6 DEF WriteBlock
  <2>4. Cursor'
    BY <1>6, <2>3 DEF WriteBlock, Orderly, Cursor
  <2> QED  BY <1>1, <1>6, <2>2, <2>3, <2>4, WriteOrderly DEF WriteBlock
<1>7. CASE NextFile
  <2>1. Cursor' /\ stage' \in {"header", "footer"}
    BY <1>1, <1>7 DEF NextFile, Orderly, Cursor
  <2> QED  BY <1>1, <1>7, <2>1, WriteOrderly DEF NextFile
<1>8. CASE WriteFooter
  <2>1. archive' \in Archives
    BY <1>2, <1>8, WrittenTypes DEF WriteFooter
  <2>2. Cursor'
    BY <1>1, <1>8 DEF WriteFooter, Orderly, Cursor
  <2> QED  BY <1>1, <1>8, <2>1, <2>2, WriteOrderly DEF WriteFooter
<1>9. CASE FooterLost
  <2>1. Cursor'
    BY <1>1, <1>9 DEF FooterLost, Orderly, Cursor
  <2> QED  BY <1>1, <1>9, <2>1, WriteOrderly DEF FooterLost
<1> QED  BY <1>4, <1>5, <1>6, <1>7, <1>8, <1>9, <1>10

LEMMA StartsOrderly ==
  ASSUME Orderly, NEW fs \in FileLists, Create(fs) \/ AppendFiles(fs) \/ Update(fs)
  PROVE  Orderly'
<1>1. <<>> \in Archives /\ Stripped(archive) \in Archives /\ damaged \in BOOLEAN
  BY NoMembers, StrippedType DEF Orderly, TypeOK
<1>2. CASE Create(fs)
  <2>1. archive' \in Archives /\ damaged' \in BOOLEAN /\ UNCHANGED disk
        /\ Start(IF fs = <<>> THEN "footer" ELSE "header", "create", fs) /\ stage # "copy"
    BY <1>1, <1>2 DEF Create, Command, StartWriting
  <2> QED  BY <2>1, StartOrderly
<1>3. ASSUME Appends(fs), stage = "idle"  PROVE Orderly'
  <2>1. archive' \in Archives /\ damaged' \in BOOLEAN /\ UNCHANGED disk
        /\ Start(IF fs = <<>> THEN "footer" ELSE "header", "append", fs) /\ stage # "copy"
    BY <1>1, <1>3 DEF Appends, StartWriting
  <2> QED  BY <2>1, StartOrderly
<1>4. CASE AppendFiles(fs)
  BY <1>3, <1>4 DEF AppendFiles, Command
<1>5. CASE Update(fs)
  <2>1. CASE Appends(fs)
    BY <1>3, <1>5, <2>1 DEF Update, Command
  <2>2. CASE UNCHANGED <<archive, disk, damaged, stage, op, files, src_size, pos, k, j>>
    BY <2>2 DEF Orderly, TypeOK, Cursor, Fits, Reading
  <2> QED  BY <1>5, <2>1, <2>2 DEF Update
<1> QED  BY <1>2, <1>4, <1>5

LEMMA EndsOrderly ==
  ASSUME Orderly, WritesDone \/ WriteFails \/ Killed \/ Extracted
  PROVE  Orderly'
<1>1. Start("idle", "create", <<>>) /\ UNCHANGED <<archive, disk>> /\ damaged' \in BOOLEAN
      /\ stage # "copy"
  BY DEF WritesDone, WriteFails, Killed, Extracted, Finished, Orderly, TypeOK, Cursor
<1>2. archive' \in Archives
  BY <1>1 DEF Orderly, TypeOK
<1> QED  BY <1>1, <1>2, StartOrderly

LEMMA ExtractOrderly ==
  ASSUME Orderly, Extract
  PROVE  Orderly'
<1>1. /\ stage = "idle" /\ Readable(archive)
      /\ stage' = "open" /\ op' = "extract" /\ files' = Listing(archive)
      /\ src_size' = 0 /\ pos' = 1 /\ k' = 0 /\ j' = 0
      /\ UNCHANGED <<archive, disk, damaged>>
  BY DEF Extract, Command, Start
<1>2. /\ Listing(archive) \in Seq(Names) /\ Len(Listing(archive)) \in Nat \ {0}
      /\ Walk(archive)[1] = 1
  BY <1>1, ReadableWalk DEF Orderly, TypeOK
<1>3. TypeOK'
  BY <1>1, <1>2 DEF Orderly, TypeOK, Stages
<1>4. Cursor' /\ Fits'
  BY <1>1 DEF Orderly, Cursor, Fits
<1>5. Opening(archive, Listing(archive), 1, 0)
  BY <1>1, <1>2 DEF Opening
<1>6. Reading'
  BY <1>1, <1>5 DEF Reading
<1> QED  BY <1>3, <1>4, <1>6 DEF Orderly

\* What is true of the file that extraction is at.
LEMMA AtFile ==
  ASSUME Orderly, stage \in {"open", "copy"}, k < Len(files)
  PROVE  LET p == Walk(archive)[k + 1] IN
         /\ p \in 1 .. Len(archive) /\ Len(archive) \in Nat
         /\ HeaderSize(archive[p]) \in Nat /\ FitsField(HeaderSize(archive[p]))
         /\ Blocks(HeaderSize(archive[p])) \in Nat
         /\ Held(archive, p, Blocks(HeaderSize(archive[p])))
         /\ NextHeader(archive, p) = p + 1 + Blocks(HeaderSize(archive[p]))
         /\ k + 1 < Len(files) => Walk(archive)[k + 1 + 1] = NextHeader(archive, p)
         /\ files[k + 1] \in Names /\ files[k + 1] = archive[p].name
         /\ Len(files) \in Nat /\ k \in Nat
<1>1. Readable(archive) /\ files = Listing(archive)
  BY DEF Orderly, Reading, Opening, Copying
<1>2. archive \in Archives /\ k \in Nat /\ files \in Seq(Names)
  BY DEF Orderly, TypeOK
<1>3. Len(Listing(archive)) = Len(Walk(archive)) /\ Len(Walk(archive)) \in Nat
  BY <1>1, <1>2, ReadableWalk
<1>4. k + 1 \in 1 .. Len(Walk(archive))
  BY <1>1, <1>2, <1>3
<1>5. PICK m \in 1 .. Len(Walk(archive)) : m = k + 1
  BY <1>4
<1>6. /\ Walk(archive)[m] \in 1 .. Len(archive)
      /\ Listing(archive)[m] = archive[Walk(archive)[m]].name
      /\ m < Len(Walk(archive)) => Walk(archive)[m + 1] = NextHeader(archive, Walk(archive)[m])
  BY <1>1, <1>2, ReadableWalk
<1>7. /\ Held(archive, Walk(archive)[m], Blocks(HeaderSize(archive[Walk(archive)[m]])))
      /\ HeaderSize(archive[Walk(archive)[m]]) \in Nat
      /\ FitsField(HeaderSize(archive[Walk(archive)[m]]))
      /\ NextHeader(archive, Walk(archive)[m])
           = Walk(archive)[m] + 1 + Blocks(HeaderSize(archive[Walk(archive)[m]]))
  BY <1>1, <1>2, WalkHeld
<1>8. Blocks(HeaderSize(archive[Walk(archive)[m]])) \in Nat
  BY <1>7, BlocksFill
<1>9. files[k + 1] \in Names /\ Len(archive) \in Nat /\ Len(files) \in Nat
  BY <1>2 DEF Archives
<1> QED  BY <1>1, <1>2, <1>3, <1>5, <1>6, <1>7, <1>8, <1>9

LEMMA OpenFileOrderly ==
  ASSUME Orderly, OpenFile
  PROVE  Orderly'
<1> DEFINE p == Walk(archive)[k + 1]
           f == files[k + 1]
<1>1. stage = "open" /\ k < Len(files) /\ Opening(archive, files, pos, k)
  BY DEF OpenFile, Orderly, Reading
<1>2. /\ Readable(archive) /\ files = Listing(archive) /\ pos = p
  BY <1>1 DEF Opening
<1>3. /\ p \in 1 .. Len(archive) /\ f \in Names /\ Len(archive) \in Nat
      /\ HeaderSize(archive[p]) \in Nat /\ Blocks(HeaderSize(archive[p])) \in Nat
  BY <1>1, AtFile
<1>4. /\ disk' = [disk EXCEPT ![f] = <<>>]
      /\ src_size' = HeaderSize(archive[p]) /\ pos' = p + 1
      /\ stage' = "copy" /\ j' = 0
      /\ UNCHANGED <<archive, damaged, op, files, k>>
  BY <1>2 DEF OpenFile
<1> HIDE DEF p, f
<1>5. TypeOK'
  <2>1. disk' \in [Names -> Seq(Bytes)]
    BY <1>3, <1>4 DEF Orderly, TypeOK
  <2>2. pos' \in Nat
    BY <1>3, <1>4
  <2> QED  BY <1>3, <1>4, <2>1, <2>2 DEF Orderly, TypeOK, Stages
<1>6. Cursor'
  BY <1>1, <1>4 DEF Orderly, Cursor
<1>7. Fits'
  <2>1. \A n \in Names : n # f => disk'[n] = disk[n]
    BY <1>3, <1>4 DEF Orderly, TypeOK
  <2>2. \A n \in Names : FitsField(Len(disk[n]))
    BY <1>1 DEF Orderly, Fits
  <2> QED  BY <1>4, <2>1, <2>2 DEF Fits, f
<1>8. Copying(archive, disk'[f], files, src_size', pos', k, 0)
  <2>1. disk'[f] = <<>>
    BY <1>3, <1>4 DEF Orderly, TypeOK
  <2>2. Data(archive, p, 0 * BLOCK_SIZE) = <<>>
    <3>1. 0 * BLOCK_SIZE = 0 /\ 1 .. 0 = {}
      BY BlockAssumption
    <3>2. Data(archive, p, 0) = <<>>
      BY <3>1 DEF Data
    <3> QED  BY <3>1, <3>2
  <2>3. 0 <= Blocks(src_size') /\ pos' = p + 1 + 0
    BY <1>3, <1>4
  <2> QED  BY <1>1, <1>2, <1>4, <2>1, <2>2, <2>3 DEF Copying, p
<1>9. Reading'
  BY <1>4, <1>8 DEF Reading, f
<1> QED  BY <1>5, <1>6, <1>7, <1>9 DEF Orderly

LEMMA CopyBlockOrderly ==
  ASSUME Orderly, CopyBlock
  PROVE  Orderly'
<1> DEFINE p == Walk(archive)[k + 1]
           f == files[k + 1]
           block == BlockAt(archive, pos)
<1>1. /\ stage = "copy" /\ Copying(archive, disk[f], files, src_size, pos, k, j)
      /\ j < Blocks(src_size)
  BY DEF CopyBlock, Orderly, Reading
<1>2. /\ Readable(archive) /\ files = Listing(archive) /\ k < Len(files)
      /\ src_size = HeaderSize(archive[p]) /\ pos = p + 1 + j
      /\ disk[f] = Data(archive, p, j * BLOCK_SIZE)
  BY <1>1 DEF Copying
<1>3. /\ p \in 1 .. Len(archive) /\ f \in Names /\ Len(archive) \in Nat
      /\ Blocks(src_size) \in Nat /\ Held(archive, p, Blocks(src_size))
      /\ j \in Nat /\ pos \in Nat /\ p \in Nat
  BY <1>1, <1>2, AtFile DEF Orderly, TypeOK
<1>4. /\ disk' = [disk EXCEPT ![f] = @ \o block.bytes]
      /\ pos' = pos + 1 /\ j' = j + 1
      /\ UNCHANGED <<archive, damaged, stage, op, files, src_size, k>>
  BY DEF CopyBlock, BlockAt
<1> HIDE DEF p, f, block
<1>5. Held(archive, p, j + 1)
  <2>1. \A q \in 0 .. (j + 1) - 1 : q \in 0 .. Blocks(src_size) - 1
    BY <1>1, <1>3
  <2> QED  BY <1>3, <2>1 DEF Held
<1>6. disk'[f] = Data(archive, p, (j + 1) * BLOCK_SIZE)
  <2>1. disk'[f] = disk[f] \o block.bytes
    BY <1>3, <1>4 DEF Orderly, TypeOK
  <2>2. block = BlockAt(archive, p + 1 + j)
    BY <1>2 DEF block
  <2>3. Data(archive, p, (j + 1) * BLOCK_SIZE)
          = Data(archive, p, j * BLOCK_SIZE) \o BlockAt(archive, p + 1 + j).bytes
    BY <1>3, <1>5, DataGrows
  <2> QED  BY <1>2, <2>1, <2>2, <2>3
<1>7. disk'[f] \in Seq(Bytes)
  <2>1. j + 1 \in Nat
    BY <1>3
  <2>2. (j + 1) * BLOCK_SIZE \in Nat /\ Blocks((j + 1) * BLOCK_SIZE) = j + 1
    BY <2>1, BlocksOf
  <2> QED  BY <1>3, <1>5, <1>6, <2>2, DataBytes
<1>8. TypeOK'
  <2>1. disk' \in [Names -> Seq(Bytes)]
    <3>1. disk' = [disk EXCEPT ![f] = disk'[f]]
      BY <1>3, <1>4 DEF Orderly, TypeOK
    <3> QED  BY <1>3, <1>7, <3>1 DEF Orderly, TypeOK
  <2> QED  BY <1>3, <1>4, <2>1 DEF Orderly, TypeOK, Stages
<1>9. Cursor'
  BY <1>1, <1>4 DEF Orderly, Cursor
<1>10. Fits'
  <2>1. \A n \in Names : n # f => disk'[n] = disk[n]
    BY <1>3, <1>4 DEF Orderly, TypeOK
  <2>2. \A n \in Names : n # f => FitsField(Len(disk[n]))
    BY <1>1 DEF Orderly, Fits, f
  <2> QED  BY <1>1, <1>4, <2>1, <2>2 DEF Fits, f
<1>11. Copying(archive, disk'[f], files, src_size, pos', k, j + 1)
  <2>1. j + 1 <= Blocks(src_size) /\ pos' = p + 1 + (j + 1)
    BY <1>1, <1>2, <1>3, <1>4
  <2> QED  BY <1>2, <1>6, <2>1 DEF Copying, p
<1>12. Reading'
  BY <1>1, <1>4, <1>11 DEF Reading, f
<1> QED  BY <1>8, <1>9, <1>10, <1>12 DEF Orderly

\* What extraction leaves in a file.
LEMMA ClosesFile ==
  ASSUME Orderly, CloseFile
  PROVE  LET p == Walk(archive)[k + 1] IN
         /\ k < Len(files) /\ Readable(archive) /\ files = Listing(archive)
         /\ disk' = [disk EXCEPT ![files[k + 1]] = Data(archive, p, HeaderSize(archive[p]))]
         /\ pos = NextHeader(archive, p)
         /\ stage = "copy" /\ stage' = "open" /\ k' = k + 1 /\ src_size' = 0 /\ j' = 0
         /\ UNCHANGED <<archive, damaged, op, files, pos>>
<1> DEFINE p == Walk(archive)[k + 1]
           f == files[k + 1]
<1>1. /\ stage = "copy" /\ Copying(archive, disk[f], files, src_size, pos, k, j)
      /\ j = Blocks(src_size)
  BY DEF CloseFile, Orderly, Reading
<1>2. /\ Readable(archive) /\ files = Listing(archive) /\ k < Len(files)
      /\ src_size = HeaderSize(archive[p]) /\ pos = p + 1 + j
      /\ disk[f] = Data(archive, p, j * BLOCK_SIZE)
  BY <1>1 DEF Copying
<1>3. /\ p \in Nat /\ src_size \in Nat /\ Held(archive, p, Blocks(src_size)) /\ f \in Names
      /\ NextHeader(archive, p) = p + 1 + Blocks(src_size)
  BY <1>1, <1>2, AtFile
<1>4. /\ disk' = [disk EXCEPT ![f] = Trimmed(@, src_size)]
      /\ stage' = "open" /\ k' = k + 1 /\ src_size' = 0 /\ j' = 0
      /\ UNCHANGED <<archive, damaged, op, files, pos>>
  BY DEF CloseFile
<1> HIDE DEF p, f
<1>5. Trimmed(disk[f], src_size) = Data(archive, p, src_size)
  BY <1>1, <1>2, <1>3, TrimsToSize
<1>6. disk' = [disk EXCEPT ![f] = Data(archive, p, HeaderSize(archive[p]))]
  BY <1>2, <1>3, <1>4, <1>5 DEF Orderly, TypeOK
<1> QED  BY <1>1, <1>2, <1>3, <1>4, <1>6 DEF p, f

LEMMA CloseFileOrderly ==
  ASSUME Orderly, CloseFile
  PROVE  Orderly'
<1> DEFINE p == Walk(archive)[k + 1]
           f == files[k + 1]
           c == Data(archive, p, HeaderSize(archive[p]))
<1>1. /\ k < Len(files) /\ Readable(archive) /\ files = Listing(archive)
      /\ disk' = [disk EXCEPT ![f] = c]
      /\ pos = NextHeader(archive, p)
      /\ stage = "copy" /\ stage' = "open" /\ k' = k + 1 /\ src_size' = 0 /\ j' = 0
      /\ UNCHANGED <<archive, damaged, op, files, pos>>
  BY ClosesFile
<1>2. /\ p \in Nat /\ f \in Names /\ HeaderSize(archive[p]) \in Nat
      /\ FitsField(HeaderSize(archive[p]))
      /\ Held(archive, p, Blocks(HeaderSize(archive[p])))
      /\ k + 1 < Len(files) => Walk(archive)[k + 1 + 1] = NextHeader(archive, p)
      /\ Len(files) \in Nat /\ k \in Nat
  BY <1>1, AtFile
<1>3. c \in Seq(Bytes) /\ Len(c) = HeaderSize(archive[p])
  BY <1>2, DataBytes
<1> HIDE DEF p, f, c
<1>4. TypeOK'
  <2>1. disk' \in [Names -> Seq(Bytes)]
    BY <1>1, <1>2, <1>3 DEF Orderly, TypeOK
  <2>2. k' \in Nat
    BY <1>1, <1>2
  <2> QED  BY <1>1, <2>1, <2>2 DEF Orderly, TypeOK, Stages
<1>5. Cursor'
  BY <1>1 DEF Orderly, Cursor
<1>6. Fits'
  <2>1. ASSUME NEW n \in Names  PROVE FitsField(Len(disk'[n]))
    <3>1. CASE n = f
      BY <1>1, <1>2, <1>3, <3>1 DEF Orderly, TypeOK
    <3>2. CASE n # f
      BY <1>1, <1>2, <3>2 DEF Orderly, TypeOK, Fits, f
    <3> QED  BY <3>1, <3>2
  <2> QED  BY <2>1 DEF Fits
<1>7. Opening(archive, files, pos, k + 1)
  BY <1>1, <1>2 DEF Opening
<1>8. Reading'
  BY <1>1, <1>7 DEF Reading
<1> QED  BY <1>4, <1>5, <1>6, <1>8 DEF Orderly

LEMMA OrderlyStep == Orderly /\ [TarNext]_vars => Orderly'
<1> SUFFICES ASSUME Orderly, [TarNext]_vars  PROVE Orderly'
  OBVIOUS
<1>1. CASE UNCHANGED vars
  BY <1>1 DEF vars, Orderly, TypeOK, Cursor, Fits, Reading
<1>2. CASE TarNext
  BY <1>2, EditOrderly, StartsOrderly, WriteStepsOrderly, EndsOrderly, ExtractOrderly,
     OpenFileOrderly, CopyBlockOrderly, CloseFileOrderly DEF TarNext
<1> QED  BY <1>1, <1>2

\* Whatever happens, damaged archives included, every block is a header or bytes, every
\* file fits the size field between commands, and extract_files_from_archive is at the
\* block that the walk of file_list_no_print leads to and has copied just those before it.
THEOREM OrderlyAlways == TarSpec => []Orderly
BY OrderlyInit, OrderlyStep, PTL DEF TarSpec

-------------------------------------------------------------------------------
(* What was archived before stays *)

LEMMA MembersList ==
  ASSUME NEW a \in Archives
  PROVE  /\ Len(Starts(a)) \in Nat /\ DOMAIN Starts(a) = 1 .. Len(Starts(a))
         /\ Members(a) = [m \in 1 .. Len(Starts(a)) |-> MemberAt(a)[Starts(a)[m]]]
         /\ Len(Members(a)) = Len(Starts(a)) /\ DOMAIN Members(a) = 1 .. Len(Starts(a))
         /\ \E S : Members(a) \in Seq(S)
<1> DEFINE s == Starts(a)
           S == {MemberAt(a)[s[m]] : m \in 1 .. Len(s)}
<1>1. s \in Seq(Nat \ {0})
  BY StartsAre DEF WayFrom
<1>2. Len(s) \in Nat /\ DOMAIN s = 1 .. Len(s)
  <2> HIDE DEF s
  <2> QED  BY <1>1
<1>3. Members(a) = [m \in 1 .. Len(s) |-> MemberAt(a)[s[m]]]
  BY <1>2 DEF Members
<1>4. Members(a) \in [1 .. Len(s) -> S]
  <2> HIDE DEF s
  <2> QED  BY <1>3
<1> HIDE DEF s, S
<1>5. Members(a) \in Seq(S) /\ Len(Members(a)) = Len(s) /\ DOMAIN Members(a) = 1 .. Len(s)
  BY <1>2, <1>4
<1> QED  BY <1>2, <1>3, <1>5 DEF s

LEMMA PrefixOfAppend ==
  ASSUME NEW S, NEW s \in Seq(S), NEW x
  PROVE  IsPrefix(s, s) /\ IsPrefix(s, Append(s, x))
<1> DEFINE T == S \cup {x}
           t == Append(s, x)
<1>1. Len(s) \in Nat /\ s \in Seq(T) /\ t \in Seq(T) /\ Len(t) = Len(s) + 1
      /\ \A m \in 1 .. Len(s) : t[m] = s[m]
  OBVIOUS
<1> HIDE DEF T, t
<1>2. ASSUME NEW u, u \in Seq(T), Len(u) >= Len(s), \A m \in 1 .. Len(s) : u[m] = s[m]
      PROVE  SubSeq(u, 1, Len(s)) = s
  <2> DEFINE n == Len(s)
  <2>1. n \in Int /\ 1 \in Int /\ \A i \in 1 .. n : u[i] \in T
    BY <1>1, <1>2
  <2> HIDE DEF n
  <2>2. /\ SubSeq(u, 1, n) \in Seq(T)
        /\ Len(SubSeq(u, 1, n)) = IF 1 <= n THEN n - 1 + 1 ELSE 0
        /\ \A i \in 1 .. n - 1 + 1 : SubSeq(u, 1, n)[i] = u[1 + i - 1]
    BY <2>1, SubSeqProperties
  <2>3. n \in Nat /\ n = Len(s)
    BY <1>1 DEF n
  <2>4. Len(SubSeq(u, 1, n)) = n /\ \A i \in 1 .. n : SubSeq(u, 1, n)[i] = s[i]
    BY <1>2, <2>2, <2>3
  <2> QED  BY <1>1, <2>2, <2>3, <2>4, SeqEqual
<1>3. SubSeq(s, 1, Len(s)) = s /\ SubSeq(t, 1, Len(s)) = s
  BY <1>1, <1>2
<1> QED  BY <1>1, <1>3 DEF IsPrefix, t

LEMMA Keeps ==
  ASSUME NEW a \in Archives, NEW block \in DataBlocks \cup HeaderBlocks
  PROVE  IsPrefix(Members(a), Members(a)) /\ IsPrefix(Members(a), Members(Append(a, block)))
<1>1. PICK S : Members(a) \in Seq(S)
  BY MembersList
<1>2. \/ Members(Append(a, block)) = Members(a)
      \/ \E x : Members(Append(a, block)) = Append(Members(a), x)
  BY BlockAdded
<1> QED  BY <1>1, <1>2, PrefixOfAppend

\* What a step does to the archive.
ArchiveStep(a, b) ==
  \/ b = a \/ b = <<>>
  \/ stage = "idle" /\ b = Stripped(a)
  \/ \E block \in DataBlocks \cup HeaderBlocks : b = Append(a, block)

LEMMA ArchiveSteps ==
  ASSUME Orderly, [TarNext]_vars
  PROVE  ArchiveStep(archive, archive')
<1>1. CASE UNCHANGED archive
  BY <1>1 DEF ArchiveStep
<1>2. ASSUME NEW fs \in FileLists, Create(fs) \/ AppendFiles(fs) \/ Update(fs)
      PROVE  ArchiveStep(archive, archive')
  BY <1>2 DEF ArchiveStep, Create, AppendFiles, Update, Appends, Command
<1>3. CASE WriteHeader
  <2>1. files[k + 1] \in Names /\ FitsField(Len(disk[files[k + 1]]))
    BY <1>3 DEF WriteHeader, Orderly, Fits, TypeOK
  <2>2. Header(files[k + 1]) \in HeaderBlocks
    BY <2>1, HeaderType DEF Orderly
  <2> QED  BY <1>3, <2>2 DEF WriteHeader, ArchiveStep
<1>10. CASE WritePartHeader
  <2>1. PartHeader(files[k + 1]) \in HeaderBlocks
    BY <1>10, HeaderType DEF WritePartHeader, Orderly, TypeOK
  <2> QED  BY <1>10, <2>1 DEF WritePartHeader, ArchiveStep
<1>4. CASE WriteBlock
  <2>1. disk[files[k + 1]] \in Seq(Bytes) /\ j \in Nat
    BY <1>4 DEF WriteBlock, Orderly, Cursor, TypeOK
  <2>2. DataBlock(disk[files[k + 1]], j) \in DataBlocks
    BY <2>1, WrittenTypes
  <2> QED  BY <1>4, <2>2 DEF WriteBlock, ArchiveStep
<1>5. CASE WriteFooter
  BY <1>5, WrittenTypes DEF WriteFooter, ArchiveStep
<1>6. (\E n \in Names : \E c \in Contents : Edit(n, c)) => UNCHANGED archive
  BY DEF Edit
<1>7. StatAgain \/ NextFile \/ WritesDone \/ WriteFails \/ Killed \/ FooterLost
      \/ Extract \/ OpenFile \/ CopyBlock \/ CloseFile \/ Extracted => UNCHANGED archive
  BY DEF StatAgain, NextFile, WritesDone, WriteFails, Killed, FooterLost, Extract, OpenFile,
     CopyBlock, CloseFile, Extracted
<1>8. CASE UNCHANGED vars
  BY <1>1, <1>8 DEF vars
<1>9. CASE TarNext
  BY <1>1, <1>2, <1>3, <1>4, <1>5, <1>6, <1>7, <1>9, <1>10 DEF TarNext
<1> QED  BY <1>8, <1>9

\* Whatever fails or changes while an archive is written, its complete versions stay
\* (append_files_to_archive writes behind them, and remove_trailing_bytes takes the two
\* zero blocks and no more).
THEOREM EarlierVersionsKept == TarSpec => EarlierKept
<1>1. ASSUME Orderly, [TarNext]_vars
      PROVE  \/ archive' = <<>>
             \/ stage = "idle" /\ ~Closed(archive)
             \/ IsPrefix(Members(archive), Members(archive'))
  <2>1. archive \in Archives
    BY <1>1 DEF Orderly, TypeOK
  <2>2. ArchiveStep(archive, archive')
    BY <1>1, ArchiveSteps
  <2>3. IsPrefix(Members(archive), Members(archive))
    BY <2>1, MembersList, PrefixOfAppend
  <2>4. CASE stage = "idle" /\ archive' = Stripped(archive)
    <3>1. Closed(archive) => Members(archive') = Members(archive)
      BY <2>1, <2>4, FooterGone
    <3> QED  BY <2>3, <2>4, <3>1
  <2>5. CASE \E block \in DataBlocks \cup HeaderBlocks : archive' = Append(archive, block)
    BY <2>1, <2>5, Keeps
  <2> QED  BY <2>2, <2>3, <2>4, <2>5 DEF ArchiveStep
<1>2. Orderly /\ [TarNext]_vars =>
        [ \/ archive' = <<>>
          \/ stage = "idle" /\ ~Closed(archive)
          \/ IsPrefix(Members(archive), Members(archive')) ]_archive
  BY <1>1
<1> QED  BY <1>2, OrderlyAlways, PTL DEF TarSpec, EarlierKept

-------------------------------------------------------------------------------
(* The archive as it grows *)

\* Of a file f that holds c the header and i blocks are written.
Partial(a, f, c, i) ==
  /\ Len(a) - i >= 1 /\ i <= Blocks(Len(c))
  /\ a[Len(a) - i] = [kind |-> "header", name |-> f, size |-> Octal(Len(c))]
  /\ \A x \in 1 .. i : a[Len(a) - i + x] = DataBlock(c, x - 1)
  /\ End(a) = IF i = Blocks(Len(c)) THEN Len(a) + 1 ELSE Len(a) - i

\* Of the footer i blocks are written.
Footing(a, i) ==
  /\ End(a) = Len(a) + 1 - i
  /\ \A x \in Len(a) + 1 - i .. Len(a) : a[x] = Zero

LEMMA FootingFirst ==
  ASSUME NEW a \in Archives, End(a) = Len(a) + 1
  PROVE  Footing(a, 0)
BY DEF Footing

\* A header and its blocks are a member as soon as they are all there, and it holds just
\* what they were made of.
LEMMA MemberWritten ==
  ASSUME NEW b \in Archives, NEW h \in 1 .. Len(b), NEW f \in Names,
         NEW c \in Seq(Bytes), FitsField(Len(c)),
         b[h] = [kind |-> "header", name |-> f, size |-> Octal(Len(c))],
         \A x \in 1 .. Len(b) - h : b[h + x] = DataBlock(c, x - 1),
         Len(b) - h <= Blocks(Len(c))
  PROVE  /\ Complete(b, h) <=> Len(b) - h = Blocks(Len(c))
         /\ Len(b) - h = Blocks(Len(c)) => MemberAt(b)[h] = [name |-> f, content |-> c]
<1> USE BlockAssumption
<1>1. Len(b) \in Nat /\ Len(c) \in Nat /\ Blocks(Len(c)) \in Nat
  <2>1. Len(c) \in Nat /\ Len(b) \in Nat
    BY DEF Archives
  <2> QED  BY <2>1, BlocksFill
<1>2. HeaderSize(b[h]) = Len(c)
  BY <1>1, OctalRead DEF HeaderSize, FitsField
<1>3. NextHeader(b, h) = h + 1 + Blocks(Len(c))
  BY <1>2 DEF NextHeader
<1>4. ASSUME NEW x \in 1 .. Len(b) - h  PROVE b[h + x].kind # "header"
  <2>1. b[h + x] = DataBlock(c, x - 1)
    OBVIOUS
  <2>2. DataBlock(c, x - 1).kind = "data"
    BY DEF DataBlock
  <2> QED  BY <2>1, <2>2
<1>5. ASSUME NEW x \in h + 1 .. Len(b)  PROVE b[x].kind # "header"
  <2>1. x - h \in 1 .. Len(b) - h /\ h + (x - h) = x
    BY <1>1
  <2> QED  BY <1>4, <2>1
<1>6. Complete(b, h) <=> Len(b) - h = Blocks(Len(c))
  <2>1. b[h].kind = "header"
    OBVIOUS
  <2>2. NextHeader(b, h) <= Len(b) + 1 <=> Len(b) - h = Blocks(Len(c))
    BY <1>1, <1>3
  <2>3. ASSUME NextHeader(b, h) <= Len(b) + 1, NEW x \in h + 1 .. NextHeader(b, h) - 1
        PROVE  b[x].kind # "header"
    <3>1. x \in h + 1 .. Len(b)
      BY <1>1, <1>3, <2>3
    <3> QED  BY <1>5, <3>1
  <2> QED  BY <1>1, <2>1, <2>2, <2>3 DEF Complete
<1>7. ASSUME Len(b) - h = Blocks(Len(c))  PROVE MemberAt(b)[h] = [name |-> f, content |-> c]
  <2>1. ASSUME NEW x \in 1 .. Len(c)
        PROVE  b[h + 1 + (x - 1) \div BLOCK_SIZE].bytes[((x - 1) % BLOCK_SIZE) + 1] = c[x]
    <3>1. PICK q \in 0 .. Blocks(Len(c)) - 1, r \in 1 .. BLOCK_SIZE :
            q = (x - 1) \div BLOCK_SIZE /\ r = ((x - 1) % BLOCK_SIZE) + 1
            /\ x = q * BLOCK_SIZE + r
      BY <1>1, ByteAt
    <3>2. q + 1 \in 1 .. Len(b) - h /\ h + (q + 1) = h + 1 + q /\ q + 1 - 1 = q
      BY <1>1, <1>7
    <3>3. b[h + 1 + q] = DataBlock(c, q)
      <4>1. PICK y \in 1 .. Len(b) - h : y = q + 1
        BY <3>2
      <4>2. b[h + y] = DataBlock(c, y - 1)
        OBVIOUS
      <4> QED  BY <3>2, <4>1, <4>2
    <3>4. DataBlock(c, q).bytes[r]
            = IF q * BLOCK_SIZE + r <= Len(c) THEN c[q * BLOCK_SIZE + r] ELSE 0
      BY DEF DataBlock
    <3>5. DataBlock(c, q).bytes[r] = c[x]
      BY <3>1, <3>4
    <3> QED  BY <3>1, <3>3, <3>5
  <2>2. MemberAt(b)[h] =
          [name |-> b[h].name,
           content |-> [x \in 1 .. HeaderSize(b[h]) |->
             b[h + 1 + (x - 1) \div BLOCK_SIZE].bytes[((x - 1) % BLOCK_SIZE) + 1]]]
    BY DEF MemberAt
  <2>3. b[h].name = f
    OBVIOUS
  <2>4. c = [x \in 1 .. Len(c) |-> c[x]]
    OBVIOUS
  <2> DEFINE e == [x \in 1 .. Len(c) |->
                     b[h + 1 + (x - 1) \div BLOCK_SIZE].bytes[((x - 1) % BLOCK_SIZE) + 1]]
  <2>5. e = [x \in 1 .. Len(c) |-> c[x]]
    BY <2>1
  <2>6. MemberAt(b)[h] = [name |-> f, content |-> e]
    BY <1>2, <2>2, <2>3
  <2> HIDE DEF e
  <2> QED  BY <2>4, <2>5, <2>6
<1> QED  BY <1>6, <1>7

LEMMA PartialStarts ==
  ASSUME NEW a \in Archives, End(a) = Len(a) + 1, NEW f \in Names,
         NEW c \in Seq(Bytes), FitsField(Len(c))
  PROVE  LET b == Append(a, [kind |-> "header", name |-> f, size |-> Octal(Len(c))]) IN
         /\ b \in Archives /\ Partial(b, f, c, 0)
         /\ Members(b) = IF Blocks(Len(c)) = 0
                         THEN Append(Members(a), [name |-> f, content |-> c]) ELSE Members(a)
<1> DEFINE header == [kind |-> "header", name |-> f, size |-> Octal(Len(c))]
           b == Append(a, header)
<1>1. Len(c) \in Nat /\ Len(a) \in Nat /\ Blocks(Len(c)) \in Nat
  <2>1. Len(c) \in Nat /\ Len(a) \in Nat
    BY DEF Archives
  <2> QED  BY <2>1, BlocksFill
<1>2. header \in HeaderBlocks
  BY <1>1, OctalRead DEF HeaderBlocks, FitsField
<1>3. header = [kind |-> "header", name |-> f, size |-> Octal(Len(c))]
  OBVIOUS
<1> HIDE DEF header
<1>4. /\ b \in Archives /\ Len(b) = Len(a) + 1
      /\ Complete(b, End(a)) =>
              /\ End(b) = Len(b) + 1
              /\ Members(b) = Append(Members(a), MemberAt(b)[End(a)])
      /\ ~Complete(b, End(a)) => Members(b) = Members(a) /\ End(b) = End(a)
  BY <1>2, BlockAdded
<1>5. b[Len(b)] = header /\ Len(b) \in 1 .. Len(b) /\ Len(b) - Len(b) = 0 /\ End(a) = Len(b)
  BY <1>1, <1>4 DEF Archives
<1> HIDE DEF b
<1>6. /\ Complete(b, Len(b)) <=> 0 = Blocks(Len(c))
      /\ 0 = Blocks(Len(c)) => MemberAt(b)[Len(b)] = [name |-> f, content |-> c]
  <2>1. \A x \in 1 .. Len(b) - Len(b) : b[Len(b) + x] = DataBlock(c, x - 1)
    BY <1>5
  <2>2. b \in Archives /\ Len(b) \in 1 .. Len(b)
        /\ b[Len(b)] = [kind |-> "header", name |-> f, size |-> Octal(Len(c))]
        /\ Len(b) - Len(b) <= Blocks(Len(c)) /\ Len(b) - Len(b) = 0
    BY <1>1, <1>3, <1>4, <1>5
  <2>3. /\ Complete(b, Len(b)) <=> Len(b) - Len(b) = Blocks(Len(c))
        /\ Len(b) - Len(b) = Blocks(Len(c))
             => MemberAt(b)[Len(b)] = [name |-> f, content |-> c]
    BY <2>1, <2>2, MemberWritten
  <2> QED  BY <2>2, <2>3
<1>7. Partial(b, f, c, 0)
  BY <1>1, <1>3, <1>4, <1>5, <1>6 DEF Partial
<1>8. Members(b) = IF Blocks(Len(c)) = 0
                   THEN Append(Members(a), [name |-> f, content |-> c]) ELSE Members(a)
  BY <1>4, <1>5, <1>6
<1> QED  BY <1>3, <1>4, <1>7, <1>8 DEF b

LEMMA PartialGrows ==
  ASSUME NEW a \in Archives, NEW f \in Names, NEW c \in Seq(Bytes), FitsField(Len(c)),
         NEW i \in Nat, Partial(a, f, c, i), i < Blocks(Len(c))
  PROVE  LET b == Append(a, DataBlock(c, i)) IN
         /\ b \in Archives /\ Partial(b, f, c, i + 1)
         /\ Members(b) = IF i + 1 = Blocks(Len(c))
                         THEN Append(Members(a), [name |-> f, content |-> c]) ELSE Members(a)
<1> DEFINE block == DataBlock(c, i)
           b == Append(a, block)
           h == Len(a) - i
<1>1. Len(c) \in Nat /\ Len(a) \in Nat /\ Blocks(Len(c)) \in Nat
  <2>1. Len(c) \in Nat /\ Len(a) \in Nat
    BY DEF Archives
  <2> QED  BY <2>1, BlocksFill
<1>2. block \in DataBlocks
  BY WrittenTypes
<1> HIDE DEF block
<1>3. /\ b \in Archives /\ Len(b) = Len(a) + 1
      /\ Complete(b, End(a)) =>
              /\ End(b) = Len(b) + 1
              /\ Members(b) = Append(Members(a), MemberAt(b)[End(a)])
      /\ ~Complete(b, End(a)) => Members(b) = Members(a) /\ End(b) = End(a)
  BY <1>2, BlockAdded
<1>4. /\ h >= 1 /\ End(a) = h
      /\ a[h] = [kind |-> "header", name |-> f, size |-> Octal(Len(c))]
      /\ \A x \in 1 .. i : a[h + x] = DataBlock(c, x - 1)
  BY DEF Partial
<1>5. b[Len(a) + 1] = block /\ \A x \in 1 .. Len(a) : b[x] = a[x]
  BY <1>1, <1>2 DEF Archives
<1> HIDE DEF b
<1>6. h \in 1 .. Len(b) /\ Len(b) - h = i + 1 /\ Len(b) - (i + 1) = h /\ h \in 1 .. Len(a)
  BY <1>1, <1>3, <1>4
<1> HIDE DEF h
<1>7. b[h] = [kind |-> "header", name |-> f, size |-> Octal(Len(c))]
  BY <1>4, <1>5, <1>6
<1>8. ASSUME NEW x \in 1 .. i + 1  PROVE b[h + x] = DataBlock(c, x - 1)
  <2>1. CASE x = i + 1
    <3>1. h + x = Len(a) + 1 /\ x - 1 = i
      BY <1>1, <1>3, <1>6, <2>1
    <3> QED  BY <1>5, <3>1 DEF block
  <2>2. CASE x # i + 1
    <3>1. x \in 1 .. i /\ h + x \in 1 .. Len(a)
      BY <1>1, <1>3, <1>6, <2>2
    <3> QED  BY <1>4, <1>5, <3>1
  <2> QED  BY <2>1, <2>2
<1>9. /\ Complete(b, h) <=> i + 1 = Blocks(Len(c))
      /\ i + 1 = Blocks(Len(c)) => MemberAt(b)[h] = [name |-> f, content |-> c]
  <2>1. \A x \in 1 .. Len(b) - h : b[h + x] = DataBlock(c, x - 1)
    BY <1>6, <1>8
  <2>2. Len(b) - h <= Blocks(Len(c))
    BY <1>1, <1>6
  <2>3. /\ Complete(b, h) <=> Len(b) - h = Blocks(Len(c))
        /\ Len(b) - h = Blocks(Len(c)) => MemberAt(b)[h] = [name |-> f, content |-> c]
    <3>1. b \in Archives /\ h \in 1 .. Len(b)
      BY <1>3, <1>6
    <3> QED  BY <1>7, <2>1, <2>2, <3>1, MemberWritten
  <2> QED  BY <1>6, <2>3
<1>10. End(b) = IF i + 1 = Blocks(Len(c)) THEN Len(b) + 1 ELSE h
  BY <1>3, <1>4, <1>9
<1>11. Partial(b, f, c, i + 1)
  <2>1. Len(b) - (i + 1) = h /\ h >= 1 /\ i + 1 <= Blocks(Len(c))
    BY <1>1, <1>6
  <2> QED  BY <1>7, <1>8, <1>10, <2>1 DEF Partial
<1>12. Members(b) = IF i + 1 = Blocks(Len(c))
                    THEN Append(Members(a), [name |-> f, content |-> c]) ELSE Members(a)
  BY <1>3, <1>4, <1>9
<1> QED  BY <1>3, <1>11, <1>12 DEF b, block

LEMMA FooterGrows ==
  ASSUME NEW a \in Archives, NEW i \in 0 .. 1, Footing(a, i)
  PROVE  LET b == Append(a, Zero) IN
         /\ b \in Archives /\ Footing(b, i + 1) /\ Members(b) = Members(a)
<1> DEFINE b == Append(a, Zero)
<1>1. Len(a) \in Nat /\ Zero \in DataBlocks /\ Zero.kind # "header"
  BY WrittenTypes DEF Archives, Zero
<1>2. /\ b \in Archives /\ Len(b) = Len(a) + 1
      /\ ~Complete(b, End(a)) => Members(b) = Members(a) /\ End(b) = End(a)
  BY <1>1, BlockAdded
<1>3. b[Len(a) + 1] = Zero /\ \A x \in 1 .. Len(a) : b[x] = a[x]
  BY <1>1 DEF Archives
<1>4. End(a) = Len(a) + 1 - i /\ End(a) >= 1
  BY <1>1, EndIs DEF Footing
<1> HIDE DEF b
<1>5. ASSUME NEW x \in Len(b) + 1 - (i + 1) .. Len(b)  PROVE b[x] = Zero
  <2>1. CASE x = Len(a) + 1
    BY <1>3, <2>1
  <2>2. CASE x # Len(a) + 1
    <3>1. x \in Len(a) + 1 - i .. Len(a) /\ x \in 1 .. Len(a)
      BY <1>1, <1>2, <1>4, <2>2
    <3> QED  BY <1>3, <3>1 DEF Footing
  <2> QED  BY <2>1, <2>2
<1>6. b[End(a)] = Zero
  <2>1. End(a) \in Len(b) + 1 - (i + 1) .. Len(b)
    BY <1>1, <1>2, <1>4
  <2> QED  BY <1>5, <2>1
<1>7. ~Complete(b, End(a))
  BY <1>1, <1>6 DEF Complete
<1>8. End(b) = Len(b) + 1 - (i + 1)
  BY <1>1, <1>2, <1>4, <1>7
<1>9. Footing(b, i + 1)
  BY <1>5, <1>8 DEF Footing
<1> QED  BY <1>2, <1>7, <1>9 DEF b

\* An archive is not closed while it is written, and is when its footer is.
LEMMA WhenClosed ==
  ASSUME NEW a \in Archives
  PROVE  /\ End(a) = Len(a) + 1 => ~Closed(a)
         /\ \A f, c : \A i \in Nat : Partial(a, f, c, i) => ~Closed(a)
         /\ Footing(a, 0) => ~Closed(a)
         /\ Footing(a, 1) => ~Closed(a)
         /\ Footing(a, 2) => Closed(a)
<1>1. Len(a) \in Nat
  BY DEF Archives
<1>2. End(a) = Len(a) + 1 => ~Closed(a)
  BY <1>1 DEF Closed
<1>3. ASSUME NEW f, NEW c, NEW i \in Nat, Partial(a, f, c, i), Closed(a)  PROVE FALSE
  <2>1. Len(a) - i = Len(a) - 1
    BY <1>1, <1>2, <1>3 DEF Partial, Closed
  <2>2. a[Len(a) - 1].kind = "header" /\ a[Len(a) - 1] = Zero
    BY <1>3, <2>1 DEF Partial, Closed
  <2> QED  BY <2>2 DEF Zero
<1>4. Footing(a, 0) \/ Footing(a, 1) => ~Closed(a)
  BY <1>1 DEF Footing, Closed
<1>5. ASSUME Footing(a, 2)  PROVE Closed(a)
  <2>1. End(a) = Len(a) - 1 /\ Len(a) > 1
    BY <1>1, <1>5, EndIs DEF Footing
  <2>2. Len(a) \in Len(a) + 1 - 2 .. Len(a) /\ Len(a) - 1 \in Len(a) + 1 - 2 .. Len(a)
    BY <1>1
  <2>3. a[Len(a)] = Zero /\ a[Len(a) - 1] = Zero
    BY <1>5, <2>2 DEF Footing
  <2> QED  BY <2>1, <2>3 DEF Closed
<1> QED  BY <1>2, <1>3, <1>4, <1>5

-------------------------------------------------------------------------------
(* The archive is a log of versions *)

\* What is written of an archive that nothing has damaged.
Building ==
  ~damaged =>
    /\ stage = "idle" => archive = <<>> \/ Closed(archive)
    /\ stage = "header" => End(archive) = Len(archive) + 1
    /\ stage = "stat" => Partial(archive, files[k + 1], disk[files[k + 1]], 0)
    /\ stage = "data" =>
         /\ src_size = Len(disk[files[k + 1]])
         /\ Partial(archive, files[k + 1], disk[files[k + 1]], j)
    /\ stage = "footer" => Footing(archive, j)
    /\ stage \in {"open", "copy"} => Closed(archive)

\* What is still to be written of the list fs when command is at file i and block b.
Remaining(label, fs, i, b, size, content) ==
  IF label \in {"header", "stat", "data"}
  THEN SubSeq(fs,
              IF \/ label = "stat" /\ Blocks(Len(content)) = 0
                 \/ label = "data" /\ b = Blocks(size)
              THEN i + 2 ELSE i + 1,
              Len(fs))
  ELSE <<>>

LEMMA TodoIs ==
  /\ Todo = Remaining(stage, files, k, j, src_size, disk[files[k + 1]])
  /\ Todo' = Remaining(stage', files', k', j', src_size', disk'[files'[k' + 1]])
<1>1. Todo = Remaining(stage, files, k, j, src_size, disk[files[k + 1]])
  BY DEF Todo, Remaining
<1>2. Todo' = Remaining(stage', files', k', j', src_size', disk'[files'[k' + 1]])
  BY DEF Todo, Remaining
<1> QED  BY <1>1, <1>2

LEMMA Rests ==
  ASSUME NEW fs \in Seq(Names), NEW i \in Nat, i < Len(fs)
  PROVE  LET t == SubSeq(fs, i + 1, Len(fs)) IN
         /\ t # <<>> /\ Head(t) = fs[i + 1] /\ Tail(t) = SubSeq(fs, i + 2, Len(fs))
         /\ i + 1 = Len(fs) => SubSeq(fs, i + 2, Len(fs)) = <<>>
<1> DEFINE t == SubSeq(fs, i + 1, Len(fs))
           u == SubSeq(fs, i + 2, Len(fs))
           n == Len(fs)
<1>1. n \in Nat /\ \A x \in i + 1 .. n : fs[x] \in Names
  OBVIOUS
<1>2. /\ t \in Seq(Names) /\ Len(t) = n - i
      /\ \A x \in 1 .. n - i : t[x] = fs[i + x]
  <2>1. i + 1 \in Int /\ n \in Int
    BY <1>1
  <2> HIDE DEF n
  <2>2. /\ SubSeq(fs, i + 1, n) \in Seq(Names)
        /\ Len(SubSeq(fs, i + 1, n)) = IF i + 1 <= n THEN n - (i + 1) + 1 ELSE 0
        /\ \A x \in 1 .. n - (i + 1) + 1 : SubSeq(fs, i + 1, n)[x] = fs[i + 1 + x - 1]
    BY <1>1, <2>1, SubSeqProperties
  <2>3. (IF i + 1 <= n THEN n - (i + 1) + 1 ELSE 0) = n - i /\ n - (i + 1) + 1 = n - i
        /\ \A x \in 1 .. n - i : i + 1 + x - 1 = i + x
    BY <1>1 DEF n
  <2>4. t = SubSeq(fs, i + 1, n)
    BY DEF n
  <2> HIDE DEF t
  <2> QED  BY <2>2, <2>3, <2>4
<1>3. /\ u \in Seq(Names) /\ Len(u) = n - i - 1
      /\ \A x \in 1 .. n - i - 1 : u[x] = fs[i + 1 + x]
  <2>1. i + 2 \in Int /\ n \in Int
    BY <1>1
  <2>2. \A x \in i + 2 .. n : fs[x] \in Names
    BY <1>1
  <2> HIDE DEF n
  <2>3. /\ SubSeq(fs, i + 2, n) \in Seq(Names)
        /\ Len(SubSeq(fs, i + 2, n)) = IF i + 2 <= n THEN n - (i + 2) + 1 ELSE 0
        /\ \A x \in 1 .. n - (i + 2) + 1 : SubSeq(fs, i + 2, n)[x] = fs[i + 2 + x - 1]
    BY <2>1, <2>2, SubSeqProperties
  <2>4. (IF i + 2 <= n THEN n - (i + 2) + 1 ELSE 0) = n - i - 1 /\ n - (i + 2) + 1 = n - i - 1
        /\ \A x \in 1 .. n - i - 1 : i + 2 + x - 1 = i + 1 + x
    BY <1>1 DEF n
  <2>5. u = SubSeq(fs, i + 2, n)
    BY DEF n
  <2> HIDE DEF u
  <2> QED  BY <2>3, <2>4, <2>5
<1> HIDE DEF t, u, n
<1>4. i < n /\ n - i \in Nat \ {0}
  BY <1>1 DEF n
<1>5. t # <<>> /\ Head(t) = fs[i + 1]
  BY <1>2, <1>4
<1>6. Tail(t) = u
  <2>1. /\ Tail(t) \in Seq(Names) /\ Len(Tail(t)) = n - i - 1
        /\ \A x \in 1 .. n - i - 1 : Tail(t)[x] = t[x + 1]
    BY <1>2, <1>4, <1>5
  <2>2. \A x \in 1 .. n - i - 1 : t[x + 1] = fs[i + 1 + x]
    <3>1. TAKE x \in 1 .. n - i - 1
    <3>2. x + 1 \in 1 .. n - i /\ i + (x + 1) = i + 1 + x
      BY <1>1, <1>4
    <3> QED  BY <1>2, <3>2
  <2> QED  BY <1>3, <2>1, <2>2, SeqEqual
<1>7. i + 1 = n => u = <<>>
  BY <1>1, <1>3
<1> QED  BY <1>5, <1>6, <1>7 DEF t, u, n

\* A step keeps the archive as it should be and is a step of the log, or none.
Follows == Building' /\ [Log!LogNext]_(Log!logVars)

LEMMA BreakFollows ==
  ASSUME damaged' = TRUE
  PROVE  Follows
BY DEF Follows, Building, Log!LogNext, Log!Break

LEMMA BothOpen ==
  ASSUME NEW a, NEW b, ~Closed(a), ~Closed(b)
  PROVE  Closed(a) = Closed(b)
BY DEF Closed

\* Nothing of the log but the files changes.
LEMMA QuietFollows ==
  ASSUME Building', Members(archive') = Members(archive), Todo' = Todo,
         Closed(archive') = Closed(archive), UNCHANGED damaged
  PROVE  Follows
<1>1. CASE disk' # disk
  BY <1>1 DEF Follows, Log!LogNext, Log!Change
<1>2. CASE disk' = disk
  BY <1>2 DEF Follows, Log!logVars
<1> QED  BY <1>1, <1>2

LEMMA AddFollows ==
  ASSUME Building', ~damaged, UNCHANGED <<disk, damaged>>, TypeOK, k < Len(files),
         ~Closed(archive), ~Closed(archive'),
         Todo = SubSeq(files, k + 1, Len(files)), Todo' = SubSeq(files, k + 2, Len(files)),
         Members(archive') = Append(Members(archive),
                               [name |-> files[k + 1], content |-> disk[files[k + 1]]])
  PROVE  Follows
<1>1. /\ Todo # <<>> /\ Head(Todo) = files[k + 1] /\ Todo' = Tail(Todo)
  BY Rests DEF TypeOK
<1>2. Closed(archive') = Closed(archive)
  BY DEF Closed
<1>3. Log!Add
  BY <1>1, <1>2 DEF Log!Add
<1> QED  BY <1>3 DEF Follows, Log!LogNext

LEMMA EditFollows ==
  ASSUME Orderly, Building, NEW n \in Names, NEW c \in Contents, Edit(n, c), ~damaged'
  PROVE  Follows
<1>1. /\ stage \in {"idle", "stat"} /\ disk' = [disk EXCEPT ![n] = c] /\ ~damaged
      /\ stage = "stat" /\ n = files[k + 1] => Len(c) = Len(disk[n])
      /\ damaged' = damaged
      /\ UNCHANGED <<archive, stage, op, files, src_size, pos, k, j>>
  BY DEF Edit, Orderly, TypeOK
<1>2. \A m \in Names : disk'[m] = IF m = n THEN c ELSE disk[m]
  BY <1>1 DEF Orderly, TypeOK
<1>3. stage = "stat" => files[k + 1] \in Names
  BY DEF Orderly, TypeOK, Cursor
<1>4. stage = "stat" => Len(disk'[files[k + 1]]) = Len(disk[files[k + 1]])
  BY <1>1, <1>2, <1>3
<1>5. stage = "stat" => Partial(archive, files[k + 1], disk'[files[k + 1]], 0)
  BY <1>1, <1>4 DEF Building, Partial
<1>6. Building'
  BY <1>1, <1>5 DEF Building
<1>7. Todo' = Todo
  <2>1. Remaining(stage, files, k, j, src_size, disk'[files[k + 1]])
          = Remaining(stage, files, k, j, src_size, disk[files[k + 1]])
    BY <1>1, <1>4 DEF Remaining
  <2> QED  BY <1>1, <2>1, TodoIs
<1> QED  BY <1>1, <1>6, <1>7, QuietFollows

LEMMA CreateFollows ==
  ASSUME Orderly, NEW fs \in FileLists, Create(fs)
  PROVE  Follows
<1>1. /\ archive' = <<>> /\ damaged' = FALSE /\ UNCHANGED disk
      /\ stage' = IF fs = <<>> THEN "footer" ELSE "header"
      /\ files' = fs /\ k' = 0 /\ j' = 0
  BY DEF Create, StartWriting, Start
<1>2. fs \in Seq(Names)
  BY ListsAssumption
<1>3. Members(archive') = <<>> /\ End(archive') = Len(archive') + 1 /\ ~Closed(archive')
  BY <1>1, NoMembers DEF Closed
<1>4. Building'
  <2>1. archive' \in Archives /\ Footing(archive', 0)
    BY <1>1, <1>3, NoMembers, FootingFirst
  <2> QED  BY <1>1, <1>3, <2>1 DEF Building
<1>5. Todo' = fs
  <2>1. CASE fs = <<>>
    BY <1>1, <2>1, TodoIs DEF Remaining
  <2>2. CASE fs # <<>>
    <3>1. Todo' = SubSeq(fs, 0 + 1, Len(fs))
      BY <1>1, <2>2, TodoIs DEF Remaining
    <3> QED  BY <1>2, <3>1, SubSeqFull
  <2> QED  BY <2>1, <2>2
<1>6. Log!StartOver
  BY <1>1, <1>3, <1>5 DEF Log!StartOver
<1> QED  BY <1>4, <1>6 DEF Follows, Log!LogNext

LEMMA AppendsFollows ==
  ASSUME Orderly, Building, NEW fs \in FileLists, Appends(fs), stage = "idle", ~damaged'
  PROVE  Follows
<1>1. /\ archive' = Stripped(archive) /\ UNCHANGED <<disk, damaged>> /\ ~damaged
      /\ stage' = IF fs = <<>> THEN "footer" ELSE "header"
      /\ files' = fs /\ k' = 0 /\ j' = 0
  BY DEF Appends, StartWriting, Start
<1>2. fs \in Seq(Names) /\ archive \in Archives /\ archive' \in Archives
  BY <1>1, ListsAssumption, StrippedType DEF Orderly, TypeOK
<1>3. archive = <<>> \/ Closed(archive)
  BY <1>1 DEF Building
<1>4. /\ Members(archive') = Members(archive) /\ End(archive') = Len(archive') + 1
      /\ Closed(archive) \/ Members(archive) = <<>>
  <2>1. CASE archive = <<>>
    BY <1>1, <2>1, NoMembers
  <2>2. CASE Closed(archive)
    BY <1>1, <1>2, <2>2, FooterGone
  <2> QED  BY <1>3, <2>1, <2>2
<1>5. ~Closed(archive')
  BY <1>2, <1>4, WhenClosed
<1>6. Building'
  <2>1. Footing(archive', 0)
    BY <1>2, <1>4, FootingFirst
  <2> QED  BY <1>1, <1>4, <2>1 DEF Building
<1>7. Todo' = fs /\ Todo = <<>>
  <2>1. CASE fs = <<>>
    BY <1>1, <2>1, TodoIs DEF Remaining
  <2>2. CASE fs # <<>>
    <3>1. Todo' = SubSeq(fs, 0 + 1, Len(fs)) /\ Todo = <<>>
      BY <1>1, <2>2, TodoIs DEF Remaining
    <3> QED  BY <1>2, <3>1, SubSeqFull
  <2> QED  BY <2>1, <2>2
<1>8. Log!Reopen
  BY <1>1, <1>4, <1>5, <1>7 DEF Log!Reopen
<1> QED  BY <1>6, <1>8 DEF Follows, Log!LogNext

\* The file that is being written.
LEMMA AtWritten ==
  ASSUME Orderly, stage \in {"header", "stat", "data"}
  PROVE  /\ archive \in Archives /\ k \in Nat /\ k < Len(files) /\ files[k + 1] \in Names
         /\ disk[files[k + 1]] \in Seq(Bytes) /\ FitsField(Len(disk[files[k + 1]]))
         /\ j \in Nat /\ files \in Seq(Names)
         /\ Len(disk[files[k + 1]]) \in Nat /\ Blocks(Len(disk[files[k + 1]])) \in Nat
<1>1. /\ archive \in Archives /\ k \in Nat /\ k < Len(files) /\ files[k + 1] \in Names
      /\ disk[files[k + 1]] \in Seq(Bytes) /\ j \in Nat /\ files \in Seq(Names)
  BY DEF Orderly, TypeOK, Cursor
<1>2. FitsField(Len(disk[files[k + 1]]))
  BY <1>1 DEF Orderly, Fits
<1>3. Len(disk[files[k + 1]]) \in Nat
  BY <1>1
<1>4. Blocks(Len(disk[files[k + 1]])) \in Nat
  BY <1>3, BlocksFill
<1> QED  BY <1>1, <1>2, <1>3, <1>4

LEMMA WriteHeaderFollows ==
  ASSUME Orderly, Building, WriteHeader, ~damaged'
  PROVE  Follows
<1> DEFINE f == files[k + 1]
           c == disk[f]
<1>1. /\ stage = "header" /\ stage' = "stat" /\ archive' = Append(archive, Header(f))
      /\ ~damaged /\ UNCHANGED <<disk, damaged, op, files, src_size, pos, k, j>>
  BY DEF WriteHeader
<1>2. /\ archive \in Archives /\ f \in Names /\ c \in Seq(Bytes) /\ FitsField(Len(c))
      /\ k < Len(files)
  BY <1>1, AtWritten
<1>3. Header(f) = [kind |-> "header", name |-> f, size |-> Octal(Len(c))]
      /\ End(archive) = Len(archive) + 1
  BY <1>1 DEF Header, Building
<1> HIDE DEF f, c
<1>4. /\ archive' \in Archives /\ Partial(archive', f, c, 0)
      /\ Members(archive') = IF Blocks(Len(c)) = 0
                             THEN Append(Members(archive), [name |-> f, content |-> c])
                             ELSE Members(archive)
  <2>1. archive' = Append(archive, [kind |-> "header", name |-> f, size |-> Octal(Len(c))])
    BY <1>1, <1>3
  <2> QED  BY <1>2, <1>3, <2>1, PartialStarts
<1>5. Building'
  BY <1>1, <1>4 DEF Building, f, c
<1>6. ~Closed(archive) /\ ~Closed(archive')
  BY <1>2, <1>3, <1>4, WhenClosed
<1>7. /\ Todo = SubSeq(files, k + 1, Len(files))
      /\ Todo' = SubSeq(files, IF Blocks(Len(c)) = 0 THEN k + 2 ELSE k + 1, Len(files))
  BY <1>1, TodoIs DEF Remaining, f, c
<1>8. CASE Blocks(Len(c)) = 0
  BY <1>1, <1>2, <1>4, <1>5, <1>6, <1>7, <1>8, AddFollows DEF f, c, Orderly
<1>9. CASE Blocks(Len(c)) # 0
  BY <1>1, <1>4, <1>5, <1>6, <1>7, <1>9, BothOpen, QuietFollows
<1> QED  BY <1>8, <1>9

LEMMA StatAgainFollows ==
  ASSUME Orderly, Building, StatAgain, ~damaged'
  PROVE  Follows
<1> DEFINE f == files[k + 1]
           c == disk[f]
<1>1. /\ stage = "stat" /\ stage' = "data" /\ src_size' = Len(c) /\ ~damaged
      /\ UNCHANGED <<archive, disk, damaged, op, files, pos, k, j>>
  BY DEF StatAgain
<1>2. Partial(archive, f, c, 0) /\ j = 0 /\ Blocks(Len(c)) \in Nat
  BY <1>1, AtWritten DEF Building, Orderly, Cursor
<1> HIDE DEF f, c
<1>3. Building'
  BY <1>1, <1>2 DEF Building, f, c
<1>4. Todo' = Todo
  BY <1>1, <1>2, TodoIs DEF Remaining, f, c
<1> QED  BY <1>1, <1>3, <1>4, QuietFollows

LEMMA WriteBlockFollows ==
  ASSUME Orderly, Building, WriteBlock, ~damaged'
  PROVE  Follows
<1> DEFINE f == files[k + 1]
           c == disk[f]
<1>1. /\ stage = "data" /\ archive' = Append(archive, DataBlock(c, j)) /\ j' = j + 1
      /\ j < Blocks(src_size) /\ ~damaged
      /\ UNCHANGED <<disk, damaged, stage, op, files, src_size, pos, k>>
  BY DEF WriteBlock
<1>2. /\ archive \in Archives /\ f \in Names /\ c \in Seq(Bytes) /\ FitsField(Len(c))
      /\ k < Len(files) /\ j \in Nat /\ Blocks(Len(c)) \in Nat
  BY <1>1, AtWritten
<1>3. src_size = Len(c) /\ Partial(archive, f, c, j)
  BY <1>1 DEF Building
<1> HIDE DEF f, c
<1>4. /\ archive' \in Archives /\ Partial(archive', f, c, j + 1)
      /\ Members(archive') = IF j + 1 = Blocks(Len(c))
                             THEN Append(Members(archive), [name |-> f, content |-> c])
                             ELSE Members(archive)
  BY <1>1, <1>2, <1>3, PartialGrows
<1>5. Building'
  BY <1>1, <1>3, <1>4 DEF Building, f, c
<1>6. ~Closed(archive) /\ ~Closed(archive')
  <2>1. j + 1 \in Nat
    BY <1>2
  <2> QED  BY <1>2, <1>3, <1>4, <2>1, WhenClosed
<1>7. /\ Todo = SubSeq(files, k + 1, Len(files))
      /\ Todo' = SubSeq(files, IF j + 1 = Blocks(Len(c)) THEN k + 2 ELSE k + 1, Len(files))
  <2>1. j # Blocks(src_size)
    BY <1>1, <1>2, <1>3
  <2>2. Todo = SubSeq(files, k + 1, Len(files))
    BY <1>1, <2>1, TodoIs DEF Remaining
  <2>3. Todo' = Remaining("data", files, k, j + 1, Len(c), disk[files[k + 1]])
    BY <1>1, <1>3, TodoIs
  <2> QED  BY <2>2, <2>3 DEF Remaining
<1>8. CASE j + 1 = Blocks(Len(c))
  BY <1>1, <1>2, <1>4, <1>5, <1>6, <1>7, <1>8, AddFollows DEF f, c, Orderly
<1>9. CASE j + 1 # Blocks(Len(c))
  BY <1>1, <1>4, <1>5, <1>6, <1>7, <1>9, BothOpen, QuietFollows
<1> QED  BY <1>8, <1>9

LEMMA NextFileFollows ==
  ASSUME Orderly, Building, NextFile, ~damaged'
  PROVE  Follows
<1> DEFINE f == files[k + 1]
           c == disk[f]
<1>1. /\ stage = "data" /\ j = Blocks(src_size) /\ ~damaged
      /\ k' = k + 1 /\ stage' = (IF k + 1 < Len(files) THEN "header" ELSE "footer")
      /\ src_size' = 0 /\ j' = 0
      /\ UNCHANGED <<archive, disk, damaged, op, files, pos>>
  BY DEF NextFile
<1>2. /\ archive \in Archives /\ k < Len(files) /\ k \in Nat /\ files \in Seq(Names)
  BY <1>1, AtWritten
<1>3. src_size = Len(c) /\ Partial(archive, f, c, j)
  BY <1>1 DEF Building
<1> HIDE DEF f, c
<1>4. End(archive) = Len(archive) + 1 /\ Len(archive) \in Nat
  BY <1>1, <1>2, <1>3 DEF Partial, Archives
<1>5. Footing(archive, 0)
  <2>1. Len(archive) + 1 - 0 .. Len(archive) = {} /\ Len(archive) + 1 - 0 = Len(archive) + 1
    BY <1>4
  <2> QED  BY <1>4, <2>1 DEF Footing
<1>6. Building'
  BY <1>1, <1>4, <1>5 DEF Building
<1>7. Todo = SubSeq(files, k + 2, Len(files))
  BY <1>1, TodoIs DEF Remaining
<1>8. Todo' = Todo
  <2>1. CASE k + 1 < Len(files)
    <3>1. Todo' = SubSeq(files, k + 1 + 1, Len(files)) /\ k + 1 + 1 = k + 2
      BY <1>1, <1>2, <2>1, TodoIs DEF Remaining
    <3> QED  BY <1>7, <3>1
  <2>2. CASE ~(k + 1 < Len(files))
    <3>1. Todo' = <<>>
      BY <1>1, <2>2, TodoIs DEF Remaining
    <3>2. k + 1 = Len(files)
      BY <1>2, <2>2
    <3> QED  BY <1>2, <1>7, <3>1, <3>2, Rests
  <2> QED  BY <2>1, <2>2
<1> QED  BY <1>1, <1>6, <1>8, QuietFollows

LEMMA WriteFooterFollows ==
  ASSUME Orderly, Building, WriteFooter, ~damaged'
  PROVE  Follows
<1>1. /\ stage = "footer" /\ archive' = Append(archive, Zero) /\ j' = j + 1 /\ ~damaged
      /\ j \in 0 .. 1
      /\ UNCHANGED <<disk, damaged, stage, op, files, src_size, pos, k>>
  BY DEF WriteFooter, Orderly, TypeOK
<1>2. archive \in Archives /\ Footing(archive, j)
  BY <1>1 DEF Building, Orderly, TypeOK
<1>3. archive' \in Archives /\ Footing(archive', j + 1) /\ Members(archive') = Members(archive)
  BY <1>1, <1>2, FooterGrows
<1>4. Building'
  BY <1>1, <1>3 DEF Building
<1>5. Todo = <<>> /\ Todo' = <<>>
  BY <1>1, TodoIs DEF Remaining
<1>6. ~Closed(archive)
  BY <1>1, <1>2, WhenClosed
<1>7. CASE j = 0
  <2>1. ~Closed(archive')
    BY <1>3, <1>7, WhenClosed
  <2> QED  BY <1>1, <1>3, <1>4, <1>5, <1>6, <2>1, BothOpen, QuietFollows
<1>8. CASE j = 1
  <2>1. Closed(archive')
    BY <1>3, <1>8, WhenClosed
  <2>2. Log!Close
    BY <1>1, <1>3, <1>5, <1>6, <2>1 DEF Log!Close
  <2> QED  BY <1>4, <2>2 DEF Follows, Log!LogNext
<1> QED  BY <1>1, <1>7, <1>8

LEMMA WritesDoneFollows ==
  ASSUME Orderly, Building, WritesDone, ~damaged'
  PROVE  Follows
<1>1. /\ stage = "footer" /\ j = 2 /\ stage' = "idle" /\ ~damaged
      /\ UNCHANGED <<archive, disk, damaged>>
  BY DEF WritesDone, Finished, Start
<1>2. archive \in Archives /\ Closed(archive)
  BY <1>1, WhenClosed DEF Building, Orderly, TypeOK
<1>3. Building'
  BY <1>1, <1>2 DEF Building
<1>4. Todo' = Todo
  BY <1>1, TodoIs DEF Remaining
<1> QED  BY <1>1, <1>3, <1>4, QuietFollows

\* Extraction changes files, and starts only when it finds what it walks through.
LEMMA ExtractionFollows ==
  ASSUME Orderly, Building, Extract \/ OpenFile \/ CopyBlock \/ CloseFile \/ Extracted,
         ~damaged'
  PROVE  Follows
<1>1. /\ stage \in {"idle", "open", "copy"} /\ stage' \in {"idle", "open", "copy"}
      /\ UNCHANGED <<archive, damaged>> /\ ~damaged
  <2>1. CASE Extract
    BY <2>1 DEF Extract, Command, Start
  <2>2. CASE OpenFile
    BY <2>2 DEF OpenFile
  <2>3. CASE CopyBlock
    BY <2>3 DEF CopyBlock
  <2>4. CASE CloseFile
    BY <2>4 DEF CloseFile
  <2>5. CASE Extracted
    BY <2>5 DEF Extracted, Finished, Start
  <2> QED  BY <2>1, <2>2, <2>3, <2>4, <2>5
<1>2. archive # <<>>
  BY DEF Extract, OpenFile, CopyBlock, CloseFile, Extracted, Orderly, Reading, Opening,
     Copying, Readable
<1>3. Closed(archive)
  BY <1>1, <1>2 DEF Building
<1>4. Building'
  BY <1>1, <1>3 DEF Building
<1>5. Todo = <<>> /\ Todo' = <<>>
  BY <1>1, TodoIs DEF Remaining
<1> QED  BY <1>1, <1>4, <1>5, QuietFollows

LEMMA LogStep == Orderly /\ Building /\ [TarNext]_vars => Follows
<1> SUFFICES ASSUME Orderly, Building, [TarNext]_vars  PROVE Follows
  OBVIOUS
<1>1. CASE damaged'
  <2>1. damaged' = TRUE
    <3>1. Orderly'
      BY OrderlyStep
    <3> QED  BY <1>1, <3>1 DEF Orderly, TypeOK
  <2> QED  BY <2>1, BreakFollows
<1>2. ASSUME UNCHANGED <<archive, disk, damaged, stage, op, files, src_size, pos, k, j>>
      PROVE  Follows
  <2>1. Building'
    BY <1>2 DEF Building
  <2>2. Todo' = Todo
    BY <1>2, TodoIs
  <2> QED  BY <1>2, <2>1, <2>2, QuietFollows
<1>3. CASE UNCHANGED vars
  BY <1>2, <1>3 DEF vars
<1>4. ASSUME ~damaged', NEW fs \in FileLists, Create(fs) \/ AppendFiles(fs) \/ Update(fs)
      PROVE  Follows
  <2>1. Appends(fs) /\ stage = "idle" => Follows
    BY <1>4, AppendsFollows
  <2> QED  BY <1>2, <1>4, <2>1, CreateFollows DEF AppendFiles, Update, Command
<1>5. WriteFails \/ Killed \/ FooterLost \/ WritePartHeader => damaged'
  BY DEF WriteFails, Killed, FooterLost, WritePartHeader
<1>6. CASE TarNext /\ ~damaged'
  BY <1>4, <1>5, <1>6, EditFollows, WriteHeaderFollows, StatAgainFollows, WriteBlockFollows,
     NextFileFollows, WriteFooterFollows, WritesDoneFollows, ExtractionFollows DEF TarNext
<1> QED  BY <1>1, <1>3, <1>6

\* minitar.h: an archive is a log of versions.  Create starts it over, append and update
\* add to its end what every file of their list holds by then, and nothing is lost, until
\* a failure damages it; then it may be anything until it is created anew.
THEOREM ArchiveIsLog == TarSpec => LogSpec
<1>1. TarInit => Building /\ Log!LogInit
  <2> SUFFICES ASSUME TarInit PROVE Building /\ Log!LogInit
    OBVIOUS
  <2>1. Building
    BY DEF TarInit, Building
  <2>2. Members(archive) = <<>> /\ ~Closed(archive)
    BY NoMembers DEF TarInit, Closed
  <2>3. Todo = <<>>
    BY TodoIs DEF TarInit, Remaining
  <2>4. Log!LogInit
    BY <2>2, <2>3 DEF TarInit, Log!LogInit
  <2> QED  BY <2>1, <2>4
<1>2. Orderly /\ Building /\ [TarNext]_vars => Building' /\ [Log!LogNext]_(Log!logVars)
  BY LogStep DEF Follows
<1> QED  BY <1>1, <1>2, OrderlyAlways, PTL DEF TarSpec, LogSpec, Log!LogSpec

-------------------------------------------------------------------------------
(* Extraction leaves the latest version of each file *)

\* Of the first i files that extraction has copied from a, those that the first l do not
\* name again are on the disk as the walk finds them.
Got(a, content, fs, i, l) ==
  \A m \in 1 .. i :
    (\A later \in m + 1 .. l : fs[later] # fs[m])
      => content[fs[m]] = Data(a, Walk(a)[m], HeaderSize(a[Walk(a)[m]]))

Copied ==
  /\ stage = "open" => Got(archive, disk, files, k, k)
  /\ stage = "copy" => Got(archive, disk, files, k, k + 1)

\* A file that is written is not one of those.
LEMMA GotStays ==
  ASSUME NEW fs \in Seq(Names), NEW i \in Nat, i < Len(fs), NEW a,
         NEW d \in [Names -> Seq(Bytes)], NEW c, NEW e, e = [d EXCEPT ![fs[i + 1]] = c],
         Got(a, d, fs, i, i) \/ Got(a, d, fs, i, i + 1)
  PROVE  Got(a, e, fs, i, i + 1)
<1> SUFFICES ASSUME NEW m \in 1 .. i, \A later \in m + 1 .. i + 1 : fs[later] # fs[m]
             PROVE  e[fs[m]] = Data(a, Walk(a)[m], HeaderSize(a[Walk(a)[m]]))
  BY DEF Got
<1>1. fs[m] \in Names /\ fs[i + 1] # fs[m] /\ fs[i + 1] \in Names
  OBVIOUS
<1>2. e[fs[m]] = d[fs[m]]
  BY <1>1
<1>3. \A later \in m + 1 .. i : fs[later] # fs[m]
  OBVIOUS
<1> QED  BY <1>2, <1>3 DEF Got

LEMMA CopiedStep == Orderly /\ Copied /\ [TarNext]_vars => Copied'
<1> SUFFICES ASSUME Orderly, Copied, [TarNext]_vars  PROVE Copied'
  OBVIOUS
<1>1. /\ files \in Seq(Names) /\ k \in Nat /\ Len(files) \in Nat
      /\ disk \in [Names -> Seq(Bytes)]
  BY DEF Orderly, TypeOK
<1>2. ASSUME UNCHANGED <<archive, disk, stage, files, k>>  PROVE Copied'
  BY <1>2 DEF Copied
<1>3. ASSUME stage' \notin {"open", "copy"}  PROVE Copied'
  BY <1>3 DEF Copied
<1>4. CASE Extract
  <2>1. stage' = "open" /\ k' = 0
    BY <1>4 DEF Extract, Start
  <2>2. \A a, d, fs : Got(a, d, fs, 0, 0)
    BY DEF Got
  <2> QED  BY <2>1, <2>2 DEF Copied
<1>5. CASE OpenFile
  <2>1. /\ stage = "open" /\ k < Len(files) /\ disk' = [disk EXCEPT ![files[k + 1]] = <<>>]
        /\ stage' = "copy" /\ UNCHANGED <<archive, files, k>>
    BY <1>5 DEF OpenFile
  <2>2. Got(archive, disk', files, k, k + 1)
    <3>1. Got(archive, disk, files, k, k)
      BY <2>1 DEF Copied
    <3>2. \E x : disk' = [disk EXCEPT ![files[k + 1]] = x]
      BY <2>1
    <3>3. k < Len(files)
      BY <2>1
    <3> QED  BY <1>1, <3>1, <3>2, <3>3, GotStays
  <2> QED  BY <2>1, <2>2 DEF Copied
<1>6. CASE CopyBlock
  <2>1. k < Len(files)
    BY <1>6 DEF CopyBlock, Orderly, Reading, Copying
  <2>2. /\ stage = "copy" /\ stage' = "copy" /\ UNCHANGED <<archive, files, k>>
        /\ \E c : disk' = [disk EXCEPT ![files[k + 1]] = c]
    BY <1>6 DEF CopyBlock
  <2>3. Got(archive, disk', files, k, k + 1)
    BY <1>1, <2>1, <2>2, GotStays DEF Copied
  <2> QED  BY <2>2, <2>3 DEF Copied
<1>7. CASE CloseFile
  <2> DEFINE p == Walk(archive)[k + 1]
             c == Data(archive, p, HeaderSize(archive[p]))
  <2>1. /\ k < Len(files) /\ disk' = [disk EXCEPT ![files[k + 1]] = c]
        /\ stage = "copy" /\ stage' = "open" /\ k' = k + 1 /\ UNCHANGED <<archive, files>>
    BY <1>7, ClosesFile
  <2>2. Got(archive, disk', files, k, k + 1)
    <3> HIDE DEF c
    <3>1. Got(archive, disk, files, k, k + 1)
      BY <2>1 DEF Copied
    <3>2. \E x : disk' = [disk EXCEPT ![files[k + 1]] = x]
      BY <2>1
    <3>3. k < Len(files)
      BY <2>1
    <3> QED  BY <1>1, <3>1, <3>2, <3>3, GotStays
  <2>3. disk'[files[k + 1]] = c
    <3>1. files[k + 1] \in Names
      BY <1>1, <2>1
    <3> HIDE DEF c
    <3> QED  BY <1>1, <2>1, <3>1
  <2>4. Got(archive, disk', files, k + 1, k + 1)
    <3>1. ASSUME NEW m \in 1 .. k + 1, m # k + 1  PROVE m \in 1 .. k
      BY <1>1, <3>1
    <3> QED  BY <2>2, <2>3, <3>1 DEF Got
  <2> QED  BY <2>1, <2>4 DEF Copied
<1>8. CASE UNCHANGED vars
  BY <1>2, <1>8 DEF vars
<1>9. ASSUME NEW n \in Names, NEW c \in Contents, Edit(n, c)  PROVE Copied'
  <2>1. stage' \notin {"open", "copy"}
    BY <1>9 DEF Edit
  <2> QED  BY <1>3, <2>1
<1>10. ASSUME NEW fs \in FileLists, Create(fs) \/ AppendFiles(fs) \/ Update(fs)
       PROVE  Copied'
  <2>1. stage' \in {"header", "footer", "idle"}
    BY <1>10 DEF Create, AppendFiles, Update, Appends, StartWriting, Start, Command
  <2> QED  BY <1>3, <2>1
<1>11. CASE \/ WriteHeader \/ WritePartHeader \/ StatAgain \/ WriteBlock \/ NextFile
            \/ WriteFooter \/ FooterLost
  <2>1. stage' \in {"header", "stat", "data", "footer"}
    BY <1>11 DEF WriteHeader, WritePartHeader, StatAgain, WriteBlock, NextFile, WriteFooter,
       FooterLost
  <2> QED  BY <1>3, <2>1
<1>12. CASE WritesDone \/ WriteFails \/ Killed \/ Extracted
  <2>1. stage' = "idle"
    BY <1>12 DEF WritesDone, WriteFails, Killed, Extracted, Finished, Start
  <2> QED  BY <1>3, <2>1
<1> QED
  BY <1>4, <1>5, <1>6, <1>7, <1>8, <1>9, <1>10, <1>11, <1>12 DEF TarNext

LEMMA CompleteData ==
  ASSUME NEW a \in Archives, NEW p \in Nat \ {0}, Complete(a, p)
  PROVE  MemberAt(a)[p]
           = [name |-> a[p].name, content |-> Data(a, p, HeaderSize(a[p]))]
<1>1. /\ p \in 1 .. Len(a) /\ NextHeader(a, p) \in p + 1 .. Len(a) + 1
      /\ HeaderSize(a[p]) \in Nat
  BY CompleteNext
<1>2. NextHeader(a, p) = p + 1 + Blocks(HeaderSize(a[p])) /\ Blocks(HeaderSize(a[p])) \in Nat
  BY <1>1, BlocksFill DEF NextHeader
<1>3. ASSUME NEW x \in 1 .. HeaderSize(a[p])
      PROVE  BlockAt(a, p + 1 + (x - 1) \div BLOCK_SIZE) = a[p + 1 + (x - 1) \div BLOCK_SIZE]
  <2>1. PICK q \in 0 .. Blocks(HeaderSize(a[p])) - 1 : q = (x - 1) \div BLOCK_SIZE
    BY <1>1, ByteAt
  <2>2. Len(a) \in Nat
    BY DEF Archives
  <2>3. p + 1 + q <= Len(a)
    BY <1>1, <1>2, <2>2
  <2> QED  BY <2>1, <2>3 DEF BlockAt
<1> DEFINE c == [x \in 1 .. HeaderSize(a[p]) |->
                   a[p + 1 + (x - 1) \div BLOCK_SIZE].bytes[((x - 1) % BLOCK_SIZE) + 1]]
<1>4. MemberAt(a)[p] = [name |-> a[p].name, content |-> c]
  BY <1>1 DEF MemberAt
<1>5. Data(a, p, HeaderSize(a[p])) = c
  BY <1>3 DEF Data
<1> QED  BY <1>4, <1>5

\* minitar.h: extraction leaves the most recently added version of every file in the
\* archive, byte for byte (extract_files_from_archive writes each version in turn, and
\* remove_trailing_bytes trims each to its own size).
THEOREM LatestExtracted == TarSpec => []ExtractsLatest
<1>1. TarInit => Building /\ Copied
  BY DEF TarInit, Building, Copied
<1>2. Orderly /\ Building /\ [TarNext]_vars => Building'
  BY LogStep DEF Follows
<1>3. Orderly /\ Building /\ Copied => ExtractsLatest
  <2> SUFFICES ASSUME Orderly, Building, Copied,
                      stage = "open", k = Len(files), ~damaged,
                      NEW m \in DOMAIN Members(archive),
                      \A later \in DOMAIN Members(archive) :
                        later > m => Members(archive)[later].name # Members(archive)[m].name
               PROVE  disk[Members(archive)[m].name] = Members(archive)[m].content
    BY DEF ExtractsLatest
  <2>1. /\ archive \in Archives /\ Closed(archive) /\ Readable(archive)
        /\ files = Listing(archive) /\ Got(archive, disk, files, k, k)
    BY DEF Orderly, TypeOK, Building, Reading, Opening, Copied
  <2>2. Walk(archive) = Starts(archive)
    BY <2>1, WalkMeetsMembers
  <2>3. /\ DOMAIN Members(archive) = 1 .. Len(files) /\ Len(files) \in Nat
        /\ \A x \in 1 .. Len(files) :
             /\ files[x] = archive[Walk(archive)[x]].name
             /\ Members(archive)[x] = MemberAt(archive)[Walk(archive)[x]]
    BY <2>1, <2>2, MembersList, ReadableWalk
  <2>4. ASSUME NEW x \in 1 .. Len(files)
        PROVE  /\ Members(archive)[x].name = files[x]
               /\ Members(archive)[x].content
                    = Data(archive, Walk(archive)[x], HeaderSize(archive[Walk(archive)[x]]))
    <3> DEFINE p == Walk(archive)[x]
    <3>1. p \in Nat \ {0} /\ Complete(archive, p)
      <4>1. x \in 1 .. Len(Starts(archive))
        BY <2>1, <2>2, ReadableWalk
      <4> QED  BY <2>1, <2>2, <4>1, StartsAre DEF WayFrom
    <3> HIDE DEF p
    <3>2. MemberAt(archive)[p] = [name |-> archive[p].name,
                                  content |-> Data(archive, p, HeaderSize(archive[p]))]
      BY <2>1, <3>1, CompleteData
    <3> QED  BY <2>3, <3>2 DEF p
  <2>5. \A later \in m + 1 .. k : files[later] # files[m]
    <3>1. TAKE later \in m + 1 .. k
    <3>2. later \in 1 .. Len(files) /\ m \in 1 .. Len(files) /\ later > m
      BY <2>3
    <3>3. Members(archive)[later].name = files[later] /\ Members(archive)[m].name = files[m]
      BY <2>4, <3>2
    <3> QED  BY <2>3, <3>2, <3>3
  <2>6. m \in 1 .. k /\ m \in 1 .. Len(files)
    BY <2>3
  <2>7. disk[files[m]]
          = Data(archive, Walk(archive)[m], HeaderSize(archive[Walk(archive)[m]]))
    BY <2>1, <2>5, <2>6 DEF Got
  <2> QED  BY <2>4, <2>6, <2>7
<1> QED  BY <1>1, <1>2, <1>3, OrderlyAlways, CopiedStep, PTL DEF TarSpec

===============================================================================
