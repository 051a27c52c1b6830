-------------------------- MODULE WordLengthsProofs ---------------------------
(***************************************************************************)
(* What main of par_word_lengths.c prints, for any number of files, any    *)
(* texts and any length of words.  The scan of a file that does not make   *)
(* it leave its array counts the words that white space follows            *)
(* (ScanCountsWords); the counts reach main through the pipes and are      *)
(* added once per file (CInv: Carried says where they are, Totals what has *)
(* been added); and main takes no failure for a success (WInv: each wait   *)
(* returned a child of its own, or there was none left, Awaited).          *)
(***************************************************************************)
EXTENDS WordLengths, FiniteSetTheorems, WellFoundedInduction, TLAPS

-------------------------------------------------------------------------------
(* The scan of a file, by induction over its characters *)

\* Induction over the naturals, said of sets: of the numbers with a property there is
\* a least one.
LEMMA LeastNumber ==
  ASSUME NEW T \in SUBSET Nat, T # {}
  PROVE  \E x \in T : \A y \in T : x <= y
<1>1. \E x \in T : \A y \in T : ~ (<<y, x>> \in OpToRel(<, Nat))
  BY NatLessThanWellFounded, WFMin
<1>2. \A x, y \in T : x < y => <<x, y>> \in OpToRel(<, Nat)
  BY DEF OpToRel
<1>3. \A x, y \in T : ~(y < x) => x <= y
  OBVIOUS
<1> QED BY <1>1, <1>2, <1>3

Texts == Seq({"c", "s"})

\* What the scan has after each of the first m characters of f.
Scans(after, f, m) ==
  after = [k \in 0 .. m |-> IF k = 0 THEN [count |-> 0, counts |-> Zero]
                                     ELSE ScanChar(after[k - 1], f[k])]

\* A character more can be scanned.
LEMMA ScansStep ==
  ASSUME NEW f \in Texts, NEW m \in Nat, NEW g, Scans(g, f, m)
  PROVE  \E h : Scans(h, f, m + 1)
<1> DEFINE h == [k \in 0 .. m + 1 |-> IF k = m + 1 THEN ScanChar(g[m], f[k]) ELSE g[k]]
<1>1. ASSUME NEW k \in 0 .. m + 1
      PROVE  h[k] = IF k = 0 THEN [count |-> 0, counts |-> Zero] ELSE ScanChar(h[k - 1], f[k])
  <2>1. CASE k = m + 1
    <3>1. h[k] = ScanChar(g[m], f[k]) /\ k - 1 \in 0 .. m + 1 /\ k - 1 # m + 1 /\ k # 0 /\ k - 1 = m
      BY <2>1
    <3>2. h[k - 1] = g[k - 1]
      BY <3>1
    <3> HIDE DEF h
    <3> QED BY <3>1, <3>2
  <2>2. CASE k # m + 1
    <3>1. k \in 0 .. m /\ h[k] = g[k] /\ (k # 0 => h[k - 1] = g[k - 1])
      BY <2>2
    <3>2. g[k] = IF k = 0 THEN [count |-> 0, counts |-> Zero] ELSE ScanChar(g[k - 1], f[k])
      BY <3>1 DEF Scans
    <3> HIDE DEF h
    <3> QED BY <3>1, <3>2
  <2> QED BY <2>1, <2>2
<1>2. h = [k \in 0 .. m + 1 |-> h[k]]
  OBVIOUS
<1> HIDE DEF h
<1>3. Scans(h, f, m + 1)
  BY <1>1, <1>2 DEF Scans
<1> QED BY <1>3

\* The recursion of Scan is well-founded: there is such a function.
LEMMA ScansExist ==
  ASSUME NEW f \in Texts, NEW n \in Nat
  PROVE  \E after : Scans(after, f, n)
<1> DEFINE Bad == {m \in Nat : ~ \E after : Scans(after, f, m)}
<1>1. 0 \notin Bad
  <2>1. Scans([k \in 0 .. 0 |-> [count |-> 0, counts |-> Zero]], f, 0)
    BY DEF Scans
  <2> QED BY <2>1
<1>2. Bad = {}
  <2> SUFFICES ASSUME Bad # {} PROVE FALSE
    OBVIOUS
  <2>1. PICK m \in Bad : \A y \in Bad : m <= y
    <3>1. Bad \in SUBSET Nat
      OBVIOUS
    <3> HIDE DEF Bad
    <3> QED BY <3>1, LeastNumber
  <2>2. m - 1 \in Nat /\ m - 1 \notin Bad
    BY <1>1, <2>1
  <2>3. \E after : Scans(after, f, m - 1 + 1)
    BY <2>2, ScansStep
  <2>4. m - 1 + 1 = m
    BY <2>2
  <2> QED BY <2>1, <2>3, <2>4
<1> QED BY <1>2

\* So Scan has the value its recursion says.
LEMMA ScanIs ==
  ASSUME NEW f \in Texts
  PROVE  \E after : Scans(after, f, Len(f)) /\ Scan(f) = after[Len(f)].counts
<1> DEFINE after == CHOOSE g : Scans(g, f, Len(f))
<1>1. Len(f) \in Nat
  BY DEF Texts
<1>2. \E g : Scans(g, f, Len(f))
  BY <1>1, ScansExist
<1>3. Scans(after, f, Len(f))
  BY <1>2, Zenon
<1>4. Scan(f) = after[Len(f)].counts
  BY DEF Scan, Scans
<1> QED BY <1>3, <1>4

\* The words of length l that white space follows, all in the first k characters.
EndsUpTo(f, k, l) == {x \in WordEnds(f, l) : x < k}

\* What the scan knows after k characters: how many characters the word it is in has so
\* far, and the words that white space has followed.
Knows(f, k, scan) ==
  /\ scan \in [count : 0 .. k, counts : [Lengths -> Nat]]
  /\ \A m \in k - scan.count + 1 .. k : f[m] = "c"
  /\ scan.count < k => f[k - scan.count] = "s"
  /\ scan.counts = [l \in Lengths |-> Cardinality(EndsUpTo(f, k, l))]

\* A word that the character at k + 1 follows has the length that was counted.
LEMMA EndsStep ==
  ASSUME NEW f \in Texts, NEW k \in 0 .. Len(f) - 1, NEW scan, Knows(f, k, scan),
         NEW l \in Lengths
  PROVE  EndsUpTo(f, k + 1, l) = IF f[k + 1] = "s" /\ l = scan.count
                                 THEN EndsUpTo(f, k, l) \union {k} ELSE EndsUpTo(f, k, l)
<1>1. /\ k \in 0 .. Len(f) - 1 /\ Len(f) \in Nat /\ DOMAIN f = 1 .. Len(f)
      /\ l \in Nat \ {0} /\ scan.count \in 0 .. k
      /\ \A m \in 1 .. Len(f) : f[m] \in {"c", "s"}
  BY LengthAssumption DEF Texts, Lengths, Knows
<1>2. k \in WordEnds(f, l) <=> f[k + 1] = "s" /\ l = scan.count
  <2>1. ASSUME k \in WordEnds(f, l)
        PROVE  f[k + 1] = "s" /\ l = scan.count
    <3>1. /\ k >= l
          /\ \A m \in k - l + 1 .. k : f[m] = "c"
          /\ k - l + 1 > 1 => f[k - l] = "s"
          /\ f[k + 1] = "s"
      <4>1. k >= l /\ IsWord(f, k - l + 1, k) /\ k < Len(f)
        BY <1>1, <2>1 DEF WordEnds
      <4>2. /\ \A m \in k - l + 1 .. k : f[m] = "c"
            /\ k - l + 1 > 1 => f[(k - l + 1) - 1] = "s"
            /\ f[k + 1] = "s"
        BY <4>1 DEF IsWord
      <4>3. (k - l + 1) - 1 = k - l
        BY <1>1
      <4> QED BY <4>1, <4>2, <4>3
    <3>2. ~(l < scan.count)
      <4> SUFFICES ASSUME l < scan.count PROVE FALSE
        OBVIOUS
      <4>1. k - l \in k - scan.count + 1 .. k /\ k - l + 1 > 1
        BY <1>1
      <4> QED BY <4>1, <3>1 DEF Knows
    <3>3. ~(scan.count < l)
      <4> SUFFICES ASSUME scan.count < l PROVE FALSE
        OBVIOUS
      <4>1. k - scan.count \in k - l + 1 .. k /\ scan.count < k
        BY <1>1, <3>1
      <4> QED BY <4>1, <3>1 DEF Knows
    <3> QED BY <3>1, <3>2, <3>3, <1>1
  <2>2. ASSUME f[k + 1] = "s", l = scan.count
        PROVE  k \in WordEnds(f, l)
    <3>1. k \in 1 .. Len(f) /\ k >= l /\ k - l + 1 - 1 = k - l
      BY <1>1, <2>2
    <3>2. /\ \A m \in k - l + 1 .. k : f[m] = "c"
          /\ k - l + 1 > 1 => f[k - l] = "s"
      BY <1>1, <2>2 DEF Knows
    <3> QED BY <1>1, <2>2, <3>1, <3>2 DEF WordEnds, IsWord
  <2> QED BY <2>1, <2>2
<1>3. \A x \in WordEnds(f, l) : x < k + 1 <=> x < k \/ x = k
  BY <1>1 DEF WordEnds
<1>4. EndsUpTo(f, k + 1, l) = EndsUpTo(f, k, l) \union {x \in WordEnds(f, l) : x = k}
  <2> DEFINE W == WordEnds(f, l)
  <2> HIDE DEF W
  <2>1. {x \in W : x < k + 1} = {x \in W : x < k} \union {x \in W : x = k}
    BY <1>3 DEF W
  <2> QED BY <2>1 DEF W, EndsUpTo
<1>5. {x \in WordEnds(f, l) : x = k} = IF f[k + 1] = "s" /\ l = scan.count THEN {k} ELSE {}
  BY <1>2
<1> QED BY <1>4, <1>5

\* One character more.
LEMMA KnowsStep ==
  ASSUME NEW f \in Texts, NEW k \in 0 .. Len(f) - 1, NEW scan, Knows(f, k, scan)
  PROVE  Knows(f, k + 1, ScanChar(scan, f[k + 1]))
<1> DEFINE next == ScanChar(scan, f[k + 1])
<1>1. /\ k \in Nat /\ k + 1 \in 1 .. Len(f)
      /\ scan.count \in 0 .. k /\ scan.counts \in [Lengths -> Nat]
      /\ scan = [count |-> scan.count, counts |-> scan.counts]
      /\ f[k + 1] \in {"c", "s"}
  BY DEF Texts, Knows
<1>2. /\ next.count = IF f[k + 1] = "s" THEN 0 ELSE scan.count + 1
      /\ next.counts = IF f[k + 1] = "s" THEN Counted(scan.counts, scan.count) ELSE scan.counts
      /\ next = [count |-> next.count, counts |-> next.counts]
  BY <1>1 DEF ScanChar
<1>3. \A l \in Lengths : next.counts[l] = Cardinality(EndsUpTo(f, k + 1, l))
  <2> TAKE l \in Lengths
  <2>1. scan.counts[l] = Cardinality(EndsUpTo(f, k, l))
    BY DEF Knows
  <2>2. CASE f[k + 1] = "s" /\ l = scan.count
    <3>1. EndsUpTo(f, k + 1, l) = EndsUpTo(f, k, l) \union {k}
      BY <2>2, EndsStep
    <3>2. IsFiniteSet(EndsUpTo(f, k, l)) /\ k \notin EndsUpTo(f, k, l)
      <4>1. IsFiniteSet(1 .. k)
        <5>1. 1 \in Int /\ k \in Int
          BY <1>1
        <5> QED BY <5>1, FS_Interval
      <4>2. EndsUpTo(f, k, l) \subseteq 1 .. k
        BY <1>1 DEF EndsUpTo, WordEnds, Texts
      <4>3. k \notin EndsUpTo(f, k, l)
        BY <1>1 DEF EndsUpTo
      <4> QED BY <4>1, <4>2, <4>3, FS_Subset
    <3>3. Cardinality(EndsUpTo(f, k + 1, l)) = scan.counts[l] + 1
      BY <3>1, <3>2, <2>1, FS_AddElement
    <3>4. next.counts[l] = scan.counts[l] + 1
      BY <1>1, <1>2, <2>2 DEF Counted
    <3> QED BY <3>3, <3>4
  <2>3. CASE ~(f[k + 1] = "s" /\ l = scan.count)
    <3>1. EndsUpTo(f, k + 1, l) = EndsUpTo(f, k, l)
      BY <2>3, EndsStep
    <3>2. next.counts[l] = scan.counts[l]
      BY <1>1, <1>2, <2>3 DEF Counted
    <3> QED BY <3>1, <3>2, <2>1
  <2> QED BY <2>2, <2>3
<1>4. next.counts \in [Lengths -> Nat]
  BY <1>1, <1>2 DEF Counted
<1>5. next.counts = [l \in Lengths |-> Cardinality(EndsUpTo(f, k + 1, l))]
  BY <1>3, <1>4
<1>6. /\ \A m \in k + 1 - next.count + 1 .. k + 1 : f[m] = "c"
      /\ next.count < k + 1 => f[k + 1 - next.count] = "s"
  <2> HIDE DEF next
  <2>1. CASE f[k + 1] = "s"
    BY <1>1, <1>2, <2>1
  <2>2. CASE f[k + 1] # "s"
    <3>1. next.count = scan.count + 1
      BY <1>2, <2>2
    <3>2. /\ k + 1 - next.count = k - scan.count
          /\ \A m \in k - scan.count + 1 .. k + 1 : m \in k - scan.count + 1 .. k \/ m = k + 1
      BY <3>1, <1>1
    <3> QED BY <1>1, <2>2, <3>1, <3>2 DEF Knows
  <2> QED BY <2>1, <2>2
<1>7. next.count \in 0 .. k + 1
  BY <1>1, <1>2
<1> HIDE DEF next
<1>8. Knows(f, k + 1, next)
  BY <1>2, <1>4, <1>5, <1>6, <1>7 DEF Knows
<1> QED BY <1>8 DEF next

\* The loop over the characters counts the words that white space follows.
LEMMA ScanCounts ==
  ASSUME NEW f \in Texts
  PROVE  Scan(f) = CountsOf(f)
<1>1. PICK after : Scans(after, f, Len(f)) /\ Scan(f) = after[Len(f)].counts
  BY ScanIs
<1> DEFINE Bad == {k \in 0 .. Len(f) : ~Knows(f, k, after[k])}
<1>2. Len(f) \in Nat
  BY DEF Texts
<1>3. 0 \notin Bad
  <2>1. after[0] = [count |-> 0, counts |-> Zero]
    BY <1>1, <1>2 DEF Scans
  <2>2. \A l \in Lengths : EndsUpTo(f, 0, l) = {}
    BY DEF EndsUpTo, WordEnds, Texts
  <2>3. Zero = [l \in Lengths |-> Cardinality(EndsUpTo(f, 0, l))] /\ Zero \in [Lengths -> Nat]
    BY <2>2, FS_EmptySet DEF Zero
  <2> QED BY <2>1, <2>3 DEF Knows
<1>4. ASSUME NEW k \in 0 .. Len(f) - 1, k \notin Bad
      PROVE  k + 1 \notin Bad
  <2>1. after[k + 1] = ScanChar(after[k], f[k + 1])
    <3>1. k + 1 \in 0 .. Len(f) /\ k + 1 # 0 /\ k + 1 - 1 = k
      BY <1>2
    <3> QED BY <1>1, <3>1 DEF Scans
  <2>2. Knows(f, k, after[k])
    BY <1>2, <1>4
  <2> QED BY <2>1, <2>2, KnowsStep
<1>5. Bad = {}
  <2> SUFFICES ASSUME Bad # {} PROVE FALSE
    OBVIOUS
  <2>1. PICK k \in Bad : \A y \in Bad : k <= y
    <3>1. Bad \in SUBSET Nat
      BY <1>2
    <3> HIDE DEF Bad
    <3> QED BY <3>1, LeastNumber
  <2>2. k - 1 \in 0 .. Len(f) - 1 /\ k - 1 \notin Bad /\ k - 1 + 1 = k
    <3>1. k \in 0 .. Len(f) /\ k # 0
      BY <1>3, <2>1
    <3>2. k - 1 \in 0 .. Len(f) - 1 /\ ~(k <= k - 1) /\ k - 1 + 1 = k
      BY <3>1, <1>2
    <3> HIDE DEF Bad
    <3> QED BY <3>2, <2>1
  <2> HIDE DEF Bad
  <2> QED BY <1>4, <2>1, <2>2
<1>6. Knows(f, Len(f), after[Len(f)])
  BY <1>2, <1>5
<1>7. \A l \in Lengths : EndsUpTo(f, Len(f), l) = Spaced(f, l)
  <2>1. \A l \in Lengths : \A x \in WordEnds(f, l) : x < Len(f) <=> x # Len(f)
    BY <1>2 DEF WordEnds, Texts
  <2> QED BY <2>1 DEF EndsUpTo, Spaced
<1> QED BY <1>1, <1>6, <1>7 DEF Knows, CountsOf

\* There are finitely many words in a file.
LEMMA WordsFinite ==
  ASSUME NEW f \in Texts, NEW l \in Lengths
  PROVE  IsFiniteSet(WordEnds(f, l)) /\ IsFiniteSet(Spaced(f, l))
<1>1. Len(f) \in Int /\ 1 \in Int /\ DOMAIN f = 1 .. Len(f)
  BY DEF Texts
<1>2. IsFiniteSet(1 .. Len(f))
  BY <1>1, FS_Interval
<1>3. IsFiniteSet(WordEnds(f, l))
  BY <1>1, <1>2, FS_Subset DEF WordEnds
<1> QED BY <1>3, FS_Subset DEF Spaced

\* par_word_lengths.c:12-17: the number of words of each length is what a scan that stays
\* in its array counts if the text ends with white space; else it is one short for
\* the length of the last word.
THEOREM ScanCountsWords ==
  ASSUME NEW f \in Texts, ~Overruns(f)
  PROVE  /\ f # <<>> /\ f[Len(f)] = "s" =>
              Scan(f) = [l \in Lengths |-> Cardinality(WordEnds(f, l))]
         /\ \A l \in Lengths :
              Scan(f)[l] = Cardinality(WordEnds(f, l))
                             - (IF Len(f) \in WordEnds(f, l) THEN 1 ELSE 0)
<1>1. Scan(f) = [l \in Lengths |-> Cardinality(Spaced(f, l))]
  BY ScanCounts DEF CountsOf
<1>2. ASSUME f # <<>>, f[Len(f)] = "s", NEW l \in Lengths
      PROVE  Spaced(f, l) = WordEnds(f, l)
  <2>1. Len(f) \in Nat \ {0} /\ l \in Nat \ {0}
    BY <1>2, LengthAssumption DEF Texts, Lengths
  <2>2. Len(f) \in Len(f) - l + 1 .. Len(f)
    BY <2>1
  <2>3. Len(f) \notin WordEnds(f, l)
    BY <1>2, <2>2 DEF WordEnds, IsWord
  <2> QED BY <2>3 DEF Spaced
<1>3. ASSUME NEW l \in Lengths
      PROVE  Cardinality(Spaced(f, l)) = Cardinality(WordEnds(f, l))
                                           - (IF Len(f) \in WordEnds(f, l) THEN 1 ELSE 0)
  <2>1. Cardinality(WordEnds(f, l)) \in Nat /\ IsFiniteSet(WordEnds(f, l))
    BY WordsFinite, FS_CardinalityType
  <2>2. Cardinality(Spaced(f, l)) = IF Len(f) \in WordEnds(f, l)
                                    THEN Cardinality(WordEnds(f, l)) - 1
                                    ELSE Cardinality(WordEnds(f, l))
    BY <2>1, FS_RemoveElement DEF Spaced
  <2> QED BY <2>1, <2>2
<1>4. f # <<>> /\ f[Len(f)] = "s" => Scan(f) = [l \in Lengths |-> Cardinality(WordEnds(f, l))]
  BY <1>1, <1>2
<1>5. \A l \in Lengths : Scan(f)[l] = Cardinality(Spaced(f, l))
  BY <1>1
<1> QED BY <1>3, <1>4, <1>5

-------------------------------------------------------------------------------
(* What the pipes carry and main adds *)

\* The words of length l in the files up to j, each with its file.
TextsBefore(j, l) == UNION {{k} \X Spaced(file[k], l) : k \in 1 .. j}
AllWell == \A k \in Ids : k < i => child[k] = "ok" /\ ~Overruns(file[k])

Types ==
  /\ file \in [Ids -> Files]
  /\ child \in [Ids -> {"none", "counting", "ok", "failed"}]
  /\ pipe \in [Ids -> {<<>>} \union {<<c>> : c \in [Lengths -> Int]}]
  /\ writers \in [Ids -> SUBSET (Ids \union {0})]
  /\ stage \in {"fork", "wait", "read", "print", "exited"}
  /\ i \in Nat \ {0}
  /\ counts \in [Lengths -> Int] /\ temp_counts \in [Lengths -> Int]
  /\ stage = "wait" => i <= N + 1
  /\ stage = "read" => i <= N

\* Where the counts of a file are: with its child, in its pipe, or added by main.
Carried ==
  /\ stage = "fork" => counts = Zero /\ \A k \in Ids : k >= i => child[k] = "none"
  /\ stage # "fork" => \A k \in Ids : k < i => child[k] # "counting"
  /\ \A k \in Ids :
       /\ pipe[k] # <<>> => child[k] \in {"ok", "failed"}
       /\ pipe[k] # <<>> /\ ~Overruns(file[k]) => pipe[k] = <<CountsOf(file[k])>>
       /\ child[k] = "counting" => k \in writers[k]
       /\ child[k] = "ok" => file[k] # NoFile
       /\ child[k] = "ok" /\ ~Overruns(file[k]) /\ pipe[k] = <<>> => stage # "fork" /\ k < i

Totals ==
  stage # "fork" /\ AllWell =>
    \A l \in Lengths :
      IsFiniteSet(TextsBefore(i - 1, l)) /\ counts[l] = Cardinality(TextsBefore(i - 1, l))

CInv == Types /\ Carried /\ Totals

\* Counts are numbers.
LEMMA CountsOfType ==
  ASSUME NEW f \in Texts
  PROVE  /\ CountsOf(f) \in [Lengths -> Nat]
         /\ \A l \in Lengths : IsFiniteSet(Spaced(f, l)) /\ CountsOf(f)[l] = Cardinality(Spaced(f, l))
  BY WordsFinite, FS_CardinalityType DEF CountsOf

\* The words of one file more.
LEMMA OneFileMore ==
  ASSUME NEW j \in Nat, NEW l \in Lengths, IsFiniteSet(TextsBefore(j, l)),
         file[j + 1] \in Texts
  PROVE  /\ IsFiniteSet(TextsBefore(j + 1, l))
         /\ Cardinality(TextsBefore(j + 1, l))
              = Cardinality(TextsBefore(j, l)) + CountsOf(file[j + 1])[l]
<1> DEFINE Before == TextsBefore(j, l)
           Here == {j + 1} \X Spaced(file[j + 1], l)
<1>1. TextsBefore(j + 1, l) = Before \union Here
  <2>1. 1 .. j + 1 = (1 .. j) \union {j + 1}
    OBVIOUS
  <2> QED BY <2>1 DEF TextsBefore
<1>2. Before \intersect Here = {}
  <2>1. j + 1 \notin 1 .. j
    OBVIOUS
  <2> QED BY <2>1 DEF TextsBefore
<1>3. IsFiniteSet(Spaced(file[j + 1], l)) /\ Cardinality(Spaced(file[j + 1], l)) \in Nat
      /\ CountsOf(file[j + 1])[l] = Cardinality(Spaced(file[j + 1], l))
  BY CountsOfType, FS_CardinalityType
<1>4. IsFiniteSet({j + 1}) /\ Cardinality({j + 1}) = 1
  BY FS_Singleton
<1>5. IsFiniteSet(Here) /\ Cardinality(Here) = Cardinality(Spaced(file[j + 1], l))
  BY <1>3, <1>4, FS_Product
<1>6. Cardinality(Before \intersect Here) = 0 /\ Cardinality(Before) \in Nat
  BY <1>2, FS_EmptySet, FS_CardinalityType
<1> HIDE DEF Before, Here
<1>7. IsFiniteSet(Before)
  BY DEF Before
<1>8. IsFiniteSet(Before \union Here) /\
      Cardinality(Before \union Here) = Cardinality(Before) + Cardinality(Here) - Cardinality(Before \intersect Here)
  BY <1>5, <1>7, FS_Union
<1>9. IsFiniteSet(TextsBefore(j + 1, l)) /\ Cardinality(TextsBefore(j + 1, l)) = Cardinality(Before) + CountsOf(file[j + 1])[l]
  <2>1. Cardinality(Before \union Here) = Cardinality(Before) + Cardinality(Here)
    <3>1. Cardinality(Here) \in Nat
      BY <1>3, <1>5
    <3> QED BY <3>1, <1>6, <1>8
  <2> QED BY <1>1, <1>3, <1>5, <1>8, <2>1
<1> QED BY <1>9 DEF Before

\* A file that can be opened is a text.
LEMMA TextOfFile ==
  ASSUME Types, NEW k \in Ids, file[k] # NoFile
  PROVE  file[k] \in Texts
  BY FilesAssumption DEF Types, Texts

\* A step of a child leaves main's totals alone.
LEMMA ChildCarries ==
  ASSUME CInv, NEW k \in Ids, ChildStep(k)
  PROVE  CInv'
<1>1. UNCHANGED <<file, stage, i, counts, temp_counts>> /\ child[k] = "counting"
  BY DEF ChildStep, ChildCounts, ChildOverruns, ChildFails, Exits
<1>2. /\ child' = [child EXCEPT ![k] = child'[k]] /\ child'[k] \in {"ok", "failed"}
      /\ writers' = [j \in Ids |-> writers[j] \ {k}]
      /\ stage # "fork" => ~(k < i)
  BY <1>1 DEF ChildStep, ChildCounts, ChildOverruns, ChildFails, Exits, CInv, Types, Carried
<1>3. /\ pipe' = [pipe EXCEPT ![k] = pipe'[k]]
      /\ pipe'[k] \in {<<>>} \union {<<c>> : c \in [Lengths -> Int]}
      /\ child'[k] = "ok" => file[k] # NoFile
      /\ ~Overruns(file[k]) /\ pipe'[k] # <<>> => pipe'[k] = <<CountsOf(file[k])>>
      /\ ~Overruns(file[k]) /\ child'[k] = "ok" => pipe'[k] # <<>>
  <2>1. pipe[k] = <<>> /\ DOMAIN pipe = Ids /\ DOMAIN child = Ids
    BY <1>1 DEF CInv, Carried, Types
  <2>2. CASE ChildFails(k)
    BY <2>1, <2>2 DEF ChildFails, Exits, CInv, Types
  <2>3. CASE ChildOverruns(k)
    <3>1. PICK written \in {<<>>} \union {<<c>> : c \in Arrays} : pipe' = [pipe EXCEPT ![k] = written]
      BY <2>3 DEF ChildOverruns
    <3>2. written \in {<<>>} \union {<<c>> : c \in [Lengths -> Int]}
      BY <3>1, ArraysAssumption DEF Lengths
    <3> QED BY <2>1, <2>3, <3>1, <3>2 DEF ChildOverruns
  <2>4. CASE ChildCounts(k)
    <3>1. file[k] \in Texts
      BY <2>4, TextOfFile DEF ChildCounts, CInv
    <3>2. Scan(file[k]) = CountsOf(file[k]) /\ CountsOf(file[k]) \in [Lengths -> Int]
      BY <3>1, ScanCounts, CountsOfType
    <3>3. pipe' = [pipe EXCEPT ![k] = <<CountsOf(file[k])>>]
      BY <2>4, <3>2 DEF ChildCounts
    <3> QED BY <2>1, <2>4, <3>2, <3>3 DEF ChildCounts
  <2> QED BY <2>2, <2>3, <2>4 DEF ChildStep
<1>4. Types'
  <2>1. pipe' \in [Ids -> {<<>>} \union {<<c>> : c \in [Lengths -> Int]}]
    BY <1>3 DEF CInv, Types
  <2> QED BY <1>1, <1>2, <2>1 DEF CInv, Types
<1>5. ASSUME NEW m \in Ids, m # k
      PROVE  child'[m] = child[m] /\ pipe'[m] = pipe[m] /\ (m \in writers[m] => m \in writers'[m])
  BY <1>2, <1>3, <1>5 DEF CInv, Types
<1>6. Carried'
  <2>1. /\ pipe'[k] # <<>> /\ ~Overruns(file'[k]) => pipe'[k] = <<CountsOf(file'[k])>>
        /\ child'[k] = "ok" => file'[k] # NoFile
        /\ ~(child'[k] = "ok" /\ ~Overruns(file'[k]) /\ pipe'[k] = <<>>)
    BY <1>1, <1>3
  <2>2. ASSUME NEW m \in Ids
        PROVE  /\ pipe'[m] # <<>> => child'[m] \in {"ok", "failed"}
               /\ pipe'[m] # <<>> /\ ~Overruns(file'[m]) => pipe'[m] = <<CountsOf(file'[m])>>
               /\ child'[m] = "counting" => m \in writers'[m]
               /\ child'[m] = "ok" => file'[m] # NoFile
               /\ child'[m] = "ok" /\ ~Overruns(file'[m]) /\ pipe'[m] = <<>>
                    => stage # "fork" /\ m < i
    <3>1. CASE m = k
      BY <1>2, <2>1, <3>1
    <3>2. CASE m # k
      <4>1. file'[m] = file[m] /\ CountsOf(file'[m]) = CountsOf(file[m])
        BY <1>1
      <4> QED BY <1>5, <3>2, <4>1 DEF CInv, Carried
    <3> QED BY <3>1, <3>2
  <2>3. /\ stage = "fork" => counts = Zero /\ \A m \in Ids : m >= i => child'[m] = "none"
        /\ stage # "fork" => \A m \in Ids : m < i => child'[m] # "counting"
    BY <1>1, <1>2, <1>5 DEF CInv, Carried
  <2> QED BY <1>1, <2>2, <2>3 DEF Carried
<1>7. Totals'
  <2>1. stage # "fork" /\ AllWell' => AllWell
    <3> SUFFICES ASSUME stage # "fork", AllWell', NEW m \in Ids, m < i
                 PROVE  child[m] = "ok" /\ ~Overruns(file[m])
      BY DEF AllWell
    <3>1. child'[m] = "ok" /\ ~Overruns(file'[m])
      BY <1>1 DEF AllWell
    <3>2. m # k
      BY <1>2
    <3>3. child'[m] = child[m]
      BY <1>2, <3>2 DEF CInv, Types
    <3> QED BY <1>1, <3>1, <3>3
  <2>2. \A l \in Lengths : TextsBefore(i - 1, l)' = TextsBefore(i - 1, l)
    BY <1>1 DEF TextsBefore
  <2> QED BY <1>1, <2>1, <2>2 DEF CInv, Totals
<1> QED BY <1>4, <1>6, <1>7 DEF CInv

\* Nothing was forked where main forks next.
LEMMA ForkCarries ==
  ASSUME CInv, Fork \/ ForkFails
  PROVE  CInv'
<1>1. /\ stage = "fork" /\ i \in Ids /\ stage' = "fork" /\ i' = i + 1
      /\ UNCHANGED <<file, pipe, counts, temp_counts>>
      /\ child[i] = "none"
  BY DEF Fork, ForkFails, CInv, Types, Carried, Ids
<1>2. Types'
  <2>1. /\ child' \in [Ids -> {"none", "counting", "ok", "failed"}]
        /\ writers' \in [Ids -> SUBSET (Ids \union {0})]
    <3>1. /\ child \in [Ids -> {"none", "counting", "ok", "failed"}]
          /\ writers \in [Ids -> SUBSET (Ids \union {0})]
      BY DEF CInv, Types
    <3>2. \/ /\ child' = [child EXCEPT ![i] = "counting"]
             /\ writers' = [writers EXCEPT ![i] = {i}]
          \/ UNCHANGED <<child, writers>>
      BY DEF Fork, ForkFails
    <3> QED BY <1>1, <3>1, <3>2
  <2> QED BY <1>1, <2>1 DEF CInv, Types
<1>3. Carried'
  <2>1. CASE Fork
    BY <1>1, <2>1 DEF Fork, CInv, Types, Carried, Ids
  <2>2. CASE ForkFails
    BY <1>1, <2>2 DEF ForkFails, CInv, Types, Carried, Ids
  <2> QED BY <2>1, <2>2
<1>4. Totals'
  BY <1>1 DEF Totals
<1> QED BY <1>2, <1>3, <1>4 DEF CInv

\* main starts adding with the first file.
LEMMA ForkedCarries ==
  ASSUME CInv, Forked
  PROVE  CInv'
<1>1. /\ stage = "fork" /\ stage' = "wait" /\ i > N /\ i' = 1
      /\ UNCHANGED <<file, child, pipe, writers, counts, temp_counts>>
      /\ counts = Zero
  BY DEF Forked, CInv, Carried
<1>2. Types'
  BY <1>1, NAssumption DEF CInv, Types
<1>3. Carried'
  BY <1>1 DEF CInv, Types, Carried, Ids
<1>4. Totals'
  <2>1. \A l \in Lengths : TextsBefore(0, l) = {} /\ counts[l] = 0
    BY <1>1 DEF TextsBefore, Zero
  <2>2. i' - 1 = 0
    BY <1>1
  <2>3. \A l \in Lengths : TextsBefore(i - 1, l)' = {}
    BY <1>1, <2>2 DEF TextsBefore
  <2> QED BY <1>1, <2>1, <2>3, FS_EmptySet DEF Totals
<1> QED BY <1>2, <1>3, <1>4 DEF CInv

\* What main does beside forking and reading leaves pipes and totals alone.
LEMMA WaitCarries ==
  ASSUME CInv, Wait \/ WaitNone \/ Done \/ PrintTotals \/ UNCHANGED vars
  PROVE  CInv'
<1>1. /\ UNCHANGED <<file, child, pipe, writers, i, counts, temp_counts>>
      /\ stage' = stage \/ (stage # "fork" /\ stage' # "fork")
      /\ stage' \in {"fork", "wait", "read", "print", "exited"}
      /\ stage' \in {"wait", "fork"} => stage' = stage
      /\ stage' = "read" => i <= N
  BY DEF Wait, WaitNone, Waited, Done, PrintTotals, vars, CInv, Types
<1>2. Types'
  BY <1>1 DEF CInv, Types
<1>3. Carried'
  BY <1>1 DEF CInv, Carried
<1>4. Totals'
  <2>1. \A l \in Lengths : TextsBefore(i - 1, l)' = TextsBefore(i - 1, l)
    BY <1>1 DEF TextsBefore
  <2> QED BY <1>1, <2>1 DEF CInv, Totals, AllWell
<1> QED BY <1>2, <1>3, <1>4 DEF CInv

\* The pipe main reads is empty only when its child has failed.
LEMMA ReadCarries ==
  ASSUME CInv, Read
  PROVE  CInv'
<1>1. /\ stage = "read" /\ stage' = "wait" /\ i' = i + 1 /\ i \in Ids
      /\ UNCHANGED <<file, child, writers>>
      /\ pipe' = [pipe EXCEPT ![i] = <<>>]
      /\ temp_counts' = IF pipe[i] = <<>> THEN temp_counts ELSE Head(pipe[i])
      /\ counts' = Plus(counts, temp_counts')
      /\ pipe[i] # <<>> \/ writers[i] = {}
  BY DEF Read, CInv, Types, Ids
<1>2. child[i] # "counting"
  BY <1>1 DEF CInv, Carried
<1>3. ASSUME AllWell'
      PROVE  /\ temp_counts' = CountsOf(file[i]) /\ file[i] \in Texts
             /\ CountsOf(file[i]) \in [Lengths -> Nat] /\ AllWell
  <2>1. AllWell /\ child[i] = "ok" /\ ~Overruns(file[i])
    <3>1. i < i' /\ \A m \in Ids : m < i => m < i'
      BY <1>1 DEF CInv, Types, Ids
    <3> QED BY <1>1, <1>3, <3>1 DEF AllWell
  <2>2. file[i] # NoFile /\ pipe[i] # <<>>
    BY <1>1, <2>1 DEF CInv, Carried, Types
  <2>3. file[i] \in Texts
    BY <1>1, <2>2, TextOfFile DEF CInv
  <2>4. pipe[i] = <<CountsOf(file[i])>>
    BY <1>1, <2>1, <2>2 DEF CInv, Carried
  <2> QED BY <1>1, <2>1, <2>2, <2>3, <2>4, CountsOfType
<1>4. temp_counts' \in [Lengths -> Int] /\ counts' \in [Lengths -> Int]
  <2>1. temp_counts' \in [Lengths -> Int]
    BY <1>1 DEF CInv, Types
  <2> QED BY <1>1, <2>1 DEF CInv, Types, Plus
<1>5. Types'
  <2>1. pipe' \in [Ids -> {<<>>} \union {<<c>> : c \in [Lengths -> Int]}]
    BY <1>1 DEF CInv, Types
  <2> QED BY <1>1, <1>4, <2>1, NAssumption DEF CInv, Types, Ids
<1>6. Carried'
  <2>1. ASSUME NEW m \in Ids, m # i
        PROVE  pipe'[m] = pipe[m] /\ (m < i + 1 => m < i)
    BY <1>1, <2>1 DEF CInv, Types, Ids
  <2>2. pipe'[i] = <<>> /\ i < i + 1
    BY <1>1 DEF CInv, Types
  <2>3. \A m \in Ids : m < i + 1 => child[m] # "counting"
    BY <1>1, <1>2, <2>1 DEF CInv, Carried
  <2>4. \A m \in Ids : CountsOf(file'[m]) = CountsOf(file[m])
    BY <1>1
  <2>5. ASSUME NEW m \in Ids
        PROVE  /\ pipe'[m] # <<>> => child[m] \in {"ok", "failed"}
               /\ pipe'[m] # <<>> /\ ~Overruns(file[m]) => pipe'[m] = <<CountsOf(file[m])>>
               /\ child[m] = "counting" => m \in writers[m]
               /\ child[m] = "ok" => file[m] # NoFile
               /\ child[m] = "ok" /\ ~Overruns(file[m]) /\ pipe'[m] = <<>> => m < i + 1
    <3>1. i \in Nat /\ m \in Nat /\ (m < i => m < i + 1)
      BY DEF CInv, Types, Ids
    <3> QED BY <1>1, <2>1, <2>2, <3>1 DEF CInv, Carried
  <2> QED BY <1>1, <2>3, <2>4, <2>5 DEF Carried
<1>7. Totals'
  <2> SUFFICES ASSUME AllWell', NEW l \in Lengths
               PROVE  /\ IsFiniteSet(TextsBefore(i, l))
                      /\ counts'[l] = Cardinality(TextsBefore(i, l))
    <3>1. i' - 1 = i
      BY <1>1 DEF CInv, Types
    <3>2. \A l \in Lengths : TextsBefore(i - 1, l)' = TextsBefore(i, l)
      BY <1>1, <3>1 DEF TextsBefore
    <3> QED BY <1>1, <3>2 DEF Totals
  <2>1. /\ i - 1 \in Nat /\ i - 1 + 1 = i
        /\ IsFiniteSet(TextsBefore(i - 1, l)) /\ counts[l] = Cardinality(TextsBefore(i - 1, l))
    BY <1>1, <1>3 DEF CInv, Types, Totals
  <2>2. /\ IsFiniteSet(TextsBefore(i, l))
        /\ Cardinality(TextsBefore(i, l)) = Cardinality(TextsBefore(i - 1, l)) + CountsOf(file[i])[l]
    BY <1>3, <2>1, OneFileMore
  <2>3. counts'[l] = counts[l] + CountsOf(file[i])[l]
    BY <1>1, <1>3 DEF Plus
  <2> QED BY <2>1, <2>2, <2>3
<1> QED BY <1>5, <1>6, <1>7 DEF CInv

\* par_word_lengths.c:133-149: the counts of each file are with its child, in its pipe or in
\* main's totals.
THEOREM CountsCarried == WordSpec => []CInv
<1>1. WordInit => CInv
  <2> SUFFICES ASSUME WordInit PROVE CInv
    OBVIOUS
  <2>1. Types
    BY DEF WordInit, Types, Zero
  <2>2. Carried
    BY DEF WordInit, Carried
  <2>3. Totals
    BY DEF WordInit, Totals
  <2> QED BY <2>1, <2>2, <2>3 DEF CInv
<1>2. CInv /\ [WordNext]_vars => CInv'
  BY ChildCarries, ForkCarries, ForkedCarries, WaitCarries, ReadCarries
     DEF WordNext, MainForks, MainStep
<1> QED BY <1>1, <1>2, PTL DEF WordSpec

\* par_word_lengths.c:12-17: what a child that stays in its array writes to its pipe is the
\* number of words of each length in its file, but for a last word without white space
\* behind it.
THEOREM PipesCarryCounts == WordSpec => []PipeCarriesCounts
<1>1. CInv => PipeCarriesCounts
  BY DEF CInv, Carried, PipeCarriesCounts
<1> QED BY <1>1, CountsCarried, PTL

\* par_word_lengths.c:140: what main has added is the number of words of each length that
\* white space follows in the files before the one it is at, if all is well with those.
THEOREM TotalsRight == WordSpec => []RunningTotal
<1>1. CInv => RunningTotal
  <2> SUFFICES ASSUME CInv, stage # "fork",
                      \A k \in 1 .. i - 1 : child[k] = "ok" /\ ~Overruns(file[k])
               PROVE  counts = [l \in Lengths |-> Cardinality(TextsBefore(i - 1, l))]
    BY DEF RunningTotal, TextsBefore
  <2>1. i \in Nat \ {0}
    BY DEF CInv, Types
  <2>2. ASSUME NEW k \in Ids, k < i
        PROVE  k \in 1 .. i - 1
    BY <2>1, <2>2, NAssumption DEF Ids
  <2>3. AllWell
    BY <2>2 DEF AllWell
  <2> QED BY <2>3 DEF CInv, Totals, Types
<1> QED BY <1>1, CountsCarried, PTL

-------------------------------------------------------------------------------
(* What the waits return *)

ShapeOK ==
  /\ stage \in {"fork", "wait", "read", "print", "exited"}
  /\ i \in Nat \ {0}
  /\ child \in [Ids -> {"none", "counting", "ok", "failed"}]
  /\ reaped \in SUBSET {k \in Ids : child[k] \in {"ok", "failed"}}
  /\ stage = "fork" => reaped = {}
  /\ stage = "wait" => i <= N + 1
  /\ stage = "read" => i <= N

NoneLeft == \A k \in Ids \ reaped : child[k] = "none"
EndedWell == \A k \in reaped : child[k] = "ok"

Awaited ==
  /\ stage = "wait" => EndedWell /\ (Cardinality(reaped) = i - 1 \/ NoneLeft)
  /\ stage = "read" => EndedWell /\ (Cardinality(reaped) = i \/ NoneLeft)
  /\ stage \in {"print", "exited"} /\ exit_code = "ok" =>
       EndedWell /\ (reaped = Ids \/ NoneLeft)

WInv == ShapeOK /\ Awaited

\* A child that ends was forked and has not been awaited.
LEMMA ChildKeeps ==
  ASSUME WInv, NEW k \in Ids, ChildStep(k)
  PROVE  WInv'
<1>1. PICK status \in {"ok", "failed"} :
        child[k] = "counting" /\ child' = [child EXCEPT ![k] = status]
  BY DEF ChildStep, ChildCounts, ChildOverruns, ChildFails, Exits
<1>2. UNCHANGED <<stage, i, reaped, exit_code>>
  BY DEF ChildStep, ChildCounts, ChildOverruns, ChildFails, Exits
<1>3. k \notin reaped /\ ~NoneLeft
  BY <1>1 DEF WInv, ShapeOK, NoneLeft
<1>4. ShapeOK'
  BY <1>1, <1>2, <1>3 DEF WInv, ShapeOK
<1>5. EndedWell => EndedWell'
  BY <1>1, <1>2, <1>3 DEF WInv, ShapeOK, EndedWell
<1> QED BY <1>2, <1>3, <1>4, <1>5 DEF WInv, Awaited

\* wait returns a child that was not returned before.
LEMMA WaitKeeps ==
  ASSUME WInv, Wait
  PROVE  WInv'
<1>1. PICK k \in Ids \ reaped :
        /\ child[k] \in {"ok", "failed"}
        /\ reaped' = reaped \union {k}
        /\ exit_code' = child[k]
  BY DEF Wait
<1>2. /\ stage = "wait" /\ i <= N /\ UNCHANGED <<child, i>>
      /\ stage' = IF exit_code' = "ok" THEN "read" ELSE "print"
  BY DEF Wait, Waited
<1>3. ShapeOK'
  BY <1>1, <1>2 DEF WInv, ShapeOK
<1>4. Cardinality(reaped') = i
  <2>1. IsFiniteSet(reaped)
    <3>1. IsFiniteSet(Ids)
      BY NAssumption, FS_Interval DEF Ids
    <3> QED BY <3>1, FS_Subset DEF WInv, ShapeOK
  <2>2. Cardinality(reaped) = i - 1
    BY <1>1, <1>2 DEF WInv, Awaited, NoneLeft
  <2>3. Cardinality(reaped') = Cardinality(reaped) + 1
    BY <1>1, <2>1, FS_AddElement
  <2> QED BY <2>2, <2>3 DEF WInv, ShapeOK
<1>5. exit_code' = "ok" => EndedWell'
  BY <1>1, <1>2 DEF WInv, Awaited, EndedWell
<1> QED BY <1>1, <1>2, <1>3, <1>4, <1>5 DEF WInv, Awaited

\* Behind the last file every wait has returned a child, or none was left.
LEMMA DoneKeeps ==
  ASSUME WInv, Done
  PROVE  WInv'
<1>1. /\ stage = "wait" /\ stage' = "print" /\ i = N + 1
      /\ UNCHANGED <<child, reaped, i, exit_code>>
  BY NAssumption DEF WInv, ShapeOK, Done
<1>2. IsFiniteSet(Ids) /\ Cardinality(Ids) = N
  BY NAssumption, FS_Interval DEF Ids
<1>3. Cardinality(reaped) = N => reaped = Ids
  BY <1>2, FS_Subset DEF WInv, ShapeOK
<1>4. EndedWell /\ (reaped = Ids \/ NoneLeft)
  BY NAssumption, <1>1, <1>3 DEF WInv, Awaited
<1> QED BY <1>1, <1>4 DEF WInv, ShapeOK, Awaited, EndedWell, NoneLeft

\* Nobody is awaited while children are forked.
LEMMA ForkKeeps ==
  ASSUME WInv, Fork \/ ForkFails \/ Forked
  PROVE  WInv'
<1>1. stage = "fork" /\ reaped = {} /\ UNCHANGED reaped
  BY DEF WInv, ShapeOK, Fork, ForkFails, Forked
<1>2. CASE Fork
  BY <1>1, <1>2, NAssumption DEF Fork, WInv, ShapeOK, Awaited, Ids
<1>3. CASE ForkFails
  BY <1>1, <1>3 DEF ForkFails, WInv, ShapeOK, Awaited
<1>4. CASE Forked
  <2>1. Cardinality(reaped') = 0
    BY <1>1, FS_EmptySet
  <2> QED BY <1>1, <1>4, <2>1, NAssumption DEF Forked, WInv, ShapeOK, Awaited, EndedWell
<1> QED BY <1>2, <1>3, <1>4

\* par_word_lengths.c:125-149: behind each wait main has been given a child of its own,
\* or there is none left, and every child it was given ended well.
THEOREM WaitsCounted == WordSpec => []WInv
<1>1. WordInit => WInv
  BY DEF WordInit, WInv, ShapeOK, Awaited
<1>2. WInv /\ [WordNext]_vars => WInv'
  <2> SUFFICES ASSUME WInv, [WordNext]_vars PROVE WInv'
    OBVIOUS
  <2>1. CASE Fork \/ ForkFails \/ Forked
    BY <2>1, ForkKeeps
  <2>2. CASE Wait
    BY <2>2, WaitKeeps
  <2>3. CASE WaitNone
    <3>1. /\ stage = "wait" /\ i <= N /\ NoneLeft
          /\ UNCHANGED <<child, reaped, i, exit_code>>
          /\ stage' = IF exit_code = "ok" THEN "read" ELSE "print"
      BY <2>3 DEF WaitNone, Waited, NoneLeft
    <3>2. ShapeOK'
      BY <3>1 DEF WInv, ShapeOK
    <3>3. NoneLeft' /\ EndedWell'
      BY <3>1 DEF WInv, Awaited, NoneLeft, EndedWell
    <3> QED BY <3>1, <3>2, <3>3 DEF WInv, Awaited
  <2>4. CASE Read
    <3>1. /\ stage = "read" /\ stage' = "wait" /\ i' = i + 1
          /\ UNCHANGED <<child, reaped>>
      BY <2>4 DEF Read
    <3>2. ShapeOK'
      BY NAssumption, <3>1 DEF WInv, ShapeOK
    <3>3. Cardinality(reaped) = i => Cardinality(reaped') = i' - 1
      BY <3>1 DEF WInv, ShapeOK
    <3>4. EndedWell' /\ (Cardinality(reaped') = i' - 1 \/ NoneLeft')
      BY <3>1, <3>3 DEF WInv, Awaited, NoneLeft, EndedWell
    <3> QED BY <3>1, <3>2, <3>4 DEF Awaited, WInv
  <2>5. CASE Done
    BY <2>5, DoneKeeps
  <2>6. CASE PrintTotals
    BY <2>6 DEF PrintTotals, WInv, ShapeOK, Awaited, NoneLeft, EndedWell
  <2>7. ASSUME NEW k \in Ids, ChildStep(k) PROVE WInv'
    BY <2>7, ChildKeeps
  <2>8. CASE UNCHANGED vars
    BY <2>8 DEF vars, WInv, ShapeOK, Awaited, NoneLeft, EndedWell
  <2> QED BY <2>1, <2>2, <2>3, <2>4, <2>5, <2>6, <2>7, <2>8 DEF WordNext, MainForks, MainStep
<1> QED BY <1>1, <1>2, PTL DEF WordSpec

\* par_word_lengths.c:128: what main prints as complete is complete: it has waited for
\* every child that was forked, and all of them ended well.
THEOREM FailuresNoticed == WordSpec => []FailureNoticed
<1>1. WInv => FailureNoticed
  BY DEF WInv, ShapeOK, Awaited, NoneLeft, EndedWell, FailureNoticed
<1> QED BY <1>1, WaitsCounted, PTL
===============================================================================
