--------------------------- MODULE MinimizerProofs ---------------------------
(***************************************************************************)
(* What the minimizer says of a violation is true, for any inputs, regions *)
(* and rounds that miss the violation.                                     *)
(***************************************************************************)
EXTENDS Minimizer, TLAPS, WellFoundedInduction, SequenceTheorems

-----------------------------------------------------------------------------
(* Least and largest numbers.                                              *)

LEMMA LeastNumber ==
    ASSUME NEW S \in SUBSET Nat, S # {}
    PROVE  \E k \in S : \A j \in S : k <= j
<1>1. PICK k \in S : \A j \in S : ~(<<j, k>> \in OpToRel(<, Nat))
  BY NatLessThanWellFounded, WFMin
<1>2. \A j \in S : <<j, k>> \in OpToRel(<, Nat) <=> j < k
  BY DEF OpToRel
<1>3. \A j \in S : ~(j < k)
  BY <1>1, <1>2, Zenon
<1> QED BY <1>3

LEMMA MinFacts ==
    ASSUME NEW S \in SUBSET Nat, S # {}
    PROVE  Min(S) \in S /\ \A x \in S : Min(S) <= x
BY LeastNumber DEF Min

\* The least upper bound of a set of numbers is one of them.
LEMMA MaxFacts ==
    ASSUME NEW S \in SUBSET Nat, S # {}, NEW b \in Nat, \A x \in S : x <= b
    PROVE  Max(S) \in S /\ \A x \in S : Max(S) >= x
<1> DEFINE Bounds == {n \in Nat : \A x \in S : x <= n}
<1>1. b \in Bounds /\ Bounds \in SUBSET Nat
  OBVIOUS
<1>2. PICK m \in Bounds : \A n \in Bounds : m <= n
  BY <1>1, LeastNumber
<1>3. m \in Nat /\ \A x \in S : x <= m
  BY <1>2
<1>4. m \in S
  <2>1. SUFFICES ASSUME m \notin S PROVE FALSE
    OBVIOUS
  <2>2. \A x \in S : x \in Nat /\ x < m
    BY <1>3, <2>1
  <2>3. m - 1 \in Nat /\ \A x \in S : x <= m - 1
    <3>1. PICK y \in S : TRUE
      OBVIOUS
    <3>2. y \in Nat /\ y < m
      BY <2>2, <3>1
    <3> QED BY <1>3, <2>2, <3>2
  <2>4. m - 1 \in Bounds
    BY <2>3
  <2> QED BY <1>2, <1>3, <2>4
<1>5. \E x \in S : \A y \in S : x >= y
  BY <1>3, <1>4
<1> QED BY <1>5 DEF Max

\* A sequence of numbers has an upper bound.
LEMMA SeqBounded ==
    ASSUME NEW n \in Nat, NEW f \in [1 .. n -> Nat]
    PROVE  \E b \in Nat : \A i \in 1 .. n : f[i] <= b
<1> DEFINE Bad == {k \in Nat : k <= n /\ ~\E b \in Nat : \A i \in 1 .. k : f[i] <= b}
<1>1. SUFFICES ASSUME Bad # {} PROVE FALSE
  BY n <= n
<1>2. PICK k \in Bad : \A j \in Bad : k <= j
  BY <1>1, LeastNumber
<1>3. k \in Nat /\ k <= n /\ ~\E b \in Nat : \A i \in 1 .. k : f[i] <= b
  BY <1>2
<1>4. k # 0
  <2>1. \A i \in 1 .. 0 : f[i] <= 0
    OBVIOUS
  <2> QED BY <1>3, <2>1
<1>5. k - 1 \in Nat /\ k - 1 <= n /\ k - 1 \notin Bad
  <2>1. k - 1 \in Nat /\ k - 1 < k /\ k - 1 <= n
    BY <1>3, <1>4
  <2> HIDE DEF Bad
  <2> QED BY <1>2, <1>3, <2>1
<1>6. PICK b \in Nat : \A i \in 1 .. k - 1 : f[i] <= b
  BY <1>5
<1>7. f[k] \in Nat
  BY <1>3, <1>4
<1>8. \A i \in 1 .. k : f[i] <= b + f[k]
  <2> TAKE i \in 1 .. k
  <2>1. f[i] \in Nat
    BY <1>3
  <2>2. CASE i = k
    BY <2>2, <1>7
  <2>3. CASE i # k
    <3>1. i \in 1 .. k - 1
      BY <2>3, <1>3
    <3>2. f[i] <= b
      BY <3>1, <1>6
    <3> QED BY <3>2, <2>1, <1>7
  <2> QED BY <2>2, <2>3
<1>9. b + f[k] \in Nat
  BY <1>7
<1> QED BY <1>3, <1>8, <1>9

-----------------------------------------------------------------------------
(* Input sequences.                                                        *)

Inp == [obj : Nat, w : [1 .. Words -> Nat]]

LEMMA Constants ==
    /\ Retries \in Nat /\ Retries > 0 /\ MaxNoise \in Nat
    /\ HalveAbove \in Nat /\ HalveAbove > 0 /\ MaxBlock \in Nat /\ MaxBlock > 0
BY MinimizerAssumption

LEMMA Regions ==
    /\ Len(RegionEnds) \in Nat /\ Len(RegionEnds) > 0 /\ Words \in Nat /\ Words > 0
    /\ \A r \in 1 .. Len(RegionEnds) : RegionEnds[r] \in Nat /\ RegionEnds[r] > 0
    /\ \A q, r \in 1 .. Len(RegionEnds) : q < r => RegionEnds[q] < RegionEnds[r]
    /\ Words = RegionEnds[Len(RegionEnds)]
<1>1. RegionEnds \in Seq(Nat \ {0}) /\ RegionEnds # <<>>
  BY MinimizerAssumption
<1>2. \A q, r \in 1 .. Len(RegionEnds) : q < r => RegionEnds[q] < RegionEnds[r]
  BY <1>1, MinimizerAssumption
<1>3. Len(RegionEnds) \in Nat /\ Len(RegionEnds) > 0
  BY <1>1
<1>4. \A r \in 1 .. Len(RegionEnds) : RegionEnds[r] \in Nat /\ RegionEnds[r] > 0
  BY <1>1
<1> QED BY <1>2, <1>3, <1>4 DEF Words

LEMMA ScenarioFacts ==
    ASSUME NEW s \in Scenarios
    PROVE  /\ s.inputs \in InputSeqs /\ s.leak \in 1 .. Words
           /\ s.ipc \in Nat \ {0} /\ s.input_passes \in Seq({"seq", "diff"})
BY MinimizerAssumption

LEMMA InputSeqFacts ==
    ASSUME NEW s \in InputSeqs
    PROVE  /\ s \in Seq(Inp) /\ Len(s) \in Nat /\ DOMAIN s = 1 .. Len(s)
           /\ \A i \in DOMAIN s : s[i] \in Inp
           /\ \A i, j \in DOMAIN s : s[i].obj = s[j].obj => i = j
<1>1. s \in Seq(Inp) /\ \A i, j \in DOMAIN s : s[i].obj = s[j].obj => i = j
  BY DEF InputSeqs, Inp
<1>2. Len(s) \in Nat /\ DOMAIN s = 1 .. Len(s) /\ \A i \in DOMAIN s : s[i] \in Inp
  BY <1>1
<1> QED BY <1>1, <1>2

LEMMA InputSeqIntro ==
    ASSUME NEW n \in Nat, NEW s, DOMAIN s = 1 .. n, s = [i \in 1 .. n |-> s[i]],
           \A i \in 1 .. n : s[i] \in Inp,
           \A i, j \in 1 .. n : s[i].obj = s[j].obj => i = j
    PROVE  s \in InputSeqs
<1>1. s \in [1 .. n -> Inp]
  OBVIOUS
<1>2. s \in Seq(Inp)
  BY <1>1
<1> QED BY <1>2 DEF InputSeqs, Inp

LEMMA RemoveKeepsInputs ==
    ASSUME NEW s \in InputSeqs, NEW k \in 1 .. Len(s)
    PROVE  RemoveAt(s, k) \in InputSeqs
<1> DEFINE r == RemoveAt(s, k)
           from(i) == IF i < k THEN i ELSE i + 1
           n == Len(s) - 1
<1>1. s \in Seq(Inp) /\ Len(s) \in Nat /\ k \in Nat /\ 1 <= k /\ k <= Len(s) /\ n \in Nat
  BY InputSeqFacts
<1>2. r \in Seq(Inp) /\ Len(r) = n /\ \A i \in 1 .. n : r[i] = s[from(i)]
  <2> DEFINE a == SubSeq(s, 1, k - 1)
             b == SubSeq(s, k + 1, Len(s))
  <2>1. a \in Seq(Inp) /\ Len(a) = k - 1 /\ \A i \in 1 .. k - 1 : a[i] = s[i]
    BY <1>1
  <2>2. b \in Seq(Inp) /\ Len(b) = Len(s) - k /\ \A i \in 1 .. Len(s) - k : b[i] = s[k + i]
    BY <1>1
  <2>3. r = a \o b
    BY DEF RemoveAt
  <2> HIDE DEF a, b, r
  <2>4. r \in Seq(Inp) /\ Len(r) = Len(a) + Len(b)
    BY <2>1, <2>2, <2>3, ConcatProperties
  <2>5. \A i \in 1 .. Len(r) : r[i] = IF i <= Len(a) THEN a[i] ELSE b[i - Len(a)]
    BY <2>1, <2>2, <2>3, <2>4, ConcatProperties
  <2>6. ASSUME NEW i \in 1 .. n PROVE r[i] = s[from(i)]
    <3>1. i \in Nat /\ i \in 1 .. Len(r) /\ Len(a) = k - 1
      BY <1>1, <2>1, <2>2, <2>4
    <3>2. CASE i < k
      <4>1. i <= Len(a) /\ i \in 1 .. k - 1
        BY <1>1, <3>1, <3>2
      <4> QED BY <2>1, <2>5, <3>1, <3>2, <4>1
    <3>3. CASE ~(i < k)
      <4>1. ~(i <= Len(a)) /\ i - Len(a) \in 1 .. Len(s) - k /\ k + (i - Len(a)) = i + 1
        BY <1>1, <3>1, <3>3
      <4> QED BY <2>2, <2>5, <3>1, <3>3, <4>1
    <3> QED BY <3>2, <3>3
  <2>7. Len(r) = n
    BY <1>1, <2>1, <2>2, <2>4
  <2> HIDE DEF from, n
  <2> QED BY <2>4, <2>6, <2>7
<1>3. DOMAIN r = 1 .. n /\ \A i \in 1 .. n : r[i] \in Inp
  BY <1>2
<1>4. \A i \in 1 .. n : from(i) \in DOMAIN s
  BY <1>1
<1>5. \A i, j \in 1 .. n : from(i) = from(j) => i = j
  BY <1>1
<1>6. \A i, j \in 1 .. n : r[i].obj = r[j].obj => i = j
  <2> HIDE DEF r, from, n
  <2> QED BY <1>2, <1>4, <1>5, InputSeqFacts, SMTT(30)
<1>7. r = [i \in 1 .. n |-> r[i]]
  <2> HIDE DEF r, n
  <2> QED BY <1>2, <1>3
<1> HIDE DEF r, n
<1>8. r \in InputSeqs
  BY <1>1, <1>3, <1>6, <1>7, InputSeqIntro
<1> QED BY <1>8 DEF r

LEMMA PrefixKeepsInputs ==
    ASSUME NEW s \in InputSeqs, NEW k \in 0 .. Len(s)
    PROVE  SubSeq(s, 1, k) \in InputSeqs
<1> DEFINE r == SubSeq(s, 1, k)
<1>1. s \in Seq(Inp) /\ Len(s) \in Nat /\ k \in Nat /\ k <= Len(s)
  BY InputSeqFacts
<1>2. r \in Seq(Inp) /\ DOMAIN r = 1 .. k /\ \A i \in 1 .. k : r[i] = s[i]
  BY <1>1
<1>3. r = [i \in 1 .. k |-> r[i]] /\ \A i \in 1 .. k : i \in DOMAIN s
  BY <1>1, <1>2
<1>4. \A i \in 1 .. k : r[i] \in Inp
  BY <1>2, <1>3, InputSeqFacts
<1>5. \A i, j \in 1 .. k : r[i].obj = r[j].obj => i = j
  BY <1>2, <1>3, InputSeqFacts
<1> HIDE DEF r
<1>6. r \in InputSeqs
  BY <1>1, <1>2, <1>3, <1>4, <1>5, InputSeqIntro
<1> QED BY <1>6 DEF r

\* No input has a number above the largest one.
LEMMA TopObject ==
    ASSUME NEW s \in InputSeqs, NEW t \in InputSeqs, s # <<>>
    PROVE  MaxObj(s \o t) \in Nat /\ \A i \in DOMAIN s : s[i].obj <= MaxObj(s \o t)
<1> DEFINE u == s \o t
           n == Len(s) + Len(t)
           f == [i \in 1 .. n |-> u[i].obj]
           S == {u[i].obj : i \in DOMAIN u}
<1>1. s \in Seq(Inp) /\ t \in Seq(Inp) /\ Len(s) \in Nat /\ Len(t) \in Nat /\ Len(s) > 0
  BY InputSeqFacts
<1>2. u \in Seq(Inp) /\ n \in Nat /\ DOMAIN u = 1 .. n /\ \A i \in 1 .. Len(s) : u[i] = s[i]
  BY <1>1
<1>3. \A i \in 1 .. n : u[i] \in Inp
  BY <1>2
<1>4. \A i \in 1 .. n : u[i].obj \in Nat
  BY <1>3 DEF Inp
<1> HIDE DEF u, n
<1>5. f \in [1 .. n -> Nat] /\ \A i \in 1 .. n : f[i] = u[i].obj
  BY <1>4
<1>6. PICK b \in Nat : \A i \in 1 .. n : f[i] <= b
  <2> HIDE DEF f
  <2> QED BY <1>2, <1>5, SeqBounded
<1>7. S \in SUBSET Nat /\ \A x \in S : x <= b
  BY <1>2, <1>4, <1>5, <1>6
<1>8. \A i \in DOMAIN s : i \in DOMAIN u /\ u[i].obj = s[i].obj
  BY <1>1, <1>2 DEF n
<1>9. \A i \in DOMAIN s : s[i].obj \in S
  BY <1>8
<1>10. S # {}
  <2>1. 1 \in DOMAIN s
    BY <1>1
  <2> HIDE DEF S
  <2> QED BY <1>9, <2>1
<1>11. Max(S) \in S /\ \A x \in S : Max(S) >= x
  <2> HIDE DEF S
  <2> QED BY <1>6, <1>7, <1>10, MaxFacts
<1>12. MaxObj(s \o t) = Max(S)
  BY DEF MaxObj, u
<1>13. \A i \in DOMAIN s : s[i].obj \in Nat
  BY InputSeqFacts DEF Inp
<1> HIDE DEF S
<1>14. Max(S) \in Nat /\ \A i \in DOMAIN s : Max(S) >= s[i].obj
  BY <1>7, <1>9, <1>11
<1>15. \A i \in DOMAIN s : s[i].obj <= Max(S)
  BY <1>13, <1>14
<1> QED BY <1>12, <1>14, <1>15

\* Boosted sequences are input sequences: the fresh inputs are new objects.
LEMMA BoostKeepsInputs ==
    ASSUME inputs \in InputSeqs, NEW s \in InputSeqs, NEW n \in Nat, n > 0
    PROVE  Boost(s, n) \in InputSeqs
<1> DEFINE top == MaxObj(s \o inputs)
           like(i) == s[((i - 1) % Len(s)) + 1]
           new(i) == [obj |-> top + (i - Len(s)),
                      w |-> [a \in 1 .. Words |-> IF a = 1 THEN like(i).w[1] ELSE RandomWord]]
           m == n * Len(s)
           r == [i \in 1 .. m |-> IF i <= Len(s) THEN s[i] ELSE new(i)]
<1>1. r = Boost(s, n)
  BY DEF Boost
<1>2. s \in Seq(Inp) /\ Len(s) \in Nat /\ DOMAIN s = 1 .. Len(s) /\ \A i \in DOMAIN s : s[i] \in Inp
  BY InputSeqFacts
<1>3. m \in Nat
  BY <1>2
<1>4. ASSUME NEW i \in 1 .. m PROVE Len(s) > 0
  <2>1. Len(s) = 0 => m = 0
    BY <1>2
  <2> HIDE DEF m
  <2> QED BY <1>2, <1>3, <1>4, <2>1
<1>5. ASSUME NEW i \in 1 .. m PROVE like(i).w[1] \in Nat
  <2>1. \A a, b \in Nat : b > 0 => (a % b) + 1 \in 1 .. b
    OBVIOUS
  <2>2. i \in Nat /\ i - 1 \in Nat
    BY <1>3, <1>5
  <2>3. ((i - 1) % Len(s)) + 1 \in DOMAIN s
    BY <1>2, <1>4, <2>1, <2>2
  <2>4. like(i) \in Inp
    BY <1>2, <2>3
  <2> HIDE DEF like
  <2> QED BY <2>4, Regions DEF Inp
<1>6. ASSUME NEW i \in 1 .. m
      PROVE  top \in Nat /\ \A j \in DOMAIN s : s[j].obj \in Nat /\ s[j].obj <= top
  <2>1. s # <<>>
    BY <1>2, <1>4, <1>6
  <2>2. \A j \in DOMAIN s : s[j].obj \in Nat
    BY <1>2 DEF Inp
  <2> QED BY <2>1, <2>2, TopObject
<1>7. ASSUME NEW i \in 1 .. m, ~(i <= Len(s))
      PROVE  new(i) \in Inp /\ new(i).obj = top + (i - Len(s)) /\ i - Len(s) \in Nat
             /\ i - Len(s) > 0
  <2>1. i - Len(s) \in Nat /\ i - Len(s) > 0
    BY <1>2, <1>3, <1>7
  <2>2. top + (i - Len(s)) \in Nat
    BY <1>6, <2>1
  <2>3. [a \in 1 .. Words |-> IF a = 1 THEN like(i).w[1] ELSE RandomWord] \in [1 .. Words -> Nat]
    BY <1>5 DEF RandomWord
  <2> HIDE DEF top, like
  <2> QED BY <2>1, <2>2, <2>3 DEF Inp
<1>8. \A i \in 1 .. m : i <= Len(s) => i \in DOMAIN s
  BY <1>2, <1>3
<1> HIDE DEF new, m, top, like
<1>9. DOMAIN r = 1 .. m /\ \A i \in 1 .. m : r[i] = IF i <= Len(s) THEN s[i] ELSE new(i)
  OBVIOUS
<1>10. \A i \in 1 .. m : r[i] \in Inp
  BY <1>2, <1>7, <1>8, <1>9
<1>11. ASSUME NEW i \in 1 .. m, NEW j \in 1 .. m, r[i].obj = r[j].obj PROVE i = j
  <2>n. i \in Nat /\ j \in Nat /\ Len(s) \in Nat
    BY <1>2, <1>3
  <2>1. CASE i <= Len(s) /\ j <= Len(s)
    BY <1>8, <1>9, <1>11, <2>1, InputSeqFacts
  <2>2. CASE i <= Len(s) /\ ~(j <= Len(s))
    <3>1. s[i].obj = top + (j - Len(s)) /\ j - Len(s) \in Nat /\ j - Len(s) > 0
      BY <1>7, <1>9, <1>11, <2>2
    <3>2. s[i].obj \in Nat /\ s[i].obj <= top /\ top \in Nat
      BY <1>6, <1>8, <2>2
    <3> QED BY <3>1, <3>2
  <2>3. CASE j <= Len(s) /\ ~(i <= Len(s))
    <3>1. s[j].obj = top + (i - Len(s)) /\ i - Len(s) \in Nat /\ i - Len(s) > 0
      BY <1>7, <1>9, <1>11, <2>3
    <3>2. s[j].obj \in Nat /\ s[j].obj <= top /\ top \in Nat
      BY <1>6, <1>8, <2>3
    <3> QED BY <3>1, <3>2
  <2>4. CASE ~(i <= Len(s)) /\ ~(j <= Len(s))
    <3>1. top + (i - Len(s)) = top + (j - Len(s)) /\ top \in Nat
      BY <1>6, <1>7, <1>9, <1>11, <2>4
    <3> QED BY <2>n, <3>1
  <2> QED BY <2>1, <2>2, <2>3, <2>4
<1>12. r = [i \in 1 .. m |-> r[i]]
  BY <1>9
<1> HIDE DEF r
<1>13. r \in InputSeqs
  BY <1>3, <1>9, <1>10, <1>11, <1>12, InputSeqIntro
<1> QED BY <1>1, <1>13

\* Without boosting the sequence stays as it is.
LEMMA BoostOnce ==
    ASSUME NEW s \in InputSeqs
    PROVE  Boost(s, 1) = s
<1>1. s \in Seq(Inp) /\ Len(s) \in Nat /\ DOMAIN s = 1 .. Len(s)
  BY InputSeqFacts
<1>2. 1 * Len(s) = Len(s)
  <2>1. \A n \in Nat : 1 * n = n
    OBVIOUS
  <2> QED BY <1>1, <2>1
<1>3. s = [i \in 1 .. Len(s) |-> s[i]]
  <2>1. s \in [1 .. Len(s) -> Inp]
    BY <1>1
  <2> QED BY <2>1
<1> DEFINE new(i) == [obj |-> MaxObj(s \o inputs) + (i - Len(s)),
                      w |-> [a \in 1 .. Words |-> IF a = 1 THEN s[((i - 1) % Len(s)) + 1].w[1]
                                                  ELSE RandomWord]]
<1>4. Boost(s, 1) = [i \in 1 .. 1 * Len(s) |-> IF i <= Len(s) THEN s[i] ELSE new(i)]
  BY DEF Boost
<1> HIDE DEF new
<1>5. \A i \in 1 .. Len(s) : i <= Len(s)
  BY <1>1
<1> QED BY <1>2, <1>3, <1>4, <1>5

-----------------------------------------------------------------------------
(* The inductive invariant.                                                *)

\* A violation whose first two measurements are of different inputs in one class.
Viols == [seq : InputSeqs, ids : SUBSET Nat]
Valid(v) ==
    /\ v \in Viols
    /\ FirstId(v) \in DOMAIN v.seq /\ SecondId(v) \in DOMAIN v.seq /\ FirstId(v) # SecondId(v)
    /\ v.seq[FirstId(v)].w[1] = v.seq[SecondId(v)].w[1]

DiffStages == {"diff_block", "diff_zero", "diff_one", "diff_copy"}
InputStages == {"input_pass", "halve", "shrink", "input_check", "recheck"} \cup DiffStages

\* The loop of a sequence pass.
SeqLoop ==
    /\ stage = "halve" =>
          it \in [pass : {"seq"}, in : InputSeqs, v : Viols] /\ Valid(it.v)
    /\ stage = "shrink" =>
          /\ it \in [pass : {"seq"}, in : InputSeqs, v : Viols, iter : Nat, org : Nat, id : Nat]
          /\ Valid(it.v)
    /\ stage = "input_check" => it \in [pass : {"check"}, new : InputSeqs]

Frame ==
    /\ sc \in Scenarios /\ noise \in Nat /\ ipc \in Nat \ {0}
    /\ inputs \in InputSeqs /\ todo \in Seq({"seq", "diff"})
    /\ stage \in InputStages =>
          cand \in [in : InputSeqs, v : Viols] /\ Valid(cand.v)

\* Where a differential pass is: the words up to here are settled.
Settled == 1 .. RegionStart + it.i
DiffLoop ==
    /\ it \in [pass : {"diff"}, region : 1 .. Len(RegionEnds), i : Nat, size : Nat,
               a : Nat, b : Nat, noise : Nat]
    /\ it.a = FirstId(cand.v) /\ it.b = SecondId(cand.v)
    /\ ipc = 1 /\ it.i <= RegionSize
    /\ stage = "diff_zero" => it.size > 0 /\ it.i + it.size <= RegionSize
    /\ stage \in {"diff_one", "diff_copy"} => it.i < RegionSize
    /\ stage = "diff_copy" => WordsA[At] # WordsB[At]

\* The settled words differ exactly where the pass reported a leak, and as long
\* as the pair shows the violation only the word that leaks is reported.
DiffResult ==
    /\ leaked \subseteq Settled
    /\ \A a \in Settled : WordsA[a] # WordsB[a] <=> a \in leaked
    /\ noise <= it.noise
    /\ noise = it.noise /\ CodeLeaks(prog) /\ WordsA[sc.leak] # WordsB[sc.leak]
          => leaked \subseteq {sc.leak}

InputInv == Frame /\ SeqLoop /\ (stage \in DiffStages => DiffLoop /\ DiffResult)

-----------------------------------------------------------------------------
(* Rounds.                                                                 *)

\* What a round reports is valid: a class with two different inputs in it.
LEMMA ViolationsValid ==
    ASSUME sc \in Scenarios, inputs \in InputSeqs, ipc \in Nat \ {0},
           NEW p, NEW s \in InputSeqs, NEW ign, NEW v \in Violations(p, s, ign)
    PROVE  Valid(v)
<1> DEFINE seq == Boost(s, ipc)
           members(c) == {i \in DOMAIN seq : i \notin ign /\ seq[i].w[1] = c}
<1>1. seq \in InputSeqs
  BY BoostKeepsInputs
<1> HIDE DEF seq
<1>2. PICK c \in ViolatingClasses(p, seq, ign) : v = [seq |-> seq, ids |-> c]
  BY DEF Violations, seq
<1>3. PICK x : c = members(x) /\ \E i, j \in members(x) : seq[i].w[sc.leak] # seq[j].w[sc.leak]
  BY <1>2 DEF ViolatingClasses
<1>4. PICK i \in c, j \in c : i # j
  BY <1>3
<1>5. DOMAIN seq \subseteq Nat /\ c \subseteq DOMAIN seq /\ \A k \in c : seq[k].w[1] = x
  BY <1>1, <1>3, InputSeqFacts
<1> HIDE DEF members
<1>6. c \in SUBSET Nat /\ c # {}
  BY <1>4, <1>5
<1>7. Min(c) \in c
  BY <1>6, MinFacts
<1>8. c \ {Min(c)} \in SUBSET Nat /\ c \ {Min(c)} # {}
  <2>1. i # Min(c) \/ j # Min(c)
    BY <1>4
  <2>2. i \in c \ {Min(c)} \/ j \in c \ {Min(c)}
    BY <1>4, <2>1
  <2> QED BY <1>6, <2>2
<1>9. Min(c \ {Min(c)}) \in c \ {Min(c)}
  BY <1>8, MinFacts
<1>10. v.seq = seq /\ v.ids = c /\ FirstId(v) = Min(c) /\ SecondId(v) = Min(c \ {Min(c)})
  BY <1>2 DEF FirstId, SecondId
<1>11. v \in Viols
  BY <1>1, <1>2, <1>6 DEF Viols
<1> QED BY <1>5, <1>7, <1>9, <1>10, <1>11 DEF Valid

\* A check that fails without a missed round had nothing to find.
LEMMA CheckFacts ==
    ASSUME noise \in Nat, NEW p, NEW s, NEW ign, NEW r \in BOOLEAN, Check(p, s, ign, r)
    PROVE  /\ noise' \in Nat /\ noise' <= noise
           /\ ~r /\ noise' = noise => Violations(p, s, ign) = {}
           /\ r => Violations(p, s, ign) # {}
<1>1. CASE /\ Violations(p, s, ign) # {} /\ r
           /\ \E k \in 0 .. Retries - 1 : k <= noise /\ noise' = noise - k
  BY <1>1, Constants
<1>2. CASE /\ Violations(p, s, ign) # {} /\ ~r /\ noise >= Retries /\ noise' = noise - Retries
  BY <1>2, Constants
<1>3. CASE Violations(p, s, ign) = {} /\ ~r /\ noise' = noise
  BY <1>3
<1> QED BY <1>1, <1>2, <1>3 DEF Check

LEMMA RoundFacts ==
    ASSUME noise \in Nat, NEW p, NEW s, NEW ign, NEW r, Round(p, s, ign, r)
    PROVE  noise' \in Nat /\ noise' <= noise
<1>1. noise' = noise \/ (noise > 0 /\ noise' = noise - 1)
  BY DEF Round
<1> QED BY <1>1

-----------------------------------------------------------------------------
(* The pair of inputs of a differential pass.                              *)

LEMMA PairFacts ==
    ASSUME Valid(cand.v), it.a = FirstId(cand.v), it.b = SecondId(cand.v)
    PROVE  /\ cand.v.seq \in InputSeqs
           /\ it.a \in DOMAIN cand.v.seq /\ it.b \in DOMAIN cand.v.seq /\ it.a # it.b
           /\ WordsA \in [1 .. Words -> Nat] /\ WordsB \in [1 .. Words -> Nat]
           /\ WordsA[1] = WordsB[1]
           /\ cand.v.seq[it.a].obj # cand.v.seq[it.b].obj
<1>1. cand.v.seq \in InputSeqs
  BY DEF Valid, Viols
<1>2. it.a \in DOMAIN cand.v.seq /\ it.b \in DOMAIN cand.v.seq /\ it.a # it.b
  BY DEF Valid
<1>3. cand.v.seq[it.a] \in Inp /\ cand.v.seq[it.b] \in Inp
  BY <1>1, <1>2, InputSeqFacts
<1>4. cand.v.seq[it.a].obj # cand.v.seq[it.b].obj
  BY <1>1, <1>2, InputSeqFacts
<1>5. WordsA[1] = WordsB[1]
  BY DEF Valid, WordsA, WordsB
<1> QED BY <1>1, <1>2, <1>3, <1>4, <1>5 DEF Inp, WordsA, WordsB

\* Writing the words of the two inputs keeps the objects.
LEMMA WriteFacts ==
    ASSUME Valid(cand.v), it.a = FirstId(cand.v), it.b = SecondId(cand.v),
           NEW wa \in [1 .. Words -> Nat], NEW wb \in [1 .. Words -> Nat],
           NEW s \in InputSeqs
    PROVE  WriteBoth(s, wa, wb) \in InputSeqs
<1> DEFINE oa == cand.v.seq[it.a].obj
           ob == cand.v.seq[it.b].obj
           n == Len(s)
           r == WriteBoth(s, wa, wb)
<1>1. n \in Nat /\ DOMAIN s = 1 .. n /\ \A i \in 1 .. n : s[i] \in Inp
  BY InputSeqFacts
<1>2. r = [i \in 1 .. n |-> CASE s[i].obj = oa -> [s[i] EXCEPT !.w = wa]
                              [] s[i].obj = ob -> [s[i] EXCEPT !.w = wb]
                              [] OTHER -> s[i]]
  BY <1>1 DEF WriteBoth
<1> HIDE DEF r, n, oa, ob
<1>3. ASSUME NEW i \in 1 .. n PROVE r[i] \in Inp /\ r[i].obj = s[i].obj
  <2>1. \/ r[i] = [s[i] EXCEPT !.w = wa]
        \/ r[i] = [s[i] EXCEPT !.w = wb]
        \/ r[i] = s[i]
    <3>1. CASE s[i].obj = oa \/ s[i].obj = ob
      BY <1>2, <3>1
    <3>2. CASE s[i].obj # oa /\ s[i].obj # ob
      BY <1>2, <3>2
    <3> QED BY <3>1, <3>2
  <2> QED BY <1>1, <2>1 DEF Inp
<1>4. DOMAIN r = 1 .. n /\ r = [i \in 1 .. n |-> r[i]]
  BY <1>2
<1>5. \A i, j \in 1 .. n : r[i].obj = r[j].obj => i = j
  BY <1>1, <1>3, InputSeqFacts
<1>6. r \in InputSeqs
  BY <1>1, <1>3, <1>4, <1>5, InputSeqIntro
<1> QED BY <1>6 DEF r

LEMMA WriteWords ==
    ASSUME Valid(cand.v), it.a = FirstId(cand.v), it.b = SecondId(cand.v),
           NEW wa \in [1 .. Words -> Nat], NEW wb \in [1 .. Words -> Nat]
    PROVE  /\ DOMAIN WriteBoth(cand.v.seq, wa, wb) = DOMAIN cand.v.seq
           /\ WriteBoth(cand.v.seq, wa, wb)[it.a].w = wa
           /\ WriteBoth(cand.v.seq, wa, wb)[it.b].w = wb
<1> DEFINE s == cand.v.seq
           oa == s[it.a].obj
           ob == s[it.b].obj
<1>1. s \in InputSeqs /\ it.a \in DOMAIN s /\ it.b \in DOMAIN s /\ oa # ob
  BY PairFacts
<1>2. s[it.a] \in Inp /\ s[it.b] \in Inp
  BY <1>1, InputSeqFacts
<1>3. WriteBoth(s, wa, wb) = [i \in DOMAIN s |-> CASE s[i].obj = oa -> [s[i] EXCEPT !.w = wa]
                              [] s[i].obj = ob -> [s[i] EXCEPT !.w = wb]
                              [] OTHER -> s[i]]
  BY DEF WriteBoth
<1> HIDE DEF s
<1>4. WriteBoth(s, wa, wb)[it.a] = [s[it.a] EXCEPT !.w = wa]
  BY <1>1, <1>3
<1>5. WriteBoth(s, wa, wb)[it.b] = [s[it.b] EXCEPT !.w = wb]
  BY <1>1, <1>3
<1>6. DOMAIN WriteBoth(s, wa, wb) = DOMAIN s
  BY <1>3
<1>7. /\ WriteBoth(s, wa, wb)[it.a].w = wa
      /\ WriteBoth(s, wa, wb)[it.b].w = wb
  BY <1>2, <1>4, <1>5 DEF Inp
<1> QED BY <1>6, <1>7 DEF s

\* As long as the two inputs are in one class and differ in the word that leaks,
\* there is a violation to be found.
LEMMA PairShows ==
    ASSUME Valid(cand.v), it.a = FirstId(cand.v), it.b = SecondId(cand.v), ipc = 1,
           NEW wa \in [1 .. Words -> Nat], NEW wb \in [1 .. Words -> Nat],
           CodeLeaks(prog), wa[1] = wb[1], wa[sc.leak] # wb[sc.leak]
    PROVE  Violations(prog, WriteBoth(cand.v.seq, wa, wb), DOMAIN cand.v.seq \ {it.a, it.b}) # {}
<1> DEFINE s == WriteBoth(cand.v.seq, wa, wb)
           ign == DOMAIN cand.v.seq \ {it.a, it.b}
           members(c) == {i \in DOMAIN s : i \notin ign /\ s[i].w[1] = c}
<1>1. s \in InputSeqs /\ Boost(s, ipc) = s
  BY PairFacts, WriteFacts, BoostOnce
<1>2. DOMAIN s = DOMAIN cand.v.seq /\ s[it.a].w = wa /\ s[it.b].w = wb
  BY WriteWords
<1>3. it.a \in DOMAIN s /\ it.b \in DOMAIN s /\ it.a \notin ign /\ it.b \notin ign
  BY <1>2, PairFacts
<1> HIDE DEF s, ign
<1>4. it.a \in members(wa[1]) /\ it.b \in members(wa[1])
  BY <1>2, <1>3
<1>5. \E i, j \in members(wa[1]) : s[i].w[sc.leak] # s[j].w[sc.leak]
  BY <1>2, <1>4
<1>6. wa[1] \in {s[i].w[1] : i \in DOMAIN s}
  BY <1>2, <1>3
<1>7. members(wa[1]) \in ViolatingClasses(prog, s, ign)
  BY <1>5, <1>6 DEF ViolatingClasses
<1>8. [seq |-> s, ids |-> members(wa[1])] \in Violations(prog, s, ign)
  BY <1>1, <1>7 DEF Violations
<1> QED BY <1>8 DEF s, ign

-----------------------------------------------------------------------------
(* The invariant is inductive.                                             *)

LEMMA InvInit == Init => InputInv
<1> SUFFICES ASSUME Init PROVE InputInv
  OBVIOUS
<1>1. Frame
  BY ScenarioFacts, Constants DEF Init, Frame, InputStages, DiffStages
<1>2. SeqLoop /\ stage \notin DiffStages
  BY DEF Init, SeqLoop, DiffStages
<1> QED BY <1>1, <1>2 DEF InputInv

\* Steps outside of the input passes leave nothing to show but the frame.
LEMMA LeavesInputs ==
    ASSUME InputInv, sc' = sc, inputs' \in InputSeqs, ipc' \in Nat \ {0},
           todo' = todo, noise' \in Nat, stage' \in {"set_ignore", "next_pass", "loop", "stored",
                                                    "not_reproduced"}
    PROVE  InputInv'
<1>1. Frame'
  BY DEF InputInv, Frame, InputStages, DiffStages
<1>2. SeqLoop' /\ stage' \notin DiffStages
  BY DEF SeqLoop, DiffStages
<1> QED BY <1>1, <1>2 DEF InputInv

LEMMA ReproduceStep == InputInv /\ Reproduce => InputInv'
<1> SUFFICES ASSUME InputInv, Reproduce PROVE InputInv'
  OBVIOUS
<1>1. /\ sc \in Scenarios /\ noise \in Nat /\ ipc \in Nat \ {0} /\ inputs \in InputSeqs
      /\ todo \in Seq({"seq", "diff"})
  BY DEF InputInv, Frame
<1>2. sc' = sc /\ ipc' = ipc /\ inputs' = inputs /\ todo' = todo
  BY DEF Reproduce
<1>3. CASE stage' = "not_reproduced"
  <2>1. noise' \in Nat
    <3>1. \/ \E v \in Violations(prog, inputs, {}) : \E k \in 0 .. Retries - 1 :
               k <= noise /\ noise' = noise - k
          \/ IF Violations(prog, inputs, {}) = {} THEN noise' = noise
             ELSE noise >= Retries /\ noise' = noise - Retries
      BY DEF Reproduce
    <3> QED BY <1>1, <3>1, Constants
  <2> QED BY <1>1, <1>2, <1>3, <2>1, LeavesInputs
<1>4. CASE stage' # "not_reproduced"
  <2>1. PICK v \in Violations(prog, inputs, {}), k \in 0 .. Retries - 1 :
          /\ k <= noise /\ noise' = noise - k
          /\ cand' = [in |-> inputs, v |-> v]
          /\ stage' \in {"set_ignore", "input_pass"}
    BY <1>4 DEF Reproduce
  <2>2. noise' \in Nat
    BY <1>1, <2>1, Constants
  <2>3. Valid(v)
    BY <1>1, <2>1, ViolationsValid
  <2>4. cand' \in [in : InputSeqs, v : Viols] /\ Valid(cand'.v)
    BY <1>1, <2>1, <2>3 DEF Valid
  <2>5. Frame'
    BY <1>1, <1>2, <2>2, <2>4 DEF Frame, Valid, Viols, FirstId, SecondId
  <2>6. SeqLoop' /\ stage' \notin DiffStages
    BY <2>1 DEF SeqLoop, DiffStages
  <2> QED BY <2>5, <2>6 DEF InputInv
<1> QED BY <1>3, <1>4

LEMMA StartInputPassStep == InputInv /\ StartInputPass => InputInv'
<1> SUFFICES ASSUME InputInv, StartInputPass PROVE InputInv'
  OBVIOUS
<1>1. /\ sc \in Scenarios /\ noise \in Nat /\ ipc \in Nat \ {0} /\ inputs \in InputSeqs
      /\ todo \in Seq({"seq", "diff"}) /\ stage \in InputStages /\ todo # <<>>
      /\ cand \in [in : InputSeqs, v : Viols] /\ Valid(cand.v)
  BY DEF InputInv, Frame, StartInputPass, InputStages
<1>2. /\ sc' = sc /\ inputs' = inputs /\ cand' = cand /\ noise' = noise /\ prog' = prog
      /\ todo' = Tail(todo)
  BY DEF StartInputPass, progVars
<1>3. todo' \in Seq({"seq", "diff"})
  BY <1>1, <1>2
<1>4. Valid(cand.v)'
  BY <1>1, <1>2 DEF Valid, FirstId, SecondId
<1>5. CASE Head(todo) = "seq"
  <2>1. /\ it' = [pass |-> "seq", in |-> cand.in, v |-> cand.v]
        /\ stage' = "halve" /\ ipc' = ipc
    BY <1>5 DEF StartInputPass
  <2>2. Frame'
    BY <1>1, <1>2, <1>3, <1>4, <2>1 DEF Frame
  <2>3. SeqLoop'
    <3>1. it' \in [pass : {"seq"}, in : InputSeqs, v : Viols] /\ it'.v = cand.v
      BY <1>1, <2>1
    <3>2. Valid(it.v)'
      BY <1>1, <3>1 DEF Valid, FirstId, SecondId
    <3> QED BY <2>1, <3>1, <3>2 DEF SeqLoop
  <2> QED BY <2>1, <2>2, <2>3 DEF InputInv, DiffStages
<1>6. CASE Head(todo) # "seq"
  <2>1. /\ it' = [pass |-> "diff", region |-> 1, i |-> 0, size |-> 0,
                  a |-> FirstId(cand.v), b |-> SecondId(cand.v), noise |-> noise]
        /\ leaked' = {} /\ ipc' = 1 /\ stage' = "diff_block"
    BY <1>6 DEF StartInputPass
  <2>2. Frame'
    BY <1>1, <1>2, <1>3, <1>4, <2>1 DEF Frame
  <2>3. SeqLoop'
    BY <2>1 DEF SeqLoop
  <2>4. FirstId(cand.v) \in Nat /\ SecondId(cand.v) \in Nat
    BY <1>1, InputSeqFacts DEF Valid, Viols
  <2>5. it' \in [pass : {"diff"}, region : 1 .. Len(RegionEnds), i : Nat, size : Nat,
                 a : Nat, b : Nat, noise : Nat]
    BY <1>1, <2>1, <2>4, Regions
  <2>6. RegionStart' = 0 /\ RegionSize' \in Nat /\ it'.i = 0 /\ it'.noise = noise
        /\ it'.a = FirstId(cand.v) /\ it'.b = SecondId(cand.v)
    BY <2>1, Regions DEF RegionStart, RegionSize
  <2>7. DiffLoop'
    BY <1>2, <2>1, <2>5, <2>6 DEF DiffLoop, FirstId, SecondId
  <2>8. DiffResult'
    BY <1>1, <1>2, <2>1, <2>6 DEF DiffResult, Settled
  <2> QED BY <2>2, <2>3, <2>7, <2>8 DEF InputInv
<1> QED BY <1>5, <1>6

LEMMA CheckInputPassStep == InputInv /\ CheckInputPass => InputInv'
<1> SUFFICES ASSUME InputInv, CheckInputPass PROVE InputInv'
  OBVIOUS
<1>1. /\ sc \in Scenarios /\ noise \in Nat /\ ipc \in Nat \ {0} /\ inputs \in InputSeqs
      /\ todo \in Seq({"seq", "diff"}) /\ it.new \in InputSeqs
      /\ cand \in [in : InputSeqs, v : Viols] /\ Valid(cand.v)
  BY DEF InputInv, Frame, SeqLoop, CheckInputPass, InputStages
<1>2. PICK r \in Violations(prog, it.new, {}) \cup {NoViolation} :
        /\ Round(prog, it.new, {}, r)
        /\ cand' = IF r = NoViolation THEN cand ELSE [in |-> it.new, v |-> r]
  BY DEF CheckInputPass
<1>3. /\ sc' = sc /\ inputs' = inputs /\ ipc' = ipc /\ todo' = todo
      /\ stage' \in {"recheck", "input_pass"}
  BY DEF CheckInputPass
<1>4. noise' \in Nat
  BY <1>1, <1>2, RoundFacts
<1>5. r # NoViolation => Valid(r)
  BY <1>1, <1>2, ViolationsValid
<1>6. cand' \in [in : InputSeqs, v : Viols] /\ Valid(cand'.v)
  <2>1. CASE r = NoViolation
    BY <1>1, <1>2, <2>1
  <2>2. CASE r # NoViolation
    BY <1>1, <1>2, <1>5, <2>2 DEF Valid
  <2> QED BY <2>1, <2>2
<1>7. Frame'
  BY <1>1, <1>3, <1>4, <1>6 DEF Frame, Valid, Viols, FirstId, SecondId
<1>8. SeqLoop' /\ stage' \notin DiffStages
  BY <1>3 DEF SeqLoop, DiffStages
<1> QED BY <1>7, <1>8 DEF InputInv

LEMMA CheckNewInputsStep == InputInv /\ CheckNewInputs => InputInv'
<1> SUFFICES ASSUME InputInv, CheckNewInputs PROVE InputInv'
  OBVIOUS
<1>1. /\ sc \in Scenarios /\ noise \in Nat /\ ipc \in Nat \ {0} /\ inputs \in InputSeqs
      /\ cand.in \in InputSeqs
  BY DEF InputInv, Frame, CheckNewInputs, InputStages
<1>2. PICK r : /\ Round(prog, inputs, {}, r)
               /\ IF r = NoViolation THEN UNCHANGED <<inputs, viol, ipc>>
                  ELSE inputs' = cand.in /\ viol' = r /\ ipc' = 1
  BY DEF CheckNewInputs
<1>3. sc' = sc /\ todo' = todo /\ stage' = "set_ignore"
  BY DEF CheckNewInputs
<1>4. noise' \in Nat
  BY <1>1, <1>2, RoundFacts
<1>5. inputs' \in InputSeqs /\ ipc' \in Nat \ {0}
  BY <1>1, <1>2
<1> QED BY <1>3, <1>4, <1>5, LeavesInputs

\* A step inside of a sequence pass changes neither the frame nor the candidate.
LEMMA SeqFrame ==
    ASSUME InputInv, stage \in InputStages, sc' = sc, inputs' = inputs, todo' = todo,
           cand' = cand, noise' \in Nat, ipc' \in Nat \ {0}
    PROVE  Frame'
<1>1. cand \in [in : InputSeqs, v : Viols] /\ Valid(cand.v)
  BY DEF InputInv, Frame
<1>2. Valid(cand.v)'
  BY <1>1 DEF Valid, FirstId, SecondId
<1> QED BY <1>1, <1>2 DEF InputInv, Frame

LEMMA ShrinkingFacts ==
    ASSUME NEW v, Valid(v), StartShrinking(v), Frame'
    PROVE  InputInv'
<1>1. /\ it' = [pass |-> "seq", in |-> v.seq, v |-> v, iter |-> 1,
                org |-> Len(v.seq), id |-> Len(v.seq)]
      /\ stage' = "shrink"
  BY DEF StartShrinking
<1>2. v.seq \in InputSeqs /\ v \in Viols
  BY DEF Valid, Viols
<1>3. Len(v.seq) \in Nat
  BY <1>2, InputSeqFacts
<1>4. it' \in [pass : {"seq"}, in : InputSeqs, v : Viols, iter : Nat, org : Nat, id : Nat]
      /\ it'.v = v
  BY <1>1, <1>2, <1>3
<1>5. Valid(it.v)'
  BY <1>4 DEF Valid, FirstId, SecondId
<1>6. SeqLoop' /\ stage' \notin DiffStages
  BY <1>1, <1>4, <1>5 DEF SeqLoop, DiffStages
<1> QED BY <1>6 DEF InputInv

LEMMA HalveInputsStep == InputInv /\ HalveInputs => InputInv'
<1> SUFFICES ASSUME InputInv, HalveInputs PROVE InputInv'
  OBVIOUS
<1>1. /\ sc \in Scenarios /\ noise \in Nat /\ ipc \in Nat \ {0} /\ inputs \in InputSeqs
      /\ it \in [pass : {"seq"}, in : InputSeqs, v : Viols] /\ Valid(it.v)
      /\ stage \in InputStages
  BY DEF InputInv, Frame, SeqLoop, HalveInputs, InputStages
<1>2. sc' = sc /\ inputs' = inputs /\ todo' = todo /\ cand' = cand
  BY DEF HalveInputs
<1>3. CASE Len(it.in) <= HalveAbove
  <2>1. StartShrinking(it.v) /\ noise' = noise
    BY <1>3 DEF HalveInputs
  <2>2. ipc' = 1
    BY <2>1 DEF StartShrinking
  <2>3. Frame'
    BY <1>1, <1>2, <2>1, <2>2, SeqFrame
  <2> QED BY <1>1, <2>1, <2>3, ShrinkingFacts
<1>4. CASE ~(Len(it.in) <= HalveAbove)
  <2> DEFINE new == SubSeq(it.in, 1, Len(it.in) \div 2)
  <2>1. Len(it.in) \in Nat /\ it.in \in InputSeqs
    BY <1>1, InputSeqFacts
  <2>2. \A n \in Nat : n \div 2 \in 0 .. n
    OBVIOUS
  <2>3. new \in InputSeqs
    BY <2>1, <2>2, PrefixKeepsInputs
  <2>4. PICK r \in Violations(prog, new, {}) \cup {NoViolation} :
          /\ Round(prog, new, {}, r)
          /\ IF r = NoViolation THEN StartShrinking(it.v)
             ELSE it' = [it EXCEPT !.in = new, !.v = r] /\ UNCHANGED <<ipc, stage>>
    BY <1>4 DEF HalveInputs
  <2> HIDE DEF new
  <2>5. noise' \in Nat
    BY <1>1, <2>4, RoundFacts
  <2>6. CASE r = NoViolation
    <3>1. StartShrinking(it.v) /\ ipc' = 1
      BY <2>4, <2>6 DEF StartShrinking
    <3>2. Frame'
      BY <1>1, <1>2, <2>5, <3>1, SeqFrame
    <3> QED BY <1>1, <3>1, <3>2, ShrinkingFacts
  <2>7. CASE r # NoViolation
    <3>1. it' = [it EXCEPT !.in = new, !.v = r] /\ ipc' = ipc /\ stage' = stage
      BY <2>4, <2>7
    <3>2. Valid(r)
      BY <1>1, <2>3, <2>4, <2>7, ViolationsValid
    <3>3. r \in Viols
      BY <3>2 DEF Valid
    <3>4. it' \in [pass : {"seq"}, in : InputSeqs, v : Viols] /\ it'.v = r
      BY <1>1, <2>3, <3>1, <3>3
    <3>5. Valid(it.v)'
      BY <3>2, <3>4 DEF Valid, FirstId, SecondId
    <3>6. Frame'
      BY <1>1, <1>2, <2>5, <3>1, SeqFrame
    <3>7. stage' = "halve"
      BY <3>1 DEF HalveInputs
    <3>8. SeqLoop' /\ stage' \notin DiffStages
      BY <3>4, <3>5, <3>7 DEF SeqLoop, DiffStages
    <3> QED BY <3>6, <3>8 DEF InputInv
  <2> QED BY <2>6, <2>7
<1> QED BY <1>3, <1>4

\* A pass that is done hands over its inputs.
LEMMA DoneFacts ==
    ASSUME NEW new \in InputSeqs, InputPassDone(new), InputInv, stage \in InputStages,
           sc' = sc, inputs' = inputs, todo' = todo, cand' = cand, noise' \in Nat
    PROVE  InputInv'
<1>1. it' = [pass |-> "check", new |-> new] /\ ipc' = sc.ipc /\ stage' = "input_check"
  BY DEF InputPassDone
<1>2. ipc' \in Nat \ {0}
  BY <1>1, ScenarioFacts DEF InputInv, Frame
<1>3. Frame'
  BY <1>2, SeqFrame
<1>4. SeqLoop' /\ stage' \notin DiffStages
  BY <1>1 DEF SeqLoop, DiffStages
<1> QED BY <1>3, <1>4 DEF InputInv

LEMMA ShrinkInputsStep == InputInv /\ ShrinkInputs => InputInv'
<1> SUFFICES ASSUME InputInv, ShrinkInputs PROVE InputInv'
  OBVIOUS
<1> DEFINE Loop == [pass : {"seq"}, in : InputSeqs, v : Viols, iter : Nat, org : Nat, id : Nat]
<1>1. /\ sc \in Scenarios /\ noise \in Nat /\ ipc \in Nat \ {0} /\ inputs \in InputSeqs
      /\ it \in Loop /\ Valid(it.v) /\ stage \in InputStages /\ stage = "shrink"
  BY DEF InputInv, Frame, SeqLoop, ShrinkInputs, InputStages
<1>2. sc' = sc /\ inputs' = inputs /\ todo' = todo /\ cand' = cand
  BY DEF ShrinkInputs
<1>3. it.in \in InputSeqs /\ Len(it.in) \in Nat /\ it.id \in Nat
  BY <1>1, InputSeqFacts
<1>4. ASSUME noise' \in Nat, ipc' = ipc, stage' = stage, it' \in Loop, Valid(it.v)'
      PROVE  InputInv'
  <2>1. Frame'
    BY <1>1, <1>2, <1>4, SeqFrame
  <2>2. SeqLoop' /\ stage' \notin DiffStages
    BY <1>1, <1>4 DEF SeqLoop, DiffStages
  <2> QED BY <2>1, <2>2 DEF InputInv
<1>5. CASE it.id > 0 /\ ipc' = ipc /\ stage' = stage
  <2> DEFINE new == IF it.id < Len(it.in) THEN RemoveAt(it.in, it.id + 1) ELSE it.in
  <2>1. new \in InputSeqs
    <3>1. it.id < Len(it.in) => it.id + 1 \in 1 .. Len(it.in)
      BY <1>3
    <3> QED BY <1>3, <3>1, RemoveKeepsInputs
  <2>2. PICK r \in Violations(prog, new, {}) \cup {NoViolation} :
          /\ Round(prog, new, {}, r)
          /\ it' = IF r = NoViolation THEN [it EXCEPT !.id = @ - 1]
                   ELSE [it EXCEPT !.id = @ - 1, !.in = new, !.v = r]
    <3>1. it.id # 0
      BY <1>3, <1>5
    <3> QED BY <1>5, <3>1 DEF ShrinkInputs
  <2> HIDE DEF new
  <2>3. noise' \in Nat
    BY <1>1, <2>2, RoundFacts
  <2>4. it.id - 1 \in Nat
    BY <1>3, <1>5
  <2>5. CASE r = NoViolation
    <3>1. it' = [it EXCEPT !.id = it.id - 1]
      BY <2>2, <2>5
    <3>2. it' \in Loop /\ it'.v = it.v
      BY <1>1, <2>4, <3>1
    <3>3. Valid(it.v)'
      BY <1>1, <3>2 DEF Valid, FirstId, SecondId
    <3> QED BY <1>4, <1>5, <2>3, <3>2, <3>3
  <2>6. CASE r # NoViolation
    <3>1. it' = [it EXCEPT !.id = it.id - 1, !.in = new, !.v = r]
      BY <2>2, <2>6
    <3>2. Valid(r) /\ r \in Viols
      BY <1>1, <2>1, <2>2, <2>6, ViolationsValid DEF Valid
    <3>3. it' \in Loop /\ it'.v = r
      BY <1>1, <2>1, <2>4, <3>1, <3>2
    <3>4. Valid(it.v)'
      BY <3>2, <3>3 DEF Valid, FirstId, SecondId
    <3> QED BY <1>4, <1>5, <2>3, <3>3, <3>4
  <2> QED BY <2>5, <2>6
<1>6. CASE it.id = 0 /\ noise' = noise
  <2>1. CASE InputPassDone(it.v.seq)
    <3>1. it.v.seq \in InputSeqs
      BY <1>1 DEF Valid, Viols
    <3> QED BY <1>1, <1>2, <1>6, <2>1, <3>1, DoneFacts
  <2>2. CASE /\ it' = [it EXCEPT !.iter = @ + 1, !.org = Len(it.in), !.id = Len(it.in)]
             /\ ipc' = ipc /\ stage' = stage
    <3>1. it' \in Loop /\ it'.v = it.v
      <4>1. it.iter + 1 \in Nat
        BY <1>1
      <4>2. it' = [it EXCEPT !.iter = it.iter + 1, !.org = Len(it.in), !.id = Len(it.in)]
        BY <2>2
      <4> QED BY <1>1, <1>3, <4>1, <4>2
    <3>2. Valid(it.v)'
      BY <1>1, <3>1 DEF Valid, FirstId, SecondId
    <3> QED BY <1>1, <1>4, <1>6, <2>2, <3>1, <3>2
  <2> QED BY <1>6, <2>1, <2>2 DEF ShrinkInputs
<1> QED BY <1>5, <1>6 DEF ShrinkInputs

-----------------------------------------------------------------------------
(* Steps of the differential pass.                                         *)

LEMMA RegionFacts ==
    ASSUME it.region \in 1 .. Len(RegionEnds)
    PROVE  /\ RegionStart \in Nat /\ RegionSize \in Nat /\ RegionSize > 0
           /\ RegionStart + RegionSize = RegionEnds[it.region]
           /\ RegionStart + RegionSize <= Words
<1> DEFINE L == Len(RegionEnds)
           r == it.region
<1>1. L \in Nat /\ L > 0 /\ r \in Nat /\ 1 <= r /\ r <= L
  BY Regions
<1>2. RegionEnds[r] \in Nat /\ RegionEnds[r] > 0 /\ Words = RegionEnds[L] /\ Words \in Nat
  BY Regions
<1>3. RegionStart \in Nat /\ RegionStart < RegionEnds[r]
  <2>1. CASE r = 1
    BY <1>2, <2>1 DEF RegionStart
  <2>2. CASE r # 1
    <3>1. r - 1 \in 1 .. L /\ r \in 1 .. L /\ r - 1 < r
      BY <1>1, <2>2
    <3>2. RegionEnds[r - 1] \in Nat /\ RegionEnds[r - 1] < RegionEnds[r]
      BY <3>1, Regions
    <3> QED BY <2>2, <3>2 DEF RegionStart
  <2> QED BY <2>1, <2>2
<1>4. RegionEnds[r] <= Words
  <2>1. CASE r = L
    BY <1>2, <2>1
  <2>2. CASE r # L
    <3>1. r \in 1 .. L /\ L \in 1 .. L /\ r < L
      BY <1>1, <2>2
    <3>2. RegionEnds[r] < RegionEnds[L]
      BY <3>1, Regions
    <3> QED BY <1>2, <3>2
  <2> QED BY <2>1, <2>2
<1> QED BY <1>2, <1>3, <1>4 DEF RegionSize

\* What a step of the pass finds.
DiffType ==
    [pass : {"diff"}, region : 1 .. Len(RegionEnds), i : Nat, size : Nat,
     a : Nat, b : Nat, noise : Nat]

LEMMA DiffFacts ==
    ASSUME InputInv, stage \in DiffStages
    PROVE  /\ sc \in Scenarios /\ noise \in Nat /\ inputs \in InputSeqs /\ ipc = 1
           /\ cand \in [in : InputSeqs, v : Viols] /\ Valid(cand.v)
           /\ it \in DiffType /\ it.a = FirstId(cand.v) /\ it.b = SecondId(cand.v)
           /\ RegionStart \in Nat /\ RegionSize \in Nat /\ RegionStart + RegionSize <= Words
           /\ it.i \in Nat /\ it.i <= RegionSize /\ it.noise \in Nat /\ it.size \in Nat
           /\ stage \in InputStages /\ sc.leak \in 1 .. Words /\ Words \in Nat
<1>1. Frame /\ DiffLoop /\ stage \in InputStages
  BY DEF InputInv, InputStages
<1>2. it \in DiffType
  BY <1>1 DEF DiffLoop, DiffType
<1>3. it.region \in 1 .. Len(RegionEnds) /\ it.i \in Nat /\ it.noise \in Nat /\ it.size \in Nat
  BY <1>2 DEF DiffType
<1> QED BY <1>1, <1>2, <1>3, RegionFacts, ScenarioFacts, Regions DEF Frame, DiffLoop

\* The block that is tried first lies inside of the region.
LEMMA StartSizeFits ==
    ASSUME it.i \in Nat, RegionSize \in Nat, it.i < RegionSize
    PROVE  StartSize \in Nat /\ StartSize > 0 /\ it.i + StartSize <= RegionSize
<1> DEFINE x == MaxBlock - (it.i % MaxBlock)
           y == RegionSize - it.i
           room == Min({x, y})
           sizes == {n \in 1 .. room : n \in PowersOfTwo /\ it.i % n = 0}
<1>1. \A a, b \in Nat : b > 0 => a % b \in Nat /\ a % b < b
  OBVIOUS
<1>2. it.i % MaxBlock \in Nat /\ it.i % MaxBlock < MaxBlock
  BY <1>1, Constants
<1>3. x \in Nat /\ x > 0 /\ y \in Nat /\ y > 0
  BY <1>2, Constants
<1> HIDE DEF x, y
<1>4. room \in {x, y} /\ room <= y
  <2>1. {x, y} \in SUBSET Nat /\ {x, y} # {}
    BY <1>3
  <2> QED BY <2>1, MinFacts
<1>5. room \in Nat /\ room > 0
  BY <1>3, <1>4
<1> HIDE DEF room
<1>6. \A a \in Nat : a % 1 = 0
  OBVIOUS
<1>7. 1 \in sizes
  BY <1>5, <1>6 DEF PowersOfTwo
<1>8. sizes \in SUBSET Nat /\ \A n \in sizes : n <= room
  BY <1>5
<1>9. sizes # {} /\ \A n \in sizes : n \in 1 .. room
  BY <1>7
<1>10. StartSize = Max(sizes)
  BY DEF StartSize, room, x, y
<1> HIDE DEF sizes
<1>11. Max(sizes) \in sizes
  BY <1>5, <1>8, <1>9, MaxFacts
<1>12. StartSize \in 1 .. room
  BY <1>9, <1>10, <1>11
<1>13. StartSize \in Nat /\ StartSize > 0 /\ StartSize <= y
  BY <1>3, <1>4, <1>5, <1>12
<1> QED BY <1>13 DEF y

LEMMA ZeroedFacts ==
    ASSUME NEW w \in [1 .. Words -> Nat], NEW n \in Nat
    PROVE  /\ Zeroed(w, n) \in [1 .. Words -> Nat]
           /\ \A a \in 1 .. Words :
                 Zeroed(w, n)[a] = IF a > RegionStart + it.i /\ a <= RegionStart + it.i + n
                                   THEN 0 ELSE w[a]
BY DEF Zeroed

\* Writing to the pair keeps the frame.
LEMMA KeepFacts ==
    ASSUME InputInv, stage \in DiffStages,
           NEW wa \in [1 .. Words -> Nat], NEW wb \in [1 .. Words -> Nat], wa[1] = wb[1],
           Keep(wa, wb), sc' = sc, todo' = todo, noise' \in Nat, ipc' = ipc
    PROVE  /\ Frame' /\ cand'.v.ids = cand.v.ids
           /\ cand'.v.seq[it.a].w = wa /\ cand'.v.seq[it.b].w = wb
<1> DEFINE s == WriteBoth(cand.v.seq, wa, wb)
<1>1. /\ sc \in Scenarios /\ noise \in Nat /\ inputs \in InputSeqs /\ ipc = 1
      /\ cand \in [in : InputSeqs, v : Viols] /\ Valid(cand.v)
      /\ it.a = FirstId(cand.v) /\ it.b = SecondId(cand.v)
  BY DiffFacts
<1>2. cand.in \in InputSeqs /\ cand.v \in Viols /\ cand.v.seq \in InputSeqs
      /\ cand.v.ids \in SUBSET Nat
  BY <1>1 DEF Viols
<1>3. s \in InputSeqs /\ WriteBoth(cand.in, wa, wb) \in InputSeqs
      /\ WriteBoth(inputs, wa, wb) \in InputSeqs
  BY <1>1, <1>2, WriteFacts
<1>4. DOMAIN s = DOMAIN cand.v.seq /\ s[it.a].w = wa /\ s[it.b].w = wb
  BY <1>1, WriteWords
<1>5. /\ cand' = [in |-> WriteBoth(cand.in, wa, wb), v |-> [cand.v EXCEPT !.seq = s]]
      /\ inputs' = WriteBoth(inputs, wa, wb)
  BY DEF Keep
<1> HIDE DEF s
<1>6. cand'.v.seq = s /\ cand'.v.ids = cand.v.ids /\ cand'.v \in Viols
      /\ cand' \in [in : InputSeqs, v : Viols]
  BY <1>2, <1>3, <1>5 DEF Viols
<1>7. FirstId(cand'.v) = it.a /\ SecondId(cand'.v) = it.b
  BY <1>1, <1>6 DEF FirstId, SecondId
<1>8. it.a \in DOMAIN s /\ it.b \in DOMAIN s /\ it.a # it.b
  BY <1>1, <1>4, PairFacts
<1>9. Valid(cand'.v)
  BY <1>4, <1>6, <1>7, <1>8 DEF Valid
<1>10. Valid(cand.v)'
  BY <1>9 DEF Valid, FirstId, SecondId
<1>11. Frame'
  BY <1>1, <1>3, <1>5, <1>6, <1>10 DEF Frame, InputInv
<1> QED BY <1>4, <1>6, <1>11

\* The pass goes on behind n settled words.
LEMMA AdvanceFacts ==
    ASSUME InputInv, stage \in DiffStages, NEW n \in Nat, it.i + n <= RegionSize, Advance(n),
           Frame', cand'.v.ids = cand.v.ids, sc' = sc, prog' = prog, ipc' = ipc,
           noise' <= it.noise,
           NEW wa, NEW wb, cand'.v.seq[it.a].w = wa, cand'.v.seq[it.b].w = wb,
           leaked' \subseteq 1 .. RegionStart + it.i + n,
           \A a \in 1 .. RegionStart + it.i + n : wa[a] # wb[a] <=> a \in leaked',
           noise' = it.noise /\ CodeLeaks(prog) /\ wa[sc.leak] # wb[sc.leak]
              => leaked' \subseteq {sc.leak}
    PROVE  InputInv'
<1>1. /\ it \in DiffType /\ it.a = FirstId(cand.v) /\ it.b = SecondId(cand.v) /\ ipc = 1
      /\ RegionStart \in Nat /\ RegionSize \in Nat /\ it.i \in Nat
  BY DiffFacts
<1>2. it' = [it EXCEPT !.i = it.i + n, !.size = 0] /\ stage' = "diff_block"
  BY DEF Advance
<1>3. it' \in DiffType /\ it'.i = it.i + n /\ it'.a = it.a /\ it'.b = it.b
      /\ it'.region = it.region /\ it'.noise = it.noise
  <2>1. it.i + n \in Nat
    BY <1>1
  <2> QED BY <1>1, <1>2, <2>1 DEF DiffType
<1>4. RegionStart' = RegionStart /\ RegionSize' = RegionSize
  BY <1>3 DEF RegionStart, RegionSize
<1>5. WordsA' = wa /\ WordsB' = wb
  BY <1>3 DEF WordsA, WordsB
<1>6. FirstId(cand.v)' = FirstId(cand.v) /\ SecondId(cand.v)' = SecondId(cand.v)
  BY DEF FirstId, SecondId
<1>7. DiffLoop'
  BY <1>1, <1>2, <1>3, <1>4, <1>6 DEF DiffLoop, DiffType
<1>8. RegionStart + (it.i + n) = RegionStart + it.i + n
  BY <1>1
<1>9. CodeLeaks(prog)' <=> CodeLeaks(prog)
  BY DEF CodeLeaks, FenceFree
<1>10. DiffResult'
  BY <1>3, <1>4, <1>5, <1>8, <1>9 DEF DiffResult, Settled
<1>11. SeqLoop' /\ stage' \in DiffStages
  BY <1>2 DEF SeqLoop, DiffStages
<1> QED BY <1>7, <1>10, <1>11 DEF InputInv

\* A step that only changes where the pass is, in the same region.
LEMMA StayFacts ==
    ASSUME InputInv, stage \in DiffStages, Frame', cand' = cand, sc' = sc, prog' = prog,
           ipc' = ipc, leaked' = leaked, noise' \in Nat, noise' <= noise,
           NEW n \in Nat, it' = it \/ it' = [it EXCEPT !.size = n],
           \/ stage' = "diff_zero" /\ it'.size > 0 /\ it.i + it'.size <= RegionSize
           \/ stage' = "diff_one" /\ it.i < RegionSize
           \/ stage' = "diff_copy" /\ it.i < RegionSize /\ WordsA[At] # WordsB[At]
    PROVE  InputInv'
<1>1. /\ it \in DiffType /\ it.a = FirstId(cand.v) /\ it.b = SecondId(cand.v) /\ ipc = 1
      /\ RegionStart \in Nat /\ RegionSize \in Nat /\ it.i \in Nat /\ it.i <= RegionSize
      /\ noise \in Nat /\ it.noise \in Nat
  BY DiffFacts
<1>2. it' \in DiffType /\ it'.i = it.i /\ it'.a = it.a /\ it'.b = it.b
      /\ it'.region = it.region /\ it'.noise = it.noise
  BY <1>1 DEF DiffType
<1>3. RegionStart' = RegionStart /\ RegionSize' = RegionSize /\ At' = At /\ Settled' = Settled
  BY <1>2 DEF RegionStart, RegionSize, At, Settled
<1>4. WordsA' = WordsA /\ WordsB' = WordsB
  BY <1>2 DEF WordsA, WordsB
<1>5. FirstId(cand.v)' = FirstId(cand.v) /\ SecondId(cand.v)' = SecondId(cand.v)
  BY DEF FirstId, SecondId
<1>6. DiffLoop'
  BY <1>1, <1>2, <1>3, <1>4, <1>5 DEF DiffLoop, DiffType
<1>7. CodeLeaks(prog)' <=> CodeLeaks(prog)
  BY DEF CodeLeaks, FenceFree
<1>8. DiffResult
  BY DEF InputInv
<1>9. noise' <= it.noise /\ (noise' = it.noise => noise = it.noise)
  BY <1>1, <1>8 DEF DiffResult
<1>10. DiffResult'
  BY <1>2, <1>3, <1>4, <1>7, <1>8, <1>9 DEF DiffResult
<1>11. SeqLoop' /\ stage' \in DiffStages
  BY DEF SeqLoop, DiffStages
<1> QED BY <1>6, <1>10, <1>11 DEF InputInv

LEMMA DiffFrame ==
    ASSUME InputInv, stage \in DiffStages, sc' = sc, inputs' = inputs, todo' = todo,
           cand' = cand, noise' \in Nat, ipc' = ipc
    PROVE  Frame'
<1>1. stage \in InputStages /\ ipc \in Nat \ {0}
  BY DEF InputInv, Frame, InputStages
<1> QED BY <1>1, SeqFrame

LEMMA NextBlockStep == InputInv /\ NextBlock => InputInv'
<1> SUFFICES ASSUME InputInv, NextBlock PROVE InputInv'
  OBVIOUS
<1>0. stage \in DiffStages
  BY DEF NextBlock, DiffStages
<1>1. /\ it \in DiffType /\ it.a = FirstId(cand.v) /\ it.b = SecondId(cand.v) /\ ipc = 1
      /\ RegionStart \in Nat /\ RegionSize \in Nat /\ it.i \in Nat /\ it.i <= RegionSize
      /\ noise \in Nat /\ it.noise \in Nat /\ cand.v.seq \in InputSeqs /\ stage \in InputStages
  BY <1>0, DiffFacts DEF Valid, Viols
<1>2. /\ sc' = sc /\ inputs' = inputs /\ todo' = todo /\ cand' = cand /\ noise' = noise
      /\ leaked' = leaked /\ prog' = prog
  BY DEF NextBlock, progVars
<1>3. CASE /\ it.i < RegionSize /\ it' = [it EXCEPT !.size = StartSize]
           /\ stage' = IF StartSize > 1 THEN "diff_zero" ELSE "diff_one"
           /\ ipc' = ipc
  <2>1. StartSize \in Nat /\ StartSize > 0 /\ it.i + StartSize <= RegionSize
    BY <1>1, <1>3, StartSizeFits
  <2>2. it'.size = StartSize
    BY <1>1, <1>3 DEF DiffType
  <2>3. Frame'
    BY <1>0, <1>1, <1>2, <1>3, DiffFrame
  <2>4. noise' <= noise /\ noise' \in Nat
    BY <1>1, <1>2
  <2>5. \/ stage' = "diff_zero" /\ it'.size > 0 /\ it.i + it'.size <= RegionSize
        \/ stage' = "diff_one" /\ it.i < RegionSize
    BY <1>3, <2>1, <2>2
  <2> HIDE DEF StartSize
  <2> QED BY <1>0, <1>2, <1>3, <2>1, <2>3, <2>4, <2>5, StayFacts
<1>4. CASE /\ it.i = RegionSize /\ it.region < Len(RegionEnds)
           /\ it' = [it EXCEPT !.i = 0, !.region = @ + 1]
           /\ stage' = stage /\ ipc' = ipc
  <2>1. it.region \in Nat /\ it.region + 1 \in 1 .. Len(RegionEnds) /\ it.region + 1 # 1
        /\ it.region \in 1 .. Len(RegionEnds) /\ (it.region + 1) - 1 = it.region
    BY <1>1, <1>4, Regions DEF DiffType
  <2>2. it' = [it EXCEPT !.i = 0, !.region = it.region + 1]
    BY <1>4
  <2>3. it' \in DiffType /\ it'.i = 0 /\ it'.a = it.a /\ it'.b = it.b
        /\ it'.region = it.region + 1 /\ it'.noise = it.noise
    BY <1>1, <2>1, <2>2 DEF DiffType
  <2>4. RegionStart' = RegionEnds[it.region]
    BY <2>1, <2>3 DEF RegionStart
  <2>5. RegionStart' = RegionStart + it.i
    BY <1>1, <1>4, <2>1, <2>4, RegionFacts
  <2>6. RegionSize' \in Nat
    <3>1. it'.region \in 1 .. Len(RegionEnds)
      BY <2>3 DEF DiffType
    <3>2. it.region \in 1 .. Len(RegionEnds) /\ it.region + 1 \in 1 .. Len(RegionEnds)
          /\ it.region < it.region + 1
      BY <2>1
    <3>3. /\ RegionEnds[it.region] \in Nat /\ RegionEnds[it.region + 1] \in Nat
          /\ RegionEnds[it.region] < RegionEnds[it.region + 1]
      BY <3>2, Regions
    <3>4. RegionSize' = RegionEnds[it.region + 1] - RegionEnds[it.region]
      BY <2>3, <2>4 DEF RegionSize
    <3> QED BY <3>3, <3>4
  <2>7. RegionStart' + 0 = RegionStart + it.i
    BY <1>1, <2>5
  <2>8. WordsA' = WordsA /\ WordsB' = WordsB /\ Settled' = Settled
    BY <1>2, <2>3, <2>7 DEF WordsA, WordsB, Settled
  <2>9. FirstId(cand.v)' = FirstId(cand.v) /\ SecondId(cand.v)' = SecondId(cand.v)
    BY <1>2 DEF FirstId, SecondId
  <2>10. stage' = "diff_block"
    BY <1>4 DEF NextBlock
  <2>11. DiffLoop'
    BY <1>1, <1>4, <2>3, <2>6, <2>9, <2>10 DEF DiffLoop, DiffType
  <2>12. CodeLeaks(prog)' <=> CodeLeaks(prog)
    BY <1>2 DEF CodeLeaks, FenceFree
  <2>13. DiffResult
    BY <1>0 DEF InputInv
  <2>14. DiffResult'
    BY <1>2, <2>3, <2>8, <2>12, <2>13 DEF DiffResult
  <2>15. Frame'
    BY <1>0, <1>1, <1>2, <1>4, DiffFrame
  <2>16. SeqLoop'
    BY <2>10 DEF SeqLoop
  <2> QED BY <2>11, <2>14, <2>15, <2>16 DEF InputInv
<1>5. CASE InputPassDone(cand.v.seq)
  <2>1. noise' \in Nat
    BY <1>1, <1>2
  <2> QED BY <1>1, <1>2, <1>5, <2>1, DoneFacts
<1> QED BY <1>3, <1>4, <1>5 DEF NextBlock

\* A block that was zeroed in both inputs is settled.
LEMMA ZeroKept ==
    ASSUME InputInv, stage \in DiffStages, NEW n \in Nat, it.i + n <= RegionSize,
           CheckPair(Zeroed(WordsA, n), Zeroed(WordsB, n), TRUE),
           Keep(Zeroed(WordsA, n), Zeroed(WordsB, n)), Advance(n),
           sc' = sc, prog' = prog, todo' = todo, ipc' = ipc, leaked' = leaked
    PROVE  InputInv'
<1> DEFINE wa == Zeroed(WordsA, n)
           wb == Zeroed(WordsB, n)
           pos == RegionStart + it.i
<1>1. /\ Valid(cand.v) /\ it.a = FirstId(cand.v) /\ it.b = SecondId(cand.v)
      /\ RegionStart \in Nat /\ RegionSize \in Nat /\ it.i \in Nat
      /\ noise \in Nat /\ it.noise \in Nat /\ RegionStart + RegionSize <= Words
      /\ sc.leak \in 1 .. Words /\ Words \in Nat
  BY DiffFacts
<1>2. WordsA \in [1 .. Words -> Nat] /\ WordsB \in [1 .. Words -> Nat] /\ WordsA[1] = WordsB[1]
  BY <1>1, PairFacts
<1>3. /\ wa \in [1 .. Words -> Nat] /\ wb \in [1 .. Words -> Nat]
      /\ \A a \in 1 .. Words : /\ wa[a] = IF a > pos /\ a <= pos + n THEN 0 ELSE WordsA[a]
                               /\ wb[a] = IF a > pos /\ a <= pos + n THEN 0 ELSE WordsB[a]
  BY <1>2, ZeroedFacts
<1>4. 1 \in 1 .. Words
  BY Regions
<1>5. noise' \in Nat /\ noise' <= noise
  BY <1>1, CheckFacts DEF CheckPair
<1>6. Keep(wa, wb)
  OBVIOUS
<1> HIDE DEF wa, wb
<1>7. wa[1] = wb[1]
  BY <1>2, <1>3, <1>4
<1>8. /\ Frame' /\ cand'.v.ids = cand.v.ids
      /\ cand'.v.seq[it.a].w = wa /\ cand'.v.seq[it.b].w = wb
  BY <1>3, <1>5, <1>6, <1>7, KeepFacts
<1>9. DiffResult
  BY DEF InputInv
<1>10. noise' <= it.noise /\ (noise' = it.noise => noise = it.noise)
  BY <1>1, <1>5, <1>9 DEF DiffResult
<1>11. pos \in Nat /\ pos + n \in Nat /\ pos + n <= Words
  BY <1>1
<1>12. leaked \subseteq 1 .. pos /\ \A a \in 1 .. pos : WordsA[a] # WordsB[a] <=> a \in leaked
  BY <1>9 DEF DiffResult, Settled
<1> HIDE DEF pos
<1>13. leaked' \subseteq 1 .. pos + n
  BY <1>11, <1>12
<1>14. ASSUME NEW a \in 1 .. pos + n PROVE wa[a] # wb[a] <=> a \in leaked'
  <2>1. a \in 1 .. Words /\ a \in Nat
    BY <1>1, <1>11
  <2>2. CASE a > pos
    <3>1. wa[a] = 0 /\ wb[a] = 0
      BY <1>3, <2>1, <2>2
    <3>2. a \notin leaked
      BY <1>11, <1>12, <2>1, <2>2
    <3> QED BY <3>1, <3>2
  <2>3. CASE ~(a > pos)
    <3>1. a \in 1 .. pos
      BY <1>11, <2>1, <2>3
    <3>2. wa[a] = WordsA[a] /\ wb[a] = WordsB[a]
      BY <1>3, <2>1, <2>3
    <3> QED BY <1>12, <3>1, <3>2
  <2> QED BY <2>2, <2>3
<1>15. wa[sc.leak] # wb[sc.leak] => WordsA[sc.leak] # WordsB[sc.leak]
  <2> DEFINE l == sc.leak
  <2>1. l \in 1 .. Words
    BY <1>1
  <2> HIDE DEF l
  <2>2. \/ wa[l] = 0 /\ wb[l] = 0
        \/ wa[l] = WordsA[l] /\ wb[l] = WordsB[l]
    BY <1>3, <2>1
  <2>3. wa[l] # wb[l] => WordsA[l] # WordsB[l]
    BY <2>2
  <2> QED BY <2>3 DEF l
<1>16. noise' = it.noise /\ CodeLeaks(prog) /\ wa[sc.leak] # wb[sc.leak]
          => leaked' \subseteq {sc.leak}
  BY <1>9, <1>10, <1>15 DEF DiffResult
<1>17. /\ leaked' \subseteq 1 .. RegionStart + it.i + n
       /\ \A a \in 1 .. RegionStart + it.i + n : wa[a] # wb[a] <=> a \in leaked'
  BY <1>13, <1>14 DEF pos
<1> QED BY <1>8, <1>10, <1>16, <1>17, AdvanceFacts

LEMMA ZeroBlockStep == InputInv /\ ZeroBlock => InputInv'
<1> SUFFICES ASSUME InputInv, ZeroBlock PROVE InputInv'
  OBVIOUS
<1> DEFINE wa == Zeroed(WordsA, it.size)
           wb == Zeroed(WordsB, it.size)
<1>0. stage \in DiffStages /\ stage = "diff_zero"
  BY DEF ZeroBlock, DiffStages
<1>1. /\ RegionSize \in Nat /\ it.i \in Nat /\ it.i <= RegionSize /\ it.size \in Nat
      /\ noise \in Nat /\ it \in DiffType
  BY <1>0, DiffFacts
<1>2. it.size > 0 /\ it.i + it.size <= RegionSize
  BY <1>0 DEF InputInv, DiffLoop
<1>3. sc' = sc /\ ipc' = ipc /\ todo' = todo /\ leaked' = leaked /\ prog' = prog
  BY DEF ZeroBlock, progVars
<1>4. CASE CheckPair(wa, wb, TRUE) /\ Keep(wa, wb) /\ Advance(it.size)
  BY <1>0, <1>1, <1>2, <1>3, <1>4, ZeroKept
<1>5. CASE /\ CheckPair(wa, wb, FALSE)
           /\ it' = [it EXCEPT !.size = @ \div 2]
           /\ stage' = IF it.size \div 2 > 1 THEN "diff_zero" ELSE "diff_one"
           /\ cand' = cand /\ inputs' = inputs
  <2> HIDE DEF wa, wb
  <2>1. noise' \in Nat /\ noise' <= noise
    BY <1>1, <1>5, CheckFacts DEF CheckPair
  <2>2. Frame'
    BY <1>0, <1>3, <1>5, <2>1, DiffFrame
  <2> DEFINE n == it.size \div 2
  <2>3. \A k \in Nat : k \div 2 \in Nat /\ k \div 2 <= k
    OBVIOUS
  <2>4. n \in Nat /\ n <= it.size
    BY <1>1, <2>3
  <2>5. it' = [it EXCEPT !.size = n] /\ stage' = IF n > 1 THEN "diff_zero" ELSE "diff_one"
    BY <1>5
  <2> HIDE DEF n
  <2>6. it'.size = n
    BY <1>1, <2>5 DEF DiffType
  <2>7. \/ stage' = "diff_zero" /\ it'.size > 0 /\ it.i + it'.size <= RegionSize
        \/ stage' = "diff_one" /\ it.i < RegionSize
    BY <1>1, <1>2, <2>4, <2>5, <2>6
  <2> QED BY <1>0, <1>3, <1>5, <2>1, <2>2, <2>4, <2>5, <2>7, StayFacts
<1> QED BY <1>4, <1>5 DEF ZeroBlock

LEMMA ZeroWordStep == InputInv /\ ZeroWord => InputInv'
<1> SUFFICES ASSUME InputInv, ZeroWord PROVE InputInv'
  OBVIOUS
<1> DEFINE wa == Zeroed(WordsA, 1)
           wb == Zeroed(WordsB, 1)
<1>0. stage \in DiffStages /\ stage = "diff_one"
  BY DEF ZeroWord, DiffStages
<1>1. /\ RegionStart \in Nat /\ RegionSize \in Nat /\ it.i \in Nat /\ it.size \in Nat
      /\ noise \in Nat /\ it.noise \in Nat /\ it \in DiffType
      /\ it.a = FirstId(cand.v) /\ it.b = SecondId(cand.v) /\ Valid(cand.v)
  BY <1>0, DiffFacts
<1>2. it.i < RegionSize /\ it.i + 1 <= RegionSize
  BY <1>0, <1>1 DEF InputInv, DiffLoop
<1>3. sc' = sc /\ ipc' = ipc /\ todo' = todo /\ leaked' = leaked /\ prog' = prog
  BY DEF ZeroWord, progVars
<1>4. CASE CheckPair(wa, wb, TRUE) /\ Keep(wa, wb) /\ Advance(1)
  BY <1>0, <1>1, <1>2, <1>3, <1>4, ZeroKept
<1>5. CASE /\ CheckPair(wa, wb, FALSE)
           /\ IF WordsA[At] = WordsB[At] THEN Advance(1)
              ELSE stage' = "diff_copy" /\ UNCHANGED it
           /\ cand' = cand /\ inputs' = inputs
  <2> HIDE DEF wa, wb
  <2>1. noise' \in Nat /\ noise' <= noise
    BY <1>1, <1>5, CheckFacts DEF CheckPair
  <2>2. Frame'
    BY <1>0, <1>3, <1>5, <2>1, DiffFrame
  <2>3. CASE WordsA[At] # WordsB[At]
    BY <1>0, <1>1, <1>2, <1>3, <1>5, <2>1, <2>2, <2>3, StayFacts
  <2>4. CASE WordsA[At] = WordsB[At]
    <3> DEFINE pos == RegionStart + it.i
    <3>1. Advance(1)
      BY <1>5, <2>4
    <3>2. DiffResult
      BY <1>0 DEF InputInv
    <3>3. noise' <= it.noise /\ (noise' = it.noise => noise = it.noise)
      BY <1>1, <2>1, <3>2 DEF DiffResult
    <3>4. pos \in Nat /\ At = pos + 1
      BY <1>1 DEF At
    <3>5. leaked \subseteq 1 .. pos /\ \A a \in 1 .. pos : WordsA[a] # WordsB[a] <=> a \in leaked
      BY <3>2 DEF DiffResult, Settled
    <3> HIDE DEF pos
    <3>6. At \notin leaked /\ leaked \subseteq 1 .. pos + 1
      BY <3>4, <3>5
    <3>7. \A a \in 1 .. pos + 1 : a \in 1 .. pos \/ a = At
      BY <3>4
    <3>8. \A a \in 1 .. pos + 1 : WordsA[a] # WordsB[a] <=> a \in leaked
      BY <2>4, <3>5, <3>6, <3>7
    <3>9. /\ leaked' \subseteq 1 .. RegionStart + it.i + 1
          /\ \A a \in 1 .. RegionStart + it.i + 1 : WordsA[a] # WordsB[a] <=> a \in leaked'
      BY <1>3, <3>6, <3>8 DEF pos
    <3>10. noise' = it.noise /\ CodeLeaks(prog) /\ WordsA[sc.leak] # WordsB[sc.leak]
              => leaked' \subseteq {sc.leak}
      BY <1>3, <3>2, <3>3 DEF DiffResult
    <3>11. cand'.v.ids = cand.v.ids /\ cand'.v.seq[it.a].w = WordsA
           /\ cand'.v.seq[it.b].w = WordsB
      BY <1>5 DEF WordsA, WordsB
    <3> QED BY <1>0, <1>2, <1>3, <2>2, <3>1, <3>3, <3>9, <3>10, <3>11, AdvanceFacts
  <2> QED BY <2>3, <2>4
<1> QED BY <1>4, <1>5 DEF ZeroWord

\* Copying a word that does not leak keeps the violation, so a word at which the
\* check fails without a missed round is the one that leaks.
LEMMA CopyWordStep == InputInv /\ CopyWord => InputInv'
<1> SUFFICES ASSUME InputInv, CopyWord PROVE InputInv'
  OBVIOUS
<1> DEFINE wb == [WordsB EXCEPT ![At] = WordsA[At]]
           pos == RegionStart + it.i
<1>0. stage \in DiffStages /\ stage = "diff_copy"
  BY DEF CopyWord, DiffStages
<1>1. /\ RegionStart \in Nat /\ RegionSize \in Nat /\ it.i \in Nat /\ it.size \in Nat
      /\ noise \in Nat /\ it.noise \in Nat /\ it \in DiffType /\ ipc = 1
      /\ it.a = FirstId(cand.v) /\ it.b = SecondId(cand.v) /\ Valid(cand.v)
      /\ RegionStart + RegionSize <= Words /\ sc.leak \in 1 .. Words /\ Words \in Nat
  BY <1>0, DiffFacts
<1>2. it.i < RegionSize /\ it.i + 1 <= RegionSize /\ WordsA[At] # WordsB[At]
  BY <1>0, <1>1 DEF InputInv, DiffLoop
<1>3. sc' = sc /\ ipc' = ipc /\ todo' = todo /\ prog' = prog /\ Advance(1)
  BY DEF CopyWord, progVars
<1>4. WordsA \in [1 .. Words -> Nat] /\ WordsB \in [1 .. Words -> Nat] /\ WordsA[1] = WordsB[1]
  BY <1>1, PairFacts
<1>5. pos \in Nat /\ At = pos + 1 /\ At \in 1 .. Words /\ At # 1
  <2>1. pos \in Nat /\ At = pos + 1 /\ At \in 1 .. Words
    BY <1>1, <1>2 DEF At
  <2> QED BY <1>2, <1>4, <2>1
<1>6. /\ wb \in [1 .. Words -> Nat] /\ wb[At] = WordsA[At]
      /\ \A a \in 1 .. Words : a # At => wb[a] = WordsB[a]
  BY <1>4, <1>5
<1>7. wb[1] = WordsA[1]
  BY <1>4, <1>5, <1>6, Regions
<1>8. DiffResult
  BY <1>0 DEF InputInv
<1>9. leaked \subseteq 1 .. pos /\ \A a \in 1 .. pos : WordsA[a] # WordsB[a] <=> a \in leaked
  BY <1>8 DEF DiffResult, Settled
<1>10. \/ CheckPair(WordsA, wb, TRUE) /\ Keep(WordsA, wb) /\ leaked' = leaked
       \/ /\ CheckPair(WordsA, wb, FALSE) /\ leaked' = leaked \cup {At}
          /\ cand' = cand /\ inputs' = inputs
  BY DEF CopyWord
<1> HIDE DEF wb, pos
<1>11. noise' \in Nat /\ noise' <= noise
  BY <1>1, <1>10, CheckFacts DEF CheckPair
<1>12. noise' <= it.noise /\ (noise' = it.noise => noise = it.noise)
  BY <1>1, <1>8, <1>11 DEF DiffResult
<1>13. \A a \in 1 .. pos + 1 : a \in 1 .. pos \/ a = At
  BY <1>5
<1>14. \A a \in 1 .. pos : a \in 1 .. Words /\ a # At
  BY <1>1, <1>5
<1>15. At \notin leaked /\ leaked \subseteq 1 .. pos + 1 /\ At \in 1 .. pos + 1
  BY <1>5, <1>9
<1>16. CASE CheckPair(WordsA, wb, TRUE) /\ Keep(WordsA, wb) /\ leaked' = leaked
  <2>1. /\ Frame' /\ cand'.v.ids = cand.v.ids
        /\ cand'.v.seq[it.a].w = WordsA /\ cand'.v.seq[it.b].w = wb
    BY <1>0, <1>3, <1>4, <1>6, <1>7, <1>11, <1>16, KeepFacts
  <2>2. \A a \in 1 .. pos + 1 : WordsA[a] # wb[a] <=> a \in leaked'
    BY <1>6, <1>9, <1>13, <1>14, <1>15, <1>16
  <2>3. WordsA[sc.leak] # wb[sc.leak] => WordsA[sc.leak] # WordsB[sc.leak]
    BY <1>1, <1>6
  <2>4. noise' = it.noise /\ CodeLeaks(prog) /\ WordsA[sc.leak] # wb[sc.leak]
           => leaked' \subseteq {sc.leak}
    BY <1>8, <1>12, <1>16, <2>3 DEF DiffResult
  <2>5. /\ leaked' \subseteq 1 .. RegionStart + it.i + 1
        /\ \A a \in 1 .. RegionStart + it.i + 1 : WordsA[a] # wb[a] <=> a \in leaked'
    BY <1>15, <1>16, <2>2 DEF pos
  <2> QED BY <1>0, <1>2, <1>3, <1>12, <2>1, <2>4, <2>5, AdvanceFacts
<1>17. CASE /\ CheckPair(WordsA, wb, FALSE) /\ leaked' = leaked \cup {At}
            /\ cand' = cand /\ inputs' = inputs
  <2>1. Frame'
    BY <1>0, <1>3, <1>11, <1>17, DiffFrame
  <2>2. \A a \in 1 .. pos + 1 : WordsA[a] # WordsB[a] <=> a \in leaked'
    BY <1>2, <1>9, <1>13, <1>14, <1>17
  <2>3. ASSUME noise' = it.noise, CodeLeaks(prog), WordsA[sc.leak] # WordsB[sc.leak]
        PROVE  leaked' \subseteq {sc.leak}
    <3>1. noise = it.noise /\ noise' = noise /\ leaked \subseteq {sc.leak}
      BY <1>8, <1>12, <2>3 DEF DiffResult
    <3>2. Violations(prog, WriteBoth(cand.v.seq, WordsA, wb),
                     DOMAIN cand.v.seq \ {it.a, it.b}) = {}
      BY <1>1, <1>17, <3>1, CheckFacts DEF CheckPair
    <3>3. WordsA[sc.leak] = wb[sc.leak]
      BY <1>1, <1>4, <1>6, <1>7, <2>3, <3>2, PairShows
    <3>4. At = sc.leak
      BY <1>1, <1>6, <2>3, <3>3
    <3> QED BY <1>17, <3>1, <3>4
  <2>4. /\ leaked' \subseteq 1 .. RegionStart + it.i + 1
        /\ \A a \in 1 .. RegionStart + it.i + 1 : WordsA[a] # WordsB[a] <=> a \in leaked'
    BY <1>15, <1>17, <2>2 DEF pos
  <2>5. cand'.v.ids = cand.v.ids /\ cand'.v.seq[it.a].w = WordsA
        /\ cand'.v.seq[it.b].w = WordsB
    BY <1>17 DEF WordsA, WordsB
  <2> QED BY <1>0, <1>2, <1>3, <1>12, <2>1, <2>3, <2>4, <2>5, AdvanceFacts
<1> QED BY <1>10, <1>16, <1>17

LEMMA InputInvStep == InputInv /\ [Next]_vars => InputInv'
<1> SUFFICES ASSUME InputInv, [Next]_vars PROVE InputInv'
  OBVIOUS
<1>1. /\ inputs \in InputSeqs /\ ipc \in Nat \ {0} /\ noise \in Nat
  BY DEF InputInv, Frame
<1>2. CASE SetIgnoreList
  BY <1>1, <1>2, LeavesInputs DEF SetIgnoreList, inputVars
<1>3. CASE StartPass
  BY <1>1, <1>3, LeavesInputs DEF StartPass, inputVars
<1>4. CASE TryLine
  <2>1. noise' \in Nat
    <3>1. \/ noise' = noise
          \/ \E new : \E r \in BOOLEAN : Check(new, inputs, ignore, r)
      BY <1>4 DEF TryLine
    <3> QED BY <1>1, <3>1, CheckFacts
  <2> QED BY <1>1, <1>4, <2>1, LeavesInputs DEF TryLine, inputVars
<1>5. CASE FinishPass
  BY <1>1, <1>5, LeavesInputs DEF FinishPass, inputVars
<1>6. CASE RemoveLabels
  BY <1>1, <1>6, LeavesInputs DEF RemoveLabels, inputVars
<1>7. CASE AddComments
  BY <1>1, <1>7, LeavesInputs DEF AddComments, inputVars
<1>8. CASE NextAttempt
  BY <1>1, <1>8, LeavesInputs DEF NextAttempt, inputVars
<1>9. CASE UNCHANGED vars
  <2>1. /\ sc' = sc /\ stage' = stage /\ noise' = noise /\ ipc' = ipc /\ prog' = prog
        /\ inputs' = inputs /\ todo' = todo /\ cand' = cand /\ it' = it /\ leaked' = leaked
    BY <1>9 DEF vars
  <2>2. Frame'
    BY <2>1 DEF InputInv, Frame, Valid, FirstId, SecondId
  <2>3. SeqLoop'
    BY <2>1 DEF InputInv, SeqLoop, Valid, FirstId, SecondId
  <2>4. /\ WordsA' = WordsA /\ WordsB' = WordsB /\ At' = At /\ Settled' = Settled
        /\ RegionSize' = RegionSize
    BY <2>1 DEF WordsA, WordsB, At, Settled, RegionStart, RegionSize
  <2>5. CodeLeaks(prog)' <=> CodeLeaks(prog)
    BY <2>1 DEF CodeLeaks, FenceFree
  <2>6. DiffLoop <=> DiffLoop'
    BY <2>1, <2>4 DEF DiffLoop, FirstId, SecondId
  <2>7. DiffResult <=> DiffResult'
    BY <2>1, <2>4, <2>5 DEF DiffResult
  <2> QED BY <2>1, <2>2, <2>3, <2>6, <2>7 DEF InputInv
<1> QED
  BY <1>2, <1>3, <1>4, <1>5, <1>6, <1>7, <1>8, <1>9, ReproduceStep, StartInputPassStep,
     CheckInputPassStep, CheckNewInputsStep, HalveInputsStep, ShrinkInputsStep, NextBlockStep,
     ZeroBlockStep, ZeroWordStep, CopyWordStep DEF Next

\* At the end of the last region every word is settled.
LEMMA SettledAtTheEnd == InputInv => DifferenceIsLeaked
<1> SUFFICES ASSUME InputInv, stage = "diff_block", it.region = Len(RegionEnds),
                    it.i = RegionSize
             PROVE  /\ {a \in DOMAIN WordsA : WordsA[a] # WordsB[a]} = leaked
                    /\ sc.leak \in leaked /\ noise = it.noise /\ CodeLeaks(prog)
                          => leaked = {sc.leak}
  BY DEF DifferenceIsLeaked
<1>1. stage \in DiffStages
  BY DEF DiffStages
<1>2. /\ Valid(cand.v) /\ it.a = FirstId(cand.v) /\ it.b = SecondId(cand.v) /\ it \in DiffType
  BY <1>1, DiffFacts
<1>3. RegionStart + it.i = Words
  <2>1. it.region \in 1 .. Len(RegionEnds)
    BY <1>2 DEF DiffType
  <2> QED BY <2>1, Regions, RegionFacts
<1>4. DOMAIN WordsA = 1 .. Words
  BY <1>2, PairFacts
<1>5. DiffResult
  BY <1>1 DEF InputInv
<1>6. /\ leaked \subseteq DOMAIN WordsA
      /\ \A a \in DOMAIN WordsA : WordsA[a] # WordsB[a] <=> a \in leaked
  BY <1>3, <1>4, <1>5 DEF DiffResult, Settled
<1>7. {a \in DOMAIN WordsA : WordsA[a] # WordsB[a]} = leaked
  BY <1>6
<1>8. ASSUME sc.leak \in leaked, noise = it.noise, CodeLeaks(prog) PROVE leaked = {sc.leak}
  <2>1. WordsA[sc.leak] # WordsB[sc.leak]
    BY <1>6, <1>8
  <2>2. leaked \subseteq {sc.leak}
    BY <1>5, <1>8, <2>1 DEF DiffResult
  <2> QED BY <1>8, <2>2
<1> QED BY <1>7, <1>8

\* The differential pass tells the truth, for any regions, block sizes, inputs and
\* missed rounds: the words in which the two inputs still differ are those it
\* reports, and if the pair shows the violation and no round missed it, that is
\* the one word that leaks.
THEOREM DifferenceAlwaysLeaked == Spec => []DifferenceIsLeaked
<1>1. Spec => []InputInv
  BY InvInit, InputInvStep, PTL DEF Spec
<1> QED BY <1>1, SettledAtTheEnd, PTL

-----------------------------------------------------------------------------
(* Flattening.  FlattenSeq evaluates a recursive function; its equations   *)
(* follow by induction, here over a set of numbers.                        *)

LEMMA UpTo ==
    ASSUME NEW S, NEW m \in Nat, NEW n \in Nat, m \in S,
           \A k \in m .. n : k \in S /\ k < n => k + 1 \in S
    PROVE  \A k \in m .. n : k \in S
<1> DEFINE Bad == {k \in Nat : k \in m .. n /\ k \notin S}
<1> SUFFICES ASSUME Bad # {} PROVE FALSE
  OBVIOUS
<1>1. Bad \in SUBSET Nat
  OBVIOUS
<1>2. PICK b \in Bad : \A k \in Bad : b <= k
  BY <1>1, LeastNumber
<1>3. b \in Nat /\ b \in m .. n /\ b \notin S /\ b # m
  BY <1>2
<1>4. b - 1 \in Nat /\ b - 1 \in m .. n /\ b - 1 < n /\ b - 1 < b /\ (b - 1) + 1 = b
  BY <1>3
<1>5. b - 1 \notin Bad
  <2>1. ~(b <= b - 1)
    BY <1>4
  <2> QED BY <1>2, <2>1
<1>6. b - 1 \in S
  BY <1>4, <1>5
<1> QED BY <1>3, <1>4, <1>6

\* The function that FlattenSeq evaluates at the length of g.
FlatFcn(g) == CHOOSE f : f = [i \in 1 .. Len(g) |-> IF i = 1 THEN g[i] ELSE f[i - 1] \o g[i]]

\* f has the equations of that function up to n
FlatTo(g, n, f) == f = [i \in 1 .. n |-> IF i = 1 THEN g[i] ELSE f[i - 1] \o g[i]]

LEMMA FlattenIs ==
    ASSUME NEW g
    PROVE  FlattenSeq(g) = IF Len(g) = 0 THEN g ELSE FlatFcn(g)[Len(g)]
  BY DEF FlattenSeq, FlatFcn

LEMMA FlatFcnExists ==
    ASSUME NEW g, NEW n \in Nat
    PROVE  \E f : FlatTo(g, n, f)
<1> DEFINE Good == {m \in Nat : \E f : FlatTo(g, m, f)}
<1>1. 0 \in Good
  <2>1. FlatTo(g, 0, [i \in 1 .. 0 |-> 0])
    BY DEF FlatTo
  <2> QED BY <2>1
<1>2. ASSUME NEW k \in 0 .. n, k \in Good PROVE k + 1 \in Good
  <2>1. PICK f : FlatTo(g, k, f)
    BY <1>2
  <2> DEFINE m == k + 1
             h == [i \in 1 .. m |-> IF i = m THEN IF m = 1 THEN g[m] ELSE f[k] \o g[m]
                                    ELSE f[i]]
  <2>2. m \in Nat /\ k = m - 1 /\ k \in Nat
    OBVIOUS
  <2> HIDE DEF m
  <2>3. ASSUME NEW i \in 1 .. m PROVE h[i] = IF i = 1 THEN g[i] ELSE h[i - 1] \o g[i]
    <3>1. CASE i = m
      <4>1. i # 1 => i - 1 \in 1 .. m /\ i - 1 # m
        BY <2>2, <3>1
      <4>2. i # 1 => h[i - 1] = f[i - 1]
        BY <4>1
      <4> QED BY <2>2, <3>1, <4>2
    <3>2. CASE i # m
      <4>1. i \in 1 .. k /\ (i # 1 => i - 1 \in 1 .. m /\ i - 1 # m)
        BY <2>2, <3>2
      <4>2. f[i] = IF i = 1 THEN g[i] ELSE f[i - 1] \o g[i]
        BY <2>1, <4>1 DEF FlatTo
      <4>3. h[i] = f[i] /\ (i # 1 => h[i - 1] = f[i - 1])
        BY <3>2, <4>1
      <4> QED BY <4>2, <4>3
    <3> QED BY <3>1, <3>2
  <2>4. FlatTo(g, m, h)
    BY <2>3 DEF FlatTo
  <2> QED BY <2>2, <2>4 DEF m
<1> HIDE DEF Good
<1>3. \A k \in 0 .. n : k \in Good
  BY <1>1, <1>2, UpTo
<1> QED BY <1>3 DEF Good

LEMMA FlatFcnStep ==
    ASSUME NEW g, Len(g) \in Nat, NEW i \in 1 .. Len(g)
    PROVE  FlatFcn(g)[i] = IF i = 1 THEN g[i] ELSE FlatFcn(g)[i - 1] \o g[i]
<1>1. PICK f : FlatTo(g, Len(g), f)
  BY FlatFcnExists
<1>2. FlatTo(g, Len(g), FlatFcn(g))
  BY <1>1 DEF FlatTo, FlatFcn
<1> QED BY <1>2 DEF FlatTo

LEMMA FlatFcnType ==
    ASSUME NEW S, NEW g \in Seq(Seq(S))
    PROVE  \A i \in 1 .. Len(g) : FlatFcn(g)[i] \in Seq(S)
<1> DEFINE Good == {i \in Nat : FlatFcn(g)[i] \in Seq(S)}
<1>2. Len(g) \in Nat
  OBVIOUS
<1>0. CASE Len(g) = 0
  BY <1>0
<1>1. CASE Len(g) # 0
  <2>1. 1 \in Good
    <3>1. 1 \in 1 .. Len(g) /\ 1 \in Nat
      BY <1>1, <1>2
    <3>2. FlatFcn(g)[1] = g[1]
      BY <1>2, <3>1, FlatFcnStep
    <3>3. g[1] \in Seq(S)
      BY <3>1
    <3> QED BY <3>1, <3>2, <3>3
  <2>2. ASSUME NEW k \in 1 .. Len(g), k \in Good, k < Len(g) PROVE k + 1 \in Good
    <3>1. k + 1 \in 1 .. Len(g) /\ k + 1 # 1 /\ (k + 1) - 1 = k
      BY <2>2
    <3>2. FlatFcn(g)[k + 1] = FlatFcn(g)[k] \o g[k + 1]
      <4>1. FlatFcn(g)[k + 1] = IF k + 1 = 1 THEN g[k + 1] ELSE FlatFcn(g)[(k + 1) - 1] \o g[k + 1]
        BY <1>2, <3>1, FlatFcnStep
      <4> QED BY <3>1, <4>1
    <3>3. g[k + 1] \in Seq(S) /\ FlatFcn(g)[k] \in Seq(S)
      BY <2>2, <3>1
    <3>4. FlatFcn(g)[k + 1] \in Seq(S)
      BY <3>2, <3>3, ConcatProperties
    <3> QED BY <3>1, <3>4
  <2> HIDE DEF Good
  <2>3. \A k \in 1 .. Len(g) : k \in Good
    <3>1. 1 \in Nat
      OBVIOUS
    <3> QED BY <1>2, <2>1, <2>2, <3>1, UpTo
  <2> QED BY <2>3 DEF Good
<1> QED BY <1>0, <1>1

LEMMA FlattenType ==
    ASSUME NEW S, NEW g \in Seq(Seq(S))
    PROVE  FlattenSeq(g) \in Seq(S)
<1>1. CASE Len(g) = 0
  <2>1. g = <<>>
    BY <1>1
  <2>2. FlattenSeq(g) = g
    BY <1>1, FlattenIs
  <2> QED BY <2>1, <2>2, EmptySeq
<1>2. CASE Len(g) # 0
  <2>1. Len(g) \in 1 .. Len(g)
    BY <1>2
  <2> QED BY <1>2, <2>1, FlattenIs, FlatFcnType
<1> QED BY <1>1, <1>2
-----------------------------------------------------------------------------
(* Lines and programs up to tags.                                          *)

LEMMA FenceType == Fence \in Line
<1>1. 0 \in Nat /\ "fence" \in Kinds /\ "none" \in Simplifiers \cup {"none"}
  BY DEF Kinds
<1> QED BY <1>1, Zenon DEF Fence, Line

LEMMA NopType ==
    ASSUME NEW l \in Line
    PROVE  Nop(l) \in Line /\ Nop(l).k # "label" /\ Nop(l).id = l.id
<1> DEFINE k == IF l.two THEN "byte" ELSE "inst"
<1>1. k \in Kinds /\ "none" \in Simplifiers \cup {"none"} /\ 0 \in Nat
  BY DEF Kinds
<1>2. Nop(l) = [l EXCEPT !.nopped = TRUE, !.n = 0, !.by = "none", !.tag = FALSE, !.k = k]
  BY DEF Nop
<1>3. Nop(l) \in Line
  <2> HIDE DEF k
  <2> QED BY <1>1, <1>2, Zenon DEF Line
<1>4. Nop(l).id = l.id /\ Nop(l).k # "label"
  BY DEF Nop, Line
<1> QED BY <1>3, <1>4

\* What a pass makes of a line that it can modify is at most two lines, and
\* no label unless it was one.
LEMMA NewLinesFacts ==
    ASSUME NEW pass, NEW l \in Line, CanModify(pass, l)
    PROVE  /\ NewLines(pass, l) \in Seq(Line)
           /\ \A i \in DOMAIN NewLines(pass, l) :
                 NewLines(pass, l)[i].k = "label" => l.k = "label" /\ NewLines(pass, l)[i].id = l.id
<1>1. CASE pass = "removal"
  BY <1>1 DEF NewLines
<1>2. CASE pass = "nop"
  <2>1. NewLines(pass, l) = <<Nop(l)>>
    BY <1>2 DEF NewLines
  <2> QED BY <2>1, NopType
<1>3. CASE pass = "fence"
  <2>1. NewLines(pass, l) = <<Fence, l>>
    BY <1>3 DEF NewLines
  <2>2. Fence.k # "label"
    BY DEF Fence
  <2> QED BY <2>1, <2>2, FenceType
<1>4. CASE pass \notin {"removal", "nop", "fence"}
  <2>1. l.n > 0 /\ l.n \in Nat
    BY <1>4 DEF CanModify, Line
  <2>2. l.n - 1 \in Nat
    BY <2>1
  <2>3. [l EXCEPT !.n = l.n - 1] \in Line /\ [l EXCEPT !.n = l.n - 1].k = l.k
        /\ [l EXCEPT !.n = l.n - 1].id = l.id
    BY <2>2 DEF Line
  <2>4. NewLines(pass, l) = <<[l EXCEPT !.n = l.n - 1]>>
    BY <1>4 DEF NewLines
  <2> DEFINE m == [l EXCEPT !.n = l.n - 1]
  <2>5. m \in Line /\ m.k = l.k /\ m.id = l.id /\ NewLines(pass, l) = <<m>>
    BY <2>3, <2>4
  <2> HIDE DEF m
  <2> QED BY <2>5
<1> QED BY <1>1, <1>2, <1>3, <1>4

LEMMA UntaggedType ==
    ASSUME NEW s \in Seq(Line)
    PROVE  /\ Untagged(s) \in Seq(Line) /\ Len(Untagged(s)) = Len(s)
           /\ \A i \in 1 .. Len(s) : Untagged(s)[i] = [s[i] EXCEPT !.tag = FALSE]
<1>1. \A i \in 1 .. Len(s) : [s[i] EXCEPT !.tag = FALSE] \in Line
  <2>1. \A i \in 1 .. Len(s) : s[i] \in Line
    OBVIOUS
  <2> QED BY <2>1 DEF Line
<1>2. Untagged(s) = [i \in 1 .. Len(s) |-> [s[i] EXCEPT !.tag = FALSE]]
  BY DEF Untagged
<1> QED BY <1>1, <1>2

LEMMA UntaggedConcat ==
    ASSUME NEW s \in Seq(Line), NEW t \in Seq(Line)
    PROVE  Untagged(s \o t) = Untagged(s) \o Untagged(t)
<1>1. s \o t \in Seq(Line) /\ Len(s \o t) = Len(s) + Len(t)
  OBVIOUS
<1>2. /\ Untagged(s \o t) \in Seq(Line) /\ Len(Untagged(s \o t)) = Len(s) + Len(t)
      /\ \A i \in 1 .. Len(s) + Len(t) : Untagged(s \o t)[i] = [(s \o t)[i] EXCEPT !.tag = FALSE]
  BY <1>1, UntaggedType
<1>3. /\ Untagged(s) \in Seq(Line) /\ Len(Untagged(s)) = Len(s)
      /\ \A i \in 1 .. Len(s) : Untagged(s)[i] = [s[i] EXCEPT !.tag = FALSE]
  BY UntaggedType
<1>4. /\ Untagged(t) \in Seq(Line) /\ Len(Untagged(t)) = Len(t)
      /\ \A i \in 1 .. Len(t) : Untagged(t)[i] = [t[i] EXCEPT !.tag = FALSE]
  BY UntaggedType
<1>5. /\ Untagged(s) \o Untagged(t) \in Seq(Line)
      /\ Len(Untagged(s) \o Untagged(t)) = Len(s) + Len(t)
  BY <1>3, <1>4, SMTT(30)
<1>6. ASSUME NEW i \in 1 .. Len(s) + Len(t)
      PROVE  Untagged(s \o t)[i] = (Untagged(s) \o Untagged(t))[i]
  <2>1. CASE i <= Len(s)
    <3>1. i \in 1 .. Len(s)
      BY <2>1
    <3>2. (s \o t)[i] = s[i] /\ (Untagged(s) \o Untagged(t))[i] = Untagged(s)[i]
      BY <1>3, <1>4, <3>1
    <3> QED BY <1>2, <1>3, <3>1, <3>2
  <2>2. CASE ~(i <= Len(s))
    <3>1. i - Len(s) \in 1 .. Len(t)
      BY <2>2
    <3>2. (s \o t)[i] = t[i - Len(s)]
      BY <2>2
    <3>3. (Untagged(s) \o Untagged(t))[i] = Untagged(t)[i - Len(s)]
      BY <1>3, <1>4, <2>2
    <3> QED BY <1>2, <1>4, <3>1, <3>2, <3>3
  <2> QED BY <2>1, <2>2
<1> QED BY <1>2, <1>5, <1>6, SeqEqual

LEMMA Cancel ==
    ASSUME NEW s \in Seq(Line), NEW t \in Seq(Line), NEW u \in Seq(Line), s \o t = s \o u
    PROVE  t = u
  BY ConcatSimplifications

LEMMA ConcatFront ==
    ASSUME NEW s \in Seq(Line), NEW t \in Seq(Line)
    PROVE  /\ s \o t \in Seq(Line) /\ Len(s \o t) = Len(s) + Len(t)
           /\ \A i \in 1 .. Len(s) : (s \o t)[i] = s[i]
  OBVIOUS

LEMMA Single ==
    ASSUME NEW s \in Seq(Line), Len(s) = 1
    PROVE  s = <<s[1]>>
<1>1. s[1] \in Line
  OBVIOUS
<1>2. <<s[1]>> \in Seq(Line) /\ Len(<<s[1]>>) = 1 /\ \A i \in 1 .. 1 : s[i] = <<s[1]>>[i]
  BY <1>1
<1> QED BY <1>2, SeqEqual

LEMMA Assoc ==
    ASSUME NEW a \in Seq(Line), NEW b \in Seq(Line), NEW c \in Seq(Line)
    PROVE  (a \o b) \o c = a \o (b \o c)
  BY ConcatAssociative

\* Modifying a line in place puts what the pass makes of it between the
\* lines before and behind it.
LEMMA ModifyIs ==
    ASSUME NEW pass, NEW s \in Seq(Line), NEW c \in 1 .. Len(s), CanModify(pass, s[c])
    PROVE  Modify(pass, s, c)
             = (SubSeq(s, 1, c - 1) \o NewLines(pass, s[c])) \o SubSeq(s, c + 1, Len(s))
<1> DEFINE A == SubSeq(s, 1, c - 1)
           B == SubSeq(s, c + 1, Len(s))
<1>1. /\ A \in Seq(Line) /\ Len(A) = c - 1
      /\ \A i \in 1 .. c - 1 : A[i] = s[i]
  BY SubSeqProperties
<1>2. /\ B \in Seq(Line) /\ Len(B) = Len(s) - c
      /\ \A i \in 1 .. Len(s) - c : B[i] = s[c + i]
  <2>1. \A i \in c + 1 .. Len(s) : s[i] \in Line
    OBVIOUS
  <2>2. /\ B \in Seq(Line) /\ Len(B) = IF c + 1 <= Len(s) THEN Len(s) - (c + 1) + 1 ELSE 0
        /\ \A i \in 1 .. Len(s) - (c + 1) + 1 : B[i] = s[(c + 1) + i - 1]
    BY <2>1, SubSeqProperties
  <2>3. Len(s) - (c + 1) + 1 = Len(s) - c /\ \A i \in 1 .. Len(s) - c : (c + 1) + i - 1 = c + i
    OBVIOUS
  <2>4. (IF c + 1 <= Len(s) THEN Len(s) - (c + 1) + 1 ELSE 0) = Len(s) - c
    OBVIOUS
  <2> HIDE DEF B
  <2> QED BY <2>2, <2>3, <2>4
<1>3. s[c] \in Line
  OBVIOUS
<1>4. \* one line in the place of another
      ASSUME NEW l \in Line PROVE [s EXCEPT ![c] = l] = (A \o <<l>>) \o B
  <2> HIDE DEF A, B
  <2>1. /\ A \o <<l>> \in Seq(Line) /\ Len(A \o <<l>>) = c
        /\ \A i \in 1 .. c : (A \o <<l>>)[i] = IF i = c THEN l ELSE s[i]
    BY <1>1
  <2>2. /\ (A \o <<l>>) \o B \in Seq(Line) /\ Len((A \o <<l>>) \o B) = Len(s)
        /\ \A i \in 1 .. Len(s) : ((A \o <<l>>) \o B)[i] = IF i <= c THEN (A \o <<l>>)[i]
                                                           ELSE B[i - c]
    <3> DEFINE P == A \o <<l>>
    <3>1. P \in Seq(Line) /\ Len(P) = c
      BY <2>1
    <3>2. c + Len(B) = Len(s)
      BY <1>2
    <3> HIDE DEF P
    <3>4. P \in Seq(Line) /\ B \in Seq(Line)
      BY <1>2, <3>1
    <3>5. /\ P \o B \in Seq(Line) /\ Len(P \o B) = Len(P) + Len(B)
          /\ \A i \in 1 .. Len(P) + Len(B) :
                (P \o B)[i] = IF i <= Len(P) THEN P[i] ELSE B[i - Len(P)]
      BY <3>4, ConcatProperties
    <3>3. /\ P \o B \in Seq(Line) /\ Len(P \o B) = Len(s)
          /\ \A i \in 1 .. Len(s) : (P \o B)[i] = IF i <= c THEN P[i] ELSE B[i - c]
      BY <3>1, <3>2, <3>5
    <3> QED BY <3>3 DEF P
  <2>3. /\ [s EXCEPT ![c] = l] \in Seq(Line) /\ Len([s EXCEPT ![c] = l]) = Len(s)
        /\ \A i \in 1 .. Len(s) : [s EXCEPT ![c] = l][i] = IF i = c THEN l ELSE s[i]
    BY ExceptSeq
  <2>4. ASSUME NEW i \in 1 .. Len(s) PROVE [s EXCEPT ![c] = l][i] = ((A \o <<l>>) \o B)[i]
    <3>1. CASE i <= c
      BY <2>1, <2>2, <2>3, <3>1
    <3>2. CASE ~(i <= c)
      <4>1. i - c \in 1 .. Len(s) - c /\ c + (i - c) = i
        BY <3>2
      <4>2. B[i - c] = s[i]
        BY <1>2, <4>1
      <4>3. ((A \o <<l>>) \o B)[i] = B[i - c]
        BY <2>2, <3>2
      <4>4. i # c
        BY <3>2
      <4>5. [s EXCEPT ![c] = l][i] = s[i]
        BY <2>3, <4>4
      <4> QED BY <4>2, <4>3, <4>5
    <3> QED BY <3>1, <3>2
  <2> QED BY <2>2, <2>3, <2>4, SeqEqual
<1>5. CASE pass = "removal"
  <2>1. Modify(pass, s, c) = A \o B /\ NewLines(pass, s[c]) = <<>>
    BY <1>5 DEF Modify, NewLines, RemoveAt
  <2>2. A \o <<>> = A
    BY <1>1, ConcatEmptySeq
  <2> QED BY <2>1, <2>2
<1>6. CASE pass = "nop"
  <2>1. Modify(pass, s, c) = [s EXCEPT ![c] = Nop(s[c])] /\ NewLines(pass, s[c]) = <<Nop(s[c])>>
    BY <1>6 DEF Modify, NewLines, ReplaceAt
  <2> QED BY <1>3, <1>4, <2>1, NopType
<1>7. CASE pass = "fence"
  <2>1. /\ Modify(pass, s, c) = (A \o <<Fence>>) \o SubSeq(s, c, Len(s))
        /\ NewLines(pass, s[c]) = <<Fence, s[c]>>
    BY <1>7 DEF Modify, NewLines, InsertAt
  <2>2. SubSeq(s, c, Len(s)) = <<s[c]>> \o B
    BY SubSeqRecursiveFirst
  <2>3. <<Fence>> \in Seq(Line) /\ <<s[c]>> \in Seq(Line)
    BY <1>3, FenceType
  <2>4. (A \o <<Fence>>) \o (<<s[c]>> \o B) = ((A \o <<Fence>>) \o <<s[c]>>) \o B
    <3>1. A \o <<Fence>> \in Seq(Line)
      BY <1>1, <2>3, ConcatProperties
    <3> DEFINE P == A \o <<Fence>>
               Q == <<s[c]>>
    <3>3. P \in Seq(Line) /\ Q \in Seq(Line) /\ B \in Seq(Line)
      BY <1>2, <2>3, <3>1
    <3> HIDE DEF P, Q, B
    <3>2. (P \o Q) \o B = P \o (Q \o B)
      BY <3>3, Assoc
    <3> QED BY <3>2 DEF P, Q
  <2>5. (A \o <<Fence>>) \o <<s[c]>> = A \o (<<Fence>> \o <<s[c]>>)
    BY <1>1, <2>3, Assoc
  <2>6. <<Fence>> \o <<s[c]>> = <<Fence, s[c]>>
    <3>1. ASSUME NEW x \in Line, NEW y \in Line PROVE <<x>> \o <<y>> = <<x, y>>
      <4>1. <<x>> \o <<y>> \in Seq(Line) /\ Len(<<x>> \o <<y>>) = 2
        OBVIOUS
      <4>2. (<<x>> \o <<y>>)[1] = x /\ (<<x>> \o <<y>>)[2] = y
        OBVIOUS
      <4>3. \A i \in 1 .. 2 : (<<x>> \o <<y>>)[i] = <<x, y>>[i]
        BY <4>2
      <4>4. <<x, y>> \in Seq(Line) /\ Len(<<x, y>>) = 2
        OBVIOUS
      <4> QED BY <4>1, <4>3, <4>4, SeqEqual
    <3> QED BY <1>3, <3>1, FenceType
  <2> QED BY <2>1, <2>2, <2>4, <2>5, <2>6
<1>8. CASE pass \notin {"removal", "nop", "fence"}
  <2> DEFINE l == [s[c] EXCEPT !.n = s[c].n - 1]
  <2>1. s[c].n > 0 /\ s[c].n \in Nat
    BY <1>3, <1>8 DEF CanModify, Line
  <2>5. s[c].n - 1 \in Nat
    BY <2>1
  <2>2. l \in Line
    BY <1>3, <2>5 DEF Line
  <2>3. NewLines(pass, s[c]) = <<l>>
    BY <1>8 DEF NewLines
  <2>4. Modify(pass, s, c) = [s EXCEPT ![c] = l]
    BY <1>8 DEF Modify
  <2> HIDE DEF l
  <2> QED BY <1>4, <2>2, <2>3, <2>4
<1> QED BY <1>5, <1>6, <1>7, <1>8

-----------------------------------------------------------------------------
(* Building the result of a pass anew.                                     *)

\* What the pass makes of each line; Replay is these pieces in a row.
Pieces(pass, ls, ids) ==
    LET kept(i) == IF i + 1 \in ids /\ pass \in {"removal", "nop"}
                   THEN [ls[i] EXCEPT !.tag = FALSE] ELSE ls[i]
    IN  [i \in DOMAIN ls |-> IF i \in ids THEN NewLines(pass, ls[i]) ELSE <<kept(i)>>]

\* All the lines with these numbers can be modified.
Modifiable(pass, ls, ids) ==
    ids \subseteq 1 .. Len(ls) /\ \A i \in ids : CanModify(pass, ls[i])

LEMMA ReplayIs ==
    ASSUME NEW pass, NEW ls, NEW ids
    PROVE  Replay(pass, ls, ids) = FlattenSeq(Pieces(pass, ls, ids))
  BY DEF Replay, Pieces

LEMMA PiecesFacts ==
    ASSUME NEW pass, NEW ls \in Seq(Line), NEW ids, Modifiable(pass, ls, ids)
    PROVE  /\ Pieces(pass, ls, ids) \in Seq(Seq(Line))
           /\ Len(Pieces(pass, ls, ids)) = Len(ls)
           /\ \A i \in 1 .. Len(ls) :
                 /\ Pieces(pass, ls, ids)[i] \in Seq(Line)
                 /\ i \in ids => Pieces(pass, ls, ids)[i] = NewLines(pass, ls[i])
                 /\ i \notin ids => Untagged(Pieces(pass, ls, ids)[i]) = Untagged(<<ls[i]>>)
<1> DEFINE kept(i) == IF i + 1 \in ids /\ pass \in {"removal", "nop"}
                      THEN [ls[i] EXCEPT !.tag = FALSE] ELSE ls[i]
           g == [i \in 1 .. Len(ls) |-> IF i \in ids THEN NewLines(pass, ls[i]) ELSE <<kept(i)>>]
<1>1. Pieces(pass, ls, ids) = g
  BY DEF Pieces
<1>2. ASSUME NEW i \in 1 .. Len(ls)
      PROVE  /\ g[i] \in Seq(Line)
             /\ i \in ids => g[i] = NewLines(pass, ls[i])
             /\ i \notin ids => Untagged(g[i]) = Untagged(<<ls[i]>>)
  <2>1. ls[i] \in Line
    OBVIOUS
  <2>2. CASE i \in ids
    <3>1. NewLines(pass, ls[i]) \in Seq(Line)
      BY <2>1, <2>2, NewLinesFacts DEF Modifiable
    <3> QED BY <2>2, <3>1
  <2>3. CASE i \notin ids
    <3>1. [ls[i] EXCEPT !.tag = FALSE] \in Line
      BY <2>1 DEF Line
    <3>2. [[ls[i] EXCEPT !.tag = FALSE] EXCEPT !.tag = FALSE] = [ls[i] EXCEPT !.tag = FALSE]
      BY <2>1 DEF Line
    <3>3. kept(i) \in Line /\ [kept(i) EXCEPT !.tag = FALSE] = [ls[i] EXCEPT !.tag = FALSE]
      BY <2>1, <3>1, <3>2
    <3>4. g[i] = <<kept(i)>>
      BY <2>3
    <3> HIDE DEF kept
    <3>5. ASSUME NEW l \in Line PROVE Untagged(<<l>>) = <<[l EXCEPT !.tag = FALSE]>>
      <4>1. <<l>> \in Seq(Line) /\ Len(<<l>>) = 1 /\ <<l>>[1] = l
        OBVIOUS
      <4>2. /\ Untagged(<<l>>) \in Seq(Line) /\ Len(Untagged(<<l>>)) = 1
            /\ Untagged(<<l>>)[1] = [l EXCEPT !.tag = FALSE]
        <5> DEFINE s == <<l>>
        <5>1. s \in Seq(Line) /\ Len(s) = 1 /\ s[1] = l
          BY <4>1
        <5> HIDE DEF s
        <5>2. 1 \in 1 .. Len(s)
          BY <5>1
        <5>3. Untagged(s) \in Seq(Line) /\ Len(Untagged(s)) = 1
              /\ Untagged(s)[1] = [s[1] EXCEPT !.tag = FALSE]
          BY <5>1, <5>2, UntaggedType
        <5> QED BY <5>1, <5>3 DEF s
      <4> QED BY <4>2, Single
    <3>6. Untagged(<<kept(i)>>) = Untagged(<<ls[i]>>)
      BY <2>1, <3>3, <3>5
    <3>7. <<kept(i)>> \in Seq(Line)
      BY <3>3
    <3> QED BY <2>3, <3>4, <3>6, <3>7
  <2> QED BY <2>2, <2>3
<1> HIDE DEF g
<1>3. g \in Seq(Seq(Line)) /\ Len(g) = Len(ls)
  <2>1. DOMAIN g = 1 .. Len(ls) /\ g = [i \in 1 .. Len(ls) |-> g[i]]
    BY DEF g
  <2>2. \A i \in 1 .. Len(ls) : g[i] \in Seq(Line)
    BY <1>2
  <2> DEFINE T == Seq(Line)
  <2>3. \A i \in 1 .. Len(ls) : g[i] \in T
    BY <2>2
  <2> HIDE DEF T
  <2>4. g \in [1 .. Len(ls) -> T]
    BY <2>1, <2>3
  <2>5. Len(ls) \in Nat
    OBVIOUS
  <2>6. g \in Seq(T) /\ Len(g) = Len(ls)
    BY <2>4, <2>5
  <2> QED BY <2>6 DEF T
<1> QED BY <1>1, <1>2, <1>3

LEMMA PiecesType ==
    ASSUME NEW pass, NEW ls, NEW ids, ls \in Seq(Line), Modifiable(pass, ls, ids)
    PROVE  Pieces(pass, ls, ids) \in Seq(Seq(Line)) /\ Len(Pieces(pass, ls, ids)) = Len(ls)
  BY PiecesFacts

\* Before the first modified line nothing changes but tags.
LEMMA KeptPrefix ==
    ASSUME NEW pass, NEW ls \in Seq(Line), NEW ids, Modifiable(pass, ls, ids),
           NEW m \in 1 .. Len(ls), \A i \in 1 .. m : i \notin ids
    PROVE  \A i \in 1 .. m :
              Untagged(FlatFcn(Pieces(pass, ls, ids))[i]) = Untagged(SubSeq(ls, 1, i))
<1> DEFINE g == Pieces(pass, ls, ids)
           Good == {i \in Nat : Untagged(FlatFcn(g)[i]) = Untagged(SubSeq(ls, 1, i))}
<1>1. /\ g \in Seq(Seq(Line)) /\ Len(g) = Len(ls) /\ Len(ls) \in Nat
      /\ \A i \in 1 .. m : g[i] \in Seq(Line) /\ Untagged(g[i]) = Untagged(<<ls[i]>>)
  BY PiecesFacts
<1> HIDE DEF g
<1>2. 1 \in Good
  <2>1. FlatFcn(g)[1] = g[1]
    BY <1>1, FlatFcnStep
  <2>2. SubSeq(ls, 1, 1) = <<ls[1]>>
    <3>1. 1 \in 1 .. Len(ls) /\ ls[1] \in Line
      BY <1>1
    <3>2. \A i \in 1 .. 1 : ls[i] \in Line
      BY <3>1
    <3>3. SubSeq(ls, 1, 1) \in Seq(Line) /\ Len(SubSeq(ls, 1, 1)) = 1 /\ SubSeq(ls, 1, 1)[1] = ls[1]
      BY <3>2
    <3> QED BY <3>3, Single
  <2>3. g[1] \in Seq(Line) /\ Untagged(g[1]) = Untagged(<<ls[1]>>)
    BY <1>1
  <2> QED BY <2>1, <2>2, <2>3
<1>3. ASSUME NEW k \in 1 .. m, k \in Good, k < m PROVE k + 1 \in Good
  <2> DEFINE j == k + 1
  <2>1. j \in 1 .. m /\ j \in 1 .. Len(ls) /\ j # 1 /\ j - 1 = k /\ k \in 1 .. Len(ls) /\ j \in Nat
    BY <1>1, <1>3
  <2> HIDE DEF j
  <2>2. FlatFcn(g)[j] = FlatFcn(g)[k] \o g[j]
    <3>1. FlatFcn(g)[j] = IF j = 1 THEN g[j] ELSE FlatFcn(g)[j - 1] \o g[j]
      BY <1>1, <2>1, FlatFcnStep
    <3> QED BY <2>1, <3>1
  <2>3. FlatFcn(g)[k] \in Seq(Line) /\ g[j] \in Seq(Line) /\ Untagged(g[j]) = Untagged(<<ls[j]>>)
    BY <1>1, <2>1, FlatFcnType
  <2>4. Untagged(FlatFcn(g)[j]) = Untagged(FlatFcn(g)[k]) \o Untagged(g[j])
    BY <2>2, <2>3, UntaggedConcat
  <2>5. SubSeq(ls, 1, j) = SubSeq(ls, 1, k) \o <<ls[j]>>
    <3>1. 1 \in 1 .. Len(ls) /\ j \in 1 .. Len(ls)
      BY <2>1
    <3>2. SubSeq(ls, 1, j) = SubSeq(ls, 1, j - 1) \o <<ls[j]>>
      BY <3>1, SubSeqRecursiveSecond
    <3> QED BY <2>1, <3>2
  <2>6. SubSeq(ls, 1, k) \in Seq(Line) /\ <<ls[j]>> \in Seq(Line)
    BY <2>1
  <2>7. Untagged(SubSeq(ls, 1, j)) = Untagged(SubSeq(ls, 1, k)) \o Untagged(<<ls[j]>>)
    BY <2>5, <2>6, UntaggedConcat
  <2>8. Untagged(FlatFcn(g)[k]) = Untagged(SubSeq(ls, 1, k))
    BY <1>3
  <2>9. Untagged(FlatFcn(g)[j]) = Untagged(SubSeq(ls, 1, j))
    BY <2>3, <2>4, <2>7, <2>8
  <2> QED BY <2>1, <2>9 DEF j
<1> HIDE DEF Good
<1>4. \A i \in 1 .. m : i \in Good
  <2>1. 1 \in Nat /\ m \in Nat
    OBVIOUS
  <2> QED BY <1>2, <1>3, <2>1, UpTo
<1> QED BY <1>4 DEF Good, g

\* No line up to c is modified yet, and line c can be.
NextIs(pass, ls, ids, c) ==
    /\ ls \in Seq(Line) /\ Modifiable(pass, ls, ids) /\ c \in 2 .. Len(ls)
    /\ CanModify(pass, ls[c]) /\ \A i \in 1 .. c : i \notin ids

\* The results without and with a modification of line c share what is
\* behind that line.
SharesRest(pass, ls, ids, c, s) ==
    /\ Untagged(Replay(pass, ls, ids)) = Untagged(SubSeq(ls, 1, c)) \o s
    /\ Untagged(Replay(pass, ls, ids \cup {c}))
         = (Untagged(SubSeq(ls, 1, c - 1)) \o Untagged(NewLines(pass, ls[c]))) \o s

LEMMA ReplaySplit ==
    ASSUME NEW pass, NEW ls, NEW ids, NEW c, NextIs(pass, ls, ids, c)
    PROVE  \E s \in Seq(Line) : SharesRest(pass, ls, ids, c, s)
<1> DEFINE more == ids \cup {c}
           g == Pieces(pass, ls, ids)
           h == Pieces(pass, ls, more)
           P == Untagged(SubSeq(ls, 1, c))
           Q == Untagged(SubSeq(ls, 1, c - 1)) \o Untagged(NewLines(pass, ls[c]))
           Good == {i \in Nat : \E s \in Seq(Line) : /\ Untagged(FlatFcn(g)[i]) = P \o s
                                                     /\ Untagged(FlatFcn(h)[i]) = Q \o s}
<1>0. /\ ls \in Seq(Line) /\ Modifiable(pass, ls, ids) /\ c \in 2 .. Len(ls)
      /\ CanModify(pass, ls[c]) /\ \A i \in 1 .. c : i \notin ids
  BY DEF NextIs
<1>1. Modifiable(pass, ls, more)
  BY <1>0 DEF Modifiable
<1>2. /\ Len(ls) \in Nat /\ c \in Nat /\ c \in 1 .. Len(ls) /\ ls[c] \in Line
      /\ c - 1 \in 1 .. Len(ls) /\ c # 1 /\ c \in 1 .. c /\ c - 1 \in 1 .. c - 1
      /\ \A i \in 1 .. c - 1 : i \notin more
  BY <1>0
<1> HIDE DEF more
<1>3. /\ g \in Seq(Seq(Line)) /\ Len(g) = Len(ls)
      /\ \A i \in 1 .. Len(ls) : /\ g[i] \in Seq(Line)
                                 /\ i \in ids => g[i] = NewLines(pass, ls[i])
                                 /\ i \notin ids => Untagged(g[i]) = Untagged(<<ls[i]>>)
  BY <1>0, PiecesFacts
<1>4. /\ h \in Seq(Seq(Line)) /\ Len(h) = Len(ls)
      /\ \A i \in 1 .. Len(ls) : /\ h[i] \in Seq(Line)
                                 /\ i \in more => h[i] = NewLines(pass, ls[i])
                                 /\ i \notin more => Untagged(h[i]) = Untagged(<<ls[i]>>)
  BY <1>0, <1>1, PiecesFacts
<1>5. Untagged(FlatFcn(g)[c]) = P
  BY <1>0, <1>2, KeptPrefix, SMTT(30)
<1>6. Untagged(FlatFcn(h)[c - 1]) = Untagged(SubSeq(ls, 1, c - 1))
  BY <1>0, <1>1, <1>2, KeptPrefix, ZenonT(30)
<1> HIDE DEF g, h
<1>7. \A i \in 1 .. Len(ls) : FlatFcn(g)[i] \in Seq(Line) /\ FlatFcn(h)[i] \in Seq(Line)
  BY <1>3, <1>4, FlatFcnType
<1>8. Untagged(FlatFcn(h)[c]) = Q
  <2>1. FlatFcn(h)[c] = FlatFcn(h)[c - 1] \o h[c]
    BY <1>2, <1>4, FlatFcnStep
  <2>2. h[c] = NewLines(pass, ls[c]) /\ h[c] \in Seq(Line)
    BY <1>2, <1>4 DEF more
  <2>3. FlatFcn(h)[c - 1] \in Seq(Line)
    BY <1>2, <1>7
  <2> QED BY <1>6, <2>1, <2>2, <2>3, UntaggedConcat
<1>9. P \in Seq(Line) /\ Q \in Seq(Line)
  BY <1>2, <1>5, <1>7, <1>8, UntaggedType
<1> HIDE DEF P, Q
<1>10. c \in Good
  <2>1. P \o <<>> = P /\ Q \o <<>> = Q /\ <<>> \in Seq(Line)
    BY <1>9, ConcatEmptySeq
  <2> QED BY <1>2, <1>5, <1>8, <2>1
<1>11. ASSUME NEW k \in c .. Len(ls), k \in Good, k < Len(ls) PROVE k + 1 \in Good
  <2> DEFINE j == k + 1
  <2>1. j \in 1 .. Len(ls) /\ j # 1 /\ j - 1 = k /\ j \in Nat /\ j # c /\ k \in 1 .. Len(ls)
    BY <1>2, <1>11
  <2>2. PICK s \in Seq(Line) : Untagged(FlatFcn(g)[k]) = P \o s /\ Untagged(FlatFcn(h)[k]) = Q \o s
    BY <1>11
  <2> HIDE DEF j
  <2>3. FlatFcn(g)[j] = FlatFcn(g)[k] \o g[j]
    <3>1. FlatFcn(g)[j] = IF j = 1 THEN g[j] ELSE FlatFcn(g)[j - 1] \o g[j]
      BY <1>2, <1>3, <2>1, FlatFcnStep
    <3> QED BY <2>1, <3>1
  <2>4. FlatFcn(h)[j] = FlatFcn(h)[k] \o h[j]
    <3>1. FlatFcn(h)[j] = IF j = 1 THEN h[j] ELSE FlatFcn(h)[j - 1] \o h[j]
      BY <1>2, <1>4, <2>1, FlatFcnStep
    <3> QED BY <2>1, <3>1
  <2>5. g[j] \in Seq(Line) /\ h[j] \in Seq(Line) /\ FlatFcn(g)[k] \in Seq(Line)
        /\ FlatFcn(h)[k] \in Seq(Line)
    BY <1>3, <1>4, <1>7, <2>1
  <2>6. Untagged(g[j]) = Untagged(h[j])
    <3>1. j \in ids <=> j \in more
      BY <2>1 DEF more
    <3> QED BY <1>3, <1>4, <2>1, <3>1
  <2> DEFINE t == Untagged(g[j])
             u == s \o t
  <2>7. t \in Seq(Line) /\ u \in Seq(Line)
    BY <2>5, UntaggedType
  <2>8. Untagged(FlatFcn(g)[j]) = (P \o s) \o t
    BY <2>2, <2>3, <2>5, UntaggedConcat
  <2>9. Untagged(FlatFcn(h)[j]) = (Q \o s) \o t
    BY <2>2, <2>4, <2>5, <2>6, UntaggedConcat
  <2> HIDE DEF t
  <2>10. (P \o s) \o t = P \o u /\ (Q \o s) \o t = Q \o u
    BY <1>9, <2>2, <2>7, Assoc
  <2> HIDE DEF u
  <2>11. Untagged(FlatFcn(g)[j]) = P \o u /\ Untagged(FlatFcn(h)[j]) = Q \o u
    BY <2>8, <2>9, <2>10
  <2> QED BY <2>1, <2>7, <2>11 DEF j
<1> HIDE DEF Good
<1>12. \A i \in c .. Len(ls) : i \in Good
  BY <1>2, <1>10, <1>11, UpTo
<1>13. Len(ls) \in Good
  BY <1>2, <1>12
<1>14. Replay(pass, ls, ids) = FlatFcn(g)[Len(ls)] /\ Replay(pass, ls, more) = FlatFcn(h)[Len(ls)]
  <2>1. Len(g) # 0 /\ Len(h) # 0
    BY <1>2, <1>3, <1>4
  <2> QED BY <1>3, <1>4, <2>1, ReplayIs, FlattenIs DEF g, h
<1> QED BY <1>13, <1>14 DEF SharesRest, Good, P, Q, more

\* Without modifications the result is the program itself.
LEMMA ReplayNothing ==
    ASSUME NEW pass, NEW ls \in Seq(Line)
    PROVE  Untagged(Replay(pass, ls, {})) = Untagged(ls)
<1> DEFINE none == {}
           g == Pieces(pass, ls, none)
<1>1. Modifiable(pass, ls, none) /\ \A i \in 1 .. Len(ls) : i \notin none
  BY DEF Modifiable
<1> HIDE DEF none
<1>2. g \in Seq(Seq(Line)) /\ Len(g) = Len(ls) /\ Len(ls) \in Nat
  BY <1>1, PiecesType
<1>3. CASE Len(ls) = 0
  <2>1. g = <<>> /\ ls = <<>>
    BY <1>2, <1>3
  <2>2. FlattenSeq(g) = g
    BY <1>2, <1>3, FlattenIs
  <2> QED BY <2>1, <2>2, ReplayIs DEF none
<1>4. CASE Len(ls) # 0
  <2>1. Len(ls) \in 1 .. Len(ls)
    BY <1>2, <1>4
  <2>2. Untagged(FlatFcn(g)[Len(ls)]) = Untagged(SubSeq(ls, 1, Len(ls)))
    BY <1>1, <2>1, KeptPrefix
  <2>3. SubSeq(ls, 1, Len(ls)) = ls
    BY SubSeqFull
  <2>4. FlattenSeq(g) = FlatFcn(g)[Len(ls)]
    BY <1>2, <1>4, FlattenIs
  <2> QED BY <2>2, <2>3, <2>4, ReplayIs DEF none
<1> QED BY <1>3, <1>4

\* The loop of a pass over ls, with the cursor at c: w is what it verified
\* last.  It is untouched up to the cursor, and the replay up to tags.
Follows(pass, ls, ids, c, w) ==
    /\ ls \in Seq(Line) /\ w \in Seq(Line) /\ Modifiable(pass, ls, ids)
    /\ c \in Nat /\ c <= Len(ls) /\ \A i \in 1 .. c : i \notin ids
    /\ c <= Len(w) /\ \A i \in 1 .. c : w[i] = ls[i]
    /\ Untagged(w) = Untagged(Replay(pass, ls, ids))

\* The loop and the replay stay together when the line at the cursor is modified.
LEMMA ReplayFollowsLoop ==
    ASSUME NEW pass, NEW ls, NEW ids, NEW c, NEW w, Follows(pass, ls, ids, c, w),
           c > 1, CanModify(pass, w[c])
    PROVE  Follows(pass, ls, ids \cup {c}, c - 1, Modify(pass, w, c))
<1> DEFINE A == SubSeq(w, 1, c - 1)
           N == NewLines(pass, w[c])
           B == SubSeq(w, c + 1, Len(w))
<1>1. /\ ls \in Seq(Line) /\ w \in Seq(Line) /\ Modifiable(pass, ls, ids)
      /\ c \in 1 .. Len(w) /\ c \in 2 .. Len(ls) /\ c \in 1 .. Len(ls)
      /\ w[c] = ls[c] /\ w[c] \in Line /\ c \in Nat /\ c - 1 \in Nat /\ c - 1 <= Len(ls)
      /\ Len(w) \in Nat /\ Len(ls) \in Nat
  BY DEF Follows
<1>19. (\A i \in 1 .. c : i \notin ids) /\ \A i \in 1 .. c : w[i] = ls[i]
  BY DEF Follows
<1>2. /\ A \in Seq(Line) /\ Len(A) = c - 1 /\ \A i \in 1 .. c - 1 : A[i] = ls[i]
  BY <1>1, <1>19, SubSeqProperties
<1>3. A = SubSeq(ls, 1, c - 1) /\ SubSeq(w, 1, c) = SubSeq(ls, 1, c)
  <2>1. /\ SubSeq(ls, 1, c - 1) \in Seq(Line) /\ Len(SubSeq(ls, 1, c - 1)) = c - 1
        /\ \A i \in 1 .. c - 1 : SubSeq(ls, 1, c - 1)[i] = ls[i]
    BY <1>1, SubSeqProperties
  <2>2. /\ SubSeq(ls, 1, c) \in Seq(Line) /\ Len(SubSeq(ls, 1, c)) = c
        /\ \A i \in 1 .. c : SubSeq(ls, 1, c)[i] = ls[i]
    BY <1>1, SubSeqProperties
  <2>3. /\ SubSeq(w, 1, c) \in Seq(Line) /\ Len(SubSeq(w, 1, c)) = c
        /\ \A i \in 1 .. c : SubSeq(w, 1, c)[i] = w[i]
    BY <1>1, SubSeqProperties
  <2>4. A = SubSeq(ls, 1, c - 1)
    <3> HIDE DEF A
    <3> QED BY <1>2, <2>1, SeqEqual
  <2>5. SubSeq(w, 1, c) = SubSeq(ls, 1, c)
    BY <1>19, <2>2, <2>3, SeqEqual
  <2> QED BY <2>4, <2>5
<1>4. N \in Seq(Line)
  BY <1>1, NewLinesFacts
<1>5. B \in Seq(Line)
  <2>1. \A i \in c + 1 .. Len(w) : w[i] \in Line
    BY <1>1
  <2> QED BY <1>1, <2>1, SubSeqProperties
<1>6. Modify(pass, w, c) = (A \o N) \o B
  BY <1>1, ModifyIs
<1>7. w = SubSeq(w, 1, c) \o B
  <2>1. SubSeq(w, 1, c) \o SubSeq(w, c + 1, Len(w)) = SubSeq(w, 1, Len(w))
    <3>1. 1 \in 1 .. Len(w) + 1 /\ c \in 1 - 1 .. Len(w) /\ Len(w) \in c .. Len(w)
      BY <1>1
    <3> QED BY <1>1, <3>1, ConcatAdjacentSubSeq
  <2> QED BY <1>1, <2>1, SubSeqFull
<1>8. PICK s \in Seq(Line) : SharesRest(pass, ls, ids, c, s)
  <2>1. NextIs(pass, ls, ids, c)
    BY <1>1, <1>19 DEF NextIs
  <2> QED BY <2>1, ReplaySplit
<1>9. SubSeq(ls, 1, c) \in Seq(Line) /\ SubSeq(w, 1, c) \in Seq(Line)
  BY <1>1
<1> DEFINE p == SubSeq(ls, 1, c)
<1>10. Untagged(w) = Untagged(p) \o Untagged(B)
  <2>1. w = p \o B
    BY <1>3, <1>7
  <2> HIDE DEF p, B
  <2>2. p \in Seq(Line)
    BY <1>9 DEF p
  <2> QED BY <1>5, <2>1, <2>2, UntaggedConcat
<1>11. s = Untagged(B)
  <2>1. Untagged(p) \in Seq(Line) /\ Untagged(B) \in Seq(Line)
    BY <1>5, <1>9, UntaggedType
  <2>2. Untagged(p) \o s = Untagged(p) \o Untagged(B)
    BY <1>8, <1>10 DEF Follows, SharesRest
  <2> DEFINE x == Untagged(p)
             y == Untagged(B)
  <2>3. x \in Seq(Line) /\ y \in Seq(Line) /\ s \in Seq(Line) /\ x \o s = x \o y
    BY <1>8, <2>1, <2>2
  <2> HIDE DEF x, y
  <2>4. s = y
    BY <2>3, Cancel
  <2> QED BY <2>4 DEF y
<1> HIDE DEF A, N, B
<1>18. A \in Seq(Line) /\ N \in Seq(Line)
  BY <1>2, <1>4
<1>12. A \o N \in Seq(Line) /\ Len(A \o N) = Len(A) + Len(N)
       /\ \A i \in 1 .. Len(A) : (A \o N)[i] = A[i]
  BY <1>18, ConcatFront
<1>13. Untagged((A \o N) \o B) = (Untagged(A) \o Untagged(N)) \o Untagged(B)
  <2>1. Untagged(A \o N) = Untagged(A) \o Untagged(N)
    BY <1>18, UntaggedConcat
  <2> DEFINE x == A \o N
  <2>2. x \in Seq(Line) /\ B \in Seq(Line)
    BY <1>5, <1>12
  <2> HIDE DEF x
  <2>3. Untagged(x \o B) = Untagged(x) \o Untagged(B)
    BY <2>2, UntaggedConcat
  <2> QED BY <2>1, <2>3 DEF x
<1>14. Untagged(Modify(pass, w, c)) = Untagged(Replay(pass, ls, ids \cup {c}))
  BY <1>1, <1>3, <1>6, <1>8, <1>11, <1>13 DEF N, SharesRest
<1> DEFINE AN == A \o N
<1>15. AN \in Seq(Line) /\ Len(AN) >= c - 1 /\ Len(AN) \in Nat
       /\ \A i \in 1 .. c - 1 : AN[i] = ls[i]
  BY <1>1, <1>2, <1>4, <1>12, SMTT(30)
<1> HIDE DEF AN
<1>16. AN \o B \in Seq(Line) /\ Len(AN \o B) = Len(AN) + Len(B)
       /\ \A i \in 1 .. Len(AN) : (AN \o B)[i] = AN[i]
  <2>1. AN \in Seq(Line) /\ B \in Seq(Line)
    BY <1>5, <1>15
  <2> QED BY <2>1, ConcatFront
<1>17. AN \o B \in Seq(Line) /\ c - 1 <= Len(AN \o B) /\ \A i \in 1 .. c - 1 : (AN \o B)[i] = ls[i]
  BY <1>1, <1>5, <1>15, <1>16
<1>20. Modifiable(pass, ls, ids \cup {c})
  BY <1>1 DEF Modifiable
<1>21. \A i \in 1 .. c - 1 : i \notin ids \cup {c}
  BY <1>1, <1>19
<1>22. Modify(pass, w, c) = AN \o B
  BY <1>6 DEF AN
<1> QED BY <1>1, <1>14, <1>17, <1>20, <1>21, <1>22 DEF Follows

-----------------------------------------------------------------------------
(* Removing labels keeps the order of the rest.                            *)

\* q has the lines of ls up to n whose numbers are in keep, in their order:
\* e says where each of them was.
Selected(ls, keep, n, q, e) ==
    /\ q \in Seq(Line) /\ e \in [1 .. Len(q) -> 1 .. n]
    /\ \A i, j \in 1 .. Len(q) : i < j => e[i] < e[j]
    /\ \A i \in 1 .. Len(q) : q[i] = ls[e[i]] /\ e[i] \in keep
    /\ \A m \in 1 .. n : m \in keep => \E i \in 1 .. Len(q) : e[i] = m

LEMMA SelectNone ==
    ASSUME NEW ls, NEW keep
    PROVE  Selected(ls, keep, 0, <<>>, [i \in 1 .. 0 |-> 0])
  BY DEF Selected

LEMMA SelectSkip ==
    ASSUME NEW ls, NEW keep, NEW n \in Nat, NEW q, NEW e, Selected(ls, keep, n, q, e),
           n + 1 \notin keep
    PROVE  Selected(ls, keep, n + 1, q, e)
<1>1. q \in Seq(Line) /\ e \in [1 .. Len(q) -> 1 .. n] /\ Len(q) \in Nat
  BY DEF Selected
<1>2. e \in [1 .. Len(q) -> 1 .. n + 1]
  BY <1>1
<1>3. ASSUME NEW m \in 1 .. n + 1, m \in keep PROVE \E i \in 1 .. Len(q) : e[i] = m
  <2>1. m # n + 1
    BY <1>3
  <2>2. m \in 1 .. n
    BY <2>1
  <2> QED BY <1>3, <2>2 DEF Selected
<1> QED BY <1>2, <1>3 DEF Selected

LEMMA SelectAdd ==
    ASSUME NEW ls \in Seq(Line), NEW keep, NEW n \in Nat, NEW q, NEW e,
           Selected(ls, keep, n, q, e), n + 1 \in keep, n + 1 \in 1 .. Len(ls)
    PROVE  \E f : Selected(ls, keep, n + 1, q \o <<ls[n + 1]>>, f)
<1> DEFINE k == n + 1
           r == q \o <<ls[k]>>
           L == Len(q) + 1
           f == [i \in 1 .. L |-> IF i = L THEN k ELSE e[i]]
<1>1. /\ q \in Seq(Line) /\ e \in [1 .. Len(q) -> 1 .. n] /\ Len(q) \in Nat
      /\ ls[k] \in Line /\ k \in Nat /\ k \in keep /\ n < k
  BY DEF Selected
<1>2. /\ \A i, j \in 1 .. Len(q) : i < j => e[i] < e[j]
      /\ \A i \in 1 .. Len(q) : q[i] = ls[e[i]] /\ e[i] \in keep
      /\ \A m \in 1 .. n : m \in keep => \E i \in 1 .. Len(q) : e[i] = m
  BY DEF Selected
<1>3. /\ r \in Seq(Line) /\ Len(r) = L /\ L \in Nat /\ L \in 1 .. L
      /\ r[L] = ls[k] /\ \A i \in 1 .. Len(q) : r[i] = q[i]
  BY <1>1
<1>4. \A i \in 1 .. L : i # L => i \in 1 .. Len(q)
  BY <1>1
<1>10. \A i \in 1 .. Len(q) : i \in 1 .. L /\ i # L
  BY <1>1
<1>11. k \in 1 .. k /\ \A m \in 1 .. n : m \in 1 .. k /\ m < k
  BY <1>1
<1>12. \A i, j \in 1 .. L : i < j => i # L
  BY <1>1
<1>13. \A m \in 1 .. k : m # k => m \in 1 .. n
  BY <1>1
<1> HIDE DEF r, L, k
<1>5. /\ f[L] = k /\ \A i \in 1 .. Len(q) : f[i] = e[i] /\ e[i] \in 1 .. n
  BY <1>1, <1>3, <1>10
<1>14. DOMAIN f = 1 .. L /\ f = [i \in 1 .. L |-> f[i]]
  OBVIOUS
<1> HIDE DEF f
<1>6. f \in [1 .. L -> 1 .. k]
  <2>1. \A i \in 1 .. L : f[i] \in 1 .. k
    BY <1>4, <1>5, <1>11
  <2> QED BY <1>14, <2>1
<1>7. ASSUME NEW i \in 1 .. L, NEW j \in 1 .. L, i < j PROVE f[i] < f[j]
  <2>1. i \in 1 .. Len(q) /\ f[i] = e[i] /\ e[i] < k
    BY <1>4, <1>5, <1>7, <1>11, <1>12
  <2>2. CASE j = L
    BY <1>5, <2>1, <2>2
  <2>3. CASE j # L
    BY <1>2, <1>4, <1>5, <1>7, <2>1, <2>3
  <2> QED BY <2>2, <2>3
<1>8. \A i \in 1 .. L : r[i] = ls[f[i]] /\ f[i] \in keep
  BY <1>1, <1>2, <1>3, <1>4, <1>5
<1>9. ASSUME NEW m \in 1 .. k, m \in keep PROVE \E i \in 1 .. L : f[i] = m
  <2>1. CASE m = k
    BY <1>3, <1>5, <2>1
  <2>2. CASE m # k
    <3>1. PICK i \in 1 .. Len(q) : e[i] = m
      BY <1>2, <1>9, <1>13, <2>2
    <3> QED BY <1>5, <1>10, <3>1
  <2> QED BY <2>1, <2>2
<1>15. Selected(ls, keep, k, r, f)
  BY <1>3, <1>6, <1>7, <1>8, <1>9 DEF Selected
<1> QED BY <1>15 DEF k, r

Kept(ls) == {m \in 1 .. Len(ls) : ~IsUnusedLabel(ls, ls[m])}

LEMMA WithoutLabelsFacts ==
    ASSUME NEW ls \in Seq(Line)
    PROVE  \E e : Selected(ls, Kept(ls), Len(ls), WithoutLabels(ls), e)
<1> DEFINE keep == Kept(ls)
           g == [i \in DOMAIN ls |-> IF IsUnusedLabel(ls, ls[i]) THEN <<>> ELSE <<ls[i]>>]
           Good == {n \in Nat : \E e : Selected(ls, keep, n, FlatFcn(g)[n], e)}
<1>1. Len(ls) \in Nat /\ DOMAIN ls = 1 .. Len(ls) /\ \A i \in 1 .. Len(ls) : ls[i] \in Line
  OBVIOUS
<1>2. \A i \in 1 .. Len(ls) : g[i] = IF i \in keep THEN <<ls[i]>> ELSE <<>>
  BY <1>1 DEF Kept
<1>3. Len(g) = Len(ls) /\ WithoutLabels(ls) = FlattenSeq(g)
  <2>1. g = [i \in 1 .. Len(ls) |-> IF IsUnusedLabel(ls, ls[i]) THEN <<>> ELSE <<ls[i]>>]
    BY <1>1
  <2>2. Len(g) = Len(ls)
    BY <1>1, <2>1
  <2> QED BY <2>2 DEF WithoutLabels
<1>4. <<>> \in Seq(Line) /\ \A i \in 1 .. Len(ls) : <<>> \o <<ls[i]>> = <<ls[i]>>
  BY <1>1
<1>9. CASE Len(ls) = 0
  <2>1. WithoutLabels(ls) = <<>>
    BY <1>1, <1>3, <1>9, FlattenIs
  <2> QED BY <1>9, <2>1, SelectNone
<1>10. CASE Len(ls) # 0
  <2> HIDE DEF g, keep
  <2>1. 1 \in Good
    <3>1. FlatFcn(g)[1] = g[1] /\ 1 \in 1 .. Len(ls)
      BY <1>1, <1>3, <1>10, FlatFcnStep
    <3>4. 0 + 1 = 1 /\ 0 \in Nat
      OBVIOUS
    <3>2. CASE 1 \in keep
      <4>1. g[1] = <<ls[1]>> /\ <<>> \o <<ls[1]>> = <<ls[1]>>
        BY <1>2, <1>4, <3>1, <3>2
      <4>2. 0 + 1 \in keep /\ 0 + 1 \in 1 .. Len(ls)
        BY <3>1, <3>2
      <4>3. \E f : Selected(ls, keep, 0 + 1, <<>> \o <<ls[0 + 1]>>, f)
        BY <4>2, SelectNone, SelectAdd
      <4>4. \E f : Selected(ls, keep, 1, FlatFcn(g)[1], f)
        BY <3>1, <3>4, <4>1, <4>3
      <4> QED BY <4>4
    <3>3. CASE 1 \notin keep
      <4>1. g[1] = <<>>
        BY <1>2, <3>1, <3>3
      <4>2. Selected(ls, keep, 0 + 1, <<>>, [i \in 1 .. 0 |-> 0])
        <5>1. 0 + 1 \notin keep
          BY <3>3
        <5> DEFINE e == [i \in 1 .. 0 |-> 0]
        <5>2. Selected(ls, keep, 0, <<>>, e)
          BY SelectNone
        <5> HIDE DEF e
        <5>3. Selected(ls, keep, 0 + 1, <<>>, e)
          BY <3>4, <5>1, <5>2, SelectSkip
        <5> QED BY <5>3 DEF e
      <4>3. \E f : Selected(ls, keep, 1, FlatFcn(g)[1], f)
        BY <3>1, <3>4, <4>1, <4>2
      <4> QED BY <4>3
    <3> QED BY <3>2, <3>3
  <2>2. ASSUME NEW n \in 1 .. Len(ls), n \in Good, n < Len(ls) PROVE n + 1 \in Good
    <3> DEFINE k == n + 1
    <3>1. k \in 1 .. Len(ls) /\ k # 1 /\ k - 1 = n /\ n \in Nat /\ k \in Nat
      BY <1>1, <2>2
    <3>2. PICK e : Selected(ls, keep, n, FlatFcn(g)[n], e)
      BY <2>2
    <3>3. FlatFcn(g)[k] = FlatFcn(g)[n] \o g[k]
      <4>1. FlatFcn(g)[k] = IF k = 1 THEN g[k] ELSE FlatFcn(g)[k - 1] \o g[k]
        <5> HIDE DEF k
        <5> QED BY <1>1, <1>3, <3>1, FlatFcnStep
      <4> QED BY <3>1, <4>1
    <3>4. CASE k \in keep
      <4>1. g[k] = <<ls[k]>>
        BY <1>2, <3>1, <3>4
      <4>2. \E f : Selected(ls, keep, k, FlatFcn(g)[n] \o <<ls[k]>>, f)
        BY <3>1, <3>2, <3>4, SelectAdd
      <4> QED BY <3>1, <3>3, <4>1, <4>2
    <3>5. CASE k \notin keep
      <4>1. g[k] = <<>>
        BY <1>2, <3>1, <3>5
      <4>2. Selected(ls, keep, k, FlatFcn(g)[n], e)
        BY <3>1, <3>2, <3>5, SelectSkip
      <4>3. FlatFcn(g)[n] \o <<>> = FlatFcn(g)[n]
        <5>1. FlatFcn(g)[n] \in Seq(Line)
          BY <3>2 DEF Selected
        <5> QED BY <5>1, ConcatEmptySeq
      <4> QED BY <3>1, <3>3, <4>1, <4>2, <4>3
    <3> QED BY <3>4, <3>5
  <2> HIDE DEF Good
  <2>3. \A n \in 1 .. Len(ls) : n \in Good
    <3>1. 1 \in Nat
      OBVIOUS
    <3> QED BY <1>1, <2>1, <2>2, <3>1, UpTo
  <2>4. Len(ls) \in Good
    BY <1>1, <1>10, <2>3
  <2>5. WithoutLabels(ls) = FlatFcn(g)[Len(ls)]
    BY <1>3, <1>10, FlattenIs
  <2> QED BY <2>4, <2>5 DEF Good, keep
<1> QED BY <1>9, <1>10

-----------------------------------------------------------------------------
(* The invariant of the instruction passes.                                *)

\* No label of the program is needed for the leak.
LabelsFree(ls) ==
    \A need \in sc.needs : \A i \in DOMAIN ls : ls[i].k = "label" => ls[i].id \notin DOMAIN need

\* The violation was reproduced, so that the program leaks, up to the code
\* that the label pass dropped; inside a pass this is the program verified
\* last, which the replay follows; and between passes the two are the same.
ProgramInv ==
    /\ sc \in Scenarios /\ prog \in Seq(Line) /\ work \in Seq(Line) /\ LabelsFree(prog)
    /\ stage \notin {"reproduce", "not_reproduced"} /\ ~dropped => CodeLeaks(prog)
    /\ stage = "loop" => /\ Follows(Head(passes), prog, mods, cur, work)
                         /\ LabelsFree(work)
                         /\ ~dropped => CodeLeaks(work)
    /\ stage = "next_pass" => work = <<>> \/ Untagged(prog) = Untagged(work)
    /\ stage \notin {"next_pass", "loop", "stored"} => work = <<>>

\* Tags say nothing about leaks and labels.
LEMMA TagBlind ==
    ASSUME NEW p \in Seq(Line), NEW q \in Seq(Line), Untagged(p) = Untagged(q)
    PROVE  (CodeLeaks(p) => CodeLeaks(q)) /\ (LabelsFree(p) => LabelsFree(q))
<1>1. Len(p) = Len(q) /\ DOMAIN p = 1 .. Len(p) /\ DOMAIN q = 1 .. Len(p)
  BY UntaggedType
<1>2. ASSUME NEW i \in 1 .. Len(p)
      PROVE  p[i].id = q[i].id /\ p[i].k = q[i].k /\ p[i].n = q[i].n /\ p[i].nopped = q[i].nopped
  <2>1. p[i] \in Line /\ q[i] \in Line
    BY <1>1
  <2>2. [p[i] EXCEPT !.tag = FALSE] = [q[i] EXCEPT !.tag = FALSE]
    BY <1>1, UntaggedType
  <2> DEFINE a == [p[i] EXCEPT !.tag = FALSE]
             b == [q[i] EXCEPT !.tag = FALSE]
  <2>3. a.id = p[i].id /\ a.k = p[i].k /\ a.n = p[i].n /\ a.nopped = p[i].nopped
    BY <2>1 DEF Line
  <2>4. b.id = q[i].id /\ b.k = q[i].k /\ b.n = q[i].n /\ b.nopped = q[i].nopped
    BY <2>1 DEF Line
  <2> QED BY <2>2, <2>3, <2>4
<1>3. \A i \in 1 .. Len(p) : LevelOf(p[i]) = LevelOf(q[i])
  BY <1>2 DEF LevelOf
<1>4. \A id : Level(p, id) = Level(q, id)
  <2> TAKE id
  <2>1. {LevelOf(p[i]) : i \in {j \in DOMAIN p : p[j].id = id}}
          = {LevelOf(q[i]) : i \in {j \in DOMAIN q : q[j].id = id}}
    BY <1>1, <1>2, <1>3
  <2> QED BY <2>1 DEF Level
<1>5. FenceFree(p) => FenceFree(q)
  <2> SUFFICES ASSUME FenceFree(p), NEW i \in DOMAIN q, NEW j \in DOMAIN q,
                      q[i].k = "fence", q[j].id \in sc.unfenced, i < j
               PROVE  \E m \in i + 1 .. j - 1 : q[m].k # "label"
    BY DEF FenceFree
  <2>1. PICK m \in i + 1 .. j - 1 : p[m].k # "label"
    BY <1>1, <1>2 DEF FenceFree
  <2>2. m \in 1 .. Len(p)
    BY <1>1
  <2> QED BY <1>2, <2>1, <2>2
<1>6. LabelsFree(p) => LabelsFree(q)
  BY <1>1, <1>2 DEF LabelsFree
<1> QED BY <1>4, <1>5, <1>6 DEF CodeLeaks

\* Removing labels that nothing needs removes no leak.
LEMMA LabelsNotNeeded ==
    ASSUME NEW p \in Seq(Line), LabelsFree(p)
    PROVE  /\ WithoutLabels(p) \in Seq(Line) /\ LabelsFree(WithoutLabels(p))
           /\ CodeLeaks(p) /\ (\A i \in DOMAIN p : p[i].k # "byte") => CodeLeaks(WithoutLabels(p))
<1> DEFINE q == WithoutLabels(p)
<1>1. PICK e : Selected(p, Kept(p), Len(p), q, e)
  BY WithoutLabelsFacts
<1> HIDE DEF q
<1>2. /\ q \in Seq(Line) /\ DOMAIN q = 1 .. Len(q) /\ DOMAIN p = 1 .. Len(p)
      /\ Len(p) \in Nat /\ Len(q) \in Nat
  BY <1>1 DEF Selected
<1>3. \A i \in 1 .. Len(q) : q[i] = p[e[i]] /\ e[i] \in 1 .. Len(p) /\ e[i] \in Nat
  BY <1>1, <1>2 DEF Selected
<1>4. LabelsFree(q)
  BY <1>2, <1>3 DEF LabelsFree
<1>5. ASSUME CodeLeaks(p), \A i \in DOMAIN p : p[i].k # "byte"
      PROVE  CodeLeaks(q)
  <2>1. ASSUME NEW m \in 1 .. Len(p), p[m].k # "label"
        PROVE  \E i \in 1 .. Len(q) : e[i] = m
    <3>1. m \in Kept(p)
      BY <1>2, <1>5, <2>1 DEF Kept, IsUnusedLabel
    <3> QED BY <1>1, <3>1 DEF Selected
  <2>2. PICK need \in sc.needs : \A id \in DOMAIN need : Level(p, id) >= need[id]
    BY <1>5 DEF CodeLeaks
  <2>3. ASSUME NEW id \in DOMAIN need PROVE Level(q, id) = Level(p, id)
    <3>1. ASSUME NEW m \in 1 .. Len(p), p[m].id = id
          PROVE  \E i \in 1 .. Len(q) : q[i] = p[m]
      <4>1. p[m].k # "label"
        BY <1>2, <2>2, <2>3, <3>1 DEF LabelsFree
      <4>2. PICK i \in 1 .. Len(q) : e[i] = m
        BY <2>1, <4>1
      <4> QED BY <1>3, <4>2
    <3>2. {LevelOf(q[i]) : i \in {j \in DOMAIN q : q[j].id = id}}
            = {LevelOf(p[i]) : i \in {j \in DOMAIN p : p[j].id = id}}
      <4>1. ASSUME NEW i \in DOMAIN q, q[i].id = id
            PROVE  \E m \in {j \in DOMAIN p : p[j].id = id} : LevelOf(q[i]) = LevelOf(p[m])
        BY <1>2, <1>3, <4>1
      <4>2. ASSUME NEW m \in DOMAIN p, p[m].id = id
            PROVE  \E i \in {j \in DOMAIN q : q[j].id = id} : LevelOf(q[i]) = LevelOf(p[m])
        <5>1. PICK i \in 1 .. Len(q) : q[i] = p[m]
          BY <1>2, <3>1, <4>2
        <5> QED BY <1>2, <4>2, <5>1
      <4> QED BY <4>1, <4>2
    <3> QED BY <3>2 DEF Level
  <2>4. FenceFree(q)
    <3> SUFFICES ASSUME NEW i \in DOMAIN q, NEW j \in DOMAIN q,
                        q[i].k = "fence", q[j].id \in sc.unfenced, i < j
                 PROVE  \E r \in i + 1 .. j - 1 : q[r].k # "label"
      BY DEF FenceFree
    <3>1. e[i] < e[j] /\ e[i] \in DOMAIN p /\ e[j] \in DOMAIN p /\ q[i] = p[e[i]] /\ q[j] = p[e[j]]
      BY <1>1, <1>2, <1>3 DEF Selected
    <3>2. PICK m \in e[i] + 1 .. e[j] - 1 : p[m].k # "label"
      <4>1. FenceFree(p)
        BY <1>5 DEF CodeLeaks
      <4> QED BY <3>1, <4>1 DEF FenceFree
    <3>3. m \in 1 .. Len(p) /\ e[i] < m /\ m < e[j] /\ m \in Nat
      BY <1>2, <1>3, <3>1, <3>2
    <3>4. PICK r \in 1 .. Len(q) : e[r] = m
      BY <2>1, <3>2, <3>3
    <3>5. i < r /\ r < j
      <4>1. \A a, b \in 1 .. Len(q) : a < b => e[a] < e[b]
        BY <1>1 DEF Selected
      <4>2. ~(r < i) /\ r # i /\ ~(j < r) /\ r # j
        BY <1>2, <1>3, <3>3, <3>4, <4>1
      <4> QED BY <1>2, <4>2
    <3>6. r \in i + 1 .. j - 1
      BY <1>2, <3>5
    <3> QED BY <1>3, <3>2, <3>4, <3>6
  <2> QED BY <2>2, <2>3, <2>4 DEF CodeLeaks
<1> QED BY <1>2, <1>4, <1>5 DEF q

\* A check succeeds only with a program that leaks.
LEMMA FoundLeaks ==
    ASSUME NEW p, NEW ins, NEW ign, Violations(p, ins, ign) # {}
    PROVE  CodeLeaks(p)
  BY DEF Violations, ViolatingClasses

LEMMA CheckLeaks ==
    ASSUME NEW p, NEW ins, NEW ign, Check(p, ins, ign, TRUE)
    PROVE  CodeLeaks(p)
  BY FoundLeaks DEF Check

\* Labels stay labels, and no line becomes one.
LEMMA ModifyKeepsLabels ==
    ASSUME NEW pass, NEW s \in Seq(Line), NEW c \in 1 .. Len(s), CanModify(pass, s[c]),
           LabelsFree(s)
    PROVE  LabelsFree(Modify(pass, s, c))
<1> DEFINE A == SubSeq(s, 1, c - 1)
           N == NewLines(pass, s[c])
           B == SubSeq(s, c + 1, Len(s))
           AN == A \o N
<1>1. /\ A \in Seq(Line) /\ \A i \in 1 .. Len(A) : \E j \in 1 .. Len(s) : A[i] = s[j]
  BY SubSeqProperties
<1>2. /\ B \in Seq(Line) /\ \A i \in 1 .. Len(B) : \E j \in 1 .. Len(s) : B[i] = s[j]
  <2>1. \A i \in c + 1 .. Len(s) : s[i] \in Line
    OBVIOUS
  <2>2. /\ B \in Seq(Line) /\ Len(B) = IF c + 1 <= Len(s) THEN Len(s) - (c + 1) + 1 ELSE 0
        /\ \A i \in 1 .. Len(s) - (c + 1) + 1 : B[i] = s[(c + 1) + i - 1]
    BY <2>1, SubSeqProperties
  <2> HIDE DEF B
  <2>3. ASSUME NEW i \in 1 .. Len(B) PROVE \E j \in 1 .. Len(s) : B[i] = s[j]
    <3>1. c + 1 <= Len(s) /\ i \in 1 .. Len(s) - (c + 1) + 1
      BY <2>2
    <3>2. (c + 1) + i - 1 \in 1 .. Len(s)
      BY <3>1
    <3> QED BY <2>2, <3>1, <3>2
  <2> QED BY <2>2, <2>3
<1>3. s[c] \in Line
  OBVIOUS
<1>4. /\ N \in Seq(Line)
      /\ \A i \in DOMAIN N : N[i].k = "label" => s[c].k = "label" /\ N[i].id = s[c].id
  BY <1>3, NewLinesFacts
<1>5. Modify(pass, s, c) = AN \o B
  BY ModifyIs
<1> HIDE DEF A, N, B
<1>6. /\ AN \in Seq(Line) /\ Len(AN) = Len(A) + Len(N)
      /\ \A i \in 1 .. Len(A) + Len(N) : AN[i] = IF i <= Len(A) THEN A[i] ELSE N[i - Len(A)]
  BY <1>1, <1>4, ConcatProperties
<1> HIDE DEF AN
<1>7. /\ AN \o B \in Seq(Line) /\ Len(AN \o B) = Len(AN) + Len(B)
      /\ \A i \in 1 .. Len(AN) + Len(B) :
            (AN \o B)[i] = IF i <= Len(AN) THEN AN[i] ELSE B[i - Len(AN)]
  <2>1. AN \in Seq(Line) /\ B \in Seq(Line)
    BY <1>2, <1>6
  <2> QED BY <2>1, ConcatProperties
<1>8. /\ Len(A) \in Nat /\ Len(N) \in Nat /\ Len(AN) \in Nat /\ Len(B) \in Nat
      /\ DOMAIN N = 1 .. Len(N) /\ DOMAIN s = 1 .. Len(s)
  BY <1>1, <1>2, <1>4, <1>6
<1>9. ASSUME NEW i \in 1 .. Len(AN) + Len(B), (AN \o B)[i].k = "label"
      PROVE  \E j \in 1 .. Len(s) : s[j].k = "label" /\ (AN \o B)[i].id = s[j].id
  <2>1. CASE i <= Len(A)
    <3>1. i \in 1 .. Len(A) /\ i <= Len(AN) /\ i \in 1 .. Len(A) + Len(N)
      BY <1>6, <1>8, <2>1
    <3>2. (AN \o B)[i] = A[i]
      BY <1>6, <1>7, <2>1, <3>1
    <3> QED BY <1>1, <1>9, <3>1, <3>2
  <2>2. CASE ~(i <= Len(A)) /\ i <= Len(AN)
    <3>1. i - Len(A) \in 1 .. Len(N) /\ i \in 1 .. Len(A) + Len(N)
      BY <1>6, <1>8, <2>2
    <3>2. (AN \o B)[i] = N[i - Len(A)]
      BY <1>6, <1>7, <2>2, <3>1
    <3> QED BY <1>4, <1>8, <1>9, <3>1, <3>2
  <2>3. CASE ~(i <= Len(AN))
    <3>1. i - Len(AN) \in 1 .. Len(B)
      BY <1>8, <2>3
    <3>2. (AN \o B)[i] = B[i - Len(AN)]
      BY <1>7, <2>3
    <3> QED BY <1>2, <1>9, <3>1, <3>2
  <2> QED BY <2>1, <2>2, <2>3
<1>10. DOMAIN (AN \o B) = 1 .. Len(AN) + Len(B)
  BY <1>7
<1> QED BY <1>5, <1>8, <1>9, <1>10 DEF LabelsFree

LEMMA ReplayType ==
    ASSUME NEW pass, NEW ls \in Seq(Line), NEW ids, Modifiable(pass, ls, ids)
    PROVE  Replay(pass, ls, ids) \in Seq(Line)
  BY PiecesFacts, ReplayIs, FlattenType

-----------------------------------------------------------------------------
(* The invariant is inductive.                                             *)

LEMMA ProgramInit == Init => ProgramInv
<1> SUFFICES ASSUME Init PROVE ProgramInv
  OBVIOUS
<1>1. sc \in Scenarios /\ prog = sc.prog /\ work = <<>> /\ stage = "reproduce"
  BY DEF Init
<1>2. prog \in Seq(Line) /\ LabelsFree(prog)
  BY <1>1, MinimizerAssumption DEF LabelsFree
<1> QED BY <1>1, <1>2 DEF ProgramInv

\* Steps of the input passes leave the program alone.
LEMMA LeavesProgram ==
    ASSUME ProgramInv, UNCHANGED progVars, sc' = sc,
           stage \notin {"reproduce", "not_reproduced", "next_pass", "loop", "stored"},
           stage' \notin {"next_pass", "loop", "stored"}
    PROVE  ProgramInv'
<1>1. (CodeLeaks(prog)' <=> CodeLeaks(prog)) /\ (LabelsFree(prog)' <=> LabelsFree(prog))
  BY DEF progVars, CodeLeaks, FenceFree, LabelsFree
<1> QED BY <1>1 DEF ProgramInv, progVars

LEMMA ProgramReproduce == ProgramInv /\ Reproduce => ProgramInv'
<1> SUFFICES ASSUME ProgramInv, Reproduce PROVE ProgramInv'
  OBVIOUS
<1>1. (CodeLeaks(prog)' <=> CodeLeaks(prog)) /\ (LabelsFree(prog)' <=> LabelsFree(prog))
  BY DEF Reproduce, progVars, CodeLeaks, FenceFree, LabelsFree
<1>2. stage' = "not_reproduced" \/ (stage' \in {"set_ignore", "input_pass"} /\ CodeLeaks(prog))
  BY FoundLeaks DEF Reproduce
<1> QED BY <1>1, <1>2 DEF Reproduce, progVars, ProgramInv

LEMMA ProgramInputs ==
    ASSUME ProgramInv,
           \/ StartInputPass \/ CheckInputPass \/ CheckNewInputs \/ HalveInputs \/ ShrinkInputs
           \/ NextBlock \/ ZeroBlock \/ ZeroWord \/ CopyWord
    PROVE  ProgramInv'
<1>1. CASE StartInputPass
  BY <1>1, LeavesProgram DEF StartInputPass
<1>2. CASE CheckInputPass
  BY <1>2, LeavesProgram DEF CheckInputPass
<1>3. CASE CheckNewInputs
  BY <1>3, LeavesProgram DEF CheckNewInputs
<1>4. CASE HalveInputs
  BY <1>4, LeavesProgram DEF HalveInputs, StartShrinking
<1>5. CASE ShrinkInputs
  BY <1>5, LeavesProgram DEF ShrinkInputs, InputPassDone
<1>6. CASE NextBlock
  BY <1>6, LeavesProgram DEF NextBlock, InputPassDone
<1>7. CASE ZeroBlock
  BY <1>7, LeavesProgram DEF ZeroBlock, Advance
<1>8. CASE ZeroWord
  BY <1>8, LeavesProgram DEF ZeroWord, Advance
<1>9. CASE CopyWord
  BY <1>9, LeavesProgram DEF CopyWord, Advance
<1> QED BY <1>1, <1>2, <1>3, <1>4, <1>5, <1>6, <1>7, <1>8, <1>9

LEMMA ProgramStartPass == ProgramInv /\ StartPass => ProgramInv'
<1> SUFFICES ASSUME ProgramInv, StartPass PROVE ProgramInv'
  OBVIOUS
<1>1. /\ stage = "next_pass" /\ stage' = "loop" /\ prog' = prog /\ work' = prog
      /\ cur' = Len(prog) /\ mods' = {} /\ passes' = passes /\ sc' = sc /\ dropped' = dropped
  BY DEF StartPass
<1>2. prog \in Seq(Line) /\ LabelsFree(prog) /\ (~dropped => CodeLeaks(prog)) /\ sc \in Scenarios
  BY <1>1 DEF ProgramInv
<1>3. Follows(Head(passes), prog, {}, Len(prog), prog)
  <2>1. Modifiable(Head(passes), prog, {})
    BY DEF Modifiable
  <2>2. Untagged(prog) = Untagged(Replay(Head(passes), prog, {}))
    BY <1>2, ReplayNothing
  <2> QED BY <1>2, <2>1, <2>2 DEF Follows
<1>4. Follows(Head(passes), prog, mods, cur, work)'
  BY <1>1, <1>3
<1>5. (CodeLeaks(prog)' <=> CodeLeaks(prog)) /\ (LabelsFree(prog)' <=> LabelsFree(prog))
      /\ (CodeLeaks(work)' <=> CodeLeaks(prog)) /\ (LabelsFree(work)' <=> LabelsFree(prog))
  BY <1>1 DEF CodeLeaks, FenceFree, LabelsFree
<1> QED BY <1>1, <1>2, <1>4, <1>5 DEF ProgramInv

LEMMA ProgramTryLine == ProgramInv /\ TryLine => ProgramInv'
<1> SUFFICES ASSUME ProgramInv, TryLine PROVE ProgramInv'
  OBVIOUS
<1> DEFINE pass == Head(passes)
           new == Modify(pass, work, cur)
<1>1. /\ stage = "loop" /\ stage' = "loop" /\ prog' = prog /\ passes' = passes /\ sc' = sc
      /\ dropped' = dropped /\ cur' = cur - 1 /\ cur > 1
  BY DEF TryLine
<1>2. /\ Follows(pass, prog, mods, cur, work) /\ LabelsFree(work) /\ (~dropped => CodeLeaks(work))
      /\ prog \in Seq(Line) /\ work \in Seq(Line) /\ LabelsFree(prog) /\ sc \in Scenarios
      /\ (~dropped => CodeLeaks(prog))
  BY <1>1 DEF ProgramInv
<1>3. \/ work' = work /\ mods' = mods
      \/ /\ CanModify(pass, work[cur]) /\ Check(new, inputs, ignore, TRUE)
         /\ work' = new /\ mods' = mods \cup {cur}
  BY DEF TryLine
<1>5. SUFFICES /\ work' \in Seq(Line) /\ Follows(pass, prog, mods', cur - 1, work')
               /\ LabelsFree(work') /\ (~dropped => CodeLeaks(work'))
  <2>1. (CodeLeaks(prog)' <=> CodeLeaks(prog)) /\ (LabelsFree(prog)' <=> LabelsFree(prog))
        /\ (CodeLeaks(work)' <=> CodeLeaks(work')) /\ (LabelsFree(work)' <=> LabelsFree(work'))
    BY <1>1 DEF CodeLeaks, FenceFree, LabelsFree
  <2>2. Follows(Head(passes), prog, mods, cur, work)' <=> Follows(pass, prog, mods', cur - 1, work')
    BY <1>1
  <2> QED BY <1>1, <1>2, <2>1, <2>2 DEF ProgramInv
<1>6. CASE work' = work /\ mods' = mods
  <2>1. Follows(pass, prog, mods, cur - 1, work)
    BY <1>1, <1>2 DEF Follows
  <2> QED BY <1>2, <1>6, <2>1
<1>7. CASE /\ CanModify(pass, work[cur]) /\ Check(new, inputs, ignore, TRUE)
           /\ work' = new /\ mods' = mods \cup {cur}
  <2>1. Follows(pass, prog, mods \cup {cur}, cur - 1, new)
    BY <1>1, <1>2, <1>7, ReplayFollowsLoop
  <2>2. new \in Seq(Line)
    BY <2>1 DEF Follows
  <2>3. CodeLeaks(new)
    BY <1>7, CheckLeaks
  <2>4. cur \in 1 .. Len(work)
    BY <1>1, <1>2 DEF Follows
  <2>5. LabelsFree(new)
    BY <1>2, <1>7, <2>4, ModifyKeepsLabels
  <2> QED BY <1>7, <2>1, <2>2, <2>3, <2>5
<1> QED BY <1>3, <1>6, <1>7

LEMMA ProgramFinishPass == ProgramInv /\ FinishPass => ProgramInv'
<1> SUFFICES ASSUME ProgramInv, FinishPass PROVE ProgramInv'
  OBVIOUS
<1> DEFINE new == Replay(Head(passes), prog, mods)
<1>1. /\ stage = "loop" /\ stage' = "next_pass" /\ prog' = new /\ sc' = sc
      /\ dropped' = dropped /\ work' = work
  BY DEF FinishPass
<1>2. /\ Follows(Head(passes), prog, mods, cur, work) /\ LabelsFree(work)
      /\ (~dropped => CodeLeaks(work)) /\ sc \in Scenarios
  BY <1>1 DEF ProgramInv
<1>3. work \in Seq(Line) /\ new \in Seq(Line) /\ Untagged(work) = Untagged(new)
  BY <1>2, ReplayType DEF Follows
<1> HIDE DEF new
<1>4. LabelsFree(new) /\ (~dropped => CodeLeaks(new))
  BY <1>2, <1>3, TagBlind
<1>5. (CodeLeaks(prog)' <=> CodeLeaks(new)) /\ (LabelsFree(prog)' <=> LabelsFree(new))
  BY <1>1 DEF CodeLeaks, FenceFree, LabelsFree
<1> QED BY <1>1, <1>2, <1>3, <1>4, <1>5 DEF ProgramInv

LEMMA ProgramRemoveLabels == ProgramInv /\ RemoveLabels => ProgramInv'
<1> SUFFICES ASSUME ProgramInv, RemoveLabels PROVE ProgramInv'
  OBVIOUS
<1> DEFINE new == WithoutLabels(prog)
<1>1. /\ stage = "next_pass" /\ stage' = "next_pass" /\ prog' = new /\ work' = new /\ sc' = sc
      /\ dropped' = (dropped \/ \E i \in DOMAIN prog : prog[i].k = "byte")
  BY DEF RemoveLabels
<1>2. prog \in Seq(Line) /\ LabelsFree(prog) /\ (~dropped => CodeLeaks(prog)) /\ sc \in Scenarios
  BY <1>1 DEF ProgramInv
<1>3. new \in Seq(Line) /\ LabelsFree(new) /\ (~dropped' => CodeLeaks(new))
  BY <1>1, <1>2, LabelsNotNeeded
<1> HIDE DEF new
<1>4. (CodeLeaks(prog)' <=> CodeLeaks(new)) /\ (LabelsFree(prog)' <=> LabelsFree(new))
  BY <1>1 DEF CodeLeaks, FenceFree, LabelsFree
<1> QED BY <1>1, <1>2, <1>3, <1>4 DEF ProgramInv

LEMMA ProgramInvStep == ProgramInv /\ [Next]_vars => ProgramInv'
<1> SUFFICES ASSUME ProgramInv, [Next]_vars PROVE ProgramInv'
  OBVIOUS
<1>1. ASSUME prog' = prog, sc' = sc
      PROVE  (CodeLeaks(prog)' <=> CodeLeaks(prog)) /\ (LabelsFree(prog)' <=> LabelsFree(prog))
  BY <1>1 DEF CodeLeaks, FenceFree, LabelsFree
<1>2. CASE SetIgnoreList
  BY <1>1, <1>2 DEF SetIgnoreList, ProgramInv
<1>3. CASE AddComments
  BY <1>1, <1>3 DEF AddComments, ProgramInv
<1>4. CASE NextAttempt
  <2>1. /\ stage = "next_pass" /\ stage' \in {"next_pass", "stored"} /\ prog' = prog /\ sc' = sc
        /\ work' = work /\ dropped' = dropped
    BY <1>4 DEF NextAttempt
  <2> QED BY <1>1, <2>1 DEF ProgramInv
<1>5. CASE UNCHANGED vars
  <2>1. /\ sc' = sc /\ stage' = stage /\ prog' = prog /\ work' = work /\ passes' = passes
        /\ cur' = cur /\ mods' = mods /\ dropped' = dropped
    BY <1>5 DEF vars
  <2>2. (CodeLeaks(work)' <=> CodeLeaks(work)) /\ (LabelsFree(work)' <=> LabelsFree(work))
    BY <2>1 DEF CodeLeaks, FenceFree, LabelsFree
  <2> QED BY <1>1, <2>1, <2>2 DEF ProgramInv
<1> QED BY <1>2, <1>3, <1>4, <1>5, ProgramReproduce, ProgramInputs, ProgramStartPass,
           ProgramTryLine, ProgramFinishPass, ProgramRemoveLabels DEF Next

\* What every pass hands on is, up to tags, the program that its last
\* successful check measured, for any program, passes and rounds: building
\* the result anew from the numbers of the modified lines follows the loop
\* that modified them in place.
THEOREM ResultAlwaysVerified == Spec => []ResultIsVerified
<1>1. ProgramInv => ResultIsVerified
  BY DEF ProgramInv, ResultIsVerified
<1>2. Spec => []ProgramInv
  BY ProgramInit, ProgramInvStep, PTL DEF Spec
<1> QED BY <1>1, <1>2, PTL

\* The stored program still leaks, unless the label pass dropped code.
THEOREM StoredAlwaysLeaks == Spec => []StoredStillLeaks
<1>1. ProgramInv => StoredStillLeaks
  BY DEF ProgramInv, StoredStillLeaks
<1>2. Spec => []ProgramInv
  BY ProgramInit, ProgramInvStep, PTL DEF Spec
<1> QED BY <1>1, <1>2, PTL

-----------------------------------------------------------------------------
(* Where the lines of a result come from.                                  *)

\* What is flattened up to i is in front of what is flattened up to n.
LEMMA FlatPrefix ==
    ASSUME NEW g \in Seq(Seq(Line)), NEW i \in 1 .. Len(g)
    PROVE  \A k \in i .. Len(g) : \E s \in Seq(Line) : FlatFcn(g)[k] = FlatFcn(g)[i] \o s
<1> DEFINE F == FlatFcn(g)
           Good == {k \in Nat : \E s \in Seq(Line) : F[k] = F[i] \o s}
<1>1. Len(g) \in Nat /\ i \in Nat /\ i \in 1 .. Len(g)
  OBVIOUS
<1>2. \A k \in 1 .. Len(g) : F[k] \in Seq(Line) /\ g[k] \in Seq(Line)
  BY FlatFcnType
<1>3. \A k \in 1 .. Len(g) : k # 1 => F[k] = F[k - 1] \o g[k]
  BY <1>1, FlatFcnStep
<1> HIDE DEF F
<1>4. i \in Good
  <2>1. F[i] \o <<>> = F[i] /\ <<>> \in Seq(Line)
    BY <1>1, <1>2, ConcatEmptySeq
  <2> QED BY <1>1, <2>1
<1>5. ASSUME NEW k \in i .. Len(g), k \in Good, k < Len(g) PROVE k + 1 \in Good
  <2> DEFINE j == k + 1
  <2>1. j \in 1 .. Len(g) /\ j # 1 /\ j - 1 = k /\ j \in Nat
    BY <1>1, <1>5
  <2>2. PICK s \in Seq(Line) : F[k] = F[i] \o s
    BY <1>5
  <2> HIDE DEF j
  <2>3. F[j] = (F[i] \o s) \o g[j]
    BY <1>3, <2>1, <2>2
  <2>4. F[i] \in Seq(Line) /\ g[j] \in Seq(Line) /\ s \in Seq(Line)
    BY <1>1, <1>2, <2>1, <2>2
  <2>5. (F[i] \o s) \o g[j] = F[i] \o (s \o g[j]) /\ s \o g[j] \in Seq(Line)
    BY <2>4, Assoc, ConcatProperties
  <2> QED BY <2>1, <2>3, <2>5 DEF j
<1> HIDE DEF Good
<1>6. \A k \in i .. Len(g) : k \in Good
  BY <1>1, <1>4, <1>5, UpTo
<1> QED BY <1>6 DEF Good, F

\* The last line of a piece is in the result, and behind it comes the first
\* line of the next piece.
LEMMA Lands ==
    ASSUME NEW g \in Seq(Seq(Line)), NEW i \in 1 .. Len(g), Len(g[i]) > 0
    PROVE  LET j == Len(FlatFcn(g)[i])
               q == FlattenSeq(g)
           IN  /\ j \in 1 .. Len(q) /\ q[j] = g[i][Len(g[i])]
               /\ i < Len(g) /\ Len(g[i + 1]) > 0
                     => j + 1 \in 1 .. Len(q) /\ q[j + 1] = g[i + 1][1]
<1> DEFINE F == FlatFcn(g)
           q == FlattenSeq(g)
           j == Len(F[i])
<1>1. Len(g) \in Nat /\ i \in Nat /\ i \in 1 .. Len(g) /\ Len(g) \in 1 .. Len(g)
      /\ Len(g) \in i .. Len(g)
  OBVIOUS
<1>2. \A k \in 1 .. Len(g) : F[k] \in Seq(Line) /\ g[k] \in Seq(Line)
  BY FlatFcnType
<1>3. \A k \in 1 .. Len(g) : F[k] = IF k = 1 THEN g[k] ELSE F[k - 1] \o g[k]
  BY <1>1, FlatFcnStep
<1>4. q = F[Len(g)]
  BY <1>1, FlattenIs
<1>5. \A k \in 1 .. Len(g) : \E s \in Seq(Line) : q = F[k] \o s
  <2> TAKE k \in 1 .. Len(g)
  <2>1. Len(g) \in k .. Len(g)
    BY <1>1
  <2> QED BY <1>4, <2>1, FlatPrefix
<1> HIDE DEF F, q
<1>6. F[i] \in Seq(Line) /\ g[i] \in Seq(Line)
  BY <1>1, <1>2
<1>7. j \in Nat /\ j > 0 /\ F[i][j] = g[i][Len(g[i])]
  <2>1. CASE i = 1
    BY <1>1, <1>3, <1>6, <2>1
  <2>2. CASE i # 1
    <3> DEFINE a == F[i - 1]
               b == g[i]
    <3>0. i \in 1 .. Len(g) /\ i - 1 \in 1 .. Len(g)
      BY <1>1, <2>2
    <3>a. a \in Seq(Line) /\ b \in Seq(Line)
      BY <1>2, <1>6, <3>0
    <3>b. F[i] = a \o b
      BY <1>3, <2>2, <3>0
    <3>1. a \in Seq(Line) /\ b \in Seq(Line) /\ F[i] = a \o b /\ Len(b) > 0
      BY <1>1, <3>a, <3>b
    <3> HIDE DEF a, b
    <3>2. Len(a \o b) = Len(a) + Len(b) /\ (a \o b)[Len(a) + Len(b)] = b[Len(b)]
      <4>1. /\ Len(a \o b) = Len(a) + Len(b) /\ Len(a) \in Nat /\ Len(b) \in Nat
            /\ \A x \in 1 .. Len(a) + Len(b) :
                  (a \o b)[x] = IF x <= Len(a) THEN a[x] ELSE b[x - Len(a)]
        BY <3>1, ConcatProperties
      <4>2. /\ Len(a) + Len(b) \in 1 .. Len(a) + Len(b) /\ ~(Len(a) + Len(b) <= Len(a))
            /\ (Len(a) + Len(b)) - Len(a) = Len(b)
        BY <3>1, <4>1
      <4> QED BY <4>1, <4>2
    <3>3. Len(a) + Len(b) \in Nat /\ Len(a) + Len(b) > 0
      BY <3>1
    <3> QED BY <3>1, <3>2, <3>3 DEF b
  <2> QED BY <2>1, <2>2
<1>8. j \in 1 .. Len(q) /\ q[j] = F[i][j]
  <2>1. PICK s \in Seq(Line) : q = F[i] \o s
    BY <1>1, <1>5
  <2> DEFINE a == F[i]
  <2>2. a \in Seq(Line) /\ j = Len(a) /\ q = a \o s /\ j \in 1 .. Len(a)
    BY <1>6, <1>7, <2>1
  <2> HIDE DEF a
  <2>3. Len(q) = Len(a) + Len(s) /\ \A x \in 1 .. Len(a) : q[x] = a[x]
    BY <2>2, ConcatFront
  <2>4. Len(s) \in Nat /\ Len(a) \in Nat
    BY <2>2
  <2> QED BY <2>2, <2>3, <2>4 DEF a
<1>9. ASSUME i < Len(g), Len(g[i + 1]) > 0
      PROVE  j + 1 \in 1 .. Len(q) /\ q[j + 1] = g[i + 1][1]
  <2> DEFINE k == i + 1
             a == F[i]
             b == g[k]
  <2>1. k \in 1 .. Len(g) /\ k # 1 /\ k - 1 = i
    BY <1>1, <1>9
  <2>2. a \in Seq(Line) /\ b \in Seq(Line) /\ F[k] = a \o b /\ Len(b) > 0 /\ j = Len(a)
    <3>1. F[k] = F[k - 1] \o g[k] /\ g[k] \in Seq(Line)
      <4> HIDE DEF k
      <4> QED BY <1>2, <1>3, <2>1
    <3> QED BY <1>6, <1>9, <2>1, <3>1
  <2>3. PICK s \in Seq(Line) : q = F[k] \o s
    <3> HIDE DEF k
    <3> QED BY <1>5, <2>1
  <2> HIDE DEF a, b, k, j
  <2>4. /\ a \o b \in Seq(Line) /\ Len(a \o b) = Len(a) + Len(b)
        /\ Len(a) \in Nat /\ Len(b) \in Nat
        /\ \A x \in 1 .. Len(a) + Len(b) :
              (a \o b)[x] = IF x <= Len(a) THEN a[x] ELSE b[x - Len(a)]
    BY <2>2, ConcatProperties
  <2>5. /\ Len(a) + 1 \in 1 .. Len(a) + Len(b) /\ ~(Len(a) + 1 <= Len(a))
        /\ (Len(a) + 1) - Len(a) = 1
    BY <2>2, <2>4
  <2>6. (a \o b)[Len(a) + 1] = b[1]
    BY <2>4, <2>5
  <2> DEFINE c == a \o b
  <2>7. c \in Seq(Line) /\ q = c \o s /\ Len(a) + 1 \in 1 .. Len(c) /\ c[Len(a) + 1] = b[1]
    BY <2>2, <2>3, <2>4, <2>5, <2>6
  <2> HIDE DEF c
  <2>8. Len(q) = Len(c) + Len(s) /\ \A x \in 1 .. Len(c) : q[x] = c[x]
    BY <2>3, <2>7, ConcatFront
  <2>9. Len(s) \in Nat /\ Len(c) \in Nat
    BY <2>3, <2>7
  <2>10. Len(a) + 1 \in 1 .. Len(q) /\ q[Len(a) + 1] = b[1]
    BY <2>7, <2>8, <2>9
  <2> QED BY <2>2, <2>10 DEF b, k
<1> QED BY <1>7, <1>8, <1>9 DEF F, q

\* Every line of the result is the last one of its piece, or a fence.
LEMMA Sources ==
    ASSUME NEW g \in Seq(Seq(Line)),
           \A i \in 1 .. Len(g) : \A r \in 1 .. Len(g[i]) : r < Len(g[i]) => g[i][r] = Fence
    PROVE  \A j \in 1 .. Len(FlattenSeq(g)) :
              \/ FlattenSeq(g)[j] = Fence
              \/ \E i \in 1 .. Len(g) : /\ Len(g[i]) > 0 /\ j = Len(FlatFcn(g)[i])
                                        /\ FlattenSeq(g)[j] = g[i][Len(g[i])]
<1> DEFINE F == FlatFcn(g)
           Ok(f, j) == \/ f[j] = Fence
                       \/ \E i \in 1 .. Len(g) : /\ Len(g[i]) > 0 /\ j = Len(F[i])
                                                 /\ f[j] = g[i][Len(g[i])]
           Good == {k \in Nat : \A j \in 1 .. Len(F[k]) : Ok(F[k], j)}
<1>1. Len(g) \in Nat
  OBVIOUS
<1>2. \A k \in 1 .. Len(g) : F[k] \in Seq(Line) /\ g[k] \in Seq(Line)
  BY FlatFcnType
<1>3. \A k \in 1 .. Len(g) : F[k] = IF k = 1 THEN g[k] ELSE F[k - 1] \o g[k]
  BY <1>1, FlatFcnStep
<1>4. CASE Len(g) = 0
  <2>1. FlattenSeq(g) = <<>>
    BY <1>4, FlattenIs
  <2> QED BY <2>1
<1>5. CASE Len(g) # 0
  <2>1. FlattenSeq(g) = F[Len(g)] /\ Len(g) \in 1 .. Len(g) /\ 1 \in 1 .. Len(g)
    BY <1>1, <1>5, FlattenIs
  <2> HIDE DEF F
  <2>2. 1 \in Good
    <3>1. F[1] = g[1] /\ F[1] \in Seq(Line) /\ Len(g[1]) \in Nat
      BY <1>2, <1>3, <2>1
    <3>2. ASSUME NEW j \in 1 .. Len(F[1]) PROVE Ok(F[1], j)
      <4>1. CASE j < Len(g[1])
        BY <2>1, <3>1, <4>1
      <4>2. CASE j = Len(g[1])
        BY <2>1, <3>1, <4>2
      <4> QED BY <3>1, <4>1, <4>2
    <3> QED BY <3>2
  <2>3. ASSUME NEW n \in 1 .. Len(g), n \in Good, n < Len(g) PROVE n + 1 \in Good
    <3> DEFINE k == n + 1
               a == F[n]
               b == g[k]
    <3>1. k \in 1 .. Len(g) /\ k # 1 /\ k - 1 = n /\ k \in Nat /\ n \in 1 .. Len(g)
      BY <1>1, <2>3
    <3> HIDE DEF k
    <3>2. F[k] = a \o b /\ a \in Seq(Line) /\ b \in Seq(Line) /\ F[k] \in Seq(Line)
      BY <1>2, <1>3, <3>1
    <3>3. \A j \in 1 .. Len(a) : Ok(a, j)
      BY <2>3
    <3>4. \A r \in 1 .. Len(b) : r < Len(b) => b[r] = Fence
      BY <3>1
    <3> HIDE DEF a
    <3>5. /\ Len(F[k]) = Len(a) + Len(b) /\ Len(a) \in Nat /\ Len(b) \in Nat
          /\ \A x \in 1 .. Len(a) + Len(b) : F[k][x] = IF x <= Len(a) THEN a[x] ELSE b[x - Len(a)]
      BY <3>2, ConcatProperties
    <3>6. ASSUME NEW j \in 1 .. Len(F[k]) PROVE Ok(F[k], j)
      <4>1. CASE j <= Len(a)
        <5>1. j \in 1 .. Len(a) /\ F[k][j] = a[j]
          BY <3>5, <4>1
        <5> QED BY <3>3, <5>1
      <4>2. CASE ~(j <= Len(a))
        <5>0. j \in 1 .. Len(a) + Len(b)
          BY <3>5
        <5>a. F[k][j] = b[j - Len(a)]
          BY <3>5, <4>2, <5>0
        <5>b. j - Len(a) \in 1 .. Len(b)
          BY <3>5, <4>2, <5>0
        <5>1. j - Len(a) \in 1 .. Len(b) /\ F[k][j] = b[j - Len(a)]
          BY <5>a, <5>b
        <5>2. CASE j - Len(a) < Len(b)
          BY <3>4, <5>1, <5>2
        <5>3. CASE ~(j - Len(a) < Len(b))
          <6>1. j - Len(a) = Len(b) /\ j = Len(F[k]) /\ Len(b) > 0
            BY <3>5, <5>1, <5>3, SMTT(30)
          <6> QED BY <3>1, <5>1, <6>1
        <5> QED BY <5>2, <5>3
      <4> QED BY <4>1, <4>2
    <3> QED BY <3>1, <3>6 DEF k
  <2>4. \A n \in 1 .. Len(g) : n \in Good
    <3> HIDE DEF Good
    <3>1. 1 \in Nat
      OBVIOUS
    <3> QED BY <1>1, <2>2, <2>3, <3>1, UpTo
  <2>5. Len(g) \in Good
    BY <2>1, <2>4
  <2> QED BY <2>1, <2>5 DEF F
<1> QED BY <1>4, <1>5

-----------------------------------------------------------------------------
(* Instrumentation and what it protects.                                   *)

\* Instruction id is in the program as it was given.
Full(p, id) == \E i \in DOMAIN p : p[i].id = id /\ ~p[i].nopped

LEMMA LevelIsFull ==
    ASSUME NEW p \in Seq(Line), NEW id
    PROVE  Level(p, id) < 2 <=> ~Full(p, id)
<1> DEFINE at == {j \in DOMAIN p : p[j].id = id}
           S == {0} \cup {LevelOf(p[i]) : i \in at}
           f == [i \in 1 .. Len(p) |-> LevelOf(p[i])]
<1>1. Len(p) \in Nat /\ DOMAIN p = 1 .. Len(p) /\ \A i \in 1 .. Len(p) : p[i] \in Line
  OBVIOUS
<1>2. ASSUME NEW l \in Line PROVE LevelOf(l) \in Nat /\ (LevelOf(l) < 2 <=> l.nopped)
  <2>1. l.n \in Nat /\ l.nopped \in BOOLEAN
    BY DEF Line
  <2>2. CASE l.nopped
    <3>1. LevelOf(l) = 1
      BY <2>2, Zenon DEF LevelOf
    <3>2. LevelOf(l) \in Nat /\ LevelOf(l) < 2
      BY <3>1
    <3> QED BY <2>2, <3>2, Zenon
  <2>3. CASE ~l.nopped
    <3>1. LevelOf(l) = 2 + l.n
      BY <2>3, Zenon DEF LevelOf
    <3>2. LevelOf(l) \in Nat /\ ~(LevelOf(l) < 2)
      BY <2>1, <3>1
    <3> QED BY <2>3, <3>2, Zenon
  <2> QED BY <2>2, <2>3
<1>3. f \in [1 .. Len(p) -> Nat]
  BY <1>1, <1>2
<1>4. PICK b \in Nat : \A i \in 1 .. Len(p) : f[i] <= b
  BY <1>1, <1>3, SeqBounded
<1>5. S \in SUBSET Nat /\ S # {} /\ \A x \in S : x <= b
  BY <1>1, <1>2, <1>4
<1>6. Max(S) \in S /\ (\A x \in S : Max(S) >= x) /\ Max(S) \in Nat
  <2> HIDE DEF S
  <2> QED BY <1>5, MaxFacts
<1>7. Level(p, id) = Max(S)
  BY DEF Level
<1>8. ASSUME Full(p, id) PROVE ~(Max(S) < 2)
  <2>1. PICK i \in 1 .. Len(p) : p[i].id = id /\ ~p[i].nopped
    BY <1>1, <1>8, Zenon DEF Full
  <2>2. LevelOf(p[i]) \in S
    BY <1>1, <2>1
  <2>3. ~(LevelOf(p[i]) < 2) /\ LevelOf(p[i]) \in Nat
    BY <1>1, <1>2, <2>1, Zenon
  <2> HIDE DEF S
  <2> QED BY <1>6, <2>2, <2>3
<1>9. ASSUME ~(Max(S) < 2) PROVE Full(p, id)
  <2>1. Max(S) # 0
    <3> HIDE DEF S
    <3> QED BY <1>9
  <2>2. PICK i \in at : Max(S) = LevelOf(p[i])
    BY <1>6, <2>1, Zenon
  <2>3. i \in 1 .. Len(p) /\ p[i].id = id
    BY <1>1, <2>2
  <2>4. ~p[i].nopped
    BY <1>1, <1>2, <1>9, <2>2, <2>3, Zenon
  <2> QED BY <1>1, <2>3, <2>4, Zenon DEF Full
<1> HIDE DEF S
<1> QED BY <1>7, <1>8, <1>9, Zenon

\* Line i is instrumentation in its place: tagged, and right before more of it
\* or before the instruction it was put before, if no fence came in between.
Guards(p, i) ==
    /\ p[i].tag /\ ~p[i].nopped /\ p[i].k \notin {"label", "byte"}
    /\ i < Len(p) /\ (p[i + 1] = Fence \/ p[i].before \in {p[i + 1].id, p[i + 1].before})

\* What the passes keep of an instrumented program.
Shape(p) ==
    /\ \A i, j \in DOMAIN p : p[i].id = p[j].id /\ p[i].id # 0 => i = j
    /\ \A i \in DOMAIN p : p[i].before # 0 => ~Full(p, p[i].before) \/ Guards(p, i)

\* What became of a line: fences before it, and at most itself.
DerivedFrom(l, g) ==
    /\ \A r \in 1 .. Len(g) : r < Len(g) => g[r] = Fence
    /\ Len(g) > 0 => LET m == g[Len(g)]
                     IN  m.id = l.id /\ m.before = l.before /\ (l.nopped => m.nopped)

\* It is still there.
KeptIn(l, g) ==
    /\ Len(g) > 0
    /\ LET m == g[Len(g)] IN m.nopped = l.nopped /\ m.k = l.k
    /\ g[1] = Fence \/ (g[1].id = l.id /\ g[1].before = l.before)
    /\ l = Fence => g[1] = Fence

Deleting == {"removal", "nop"}

LEMMA NewLinesOf ==
    ASSUME NEW pass, NEW l \in Line, CanModify(pass, l)
    PROVE  LET g == NewLines(pass, l)
           IN  /\ DerivedFrom(l, g)
               /\ pass \in Deleting /\ Len(g) > 0 => g[Len(g)].nopped
               /\ pass \notin Deleting => KeptIn(l, g) /\ g[Len(g)].tag = l.tag
<1> DEFINE g == NewLines(pass, l)
<1>1. CASE pass = "removal"
  <2>1. g = <<>>
    BY <1>1 DEF NewLines
  <2> HIDE DEF g
  <2>2. Len(g) = 0
    BY <2>1
  <2> QED BY <1>1, <2>2 DEF g, Deleting, DerivedFrom
<1>2. CASE pass = "nop"
  <2> DEFINE m == Nop(l)
  <2>1. g = <<m>>
    BY <1>2 DEF NewLines
  <2>2. m.id = l.id /\ m.before = l.before /\ m.nopped = TRUE
    BY DEF Nop, Line
  <2> HIDE DEF g, m
  <2>3. Len(g) = 1 /\ g[Len(g)] = m
    BY <2>1
  <2>4. \A r \in 1 .. Len(g) : ~(r < Len(g))
    BY <2>3
  <2>5. m.nopped
    BY <2>2
  <2>6. DerivedFrom(l, g)
    BY <2>2, <2>3, <2>4, <2>5 DEF DerivedFrom
  <2>7. g[Len(g)].nopped /\ pass \in Deleting
    BY <1>2, <2>3, <2>5 DEF Deleting
  <2> QED BY <2>6, <2>7, Zenon DEF g
<1>3. CASE pass = "fence"
  <2>1. g = <<Fence, l>>
    BY <1>3 DEF NewLines
  <2> HIDE DEF g
  <2>2. Len(g) = 2 /\ g[Len(g)] = l /\ g[1] = Fence
    BY <2>1
  <2>3. \A r \in 1 .. Len(g) : r < Len(g) => r = 1
    BY <2>2
  <2>4. DerivedFrom(l, g)
    BY <2>2, <2>3 DEF DerivedFrom
  <2>5. KeptIn(l, g) /\ g[Len(g)].tag = l.tag /\ pass \notin Deleting
    BY <1>3, <2>2 DEF KeptIn, Deleting
  <2> QED BY <2>4, <2>5, Zenon DEF g
<1>4. CASE pass \notin {"removal", "nop", "fence"}
  <2> DEFINE m == [l EXCEPT !.n = l.n - 1]
  <2>1. g = <<m>> /\ l.n > 0
    BY <1>4 DEF NewLines, CanModify
  <2>2. m.id = l.id /\ m.before = l.before /\ m.nopped = l.nopped /\ m.k = l.k /\ m.tag = l.tag
    BY DEF Line
  <2>3. l # Fence
    BY <2>1 DEF Fence
  <2> HIDE DEF g, m
  <2>4. Len(g) = 1 /\ g[Len(g)] = m /\ g[1] = m
    BY <2>1
  <2>5. \A r \in 1 .. Len(g) : ~(r < Len(g))
    BY <2>4
  <2>6. DerivedFrom(l, g)
    BY <2>2, <2>4, <2>5 DEF DerivedFrom
  <2>7. KeptIn(l, g) /\ g[Len(g)].tag = l.tag /\ pass \notin Deleting
    BY <1>4, <2>2, <2>3, <2>4 DEF KeptIn, Deleting
  <2> QED BY <2>6, <2>7, Zenon DEF g
<1> QED BY <1>1, <1>2, <1>3, <1>4

\* What the replay makes of the line with number i.
LEMMA PieceOf ==
    ASSUME NEW pass, NEW ls \in Seq(Line), NEW ids, Modifiable(pass, ls, ids),
           NEW i \in 1 .. Len(ls)
    PROVE  LET g == Pieces(pass, ls, ids)[i]
           IN  /\ DerivedFrom(ls[i], g)
               /\ i \in ids /\ pass \in Deleting /\ Len(g) > 0 => g[Len(g)].nopped
               /\ i \notin ids \/ pass \notin Deleting => KeptIn(ls[i], g)
               /\ (i \notin ids /\ i + 1 \notin ids) \/ pass \notin Deleting
                     => g[Len(g)].tag = ls[i].tag
<1> DEFINE kept(k) == IF k + 1 \in ids /\ pass \in Deleting
                      THEN [ls[k] EXCEPT !.tag = FALSE] ELSE ls[k]
           g == Pieces(pass, ls, ids)[i]
<1>1. ls[i] \in Line
  OBVIOUS
<1>2. g = IF i \in ids THEN NewLines(pass, ls[i]) ELSE <<kept(i)>>
  <2>1. Pieces(pass, ls, ids)
          = [k \in 1 .. Len(ls) |-> IF k \in ids THEN NewLines(pass, ls[k]) ELSE <<kept(k)>>]
    BY DEF Pieces, Deleting
  <2> HIDE DEF kept
  <2> QED BY <2>1
<1>3. CASE i \in ids
  <2>1. g = NewLines(pass, ls[i]) /\ CanModify(pass, ls[i])
    BY <1>2, <1>3 DEF Modifiable
  <2> HIDE DEF g
  <2>2. /\ DerivedFrom(ls[i], g)
        /\ pass \in Deleting /\ Len(g) > 0 => g[Len(g)].nopped
        /\ pass \notin Deleting => KeptIn(ls[i], g) /\ g[Len(g)].tag = ls[i].tag
    BY <1>1, <2>1, NewLinesOf
  <2> QED BY <1>3, <2>2, Zenon DEF g
<1>4. CASE i \notin ids
  <2> DEFINE m == kept(i)
             l == ls[i]
  <2>1. g = <<m>>
    BY <1>2, <1>4
  <2>2. m.id = l.id /\ m.before = l.before /\ m.nopped = l.nopped /\ m.k = l.k
    BY <1>1 DEF Line
  <2>3. i + 1 \notin ids \/ pass \notin Deleting => m.tag = l.tag
    OBVIOUS
  <2>4. l = Fence => m = Fence
    <3>1. Fence.tag = FALSE
      BY DEF Fence
    <3>2. l = Fence => [l EXCEPT !.tag = FALSE] = l
      BY <1>1, <3>1 DEF Line
    <3> QED BY <3>2
  <2> HIDE DEF g, m
  <2>5. Len(g) = 1 /\ g[Len(g)] = m /\ g[1] = m
    BY <2>1
  <2>6. \A r \in 1 .. Len(g) : ~(r < Len(g))
    BY <2>5
  <2>7. DerivedFrom(l, g)
    BY <2>2, <2>5, <2>6 DEF DerivedFrom
  <2>8. KeptIn(l, g)
    BY <2>2, <2>4, <2>5 DEF KeptIn
  <2>9. i + 1 \notin ids \/ pass \notin Deleting => g[Len(g)].tag = l.tag
    BY <2>3, <2>5
  <2> QED BY <1>4, <2>7, <2>8, <2>9, Zenon DEF g
<1> QED BY <1>3, <1>4

\* Every line of the result of a pass is a fence, or comes from a line that it
\* follows in the order of the program.
Origin(pass, ls, ids, q, j, i) ==
    LET g == Pieces(pass, ls, ids)
    IN  /\ i \in 1 .. Len(ls) /\ Len(g[i]) > 0 /\ j = Len(FlatFcn(g)[i])
        /\ q[j] = g[i][Len(g[i])]

LEMMA ReplayOrigins ==
    ASSUME NEW pass, NEW ls \in Seq(Line), NEW ids, Modifiable(pass, ls, ids)
    PROVE  LET g == Pieces(pass, ls, ids)
               q == Replay(pass, ls, ids)
           IN  /\ \A j \in 1 .. Len(q) :
                     q[j] = Fence \/ \E i \in 1 .. Len(ls) : Origin(pass, ls, ids, q, j, i)
               /\ \A i \in 1 .. Len(ls) : Len(g[i]) > 0 =>
                     LET j == Len(FlatFcn(g)[i])
                     IN  /\ j \in 1 .. Len(q) /\ Origin(pass, ls, ids, q, j, i)
                         /\ i < Len(ls) /\ Len(g[i + 1]) > 0
                              => j + 1 \in 1 .. Len(q) /\ q[j + 1] = g[i + 1][1]
<1> DEFINE g == Pieces(pass, ls, ids)
           q == Replay(pass, ls, ids)
<1>1. g \in Seq(Seq(Line)) /\ Len(g) = Len(ls)
  BY PiecesFacts
<1>2. q = FlattenSeq(g)
  BY ReplayIs
<1>3. \A i \in 1 .. Len(g) : \A r \in 1 .. Len(g[i]) : r < Len(g[i]) => g[i][r] = Fence
  <2> TAKE i \in 1 .. Len(g)
  <2>1. i \in 1 .. Len(ls)
    BY <1>1
  <2>2. DerivedFrom(ls[i], g[i])
    BY <2>1, PieceOf
  <2> QED BY <2>2 DEF DerivedFrom
<1> HIDE DEF g, q
<1>4. ASSUME NEW j \in 1 .. Len(q)
      PROVE  q[j] = Fence \/ \E i \in 1 .. Len(ls) : Origin(pass, ls, ids, q, j, i)
  <2>1. \/ q[j] = Fence
        \/ \E i \in 1 .. Len(g) : /\ Len(g[i]) > 0 /\ j = Len(FlatFcn(g)[i])
                                  /\ q[j] = g[i][Len(g[i])]
    BY <1>1, <1>2, <1>3, Sources
  <2> QED BY <1>1, <2>1 DEF Origin, g
<1>5. ASSUME NEW i \in 1 .. Len(ls), Len(g[i]) > 0
      PROVE  LET j == Len(FlatFcn(g)[i])
             IN  /\ j \in 1 .. Len(q) /\ Origin(pass, ls, ids, q, j, i)
                 /\ i < Len(ls) /\ Len(g[i + 1]) > 0
                      => j + 1 \in 1 .. Len(q) /\ q[j + 1] = g[i + 1][1]
  <2> DEFINE j == Len(FlatFcn(g)[i])
  <2>1. i \in 1 .. Len(g)
    BY <1>1
  <2>2. /\ j \in 1 .. Len(q) /\ q[j] = g[i][Len(g[i])]
        /\ i < Len(g) /\ Len(g[i + 1]) > 0
              => j + 1 \in 1 .. Len(q) /\ q[j + 1] = g[i + 1][1]
    BY <1>1, <1>2, <1>5, <2>1, Lands
  <2>3. Origin(pass, ls, ids, q, j, i)
    BY <1>5, <2>2 DEF Origin, g
  <2> QED BY <1>1, <2>2, <2>3
<1> QED BY <1>4, <1>5 DEF g, q

\* The lines with these numbers can be modified and are not left alone.
Tried(pass, ls, ids) == Modifiable(pass, ls, ids) /\ \A i \in ids : ~IsSkipped(pass, ls[i])

\* Instruction id is there, and the pass does not delete it.
Survives(pass, ls, ids, id) ==
    \E i \in 1 .. Len(ls) : /\ ls[i].id = id /\ ~ls[i].nopped
                            /\ i \notin ids \/ pass \notin Deleting

\* A pass brings no instruction back.
LEMMA ReplayMonotone ==
    ASSUME NEW pass, NEW ls \in Seq(Line), NEW ids, Modifiable(pass, ls, ids),
           NEW id, id # 0, Full(Replay(pass, ls, ids), id)
    PROVE  Survives(pass, ls, ids, id)
<1> DEFINE g == Pieces(pass, ls, ids)
           q == Replay(pass, ls, ids)
<1>1. q \in Seq(Line) /\ DOMAIN q = 1 .. Len(q)
  BY ReplayType
<1>2. PICK j \in 1 .. Len(q) : q[j].id = id /\ ~q[j].nopped
  BY <1>1, Zenon DEF Full
<1>3. q[j] # Fence
  BY <1>2 DEF Fence
<1>4. PICK i \in 1 .. Len(ls) : Origin(pass, ls, ids, q, j, i)
  BY <1>3, ReplayOrigins
<1>5. Len(g[i]) > 0 /\ q[j] = g[i][Len(g[i])]
  BY <1>4 DEF Origin
<1>6. /\ DerivedFrom(ls[i], g[i])
      /\ i \in ids /\ pass \in Deleting /\ Len(g[i]) > 0 => g[i][Len(g[i])].nopped
  BY PieceOf
<1> HIDE DEF g, q
<1>7. q[j].id = ls[i].id /\ (ls[i].nopped => q[j].nopped)
  BY <1>5, <1>6, Zenon DEF DerivedFrom
<1> QED BY <1>2, <1>5, <1>6, <1>7, Zenon DEF Survives

\* Instrumentation stays as long as what it protects: a pass that could delete
\* it leaves it alone.
LEMMA ReplayKeepsGuards ==
    ASSUME NEW pass, NEW ls \in Seq(Line), NEW ids, Tried(pass, ls, ids), Shape(ls),
           NEW i \in 1 .. Len(ls), ls[i].before # 0, Full(ls, ls[i].before)
    PROVE  Guards(ls, i) /\ (i \notin ids \/ pass \notin Deleting)
<1>0. i \in DOMAIN ls
  OBVIOUS
<1>1. Guards(ls, i)
  BY <1>0, Zenon DEF Shape
<1>2. ls[i].tag
  BY <1>1, Zenon DEF Guards
<1>3. ASSUME i \in ids, pass \in Deleting PROVE FALSE
  <2>1. ~IsSkipped(pass, ls[i])
    BY <1>3, Zenon DEF Tried
  <2>2. pass # "mask"
    BY <1>3 DEF Deleting
  <2> QED BY <1>2, <2>1, <2>2, Zenon DEF IsSkipped
<1> QED BY <1>1, <1>3, Zenon

\* If the protected instruction survives a pass, no line between it and its
\* instrumentation is deleted.
LEMMA NextSurvives ==
    ASSUME NEW pass, NEW ls \in Seq(Line), NEW ids, Tried(pass, ls, ids), Shape(ls),
           NEW i \in 1 .. Len(ls), ls[i].before # 0, Guards(ls, i),
           Full(Replay(pass, ls, ids), ls[i].before)
    PROVE  /\ i < Len(ls) /\ i + 1 \in 1 .. Len(ls)
           /\ i + 1 \notin ids \/ pass \notin Deleting
<1> DEFINE k == i + 1
           own == ls[i].before
<1>1. i < Len(ls) /\ (ls[k] = Fence \/ own = ls[k].id \/ own = ls[k].before)
  BY DEF Guards
<1>2. k \in 1 .. Len(ls) /\ DOMAIN ls = 1 .. Len(ls)
  BY <1>1
<1>3. PICK m \in 1 .. Len(ls) : /\ ls[m].id = own /\ ~ls[m].nopped
                                /\ m \notin ids \/ pass \notin Deleting
  <2>1. Modifiable(pass, ls, ids) /\ own # 0 /\ Full(Replay(pass, ls, ids), own)
    BY DEF Tried
  <2> HIDE DEF own
  <2>2. Survives(pass, ls, ids, own)
    BY <2>1, ReplayMonotone
  <2> QED BY <2>2, Zenon DEF Survives
<1>4. Full(ls, own)
  BY <1>2, <1>3, Zenon DEF Full
<1>5. ASSUME k \in ids, pass \in Deleting PROVE FALSE
  <2>1. ~IsSkipped(pass, ls[k])
    BY <1>5, Zenon DEF Tried
  <2>2. CASE ls[k] = Fence
    <3>1. ls[k].k = "fence"
      BY <2>2 DEF Fence
    <3> QED BY <2>1, <3>1 DEF IsSkipped
  <2>3. CASE own = ls[k].id
    <3>1. m = k
      BY <1>2, <1>3, <2>3 DEF Shape
    <3> QED BY <1>3, <1>5, <3>1
  <2>4. CASE own = ls[k].before
    <3>1. k \notin ids \/ pass \notin Deleting
      BY <1>2, <1>4, <2>4, ReplayKeepsGuards
    <3> QED BY <1>5, <3>1
  <2> QED BY <1>1, <2>2, <2>3, <2>4
<1> HIDE DEF k
<1>6. k \notin ids \/ pass \notin Deleting
  BY <1>5
<1> QED BY <1>1, <1>2, <1>6 DEF k

LEMMA ReplayShape ==
    ASSUME NEW pass, NEW ls \in Seq(Line), NEW ids, Tried(pass, ls, ids), Shape(ls)
    PROVE  Shape(Replay(pass, ls, ids))
<1> DEFINE g == Pieces(pass, ls, ids)
           q == Replay(pass, ls, ids)
           F == FlatFcn(g)
<1>0. Modifiable(pass, ls, ids)
  BY DEF Tried
<1>1. q \in Seq(Line) /\ DOMAIN q = 1 .. Len(q) /\ DOMAIN ls = 1 .. Len(ls)
  BY <1>0, ReplayType
<1>2. ASSUME NEW j \in 1 .. Len(q), q[j] # Fence
      PROVE  \E i \in 1 .. Len(ls) : /\ Origin(pass, ls, ids, q, j, i)
                                     /\ q[j].id = ls[i].id /\ q[j].before = ls[i].before
  <2>1. PICK i \in 1 .. Len(ls) : Origin(pass, ls, ids, q, j, i)
    BY <1>0, <1>2, ReplayOrigins
  <2>2. Len(g[i]) > 0 /\ q[j] = g[i][Len(g[i])]
    BY <2>1 DEF Origin
  <2>3. DerivedFrom(ls[i], g[i])
    BY <1>0, PieceOf
  <2> HIDE DEF g, q
  <2> QED BY <2>1, <2>2, <2>3 DEF DerivedFrom
<1>3. Fence.id = 0 /\ Fence.before = 0
  BY DEF Fence
<1>4. ASSUME NEW a \in 1 .. Len(q), NEW b \in 1 .. Len(q), q[a].id = q[b].id, q[a].id # 0
      PROVE  a = b
  <2>1. q[a] # Fence /\ q[b] # Fence
    BY <1>3, <1>4
  <2>2. PICK i \in 1 .. Len(ls) : Origin(pass, ls, ids, q, a, i) /\ q[a].id = ls[i].id
    BY <1>2, <2>1
  <2>3. PICK k \in 1 .. Len(ls) : Origin(pass, ls, ids, q, b, k) /\ q[b].id = ls[k].id
    BY <1>2, <2>1
  <2>4. i = k
    BY <1>1, <1>4, <2>2, <2>3 DEF Shape
  <2> QED BY <2>2, <2>3, <2>4 DEF Origin
<1>5. ASSUME NEW j \in 1 .. Len(q), q[j].before # 0, Full(q, q[j].before)
      PROVE  Guards(q, j)
  <2>1. q[j] # Fence
    BY <1>3, <1>5
  <2>2. PICK i \in 1 .. Len(ls) : /\ Origin(pass, ls, ids, q, j, i)
                                  /\ q[j].id = ls[i].id /\ q[j].before = ls[i].before
    BY <1>2, <2>1
  <2>3. ls[i].before # 0 /\ Full(q, ls[i].before)
    BY <1>5, <2>2
  <2>4. Full(ls, ls[i].before)
    <3>1. PICK m \in 1 .. Len(ls) : ls[m].id = ls[i].before /\ ~ls[m].nopped
      <4>1. Survives(pass, ls, ids, ls[i].before)
        BY <1>0, <2>3, ReplayMonotone
      <4> QED BY <4>1, Zenon DEF Survives
    <3> QED BY <1>1, <3>1, Zenon DEF Full
  <2>5. Guards(ls, i) /\ (i \notin ids \/ pass \notin Deleting)
    BY <2>3, <2>4, ReplayKeepsGuards
  <2>6. i < Len(ls) /\ i + 1 \in 1 .. Len(ls) /\ (i + 1 \notin ids \/ pass \notin Deleting)
    BY <2>3, <2>5, NextSurvives
  <2> DEFINE k == i + 1
             l == ls[i]
             n == ls[k]
  <2>7. KeptIn(l, g[i]) /\ g[i][Len(g[i])].tag = l.tag
    <3>1. i \notin ids \/ pass \notin Deleting => KeptIn(l, g[i])
      BY <1>0, PieceOf
    <3>2. (i \notin ids /\ i + 1 \notin ids) \/ pass \notin Deleting
             => g[i][Len(g[i])].tag = l.tag
      BY <1>0, PieceOf
    <3> HIDE DEF g
    <3> QED BY <2>5, <2>6, <3>1, <3>2, Zenon
  <2>8. KeptIn(n, g[k])
    <3>1. k \in 1 .. Len(ls) /\ (k \notin ids \/ pass \notin Deleting)
      BY <2>6
    <3> HIDE DEF k
    <3> QED BY <1>0, <3>1, PieceOf
  <2>9. /\ j = Len(F[i]) /\ q[j] = g[i][Len(g[i])]
        /\ j + 1 \in 1 .. Len(q) /\ q[j + 1] = g[k][1]
    <3>1. Len(g[i]) > 0 /\ Len(g[k]) > 0
      BY <2>7, <2>8 DEF KeptIn
    <3>2. j = Len(F[i]) /\ q[j] = g[i][Len(g[i])]
      BY <2>2 DEF Origin
    <3>3. Len(F[i]) + 1 \in 1 .. Len(q) /\ q[Len(F[i]) + 1] = g[i + 1][1]
      BY <1>0, <2>6, <3>1, ReplayOrigins
    <3> QED BY <3>2, <3>3
  <2> HIDE DEF g, q, F, k
  <2>10. q[j].tag = l.tag /\ q[j].nopped = l.nopped /\ q[j].k = l.k /\ q[j].before = l.before
    BY <2>2, <2>7, <2>9 DEF KeptIn
  <2>11. n = Fence \/ l.before \in {n.id, n.before}
    BY <2>5 DEF Guards, k
  <2>12. q[j + 1] = Fence \/ q[j].before \in {q[j + 1].id, q[j + 1].before}
    BY <2>8, <2>9, <2>10, <2>11 DEF KeptIn
  <2>13. j < Len(q)
    BY <1>1, <2>9
  <2>14. l.tag /\ ~l.nopped /\ l.k \notin {"label", "byte"}
    BY <2>5, Zenon DEF Guards
  <2> HIDE DEF l
  <2>15. q[j].tag /\ ~q[j].nopped /\ q[j].k \notin {"label", "byte"}
    BY <2>10, <2>14, Zenon
  <2> QED BY <2>12, <2>13, <2>15, Zenon DEF Guards
<1> HIDE DEF g, q, F
<1> QED BY <1>1, <1>4, <1>5, Zenon DEF Shape, q

\* Removing labels keeps it too, and removes no instrumentation.
LEMMA WithoutLabelsShape ==
    ASSUME NEW p \in Seq(Line), Shape(p)
    PROVE  /\ Shape(WithoutLabels(p))
           /\ \A i \in 1 .. Len(p) : p[i].before # 0 /\ Full(p, p[i].before)
                 => Full(WithoutLabels(p), p[i].id)
<1> DEFINE q == WithoutLabels(p)
<1>1. PICK e : Selected(p, Kept(p), Len(p), q, e)
  BY WithoutLabelsFacts
<1> HIDE DEF q
<1>2. /\ q \in Seq(Line) /\ DOMAIN q = 1 .. Len(q) /\ DOMAIN p = 1 .. Len(p)
      /\ Len(p) \in Nat /\ Len(q) \in Nat
  BY <1>1 DEF Selected
<1>3. \A i \in 1 .. Len(q) : /\ q[i] = p[e[i]] /\ e[i] \in 1 .. Len(p) /\ e[i] \in Nat
                             /\ e[i] \in Kept(p)
  BY <1>1, <1>2 DEF Selected
<1>4. \A a, b \in 1 .. Len(q) : a < b => e[a] < e[b]
  BY <1>1 DEF Selected
<1>5. \A m \in 1 .. Len(p) : m \in Kept(p) => \E i \in 1 .. Len(q) : e[i] = m
  BY <1>1 DEF Selected
<1>6. ASSUME NEW m \in 1 .. Len(p), p[m].k \notin {"label", "byte"} PROVE m \in Kept(p)
  BY <1>6 DEF Kept, IsUnusedLabel
<1>7. ASSUME NEW id, Full(q, id) PROVE Full(p, id)
  <2>1. PICK a \in 1 .. Len(q) : q[a].id = id /\ ~q[a].nopped
    BY <1>2, <1>7, Zenon DEF Full
  <2> QED BY <1>2, <1>3, <2>1, Zenon DEF Full
<1>8. ASSUME NEW i \in 1 .. Len(p), p[i].before # 0, Full(p, p[i].before) PROVE Guards(p, i)
  BY <1>2, <1>8, Zenon DEF Shape
<1>9. ASSUME NEW i \in 1 .. Len(p), p[i].before # 0, Full(p, p[i].before) PROVE Full(q, p[i].id)
  <2>1. p[i].k \notin {"label", "byte"} /\ ~p[i].nopped
    BY <1>8, <1>9, Zenon DEF Guards
  <2>2. PICK a \in 1 .. Len(q) : e[a] = i
    BY <1>5, <1>6, <2>1
  <2>3. q[a] = p[i]
    BY <1>3, <2>2
  <2> QED BY <1>2, <2>1, <2>3, Zenon DEF Full
<1>10. ASSUME NEW a \in 1 .. Len(q), NEW b \in 1 .. Len(q), q[a].id = q[b].id, q[a].id # 0
       PROVE  a = b
  <2>1. e[a] = e[b]
    BY <1>2, <1>3, <1>10 DEF Shape
  <2>2. ~(a < b) /\ ~(b < a)
    BY <1>3, <1>4, <2>1
  <2> QED BY <1>2, <2>2
<1>11. ASSUME NEW a \in 1 .. Len(q), q[a].before # 0, Full(q, q[a].before) PROVE Guards(q, a)
  <2> DEFINE i == e[a]
             k == i + 1
             own == p[i].before
  <2>1. i \in 1 .. Len(p) /\ i \in Nat /\ q[a] = p[i] /\ own # 0 /\ Full(q, own)
    BY <1>3, <1>11
  <2>2. Full(p, own)
    BY <1>7, <2>1
  <2>3. Guards(p, i)
    BY <1>8, <2>1, <2>2
  <2>4. i < Len(p) /\ (p[k] = Fence \/ own = p[k].id \/ own = p[k].before)
    BY <2>3 DEF Guards
  <2>5. k \in 1 .. Len(p) /\ i < k /\ k \in Nat /\ \A x \in Nat : ~(i < x /\ x < k)
    BY <1>2, <2>1, <2>4
  <2> HIDE DEF k, i
  <2>6. k \in Kept(p)
    <3>1. CASE p[k] = Fence
      <4>1. p[k].k = "fence"
        BY <3>1 DEF Fence
      <4> QED BY <1>6, <2>5, <4>1
    <3>2. CASE own = p[k].id
      <4>1. PICK b \in 1 .. Len(q) : q[b].id = own
        BY <1>2, <2>1 DEF Full
      <4>2. e[b] = k
        BY <1>2, <1>3, <2>1, <2>5, <3>2, <4>1 DEF Shape
      <4> QED BY <1>3, <4>2
    <3>3. CASE own = p[k].before
      <4>1. Guards(p, k)
        BY <1>8, <2>1, <2>2, <2>5, <3>3
      <4>2. p[k].k \notin {"label", "byte"}
        BY <4>1 DEF Guards
      <4> QED BY <1>6, <2>5, <4>2
    <3> QED BY <2>4, <3>1, <3>2, <3>3
  <2>7. PICK b \in 1 .. Len(q) : e[b] = k
    BY <1>5, <2>5, <2>6
  <2>8. b = a + 1
    <3>1. ~(b < a) /\ b # a
      BY <1>3, <1>4, <2>5, <2>7 DEF i
    <3>2. ASSUME a + 1 < b PROVE FALSE
      <4>1. a + 1 \in 1 .. Len(q) /\ a < a + 1
        BY <1>2, <3>2
      <4>2. e[a] < e[a + 1] /\ e[a + 1] < e[b] /\ e[a + 1] \in Nat
        BY <1>3, <1>4, <3>2, <4>1
      <4> QED BY <2>5, <2>7, <4>2 DEF i
    <3> QED BY <1>2, <3>1, <3>2
  <2>9. q[a + 1] = p[k] /\ a < Len(q)
    BY <1>2, <1>3, <2>7, <2>8
  <2>10. q[a + 1] = Fence \/ q[a].before \in {q[a + 1].id, q[a + 1].before}
    BY <2>1, <2>4, <2>9
  <2>11. p[i].tag /\ ~p[i].nopped /\ p[i].k \notin {"label", "byte"}
    BY <2>3, Zenon DEF Guards
  <2>12. q[a].tag /\ ~q[a].nopped /\ q[a].k \notin {"label", "byte"}
    BY <2>1, <2>11, Zenon
  <2> QED BY <2>9, <2>10, <2>12, Zenon DEF Guards
<1>12. Shape(q)
  BY <1>2, <1>10, <1>11, Zenon DEF Shape
<1> QED BY <1>9, <1>12 DEF q

\* The lines that a pass could modify were not to be left alone.
ShapeInv == Shape(prog) /\ (stage = "loop" => \A i \in mods : ~IsSkipped(Head(passes), prog[i]))

LEMMA ShapeInit == Init => ShapeInv
<1> SUFFICES ASSUME Init PROVE ShapeInv
  OBVIOUS
<1>1. sc \in Scenarios /\ prog = sc.prog /\ stage = "reproduce"
  BY DEF Init
<1>2. Instrumented(prog)
  BY <1>1, MinimizerAssumption
<1>3. ASSUME NEW i \in DOMAIN prog, prog[i].before # 0 PROVE Guards(prog, i)
  BY <1>2, <1>3, Zenon DEF Instrumented, Guards
<1>4. Shape(prog)
  BY <1>2, <1>3 DEF Shape, Instrumented
<1> QED BY <1>1, <1>4 DEF ShapeInv

\* Inside a pass, the modified lines are ones it tried.
LEMMA ModsTried ==
    ASSUME ProgramInv, ShapeInv, stage = "loop"
    PROVE  Tried(Head(passes), prog, mods) /\ prog \in Seq(Line)
  BY DEF ProgramInv, ShapeInv, Follows, Tried

LEMMA ShapeStep == ProgramInv /\ ShapeInv /\ [Next]_vars => ShapeInv'
<1> SUFFICES ASSUME ProgramInv, ShapeInv, [Next]_vars PROVE ShapeInv'
  OBVIOUS
<1>1. CASE TryLine
  <2> DEFINE pass == Head(passes)
  <2>1. /\ stage = "loop" /\ prog' = prog /\ passes' = passes /\ cur > 1
        /\ \/ mods' = mods
           \/ mods' = mods \cup {cur} /\ ~IsSkipped(pass, work[cur])
    BY <1>1 DEF TryLine
  <2>2. Follows(pass, prog, mods, cur, work)
    BY <2>1 DEF ProgramInv
  <2>3. work[cur] = prog[cur]
    BY <2>1, <2>2 DEF Follows
  <2>4. \A i \in mods' : ~IsSkipped(pass, prog[i])
    BY <2>1, <2>3, Zenon DEF ShapeInv
  <2> HIDE DEF pass
  <2> QED BY <2>1, <2>4 DEF ShapeInv, pass
<1>2. CASE FinishPass
  <2>1. stage = "loop" /\ stage' = "next_pass" /\ prog' = Replay(Head(passes), prog, mods)
    BY <1>2 DEF FinishPass
  <2>2. Shape(prog')
    BY <2>1, ModsTried, ReplayShape DEF ShapeInv
  <2> QED BY <2>1, <2>2 DEF ShapeInv
<1>3. CASE RemoveLabels
  <2>1. stage' = "next_pass" /\ prog' = WithoutLabels(prog) /\ prog \in Seq(Line)
    BY <1>3 DEF RemoveLabels, ProgramInv
  <2>2. Shape(prog')
    BY <2>1, WithoutLabelsShape DEF ShapeInv
  <2> QED BY <2>1, <2>2 DEF ShapeInv
<1>4. CASE StartPass
  BY <1>4 DEF StartPass, ShapeInv
<1>5. CASE prog' = prog /\ stage' # "loop"
  BY <1>5 DEF ShapeInv
<1>6. CASE UNCHANGED vars
  BY <1>6 DEF vars, ShapeInv
<1>7. CASE Reproduce
  <2>1. prog' = prog /\ stage' # "loop"
    BY <1>7 DEF Reproduce, progVars
  <2> QED BY <1>5, <2>1
<1>8. CASE \/ StartInputPass \/ CheckInputPass \/ CheckNewInputs \/ HalveInputs \/ ShrinkInputs
           \/ NextBlock \/ ZeroBlock \/ ZeroWord \/ CopyWord
  BY <1>5, <1>8 DEF progVars, StartInputPass, CheckInputPass, CheckNewInputs, HalveInputs,
     ShrinkInputs, NextBlock, ZeroBlock, ZeroWord, CopyWord, StartShrinking, InputPassDone, Advance
<1>9. CASE SetIgnoreList \/ AddComments \/ NextAttempt
  BY <1>5, <1>9 DEF SetIgnoreList, AddComments, NextAttempt
<1> QED BY <1>1, <1>2, <1>3, <1>4, <1>6, <1>7, <1>8, <1>9 DEF Next

\* A step removes an instrumentation line only when what it protects is gone.
LEMMA GuardsGoLast ==
    ASSUME ProgramInv, ShapeInv, [Next]_vars, NEW i \in DOMAIN prog, prog[i].before # 0,
           Full(prog, prog[i].before)
    PROVE  Full(prog', prog[i].id)
<1>1. prog \in Seq(Line) /\ Shape(prog) /\ DOMAIN prog = 1 .. Len(prog)
  BY DEF ProgramInv, ShapeInv
<1>2. Guards(prog, i)
  BY <1>1, Zenon DEF Shape
<1>3. ~prog[i].nopped
  BY <1>2, Zenon DEF Guards
<1>4. CASE prog' = prog
  BY <1>3, <1>4, Zenon DEF Full
<1>5. CASE FinishPass
  <2> DEFINE pass == Head(passes)
             g == Pieces(pass, prog, mods)
             q == Replay(pass, prog, mods)
             j == Len(FlatFcn(g)[i])
  <2>1. stage = "loop" /\ prog' = q
    BY <1>5 DEF FinishPass
  <2>2. Tried(pass, prog, mods) /\ Modifiable(pass, prog, mods)
    BY <2>1, ModsTried DEF Tried
  <2>3. i \notin mods \/ pass \notin Deleting
    BY <1>1, <2>2, ReplayKeepsGuards
  <2>4. KeptIn(prog[i], g[i]) /\ DerivedFrom(prog[i], g[i])
    BY <1>1, <2>2, <2>3, PieceOf
  <2>5. Len(g[i]) > 0
    BY <2>4 DEF KeptIn
  <2>6. j \in 1 .. Len(q) /\ Origin(pass, prog, mods, q, j, i)
    BY <1>1, <2>2, <2>5, ReplayOrigins
  <2>7. q[j] = g[i][Len(g[i])]
    BY <2>6 DEF Origin
  <2>8. DOMAIN q = 1 .. Len(q)
    BY <1>1, <2>2, ReplayType
  <2> HIDE DEF g, q, j
  <2>9. q[j].id = prog[i].id /\ q[j].nopped = prog[i].nopped
    BY <2>4, <2>5, <2>7 DEF KeptIn, DerivedFrom
  <2>10. ~q[j].nopped
    BY <1>3, <2>9, Zenon
  <2> QED BY <2>1, <2>6, <2>8, <2>9, <2>10, Zenon DEF Full
<1>6. CASE RemoveLabels
  BY <1>1, <1>6, WithoutLabelsShape DEF RemoveLabels
<1>7. ASSUME Next, ~FinishPass, ~RemoveLabels PROVE prog' = prog
  BY <1>7 DEF Next, progVars, Reproduce, StartInputPass, CheckInputPass, CheckNewInputs,
     HalveInputs, ShrinkInputs, NextBlock, ZeroBlock, ZeroWord, CopyWord, SetIgnoreList,
     StartPass, TryLine, AddComments, NextAttempt
<1>8. UNCHANGED vars => prog' = prog
  BY DEF vars
<1> QED BY <1>4, <1>5, <1>6, <1>7, <1>8

\* No pass removes an instrumentation line, or makes a NOP of it, while the
\* instruction it was put before is in the program as it was given: for any
\* program with instrumentation before or behind what it protects, passes in
\* any order, and rounds that miss the violation.  For instrumentation in front
\* of what it protects, this is that the protection goes last.
THEOREM InstrumentationAlwaysLast == Spec => InstrumentationLast
<1>1. ASSUME ProgramInv, ProgramInv', ShapeInv, [Next]_vars
      PROVE  [\A i \in DOMAIN prog : prog[i].before # 0 /\ Level(prog', prog[i].id) < 2
                 => Level(prog, prog[i].before) < 2]_vars
  <2> SUFFICES ASSUME NEW i \in DOMAIN prog, prog[i].before # 0, Level(prog', prog[i].id) < 2
               PROVE  Level(prog, prog[i].before) < 2
    OBVIOUS
  <2>1. prog \in Seq(Line) /\ prog' \in Seq(Line)
    BY <1>1 DEF ProgramInv
  <2>2. ~Full(prog', prog[i].id)
    BY <2>1, LevelIsFull
  <2>3. ~Full(prog, prog[i].before)
    BY <1>1, <2>2, GuardsGoLast
  <2> QED BY <2>1, <2>3, LevelIsFull
<1> QED BY <1>1, ProgramInit, ProgramInvStep, ShapeInit, ShapeStep, PTL
        DEF Spec, InstrumentationLast

==============================================================================
