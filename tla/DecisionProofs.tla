---------------------------- MODULE DecisionProofs ----------------------------
(***************************************************************************)
(* What makeDecision may decide, for every ControlledJob and every list of *)
(* Jobs: lemmas about its parts, and the two facts exclusivity rests on.   *)
(***************************************************************************)
EXTENDS Decision, ScheduleProofs

Lists(N) == [N -> Job \cup {Nil}]

(***************************************************************************)
(* The comparison of names orders the names in N.                          *)
(***************************************************************************)
OrdersNames(N) ==
    /\ \A m, n \in N : m # n => NameGreater(m, n) \/ NameGreater(n, m)
    /\ \A k, m, n \in N : NameGreater(k, m) /\ NameGreater(m, n) => NameGreater(k, n)
    /\ \A n \in N : ~NameGreater(n, n)

-----------------------------------------------------------------------------
(***************************************************************************)
(* The comparison of names is a strict order: it never depends on the      *)
(* order of the list which Job is the best.  What a recursive function     *)
(* computes is proved by the least argument at which it would not.         *)
(***************************************************************************)
DigitsOf(f, n) == IF n < 10 THEN <<n>> ELSE Append(f[n \div 10], n % 10)
GivesDigits(f, k) == \A n \in 0 .. k : f[n] = DigitsOf(f, n)

\* A number without its last digit.
LEMMA Tenth ==
    ASSUME NEW n \in Nat, n >= 10
    PROVE  /\ n \div 10 \in Nat /\ n \div 10 < n
           /\ n % 10 \in 0 .. 9
           /\ n = 10 * (n \div 10) + (n % 10)
OBVIOUS

\* The digits of the numbers up to any bound exist.
LEMMA DigitsExist == \A k \in Nat : \E f : GivesDigits(f, k)
<1> DEFINE Bad == {k \in Nat : ~ \E f : GivesDigits(f, k)}
<1>1. SUFFICES ASSUME Bad # {} PROVE FALSE
  OBVIOUS
<1>2. PICK k \in Bad : \A j \in Bad : k =< j
  <2>1. Bad \subseteq Nat
    OBVIOUS
  <2> HIDE DEF Bad
  <2> QED  BY <1>1, <2>1, LeastNatural
<1>3. k \in Nat /\ ~ \E f : GivesDigits(f, k)
  OBVIOUS
<1>4. PICK f : \A n \in 0 .. k - 1 : f[n] = DigitsOf(f, n)
  <2>1. CASE k = 0
    BY <2>1
  <2>2. CASE k > 0
    <3>1. k - 1 \in Nat /\ k - 1 \notin Bad
      BY <1>2, <1>3, <2>2
    <3> QED  BY <3>1 DEF GivesDigits
  <2> QED  BY <1>3, <2>1, <2>2
<1> DEFINE g == [n \in 0 .. k |-> IF n = k THEN DigitsOf(f, k) ELSE f[n]]
<1>5. ASSUME NEW n \in 0 .. k PROVE g[n] = DigitsOf(g, n)
  <2>1. n \in Nat /\ (n < 10 \/ n \div 10 \in 0 .. k - 1)
    BY <1>3, Tenth
  <2>2. g[n] = DigitsOf(f, n)
    BY <1>3, <1>4
  <2>3. n >= 10 => g[n \div 10] = f[n \div 10]
    BY <1>3, <2>1
  <2> HIDE DEF g
  <2> QED  BY <2>1, <2>2, <2>3 DEF DigitsOf
<1> HIDE DEF g
<1>6. GivesDigits(g, k)
  BY <1>5 DEF GivesDigits
<1> QED  BY <1>3, <1>6

\* And there is one way to write them.
LEMMA DigitsAgree ==
    ASSUME NEW f, NEW g, NEW k \in Nat, NEW l \in Nat, GivesDigits(f, k), GivesDigits(g, l)
    PROVE  \A n \in Nat : n =< k /\ n =< l => f[n] = g[n]
<1> DEFINE Bad == {n \in Nat : n =< k /\ n =< l /\ f[n] # g[n]}
<1>1. SUFFICES ASSUME Bad # {} PROVE FALSE
  OBVIOUS
<1>2. PICK n \in Bad : \A j \in Bad : n =< j
  <2>1. Bad \subseteq Nat
    OBVIOUS
  <2> HIDE DEF Bad
  <2> QED  BY <1>1, <2>1, LeastNatural
<1>3. n \in Nat /\ n =< k /\ n =< l /\ f[n] # g[n]
  OBVIOUS
<1>4. n >= 10 => f[n \div 10] = g[n \div 10]
  <2> SUFFICES ASSUME n >= 10 PROVE f[n \div 10] = g[n \div 10]
    OBVIOUS
  <2>1. n \div 10 \in Nat /\ n \div 10 =< k /\ n \div 10 =< l /\ ~(n =< n \div 10)
    BY <1>3, Tenth
  <2> QED  BY <1>2, <2>1
<1> HIDE DEF Bad
<1>5. f[n] = DigitsOf(f, n) /\ g[n] = DigitsOf(g, n)
  BY <1>3 DEF GivesDigits
<1>6. CASE n < 10
  BY <1>3, <1>5, <1>6 DEF DigitsOf
<1>7. CASE n >= 10
  BY <1>3, <1>4, <1>5, <1>7 DEF DigitsOf
<1> QED  BY <1>3, <1>6, <1>7

\* So Digits does what its definition says.
LEMMA DigitsUnfold ==
    /\ \A n \in Nat : n < 10 => Digits[n] = <<n>>
    /\ \A n \in Nat : n >= 10 => Digits[n] = Append(Digits[n \div 10], n % 10)
<1> DEFINE Solves(d) == d = [n \in Nat |-> IF n < 10 THEN <<n>>
                                           ELSE Append(d[n \div 10], n % 10)]
           upTo(k) == CHOOSE f : GivesDigits(f, k)
           d == [n \in Nat |-> upTo(n)[n]]
<1>1. \A k \in Nat : GivesDigits(upTo(k), k)
  BY DigitsExist
<1> HIDE DEF upTo
<1>2. ASSUME NEW n \in Nat, NEW k \in Nat, n =< k PROVE d[n] = upTo(k)[n]
  <2>1. GivesDigits(upTo(n), n) /\ GivesDigits(upTo(k), k) /\ n =< n
    BY <1>1
  <2>2. upTo(n)[n] = upTo(k)[n]
    BY <1>2, <2>1, DigitsAgree
  <2> QED  BY <2>2
<1>3. ASSUME NEW n \in Nat PROVE d[n] = DigitsOf(d, n)
  <2>1. d[n] = DigitsOf(upTo(n), n)
    BY <1>1, n \in 0 .. n DEF GivesDigits
  <2>2. n >= 10 => d[n \div 10] = upTo(n)[n \div 10]
    BY <1>2, Tenth
  <2> HIDE DEF d
  <2> QED  BY <2>1, <2>2 DEF DigitsOf
<1>4. Solves(d)
  <2>1. d = [n \in Nat |-> d[n]]
    OBVIOUS
  <2> HIDE DEF d
  <2> QED  BY <1>3, <2>1 DEF DigitsOf
<1>5. Digits = CHOOSE e : Solves(e)
  BY DEF Digits
<1>6. Solves(Digits)
  <2> HIDE DEF Solves
  <2> QED  BY <1>4, <1>5
<1>7. \A n \in Nat : Digits[n] = IF n < 10 THEN <<n>> ELSE Append(Digits[n \div 10], n % 10)
  BY <1>6
<1>8. \A n \in Nat : n < 10 => Digits[n] = <<n>>
  BY <1>7
<1>9. ASSUME NEW n \in Nat, n >= 10 PROVE Digits[n] = Append(Digits[n \div 10], n % 10)
  <2>1. ~(n < 10)
    BY <1>9
  <2> QED  BY <1>7, <2>1, Zenon
<1> QED  BY <1>8, <1>9

\* A number is written with digits, at least one.
LEMMA DigitsType == \A n \in Nat : Digits[n] \in Seq(0 .. 9) /\ Len(Digits[n]) > 0
<1> DEFINE Bad == {n \in Nat : ~(Digits[n] \in Seq(0 .. 9) /\ Len(Digits[n]) > 0)}
<1>1. SUFFICES ASSUME Bad # {} PROVE FALSE
  OBVIOUS
<1>2. PICK n \in Bad : \A j \in Bad : n =< j
  <2>1. Bad \subseteq Nat
    OBVIOUS
  <2> HIDE DEF Bad
  <2> QED  BY <1>1, <2>1, LeastNatural
<1>3. n \in Nat /\ ~(Digits[n] \in Seq(0 .. 9) /\ Len(Digits[n]) > 0)
  OBVIOUS
<1>4. CASE n < 10
  <2>1. Digits[n] = <<n>> /\ n \in 0 .. 9
    BY <1>3, <1>4, DigitsUnfold
  <2>2. <<n>> \in Seq(0 .. 9) /\ Len(<<n>>) = 1
    BY <2>1
  <2> QED  BY <1>3, <2>1, <2>2
<1>5. CASE n >= 10
  <2>1. n \div 10 \in Nat /\ n \div 10 < n /\ n % 10 \in 0 .. 9
    BY <1>3, <1>5, Tenth
  <2>2. Digits[n \div 10] \in Seq(0 .. 9)
    BY <1>2, <1>3, <2>1
  <2>3. Digits[n] = Append(Digits[n \div 10], n % 10)
    BY <1>3, <1>5, DigitsUnfold
  <2> HIDE DEF Bad
  <2> QED  BY <1>3, <2>1, <2>2, <2>3
<1> HIDE DEF Bad
<1> QED  BY <1>3, <1>4, <1>5

\* Two numbers are not written alike.
LEMMA DigitsDiffer == \A m, n \in Nat : Digits[m] = Digits[n] => m = n
<1> DEFINE Bad == {m \in Nat : \E n \in Nat : Digits[m] = Digits[n] /\ m # n}
<1>1. SUFFICES ASSUME Bad # {} PROVE FALSE
  OBVIOUS
<1>2. PICK m \in Bad : \A j \in Bad : m =< j
  <2>1. Bad \subseteq Nat
    OBVIOUS
  <2> HIDE DEF Bad
  <2> QED  BY <1>1, <2>1, LeastNatural
<1>3. PICK n \in Nat : m \in Nat /\ Digits[m] = Digits[n] /\ m # n
  OBVIOUS
<1>4. ASSUME NEW i \in Nat, i < 10 PROVE Digits[i] = <<i>> /\ Len(Digits[i]) = 1
  <2>1. Digits[i] = <<i>>
    BY <1>4, DigitsUnfold
  <2> QED  BY <2>1
<1>5. ASSUME NEW i \in Nat, i >= 10
      PROVE  /\ Digits[i] = Append(Digits[i \div 10], i % 10)
             /\ Len(Digits[i]) > 1
  <2>1. Digits[i] = Append(Digits[i \div 10], i % 10)
    BY <1>5, DigitsUnfold
  <2>2. Digits[i \div 10] \in Seq(0 .. 9) /\ Len(Digits[i \div 10]) > 0
    BY <1>5, Tenth, DigitsType
  <2> QED  BY <2>1, <2>2
<1>6. m >= 10 /\ n >= 10
  <2>1. CASE m < 10 /\ n < 10
    BY <1>3, <1>4, <2>1
  <2>2. CASE m < 10 /\ n >= 10
    <3>1. Len(Digits[m]) = 1 /\ Len(Digits[n]) > 1
      BY <1>3, <1>4, <1>5, <2>2
    <3> QED  BY <1>3, <3>1
  <2>3. CASE m >= 10 /\ n < 10
    <3>1. Len(Digits[m]) > 1 /\ Len(Digits[n]) = 1
      BY <1>3, <1>4, <1>5, <2>3
    <3> QED  BY <1>3, <3>1
  <2> QED  BY <1>3, <2>1, <2>2, <2>3
<1>7. Digits[m \div 10] = Digits[n \div 10] /\ m % 10 = n % 10
  <2> DEFINE p == Digits[m \div 10]
             q == Digits[n \div 10]
  <2>1. p \in Seq(0 .. 9) /\ q \in Seq(0 .. 9) /\ m % 10 \in 0 .. 9 /\ n % 10 \in 0 .. 9
    BY <1>3, <1>6, Tenth, DigitsType
  <2>2. Append(p, m % 10) = Append(q, n % 10)
    BY <1>3, <1>5, <1>6
  <2> HIDE DEF p, q
  <2>3. p = q /\ m % 10 = n % 10
    BY <2>1, <2>2
  <2> QED  BY <2>3 DEF p, q
<1>8. m \div 10 # n \div 10
  BY <1>3, <1>6, <1>7, Tenth
<1>9. m \div 10 \in Bad /\ m \div 10 < m
  BY <1>3, <1>6, <1>7, <1>8, Tenth
<1> HIDE DEF Bad
<1> QED  BY <1>2, <1>3, <1>9

\* Of two different sequences of numbers one is the greater.
LEMMA LexGreaterIsTotal ==
    ASSUME NEW s \in Seq(Int), NEW t \in Seq(Int), s # t
    PROVE  LexGreater(s, t) \/ LexGreater(t, s)
<1> DEFINE same(i) == i \in DOMAIN s /\ i \in DOMAIN t /\ s[i] = t[i]
           Bad == {i \in Nat : i > 0 /\ ~same(i)}
<1>1. Len(s) \in Nat /\ DOMAIN s = 1 .. Len(s) /\ Len(t) \in Nat /\ DOMAIN t = 1 .. Len(t)
  OBVIOUS
<1>2. PICK i \in Bad : \A j \in Bad : i =< j
  <2>1. Bad \subseteq Nat
    OBVIOUS
  <2>2. Len(s) + 1 \in Bad
    BY <1>1
  <2> HIDE DEF Bad
  <2> QED  BY <2>1, <2>2, LeastNatural
<1>3. i \in Nat /\ i > 0 /\ ~same(i)
  OBVIOUS
<1>4. \A k \in 1 .. i - 1 : same(k)
  <2> SUFFICES ASSUME NEW k \in 1 .. i - 1, ~same(k) PROVE FALSE
    OBVIOUS
  <2>1. k \in Bad /\ ~(i =< k)
    BY <1>3
  <2> QED  BY <1>2, <2>1
<1> HIDE DEF Bad
<1>5. CASE i \in DOMAIN s /\ i \notin DOMAIN t
  BY <1>4, <1>5 DEF LexGreater
<1>6. CASE i \notin DOMAIN s /\ i \in DOMAIN t
  BY <1>4, <1>6 DEF LexGreater
<1>7. CASE i \in DOMAIN s /\ i \in DOMAIN t
  <2>1. s[i] > t[i] \/ t[i] > s[i]
    <3>1. s[i] \in Int /\ t[i] \in Int /\ s[i] # t[i]
      BY <1>3, <1>7
    <3> QED  BY <3>1
  <2> QED  BY <1>4, <1>7, <2>1 DEF LexGreater
<1>8. CASE i \notin DOMAIN s /\ i \notin DOMAIN t
  <2>1. Len(s) < i /\ Len(t) < i
    BY <1>1, <1>3, <1>8
  <2>2. \A k \in 1 .. i - 1 : k =< Len(s) /\ k =< Len(t) /\ s[k] = t[k]
    BY <1>1, <1>4
  <2>3. Len(s) = i - 1 /\ Len(t) = i - 1
    <3>1. CASE i = 1
      BY <1>1, <2>1, <3>1
    <3>2. CASE i > 1
      <4>1. i - 1 \in 1 .. i - 1
        BY <1>3, <3>2
      <4> QED  BY <1>1, <1>3, <2>1, <2>2, <4>1
    <3> QED  BY <1>3, <3>1, <3>2
  <2> HIDE DEF same
  <2> QED  BY <2>2, <2>3
<1> QED  BY <1>5, <1>6, <1>7, <1>8

\* A greater sequence than a greater one is greater.
LEMMA LexGreaterIsTransitive ==
    ASSUME NEW r \in Seq(Int), NEW s \in Seq(Int), NEW t \in Seq(Int),
           LexGreater(r, s), LexGreater(s, t)
    PROVE  LexGreater(r, t)
<1>1. PICK i \in DOMAIN r : /\ \A k \in 1 .. i - 1 : k \in DOMAIN s /\ r[k] = s[k]
                            /\ i \in DOMAIN s => r[i] > s[i]
  BY DEF LexGreater
<1>2. PICK j \in DOMAIN s : /\ \A k \in 1 .. j - 1 : k \in DOMAIN t /\ s[k] = t[k]
                            /\ j \in DOMAIN t => s[j] > t[j]
  BY DEF LexGreater
<1>3. /\ i \in Nat /\ i > 0 /\ j \in Nat /\ j > 0
      /\ \A k \in 1 .. j : k \in DOMAIN s
      /\ \A k \in 1 .. i : k \in DOMAIN r
  OBVIOUS
<1>4. \A k \in Nat : /\ k \in DOMAIN r => r[k] \in Int
                     /\ k \in DOMAIN s => s[k] \in Int
                     /\ k \in DOMAIN t => t[k] \in Int
  OBVIOUS
<1>5. CASE i < j
  <2>1. ASSUME NEW k \in 1 .. i - 1 PROVE k \in DOMAIN t /\ r[k] = t[k]
    <3>1. k \in 1 .. j - 1
      BY <1>3, <1>5
    <3> QED  BY <1>1, <1>2, <3>1
  <2>2. i \in DOMAIN t /\ s[i] = t[i] /\ i \in DOMAIN s
    BY <1>2, <1>3, <1>5
  <2> QED  BY <1>1, <2>1, <2>2 DEF LexGreater
<1>6. CASE i = j
  <2>1. \A k \in 1 .. i - 1 : k \in DOMAIN t /\ r[k] = t[k]
    BY <1>1, <1>2, <1>6
  <2>2. i \in DOMAIN t => r[i] > t[i]
    BY <1>1, <1>2, <1>3, <1>4, <1>6
  <2> QED  BY <2>1, <2>2 DEF LexGreater
<1>7. CASE j < i
  <2>1. \A k \in 1 .. j - 1 : k \in DOMAIN t /\ r[k] = t[k]
    BY <1>1, <1>2, <1>3, <1>7
  <2>2. j \in DOMAIN r /\ r[j] = s[j]
    <3>1. j \in 1 .. i /\ j \in 1 .. i - 1
      BY <1>3, <1>7
    <3> QED  BY <1>1, <1>3, <3>1
  <2> QED  BY <1>2, <2>1, <2>2 DEF LexGreater
<1> QED  BY <1>3, <1>5, <1>6, <1>7

(***************************************************************************)
(* The comparison of names (isBetterCandidateJob, decision.go:458-475)     *)
(* puts the Jobs of a ControlledJob in an order, whatever their starts and *)
(* run ids: of two names one is greater, no name is greater than itself,   *)
(* and being greater is transitive.                                        *)
(* So the best candidate exists, and does not depend on the random order   *)
(* of the cache's list.                                                    *)
(***************************************************************************)
THEOREM NamesAreOrdered ==
    ASSUME NEW N, N \subseteq Int \X Nat
    PROVE  OrdersNames(N)
<1>1. \A n \in N : n[1] \in Int /\ n[2] \in Nat /\ n = <<n[1], n[2]>>
  OBVIOUS
<1>2. \A i \in Nat : Digits[i] \in Seq(Int)
  <2> SUFFICES ASSUME NEW i \in Nat PROVE Digits[i] \in Seq(Int)
    OBVIOUS
  <2>1. Digits[i] \in Seq(0 .. 9)
    BY DigitsType
  <2> QED  BY <2>1
<1>3. ASSUME NEW m \in N, NEW n \in N, m # n
      PROVE  NameGreater(m, n) \/ NameGreater(n, m)
  <2>1. CASE m[1] # n[1]
    BY <1>1, <2>1 DEF NameGreater
  <2>2. CASE m[1] = n[1]
    <3>1. m[2] # n[2]
      BY <1>1, <1>3, <2>2
    <3>2. Digits[m[2]] # Digits[n[2]]
      BY <1>1, <3>1, DigitsDiffer
    <3> QED  BY <1>1, <1>2, <2>2, <3>2, LexGreaterIsTotal DEF NameGreater
  <2> QED  BY <2>1, <2>2
<1>4. ASSUME NEW k \in N, NEW m \in N, NEW n \in N, NameGreater(k, m), NameGreater(m, n)
      PROVE  NameGreater(k, n)
  <2>1. k[1] >= m[1] /\ m[1] >= n[1]
    BY <1>1, <1>4 DEF NameGreater
  <2>2. CASE k[1] > m[1] \/ m[1] > n[1]
    BY <1>1, <2>1, <2>2 DEF NameGreater
  <2>3. CASE k[1] = m[1] /\ m[1] = n[1]
    <3>1. LexGreater(Digits[k[2]], Digits[m[2]]) /\ LexGreater(Digits[m[2]], Digits[n[2]])
      BY <1>1, <1>4, <2>3 DEF NameGreater
    <3>2. LexGreater(Digits[k[2]], Digits[n[2]])
      BY <1>1, <1>2, <3>1, LexGreaterIsTransitive
    <3> QED  BY <2>3, <3>2 DEF NameGreater
  <2> QED  BY <1>1, <2>1, <2>2, <2>3
<1>5. ASSUME NEW n \in N, NameGreater(n, n) PROVE FALSE
  <2> DEFINE s == Digits[n[2]]
  <2>1. s \in Seq(Int)
    BY <1>1, <1>2
  <2>2. LexGreater(s, s)
    BY <1>1, <1>5 DEF NameGreater
  <2> HIDE DEF s
  <2>3. PICK i \in DOMAIN s : s[i] > s[i]
    BY <2>2 DEF LexGreater
  <2> QED  BY <2>1, <2>3
<1> QED  BY <1>3, <1>4, <1>5 DEF OrdersNames

\* As long as run ids have one digit, the greater name is the later run.
LEMMA ShortNamesCompare ==
    ASSUME NEW m \in Int \X (0 .. 9), NEW n \in Int \X (0 .. 9), NameGreater(m, n)
    PROVE  m[1] > n[1] \/ (m[1] = n[1] /\ m[2] > n[2])
<1>1. m[2] \in 0 .. 9 /\ n[2] \in 0 .. 9
  OBVIOUS
<1>2. Digits[m[2]] = <<m[2]>> /\ Digits[n[2]] = <<n[2]>>
  BY <1>1, DigitsUnfold
<1>3. ASSUME LexGreater(<<m[2]>>, <<n[2]>>) PROVE m[2] > n[2]
  <2>1. PICK i \in DOMAIN <<m[2]>> : i \in DOMAIN <<n[2]>> => <<m[2]>>[i] > <<n[2]>>[i]
    BY <1>3 DEF LexGreater
  <2>2. i = 1
    OBVIOUS
  <2> QED  BY <2>1, <2>2
<1> QED  BY <1>2, <1>3 DEF NameGreater

-----------------------------------------------------------------------------
\* A list over finitely many names holds finitely many Jobs.
LEMMA ListsAreFinite ==
    ASSUME NEW N, IsFiniteSet(N), NEW V \in Lists(N)
    PROVE  /\ AllJobs(V) \subseteq N
           /\ \A n \in AllJobs(V) : V[n] \in Job
           /\ IsFiniteSet(AllJobs(V)) /\ IsFiniteSet(PotentiallyRunning(V))
<1>1. AllJobs(V) \subseteq N /\ PotentiallyRunning(V) \subseteq N
  BY DEF AllJobs, PotentiallyRunning, Lists
<1>2. \A n \in AllJobs(V) : V[n] \in Job
  BY DEF AllJobs, Lists
<1> QED  BY <1>1, <1>2, FS_Subset

\* The next run id is a natural number larger than every run id in the list.
LEMMA NextRunIdIsNew ==
    ASSUME NEW N, IsFiniteSet(N), NEW V \in Lists(N)
    PROVE  /\ NextRunId(V) \in Nat
           /\ \A n \in AllJobs(V) : V[n].runId # Nil => V[n].runId < NextRunId(V)
<1> DEFINE readable == {m \in AllJobs(V) : V[m].runId # Nil}
           ids == {V[n].runId : n \in readable}
           f == [n \in readable |-> V[n].runId]
<1>1. ids \subseteq Nat
  BY ListsAreFinite DEF Job
<1>2. IsFiniteSet(ids)
  <2>1. IsFiniteSet(readable)
    BY ListsAreFinite, FS_Subset
  <2>2. f \in Surjection(readable, ids)
    BY DEF Surjection
  <2> QED  BY <2>1, <2>2, FS_Surjection
<1>3. IsFiniteSet({-1} \cup ids)
  BY <1>2, FS_AddElement, {-1} \cup ids = ids \cup {-1}
<1>4. {-1} \cup ids \in SUBSET Int /\ -1 \in {-1} \cup ids
  BY <1>1
<1> DEFINE largest == Max({-1} \cup ids)
<1>5. largest \in {-1} \cup ids /\ \A x \in {-1} \cup ids : largest >= x
  BY <1>3, <1>4, MaxOfIntegers
<1>6. largest \in Int /\ largest >= -1
  BY <1>4, <1>5
<1>7. \A n \in AllJobs(V) : V[n].runId # Nil => V[n].runId =< largest /\ V[n].runId \in Int
  <2> SUFFICES ASSUME NEW n \in AllJobs(V), V[n].runId # Nil
               PROVE  V[n].runId =< largest /\ V[n].runId \in Int
    OBVIOUS
  <2>1. V[n].runId \in ids
    OBVIOUS
  <2> HIDE DEF ids, largest
  <2>2. V[n].runId \in Nat
    BY <1>1, <2>1
  <2>3. largest >= V[n].runId
    BY <1>5, <2>1
  <2> QED  BY <1>6, <2>2, <2>3
<1>8. NextRunId(V) = largest + 1
  BY DEF NextRunId
<1> HIDE DEF largest
<1> QED  BY <1>6, <1>7, <1>8

\* Among some Jobs of the list one is a better candidate than all others.
LEMMA BestJobExists ==
    ASSUME NEW N, IsFiniteSet(N), OrdersNames(N), NEW V \in Lists(N), NEW st,
           NEW C, C \subseteq AllJobs(V), C # {}
    PROVE  \E n \in C : \A m \in C \ {n} : isBetterCandidateJob(st, V, n, m)
<1> DEFINE R == {p \in C \X C : isBetterCandidateJob(st, V, p[1], p[2])}
<1>1. C \subseteq N /\ IsFiniteSet(C)
  BY ListsAreFinite, FS_Subset
<1>2. \A n \in C : V[n].deleting \in BOOLEAN
  BY ListsAreFinite DEF Job
<1>3. \A m, n \in C : m # n => <<m, n>> \in R \/ <<n, m>> \in R
  BY <1>1, <1>2 DEF isBetterCandidateJob, OrdersNames
<1>4. \A k, m, n \in C : <<k, m>> \in R /\ <<m, n>> \in R => <<k, n>> \in R
  BY <1>1, <1>2 DEF isBetterCandidateJob, OrdersNames
<1>5. PICK n \in C : \A m \in C \ {n} : <<n, m>> \in R
  <2> HIDE DEF R
  <2> QED  BY <1>1, <1>3, <1>4, FirstOfFiniteSet
<1> QED  BY <1>5

\* The best candidate is one of the Jobs that have not expired.
LEMMA BestCandidateIsBest ==
    ASSUME NEW N, IsFiniteSet(N), OrdersNames(N), NEW V \in Lists(N), NEW st,
           NonExpiredJobs(st, V) # {}
    PROVE  /\ BestCandidate(st, V) \in NonExpiredJobs(st, V)
           /\ \A m \in NonExpiredJobs(st, V) \ {BestCandidate(st, V)} :
                 isBetterCandidateJob(st, V, BestCandidate(st, V), m)
<1> DEFINE C == NonExpiredJobs(st, V)
<1>1. \E n \in C : \A m \in C \ {n} : isBetterCandidateJob(st, V, n, m)
  BY BestJobExists DEF NonExpiredJobs
<1> HIDE DEF C
<1>2. BestCandidate(st, V) = CHOOSE n \in C : \A m \in C \ {n} : isBetterCandidateJob(st, V, n, m)
  BY DEF BestCandidate, C
<1> QED  BY <1>1, <1>2 DEF C

\* The chosen Job, if any, is in the list.
LEMMA BestCandidateExists ==
    ASSUME NEW N, IsFiniteSet(N), OrdersNames(N), NEW V \in Lists(N), NEW st
    PROVE  ExistingChoice(st, V) \in AllJobs(V) \cup {Nil}
<1>1. CASE NonExpiredJobs(st, V) = {}
  BY <1>1 DEF ExistingChoice, BestCandidate
<1>2. CASE NonExpiredJobs(st, V) # {}
  BY <1>2, BestCandidateIsBest DEF ExistingChoice, NonExpiredJobs
<1> QED  BY <1>1, <1>2

(***************************************************************************)
(* Exclusivity, the decision's half of it (decision.go:306-317).  A Job is *)
(* created ready to run only when no Job of the list may be running, and   *)
(* one is unsuspended only when no other may be.  Never both.              *)
(***************************************************************************)
THEOREM CreatedHotOnlyWhenAlone ==
    ASSUME NEW N, IsFiniteSet(N), NEW V \in Lists(N),
           NEW st, JobToCreate(st, V) # Nil
    PROVE  /\ JobToUnsuspend(st, V) = Nil
           /\ ~JobToCreate(st, V).job.completed
           /\ ~JobToCreate(st, V).job.suspended => PotentiallyRunning(V) = {}
<1>1. MustCreate(st, V)
  BY DEF JobToCreate, MustCreate
<1>2. JobToUnsuspend(st, V) = Nil
  BY <1>1 DEF JobToUnsuspend
<1>3. /\ ~JobToCreate(st, V).job.completed
      /\ ~JobToCreate(st, V).job.suspended => NumberOfPotentiallyRunningJobs(st, V) = 1
  BY <1>1 DEF JobToCreate, MustCreate, RecreateJobWithNewSpec, BuildForControlledJob, buildJob
<1>4. NumberOfPotentiallyRunningJobs(st, V) = Cardinality(PotentiallyRunning(V)) + 1
  BY <1>1 DEF NumberOfPotentiallyRunningJobs
<1>5. IsFiniteSet(PotentiallyRunning(V)) /\ Cardinality(PotentiallyRunning(V)) \in Nat
  BY ListsAreFinite, FS_CardinalityType
<1>6. Cardinality(PotentiallyRunning(V)) = 0 => PotentiallyRunning(V) = {}
  BY <1>5, FS_EmptySet
<1> HIDE DEF JobToCreate
<1> QED  BY <1>2, <1>3, <1>4, <1>5, <1>6

(***************************************************************************)
(* The other half: the Job makeDecision unsuspends (decision.go:317-330)   *)
(* is a Job of the list and no other Job of the list may be running; and   *)
(* then it creates none.                                                   *)
(***************************************************************************)
THEOREM UnsuspendedOnlyWhenAlone ==
    ASSUME NEW N, IsFiniteSet(N), NEW V \in Lists(N), NEW st,
           JobToUnsuspend(st, V) # Nil, JobToUnsuspend(st, V) \in N
    PROVE  LET h == JobToUnsuspend(st, V)
           IN  /\ V[h].suspended /\ ~V[h].deleting /\ ~WasJobStoppedByTheUser(V[h])
               /\ h \in PotentiallyRunning(V) => PotentiallyRunning(V) = {h}
<1> DEFINE h == JobToUnsuspend(st, V)
<1>1. /\ NumberOfPotentiallyRunningJobs(st, V) = 1 /\ ~MustCreate(st, V)
      /\ V[h].suspended /\ ~V[h].deleting /\ ~WasJobStoppedByTheUser(V[h])
  BY DEF JobToUnsuspend
<1>2. Cardinality(PotentiallyRunning(V)) = 1
  <2>1. Cardinality(PotentiallyRunning(V)) \in Nat
    BY ListsAreFinite, FS_CardinalityType
  <2> QED  BY <1>1, <2>1 DEF NumberOfPotentiallyRunningJobs
<1>3. \E x : PotentiallyRunning(V) = {x}
  BY <1>2, ListsAreFinite, FS_Singleton
<1> HIDE DEF h
<1>4. h \in PotentiallyRunning(V) => PotentiallyRunning(V) = {h}
  BY <1>3
<1> QED  BY <1>1, <1>4 DEF h

(***************************************************************************)
(* The decision has the shape the reconciler expects.                      *)
(***************************************************************************)
LEMMA JobToCreateType ==
    ASSUME NEW N, IsFiniteSet(N), NEW V \in Lists(N), NEW st,
           ExistingChoice(st, V) \in AllJobs(V) \cup {Nil},
           st.desiredHash \in Hashes,
           st.shouldBeRunning => st.startOfCurrentRunPeriod \in Int,
           NEW now, NEW buildFails, ~DecisionFails(st, V, now, buildFails)
    PROVE  /\ JobToCreate(st, V) \in [name : Int \X Nat, job : Job] \cup {Nil}
           /\ MustCreate(st, V) => JobToCreate(st, V) \in [name : Int \X Nat, job : Job]
<1> DEFINE old == ExistingChoice(st, V)
           suspended == NumberOfPotentiallyRunningJobs(st, V) # 1
<1>1. NextRunId(V) \in Nat
  BY NextRunIdIsNew
<1>2. suspended \in BOOLEAN
  OBVIOUS
<1>3. CASE MustRecreate(st, V)
  <2>1. V[old] \in Job /\ V[old].start # Nil
    BY <1>3, ListsAreFinite DEF MustRecreate, DecisionFails
  <2>2. V[old].start \in Int /\ V[old].manual \in BOOLEAN
    BY <2>1 DEF Job
  <2>3. RecreateJobWithNewSpec(V[old], st.desiredHash, NextRunId(V), suspended) \in Job
    BY <1>1, <1>2, <2>2 DEF RecreateJobWithNewSpec, buildJob, Job
  <2>4. JobName(V[old].start, NextRunId(V)) \in Int \X Nat
    BY <1>1, <2>2 DEF JobName
  <2> QED  BY <1>3, <2>3, <2>4 DEF JobToCreate
<1>4. CASE ~MustRecreate(st, V) /\ MustStart(st, V)
  <2>1. st.startOfCurrentRunPeriod \in Int
    BY <1>4 DEF MustStart
  <2>2. BuildForControlledJob(st.desiredHash, st.startOfCurrentRunPeriod, 0, FALSE, suspended)
           \in Job
    BY <1>2, <2>1 DEF BuildForControlledJob, buildJob, Job
  <2>3. JobName(st.startOfCurrentRunPeriod, 0) \in Int \X Nat
    BY <2>1 DEF JobName
  <2> QED  BY <1>4, <2>2, <2>3 DEF JobToCreate
<1>5. CASE ~MustRecreate(st, V) /\ ~MustStart(st, V)
  BY <1>5 DEF JobToCreate, MustCreate
<1> QED  BY <1>3, <1>4, <1>5

\* The Job to unsuspend is one of the list: the list has no Job named Nil.
LEMMA ChosenJobExists ==
    ASSUME NEW N, IsFiniteSet(N), OrdersNames(N), NEW V \in Lists(N), NEW st,
           JobToUnsuspend(st, V) # Nil
    PROVE  V[JobToUnsuspend(st, V)] # Nil
<1>1. ExistingChoice(st, V) \in AllJobs(V) \cup {Nil}
  BY BestCandidateExists
<1> QED  BY <1>1 DEF JobToUnsuspend, AllJobs

\* buildState returns times, or Nil where there is none.
LEMMA buildStateType ==
    ASSUME NEW spec \in ControlledJobSpec, NEW now \in Int
    PROVE  LET st == buildState(spec, now)
           IN  /\ st.error \in BOOLEAN
               /\ st.isSuspended \in BOOLEAN
               /\ st.desiredHash \in Hashes
               /\ st.shouldBeRunning => st.startOfCurrentRunPeriod \in Int
               /\ st.nextEventTime \in Int \cup {Nil}
<1>1. /\ spec.events \in Seq(EventSpec) /\ spec.offset \in Int
      /\ spec.hash \in Hashes /\ spec.suspend \in BOOLEAN /\ spec.timezoneValid \in BOOLEAN
  BY DEF ControlledJobSpec
<1>2. /\ StateFor(spec.events, now, spec.offset).nextEventTime \in Int \cup {Nil}
      /\ StateFor(spec.events, now, spec.offset).startOfCurrentRunPeriod \in Int \cup {Nil}
  BY <1>1, StateForTypes
<1>3. ScheduleError(spec.timezoneValid, spec.events, now, spec.offset) \in BOOLEAN
  BY <1>1 DEF ScheduleError
<1> HIDE DEF StateFor
<1> QED  BY <1>1, <1>2, <1>3 DEF buildState

\* makeDecision names Jobs of the list, and at most one new Job.
LEMMA makeDecisionType ==
    ASSUME NEW N, IsFiniteSet(N), Nil \notin N, OrdersNames(N), NEW V \in Lists(N),
           NEW spec \in ControlledJobSpec, NEW now \in Int, NEW buildFails \in BOOLEAN
    PROVE  makeDecision(buildState(spec, now), V, now, buildFails)
              \in [expired : SUBSET N, surplus : SUBSET N,
                   create : [name : Int \X Nat, job : Job] \cup {Nil},
                   unsuspend : N \cup {Nil}, requeueAt : Int \cup {Nil}, fails : BOOLEAN]
<1> DEFINE st == buildState(spec, now)
<1>1. /\ st.error \in BOOLEAN /\ st.isSuspended \in BOOLEAN /\ st.desiredHash \in Hashes
      /\ st.shouldBeRunning => st.startOfCurrentRunPeriod \in Int
      /\ st.nextEventTime \in Int \cup {Nil}
  BY buildStateType
<1> HIDE DEF st
<1>2. ExistingChoice(st, V) \in AllJobs(V) \cup {Nil}
  BY BestCandidateExists
<1>3. AllJobs(V) \subseteq N
  BY ListsAreFinite
<1>4. CASE st.error \/ st.isSuspended \/ DecisionFails(st, V, now, buildFails)
  BY <1>1, <1>3, <1>4 DEF makeDecision, NoWork, st
<1>5. CASE ~st.error /\ ~st.isSuspended /\ ~DecisionFails(st, V, now, buildFails)
  <2>1. ExpiredToDelete(st, V) \subseteq N /\ SurplusToDelete(st, V) \subseteq N
    BY <1>3 DEF ExpiredToDelete, SurplusToDelete, ExpiredJobs, NonExpiredJobs
  <2>2. JobToCreate(st, V) \in [name : Int \X Nat, job : Job] \cup {Nil}
    BY <1>1, <1>2, <1>5, JobToCreateType
  <2>3. JobToUnsuspend(st, V) \in N \cup {Nil}
    BY <1>2, <1>3 DEF JobToUnsuspend
  <2>4. makeDecision(st, V, now, buildFails)
           = [expired |-> ExpiredToDelete(st, V), surplus |-> SurplusToDelete(st, V),
              create |-> JobToCreate(st, V), unsuspend |-> JobToUnsuspend(st, V),
              requeueAt |-> st.nextEventTime, fails |-> FALSE]
    BY <1>5 DEF makeDecision
  <2> QED  BY <1>1, <2>1, <2>2, <2>3, <2>4 DEF st
<1> QED  BY <1>4, <1>5

\* When nothing is left to delete or to create, a Job that may be running and
\* is not being deleted is the chosen one.
LEMMA StayingJobIsChosen ==
    ASSUME NEW st, NEW V, NEW n \in AllJobs(V), ~V[n].completed, ~V[n].deleting,
           ExpiredToDelete(st, V) = {}, SurplusToDelete(st, V) = {}, ~MustCreate(st, V)
    PROVE  n \in NonExpiredJobs(st, V) /\ n = ExistingChoice(st, V)
<1>1. n \in NonExpiredJobs(st, V)
  BY DEF ExpiredToDelete, ExpiredJobs, NonExpiredJobs
<1> QED  BY <1>1 DEF SurplusToDelete, IsJobCompleted

(***************************************************************************)
(* When makeDecision asks for nothing more, the schedule has what it asks  *)
(* for (decision.go:184-330): the Jobs that stay have not expired, during  *)
(* the schedule there is a Job, and the one Job that may still run is      *)
(* manual or of today; it is left suspended only if a user has stopped it  *)
(* or another Job has not ended yet.                                       *)
(***************************************************************************)
THEOREM NothingMoreToDecide ==
    ASSUME NEW N, IsFiniteSet(N), Nil \notin N, OrdersNames(N), NEW V \in Lists(N), NEW st,
           st.desiredHash \in Hashes,
           st.shouldBeRunning => st.startOfCurrentRunPeriod \in Int,
           NEW now, NEW buildFails, ~DecisionFails(st, V, now, buildFails),
           ExpiredToDelete(st, V) = {}, SurplusToDelete(st, V) = {},
           JobToCreate(st, V) = Nil, JobToUnsuspend(st, V) = Nil
    PROVE  /\ \A n \in AllJobs(V) : ~V[n].deleting => ~IsExpired(st, V[n])
           /\ st.shouldBeRunning => AllJobs(V) # {}
           /\ \A n \in AllJobs(V) : ~V[n].deleting /\ ~V[n].completed =>
                 /\ n = ExistingChoice(st, V)
                 /\ V[n].manual \/ st.shouldBeRunning
                 /\ V[n].suspended =>
                       \/ V[n].userStop
                       \/ \E m \in AllJobs(V) : ~V[m].completed /\ V[m].deleting
<1>1. ExistingChoice(st, V) \in AllJobs(V) \cup {Nil} /\ AllJobs(V) \subseteq N
  BY BestCandidateExists, ListsAreFinite
<1>2. ~MustCreate(st, V)
  <2>1. MustCreate(st, V) => JobToCreate(st, V) \in NewJob
    BY <1>1, JobToCreateType DEF NewJob
  <2> QED  BY <2>1, NilIsNoNewJob
<1>3. \A n \in AllJobs(V) : ~V[n].deleting => ~IsExpired(st, V[n])
  BY DEF ExpiredToDelete, ExpiredJobs
<1>4. st.shouldBeRunning => AllJobs(V) # {}
  BY <1>1, <1>2 DEF MustCreate, MustStart
<1>5. ASSUME NEW n \in AllJobs(V), ~V[n].deleting, ~V[n].completed
      PROVE  n = ExistingChoice(st, V)
  BY <1>2, <1>5, StayingJobIsChosen
<1>6. ASSUME NEW n \in AllJobs(V), ~V[n].deleting, ~V[n].completed
      PROVE  V[n].manual \/ st.shouldBeRunning
  <2>1. n = ExistingChoice(st, V) /\ n # Nil
    BY <1>1, <1>5, <1>6
  <2> QED  BY <2>1 DEF ExistingChoice
<1>7. ASSUME NEW n \in AllJobs(V), ~V[n].deleting, ~V[n].completed,
             V[n].suspended, ~V[n].userStop
      PROVE  \E m \in AllJobs(V) : ~V[m].completed /\ V[m].deleting
  <2>1. n = ExistingChoice(st, V) /\ n # Nil
    BY <1>1, <1>5, <1>7
  <2>2. NumberOfPotentiallyRunningJobs(st, V) # 1
    BY <1>2, <1>7, <2>1 DEF JobToUnsuspend, WasJobStoppedByTheUser
  <2>3. Cardinality(PotentiallyRunning(V)) # 1
    <3>1. Cardinality(PotentiallyRunning(V)) \in Nat
      BY ListsAreFinite, FS_CardinalityType
    <3> QED  BY <1>2, <2>2, <3>1 DEF NumberOfPotentiallyRunningJobs
  <2>4. n \in PotentiallyRunning(V) /\ PotentiallyRunning(V) # {n}
    <3>1. Cardinality({n}) = 1
      BY FS_Singleton
    <3> QED  BY <1>7, <2>3, <3>1 DEF PotentiallyRunning, IsJobPotentiallyRunning, IsJobCompleted
  <2>5. PICK m \in PotentiallyRunning(V) : m # n
    BY <2>4
  <2>6. m \in AllJobs(V) /\ ~V[m].completed
    BY <2>5 DEF PotentiallyRunning, IsJobPotentiallyRunning, IsJobCompleted
  <2>7. V[m].deleting
    BY <1>5, <2>1, <2>5, <2>6
  <2> QED  BY <2>6, <2>7
<1> QED  BY <1>3, <1>4, <1>5, <1>6, <1>7

\* The name of a new Job tells its start and its run id.
LEMMA CreatedJobIsNamed ==
    ASSUME NEW V, NEW st, JobToCreate(st, V) # Nil
    PROVE  JobToCreate(st, V).name
              = JobName(JobToCreate(st, V).job.start, JobToCreate(st, V).job.runId)
BY DEF JobToCreate, RecreateJobWithNewSpec, BuildForControlledJob, buildJob

(***************************************************************************)
(* Run 0 of a period is decided only when every Job of the list is of an   *)
(* earlier period (decision.go:206-277): a Job that replaces another gets  *)
(* a later run id, and a period is begun only when no Job of it is listed. *)
(***************************************************************************)
THEOREM FirstRunBeginsPeriod ==
    ASSUME NEW N, IsFiniteSet(N), Nil \notin N, OrdersNames(N), NEW V \in Lists(N),
           \A n \in AllJobs(V) : V[n].start # Nil /\ V[n].runId # Nil,
           NEW spec \in ControlledJobSpec, NEW now \in Int,
           JobToCreate(buildState(spec, now), V) # Nil,
           JobToCreate(buildState(spec, now), V).job.runId = 0
    PROVE  \A n \in AllJobs(V) :
              V[n].start < JobToCreate(buildState(spec, now), V).job.start
<1> DEFINE st == buildState(spec, now)
           s == StateFor(spec.events, now, spec.offset)
<1>1. /\ st.lastStopTime = s.lastStopTime
      /\ st.startOfCurrentRunPeriod = s.startOfCurrentRunPeriod
      /\ st.shouldBeRunning => s.startOfCurrentRunPeriod # Nil
  BY DEF buildState
<1>2. spec.events \in Seq(EventSpec) /\ spec.offset \in Int
  BY DEF ControlledJobSpec
<1>3. /\ s.lastStopTime \in Int \cup {Nil} /\ s.startOfCurrentRunPeriod \in Int \cup {Nil}
      /\ s.startOfCurrentRunPeriod # Nil =>
            s.lastStopTime # Nil /\ s.startOfCurrentRunPeriod > s.lastStopTime
  BY <1>2, StateForTypes
<1> HIDE DEF s, st
<1>4. ~MustRecreate(st, V)
  <2> SUFFICES ASSUME MustRecreate(st, V) PROVE FALSE
    OBVIOUS
  <2> DEFINE old == ExistingChoice(st, V)
  <2>1. old \in AllJobs(V)
    BY BestCandidateExists DEF MustRecreate
  <2>2. V[old].runId \in Nat /\ V[old].runId < NextRunId(V) /\ NextRunId(V) \in Nat
    BY <2>1, ListsAreFinite, NextRunIdIsNew DEF Job
  <2>3. JobToCreate(st, V).job.runId = NextRunId(V)
    BY DEF JobToCreate, RecreateJobWithNewSpec, buildJob
  <2> QED  BY <2>2, <2>3 DEF st
<1>5. /\ MustStart(st, V)
      /\ JobToCreate(st, V).job.start = st.startOfCurrentRunPeriod
  BY <1>4 DEF JobToCreate, BuildForControlledJob, buildJob, st
<1>6. NonExpiredJobs(st, V) = {}
  <2>1. BestCandidate(st, V) = Nil
    BY <1>5 DEF MustStart, ExistingChoice
  <2>2. NonExpiredJobs(st, V) \subseteq N
    BY ListsAreFinite DEF NonExpiredJobs
  <2> QED  BY <2>1, <2>2, BestCandidateIsBest
<1>7. ASSUME NEW n \in AllJobs(V) PROVE V[n].start < st.startOfCurrentRunPeriod
  <2>1. IsExpired(st, V[n])
    BY <1>6 DEF NonExpiredJobs, ExpiredJobs
  <2>2. V[n].start \in Int
    BY ListsAreFinite DEF Job
  <2>3. st.startOfCurrentRunPeriod # Nil
    BY <1>1, <1>5 DEF MustStart
  <2> QED  BY <1>1, <1>3, <2>1, <2>2, <2>3, NilAssumption DEF IsExpired
<1> QED  BY <1>5, <1>7 DEF st

(***************************************************************************)
(* A manual Job made from the current template is not surplus              *)
(* (decision.go:163-183, 294-304) unless the list has one of a greater     *)
(* name: neither its age nor the schedule outweighs the user's wish.       *)
(***************************************************************************)
THEOREM ManualJobYieldsToGreaterName ==
    ASSUME NEW N, IsFiniteSet(N), Nil \notin N, OrdersNames(N), NEW V \in Lists(N), NEW st,
           NEW n \in SurplusToDelete(st, V), V[n].manual, V[n].hash = st.desiredHash
    PROVE  \E m \in AllJobs(V) : NameGreater(m, n)
<1> DEFINE b == BestCandidate(st, V)
<1>1. n \in NonExpiredJobs(st, V) /\ ~V[n].deleting
  BY DEF SurplusToDelete
<1>2. n \in N /\ n # Nil
  BY <1>1, ListsAreFinite DEF NonExpiredJobs
<1>3. b \in NonExpiredJobs(st, V) /\ b \in AllJobs(V)
  BY <1>1, BestCandidateIsBest DEF NonExpiredJobs
<1>4. b # n
  <2> SUFFICES ASSUME b = n PROVE FALSE
    OBVIOUS
  <2>1. ExistingChoice(st, V) = n
    BY <1>2 DEF ExistingChoice
  <2>2. ~MustCreate(st, V)
    BY <1>2, <2>1 DEF MustCreate, MustRecreate, MustStart, isOutOfDate
  <2> QED  BY <2>1, <2>2 DEF SurplusToDelete
<1>5. isBetterCandidateJob(st, V, b, n)
  BY <1>1, <1>4, BestCandidateIsBest
<1>6. V[b].deleting \in BOOLEAN /\ V[n].deleting \in BOOLEAN
  BY <1>1, <1>3, ListsAreFinite DEF NonExpiredJobs, Job
<1> HIDE DEF b
<1> QED  BY <1>1, <1>3, <1>5, <1>6 DEF isBetterCandidateJob
=============================================================================
