----------------------------- MODULE QueryProofs -----------------------------
(***************************************************************************)
(* The query executor for any documents, writers, registrations and page   *)
(* sizes, and for filters of any shape.  First induction over filters and   *)
(* what the recursive functions of Query compute; then what evaluation,     *)
(* index seed, signature and conversion guarantee for every filter; last    *)
(* the invariant of pages and tokens.                                       *)
(***************************************************************************)
EXTENDS Query, WellFoundedInduction, TLAPS

\* First-order steps; those that need arithmetic, records or sequences name SMT.
USE Zenon
------------------------------------------------------------------------------
(* Induction, over sets instead of predicates.                               *)

Less == {p \in Nat \X Nat : p[1] < p[2]}

LEMMA LessWellFounded == IsWellFoundedOn(Less, Nat)
  BY NatLessThanWellFounded DEF OpToRel, Less

\* A nonempty set of numbers has a least one.
LEMMA LeastExists ==
  ASSUME NEW T, T \subseteq Nat, T # {}
  PROVE  \E n \in T : \A m \in T : n <= m
  <1>1. PICK n \in T : \A m \in T : ~(<<m, n>> \in Less)
    BY LessWellFounded, WFMin
  <1>2. ASSUME NEW m \in T  PROVE n <= m
    <2>1. m \in Nat /\ n \in Nat
      OBVIOUS
    <2>2. ~(<<m, n>> \in Less)
      BY <1>1
    <2>3. QED
      BY <2>1, <2>2, SMT DEF Less
  <1>3. QED
    BY <1>2

LEMMA MinIs ==
  ASSUME NEW T, T \subseteq Nat, T # {}
  PROVE  Min(T) \in T /\ \A m \in T : Min(T) <= m
  BY LeastExists DEF Min

\* If membership passes from the elements of lower rank, all are members.
LEMMA RankInduction ==
  ASSUME NEW S, NEW rank, \A x \in S : rank[x] \in Nat, NEW T,
         \A x \in S : (\A y \in S : rank[y] < rank[x] => y \in T) => x \in T
  PROVE  S \subseteq T
  <1> DEFINE Ranks == {rank[x] : x \in S \ T}
  <1> SUFFICES ASSUME S \ T # {}  PROVE FALSE
    OBVIOUS
  <1>1. Ranks \subseteq Nat
    <2> SUFFICES ASSUME NEW n \in Ranks  PROVE n \in Nat
      OBVIOUS
    <2>1. PICK x \in S \ T : n = rank[x]
      OBVIOUS
    <2>2. x \in S
      OBVIOUS
    <2>3. QED
      BY <2>1, <2>2
  <1>2. Ranks # {}
    <2>1. PICK x \in S \ T : TRUE
      OBVIOUS
    <2>2. rank[x] \in Ranks
      OBVIOUS
    <2>3. QED
      BY <2>2
  <1>3. PICK n \in Ranks : \A m \in Ranks : n <= m
    BY <1>1, <1>2, LeastExists
  <1>4. PICK x \in S \ T : rank[x] = n
    OBVIOUS
  <1>5. ASSUME NEW y \in S, rank[y] < rank[x]  PROVE y \in T
    <2> SUFFICES ASSUME y \notin T  PROVE FALSE
      OBVIOUS
    <2>1. rank[y] \in Ranks
      OBVIOUS
    <2>2. n <= rank[y]
      BY <1>3, <2>1
    <2>3. rank[x] \in Nat /\ rank[y] \in Nat
      OBVIOUS
    <2>4. QED
      BY <2>2, <2>3, <1>4, <1>5, SMT
  <1>6. QED
    BY <1>4, <1>5

\* Induction on numbers.
LEMMA NatInd ==
  ASSUME NEW T, 0 \in T, \A n \in Nat : n \in T => n + 1 \in T
  PROVE  Nat \subseteq T
  <1> SUFFICES ASSUME Nat \ T # {}  PROVE FALSE
    OBVIOUS
  <1>1. PICK n \in Nat \ T : \A m \in Nat \ T : n <= m
    BY LeastExists
  <1>2. n # 0 /\ n \in Nat
    OBVIOUS
  <1>3. n - 1 \in Nat /\ ~(n <= n - 1) /\ (n - 1) + 1 = n
    BY <1>2, SMT
  <1>4. QED
    BY <1>1, <1>3

Descends(S, B, rank, step) ==
  /\ B # {} /\ \A x \in S : rank[x] \in Nat
  /\ \A x \in S : \A g \in [S -> B] : step[x][g] \in B
  /\ \A x \in S : \A g, h \in [S -> B] :
       (\A y \in S : rank[y] < rank[x] => g[y] = h[y]) => step[x][g] = step[x][h]

Solves(g, S, B, step) == g \in [S -> B] /\ \A x \in S : g[x] = step[x][g]

\* A recursion that looks only at arguments of lower rank has a solution.
LEMMA Recursion ==
  ASSUME NEW S, NEW B, NEW rank, NEW step, Descends(S, B, rank, step)
  PROVE  \E g : Solves(g, S, B, step)
  <1> USE DEF Descends
  <1> DEFINE Upto(g, n) == g \in [S -> B] /\ \A x \in S : rank[x] < n => g[x] = step[x][g]
             T == {n \in Nat : \E g : Upto(g, n)}
             G(n) == CHOOSE g : Upto(g, n)
             F == [x \in S |-> G(rank[x] + 1)[x]]
  <1>1. 0 \in T
    <2>1. PICK b \in B : TRUE
      OBVIOUS
    <2>2. [x \in S |-> b] \in [S -> B]
      OBVIOUS
    <2>3. \A x \in S : ~(rank[x] < 0)
      BY SMT
    <2>4. Upto([x \in S |-> b], 0)
      BY <2>2, <2>3
    <2>5. QED
      BY <2>4, SMT
  <1>2. ASSUME NEW n \in Nat, n \in T  PROVE n + 1 \in T
    <2>1. PICK g : Upto(g, n)
      BY <1>2
    <2> DEFINE h == [x \in S |-> step[x][g]]
    <2>2. h \in [S -> B]
      BY <2>1
    <2>3. \A x \in S : rank[x] < n => h[x] = g[x]
      BY <2>1
    <2>4. ASSUME NEW x \in S, rank[x] < n + 1  PROVE h[x] = step[x][h]
      <3>1. ASSUME NEW y \in S, rank[y] < rank[x]  PROVE g[y] = h[y]
        <4>1. rank[y] < n
          BY <3>1, <2>4, SMT
        <4>2. QED
          BY <4>1, <2>3
      <3>2. step[x][g] = step[x][h]
        BY <3>1, <2>1, <2>2
      <3>3. QED
        BY <3>2
    <2>5. Upto(h, n + 1)
      BY <2>2, <2>4
    <2>6. n + 1 \in Nat
      BY SMT
    <2>7. QED
      BY <2>5, <2>6
  <1>3. Nat \subseteq T
    <2> HIDE DEF T
    <2>1. QED
      BY <1>1, <1>2, NatInd
  <1>4. \A n \in Nat : Upto(G(n), n)
    <2> SUFFICES ASSUME NEW n \in Nat  PROVE Upto(G(n), n)
      OBVIOUS
    <2>1. \E g : Upto(g, n)
      BY <1>3
    <2> HIDE DEF Upto
    <2>2. QED
      BY <2>1
  <1> HIDE DEF G
  \* Two of these agree where both are solutions.
  <1>5. ASSUME NEW n \in Nat, NEW m \in Nat
        PROVE  \A x \in S : rank[x] < n /\ rank[x] < m => G(n)[x] = G(m)[x]
    <2> DEFINE U == {x \in S : rank[x] < n /\ rank[x] < m => G(n)[x] = G(m)[x]}
    <2>1. ASSUME NEW x \in S, \A y \in S : rank[y] < rank[x] => y \in U  PROVE x \in U
      <3> SUFFICES ASSUME rank[x] < n, rank[x] < m  PROVE G(n)[x] = G(m)[x]
        OBVIOUS
      <3>1. ASSUME NEW y \in S, rank[y] < rank[x]  PROVE G(n)[y] = G(m)[y]
        <4>1. rank[y] < n /\ rank[y] < m
          BY <3>1, SMT
        <4>2. QED
          BY <4>1, <3>1, <2>1
      <3>2. Upto(G(n), n) /\ Upto(G(m), m)
        BY <1>4
      <3>3. step[x][G(n)] = step[x][G(m)]
        BY <3>1, <3>2
      <3>4. QED
        BY <3>2, <3>3
    <2>2. S \subseteq U
      <3> HIDE DEF U, Upto, F
      <3>1. \A x \in S : (\A y \in S : rank[y] < rank[x] => y \in U) => x \in U
        BY <2>1
      <3>2. \A x \in S : rank[x] \in Nat
        OBVIOUS
      <3>3. QED
        BY ONLY <3>1, <3>2, RankInduction
    <2>3. QED
      BY <2>2
  <1>6. \A x \in S : rank[x] + 1 \in Nat /\ rank[x] < rank[x] + 1
    BY SMT
  <1>7. F \in [S -> B]
    BY <1>4, <1>6
  <1>8. ASSUME NEW x \in S  PROVE F[x] = step[x][F]
    <2> DEFINE g == G(rank[x] + 1)
    <2>1. Upto(g, rank[x] + 1) /\ rank[x] < rank[x] + 1
      BY <1>4, <1>6
    <2>2. ASSUME NEW y \in S, rank[y] < rank[x]  PROVE g[y] = F[y]
      <3>1. rank[y] < rank[x] + 1 /\ rank[y] < rank[y] + 1
        BY <2>2, SMT
      <3>2. G(rank[x] + 1)[y] = G(rank[y] + 1)[y]
        BY <3>1, <1>5, <1>6
      <3>3. QED
        BY <3>2
    <2>3. step[x][g] = step[x][F]
      BY <2>1, <2>2, <1>7
    <2>4. QED
      BY <2>1, <2>3
  <1>9. QED
    BY <1>7, <1>8 DEF Solves

------------------------------------------------------------------------------
(* Loops over the members of a group.                                        *)

LEMMA IndexInduction ==
  ASSUME NEW n \in Nat, NEW T, 0 \in T, \A i \in 1 .. n : i - 1 \in T => i \in T
  PROVE  0 .. n \subseteq T
  <1> DEFINE U == {i \in Nat : i <= n => i \in T}
  <1>1. 0 \in U
    BY SMT
  <1>2. ASSUME NEW i \in Nat, i \in U  PROVE i + 1 \in U
    <2>1. i + 1 \in Nat /\ (i + 1) - 1 = i /\ (i + 1 <= n => i <= n /\ i + 1 \in 1 .. n)
      BY SMT
    <2>2. ASSUME i + 1 <= n  PROVE i + 1 \in T
      BY <1>2, <2>1, <2>2
    <2>3. QED
      BY <2>1, <2>2
  <1>3. Nat \subseteq U
    <2> HIDE DEF U
    <2>1. QED
      BY <1>1, <1>2, NatInd
  <1>4. QED
    BY <1>3, SMT

Iterates(h, n, B, b, next) ==
  h \in [0 .. n -> B] /\ h[0] = b /\ \A i \in 1 .. n : h[i] = next[i][h[i - 1]]

LEMMA Iteration ==
  ASSUME NEW n \in Nat, NEW B, NEW b \in B, NEW next,
         \A i \in 1 .. n : \A v \in B : next[i][v] \in B
  PROVE  \E h : Iterates(h, n, B, b, next)
  <1> DEFINE S == 0 .. n
             rank == [i \in S |-> i]
             step == [i \in S |-> [g \in [S -> B] |-> IF i = 0 THEN b ELSE next[i][g[i - 1]]]]
  <1>1. \A i \in S : rank[i] \in Nat
    BY SMT
  <1>2. \A i \in S : i # 0 => i \in 1 .. n /\ i - 1 \in S /\ i - 1 < i
    BY SMT
  <1>3. ASSUME NEW i \in S, NEW g \in [S -> B]  PROVE step[i][g] \in B
    <2>1. CASE i = 0
      BY <2>1
    <2>2. CASE i # 0
      BY <2>2, <1>2
    <2>3. QED
      BY <2>1, <2>2
  <1>4. ASSUME NEW i \in S, NEW g \in [S -> B], NEW h \in [S -> B],
               \A y \in S : rank[y] < rank[i] => g[y] = h[y]
        PROVE  step[i][g] = step[i][h]
    <2>1. CASE i = 0
      BY <2>1
    <2>2. CASE i # 0
      <3>1. g[i - 1] = h[i - 1]
        BY <2>2, <1>2, <1>4
      <3>2. QED
        BY <3>1
    <2>3. QED
      BY <2>1, <2>2
  <1>5. Descends(S, B, rank, step)
    <2> HIDE DEF S, rank, step
    <2>1. QED
      BY <1>1, <1>3, <1>4 DEF Descends
  <1>6. PICK g \in [S -> B] : \A i \in S : g[i] = step[i][g]
    <2> HIDE DEF S, rank, step
    <2>1. \E g : Solves(g, S, B, step)
      BY <1>5, Recursion
    <2>2. QED
      BY <2>1 DEF Solves
  <1>7. 0 \in S /\ \A i \in 1 .. n : i \in S /\ i # 0
    BY SMT
  <1>8. g[0] = b
    BY <1>6, <1>7
  <1>9. \A i \in 1 .. n : g[i] = next[i][g[i - 1]]
    BY <1>6, <1>7
  <1>10. QED
    BY <1>8, <1>9 DEF Iterates

\* Total adds up.
Sums(sum, s) ==
  sum = [i \in 0 .. Len(s) |-> IF i = 0 THEN 0 ELSE sum[i - 1] + s[i]]

LEMMA TotalIs ==
  ASSUME NEW s, Len(s) \in Nat, \A i \in 1 .. Len(s) : s[i] \in Nat
  PROVE  \E sum \in [0 .. Len(s) -> Nat] : 
           /\ sum[0] = 0 /\ \A i \in 1 .. Len(s) : sum[i] = sum[i - 1] + s[i]
           /\ Total(s) = sum[Len(s)]
  <1> DEFINE n == Len(s)
             next == [i \in 1 .. n |-> [v \in Nat |-> v + s[i]]]
             c == CHOOSE sum : Sums(sum, s)
  <1>1. \A i \in 1 .. n : \A v \in Nat : next[i][v] = v + s[i] /\ next[i][v] \in Nat
    BY SMT
  <1>2. PICK h \in [0 .. n -> Nat] : h[0] = 0 /\ \A i \in 1 .. n : h[i] = next[i][h[i - 1]]
    <2> HIDE DEF next, n
    <2>1. n \in Nat /\ 0 \in Nat
      BY DEF n
    <2>2. \E h : Iterates(h, n, Nat, 0, next)
      BY <1>1, <2>1, Iteration
    <2>3. QED
      BY <2>2 DEF Iterates
  <1>3. \A i \in 0 .. n : i # 0 => i \in 1 .. n /\ i - 1 \in 0 .. n
    BY SMT
  <1> HIDE DEF next
  <1>4. Sums(h, s)
    <2>1. \A i \in 0 .. n : h[i] = IF i = 0 THEN 0 ELSE h[i - 1] + s[i]
      BY <1>1, <1>2, <1>3
    <2>2. h = [i \in 0 .. n |-> h[i]]
      OBVIOUS
    <2>3. QED
      BY <2>1, <2>2 DEF Sums
  <1>5. Sums(c, s)
    BY <1>4
  <1>6. Total(s) = c[n]
    BY DEF Total, Sums
  <1> HIDE DEF c
  <1>7. 0 \in 0 .. n /\ n \in 0 .. n
    BY SMT
  <1>8. c[0] = 0 /\ \A i \in 1 .. n : c[i] = c[i - 1] + s[i]
    <2>1. \A i \in 1 .. n : i \in 0 .. n /\ i # 0
      BY SMT
    <2>2. QED
      BY <1>5, <1>7, <2>1 DEF Sums
  <1>9. \A i \in 0 .. n : c[i] \in Nat
    <2> DEFINE T == {i \in 0 .. n : c[i] \in Nat}
    <2>1. 0 \in T
      BY <1>7, <1>8, SMT
    <2>2. ASSUME NEW i \in 1 .. n, i - 1 \in T  PROVE i \in T
      <3>1. c[i - 1] \in Nat /\ s[i] \in Nat /\ i \in 0 .. n
        BY <2>2, SMT
      <3>2. QED
        BY <3>1, <1>8, SMT
    <2>3. 0 .. n \subseteq T
      <3> HIDE DEF T
      <3>1. QED
        BY <2>1, <2>2, IndexInduction
    <2>4. QED
      BY <2>3
  <1>10. c \in [0 .. n -> Nat]
    BY <1>5, <1>9 DEF Sums
  <1>11. QED
    BY <1>6, <1>8, <1>10

\* What each member of a group leaves.
Lefts == -1 .. MaxPredicates

After(convs, fs, depth, i, left) ==
  IF left = Refused \/ fs[i].t = "nil" THEN Refused ELSE convs[i][depth][left]

Threads(left, convs, fs, depth, budget) ==
  left = [i \in 0 .. Len(fs) |-> IF i = 0 THEN budget
                                 ELSE After(convs, fs, depth, i, left[i - 1])]

LEMMA LeftFacts ==
  /\ Refused \in Lefts /\ 0 .. MaxPredicates \subseteq Lefts
  /\ \A b \in Lefts : b # Refused => b \in 0 .. MaxPredicates
  BY QueryAssumption, SMT DEF Refused, Lefts

Yields(convs, fs, depth) ==
  /\ Len(fs) \in Nat
  /\ \A i \in 1 .. Len(fs) : \A b \in 0 .. MaxPredicates : convs[i][depth][b] \in Lefts

Threaded(left, convs, fs, depth, budget) ==
  /\ left \in [0 .. Len(fs) -> Lefts] /\ left[0] = budget
  /\ \A i \in 1 .. Len(fs) : left[i] = After(convs, fs, depth, i, left[i - 1])
  /\ toFiltersWithLimits(convs, fs, depth, budget) = left[Len(fs)]

LEMMA ThreadIs ==
  ASSUME NEW convs, NEW fs, NEW depth, Yields(convs, fs, depth), NEW budget \in 0 .. MaxPredicates
  PROVE  \E left : Threaded(left, convs, fs, depth, budget)
  <1> USE DEF Yields
  <1> DEFINE n == Len(fs)
             next == [i \in 1 .. n |-> [v \in Lefts |-> After(convs, fs, depth, i, v)]]
             c == CHOOSE left : Threads(left, convs, fs, depth, budget)
  <1>1. ASSUME NEW i \in 1 .. n, NEW v \in Lefts
        PROVE  After(convs, fs, depth, i, v) \in Lefts
    BY LeftFacts DEF After
  <1>2. PICK h \in [0 .. n -> Lefts] : h[0] = budget /\ \A i \in 1 .. n : h[i] = next[i][h[i - 1]]
    <2>1. \A i \in 1 .. n : \A v \in Lefts : next[i][v] \in Lefts
      BY <1>1
    <2> HIDE DEF next, n
    <2>2. n \in Nat /\ budget \in Lefts
      BY LeftFacts DEF n
    <2>3. \E h : Iterates(h, n, Lefts, budget, next)
      BY <2>1, <2>2, Iteration
    <2>4. QED
      BY <2>3 DEF Iterates
  <1>3. \A i \in 0 .. n : i # 0 => i \in 1 .. n /\ i - 1 \in 0 .. n
    BY SMT
  <1>4. Threads(h, convs, fs, depth, budget)
    <2>1. \A i \in 0 .. n : h[i] = IF i = 0 THEN budget ELSE After(convs, fs, depth, i, h[i - 1])
      BY <1>2, <1>3
    <2>2. h = [i \in 0 .. n |-> h[i]]
      OBVIOUS
    <2>3. QED
      BY <2>1, <2>2 DEF Threads
  <1>5. Threads(c, convs, fs, depth, budget)
    BY <1>4
  <1>6. toFiltersWithLimits(convs, fs, depth, budget) = c[n]
    BY DEF toFiltersWithLimits, Threads, After
  <1> HIDE DEF c, next
  <1>7. 0 \in 0 .. n /\ n \in 0 .. n
    BY SMT
  <1>8. c[0] = budget /\ \A i \in 1 .. n : c[i] = After(convs, fs, depth, i, c[i - 1])
    <2>1. \A i \in 1 .. n : i \in 0 .. n /\ i # 0
      BY SMT
    <2>2. QED
      BY <1>5, <1>7, <2>1 DEF Threads
  <1>9. \A i \in 0 .. n : c[i] \in Lefts
    <2> DEFINE T == {i \in 0 .. n : c[i] \in Lefts}
    <2>1. 0 \in T
      BY <1>7, <1>8, LeftFacts
    <2>2. ASSUME NEW i \in 1 .. n, i - 1 \in T  PROVE i \in T
      <3>1. i \in 0 .. n
        BY SMT
      <3>2. QED
        BY <3>1, <1>1, <1>8, <2>2
    <2>3. 0 .. n \subseteq T
      <3> HIDE DEF T
      <3>1. QED
        BY <2>1, <2>2, IndexInduction
    <2>4. QED
      BY <2>3
  <1>10. c \in [0 .. n -> Lefts]
    BY <1>5, <1>9 DEF Threads
  <1>11. QED
    BY <1>6, <1>8, <1>10 DEF Threaded

\* The signatures of a group's members one after the other.
End == <<[t |-> "]"]>>

Follows(tail, sigs) ==
  tail = [i \in 1 .. Len(sigs) + 1 |-> IF i > Len(sigs) THEN End ELSE sigs[i] \o tail[i + 1]]

LEMMA TailIs ==
  ASSUME NEW X, [t |-> "]"] \in X, NEW sigs, Len(sigs) \in Nat,
         \A i \in 1 .. Len(sigs) : sigs[i] \in Seq(X)
  PROVE  LET tail == membersFrom(sigs)
         IN  /\ \A i \in 1 .. Len(sigs) + 1 : tail[i] \in Seq(X)
             /\ tail[Len(sigs) + 1] = End
             /\ \A i \in 1 .. Len(sigs) : tail[i] = sigs[i] \o tail[i + 1]
  <1> DEFINE n == Len(sigs)
             S == 1 .. n + 1
             rank == [i \in S |-> (n + 1) - i]
             step == [i \in S |-> [g \in [S -> Seq(X)] |-> IF i > n THEN End ELSE sigs[i] \o g[i + 1]]]
             c == CHOOSE tail : Follows(tail, sigs)
  <1>1. End \in Seq(X)
    BY SMT DEF End
  <1>2. \A u, v \in Seq(X) : u \o v \in Seq(X)
    BY SMT
  <1>3. \A i \in S : /\ rank[i] \in Nat
                     /\ i > n \/ (i \in 1 .. n /\ i + 1 \in S /\ rank[i + 1] < rank[i])
    BY SMT
  <1>4. Descends(S, Seq(X), rank, step)
    <2>1. ASSUME NEW i \in S, NEW g \in [S -> Seq(X)]  PROVE step[i][g] \in Seq(X)
      BY <1>1, <1>2, <1>3
    <2>2. ASSUME NEW i \in S, NEW g \in [S -> Seq(X)], NEW h \in [S -> Seq(X)],
                 \A y \in S : rank[y] < rank[i] => g[y] = h[y]
          PROVE  step[i][g] = step[i][h]
      <3>1. CASE i > n
        BY <3>1
      <3>2. CASE ~(i > n)
        <4>1. g[i + 1] = h[i + 1]
          BY <3>2, <1>3, <2>2
        <4>2. QED
          BY <4>1
      <3>3. QED
        BY <3>1, <3>2
    <2> HIDE DEF S, rank, step
    <2>3. QED
      BY <1>1, <1>3, <2>1, <2>2 DEF Descends
  <1>5. PICK h \in [S -> Seq(X)] : \A i \in S : h[i] = step[i][h]
    <2> HIDE DEF S, rank, step
    <2>1. \E g : Solves(g, S, Seq(X), step)
      BY <1>4, Recursion
    <2>2. QED
      BY <2>1 DEF Solves
  <1>6. Follows(h, sigs)
    <2>1. \A i \in S : h[i] = IF i > n THEN End ELSE sigs[i] \o h[i + 1]
      BY <1>5
    <2>2. h = [i \in S |-> h[i]]
      OBVIOUS
    <2>3. QED
      BY <2>1, <2>2 DEF Follows
  <1>7. Follows(c, sigs)
    BY <1>6
  <1>8. membersFrom(sigs) = c
    BY DEF membersFrom, Follows, End
  <1> HIDE DEF c, step
  <1>9. \A i \in S : c[i] = IF i > n THEN End ELSE sigs[i] \o c[i + 1]
    BY <1>7 DEF Follows
  <1>10. \A i \in S : c[i] \in Seq(X)
    <2> DEFINE T == {i \in S : c[i] \in Seq(X)}
    <2>1. ASSUME NEW i \in S, \A y \in S : rank[y] < rank[i] => y \in T  PROVE i \in T
      <3>1. CASE i > n
        BY <3>1, <1>1, <1>9
      <3>2. CASE ~(i > n)
        <4>1. sigs[i] \in Seq(X) /\ c[i + 1] \in Seq(X)
          BY <3>2, <1>3, <2>1
        <4>2. QED
          BY <4>1, <3>2, <1>2, <1>9
      <3>3. QED
        BY <3>1, <3>2
    <2>2. S \subseteq T
      <3> HIDE DEF T, S, rank
      <3>1. QED
        BY <1>3, <2>1, RankInduction
    <2>3. QED
      BY <2>2
  <1>11. n + 1 \in S /\ n + 1 > n /\ \A i \in 1 .. n : i \in S /\ ~(i > n)
    BY SMT
  <1>12. QED
    BY <1>8, <1>9, <1>10, <1>11

------------------------------------------------------------------------------
(* The structure of filters.                                                 *)

Tags == {"nil", "unset", "cmp"} \cup Group

LEMMA WireGroup ==
  ASSUME NEW f \in Wire, f.t \in Group
  PROVE  /\ f = [t |-> f.t, fs |-> f.fs] /\ f.fs \in Seq(Wire)
         /\ Len(f.fs) \in Nat /\ DOMAIN f.fs = 1 .. Len(f.fs)
         /\ \A i \in DOMAIN f.fs : f.fs[i] \in Wire /\ Height[f.fs[i]] < Height[f]
  <1>1. ~(f \in [t : {"nil", "unset"}]) /\ f.t # "cmp"
    BY SMT DEF Group
  <1>2. /\ f = [t |-> f.t, fs |-> f.fs] /\ f.fs \in Seq(Wire)
        /\ \A i \in DOMAIN f.fs : Height[f.fs[i]] < Height[f]
    BY <1>1, WireAssumption
  <1>3. Len(f.fs) \in Nat /\ DOMAIN f.fs = 1 .. Len(f.fs) /\ \A i \in DOMAIN f.fs : f.fs[i] \in Wire
    BY <1>2, SMT
  <1>4. QED
    BY <1>2, <1>3

LEMMA WireOther ==
  ASSUME NEW f \in Wire, f.t \notin Group
  PROVE  \/ f.t = "cmp" /\ f = [t |-> f.t, field |-> f.field, op |-> f.op, value |-> f.value]
         \/ f \in [t : {"nil", "unset"}]
  BY WireAssumption

\* converted satisfies its equation.
ConvStep(g, f) ==
  IF f.t \in Group THEN [f EXCEPT !.fs = [i \in DOMAIN f.fs |-> g[f.fs[i]]]]
  ELSE IF f.t = "cmp" THEN [f EXCEPT !.op = toOp(f.op)]
  ELSE f

LEMMA ConvLocal ==
  ASSUME NEW f \in Wire, NEW g, NEW h, \A w \in Wire : Height[w] < Height[f] => g[w] = h[w]
  PROVE  ConvStep(g, f) = ConvStep(h, f)
  <1>1. CASE f.t \in Group
    <2>1. \A i \in DOMAIN f.fs : g[f.fs[i]] = h[f.fs[i]]
      BY <1>1, WireGroup
    <2>2. [i \in DOMAIN f.fs |-> g[f.fs[i]]] = [i \in DOMAIN f.fs |-> h[f.fs[i]]]
      BY <2>1
    <2>3. QED
      BY <2>2, <1>1 DEF ConvStep, Group
  <1>2. CASE f.t \notin Group
    BY <1>2 DEF ConvStep
  <1>3. QED
    BY <1>1, <1>2

Converts(g) == g = [f \in Wire |-> ConvStep(g, f)]

LEMMA ConversionExists == \E g : Converts(g)
  <1> DEFINE Upto(g, n) == \A f \in Wire : Height[f] < n => g[f] = ConvStep(g, f)
             T == {n \in Nat : \E g : Upto(g, n)}
             G(n) == CHOOSE g : Upto(g, n)
             F == [f \in Wire |-> G(Height[f] + 1)[f]]
  <1>0. \A f \in Wire : Height[f] \in Nat
    BY WireAssumption
  <1>1. 0 \in T
    <2>1. \A f \in Wire : ~(Height[f] < 0)
      BY <1>0, SMT
    <2>2. Upto(0, 0)
      BY <2>1
    <2>3. QED
      BY <2>2, SMT
  <1>2. ASSUME NEW n \in Nat, n \in T  PROVE n + 1 \in T
    <2>1. PICK g : Upto(g, n)
      BY <1>2
    <2> DEFINE h == [f \in Wire |-> ConvStep(g, f)]
    <2>2. \A f \in Wire : Height[f] < n => h[f] = g[f]
      BY <2>1
    <2>3. ASSUME NEW f \in Wire, Height[f] < n + 1  PROVE h[f] = ConvStep(h, f)
      <3>1. ASSUME NEW w \in Wire, Height[w] < Height[f]  PROVE g[w] = h[w]
        <4>1. Height[w] < n
          BY <3>1, <2>3, <1>0, SMT
        <4>2. QED
          BY <4>1, <2>2
      <3> HIDE DEF h
      <3>2. ConvStep(g, f) = ConvStep(h, f)
        BY <3>1, ConvLocal
      <3>3. QED
        BY <3>2 DEF h
    <2>4. n + 1 \in Nat
      BY SMT
    <2>5. QED
      BY <2>3, <2>4
  <1>3. Nat \subseteq T
    <2> HIDE DEF T
    <2>1. QED
      BY <1>1, <1>2, NatInd
  <1>4. \A n \in Nat : Upto(G(n), n)
    <2> SUFFICES ASSUME NEW n \in Nat  PROVE Upto(G(n), n)
      OBVIOUS
    <2>1. \E g : Upto(g, n)
      BY <1>3
    <2> HIDE DEF Upto
    <2>2. QED
      BY <2>1
  <1> HIDE DEF G
  <1>5. ASSUME NEW n \in Nat, NEW m \in Nat
        PROVE  \A f \in Wire : Height[f] < n /\ Height[f] < m => G(n)[f] = G(m)[f]
    <2> DEFINE U == {f \in Wire : Height[f] < n /\ Height[f] < m => G(n)[f] = G(m)[f]}
    <2>1. ASSUME NEW f \in Wire, \A w \in Wire : Height[w] < Height[f] => w \in U
          PROVE  f \in U
      <3> SUFFICES ASSUME Height[f] < n, Height[f] < m  PROVE G(n)[f] = G(m)[f]
        OBVIOUS
      <3>1. ASSUME NEW w \in Wire, Height[w] < Height[f]  PROVE G(n)[w] = G(m)[w]
        <4>1. Height[w] < n /\ Height[w] < m
          BY <3>1, <1>0, SMT
        <4>2. QED
          BY <4>1, <3>1, <2>1
      <3>2. ConvStep(G(n), f) = ConvStep(G(m), f)
        BY <3>1, ConvLocal
      <3>3. QED
        BY <3>2, <1>4
    <2>2. Wire \subseteq U
      <3> HIDE DEF U
      <3>1. QED
        BY <2>1, <1>0, RankInduction
    <2>3. QED
      BY <2>2
  <1>6. \A f \in Wire : Height[f] + 1 \in Nat /\ Height[f] < Height[f] + 1
    BY <1>0, SMT
  <1>7. ASSUME NEW f \in Wire  PROVE F[f] = ConvStep(F, f)
    <2> DEFINE g == G(Height[f] + 1)
    <2>1. g[f] = ConvStep(g, f)
      BY <1>4, <1>6
    <2>2. ASSUME NEW w \in Wire, Height[w] < Height[f]  PROVE g[w] = F[w]
      <3>1. Height[w] < Height[f] + 1 /\ Height[w] < Height[w] + 1
        BY <2>2, <1>0, SMT
      <3>2. G(Height[f] + 1)[w] = G(Height[w] + 1)[w]
        BY <3>1, <1>5, <1>6
      <3>3. QED
        BY <3>2
    <2>3. F[f] = g[f]
      OBVIOUS
    <2> HIDE DEF F, g
    <2>4. ConvStep(g, f) = ConvStep(F, f)
      BY <2>2, ConvLocal
    <2>5. QED
      BY <2>1, <2>3, <2>4
  <1>8. F = [f \in Wire |-> F[f]]
    OBVIOUS
  <1> HIDE DEF F
  <1>9. QED
    BY <1>7, <1>8 DEF Converts

LEMMA ConvertedIs == \A f \in Wire : converted[f] = ConvStep(converted, f)
  <1>1. converted = CHOOSE g : Converts(g)
    BY DEF converted, Converts, ConvStep
  <1>2. Converts(converted)
    BY <1>1, ConversionExists
  <1>3. QED
    BY <1>2 DEF Converts

\* The shape of what is converted, tag by tag.
LEMMA ConvertedGroup ==
  ASSUME NEW f \in Wire, f.t \in Group
  PROVE  LET g == converted[f]
         IN  /\ g = [t |-> f.t, fs |-> [i \in DOMAIN f.fs |-> converted[f.fs[i]]]]
             /\ g.t = f.t /\ Len(g.fs) = Len(f.fs) /\ DOMAIN g.fs = DOMAIN f.fs
             /\ \A i \in DOMAIN f.fs : g.fs[i] = converted[f.fs[i]]
  <1> DEFINE cs == [i \in DOMAIN f.fs |-> converted[f.fs[i]]]
  <1>1. converted[f] = [f EXCEPT !.fs = cs]
    BY ConvertedIs DEF ConvStep
  <1>2. f = [t |-> f.t, fs |-> f.fs] /\ Len(f.fs) \in Nat /\ DOMAIN f.fs = 1 .. Len(f.fs)
    BY WireGroup
  <1>3. DOMAIN cs = DOMAIN f.fs /\ \A i \in DOMAIN f.fs : cs[i] = converted[f.fs[i]]
    OBVIOUS
  <1> HIDE DEF cs
  <1>4. [f EXCEPT !.fs = cs] = [t |-> f.t, fs |-> cs]
    BY <1>2, SMT
  <1>5. converted[f].t = f.t /\ converted[f].fs = cs
    BY <1>1, <1>4, SMT
  <1>6. Len(cs) = Len(f.fs)
    BY <1>2, <1>3, SMT
  <1>7. QED
    BY <1>1, <1>3, <1>4, <1>5, <1>6 DEF cs

LEMMA ConvertedCmp ==
  ASSUME NEW f \in Wire, f.t = "cmp"
  PROVE  LET g == converted[f]
         IN  /\ g = [t |-> "cmp", field |-> f.field, op |-> toOp(f.op), value |-> f.value]
             /\ g.t = "cmp" /\ g.field = f.field /\ g.op = toOp(f.op) /\ g.value = f.value
  <1> DEFINE o == toOp(f.op)
  <1>1. f.t \notin Group /\ ~(f \in [t : {"nil", "unset"}])
    BY SMT DEF Group
  <1>2. f = [t |-> f.t, field |-> f.field, op |-> f.op, value |-> f.value]
    BY <1>1, WireOther
  <1>3. converted[f] = [f EXCEPT !.op = o]
    BY <1>1, ConvertedIs DEF ConvStep
  <1> HIDE DEF o
  <1>4. converted[f] = [t |-> "cmp", field |-> f.field, op |-> o, value |-> f.value]
    BY <1>2, <1>3, SMT
  <1>5. QED
    BY <1>4, SMT DEF o

LEMMA ConvertedRest ==
  ASSUME NEW f \in Wire, f.t \notin Group, f.t # "cmp"
  PROVE  converted[f] = f /\ f \in [t : {"nil", "unset"}]
  BY ConvertedIs, WireOther DEF ConvStep

LEMMA ConvertedTag ==
  ASSUME NEW f \in Wire
  PROVE  converted[f].t = f.t /\ f.t \in Tags
  <1>1. CASE f.t \in Group
    BY <1>1, ConvertedGroup DEF Tags
  <1>2. CASE f.t = "cmp"
    BY <1>2, ConvertedCmp DEF Tags
  <1>3. CASE f.t \notin Group /\ f.t # "cmp"
    <2>1. converted[f] = f /\ f \in [t : {"nil", "unset"}]
      BY <1>3, ConvertedRest
    <2>2. f.t \in {"nil", "unset"}
      BY <2>1, SMT
    <2>3. QED
      BY <2>1, <2>2 DEF Tags
  <1>4. QED
    BY <1>1, <1>2, <1>3

\* How deep an executor's filter is nested.
FRank == [g \in Filters |-> Min({Height[f] : f \in {w \in Wire : converted[w] = g}})]

LEMMA FRankIs ==
  ASSUME NEW g \in Filters
  PROVE  /\ FRank[g] \in Nat /\ \E f \in Wire : converted[f] = g /\ Height[f] = FRank[g]
         /\ \A f \in Wire : converted[f] = g => FRank[g] <= Height[f]
  <1> DEFINE T == {Height[f] : f \in {w \in Wire : converted[w] = g}}
  <1>1. T \subseteq Nat
    BY WireAssumption
  <1>2. PICK w \in Wire : converted[w] = g
    BY DEF Filters
  <1>3. Height[w] \in T
    BY <1>2
  <1>4. T # {}
    BY <1>3
  <1>5. FRank[g] = Min(T)
    BY DEF FRank
  <1>6. Min(T) \in T /\ \A m \in T : Min(T) <= m
    <2> HIDE DEF T
    <2>1. QED
      BY <1>1, <1>4, MinIs
  <1>7. QED
    BY <1>1, <1>5, <1>6

LEMMA FilterGroup ==
  ASSUME NEW g \in Filters, g.t \in Group
  PROVE  /\ g = [t |-> g.t, fs |-> g.fs] /\ g.fs \in Seq(Filters)
         /\ Len(g.fs) \in Nat /\ DOMAIN g.fs = 1 .. Len(g.fs)
         /\ \A i \in DOMAIN g.fs : g.fs[i] \in Filters /\ FRank[g.fs[i]] < FRank[g]
  <1>1. PICK f \in Wire : converted[f] = g /\ Height[f] = FRank[g]
    BY FRankIs
  <1>2. f.t \in Group /\ g.t = f.t
    BY <1>1, ConvertedTag
  <1>3. /\ f.fs \in Seq(Wire) /\ Len(f.fs) \in Nat /\ DOMAIN f.fs = 1 .. Len(f.fs)
        /\ \A i \in DOMAIN f.fs : f.fs[i] \in Wire /\ Height[f.fs[i]] < Height[f]
    BY <1>2, WireGroup
  <1>4. /\ g = [t |-> f.t, fs |-> [i \in DOMAIN f.fs |-> converted[f.fs[i]]]]
        /\ Len(g.fs) = Len(f.fs) /\ DOMAIN g.fs = DOMAIN f.fs
        /\ \A i \in DOMAIN f.fs : g.fs[i] = converted[f.fs[i]]
    BY <1>1, <1>2, ConvertedGroup
  <1> DEFINE cs == [i \in DOMAIN f.fs |-> converted[f.fs[i]]]
  <1>5. \A i \in DOMAIN f.fs : cs[i] \in Filters
    BY <1>3 DEF Filters
  <1>6. cs \in Seq(Filters)
    <2>1. cs = [i \in 1 .. Len(f.fs) |-> cs[i]]
      BY <1>3
    <2> HIDE DEF cs
    <2>2. QED
      BY <1>3, <1>5, <2>1, SMT
  <1>7. g.fs = cs /\ g = [t |-> g.t, fs |-> g.fs]
    <2> HIDE DEF cs
    <2>1. g = [t |-> f.t, fs |-> cs]
      BY <1>4 DEF cs
    <2>2. QED
      BY <2>1, SMT
  <1>8. ASSUME NEW i \in DOMAIN g.fs  PROVE g.fs[i] \in Filters /\ FRank[g.fs[i]] < FRank[g]
    <2>1. f.fs[i] \in Wire /\ Height[f.fs[i]] < Height[f] /\ converted[f.fs[i]] = g.fs[i]
      BY <1>3, <1>4
    <2>2. g.fs[i] \in Filters
      BY <2>1 DEF Filters
    <2>3. FRank[g.fs[i]] <= Height[f.fs[i]] /\ FRank[g.fs[i]] \in Nat
      BY <2>1, <2>2, FRankIs
    <2>4. Height[f] \in Nat /\ Height[f.fs[i]] \in Nat
      BY <2>1, WireAssumption
    <2>5. QED
      BY <1>1, <2>1, <2>2, <2>3, <2>4, SMT
  <1>9. QED
    BY <1>3, <1>4, <1>6, <1>7, <1>8

LEMMA FilterOther ==
  ASSUME NEW g \in Filters, g.t \notin Group
  PROVE  \/ g.t = "cmp" /\ g = [t |-> g.t, field |-> g.field, op |-> g.op, value |-> g.value]
         \/ g \in [t : {"nil", "unset"}]
  <1>1. PICK f \in Wire : converted[f] = g
    BY DEF Filters
  <1>2. f.t = g.t
    BY <1>1, ConvertedTag
  <1>3. CASE f.t = "cmp"
    BY <1>1, <1>2, <1>3, ConvertedCmp
  <1>4. CASE f.t # "cmp"
    BY <1>1, <1>2, <1>4, ConvertedRest
  <1>5. QED
    BY <1>3, <1>4

\* If membership passes from the members of a filter to it, all filters are in.
LEMMA FilterInduction ==
  ASSUME NEW T,
         \A g \in Filters : (g.t \in Group => \A i \in DOMAIN g.fs : g.fs[i] \in T) => g \in T
  PROVE  Filters \subseteq T
  <1>1. ASSUME NEW g \in Filters, \A h \in Filters : FRank[h] < FRank[g] => h \in T
        PROVE  g \in T
    <2>1. g.t \in Group => \A i \in DOMAIN g.fs : g.fs[i] \in T
      BY <1>1, FilterGroup
    <2>2. QED
      BY <2>1
  <1>2. \A g \in Filters : FRank[g] \in Nat
    BY FRankIs
  <1>3. QED
    BY <1>1, <1>2, RankInduction

\* A recursion over trees of groups that combines what the members yield.
Tree(S, rank) ==
  \A f \in S : 
    /\ rank[f] \in Nat
    /\ f.t \in Group => \A i \in DOMAIN f.fs : f.fs[i] \in S /\ rank[f.fs[i]] < rank[f]

Combines(S, B, grp, leaf) ==
  /\ B # {}
  /\ \A f \in S : IF f.t \in Group THEN \A v \in [DOMAIN f.fs -> B] : grp[f][v] \in B
                                   ELSE leaf[f] \in B

Combined(F, S, B, grp, leaf) ==
  /\ F \in [S -> B]
  /\ \A f \in S : F[f] = IF f.t \in Group THEN grp[f][[i \in DOMAIN f.fs |-> F[f.fs[i]]]]
                                          ELSE leaf[f]

LEMMA TreeRecursion ==
  ASSUME NEW S, NEW B, NEW rank, NEW grp, NEW leaf, Tree(S, rank), Combines(S, B, grp, leaf)
  PROVE  \E F : Combined(F, S, B, grp, leaf)
  <1> DEFINE Of(g, f) == [i \in DOMAIN f.fs |-> g[f.fs[i]]]
             step == [f \in S |-> [g \in [S -> B] |-> IF f.t \in Group THEN grp[f][Of(g, f)] ELSE leaf[f]]]
  <1>1. ASSUME NEW f \in S, NEW g \in [S -> B]  PROVE step[f][g] \in B
    <2>1. CASE f.t \in Group
      <3>1. Of(g, f) \in [DOMAIN f.fs -> B]
        BY <2>1 DEF Tree
      <3>2. QED
        BY <2>1, <3>1 DEF Combines
    <2>2. CASE f.t \notin Group
      BY <2>2 DEF Combines
    <2>3. QED
      BY <2>1, <2>2
  <1>2. ASSUME NEW f \in S, NEW g \in [S -> B], NEW h \in [S -> B],
               \A y \in S : rank[y] < rank[f] => g[y] = h[y]
        PROVE  step[f][g] = step[f][h]
    <2>1. CASE f.t \in Group
      <3>1. Of(g, f) = Of(h, f)
        BY <2>1, <1>2 DEF Tree
      <3>2. step[f][g] = grp[f][Of(g, f)] /\ step[f][h] = grp[f][Of(h, f)]
        BY <2>1
      <3>3. QED
        BY <3>1, <3>2
    <2>2. CASE f.t \notin Group
      BY <2>2
    <2>3. QED
      BY <2>1, <2>2
  <1>3. Descends(S, B, rank, step)
    <2> HIDE DEF step
    <2>1. QED
      BY <1>1, <1>2 DEF Descends, Tree, Combines
  <1>4. PICK F \in [S -> B] : \A f \in S : F[f] = step[f][F]
    <2> HIDE DEF step
    <2>1. \E F : Solves(F, S, B, step)
      BY <1>3, Recursion
    <2>2. QED
      BY <2>1 DEF Solves
  <1>5. QED
    BY <1>4 DEF Combined

LEMMA WireTree == Tree(Wire, Height)
  BY WireAssumption, WireGroup DEF Tree

LEMMA FilterTree == Tree(Filters, FRank)
  BY FRankIs, FilterGroup DEF Tree

\* A verdict satisfies its equation.
Verdicts == {"true", "false", "error", "panic"}

Judges(g, doc, same) ==
  g = [f \in Filters |->
        IF f.t \in Group
        THEN Settled([i \in DOMAIN f.fs |-> g[f.fs[i]]],
                     IF f.t = "and" THEN "true" ELSE "false")
        ELSE IF f.t = "nil" THEN "true"
        ELSE IF f.t = "cmp" THEN evalCmp(doc, same, f)
        ELSE "error"]

LEMMA EvalCmpVerdict ==
  ASSUME NEW doc, NEW same, NEW c
  PROVE  evalCmp(doc, same, c) \in Verdicts
  BY DEF evalCmp, Verdicts

Unsettled(v, n, s) == Settled(v, s) = s /\ \A i \in 1 .. n : v[i] = s

SettledBy(v, n, s, i) ==
  Settled(v, s) = v[i] /\ v[i] # s /\ \A j \in 1 .. n : j < i => v[j] = s

LEMMA SettledIs ==
  ASSUME NEW n \in Nat, NEW v \in [1 .. n -> Verdicts], NEW s \in Verdicts
  PROVE  Unsettled(v, n, s) \/ \E i \in 1 .. n : SettledBy(v, n, s, i)
  <1> DEFINE others == {i \in 1 .. n : v[i] # s}
  <1>1. Settled(v, s) = IF others = {} THEN s ELSE v[Min(others)]
    BY DEF Settled
  <1>2. CASE others = {}
    BY <1>1, <1>2 DEF Unsettled
  <1>3. CASE others # {}
    <2>1. others \subseteq Nat
      BY SMT
    <2>2. Min(others) \in others /\ \A j \in others : Min(others) <= j
      <3> HIDE DEF others
      <3>1. QED
        BY <1>3, <2>1, MinIs
    <2> DEFINE i == Min(others)
    <2>3. i \in 1 .. n /\ v[i] # s /\ Settled(v, s) = v[i]
      BY <1>1, <1>3, <2>2
    <2>4. ASSUME NEW j \in 1 .. n, j < i  PROVE v[j] = s
      <3>1. ~(i <= j)
        <4> HIDE DEF i
        <4>1. QED
          BY <2>3, <2>4, SMT
      <3>2. QED
        BY <2>2, <3>1
    <2> HIDE DEF i
    <2>5. QED
      BY <2>3, <2>4 DEF SettledBy
  <1>4. QED
    BY <1>2, <1>3

LEMMA SettledVerdict ==
  ASSUME NEW n \in Nat, NEW v \in [1 .. n -> Verdicts], NEW s \in Verdicts
  PROVE  Settled(v, s) \in Verdicts
  <1>1. Unsettled(v, n, s) \/ \E i \in 1 .. n : SettledBy(v, n, s, i)
    BY SettledIs
  <1>2. QED
    BY <1>1 DEF Unsettled, SettledBy

LEMMA EvalIs ==
  ASSUME NEW doc, NEW same
  PROVE  /\ Judges(evalAny(doc, same), doc, same)
         /\ evalAny(doc, same) \in [Filters -> Verdicts]
  <1> DEFINE start(f) == IF f.t = "and" THEN "true" ELSE "false"
             grp == [f \in Filters |-> [v \in [DOMAIN f.fs -> Verdicts] |-> Settled(v, start(f))]]
             leaf == [f \in Filters |-> IF f.t = "nil" THEN "true"
                                        ELSE IF f.t = "cmp" THEN evalCmp(doc, same, f) ELSE "error"]
             c == CHOOSE g : Judges(g, doc, same)
  <1>1. \A f : start(f) \in Verdicts
    BY DEF Verdicts
  <1>2. ASSUME NEW f \in Filters, f.t \in Group, NEW v \in [DOMAIN f.fs -> Verdicts]
        PROVE  Settled(v, start(f)) \in Verdicts
    <2> HIDE DEF start
    <2>1. Len(f.fs) \in Nat /\ DOMAIN f.fs = 1 .. Len(f.fs)
      BY <1>2, FilterGroup
    <2>2. QED
      BY <1>1, <2>1, SettledVerdict
  <1>3. \A f \in Filters : leaf[f] \in Verdicts
    BY EvalCmpVerdict DEF Verdicts
  <1>4. Combines(Filters, Verdicts, grp, leaf)
    <2>1. \A f \in Filters : f.t \in Group => \A v \in [DOMAIN f.fs -> Verdicts] : grp[f][v] \in Verdicts
      BY <1>2
    <2>2. Verdicts # {}
      BY DEF Verdicts
    <2> HIDE DEF grp, leaf
    <2>3. QED
      BY <1>3, <2>1, <2>2 DEF Combines
  <1>5. PICK F : Combined(F, Filters, Verdicts, grp, leaf)
    <2> HIDE DEF grp, leaf
    <2>1. QED
      BY <1>4, FilterTree, TreeRecursion
  <1>6. Judges(F, doc, same)
    <2>1. F \in [Filters -> Verdicts]
      BY <1>5 DEF Combined
    <2>2. ASSUME NEW f \in Filters
          PROVE  F[f] = IF f.t \in Group THEN Settled([i \in DOMAIN f.fs |-> F[f.fs[i]]], start(f))
                                         ELSE leaf[f]
      <3>1. CASE f.t \in Group
        <4>1. F[f] = grp[f][[i \in DOMAIN f.fs |-> F[f.fs[i]]]]
          BY <3>1, <1>5 DEF Combined
        <4>2. [i \in DOMAIN f.fs |-> F[f.fs[i]]] \in [DOMAIN f.fs -> Verdicts]
          BY <3>1, <2>1, FilterGroup
        <4>3. QED
          BY <3>1, <4>1, <4>2
      <3>2. CASE f.t \notin Group
        <4> HIDE DEF leaf
        <4>1. QED
          BY <3>2, <1>5 DEF Combined
      <3>3. QED
        BY <3>1, <3>2
    <2>3. F = [f \in Filters |-> F[f]]
      BY <2>1
    <2>4. QED
      BY <2>2, <2>3 DEF Judges
  <1>7. Judges(c, doc, same)
    BY <1>6
  <1>8. evalAny(doc, same) = c
    BY DEF evalAny, Judges
  <1> HIDE DEF c, grp
  <1>9. \A f \in Filters : c[f] = IF f.t \in Group
                                  THEN Settled([i \in DOMAIN f.fs |-> c[f.fs[i]]], start(f))
                                  ELSE leaf[f]
    BY <1>7 DEF Judges
  <1> HIDE DEF leaf
  <1>10. Filters \subseteq {f \in Filters : c[f] \in Verdicts}
    <2> DEFINE T == {f \in Filters : c[f] \in Verdicts}
    <2>1. ASSUME NEW f \in Filters, f.t \in Group => \A i \in DOMAIN f.fs : f.fs[i] \in T
          PROVE  f \in T
      <3>1. CASE f.t \in Group
        <4>1. [i \in DOMAIN f.fs |-> c[f.fs[i]]] \in [DOMAIN f.fs -> Verdicts]
          BY <2>1, <3>1
        <4>2. QED
          BY <3>1, <4>1, <1>2, <1>9
      <3>2. CASE f.t \notin Group
        BY <3>2, <1>3, <1>9
      <3>3. QED
        BY <3>1, <3>2
    <2> HIDE DEF T
    <2>2. Filters \subseteq T
      BY <2>1, FilterInduction
    <2>3. QED
      BY <2>2 DEF T
  <1>11. c \in [Filters -> Verdicts]
    BY <1>7, <1>10 DEF Judges
  <1>12. QED
    BY <1>7, <1>8, <1>11

LEMMA EvalGroup ==
  ASSUME NEW doc, NEW same, NEW f \in Filters, f.t \in Group
  PROVE  LET vs == [i \in DOMAIN f.fs |-> eval(doc, same, f.fs[i])]
         IN  /\ eval(doc, same, f) = Settled(vs, IF f.t = "and" THEN "true" ELSE "false")
             /\ vs \in [1 .. Len(f.fs) -> Verdicts] /\ Len(f.fs) \in Nat
  <1> DEFINE g == evalAny(doc, same)
  <1>1. Judges(g, doc, same) /\ g \in [Filters -> Verdicts]
    BY EvalIs
  <1> HIDE DEF g
  <1>2. g[f] = Settled([i \in DOMAIN f.fs |-> g[f.fs[i]]], IF f.t = "and" THEN "true" ELSE "false")
    BY <1>1 DEF Judges
  <1>3. Len(f.fs) \in Nat /\ DOMAIN f.fs = 1 .. Len(f.fs) /\ \A i \in DOMAIN f.fs : f.fs[i] \in Filters
    BY FilterGroup
  <1>4. [i \in DOMAIN f.fs |-> g[f.fs[i]]] \in [1 .. Len(f.fs) -> Verdicts]
    BY <1>1, <1>3
  <1>5. QED
    BY <1>2, <1>3, <1>4 DEF eval, g

LEMMA EvalOther ==
  ASSUME NEW doc, NEW same, NEW f \in Filters, f.t \notin Group
  PROVE  eval(doc, same, f) = IF f.t = "nil" THEN "true"
                              ELSE IF f.t = "cmp" THEN evalCmp(doc, same, f) ELSE "error"
  <1>1. Judges(evalAny(doc, same), doc, same)
    BY EvalIs
  <1>2. QED
    BY <1>1 DEF Judges, eval

LEMMA EvalVerdict ==
  ASSUME NEW doc, NEW same, NEW f \in Filters
  PROVE  eval(doc, same, f) \in Verdicts
  BY EvalIs DEF eval

\* A filter settled without the message's own descriptor is settled the same with it.
LEMMA EvalAgrees ==
  ASSUME NEW doc, NEW same
  PROVE  \A f \in Filters : eval(doc, same, f) \in {"true", "false"} => eval(doc, TRUE, f) = eval(doc, same, f)
  <1> DEFINE T == {f \in Filters : eval(doc, same, f) \in {"true", "false"}
                                     => eval(doc, TRUE, f) = eval(doc, same, f)}
  <1>1. ASSUME NEW f \in Filters, f.t \in Group => \A i \in DOMAIN f.fs : f.fs[i] \in T
        PROVE  f \in T
    <2>1. CASE f.t \in Group
      <3> DEFINE n == Len(f.fs)
                 s == IF f.t = "and" THEN "true" ELSE "false"
                 v == [i \in DOMAIN f.fs |-> eval(doc, same, f.fs[i])]
                 w == [i \in DOMAIN f.fs |-> eval(doc, TRUE, f.fs[i])]
      <3>1. /\ n \in Nat /\ v \in [1 .. n -> Verdicts] /\ w \in [1 .. n -> Verdicts]
            /\ eval(doc, same, f) = Settled(v, s) /\ eval(doc, TRUE, f) = Settled(w, s)
        BY <2>1, EvalGroup
      <3>2. s \in {"true", "false"} /\ s \in Verdicts
        BY DEF Verdicts
      <3>3. \A i \in 1 .. n : v[i] \in {"true", "false"} => w[i] = v[i]
        BY <1>1, <2>1, FilterGroup
      <3>4. SUFFICES ASSUME Settled(v, s) \in {"true", "false"}  PROVE Settled(w, s) = Settled(v, s)
        BY <3>1
      <3> HIDE DEF n, s, v, w
      <3>5. CASE Unsettled(v, n, s)
        <4>1. \A i \in 1 .. n : w[i] = s
          BY <3>2, <3>3, <3>5 DEF Unsettled
        <4>2. Unsettled(w, n, s) \/ \E i \in 1 .. n : SettledBy(w, n, s, i)
          BY <3>1, <3>2, SettledIs
        <4>3. QED
          BY <3>5, <4>1, <4>2 DEF Unsettled, SettledBy
      <3>6. CASE \E i \in 1 .. n : SettledBy(v, n, s, i)
        <4>1. PICK i \in 1 .. n : SettledBy(v, n, s, i)
          BY <3>6
        <4>2. v[i] \in {"true", "false"} /\ \A j \in 1 .. n : j < i => v[j] = s
          BY <3>4, <4>1 DEF SettledBy
        <4>3. w[i] = v[i] /\ w[i] # s /\ \A j \in 1 .. n : j < i => w[j] = s
          BY <3>2, <3>3, <4>1, <4>2 DEF SettledBy
        <4>4. Unsettled(w, n, s) \/ \E k \in 1 .. n : SettledBy(w, n, s, k)
          BY <3>1, <3>2, SettledIs
        <4>5. PICK k \in 1 .. n : SettledBy(w, n, s, k)
          BY <4>3, <4>4 DEF Unsettled
        <4>6. ~(k < i) /\ ~(i < k)
          BY <4>3, <4>5 DEF SettledBy
        <4>7. k = i
          BY <4>6, SMT
        <4>8. QED
          BY <4>1, <4>3, <4>5, <4>7 DEF SettledBy
      <3>7. QED
        <4>1. Unsettled(v, n, s) \/ \E i \in 1 .. n : SettledBy(v, n, s, i)
          BY <3>1, <3>2, SettledIs
        <4>2. QED
          BY <3>5, <3>6, <4>1
    <2>2. CASE f.t \notin Group
      BY <2>2, EvalOther DEF evalCmp
    <2>3. QED
      BY <2>1, <2>2
  <1> HIDE DEF T
  <1>2. Filters \subseteq T
    BY <1>1, FilterInduction
  <1>3. QED
    BY <1>2 DEF T

------------------------------------------------------------------------------
(* The index seed leaves out nothing that matches.                           *)

LEMMA EqualityHolds ==
  ASSUME NEW a \in Int, NEW b \in Int, Holds("eq", cmp(a, b))
  PROVE  a = b
  BY SMT DEF Holds, cmp

LEMMA CandidateMatches ==
  ASSUME NEW doc, NEW f \in Filters, eval(doc, TRUE, f) = "true", NEW i \in DOMAIN candidates(f)
  PROVE  i \in Nat /\ candidates(f)[i] \in Filters /\ eval(doc, TRUE, candidates(f)[i]) = "true"
  <1>1. CASE f.t = "cmp"
    <2>1. candidates(f) = <<f>>
      BY <1>1 DEF candidates
    <2>2. i = 1
      BY <2>1, SMT
    <2>3. i \in Nat /\ candidates(f)[i] = f
      BY <2>1, <2>2, SMT
    <2>4. QED
      BY <2>3
  <1>2. CASE f.t = "and"
    <2> DEFINE n == Len(f.fs)
               v == [j \in DOMAIN f.fs |-> eval(doc, TRUE, f.fs[j])]
    <2>1. candidates(f) = f.fs /\ f.t \in Group
      BY <1>2 DEF candidates, Group
    <2>2. n \in Nat /\ DOMAIN f.fs = 1 .. n /\ \A j \in DOMAIN f.fs : f.fs[j] \in Filters
      BY <2>1, FilterGroup
    <2>3. v \in [1 .. n -> Verdicts] /\ Settled(v, "true") = "true"
      BY <1>2, <2>1, EvalGroup
    <2>4. \A j \in 1 .. n : v[j] = eval(doc, TRUE, f.fs[j])
      BY <2>2
    <2> HIDE DEF v, n
    <2>5. Unsettled(v, n, "true") \/ \E j \in 1 .. n : SettledBy(v, n, "true", j)
      BY <2>2, <2>3, SettledIs DEF Verdicts
    <2>6. \A j \in 1 .. n : v[j] = "true"
      BY <2>3, <2>5 DEF Unsettled, SettledBy
    <2>7. i \in 1 .. n
      BY <2>1, <2>2
    <2>8. i \in Nat
      BY <2>7, <2>2, SMT
    <2>9. QED
      BY <2>1, <2>2, <2>4, <2>6, <2>7, <2>8
  <1>3. CASE f.t # "cmp" /\ f.t # "and"
    <2>1. candidates(f) = << >>
      BY <1>3 DEF candidates
    <2>2. QED
      BY <2>1, SMT
  <1>4. QED
    BY <1>1, <1>2, <1>3

LEMMA SeedComplete ==
  ASSUME NEW f \in Filters, Seeds(f) # {}, NEW snap \in [Keys -> Docs \cup {None}],
         NEW k \in Keys, Matches(snap[k], f)
  PROVE  k \in indexSeed(snap, f)
  <1> DEFINE d == snap[k]
             i == Min(Seeds(f))
             c == candidates(f)[i]
  <1>1. d # None /\ d \in Docs /\ eval(d, TRUE, f) = "true"
    BY DEF Matches
  <1>2. Seeds(f) \subseteq DOMAIN candidates(f)
    BY DEF Seeds
  <1>3. Seeds(f) \subseteq Nat
    BY <1>1, <1>2, CandidateMatches
  <1>4. i \in Seeds(f)
    BY <1>3, MinIs
  <1>5. c \in Filters /\ eval(d, TRUE, c) = "true"
    BY <1>1, <1>2, <1>4, CandidateMatches
  <1>6. c.t = "cmp" /\ c.op = "eq" /\ c.field \in Indexed /\ c.value \in Vals
    BY <1>4 DEF Seeds
  <1> HIDE DEF d, i, c
  <1>7. c.t \notin Group
    BY <1>6 DEF Group
  <1>8. evalCmp(d, TRUE, c) = "true"
    BY <1>5, <1>6, <1>7, EvalOther
  <1>9. c.field \in Fields
    BY <1>6, QueryAssumption
  <1>10. Holds("eq", cmp(d[c.field], c.value))
    BY <1>6, <1>8, <1>9 DEF evalCmp
  <1>11. d[c.field] \in Int /\ c.value \in Int
    BY <1>1, <1>6, <1>9, QueryAssumption
  <1>12. d[c.field] = c.value
    BY <1>10, <1>11, EqualityHolds
  <1>13. QED
    BY <1>1, <1>12 DEF indexSeed, d, i, c

------------------------------------------------------------------------------
(* A filter's signature determines it.                                       *)

Alike(p, a, r, b) == p \o a = r \o b

LEMMA Regroup ==
  ASSUME NEW X, NEW p \in Seq(X), NEW a \in Seq(X), NEW s \in Seq(X),
         NEW r \in Seq(X), NEW b \in Seq(X), NEW u \in Seq(X),
         Alike(p \o a, s, r \o b, u)
  PROVE  Alike(p, a \o s, r, b \o u) /\ a \o s \in Seq(X) /\ b \o u \in Seq(X)
  <1>1. (p \o a) \o s = p \o (a \o s)
    BY SMT
  <1>2. (r \o b) \o u = r \o (b \o u)
    BY SMT
  <1>3. a \o s \in Seq(X) /\ b \o u \in Seq(X)
    BY SMT
  <1>4. QED
    BY <1>1, <1>2, <1>3 DEF Alike

LEMMA HeadAndRest ==
  ASSUME NEW X, NEW x \in X, NEW y \in X, NEW a \in Seq(X), NEW b \in Seq(X),
         Alike(<<x>>, a, <<y>>, b)
  PROVE  x = y /\ a = b
  <1> DEFINE u == <<x>> \o a
             v == <<y>> \o b
  <1>1. u[1] = x /\ v[1] = y
    BY SMT
  <1>2. Len(u) = Len(a) + 1 /\ Len(v) = Len(b) + 1
    BY SMT
  <1>3. /\ \A i \in 1 .. Len(a) : u[i + 1] = a[i]
        /\ \A i \in 1 .. Len(b) : v[i + 1] = b[i]
    BY SMT
  <1>4. u = v
    BY DEF Alike
  <1> HIDE DEF u, v
  <1>5. Len(a) = Len(b)
    BY <1>2, <1>4, SMT
  <1>6. \A i \in 1 .. Len(a) : a[i] = b[i]
    BY <1>3, <1>4, <1>5
  <1>7. QED
    BY <1>1, <1>4, <1>5, <1>6, SMT

Opening(f) == [t |-> f.t, n |-> Len(f.fs)]

Sym == {Opening(f) : f \in Filters} \cup {[t |-> "]"]} \cup {f \in Filters : f.t \notin Group}

Signs(g) ==
  g = [f \in Filters |->
        IF f.t \in Group
        THEN <<[t |-> f.t, n |-> Len(f.fs)]>> \o membersFrom([i \in DOMAIN f.fs |-> g[f.fs[i]]])[1]
        ELSE <<f>>]

LEMMA MembersFromSeq ==
  ASSUME NEW n \in Nat, NEW v \in [1 .. n -> Seq(Sym)]
  PROVE  /\ Len(v) = n
         /\ \A i \in 1 .. n + 1 : membersFrom(v)[i] \in Seq(Sym)
         /\ membersFrom(v)[n + 1] = End
         /\ \A i \in 1 .. n : membersFrom(v)[i] = v[i] \o membersFrom(v)[i + 1]
  <1>1. Len(v) = n
    BY SMT
  <1>2. [t |-> "]"] \in Sym
    BY DEF Sym
  <1>3. \A i \in 1 .. n : v[i] \in Seq(Sym)
    OBVIOUS
  <1>4. QED
    BY <1>1, <1>2, <1>3, TailIs

LEMMA GroupSeq ==
  ASSUME NEW f \in Filters, f.t \in Group, NEW v \in [DOMAIN f.fs -> Seq(Sym)]
  PROVE  <<Opening(f)>> \o membersFrom(v)[1] \in Seq(Sym)
  <1>1. Len(f.fs) \in Nat /\ DOMAIN f.fs = 1 .. Len(f.fs)
    BY FilterGroup
  <1>2. 1 \in 1 .. Len(f.fs) + 1
    BY <1>1, SMT
  <1>3. membersFrom(v)[1] \in Seq(Sym)
    BY <1>1, <1>2, MembersFromSeq
  <1>4. Opening(f) \in Sym
    BY DEF Sym
  <1>5. QED
    BY <1>3, <1>4, SMT

LEMMA SignatureIs == Signs(signature) /\ signature \in [Filters -> Seq(Sym)]
  <1> DEFINE grp == [f \in Filters |-> [v \in [DOMAIN f.fs -> Seq(Sym)] |->
                                          <<Opening(f)>> \o membersFrom(v)[1]]]
             leaf == [f \in Filters |-> <<f>>]
             c == CHOOSE g : Signs(g)
  <1>1. ASSUME NEW f \in Filters, f.t \notin Group  PROVE <<f>> \in Seq(Sym)
    <2>1. f \in Sym
      BY <1>1 DEF Sym
    <2>2. QED
      BY <2>1, SMT
  <1>2. Combines(Filters, Seq(Sym), grp, leaf)
    <2>1. \A f \in Filters : f.t \in Group => \A v \in [DOMAIN f.fs -> Seq(Sym)] : grp[f][v] \in Seq(Sym)
      BY GroupSeq
    <2>2. << >> \in Seq(Sym)
      BY SMT
    <2>3. \A f \in Filters : f.t \notin Group => leaf[f] \in Seq(Sym)
      BY <1>1
    <2> HIDE DEF grp, leaf
    <2>4. QED
      BY <2>1, <2>2, <2>3 DEF Combines
  <1>3. PICK F : Combined(F, Filters, Seq(Sym), grp, leaf)
    <2> HIDE DEF grp, leaf
    <2>1. QED
      BY <1>2, FilterTree, TreeRecursion
  <1>4. Signs(F)
    <2>1. F \in [Filters -> Seq(Sym)]
      BY <1>3 DEF Combined
    <2>2. ASSUME NEW f \in Filters
          PROVE  F[f] = IF f.t \in Group
                        THEN <<Opening(f)>> \o membersFrom([i \in DOMAIN f.fs |-> F[f.fs[i]]])[1]
                        ELSE <<f>>
      <3>1. CASE f.t \in Group
        <4>1. F[f] = grp[f][[i \in DOMAIN f.fs |-> F[f.fs[i]]]]
          BY <3>1, <1>3 DEF Combined
        <4>2. [i \in DOMAIN f.fs |-> F[f.fs[i]]] \in [DOMAIN f.fs -> Seq(Sym)]
          BY <3>1, <2>1, FilterGroup
        <4>3. QED
          BY <3>1, <4>1, <4>2
      <3>2. CASE f.t \notin Group
        BY <3>2, <1>3 DEF Combined
      <3>3. QED
        BY <3>1, <3>2
    <2>3. F = [f \in Filters |-> F[f]]
      BY <2>1
    <2>4. QED
      BY <2>2, <2>3 DEF Signs, Opening
  <1>5. Signs(c)
    BY <1>4
  <1>6. signature = c
    BY DEF signature, Signs
  <1> HIDE DEF c, grp, leaf
  <1>7. \A f \in Filters : c[f] = IF f.t \in Group
                                  THEN <<Opening(f)>> \o membersFrom([i \in DOMAIN f.fs |-> c[f.fs[i]]])[1]
                                  ELSE <<f>>
    BY <1>5 DEF Signs, Opening
  <1>8. Filters \subseteq {f \in Filters : c[f] \in Seq(Sym)}
    <2> DEFINE T == {f \in Filters : c[f] \in Seq(Sym)}
    <2>1. ASSUME NEW f \in Filters, f.t \in Group => \A i \in DOMAIN f.fs : f.fs[i] \in T
          PROVE  f \in T
      <3>1. CASE f.t \in Group
        <4>1. [i \in DOMAIN f.fs |-> c[f.fs[i]]] \in [DOMAIN f.fs -> Seq(Sym)]
          BY <2>1, <3>1
        <4>2. QED
          BY <3>1, <4>1, <1>7, GroupSeq
      <3>2. CASE f.t \notin Group
        BY <3>2, <1>1, <1>7
      <3>3. QED
        BY <3>1, <3>2
    <2> HIDE DEF T
    <2>2. Filters \subseteq T
      BY <2>1, FilterInduction
    <2>3. QED
      BY <2>2 DEF T
  <1>9. c \in [Filters -> Seq(Sym)]
    BY <1>5, <1>8 DEF Signs
  <1>10. QED
    BY <1>5, <1>6, <1>9

\* The signature of a group: its opening, and its members one after the other.
LEMMA SignatureGroup ==
  ASSUME NEW f \in Filters, f.t \in Group
  PROVE  \E tail :
           /\ signature[f] = <<Opening(f)>> \o tail[1]
           /\ \A i \in 1 .. Len(f.fs) + 1 : tail[i] \in Seq(Sym)
           /\ tail[Len(f.fs) + 1] = End
           /\ \A i \in 1 .. Len(f.fs) : tail[i] = signature[f.fs[i]] \o tail[i + 1]
  <1> DEFINE n == Len(f.fs)
             v == [i \in DOMAIN f.fs |-> signature[f.fs[i]]]
  <1>1. n \in Nat /\ DOMAIN f.fs = 1 .. n /\ \A i \in DOMAIN f.fs : f.fs[i] \in Filters
    BY FilterGroup
  <1>2. v \in [1 .. n -> Seq(Sym)] /\ \A i \in 1 .. n : v[i] = signature[f.fs[i]]
    BY <1>1, SignatureIs
  <1>3. signature[f] = <<Opening(f)>> \o membersFrom(v)[1]
    <2>1. Signs(signature)
      BY SignatureIs
    <2>2. QED
      BY <2>1 DEF Signs, Opening
  <1> HIDE DEF v, n
  <1>4. /\ \A i \in 1 .. n + 1 : membersFrom(v)[i] \in Seq(Sym)
        /\ membersFrom(v)[n + 1] = End
        /\ \A i \in 1 .. n : membersFrom(v)[i] = v[i] \o membersFrom(v)[i + 1]
    BY <1>1, <1>2, MembersFromSeq
  <1>5. \A i \in 1 .. n : membersFrom(v)[i] = signature[f.fs[i]] \o membersFrom(v)[i + 1]
    BY <1>2, <1>4
  <1>6. QED
    BY <1>3, <1>4, <1>5 DEF n

LEMMA SignatureOther ==
  ASSUME NEW f \in Filters, f.t \notin Group
  PROVE  signature[f] = <<f>> /\ f \in Sym
  <1>1. Signs(signature)
    BY SignatureIs
  <1>2. QED
    BY <1>1 DEF Signs, Sym

Prefixes(f) ==
  \A g \in Filters : \A s, u \in Seq(Sym) : Alike(signature[f], s, signature[g], u) => f = g /\ s = u

LEMMA OpeningIs ==
  /\ \A f : Opening(f).t = f.t
  /\ \A f, g : Opening(f) = Opening(g) => f.t = g.t /\ Len(f.fs) = Len(g.fs)
  BY SMT DEF Opening

\* What follows a symbol at the front of a signature.
LEMMA FirstSymbol ==
  ASSUME NEW f \in Filters
  PROVE  \E x, r : /\ x \in Sym /\ r \in Seq(Sym) /\ signature[f] = <<x>> \o r /\ x.t = f.t
                   /\ x = IF f.t \in Group THEN Opening(f) ELSE f
                   /\ f.t \notin Group => r = << >>
  <1>1. CASE f.t \in Group
    <2>1. PICK tail : /\ signature[f] = <<Opening(f)>> \o tail[1]
                      /\ \A i \in 1 .. Len(f.fs) + 1 : tail[i] \in Seq(Sym)
      BY <1>1, SignatureGroup
    <2>2. Len(f.fs) \in Nat
      BY <1>1, FilterGroup
    <2>3. 1 \in 1 .. Len(f.fs) + 1
      BY <2>2, SMT
    <2>4. Opening(f) \in Sym /\ Opening(f).t = f.t
      BY OpeningIs DEF Sym
    <2>5. QED
      BY <1>1, <2>1, <2>3, <2>4
  <1>2. CASE f.t \notin Group
    <2>1. signature[f] = <<f>> /\ f \in Sym
      BY <1>2, SignatureOther
    <2>2. <<f>> = <<f>> \o << >> /\ << >> \in Seq(Sym)
      BY <2>1, SMT
    <2>3. QED
      BY <1>2, <2>1, <2>2
  <1>3. QED
    BY <1>1, <1>2

\* Two groups whose members' signatures continue alike have the same members.
LEMMA MembersPrefix ==
  ASSUME NEW f \in Filters, f.t \in Group, \A i \in DOMAIN f.fs : Prefixes(f.fs[i]),
         NEW g \in Filters, g.t \in Group, NEW s \in Seq(Sym), NEW u \in Seq(Sym),
         Alike(signature[f], s, signature[g], u)
  PROVE  f = g /\ s = u
  <1> DEFINE n == Len(f.fs)
  <1>1. PICK a : /\ signature[f] = <<Opening(f)>> \o a[1]
                 /\ \A i \in 1 .. n + 1 : a[i] \in Seq(Sym)
                 /\ a[n + 1] = End /\ \A i \in 1 .. n : a[i] = signature[f.fs[i]] \o a[i + 1]
    BY SignatureGroup
  <1>2. PICK b : /\ signature[g] = <<Opening(g)>> \o b[1]
                 /\ \A i \in 1 .. Len(g.fs) + 1 : b[i] \in Seq(Sym)
                 /\ b[Len(g.fs) + 1] = End
                 /\ \A i \in 1 .. Len(g.fs) : b[i] = signature[g.fs[i]] \o b[i + 1]
    BY SignatureGroup
  <1>3. /\ n \in Nat /\ DOMAIN f.fs = 1 .. n /\ f = [t |-> f.t, fs |-> f.fs]
        /\ Len(g.fs) \in Nat /\ DOMAIN g.fs = 1 .. Len(g.fs) /\ g = [t |-> g.t, fs |-> g.fs]
        /\ f.fs \in Seq(Filters) /\ g.fs \in Seq(Filters)
        /\ \A i \in 1 .. n : f.fs[i] \in Filters
        /\ \A i \in 1 .. Len(g.fs) : g.fs[i] \in Filters
    BY FilterGroup
  <1>4. 1 \in 1 .. n + 1 /\ 1 \in 1 .. Len(g.fs) + 1
    BY <1>3, SMT
  <1>5. Opening(f) \in Sym /\ Opening(g) \in Sym /\ <<Opening(f)>> \in Seq(Sym) /\ <<Opening(g)>> \in Seq(Sym)
    <2>1. Opening(f) \in Sym /\ Opening(g) \in Sym
      BY DEF Sym
    <2>2. QED
      BY <2>1, SMT
  <1>6. a[1] \in Seq(Sym) /\ b[1] \in Seq(Sym)
    BY <1>1, <1>2, <1>4
  <1>7. Alike(<<Opening(f)>> \o a[1], s, <<Opening(g)>> \o b[1], u)
    BY <1>1, <1>2
  <1>8. /\ Alike(<<Opening(f)>>, a[1] \o s, <<Opening(g)>>, b[1] \o u)
        /\ a[1] \o s \in Seq(Sym) /\ b[1] \o u \in Seq(Sym)
    <2> DEFINE x == <<Opening(f)>>
               y == <<Opening(g)>>
    <2>1. x \in Seq(Sym) /\ y \in Seq(Sym) /\ Alike(x \o a[1], s, y \o b[1], u)
      BY <1>5, <1>7
    <2> HIDE DEF x, y
    <2>2. /\ Alike(x, a[1] \o s, y, b[1] \o u)
          /\ a[1] \o s \in Seq(Sym) /\ b[1] \o u \in Seq(Sym)
      BY <1>6, <2>1, Regroup
    <2>3. QED
      BY <2>2 DEF x, y
  <1>9. Opening(f) = Opening(g) /\ Alike(a[1], s, b[1], u)
    <2> DEFINE x == Opening(f)
               y == Opening(g)
               v == a[1] \o s
               w == b[1] \o u
    <2>1. /\ x \in Sym /\ y \in Sym /\ v \in Seq(Sym) /\ w \in Seq(Sym)
          /\ Alike(<<x>>, v, <<y>>, w)
      BY <1>5, <1>8
    <2> HIDE DEF x, y, v, w
    <2>2. x = y /\ v = w
      BY <2>1, HeadAndRest
    <2>3. QED
      BY <2>2 DEF x, y, v, w, Alike
  <1>10. f.t = g.t /\ Len(g.fs) = n
    BY <1>9, OpeningIs
  <1> DEFINE T == {i \in 0 .. n : /\ Alike(a[i + 1], s, b[i + 1], u)
                                  /\ \A j \in 1 .. i : f.fs[j] = g.fs[j]}
  <1>11. 0 \in T
    <2>1. 0 \in 0 .. n /\ 0 + 1 = 1 /\ \A j : ~(j \in 1 .. 0)
      BY <1>3, SMT
    <2>2. QED
      BY <2>1, <1>9
  <1>12. ASSUME NEW i \in 1 .. n, i - 1 \in T  PROVE i \in T
    <2>1. /\ i \in 0 .. n /\ (i - 1) + 1 = i /\ i \in 1 .. n + 1 /\ i + 1 \in 1 .. n + 1
          /\ \A j \in 1 .. i : j = i \/ j \in 1 .. (i - 1)
      BY <1>3, SMT
    <2>2. Alike(a[i], s, b[i], u) /\ \A j \in 1 .. (i - 1) : f.fs[j] = g.fs[j]
      BY <1>12, <2>1
    <2>3. /\ a[i] = signature[f.fs[i]] \o a[i + 1] /\ b[i] = signature[g.fs[i]] \o b[i + 1]
          /\ a[i + 1] \in Seq(Sym) /\ b[i + 1] \in Seq(Sym)
      BY <1>1, <1>2, <1>10, <2>1
    <2>4. signature[f.fs[i]] \in Seq(Sym) /\ signature[g.fs[i]] \in Seq(Sym)
      BY <1>3, <1>10, SignatureIs
    <2>5. Alike(signature[f.fs[i]] \o a[i + 1], s, signature[g.fs[i]] \o b[i + 1], u)
      BY <2>2, <2>3
    <2>6. /\ Alike(signature[f.fs[i]], a[i + 1] \o s, signature[g.fs[i]], b[i + 1] \o u)
          /\ a[i + 1] \o s \in Seq(Sym) /\ b[i + 1] \o u \in Seq(Sym)
      <3> DEFINE v == signature[f.fs[i]]
                 w == signature[g.fs[i]]
                 x == a[i + 1]
                 y == b[i + 1]
      <3>1. v \in Seq(Sym) /\ w \in Seq(Sym) /\ x \in Seq(Sym) /\ y \in Seq(Sym)
        BY <2>3, <2>4
      <3>2. Alike(v \o x, s, w \o y, u)
        BY <2>5
      <3> HIDE DEF v, w, x, y
      <3>3. Alike(v, x \o s, w, y \o u) /\ x \o s \in Seq(Sym) /\ y \o u \in Seq(Sym)
        BY <3>1, <3>2, Regroup
      <3>4. QED
        BY <3>3 DEF v, w, x, y
    <2>7. Prefixes(f.fs[i]) /\ g.fs[i] \in Filters
      BY <1>3, <1>10
    <2>8. f.fs[i] = g.fs[i] /\ a[i + 1] \o s = b[i + 1] \o u
      BY <2>6, <2>7 DEF Prefixes
    <2>9. QED
      BY <2>1, <2>2, <2>8 DEF Alike
  <1>13. 0 .. n \subseteq T
    <2> HIDE DEF T, n
    <2>1. QED
      BY <1>3, <1>11, <1>12, IndexInduction
  <1>14. n \in 0 .. n
    BY <1>3, SMT
  <1>15. Alike(End, s, End, u) /\ \A j \in 1 .. n : f.fs[j] = g.fs[j]
    BY <1>1, <1>2, <1>10, <1>13, <1>14
  <1> HIDE DEF n
  <1>16. s = u
    <2>1. [t |-> "]"] \in Sym
      BY DEF Sym
    <2>2. QED
      BY <1>15, <2>1, HeadAndRest DEF End
  <1>17. f.fs = g.fs
    <2> DEFINE fs == f.fs
               gs == g.fs
    <2>1. /\ fs \in Seq(Filters) /\ gs \in Seq(Filters) /\ Len(fs) = Len(gs)
          /\ \A j \in 1 .. Len(fs) : fs[j] = gs[j]
      BY <1>3, <1>10, <1>15 DEF n
    <2> HIDE DEF fs, gs
    <2>2. fs = gs
      BY <2>1, SMT
    <2>3. QED
      BY <2>2 DEF fs, gs
  <1>18. QED
    BY <1>3, <1>10, <1>16, <1>17

LEMMA SignaturePrefix == \A f \in Filters : Prefixes(f)
  <1> DEFINE T == {f \in Filters : Prefixes(f)}
  <1>1. ASSUME NEW f \in Filters, f.t \in Group => \A i \in DOMAIN f.fs : f.fs[i] \in T
        PROVE  f \in T
    <2>1. ASSUME NEW g \in Filters, NEW s \in Seq(Sym), NEW u \in Seq(Sym),
                 Alike(signature[f], s, signature[g], u)
          PROVE  f = g /\ s = u
      <3>1. CASE f.t \in Group /\ g.t \in Group
        <4>1. \A i \in DOMAIN f.fs : Prefixes(f.fs[i])
          BY <1>1, <3>1
        <4>2. QED
          BY <2>1, <3>1, <4>1, MembersPrefix
      <3>2. CASE f.t \notin Group \/ g.t \notin Group
        <4>1. PICK x, r : /\ x \in Sym /\ r \in Seq(Sym) /\ signature[f] = <<x>> \o r /\ x.t = f.t
                          /\ x = IF f.t \in Group THEN Opening(f) ELSE f
                          /\ f.t \notin Group => r = << >>
          BY FirstSymbol
        <4>2. PICK y, w : /\ y \in Sym /\ w \in Seq(Sym) /\ signature[g] = <<y>> \o w /\ y.t = g.t
                          /\ y = IF g.t \in Group THEN Opening(g) ELSE g
                          /\ g.t \notin Group => w = << >>
          BY FirstSymbol
        <4>3. <<x>> \in Seq(Sym) /\ <<y>> \in Seq(Sym)
          BY <4>1, <4>2, SMT
        <4>4. Alike(<<x>> \o r, s, <<y>> \o w, u)
          BY <2>1, <4>1, <4>2
        <4>5. Alike(<<x>>, r \o s, <<y>>, w \o u) /\ r \o s \in Seq(Sym) /\ w \o u \in Seq(Sym)
          BY <4>1, <4>2, <4>3, <4>4, Regroup
        <4>6. x = y /\ r \o s = w \o u
          BY <4>1, <4>2, <4>5, HeadAndRest
        <4>7. f.t \notin Group /\ g.t \notin Group
          BY <3>2, <4>1, <4>2, <4>6
        <4>8. << >> \o s = s /\ << >> \o u = u
          BY SMT
        <4>9. QED
          BY <4>1, <4>2, <4>6, <4>7, <4>8
      <3>3. QED
        BY <3>1, <3>2
    <2>2. QED
      BY <2>1 DEF Prefixes
  <1> HIDE DEF T
  <1>2. Filters \subseteq T
    BY <1>1, FilterInduction
  <1>3. QED
    BY <1>2 DEF T

\* Two filters with one signature are one filter (query.go:318-344): the text a
\* page token's hash is taken of tells every two queries apart.
THEOREM SignatureInjective ==
  \A f, g \in Filters : writeFilterSignature(f) = writeFilterSignature(g) => f = g
  <1> SUFFICES ASSUME NEW f \in Filters, NEW g \in Filters,
                      writeFilterSignature(f) = writeFilterSignature(g)
               PROVE  f = g
    OBVIOUS
  <1>1. Alike(signature[f], << >>, signature[g], << >>)
    BY DEF Alike, writeFilterSignature
  <1>2. << >> \in Seq(Sym)
    BY SMT
  <1>3. Prefixes(f)
    BY SignaturePrefix
  <1>4. QED
    BY <1>1, <1>2, <1>3 DEF Prefixes

------------------------------------------------------------------------------
(* The limits on filters.                                                    *)

LEMMA WireInduction ==
  ASSUME NEW T,
         \A f \in Wire : (f.t \in Group => \A i \in DOMAIN f.fs : f.fs[i] \in T) => f \in T
  PROVE  Wire \subseteq T
  <1>1. ASSUME NEW f \in Wire, \A h \in Wire : Height[h] < Height[f] => h \in T
        PROVE  f \in T
    <2>1. f.t \in Group => \A i \in DOMAIN f.fs : f.fs[i] \in T
      BY <1>1, WireGroup
    <2>2. QED
      BY <2>1
  <1>2. \A f \in Wire : Height[f] \in Nat
    BY WireAssumption
  <1>3. QED
    BY <1>1, <1>2, RankInduction

LEMMA SameTruth ==
  ASSUME NEW P \in BOOLEAN, NEW Q \in BOOLEAN, P <=> Q
  PROVE  P = Q
  OBVIOUS

\* Complete satisfies its equation.
Levels == 0 .. MaxDepth

CompleteBody(v, f, d) ==
  /\ d > 0
  /\ IF f.t \in Group THEN f.fs # << >> /\ \A i \in DOMAIN f.fs : v[i][d - 1]
                      ELSE f.t = "cmp" /\ f.op \in Ops

CompleteRow(g, f) ==
  [d \in Levels |-> CompleteBody([i \in DOMAIN f.fs |-> g[f.fs[i]]], f, d)]

Completes(g) == g = [f \in Filters |-> CompleteRow(g, f)]

LEMMA CompletionExists == \E g : Completes(g)
  <1> DEFINE B == [Levels -> BOOLEAN]
             grp == [f \in Filters |-> [v \in [DOMAIN f.fs -> B] |-> [d \in Levels |-> CompleteBody(v, f, d)]]]
             leaf == [f \in Filters |-> [d \in Levels |-> CompleteBody(0, f, d)]]
  <1>1. \A v, f, d : CompleteBody(v, f, d) \in BOOLEAN
    BY DEF CompleteBody
  <1>2. Combines(Filters, B, grp, leaf)
    <2>1. ASSUME NEW f \in Filters, NEW v \in [DOMAIN f.fs -> B]  PROVE grp[f][v] \in B
      BY <1>1
    <2>2. ASSUME NEW f \in Filters  PROVE leaf[f] \in B
      BY <1>1
    <2>3. [d \in Levels |-> TRUE] \in B
      OBVIOUS
    <2>4. B # {}
      BY <2>3
    <2> HIDE DEF grp, leaf, B
    <2>5. QED
      BY <2>1, <2>2, <2>4 DEF Combines
  <1>3. PICK F : Combined(F, Filters, B, grp, leaf)
    <2> HIDE DEF grp, leaf, B
    <2>1. QED
      BY <1>2, FilterTree, TreeRecursion
  <1>4. F \in [Filters -> B]
    BY <1>3 DEF Combined
  <1>5. ASSUME NEW f \in Filters
        PROVE  F[f] = CompleteRow(F, f)
    <2> DEFINE v == [i \in DOMAIN f.fs |-> F[f.fs[i]]]
    <2>1. CASE f.t \in Group
      <3>1. F[f] = grp[f][v]
        BY <2>1, <1>3 DEF Combined
      <3>2. v \in [DOMAIN f.fs -> B]
        <4> HIDE DEF B
        <4>1. QED
          BY <2>1, <1>4, FilterGroup
      <3>3. QED
        BY <3>1, <3>2 DEF CompleteRow
    <2>2. CASE f.t \notin Group
      <3>1. F[f] = leaf[f]
        BY <2>2, <1>3 DEF Combined
      <3>2. \A d \in Levels : CompleteBody(0, f, d) = CompleteBody(v, f, d)
        <4> SUFFICES ASSUME NEW d \in Levels  PROVE CompleteBody(0, f, d) = CompleteBody(v, f, d)
          OBVIOUS
        <4> HIDE DEF v
        <4>1. CompleteBody(0, f, d) <=> CompleteBody(v, f, d)
          BY <2>2 DEF CompleteBody
        <4>2. QED
          BY <1>1, <4>1, SameTruth
      <3> HIDE DEF v
      <3>3. leaf[f] = [d \in Levels |-> CompleteBody(v, f, d)]
        BY <3>2
      <3>4. QED
        BY <3>1, <3>3 DEF v, CompleteRow
    <2>3. QED
      BY <2>1, <2>2
  <1>6. F = [f \in Filters |-> F[f]]
    BY <1>4
  <1>7. QED
    BY <1>5, <1>6 DEF Completes

Level(g, f, d) ==
  /\ d > 0
  /\ IF f.t \in Group THEN f.fs # << >> /\ \A i \in DOMAIN f.fs : g[f.fs[i]][d - 1]
                      ELSE f.t = "cmp" /\ f.op \in Ops

LevelRow(g, f) == [d \in Levels |-> Level(g, f, d)]

LEMMA CompleteIs ==
  ASSUME NEW f \in Filters, NEW d \in Levels
  PROVE  Complete[f][d] = Level(Complete, f, d)
  <1>1. Complete = CHOOSE g : g = [h \in Filters |-> LevelRow(g, h)]
    BY DEF Complete, Levels, LevelRow, Level
  <1>2. ASSUME NEW g, NEW h, NEW e
        PROVE  CompleteBody([i \in DOMAIN h.fs |-> g[h.fs[i]]], h, e) = Level(g, h, e)
    <2> DEFINE v == [i \in DOMAIN h.fs |-> g[h.fs[i]]]
    <2>1. \A i \in DOMAIN h.fs : v[i] = g[h.fs[i]]
      OBVIOUS
    <2> HIDE DEF v
    <2>2. CompleteBody(v, h, e) <=> Level(g, h, e)
      BY <2>1 DEF CompleteBody, Level
    <2>3. CompleteBody(v, h, e) \in BOOLEAN /\ Level(g, h, e) \in BOOLEAN
      BY DEF CompleteBody, Level
    <2>4. CompleteBody(v, h, e) = Level(g, h, e)
      BY <2>2, <2>3, SameTruth
    <2>5. QED
      BY <2>4 DEF v
  <1>3. ASSUME NEW g, NEW h  PROVE CompleteRow(g, h) = LevelRow(g, h)
    BY <1>2 DEF CompleteRow, LevelRow
  <1>4. PICK g : Completes(g)
    BY CompletionExists
  <1>5. g = [h \in Filters |-> LevelRow(g, h)]
    BY <1>3, <1>4 DEF Completes
  <1>6. Complete = [h \in Filters |-> LevelRow(Complete, h)]
    BY <1>1, <1>5
  <1>7. Complete[f] = LevelRow(Complete, f)
    BY <1>6
  <1>8. QED
    BY <1>7 DEF LevelRow

\* Leaves satisfies its equation.
Counts(g) ==
  g = [f \in Filters |-> IF f.t \in Group THEN Total([i \in DOMAIN f.fs |-> g[f.fs[i]]])
                         ELSE IF f.t = "cmp" THEN 1 ELSE 0]

LEMMA TotalNat ==
  ASSUME NEW n \in Nat, NEW v \in [1 .. n -> Nat]
  PROVE  Total(v) \in Nat
  <1>1. Len(v) = n
    BY SMT
  <1>2. PICK sum \in [0 .. n -> Nat] : Total(v) = sum[n]
    BY <1>1, TotalIs
  <1>3. n \in 0 .. n
    BY SMT
  <1>4. QED
    BY <1>2, <1>3

LEMMA LeavesIs == Counts(Leaves) /\ Leaves \in [Filters -> Nat]
  <1> DEFINE grp == [f \in Filters |-> [v \in [DOMAIN f.fs -> Nat] |-> Total(v)]]
             leaf == [f \in Filters |-> IF f.t = "cmp" THEN 1 ELSE 0]
             c == CHOOSE g : Counts(g)
  <1>1. ASSUME NEW f \in Filters, f.t \in Group, NEW v \in [DOMAIN f.fs -> Nat]
        PROVE  Total(v) \in Nat
    <2>1. Len(f.fs) \in Nat /\ DOMAIN f.fs = 1 .. Len(f.fs)
      BY <1>1, FilterGroup
    <2>2. QED
      BY <2>1, TotalNat
  <1>2. 0 \in Nat /\ 1 \in Nat
    BY SMT
  <1>3. Combines(Filters, Nat, grp, leaf)
    <2>1. \A f \in Filters : f.t \in Group => \A v \in [DOMAIN f.fs -> Nat] : grp[f][v] \in Nat
      BY <1>1
    <2>2. \A f \in Filters : leaf[f] \in Nat
      BY <1>2
    <2> HIDE DEF grp, leaf
    <2>3. QED
      BY <1>2, <2>1, <2>2 DEF Combines
  <1>4. PICK F : Combined(F, Filters, Nat, grp, leaf)
    <2> HIDE DEF grp, leaf
    <2>1. QED
      BY <1>3, FilterTree, TreeRecursion
  <1>5. Counts(F)
    <2>1. F \in [Filters -> Nat]
      BY <1>4 DEF Combined
    <2>2. ASSUME NEW f \in Filters
          PROVE  F[f] = IF f.t \in Group THEN Total([i \in DOMAIN f.fs |-> F[f.fs[i]]])
                                         ELSE IF f.t = "cmp" THEN 1 ELSE 0
      <3>1. CASE f.t \in Group
        <4>1. F[f] = grp[f][[i \in DOMAIN f.fs |-> F[f.fs[i]]]]
          BY <3>1, <1>4 DEF Combined
        <4>2. [i \in DOMAIN f.fs |-> F[f.fs[i]]] \in [DOMAIN f.fs -> Nat]
          BY <3>1, <2>1, FilterGroup
        <4>3. QED
          BY <3>1, <4>1, <4>2
      <3>2. CASE f.t \notin Group
        BY <3>2, <1>4 DEF Combined
      <3>3. QED
        BY <3>1, <3>2
    <2>3. F = [f \in Filters |-> F[f]]
      BY <2>1
    <2>4. QED
      BY <2>2, <2>3 DEF Counts
  <1>6. Counts(c)
    BY <1>5
  <1>7. Leaves = c
    BY DEF Leaves, Counts
  <1> HIDE DEF c, grp, leaf
  <1>8. Filters \subseteq {f \in Filters : c[f] \in Nat}
    <2> DEFINE T == {f \in Filters : c[f] \in Nat}
    <2>1. ASSUME NEW f \in Filters, f.t \in Group => \A i \in DOMAIN f.fs : f.fs[i] \in T
          PROVE  f \in T
      <3>1. CASE f.t \in Group
        <4>1. [i \in DOMAIN f.fs |-> c[f.fs[i]]] \in [DOMAIN f.fs -> Nat]
          BY <2>1, <3>1
        <4>2. c[f] = Total([i \in DOMAIN f.fs |-> c[f.fs[i]]])
          BY <1>6, <3>1 DEF Counts
        <4>3. QED
          BY <3>1, <4>1, <4>2, <1>1
      <3>2. CASE f.t \notin Group
        BY <3>2, <1>2, <1>6 DEF Counts
      <3>3. QED
        BY <3>1, <3>2
    <2> HIDE DEF T
    <2>2. Filters \subseteq T
      BY <2>1, FilterInduction
    <2>3. QED
      BY <2>2 DEF T
  <1>9. c \in [Filters -> Nat]
    BY <1>6, <1>8 DEF Counts
  <1>10. QED
    BY <1>6, <1>7, <1>9

\* The leaves of a group are those of its members, added up.
LEMMA LeavesGroup ==
  ASSUME NEW g \in Filters, g.t \in Group
  PROVE  \E sum \in [0 .. Len(g.fs) -> Nat] :
           /\ sum[0] = 0 /\ \A i \in 1 .. Len(g.fs) : sum[i] = sum[i - 1] + Leaves[g.fs[i]]
           /\ Leaves[g] = sum[Len(g.fs)]
  <1> DEFINE n == Len(g.fs)
             v == [i \in DOMAIN g.fs |-> Leaves[g.fs[i]]]
  <1>1. n \in Nat /\ DOMAIN g.fs = 1 .. n /\ \A i \in DOMAIN g.fs : g.fs[i] \in Filters
    BY FilterGroup
  <1>2. v \in [1 .. n -> Nat] /\ \A i \in 1 .. n : v[i] = Leaves[g.fs[i]]
    BY <1>1, LeavesIs
  <1>3. Leaves[g] = Total(v)
    <2>1. Counts(Leaves)
      BY LeavesIs
    <2>2. QED
      BY <2>1 DEF Counts
  <1> HIDE DEF v, n
  <1>4. Len(v) = n
    BY <1>1, <1>2, SMT
  <1>5. PICK sum \in [0 .. n -> Nat] :
          sum[0] = 0 /\ (\A i \in 1 .. n : sum[i] = sum[i - 1] + v[i]) /\ Total(v) = sum[n]
    BY <1>1, <1>2, <1>4, TotalIs
  <1>6. QED
    BY <1>2, <1>3, <1>5 DEF n

\* toFilterWithLimits satisfies its equation.
Depths == 1 .. MaxDepth + 1

Budgets == 0 .. MaxPredicates

Conversions == [Depths -> [Budgets -> Lefts]]

BudgetBody(convs, f, depth, budget) ==
  IF f.t = "nil" THEN budget
  ELSE IF depth > MaxDepth THEN Refused
  ELSE IF f.t \in Group /\ f.fs # << >>
  THEN toFiltersWithLimits(convs, f.fs, depth + 1, budget)
  ELSE IF f.t = "cmp" /\ budget > 0 /\ toOp(f.op) \in Ops THEN budget - 1
  ELSE Refused

BudgetRow(convs, f) == [depth \in Depths |-> [budget \in Budgets |-> BudgetBody(convs, f, depth, budget)]]

MembersOf(g, f) == [i \in DOMAIN f.fs |-> g[f.fs[i]]]

Limits(g) == g = [f \in Wire |-> BudgetRow(MembersOf(g, f), f)]

LEMMA GroupThread ==
  ASSUME NEW f \in Wire, f.t \in Group, NEW convs \in [DOMAIN f.fs -> Conversions],
         NEW depth \in Depths, depth <= MaxDepth, NEW budget \in Budgets
  PROVE  \E left : Threaded(left, convs, f.fs, depth + 1, budget)
  <1> DEFINE e == depth + 1
  <1>1. Len(f.fs) \in Nat /\ DOMAIN f.fs = 1 .. Len(f.fs)
    BY WireGroup
  <1>2. e \in Depths
    BY QueryAssumption, SMT DEF Depths
  <1> HIDE DEF e
  <1>3. ASSUME NEW i \in 1 .. Len(f.fs), NEW b \in 0 .. MaxPredicates
        PROVE  convs[i][e][b] \in Lefts
    <2>1. convs[i] \in [Depths -> [Budgets -> Lefts]] /\ b \in Budgets
      BY <1>1 DEF Conversions, Budgets
    <2>2. convs[i][e] \in [Budgets -> Lefts]
      BY <1>2, <2>1
    <2>3. QED
      BY <2>1, <2>2
  <1>4. budget \in 0 .. MaxPredicates
    BY DEF Budgets
  <1>5. Yields(convs, f.fs, e)
    BY <1>1, <1>3 DEF Yields
  <1>6. \E left : Threaded(left, convs, f.fs, e, budget)
    BY <1>4, <1>5, ThreadIs
  <1>7. QED
    BY <1>6 DEF e

LEMMA BudgetRowType ==
  ASSUME NEW f \in Wire, NEW convs, f.t \in Group => convs \in [DOMAIN f.fs -> Conversions]
  PROVE  BudgetRow(convs, f) \in Conversions
  <1>1. ASSUME NEW d \in Depths, NEW b \in Budgets  PROVE BudgetBody(convs, f, d, b) \in Lefts
    <2>1. b \in Lefts /\ Refused \in Lefts
      BY LeftFacts DEF Budgets
    <2>2. b > 0 => b - 1 \in Lefts
      BY QueryAssumption, SMT DEF Budgets, Lefts
    <2>3. ASSUME f.t \in Group, ~(d > MaxDepth)
          PROVE  toFiltersWithLimits(convs, f.fs, d + 1, b) \in Lefts
      <3>1. d <= MaxDepth
        BY <2>3, QueryAssumption, SMT DEF Depths
      <3>2. PICK left : Threaded(left, convs, f.fs, d + 1, b)
        BY <2>3, <3>1, GroupThread
      <3>3. Len(f.fs) \in Nat
        BY <2>3, WireGroup
      <3>4. Len(f.fs) \in 0 .. Len(f.fs)
        BY <3>3, SMT
      <3>5. QED
        BY <3>2, <3>4 DEF Threaded
    <2>4. QED
      BY <2>1, <2>2, <2>3 DEF BudgetBody
  <1>2. QED
    BY <1>1 DEF BudgetRow, Conversions

LEMMA LimitsIs == Limits(toFilterWithLimits) /\ toFilterWithLimits \in [Wire -> Conversions]
  <1> DEFINE grp == [f \in Wire |-> [v \in [DOMAIN f.fs -> Conversions] |-> BudgetRow(v, f)]]
             leaf == [f \in Wire |-> BudgetRow(0, f)]
             c == CHOOSE g : Limits(g)
  <1>1. ASSUME NEW f \in Wire, f.t \notin Group, NEW v, NEW w
        PROVE  BudgetRow(v, f) = BudgetRow(w, f)
    BY <1>1 DEF BudgetRow, BudgetBody
  <1>2. Combines(Wire, Conversions, grp, leaf)
    <2>1. \A f \in Wire : f.t \in Group => \A v \in [DOMAIN f.fs -> Conversions] : grp[f][v] \in Conversions
      BY BudgetRowType
    <2>2. \A f \in Wire : f.t \notin Group => leaf[f] \in Conversions
      BY BudgetRowType
    <2>3. [d \in Depths |-> [b \in Budgets |-> Refused]] \in Conversions
      BY LeftFacts DEF Conversions
    <2>4. Conversions # {}
      BY <2>3
    <2> HIDE DEF grp, leaf
    <2>5. QED
      BY <2>1, <2>2, <2>4 DEF Combines
  <1>3. PICK F : Combined(F, Wire, Conversions, grp, leaf)
    <2> HIDE DEF grp, leaf
    <2>1. QED
      BY <1>2, WireTree, TreeRecursion
  <1>4. Limits(F)
    <2>1. F \in [Wire -> Conversions]
      BY <1>3 DEF Combined
    <2>2. ASSUME NEW f \in Wire  PROVE F[f] = BudgetRow(MembersOf(F, f), f)
      <3>1. CASE f.t \in Group
        <4>1. F[f] = grp[f][MembersOf(F, f)]
          BY <3>1, <1>3 DEF Combined, MembersOf
        <4>2. MembersOf(F, f) \in [DOMAIN f.fs -> Conversions]
          BY <3>1, <2>1, WireGroup DEF MembersOf
        <4>3. QED
          BY <3>1, <4>1, <4>2
      <3>2. CASE f.t \notin Group
        <4>1. F[f] = BudgetRow(0, f)
          BY <3>2, <1>3 DEF Combined
        <4>2. QED
          BY <3>2, <4>1, <1>1
      <3>3. QED
        BY <3>1, <3>2
    <2>3. F = [f \in Wire |-> F[f]]
      BY <2>1
    <2>4. QED
      BY <2>2, <2>3 DEF Limits
  <1>5. Limits(c)
    BY <1>4
  <1>6. toFilterWithLimits = c
    BY DEF toFilterWithLimits, Limits, BudgetRow, BudgetBody, MembersOf, Depths, Budgets
  <1> HIDE DEF c, grp, leaf
  <1>7. \A f \in Wire : c[f] = BudgetRow(MembersOf(c, f), f)
    BY <1>5 DEF Limits
  <1>8. Wire \subseteq {f \in Wire : c[f] \in Conversions}
    <2> DEFINE T == {f \in Wire : c[f] \in Conversions}
    <2>1. ASSUME NEW f \in Wire, f.t \in Group => \A i \in DOMAIN f.fs : f.fs[i] \in T
          PROVE  f \in T
      <3>1. f.t \in Group => MembersOf(c, f) \in [DOMAIN f.fs -> Conversions]
        BY <2>1 DEF MembersOf
      <3>2. BudgetRow(MembersOf(c, f), f) \in Conversions
        BY <3>1, BudgetRowType
      <3>3. QED
        BY <3>2, <1>7
    <2> HIDE DEF T
    <2>2. Wire \subseteq T
      BY <2>1, WireInduction
    <2>3. QED
      BY <2>2 DEF T
  <1>9. c \in [Wire -> Conversions]
    BY <1>5, <1>8 DEF Limits
  <1>10. QED
    BY <1>5, <1>6, <1>9

LEMMA LimitsBody ==
  ASSUME NEW f \in Wire, NEW d \in Depths, NEW b \in Budgets
  PROVE  toFilterWithLimits[f][d][b] = BudgetBody(MembersOf(toFilterWithLimits, f), f, d, b)
  <1>1. toFilterWithLimits[f] = BudgetRow(MembersOf(toFilterWithLimits, f), f)
    <2>1. Limits(toFilterWithLimits)
      BY LimitsIs
    <2>2. QED
      BY <2>1 DEF Limits
  <1>2. BudgetRow(MembersOf(toFilterWithLimits, f), f)[d] =
          [budget \in Budgets |-> BudgetBody(MembersOf(toFilterWithLimits, f), f, d, budget)]
    BY DEF BudgetRow
  <1>3. QED
    BY <1>1, <1>2

\* What a filter within the limits leaves of a budget.
Left(g, e, b) == IF Complete[g][e] /\ Leaves[g] <= b THEN b - Leaves[g] ELSE Refused

Within(f) ==
  \A d \in Depths, b \in Budgets :
    toFilterWithLimits[f][d][b] = IF f.t = "nil" THEN b ELSE Left(converted[f], MaxDepth + 1 - d, b)

LEMMA DepthLevel ==
  ASSUME NEW d \in Depths
  PROVE  /\ MaxDepth + 1 - d \in Levels /\ (MaxDepth + 1 - d > 0 <=> ~(d > MaxDepth))
         /\ ~(d > MaxDepth) => /\ d + 1 \in Depths /\ d <= MaxDepth
                               /\ MaxDepth + 1 - (d + 1) = (MaxDepth + 1 - d) - 1
                               /\ (MaxDepth + 1 - d) - 1 \in Levels
  BY QueryAssumption, SMT DEF Depths, Levels

LEMMA OtherWithin ==
  ASSUME NEW f \in Wire, f.t \notin Group
  PROVE  Within(f)
  <1> SUFFICES ASSUME NEW d \in Depths, NEW b \in Budgets, f.t # "nil"
               PROVE  toFilterWithLimits[f][d][b] = Left(converted[f], MaxDepth + 1 - d, b)
    BY LimitsBody DEF Within, BudgetBody
  <1> DEFINE g == converted[f]
             e == MaxDepth + 1 - d
  <1>1. toFilterWithLimits[f][d][b] =
          IF ~(d > MaxDepth) /\ f.t = "cmp" /\ b > 0 /\ toOp(f.op) \in Ops THEN b - 1 ELSE Refused
    BY LimitsBody DEF BudgetBody
  <1>2. g \in Filters /\ g.t = f.t /\ e \in Levels /\ (e > 0 <=> ~(d > MaxDepth))
    BY ConvertedTag, DepthLevel DEF Filters
  <1>3. f.t = "cmp" => g.op = toOp(f.op)
    BY ConvertedCmp
  <1> HIDE DEF g, e
  <1>4. Complete[g][e] <=> ~(d > MaxDepth) /\ f.t = "cmp" /\ (f.t = "cmp" => g.op \in Ops)
    <2>1. Complete[g][e] = Level(Complete, g, e)
      BY <1>2, CompleteIs
    <2>2. QED
      BY <1>2, <2>1 DEF Level
  <1>5. f.t = "cmp" => Leaves[g] = 1
    <2>1. Counts(Leaves)
      BY LeavesIs
    <2>2. QED
      BY <1>2, <2>1 DEF Counts
  <1>6. b > 0 <=> 1 <= b
    BY QueryAssumption, SMT DEF Budgets
  <1>7. CASE f.t = "cmp"
    BY <1>1, <1>3, <1>4, <1>5, <1>6, <1>7 DEF Left, g, e
  <1>8. CASE f.t # "cmp"
    BY <1>1, <1>4, <1>8 DEF Left, g, e
  <1>9. QED
    BY <1>7, <1>8

\* One member more: from what the ones before it left to what it leaves.
Leaving(ok, l, b) == IF ok /\ l <= b THEN b - l ELSE Refused

LeavingBoth(all, s, one, l, b) == IF all /\ one /\ s + l <= b THEN b - (s + l) ELSE Refused

Passes(x, y, all, s, one, l, b) ==
  x = Leaving(all, s, b) /\ y = IF x = Refused THEN Refused ELSE Leaving(one, l, x)

LEMMA OneMore ==
  ASSUME NEW b \in Budgets, NEW s \in Nat, NEW l \in Nat, NEW all, NEW one, NEW x, NEW y,
         Passes(x, y, all, s, one, l, b)
  PROVE  y = LeavingBoth(all, s, one, l, b)
  BY QueryAssumption, SMT DEF Budgets, Refused, Leaving, LeavingBoth, Passes

LEMMA GroupWithin ==
  ASSUME NEW f \in Wire, f.t \in Group, \A i \in DOMAIN f.fs : Within(f.fs[i])
  PROVE  Within(f)
  <1> SUFFICES ASSUME NEW d \in Depths, NEW b \in Budgets
               PROVE  toFilterWithLimits[f][d][b] = Left(converted[f], MaxDepth + 1 - d, b)
    BY DEF Within, Group
  <1> DEFINE g == converted[f]
             e == MaxDepth + 1 - d
             n == Len(f.fs)
             convs == MembersOf(toFilterWithLimits, f)
  <1>1. /\ n \in Nat /\ DOMAIN f.fs = 1 .. n /\ f.fs \in Seq(Wire)
        /\ \A i \in 1 .. n : f.fs[i] \in Wire
    BY WireGroup
  <1>2. /\ g \in Filters /\ g.t = f.t /\ Len(g.fs) = n /\ DOMAIN g.fs = 1 .. n
        /\ \A i \in 1 .. n : g.fs[i] = converted[f.fs[i]]
    BY <1>1, ConvertedGroup DEF Filters
  <1>3. e \in Levels /\ (e > 0 <=> ~(d > MaxDepth))
    BY DepthLevel
  <1>4. toFilterWithLimits[f][d][b] =
          IF ~(d > MaxDepth) /\ f.fs # << >> THEN toFiltersWithLimits(convs, f.fs, d + 1, b) ELSE Refused
    BY LimitsBody DEF BudgetBody, Group
  <1>5. f.fs # << >> <=> g.fs # << >>
    <2>1. f.fs # << >> <=> n # 0
      BY <1>1, SMT
    <2>2. g.fs \in Seq(Filters)
      BY <1>2, FilterGroup
    <2>3. g.fs # << >> <=> Len(g.fs) # 0
      BY <2>2, SMT
    <2>4. QED
      BY <1>2, <2>1, <2>3
  <1> HIDE DEF g, e
  <1>6. Complete[g][e] <=> /\ ~(d > MaxDepth) /\ f.fs # << >>
                           /\ \A i \in 1 .. n : Complete[g.fs[i]][e - 1]
    <2>1. Complete[g][e] = Level(Complete, g, e)
      BY <1>2, <1>3, CompleteIs
    <2>2. QED
      BY <1>2, <1>3, <1>5, <2>1 DEF Level
  <1>7. CASE d > MaxDepth \/ f.fs = << >>
    BY <1>4, <1>6, <1>7 DEF Left, g, e
  <1>8. CASE ~(d > MaxDepth) /\ f.fs # << >>
    <2>1. /\ d + 1 \in Depths /\ d <= MaxDepth
          /\ MaxDepth + 1 - (d + 1) = e - 1 /\ e - 1 \in Levels
      BY <1>8, DepthLevel DEF e
    <2>2. convs \in [DOMAIN f.fs -> Conversions] /\ \A i \in 1 .. n : convs[i] = toFilterWithLimits[f.fs[i]]
      BY <1>1, LimitsIs DEF MembersOf
    <2> HIDE DEF convs
    <2>3. PICK left : Threaded(left, convs, f.fs, d + 1, b)
      BY <2>1, <2>2, GroupThread
    <2>4. PICK sum \in [0 .. n -> Nat] :
            /\ sum[0] = 0 /\ \A i \in 1 .. n : sum[i] = sum[i - 1] + Leaves[g.fs[i]]
            /\ Leaves[g] = sum[n]
      <3>1. g \in Filters /\ g.t \in Group /\ Len(g.fs) = n
        BY <1>2
      <3> HIDE DEF g, n
      <3>2. QED
        BY <3>1, LeavesGroup
    <2> DEFINE all(i) == \A j \in 1 .. i : Complete[g.fs[j]][e - 1]
               T == {i \in 0 .. n : left[i] = IF all(i) /\ sum[i] <= b THEN b - sum[i] ELSE Refused}
    <2>5. 0 \in T
      <3>1. 0 \in 0 .. n /\ (\A j : ~(j \in 1 .. 0)) /\ 0 <= b /\ b - 0 = b
        BY <1>1, QueryAssumption, SMT DEF Budgets
      <3>2. left[0] = b
        BY <2>3 DEF Threaded
      <3>3. QED
        BY <2>4, <3>1, <3>2
    <2>6. ASSUME NEW i \in 1 .. n, i - 1 \in T  PROVE i \in T
      <3>1. /\ i \in 0 .. n /\ i - 1 \in 0 .. n
            /\ \A j \in 1 .. i : j = i \/ j \in 1 .. (i - 1)
            /\ i \in 1 .. i /\ \A j \in 1 .. (i - 1) : j \in 1 .. i
        BY <1>1, SMT
      <3>2. all(i) <=> all(i - 1) /\ Complete[g.fs[i]][e - 1]
        BY <3>1
      <3>3. left[i - 1] = Leaving(all(i - 1), sum[i - 1], b)
        BY <2>6 DEF Leaving
      <3>4. left[i] = After(convs, f.fs, d + 1, i, left[i - 1]) /\ left[i - 1] \in Lefts
        BY <2>3, <3>1 DEF Threaded
      <3>5. left[i - 1] = Refused => left[i] = Refused
        BY <3>4 DEF After
      <3>6. ASSUME left[i - 1] # Refused
            PROVE  left[i] = Leaving(Complete[g.fs[i]][e - 1], Leaves[g.fs[i]], left[i - 1])
        <4>1. left[i - 1] \in Budgets
          BY <3>4, <3>6, LeftFacts DEF Budgets
        <4>2. g.fs[i] \in Filters /\ g.fs[i] = converted[f.fs[i]] /\ f.fs[i] \in Wire
          BY <1>1, <1>2 DEF Filters
        <4>3. CASE f.fs[i].t = "nil"
          <5>1. g.fs[i].t = "nil"
            BY <4>2, <4>3, ConvertedTag
          <5>2. Complete[g.fs[i]][e - 1] = Level(Complete, g.fs[i], e - 1)
            BY <2>1, <4>2, CompleteIs
          <5>3. ~Complete[g.fs[i]][e - 1]
            BY <5>1, <5>2 DEF Level, Group
          <5>4. QED
            BY <3>4, <4>3, <5>3 DEF After, Leaving
        <4>4. CASE f.fs[i].t # "nil"
          <5>1. left[i] = toFilterWithLimits[f.fs[i]][d + 1][left[i - 1]]
            BY <2>2, <3>4, <3>6, <4>4 DEF After
          <5>2. Within(f.fs[i])
            BY <1>1
          <5>a. \A x \in Depths : \A y \in Budgets :
                  toFilterWithLimits[f.fs[i]][x][y] = Left(converted[f.fs[i]], MaxDepth + 1 - x, y)
            BY <4>4, <5>2 DEF Within
          <5>3. left[i] = Left(g.fs[i], MaxDepth + 1 - (d + 1), left[i - 1])
            BY <2>1, <4>1, <4>2, <5>1, <5>a
          <5>4. QED
            BY <2>1, <5>3 DEF Left, Leaving
        <4>5. QED
          BY <4>3, <4>4
      <3>7. sum[i - 1] \in Nat /\ Leaves[g.fs[i]] \in Nat /\ sum[i] = sum[i - 1] + Leaves[g.fs[i]]
        <4>1. g.fs[i] \in Filters
          BY <1>1, <1>2 DEF Filters
        <4>2. QED
          BY <2>4, <3>1, <4>1, LeavesIs
      <3> HIDE DEF all
      <3>8. left[i] = LeavingBoth(all(i - 1), sum[i - 1], Complete[g.fs[i]][e - 1], Leaves[g.fs[i]], b)
        <4> DEFINE a == all(i - 1)
                   o == Complete[g.fs[i]][e - 1]
                   s == sum[i - 1]
                   l == Leaves[g.fs[i]]
        <4>1. Passes(left[i - 1], left[i], a, s, o, l, b)
          BY <3>3, <3>5, <3>6 DEF Passes
        <4>2. s \in Nat /\ l \in Nat
          BY <3>7
        <4> HIDE DEF a, o, s, l
        <4>3. left[i] = LeavingBoth(a, s, o, l, b)
          BY <4>1, <4>2, OneMore
        <4>4. QED
          BY <4>3 DEF a, o, s, l
      <3>9. QED
        BY <3>1, <3>2, <3>7, <3>8 DEF LeavingBoth
    <2>7. 0 .. n \subseteq T
      <3> HIDE DEF T, n
      <3>1. QED
        BY <1>1, <2>5, <2>6, IndexInduction
    <2>8. n \in 0 .. n
      BY <1>1, SMT
    <2>9. left[n] = IF all(n) /\ Leaves[g] <= b THEN b - Leaves[g] ELSE Refused
      BY <2>4, <2>7, <2>8
    <2>10. toFilterWithLimits[f][d][b] = left[n]
      BY <1>4, <1>8, <2>3 DEF Threaded
    <2>11. QED
      BY <1>6, <1>8, <2>9, <2>10 DEF Left, g, e
  <1>9. QED
    BY <1>7, <1>8

LEMMA AllWithin == \A f \in Wire : Within(f)
  <1> DEFINE T == {f \in Wire : Within(f)}
  <1>1. ASSUME NEW f \in Wire, f.t \in Group => \A i \in DOMAIN f.fs : f.fs[i] \in T
        PROVE  f \in T
    BY <1>1, OtherWithin, GroupWithin
  <1> HIDE DEF T
  <1>2. Wire \subseteq T
    BY <1>1, WireInduction
  <1>3. QED
    BY <1>2 DEF T

\* The recursive conversion with its running depth and budget (server.go:148-197)
\* lets a wire filter through exactly when the filter it becomes is within both
\* limits, has no empty group and no unset part, for trees of any size and depth.
THEOREM AcceptsExactly == \A f \in Wire : Accepts(f) <=> Allowed(toFilter(f))
  <1> SUFFICES ASSUME NEW f \in Wire  PROVE Accepts(f) <=> Allowed(converted[f])
    BY DEF toFilter
  <1> DEFINE g == converted[f]
  <1>1. 1 \in Depths /\ MaxPredicates \in Budgets /\ MaxDepth + 1 - 1 = MaxDepth /\ MaxPredicates # Refused
    BY QueryAssumption, SMT DEF Depths, Budgets, Refused
  <1>2. toFilterWithLimits[f][1][MaxPredicates] =
          IF f.t = "nil" THEN MaxPredicates ELSE Left(g, MaxDepth, MaxPredicates)
    <2>1. Within(f)
      BY AllWithin
    <2>2. QED
      BY <1>1, <2>1 DEF Within
  <1>3. g \in Filters /\ g.t = f.t
    BY ConvertedTag DEF Filters
  <1> HIDE DEF g
  <1>4. Left(g, MaxDepth, MaxPredicates) # Refused
          <=> Complete[g][MaxDepth] /\ Leaves[g] <= MaxPredicates
    <2>1. Leaves[g] \in Nat
      BY <1>3, LeavesIs
    <2>2. Leaves[g] <= MaxPredicates => MaxPredicates - Leaves[g] # Refused
      BY <2>1, QueryAssumption, SMT DEF Refused
    <2>3. QED
      BY <2>2 DEF Left
  <1>5. QED
    BY <1>1, <1>2, <1>3, <1>4 DEF Accepts, Allowed, g

------------------------------------------------------------------------------
(* The inductive invariant.                                                  *)

Active == q.stage \in {"md", "view", "page"}

\* The keys a page request is about.
All(r) == {k \in Keys : k > cursor(r) /\ Matches(r.snap[k], r.filter)}

ViewShape(r) ==
  r = [stage |-> r.stage, filter |-> r.filter, size |-> r.size, token |-> r.token,
       unary |-> r.unary, md |-> r.md, snap |-> r.snap, seeded |-> r.seeded, msgMd |-> r.msgMd,
       todo |-> r.todo, results |-> r.results, more |-> r.more]

\* Half way through the candidates: what was returned lies below what is still
\* to be looked at, and together they hold every key that matches.
Served(r) ==
  /\ r.snap \in [Keys -> Docs \cup {None}]
  /\ r.todo \subseteq {k \in Keys : r.snap[k] # None /\ k > cursor(r)}
  /\ r.results \in Seq(Keys) /\ Ascends(r.results)
  /\ All(r) = Range(r.results) \cup {k \in r.todo : Matches(r.snap[k], r.filter)}
  /\ \A k \in Range(r.results), l \in r.todo : k < l
  /\ Len(r.results) <= r.size
  /\ r.more => Len(r.results) = r.size /\ \E l \in r.todo : Matches(r.snap[l], r.filter)

\* A token stands at the end of what was returned, and what has matched all
\* along was returned or lies after it.
TokenInv ==
  /\ trav \in Filters /\ Allowed(trav) /\ tok.from = trav /\ tok.hash = writeFilterSignature(trav)
  /\ acc # << >> /\ tok.last = acc[Len(acc)]
  /\ stable \subseteq Range(acc) \cup {k \in Keys : k > tok.last}

RequestInv ==
  /\ trav \in Filters /\ Allowed(trav) /\ q.filter = trav
  /\ q.token = tok /\ (tok = None => acc = << >>) /\ q.size \in Nat \ {0}

PageInv == (q.todo = {} \/ q.more) /\ ~(q.unary /\ q.more)

QInv ==
  /\ docs \in [Keys -> Docs \cup {None}]
  /\ acc \in Seq(Keys) /\ Ascends(acc)
  /\ stable \subseteq Keys /\ \A k \in stable : Matches(docs[k], trav)
  /\ tok # None => TokenInv
  /\ Active => RequestInv
  /\ q.stage \in {"view", "page"} =>
       ViewShape(q) /\ Served(q) /\ \A k \in stable : Matches(q.snap[k], trav)
  /\ q.stage = "page" => PageInv
  /\ q.stage = "refused" => q.wire \in Wire /\ ~Accepts(q.wire)

LEMMA KeysAreNumbers == Keys \subseteq Nat /\ Keys \subseteq Int /\ \A k \in Keys : k > 0
  BY QueryAssumption, SMT

LEMMA RangeIs ==
  ASSUME NEW S, NEW s \in Seq(S)
  PROVE  /\ Range(s) \subseteq S /\ Len(s) \in Nat /\ DOMAIN s = 1 .. Len(s)
         /\ \A k : k \in Range(s) <=> \E i \in 1 .. Len(s) : s[i] = k
         /\ \A i \in 1 .. Len(s) : s[i] \in S
  BY SMT DEF Range

LEMMA RangeAppend ==
  ASSUME NEW S, NEW s \in Seq(S), NEW k \in S
  PROVE  Range(Append(s, k)) = Range(s) \cup {k} /\ Append(s, k) \in Seq(S) /\ Len(Append(s, k)) = Len(s) + 1
  <1> DEFINE a == Append(s, k)
             n == Len(s)
  <1>1. /\ a \in Seq(S) /\ Len(a) = n + 1 /\ a[n + 1] = k /\ \A i \in 1 .. n : a[i] = s[i]
    BY SMT
  <1>2. n \in Nat
    BY SMT
  <1>3. n + 1 \in 1 .. n + 1 /\ \A i \in 1 .. n + 1 : i \in 1 .. n \/ i = n + 1
    BY <1>2, SMT
  <1>4. \A i \in 1 .. n : i \in 1 .. n + 1
    BY <1>2, SMT
  <1> HIDE DEF a
  <1>5. DOMAIN a = 1 .. n + 1 /\ DOMAIN s = 1 .. n
    BY <1>1, RangeIs
  <1>6. Range(a) = Range(s) \cup {k}
    BY <1>1, <1>3, <1>4, <1>5 DEF Range
  <1>7. QED
    BY <1>1, <1>6 DEF a

LEMMA AscendsAppend ==
  ASSUME NEW s \in Seq(Keys), Ascends(s), NEW k \in Keys, \A l \in Range(s) : l < k
  PROVE  Ascends(Append(s, k))
  <1> DEFINE a == Append(s, k)
             n == Len(s)
  <1>1. /\ Len(a) = n + 1 /\ a[n + 1] = k /\ \A i \in 1 .. n : a[i] = s[i]
    BY SMT
  <1>2. n \in Nat /\ DOMAIN a = 1 .. n + 1 /\ DOMAIN s = 1 .. n
    BY SMT
  <1> HIDE DEF a, n
  <1>3. ASSUME NEW i \in 1 .. n + 1, NEW j \in 1 .. n + 1, i < j  PROVE a[i] < a[j]
    <2>1. i \in 1 .. n /\ (j \in 1 .. n \/ j = n + 1)
      BY <1>2, <1>3, SMT
    <2>2. CASE j \in 1 .. n
      BY <1>1, <1>2, <1>3, <2>1, <2>2 DEF Ascends
    <2>3. CASE j = n + 1
      <3>1. s[i] \in Range(s)
        BY <1>2, <2>1 DEF Range
      <3>2. QED
        BY <1>1, <2>1, <2>3, <3>1
    <2>4. QED
      BY <2>1, <2>2, <2>3
  <1>4. QED
    BY <1>2, <1>3 DEF Ascends, a

LEMMA Concat ==
  ASSUME NEW s \in Seq(Keys), NEW u \in Seq(Keys)
  PROVE  /\ s \o u \in Seq(Keys) /\ Range(s \o u) = Range(s) \cup Range(u)
         /\ Len(s \o u) = Len(s) + Len(u)
         /\ \A i \in 1 .. Len(s) : (s \o u)[i] = s[i]
         /\ \A i \in 1 .. Len(u) : (s \o u)[Len(s) + i] = u[i]
         /\ \A i \in 1 .. Len(s) + Len(u) : i \in 1 .. Len(s) \/ \E j \in 1 .. Len(u) : i = Len(s) + j
  <1> DEFINE a == s \o u
             n == Len(s)
             m == Len(u)
  <1>1. /\ a \in Seq(Keys) /\ Len(a) = n + m
        /\ \A i \in 1 .. n : a[i] = s[i]
        /\ \A i \in 1 .. m : a[n + i] = u[i]
    BY SMT
  <1>2. n \in Nat /\ m \in Nat /\ DOMAIN s = 1 .. n /\ DOMAIN u = 1 .. m
    BY SMT
  <1> HIDE DEF a, n, m
  <1>3. DOMAIN a = 1 .. n + m
    BY <1>1, RangeIs
  <1>4. /\ \A i \in 1 .. n : i \in 1 .. n + m
        /\ \A i \in 1 .. m : n + i \in 1 .. n + m
    BY <1>2, SMT
  <1>5. ASSUME NEW i \in 1 .. n + m  PROVE i \in 1 .. n \/ \E j \in 1 .. m : i = n + j
    <2>1. CASE i <= n
      BY <1>2, <2>1, SMT
    <2>2. CASE ~(i <= n)
      <3>1. i - n \in 1 .. m /\ i = n + (i - n)
        BY <1>2, <2>2, SMT
      <3>2. QED
        BY <3>1
    <2>3. QED
      BY <2>1, <2>2
  <1>6. Range(a) = Range(s) \cup Range(u)
    <2>1. ASSUME NEW i \in 1 .. n + m  PROVE a[i] \in Range(s) \cup Range(u)
      <3>1. CASE i \in 1 .. n
        BY <1>1, <1>2, <3>1 DEF Range
      <3>2. CASE \E j \in 1 .. m : i = n + j
        BY <1>1, <1>2, <3>2 DEF Range
      <3>3. QED
        BY <1>5, <3>1, <3>2
    <2>2. \A i \in 1 .. n : s[i] \in Range(a)
      BY <1>1, <1>3, <1>4 DEF Range
    <2>3. \A i \in 1 .. m : u[i] \in Range(a)
      BY <1>1, <1>3, <1>4 DEF Range
    <2>4. Range(a) \subseteq Range(s) \cup Range(u)
      BY <1>3, <2>1 DEF Range
    <2>5. Range(s) \subseteq Range(a)
      BY <1>2, <2>2 DEF Range
    <2>6. Range(u) \subseteq Range(a)
      BY <1>2, <2>3 DEF Range
    <2>7. QED
      BY <2>4, <2>5, <2>6
  <1>7. QED
    BY <1>1, <1>5, <1>6 DEF a, n, m

LEMMA AscendsConcat ==
  ASSUME NEW s \in Seq(Keys), Ascends(s), NEW u \in Seq(Keys), Ascends(u),
         \A k \in Range(s), l \in Range(u) : k < l
  PROVE  Ascends(s \o u)
  <1> DEFINE a == s \o u
             n == Len(s)
             m == Len(u)
  <1>1. /\ a \in Seq(Keys) /\ Len(a) = n + m
        /\ \A i \in 1 .. n : a[i] = s[i]
        /\ \A i \in 1 .. m : a[n + i] = u[i]
        /\ \A i \in 1 .. n + m : i \in 1 .. n \/ \E j \in 1 .. m : i = n + j
    BY Concat
  <1>2. n \in Nat /\ m \in Nat /\ DOMAIN s = 1 .. n /\ DOMAIN u = 1 .. m
    BY SMT
  <1> HIDE DEF a, n, m
  <1>3. DOMAIN a = 1 .. n + m
    BY <1>1, RangeIs
  <1>4. ASSUME NEW i \in 1 .. n + m, NEW j \in 1 .. n + m, i < j  PROVE a[i] < a[j]
    <2>1. CASE i \in 1 .. n /\ j \in 1 .. n
      BY <1>1, <1>2, <1>4, <2>1 DEF Ascends
    <2>2. ASSUME NEW c \in 1 .. m, j = n + c, i \in 1 .. n  PROVE a[i] < a[j]
      <3>1. a[i] = s[i] /\ a[j] = u[c] /\ s[i] \in Range(s) /\ u[c] \in Range(u)
        BY <1>1, <1>2, <2>2 DEF Range
      <3>2. QED
        BY <3>1
    <2>3. ASSUME NEW b \in 1 .. m, i = n + b, NEW c \in 1 .. m, j = n + c  PROVE a[i] < a[j]
      <3>1. b < c
        BY <1>2, <1>4, <2>3, SMT
      <3>2. u[b] < u[c]
        BY <1>2, <3>1 DEF Ascends
      <3>3. QED
        BY <1>1, <2>3, <3>2
    <2>4. ASSUME NEW b \in 1 .. m, i = n + b, j \in 1 .. n  PROVE FALSE
      BY <1>2, <1>4, <2>4, SMT
    <2>5. QED
      BY <1>1, <2>1, <2>2, <2>3, <2>4
  <1>5. QED
    BY <1>3, <1>4 DEF Ascends, a

\* The last of an ascending sequence is its greatest.
LEMMA LastGreatest ==
  ASSUME NEW s \in Seq(Keys), Ascends(s), s # << >>
  PROVE  s[Len(s)] \in Keys /\ s[Len(s)] \in Range(s) /\ \A k \in Range(s) : k <= s[Len(s)]
  <1> DEFINE n == Len(s)
  <1>1. n \in Nat \ {0}
    BY SMT
  <1>2. DOMAIN s = 1 .. n /\ \A i \in 1 .. n : s[i] \in Keys
    BY RangeIs
  <1> HIDE DEF n
  <1>3. n \in 1 .. n /\ \A i \in 1 .. n : i = n \/ i < n
    BY <1>1, SMT
  <1>4. s[n] \in Keys /\ s[n] \in Range(s)
    BY <1>2, <1>3 DEF Range
  <1>5. ASSUME NEW k \in Range(s)  PROVE k <= s[n]
    <2>1. PICK i \in 1 .. n : s[i] = k
      BY <1>2 DEF Range
    <2>2. s[i] = s[n] \/ s[i] < s[n]
      BY <1>2, <1>3 DEF Ascends
    <2>3. s[i] \in Int /\ s[n] \in Int
      BY <1>2, <1>4, KeysAreNumbers
    <2>4. QED
      BY <2>1, <2>2, <2>3, SMT
  <1>6. QED
    BY <1>4, <1>5 DEF n

------------------------------------------------------------------------------
(* What the invariant says of a request.                                     *)

LEMMA ActiveStages == q.stage \in {"view", "page"} => Active
  BY DEF Active

LEMMA CursorIs ==
  ASSUME QInv, Active
  PROVE  /\ cursor(q) = IF tok = None THEN 0 ELSE tok.last
         /\ cursor(q) \in Int /\ \A k \in Range(acc) : k <= cursor(q)
  <1>1. RequestInv
    BY DEF QInv
  <1>2. cursor(q) = IF tok = None THEN 0 ELSE tok.last
    BY <1>1 DEF RequestInv, cursor
  <1>3. CASE tok = None
    <2>1. acc = << >>
      BY <1>1, <1>3 DEF RequestInv
    <2>2. Range(acc) = {}
      BY <2>1, SMT DEF Range
    <2>3. 0 \in Int
      BY SMT
    <2>4. QED
      BY <1>2, <1>3, <2>2, <2>3
  <1>4. CASE tok # None
    <2>1. acc # << >> /\ tok.last = acc[Len(acc)] /\ acc \in Seq(Keys) /\ Ascends(acc)
      BY <1>4 DEF QInv, TokenInv
    <2>2. tok.last \in Keys /\ \A k \in Range(acc) : k <= tok.last
      BY <2>1, LastGreatest
    <2>3. QED
      BY <1>2, <1>4, <2>2, KeysAreNumbers
  <1>5. QED
    BY <1>3, <1>4

\* The keys of the page come after those of the pages before it.
LEMMA PagesFollow ==
  ASSUME QInv, q.stage = "page"
  PROVE  \A k \in Range(acc), l \in Range(q.results) : k < l
  <1> SUFFICES ASSUME NEW k \in Range(acc), NEW l \in Range(q.results)  PROVE k < l
    OBVIOUS
  <1>1. Active /\ Served(q)
    BY DEF QInv, Active
  <1>2. k <= cursor(q) /\ cursor(q) \in Int
    BY <1>1, CursorIs
  <1>3. l \in All(q)
    BY <1>1 DEF Served
  <1>4. l \in Keys /\ l > cursor(q)
    BY <1>3 DEF All
  <1>5. k \in Keys
    <2>1. acc \in Seq(Keys)
      BY DEF QInv
    <2>2. QED
      BY <2>1, RangeIs
  <1>6. k \in Int /\ l \in Int
    BY <1>4, <1>5, KeysAreNumbers
  <1>7. QED
    BY <1>2, <1>4, <1>6, SMT

\* What has matched all along is on an earlier page, on this one, or to come.
LEMMA StableSomewhere ==
  ASSUME QInv, q.stage = "page", NEW k \in stable
  PROVE  k \in Range(acc) \/ k \in All(q)
  <1>1. Active /\ k \in Keys /\ Matches(q.snap[k], trav) /\ q.filter = trav
    BY DEF QInv, Active, RequestInv
  <1>2. cursor(q) = IF tok = None THEN 0 ELSE tok.last
    BY <1>1, CursorIs
  <1>3. CASE tok = None
    BY <1>1, <1>2, <1>3, KeysAreNumbers DEF All
  <1>4. CASE tok # None
    <2>1. k \in Range(acc) \/ k > tok.last
      BY <1>4 DEF QInv, TokenInv
    <2>2. QED
      BY <1>1, <1>2, <1>4, <2>1 DEF All
  <1>5. QED
    BY <1>3, <1>4

LEMMA InvPageExact == QInv => PageExact
  <1> SUFFICES ASSUME QInv, q.stage = "page"  PROVE PageExact
    BY DEF PageExact
  <1> DEFINE rest == All(q) \ Range(q.results)
  <1>1. Served(q) /\ PageInv
    BY DEF QInv
  <1>2. /\ Ascends(q.results) /\ Range(q.results) \subseteq All(q)
        /\ \A l \in rest : l \in q.todo
        /\ \A k \in Range(q.results), l \in q.todo : k < l
    BY <1>1 DEF Served
  <1>3. ASSUME q.more  PROVE rest # {} /\ Len(q.results) = q.size /\ ~q.unary
    <2>1. PICK l \in q.todo : Matches(q.snap[l], q.filter)
      BY <1>1, <1>3 DEF Served
    <2>2. l \in All(q) /\ l \in Keys
      BY <1>1, <2>1 DEF Served
    <2>3. l \notin Range(q.results)
      <3>1. ~(l < l)
        <4>1. l \in Int
          BY <2>2, KeysAreNumbers
        <4>2. QED
          BY <4>1, SMT
      <3>2. QED
        BY <1>2, <3>1
    <2>4. QED
      BY <1>1, <1>3, <2>2, <2>3 DEF Served, PageInv
  <1>4. ASSUME ~q.more  PROVE rest = {} /\ Len(q.results) <= q.size
    <2>1. q.todo = {}
      BY <1>1, <1>4 DEF PageInv
    <2>2. QED
      BY <1>1, <1>2, <2>1 DEF Served
  <1>5. \A k \in Range(q.results), l \in rest : k < l
    BY <1>2
  <1>6. QED
    BY <1>2, <1>3, <1>4, <1>5 DEF PageExact, All

LEMMA InvTraversalAscends == QInv => TraversalAscends
  <1> SUFFICES ASSUME QInv  PROVE TraversalAscends
    OBVIOUS
  <1>1. acc \in Seq(Keys) /\ Ascends(acc)
    BY DEF QInv
  <1>2. ASSUME q.stage = "page"  PROVE Ascends(acc \o q.results)
    <2>1. q.results \in Seq(Keys) /\ Ascends(q.results)
      BY <1>2 DEF QInv, Served
    <2>2. QED
      BY <1>1, <1>2, <2>1, PagesFollow, AscendsConcat
  <1>3. QED
    BY <1>1, <1>2 DEF TraversalAscends

LEMMA InvStableReturned == QInv => StableReturned
  <1> SUFFICES ASSUME QInv, q.stage = "page", ~q.more, NEW k \in stable
               PROVE  k \in Range(acc \o q.results)
    BY DEF StableReturned
  <1>1. Served(q) /\ PageInv /\ acc \in Seq(Keys)
    BY DEF QInv
  <1>2. q.results \in Seq(Keys) /\ All(q) = Range(q.results)
    <2>1. q.todo = {}
      BY <1>1 DEF PageInv
    <2>2. QED
      BY <1>1, <2>1 DEF Served
  <1>3. k \in Range(acc) \/ k \in Range(q.results)
    BY <1>2, StableSomewhere
  <1>4. Range(acc \o q.results) = Range(acc) \cup Range(q.results)
    BY <1>1, <1>2, Concat
  <1>5. QED
    BY <1>3, <1>4

LEMMA InvTokenBinds == QInv => TokenBinds
  BY DEF QInv, TokenBinds, Active, RequestInv, TokenInv

LEMMA InvFilterLimits == QInv => FilterLimits
  BY AcceptsExactly DEF QInv, FilterLimits, Active, RequestInv

LEMMA InvInit == Init => QInv
  <1> SUFFICES ASSUME Init  PROVE QInv
    OBVIOUS
  <1>1. q.stage = "idle"
    BY SMT DEF Init, Idle
  <1>2. acc \in Seq(Keys) /\ Ascends(acc)
    BY SMT DEF Init, Ascends
  <1>3. QED
    BY <1>1, <1>2 DEF Init, QInv, Active

------------------------------------------------------------------------------
(* Every step keeps it.                                                      *)

\* A step that only ends the request, one way or another.
LEMMA KeptWithoutRequest ==
  ASSUME QInv, UNCHANGED <<docs, tok, acc, trav, stable>>,
         q'.stage \notin {"md", "view", "page", "refused"}
  PROVE  QInv'
  BY DEF QInv, Active, TokenInv

LEMMA KeptByFirst ==
  ASSUME QInv, NEW f \in Filters, Allowed(f), NEW size \in Int, NEW unary, Call(f, size, None, unary)
  PROVE  QInv'
  <1>1. /\ acc' = << >> /\ tok' = None /\ trav' = f /\ docs' = docs
        /\ stable' = {k \in Keys : Matches(docs[k], f)}
    BY DEF Call
  <1>2. acc' \in Seq(Keys) /\ Ascends(acc')
    BY <1>1, SMT DEF Ascends
  <1>3. docs' \in [Keys -> Docs \cup {None}] /\ stable' \subseteq Keys /\ \A k \in stable' : Matches(docs'[k], trav')
    BY <1>1 DEF QInv
  <1>4. CASE size <= 0 \/ ~parsePageToken(None, f)
    <2>1. q' = [stage |-> "error"]
      BY <1>4 DEF Call
    <2>2. q'.stage = "error"
      BY <2>1, SMT
    <2>3. QED
      BY <1>1, <1>2, <1>3, <2>2 DEF QInv, Active
  <1>5. CASE ~(size <= 0 \/ ~parsePageToken(None, f))
    <2>1. q' = [stage |-> "md", filter |-> f, size |-> size, token |-> None,
                unary |-> unary, md |-> gen]
      BY <1>5 DEF Call
    <2>2. q'.stage = "md" /\ q'.filter = f /\ q'.size = size /\ q'.token = None
      BY <2>1, SMT
    <2>3. size \in Nat \ {0}
      BY <1>5, SMT
    <2>4. RequestInv'
      BY <1>1, <2>2, <2>3 DEF RequestInv
    <2>5. QED
      BY <1>1, <1>2, <1>3, <2>2, <2>4 DEF QInv, Active
  <1>6. QED
    BY <1>4, <1>5

LEMMA KeptByNext ==
  ASSUME QInv, NEW f \in Filters, NEW size \in Int, NEW unary, tok # None, Call(f, size, tok, unary)
  PROVE  QInv'
  <1>1. UNCHANGED <<docs, tok, acc, trav, stable>>
    BY DEF Call
  <1>2. TokenInv
    BY DEF QInv
  <1>3. CASE size <= 0 \/ ~parsePageToken(tok, f)
    <2>1. q' = [stage |-> "error"]
      BY <1>3 DEF Call
    <2>2. q'.stage = "error"
      BY <2>1, SMT
    <2>3. QED
      BY <1>1, <2>2, KeptWithoutRequest
  <1>4. CASE ~(size <= 0 \/ ~parsePageToken(tok, f))
    <2>1. q' = [stage |-> "md", filter |-> f, size |-> size, token |-> tok,
                unary |-> unary, md |-> gen]
      BY <1>4 DEF Call
    <2>2. q'.stage = "md" /\ q'.filter = f /\ q'.size = size /\ q'.token = tok
      BY <2>1, SMT
    <2>3. size \in Nat \ {0}
      BY <1>4, SMT
    <2>4. f = trav
      <3>1. writeFilterSignature(f) = writeFilterSignature(trav) /\ trav \in Filters
        BY <1>2, <1>4 DEF TokenInv, parsePageToken
      <3>2. QED
        BY <3>1, SignatureInjective
    <2>5. RequestInv'
      BY <1>1, <1>2, <2>2, <2>3, <2>4 DEF RequestInv, TokenInv
    <2>6. QED
      BY <1>1, <2>2, <2>5 DEF QInv, Active, TokenInv
  <1>5. QED
    BY <1>3, <1>4

LEMMA KeptByCall ==
  ASSUME QInv, NEW f \in Filters, Allowed(f), NEW size \in Int, NEW token \in {None, tok}, NEW unary,
         Call(f, size, token, unary)
  PROVE  QInv'
  BY KeptByFirst, KeptByNext

LEMMA KeptByQueryRPC ==
  ASSUME QInv, NEW f \in Asked, NEW size \in Sizes, NEW t \in {None, tok}, QueryRPC(f, size, t)
  PROVE  QInv'
  <1>1. f \in Wire /\ size \in Int /\ Limit \in Int
    BY QueryAssumption, SMT
  <1>2. CASE ~Accepts(f)
    <2>1. q' = [stage |-> "refused", wire |-> f] /\ UNCHANGED <<docs, tok, acc, trav, stable>>
      BY <1>2 DEF QueryRPC, Refuse
    <2>2. q'.stage = "refused" /\ q'.wire = f
      BY <2>1, SMT
    <2>3. QED
      BY <1>1, <1>2, <2>1, <2>2 DEF QInv, Active, TokenInv, Accepts
  <1>3. CASE Accepts(f)
    <2>1. toFilter(f) \in Filters
      BY <1>1 DEF toFilter, Filters
    <2>2. Allowed(toFilter(f))
      BY <1>1, <1>3, AcceptsExactly
    <2>3. CASE size < 0 \/ size > Limit
      <3>1. q' = [stage |-> "error"] /\ UNCHANGED <<docs, tok, acc, trav, stable>>
        <4>1. size # 0
          BY <1>1, <2>3, QueryAssumption, SMT
        <4>2. QED
          BY <1>3, <2>3, <4>1 DEF QueryRPC, Refuse
      <3>2. q'.stage = "error"
        BY <3>1, SMT
      <3>3. QED
        BY <3>1, <3>2, KeptWithoutRequest
    <2>4. CASE ~(size < 0 \/ size > Limit)
      <3>1. Call(toFilter(f), Limit, None, TRUE) \/ Call(toFilter(f), size, t, FALSE)
        BY <1>3, <2>4 DEF QueryRPC
      <3>2. QED
        BY <1>1, <2>1, <2>2, <3>1, KeptByCall
    <2>5. QED
      BY <2>3, <2>4
  <1>4. QED
    BY <1>2, <1>3

\* A single comparison is always within the limits.
LEMMA ComparisonAllowed == \A f \in Comparisons : f \in Filters /\ Allowed(f)
  <1> SUFFICES ASSUME NEW f \in Comparisons  PROVE f \in Filters /\ Allowed(f)
    OBVIOUS
  <1>1. PICK w \in Asked : w.t = "cmp" /\ toOp(w.op) \in Ops /\ f = converted[w]
    BY DEF Comparisons
  <1>2. w \in Wire
    BY QueryAssumption
  <1>3. f \in Filters /\ f.t = "cmp" /\ f.op \in Ops
    BY <1>1, <1>2, ConvertedCmp DEF Filters
  <1>4. MaxDepth \in Levels /\ MaxDepth > 0 /\ 1 <= MaxPredicates
    BY QueryAssumption, SMT DEF Levels
  <1>5. Complete[f][MaxDepth]
    <2>1. Complete[f][MaxDepth] = Level(Complete, f, MaxDepth)
      BY <1>3, <1>4, CompleteIs
    <2>2. QED
      BY <1>3, <1>4, <2>1 DEF Level, Group
  <1>6. Leaves[f] = 1
    <2>1. Counts(Leaves)
      BY LeavesIs
    <2>2. QED
      BY <1>3, <2>1 DEF Counts, Group
  <1>7. QED
    BY <1>3, <1>4, <1>5, <1>6 DEF Allowed

LEMMA KeptByOpenView == ASSUME QInv, OpenView  PROVE QInv'
  <1> DEFINE seeded == Seeds(q.filter) # {}
             keys == IF seeded THEN indexSeed(docs, q.filter) ELSE {k \in Keys : docs[k] # None}
             todo == {k \in keys : AfterCursor(q, k)}
  <1>1. /\ q.stage = "md"
        /\ q' = [stage |-> "view", filter |-> q.filter, size |-> q.size, token |-> q.token,
                 unary |-> q.unary, md |-> q.md, snap |-> docs, seeded |-> seeded, msgMd |-> gen,
                 todo |-> todo, results |-> << >>, more |-> FALSE]
        /\ UNCHANGED <<docs, tok, acc, trav, stable>>
    BY DEF OpenView
  <1>2. RequestInv /\ docs \in [Keys -> Docs \cup {None}]
    BY <1>1 DEF QInv, Active
  <1>3. todo \subseteq {k \in Keys : docs[k] # None /\ k > cursor(q)}
    BY DEF AfterCursor, indexSeed
  <1>4. \A k \in Keys : k > cursor(q) /\ Matches(docs[k], q.filter) => k \in todo
    <2> SUFFICES ASSUME NEW k \in Keys, k > cursor(q), Matches(docs[k], q.filter)  PROVE k \in keys
      BY DEF AfterCursor
    <2>1. CASE seeded
      <3>1. q.filter \in Filters
        BY <1>2 DEF RequestInv
      <3>2. k \in indexSeed(docs, q.filter)
        BY <1>2, <2>1, <3>1, SeedComplete
      <3>3. QED
        BY <2>1, <3>2
    <2>2. CASE ~seeded
      BY <2>2 DEF Matches
    <2>3. QED
      BY <2>1, <2>2
  <1> HIDE DEF seeded, keys, todo
  <1>5. /\ q'.stage = "view" /\ q'.filter = q.filter /\ q'.size = q.size /\ q'.token = q.token
        /\ q'.snap = docs /\ q'.todo = todo /\ q'.results = << >> /\ q'.more = FALSE
    BY <1>1, SMT
  <1>6. ViewShape(q')
    BY <1>1, SMT DEF ViewShape
  <1>7. cursor(q') = cursor(q)
    BY <1>5 DEF cursor
  <1>8. << >> \in Seq(Keys) /\ Ascends(<< >>) /\ Range(<< >>) = {} /\ Len(<< >>) = 0
    BY SMT DEF Ascends, Range
  <1>9. All(q') = {k \in todo : Matches(docs[k], q.filter)}
    BY <1>3, <1>4, <1>5, <1>7 DEF All
  <1>10. 0 <= q.size
    <2>1. q.size \in Nat
      BY <1>2 DEF RequestInv
    <2>2. QED
      BY <2>1, SMT
  <1>11. Served(q')
    BY <1>2, <1>3, <1>5, <1>7, <1>8, <1>9, <1>10 DEF Served
  <1>12. RequestInv'
    BY <1>1, <1>2, <1>5 DEF RequestInv
  <1>13. \A k \in stable' : Matches(q'.snap[k], trav')
    BY <1>1, <1>5 DEF QInv
  <1>14. QED
    BY <1>1, <1>5, <1>6, <1>11, <1>12, <1>13 DEF QInv, Active, TokenInv

\* A step of a request that goes on with the same filter, cursor and snapshot.
Carries(r, s) ==
  /\ s.stage = r.stage /\ s.filter = r.filter /\ s.size = r.size /\ s.token = r.token
  /\ s.snap = r.snap /\ s.unary = r.unary /\ ViewShape(s)

LEMMA KeptInView ==
  ASSUME QInv, q.stage = "view", Carries(q, q'), Served(q'), UNCHANGED <<docs, tok, acc, trav, stable>>
  PROVE  QInv'
  <1>1. RequestInv'
    BY DEF QInv, Active, RequestInv, Carries
  <1>2. q'.stage = "view" /\ ViewShape(q') /\ \A k \in stable' : Matches(q'.snap[k], trav')
    BY DEF QInv, Carries
  <1>3. QED
    BY <1>1, <1>2 DEF QInv, Active, TokenInv

LEMMA DropFields ==
  ASSUME NEW r, ViewShape(r), NEW todo
  PROVE  LET s == [r EXCEPT !.todo = todo]
         IN  Carries(r, s) /\ s.todo = todo /\ s.results = r.results /\ s.more = r.more
  BY SMT DEF ViewShape, Carries

LEMMA MoreFields ==
  ASSUME NEW r, ViewShape(r), NEW more
  PROVE  LET s == [r EXCEPT !.more = more]
         IN  Carries(r, s) /\ s.todo = r.todo /\ s.results = r.results /\ s.more = more
  BY SMT DEF ViewShape, Carries

LEMMA ResultsFields ==
  ASSUME NEW r, ViewShape(r), NEW results
  PROVE  LET s == [r EXCEPT !.results = results]
         IN  Carries(r, s) /\ s.todo = r.todo /\ s.results = results /\ s.more = r.more
  BY SMT DEF ViewShape, Carries

LEMMA AddFields ==
  ASSUME NEW r, ViewShape(r), NEW todo, NEW results
  PROVE  LET s == [r EXCEPT !.results = results, !.todo = todo]
         IN  Carries(r, s) /\ s.todo = todo /\ s.results = results /\ s.more = r.more
  <1> DEFINE u == [r EXCEPT !.results = results]
             s == [u EXCEPT !.todo = todo]
  <1>1. Carries(r, u) /\ u.results = results /\ u.more = r.more
    BY ResultsFields
  <1>2. ViewShape(u)
    BY <1>1 DEF Carries
  <1> HIDE DEF u
  <1>3. Carries(u, s) /\ s.todo = todo /\ s.results = u.results /\ s.more = u.more
    BY <1>2, DropFields
  <1> HIDE DEF s
  <1>4. Carries(r, s) /\ s.todo = todo /\ s.results = results /\ s.more = r.more
    BY <1>1, <1>3 DEF Carries
  <1>5. QED
    BY <1>4 DEF s, u

\* The candidate that is looked at: the least one left.
LEMMA NextCandidate ==
  ASSUME NEW r, Served(r), r.todo # {}
  PROVE  LET k == Min(r.todo)
         IN  /\ k \in r.todo /\ k \in Keys /\ r.snap[k] # None /\ k > cursor(r)
             /\ \A l \in r.todo \ {k} : k < l
             /\ \A l \in Range(r.results) : l < k
  <1> DEFINE k == Min(r.todo)
  <1>1. r.todo \subseteq Keys
    BY DEF Served
  <1>2. r.todo \subseteq Nat
    BY <1>1, KeysAreNumbers
  <1>3. k \in r.todo /\ \A l \in r.todo : k <= l
    BY <1>2, MinIs
  <1> HIDE DEF k
  <1>4. ASSUME NEW l \in r.todo \ {k}  PROVE k < l
    <2>1. k <= l /\ k # l /\ k \in Nat /\ l \in Nat
      BY <1>2, <1>3
    <2>2. QED
      BY <2>1, SMT
  <1>5. k \in r.todo /\ k \in Keys /\ r.snap[k] # None /\ k > cursor(r) /\ \A l \in Range(r.results) : l < k
    BY <1>3 DEF Served
  <1>6. QED
    BY <1>4, <1>5 DEF k

LEMMA ServedAll ==
  ASSUME NEW r, NEW s, Carries(r, s)
  PROVE  cursor(s) = cursor(r) /\ All(s) = All(r)
  BY DEF Carries, cursor, All

LEMMA ServedWithout ==
  ASSUME NEW r, Served(r), NEW k \in r.todo, ~Matches(r.snap[k], r.filter), ~r.more,
         NEW s, Carries(r, s), s.todo = r.todo \ {k}, s.results = r.results, s.more = r.more
  PROVE  Served(s)
  <1>1. cursor(s) = cursor(r) /\ All(s) = All(r) /\ s.snap = r.snap /\ s.filter = r.filter /\ s.size = r.size
    BY ServedAll DEF Carries
  <1>2. {l \in s.todo : Matches(s.snap[l], s.filter)} = {l \in r.todo : Matches(r.snap[l], r.filter)}
    BY <1>1
  <1>3. QED
    BY <1>1, <1>2 DEF Served

LEMMA ServedMore ==
  ASSUME NEW r, Served(r), r.size \in Nat, NEW k \in r.todo, Matches(r.snap[k], r.filter), Len(r.results) >= r.size,
         NEW s, Carries(r, s), s.todo = r.todo, s.results = r.results
  PROVE  Served(s)
  <1>1. cursor(s) = cursor(r) /\ All(s) = All(r) /\ s.snap = r.snap /\ s.filter = r.filter /\ s.size = r.size
    BY ServedAll DEF Carries
  <1>2. Len(r.results) = r.size
    <2>1. Len(r.results) <= r.size /\ Len(r.results) \in Nat
      BY RangeIs DEF Served
    <2>2. QED
      BY <2>1, SMT
  <1>3. QED
    BY <1>1, <1>2 DEF Served

LEMMA ServedWith ==
  ASSUME NEW r, Served(r), r.size \in Nat, ~r.more, ~(Len(r.results) >= r.size),
         NEW k \in r.todo, k \in Keys, Matches(r.snap[k], r.filter),
         \A l \in r.todo \ {k} : k < l, \A l \in Range(r.results) : l < k,
         NEW s, Carries(r, s), s.todo = r.todo \ {k}, s.results = Append(r.results, k), s.more = r.more
  PROVE  Served(s)
  <1>1. cursor(s) = cursor(r) /\ All(s) = All(r) /\ s.snap = r.snap /\ s.filter = r.filter /\ s.size = r.size
    BY ServedAll DEF Carries
  <1>2. r.results \in Seq(Keys) /\ Ascends(r.results)
    BY DEF Served
  <1>3. /\ Range(s.results) = Range(r.results) \cup {k} /\ s.results \in Seq(Keys)
        /\ Len(s.results) = Len(r.results) + 1
    <2> DEFINE a == Append(r.results, k)
    <2>1. Range(a) = Range(r.results) \cup {k} /\ a \in Seq(Keys) /\ Len(a) = Len(r.results) + 1
      BY <1>2, RangeAppend
    <2> HIDE DEF a
    <2>2. s.results = a
      BY DEF a
    <2>3. QED
      BY <2>1, <2>2
  <1>4. Ascends(s.results)
    BY <1>2, AscendsAppend
  <1>5. Len(s.results) <= s.size
    <2>1. Len(r.results) \in Nat
      BY <1>2, RangeIs
    <2>2. QED
      BY <1>1, <1>3, <2>1, SMT
  <1>6. All(s) = Range(s.results) \cup {l \in s.todo : Matches(s.snap[l], s.filter)}
    <2>1. All(r) = Range(r.results) \cup {l \in r.todo : Matches(r.snap[l], r.filter)}
      BY DEF Served
    <2>2. {l \in r.todo : Matches(r.snap[l], r.filter)} = {k} \cup {l \in s.todo : Matches(s.snap[l], s.filter)}
      BY <1>1
    <2>3. QED
      BY <1>1, <1>3, <2>1, <2>2
  <1>7. \A l \in Range(s.results), m \in s.todo : l < m
    BY <1>3 DEF Served
  <1>8. s.snap \in [Keys -> Docs \cup {None}] /\ s.todo \subseteq {l \in Keys : s.snap[l] # None /\ l > cursor(s)}
    BY <1>1 DEF Served
  <1>9. QED
    BY <1>3, <1>4, <1>5, <1>6, <1>7, <1>8 DEF Served

LEMMA KeptByExamine == ASSUME QInv, Examine  PROVE QInv'
  <1> DEFINE k == Min(q.todo)
             same == (IF q.seeded THEN gen ELSE q.msgMd) = q.md
             verdict == eval(q.snap[k], same, q.filter)
  <1>1. /\ q.stage = "view" /\ q.todo # {} /\ ~q.more /\ UNCHANGED <<docs, tok, acc, trav, stable>>
        /\ q' = CASE verdict = "true"  -> appendResult(q, k)
                  [] verdict = "false" -> [q EXCEPT !.todo = @ \ {k}]
                  [] OTHER             -> [stage |-> verdict]
    BY DEF Examine
  <1>2. ViewShape(q) /\ Served(q) /\ RequestInv
    BY <1>1 DEF QInv, Active
  <1>3. q.filter \in Filters /\ q.size \in Nat
    BY <1>2 DEF RequestInv
  <1>4. /\ k \in q.todo /\ k \in Keys /\ q.snap[k] # None
        /\ \A l \in q.todo \ {k} : k < l
        /\ \A l \in Range(q.results) : l < k
    BY <1>1, <1>2, NextCandidate
  <1>5. verdict \in Verdicts
    BY <1>3, EvalVerdict
  <1>6. verdict \in {"true", "false"} => eval(q.snap[k], TRUE, q.filter) = verdict
    BY <1>3, EvalAgrees
  <1>7. /\ verdict = "true" => Matches(q.snap[k], q.filter)
        /\ verdict = "false" => ~Matches(q.snap[k], q.filter)
    BY <1>4, <1>6 DEF Matches
  <1> HIDE DEF k, verdict
  <1>8. CASE verdict = "false"
    <2>1. q' = [q EXCEPT !.todo = q.todo \ {k}]
      BY <1>1, <1>8
    <2>2. Carries(q, q') /\ q'.todo = q.todo \ {k} /\ q'.results = q.results /\ q'.more = q.more
      BY <1>2, <2>1, DropFields
    <2>3. Served(q')
      BY <1>1, <1>2, <1>4, <1>7, <1>8, <2>2, ServedWithout
    <2>4. QED
      BY <1>1, <2>2, <2>3, KeptInView
  <1>9. CASE verdict = "true" /\ Len(q.results) >= q.size
    <2>1. q' = [q EXCEPT !.more = TRUE]
      BY <1>1, <1>9 DEF appendResult
    <2>2. Carries(q, q') /\ q'.todo = q.todo /\ q'.results = q.results
      BY <1>2, <2>1, MoreFields
    <2>3. Served(q')
      BY <1>2, <1>3, <1>4, <1>7, <1>9, <2>2, ServedMore
    <2>4. QED
      BY <1>1, <2>2, <2>3, KeptInView
  <1>10. CASE verdict = "true" /\ ~(Len(q.results) >= q.size)
    <2>1. q' = [q EXCEPT !.results = Append(q.results, k), !.todo = q.todo \ {k}]
      BY <1>1, <1>10 DEF appendResult
    <2>2. Carries(q, q') /\ q'.todo = q.todo \ {k} /\ q'.results = Append(q.results, k) /\ q'.more = q.more
      <3> DEFINE todo == q.todo \ {k}
                 results == Append(q.results, k)
      <3>1. q' = [q EXCEPT !.results = results, !.todo = todo]
        BY <2>1
      <3> HIDE DEF todo, results
      <3>2. Carries(q, q') /\ q'.todo = todo /\ q'.results = results /\ q'.more = q.more
        <4> DEFINE s == [q EXCEPT !.results = results, !.todo = todo]
        <4>1. Carries(q, s) /\ s.todo = todo /\ s.results = results /\ s.more = q.more
          BY <1>2, AddFields
        <4> HIDE DEF s
        <4>2. QED
          BY <3>1, <4>1 DEF s
      <3>3. QED
        BY <3>2 DEF todo, results
    <2>3. Served(q')
      BY <1>1, <1>2, <1>3, <1>4, <1>7, <1>10, <2>2, ServedWith
    <2>4. QED
      BY <1>1, <2>2, <2>3, KeptInView
  <1>11. CASE verdict \notin {"true", "false"}
    <2>1. q' = [stage |-> verdict] /\ verdict \in {"error", "panic"}
      BY <1>1, <1>5, <1>11 DEF Verdicts
    <2>2. q'.stage = verdict
      BY <2>1, SMT
    <2>3. q'.stage \notin {"md", "view", "page", "refused"}
      BY <2>1, <2>2
    <2>4. QED
      BY <1>1, <2>3, KeptWithoutRequest
  <1>12. QED
    BY <1>5, <1>8, <1>9, <1>10, <1>11

LEMMA KeptByFinish == ASSUME QInv, Finish  PROVE QInv'
  <1>1. /\ q.stage = "view" /\ (q.todo = {} \/ q.more) /\ UNCHANGED <<docs, tok, acc, trav, stable>>
        /\ q' = IF q.unary /\ q.more THEN [stage |-> "error"] ELSE [q EXCEPT !.stage = "page"]
    BY DEF Finish
  <1>2. ViewShape(q) /\ Served(q) /\ RequestInv
    BY <1>1 DEF QInv, Active
  <1>3. CASE q.unary /\ q.more
    <2>1. q' = [stage |-> "error"]
      BY <1>1, <1>3
    <2>2. q'.stage = "error"
      BY <2>1, SMT
    <2>3. QED
      BY <1>1, <2>2, KeptWithoutRequest
  <1>4. CASE ~(q.unary /\ q.more)
    <2>1. q' = [q EXCEPT !.stage = "page"]
      BY <1>1, <1>4
    <2>2. /\ q'.stage = "page" /\ q'.filter = q.filter /\ q'.size = q.size /\ q'.token = q.token
          /\ q'.snap = q.snap /\ q'.unary = q.unary /\ q'.todo = q.todo /\ q'.results = q.results
          /\ q'.more = q.more /\ ViewShape(q')
      BY <1>2, <2>1, SMT DEF ViewShape
    <2>3. cursor(q') = cursor(q) /\ All(q') = All(q)
      BY <2>2 DEF cursor, All
    <2>4. Served(q')
      BY <1>2, <2>2, <2>3 DEF Served
    <2>5. RequestInv' /\ PageInv'
      BY <1>1, <1>2, <1>4, <2>2 DEF RequestInv, PageInv
    <2>6. \A k \in stable' : Matches(q'.snap[k], trav')
      BY <1>1, <2>2 DEF QInv
    <2>7. QED
      BY <1>1, <2>2, <2>4, <2>5, <2>6 DEF QInv, Active, TokenInv
  <1>5. QED
    BY <1>3, <1>4

\* The token that is minted stands at the end of what was returned.
LEMMA KeptByReturn == ASSUME QInv, Return  PROVE QInv'
  <1>1. q' = Idle /\ UNCHANGED <<docs, trav, stable>>
    BY DEF Return
  <1>2. q'.stage = "idle"
    BY <1>1, SMT DEF Idle
  <1>3. CASE q.stage # "page"
    BY <1>1, <1>2, <1>3, KeptWithoutRequest DEF Return
  <1>4. CASE q.stage = "page"
    <2>1. acc' = acc \o q.results /\ tok' = IF q.more THEN encodePageToken(q) ELSE None
      BY <1>4 DEF Return
    <2>2. Served(q) /\ RequestInv /\ acc \in Seq(Keys)
      BY <1>4 DEF QInv, Active
    <2>3. q.results \in Seq(Keys)
      BY <2>2 DEF Served
    <2>4. Ascends(acc')
      <3>1. TraversalAscends
        BY InvTraversalAscends
      <3>2. QED
        BY <1>4, <2>1, <3>1 DEF TraversalAscends
    <2>5. acc' \in Seq(Keys) /\ Range(acc') = Range(acc) \cup Range(q.results)
      BY <2>1, <2>2, <2>3, Concat
    <2>6. ASSUME tok' # None  PROVE TokenInv'
      <3> DEFINE n == Len(q.results)
                 last == q.results[n]
      <3>1. q.more /\ tok' = [hash |-> writeFilterSignature(q.filter), last |-> last, from |-> q.filter]
        BY <2>1, <2>6 DEF encodePageToken
      <3>2. n = q.size /\ n \in Nat \ {0}
        BY <2>2, <3>1 DEF Served, RequestInv
      <3> HIDE DEF n, last
      <3>3. tok'.hash = writeFilterSignature(q.filter) /\ tok'.last = last /\ tok'.from = q.filter
        BY <3>1, SMT
      <3>4. acc' # << >> /\ last = acc'[Len(acc')]
        <4>1. Len(acc') = Len(acc) + n /\ \A i \in 1 .. n : acc'[Len(acc) + i] = q.results[i]
          BY <2>1, <2>2, <2>3, Concat DEF n
        <4>2. Len(acc) \in Nat
          BY <2>2, RangeIs
        <4>3. n \in 1 .. n /\ Len(acc) + n # 0
          BY <3>2, <4>2, SMT
        <4>4. acc' # << >>
          BY <4>1, <4>3, SMT
        <4>5. QED
          BY <4>1, <4>3, <4>4 DEF last
      <3>5. ASSUME NEW k \in stable  PROVE k \in Range(acc') \/ (k \in Keys /\ k > last)
        <4>1. k \in Keys /\ (k \in Range(acc) \/ k \in All(q))
          BY <1>4, StableSomewhere DEF QInv
        <4>2. k \in Range(acc') \/ k \in q.todo
          BY <2>2, <2>5, <4>1 DEF Served
        <4>3. last \in Range(q.results)
          <5>1. n \in 1 .. n
            BY <3>2, SMT
          <5>2. QED
            BY <2>3, <5>1, RangeIs DEF n, last
        <4>4. k \in q.todo => last < k
          BY <2>2, <4>3 DEF Served
        <4>5. last \in Int /\ k \in Int
          BY <2>3, <4>1, <4>3, RangeIs, KeysAreNumbers
        <4>6. last < k => k > last
          BY <4>5, SMT
        <4>7. QED
          BY <4>1, <4>2, <4>4, <4>6
      <3>6. trav \in Filters /\ Allowed(trav) /\ q.filter = trav
        BY <2>2 DEF RequestInv
      <3>7. QED
        BY <1>1, <3>3, <3>4, <3>5, <3>6 DEF TokenInv
    <2>7. QED
      BY <1>1, <1>2, <2>4, <2>5, <2>6 DEF QInv, Active
  <1>5. QED
    BY <1>3, <1>4

LEMMA KeptByStore ==
  ASSUME QInv, NEW k \in Keys, NEW d \in Docs \cup {None}, Store(k, d)
  PROVE  QInv'
  <1>1. /\ docs' = [docs EXCEPT ![k] = d] /\ stable' = {j \in stable : Matches(docs'[j], trav)}
        /\ UNCHANGED <<q, tok, acc, trav>>
    BY DEF Store
  <1>2. docs' \in [Keys -> Docs \cup {None}]
    BY <1>1 DEF QInv
  <1>3. stable' \subseteq stable /\ \A j \in stable' : Matches(docs'[j], trav')
    BY <1>1
  <1>4. QED
    BY <1>1, <1>2, <1>3 DEF QInv, Active, TokenInv, RequestInv, PageInv

LEMMA InvStep == QInv /\ [Next]_vars => QInv'
  <1> SUFFICES ASSUME QInv, [Next]_vars  PROVE QInv'
    OBVIOUS
  <1>1. ASSUME NEW f \in Asked, NEW size \in Sizes, NEW t \in {None, tok}, QueryRPC(f, size, t)
        PROVE  QInv'
    BY <1>1, KeptByQueryRPC
  <1>2. ASSUME NEW f \in Comparisons, QueryJSON(f)  PROVE QInv'
    <2>1. f \in Filters /\ Allowed(f) /\ Limit \in Int
      BY ComparisonAllowed, QueryAssumption, SMT
    <2>2. Call(f, Limit, None, TRUE)
      BY <1>2 DEF QueryJSON
    <2>3. QED
      BY <2>1, <2>2, KeptByCall
  <1>3. ASSUME NEW f \in Comparisons, NEW size \in Sizes, NEW t \in {None, tok}, QueryPageJSON(f, size, t)
        PROVE  QInv'
    <2>1. f \in Filters /\ Allowed(f) /\ size \in Int
      BY ComparisonAllowed, QueryAssumption
    <2>2. Call(f, size, t, FALSE)
      BY <1>3 DEF QueryPageJSON
    <2>3. QED
      BY <2>1, <2>2, KeptByCall
  <1>4. CASE OpenView
    BY <1>4, KeptByOpenView
  <1>5. CASE Examine
    BY <1>5, KeptByExamine
  <1>6. CASE Cancel
    <2>1. q' = [stage |-> "error"] /\ UNCHANGED <<docs, tok, acc, trav, stable>>
      BY <1>6 DEF Cancel
    <2>2. q'.stage = "error"
      BY <2>1, SMT
    <2>3. QED
      BY <2>1, <2>2, KeptWithoutRequest
  <1>7. CASE Finish
    BY <1>7, KeptByFinish
  <1>8. CASE Return
    BY <1>8, KeptByReturn
  <1>9. CASE Restart
    <2>1. q' = Idle /\ UNCHANGED <<docs, tok, acc, trav, stable>>
      BY <1>9 DEF Restart
    <2>2. q'.stage = "idle"
      BY <2>1, SMT DEF Idle
    <2>3. QED
      BY <2>1, <2>2, KeptWithoutRequest
  <1>10. ASSUME NEW k \in Keys, NEW d \in Docs \cup {None}, Store(k, d)  PROVE QInv'
    BY <1>10, KeptByStore
  <1>11. CASE Activate \/ UNCHANGED vars
    BY <1>11 DEF Activate, vars, QInv, Active, TokenInv, RequestInv, PageInv
  <1>12. QED
    BY <1>1, <1>2, <1>3, <1>4, <1>5, <1>6, <1>7, <1>8, <1>9, <1>10, <1>11 DEF Next

LEMMA Invariance == Spec => []QInv
  BY InvInit, InvStep, PTL DEF Spec

\* Every page is what its snapshot holds, in key order and complete up to the
\* size asked for, whichever of index seed and full scan found it, for any
\* number of documents, writers and registrations and any filter
\* (query.go:164-279).
THEOREM PagesExact == Spec => []PageExact
  BY Invariance, InvPageExact, PTL

\* Keys ascend through all pages of a traversal, whatever is written between
\* them (query.go:149, 222, 250).
THEOREM TraversalsAscend == Spec => []TraversalAscends
  BY Invariance, InvTraversalAscends, PTL

\* A traversal that ends has returned every document that matched throughout
\* (query.go:95-99).
THEOREM NothingStableIsMissed == Spec => []StableReturned
  BY Invariance, InvStableReturned, PTL

\* A token is accepted only with the query that minted it (query.go:150-151,
\* 291-344).
THEOREM TokensBind == Spec => []TokenBinds
  BY Invariance, InvTokenBinds, PTL

\* The executor sees exactly the filters within the limits (server.go:28-31,
\* 148-212).
THEOREM LimitsHold == Spec => []FilterLimits
  BY Invariance, InvFilterLimits, PTL
==============================================================================
