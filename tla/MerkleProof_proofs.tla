-------------------------- MODULE MerkleProof_proofs --------------------------
(***************************************************************************)
(* Proofs about MerkleProof, for every claim: any tree size, index, path   *)
(* and leaf.  Instead of induction over the tree, each step argues from a  *)
(* least counterexample.  The steps:                                       *)
(*   - where a tree splits, and that pairing its leaves halves the split;  *)
(*   - that the recursive tree and its paths exist, over any leaves;       *)
(*   - that a node's path is its sibling and then the path of the pair in  *)
(*     the tree of pairs, which is what one turn of the loop uses up;      *)
(*   - that the rebuilt hash is the node's exactly when leaf and siblings  *)
(*     so far are the log's, and what this makes of the verdict.           *)
(***************************************************************************)
EXTENDS MerkleProof, SequenceTheorems, WellFoundedInduction, TLAPS

(* Halving keeps the order of two indices, and nothing but 0 and 1 falls   *)
(* to 0.                                                                   *)
LEMMA Halving ==
    ASSUME NEW a \in Nat, NEW b \in Nat, a <= b
    PROVE  /\ a \div 2 \in Nat
           /\ b \div 2 \in Nat
           /\ a \div 2 <= b \div 2
           /\ a > 0 /\ a % 2 = 0 => a \div 2 > 0
    OBVIOUS

(* The claim does not change, so its path keeps its length.                *)
ClaimInv == claim \in Claims

(* The node's index never leaves its level and never drops to the left     *)
(* edge while zeros are stripped, whatever is claimed.                     *)
THEOREM TypeCorrect == Spec => []TypeOK
<1>1. Init => TypeOK /\ ClaimInv
  BY ClaimsAreProofs DEF Init, TypeOK, ClaimInv
<1>2. TypeOK /\ ClaimInv /\ [Next]_vars => TypeOK' /\ ClaimInv'
  <2>1. SUFFICES ASSUME TypeOK, ClaimInv, [Next]_vars
                 PROVE  TypeOK' /\ ClaimInv'
    OBVIOUS
  <2>2. /\ claim.index \in Int /\ claim.stated \in Int
        /\ Len(claim.path) \in Nat
    BY <2>1, ClaimsAreProofs DEF ClaimInv
  <2>3. CASE Unjudged
    BY <2>1, <2>3 DEF Unjudged, TypeOK, ClaimInv
  <2>4. CASE Reject
    BY <2>1, <2>4 DEF Reject, Refuse, TypeOK, ClaimInv
  <2>5. CASE Begin
    BY <2>1, <2>2, <2>5 DEF Begin, OutsideTree, TypeOK, ClaimInv
  <2>6. CASE PathTooLong
    BY <2>1, <2>6 DEF PathTooLong, Refuse, TypeOK, ClaimInv
  <2>7. CASE JoinLeft
    \* An odd index is not 0, and the last index of this level is not 0.
    <3>1. fn > 0
      BY <2>1, <2>7 DEF JoinLeft, SiblingIsLeft, TypeOK
    <3>2. QED
      BY <2>1, <2>2, <2>7, <3>1 DEF JoinLeft, TypeOK, ClaimInv
  <2>8. CASE StripZero
    BY <2>1, <2>8, Halving DEF StripZero, Shift, TypeOK, ClaimInv
  <2>9. CASE Ascend
    BY <2>1, <2>9, Halving DEF Ascend, Shift, TypeOK, ClaimInv
  <2>10. CASE JoinRight
    BY <2>1, <2>2, <2>10, Halving DEF JoinRight, Shift, TypeOK, ClaimInv
  <2>11. CASE Finish
    BY <2>1, <2>11 DEF Finish, TypeOK, ClaimInv
  <2>12. CASE Compare
    BY <2>1, <2>12 DEF Compare, TypeOK, ClaimInv
  <2>13. CASE UNCHANGED vars
    BY <2>1, <2>13 DEF vars, TypeOK, ClaimInv
  <2>14. QED
    BY <2>1, <2>3, <2>4, <2>5, <2>6, <2>7, <2>8, <2>9, <2>10, <2>11, <2>12,
       <2>13 DEF Next
<1>3. QED
  BY <1>1, <1>2, PTL DEF Spec

-----------------------------------------------------------------------------
(* Where the tree splits.                                                  *)

\* A set of numbers that is not empty has a least one.
LEMMA LeastNumber ==
    ASSUME NEW S, S \subseteq Nat, S # {}
    PROVE  \E i \in S : \A j \in S : i <= j
<1>1. PICK m \in S : \A y \in S : <<y, m>> \notin OpToRel(<, Nat)
  BY NatLessThanWellFounded, WFMin, Zenon
<1>2. ASSUME NEW y \in S PROVE m <= y
  <2>1. m \in Nat /\ y \in Nat
    BY <1>1
  <2>2. ~(y < m)
    BY <1>1, <2>1 DEF OpToRel
  <2>. QED  BY <2>1, <2>2
<1>. QED  BY <1>1, <1>2

\* Division with remainder.
LEMMA Remainder ==
    ASSUME NEW n \in Nat, NEW d \in Nat, d > 0
    PROVE  /\ n \div d \in Nat
           /\ n % d \in 0 .. d - 1
           /\ n = (d * (n \div d)) + (n % d)
OBVIOUS

\* A multiple of d leaves no remainder.
LEMMA Multiple ==
    ASSUME NEW d \in Nat, d > 0, NEW q \in Nat, NEW n, n = d * q
    PROVE  n % d = 0
<1>1. n \in Nat
  OBVIOUS
<1>2. PICK e : e = n \div d
  OBVIOUS
<1>3. PICK r : r = n % d
  OBVIOUS
<1>4. e \in Nat /\ r \in 0 .. d - 1 /\ d * q = (d * e) + r
  BY <1>1, <1>2, <1>3, Remainder
<1>5. PICK f : f = q - e
  OBVIOUS
<1>6. f \in Int /\ d * f = r
  <2>1. d * f = d * q - d * e
    BY <1>4, <1>5
  <2>. QED  BY <1>4, <1>5, <2>1
<1>7. CASE f >= 1
  <2>1. d * f >= d
    BY <1>6, <1>7
  <2>. QED  BY <1>4, <1>6, <2>1
<1>8. CASE f <= -1
  <2>1. d * f <= -d
    BY <1>6, <1>8
  <2>. QED  BY <1>4, <1>6, <2>1
<1>9. CASE f = 0
  BY <1>3, <1>6, <1>9
<1>. QED  BY <1>6, <1>7, <1>8, <1>9

\* Doubling neither makes nor unmakes a power of two.
LEMMA TwiceAPower ==
    ASSUME NEW w \in Nat, w > 0
    PROVE  PowerOfTwo(2 * w) <=> PowerOfTwo(w)
<1>1. ASSUME PowerOfTwo(2 * w), NEW d \in 2 .. w, w % d = 0
      PROVE  d % 2 = 0
  <2>1. PICK q : q = w \div d
    OBVIOUS
  <2>2. q \in Nat /\ w = d * q
    BY <1>1, <2>1, Remainder
  <2>3. 2 * w = d * (2 * q)
    BY <1>1, <2>2
  <2>4. (2 * w) % d = 0
    BY <1>1, <2>2, <2>3, Multiple
  <2>. QED  BY <1>1, <2>4 DEF PowerOfTwo
<1>2. ASSUME PowerOfTwo(w), NEW d \in 2 .. 2 * w, (2 * w) % d = 0
      PROVE  d % 2 = 0
  <2>1. SUFFICES ASSUME d % 2 = 1 PROVE FALSE
    BY <1>2
  <2>2. PICK q : q = (2 * w) \div d
    OBVIOUS
  <2>3. q \in Nat /\ 2 * w = d * q
    BY <1>2, <2>2, Remainder
  <2>4. PICK e \in Nat : d = 2 * e + 1
    BY <2>1
  <2>5. PICK f \in Nat : q = 2 * f \/ q = 2 * f + 1
    <3>1. q \div 2 \in Nat /\ (q = 2 * (q \div 2) \/ q = 2 * (q \div 2) + 1)
      BY <2>3
    <3>. QED  BY <3>1
  <2>6. PICK g : g = e * f
    OBVIOUS
  <2>7. g \in Nat
    BY <2>6
  <2>8. d * q = (2 * (e * q)) + q
    BY <2>3, <2>4
  <2>9. q = 2 * f
    <3>1. SUFFICES ASSUME q = 2 * f + 1 PROVE FALSE
      BY <2>5
    <3>2. PICK h : h = e * q
      OBVIOUS
    <3>3. h \in Nat
      BY <2>3, <3>2
    <3>4. 2 * w = 2 * h + 2 * f + 1
      BY <2>3, <2>8, <3>1, <3>2, <3>3
    <3>. QED  BY <3>3, <3>4
  <2>10. w = d * f
    <3>1. d * (2 * f) = 2 * (d * f)
      BY <1>2
    <3>2. PICK h : h = d * f
      OBVIOUS
    <3>3. h \in Nat
      BY <3>2
    <3>. QED  BY <2>3, <2>9, <3>1, <3>2, <3>3
  <2>11. w % d = 0
    BY <1>2, <2>10, Multiple
  <2>12. d <= w
    <3>1. f # 0
      BY <2>10
    <3>2. PICK h \in Nat : f = h + 1
      BY <3>1
    <3>3. d * f = (d * h) + d
      BY <3>2
    <3>4. d * h \in Nat
      OBVIOUS
    <3>. QED  BY <2>10, <3>3, <3>4
  <2>. QED  BY <1>2, <2>1, <2>11, <2>12 DEF PowerOfTwo
<1>. QED  BY <1>1, <1>2 DEF PowerOfTwo

\* One is a power of two, and every other one is twice another.
LEMMA PowersOfTwo ==
    /\ PowerOfTwo(1)
    /\ \A w \in Nat : w > 1 /\ PowerOfTwo(w) =>
          w = 2 * (w \div 2) /\ w \div 2 \in Nat /\ w \div 2 > 0 /\ PowerOfTwo(w \div 2)
<1>1. PowerOfTwo(1)
  BY DEF PowerOfTwo
<1>2. ASSUME NEW w \in Nat, w > 1, PowerOfTwo(w)
      PROVE  w = 2 * (w \div 2) /\ w \div 2 \in Nat /\ w \div 2 > 0 /\ PowerOfTwo(w \div 2)
  <2>1. w % w = 0
    <3>1. w = w * 1
      OBVIOUS
    <3>. QED  BY <1>2, <3>1, Multiple
  <2>2. w % 2 = 0
    BY <1>2, <2>1 DEF PowerOfTwo
  <2>3. w = 2 * (w \div 2) /\ w \div 2 \in Nat /\ w \div 2 > 0
    BY <1>2, <2>2
  <2>4. PICK h : h = w \div 2
    OBVIOUS
  <2>5. h \in Nat /\ h > 0 /\ PowerOfTwo(2 * h)
    BY <1>2, <2>3, <2>4
  <2>6. PowerOfTwo(h)
    BY <2>5, TwiceAPower
  <2>. QED  BY <2>3, <2>4, <2>6
<1>. QED  BY <1>1, <1>2

\* Two powers of two of which neither is twice the other, or more, are one.
LEMMA PowersApart ==
    ASSUME NEW a \in Nat, NEW b \in Nat, a > 0, b > 0,
           PowerOfTwo(a), PowerOfTwo(b), a < 2 * b, b < 2 * a
    PROVE  a = b
<1> DEFINE Apart(i, j) == /\ i > 0 /\ j > 0 /\ PowerOfTwo(i) /\ PowerOfTwo(j)
                          /\ i < 2 * j /\ j < 2 * i /\ i # j
           Bad == {i \in Nat : \E j \in Nat : Apart(i, j)}
<1>1. Bad = {}
  <2> SUFFICES ASSUME Bad # {} PROVE FALSE
    OBVIOUS
  <2>1. PICK m \in Bad : \A i \in Bad : m <= i
    <3>1. Bad \subseteq Nat
      OBVIOUS
    <3> HIDE DEF Bad
    <3>. QED  BY <3>1, LeastNumber
  <2>2. PICK j \in Nat : Apart(m, j)
    OBVIOUS
  <2>3. m \in Nat /\ m > 1 /\ j > 1
    BY <2>2
  <2>4. PICK p : p = m \div 2
    OBVIOUS
  <2>5. PICK q : q = j \div 2
    OBVIOUS
  <2>6. /\ m = 2 * p /\ p \in Nat /\ p > 0 /\ PowerOfTwo(p)
        /\ j = 2 * q /\ q \in Nat /\ q > 0 /\ PowerOfTwo(q)
    BY <2>2, <2>3, <2>4, <2>5, PowersOfTwo
  <2>7. Apart(p, q)
    BY <2>2, <2>6
  <2>8. p \in Bad
    BY <2>6, <2>7
  <2>. QED  BY <2>1, <2>3, <2>6, <2>8
<1>. QED  BY <1>1

\* Every tree of two leaves or more splits at a power of two, at its half or above.
LEMMA SplitIs ==
    ASSUME NEW n \in Nat, n > 1
    PROVE  Split(n) \in 1 .. n - 1 /\ PowerOfTwo(Split(n)) /\ n <= 2 * Split(n)
<1> DEFINE Splits(i, w) == w \in 1 .. i - 1 /\ PowerOfTwo(w) /\ i <= 2 * w
           Bad == {i \in Nat : i > 1 /\ ~\E w : Splits(i, w)}
<1>1. Bad = {}
  <2> SUFFICES ASSUME Bad # {} PROVE FALSE
    OBVIOUS
  <2>1. PICK m \in Bad : \A i \in Bad : m <= i
    <3>1. Bad \subseteq Nat
      OBVIOUS
    <3> HIDE DEF Bad
    <3>. QED  BY <3>1, LeastNumber
  <2>2. m \in Nat /\ m > 1 /\ ~\E w : Splits(m, w)
    OBVIOUS
  <2>3. m # 2
    <3>1. Splits(2, 1)
      BY PowersOfTwo
    <3>. QED  BY <2>2, <3>1
  <2>4. PICK j : j = (m + 1) \div 2
    OBVIOUS
  <2>5. j \in Nat /\ j > 1 /\ j < m /\ m <= 2 * j /\ 2 * j <= m + 1
    BY <2>2, <2>3, <2>4
  <2>6. j \notin Bad
    <3> HIDE DEF Bad
    <3>. QED  BY <2>1, <2>2, <2>5
  <2>7. PICK w : Splits(j, w)
    BY <2>5, <2>6
  <2>8. PowerOfTwo(2 * w)
    BY <2>5, <2>7, TwiceAPower
  <2>9. Splits(m, 2 * w)
    BY <2>2, <2>5, <2>7, <2>8
  <2>. QED  BY <2>2, <2>9
<1>2. \E w : Splits(n, w)
  BY <1>1
<1>3. \E w \in 1 .. n - 1 : PowerOfTwo(w) /\ n <= 2 * w
  BY <1>2
<1>. QED  BY <1>3 DEF Split

\* It splits at no other one.
LEMMA SplitUnique ==
    ASSUME NEW n \in Nat, n > 1,
           NEW w \in 1 .. n - 1, PowerOfTwo(w), n <= 2 * w
    PROVE  Split(n) = w
<1>1. PICK s : s = Split(n)
  OBVIOUS
<1>2. s \in 1 .. n - 1 /\ PowerOfTwo(s) /\ n <= 2 * s
  BY <1>1, SplitIs
<1>3. s < 2 * w /\ w < 2 * s
  BY <1>2
<1>. QED  BY <1>1, <1>2, <1>3, PowersApart

\* Where the leaves split, their pairs split.
LEMMA SplitOfPairs ==
    /\ Split(2) = 1
    /\ \A n \in Nat : n > 2 => Split(n) = 2 * Split((n + 1) \div 2)
<1>1. Split(2) = 1
  BY PowersOfTwo, SplitUnique
<1>2. ASSUME NEW n \in Nat, n > 2 PROVE Split(n) = 2 * Split((n + 1) \div 2)
  <2>1. PICK j : j = (n + 1) \div 2
    OBVIOUS
  <2>2. j \in Nat /\ j > 1 /\ n <= 2 * j /\ 2 * j <= n + 1
    BY <1>2, <2>1
  <2>3. PICK w : w = Split(j)
    OBVIOUS
  <2>4. w \in 1 .. j - 1 /\ PowerOfTwo(w) /\ j <= 2 * w
    BY <2>2, <2>3, SplitIs
  <2>5. PowerOfTwo(2 * w)
    BY <2>2, <2>4, TwiceAPower
  <2>6. 2 * w \in 1 .. n - 1 /\ n <= 2 * (2 * w)
    BY <2>2, <2>4
  <2>7. Split(n) = 2 * w
    BY <1>2, <2>5, <2>6, SplitUnique
  <2>. QED  BY <2>1, <2>3, <2>7
<1>. QED  BY <1>1, <1>2

-----------------------------------------------------------------------------
(* The tree T over the nodes G of any level, and the paths P in it; the    *)
(* log's own are those over the hashes of its leaves.                      *)

LevelOf(T, G, n) ==
    [lo \in Nat |->
        IF n = 1 THEN G[lo]
        ELSE node_hash(T[Split(n)][lo], T[n - Split(n)][lo + Split(n)])]

\* Append, left folded where nothing about it is needed.
Grow(p, y) == Append(p, y)

PathsOf(P, T, n) ==
    [lo \in Nat |-> [m \in 0 .. n - 1 |->
        IF n = 1 THEN <<>>
        ELSE IF m < Split(n)
        THEN Grow(P[Split(n)][lo][m], T[n - Split(n)][lo + Split(n)])
        ELSE Grow(P[n - Split(n)][lo + Split(n)][m - Split(n)], T[Split(n)][lo])]]

IsTree(T, G) == T = [n \in Nat \ {0} |-> LevelOf(T, G, n)]

IsPaths(P, T) == P = [n \in Nat \ {0} |-> PathsOf(P, T, n)]

\* One induction serves both.
Either(what, h, G, n) == IF what = "tree" THEN LevelOf(h, G, n) ELSE PathsOf(h, G, n)

IsEither(what, T, G) == T = [n \in Nat \ {0} |-> Either(what, T, G, n)]

LeafHashes == [i \in Nat |-> leaf_hash(LeafData(i))]

\* A level depends on the smaller ones only.
LEMMA EitherBelow ==
    ASSUME NEW n \in Nat \ {0}, NEW T, NEW U, \A j \in 1 .. n - 1 : T[j] = U[j],
           NEW what, NEW G
    PROVE  Either(what, T, G, n) = Either(what, U, G, n)
<1>1. CASE n = 1
  BY <1>1 DEF Either, LevelOf, PathsOf
<1>2. CASE n > 1
  <2>1. Split(n) \in 1 .. n - 1
    BY <1>2, SplitIs
  <2>2. PICK w : w = Split(n)
    OBVIOUS
  <2>3. T[w] = U[w] /\ T[n - w] = U[n - w]
    BY <2>1, <2>2
  <2>. QED  BY <1>2, <2>2, <2>3 DEF Either, LevelOf, PathsOf
<1>. QED  BY <1>1, <1>2

\* Every level has a tree over it, and that tree its paths.
LEMMA BothExist ==
    ASSUME NEW what, NEW G
    PROVE  \E T : IsEither(what, T, G)
<1> DEFINE UpTo(h, N) == \A n \in 1 .. N : h[n] = Either(what, h, G, n)
<1>1. ASSUME NEW N \in Nat, NEW h, NEW g, UpTo(h, N), UpTo(g, N), NEW n \in 1 .. N
      PROVE  h[n] = g[n]
  <2> DEFINE Differ == {i \in 1 .. N : h[i] # g[i]}
  <2> SUFFICES ASSUME Differ # {} PROVE FALSE
    OBVIOUS
  <2>1. PICK i \in Differ : \A j \in Differ : i <= j
    <3>1. Differ \subseteq Nat
      OBVIOUS
    <3> HIDE DEF Differ
    <3>. QED  BY <3>1, LeastNumber
  <2>2. \A j \in 1 .. i - 1 : h[j] = g[j]
    BY <2>1
  <2>3. Either(what, h, G, i) = Either(what, g, G, i)
    BY <2>2, EitherBelow
  <2>. QED  BY <1>1, <2>3
<1>2. \A N \in Nat : \E h : UpTo(h, N)
  <2> DEFINE Bad == {N \in Nat : ~\E h : UpTo(h, N)}
  <2> SUFFICES ASSUME Bad # {} PROVE FALSE
    OBVIOUS
  <2>1. PICK N \in Bad : \A j \in Bad : N <= j
    <3>1. Bad \subseteq Nat
      OBVIOUS
    <3> HIDE DEF Bad
    <3>. QED  BY <3>1, LeastNumber
  <2>2. N \in Nat /\ ~\E h : UpTo(h, N)
    OBVIOUS
  <2>3. N # 0
    <3>1. UpTo(<<>>, 0)
      OBVIOUS
    <3>. QED  BY <2>2, <3>1
  <2>4. PICK h : UpTo(h, N - 1)
    <3>1. N - 1 \in Nat /\ N - 1 \notin Bad
      <4> HIDE DEF Bad
      <4>. QED  BY <2>1, <2>2, <2>3
    <3>. QED  BY <3>1
  <2> DEFINE g == [n \in 1 .. N |-> IF n < N THEN h[n] ELSE Either(what, h, G, N)]
  <2>5. \A n \in 1 .. N - 1 : g[n] = h[n]
    BY <2>2
  <2>6. ASSUME NEW n \in 1 .. N PROVE g[n] = Either(what, g, G, n)
    <3>1. Either(what, g, G, n) = Either(what, h, G, n)
      <4>1. \A j \in 1 .. n - 1 : g[j] = h[j]
        BY <2>2, <2>5
      <4> HIDE DEF g
      <4>. QED  BY <2>2, <4>1, EitherBelow
    <3>2. CASE n < N
      BY <2>2, <2>4, <2>5, <3>1, <3>2
    <3>3. CASE n = N
      BY <2>2, <3>1, <3>3
    <3>. QED  BY <3>2, <3>3
  <2>7. UpTo(g, N)
    BY <2>6
  <2>. QED  BY <2>2, <2>7
<1> DEFINE H(n) == CHOOSE h : UpTo(h, n)
           T == [n \in Nat \ {0} |-> H(n)[n]]
<1>3. ASSUME NEW n \in Nat \ {0} PROVE T[n] = Either(what, T, G, n)
  <2>1. UpTo(H(n), n)
    <3>1. \E h : UpTo(h, n)
      BY <1>2
    <3> HIDE DEF UpTo
    <3>. QED  BY <3>1
  <2>2. ASSUME NEW j \in 1 .. n - 1 PROVE T[j] = H(n)[j]
    <3>1. UpTo(H(j), j)
      <4>1. \E h : UpTo(h, j)
        BY <1>2
      <4> HIDE DEF UpTo
      <4>. QED  BY <4>1
    <3>2. UpTo(H(n), j)
      BY <2>1
    <3>3. H(j)[j] = H(n)[j]
      <4> HIDE DEF UpTo, H
      <4>. QED  BY <1>1, <3>1, <3>2
    <3>. QED  BY <3>3
  <2>3. Either(what, T, G, n) = Either(what, H(n), G, n)
    <3> HIDE DEF T, H
    <3>. QED  BY <2>2, EitherBelow
  <2>4. T[n] = H(n)[n]
    OBVIOUS
  <2>5. H(n)[n] = Either(what, H(n), G, n)
    <3> HIDE DEF H, T
    <3>. QED  BY <2>1
  <2>. QED  BY <2>3, <2>4, <2>5
<1>4. T = [n \in Nat \ {0} |-> T[n]]
  OBVIOUS
<1>5. T = [n \in Nat \ {0} |-> Either(what, T, G, n)]
  <2> HIDE DEF T
  <2>. QED  BY <1>3, <1>4
<1>. QED  BY <1>5 DEF IsEither

\* There is a tree over any nodes.
LEMMA TreeExists == ASSUME NEW G PROVE \E T : IsTree(T, G)
<1>1. PICK T : IsEither("tree", T, G)
  BY BothExist
<1>. QED  BY <1>1 DEF IsEither, Either, IsTree

\* There are paths in any tree.
LEMMA PathsExist == ASSUME NEW T PROVE \E P : IsPaths(P, T)
<1>1. PICK P : IsEither("paths", P, T)
  BY BothExist
<1>. QED  BY <1>1 DEF IsEither, Either, IsPaths

\* The recursive definitions define what they say.
LEMMA LogIsTree == IsTree(Subtree, LeafHashes) /\ IsPaths(AuditPath, Subtree)
<1>1. IsTree(Subtree, LeafHashes)
  <2> DEFINE MTH(f) == [n \in Nat \ {0} |-> [lo \in Nat |->
                          IF n = 1 THEN leaf_hash(LeafData(lo))
                          ELSE node_hash(f[Split(n)][lo], f[n - Split(n)][lo + Split(n)])]]
  <2>1. ASSUME NEW f PROVE MTH(f) = [n \in Nat \ {0} |-> LevelOf(f, LeafHashes, n)]
    BY DEF LevelOf, LeafHashes
  <2>2. Subtree = CHOOSE f : f = MTH(f)
    BY DEF Subtree
  <2> HIDE DEF MTH
  <2>3. \E f : f = MTH(f)
    BY <2>1, TreeExists DEF IsTree
  <2>4. Subtree = MTH(Subtree)
    BY <2>2, <2>3
  <2>. QED  BY <2>1, <2>4 DEF IsTree
<1>2. IsPaths(AuditPath, Subtree)
  <2> DEFINE PATH(f) ==
        [n \in Nat \ {0} |-> [lo \in Nat |-> [m \in 0 .. n - 1 |->
            IF n = 1 THEN <<>>
            ELSE IF m < Split(n)
            THEN Append(f[Split(n)][lo][m], Subtree[n - Split(n)][lo + Split(n)])
            ELSE Append(f[n - Split(n)][lo + Split(n)][m - Split(n)],
                        Subtree[Split(n)][lo])]]]
  <2>1. ASSUME NEW f PROVE PATH(f) = [n \in Nat \ {0} |-> PathsOf(f, Subtree, n)]
    BY DEF PathsOf, Grow
  <2>2. AuditPath = CHOOSE f : f = PATH(f)
    BY DEF AuditPath
  <2> HIDE DEF PATH
  <2>3. \E f : f = PATH(f)
    BY <2>1, PathsExist DEF IsPaths
  <2>4. AuditPath = PATH(AuditPath)
    BY <2>2, <2>3
  <2>. QED  BY <2>1, <2>4 DEF IsPaths
<1>. QED  BY <1>1, <1>2

-----------------------------------------------------------------------------
(* One level up: the nodes are joined in pairs, and a last one without a   *)
(* partner is kept.                                                        *)

Up(G, s) ==
    [i \in Nat |-> IF 2 * i + 1 < s THEN node_hash(G[2 * i], G[2 * i + 1]) ELSE G[2 * i]]

\* The tree over the pairs is the tree over their leaves, from size two up.
LEMMA TreeOfPairs ==
    ASSUME NEW s \in Nat, NEW G, NEW T, NEW V, IsTree(T, G), IsTree(V, Up(G, s)),
           NEW n \in Nat \ {0}, NEW lo \in Nat,
           2 * lo + n <= s, n % 2 = 0 \/ 2 * lo + n = s
    PROVE  T[n][2 * lo] = V[(n + 1) \div 2][lo]
<1> DEFINE Paired(j, at) == 2 * at + j <= s /\ (j % 2 = 0 \/ 2 * at + j = s)
           Same(j, at) == T[j][2 * at] = V[(j + 1) \div 2][at]
           Bad == {j \in Nat \ {0} : \E at \in Nat : Paired(j, at) /\ ~Same(j, at)}
<1>1. Bad = {}
  <2> SUFFICES ASSUME Bad # {} PROVE FALSE
    OBVIOUS
  <2>1. PICK j \in Bad : \A i \in Bad : j <= i
    <3>1. Bad \subseteq Nat
      OBVIOUS
    <3> HIDE DEF Bad
    <3>. QED  BY <3>1, LeastNumber
  <2>2. PICK at \in Nat : Paired(j, at) /\ ~Same(j, at)
    OBVIOUS
  <2>3. j \in Nat \ {0}
    OBVIOUS
  <2>4. \A i \in 1 .. j - 1 : \A b \in Nat : Paired(i, b) => Same(i, b)
    <3>1. ASSUME NEW i \in 1 .. j - 1 PROVE i \notin Bad
      <4> HIDE DEF Bad
      <4>. QED  BY <2>1, <2>3
    <3>. QED  BY <2>3, <3>1
  <2>5. T[j] = LevelOf(T, G, j) /\ 2 * at \in Nat /\ 2 * at + 1 \in Nat
    BY <2>3 DEF IsTree
  <2>6. T[1] = LevelOf(T, G, 1) /\ V[1] = LevelOf(V, Up(G, s), 1)
    BY DEF IsTree
  <2>7. CASE j = 1
    <3>1. T[1][2 * at] = G[2 * at]
      BY <2>5, <2>6 DEF LevelOf
    <3>2. V[1][at] = G[2 * at]
      BY <2>2, <2>6, <2>7 DEF LevelOf, Up
    <3>. QED  BY <2>2, <2>7, <3>1, <3>2
  <2>8. CASE j = 2
    <3>1. T[2][2 * at] = node_hash(G[2 * at], G[2 * at + 1])
      <4>1. T[1][2 * at] = G[2 * at] /\ T[1][2 * at + 1] = G[2 * at + 1]
        BY <2>5, <2>6 DEF LevelOf
      <4>2. Split(2) = 1 /\ T[2] = LevelOf(T, G, 2)
        BY SplitOfPairs DEF IsTree
      <4>3. T[2][2 * at] = node_hash(T[1][2 * at], T[1][2 * at + 1])
        <5>1. T[2][2 * at] = node_hash(T[Split(2)][2 * at],
                                       T[2 - Split(2)][2 * at + Split(2)])
          BY <2>5, <4>2 DEF LevelOf
        <5>. QED  BY <4>2, <5>1
      <4>. QED  BY <4>1, <4>3
    <3>2. V[1][at] = node_hash(G[2 * at], G[2 * at + 1])
      BY <2>2, <2>6, <2>8 DEF LevelOf, Up
    <3>. QED  BY <2>2, <2>8, <3>1, <3>2
  <2>9. CASE j > 2
    <3>1. PICK h : h = (j + 1) \div 2
      OBVIOUS
    <3>2. PICK w : w = Split(h)
      OBVIOUS
    <3>3. /\ h \in Nat \ {0} /\ h > 1 /\ j <= 2 * h /\ 2 * h <= j + 1
          /\ w \in 1 .. h - 1 /\ Split(j) = 2 * w /\ 2 * w \in 1 .. j - 1
      <4>1. h \in Nat \ {0} /\ h > 1 /\ j <= 2 * h /\ 2 * h <= j + 1
        BY <2>3, <2>9, <3>1
      <4>2. w \in 1 .. h - 1 /\ Split(j) = 2 * w
        BY <2>3, <2>9, <3>1, <3>2, <4>1, SplitIs, SplitOfPairs
      <4>. QED  BY <2>3, <4>1, <4>2
    <3>4. T[2 * w][2 * at] = V[w][at]
      <4>1. Paired(2 * w, at) /\ (2 * w + 1) \div 2 = w
        BY <2>2, <2>3, <3>3
      <4>2. Same(2 * w, at)
        BY <2>4, <3>3, <4>1
      <4>. QED  BY <4>1, <4>2
    <3>5. T[j - 2 * w][2 * at + 2 * w] = V[h - w][at + w]
      <4>1. /\ Paired(j - 2 * w, at + w) /\ j - 2 * w \in 1 .. j - 1
            /\ (j - 2 * w + 1) \div 2 = h - w /\ at + w \in Nat
            /\ 2 * (at + w) = 2 * at + 2 * w
        BY <2>2, <2>3, <3>1, <3>3
      <4>2. Same(j - 2 * w, at + w)
        BY <2>4, <4>1
      <4>. QED  BY <4>1, <4>2
    <3>6. T[j][2 * at] = node_hash(T[2 * w][2 * at], T[j - 2 * w][2 * at + 2 * w])
      BY <2>5, <2>9, <3>3 DEF LevelOf
    <3>7. V[h][at] = node_hash(V[w][at], V[h - w][at + w])
      <4>1. V[h] = LevelOf(V, Up(G, s), h)
        BY <3>3 DEF IsTree
      <4>. QED  BY <3>2, <3>3, <4>1 DEF LevelOf
    <3>. QED  BY <2>2, <3>1, <3>4, <3>5, <3>6, <3>7
  <2>. QED  BY <2>3, <2>7, <2>8, <2>9
<1>2. Paired(n, lo)
  OBVIOUS
<1>. QED  BY <1>1, <1>2

-----------------------------------------------------------------------------
(* Paths as sequences: a node's path is its partner followed by the path   *)
(* of the pair they make.                                                  *)

IsSeq(p) == Len(p) \in Nat /\ p = [i \in 1 .. Len(p) |-> p[i]]

Longer(p, y, q) ==
    Len(p) = Len(q) + 1 /\ p[1] = y /\ \A i \in 1 .. Len(q) : p[i + 1] = q[i]

Partnered(m, n) == m % 2 = 1 \/ m + 1 < n

Partner(m) == IF m % 2 = 1 THEN m - 1 ELSE m + 1

\* A single leaf's path.
LEMMA EmptyIsSeq == IsSeq(<<>>) /\ Len(<<>>) = 0
BY DEF IsSeq

\* What a path is when a sibling is added at its end.
LEMMA GrowFacts ==
    ASSUME NEW p, IsSeq(p), NEW y
    PROVE  /\ IsSeq(Grow(p, y))
           /\ Len(Grow(p, y)) = Len(p) + 1
           /\ Grow(p, y)[Len(p) + 1] = y
           /\ \A i \in 1 .. Len(p) : Grow(p, y)[i] = p[i]
<1> DEFINE S == {p[i] : i \in 1 .. Len(p)} \cup {y}
<1>1. p \in Seq(S) /\ y \in S
  <2>1. \A i \in 1 .. Len(p) : p[i] \in S
    OBVIOUS
  <2> HIDE DEF S
  <2>2. [i \in 1 .. Len(p) |-> p[i]] \in Seq(S)
    BY <2>1 DEF IsSeq
  <2>3. y \in S
    BY DEF S
  <2>. QED  BY <2>2, <2>3 DEF IsSeq
<1> HIDE DEF S
<1>2. Append(p, y) \in Seq(S)
  BY <1>1
<1>3. IsSeq(Append(p, y))
  <2>1. PICK a : a = Append(p, y)
    OBVIOUS
  <2>2. Len(a) \in Nat /\ a \in [1 .. Len(a) -> S]
    BY <1>2, <2>1, LenProperties
  <2>3. IsSeq(a)
    BY <2>2 DEF IsSeq
  <2>. QED  BY <2>1, <2>3
<1>. QED  BY <1>1, <1>3 DEF Grow

\* Two paths that differ by a first sibling still do when both are extended.
LEMMA LongerGrows ==
    ASSUME NEW p, NEW q, NEW y, NEW z, IsSeq(p), IsSeq(q), Longer(p, y, q)
    PROVE  Longer(Grow(p, z), y, Grow(q, z))
<1>1. PICK a : a = Grow(p, z)
  OBVIOUS
<1>2. PICK b : b = Grow(q, z)
  OBVIOUS
<1>3. Len(a) = Len(p) + 1 /\ a[Len(p) + 1] = z /\ \A i \in 1 .. Len(p) : a[i] = p[i]
  BY <1>1, GrowFacts
<1>4. Len(b) = Len(q) + 1 /\ b[Len(q) + 1] = z /\ \A i \in 1 .. Len(q) : b[i] = q[i]
  BY <1>2, GrowFacts
<1>5. Len(p) \in Nat /\ Len(q) \in Nat
  BY DEF IsSeq
<1>6. Len(a) = Len(b) + 1 /\ a[1] = y
  BY <1>3, <1>4, <1>5 DEF Longer
<1>7. ASSUME NEW i \in 1 .. Len(b) PROVE a[i + 1] = b[i]
  BY <1>3, <1>4, <1>5, <1>7 DEF Longer
<1>. QED  BY <1>1, <1>2, <1>6, <1>7 DEF Longer

\* A path grows by the other half on the way up.
PathGrows(P, T, n, lo, m, w) ==
    /\ n = 1 => P[n][lo][m] = <<>>
    /\ n > 1 /\ m < w => P[n][lo][m] = Grow(P[w][lo][m], T[n - w][lo + w])
    /\ n > 1 /\ ~(m < w) => P[n][lo][m] = Grow(P[n - w][lo + w][m - w], T[w][lo])

LEMMA PathUnfolds ==
    ASSUME NEW T, NEW P, IsPaths(P, T), NEW n \in Nat \ {0}, NEW lo \in Nat,
           NEW m \in 0 .. n - 1
    PROVE  PathGrows(P, T, n, lo, m, Split(n))
<1>1. P[n] = PathsOf(P, T, n)
  BY DEF IsPaths
<1>2. PICK w : w = Split(n)
  OBVIOUS
<1>3. n \in Nat
  OBVIOUS
<1>4. P[n][lo][m] =
        IF n = 1 THEN <<>>
        ELSE IF m < w
        THEN Grow(P[w][lo][m], T[n - w][lo + w])
        ELSE Grow(P[n - w][lo + w][m - w], T[w][lo])
  BY <1>1, <1>2 DEF PathsOf
<1>5. CASE n = 1
  BY <1>2, <1>4, <1>5 DEF PathGrows
<1>6. CASE n > 1
  <2>1. w \in 1 .. n - 1
    BY <1>2, <1>6, SplitIs
  <2>2. CASE m < w
    <3>1. P[n][lo][m] = Grow(P[w][lo][m], T[n - w][lo + w])
      BY <1>4, <1>6, <2>1, <2>2
    <3>. QED  BY <1>2, <1>6, <2>1, <2>2, <3>1 DEF PathGrows
  <2>3. CASE ~(m < w)
    <3>1. P[n][lo][m] = Grow(P[n - w][lo + w][m - w], T[w][lo])
      BY <1>4, <1>6, <2>1, <2>3
    <3>. QED  BY <1>2, <1>6, <2>1, <2>3, <3>1 DEF PathGrows
  <2>. QED  BY <2>2, <2>3
<1>. QED  BY <1>3, <1>5, <1>6

NodesOf(T) == {T[i][at] : i \in Nat \ {0}, at \in Nat}

SeqsAt(P, T, n) ==
    \A lo \in Nat, m \in 0 .. n - 1 :
        /\ IsSeq(P[n][lo][m])
        /\ n = 1 => Len(P[n][lo][m]) = 0
        /\ n > 1 => Len(P[n][lo][m]) > 0
        /\ \A j \in 1 .. Len(P[n][lo][m]) : P[n][lo][m][j] \in NodesOf(T)

\* Paths are sequences of the tree's hashes, and empty in a single leaf only.
LEMMA PathIsSeq ==
    ASSUME NEW T, NEW P, IsPaths(P, T), NEW n \in Nat \ {0}
    PROVE  SeqsAt(P, T, n)
<1>1. ASSUME NEW i \in Nat \ {0}, \A j \in 1 .. i - 1 : SeqsAt(P, T, j),
             NEW lo \in Nat, NEW m \in 0 .. i - 1
      PROVE  /\ IsSeq(P[i][lo][m])
             /\ i = 1 => Len(P[i][lo][m]) = 0
             /\ i > 1 => Len(P[i][lo][m]) > 0
             /\ \A j \in 1 .. Len(P[i][lo][m]) : P[i][lo][m][j] \in NodesOf(T)
  <2>1. PICK w : w = Split(i)
    OBVIOUS
  <2>2. PathGrows(P, T, i, lo, m, w)
    BY <2>1, PathUnfolds
  <2>3. CASE i = 1
    BY <2>2, <2>3, EmptyIsSeq DEF PathGrows
  <2>4. CASE i > 1
    <3>1. w \in 1 .. i - 1
      BY <2>1, <2>4, SplitIs
    <3>2. PICK p, y : /\ IsSeq(p) /\ P[i][lo][m] = Grow(p, y)
                      /\ y \in NodesOf(T) /\ \A j \in 1 .. Len(p) : p[j] \in NodesOf(T)
      <4>1. CASE m < w
        <5>1. PICK p : p = P[w][lo][m]
          OBVIOUS
        <5>2. IsSeq(p) /\ \A j \in 1 .. Len(p) : p[j] \in NodesOf(T)
          <6>1. SeqsAt(P, T, w) /\ m \in 0 .. w - 1
            BY <1>1, <3>1, <4>1
          <6>2. IsSeq(P[w][lo][m])
            BY <6>1 DEF SeqsAt
          <6>3. ASSUME NEW j \in 1 .. Len(P[w][lo][m]) PROVE P[w][lo][m][j] \in NodesOf(T)
            BY <6>1 DEF SeqsAt
          <6>. QED  BY <5>1, <6>2, <6>3
        <5>3. PICK y : y = T[i - w][lo + w]
          OBVIOUS
        <5>4. y \in NodesOf(T)
          <6>1. i - w \in Nat \ {0} /\ lo + w \in Nat
            BY <3>1
          <6>. QED  BY <5>3, <6>1 DEF NodesOf
        <5>. QED  BY <2>2, <2>4, <4>1, <5>1, <5>2, <5>3, <5>4 DEF PathGrows
      <4>2. CASE ~(m < w)
        <5>1. i - w \in 1 .. i - 1 /\ lo + w \in Nat /\ m - w \in 0 .. (i - w) - 1
          BY <3>1, <4>2
        <5>2. PICK p : p = P[i - w][lo + w][m - w]
          OBVIOUS
        <5>3. IsSeq(p) /\ \A j \in 1 .. Len(p) : p[j] \in NodesOf(T)
          <6>1. PICK u, b, l : u = i - w /\ b = lo + w /\ l = m - w
            OBVIOUS
          <6>2. SeqsAt(P, T, u) /\ u \in 1 .. i - 1 /\ b \in Nat /\ l \in 0 .. u - 1
            BY <1>1, <5>1, <6>1
          <6>3. IsSeq(P[u][b][l])
            BY <6>2 DEF SeqsAt
          <6>4. ASSUME NEW j \in 1 .. Len(P[u][b][l]) PROVE P[u][b][l][j] \in NodesOf(T)
            BY <6>2 DEF SeqsAt
          <6>. QED  BY <5>2, <6>1, <6>3, <6>4
        <5>4. PICK y : y = T[w][lo]
          OBVIOUS
        <5>5. y \in NodesOf(T)
          BY <3>1, <5>4 DEF NodesOf
        <5>. QED  BY <2>2, <2>4, <4>2, <5>2, <5>3, <5>4, <5>5 DEF PathGrows
      <4>. QED  BY <4>1, <4>2
    <3>3. /\ IsSeq(Grow(p, y)) /\ Len(Grow(p, y)) = Len(p) + 1
          /\ Grow(p, y)[Len(p) + 1] = y
          /\ \A j \in 1 .. Len(p) : Grow(p, y)[j] = p[j]
      BY <3>2, GrowFacts
    <3>4. Len(p) \in Nat
      BY <3>2 DEF IsSeq
    <3>5. ASSUME NEW j \in 1 .. Len(p) + 1 PROVE Grow(p, y)[j] \in NodesOf(T)
      <4>1. j \in 1 .. Len(p) \/ j = Len(p) + 1
        BY <3>4
      <4>. QED  BY <3>2, <3>3, <4>1
    <3>. QED  BY <2>4, <3>2, <3>3, <3>4, <3>5
  <2>. QED  BY <2>3, <2>4
<1>2. ASSUME NEW i \in Nat \ {0}, \A j \in 1 .. i - 1 : SeqsAt(P, T, j)
      PROVE  SeqsAt(P, T, i)
  BY <1>1, <1>2 DEF SeqsAt
<1> DEFINE Bad == {i \in Nat \ {0} : ~SeqsAt(P, T, i)}
<1>3. Bad = {}
  <2> SUFFICES ASSUME Bad # {} PROVE FALSE
    OBVIOUS
  <2>1. PICK i \in Bad : \A j \in Bad : i <= j
    <3>1. Bad \subseteq Nat
      OBVIOUS
    <3> HIDE DEF Bad
    <3>. QED  BY <3>1, LeastNumber
  <2>2. i \in Nat \ {0} /\ ~SeqsAt(P, T, i)
    OBVIOUS
  <2>3. \A j \in 1 .. i - 1 : SeqsAt(P, T, j)
    BY <2>1, <2>2
  <2>. QED  BY <1>2, <2>2, <2>3
<1>. QED  BY <1>3

\* The node's path, with its partner in front where it has one.
PairedPath(p, q, G, n, lo, m) ==
    IF Partnered(m, n) THEN Longer(p, G[2 * lo + Partner(m)], q) ELSE p = q

PathsPaired(P, Q, G, s, n) ==
    \A lo \in Nat, m \in 0 .. n - 1 :
        2 * lo + n <= s /\ (n % 2 = 0 \/ 2 * lo + n = s) =>
            PairedPath(P[n][2 * lo][m], Q[(n + 1) \div 2][lo][m \div 2], G, n, lo, m)

\* The path of a leaf in a tree of two.
LEMMA GrowEmpty == ASSUME NEW y PROVE Longer(Grow(<<>>, y), y, <<>>)
<1>1. PICK e : e = <<>>
  OBVIOUS
<1>2. IsSeq(e) /\ Len(e) = 0
  BY <1>1, EmptyIsSeq
<1>3. Len(Grow(e, y)) = Len(e) + 1 /\ Grow(e, y)[Len(e) + 1] = y
  BY <1>2, GrowFacts
<1>4. Longer(Grow(e, y), y, e)
  BY <1>2, <1>3 DEF Longer
<1>. QED  BY <1>1, <1>4

\* The path to a leaf, less its partner, is the path to its pair among the pairs.
LEMMA PathOfPairs ==
    ASSUME NEW s \in Nat, NEW G, NEW T, NEW V, IsTree(T, G), IsTree(V, Up(G, s)),
           NEW P, NEW Q, IsPaths(P, T), IsPaths(Q, V), NEW n \in Nat \ {0}
    PROVE  PathsPaired(P, Q, G, s, n)
<1>1. ASSUME NEW j \in Nat \ {0}, \A i \in 1 .. j - 1 : PathsPaired(P, Q, G, s, i),
             NEW lo \in Nat, NEW m \in 0 .. j - 1,
             2 * lo + j <= s, j % 2 = 0 \/ 2 * lo + j = s
      PROVE  PairedPath(P[j][2 * lo][m], Q[(j + 1) \div 2][lo][m \div 2], G, j, lo, m)
  <2>1. 2 * lo \in Nat /\ 2 * lo + 1 \in Nat /\ T[1] = LevelOf(T, G, 1)
    BY DEF IsTree
  <2>2. \A at \in Nat : P[1][at][0] = <<>> /\ Q[1][at][0] = <<>>
    BY PathUnfolds DEF PathGrows
  <2>3. CASE j = 1
    <3>1. m = 0 /\ m \div 2 = 0 /\ (j + 1) \div 2 = 1 /\ ~Partnered(m, j)
      BY <2>3 DEF Partnered
    <3>. QED  BY <2>1, <2>2, <2>3, <3>1 DEF PairedPath
  <2>4. CASE j = 2
    <3>1. PathGrows(P, T, 2, 2 * lo, m, 1)
      BY <2>1, <2>4, PathUnfolds, SplitOfPairs
    <3>2. CASE m = 0
      <4>1. P[2][2 * lo][0] = Grow(<<>>, G[2 * lo + 1])
        BY <2>1, <2>2, <3>1, <3>2 DEF PathGrows, LevelOf
      <4>2. Partnered(0, 2) /\ Partner(0) = 1
        BY DEF Partnered, Partner
      <4>3. Q[1][lo][0] = <<>>
        BY <2>2
      <4>. QED  BY <2>4, <3>2, <4>1, <4>2, <4>3, GrowEmpty DEF PairedPath
    <3>3. CASE m = 1
      <4>1. P[2][2 * lo][1] = Grow(<<>>, G[2 * lo])
        BY <2>1, <2>2, <3>1, <3>3 DEF PathGrows, LevelOf
      <4>2. Partnered(1, 2) /\ Partner(1) = 0
        BY DEF Partnered, Partner
      <4>3. Q[1][lo][0] = <<>>
        BY <2>2
      <4>. QED  BY <2>4, <3>3, <4>1, <4>2, <4>3, GrowEmpty DEF PairedPath
    <3>. QED  BY <2>4, <3>2, <3>3
  <2>5. CASE j > 2
    <3>1. PICK h : h = (j + 1) \div 2
      OBVIOUS
    <3>2. PICK w : w = Split(h)
      OBVIOUS
    <3>3. /\ h \in Nat \ {0} /\ h > 1 /\ j <= 2 * h /\ 2 * h <= j + 1
          /\ w \in 1 .. h - 1 /\ Split(j) = 2 * w /\ 2 * w \in 1 .. j - 1
      <4>1. h \in Nat \ {0} /\ h > 1 /\ j <= 2 * h /\ 2 * h <= j + 1
        BY <2>5, <3>1
      <4>2. w \in 1 .. h - 1 /\ Split(j) = 2 * w
        BY <2>5, <3>1, <3>2, <4>1, SplitIs, SplitOfPairs
      <4>. QED  BY <4>1, <4>2
    <3>4. PICK l : l = m \div 2
      OBVIOUS
    <3>5. l \in 0 .. h - 1 /\ m \in {2 * l, 2 * l + 1}
      BY <2>5, <3>1, <3>4
    <3>6. PathGrows(P, T, j, 2 * lo, m, 2 * w) /\ PathGrows(Q, V, h, lo, l, w)
      BY <2>1, <3>2, <3>3, <3>5, PathUnfolds
    <3>7. CASE m < 2 * w
      <4>1. l < w /\ l \in 0 .. w - 1 /\ m \in 0 .. 2 * w - 1
        BY <3>3, <3>5, <3>7
      <4>2. PICK p, q, y :
              /\ p = P[2 * w][2 * lo][m] /\ q = Q[w][lo][l]
              /\ y = T[j - 2 * w][2 * lo + 2 * w]
        OBVIOUS
      <4>3. y = V[h - w][lo + w]
        <5>1. /\ j - 2 * w \in Nat \ {0} /\ lo + w \in Nat
              /\ 2 * (lo + w) + (j - 2 * w) = 2 * lo + j
              /\ (j - 2 * w) % 2 = 0 \/ 2 * (lo + w) + (j - 2 * w) = s
              /\ ((j - 2 * w) + 1) \div 2 = h - w
              /\ 2 * (lo + w) = 2 * lo + 2 * w
          BY <1>1, <3>1, <3>3
        <5>. QED  BY <1>1, <4>2, <5>1, TreeOfPairs
      <4>4. P[j][2 * lo][m] = Grow(p, y) /\ Q[h][lo][l] = Grow(q, y)
        BY <2>5, <3>3, <3>6, <3>7, <4>1, <4>2, <4>3 DEF PathGrows
      <4>5. Longer(p, G[2 * lo + Partner(m)], q)
        <5>1. PathsPaired(P, Q, G, s, 2 * w) /\ 2 * lo + 2 * w <= s
          BY <1>1, <3>3
        <5>2. Partnered(m, 2 * w) /\ (2 * w) % 2 = 0 /\ (2 * w + 1) \div 2 = w
          BY <3>3, <3>5, <3>7 DEF Partnered
        <5>3. PairedPath(p, q, G, 2 * w, lo, m)
          BY <3>4, <4>1, <4>2, <5>1, <5>2 DEF PathsPaired
        <5>. QED  BY <5>2, <5>3 DEF PairedPath
      <4>6. IsSeq(p) /\ IsSeq(q)
        <5>1. SeqsAt(P, T, 2 * w) /\ SeqsAt(Q, V, w)
          BY <3>3, PathIsSeq
        <5>. QED  BY <2>1, <4>1, <4>2, <5>1 DEF SeqsAt
      <4>7. Partnered(m, j)
        BY <3>3, <3>5, <3>7 DEF Partnered
      <4>. QED  BY <3>1, <3>4, <4>4, <4>5, <4>6, <4>7, LongerGrows DEF PairedPath
    <3>8. CASE ~(m < 2 * w)
      <4>1. /\ ~(l < w) /\ l - w \in 0 .. (h - w) - 1
            /\ m - 2 * w \in 0 .. (j - 2 * w) - 1 /\ (m - 2 * w) \div 2 = l - w
            /\ j - 2 * w \in 1 .. j - 1 /\ h - w \in Nat \ {0}
            /\ lo + w \in Nat /\ 2 * (lo + w) = 2 * lo + 2 * w
            /\ 2 * (lo + w) + (j - 2 * w) = 2 * lo + j
            /\ ((j - 2 * w) + 1) \div 2 = h - w
            /\ (j - 2 * w) % 2 = j % 2
        BY <3>1, <3>3, <3>4, <3>5, <3>8
      <4>2. PICK p, q, y :
              /\ p = P[j - 2 * w][2 * lo + 2 * w][m - 2 * w] /\ q = Q[h - w][lo + w][l - w]
              /\ y = T[2 * w][2 * lo]
        OBVIOUS
      <4>3. y = V[w][lo]
        <5>1. 2 * w \in Nat \ {0} /\ (2 * w) % 2 = 0 /\ 2 * lo + 2 * w <= s
              /\ (2 * w + 1) \div 2 = w
          BY <1>1, <3>3
        <5>. QED  BY <4>2, <5>1, TreeOfPairs
      <4>4. P[j][2 * lo][m] = Grow(p, y) /\ Q[h][lo][l] = Grow(q, y)
        BY <2>5, <3>3, <3>6, <3>8, <4>1, <4>2, <4>3 DEF PathGrows
      <4>5. PairedPath(p, q, G, j - 2 * w, lo + w, m - 2 * w)
        <5>1. PathsPaired(P, Q, G, s, j - 2 * w)
          BY <1>1, <4>1
        <5>. QED  BY <1>1, <4>1, <4>2, <5>1 DEF PathsPaired
      <4>6. PairedPath(p, q, G, j, lo, m)
        <5>1. Partnered(m - 2 * w, j - 2 * w) <=> Partnered(m, j)
          BY <3>3, <3>5, <4>1 DEF Partnered
        <5>2. 2 * (lo + w) + Partner(m - 2 * w) = 2 * lo + Partner(m)
          BY <3>3, <3>5, <4>1 DEF Partner
        <5>. QED  BY <4>5, <5>1, <5>2 DEF PairedPath
      <4>7. IsSeq(p) /\ IsSeq(q)
        <5>1. SeqsAt(P, T, j - 2 * w) /\ SeqsAt(Q, V, h - w)
          BY <4>1, PathIsSeq
        <5>2. 2 * lo + 2 * w \in Nat
          BY <4>1
        <5>. QED  BY <4>1, <4>2, <5>1, <5>2 DEF SeqsAt
      <4>. QED  BY <3>1, <3>4, <4>4, <4>6, <4>7, LongerGrows DEF PairedPath
    <3>. QED  BY <3>7, <3>8
  <2>. QED  BY <2>3, <2>4, <2>5
<1>2. ASSUME NEW j \in Nat \ {0}, \A i \in 1 .. j - 1 : PathsPaired(P, Q, G, s, i)
      PROVE  PathsPaired(P, Q, G, s, j)
  BY <1>1, <1>2 DEF PathsPaired
<1> DEFINE Bad == {j \in Nat \ {0} : ~PathsPaired(P, Q, G, s, j)}
<1>3. Bad = {}
  <2> SUFFICES ASSUME Bad # {} PROVE FALSE
    OBVIOUS
  <2>1. PICK j \in Bad : \A i \in Bad : j <= i
    <3>1. Bad \subseteq Nat
      OBVIOUS
    <3> HIDE DEF Bad
    <3>. QED  BY <3>1, LeastNumber
  <2>2. j \in Nat \ {0} /\ ~PathsPaired(P, Q, G, s, j)
    OBVIOUS
  <2>3. \A i \in 1 .. j - 1 : PathsPaired(P, Q, G, s, i)
    BY <2>1, <2>2
  <2>. QED  BY <1>2, <2>2, <2>3
<1>. QED  BY <1>3

-----------------------------------------------------------------------------
(* On the way up: the node i of a level whose last index is last, with the *)
(* nodes G on that level, done siblings of the path used.                  *)

Rest(path, done, p) ==
    Len(path) = done + Len(p) /\ \A j \in 1 .. Len(p) : path[done + j] = p[j]

OnWayIn(T, P, i, last, done, G, root, path) ==
    /\ IsTree(T, G) /\ IsPaths(P, T)
    /\ T[last + 1][0] = root
    /\ Rest(path, done, P[last + 1][0][i])

OnWay(i, last, done, G, root, path) ==
    \E T, P : OnWayIn(T, P, i, last, done, G, root, path)

\* At the top the node is the root and the path is used up.
LEMMA AtTop ==
    ASSUME NEW done \in Nat, NEW G, NEW root, NEW path, OnWay(0, 0, done, G, root, path)
    PROVE  Len(path) = done /\ root = G[0]
<1>1. PICK T, P : OnWayIn(T, P, 0, 0, done, G, root, path)
  BY DEF OnWay
<1>2. /\ IsTree(T, G) /\ IsPaths(P, T) /\ T[1][0] = root
      /\ Len(path) = done + Len(P[1][0][0])
  BY <1>1 DEF OnWayIn, Rest
<1>3. Len(P[1][0][0]) = 0
  <2>1. SeqsAt(P, T, 1)
    BY <1>2, PathIsSeq
  <2>. QED  BY <2>1 DEF SeqsAt
<1>4. T[1] = LevelOf(T, G, 1)
  BY <1>2 DEF IsTree
<1>5. T[1][0] = G[0]
  BY <1>4 DEF LevelOf
<1>. QED  BY <1>2, <1>3, <1>5

\* Below it, siblings are missing.
LEMMA BelowTop ==
    ASSUME NEW i \in Nat, NEW last \in Nat, i <= last, last > 0,
           NEW done \in Nat, NEW G, NEW root, NEW path, OnWay(i, last, done, G, root, path)
    PROVE  Len(path) > done
<1>1. PICK T, P : OnWayIn(T, P, i, last, done, G, root, path)
  BY DEF OnWay
<1>2. IsPaths(P, T) /\ Len(path) = done + Len(P[last + 1][0][i])
  BY <1>1 DEF OnWayIn, Rest
<1>3. PICK n : n = last + 1
  OBVIOUS
<1>4. n \in Nat \ {0} /\ n > 1 /\ i \in 0 .. n - 1
  BY <1>3
<1>5. SeqsAt(P, T, n)
  BY <1>2, <1>4, PathIsSeq
<1>6. IsSeq(P[n][0][i]) /\ Len(P[n][0][i]) > 0
  BY <1>4, <1>5 DEF SeqsAt
<1>7. Len(P[n][0][i]) \in Nat
  BY <1>6 DEF IsSeq
<1>. QED  BY <1>2, <1>3, <1>6, <1>7

\* What the level above has, for the trees and the paths of both.
LEMMA LevelAbove ==
    ASSUME NEW i \in Nat, NEW last \in Nat, i <= last, NEW G, NEW T, NEW P,
           IsTree(T, G), IsPaths(P, T)
    PROVE  \E V, Q :
             /\ IsTree(V, Up(G, last + 1)) /\ IsPaths(Q, V)
             /\ T[last + 1][0] = V[last \div 2 + 1][0]
             /\ PairedPath(P[last + 1][0][i], Q[last \div 2 + 1][0][i \div 2],
                           G, last + 1, 0, i)
<1>1. PICK V : IsTree(V, Up(G, last + 1))
  BY TreeExists
<1>2. PICK Q : IsPaths(Q, V)
  BY PathsExist
<1>3. /\ last + 1 \in Nat \ {0} /\ (last + 1 + 1) \div 2 = last \div 2 + 1
      /\ 2 * 0 + (last + 1) = last + 1 /\ 2 * 0 = 0 /\ i \in 0 .. (last + 1) - 1
  OBVIOUS
<1>4. T[last + 1][2 * 0] = V[(last + 1 + 1) \div 2][0]
  BY <1>1, <1>3, TreeOfPairs
<1>5. PathsPaired(P, Q, G, last + 1, last + 1)
  BY <1>1, <1>2, <1>3, PathOfPairs
<1>6. PairedPath(P[last + 1][2 * 0][i], Q[(last + 1 + 1) \div 2][0][i \div 2],
                 G, last + 1, 0, i)
  BY <1>3, <1>5 DEF PathsPaired
<1>. QED  BY <1>1, <1>2, <1>3, <1>4, <1>6

\* A last node without a partner is its own pair: no sibling is used.
LEMMA ClimbAlone ==
    ASSUME NEW i \in Nat, NEW last \in Nat, i <= last, ~(i < last), i % 2 = 0, NEW done \in Nat,
           NEW G, NEW root, NEW path, OnWay(i, last, done, G, root, path)
    PROVE  /\ OnWay(i \div 2, last \div 2, done, Up(G, last + 1), root, path)
           /\ Up(G, last + 1)[i \div 2] = G[i]
<1>1. PICK T, P : OnWayIn(T, P, i, last, done, G, root, path)
  BY DEF OnWay
<1>2. IsTree(T, G) /\ IsPaths(P, T)
  BY <1>1 DEF OnWayIn
<1>3. PICK V, Q :
        /\ IsTree(V, Up(G, last + 1)) /\ IsPaths(Q, V)
        /\ T[last + 1][0] = V[last \div 2 + 1][0]
        /\ PairedPath(P[last + 1][0][i], Q[last \div 2 + 1][0][i \div 2],
                      G, last + 1, 0, i)
  BY <1>2, LevelAbove
<1>4. P[last + 1][0][i] = Q[last \div 2 + 1][0][i \div 2]
  BY <1>3 DEF PairedPath, Partnered
<1>5. OnWayIn(V, Q, i \div 2, last \div 2, done, Up(G, last + 1), root, path)
  BY <1>1, <1>3, <1>4 DEF OnWayIn
<1>6. PICK h : h = i \div 2
  OBVIOUS
<1>7. h \in Nat /\ 2 * h = i /\ ~(2 * h + 1 < last + 1)
  BY <1>6
<1>8. Up(G, last + 1)[h] = G[i]
  BY <1>7 DEF Up
<1>. QED  BY <1>5, <1>6, <1>8 DEF OnWay

\* Any other one is joined with its partner, the path's next sibling.
LEMMA ClimbPaired ==
    ASSUME NEW i \in Nat, NEW last \in Nat, i <= last, i % 2 = 1 \/ i < last,
           NEW done \in Nat, NEW G, NEW root, NEW path,
           OnWay(i, last, done, G, root, path)
    PROVE  /\ OnWay(i \div 2, last \div 2, done + 1, Up(G, last + 1), root, path)
           /\ path[done + 1] = G[Partner(i)]
           /\ Up(G, last + 1)[i \div 2] = IF i % 2 = 1 THEN node_hash(G[Partner(i)], G[i])
                                          ELSE node_hash(G[i], G[Partner(i)])
<1>1. PICK T, P : OnWayIn(T, P, i, last, done, G, root, path)
  BY DEF OnWay
<1>2. IsTree(T, G) /\ IsPaths(P, T)
  BY <1>1 DEF OnWayIn
<1>3. PICK V, Q :
        /\ IsTree(V, Up(G, last + 1)) /\ IsPaths(Q, V)
        /\ T[last + 1][0] = V[last \div 2 + 1][0]
        /\ PairedPath(P[last + 1][0][i], Q[last \div 2 + 1][0][i \div 2],
                      G, last + 1, 0, i)
  BY <1>2, LevelAbove
<1>4. PICK p, q : p = P[last + 1][0][i] /\ q = Q[last \div 2 + 1][0][i \div 2]
  OBVIOUS
<1>5. /\ Len(p) = Len(q) + 1 /\ p[1] = G[Partner(i)]
      /\ \A j \in 1 .. Len(q) : p[j + 1] = q[j]
  <2>1. Partnered(i, last + 1) /\ 2 * 0 + Partner(i) = Partner(i)
    BY DEF Partnered, Partner
  <2>. QED  BY <1>3, <1>4, <2>1 DEF PairedPath, Longer
<1>6. Len(q) \in Nat
  <2>1. last \div 2 + 1 \in Nat \ {0} /\ i \div 2 \in 0 .. (last \div 2 + 1) - 1
    BY Halving
  <2>2. SeqsAt(Q, V, last \div 2 + 1)
    BY <1>3, <2>1, PathIsSeq
  <2>. QED  BY <1>4, <2>1, <2>2 DEF SeqsAt, IsSeq
<1>7. Len(path) = done + Len(p) /\ \A j \in 1 .. Len(p) : path[done + j] = p[j]
  BY <1>1, <1>4 DEF OnWayIn, Rest
<1>8. path[done + 1] = G[Partner(i)]
  <2>1. 1 \in 1 .. Len(p)
    BY <1>5, <1>6
  <2>. QED  BY <1>5, <1>7, <2>1
<1>9. Rest(path, done + 1, q)
  <2>1. Len(path) = (done + 1) + Len(q)
    BY <1>5, <1>6, <1>7
  <2>2. ASSUME NEW j \in 1 .. Len(q) PROVE path[(done + 1) + j] = q[j]
    <3>1. j + 1 \in 1 .. Len(p) /\ done + (j + 1) = (done + 1) + j
      BY <1>5, <1>6
    <3>2. path[done + (j + 1)] = p[j + 1]
      BY <1>7, <3>1
    <3>. QED  BY <1>5, <3>1, <3>2
  <2>. QED  BY <2>1, <2>2 DEF Rest
<1>10. OnWayIn(V, Q, i \div 2, last \div 2, done + 1, Up(G, last + 1), root, path)
  BY <1>1, <1>3, <1>4, <1>9 DEF OnWayIn
<1>11. Up(G, last + 1)[i \div 2] = IF i % 2 = 1 THEN node_hash(G[Partner(i)], G[i])
                                   ELSE node_hash(G[i], G[Partner(i)])
  <2>1. PICK h : h = i \div 2
    OBVIOUS
  <2>2. h \in Nat /\ 2 * h + 1 < last + 1
    BY <2>1
  <2>3. Up(G, last + 1)[h] = node_hash(G[2 * h], G[2 * h + 1])
    BY <2>2 DEF Up
  <2>4. CASE i % 2 = 1
    <3>1. 2 * h = Partner(i) /\ 2 * h + 1 = i
      BY <2>1, <2>4 DEF Partner
    <3>. QED  BY <2>1, <2>3, <2>4, <3>1
  <2>5. CASE i % 2 = 0
    <3>1. 2 * h = i /\ 2 * h + 1 = Partner(i)
      BY <2>1, <2>5 DEF Partner
    <3>. QED  BY <2>1, <2>3, <2>5, <3>1
  <2>. QED  BY <2>4, <2>5
<1>. QED  BY <1>8, <1>10, <1>11 DEF OnWay

-----------------------------------------------------------------------------
(* What the loop knows of a claim c: the hash x rebuilt for the node i is  *)
(* that node's exactly when the leaf and the siblings used are the log's.  *)

OwnPath(c) == Proof(c.index, c.stated)

InTree(c) == c.index \in 0 .. c.stated - 1

Right(c, done) ==
    c.leaf = LeafData(c.index) /\ \A i \in 1 .. done : c.path[i] = OwnPath(c)[i]

Rebuilt(c, x, i, last, done) ==
    \E G : OnWay(i, last, done, G, TreeRoot(c.stated), OwnPath(c)) /\ (x = G[i] <=> Right(c, done))

\* The verdict's grounds, once the loop has ended with x.
Judged(c, x) ==
    /\ x = None <=> ~InTree(c) \/ Len(c.path) # Len(OwnPath(c))
    /\ x # None => (x = TreeRoot(c.stated) <=> Right(c, Len(OwnPath(c))))

\* Hashes are equal only of equal data, a leaf's is never a node's, None is neither.
LEMMA HashFacts ==
    /\ \A d : leaf_hash(d) # None
    /\ \A l, r : node_hash(l, r) # None
    /\ \A d, l, r : leaf_hash(d) # node_hash(l, r)
    /\ \A d, e : leaf_hash(d) = leaf_hash(e) => d = e
    /\ \A l, r, a, b : node_hash(l, r) = node_hash(a, b) => l = a /\ r = b
<1>1. \A d : leaf_hash(d) # None
  BY DEF leaf_hash, None
<1>2. \A l, r : node_hash(l, r) # None
  BY DEF node_hash, None
<1>3. \A d, l, r : leaf_hash(d) # node_hash(l, r)
  BY DEF leaf_hash, node_hash, LEAF_PREFIX, NODE_PREFIX
<1>4. \A d, e : leaf_hash(d) = leaf_hash(e) => d = e
  BY DEF leaf_hash
<1>5. \A l, r, a, b : node_hash(l, r) = node_hash(a, b) => l = a /\ r = b
  BY DEF node_hash
<1>. QED  BY <1>1, <1>2, <1>3, <1>4, <1>5

\* One more sibling used.
LEMMA RightOneMore ==
    ASSUME NEW c, NEW done \in Nat
    PROVE  Right(c, done + 1) <=> Right(c, done) /\ c.path[done + 1] = OwnPath(c)[done + 1]
<1>1. \A i : i \in 1 .. done + 1 <=> i \in 1 .. done \/ i = done + 1
  OBVIOUS
<1>. QED  BY <1>1 DEF Right

\* Begin: nothing but the leaf has been used.
LEMMA RebuiltAtStart ==
    ASSUME NEW c \in Claims, InTree(c)
    PROVE  Rebuilt(c, leaf_hash(c.leaf), c.index, c.stated - 1, 0)
<1>1. /\ c.index \in Nat /\ c.stated \in Nat \ {0} /\ c.stated - 1 + 1 = c.stated
      /\ c.index \in 0 .. c.stated - 1
  <2>1. c.index \in Int /\ c.stated \in Int
    BY ClaimsAreProofs
  <2>. QED  BY <2>1 DEF InTree
<1>2. /\ IsTree(Subtree, LeafHashes) /\ IsPaths(AuditPath, Subtree)
      /\ Subtree[c.stated - 1 + 1][0] = TreeRoot(c.stated)
  BY <1>1, LogIsTree DEF TreeRoot
<1>3. Rest(OwnPath(c), 0, AuditPath[c.stated - 1 + 1][0][c.index])
  <2>1. PICK p : p = AuditPath[c.stated][0][c.index]
    OBVIOUS
  <2>2. IsSeq(p)
    <3>1. SeqsAt(AuditPath, Subtree, c.stated)
      BY <1>1, <1>2, PathIsSeq
    <3>. QED  BY <1>1, <2>1, <3>1 DEF SeqsAt
  <2>3. Rest(p, 0, p)
    BY <2>2 DEF Rest, IsSeq
  <2>. QED  BY <1>1, <2>1, <2>3 DEF OwnPath, Proof
<1>4. OnWay(c.index, c.stated - 1, 0, LeafHashes, TreeRoot(c.stated), OwnPath(c))
  BY <1>2, <1>3 DEF OnWay, OnWayIn
<1>5. leaf_hash(c.leaf) = LeafHashes[c.index] <=> Right(c, 0)
  <2>1. LeafHashes[c.index] = leaf_hash(LeafData(c.index))
    BY <1>1 DEF LeafHashes
  <2>2. Right(c, 0) <=> c.leaf = LeafData(c.index)
    BY DEF Right
  <2>. QED  BY <2>1, <2>2, HashFacts
<1>. QED  BY <1>4, <1>5 DEF Rebuilt

\* StripZero: the node is its own pair.
LEMMA RebuiltAlone ==
    ASSUME NEW c, NEW x, NEW i \in Nat, NEW last \in Nat, i <= last, ~(i < last),
           i % 2 = 0, NEW done \in Nat, Rebuilt(c, x, i, last, done)
    PROVE  Rebuilt(c, x, i \div 2, last \div 2, done)
<1>1. PICK G : /\ OnWay(i, last, done, G, TreeRoot(c.stated), OwnPath(c))
               /\ x = G[i] <=> Right(c, done)
  BY DEF Rebuilt
<1>2. PICK H : H = Up(G, last + 1)
  OBVIOUS
<1>3. OnWay(i \div 2, last \div 2, done, H, TreeRoot(c.stated), OwnPath(c))
      /\ H[i \div 2] = G[i]
  BY <1>1, <1>2, ClimbAlone
<1>. QED  BY <1>1, <1>3 DEF Rebuilt

\* JoinRight, and JoinLeft once the zeros are stripped.
LEMMA RebuiltPaired ==
    ASSUME NEW c, NEW x, NEW i \in Nat, NEW last \in Nat, i <= last,
           i % 2 = 1 \/ i < last, NEW done \in Nat, Rebuilt(c, x, i, last, done)
    PROVE  Rebuilt(c, IF i % 2 = 1 THEN node_hash(c.path[done + 1], x)
                                   ELSE node_hash(x, c.path[done + 1]),
                   i \div 2, last \div 2, done + 1)
<1>1. PICK G : /\ OnWay(i, last, done, G, TreeRoot(c.stated), OwnPath(c))
               /\ x = G[i] <=> Right(c, done)
  BY DEF Rebuilt
<1>2. PICK H : H = Up(G, last + 1)
  OBVIOUS
<1>3. /\ OnWay(i \div 2, last \div 2, done + 1, H, TreeRoot(c.stated), OwnPath(c))
      /\ OwnPath(c)[done + 1] = G[Partner(i)]
      /\ H[i \div 2] = IF i % 2 = 1 THEN node_hash(G[Partner(i)], G[i])
                       ELSE node_hash(G[i], G[Partner(i)])
  BY <1>1, <1>2, ClimbPaired
<1>4. PICK y : y = c.path[done + 1]
  OBVIOUS
<1>5. Right(c, done + 1) <=> Right(c, done) /\ y = G[Partner(i)]
  BY <1>3, <1>4, RightOneMore
<1>6. PICK z : z = IF i % 2 = 1 THEN node_hash(y, x) ELSE node_hash(x, y)
  OBVIOUS
<1>7. z = H[i \div 2] <=> Right(c, done + 1)
  <2>1. z = H[i \div 2] <=> x = G[i] /\ y = G[Partner(i)]
    BY <1>3, <1>6, HashFacts
  <2>. QED  BY <1>1, <1>5, <2>1
<1>8. Rebuilt(c, z, i \div 2, last \div 2, done + 1)
  BY <1>3, <1>7 DEF Rebuilt
<1>. QED  BY <1>4, <1>6, <1>8

\* Finish and PathTooLong: the path ended at the top, above it or below it.
LEMMA JudgedAtTop ==
    ASSUME NEW c, InTree(c), NEW x, x # None, NEW done \in Nat, Rebuilt(c, x, 0, 0, done)
    PROVE  IF Len(c.path) = done THEN Judged(c, x) ELSE Judged(c, None)
<1>1. PICK G : /\ OnWay(0, 0, done, G, TreeRoot(c.stated), OwnPath(c))
               /\ x = G[0] <=> Right(c, done)
  BY DEF Rebuilt
<1>2. Len(OwnPath(c)) = done /\ TreeRoot(c.stated) = G[0]
  BY <1>1, AtTop
<1>. QED  BY <1>1, <1>2 DEF Judged

LEMMA JudgedBelow ==
    ASSUME NEW c, InTree(c), NEW x, NEW i \in Nat, NEW last \in Nat, i <= last, last > 0,
           NEW done \in Nat, Rebuilt(c, x, i, last, done), Len(c.path) = done
    PROVE  Judged(c, None)
<1>1. PICK G : OnWay(i, last, done, G, TreeRoot(c.stated), OwnPath(c))
  BY DEF Rebuilt
<1>2. Len(OwnPath(c)) > done
  BY <1>1, BelowTop
<1>. QED  BY <1>2 DEF Judged

-----------------------------------------------------------------------------
(* The inductive invariant: in the loop the node is Rebuilt with k - 1     *)
(* siblings, and after a JoinLeft it is so once the pending sibling is     *)
(* taken off again, for the zeros are stripped only afterwards.            *)

ClimbInv ==
    /\ pc = "loop" => InTree(claim) /\ node # None /\ Rebuilt(claim, node, fn, sn, k - 1)
    /\ pc = "strip" =>
         /\ InTree(claim) /\ node # None /\ k > 1 /\ (fn % 2 = 1 \/ ~(fn < sn))
         /\ \E x : node = node_hash(claim.path[k - 1], x) /\ Rebuilt(claim, x, fn, sn, k - 2)
    /\ pc = "compare" => Judged(claim, node)
    /\ pc = "done" => IF Undecodable THEN verdict = "None"
                      ELSE /\ Judged(claim, node)
                           /\ verdict = IF node = claim.root THEN "True" ELSE "False"
    /\ pc = "decode" => k = 1
    /\ pc # "done" => verdict = "None"
    /\ pc \in {"loop", "strip", "compare"} => ~Undecodable

\* Every step of root_from_inclusion_proof keeps it.
LEMMA ClimbInvHolds == Spec => [](TypeOK /\ ClaimInv /\ ClimbInv)
<1>1. Init => TypeOK /\ ClaimInv /\ ClimbInv
  BY ClaimsAreProofs DEF Init, TypeOK, ClaimInv, ClimbInv
<1>2. TypeOK /\ ClaimInv /\ ClimbInv /\ TypeOK' /\ [Next]_vars => ClimbInv'
  <2>1. SUFFICES ASSUME TypeOK, ClaimInv, ClimbInv, TypeOK', [Next]_vars PROVE ClimbInv'
    OBVIOUS
  <2>2. /\ claim.index \in Int /\ claim.stated \in Int
        /\ Len(claim.path) \in Nat
    BY <2>1, ClaimsAreProofs DEF ClaimInv
  <2>3. fn \in Nat /\ sn \in Nat /\ fn <= sn /\ k \in Nat /\ k >= 1
    BY <2>1, <2>2 DEF TypeOK
  <2>4. CASE Unjudged
    BY <2>1, <2>4 DEF Unjudged, Undecodable, ClimbInv
  <2>5. CASE Reject
    <3>1. ~InTree(claim)
      BY <2>2, <2>5 DEF Reject, OutsideTree, InTree
    <3>2. Judged(claim, None)
      BY <3>1 DEF Judged
    <3>. QED
      BY <2>1, <2>5, <3>2 DEF Reject, Refuse, Undecodable, ClimbInv
  <2>6. CASE Begin
    <3>1. InTree(claim)
      BY <2>2, <2>6 DEF Begin, OutsideTree, InTree
    <3>2. Rebuilt(claim, leaf_hash(claim.leaf), claim.index, claim.stated - 1, 0)
      BY <2>1, <3>1, RebuiltAtStart DEF ClaimInv
    <3>3. k = 1
      BY <2>1, <2>6 DEF Begin, ClimbInv
    <3>4. Rebuilt(claim, node', fn', sn', k' - 1)
      BY <2>6, <3>2, <3>3 DEF Begin
    <3>. QED
      BY <2>1, <2>6, <3>1, <3>4, HashFacts DEF Begin, Undecodable, ClimbInv
  <2>7. CASE PathTooLong
    <3>1. fn = 0 /\ k - 1 \in Nat /\ Len(claim.path) # k - 1
      BY <2>2, <2>3, <2>7 DEF PathTooLong
    <3>2. InTree(claim) /\ node # None /\ Rebuilt(claim, node, 0, 0, k - 1)
      BY <2>1, <2>7, <3>1 DEF PathTooLong, ClimbInv
    <3>3. Judged(claim, None)
      BY <3>1, <3>2, JudgedAtTop
    <3>. QED
      BY <2>1, <2>7, <3>3 DEF PathTooLong, Refuse, Undecodable, ClimbInv
  <2>8. CASE JoinLeft
    <3>1. Rebuilt(claim, node, fn, sn, k' - 2) /\ InTree(claim) /\ k' = k + 1
      <4>1. Rebuilt(claim, node, fn, sn, k - 1) /\ InTree(claim) /\ k' = k + 1
        BY <2>1, <2>8 DEF JoinLeft, ClimbInv
      <4>2. k' - 2 = k - 1
        BY <2>3, <4>1
      <4>. QED  BY <4>1, <4>2
    <3>2. node' = node_hash(claim.path[k' - 1], node)
      BY <2>3, <2>8, <3>1 DEF JoinLeft
    <3>3. fn % 2 = 1 \/ ~(fn < sn)
      BY <2>3, <2>8 DEF JoinLeft, SiblingIsLeft
    <3>. QED
      BY <2>1, <2>3, <2>8, <3>1, <3>2, <3>3, HashFacts
      DEF JoinLeft, Undecodable, ClimbInv
  <2>9. CASE StripZero
    <3>1. PICK x : node = node_hash(claim.path[k - 1], x) /\ Rebuilt(claim, x, fn, sn, k - 2)
      BY <2>1, <2>9 DEF StripZero, ClimbInv
    <3>2. k - 2 \in Nat /\ ~(fn < sn) /\ fn % 2 = 0
      BY <2>1, <2>3, <2>9 DEF StripZero, ClimbInv
    <3>3. Rebuilt(claim, x, fn', sn', k - 2)
      BY <2>3, <2>9, <3>1, <3>2, RebuiltAlone DEF StripZero, Shift
    <3>4. ~(fn' < sn')
      BY <2>3, <2>9, <3>2 DEF StripZero, Shift
    <3>. QED
      BY <2>1, <2>9, <3>1, <3>3, <3>4 DEF StripZero, Undecodable, ClimbInv
  <2>10. CASE Ascend
    <3>1. PICK x : node = node_hash(claim.path[k - 1], x) /\ Rebuilt(claim, x, fn, sn, k - 2)
      BY <2>1, <2>10 DEF Ascend, ClimbInv
    <3>2. k - 2 \in Nat /\ k - 2 + 1 = k - 1 /\ fn % 2 = 1
      BY <2>1, <2>3, <2>10 DEF Ascend, ClimbInv, TypeOK
    <3>3. Rebuilt(claim, node_hash(claim.path[k - 2 + 1], x), fn \div 2, sn \div 2, k - 2 + 1)
      BY <2>3, <3>1, <3>2, RebuiltPaired
    <3>4. Rebuilt(claim, node, fn', sn', k - 1)
      BY <2>10, <3>1, <3>2, <3>3 DEF Ascend, Shift
    <3>. QED
      BY <2>1, <2>10, <3>4 DEF Ascend, Undecodable, ClimbInv
  <2>11. CASE JoinRight
    <3>1. Rebuilt(claim, node, fn, sn, k - 1)
      BY <2>1, <2>11 DEF JoinRight, ClimbInv
    <3>2. k - 1 \in Nat /\ k - 1 + 1 = k /\ fn % 2 # 1 /\ fn < sn
      BY <2>3, <2>11 DEF JoinRight, SiblingIsLeft
    <3>3. Rebuilt(claim, node_hash(node, claim.path[k - 1 + 1]), fn \div 2, sn \div 2, k - 1 + 1)
      BY <2>3, <3>1, <3>2, RebuiltPaired
    <3>4. Rebuilt(claim, node', fn', sn', k' - 1)
      BY <2>3, <2>11, <3>2, <3>3 DEF JoinRight, Shift
    <3>. QED
      BY <2>1, <2>11, <3>4, HashFacts DEF JoinRight, Undecodable, ClimbInv
  <2>12. CASE Finish
    <3>1. Len(claim.path) = k - 1 /\ k - 1 \in Nat
      BY <2>1, <2>2, <2>3, <2>12 DEF Finish, TypeOK
    <3>2. InTree(claim) /\ node # None /\ Rebuilt(claim, node, fn, sn, k - 1)
      BY <2>1, <2>12 DEF Finish, ClimbInv
    <3>3. Judged(claim, node')
      <4>1. CASE sn = 0
        <5>1. fn = 0
          BY <2>3, <4>1
        <5>2. Judged(claim, node)
          BY <3>1, <3>2, <4>1, <5>1, JudgedAtTop
        <5>. QED  BY <2>12, <4>1, <5>2 DEF Finish
      <4>2. CASE sn # 0
        <5>1. Judged(claim, None)
          BY <2>3, <3>1, <3>2, <4>2, JudgedBelow
        <5>. QED  BY <2>12, <4>2, <5>1 DEF Finish
      <4>. QED  BY <4>1, <4>2
    <3>. QED
      BY <2>1, <2>12, <3>3 DEF Finish, Undecodable, ClimbInv
  <2>13. CASE Compare
    BY <2>1, <2>13 DEF Compare, Undecodable, ClimbInv
  <2>14. CASE UNCHANGED vars
    BY <2>1, <2>14 DEF vars, Undecodable, ClimbInv
  <2>15. QED
    BY <2>1, <2>4, <2>5, <2>6, <2>7, <2>8, <2>9, <2>10, <2>11, <2>12, <2>13,
       <2>14 DEF Next
<1>3. ClaimInv /\ [Next]_vars => ClaimInv'
  BY DEF ClaimInv, Next, vars, Unjudged, Reject, Begin, PathTooLong, JoinLeft,
         StripZero, Ascend, JoinRight, Finish, Compare
<1>4. QED
  BY <1>1, <1>2, <1>3, TypeCorrect, PTL DEF Spec

-----------------------------------------------------------------------------
(* What follows for the verdict.                                           *)

\* The recursion of the tree, unfolded once.
LEMMA SubtreeIs ==
    ASSUME NEW n \in Nat \ {0}, NEW lo \in Nat
    PROVE  /\ n = 1 => Subtree[n][lo] = leaf_hash(LeafData(lo))
           /\ n > 1 => Subtree[n][lo] = node_hash(Subtree[Split(n)][lo],
                                                  Subtree[n - Split(n)][lo + Split(n)])
           /\ Subtree[n][lo] # None
<1>1. Subtree[n] = LevelOf(Subtree, LeafHashes, n)
  BY LogIsTree DEF IsTree
<1>2. CASE n = 1
  <2>1. Subtree[n][lo] = leaf_hash(LeafData(lo))
    BY <1>1, <1>2 DEF LevelOf, LeafHashes
  <2>. QED  BY <1>2, <2>1, HashFacts
<1>3. CASE n > 1
  <2>1. Subtree[n][lo] = node_hash(Subtree[Split(n)][lo],
                                   Subtree[n - Split(n)][lo + Split(n)])
    BY <1>1, <1>3 DEF LevelOf
  <2>. QED  BY <1>3, <2>1, HashFacts
<1>. QED  BY <1>2, <1>3

\* The log's paths are sequences of hashes.
LEMMA OwnPathIs ==
    ASSUME NEW c \in Claims, InTree(c)
    PROVE  IsSeq(OwnPath(c)) /\ \A i \in 1 .. Len(OwnPath(c)) : OwnPath(c)[i] # None
<1>1. c.index \in Int /\ c.stated \in Int
  BY ClaimsAreProofs
<1>2. c.stated \in Nat \ {0} /\ c.index \in 0 .. c.stated - 1
  BY <1>1 DEF InTree
<1>3. SeqsAt(AuditPath, Subtree, c.stated)
  BY <1>2, LogIsTree, PathIsSeq
<1>4. PICK p : p = AuditPath[c.stated][0][c.index]
  OBVIOUS
<1>5. IsSeq(p) /\ \A i \in 1 .. Len(p) : p[i] \in NodesOf(Subtree)
  BY <1>2, <1>3, <1>4 DEF SeqsAt
<1>6. ASSUME NEW i \in Nat \ {0}, NEW lo \in Nat PROVE Subtree[i][lo] # None
  BY SubtreeIs
<1>7. \A h \in NodesOf(Subtree) : h # None
  BY <1>6 DEF NodesOf
<1>. QED  BY <1>4, <1>5, <1>7 DEF OwnPath, Proof

(* verify_inclusion_proof accepts the log's own proof of any of its leaves *)
(* in a tree of any size.                                                  *)
THEOREM HonestIsAccepted == Spec => []HonestProofRebuilds
<1>1. ClaimInv /\ ClimbInv => HonestProofRebuilds
  <2>1. SUFFICES ASSUME ClaimInv, ClimbInv, pc = "done", Honest(claim)
                 PROVE  verdict = "True"
    BY DEF HonestProofRebuilds
  <2>2. claim.root = TreeRoot(claim.stated) /\ InTree(claim) /\ claim.path = OwnPath(claim)
        /\ claim.leaf = LeafData(claim.index)
    BY <2>1 DEF Honest, InTree, OwnPath
  <2>3. ~Undecodable
    BY <2>1, <2>2, OwnPathIs DEF ClaimInv, Undecodable
  <2>4. /\ Judged(claim, node)
        /\ verdict = IF node = claim.root THEN "True" ELSE "False"
    BY <2>1, <2>3 DEF ClimbInv
  <2>5. Right(claim, Len(OwnPath(claim)))
    BY <2>2 DEF Right
  <2>. QED  BY <2>2, <2>4, <2>5 DEF Judged
<1>. QED  BY <1>1, ClimbInvHolds, PTL

(* Against the log's root and its true size verify_inclusion_proof accepts *)
(* no other leaf, index or path.                                           *)
THEOREM OnlyHonestIsAccepted == Spec => []TrueSizeProvesIndex
<1>1. ClaimInv /\ ClimbInv => TrueSizeProvesIndex
  <2>1. SUFFICES ASSUME ClaimInv, ClimbInv, verdict = "True",
                        claim.root = TreeRoot(claim.size), claim.stated = claim.size
                 PROVE  Honest(claim)
    BY DEF TrueSizeProvesIndex
  <2>2. Judged(claim, node) /\ node = claim.root
    BY <2>1 DEF ClimbInv
  <2>3. claim \in Claims /\ claim.size \in Nat \ {0}
    BY <2>1, ClaimsAreProofs DEF ClaimInv
  <2>4. node # None
    BY <2>1, <2>2, <2>3, SubtreeIs DEF TreeRoot
  <2>5. InTree(claim) /\ Len(claim.path) = Len(OwnPath(claim))
    BY <2>2, <2>4 DEF Judged
  <2>6. Right(claim, Len(OwnPath(claim)))
    BY <2>1, <2>2, <2>4 DEF Judged
  <2>7. claim.path = OwnPath(claim)
    <3>1. IsSeq(OwnPath(claim)) /\ IsSeq(claim.path)
      BY <2>3, <2>5, OwnPathIs, ClaimsAreProofs DEF IsSeq
    <3>2. \A i \in 1 .. Len(claim.path) : claim.path[i] = OwnPath(claim)[i]
      BY <2>5, <2>6 DEF Right
    <3>. QED  BY <2>5, <3>1, <3>2 DEF IsSeq
  <2>. QED  BY <2>1, <2>5, <2>6, <2>7 DEF Honest, InTree, Right, OwnPath
<1>. QED  BY <1>1, ClimbInvHolds, PTL

(* root_from_inclusion_proof returns None for an index outside the tree or *)
(* a path of the wrong length and for nothing else.                        *)
THEOREM NoneIsWrongLength == Spec => []NoneMeansWrongLength
<1>1. ClimbInv => NoneMeansWrongLength
  BY DEF ClimbInv, Judged, InTree, OwnPath, NoneMeansWrongLength
<1>. QED  BY <1>1, ClimbInvHolds, PTL

-----------------------------------------------------------------------------
(* Under any stated index and size: a hash rebuilt from the claimed leaf   *)
(* that is one of the log's tree was rebuilt from one of its leaves, for   *)
(* each join leads back to the tree's next smaller subtree.                *)

FromALeaf(c, x) ==
    \A n \in Nat \ {0}, lo \in Nat :
        lo + n <= c.size /\ x = Subtree[n][lo] =>
            \E i \in 0 .. c.size - 1 : c.leaf = LeafData(i)

\* Joined with any sibling on either side, the hash still comes from a leaf.
LEMMA JoinFromALeaf ==
    ASSUME NEW c \in Claims, NEW x, FromALeaf(c, x), NEW y, NEW z,
           z = node_hash(x, y) \/ z = node_hash(y, x)
    PROVE  FromALeaf(c, z)
<1>1. c.size \in Nat
  BY ClaimsAreProofs
<1>2. SUFFICES ASSUME NEW n \in Nat \ {0}, NEW lo \in Nat,
                      lo + n <= c.size, z = Subtree[n][lo]
               PROVE  \E i \in 0 .. c.size - 1 : c.leaf = LeafData(i)
  BY DEF FromALeaf
<1>3. n > 1
  <2>1. n # 1
    BY <1>2, SubtreeIs, HashFacts
  <2>. QED  BY <2>1
<1>4. PICK w : w = Split(n)
  OBVIOUS
<1>5. w \in 1 .. n - 1
  BY <1>3, <1>4, SplitIs
<1>6. z = node_hash(Subtree[w][lo], Subtree[n - w][lo + w])
  BY <1>2, <1>3, <1>4, SubtreeIs
<1>7. x = Subtree[w][lo] \/ x = Subtree[n - w][lo + w]
  BY <1>6, HashFacts
<1>8. CASE x = Subtree[w][lo]
  <2>1. w \in Nat \ {0} /\ lo + w <= c.size
    BY <1>1, <1>2, <1>5
  <2>. QED  BY <1>8, <2>1 DEF FromALeaf
<1>9. CASE x = Subtree[n - w][lo + w]
  <2>1. n - w \in Nat \ {0} /\ lo + w \in Nat /\ (lo + w) + (n - w) <= c.size
    BY <1>1, <1>2, <1>5
  <2>. QED  BY <1>9, <2>1 DEF FromALeaf
<1>. QED  BY <1>7, <1>8, <1>9

\* So does the hash the loop begins with, leaf_hash of the claimed leaf.
LEMMA LeafFromALeaf == ASSUME NEW c \in Claims PROVE FromALeaf(c, leaf_hash(c.leaf))
<1>1. c.size \in Nat
  BY ClaimsAreProofs
<1>2. SUFFICES ASSUME NEW n \in Nat \ {0}, NEW lo \in Nat,
                      lo + n <= c.size, leaf_hash(c.leaf) = Subtree[n][lo]
               PROVE  \E i \in 0 .. c.size - 1 : c.leaf = LeafData(i)
  BY DEF FromALeaf
<1>3. n = 1
  <2>1. ~(n > 1)
    BY <1>2, SubtreeIs, HashFacts
  <2>. QED  BY <2>1
<1>4. c.leaf = LeafData(lo)
  BY <1>2, <1>3, SubtreeIs, HashFacts
<1>5. lo \in 0 .. c.size - 1
  BY <1>1, <1>2, <1>3
<1>. QED  BY <1>4, <1>5

\* None is no hash of the tree.
LEMMA NoneFromALeaf == ASSUME NEW c PROVE FromALeaf(c, None)
BY SubtreeIs DEF FromALeaf

(* Whatever index and size are stated, what verify_inclusion_proof accepts *)
(* against the log's root is a leaf of the log, by the prefixes of         *)
(* leaf_hash and node_hash.                                                *)
THEOREM AcceptedIsALeaf == Spec => []AcceptedLeafIsALeaf
<1> DEFINE Inv == FromALeaf(claim, node)
<1>1. Init => Inv
  BY NoneFromALeaf DEF Init
<1>2. ClaimInv /\ Inv /\ [Next]_vars => Inv'
  <2>1. SUFFICES ASSUME ClaimInv, Inv, [Next]_vars PROVE FromALeaf(claim', node')
    BY DEF FromALeaf
  <2>2. claim' = claim /\ claim \in Claims
    BY <2>1 DEF ClaimInv, Next, vars, Unjudged, Reject, Begin, PathTooLong,
                JoinLeft, StripZero, Ascend, JoinRight, Finish, Compare
  <2>3. CASE node' = None
    BY <2>3, NoneFromALeaf
  <2>4. CASE node' = node
    BY <2>1, <2>2, <2>4
  <2>5. CASE node' = leaf_hash(claim.leaf)
    BY <2>2, <2>5, LeafFromALeaf
  <2>6. CASE \E y : node' = node_hash(node, y) \/ node' = node_hash(y, node)
    BY <2>1, <2>2, <2>6, JoinFromALeaf
  <2>7. QED
    BY <2>1, <2>3, <2>4, <2>5, <2>6
    DEF Next, vars, Unjudged, Reject, Refuse, Begin, PathTooLong, JoinLeft,
        StripZero, Ascend, JoinRight, Finish, Compare
<1>3. ClaimInv /\ ClimbInv /\ Inv => AcceptedLeafIsALeaf
  <2>1. SUFFICES ASSUME ClaimInv, ClimbInv, FromALeaf(claim, node), verdict = "True",
                        claim.root = TreeRoot(claim.size)
                 PROVE  \E i \in 0 .. claim.size - 1 : claim.leaf = LeafData(i)
    BY DEF AcceptedLeafIsALeaf
  <2>2. node = Subtree[claim.size][0]
    BY <2>1 DEF ClimbInv, TreeRoot
  <2>3. claim.size \in Nat \ {0}
    BY <2>1, ClaimsAreProofs DEF ClaimInv
  <2>4. 0 + claim.size <= claim.size
    BY <2>3
  <2>. QED  BY <2>1, <2>2, <2>3, <2>4 DEF FromALeaf
<1>. QED  BY <1>1, <1>2, <1>3, ClimbInvHolds, PTL DEF Spec
=============================================================================
