--------------------------- MODULE ChannelProofs ---------------------------
(***************************************************************************)
(* The UDP receiver and the channel receiver over it lose no datagram and  *)
(* handle none twice, keep their types, call no handler after Close, and   *)
(* the application misses only what the channel has no room for, for any   *)
(* number of datagrams and failed reads and any buffer.                    *)
(***************************************************************************)
EXTENDS ChannelReceiver, SequenceTheorems, FiniteSetTheorems, TLAPS

-----------------------------------------------------------------------------
(* Bags, by the copies of each element.                                      *)

\* Copies of x in bag B.
Times(B, x) == IF x \in BagToSet(B) THEN B[x] ELSE 0

LEMMA BagTimes ==
    ASSUME NEW B, IsABag(B)
    PROVE  /\ \A x : Times(B, x) \in Nat
           /\ \A x : (x \in BagToSet(B)) <=> (Times(B, x) # 0)
<1>1. \A x \in BagToSet(B) : B[x] \in Nat /\ B[x] > 0
  BY DEF IsABag, BagToSet
<1> QED
  BY <1>1 DEF Times

LEMMA AddTimes ==
    ASSUME NEW B, IsABag(B), NEW C, IsABag(C)
    PROVE  /\ IsABag(B (+) C)
           /\ BagToSet(B (+) C) = BagToSet(B) \union BagToSet(C)
           /\ \A x : Times(B (+) C, x) = Times(B, x) + Times(C, x)
<1> DEFINE sum == B (+) C
<1>1. sum = [e \in BagToSet(B) \union BagToSet(C) |-> Times(B, e) + Times(C, e)]
  BY DEF (+), BagToSet, Times
<1>2. BagToSet(sum) = BagToSet(B) \union BagToSet(C)
  BY <1>1 DEF BagToSet
<1>3. \A x : Times(sum, x) = Times(B, x) + Times(C, x)
  <2> SUFFICES ASSUME NEW x PROVE Times(sum, x) = Times(B, x) + Times(C, x)
    OBVIOUS
  <2>1. CASE x \in BagToSet(B) \union BagToSet(C)
    <3>1. sum[x] = Times(B, x) + Times(C, x)
      BY <1>1, <2>1
    <3> HIDE DEF sum
    <3>2. Times(sum, x) = sum[x]
      BY <1>2, <2>1 DEF Times
    <3> QED
      BY <3>1, <3>2
  <2>2. CASE x \notin BagToSet(B) \union BagToSet(C)
    <3> HIDE DEF sum
    <3> QED
      BY <1>2, <2>2 DEF Times
  <2> QED
    BY <2>1, <2>2
<1>4. IsABag(sum)
  <2>1. \A x \in DOMAIN sum : Times(B, x) + Times(C, x) \in {n \in Nat : n > 0}
    <3> SUFFICES ASSUME NEW x \in DOMAIN sum
                 PROVE  Times(B, x) + Times(C, x) \in {n \in Nat : n > 0}
      OBVIOUS
    <3> HIDE DEF sum
    <3>1. Times(B, x) \in Nat /\ Times(C, x) \in Nat
      BY BagTimes
    <3>2. Times(B, x) # 0 \/ Times(C, x) # 0
      BY <1>2, BagTimes DEF BagToSet
    <3> QED
      BY <3>1, <3>2
  <2>2. DOMAIN sum = BagToSet(B) \union BagToSet(C)
    BY <1>1
  <2>3. sum = [e \in DOMAIN sum |-> Times(B, e) + Times(C, e)]
    BY <1>1, <2>2
  <2> HIDE DEF sum
  <2> QED
    BY <2>1, <2>3 DEF IsABag
<1> QED
  BY <1>2, <1>3, <1>4

LEMMA OneTimes ==
    ASSUME NEW y
    PROVE  /\ IsABag(SetToBag({y}))
           /\ BagToSet(SetToBag({y})) = {y}
           /\ \A x : Times(SetToBag({y}), x) = IF x = y THEN 1 ELSE 0
<1>1. BagToSet(SetToBag({y})) = {y} /\ SetToBag({y})[y] = 1
  BY DEF BagToSet, SetToBag
<1>2. IsABag(SetToBag({y}))
  BY DEF IsABag, SetToBag
<1> QED
  BY <1>1, <1>2 DEF Times

LEMMA AddOneTimes ==
    ASSUME NEW B, IsABag(B), NEW y, NEW C, C = B (+) SetToBag({y})
    PROVE  /\ IsABag(C)
           /\ BagToSet(C) = BagToSet(B) \union {y}
           /\ Times(C, y) = Times(B, y) + 1
           /\ \A x : x # y => Times(C, x) = Times(B, x)
<1> DEFINE one == SetToBag({y})
<1>1. /\ IsABag(one) /\ BagToSet(one) = {y}
      /\ \A x : Times(one, x) = IF x = y THEN 1 ELSE 0
  BY OneTimes
<1> HIDE DEF one
<1>2. /\ IsABag(B (+) one)
      /\ BagToSet(B (+) one) = BagToSet(B) \union {y}
      /\ Times(B (+) one, y) = Times(B, y) + 1
      /\ \A x : x # y => Times(B (+) one, x) = Times(B, x)
  BY <1>1, AddTimes, BagTimes
<1> QED
  BY <1>2 DEF one

LEMMA EmptyTimes ==
    IsABag(EmptyBag) /\ BagToSet(EmptyBag) = {} /\ \A x : Times(EmptyBag, x) = 0
  BY DEF IsABag, EmptyBag, SetToBag, BagToSet, Times

\* Bags with the same copies of everything are the same bag.
LEMMA SameBag ==
    ASSUME NEW B, IsABag(B), NEW C, IsABag(C), \A x : Times(B, x) = Times(C, x)
    PROVE  B = C
<1>1. BagToSet(B) = BagToSet(C)
  BY BagTimes
<1>2. \A x \in BagToSet(B) : B[x] = C[x]
  BY <1>1 DEF Times
<1>3. B = [x \in DOMAIN B |-> B[x]] /\ C = [x \in DOMAIN C |-> C[x]]
  BY DEF IsABag
<1> QED
  BY <1>1, <1>2, <1>3 DEF BagToSet

-----------------------------------------------------------------------------
(* The bag of a sequence.                                                    *)

Positions(s, x) == {i \in DOMAIN s : s[i] = x}
Occurs(s, x) == Cardinality(Positions(s, x))

LEMMA PositionsFinite ==
    ASSUME NEW S, NEW s \in Seq(S), NEW x
    PROVE  IsFiniteSet(Positions(s, x)) /\ Occurs(s, x) \in Nat
<1>1. IsFiniteSet(1..Len(s))
  BY FS_Interval
<1>2. Positions(s, x) \in SUBSET (1..Len(s))
  BY DEF Positions
<1> QED
  BY <1>1, <1>2, FS_Subset, FS_CardinalityType DEF Occurs

LEMMA ToBagTimes ==
    ASSUME NEW S, NEW s \in Seq(S)
    PROVE  IsABag(ToBag(s)) /\ \A x : Times(ToBag(s), x) = Occurs(s, x)
<1>1. ToBag(s) = [x \in Range(s) |-> Occurs(s, x)]
  BY DEF ToBag, Occurs, Positions
<1>2. \A x : (x \in Range(s)) <=> (Positions(s, x) # {})
  BY DEF Range, Positions
<1>3. \A x : (Occurs(s, x) \in Nat) /\ ((Occurs(s, x) = 0) <=> (Positions(s, x) = {}))
  BY PositionsFinite, FS_EmptySet DEF Occurs
<1>4. \A x \in Range(s) : Occurs(s, x) \in {n \in Nat : n > 0}
  BY <1>2, <1>3
<1>5. IsABag(ToBag(s))
  <2>1. DOMAIN ToBag(s) = Range(s)
    BY <1>1
  <2> QED
    BY <1>1, <1>4, <2>1 DEF IsABag
<1>6. \A x : Times(ToBag(s), x) = Occurs(s, x)
  BY <1>1, <1>2, <1>3 DEF Times, BagToSet
<1> QED
  BY <1>5, <1>6

LEMMA EmptyOccurs == \A x : Occurs(<<>>, x) = 0
<1>1. \A x : Positions(<<>>, x) = {}
  BY DEF Positions
<1> QED
  BY <1>1, FS_EmptySet DEF Occurs

LEMMA AppendOccurs ==
    ASSUME NEW S, NEW s \in Seq(S), NEW d \in S, NEW x
    PROVE  Occurs(Append(s, d), x) = Occurs(s, x) + (IF x = d THEN 1 ELSE 0)
<1> DEFINE n == Len(s)
           t == Append(s, d)
<1>1. /\ n \in Nat /\ DOMAIN s = 1..n /\ DOMAIN t = 1..(n + 1)
      /\ \A i \in 1..n : t[i] = s[i]
      /\ t[n + 1] = d
  OBVIOUS
<1> HIDE DEF n, t
<1>2. CASE x = d
  <2>1. Positions(t, x) = Positions(s, x) \union {n + 1}
    BY <1>1, <1>2 DEF Positions
  <2>2. n + 1 \notin Positions(s, x)
    BY <1>1 DEF Positions
  <2>3. Cardinality(Positions(s, x) \union {n + 1}) = Cardinality(Positions(s, x)) + 1
    BY <2>2, PositionsFinite, FS_AddElement
  <2> QED
    BY <1>2, <2>1, <2>3 DEF Occurs, t
<1>3. CASE x # d
  <2>1. Positions(t, x) = Positions(s, x)
    BY <1>1, <1>3 DEF Positions
  <2> QED
    BY <1>3, <2>1, PositionsFinite DEF Occurs, t
<1> QED
  BY <1>2, <1>3

LEMMA TailOccurs ==
    ASSUME NEW S, NEW s \in Seq(S), s # <<>>, NEW x
    PROVE  Occurs(s, x) = Occurs(Tail(s), x) + (IF x = Head(s) THEN 1 ELSE 0)
<1> DEFINE t == Tail(s)
           n == Len(t)
           later == Positions(s, x) \ {1}
           shift == [i \in Positions(t, x) |-> i + 1]
<1>1. /\ t \in Seq(S) /\ n \in Nat /\ DOMAIN t = 1..n /\ DOMAIN s = 1..(n + 1)
      /\ Head(s) = s[1]
      /\ \A i \in 1..n : t[i] = s[i + 1]
  BY HeadTailProperties
<1> HIDE DEF t, n
<1>2. shift \in Bijection(Positions(t, x), later)
  <2>1. \A i \in Positions(t, x) : i \in 1..n /\ i + 1 \in later
    BY <1>1 DEF Positions
  <2>2. \A j \in later : j - 1 \in Positions(t, x) /\ (j - 1) + 1 = j
    BY <1>1 DEF Positions
  <2> HIDE DEF later
  <2>3. shift \in [Positions(t, x) -> later]
    BY <2>1
  <2>4. \A i, j \in Positions(t, x) : shift[i] = shift[j] => i = j
    BY <2>1
  <2>5. \A j \in later : \E i \in Positions(t, x) : shift[i] = j
    <3> SUFFICES ASSUME NEW j \in later PROVE \E i \in Positions(t, x) : shift[i] = j
      OBVIOUS
    <3>1. j - 1 \in Positions(t, x) /\ shift[j - 1] = j
      BY <2>2
    <3> QED
      BY <3>1
  <2> HIDE DEF shift
  <2>6. shift \in Injection(Positions(t, x), later)
    BY <2>3, <2>4 DEF Injection, IsInjective
  <2>7. shift \in Surjection(Positions(t, x), later)
    BY <2>3, <2>5 DEF Surjection
  <2> QED
    BY <2>6, <2>7 DEF Bijection
<1> HIDE DEF later, shift
<1>3. IsFiniteSet(Positions(t, x)) /\ Occurs(t, x) \in Nat
  BY <1>1, PositionsFinite
<1>4. IsFiniteSet(later) /\ Cardinality(later) = Occurs(t, x)
  <2>1. ExistsBijection(Positions(t, x), later)
    BY <1>2 DEF ExistsBijection
  <2> QED
    BY <1>3, <2>1, FS_Bijection DEF Occurs
<1>5. CASE x = Head(s)
  <2>1. Positions(s, x) = later \union {1} /\ 1 \notin later
    BY <1>1, <1>5 DEF Positions, later
  <2> QED
    BY <1>4, <1>5, <2>1, FS_AddElement DEF Occurs, t
<1>6. CASE x # Head(s)
  <2>1. Positions(s, x) = later
    BY <1>1, <1>6 DEF Positions, later
  <2> QED
    BY <1>3, <1>4, <1>6, <2>1 DEF Occurs, t
<1> QED
  BY <1>5, <1>6

-----------------------------------------------------------------------------
(* The size of a bag.  BagCardinality adds up the bag's values over its domain by a   *)
(* recursive function; it is the number of the numbered copies of the bag's elements. *)

\* Induction over numbers, in the form of sets.
LEMMA LeastNumber ==
    ASSUME NEW T \in SUBSET Nat, T # {}
    PROVE  \E n \in T : \A m \in T : n <= m
<1>1. PICK n \in T : \A m \in T : ~ (<<m, n>> \in OpToRel(<, Nat))
  BY NatLessThanWellFounded, WFMin
<1>2. ASSUME NEW m \in T PROVE n <= m
  <2>1. ~ (m < n)
    BY <1>1 DEF OpToRel
  <2> QED
    BY <2>1
<1> QED
  BY <1>2

\* The copies of the elements of S in bag B.
Copies(B, S) == {c \in S \X Nat : 1 <= c[2] /\ c[2] <= B[c[1]]}

LEMMA CopiesFinite ==
    ASSUME NEW B, IsABag(B), NEW S \in SUBSET BagToSet(B), IsFiniteSet(S)
    PROVE  IsFiniteSet(Copies(B, S)) /\ Cardinality(Copies(B, S)) \in Nat
<1> DEFINE of == [e \in S |-> {e} \X (1..B[e])]
           all == {of[e] : e \in S}
<1>1. \A e \in S : B[e] \in Nat
  BY DEF IsABag, BagToSet
<1>2. of \in Surjection(S, all)
  BY DEF Surjection
<1>3. IsFiniteSet(all)
  <2> HIDE DEF of, all
  <2> QED
    BY <1>2, FS_Surjection
<1>4. ASSUME NEW t \in all PROVE IsFiniteSet(t)
  <2>1. PICK e \in S : t = {e} \X (1..B[e])
    OBVIOUS
  <2>2. B[e] \in Int
    BY <1>1
  <2>3. IsFiniteSet({e})
    BY FS_Singleton
  <2>4. IsFiniteSet(1..B[e])
    <3> HIDE DEF all
    <3> QED
      BY <2>2, FS_Interval
  <2> QED
    BY <2>1, <2>3, <2>4, FS_Product
<1>5. IsFiniteSet(UNION all)
  <2> HIDE DEF all
  <2> QED
    BY <1>3, <1>4, FS_UNION
<1>6. Copies(B, S) \in SUBSET UNION all
  <2> SUFFICES ASSUME NEW c \in Copies(B, S) PROVE c \in UNION all
    OBVIOUS
  <2>1. c[1] \in S /\ c[2] \in 1..B[c[1]] /\ c = <<c[1], c[2]>>
    BY <1>1 DEF Copies
  <2>2. c \in of[c[1]] /\ of[c[1]] \in all
    BY <2>1
  <2> QED
    BY <2>2
<1> QED
  BY <1>5, <1>6, FS_Subset, FS_CardinalityType

\* Without one element there are as many copies fewer as the bag has of it.
LEMMA CopiesWithout ==
    ASSUME NEW B, IsABag(B), NEW S \in SUBSET BagToSet(B), IsFiniteSet(S), NEW e \in S
    PROVE  Cardinality(Copies(B, S)) = B[e] + Cardinality(Copies(B, S \ {e}))
<1> DEFINE rest == Copies(B, S \ {e})
           mine == {e} \X (1..B[e])
<1>1. \A x \in S : B[x] \in Nat
  BY DEF IsABag, BagToSet
<1>2. IsFiniteSet(S \ {e})
  BY FS_RemoveElement
<1>3. IsFiniteSet(rest) /\ Cardinality(rest) \in Nat
  BY <1>2, CopiesFinite
<1>4. IsFiniteSet(mine) /\ Cardinality(mine) = B[e]
  <2>1. IsFiniteSet({e}) /\ Cardinality({e}) = 1
    BY FS_Singleton
  <2>2. B[e] \in Nat
    BY <1>1
  <2>3. IsFiniteSet(1..B[e]) /\ Cardinality(1..B[e]) = B[e]
    <3>1. ASSUME NEW n \in Nat
          PROVE  IsFiniteSet(1..n) /\ Cardinality(1..n) = n
      <4>1. Cardinality(1..n) = IF 1 > n THEN 0 ELSE n - 1 + 1
        BY FS_Interval
      <4> QED
        BY <4>1, FS_Interval
    <3> QED
      BY <2>2, <3>1
  <2>4. IsFiniteSet(mine) /\ Cardinality(mine) = 1 * B[e]
    BY <2>1, <2>3, FS_Product
  <2> QED
    BY <2>2, <2>4
<1>5. rest \cap mine = {}
  BY DEF Copies
<1>6. Copies(B, S) = mine \union rest
  <2>1. ASSUME NEW c \in Copies(B, S) PROVE c \in mine \union rest
    <3>1. c \in S \X Nat /\ 1 <= c[2] /\ c[2] <= B[c[1]]
      BY DEF Copies
    <3>2. CASE c[1] = e
      BY <1>1, <3>1, <3>2
    <3>3. CASE c[1] # e
      BY <3>1, <3>3 DEF Copies
    <3> QED
      BY <3>2, <3>3
  <2>2. ASSUME NEW c \in mine \union rest PROVE c \in Copies(B, S)
    <3>1. CASE c \in mine
      BY <1>1, <3>1 DEF Copies
    <3>2. CASE c \in rest
      BY <3>2 DEF Copies
    <3> QED
      BY <3>1, <3>2
  <2> QED
    BY <2>1, <2>2
<1>7. Cardinality(mine \cap rest) = 0
  BY <1>5, FS_EmptySet
<1>8. Cardinality(mine \union rest) = Cardinality(mine) + Cardinality(rest) - Cardinality(mine \cap rest)
  BY <1>3, <1>4, FS_Union
<1>9. B[e] \in Nat
  BY <1>1
<1> QED
  BY <1>3, <1>4, <1>6, <1>7, <1>8, <1>9

\* The recursive definition is of the number of copies, whichever element is taken first.
LEMMA BagCardinalityCopies ==
    ASSUME NEW B, IsABag(B), IsFiniteSet(BagToSet(B))
    PROVE  BagCardinality(B) = Cardinality(Copies(B, BagToSet(B)))
<1> DEFINE D == DOMAIN B
           sum(f) == [S \in SUBSET D |->
                         LET elt == CHOOSE e \in S : TRUE
                         IN  IF S = {} THEN 0 ELSE B[elt] + f[S \ {elt}]]
           size == [S \in SUBSET D |-> Cardinality(Copies(B, S))]
<1>1. D = BagToSet(B) /\ IsFiniteSet(D)
  BY DEF BagToSet
<1>2. \A S \in SUBSET D : IsFiniteSet(S)
  BY <1>1, FS_Subset
<1>3. \A S \in SUBSET D : S # {} => (CHOOSE e \in S : TRUE) \in S
  OBVIOUS
<1>4. size = sum(size)
  <2> SUFFICES ASSUME NEW S \in SUBSET D PROVE size[S] = sum(size)[S]
    OBVIOUS
  <2>1. CASE S = {}
    <3>1. Copies(B, S) = {}
      BY <2>1 DEF Copies
    <3>2. size[S] = 0
      BY <3>1, FS_EmptySet
    <3> QED
      BY <2>1, <3>2
  <2>2. CASE S # {}
    <3>1. PICK e \in S : e = (CHOOSE x \in S : TRUE)
      BY <1>3, <2>2
    <3>2. size[S] = B[e] + size[S \ {e}]
      BY <1>1, <1>2, CopiesWithout
    <3> QED
      BY <2>2, <3>1, <3>2
  <2> QED
    BY <2>1, <2>2
<1>5. ASSUME NEW f, f = sum(f) PROVE f[D] = size[D]
  <2> DEFINE differ == {n \in Nat : \E S \in SUBSET D : Cardinality(S) = n /\ f[S] # size[S]}
  <2>1. differ = {}
    <3> SUFFICES ASSUME differ # {} PROVE FALSE
      OBVIOUS
    <3>1. PICK n \in differ : \A m \in differ : n <= m
      BY LeastNumber
    <3>2. PICK S \in SUBSET D : Cardinality(S) = n /\ f[S] # size[S]
      OBVIOUS
    <3>3. S # {}
      BY <1>4, <1>5, <3>2
    <3>4. PICK e \in S : e = (CHOOSE x \in S : TRUE)
      BY <1>3, <3>3
    <3>5. f[S] = B[e] + f[S \ {e}] /\ size[S] = B[e] + size[S \ {e}]
      <4> HIDE DEF size
      <4> QED
        BY <1>4, <1>5, <3>3, <3>4
    <3>6. f[S \ {e}] # size[S \ {e}]
      BY <3>2, <3>5
    <3>7. Cardinality(S \ {e}) = n - 1 /\ n \in Nat /\ Cardinality(S \ {e}) \in Nat
      BY <1>2, <3>2, FS_RemoveElement, FS_CardinalityType
    <3>8. n - 1 \in differ
      BY <3>6, <3>7
    <3>9. n <= n - 1
      <4> HIDE DEF differ
      <4> QED
        BY <3>1, <3>8
    <3> QED
      BY <3>7, <3>9
  <2>2. Cardinality(D) \in Nat
    BY <1>1, FS_CardinalityType
  <2> QED
    BY <2>1, <2>2
<1> DEFINE fix == CHOOSE f : f = sum(f)
<1>6. fix = sum(fix)
  <2> HIDE DEF size, sum
  <2> QED
    BY <1>4
<1>7. BagCardinality(B) = fix[D]
  BY DEF BagCardinality
<1>8. fix[D] = size[D]
  <2> HIDE DEF fix, size, sum
  <2> QED
    BY <1>5, <1>6
<1> QED
  BY <1>1, <1>7, <1>8

\* One copy more.
LEMMA OneMoreCopy ==
    ASSUME NEW B, IsABag(B), IsFiniteSet(BagToSet(B)), NEW C, IsABag(C), NEW y,
           Times(C, y) = Times(B, y) + 1,
           \A x : x # y => Times(C, x) = Times(B, x)
    PROVE  /\ IsFiniteSet(BagToSet(C))
           /\ BagCardinality(B) \in Nat
           /\ BagCardinality(C) = BagCardinality(B) + 1
<1> DEFINE cb == Copies(B, BagToSet(B))
           cc == Copies(C, BagToSet(C))
           n == Times(B, y) + 1
<1>1. /\ \A x : Times(B, x) \in Nat /\ Times(C, x) \in Nat
      /\ \A x : x \in BagToSet(B) <=> Times(B, x) # 0
      /\ \A x : x \in BagToSet(C) <=> Times(C, x) # 0
  BY BagTimes
<1>2. BagToSet(C) = BagToSet(B) \union {y}
  <2>1. y \in BagToSet(C)
    BY <1>1
  <2>2. \A x : x # y => (x \in BagToSet(C) <=> x \in BagToSet(B))
    BY <1>1
  <2> QED
    BY <2>1, <2>2
<1>3. IsFiniteSet(BagToSet(C))
  BY <1>2, FS_AddElement
<1>4. /\ cb = {c \in BagToSet(B) \X Nat : 1 <= c[2] /\ c[2] <= Times(B, c[1])}
      /\ cc = {c \in BagToSet(C) \X Nat : 1 <= c[2] /\ c[2] <= Times(C, c[1])}
  BY DEF Copies, Times
<1>5. cc = cb \union {<<y, n>>}
  <2>1. ASSUME NEW c \in cc PROVE c \in cb \union {<<y, n>>}
    <3>1. c \in BagToSet(C) \X Nat /\ 1 <= c[2] /\ c[2] <= Times(C, c[1])
      BY <1>4
    <3>2. CASE c[1] = y
      <4>1. c[2] = n \/ c[2] <= Times(B, y)
        BY <1>1, <3>1, <3>2
      <4>2. CASE c[2] = n
        BY <3>1, <3>2, <4>2
      <4>3. CASE c[2] <= Times(B, y)
        <5>1. y \in BagToSet(B)
          BY <1>1, <3>1, <4>3
        <5> QED
          BY <1>4, <3>1, <3>2, <4>3, <5>1
      <4> QED
        BY <4>1, <4>2, <4>3
    <3>3. CASE c[1] # y
      <4>1. c[1] \in BagToSet(B) /\ Times(C, c[1]) = Times(B, c[1])
        BY <1>2, <3>1, <3>3
      <4> QED
        BY <1>4, <3>1, <4>1
    <3> QED
      BY <3>2, <3>3
  <2>2. ASSUME NEW c \in cb PROVE c \in cc
    <3>1. c \in BagToSet(B) \X Nat /\ 1 <= c[2] /\ c[2] <= Times(B, c[1])
      BY <1>4
    <3>2. Times(B, c[1]) <= Times(C, c[1])
      BY <1>1
    <3>3. c[2] <= Times(C, c[1])
      BY <1>1, <3>1, <3>2
    <3> QED
      BY <1>2, <1>4, <3>1, <3>3
  <2>3. <<y, n>> \in cc
    <3>1. n \in Nat /\ 1 <= n /\ n <= Times(C, y) /\ y \in BagToSet(C)
      BY <1>1, <1>2
    <3> QED
      BY <1>4, <3>1
  <2> QED
    BY <2>1, <2>2, <2>3
<1>6. <<y, n>> \notin cb
  <2>1. ~ (n <= Times(B, y))
    BY <1>1
  <2> QED
    BY <1>4, <2>1
<1>7. IsFiniteSet(cb) /\ Cardinality(cb) \in Nat
  BY CopiesFinite
<1>8. Cardinality(cc) = Cardinality(cb) + 1
  <2>1. ASSUME NEW S, IsFiniteSet(S), NEW x, x \notin S
        PROVE  Cardinality(S \union {x}) = Cardinality(S) + 1
    BY <2>1, FS_AddElement
  <2> HIDE DEF cb, cc
  <2> QED
    BY <1>5, <1>6, <1>7, <2>1
<1> QED
  BY <1>3, <1>7, <1>8, BagCardinalityCopies

\* What a difference of bags has of each element.
LEMMA RemoveTimes ==
    ASSUME NEW B, IsABag(B), NEW C, IsABag(C)
    PROVE  /\ IsABag(B (-) C)
           /\ \A x : Times(B (-) C, x) = IF Times(B, x) > Times(C, x)
                                        THEN Times(B, x) - Times(C, x) ELSE 0
<1> DEFINE left == [e \in DOMAIN B |-> IF e \in DOMAIN C THEN B[e] - C[e] ELSE B[e]]
           diff == [e \in {d \in DOMAIN left : left[d] > 0} |-> left[e]]
<1>1. B (-) C = diff
  BY DEF (-)
<1>2. /\ \A x \in DOMAIN B : B[x] \in Nat /\ B[x] > 0
      /\ \A x \in DOMAIN C : C[x] \in Nat /\ C[x] > 0
  BY DEF IsABag
<1>3. \A e \in DOMAIN B : left[e] = Times(B, e) - Times(C, e) /\ left[e] \in Int
  BY <1>2 DEF Times, BagToSet
<1>4. DOMAIN left = DOMAIN B
  OBVIOUS
<1>5. DOMAIN diff = {d \in DOMAIN B : left[d] > 0} /\ \A e \in DOMAIN diff : diff[e] = left[e]
  BY <1>4
<1>6. IsABag(diff)
  <2>1. \A e \in DOMAIN diff : diff[e] \in {n \in Nat : n > 0}
    <3> HIDE DEF left, diff
    <3> QED
      BY <1>3, <1>5
  <2>2. diff = [e \in DOMAIN diff |-> diff[e]]
    OBVIOUS
  <2> QED
    BY <2>1, <2>2 DEF IsABag
<1>7. ASSUME NEW x
      PROVE  Times(diff, x) = IF Times(B, x) > Times(C, x) THEN Times(B, x) - Times(C, x) ELSE 0
  <2>1. Times(B, x) \in Nat /\ Times(C, x) \in Nat
    BY BagTimes
  <2>2. x \notin DOMAIN B => Times(B, x) = 0
    BY DEF Times, BagToSet
  <2> HIDE DEF left, diff
  <2>3. CASE x \in DOMAIN diff
    <3>1. Times(diff, x) = left[x] /\ left[x] > 0 /\ x \in DOMAIN B
      BY <1>5, <2>3 DEF Times, BagToSet
    <3> QED
      BY <1>3, <2>1, <3>1
  <2>4. CASE x \notin DOMAIN diff
    <3>1. Times(diff, x) = 0
      BY <2>4 DEF Times, BagToSet
    <3>2. CASE x \in DOMAIN B
      <4>1. ~ (left[x] > 0) /\ left[x] = Times(B, x) - Times(C, x)
        BY <1>3, <1>5, <2>4, <3>2
      <4> QED
        BY <2>1, <3>1, <4>1
    <3>3. CASE x \notin DOMAIN B
      BY <2>1, <2>2, <3>1, <3>3
    <3> QED
      BY <3>2, <3>3
  <2> QED
    BY <2>3, <2>4
<1> QED
  BY <1>1, <1>6, <1>7

LEMMA EmptySize == BagCardinality(EmptyBag) = 0 /\ IsFiniteSet(BagToSet(EmptyBag))
<1>1. Copies(EmptyBag, {}) = {}
  BY DEF Copies
<1> QED
  BY <1>1, EmptyTimes, FS_EmptySet, BagCardinalityCopies

-----------------------------------------------------------------------------
(* The UDP receiver.                                                         *)

\* A datagram the reader offers, or that is to be copied, is in the buffer.
Full == loop = "copy" \/ (reader = "sending" /\ ~readErr)

UdpTypeInv ==
    /\ TypeOK
    /\ IsABag(arrived) /\ IsABag(handled)
    /\ BagToSet(handled) \subseteq Datagrams
    /\ Full => buffer \in Datagrams

LEMMA InitUdpTypeInv == Init => UdpTypeInv
<1> SUFFICES ASSUME Init PROVE UdpTypeInv
  OBVIOUS
<1>1. /\ IsABag(arrived) /\ IsABag(handled)
      /\ BagToSet(arrived) = {} /\ BagToSet(handled) = {}
  BY EmptyTimes DEF Init
<1>2. socket \in Seq(Datagrams) /\ errors \in 0..MaxErrors
  BY UdpAssumption DEF Init
<1>3. /\ connOpen \in BOOLEAN /\ ctxDone \in BOOLEAN /\ doneClosed \in BOOLEAN
      /\ handlerSet \in BOOLEAN /\ readErr \in BOOLEAN
  BY DEF Init
<1>4. /\ mu = "free" /\ loop = "off" /\ reader = "none" /\ closer = "idle"
      /\ data = NoData /\ buffer = NoData
  BY DEF Init
<1> QED
  BY <1>1, <1>2, <1>3, <1>4 DEF UdpTypeInv, TypeOK, Full

LEMMA NextUdpTypeInv == UdpTypeInv /\ [Next]_vars => UdpTypeInv'
<1> SUFFICES ASSUME UdpTypeInv, [Next]_vars PROVE UdpTypeInv'
  OBVIOUS
<1> USE DEF UdpTypeInv, TypeOK, Full
<1>1. ASSUME NEW d \in Datagrams, Arrive(d) PROVE UdpTypeInv'
  <2>1. socket' \in Seq(Datagrams)
    BY <1>1 DEF Arrive
  <2>2. IsABag(arrived') /\ BagToSet(arrived') = BagToSet(arrived) \union {d}
    BY <1>1, AddOneTimes DEF Arrive
  <2>3. UNCHANGED <<errors, ctxDone, handlerSet, loop, data, readerVars, closeVars, handled>>
    BY <1>1 DEF Arrive
  <2> QED
    BY <2>1, <2>2, <2>3 DEF readerVars, closeVars
<1>2. CASE Cancel
  BY <1>2 DEF Cancel, netVars, readerVars, closeVars
<1>3. CASE SetMessageHandler
  BY <1>3 DEF SetMessageHandler, netVars, readerVars, closeVars
<1>4. CASE Start
  BY <1>4 DEF Start, netVars, readerVars, closeVars
<1>5. CASE Read
  <2>1. buffer' \in Datagrams /\ socket' \in Seq(Datagrams)
    BY <1>5, HeadTailProperties DEF Read
  <2> QED
    BY <1>5, <2>1 DEF Read, closeVars
<1>6. CASE ReadFails
  <2>1. errors' \in 0..MaxErrors
    BY <1>6, UdpAssumption DEF ReadFails
  <2> QED
    BY <1>6, <2>1 DEF ReadFails, closeVars
<1>7. CASE SpawnReader
  BY <1>7 DEF SpawnReader, netVars, closeVars
<1>8. CASE SelectDone
  BY <1>8 DEF SelectDone, netVars, readerVars, closeVars
<1>9. CASE SelectError
  BY <1>9 DEF SelectError, AfterError, netVars, closeVars
<1>10. CASE SelectData
  BY <1>10 DEF SelectData, ReaderAfter, netVars, closeVars
<1>11. CASE CopyData
  BY <1>11 DEF CopyData, netVars, readerVars, closeVars
<1>12. CASE Dispatch
  <2>1. IsABag(handled') /\ BagToSet(handled') \subseteq Datagrams
    <3>1. handled' = handled \/ handled' = handled (+) SetToBag({data})
      BY <1>12 DEF Dispatch
    <3>2. data \in Datagrams
      BY <1>12 DEF Dispatch
    <3>3. CASE handled' = handled (+) SetToBag({data})
      <4>1. BagToSet(handled') = BagToSet(handled) \union {data} /\ IsABag(handled')
        BY <3>3, AddOneTimes, Zenon
      <4> QED
        BY <3>2, <4>1
    <3> QED
      BY <3>1, <3>3
  <2> QED
    BY <1>12, <2>1 DEF Dispatch, netVars, readerVars, closeVars
<1>13. CASE CloseDone
  BY <1>13 DEF CloseDone, netVars, readerVars
<1>14. CASE CloseConn
  <2>1. /\ UNCHANGED <<netVars, readerVars, handlerSet, loop, data, handled>>
        /\ mu' = "close"
        /\ connOpen' \in BOOLEAN /\ ctxDone' \in BOOLEAN /\ doneClosed' \in BOOLEAN
        /\ closer' \in {"idle", "lock", "wait", "returned"}
    BY <1>14 DEF CloseConn
  <2> QED
    BY <2>1 DEF netVars, readerVars
<1>15. CASE CloseReturn
  BY <1>15 DEF CloseReturn, netVars, readerVars
<1>16. CASE UNCHANGED vars
  BY <1>16 DEF vars
<1> QED
  BY <1>1, <1>2, <1>3, <1>4, <1>5, <1>6, <1>7, <1>8, <1>9, <1>10, <1>11, <1>12, <1>13, <1>14,
     <1>15, <1>16
  DEF Next, receiveLoop, Close

\* The buffer is the loop's alone while it copies: the next reader is started later.
ReaderAlone == loop \in {"off", "spawn", "copy", "lock"} => reader = "none"

\* Copies of x on their way from the socket to a handler.
InHand(x) == (IF Full /\ x = buffer THEN 1 ELSE 0) + (IF loop = "lock" /\ x = data THEN 1 ELSE 0)

\* EachDatagramOnce, datagram by datagram.
Accounted == \A x : Times(handled, x) + InHand(x) + Occurs(socket, x) = Times(arrived, x)

\* The loop calls handlers only as one that somebody started with one.
HandledInv == loop # "off" => handlerSet

OnceInv == ReaderAlone /\ HandledInv /\ Accounted

LEMMA InitOnceInv == Init => OnceInv
<1> SUFFICES ASSUME Init PROVE OnceInv
  OBVIOUS
<1>1. /\ loop = "off" /\ reader = "none" /\ socket = <<>>
      /\ handled = EmptyBag /\ arrived = EmptyBag
  BY DEF Init
<1> QED
  BY <1>1, EmptyTimes, EmptyOccurs DEF OnceInv, ReaderAlone, HandledInv, Accounted, InHand, Full

LEMMA NextOnceInv == UdpTypeInv /\ OnceInv /\ [Next]_vars => OnceInv'
<1> SUFFICES ASSUME UdpTypeInv, OnceInv, [Next]_vars PROVE OnceInv'
  OBVIOUS
<1>1. /\ IsABag(arrived) /\ IsABag(handled)
      /\ socket \in Seq(Datagrams)
  BY DEF UdpTypeInv, TypeOK
<1>2. \A x : Times(handled, x) \in Nat /\ Times(arrived, x) \in Nat /\ Occurs(socket, x) \in Nat
  BY <1>1, BagTimes, PositionsFinite
<1>3. ASSUME NEW d \in Datagrams, Arrive(d) PROVE OnceInv'
  <2>1. /\ UNCHANGED <<loop, reader, readErr, buffer, data, handled, handlerSet>>
        /\ socket' = Append(socket, d)
        /\ arrived' = arrived (+) SetToBag({d})
    BY <1>3 DEF Arrive, readerVars
  <2>2. \A x : Times(arrived', x) = Times(arrived, x) + (IF x = d THEN 1 ELSE 0)
    <3>1. IsABag(arrived) /\ arrived' = arrived (+) SetToBag({d})
      BY <1>1, <2>1
    <3>2. /\ Times(arrived', d) = Times(arrived, d) + 1
          /\ \A x : x # d => Times(arrived', x) = Times(arrived, x)
      BY <3>1, AddOneTimes
    <3> QED
      BY <1>2, <3>2
  <2>3. \A x : Occurs(socket', x) = Occurs(socket, x) + (IF x = d THEN 1 ELSE 0)
    BY <1>1, <2>1, AppendOccurs
  <2>4. Accounted'
    <3> SUFFICES ASSUME NEW x
                 PROVE  Times(handled, x) + InHand(x) + Occurs(socket', x) = Times(arrived', x)
      BY <2>1 DEF Accounted, InHand, Full
    <3>1. Times(handled, x) + InHand(x) + Occurs(socket, x) = Times(arrived, x)
      BY DEF OnceInv, Accounted
    <3>2. InHand(x) \in Nat
      BY DEF InHand
    <3> QED
      BY <1>2, <2>2, <2>3, <3>1, <3>2
  <2> QED
    BY <2>1, <2>4 DEF OnceInv, ReaderAlone, HandledInv
<1>4. CASE Read
  <2>1. /\ UNCHANGED <<loop, data, handled, handlerSet, arrived>>
        /\ reader = "reading" /\ reader' = "sending" /\ readErr' = FALSE
        /\ socket # <<>> /\ socket' = Tail(socket) /\ buffer' = Head(socket)
    BY <1>4 DEF Read
  <2>2. loop \notin {"off", "spawn", "copy", "lock"}
    BY <2>1 DEF OnceInv, ReaderAlone
  <2>3. Accounted'
    <3> SUFFICES ASSUME NEW x
                 PROVE  Times(handled, x) + InHand(x)' + Occurs(socket', x) = Times(arrived, x)
      BY <2>1 DEF Accounted, InHand, Full
    <3>1. Times(handled, x) + InHand(x) + Occurs(socket, x) = Times(arrived, x)
      BY DEF OnceInv, Accounted
    <3>2. InHand(x) = 0 /\ InHand(x)' = IF x = Head(socket) THEN 1 ELSE 0
      BY <2>1, <2>2 DEF InHand, Full
    <3>3. Occurs(socket, x) = Occurs(socket', x) + (IF x = Head(socket) THEN 1 ELSE 0)
      BY <1>1, <2>1, TailOccurs
    <3>4. Occurs(socket', x) \in Nat
      BY <1>1, <2>1, HeadTailProperties, PositionsFinite
    <3> QED
      BY <1>2, <3>1, <3>2, <3>3, <3>4
  <2> QED
    BY <2>1, <2>2, <2>3 DEF OnceInv, ReaderAlone, HandledInv
<1>5. CASE CopyData
  <2>1. /\ UNCHANGED <<reader, readErr, buffer, handled, handlerSet, arrived, socket>>
        /\ loop = "copy" /\ loop' = "lock" /\ data' = buffer
    BY <1>5 DEF CopyData, netVars, readerVars
  <2>2. reader = "none"
    BY <2>1 DEF OnceInv, ReaderAlone
  <2>3. \A x : InHand(x)' = InHand(x)
    BY <2>1, <2>2 DEF InHand, Full
  <2> QED
    BY <2>1, <2>2, <2>3 DEF OnceInv, ReaderAlone, HandledInv, Accounted
<1>6. CASE Dispatch
  <2>1. /\ UNCHANGED <<reader, readErr, buffer, handlerSet, arrived, socket, data>>
        /\ loop = "lock" /\ loop' = "spawn"
    BY <1>6 DEF Dispatch, netVars, readerVars
  <2>2. handled' = handled (+) SetToBag({data}) /\ reader = "none"
    BY <1>6, <2>1 DEF Dispatch, OnceInv, HandledInv, ReaderAlone
  <2>3. Accounted'
    <3> SUFFICES ASSUME NEW x
                 PROVE  Times(handled', x) + InHand(x)' + Occurs(socket, x) = Times(arrived, x)
      BY <2>1 DEF Accounted
    <3>1. Times(handled, x) + InHand(x) + Occurs(socket, x) = Times(arrived, x)
      BY DEF OnceInv, Accounted
    <3>2. InHand(x) = (IF x = data THEN 1 ELSE 0) /\ InHand(x)' = 0
      BY <2>1, <2>2 DEF InHand, Full
    <3>3. Times(handled', x) = Times(handled, x) + (IF x = data THEN 1 ELSE 0)
        <4>1. IsABag(handled) /\ handled' = handled (+) SetToBag({data})
        BY <1>1, <2>2
      <4>2. /\ Times(handled', data) = Times(handled, data) + 1
            /\ \A y : y # data => Times(handled', y) = Times(handled, y)
        BY <4>1, AddOneTimes
      <4>3. CASE x = data
        BY <4>2, <4>3
      <4>4. CASE x # data
        BY <1>2, <4>2, <4>4
      <4> QED
        BY <4>3, <4>4
    <3> QED
      BY <1>2, <3>1, <3>2, <3>3
  <2> QED
    BY <2>1, <2>2, <2>3 DEF OnceInv, ReaderAlone, HandledInv
<1>7. ASSUME UNCHANGED <<buffer, data, socket, handled, arrived>>, ReaderAlone', HandledInv',
             (Full' = Full), (loop' = "lock") = (loop = "lock")
      PROVE  OnceInv'
  BY <1>7 DEF OnceInv, Accounted, InHand
<1>8. CASE ReadFails
  <2>1. /\ UNCHANGED <<buffer, data, socket, handled, arrived, loop, handlerSet>>
        /\ reader = "reading" /\ reader' = "sending" /\ readErr' = TRUE
    BY <1>8 DEF ReadFails
  <2>2. loop \notin {"off", "spawn", "copy", "lock"}
    BY <2>1 DEF OnceInv, ReaderAlone
  <2>3. ReaderAlone' /\ HandledInv' /\ (Full' = Full)
    BY <2>1, <2>2 DEF OnceInv, ReaderAlone, HandledInv, Full
  <2> QED
    BY <1>7, <2>1, <2>3
<1>9. CASE Start
  <2>1. /\ UNCHANGED <<buffer, data, socket, handled, arrived, reader, readErr, handlerSet>>
        /\ loop = "off" /\ loop' = "spawn" /\ handlerSet
    BY <1>9 DEF Start, netVars, readerVars
  <2>2. ReaderAlone' /\ HandledInv' /\ (Full' = Full)
    BY <2>1 DEF OnceInv, ReaderAlone, HandledInv, Full
  <2> QED
    BY <1>7, <2>1, <2>2
<1>10. CASE SpawnReader
  <2>1. /\ UNCHANGED <<buffer, data, socket, handled, arrived, readErr, handlerSet>>
        /\ loop = "spawn" /\ loop' = "select" /\ reader' = "reading"
    BY <1>10 DEF SpawnReader, netVars
  <2>2. ReaderAlone' /\ HandledInv' /\ (Full' = Full)
    BY <2>1 DEF OnceInv, ReaderAlone, HandledInv, Full
  <2> QED
    BY <1>7, <2>1, <2>2
<1>11. CASE SelectDone
  <2>1. /\ UNCHANGED <<buffer, data, socket, handled, arrived, reader, readErr, handlerSet>>
        /\ loop = "select" /\ loop' = "exited"
    BY <1>11 DEF SelectDone, netVars, readerVars
  <2>2. ReaderAlone' /\ HandledInv' /\ (Full' = Full)
    BY <2>1 DEF OnceInv, ReaderAlone, HandledInv, Full
  <2> QED
    BY <1>7, <2>1, <2>2
<1>12. CASE SelectError
  <2>1. /\ UNCHANGED <<buffer, data, socket, handled, arrived, readErr, handlerSet>>
        /\ loop = "select" /\ loop' \in {"exited", "spawn"}
        /\ reader = "sending" /\ readErr /\ reader' = "none"
    BY <1>12 DEF SelectError, AfterError, netVars
  <2>2. ReaderAlone' /\ HandledInv' /\ (Full' = Full)
    BY <2>1 DEF OnceInv, ReaderAlone, HandledInv, Full
  <2> QED
    BY <1>7, <2>1, <2>2
<1>13. CASE SelectData
  <2>1. /\ UNCHANGED <<buffer, data, socket, handled, arrived, readErr, handlerSet>>
        /\ loop = "select" /\ loop' = "copy"
        /\ reader = "sending" /\ ~readErr /\ reader' = "none"
    BY <1>13 DEF SelectData, ReaderAfter, netVars
  <2>2. ReaderAlone' /\ HandledInv' /\ (Full' = Full)
    BY <2>1 DEF OnceInv, ReaderAlone, HandledInv, Full
  <2> QED
    BY <1>7, <2>1, <2>2
<1>14. CASE Cancel \/ SetMessageHandler \/ Close \/ UNCHANGED vars
  <2>1. /\ UNCHANGED <<buffer, data, socket, handled, arrived, reader, readErr, loop>>
        /\ handlerSet => handlerSet'
    BY <1>14 DEF Cancel, SetMessageHandler, Close, CloseDone, CloseConn, CloseReturn, vars,
                 netVars, readerVars
  <2>2. ReaderAlone' /\ HandledInv' /\ (Full' = Full)
    BY <2>1 DEF OnceInv, ReaderAlone, HandledInv, Full
  <2> QED
    BY <1>7, <2>1, <2>2
<1> QED
  BY <1>3, <1>4, <1>5, <1>6, <1>8, <1>9, <1>10, <1>11, <1>12, <1>13, <1>14
  DEF Next, receiveLoop

LEMMA OnceInvIsOnce == UdpTypeInv /\ OnceInv => EachDatagramOnce
<1> SUFFICES ASSUME UdpTypeInv, OnceInv PROVE EachDatagramOnce
  OBVIOUS
<1>1. /\ IsABag(arrived) /\ IsABag(handled)
      /\ socket \in Seq(Datagrams)
  BY DEF UdpTypeInv, TypeOK
<1>2. /\ IsABag(InBuffer)
      /\ \A x : Times(InBuffer, x) = IF Full /\ x = buffer THEN 1 ELSE 0
  BY OneTimes, EmptyTimes DEF InBuffer, Full
<1>3. /\ IsABag(InCopy)
      /\ \A x : Times(InCopy, x) = IF loop = "lock" /\ x = data THEN 1 ELSE 0
  BY OneTimes, EmptyTimes DEF InCopy
<1>4. IsABag(ToBag(socket)) /\ \A x : Times(ToBag(socket), x) = Occurs(socket, x)
  BY <1>1, ToBagTimes
<1>5. /\ IsABag(handled (+) InCopy)
      /\ \A x : Times(handled (+) InCopy, x) = Times(handled, x) + Times(InCopy, x)
  BY <1>1, <1>3, AddTimes
<1>6. /\ IsABag(handled (+) InCopy (+) InBuffer)
      /\ \A x : Times(handled (+) InCopy (+) InBuffer, x)
                  = Times(handled, x) + Times(InCopy, x) + Times(InBuffer, x)
  BY <1>2, <1>5, AddTimes
<1>7. /\ IsABag(handled (+) InCopy (+) InBuffer (+) ToBag(socket))
      /\ \A x : Times(handled (+) InCopy (+) InBuffer (+) ToBag(socket), x)
                  = Times(handled, x) + Times(InCopy, x) + Times(InBuffer, x) + Occurs(socket, x)
  BY <1>4, <1>6, AddTimes
<1>8. \A x : Times(handled (+) InCopy (+) InBuffer (+) ToBag(socket), x) = Times(arrived, x)
  <2> SUFFICES ASSUME NEW x
               PROVE  Times(handled, x) + Times(InCopy, x) + Times(InBuffer, x) + Occurs(socket, x)
                        = Times(arrived, x)
    BY <1>7
  <2>1. Times(handled, x) + InHand(x) + Occurs(socket, x) = Times(arrived, x)
    BY DEF OnceInv, Accounted
  <2>2. Times(handled, x) \in Nat /\ Occurs(socket, x) \in Nat
    BY <1>1, BagTimes, PositionsFinite
  <2> QED
    BY <1>2, <1>3, <2>1, <2>2 DEF InHand
<1> QED
  BY <1>1, <1>7, <1>8, SameBag DEF EachDatagramOnce

\* Close gives up the lock only when the loop is gone and the connection is shut; a loop
\* that is started later gets nothing from its readers but errors.
ClosedInv ==
    /\ closer \in {"wait", "returned"} => ~connOpen
    /\ closer = "returned" =>
         \/ loop \in {"off", "spawn", "exited"}
         \/ loop = "select" /\ ~Full

LEMMA InitClosedInv == Init => ClosedInv
  BY DEF Init, ClosedInv

LEMMA NextClosedInv == UdpTypeInv /\ OnceInv /\ ClosedInv /\ [Next]_vars => ClosedInv'
<1> SUFFICES ASSUME UdpTypeInv, OnceInv, ClosedInv, [Next]_vars PROVE ClosedInv'
  OBVIOUS
<1> USE DEF ClosedInv, Full
<1>1. CASE \E d \in Datagrams : Arrive(d)
  BY <1>1 DEF Arrive, readerVars, closeVars
<1>2. CASE Cancel \/ SetMessageHandler
  BY <1>2 DEF Cancel, SetMessageHandler, readerVars, closeVars
<1>3. CASE Start
  BY <1>3 DEF Start, readerVars, closeVars
<1>4. CASE Read
  BY <1>4 DEF Read, closeVars
<1>5. CASE ReadFails
  BY <1>5 DEF ReadFails, closeVars
<1>6. CASE SpawnReader
  BY <1>6 DEF SpawnReader, closeVars
<1>7. CASE SelectDone
  BY <1>7 DEF SelectDone, closeVars
<1>8. CASE SelectError
  BY <1>8 DEF SelectError, AfterError, closeVars
<1>9. CASE SelectData
  BY <1>9 DEF SelectData, closeVars
<1>10. CASE CopyData
  BY <1>10 DEF CopyData, closeVars
<1>11. CASE Dispatch
  BY <1>11 DEF Dispatch, closeVars
<1>12. CASE CloseDone
  BY <1>12 DEF CloseDone, readerVars
<1>13. CASE CloseConn
  BY <1>13 DEF CloseConn, readerVars
<1>14. CASE CloseReturn
  BY <1>14 DEF CloseReturn, LoopGone, readerVars
<1>15. CASE UNCHANGED vars
  BY <1>15 DEF vars
<1> QED
  BY <1>1, <1>2, <1>3, <1>4, <1>5, <1>6, <1>7, <1>8, <1>9, <1>10, <1>11, <1>12, <1>13, <1>14,
     <1>15
  DEF Next, receiveLoop, Close

LEMMA NoCallOnceClosed ==
    ClosedInv /\ [Next]_vars => [closer = "returned" => handled' = handled]_vars
<1> SUFFICES ASSUME ClosedInv, [Next]_vars, closer = "returned" PROVE handled' = handled
  BY DEF vars
<1>1. CASE Dispatch
  BY <1>1 DEF Dispatch, ClosedInv
<1>2. CASE ~Dispatch
  BY <1>2
  DEF Next, receiveLoop, Close, Arrive, Cancel, SetMessageHandler, Start, Read, ReadFails,
      SpawnReader, SelectDone, SelectError, SelectData, CopyData, CloseDone, CloseConn,
      CloseReturn, vars
<1> QED
  BY <1>1, <1>2

UdpInv == UdpTypeInv /\ OnceInv /\ ClosedInv

LEMMA InitUdpInv == Init => UdpInv
  BY InitUdpTypeInv, InitOnceInv, InitClosedInv DEF UdpInv

LEMMA NextUdpInv == UdpInv /\ [Next]_vars => UdpInv'
  BY NextUdpTypeInv, NextOnceInv, NextClosedInv DEF UdpInv

-----------------------------------------------------------------------------
(* The channel receiver.                                                     *)

\* What the channel receiver does is for the UDP receiver one of its own steps, or none.
LEMMA StepUnderneath == [CNext]_cvars => [Next]_vars
<1> SUFFICES ASSUME [CNext]_cvars PROVE [Next]_vars
  OBVIOUS
<1>1. CASE NewChannelReceiver \/ ((\E d \in Datagrams : Arrive(d)) /\ Underneath)
           \/ ((Cancel \/ Start \/ Read \/ ReadFails \/ receiveLoop \/ Close) /\ Underneath)
  BY <1>1 DEF NewChannelReceiver, Next
<1>2. CASE \E d \in BagToSet(sending) : Handle(d)
  BY <1>2 DEF Handle
<1>3. CASE Receive \/ RangeEnds \/ CloseMessages \/ UNCHANGED cvars
  BY <1>3 DEF Receive, RangeEnds, CloseMessages, cvars
<1> QED
  BY <1>1, <1>2, <1>3 DEF CNext

\* The channel, the application and the handlers, panics included, leave the UDP receiver
\* what it is without them.
THEOREM ChannelRunsUdp == CSpec => Spec
<1>1. CInit => Init
  BY DEF CInit
<1> QED
  BY <1>1, StepUnderneath, PTL DEF CSpec, Spec

LEMMA UdpInvariant == Spec => []UdpInv
  BY InitUdpInv, NextUdpInv, PTL DEF Spec

\* Every datagram that arrived is in the socket, in the shared buffer, in the loop's copy or
\* with a handler, and is so once.
THEOREM ChannelEachDatagramOnce == CSpec => []EachDatagramOnce
<1>1. UdpInv => EachDatagramOnce
  BY OnceInvIsOnce DEF UdpInv
<1> QED
  BY <1>1, ChannelRunsUdp, UdpInvariant, PTL

\* Once Close has returned no handler goroutine is started, not even by a loop that is
\* started then; one that was started before may still be running.
THEOREM ChannelNoCallAfterClose == CSpec => NoCallAfterClose
<1>1. UdpInv /\ [Next]_vars => [closer = "returned" => handled' = handled]_vars
  BY NoCallOnceClosed DEF UdpInv
<1> QED
  BY <1>1, ChannelRunsUdp, UdpInvariant, PTL DEF Spec, NoCallAfterClose

\* The types of the channel's side; those of the UDP receiver are in UdpInv.
ChannelInv ==
    /\ BagToSet(sending) \subseteq Datagrams
    /\ BagToSet(received) \subseteq Datagrams /\ BagToSet(dropped) \subseteq Datagrams
    /\ messages \in Seq(Datagrams) /\ Len(messages) <= BufferSize
    /\ chanOpen \in BOOLEAN /\ panicked \in BOOLEAN
    /\ consumer \in {"range", "ended"}

LEMMA BagToSetAdd ==
    ASSUME NEW B, NEW C
    PROVE  BagToSet(B (+) C) = BagToSet(B) \union BagToSet(C)
  BY DEF BagToSet, (+)

LEMMA BagToSetRemove ==
    ASSUME NEW B, NEW C
    PROVE  BagToSet(B (-) C) \subseteq BagToSet(B)
  BY DEF BagToSet, (-)

LEMMA InitChannelInv == CInit => ChannelInv
<1> SUFFICES ASSUME CInit PROVE ChannelInv
  OBVIOUS
<1>1. messages \in Seq(Datagrams) /\ Len(messages) = 0
  BY DEF CInit
<1>2. BagToSet(sending) = {} /\ BagToSet(received) = {} /\ BagToSet(dropped) = {}
  BY EmptyTimes DEF CInit
<1>3. Len(messages) <= BufferSize
  BY <1>1, ChannelAssumption
<1>4. chanOpen \in BOOLEAN /\ panicked \in BOOLEAN /\ consumer = "range"
  BY DEF CInit
<1> QED
  BY <1>1, <1>2, <1>3, <1>4 DEF ChannelInv

LEMMA NextChannelInv == UdpInv' /\ ChannelInv /\ [CNext]_cvars => ChannelInv'
<1> SUFFICES ASSUME UdpInv', ChannelInv, [CNext]_cvars PROVE ChannelInv'
  OBVIOUS
<1>1. CASE Underneath
  <2>1. sending' = sending (+) (handled' (-) handled) /\ UNCHANGED channelVars
    BY <1>1 DEF Underneath
  <2>2. BagToSet(handled') \subseteq Datagrams
    BY DEF UdpInv, UdpTypeInv
  <2>3. BagToSet(sending') \subseteq Datagrams
    BY <2>1, <2>2, BagToSetAdd, BagToSetRemove DEF ChannelInv
  <2> QED
    BY <2>1, <2>3 DEF ChannelInv, channelVars
<1>2. ASSUME NEW d \in BagToSet(sending), Handle(d) PROVE ChannelInv'
  <2>1. d \in Datagrams
    BY DEF ChannelInv
  <2>2. BagToSet(sending') \subseteq Datagrams
    BY <1>2, BagToSetRemove DEF Handle, ChannelInv
  <2>3. BagToSet(dropped') \subseteq Datagrams
    <3>1. dropped' = dropped \/ dropped' = dropped (+) SetToBag({d})
      BY <1>2 DEF Handle
    <3>2. BagToSet(dropped (+) SetToBag({d})) = BagToSet(dropped) \union {d}
      BY BagToSetAdd, OneTimes
    <3> QED
      BY <2>1, <3>1, <3>2 DEF ChannelInv
  <2>4. messages' \in Seq(Datagrams) /\ Len(messages') <= BufferSize
    <3>1. \/ messages' = messages
          \/ messages' = Append(messages, d) /\ Len(messages) < BufferSize
      BY <1>2 DEF Handle, Room
    <3> QED
      BY <2>1, <3>1, ChannelAssumption DEF ChannelInv
  <2>5. panicked' = ~chanOpen /\ UNCHANGED <<chanOpen, consumer, received>>
    BY <1>2 DEF Handle
  <2>6. panicked' \in BOOLEAN
    BY <2>5
  <2> QED
    BY <2>2, <2>3, <2>4, <2>5, <2>6 DEF ChannelInv
<1>3. CASE Receive
  <2>1. /\ messages # <<>> /\ messages' = Tail(messages)
        /\ received' = received (+) SetToBag({Head(messages)})
        /\ UNCHANGED <<sending, chanOpen, consumer, panicked, dropped>>
    BY <1>3 DEF Receive
  <2>2. /\ Head(messages) \in Datagrams /\ messages' \in Seq(Datagrams)
        /\ Len(messages') = Len(messages) - 1
    BY <2>1, HeadTailProperties DEF ChannelInv
  <2>3. BagToSet(received') = BagToSet(received) \union {Head(messages)}
    BY <2>1, BagToSetAdd, OneTimes
  <2>4. Len(messages') <= BufferSize
    BY <2>2, ChannelAssumption DEF ChannelInv
  <2> QED
    BY <2>1, <2>2, <2>3, <2>4 DEF ChannelInv
<1>4. CASE RangeEnds \/ CloseMessages
  BY <1>4 DEF RangeEnds, CloseMessages, ChannelInv
<1>5. CASE UNCHANGED cvars
  BY <1>5 DEF cvars, channelVars, ChannelInv
<1> QED
  BY <1>1, <1>2, <1>3, <1>4, <1>5 DEF CNext, NewChannelReceiver

\* The UDP receiver and the channel keep their types, and the channel its capacity.
THEOREM ChannelTypes == CSpec => []ChannelTypeOK
<1>1. UdpInv /\ ChannelInv => ChannelTypeOK
  BY DEF UdpInv, UdpTypeInv, ChannelInv, ChannelTypeOK
<1>2. CSpec => []UdpInv
  BY ChannelRunsUdp, UdpInvariant, PTL
<1>3. UdpInv /\ ChannelInv /\ UdpInv' /\ [CNext]_cvars => ChannelInv'
  BY NextChannelInv
<1> QED
  BY <1>1, <1>2, <1>3, InitChannelInv, PTL DEF CSpec

-----------------------------------------------------------------------------
(* The size of what handlers were called with, and of what is left of it.    *)

\* A step calls a handler at most once.
LEMMA HandledStep ==
    [Next]_vars => handled' = handled \/ handled' = handled (+) SetToBag({data})
<1> SUFFICES ASSUME [Next]_vars
             PROVE  handled' = handled \/ handled' = handled (+) SetToBag({data})
  OBVIOUS
<1>1. CASE Dispatch
  BY <1>1 DEF Dispatch
<1>2. CASE SpawnReader \/ SelectDone \/ SelectError \/ SelectData \/ CopyData
  BY <1>2 DEF SpawnReader, SelectDone, SelectError, SelectData, CopyData
<1>3. CASE (\E d \in Datagrams : Arrive(d)) \/ Cancel \/ SetMessageHandler \/ Start
           \/ Read \/ ReadFails
  BY <1>3 DEF Arrive, Cancel, SetMessageHandler, Start, Read, ReadFails
<1>4. CASE Close \/ UNCHANGED vars
  BY <1>4 DEF Close, CloseDone, CloseConn, CloseReturn, vars
<1> QED
  BY <1>1, <1>2, <1>3, <1>4 DEF Next, receiveLoop

\* What waits in the channel or in a handler's hands is part of what handlers were called
\* with; when one is dropped, the channel is full and the one dropped comes on top.
SizeInv ==
    /\ IsABag(sending)
    /\ IsFiniteSet(BagToSet(sending)) /\ IsFiniteSet(BagToSet(handled))
    /\ BagCardinality(sending) + Len(messages) <= BagCardinality(handled)
    /\ dropped = EmptyBag \/ BufferSize < BagCardinality(handled)

LEMMA InitSizeInv == CInit => SizeInv
  BY EmptyTimes, EmptySize DEF CInit, Init, SizeInv

LEMMA NextSizeInv ==
    UdpInv /\ UdpInv' /\ ChannelInv /\ SizeInv /\ [CNext]_cvars => SizeInv'
<1> SUFFICES ASSUME UdpInv, UdpInv', ChannelInv, SizeInv, [CNext]_cvars PROVE SizeInv'
  OBVIOUS
<1>1. IsABag(handled) /\ IsABag(handled') /\ IsABag(sending)
  BY DEF UdpInv, UdpTypeInv, SizeInv
<1>2. /\ BagCardinality(handled) \in Nat /\ BagCardinality(sending) \in Nat
      /\ Len(messages) \in Nat /\ BufferSize \in Nat
  BY <1>1, BagCardinalityCopies, CopiesFinite, ChannelAssumption DEF SizeInv, ChannelInv
<1>3. CASE Underneath
  <2>1. sending' = sending (+) (handled' (-) handled) /\ UNCHANGED <<messages, dropped>>
    BY <1>3 DEF Underneath, channelVars
  <2>2. IsABag(handled' (-) handled)
    BY <1>1, RemoveTimes
  <2>3. /\ IsABag(sending')
        /\ \A x : Times(sending', x) = Times(sending, x) + Times(handled' (-) handled, x)
    BY <1>1, <2>1, <2>2, AddTimes
  <2>4. /\ \A x : Times(sending, x) \in Nat
        /\ \A x : Times(handled, x) \in Nat /\ Times(handled', x) \in Nat
    BY <1>1, BagTimes
  <2>5. \A x : Times(handled' (-) handled, x) = IF Times(handled', x) > Times(handled, x)
                  THEN Times(handled', x) - Times(handled, x) ELSE 0
    BY <1>1, RemoveTimes
  <2>6. CASE handled' = handled
    <3>1. \A x : Times(sending', x) = Times(sending, x)
      BY <2>3, <2>4, <2>5, <2>6
    <3>2. sending' = sending
      BY <1>1, <2>3, <3>1, SameBag
    <3> QED
      BY <2>1, <2>6, <3>2 DEF SizeInv
  <2>7. CASE handled' = handled (+) SetToBag({data})
    <3>1. /\ Times(handled', data) = Times(handled, data) + 1
          /\ \A x : x # data => Times(handled', x) = Times(handled, x)
      BY <1>1, <2>7, AddOneTimes
    <3>2. /\ Times(sending', data) = Times(sending, data) + 1
          /\ \A x : x # data => Times(sending', x) = Times(sending, x)
      BY <2>3, <2>4, <2>5, <3>1
    <3>3. /\ IsFiniteSet(BagToSet(handled'))
          /\ BagCardinality(handled') = BagCardinality(handled) + 1
      BY <1>1, <3>1, OneMoreCopy DEF SizeInv
    <3>4. /\ IsFiniteSet(BagToSet(sending'))
          /\ BagCardinality(sending') = BagCardinality(sending) + 1
      BY <1>1, <2>3, <3>2, OneMoreCopy DEF SizeInv
    <3> QED
      BY <1>2, <2>1, <2>3, <3>3, <3>4 DEF SizeInv
  <2> QED
    BY <2>6, <2>7, HandledStep, StepUnderneath
<1>4. ASSUME NEW d \in BagToSet(sending), Handle(d) PROVE SizeInv'
  <2>1. /\ sending' = sending (-) SetToBag({d}) /\ handled' = handled
        /\ messages' = IF chanOpen /\ Room THEN Append(messages, d) ELSE messages
        /\ dropped' = IF chanOpen /\ ~Room THEN dropped (+) SetToBag({d}) ELSE dropped
    BY <1>4 DEF Handle, vars
  <2>2. /\ IsABag(sending') /\ Times(sending, d) = Times(sending', d) + 1
        /\ \A x : x # d => Times(sending, x) = Times(sending', x)
    <3>1. /\ \A x : Times(sending, x) \in Nat
          /\ Times(sending, d) # 0
      BY <1>1, BagTimes
    <3>2. IsABag(SetToBag({d})) /\ \A x : Times(SetToBag({d}), x) = IF x = d THEN 1 ELSE 0
      BY OneTimes
    <3>3. /\ IsABag(sending')
          /\ \A x : Times(sending', x) = IF Times(sending, x) > Times(SetToBag({d}), x)
                       THEN Times(sending, x) - Times(SetToBag({d}), x) ELSE 0
      BY <1>1, <2>1, <3>2, RemoveTimes
    <3> QED
      BY <3>1, <3>2, <3>3
  <2>3. IsFiniteSet(BagToSet(sending'))
    <3>1. BagToSet(sending') \in SUBSET BagToSet(sending)
      BY <2>1, BagToSetRemove
    <3> QED
      BY <3>1, FS_Subset DEF SizeInv
  <2>4. /\ BagCardinality(sending') \in Nat
        /\ BagCardinality(sending) = BagCardinality(sending') + 1
    BY <1>1, <2>2, <2>3, OneMoreCopy
  <2>5. Len(messages') = IF chanOpen /\ Room THEN Len(messages) + 1 ELSE Len(messages)
    <3>1. d \in Datagrams
      BY DEF ChannelInv
    <3> QED
      BY <2>1, <3>1 DEF ChannelInv
  <2>6. BagCardinality(sending') + Len(messages') <= BagCardinality(handled)
    BY <1>2, <2>4, <2>5 DEF SizeInv
  <2>7. dropped' = dropped \/ BufferSize < BagCardinality(handled)
    <3>1. CASE chanOpen /\ ~Room
      <4>1. BufferSize <= Len(messages)
        BY <1>2, <3>1 DEF Room
      <4> QED
        BY <1>2, <2>4, <4>1 DEF SizeInv
    <3> QED
      BY <2>1, <3>1
  <2> QED
    BY <2>1, <2>2, <2>3, <2>6, <2>7 DEF SizeInv
<1>5. CASE Receive
  <2>1. /\ messages # <<>> /\ messages' = Tail(messages)
        /\ UNCHANGED <<sending, handled, dropped>>
    BY <1>5 DEF Receive, vars
  <2>2. Len(messages') = Len(messages) - 1
    BY <2>1, HeadTailProperties DEF ChannelInv
  <2> QED
    BY <1>2, <2>1, <2>2 DEF SizeInv
<1>6. CASE RangeEnds \/ CloseMessages
  BY <1>6 DEF RangeEnds, CloseMessages, SizeInv, vars
<1>7. CASE UNCHANGED cvars
  BY <1>7 DEF cvars, channelVars, vars, SizeInv
<1> QED
  BY <1>3, <1>4, <1>5, <1>6, <1>7 DEF CNext, NewChannelReceiver

\* The first BufferSize datagrams reach the channel, however slow the application is: a
\* handler drops one only when others fill the buffer.
THEOREM ChannelDropsOnlyBeyondBuffer == CSpec => []DropsOnlyBeyondBuffer
<1>1. UdpInv /\ ChannelInv /\ SizeInv => DropsOnlyBeyondBuffer
  <2> SUFFICES ASSUME UdpInv, SizeInv, dropped # EmptyBag
               PROVE  ~ (BagCardinality(handled) <= BufferSize)
    BY DEF DropsOnlyBeyondBuffer
  <2>1. BagCardinality(handled) \in Nat /\ BufferSize \in Nat
    BY BagCardinalityCopies, CopiesFinite, ChannelAssumption
       DEF SizeInv, UdpInv, UdpTypeInv
  <2> QED
    BY <2>1 DEF SizeInv
<1>2. CSpec => []UdpInv
  BY ChannelRunsUdp, UdpInvariant, PTL
<1>3. UdpInv /\ ChannelInv /\ UdpInv' /\ [CNext]_cvars => ChannelInv'
  BY NextChannelInv
<1>4. UdpInv /\ UdpInv' /\ ChannelInv /\ SizeInv /\ [CNext]_cvars => SizeInv'
  BY NextSizeInv
<1> QED
  BY <1>1, <1>2, <1>3, <1>4, InitChannelInv, InitSizeInv, PTL DEF CSpec

=============================================================================
