---------------------------- MODULE QuestionsProofs ---------------------------
(***************************************************************************)
(* The answers of Routing, Assessment, Attribution and Views for every     *)
(* input: a request reaches the routes it fits, a gateway forwards what    *)
(* its calls stand for, a configured client names one service or none, two *)
(* services are joined when their endpoints give a reason to, no call      *)
(* disappears and what is reported as a risk is one, a source file belongs *)
(* to the module that declares it, and every view of an inventory tells    *)
(* what is stored of it.                                                   *)
(*                                                                         *)
(* The specifications take one step, from a question to its answer; what   *)
(* is proved is about the algorithms.  They are folds, CHOOSE and          *)
(* comprehensions, so the induction is over the cardinality of a set or    *)
(* the length of a directory.                                              *)
(***************************************************************************)
EXTENDS Routing, Assessment, Attribution, Views, TLAPS, WellFoundedInduction, FiniteSetTheorems

\* Induction: the naturals are well-founded, which gives a least element, a
\* longest and a shortest directory, and the value of a fold on every subset.

\* A set of numbers has a least one.
LEMMA LeastNat ==
  ASSUME NEW T \in SUBSET Nat, T # {}
  PROVE  \E n \in T : \A m \in T : n <= m
<1> DEFINE R == {p \in Nat \X Nat : p[1] < p[2]}
<1>1. IsWellFoundedOn(R, Nat)
  BY NatLessThanWellFounded DEF OpToRel
<1>2. PICK x \in T : \A y \in T : ~(<<y, x>> \in R)
  <2> HIDE DEF R
  <2> QED BY <1>1, WFMin
<1>3. ASSUME NEW y \in T PROVE x <= y
  <2>1. x \in Nat /\ y \in Nat
    OBVIOUS
  <2>2. <<y, x>> \in Nat \X Nat /\ <<y, x>>[1] = y /\ <<y, x>>[2] = x
    BY <2>1
  <2>3. QED
    BY <1>2, <2>1, <2>2
<1>4. QED
  BY <1>3

\* A set of numbers that has 0 and every successor has them all.
LEMMA InductionOnNat ==
  ASSUME NEW T \in SUBSET Nat, 0 \in T, \A n \in T : n + 1 \in T
  PROVE  T = Nat
<1> SUFFICES ASSUME Nat \ T # {} PROVE FALSE
  OBVIOUS
<1>1. PICK n \in Nat \ T : \A m \in Nat \ T : n <= m
  BY LeastNat
<1>2. n - 1 \in Nat /\ n - 1 \in T
  BY <1>1
<1>3. QED
  BY <1>2

\* A finite set without one of its elements is smaller by one.
LEMMA Removed ==
  ASSUME NEW D, IsFiniteSet(D), NEW s \in SUBSET D, NEW x \in s
  PROVE  /\ IsFiniteSet(s) /\ s \ {x} \in SUBSET D
         /\ Cardinality(s) \in Nat /\ Cardinality(s \ {x}) = Cardinality(s) - 1
         /\ Cardinality(s) > 0
<1>1. IsFiniteSet(s)
  BY FS_Subset
<1>2. Cardinality(s) \in Nat /\ Cardinality(s \ {x}) \in Nat /\ Cardinality(s \ {x}) = Cardinality(s) - 1
  BY <1>1, FS_RemoveElement, FS_CardinalityType
<1> QED BY <1>1, <1>2

\* The cardinality of a subset, and when it is 0.
LEMMA Small ==
  ASSUME NEW D, IsFiniteSet(D), NEW s \in SUBSET D
  PROVE  /\ Cardinality(s) \in Nat /\ Cardinality(s) <= Cardinality(D)
         /\ Cardinality(D) \in Nat
         /\ Cardinality(s) = 0 <=> s = {}
<1>1. IsFiniteSet(s) /\ Cardinality(s) <= Cardinality(D)
  BY FS_Subset
<1>2. Cardinality(s) \in Nat /\ Cardinality(D) \in Nat
  BY <1>1, FS_CardinalityType
<1>3. Cardinality(s) = 0 <=> s = {}
  BY <1>1, FS_EmptySet
<1> QED BY <1>1, <1>2, <1>3

\* The equation of MapThenFoldSet: h is the fold of every subset of D, by F on
\* the element that c takes from it and the fold of the rest.
FoldsTo(D, S, base, c, F, h) ==
  /\ h[{}] = base
  /\ \A s \in (SUBSET D) \ {{}} :
       h[s \ {c[s]}] \in S => h[s] = F[<<c[s], h[s \ {c[s]}]>>]

\* c takes an element from every set that has one.
Chooses(c, D) ==
  c \in [(SUBSET D) \ {{}} -> D] /\ \A s \in (SUBSET D) \ {{}} : c[s] \in s

\* A fold has a value on every subset of a finite set: by induction on the
\* cardinality, from which the function that the LET of a fold chooses exists.
LEMMA FoldExists ==
  ASSUME NEW D, IsFiniteSet(D), NEW S, NEW base \in S, NEW c, Chooses(c, D),
         NEW F \in [D \X S -> S]
  PROVE  \E h \in [SUBSET D -> S] : FoldsTo(D, S, base, c, F, h)
<1> DEFINE Level(n) == {s \in SUBSET D : Cardinality(s) <= n}
           Next1(s, h) == IF s = {} THEN base ELSE F[<<c[s], h[s \ {c[s]}]>>]
           T == {n \in Nat : \E h \in [Level(n) -> S] : \A s \in Level(n) : h[s] = Next1(s, h)}
<1>1. \A s \in (SUBSET D) \ {{}} : c[s] \in s /\ c[s] \in D
  BY DEF Chooses
<1>2. ASSUME NEW n \in Nat, NEW s \in Level(n + 1), s # {} PROVE s \ {c[s]} \in Level(n)
  <2>1. Cardinality(s) \in Nat /\ Cardinality(s \ {c[s]}) = Cardinality(s) - 1 /\ s \ {c[s]} \in SUBSET D
    BY <1>1, <1>2, Removed
  <2> QED BY <2>1
<1>3. 0 \in T
  <2>1. \A s \in Level(0) : s = {}
    BY Small
  <2> DEFINE h == [s \in Level(0) |-> base]
  <2>2. h \in [Level(0) -> S] /\ \A s \in Level(0) : h[s] = Next1(s, h)
    <3> HIDE DEF Level
    <3> QED BY <2>1
  <2> QED BY <2>2
<1>4. ASSUME NEW n \in T PROVE n + 1 \in T
  <2>1. n \in Nat /\ n + 1 \in Nat
    OBVIOUS
  <2>2. PICK h \in [Level(n) -> S] : \A s \in Level(n) : h[s] = Next1(s, h)
    OBVIOUS
  <2> DEFINE g == [s \in Level(n + 1) |-> Next1(s, h)]
  <2>3. Level(n) \subseteq Level(n + 1)
    <3>1. \A s \in SUBSET D : Cardinality(s) \in Nat
      BY Small
    <3> QED BY <2>1, <3>1
  <2>4. \A s \in Level(n + 1) \ {{}} : s \ {c[s]} \in Level(n) /\ c[s] \in D
    BY <1>1, <1>2, <2>1
  <2> HIDE DEF Level
  <2>5. g \in [Level(n + 1) -> S]
    <3>1. ASSUME NEW s \in Level(n + 1) PROVE Next1(s, h) \in S
      <4>1. CASE s = {}
        BY <4>1
      <4>2. CASE s # {}
        <5>1. h[s \ {c[s]}] \in S /\ c[s] \in D
          BY <2>2, <2>4, <4>2
        <5> QED BY <4>2, <5>1
      <4> QED BY <4>1, <4>2
    <3> QED BY <3>1
  <2>6. \A s \in Level(n) : g[s] = h[s]
    BY <2>2, <2>3
  <2>7. ASSUME NEW s \in Level(n + 1) PROVE g[s] = Next1(s, g)
    <3>1. g[s] = Next1(s, h)
      OBVIOUS
    <3> HIDE DEF g
    <3>2. CASE s = {}
      BY <3>1, <3>2
    <3>3. CASE s # {}
      <4>1. g[s \ {c[s]}] = h[s \ {c[s]}]
        BY <2>4, <2>6, <3>3
      <4> QED BY <3>1, <3>3, <4>1
    <3> QED BY <3>2, <3>3
  <2> HIDE DEF g, Next1
  <2> QED BY <2>1, <2>5, <2>7
<1>5. T = Nat
  <2>1. T \in SUBSET Nat
    OBVIOUS
  <2> HIDE DEF T
  <2> QED BY <1>3, <1>4, <2>1, InductionOnNat
<1>6. Cardinality(D) \in Nat /\ Level(Cardinality(D)) = SUBSET D
  BY Small
<1>7. \E h \in [Level(Cardinality(D)) -> S] : \A s \in Level(Cardinality(D)) : h[s] = Next1(s, h)
  <2>1. Cardinality(D) \in T
    BY <1>5, <1>6
  <2> HIDE DEF Level, Next1
  <2> QED BY <2>1
<1> HIDE DEF Level
<1>8. PICK h \in [SUBSET D -> S] : \A s \in SUBSET D : h[s] = Next1(s, h)
  BY <1>6, <1>7
<1>9. FoldsTo(D, S, base, c, F, h)
  BY <1>8 DEF FoldsTo
<1> QED BY <1>9

\* A relation between subsets and folded values that each step of F keeps.
Kept(D, S, base, c, F, G) ==
  /\ G \in SUBSET ((SUBSET D) \X S) /\ <<{}, base>> \in G
  /\ \A s \in SUBSET D : \A a \in S :
       s # {} /\ <<s \ {c[s]}, a>> \in G => <<s, F[<<c[s], a>>]>> \in G

\* What each step of a fold keeps holds of the fold of every subset.
LEMMA FoldKeeps ==
  ASSUME NEW D, IsFiniteSet(D), NEW S, NEW base \in S, NEW c, Chooses(c, D),
         NEW F \in [D \X S -> S], NEW h, FoldsTo(D, S, base, c, F, h),
         NEW G, Kept(D, S, base, c, F, G)
  PROVE  \A s \in SUBSET D : h[s] \in S /\ <<s, h[s]>> \in G
<1> DEFINE T == {n \in Nat : \A s \in SUBSET D : Cardinality(s) <= n => h[s] \in S /\ <<s, h[s]>> \in G}
<1>1. h[{}] = base
  BY DEF FoldsTo
<1>0. /\ G \in SUBSET ((SUBSET D) \X S) /\ <<{}, base>> \in G
      /\ \A s \in SUBSET D : \A a \in S :
           s # {} /\ <<s \ {c[s]}, a>> \in G => <<s, F[<<c[s], a>>]>> \in G
  BY DEF Kept
<1>2. 0 \in T
  <2>1. \A s \in SUBSET D : Cardinality(s) <= 0 => s = {}
    BY Small
  <2> QED BY <1>1, <1>0, <2>1
<1>3. ASSUME NEW n \in T PROVE n + 1 \in T
  <2> SUFFICES ASSUME NEW s \in SUBSET D, Cardinality(s) <= n + 1
               PROVE  h[s] \in S /\ <<s, h[s]>> \in G
    OBVIOUS
  <2>1. CASE s = {}
    BY <1>1, <1>0, <2>1
  <2>2. CASE s # {}
    <3>1. c[s] \in s /\ c[s] \in D
      BY <2>2 DEF Chooses
    <3>2. s \ {c[s]} \in SUBSET D /\ Cardinality(s \ {c[s]}) = Cardinality(s) - 1 /\ Cardinality(s) \in Nat
      BY <3>1, Removed
    <3>3. h[s \ {c[s]}] \in S /\ <<s \ {c[s]}, h[s \ {c[s]}]>> \in G
      <4>1. \A r \in SUBSET D : Cardinality(r) <= n => h[r] \in S /\ <<r, h[r]>> \in G
        OBVIOUS
      <4>2. Cardinality(s \ {c[s]}) <= n
        BY <3>2
      <4> QED BY <3>2, <4>1, <4>2
    <3>4. h[s] = F[<<c[s], h[s \ {c[s]}]>>]
      BY <2>2, <3>3 DEF FoldsTo
    <3> QED BY <1>0, <2>2, <3>1, <3>3, <3>4
  <2> QED BY <2>1, <2>2
<1>4. T = Nat
  <2>1. T \in SUBSET Nat
    OBVIOUS
  <2> HIDE DEF T
  <2> QED BY <1>2, <1>3, <2>1, InductionOnNat
<1>5. Cardinality(D) \in T /\ \A s \in SUBSET D : Cardinality(s) <= Cardinality(D)
  BY <1>4, Small
<1> QED BY <1>5

\* A strict order on a finite set has a maximal element: one with the fewest
\* later ones.
LEMMA MaximalExists ==
  ASSUME NEW S, IsFiniteSet(S), S # {}, NEW R,
         \A x, y, z \in S : <<x, y>> \in R /\ <<y, z>> \in R => <<x, z>> \in R,
         \A x \in S : <<x, x>> \notin R
  PROVE  \E x \in S : \A y \in S : <<x, y>> \notin R
<1> DEFINE Later(x) == {y \in S : <<x, y>> \in R}
           T == {Cardinality(Later(x)) : x \in S}
<1>1. \A x \in S : Later(x) \in SUBSET S /\ IsFiniteSet(Later(x)) /\ Cardinality(Later(x)) \in Nat
  BY FS_Subset, FS_CardinalityType
<1>2. T \in SUBSET Nat /\ T # {}
  <2> HIDE DEF Later
  <2> QED BY <1>1
<1>3. PICK n \in T : \A m \in T : n <= m
  <2> HIDE DEF T
  <2> QED BY <1>2, LeastNat
<1>4. PICK x \in S : n = Cardinality(Later(x))
  OBVIOUS
<1>5. ASSUME NEW y \in S, <<x, y>> \in R PROVE FALSE
  <2>1. Later(y) \in SUBSET Later(x) /\ y \in Later(x) /\ y \notin Later(y)
    BY <1>5
  <2> DEFINE A == Later(x)
             B == Later(y)
  <2>2. IsFiniteSet(A) /\ B \in SUBSET A /\ B # A /\ Cardinality(A) \in Nat /\ Cardinality(B) \in Nat
    BY <1>1, <2>1
  <2>3. Cardinality(A) <= Cardinality(B)
    <3>1. Cardinality(B) \in T
      OBVIOUS
    <3> HIDE DEF T
    <3> QED BY <1>3, <1>4, <3>1
  <2> HIDE DEF A, B
  <2>4. Cardinality(B) <= Cardinality(A) /\ (Cardinality(A) = Cardinality(B) => A = B)
    BY <2>2, FS_Subset
  <2> QED BY <2>2, <2>3, <2>4
<1> QED BY <1>5

\* The elements of a concatenation, as build_graph makes one of the REST and
\* the Kafka edges.
LEMMA Concatenated ==
  ASSUME NEW S, NEW s \in Seq(S), NEW t \in Seq(S)
  PROVE  ToSet(s \o t) = ToSet(s) \cup ToSet(t)
<1>1. /\ DOMAIN s = 1 .. Len(s) /\ DOMAIN t = 1 .. Len(t) /\ DOMAIN (s \o t) = 1 .. Len(s) + Len(t)
      /\ Len(s) \in Nat /\ Len(t) \in Nat
  OBVIOUS
<1>2. \A i \in 1 .. Len(s) : (s \o t)[i] = s[i] /\ i \in DOMAIN (s \o t)
  BY <1>1
<1>3. \A i \in 1 .. Len(t) : (s \o t)[Len(s) + i] = t[i] /\ Len(s) + i \in DOMAIN (s \o t)
  BY <1>1
<1>4. \A i \in DOMAIN (s \o t) :
        \/ i \in 1 .. Len(s)
        \/ i - Len(s) \in 1 .. Len(t) /\ i = Len(s) + (i - Len(s))
  BY <1>1
<1>5. ASSUME NEW x \in ToSet(s \o t) PROVE x \in ToSet(s) \cup ToSet(t)
  BY <1>1, <1>2, <1>3, <1>4 DEF ToSet
<1>6. ASSUME NEW x \in ToSet(s) \cup ToSet(t) PROVE x \in ToSet(s \o t)
  BY <1>1, <1>2, <1>3 DEF ToSet
<1> QED BY <1>5, <1>6

\* A sequence is one over its own elements.
LEMMA OwnElements ==
  ASSUME NEW X, NEW s \in Seq(X)
  PROVE  s \in Seq(ToSet(s)) /\ ToSet(s) \subseteq X
<1>1. \A i \in DOMAIN s : s[i] \in X /\ s[i] \in ToSet(s)
  BY DEF ToSet
<1>2. s \in Seq(ToSet(s))
  BY <1>1
<1> QED BY <1>1, <1>2 DEF ToSet

\* The elements of a sequence after an append.
LEMMA Appended ==
  ASSUME NEW S, NEW s \in Seq(S), NEW x \in S
  PROVE  Append(s, x) \in Seq(S) /\ ToSet(Append(s, x)) = ToSet(s) \cup {x}
<1>1. /\ Append(s, x) \in Seq(S) /\ Len(s) \in Nat
      /\ DOMAIN s = 1 .. Len(s) /\ DOMAIN Append(s, x) = 1 .. Len(s) + 1
      /\ \A i \in 1 .. Len(s) : Append(s, x)[i] = s[i]
      /\ Append(s, x)[Len(s) + 1] = x
  OBVIOUS
<1>2. 1 .. Len(s) + 1 = (1 .. Len(s)) \cup {Len(s) + 1}
  BY <1>1
<1> QED BY <1>1, <1>2 DEF ToSet

\* The image of a finite set is finite.
LEMMA FiniteImage ==
  ASSUME NEW S, IsFiniteSet(S), NEW f, NEW T, T = {f[x] : x \in S}
  PROVE  IsFiniteSet(T)
<1> DEFINE g == [x \in S |-> f[x]]
<1>1. g \in [S -> T]
  OBVIOUS
<1>2. \A t \in T : \E s \in S : g[s] = t
  OBVIOUS
<1>3. g \in Surjection(S, T)
  BY <1>1, <1>2 DEF Surjection
<1> HIDE DEF g
<1> QED BY <1>3, FS_Surjection

\* The pairs of elements of finite sets, as records, are finitely many.
LEMMA FinitePairs ==
  ASSUME NEW A, IsFiniteSet(A), NEW B, IsFiniteSet(B)
  PROVE  IsFiniteSet([from : A, to : B])
<1> DEFINE f == [q \in A \X B |-> [from |-> q[1], to |-> q[2]]]
           T == {f[q] : q \in A \X B}
<1>1. IsFiniteSet(A \X B)
  BY FS_Product
<1>2. IsFiniteSet(T)
  <2> HIDE DEF f
  <2> QED BY <1>1, FiniteImage
<1>3. [from : A, to : B] \in SUBSET T
  <2> SUFFICES ASSUME NEW p \in [from : A, to : B] PROVE p \in T
    OBVIOUS
  <2>1. <<p.from, p.to>> \in A \X B /\ f[<<p.from, p.to>>] = p
    OBVIOUS
  <2> HIDE DEF f
  <2> QED BY <2>1
<1> HIDE DEF T
<1> QED BY <1>2, <1>3, FS_Subset

-----------------------------------------------------------------------------
\* Directories: those above a file are all above one another, so that there is
\* a nearest.

\* A directory is above another when its names are the first of the other.
LEMMA BelowMeans ==
  ASSUME NEW S, NEW s \in Seq(S), NEW t \in Seq(S)
  PROVE  IsPrefix(s, t) <=> /\ Len(s) <= Len(t)
                            /\ \A i \in 1 .. Len(s) : s[i] = t[i]
<1>1. CASE Len(s) <= Len(t)
  <2>1. /\ SubSeq(s, 1, Len(s)) = s
        /\ SubSeq(t, 1, Len(s)) = [i \in 1 .. Len(s) |-> t[i]]
        /\ s = [i \in 1 .. Len(s) |-> s[i]]
    BY <1>1
  <2>2. ASSUME IsPrefix(s, t), NEW i \in 1 .. Len(s) PROVE s[i] = t[i]
    <3>1. s = [j \in 1 .. Len(s) |-> t[j]]
      BY <2>1, <2>2 DEF IsPrefix
    <3> QED BY <3>1
  <2>3. ASSUME \A i \in 1 .. Len(s) : s[i] = t[i] PROVE IsPrefix(s, t)
    <3>1. s = [j \in 1 .. Len(s) |-> t[j]]
      BY <2>1, <2>3
    <3> QED BY <1>1, <2>1, <3>1 DEF IsPrefix
  <2> QED BY <1>1, <2>2, <2>3
<1>2. CASE ~(Len(s) <= Len(t))
  BY <1>2 DEF IsPrefix
<1> QED BY <1>1, <1>2

\* Being above is a partial order, and of two directories above a third one is
\* above the other.
LEMMA BelowOrders ==
  ASSUME NEW S, NEW a \in Seq(S), NEW b \in Seq(S), NEW c \in Seq(S)
  PROVE  /\ IsPrefix(a, a)
         /\ IsPrefix(a, b) /\ IsPrefix(b, c) => IsPrefix(a, c)
         /\ IsPrefix(a, b) /\ Len(b) <= Len(a) => a = b
         /\ IsPrefix(a, c) /\ IsPrefix(b, c) /\ Len(a) <= Len(b) => IsPrefix(a, b)
         /\ IsPrefix(a, b) => Len(a) <= Len(b)
         /\ Len(a) \in Nat
<1>1. Len(a) \in Nat /\ Len(b) \in Nat /\ Len(c) \in Nat
  OBVIOUS
<1>2. IsPrefix(a, a)
  BY BelowMeans
<1>3. IsPrefix(a, b) => Len(a) <= Len(b)
  BY BelowMeans
<1>4. ASSUME IsPrefix(a, b), IsPrefix(b, c) PROVE IsPrefix(a, c)
  <2>1. Len(a) <= Len(b) /\ Len(b) <= Len(c)
    BY <1>4, BelowMeans
  <2>2. \A i \in 1 .. Len(a) : i \in 1 .. Len(b) /\ a[i] = b[i] /\ b[i] = c[i]
    BY <1>1, <1>4, <2>1, BelowMeans
  <2> QED BY <1>1, <2>1, <2>2, BelowMeans
<1>5. ASSUME IsPrefix(a, b), Len(b) <= Len(a) PROVE a = b
  <2>1. Len(a) = Len(b) /\ \A i \in 1 .. Len(a) : a[i] = b[i]
    BY <1>1, <1>5, BelowMeans
  <2> QED BY <2>1
<1>6. ASSUME IsPrefix(a, c), IsPrefix(b, c), Len(a) <= Len(b) PROVE IsPrefix(a, b)
  <2>1. \A i \in 1 .. Len(a) : i \in 1 .. Len(b) /\ a[i] = c[i]
    BY <1>1, <1>6, BelowMeans
  <2>2. \A i \in 1 .. Len(b) : b[i] = c[i]
    BY <1>6, BelowMeans
  <2> QED BY <1>6, <2>1, <2>2, BelowMeans
<1> QED BY <1>1, <1>2, <1>3, <1>4, <1>5, <1>6

\* The root is above everything.
LEMMA RootHolds ==
  ASSUME NEW S, NEW s \in Seq(S)
  PROVE  <<>> \in Seq(S) /\ IsPrefix(<<>>, s)
<1>1. <<>> \in Seq(S) /\ Len(<<>>) = 0
  OBVIOUS
<1>2. ASSUME NEW e \in Seq(S), Len(e) = 0 PROVE IsPrefix(e, s)
  <2>1. Len(e) <= Len(s) /\ \A i \in 1 .. Len(e) : e[i] = s[i]
    BY <1>2
  <2> QED BY <2>1, BelowMeans
<1> QED BY <1>1, <1>2

\* There is a shortest directory.
LEMMA ShortestExists ==
  ASSUME NEW D, NEW dirs \in SUBSET Seq(D), dirs # {}
  PROVE  /\ Shortest(dirs) \in dirs
         /\ \A x \in dirs : Len(x) >= Len(Shortest(dirs))
<1> DEFINE T == {Len(d) : d \in dirs}
<1>1. T \in SUBSET Nat /\ T # {}
  <2>1. \A d \in dirs : Len(d) \in Nat
    OBVIOUS
  <2> QED BY <2>1
<1>2. PICK n \in T : \A m \in T : n <= m
  <2> HIDE DEF T
  <2> QED BY <1>1, LeastNat
<1>3. \E d \in dirs : \A x \in dirs : Len(x) >= Len(d)
  BY <1>2
<1> QED BY <1>3 DEF Shortest

\* Among directories above a file there is a longest, which all others are
\* above: the nearest.
LEMMA LongestExists ==
  ASSUME NEW D, NEW f \in Seq(D), NEW dirs \in SUBSET {d \in Seq(D) : IsPrefix(d, f)}, dirs # {}
  PROVE  /\ Longest(dirs) \in dirs
         /\ \A x \in dirs : Len(x) <= Len(Longest(dirs))
         /\ \A x \in dirs : IsPrefix(x, Longest(dirs))
<1> DEFINE T == {Len(f) - Len(d) : d \in dirs}
<1>1. \A d \in dirs : d \in Seq(D) /\ IsPrefix(d, f) /\ Len(d) \in Nat /\ Len(d) <= Len(f)
  BY BelowOrders
<1>2. T \in SUBSET Nat /\ T # {}
  BY <1>1
<1>3. PICK n \in T : \A m \in T : n <= m
  <2> HIDE DEF T
  <2> QED BY <1>2, LeastNat
<1>4. PICK d \in dirs : n = Len(f) - Len(d)
  OBVIOUS
<1>5. \A x \in dirs : Len(x) <= Len(d)
  <2>1. \A x \in dirs : Len(f) - Len(d) <= Len(f) - Len(x)
    BY <1>3, <1>4
  <2> HIDE DEF T
  <2> QED BY <1>1, <2>1
<1>6. /\ Longest(dirs) \in dirs
      /\ \A x \in dirs : Len(x) <= Len(Longest(dirs))
  BY <1>4, <1>5 DEF Longest
<1>7. \A x \in dirs : IsPrefix(x, Longest(dirs))
  BY <1>1, <1>6, BelowOrders
<1> QED BY <1>6, <1>7

-----------------------------------------------------------------------------
\* Which module a source file belongs to.

\* Trees whose directories are such, none named like the absence of a name.
IsTree(t) ==
  /\ DOMAIN t.maven \cup DOMAIN t.gradle \cup t.sources \cup t.mains \subseteq Directories

\* A module that declares no name has that of its directory, never none.
LEMMA NamesAreDeclared ==
  ASSUME NEW declared, NEW dir \in Directories
  PROVE  NameOr(declared, dir) # Undeclared
<1>1. DirName(dir) \in Names \cup {"root"}
  <2>1. CASE dir = <<>>
    BY <2>1 DEF DirName
  <2>2. CASE dir # <<>>
    <3>1. Len(dir) \in 1 .. Len(dir) /\ dir[Len(dir)] \in Names
      BY <2>2 DEF Directories
    <3> QED BY <2>2, <3>1 DEF DirName, Last
  <2> QED BY <2>1, <2>2
<1> QED BY <1>1, AttributionAssumption DEF NameOr

\* What discover_modules finds: a directory with a build file, within the
\* depth or the root, one module for a directory.
LEMMA FoundAre ==
  ASSUME NEW t, IsTree(t), NEW m \in DiscoverModules(t)
  PROVE  /\ m.path \in Directories
         /\ WithinDepth(m.path) \/ m.path = <<>>
         /\ m.path \in DOMAIN t.maven \cup DOMAIN t.gradle
         /\ m.build = "maven" => m.path \in DOMAIN t.maven /\ m.name = MavenName(t, m.path)
         /\ \A n \in DiscoverModules(t) : n.path = m.path => n = m
BY DEF IsTree, DiscoverModules, MavenModules, GradleModules

\* At most one module found holds a source: of two above it the one further
\* down takes it from the other.
LEMMA OneHolder ==
  ASSUME NEW t, IsTree(t), NEW f \in t.sources
  PROVE  Cardinality({m \in DiscoverModules(t) : OwnsFile(m, DiscoverModules(t), f)}) <= 1
<1> DEFINE found == DiscoverModules(t)
           H == {m \in found : OwnsFile(m, found, f)}
<1>1. ASSUME NEW m \in H, NEW n \in H PROVE m = n
  <2>1. /\ m.path \in Seq(Names) /\ n.path \in Seq(Names) /\ f \in Seq(Names)
        /\ n.path = m.path => n = m
    BY FoundAre DEF Directories, IsTree
  <2>2. IsPrefix(m.path, f) /\ IsPrefix(n.path, f)
    BY DEF OwnsFile, Below
  <2>3. IsPrefix(m.path, n.path) \/ IsPrefix(n.path, m.path)
    BY <2>1, <2>2, BelowOrders
  <2>4. m.path = n.path
    BY <2>2, <2>3 DEF OwnsFile, Below
  <2> QED BY <2>1, <2>4
<1>2. H = {} \/ \E m \in H : H = {m}
  <2> HIDE DEF H
  <2> QED BY <1>1
<1>3. Cardinality(H) <= 1
  <2> HIDE DEF H
  <2>1. CASE H = {}
    <3>1. Cardinality(H) = 0
      BY <2>1, FS_EmptySet
    <3> QED BY <3>1
  <2>2. ASSUME NEW m \in H, H = {m} PROVE Cardinality(H) <= 1
    <3>1. Cardinality({m}) = 1
      BY FS_Singleton
    <3> QED BY <2>2, <3>1
  <2> QED BY <1>2, <2>1, <2>2
<1> QED BY <1>3

\* With a pom.xml above a source the source is attributed to the nearest.
LEMMA MavenNameIsNearest ==
  ASSUME NEW t, IsTree(t), NEW f \in t.sources, NEW p \in DOMAIN t.maven, Below(p, f),
         \A d \in DOMAIN t.maven : Below(d, f) => Below(d, p)
  PROVE  ModuleForPath(t, f) = MavenName(t, p)
<1> DEFINE above == {d \in DOMAIN t.maven : Below(d, f)}
<1>1. f \in Seq(Names) /\ p \in Seq(Names) /\ DOMAIN t.maven \subseteq Seq(Names)
  BY DEF IsTree, Directories
<1>2. above \in SUBSET {d \in Seq(Names) : IsPrefix(d, f)} /\ p \in above
  BY <1>1 DEF Below
<1>3. Longest(above) \in above /\ Len(p) <= Len(Longest(above))
  <2> HIDE DEF above
  <2> QED BY <1>1, <1>2, LongestExists
<1>4. Longest(above) = p
  <2>1. IsPrefix(Longest(above), p) /\ Longest(above) \in Seq(Names)
    BY <1>1, <1>3 DEF Below
  <2> HIDE DEF above
  <2> QED BY <1>1, <1>3, <2>1, BelowOrders
<1>5. MavenModuleForPath(t, f) = MavenName(t, p)
  BY <1>2, <1>4 DEF MavenModuleForPath
<1>6. MavenName(t, p) # Undeclared
  BY <1>1, NamesAreDeclared DEF MavenName, Directories
<1> QED BY <1>5, <1>6 DEF ModuleForPath

\* The Gradle services above a source are the builds, within the depth, with a
\* main class that no build nested in it has.
LEMMA GradleServicesAre ==
  ASSUME NEW t, IsTree(t), NEW f \in t.sources
  PROVE  {r \in GradleServiceRoots(t) : Below(r, f)} =
           {d \in DOMAIN t.gradle : /\ Below(d, f) /\ WithinDepth(d)
                                    /\ \E x \in t.mains :
                                         /\ Below(d, x)
                                         /\ ~\E n \in DOMAIN t.gradle \ {d} :
                                               Below(d, n) /\ Below(n, x)}
<1> DEFINE Above(x) == {d \in DOMAIN t.gradle : Below(d, x)}
           Nearest(d, x) == /\ d \in DOMAIN t.gradle /\ Below(d, x)
                            /\ ~\E n \in DOMAIN t.gradle \ {d} : Below(d, n) /\ Below(n, x)
<1>1. ASSUME NEW x \in t.mains, Above(x) # {}
      PROVE  /\ Nearest(Longest(Above(x)), x)
             /\ \A d : Nearest(d, x) => d = Longest(Above(x))
  <2>1. x \in Seq(Names) /\ DOMAIN t.gradle \subseteq Seq(Names)
    BY DEF IsTree, Directories
  <2>2. Above(x) \in SUBSET {d \in Seq(Names) : IsPrefix(d, x)}
    BY <2>1 DEF Below
  <2> DEFINE l == Longest(Above(x))
  <2>3. l \in Above(x) /\ \A d \in Above(x) : IsPrefix(d, l) /\ Len(d) <= Len(l)
    <3> DEFINE A == Above(x)
    <3>1. A \in SUBSET {d \in Seq(Names) : IsPrefix(d, x)} /\ A # {}
      BY <1>1, <2>2
    <3>2. Longest(A) \in A /\ \A d \in A : IsPrefix(d, Longest(A)) /\ Len(d) <= Len(Longest(A))
      <4> HIDE DEF A
      <4> QED BY <2>1, <3>1, LongestExists
    <3> QED BY <3>2
  <2> HIDE DEF l
  <2>4. ASSUME NEW n \in DOMAIN t.gradle, Below(l, n), Below(n, x) PROVE n = l
    BY <2>1, <2>3, <2>4, BelowOrders DEF Below
  <2>5. ASSUME NEW d, Nearest(d, x) PROVE d = l
    BY <2>3, <2>5 DEF Below
  <2>6. Nearest(l, x)
    BY <2>3, <2>4
  <2> QED BY <2>5, <2>6 DEF l
<1>2. ASSUME NEW x \in t.mains, NEW d, Nearest(d, x) PROVE Above(x) # {}
  BY <1>2
<1>3. GradleServiceRoots(t) =
        {r \in {Longest(Above(x)) : x \in {y \in t.mains : Above(y) # {}}} : WithinDepth(r)}
  BY DEF GradleServiceRoots
<1>4. ASSUME NEW r PROVE r \in {Longest(Above(x)) : x \in {y \in t.mains : Above(y) # {}}}
                           <=> \E x \in t.mains : Nearest(r, x)
  <2> HIDE DEF Nearest, Above
  <2> QED BY <1>1, <1>2
<1> HIDE DEF Above
<1> QED BY <1>3, <1>4

\* Without a pom.xml above it a source is attributed to the outermost Gradle
\* service, or to none.
LEMMA GradleNameIsOutermost ==
  ASSUME NEW t, IsTree(t), NEW f \in t.sources,
         \A d \in DOMAIN t.maven : ~Below(d, f),
         NEW services, services = {r \in GradleServiceRoots(t) : Below(r, f)}
  PROVE  IF services = {} THEN ModuleForPath(t, f) = Undeclared
         ELSE \E d \in services : /\ ModuleForPath(t, f) = GradleName(t, d)
                                  /\ \A x \in services : Below(d, x)
<1>1. ModuleForPath(t, f) = IF services = {} THEN Undeclared ELSE GradleName(t, Shortest(services))
  BY DEF ModuleForPath, MavenModuleForPath, GradleServiceForPath
<1>2. services \in SUBSET Seq(Names) /\ f \in Seq(Names)
  BY GradleServicesAre DEF IsTree, Directories
<1>3. ASSUME services # {} PROVE Shortest(services) \in services /\ \A x \in services : Below(Shortest(services), x)
  <2>1. Shortest(services) \in services /\ \A x \in services : Len(x) >= Len(Shortest(services))
    BY <1>2, <1>3, ShortestExists
  <2>2. \A x \in services : IsPrefix(x, f) /\ x \in Seq(Names)
    BY <1>2 DEF Below
  <2> QED BY <1>2, <2>1, <2>2, BelowOrders DEF Below
<1> QED BY <1>1, <1>3

\* A source of a module that is not indexed is below an excluded path: a
\* module of tests, of mocks or an archetype.
LEMMA SkippedMeansExcluded ==
  ASSUME NEW t, IsTree(t), NEW m \in DiscoverModules(t), NEW f \in t.sources,
         Below(m.path, f), ~IsIndexed(t, f)
  PROVE  \E d \in ExcludedModulePaths(t) : Below(d, f)
<1> SUFFICES ASSUME \A d \in ExcludedModulePaths(t) : ~Below(d, f) PROVE FALSE
  OBVIOUS
<1>1. NestedBuildRoots(t) # {} /\ \A r \in NestedBuildRoots(t) : ~Below(r, f)
  BY DEF IsIndexed
<1> DEFINE built == {d \in DOMAIN t.maven \cup DOMAIN t.gradle : Len(d) <= MaxRootDepth}
           around == {d \in built : Below(d, m.path)}
<1>2. f \in Seq(Names) /\ built \in SUBSET Seq(Names) /\ m.path \in Seq(Names)
  BY FoundAre DEF IsTree, Directories
<1>3. m.path \in built
  <2>1. Len(m.path) \in Nat /\ (WithinDepth(m.path) \/ m.path = <<>>)
    BY <1>2, FoundAre
  <2>2. Len(m.path) <= MaxRootDepth
    <3>1. CASE WithinDepth(m.path)
      BY <2>1, <3>1, AttributionAssumption, DepthAssumption DEF WithinDepth
    <3>2. CASE m.path = <<>>
      BY <3>2, DepthAssumption
    <3> QED BY <2>1, <3>1, <3>2
  <2> QED BY <2>2, FoundAre
<1>4. <<>> \notin built /\ NestedBuildRoots(t) = {d \in built : ~\E x \in built : x # d /\ Below(x, d)}
  BY <1>1 DEF NestedBuildRoots
<1>5. around \in SUBSET Seq(Names) /\ m.path \in around
  BY <1>2, <1>3, BelowOrders DEF Below
<1> DEFINE r == Shortest(around)
<1>6. r \in around /\ \A x \in around : Len(x) >= Len(r)
  <2> HIDE DEF around
  <2> QED BY <1>5, ShortestExists
<1>7. r \in built /\ r \in Seq(Names) /\ Below(r, m.path)
  BY <1>2, <1>6
<1> HIDE DEF r
<1>8. ASSUME NEW x \in built, Below(x, r) PROVE x = r
  <2>1. x \in Seq(Names) /\ Below(x, m.path)
    BY <1>2, <1>7, <1>8, BelowOrders DEF Below
  <2>2. Len(x) >= Len(r)
    BY <1>6, <2>1
  <2> QED BY <1>7, <1>8, <2>1, <2>2, BelowOrders DEF Below
<1>9. r \in NestedBuildRoots(t)
  BY <1>4, <1>7, <1>8
<1>10. Below(r, f)
  BY <1>2, <1>7, BelowOrders DEF Below
<1> QED BY <1>1, <1>9, <1>10

\* The inductive invariant of AttributionSpec: an answer is what module
\* attribution returns for one of the trees.
AttributionInv ==
  /\ asked = "modules" /\ about \in Trees
  /\ answered => answer = Attributed(about)

\* What module attribution returns is what FilesAreAttributed says of it.
LEMMA AttributionAnswers == AttributionInv => FilesAreAttributed
<1> SUFFICES ASSUME AttributionInv, Answered("modules") PROVE FilesAreAttributed
  BY DEF FilesAreAttributed
<1> DEFINE t == about
           found == DiscoverModules(t)
<1>1. IsTree(t) /\ answer = Attributed(t)
  BY AttributionAssumption DEF AttributionInv, Answered, IsTree
<1>2. /\ answer.found = found
      /\ DOMAIN answer.names = {x \in t.sources : IsIndexed(t, x)}
      /\ \A f \in DOMAIN answer.names : answer.names[f] = ModuleForPath(t, f)
  BY <1>1 DEF Attributed
<1> DEFINE built == DOMAIN t.maven \cup DOMAIN t.gradle
           Around(f) == {d \in built : Below(d, f)}
           Holders(f) == {m \in found : OwnsFile(m, found, f)}
           Nearest(f, m) == \A d \in Around(f) : Below(d, m.path)
           Serves(d) == \E x \in t.mains :
                           /\ Below(d, x)
                           /\ ~\E n \in DOMAIN t.gradle \ {d} : Below(d, n) /\ Below(n, x)
           Services(f) == {d \in Around(f) \cap DOMAIN t.gradle : WithinDepth(d) /\ Serves(d)}
<1>3. ASSUME NEW f \in t.sources PROVE Cardinality(Holders(f)) <= 1
  BY <1>1, OneHolder
<1>4. ASSUME NEW f \in t.sources, NEW m \in Holders(f), Nearest(f, m), m.build = "maven"
      PROVE  ModuleForPath(t, f) = m.name
  <2>1. m \in found /\ Below(m.path, f)
    BY DEF OwnsFile
  <2>2. m.path \in DOMAIN t.maven /\ m.name = MavenName(t, m.path)
    BY <1>1, <1>4, <2>1, FoundAre
  <2> QED BY <1>1, <1>4, <2>1, <2>2, MavenNameIsNearest
<1>5. ASSUME NEW f \in t.sources, Around(f) \cap DOMAIN t.maven = {}
      PROVE  IF Services(f) = {} THEN ModuleForPath(t, f) = Undeclared
             ELSE \E d \in Services(f) : /\ ModuleForPath(t, f) = GradleName(t, d)
                                         /\ \A x \in Services(f) : Below(d, x)
  <2>1. Services(f) = {r \in GradleServiceRoots(t) : Below(r, f)}
    BY <1>1, GradleServicesAre
  <2>2. \A d \in DOMAIN t.maven : ~Below(d, f)
    BY <1>5
  <2> DEFINE S == Services(f)
  <2>3. S = {r \in GradleServiceRoots(t) : Below(r, f)}
    BY <2>1
  <2> HIDE DEF S
  <2>4. IF S = {} THEN ModuleForPath(t, f) = Undeclared
        ELSE \E d \in S : /\ ModuleForPath(t, f) = GradleName(t, d)
                          /\ \A x \in S : Below(d, x)
    BY <1>1, <2>2, <2>3, GradleNameIsOutermost
  <2> QED BY <2>4 DEF S
<1>6. ASSUME NEW m \in found, NEW f \in t.sources, Below(m.path, f), f \notin DOMAIN answer.names
      PROVE  \E d \in ExcludedModulePaths(t) : Below(d, f)
  BY <1>1, <1>2, <1>6, SkippedMeansExcluded
<1> HIDE DEF found
<1>7. /\ \A f \in DOMAIN answer.names :
           /\ Cardinality(Holders(f)) <= 1
           /\ \A m \in Holders(f) :
                Nearest(f, m) /\ m.build = "maven" => answer.names[f] = m.name
           /\ Around(f) \cap DOMAIN t.maven = {} =>
                IF Services(f) = {} THEN answer.names[f] = Undeclared
                ELSE \E d \in Services(f) : /\ answer.names[f] = GradleName(t, d)
                                            /\ \A x \in Services(f) : Below(d, x)
      /\ \A m \in found, f \in t.sources :
           Below(m.path, f) /\ f \notin DOMAIN answer.names =>
             \E d \in ExcludedModulePaths(t) : Below(d, f)
  <2> HIDE DEF Holders, Nearest, Around, Services
  <2> QED BY <1>2, <1>3, <1>4, <1>5, <1>6
<1> QED BY <1>2, <1>7 DEF FilesAreAttributed

\* Every source that is indexed belongs to the module of its nearest pom.xml,
\* else of the outermost Gradle service around it, and a source that is not
\* indexed is outside the modules or below an excluded one, for every tree and
\* every depth (discover_modules, _module_for_path,
\* discover_excluded_module_paths).
THEOREM FilesAlwaysAttributed == AttributionSpec => []FilesAreAttributed
<1>1. AttributionInit => AttributionInv
  BY DEF AttributionInit, Ask, AttributionInv
<1>2. AttributionInv /\ [AttributionNext]_vars => AttributionInv'
  BY DEF AttributionInv, AttributionNext, AttributeFiles, Answer, vars
<1> QED BY <1>1, <1>2, AttributionAnswers, PTL DEF AttributionSpec

-----------------------------------------------------------------------------
\* Which requests a pattern stands for, and which a gateway forwards.

\* A pattern that ends in **.
IsDeep(p) == p # <<>> /\ Last(p) = Deep

\* The number of segments before it.
Fixed(p) == IF IsDeep(p) THEN Len(p) - 1 ELSE Len(p)

\* Whether a request fits a pattern.
Fits(p, x) ==
  /\ IF IsDeep(p) THEN Len(x) > Fixed(p) ELSE Len(x) = Fixed(p)
  /\ \A i \in 1 .. Fixed(p) : p[i] \in {Template, x[i]}

\* When the patterns of a call and of a route have a request in common.
Overlap(c, s) ==
  /\ ~IsDeep(c) => IF IsDeep(s) THEN Fixed(c) > Fixed(s) ELSE Fixed(c) = Fixed(s)
  /\ ~IsDeep(s) /\ IsDeep(c) => Fixed(s) > Fixed(c)
  /\ \A i \in 1 .. Fixed(c) : i <= Fixed(s) => SegmentMatches(c[i], s[i])

\* The members of BoundedSeq.
LEMMA BoundedSeqs ==
  ASSUME NEW S, NEW n \in Nat, NEW x
  PROVE  x \in BoundedSeq(S, n) <=> x \in Seq(S) /\ Len(x) <= n
<1>1. ASSUME x \in BoundedSeq(S, n) PROVE x \in Seq(S) /\ Len(x) <= n
  <2>1. PICK m \in 0 .. n : x \in [1 .. m -> S]
    BY <1>1 DEF BoundedSeq, SeqOf
  <2>2. m \in Nat /\ m <= n
    OBVIOUS
  <2>3. x \in Seq(S) /\ Len(x) = m
    BY <2>1, <2>2
  <2> QED BY <2>2, <2>3
<1>2. ASSUME x \in Seq(S), Len(x) <= n PROVE x \in BoundedSeq(S, n)
  <2>1. x \in [1 .. Len(x) -> S] /\ Len(x) \in 0 .. n
    BY <1>2
  <2> QED BY <2>1 DEF BoundedSeq, SeqOf
<1> QED BY <1>1, <1>2

\* Patterns are sequences of words and templates, of at most MaxSegments.
LEMMA PatternsAre ==
  ASSUME NEW p \in Patterns
  PROVE  /\ p \in Seq(Words \cup {Template}) /\ Len(p) \in Nat /\ Len(p) <= MaxSegments
         /\ IsDeep(p) => Len(p) > 0 /\ p[Len(p)] = Deep
         /\ ~IsDeep(p) /\ Len(p) > 0 => p[Len(p)] # Deep
         /\ Fixed(p) \in Nat /\ Fixed(p) <= Len(p)
         /\ \A i \in 1 .. Len(p) : p[i] \in Words \cup {Template}
<1>1. p \in Seq(Words \cup {Template}) /\ Len(p) \in Nat /\ Len(p) <= MaxSegments
  BY BoundedSeqs, RoutingAssumption DEF Patterns
<1>2. /\ \A i \in 1 .. Len(p) : p[i] \in Words \cup {Template}
      /\ p # <<>> => Len(p) > 0
      /\ p = <<>> => Len(p) = 0
  BY <1>1
<1> QED BY <1>1, <1>2 DEF IsDeep, Fixed, Last

\* The language of a pattern is the requests that fit it.
LEMMA LanguageFits ==
  ASSUME NEW p \in Patterns, NEW x
  PROVE  x \in Language[p] <=> x \in Seq(Words) /\ Len(x) <= MaxSegments /\ Fits(p, x)
<1>1. x \in Language[p] <=> x \in BoundedSeq(Words, MaxSegments) /\ Fits(p, x)
  BY DEF Language, Fits, Fixed, IsDeep
<1> QED BY <1>1, BoundedSeqs, RoutingAssumption

\* Two patterns have a request in common exactly when they overlap: a common
\* request is built segment by segment.
LEMMA LanguagesMeet ==
  ASSUME NEW c \in Patterns, NEW s \in Patterns
  PROVE  Language[c] \cap Language[s] # {} <=> Overlap(c, s)
<1> DEFINE f == Fixed(c)
           g == Fixed(s)
<1>0. /\ f \in Nat /\ g \in Nat /\ f <= Len(c) /\ g <= Len(s)
      /\ Len(c) \in Nat /\ Len(s) \in Nat /\ Len(c) <= MaxSegments /\ Len(s) <= MaxSegments
      /\ IsDeep(c) => f + 1 = Len(c)
      /\ IsDeep(s) => g + 1 = Len(s)
      /\ \A i \in 1 .. f : c[i] \in Words \cup {Template}
      /\ \A i \in 1 .. g : s[i] \in Words \cup {Template}
      /\ MaxSegments \in Nat
  BY PatternsAre, RoutingAssumption DEF Fixed
<1> HIDE DEF f, g
<1>1. ASSUME NEW x \in Language[c] \cap Language[s] PROVE Overlap(c, s)
  <2>1. Fits(c, x) /\ Fits(s, x) /\ Len(x) \in Nat
    BY LanguageFits
  <2>2. \A i \in 1 .. f : i <= g => SegmentMatches(c[i], s[i])
    <3> SUFFICES ASSUME NEW i \in 1 .. f, i <= g PROVE SegmentMatches(c[i], s[i])
      OBVIOUS
    <3>1. i \in 1 .. g
      BY <1>0
    <3>2. c[i] \in {Template, x[i]} /\ s[i] \in {Template, x[i]}
      BY <2>1, <3>1 DEF Fits, f, g
    <3> QED BY <3>2 DEF SegmentMatches
  <2> QED BY <1>0, <2>1, <2>2 DEF Overlap, Fits, f, g
<1>2. ASSUME Overlap(c, s) PROVE \E x : x \in Language[c] /\ x \in Language[s]
  <2> DEFINE longest == IF f <= g THEN g ELSE f
             n == IF IsDeep(c) /\ IsDeep(s) THEN longest + 1 ELSE longest
             seg(i) == IF i <= f /\ c[i] # Template THEN c[i]
                       ELSE IF i <= g /\ s[i] # Template THEN s[i] ELSE Deep
             x == [i \in 1 .. n |-> seg(i)]
  <2>1. n \in Nat /\ f <= n /\ g <= n /\ n <= MaxSegments
    BY <1>0
  <2>2. ASSUME NEW i \in 1 .. n PROVE seg(i) \in Words
    <3>1. (i <= f => i \in 1 .. f) /\ (i <= g => i \in 1 .. g)
      BY <1>0, <2>1
    <3> QED BY <1>0, <3>1, RoutingAssumption
  <2>3. x \in [1 .. n -> Words] /\ \A i \in 1 .. n : x[i] = seg(i)
    BY <2>2
  <2> HIDE DEF x
  <2>4. x \in Seq(Words) /\ Len(x) = n
    BY <2>1, <2>3
  <2>5. /\ ~IsDeep(c) => IF IsDeep(s) THEN f > g ELSE f = g
        /\ ~IsDeep(s) /\ IsDeep(c) => g > f
        /\ \A i \in 1 .. f : i <= g => SegmentMatches(c[i], s[i])
    BY <1>2 DEF Overlap, f, g
  <2>6. /\ IF IsDeep(c) THEN n > f ELSE n = f
        /\ IF IsDeep(s) THEN n > g ELSE n = g
    BY <1>0, <2>5
  <2>7. ASSUME NEW i \in 1 .. f PROVE c[i] \in {Template, x[i]}
    <3>1. i \in 1 .. n /\ i <= f
      BY <1>0, <2>1
    <3> QED BY <2>3, <3>1
  <2>8. ASSUME NEW i \in 1 .. g PROVE s[i] \in {Template, x[i]}
    <3>1. i \in 1 .. n /\ i <= g /\ (i <= f => i \in 1 .. f)
      BY <1>0, <2>1
    <3>2. CASE i <= f
      <4>1. SegmentMatches(c[i], s[i])
        BY <2>5, <3>1, <3>2
      <4> QED BY <2>3, <3>1, <3>2, <4>1 DEF SegmentMatches
    <3>3. CASE ~(i <= f)
      BY <2>3, <3>1, <3>3
    <3> QED BY <3>2, <3>3
  <2>9. Fits(c, x)
    BY <2>4, <2>6, <2>7 DEF Fits, f
  <2>10. Fits(s, x)
    BY <2>4, <2>6, <2>8 DEF Fits, g
  <2>11. x \in Language[c] /\ x \in Language[s]
    BY <2>1, <2>4, <2>9, <2>10, LanguageFits
  <2> QED BY <2>11
<1> QED BY <1>1, <1>2

\* What paths_match and _matches_wildcard_path test is whether the patterns overlap.
LEMMA MatchIsOverlap ==
  ASSUME NEW c \in Patterns, NEW s \in Patterns, c # <<>>
  PROVE  (\/ CoversPath(c, s) \/ CoversPath(s, c)
          \/ Len(c) = Len(s) /\ \A i \in DOMAIN c : SegmentMatches(c[i], s[i]))
         <=> Overlap(c, s)
<1> DEFINE Same == Len(c) = Len(s) /\ \A i \in DOMAIN c : SegmentMatches(c[i], s[i])
<1>0. /\ Len(c) \in Nat /\ Len(s) \in Nat /\ Len(c) > 0
      /\ DOMAIN c = 1 .. Len(c)
      /\ \A a, b : SegmentMatches(a, b) <=> SegmentMatches(b, a)
      /\ IsDeep(s) => Len(s) > 0
  BY PatternsAre DEF SegmentMatches
<1>1. CoversPath(c, s) <=> /\ IsDeep(c) /\ Len(s) >= Len(c)
                           /\ \A i \in 1 .. Len(c) - 1 : SegmentMatches(c[i], s[i])
  BY <1>0 DEF CoversPath, IsDeep
<1>2. CoversPath(s, c) <=> /\ IsDeep(s) /\ Len(c) >= Len(s)
                           /\ \A i \in 1 .. Len(s) - 1 : SegmentMatches(c[i], s[i])
  BY <1>0 DEF CoversPath, IsDeep
<1>3. CASE IsDeep(c) /\ IsDeep(s)
  <2>1. Fixed(c) = Len(c) - 1 /\ Fixed(s) = Len(s) - 1
    BY <1>3 DEF Fixed
  <2>2. Overlap(c, s) <=> \A i \in 1 .. Len(c) - 1 : i <= Len(s) - 1 => SegmentMatches(c[i], s[i])
    BY <1>3, <2>1 DEF Overlap
  <2>3. CASE Len(s) >= Len(c)
    <3>1. Overlap(c, s) <=> CoversPath(c, s)
      BY <1>0, <1>1, <1>3, <2>2, <2>3
    <3>2. CoversPath(s, c) => CoversPath(c, s)
      BY <1>0, <1>1, <1>2, <1>3, <2>3
    <3>3. Same => CoversPath(c, s)
      BY <1>0, <1>1, <1>3, <2>3
    <3> QED BY <3>1, <3>2, <3>3
  <2>4. CASE Len(c) > Len(s)
    <3>1. Overlap(c, s) <=> CoversPath(s, c)
      BY <1>0, <1>2, <1>3, <2>2, <2>4
    <3> QED BY <1>0, <1>1, <2>4, <3>1
  <2> QED BY <1>0, <2>3, <2>4
<1>4. CASE IsDeep(c) /\ ~IsDeep(s)
  <2>1. Fixed(c) = Len(c) - 1 /\ Fixed(s) = Len(s)
    BY <1>4 DEF Fixed
  <2>2. Overlap(c, s) <=> /\ Len(s) > Len(c) - 1
                          /\ \A i \in 1 .. Len(c) - 1 : i <= Len(s) => SegmentMatches(c[i], s[i])
    BY <1>4, <2>1 DEF Overlap
  <2>3. Overlap(c, s) <=> CoversPath(c, s)
    BY <1>0, <1>1, <1>4, <2>2
  <2>4. Same => CoversPath(c, s)
    BY <1>0, <1>1, <1>4
  <2> QED BY <1>2, <1>4, <2>3, <2>4
<1>5. CASE ~IsDeep(c) /\ IsDeep(s)
  <2>1. Fixed(c) = Len(c) /\ Fixed(s) = Len(s) - 1
    BY <1>5 DEF Fixed
  <2>2. Overlap(c, s) <=> /\ Len(c) > Len(s) - 1
                          /\ \A i \in 1 .. Len(c) : i <= Len(s) - 1 => SegmentMatches(c[i], s[i])
    BY <1>5, <2>1 DEF Overlap
  <2>3. Overlap(c, s) <=> CoversPath(s, c)
    BY <1>0, <1>2, <1>5, <2>2
  <2>4. Same => CoversPath(s, c)
    BY <1>0, <1>2, <1>5
  <2> QED BY <1>1, <1>5, <2>3, <2>4
<1>6. CASE ~IsDeep(c) /\ ~IsDeep(s)
  <2>1. Fixed(c) = Len(c) /\ Fixed(s) = Len(s)
    BY <1>6 DEF Fixed
  <2>2. Overlap(c, s) <=> /\ Len(c) = Len(s)
                          /\ \A i \in 1 .. Len(c) : i <= Len(s) => SegmentMatches(c[i], s[i])
    BY <1>6, <2>1 DEF Overlap
  <2>3. Overlap(c, s) <=> Same
    BY <1>0, <2>2
  <2> QED BY <1>1, <1>2, <1>6, <2>3
<1> QED BY <1>3, <1>4, <1>5, <1>6

\* paths_match holds exactly when the methods agree and a request fits both.
LEMMA MatchesMeet ==
  ASSUME NEW r \in Routes
  PROVE  PathsMatch(r.call, r.serve) <=>
           /\ MethodsMatch(r.call, r.serve)
           /\ r.call.path # <<>>
           /\ Language[r.call.path] \cap Language[r.serve.path] # {}
<1> DEFINE c == r.call.path
           s == r.serve.path
<1>1. c \in Patterns /\ s \in Patterns
  BY RoutingAssumption
<1>2. c # Dynamic
  <2>1. Len(c) = 1 => c[1] \in Words \cup {Template}
    BY <1>1, PatternsAre
  <2>2. Dynamic[1] \notin Words \cup {Template} /\ Len(Dynamic) = 1
    BY RoutingAssumption DEF Dynamic, Template
  <2> QED BY <2>1, <2>2
<1>3. PathsMatch(r.call, r.serve) <=>
        /\ MethodsMatch(r.call, r.serve)
        /\ c # <<>>
        /\ \/ CoversPath(c, s) \/ CoversPath(s, c)
           \/ Len(c) = Len(s) /\ \A i \in DOMAIN c : SegmentMatches(c[i], s[i])
  BY <1>2 DEF PathsMatch
<1> QED BY <1>1, <1>3, MatchIsOverlap, LanguagesMeet

\* What StripPrefix leaves of a sequence.
LEMMA TailsAre ==
  ASSUME NEW S, NEW x \in Seq(S), NEW k \in Nat, Len(x) > k
  PROVE  /\ SubSeq(x, k + 1, Len(x)) \in Seq(S)
         /\ Len(SubSeq(x, k + 1, Len(x))) = Len(x) - k
         /\ \A i \in 1 .. Len(x) - k : SubSeq(x, k + 1, Len(x))[i] = x[k + i]
<1>1. Len(x) \in Nat /\ k + 1 \in Int
  OBVIOUS
<1>2. \A i \in 1 .. Len(x) - k : SubSeq(x, k + 1, Len(x))[i] = x[k + i]
  BY <1>1
<1>3. Len(SubSeq(x, k + 1, Len(x))) = Len(x) - k
  BY <1>1
<1> QED BY <1>1, <1>2, <1>3

\* Each request of p has its tail in c, and each of c is the tail of one.
Forwards(p, k, c) ==
  /\ \A x \in Language[p] : Len(x) > k => SubSeq(x, k + 1, Len(x)) \in Language[c]
  /\ \A y \in Language[c] : Len(y) + k <= MaxSegments =>
       \E x \in Language[p] : Len(x) > k /\ SubSeq(x, k + 1, Len(x)) = y

\* The tail of a pattern stands for the tails of its requests.
LEMMA TailFits ==
  ASSUME NEW p \in Patterns, NEW k \in Nat, Len(p) > k,
         NEW c, c = SubSeq(p, k + 1, Len(p))
  PROVE  Forwards(p, k, c)
<1>1. /\ p \in Seq(Words \cup {Template}) /\ Len(p) \in Nat /\ Len(p) <= MaxSegments
      /\ \A i \in 1 .. Len(p) : p[i] \in Words \cup {Template}
      /\ MaxSegments \in Nat
  BY PatternsAre, RoutingAssumption
<1>2. /\ c \in Seq(Words \cup {Template}) /\ Len(c) = Len(p) - k
      /\ \A i \in 1 .. Len(p) - k : c[i] = p[k + i]
  BY <1>1, TailsAre
<1>3. c \in Patterns /\ c # <<>>
  <2>1. Len(c) <= MaxSegments /\ Len(c) > 0
    BY <1>1, <1>2
  <2>2. c \in Patterns
    <3> DEFINE W == Words \cup {Template}
    <3>1. c \in Seq(W) /\ Len(c) <= MaxSegments /\ MaxSegments \in Nat
      BY <1>1, <1>2, <2>1
    <3> HIDE DEF W
    <3>2. c \in BoundedSeq(W, MaxSegments)
      BY <3>1, BoundedSeqs
    <3> QED BY <3>2 DEF Patterns, W
  <2>3. c # <<>>
    <3>1. c = <<>> => Len(c) = 0
      BY <1>2
    <3> QED BY <2>1, <3>1
  <2> QED BY <2>2, <2>3
<1>4. (IsDeep(p) <=> IsDeep(c)) /\ Fixed(p) = Fixed(c) + k /\ Fixed(c) \in Nat /\ Fixed(c) <= Len(p) - k
      /\ (IsDeep(c) => Fixed(c) + 1 = Len(p) - k)
  <2>1. c[Len(c)] = p[Len(p)]
    <3>1. Len(p) - k \in 1 .. Len(p) - k /\ k + (Len(p) - k) = Len(p)
      BY <1>1
    <3> QED BY <1>2, <3>1
  <2>2. p # <<>>
    BY <1>1
  <2>3. IsDeep(p) <=> IsDeep(c)
    BY <1>3, <2>1, <2>2 DEF IsDeep, Last
  <2>4. Len(p) - k \in Nat /\ Len(p) - k > 0
    BY <1>1
  <2> QED BY <1>1, <1>2, <2>3, <2>4 DEF Fixed
<1>5. ASSUME NEW x \in Language[p], Len(x) > k PROVE SubSeq(x, k + 1, Len(x)) \in Language[c]
  <2> DEFINE y == SubSeq(x, k + 1, Len(x))
  <2>1. x \in Seq(Words) /\ Len(x) <= MaxSegments /\ Fits(p, x) /\ Len(x) \in Nat
    BY LanguageFits
  <2>2. y \in Seq(Words) /\ Len(y) = Len(x) - k /\ \A i \in 1 .. Len(x) - k : y[i] = x[k + i]
    BY <1>5, <2>1, TailsAre
  <2> HIDE DEF y
  <2>3. IF IsDeep(p) THEN Len(x) > Fixed(p) ELSE Len(x) = Fixed(p)
    BY <2>1 DEF Fits
  <2>4. IF IsDeep(c) THEN Len(y) > Fixed(c) ELSE Len(y) = Fixed(c)
    BY <1>4, <2>1, <2>2, <2>3
  <2>5. ASSUME NEW i \in 1 .. Fixed(c) PROVE c[i] \in {Template, y[i]}
    <3>1. k + i \in 1 .. Fixed(p) /\ i \in 1 .. Len(p) - k
      BY <1>1, <1>4
    <3>2. i \in 1 .. Len(x) - k
      BY <1>4, <2>1, <2>3, <3>1
    <3>3. p[k + i] \in {Template, x[k + i]}
      BY <2>1, <3>1 DEF Fits
    <3> QED BY <1>2, <2>2, <3>1, <3>2, <3>3
  <2>6. Fits(c, y) /\ Len(y) <= MaxSegments
    <3>1. Fits(c, y)
      BY <2>4, <2>5 DEF Fits
    <3>2. Len(y) <= MaxSegments
      BY <1>1, <2>1, <2>2
    <3> QED BY <3>1, <3>2
  <2>7. y \in Language[c]
    BY <1>3, <2>2, <2>6, LanguageFits
  <2> QED BY <2>7 DEF y
<1>6. ASSUME NEW y \in Language[c], Len(y) + k <= MaxSegments
      PROVE  \E x \in Language[p] : Len(x) > k /\ SubSeq(x, k + 1, Len(x)) = y
  <2>1. y \in Seq(Words) /\ Fits(c, y) /\ Len(y) \in Nat
    BY <1>3, LanguageFits
  <2>2. IF IsDeep(c) THEN Len(y) > Fixed(c) ELSE Len(y) = Fixed(c)
    BY <2>1 DEF Fits
  <2>3. Len(y) > 0
    BY <1>1, <1>2, <1>3, <1>4, <2>1, <2>2 DEF Fixed
  <2> DEFINE n == k + Len(y)
             seg(i) == IF i <= k THEN IF p[i] = Template THEN Deep ELSE p[i] ELSE y[i - k]
             x == [i \in 1 .. n |-> seg(i)]
  <2>4. n \in Nat /\ n > k /\ n <= MaxSegments
    BY <1>6, <2>1, <2>3
  <2>5. ASSUME NEW i \in 1 .. n PROVE seg(i) \in Words
    <3>1. CASE i <= k
      <4>1. i \in 1 .. Len(p)
        BY <1>1, <3>1
      <4> QED BY <1>1, <3>1, <4>1, RoutingAssumption
    <3>2. CASE ~(i <= k)
      <4>1. i - k \in 1 .. Len(y)
        BY <2>1, <3>2
      <4> QED BY <2>1, <3>2, <4>1
    <3> QED BY <3>1, <3>2
  <2>6. x \in [1 .. n -> Words] /\ \A i \in 1 .. n : x[i] = seg(i)
    BY <2>5
  <2> HIDE DEF x
  <2>7. x \in Seq(Words) /\ Len(x) = n
    <3> HIDE DEF n, seg
    <3> QED BY <2>4, <2>6
  <2>8. SubSeq(x, k + 1, Len(x)) = y
    <3> DEFINE z == SubSeq(x, k + 1, Len(x))
    <3>1. z \in Seq(Words) /\ Len(z) = n - k /\ \A i \in 1 .. n - k : z[i] = x[k + i]
      BY <2>4, <2>7, TailsAre
    <3> HIDE DEF z
    <3>2. n - k = Len(y)
      BY <2>1
    <3>3. ASSUME NEW i \in 1 .. Len(y) PROVE z[i] = y[i]
      <4>1. k + i \in 1 .. n /\ ~(k + i <= k) /\ (k + i) - k = i
        BY <2>1
      <4>2. seg(k + i) = y[i]
        BY <4>1
      <4> HIDE DEF seg, n
      <4> QED BY <2>6, <3>1, <3>2, <4>1, <4>2
    <3>4. z = y
      <4>1. z = [i \in 1 .. Len(y) |-> z[i]] /\ y = [i \in 1 .. Len(y) |-> y[i]]
        BY <2>1, <3>1, <3>2
      <4>2. [i \in 1 .. Len(y) |-> z[i]] = [i \in 1 .. Len(y) |-> y[i]]
        BY <3>3
      <4> QED BY <4>1, <4>2
    <3> QED BY <3>4 DEF z
  <2>9. IF IsDeep(p) THEN Len(x) > Fixed(p) ELSE Len(x) = Fixed(p)
    <3>1. Fixed(c) \in Nat /\ Len(x) = k + Len(y) /\ Fixed(p) = Fixed(c) + k
      BY <1>4, <2>7
    <3> HIDE DEF n
    <3>2. CASE IsDeep(p)
      BY <1>4, <2>1, <2>2, <3>1, <3>2
    <3>3. CASE ~IsDeep(p)
      BY <1>4, <2>1, <2>2, <3>1, <3>3
    <3> QED BY <3>2, <3>3
  <2>10. ASSUME NEW i \in 1 .. Fixed(p) PROVE p[i] \in {Template, x[i]}
    <3>1. i \in 1 .. n
      BY <1>1, <1>4, <2>1, <2>2
    <3>2. CASE i <= k
      BY <2>6, <3>1, <3>2
    <3>3. CASE ~(i <= k)
      <4>1. i - k \in 1 .. Fixed(c) /\ i - k \in 1 .. Len(p) - k /\ k + (i - k) = i
        BY <1>1, <1>4, <3>3
      <4>2. c[i - k] \in {Template, y[i - k]}
        BY <2>1, <4>1 DEF Fits
      <4>3. x[i] = y[i - k] /\ c[i - k] = p[i]
        BY <1>2, <2>6, <3>1, <3>3, <4>1
      <4> QED BY <4>2, <4>3
    <3> QED BY <3>2, <3>3
  <2>11. Fits(p, x)
    BY <2>9, <2>10 DEF Fits
  <2>12. x \in Language[p]
    BY <2>4, <2>7, <2>11, LanguageFits
  <2> QED BY <2>4, <2>7, <2>8, <2>12
<1> QED BY <1>5, <1>6 DEF Forwards

\* A gateway serves the paths of a balanced route, and its calls stand for the
\* tails of the requests that fit them, or for nothing.
LEMMA GatewayForwards ==
  ASSUME NEW g \in GatewayRoutes
  PROVE  LET Played(role) == {e.topic.path : e \in {x \in GatewayEndpoints(g) : x.role = role}}
             TailOf(x) == SubSeq(x, g.strip + 1, Len(x))
             Requests(p) == {x \in Language[p] : Len(x) > g.strip}
             Meets(c, r) == PathsMatch([verb |-> "ANY", path |-> c], r.serve)
         IN  /\ Played("serve") = IF g.balanced THEN g.paths ELSE {}
             /\ \A p \in Played("serve") :
                  IF Len(p) > g.strip
                  THEN \A x \in Requests(p) : \E c \in Played("call") : TailOf(x) \in Language[c]
                  ELSE \E c \in Played("call") : Len(c) = 0 /\ \A r \in Routes : ~Meets(c, r)
             /\ \A c \in Played("call") : \A y \in Language[c] :
                  IF Len(c) = 0 THEN \E p \in Played("serve") : Len(p) <= g.strip
                  ELSE Len(y) + g.strip <= MaxSegments =>
                         \E p \in Played("serve") : \E x \in Requests(p) : TailOf(x) = y
<1> DEFINE answers == GatewayEndpoints(g)
           Played(role) == {e.topic.path : e \in {x \in answers : x.role = role}}
           TailOf(x) == SubSeq(x, g.strip + 1, Len(x))
           Requests(p) == {x \in Language[p] : Len(x) > g.strip}
           AnyOf(role, p) == [role |-> role, topic |-> [verb |-> "ANY", path |-> p]]
           served == IF g.balanced THEN g.paths ELSE {}
<1>1. g.strip \in Nat /\ g.paths \subseteq Patterns
  BY RoutingAssumption
<1>2. \A e : e \in answers <=> \E p \in served : e = AnyOf("serve", p) \/ e = AnyOf("call", TailOf(p))
  BY DEF GatewayEndpoints, StripGatewayPath
<1> HIDE DEF answers
<1>3. Played("serve") = served
  <2>1. ASSUME NEW p \in served PROVE p \in Played("serve")
    <3>1. AnyOf("serve", p) \in answers
      BY <1>2
    <3> QED BY <3>1
  <2>2. ASSUME NEW p \in Played("serve") PROVE p \in served
    <3>1. PICK e \in answers : e.role = "serve" /\ p = e.topic.path
      OBVIOUS
    <3>2. PICK q \in served : e = AnyOf("serve", q) \/ e = AnyOf("call", TailOf(q))
      BY <1>2
    <3> QED BY <3>1, <3>2
  <2> QED BY <2>1, <2>2
<1>4. Played("call") = {TailOf(p) : p \in served}
  <2> HIDE DEF served, TailOf
  <2>1. ASSUME NEW p \in served PROVE TailOf(p) \in Played("call")
    <3>1. AnyOf("call", TailOf(p)) \in answers
      BY <1>2
    <3> QED BY <3>1
  <2>2. ASSUME NEW c \in Played("call") PROVE \E p \in served : c = TailOf(p)
    <3>1. PICK e \in answers : e.role = "call" /\ c = e.topic.path
      OBVIOUS
    <3>2. PICK q \in served : e = AnyOf("serve", q) \/ e = AnyOf("call", TailOf(q))
      BY <1>2
    <3> QED BY <3>1, <3>2
  <2> QED BY <2>1, <2>2
<1> HIDE DEF Played
<1>5. ASSUME NEW p \in served, Len(p) > g.strip, NEW x \in Requests(p)
      PROVE  \E c \in Played("call") : TailOf(x) \in Language[c]
  <2>1. p \in Patterns
    BY <1>1
  <2>2. TailOf(x) \in Language[TailOf(p)]
    BY <1>1, <1>5, <2>1, TailFits DEF Forwards
  <2>3. TailOf(p) \in Played("call")
    BY <1>4
  <2> HIDE DEF TailOf
  <2> QED BY <2>2, <2>3
<1>6. ASSUME NEW p \in served, ~(Len(p) > g.strip)
      PROVE  \E c \in Played("call") :
               Len(c) = 0 /\ \A r \in Routes : ~PathsMatch([verb |-> "ANY", path |-> c], r.serve)
  <2>1. p \in Patterns /\ p \in Seq(Words \cup {Template})
    BY <1>1, PatternsAre
  <2>2. TailOf(p) = <<>>
    BY <1>1, <1>6, <2>1
  <2>3. <<>> \in Played("call")
    BY <1>4, <2>2
  <2>4. ASSUME NEW r PROVE ~PathsMatch([verb |-> "ANY", path |-> <<>>], r.serve)
    BY DEF PathsMatch
  <2> QED BY <2>3, <2>4
<1>7. ASSUME NEW c \in Played("call"), NEW y \in Language[c]
      PROVE  IF Len(c) = 0 THEN \E p \in Played("serve") : Len(p) <= g.strip
             ELSE Len(y) + g.strip <= MaxSegments =>
                    \E p \in Played("serve") : \E x \in Requests(p) : TailOf(x) = y
  <2>1. PICK p \in served : c = TailOf(p)
    BY <1>4
  <2>2. p \in Patterns /\ p \in Seq(Words \cup {Template})
    BY <1>1, PatternsAre
  <2>3. IF Len(p) > g.strip THEN Len(c) > 0 ELSE Len(c) = 0
    BY <1>1, <2>1, <2>2
  <2>4. CASE Len(c) = 0
    <3>1. Len(p) <= g.strip
      BY <1>1, <2>2, <2>3, <2>4
    <3> QED BY <1>3, <2>4, <3>1
  <2>5. CASE Len(c) # 0
    <3>1. ASSUME Len(y) + g.strip <= MaxSegments
          PROVE  \E x \in Language[p] : Len(x) > g.strip /\ SubSeq(x, g.strip + 1, Len(x)) = y
      <4>1. c = SubSeq(p, g.strip + 1, Len(p)) /\ y \in Language[c] /\ Len(p) > g.strip
        BY <2>1, <2>3, <2>5
      <4> HIDE DEF TailOf, served
      <4>2. Forwards(p, g.strip, c)
        BY <1>1, <2>2, <4>1, TailFits
      <4> QED BY <3>1, <4>1, <4>2 DEF Forwards
    <3> QED BY <1>3, <2>5, <3>1
  <2> QED BY <2>4, <2>5
<1> HIDE DEF Requests, TailOf
<1>8. /\ Played("serve") = served
      /\ \A p \in Played("serve") :
           IF Len(p) > g.strip
           THEN \A x \in Requests(p) : \E c \in Played("call") : TailOf(x) \in Language[c]
           ELSE \E c \in Played("call") :
                  Len(c) = 0 /\ \A r \in Routes : ~PathsMatch([verb |-> "ANY", path |-> c], r.serve)
      /\ \A c \in Played("call") : \A y \in Language[c] :
           IF Len(c) = 0 THEN \E p \in Played("serve") : Len(p) <= g.strip
           ELSE Len(y) + g.strip <= MaxSegments =>
                  \E p \in Played("serve") : \E x \in Requests(p) : TailOf(x) = y
  BY <1>3, <1>5, <1>6, <1>7
<1> QED BY <1>8 DEF Played, Requests, TailOf, answers

-----------------------------------------------------------------------------
\* Which service a configured client calls.

\* The only one of a finite set of names, when there is one.
LEMMA OnlyOneIs ==
  ASSUME NEW S, IsFiniteSet(S), NoName \notin S
  PROVE  /\ OnlyOne(S) # NoName <=> S = {OnlyOne(S)}
         /\ OnlyOne(S) # NoName <=> Cardinality(S) = 1
<1>1. Cardinality(S) = 1 <=> \E x : S = {x}
  BY FS_Singleton
<1>2. ASSUME NEW x, S = {x} PROVE OnlyOne(S) = x /\ x # NoName
  BY <1>1, <1>2 DEF OnlyOne
<1>3. CASE Cardinality(S) = 1
  BY <1>1, <1>2, <1>3
<1>4. CASE Cardinality(S) # 1
  <2>1. OnlyOne(S) = NoName
    BY <1>4 DEF OnlyOne
  <2>2. S # {OnlyOne(S)}
    BY <2>1
  <2> QED BY <1>4, <2>1, <2>2
<1> QED BY <1>3, <1>4

\* A bean of a configuration class, as IsCaller has it.
IsBean(b) ==
  IsFiniteSet(b.factories) /\ \A keys \in b.factories : IsFiniteSet(keys) /\ NoName \notin keys

\* The domains that the calls of a bean name, one each.
DomainsOf(b) == {k \in UNION b.factories : {k} \in b.factories}

\* _bean_api_domain tells a domain exactly when the calls of the bean name one.
LEMMA BeanTells ==
  ASSUME NEW b, IsBean(b)
  PROVE  /\ BeanApiDomain(b) # NoName <=> Cardinality(DomainsOf(b)) = 1
         /\ BeanApiDomain(b) # NoName => DomainsOf(b) = {BeanApiDomain(b)}
<1> DEFINE D == {OnlyOne(keys) : keys \in b.factories} \ {NoName}
<1>1. D = DomainsOf(b)
  <2>1. ASSUME NEW k \in D PROVE k \in DomainsOf(b)
    <3>1. PICK keys \in b.factories : k = OnlyOne(keys) /\ k # NoName
      BY <2>1
    <3>2. keys = {k}
      BY <3>1, OnlyOneIs DEF IsBean
    <3> QED BY <3>1, <3>2 DEF DomainsOf
  <2>2. ASSUME NEW k \in DomainsOf(b) PROVE k \in D
    <3>1. {k} \in b.factories /\ IsFiniteSet({k}) /\ NoName # k /\ Cardinality({k}) = 1
      BY <2>2, FS_Singleton DEF IsBean, DomainsOf
    <3>2. OnlyOne({k}) = k
      BY <3>1 DEF OnlyOne
    <3> QED BY <3>1, <3>2
  <2> QED BY <2>1, <2>2
<1>2. IsFiniteSet(D) /\ NoName \notin D
  <2> DEFINE f == [keys \in b.factories |-> OnlyOne(keys)]
             I == {f[keys] : keys \in b.factories}
  <2>1. IsFiniteSet(I)
    <3> HIDE DEF f
    <3> QED BY FiniteImage DEF IsBean
  <2>2. D \in SUBSET I
    OBVIOUS
  <2>3. IsFiniteSet(D)
    BY <2>1, <2>2, FS_Subset
  <2> QED BY <2>3
<1>3. BeanApiDomain(b) = OnlyOne(D)
  BY DEF BeanApiDomain
<1> HIDE DEF D
<1> QED BY <1>1, <1>2, <1>3, OnlyOneIs

\* _rest_configuration_module_root is the only directory, of those with a build
\* file and the root, that is below all others above the source.
LEMMA RootIsNearest ==
  ASSUME NEW D, NEW builds \in SUBSET Seq(D), NEW dir \in Seq(D), NEW t, t.builds = builds
  PROVE  {d \in builds \cup {<<>>} :
            IsPrefix(d, dir) /\ \A x \in builds : IsPrefix(x, dir) => IsPrefix(x, d)} =
           {ConfigurationRoot(t, dir)}
<1> DEFINE above == {d \in builds : IsPrefix(d, dir)}
           P == {d \in builds \cup {<<>>} :
                   IsPrefix(d, dir) /\ \A x \in builds : IsPrefix(x, dir) => IsPrefix(x, d)}
<1>1. <<>> \in Seq(D) /\ IsPrefix(<<>>, dir)
  BY RootHolds
<1>2. CASE above = {}
  <2>1. ConfigurationRoot(t, dir) = <<>>
    BY <1>2 DEF ConfigurationRoot
  <2>2. P = {<<>>}
    BY <1>1, <1>2
  <2> QED BY <2>1, <2>2
<1>3. CASE above # {}
  <2>1. above \in SUBSET {d \in Seq(D) : IsPrefix(d, dir)}
    OBVIOUS
  <2>2. ConfigurationRoot(t, dir) = Longest(above)
    BY <1>3 DEF ConfigurationRoot, Longest
  <2> DEFINE r == Longest(above)
  <2>3. r \in above /\ \A x \in above : IsPrefix(x, r)
    <3> HIDE DEF above
    <3> QED BY <1>3, <2>1, LongestExists
  <2> HIDE DEF r
  <2>4. r \in P
    BY <2>3
  <2>5. ASSUME NEW d \in P PROVE d = r
    <3>1. d \in Seq(D) /\ r \in Seq(D) /\ IsPrefix(r, d) /\ IsPrefix(d, dir)
      BY <1>1, <2>3
    <3>2. IsPrefix(d, r)
      <4>1. CASE d \in builds
        BY <2>3, <3>1, <4>1
      <4>2. CASE d = <<>>
        BY <3>1, <4>2, RootHolds
      <4> QED BY <4>1, <4>2
    <3>3. Len(d) <= Len(r)
      BY <3>1, <3>2, BelowOrders
    <3> QED BY <3>1, <3>3, BelowOrders
  <2> QED BY <2>2, <2>4, <2>5 DEF r
<1> QED BY <1>2, <1>3

\* What _rest_configuration_domain_hint returns is what ClientsAreUnambiguous
\* says of it.
LEMMA ClientAnswers ==
  ASSUME about \in Callers, answer = DomainHint(about.tree, about.call)
  PROVE  ClientsAreUnambiguous
<1> DEFINE tree == about.tree
           call == about.call
           all == UNION {tree.configs[d] : d \in DOMAIN tree.configs}
           project == {d \in tree.builds \cup {<<>>} :
                         /\ IsPrefix(d, call.dir)
                         /\ \A x \in tree.builds : IsPrefix(x, call.dir) => IsPrefix(x, d)}
           fitting == {b \in all :
                         /\ \E d \in DOMAIN tree.configs, p \in project :
                               b \in tree.configs[d] /\ IsPrefix(p, d)
                         /\ \/ b.name = call.receiver
                            \/ b.type = call.type /\ b.type # NoName}
           agreed == UNION {DomainsOf(b) : b \in {x \in fitting : Cardinality(DomainsOf(x)) = 1}}
           root == ConfigurationRoot(tree, call.dir)
           told == {c[3] : c \in {x \in ClientDomains(tree, root) :
                                    \/ x[2] = call.receiver
                                    \/ call.type # NoName /\ x[1] = call.type}}
<1>1. project = {root}
  <2> DEFINE dirs == {call.dir} \cup tree.builds \cup DOMAIN tree.configs
             D == UNION {ToSet(d) : d \in dirs}
  <2>1. dirs \subseteq Seq(D)
    BY RoutingAssumption DEF IsCaller
  <2>2. tree.builds \in SUBSET Seq(D) /\ call.dir \in Seq(D)
    BY <2>1
  <2> HIDE DEF D, tree, call
  <2> QED BY <2>2, RootIsNearest
<1>2. IsFiniteSet(all) /\ \A b \in all : IsBean(b)
  BY RoutingAssumption DEF IsCaller, IsBean
<1>3. ASSUME NEW b
      PROVE  (b \in fitting) <=> /\ \E d \in DOMAIN tree.configs : b \in tree.configs[d] /\ IsPrefix(root, d)
                                /\ \/ b.name = call.receiver
                                   \/ b.type = call.type /\ b.type # NoName
  <2> HIDE DEF project, root, tree, call
  <2> QED BY <1>1
<1>4. ASSUME NEW b \in fitting PROVE IsBean(b)
  <2> HIDE DEF tree
  <2>1. b \in all
    BY <1>4
  <2> QED BY <1>2, <2>1
<1> HIDE DEF tree, call, root, fitting
<1>5. ASSUME NEW n
      PROVE  n \in told <=> \E b \in fitting : n = BeanApiDomain(b) /\ n # NoName
  <2> DEFINE Known(b) == <<b.type, b.name, BeanApiDomain(b)>>
             below == UNION {tree.configs[d] : d \in {y \in DOMAIN tree.configs : IsPrefix(root, y)}}
  <2>1. ClientDomains(tree, root) = {Known(b) : b \in {x \in below : BeanApiDomain(x) # NoName}}
    BY DEF ClientDomains
  <2>2. \A b : /\ Known(b)[1] = b.type /\ Known(b)[2] = b.name /\ Known(b)[3] = BeanApiDomain(b)
    OBVIOUS
  <2>3. \A b : b \in below <=> \E d \in DOMAIN tree.configs : b \in tree.configs[d] /\ IsPrefix(root, d)
    OBVIOUS
  <2> HIDE DEF Known, below
  <2>4. \A b : b \in fitting <=> /\ b \in below
                                 /\ \/ b.name = call.receiver
                                    \/ call.type # NoName /\ b.type = call.type
    BY <1>3, <2>3
  <2>5. ASSUME n \in told PROVE \E b \in fitting : n = BeanApiDomain(b) /\ n # NoName
    <3>1. PICK x \in ClientDomains(tree, root) :
            /\ n = x[3]
            /\ \/ x[2] = call.receiver
               \/ call.type # NoName /\ x[1] = call.type
      BY <2>5
    <3>2. PICK b \in below : BeanApiDomain(b) # NoName /\ x = Known(b)
      BY <2>1, <3>1
    <3>3. b \in fitting
      BY <2>2, <2>4, <3>1, <3>2
    <3> QED BY <2>2, <3>1, <3>2, <3>3
  <2>6. ASSUME NEW b \in fitting, n = BeanApiDomain(b), n # NoName PROVE n \in told
    <3>1. Known(b) \in ClientDomains(tree, root)
      BY <2>1, <2>4, <2>6
    <3>2. \/ Known(b)[2] = call.receiver
          \/ call.type # NoName /\ Known(b)[1] = call.type
      BY <2>2, <2>4, <2>6
    <3> QED BY <2>2, <2>6, <3>1, <3>2
  <2> HIDE DEF told
  <2> QED BY <2>5, <2>6
<1> HIDE DEF told
<1>6. told = agreed
  <2>1. ASSUME NEW n \in told PROVE n \in agreed
    <3>1. PICK b \in fitting : n = BeanApiDomain(b) /\ n # NoName
      BY <1>5, <2>1
    <3>2. DomainsOf(b) = {n} /\ Cardinality(DomainsOf(b)) = 1
      BY <1>4, <3>1, BeanTells
    <3> QED BY <3>2
  <2>2. ASSUME NEW n \in agreed PROVE n \in told
    <3>1. PICK b \in fitting : Cardinality(DomainsOf(b)) = 1 /\ n \in DomainsOf(b)
      BY <2>2
    <3>2. BeanApiDomain(b) # NoName /\ n = BeanApiDomain(b)
      BY <1>4, <3>1, BeanTells
    <3> QED BY <1>5, <3>2
  <2> HIDE DEF agreed
  <2> QED BY <2>1, <2>2
<1>7. answer = OnlyOne(told)
  BY DEF DomainHint, told, root, tree, call
<1> HIDE DEF agreed
<1>8. IF Cardinality(agreed) = 1 THEN {answer} = agreed ELSE answer = NoName
  <2>1. CASE Cardinality(agreed) = 1
    <3>1. IsFiniteSet(agreed)
      <4> DEFINE f == [b \in fitting |-> BeanApiDomain(b)]
                 T == {f[b] : b \in fitting}
      <4>1. IsFiniteSet(fitting)
        BY <1>2, FS_Subset DEF fitting
      <4>2. IsFiniteSet(T)
        <5> HIDE DEF f
        <5> QED BY <4>1, FiniteImage
      <4>3. told \subseteq T
        BY <1>5
      <4> HIDE DEF T
      <4> QED BY <1>6, <4>2, <4>3, FS_Subset
    <3> QED BY <1>6, <1>7, <2>1, <3>1, FS_Singleton DEF OnlyOne
  <2>2. CASE Cardinality(agreed) # 1
    BY <1>6, <1>7, <2>2 DEF OnlyOne
  <2> QED BY <2>1, <2>2
<1> QED BY <1>8 DEF ClientsAreUnambiguous, agreed, fitting, project, tree, call, DomainsOf

-----------------------------------------------------------------------------
\* How edges are added: in the order in which they are offered, each unless it
\* is there already or what may be added once was.

\* An offer is at the places of two endpoints.
Placed(offers) == \A o \in offers : o.at \in (Nat \X Nat) \X (Nat \X Nat)

\* Offers are strictly ordered by their places.
LEMMA EarlierOrders ==
  ASSUME NEW offers, Placed(offers), NEW o \in offers, NEW p \in offers, NEW q \in offers
  PROVE  /\ ~Earlier(o, o)
         /\ Earlier(o, p) /\ Earlier(p, q) => Earlier(o, q)
<1>1. \A a, b, c \in Nat \X Nat :
        /\ ~PlaceBefore(a, a)
        /\ PlaceBefore(a, b) /\ PlaceBefore(b, c) => PlaceBefore(a, c)
  BY DEF PlaceBefore
<1>2. \A x \in {o, p, q} : x.at[1] \in Nat \X Nat /\ x.at[2] \in Nat \X Nat
  BY DEF Placed
<1> QED BY <1>1, <1>2 DEF Earlier

\* The last of some offers is one of them: the order has a maximal element.
LEMMA LastIsOffered ==
  ASSUME NEW offers, IsFiniteSet(offers), Placed(offers), NEW s \in SUBSET offers, s # {}
  PROVE  LastOffer(s) \in s
<1> DEFINE R == {r \in s \X s : Earlier(r[1], r[2])}
<1>1. IsFiniteSet(s)
  BY FS_Subset
<1>2. \A x, y \in s : <<x, y>> \in R <=> Earlier(x, y)
  OBVIOUS
<1> HIDE DEF R
<1>3. \A x, y, z \in s : <<x, y>> \in R /\ <<y, z>> \in R => <<x, z>> \in R
  BY <1>2, EarlierOrders
<1>4. \A x \in s : <<x, x>> \notin R
  BY <1>2, EarlierOrders
<1>5. \E x \in s : \A y \in s : <<x, y>> \notin R
  BY <1>1, <1>3, <1>4, MaximalExists
<1>6. \E x \in s : \A y \in s : ~Earlier(x, y)
  BY <1>2, <1>5
<1> QED BY <1>6 DEF LastOffer

\* An edge with the key of the offered one is there.
Has(edges, o) == \E e \in ToSet(edges) : EdgeKey(e) = EdgeKey(o.edge)

\* The edges that are there stay, all others were offered, and an offer is
\* missing only when what may be added once has an edge already.
Adds(edges, offers, r) ==
  /\ r \in Seq(ToSet(edges) \cup {o.edge : o \in offers})
  /\ ToSet(edges) \subseteq ToSet(r)
  /\ \A o \in offers : \/ Has(r, o)
                       \/ \E q \in offers : o.once \cap q.once # {} /\ Has(r, q)

\* What AddEdges makes of finitely many offers: by FoldKeeps, on the relation
\* between the offers that were folded and the edges that there are.
LEMMA AddEdgesAdds ==
  ASSUME NEW E, NEW edges \in Seq(E), NEW offers, IsFiniteSet(offers), Placed(offers)
  PROVE  Adds(edges, offers, AddEdges(edges, offers))
<1> DEFINE Es == ToSet(edges) \cup {o.edge : o \in offers}
           Os == UNION {o.once : o \in offers}
           S == [edges : Seq(Es), proxied : SUBSET Os]
           base == [edges |-> edges, proxied |-> {}]
           c == [s \in (SUBSET offers) \ {{}} |-> LastOffer(s)]
           F == [p \in offers \X S |-> AddOffer(p[1], p[2])]
           Body(s, h) == IF s = {} THEN base ELSE AddOffer(LastOffer(s), h[s \ {LastOffer(s)}])
           iter[s \in SUBSET offers] == Body(s, iter)
<1>1. AddEdges(edges, offers) = iter[offers].edges
  BY DEF AddEdges, MapThenFoldSet
<1>2. base \in S
  <2>1. \A i \in DOMAIN edges : edges[i] \in Es
    BY DEF ToSet
  <2>2. edges \in Seq(Es)
    <3> HIDE DEF Es
    <3> QED BY <2>1
  <2> QED BY <2>2
<1>3. ASSUME NEW o \in offers, NEW a \in S PROVE AddOffer(o, a) \in S
  <2>1. /\ o.edge \in Es /\ o.once \in SUBSET Os
        /\ a.edges \in Seq(Es) /\ a.proxied \in SUBSET Os
    OBVIOUS
  <2>2. Append(a.edges, o.edge) \in Seq(Es)
    <3> HIDE DEF Es
    <3> QED BY <2>1
  <2>3. a.proxied \cup o.once \in SUBSET Os
    BY <2>1
  <2> HIDE DEF Es, Os
  <2> QED BY <2>1, <2>2, <2>3 DEF AddOffer
<1>4. Chooses(c, offers)
  BY LastIsOffered DEF Chooses
<1>5. F \in [offers \X S -> S]
  <2> HIDE DEF S
  <2> QED BY <1>3
<1>6. \A s \in SUBSET offers : s # {} => c[s] = LastOffer(s) /\ LastOffer(s) \in offers
  BY LastIsOffered
<1>7. \A o \in offers, a \in S : F[<<o, a>>] = AddOffer(o, a)
  <2> HIDE DEF S
  <2> QED OBVIOUS
<1>8. FoldsTo(offers, S, base, c, F, iter)
  <2>1. PICK h \in [SUBSET offers -> S] : FoldsTo(offers, S, base, c, F, h)
    <3> HIDE DEF S, base, c, F
    <3> QED BY <1>2, <1>4, <1>5, FoldExists
  <2>2. ASSUME NEW s \in SUBSET offers PROVE h[s] = Body(s, h)
    <3> HIDE DEF S, base, c, F
    <3>1. CASE s = {}
      BY <2>1, <3>1 DEF FoldsTo
    <3>2. CASE s # {}
      <4>1. h[s \ {LastOffer(s)}] \in S
        BY <2>1
      <4>2. h[s] = F[<<c[s], h[s \ {c[s]}]>>]
        BY <1>6, <2>1, <3>2, <4>1 DEF FoldsTo
      <4> QED BY <1>6, <1>7, <3>2, <4>1, <4>2
    <3> QED BY <3>1, <3>2
  <2>3. h = [s \in SUBSET offers |-> Body(s, h)]
    <3> HIDE DEF S, Body
    <3> QED BY <2>1, <2>2
  <2>4. iter = [s \in SUBSET offers |-> Body(s, iter)]
    <3> HIDE DEF S, base, c, F
    <3> QED BY <2>3
  <2> HIDE DEF iter
  <2>5. \A s \in SUBSET offers : iter[s] = Body(s, iter)
    <3> HIDE DEF Body
    <3> QED BY <2>4
  <2>6. iter[{}] = base
    BY <2>5
  <2>7. ASSUME NEW s \in (SUBSET offers) \ {{}}, iter[s \ {c[s]}] \in S
        PROVE  iter[s] = F[<<c[s], iter[s \ {c[s]}]>>]
    <3> HIDE DEF S, base, c, F
    <3> QED BY <1>6, <1>7, <2>5, <2>7
  <2> HIDE DEF S, base, c, F
  <2> QED BY <2>6, <2>7 DEF FoldsTo
<1> DEFINE Good(s, a) ==
             /\ ToSet(edges) \subseteq ToSet(a.edges)
             /\ \A o \in s : \/ Has(a.edges, o)
                             \/ \E q \in offers : o.once \cap q.once # {} /\ Has(a.edges, q)
             /\ \A z \in a.proxied : \E q \in offers : z \in q.once /\ Has(a.edges, q)
           G == {p \in (SUBSET offers) \X S : Good(p[1], p[2])}
<1>9. <<{}, base>> \in G
  <2>1. Good({}, base)
    OBVIOUS
  <2> HIDE DEF Good, S, base
  <2> QED BY <1>2, <2>1
<1>10. ASSUME NEW s \in SUBSET offers, NEW o \in s, NEW a \in S, Good(s \ {o}, a)
       PROVE  Good(s, AddOffer(o, a))
  <2>1. CASE o.once \cap a.proxied # {}
    <3>1. AddOffer(o, a) = a
      BY <2>1 DEF AddOffer
    <3>2. \E q \in offers : o.once \cap q.once # {} /\ Has(a.edges, q)
      BY <1>10, <2>1
    <3> QED BY <1>10, <3>1, <3>2
  <2>2. CASE o.once \cap a.proxied = {}
    <3> DEFINE r == AddOffer(o, a)
    <3>1. o \in offers /\ o.edge \in Es /\ a.edges \in Seq(Es)
      OBVIOUS
    <3>2. /\ r.edges = IF Has(a.edges, o) THEN a.edges ELSE Append(a.edges, o.edge)
          /\ r.proxied = a.proxied \cup o.once
      BY <2>2 DEF AddOffer, Has
    <3> HIDE DEF r, Es, Os
    <3>3. ToSet(a.edges) \subseteq ToSet(r.edges) /\ Has(r.edges, o)
      <4>1. CASE Has(a.edges, o)
        BY <3>2, <4>1
      <4>2. CASE ~Has(a.edges, o)
        <5>1. ToSet(r.edges) = ToSet(a.edges) \cup {o.edge}
          BY <3>1, <3>2, <4>2, Appended
        <5> QED BY <5>1 DEF Has
      <4> QED BY <4>1, <4>2
    <3>4. \A q \in offers : Has(a.edges, q) => Has(r.edges, q)
      BY <3>3 DEF Has
    <3>5. ToSet(edges) \subseteq ToSet(r.edges)
      BY <1>10, <3>3
    <3>6. ASSUME NEW p \in s PROVE \/ Has(r.edges, p)
                                   \/ \E q \in offers : p.once \cap q.once # {} /\ Has(r.edges, q)
      <4>1. CASE p = o
        BY <3>3, <4>1
      <4>2. CASE p # o
        <5>1. p \in s \ {o}
          BY <4>2
        <5>2. \/ Has(a.edges, p)
              \/ \E q \in offers : p.once \cap q.once # {} /\ Has(a.edges, q)
          BY <1>10, <5>1
        <5> QED BY <3>4, <5>2
      <4> QED BY <4>1, <4>2
    <3>7. ASSUME NEW z \in r.proxied PROVE \E q \in offers : z \in q.once /\ Has(r.edges, q)
      <4>1. CASE z \in o.once
        BY <3>1, <3>3, <4>1
      <4>2. CASE z \in a.proxied
        <5>1. \E q \in offers : z \in q.once /\ Has(a.edges, q)
          BY <1>10, <4>2
        <5> QED BY <3>4, <5>1
      <4> QED BY <3>2, <4>1, <4>2
    <3> QED BY <3>5, <3>6, <3>7 DEF r
  <2> QED BY <2>1, <2>2
<1>11. \A s \in SUBSET offers : \A a \in S :
         s # {} /\ <<s \ {c[s]}, a>> \in G => <<s, F[<<c[s], a>>]>> \in G
  <2> SUFFICES ASSUME NEW s \in SUBSET offers, NEW a \in S, s # {}, <<s \ {c[s]}, a>> \in G
               PROVE  <<s, F[<<c[s], a>>]>> \in G
    OBVIOUS
  <2>1. c[s] \in s /\ c[s] \in offers /\ F[<<c[s], a>>] = AddOffer(c[s], a) /\ AddOffer(c[s], a) \in S
    <3>1. s \in (SUBSET offers) \ {{}} 
      OBVIOUS
    <3> HIDE DEF S, c, F
    <3> QED BY <1>3, <1>4, <1>7, <3>1 DEF Chooses
  <2>2. Good(s \ {c[s]}, a)
    <3> HIDE DEF Good, S, c
    <3> QED OBVIOUS
  <2>3. Good(s, AddOffer(c[s], a))
    <3> HIDE DEF Good, S, c
    <3> QED BY <1>10, <2>1, <2>2
  <2> HIDE DEF Good, S, c, F
  <2> QED BY <2>1, <2>3
<1>12. iter[offers] \in S /\ <<offers, iter[offers]>> \in G
  <2> DEFINE h == iter
  <2>1. FoldsTo(offers, S, base, c, F, h)
    BY <1>8
  <2>2. Kept(offers, S, base, c, F, G)
    <3>1. G \in SUBSET ((SUBSET offers) \X S)
      OBVIOUS
    <3> HIDE DEF S, base, c, F, G
    <3> QED BY <1>9, <1>11, <3>1 DEF Kept
  <2> HIDE DEF S, base, c, F, G, h
  <2>3. \A s \in SUBSET offers : h[s] \in S /\ <<s, h[s]>> \in G
    BY <1>2, <1>4, <1>5, <2>1, <2>2, FoldKeeps
  <2>4. h[offers] \in S /\ <<offers, h[offers]>> \in G
    BY <2>3
  <2> QED BY <2>4 DEF h
<1>13. Good(offers, iter[offers]) /\ iter[offers].edges \in Seq(Es)
  <2>1. Good(offers, iter[offers])
    <3> HIDE DEF Good, iter, S
    <3> QED BY <1>12
  <2> HIDE DEF Good, iter, Es
  <2> QED BY <1>12, <2>1
<1> HIDE DEF iter
<1> QED BY <1>1, <1>13 DEF Adds

\* The endpoints of a workspace are finitely many, each at a place of its own,
\* and are those of its services.
LEMMA WorkspacesAre ==
  ASSUME NEW w, IsWorkspace(w)
  PROVE  /\ IsFiniteSet(AllEndpoints(w))
         /\ \A e \in AllEndpoints(w) :
              /\ e.place \in Nat \X Nat
              /\ e.service \in ToSet(w.services)
              /\ e.site \in ToSet(w.endpoints[e.service])
              /\ SiteFields \subseteq DOMAIN e.site
         /\ \A s \in ToSet(w.services) : \A x \in ToSet(w.endpoints[s]) :
              \E e \in AllEndpoints(w) : e.service = s /\ e.site = x
         /\ NoName \notin ToSet(w.services)
<1> DEFINE Cell(i, k) == LET s == w.services[i]
                         IN  [place |-> <<i, k>>, service |-> s, site |-> w.endpoints[s][k]]
           Row(i) == {Cell(i, k) : k \in DOMAIN w.endpoints[w.services[i]]}
           rows == [i \in DOMAIN w.services |-> Row(i)]
           family == {rows[i] : i \in DOMAIN w.services}
<1>1. /\ w.services \in Seq(ToSet(w.services)) /\ NoName \notin ToSet(w.services)
      /\ DOMAIN w.services = 1 .. Len(w.services) /\ Len(w.services) \in Nat
      /\ \A i \in DOMAIN w.services : w.services[i] \in ToSet(w.services)
  BY DEF IsWorkspace, ToSet
<1>2. ASSUME NEW s \in ToSet(w.services)
      PROVE  /\ w.endpoints[s] \in Seq(ToSet(w.endpoints[s]))
             /\ DOMAIN w.endpoints[s] = 1 .. Len(w.endpoints[s]) /\ Len(w.endpoints[s]) \in Nat
             /\ \A x \in ToSet(w.endpoints[s]) : SiteFields \subseteq DOMAIN x
             /\ \A k \in DOMAIN w.endpoints[s] : w.endpoints[s][k] \in ToSet(w.endpoints[s])
  <2>1. w.endpoints[s] \in Seq(ToSet(w.endpoints[s])) 
    BY DEF IsWorkspace
  <2>2. \A x \in ToSet(w.endpoints[s]) : SiteFields \subseteq DOMAIN x
    BY DEF IsWorkspace
  <2>3. DOMAIN w.endpoints[s] = 1 .. Len(w.endpoints[s]) /\ Len(w.endpoints[s]) \in Nat
    BY <2>1
  <2>4. \A k \in DOMAIN w.endpoints[s] : w.endpoints[s][k] \in ToSet(w.endpoints[s])
    BY DEF ToSet
  <2> QED BY <2>1, <2>2, <2>3, <2>4
<1>3. AllEndpoints(w) = UNION family
  BY DEF AllEndpoints
<1>4. ASSUME NEW i \in DOMAIN w.services PROVE IsFiniteSet(rows[i])
  <2> DEFINE D == DOMAIN w.endpoints[w.services[i]]
             cells == [k \in D |-> Cell(i, k)]
             R == {cells[k] : k \in D}
  <2>1. w.services[i] \in ToSet(w.services)
    BY <1>1
  <2>2. D = 1 .. Len(w.endpoints[w.services[i]]) /\ Len(w.endpoints[w.services[i]]) \in Nat
    BY <1>2, <2>1
  <2>3. IsFiniteSet(D)
    <3> HIDE DEF D
    <3>1. \A n \in Nat : IsFiniteSet(1 .. n)
      BY FS_Interval
    <3> QED BY <2>2, <3>1
  <2>4. IsFiniteSet(R)
    <3> HIDE DEF D, cells
    <3> QED BY <2>3, FiniteImage
  <2>5. rows[i] = R
    OBVIOUS
  <2> QED BY <2>4, <2>5
<1>5. IsFiniteSet(DOMAIN w.services)
  BY <1>1, FS_Interval
<1>6. IsFiniteSet(family)
  <2> HIDE DEF rows
  <2> QED BY <1>5, FiniteImage
<1>7. IsFiniteSet(UNION family)
  <2>1. \A T \in family : IsFiniteSet(T)
    <3> HIDE DEF rows
    <3> QED BY <1>4
  <2> HIDE DEF family
  <2> QED BY <1>6, <2>1, FS_UNION
<1>8. ASSUME NEW e \in AllEndpoints(w)
      PROVE  /\ e.place \in Nat \X Nat
             /\ e.service \in ToSet(w.services)
             /\ e.site \in ToSet(w.endpoints[e.service])
             /\ SiteFields \subseteq DOMAIN e.site
  <2>1. PICK i \in DOMAIN w.services : e \in Row(i)
    BY <1>3
  <2>2. PICK k \in DOMAIN w.endpoints[w.services[i]] : e = Cell(i, k)
    BY <2>1
  <2>3. /\ e.place = <<i, k>> /\ e.service = w.services[i]
        /\ e.site = w.endpoints[w.services[i]][k]
    BY <2>2
  <2>4. w.services[i] \in ToSet(w.services)
    BY <1>1
  <2>5. i \in Nat /\ k \in Nat
    BY <1>1, <1>2, <2>4
  <2> QED BY <1>2, <2>3, <2>4, <2>5
<1>9. ASSUME NEW s \in ToSet(w.services), NEW x \in ToSet(w.endpoints[s])
      PROVE  \E e \in AllEndpoints(w) : e.service = s /\ e.site = x
  <2>1. PICK i \in DOMAIN w.services : s = w.services[i]
    BY DEF ToSet
  <2>2. PICK k \in DOMAIN w.endpoints[s] : x = w.endpoints[s][k]
    BY DEF ToSet
  <2>3. Cell(i, k) \in AllEndpoints(w)
    BY <1>3, <2>1, <2>2
  <2>4. Cell(i, k).service = s /\ Cell(i, k).site = x
    BY <2>1, <2>2
  <2> QED BY <2>3, <2>4
<1> QED BY <1>1, <1>3, <1>7, <1>8, <1>9

\* An edge of a kind joins two services.
Joins(edges, kind, from, to) ==
  \E e \in ToSet(edges) : e.kind = kind /\ e.from = from /\ e.to = to

\* The offers that are made of finitely many pairs.
LEMMA FiniteOffers ==
  ASSUME NEW P, IsFiniteSet(P), NEW f, NEW offers, offers = {f[p] : p \in P},
         \A p \in P : f[p].at \in (Nat \X Nat) \X (Nat \X Nat)
  PROVE  IsFiniteSet(offers) /\ Placed(offers)
<1>1. IsFiniteSet(offers)
  BY FiniteImage
<1>2. Placed(offers)
  BY DEF Placed
<1> QED BY <1>1, <1>2

-----------------------------------------------------------------------------
\* The edges of the graph, and what they mean.

\* A REST call and a route that it reaches.
Linked(w, from, to) ==
  from \in Playing(w, "rest", "call") /\ to \in Playing(w, "rest", "serve") /\ Reaches(from, to)

\* The edge that build_graph makes of them.
ResourceEdge(from, to) ==
  Edge("rest", from.service, to.service, EffectiveCall(from.site, to.site), to.site, "resource")

\* _resolved_configured_api_call changes the path of a call and nothing that tells it from
\* others.
LEMMA CallsKept ==
  ASSUME NEW call, SiteFields \subseteq DOMAIN call, NEW serve
  PROVE  /\ EffectiveCall(call, serve).id = call.id
         /\ EffectiveCall(call, serve).gateway = call.gateway
         /\ EffectiveCall(call, serve).domain = call.domain
<1>1. {"id", "gateway", "domain"} \subseteq DOMAIN call
  BY DEF SiteFields
<1> QED BY <1>1 DEF EffectiveCall

\* Two edges with one key join the same services; when they are made of
\* resources their calls have one identity.
LEMMA KeysTell ==
  ASSUME NEW e, NEW f, EdgeKey(e) = EdgeKey(f)
  PROVE  /\ e.kind = f.kind /\ e.from = f.from /\ e.to = f.to /\ e.via = f.via
         /\ e.via = "resource" => e.source.id = f.source.id
BY DEF EdgeKey

\* The REST edges are made of calls and the routes they reach, and every such
\* pair is joined, or the call is of a gateway and a call of its identity
\* reaches the service.
LEMMA ResourcesAre ==
  ASSUME NEW w, IsWorkspace(w), NEW r, r = ResourceEdges(w)
  PROVE  /\ r \in Seq(ToSet(r))
         /\ \A e \in ToSet(r) : \E a, b \in AllEndpoints(w) : Linked(w, a, b) /\ e = ResourceEdge(a, b)
         /\ \A a, b \in AllEndpoints(w) : Linked(w, a, b) =>
              \/ Joins(r, "rest", a.service, b.service)
              \/ Proxy(a.site) /\ \E e \in ToSet(r) : /\ e.to = b.service /\ e.source.id = a.site.id
                                                      /\ e.source.gateway
<1> DEFINE linked == {p \in [from : Playing(w, "rest", "call"), to : Playing(w, "rest", "serve")] :
                        Reaches(p.from, p.to)}
           f == [p \in linked |-> Offer(p.from, p.to, ResourceEdge(p.from, p.to), Proxy(p.from.site))]
           offers == {f[p] : p \in linked}
<1>0. \A e \in AllEndpoints(w) : /\ e.place \in Nat \X Nat /\ e.service \in ToSet(w.services)
                                  /\ e.site \in ToSet(w.endpoints[e.service])
                                  /\ SiteFields \subseteq DOMAIN e.site
  BY WorkspacesAre
<1>1. r = AddEdges(<<>>, offers)
  <2>1. offers = {Offer(p.from, p.to, ResourceEdge(p.from, p.to), Proxy(p.from.site)) : p \in linked}
    OBVIOUS
  <2> QED BY <2>1 DEF ResourceEdges, ResourceEdge
<1>2. IsFiniteSet(linked)
  <2> DEFINE A == Playing(w, "rest", "call")
             B == Playing(w, "rest", "serve")
  <2>1. A \in SUBSET AllEndpoints(w) /\ B \in SUBSET AllEndpoints(w)
    BY DEF Playing
  <2> HIDE DEF A, B
  <2>2. IsFiniteSet(A) /\ IsFiniteSet(B)
    BY <2>1, WorkspacesAre, FS_Subset
  <2>3. IsFiniteSet([from : A, to : B])
    BY <2>2, FinitePairs
  <2>4. linked \in SUBSET [from : A, to : B]
    BY DEF A, B
  <2> HIDE DEF linked
  <2> QED BY <2>3, <2>4, FS_Subset
<1>3. \A p \in linked : /\ p.from \in AllEndpoints(w) /\ p.to \in AllEndpoints(w)
                        /\ Linked(w, p.from, p.to)
  BY DEF Playing, Linked
<1>4. \A a, b \in AllEndpoints(w) : Linked(w, a, b) => [from |-> a, to |-> b] \in linked
  BY DEF Linked
<1>5. \A p \in linked : /\ f[p].at = <<p.from.place, p.to.place>>
                        /\ f[p].edge = ResourceEdge(p.from, p.to)
                        /\ f[p].once = IF Proxy(p.from.site)
                                       THEN {<<f[p].edge.source.id, f[p].edge.to>>} ELSE {}
  BY DEF Offer
<1> HIDE DEF linked, f
<1>6. IsFiniteSet(offers) /\ Placed(offers)
  <2>1. ASSUME NEW p \in linked PROVE f[p].at \in (Nat \X Nat) \X (Nat \X Nat)
    <3>1. p.from.place \in Nat \X Nat /\ p.to.place \in Nat \X Nat
      BY <1>0, <1>3
    <3>2. f[p].at = <<p.from.place, p.to.place>>
      BY <1>5
    <3> QED BY <3>1, <3>2
  <2> HIDE DEF offers
  <2> QED BY <1>2, <2>1, FiniteOffers DEF offers
<1>7. Adds(<<>>, offers, r)
  <2>1. <<>> \in Seq(Nat)
    OBVIOUS
  <2> HIDE DEF offers
  <2> QED BY <1>1, <1>6, <2>1, AddEdgesAdds
<1>8. \A p \in linked : /\ f[p].edge.kind = "rest" /\ f[p].edge.via = "resource"
                        /\ f[p].edge.from = p.from.service /\ f[p].edge.to = p.to.service
                        /\ f[p].edge.source.id = p.from.site.id
                        /\ f[p].edge.source.gateway = p.from.site.gateway
  <2> SUFFICES ASSUME NEW p \in linked
               PROVE  /\ f[p].edge.kind = "rest" /\ f[p].edge.via = "resource"
                      /\ f[p].edge.from = p.from.service /\ f[p].edge.to = p.to.service
                      /\ f[p].edge.source.id = p.from.site.id
                      /\ f[p].edge.source.gateway = p.from.site.gateway
    OBVIOUS
  <2>1. /\ EffectiveCall(p.from.site, p.to.site).id = p.from.site.id
        /\ EffectiveCall(p.from.site, p.to.site).gateway = p.from.site.gateway
    BY <1>0, <1>3, CallsKept
  <2>2. f[p].edge = Edge("rest", p.from.service, p.to.service,
                         EffectiveCall(p.from.site, p.to.site), p.to.site, "resource")
    BY <1>5 DEF ResourceEdge
  <2> QED BY <2>1, <2>2 DEF Edge
<1>9. r \in Seq(ToSet(r)) /\ \A e \in ToSet(r) : \E p \in linked : e = f[p].edge
  <2> DEFINE X == ToSet(<<>>) \cup {o.edge : o \in offers}
  <2>1. r \in Seq(X)
    BY <1>7 DEF Adds
  <2>2. \A x \in X : \E p \in linked : x = f[p].edge
    BY DEF ToSet
  <2> HIDE DEF X
  <2>3. r \in Seq(ToSet(r)) /\ ToSet(r) \subseteq X
    BY <2>1, OwnElements
  <2> QED BY <2>2, <2>3
<1>10. ASSUME NEW p \in linked, NEW e \in ToSet(r), EdgeKey(e) = EdgeKey(f[p].edge)
       PROVE  /\ e.kind = "rest" /\ e.from = p.from.service /\ e.to = p.to.service
              /\ e.source.id = p.from.site.id
              /\ e.source.gateway = p.from.site.gateway
  <2>1. PICK q \in linked : e = f[q].edge
    BY <1>9
  <2>2. /\ e.kind = "rest" /\ e.from = p.from.service /\ e.to = p.to.service
        /\ e.source.id = p.from.site.id
    BY <1>8, <1>10, <2>1, KeysTell
  <2>3. e.from = q.from.service /\ e.source.id = q.from.site.id /\ e.source.gateway = q.from.site.gateway
    BY <1>8, <2>1
  <2>4. p.from.site = q.from.site
    <3>1. /\ p.from.site \in ToSet(w.endpoints[p.from.service])
          /\ q.from.site \in ToSet(w.endpoints[p.from.service])
          /\ p.from.service \in ToSet(w.services)
      BY <1>0, <1>3, <2>2, <2>3
    <3> QED BY <2>2, <2>3, <3>1 DEF IsWorkspace
  <2> QED BY <2>2, <2>3, <2>4
<1>11. ASSUME NEW a \in AllEndpoints(w), NEW b \in AllEndpoints(w), Linked(w, a, b)
       PROVE  \/ Joins(r, "rest", a.service, b.service)
              \/ Proxy(a.site) /\ \E e \in ToSet(r) : /\ e.to = b.service /\ e.source.id = a.site.id
                                                      /\ e.source.gateway
  <2>1. PICK p \in linked : p.from = a /\ p.to = b
    BY <1>4, <1>11
  <2>2. CASE Has(r, f[p])
    BY <1>10, <2>1, <2>2 DEF Has, Joins
  <2>3. CASE \E q \in linked : f[p].once \cap f[q].once # {} /\ Has(r, f[q])
    <3>1. PICK q \in linked : f[p].once \cap f[q].once # {} /\ Has(r, f[q])
      BY <2>3
    <3>2. Proxy(a.site) /\ Proxy(q.from.site)
      BY <1>5, <2>1, <3>1
    <3>3. q.from.site.id = a.site.id /\ q.to.service = b.service
      <4>1. /\ f[p].once = {<<f[p].edge.source.id, f[p].edge.to>>}
            /\ f[q].once = {<<f[q].edge.source.id, f[q].edge.to>>}
        BY <1>5, <2>1, <3>2
      <4>2. f[p].edge.source.id = f[q].edge.source.id /\ f[p].edge.to = f[q].edge.to
        BY <3>1, <4>1
      <4> QED BY <1>8, <2>1, <4>2
    <3>4. PICK e \in ToSet(r) : EdgeKey(e) = EdgeKey(f[q].edge)
      BY <3>1 DEF Has
    <3>5. e.to = b.service /\ e.source.id = a.site.id /\ e.source.gateway
      BY <1>10, <3>2, <3>3, <3>4 DEF Proxy
    <3> QED BY <3>2, <3>5
  <2>4. \/ Has(r, f[p]) 
        \/ \E q \in linked : f[p].once \cap f[q].once # {} /\ Has(r, f[q])
    BY <1>7 DEF Adds
  <2> QED BY <2>2, <2>3, <2>4
<1>12. \A e \in ToSet(r) : \E a, b \in AllEndpoints(w) : Linked(w, a, b) /\ e = ResourceEdge(a, b)
  <2> SUFFICES ASSUME NEW e \in ToSet(r)
               PROVE  \E a, b \in AllEndpoints(w) : Linked(w, a, b) /\ e = ResourceEdge(a, b)
    OBVIOUS
  <2>1. PICK p \in linked : e = f[p].edge
    BY <1>9
  <2> QED BY <1>3, <1>5, <2>1
<1> QED BY <1>9, <1>11, <1>12

\* The edge of a call that names a service of the workspace.
HostEdge(c) == Edge("rest", c.service, c.site.domain, c.site, NoEndpoint, "configured-api")

\* The edge of a call that names a service outside the workspace.
PartnerEdge(c) == Edge("rest", c.service, c.site.external, c.site, NoEndpoint, "configured-external")

\* The calls that get the first: those of which no resource edge tells.
Hosted(w, resources, c) ==
  /\ c \in Playing(w, "rest", "call")
  /\ c.site.domain \in ToSet(w.services) \ {c.service}
  /\ ~\E e \in ToSet(resources) : /\ e.source.domain # NoName
                                  /\ e.source.id = c.site.id /\ e.to = c.site.domain

\* The calls that get the second.
Outward(w, c) == c \in Playing(w, "rest", "call") /\ c.site.external \notin {NoName, c.service}

\* The edges that are there and one for each element of P.
AddsEach(edges, P, edge, r) ==
  /\ r \in Seq(ToSet(r))
  /\ ToSet(edges) \subseteq ToSet(r)
  /\ \A e \in ToSet(r) : e \in ToSet(edges) \/ \E p \in P : e = edge[p]
  /\ \A p \in P : \E e \in ToSet(r) : EdgeKey(e) = EdgeKey(edge[p])

\* Offers of the edges that may each be added more than once.
Offers(P, f, edge) ==
  \A p \in P : /\ f[p].at \in (Nat \X Nat) \X (Nat \X Nat)
               /\ f[p].edge = edge[p] /\ f[p].once = {}

\* Edges that are offered on their own are all added.
LEMMA OffersAdded ==
  ASSUME NEW P, IsFiniteSet(P), NEW f, NEW edge, Offers(P, f, edge),
         NEW E, NEW edges \in Seq(E), NEW offers, offers = {f[p] : p \in P}
  PROVE  AddsEach(edges, P, edge, AddEdges(edges, offers))
<1> DEFINE r == AddEdges(edges, offers)
<1>0. \A p \in P : /\ f[p].at \in (Nat \X Nat) \X (Nat \X Nat)
                   /\ f[p].edge = edge[p] /\ f[p].once = {}
  BY DEF Offers
<1>1. Adds(edges, offers, r)
  <2>1. \A p \in P : f[p].at \in (Nat \X Nat) \X (Nat \X Nat)
    BY <1>0
  <2>2. IsFiniteSet(offers) /\ Placed(offers)
    BY <2>1, FiniteOffers
  <2> QED BY <2>2, AddEdgesAdds
<1> HIDE DEF r
<1> DEFINE X == ToSet(edges) \cup {o.edge : o \in offers}
<1>2. \A x \in X : x \in ToSet(edges) \/ \E p \in P : x = edge[p]
  BY <1>0
<1>3. r \in Seq(X) /\ ToSet(edges) \subseteq ToSet(r)
  BY <1>1 DEF Adds
<1>4. ASSUME NEW p \in P PROVE \E e \in ToSet(r) : EdgeKey(e) = EdgeKey(edge[p])
  <2>1. Has(r, f[p])
    BY <1>0, <1>1 DEF Adds
  <2> QED BY <1>0, <2>1 DEF Has
<1> HIDE DEF X
<1>5. r \in Seq(ToSet(r)) /\ ToSet(r) \subseteq X
  BY <1>3, OwnElements
<1>6. \A e \in ToSet(r) : e \in ToSet(edges) \/ \E p \in P : e = edge[p]
  BY <1>2, <1>5
<1> QED BY <1>3, <1>4, <1>5, <1>6 DEF AddsEach, r

\* So are those that are offered at the place of one endpoint.
LEMMA AloneAdded ==
  ASSUME NEW w, IsWorkspace(w), NEW C \in SUBSET AllEndpoints(w), NEW edge,
         NEW E, NEW edges \in Seq(E), NEW r,
         r = AddEdges(edges, {Offer(c, c, edge[c], FALSE) : c \in C})
  PROVE  AddsEach(edges, C, edge, r)
<1> DEFINE f == [c \in C |-> Offer(c, c, edge[c], FALSE)]
<1>1. r = AddEdges(edges, {f[c] : c \in C})
  <2>1. {f[c] : c \in C} = {Offer(c, c, edge[c], FALSE) : c \in C}
    OBVIOUS
  <2> QED BY <2>1
<1>2. \A c \in C : /\ f[c].at = <<c.place, c.place>> /\ f[c].edge = edge[c] /\ f[c].once = {}
  BY DEF Offer
<1> HIDE DEF f
<1>3. ASSUME NEW c \in C PROVE f[c].at \in (Nat \X Nat) \X (Nat \X Nat)
  <2>1. c.place \in Nat \X Nat
    BY WorkspacesAre
  <2> QED BY <1>2, <2>1
<1>4. IsFiniteSet(C)
  BY WorkspacesAre, FS_Subset
<1>5. Offers(C, f, edge)
  BY <1>2, <1>3 DEF Offers
<1> DEFINE offers == {f[c] : c \in C}
<1>6. r = AddEdges(edges, offers)
  BY <1>1
<1>7. AddsEach(edges, C, edge, AddEdges(edges, offers))
  BY <1>4, <1>5, OffersAdded
<1> HIDE DEF offers
<1> QED BY <1>6, <1>7

\* The REST edges with those that name a service.
LEMMA ServicesAre ==
  ASSUME NEW w, IsWorkspace(w), NEW res, res \in Seq(ToSet(res)), NEW r, r = ServiceEdges(w, res)
  PROVE  /\ r \in Seq(ToSet(r))
         /\ ToSet(res) \subseteq ToSet(r)
         /\ \A e \in ToSet(r) : \/ e \in ToSet(res)
                                \/ \E c \in AllEndpoints(w) : Hosted(w, res, c) /\ e = HostEdge(c)
                                \/ \E c \in AllEndpoints(w) : Outward(w, c) /\ e = PartnerEdge(c)
         /\ \A c \in AllEndpoints(w) :
              /\ Hosted(w, res, c) => Joins(r, "rest", c.service, c.site.domain)
              /\ Outward(w, c) => Joins(r, "rest", c.service, c.site.external)
<1> DEFINE calls == Playing(w, "rest", "call")
           resolved == {<<e.source.id, e.to>> : e \in {x \in ToSet(res) : x.source.domain # NoName}}
           hosted == {c \in calls : /\ c.site.domain \in ToSet(w.services) \ {c.service}
                                    /\ <<c.site.id, c.site.domain>> \notin resolved}
           outward == {c \in calls : c.site.external \notin {NoName, c.service}}
           host == [c \in hosted |-> HostEdge(c)]
           partner == [c \in outward |-> PartnerEdge(c)]
           first == AddEdges(res, {Offer(c, c, host[c], FALSE) : c \in hosted})
           both == AddEdges(first, {Offer(c, c, partner[c], FALSE) : c \in outward})
<1>1. r = both
  <2>1. {Offer(c, c, host[c], FALSE) : c \in hosted} = {Offer(c, c, HostEdge(c), FALSE) : c \in hosted}
    OBVIOUS
  <2>2. {Offer(c, c, partner[c], FALSE) : c \in outward} = {Offer(c, c, PartnerEdge(c), FALSE) : c \in outward}
    OBVIOUS
  <2> QED BY <2>1, <2>2 DEF ServiceEdges, HostEdge, PartnerEdge
<1>2. /\ hosted \in SUBSET AllEndpoints(w) /\ outward \in SUBSET AllEndpoints(w)
      /\ \A c \in AllEndpoints(w) : c \in hosted <=> Hosted(w, res, c)
      /\ \A c \in AllEndpoints(w) : c \in outward <=> Outward(w, c)
  <2>1. calls \in SUBSET AllEndpoints(w)
    BY DEF Playing
  <2>2. \A x, y : <<x, y>> \in resolved <=> \E e \in ToSet(res) : e.source.domain # NoName /\ e.source.id = x /\ e.to = y
    OBVIOUS
  <2> HIDE DEF resolved
  <2> QED BY <2>1, <2>2 DEF Hosted, Outward
<1>3. \A c \in hosted : host[c] = HostEdge(c)
  OBVIOUS
<1>4. \A c \in outward : partner[c] = PartnerEdge(c)
  OBVIOUS
<1> HIDE DEF hosted, outward, host, partner
<1>5. /\ first \in Seq(ToSet(first))
      /\ ToSet(res) \subseteq ToSet(first)
      /\ \A e \in ToSet(first) : e \in ToSet(res) \/ \E c \in hosted : e = host[c]
      /\ \A c \in hosted : \E e \in ToSet(first) : EdgeKey(e) = EdgeKey(host[c])
  <2>1. AddsEach(res, hosted, host, first)
    BY <1>2, AloneAdded
  <2> QED BY <2>1 DEF AddsEach
<1> HIDE DEF first
<1>6. /\ both \in Seq(ToSet(both))
      /\ ToSet(first) \subseteq ToSet(both)
      /\ \A e \in ToSet(both) : e \in ToSet(first) \/ \E c \in outward : e = partner[c]
      /\ \A c \in outward : \E e \in ToSet(both) : EdgeKey(e) = EdgeKey(partner[c])
  <2>1. AddsEach(first, outward, partner, both)
    BY <1>2, <1>5, AloneAdded
  <2> QED BY <2>1 DEF AddsEach
<1> HIDE DEF both
<1>7. ASSUME NEW c \in hosted PROVE Joins(r, "rest", c.service, c.site.domain)
  <2>1. PICK e \in ToSet(r) : EdgeKey(e) = EdgeKey(HostEdge(c))
    BY <1>1, <1>3, <1>5, <1>6
  <2>2. e.kind = "rest" /\ e.from = c.service /\ e.to = c.site.domain
    <3>1. e.kind = HostEdge(c).kind /\ e.from = HostEdge(c).from /\ e.to = HostEdge(c).to
      BY <2>1, KeysTell
    <3> QED BY <3>1 DEF HostEdge, Edge
  <2> QED BY <2>2 DEF Joins
<1>8. ASSUME NEW c \in outward PROVE Joins(r, "rest", c.service, c.site.external)
  <2>1. PICK e \in ToSet(r) : EdgeKey(e) = EdgeKey(PartnerEdge(c))
    BY <1>1, <1>4, <1>6
  <2>2. e.kind = "rest" /\ e.from = c.service /\ e.to = c.site.external
    <3>1. e.kind = PartnerEdge(c).kind /\ e.from = PartnerEdge(c).from /\ e.to = PartnerEdge(c).to
      BY <2>1, KeysTell
    <3> QED BY <3>1 DEF PartnerEdge, Edge
  <2> QED BY <2>2 DEF Joins
<1>9. ASSUME NEW e \in ToSet(r), e \notin ToSet(res)
      PROVE  \/ \E c \in AllEndpoints(w) : Hosted(w, res, c) /\ e = HostEdge(c)
             \/ \E c \in AllEndpoints(w) : Outward(w, c) /\ e = PartnerEdge(c)
  BY <1>1, <1>2, <1>3, <1>4, <1>5, <1>6, <1>9
<1>10. r \in Seq(ToSet(r)) /\ ToSet(res) \subseteq ToSet(r)
  BY <1>1, <1>5, <1>6
<1>11. \A c \in AllEndpoints(w) :
         /\ Hosted(w, res, c) => Joins(r, "rest", c.service, c.site.domain)
         /\ Outward(w, c) => Joins(r, "rest", c.service, c.site.external)
  BY <1>2, <1>7, <1>8
<1> QED BY <1>9, <1>10, <1>11

\* The Kafka endpoints that count: a manifest replaces what is detected.
Counted(w, role, e) ==
  /\ e \in Playing(w, "kafka", role)
  /\ \/ ~\E x \in AllEndpoints(w) : /\ x.service = e.service /\ x.site.system = "kafka"
                                    /\ x.site.source = "manifest"
     \/ e.site.source = "manifest"

\* A producer and a consumer of one topic in two services.
Joined(w, a, b) ==
  /\ Counted(w, "produce", a) /\ Counted(w, "consume", b)
  /\ a.service # b.service /\ a.site.topic = b.site.topic

\* An edge from a producer to the service of a consumer.
EventEdge(e, a, b) ==
  e.kind = "kafka" /\ e.from = a.service /\ e.to = b.service /\ e.source = a.site

\* The Kafka edges are those of producers and consumers of one topic.
LEMMA TopicsAre ==
  ASSUME NEW w, IsWorkspace(w), NEW r, r = TopicEdges(w)
  PROVE  /\ r \in Seq(ToSet(r))
         /\ \A e \in ToSet(r) : \E a, b \in AllEndpoints(w) : Joined(w, a, b) /\ EventEdge(e, a, b)
         /\ \A a, b \in AllEndpoints(w) : Joined(w, a, b) => \E e \in ToSet(r) : EventEdge(e, a, b)
<1> DEFINE kafka == EffectiveKafka(w)
           Part(role) == {e \in kafka : e.site.role = role}
           joined == {p \in [from : Part("produce"), to : Part("consume")] :
                        p.from.service # p.to.service /\ p.from.site.topic = p.to.site.topic}
           Event(p) == Edge("kafka", p.from.service, p.to.service, p.from.site, p.to.site, "resource")
           event == [p \in joined |-> Event(p)]
           f == [p \in joined |-> Offer(p.from, p.to, Event(p), FALSE)]
<1>1. r = AddEdges(<<>>, {f[p] : p \in joined})
  <2>1. {f[p] : p \in joined} = {Offer(p.from, p.to, Event(p), FALSE) : p \in joined}
    OBVIOUS
  <2> QED BY <2>1 DEF TopicEdges
<1>2. \A role, e : e \in Part(role) <=> e \in AllEndpoints(w) /\ Counted(w, role, e)
  BY DEF EffectiveKafka, Counted, Playing
<1>3. \A p \in joined : /\ p.from \in AllEndpoints(w) /\ p.to \in AllEndpoints(w)
                        /\ Joined(w, p.from, p.to)
  <2> HIDE DEF Part
  <2> QED BY <1>2 DEF Joined
<1>4. \A a, b \in AllEndpoints(w) : Joined(w, a, b) => [from |-> a, to |-> b] \in joined
  <2> HIDE DEF Part
  <2> QED BY <1>2 DEF Joined
<1>5. \A p \in joined : /\ event[p] = Event(p) /\ f[p].edge = event[p] /\ f[p].once = {}
                        /\ f[p].at = <<p.from.place, p.to.place>>
  <2> HIDE DEF joined
  <2> QED BY DEF Offer
<1>6. IsFiniteSet(joined)
  <2> DEFINE A == Part("produce")
             B == Part("consume")
  <2>1. A \in SUBSET AllEndpoints(w) /\ B \in SUBSET AllEndpoints(w)
    BY <1>2
  <2> HIDE DEF Part
  <2>2. joined \in SUBSET [from : A, to : B]
    OBVIOUS
  <2> HIDE DEF A, B, joined
  <2>3. IsFiniteSet(A) /\ IsFiniteSet(B)
    BY <2>1, WorkspacesAre, FS_Subset
  <2>4. IsFiniteSet([from : A, to : B])
    BY <2>3, FinitePairs
  <2> QED BY <2>2, <2>4, FS_Subset
<1> HIDE DEF joined, event, f
<1>7. ASSUME NEW p \in joined PROVE f[p].at \in (Nat \X Nat) \X (Nat \X Nat)
  <2>1. p.from.place \in Nat \X Nat /\ p.to.place \in Nat \X Nat
    BY <1>3, WorkspacesAre
  <2> QED BY <1>5, <2>1
<1>8. AddsEach(<<>>, joined, event, r)
  <2>1. <<>> \in Seq(Nat)
    OBVIOUS
  <2>2. Offers(joined, f, event)
    BY <1>5, <1>7 DEF Offers
  <2> DEFINE offers == {f[p] : p \in joined}
  <2>3. AddsEach(<<>>, joined, event, AddEdges(<<>>, offers))
    BY <1>6, <2>1, <2>2, OffersAdded
  <2> QED BY <1>1, <2>3
<1>9. \A p \in joined : EventEdge(event[p], p.from, p.to) /\ event[p].via = "resource"
  <2> SUFFICES ASSUME NEW p \in joined
               PROVE  EventEdge(event[p], p.from, p.to) /\ event[p].via = "resource"
    OBVIOUS
  <2>1. event[p] = Event(p)
    BY <1>5
  <2> QED BY <2>1 DEF Edge, EventEdge
<1>10. ASSUME NEW e \in ToSet(r)
       PROVE  \E a, b \in AllEndpoints(w) : Joined(w, a, b) /\ EventEdge(e, a, b)
  <2>1. e \notin ToSet(<<>>)
    BY DEF ToSet
  <2>2. PICK p \in joined : e = event[p]
    BY <1>8, <2>1 DEF AddsEach
  <2> QED BY <1>3, <1>9, <2>2
<1>11. ASSUME NEW a \in AllEndpoints(w), NEW b \in AllEndpoints(w), Joined(w, a, b)
       PROVE  \E e \in ToSet(r) : EventEdge(e, a, b)
  <2>1. PICK p \in joined : p.from = a /\ p.to = b
    BY <1>4, <1>11
  <2>2. PICK e \in ToSet(r) : EdgeKey(e) = EdgeKey(event[p])
    BY <1>8 DEF AddsEach
  <2>3. PICK c \in AllEndpoints(w), d \in AllEndpoints(w) : Joined(w, c, d) /\ EventEdge(e, c, d)
    BY <1>10
  <2>4. /\ e.kind = "kafka" /\ e.from = a.service /\ e.to = b.service
        /\ e.source.id = a.site.id
    BY <1>9, <2>1, <2>2, KeysTell DEF EventEdge
  <2>5. c.service = a.service /\ c.site.id = a.site.id
    BY <2>3, <2>4 DEF EventEdge
  <2>6. /\ c.service \in ToSet(w.services) /\ c.site \in ToSet(w.endpoints[c.service])
        /\ a.site \in ToSet(w.endpoints[a.service])
    BY WorkspacesAre
  <2>7. c.site = a.site
    BY <2>5, <2>6 DEF IsWorkspace
  <2> QED BY <2>3, <2>4, <2>7 DEF EventEdge
<1>12. r \in Seq(ToSet(r))
  BY <1>8 DEF AddsEach
<1> QED BY <1>10, <1>11, <1>12

\* A call that reaches a route is a reason to join the services.
LEMMA LinkedIsMeant ==
  ASSUME NEW w, IsWorkspace(w), NEW a \in AllEndpoints(w), NEW b \in AllEndpoints(w), Linked(w, a, b)
  PROVE  Meant(w, "rest", a.service, b.service)
<1>1. /\ a.service \in ToSet(w.services) /\ a.site \in ToSet(w.endpoints[a.service])
      /\ b.service \in ToSet(w.services) /\ b.site \in ToSet(w.endpoints[b.service])
  BY WorkspacesAre
<1>2. /\ a.site.system = "rest" /\ a.site.role = "call"
      /\ b.site.system = "rest" /\ b.site.role = "serve"
      /\ a.service # b.service
      /\ MatchesHint(b.service, TargetHint(a.site))
      /\ PathsMatch(a.site.topic, b.site.topic) \/ ResolvesConfiguredCall(a.site, b.site)
  BY DEF Linked, Playing, Reaches
<1> QED BY <1>1, <1>2 DEF Meant

\* A call that names a service is a reason to join them.
LEMMA ClientIsMeant ==
  ASSUME NEW w, IsWorkspace(w), NEW c \in AllEndpoints(w), c \in Playing(w, "rest", "call"), NEW to,
         to # c.service, c.site.external = to \/ (c.site.domain = to /\ to \in ToSet(w.services))
  PROVE  Meant(w, "rest", c.service, to)
<1>1. c.service \in ToSet(w.services) /\ c.site \in ToSet(w.endpoints[c.service])
  BY WorkspacesAre
<1>2. c.site.system = "rest" /\ c.site.role = "call"
  BY DEF Playing
<1> QED BY <1>1, <1>2 DEF Meant

\* An endpoint counts exactly when its service has no manifest or it is of it.
LEMMA CountedMeans ==
  ASSUME NEW w, IsWorkspace(w), NEW e \in AllEndpoints(w), NEW role
  PROVE  Counted(w, role, e) <=>
           /\ e.site.system = "kafka" /\ e.site.role = role
           /\ (\E x \in ToSet(w.endpoints[e.service]) : x.system = "kafka" /\ x.source = "manifest")
                => e.site.source = "manifest"
<1>1. (\E x \in AllEndpoints(w) : /\ x.service = e.service /\ x.site.system = "kafka"
                                  /\ x.site.source = "manifest")
      <=> \E x \in ToSet(w.endpoints[e.service]) : x.system = "kafka" /\ x.source = "manifest"
  <2>1. e.service \in ToSet(w.services)
    BY WorkspacesAre
  <2>2. ASSUME NEW x \in AllEndpoints(w), x.service = e.service
        PROVE  x.site \in ToSet(w.endpoints[e.service])
    BY <2>2, WorkspacesAre
  <2>3. \A y \in ToSet(w.endpoints[e.service]) :
          \E x \in AllEndpoints(w) : x.service = e.service /\ x.site = y
    BY <2>1, WorkspacesAre
  <2> QED BY <2>2, <2>3
<1> QED BY <1>1 DEF Counted, Playing

\* A common topic is a reason to join the services.
LEMMA JoinedIsMeant ==
  ASSUME NEW w, IsWorkspace(w), NEW a \in AllEndpoints(w), NEW b \in AllEndpoints(w), Joined(w, a, b)
  PROVE  Meant(w, "kafka", a.service, b.service)
<1>1. /\ a.service \in ToSet(w.services) /\ a.site \in ToSet(w.endpoints[a.service])
      /\ b.service \in ToSet(w.services) /\ b.site \in ToSet(w.endpoints[b.service])
  BY WorkspacesAre
<1>2. /\ a.service # b.service /\ a.site.topic = b.site.topic
      /\ Counted(w, "produce", a) /\ Counted(w, "consume", b)
  BY DEF Joined
<1> QED BY <1>1, <1>2, CountedMeans DEF Meant

\* Services that are meant to be joined by Kafka have a common topic.
LEMMA MeantIsJoined ==
  ASSUME NEW w, IsWorkspace(w), NEW from, NEW to, Meant(w, "kafka", from, to)
  PROVE  \E a, b \in AllEndpoints(w) : Joined(w, a, b) /\ a.service = from /\ b.service = to
<1> DEFINE Described(s) == \E e \in ToSet(w.endpoints[s]) : e.system = "kafka" /\ e.source = "manifest"
           Counts(s, role) == {e \in ToSet(w.endpoints[s]) :
                                 /\ e.system = "kafka" /\ e.role = role
                                 /\ Described(s) => e.source = "manifest"}
<1>1. /\ from # to /\ from \in ToSet(w.services) /\ to \in ToSet(w.services)
      /\ \E p \in Counts(from, "produce"), c \in Counts(to, "consume") : p.topic = c.topic
  BY DEF Meant
<1>2. PICK p \in Counts(from, "produce"), c \in Counts(to, "consume") : p.topic = c.topic
  BY <1>1
<1>3. PICK a \in AllEndpoints(w) : a.service = from /\ a.site = p
  BY <1>1, WorkspacesAre
<1>4. PICK b \in AllEndpoints(w) : b.service = to /\ b.site = c
  BY <1>1, WorkspacesAre
<1>5. Counted(w, "produce", a) /\ Counted(w, "consume", b)
  BY <1>3, <1>4, CountedMeans
<1>6. Joined(w, a, b)
  BY <1>1, <1>2, <1>3, <1>4, <1>5 DEF Joined
<1> QED BY <1>3, <1>4, <1>6

\* Services that are meant to be joined by REST have a call that reaches the
\* other or names it.
LEMMA MeantIsReached ==
  ASSUME NEW w, IsWorkspace(w), NEW from, NEW to, Meant(w, "rest", from, to)
  PROVE  /\ from # to
         /\ \E a \in Playing(w, "rest", "call") :
              /\ a.service = from
              /\ \/ a.site.external = to
                 \/ a.site.domain = to /\ to \in ToSet(w.services)
                 \/ \E b \in AllEndpoints(w) : Linked(w, a, b) /\ b.service = to
<1>1. from # to /\ from \in ToSet(w.services)
  BY DEF Meant
<1>2. PICK c \in ToSet(w.endpoints[from]) :
        /\ c.system = "rest" /\ c.role = "call"
        /\ \/ c.external = to
           \/ c.domain = to /\ to \in ToSet(w.services)
           \/ /\ to \in ToSet(w.services) /\ MatchesHint(to, TargetHint(c))
              /\ \E s \in ToSet(w.endpoints[to]) : /\ s.system = "rest" /\ s.role = "serve"
                                                   /\ \/ PathsMatch(c.topic, s.topic)
                                                      \/ ResolvesConfiguredCall(c, s)
  BY DEF Meant
<1>3. PICK a \in AllEndpoints(w) : a.service = from /\ a.site = c
  BY <1>1, WorkspacesAre
<1>4. a \in Playing(w, "rest", "call")
  BY <1>2, <1>3 DEF Playing
<1>5. ASSUME to \in ToSet(w.services), MatchesHint(to, TargetHint(c)),
             NEW s \in ToSet(w.endpoints[to]), s.system = "rest", s.role = "serve",
             PathsMatch(c.topic, s.topic) \/ ResolvesConfiguredCall(c, s)
      PROVE  \E b \in AllEndpoints(w) : Linked(w, a, b) /\ b.service = to
  <2>1. PICK b \in AllEndpoints(w) : b.service = to /\ b.site = s
    BY <1>5, WorkspacesAre
  <2>2. b \in Playing(w, "rest", "serve")
    BY <1>5, <2>1 DEF Playing
  <2>3. Linked(w, a, b)
    BY <1>1, <1>3, <1>4, <1>5, <2>1, <2>2 DEF Linked, Reaches
  <2> QED BY <2>1, <2>3
<1> QED BY <1>1, <1>2, <1>3, <1>4, <1>5

\* The edges are meant, and what is meant is joined, but for a call whose
\* identity is taken.
Graphs(w, g) ==
  /\ \A e \in ToSet(g) : /\ e.kind \in Kinds /\ e.from \in ToSet(w.services) /\ e.to # NoName
                         /\ Meant(w, e.kind, e.from, e.to)
  /\ \A from, to : Meant(w, "kafka", from, to) => Joins(g, "kafka", from, to)
  /\ \A from, to : to # NoName /\ Meant(w, "rest", from, to) =>
       Joins(g, "rest", from, to) \/ IdentityTaken(w, from, to, g)

\* The graph has the edges of both systems.
LEMMA GraphParts ==
  ASSUME NEW w, NEW srv, srv = ServiceEdges(w, ResourceEdges(w)), srv \in Seq(ToSet(srv)),
         NEW top, top = TopicEdges(w), top \in Seq(ToSet(top))
  PROVE  ToSet(BuildGraph(w)) = ToSet(srv) \cup ToSet(top)
<1> DEFINE S == ToSet(srv) \cup ToSet(top)
<1>1. (\A i \in DOMAIN srv : srv[i] \in S) /\ (\A i \in DOMAIN top : top[i] \in S)
  BY DEF ToSet
<1> HIDE DEF S
<1>2. srv \in Seq(S) /\ top \in Seq(S)
  BY <1>1
<1>3. ToSet(srv \o top) = ToSet(srv) \cup ToSet(top)
  BY <1>2, Concatenated
<1> QED BY <1>3 DEF BuildGraph

\* What build_graph returns is so, for every workspace.
LEMMA GraphMeans ==
  ASSUME NEW w, IsWorkspace(w)
  PROVE  Graphs(w, BuildGraph(w))
<1> DEFINE res == ResourceEdges(w)
           srv == ServiceEdges(w, res)
           top == TopicEdges(w)
           g == BuildGraph(w)
<1>1. /\ res \in Seq(ToSet(res))
      /\ \A e \in ToSet(res) : \E a, b \in AllEndpoints(w) : Linked(w, a, b) /\ e = ResourceEdge(a, b)
      /\ \A a, b \in AllEndpoints(w) : Linked(w, a, b) =>
           \/ Joins(res, "rest", a.service, b.service)
           \/ Proxy(a.site) /\ \E e \in ToSet(res) : /\ e.to = b.service /\ e.source.id = a.site.id
                                                     /\ e.source.gateway
  BY ResourcesAre
<1> HIDE DEF res
<1>2. /\ srv \in Seq(ToSet(srv))
      /\ ToSet(res) \subseteq ToSet(srv)
      /\ \A e \in ToSet(srv) : \/ e \in ToSet(res)
                               \/ \E c \in AllEndpoints(w) : Hosted(w, res, c) /\ e = HostEdge(c)
                               \/ \E c \in AllEndpoints(w) : Outward(w, c) /\ e = PartnerEdge(c)
      /\ \A c \in AllEndpoints(w) :
           /\ Hosted(w, res, c) => Joins(srv, "rest", c.service, c.site.domain)
           /\ Outward(w, c) => Joins(srv, "rest", c.service, c.site.external)
  BY <1>1, ServicesAre
<1>3. /\ top \in Seq(ToSet(top))
      /\ \A e \in ToSet(top) : \E a, b \in AllEndpoints(w) : Joined(w, a, b) /\ EventEdge(e, a, b)
      /\ \A a, b \in AllEndpoints(w) : Joined(w, a, b) => \E e \in ToSet(top) : EventEdge(e, a, b)
  BY TopicsAre
<1> HIDE DEF srv, top, g
<1>5. ToSet(g) = ToSet(srv) \cup ToSet(top)
  BY <1>2, <1>3, GraphParts DEF g, srv, res, top
<1>6. \A e \in AllEndpoints(w) : e.service \in ToSet(w.services) /\ NoName \notin ToSet(w.services)
                                 /\ e.site \in ToSet(w.endpoints[e.service])
  BY WorkspacesAre
<1>7. ASSUME NEW e \in ToSet(g)
      PROVE  /\ e.kind \in Kinds /\ e.from \in ToSet(w.services) /\ e.to # NoName
             /\ Meant(w, e.kind, e.from, e.to)
  <2>1. CASE e \in ToSet(res)
    <3>1. PICK a \in AllEndpoints(w), b \in AllEndpoints(w) : Linked(w, a, b) /\ e = ResourceEdge(a, b)
      BY <1>1, <2>1
    <3>2. e.kind = "rest" /\ e.from = a.service /\ e.to = b.service
      BY <3>1 DEF ResourceEdge, Edge
    <3>3. Meant(w, "rest", a.service, b.service)
      BY <3>1, LinkedIsMeant
    <3> QED BY <1>6, <3>2, <3>3 DEF Kinds
  <2>2. ASSUME NEW c \in AllEndpoints(w), Hosted(w, res, c), e = HostEdge(c)
        PROVE  /\ e.kind \in Kinds /\ e.from \in ToSet(w.services) /\ e.to # NoName
               /\ Meant(w, e.kind, e.from, e.to)
    <3>1. e.kind = "rest" /\ e.from = c.service /\ e.to = c.site.domain
      BY <2>2 DEF HostEdge, Edge
    <3>2. Meant(w, "rest", c.service, c.site.domain)
      BY <2>2, ClientIsMeant DEF Hosted
    <3> QED BY <1>6, <2>2, <3>1, <3>2 DEF Hosted, Kinds
  <2>3. ASSUME NEW c \in AllEndpoints(w), Outward(w, c), e = PartnerEdge(c)
        PROVE  /\ e.kind \in Kinds /\ e.from \in ToSet(w.services) /\ e.to # NoName
               /\ Meant(w, e.kind, e.from, e.to)
    <3>1. e.kind = "rest" /\ e.from = c.service /\ e.to = c.site.external
      BY <2>3 DEF PartnerEdge, Edge
    <3>2. c \in Playing(w, "rest", "call") /\ c.site.external # c.service
      BY <2>3 DEF Outward
    <3>3. Meant(w, "rest", c.service, c.site.external)
      BY <3>2, ClientIsMeant
    <3> QED BY <1>6, <2>3, <3>1, <3>3 DEF Outward, Kinds
  <2>4. CASE e \in ToSet(top)
    <3>1. PICK a \in AllEndpoints(w), b \in AllEndpoints(w) :
            Joined(w, a, b) /\ e.kind = "kafka" /\ e.from = a.service /\ e.to = b.service
      BY <1>3, <2>4 DEF EventEdge
    <3>2. Meant(w, "kafka", a.service, b.service)
      BY <3>1, JoinedIsMeant
    <3> QED BY <1>6, <3>1, <3>2 DEF Kinds
  <2> QED BY <1>2, <1>5, <2>1, <2>2, <2>3, <2>4
<1>8. ASSUME NEW from, NEW to, Meant(w, "kafka", from, to) PROVE Joins(g, "kafka", from, to)
  <2>1. PICK a \in AllEndpoints(w), b \in AllEndpoints(w) : Joined(w, a, b) /\ a.service = from /\ b.service = to
    BY <1>8, MeantIsJoined
  <2> QED BY <1>3, <1>5, <2>1 DEF Joins, EventEdge
<1>9. ASSUME NEW from, NEW to, to # NoName, Meant(w, "rest", from, to)
      PROVE  Joins(g, "rest", from, to) \/ IdentityTaken(w, from, to, g)
  <2>0. \A e \in ToSet(res) : e \in ToSet(g) /\ e.kind = "rest"
    BY <1>1, <1>2, <1>5 DEF ResourceEdge, Edge
  <2>1. from # to
    BY <1>9, MeantIsReached
  <2>2. PICK a \in Playing(w, "rest", "call") :
          /\ a.service = from
          /\ \/ a.site.external = to
             \/ a.site.domain = to /\ to \in ToSet(w.services)
             \/ \E b \in AllEndpoints(w) : Linked(w, a, b) /\ b.service = to
    BY <1>9, MeantIsReached
  <2>3. a \in AllEndpoints(w) /\ a.site \in ToSet(w.endpoints[from])
    BY <1>6, <2>2 DEF Playing
  <2>4. CASE a.site.external = to
    <3>1. Outward(w, a)
      BY <1>9, <2>1, <2>2, <2>4 DEF Outward
    <3> QED BY <1>2, <1>5, <2>2, <2>3, <2>4, <3>1 DEF Joins
  <2>5. CASE a.site.domain = to /\ to \in ToSet(w.services)
    <3>1. CASE Hosted(w, res, a)
      BY <1>2, <1>5, <2>2, <2>3, <2>5, <3>1 DEF Joins
    <3>2. CASE ~Hosted(w, res, a)
      <4>1. PICK e \in ToSet(res) : /\ e.source.domain # NoName
                                    /\ e.source.id = a.site.id /\ e.to = to
        BY <2>1, <2>2, <2>5, <3>2 DEF Hosted
      <4>2. CASE e.from = from
        BY <2>0, <4>1, <4>2 DEF Joins
      <4>3. CASE e.from # from
        BY <2>0, <2>3, <2>5, <4>1, <4>3 DEF IdentityTaken
      <4> QED BY <4>2, <4>3
    <3> QED BY <3>1, <3>2
  <2>6. ASSUME NEW b \in AllEndpoints(w), Linked(w, a, b), b.service = to
        PROVE  Joins(g, "rest", from, to) \/ IdentityTaken(w, from, to, g)
    <3>1. CASE Joins(res, "rest", from, to)
      BY <2>0, <3>1 DEF Joins
    <3>2. CASE Proxy(a.site) /\ \E e \in ToSet(res) : /\ e.to = to /\ e.source.id = a.site.id
                                                      /\ e.source.gateway
      <4>1. PICK e \in ToSet(res) : e.to = to /\ e.source.id = a.site.id /\ e.source.gateway
        BY <3>2
      <4>2. CASE e.from = from
        BY <2>0, <4>1, <4>2 DEF Joins
      <4>3. CASE e.from # from
        BY <2>0, <2>3, <3>2, <4>1, <4>3 DEF IdentityTaken
      <4> QED BY <4>2, <4>3
    <3> QED BY <1>1, <2>2, <2>3, <2>6, <3>1, <3>2
  <2> QED BY <2>2, <2>4, <2>5, <2>6
<1> QED BY <1>7, <1>8, <1>9 DEF Graphs, g

\* And so it is what GraphIsMeant says of it.
LEMMA GraphAnswers ==
  ASSUME about \in Workspaces, answer = BuildGraph(about) PROVE GraphIsMeant
<1> DEFINE joined == {<<e.kind, e.from, e.to>> : e \in ToSet(answer)}
           targets == ToSet(about.services) \cup {e.to : e \in ToSet(answer)}
                        \cup {e.site.external : e \in AllEndpoints(about)}
           meant == {k \in Kinds \X ToSet(about.services) \X (targets \ {NoName}) :
                       Meant(about, k[1], k[2], k[3])}
<1>1. Graphs(about, answer)
  BY GraphMeans, RoutingAssumption
<1>2. joined \subseteq meant
  <2> SUFFICES ASSUME NEW e \in ToSet(answer) PROVE <<e.kind, e.from, e.to>> \in meant
    OBVIOUS
  <2>1. /\ e.kind \in Kinds /\ e.from \in ToSet(about.services) /\ e.to # NoName
        /\ Meant(about, e.kind, e.from, e.to)
    BY <1>1 DEF Graphs
  <2>2. e.to \in targets \ {NoName}
    BY <2>1
  <2> HIDE DEF targets
  <2> QED BY <2>1, <2>2
<1>3. ASSUME NEW k \in meant \ joined
      PROVE  k[1] = "rest" /\ IdentityTaken(about, k[2], k[3], answer)
  <2>1. /\ k[1] \in Kinds /\ k[3] # NoName /\ Meant(about, k[1], k[2], k[3])
        /\ k = <<k[1], k[2], k[3]>>
    <3> HIDE DEF targets
    <3> QED OBVIOUS
  <2>2. ~Joins(answer, k[1], k[2], k[3])
    BY <2>1 DEF Joins
  <2>3. k[1] # "kafka"
    BY <1>1, <2>1, <2>2 DEF Graphs
  <2>4. k[1] = "rest"
    BY <2>1, <2>3 DEF Kinds
  <2> QED BY <1>1, <2>1, <2>2, <2>4 DEF Graphs
<1> HIDE DEF joined, meant
<1>4. /\ joined \subseteq meant
      /\ \A k \in meant \ joined : k[1] = "rest" /\ IdentityTaken(about, k[2], k[3], answer)
  BY <1>2, <1>3
<1> QED BY <1>4 DEF GraphIsMeant, joined, meant

-----------------------------------------------------------------------------
\* What is made of the graph: the dependencies and the risks.

\* An edge has the evidence of a call of its service, with its identity and
\* its domain, or it is that of a producer and a consumer of one topic.
LEMMA GraphIsMade ==
  ASSUME NEW w, IsWorkspace(w), NEW g, g = BuildGraph(w)
  PROVE  /\ \A e \in ToSet(g) :
              \/ /\ e.kind = "rest"
                 /\ \E a \in Playing(w, "rest", "call") :
                      /\ a.service = e.from /\ a.site.id = e.source.id
                      /\ a.site.domain = e.source.domain
              \/ /\ e.kind = "kafka"
                 /\ \E a, b \in AllEndpoints(w) : Joined(w, a, b) /\ EventEdge(e, a, b)
         /\ \A a, b \in AllEndpoints(w) : Joined(w, a, b) => \E e \in ToSet(g) : EventEdge(e, a, b)
<1> DEFINE res == ResourceEdges(w)
           srv == ServiceEdges(w, res)
           top == TopicEdges(w)
<1>1. /\ res \in Seq(ToSet(res))
      /\ \A e \in ToSet(res) : \E a, b \in AllEndpoints(w) : Linked(w, a, b) /\ e = ResourceEdge(a, b)
  BY ResourcesAre
<1> HIDE DEF res
<1>2. /\ srv \in Seq(ToSet(srv))
      /\ \A e \in ToSet(srv) : \/ e \in ToSet(res)
                               \/ \E c \in AllEndpoints(w) : Hosted(w, res, c) /\ e = HostEdge(c)
                               \/ \E c \in AllEndpoints(w) : Outward(w, c) /\ e = PartnerEdge(c)
  BY <1>1, ServicesAre
<1>3. /\ top \in Seq(ToSet(top))
      /\ \A e \in ToSet(top) : \E a, b \in AllEndpoints(w) : Joined(w, a, b) /\ EventEdge(e, a, b)
      /\ \A a, b \in AllEndpoints(w) : Joined(w, a, b) => \E e \in ToSet(top) : EventEdge(e, a, b)
  BY TopicsAre
<1> HIDE DEF srv, top
<1>4. ToSet(g) = ToSet(srv) \cup ToSet(top)
  BY <1>2, <1>3, GraphParts DEF srv, res, top
<1> DEFINE OfCall(e) == /\ e.kind = "rest"
                        /\ \E a \in Playing(w, "rest", "call") :
                             /\ a.service = e.from /\ a.site.id = e.source.id
                             /\ a.site.domain = e.source.domain
<1>5. ASSUME NEW e \in ToSet(res) PROVE OfCall(e)
  <2>1. PICK a \in AllEndpoints(w), b \in AllEndpoints(w) : Linked(w, a, b) /\ e = ResourceEdge(a, b)
    BY <1>1
  <2>2. e.kind = "rest" /\ e.from = a.service /\ e.source = EffectiveCall(a.site, b.site)
    BY <2>1 DEF ResourceEdge, Edge
  <2>3. a \in Playing(w, "rest", "call") /\ SiteFields \subseteq DOMAIN a.site
    BY <2>1, WorkspacesAre DEF Linked
  <2> QED BY <2>2, <2>3, CallsKept
<1>6. ASSUME NEW c \in AllEndpoints(w), NEW e,
             \/ Hosted(w, res, c) /\ e = HostEdge(c)
             \/ Outward(w, c) /\ e = PartnerEdge(c)
      PROVE  OfCall(e)
  <2>1. c \in Playing(w, "rest", "call")
    BY <1>6 DEF Hosted, Outward
  <2>2. e.kind = "rest" /\ e.from = c.service /\ e.source = c.site
    BY <1>6 DEF HostEdge, PartnerEdge, Edge
  <2> QED BY <2>1, <2>2
<1>7. \A e \in ToSet(srv) : OfCall(e)
  BY <1>2, <1>5, <1>6
<1>8. \A e \in ToSet(top) : e.kind = "kafka"
  BY <1>3 DEF EventEdge
<1> QED BY <1>3, <1>4, <1>7, <1>8

\* Of the relations that differ in their confidence alone there is a first, so
\* each endpoint has a relation between its nodes.
LEMMA FirstIsKept ==
  ASSUME NEW w, IsWorkspace(w), NEW C \in SUBSET AllEndpoints(w), NEW f, NEW e \in C
  PROVE  LET Of(x) == f[x] IN
         \E r \in FirstOfEach(C, Of) : /\ r.source = f[e].source /\ r.target = f[e].target
                                       /\ r.kind = f[e].kind
<1> DEFINE key == [x \in C |-> <<f[x].source, f[x].target, f[x].kind, f[x].label>>]
           S == {x \in C : key[x] = key[e]}
           R == {p \in S \X S : PlaceBefore(p[2].place, p[1].place)}
<1>1. \A y \in C : key[y] = <<f[y].source, f[y].target, f[y].kind, f[y].label>>
  OBVIOUS
<1> HIDE DEF key
<1>2. IsFiniteSet(S) /\ e \in S
  <2>1. S \in SUBSET AllEndpoints(w)
    OBVIOUS
  <2>2. IsFiniteSet(AllEndpoints(w))
    BY WorkspacesAre
  <2>3. IsFiniteSet(S)
    <3> HIDE DEF S
    <3> QED BY <2>1, <2>2, FS_Subset
  <2> QED BY <2>3
<1>3. \A x \in S : x.place \in Nat \X Nat
  BY WorkspacesAre
<1>4. \A a, b, c \in Nat \X Nat :
        /\ ~PlaceBefore(a, a)
        /\ PlaceBefore(c, b) /\ PlaceBefore(b, a) => PlaceBefore(c, a)
  BY DEF PlaceBefore
<1>5. \A x, y \in S : <<x, y>> \in R <=> PlaceBefore(y.place, x.place)
  OBVIOUS
<1> HIDE DEF R
<1>6. \A x \in C : x \in S <=> key[x] = key[e]
  OBVIOUS
<1>7. S \subseteq C
  OBVIOUS
<1> HIDE DEF S
<1>8. \A x, y, z \in S : <<x, y>> \in R /\ <<y, z>> \in R => <<x, z>> \in R
  BY <1>3, <1>4, <1>5
<1>9. \A x \in S : <<x, x>> \notin R
  BY <1>3, <1>4, <1>5
<1>10. PICK x \in S : \A y \in S : <<x, y>> \notin R
  BY <1>2, <1>8, <1>9, MaximalExists
<1>11. \A y \in C : PlaceBefore(y.place, x.place) => key[y] # key[x]
  BY <1>5, <1>6, <1>7, <1>10
<1>12. f[x].source = f[e].source /\ f[x].target = f[e].target /\ f[x].kind = f[e].kind
  BY <1>1, <1>6, <1>7
<1> QED BY <1>1, <1>7, <1>11, <1>12 DEF FirstOfEach

\* A call of no service that is known is shown as one of an external API, unless
\* an edge has its identity.
LEMMA OutsideIsShown ==
  ASSUME NEW w, IsWorkspace(w), NEW g, NEW e \in Playing(w, "rest", "call"),
         e.site.domain = NoName,
         \/ e.site.external # NoName
         \/ \A x \in ToSet(g) : x.kind = "rest" => x.source.id # e.site.id
  PROVE  \E r \in OutsideRelations(w, g) :
           /\ r.source = Service(e.service)
           /\ IF e.site.external # NoName
              THEN r.kind = "http" /\ r.target = Service(e.site.external)
              ELSE r.kind = "calls_external" /\ r.target = Node("external_api", e.site.topic)
<1> DEFINE matched == {x.source.id : x \in {y \in ToSet(g) : y.kind = "rest"}}
           calls == {x \in Playing(w, "rest", "call") : /\ x.site.domain = NoName
                                                        /\ \/ x.site.external # NoName
                                                           \/ x.site.id \notin matched}
           f == [x \in calls |-> OutsideRelation(x)]
           Of(x) == f[x]
<1>1. OutsideRelations(w, g) = FirstOfEach(calls, OutsideRelation)
  BY DEF OutsideRelations
<1>2. calls \in SUBSET AllEndpoints(w) /\ e \in calls
  BY DEF Playing
<1> HIDE DEF calls
<1>3. \A x \in calls : f[x] = OutsideRelation(x)
  OBVIOUS
<1> HIDE DEF f
<1>4. \E r \in FirstOfEach(calls, Of) :
        r.source = f[e].source /\ r.target = f[e].target /\ r.kind = f[e].kind
  BY <1>2, FirstIsKept
<1>5. FirstOfEach(calls, Of) = FirstOfEach(calls, OutsideRelation)
  BY <1>3 DEF FirstOfEach
<1>6. PICK r \in OutsideRelations(w, g) :
        r.source = f[e].source /\ r.target = f[e].target /\ r.kind = f[e].kind
  BY <1>1, <1>4, <1>5
<1>7. f[e] = OutsideRelation(e)
  BY <1>2, <1>3
<1> QED BY <1>6, <1>7 DEF OutsideRelation, Dependency

\* The edge of a call that is shown by it, if another service has none of its
\* identity: it leads to a service that is meant.
LEMMA MatchedIsShown ==
  ASSUME NEW w, IsWorkspace(w), NEW g, g = BuildGraph(w), NEW e \in Playing(w, "rest", "call"),
         e.site.domain = NoName, NEW y \in ToSet(g), y.kind = "rest", y.source.id = e.site.id,
         \A x \in Playing(w, "rest", "call") : x.site.id = e.site.id => x.service = e.service
  PROVE  \E r \in HttpRelations(g) :
           /\ r.source = Service(e.service) /\ r.kind = "http"
           /\ Meant(w, "rest", e.service, r.target[3])
<1> DEFINE rest == {x \in ToSet(g) : x.kind = "rest"}
           configured == {x.source.id : x \in {z \in rest : z.source.domain # NoName}}
           Resource(x) == <<x.to, IF x.target = NoEndpoint THEN API ELSE x.target.topic>>
           Http(x) == Dependency(Service(x.from), Service(x.to), "http", Resource(x), "high")
<1>1. ASSUME NEW z \in ToSet(g), z.kind = "rest", z.source.id = e.site.id
      PROVE  z.from = e.service /\ z.source.domain = NoName
  <2>1. PICK a \in Playing(w, "rest", "call") :
          a.service = z.from /\ a.site.id = z.source.id /\ a.site.domain = z.source.domain
    BY <1>1, GraphIsMade
  <2>2. a.service = e.service /\ a.site.id = e.site.id
    BY <1>1, <2>1
  <2>3. a \in AllEndpoints(w) /\ e \in AllEndpoints(w)
    BY DEF Playing
  <2>4. /\ a.service \in ToSet(w.services) /\ a.site \in ToSet(w.endpoints[a.service])
        /\ e.site \in ToSet(w.endpoints[e.service])
    BY <2>3, WorkspacesAre
  <2>5. a.site = e.site
    BY <2>2, <2>4 DEF IsWorkspace
  <2> QED BY <2>1, <2>2, <2>5
<1>2. y \in rest /\ y.source.id \notin configured
  BY <1>1
<1>3. Http(y) \in HttpRelations(g)
  BY <1>2 DEF HttpRelations
<1>4. Meant(w, "rest", y.from, y.to)
  BY GraphMeans DEF Graphs
<1>5. /\ Http(y).source = Service(e.service) /\ Http(y).kind = "http"
      /\ Http(y).target[3] = y.to /\ y.from = e.service
  BY <1>1 DEF Dependency, Service, Node
<1> QED BY <1>3, <1>4, <1>5

\* So every call is shown.
LEMMA CallsAreShown ==
  ASSUME NEW w, IsWorkspace(w), NEW d, d = BuildDependencyGraph(w),
         NEW e \in Playing(w, "rest", "call")
  PROVE  IsShown(w, d, e)
<1> DEFINE g == BuildGraph(w)
<1>1. /\ HttpRelations(g) \cup OutsideRelations(w, g) \cup ConfiguredRelations(w) \subseteq d.edges
      /\ d.warnings = Warnings(w)
  BY DEF BuildDependencyGraph, DependencyGraph
<1>2. e.site.domain = NoName /\ e.site.external # NoName => Service(e.site.external) \in d.external
  BY DEF BuildDependencyGraph, DependencyGraph
<1> HIDE DEF g
<1>3. CASE e.site.domain # NoName
  <2> DEFINE c == <<e.service, e.site.domain>>
             r == Dependency(Service(e.service), Service(e.site.domain), "http",
                             <<e.site.domain, API>>, "high")
  <2>1. c \in ConfiguredClients(w)
    BY <1>3 DEF ConfiguredClients
  <2>2. CASE c[2] \in KnownMicroservices(w)
    <3>1. r \in ConfiguredRelations(w)
      BY <2>1, <2>2 DEF ConfiguredRelations
    <3>2. r.source = Service(e.service) /\ r.kind = "http" /\ r.target = Service(e.site.domain)
      BY DEF Dependency
    <3> HIDE DEF r
    <3> QED BY <1>1, <1>3, <3>1, <3>2 DEF IsShown
  <2>3. CASE c[2] \notin KnownMicroservices(w)
    BY <1>1, <1>3, <2>1, <2>3 DEF Warnings, IsShown
  <2> QED BY <2>2, <2>3
<1>4. CASE e.site.domain = NoName /\ e.site.external # NoName
  <2>1. PICK r \in OutsideRelations(w, g) :
          r.source = Service(e.service) /\ r.kind = "http" /\ r.target = Service(e.site.external)
    BY <1>4, OutsideIsShown
  <2> QED BY <1>1, <1>2, <1>4, <2>1 DEF IsShown
<1>5. CASE e.site.domain = NoName /\ e.site.external = NoName
  <2>1. CASE \A x \in ToSet(g) : x.kind = "rest" => x.source.id # e.site.id
    <3>1. PICK r \in OutsideRelations(w, g) :
            /\ r.source = Service(e.service) /\ r.kind = "calls_external"
            /\ r.target = Node("external_api", e.site.topic)
      BY <1>5, <2>1, OutsideIsShown
    <3> QED BY <1>1, <1>5, <3>1 DEF IsShown
  <2>2. ASSUME NEW y \in ToSet(g), y.kind = "rest", y.source.id = e.site.id,
               \A x \in Playing(w, "rest", "call") : x.site.id = e.site.id => x.service = e.service
        PROVE  \E x \in d.edges : /\ x.source = Service(e.service) /\ x.kind = "http"
                                       /\ Meant(w, "rest", e.service, x.target[3])
    <3>1. \E r \in HttpRelations(g) :
            /\ r.source = Service(e.service) /\ r.kind = "http"
            /\ Meant(w, "rest", e.service, r.target[3])
      BY <1>5, <2>2, MatchedIsShown DEF g
    <3> QED BY <1>1, <3>1
  <2> QED BY <1>5, <2>1, <2>2 DEF IsShown
<1> QED BY <1>3, <1>4, <1>5

\* A risk is told by its id.
LEMMA RisksAre ==
  ASSUME NEW w, NEW g, NEW id, NEW place, NEW services,
         NEW r, r = Risk(id, place, services)
  PROVE  /\ id \in {"orphan-kafka-producer", "orphan-kafka-consumer"} =>
              (r \in AssessArchitecture(w, g) <=> r \in OrphanRisks(w, g))
         /\ id = "synchronous-rest-cycle" =>
              (r \in AssessArchitecture(w, g) <=> r \in CycleRisks(g))
<1>1. r[1] = id
  BY DEF Risk
<1>2. \A x \in DynamicRisks(w) : x[1] \in {"dynamic-kafka-topic", "dynamic-http-target"}
  BY DEF DynamicRisks, Risk
<1>3. \A x \in ContractRisks(w) :
        x[1] \in {"kafka-message-contract-mismatch", "kafka-message-contract-unknown"}
  BY DEF ContractRisks, Risk
<1>4. \A x \in ActivityRisks(w) : x[1] = "non-runtime-module-activity"
  BY DEF ActivityRisks, Risk
<1>5. \A x \in CycleRisks(g) : x[1] = "synchronous-rest-cycle"
  BY DEF CycleRisks, Risk
<1>6. \A x \in OrphanRisks(w, g) : x[1] \in {"orphan-kafka-producer", "orphan-kafka-consumer"}
  BY DEF OrphanRisks, Orphans, Risk
<1> QED BY <1>1, <1>2, <1>3, <1>4, <1>5, <1>6 DEF AssessArchitecture

\* An edge of a topic that leaves, or reaches, a service.
Sends(g, s, t) == \E e \in ToSet(g) : e.kind = "kafka" /\ e.from = s /\ e.source.topic = t
Receives(g, s, t) == \E e \in ToSet(g) : e.kind = "kafka" /\ e.to = s /\ e.source.topic = t

\* The services with such an edge are those with a peer.
LEMMA PeersAre ==
  ASSUME NEW w, IsWorkspace(w), NEW g, g = BuildGraph(w), NEW s, NEW t
  PROVE  /\ Sends(g, s, t) <=> HasPeer(w, s, "produce", t)
         /\ Receives(g, s, t) <=> HasPeer(w, s, "consume", t)
<1>1. \A role, e : Counted(w, role, e) <=> e \in EffectiveKafka(w) /\ e.site.role = role
  BY DEF EffectiveKafka, Counted, Playing
<1>2. \A a, b : Joined(w, a, b) <=>
        /\ a \in EffectiveKafka(w) /\ b \in EffectiveKafka(w)
        /\ a.site.role = "produce" /\ b.site.role = "consume"
        /\ a.service # b.service /\ a.site.topic = b.site.topic
  BY <1>1 DEF Joined
<1>3. EffectiveKafka(w) \subseteq AllEndpoints(w)
  BY DEF EffectiveKafka
<1>4. \A e \in ToSet(g) : e.kind = "kafka" =>
        \E a, b \in AllEndpoints(w) : Joined(w, a, b) /\ EventEdge(e, a, b)
  BY GraphIsMade
<1>5. \A a, b \in AllEndpoints(w) : Joined(w, a, b) => \E e \in ToSet(g) : EventEdge(e, a, b)
  BY GraphIsMade
<1>6. Sends(g, s, t) => HasPeer(w, s, "produce", t)
  BY <1>2, <1>4 DEF Sends, HasPeer, EventEdge
<1>7. Receives(g, s, t) => HasPeer(w, s, "consume", t)
  BY <1>2, <1>4 DEF Receives, HasPeer, EventEdge
<1>8. HasPeer(w, s, "produce", t) => Sends(g, s, t)
  BY <1>2, <1>3, <1>5 DEF Sends, HasPeer, EventEdge
<1>9. HasPeer(w, s, "consume", t) => Receives(g, s, t)
  BY <1>2, <1>3, <1>5 DEF Receives, HasPeer, EventEdge
<1> QED BY <1>6, <1>7, <1>8, <1>9

\* A literal endpoint at a place whose service no edge of the topic leaves, or reaches.
Lonely(w, g, s, role, place) ==
  /\ s \in ToSet(w.services)
  /\ \E x \in ToSet(w.endpoints[s]) :
       /\ x.system = "kafka" /\ x.role = role /\ ~x.dynamic /\ Place(x) = place
       /\ role = "produce" => ~Sends(g, s, x.topic)
       /\ role = "consume" => ~Receives(g, s, x.topic)

\* The reports of producers and of consumers.
LEMMA OrphansAre ==
  ASSUME NEW w, NEW g, NEW s, NEW place
  PROVE  /\ Risk("orphan-kafka-producer", place, {s}) \in OrphanRisks(w, g) <=>
              Lonely(w, g, s, "produce", place)
         /\ Risk("orphan-kafka-consumer", place, {s}) \in OrphanRisks(w, g) <=>
              Lonely(w, g, s, "consume", place)
<1> DEFINE Unsent(x, t) == ~\E e \in {y \in ToSet(g) : y.kind = "kafka"} :
                              e.from = x /\ e.source.topic = t
           Unreceived(x, t) == ~\E e \in {y \in ToSet(g) : y.kind = "kafka"} :
                                  e.to = x /\ e.source.topic = t
           unsent == Orphans(w, "orphan-kafka-producer", "produce", Unsent)
           unreceived == Orphans(w, "orphan-kafka-consumer", "consume", Unreceived)
<1>1. OrphanRisks(w, g) = unsent \cup unreceived
  BY DEF OrphanRisks
<1>2. \A x, t : (Unsent(x, t) <=> ~Sends(g, x, t)) /\ (Unreceived(x, t) <=> ~Receives(g, x, t))
  BY DEF Sends, Receives
<1> HIDE DEF Unsent, Unreceived
<1>3. \A p, v : Risk("orphan-kafka-producer", p, v) \notin unreceived
  BY DEF Orphans, Risk
<1>4. \A p, v : Risk("orphan-kafka-consumer", p, v) \notin unsent
  BY DEF Orphans, Risk
<1>5. Risk("orphan-kafka-producer", place, {s}) \in unsent <=>
        /\ s \in ToSet(w.services)
        /\ \E x \in ToSet(w.endpoints[s]) :
             /\ x.system = "kafka" /\ x.role = "produce" /\ ~x.dynamic
             /\ Place(x) = place /\ Unsent(s, x.topic)
  BY DEF Orphans, Risk, Kafka, Place
<1>6. Risk("orphan-kafka-consumer", place, {s}) \in unreceived <=>
        /\ s \in ToSet(w.services)
        /\ \E x \in ToSet(w.endpoints[s]) :
             /\ x.system = "kafka" /\ x.role = "consume" /\ ~x.dynamic
             /\ Place(x) = place /\ Unreceived(s, x.topic)
  BY DEF Orphans, Risk, Kafka, Place
<1> HIDE DEF unsent, unreceived
<1> QED BY <1>1, <1>2, <1>3, <1>4, <1>5, <1>6 DEF Lonely

\* So the orphans are those without a peer.
LEMMA OrphansAreAlone ==
  ASSUME NEW w, IsWorkspace(w), NEW risks, risks = AssessArchitecture(w, BuildGraph(w))
  PROVE  /\ AreOrphans(w, risks, "orphan-kafka-producer", "produce")
         /\ AreOrphans(w, risks, "orphan-kafka-consumer", "consume")
<1> DEFINE g == BuildGraph(w)
           Reports(id, e) == Risk(id, Place(e.site), {e.service}) \in risks
           Literal(role, e) == \E x \in Playing(w, "kafka", role) :
                                 /\ x.service = e.service /\ Place(x.site) = Place(e.site)
                                 /\ ~x.site.dynamic
           At(role, e, x) == /\ x.system = "kafka" /\ x.role = role /\ ~x.dynamic
                             /\ Place(x) = Place(e.site)
<1> SUFFICES ASSUME NEW e \in AllEndpoints(w)
             PROVE  /\ Reports("orphan-kafka-producer", e) <=>
                         Literal("produce", e) /\ ~HasPeer(w, e.service, "produce", e.site.topic)
                    /\ Reports("orphan-kafka-consumer", e) <=>
                         Literal("consume", e) /\ ~HasPeer(w, e.service, "consume", e.site.topic)
  BY DEF AreOrphans
<1> DEFINE s == e.service
           sites == ToSet(w.endpoints[s])
<1>1. s \in ToSet(w.services)
  BY WorkspacesAre
<1>2. \A x : Place(x) = Place(e.site) => x.topic = e.site.topic
  BY DEF Place
<1>3. /\ \A x \in AllEndpoints(w) : x.service = s => x.site \in sites
      /\ \A y \in sites : \E x \in AllEndpoints(w) : x.service = s /\ x.site = y
  BY <1>1, WorkspacesAre
<1> HIDE DEF sites, g
<1>4. \A role : Literal(role, e) <=> \E x \in sites : At(role, e, x)
  BY <1>3 DEF Playing
<1>5. Reports("orphan-kafka-producer", e) <=>
        \E x \in sites : At("produce", e, x) /\ ~Sends(g, s, x.topic)
  <2>1. Reports("orphan-kafka-producer", e) <=>
          Risk("orphan-kafka-producer", Place(e.site), {s}) \in OrphanRisks(w, g)
    BY RisksAre DEF g
  <2>2. Risk("orphan-kafka-producer", Place(e.site), {s}) \in OrphanRisks(w, g) <=>
          Lonely(w, g, s, "produce", Place(e.site))
    BY OrphansAre
  <2> QED BY <1>1, <2>1, <2>2 DEF Lonely, sites
<1>6. Reports("orphan-kafka-consumer", e) <=>
        \E x \in sites : At("consume", e, x) /\ ~Receives(g, s, x.topic)
  <2>1. Reports("orphan-kafka-consumer", e) <=>
          Risk("orphan-kafka-consumer", Place(e.site), {s}) \in OrphanRisks(w, g)
    BY RisksAre DEF g
  <2>2. Risk("orphan-kafka-consumer", Place(e.site), {s}) \in OrphanRisks(w, g) <=>
          Lonely(w, g, s, "consume", Place(e.site))
    BY OrphansAre
  <2> QED BY <1>1, <2>1, <2>2 DEF Lonely, sites
<1>7. /\ Sends(g, s, e.site.topic) <=> HasPeer(w, s, "produce", e.site.topic)
      /\ Receives(g, s, e.site.topic) <=> HasPeer(w, s, "consume", e.site.topic)
  BY PeersAre DEF g
<1> HIDE DEF s
<1>8. \A role, x : At(role, e, x) => x.topic = e.site.topic
  BY <1>2
<1> HIDE DEF Reports, Literal, At
<1>9. Reports("orphan-kafka-producer", e) <=>
        Literal("produce", e) /\ ~HasPeer(w, s, "produce", e.site.topic)
  BY <1>4, <1>5, <1>7, <1>8
<1>10. Reports("orphan-kafka-consumer", e) <=>
         Literal("consume", e) /\ ~HasPeer(w, s, "consume", e.site.topic)
  BY <1>4, <1>6, <1>7, <1>8
<1> QED BY <1>9, <1>10 DEF s

\* And services that are reported to call each other mean to.
LEMMA CyclesAreMeant ==
  ASSUME NEW w, IsWorkspace(w), NEW risks, risks = AssessArchitecture(w, BuildGraph(w)),
         NEW a \in ToSet(w.services), NEW b \in ToSet(w.services)
  PROVE  AreMutual(w, risks, a, b)
<1> DEFINE g == BuildGraph(w)
           id == "synchronous-rest-cycle"
<1>1. Risk(id, {}, {a, b}) \in risks <=> Risk(id, {}, {a, b}) \in CycleRisks(g)
  BY RisksAre
<1>2. Risk(id, {}, {a, b}) \in CycleRisks(g) <=>
        \E c, d : /\ {c, d} = {a, b} /\ c # d
                  /\ Joins(g, "rest", c, d) /\ Joins(g, "rest", d, c)
  <2> HIDE DEF g
  <2> DEFINE pairs == {<<e.from, e.to>> : e \in {x \in ToSet(g) : x.kind = "rest"}}
  <2>1. CycleRisks(g) = {Risk(id, {}, {p[1], p[2]}) :
                           p \in {q \in pairs : q[1] # q[2] /\ <<q[2], q[1]>> \in pairs}}
    BY DEF CycleRisks
  <2>2. \A c, d : <<c, d>> \in pairs <=> Joins(g, "rest", c, d)
    BY DEF Joins
  <2>3. \A p \in pairs : p = <<p[1], p[2]>>
    OBVIOUS
  <2> HIDE DEF pairs
  <2>4. \A u, v : Risk(id, {}, u) = Risk(id, {}, v) <=> u = v
    BY DEF Risk
  <2> HIDE DEF id
  <2>5. ASSUME Risk(id, {}, {a, b}) \in CycleRisks(g)
        PROVE  \E c, d : /\ {c, d} = {a, b} /\ c # d
                         /\ Joins(g, "rest", c, d) /\ Joins(g, "rest", d, c)
    <3>1. PICK p \in pairs : /\ p[1] # p[2] /\ <<p[2], p[1]>> \in pairs
                             /\ Risk(id, {}, {a, b}) = Risk(id, {}, {p[1], p[2]})
      BY <2>1, <2>5
    <3> QED BY <2>2, <2>3, <2>4, <3>1
  <2>6. ASSUME NEW c, NEW d, {c, d} = {a, b}, c # d, Joins(g, "rest", c, d), Joins(g, "rest", d, c)
        PROVE  Risk(id, {}, {a, b}) \in CycleRisks(g)
    <3> DEFINE p == <<c, d>>
    <3>1. p \in pairs /\ <<p[2], p[1]>> \in pairs /\ p[1] # p[2]
      BY <2>2, <2>6
    <3>2. Risk(id, {}, {p[1], p[2]}) \in CycleRisks(g)
      <4> HIDE DEF p
      <4> QED BY <2>1, <3>1
    <3>3. {p[1], p[2]} = {a, b}
      BY <2>6
    <3> QED BY <3>2, <3>3
  <2> QED BY <2>5, <2>6
<1>3. /\ \A c, d : Joins(g, "rest", c, d) => Meant(w, "rest", c, d)
      /\ \A c, d : d # NoName /\ Meant(w, "rest", c, d) =>
           Joins(g, "rest", c, d) \/ IdentityTaken(w, c, d, g)
  BY GraphMeans DEF Graphs, Joins
<1>4. a # NoName /\ b # NoName
  BY WorkspacesAre
<1>5. Meant(w, "rest", a, b) => a # b
  BY MeantIsReached
<1> HIDE DEF g, id
<1>6. Risk(id, {}, {a, b}) \in risks => Meant(w, "rest", a, b) /\ Meant(w, "rest", b, a)
  BY <1>1, <1>2, <1>3
<1>7. Meant(w, "rest", a, b) /\ Meant(w, "rest", b, a) =>
        \/ Risk(id, {}, {a, b}) \in risks
        \/ IdentityTaken(w, a, b, g) \/ IdentityTaken(w, b, a, g)
  BY <1>1, <1>2, <1>3, <1>4, <1>5
<1> QED BY <1>6, <1>7 DEF AreMutual, g, id

-----------------------------------------------------------------------------
\* The theorems: what is answered is what the algorithm returns for an input.

\* The inductive invariant of RoutingSpec: an answer is what the algorithm
\* returns for one of the inputs.
RoutingInv ==
  /\ asked \in {"paths", "gateway", "client", "graph"}
  /\ asked = "paths" => about \in Routes /\ (answered => answer = PathsMatch(about.call, about.serve))
  /\ asked = "gateway" => about \in GatewayRoutes /\ (answered => answer = GatewayEndpoints(about))
  /\ asked = "client" => about \in Callers /\ (answered => answer = DomainHint(about.tree, about.call))
  /\ asked = "graph" => about \in Workspaces /\ (answered => answer = BuildGraph(about))

\* It is kept by every step.
LEMMA RoutingInvariant == RoutingSpec => []RoutingInv
<1>1. RoutingInit => RoutingInv
  BY DEF RoutingInit, Ask, RoutingInv
<1>2. RoutingInv /\ [RoutingNext]_vars => RoutingInv'
  <2> SUFFICES ASSUME RoutingInv, [RoutingNext]_vars PROVE RoutingInv'
    OBVIOUS
  <2>1. CASE MatchPaths
    BY <2>1 DEF RoutingInv, MatchPaths, Answer
  <2>2. CASE ScanGateway
    BY <2>2 DEF RoutingInv, ScanGateway, Answer
  <2>3. CASE HintClient
    BY <2>3 DEF RoutingInv, HintClient, Answer
  <2>4. CASE GraphServices
    BY <2>4 DEF RoutingInv, GraphServices, Answer
  <2>5. CASE UNCHANGED vars
    BY <2>5 DEF RoutingInv, vars
  <2> QED BY <2>1, <2>2, <2>3, <2>4, <2>5 DEF RoutingNext
<1> QED BY <1>1, <1>2, PTL DEF RoutingSpec

\* A call matches a route exactly when the methods agree and a concrete request
\* fits both; the calls of a gateway stand for the tails of the requests it serves
\* when it strips less than a path, and reach no route when it strips all of it,
\* for patterns over any words and of any length
\* (paths_match, _infer_spring_cloud_gateway_yaml_routes).
THEOREM RequestsAlwaysRouted == RoutingSpec => []RequestsAreRouted
<1>1. RoutingInv => PathsOverlap
  BY MatchesMeet DEF RoutingInv, PathsOverlap, Answered
<1>2. RoutingInv => GatewaysForward
  <2> SUFFICES ASSUME RoutingInv, Answered("gateway") PROVE GatewaysForward
    BY DEF GatewaysForward
  <2>1. about \in GatewayRoutes /\ answer = GatewayEndpoints(about)
    BY DEF RoutingInv, Answered
  <2> QED BY <2>1, GatewayForwards DEF GatewaysForward
<1> QED BY <1>1, <1>2, RoutingInvariant, PTL DEF RequestsAreRouted

\* The service of a configured client is the only domain that the beans that fit
\* it agree on, in or below the nearest directory with a build file, and there
\* is none otherwise, for every tree (_rest_configuration_domain_hint).
THEOREM ClientsAlwaysUnambiguous == RoutingSpec => []ClientsAreUnambiguous
<1>1. RoutingInv => ClientsAreUnambiguous
  <2> SUFFICES ASSUME RoutingInv, Answered("client") PROVE ClientsAreUnambiguous
    BY DEF ClientsAreUnambiguous
  <2>1. about \in Callers /\ answer = DomainHint(about.tree, about.call)
    BY DEF RoutingInv, Answered
  <2> QED BY <2>1, ClientAnswers
<1> QED BY <1>1, RoutingInvariant, PTL

\* Two services are joined by an edge of a kind exactly when an endpoint of each
\* gives a reason to, but for a call whose identity is taken, for workspaces of
\* any services and endpoints (build_graph).
THEOREM GraphAlwaysMeant == RoutingSpec => []GraphIsMeant
<1>1. RoutingInv => GraphIsMeant
  <2> SUFFICES ASSUME RoutingInv, Answered("graph") PROVE GraphIsMeant
    BY DEF GraphIsMeant
  <2>1. about \in Workspaces /\ answer = BuildGraph(about)
    BY DEF RoutingInv, Answered
  <2> QED BY <2>1, GraphAnswers
<1> QED BY <1>1, RoutingInvariant, PTL

\* The inductive invariant of AssessmentSpec: an answer is what is returned for a
\* workspace.
AssessmentInv ==
  /\ asked \in {"dependencies", "risks"} /\ about \in Workspaces
  /\ answered /\ asked = "dependencies" => answer = BuildDependencyGraph(about)
  /\ answered /\ asked = "risks" => answer = AssessArchitecture(about, BuildGraph(about))

\* It is kept by every step.
LEMMA AssessmentInvariant == AssessmentSpec => []AssessmentInv
<1>1. AssessmentInit => AssessmentInv
  BY DEF AssessmentInit, Ask, AssessmentInv
<1>2. AssessmentInv /\ [AssessmentNext]_vars => AssessmentInv'
  <2> SUFFICES ASSUME AssessmentInv, [AssessmentNext]_vars PROVE AssessmentInv'
    OBVIOUS
  <2>1. CASE GraphDependencies
    BY <2>1 DEF AssessmentInv, GraphDependencies, Answer
  <2>2. CASE AssessRisks
    BY <2>2 DEF AssessmentInv, AssessRisks, Answer
  <2>3. CASE UNCHANGED vars
    BY <2>3 DEF AssessmentInv, vars
  <2> QED BY <2>1, <2>2, <2>3 DEF AssessmentNext
<1> QED BY <1>1, <1>2, PTL DEF AssessmentSpec

\* No call disappears from the dependency graph, exactly the literal endpoints
\* without a peer in another service are reported as orphans, and exactly the
\* services that mean to call each other as a cycle, but for a call whose
\* identity is taken, for workspaces of any services and endpoints
\* (build_dependency_graph, assess_architecture).
THEOREM AuditAlwaysMeant == AssessmentSpec => []AuditIsMeant
<1>1. AssessmentInv => IsWorkspace(about)
  BY RoutingAssumption DEF AssessmentInv
<1>2. AssessmentInv => EveryCallIsShown
  <2> SUFFICES ASSUME AssessmentInv, Answered("dependencies"),
                      NEW e \in Playing(about, "rest", "call")
               PROVE  IsShown(about, answer, e)
    BY DEF EveryCallIsShown
  <2>1. answer = BuildDependencyGraph(about)
    BY DEF AssessmentInv, Answered
  <2> QED BY <1>1, <2>1, CallsAreShown
<1>3. AssessmentInv => OrphansHaveNoPeer
  <2> SUFFICES ASSUME AssessmentInv, Answered("risks") PROVE OrphansHaveNoPeer
    BY DEF OrphansHaveNoPeer
  <2>1. answer = AssessArchitecture(about, BuildGraph(about))
    BY DEF AssessmentInv, Answered
  <2> QED BY <1>1, <2>1, OrphansAreAlone DEF OrphansHaveNoPeer
<1>4. AssessmentInv => MutualCallsAreReported
  <2> SUFFICES ASSUME AssessmentInv, Answered("risks"),
                      NEW a \in ToSet(about.services), NEW b \in ToSet(about.services)
               PROVE  AreMutual(about, answer, a, b)
    BY DEF MutualCallsAreReported
  <2>1. answer = AssessArchitecture(about, BuildGraph(about))
    BY DEF AssessmentInv, Answered
  <2> QED BY <1>1, <2>1, CyclesAreMeant
<1> QED BY <1>2, <1>3, <1>4, AssessmentInvariant, PTL DEF AuditIsMeant

-----------------------------------------------------------------------------
\* The folds over a sequence of endpoints: the relations gathered from it, and
\* the trace of a topic.

\* A set of positions has a last one.
LEMMA MaxIsIn ==
  ASSUME NEW n \in Nat, NEW s \in SUBSET (1 .. n), s # {}
  PROVE  Max(s) \in s
<1> DEFINE R == {r \in s \X s : r[1] < r[2]}
<1>1. IsFiniteSet(s)
  <2>1. IsFiniteSet(1 .. n)
    <3>1. 1 \in Int /\ n \in Int
      OBVIOUS
    <3> QED BY <3>1, FS_Interval
  <2> QED BY <2>1, FS_Subset
<1>2. \A x, y \in s : <<x, y>> \in R <=> x < y
  OBVIOUS
<1>3. s \subseteq Int
  OBVIOUS
<1> HIDE DEF R
<1>4. \A x, y, z \in s : <<x, y>> \in R /\ <<y, z>> \in R => <<x, z>> \in R
  BY <1>2, <1>3
<1>5. \A x \in s : <<x, x>> \notin R
  BY <1>2, <1>3
<1>6. \E x \in s : \A y \in s : <<x, y>> \notin R
  BY <1>1, <1>4, <1>5, MaximalExists
<1>7. \E x \in s : \A y \in s : x >= y
  <2>1. PICK x \in s : \A y \in s : <<x, y>> \notin R
    BY <1>6
  <2>2. ASSUME NEW y \in s PROVE x >= y
    <3>1. ~(x < y) /\ x \in Int /\ y \in Int
      BY <1>2, <1>3, <2>1
    <3> QED BY <3>1
  <2> QED BY <2>2
<1> QED BY <1>7 DEF Max

\* The last position of a set: the one that a fold over a sequence takes next.
LastIndex(n) == [s \in (SUBSET (1 .. n)) \ {{}} |-> Max(s)]

\* The last position is a choice from each set of positions, as a fold needs.
LEMMA LastIndexChooses ==
  ASSUME NEW n \in Nat
  PROVE  Chooses(LastIndex(n), 1 .. n) /\ IsFiniteSet(1 .. n)
<1>1. \A s \in (SUBSET (1 .. n)) \ {{}} : Max(s) \in s /\ Max(s) \in 1 .. n
  BY MaxIsIn
<1>2. IsFiniteSet(1 .. n)
  BY FS_Interval
<1> QED BY <1>1, <1>2 DEF Chooses, LastIndex

\* The identities of a set of relations.
IdsOf(facts) == {f.id : f \in facts}

\* relations[id] = relation, for each of some more relations.
Replacing(facts, more) == {f \in facts : \A g \in more : g.id # f.id} \cup more

\* Replacing relations loses no identity and adds those of the new ones.
LEMMA ReplacingKeepsIds ==
  ASSUME NEW facts, NEW more
  PROVE  IdsOf(Replacing(facts, more)) = IdsOf(facts) \cup IdsOf(more)
BY DEF IdsOf, Replacing

\* The relations of the endpoints alone, as BuildArchitectureRelations gathers
\* them.
EndpointRelations(modules, endpoints) ==
  FoldLeft(LAMBDA acc, e : Replacing(acc, EndpointFacts(modules, e)), {}, endpoints)

\* Whichever endpoint comes last, the identities gathered from the endpoints
\* are those of each of them: a relation is replaced by one of its identity only.
LEMMA EndpointRelationsCollect ==
  ASSUME NEW modules, NEW E, NEW endpoints \in Seq(E)
  PROVE  IdsOf(EndpointRelations(modules, endpoints)) =
           UNION {IdsOf(EndpointFacts(modules, endpoints[i])) : i \in DOMAIN endpoints}
<1> DEFINE n == Len(endpoints)
           D == 1 .. n
           Facts(i) == EndpointFacts(modules, endpoints[i])
           S == SUBSET UNION {Facts(i) : i \in D}
           c == LastIndex(n)
           F == [p \in D \X S |-> Replacing(p[2], Facts(p[1]))]
           Body(s, h) == IF s = {} THEN {} ELSE Replacing(h[s \ {Max(s)}], Facts(Max(s)))
           iter[s \in SUBSET D] == Body(s, iter)
<1>0. n \in Nat /\ DOMAIN endpoints = D
  OBVIOUS
<1>1. EndpointRelations(modules, endpoints) = iter[D]
  BY <1>0 DEF EndpointRelations, FoldLeft, MapThenFoldSet
<1>2. ASSUME NEW i \in D, NEW a \in S PROVE Replacing(a, Facts(i)) \in S
  <2> HIDE DEF D, Facts
  <2> QED BY DEF Replacing
<1>3. Chooses(c, D) /\ IsFiniteSet(D)
  BY <1>0, LastIndexChooses
<1>4. \A s \in SUBSET D : s # {} => c[s] = Max(s) /\ Max(s) \in D /\ s \ {c[s]} \in SUBSET D
  BY <1>0, MaxIsIn DEF LastIndex
<1>5. F \in [D \X S -> S] /\ \A i \in D, a \in S : F[<<i, a>>] = Replacing(a, Facts(i))
  <2> HIDE DEF S, D, Facts
  <2> QED BY <1>2
<1>6. {} \in S
  OBVIOUS
<1> HIDE DEF S, c, F
<1>7. FoldsTo(D, S, {}, c, F, iter)
  <2>1. PICK h \in [SUBSET D -> S] : FoldsTo(D, S, {}, c, F, h)
    <3> HIDE DEF D
    <3> QED BY <1>3, <1>5, <1>6, FoldExists
  <2> HIDE DEF D, Facts
  <2>2. ASSUME NEW s \in SUBSET D PROVE h[s] = Body(s, h)
    <3>1. CASE s = {}
      BY <2>1, <3>1 DEF FoldsTo
    <3>2. CASE s # {}
      <4>1. h[s \ {Max(s)}] \in S
        BY <1>4, <2>1, <3>2
      <4>2. h[s] = F[<<c[s], h[s \ {c[s]}]>>]
        BY <1>4, <2>1, <3>2, <4>1 DEF FoldsTo
      <4> QED BY <1>4, <1>5, <3>2, <4>1, <4>2
    <3> QED BY <3>1, <3>2
  <2>3. h = [s \in SUBSET D |-> Body(s, h)]
    <3> HIDE DEF Body
    <3> QED BY <2>1, <2>2
  <2>4. iter = [s \in SUBSET D |-> Body(s, iter)]
    BY <2>3
  <2> HIDE DEF iter
  <2>5. \A s \in SUBSET D : iter[s] = Body(s, iter)
    <3> HIDE DEF Body
    <3> QED BY <2>4
  <2>6. iter[{}] = {}
    BY <2>5
  <2>7. ASSUME NEW s \in (SUBSET D) \ {{}}, iter[s \ {c[s]}] \in S
        PROVE  iter[s] = F[<<c[s], iter[s \ {c[s]}]>>]
    <3>1. c[s] = Max(s) /\ Max(s) \in D /\ s # {} /\ s \in SUBSET D
      BY <1>4
    <3>2. iter[s] = Replacing(iter[s \ {Max(s)}], Facts(Max(s)))
      BY <2>5, <3>1
    <3>3. F[<<Max(s), iter[s \ {Max(s)}]>>] = Replacing(iter[s \ {Max(s)}], Facts(Max(s)))
      <4> HIDE DEF Body
      <4> QED BY <1>5, <2>7, <3>1
    <3> QED BY <3>1, <3>2, <3>3
  <2> HIDE DEF Body
  <2> QED BY <2>6, <2>7 DEF FoldsTo
<1> DEFINE Union(s) == UNION {IdsOf(Facts(i)) : i \in s}
           G == {p \in (SUBSET D) \X S : IdsOf(p[2]) = Union(p[1])}
<1>8. Kept(D, S, {}, c, F, G)
  <2>1. IdsOf({}) = Union({})
    BY DEF IdsOf
  <2>2. ASSUME NEW s \in SUBSET D, NEW a \in S, s # {}, <<s \ {c[s]}, a>> \in G
        PROVE  <<s, F[<<c[s], a>>]>> \in G
    <3>1. c[s] \in s /\ c[s] \in D
      BY <1>3, <2>2 DEF Chooses
    <3>2. F[<<c[s], a>>] = Replacing(a, Facts(c[s])) /\ F[<<c[s], a>>] \in S
      BY <1>2, <1>5, <3>1
    <3>3. IdsOf(a) = Union(s \ {c[s]})
      <4> HIDE DEF Union
      <4> QED BY <2>2
    <3>4. Union(s) = Union(s \ {c[s]}) \cup IdsOf(Facts(c[s]))
      <4> HIDE DEF Facts
      <4>1. s = (s \ {c[s]}) \cup {c[s]}
        BY <3>1
      <4> QED BY <4>1
    <3>5. IdsOf(F[<<c[s], a>>]) = Union(s)
      <4> HIDE DEF Union, Facts
      <4> QED BY <3>2, <3>3, <3>4, ReplacingKeepsIds
    <3> HIDE DEF Union
    <3> QED BY <3>2, <3>5
  <2>3. <<{}, {}>> \in G
    <3> HIDE DEF Union, D
    <3> QED BY <1>6, <2>1
  <2>4. G \in SUBSET ((SUBSET D) \X S)
    <3> HIDE DEF Union, D
    <3> QED OBVIOUS
  <2> HIDE DEF G, D
  <2> QED BY <2>2, <2>3, <2>4 DEF Kept
<1>9. <<D, iter[D]>> \in G
  <2> DEFINE h == iter
  <2>1. FoldsTo(D, S, {}, c, F, h)
    BY <1>7
  <2> HIDE DEF D, G, h
  <2>2. \A s \in SUBSET D : h[s] \in S /\ <<s, h[s]>> \in G
    BY <1>3, <1>5, <1>6, <1>8, <2>1, FoldKeeps
  <2>3. <<D, h[D]>> \in G
    BY <2>2
  <2> QED BY <2>3 DEF h
<1>10. IdsOf(iter[D]) = Union(D)
  <2> HIDE DEF iter, Union, D
  <2> QED BY <1>9
<1> HIDE DEF iter, Facts
<1> QED BY <1>0, <1>1, <1>10 DEF Facts

\* One step of TraceFlow: the endpoint is added unless it is of another topic,
\* or its service has a site of its identity already.
Tracing(topic, findings, sites, e) ==
  IF \/ e.site.topic # topic
     \/ \E s \in sites : s.service = e.service /\ s.site.id = e.site.id
  THEN sites
  ELSE sites \cup {[service |-> e.service, site |-> e.site,
                    findings |-> {f \in findings : /\ f.service = e.service
                                                   /\ Overlaps(f, e.site)}]}

\* An endpoint of the topic has a site of its service and identity.
Traces(topic, sites, e) ==
  e.site.topic = topic => \E s \in sites : s.service = e.service /\ s.site.id = e.site.id

\* A step of the trace keeps the sites it has and has one for its endpoint.
LEMMA TracingAdds ==
  ASSUME NEW topic, NEW findings, NEW sites, NEW e
  PROVE  /\ sites \subseteq Tracing(topic, findings, sites, e)
         /\ Traces(topic, Tracing(topic, findings, sites, e), e)
<1> DEFINE found == {f \in findings : f.service = e.service /\ Overlaps(f, e.site)}
           site == [service |-> e.service, site |-> e.site, findings |-> found]
<1>1. Tracing(topic, findings, sites, e) =
        IF \/ e.site.topic # topic
           \/ \E s \in sites : s.service = e.service /\ s.site.id = e.site.id
        THEN sites ELSE sites \cup {site}
  BY DEF Tracing
<1>2. site.service = e.service /\ site.site = e.site
  OBVIOUS
<1> HIDE DEF site
<1> QED BY <1>1, <1>2 DEF Traces

\* A trace holds endpoints of the topic only, and a site for each of them.
LEMMA TraceTells ==
  ASSUME NEW E, NEW endpoints \in Seq(E), NEW topic, NEW findings
  PROVE  /\ \A s \in TraceFlow(topic, endpoints, findings) : \E i \in DOMAIN endpoints :
              /\ s.service = endpoints[i].service /\ s.site = endpoints[i].site
              /\ endpoints[i].site.topic = topic
         /\ \A i \in DOMAIN endpoints :
              Traces(topic, TraceFlow(topic, endpoints, findings), endpoints[i])
<1> DEFINE n == Len(endpoints)
           D == 1 .. n
           Site(i) == [service |-> endpoints[i].service, site |-> endpoints[i].site,
                       findings |-> {f \in findings : /\ f.service = endpoints[i].service
                                                      /\ Overlaps(f, endpoints[i].site)}]
           S == SUBSET {Site(i) : i \in {j \in D : endpoints[j].site.topic = topic}}
           c == LastIndex(n)
           F == [p \in D \X S |-> Tracing(topic, findings, p[2], endpoints[p[1]])]
           Body(s, h) == IF s = {} THEN {}
                         ELSE Tracing(topic, findings, h[s \ {Max(s)}], endpoints[Max(s)])
           iter[s \in SUBSET D] == Body(s, iter)
<1>0. n \in Nat /\ DOMAIN endpoints = D
  OBVIOUS
<1>1. TraceFlow(topic, endpoints, findings) = iter[D]
  BY <1>0 DEF TraceFlow, Tracing, FoldLeft, MapThenFoldSet
<1>2. ASSUME NEW i \in D, NEW a \in S
      PROVE  Tracing(topic, findings, a, endpoints[i]) \in S
  <2>1. Tracing(topic, findings, a, endpoints[i]) =
          IF \/ endpoints[i].site.topic # topic
             \/ \E s \in a : s.service = endpoints[i].service /\ s.site.id = endpoints[i].site.id
          THEN a ELSE a \cup {Site(i)}
    BY DEF Tracing
  <2> HIDE DEF D, Site
  <2> QED BY <2>1
<1>3. Chooses(c, D) /\ IsFiniteSet(D)
  BY <1>0, LastIndexChooses
<1>4. \A s \in SUBSET D : s # {} => c[s] = Max(s) /\ Max(s) \in D /\ s \ {c[s]} \in SUBSET D
  BY <1>0, MaxIsIn DEF LastIndex
<1>5. F \in [D \X S -> S] /\ \A i \in D, a \in S : F[<<i, a>>] = Tracing(topic, findings, a, endpoints[i])
  <2> HIDE DEF S, D
  <2> QED BY <1>2
<1>6. {} \in S
  OBVIOUS
<1> HIDE DEF S, c, F
<1>7. FoldsTo(D, S, {}, c, F, iter)
  <2>1. PICK h \in [SUBSET D -> S] : FoldsTo(D, S, {}, c, F, h)
    <3> HIDE DEF D
    <3> QED BY <1>3, <1>5, <1>6, FoldExists
  <2> HIDE DEF D
  <2>2. ASSUME NEW s \in SUBSET D PROVE h[s] = Body(s, h)
    <3>1. CASE s = {}
      BY <2>1, <3>1 DEF FoldsTo
    <3>2. CASE s # {}
      <4>1. h[s \ {Max(s)}] \in S
        BY <1>4, <2>1, <3>2
      <4>2. h[s] = F[<<c[s], h[s \ {c[s]}]>>]
        BY <1>4, <2>1, <3>2, <4>1 DEF FoldsTo
      <4> QED BY <1>4, <1>5, <3>2, <4>1, <4>2
    <3> QED BY <3>1, <3>2
  <2>3. h = [s \in SUBSET D |-> Body(s, h)]
    <3> HIDE DEF Body
    <3> QED BY <2>1, <2>2
  <2>4. iter = [s \in SUBSET D |-> Body(s, iter)]
    BY <2>3
  <2> HIDE DEF iter
  <2>5. \A s \in SUBSET D : iter[s] = Body(s, iter)
    <3> HIDE DEF Body
    <3> QED BY <2>4
  <2>6. iter[{}] = {}
    BY <2>5
  <2>7. ASSUME NEW s \in (SUBSET D) \ {{}}, iter[s \ {c[s]}] \in S
        PROVE  iter[s] = F[<<c[s], iter[s \ {c[s]}]>>]
    <3>1. c[s] = Max(s) /\ Max(s) \in D /\ s # {} /\ s \in SUBSET D
      BY <1>4
    <3>2. iter[s] = Tracing(topic, findings, iter[s \ {Max(s)}], endpoints[Max(s)])
      BY <2>5, <3>1
    <3>3. F[<<Max(s), iter[s \ {Max(s)}]>>] = Tracing(topic, findings, iter[s \ {Max(s)}], endpoints[Max(s)])
      <4> HIDE DEF Body
      <4> QED BY <1>5, <2>7, <3>1
    <3> QED BY <3>1, <3>2, <3>3
  <2> HIDE DEF Body
  <2> QED BY <2>6, <2>7 DEF FoldsTo
<1> DEFINE Good(s, a) == \A i \in s : Traces(topic, a, endpoints[i])
           G == {p \in (SUBSET D) \X S : Good(p[1], p[2])}
<1>8. Kept(D, S, {}, c, F, G)
  <2>1. Good({}, {})
    OBVIOUS
  <2>2. ASSUME NEW s \in SUBSET D, NEW a \in S, s # {}, <<s \ {c[s]}, a>> \in G
        PROVE  <<s, F[<<c[s], a>>]>> \in G
    <3> DEFINE i == c[s]
               r == F[<<i, a>>]
    <3>1. i \in s /\ i \in D
      BY <1>3, <2>2 DEF Chooses
    <3>2. r = Tracing(topic, findings, a, endpoints[i]) /\ r \in S
      BY <1>2, <1>5, <3>1
    <3>3. Good(s \ {i}, a)
      <4> HIDE DEF Good, i
      <4> QED BY <2>2 DEF i
    <3> HIDE DEF i, r
    <3>4. a \subseteq r /\ Traces(topic, r, endpoints[i])
      BY <3>2, TracingAdds
    <3>5. Good(s, r)
      <4> SUFFICES ASSUME NEW j \in s PROVE Traces(topic, r, endpoints[j])
        OBVIOUS
      <4>1. CASE j = i
        BY <3>4, <4>1
      <4>2. CASE j # i
        BY <3>3, <3>4, <4>2 DEF Traces
      <4> QED BY <4>1, <4>2
    <3> HIDE DEF Good
    <3> QED BY <3>2, <3>5 DEF r, i
  <2>3. <<{}, {}>> \in G
    <3> HIDE DEF Good, D
    <3> QED BY <1>6, <2>1
  <2>4. G \in SUBSET ((SUBSET D) \X S)
    <3> HIDE DEF Good, D
    <3> QED OBVIOUS
  <2> HIDE DEF G, D
  <2> QED BY <2>2, <2>3, <2>4 DEF Kept
<1>9. iter[D] \in S /\ <<D, iter[D]>> \in G
  <2> DEFINE h == iter
  <2>1. FoldsTo(D, S, {}, c, F, h)
    BY <1>7
  <2> HIDE DEF D, G, h
  <2>2. \A s \in SUBSET D : h[s] \in S /\ <<s, h[s]>> \in G
    BY <1>3, <1>5, <1>6, <1>8, <2>1, FoldKeeps
  <2>3. h[D] \in S /\ <<D, h[D]>> \in G
    BY <2>2
  <2> QED BY <2>3 DEF h
<1>10. iter[D] \in S /\ Good(D, iter[D])
  <2> HIDE DEF iter, Good, D
  <2> QED BY <1>9
<1>11. \A s \in iter[D] : \E i \in D : s = Site(i) /\ endpoints[i].site.topic = topic
  <2> HIDE DEF iter, D, Site
  <2> QED BY <1>10 DEF S
<1> HIDE DEF iter
<1> QED BY <1>0, <1>1, <1>10, <1>11

-----------------------------------------------------------------------------
\* What the relations that are stored say.

\* The identity of a relation is that of a source, a relation and a target.
Says(id, source, relation, target) == id[1] = source /\ id[2] = relation /\ id[3] = target

\* How a topic is related to the type of its messages.
TypeRelation(site) == IF site.role = "produce" THEN "publishes_type" ELSE "consumes_type"

\* The relations of an endpoint say what its module does with the topic or the
\* route, and of which type the messages are; an endpoint of no module has none.
LEMMA EndpointIds ==
  ASSUME NEW modules, NEW e
  PROVE  LET ids == IdsOf(EndpointFacts(modules, e))
         IN  /\ \A id \in ids :
                  /\ e.service # NoName
                  /\ \/ Says(id, <<ModuleKind(modules, e.service), e.service>>, Verb[e.site.role],
                             <<KindOf(e.site), e.site.topic>>)
                     \/ id[2] \in {"implements", "uses_configuration"}
                     \/ /\ e.site.system = "kafka" /\ e.site.type # NoName
                        /\ Says(id, <<"topic", e.site.topic>>, TypeRelation(e.site),
                                <<"dto", e.site.type>>)
             /\ e.service # NoName =>
                  /\ \E id \in ids :
                       Says(id, <<ModuleKind(modules, e.service), e.service>>, Verb[e.site.role],
                            <<KindOf(e.site), e.site.topic>>)
                  /\ e.site.system = "kafka" /\ e.site.type # NoName =>
                       \E id \in ids : Says(id, <<"topic", e.site.topic>>, TypeRelation(e.site),
                                            <<"dto", e.site.type>>)
<1> DEFINE place == <<e.site.file, e.site.first>>
           source == ModuleKind(modules, e.service)
           user == IF e.site.class = NoName THEN <<source, e.service>> ELSE <<"class", e.site.class>>
           sure == Confidence(e.site)
           Plain == Fact(source, e.service, Verb[e.site.role], KindOf(e.site), e.site.topic, place, sure)
           Implements == {Fact("class", n, "implements", KindOf(e.site), e.site.topic, place, sure) :
                            n \in {e.site.class} \ {NoName}}
           Uses == {Fact(user[1], user[2], "uses_configuration", "property", p, place, sure) :
                      p \in e.site.properties}
           Types == {Fact("topic", e.site.topic, TypeRelation(e.site), "dto", t, place, sure) :
                       t \in IF e.site.system = "kafka" THEN {e.site.type} \ {NoName} ELSE {}}
<1>1. EndpointFacts(modules, e) =
        IF e.service = NoName THEN {} ELSE {Plain} \cup Implements \cup Uses \cup Types
  BY DEF EndpointFacts, TypeRelation
<1>2. Says(Plain.id, <<source, e.service>>, Verb[e.site.role], <<KindOf(e.site), e.site.topic>>)
  BY DEF Fact, Says
<1>3. \A f \in Implements \cup Uses : f.id[2] \in {"implements", "uses_configuration"}
  BY DEF Fact
<1>4. \A f \in Types :
        /\ e.site.system = "kafka" /\ e.site.type # NoName
        /\ Says(f.id, <<"topic", e.site.topic>>, TypeRelation(e.site), <<"dto", e.site.type>>)
  <2> HIDE DEF place, sure
  <2> QED BY DEF Fact, Says
<1>5. ASSUME e.site.system = "kafka", e.site.type # NoName PROVE \E f \in Types : TRUE
  BY <1>5
<1> HIDE DEF Plain, Implements, Uses, Types
<1> QED BY <1>1, <1>2, <1>3, <1>4, <1>5 DEF IdsOf

\* What is stored besides the relations of the endpoints is about modules that
\* depend on modules, and about collections.
LEMMA StoredIds ==
  ASSUME NEW modules, NEW E, NEW endpoints \in Seq(E), NEW dependencies
  PROVE  LET ids == IdsOf(BuildArchitectureRelations(modules, endpoints, dependencies))
         IN  /\ \A id \in ids :
                  \/ id[2] = "depends_on" /\ id[3][1] \in {"module", "microservice"}
                  \/ id[3][1] = "collection"
                  \/ \E i \in DOMAIN endpoints : id \in IdsOf(EndpointFacts(modules, endpoints[i]))
             /\ \A i \in DOMAIN endpoints : IdsOf(EndpointFacts(modules, endpoints[i])) \subseteq ids
<1> DEFINE Depends(d) == Fact(ModuleKind(modules, d[1]), d[1], "depends_on",
                              ModuleKind(modules, d[2]), d[2], Nowhere, "high")
           Dep == {Depends(d) : d \in dependencies}
           Of == EndpointRelations(modules, endpoints)
           Mongo == UNION {MongoFacts(modules, m) : m \in DOMAIN modules}
           all == BuildArchitectureRelations(modules, endpoints, dependencies)
<1>1. all = Replacing(Dep, Of) \cup Mongo
  BY DEF BuildArchitectureRelations, EndpointRelations, Replacing
<1>2. IdsOf(all) = IdsOf(Dep) \cup IdsOf(Of) \cup IdsOf(Mongo)
  <2> HIDE DEF all, Dep, Of, Mongo
  <2>1. IdsOf(Replacing(Dep, Of)) = IdsOf(Dep) \cup IdsOf(Of)
    BY ReplacingKeepsIds
  <2>2. IdsOf(Replacing(Dep, Of) \cup Mongo) = IdsOf(Replacing(Dep, Of)) \cup IdsOf(Mongo)
    BY DEF IdsOf
  <2> QED BY <1>1, <2>1, <2>2
<1>3. \A id \in IdsOf(Dep) : id[2] = "depends_on" /\ id[3][1] \in {"module", "microservice"}
  <2>1. \A d \in dependencies : /\ Depends(d).id[2] = "depends_on"
                                /\ Depends(d).id[3][1] \in {"module", "microservice"}
    BY DEF Fact, ModuleKind
  <2> HIDE DEF Depends
  <2> QED BY <2>1 DEF IdsOf
<1>4. \A id \in IdsOf(Mongo) : id[3][1] = "collection"
  <2>1. ASSUME NEW m \in DOMAIN modules, NEW f \in MongoFacts(modules, m)
        PROVE  f.id[3][1] = "collection"
    BY DEF MongoFacts, Fact
  <2> QED BY <2>1 DEF IdsOf
<1>5. IdsOf(Of) = UNION {IdsOf(EndpointFacts(modules, endpoints[i])) : i \in DOMAIN endpoints}
  BY EndpointRelationsCollect
<1> HIDE DEF all, Dep, Of, Mongo
<1> QED BY <1>2, <1>3, <1>4, <1>5 DEF all

\* A relation between these two is stored.
Stores(relations, source, relation, target) ==
  \E f \in relations : Says(f.id, source, relation, target)

\* An endpoint of the module plays the role for the topic or route.
Plays(endpoints, m, role, topic) ==
  \E e \in endpoints : e.service = m /\ e.site.role = role /\ e.site.topic = topic

\* The name of a relation tells the role, and the role the system.
LEMMA RolesTell ==
  /\ \A r, q \in {"produce", "consume", "serve", "call"} : Verb[r] = Verb[q] => r = q
  /\ \A r \in {"produce", "consume", "serve", "call"} :
       Verb[r] \in {"publishes", "consumes", "provides", "calls"}
  /\ \A system, other \in {"kafka", "rest"} : \A r \in Sides(system), q \in Sides(other) :
       /\ r \in {"produce", "consume", "serve", "call"}
       /\ r = q => system = other
       /\ system = other /\ Noun[r] = Noun[q] => r = q
  /\ Noun["produce"] = "producer" /\ Noun["consume"] = "consumer"
BY DEF Verb, Noun, Sides

\* What the assumption on an inventory says of its endpoints, in the form in
\* which the lemmas below use it.
LEMMA InventoryTypes ==
  ASSUME NEW i, IsInventory(i)
  PROVE  LET all == ToSet(i.endpoints)
         IN  /\ i.endpoints \in Seq(all) /\ NoName \notin DOMAIN i.modules
             /\ all = {i.endpoints[k] : k \in DOMAIN i.endpoints}
             /\ \A x \in all : /\ x.site.system \in {"kafka", "rest"}
                               /\ x.site.role \in Sides(x.site.system)
                               /\ x.site.role \in {"produce", "consume", "serve", "call"}
             /\ \A x, y \in all :
                  /\ x.site.id = y.site.id =>
                       x.site.role = y.site.role /\ x.site.topic = y.site.topic
                  /\ x.site.topic = y.site.topic => x.site.system = y.site.system
                  /\ x.site.role = y.site.role => x.site.system = y.site.system
<1>1. ToSet(i.endpoints) = {i.endpoints[k] : k \in DOMAIN i.endpoints}
  BY DEF ToSet
<1> QED BY <1>1, RolesTell DEF IsInventory

\* What a run of the indexer stores of an inventory.
RelationsOf(i) == BuildArchitectureRelations(i.modules, i.endpoints, i.dependencies)

\* The identities of the relations of one endpoint of an inventory.
FactIds(i, e) == IdsOf(EndpointFacts(i.modules, e))

\* StoredIds, for an inventory and by endpoint instead of by position.
LEMMA InventoryIds ==
  ASSUME NEW i, IsInventory(i)
  PROVE  /\ \A id \in IdsOf(RelationsOf(i)) :
              \/ id[2] = "depends_on" /\ id[3][1] \in {"module", "microservice"}
              \/ id[3][1] = "collection"
              \/ \E e \in ToSet(i.endpoints) : id \in FactIds(i, e)
         /\ \A e \in ToSet(i.endpoints) : FactIds(i, e) \subseteq IdsOf(RelationsOf(i))
<1> DEFINE all == ToSet(i.endpoints)
           ids == IdsOf(RelationsOf(i))
<1>1. i.endpoints \in Seq(all) /\ all = {i.endpoints[k] : k \in DOMAIN i.endpoints}
  BY InventoryTypes
<1>2. /\ \A id \in ids :
           \/ id[2] = "depends_on" /\ id[3][1] \in {"module", "microservice"}
           \/ id[3][1] = "collection"
           \/ \E k \in DOMAIN i.endpoints : id \in FactIds(i, i.endpoints[k])
      /\ \A k \in DOMAIN i.endpoints : FactIds(i, i.endpoints[k]) \subseteq ids
  <2> HIDE DEF all
  <2> QED BY <1>1, StoredIds DEF RelationsOf, FactIds
<1> HIDE DEF all, ids
<1>3. \A k \in DOMAIN i.endpoints : i.endpoints[k] \in all
  BY <1>1
<1>4. \A e \in all : \E k \in DOMAIN i.endpoints : e = i.endpoints[k]
  BY <1>1
<1>5. \A id \in ids :
        \/ id[2] = "depends_on" /\ id[3][1] \in {"module", "microservice"}
        \/ id[3][1] = "collection"
        \/ \E e \in all : id \in FactIds(i, e)
  BY <1>2, <1>3
<1>6. \A e \in all : FactIds(i, e) \subseteq ids
  BY <1>2, <1>4
<1> QED BY <1>5, <1>6 DEF all, ids

\* That a module does something with a topic or a route is stored exactly when
\* an endpoint of it does.
LEMMA ToldMeansPlays ==
  ASSUME NEW i, IsInventory(i), NEW m, m # NoName, NEW e \in ToSet(i.endpoints),
         NEW r \in Sides(e.site.system)
  PROVE  Stores(RelationsOf(i), <<ModuleKind(i.modules, m), m>>, Verb[r],
                <<KindOf(e.site), e.site.topic>>)
           <=> Plays(ToSet(i.endpoints), m, r, e.site.topic)
<1> DEFINE all == ToSet(i.endpoints)
           ids == IdsOf(RelationsOf(i))
           source == <<ModuleKind(i.modules, m), m>>
           target == <<KindOf(e.site), e.site.topic>>
           Ids(x) == FactIds(i, x)
<1>1. Stores(RelationsOf(i), source, Verb[r], target) <=> \E id \in ids : Says(id, source, Verb[r], target)
  BY DEF Stores, IdsOf
<1>2. /\ \A id \in ids :
           \/ id[2] = "depends_on" /\ id[3][1] \in {"module", "microservice"}
           \/ id[3][1] = "collection"
           \/ \E x \in all : id \in Ids(x)
      /\ \A x \in all : Ids(x) \subseteq ids
  BY InventoryIds
<1>3. /\ r \in {"produce", "consume", "serve", "call"}
      /\ Verb[r] \notin {"depends_on", "implements", "uses_configuration"}
      /\ target[1] \in {"topic", "api"} /\ target[2] = e.site.topic
      /\ source[1] \in {"microservice", "module"} /\ source[2] = m
  BY InventoryTypes, RolesTell DEF KindOf, ModuleKind
<1>4. ASSUME NEW id \in ids, Says(id, source, Verb[r], target)
      PROVE  Plays(all, m, r, e.site.topic)
  <2>1. id[1] = source /\ id[2] = Verb[r] /\ id[3] = target
    BY <1>4 DEF Says
  <2>2. PICK x \in all : id \in Ids(x)
    BY <1>2, <1>3, <2>1
  <2>3. x.service # NoName
    BY <2>2, EndpointIds DEF FactIds
  <2>4. \/ Says(id, <<ModuleKind(i.modules, x.service), x.service>>, Verb[x.site.role],
                <<KindOf(x.site), x.site.topic>>)
        \/ id[2] \in {"implements", "uses_configuration"}
        \/ id[3] = <<"dto", x.site.type>>
    BY <2>2, EndpointIds DEF FactIds, Says
  <2>5. Says(id, <<ModuleKind(i.modules, x.service), x.service>>, Verb[x.site.role],
                <<KindOf(x.site), x.site.topic>>)
    BY <1>3, <2>1, <2>4
  <2>6. source[2] = x.service /\ Verb[r] = Verb[x.site.role] /\ target[2] = x.site.topic
    <3> HIDE DEF source, target
    <3> QED BY <2>1, <2>5 DEF Says
  <2>7. x.site.role = r
    BY <1>3, <2>6, InventoryTypes, RolesTell
  <2> QED BY <1>3, <2>6, <2>7 DEF Plays
<1>5. ASSUME Plays(all, m, r, e.site.topic)
      PROVE  \E id \in ids : Says(id, source, Verb[r], target)
  <2>1. PICK x \in all : x.service = m /\ x.site.role = r /\ x.site.topic = e.site.topic
    BY <1>5 DEF Plays
  <2>2. KindOf(x.site) = KindOf(e.site)
    <3>1. x.site.system = e.site.system
      BY <2>1, InventoryTypes
    <3> QED BY <3>1 DEF KindOf
  <2>3. \E id \in Ids(x) : Says(id, <<ModuleKind(i.modules, x.service), x.service>>,
                                Verb[x.site.role], <<KindOf(x.site), x.site.topic>>)
    BY <2>1, EndpointIds DEF FactIds
  <2> HIDE DEF ids, Ids, all
  <2> QED BY <1>2, <2>1, <2>2, <2>3
<1> HIDE DEF ids, all, source, target
<1> QED BY <1>1, <1>4, <1>5 DEF all, source, target

\* That a topic carries a type is stored exactly when an endpoint of a module
\* says so.
LEMMA TypingMeans ==
  ASSUME NEW i, IsInventory(i), NEW t, NEW d, d # NoName
  PROVE  (\E r \in {"publishes_type", "consumes_type"} :
            Stores(RelationsOf(i), <<"topic", t>>, r, <<"dto", d>>))
           <=> \E e \in ToSet(i.endpoints) :
                 /\ e.service # NoName /\ e.site.system = "kafka"
                 /\ e.site.type = d /\ e.site.topic = t
<1> DEFINE all == ToSet(i.endpoints)
           ids == IdsOf(RelationsOf(i))
           Ids(x) == FactIds(i, x)
<1>1. \A r : Stores(RelationsOf(i), <<"topic", t>>, r, <<"dto", d>>)
               <=> \E id \in ids : Says(id, <<"topic", t>>, r, <<"dto", d>>)
  BY DEF Stores, IdsOf
<1>2. /\ \A id \in ids :
           \/ id[2] = "depends_on" /\ id[3][1] \in {"module", "microservice"}
           \/ id[3][1] = "collection"
           \/ \E x \in all : id \in Ids(x)
      /\ \A x \in all : Ids(x) \subseteq ids
  BY InventoryIds
<1>3. ASSUME NEW r \in {"publishes_type", "consumes_type"}, NEW id \in ids,
             Says(id, <<"topic", t>>, r, <<"dto", d>>)
      PROVE  \E e \in all : /\ e.service # NoName /\ e.site.system = "kafka"
                            /\ e.site.type = d /\ e.site.topic = t
  <2>1. id[1] = <<"topic", t>> /\ id[2] = r /\ id[3] = <<"dto", d>>
    BY <1>3 DEF Says
  <2>2. PICK x \in all : id \in Ids(x)
    BY <1>2, <2>1
  <2>3. /\ x.service # NoName
        /\ \/ id[3] = <<KindOf(x.site), x.site.topic>>
           \/ id[2] \in {"implements", "uses_configuration"}
           \/ /\ x.site.system = "kafka"
              /\ id[1] = <<"topic", x.site.topic>> /\ id[3] = <<"dto", x.site.type>>
    BY <2>2, EndpointIds DEF FactIds, Says
  <2>4. KindOf(x.site) # "dto"
    BY DEF KindOf
  <2>5. /\ x.site.system = "kafka"
        /\ id[1] = <<"topic", x.site.topic>> /\ id[3] = <<"dto", x.site.type>>
    BY <2>1, <2>3, <2>4
  <2> QED BY <2>1, <2>3, <2>5
<1>4. ASSUME NEW e \in all, e.service # NoName, e.site.system = "kafka",
             e.site.type = d, e.site.topic = t
      PROVE  \E r \in {"publishes_type", "consumes_type"}, id \in ids :
               Says(id, <<"topic", t>>, r, <<"dto", d>>)
  <2>1. \E id \in Ids(e) : Says(id, <<"topic", e.site.topic>>, TypeRelation(e.site),
                                <<"dto", e.site.type>>)
    BY <1>4, EndpointIds DEF FactIds
  <2>2. TypeRelation(e.site) \in {"publishes_type", "consumes_type"}
    BY DEF TypeRelation
  <2> HIDE DEF ids, Ids, all
  <2> QED BY <1>2, <1>4, <2>1, <2>2
<1> HIDE DEF ids
<1> QED BY <1>1, <1>3, <1>4

-----------------------------------------------------------------------------
\* What the catalogue tells.

\* A catalogue has the modules and the endpoints of its inventory.
LEMMA CatalogIs ==
  ASSUME NEW i
  PROVE  LET c == CatalogOf(i)
         IN  c.modules = i.modules /\ c.endpoints = ToSet(i.endpoints) /\ c.listed = i.endpoints
BY DEF CatalogOf, BuildCatalog

\* The system that a role is of.
SystemOf(role) == IF role \in {"produce", "consume"} THEN "kafka" ELSE "rest"

\* Selecting the endpoints by role alone or by system and role is the same.
LEMMA PlayersAre ==
  ASSUME NEW i, IsInventory(i), NEW r \in {"produce", "consume", "serve", "call"}
  PROVE  /\ With(CatalogOf(i), SystemOf(r), r) = {e \in ToSet(i.endpoints) : e.site.role = r}
         /\ \A e \in ToSet(i.endpoints) : e.site.role = r => e.site.system = SystemOf(r)
<1>1. \A e \in ToSet(i.endpoints) : e.site.role = r => e.site.system = SystemOf(r)
  BY InventoryTypes DEF Sides, SystemOf
<1> QED BY <1>1, CatalogIs DEF With

\* What the summary of a module says of a role.
SummaryOf(c, m, r) ==
  CASE r = "produce" -> ModuleSummary(c, m).published
    [] r = "consume" -> ModuleSummary(c, m).consumed
    [] r = "serve"   -> ModuleSummary(c, m).exposed
    [] r = "call"    -> ModuleSummary(c, m).called

\* What the summary of a topic or an API says of a role.
BackOf(c, t, r) ==
  CASE r = "produce" -> TopicSummary(c, t).producers
    [] r = "consume" -> TopicSummary(c, t).consumers
    [] r = "serve"   -> ApiSummary(c, t).providers
    [] r = "call"    -> ApiSummary(c, t).consumers

\* The summary of a module has a topic or route for a role exactly when an
\* endpoint of it plays that role.
LEMMA SummaryMeansPlays ==
  ASSUME NEW i, IsInventory(i), NEW m, NEW r \in {"produce", "consume", "serve", "call"}, NEW t
  PROVE  t \in SummaryOf(CatalogOf(i), m, r) <=> Plays(ToSet(i.endpoints), m, r, t)
<1> DEFINE c == CatalogOf(i)
<1>1. SummaryOf(c, m, r) = Topics({e \in With(c, SystemOf(r), r) : e.service = m})
  <2>1. CASE r = "produce"
    BY <2>1 DEF SummaryOf, ModuleSummary, SystemOf
  <2>2. CASE r = "consume"
    BY <2>2 DEF SummaryOf, ModuleSummary, SystemOf
  <2>3. CASE r = "serve"
    BY <2>3 DEF SummaryOf, ModuleSummary, SystemOf
  <2>4. CASE r = "call"
    BY <2>4 DEF SummaryOf, ModuleSummary, SystemOf
  <2> QED BY <2>1, <2>2, <2>3, <2>4
<1> HIDE DEF c
<1> QED BY <1>1, PlayersAre DEF Topics, Plays, c

\* The summary of a topic or API has a module for a role exactly when an
\* endpoint of the module plays that role.
LEMMA BackMeansPlays ==
  ASSUME NEW i, IsInventory(i), NEW m, m # NoName,
         NEW r \in {"produce", "consume", "serve", "call"}, NEW t
  PROVE  m \in BackOf(CatalogOf(i), t, r) <=> Plays(ToSet(i.endpoints), m, r, t)
<1> DEFINE c == CatalogOf(i)
<1>1. BackOf(c, t, r) = Owners({e \in With(c, SystemOf(r), r) : e.site.topic = t})
  <2>1. CASE r = "produce"
    BY <2>1 DEF BackOf, TopicSummary, SystemOf
  <2>2. CASE r = "consume"
    BY <2>2 DEF BackOf, TopicSummary, SystemOf
  <2>3. CASE r = "serve"
    BY <2>3 DEF BackOf, ApiSummary, SystemOf
  <2>4. CASE r = "call"
    BY <2>4 DEF BackOf, ApiSummary, SystemOf
  <2> QED BY <2>1, <2>2, <2>3, <2>4
<1> HIDE DEF c
<1> QED BY <1>1, PlayersAre DEF Owners, Plays, c

\* The trace of a topic has a module in a role exactly when an endpoint of the
\* module plays it, although the trace has one site for an identity.
LEMMA TraceMeansPlays ==
  ASSUME NEW i, IsInventory(i), NEW m, NEW r, NEW t
  PROVE  (\E s \in TraceFlow(t, i.endpoints, {}) : s.service = m /\ s.site.role = r)
           <=> Plays(ToSet(i.endpoints), m, r, t)
<1> DEFINE all == ToSet(i.endpoints)
           sites == TraceFlow(t, i.endpoints, {})
<1>1. i.endpoints \in Seq(all) /\ all = {i.endpoints[k] : k \in DOMAIN i.endpoints}
  BY InventoryTypes
<1>2. /\ \A s \in sites : \E k \in DOMAIN i.endpoints :
           /\ s.service = i.endpoints[k].service /\ s.site = i.endpoints[k].site
           /\ i.endpoints[k].site.topic = t
      /\ \A k \in DOMAIN i.endpoints : Traces(t, sites, i.endpoints[k])
  <2> HIDE DEF all
  <2> QED BY <1>1, TraceTells
<1>3. \A x, y \in all : x.site.id = y.site.id => x.site.role = y.site.role
  BY InventoryTypes
<1> HIDE DEF all, sites
<1>4. \A s \in sites : \E e \in all : s.service = e.service /\ s.site = e.site /\ e.site.topic = t
  BY <1>1, <1>2
<1>5. ASSUME NEW s \in sites, s.service = m, s.site.role = r PROVE Plays(all, m, r, t)
  BY <1>4, <1>5 DEF Plays
<1>6. ASSUME NEW e \in all, e.service = m, e.site.role = r, e.site.topic = t
      PROVE  \E s \in sites : s.service = m /\ s.site.role = r
  <2>1. PICK k \in DOMAIN i.endpoints : e = i.endpoints[k]
    BY <1>1
  <2>5. Traces(t, sites, e)
    BY <1>2, <2>1
  <2>4. PICK s \in sites : s.service = e.service /\ s.site.id = e.site.id
    BY <1>6, <2>5 DEF Traces
  <2>2. PICK x \in all : s.site = x.site
    BY <1>4
  <2>3. s.site.role = e.site.role
    BY <1>3, <2>2, <2>4
  <2> QED BY <1>6, <2>3, <2>4
<1>7. Plays(all, m, r, t) <=> \E e \in all : e.service = m /\ e.site.role = r /\ e.site.topic = t
  BY DEF Plays
<1> QED BY <1>5, <1>6, <1>7 DEF all, sites

\* The topics and routes next to a module.
SitesNear(i, m) ==
  {<<KindOf(e.site), Verb[e.site.role], e.site.topic>> :
     e \in {x \in ToSet(i.endpoints) : x.service = m}}

\* The collections next to a module.
CollectionsNear(i, m) == {<<"collection", "uses", k>> : k \in i.modules[m].collections}

\* The modules next to a module.
EdgesNear(i, m) ==
  {<<"module", "depends_on", e.to>> : e \in {x \in ToSet(CatalogOf(i).edges) : x.from = m}} \cup
  {<<"module", "used_by", e.from>> : e \in {x \in ToSet(CatalogOf(i).edges) : x.to = m}}

\* The neighbours of a module are these three, and a topic or route is among
\* them for a role exactly when an endpoint of the module plays it.
LEMMA NeighborsOfModule ==
  ASSUME NEW i, IsInventory(i), NEW m \in DOMAIN i.modules
  PROVE  /\ Neighbors(CatalogOf(i), "module", m) =
              SitesNear(i, m) \cup CollectionsNear(i, m) \cup EdgesNear(i, m)
         /\ \A e \in ToSet(i.endpoints) : \A r \in Sides(e.site.system) :
              <<KindOf(e.site), Verb[r], e.site.topic>> \in Neighbors(CatalogOf(i), "module", m)
                    <=> Plays(ToSet(i.endpoints), m, r, e.site.topic)
<1> DEFINE c == CatalogOf(i)
           all == ToSet(i.endpoints)
           Sites == SitesNear(i, m)
           Others == CollectionsNear(i, m) \cup EdgesNear(i, m)
<1>1. Neighbors(c, "module", m) = SitesNear(i, m) \cup CollectionsNear(i, m) \cup EdgesNear(i, m)
  <2>1. c.modules = i.modules /\ c.endpoints = all
    BY CatalogIs
  <2>2. Shown(c, "module", m)
    BY <2>1 DEF Shown
  <2> QED BY <2>1, <2>2 DEF Neighbors, SitesNear, CollectionsNear, EdgesNear
<1>2. \A e : KindOf(e) \in {"topic", "api"}
  BY DEF KindOf
<1>3. ASSUME NEW e \in all, NEW r \in Sides(e.site.system)
      PROVE  <<KindOf(e.site), Verb[r], e.site.topic>> \in Neighbors(c, "module", m)
               <=> Plays(all, m, r, e.site.topic)
  <2> DEFINE near == <<KindOf(e.site), Verb[r], e.site.topic>>
  <2>1. near \in Neighbors(c, "module", m) <=> near \in Sites
    <3>1. near \notin Others
      BY <1>2 DEF CollectionsNear, EdgesNear
    <3> HIDE DEF near
    <3> QED BY <1>1, <3>1
  <2>2. ASSUME near \in Sites PROVE Plays(all, m, r, e.site.topic)
    <3>1. PICK x \in all : /\ x.service = m /\ Verb[r] = Verb[x.site.role]
                           /\ e.site.topic = x.site.topic
      BY <2>2 DEF SitesNear
    <3>2. r = x.site.role
      BY <3>1, InventoryTypes, RolesTell
    <3> QED BY <3>1, <3>2 DEF Plays
  <2>3. ASSUME Plays(all, m, r, e.site.topic) PROVE near \in Sites
    <3>1. PICK x \in all : x.service = m /\ x.site.role = r /\ x.site.topic = e.site.topic
      BY <2>3 DEF Plays
    <3>2. KindOf(x.site) = KindOf(e.site)
      BY <3>1, InventoryTypes DEF KindOf
    <3> QED BY <3>1, <3>2 DEF SitesNear
  <2> QED BY <2>1, <2>2, <2>3
<1> QED BY <1>1, <1>3

\* What depends on a module is used by it: both read the same edges.
LEMMA DependsOrIsUsed ==
  ASSUME NEW i, IsInventory(i), NEW m \in DOMAIN i.modules, NEW n \in DOMAIN i.modules
  PROVE  <<"module", "depends_on", n>> \in Neighbors(CatalogOf(i), "module", m) <=>
         <<"module", "used_by", m>> \in Neighbors(CatalogOf(i), "module", n)
<1> DEFINE edges == ToSet(CatalogOf(i).edges)
<1>1. \A k \in {m, n} : Neighbors(CatalogOf(i), "module", k) =
                           SitesNear(i, k) \cup CollectionsNear(i, k) \cup EdgesNear(i, k)
  BY NeighborsOfModule
<1>2. \A k \in {m, n} : \A p \in SitesNear(i, k) \cup CollectionsNear(i, k) : p[1] # "module"
  BY DEF SitesNear, CollectionsNear, KindOf
<1>3. <<"module", "depends_on", n>> \in EdgesNear(i, m) <=> \E x \in edges : x.from = m /\ x.to = n
  BY DEF EdgesNear
<1>4. <<"module", "used_by", m>> \in EdgesNear(i, n) <=> \E x \in edges : x.to = n /\ x.from = m
  BY DEF EdgesNear
<1>5. <<"module", "depends_on", n>>[1] = "module" /\ <<"module", "used_by", m>>[1] = "module"
  OBVIOUS
<1> HIDE DEF edges
<1> QED BY <1>1, <1>2, <1>3, <1>4, <1>5

\* A module is next to a topic or route for a role exactly when an endpoint of
\* the module plays it.
LEMMA NeighborsOfResource ==
  ASSUME NEW i, IsInventory(i), NEW m, m # NoName, NEW e \in ToSet(i.endpoints),
         NEW r \in Sides(e.site.system)
  PROVE  <<"module", Noun[r], m>> \in Neighbors(CatalogOf(i), KindOf(e.site), e.site.topic)
           <=> Plays(ToSet(i.endpoints), m, r, e.site.topic)
<1> DEFINE c == CatalogOf(i)
           all == ToSet(i.endpoints)
           t == e.site.topic
           same == {x \in OfSystem(c, e.site.system) : x.site.topic = t}
           near == {<<"module", Noun[x.site.role], x.service>> :
                      x \in {y \in same : y.service # NoName}}
<1>0. OfSystem(c, e.site.system) = {x \in all : x.site.system = e.site.system}
  BY CatalogIs DEF OfSystem
<1>1. e.site.system \in {"kafka", "rest"}
  BY InventoryTypes
<1>2. Shown(c, KindOf(e.site), t)
  <2>1. t \in Topics(OfSystem(c, e.site.system))
    BY <1>0 DEF Topics
  <2> QED BY <1>1, <2>1 DEF Shown, KindOf
<1>3. Neighbors(c, KindOf(e.site), t) = near
  <2>1. CASE e.site.system = "kafka"
    <3> HIDE DEF c, t
    <3> QED BY <1>2, <2>1 DEF Neighbors, KindOf
  <2>2. CASE e.site.system = "rest"
    <3> HIDE DEF c, t
    <3> QED BY <1>2, <2>2 DEF Neighbors, KindOf
  <2> QED BY <1>1, <2>1, <2>2
<1>4. same = {x \in all : x.site.topic = t}
  BY <1>0, InventoryTypes
<1> HIDE DEF same
<1>5. ASSUME <<"module", Noun[r], m>> \in near PROVE Plays(all, m, r, t)
  <2>1. PICK x \in same : Noun[r] = Noun[x.site.role] /\ m = x.service
    BY <1>5
  <2>2. x \in all /\ x.site.topic = t
    BY <1>4, <2>1
  <2>3. x.site.system = e.site.system /\ x.site.role \in Sides(e.site.system)
    BY <2>2, InventoryTypes
  <2>4. x.site.role = r
    BY <1>1, <2>1, <2>3, RolesTell
  <2> QED BY <2>1, <2>2, <2>4 DEF Plays
<1>6. ASSUME Plays(all, m, r, t) PROVE <<"module", Noun[r], m>> \in near
  <2>1. PICK x \in all : x.service = m /\ x.site.role = r /\ x.site.topic = t
    BY <1>6 DEF Plays
  <2>2. x \in same
    BY <1>4, <2>1
  <2> QED BY <2>1, <2>2
<1> QED BY <1>3, <1>5, <1>6

\* A call that no edge answers is external in the summary of its module, which
\* looks at the edges of that module only.
LEMMA UnmatchedIsExternal ==
  ASSUME NEW i, IsInventory(i), NEW e \in InventoryCoverage(CatalogOf(i)).unmatched
  PROVE  e.site.topic \in ModuleSummary(CatalogOf(i), e.service).external
<1> DEFINE c == CatalogOf(i)
           calls == With(c, "rest", "call")
           matched == {x.source.id : x \in {y \in ToSet(c.edges) : y.kind = "rest"}}
           mine == {x.source.id : x \in {y \in ToSet(c.edges) : y.kind = "rest" /\ y.from = e.service}}
<1>1. e \in calls /\ e.site.id \notin matched
  BY DEF InventoryCoverage
<1>2. mine \subseteq matched
  OBVIOUS
<1>3. ModuleSummary(c, e.service).external =
        Topics({x \in {y \in calls : y.service = e.service} : x.site.id \notin mine})
  BY DEF ModuleSummary
<1> HIDE DEF c, calls, matched, mine
<1> QED BY <1>1, <1>2, <1>3 DEF Topics, c

\* A topic or route is an orphan exactly when no module plays one of the roles
\* of its system for it.
LEMMA OrphansLackASide ==
  ASSUME NEW i, IsInventory(i), NEW e \in ToSet(i.endpoints)
  PROVE  e.site.topic \in OrphanIntegrations(CatalogOf(i)) <=>
           \E r \in Sides(e.site.system) :
             ~\E m \in Owners(ToSet(i.endpoints)) : Plays(ToSet(i.endpoints), m, r, e.site.topic)
<1> DEFINE c == CatalogOf(i)
           all == ToSet(i.endpoints)
           t == e.site.topic
           system == e.site.system
<1>1. /\ system \in {"kafka", "rest"}
      /\ \A x \in all : x.site.topic = t => x.site.system = system
  BY InventoryTypes
<1>2. \A other \in {"kafka", "rest"} : t \in Topics(OfSystem(c, other)) <=> other = system
  <2>1. \A other : OfSystem(c, other) = {x \in all : x.site.system = other}
    BY CatalogIs DEF OfSystem
  <2> HIDE DEF c
  <2> QED BY <1>1, <2>1 DEF Topics
<1>3. t \in OrphanIntegrations(c) <=> \E r \in Sides(system) : BackOf(c, t, r) = {}
  <2> HIDE DEF c, t, system
  <2>1. CASE system = "kafka"
    <3>1. t \in OrphanIntegrations(c) <=>
            {} \in {TopicSummary(c, t).producers, TopicSummary(c, t).consumers}
      BY <1>2, <2>1 DEF OrphanIntegrations
    <3> QED BY <2>1, <3>1 DEF Sides, BackOf
  <2>2. CASE system = "rest"
    <3>1. t \in OrphanIntegrations(c) <=>
            {} \in {ApiSummary(c, t).providers, ApiSummary(c, t).consumers}
      BY <1>2, <2>2 DEF OrphanIntegrations
    <3> QED BY <2>2, <3>1 DEF Sides, BackOf
  <2> QED BY <1>1, <2>1, <2>2
<1>4. ASSUME NEW r \in Sides(system)
      PROVE  BackOf(c, t, r) = {} <=> ~\E m \in Owners(all) : Plays(all, m, r, t)
  <2>1. r \in {"produce", "consume", "serve", "call"}
    BY <1>1, RolesTell
  <2>2. ASSUME NEW m \in BackOf(c, t, r) PROVE m # NoName
    <3>1. NoName \notin BackOf(c, t, r)
      <4> HIDE DEF c
      <4> QED BY <2>1 DEF BackOf, TopicSummary, ApiSummary, Owners
    <3> QED BY <3>1
  <2>3. \A m : m \in Owners(all) => m # NoName
    BY DEF Owners
  <2>4. \A m : Plays(all, m, r, t) /\ m # NoName => m \in Owners(all)
    BY DEF Owners, Plays
  <2>5. \A m : m # NoName => (m \in BackOf(c, t, r) <=> Plays(all, m, r, t))
    BY <2>1, BackMeansPlays
  <2> HIDE DEF c, all, t
  <2> QED BY <2>2, <2>3, <2>4, <2>5
<1> HIDE DEF c, all, t, system
<1> QED BY <1>3, <1>4 DEF c, all, t, system

\* The summary of a message type, its neighbours and the stored relations agree
\* on its topics, and on the running modules that send or receive it.
LEMMA TypesAgree ==
  ASSUME NEW i, IsInventory(i), NEW d, d # NoName
  PROVE  LET c == CatalogOf(i)
             dto == DtoSummary(c, d)
             all == ToSet(i.endpoints)
             Running(noun) == {m \in DOMAIN i.modules : /\ i.modules[m].starts
                                   /\ <<"module", noun, m>> \in Neighbors(c, "dto", d)}
         IN  /\ dto.topics =
                  {t \in Topics(all) : \E r \in {"publishes_type", "consumes_type"} :
                      Stores(RelationsOf(i), <<"topic", t>>, r, <<"dto", d>>)}
                  \cup Topics({e \in OfSystem(c, "kafka") : e.service = NoName /\ e.site.type = d})
             /\ dto.producers = Running("producer")
             /\ dto.consumers = Running("consumer")
<1> DEFINE c == CatalogOf(i)
           all == ToSet(i.endpoints)
           typed == {e \in OfSystem(c, "kafka") : e.site.type = d}
           near == Neighbors(c, "dto", d)
           Of(role) == {m \in DOMAIN i.modules : i.modules[m].starts /\
                          \E e \in typed : e.service = m /\ e.site.role = role}
<1>1. c.modules = i.modules /\ OfSystem(c, "kafka") = {e \in all : e.site.system = "kafka"}
  BY CatalogIs DEF OfSystem
<1>2. DtoSummary(c, d).topics = Topics(typed)
  BY DEF DtoSummary
<1>3. NoName \notin DOMAIN i.modules
  BY InventoryTypes
<1>4. /\ DtoSummary(c, d).producers = Of("produce")
      /\ DtoSummary(c, d).consumers = Of("consume")
  <2>1. /\ DtoSummary(c, d).producers = Owners({e \in typed : e.site.role = "produce"})
                                          \cap {m \in DOMAIN c.modules : c.modules[m].starts}
        /\ DtoSummary(c, d).consumers = Owners({e \in typed : e.site.role = "consume"})
                                          \cap {m \in DOMAIN c.modules : c.modules[m].starts}
    BY DEF DtoSummary
  <2> HIDE DEF c, typed
  <2> QED BY <1>1, <1>3, <2>1 DEF Owners
<1>5. \A e \in typed : e.site.role \in {"produce", "consume"}
  BY <1>1, InventoryTypes DEF Sides
<1>6. ASSUME NEW m \in DOMAIN i.modules, NEW role \in {"produce", "consume"}
      PROVE  <<"module", Noun[role], m>> \in near <=>
               \E e \in typed : e.service = m /\ e.site.role = role
  <2> DEFINE owning == {<<"module", Noun[e.site.role], e.service>> :
                          e \in {x \in typed : x.service # NoName}}
             topics == {<<"topic", IF e.site.role = "produce" THEN "published_as" ELSE "consumed_as",
                          e.site.topic>> : e \in typed}
  <2>1. near = IF Shown(c, "dto", d) THEN owning \cup topics ELSE {}
    <3> DEFINE told(e) == <<"topic", IF e.site.role = "produce" THEN "published_as" ELSE "consumed_as",
                            e.site.topic>>
    <3>1. ASSUME ~Shown(c, "dto", d) PROVE Neighbors(c, "dto", d) = {}
      <4> HIDE DEF c
      <4> QED BY <3>1 DEF Neighbors
    <3>2. ASSUME Shown(c, "dto", d)
          PROVE  Neighbors(c, "dto", d) = owning \cup topics
      <4>1. ASSUME NEW p PROVE p \in Neighbors(c, "dto", d) <=> p \in owning \cup topics
        <5> HIDE DEF c
        <5> QED BY <3>2, Zenon DEF Neighbors
      <4> HIDE DEF owning, topics, c
      <4> QED BY <4>1
    <3> HIDE DEF c, owning, topics
    <3> QED BY <3>1, <3>2
  <2>2. typed # {} <=> Shown(c, "dto", d)
    <3> HIDE DEF c
    <3> QED BY DEF Shown
  <2>3. <<"module", Noun[role], m>> \in near <=> <<"module", Noun[role], m>> \in owning
    <3>1. <<"module", Noun[role], m>> \notin topics
      OBVIOUS
    <3>2. typed = {} => owning = {}
      OBVIOUS
    <3> HIDE DEF near, owning, topics, typed
    <3> QED BY <2>1, <2>2, <3>1, <3>2
  <2> HIDE DEF typed, near
  <2>4. \A r, q \in {"produce", "consume"} : Noun[r] = Noun[q] => r = q
    BY DEF Noun
  <2>5. m # NoName
    BY <1>3
  <2>6. ASSUME <<"module", Noun[role], m>> \in owning
        PROVE  \E e \in typed : e.service = m /\ e.site.role = role
    BY <1>5, <2>4, <2>6
  <2>7. ASSUME NEW e \in typed, e.service = m, e.site.role = role
        PROVE  <<"module", Noun[role], m>> \in owning
    BY <2>5, <2>7
  <2> QED BY <2>3, <2>6, <2>7
<1>7. ASSUME NEW t
      PROVE  t \in Topics(typed) <=>
               \/ /\ t \in Topics(all)
                  /\ \E r \in {"publishes_type", "consumes_type"} :
                       Stores(RelationsOf(i), <<"topic", t>>, r, <<"dto", d>>)
               \/ t \in Topics({e \in typed : e.service = NoName})
  <2>1. (\E r \in {"publishes_type", "consumes_type"} :
           Stores(RelationsOf(i), <<"topic", t>>, r, <<"dto", d>>))
          <=> \E e \in typed : e.service # NoName /\ e.site.topic = t
    <3>1. (\E r \in {"publishes_type", "consumes_type"} :
             Stores(RelationsOf(i), <<"topic", t>>, r, <<"dto", d>>))
           <=> \E e \in all : /\ e.service # NoName /\ e.site.system = "kafka"
                              /\ e.site.type = d /\ e.site.topic = t
      BY TypingMeans
    <3>2. \A e : e \in typed <=> e \in all /\ e.site.system = "kafka" /\ e.site.type = d
      BY <1>1
    <3> HIDE DEF all, typed
    <3> QED BY <3>1, <3>2
  <2>2. typed \subseteq all
    BY <1>1
  <2> HIDE DEF all, typed
  <2> QED BY <2>1, <2>2 DEF Topics
<1>8. {e \in OfSystem(c, "kafka") : e.service = NoName /\ e.site.type = d}
        = {e \in typed : e.service = NoName}
  OBVIOUS
<1>9. /\ Of("produce") = {m \in DOMAIN i.modules : i.modules[m].starts /\ <<"module", "producer", m>> \in near}
      /\ Of("consume") = {m \in DOMAIN i.modules : i.modules[m].starts /\ <<"module", "consumer", m>> \in near}
  <2>1. \A m \in DOMAIN i.modules :
          /\ <<"module", "producer", m>> \in near <=>
               \E e \in typed : e.service = m /\ e.site.role = "produce"
          /\ <<"module", "consumer", m>> \in near <=>
               \E e \in typed : e.service = m /\ e.site.role = "consume"
    <3> SUFFICES ASSUME NEW m \in DOMAIN i.modules
                 PROVE  /\ <<"module", "producer", m>> \in near <=>
                             \E e \in typed : e.service = m /\ e.site.role = "produce"
                        /\ <<"module", "consumer", m>> \in near <=>
                             \E e \in typed : e.service = m /\ e.site.role = "consume"
      OBVIOUS
    <3>1. <<"module", Noun["produce"], m>> \in near <=>
            \E e \in typed : e.service = m /\ e.site.role = "produce"
      BY <1>6
    <3>2. <<"module", Noun["consume"], m>> \in near <=>
            \E e \in typed : e.service = m /\ e.site.role = "consume"
      BY <1>6
    <3> HIDE DEF near, typed
    <3> QED BY <3>1, <3>2, RolesTell
  <2> HIDE DEF near, typed
  <2>2. Of("produce") = {m \in DOMAIN i.modules :
                           i.modules[m].starts /\ <<"module", "producer", m>> \in near}
    <3> SUFFICES ASSUME NEW m \in DOMAIN i.modules
                 PROVE  m \in Of("produce") <=> i.modules[m].starts /\ <<"module", "producer", m>> \in near
      BY Zenon
    <3>1. m \in Of("produce") <=> i.modules[m].starts /\ \E e \in typed : e.service = m /\ e.site.role = "produce"
      BY Zenon
    <3> QED BY <2>1, <3>1, Zenon
  <2>3. Of("consume") = {m \in DOMAIN i.modules :
                           i.modules[m].starts /\ <<"module", "consumer", m>> \in near}
    <3> SUFFICES ASSUME NEW m \in DOMAIN i.modules
                 PROVE  m \in Of("consume") <=> i.modules[m].starts /\ <<"module", "consumer", m>> \in near
      BY Zenon
    <3>1. m \in Of("consume") <=> i.modules[m].starts /\ \E e \in typed : e.service = m /\ e.site.role = "consume"
      BY Zenon
    <3> QED BY <2>1, <3>1, Zenon
  <2> QED BY <2>2, <2>3
<1>10. Topics(typed) =
         {t \in Topics(all) : \E r \in {"publishes_type", "consumes_type"} :
             Stores(RelationsOf(i), <<"topic", t>>, r, <<"dto", d>>)}
         \cup Topics({e \in typed : e.service = NoName})
  <2> HIDE DEF typed, all
  <2> QED BY <1>7
<1> HIDE DEF Of
<1> QED BY <1>2, <1>4, <1>8, <1>9, <1>10

-----------------------------------------------------------------------------
\* The theorem: what is shown is what is stored of an inventory.

\* The question and its answer, when there is one, are of one inventory.
ViewsInv ==
  /\ asked = "views" /\ about \in Inventories
  /\ answered => answer = RelationsOf(about)

\* The relations that are shown are those of the inventory that was asked of.
LEMMA ViewsInvAlways == ViewsSpec => []ViewsInv
<1>1. ViewsInit => ViewsInv
  BY DEF ViewsInit, Ask, ViewsInv
<1>2. ViewsInv /\ [ViewsNext]_vars => ViewsInv'
  BY DEF ViewsInv, ViewsNext, RelateInventory, Answer, RelationsOf, vars
<1> QED BY <1>1, <1>2, PTL DEF ViewsSpec

\* Whatever the inventory, what the indexer stores of a module and a topic or
\* route is what the summaries, the neighbours and the trace tell of them
\* (relations.py next to architecture.py and flow.py).
THEOREM ViewsAlwaysAgree == ViewsSpec => []ViewsAgree
<1>1. ViewsInv => ViewsAgree
  <2> SUFFICES ASSUME ViewsInv, answered PROVE ViewsAgree
    BY DEF ViewsAgree, Answered
  <2>1. about \in Inventories /\ IsInventory(about) /\ answer = RelationsOf(about)
    BY ViewsAssumption DEF ViewsInv
  <2> DEFINE c == CatalogOf(about)
             Told(m, r, s) == Stores(answer, <<ModuleKind(about.modules, m), m>>, Verb[r],
                                     <<KindOf(s), s.topic>>)
  <2>2. c.endpoints = ToSet(about.endpoints) /\ NoName \notin DOMAIN about.modules
    BY <2>1, CatalogIs, InventoryTypes
  <2>3. ASSUME NEW m \in DOMAIN about.modules, NEW e \in c.endpoints
        PROVE  LET r == e.site.role
                   t == e.site.topic
               IN  /\ Told(m, r, e.site) <=> t \in SummaryOf(c, m, r)
                   /\ Told(m, r, e.site) <=> m \in BackOf(c, t, r)
                   /\ Told(m, r, e.site) <=>
                        \E s \in TraceFlow(t, about.endpoints, {}) : s.service = m /\ s.site.role = r
                   /\ Told(m, r, e.site) <=>
                        <<KindOf(e.site), Verb[r], t>> \in Neighbors(c, "module", m)
                   /\ Told(m, r, e.site) <=>
                        <<"module", Noun[r], m>> \in Neighbors(c, KindOf(e.site), t)
    <3> DEFINE played == Plays(ToSet(about.endpoints), m, e.site.role, e.site.topic)
    <3>1. /\ e \in ToSet(about.endpoints) /\ e.site.role \in Sides(e.site.system)
          /\ e.site.role \in {"produce", "consume", "serve", "call"} /\ m # NoName
      BY <2>1, <2>2, InventoryTypes
    <3>2. Told(m, e.site.role, e.site) <=> played
      BY <2>1, <3>1, ToldMeansPlays
    <3>3. e.site.topic \in SummaryOf(c, m, e.site.role) <=> played
      BY <2>1, <3>1, SummaryMeansPlays
    <3>4. m \in BackOf(c, e.site.topic, e.site.role) <=> played
      BY <2>1, <3>1, BackMeansPlays
    <3>5. (\E s \in TraceFlow(e.site.topic, about.endpoints, {}) :
             s.service = m /\ s.site.role = e.site.role) <=> played
      BY <2>1, TraceMeansPlays
    <3>6. <<KindOf(e.site), Verb[e.site.role], e.site.topic>> \in Neighbors(c, "module", m)
            <=> played
      BY <2>1, <3>1, NeighborsOfModule
    <3>7. <<"module", Noun[e.site.role], m>> \in Neighbors(c, KindOf(e.site), e.site.topic)
            <=> played
      BY <2>1, <3>1, NeighborsOfResource
    <3> HIDE DEF played, Told, c
    <3> QED BY <3>2, <3>3, <3>4, <3>5, <3>6, <3>7
  <2>4. \A m, n \in DOMAIN about.modules :
          <<"module", "depends_on", n>> \in Neighbors(c, "module", m) <=>
          <<"module", "used_by", m>> \in Neighbors(c, "module", n)
    BY <2>1, DependsOrIsUsed
  <2>5. \A e \in InventoryCoverage(c).unmatched :
          e.site.topic \in ModuleSummary(c, e.service).external
    BY <2>1, UnmatchedIsExternal
  <2>6. ASSUME NEW e \in c.endpoints
        PROVE  e.site.topic \in OrphanIntegrations(c) <=>
                 \E r \in Sides(e.site.system) : ~\E m \in Owners(c.endpoints) : Told(m, r, e.site)
    <3>1. e \in ToSet(about.endpoints)
      BY <2>2
    <3>2. e.site.topic \in OrphanIntegrations(c) <=>
            \E r \in Sides(e.site.system) :
              ~\E m \in Owners(ToSet(about.endpoints)) :
                 Plays(ToSet(about.endpoints), m, r, e.site.topic)
      BY <2>1, <3>1, OrphansLackASide
    <3>3. \A m \in Owners(c.endpoints) : m # NoName
      BY DEF Owners
    <3>4. \A r \in Sides(e.site.system), m \in Owners(c.endpoints) :
            Told(m, r, e.site) <=> Plays(ToSet(about.endpoints), m, r, e.site.topic)
      BY <2>1, <3>1, <3>3, ToldMeansPlays
    <3> HIDE DEF c, Told
    <3> QED BY <2>2, <3>2, <3>4
  <2>7. ASSUME NEW d \in {e.site.type : e \in c.endpoints} \ {NoName}
        PROVE  LET dto == DtoSummary(c, d)
                   Running(noun) == {m \in DOMAIN about.modules :
                       /\ about.modules[m].starts
                       /\ <<"module", noun, m>> \in Neighbors(c, "dto", d)}
               IN  /\ dto.topics =
                        {t \in Topics(c.endpoints) : \E r \in {"publishes_type", "consumes_type"} :
                            Stores(answer, <<"topic", t>>, r, <<"dto", d>>)}
                        \cup Topics({e \in OfSystem(c, "kafka") : e.service = NoName /\ e.site.type = d})
                   /\ dto.producers = Running("producer")
                   /\ dto.consumers = Running("consumer")
    BY <2>1, <2>2, TypesAgree
  <2> HIDE DEF c
  <2> QED BY <2>3, <2>4, <2>5, <2>6, <2>7
        DEF ViewsAgree, Stores, Says, SummaryOf, BackOf, c
<1> QED BY <1>1, ViewsInvAlways, PTL
=============================================================================
