------------------------- MODULE CompactParseProofs -------------------------
(***************************************************************************)
(* For every set of uploads, replies and outputs and every limit: each     *)
(* check of an upload comes before the work it is there to prevent, every  *)
(* error an upload is answered with is about something that is really      *)
(* wrong, and what an answer says is what was analysed and generated.      *)
(*                                                                         *)
(* The first part is about the data: what merging two lists of warnings,   *)
(* ranking the colours of an image and reading the model's reply come to,  *)
(* for inputs of any length. Where that takes an induction over a finite   *)
(* set, the proof looks at a minimal set of counterexamples instead        *)
(* (MinimalSet). The second part is about the handling of a request:       *)
(* ParseInv says what is known of the upload at each stage, ContentInv     *)
(* what is known of the reply and the answer.                              *)
(***************************************************************************)
EXTENDS CompactParse, FiniteSetTheorems, FunctionTheorems, SequenceTheorems,
        WellFoundedInduction, TLAPS

(* Among any subsets of a finite set there is a minimal one: the induction  *)
(* over finite sets that the proofs below use, each on the set of its       *)
(* counterexamples.                                                         *)
LEMMA MinimalSet ==
    ASSUME NEW S, IsFiniteSet(S), NEW C \in SUBSET SUBSET S, C # {}
    PROVE  \E T \in C : \A U \in C : U \subseteq T => U = T
<1>1. IsWellFoundedOn(StrictSubsetOrdering(S), SUBSET S)
  BY FS_FiniteSubsetsOfFinite, FS_StrictSubsetOrderingWellFounded, Zenon
<1>2. \E T \in C : \A U \in C : <<U, T>> \notin StrictSubsetOrdering(S)
  BY <1>1, WFMin, Zenon
<1>3. QED
  BY <1>2 DEF StrictSubsetOrdering

(* The same for the values of a function.                                   *)
LEMMA MinimalImage ==
    ASSUME NEW S, IsFiniteSet(S), S # {}, NEW F \in [S -> SUBSET S]
    PROVE  \E x \in S : \A y \in S : F[y] \subseteq F[x] => F[y] = F[x]
<1> DEFINE C == {F[x] : x \in S}
<1>1. C \in SUBSET SUBSET S /\ C # {}
  OBVIOUS
<1>2. PICK T \in C : \A U \in C : U \subseteq T => U = T
  <2> HIDE DEF C
  <2>1. QED
    BY <1>1, MinimalSet
<1>3. QED
  BY <1>2

(* Of the sets of what is above an element of a finite set one is minimal.  *)
LEMMA SmallestFrom ==
    ASSUME NEW S, IsFiniteSet(S), S # {}
    PROVE  \E x \in S : \A y \in S : {z \in S : z >= y} \subseteq {z \in S : z >= x}
                                    => {z \in S : z >= y} = {z \in S : z >= x}
<1> DEFINE From == [x \in S |-> {z \in S : z >= x}]
<1>1. From \in [S -> SUBSET S]
  OBVIOUS
<1>2. \E x \in S : \A y \in S : From[y] \subseteq From[x] => From[y] = From[x]
  <2> HIDE DEF From
  <2>1. QED
    BY <1>1, MinimalImage
<1>3. QED
  BY <1>2

(* Max and Min of SequencesExt are what their names say, on finite sets.    *)
LEMMA MaxIsGreatest ==
    ASSUME NEW S, IsFiniteSet(S), S # {}, S \subseteq Int
    PROVE  Max(S) \in S /\ \A y \in S : Max(S) >= y
<1>1. PICK x \in S : \A y \in S : {z \in S : z >= y} \subseteq {z \in S : z >= x}
                                   => {z \in S : z >= y} = {z \in S : z >= x}
  BY SmallestFrom, Zenon
<1>2. ASSUME NEW w \in S, w > x PROVE FALSE
  <2>1. \A y \in S : y >= w => y >= x
    BY <1>2
  <2>2. {z \in S : z >= w} = {z \in S : z >= x}
    BY <1>1, <2>1
  <2>3. x >= x
    OBVIOUS
  <2>4. QED
    BY <1>2, <2>2, <2>3
<1>3. \A y \in S : x >= y
  BY <1>2
<1>4. QED
  BY <1>3 DEF Max

(* The same from below.                                                     *)
LEMMA SmallestUpto ==
    ASSUME NEW S, IsFiniteSet(S), S # {}
    PROVE  \E x \in S : \A y \in S : {z \in S : z <= y} \subseteq {z \in S : z <= x}
                                    => {z \in S : z <= y} = {z \in S : z <= x}
<1> DEFINE Upto == [x \in S |-> {z \in S : z <= x}]
<1>1. Upto \in [S -> SUBSET S]
  OBVIOUS
<1>2. \E x \in S : \A y \in S : Upto[y] \subseteq Upto[x] => Upto[y] = Upto[x]
  <2> HIDE DEF Upto
  <2>1. QED
    BY <1>1, MinimalImage
<1>3. QED
  BY <1>2

LEMMA MinIsLeast ==
    ASSUME NEW S, IsFiniteSet(S), S # {}, S \subseteq Int
    PROVE  Min(S) \in S /\ \A y \in S : Min(S) <= y
<1>1. PICK x \in S : \A y \in S : {z \in S : z <= y} \subseteq {z \in S : z <= x}
                                   => {z \in S : z <= y} = {z \in S : z <= x}
  BY SmallestUpto, Zenon
<1>2. ASSUME NEW w \in S, w < x PROVE FALSE
  <2>1. \A y \in S : y <= w => y <= x
    BY <1>2
  <2>2. {z \in S : z <= w} = {z \in S : z <= x}
    BY <1>1, <2>1
  <2>3. x <= x
    OBVIOUS
  <2>4. QED
    BY <1>2, <2>2, <2>3
<1>3. \A y \in S : x <= y
  BY <1>2
<1>4. QED
  BY <1>3 DEF Min

(* The Min of a set whose least element is known.                           *)
LEMMA LeastIs ==
    ASSUME NEW S, NEW x \in S, S \subseteq Int, \A y \in S : x <= y
    PROVE  Min(S) = x
<1>1. Min(S) \in S /\ \A y \in S : Min(S) <= y
  BY DEF Min
<1>2. Min(S) <= x /\ x <= Min(S) /\ x \in Int /\ Min(S) \in Int
  BY <1>1
<1>3. QED
  BY <1>2

(* Min and Cardinality of the small sets of positions the parser looks at.   *)
LEMMA LeastOfOne ==
    ASSUME NEW a \in Int
    PROVE  Cardinality({a}) = 1 /\ Min({a}) = a
<1>1. Cardinality({a}) = 1
  BY FS_Singleton, Zenon
<1>2. Min({a}) = a
  BY LeastIs
<1>3. QED
  BY <1>1, <1>2

(* The two ends of a fenced reply.                                          *)
LEMMA LeastOfTwo ==
    ASSUME NEW a \in Int, NEW b \in Int, a < b
    PROVE  Cardinality({a, b}) = 2 /\ Min({a, b}) = a /\ {a, b} \ {a} = {b}
<1>1. IsFiniteSet({a}) /\ Cardinality({a}) = 1
  BY FS_Singleton, Zenon
<1>2. {a, b} = {a} \union {b} /\ b \notin {a}
  OBVIOUS
<1>3. Cardinality({a} \union {b}) = Cardinality({a}) + 1
  BY <1>1, <1>2, FS_AddElement
<1>4. Cardinality({a, b}) = 2
  BY <1>1, <1>2, <1>3
<1>5. Min({a, b}) = a
  BY LeastIs
<1>6. QED
  BY <1>4, <1>5

(* The length of a sequence is that of its domain.                          *)
LEMMA SameInterval ==
    ASSUME NEW a \in Nat, NEW b \in Nat, 1..a = 1..b
    PROVE  a = b
<1>1. ~(a < b)
  <2>1. a < b => b \in 1..b /\ b \notin 1..a
    OBVIOUS
  <2>2. QED
    BY <2>1
<1>2. ~(b < a)
  <2>1. b < a => a \in 1..a /\ a \notin 1..b
    OBVIOUS
  <2>2. QED
    BY <2>1
<1>3. QED
  BY <1>1, <1>2

(* A sequence is as long as its domain says.                                *)
LEMMA LengthOfDomain ==
    ASSUME NEW S, NEW n \in Nat, NEW s \in [1..n -> S]
    PROVE  s \in Seq(S) /\ Len(s) = n
<1>1. s \in Seq(S)
  BY SeqDef
<1>2. Len(s) \in Nat /\ DOMAIN s = 1..Len(s)
  BY <1>1, LenProperties
<1>3. DOMAIN s = 1..n
  OBVIOUS
<1>4. QED
  BY <1>1, <1>2, <1>3, SameInterval

-----------------------------------------------------------------------------
\* A step of Merged.
Adding(ws, w) == IF Contains(ws, w) THEN ws ELSE Append(ws, w)

\* f is the function that FoldLeft defines Merged with, for the positions in s.
Folds(f, ws, more, s) ==
    f = [t \in SUBSET s |-> IF t = {} THEN ws
                            ELSE Adding(f[t \ {Max(t)}], more[Max(t)])]

NoneTwice(s) == \A i, j \in DOMAIN s : s[i] = s[j] => i = j

(* There is a function as the fold of Merged asks for: a minimal set        *)
(* without one would get it from the set without its greatest element.      *)
LEMMA FoldExists ==
    ASSUME NEW ws, NEW more, NEW D, IsFiniteSet(D), \A d \in D : d \in Int
    PROVE  \E f : Folds(f, ws, more, D)
<1> DEFINE C == {s \in SUBSET D : ~\E f : Folds(f, ws, more, s)}
<1>1. SUFFICES ASSUME C # {} PROVE FALSE
  OBVIOUS
<1>2. PICK T \in C : \A U \in C : U \subseteq T => U = T
  <2>1. C \in SUBSET SUBSET D
    OBVIOUS
  <2> HIDE DEF C
  <2>2. QED
    BY <1>1, <2>1, MinimalSet
<1>3. T \in SUBSET D /\ IsFiniteSet(T) /\ T \subseteq Int
  BY FS_Subset
<1>4. CASE T = {}
  <2> DEFINE f == [t \in SUBSET T |-> ws]
  <2>1. Folds(f, ws, more, T)
    BY <1>4 DEF Folds
  <2>2. QED
    BY <2>1
<1>5. CASE T # {}
  <2> DEFINE x == Max(T)
  <2>1. x \in T /\ \A y \in T : x >= y
    BY <1>3, <1>5, MaxIsGreatest
  <2>2. PICK f : Folds(f, ws, more, T \ {x})
    <3>1. T \ {x} \notin C
      BY <1>2, <2>1
    <3>2. QED
      BY <1>3, <3>1
  <2> DEFINE g == [t \in SUBSET T |-> IF t = {} THEN ws
                                      ELSE IF x \in t THEN Adding(f[t \ {x}], more[x]) ELSE f[t]]
  <2> HIDE DEF x, C
  <2>3. ASSUME NEW t \in SUBSET T, t # {}
        PROVE  g[t] = Adding(g[t \ {Max(t)}], more[Max(t)])
    <3>1. IsFiniteSet(t) /\ t \subseteq Int
      BY <1>3, FS_Subset
    <3>2. Max(t) \in t /\ \A y \in t : Max(t) >= y
      BY <2>3, <3>1, MaxIsGreatest
    <3>3. CASE x \in t
      <4>1. Max(t) = x
        <5>1. Max(t) \in Int /\ x \in Int /\ Max(t) >= x /\ x >= Max(t)
          BY <1>3, <2>1, <3>1, <3>2, <3>3
        <5>2. QED
          BY <5>1
      <4>2. g[t] = Adding(f[t \ {x}], more[x])
        BY <3>3
      <4>3. g[t \ {x}] = f[t \ {x}]
        BY <2>2 DEF Folds
      <4>4. QED
        BY <4>1, <4>2, <4>3
    <3>4. CASE x \notin t
      <4>1. t \in SUBSET (T \ {x}) /\ t \ {Max(t)} \in SUBSET (T \ {x})
        BY <3>4
      <4>2. f[t] = Adding(f[t \ {Max(t)}], more[Max(t)])
        BY <2>2, <2>3, <4>1 DEF Folds
      <4>3. g[t] = f[t]
        BY <2>3, <3>4
      <4>4. g[t \ {Max(t)}] = f[t \ {Max(t)}]
        BY <2>2, <3>4, <4>1 DEF Folds
      <4>5. QED
        BY <4>2, <4>3, <4>4
    <3>5. QED
      BY <3>3, <3>4
  <2>4. g[{}] = ws
    OBVIOUS
  <2>5. Folds(g, ws, more, T)
    <3> DEFINE h == [t \in SUBSET T |-> IF t = {} THEN ws
                            ELSE Adding(g[t \ {Max(t)}], more[Max(t)])]
    <3>1. \A t \in SUBSET T : g[t] = h[t]
      <4> HIDE DEF g
      <4>1. QED BY <2>3, <2>4
    <3>2. g = h
      BY <3>1
    <3> HIDE DEF g
    <3>3. QED
      BY <3>2 DEF Folds
  <2>6. QED
    BY <2>5, <1>2 DEF C
<1>6. QED
  BY <1>4, <1>5

(* Merged is the value of that function.                                    *)
LEMMA MergedFolds ==
    ASSUME NEW ws, NEW more, IsFiniteSet(DOMAIN more), DOMAIN more \subseteq Int
    PROVE  \E f : Folds(f, ws, more, DOMAIN more) /\ Merged(ws, more) = f[DOMAIN more]
<1> DEFINE f == CHOOSE g : Folds(g, ws, more, DOMAIN more)
<1>1. Folds(f, ws, more, DOMAIN more)
  BY FoldExists
<1>2. Merged(ws, more) = f[DOMAIN more]
  BY DEF Merged, FoldLeft, MapThenFoldSet, Folds, Adding
<1>3. QED
  BY <1>1, <1>2

(* Adding a warning adds it, once.                                          *)
LEMMA AddingAdds ==
    ASSUME NEW S, NEW ws \in Seq(S), NEW w \in S, NoneTwice(ws)
    PROVE  /\ Adding(ws, w) \in Seq(S)
           /\ NoneTwice(Adding(ws, w))
           /\ ToSet(Adding(ws, w)) = ToSet(ws) \union {w}
<1>1. CASE Contains(ws, w)
  BY <1>1, LenProperties DEF Adding, Contains, ToSet
<1>2. CASE ~Contains(ws, w)
  <2> DEFINE more == Append(ws, w)
  <2>1. /\ more \in Seq(S)
        /\ Len(more) = Len(ws) + 1
        /\ \A i \in 1..Len(ws) : more[i] = ws[i]
        /\ more[Len(ws) + 1] = w
    BY AppendProperties
  <2>2. Len(ws) \in Nat /\ DOMAIN ws = 1..Len(ws) /\ DOMAIN more = 1..(Len(ws) + 1)
    BY <2>1, LenProperties
  <2>3. \A i \in 1..Len(ws) : ws[i] # w
    BY <1>2 DEF Contains
  <2> HIDE DEF more
  <2>4. NoneTwice(more)
    BY <2>1, <2>2, <2>3 DEF NoneTwice
  <2>5. ToSet(more) = ToSet(ws) \union {w}
    <3>1. \A i \in DOMAIN more : more[i] \in ToSet(ws) \union {w}
      BY <2>1, <2>2 DEF ToSet
    <3>2. \A i \in DOMAIN ws : ws[i] \in ToSet(more)
      BY <2>1, <2>2 DEF ToSet
    <3>3. w \in ToSet(more)
      BY <2>1, <2>2 DEF ToSet
    <3>4. QED
      BY <3>1, <3>2, <3>3 DEF ToSet
  <2>6. Adding(ws, w) = more
    BY <1>2 DEF Adding, more
  <2>7. QED
    BY <2>1, <2>4, <2>5, <2>6
<1>3. QED
  BY <1>1, <1>2

(* What Merged returns: every warning of both lists, each once.             *)
LEMMA MergedMerges ==
    ASSUME NEW S, NEW ws \in Seq(S), NEW more \in Seq(S), NoneTwice(ws)
    PROVE  /\ Merged(ws, more) \in Seq(S)
           /\ NoneTwice(Merged(ws, more))
           /\ ToSet(Merged(ws, more)) = ToSet(ws) \union ToSet(more)
<1> DEFINE D == DOMAIN more
<1>1. IsFiniteSet(D) /\ D \subseteq Int /\ \A i \in D : more[i] \in S
  <2>1. Len(more) \in Nat /\ D = 1..Len(more) /\ more \in [1..Len(more) -> S]
    BY LenProperties
  <2>2. IsFiniteSet(1..Len(more))
    BY <2>1, FS_Interval
  <2> HIDE DEF D
  <2>3. QED
    BY <2>1, <2>2
<1>2. PICK f : Folds(f, ws, more, D) /\ Merged(ws, more) = f[D]
  BY <1>1, MergedFolds
<1> DEFINE Good(s) == /\ f[s] \in Seq(S)
                      /\ NoneTwice(f[s])
                      /\ ToSet(f[s]) = ToSet(ws) \union {more[i] : i \in s}
<1> DEFINE C == {s \in SUBSET D : ~Good(s)}
<1>3. C = {}
  <2>1. SUFFICES ASSUME C # {} PROVE FALSE
    OBVIOUS
  <2>2. PICK T \in C : \A U \in C : U \subseteq T => U = T
    <3>1. C \in SUBSET SUBSET D /\ IsFiniteSet(D)
      BY <1>1
    <3> HIDE DEF C, D
    <3>2. QED
      BY <2>1, <3>1, MinimalSet
  <2>3. T \in SUBSET D /\ IsFiniteSet(T) /\ T \subseteq Int
    BY <1>1, FS_Subset
  <2>4. CASE T = {}
    <3>1. f[T] = ws
      BY <1>2, <2>3, <2>4 DEF Folds
    <3>2. Good(T)
      BY <2>4, <3>1
    <3>3. QED
      BY <3>2
  <2>5. CASE T # {}
    <3> DEFINE x == Max(T)
    <3>1. x \in T
      BY <2>3, <2>5, MaxIsGreatest
    <3>2. f[T] = Adding(f[T \ {x}], more[x])
      BY <1>2, <2>3, <2>5 DEF Folds
    <3> HIDE DEF x
    <3>3. Good(T \ {x})
      BY <2>2, <2>3, <3>1
    <3>4. more[x] \in S
      BY <1>1, <2>3, <3>1
    <3>5. /\ f[T] \in Seq(S)
          /\ NoneTwice(f[T])
          /\ ToSet(f[T]) = ToSet(f[T \ {x}]) \union {more[x]}
      <4> DEFINE before == f[T \ {x}]
      <4> DEFINE w == more[x]
      <4>1. before \in Seq(S) /\ NoneTwice(before) /\ w \in S /\ f[T] = Adding(before, w)
        BY <3>2, <3>3, <3>4
      <4> HIDE DEF before, w
      <4>2. QED
        <5> HIDE DEF Good, C, D
        <5>1. /\ Adding(before, w) \in Seq(S)
              /\ NoneTwice(Adding(before, w))
              /\ ToSet(Adding(before, w)) = ToSet(before) \union {w}
          <6>1. \A v \in Seq(S), u \in S : NoneTwice(v) =>
                   /\ Adding(v, u) \in Seq(S)
                   /\ NoneTwice(Adding(v, u))
                   /\ ToSet(Adding(v, u)) = ToSet(v) \union {u}
            BY AddingAdds
          <6>2. QED
            BY <4>1, <6>1, Zenon
        <5>2. QED
          BY <4>1, <5>1 DEF before, w
    <3>6. {more[i] : i \in T} = {more[i] : i \in T \ {x}} \union {more[x]}
      BY <3>1
    <3>7. Good(T)
      BY <3>3, <3>5, <3>6
    <3>8. QED
      BY <3>7
  <2>6. QED
    BY <2>4, <2>5
<1>4. Good(D)
  BY <1>3
<1>5. QED
  BY <1>2, <1>4 DEF ToSet

(* A list of no and of one warning.                                         *)
LEMMA EmptyList ==
    ASSUME NEW S
    PROVE  <<>> \in Seq(S) /\ Len(<<>>) = 0 /\ DOMAIN <<>> = {} /\ NoneTwice(<<>>) /\ ToSet(<<>>) = {}
<1>1. <<>> \in Seq(S) /\ Len(<<>>) = 0
  BY EmptySeq
<1>2. DOMAIN <<>> = {}
  <2>1. DOMAIN <<>> = 1..0
    BY <1>1, LenProperties
  <2>2. QED
    BY <2>1
<1>3. QED
  BY <1>1, <1>2 DEF NoneTwice, ToSet

(* A list of one entry has that entry and no other.                         *)
LEMMA ListOfOne ==
    ASSUME NEW S, NEW w \in S
    PROVE  <<w>> \in Seq(S) /\ Len(<<w>>) = 1 /\ <<w>>[1] = w /\ ToSet(<<w>>) = {w}
<1>1. <<w>> \in Seq(S) /\ Len(<<w>>) = 1 /\ <<w>>[1] = w
  OBVIOUS
<1>2. DOMAIN <<w>> = {1}
  <2>1. DOMAIN <<w>> = 1..1
    BY <1>1, LenProperties
  <2>2. QED
    BY <2>1
<1>3. QED
  BY <1>1, <1>2 DEF ToSet

(* The list of a deterministic response is empty.                           *)
LEMMA MergedIntoNone ==
    ASSUME NEW S, NEW more \in Seq(S)
    PROVE  /\ Merged(<<>>, more) \in Seq(S)
           /\ NoneTwice(Merged(<<>>, more))
           /\ ToSet(Merged(<<>>, more)) = ToSet(more)
<1> DEFINE none == <<>>
<1>1. none \in Seq(S) /\ NoneTwice(none) /\ ToSet(none) = {}
  BY EmptyList
<1> HIDE DEF none
<1>2. \A ws \in Seq(S) : NoneTwice(ws) =>
        /\ Merged(ws, more) \in Seq(S)
        /\ NoneTwice(Merged(ws, more))
        /\ ToSet(Merged(ws, more)) = ToSet(ws) \union ToSet(more)
  BY MergedMerges
<1>3. QED
  BY <1>1, <1>2 DEF none

(* The fields of a fused response.                                          *)
LEMMA FusedFields ==
    ASSUME NEW u, NEW out
    PROVE  LET det == Deterministic(u)
               body == Fuse(det, out)
           IN  /\ body.metadata = det.metadata
               /\ body.style.summary = Or(out.summary, det.style.summary)
               /\ body.style.visual_tone = Or(out.visual_tone, det.style.visual_tone)
               /\ body.style.typography = Or(out.typography, det.style.typography)
               /\ body.style.composition = Or(out.composition, det.style.composition)
               /\ body.style.palette = Or(det.style.palette, out.palette)
               /\ body.elements = Or(<<>>, out.elements)
               /\ body.warnings = Merged(<<>>, out.warnings)
  BY DEF Fuse, Deterministic

(* The warning of a failed model stands alone.                              *)
LEMMA OneWarning ==
    ASSUME NEW S, NEW w \in S
    PROVE  Merged(<<>>, <<w>>) = <<w>>
<1> DEFINE s == Merged(<<>>, <<w>>)
<1>1. <<w>> \in Seq(S) /\ Len(<<w>>) = 1 /\ <<w>>[1] = w /\ ToSet(<<w>>) = {w}
  BY ListOfOne
<1>2. s \in Seq(S) /\ NoneTwice(s) /\ ToSet(s) = {w}
  <2> DEFINE one == <<w>>
  <2>1. one \in Seq(S) /\ ToSet(one) = {w}
    BY <1>1
  <2> HIDE DEF one
  <2>2. /\ Merged(<<>>, one) \in Seq(S) /\ NoneTwice(Merged(<<>>, one))
        /\ ToSet(Merged(<<>>, one)) = ToSet(one)
    BY <2>1, MergedIntoNone
  <2>3. QED
    BY <2>1, <2>2 DEF one
<1> HIDE DEF s
<1>3. Len(s) \in Nat /\ DOMAIN s = 1..Len(s)
  BY <1>2, LenProperties
<1>4. \A i \in 1..Len(s) : s[i] = w
  BY <1>2, <1>3 DEF ToSet
<1>5. Len(s) # 0
  <2>1. PICK i \in DOMAIN s : s[i] = w
    BY <1>2 DEF ToSet
  <2>2. QED
    BY <1>3, <2>1
<1>6. ~(Len(s) > 1)
  <2>1. SUFFICES ASSUME Len(s) > 1 PROVE FALSE
    OBVIOUS
  <2>2. 1 \in 1..Len(s) /\ 2 \in 1..Len(s)
    BY <1>3, <2>1
  <2>3. 1 \in DOMAIN s /\ 2 \in DOMAIN s /\ s[1] = w /\ s[2] = w
    BY <1>3, <1>4, <2>2
  <2>4. s[1] = s[2] => 1 = 2
    <3>1. \A i, j \in DOMAIN s : s[i] = s[j] => i = j
      BY <1>2 DEF NoneTwice
    <3>2. QED
      BY <2>3, <3>1, Zenon
  <2>5. QED
    BY <2>3, <2>4
<1>7. Len(s) = 1
  BY <1>3, <1>5, <1>6
<1>8. \A i \in 1..Len(s) : s[i] = <<w>>[i]
  <2>1. \A i \in 1..1 : i = 1
    OBVIOUS
  <2>2. QED
    BY <1>1, <1>4, <1>7, <2>1
<1>9. s = <<w>>
  <2> DEFINE one == <<w>>
  <2>1. /\ one \in Seq(S) /\ Len(s) = Len(one)
        /\ \A i \in 1..Len(s) : s[i] = one[i]
    BY <1>1, <1>7, <1>8
  <2> HIDE DEF one
  <2>2. s = one
    BY <1>2, <2>1, SeqEqual
  <2>3. QED
    BY <2>2 DEF one
<1>10. QED
  BY <1>9 DEF s

(* What AnswerIsFused says of a fused response.                       *)
LEMMA FusedIsVisible ==
    ASSUME NEW u, NEW out \in Output
    PROVE  LET det == Deterministic(u)
               body == Fuse(det, out)
               IsIn(words, place) == words = <<>> \/ place = words
           IN  /\ body.metadata = det.metadata
               /\ det.style.palette # <<>> => body.style.palette = det.style.palette
               /\ \A i, j \in DOMAIN body.warnings : body.warnings[i] = body.warnings[j] => i = j
               /\ det.style.palette = <<>> => body.style.palette = out.palette
               /\ IsIn(out.summary, body.style.summary)
               /\ IsIn(out.visual_tone, body.style.visual_tone)
               /\ IsIn(out.typography, body.style.typography)
               /\ IsIn(out.composition, body.style.composition)
               /\ IsIn(out.elements, body.elements)
               /\ ToSet(out.warnings) = ToSet(body.warnings)
               /\ Words(body.style, body.elements, body.warnings) \subseteq
                     Words(det.style, det.elements, det.warnings)
                     \union Words(out, out.elements, out.warnings)
<1> DEFINE det == Deterministic(u)
<1> DEFINE body == Fuse(det, out)
<1>1. /\ body.metadata = det.metadata
      /\ body.style.summary = Or(out.summary, det.style.summary)
      /\ body.style.visual_tone = Or(out.visual_tone, det.style.visual_tone)
      /\ body.style.typography = Or(out.typography, det.style.typography)
      /\ body.style.composition = Or(out.composition, det.style.composition)
      /\ body.style.palette = Or(det.style.palette, out.palette)
      /\ body.elements = Or(<<>>, out.elements)
      /\ body.warnings = Merged(<<>>, out.warnings)
  BY FusedFields
<1> DEFINE ws == Merged(<<>>, out.warnings)
<1>4. NoneTwice(ws) /\ ToSet(ws) = ToSet(out.warnings)
  <2> DEFINE more == out.warnings
  <2>1. more \in Seq(STRING)
    BY DEF Output
  <2> HIDE DEF more
  <2>2. NoneTwice(Merged(<<>>, more)) /\ ToSet(Merged(<<>>, more)) = ToSet(more)
    BY <2>1, MergedIntoNone
  <2>3. QED
    BY <2>2 DEF more
<1> HIDE DEF det, body, ws
<1>5. body.warnings = ws
  BY <1>1 DEF ws
<1>6. \A i, j \in DOMAIN body.warnings : body.warnings[i] = body.warnings[j] => i = j
  BY <1>4, <1>5 DEF NoneTwice
<1>7. ToSet(out.warnings) = ToSet(body.warnings)
  BY <1>4, <1>5
<1>8. Words(body.style, body.elements, body.warnings) \subseteq
         Words(det.style, det.elements, det.warnings) \union Words(out, out.elements, out.warnings)
  <2> DEFINE given == Words(out, out.elements, out.warnings)
  <2> DEFINE found == Words(det.style, det.elements, det.warnings)
  <2>1. /\ ToSet(body.style.summary) \subseteq ToSet(out.summary) \union ToSet(det.style.summary)
        /\ ToSet(body.style.visual_tone) \subseteq
              ToSet(out.visual_tone) \union ToSet(det.style.visual_tone)
        /\ ToSet(body.style.typography) \subseteq
              ToSet(out.typography) \union ToSet(det.style.typography)
        /\ ToSet(body.style.composition) \subseteq
              ToSet(out.composition) \union ToSet(det.style.composition)
    BY <1>1 DEF Or
  <2>2. ToSet(body.elements) \subseteq ToSet(out.elements)
    BY <1>1, EmptyList DEF Or
  <2>3. \A i \in {"summary", "visual_tone", "typography", "composition"} :
           /\ ToSet(out[i]) \subseteq given
           /\ ToSet(det.style[i]) \subseteq found
    BY DEF Words
  <2>4. ToSet(out.elements) \subseteq given /\ ToSet(out.warnings) \subseteq given
    BY DEF Words
  <2> HIDE DEF given, found
  <2>5. \A w \in Words(body.style, body.elements, body.warnings) :
           \/ w \in ToSet(body.style.summary) \/ w \in ToSet(body.style.visual_tone)
           \/ w \in ToSet(body.style.typography) \/ w \in ToSet(body.style.composition)
           \/ w \in ToSet(body.elements) \/ w \in ToSet(body.warnings)
    BY DEF Words
  <2>6. /\ ToSet(body.style.summary) \subseteq given \union found
        /\ ToSet(body.style.visual_tone) \subseteq given \union found
        /\ ToSet(body.style.typography) \subseteq given \union found
        /\ ToSet(body.style.composition) \subseteq given \union found
    BY <2>1, <2>3
  <2>7. ToSet(body.elements) \subseteq given /\ ToSet(body.warnings) \subseteq given
    BY <1>7, <2>2, <2>4
  <2>8. QED
    BY <2>5, <2>6, <2>7 DEF given, found
<1>9. QED
  BY <1>1, <1>6, <1>7, <1>8 DEF Or, body, det

-----------------------------------------------------------------------------
\* The colours that can be seen, and those of them that rank before c.
Colours(u) == {u.pixels[i].rgb : i \in Visible(u)}
Before(u, c) == {d \in Colours(u) : RanksBefore(u, d, c)}

(* A picture has finitely many colours.                                     *)
LEMMA ColoursAreFinite ==
    ASSUME NEW u \in Upload
    PROVE  /\ IsFiniteSet(Colours(u)) /\ Cardinality(Colours(u)) \in Nat
           /\ Colours(u) \subseteq Nat
           /\ \A c \in Colours(u) : Count(u, c) \in Nat
<1> DEFINE V == Visible(u)
<1>1. Len(u.pixels) \in Nat /\ u.pixels \in [1..Len(u.pixels) -> Pixel]
  <2>1. u.pixels \in Seq(Pixel)
    BY DEF Upload
  <2>2. QED
    BY <2>1, LenProperties
<1>2. IsFiniteSet(V) /\ V \subseteq 1..Len(u.pixels)
  <2>1. IsFiniteSet(1..Len(u.pixels))
    BY <1>1, FS_Interval
  <2>2. V \subseteq 1..Len(u.pixels)
    BY <1>1 DEF Visible
  <2>3. QED
    BY <2>1, <2>2, FS_Subset
<1>3. \A i \in V : u.pixels[i].rgb \in Nat
  BY <1>1, <1>2 DEF Pixel
<1> HIDE DEF V
<1> DEFINE f == [i \in V |-> u.pixels[i].rgb]
<1>4. Colours(u) = {f[i] : i \in V}
  BY DEF Colours, V
<1>5. f \in Surjection(V, Colours(u))
  BY <1>4 DEF Surjection
<1> HIDE DEF f
<1>6. IsFiniteSet(Colours(u))
  BY <1>2, <1>5, FS_Surjection
<1>7. Cardinality(Colours(u)) \in Nat
  BY <1>6, FS_CardinalityType
<1>8. ASSUME NEW c \in Colours(u) PROVE Count(u, c) \in Nat
  <2> DEFINE W == {i \in Visible(u) : u.pixels[i].rgb = c}
  <2>1. W \in SUBSET V
    BY DEF V
  <2> HIDE DEF W
  <2>2. IsFiniteSet(W)
    BY <1>2, <2>1, FS_Subset
  <2>3. Cardinality(W) \in Nat
    BY <2>2, FS_CardinalityType
  <2>4. QED
    BY <2>3 DEF Count, W
<1>9. Colours(u) \subseteq Nat
  BY <1>3 DEF Colours, V
<1>10. QED
  BY <1>6, <1>7, <1>8, <1>9

(* The sort key is a total order: of two colours, the one that ranks before *)
(* the other has fewer colours before it.                                   *)
LEMMA RanksAreInOrder ==
    ASSUME NEW u \in Upload
    PROVE  /\ \A c \in Colours(u) : Cardinality(Before(u, c)) \in 0..(Cardinality(Colours(u)) - 1)
           /\ \A c, d \in Colours(u) :
                 RanksBefore(u, c, d) => Cardinality(Before(u, c)) < Cardinality(Before(u, d))
           /\ \A c, d \in Colours(u) : c = d \/ RanksBefore(u, c, d) \/ RanksBefore(u, d, c)
<1> DEFINE K == Colours(u)
<1>1. /\ IsFiniteSet(K) /\ Cardinality(K) \in Nat
      /\ K \subseteq Nat
      /\ \A c \in K : Count(u, c) \in Nat
  BY ColoursAreFinite
<1> HIDE DEF K
<1>2. \A c, d \in K : c = d \/ RanksBefore(u, c, d) \/ RanksBefore(u, d, c)
  BY <1>1 DEF RanksBefore
<1>3. \A c \in K : ~RanksBefore(u, c, c)
  BY <1>1 DEF RanksBefore
<1>4. \A b, c, d \in K : RanksBefore(u, b, c) /\ RanksBefore(u, c, d) => RanksBefore(u, b, d)
  BY <1>1 DEF RanksBefore
<1>5. \A c \in K : Before(u, c) = {d \in K : RanksBefore(u, d, c)}
  BY DEF Before, K
<1>6. \A c \in K : IsFiniteSet(Before(u, c)) /\ Cardinality(Before(u, c)) \in Nat
  <2> SUFFICES ASSUME NEW c \in K
               PROVE  IsFiniteSet(Before(u, c)) /\ Cardinality(Before(u, c)) \in Nat
    OBVIOUS
  <2>1. Before(u, c) \in SUBSET K
    BY <1>5
  <2>2. IsFiniteSet(Before(u, c))
    BY <1>1, <2>1, FS_Subset, Zenon
  <2>3. QED
    BY <2>2, FS_CardinalityType
<1>7. ASSUME NEW c \in K
      PROVE  Cardinality(Before(u, c)) \in 0..(Cardinality(K) - 1)
  <2>1. Before(u, c) \in SUBSET (K \ {c})
    BY <1>3, <1>5
  <2>2. IsFiniteSet(K \ {c}) /\ Cardinality(K \ {c}) = Cardinality(K) - 1
    BY <1>1, FS_RemoveElement
  <2>3. Cardinality(Before(u, c)) <= Cardinality(K \ {c})
    BY <2>1, <2>2, FS_Subset
  <2>4. QED
    BY <1>1, <1>6, <2>2, <2>3
<1>8. ASSUME NEW c \in K, NEW d \in K, RanksBefore(u, c, d)
      PROVE  Cardinality(Before(u, c)) < Cardinality(Before(u, d))
  <2> DEFINE B == Before(u, c)
  <2>1. B \in SUBSET Before(u, d) /\ c \in Before(u, d) /\ c \notin B
    BY <1>3, <1>4, <1>5, <1>8
  <2>2. IsFiniteSet(Before(u, d)) /\ Cardinality(Before(u, d)) \in Nat /\ Cardinality(B) \in Nat
    BY <1>6
  <2> HIDE DEF B
  <2>3. Cardinality(B) <= Cardinality(Before(u, d))
        /\ (Cardinality(Before(u, d)) = Cardinality(B) => Before(u, d) = B)
    BY <2>1, <2>2, FS_Subset
  <2>4. Cardinality(Before(u, d)) # Cardinality(B)
    BY <2>1, <2>3
  <2>5. QED
    BY <2>2, <2>3, <2>4 DEF B
<1>9. QED
  BY <1>2, <1>7, <1>8 DEF K

(* The ranked colours are all the colours, each once, in their order: the   *)
(* places are an injection into 1..n, hence onto it.                        *)
LEMMA RankedIsOrdered ==
    ASSUME NEW u \in Upload
    PROVE  LET K == Colours(u)
               n == Cardinality(K)
           IN  /\ Ranked(u) \in Bijection(1..n, K)
               /\ Len(Ranked(u)) = n
               /\ \A k \in 1..n : Cardinality(Before(u, Ranked(u)[k])) = k - 1
<1> DEFINE K == Colours(u)
<1> DEFINE n == Cardinality(K)
<1> DEFINE place == [c \in K |-> Cardinality(Before(u, c)) + 1]
<1>1. IsFiniteSet(K) /\ n \in Nat
  BY ColoursAreFinite
<1>2. \A c \in K : Cardinality(Before(u, c)) \in 0..(n - 1)
  BY RanksAreInOrder
<1>3. /\ \A c, d \in K : RanksBefore(u, c, d) =>
                            Cardinality(Before(u, c)) < Cardinality(Before(u, d))
      /\ \A c, d \in K : c = d \/ RanksBefore(u, c, d) \/ RanksBefore(u, d, c)
  BY RanksAreInOrder
<1>4. Ranked(u) = [k \in 1..n |-> CHOOSE c \in K : Cardinality(Before(u, c)) = k - 1]
  BY DEF Ranked, Before, Colours
<1> HIDE DEF K, n
<1>5. place \in [K -> 1..n]
  <2>1. \A c \in K : Cardinality(Before(u, c)) + 1 \in 1..n
    BY <1>1, <1>2
  <2>2. QED
    BY <2>1
<1>6. \A c, d \in K : place[c] = place[d] => c = d
  <2> SUFFICES ASSUME NEW c \in K, NEW d \in K, place[c] = place[d], c # d
               PROVE  FALSE
    OBVIOUS
  <2>1. /\ Cardinality(Before(u, c)) \in Int /\ Cardinality(Before(u, d)) \in Int
        /\ Cardinality(Before(u, c)) + 1 = Cardinality(Before(u, d)) + 1
    BY <1>1, <1>2
  <2>2. \/ Cardinality(Before(u, c)) < Cardinality(Before(u, d))
        \/ Cardinality(Before(u, d)) < Cardinality(Before(u, c))
    BY <1>3
  <2>3. QED
    BY <2>1, <2>2
<1>7. place \in Injection(K, 1..n)
  BY <1>5, <1>6, Fun_IsInj
<1>8. IsFiniteSet(1..n) /\ Cardinality(1..n) = n
  BY <1>1, FS_Interval
<1>9. place \in Surjection(K, 1..n)
  BY <1>7, <1>8, FS_Injection DEF n
<1>10. \A k \in 1..n : \E c \in K : place[c] = k
  BY <1>9 DEF Surjection
<1>11. ASSUME NEW k \in 1..n
       PROVE  Ranked(u)[k] \in K /\ Cardinality(Before(u, Ranked(u)[k])) = k - 1
  <2>1. PICK c \in K : place[c] = k
    BY <1>10
  <2>2. Cardinality(Before(u, c)) = k - 1
    BY <1>1, <1>2, <2>1
  <2>3. Ranked(u)[k] = CHOOSE d \in K : Cardinality(Before(u, d)) = k - 1
    BY <1>4
  <2>4. QED
    BY <2>2, <2>3
<1>12. Ranked(u) \in [1..n -> K]
  <2>1. Ranked(u) = [k \in 1..n |-> Ranked(u)[k]]
    BY <1>4
  <2>2. QED
    BY <1>11, <2>1
<1>13. \A k, l \in 1..n : Ranked(u)[k] = Ranked(u)[l] => k = l
  <2> SUFFICES ASSUME NEW k \in 1..n, NEW l \in 1..n, Ranked(u)[k] = Ranked(u)[l]
               PROVE  k = l
    OBVIOUS
  <2>1. k - 1 = l - 1
    BY <1>11
  <2>2. QED
    BY <1>1, <2>1
<1>14. \A c \in K : \E k \in 1..n : Ranked(u)[k] = c
  <2> SUFFICES ASSUME NEW c \in K PROVE \E k \in 1..n : Ranked(u)[k] = c
    OBVIOUS
  <2> DEFINE k == place[c]
  <2>1. k \in 1..n /\ Cardinality(Before(u, c)) = k - 1
    BY <1>1, <1>2, <1>5
  <2>2. Ranked(u)[k] \in K /\ Cardinality(Before(u, Ranked(u)[k])) = k - 1
    BY <1>11, <2>1
  <2>3. place[Ranked(u)[k]] = place[c]
    BY <1>1, <2>1, <2>2
  <2> HIDE DEF k, place
  <2>4. Ranked(u)[k] = c
    BY <1>6, <2>2, <2>3
  <2>5. QED
    BY <2>1, <2>4
<1>15. Ranked(u) \in Injection(1..n, K)
  BY <1>12, <1>13, Fun_IsInj
<1>16. Ranked(u) \in Surjection(1..n, K)
  BY <1>12, <1>14, Fun_IsSurj
<1>17. Len(Ranked(u)) = n
  BY <1>1, <1>12, LengthOfDomain
<1>18. QED
  BY <1>11, <1>15, <1>16, <1>17 DEF Bijection, K, n

(* The palette of any upload lists its first colours.                       *)
LEMMA PaletteTakesTheFirst ==
    ASSUME NEW u \in Upload
    PROVE  IsTop(Palette(u), u)
<1> DEFINE K == Colours(u)
<1> DEFINE n == Cardinality(K)
<1> DEFINE r == Ranked(u)
<1> DEFINE m == Min({PaletteSize, n})
<1>1. IsFiniteSet(K) /\ n \in Nat /\ \A c \in K : Count(u, c) \in Nat
  BY ColoursAreFinite
<1>2. /\ r \in Bijection(1..n, K)
      /\ Len(r) = n
      /\ \A k \in 1..n : Cardinality(Before(u, r[k])) = k - 1
  BY RankedIsOrdered
<1>3. r \in [1..n -> K] /\ (\A k, l \in 1..n : r[k] = r[l] => k = l)
                        /\ (\A c \in K : \E k \in 1..n : r[k] = c)
  <2> HIDE DEF r, n, K
  <2>1. QED
    BY <1>2 DEF Bijection, Injection, Surjection, IsInjective
<1>4. m \in Nat /\ m <= n
  <2> HIDE DEF n
  <2>1. IsFiniteSet({PaletteSize, n})
    <3>1. IsFiniteSet({PaletteSize} \union {n})
      BY FS_Singleton, FS_AddElement, Zenon
    <3>2. {PaletteSize, n} = {PaletteSize} \union {n}
      OBVIOUS
    <3>3. QED
      BY <3>1, <3>2
  <2>2. {PaletteSize, n} \subseteq Int
    BY <1>1, LimitsAssumption
  <2>3. m \in {PaletteSize, n} /\ \A y \in {PaletteSize, n} : m <= y
    BY <2>1, <2>2, MinIsLeast
  <2> HIDE DEF m
  <2>4. QED
    BY <1>1, <2>3, LimitsAssumption
<1> DEFINE palette == Palette(u)
<1>5. palette = [k \in 1..m |->
                    [hex |-> r[k], count |-> Count(u, r[k]), total |-> Cardinality(Visible(u)),
                     role |-> IF k = 1 THEN "dominant" ELSE "accent"]]
  BY <1>2 DEF Palette
<1> HIDE DEF palette, m, n, r, K
<1> DEFINE shown == {palette[k].hex : k \in DOMAIN palette}
<1>6. DOMAIN palette = 1..m /\ 1..m \subseteq 1..n
  BY <1>1, <1>4, <1>5
<1>7. \A k \in 1..m : /\ palette[k].hex = r[k]
                      /\ palette[k].count = Count(u, r[k])
                      /\ palette[k].role = "dominant" <=> k = 1
  BY <1>5
<1>8. shown = {r[k] : k \in 1..m}
  BY <1>6, <1>7
<1>9. Len(palette) = m
  <2>1. palette \in [1..m -> {palette[k] : k \in 1..m}]
    BY <1>5
  <2>2. QED
    BY <1>4, <2>1, LengthOfDomain
<1>10. Cardinality(shown) = m
  <2> DEFINE g == [k \in 1..m |-> r[k]]
  <2>1. g \in [1..m -> shown]
    BY <1>8
  <2>2. \A k, l \in 1..m : g[k] = g[l] => k = l
    BY <1>3, <1>6
  <2>3. \A c \in shown : \E k \in 1..m : g[k] = c
    BY <1>8
  <2> HIDE DEF g, shown
  <2>4. g \in Bijection(1..m, shown)
    BY <2>1, <2>2, <2>3, Fun_IsInj, Fun_IsSurj DEF Bijection
  <2>5. ExistsBijection(1..m, shown)
    BY <2>4 DEF ExistsBijection
  <2>6. QED
    BY <1>4, <2>5, FS_CountingElements
<1>11. ASSUME NEW k \in 1..n, NEW l \in 1..n, k < l
       PROVE  \/ Count(u, r[l]) < Count(u, r[k])
              \/ Count(u, r[l]) = Count(u, r[k]) /\ r[k] < r[l]
  <2>1. r[k] \in K /\ r[l] \in K
    BY <1>3
  <2>2. Cardinality(Before(u, r[k])) = k - 1 /\ Cardinality(Before(u, r[l])) = l - 1
    BY <1>2
  <2>3. ~RanksBefore(u, r[l], r[k])
    <3>1. RanksBefore(u, r[l], r[k]) =>
             Cardinality(Before(u, r[l])) < Cardinality(Before(u, r[k]))
      BY <2>1, RanksAreInOrder DEF K
    <3>2. ~(l - 1 < k - 1)
      BY <1>1, <1>11
    <3>3. QED
      BY <2>2, <3>1, <3>2
  <2>4. r[k] # r[l]
    BY <1>1, <1>3, <1>11
  <2>5. RanksBefore(u, r[k], r[l])
    BY <2>1, <2>3, <2>4, RanksAreInOrder DEF K
  <2>6. Count(u, r[k]) \in Nat /\ Count(u, r[l]) \in Nat
    BY <1>1, <2>1
  <2>7. QED
    BY <2>5, <2>6 DEF RanksBefore
<1> DEFINE later(k) == {palette[l].hex : l \in {l \in DOMAIN palette : l > k}}
<1>12. ASSUME NEW k \in 1..m, NEW c \in (K \ shown) \union later(k)
       PROVE  \/ Count(u, c) < palette[k].count
              \/ Count(u, c) = palette[k].count /\ palette[k].hex < c
  <2>1. \E l \in 1..n : r[l] = c /\ k < l
    <3>1. CASE c \in later(k)
      <4>1. PICK l \in DOMAIN palette : l > k /\ palette[l].hex = c
        BY <3>1
      <4>2. QED
        BY <1>1, <1>4, <1>6, <1>7, <4>1
    <3>2. CASE c \in K \ shown
      <4>1. PICK l \in 1..n : r[l] = c
        BY <1>3, <3>2
      <4>2. l \notin 1..m
        BY <1>8, <3>2, <4>1
      <4>3. k < l
        BY <1>1, <1>4, <4>2
      <4>4. QED
        BY <4>1, <4>3
    <3>3. QED
      BY <1>12, <3>1, <3>2
  <2>2. PICK l \in 1..n : r[l] = c /\ k < l
    BY <2>1
  <2>3. k \in 1..n
    BY <1>6
  <2>4. QED
    BY <1>7, <1>11, <2>2, <2>3
<1>13. LET colours == {u.pixels[i].rgb : i \in Visible(u)}
       IN  /\ colours = K
           /\ Len(palette) = Min({PaletteSize, Cardinality(colours)})
  BY <1>9 DEF K, m, n, Colours
<1>14. /\ Cardinality(shown) = Len(palette)
       /\ \A k \in DOMAIN palette :
             /\ \A c \in (K \ shown) \union later(k) :
                   \/ Count(u, c) < palette[k].count
                   \/ Count(u, c) = palette[k].count /\ palette[k].hex < c
             /\ palette[k].role = "dominant" <=> k = 1
  BY <1>6, <1>7, <1>9, <1>10, <1>12
<1>15. IsTop(palette, u)
  BY <1>13, <1>14 DEF IsTop
<1>16. QED
  BY <1>15 DEF palette

-----------------------------------------------------------------------------
(* A part of a text.                                                        *)
LEMMA Slice ==
    ASSUME NEW text \in Seq(Pieces), NEW i \in Nat, NEW j \in Nat, 1 <= i, j <= Len(text)
    PROVE  /\ SubSeq(text, i, j) \in Seq(Pieces)
           /\ Len(SubSeq(text, i, j)) = IF i <= j THEN j - i + 1 ELSE 0
           /\ \A k \in 1..(j - i + 1) : SubSeq(text, i, j)[k] = text[i + k - 1]
<1>1. Len(text) \in Nat /\ text \in [1..Len(text) -> Pieces]
  BY LenProperties
<1>2. \A k \in i..j : text[k] \in Pieces
  BY <1>1
<1>3. QED
  BY <1>2, SubSeqProperties

(* No object is empty.                                                      *)
LEMMA ObjectsAreNotEmpty ==
    ASSUME NEW text \in Seq(Pieces), IsObject(text)
    PROVE  Len(text) > 0
  BY DEF IsObject

(* Fences and braces are among the finitely many positions of the text.     *)
LEMMA PositionsAreFinite ==
    ASSUME NEW text \in Seq(Pieces)
    PROVE  /\ DOMAIN text = 1..Len(text) /\ Len(text) \in Nat
           /\ IsFiniteSet(Fences(text)) /\ Fences(text) \subseteq 1..Len(text)
           /\ IsFiniteSet(Braces(text)) /\ Braces(text) \subseteq 1..Len(text)
<1>1. DOMAIN text = 1..Len(text) /\ Len(text) \in Nat
  BY LenProperties
<1>2. IsFiniteSet(1..Len(text))
  BY <1>1, FS_Interval
<1>3. Fences(text) \subseteq 1..Len(text) /\ Braces(text) \subseteq 1..Len(text)
  BY <1>1 DEF Fences, Braces
<1>4. QED
  BY <1>1, <1>2, <1>3, FS_Subset

(* Of two fences or more, the code looks between the first two.             *)
LEMMA FirstTwoFences ==
    ASSUME NEW text \in Seq(Pieces), Cardinality(Fences(text)) > 1
    PROVE  \E first, second \in Fences(text) :
              /\ first < second
              /\ \A i \in Fences(text) : i = first \/ i >= second
              /\ Fenced(text) = SubSeq(text, first + 1, second - 1)
<1> DEFINE F == Fences(text)
<1>1. IsFiniteSet(F) /\ F \subseteq Int /\ Cardinality(F) > 1
  BY PositionsAreFinite
<1>2. Cardinality(F) # 0 /\ Cardinality(F) # 1
  BY <1>1
<1>3. F # {} /\ \A x : F # {x}
  BY <1>2, FS_EmptySet, FS_Singleton, Zenon
<1> DEFINE first == Min(F)
<1> DEFINE second == Min(F \ {first})
<1>4. first \in F /\ \A i \in F : first <= i
  BY <1>1, <1>3, MinIsLeast
<1>5. IsFiniteSet(F \ {first}) /\ F \ {first} # {} /\ F \ {first} \subseteq Int
  <2>1. IsFiniteSet(F \ {first})
    BY <1>1, FS_RemoveElement, Zenon
  <2> HIDE DEF F, first
  <2>2. F # {first}
    BY <1>3, Zenon
  <2>3. QED
    BY <1>1, <1>4, <2>1, <2>2
<1>6. second \in F \ {first} /\ \A i \in F \ {first} : second <= i
  BY <1>5, MinIsLeast
<1>7. Fenced(text) = SubSeq(text, first + 1, second - 1)
  BY DEF Fenced
<1> HIDE DEF first, second
<1>8. first < second /\ \A i \in F : i = first \/ i >= second
  BY <1>1, <1>4, <1>6
<1>9. QED
  BY <1>4, <1>6, <1>7, <1>8

(* The first brace is a brace.                                              *)
LEMMA FirstBrace ==
    ASSUME NEW text \in Seq(Pieces), Braces(text) # {}
    PROVE  Min(Braces(text)) \in Braces(text) /\ \A i \in Braces(text) : Min(Braces(text)) <= i
<1>1. IsFiniteSet(Braces(text)) /\ Braces(text) \subseteq Int
  BY PositionsAreFinite
<1>2. QED
  BY <1>1, MinIsLeast

(* What is accepted lies in the text, and begins behind a fence or at the   *)
(* first brace.                                                             *)
LEMMA AcceptedIsInside ==
    ASSUME NEW text \in Seq(Pieces), Accepted(text)
    PROVE  \E i, j \in DOMAIN text :
              /\ i <= j /\ IsObject(SubSeq(text, i, j)) /\ SubSeq(text, i, j) # <<"misfit">>
              /\ \/ /\ i > 1 /\ text[i - 1] = "fence"
                 \/ i = Min(Braces(text)) /\ i \in Braces(text)
<1>1. PICK payload \in ExtractJsonObject(text) : IsObject(payload) /\ payload # <<"misfit">>
  BY DEF Accepted
<1>2. DOMAIN text = 1..Len(text) /\ Len(text) \in Nat
  BY PositionsAreFinite
<1>3. CASE Cardinality(Fences(text)) > 1
  <2>1. PICK first, second \in Fences(text) :
              first < second /\ Fenced(text) = SubSeq(text, first + 1, second - 1)
    BY <1>3, FirstTwoFences
  <2>2. payload = SubSeq(text, first + 1, second - 1)
    BY <1>1, <1>3, <2>1 DEF ExtractJsonObject
  <2>3. first \in 1..Len(text) /\ second \in 1..Len(text) /\ text[first] = "fence"
    BY <1>2 DEF Fences
  <2>4. payload \in Seq(Pieces) /\ Len(payload) = IF first + 1 <= second - 1
                                                 THEN (second - 1) - (first + 1) + 1 ELSE 0
    BY <1>2, <2>1, <2>2, <2>3, Slice
  <2>5. Len(payload) > 0
    BY <1>1, <2>4, ObjectsAreNotEmpty
  <2>6. first + 1 <= second - 1
    BY <2>4, <2>5
  <2>7. first + 1 \in DOMAIN text /\ second - 1 \in DOMAIN text
    BY <1>2, <2>3, <2>6
  <2>8. first + 1 > 1 /\ (first + 1) - 1 = first
    BY <1>2, <2>3
  <2>9. QED
    BY <1>1, <2>2, <2>3, <2>6, <2>7, <2>8
<1>4. CASE ~(Cardinality(Fences(text)) > 1)
  <2>1. Braces(text) # {} /\ payload \in RawDecoded(text)
    BY <1>1, <1>4 DEF ExtractJsonObject
  <2> DEFINE b == Min(Braces(text))
  <2>2. b \in Braces(text)
    BY <2>1, FirstBrace
  <2>3. PICK end \in DOMAIN text : payload = SubSeq(text, b, end)
    BY <2>1 DEF RawDecoded
  <2>4. b \in DOMAIN text
    BY <2>2 DEF Braces
  <2> HIDE DEF b
  <2>5. payload \in Seq(Pieces) /\ Len(payload) = IF b <= end THEN end - b + 1 ELSE 0
    BY <1>2, <2>3, <2>4, Slice
  <2>6. Len(payload) > 0
    BY <1>1, <2>5, ObjectsAreNotEmpty
  <2>7. b <= end
    BY <1>2, <2>4, <2>5, <2>6
  <2>8. QED
    BY <1>1, <2>2, <2>3, <2>4, <2>7 DEF b
<1>5. QED
  BY <1>3, <1>4

(* The prompt in front of the reply.                                        *)
LEMMA PromptAndReply ==
    ASSUME NEW text \in Seq(Pieces)
    PROVE  LET t == Prompt \o text
           IN  /\ t \in Seq(Pieces)
               /\ Len(Prompt) = 3
               /\ Len(t) = 3 + Len(text)
               /\ t[1] = "prose" /\ t[2] = "misfit" /\ t[3] = "prose"
               /\ \A i \in 1..Len(text) : t[3 + i] = text[i]
<1>1. Prompt \in Seq(Pieces) /\ Len(Prompt) = 3
  BY DEF Prompt, Pieces
<1>2. Prompt[1] = "prose" /\ Prompt[2] = "misfit" /\ Prompt[3] = "prose"
  BY DEF Prompt
<1>3. Len(text) \in Nat
  BY LenProperties
<1> HIDE DEF Prompt
<1>4. /\ Prompt \o text \in Seq(Pieces)
      /\ Len(Prompt \o text) = 3 + Len(text)
      /\ \A i \in 1..3 + Len(text) : (Prompt \o text)[i] =
                     IF i <= 3 THEN Prompt[i] ELSE text[i - 3]
  <2>1. /\ Prompt \o text \in Seq(Pieces)
        /\ Len(Prompt \o text) = Len(Prompt) + Len(text)
        /\ \A i \in 1..Len(Prompt) + Len(text) : (Prompt \o text)[i] =
                     IF i <= Len(Prompt) THEN Prompt[i] ELSE text[i - Len(Prompt)]
    BY <1>1, ConcatProperties
  <2>2. QED
    BY <1>1, <2>1
<1>5. QED
  BY <1>1, <1>2, <1>3, <1>4

(* A known prompt is cut off exactly.                                       *)
LEMMA KnownIsTrimmed ==
    ASSUME NEW text \in Seq(Pieces)
    PROVE  Read(text, TRUE) = text
<1> DEFINE t == Prompt \o text
<1>1. /\ t \in Seq(Pieces)
      /\ Len(Prompt) = 3
      /\ Len(t) = 3 + Len(text)
      /\ \A i \in 1..Len(text) : t[3 + i] = text[i]
      /\ Len(text) \in Nat
  BY PromptAndReply, LenProperties
<1>2. Read(text, TRUE) = SubSeq(t, 4, Len(t))
  BY <1>1 DEF Read, TrimPromptTokens
<1> HIDE DEF t
<1> DEFINE rest == SubSeq(t, 4, Len(t))
<1>3. CASE Len(text) = 0
  <2>1. Len(rest) = 0 /\ rest \in Seq(Pieces)
    BY <1>1, <1>3, SubSeqProperties
  <2>2. QED
    BY <1>2, <1>3, <2>1, EmptySeq
<1>4. CASE Len(text) # 0
  <2>1. /\ rest \in Seq(Pieces)
        /\ Len(rest) = Len(text)
        /\ \A k \in 1..Len(text) : rest[k] = t[4 + k - 1]
    BY <1>1, <1>4, Slice
  <2> HIDE DEF rest
  <2>2. \A k \in 1..Len(text) : rest[k] = text[k]
    <3>1. \A k \in 1..Len(text) : 4 + k - 1 = 3 + k
      BY <1>1
    <3>2. QED
      BY <1>1, <2>1, <3>1
  <2>3. rest = text
    BY <2>1, <2>2, SeqEqual
  <2>4. QED
    BY <1>2, <2>3 DEF rest
<1>5. QED
  BY <1>3, <1>4

(* What is accepted of a reply was written by the model, even when the      *)
(* prompt is still in front of it: the schema in the prompt is the first    *)
(* brace then, and it does not fit.                                         *)
LEMMA WhatIsReadWasWritten ==
    ASSUME NEW text \in Seq(Pieces), NEW known \in BOOLEAN, Accepted(Read(text, known))
    PROVE  \E i, j \in DOMAIN text :
              i <= j /\ IsObject(SubSeq(text, i, j)) /\ SubSeq(text, i, j) # <<"misfit">>
<1>1. CASE known
  BY <1>1, KnownIsTrimmed, AcceptedIsInside
<1>2. CASE ~known
  <2> DEFINE t == Prompt \o text
  <2>1. /\ t \in Seq(Pieces)
        /\ Len(t) = 3 + Len(text) /\ Len(text) \in Nat
        /\ t[1] = "prose" /\ t[2] = "misfit" /\ t[3] = "prose"
        /\ \A i \in 1..Len(text) : t[3 + i] = text[i]
    BY PromptAndReply, LenProperties
  <2>2. Accepted(t)
    BY <1>2 DEF Read, TrimPromptTokens
  <2> HIDE DEF t
  <2>3. PICK i \in DOMAIN t, j \in DOMAIN t :
              /\ i <= j /\ IsObject(SubSeq(t, i, j)) /\ SubSeq(t, i, j) # <<"misfit">>
              /\ \/ /\ i > 1 /\ t[i - 1] = "fence"
                 \/ i = Min(Braces(t)) /\ i \in Braces(t)
    BY <2>1, <2>2, AcceptedIsInside
  <2>4. DOMAIN t = 1..(3 + Len(text)) /\ DOMAIN text = 1..Len(text)
    BY <2>1, LenProperties
  <2>5. i > 3
    <3>1. CASE i > 1 /\ t[i - 1] = "fence"
      <4>1. i - 1 # 1 /\ i - 1 # 2 /\ i - 1 # 3
        BY <2>1, <3>1
      <4>2. QED
        BY <2>4, <3>1, <4>1
    <3>2. CASE i = Min(Braces(t)) /\ i \in Braces(t)
      <4>1. 2 \in Braces(t) /\ 1 \notin Braces(t)
        BY <2>1, <2>4 DEF Braces
      <4>2. i <= 2 /\ i # 1
        BY <2>1, <3>2, <4>1, FirstBrace
      <4>3. i = 2
        BY <2>4, <4>2
      <4> DEFINE p == SubSeq(t, 2, j)
      <4>4. /\ p \in Seq(Pieces) /\ Len(p) = j - 1 /\ p[1] = t[2]
        <5>1. 2 \in Nat /\ j \in Nat /\ 2 <= j /\ j <= Len(t)
          BY <2>1, <2>3, <2>4, <4>3
        <5>2. /\ p \in Seq(Pieces)
              /\ Len(p) = IF 2 <= j THEN j - 2 + 1 ELSE 0
              /\ \A k \in 1..(j - 2 + 1) : p[k] = t[2 + k - 1]
          BY <2>1, <5>1, Slice
        <5> HIDE DEF p
        <5>3. p[1] = t[2 + 1 - 1]
          BY <5>1, <5>2
        <5>4. QED
          BY <5>1, <5>2, <5>3
      <4>5. p[1] = "misfit" /\ IsObject(p) /\ p # <<"misfit">>
        BY <2>1, <2>3, <4>3, <4>4
      <4> HIDE DEF p
      <4>6. p # <<"object">>
        BY <4>5
      <4>7. QED
        BY <4>5, <4>6 DEF IsObject
    <3>3. QED
      BY <2>3, <3>1, <3>2
  <2>6. i - 3 \in DOMAIN text /\ j - 3 \in DOMAIN text /\ i - 3 <= j - 3
    BY <2>1, <2>3, <2>4, <2>5
  <2>7. SubSeq(text, i - 3, j - 3) = SubSeq(t, i, j)
    <3> DEFINE a == i - 3
    <3> DEFINE b == j - 3
    <3>1. /\ a \in Nat /\ b \in Nat /\ 1 <= a /\ a <= b /\ b <= Len(text)
          /\ i = a + 3 /\ j = b + 3
      BY <2>1, <2>3, <2>4, <2>5
    <3> HIDE DEF a, b
    <3> DEFINE p == SubSeq(text, a, b)
    <3> DEFINE q == SubSeq(t, i, j)
    <3>2. /\ p \in Seq(Pieces) /\ Len(p) = b - a + 1
          /\ \A k \in 1..(b - a + 1) : p[k] = text[a + k - 1]
      BY <3>1, Slice
    <3>3. /\ q \in Seq(Pieces) /\ Len(q) = j - i + 1
          /\ \A k \in 1..(j - i + 1) : q[k] = t[i + k - 1]
      BY <2>1, <2>3, <2>4, Slice
    <3> HIDE DEF p, q
    <3>4. Len(p) = Len(q)
      BY <3>1, <3>2, <3>3
    <3>5. ASSUME NEW k \in 1..Len(p) PROVE p[k] = q[k]
      <4>1. a + k - 1 \in 1..Len(text) /\ 3 + (a + k - 1) = i + k - 1
        BY <2>1, <3>1, <3>2
      <4>2. p[k] = text[a + k - 1] /\ q[k] = t[i + k - 1]
        BY <3>1, <3>2, <3>3
      <4>3. QED
        BY <2>1, <4>1, <4>2
    <3>6. p = q
      BY <3>2, <3>3, <3>4, <3>5, SeqEqual
    <3>7. QED
      BY <3>6 DEF p, q, a, b
  <2>8. QED
    BY <2>3, <2>6, <2>7
<1>3. QED
  BY <1>1, <1>2

(* Every readable form is accepted: one case per form.                      *)
LEMMA ReadableIsAccepted ==
    ASSUME NEW text \in Seq(Pieces), ReadableForm(text)
    PROVE  Accepted(text)
<1> DEFINE Prose(before, core) ==
        \A i \in DOMAIN text : i \notin (before + 1)..(before + Len(core)) => text[i] = "prose"
<1>1. PICK core \in {<<"object">>, <<"head", "fence", "tail">>, <<"fence", "object", "fence">>},
           before \in 0..Len(text), after \in 0..Len(text) :
              /\ Len(text) = before + Len(core) + after
              /\ SubSeq(text, before + 1, before + Len(core)) = core
              /\ Prose(before, core)
  BY DEF ReadableForm
<1>2. Len(text) \in Nat /\ DOMAIN text = 1..Len(text)
  BY LenProperties
<1>3. before \in Nat /\ after \in Nat
  BY <1>2
<1>4. CASE core = <<"object">>
  <2>1. Len(core) = 1 /\ core[1] = "object"
    BY <1>4
  <2>2. before + 1 \in 1..Len(text) /\ SubSeq(text, before + 1, before + 1) = core
    BY <1>1, <1>2, <1>3, <2>1
  <2>3. text[before + 1] = "object"
    <3>1. SubSeq(text, before + 1, before + 1)[1] = text[(before + 1) + 1 - 1]
      BY <1>2, <1>3, <2>2, Slice
    <3>2. (before + 1) + 1 - 1 = before + 1
      BY <1>3
    <3>3. QED
      BY <2>1, <2>2, <3>1, <3>2
  <2>4. \A i \in DOMAIN text : i # before + 1 => text[i] = "prose"
    BY <1>1, <1>2, <1>3, <2>1
  <2>5. Fences(text) = {}
    BY <2>3, <2>4 DEF Fences
  <2>6. Braces(text) = {before + 1}
    BY <1>2, <2>2, <2>3, <2>4 DEF Braces
  <2>7. ~(Cardinality(Fences(text)) > 1)
    BY <2>5, FS_EmptySet
  <2>8. Min(Braces(text)) = before + 1
    BY <1>3, <2>6, LeastIs
  <2>9. core \in RawDecoded(text)
    BY <1>2, <1>4, <2>2, <2>8 DEF RawDecoded, IsObject
  <2>10. core \in ExtractJsonObject(text) /\ IsObject(core) /\ core # <<"misfit">>
    BY <1>4, <2>6, <2>7, <2>9 DEF ExtractJsonObject, IsObject
  <2>11. QED
    BY <2>10 DEF Accepted
<1>5. CASE core \in {<<"head", "fence", "tail">>, <<"fence", "object", "fence">>}
  <2>1. Len(core) = 3
    BY <1>5
  <2> DEFINE a == before + 1
  <2>2. /\ a \in Nat /\ 1 <= a /\ a + 2 <= Len(text)
        /\ SubSeq(text, a, a + 2) = core
    BY <1>1, <1>2, <1>3, <2>1
  <2>3. \A i \in DOMAIN text : i \notin {a, a + 1, a + 2} => text[i] = "prose"
    <3>1. ASSUME NEW i \in DOMAIN text, i \notin {a, a + 1, a + 2}
          PROVE  i \notin (before + 1)..(before + Len(core))
      BY <1>2, <1>3, <2>1, <3>1
    <3>2. QED
      BY <1>1, <3>1
  <2> HIDE DEF a, Prose
  <2>4. text[a] = core[1] /\ text[a + 1] = core[2] /\ text[a + 2] = core[3]
    <3>1. \A k \in 1..((a + 2) - a + 1) : SubSeq(text, a, a + 2)[k] = text[a + k - 1]
      BY <1>2, <2>2, Slice
    <3>2. \A k \in 1..3 : core[k] = text[a + k - 1]
      BY <2>2, <3>1
    <3>3. a + 1 - 1 = a /\ a + 2 - 1 = a + 1 /\ a + 3 - 1 = a + 2
      BY <2>2
    <3>4. core[1] = text[a + 1 - 1] /\ core[2] = text[a + 2 - 1] /\ core[3] = text[a + 3 - 1]
      BY <3>2
    <3>5. QED
      BY <3>3, <3>4
  <2>5. a \in DOMAIN text /\ a + 1 \in DOMAIN text /\ a + 2 \in DOMAIN text
    BY <1>2, <2>2
  <2>6. a \in Int /\ a + 1 \in Int /\ a + 2 \in Int /\ a < a + 2
    BY <2>2
  <2>7. CASE core = <<"head", "fence", "tail">>
    <3>1. text[a] = "head" /\ text[a + 1] = "fence" /\ text[a + 2] = "tail"
      BY <2>4, <2>7
    <3>2. Fences(text) = {a + 1}
      BY <2>2, <2>3, <2>5, <3>1 DEF Fences
    <3>3. Braces(text) = {a}
      BY <2>2, <2>3, <2>5, <3>1 DEF Braces
    <3>4. ~(Cardinality(Fences(text)) > 1)
      <4>1. Cardinality({a + 1}) = 1
        BY <2>6, LeastOfOne, Zenon
      <4>2. QED
        BY <3>2, <4>1
    <3>5. Min(Braces(text)) = a
      <4>1. Min({a}) = a
        BY <2>6, LeastOfOne, Zenon
      <4>2. QED
        BY <3>3, <4>1
    <3>6. IsObject(core) /\ core # <<"misfit">>
      BY <2>7 DEF IsObject
    <3>7. core \in RawDecoded(text)
      BY <2>2, <2>5, <3>5, <3>6 DEF RawDecoded
    <3>8. core \in ExtractJsonObject(text)
      BY <3>3, <3>4, <3>7 DEF ExtractJsonObject
    <3>9. QED
      BY <3>6, <3>8 DEF Accepted
  <2>8. CASE core = <<"fence", "object", "fence">>
    <3>1. text[a] = "fence" /\ text[a + 1] = "object" /\ text[a + 2] = "fence"
      BY <2>4, <2>8
    <3>2. Fences(text) = {a, a + 2}
      BY <2>2, <2>3, <2>5, <3>1 DEF Fences
    <3>3. Cardinality({a, a + 2}) = 2 /\ Min({a, a + 2}) = a /\ {a, a + 2} \ {a} = {a + 2}
      BY <2>6, LeastOfTwo, Zenon
    <3>4. Min({a + 2}) = a + 2
      BY <2>6, LeastOfOne, Zenon
    <3>5. Min(Fences(text)) = a /\ Min(Fences(text) \ {a}) = a + 2
      BY <3>2, <3>3, <3>4
    <3>6. Cardinality(Fences(text)) > 1
      BY <3>2, <3>3
    <3>7. Fenced(text) = SubSeq(text, a + 1, a + 1)
      <4>1. (a + 2) - 1 = a + 1
        BY <2>2
      <4>2. QED
        BY <3>5, <4>1 DEF Fenced
    <3>8. SubSeq(text, a + 1, a + 1) = <<"object">>
      <4> DEFINE p == SubSeq(text, a + 1, a + 1)
      <4>1. /\ p \in Seq(Pieces)
            /\ Len(p) = IF a + 1 <= a + 1 THEN (a + 1) - (a + 1) + 1 ELSE 0
            /\ \A k \in 1..((a + 1) - (a + 1) + 1) : p[k] = text[(a + 1) + k - 1]
        BY <1>2, <2>2, <2>5, Slice
      <4> HIDE DEF p
      <4>2. Len(p) = 1 /\ p[1] = text[(a + 1) + 1 - 1]
        BY <2>2, <4>1
      <4>3. (a + 1) + 1 - 1 = a + 1
        BY <2>2
      <4>4. p[1] = "object"
        BY <3>1, <4>2, <4>3
      <4>5. <<"object">> \in Seq(Pieces)
        BY DEF Pieces
      <4>6. p = <<"object">>
        BY <4>1, <4>2, <4>4, <4>5, SeqEqual
      <4>7. QED
        BY <4>6 DEF p
    <3>9. <<"object">> \in ExtractJsonObject(text)
      BY <3>6, <3>7, <3>8 DEF ExtractJsonObject
    <3>10. IsObject(<<"object">>) /\ <<"object">> # <<"misfit">>
      BY DEF IsObject
    <3>11. QED
      BY <3>9, <3>10 DEF Accepted
  <2>9. QED
    BY <1>5, <2>7, <2>8
<1>6. QED
  BY <1>1, <1>4, <1>5

-----------------------------------------------------------------------------
\* What the checks that have been passed say of the upload.
Passed ==
    /\ stage \in {"sized", "opened", "screened", "decoded"} => upload.size \in 1..MaxUploadBytes
    /\ stage \in {"opened", "screened", "decoded"} => upload.open = "ok"
    /\ stage \in {"screened", "decoded"} =>
          upload.format \in SupportedFormats /\ WithinPixelLimit(upload)
    /\ stage = "decoded" => upload.load = "ok"

\* What BlameIsRight asks of an error e.
Blames(e) ==
    CASE e.code = "IMAGE_TOO_LARGE" ->
            \/ upload.size > MaxUploadBytes
            \/ upload.open = "bomb"
            \/ ~WithinPixelLimit(upload)
      [] e.code = "UNSUPPORTED_MEDIA_TYPE" -> upload.format \notin SupportedFormats
      [] e.code = "INVALID_IMAGE" -> upload.size = 0 \/ upload.open = "unidentified"
      [] e.code = "IMAGE_DECODE_FAILED" ->
            upload.open \in {"unidentified", "oserror"} \/ upload.load = "oserror"
      [] e.code = "none" -> upload.open = "other" \/ upload.load = "other"
      [] OTHER -> Faultless(upload)

\* An error that may reach the handler: the contract accepts it, and it is deserved.
Deserved(e) == /\ e \in Error \union {Unhandled}
               /\ SafeDetails(e.keys)
               /\ Blames(e)

ParseInv ==
    /\ ParseTypeOK
    /\ Passed
    /\ NothingDecodedBeyondLimits
    /\ stage = "raised" => Deserved(raised)
    /\ stage = "answered" => \/ answer.status = 200 /\ Faultless(upload)
                             \/ answer.status # 200 /\ Blames(answer)

-----------------------------------------------------------------------------
(* Any error of the service is one the contract knows.                      *)
LEMMA ErrorsAreErrors ==
    ASSUME NEW code \in ErrorCode, NEW status \in {413, 415, 422, 502, 503, 504},
           NEW keys \in SUBSET SUBSET Tokens
    PROVE  /\ AppError(code, status, keys) \in Error
           /\ AppError(code, status, keys).code = code
           /\ AppError(code, status, keys).keys = keys
  BY DEF AppError, Error

(* The details the service gives are all safe: no key names the model, the  *)
(* prompt or an exception.                                                  *)
LEMMA OwnDetailsAreSafe ==
    /\ SafeDetails({})
    /\ SafeDetails({{"file", "size", "bytes"}, {"max", "upload", "bytes"}})
    /\ SafeDetails({{"detected", "format"}})
    /\ SafeDetails({{"decoded", "pixels"}, {"max", "decoded", "pixels"}})
    /\ SafeDetails({{"retry", "after", "seconds"}})
    /\ SafeDetails({{"component"}})
    /\ SafeDetails({{"reason"}})
    /\ SafeDetails({{"stage"}})
  BY DEF SafeDetails, UnsafeDetailKeywords

(* The details are made of the tokens the model knows.                      *)
LEMMA OwnDetailsAreKeys ==
    /\ {} \in SUBSET SUBSET Tokens
    /\ {{"file", "size", "bytes"}, {"max", "upload", "bytes"}} \in SUBSET SUBSET Tokens
    /\ {{"detected", "format"}} \in SUBSET SUBSET Tokens
    /\ {{"decoded", "pixels"}, {"max", "decoded", "pixels"}} \in SUBSET SUBSET Tokens
    /\ {{"retry", "after", "seconds"}} \in SUBSET SUBSET Tokens
    /\ {{"component"}} \in SUBSET SUBSET Tokens
    /\ {{"reason"}} \in SUBSET SUBSET Tokens
    /\ {{"stage"}} \in SUBSET SUBSET Tokens
  BY DEF Tokens

(* An upload that was decoded is without fault.                             *)
LEMMA DecodedIsFaultless ==
    ASSUME Passed, stage = "decoded"
    PROVE  Faultless(upload)
  BY DEF Passed, Faultless

(* A faultless upload may be told any error of the model.                   *)
LEMMA ModelErrorsAreDeserved ==
    ASSUME Faultless(upload), NEW e \in Error, SafeDetails(e.keys),
           e.code \in {"PARSER_BUSY", "MODEL_NOT_READY", "VLM_TIMEOUT", "VLM_OOM",
                       "VLM_INVALID_JSON"}
    PROVE  Deserved(e)
  BY DEF Deserved, Blames

-----------------------------------------------------------------------------
(* Nothing is known of an upload that has just arrived.                     *)
LEMMA ParseStarts == ParseInit => ParseInv
<1>1. SUFFICES ASSUME ParseInit PROVE ParseInv
  OBVIOUS
<1>2. ParseTypeOK
  BY <1>1 DEF ParseInit, ParseTypeOK, NoAnswer
<1>3. QED
  BY <1>1, <1>2 DEF ParseInit, ParseInv, Passed, NothingDecodedBeyondLimits

(* A step that raises a deserved error of the model or of a check.          *)
LEMMA RaisingKeepsInv ==
    ASSUME ParseInv, NEW e, Raise(e), Deserved(e),
           stage \notin {"raised", "answered"},
           output' = output, answer' = answer,
           reply' \subseteq [text : Replies, known : BOOLEAN],
           decoding' \in BOOLEAN,
           decoding' => decoding \/ /\ upload.size \in 1..MaxUploadBytes
                                    /\ upload.format \in SupportedFormats
                                    /\ WithinPixelLimit(upload)
    PROVE  ParseInv'
<1>1. stage' = "raised" /\ raised' = e /\ upload' = upload
  BY DEF Raise
<1>2. WithinPixelLimit(upload)' <=> WithinPixelLimit(upload)
  BY <1>1 DEF WithinPixelLimit
<1>3. ParseTypeOK'
  BY <1>1 DEF ParseInv, ParseTypeOK, Deserved
<1>4. Passed'
  BY <1>1 DEF Passed
<1>5. NothingDecodedBeyondLimits'
  BY <1>1, <1>2 DEF ParseInv, NothingDecodedBeyondLimits
<1>6. Deserved(raised)'
  <2>1. Blames(raised)' <=> Blames(e)
    BY <1>1, <1>2 DEF Blames, Faultless
  <2>2. QED
    BY <1>1, <2>1 DEF Deserved
<1>7. QED
  BY <1>1, <1>3, <1>4, <1>5, <1>6 DEF ParseInv

(* A check that is passed adds to what is known of the upload.              *)
LEMMA PassingKeepsInv ==
    ASSUME ParseInv, upload' = upload, raised' = raised, decoding' \in BOOLEAN,
           reply' = reply, output' = output, answer' = answer,
           stage \notin {"raised", "answered"},
           stage' \in {"sized", "opened", "screened", "decoded"},
           Passed',
           decoding' => decoding \/ /\ upload.size \in 1..MaxUploadBytes
                                    /\ upload.format \in SupportedFormats
                                    /\ WithinPixelLimit(upload)
    PROVE  ParseInv'
<1>1. WithinPixelLimit(upload)' <=> WithinPixelLimit(upload)
  BY DEF WithinPixelLimit
<1>2. ParseTypeOK'
  BY DEF ParseInv, ParseTypeOK
<1>3. NothingDecodedBeyondLimits'
  BY <1>1 DEF ParseInv, NothingDecodedBeyondLimits
<1>4. QED
  BY <1>2, <1>3 DEF ParseInv

(* Each of the checks.                                                      *)
LEMMA ImageStepKeepsInv ==
    ASSUME ParseInv, ImageStep, UNCHANGED <<reply, output, answer>>
    PROVE  ParseInv'
<1> USE DEF ErrorCode
<1>0. /\ decoding \in BOOLEAN
      /\ upload \in Upload
      /\ reply \subseteq [text : Replies, known : BOOLEAN]
  BY CompactAssumption DEF ParseInv, ParseTypeOK
<1>1. CASE RefuseEmpty
  <2> DEFINE e == AppError("INVALID_IMAGE", 422, {})
  <2>1. e \in Error /\ e.code = "INVALID_IMAGE" /\ e.keys = {}
    BY ErrorsAreErrors, OwnDetailsAreKeys
  <2>2. Deserved(e)
    BY <1>1, <2>1, OwnDetailsAreSafe DEF RefuseEmpty, Deserved, Blames
  <2>3. Raise(e)
    BY <1>1 DEF RefuseEmpty
  <2> HIDE DEF e
  <2>4. QED
    BY <1>0, <1>1, <2>2, <2>3, RaisingKeepsInv DEF RefuseEmpty
<1>2. CASE RefuseTooManyBytes
  <2> DEFINE keys == {{"file", "size", "bytes"}, {"max", "upload", "bytes"}}
  <2> DEFINE e == AppError("IMAGE_TOO_LARGE", 413, keys)
  <2>1. e \in Error /\ e.code = "IMAGE_TOO_LARGE" /\ e.keys = keys
    <3>1. keys \in SUBSET SUBSET Tokens
      BY OwnDetailsAreKeys
    <3> HIDE DEF keys
    <3>2. QED
      BY <3>1, ErrorsAreErrors
  <2>2. Deserved(e)
    <3>1. SafeDetails(keys)
      BY OwnDetailsAreSafe
    <3> HIDE DEF e, keys
    <3>2. QED
      BY <1>2, <2>1, <3>1 DEF RefuseTooManyBytes, Deserved, Blames
  <2>3. Raise(e)
    BY <1>2 DEF RefuseTooManyBytes
  <2> HIDE DEF e, keys
  <2>4. QED
    BY <1>0, <1>2, <2>2, <2>3, RaisingKeepsInv DEF RefuseTooManyBytes
<1>3. CASE AcceptSize
  <2>1. Passed'
    BY <1>3 DEF AcceptSize, Passed
  <2>2. QED
    BY <1>0, <1>3, <2>1, PassingKeepsInv DEF AcceptSize
<1>4. CASE OpenRaises
  <2>1. OpenError(upload) \in Error \union {Unhandled}
    BY OwnDetailsAreKeys, ErrorsAreErrors DEF OpenError
  <2>2. OpenError(upload).keys = {}
    BY DEF OpenError, AppError, Unhandled
  <2>3. Blames(OpenError(upload))
    BY <1>0, <1>4 DEF OpenRaises, OpenError, Blames, AppError, Unhandled, Upload, OpenEnds
  <2>4. Deserved(OpenError(upload))
    BY <2>1, <2>2, <2>3, OwnDetailsAreSafe DEF Deserved
  <2>5. QED
    BY <1>0, <1>4, <2>4, RaisingKeepsInv DEF OpenRaises
<1>5. CASE Open
  <2>1. Passed'
    BY <1>5 DEF ParseInv, Open, Passed
  <2>2. QED
    BY <1>0, <1>5, <2>1, PassingKeepsInv DEF Open
<1>6. CASE RefuseFormat
  <2> DEFINE keys == {{"detected", "format"}}
  <2> DEFINE e == AppError("UNSUPPORTED_MEDIA_TYPE", 415, keys)
  <2>1. e \in Error /\ e.code = "UNSUPPORTED_MEDIA_TYPE" /\ e.keys = keys
    <3>1. keys \in SUBSET SUBSET Tokens
      BY OwnDetailsAreKeys
    <3> HIDE DEF keys
    <3>2. QED
      BY <3>1, ErrorsAreErrors
  <2>2. Deserved(e)
    <3>1. SafeDetails(keys)
      BY OwnDetailsAreSafe
    <3> HIDE DEF e, keys
    <3>2. QED
      BY <1>6, <2>1, <3>1 DEF RefuseFormat, Deserved, Blames
  <2>3. Raise(e)
    BY <1>6 DEF RefuseFormat
  <2> HIDE DEF e, keys
  <2>4. QED
    BY <1>0, <1>6, <2>2, <2>3, RaisingKeepsInv DEF RefuseFormat
<1>7. CASE RefuseTooManyPixels
  <2> DEFINE keys == {{"decoded", "pixels"}, {"max", "decoded", "pixels"}}
  <2> DEFINE e == AppError("IMAGE_TOO_LARGE", 413, keys)
  <2>1. e \in Error /\ e.code = "IMAGE_TOO_LARGE" /\ e.keys = keys
    <3>1. keys \in SUBSET SUBSET Tokens
      BY OwnDetailsAreKeys
    <3> HIDE DEF keys
    <3>2. QED
      BY <3>1, ErrorsAreErrors
  <2>2. Deserved(e)
    <3>1. SafeDetails(keys)
      BY OwnDetailsAreSafe
    <3> HIDE DEF e, keys
    <3>2. QED
      BY <1>7, <2>1, <3>1 DEF RefuseTooManyPixels, Deserved, Blames
  <2>3. Raise(e)
    BY <1>7 DEF RefuseTooManyPixels
  <2> HIDE DEF e, keys
  <2>4. QED
    BY <1>0, <1>7, <2>2, <2>3, RaisingKeepsInv DEF RefuseTooManyPixels
<1>8. CASE AcceptHeader
  <2>1. Passed'
    BY <1>8 DEF ParseInv, AcceptHeader, Passed, WithinPixelLimit
  <2>2. QED
    BY <1>0, <1>8, <2>1, PassingKeepsInv DEF AcceptHeader
<1>9. CASE LoadRaises
  <2> DEFINE e == IF upload.load = "oserror" THEN AppError("IMAGE_DECODE_FAILED", 422, {})
                                             ELSE Unhandled
  <2>1. e \in Error \union {Unhandled}
    BY OwnDetailsAreKeys, ErrorsAreErrors
  <2>2. SafeDetails(e.keys)
    BY OwnDetailsAreSafe DEF AppError, Unhandled
  <2>3. Blames(e)
    BY <1>0, <1>9 DEF LoadRaises, Blames, AppError, Unhandled, Upload, LoadEnds
  <2>4. Deserved(e)
    BY <2>1, <2>2, <2>3 DEF Deserved
  <2>5. Raise(e)
    BY <1>9 DEF LoadRaises
  <2> HIDE DEF e
  <2>6. QED
    BY <1>0, <1>9, <2>4, <2>5, RaisingKeepsInv DEF LoadRaises, ParseInv, Passed
<1>10. CASE Load
  <2>1. Passed'
    BY <1>10 DEF ParseInv, Load, Passed, WithinPixelLimit
  <2>2. QED
    BY <1>0, <1>10, <2>1, PassingKeepsInv DEF Load, ParseInv, Passed
<1>11. QED
  BY <1>1, <1>2, <1>3, <1>4, <1>5, <1>6, <1>7, <1>8, <1>9, <1>10 DEF ImageStep

-----------------------------------------------------------------------------
(* Errors of the model.                                                     *)
LEMMA ModelErrorKeepsInv ==
    ASSUME ParseInv, stage = "decoded", NEW e \in Error, SafeDetails(e.keys), Raise(e),
           e.code \in {"PARSER_BUSY", "MODEL_NOT_READY", "VLM_TIMEOUT", "VLM_OOM",
                       "VLM_INVALID_JSON"},
           UNCHANGED <<decoding, output, answer>>,
           reply' \subseteq [text : Replies, known : BOOLEAN]
    PROVE  ParseInv'
<1>1. Deserved(e)
  BY DecodedIsFaultless, ModelErrorsAreDeserved DEF ParseInv
<1>2. decoding' \in BOOLEAN
  BY DEF ParseInv, ParseTypeOK
<1>3. QED
  BY <1>1, <1>2, RaisingKeepsInv

(* Answers with a body.                                                     *)
LEMMA RespondKeepsInv ==
    ASSUME ParseInv, stage = "decoded", NEW body, Respond(body),
           output' \subseteq Outputs,
           reply' \subseteq [text : Replies, known : BOOLEAN]
    PROVE  ParseInv'
<1>1. /\ stage' = "answered" /\ answer' = [status |-> 200, body |-> body]
      /\ UNCHANGED <<upload, decoding, raised>>
  BY DEF Respond
<1>2. Faultless(upload)'
  BY <1>1, DecodedIsFaultless DEF ParseInv, Faultless, WithinPixelLimit
<1>3. ParseTypeOK'
  BY <1>1 DEF ParseInv, ParseTypeOK
<1>4. Passed' /\ NothingDecodedBeyondLimits'
  BY <1>1 DEF ParseInv, Passed, NothingDecodedBeyondLimits, WithinPixelLimit
<1>5. QED
  BY <1>1, <1>2, <1>3, <1>4 DEF ParseInv

(* What a deserved error is answered with.                                  *)
LEMMA AnswerErrorKeepsInv ==
    ASSUME ParseInv, AnswerError
    PROVE  ParseInv'
<1>1. /\ stage = "raised" /\ stage' = "answered" /\ answer' = raised
      /\ UNCHANGED <<upload, decoding, raised, reply, output>>
      /\ Deserved(raised)
  BY DEF ParseInv, AnswerError, ErrorReply, Deserved
<1>2. answer'.status # 200 /\ answer'.status # 0
  BY <1>1 DEF Deserved, Error, Unhandled
<1>3. Blames(answer)'
  BY <1>1 DEF Deserved, Blames, Faultless, WithinPixelLimit
<1>4. ParseTypeOK'
  BY <1>1, <1>2 DEF ParseInv, ParseTypeOK
<1>5. Passed' /\ NothingDecodedBeyondLimits'
  BY <1>1 DEF ParseInv, Passed, NothingDecodedBeyondLimits, WithinPixelLimit
<1>6. QED
  BY <1>1, <1>2, <1>3, <1>4, <1>5 DEF ParseInv

(* One case per action of the request.                                      *)
LEMMA ParseStepKeepsInv == ParseInv /\ [ParseNext]_parseVars => ParseInv'
<1> SUFFICES ASSUME ParseInv, [ParseNext]_parseVars PROVE ParseInv'
  OBVIOUS
<1>0. /\ output \subseteq Outputs
      /\ reply \subseteq [text : Replies, known : BOOLEAN]
  BY DEF ParseInv, ParseTypeOK
<1>a. /\ InvalidJson \in Error /\ InvalidJson.code = "VLM_INVALID_JSON"
      /\ SafeDetails(InvalidJson.keys)
  BY ErrorsAreErrors, OwnDetailsAreKeys, OwnDetailsAreSafe DEF InvalidJson, ErrorCode
<1>1. CASE ImageStep /\ UNCHANGED <<reply, output, answer>>
  BY <1>1, ImageStepKeepsInv
<1>2. CASE NoProvider
  BY <1>0, <1>2, RespondKeepsInv DEF NoProvider
<1>3. CASE ProviderRefuses
  <2>1. PICK e \in {AppError("PARSER_BUSY", 503, {{"retry", "after", "seconds"}}),
                    AppError("MODEL_NOT_READY", 503, {{"component"}}), InvalidJson} : Raise(e)
    BY <1>3 DEF ProviderRefuses
  <2>2. /\ e \in Error /\ SafeDetails(e.keys)
        /\ e.code \in {"PARSER_BUSY", "MODEL_NOT_READY", "VLM_INVALID_JSON"}
    BY <1>a, ErrorsAreErrors, OwnDetailsAreKeys, OwnDetailsAreSafe DEF ErrorCode
  <2>3. QED
    BY <1>0, <1>3, <2>1, <2>2, ModelErrorKeepsInv DEF ProviderRefuses
<1>4. CASE ProviderFails
  <2>1. PICK failure \in Failures : \E e \in MapVlmRuntimeError(failure) : Raise(e)
    BY <1>4 DEF ProviderFails
  <2>2. PICK e \in MapVlmRuntimeError(failure) : Raise(e)
    BY <2>1
  <2>3. /\ e \in Error /\ SafeDetails(e.keys)
        /\ e.code \in {"VLM_TIMEOUT", "VLM_OOM"}
    BY ErrorsAreErrors, OwnDetailsAreKeys, OwnDetailsAreSafe
       DEF ErrorCode, MapVlmRuntimeError
  <2>4. QED
    BY <1>0, <1>4, <2>2, <2>3, ModelErrorKeepsInv DEF ProviderFails
<1>5. CASE ProviderBreaks
  BY <1>0, <1>5, RespondKeepsInv DEF ProviderBreaks
<1>6. CASE ReplyMisread
  BY <1>0, <1>a, <1>6, ModelErrorKeepsInv DEF ReplyMisread, Generated
<1>7. CASE ReplyRead
  BY <1>0, <1>7, RespondKeepsInv DEF ReplyRead, Generated
<1>8. CASE AnswerError
  BY <1>8, AnswerErrorKeepsInv
<1>9. CASE Over \/ UNCHANGED parseVars
  <2>1. UNCHANGED <<upload, stage, decoding, raised, reply, output, answer>>
    BY <1>9 DEF Over, parseVars, imageVars
  <2>2. /\ ParseTypeOK' /\ Passed' /\ NothingDecodedBeyondLimits'
    BY <2>1 DEF ParseInv, ParseTypeOK, Passed, NothingDecodedBeyondLimits, WithinPixelLimit
  <2>3. /\ Blames(raised)' <=> Blames(raised)
        /\ Blames(answer)' <=> Blames(answer)
        /\ Faultless(upload)' <=> Faultless(upload)
    BY <2>1 DEF Blames, Faultless, WithinPixelLimit
  <2>4. QED
    BY <2>1, <2>2, <2>3 DEF ParseInv, Deserved
<1>10. QED
  BY <1>1, <1>2, <1>3, <1>4, <1>5, <1>6, <1>7, <1>8, <1>9 DEF ParseNext

(* The invariant of every request.                                          *)
LEMMA ParseInvHolds == ParseSpec => []ParseInv
  BY ParseStarts, ParseStepKeepsInv, PTL DEF ParseSpec

-----------------------------------------------------------------------------
(* The request keeps its types, and has an answer exactly when it is over.  *)
THEOREM ParseTypesHold == ParseSpec => []ParseTypeOK
<1>1. ParseInv => ParseTypeOK
  BY DEF ParseInv
<1>2. QED
  BY <1>1, ParseInvHolds, PTL

(* No pixel is decoded before the byte limit, the format and the pixel      *)
(* limit were checked (image_validation.py 47-78).                          *)
THEOREM LimitsComeFirst == ParseSpec => []NothingDecodedBeyondLimits
<1>1. ParseInv => NothingDecodedBeyondLimits
  BY DEF ParseInv
<1>2. QED
  BY <1>1, ParseInvHolds, PTL

(* Every error names what is wrong, the model's errors come only to         *)
(* faultless uploads, and the error contract never rejects the service's    *)
(* own details (image_validation.py 47-103, errors.py 43-58).               *)
THEOREM BlameIsDeserved == ParseSpec => []BlameIsRight
<1>1. ParseInv => BlameIsRight
  BY DEF ParseInv, BlameIsRight, Blames
<1>2. QED
  BY <1>1, ParseInvHolds, PTL

-----------------------------------------------------------------------------
(* What is left of a response without and with the warning.                 *)
LEMMA NoneTwiceInOne ==
    ASSUME NEW w
    PROVE  NoneTwice(<<w>>)
  BY DEF NoneTwice

(* An analysis has no warnings, so a failed enrichment adds the only one.   *)
LEMMA WarnedOnce ==
    ASSUME NEW u
    PROVE  LET det == Deterministic(u)
           IN  /\ det.warnings = <<>>
               /\ WithWarning(det, "vlm enrichment failed")
                     = [det EXCEPT !.warnings = <<"vlm enrichment failed">>]
<1> DEFINE det == Deterministic(u)
<1>1. det.warnings = <<>>
  BY DEF Deterministic
<1>2. Merged(<<>>, <<"vlm enrichment failed">>) = <<"vlm enrichment failed">>
  <2> DEFINE w == "vlm enrichment failed"
  <2>1. w \in {w}
    OBVIOUS
  <2> HIDE DEF w
  <2>2. Merged(<<>>, <<w>>) = <<w>>
    BY <2>1, OneWarning
  <2>3. QED
    BY <2>2 DEF w
<1> HIDE DEF det
<1>3. Merged(det.warnings, <<"vlm enrichment failed">>) = <<"vlm enrichment failed">>
  BY <1>1, <1>2
<1>4. QED
  BY <1>1, <1>3 DEF WithWarning, det

(* What an answer with a body says, and from which output.                  *)
Enriched ==
    \/ /\ output = {}
       /\ answer.body \in {Deterministic(upload),
                           WithWarning(Deterministic(upload), "vlm enrichment failed")}
    \/ \E out \in Outputs : output = {out} /\ answer.body = Fuse(Deterministic(upload), out)

(* What is known of the reply and of the output: a reply is kept exactly    *)
(* when it was generated, an output exactly when the reply could be read.   *)
ContentInv ==
    /\ stage \notin {"raised", "answered"} => reply = {}
    /\ stage # "answered" => output = {}
    /\ \A r \in reply : output # {} <=> Accepted(Read(r.text, r.known))
    /\ Answered(200) => Enriched

(* There is no reply before the model was asked.                            *)
LEMMA ContentStarts == ParseInit => ContentInv
  BY DEF ParseInit, ContentInv, Answered

(* The three ways to answer with a body: no provider, one that broke, and   *)
(* one whose reply was read.                                                *)
LEMMA RespondingKeepsContent ==
    ASSUME ContentInv, stage = "decoded", NEW body, Respond(body),
           \/ /\ reply' = reply /\ output' = {}
              /\ body \in {Deterministic(upload),
                           WithWarning(Deterministic(upload), "vlm enrichment failed")}
           \/ \E text \in Replies, known \in BOOLEAN, out \in Outputs :
                 /\ reply' = {[text |-> text, known |-> known]}
                 /\ Accepted(Read(text, known))
                 /\ output' = {out}
                 /\ body = Fuse(Deterministic(upload), out)
    PROVE  ContentInv'
<1>1. /\ stage' = "answered" /\ answer' = [status |-> 200, body |-> body] /\ upload' = upload
      /\ answer'.body = body
  BY DEF Respond
<1>2. \A r \in reply' : output' # {} <=> Accepted(Read(r.text, r.known))
  <2>1. CASE reply' = reply /\ output' = {}
    BY <2>1 DEF ContentInv
  <2>2. ASSUME NEW text, NEW known, NEW out, reply' = {[text |-> text, known |-> known]},
               Accepted(Read(text, known)), output' = {out}
        PROVE  \A r \in reply' : output' # {} <=> Accepted(Read(r.text, r.known))
    <3>1. output' # {}
      BY <2>2
    <3>2. \A r \in reply' : r = [text |-> text, known |-> known]
      BY <2>2
    <3>3. [text |-> text, known |-> known].text = text
          /\ [text |-> text, known |-> known].known = known
      OBVIOUS
    <3>4. QED
      BY <2>2, <3>1, <3>2, <3>3
  <2>3. QED
    BY <2>1, <2>2
<1>3. Enriched'
  BY <1>1 DEF Enriched
<1>4. QED
  BY <1>1, <1>2, <1>3 DEF ContentInv

(* One case per action that touches the reply, the output or the answer.    *)
LEMMA ContentStepKeepsInv ==
    ASSUME ParseInv, ContentInv, [ParseNext]_parseVars
    PROVE  ContentInv'
<1>1. CASE ImageStep /\ UNCHANGED <<reply, output, answer>>
  <2>1. stage \notin {"raised", "answered"} /\ stage' # "answered"
    BY <1>1 DEF ImageStep, RefuseEmpty, RefuseTooManyBytes, AcceptSize, OpenRaises, Open,
                RefuseFormat, RefuseTooManyPixels, AcceptHeader, LoadRaises, Load, Raise
  <2>2. QED
    BY <1>1, <2>1 DEF ContentInv, Answered
<1>2. CASE NoProvider
  <2>1. stage = "decoded" /\ output' = {} /\ reply' = reply
    BY <1>2 DEF NoProvider, ContentInv
  <2>2. QED
    BY <1>2, <2>1, RespondingKeepsContent DEF NoProvider
<1>3. CASE ProviderRefuses \/ ProviderFails
  <2>1. stage = "decoded" /\ stage' = "raised" /\ UNCHANGED <<reply, output, answer>>
    BY <1>3 DEF ProviderRefuses, ProviderFails, Raise
  <2>2. QED
    BY <2>1 DEF ContentInv, Answered
<1>4. CASE ProviderBreaks
  <2>1. stage = "decoded" /\ output' = {} /\ reply' = reply
    BY <1>4 DEF ProviderBreaks, ContentInv
  <2>2. QED
    BY <1>4, <2>1, RespondingKeepsContent DEF ProviderBreaks
<1>5. CASE ReplyMisread
  <2>1. PICK text \in Replies, known \in BOOLEAN :
           /\ Generated(text, known)
           /\ ~Accepted(Read(text, known))
           /\ Raise(InvalidJson)
           /\ UNCHANGED <<decoding, output, answer>>
    BY <1>5 DEF ReplyMisread
  <2>2. /\ stage = "decoded" /\ stage' = "raised" /\ output' = {}
        /\ reply' = {[text |-> text, known |-> known]}
    BY <2>1 DEF Generated, Raise, ContentInv
  <2>3. QED
    BY <2>1, <2>2 DEF ContentInv, Answered
<1>6. CASE ReplyRead
  <2>1. PICK text \in Replies, known \in BOOLEAN, out \in Outputs :
           /\ Generated(text, known)
           /\ Accepted(Read(text, known))
           /\ output' = {out}
           /\ Respond(Fuse(Deterministic(upload), out))
    BY <1>6 DEF ReplyRead
  <2>2. stage = "decoded" /\ reply' = {[text |-> text, known |-> known]}
    BY <2>1 DEF Generated
  <2>3. QED
    BY <2>1, <2>2, RespondingKeepsContent
<1>7. CASE AnswerError
  <2>1. /\ stage = "raised" /\ stage' = "answered" /\ UNCHANGED <<reply, output>>
        /\ answer' = raised /\ raised.status # 200
    BY <1>7 DEF ParseInv, AnswerError, ErrorReply, Deserved, Error, Unhandled
  <2>2. QED
    BY <2>1 DEF ContentInv, Answered
<1>8. CASE Over \/ UNCHANGED parseVars
  <2>1. UNCHANGED <<upload, stage, decoding, raised, reply, output, answer>>
    BY <1>8 DEF Over, parseVars, imageVars
  <2>2. QED
    BY <2>1 DEF ContentInv, Answered, Enriched
<1>9. QED
  BY <1>1, <1>2, <1>3, <1>4, <1>5, <1>6, <1>7, <1>8 DEF ParseNext

(* The invariant of every request's content.                                *)
LEMMA ContentHolds == ParseSpec => []ContentInv
  BY ParseInvHolds, ContentStarts, ContentStepKeepsInv, PTL DEF ParseSpec

(* The palette of an answer lists the commonest visible colours, each once: *)
(* a colour left out, or listed later, covers fewer pixels than a listed    *)
(* one, or as many and has the greater rgb (_extract_palette,               *)
(* deterministic.py 46-72): for images of any size.                         *)
THEOREM PaletteHolds == ParseSpec => []PaletteIsTop
<1>1. ParseInv => PaletteIsTop
  <2> SUFFICES ASSUME ParseInv PROVE PaletteIsTop
    OBVIOUS
  <2>1. upload \in Upload
    BY CompactAssumption DEF ParseInv, ParseTypeOK
  <2>2. Deterministic(upload).style.palette = Palette(upload)
    BY DEF Deterministic, Analysis
  <2>3. QED
    BY <2>1, <2>2, PaletteTakesTheFirst DEF PaletteIsTop
<1>2. QED
  BY <1>1, ParseInvHolds, PTL

(* One fitting object among prose, bare with at most one fence in its       *)
(* strings or between two fences, is read, and what is read is an object    *)
(* that stands in the reply (parse_vlm_compact_output and                   *)
(* _extract_json_object, vlm_compact.py): for replies of any length. A bare *)
(* object with two fences in its strings is not covered; the code does not  *)
(* read it.                                                                 *)
THEOREM RepliesAreReadHolds == ParseSpec => []RepliesAreRead
<1>1. ParseInv /\ ContentInv => RepliesAreRead
  <2> SUFFICES ASSUME ParseInv, ContentInv, NEW r \in reply
               PROVE  /\ r.known /\ ReadableForm(r.text) => output # {}
                      /\ output # {} =>
                            \E i, j \in DOMAIN r.text :
                               /\ i <= j /\ IsObject(SubSeq(r.text, i, j))
                               /\ SubSeq(r.text, i, j) # <<"misfit">>
    BY DEF RepliesAreRead
  <2>1. r.text \in Seq(Pieces) /\ r.known \in BOOLEAN
    BY CompactAssumption DEF ParseInv, ParseTypeOK
  <2>2. output # {} <=> Accepted(Read(r.text, r.known))
    BY DEF ContentInv
  <2>3. ASSUME r.known, ReadableForm(r.text) PROVE output # {}
    <3>1. Accepted(r.text)
      BY <2>1, <2>3, ReadableIsAccepted
    <3>2. Read(r.text, r.known) = r.text
      BY <2>1, <2>3, KnownIsTrimmed
    <3>3. QED
      BY <2>2, <3>1, <3>2
  <2>4. ASSUME output # {}
        PROVE  \E i, j \in DOMAIN r.text :
                  /\ i <= j /\ IsObject(SubSeq(r.text, i, j))
                  /\ SubSeq(r.text, i, j) # <<"misfit">>
    BY <2>1, <2>2, <2>4, WhatIsReadWasWritten
  <2>5. QED
    BY <2>3, <2>4
<1>2. QED
  BY <1>1, ParseInvHolds, ContentHolds, PTL

(* Where the parts of an answer come from: metadata and a measured palette  *)
(* never from the model, whose palette stands in for one that could not be  *)
(* measured; its style, elements and warnings are shown, no warning twice;  *)
(* its content and its asset type are not                                   *)
(* (fuse_deterministic_with_vlm, fusion.py, and _with_warning of the        *)
(* service): for outputs of any length.                                     *)
THEOREM FusionHolds == ParseSpec => []AnswerIsFused
<1>1. ParseInv /\ ContentInv => AnswerIsFused
  <2> SUFFICES ASSUME ParseInv, ContentInv, Answered(200) PROVE AnswerIsFused
    BY DEF AnswerIsFused
  <2> DEFINE det == Deterministic(upload)
  <2> DEFINE warned == [det EXCEPT !.warnings = <<"vlm enrichment failed">>]
  <2>1. Enriched
    BY DEF ContentInv
  <2>2. det.warnings = <<>> /\ WithWarning(det, "vlm enrichment failed") = warned
    BY WarnedOnce
  <2>3. CASE output = {} /\ answer.body \in {det, warned}
    <3>1. PICK body : body = answer.body /\ body \in {det, warned}
      BY <2>3
    <3>2. body.metadata = det.metadata /\ body.style = det.style
          /\ body.warnings \in {<<>>, <<"vlm enrichment failed">>}
      BY <2>2, <3>1 DEF Deterministic
    <3>3. NoneTwice(body.warnings)
      BY <3>2, EmptyList, NoneTwiceInOne
    <3>4. QED
      BY <2>3, <3>1, <3>2, <3>3 DEF AnswerIsFused, NoneTwice
  <2>4. ASSUME NEW out \in Outputs, output = {out}, answer.body = Fuse(det, out)
        PROVE  AnswerIsFused
    <3>1. out \in Output
      BY CompactAssumption
    <3> DEFINE body == Fuse(det, out)
    <3>2. LET IsIn(words, place) == words = <<>> \/ place = words
          IN  /\ body.metadata = det.metadata
              /\ det.style.palette # <<>> => body.style.palette = det.style.palette
              /\ \A i, j \in DOMAIN body.warnings : body.warnings[i] = body.warnings[j] => i = j
              /\ det.style.palette = <<>> => body.style.palette = out.palette
              /\ IsIn(out.summary, body.style.summary)
              /\ IsIn(out.visual_tone, body.style.visual_tone)
              /\ IsIn(out.typography, body.style.typography)
              /\ IsIn(out.composition, body.style.composition)
              /\ IsIn(out.elements, body.elements)
              /\ ToSet(out.warnings) = ToSet(body.warnings)
              /\ Words(body.style, body.elements, body.warnings) \subseteq
                    Words(det.style, det.elements, det.warnings)
                    \union Words(out, out.elements, out.warnings)
      BY <3>1, FusedIsVisible
    <3>3. answer.body = body /\ output # {} /\ \A o \in output : o = out
      BY <2>4
    <3> HIDE DEF body, det, warned
    <3>4. QED
      BY <3>2, <3>3 DEF AnswerIsFused, det
  <2>5. QED
    BY <2>1, <2>2, <2>3, <2>4 DEF Enriched
<1>2. QED
  BY <1>1, ParseInvHolds, ContentHolds, PTL
=============================================================================
