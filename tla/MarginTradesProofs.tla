------------------------- MODULE MarginTradesProofs -------------------------
(***************************************************************************)
(* The trades of a futures market.  The first part is about folds over     *)
(* finite sets; the second about what the operators of MarginTrades do to  *)
(* the fields of a trade; the third gives the invariant and its proof.     *)
(***************************************************************************)
EXTENDS MarginTrades, TLAPS, FiniteSetTheorems, WellFoundedInduction

-----------------------------------------------------------------------------
(***************************************************************************)
(* Folds and sums over finite sets.                                        *)
(***************************************************************************)

\* Induction on the subsets of a finite set
LEMMA SubsetInduction ==
  ASSUME NEW S, IsFiniteSet(S), NEW P,
         \A s \in SUBSET S : (\A x \in s : s \ {x} \in P) => s \in P
  PROVE  \A s \in SUBSET S : s \in P
<1> SUFFICES ASSUME NEW z \in SUBSET S, z \notin P PROVE FALSE
  OBVIOUS
<1> DEFINE T == (SUBSET S) \ P
<1>1. T \subseteq FiniteSubsetsOf(S) /\ T # {}
  BY FS_Subset DEF FiniteSubsetsOf
<1>2. PICK s \in T : \A t \in T : ~(<<t, s>> \in StrictSubsetOrdering(S))
  BY <1>1, FS_StrictSubsetOrderingWellFounded, WFMin
<1>3. ASSUME NEW x \in s, s \ {x} \notin P PROVE FALSE
  <2>1. s \in SUBSET S /\ s \ {x} \in SUBSET S /\ s \ {x} # s
    BY <1>3
  <2>2. <<s \ {x}, s>> \in (SUBSET S) \X (SUBSET S)
    BY <2>1
  <2>3. <<s \ {x}, s>> \in StrictSubsetOrdering(S)
    BY <2>1, <2>2 DEF StrictSubsetOrdering
  <2> QED
    BY <1>2, <1>3, <2>1, <2>3
<1> QED
  BY <1>2, <1>3

\* The first of a set, and what a fold over s is when f gives those over its subsets
First(s) == CHOOSE i \in s : TRUE
FoldStep(g, b, f, s) == IF s = {} THEN b ELSE g[First(s)][f[s \ {First(s)}]]

\* The element that a fold takes first.
LEMMA FirstIn ==
  ASSUME NEW s, s # {}
  PROVE  First(s) \in s
  BY DEF First

\* There is a function that gives the folds over the subsets of S
FoldsOf(g, b, S, W) ==
  {f \in [SUBSET S -> W] : \A s \in SUBSET S : f[s] = FoldStep(g, b, f, s)}

LEMMA FoldsExist ==
  ASSUME NEW S, IsFiniteSet(S), NEW W, NEW b \in W, NEW g \in [S -> [W -> W]]
  PROVE  FoldsOf(g, b, S, W) # {}
<1> DEFINE Given(f, s) == \A t \in SUBSET S : Cardinality(t) <= Cardinality(s) => f[t] = FoldStep(g, b, f, t)
           P == {s \in SUBSET S : \E f \in [SUBSET S -> W] : Given(f, s)}
<1>1. \A s \in SUBSET S : IsFiniteSet(s) /\ Cardinality(s) \in Nat /\ Cardinality(s) <= Cardinality(S)
  BY FS_Subset, FS_CardinalityType
<1>2. \A s \in SUBSET S : \A x \in s : Cardinality(s \ {x}) = Cardinality(s) - 1
  BY <1>1, FS_RemoveElement
<1>3. \A s \in SUBSET S : Cardinality(s) = 0 <=> s = {}
  BY <1>1, FS_EmptySet
<1>4. \A s \in SUBSET S : (\A x \in s : s \ {x} \in P) => s \in P
  <2> SUFFICES ASSUME NEW s \in SUBSET S, \A x \in s : s \ {x} \in P PROVE s \in P
    OBVIOUS
  <2>1. CASE s = {}
    <3> DEFINE f == [t \in SUBSET S |-> b]
    <3>1. ASSUME NEW t \in SUBSET S, Cardinality(t) <= Cardinality(s) PROVE f[t] = FoldStep(g, b, f, t)
      <4>1. t = {}
        BY <1>1, <1>3, <2>1, <3>1
      <4> QED
        BY <4>1 DEF FoldStep
    <3>2. f \in [SUBSET S -> W]
      OBVIOUS
    <3> HIDE DEF f
    <3> QED
      BY <3>1, <3>2
  <2>2. CASE s # {}
    <3>1. PICK x \in s : s \ {x} \in P
      BY <2>2
    <3>2. PICK h \in [SUBSET S -> W] : Given(h, s \ {x})
      BY <3>1
    <3> DEFINE f == [t \in SUBSET S |-> FoldStep(g, b, h, t)]
    <3>3. ASSUME NEW t \in SUBSET S, t # {}
          PROVE  First(t) \in S /\ t \ {First(t)} \in SUBSET S /\ First(t) \in t
      BY <3>3, FirstIn
    <3>4. f \in [SUBSET S -> W]
      BY <3>3 DEF FoldStep
    <3>5. \A t \in SUBSET S : f[t] = FoldStep(g, b, h, t)
      OBVIOUS
    <3> HIDE DEF f
    <3>6. ASSUME NEW t \in SUBSET S, Cardinality(t) <= Cardinality(s) PROVE f[t] = FoldStep(g, b, f, t)
      <4>1. CASE t = {}
        BY <3>5, <4>1 DEF FoldStep
      <4>2. CASE t # {}
        <5> DEFINE u == t \ {First(t)}
        <5>1. u \in SUBSET S /\ First(t) \in t
          BY <3>3, <4>2
        <5>2. Cardinality(u) <= Cardinality(s \ {x})
          <6>1. Cardinality(u) = Cardinality(t) - 1
            BY <1>2, <5>1
          <6>2. Cardinality(s \ {x}) = Cardinality(s) - 1
            BY <1>2
          <6> QED
            BY <1>1, <3>6, <6>1, <6>2
        <5> HIDE DEF u
        <5>3. h[u] = FoldStep(g, b, h, u)
          BY <3>2, <5>1, <5>2
        <5>4. f[u] = h[u]
          BY <3>5, <5>1, <5>3
        <5> QED
          BY <3>5, <4>2, <5>4 DEF FoldStep, u
      <4> QED
        BY <4>1, <4>2
    <3> QED
      BY <3>4, <3>6
  <2> QED
    BY <2>1, <2>2
<1>5. S \in P
  <2> HIDE DEF P
  <2>1. \A s \in SUBSET S : s \in P
    BY <1>4, SubsetInduction, Zenon
  <2> QED
    BY <2>1
<1>6. PICK f \in [SUBSET S -> W] : Given(f, S)
  BY <1>5
<1> QED
  BY <1>1, <1>6 DEF FoldsOf

\* A sum is such a fold.
Step(g, f, s) == IF s = {} THEN 0 ELSE g[First(s)] + f[s \ {First(s)}]

LEMMA SumsExist ==
  ASSUME NEW S, IsFiniteSet(S), NEW g \in [S -> Int]
  PROVE  \E f \in [SUBSET S -> Int] : \A s \in SUBSET S : f[s] = Step(g, f, s)
<1> DEFINE h == [i \in S |-> [k \in Int |-> g[i] + k]]
<1>1. h \in [S -> [Int -> Int]]
  OBVIOUS
<1>2. \A i \in S, k \in Int : h[i][k] = g[i] + k
  OBVIOUS
<1> HIDE DEF h
<1>3. 0 \in Int
  OBVIOUS
<1>4. FoldsOf(h, 0, S, Int) # {}
  BY <1>1, <1>3, FoldsExist
<1>6. PICK f \in [SUBSET S -> Int] : \A s \in SUBSET S : f[s] = FoldStep(h, 0, f, s)
  BY <1>4 DEF FoldsOf
<1>5. ASSUME NEW s \in SUBSET S PROVE f[s] = Step(g, f, s)
  <2>1. CASE s = {}
    BY <1>6, <2>1 DEF FoldStep, Step
  <2>2. CASE s # {}
    <3>1. First(s) \in S /\ s \ {First(s)} \in SUBSET S
      BY <2>2, FirstIn
    <3>2. f[s \ {First(s)}] \in Int
      BY <3>1
    <3>3. f[s] = h[First(s)][f[s \ {First(s)}]]
      BY <1>6, <2>2 DEF FoldStep
    <3> QED
      BY <1>2, <2>2, <3>1, <3>2, <3>3 DEF Step
  <2> QED
    BY <2>1, <2>2
<1> QED
  BY <1>5

\* The sum over a part of S is what such a function gives
LEMMA SumIs ==
  ASSUME NEW S, IsFiniteSet(S), NEW g \in [S -> Int], NEW f \in [SUBSET S -> Int],
         \A s \in SUBSET S : f[s] = Step(g, f, s), NEW R \in SUBSET S
  PROVE  Sum(g, R) = f[R]
<1> DEFINE F(h) == [s \in SUBSET R |-> IF s = {} THEN 0
                                     ELSE LET i == CHOOSE i \in s : TRUE
                                          IN  g[i] + h[s \ {i}]]
           sum == CHOOSE h : h = F(h)
           h == [s \in SUBSET R |-> f[s]]
<1>1. Sum(g, R) = sum[R]
  BY DEF Sum, MapThenFoldSet
<1>2. \A k : F(k) = [s \in SUBSET R |-> Step(g, k, s)]
  BY DEF Step, First
<1>3. h = F(h)
  <2>1. ASSUME NEW s \in SUBSET R PROVE h[s] = Step(g, h, s)
    <3>1. s \in SUBSET S /\ h[s] = f[s] /\ f[s] = Step(g, f, s)
      OBVIOUS
    <3>2. s # {} => h[s \ {First(s)}] = f[s \ {First(s)}]
      OBVIOUS
    <3> QED
      BY <3>1, <3>2 DEF Step
  <2>2. F(h) = [s \in SUBSET R |-> Step(g, h, s)]
    BY <1>2
  <2> QED
    BY <2>1, <2>2
<1> HIDE DEF F
<1>4. sum = F(sum)
  BY <1>3
<1> HIDE DEF sum, h
<1>5. \A s \in SUBSET R : sum[s] = Step(g, sum, s)
  <2>1. sum = [s \in SUBSET R |-> Step(g, sum, s)]
    BY <1>2, <1>4
  <2> QED
    BY <2>1
<1>6. IsFiniteSet(R)
  BY FS_Subset
<1> DEFINE P == {s \in SUBSET R : sum[s] = f[s]}
<1>7. \A s \in SUBSET R : (\A x \in s : s \ {x} \in P) => s \in P
  <2> SUFFICES ASSUME NEW s \in SUBSET R, \A x \in s : s \ {x} \in P PROVE sum[s] = f[s]
    OBVIOUS
  <2>1. s \in SUBSET S
    OBVIOUS
  <2>2. sum[s] = Step(g, sum, s) /\ f[s] = Step(g, f, s)
    BY <1>5, <2>1
  <2>3. s # {} => sum[s \ {First(s)}] = f[s \ {First(s)}]
    BY FirstIn
  <2> QED
    BY <2>2, <2>3 DEF Step
<1>8. R \in P
  <2> HIDE DEF P
  <2> QED
    BY <1>6, <1>7, SubsetInduction
<1> QED
  BY <1>1, <1>8

\* One element may be counted first, whichever it is
LEMMA SumElement ==
  ASSUME NEW S, IsFiniteSet(S), NEW g \in [S -> Int], NEW R \in SUBSET S
  PROVE  /\ Sum(g, R) \in Int
         /\ R = {} => Sum(g, R) = 0
         /\ \A x \in R : Sum(g, R) = g[x] + Sum(g, R \ {x})
<1>1. PICK f \in [SUBSET S -> Int] : \A s \in SUBSET S : f[s] = Step(g, f, s)
  BY SumsExist
<1>2. \A s \in SUBSET S : Sum(g, s) = f[s]
  BY <1>1, SumIs
<1> DEFINE P == {s \in SUBSET S : \A x \in s : f[s] = g[x] + f[s \ {x}]}
<1>3. \A s \in SUBSET S : (\A x \in s : s \ {x} \in P) => s \in P
  <2> SUFFICES ASSUME NEW s \in SUBSET S, \A x \in s : s \ {x} \in P, NEW x \in s
               PROVE  f[s] = g[x] + f[s \ {x}]
    OBVIOUS
  <2> DEFINE y == First(s)
             a == s \ {x}
             b == s \ {y}
             c == a \ {y}
  <2>1. y \in s /\ y \in S /\ x \in S
    BY FirstIn
  <2>2. f[s] = g[y] + f[b]
    BY <1>1 DEF Step
  <2>3. CASE x = y
    BY <2>2, <2>3
  <2>4. CASE x # y
    <3>1. a \in P /\ b \in P
      BY <2>1
    <3>2. f[a] = g[y] + f[c]
      BY <2>1, <2>4, <3>1
    <3>3. f[b] = g[x] + f[b \ {x}]
      BY <2>1, <2>4, <3>1
    <3>4. b \ {x} = c
      OBVIOUS
    <3>5. g[x] \in Int /\ g[y] \in Int /\ f[c] \in Int
      BY <2>1
    <3>6. \A p, q, r \in Int : p + (q + r) = q + (p + r)
      OBVIOUS
    <3>7. f[s] = g[y] + (g[x] + f[c])
      BY <2>2, <3>3, <3>4
    <3>8. f[s] = g[x] + (g[y] + f[c])
      BY <3>5, <3>6, <3>7
    <3> QED
      BY <3>2, <3>8
  <2> QED
    BY <2>3, <2>4
<1>4. \A s \in SUBSET S : s \in P
  <2> HIDE DEF P
  <2> QED
    BY <1>3, SubsetInduction
<1>5. f[{}] = 0
  BY <1>1 DEF Step
<1>6. \A x \in R : R \ {x} \in SUBSET S
  OBVIOUS
<1> QED
  BY <1>2, <1>4, <1>5, <1>6

\* The sum depends on the values counted only.
LEMMA SumSame ==
  ASSUME NEW R, NEW g, NEW h, \A i \in R : g[i] = h[i]
  PROVE  Sum(g, R) = Sum(h, R)
<1> DEFINE F(f) == [s \in SUBSET R |-> IF s = {} THEN 0
                                     ELSE LET i == CHOOSE i \in s : TRUE
                                          IN  g[i] + f[s \ {i}]]
           G(f) == [s \in SUBSET R |-> IF s = {} THEN 0
                                     ELSE LET i == CHOOSE i \in s : TRUE
                                          IN  h[i] + f[s \ {i}]]
<1>1. /\ Sum(g, R) = (CHOOSE f : f = F(f))[R]
      /\ Sum(h, R) = (CHOOSE f : f = G(f))[R]
  BY DEF Sum, MapThenFoldSet
<1>2. \A f : F(f) = [s \in SUBSET R |-> Step(g, f, s)] /\ G(f) = [s \in SUBSET R |-> Step(h, f, s)]
  BY DEF Step, First
<1>3. \A f : \A s \in SUBSET R : Step(g, f, s) = Step(h, f, s)
  <2> SUFFICES ASSUME NEW f, NEW s \in SUBSET R PROVE Step(g, f, s) = Step(h, f, s)
    OBVIOUS
  <2>1. s # {} => g[First(s)] = h[First(s)]
    BY FirstIn
  <2> QED
    BY <2>1 DEF Step
<1> HIDE DEF F, G
<1>4. \A f : F(f) = G(f)
  BY <1>2, <1>3
<1>5. (CHOOSE f : f = F(f)) = (CHOOSE f : f = G(f))
  BY <1>4
<1> QED
  BY <1>1, <1>5

\* One more element.
LEMMA SumGrows ==
  ASSUME NEW R, IsFiniteSet(R), NEW x, x \notin R, NEW g \in [R \union {x} -> Int]
  PROVE  Sum(g, R) \in Int /\ Sum(g, R \union {x}) = Sum(g, R) + g[x]
<1> DEFINE S == R \union {x}
<1>1. IsFiniteSet(S) /\ R \in SUBSET S /\ S \ {x} = R /\ x \in S /\ g[x] \in Int
  BY FS_AddElement
<1> HIDE DEF S
<1>2. g \in [S -> Int]
  BY DEF S
<1>3. Sum(g, R) \in Int
  BY <1>1, <1>2, SumElement
<1>4. Sum(g, S) = g[x] + Sum(g, R)
  BY <1>1, <1>2, SumElement
<1> QED
  BY <1>1, <1>3, <1>4 DEF S

\* Another value for one element.
LEMMA SumChanges ==
  ASSUME NEW R, IsFiniteSet(R), NEW x \in R, NEW g \in [R -> Int], NEW h \in [R -> Int],
         \A i \in R \ {x} : h[i] = g[i], NEW k \in Int, h[x] = g[x] + k
  PROVE  Sum(g, R) \in Int /\ Sum(h, R) = Sum(g, R) + k
<1> DEFINE gx == g[x]
           rest == Sum(g, R \ {x})
<1>1. R \ {x} \in SUBSET R /\ R \in SUBSET R
  OBVIOUS
<1>2. Sum(h, R \ {x}) = rest
  BY SumSame
<1>3. gx \in Int /\ rest \in Int /\ Sum(g, R) \in Int
  BY <1>1, SumElement
<1>4. Sum(g, R) = gx + rest
  BY <1>1, SumElement
<1>5. Sum(h, R) = (gx + k) + rest
  BY <1>1, <1>2, SumElement
<1> HIDE DEF gx, rest
<1> QED
  BY <1>3, <1>4, <1>5

-----------------------------------------------------------------------------
(***************************************************************************)
(* What the reports and the operations do to the fields of a trade.        *)
(***************************************************************************)

\* u and v have the same fields, those of the leg l excepted.
SameOthers(u, v, l) ==
    /\ \A k \in Legs \ {l} : v.oid[k] = u.oid[k]
    /\ \A k \in ExitLegs \ {l} : v.qty[k] = u.qty[k] /\ v.exec[k] = u.exec[k]

\* What the user asked for and the flags of the trade.
SameFlags(u, v) ==
    /\ v.tp = u.tp /\ v.sl = u.sl /\ v.closing = u.closing
    /\ v.position = u.position /\ (u.blind => v.blind)

\* A leg that is reset names no order.
LEMMA ResetLegFacts ==
    ASSUME NEW u \in Trade, NEW l \in Legs
    PROVE  LET v == ResetLeg(u, l)
           IN  /\ v \in Trade /\ v.oid[l] = None
               /\ SameOthers(u, v, l) /\ SameFlags(u, v)
               /\ v.entry = u.entry /\ v.exit = u.exit
               /\ v.e = u.e /\ v.x = u.x /\ v.dirty = u.dirty /\ v.blind = u.blind
<1> DEFINE v == ResetLeg(u, l)
<1>1. CASE l = "create"
  <2>1. v = [u EXCEPT !.oid[l] = None]
    BY <1>1 DEF ResetLeg
  <2> HIDE DEF v
  <2>2. v \in Trade
    BY <2>1, MarginAssumption DEF Trade, Legs, None, MarginAssumption
  <2>3. v.oid[l] = None /\ (\A k \in Legs \ {l} : v.oid[k] = u.oid[k]) /\ v.qty = u.qty /\ v.exec = u.exec
    BY <2>1 DEF Trade, Legs
  <2>4. /\ v.entry = u.entry /\ v.exit = u.exit /\ v.e = u.e /\ v.x = u.x /\ v.dirty = u.dirty
        /\ v.tp = u.tp /\ v.sl = u.sl /\ v.closing = u.closing /\ v.position = u.position /\ v.blind = u.blind
    BY <2>1 DEF Trade
  <2> QED
    BY <2>2, <2>3, <2>4 DEF v, SameOthers, SameFlags
<1>2. CASE l # "create"
  <2>1. v = [u EXCEPT !.oid[l] = None, !.qty[l] = 0, !.exec[l] = 0]
    BY <1>2 DEF ResetLeg
  <2>0. l \in ExitLegs
    BY <1>2 DEF Legs, ExitLegs
  <2> HIDE DEF v
  <2>2. v \in Trade
    <3>0. /\ u.oid \in [Legs -> 0..MaxOrders] /\ u.qty \in [ExitLegs -> Nat]
          /\ u.exec \in [ExitLegs -> Nat] /\ None \in 0..MaxOrders /\ 0 \in Nat
      BY MarginAssumption DEF Trade, None, MarginAssumption
    <3>1. /\ [u.oid EXCEPT ![l] = None] \in [Legs -> 0..MaxOrders]
          /\ [u.qty EXCEPT ![l] = 0] \in [ExitLegs -> Nat]
          /\ [u.exec EXCEPT ![l] = 0] \in [ExitLegs -> Nat]
      BY <3>0
    <3>2. v = [u EXCEPT !.oid = [u.oid EXCEPT ![l] = None], !.qty = [u.qty EXCEPT ![l] = 0],
                        !.exec = [u.exec EXCEPT ![l] = 0]]
      BY <2>1
    <3> QED
      BY <3>1, <3>2 DEF Trade
  <2>3. /\ v.oid[l] = None /\ (\A k \in Legs \ {l} : v.oid[k] = u.oid[k])
        /\ \A k \in ExitLegs \ {l} : v.qty[k] = u.qty[k] /\ v.exec[k] = u.exec[k]
    BY <2>0, <2>1 DEF Trade, Legs
  <2>4. /\ v.entry = u.entry /\ v.exit = u.exit /\ v.e = u.e /\ v.x = u.x /\ v.dirty = u.dirty
        /\ v.tp = u.tp /\ v.sl = u.sl /\ v.closing = u.closing /\ v.position = u.position /\ v.blind = u.blind
    BY <2>1 DEF Trade
  <2> QED
    BY <2>2, <2>3, <2>4 DEF v, SameOthers, SameFlags
<1> QED
  BY <1>1, <1>2

LEMMA BlindResetFacts ==
    ASSUME NEW u \in Trade, NEW l \in Legs
    PROVE  LET v == BlindReset(u, l)
           IN  /\ v \in Trade /\ v.oid[l] = None /\ v.blind
               /\ SameOthers(u, v, l) /\ SameFlags(u, v)
               /\ v.entry = u.entry /\ v.exit = u.exit
               /\ v.e = u.e /\ v.x = u.x /\ v.dirty = u.dirty
<1> DEFINE r == ResetLeg(u, l)
           v == BlindReset(u, l)
<1>1. /\ r \in Trade /\ r.oid[l] = None
      /\ SameOthers(u, r, l) /\ SameFlags(u, r)
      /\ r.entry = u.entry /\ r.exit = u.exit
      /\ r.e = u.e /\ r.x = u.x /\ r.dirty = u.dirty
  BY ResetLegFacts
<1>2. v = [r EXCEPT !.blind = TRUE]
  BY DEF BlindReset
<1> HIDE DEF r, v
<1>3. /\ v \in Trade /\ v.blind /\ v.entry = r.entry /\ v.oid = r.oid /\ v.qty = r.qty
      /\ v.exec = r.exec /\ v.exit = r.exit /\ v.e = r.e /\ v.x = r.x /\ v.dirty = r.dirty
      /\ v.tp = r.tp /\ v.sl = r.sl /\ v.closing = r.closing /\ v.position = r.position
  BY <1>1, <1>2 DEF Trade
<1> QED
  BY <1>1, <1>3 DEF v, SameOthers, SameFlags

\* An execution of the entry order.
LEMMA EntryTradedFacts ==
    ASSUME NEW u \in Trade, NEW q \in Nat, NEW cum \in Nat, NEW full \in BOOLEAN
    PROVE  LET v == EntryTraded(u, q, cum, full)
           IN  /\ v \in Trade /\ v.e = cum /\ v.x = u.x /\ v.exit = u.exit
               /\ SameOthers(u, v, "create") /\ SameFlags(u, v)
               /\ v.dirty <=> u.dirty \/ cum > u.e
               /\ IF cum >= q \/ full THEN v.entry = "filled" /\ v.oid["create"] = None
                  ELSE v.entry = "partially_filled" /\ v.oid["create"] = u.oid["create"]
<1> DEFINE d == u.dirty \/ cum > u.e
           w == [u EXCEPT !.e = cum, !.dirty = @ \/ cum > u.e]
<1>1. w = [u EXCEPT !.e = cum, !.dirty = d]
  OBVIOUS
<1>2. d \in BOOLEAN
  OBVIOUS
<1>3. w \in Trade /\ w.e = cum /\ w.dirty = d
  <2> HIDE DEF d, w
  <2> QED
    BY <1>1, <1>2 DEF Trade
<1>4. /\ w.oid = u.oid /\ w.qty = u.qty /\ w.exec = u.exec /\ w.x = u.x /\ w.exit = u.exit
      /\ w.tp = u.tp /\ w.sl = u.sl /\ w.closing = u.closing /\ w.position = u.position /\ w.blind = u.blind
  <2> HIDE DEF d, w
  <2> QED
    BY <1>1 DEF Trade
<1> DEFINE v == EntryTraded(u, q, cum, full)
<1> HIDE DEF d, w
<1>5. v = IF cum >= q \/ full THEN [ResetLeg(w, "create") EXCEPT !.entry = "filled"]
          ELSE [w EXCEPT !.entry = "partially_filled"]
  BY DEF EntryTraded, w
<1> HIDE DEF v
<1>6. CASE cum >= q \/ full
  <2> DEFINE r == ResetLeg(w, "create")
  <2>1. /\ r \in Trade /\ r.oid["create"] = None
        /\ SameOthers(w, r, "create") /\ SameFlags(w, r)
        /\ r.exit = w.exit /\ r.e = w.e /\ r.x = w.x /\ r.dirty = w.dirty
    BY <1>3, ResetLegFacts DEF Legs
  <2>2. v = [r EXCEPT !.entry = "filled"]
    BY <1>5, <1>6
  <2> HIDE DEF r
  <2>3. /\ v \in Trade /\ v.entry = "filled" /\ v.oid = r.oid /\ v.qty = r.qty /\ v.exec = r.exec
        /\ v.exit = r.exit /\ v.e = r.e /\ v.x = r.x /\ v.dirty = r.dirty
        /\ v.tp = r.tp /\ v.sl = r.sl /\ v.closing = r.closing /\ v.position = r.position /\ v.blind = r.blind
    BY <2>1, <2>2 DEF Trade
  <2>4. v.dirty <=> u.dirty \/ cum > u.e
    BY <1>3, <2>1, <2>3 DEF d
  <2> QED
    BY <1>3, <1>4, <1>6, <2>1, <2>3, <2>4 DEF v, SameOthers, SameFlags
<1>7. CASE ~(cum >= q \/ full)
  <2>2. v = [w EXCEPT !.entry = "partially_filled"]
    BY <1>5, <1>7
  <2>3. /\ v \in Trade /\ v.entry = "partially_filled" /\ v.oid = w.oid /\ v.qty = w.qty /\ v.exec = w.exec
        /\ v.exit = w.exit /\ v.e = w.e /\ v.x = w.x /\ v.dirty = w.dirty
        /\ v.tp = w.tp /\ v.sl = w.sl /\ v.closing = w.closing /\ v.position = w.position /\ v.blind = w.blind
    BY <1>3, <2>2 DEF Trade
  <2>4. v.dirty <=> u.dirty \/ cum > u.e
    BY <1>3, <2>3 DEF d
  <2> QED
    BY <1>3, <1>4, <1>7, <2>3, <2>4 DEF v, SameOthers, SameFlags
<1> QED
  BY <1>6, <1>7

LEMMA ExitStateFacts ==
    ASSUME NEW u, NEW q, NEW x, NEW full
    PROVE  ExitState(u, q, x, full) \in {"filled", "partially_filled"}
BY DEF ExitState

\* What an execution of an exit order adds.
Gain(u, l, cum, filled) == IF cum > u.exec[l] THEN cum - u.exec[l] ELSE filled

\* v is u after k more lots of the exit order of the leg l.
ExitCounted(u, q, l, k, full, v) ==
    /\ k \in Nat /\ v \in Trade /\ v.x = u.x + k
    /\ v.exit = ExitState(u, q, u.x + k, full)
    /\ v.entry = u.entry /\ v.e = u.e /\ v.dirty = u.dirty
    /\ SameOthers(u, v, l) /\ SameFlags(u, v)
    /\ IF u.exec[l] + k >= u.qty[l] \/ full THEN v.oid[l] = None
       ELSE /\ v.oid[l] = u.oid[l] /\ v.qty[l] = u.qty[l]
            /\ v.exec[l] = u.exec[l] + k

\* An execution of an exit order.
LEMMA ExitTradedFacts ==
    ASSUME NEW u \in Trade, NEW q \in Nat, NEW l \in ExitLegs, NEW cum \in Nat,
           NEW filled \in Nat, NEW full \in BOOLEAN
    PROVE  ExitCounted(u, q, l, Gain(u, l, cum, filled), full,
                       ExitTraded(u, q, l, cum, filled, full))
<1> DEFINE k == Gain(u, l, cum, filled)
           s == ExitState(u, q, u.x + k, full)
           w == [u EXCEPT !.x = @ + k, !.exec[l] = @ + k, !.exit = s]
           v == ExitTraded(u, q, l, cum, filled, full)
<1>0. l \in Legs /\ u.exec[l] \in Nat /\ u.x \in Nat /\ u.exec \in [ExitLegs -> Nat]
  BY DEF Trade, Legs, ExitLegs
<1>1. k \in Nat
  BY <1>0 DEF Gain
<1>2. s \in {"filled", "partially_filled"}
  BY ExitStateFacts
<1>3. v = IF w.exec[l] >= w.qty[l] \/ full THEN ResetLeg(w, l) ELSE w
  BY DEF ExitTraded, Gain
<1> SUFFICES ExitCounted(u, q, l, k, full, v)
  OBVIOUS
<1> HIDE DEF k, s, v
<1>4. w = [u EXCEPT !.x = u.x + k, !.exec[l] = u.exec[l] + k, !.exit = s]
  OBVIOUS
<1> HIDE DEF w
<1>5. u.x + k \in Nat /\ [u.exec EXCEPT ![l] = u.exec[l] + k] \in [ExitLegs -> Nat]
  BY <1>0, <1>1
<1>6. w = [u EXCEPT !.x = u.x + k, !.exec = [u.exec EXCEPT ![l] = u.exec[l] + k], !.exit = s]
  BY <1>4
<1>7. w \in Trade
  BY <1>2, <1>5, <1>6 DEF Trade
<1>8. /\ w.x = u.x + k /\ w.exit = s /\ w.oid = u.oid /\ w.qty = u.qty /\ w.entry = u.entry /\ w.e = u.e
      /\ w.dirty = u.dirty /\ w.tp = u.tp /\ w.sl = u.sl /\ w.closing = u.closing /\ w.position = u.position /\ w.blind = u.blind
      /\ w.exec = [u.exec EXCEPT ![l] = u.exec[l] + k]
  BY <1>6 DEF Trade
<1>9. w.exec[l] = u.exec[l] + k /\ \A j \in ExitLegs \ {l} : w.exec[j] = u.exec[j]
  BY <1>0, <1>8
<1>10. CASE u.exec[l] + k >= u.qty[l] \/ full
  <2>1. v = ResetLeg(w, l)
    BY <1>3, <1>8, <1>9, <1>10
  <2>2. /\ v \in Trade /\ v.oid[l] = None
        /\ SameOthers(w, v, l) /\ SameFlags(w, v)
        /\ v.entry = w.entry /\ v.exit = w.exit
        /\ v.e = w.e /\ v.x = w.x /\ v.dirty = w.dirty
    BY <1>0, <1>7, <2>1, ResetLegFacts
  <2> QED
    BY <1>1, <1>8, <1>9, <1>10, <2>2 DEF s, ExitCounted, SameOthers, SameFlags
<1>11. CASE ~(u.exec[l] + k >= u.qty[l] \/ full)
  <2>1. v = w
    BY <1>3, <1>8, <1>9, <1>11
  <2>2. SameOthers(u, v, l) /\ SameFlags(u, v)
    BY <1>8, <1>9, <2>1 DEF SameOthers, SameFlags
  <2> QED
    BY <1>1, <1>7, <1>8, <1>9, <1>11, <2>1, <2>2 DEF s, ExitCounted
<1> QED
  BY <1>10, <1>11

\* The end of an order.
LEMMA EndedFacts ==
    ASSUME NEW u \in Trade, NEW l \in Legs, NEW kind \in {"deleted", "canceled"}
    PROVE  LET v == Ended(u, l, kind)
           IN  /\ v \in Trade /\ v.oid[l] = None
               /\ SameOthers(u, v, l) /\ SameFlags(u, v)
               /\ v.entry = IF l = "create" /\ u.e = 0 THEN kind ELSE u.entry
               /\ v.exit = u.exit /\ v.e = u.e /\ v.x = u.x /\ v.dirty = u.dirty
<1> DEFINE r == ResetLeg(u, l)
           v == Ended(u, l, kind)
<1>1. /\ r \in Trade /\ r.oid[l] = None
      /\ SameOthers(u, r, l) /\ SameFlags(u, r)
      /\ r.entry = u.entry /\ r.exit = u.exit
      /\ r.e = u.e /\ r.x = u.x /\ r.dirty = u.dirty
  BY ResetLegFacts
<1>2. v = IF l = "create" /\ u.e = 0 THEN [r EXCEPT !.entry = kind] ELSE r
  BY DEF Ended
<1> HIDE DEF r, v
<1>3. CASE l = "create" /\ u.e = 0
  <2>1. v = [r EXCEPT !.entry = kind]
    BY <1>2, <1>3
  <2>2. /\ v \in Trade /\ v.entry = kind /\ v.oid = r.oid /\ v.qty = r.qty /\ v.exec = r.exec
        /\ v.exit = r.exit /\ v.e = r.e /\ v.x = r.x /\ v.dirty = r.dirty
        /\ v.tp = r.tp /\ v.sl = r.sl /\ v.closing = r.closing /\ v.position = r.position /\ v.blind = r.blind
    BY <1>1, <2>1 DEF Trade
  <2> QED
    BY <1>1, <1>3, <2>2 DEF v, SameOthers, SameFlags
<1>4. CASE ~(l = "create" /\ u.e = 0)
  BY <1>1, <1>2, <1>4 DEF v
<1> QED
  BY <1>3, <1>4

\* The position is gone.
LEMMA PositionDeletedFacts ==
    ASSUME NEW u \in Trade
    PROVE  LET v == PositionDeleted(u)
           IN  /\ v \in Trade /\ v.oid = u.oid
               /\ u.e = 0 => v = u
               /\ u.e > 0 => v.exit = "filled" /\ v.e = u.e
<1>1. CASE u.e = 0
  BY <1>1 DEF PositionDeleted
<1>2. CASE u.e # 0
  <2> DEFINE x == IF u.x < u.e THEN u.e ELSE u.x
             v == PositionDeleted(u)
  <2>1. v = [u EXCEPT !.position = FALSE, !.x = x, !.exit = "filled"]
    BY <1>2 DEF PositionDeleted
  <2>2. x \in Nat
    BY DEF Trade
  <2> HIDE DEF x, v
  <2>3. v \in Trade /\ v.oid = u.oid /\ v.exit = "filled" /\ v.e = u.e
    BY <2>1, <2>2 DEF Trade
  <2> QED
    BY <1>2, <2>3 DEF v
<1> QED
  BY <1>1, <1>2
-----------------------------------------------------------------------------
(***************************************************************************)
(* The books of one trade u, the trade t, with the orders os of the        *)
(* exchange and the reports c on their way.                                *)
(***************************************************************************)

\* The reports that end an order.
Ends == {"deleted", "canceled"}

Executes(r, n) == r.kind = "traded" /\ r.id = n

ReportOK(r, os) ==
    r.kind \in OrderReports =>
        /\ r.id \in 1..Len(os)
        /\ r.kind = "traded" => /\ 0 < r.cum /\ r.cum <= os[r.id].filled
                                /\ r.full => r.cum = os[r.id].qty
        /\ r.kind \in Ends => os[r.id].status # "live"

\* b may follow a: an order executes more and more, and no more once it ended.
Follows(a, b) ==
    b.kind = "traded" /\ a.kind \in OrderReports /\ a.id = b.id =>
        a.kind \notin Ends /\ (a.kind = "traded" => a.cum < b.cum)

Reports(c, os) ==
    /\ \A i \in 1..Len(c) : ReportOK(c[i], os)
    /\ \A i, j \in 1..Len(c) : i < j => Follows(c[i], c[j])

\* An order executed to its last lot is closed, and no other.
OrderOK(o) ==
    /\ o \in Order
    /\ o.filled <= o.qty
    /\ o.filled = o.qty <=> o.status = "closed"
    /\ o.leg = "create" => o.qty = Quantity[o.trade]

\* A leg names an order of its trade.
Named(u, t, os) ==
    \A l \in Legs : u.oid[l] # None =>
        /\ u.oid[l] \in 1..Len(os)
        /\ os[u.oid[l]].trade = t /\ os[u.oid[l]].leg = l

\* What a leg has counted of its order.
Counted(u, l) == IF l = "create" THEN u.e ELSE u.exec[l]

LegOK(u, l, os, c) ==
    LET n == u.oid[l]
    IN  n # None =>
          /\ l # "create" => u.qty[l] = os[n].qty
          /\ Counted(u, l) <= os[n].filled
          /\ \A i \in 1..Len(c) : Executes(c[i], n) => Counted(u, l) < c[i].cum
          /\ \/ Counted(u, l) = os[n].filled
             \/ \E i \in 1..Len(c) : Executes(c[i], n) /\ c[i].cum = os[n].filled

\* A live order has a leg, unless a leg was reset without an answer on its order.
Held(u, t, os) ==
    ~u.blind => \A n \in 1..Len(os) :
        os[n].trade = t /\ os[n].status = "live" => u.oid[os[n].leg] = n

Entered(u, t, os) ==
    \E m \in 1..Len(os) :
        /\ os[m].trade = t /\ os[m].leg = "create"
        /\ \A n \in 1..Len(os) : os[n].trade = t /\ os[n].leg = "create" => n = m
        /\ u.e <= os[m].filled
        /\ ~u.blind /\ u.oid["create"] = None => u.e = os[m].filled

Uncounted(u, l, os) ==
    IF u.oid[l] = None THEN 0 ELSE os[u.oid[l]].filled - u.exec[l]

\* What the exit orders executed is counted, or their legs will count it.
Exited(u, t, os) ==
    LET k == u.x + Uncounted(u, "stop", os) + Uncounted(u, "limit", os)
    IN  k <= TotalOf(os, t, ExitLegs) /\ (~u.blind => k = TotalOf(os, t, ExitLegs))

States(u, t) ==
    /\ u.position
    /\ u.entry \in {"partially_filled", "filled"} <=> u.e > 0
    /\ u.oid["create"] # None => /\ u.entry # "filled" /\ u.exit # "filled"
                                 /\ u.e < Quantity[t]
    /\ ~u.closing => /\ u.oid["limit"] # None => u.tp
                     /\ u.oid["stop"] # None => u.sl

Covering(u) ==
    /\ u.exit = "filled" => u.x >= u.e \/ u.entry = "partially_filled"
    /\ ~u.dirty /\ ~u.closing /\ IsActive(u) =>
          \A l \in ExitLegs : u.oid[l] # None => u.qty[l] - u.exec[l] >= u.e - u.x

EmptiedOf(os, t) ==
    \E n \in DOMAIN os : /\ os[n].trade = t /\ os[n].leg \in ExitLegs
                         /\ os[n].status = "closed"

\* The trade against its orders, the reports on their way left aside.
Core(u, t, os) ==
    /\ Held(u, t, os) /\ Entered(u, t, os) /\ Exited(u, t, os) /\ States(u, t)
    /\ ~EmptiedOf(os, t) => Covering(u)

Books(u, t, os, c) == Core(u, t, os) /\ \A l \in Legs : LegOK(u, l, os, c)

OrdersOK(os) ==
    /\ os \in Seq(Order) /\ Len(os) <= MaxOrders
    /\ \A n \in 1..Len(os) : OrderOK(os[n])

\* An order is one of the orders, with a number of lots of each kind.
LEMMA OrderFacts ==
    ASSUME NEW os, OrdersOK(os), NEW n \in 1..Len(os)
    PROVE  /\ os[n] \in Order /\ OrderOK(os[n]) /\ Len(os) \in Nat /\ DOMAIN os = 1..Len(os)
           /\ os[n].qty \in Nat /\ os[n].filled \in Nat /\ os[n].filled <= os[n].qty
           /\ os[n].leg \in Legs /\ os[n].trade \in Trades
           /\ os[n].status \in {"live", "closed", "canceled"}
<1>1. os \in Seq(Order)
  BY DEF OrdersOK
<1>2. os[n] \in Order /\ Len(os) \in Nat /\ DOMAIN os = 1..Len(os)
  BY <1>1
<1>3. OrderOK(os[n])
  BY DEF OrdersOK
<1> QED
  BY <1>2, <1>3 DEF Order, OrderOK

\* What orders executed is a number.
LEMMA TotalInt ==
    ASSUME NEW os, OrdersOK(os), NEW t, NEW legs
    PROVE  TotalOf(os, t, legs) \in Int
<1> DEFINE f == [n \in DOMAIN os |-> os[n].filled]
           R == {n \in DOMAIN os : os[n].trade = t /\ os[n].leg \in legs}
<1>1. DOMAIN os = 1..Len(os) /\ Len(os) \in Nat
  BY DEF OrdersOK
<1>2. IsFiniteSet(DOMAIN os)
  BY <1>1, FS_Interval
<1>3. f \in [DOMAIN os -> Int] /\ R \in SUBSET DOMAIN os
  BY <1>1, OrderFacts
<1>4. TotalOf(os, t, legs) = Sum(f, R)
  BY DEF TotalOf
<1> HIDE DEF f, R
<1>5. Sum(f, R) \in Int
  BY <1>2, <1>3, SumElement
<1> QED
  BY <1>4, <1>5

LEMMA TradeFacts ==
    ASSUME NEW u \in Trade
    PROVE  /\ u.e \in Nat /\ u.x \in Nat
           /\ \A l \in Legs : u.oid[l] \in 0..MaxOrders
           /\ \A l \in ExitLegs : u.qty[l] \in Nat /\ u.exec[l] \in Nat
           /\ \A t \in Trades : Quantity[t] \in Nat /\ Quantity[t] > 0
           /\ ExitLegs \subseteq Legs /\ "create" \in Legs \ ExitLegs /\ MaxOrders \in Nat
           /\ Legs \ {"create"} = ExitLegs
BY MarginAssumption DEF Trade, MarginAssumption, Legs, ExitLegs

\* k more lots of an exit order are counted, or it is dropped when all are.
LEMMA CountExit ==
    ASSUME NEW u \in Trade, NEW v \in Trade, NEW t \in Trades, NEW os, OrdersOK(os),
           Named(u, t, os), Core(u, t, os),
           NEW l \in ExitLegs, u.oid[l] # None, NEW k \in Nat, NEW full \in BOOLEAN,
           u.exec[l] + k <= os[u.oid[l]].filled,
           \A j \in ExitLegs : u.oid[j] # None => u.exec[j] <= u.qty[j],
           u.exec[l] + k <= u.qty[l],
           SameOthers(u, v, l), SameFlags(u, v),
           v.x = u.x + k, v.entry = u.entry, v.e = u.e, v.dirty = u.dirty,
           full => EmptiedOf(os, t),
           \/ v.exit = u.exit /\ k = 0
           \/ v.exit = ExitState(u, Quantity[t], u.x + k, full),
           \/ /\ v.oid[l] = None /\ u.exec[l] + k = os[u.oid[l]].filled
              /\ os[u.oid[l]].status # "live"
           \/ v.oid[l] = u.oid[l] /\ v.qty[l] = u.qty[l] /\ v.exec[l] = u.exec[l] + k
    PROVE  Core(v, t, os) /\ Named(v, t, os)
<1> DEFINE n == u.oid[l]
<1>1. l \in Legs /\ l # "create" /\ n \in 1..Len(os) /\ os[n].trade = t /\ os[n].leg = l
  BY TradeFacts DEF Named, Legs, ExitLegs
<1>2. \A j \in Legs \ {l} : v.oid[j] = u.oid[j]
  BY DEF SameOthers
<1>3. Held(u, t, os) /\ Entered(u, t, os) /\ Exited(u, t, os) /\ States(u, t)
  BY DEF Core
<1>4. v.oid[l] \in {None, n} /\ (v.oid[l] = None => os[n].status # "live")
  BY DEF None
<1>5. Held(v, t, os)
  <2> SUFFICES ASSUME ~v.blind, NEW m \in 1..Len(os), os[m].trade = t, os[m].status = "live"
               PROVE  v.oid[os[m].leg] = m
    BY DEF Held
  <2>1. u.oid[os[m].leg] = m /\ os[m].leg \in Legs
    BY <1>3, OrderFacts DEF Held, SameFlags
  <2>2. CASE os[m].leg = l
    BY <1>4, <2>1, <2>2
  <2>3. CASE os[m].leg # l
    BY <1>2, <2>1, <2>3
  <2> QED
    BY <2>2, <2>3
<1>6. Named(v, t, os)
  BY <1>1, <1>2, <1>4 DEF Named
<1>7. Entered(v, t, os)
  <2>1. v.oid["create"] = u.oid["create"]
    BY <1>1, <1>2, TradeFacts
  <2> QED
    BY <1>3, <2>1 DEF Entered, SameFlags
<1>8. Exited(v, t, os)
  <2> DEFINE a == u.oid["stop"]
             b == u.oid["limit"]
  <2>1. \A j \in ExitLegs : u.oid[j] # None => u.oid[j] \in 1..Len(os)
    BY TradeFacts DEF Named
  <2>2. \A m \in 1..Len(os) : os[m].filled \in Nat
    BY OrderFacts
  <2>3. \A j \in ExitLegs : Uncounted(u, j, os) \in Int
    <3> SUFFICES ASSUME NEW j \in ExitLegs PROVE Uncounted(u, j, os) \in Int
      OBVIOUS
    <3>1. u.exec[j] \in Nat
      BY TradeFacts
    <3>2. CASE u.oid[j] = None
      BY <3>2 DEF Uncounted
    <3>3. CASE u.oid[j] # None
      <4>1. os[u.oid[j]].filled \in Nat
        BY <2>1, <2>2, <3>3
      <4> QED
        BY <3>1, <3>3, <4>1 DEF Uncounted
    <3> QED
      BY <3>2, <3>3
  <2>4. Uncounted(v, l, os) = Uncounted(u, l, os) - k
    <3>1. u.exec[l] \in Nat /\ os[n].filled \in Nat
      BY <1>1, <2>2, TradeFacts
    <3>2. Uncounted(u, l, os) = os[n].filled - u.exec[l]
      BY DEF Uncounted
    <3>3. CASE v.oid[l] = None /\ u.exec[l] + k = os[n].filled
      BY <3>1, <3>2, <3>3 DEF Uncounted
    <3>4. CASE v.oid[l] = n /\ v.exec[l] = u.exec[l] + k
      BY <3>1, <3>2, <3>4 DEF Uncounted
    <3> QED
      BY <3>3, <3>4
  <2>5. \A j \in ExitLegs \ {l} : Uncounted(v, j, os) = Uncounted(u, j, os)
    BY <1>2, TradeFacts DEF Uncounted, SameOthers
  <2>6. u.x \in Nat
    BY TradeFacts
  <2>9. v.x + Uncounted(v, "stop", os) + Uncounted(v, "limit", os)
        = u.x + Uncounted(u, "stop", os) + Uncounted(u, "limit", os) => Exited(v, t, os)
    BY <1>3 DEF Exited, SameFlags
  <2>7. CASE l = "stop"
    <3>1. Uncounted(v, "limit", os) = Uncounted(u, "limit", os) /\ Uncounted(v, "stop", os) = Uncounted(u, "stop", os) - k
          /\ Uncounted(u, "limit", os) \in Int /\ Uncounted(u, "stop", os) \in Int
      BY <2>3, <2>4, <2>5, <2>7 DEF ExitLegs
    <3> QED
      BY <2>6, <2>9, <3>1
  <2>8. CASE l = "limit"
    <3>1. Uncounted(v, "stop", os) = Uncounted(u, "stop", os) /\ Uncounted(v, "limit", os) = Uncounted(u, "limit", os) - k
          /\ Uncounted(u, "limit", os) \in Int /\ Uncounted(u, "stop", os) \in Int
      BY <2>3, <2>4, <2>5, <2>8 DEF ExitLegs
    <3> QED
      BY <2>6, <2>9, <3>1
  <2> QED
    BY <2>7, <2>8 DEF ExitLegs
<1>9. v.oid["create"] = u.oid["create"]
  BY <1>1, <1>2, TradeFacts
<1>10. States(v, t)
  <2>1. u.oid["create"] # None => v.exit # "filled"
    BY <1>3 DEF States, ExitState
  <2>2. \A j \in ExitLegs : v.oid[j] # None => u.oid[j] # None
    BY <1>2, <1>4, TradeFacts
  <2> QED
    BY <1>3, <1>9, <2>1, <2>2 DEF States, SameFlags, ExitLegs
<1>11. ASSUME ~EmptiedOf(os, t) PROVE Covering(v)
  <2>1. Covering(u) /\ ~full
    BY <1>11 DEF Core
  <2>2. u.x \in Nat /\ u.e \in Nat /\ v.x \in Nat /\ v.x >= u.x
    BY TradeFacts
  <2>3. u.entry \notin {"partially_filled", "filled"} => u.e = 0
    BY <1>3, <2>2 DEF States
  <2>4. ASSUME v.exit = "filled" PROVE v.x >= v.e \/ v.entry = "partially_filled"
    <3>1. CASE v.exit = u.exit
      BY <2>1, <2>2, <2>4, <3>1 DEF Covering
    <3>2. CASE v.exit = ExitState(u, Quantity[t], u.x + k, full)
      BY <2>1, <2>2, <2>3, <2>4, <3>2 DEF ExitState
    <3> QED
      BY <3>1, <3>2
  <2>5. ASSUME ~v.dirty, ~v.closing, IsActive(v), NEW j \in ExitLegs, v.oid[j] # None
        PROVE  v.qty[j] - v.exec[j] >= v.e - v.x
    <3>1. u.oid[j] # None /\ v.qty[j] = u.qty[j] /\ v.exec[j] = IF j = l THEN u.exec[j] + k ELSE u.exec[j]
      BY <1>2, <1>4, <2>5, TradeFacts DEF SameOthers
    <3>2. u.qty[j] \in Nat /\ u.exec[j] \in Nat /\ v.exec[j] <= u.qty[j]
      BY <3>1, TradeFacts
    <3>3. CASE u.exit # "filled"
      <4>1. IsActive(u) /\ ~u.dirty /\ ~u.closing
        BY <2>5, <3>3 DEF IsActive, IsClosed, SameFlags
      <4>2. u.qty[j] - u.exec[j] >= u.e - u.x
        BY <2>1, <3>1, <4>1 DEF Covering
      <4> QED
        BY <2>2, <3>1, <3>2, <4>2
    <3>4. CASE u.exit = "filled"
      <4>1. v.exit # "filled" /\ v.exit = ExitState(u, Quantity[t], u.x + k, full)
        BY <2>5, <3>4 DEF IsActive, IsClosed
      <4>2. u.oid["create"] = None
        BY <1>3, <3>4 DEF States
      <4>3. u.entry = "filled"
        BY <4>1, <4>2 DEF ExitState
      <4>4. u.x >= u.e
        BY <2>1, <3>4, <4>3 DEF Covering
      <4> QED
        BY <2>2, <3>1, <3>2, <4>4
    <3> QED
      BY <3>3, <3>4
  <2> QED
    BY <2>4, <2>5 DEF Covering
<1> QED
  BY <1>5, <1>6, <1>7, <1>8, <1>10, <1>11 DEF Core

\* More lots of the entry order are counted, or it is dropped when all are.
LEMMA CountEntry ==
    ASSUME NEW u \in Trade, NEW v \in Trade, NEW t \in Trades, NEW os, OrdersOK(os),
           Named(u, t, os), Core(u, t, os), u.oid["create"] # None,
           u.e <= v.e, v.e <= os[u.oid["create"]].filled,
           SameOthers(u, v, "create"), SameFlags(u, v), v.x = u.x, v.exit = u.exit,
           v.e > u.e => v.dirty, v.e = u.e => v.dirty = u.dirty,
           v.entry \in {"partially_filled", "filled"} <=> v.e > 0,
           v.e = u.e => v.entry = u.entry \/ v.entry \notin {"partially_filled", "filled"},
           \/ /\ v.oid["create"] = None /\ v.e = os[u.oid["create"]].filled
              /\ os[u.oid["create"]].status # "live"
           \/ /\ v.oid["create"] = u.oid["create"] /\ v.e < Quantity[t]
              /\ v.entry # "filled"
    PROVE  Core(v, t, os) /\ Named(v, t, os)
<1> DEFINE n == u.oid["create"]
<1>1. n \in 1..Len(os) /\ os[n].trade = t /\ os[n].leg = "create"
  BY TradeFacts DEF Named
<1>2. /\ \A j \in ExitLegs : v.oid[j] = u.oid[j] /\ v.qty[j] = u.qty[j] /\ v.exec[j] = u.exec[j]
      /\ \A j \in Legs \ {"create"} : v.oid[j] = u.oid[j]
  BY TradeFacts DEF SameOthers
<1>3. Held(u, t, os) /\ Entered(u, t, os) /\ Exited(u, t, os) /\ States(u, t)
  BY DEF Core
<1>4. v.oid["create"] \in {None, n} /\ (v.oid["create"] = None => os[n].status # "live" /\ v.e = os[n].filled)
  BY DEF None
<1>5. Held(v, t, os)
  <2> SUFFICES ASSUME ~v.blind, NEW m \in 1..Len(os), os[m].trade = t, os[m].status = "live"
               PROVE  v.oid[os[m].leg] = m
    BY DEF Held
  <2>1. u.oid[os[m].leg] = m /\ os[m].leg \in Legs
    BY <1>3, OrderFacts DEF Held, SameFlags
  <2>2. CASE os[m].leg = "create"
    BY <1>4, <2>1, <2>2
  <2>3. CASE os[m].leg # "create"
    BY <1>2, <2>1, <2>3
  <2> QED
    BY <2>2, <2>3
<1>6. Named(v, t, os)
  BY <1>1, <1>2, <1>4 DEF Named
<1>7. Entered(v, t, os)
  <2>1. PICK m \in 1..Len(os) : /\ os[m].trade = t /\ os[m].leg = "create"
                                /\ \A k \in 1..Len(os) : os[k].trade = t /\ os[k].leg = "create" => k = m
    BY <1>3 DEF Entered
  <2>2. m = n
    BY <1>1, <2>1
  <2> QED
    BY <1>4, <2>1, <2>2 DEF Entered
<1>8. Exited(v, t, os)
  <2>1. Uncounted(v, "stop", os) = Uncounted(u, "stop", os) /\ Uncounted(v, "limit", os) = Uncounted(u, "limit", os)
    BY <1>2 DEF Uncounted, ExitLegs
  <2> QED
    BY <1>3, <2>1 DEF Exited, SameFlags
<1>9. u.exit # "filled"
  BY <1>3 DEF States
<1>10. States(v, t)
  <2>1. v.oid["create"] # None => v.e < Quantity[t] /\ v.entry # "filled"
    BY <1>1, TradeFacts DEF None
  <2>2. /\ v.position /\ (v.entry \in {"partially_filled", "filled"} <=> v.e > 0)
        /\ v.exit # "filled"
    BY <1>3, <1>9 DEF States, SameFlags
  <2>3. ~v.closing => /\ v.oid["limit"] # None => v.tp
                      /\ v.oid["stop"] # None => v.sl
    BY <1>2, <1>3 DEF States, SameFlags, ExitLegs
  <2> QED
    BY <2>1, <2>2, <2>3 DEF States
<1>11. ASSUME ~EmptiedOf(os, t) PROVE Covering(v)
  <2>1. Covering(u)
    BY <1>11 DEF Core
  <2>2. ASSUME ~v.dirty, ~v.closing, IsActive(v), NEW j \in ExitLegs, v.oid[j] # None
        PROVE  v.qty[j] - v.exec[j] >= v.e - v.x
    <3>1. v.e = u.e /\ ~u.dirty /\ ~u.closing
      BY <2>2, TradeFacts DEF SameFlags
    <3>2. IsActive(u)
      BY <2>2, <3>1 DEF IsActive, IsClosed
    <3> QED
      BY <1>2, <2>1, <2>2, <3>1, <3>2 DEF Covering
  <2> QED
    BY <1>9, <2>2 DEF Covering
<1> QED
  BY <1>5, <1>6, <1>7, <1>8, <1>10, <1>11 DEF Core

\* A leg that was dropped leaves the others as they were.
LEMMA LegsKept ==
    ASSUME NEW u \in Trade, NEW v \in Trade, NEW l \in Legs, NEW os, NEW c,
           \A k \in Legs \ {l} : LegOK(u, k, os, c), SameOthers(u, v, l),
           l # "create" => v.e = u.e, LegOK(v, l, os, c)
    PROVE  \A k \in Legs : LegOK(v, k, os, c)
<1> SUFFICES ASSUME NEW k \in Legs, k # l PROVE LegOK(v, k, os, c)
  OBVIOUS
<1>1. v.oid[k] = u.oid[k] /\ LegOK(u, k, os, c)
  BY DEF SameOthers
<1>2. Counted(v, k) = Counted(u, k)
  BY TradeFacts DEF Counted, SameOthers
<1>3. k # "create" => v.qty[k] = u.qty[k]
  BY TradeFacts DEF SameOthers
<1> QED
  BY <1>1, <1>2, <1>3 DEF LegOK

\* A leg is dropped without a look at what its order executed: the books of the trade
\* say less from then on.
LEMMA ResetBooks ==
    ASSUME NEW u \in Trade, NEW t \in Trades, NEW os, OrdersOK(os), NEW c, Named(u, t, os),
           Books(u, t, os, c), NEW l \in Legs
    PROVE  LET v == BlindReset(u, l)
           IN  v \in Trade /\ Named(v, t, os) /\ Books(v, t, os, c)
<1> DEFINE v == BlindReset(u, l)
<1>1. /\ v \in Trade /\ v.oid[l] = None /\ v.blind
      /\ SameOthers(u, v, l) /\ SameFlags(u, v)
      /\ v.entry = u.entry /\ v.exit = u.exit
      /\ v.e = u.e /\ v.x = u.x /\ v.dirty = u.dirty
  BY BlindResetFacts
<1> HIDE DEF v
<1>2. Core(u, t, os) /\ \A k \in Legs : LegOK(u, k, os, c)
  BY DEF Books
<1>3. \A k \in Legs : v.oid[k] # None => k # l /\ v.oid[k] = u.oid[k]
  BY <1>1 DEF SameOthers
<1>4. \A k \in ExitLegs : v.oid[k] # None => v.qty[k] = u.qty[k] /\ v.exec[k] = u.exec[k]
  BY <1>1, <1>3, TradeFacts DEF SameOthers
<1>5. Named(v, t, os)
  BY <1>3 DEF Named
<1>6. Held(v, t, os) /\ Entered(v, t, os)
  BY <1>1, <1>2 DEF Core, Held, Entered
<1>7. \A k \in ExitLegs : Uncounted(u, k, os) \in Int /\ Uncounted(v, k, os) \in Int
                         /\ Uncounted(v, k, os) <= Uncounted(u, k, os)
  <2> SUFFICES ASSUME NEW k \in ExitLegs
               PROVE  /\ Uncounted(u, k, os) \in Int /\ Uncounted(v, k, os) \in Int
                      /\ Uncounted(v, k, os) <= Uncounted(u, k, os)
    OBVIOUS
  <2>1. k \in Legs /\ k # "create" /\ u.exec[k] \in Nat
    BY TradeFacts
  <2>2. CASE u.oid[k] = None
    <3>1. v.oid[k] = None
      BY <1>3, <2>1, <2>2
    <3> QED
      BY <2>2, <3>1 DEF Uncounted
  <2>3. CASE u.oid[k] # None
    <3>1. os[u.oid[k]].filled \in Nat
      BY <2>1, <2>3, OrderFacts DEF Named
    <3>2. u.exec[k] <= os[u.oid[k]].filled
      BY <1>2, <2>1, <2>3 DEF LegOK, Counted
    <3>3. v.oid[k] = None \/ (v.oid[k] = u.oid[k] /\ v.exec[k] = u.exec[k])
      BY <1>3, <1>4, <2>1
    <3> QED
      BY <2>1, <2>3, <3>1, <3>2, <3>3 DEF Uncounted
  <2> QED
    BY <2>2, <2>3
<1>8. Exited(v, t, os)
  <2>1. TotalOf(os, t, ExitLegs) \in Int
    BY TotalInt
  <2>2. u.x + Uncounted(u, "stop", os) + Uncounted(u, "limit", os) <= TotalOf(os, t, ExitLegs)
    BY <1>2 DEF Core, Exited
  <2>3. u.x \in Nat
    BY TradeFacts
  <2> QED
    BY <1>1, <1>7, <2>1, <2>2, <2>3 DEF Exited, ExitLegs
<1>9. States(v, t)
  BY <1>1, <1>2, <1>3 DEF Core, States, SameFlags, Legs
<1>10. ~EmptiedOf(os, t) => Covering(v)
  BY <1>1, <1>2, <1>3, <1>4, TradeFacts DEF Core, Covering, SameFlags, IsActive, IsClosed
<1>11. LegOK(v, l, os, c)
  BY <1>1 DEF LegOK
<1>12. \A k \in Legs : LegOK(v, k, os, c)
  BY <1>1, <1>2, <1>11, LegsKept
<1> QED
  BY <1>1, <1>5, <1>6, <1>8, <1>9, <1>10, <1>12 DEF Books, Core, v

\* The orders os become os2, with new ones of other trades, and one of the trade s
\* may be canceled.
KeepsOrders(s, os, os2) ==
    /\ Len(os) <= Len(os2)
    /\ \A n \in 1..Len(os) :
          /\ os2[n].trade = os[n].trade /\ os2[n].leg = os[n].leg
          /\ os[n].trade = s =>
                /\ os2[n].qty = os[n].qty /\ os2[n].filled = os[n].filled
                /\ os2[n].status = "closed" <=> os[n].status = "closed"
                /\ os2[n].status = "live" => os[n].status = "live"
    /\ \A n \in Len(os) + 1..Len(os2) : os2[n].trade # s

\* The executions that are on their way to the legs of u stay the same.
KeepsReports(u, c, c2) ==
    \A l \in Legs : u.oid[l] # None =>
        /\ \A i \in 1..Len(c2) : Executes(c2[i], u.oid[l]) => \E j \in 1..Len(c) : c[j] = c2[i]
        /\ \A j \in 1..Len(c) : Executes(c[j], u.oid[l]) => \E i \in 1..Len(c2) : c2[i] = c[j]

\* What the orders of the trade executed does not change with the others.
LEMMA TotalKept ==
    ASSUME NEW s, NEW os \in Seq(Order), NEW os2 \in Seq(Order), KeepsOrders(s, os, os2),
           NEW legs
    PROVE  TotalOf(os2, s, legs) = TotalOf(os, s, legs)
<1> DEFINE R == {n \in DOMAIN os : os[n].trade = s /\ os[n].leg \in legs}
           R2 == {n \in DOMAIN os2 : os2[n].trade = s /\ os2[n].leg \in legs}
           f == [n \in DOMAIN os |-> os[n].filled]
           f2 == [n \in DOMAIN os2 |-> os2[n].filled]
<1>1. /\ Len(os) \in Nat /\ Len(os2) \in Nat /\ DOMAIN os = 1..Len(os) /\ DOMAIN os2 = 1..Len(os2)
      /\ Len(os) <= Len(os2)
  BY DEF KeepsOrders
<1>2. \A n \in DOMAIN os2 : n \in DOMAIN os \/ n \in Len(os) + 1..Len(os2)
  BY <1>1
<1>3. \A n : n \in R2 <=> n \in R
  <2>1. ASSUME NEW n, n \in R2 PROVE n \in R
    <3>1. n \in DOMAIN os
      BY <1>2, <2>1 DEF KeepsOrders
    <3> QED
      BY <1>1, <2>1, <3>1 DEF KeepsOrders
  <2>2. ASSUME NEW n, n \in R PROVE n \in R2
    <3>1. n \in DOMAIN os2
      BY <1>1, <2>2
    <3> QED
      BY <1>1, <2>2, <3>1 DEF KeepsOrders
  <2> QED
    BY <2>1, <2>2
<1>4. R2 = R
  <2> HIDE DEF R, R2
  <2> QED
    BY <1>3
<1>5. \A n \in R : f2[n] = f[n]
  BY <1>1, <1>2 DEF KeepsOrders
<1>6. Sum(f2, R) = Sum(f, R)
  <2> HIDE DEF f, f2, R
  <2> QED
    BY <1>5, SumSame
<1>7. TotalOf(os2, s, legs) = Sum(f2, R2) /\ TotalOf(os, s, legs) = Sum(f, R)
  BY DEF TotalOf
<1> QED
  BY <1>4, <1>6, <1>7

LEMMA NamedKept ==
    ASSUME NEW u \in Trade, NEW s, NEW os \in Seq(Order), NEW os2 \in Seq(Order),
           KeepsOrders(s, os, os2), Named(u, s, os)
    PROVE  Named(u, s, os2)
<1> SUFFICES ASSUME NEW l \in Legs, u.oid[l] # None
             PROVE  /\ u.oid[l] \in 1..Len(os2)
                    /\ os2[u.oid[l]].trade = s /\ os2[u.oid[l]].leg = l
  BY DEF Named
<1>1. u.oid[l] \in 1..Len(os) /\ os[u.oid[l]].trade = s /\ os[u.oid[l]].leg = l
  BY DEF Named
<1>2. Len(os) \in Nat /\ Len(os2) \in Nat /\ Len(os) <= Len(os2)
  BY DEF KeepsOrders
<1> QED
  BY <1>1, <1>2 DEF KeepsOrders

\* Nor do its books.
LEMMA BooksKept ==
    ASSUME NEW u \in Trade, NEW s \in Trades, NEW os \in Seq(Order), NEW os2 \in Seq(Order),
           NEW c, NEW c2, KeepsOrders(s, os, os2), KeepsReports(u, c, c2),
           Named(u, s, os), Books(u, s, os, c)
    PROVE  Books(u, s, os2, c2)
<1>1. Len(os) \in Nat /\ Len(os2) \in Nat /\ Len(os) <= Len(os2) /\ DOMAIN os = 1..Len(os) /\ DOMAIN os2 = 1..Len(os2)
  BY DEF KeepsOrders
<1>2. ASSUME NEW n \in 1..Len(os2), os2[n].trade = s
      PROVE  /\ n \in 1..Len(os) /\ os[n].trade = s /\ os2[n].leg = os[n].leg
             /\ os2[n].qty = os[n].qty /\ os2[n].filled = os[n].filled
             /\ os2[n].status = "closed" <=> os[n].status = "closed"
             /\ os2[n].status = "live" => os[n].status = "live"
  <2>1. n \in 1..Len(os)
    BY <1>1, <1>2 DEF KeepsOrders
  <2> QED
    BY <1>2, <2>1 DEF KeepsOrders
<1>3. ASSUME NEW n \in 1..Len(os), os[n].trade = s
      PROVE  n \in 1..Len(os2) /\ os2[n].trade = s
  BY <1>1, <1>3 DEF KeepsOrders
<1>4. \A l \in Legs : u.oid[l] # None => u.oid[l] \in 1..Len(os) /\ os[u.oid[l]].trade = s
  BY DEF Named
<1>5. Core(u, s, os)
  BY DEF Books
<1>6. Held(u, s, os2)
  BY <1>2, <1>5 DEF Core, Held
<1>7. Entered(u, s, os2)
  <2>1. PICK m \in 1..Len(os) : /\ os[m].trade = s /\ os[m].leg = "create"
                                /\ \A n \in 1..Len(os) : os[n].trade = s /\ os[n].leg = "create" => n = m
                                /\ u.e <= os[m].filled
                                /\ ~u.blind /\ u.oid["create"] = None => u.e = os[m].filled
    BY <1>5 DEF Core, Entered
  <2>2. os[m].trade = s /\ os[m].leg = "create"
    BY <2>1
  <2>3. m \in 1..Len(os2) /\ os2[m].trade = s /\ os2[m].leg = "create" /\ os2[m].filled = os[m].filled
    BY <1>2, <1>3, <2>2
  <2>4. \A n \in 1..Len(os2) : os2[n].trade = s /\ os2[n].leg = "create" => n = m
    BY <1>2, <2>1
  <2> QED
    BY <2>1, <2>3, <2>4 DEF Entered
<1>8. \A l \in ExitLegs : Uncounted(u, l, os2) = Uncounted(u, l, os)
  BY <1>2, <1>3, <1>4, TradeFacts DEF Uncounted
<1>9. Exited(u, s, os2)
  BY <1>5, <1>8, TotalKept DEF Core, Exited, ExitLegs
<1>10. EmptiedOf(os, s) => EmptiedOf(os2, s)
  BY <1>1, <1>2, <1>3 DEF EmptiedOf
<1>11. ASSUME NEW l \in Legs PROVE LegOK(u, l, os2, c2)
  <2> SUFFICES ASSUME u.oid[l] # None PROVE LegOK(u, l, os2, c2)
    BY DEF LegOK
  <2> DEFINE n == u.oid[l]
  <2>1. n \in 1..Len(os) /\ os[n].trade = s
    BY <1>4
  <2>2. os2[n].qty = os[n].qty /\ os2[n].filled = os[n].filled
    BY <1>2, <1>3, <2>1
  <2>3. /\ l # "create" => u.qty[l] = os[n].qty
        /\ Counted(u, l) <= os[n].filled
        /\ \A i \in 1..Len(c) : Executes(c[i], n) => Counted(u, l) < c[i].cum
        /\ \/ Counted(u, l) = os[n].filled
           \/ \E i \in 1..Len(c) : Executes(c[i], n) /\ c[i].cum = os[n].filled
    BY DEF Books, LegOK
  <2>4. /\ \A i \in 1..Len(c2) : Executes(c2[i], n) => \E j \in 1..Len(c) : c[j] = c2[i]
        /\ \A j \in 1..Len(c) : Executes(c[j], n) => \E i \in 1..Len(c2) : c2[i] = c[j]
    BY DEF KeepsReports
  <2> DEFINE done == Counted(u, l)
             all == os[n].filled
  <2>5. \A i \in 1..Len(c2) : Executes(c2[i], n) => done < c2[i].cum
    <3> SUFFICES ASSUME NEW i \in 1..Len(c2), Executes(c2[i], n) PROVE done < c2[i].cum
      OBVIOUS
    <3> HIDE DEF n, done
    <3>1. PICK j \in 1..Len(c) : c[j] = c2[i]
      BY <2>4
    <3>2. Executes(c[j], n)
      BY <3>1
    <3>3. done < c[j].cum
      BY <2>3, <3>2 DEF done
    <3> QED
      BY <3>1, <3>3
  <2>6. ASSUME NEW j \in 1..Len(c), Executes(c[j], n) /\ c[j].cum = all
        PROVE  \E i \in 1..Len(c2) : Executes(c2[i], n) /\ c2[i].cum = all
    <3> HIDE DEF n, all
    <3>1. PICK i \in 1..Len(c2) : c2[i] = c[j]
      BY <2>4, <2>6
    <3>2. Executes(c2[i], n) /\ c2[i].cum = all
      BY <2>6, <3>1
    <3> QED
      BY <3>2
  <2>7. done = all \/ \E j \in 1..Len(c) : Executes(c[j], n) /\ c[j].cum = all
    BY <2>3
  <2>8. done = all \/ \E i \in 1..Len(c2) : Executes(c2[i], n) /\ c2[i].cum = all
    <3> HIDE DEF n, all, done
    <3> QED
      BY <2>6, <2>7
  <2> QED
    BY <2>2, <2>3, <2>5, <2>8 DEF LegOK
<1> QED
  BY <1>5, <1>6, <1>7, <1>9, <1>10, <1>11 DEF Books, Core

-----------------------------------------------------------------------------
(***************************************************************************)
(* What an operation of the trade t does to its world.                     *)
(***************************************************************************)

Worlds == [u : Trade, o : Seq(Order), c : Seq(Report)]

Sound(w, t) ==
    /\ w \in Worlds
    /\ OrdersOK(w.o) /\ Reports(w.c, w.o) /\ Named(w.u, t, w.o)

\* The trade knows of its entry, or will learn of it.
Learning(u) == u.e > 0 \/ u.oid["create"] # None

\* The orders and the reports of the others stay, and no execution is added.
Evolves(t, w, v) ==
    /\ Learning(v.u) => Learning(w.u)
    /\ Len(w.o) <= Len(v.o)
    /\ \A n \in 1..Len(w.o) :
          /\ v.o[n].trade = w.o[n].trade /\ v.o[n].leg = w.o[n].leg
          /\ v.o[n].filled = w.o[n].filled
          /\ w.o[n].trade # t => v.o[n] = w.o[n]
    /\ \A n \in Len(w.o) + 1..Len(v.o) : v.o[n].trade = t /\ v.o[n].leg \in ExitLegs
    /\ Len(w.c) <= Len(v.c)
    /\ \A i \in 1..Len(w.c) : v.c[i] = w.c[i]
    /\ \A i \in Len(w.c) + 1..Len(v.c) : v.c[i].kind = "canceled"

\* A world and its parts.
LEMMA WorldFacts ==
    ASSUME NEW t, NEW w, Sound(w, t)
    PROVE  /\ w = [u |-> w.u, o |-> w.o, c |-> w.c]
           /\ w.u \in Trade /\ w.o \in Seq(Order) /\ w.c \in Seq(Report)
           /\ Len(w.o) \in Nat /\ Len(w.c) \in Nat
           /\ DOMAIN w.o = 1..Len(w.o) /\ DOMAIN w.c = 1..Len(w.c)
           /\ OrdersOK(w.o) /\ Reports(w.c, w.o) /\ Named(w.u, t, w.o)
BY DEF Sound, Worlds

LEMMA EvolvesSame ==
    ASSUME NEW t, NEW w, Sound(w, t), NEW v, v.o = w.o, v.c = w.c,
           Learning(v.u) => Learning(w.u)
    PROVE  Evolves(t, w, v)
BY WorldFacts DEF Evolves

LEMMA EvolvesThen ==
    ASSUME NEW t, NEW a, NEW b, NEW d, Sound(a, t), Sound(b, t), Sound(d, t),
           Evolves(t, a, b), Evolves(t, b, d)
    PROVE  Evolves(t, a, d)
<1>1. /\ Len(a.o) \in Nat /\ Len(b.o) \in Nat /\ Len(d.o) \in Nat
      /\ Len(a.c) \in Nat /\ Len(b.c) \in Nat /\ Len(d.c) \in Nat
      /\ Len(a.o) <= Len(b.o) /\ Len(b.o) <= Len(d.o)
      /\ Len(a.c) <= Len(b.c) /\ Len(b.c) <= Len(d.c)
  BY WorldFacts DEF Evolves
<1>2. ASSUME NEW n \in 1..Len(a.o)
      PROVE  /\ d.o[n].trade = a.o[n].trade /\ d.o[n].leg = a.o[n].leg
             /\ d.o[n].filled = a.o[n].filled
             /\ a.o[n].trade # t => d.o[n] = a.o[n]
  <2>1. n \in 1..Len(b.o)
    BY <1>1
  <2> QED
    BY <2>1 DEF Evolves
<1>3. ASSUME NEW n \in Len(a.o) + 1..Len(d.o)
      PROVE  d.o[n].trade = t /\ d.o[n].leg \in ExitLegs
  <2>1. CASE n \in 1..Len(b.o)
    <3>1. n \in Len(a.o) + 1..Len(b.o)
      BY <1>1, <2>1
    <3>2. b.o[n].trade = t /\ b.o[n].leg \in ExitLegs
      BY <3>1 DEF Evolves
    <3>3. d.o[n].trade = b.o[n].trade /\ d.o[n].leg = b.o[n].leg
      BY <2>1 DEF Evolves
    <3> QED
      BY <3>2, <3>3
  <2>2. CASE n \notin 1..Len(b.o)
    <3>1. n \in Len(b.o) + 1..Len(d.o)
      BY <1>1, <2>2
    <3> QED
      BY <3>1 DEF Evolves
  <2> QED
    BY <2>1, <2>2
<1>4. ASSUME NEW i \in 1..Len(a.c) PROVE d.c[i] = a.c[i]
  <2>1. i \in 1..Len(b.c)
    BY <1>1
  <2> QED
    BY <2>1 DEF Evolves
<1>5. ASSUME NEW i \in Len(a.c) + 1..Len(d.c) PROVE d.c[i].kind = "canceled"
  <2>1. CASE i \in 1..Len(b.c)
    <3>1. i \in Len(a.c) + 1..Len(b.c)
      BY <1>1, <2>1
    <3> QED
      BY <2>1, <3>1 DEF Evolves
  <2>2. CASE i \notin 1..Len(b.c)
    <3>1. i \in Len(b.c) + 1..Len(d.c)
      BY <1>1, <2>2
    <3> QED
      BY <3>1 DEF Evolves
  <2> QED
    BY <2>1, <2>2
<1> QED
  BY <1>1, <1>2, <1>3, <1>4, <1>5 DEF Evolves

\* A report without an execution.
LEMMA RepFacts ==
    ASSUME NEW kind \in {"opened", "deleted", "canceled", "moved", "gone"}, NEW n \in 0..MaxOrders
    PROVE  Rep(kind, n) \in Report /\ Rep(kind, n).kind = kind /\ Rep(kind, n).id = n
BY DEF Rep, Report

\* A report that ends an order, at the end of the others.
LEMMA ReportsEnd ==
    ASSUME NEW os \in Seq(Order), NEW c \in Seq(Report), Reports(c, os), Len(os) <= MaxOrders,
           NEW kind \in {"opened", "deleted", "canceled", "moved", "gone"}, NEW n \in 0..MaxOrders,
           kind \in OrderReports => n \in 1..Len(os),
           kind \in Ends => os[n].status # "live"
    PROVE  /\ Append(c, Rep(kind, n)) \in Seq(Report)
           /\ Reports(Append(c, Rep(kind, n)), os)
<1> DEFINE r == Rep(kind, n)
           c2 == Append(c, r)
<1>1. r \in Report /\ r.kind = kind /\ r.id = n
  BY RepFacts
<1> HIDE DEF r
<1>2. /\ c2 \in Seq(Report) /\ Len(c) \in Nat /\ Len(c2) = Len(c) + 1 /\ c2[Len(c) + 1] = r
      /\ \A i \in 1..Len(c) : c2[i] = c[i]
  BY <1>1
<1> HIDE DEF c2
<1>3. ReportOK(r, os)
  BY <1>1 DEF ReportOK
<1>4. ASSUME NEW i \in 1..Len(c2) PROVE ReportOK(c2[i], os)
  <2>1. i \in 1..Len(c) \/ i = Len(c) + 1
    BY <1>2
  <2> QED
    BY <1>2, <1>3, <2>1 DEF Reports
<1>5. ASSUME NEW i \in 1..Len(c2), NEW j \in 1..Len(c2), i < j PROVE Follows(c2[i], c2[j])
  <2>1. i \in 1..Len(c)
    BY <1>2, <1>5
  <2>2. CASE j \in 1..Len(c)
    BY <1>2, <1>5, <2>1, <2>2 DEF Reports
  <2>3. CASE j = Len(c) + 1
    BY <1>1, <1>2, <2>3 DEF Follows
  <2> QED
    BY <1>2, <2>2, <2>3
<1> QED
  BY <1>2, <1>4, <1>5 DEF Reports, c2, r

\* The reports are still true when an order is canceled.
LEMMA ReportsCanceled ==
    ASSUME NEW os \in Seq(Order), NEW os2 \in Seq(Order), NEW c, Reports(c, os),
           Len(os) <= Len(os2),
           \A n \in 1..Len(os) : /\ os2[n].filled = os[n].filled /\ os2[n].qty = os[n].qty
                                 /\ os2[n].status = "live" => os[n].status = "live"
    PROVE  Reports(c, os2)
<1>1. ASSUME NEW i \in 1..Len(c) PROVE ReportOK(c[i], os2)
  <2>1. ReportOK(c[i], os)
    BY DEF Reports
  <2>2. c[i].kind \in OrderReports => c[i].id \in 1..Len(os) /\ c[i].id \in 1..Len(os2)
    BY <2>1 DEF ReportOK
  <2> QED
    BY <2>1, <2>2 DEF ReportOK
<1> QED
  BY <1>1 DEF Reports

\* An order of the trade is canceled, if it was live.
LEMMA CancelOrderFacts ==
    ASSUME NEW t \in Trades, NEW w, Sound(w, t), NEW n \in 1..Len(w.o), w.o[n].trade = t
    PROVE  LET v == CancelOrder(w, n)
           IN  /\ v.u = w.u /\ Sound(v, t) /\ Evolves(t, w, v) /\ Len(v.o) = Len(w.o)
               /\ KeepsOrders(t, w.o, v.o) /\ KeepsReports(w.u, w.c, v.c)
               /\ v.o[n].status # "live" /\ v.o[n].filled = w.o[n].filled
               /\ v.o[n].status = "closed" <=> w.o[n].status = "closed"
<1> DEFINE v == CancelOrder(w, n)
<1>0. /\ w = [u |-> w.u, o |-> w.o, c |-> w.c]
      /\ w.u \in Trade /\ w.o \in Seq(Order) /\ w.c \in Seq(Report)
      /\ Len(w.o) \in Nat /\ Len(w.c) \in Nat
      /\ DOMAIN w.o = 1..Len(w.o) /\ DOMAIN w.c = 1..Len(w.c)
      /\ OrdersOK(w.o) /\ Reports(w.c, w.o) /\ Named(w.u, t, w.o)
  BY WorldFacts
<1>1. CASE w.o[n].status # "live"
  <2>1. v = w
    BY <1>1 DEF CancelOrder
  <2>2. Evolves(t, w, v)
    BY <2>1, EvolvesSame
  <2>3. KeepsOrders(t, w.o, v.o) /\ KeepsReports(w.u, w.c, v.c)
    BY <1>0, <2>1 DEF KeepsOrders, KeepsReports
  <2> QED
    BY <1>1, <2>1, <2>2, <2>3
<1>2. CASE w.o[n].status = "live"
  <2> DEFINE r == Rep("canceled", n)
             o2 == [w.o EXCEPT ![n] = [w.o[n] EXCEPT !.status = "canceled"]]
             c2 == Append(w.c, r)
             a == w.o[n]
             b == [a EXCEPT !.status = "canceled"]
  <2>1. v = [u |-> w.u, o |-> o2, c |-> c2]
    <3>1. v = [w EXCEPT !.o[n].status = "canceled", !.c = Append(@, Rep("canceled", n))]
      BY <1>2 DEF CancelOrder
    <3>2. v = [w EXCEPT !.o = o2, !.c = c2]
      BY <3>1
    <3> HIDE DEF v, o2, c2
    <3> QED
      BY <1>0, <3>2
  <2>2. a \in Order /\ OrderOK(a)
    BY <1>0, OrderFacts
  <2>3. /\ b \in Order /\ b.trade = a.trade /\ b.leg = a.leg /\ b.qty = a.qty
        /\ b.filled = a.filled /\ b.status = "canceled"
    <3> HIDE DEF a
    <3> QED
      BY <2>2 DEF Order
  <2>4. a.status = "live" /\ a.trade = t
    BY <1>2
  <2>5. OrderOK(b)
    BY <2>2, <2>3, <2>4 DEF OrderOK
  <2>6. o2 = [w.o EXCEPT ![n] = b]
    OBVIOUS
  <2> HIDE DEF b, o2
  <2>7. /\ o2 \in Seq(Order) /\ Len(o2) = Len(w.o) /\ o2[n] = b
        /\ \A m \in 1..Len(w.o) : m # n => o2[m] = w.o[m]
    BY <1>0, <2>3, <2>6
  <2>8. /\ v.u = w.u /\ v.o = o2 /\ v.c = c2
    BY <2>1
  <2> HIDE DEF v
  <2>9. OrdersOK(o2)
    BY <1>0, <2>5, <2>7 DEF OrdersOK
  <2>10. ASSUME NEW m \in 1..Len(w.o)
         PROVE  /\ o2[m].trade = w.o[m].trade /\ o2[m].leg = w.o[m].leg /\ o2[m].qty = w.o[m].qty
                /\ o2[m].filled = w.o[m].filled
                /\ o2[m].status = "live" => w.o[m].status = "live"
                /\ o2[m].status = "closed" <=> w.o[m].status = "closed"
                /\ w.o[m].trade # t => o2[m] = w.o[m]
    BY <2>3, <2>4, <2>7
  <2>11. n \in 0..MaxOrders
    BY <1>0, MarginAssumption DEF OrdersOK, MarginAssumption
  <2>12. Reports(w.c, o2)
    BY <1>0, <2>7, <2>10, ReportsCanceled
  <2>13. c2 \in Seq(Report) /\ Reports(c2, o2)
    <3>1. o2[n].status # "live" /\ n \in 1..Len(o2) /\ Len(o2) <= MaxOrders
      BY <1>0, <2>3, <2>7 DEF OrdersOK
    <3> QED
      BY <1>0, <2>7, <2>11, <2>12, <3>1, ReportsEnd
  <2>14. /\ Len(c2) = Len(w.c) + 1 /\ c2[Len(w.c) + 1] = r /\ r.kind = "canceled"
         /\ \A i \in 1..Len(w.c) : c2[i] = w.c[i]
    <3>1. r.kind = "canceled"
      BY <2>11, RepFacts
    <3> HIDE DEF r
    <3> QED
      BY <1>0, <3>1
  <2> HIDE DEF c2, r, a
  <2>15. Named(w.u, t, o2)
    BY <1>0, <2>7, <2>10 DEF Named
  <2>16. Sound(v, t)
    BY <1>0, <2>1, <2>7, <2>8, <2>9, <2>13, <2>15 DEF Sound, Worlds
  <2>17. Evolves(t, w, v)
    <3>1. ASSUME NEW i \in Len(w.c) + 1..Len(c2) PROVE c2[i].kind = "canceled"
      <4>1. i = Len(w.c) + 1
        BY <1>0, <2>14
      <4> QED
        BY <2>14, <4>1
    <3>2. Len(w.o) + 1..Len(o2) = {}
      BY <1>0, <2>7
    <3> QED
      BY <1>0, <2>7, <2>8, <2>10, <2>14, <3>1, <3>2 DEF Evolves
  <2>18. KeepsOrders(t, w.o, o2)
    <3>1. Len(w.o) + 1..Len(o2) = {} /\ Len(w.o) <= Len(o2)
      BY <1>0, <2>7
    <3> QED
      BY <2>10, <3>1 DEF KeepsOrders
  <2>19. KeepsReports(w.u, w.c, c2)
    <3>1. ASSUME NEW m, NEW i \in 1..Len(c2), Executes(c2[i], m) PROVE \E j \in 1..Len(w.c) : w.c[j] = c2[i]
      <4>1. i # Len(w.c) + 1
        BY <2>14, <3>1 DEF Executes
      <4>2. i \in 1..Len(w.c)
        BY <1>0, <2>14, <4>1
      <4> QED
        BY <2>14, <4>2
    <3>2. ASSUME NEW j \in 1..Len(w.c) PROVE \E i \in 1..Len(c2) : c2[i] = w.c[j]
      <4>1. j \in 1..Len(c2)
        BY <1>0, <2>14
      <4> QED
        BY <2>14, <4>1
    <3> QED
      BY <3>1, <3>2 DEF KeepsReports
  <2> QED
    BY <2>3, <2>4, <2>7, <2>8, <2>16, <2>17, <2>18, <2>19 DEF v, a
<1> QED
  BY <1>1, <1>2

-----------------------------------------------------------------------------
(***************************************************************************)
(* The order of a leg is canceled, and asked for what it executed.         *)
(***************************************************************************)

\* v is the trade u without its entry order, which executed f
EntryDropped(u, f, v) ==
  /\ v \in Trade /\ v.oid["create"] = None
  /\ SameOthers(u, v, "create") /\ SameFlags(u, v)
  /\ v.x = u.x /\ v.exit = u.exit
  /\ f <= u.e => v.e = u.e /\ v.dirty = u.dirty /\ v.entry = u.entry
  /\ f > u.e => v.e = f /\ v.dirty /\ v.entry \in {"partially_filled", "filled"}

\* What order l executed, f, that the trade did not count
Late(u, l, f) == IF f > u.exec[l] THEN f - u.exec[l] ELSE 0

\* v is the trade u without its exit order l, which executed f
ExitDropped(u, q, l, f, full, v) ==
  /\ v \in Trade /\ v.oid[l] = None /\ Late(u, l, f) \in Nat
  /\ SameOthers(u, v, l) /\ SameFlags(u, v)
  /\ v.x = u.x + Late(u, l, f) /\ v.entry = u.entry /\ v.e = u.e /\ v.dirty = u.dirty
  /\ \/ v.exit = u.exit /\ Late(u, l, f) = 0
     \/ v.exit = ExitState(u, q, u.x + Late(u, l, f), full)

\* The trade once its entry order, which executed f, is canceled.
LEMMA CanceledEntry ==
    ASSUME NEW u \in Trade, NEW q \in Nat, NEW f \in Nat, NEW full \in BOOLEAN
    PROVE  EntryDropped(u, f,
             ResetLeg(IF f > u.e THEN Traded(u, q, "create", f, 0, full) ELSE u, "create"))
<1> DEFINE a == EntryTraded(u, q, f, full)
           b == IF f > u.e THEN a ELSE u
           v == ResetLeg(b, "create")
<1>1. Traded(u, q, "create", f, 0, full) = a
  BY DEF Traded
<1>2. /\ a \in Trade /\ a.e = f /\ a.x = u.x /\ a.exit = u.exit
      /\ SameOthers(u, a, "create") /\ SameFlags(u, a)
      /\ a.dirty <=> u.dirty \/ f > u.e
      /\ a.entry \in {"partially_filled", "filled"}
  <2>1. /\ a \in Trade /\ a.e = f /\ a.x = u.x /\ a.exit = u.exit
        /\ SameOthers(u, a, "create") /\ SameFlags(u, a)
        /\ a.dirty <=> u.dirty \/ f > u.e
        /\ IF f >= q \/ full THEN a.entry = "filled" /\ a.oid["create"] = None
           ELSE a.entry = "partially_filled" /\ a.oid["create"] = u.oid["create"]
    BY EntryTradedFacts
  <2> QED
    BY <2>1
<1>3. SameOthers(u, u, "create") /\ SameFlags(u, u) /\ u.e \in Nat
  BY TradeFacts DEF SameOthers, SameFlags
<1> HIDE DEF a
<1>4. b \in Trade /\ SameOthers(u, b, "create") /\ SameFlags(u, b) /\ b.x = u.x /\ b.exit = u.exit
  BY <1>2, <1>3
<1>5. f <= u.e => b.e = u.e /\ b.dirty = u.dirty /\ b.entry = u.entry
  BY <1>3
<1>6. f > u.e => b.e = f /\ b.dirty /\ b.entry \in {"partially_filled", "filled"}
  BY <1>2, <1>3
<1> HIDE DEF b
<1>7. /\ v \in Trade /\ v.oid["create"] = None
      /\ SameOthers(b, v, "create") /\ SameFlags(b, v)
      /\ v.entry = b.entry /\ v.exit = b.exit
      /\ v.e = b.e /\ v.x = b.x /\ v.dirty = b.dirty
  BY <1>4, ResetLegFacts, TradeFacts
<1> HIDE DEF v
<1>8. SameOthers(u, v, "create") /\ SameFlags(u, v)
  BY <1>4, <1>7 DEF SameOthers, SameFlags
<1> QED
  <2> SUFFICES EntryDropped(u, f, v)
    BY <1>1 DEF v, b
  <2> QED
    BY <1>4, <1>5, <1>6, <1>7, <1>8 DEF EntryDropped

\* The same of an exit order.
LEMMA CanceledExit ==
    ASSUME NEW u \in Trade, NEW q \in Nat, NEW l \in ExitLegs, NEW f \in Nat, NEW full \in BOOLEAN
    PROVE  ExitDropped(u, q, l, f, full,
             ResetLeg(IF f > u.exec[l] THEN Traded(u, q, l, f, 0, full) ELSE u, l))
<1> DEFINE a == ExitTraded(u, q, l, f, 0, full)
           b == IF f > u.exec[l] THEN a ELSE u
           v == ResetLeg(b, l)
           k == IF f > u.exec[l] THEN f - u.exec[l] ELSE 0
<1>0. u.exec[l] \in Nat /\ u.x \in Nat /\ l \in Legs /\ l # "create"
  BY TradeFacts DEF ExitLegs
<1>1. Traded(u, q, l, f, 0, full) = a
  BY <1>0 DEF Traded
<1>2. Gain(u, l, f, 0) = k
  BY DEF Gain
<1>3. /\ k \in Nat /\ a \in Trade /\ a.x = u.x + k
      /\ a.exit = ExitState(u, q, u.x + k, full)
      /\ a.entry = u.entry /\ a.e = u.e /\ a.dirty = u.dirty
      /\ SameOthers(u, a, l) /\ SameFlags(u, a)
  <2> DEFINE j == Gain(u, l, f, 0)
  <2>0. ExitCounted(u, q, l, j, full, a)
    BY ExitTradedFacts
  <2> HIDE DEF j, k, a
  <2>1. j = k
    BY <1>2 DEF j
  <2> QED
    BY <2>0, <2>1 DEF ExitCounted
<1>4. SameOthers(u, u, l) /\ SameFlags(u, u)
  BY DEF SameOthers, SameFlags
<1> HIDE DEF a
<1>5. /\ b \in Trade /\ SameOthers(u, b, l) /\ SameFlags(u, b)
      /\ b.x = u.x + k /\ b.entry = u.entry /\ b.e = u.e /\ b.dirty = u.dirty
      /\ \/ b.exit = u.exit /\ k = 0
         \/ b.exit = ExitState(u, q, u.x + k, full)
  <2>1. CASE f > u.exec[l]
    <3>1. b = a
      BY <2>1
    <3> HIDE DEF b, k
    <3> QED
      BY <1>3, <3>1
  <2>2. CASE ~(f > u.exec[l])
    <3>1. b = u /\ k = 0 /\ u.x = u.x + k
      BY <1>0, <2>2
    <3> HIDE DEF b, k
    <3> QED
      BY <1>4, <3>1
  <2> QED
    BY <2>1, <2>2
<1> HIDE DEF b
<1>6. /\ v \in Trade /\ v.oid[l] = None
      /\ SameOthers(b, v, l) /\ SameFlags(b, v)
      /\ v.entry = b.entry /\ v.exit = b.exit
      /\ v.e = b.e /\ v.x = b.x /\ v.dirty = b.dirty
  BY <1>0, <1>5, ResetLegFacts
<1> HIDE DEF v
<1>7. SameOthers(u, v, l) /\ SameFlags(u, v)
  BY <1>5, <1>6 DEF SameOthers, SameFlags
<1>8. /\ v \in Trade /\ v.oid[l] = None /\ k \in Nat
      /\ SameOthers(u, v, l) /\ SameFlags(u, v)
      /\ v.x = u.x + k /\ v.entry = u.entry /\ v.e = u.e /\ v.dirty = u.dirty
      /\ \/ v.exit = u.exit /\ k = 0
         \/ v.exit = ExitState(u, q, u.x + k, full)
  <2> HIDE DEF k
  <2> QED
    BY <1>3, <1>5, <1>6, <1>7
<1> QED
  <2> SUFFICES ExitDropped(u, q, l, f, full, v)
    BY <1>1 DEF v, b
  <2>1. Late(u, l, f) = k
    BY DEF Late, k
  <2> HIDE DEF k
  <2> QED
    BY <1>8, <2>1 DEF ExitDropped

\* What a canceled leg changes in a trade, unless the cancel fails.
Dropped(u, v, l) ==
    /\ v.oid[l] = None \/ v = u
    /\ SameOthers(u, v, l) /\ SameFlags(u, v)
    /\ v.e >= u.e /\ v.x >= u.x
    /\ l = "create" => v.x = u.x /\ v.exit = u.exit /\ (v.e > u.e => v.dirty)
    /\ l = "create" /\ v.e = u.e => v.entry = u.entry
    /\ l # "create" => v.e = u.e /\ v.entry = u.entry /\ v.dirty = u.dirty

LEMMA CancelLegIs ==
    ASSUME NEW w, NEW q, NEW l, NEW a
    PROVE  CancelLeg(w, q, l, a) = IF w.u.oid[l] = None THEN w ELSE Canceled(w, q, l, a[l])
BY DEF CancelLeg

LEMMA DroppedEntry ==
    ASSUME NEW t \in Trades, NEW w, Sound(w, t), w.u.oid["create"] # None,
           NEW a, a["create"] = "counted"
    PROVE  LET n == w.u.oid["create"]
               v == CancelLeg(w, Quantity[t], "create", a)
           IN  /\ EntryDropped(w.u, w.o[n].filled, v.u)
               /\ v.o = CancelOrder(w, n).o /\ v.c = CancelOrder(w, n).c
               /\ Sound(CancelOrder(w, n), t)
<1> DEFINE n == w.u.oid["create"]
           q == Quantity[t]
           o == w.o[n]
           f == o.filled
           full == o.status = "closed"
           v == CancelLeg(w, q, "create", a)
           d == CancelOrder(w, n)
           u2 == ResetLeg(IF f > w.u.e THEN Traded(w.u, q, "create", f, 0, full) ELSE w.u, "create")
<1>1. w.u \in Trade /\ Named(w.u, t, w.o) /\ OrdersOK(w.o)
  BY WorldFacts
<1>2. n \in 1..Len(w.o) /\ o.trade = t /\ o.leg = "create"
  BY <1>1, TradeFacts DEF Named
<1>3. f \in Nat /\ q \in Nat /\ full \in BOOLEAN
  BY <1>1, <1>2, OrderFacts, TradeFacts
<1>4. Sound(d, t)
  BY <1>2, CancelOrderFacts
<1>5. v = [d EXCEPT !.u = u2]
  <2>1. v = Canceled(w, q, "create", "counted")
    BY CancelLegIs
  <2> QED
    BY <2>1 DEF Canceled
<1>6. d = [u |-> d.u, o |-> d.o, c |-> d.c]
  BY <1>4, WorldFacts
<1>7. EntryDropped(w.u, f, u2)
  <2> HIDE DEF f, full, q
  <2> QED
    BY <1>1, <1>3, CanceledEntry
<1> HIDE DEF u2, d
<1>8. v.u = u2 /\ v.o = d.o /\ v.c = d.c
  <2> HIDE DEF v
  <2> QED
    BY <1>5, <1>6
<1> HIDE DEF v
<1> QED
  BY <1>4, <1>7, <1>8 DEF v, d

LEMMA DroppedExit ==
    ASSUME NEW t \in Trades, NEW w, Sound(w, t), NEW l \in ExitLegs, w.u.oid[l] # None,
           NEW a, a[l] = "counted"
    PROVE  LET n == w.u.oid[l]
               f == w.o[n].filled
               v == CancelLeg(w, Quantity[t], l, a)
           IN  /\ ExitDropped(w.u, Quantity[t], l, f, w.o[n].status = "closed", v.u)
               /\ v.o = CancelOrder(w, n).o /\ v.c = CancelOrder(w, n).c
               /\ Sound(CancelOrder(w, n), t)
<1> DEFINE n == w.u.oid[l]
           q == Quantity[t]
           o == w.o[n]
           f == o.filled
           full == o.status = "closed"
           v == CancelLeg(w, q, l, a)
           d == CancelOrder(w, n)
           u2 == ResetLeg(IF f > w.u.exec[l] THEN Traded(w.u, q, l, f, 0, full) ELSE w.u, l)
<1>1. w.u \in Trade /\ Named(w.u, t, w.o) /\ OrdersOK(w.o) /\ l \in Legs /\ l # "create"
  BY WorldFacts, TradeFacts
<1>2. n \in 1..Len(w.o) /\ o.trade = t /\ o.leg = l
  BY <1>1 DEF Named
<1>3. f \in Nat /\ q \in Nat /\ full \in BOOLEAN
  BY <1>1, <1>2, OrderFacts, TradeFacts
<1>4. Sound(d, t)
  BY <1>2, CancelOrderFacts
<1>5. v = [d EXCEPT !.u = u2]
  <2>1. v = Canceled(w, q, l, "counted")
    BY CancelLegIs
  <2> QED
    BY <1>1, <2>1 DEF Canceled
<1>6. d = [u |-> d.u, o |-> d.o, c |-> d.c]
  BY <1>4, WorldFacts
<1>7. ExitDropped(w.u, q, l, f, full, u2)
  <2> HIDE DEF f, full, q
  <2> QED
    BY <1>1, <1>3, CanceledExit
<1> HIDE DEF u2, d
<1>8. v.u = u2 /\ v.o = d.o /\ v.c = d.c
  <2> HIDE DEF v
  <2> QED
    BY <1>5, <1>6
<1> HIDE DEF v
<1> QED
  BY <1>4, <1>7, <1>8 DEF v, d

\* The world once the call is made, before the trade takes it into account.
Called(w, n, r) == IF r \in {"refused", "unknown"} THEN w ELSE CancelOrder(w, n)

LEMMA CalledFacts ==
    ASSUME NEW t \in Trades, NEW w, Sound(w, t), NEW l \in Legs, w.u.oid[l] # None, NEW r
    PROVE  LET n == w.u.oid[l]
               d == Called(w, n, r)
           IN  /\ d.u = w.u /\ Sound(d, t) /\ Evolves(t, w, d) /\ Len(d.o) = Len(w.o)
               /\ KeepsOrders(t, w.o, d.o) /\ KeepsReports(w.u, w.c, d.c)
               /\ n \in 1..Len(w.o) /\ w.o[n].trade = t /\ w.o[n].leg = l
<1> DEFINE n == w.u.oid[l]
<1>1. n \in 1..Len(w.o) /\ w.o[n].trade = t /\ w.o[n].leg = l
  BY WorldFacts DEF Named
<1>2. CASE r \in {"refused", "unknown"}
  <2>1. Called(w, n, r) = w
    BY <1>2 DEF Called
  <2>2. Evolves(t, w, w)
    BY EvolvesSame
  <2>3. Len(w.o) \in Nat /\ Len(w.o) + 1..Len(w.o) = {}
    BY WorldFacts
  <2>4. KeepsOrders(t, w.o, w.o) /\ KeepsReports(w.u, w.c, w.c)
    BY <2>3 DEF KeepsOrders, KeepsReports
  <2> QED
    BY <1>1, <2>1, <2>2, <2>4
<1>3. CASE r \notin {"refused", "unknown"}
  <2>1. Called(w, n, r) = CancelOrder(w, n)
    BY <1>3 DEF Called
  <2> QED
    BY <1>1, <2>1, CancelOrderFacts
<1> QED
  BY <1>2, <1>3

\* Whatever the books and the answer, a leg that is canceled is dropped, or left as
\* it is.
LEMMA CancelLegFacts ==
    ASSUME NEW t \in Trades, NEW w, Sound(w, t), NEW l \in Legs, NEW a
    PROVE  LET v == CancelLeg(w, Quantity[t], l, a)
           IN  /\ Sound(v, t) /\ Evolves(t, w, v) /\ Len(v.o) = Len(w.o)
               /\ Dropped(w.u, v.u, l) /\ (w.u.oid[l] = None => v = w)
               /\ v.u.oid[l] = w.u.oid[l] => v.u = w.u
               /\ EmptiedOf(w.o, t) => EmptiedOf(v.o, t)
<1> DEFINE v == CancelLeg(w, Quantity[t], l, a)
           n == w.u.oid[l]
           d == Called(w, n, a[l])
<1>0. w.u \in Trade /\ Named(w.u, t, w.o)
  BY WorldFacts
<1>1. CASE w.u.oid[l] = None
  <2>1. v = w
    BY <1>1, CancelLegIs
  <2>2. Dropped(w.u, w.u, l)
    BY <1>0, <1>1, TradeFacts DEF Dropped, SameOthers, SameFlags
  <2>3. Evolves(t, w, w)
    BY EvolvesSame
  <2> QED
    BY <2>1, <2>2, <2>3
<1>2. CASE w.u.oid[l] # None
  <2>1. n \in 1..Len(w.o) /\ w.o[n].trade = t
    BY <1>2, CalledFacts
  <2>2. Sound(d, t) /\ Evolves(t, w, d) /\ Len(d.o) = Len(w.o) /\ d.u = w.u
    BY <1>2, CalledFacts
  <2>3. /\ v.u \in Trade /\ v.o = d.o /\ v.c = d.c /\ Dropped(w.u, v.u, l)
        /\ v.u = w.u \/ v.u.oid[l] = None
        /\ v = [u |-> v.u, o |-> v.o, c |-> v.c]
        /\ Learning(v.u) => Learning(w.u)
    <3>0. d = [u |-> d.u, o |-> d.o, c |-> d.c]
      BY <2>2, WorldFacts
    <3>1. w.u.e \in Nat /\ w.u.x \in Nat
      BY <1>0, TradeFacts
    <3>2. v = Canceled(w, Quantity[t], l, a[l])
      BY <1>2, CancelLegIs
    <3>3. CASE a[l] \in {"refused", "lost"}
      <4>1. v = d
        BY <3>2, <3>3 DEF Canceled, Called
      <4>2. Dropped(w.u, w.u, l)
        BY <3>1 DEF Dropped, SameOthers, SameFlags
      <4> HIDE DEF v, d
      <4> QED
        BY <1>0, <2>2, <3>0, <4>1, <4>2
    <3>4. CASE a[l] \notin {"counted", "refused", "lost"}
      <4> DEFINE u2 == BlindReset(w.u, l)
      <4>1. v = [d EXCEPT !.u = u2]
        BY <3>2, <3>4 DEF Canceled, Called
      <4>2. /\ u2 \in Trade /\ u2.oid[l] = None
            /\ SameOthers(w.u, u2, l) /\ SameFlags(w.u, u2)
            /\ u2.entry = w.u.entry /\ u2.exit = w.u.exit
            /\ u2.e = w.u.e /\ u2.x = w.u.x /\ u2.dirty = w.u.dirty
        BY <1>0, BlindResetFacts
      <4> HIDE DEF v, d, n, u2
      <4>3. v.u = u2 /\ v.o = d.o /\ v.c = d.c
        BY <3>0, <4>1
      <4>4. Dropped(w.u, u2, l)
        BY <3>1, <4>2 DEF Dropped
      <4>5. Learning(u2) => Learning(w.u)
        BY <1>2, <4>2, TradeFacts, <1>0 DEF Learning, SameOthers
      <4> QED
        BY <3>0, <4>1, <4>2, <4>3, <4>4, <4>5
    <3>5. CASE a[l] = "counted"
      <4>0. d = CancelOrder(w, n)
        BY <3>5 DEF Called
      <4>9. v = [d EXCEPT !.u = v.u]
        <5>1. v = [d EXCEPT !.u = ResetLeg(IF w.o[n].filled > (IF l = "create" THEN w.u.e ELSE w.u.exec[l])
                     THEN Traded(w.u, Quantity[t], l, w.o[n].filled, 0, w.o[n].status = "closed")
                     ELSE w.u, l)]
          BY <3>2, <3>5, <4>0 DEF Canceled
        <5> HIDE DEF v, d, n
        <5> QED
          BY <3>0, <5>1
      <4>1. CASE l = "create"
        <5>1. w.o[n].filled \in Nat
          BY <2>1, OrderFacts, WorldFacts
        <5>2. /\ v.u \in Trade /\ v.u.oid["create"] = None
              /\ SameOthers(w.u, v.u, "create") /\ SameFlags(w.u, v.u)
              /\ v.u.x = w.u.x /\ v.u.exit = w.u.exit
              /\ w.o[n].filled <= w.u.e =>
                   v.u.e = w.u.e /\ v.u.dirty = w.u.dirty /\ v.u.entry = w.u.entry
              /\ w.o[n].filled > w.u.e =>
                   /\ v.u.e = w.o[n].filled /\ v.u.dirty
                   /\ v.u.entry \in {"partially_filled", "filled"}
              /\ v.o = d.o /\ v.c = d.c
          BY <1>2, <3>5, <4>0, <4>1, DroppedEntry DEF EntryDropped
        <5> HIDE DEF v, d, n
        <5>3. Dropped(w.u, v.u, l)
          BY <3>1, <4>1, <5>1, <5>2 DEF Dropped
        <5>4. Learning(w.u)
          BY <1>2, <4>1 DEF Learning
        <5> QED
          BY <3>0, <4>1, <4>9, <5>2, <5>3, <5>4
      <4>2. CASE l # "create"
        <5>1. l \in ExitLegs
          BY <4>2, TradeFacts, <1>0
        <5> DEFINE k == Late(w.u, l, w.o[n].filled)
        <5>2. /\ v.u \in Trade /\ v.u.oid[l] = None /\ k \in Nat
              /\ SameOthers(w.u, v.u, l) /\ SameFlags(w.u, v.u)
              /\ v.u.x = w.u.x + k /\ v.u.entry = w.u.entry /\ v.u.e = w.u.e
              /\ v.u.dirty = w.u.dirty
              /\ v.o = d.o /\ v.c = d.c
          BY <1>2, <3>5, <4>0, <5>1, DroppedExit DEF ExitDropped
        <5> HIDE DEF v, d, n, k
        <5>3. Dropped(w.u, v.u, l)
          BY <3>1, <4>2, <5>2 DEF Dropped
        <5>4. Learning(v.u) => Learning(w.u)
          BY <1>0, <4>2, <5>2, TradeFacts DEF Learning, SameOthers
        <5> QED
          BY <3>0, <4>9, <5>2, <5>3, <5>4
      <4> QED
        BY <4>1, <4>2
    <3> QED
      BY <3>3, <3>4, <3>5
  <2> HIDE DEF v, d
  <2>4. Named(v.u, t, v.o)
    <3>1. \A j \in Legs : v.u.oid[j] # None => v.u.oid[j] = w.u.oid[j]
      BY <2>3 DEF Dropped, SameOthers
    <3>2. Named(w.u, t, d.o)
      BY <2>2, WorldFacts
    <3> QED
      BY <2>3, <3>1, <3>2 DEF Named
  <2>5. Sound(v, t)
    <3>1. d.o \in Seq(Order) /\ d.c \in Seq(Report) /\ OrdersOK(d.o) /\ Reports(d.c, d.o)
      BY <2>2, WorldFacts
    <3> QED
      BY <2>3, <2>4, <3>1 DEF Sound, Worlds
  <2>6. Evolves(t, w, v)
    BY <2>2, <2>3 DEF Evolves
  <2>7. v.u.oid[l] = w.u.oid[l] => v.u = w.u
    BY <1>2, <2>3
  <2>8. EmptiedOf(w.o, t) => EmptiedOf(d.o, t)
    <3>1. KeepsOrders(t, w.o, d.o)
      BY <1>2, CalledFacts DEF d
    <3>2. DOMAIN w.o = 1..Len(w.o) /\ DOMAIN d.o = 1..Len(d.o) /\ Len(d.o) = Len(w.o)
      BY <2>2, WorldFacts
    <3> QED
      BY <3>1, <3>2 DEF KeepsOrders, EmptiedOf
  <2> QED
    BY <1>2, <2>2, <2>3, <2>5, <2>6, <2>7, <2>8 DEF v
<1> QED
  BY <1>1, <1>2

\* A leg that is canceled is dropped with what its order executed counted, when
\* order_info answers: the books stay right.
LEMMA CountedBooks ==
    ASSUME NEW t \in Trades, NEW w, Sound(w, t), NEW l \in Legs, Books(w.u, t, w.o, w.c),
           NEW a, a[l] = "counted"
    PROVE  LET v == CancelLeg(w, Quantity[t], l, a) IN Books(v.u, t, v.o, v.c)
<1> DEFINE v == CancelLeg(w, Quantity[t], l, a)
           n == w.u.oid[l]
           d == CancelOrder(w, n)
<1>0. w.u \in Trade /\ Named(w.u, t, w.o) /\ w.o \in Seq(Order) /\ OrdersOK(w.o)
  BY WorldFacts
<1>1. CASE w.u.oid[l] = None
  <2>1. v = w
    BY <1>1, CancelLegIs
  <2> QED
    BY <2>1
<1>2. CASE w.u.oid[l] # None
  <2>1. n \in 1..Len(w.o) /\ w.o[n].trade = t /\ w.o[n].leg = l
    BY <1>0, <1>2 DEF Named
  <2>2. /\ Sound(d, t) /\ d.u = w.u /\ KeepsOrders(t, w.o, d.o) /\ KeepsReports(w.u, w.c, d.c)
        /\ Len(d.o) = Len(w.o)
        /\ d.o[n].status # "live" /\ d.o[n].filled = w.o[n].filled
        /\ d.o[n].status = "closed" <=> w.o[n].status = "closed"
    BY <2>1, CancelOrderFacts
  <2>3. d.o \in Seq(Order) /\ OrdersOK(d.o) /\ Named(w.u, t, d.o)
    BY <2>2, WorldFacts
  <2>4. Books(w.u, t, d.o, d.c)
    BY <1>0, <2>2, <2>3, BooksKept
  <2>5. Core(w.u, t, d.o) /\ \A k \in Legs : LegOK(w.u, k, d.o, d.c)
    BY <2>4 DEF Books
  <2>6. Sound(v, t) /\ Dropped(w.u, v.u, l)
    BY CancelLegFacts
  <2>12. v.u.oid[l] = None
    <3>1. CASE l = "create"
      BY <1>2, <3>1, DroppedEntry DEF EntryDropped
    <3>2. CASE l # "create"
      <4>1. l \in ExitLegs
        BY <1>0, <3>2, TradeFacts
      <4> QED
        BY <1>2, <4>1, DroppedExit DEF ExitDropped
    <3> QED
      BY <3>1, <3>2
  <2>7. v.u \in Trade
    BY <2>6, WorldFacts
  <2>8. n \in 1..Len(d.o) /\ d.o[n].trade = t /\ d.o[n].leg = l /\ d.o[n].filled \in Nat
        /\ d.o[n].filled <= d.o[n].qty /\ d.o[n].qty \in Nat
    <3>1. n \in 1..Len(d.o) /\ d.o[n].trade = t /\ d.o[n].leg = l
      BY <2>1, <2>2 DEF KeepsOrders
    <3>2. /\ d.o[n].filled \in Nat
          /\ d.o[n].filled <= d.o[n].qty /\ d.o[n].qty \in Nat
      BY <2>3, <3>1, OrderFacts
    <3> QED
      BY <3>1, <3>2
  <2>9. v.o = d.o /\ v.c = d.c /\ Core(v.u, t, d.o)
    <3>1. CASE l = "create"
      <4>1. /\ v.u.oid["create"] = None
            /\ SameOthers(w.u, v.u, "create") /\ SameFlags(w.u, v.u)
            /\ v.u.x = w.u.x /\ v.u.exit = w.u.exit
            /\ w.o[n].filled <= w.u.e =>
                 v.u.e = w.u.e /\ v.u.dirty = w.u.dirty /\ v.u.entry = w.u.entry
            /\ w.o[n].filled > w.u.e =>
                 /\ v.u.e = w.o[n].filled /\ v.u.dirty
                 /\ v.u.entry \in {"partially_filled", "filled"}
            /\ v.o = d.o /\ v.c = d.c
        BY <1>2, <3>1, DroppedEntry DEF EntryDropped
      <4>2. w.u.e <= d.o[n].filled /\ w.u.e \in Nat /\ v.u.e \in Nat
        <5>1. Counted(w.u, "create") <= d.o[n].filled
          BY <1>2, <2>5, <3>1 DEF LegOK
        <5> QED
          BY <1>0, <2>7, <5>1, TradeFacts DEF Counted
      <4>3. States(w.u, t)
        BY <2>5 DEF Core
      <4> HIDE DEF v, d
      <4>9. w.o[n].filled \in Nat /\ w.o[n].filled = d.o[n].filled
        BY <2>2, <2>8
      <4>4. v.u.e = d.o[n].filled
        BY <4>1, <4>2, <4>9
      <4>5. v.u.entry \in {"partially_filled", "filled"} <=> v.u.e > 0
        BY <4>1, <4>2, <4>3, <4>9 DEF States
      <4>6. v.u.e > w.u.e => v.u.dirty
        BY <4>1, <4>2, <4>9
      <4>7. v.u.e = w.u.e => v.u.dirty = w.u.dirty /\ v.u.entry = w.u.entry
        BY <4>1, <4>2, <4>9
      <4>8. Core(v.u, t, d.o)
        <5> DEFINE vu == v.u
                   wu == w.u
                   os == d.o
        <5>1. vu \in Trade /\ wu \in Trade /\ OrdersOK(os) /\ Named(wu, t, os) /\ Core(wu, t, os)
          BY <1>0, <2>3, <2>5, <2>7
        <5>4. wu.oid["create"] # None /\ os[wu.oid["create"]].status # "live"
          BY <1>2, <2>2, <3>1
        <5>5. /\ wu.e <= vu.e /\ vu.e <= os[wu.oid["create"]].filled
              /\ vu.oid["create"] = None /\ vu.e = os[wu.oid["create"]].filled
          BY <3>1, <4>1, <4>2, <4>4
        <5>6. SameOthers(wu, vu, "create") /\ SameFlags(wu, vu) /\ vu.x = wu.x /\ vu.exit = wu.exit
          BY <4>1
        <5>7. /\ vu.e > wu.e => vu.dirty
              /\ vu.e = wu.e => vu.dirty = wu.dirty
              /\ vu.e = wu.e => vu.entry = wu.entry \/ vu.entry \notin {"partially_filled", "filled"}
          BY <4>6, <4>7
        <5>2. vu.entry \in {"partially_filled", "filled"} <=> vu.e > 0
          BY <4>5
        <5> HIDE DEF vu, wu, os
        <5>3. Core(vu, t, os)
          BY <5>1, <5>2, <5>4, <5>5, <5>6, <5>7, CountEntry
        <5> QED
          BY <5>3 DEF vu, os
      <4> QED
        BY <4>1, <4>8
    <3>2. CASE l # "create"
      <4>0. l \in ExitLegs
        BY <1>0, <3>2, TradeFacts
      <4> DEFINE f == w.o[n].filled
                 k == Late(w.u, l, f)
                 full == w.o[n].status = "closed"
      <4>1. /\ v.u.oid[l] = None /\ k \in Nat
            /\ SameOthers(w.u, v.u, l) /\ SameFlags(w.u, v.u)
            /\ v.u.x = w.u.x + k /\ v.u.entry = w.u.entry /\ v.u.e = w.u.e
            /\ v.u.dirty = w.u.dirty
            /\ \/ v.u.exit = w.u.exit /\ k = 0
               \/ v.u.exit = ExitState(w.u, Quantity[t], w.u.x + k, full)
            /\ v.o = d.o /\ v.c = d.c
        BY <1>2, <4>0, DroppedExit DEF ExitDropped
      <4>2. \A j \in ExitLegs : w.u.oid[j] # None =>
               w.u.exec[j] <= d.o[w.u.oid[j]].filled /\ w.u.qty[j] = d.o[w.u.oid[j]].qty
        <5> SUFFICES ASSUME NEW j \in ExitLegs, w.u.oid[j] # None
                     PROVE w.u.exec[j] <= d.o[w.u.oid[j]].filled /\ w.u.qty[j] = d.o[w.u.oid[j]].qty
          OBVIOUS
        <5>1. LegOK(w.u, j, d.o, d.c) /\ j # "create"
          BY <2>5, <1>0, TradeFacts
        <5> QED
          BY <5>1 DEF LegOK, Counted
      <4>3. \A j \in ExitLegs : w.u.oid[j] # None => w.u.exec[j] <= w.u.qty[j]
        <5> SUFFICES ASSUME NEW j \in ExitLegs, w.u.oid[j] # None
                     PROVE w.u.exec[j] <= w.u.qty[j]
          OBVIOUS
        <5>1. w.u.oid[j] \in 1..Len(d.o) /\ w.u.exec[j] \in Nat
          BY <1>0, <2>3, TradeFacts DEF Named
        <5>2. LET o == d.o[w.u.oid[j]] IN o.filled <= o.qty /\ o.filled \in Nat /\ o.qty \in Nat
          BY <2>3, <5>1, OrderFacts
        <5> QED
          BY <4>2, <5>1, <5>2
      <4>4. w.u.exec[l] \in Nat /\ w.u.exec[l] <= f /\ f \in Nat /\ f = d.o[n].filled
        BY <1>0, <1>2, <2>2, <2>8, <4>0, <4>2, TradeFacts
      <4> HIDE DEF v, d
      <4>5. w.u.exec[l] + k = f /\ w.u.exec[l] + k <= w.u.qty[l]
        <5>1. w.u.qty[l] = d.o[n].qty
          BY <1>2, <4>0, <4>2
        <5> QED
          BY <2>8, <4>4, <5>1 DEF Late
      <4>6. full => EmptiedOf(d.o, t)
        <5>1. ASSUME full PROVE EmptiedOf(d.o, t)
          <6>1. d.o[n].status = "closed" /\ n \in DOMAIN d.o
            BY <2>2, <2>3, <2>8, <5>1
          <6> QED
            BY <2>8, <4>0, <6>1 DEF EmptiedOf
        <5> QED
          BY <5>1
      <4>7. full \in BOOLEAN
        OBVIOUS
      <4>8. Core(v.u, t, d.o)
        <5> DEFINE vu == v.u
                   wu == w.u
                   os == d.o
        <5>1. /\ vu \in Trade /\ wu \in Trade /\ OrdersOK(os) /\ Named(wu, t, os) /\ Core(wu, t, os)
              /\ wu.oid[l] # None /\ k \in Nat
              /\ wu.exec[l] + k <= os[wu.oid[l]].filled
              /\ \A j \in ExitLegs : wu.oid[j] # None => wu.exec[j] <= wu.qty[j]
              /\ wu.exec[l] + k <= wu.qty[l]
              /\ SameOthers(wu, vu, l) /\ SameFlags(wu, vu)
              /\ vu.x = wu.x + k /\ vu.entry = wu.entry /\ vu.e = wu.e /\ vu.dirty = wu.dirty
              /\ full => EmptiedOf(os, t)
              /\ vu.oid[l] = None /\ wu.exec[l] + k = os[wu.oid[l]].filled
              /\ os[wu.oid[l]].status # "live"
          <6> HIDE DEF k, full
          <6>1. f <= d.o[n].filled
            BY <4>4
          <6> QED
            BY <1>0, <1>2, <2>2, <2>3, <2>5, <2>7, <4>1, <4>3, <4>4, <4>5, <4>6, <6>1
        <5>2. \/ vu.exit = wu.exit /\ k = 0
              \/ vu.exit = ExitState(wu, Quantity[t], wu.x + k, full)
          BY <4>1
        <5> HIDE DEF vu, wu, os, k, full
        <5>3. Core(vu, t, os)
          BY <4>0, <4>7, <5>1, <5>2, CountExit
        <5> QED
          BY <5>3 DEF vu, os
      <4> QED
        BY <4>1, <4>8
    <3> QED
      BY <3>1, <3>2
  <2> HIDE DEF v, d
  <2>10. LegOK(v.u, l, d.o, d.c)
    BY <2>12 DEF LegOK
  <2>11. \A k \in Legs : LegOK(v.u, k, d.o, d.c)
    BY <1>0, <2>5, <2>6, <2>7, <2>10, LegsKept DEF Dropped
  <2> QED
    BY <2>9, <2>11 DEF Books, v
<1> QED
  BY <1>1, <1>2

\* The books stay right whatever the answer: without one of order_info, they say
\* less of that trade.
LEMMA CancelLegBooks ==
    ASSUME NEW t \in Trades, NEW w, Sound(w, t), NEW l \in Legs, Books(w.u, t, w.o, w.c),
           NEW a, w.u.oid[l] # None => a[l] \in CancelAnswers
    PROVE  LET v == CancelLeg(w, Quantity[t], l, a) IN Books(v.u, t, v.o, v.c)
<1> DEFINE v == CancelLeg(w, Quantity[t], l, a)
           d == Called(w, w.u.oid[l], a[l])
<1>0. /\ w = [u |-> w.u, o |-> w.o, c |-> w.c]
      /\ w.u \in Trade /\ Named(w.u, t, w.o) /\ w.o \in Seq(Order) /\ OrdersOK(w.o)
  BY WorldFacts
<1>1. CASE w.u.oid[l] = None
  <2>1. v = w
    BY <1>1, CancelLegIs
  <2> QED
    BY <2>1
<1>2. CASE w.u.oid[l] # None
  <2>1. /\ Sound(d, t) /\ d.u = w.u /\ KeepsOrders(t, w.o, d.o) /\ KeepsReports(w.u, w.c, d.c)
    BY <1>2, CalledFacts
  <2>2. /\ d = [u |-> d.u, o |-> d.o, c |-> d.c]
        /\ d.o \in Seq(Order) /\ OrdersOK(d.o) /\ Named(w.u, t, d.o)
    BY <2>1, WorldFacts
  <2>3. Books(w.u, t, d.o, d.c)
    BY <1>0, <2>1, <2>2, BooksKept
  <2>4. v = Canceled(w, Quantity[t], l, a[l])
    BY <1>2, CancelLegIs
  <2>5. CASE a[l] \in {"refused", "lost"}
    <3>1. v = d
      BY <2>4, <2>5 DEF Canceled, Called
    <3> HIDE DEF v, d
    <3> QED
      BY <2>1, <2>3, <3>1 DEF v
  <2>6. CASE a[l] \in {"blind", "unknown"}
    <3> DEFINE u2 == BlindReset(w.u, l)
    <3>1. v = [d EXCEPT !.u = u2]
      BY <2>4, <2>6 DEF Canceled, Called
    <3>3. Books(u2, t, d.o, d.c)
      BY <1>0, <2>2, <2>3, ResetBooks
    <3> HIDE DEF v, d, u2
    <3>4. v.u = u2 /\ v.o = d.o /\ v.c = d.c
      BY <2>2, <3>1
    <3> QED
      BY <3>3, <3>4 DEF v
  <2>7. CASE a[l] = "counted"
    BY <2>7, CountedBooks
  <2> QED
    BY <1>2, <2>5, <2>6, <2>7 DEF CancelAnswers
<1> QED
  BY <1>1, <1>2

-----------------------------------------------------------------------------
(***************************************************************************)
(* An exit order is placed, or replaced.                                   *)
(***************************************************************************)

\* u and v believe the same, but v may have more flags, and another exit state.
SameBelief(u, v) ==
    /\ v.entry = u.entry /\ v.e = u.e /\ v.x = u.x
    /\ v.dirty = u.dirty /\ v.position = u.position /\ (u.blind => v.blind)
    /\ u.closing => v.closing
    /\ u.tp => v.tp
    /\ u.sl => v.sl

\* The orders that are left cover what the trade holds, if they have to.
Guarded(u, t, os) ==
    \/ u.dirty \/ u.closing \/ EmptiedOf(os, t)
    \/ \A l \in ExitLegs : u.oid[l] # None => u.qty[l] - u.exec[l] >= u.e - u.x

\* The fields of a leg without an order do not matter.
LEMMA SameBooks ==
    ASSUME NEW u \in Trade, NEW v \in Trade, NEW t \in Trades, NEW os, NEW c,
           SameBelief(u, v), v.exit = u.exit \/ (v.exit = "error" /\ Guarded(u, t, os)),
           \A l \in Legs : v.oid[l] = u.oid[l],
           \A l \in ExitLegs : v.oid[l] # None => v.qty[l] = u.qty[l] /\ v.exec[l] = u.exec[l],
           Books(u, t, os, c)
    PROVE  Books(v, t, os, c)
<1>0. Core(u, t, os) /\ ExitLegs \subseteq Legs /\ "create" \in Legs
  BY TradeFacts DEF Books
<1>1. Held(v, t, os)
  <2>1. u.oid \in [Legs -> 0..MaxOrders] /\ v.oid \in [Legs -> 0..MaxOrders]
    BY DEF Trade
  <2>2. v.oid = u.oid
    BY <2>1
  <2> QED
    BY <1>0, <2>2 DEF Core, Held, SameBelief
<1>2. Entered(v, t, os)
  BY <1>0 DEF Core, Entered, SameBelief
<1>3. Exited(v, t, os)
  <2>1. Uncounted(v, "stop", os) = Uncounted(u, "stop", os) /\ Uncounted(v, "limit", os) = Uncounted(u, "limit", os)
    BY <1>0 DEF Uncounted, ExitLegs
  <2> QED
    BY <1>0, <2>1 DEF Core, Exited, SameBelief
<1>4. States(v, t)
  BY <1>0 DEF Core, States, SameBelief, ExitLegs
<1>5. ASSUME ~EmptiedOf(os, t) PROVE Covering(v)
  <2>1. Covering(u)
    BY <1>0, <1>5 DEF Core
  <2>2. CASE v.exit = u.exit
    BY <1>0, <2>1, <2>2 DEF Covering, SameBelief, IsActive, IsClosed
  <2>3. CASE v.exit = "error" /\ Guarded(u, t, os)
    BY <1>0, <1>5, <2>3 DEF Covering, SameBelief, Guarded
  <2> QED
    BY <2>2, <2>3
<1>6. ASSUME NEW l \in Legs PROVE LegOK(v, l, os, c)
  <2>1. v.oid[l] = u.oid[l] /\ LegOK(u, l, os, c)
    BY DEF Books
  <2>2. v.oid[l] # None => Counted(v, l) = Counted(u, l) /\ (l # "create" => v.qty[l] = u.qty[l])
    BY <1>0, TradeFacts DEF Counted, SameBelief
  <2> QED
    BY <2>1, <2>2 DEF LegOK
<1> QED
  BY <1>1, <1>2, <1>3, <1>4, <1>5, <1>6 DEF Books, Core

\* The order of k lots that is placed.
NewOrder(t, l, k) == [trade |-> t, leg |-> l, qty |-> k, filled |-> 0, status |-> "live"]

\* One more order.
LEMMA PlacedOrders ==
    ASSUME NEW os, OrdersOK(os), Len(os) + 1 <= MaxOrders, NEW t \in Trades,
           NEW l \in Legs, NEW k \in Nat \ {0}, l = "create" => k = Quantity[t],
           NEW c, Reports(c, os)
    PROVE  LET o == NewOrder(t, l, k)
               os2 == Append(os, o)
           IN  /\ OrdersOK(os2) /\ Reports(c, os2) /\ Len(os2) = Len(os) + 1
               /\ os2[Len(os) + 1] = o /\ (\A n \in 1..Len(os) : os2[n] = os[n])
               /\ \A s : s # t => KeepsOrders(s, os, os2)
               /\ \A s \in Trades : \A legs : TotalOf(os2, s, legs) = TotalOf(os, s, legs)
               /\ EmptiedOf(os2, t) <=> EmptiedOf(os, t)
<1> DEFINE o == NewOrder(t, l, k)
           os2 == Append(os, o)
<1>1. /\ o \in Order /\ o.trade = t /\ o.leg = l /\ o.qty = k /\ o.filled = 0 /\ o.status = "live"
  BY DEF NewOrder, Order
<1>2. OrderOK(o)
  BY <1>1 DEF OrderOK
<1>3. os \in Seq(Order) /\ Len(os) \in Nat /\ DOMAIN os = 1..Len(os)
  BY DEF OrdersOK
<1> HIDE DEF o
<1>4. /\ os2 \in Seq(Order) /\ Len(os2) = Len(os) + 1 /\ DOMAIN os2 = 1..(Len(os) + 1)
      /\ os2[Len(os) + 1] = o /\ \A n \in 1..Len(os) : os2[n] = os[n]
  BY <1>1, <1>3
<1> HIDE DEF os2
<1>5. OrdersOK(os2)
  <2>1. ASSUME NEW n \in 1..Len(os2) PROVE OrderOK(os2[n])
    <3>1. n \in 1..Len(os) \/ n = Len(os) + 1
      BY <1>3, <1>4
    <3> QED
      BY <1>2, <1>4, <3>1 DEF OrdersOK
  <2> QED
    BY <1>4, <2>1 DEF OrdersOK
<1>6. Reports(c, os2)
  <2>1. Len(os) <= Len(os2)
    BY <1>3, <1>4
  <2> QED
    BY <1>3, <1>4, <2>1, ReportsCanceled
<1>7. ASSUME NEW s, s # t PROVE KeepsOrders(s, os, os2)
  <2>1. Len(os) <= Len(os2)
    BY <1>3, <1>4
  <2>2. \A n \in Len(os) + 1..Len(os2) : n = Len(os) + 1
    BY <1>3, <1>4
  <2>3. \A n \in Len(os) + 1..Len(os2) : os2[n].trade # s
    BY <1>1, <1>4, <1>7, <2>2
  <2> QED
    BY <1>4, <2>1, <2>3 DEF KeepsOrders
<1>8. ASSUME NEW s \in Trades, NEW legs PROVE TotalOf(os2, s, legs) = TotalOf(os, s, legs)
  <2> DEFINE m == Len(os) + 1
             f == [n \in DOMAIN os |-> os[n].filled]
             f2 == [n \in DOMAIN os2 |-> os2[n].filled]
             R == {n \in DOMAIN os : os[n].trade = s /\ os[n].leg \in legs}
             R2 == {n \in DOMAIN os2 : os2[n].trade = s /\ os2[n].leg \in legs}
  <2>1. \A n \in DOMAIN os : os2[n] = os[n] /\ n \in DOMAIN os2 /\ n # m
    BY <1>3, <1>4
  <2>2. \A n \in DOMAIN os2 : n \in DOMAIN os \/ n = m
    BY <1>3, <1>4
  <2>3. Sum(f2, R) = Sum(f, R)
    <3>1. \A n \in R : f2[n] = f[n]
      BY <2>1
    <3> HIDE DEF f, f2, R
    <3> QED
      BY <3>1, SumSame
  <2>4. R2 = R \/ R2 = R \union {m}
    <3>1. \A n \in R : n \in R2
      BY <2>1
    <3>2. \A n \in R2 : n \in R \/ n = m
      BY <2>1, <2>2
    <3> HIDE DEF R, R2, m
    <3> QED
      BY <3>1, <3>2
  <2>5. Sum(f2, R2) = Sum(f, R)
    <3>1. CASE R2 = R
      BY <2>3, <3>1
    <3>2. CASE R2 = R \union {m}
      <4>1. IsFiniteSet(R)
        <5>1. IsFiniteSet(1..Len(os)) /\ R \subseteq 1..Len(os)
          BY <1>3, FS_Interval
        <5> HIDE DEF R
        <5> QED
          BY <5>1, FS_Subset
      <4>2. m \notin R
        BY <2>1
      <4> DEFINE g == [n \in R \union {m} |-> f2[n]]
      <4>3. \A n \in R \union {m} : f2[n] \in Int
        <5>1. \A n \in DOMAIN os2 : os2[n].filled \in Nat
          BY <1>5, OrderFacts
        <5>2. \A n \in R \union {m} : n \in DOMAIN os2
          BY <3>2
        <5> QED
          BY <5>1, <5>2
      <4>4. f2[m] = 0
        BY <1>1, <1>3, <1>4
      <4> HIDE DEF R, m, f2
      <4>5. g \in [R \union {m} -> Int] /\ g[m] = 0 /\ \A n \in R \union {m} : g[n] = f2[n]
        BY <4>3, <4>4
      <4> HIDE DEF g
      <4>6. Sum(g, R) \in Int /\ Sum(g, R \union {m}) = Sum(g, R) + 0
        BY <4>1, <4>2, <4>5, SumGrows
      <4>7. Sum(g, R) = Sum(f2, R) /\ Sum(g, R \union {m}) = Sum(f2, R \union {m})
        <5>1. \A n \in R : g[n] = f2[n]
          BY <4>5
        <5> QED
          BY <4>5, <5>1, SumSame
      <4> HIDE DEF f, R2
      <4>8. Sum(f2, R \union {m}) = Sum(f2, R)
        BY <4>6, <4>7
      <4> QED
        BY <2>3, <3>2, <4>8
    <3> QED
      BY <2>4, <3>1, <3>2
  <2>6. TotalOf(os2, s, legs) = Sum(f2, R2) /\ TotalOf(os, s, legs) = Sum(f, R)
    BY DEF TotalOf
  <2> QED
    BY <2>5, <2>6
<1>9. EmptiedOf(os2, t) <=> EmptiedOf(os, t)
  <2>1. \A n \in DOMAIN os2 : n \in DOMAIN os \/ n = Len(os) + 1
    BY <1>3, <1>4
  <2>2. \A n \in DOMAIN os : n \in DOMAIN os2 /\ os2[n] = os[n]
    BY <1>3, <1>4
  <2> QED
    BY <1>1, <1>4, <2>1, <2>2 DEF EmptiedOf
<1> QED
  BY <1>4, <1>5, <1>6, <1>7, <1>8, <1>9 DEF os2, o

\* An exit order is placed for what remains: the books stay right once the trade
\* says that it wants it.
LEMMA PlacedBooks ==
    ASSUME NEW os, OrdersOK(os), Len(os) + 1 <= MaxOrders, NEW t \in Trades,
           NEW l \in ExitLegs, NEW u \in Trade, NEW v \in Trade, NEW c, Reports(c, os),
           Named(u, t, os), Books(u, t, os, c), u.oid[l] = None, u.x < u.e,
           SameBelief(u, v), v.exit = u.exit, SameOthers(u, v, l),
           v.oid[l] = Len(os) + 1, v.qty[l] = u.e - u.x, v.exec[l] = 0,
           v.closing \/ (IF l = "limit" THEN v.tp ELSE v.sl)
    PROVE  LET os2 == Append(os, NewOrder(t, l, u.e - u.x))
           IN  Named(v, t, os2) /\ Books(v, t, os2, c)
<1> DEFINE k == u.e - u.x
           os2 == Append(os, NewOrder(t, l, k))
           m == Len(os) + 1
<1>0. /\ ExitLegs \subseteq Legs /\ "create" \in Legs /\ l # "create" /\ l \in Legs /\ Legs \ {"create"} = ExitLegs
      /\ u.e \in Nat /\ u.x \in Nat /\ "create" \notin ExitLegs
  BY TradeFacts
<1>1. k \in Nat \ {0}
  BY <1>0
<1>2. Core(u, t, os) /\ (\A j \in Legs : LegOK(u, j, os, c)) /\ Len(os) \in Nat /\ DOMAIN os = 1..Len(os)
  BY DEF Books, OrdersOK
<1>3. /\ OrdersOK(os2) /\ Reports(c, os2) /\ Len(os2) = Len(os) + 1
      /\ os2[m] = NewOrder(t, l, k) /\ (\A n \in 1..Len(os) : os2[n] = os[n])
      /\ \A s \in Trades : \A legs : TotalOf(os2, s, legs) = TotalOf(os, s, legs)
      /\ EmptiedOf(os2, t) <=> EmptiedOf(os, t)
  <2> HIDE DEF k
  <2> QED
    BY <1>0, <1>1, PlacedOrders
<1>4. os2[m].trade = t /\ os2[m].leg = l /\ os2[m].qty = k /\ os2[m].filled = 0 /\ os2[m].status = "live"
  BY <1>3 DEF NewOrder
<1> HIDE DEF os2
<1>5. \A n \in 1..Len(os2) : n \in 1..Len(os) \/ n = m
  BY <1>2, <1>3
<1>6. \A n \in 1..Len(os) : n \in 1..Len(os2) /\ n # m
  BY <1>2, <1>3
<1>7. m \in 1..Len(os2) /\ m # None /\ m \in Nat
  BY <1>2, <1>3 DEF None
<1>8. \A j \in Legs \ {l} : v.oid[j] = u.oid[j]
  BY DEF SameOthers
<1>9. Named(v, t, os2)
  <2> SUFFICES ASSUME NEW j \in Legs, v.oid[j] # None
               PROVE  /\ v.oid[j] \in 1..Len(os2)
                      /\ os2[v.oid[j]].trade = t /\ os2[v.oid[j]].leg = j
    BY DEF Named
  <2>1. CASE j = l
    BY <1>4, <1>7, <2>1
  <2>2. CASE j # l
    BY <1>3, <1>6, <1>8, <2>2 DEF Named
  <2> QED
    BY <2>1, <2>2
<1>10. Held(v, t, os2)
  <2> SUFFICES ASSUME NEW n \in 1..Len(os2), os2[n].trade = t, os2[n].status = "live", ~v.blind
               PROVE  v.oid[os2[n].leg] = n
    BY DEF Held
  <2>1. CASE n = m
    BY <1>4, <2>1
  <2>2. CASE n \in 1..Len(os)
    <3>1. u.oid[os[n].leg] = n /\ os2[n].leg = os[n].leg
      BY <1>2, <1>3, <2>2 DEF Core, Held, SameBelief
    <3>2. os[n].leg \in Legs
      BY <2>2, OrderFacts
    <3>3. os[n].leg # l
      BY <2>2, <3>1 DEF None
    <3> QED
      BY <1>8, <3>1, <3>2, <3>3
  <2> QED
    BY <1>5, <2>1, <2>2
<1>11. Entered(v, t, os2)
  <2>1. PICK i \in 1..Len(os) : /\ os[i].trade = t /\ os[i].leg = "create"
                                /\ \A n \in 1..Len(os) : os[n].trade = t /\ os[n].leg = "create" => n = i
                                /\ u.e <= os[i].filled
                                /\ ~u.blind /\ u.oid["create"] = None => u.e = os[i].filled
    BY <1>2 DEF Core, Entered
  <2>2. os[i].trade = t /\ os[i].leg = "create"
    BY <2>1
  <2>3. i \in 1..Len(os2) /\ os2[i] = os[i]
    BY <1>3, <1>6
  <2>4. \A n \in 1..Len(os2) : os2[n].trade = t /\ os2[n].leg = "create" => n = i
    <3> SUFFICES ASSUME NEW n \in 1..Len(os2), os2[n].trade = t, os2[n].leg = "create" PROVE n = i
      OBVIOUS
    <3>1. n \in 1..Len(os)
      BY <1>0, <1>4, <1>5
    <3> QED
      BY <1>3, <2>1, <3>1
  <2>5. v.oid["create"] = u.oid["create"]
    BY <1>0, <1>8
  <2> QED
    BY <2>1, <2>2, <2>3, <2>4, <2>5 DEF Entered, SameBelief
<1>12. \A j \in ExitLegs : u.oid[j] # None => os2[u.oid[j]] = os[u.oid[j]]
  BY <1>0, <1>3 DEF Named
<1>13. Exited(v, t, os2)
  <2>1. Uncounted(v, l, os2) = 0 /\ Uncounted(u, l, os) = 0
    BY <1>4, <1>7 DEF Uncounted
  <2>2. \A j \in ExitLegs \ {l} : Uncounted(v, j, os2) = Uncounted(u, j, os)
    BY <1>0, <1>8, <1>12 DEF Uncounted, SameOthers
  <2>3. \A j \in ExitLegs : Uncounted(v, j, os2) = Uncounted(u, j, os)
    BY <2>1, <2>2
  <2>4. TotalOf(os2, t, ExitLegs) = TotalOf(os, t, ExitLegs)
    BY <1>3
  <2> QED
    BY <1>2, <2>3, <2>4 DEF Core, Exited, ExitLegs, SameBelief
<1>14. States(v, t)
  <2>1. States(u, t) /\ v.oid["create"] = u.oid["create"]
    BY <1>0, <1>2, <1>8 DEF Core
  <2>2. ~v.closing => /\ v.oid["limit"] # None => v.tp
                      /\ v.oid["stop"] # None => v.sl
    BY <1>0, <1>8, <2>1 DEF States, SameBelief, ExitLegs
  <2> QED
    BY <2>1, <2>2 DEF States, SameBelief
<1>15. ASSUME ~EmptiedOf(os2, t) PROVE Covering(v)
  <2>1. Covering(u)
    BY <1>2, <1>3, <1>15 DEF Core
  <2>2. ASSUME ~v.dirty, ~v.closing, IsActive(v), NEW j \in ExitLegs, v.oid[j] # None
        PROVE  v.qty[j] - v.exec[j] >= v.e - v.x
    <3>1. ~u.dirty /\ ~u.closing /\ IsActive(u)
      BY <2>2 DEF SameBelief, IsActive, IsClosed
    <3>2. CASE j = l
      BY <1>0, <3>2 DEF SameBelief
    <3>3. CASE j # l
      <4>1. v.qty[j] = u.qty[j] /\ v.exec[j] = u.exec[j] /\ u.oid[j] # None
        BY <1>0, <1>8, <2>2, <3>3 DEF SameOthers
      <4> QED
        BY <2>1, <3>1, <4>1 DEF Covering, SameBelief
    <3> QED
      BY <3>2, <3>3
  <2> QED
    BY <2>1, <2>2 DEF Covering, SameBelief
<1>16. ASSUME NEW j \in Legs PROVE LegOK(v, j, os2, c)
  <2>1. CASE j = l
    <3>1. \A i \in 1..Len(c) : ~Executes(c[i], m)
      <4> SUFFICES ASSUME NEW i \in 1..Len(c), Executes(c[i], m) PROVE FALSE
        OBVIOUS
      <4>1. ReportOK(c[i], os)
        BY DEF Reports
      <4>2. c[i].id \in 1..Len(os)
        BY <4>1 DEF ReportOK, Executes, OrderReports
      <4> QED
        BY <1>6, <4>2 DEF Executes
    <3>2. Counted(v, l) = 0
      BY <1>0 DEF Counted
    <3> HIDE DEF m, k
    <3> QED
      BY <1>0, <1>4, <2>1, <3>1, <3>2 DEF LegOK, m, k
  <2>2. CASE j # l
    <3>1. v.oid[j] = u.oid[j] /\ LegOK(u, j, os, c)
      BY <1>2, <1>8, <2>2
    <3>2. Counted(v, j) = Counted(u, j) /\ (j # "create" => v.qty[j] = u.qty[j])
      BY <1>0, <2>2 DEF Counted, SameBelief, SameOthers
    <3>3. u.oid[j] # None => os2[u.oid[j]] = os[u.oid[j]]
      BY <1>3 DEF Named
    <3> QED
      BY <3>1, <3>2, <3>3 DEF LegOK
  <2> QED
    BY <2>1, <2>2
<1> QED
  BY <1>9, <1>10, <1>11, <1>13, <1>14, <1>15, <1>16 DEF Books, Core, os2

\* The world after an exit order was asked for: the exchange takes it, or not.
LEMMA PlaceExitFacts ==
    ASSUME NEW t \in Trades, NEW w, Sound(w, t), NEW l \in ExitLegs,
           w.u.oid[l] = None, w.u.x < w.u.e, Len(w.o) + 1 <= MaxOrders, NEW r
    PROVE  LET p == PlaceExit(w, t, l, r)
           IN  /\ Sound(p, t) /\ Evolves(t, w, p) /\ Len(p.o) <= Len(w.o) + 1 /\ p.c = w.c
               /\ SameOthers(w.u, p.u, l) /\ SameFlags(w.u, p.u) /\ SameBelief(w.u, p.u)
               /\ p.u.exit \in {w.u.exit, "error"}
               /\ p.u.oid[l] = None => p.o = w.o
               /\ p.u.oid[l] # None =>
                    /\ p.u.exit = w.u.exit
                    /\ p.u.oid[l] = Len(w.o) + 1 /\ p.u.qty[l] = w.u.e - w.u.x
                    /\ p.u.exec[l] = 0
                    /\ p.o = Append(w.o, NewOrder(t, l, w.u.e - w.u.x))
<1> DEFINE p == PlaceExit(w, t, l, r)
           k == w.u.e - w.u.x
           o2 == Append(w.o, NewOrder(t, l, k))
           m == Len(w.o) + 1
           u == w.u
<1>0. /\ w = [u |-> w.u, o |-> w.o, c |-> w.c]
      /\ w.u \in Trade /\ w.o \in Seq(Order) /\ w.c \in Seq(Report)
      /\ Len(w.o) \in Nat /\ OrdersOK(w.o) /\ Reports(w.c, w.o) /\ Named(w.u, t, w.o)
  BY WorldFacts
<1>1. l \in Legs /\ l # "create" /\ u.e \in Nat /\ u.x \in Nat /\ MaxOrders \in Nat
  BY <1>0, TradeFacts
<1>2. k \in Nat \ {0} /\ m \in 0..MaxOrders /\ m # None /\ m \in Nat
  BY <1>0, <1>1 DEF None
<1>3. CASE ~(r = "accepted" /\ position > 0)
  <2> DEFINE z == ResetLeg(u, l)
             v == IF r = "margin" THEN [z EXCEPT !.exit = "error"] ELSE z
  <2>1. p = [w EXCEPT !.u = v]
    BY <1>3 DEF PlaceExit
  <2>2. /\ v \in Trade /\ v.oid[l] = None
        /\ SameOthers(u, v, l) /\ SameFlags(u, v)
        /\ v.entry = u.entry /\ v.exit \in {u.exit, "error"}
        /\ v.e = u.e /\ v.x = u.x /\ v.dirty = u.dirty
    <3>1. /\ z \in Trade /\ z.oid[l] = None
          /\ SameOthers(u, z, l) /\ SameFlags(u, z)
          /\ z.entry = u.entry /\ z.exit = u.exit
          /\ z.e = u.e /\ z.x = u.x /\ z.dirty = u.dirty
      BY <1>0, <1>1, ResetLegFacts
    <3> HIDE DEF z
    <3>2. CASE r = "margin"
      <4>1. /\ v \in Trade /\ v.oid = z.oid /\ v.qty = z.qty /\ v.exec = z.exec
            /\ v.entry = z.entry /\ v.exit = "error" /\ v.e = z.e /\ v.x = z.x
            /\ v.dirty = z.dirty /\ SameFlags(z, v)
        BY <3>1, <3>2 DEF Trade, SameFlags
      <4> QED
        BY <3>1, <4>1 DEF SameOthers, SameFlags
    <3>3. CASE r # "margin"
      BY <3>1, <3>3
    <3> QED
      BY <3>2, <3>3
  <2> HIDE DEF v, p
  <2>3. p = [u |-> v, o |-> w.o, c |-> w.c]
    BY <1>0, <2>1 DEF v
  <2>4. p.u = v /\ p.o = w.o /\ p.c = w.c
    BY <2>3
  <2>5. SameBelief(u, v)
    BY <2>2 DEF SameBelief, SameFlags
  <2>6. Named(v, t, w.o)
    BY <1>0, <2>2 DEF Named, SameOthers
  <2>7. Sound(p, t)
    BY <1>0, <2>2, <2>3, <2>4, <2>6 DEF Sound, Worlds
  <2>8. Evolves(t, w, p)
    <3>1. Learning(v) => Learning(u)
      BY <1>1, <2>2 DEF Learning, SameOthers, Legs
    <3> QED
      BY <2>4, <3>1, EvolvesSame
  <2>9. Len(p.o) <= Len(w.o) + 1
    BY <1>0, <2>4
  <2> QED
    BY <2>2, <2>4, <2>5, <2>7, <2>8, <2>9 DEF p
<1>4. CASE r = "accepted" /\ position > 0
  <2> DEFINE v == [u EXCEPT !.oid[l] = m, !.qty[l] = k, !.exec[l] = 0]
  <2>1. p = [u |-> v, o |-> o2, c |-> w.c]
    <3>1. p = [w EXCEPT !.u.oid[l] = m, !.u.qty[l] = k, !.u.exec[l] = 0, !.o = o2]
      BY <1>4 DEF PlaceExit, NewOrder
    <3>2. p = [w EXCEPT !.u = v, !.o = o2]
      BY <3>1
    <3> HIDE DEF p, v, o2
    <3> QED
      BY <1>0, <3>2
  <2>2. v = [u EXCEPT !.oid = [u.oid EXCEPT ![l] = m], !.qty = [u.qty EXCEPT ![l] = k],
                      !.exec = [u.exec EXCEPT ![l] = 0]]
    OBVIOUS
  <2>3. u.oid \in [Legs -> 0..MaxOrders] /\ u.qty \in [ExitLegs -> Nat] /\ u.exec \in [ExitLegs -> Nat]
    BY <1>0 DEF Trade
  <2> HIDE DEF v, k, m
  <2>4. /\ [u.oid EXCEPT ![l] = m] \in [Legs -> 0..MaxOrders]
        /\ [u.qty EXCEPT ![l] = k] \in [ExitLegs -> Nat]
        /\ [u.exec EXCEPT ![l] = 0] \in [ExitLegs -> Nat]
    BY <1>2, <2>3
  <2>5. v \in Trade
    BY <1>0, <2>2, <2>4 DEF Trade
  <2>6. /\ v.oid = [u.oid EXCEPT ![l] = m] /\ v.qty = [u.qty EXCEPT ![l] = k]
        /\ v.exec = [u.exec EXCEPT ![l] = 0]
        /\ v.entry = u.entry /\ v.exit = u.exit /\ v.e = u.e /\ v.x = u.x /\ v.dirty = u.dirty
        /\ v.tp = u.tp /\ v.sl = u.sl /\ v.closing = u.closing /\ v.position = u.position /\ v.blind = u.blind
    BY <1>0, <2>2 DEF Trade
  <2>7. /\ v.oid[l] = m /\ v.qty[l] = k /\ v.exec[l] = 0 /\ SameOthers(u, v, l)
        /\ v.exit = u.exit
    BY <1>1, <2>3, <2>6 DEF SameOthers
  <2>8. SameFlags(u, v) /\ SameBelief(u, v)
    BY <2>6 DEF SameFlags, SameBelief
  <2>9. /\ OrdersOK(o2) /\ Reports(w.c, o2) /\ Len(o2) = Len(w.o) + 1
        /\ o2[m] = NewOrder(t, l, k) /\ (\A n \in 1..Len(w.o) : o2[n] = w.o[n])
    BY <1>0, <1>1, <1>2, PlacedOrders DEF m
  <2> HIDE DEF o2, p
  <2>10. o2[m].trade = t /\ o2[m].leg = l
    BY <2>9 DEF NewOrder
  <2>11. p.u = v /\ p.o = o2 /\ p.c = w.c
    BY <2>1
  <2>12. m \in 1..Len(o2) /\ \A n \in 1..Len(w.o) : n \in 1..Len(o2)
    BY <1>0, <2>9 DEF m
  <2>13. Named(v, t, o2)
    <3> SUFFICES ASSUME NEW j \in Legs, v.oid[j] # None
                 PROVE  v.oid[j] \in 1..Len(o2) /\ o2[v.oid[j]].trade = t /\ o2[v.oid[j]].leg = j
      BY DEF Named
    <3>1. CASE j = l
      BY <2>7, <2>10, <2>12, <3>1
    <3>2. CASE j # l
      <4>1. v.oid[j] = u.oid[j]
        BY <2>7, <3>2 DEF SameOthers
      <4>2. u.oid[j] \in 1..Len(w.o) /\ w.o[u.oid[j]].trade = t /\ w.o[u.oid[j]].leg = j
        BY <1>0, <4>1 DEF Named
      <4> QED
        BY <2>9, <2>12, <4>1, <4>2
    <3> QED
      BY <3>1, <3>2
  <2>14. Sound(p, t)
    <3>1. o2 \in Seq(Order)
      BY <2>9 DEF OrdersOK
    <3> QED
      BY <1>0, <2>1, <2>5, <2>9, <2>11, <2>13, <3>1 DEF Sound, Worlds
  <2>15. Evolves(t, w, p)
    <3>1. \A n \in Len(w.o) + 1..Len(o2) : n = m
      BY <1>0, <2>9 DEF m
    <3>2. Len(w.c) + 1..Len(w.c) = {} /\ Len(w.c) <= Len(w.c) /\ Len(w.o) <= Len(o2)
      BY <1>0, <2>9
    <3>3. Learning(v) => Learning(u)
      BY <1>1, <2>6, <2>7 DEF Learning, SameOthers, Legs
    <3> QED
      BY <2>9, <2>10, <2>11, <3>1, <3>2, <3>3 DEF Evolves
  <2> QED
    BY <1>0, <1>2, <2>7, <2>8, <2>9, <2>11, <2>14, <2>15 DEF p, o2, m, k
<1> QED
  BY <1>3, <1>4

\* Its books, once the trade v wants it.
LEMMA PlaceExitBooks ==
    ASSUME NEW t \in Trades, NEW w, Sound(w, t), NEW l \in ExitLegs,
           w.u.oid[l] = None, w.u.x < w.u.e, Len(w.o) + 1 <= MaxOrders,
           Books(w.u, t, w.o, w.c), Guarded(w.u, t, w.o),
           NEW r, NEW p, p = PlaceExit(w, t, l, r), NEW v \in Trade,
           v.oid = p.u.oid, v.qty = p.u.qty, v.exec = p.u.exec, SameBelief(p.u, v),
           v.exit = p.u.exit,
           p.u.oid[l] # None => v.closing \/ (IF l = "limit" THEN v.tp ELSE v.sl)
    PROVE  Books(v, t, p.o, p.c)
<1>0. /\ w.u \in Trade /\ OrdersOK(w.o) /\ Reports(w.c, w.o) /\ Named(w.u, t, w.o)
  BY WorldFacts
<1>1. /\ p.c = w.c /\ Sound(p, t)
      /\ SameOthers(w.u, p.u, l) /\ SameBelief(w.u, p.u)
      /\ p.u.exit \in {w.u.exit, "error"}
      /\ p.u.oid[l] = None => p.o = w.o
      /\ p.u.oid[l] # None =>
           /\ p.u.exit = w.u.exit
           /\ p.u.oid[l] = Len(w.o) + 1 /\ p.u.qty[l] = w.u.e - w.u.x
           /\ p.u.exec[l] = 0
           /\ p.o = Append(w.o, NewOrder(t, l, w.u.e - w.u.x))
  BY PlaceExitFacts
<1>2. SameBelief(w.u, v) /\ SameOthers(w.u, v, l)
  BY <1>1 DEF SameBelief, SameOthers
<1>3. CASE p.u.oid[l] = None
  <2>1. \A j \in Legs : v.oid[j] = w.u.oid[j]
    BY <1>1, <1>3 DEF SameOthers
  <2>2. \A j \in ExitLegs : v.oid[j] # None => v.qty[j] = w.u.qty[j] /\ v.exec[j] = w.u.exec[j]
    BY <1>1, <1>3 DEF SameOthers
  <2>3. Books(v, t, w.o, w.c)
    BY <1>0, <1>1, <1>2, <2>1, <2>2, SameBooks
  <2> QED
    BY <1>1, <1>3, <2>3
<1>4. CASE p.u.oid[l] # None
  <2>1. v.oid[l] = Len(w.o) + 1 /\ v.qty[l] = w.u.e - w.u.x /\ v.exec[l] = 0
    BY <1>1, <1>4
  <2>2. Books(v, t, Append(w.o, NewOrder(t, l, w.u.e - w.u.x)), w.c)
    BY <1>0, <1>1, <1>2, <1>4, <2>1, PlacedBooks
  <2> QED
    BY <1>1, <1>4, <2>2
<1> QED
  BY <1>3, <1>4

\* The price of the leg is set.
Wants(p, l) == IF l = "limit" THEN [p EXCEPT !.u.tp = TRUE] ELSE [p EXCEPT !.u.sl = TRUE]

LEMMA WantsFacts ==
    ASSUME NEW t \in Trades, NEW p, Sound(p, t), NEW l \in ExitLegs
    PROVE  LET v == Wants(p, l)
           IN  /\ Sound(v, t) /\ Evolves(t, p, v) /\ v.o = p.o /\ v.c = p.c /\ v.u \in Trade
               /\ v.u.oid = p.u.oid /\ v.u.qty = p.u.qty /\ v.u.exec = p.u.exec
               /\ SameBelief(p.u, v.u) /\ v.u.exit = p.u.exit /\ v.u.closing = p.u.closing
               /\ IF l = "limit" THEN v.u.tp ELSE v.u.sl
<1> DEFINE v == Wants(p, l)
           u2 == IF l = "limit" THEN [p.u EXCEPT !.tp = TRUE] ELSE [p.u EXCEPT !.sl = TRUE]
<1>0. /\ p = [u |-> p.u, o |-> p.o, c |-> p.c]
      /\ p.u \in Trade /\ p.o \in Seq(Order) /\ p.c \in Seq(Report)
      /\ OrdersOK(p.o) /\ Reports(p.c, p.o) /\ Named(p.u, t, p.o)
  BY WorldFacts
<1>1. v = [p EXCEPT !.u = u2]
  BY DEF Wants
<1>2. /\ u2 \in Trade
      /\ u2.oid = p.u.oid /\ u2.qty = p.u.qty /\ u2.exec = p.u.exec
      /\ u2.entry = p.u.entry /\ u2.exit = p.u.exit /\ u2.e = p.u.e /\ u2.x = p.u.x
      /\ u2.dirty = p.u.dirty /\ u2.position = p.u.position /\ u2.closing = p.u.closing
      /\ u2.blind = p.u.blind
  <2>1. CASE l = "limit"
    BY <1>0, <2>1 DEF Trade
  <2>2. CASE l # "limit"
    BY <1>0, <2>2 DEF Trade
  <2> QED
    BY <2>1, <2>2
<1>3. (IF l = "limit" THEN u2.tp ELSE u2.sl) /\ (p.u.tp => u2.tp) /\ (p.u.sl => u2.sl)
  <2>1. CASE l = "limit"
    BY <1>0, <2>1 DEF Trade
  <2>2. CASE l # "limit"
    BY <1>0, <2>2 DEF Trade
  <2> QED
    BY <2>1, <2>2
<1> HIDE DEF u2, v
<1>4. v = [u |-> u2, o |-> p.o, c |-> p.c]
  BY <1>0, <1>1
<1>5. v.u = u2 /\ v.o = p.o /\ v.c = p.c
  BY <1>4
<1>6. SameBelief(p.u, u2)
  BY <1>2, <1>3 DEF SameBelief
<1>7. Named(u2, t, p.o)
  BY <1>0, <1>2 DEF Named
<1>8. Sound(v, t)
  BY <1>0, <1>2, <1>4, <1>5, <1>7 DEF Sound, Worlds
<1>9. Evolves(t, p, v)
  BY <1>2, <1>5, EvolvesSame DEF Learning
<1> QED
  BY <1>2, <1>3, <1>5, <1>6, <1>8, <1>9 DEF v

\* What an operation that replaces an exit order leaves of the trade.
Modified(u, v, l) ==
    /\ SameOthers(u, v, l) /\ v.closing = u.closing /\ v.position = u.position
    /\ v.entry = u.entry /\ v.e = u.e /\ v.dirty = u.dirty /\ v.x >= u.x
    /\ u.closing \/ IsClosed(u) => v = u
    /\ u.tp => v.tp
    /\ u.sl => v.sl

\* Before an exit order is replaced, the other covers what the trade holds.
LEMMA Guards ==
    ASSUME NEW t \in Trades, NEW u \in Trade, NEW v \in Trade, NEW l \in ExitLegs,
           NEW os, NEW os2, NEW c, Books(u, t, os, c), EmptiedOf(os, t) => EmptiedOf(os2, t),
           Dropped(u, v, l), ~IsClosed(u), v.oid[l] = None, v.x < v.e
    PROVE  Guarded(v, t, os2)
<1>0. l # "create" /\ u.e \in Nat /\ u.x \in Nat /\ v.x \in Nat /\ v.e \in Nat /\ ExitLegs \subseteq Legs
  BY TradeFacts
<1>1. v.e = u.e /\ v.x >= u.x /\ v.dirty = u.dirty /\ v.closing = u.closing /\ u.e > 0
  BY <1>0 DEF Dropped, SameFlags
<1>2. IsActive(u) /\ (~EmptiedOf(os, t) => Covering(u))
  BY <1>1 DEF Books, Core, States, IsActive
<1>3. ASSUME ~v.dirty, ~v.closing, ~EmptiedOf(os2, t), NEW j \in ExitLegs, v.oid[j] # None
      PROVE  v.qty[j] - v.exec[j] >= v.e - v.x
  <2>1. j # l
    BY <1>3
  <2>2. v.oid[j] = u.oid[j] /\ v.qty[j] = u.qty[j] /\ v.exec[j] = u.exec[j]
    BY <1>0, <2>1 DEF Dropped, SameOthers
  <2>3. u.qty[j] - u.exec[j] >= u.e - u.x
    BY <1>1, <1>2, <1>3, <2>2 DEF Covering
  <2>4. u.qty[j] \in Nat /\ u.exec[j] \in Nat
    BY TradeFacts
  <2> QED
    BY <1>0, <1>1, <2>2, <2>3, <2>4
<1> QED
  BY <1>3 DEF Guarded

\* modify_take_profit and modify_stop_loss.
LEMMA ModifyFacts ==
    ASSUME NEW t \in Trades, NEW w, Sound(w, t), NEW l \in ExitLegs, NEW hard \in BOOLEAN,
           Len(w.o) + 1 <= MaxOrders, NEW r, w.u.oid[l] # None => r[l] \in CancelAnswers, NEW s
    PROVE  LET v == Modify(w, t, l, hard, r, s)
           IN  /\ Sound(v, t) /\ Evolves(t, w, v) /\ Len(v.o) <= Len(w.o) + 1
               /\ Modified(w.u, v.u, l)
               /\ hard /\ ~w.u.closing /\ ~IsClosed(w.u) /\ v.u.oid[l] # None
                  /\ v.u.oid[l] # w.u.oid[l] =>
                    v.u.qty[l] - v.u.exec[l] >= v.u.e - v.u.x
               /\ Books(w.u, t, w.o, w.c) => Books(v.u, t, v.o, v.c)
<1> DEFINE v == Modify(w, t, l, hard, r, s)
           a == CancelLeg(w, Quantity[t], l, r)
           p == IF hard THEN PlaceExit(a, t, l, s) ELSE a
<1>0. /\ w.u \in Trade /\ l \in Legs /\ l # "create" /\ w.u.e \in Nat /\ w.u.x \in Nat /\ Len(w.o) \in Nat
  BY WorldFacts, TradeFacts
<1>1. v = IF w.u.closing \/ IsClosed(w.u) THEN w
          ELSE IF a.u.oid[l] # None \/ a.u.x >= a.u.e THEN a
          ELSE IF hard /\ p.u.oid[l] = None THEN p ELSE Wants(p, l)
  BY DEF Modify, Wants
<1>2. /\ Sound(a, t) /\ Evolves(t, w, a) /\ Len(a.o) = Len(w.o)
      /\ Dropped(w.u, a.u, l) /\ (a.u.oid[l] = w.u.oid[l] => a.u = w.u)
      /\ a.u.oid[l] = None \/ a.u = w.u
      /\ EmptiedOf(w.o, t) => EmptiedOf(a.o, t)
  BY <1>0, CancelLegFacts DEF Dropped
<1>3. Books(w.u, t, w.o, w.c) => Books(a.u, t, a.o, a.c)
  BY <1>0, CancelLegBooks
<1>4. a.u \in Trade /\ a.u.e \in Nat /\ a.u.x \in Nat
  <2>1. a.u \in Trade
    BY <1>2, WorldFacts
  <2> HIDE DEF a
  <2> QED
    BY <2>1, TradeFacts
<1> HIDE DEF v, a
<1>5. CASE w.u.closing \/ IsClosed(w.u)
  <2>1. v = w
    BY <1>1, <1>5
  <2>2. Evolves(t, w, w)
    BY EvolvesSame
  <2>3. Modified(w.u, w.u, l)
    BY <1>0 DEF Modified, SameOthers
  <2>4. Len(w.o) <= Len(w.o) + 1
    BY <1>0
  <2> QED
    BY <1>5, <2>1, <2>2, <2>3, <2>4 DEF v
<1>6. CASE ~(w.u.closing \/ IsClosed(w.u)) /\ (a.u.oid[l] # None \/ a.u.x >= a.u.e)
  <2>1. v = a
    BY <1>1, <1>6
  <2>2. Modified(w.u, a.u, l)
    BY <1>0, <1>2, <1>6 DEF Modified, Dropped, SameFlags
  <2>3. Len(a.o) <= Len(w.o) + 1 /\ (a.u.oid[l] = None \/ a.u.oid[l] = w.u.oid[l])
    BY <1>0, <1>2
  <2> QED
    BY <1>2, <1>3, <2>1, <2>2, <2>3 DEF v
<1>7. CASE ~(w.u.closing \/ IsClosed(w.u)) /\ ~(a.u.oid[l] # None \/ a.u.x >= a.u.e)
  <2>0. a.u.x < a.u.e /\ a.u.oid[l] = None /\ Len(a.o) + 1 <= MaxOrders
    BY <1>2, <1>4, <1>7
  <2>1. /\ Sound(p, t) /\ Evolves(t, a, p) /\ Len(p.o) <= Len(w.o) + 1
        /\ SameOthers(a.u, p.u, l) /\ SameFlags(a.u, p.u) /\ SameBelief(a.u, p.u)
        /\ hard /\ p.u.oid[l] # None =>
              /\ p.u.qty[l] = a.u.e - a.u.x /\ p.u.exec[l] = 0
    <3>1. CASE hard
      <4>1. p = PlaceExit(a, t, l, s)
        BY <3>1
      <4> HIDE DEF p
      <4> QED
        BY <1>2, <2>0, <4>1, PlaceExitFacts
    <3>2. CASE ~hard
      <4>1. p = a
        BY <3>2
      <4>2. Evolves(t, a, a)
        BY <1>2, EvolvesSame
      <4>3. Len(a.o) <= Len(w.o) + 1
        BY <1>0, <1>2
      <4> HIDE DEF p
      <4> QED
        BY <1>2, <3>2, <4>1, <4>2, <4>3 DEF SameOthers, SameFlags, SameBelief
    <3> QED
      BY <3>1, <3>2
  <2>2. ASSUME Books(w.u, t, w.o, w.c), NEW u \in Trade, u.oid = p.u.oid, u.qty = p.u.qty,
               u.exec = p.u.exec, SameBelief(p.u, u), u.exit = p.u.exit,
               ~(hard /\ p.u.oid[l] = None) => IF l = "limit" THEN u.tp ELSE u.sl
        PROVE  Books(u, t, p.o, p.c)
    <3>1. Books(a.u, t, a.o, a.c)
      BY <1>3, <2>2
    <3>0. Guarded(a.u, t, a.o)
      BY <1>0, <1>2, <1>4, <1>7, <2>0, <2>2, Guards
    <3>2. CASE hard
      <4>1. p = PlaceExit(a, t, l, s)
        BY <3>2
      <4>2. p.u.oid[l] # None => u.closing \/ (IF l = "limit" THEN u.tp ELSE u.sl)
        BY <2>2
      <4> HIDE DEF p
      <4> QED
        BY <1>2, <2>0, <2>2, <3>0, <3>1, <4>1, <4>2, PlaceExitBooks
    <3>3. CASE ~hard
      <4>1. p = a
        BY <3>3
      <4> HIDE DEF p
      <4>2. /\ SameBelief(a.u, u) /\ u.exit = a.u.exit
            /\ u.oid = a.u.oid /\ u.qty = a.u.qty /\ u.exec = a.u.exec
        BY <2>2, <4>1
      <4>3. Books(u, t, a.o, a.c)
        BY <1>4, <2>2, <3>1, <4>2, SameBooks
      <4> QED
        BY <4>1, <4>3
    <3> QED
      BY <3>2, <3>3
  <2> HIDE DEF p
  <2>3. p.u \in Trade
    BY <2>1, WorldFacts
  <2>4. CASE hard /\ p.u.oid[l] = None
    <3>1. v = p
      BY <1>1, <1>7, <2>4
    <3>2. SameBelief(p.u, p.u)
      BY DEF SameBelief
    <3>3. Books(w.u, t, w.o, w.c) => Books(p.u, t, p.o, p.c)
      BY <2>2, <2>3, <2>4, <3>2
    <3>4. Evolves(t, w, p)
      BY <1>2, <2>1, EvolvesThen
    <3>5. Modified(w.u, p.u, l)
      BY <1>0, <1>2, <1>7, <2>1 DEF Modified, Dropped, SameFlags, SameBelief, SameOthers
    <3> QED
      BY <2>1, <2>4, <3>1, <3>3, <3>4, <3>5 DEF v
  <2>5. CASE ~(hard /\ p.u.oid[l] = None)
    <3> DEFINE b == Wants(p, l)
    <3>1. v = b
      BY <1>1, <1>7, <2>5
    <3>2. /\ Sound(b, t) /\ Evolves(t, p, b) /\ b.o = p.o /\ b.c = p.c /\ b.u \in Trade
          /\ b.u.oid = p.u.oid /\ b.u.qty = p.u.qty /\ b.u.exec = p.u.exec
          /\ SameBelief(p.u, b.u) /\ b.u.exit = p.u.exit /\ b.u.closing = p.u.closing
          /\ IF l = "limit" THEN b.u.tp ELSE b.u.sl
      BY <2>1, WantsFacts
    <3> HIDE DEF b
    <3>3. Books(w.u, t, w.o, w.c) => Books(b.u, t, b.o, b.c)
      BY <2>2, <3>2
    <3>4. Evolves(t, w, b)
      <4>1. Evolves(t, w, p)
        BY <1>2, <2>1, EvolvesThen
      <4> QED
        BY <2>1, <3>2, <4>1, EvolvesThen
    <3>5. Modified(w.u, b.u, l)
      <4>1. SameOthers(w.u, b.u, l)
        BY <1>2, <2>1, <3>2 DEF Dropped, SameOthers
      <4> QED
        BY <1>0, <1>2, <1>7, <2>1, <3>2, <4>1 DEF Modified, Dropped, SameFlags, SameBelief
    <3>6. ASSUME hard
          PROVE  b.u.qty[l] - b.u.exec[l] >= b.u.e - b.u.x
      <4>1. p.u.qty[l] = a.u.e - a.u.x /\ p.u.exec[l] = 0
        BY <2>1, <2>5, <3>6
      <4>2. b.u.e = a.u.e /\ b.u.x = a.u.x
        BY <2>1, <3>2 DEF SameBelief
      <4> QED
        BY <1>4, <3>2, <4>1, <4>2
    <3> QED
      BY <2>1, <3>1, <3>2, <3>3, <3>4, <3>5, <3>6 DEF v
  <2> QED
    BY <2>4, <2>5
<1> QED
  BY <1>5, <1>6, <1>7

-----------------------------------------------------------------------------
(***************************************************************************)
(* The operations of the strategy.                                         *)
(***************************************************************************)

\* The exit orders of a trade are at most two.
LEMMA ExitCount ==
    ASSUME NEW S, S \subseteq ExitLegs
    PROVE  /\ Cardinality(S) \in Nat
           /\ S # {} => Cardinality(S) >= 1
           /\ S = ExitLegs => Cardinality(S) = 2
<1>1. IsFiniteSet({}) /\ Cardinality({}) = 0
  BY FS_EmptySet
<1>2. IsFiniteSet({"stop"}) /\ Cardinality({"stop"}) = 1
  BY FS_Singleton
<1>3. IsFiniteSet({"limit"}) /\ Cardinality({"limit"}) = 1
  BY FS_Singleton
<1>4. IsFiniteSet({"stop"} \union {"limit"}) /\ Cardinality({"stop"} \union {"limit"}) = 2
  BY <1>2, FS_AddElement
<1>5. {"stop"} \union {"limit"} = ExitLegs
  BY DEF ExitLegs
<1>6. S = {} \/ S = {"stop"} \/ S = {"limit"} \/ S = ExitLegs
  BY DEF ExitLegs
<1> QED
  BY <1>1, <1>2, <1>3, <1>4, <1>5, <1>6

\* The dirty flag alone.
LEMMA DirtyFacts ==
    ASSUME NEW t \in Trades, NEW w, Sound(w, t), NEW d \in BOOLEAN
    PROVE  LET v == [w EXCEPT !.u.dirty = d]
           IN  /\ Sound(v, t) /\ Evolves(t, w, v) /\ v.o = w.o /\ v.c = w.c /\ v.u.dirty = d
               /\ v.u \in Trade /\ v.u.oid = w.u.oid /\ v.u.qty = w.u.qty /\ v.u.exec = w.u.exec
               /\ SameFlags(w.u, v.u) /\ v.u.entry = w.u.entry /\ v.u.exit = w.u.exit
               /\ v.u.e = w.u.e /\ v.u.x = w.u.x
<1> DEFINE v == [w EXCEPT !.u.dirty = d]
           u2 == [w.u EXCEPT !.dirty = d]
<1>0. /\ w = [u |-> w.u, o |-> w.o, c |-> w.c]
      /\ w.u \in Trade /\ w.o \in Seq(Order) /\ w.c \in Seq(Report)
      /\ OrdersOK(w.o) /\ Reports(w.c, w.o) /\ Named(w.u, t, w.o)
  BY WorldFacts
<1>1. /\ u2 \in Trade /\ u2.dirty = d
      /\ u2.oid = w.u.oid /\ u2.qty = w.u.qty /\ u2.exec = w.u.exec
      /\ u2.entry = w.u.entry /\ u2.exit = w.u.exit /\ u2.e = w.u.e /\ u2.x = w.u.x
      /\ u2.position = w.u.position /\ u2.closing = w.u.closing
      /\ u2.tp = w.u.tp /\ u2.sl = w.u.sl /\ u2.blind = w.u.blind
  BY <1>0 DEF Trade
<1>2. v = [w EXCEPT !.u = u2]
  OBVIOUS
<1> HIDE DEF v, u2
<1>3. v = [u |-> u2, o |-> w.o, c |-> w.c]
  BY <1>0, <1>2
<1>4. v.u = u2 /\ v.o = w.o /\ v.c = w.c
  BY <1>3
<1>5. Named(u2, t, w.o)
  BY <1>0, <1>1 DEF Named
<1>6. Sound(v, t)
  BY <1>0, <1>1, <1>3, <1>4, <1>5 DEF Sound, Worlds
<1>7. Evolves(t, w, v)
  BY <1>1, <1>4, EvolvesSame DEF Learning
<1>8. SameFlags(w.u, u2)
  BY <1>1 DEF SameFlags
<1> QED
  BY <1>1, <1>4, <1>6, <1>7, <1>8 DEF v

\* The flag may be set as one wants as long as the exit orders cover the trade.
LEMMA DirtyBooks ==
    ASSUME NEW u \in Trade, NEW v \in Trade, NEW t \in Trades, NEW os, NEW c,
           v.oid = u.oid, v.qty = u.qty, v.exec = u.exec,
           SameFlags(u, v), v.entry = u.entry, v.exit = u.exit, v.e = u.e, v.x = u.x,
           ~v.dirty /\ ~v.closing /\ IsActive(v) =>
              \A l \in ExitLegs : v.oid[l] # None => v.qty[l] - v.exec[l] >= v.e - v.x,
           Books(u, t, os, c)
    PROVE  Books(v, t, os, c)
<1>1. Core(u, t, os)
  BY DEF Books
<1>2. Held(v, t, os) /\ Entered(v, t, os) /\ Exited(v, t, os)
  BY <1>1 DEF Core, Held, Entered, Exited, Uncounted, SameFlags
<1>3. States(v, t)
  BY <1>1 DEF Core, States, SameFlags
<1>4. ~EmptiedOf(os, t) => Covering(v)
  BY <1>1 DEF Core, Covering
<1>5. \A l \in Legs : LegOK(v, l, os, c)
  BY DEF Books, LegOK, Counted
<1> QED
  BY <1>2, <1>3, <1>4, <1>5 DEF Books, Core

\* What a leg still offers.
LEMMA Offered ==
    ASSUME NEW u \in Trade, NEW t \in Trades, NEW os, OrdersOK(os), NEW c, Named(u, t, os),
           Books(u, t, os, c), NEW l \in ExitLegs, u.oid[l] # None
    PROVE  u.qty[l] - u.exec[l] >= 0
<1>1. LegOK(u, l, os, c) /\ l \in Legs /\ l # "create" /\ u.qty[l] \in Nat /\ u.exec[l] \in Nat
  BY TradeFacts DEF Books
<1>2. u.qty[l] = os[u.oid[l]].qty /\ u.exec[l] <= os[u.oid[l]].filled
  BY <1>1 DEF LegOK, Counted
<1>3. u.oid[l] \in 1..Len(os)
  BY <1>1 DEF Named
<1>4. LET o == os[u.oid[l]] IN o.filled \in Nat /\ o.qty \in Nat /\ o.filled <= o.qty
  BY <1>3, OrderFacts
<1> QED
  BY <1>1, <1>2, <1>4

\* update_dirty replaces the exit orders the trade has.
\* The exit legs that have an order.
OpenExits(u) == {l \in ExitLegs : u.oid[l] # None}

\* The trade after its exit orders were replaced, from the world w to the world b.
Redone(t, w, b) ==
    /\ Sound(b, t) /\ Evolves(t, w, b) /\ Books(b.u, t, b.o, b.c)
    /\ b.u.position = w.u.position /\ b.u.e = w.u.e

LEMMA ReplacedFacts ==
    ASSUME NEW t \in Trades, NEW w, Sound(w, t), Books(w.u, t, w.o, w.c),
           IsActive(w.u), ~w.u.closing,
           Len(w.o) + Cardinality(OpenExits(w.u)) <= MaxOrders,
           NEW r, \A l \in ExitLegs : w.u.oid[l] # None => r[l] \in CancelAnswers, NEW s,
           NEW a, a = Replace(w, t, "limit", r, s["limit"]),
           NEW b, b = Replace(a, t, "stop", r, s["stop"])
    PROVE  /\ Redone(t, w, b)
           /\ /\ IsActive(b.u)
              /\ ~Failed(w, a, "limit", s["limit"]) /\ ~Failed(a, b, "stop", s["stop"])
              => \A l \in ExitLegs : b.u.oid[l] # None => b.u.qty[l] - b.u.exec[l] >= b.u.e - b.u.x
<1> DEFINE S == {l \in ExitLegs : w.u.oid[l] # None}
<1>0. /\ w.u \in Trade /\ Len(w.o) \in Nat /\ "limit" \in ExitLegs /\ "stop" \in ExitLegs
      /\ w.u.e \in Nat /\ w.u.x \in Nat /\ ExitLegs = {"stop", "limit"} /\ MaxOrders \in Nat
  BY WorldFacts, TradeFacts DEF ExitLegs
<1>1. b = IF a.u.oid["stop"] # None /\ a.u.sl THEN Modify(a, t, "stop", TRUE, r, s["stop"]) ELSE a
  BY DEF Replace, Replaces
<1>2. States(w.u, t)
  BY DEF Books, Core
<1>3. ~IsClosed(w.u) /\ (w.u.oid["limit"] # None => w.u.tp) /\ (w.u.oid["stop"] # None => w.u.sl)
  BY <1>2 DEF States, IsActive
<1>4. /\ S # {} => Len(w.o) + 1 <= MaxOrders
      /\ S = ExitLegs => Len(w.o) + 2 <= MaxOrders
      /\ S \subseteq ExitLegs
  <2>1. /\ Cardinality(S) \in Nat
        /\ S # {} => Cardinality(S) >= 1
        /\ S = ExitLegs => Cardinality(S) = 2
        /\ S \subseteq ExitLegs
    BY ExitCount
  <2> DEFINE n == Cardinality(S)
             m == Len(w.o)
  <2>2. m + n <= MaxOrders /\ m \in Nat /\ n \in Nat
    BY <1>0, <2>1 DEF OpenExits
  <2>3. S # {} => n >= 1
    BY <2>1
  <2>4. S = ExitLegs => n = 2
    BY <2>1
  <2> HIDE DEF n, m, S
  <2> QED
    BY <1>0, <2>1, <2>2, <2>3, <2>4 DEF m
<1>5. /\ Sound(a, t) /\ Evolves(t, w, a) /\ Books(a.u, t, a.o, a.c)
      /\ Modified(w.u, a.u, "limit") /\ a.u \in Trade
      /\ w.u.oid["limit"] = None => a = w
      /\ w.u.oid["limit"] # None /\ a.u.oid["limit"] # None /\ ~Failed(w, a, "limit", s["limit"]) =>
            a.u.qty["limit"] - a.u.exec["limit"] >= a.u.e - a.u.x
      /\ IF w.u.oid["limit"] = None THEN Len(a.o) = Len(w.o) ELSE Len(a.o) <= Len(w.o) + 1
  <2>1. CASE w.u.oid["limit"] = None
    <3>1. a = w
      BY <2>1 DEF Replace, Replaces
    <3>2. Evolves(t, w, w)
      BY EvolvesSame
    <3>3. Modified(w.u, w.u, "limit")
      BY <1>0 DEF Modified, SameOthers
    <3> QED
      BY <1>0, <2>1, <3>1, <3>2, <3>3
  <2>2. CASE w.u.oid["limit"] # None
    <3>1. a = Modify(w, t, "limit", TRUE, r, s["limit"])
      BY <1>3, <2>2 DEF Replace, Replaces
    <3>2. Len(w.o) + 1 <= MaxOrders
      BY <1>0, <1>4, <2>2
    <3>3. /\ Sound(a, t) /\ Evolves(t, w, a) /\ Len(a.o) <= Len(w.o) + 1
          /\ Modified(w.u, a.u, "limit")
          /\ a.u.oid["limit"] # None /\ a.u.oid["limit"] # w.u.oid["limit"] =>
               a.u.qty["limit"] - a.u.exec["limit"] >= a.u.e - a.u.x
          /\ Books(a.u, t, a.o, a.c)
      BY <1>0, <1>3, <3>1, <3>2, ModifyFacts
    <3>4. a.u \in Trade
      BY <3>3, WorldFacts
    <3>5. ~Failed(w, a, "limit", s["limit"]) => a.u.oid["limit"] # w.u.oid["limit"]
      BY <1>3, <2>2 DEF Failed, Replaces
    <3> QED
      BY <2>2, <3>3, <3>4, <3>5
  <2> QED
    BY <2>1, <2>2
<1>6. /\ a.u.oid["stop"] = w.u.oid["stop"] /\ a.u.qty["stop"] = w.u.qty["stop"]
      /\ a.u.exec["stop"] = w.u.exec["stop"] /\ "stop" \in Legs
  BY <1>0, <1>5 DEF Modified, SameOthers, Legs
<1>7. ~a.u.closing /\ (w.u.sl => a.u.sl) /\ a.u.e = w.u.e /\ a.u.x >= w.u.x
      /\ a.u.e \in Nat /\ a.u.x \in Nat /\ a.u.position = w.u.position
  BY <1>5, TradeFacts DEF Modified
<1>8. CASE w.u.oid["stop"] = None
  <2>1. b = a
    BY <1>1, <1>6, <1>8
  <2>2. ASSUME NEW l \in ExitLegs, b.u.oid[l] # None, ~Failed(w, a, "limit", s["limit"])
        PROVE  b.u.qty[l] - b.u.exec[l] >= b.u.e - b.u.x
    <3>1. l = "limit"
      BY <1>0, <1>6, <1>8, <2>1, <2>2
    <3>2. w.u.oid["limit"] # None
      BY <2>1, <2>2, <3>1, <1>5
    <3> QED
      BY <1>5, <2>1, <2>2, <3>1, <3>2
  <2> QED
    BY <1>5, <1>7, <2>1, <2>2 DEF Redone
<1>9. CASE w.u.oid["stop"] # None
  <2>1. b = Modify(a, t, "stop", TRUE, r, s["stop"])
    BY <1>1, <1>3, <1>6, <1>7, <1>9
  <2>2. Len(a.o) + 1 <= MaxOrders
    <3>1. CASE w.u.oid["limit"] = None
      <4>1. S # {}
        BY <1>0, <1>9
      <4> QED
        BY <1>4, <1>5, <3>1, <4>1
    <3>2. CASE w.u.oid["limit"] # None
      <4>1. S = ExitLegs
        BY <1>0, <1>9, <3>2
      <4>2. Len(a.o) \in Nat /\ Len(a.o) <= Len(w.o) + 1 /\ Len(w.o) + 2 <= MaxOrders
        BY <1>4, <1>5, <3>2, <4>1, WorldFacts
      <4> QED
        BY <1>0, <4>2
    <3> QED
      BY <3>1, <3>2
  <2>3. /\ Sound(b, t) /\ Evolves(t, a, b)
        /\ Modified(a.u, b.u, "stop")
        /\ ~IsClosed(a.u) /\ b.u.oid["stop"] # None /\ b.u.oid["stop"] # a.u.oid["stop"] =>
             b.u.qty["stop"] - b.u.exec["stop"] >= b.u.e - b.u.x
        /\ Books(b.u, t, b.o, b.c)
    <3>1. a.u.oid["stop"] # None => r["stop"] \in CancelAnswers
      BY <1>0, <1>6
    <3>2. Sound(a, t) /\ Books(a.u, t, a.o, a.c) /\ ~a.u.closing /\ "stop" \in ExitLegs
      BY <1>0, <1>5, <1>7
    <3>3. /\ Sound(b, t) /\ Evolves(t, a, b)
          /\ Modified(a.u, b.u, "stop")
          /\ TRUE /\ ~a.u.closing /\ ~IsClosed(a.u) /\ b.u.oid["stop"] # None
             /\ b.u.oid["stop"] # a.u.oid["stop"] =>
                b.u.qty["stop"] - b.u.exec["stop"] >= b.u.e - b.u.x
          /\ Books(a.u, t, a.o, a.c) => Books(b.u, t, b.o, b.c)
      BY <2>1, <2>2, <3>1, <3>2, ModifyFacts
    <3> QED
      BY <3>2, <3>3
  <2>4. Evolves(t, w, b)
    BY <1>5, <2>3, EvolvesThen
  <2>5. b.u.e = a.u.e /\ b.u.x >= a.u.x /\ b.u.x \in Nat /\ b.u.position = a.u.position
    <3>1. b.u \in Trade
      BY <2>3, WorldFacts
    <3> QED
      BY <2>3, <3>1, TradeFacts DEF Modified
  <2>6. ASSUME IsActive(b.u), NEW l \in ExitLegs, b.u.oid[l] # None,
               ~Failed(w, a, "limit", s["limit"]), ~Failed(a, b, "stop", s["stop"])
        PROVE  b.u.qty[l] - b.u.exec[l] >= b.u.e - b.u.x
    <3>0. ~IsClosed(a.u)
      <4>1. IsClosed(a.u) => b.u = a.u
        BY <2>3 DEF Modified
      <4> QED
        BY <2>6, <4>1 DEF IsActive
    <3>1. CASE l = "stop"
      <4>1. b.u.oid["stop"] # a.u.oid["stop"]
        BY <1>3, <1>6, <1>7, <1>9, <2>6, <3>0 DEF Failed, Replaces
      <4> QED
        BY <2>3, <2>6, <3>0, <3>1, <4>1
    <3>2. CASE l = "limit"
      <4>1. /\ b.u.oid["limit"] = a.u.oid["limit"] /\ b.u.qty["limit"] = a.u.qty["limit"]
            /\ b.u.exec["limit"] = a.u.exec["limit"]
        BY <1>0, <2>3 DEF Modified, SameOthers, Legs
      <4>2. w.u.oid["limit"] # None
        BY <1>5, <2>6, <3>2, <4>1
      <4>3. a.u.qty["limit"] - a.u.exec["limit"] >= a.u.e - a.u.x
        BY <1>5, <2>6, <3>2, <4>1, <4>2
      <4> DEFINE k == a.u.qty["limit"] - a.u.exec["limit"]
      <4>4. k \in Int
        <5>1. a.u.qty["limit"] \in Nat /\ a.u.exec["limit"] \in Nat
          BY <1>0, <1>5, TradeFacts
        <5> QED
          BY <5>1
      <4>5. k >= a.u.e - a.u.x /\ b.u.qty[l] - b.u.exec[l] = k
        BY <3>2, <4>1, <4>3
      <4> HIDE DEF k
      <4>6. k >= b.u.e - b.u.x
        BY <1>7, <2>5, <4>4, <4>5
      <4> QED
        BY <4>5, <4>6
    <3> QED
      BY <1>0, <3>1, <3>2
  <2> QED
    BY <1>7, <2>3, <2>4, <2>5, <2>6 DEF Redone
<1> QED
  BY <1>8, <1>9

\* Nothing is dropped.
LEMMA DroppedSame ==
    ASSUME NEW u \in Trade, NEW l \in Legs PROVE Dropped(u, u, l)
BY TradeFacts DEF Dropped, SameOthers, SameFlags

\* close: the orders are canceled, and what remains is closed at market.
LEMMA ClosedFacts ==
    ASSUME NEW t \in Trades, NEW w, Sound(w, t), Books(w.u, t, w.o, w.c),
           IsActive(w.u), ~w.u.closing, Len(w.o) + 1 <= MaxOrders,
           NEW r, \A l \in Legs : w.u.oid[l] # None => r[l] \in CancelAnswers, NEW s
    PROVE  LET v == Closed(w, t, r, s)
           IN  /\ Sound(v, t) /\ Evolves(t, w, v) /\ Books(v.u, t, v.o, v.c)
               /\ v.u.position = w.u.position /\ v.u.e >= w.u.e
<1> DEFINE q == Quantity[t]
           a == CancelLeg(w, q, "create", r)
           b == IF Free(a.u, {"create"}) THEN CancelLeg(a, q, "stop", r) ELSE a
           c == IF Free(b.u, {"create", "stop"}) THEN CancelLeg(b, q, "limit", r) ELSE b
           d == PlaceExit(c, t, "stop", s)
           v == Closed(w, t, r, s)
<1>0. "create" \in Legs /\ "stop" \in Legs /\ "limit" \in Legs /\ "stop" \in ExitLegs
  BY DEF Legs, ExitLegs
<1>1. w.u \in Trade /\ w.u.e \in Nat /\ w.u.e > 0
  <2>1. w.u \in Trade /\ w.u.e \in Nat
    BY WorldFacts, TradeFacts
  <2>2. States(w.u, t)
    BY DEF Books, Core
  <2> QED
    BY <2>1, <2>2 DEF States, IsActive
<1>2. /\ Sound(a, t) /\ Evolves(t, w, a) /\ Len(a.o) = Len(w.o)
      /\ Dropped(w.u, a.u, "create") /\ Books(a.u, t, a.o, a.c)
  <2>1. /\ Sound(a, t) /\ Evolves(t, w, a) /\ Len(a.o) = Len(w.o)
        /\ Dropped(w.u, a.u, "create")
    BY <1>0, CancelLegFacts
  <2>2. Books(a.u, t, a.o, a.c)
    BY <1>0, CancelLegBooks
  <2> QED
    BY <2>1, <2>2
<1>3. a.u \in Trade /\ a.u.e \in Nat /\ a.u.e >= w.u.e /\ a.u.e # 0
  <2>1. a.u \in Trade
    BY <1>2, WorldFacts
  <2> HIDE DEF a
  <2>2. a.u.e \in Nat /\ a.u.e >= w.u.e
    BY <1>2, <2>1, TradeFacts DEF Dropped
  <2> QED
    BY <1>1, <2>1, <2>2
<1>4. v = IF ~Free(c.u, Legs) \/ c.u.x >= c.u.e THEN c ELSE [d EXCEPT !.u.closing = d.u.oid["stop"] # None]
  BY <1>3 DEF Closed
<1> HIDE DEF v, a
<1>5. /\ Sound(b, t) /\ Evolves(t, a, b) /\ Len(b.o) = Len(a.o)
      /\ Dropped(a.u, b.u, "stop") /\ Books(b.u, t, b.o, b.c)
  <2>1. CASE Free(a.u, {"create"})
    <3>1. b = CancelLeg(a, q, "stop", r)
      BY <2>1
    <3>2. a.u.oid["stop"] # None => r["stop"] \in CancelAnswers
      BY <1>0, <1>2 DEF Dropped, SameOthers
    <3> HIDE DEF b
    <3>3. Books(b.u, t, b.o, b.c)
      BY <1>0, <1>2, <3>1, <3>2, CancelLegBooks
    <3> QED
      BY <1>0, <1>2, <3>1, <3>3, CancelLegFacts
  <2>2. CASE ~Free(a.u, {"create"})
    <3>1. b = a
      BY <2>2
    <3>2. Evolves(t, a, a)
      BY <1>2, EvolvesSame
    <3> HIDE DEF b
    <3> QED
      BY <1>0, <1>2, <1>3, <3>1, <3>2, DroppedSame
  <2> QED
    BY <2>1, <2>2
<1> HIDE DEF b
<1>6. /\ Sound(c, t) /\ Evolves(t, b, c) /\ Len(c.o) = Len(b.o)
      /\ Dropped(b.u, c.u, "limit") /\ Books(c.u, t, c.o, c.c)
  <2>1. CASE Free(b.u, {"create", "stop"})
    <3>1. c = CancelLeg(b, q, "limit", r)
      BY <2>1
    <3>2. b.u.oid["limit"] # None => r["limit"] \in CancelAnswers
      BY <1>0, <1>2, <1>5 DEF Dropped, SameOthers
    <3> HIDE DEF c
    <3>3. Books(c.u, t, c.o, c.c)
      BY <1>0, <1>5, <3>1, <3>2, CancelLegBooks
    <3> QED
      BY <1>0, <1>5, <3>1, <3>3, CancelLegFacts
  <2>2. CASE ~Free(b.u, {"create", "stop"})
    <3>1. c = b
      BY <2>2
    <3>2. Evolves(t, b, b)
      BY <1>5, EvolvesSame
    <3>3. b.u \in Trade
      BY <1>5, WorldFacts
    <3> HIDE DEF c
    <3> QED
      BY <1>0, <1>5, <3>1, <3>2, <3>3, DroppedSame
  <2> QED
    BY <2>1, <2>2
<1> HIDE DEF c
<1>7. Evolves(t, w, c)
  <2>1. Evolves(t, w, b)
    BY <1>2, <1>5, EvolvesThen
  <2> QED
    BY <1>5, <1>6, <2>1, EvolvesThen
<1>8. /\ c.u \in Trade /\ c.u.e \in Nat /\ c.u.x \in Nat
      /\ c.u.e >= w.u.e /\ c.u.position = w.u.position /\ c.u.closing = w.u.closing
  <2>1. c.u \in Trade /\ b.u \in Trade
    BY <1>5, <1>6, WorldFacts
  <2>2. c.u.e \in Nat /\ c.u.x \in Nat /\ b.u.e \in Nat
    BY <2>1, TradeFacts
  <2>4. b.u.e = a.u.e /\ c.u.e = b.u.e
    BY <1>5, <1>6 DEF Dropped
  <2>5. c.u.position = w.u.position /\ c.u.closing = w.u.closing
    BY <1>2, <1>5, <1>6 DEF Dropped, SameFlags
  <2> QED
    BY <1>3, <2>1, <2>2, <2>4, <2>5
<1>9. CASE ~Free(c.u, Legs) \/ c.u.x >= c.u.e
  BY <1>4, <1>6, <1>7, <1>8, <1>9 DEF v
<1>10. CASE Free(c.u, Legs) /\ ~(c.u.x >= c.u.e)
  <2> DEFINE k == d.u.oid["stop"] # None
             u2 == [d.u EXCEPT !.closing = k]
  <2>1. c.u.x < c.u.e /\ Len(c.o) + 1 <= MaxOrders /\ c.u.oid["stop"] = None
    BY <1>0, <1>2, <1>5, <1>6, <1>8, <1>10 DEF Free
  <2>0. Guarded(c.u, t, c.o)
    BY <1>10 DEF Guarded, Free, Legs, ExitLegs
  <2>2. /\ Sound(d, t) /\ Evolves(t, c, d) /\ SameFlags(c.u, d.u) /\ SameBelief(c.u, d.u)
    BY <1>0, <1>6, <1>8, <2>1, PlaceExitFacts
  <2>3. v = [d EXCEPT !.u = u2]
    BY <1>4, <1>10
  <2>4. /\ d = [u |-> d.u, o |-> d.o, c |-> d.c]
        /\ d.u \in Trade /\ d.o \in Seq(Order) /\ d.c \in Seq(Report)
        /\ OrdersOK(d.o) /\ Reports(d.c, d.o) /\ Named(d.u, t, d.o)
    BY <2>2, WorldFacts
  <2>5. k \in BOOLEAN /\ (k <=> d.u.oid["stop"] # None)
    OBVIOUS
  <2>6. d = PlaceExit(c, t, "stop", s)
    OBVIOUS
  <2> HIDE DEF d, k
  <2>7. /\ u2 \in Trade /\ u2.closing = k
        /\ u2.oid = d.u.oid /\ u2.qty = d.u.qty /\ u2.exec = d.u.exec /\ u2.dirty = d.u.dirty
        /\ u2.entry = d.u.entry /\ u2.exit = d.u.exit /\ u2.e = d.u.e /\ u2.x = d.u.x
        /\ u2.position = d.u.position /\ u2.tp = d.u.tp /\ u2.sl = d.u.sl
        /\ u2.blind = d.u.blind
    BY <2>4, <2>5 DEF Trade
  <2> HIDE DEF u2
  <2>8. v = [u |-> u2, o |-> d.o, c |-> d.c]
    BY <2>3, <2>4
  <2>9. v.u = u2 /\ v.o = d.o /\ v.c = d.c
    BY <2>8
  <2>10. ~d.u.closing
    BY <1>8, <2>2 DEF SameFlags
  <2>11. SameBelief(d.u, u2)
    BY <2>7, <2>10 DEF SameBelief
  <2>12. Named(u2, t, d.o)
    BY <2>4, <2>7 DEF Named
  <2>13. Sound(v, t)
    BY <2>4, <2>7, <2>8, <2>9, <2>12 DEF Sound, Worlds
  <2>14. Evolves(t, w, v)
    <3>1. Evolves(t, w, d)
      BY <1>6, <1>7, <2>2, EvolvesThen
    <3>2. Learning(u2) => Learning(d.u)
      BY <2>7 DEF Learning
    <3> QED
      BY <2>9, <3>1, <3>2 DEF Evolves
  <2>15. Books(u2, t, d.o, d.c)
    BY <1>0, <1>6, <1>8, <2>0, <2>1, <2>5, <2>6, <2>7, <2>11, PlaceExitBooks
  <2>16. u2.position = w.u.position /\ u2.e = c.u.e
    BY <1>8, <2>2, <2>7 DEF SameBelief
  <2> QED
    BY <1>8, <2>9, <2>13, <2>14, <2>15, <2>16 DEF v
<1> QED
  BY <1>9, <1>10

\* cancel_open: once the entry order is canceled, the entry is over.
OpenCanceled(w, t, a) ==
    LET v == CancelLeg(w, Quantity[t], "create", a)
        over == IF a["create"] = "unknown" \/ v.u.e = 0 THEN "canceled" ELSE "filled"
    IN  IF v.u.oid["create"] # None THEN v ELSE [v EXCEPT !.u.entry = over]

LEMMA OpenCanceledFacts ==
    ASSUME NEW t \in Trades, NEW w, Sound(w, t), Books(w.u, t, w.o, w.c),
           ~IsActive(w.u), w.u.oid["create"] # None, NEW r, r["create"] \in CancelAnswers
    PROVE  LET v == OpenCanceled(w, t, r)
           IN  /\ Sound(v, t) /\ Evolves(t, w, v) /\ Books(v.u, t, v.o, v.c)
               /\ v.u.position = w.u.position /\ v.u.e >= w.u.e
<1> DEFINE a == CancelLeg(w, Quantity[t], "create", r)
           s == IF r["create"] = "unknown" \/ a.u.e = 0 THEN "canceled" ELSE "filled"
           u2 == [a.u EXCEPT !.entry = s]
           v == OpenCanceled(w, t, r)
<1>0. "create" \in Legs /\ w.u \in Trade /\ w.u.e \in Nat
  BY WorldFacts, TradeFacts
<1>1. w.u.exit # "filled" /\ w.u.e = 0
  <2>1. States(w.u, t)
    BY DEF Books, Core
  <2> QED
    BY <1>0, <2>1 DEF States, IsActive, IsClosed
<1>2. /\ Sound(a, t) /\ Evolves(t, w, a) /\ Dropped(w.u, a.u, "create") /\ Books(a.u, t, a.o, a.c)
  BY <1>0, CancelLegFacts, CancelLegBooks
<1>3. v = IF a.u.oid["create"] # None THEN a ELSE [a EXCEPT !.u = u2]
  BY DEF OpenCanceled
<1>20. r["create"] = "unknown" => a.u.e = 0
  <2> SUFFICES ASSUME r["create"] = "unknown" PROVE a.u.e = 0
    OBVIOUS
  <2> DEFINE z == BlindReset(w.u, "create")
  <2>1. a = [w EXCEPT !.u = z]
    BY CancelLegIs DEF Canceled
  <2>2. z.e = 0
    BY <1>0, <1>1, BlindResetFacts
  <2>3. w = [u |-> w.u, o |-> w.o, c |-> w.c]
    BY WorldFacts
  <2> HIDE DEF a, z
  <2> QED
    BY <2>1, <2>2, <2>3
<1> HIDE DEF v, a
<1>4. /\ a = [u |-> a.u, o |-> a.o, c |-> a.c]
      /\ a.u \in Trade /\ a.o \in Seq(Order) /\ a.c \in Seq(Report)
      /\ OrdersOK(a.o) /\ Reports(a.c, a.o) /\ Named(a.u, t, a.o)
  BY <1>2, WorldFacts
<1>21. a.u.position = w.u.position /\ a.u.e >= w.u.e
  BY <1>2 DEF Dropped, SameFlags
<1> SUFFICES ASSUME a.u.oid["create"] = None
             PROVE  /\ Sound(v, t) /\ Evolves(t, w, v) /\ Books(v.u, t, v.o, v.c)
                    /\ v.u.position = w.u.position /\ v.u.e >= w.u.e
  <2> SUFFICES ASSUME a.u.oid["create"] # None
               PROVE  /\ Sound(v, t) /\ Evolves(t, w, v) /\ Books(v.u, t, v.o, v.c)
                      /\ v.u.position = w.u.position /\ v.u.e >= w.u.e
    BY DEF v
  <2>1. v = a
    BY <1>3
  <2> QED
    BY <1>2, <1>21, <2>1
<1>5. /\ a.u.e \in Nat /\ a.u.exit # "filled" /\ a.u.oid["create"] = None
      /\ a.u.e > 0 => a.u.dirty
  BY <1>1, <1>2, <1>4, TradeFacts DEF Dropped
<1>6. s \in {"canceled", "filled"} /\ (s = "filled" <=> a.u.e > 0) /\ (s = "canceled" <=> a.u.e = 0)
  BY <1>5, <1>20
<1> HIDE DEF s
<1>7. /\ u2 \in Trade /\ u2.entry = s
      /\ u2.oid = a.u.oid /\ u2.qty = a.u.qty /\ u2.exec = a.u.exec /\ u2.dirty = a.u.dirty
      /\ u2.closing = a.u.closing /\ u2.exit = a.u.exit /\ u2.e = a.u.e /\ u2.x = a.u.x
      /\ u2.position = a.u.position /\ u2.tp = a.u.tp /\ u2.sl = a.u.sl
      /\ u2.blind = a.u.blind
  BY <1>4, <1>6 DEF Trade
<1> HIDE DEF u2
<1>8. v = [u |-> u2, o |-> a.o, c |-> a.c]
  BY <1>3, <1>4
<1>9. v.u = u2 /\ v.o = a.o /\ v.c = a.c
  BY <1>8
<1>10. Named(u2, t, a.o)
  BY <1>4, <1>7 DEF Named
<1>11. Sound(v, t)
  BY <1>4, <1>7, <1>8, <1>9, <1>10 DEF Sound, Worlds
<1>12. Evolves(t, w, v)
  <2>1. Learning(u2) => Learning(a.u)
    BY <1>7 DEF Learning
  <2> QED
    BY <1>2, <1>9, <2>1 DEF Evolves
<1>13. Core(a.u, t, a.o) /\ \A l \in Legs : LegOK(a.u, l, a.o, a.c)
  BY <1>2 DEF Books
<1>14. Held(u2, t, a.o) /\ Entered(u2, t, a.o) /\ Exited(u2, t, a.o)
  BY <1>7, <1>13 DEF Core, Held, Entered, Exited, Uncounted
<1>15. States(u2, t)
  <2>1. u2.entry \in {"partially_filled", "filled"} <=> u2.e > 0
    BY <1>6, <1>7
  <2> QED
    BY <1>5, <1>7, <1>13, <2>1 DEF Core, States
<1>16. Covering(u2)
  <2>1. u2.exit # "filled"
    BY <1>5, <1>7
  <2>2. IsActive(u2) => u2.dirty
    BY <1>5, <1>6, <1>7 DEF IsActive
  <2> QED
    BY <2>1, <2>2 DEF Covering
<1>17. \A l \in Legs : LegOK(u2, l, a.o, a.c)
  BY <1>7, <1>13 DEF LegOK, Counted
<1>18. u2.position = w.u.position /\ u2.e >= w.u.e
  BY <1>2, <1>7 DEF Dropped, SameFlags
<1> QED
  BY <1>9, <1>11, <1>12, <1>14, <1>15, <1>16, <1>17, <1>18 DEF Books, Core

\* remove, of finalize_trade: every order is canceled, or left behind.
LEMMA FinalizedFacts ==
    ASSUME NEW t \in Trades, NEW w, Sound(w, t), NEW r
    PROVE  LET v == Finalized(w, Quantity[t], r)
           IN  /\ Sound(v, t) /\ Evolves(t, w, v) /\ Len(v.o) = Len(w.o)
               /\ v.u.position = w.u.position /\ v.u.e >= w.u.e
<1> DEFINE q == Quantity[t]
           a == CancelLeg(w, q, "create", r)
           b == CancelLeg(a, q, "stop", r)
           v == CancelLeg(b, q, "limit", r)
<1>0. "create" \in Legs /\ "stop" \in Legs /\ "limit" \in Legs
  BY DEF Legs
<1>1. Finalized(w, q, r) = v
  BY DEF Finalized
<1>2. Sound(a, t) /\ Evolves(t, w, a) /\ Len(a.o) = Len(w.o) /\ Dropped(w.u, a.u, "create")
  BY <1>0, CancelLegFacts
<1> HIDE DEF a
<1>3. Sound(b, t) /\ Evolves(t, a, b) /\ Len(b.o) = Len(a.o) /\ Dropped(a.u, b.u, "stop")
  BY <1>0, <1>2, CancelLegFacts
<1> HIDE DEF b
<1>4. Sound(v, t) /\ Evolves(t, b, v) /\ Len(v.o) = Len(b.o) /\ Dropped(b.u, v.u, "limit")
  BY <1>0, <1>3, CancelLegFacts
<1> HIDE DEF v
<1>5. Evolves(t, w, v)
  <2>1. Evolves(t, w, b)
    BY <1>2, <1>3, EvolvesThen
  <2> QED
    BY <1>3, <1>4, <2>1, EvolvesThen
<1>6. w.u \in Trade /\ a.u \in Trade
  BY <1>2, WorldFacts
<1>7. v.u.position = w.u.position /\ v.u.e >= w.u.e
  BY <1>2, <1>3, <1>4, <1>6, TradeFacts DEF Dropped, SameFlags
<1> QED
  BY <1>1, <1>2, <1>3, <1>4, <1>5, <1>7

-----------------------------------------------------------------------------
(***************************************************************************)
(* The invariant.                                                          *)
(***************************************************************************)

\* The orders, the reports and the fields of the trades fit together.  A trade
\* with orders was opened.
Placed ==
    /\ OrdersOK(orders) /\ Reports(channel, orders)
    /\ \A t \in Trades : Named(trade[t], t, orders)
    /\ \A n \in 1..Len(orders) :
          LET u == trade[orders[n].trade] IN u.position \/ u.e > 0

ListedBooks == \A t \in listed : Books(trade[t], t, orders, channel)

ShortOnly == Directions \subseteq {"short"}

\* The end of the position is told after the last execution of the order n.
GoneAfter(c, n) ==
    \E i \in 1..Len(c) :
        /\ c[i].kind = "gone"
        /\ \A j \in i + 1..Len(c) : ~Executes(c[j], n)

\* A trade that knows of its entry, or will learn of it, learns after that that the
\* position is gone.
Announced ==
    ShortOnly =>
      /\ position > 0 => "short" \in known
      /\ position = 0 =>
           \A n \in 1..Len(orders) :
              /\ orders[n].trade \in listed /\ Learning(trade[orders[n].trade])
              /\ orders[n].leg = "create" /\ orders[n].filled > 0
              => GoneAfter(channel, n)

MarginInv == TypeOK /\ Placed /\ ListedBooks /\ Announced

-----------------------------------------------------------------------------
(***************************************************************************)
(* The reports on their way, when one is served and others are sent.       *)
(***************************************************************************)

\* The first reports of c2 are those of c, the others execute nothing.
Extends(c, c2) ==
    /\ Len(c) <= Len(c2)
    /\ \A i \in 1..Len(c) : c2[i] = c[i]
    /\ \A i \in Len(c) + 1..Len(c2) : c2[i].kind # "traded"

LEMMA ExtendedReports ==
    ASSUME NEW c \in Seq(Report), NEW c2 \in Seq(Report), Extends(c, c2)
    PROVE  /\ \A u : KeepsReports(u, c, c2)
           /\ \A n : GoneAfter(c, n) => GoneAfter(c2, n)
<1>1. Len(c) \in Nat /\ Len(c2) \in Nat /\ Len(c) <= Len(c2)
  BY DEF Extends
<1>2. \A j \in 1..Len(c) : j \in 1..Len(c2) /\ c2[j] = c[j]
  BY <1>1 DEF Extends
<1>3. \A i \in 1..Len(c2) : c2[i].kind = "traded" => i \in 1..Len(c)
  <2> SUFFICES ASSUME NEW i \in 1..Len(c2), i \notin 1..Len(c) PROVE c2[i].kind # "traded"
    OBVIOUS
  <2>1. i \in Len(c) + 1..Len(c2)
    BY <1>1
  <2> QED
    BY <2>1 DEF Extends
<1>4. ASSUME NEW u PROVE KeepsReports(u, c, c2)
  BY <1>2, <1>3 DEF KeepsReports, Executes
<1>5. ASSUME NEW n, GoneAfter(c, n) PROVE GoneAfter(c2, n)
  <2>1. PICK i \in 1..Len(c) : /\ c[i].kind = "gone"
                               /\ \A j \in i + 1..Len(c) : ~Executes(c[j], n)
    BY <1>5 DEF GoneAfter
  <2>2. i \in 1..Len(c2) /\ c2[i].kind = "gone"
    BY <1>2, <2>1
  <2>3. ASSUME NEW j \in i + 1..Len(c2), Executes(c2[j], n) PROVE FALSE
    <3>1. j \in 1..Len(c2) /\ c2[j].kind = "traded"
      BY <1>1, <2>3 DEF Executes
    <3>2. j \in 1..Len(c)
      BY <1>3, <3>1
    <3>3. j \in i + 1..Len(c)
      BY <1>1, <3>2
    <3> QED
      BY <1>2, <2>1, <2>3, <3>2, <3>3
  <2> QED
    BY <2>2, <2>3 DEF GoneAfter
<1> QED
  BY <1>4, <1>5

LEMMA KeepsThen ==
    ASSUME NEW u, NEW c \in Seq(Report), NEW c1 \in Seq(Report), NEW c2 \in Seq(Report),
           KeepsReports(u, c, c1), KeepsReports(u, c1, c2)
    PROVE  KeepsReports(u, c, c2)
<1> SUFFICES ASSUME NEW l \in Legs, u.oid[l] # None
             PROVE  /\ \A i \in 1..Len(c2) : Executes(c2[i], u.oid[l]) => \E j \in 1..Len(c) : c[j] = c2[i]
                    /\ \A j \in 1..Len(c) : Executes(c[j], u.oid[l]) => \E i \in 1..Len(c2) : c2[i] = c[j]
  BY DEF KeepsReports
<1> DEFINE n == u.oid[l]
<1>1. /\ \A i \in 1..Len(c1) : Executes(c1[i], n) => \E j \in 1..Len(c) : c[j] = c1[i]
      /\ \A j \in 1..Len(c) : Executes(c[j], n) => \E i \in 1..Len(c1) : c1[i] = c[j]
  BY DEF KeepsReports
<1>2. /\ \A i \in 1..Len(c2) : Executes(c2[i], n) => \E j \in 1..Len(c1) : c1[j] = c2[i]
      /\ \A j \in 1..Len(c1) : Executes(c1[j], n) => \E i \in 1..Len(c2) : c2[i] = c1[j]
  BY DEF KeepsReports
<1> HIDE DEF n
<1>3. ASSUME NEW i \in 1..Len(c2), Executes(c2[i], n) PROVE \E j \in 1..Len(c) : c[j] = c2[i]
  <2>1. PICK j \in 1..Len(c1) : c1[j] = c2[i]
    BY <1>2, <1>3
  <2> QED
    BY <1>1, <1>3, <2>1
<1>4. ASSUME NEW i \in 1..Len(c), Executes(c[i], n) PROVE \E j \in 1..Len(c2) : c2[j] = c[i]
  <2>1. PICK j \in 1..Len(c1) : c1[j] = c[i]
    BY <1>1, <1>4
  <2> QED
    BY <1>2, <1>4, <2>1
<1> QED
  BY <1>3, <1>4 DEF n

\* What the first report leaves.
LEMMA TailReports ==
    ASSUME NEW c \in Seq(Report), c # <<>>, NEW os, Reports(c, os)
    PROVE  /\ Tail(c) \in Seq(Report) /\ Reports(Tail(c), os) /\ Head(c) = c[1] /\ c[1] \in Report
           /\ Len(c) \in Nat /\ Len(c) >= 1
           /\ Len(Tail(c)) = Len(c) - 1 /\ Len(Tail(c)) \in Nat
           /\ \A i \in 1..Len(Tail(c)) : Tail(c)[i] = c[i + 1] /\ i + 1 \in 1..Len(c)
           /\ \A i \in 1..Len(c) : i # 1 => i - 1 \in 1..Len(Tail(c)) /\ Tail(c)[i - 1] = c[i]
           /\ ReportOK(c[1], os)
           /\ \A i \in 1..Len(Tail(c)) : Follows(c[1], Tail(c)[i])
           /\ c[1].kind # "gone" => \A n : GoneAfter(c, n) => GoneAfter(Tail(c), n)
           /\ \A u : (\A l \in Legs : u.oid[l] # None => ~Executes(c[1], u.oid[l])) =>
                     KeepsReports(u, c, Tail(c))
<1> DEFINE d == Tail(c)
<1>1. /\ d \in Seq(Report) /\ Head(c) = c[1] /\ Len(c) \in Nat /\ Len(c) >= 1 /\ c[1] \in Report
      /\ Len(d) = Len(c) - 1 /\ Len(d) \in Nat
      /\ \A i \in 1..Len(d) : d[i] = c[i + 1]
  <2>1. Len(c) \in Nat /\ Len(c) # 0
    OBVIOUS
  <2> QED
    BY <2>1
<1> HIDE DEF d
<1>2. \A i \in 1..Len(d) : i + 1 \in 1..Len(c)
  BY <1>1
<1>3. \A i \in 1..Len(c) : i # 1 => i - 1 \in 1..Len(d) /\ d[i - 1] = c[i]
  <2> SUFFICES ASSUME NEW i \in 1..Len(c), i # 1 PROVE i - 1 \in 1..Len(d) /\ d[i - 1] = c[i]
    OBVIOUS
  <2>1. i - 1 \in 1..Len(d) /\ (i - 1) + 1 = i
    BY <1>1
  <2>2. d[i - 1] = c[(i - 1) + 1]
    BY <1>1, <2>1
  <2> QED
    BY <2>1, <2>2
<1>4. 1 \in 1..Len(c)
  BY <1>1
<1>5. Reports(d, os)
  <2>1. ASSUME NEW i \in 1..Len(d) PROVE ReportOK(d[i], os)
    BY <1>1, <1>2 DEF Reports
  <2>2. ASSUME NEW i \in 1..Len(d), NEW j \in 1..Len(d), i < j PROVE Follows(d[i], d[j])
    <3>1. i + 1 < j + 1 /\ i + 1 \in 1..Len(c) /\ j + 1 \in 1..Len(c)
      BY <1>1, <1>2, <2>2
    <3>2. Follows(c[i + 1], c[j + 1])
      BY <3>1 DEF Reports
    <3> QED
      BY <1>1, <3>2
  <2> QED
    BY <2>1, <2>2 DEF Reports
<1>6. ReportOK(c[1], os)
  BY <1>4 DEF Reports
<1>7. ASSUME NEW i \in 1..Len(d) PROVE Follows(c[1], d[i])
  <2>1. i + 1 \in 1..Len(c) /\ 1 < i + 1
    BY <1>1, <1>2
  <2>2. Follows(c[1], c[i + 1])
    BY <1>4, <2>1 DEF Reports
  <2> QED
    BY <1>1, <2>2
<1>8. ASSUME c[1].kind # "gone", NEW n, GoneAfter(c, n) PROVE GoneAfter(d, n)
  <2>1. PICK i \in 1..Len(c) : /\ c[i].kind = "gone"
                               /\ \A j \in i + 1..Len(c) : ~Executes(c[j], n)
    BY <1>8 DEF GoneAfter
  <2>2. i # 1
    BY <1>8, <2>1
  <2>3. i - 1 \in 1..Len(d) /\ d[i - 1] = c[i]
    BY <1>3, <2>2
  <2>4. ASSUME NEW j \in (i - 1) + 1..Len(d) PROVE ~Executes(d[j], n)
    <3>1. j \in 1..Len(d) /\ j + 1 \in i + 1..Len(c)
      BY <1>1, <2>3
    <3> QED
      BY <1>1, <2>1, <3>1
  <2>5. d[i - 1].kind = "gone"
    BY <2>1, <2>3
  <2> HIDE <2>1
  <2> QED
    BY <2>3, <2>4, <2>5 DEF GoneAfter
<1>9. ASSUME NEW u, \A l \in Legs : u.oid[l] # None => ~Executes(c[1], u.oid[l])
      PROVE  KeepsReports(u, c, d)
  <2> SUFFICES ASSUME NEW l \in Legs, u.oid[l] # None
               PROVE  /\ \A i \in 1..Len(d) : Executes(d[i], u.oid[l]) => \E j \in 1..Len(c) : c[j] = d[i]
                      /\ \A j \in 1..Len(c) : Executes(c[j], u.oid[l]) => \E i \in 1..Len(d) : d[i] = c[j]
    BY DEF KeepsReports
  <2>1. \A i \in 1..Len(d) : \E j \in 1..Len(c) : c[j] = d[i]
    BY <1>1, <1>2
  <2>2. \A j \in 1..Len(c) : j # 1 => \E i \in 1..Len(d) : d[i] = c[j]
    BY <1>3
  <2> QED
    BY <1>9, <2>1, <2>2
<1> QED
  BY <1>1, <1>2, <1>3, <1>5, <1>6, <1>7, <1>8, <1>9 DEF d

-----------------------------------------------------------------------------
(***************************************************************************)
(* The steps of the strategy and of the signals.                           *)
(***************************************************************************)

\* An operation of the trade t: the books of the others stay as they are.
LEMMA Becoming ==
    ASSUME MarginInv, NEW t \in Trades, NEW w, w.o = orders, Sound(w, t),
           Learning(w.u) => Learning(trade[t]),
           \A s \in listed \ {t} : KeepsReports(trade[s], channel, w.c),
           \A n : GoneAfter(channel, n) => GoneAfter(w.c, n),
           NEW v, Sound(v, t), Evolves(t, w, v), v.u.position,
           trade' = [trade EXCEPT ![t] = v.u], orders' = v.o, channel' = v.c,
           listed' \subseteq listed,
           t \in listed' => Books(v.u, t, v.o, v.c),
           UNCHANGED <<dir, position, outside, known>>
    PROVE  MarginInv'
<1>1. /\ TypeOK /\ trade \in [Trades -> Trade] /\ orders \in Seq(Order) /\ channel \in Seq(Report)
      /\ listed \in SUBSET Trades /\ Len(orders) \in Nat
  BY DEF MarginInv, TypeOK
<1>2. Placed /\ ListedBooks /\ Announced
  BY DEF MarginInv
<1>3. /\ v.u \in Trade /\ v.o \in Seq(Order) /\ v.c \in Seq(Report)
      /\ Len(v.o) \in Nat /\ Len(v.c) \in Nat
      /\ OrdersOK(v.o) /\ Reports(v.c, v.o) /\ Named(v.u, t, v.o)
  BY WorldFacts
<1>4. /\ w.c \in Seq(Report) /\ Len(w.c) \in Nat
  BY WorldFacts
<1>5. Extends(w.c, v.c)
  BY DEF Evolves, Extends
<1>6. /\ Len(orders) <= Len(v.o)
      /\ \A n \in 1..Len(orders) :
            /\ v.o[n].trade = orders[n].trade /\ v.o[n].leg = orders[n].leg
            /\ v.o[n].filled = orders[n].filled
            /\ orders[n].trade # t => v.o[n] = orders[n]
      /\ \A n \in Len(orders) + 1..Len(v.o) : v.o[n].trade = t /\ v.o[n].leg \in ExitLegs
  BY DEF Evolves
<1>7. \A n \in 1..Len(v.o) : n \in 1..Len(orders) \/ n \in Len(orders) + 1..Len(v.o)
  BY <1>1, <1>3
<1>8. trade'[t] = v.u /\ \A s \in Trades \ {t} : trade'[s] = trade[s]
  BY <1>1
<1>9. ASSUME NEW s \in Trades, s # t PROVE KeepsOrders(s, orders, v.o)
  BY <1>6, <1>9 DEF KeepsOrders
<1>10. TypeOK'
  <2>1. trade' \in [Trades -> Trade] /\ listed' \in SUBSET Trades
    BY <1>1, <1>3
  <2> QED
    BY <1>1, <1>3, <2>1 DEF TypeOK
<1>11. ASSUME NEW s \in Trades PROVE Named(trade'[s], s, v.o)
  <2>1. CASE s = t
    BY <1>3, <1>8, <2>1
  <2>2. CASE s # t
    <3>1. Named(trade[s], s, orders) /\ trade[s] \in Trade /\ trade'[s] = trade[s]
      BY <1>1, <1>2, <1>8, <2>2 DEF Placed
    <3>2. KeepsOrders(s, orders, v.o)
      BY <1>9, <2>2
    <3> QED
      BY <1>1, <1>3, <3>1, <3>2, NamedKept
  <2> QED
    BY <2>1, <2>2
<1>12. Placed'
  <2>1. ASSUME NEW n \in 1..Len(v.o)
        PROVE  trade'[v.o[n].trade].position \/ trade'[v.o[n].trade].e > 0
    <3>1. CASE v.o[n].trade = t
      BY <1>8, <3>1
    <3>2. CASE v.o[n].trade # t
      <4>1. n \in 1..Len(orders)
        BY <1>6, <1>7, <3>2
      <4>2. orders[n].trade = v.o[n].trade
        BY <1>6, <4>1
      <4>3. trade[orders[n].trade].position \/ trade[orders[n].trade].e > 0
        BY <1>2, <4>1 DEF Placed
      <4>4. v.o[n].trade \in Trades
        BY <1>3, OrderFacts
      <4> QED
        BY <1>8, <3>2, <4>2, <4>3, <4>4
    <3> QED
      BY <3>1, <3>2
  <2> QED
    BY <1>3, <1>11, <2>1 DEF Placed
<1>13. ListedBooks'
  <2> SUFFICES ASSUME NEW s \in listed' PROVE Books(trade'[s], s, v.o, v.c)
    BY DEF ListedBooks
  <2>0. s \in listed /\ s \in Trades
    BY <1>1
  <2>1. CASE s = t
    BY <1>8, <2>1
  <2>2. CASE s # t
    <3>1. Books(trade[s], s, orders, channel) /\ Named(trade[s], s, orders)
      BY <1>2, <2>0 DEF ListedBooks, Placed
    <3>2. trade[s] \in Trade /\ trade'[s] = trade[s] /\ KeepsOrders(s, orders, v.o)
      BY <1>1, <1>8, <1>9, <2>0, <2>2
    <3>3. KeepsReports(trade[s], channel, v.c)
      <4>1. KeepsReports(trade[s], w.c, v.c)
        BY <1>3, <1>4, <1>5, ExtendedReports
      <4>2. KeepsReports(trade[s], channel, w.c)
        BY <2>0, <2>2
      <4> QED
        BY <1>1, <1>3, <1>4, <4>1, <4>2, KeepsThen
    <3> DEFINE u == trade[s]
               os == orders
               c == channel
               os2 == v.o
               c2 == v.c
    <3>4. /\ u \in Trade /\ os \in Seq(Order) /\ os2 \in Seq(Order)
          /\ KeepsOrders(s, os, os2) /\ KeepsReports(u, c, c2)
          /\ Named(u, s, os) /\ Books(u, s, os, c)
      BY <1>1, <1>3, <3>1, <3>2, <3>3
    <3> HIDE DEF u, os, c, os2, c2
    <3>5. Books(u, s, os2, c2)
      BY <2>0, <3>4, BooksKept
    <3> QED
      BY <3>2, <3>5 DEF u, os2, c2
  <2> QED
    BY <2>1, <2>2
<1>14. Announced'
  <2> SUFFICES ASSUME ShortOnly, position = 0, NEW n \in 1..Len(v.o), v.o[n].trade \in listed',
                      Learning(trade'[v.o[n].trade]), v.o[n].leg = "create", v.o[n].filled > 0
               PROVE  GoneAfter(v.c, n)
    BY <1>2 DEF Announced, ShortOnly, Learning
  <2>1. n \in 1..Len(orders)
    BY <1>6, <1>7, TradeFacts, <1>3
  <2>2. orders[n].trade \in listed /\ orders[n].leg = "create" /\ orders[n].filled > 0
    BY <1>6, <2>1
  <2>5. Learning(trade[orders[n].trade])
    <3>1. CASE orders[n].trade = t
      BY <1>6, <1>8, <2>1, <3>1 DEF Evolves
    <3>2. CASE orders[n].trade # t
      BY <1>1, <1>6, <1>8, <2>1, <2>2, <3>2
    <3> QED
      BY <3>1, <3>2
  <2>3. GoneAfter(channel, n)
    BY <1>2, <2>1, <2>2, <2>5 DEF Announced
  <2>4. GoneAfter(w.c, n)
    BY <2>3
  <2> QED
    BY <1>3, <1>4, <1>5, <2>4, ExtendedReports
<1> QED
  BY <1>10, <1>12, <1>13, <1>14 DEF MarginInv

\* The world of a trade in the list.
LEMMA ListedWorld ==
    ASSUME MarginInv, NEW t \in listed
    PROVE  LET w == World(t)
           IN  /\ t \in Trades /\ Sound(w, t) /\ w.u = trade[t] /\ w.o = orders /\ w.c = channel
               /\ Books(w.u, t, w.o, w.c) /\ w.u.position
<1> DEFINE w == World(t)
<1>1. /\ t \in Trades /\ trade[t] \in Trade /\ orders \in Seq(Order) /\ channel \in Seq(Report)
  BY DEF MarginInv, TypeOK
<1>2. w = [u |-> trade[t], o |-> orders, c |-> channel]
  BY DEF World
<1>3. w.u = trade[t] /\ w.o = orders /\ w.c = channel
  BY <1>2
<1>4. OrdersOK(orders) /\ Reports(channel, orders) /\ Named(trade[t], t, orders)
  BY <1>1 DEF MarginInv, Placed
<1>5. Books(trade[t], t, orders, channel)
  BY DEF MarginInv, ListedBooks
<1>6. trade[t].position
  BY <1>5 DEF Books, Core, States
<1> HIDE DEF w
<1>7. Sound(w, t)
  BY <1>1, <1>2, <1>3, <1>4 DEF Sound, Worlds
<1> QED
  BY <1>1, <1>3, <1>5, <1>6, <1>7 DEF w

\* A trade that stays in the list with its books in order.
LEMMA Operation ==
    ASSUME MarginInv, NEW t \in listed, NEW v, Sound(v, t), Evolves(t, World(t), v),
           v.u.position = trade[t].position, Books(v.u, t, v.o, v.c), Becomes(t, v),
           UNCHANGED <<dir, listed, position, outside, known>>
    PROVE  MarginInv'
<1> DEFINE w == World(t)
<1>1. /\ t \in Trades /\ Sound(w, t) /\ w.u = trade[t] /\ w.o = orders /\ w.c = channel
      /\ w.u.position
  BY ListedWorld
<1>2. trade' = [trade EXCEPT ![t] = v.u] /\ orders' = v.o /\ channel' = v.c
  BY DEF Becomes
<1>3. \A s \in listed \ {t} : KeepsReports(trade[s], channel, w.c)
  BY <1>1 DEF KeepsReports
<1>4. v.u.position
  BY <1>1
<1> HIDE DEF w
<1>5. Evolves(t, w, v)
  BY DEF w
<1>6. \A n : GoneAfter(channel, n) => GoneAfter(w.c, n)
  BY <1>1
<1>7. listed' \subseteq listed
  OBVIOUS
<1> QED
  BY <1>1, <1>2, <1>3, <1>4, <1>5, <1>6, <1>7, Becoming

\* A call that is made has one of the answers.
LEMMA AnswersFacts ==
    ASSUME NEW u, NEW ls, NEW A, NEW a \in Answers(u, ls, A)
    PROVE  \A l \in ls : u.oid[l] # None => a[l] \in A
BY DEF Answers

LEMMA CancelOpenStep == ASSUME MarginInv, NEW t \in Trades, CancelOpen(t) PROVE MarginInv'
<1>0. /\ t \in listed /\ ~IsActive(trade[t]) /\ trade[t].oid["create"] # None
      /\ UNCHANGED <<dir, listed, position, outside, known>>
  BY DEF CancelOpen
<1> PICK a \in Answers(trade[t], {"create"}, CancelAnswers) : Becomes(t, OpenCanceled(World(t), t, a))
  BY DEF CancelOpen, OpenCanceled
<1> DEFINE v == OpenCanceled(World(t), t, a)
<1>1. Becomes(t, v) /\ a["create"] \in CancelAnswers
  BY <1>0, AnswersFacts DEF Legs
<1>2. /\ Sound(World(t), t) /\ World(t).u = trade[t]
      /\ Books(World(t).u, t, World(t).o, World(t).c)
  BY <1>0, ListedWorld
<1>3. /\ Sound(v, t) /\ Evolves(t, World(t), v) /\ Books(v.u, t, v.o, v.c)
      /\ v.u.position = trade[t].position
  BY <1>0, <1>1, <1>2, OpenCanceledFacts
<1> HIDE DEF v
<1> QED
  BY <1>0, <1>1, <1>3, Operation

LEMMA ModifyExitStep == ASSUME MarginInv, NEW t \in Trades, ModifyExit(t) PROVE MarginInv'
<1>1. t \in listed /\ Len(orders) + 1 <= MaxOrders
      /\ UNCHANGED <<dir, listed, position, outside, known>>
  BY DEF ModifyExit, Room
<1>0. PICK l \in ExitLegs, hard \in BOOLEAN, p \in PlaceAnswers :
        \E a \in Answers(trade[t], {l}, CancelAnswers) :
              Becomes(t, Modify(World(t), t, l, hard, a, p))
  BY DEF ModifyExit
<1>2. PICK a \in Answers(trade[t], {l}, CancelAnswers) :
              Becomes(t, Modify(World(t), t, l, hard, a, p))
  BY <1>0
<1> DEFINE v == Modify(World(t), t, l, hard, a, p)
<1>3. /\ Sound(World(t), t) /\ World(t).u = trade[t] /\ World(t).o = orders
      /\ Books(World(t).u, t, World(t).o, World(t).c)
  BY <1>1, ListedWorld
<1>7. trade[t].oid[l] # None => a[l] \in CancelAnswers
  BY AnswersFacts DEF Legs, ExitLegs
<1>4. /\ Sound(v, t) /\ Evolves(t, World(t), v) /\ Books(v.u, t, v.o, v.c)
      /\ Modified(World(t).u, v.u, l)
  BY <1>1, <1>3, <1>7, ModifyFacts
<1>5. Becomes(t, v)
  BY <1>2
<1> HIDE DEF v
<1>6. v.u.position = trade[t].position
  BY <1>3, <1>4 DEF Modified
<1> QED
  BY <1>1, <1>4, <1>5, <1>6, Operation

LEMMA UpdateDirtyStep == ASSUME MarginInv, NEW t \in Trades, UpdateDirty(t) PROVE MarginInv'
<1>0. PICK a \in Answers(trade[t], ExitLegs, CancelAnswers), p \in [ExitLegs -> PlaceAnswers] :
         LET w == World(t)
             d == Replace(w, t, "limit", a, p["limit"])
             b == Replace(d, t, "stop", a, p["stop"])
         IN  Becomes(t, [b EXCEPT !.u.dirty = \/ Failed(w, d, "limit", p["limit"])
                                              \/ Failed(d, b, "stop", p["stop"])])
  BY DEF UpdateDirty
<1> DEFINE w == World(t)
           d == Replace(w, t, "limit", a, p["limit"])
           b == Replace(d, t, "stop", a, p["stop"])
           failed == Failed(w, d, "limit", p["limit"]) \/ Failed(d, b, "stop", p["stop"])
           v == [b EXCEPT !.u.dirty = failed]
<1>1. /\ t \in listed /\ Len(orders) + Cardinality({l \in ExitLegs : w.u.oid[l] # None}) <= MaxOrders
      /\ IsActive(w.u) /\ ~IsClosing(w.u)
      /\ UNCHANGED <<dir, listed, position, outside, known>>
  BY DEF UpdateDirty, Room, World
<1>2. Becomes(t, v)
  BY <1>0
<1>3. /\ Sound(w, t) /\ w.u = trade[t] /\ w.o = orders /\ Books(w.u, t, w.o, w.c)
  BY <1>1, ListedWorld
<1>4. ~w.u.closing
  BY <1>1 DEF IsActive, IsClosing
<1>5. /\ Sound(b, t) /\ Evolves(t, w, b) /\ Books(b.u, t, b.o, b.c)
      /\ b.u.position = w.u.position
      /\ IsActive(b.u) /\ ~failed =>
            \A l \in ExitLegs : b.u.oid[l] # None => b.u.qty[l] - b.u.exec[l] >= b.u.e - b.u.x
  <2>1. \A l \in ExitLegs : w.u.oid[l] # None => a[l] \in CancelAnswers
    BY <1>3, AnswersFacts DEF Legs, ExitLegs
  <2> HIDE DEF w
  <2>2. Len(w.o) + Cardinality(OpenExits(w.u)) <= MaxOrders
    BY <1>1, <1>3 DEF OpenExits
  <2>3. /\ Sound(b, t) /\ Evolves(t, w, b) /\ Books(b.u, t, b.o, b.c)
        /\ b.u.position = w.u.position
        /\ /\ IsActive(b.u)
           /\ ~Failed(w, d, "limit", p["limit"]) /\ ~Failed(d, b, "stop", p["stop"])
           => \A l \in ExitLegs : b.u.oid[l] # None => b.u.qty[l] - b.u.exec[l] >= b.u.e - b.u.x
    <3>1. d = Replace(w, t, "limit", a, p["limit"]) /\ b = Replace(d, t, "stop", a, p["stop"])
      OBVIOUS
    <3> HIDE DEF b, d, v, failed
    <3>2. /\ t \in Trades /\ Sound(w, t) /\ Books(w.u, t, w.o, w.c)
          /\ IsActive(w.u) /\ ~w.u.closing
      BY <1>1, <1>3, <1>4
    <3>3. Redone(t, w, b)
      BY <2>1, <2>2, <3>1, <3>2, ReplacedFacts, Zenon
    <3>4. /\ IsActive(b.u)
          /\ ~Failed(w, d, "limit", p["limit"]) /\ ~Failed(d, b, "stop", p["stop"])
          => \A l \in ExitLegs : b.u.oid[l] # None => b.u.qty[l] - b.u.exec[l] >= b.u.e - b.u.x
      BY <2>1, <2>2, <3>1, <3>2, ReplacedFacts, Zenon
    <3> QED
      BY <3>3, <3>4 DEF Redone
  <2> HIDE DEF b, d
  <2> QED
    BY <2>3
<1>6. failed \in BOOLEAN
  BY DEF Failed
<1> HIDE DEF failed, b, d, w
<1>7. /\ Sound(v, t) /\ Evolves(t, b, v) /\ v.o = b.o /\ v.c = b.c
      /\ v.u \in Trade /\ v.u.oid = b.u.oid /\ v.u.qty = b.u.qty /\ v.u.exec = b.u.exec
      /\ SameFlags(b.u, v.u) /\ v.u.entry = b.u.entry /\ v.u.exit = b.u.exit
      /\ v.u.e = b.u.e /\ v.u.x = b.u.x /\ v.u.dirty = failed
  BY <1>5, <1>6, DirtyFacts
<1> HIDE DEF v
<1>8. b.u \in Trade
  BY <1>5, WorldFacts
<1>9. ASSUME IsActive(v.u), ~v.u.dirty, NEW l \in ExitLegs, v.u.oid[l] # None
      PROVE  v.u.qty[l] - v.u.exec[l] >= v.u.e - v.u.x
  <2>1. IsActive(b.u)
    BY <1>7, <1>9 DEF IsActive, IsClosed
  <2> QED
    BY <1>5, <1>7, <1>9, <2>1
<1>10. Books(v.u, t, b.o, b.c)
  <2> DEFINE u == b.u
             u2 == v.u
             os == b.o
             c == b.c
  <2>1. /\ u \in Trade /\ u2 \in Trade /\ u2.oid = u.oid /\ u2.qty = u.qty /\ u2.exec = u.exec
        /\ SameFlags(u, u2) /\ u2.entry = u.entry /\ u2.exit = u.exit /\ u2.e = u.e /\ u2.x = u.x
        /\ Books(u, t, os, c) /\ t \in Trades
    BY <1>5, <1>7, <1>8
  <2>2. IsActive(u2) /\ ~u2.dirty => \A l \in ExitLegs : u2.oid[l] # None => u2.qty[l] - u2.exec[l] >= u2.e - u2.x
    BY <1>9
  <2> HIDE DEF u, u2, os, c
  <2>3. Books(u2, t, os, c)
    BY <2>1, <2>2, DirtyBooks
  <2> QED
    BY <2>3 DEF u2, os, c
<1>11. Evolves(t, World(t), v)
  <2>1. Evolves(t, w, v)
    BY <1>3, <1>5, <1>7, EvolvesThen
  <2> QED
    BY <2>1 DEF w
<1>12. Books(v.u, t, v.o, v.c) /\ v.u.position = trade[t].position
  BY <1>3, <1>5, <1>7, <1>10 DEF SameFlags
<1> QED
  BY <1>1, <1>2, <1>7, <1>11, <1>12, Operation

LEMMA CloseStep == ASSUME MarginInv, NEW t \in Trades, Close(t) PROVE MarginInv'
<1>0. PICK a \in Answers(trade[t], Legs, CancelAnswers), p \in PlaceAnswers :
         Becomes(t, Closed(World(t), t, a, p))
  BY DEF Close
<1> DEFINE v == Closed(World(t), t, a, p)
<1>1. /\ t \in listed /\ IsActive(trade[t]) /\ ~trade[t].closing /\ Len(orders) + 1 <= MaxOrders
      /\ UNCHANGED <<dir, listed, position, outside, known>>
  BY DEF Close, Room, World
<1>2. Becomes(t, v)
  BY <1>0
<1>3. /\ Sound(World(t), t) /\ World(t).u = trade[t] /\ World(t).o = orders
      /\ Books(World(t).u, t, World(t).o, World(t).c)
  BY <1>1, ListedWorld
<1>4. /\ Sound(v, t) /\ Evolves(t, World(t), v) /\ Books(v.u, t, v.o, v.c)
      /\ v.u.position = trade[t].position
  BY <1>1, <1>3, AnswersFacts, ClosedFacts
<1> HIDE DEF v
<1> QED
  BY <1>1, <1>2, <1>4, Operation

\* A report that does not execute the order of a leg is served.
LEMMA LegServed ==
    ASSUME NEW c \in Seq(Report), c # <<>>, NEW os, Reports(c, os), NEW u, NEW l \in Legs,
           LegOK(u, l, os, c), ~Executes(c[1], u.oid[l])
    PROVE  LegOK(u, l, os, Tail(c))
<1> DEFINE d == Tail(c)
           n == u.oid[l]
           done == Counted(u, l)
           all == os[n].filled
<1>1. /\ \A i \in 1..Len(d) : d[i] = c[i + 1] /\ i + 1 \in 1..Len(c)
      /\ \A i \in 1..Len(c) : i # 1 => i - 1 \in 1..Len(d) /\ d[i - 1] = c[i]
  BY TailReports
<1> HIDE DEF d
<1> SUFFICES ASSUME n # None PROVE LegOK(u, l, os, d)
  BY DEF LegOK, d
<1>2. /\ l # "create" => u.qty[l] = os[n].qty
      /\ done <= all
      /\ \A i \in 1..Len(c) : Executes(c[i], n) => done < c[i].cum
      /\ \/ done = all
         \/ \E i \in 1..Len(c) : Executes(c[i], n) /\ c[i].cum = all
  BY DEF LegOK
<1>3. \A i \in 1..Len(d) : Executes(d[i], n) => done < d[i].cum
  <2> HIDE DEF n, done
  <2> QED
    BY <1>1, <1>2
<1>4. ASSUME NEW i \in 1..Len(c), Executes(c[i], n), c[i].cum = all
      PROVE  \E j \in 1..Len(d) : Executes(d[j], n) /\ d[j].cum = all
  <2>1. i # 1
    BY <1>4
  <2> HIDE DEF n, all
  <2> QED
    BY <1>1, <1>4, <2>1
<1> QED
  <2>1. done = all \/ \E j \in 1..Len(d) : Executes(d[j], n) /\ d[j].cum = all
    <3> HIDE DEF n, done, all
    <3> QED
      BY <1>2, <1>4
  <2> QED
    BY <1>2, <1>3, <2>1 DEF LegOK

\* The execution of the order of a leg is served: k more lots are counted.
LEMMA LegExecuted ==
    ASSUME NEW c \in Seq(Report), c # <<>>, NEW os, Reports(c, os),
           NEW u \in Trade, NEW v \in Trade, NEW l \in Legs, LegOK(u, l, os, c),
           u.oid[l] # None, Executes(c[1], u.oid[l]), OrdersOK(os), u.oid[l] \in 1..Len(os),
           v.oid[l] # None => /\ v.oid[l] = u.oid[l] /\ Counted(v, l) = c[1].cum
                              /\ l # "create" => v.qty[l] = u.qty[l]
    PROVE  LegOK(v, l, os, Tail(c))
<1> DEFINE d == Tail(c)
           n == u.oid[l]
           cum == c[1].cum
           all == os[n].filled
           done == Counted(u, l)
<1>1. /\ \A i \in 1..Len(d) : d[i] = c[i + 1] /\ i + 1 \in 1..Len(c)
      /\ \A i \in 1..Len(c) : i # 1 => i - 1 \in 1..Len(d) /\ d[i - 1] = c[i]
      /\ ReportOK(c[1], os) /\ c[1] \in Report /\ 1 \in 1..Len(c)
      /\ \A i \in 1..Len(d) : Follows(c[1], d[i])
  BY TailReports
<1> HIDE DEF d
<1> SUFFICES ASSUME v.oid[l] # None PROVE LegOK(v, l, os, d)
  BY DEF LegOK, d
<1>2. c[1].kind = "traded" /\ c[1].id = n
  BY DEF Executes
<1>3. cum <= all /\ cum \in Nat /\ all \in Nat
  <2>1. cum \in Nat
    BY <1>1 DEF Report
  <2>2. all \in Nat
    BY OrderFacts
  <2>3. cum <= all
    BY <1>1, <1>2 DEF ReportOK, OrderReports
  <2> QED
    BY <2>1, <2>2, <2>3
<1>4. /\ l # "create" => u.qty[l] = os[n].qty
      /\ done < cum
      /\ done = all \/ \E i \in 1..Len(c) : Executes(c[i], n) /\ c[i].cum = all
  BY <1>1 DEF LegOK
<1>5. done \in Nat
  BY TradeFacts DEF Counted
<1>6. ASSUME NEW i \in 1..Len(d), Executes(d[i], n) PROVE cum < d[i].cum
  <2>1. Follows(c[1], d[i])
    BY <1>1
  <2> QED
    BY <1>2, <1>6, <2>1 DEF Follows, Executes, OrderReports
<1> HIDE DEF n, cum, all, done
<1>7. cum = all \/ \E j \in 1..Len(d) : Executes(d[j], n) /\ d[j].cum = all
  <2>1. PICK i \in 1..Len(c) : Executes(c[i], n) /\ c[i].cum = all
    BY <1>3, <1>4, <1>5
  <2>2. CASE i = 1
    BY <2>1, <2>2 DEF cum
  <2>3. CASE i # 1
    BY <1>1, <2>1, <2>3
  <2> QED
    BY <2>2, <2>3
<1>8. v.oid[l] = n /\ Counted(v, l) = cum /\ (l # "create" => v.qty[l] = u.qty[l])
  BY DEF n, cum
<1> QED
  BY <1>3, <1>4, <1>6, <1>7, <1>8 DEF LegOK, all

\* The last report of an order that ended: all it executed was counted before.
LEMMA LegEnded ==
    ASSUME NEW c \in Seq(Report), c # <<>>, NEW os, Reports(c, os),
           NEW u, NEW l \in Legs, LegOK(u, l, os, c),
           u.oid[l] # None, c[1].kind \in Ends, c[1].id = u.oid[l]
    PROVE  Counted(u, l) = os[u.oid[l]].filled /\ os[u.oid[l]].status # "live"
<1> DEFINE n == u.oid[l]
           done == Counted(u, l)
           all == os[n].filled
<1>1. /\ \A i \in 1..Len(c) : i # 1 => i - 1 \in 1..Len(Tail(c)) /\ Tail(c)[i - 1] = c[i]
      /\ ReportOK(c[1], os)
      /\ \A i \in 1..Len(Tail(c)) : Follows(c[1], Tail(c)[i])
  BY TailReports
<1>2. done = all \/ \E i \in 1..Len(c) : Executes(c[i], n) /\ c[i].cum = all
  BY DEF LegOK
<1>3. ASSUME NEW i \in 1..Len(c), Executes(c[i], n) PROVE FALSE
  <2>1. i # 1
    BY <1>3 DEF Executes, Ends
  <2>2. Follows(c[1], c[i])
    BY <1>1, <2>1
  <2> QED
    BY <1>3, <2>2 DEF Executes, Follows, Ends, OrderReports
<1>4. os[n].status # "live"
  BY <1>1 DEF ReportOK, Ends, OrderReports
<1> HIDE DEF n, done, all
<1>5. done = all
  BY <1>2, <1>3
<1> QED
  BY <1>4, <1>5 DEF n, done, all

\* The report at the head of the channel, on the order of the leg l.
Serves(u, t, os, c, l) ==
    /\ u \in Trade /\ t \in Trades /\ OrdersOK(os) /\ c \in Seq(Report) /\ c # <<>>
    /\ Reports(c, os) /\ Named(u, t, os) /\ Books(u, t, os, c)
    /\ l \in Legs /\ u.oid[l] # None /\ u.oid[l] = c[1].id

LEMMA ServesFacts ==
    ASSUME NEW u, NEW t, NEW os, NEW c, NEW l, Serves(u, t, os, c, l)
    PROVE  LET n == u.oid[l]
               d == Tail(c)
           IN  /\ u \in Trade /\ t \in Trades /\ OrdersOK(os) /\ c \in Seq(Report) /\ c # <<>>
               /\ Reports(c, os) /\ Named(u, t, os) /\ Core(u, t, os) /\ l \in Legs
               /\ \A j \in Legs : LegOK(u, j, os, c)
               /\ n # None /\ n \in 1..Len(os) /\ os[n].trade = t /\ os[n].leg = l /\ c[1].id = n
               /\ \A j \in Legs : j # l \/ c[1].kind # "traded" => LegOK(u, j, os, d)
               /\ c[1].cum \in Nat /\ c[1].filled \in Nat /\ c[1].full \in BOOLEAN
               /\ os[n].qty \in Nat /\ os[n].filled \in Nat /\ os[n].filled <= os[n].qty
               /\ os[n].status = "closed" <=> os[n].filled = os[n].qty
               /\ Counted(u, l) \in Nat /\ Counted(u, l) <= os[n].filled
               /\ l = "create" => os[n].qty = Quantity[t]
               /\ l # "create" => u.qty[l] = os[n].qty /\ l \in ExitLegs
               /\ c[1].kind = "traded" => /\ Counted(u, l) < c[1].cum /\ c[1].cum <= os[n].filled
                                          /\ c[1].full => c[1].cum = os[n].qty
<1> DEFINE n == u.oid[l]
           d == Tail(c)
<1>1. /\ u \in Trade /\ t \in Trades /\ OrdersOK(os) /\ c \in Seq(Report) /\ c # <<>>
      /\ Reports(c, os) /\ Named(u, t, os) /\ Core(u, t, os) /\ l \in Legs
      /\ \A j \in Legs : LegOK(u, j, os, c)
      /\ n # None /\ c[1].id = n
  BY DEF Serves, Books
<1>2. n \in 1..Len(os) /\ os[n].trade = t /\ os[n].leg = l
  BY <1>1 DEF Named
<1>3. ReportOK(c[1], os) /\ c[1] \in Report /\ 1 \in 1..Len(c)
  BY <1>1, TailReports
<1>4. ASSUME NEW j \in Legs, j # l \/ c[1].kind # "traded" PROVE LegOK(u, j, os, d)
  <2>1. CASE u.oid[j] = None
    BY <2>1 DEF LegOK
  <2>2. CASE u.oid[j] # None
    <3>1. ~Executes(c[1], u.oid[j])
      <4>1. CASE j = l
        BY <1>4, <4>1 DEF Executes
      <4>2. CASE j # l
        <5>1. os[u.oid[j]].leg = j
          BY <1>1, <2>2 DEF Named
        <5> QED
          BY <1>1, <1>2, <4>2, <5>1 DEF Executes
      <4> QED
        BY <4>1, <4>2
    <3> QED
      BY <1>1, <3>1, LegServed
  <2> QED
    BY <2>1, <2>2
<1>5. c[1].cum \in Nat /\ c[1].filled \in Nat /\ c[1].full \in BOOLEAN
  BY <1>3 DEF Report
<1>6. /\ os[n].qty \in Nat /\ os[n].filled \in Nat /\ os[n].filled <= os[n].qty /\ OrderOK(os[n])
  BY <1>1, <1>2, OrderFacts
<1>7. /\ os[n].status = "closed" <=> os[n].filled = os[n].qty
      /\ l = "create" => os[n].qty = Quantity[t]
  BY <1>2, <1>6 DEF OrderOK
<1>8. l # "create" => l \in ExitLegs
  BY <1>1 DEF Legs, ExitLegs
<1>9. Counted(u, l) \in Nat
  BY <1>1, <1>8, TradeFacts DEF Counted
<1>10. Counted(u, l) <= os[n].filled /\ (l # "create" => u.qty[l] = os[n].qty)
  BY <1>1 DEF LegOK
<1>11. ASSUME c[1].kind = "traded"
       PROVE  /\ Counted(u, l) < c[1].cum /\ c[1].cum <= os[n].filled
              /\ c[1].full => c[1].cum = os[n].qty
  <2>1. Executes(c[1], n) /\ LegOK(u, l, os, c)
    BY <1>1, <1>11 DEF Executes
  <2>2. Counted(u, l) < c[1].cum
    BY <1>1, <1>3, <2>1 DEF LegOK
  <2> QED
    BY <1>1, <1>3, <1>11, <2>2 DEF ReportOK, OrderReports
<1> QED
  BY <1>1, <1>2, <1>4, <1>5, <1>6, <1>7, <1>8, <1>9, <1>10, <1>11

LEMMA EntryExecuted ==
    ASSUME NEW u, NEW t, NEW os, NEW c, Serves(u, t, os, c, "create"), c[1].kind = "traded"
    PROVE  LET v == EntryTraded(u, Quantity[t], c[1].cum, c[1].full)
           IN  /\ v \in Trade /\ Named(v, t, os) /\ Books(v, t, os, Tail(c)) /\ SameFlags(u, v)
<1> DEFINE n == u.oid["create"]
           cum == c[1].cum
           full == c[1].full
           q == Quantity[t]
           v == EntryTraded(u, q, cum, full)
<1>1. /\ u \in Trade /\ t \in Trades /\ OrdersOK(os) /\ c \in Seq(Report) /\ c # <<>>
      /\ Reports(c, os) /\ Named(u, t, os) /\ Core(u, t, os) /\ "create" \in Legs
      /\ \A j \in Legs : LegOK(u, j, os, c)
      /\ n # None /\ n \in 1..Len(os) /\ c[1].id = n
      /\ \A j \in Legs : j # "create" => LegOK(u, j, os, Tail(c))
      /\ cum \in Nat /\ full \in BOOLEAN
      /\ os[n].filled \in Nat /\ os[n].filled <= q
      /\ os[n].status = "closed" <=> os[n].filled = q
      /\ u.e < cum /\ cum <= os[n].filled /\ (full => cum = q)
  <2>1. Counted(u, "create") = u.e
    BY DEF Counted
  <2> QED
    BY <2>1, ServesFacts
<1>2. q \in Nat /\ u.e \in Nat
  BY <1>1, TradeFacts
<1>3. /\ v \in Trade /\ v.e = cum /\ v.x = u.x /\ v.exit = u.exit
      /\ SameOthers(u, v, "create") /\ SameFlags(u, v)
      /\ v.dirty <=> u.dirty \/ cum > u.e
      /\ IF cum >= q \/ full THEN v.entry = "filled" /\ v.oid["create"] = None
         ELSE v.entry = "partially_filled" /\ v.oid["create"] = u.oid["create"]
  <2>1. u \in Trade /\ q \in Nat /\ cum \in Nat /\ full \in BOOLEAN
    BY <1>1, <1>2
  <2> HIDE DEF cum, full, q
  <2> QED
    BY <2>1, EntryTradedFacts
<1> HIDE DEF v, cum, full, q
<1>4. v.dirty /\ v.e > 0 /\ v.e # u.e /\ u.e <= v.e /\ v.e <= os[n].filled
      /\ v.entry \in {"partially_filled", "filled"}
  BY <1>1, <1>2, <1>3
<1>5. \/ v.oid["create"] = None /\ v.e = os[n].filled /\ os[n].status # "live"
      \/ v.oid["create"] = n /\ v.e < q /\ v.entry # "filled"
  BY <1>1, <1>2, <1>3
<1>6. Core(v, t, os) /\ Named(v, t, os)
  BY <1>1, <1>3, <1>4, <1>5, CountEntry DEF q
<1>7. LegOK(v, "create", os, Tail(c))
  <2>1. Executes(c[1], n)
    BY <1>1 DEF Executes
  <2>2. v.oid["create"] # None => v.oid["create"] = n /\ Counted(v, "create") = c[1].cum
    BY <1>3, <1>5 DEF Counted, cum
  <2> QED
    BY <1>1, <1>3, <2>1, <2>2, LegExecuted
<1>8. \A j \in Legs : LegOK(v, j, os, Tail(c))
  BY <1>1, <1>3, <1>7, LegsKept
<1> QED
  BY <1>3, <1>6, <1>8 DEF Books, v, q, cum, full

LEMMA ExitExecuted ==
    ASSUME NEW u, NEW t, NEW os, NEW c, NEW l \in ExitLegs, Serves(u, t, os, c, l),
           c[1].kind = "traded"
    PROVE  LET v == ExitTraded(u, Quantity[t], l, c[1].cum, c[1].filled, c[1].full)
           IN  /\ v \in Trade /\ Named(v, t, os) /\ Books(v, t, os, Tail(c)) /\ SameFlags(u, v)
               /\ Learning(v) => Learning(u)
<1> DEFINE n == u.oid[l]
           cum == c[1].cum
           filled == c[1].filled
           full == c[1].full
           q == Quantity[t]
           k == Gain(u, l, cum, filled)
           v == ExitTraded(u, q, l, cum, filled, full)
<1>0. l # "create"
  BY DEF ExitLegs
<1>1. /\ u \in Trade /\ t \in Trades /\ OrdersOK(os) /\ c \in Seq(Report) /\ c # <<>>
      /\ Reports(c, os) /\ Named(u, t, os) /\ Core(u, t, os) /\ l \in Legs
      /\ \A j \in Legs : LegOK(u, j, os, c)
      /\ n # None /\ n \in 1..Len(os) /\ os[n].trade = t /\ os[n].leg = l /\ c[1].id = n
      /\ \A j \in Legs : j # l => LegOK(u, j, os, Tail(c))
      /\ cum \in Nat /\ filled \in Nat /\ full \in BOOLEAN
      /\ os[n].filled \in Nat /\ os[n].filled <= os[n].qty /\ os[n].qty \in Nat
      /\ os[n].status = "closed" <=> os[n].filled = os[n].qty
      /\ u.exec[l] < cum /\ cum <= os[n].filled /\ (full => cum = os[n].qty)
      /\ u.qty[l] = os[n].qty
  <2>1. Counted(u, l) = u.exec[l]
    BY <1>0 DEF Counted
  <2> QED
    BY <1>0, <2>1, ServesFacts
<1>2. q \in Nat /\ u.e \in Nat /\ u.x \in Nat /\ u.exec[l] \in Nat
  BY <1>1, TradeFacts
<1>3. k = cum - u.exec[l]
  BY <1>1 DEF Gain
<1>4. /\ k \in Nat /\ v \in Trade /\ v.x = u.x + k
      /\ v.exit = ExitState(u, q, u.x + k, full)
      /\ v.entry = u.entry /\ v.e = u.e /\ v.dirty = u.dirty
      /\ SameOthers(u, v, l) /\ SameFlags(u, v)
      /\ IF u.exec[l] + k >= u.qty[l] \/ full THEN v.oid[l] = None
         ELSE /\ v.oid[l] = u.oid[l] /\ v.qty[l] = u.qty[l]
              /\ v.exec[l] = u.exec[l] + k
  <2>1. /\ u \in Trade /\ q \in Nat /\ cum \in Nat /\ full \in BOOLEAN
        /\ filled \in Nat
    BY <1>1, <1>2
  <2> HIDE DEF cum, full, q, filled
  <2>2. ExitCounted(u, q, l, k, full, v)
    BY <2>1, ExitTradedFacts
  <2> HIDE DEF k, v
  <2> QED
    BY <2>2 DEF ExitCounted
<1> HIDE DEF v, cum, full, q, k, filled
<1>5. u.exec[l] + k = cum /\ u.exec[l] + k <= os[n].filled /\ u.exec[l] + k <= u.qty[l]
  <2> DEFINE before == u.exec[l]
             all == os[n].filled
             size == u.qty[l]
  <2>1. /\ before \in Nat /\ cum \in Nat /\ k = cum - before /\ cum <= all /\ all <= size
        /\ all \in Nat /\ size \in Nat
    BY <1>1, <1>2, <1>3
  <2> HIDE DEF before, all, size
  <2>2. before + k = cum /\ before + k <= all /\ before + k <= size
    BY <2>1
  <2> QED
    BY <2>2 DEF before, all, size
<1>6. \/ v.oid[l] = None /\ u.exec[l] + k = os[n].filled /\ os[n].status # "live"
      \/ v.oid[l] = n /\ v.qty[l] = u.qty[l] /\ v.exec[l] = u.exec[l] + k
  <2> DEFINE lots == u.exec[l] + k
             all == os[n].filled
             size == os[n].qty
  <2>0. lots = cum /\ lots <= all /\ all <= size /\ all \in Nat /\ size \in Nat /\ cum \in Nat
        /\ u.qty[l] = size /\ (full => cum = size)
    BY <1>1, <1>5
  <2> HIDE DEF lots, all, size
  <2>1. CASE lots >= u.qty[l] \/ full
    <3>1. v.oid[l] = None
      BY <1>4, <2>1 DEF lots
    <3>2. lots = all /\ all = size
      BY <2>0, <2>1
    <3>3. os[n].status = "closed"
      BY <1>1, <3>2 DEF all, size
    <3> QED
      BY <3>1, <3>2, <3>3 DEF lots, all
  <2>2. CASE ~(lots >= u.qty[l] \/ full)
    BY <1>4, <2>2 DEF lots
  <2> QED
    BY <2>1, <2>2
<1>7. full => EmptiedOf(os, t)
  <2> SUFFICES ASSUME full PROVE EmptiedOf(os, t)
    OBVIOUS
  <2>1. os[n].filled = os[n].qty
    BY <1>1, <1>2
  <2>2. n \in DOMAIN os /\ os[n].status = "closed"
    BY <1>1, <2>1 DEF OrdersOK
  <2> QED
    BY <1>1, <2>2 DEF EmptiedOf
<1>8. \A j \in ExitLegs : u.oid[j] # None => u.exec[j] <= u.qty[j]
  <2> SUFFICES ASSUME NEW j \in ExitLegs, u.oid[j] # None PROVE u.exec[j] <= u.qty[j]
    OBVIOUS
  <2>1. Books(u, t, os, c)
    BY DEF Serves
  <2>2. u.qty[j] - u.exec[j] >= 0 /\ u.qty[j] \in Nat /\ u.exec[j] \in Nat
    BY <1>1, <2>1, Offered, TradeFacts
  <2> QED
    BY <2>2
<1>9. Core(v, t, os) /\ Named(v, t, os)
  BY <1>1, <1>4, <1>5, <1>6, <1>7, <1>8, CountExit DEF q
<1>10. LegOK(v, l, os, Tail(c))
  <2>1. Executes(c[1], n)
    BY <1>1 DEF Executes
  <2>2. v.oid[l] # None => /\ v.oid[l] = n /\ Counted(v, l) = c[1].cum
                           /\ v.qty[l] = u.qty[l]
    BY <1>0, <1>5, <1>6 DEF Counted, cum
  <2> QED
    BY <1>1, <1>4, <2>1, <2>2, LegExecuted
<1>11. \A j \in Legs : LegOK(v, j, os, Tail(c))
  BY <1>1, <1>4, <1>10, LegsKept
<1>12. Learning(v) => Learning(u)
  BY <1>0, <1>4 DEF Learning, SameOthers, Legs
<1> QED
  BY <1>4, <1>9, <1>11, <1>12 DEF Books, v, q, cum, full, filled

\* What order_signal makes of the trade: its books are those of the reports left.
LEMMA SignalBooks ==
    ASSUME NEW u, NEW t, NEW os, NEW c, NEW l, Serves(u, t, os, c, l),
           c[1].kind \in OrderReports
    PROVE  LET v == OrderSignal(u, Quantity[t], c[1])
           IN  /\ v \in Trade /\ Named(v, t, os) /\ Books(v, t, os, Tail(c)) /\ SameFlags(u, v)
               /\ Learning(v) => Learning(u)
<1> DEFINE n == u.oid[l]
           d == Tail(c)
           r == c[1]
           q == Quantity[t]
           v == OrderSignal(u, q, r)
<1>1. /\ u \in Trade /\ t \in Trades /\ OrdersOK(os) /\ c \in Seq(Report) /\ c # <<>>
      /\ Reports(c, os) /\ Named(u, t, os) /\ Core(u, t, os) /\ l \in Legs
      /\ \A j \in Legs : LegOK(u, j, os, c)
      /\ n # None /\ n \in 1..Len(os) /\ os[n].leg = l /\ r.id = n
      /\ \A j \in Legs : j # l \/ r.kind # "traded" => LegOK(u, j, os, d)
      /\ os[n].filled \in Nat
  BY ServesFacts
<1>2. l = CHOOSE k \in Legs : u.oid[k] = r.id
  <2>1. ASSUME NEW k \in Legs, u.oid[k] = r.id PROVE k = l
    <3>1. os[u.oid[k]].leg = k
      BY <1>1, <2>1 DEF Named
    <3> QED
      BY <1>1, <2>1, <3>1
  <2> QED
    BY <1>1, <2>1
<1>3. v = CASE r.kind = "opened" ->
                IF l = "create" /\ u.e = 0 THEN [u EXCEPT !.entry = "opened"]
                ELSE u
          [] r.kind = "traded" -> Traded(u, q, l, r.cum, r.filled, r.full)
          [] OTHER -> Ended(u, l, r.kind)
  <2> DEFINE k == CHOOSE k \in Legs : u.oid[k] = r.id
  <2>1. v = CASE r.kind = "opened" ->
                IF k = "create" /\ u.e = 0 THEN [u EXCEPT !.entry = "opened"]
                ELSE u
          [] r.kind = "traded" -> Traded(u, q, k, r.cum, r.filled, r.full)
          [] OTHER -> Ended(u, k, r.kind)
    BY DEF OrderSignal
  <2>2. k = l
    BY <1>2
  <2> HIDE DEF k, v, r
  <2> QED
    BY <2>1, <2>2
<1>4. u.e \in Nat /\ (l # "create" => l \in ExitLegs /\ u.exec[l] \in Nat)
  BY <1>1, TradeFacts DEF Legs, ExitLegs
<1>8. l = "create" => Learning(u)
  BY <1>1 DEF Learning
<1>5. CASE r.kind = "opened"
  <2>0. \A j \in Legs : LegOK(u, j, os, d)
    BY <1>1, <1>5
  <2>1. CASE l = "create" /\ u.e = 0
    <3>1. v = [u EXCEPT !.entry = "opened"]
      BY <1>3, <1>5, <2>1
    <3> HIDE DEF v, d, r
    <3>2. /\ v \in Trade /\ v.entry = "opened" /\ v.oid = u.oid /\ v.qty = u.qty /\ v.exec = u.exec
          /\ v.exit = u.exit /\ v.e = u.e /\ v.x = u.x /\ v.dirty = u.dirty
      BY <1>1, <3>1 DEF Trade
    <3>3. SameFlags(u, v)
      BY <1>1, <3>1 DEF Trade, SameFlags
    <3>4. SameOthers(u, v, "create")
      BY <3>2 DEF SameOthers
    <3>5. v.e < Quantity[t] /\ v.oid["create"] = u.oid["create"] /\ v.entry # "filled"
      BY <1>1, <2>1, <3>2, TradeFacts
    <3>6. u.oid["create"] # None /\ v.e = 0 /\ v.e <= os[u.oid["create"]].filled
      BY <1>1, <2>1, <3>2
    <3>7. Core(v, t, os) /\ Named(v, t, os)
      BY <1>1, <1>4, <2>1, <3>2, <3>3, <3>4, <3>5, <3>6, CountEntry
    <3>8. \A j \in Legs : LegOK(v, j, os, d)
      BY <2>0, <3>2 DEF LegOK, Counted
    <3> QED
      BY <1>8, <2>1, <3>2, <3>3, <3>7, <3>8 DEF Books, v, d, r
  <2>2. CASE ~(l = "create" /\ u.e = 0)
    <3>1. v = u
      BY <1>3, <1>5, <2>2
    <3> QED
      BY <1>1, <2>0, <3>1 DEF Books, SameFlags
  <2> QED
    BY <2>1, <2>2
<1>6. CASE r.kind = "traded"
  <2>1. CASE l = "create"
    <3>1. v = EntryTraded(u, q, r.cum, r.full)
      BY <1>3, <1>6, <2>1 DEF Traded
    <3>2. Serves(u, t, os, c, "create")
      BY <2>1
    <3> QED
      BY <1>6, <1>8, <2>1, <3>1, <3>2, EntryExecuted
  <2>2. CASE l # "create"
    <3>1. v = ExitTraded(u, q, l, r.cum, r.filled, r.full)
      BY <1>3, <1>6, <2>2 DEF Traded
    <3> QED
      BY <1>4, <1>6, <2>2, <3>1, ExitExecuted
  <2> QED
    BY <2>1, <2>2
<1>7. CASE r.kind \in Ends
  <2>0. \A j \in Legs : LegOK(u, j, os, d)
    BY <1>1, <1>7 DEF Ends
  <2>1. v = Ended(u, l, r.kind)
    BY <1>3, <1>7 DEF Ends
  <2>2. /\ v \in Trade /\ v.oid[l] = None
        /\ SameOthers(u, v, l) /\ SameFlags(u, v)
        /\ v.entry = (IF l = "create" /\ u.e = 0 THEN r.kind ELSE u.entry)
        /\ v.exit = u.exit /\ v.e = u.e /\ v.x = u.x /\ v.dirty = u.dirty
    <3>1. r.kind \in {"deleted", "canceled"}
      BY <1>7 DEF Ends
    <3> QED
      BY <1>1, <2>1, <3>1, EndedFacts
  <2>3. Counted(u, l) = os[n].filled /\ os[n].status # "live"
    BY <1>1, <1>7, LegEnded
  <2> HIDE DEF v
  <2>4. Core(v, t, os) /\ Named(v, t, os)
    <3>1. CASE l = "create"
      <4>1. u.e = os[u.oid["create"]].filled /\ os[u.oid["create"]].status # "live"
        BY <2>3, <3>1 DEF Counted
      <4>2. v.e = u.e /\ v.oid["create"] = None /\ u.oid["create"] # None /\ SameOthers(u, v, "create")
        BY <1>1, <2>2, <3>1
      <4>3. u.entry \in {"partially_filled", "filled"} <=> u.e > 0
        BY <1>1 DEF Core, States
      <4>4. /\ v.entry \in {"partially_filled", "filled"} <=> v.e > 0
            /\ v.entry = u.entry \/ v.entry \notin {"partially_filled", "filled"}
        <5>1. CASE u.e = 0
          BY <1>7, <2>2, <3>1, <5>1 DEF Ends
        <5>2. CASE u.e # 0
          BY <2>2, <4>3, <5>2
        <5> QED
          BY <5>1, <5>2
      <4> DEFINE all == os[u.oid["create"]].filled
      <4>5. u.e <= v.e /\ v.e <= all /\ v.e = all
        BY <1>4, <4>1, <4>2
      <4> QED
        BY <1>1, <1>4, <2>2, <4>1, <4>2, <4>4, <4>5, CountEntry
    <3>2. CASE l # "create"
      <4>1. u.exec[l] = os[u.oid[l]].filled /\ os[u.oid[l]].status # "live"
        BY <2>3, <3>2 DEF Counted
      <4>2. l \in ExitLegs /\ u.exec[l] \in Nat /\ u.x \in Nat
        BY <1>1, <1>4, <3>2, TradeFacts
      <4>3. \A j \in ExitLegs : u.oid[j] # None => u.exec[j] <= u.qty[j]
        <5> SUFFICES ASSUME NEW j \in ExitLegs, u.oid[j] # None PROVE u.exec[j] <= u.qty[j]
          OBVIOUS
        <5>1. Books(u, t, os, c)
          BY DEF Serves
        <5>2. u.qty[j] - u.exec[j] >= 0 /\ u.qty[j] \in Nat /\ u.exec[j] \in Nat
          BY <1>1, <5>1, Offered, TradeFacts
        <5> QED
          BY <5>2
      <4> DEFINE done == u.exec[l]
                 x == u.x
      <4>4. done + 0 = done /\ x + 0 = x
        <5> HIDE DEF done, x
        <5> QED
          BY <4>2 DEF done, x
      <4>5. u.exec[l] + 0 <= os[u.oid[l]].filled /\ u.exec[l] + 0 <= u.qty[l]
            /\ u.exec[l] + 0 = os[u.oid[l]].filled /\ v.x = u.x + 0
        <5> DEFINE all == os[u.oid[l]].filled
                   size == u.qty[l]
        <5>1. done <= all /\ done <= size /\ done = all /\ v.x = x
          BY <1>1, <2>2, <4>1, <4>2, <4>3
        <5>2. done + 0 <= all /\ done + 0 <= size /\ done + 0 = all /\ v.x = x + 0
          BY <4>4, <5>1
        <5> QED
          BY <5>2
      <4>6. 0 \in Nat /\ FALSE \in BOOLEAN /\ v.entry = u.entry
        BY <2>2, <3>2
      <4> HIDE DEF done, x
      <4> QED
        BY <1>1, <2>2, <4>1, <4>2, <4>3, <4>5, <4>6, CountExit
    <3> QED
      BY <3>1, <3>2
  <2>5. LegOK(v, l, os, d)
    BY <2>2 DEF LegOK
  <2>6. \A j \in Legs : LegOK(v, j, os, d)
    BY <1>1, <2>0, <2>2, <2>5, LegsKept
  <2>7. Learning(v) => Learning(u)
    BY <1>1, <1>8, <2>2 DEF Learning, SameOthers, Legs
  <2> QED
    BY <2>2, <2>4, <2>6, <2>7 DEF Books, v
<1> QED
  BY <1>5, <1>6, <1>7 DEF OrderReports, Ends

\* A report that no trade in the list waits for is dropped.
LEMMA ReportDropped ==
    ASSUME MarginInv, channel # <<>>, channel[1].kind # "gone",
           \A s \in listed : \A l \in Legs : trade[s].oid[l] # channel[1].id,
           channel' = Tail(channel),
           UNCHANGED <<trade, listed, orders, dir, position, outside, known>>
    PROVE  MarginInv'
<1>1. /\ TypeOK /\ trade \in [Trades -> Trade] /\ orders \in Seq(Order) /\ channel \in Seq(Report)
      /\ listed \in SUBSET Trades
  BY DEF MarginInv, TypeOK
<1>2. Placed /\ ListedBooks /\ Announced /\ Reports(channel, orders)
  BY DEF MarginInv, Placed
<1>3. /\ channel' \in Seq(Report) /\ Reports(channel', orders)
      /\ \A n : GoneAfter(channel, n) => GoneAfter(channel', n)
  BY <1>1, <1>2, TailReports
<1>4. TypeOK'
  BY <1>1, <1>3 DEF TypeOK
<1>5. Placed'
  <2>1. /\ OrdersOK(orders') /\ Reports(channel', orders')
        /\ \A t \in Trades : Named(trade'[t], t, orders')
        /\ \A n \in 1..Len(orders') :
              LET u == trade'[orders'[n].trade] IN u.position \/ u.e > 0
    BY <1>2, <1>3 DEF Placed
  <2> QED
    BY <2>1 DEF Placed
<1>6. ListedBooks'
  <2> SUFFICES ASSUME NEW s \in listed PROVE Books(trade[s], s, orders, Tail(channel))
    BY DEF ListedBooks
  <2>1. s \in Trades /\ trade[s] \in Trade /\ Named(trade[s], s, orders) /\ Books(trade[s], s, orders, channel)
    BY <1>1, <1>2 DEF Placed, ListedBooks
  <2>2. \A l \in Legs : trade[s].oid[l] # None => ~Executes(channel[1], trade[s].oid[l])
    BY DEF Executes
  <2>3. KeepsReports(trade[s], channel, Tail(channel))
    BY <1>1, <1>2, <2>2, TailReports
  <2>4. KeepsOrders(s, orders, orders)
    BY <1>1 DEF KeepsOrders
  <2> DEFINE u == trade[s]
             os == orders
             c == channel
             c2 == Tail(channel)
  <2>5. /\ u \in Trade /\ os \in Seq(Order)
        /\ KeepsOrders(s, os, os) /\ KeepsReports(u, c, c2)
        /\ Named(u, s, os) /\ Books(u, s, os, c)
    BY <1>1, <2>1, <2>3, <2>4
  <2> HIDE DEF u, os, c, c2
  <2>6. Books(u, s, os, c2)
    BY <2>1, <2>5, BooksKept
  <2> QED
    BY <2>6 DEF u, os, c2
<1>7. Announced'
  <2>1. ASSUME ShortOnly, position > 0 PROVE "short" \in known
    BY <1>2, <2>1 DEF Announced
  <2>2. ASSUME ShortOnly, position = 0, NEW n \in 1..Len(orders),
               orders[n].trade \in listed, Learning(trade[orders[n].trade]),
               orders[n].leg = "create", orders[n].filled > 0
        PROVE  GoneAfter(channel', n)
    BY <1>2, <1>3, <2>2 DEF Announced
  <2> QED
    BY <2>1, <2>2 DEF Announced, ShortOnly
<1> QED
  BY <1>4, <1>5, <1>6, <1>7 DEF MarginInv

\* The other trades do not wait for the report on an order of the trade t.
LEMMA OthersKept ==
    ASSUME MarginInv, channel # <<>>, NEW t \in listed, NEW l \in Legs,
           trade[t].oid[l] = channel[1].id, channel[1].kind \in OrderReports,
           NEW s \in listed, s # t
    PROVE  KeepsReports(trade[s], channel, Tail(channel))
<1>1. /\ channel \in Seq(Report) /\ Reports(channel, orders) /\ s \in Trades /\ t \in Trades
      /\ Named(trade[s], s, orders) /\ Named(trade[t], t, orders)
  BY DEF MarginInv, TypeOK, Placed
<1>2. channel[1].id # None
  <2>1. ReportOK(channel[1], orders)
    BY <1>1, TailReports
  <2> QED
    BY <2>1 DEF ReportOK, None
<1>3. orders[channel[1].id].trade = t
  BY <1>1, <1>2 DEF Named
<1>4. ASSUME NEW k \in Legs, trade[s].oid[k] # None PROVE ~Executes(channel[1], trade[s].oid[k])
  <2>1. orders[trade[s].oid[k]].trade = s
    BY <1>1, <1>4 DEF Named
  <2> QED
    BY <1>3, <2>1 DEF Executes
<1> QED
  BY <1>1, <1>4, TailReports

LEMMA DeliverOrderStep == ASSUME MarginInv, DeliverOrder PROVE MarginInv'
<1> DEFINE r == channel[1]
           targets == {t \in listed : \E l \in Legs : trade[t].oid[l] = r.id}
<1>1. /\ trade \in [Trades -> Trade] /\ orders \in Seq(Order) /\ channel \in Seq(Report)
      /\ listed \in SUBSET Trades /\ OrdersOK(orders) /\ Reports(channel, orders)
  BY DEF MarginInv, TypeOK, Placed
<1>2. channel # <<>> /\ Head(channel) = r /\ r.kind \in OrderReports
      /\ UNCHANGED <<dir, position, outside, known>>
  BY <1>1, TailReports DEF DeliverOrder
<1>3. r.kind # "gone" /\ r.id # None
  <2>1. ReportOK(r, orders)
    BY <1>1, <1>2, TailReports
  <2> QED
    BY <1>2, <2>1 DEF ReportOK, None, OrderReports
<1>4. CASE targets = {}
  <2>1. channel' = Tail(channel) /\ UNCHANGED <<trade, listed, orders>>
    BY <1>2, <1>4 DEF DeliverOrder
  <2>2. \A s \in listed : \A l \in Legs : trade[s].oid[l] # r.id
    BY <1>4
  <2> QED
    BY <1>2, <1>3, <2>1, <2>2, ReportDropped
<1>5. CASE targets # {}
  <2>1. PICK t \in targets :
          LET u == OrderSignal(trade[t], Quantity[t], r)
              w == [u |-> u, o |-> orders, c |-> Tail(channel)]
          IN  IF CanDelete(u)
              THEN /\ \E a \in Answers(u, Legs, RemoveAnswers) : Becomes(t, Finalized(w, Quantity[t], a))
                   /\ listed' = listed \ {t}
              ELSE Becomes(t, w) /\ UNCHANGED listed
    BY <1>2, <1>5 DEF DeliverOrder
  <2>2. PICK l \in Legs : trade[t].oid[l] = r.id
    OBVIOUS
  <2>3. t \in listed /\ t \in Trades /\ trade[t] \in Trade
    BY <1>1
  <2> DEFINE u == OrderSignal(trade[t], Quantity[t], r)
             w == [u |-> u, o |-> orders, c |-> Tail(channel)]
             f(a) == Finalized(w, Quantity[t], a)
  <2>4. IF CanDelete(u) THEN (\E a : Becomes(t, f(a))) /\ listed' = listed \ {t}
        ELSE Becomes(t, w) /\ listed' = listed
    BY <2>1
  <2>5. Named(trade[t], t, orders) /\ Books(trade[t], t, orders, channel)
    BY <2>3 DEF MarginInv, Placed, ListedBooks
  <2>6. trade[t].position
    BY <2>5 DEF Books, Core, States
  <2>7. /\ u \in Trade /\ Named(u, t, orders) /\ Books(u, t, orders, Tail(channel))
        /\ SameFlags(trade[t], u) /\ (Learning(u) => Learning(trade[t]))
    <3> DEFINE a == trade[t]
               os == orders
               c == channel
    <3>1. Serves(a, t, os, c, l) /\ c[1].kind \in OrderReports
      BY <1>1, <1>2, <1>3, <2>2, <2>3, <2>5 DEF Serves
    <3>2. u = OrderSignal(a, Quantity[t], c[1])
      OBVIOUS
    <3> HIDE DEF a, os, c, u
    <3>3. /\ u \in Trade /\ Named(u, t, os) /\ Books(u, t, os, Tail(c)) /\ SameFlags(a, u)
          /\ Learning(u) => Learning(a)
      BY <3>1, <3>2, SignalBooks
    <3> QED
      BY <3>3 DEF a, os, c
  <2>8. u.position
    BY <2>6, <2>7 DEF SameFlags
  <2>9. Tail(channel) \in Seq(Report) /\ Reports(Tail(channel), orders)
        /\ \A n : GoneAfter(channel, n) => GoneAfter(Tail(channel), n)
    BY <1>1, <1>2, <1>3, TailReports
  <2>10. w.u = u /\ w.o = orders /\ w.c = Tail(channel)
    OBVIOUS
  <2> HIDE DEF u
  <2>11. Sound(w, t)
    BY <1>1, <2>7, <2>9 DEF Sound, Worlds
  <2>12. \A s \in listed \ {t} : KeepsReports(trade[s], channel, Tail(channel))
    BY <1>2, <2>2, <2>3, OthersKept
  <2> HIDE DEF w, r, targets
  <2>13. \A s \in listed \ {t} : KeepsReports(trade[s], channel, w.c)
    BY <2>10, <2>12
  <2>14. \A n : GoneAfter(channel, n) => GoneAfter(w.c, n)
    BY <2>9, <2>10
  <2>17. Learning(w.u) => Learning(trade[t])
    BY <2>7, <2>10
  <2>15. CASE CanDelete(u)
    <3>0. PICK a : Becomes(t, f(a))
      BY <2>4, <2>15
    <3> DEFINE b == f(a)
    <3>1. Becomes(t, b) /\ listed' = listed \ {t}
      BY <2>4, <2>15, <3>0
    <3>2. Sound(b, t) /\ Evolves(t, w, b) /\ b.u.position = w.u.position
      BY <2>3, <2>11, FinalizedFacts
    <3> HIDE DEF b
    <3>3. trade' = [trade EXCEPT ![t] = b.u] /\ orders' = b.o /\ channel' = b.c
      BY <3>1 DEF Becomes
    <3>4. b.u.position
      BY <2>8, <2>10, <3>2
    <3>5. t \notin listed' /\ listed' \subseteq listed
      BY <3>1
    <3> QED
      BY <1>2, <2>3, <2>10, <2>11, <2>13, <2>14, <2>17, <3>2, <3>3, <3>4, <3>5, Becoming
  <2>16. CASE ~CanDelete(u)
    <3>1. Becomes(t, w) /\ listed' = listed
      BY <2>4, <2>16
    <3>2. Evolves(t, w, w)
      BY <2>11, EvolvesSame
    <3>3. trade' = [trade EXCEPT ![t] = w.u] /\ orders' = w.o /\ channel' = w.c
      BY <3>1 DEF Becomes
    <3>4. w.u.position /\ Books(w.u, t, w.o, w.c)
      BY <2>7, <2>8, <2>10
    <3> QED
      BY <1>2, <2>3, <2>10, <2>11, <2>13, <2>14, <2>17, <3>1, <3>2, <3>3, <3>4, Becoming
  <2> QED
    BY <2>15, <2>16
<1> QED
  BY <1>4, <1>5

-----------------------------------------------------------------------------
(***************************************************************************)
(* The steps of the exchange.                                              *)
(***************************************************************************)

\* Orders end and reports that execute nothing are sent: the books stay.
LEMMA Quiet ==
    ASSUME MarginInv, trade' = trade, listed' \subseteq listed, OrdersOK(orders'),
           Len(orders') = Len(orders), \A s \in Trades : KeepsOrders(s, orders, orders'),
           channel' \in Seq(Report), Reports(channel', orders'), Extends(channel, channel')
    PROVE  /\ Placed' /\ ListedBooks'
           /\ \A n : GoneAfter(channel, n) => GoneAfter(channel', n)
           /\ \A n \in 1..Len(orders') :
                 /\ n \in 1..Len(orders) /\ orders'[n].trade = orders[n].trade
                 /\ orders'[n].leg = orders[n].leg /\ orders'[n].filled = orders[n].filled
<1>1. /\ trade \in [Trades -> Trade] /\ orders \in Seq(Order) /\ channel \in Seq(Report)
      /\ listed \in SUBSET Trades /\ orders' \in Seq(Order)
  BY DEF MarginInv, TypeOK, OrdersOK
<1>2. Placed /\ ListedBooks
  BY DEF MarginInv
<1>3. /\ \A u : KeepsReports(u, channel, channel')
      /\ \A n : GoneAfter(channel, n) => GoneAfter(channel', n)
  BY <1>1, ExtendedReports
<1>4. ASSUME NEW n \in 1..Len(orders')
      PROVE  /\ n \in 1..Len(orders) /\ orders[n].trade \in Trades
             /\ orders'[n].trade = orders[n].trade
             /\ orders'[n].leg = orders[n].leg /\ orders'[n].filled = orders[n].filled
  <2>1. n \in 1..Len(orders)
    OBVIOUS
  <2>2. orders[n].trade \in Trades
    BY <1>2, <2>1, OrderFacts DEF Placed
  <2>3. KeepsOrders(orders[n].trade, orders, orders')
    BY <2>2
  <2> QED
    BY <2>1, <2>2, <2>3 DEF KeepsOrders
<1>5. ASSUME NEW s \in Trades PROVE Named(trade'[s], s, orders')
  BY <1>1, <1>2, NamedKept DEF Placed
<1>6. Placed'
  <2>1. ASSUME NEW n \in 1..Len(orders')
        PROVE  trade'[orders'[n].trade].position \/ trade'[orders'[n].trade].e > 0
    BY <1>2, <1>4 DEF Placed
  <2> QED
    BY <1>5, <2>1 DEF Placed
<1>7. ListedBooks'
  <2> SUFFICES ASSUME NEW s \in listed' PROVE Books(trade[s], s, orders', channel')
    BY DEF ListedBooks
  <2> DEFINE u == trade[s]
             os == orders
             os2 == orders'
             c == channel
             c2 == channel'
  <2>1. /\ s \in Trades /\ u \in Trade /\ os \in Seq(Order) /\ os2 \in Seq(Order)
        /\ KeepsOrders(s, os, os2) /\ KeepsReports(u, c, c2)
        /\ Named(u, s, os) /\ Books(u, s, os, c)
    BY <1>1, <1>2, <1>3 DEF Placed, ListedBooks
  <2> HIDE DEF u, os, os2, c, c2
  <2>2. Books(u, s, os2, c2)
    BY <2>1, BooksKept
  <2> QED
    BY <2>2 DEF u, os2, c2
<1> QED
  BY <1>3, <1>4, <1>6, <1>7

\* One more report that executes nothing.
LEMMA OneMore ==
    ASSUME NEW c \in Seq(Report), NEW r \in Report, r.kind # "traded"
    PROVE  Append(c, r) \in Seq(Report) /\ Extends(c, Append(c, r))
<1> DEFINE d == Append(c, r)
<1>1. /\ d \in Seq(Report) /\ Len(c) \in Nat /\ Len(d) = Len(c) + 1 /\ d[Len(c) + 1] = r
      /\ \A i \in 1..Len(c) : d[i] = c[i]
  OBVIOUS
<1> HIDE DEF d
<1>2. \A i \in Len(c) + 1..Len(d) : i = Len(c) + 1
  BY <1>1
<1> QED
  BY <1>1, <1>2 DEF d, Extends

\* The same reports, or none.
LEMMA NoMore ==
    ASSUME NEW c \in Seq(Report)
    PROVE  Extends(c, c)
BY DEF Extends

LEMMA CleanupTradesStep == ASSUME MarginInv, CleanupTrades PROVE MarginInv'
<1>1. /\ TypeOK /\ Placed /\ Announced /\ listed' \subseteq listed
      /\ UNCHANGED <<dir, trade, orders, position, outside, known, channel>>
  BY DEF MarginInv, CleanupTrades
<1>2. orders \in Seq(Order) /\ channel \in Seq(Report) /\ listed \in SUBSET Trades
      /\ OrdersOK(orders) /\ Reports(channel, orders)
  BY <1>1 DEF TypeOK, Placed
<1>3. /\ OrdersOK(orders') /\ Len(orders') = Len(orders)
      /\ \A s \in Trades : KeepsOrders(s, orders, orders')
      /\ channel' \in Seq(Report) /\ Reports(channel', orders') /\ Extends(channel, channel')
  BY <1>1, <1>2, NoMore DEF KeepsOrders
<1>4. Placed' /\ ListedBooks'
  BY <1>1, <1>3, Quiet
<1>5. TypeOK'
  BY <1>1, <1>2 DEF TypeOK
<1>6. Announced'
  BY <1>1 DEF Announced, ShortOnly
<1> QED
  BY <1>4, <1>5, <1>6 DEF MarginInv

\* An order ends on the exchange, with a report or without.
LEMMA OrderEnds ==
    ASSUME MarginInv, NEW n \in DOMAIN orders, orders[n].status = "live",
           orders' = [orders EXCEPT ![n].status = "canceled"],
           NEW kind \in Ends, channel' = channel \/ channel' = Append(channel, Rep(kind, n)),
           UNCHANGED <<dir, trade, listed, position, outside, known>>
    PROVE  MarginInv'
<1>1. /\ TypeOK /\ Placed /\ Announced /\ orders \in Seq(Order) /\ channel \in Seq(Report)
      /\ OrdersOK(orders) /\ Reports(channel, orders) /\ n \in 1..Len(orders)
      /\ Len(orders) \in Nat
  BY DEF MarginInv, TypeOK, Placed
<1> DEFINE a == orders[n]
           b == [a EXCEPT !.status = "canceled"]
           os == orders
           os2 == orders'
<1>2. a \in Order /\ OrderOK(a) /\ a.status = "live"
  BY <1>1, OrderFacts
<1>3. /\ b \in Order /\ b.trade = a.trade /\ b.leg = a.leg /\ b.qty = a.qty
      /\ b.filled = a.filled /\ b.status = "canceled"
  <2> HIDE DEF a
  <2> QED
    BY <1>2 DEF Order
<1>4. OrderOK(b)
  BY <1>2, <1>3 DEF OrderOK
<1>5. os2 = [os EXCEPT ![n] = b]
  OBVIOUS
<1> HIDE DEF b, os2
<1>6. /\ os2 \in Seq(Order) /\ Len(os2) = Len(os) /\ os2[n] = b
      /\ \A m \in 1..Len(os) : m # n => os2[m] = os[m]
  BY <1>1, <1>3, <1>5
<1>7. OrdersOK(os2)
  BY <1>1, <1>4, <1>6 DEF OrdersOK
<1>8. ASSUME NEW m \in 1..Len(os)
      PROVE  /\ os2[m].trade = os[m].trade /\ os2[m].leg = os[m].leg /\ os2[m].qty = os[m].qty
             /\ os2[m].filled = os[m].filled
             /\ os2[m].status = "live" => os[m].status = "live"
             /\ os2[m].status = "closed" <=> os[m].status = "closed"
  BY <1>2, <1>3, <1>6
<1>9. ASSUME NEW s \in Trades PROVE KeepsOrders(s, os, os2)
  <2>1. Len(os) + 1..Len(os2) = {} /\ Len(os) <= Len(os2)
    BY <1>1, <1>6
  <2> QED
    BY <1>8, <2>1 DEF KeepsOrders
<1>10. Reports(channel, os2)
  BY <1>1, <1>6, <1>8, ReportsCanceled
<1>11. /\ kind \in {"opened", "deleted", "canceled", "moved", "gone"} /\ kind # "traded"
       /\ n \in 0..MaxOrders
  BY <1>1, MarginAssumption DEF Ends, OrdersOK, MarginAssumption
<1>12. channel' \in Seq(Report) /\ Reports(channel', os2) /\ Extends(channel, channel')
  <2>1. CASE channel' = channel
    BY <1>1, <1>10, <2>1, NoMore
  <2>2. CASE channel' = Append(channel, Rep(kind, n))
    <3>1. os2[n].status # "live" /\ n \in 1..Len(os2) /\ Len(os2) <= MaxOrders
      BY <1>1, <1>3, <1>6, <1>7 DEF OrdersOK
    <3>2. Append(channel, Rep(kind, n)) \in Seq(Report) /\ Reports(Append(channel, Rep(kind, n)), os2)
      BY <1>1, <1>6, <1>10, <1>11, <3>1, ReportsEnd
    <3>3. Rep(kind, n) \in Report /\ Rep(kind, n).kind # "traded"
      BY <1>11, RepFacts
    <3> QED
      BY <1>1, <2>2, <3>2, <3>3, OneMore
  <2> QED
    BY <2>1, <2>2
<1>13. /\ Placed' /\ ListedBooks'
       /\ \A m : GoneAfter(channel, m) => GoneAfter(channel', m)
       /\ \A m \in 1..Len(orders') :
             /\ m \in 1..Len(orders) /\ orders'[m].trade = orders[m].trade
             /\ orders'[m].leg = orders[m].leg /\ orders'[m].filled = orders[m].filled
  BY <1>6, <1>7, <1>9, <1>12, Quiet DEF os2
<1>14. TypeOK'
  BY <1>1, <1>6, <1>12 DEF TypeOK, os2
<1>15. Announced'
  <2>1. ASSUME ShortOnly, position > 0 PROVE "short" \in known
    BY <1>1, <2>1 DEF Announced
  <2>2. ASSUME ShortOnly, position = 0, NEW m \in 1..Len(orders'),
               orders'[m].trade \in listed, orders'[m].leg = "create", orders'[m].filled > 0,
               Learning(trade[orders'[m].trade])
        PROVE  GoneAfter(channel', m)
    BY <1>1, <1>13, <2>2 DEF Announced
  <2> QED
    BY <2>1, <2>2 DEF Announced, ShortOnly
<1> QED
  BY <1>13, <1>14, <1>15 DEF MarginInv

LEMMA ExpireStep == ASSUME MarginInv, NEW n \in DOMAIN orders, Expire(n) PROVE MarginInv'
BY OrderEnds DEF Expire, Ends

LEMMA CancelEntryStep == ASSUME MarginInv, NEW n \in DOMAIN orders, CancelEntry(n) PROVE MarginInv'
BY OrderEnds DEF CancelEntry, Ends

\* What the watcher makes of a new quantity of the position.
LEMMA Told ==
    ASSUME NEW c \in Seq(Report), NEW os \in Seq(Order), Reports(c, os), Len(os) <= MaxOrders,
           NEW p \in Nat
    PROVE  LET c2 == c \o AccountUpdate(p)
           IN  /\ c2 \in Seq(Report) /\ Reports(c2, os) /\ Extends(c, c2)
               /\ p = 0 /\ "short" \in known => \A n : GoneAfter(c2, n)
<1> DEFINE c2 == c \o AccountUpdate(p)
<1>0. None \in 0..MaxOrders
  BY MarginAssumption DEF None, MarginAssumption
<1>1. ASSUME NEW kind \in {"moved", "gone"}
      PROVE  LET d == Append(c, Rep(kind, None))
             IN  d \in Seq(Report) /\ Reports(d, os) /\ Extends(c, d)
  <2>1. /\ kind \in {"opened", "deleted", "canceled", "moved", "gone"} /\ kind # "traded"
        /\ kind \notin OrderReports /\ kind \notin Ends
    BY DEF OrderReports, Ends
  <2>2. Append(c, Rep(kind, None)) \in Seq(Report) /\ Reports(Append(c, Rep(kind, None)), os)
    BY <1>0, <2>1, ReportsEnd
  <2>3. Rep(kind, None) \in Report /\ Rep(kind, None).kind # "traded"
    BY <1>0, <2>1, RepFacts
  <2> QED
    BY <2>2, <2>3, OneMore
<1>2. \A r : r \in Report => c \o <<r>> = Append(c, r)
  OBVIOUS
<1>3. Rep("moved", None) \in Report /\ Rep("gone", None) \in Report /\ Rep("gone", None).kind = "gone"
  BY <1>0, RepFacts
<1>4. CASE p > 0
  <2>1. c2 = Append(c, Rep("moved", None))
    BY <1>2, <1>3, <1>4 DEF AccountUpdate
  <2> QED
    BY <1>1, <1>4, <2>1
<1>5. CASE p = 0 /\ "short" \in known
  <2> DEFINE r == Rep("gone", None)
             d == Append(c, r)
  <2>1. c2 = d
    BY <1>2, <1>3, <1>5 DEF AccountUpdate
  <2>2. d \in Seq(Report) /\ Reports(d, os) /\ Extends(c, d)
    BY <1>1
  <2>3. /\ Len(c) \in Nat /\ Len(d) = Len(c) + 1 /\ d[Len(c) + 1] = r
    BY <1>3
  <2>4. r.kind = "gone"
    BY <1>3
  <2> HIDE DEF r, d, c2
  <2>5. ASSUME NEW n PROVE GoneAfter(d, n)
    <3>1. Len(c) + 1 \in 1..Len(d) /\ (Len(c) + 1) + 1..Len(d) = {}
      BY <2>3
    <3> QED
      BY <2>3, <2>4, <3>1 DEF GoneAfter
  <2> QED
    BY <2>1, <2>2, <2>5 DEF c2
<1>6. CASE p = 0 /\ "short" \notin known
  <2>1. AccountUpdate(p) = <<>>
    BY <1>6 DEF AccountUpdate
  <2>2. c2 = c
    BY <2>1
  <2>3. Extends(c, c)
    BY NoMore
  <2> QED
    BY <1>6, <2>2, <2>3
<1> QED
  BY <1>4, <1>5, <1>6

LEMMA ClosePositionStep == ASSUME MarginInv, ClosePosition PROVE MarginInv'
<1>1. /\ TypeOK /\ Placed /\ Announced /\ orders \in Seq(Order) /\ channel \in Seq(Report)
      /\ OrdersOK(orders) /\ Reports(channel, orders)
      /\ listed \in SUBSET Trades /\ known \in SUBSET {"long", "short"}
  BY DEF MarginInv, TypeOK, Placed
<1>2. /\ position > 0 /\ position' = 0 /\ outside' = TRUE /\ known' = known \ {"short"}
      /\ channel' = channel \o AccountUpdate(0)
      /\ UNCHANGED <<dir, trade, listed, orders>>
  BY DEF ClosePosition, Remembered
<1>3. /\ channel' \in Seq(Report) /\ Reports(channel', orders) /\ Extends(channel, channel')
      /\ "short" \in known => \A n : GoneAfter(channel', n)
  <2>1. Len(orders) <= MaxOrders /\ 0 \in Nat
    BY <1>1 DEF OrdersOK
  <2> QED
    BY <1>1, <1>2, <2>1, Told
<1>4. \A s \in Trades : KeepsOrders(s, orders, orders')
  BY <1>1, <1>2 DEF KeepsOrders
<1>5. /\ trade' = trade /\ listed' \subseteq listed /\ OrdersOK(orders') /\ Len(orders') = Len(orders)
      /\ Reports(channel', orders')
  BY <1>1, <1>2, <1>3
<1>6. Placed' /\ ListedBooks'
  BY <1>3, <1>4, <1>5, Quiet
<1>7. TypeOK'
  BY <1>1, <1>2, <1>3 DEF TypeOK
<1>8. Announced'
  <2>1. ASSUME ShortOnly PROVE \A n : GoneAfter(channel', n)
    BY <1>1, <1>2, <1>3, <2>1 DEF Announced
  <2>2. ~(position' > 0)
    BY <1>2
  <2> QED
    BY <2>1, <2>2 DEF Announced, ShortOnly
<1> QED
  BY <1>6, <1>7, <1>8 DEF MarginInv

LEMMA InitMargin == ASSUME Init PROVE MarginInv
<1>1. /\ dir \in Directions /\ trade = [t \in Trades |-> NewTrade] /\ listed = {}
      /\ orders = <<>> /\ position = 0 /\ outside = FALSE /\ known = {} /\ channel = <<>>
  BY DEF Init
<1>2. NewTrade \in Trade /\ \A l \in Legs : NewTrade.oid[l] = None
  BY MarginAssumption DEF NewTrade, Trade, Legs, ExitLegs, None, MarginAssumption
<1>3. /\ orders \in Seq(Order) /\ channel \in Seq(Report) /\ Len(orders) = 0 /\ Len(channel) = 0
      /\ 1..Len(orders) = {} /\ 1..Len(channel) = {}
  BY <1>1
<1>4. TypeOK
  BY <1>1, <1>2, <1>3 DEF TypeOK
<1>5. OrdersOK(orders)
  BY <1>3, MarginAssumption DEF OrdersOK, MarginAssumption
<1>6. Reports(channel, orders)
  BY <1>3 DEF Reports
<1>7. Placed
  BY <1>1, <1>2, <1>3, <1>5, <1>6 DEF Placed, Named
<1>8. ListedBooks /\ Announced
  BY <1>1, <1>3 DEF ListedBooks, Announced
<1> QED
  BY <1>4, <1>7, <1>8 DEF MarginInv

\* c2 has the reports of c and r, and no other execution.
WithReport(c, c2, r) ==
    /\ \A i \in 1..Len(c2) : c2[i].kind = "traded" =>
          c2[i] = r \/ \E j \in 1..Len(c) : c[j] = c2[i]
    /\ \A j \in 1..Len(c) : \E i \in 1..Len(c2) : c2[i] = c[j]
    /\ \E i \in 1..Len(c2) : c2[i] = r

\* k more lots of the live order n are executed, as the report r says.
Executed(os, os2, n, k, r) ==
    /\ OrdersOK(os) /\ OrdersOK(os2) /\ n \in 1..Len(os) /\ k \in Nat \ {0}
    /\ Len(os2) = Len(os) /\ \A m \in 1..Len(os) : m # n => os2[m] = os[m]
    /\ os2[n].trade = os[n].trade /\ os2[n].leg = os[n].leg /\ os2[n].qty = os[n].qty
    /\ os2[n].filled = os[n].filled + k /\ os[n].status = "live"
    /\ os2[n].status \in {"live", "closed"}
    /\ r.kind = "traded" /\ r.id = n /\ r.cum = os[n].filled + k

\* What the orders of a trade executed grows by k when the order is among them.
LEMMA TotalGrows ==
    ASSUME NEW os, NEW os2, NEW n, NEW k, NEW r, Executed(os, os2, n, k, r),
           os[n].leg \in ExitLegs
    PROVE  /\ TotalOf(os, os[n].trade, ExitLegs) \in Int
           /\ TotalOf(os2, os[n].trade, ExitLegs) = TotalOf(os, os[n].trade, ExitLegs) + k
<1> DEFINE s == os[n].trade
           R == {m \in DOMAIN os : os[m].trade = s /\ os[m].leg \in ExitLegs}
           R2 == {m \in DOMAIN os2 : os2[m].trade = s /\ os2[m].leg \in ExitLegs}
           f == [m \in DOMAIN os |-> os[m].filled]
           f2 == [m \in DOMAIN os2 |-> os2[m].filled]
           g == [m \in R |-> os[m].filled]
           h == [m \in R |-> os2[m].filled]
<1>1. /\ OrdersOK(os) /\ OrdersOK(os2) /\ n \in 1..Len(os) /\ k \in Nat
      /\ Len(os2) = Len(os) /\ \A m \in 1..Len(os) : m # n => os2[m] = os[m]
      /\ os2[n].trade = os[n].trade /\ os2[n].leg = os[n].leg
      /\ os2[n].filled = os[n].filled + k
  BY DEF Executed
<1>2. /\ DOMAIN os = 1..Len(os) /\ DOMAIN os2 = 1..Len(os) /\ Len(os) \in Nat
      /\ \A m \in 1..Len(os) : os[m].filled \in Int /\ os2[m].filled \in Int
  <2>1. os \in Seq(Order) /\ os2 \in Seq(Order)
    BY <1>1 DEF OrdersOK
  <2>2. \A m \in 1..Len(os) : os[m].filled \in Nat /\ os2[m].filled \in Nat
    BY <1>1, OrderFacts
  <2> QED
    BY <1>1, <2>1, <2>2
<1>3. R2 = R
  <2>1. \A m \in 1..Len(os) : os2[m].trade = os[m].trade /\ os2[m].leg = os[m].leg
    BY <1>1
  <2> QED
    BY <1>2, <2>1
<1>4. IsFiniteSet(R)
  <2>1. IsFiniteSet(1..Len(os))
    BY <1>2, FS_Interval
  <2>2. R \subseteq 1..Len(os)
    BY <1>2
  <2> QED
    BY <2>1, <2>2, FS_Subset
<1>5. n \in R
  BY <1>1, <1>2
<1>6. \A m \in R : f[m] = g[m] /\ f2[m] = h[m]
  BY <1>2
<1>7. /\ g \in [R -> Int] /\ h \in [R -> Int]
      /\ (\A m \in R \ {n} : h[m] = g[m]) /\ h[n] = g[n] + k
  <2>1. \A m \in R : m \in 1..Len(os)
    BY <1>2
  <2>2. g \in [R -> Int] /\ h \in [R -> Int]
    BY <1>2, <2>1
  <2>3. \A m \in R \ {n} : h[m] = g[m]
    BY <1>1, <2>1
  <2>4. h[n] = g[n] + k
    BY <1>1, <1>5
  <2> QED
    BY <2>2, <2>3, <2>4
<1>8. TotalOf(os, s, ExitLegs) = Sum(f, R) /\ TotalOf(os2, s, ExitLegs) = Sum(f2, R2)
  BY DEF TotalOf
<1> HIDE DEF R, R2, f, f2, g, h
<1>9. Sum(f, R) = Sum(g, R) /\ Sum(f2, R) = Sum(h, R)
  BY <1>6, SumSame
<1>10. Sum(g, R) \in Int /\ Sum(h, R) = Sum(g, R) + k
  <2>1. k \in Int
    BY <1>1
  <2>2. g \in [R -> Int] /\ h \in [R -> Int] /\ \A m \in R \ {n} : h[m] = g[m]
    BY <1>7
  <2>3. h[n] = g[n] + k
    BY <1>7
  <2> QED
    BY <1>4, <1>5, <2>1, <2>2, <2>3, SumChanges
<1> QED
  BY <1>3, <1>8, <1>9, <1>10

\* The books of the trade whose order is executed.
LEMMA FilledBooks ==
    ASSUME NEW u \in Trade, NEW s \in Trades, NEW os, NEW os2, NEW n, NEW k, NEW r, NEW c, NEW c2,
           Executed(os, os2, n, k, r), os[n].trade = s, WithReport(c, c2, r),
           Named(u, s, os), Books(u, s, os, c)
    PROVE  Books(u, s, os2, c2)
<1>1. /\ OrdersOK(os) /\ OrdersOK(os2) /\ n \in 1..Len(os) /\ k \in Nat /\ k > 0
      /\ Len(os2) = Len(os) /\ \A m \in 1..Len(os) : m # n => os2[m] = os[m]
      /\ os2[n].trade = os[n].trade /\ os2[n].leg = os[n].leg /\ os2[n].qty = os[n].qty
      /\ os2[n].filled = os[n].filled + k /\ os[n].status = "live"
      /\ os2[n].status \in {"live", "closed"}
      /\ r.kind = "traded" /\ r.id = n /\ r.cum = os[n].filled + k
  BY DEF Executed
<1>2. /\ DOMAIN os = 1..Len(os) /\ DOMAIN os2 = 1..Len(os) /\ Len(os) \in Nat
      /\ os[n].leg \in Legs
      /\ \A m \in 1..Len(os) : os[m].filled \in Nat /\ os2[m].filled \in Nat
  <2>1. os \in Seq(Order) /\ os2 \in Seq(Order)
    BY <1>1 DEF OrdersOK
  <2>2. \A m \in 1..Len(os) : os[m].filled \in Nat /\ os2[m].filled \in Nat
    BY <1>1, OrderFacts
  <2>3. os[n].leg \in Legs
    BY <1>1, OrderFacts
  <2> QED
    BY <1>1, <2>1, <2>2, <2>3
<1>3. ASSUME NEW m \in 1..Len(os)
      PROVE  /\ os2[m].trade = os[m].trade /\ os2[m].leg = os[m].leg /\ os2[m].qty = os[m].qty
             /\ os[m].filled <= os2[m].filled
             /\ os2[m].status = "live" => os[m].status = "live"
             /\ os[m].status = "closed" => os2[m].status = "closed"
  <2>1. CASE m = n
    BY <1>1, <1>2, <2>1
  <2>2. CASE m # n
    BY <1>1, <1>2, <2>2
  <2> QED
    BY <2>1, <2>2
<1>4. Held(u, s, os) /\ Entered(u, s, os) /\ Exited(u, s, os) /\ States(u, s)
      /\ (~EmptiedOf(os, s) => Covering(u)) /\ \A l \in Legs : LegOK(u, l, os, c)
  BY DEF Books, Core
<1>5. ~u.blind => u.oid[os[n].leg] = n
  BY <1>1, <1>4 DEF Held
<1>6. n # None
  BY <1>1, <1>2 DEF None
<1>7. Held(u, s, os2)
  BY <1>1, <1>3, <1>4 DEF Held
<1>8. Entered(u, s, os2)
  <2>1. PICK m \in 1..Len(os) : /\ os[m].trade = s /\ os[m].leg = "create"
                                /\ \A i \in 1..Len(os) : os[i].trade = s /\ os[i].leg = "create" => i = m
                                /\ u.e <= os[m].filled
                                /\ ~u.blind /\ u.oid["create"] = None => u.e = os[m].filled
    BY <1>4 DEF Entered
  <2>2. os2[m].trade = s /\ os2[m].leg = "create" /\ m \in 1..Len(os2)
    BY <1>1, <1>3, <2>1
  <2>3. \A i \in 1..Len(os2) : os2[i].trade = s /\ os2[i].leg = "create" => i = m
    BY <1>1, <1>3, <2>1
  <2>4. u.e <= os2[m].filled
    <3>1. u.e <= os[m].filled /\ os[m].filled <= os2[m].filled
      BY <1>3, <2>1
    <3>2. u.e \in Nat /\ os[m].filled \in Nat /\ os2[m].filled \in Nat
      BY <1>2, TradeFacts
    <3> QED
      BY <3>1, <3>2
  <2>5. ASSUME ~u.blind, u.oid["create"] = None PROVE u.e = os2[m].filled
    <3>1. m # n
      BY <1>5, <1>6, <2>1, <2>5
    <3> QED
      BY <1>1, <2>1, <2>5, <3>1
  <2> QED
    BY <2>2, <2>3, <2>4, <2>5 DEF Entered
<1>9. ASSUME NEW l \in ExitLegs, u.oid[l] # n PROVE Uncounted(u, l, os2) = Uncounted(u, l, os)
  <2>1. CASE u.oid[l] = None
    BY <2>1 DEF Uncounted
  <2>2. CASE u.oid[l] # None
    <3>1. u.oid[l] \in 1..Len(os)
      BY <2>2, TradeFacts DEF Named
    <3>2. os2[u.oid[l]] = os[u.oid[l]]
      BY <1>1, <1>9, <3>1
    <3> QED
      BY <2>2, <3>2 DEF Uncounted
  <2> QED
    BY <2>1, <2>2
<1>10. ASSUME NEW l \in ExitLegs, u.oid[l] = n
       PROVE  Uncounted(u, l, os) \in Int /\ Uncounted(u, l, os2) = Uncounted(u, l, os) + k
  <2> DEFINE all == os[n].filled
             done == u.exec[l]
  <2>1. all \in Nat /\ done \in Nat /\ os2[n].filled = all + k
    BY <1>1, <1>2, TradeFacts
  <2>2. Uncounted(u, l, os) = all - done /\ Uncounted(u, l, os2) = os2[n].filled - done
    BY <1>6, <1>10 DEF Uncounted
  <2> HIDE DEF all, done
  <2>3. Uncounted(u, l, os2) = (all + k) - done
    BY <2>1, <2>2
  <2>4. (all + k) - done = (all - done) + k /\ all - done \in Int
    BY <1>1, <2>1
  <2> QED
    BY <2>2, <2>3, <2>4
<1>11. \A l \in ExitLegs : Uncounted(u, l, os) \in Int
  <2> SUFFICES ASSUME NEW l \in ExitLegs PROVE Uncounted(u, l, os) \in Int
    OBVIOUS
  <2>1. CASE u.oid[l] = None
    BY <2>1 DEF Uncounted
  <2>2. CASE u.oid[l] # None
    <3>1. os[u.oid[l]].filled \in Nat /\ u.exec[l] \in Nat
      BY <1>2, <2>2, TradeFacts DEF Named
    <3> QED
      BY <2>2, <3>1 DEF Uncounted
  <2> QED
    BY <2>1, <2>2
<1>12. Exited(u, s, os2)
  <2> DEFINE total == TotalOf(os, s, ExitLegs)
             total2 == TotalOf(os2, s, ExitLegs)
             a == Uncounted(u, "stop", os)
             a2 == Uncounted(u, "stop", os2)
             b == Uncounted(u, "limit", os)
             b2 == Uncounted(u, "limit", os2)
             x == u.x
  <2>0. "stop" \in ExitLegs /\ "limit" \in ExitLegs /\ x \in Nat
    BY TradeFacts DEF ExitLegs
  <2>1. x + a + b <= total /\ (~u.blind => x + a + b = total)
    BY <1>4 DEF Exited
  <2>2. a \in Int /\ b \in Int
    BY <1>11, <2>0
  <2>3. CASE os[n].leg = "create"
    <3>1. a2 = a /\ b2 = b
      <4>1. u.oid["stop"] # n /\ u.oid["limit"] # n
        BY <1>6, <2>0, <2>3, TradeFacts DEF Named
      <4> QED
        BY <1>9, <2>0, <4>1
    <3>2. total2 = total
      <4> DEFINE R == {m \in DOMAIN os : os[m].trade = s /\ os[m].leg \in ExitLegs}
                 R2 == {m \in DOMAIN os2 : os2[m].trade = s /\ os2[m].leg \in ExitLegs}
                 f == [m \in DOMAIN os |-> os[m].filled]
                 f2 == [m \in DOMAIN os2 |-> os2[m].filled]
      <4>1. R2 = R
        <5>1. \A m \in 1..Len(os) : os2[m].trade = os[m].trade /\ os2[m].leg = os[m].leg
          BY <1>3
        <5> QED
          BY <1>2, <5>1
      <4>2. \A m \in R : f2[m] = f[m]
        <5> SUFFICES ASSUME NEW m \in R PROVE f2[m] = f[m]
          OBVIOUS
        <5>1. m # n /\ m \in 1..Len(os)
          BY <1>2, <2>3, TradeFacts
        <5> QED
          BY <1>1, <1>2, <5>1
      <4>3. total2 = Sum(f2, R2) /\ total = Sum(f, R)
        BY DEF TotalOf
      <4> HIDE DEF R, R2, f, f2
      <4>4. Sum(f2, R) = Sum(f, R)
        BY <4>2, SumSame
      <4> HIDE DEF total, total2
      <4> QED
        BY <4>1, <4>3, <4>4
    <3> QED
      BY <2>1, <3>1, <3>2 DEF Exited
  <2>4. CASE os[n].leg = "stop"
    <3>1. b2 = b /\ (a2 = a + k \/ (a2 = a /\ u.blind))
      <4>1. u.oid["limit"] # n
        BY <1>6, <2>0, <2>4, TradeFacts DEF Named
      <4>2. CASE u.oid["stop"] = n
        <5>1. b2 = b
          BY <1>9, <2>0, <4>1
        <5>2. a2 = a + k
          BY <1>10, <2>0, <4>2
        <5> QED
          BY <5>1, <5>2
      <4>3. CASE u.oid["stop"] # n
        BY <1>5, <1>9, <2>0, <2>4, <4>1, <4>3
      <4> QED
        BY <4>2, <4>3
    <3>2. total2 = total + k /\ total \in Int
      BY <2>0, <2>4, TotalGrows
    <3> HIDE DEF a, b, a2, b2, total, total2, x
    <3>3. x + a2 + b2 <= total2 /\ (~u.blind => x + a2 + b2 = total2)
      <4>1. k \in Int /\ k >= 0 /\ x \in Int
        BY <1>1, <2>0
      <4>2. CASE u.blind
        <5>1. x + a + b <= total
          BY <2>1
        <5> QED
          BY ONLY <4>1, <2>2, <3>1, <3>2, <4>2, <5>1
      <4>3. CASE ~u.blind
        <5>1. x + a + b = total
          BY <2>1, <4>3
        <5>2. x + a2 + b2 = total2
          BY ONLY <4>1, <2>2, <3>1, <3>2, <4>3, <5>1
        <5>3. total2 \in Int
          BY <3>2, <4>1
        <5> QED
          BY ONLY <5>2, <5>3
      <4> QED
        BY <4>2, <4>3
    <3> QED
      BY <3>3 DEF Exited, a2, b2, total2, x
  <2>5. CASE os[n].leg = "limit"
    <3>1. a2 = a /\ (b2 = b + k \/ (b2 = b /\ u.blind))
      <4>1. u.oid["stop"] # n
        BY <1>6, <2>0, <2>5, TradeFacts DEF Named
      <4>2. CASE u.oid["limit"] = n
        <5>1. a2 = a
          BY <1>9, <2>0, <4>1
        <5>2. b2 = b + k
          BY <1>10, <2>0, <4>2
        <5> QED
          BY <5>1, <5>2
      <4>3. CASE u.oid["limit"] # n
        BY <1>5, <1>9, <2>0, <2>5, <4>1, <4>3
      <4> QED
        BY <4>2, <4>3
    <3>2. total2 = total + k /\ total \in Int
      BY <2>0, <2>5, TotalGrows
    <3> HIDE DEF a, b, a2, b2, total, total2, x
    <3>3. x + a2 + b2 <= total2 /\ (~u.blind => x + a2 + b2 = total2)
      <4>1. k \in Int /\ k >= 0 /\ x \in Int
        BY <1>1, <2>0
      <4>2. CASE u.blind
        <5>1. x + a + b <= total
          BY <2>1
        <5> QED
          BY ONLY <4>1, <2>2, <3>1, <3>2, <4>2, <5>1
      <4>3. CASE ~u.blind
        <5>1. x + a + b = total
          BY <2>1, <4>3
        <5>2. x + a2 + b2 = total2
          BY ONLY <4>1, <2>2, <3>1, <3>2, <4>3, <5>1
        <5>3. total2 \in Int
          BY <3>2, <4>1
        <5> QED
          BY ONLY <5>2, <5>3
      <4> QED
        BY <4>2, <4>3
    <3> QED
      BY <3>3 DEF Exited, a2, b2, total2, x
  <2> QED
    BY <1>2, <2>3, <2>4, <2>5 DEF Legs
<1>13. EmptiedOf(os, s) => EmptiedOf(os2, s)
  <2> SUFFICES ASSUME EmptiedOf(os, s) PROVE EmptiedOf(os2, s)
    OBVIOUS
  <2>1. PICK m \in DOMAIN os : os[m].trade = s /\ os[m].leg \in ExitLegs /\ os[m].status = "closed"
    BY DEF EmptiedOf
  <2>2. /\ m \in DOMAIN os2 /\ os2[m].trade = s /\ os2[m].leg \in ExitLegs
        /\ os2[m].status = "closed"
    BY <1>2, <1>3, <2>1
  <2> QED
    BY <2>2 DEF EmptiedOf
<1>14. ASSUME NEW l \in Legs PROVE LegOK(u, l, os2, c2)
  <2> SUFFICES ASSUME u.oid[l] # None PROVE LegOK(u, l, os2, c2)
    BY DEF LegOK
  <2> DEFINE m == u.oid[l]
             done == Counted(u, l)
             all == os[m].filled
             all2 == os2[m].filled
  <2>1. m \in 1..Len(os) /\ os[m].leg = l
    BY DEF Named
  <2>2. /\ l # "create" => u.qty[l] = os[m].qty
        /\ done <= all
        /\ \A i \in 1..Len(c) : Executes(c[i], m) => done < c[i].cum
        /\ done = all \/ \E i \in 1..Len(c) : Executes(c[i], m) /\ c[i].cum = all
    BY <1>4 DEF LegOK
  <2>3. done \in Nat /\ all \in Nat /\ all2 \in Nat /\ all <= all2 /\ os2[m].qty = os[m].qty
    BY <1>2, <1>3, <2>1, TradeFacts DEF Counted
  <2>4. m = n => all2 = all + k /\ r.cum = all2
    BY <1>1
  <2>5. m # n => all2 = all
    BY <1>1, <2>1
  <2>6. /\ \A i \in 1..Len(c2) : c2[i].kind = "traded" =>
              c2[i] = r \/ \E j \in 1..Len(c) : c[j] = c2[i]
        /\ \A j \in 1..Len(c) : \E i \in 1..Len(c2) : c2[i] = c[j]
        /\ \E i \in 1..Len(c2) : c2[i] = r
    BY DEF WithReport
  <2> HIDE DEF m, done, all, all2
  <2>7. ASSUME NEW i \in 1..Len(c2), Executes(c2[i], m) PROVE done < c2[i].cum
    <3>1. c2[i].kind = "traded" /\ c2[i].id = m
      BY <2>7 DEF Executes
    <3>2. CASE c2[i] = r
      <4>1. m = n
        BY <1>1, <3>1, <3>2
      <4> QED
        BY <1>1, <2>2, <2>3, <2>4, <3>2, <4>1
    <3>3. CASE c2[i] # r
      <4>1. PICK j \in 1..Len(c) : c[j] = c2[i]
        BY <2>6, <3>1, <3>3
      <4>2. done < c[j].cum
        BY <2>2, <2>7, <4>1
      <4> QED
        BY <4>1, <4>2
    <3> QED
      BY <3>2, <3>3
  <2>8. done = all2 \/ \E i \in 1..Len(c2) : Executes(c2[i], m) /\ c2[i].cum = all2
    <3>1. CASE m = n
      <4>1. PICK i \in 1..Len(c2) : c2[i] = r
        BY <2>6
      <4> QED
        BY <1>1, <2>4, <3>1, <4>1 DEF Executes
    <3>2. CASE m # n
      <4>1. CASE done = all
        BY <2>5, <3>2, <4>1
      <4>2. CASE done # all
        <5>1. PICK j \in 1..Len(c) : Executes(c[j], m) /\ c[j].cum = all
          BY <2>2, <4>2
        <5>2. PICK i \in 1..Len(c2) : c2[i] = c[j]
          BY <2>6
        <5> QED
          BY <2>5, <3>2, <5>1, <5>2
      <4> QED
        BY <4>1, <4>2
    <3> QED
      BY <3>1, <3>2
  <2>9. done <= all2
    BY <2>2, <2>3
  <2>10. l # "create" => u.qty[l] = os2[m].qty
    BY <2>2, <2>3
  <2> QED
    BY <2>7, <2>8, <2>9, <2>10 DEF LegOK, m, done, all2
<1> QED
  BY <1>4, <1>7, <1>8, <1>12, <1>13, <1>14 DEF Books, Core

LEMMA FillStep ==
    ASSUME MarginInv, NEW n \in DOMAIN orders, NEW k \in 1..orders[n].qty, Fill(n, k)
    PROVE  MarginInv'
<1> DEFINE os == orders
           os2 == orders'
           a == orders[n]
           full == a.filled + k = a.qty
           p == IF a.leg = "create" THEN position + k ELSE position - k
           b == [a EXCEPT !.filled = a.filled + k,
                          !.status = IF full THEN "closed" ELSE a.status]
           r == [kind |-> "traded", id |-> n, cum |-> a.filled + k, filled |-> k, full |-> full]
           c == channel
           d == Append(channel, r)
           c2 == channel'
<1>1. /\ TypeOK /\ Placed /\ ListedBooks /\ Announced /\ orders \in Seq(Order) /\ channel \in Seq(Report)
      /\ OrdersOK(orders) /\ Reports(channel, orders) /\ n \in 1..Len(orders)
      /\ Len(orders) \in Nat /\ trade \in [Trades -> Trade] /\ position \in Nat
      /\ listed \in SUBSET Trades /\ known \in SUBSET {"long", "short"} /\ dir \in Directions
      /\ DOMAIN orders = 1..Len(orders)
  BY DEF MarginInv, TypeOK, Placed
<1>2. /\ a.status = "live" /\ k <= a.qty - a.filled
      /\ a.leg # "create" => k <= position
      /\ orders' = [orders EXCEPT ![n].filled = @ + k,
                                  ![n].status = IF full THEN "closed" ELSE @]
      /\ position' = p /\ known' = Remembered(p)
      /\ channel' = channel \o <<r>> \o AccountUpdate(p)
      /\ UNCHANGED <<dir, trade, listed, outside>>
  BY DEF Fill
<1>3. /\ a \in Order /\ OrderOK(a) /\ a.filled \in Nat /\ a.qty \in Nat /\ a.leg \in Legs
      /\ a.trade \in Trades
  BY <1>1, OrderFacts
<1>4. k \in Nat /\ k > 0 /\ a.filled + k \in Nat /\ a.filled + k <= a.qty /\ a.filled + k > a.filled
  BY <1>2, <1>3
<1>5. full \in BOOLEAN /\ (full <=> a.filled + k = a.qty)
  OBVIOUS
<1>6. os2 = [os EXCEPT ![n] = b]
  BY <1>2
<1>7. r.kind = "traded" /\ r.id = n /\ r.cum = a.filled + k /\ r.full = full
  OBVIOUS
<1>8. r \in Report
  <2>1. n \in 0..MaxOrders
    BY <1>1, MarginAssumption DEF OrdersOK, MarginAssumption
  <2> HIDE DEF full, a
  <2> QED
    BY <1>4, <1>5, <2>1 DEF Report
<1>9. /\ b \in Order /\ b.trade = a.trade /\ b.leg = a.leg /\ b.qty = a.qty
      /\ b.filled = a.filled + k /\ b.status \in {"live", "closed"}
      /\ b.status = "closed" <=> full
  <2> HIDE DEF a, full
  <2> QED
    BY <1>2, <1>3, <1>4 DEF Order
<1> HIDE DEF b, r, full
<1>10. OrderOK(b)
  BY <1>3, <1>4, <1>5, <1>9 DEF OrderOK
<1> HIDE DEF os2
<1>11. /\ os2 \in Seq(Order) /\ Len(os2) = Len(os) /\ os2[n] = b
       /\ \A m \in 1..Len(os) : m # n => os2[m] = os[m]
  BY <1>1, <1>6, <1>9
<1>12. OrdersOK(os2)
  BY <1>1, <1>10, <1>11 DEF OrdersOK
<1>13. Executed(os, os2, n, k, r)
  BY <1>1, <1>2, <1>4, <1>7, <1>9, <1>11, <1>12 DEF Executed
<1>14. p \in Nat /\ (p = 0 => position > 0)
  BY <1>1, <1>2, <1>4
<1>15. c2 = d \o AccountUpdate(p)
  <2>1. channel \o <<r>> = Append(channel, r)
    BY <1>1, <1>8
  <2> QED
    BY <1>2, <2>1
<1> HIDE DEF p, c2
<1>16. /\ d \in Seq(Report) /\ Len(c) \in Nat /\ Len(d) = Len(c) + 1 /\ d[Len(c) + 1] = r
       /\ \A i \in 1..Len(c) : d[i] = c[i]
  BY <1>1, <1>8
<1> HIDE DEF d
<1>17. \A i \in 1..Len(d) : i \in 1..Len(c) \/ i = Len(c) + 1
  BY <1>16
<1>18. Reports(d, os2)
  <2>1. ASSUME NEW i \in 1..Len(d) PROVE ReportOK(d[i], os2)
    <3>1. CASE i = Len(c) + 1
      <4>1. ReportOK(r, os2)
        <5>1. n \in 1..Len(os2) /\ 0 < a.filled + k
          BY <1>1, <1>3, <1>4, <1>11
        <5> QED
          BY <1>4, <1>5, <1>7, <1>9, <1>11, <5>1 DEF ReportOK, Ends
      <4> QED
        BY <1>16, <3>1, <4>1
    <3>2. CASE i \in 1..Len(c)
      <4>1. ReportOK(c[i], os)
        BY <1>1, <3>2 DEF Reports
      <4> SUFFICES ReportOK(c[i], os2)
        BY <1>16, <3>2
      <4>2. CASE c[i].id = n
        <5>1. c[i].kind \in OrderReports => c[i].kind \notin Ends
          BY <1>2, <4>1, <4>2 DEF ReportOK, a
        <5>2. c[i] \in Report
          BY <1>1, <3>2
        <5>3. c[i].cum \in Nat
          BY <5>2 DEF Report
        <5>4. c[i].kind = "traded" => /\ 0 < c[i].cum /\ c[i].cum <= b.filled
                                      /\ c[i].full => c[i].cum = b.qty
          <6> SUFFICES ASSUME c[i].kind = "traded"
                       PROVE  /\ 0 < c[i].cum /\ c[i].cum <= b.filled
                              /\ c[i].full => c[i].cum = b.qty
            OBVIOUS
          <6>1. 0 < c[i].cum /\ c[i].cum <= a.filled /\ (c[i].full => c[i].cum = a.qty)
            BY <4>1, <4>2 DEF ReportOK, OrderReports, a
          <6> QED
            BY <1>3, <1>4, <1>9, <5>3, <6>1
        <5> QED
          BY <1>1, <1>11, <4>2, <5>1, <5>4 DEF ReportOK
      <4>3. CASE c[i].id # n
        BY <1>11, <4>1, <4>3 DEF ReportOK
      <4> QED
        BY <4>2, <4>3
    <3> QED
      BY <1>17, <3>1, <3>2
  <2>2. ASSUME NEW i \in 1..Len(d), NEW j \in 1..Len(d), i < j PROVE Follows(d[i], d[j])
    <3>1. i \in 1..Len(c)
      BY <1>16, <2>2
    <3>2. CASE j \in 1..Len(c)
      BY <1>1, <1>16, <2>2, <3>1, <3>2 DEF Reports
    <3>3. CASE j = Len(c) + 1
      <4>1. ReportOK(c[i], os) /\ c[i] \in Report
        BY <1>1, <3>1 DEF Reports
      <4>2. c[i].cum \in Nat
        BY <4>1 DEF Report
      <4>3. ASSUME c[i].kind \in OrderReports, c[i].id = n
            PROVE  c[i].kind \notin Ends /\ (c[i].kind = "traded" => c[i].cum < r.cum)
        <5>1. c[i].kind \notin Ends
          BY <1>2, <4>1, <4>3 DEF ReportOK, a
        <5>2. ASSUME c[i].kind = "traded" PROVE c[i].cum < r.cum
          <6>1. c[i].cum <= a.filled
            BY <4>1, <4>3, <5>2 DEF ReportOK, a
          <6> QED
            BY <1>3, <1>4, <1>7, <4>2, <6>1
        <5> QED
          BY <5>1, <5>2
      <4>4. Follows(c[i], r)
        BY <1>7, <4>3 DEF Follows
      <4> QED
        BY <1>16, <3>1, <3>3, <4>4
    <3> QED
      BY <1>17, <3>2, <3>3
  <2> QED
    BY <2>1, <2>2 DEF Reports
<1>19. /\ c2 \in Seq(Report) /\ Reports(c2, os2) /\ Extends(d, c2)
       /\ p = 0 /\ "short" \in known => \A m : GoneAfter(c2, m)
  BY <1>11, <1>12, <1>14, <1>15, <1>16, <1>18, Told DEF OrdersOK
<1>20. /\ \A i \in 1..Len(d) : i \in 1..Len(c2) /\ c2[i] = d[i]
       /\ \A i \in 1..Len(c2) : c2[i].kind = "traded" => i \in 1..Len(d)
  <2>0. Len(d) \in Nat /\ Len(c2) \in Nat /\ Len(d) <= Len(c2)
    BY <1>16, <1>19 DEF Extends
  <2>1. \A i \in 1..Len(c2) : i \in 1..Len(d) \/ i \in Len(d) + 1..Len(c2)
    BY <2>0
  <2>2. \A i \in 1..Len(d) : i \in 1..Len(c2)
    BY <2>0
  <2> QED
    BY <1>19, <2>1, <2>2 DEF Extends
<1>21. WithReport(c, c2, r)
  <2>1. ASSUME NEW i \in 1..Len(c2), c2[i].kind = "traded", c2[i] # r
        PROVE  \E j \in 1..Len(c) : c[j] = c2[i]
    <3>1. i \in 1..Len(d) /\ d[i] = c2[i]
      BY <1>20, <2>1
    <3>2. i \in 1..Len(c)
      BY <1>16, <1>17, <2>1, <3>1
    <3> QED
      BY <1>16, <3>1, <3>2
  <2>2. ASSUME NEW j \in 1..Len(c) PROVE \E i \in 1..Len(c2) : c2[i] = c[j]
    <3>1. j \in 1..Len(d)
      BY <1>16
    <3> QED
      BY <1>16, <1>20, <3>1
  <2>3. \E i \in 1..Len(c2) : c2[i] = r
    <3>1. Len(c) + 1 \in 1..Len(d)
      BY <1>16
    <3> QED
      BY <1>16, <1>20, <3>1
  <2> QED
    BY <2>1, <2>2, <2>3 DEF WithReport
<1>22. ASSUME NEW m \in 1..Len(os)
       PROVE  /\ os2[m].trade = os[m].trade /\ os2[m].leg = os[m].leg /\ os2[m].qty = os[m].qty
              /\ m # n => os2[m] = os[m]
  BY <1>9, <1>11 DEF a
<1>23. ASSUME NEW s \in Trades, s # a.trade
       PROVE  /\ KeepsOrders(s, os, os2)
              /\ Named(trade[s], s, os) => KeepsReports(trade[s], c, c2)
  <2>1. KeepsOrders(s, os, os2)
    <3>1. Len(os) <= Len(os2) /\ Len(os) + 1..Len(os2) = {}
      BY <1>1, <1>11
    <3> QED
      BY <1>22, <1>23, <3>1 DEF KeepsOrders, a
  <2>2. ASSUME Named(trade[s], s, os), NEW l \in Legs, trade[s].oid[l] # None
        PROVE  /\ \A i \in 1..Len(c2) : Executes(c2[i], trade[s].oid[l]) => \E j \in 1..Len(c) : c[j] = c2[i]
               /\ \A j \in 1..Len(c) : Executes(c[j], trade[s].oid[l]) => \E i \in 1..Len(c2) : c2[i] = c[j]
    <3>1. trade[s].oid[l] # n
      BY <1>23, <2>2 DEF Named, a
    <3>2. \A i \in 1..Len(c2) : Executes(c2[i], trade[s].oid[l]) => c2[i] # r
      BY <1>7, <3>1 DEF Executes
    <3> QED
      BY <1>21, <3>2 DEF WithReport, Executes
  <2>3. Named(trade[s], s, os) => KeepsReports(trade[s], c, c2)
    BY <2>2 DEF KeepsReports
  <2> QED
    BY <2>1, <2>3
<1>24. TypeOK'
  <2>1. known' \in SUBSET {"long", "short"}
    BY <1>1, <1>2, MarginAssumption DEF Remembered, MarginAssumption
  <2>2. position' \in Nat /\ orders' \in Seq(Order) /\ channel' \in Seq(Report)
    BY <1>2, <1>11, <1>14, <1>19 DEF os2, c2
  <2> QED
    BY <1>1, <1>2, <2>1, <2>2 DEF TypeOK
<1>25. ASSUME NEW s \in Trades PROVE Named(trade[s], s, os2)
  <2>1. Named(trade[s], s, os)
    BY <1>1 DEF Placed
  <2> QED
    BY <1>11, <1>22, <2>1 DEF Named
<1>26. Placed'
  <2>1. ASSUME NEW m \in 1..Len(os2)
        PROVE  trade[os2[m].trade].position \/ trade[os2[m].trade].e > 0
    <3>1. m \in 1..Len(os) /\ os2[m].trade = os[m].trade
      BY <1>11, <1>22
    <3> QED
      BY <1>1, <3>1 DEF Placed
  <2> QED
    BY <1>2, <1>12, <1>19, <1>25, <2>1 DEF Placed, os2, c2
<1>27. ListedBooks'
  <2> SUFFICES ASSUME NEW s \in listed PROVE Books(trade[s], s, os2, c2)
    BY <1>2 DEF ListedBooks, os2, c2
  <2> DEFINE u == trade[s]
  <2>1. /\ s \in Trades /\ u \in Trade /\ Named(u, s, os) /\ Books(u, s, os, c)
    BY <1>1 DEF Placed, ListedBooks
  <2>2. CASE s = a.trade
    <3>1. os[n].trade = s
      BY <2>2
    <3> HIDE DEF u, os, c
    <3>2. Books(u, s, os2, c2)
      BY <1>13, <1>21, <2>1, <3>1, FilledBooks
    <3> QED
      BY <3>2 DEF u
  <2>3. CASE s # a.trade
    <3>1. KeepsOrders(s, os, os2) /\ KeepsReports(u, c, c2) /\ os \in Seq(Order) /\ os2 \in Seq(Order)
      BY <1>1, <1>11, <1>23, <2>1, <2>3
    <3> HIDE DEF u, os, c
    <3>2. Books(u, s, os2, c2)
      BY <2>1, <3>1, BooksKept
    <3> QED
      BY <3>2 DEF u
  <2> QED
    BY <2>2, <2>3
<1>28. Announced'
  <2>1. ASSUME ShortOnly, p > 0 PROVE "short" \in known'
    <3>1. dir = "short"
      BY <1>1, <2>1 DEF ShortOnly
    <3> QED
      BY <1>2, <2>1, <3>1 DEF Remembered
  <2>2. ASSUME ShortOnly, p = 0 PROVE \A m : GoneAfter(c2, m)
    BY <1>1, <1>14, <1>19, <2>2 DEF Announced
  <2> QED
    BY <1>2, <2>1, <2>2 DEF Announced, ShortOnly, c2
<1> QED
  BY <1>24, <1>26, <1>27, <1>28 DEF MarginInv

\* A trade that was not opened has no order, and is not in the list.
LEMMA NotOpened ==
    ASSUME MarginInv, NEW t \in Trades, trade[t] = NewTrade
    PROVE  /\ t \notin listed /\ \A l \in Legs : trade[t].oid[l] = None
           /\ \A n \in 1..Len(orders) : orders[n].trade # t
<1>1. trade[t].position = FALSE /\ trade[t].e = 0 /\ \A l \in Legs : trade[t].oid[l] = None
  BY DEF NewTrade
<1>2. ASSUME t \in listed PROVE FALSE
  BY <1>1, <1>2 DEF MarginInv, ListedBooks, Books, Core, States
<1>3. ASSUME NEW n \in 1..Len(orders), orders[n].trade = t PROVE FALSE
  BY <1>1, <1>3 DEF MarginInv, Placed
<1> QED
  BY <1>1, <1>2, <1>3

\* An entry order that is refused: the trade is not kept.
LEMMA OpenRefused ==
    ASSUME MarginInv, NEW t \in Trades, trade[t] = NewTrade,
           trade' = [trade EXCEPT ![t].entry = "rejected"],
           UNCHANGED <<dir, listed, orders, position, outside, known, channel>>
    PROVE  MarginInv'
<1>1. /\ TypeOK /\ Placed /\ ListedBooks /\ Announced /\ trade \in [Trades -> Trade]
      /\ listed \in SUBSET Trades
  BY DEF MarginInv, TypeOK
<1>2. /\ t \notin listed /\ \A l \in Legs : trade[t].oid[l] = None
      /\ \A n \in 1..Len(orders) : orders[n].trade # t
  BY NotOpened
<1> DEFINE v == [trade[t] EXCEPT !.entry = "rejected"]
<1>3. v \in Trade /\ v.oid = trade[t].oid
  BY <1>1 DEF Trade
<1>4. trade' = [trade EXCEPT ![t] = v]
  OBVIOUS
<1> HIDE DEF v
<1>5. trade' \in [Trades -> Trade] /\ trade'[t] = v /\ \A s \in Trades : s # t => trade'[s] = trade[s]
  BY <1>1, <1>3, <1>4
<1>6. TypeOK'
  BY <1>1, <1>5 DEF TypeOK
<1>7. ASSUME NEW s \in Trades PROVE Named(trade'[s], s, orders)
  <2>1. CASE s = t
    BY <1>2, <1>3, <1>5, <2>1 DEF Named
  <2>2. CASE s # t
    BY <1>1, <1>5, <2>2 DEF Placed
  <2> QED
    BY <2>1, <2>2
<1>8. Placed'
  <2>1. OrdersOK(orders) /\ Reports(channel, orders)
    BY <1>1 DEF Placed
  <2>2. ASSUME NEW n \in 1..Len(orders)
        PROVE  trade'[orders[n].trade].position \/ trade'[orders[n].trade].e > 0
    <3>1. orders[n].trade # t /\ orders[n].trade \in Trades
      BY <1>2, <2>1, OrderFacts
    <3>2. trade[orders[n].trade].position \/ trade[orders[n].trade].e > 0
      BY <1>1 DEF Placed
    <3> QED
      BY <1>5, <3>1, <3>2
  <2> QED
    BY <1>7, <2>1, <2>2 DEF Placed
<1>9. ListedBooks'
  BY <1>1, <1>2, <1>5 DEF ListedBooks
<1>10. Announced'
  <2>1. ASSUME NEW n \in 1..Len(orders) PROVE trade'[orders[n].trade] = trade[orders[n].trade]
    <3>1. orders[n].trade # t /\ orders[n].trade \in Trades
      BY <1>1, <1>2, OrderFacts DEF Placed
    <3> QED
      BY <1>5, <3>1
  <2> QED
    BY <1>1, <2>1 DEF Announced, ShortOnly
<1> QED
  BY <1>6, <1>8, <1>9, <1>10 DEF MarginInv

\* The books of a trade that was just opened by the order n.
LEMMA OpenedBooks ==
    ASSUME NEW u \in Trade, NEW t \in Trades, NEW os \in Seq(Order), NEW c, NEW n \in 1..Len(os),
           os[n].trade = t, os[n].leg = "create", os[n].filled = 0,
           \A m \in 1..Len(os) : os[m].trade = t => m = n, n # None,
           u.oid["create"] = n, \A l \in ExitLegs : u.oid[l] = None,
           u.e = 0, u.x = 0, u.entry = "new", u.exit = "new", u.position, ~u.dirty,
           \A i \in 1..Len(c) : ~Executes(c[i], n)
    PROVE  Named(u, t, os) /\ Books(u, t, os, c)
<1>1. \A l \in Legs : l = "create" \/ l \in ExitLegs
  BY DEF Legs, ExitLegs
<1>2. "create" \notin ExitLegs /\ "stop" \in ExitLegs /\ "limit" \in ExitLegs
      /\ Quantity[t] \in Nat /\ Quantity[t] > 0 /\ DOMAIN os = 1..Len(os)
  BY TradeFacts DEF ExitLegs
<1>3. Named(u, t, os)
  BY <1>1 DEF Named
<1>4. Held(u, t, os)
  BY DEF Held
<1>5. Entered(u, t, os)
  BY DEF Entered
<1>6. Exited(u, t, os)
  <2> DEFINE R == {m \in DOMAIN os : os[m].trade = t /\ os[m].leg \in ExitLegs}
             f == [m \in DOMAIN os |-> os[m].filled]
  <2>1. R = {}
    BY <1>2
  <2>2. TotalOf(os, t, ExitLegs) = Sum(f, R)
    BY DEF TotalOf
  <2> HIDE DEF R, f
  <2>3. Sum(f, R) = 0
    <3> DEFINE S == {}
               g == [m \in S |-> 0]
    <3>1. IsFiniteSet(S) /\ g \in [S -> Int] /\ S \in SUBSET S
      BY FS_EmptySet
    <3>2. \A m \in R : f[m] = g[m]
      BY <2>1
    <3>3. Sum(f, R) = Sum(g, R)
      <4> HIDE DEF g
      <4> QED
        BY <3>2, SumSame
    <3> HIDE DEF g
    <3>4. Sum(g, {}) = 0
      BY <3>1, SumElement
    <3> QED
      BY <2>1, <3>3, <3>4
  <2>4. Uncounted(u, "stop", os) = 0 /\ Uncounted(u, "limit", os) = 0
    BY <1>2 DEF Uncounted
  <2> QED
    BY <2>2, <2>3, <2>4 DEF Exited
<1>7. States(u, t)
  BY <1>2 DEF States
<1>8. Covering(u)
  BY DEF Covering, IsActive, IsClosed
<1>9. ASSUME NEW l \in Legs PROVE LegOK(u, l, os, c)
  <2>1. CASE l = "create"
    BY <2>1 DEF LegOK, Counted
  <2>2. CASE l \in ExitLegs
    BY <2>2 DEF LegOK
  <2> QED
    BY <1>1, <2>1, <2>2
<1> QED
  BY <1>3, <1>4, <1>5, <1>6, <1>7, <1>8, <1>9 DEF Books, Core

LEMMA OpenAccepted ==
    ASSUME MarginInv, NEW t \in Trades, trade[t] = NewTrade, Len(orders) + 1 <= MaxOrders,
           trade' = [trade EXCEPT ![t].oid["create"] = Len(orders) + 1, ![t].position = TRUE],
           orders' = Append(orders, NewOrder(t, "create", Quantity[t])),
           channel' = Append(channel, Rep("opened", Len(orders) + 1)),
           listed' = listed \cup {t},
           UNCHANGED <<dir, position, outside, known>>
    PROVE  MarginInv'
<1> DEFINE n == Len(orders) + 1
           q == Quantity[t]
           o == NewOrder(t, "create", q)
           r == Rep("opened", n)
           os == orders
           os2 == orders'
           c == channel
           c2 == channel'
           v == [trade[t] EXCEPT !.oid["create"] = n, !.position = TRUE]
<1>1. /\ TypeOK /\ Placed /\ ListedBooks /\ Announced /\ trade \in [Trades -> Trade]
      /\ listed \in SUBSET Trades /\ orders \in Seq(Order) /\ channel \in Seq(Report)
      /\ OrdersOK(orders) /\ Reports(channel, orders) /\ Len(orders) \in Nat /\ trade[t] \in Trade
  BY DEF MarginInv, TypeOK, Placed
<1>2. /\ t \notin listed /\ \A l \in Legs : trade[t].oid[l] = None
      /\ \A m \in 1..Len(orders) : orders[m].trade # t
  BY NotOpened
<1>3. q \in Nat \ {0} /\ "create" \in Legs /\ n \in Nat /\ n # None /\ n \in 0..MaxOrders
  BY <1>1, MarginAssumption DEF MarginAssumption, Legs, None
<1>4. o.trade = t /\ o.leg = "create" /\ o.filled = 0
  BY DEF NewOrder
<1>5. /\ OrdersOK(os2) /\ Reports(c, os2) /\ Len(os2) = Len(os) + 1
      /\ os2[Len(os) + 1] = o /\ (\A m \in 1..Len(os) : os2[m] = os[m])
      /\ \A s : s # t => KeepsOrders(s, os, os2)
  BY <1>1, <1>3, PlacedOrders
<1>6. os2 \in Seq(Order)
  BY <1>5 DEF OrdersOK
<1>7. r \in Report /\ r.kind = "opened" /\ r.id = n
  BY <1>3, RepFacts
<1>8. c2 \in Seq(Report) /\ Reports(c2, os2)
  <2>1. /\ "opened" \in {"opened", "deleted", "canceled", "moved", "gone"}
        /\ n \in 1..Len(os2) /\ "opened" \notin Ends /\ Len(os2) <= MaxOrders
    BY <1>1, <1>3, <1>5 DEF Ends
  <2> QED
    BY <1>1, <1>3, <1>5, <1>6, <2>1, ReportsEnd
<1>9. Extends(c, c2)
  BY <1>1, <1>7, OneMore
<1>10. /\ \A u : KeepsReports(u, c, c2)
       /\ \A m : GoneAfter(c, m) => GoneAfter(c2, m)
  BY <1>1, <1>8, <1>9, ExtendedReports
<1>11. /\ v \in Trade /\ v.oid["create"] = n /\ v.position
       /\ (\A l \in ExitLegs : v.oid[l] = None)
       /\ v.e = 0 /\ v.x = 0 /\ v.entry = "new" /\ v.exit = "new" /\ ~v.dirty
  <2> DEFINE a == trade[t]
  <2>1. a \in Trade /\ a = NewTrade
    BY <1>1
  <2>2. /\ a.oid \in [Legs -> 0..MaxOrders] /\ a.e = 0 /\ a.x = 0 /\ a.entry = "new" /\ a.exit = "new"
        /\ a.dirty = FALSE /\ \A l \in Legs : a.oid[l] = None
    <3>1. a.oid \in [Legs -> 0..MaxOrders]
      BY <2>1 DEF Trade
    <3> QED
      BY <2>1, <3>1 DEF NewTrade
  <2> HIDE DEF a
  <2>3. [a.oid EXCEPT !["create"] = n] \in [Legs -> 0..MaxOrders]
    BY <1>3, <2>2
  <2>4. v = [a EXCEPT !.oid = [a.oid EXCEPT !["create"] = n], !.position = TRUE]
    BY DEF a
  <2> HIDE DEF v, n
  <2>5. v \in Trade
    BY <2>1, <2>3, <2>4 DEF Trade
  <2>6. /\ v.oid = [a.oid EXCEPT !["create"] = n] /\ v.position = TRUE
        /\ v.e = a.e /\ v.x = a.x /\ v.entry = a.entry /\ v.exit = a.exit /\ v.dirty = a.dirty
    BY <2>1, <2>4 DEF Trade
  <2>7. v.oid["create"] = n /\ \A l \in ExitLegs : v.oid[l] = None
    BY <1>3, <2>2, <2>6 DEF Legs, ExitLegs
  <2> QED
    BY <2>2, <2>5, <2>6, <2>7
<1>12. trade' = [trade EXCEPT ![t] = v]
  OBVIOUS
<1> HIDE DEF v, o, r, c2, os2, q
<1>13. trade' \in [Trades -> Trade] /\ trade'[t] = v /\ \A s \in Trades : s # t => trade'[s] = trade[s]
  BY <1>1, <1>11, <1>12
<1>14. TypeOK'
  <2>1. listed' \in SUBSET Trades
    BY <1>1
  <2> QED
    BY <1>1, <1>6, <1>8, <1>13, <2>1 DEF TypeOK, os2, c2
<1>15. \A m \in 1..Len(os2) : m \in 1..Len(os) \/ m = n
  BY <1>1, <1>5
<1>16. Named(v, t, os2) /\ Books(v, t, os2, c2)
  <2>1. n \in 1..Len(os2) /\ os2[n] = o
    BY <1>1, <1>5
  <2>2. \A m \in 1..Len(os2) : os2[m].trade = t => m = n
    BY <1>2, <1>5, <1>15
  <2>3. ASSUME NEW i \in 1..Len(c2), Executes(c2[i], n) PROVE FALSE
    <3>0. Len(c) \in Nat /\ Len(c2) \in Nat
      BY <1>1, <1>8
    <3>1. i \in 1..Len(c)
      <4>1. i \in 1..Len(c) \/ i \in Len(c) + 1..Len(c2)
        BY <3>0
      <4> QED
        BY <1>9, <2>3, <4>1 DEF Extends, Executes
    <3>2. c2[i] = c[i]
      BY <1>9, <3>1 DEF Extends
    <3>3. ReportOK(c[i], os)
      BY <1>1, <3>1 DEF Reports
    <3>4. n \in 1..Len(os)
      BY <2>3, <3>2, <3>3 DEF ReportOK, Executes, OrderReports
    <3> QED
      BY <1>1, <3>4
  <2> QED
    BY <1>3, <1>4, <1>6, <1>11, <2>1, <2>2, <2>3, OpenedBooks
<1>17. ASSUME NEW s \in Trades PROVE Named(trade'[s], s, os2)
  <2>1. CASE s = t
    BY <1>13, <1>16, <2>1
  <2>2. CASE s # t
    <3>1. Named(trade[s], s, os) /\ trade[s] \in Trade /\ KeepsOrders(s, os, os2)
      BY <1>1, <1>5, <2>2 DEF Placed
    <3> HIDE DEF os
    <3>2. os \in Seq(Order)
      BY <1>1 DEF os
    <3>3. Named(trade[s], s, os2)
      BY <1>6, <3>1, <3>2, NamedKept
    <3> QED
      BY <1>13, <2>2, <3>3
  <2> QED
    BY <2>1, <2>2
<1>18. Placed'
  <2>1. ASSUME NEW m \in 1..Len(os2)
        PROVE  trade'[os2[m].trade].position \/ trade'[os2[m].trade].e > 0
    <3>1. CASE m = n
      <4>1. os2[m].trade = t
        BY <1>4, <1>5, <3>1
      <4> QED
        BY <1>11, <1>13, <4>1
    <3>2. CASE m \in 1..Len(os)
      <4>1. os2[m] = os[m] /\ os[m].trade # t /\ os[m].trade \in Trades
        BY <1>1, <1>2, <1>5, <3>2, OrderFacts
      <4>2. trade[os[m].trade].position \/ trade[os[m].trade].e > 0
        BY <1>1, <3>2 DEF Placed
      <4> QED
        BY <1>13, <4>1, <4>2
    <3> QED
      BY <1>15, <3>1, <3>2
  <2> QED
    BY <1>5, <1>8, <1>17, <2>1 DEF Placed, os2, c2
<1>19. ListedBooks'
  <2> SUFFICES ASSUME NEW s \in listed' PROVE Books(trade'[s], s, os2, c2)
    BY DEF ListedBooks, os2, c2
  <2>1. CASE s = t
    BY <1>13, <1>16, <2>1
  <2>2. CASE s # t
    <3> DEFINE u == trade[s]
    <3>1. /\ s \in Trades /\ u \in Trade /\ Named(u, s, os) /\ Books(u, s, os, c)
          /\ KeepsOrders(s, os, os2) /\ KeepsReports(u, c, c2) /\ os \in Seq(Order)
      BY <1>1, <1>5, <1>10, <2>2 DEF Placed, ListedBooks
    <3>2. trade'[s] = u
      BY <1>13, <2>2, <3>1
    <3> HIDE DEF u, os, c
    <3>3. Books(u, s, os2, c2)
      BY <1>6, <3>1, BooksKept
    <3> QED
      BY <3>2, <3>3
  <2> QED
    BY <2>1, <2>2
<1>20. Announced'
  <2>1. ASSUME ShortOnly, position > 0 PROVE "short" \in known
    BY <1>1, <2>1 DEF Announced
  <2>2. ASSUME ShortOnly, position = 0, NEW m \in 1..Len(os2),
               os2[m].trade \in listed', os2[m].leg = "create", os2[m].filled > 0,
               Learning(trade'[os2[m].trade])
        PROVE  GoneAfter(c2, m)
    <3>1. m # n
      BY <1>4, <1>5, <2>2
    <3>2. m \in 1..Len(os) /\ os2[m] = os[m]
      BY <1>5, <1>15, <3>1
    <3>3. os[m].trade \in listed
      BY <1>2, <2>2, <3>2
    <3>4. GoneAfter(c, m)
      <4>1. os[m].trade \in Trades /\ os[m].trade # t
        BY <1>1, <1>2, <3>2, OrderFacts
      <4>2. Learning(trade[os[m].trade])
        BY <1>13, <2>2, <3>2, <4>1
      <4> QED
        BY <1>1, <2>2, <3>2, <3>3, <4>2 DEF Announced
    <3> QED
      BY <1>10, <3>4
  <2> QED
    BY <2>1, <2>2 DEF Announced, ShortOnly, os2, c2
<1> QED
  BY <1>14, <1>18, <1>19, <1>20 DEF MarginInv

LEMMA OpenStep == ASSUME MarginInv, NEW t \in Trades, Open(t) PROVE MarginInv'
<1>1. trade[t] = NewTrade /\ Len(orders) + 1 <= MaxOrders
      /\ UNCHANGED <<dir, position, outside, known>>
  BY DEF Open, Room
<1>2. CASE /\ trade' = [trade EXCEPT ![t].oid["create"] = Len(orders) + 1,
                                     ![t].position = TRUE]
           /\ orders' = Append(orders, [trade |-> t, leg |-> "create",
                                        qty |-> Quantity[t], filled |-> 0,
                                        status |-> "live"])
           /\ channel' = Append(channel, Rep("opened", Len(orders) + 1))
           /\ listed' = listed \cup {t}
  <2>1. orders' = Append(orders, NewOrder(t, "create", Quantity[t]))
    BY <1>2 DEF NewOrder
  <2> QED
    BY <1>1, <1>2, <2>1, OpenAccepted
<1>3. CASE /\ trade' = [trade EXCEPT ![t].entry = "rejected"]
           /\ UNCHANGED <<orders, channel, listed>>
  BY <1>1, <1>3, OpenRefused
<1> QED
  BY <1>2, <1>3 DEF Open

LEMMA ExtendsThen ==
    ASSUME NEW a \in Seq(Report), NEW b \in Seq(Report), NEW c \in Seq(Report),
           Extends(a, b), Extends(b, c)
    PROVE  Extends(a, c)
<1>1. /\ Len(a) \in Nat /\ Len(b) \in Nat /\ Len(c) \in Nat
      /\ Len(a) <= Len(b) /\ Len(b) <= Len(c)
  BY DEF Extends
<1>2. ASSUME NEW i \in 1..Len(a) PROVE c[i] = a[i]
  <2>1. i \in 1..Len(b)
    BY <1>1
  <2> QED
    BY <2>1 DEF Extends
<1>3. ASSUME NEW i \in Len(a) + 1..Len(c) PROVE c[i].kind # "traded"
  <2>1. CASE i \in 1..Len(b)
    <3>1. i \in Len(a) + 1..Len(b)
      BY <1>1, <2>1
    <3> QED
      BY <2>1, <3>1 DEF Extends
  <2>2. CASE i \notin 1..Len(b)
    <3>1. i \in Len(b) + 1..Len(c)
      BY <1>1, <2>2
    <3> QED
      BY <3>1 DEF Extends
  <2> QED
    BY <2>1, <2>2
<1> QED
  BY <1>1, <1>2, <1>3 DEF Extends

-----------------------------------------------------------------------------
(***************************************************************************)
(* A report on the position.                                               *)
(***************************************************************************)

\* The trades that hear of it, what it makes of each, those that leave the list.
Hearing == {t \in listed : trade[t].position}

Heard == [t \in Trades |-> IF t \in Hearing /\ Head(channel).kind = "gone"
                           THEN PositionDeleted(trade[t]) ELSE trade[t]]

Leaving == {t \in Hearing : IsClosed(Heard[t])}

\* The trade t leaves the list, as the answers p to its cancels have it.
Leave(p, t, w) ==
    LET v == Finalized([u |-> Heard[t], o |-> w.o, c |-> w.c], Quantity[t], p[t])
    IN  [t |-> [w.t EXCEPT ![t] = v.u], o |-> v.o, c |-> v.c]

Before == [t |-> Heard, o |-> orders, c |-> Tail(channel)]

After(p) == Dismissed(Heard, Leaving, p)

\* What is true while the trades leave, one after the other.
Left(w) ==
    /\ OrdersOK(w.o) /\ Reports(w.c, w.o) /\ Len(w.o) = Len(orders)
    /\ \A n \in 1..Len(orders) : /\ w.o[n].trade = orders[n].trade
                                 /\ w.o[n].leg = orders[n].leg
                                 /\ w.o[n].filled = orders[n].filled
    /\ \A s \in Trades \ Leaving : w.t[s] = Heard[s] /\ KeepsOrders(s, orders, w.o)
    /\ Extends(Tail(channel), w.c)
    /\ \A s \in Trades : Named(w.t[s], s, w.o)
    /\ \A s \in Trades : trade[s].position \/ trade[s].e > 0 => w.t[s].position \/ w.t[s].e > 0

LeftWorlds == {w \in [t : [Trades -> Trade], o : Seq(Order), c : Seq(Report)] : Left(w)}

\* What a trade believes after the report on the position.
LEMMA HeardFacts ==
    ASSUME MarginInv, NEW t \in Trades
    PROVE  /\ Heard[t] \in Trade /\ Named(Heard[t], t, orders)
           /\ trade[t].position \/ trade[t].e > 0 => Heard[t].position \/ Heard[t].e > 0
           /\ t \in listed \ Leaving => Heard[t] = trade[t]
           /\ t \in listed \ Leaving /\ Head(channel).kind = "gone" => trade[t].e = 0
<1>1. trade[t] \in Trade /\ trade[t].e \in Nat /\ Named(trade[t], t, orders)
  <2>1. trade[t] \in Trade /\ Named(trade[t], t, orders)
    BY DEF MarginInv, TypeOK, Placed
  <2> QED
    BY <2>1, TradeFacts
<1> DEFINE a == trade[t]
           v == PositionDeleted(a)
<1>2. /\ v \in Trade /\ v.oid = a.oid /\ (a.e = 0 => v = a)
      /\ (a.e > 0 => v.exit = "filled" /\ v.e = a.e)
  BY <1>1, PositionDeletedFacts
<1>3. Heard[t] = IF t \in Hearing /\ Head(channel).kind = "gone" THEN v ELSE a
  BY DEF Heard
<1>4. ASSUME t \in listed PROVE t \in Hearing
  <2>1. Books(trade[t], t, orders, channel)
    BY <1>4 DEF MarginInv, ListedBooks
  <2> QED
    BY <1>4, <2>1 DEF Books, Core, States, Hearing
<1> HIDE DEF v
<1>5. CASE t \in Hearing /\ Head(channel).kind = "gone"
  <2>1. Heard[t] = v
    BY <1>3, <1>5
  <2>2. Named(v, t, orders)
    BY <1>1, <1>2 DEF Named
  <2>3. a.e > 0 => t \in Leaving
    BY <1>2, <1>5, <2>1 DEF Leaving, IsClosed
  <2>4. a.e > 0 \/ a.e = 0
    BY <1>1
  <2>5. a.position \/ a.e > 0 => v.position \/ v.e > 0
    BY <1>2, <2>4
  <2> QED
    BY <1>2, <2>1, <2>2, <2>3, <2>4, <2>5
<1>6. CASE ~(t \in Hearing /\ Head(channel).kind = "gone")
  <2>1. Heard[t] = a
    BY <1>3, <1>6
  <2> QED
    BY <1>1, <1>4, <1>6, <2>1
<1> QED
  BY <1>5, <1>6

\* Nobody has left yet.
LEMMA BeforeLeft == ASSUME MarginInv, channel # <<>> PROVE Before \in LeftWorlds
<1>1. /\ orders \in Seq(Order) /\ channel \in Seq(Report) /\ OrdersOK(orders) /\ Reports(channel, orders)
  BY DEF MarginInv, TypeOK, Placed
<1>2. Tail(channel) \in Seq(Report) /\ Reports(Tail(channel), orders)
  BY <1>1, TailReports
<1>3. Before.t = Heard /\ Before.o = orders /\ Before.c = Tail(channel)
  BY DEF Before
<1>4. \A s \in Trades : KeepsOrders(s, orders, orders)
  BY <1>1 DEF KeepsOrders
<1>5. Extends(Tail(channel), Tail(channel))
  BY <1>2, NoMore
<1>6. Heard \in [Trades -> Trade]
  <2>1. \A t \in Trades : Heard[t] \in Trade
    BY HeardFacts
  <2> QED
    BY <2>1 DEF Heard
<1>7. \A s \in Trades : Named(Heard[s], s, orders)
  BY HeardFacts
<1>8. \A s \in Trades : trade[s].position \/ trade[s].e > 0 => Heard[s].position \/ Heard[s].e > 0
  BY HeardFacts
<1>9. Left(Before)
  BY <1>1, <1>2, <1>3, <1>4, <1>5, <1>7, <1>8 DEF Left
<1>10. Before \in [t : [Trades -> Trade], o : Seq(Order), c : Seq(Report)]
  BY <1>1, <1>2, <1>6 DEF Before
<1> QED
  BY <1>9, <1>10 DEF LeftWorlds

\* One more leaves.
LEMMA LeaveLeft ==
    ASSUME MarginInv, channel # <<>>, NEW p, NEW t \in Leaving, NEW w \in LeftWorlds
    PROVE  Leave(p, t, w) \in LeftWorlds
<1> DEFINE a == [u |-> Heard[t], o |-> w.o, c |-> w.c]
           v == Finalized(a, Quantity[t], p[t])
           z == Leave(p, t, w)
<1>1. /\ t \in Trades /\ w.t \in [Trades -> Trade] /\ w.o \in Seq(Order) /\ w.c \in Seq(Report)
      /\ Left(w) /\ orders \in Seq(Order) /\ channel \in Seq(Report)
  BY DEF LeftWorlds, Leaving, Hearing, MarginInv, TypeOK
<1>2. /\ OrdersOK(w.o) /\ Reports(w.c, w.o) /\ Len(w.o) = Len(orders)
      /\ \A n \in 1..Len(orders) : /\ w.o[n].trade = orders[n].trade
                                   /\ w.o[n].leg = orders[n].leg
                                   /\ w.o[n].filled = orders[n].filled
  BY <1>1 DEF Left
<1>3. /\ Heard[t] \in Trade /\ Named(Heard[t], t, orders)
      /\ trade[t].position \/ trade[t].e > 0 => Heard[t].position \/ Heard[t].e > 0
  BY <1>1, HeardFacts
<1>4. a.u = Heard[t] /\ a.o = w.o /\ a.c = w.c
  OBVIOUS
<1>5. Named(Heard[t], t, w.o)
  BY <1>2, <1>3 DEF Named
<1>6. Sound(a, t)
  BY <1>1, <1>2, <1>3, <1>5 DEF Sound, Worlds
<1>7. z = [t |-> [w.t EXCEPT ![t] = v.u], o |-> v.o, c |-> v.c]
  BY DEF Leave
<1> HIDE DEF a
<1>8. /\ Sound(v, t) /\ Evolves(t, a, v) /\ Len(v.o) = Len(w.o)
      /\ v.u.position = Heard[t].position /\ v.u.e >= Heard[t].e
  <2> DEFINE s == p[t]
             f == Finalized(a, Quantity[t], s)
  <2> HIDE DEF s
  <2>1. /\ Sound(f, t) /\ Evolves(t, a, f) /\ Len(f.o) = Len(a.o)
        /\ f.u.position = a.u.position /\ f.u.e >= a.u.e
    BY <1>1, <1>6, FinalizedFacts
  <2>2. v = f
    BY DEF s
  <2> HIDE DEF f, v
  <2> QED
    BY <1>4, <2>1, <2>2
<1> HIDE DEF v, z
<1>9. z.t = [w.t EXCEPT ![t] = v.u] /\ z.o = v.o /\ z.c = v.c
  BY <1>7
<1>10. /\ v.u \in Trade /\ v.o \in Seq(Order) /\ v.c \in Seq(Report)
       /\ OrdersOK(v.o) /\ Reports(v.c, v.o) /\ Named(v.u, t, v.o)
  BY <1>8, WorldFacts
<1>11. z.t \in [Trades -> Trade] /\ z.t[t] = v.u /\ \A s \in Trades : s # t => z.t[s] = w.t[s]
  BY <1>1, <1>9, <1>10
<1>12. z \in [t : [Trades -> Trade], o : Seq(Order), c : Seq(Report)]
  BY <1>7, <1>9, <1>10, <1>11
<1>13. /\ Len(a.o) = Len(orders) /\ Len(v.o) = Len(orders) /\ Len(orders) \in Nat
       /\ \A n \in 1..Len(orders) :
             /\ v.o[n].trade = w.o[n].trade /\ v.o[n].leg = w.o[n].leg
             /\ v.o[n].filled = w.o[n].filled
             /\ w.o[n].trade # t => v.o[n] = w.o[n]
  BY <1>1, <1>2, <1>4, <1>8 DEF Evolves
<1>14. \A n \in 1..Len(orders) : /\ v.o[n].trade = orders[n].trade
                                 /\ v.o[n].leg = orders[n].leg
                                 /\ v.o[n].filled = orders[n].filled
  BY <1>2, <1>13
<1>15. ASSUME NEW s \in Trades \ Leaving PROVE z.t[s] = Heard[s] /\ KeepsOrders(s, orders, v.o)
  <2>1. s # t /\ w.t[s] = Heard[s] /\ KeepsOrders(s, orders, w.o)
    BY <1>1 DEF Left
  <2>2. ASSUME NEW n \in 1..Len(orders), orders[n].trade = s
        PROVE  /\ v.o[n].qty = orders[n].qty /\ v.o[n].filled = orders[n].filled
               /\ v.o[n].status = "closed" <=> orders[n].status = "closed"
               /\ v.o[n].status = "live" => orders[n].status = "live"
    <3>1. v.o[n] = w.o[n]
      BY <1>2, <1>13, <2>1, <2>2
    <3> QED
      BY <2>1, <2>2, <3>1 DEF KeepsOrders
  <2>3. Len(orders) <= Len(v.o) /\ Len(orders) + 1..Len(v.o) = {}
    BY <1>13
  <2>4. KeepsOrders(s, orders, v.o)
    BY <1>14, <2>2, <2>3 DEF KeepsOrders
  <2> QED
    BY <1>11, <2>1, <2>4
<1>16. Extends(Tail(channel), v.c)
  <2>1. Extends(Tail(channel), w.c)
    BY <1>1 DEF Left
  <2>2. Extends(w.c, v.c)
    BY <1>4, <1>8 DEF Evolves, Extends
  <2>3. Tail(channel) \in Seq(Report)
    BY <1>1
  <2> QED
    BY <1>1, <1>10, <2>1, <2>2, <2>3, ExtendsThen
<1>17. ASSUME NEW s \in Trades PROVE Named(z.t[s], s, v.o)
  <2>1. CASE s = t
    BY <1>10, <1>11, <2>1
  <2>2. CASE s # t
    <3>1. Named(w.t[s], s, w.o)
      BY <1>1 DEF Left
    <3>2. Named(w.t[s], s, v.o)
      BY <1>2, <1>13, <3>1 DEF Named
    <3> QED
      BY <1>11, <2>2, <3>2
  <2> QED
    BY <2>1, <2>2
<1>18. ASSUME NEW s \in Trades, trade[s].position \/ trade[s].e > 0
       PROVE  z.t[s].position \/ z.t[s].e > 0
  <2>1. CASE s = t
    <3>1. Heard[t].position \/ Heard[t].e > 0
      BY <1>3, <1>18, <2>1
    <3>2. Heard[t].e \in Nat /\ v.u.e \in Nat
      BY <1>3, <1>10, TradeFacts
    <3>3. v.u.position \/ v.u.e > 0
      BY <1>8, <3>1, <3>2
    <3> QED
      BY <1>11, <2>1, <3>3
  <2>2. CASE s # t
    BY <1>1, <1>11, <1>18, <2>2 DEF Left
  <2> QED
    BY <2>1, <2>2
<1>19. Left(z)
  BY <1>9, <1>10, <1>13, <1>14, <1>15, <1>16, <1>17, <1>18 DEF Left
<1> QED
  BY <1>12, <1>19 DEF LeftWorlds, z

\* All have left.
LEMMA AfterLeft == ASSUME MarginInv, channel # <<>>, NEW p PROVE After(p) \in LeftWorlds
<1> DEFINE S == Leaving
           W == LeftWorlds
           b == Before
           F(h) == [s \in SUBSET S |-> IF s = {} THEN b
                                       ELSE LET t == CHOOSE t \in s : TRUE
                                            IN  Leave(p, t, h[s \ {t}])]
           all == CHOOSE h : h = F(h)
           g == [t \in S |-> [w \in W |-> Leave(p, t, w)]]
<1>1. After(p) = all[S]
  BY DEF After, Dismissed, Before, Leave, MapThenFoldSet
<1>2. IsFiniteSet(S)
  <2>1. S \subseteq Trades
    BY DEF Leaving, Hearing, MarginInv, TypeOK
  <2> QED
    BY <2>1, MarginAssumption, FS_Subset DEF MarginAssumption
<1>3. b \in W
  BY BeforeLeft
<1>4. \A t \in S, w \in W : Leave(p, t, w) \in W
  BY LeaveLeft
<1>5. g \in [S -> [W -> W]] /\ \A t \in S, w \in W : g[t][w] = Leave(p, t, w)
  BY <1>4
<1>6. \A h : \A s \in SUBSET S : F(h)[s] = IF s = {} THEN b ELSE Leave(p, First(s), h[s \ {First(s)}])
  BY DEF First
<1>7. \A h : DOMAIN F(h) = SUBSET S /\ F(h) = [s \in SUBSET S |-> F(h)[s]]
  OBVIOUS
<1> HIDE DEF S, W, b, g
<1>8. PICK f \in [SUBSET S -> W] : \A s \in SUBSET S : f[s] = FoldStep(g, b, f, s)
  <2>1. g \in [S -> [W -> W]]
    BY <1>5
  <2>2. FoldsOf(g, b, S, W) # {}
    BY <1>2, <1>3, <2>1, FoldsExist
  <2> QED
    BY <2>2 DEF FoldsOf
<1> HIDE DEF F
<1>9. f = F(f)
  <2>1. ASSUME NEW s \in SUBSET S PROVE f[s] = F(f)[s]
    <3>1. CASE s = {}
      BY <1>6, <1>8, <3>1 DEF FoldStep
    <3>2. CASE s # {}
      <4>1. First(s) \in S /\ s \ {First(s)} \in SUBSET S
        BY <3>2, FirstIn
      <4>2. f[s \ {First(s)}] \in W
        BY <1>8, <4>1
      <4>3. f[s] = g[First(s)][f[s \ {First(s)}]]
        BY <1>8, <3>2 DEF FoldStep
      <4>4. g[First(s)][f[s \ {First(s)}]] = Leave(p, First(s), f[s \ {First(s)}])
        BY <1>5, <4>1, <4>2
      <4> QED
        BY <1>6, <3>2, <4>3, <4>4
    <3> QED
      BY <3>1, <3>2
  <2>2. f = [s \in SUBSET S |-> f[s]]
    OBVIOUS
  <2> QED
    BY <1>7, <2>1, <2>2
<1>10. all = F(all)
  BY <1>9
<1> HIDE DEF all
<1>11. \A s \in SUBSET S : all[s] = IF s = {} THEN b ELSE Leave(p, First(s), all[s \ {First(s)}])
  BY <1>6, <1>10
<1> DEFINE P == {s \in SUBSET S : all[s] \in W}
<1>12. \A s \in SUBSET S : (\A x \in s : s \ {x} \in P) => s \in P
  <2> SUFFICES ASSUME NEW s \in SUBSET S, \A x \in s : s \ {x} \in P PROVE all[s] \in W
    OBVIOUS
  <2>1. CASE s = {}
    BY <1>3, <1>11, <2>1
  <2>2. CASE s # {}
    <3>1. First(s) \in s /\ First(s) \in S
      BY <2>2, FirstIn
    <3>2. all[s \ {First(s)}] \in W
      BY <3>1
    <3>3. Leave(p, First(s), all[s \ {First(s)}]) \in W
      BY <1>4, <3>1, <3>2
    <3> QED
      BY <1>11, <2>2, <3>3
  <2> QED
    BY <2>1, <2>2
<1>13. S \in P
  <2> HIDE DEF P
  <2> QED
    BY <1>2, <1>12, SubsetInduction
<1> QED
  BY <1>1, <1>13 DEF W, S

\* The end of the position that is told after an execution is not the report at the head.
LEMMA GoneLater ==
    ASSUME NEW c \in Seq(Report), c # <<>>, NEW os, Reports(c, os), NEW n, GoneAfter(c, n),
           c[1].kind # "gone" \/ \E i \in 1..Len(c) : Executes(c[i], n)
    PROVE  GoneAfter(Tail(c), n)
<1>1. CASE c[1].kind # "gone"
  BY <1>1, TailReports
<1>2. CASE c[1].kind = "gone"
  <2> DEFINE d == Tail(c)
  <2>1. /\ Len(c) \in Nat /\ Len(d) = Len(c) - 1 /\ Len(d) \in Nat
        /\ \A i \in 1..Len(d) : d[i] = c[i + 1] /\ i + 1 \in 1..Len(c)
        /\ \A i \in 1..Len(c) : i # 1 => i - 1 \in 1..Len(d) /\ d[i - 1] = c[i]
    BY TailReports
  <2> HIDE DEF d
  <2>2. PICK i \in 1..Len(c) : /\ c[i].kind = "gone"
                               /\ \A j \in i + 1..Len(c) : ~Executes(c[j], n)
    BY DEF GoneAfter
  <2>3. PICK k \in 1..Len(c) : Executes(c[k], n)
    BY <1>2
  <2>4. k # 1
    BY <1>2, <2>3 DEF Executes
  <2>5. i # 1
    <3>1. k \notin i + 1..Len(c)
      BY <2>2, <2>3
    <3> QED
      BY <2>1, <2>4, <3>1
  <2>6. i - 1 \in 1..Len(d) /\ d[i - 1] = c[i]
    BY <2>1, <2>5
  <2>7. d[i - 1].kind = "gone"
    BY <2>2, <2>6
  <2>8. ASSUME NEW j \in (i - 1) + 1..Len(d) PROVE ~Executes(d[j], n)
    <3>1. j \in 1..Len(d) /\ j + 1 \in i + 1..Len(c)
      BY <2>1, <2>6
    <3>2. ~Executes(c[j + 1], n)
      BY <2>2, <3>1
    <3> QED
      BY <2>1, <3>1, <3>2
  <2> HIDE <2>2
  <2> QED
    BY <2>6, <2>7, <2>8 DEF GoneAfter, d
<1> QED
  BY <1>1, <1>2

LEMMA DeliverPositionStep == ASSUME MarginInv, DeliverPosition PROVE MarginInv'
<1> DEFINE r == channel[1]
           d == Tail(channel)
<1>1. /\ TypeOK /\ Placed /\ ListedBooks /\ Announced /\ trade \in [Trades -> Trade]
      /\ orders \in Seq(Order) /\ channel \in Seq(Report)
      /\ listed \in SUBSET Trades /\ OrdersOK(orders) /\ Reports(channel, orders)
  BY DEF MarginInv, TypeOK, Placed
<1>2. /\ channel # <<>> /\ Head(channel) = r /\ r.kind \notin OrderReports
      /\ UNCHANGED <<dir, position, outside, known>>
  BY <1>1, TailReports DEF DeliverPosition
<1>3. PICK p : /\ trade' = After(p).t /\ orders' = After(p).o /\ channel' = After(p).c
               /\ listed' = listed \ Leaving
  BY DEF DeliverPosition, After, Leaving, Heard, Hearing
<1>4. After(p) \in LeftWorlds
  BY <1>2, AfterLeft
<1>5. /\ trade' \in [Trades -> Trade] /\ orders' \in Seq(Order) /\ channel' \in Seq(Report)
      /\ OrdersOK(orders') /\ Reports(channel', orders') /\ Len(orders') = Len(orders)
      /\ \A n \in 1..Len(orders) : /\ orders'[n].trade = orders[n].trade
                                   /\ orders'[n].leg = orders[n].leg
                                   /\ orders'[n].filled = orders[n].filled
      /\ \A s \in Trades \ Leaving : trade'[s] = Heard[s] /\ KeepsOrders(s, orders, orders')
      /\ Extends(d, channel')
      /\ \A s \in Trades : Named(trade'[s], s, orders')
      /\ \A s \in Trades : trade[s].position \/ trade[s].e > 0 =>
                             trade'[s].position \/ trade'[s].e > 0
  BY <1>3, <1>4 DEF LeftWorlds, Left
<1>6. TypeOK'
  <2>1. listed' \in SUBSET Trades
    BY <1>1, <1>3
  <2> QED
    BY <1>1, <1>2, <1>5, <2>1 DEF TypeOK
<1>7. Placed'
  <2>1. ASSUME NEW n \in 1..Len(orders')
        PROVE  trade'[orders'[n].trade].position \/ trade'[orders'[n].trade].e > 0
    <3>1. n \in 1..Len(orders) /\ orders'[n].trade = orders[n].trade /\ orders[n].trade \in Trades
      BY <1>1, <1>5, OrderFacts
    <3>2. trade[orders[n].trade].position \/ trade[orders[n].trade].e > 0
      BY <1>1, <3>1 DEF Placed
    <3> QED
      BY <1>5, <3>1, <3>2
  <2> QED
    BY <1>5, <2>1 DEF Placed
<1>8. d \in Seq(Report)
  BY <1>1, <1>2
<1>9. /\ \A u : KeepsReports(u, d, channel')
      /\ \A n : GoneAfter(d, n) => GoneAfter(channel', n)
  BY <1>5, <1>8, ExtendedReports
<1>10. \A u : KeepsReports(u, channel, d)
  <2>1. \A n : ~Executes(r, n)
    BY <1>2 DEF Executes, OrderReports
  <2> QED
    BY <1>1, <1>2, <2>1, TailReports
<1>11. ASSUME NEW s \in listed'
       PROVE  /\ s \in Trades /\ s \in listed /\ trade'[s] = trade[s]
              /\ KeepsOrders(s, orders, orders') /\ (r.kind = "gone" => trade[s].e = 0)
  <2>1. s \in listed \ Leaving /\ s \in Trades \ Leaving
    BY <1>1, <1>3
  <2>2. Heard[s] = trade[s] /\ (Head(channel).kind = "gone" => trade[s].e = 0)
    BY <2>1, HeardFacts
  <2> QED
    BY <1>2, <1>5, <2>1, <2>2
<1>12. ListedBooks'
  <2> SUFFICES ASSUME NEW s \in listed' PROVE Books(trade'[s], s, orders', channel')
    BY DEF ListedBooks
  <2> DEFINE u == trade[s]
             os == orders
             os2 == orders'
             c == channel
             c2 == channel'
  <2>1. s \in Trades /\ s \in listed /\ trade'[s] = u /\ KeepsOrders(s, os, os2)
    BY <1>11
  <2>2. KeepsReports(u, c, c2)
    BY <1>1, <1>5, <1>8, <1>9, <1>10, KeepsThen
  <2>3. u \in Trade /\ Named(u, s, os) /\ Books(u, s, os, c) /\ os \in Seq(Order) /\ os2 \in Seq(Order)
    BY <1>1, <1>5, <2>1 DEF Placed, ListedBooks
  <2> HIDE DEF u, os, os2, c, c2
  <2>4. Books(u, s, os2, c2)
    BY <2>1, <2>2, <2>3, BooksKept
  <2> QED
    BY <2>1, <2>4 DEF os2, c2
<1>13. Announced'
  <2>1. ASSUME ShortOnly, position > 0 PROVE "short" \in known
    BY <1>1, <2>1 DEF Announced
  <2>2. ASSUME ShortOnly, position = 0, NEW n \in 1..Len(orders'),
               orders'[n].trade \in listed', orders'[n].leg = "create", orders'[n].filled > 0,
               Learning(trade'[orders'[n].trade])
        PROVE  GoneAfter(channel', n)
    <3> DEFINE s == orders[n].trade
               u == trade[s]
    <3>1. /\ n \in 1..Len(orders) /\ orders'[n].trade = s
          /\ orders[n].leg = "create" /\ orders[n].filled > 0
      BY <1>5, <2>2
    <3>2. s \in Trades /\ s \in listed /\ (r.kind = "gone" => u.e = 0) /\ Learning(u)
      BY <1>11, <2>2, <3>1
    <3>3. GoneAfter(channel, n)
      BY <1>1, <2>2, <3>1, <3>2 DEF Announced
    <3>4. ASSUME r.kind = "gone" PROVE \E i \in 1..Len(channel) : Executes(channel[i], n)
      <4>1. Books(u, s, orders, channel) /\ Named(u, s, orders) /\ u.e = 0
        BY <1>1, <3>2, <3>4 DEF ListedBooks, Placed
      <4>2. PICK m \in 1..Len(orders) :
              /\ orders[m].trade = s /\ orders[m].leg = "create"
              /\ \A i \in 1..Len(orders) : orders[i].trade = s /\ orders[i].leg = "create" => i = m
        BY <4>1 DEF Books, Core, Entered
      <4>3. m = n
        BY <3>1, <4>2
      <4>4. u.oid["create"] # None
        BY <3>2, <4>1 DEF Learning
      <4>5. u.oid["create"] = n
        <5>1. "create" \in Legs
          BY DEF Legs
        <5>2. u.oid["create"] \in 1..Len(orders) /\ orders[u.oid["create"]].trade = s
              /\ orders[u.oid["create"]].leg = "create"
          BY <4>1, <4>4, <5>1 DEF Named
        <5> QED
          BY <4>2, <4>3, <5>2
      <4>6. LegOK(u, "create", orders, channel)
        BY <4>1 DEF Books, Legs
      <4>7. \/ u.e = orders[n].filled
            \/ \E i \in 1..Len(channel) : Executes(channel[i], n) /\ channel[i].cum = orders[n].filled
        BY <4>4, <4>5, <4>6 DEF LegOK, Counted
      <4> QED
        BY <3>1, <4>1, <4>7
    <3>5. GoneAfter(d, n)
      BY <1>1, <1>2, <3>3, <3>4, GoneLater
    <3> QED
      BY <1>9, <3>5
  <2> QED
    BY <1>2, <2>1, <2>2 DEF Announced, ShortOnly
<1> QED
  BY <1>6, <1>7, <1>12, <1>13 DEF MarginInv

-----------------------------------------------------------------------------
(***************************************************************************)
(* The theorems.                                                           *)
(***************************************************************************)

LEMMA MarginStep == ASSUME MarginInv, [Next]_vars PROVE MarginInv'
<1>1. CASE UNCHANGED vars
  <2>1. UNCHANGED <<dir, trade, listed, orders, position, outside, known, channel>>
    BY <1>1 DEF vars
  <2>2. TypeOK' /\ Placed' /\ ListedBooks' /\ Announced'
    BY <2>1 DEF MarginInv, TypeOK, Placed, ListedBooks, Announced, ShortOnly
  <2> QED
    BY <2>2 DEF MarginInv
<1>2. CASE \E t \in Trades : Strategy(t)
  BY <1>2, OpenStep, CancelOpenStep, ModifyExitStep, UpdateDirtyStep, CloseStep DEF Strategy
<1>3. CASE Signals
  BY <1>3, DeliverOrderStep, DeliverPositionStep, CleanupTradesStep DEF Signals
<1>4. CASE Exchange
  BY <1>4, ClosePositionStep, FillStep, ExpireStep, CancelEntryStep DEF Exchange
<1> QED
  BY <1>1, <1>2, <1>3, <1>4 DEF Next

LEMMA MarginAlways == Spec => []MarginInv
<1>1. Init => MarginInv
  BY InitMargin
<1>2. MarginInv /\ [Next]_vars => MarginInv'
  BY MarginStep
<1> QED
  BY <1>1, <1>2, PTL DEF Spec

\* Every report and every operation leaves the fields of the trades, the orders
\* and the reports in their types: no quantity becomes negative.
THEOREM MarginTyped == Spec => []TypeOK
<1>1. MarginInv => TypeOK
  BY DEF MarginInv
<1> QED
  BY <1>1, MarginAlways, PTL

\* What the orders of some legs executed is a number.
LEMMA TotalCounts ==
    ASSUME NEW t, NEW os, OrdersOK(os), NEW legs
    PROVE  TotalOf(os, t, legs) \in Int
<1> DEFINE R == {m \in DOMAIN os : os[m].trade = t /\ os[m].leg \in legs}
           f == [m \in DOMAIN os |-> os[m].filled]
           g == [m \in R |-> os[m].filled]
<1>1. os \in Seq(Order) /\ DOMAIN os = 1..Len(os) /\ Len(os) \in Nat
  BY DEF OrdersOK
<1>2. \A m \in DOMAIN os : os[m].filled \in Int
  BY <1>1, OrderFacts
<1>3. IsFiniteSet(R)
  <2>1. IsFiniteSet(1..Len(os)) /\ R \subseteq 1..Len(os)
    BY <1>1, FS_Interval
  <2> QED
    BY <2>1, FS_Subset
<1>4. g \in [R -> Int] /\ \A m \in R : f[m] = g[m]
  BY <1>2
<1>5. TotalOf(os, t, legs) = Sum(f, R)
  BY DEF TotalOf
<1> HIDE DEF R, f, g
<1>6. Sum(f, R) = Sum(g, R)
  BY <1>4, SumSame
<1>7. Sum(g, R) \in Int
  BY <1>3, <1>4, SumElement
<1> QED
  BY <1>5, <1>6, <1>7

\* What the entry orders of a trade executed is what its only one did.
LEMMA EntryTotal ==
    ASSUME NEW t, NEW os, OrdersOK(os), NEW m \in 1..Len(os),
           os[m].trade = t, os[m].leg = "create",
           \A n \in 1..Len(os) : os[n].trade = t /\ os[n].leg = "create" => n = m
    PROVE  TotalOf(os, t, {"create"}) = os[m].filled
<1>1. /\ DOMAIN os = 1..Len(os) /\ os[m].filled \in Nat
  BY OrderFacts
<1> DEFINE f == [n \in DOMAIN os |-> os[n].filled]
           R == {n \in DOMAIN os : os[n].trade = t /\ os[n].leg \in {"create"}}
           g == [n \in {m} |-> os[m].filled]
<1>2. R = {m}
  BY <1>1
<1>3. TotalOf(os, t, {"create"}) = Sum(f, R)
  BY DEF TotalOf
<1>4. \A n \in {m} : f[n] = g[n]
  BY <1>1
<1>5. g \in [{m} -> Int] /\ g[m] = os[m].filled
  BY <1>1
<1> HIDE DEF f, g, R
<1>6. Sum(f, {m}) = Sum(g, {m})
  BY <1>4, SumSame
<1>7. IsFiniteSet({m}) /\ {m} \in SUBSET {m} /\ {m} \ {m} = {}
  BY FS_Singleton
<1>8. {} \in SUBSET {m}
  OBVIOUS
<1>9. Sum(g, {}) = 0
  BY <1>5, <1>7, <1>8, SumElement
<1>10. Sum(g, {m}) = g[m] + Sum(g, {m} \ {m})
  BY <1>5, <1>7, SumElement
<1>11. Sum(g, {m} \ {m}) = 0
  BY <1>7, <1>9
<1>12. g[m] \in Int
  BY <1>5
<1>13. Sum(g, {m}) = g[m]
  <2> DEFINE gm == g[m]
             all == Sum(g, {m})
             rest == Sum(g, {m} \ {m})
  <2>1. gm \in Int /\ rest = 0 /\ all = gm + rest
    BY <1>10, <1>11, <1>12
  <2> HIDE DEF gm, all, rest
  <2>2. all = gm
    BY <2>1
  <2> QED
    BY <2>2 DEF gm, all
<1>14. Sum(f, R) = Sum(f, {m})
  BY <1>2
<1> QED
  BY <1>3, <1>5, <1>6, <1>13, <1>14

\* A leg that still waits for an execution names an order whose report is on its way.
LEMMA BooksBalance ==
    ASSUME NEW u \in Trade, ~u.blind, NEW t \in Trades, NEW os, NEW c, OrdersOK(os),
           Reports(c, os), Named(u, t, os), Books(u, t, os, c),
           \A i \in 1..Len(c) : c[i].kind = "traded" => os[c[i].id].trade # t
    PROVE  u.e = TotalOf(os, t, {"create"}) /\ u.x = TotalOf(os, t, ExitLegs)
<1>1. /\ os \in Seq(Order) /\ Len(os) \in Nat /\ DOMAIN os = 1..Len(os)
  BY DEF OrdersOK
<1>2. ASSUME NEW l \in Legs, u.oid[l] # None PROVE Counted(u, l) = os[u.oid[l]].filled
  <2>1. os[u.oid[l]].trade = t
    BY <1>2 DEF Named
  <2>2. \A i \in 1..Len(c) : ~Executes(c[i], u.oid[l])
    BY <2>1 DEF Executes
  <2>3. LegOK(u, l, os, c)
    BY DEF Books
  <2> QED
    BY <1>2, <2>2, <2>3 DEF LegOK
<1>3. u.e \in Nat /\ u.x \in Nat /\ \A l \in ExitLegs : u.exec[l] \in Nat
  BY TradeFacts
<1>4. "create" \in Legs /\ "stop" \in ExitLegs /\ "limit" \in ExitLegs /\ ExitLegs \subseteq Legs
      /\ "create" \notin ExitLegs
  BY DEF Legs, ExitLegs
<1>5. ASSUME NEW l \in ExitLegs PROVE Uncounted(u, l, os) = 0
  <2>1. CASE u.oid[l] = None
    BY <2>1 DEF Uncounted
  <2>2. CASE u.oid[l] # None
    <3>1. os[u.oid[l]].filled = u.exec[l]
      BY <1>2, <1>4, <2>2 DEF Counted
    <3> QED
      BY <1>3, <2>2, <3>1 DEF Uncounted
  <2> QED
    BY <2>1, <2>2
<1>6. u.x = TotalOf(os, t, ExitLegs)
  <2>1. Exited(u, t, os)
    BY DEF Books, Core
  <2>2. TotalOf(os, t, ExitLegs) = u.x + 0 + 0
    BY <1>4, <1>5, <2>1 DEF Exited
  <2> QED
    BY <1>3, <2>2
<1>7. u.e = TotalOf(os, t, {"create"})
  <2>1. PICK m \in 1..Len(os) : /\ os[m].trade = t /\ os[m].leg = "create"
                                /\ \A n \in 1..Len(os) : os[n].trade = t /\ os[n].leg = "create" => n = m
                                /\ u.e <= os[m].filled
                                /\ u.oid["create"] = None => u.e = os[m].filled
    BY DEF Books, Core, Entered
  <2>2. u.e = os[m].filled
    <3>1. CASE u.oid["create"] = None
      BY <2>1, <3>1
    <3>2. CASE u.oid["create"] # None
      <4>1. u.oid["create"] = m
        BY <1>4, <2>1, <3>2 DEF Named
      <4> QED
        BY <1>2, <1>4, <3>2, <4>1 DEF Counted
    <3> QED
      BY <3>1, <3>2
  <2>3. TotalOf(os, t, {"create"}) = os[m].filled
    BY <2>1, EntryTotal
  <2> QED
    BY <2>2, <2>3
<1> QED
  BY <1>6, <1>7

\* Whatever the calls answer: once the reports of its executions are served, a trade
\* in the list knows exactly what its orders executed, whether it learnt it from a
\* report, from order_info after a cancel, or from both.  The trades one of whose
\* orders was given up without an answer of order_info on it are left out.
THEOREM MarginBooks == Spec => []BooksMatch
<1>1. ASSUME MarginInv PROVE BooksMatch
  <2> SUFFICES ASSUME NEW t \in listed, ~Pending(t), ~trade[t].blind
               PROVE  trade[t].e = Total(t, {"create"}) /\ trade[t].x = Total(t, ExitLegs)
    BY DEF BooksMatch
  <2>1. /\ t \in Trades /\ trade[t] \in Trade /\ OrdersOK(orders) /\ Reports(channel, orders)
        /\ Named(trade[t], t, orders) /\ Books(trade[t], t, orders, channel)
        /\ channel \in Seq(Report)
    BY <1>1 DEF MarginInv, TypeOK, Placed, ListedBooks
  <2>2. \A i \in 1..Len(channel) : channel[i].kind = "traded" => orders[channel[i].id].trade # t
    BY <2>1 DEF Pending
  <2> DEFINE u == trade[t]
             os == orders
             c == channel
  <2>3. /\ u \in Trade /\ ~u.blind /\ OrdersOK(os) /\ Reports(c, os)
        /\ Named(u, t, os) /\ Books(u, t, os, c)
        /\ \A i \in 1..Len(c) : c[i].kind = "traded" => os[c[i].id].trade # t
    BY <2>1, <2>2
  <2> HIDE DEF u, os, c
  <2>4. u.e = TotalOf(os, t, {"create"}) /\ u.x = TotalOf(os, t, ExitLegs)
    BY <2>1, <2>3, BooksBalance
  <2> QED
    BY <2>4 DEF u, os, c, Total
<1>2. MarginInv => BooksMatch
  BY <1>1
<1> QED
  BY <1>2, MarginAlways, PTL

\* Whatever the calls answer, an execution is not counted twice, from order_info
\* after a cancel and from its report: no trade in the list counts more than what
\* its entry order, and its exit orders together, executed.
THEOREM MarginNeverMore == Spec => []NeverMore
<1>1. ASSUME MarginInv PROVE NeverMore
  <2> SUFFICES ASSUME NEW t \in listed
               PROVE  trade[t].e <= Total(t, {"create"}) /\ trade[t].x <= Total(t, ExitLegs)
    BY DEF NeverMore
  <2> DEFINE u == trade[t]
             os == orders
             a == Uncounted(u, "stop", os)
             b == Uncounted(u, "limit", os)
             k == TotalOf(os, t, ExitLegs)
  <2>1. /\ t \in Trades /\ u \in Trade /\ OrdersOK(os) /\ Named(u, t, os)
        /\ Books(u, t, os, channel)
    BY <1>1 DEF MarginInv, TypeOK, Placed, ListedBooks
  <2>2. u.x \in Nat /\ \A l \in ExitLegs : u.exec[l] \in Nat
    BY <2>1, TradeFacts
  <2> HIDE DEF u, os
  <2>3. PICK m \in 1..Len(os) : /\ os[m].trade = t /\ os[m].leg = "create"
                                /\ \A n \in 1..Len(os) : os[n].trade = t /\ os[n].leg = "create" => n = m
                                /\ u.e <= os[m].filled
    BY <2>1 DEF Books, Core, Entered
  <2>4. u.e <= TotalOf(os, t, {"create"})
    BY <2>1, <2>3, EntryTotal
  <2>5. ASSUME NEW l \in ExitLegs PROVE Uncounted(u, l, os) \in Nat
    <3>1. CASE u.oid[l] = None
      BY <3>1 DEF Uncounted
    <3>2. CASE u.oid[l] # None
      <4>1. l \in Legs /\ l # "create"
        BY DEF Legs, ExitLegs
      <4>2. u.oid[l] \in 1..Len(os) /\ LegOK(u, l, os, channel)
        BY <2>1, <3>2, <4>1 DEF Named, Books
      <4>3. u.exec[l] <= os[u.oid[l]].filled
        BY <3>2, <4>1, <4>2 DEF LegOK, Counted
      <4>4. os[u.oid[l]].filled \in Nat /\ u.exec[l] \in Nat
        BY <2>1, <2>2, <4>2, OrderFacts
      <4> QED
        BY <3>2, <4>3, <4>4 DEF Uncounted
    <3> QED
      BY <3>1, <3>2
  <2>6. a \in Nat /\ b \in Nat
    BY <2>5 DEF ExitLegs
  <2>7. u.x + a + b <= k
    BY <2>1 DEF Books, Core, Exited
  <2>8. k \in Int
    BY <2>1, TotalCounts
  <2> HIDE DEF a, b, k
  <2>9. u.x <= k
    BY <2>2, <2>6, <2>7, <2>8
  <2> QED
    BY <2>4, <2>9 DEF u, os, k, Total
<1>2. MarginInv => NeverMore
  BY <1>1
<1> QED
  BY <1>2, MarginAlways, PTL

\* update_dirty and the signals never leave an exit order for less than what the
\* trade counts it holds, once its reports are served, whatever call fails: it is
\* replaced, or covers the rest.
THEOREM MarginExitsCover == Spec => []ExitCovers
<1>1. ASSUME MarginInv PROVE ExitCovers
  <2> SUFFICES ASSUME NEW t \in listed, NEW l \in ExitLegs,
                      ~Pending(t), ~trade[t].dirty, IsActive(trade[t]), ~trade[t].closing,
                      trade[t].oid[l] # None, ~Emptied(t)
               PROVE  orders[trade[t].oid[l]].qty - orders[trade[t].oid[l]].filled
                        >= trade[t].e - trade[t].x
    BY DEF ExitCovers
  <2>1. /\ t \in Trades /\ trade[t] \in Trade /\ channel \in Seq(Report)
        /\ Named(trade[t], t, orders) /\ Books(trade[t], t, orders, channel)
    BY <1>1 DEF MarginInv, TypeOK, Placed, ListedBooks
  <2>2. ~EmptiedOf(orders, t)
    BY DEF Emptied, EmptiedOf
  <2>3. Covering(trade[t])
    BY <2>1, <2>2 DEF Books, Core
  <2>4. trade[t].qty[l] - trade[t].exec[l] >= trade[t].e - trade[t].x
    BY <2>3 DEF Covering
  <2>5. l \in Legs /\ l # "create"
    BY DEF Legs, ExitLegs
  <2>6. orders[trade[t].oid[l]].trade = t
    BY <2>1, <2>5 DEF Named
  <2>7. \A i \in 1..Len(channel) : ~Executes(channel[i], trade[t].oid[l])
    BY <2>1, <2>6 DEF Pending, Executes
  <2>8. LegOK(trade[t], l, orders, channel)
    BY <2>1, <2>5 DEF Books
  <2>9. trade[t].qty[l] = orders[trade[t].oid[l]].qty /\ trade[t].exec[l] = orders[trade[t].oid[l]].filled
    BY <2>5, <2>7, <2>8 DEF LegOK, Counted
  <2> QED
    BY <2>4, <2>9
<1>2. MarginInv => ExitCovers
  BY <1>1
<1> QED
  BY <1>2, MarginAlways, PTL

\* When every trade is short, the watcher tells of the end of the position: once
\* its reports are served, no trade believes it holds a part of what is gone.
THEOREM NoGhostLeft ==
  ASSUME ShortOnly
  PROVE  Spec => []NoGhost
<1>1. ASSUME MarginInv PROVE NoGhost
  <2> SUFFICES ASSUME position = 0, channel = <<>>, NEW t \in listed, IsActive(trade[t])
               PROVE  trade[t].x >= trade[t].e
    BY DEF NoGhost
  <2>1. /\ t \in Trades /\ trade[t] \in Trade /\ OrdersOK(orders)
        /\ Books(trade[t], t, orders, channel)
    BY <1>1 DEF MarginInv, TypeOK, Placed, ListedBooks
  <2>2. trade[t].e \in Nat /\ trade[t].e > 0
    <3>1. trade[t].e > 0
      BY <2>1 DEF Books, Core, States, IsActive
    <3> QED
      BY <2>1, <3>1, TradeFacts
  <2>3. /\ Learning(trade[t])
        /\ \E m \in 1..Len(orders) : /\ orders[m].trade = t /\ orders[m].leg = "create"
                                     /\ trade[t].e <= orders[m].filled
    BY <2>1, <2>2 DEF Books, Core, Entered, Learning
  <2> PICK m \in 1..Len(orders) : /\ orders[m].trade = t /\ orders[m].leg = "create"
                                  /\ trade[t].e <= orders[m].filled
    BY <2>3
  <2>4. orders[m].filled \in Nat /\ orders[m].filled > 0
    <3>1. orders[m].filled \in Nat
      BY <2>1, OrderFacts
    <3> QED
      BY <2>2, <2>3, <3>1
  <2>5. GoneAfter(channel, m)
    BY <1>1, <2>3, <2>4 DEF MarginInv, Announced
  <2> QED
    BY <2>5 DEF GoneAfter
<1>2. MarginInv => NoGhost
  BY <1>1
<1> QED
  BY <1>2, MarginAlways, PTL
=============================================================================
