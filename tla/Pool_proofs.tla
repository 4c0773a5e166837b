---------------------------- MODULE Pool_proofs ----------------------------
(***************************************************************************)
(* A pool of any number of endpoints, names and records, with any settings *)
(* and any number of events: its plans are eligible while they are         *)
(* current, the records it manages are those of its assignments, and it    *)
(* implements module Publishing.                                           *)
(*                                                                         *)
(* The first invariant, EligibleInv, adds to the property that revisions   *)
(* only grow: what changes an endpoint makes the plans stale, or stands    *)
(* half-way.  The second, ZoneInv, relates the rows of a name, its         *)
(* assignments, the records at the provider and the steps that are still   *)
(* to run.  What it says of one assignment for each managed record, and of *)
(* a record that stays, it says of the names of which no plan has reduced  *)
(* several records to one: the first step of such a plan drops the         *)
(* assignments of the records that its later steps delete.                 *)
(*                                                                         *)
(* One lemma per group of actions says what a step does to each of the     *)
(* parts: ...Type to the types, ...Keeps to revisions and plans, ...Zone   *)
(* to records, and ...Kept to the promise.                                 *)
(***************************************************************************)
EXTENDS Pool, FiniteSetTheorems, TLAPS

-----------------------------------------------------------------------------
(* Orders of finite sets.                                                  *)

Orders(R, S) ==
  /\ \A e \in S : <<e, e>> \notin R
  /\ \A e, f \in S : e # f => <<e, f>> \in R \/ <<f, e>> \in R
  /\ \A e, f, g \in S : <<e, f>> \in R /\ <<f, g>> \in R => <<e, g>> \in R

Less(S) == {p \in S \X S : p[1] < p[2]}

Before(R, S, e) == {f \in S : <<f, e>> \in R}

\* A finite set in a strict total order has, for each k below its size, an
\* element with k others before it.
LEMMA Ranks ==
  ASSUME NEW S, IsFiniteSet(S), NEW R, Orders(R, S)
  PROVE  \A k \in 0 .. Cardinality(S) - 1 : \E e \in S : Cardinality(Before(R, S, e)) = k
<1> DEFINE Below(e) == {f \in S : <<f, e>> \in R}
           n == Cardinality(S)
           T == 0 .. n - 1
           rank == [e \in S |-> Cardinality(Below(e))]
<1>1. n \in Nat
  BY FS_CardinalityType
<1>2. ASSUME NEW e \in S
      PROVE  IsFiniteSet(Below(e)) /\ Cardinality(Below(e)) \in T
  <2>1. Below(e) \in SUBSET S /\ Below(e) # S
    BY DEF Orders
  <2>2. IsFiniteSet(Below(e)) /\ Cardinality(Below(e)) <= n /\ Cardinality(Below(e)) # n
    BY <2>1, FS_Subset
  <2>3. Cardinality(Below(e)) \in Nat
    BY <2>2, FS_CardinalityType
  <2>4. QED BY <2>2, <2>3, <1>1
<1>3. ASSUME NEW e \in S, NEW f \in S, <<e, f>> \in R
      PROVE  Cardinality(Below(e)) # Cardinality(Below(f))
  <2>1. Below(e) \in SUBSET Below(f) /\ e \in Below(f) /\ e \notin Below(e)
    BY <1>3 DEF Orders
  <2>2. IsFiniteSet(Below(f))
    BY <1>2
  <2>3. Cardinality(Below(f)) = Cardinality(Below(e)) => Below(f) = Below(e)
    BY <2>1, <2>2, FS_Subset
  <2>4. QED BY <2>1, <2>3
<1>4. rank \in Injection(S, T)
  <2>1. rank \in [S -> T]
    BY <1>2
  <2>2. ASSUME NEW e \in S, NEW f \in S, rank[e] = rank[f], e # f
        PROVE  FALSE
    <3>1. Cardinality(Below(e)) = Cardinality(Below(f))
      BY <2>2
    <3>2. CASE <<e, f>> \in R
      BY <3>1, <3>2, <1>3
    <3>3. CASE <<f, e>> \in R
      BY <3>1, <3>3, <1>3
    <3>4. QED BY <2>2, <3>2, <3>3 DEF Orders
  <2>3. QED BY <2>1, <2>2 DEF Injection, IsInjective
<1>5. IsFiniteSet(T) /\ Cardinality(T) = n
  <2> HIDE DEF n
  <2>1. 0 \in Int /\ n - 1 \in Int
    BY <1>1
  <2>2. IsFiniteSet(T) /\ Cardinality(T) = IF 0 > n - 1 THEN 0 ELSE n - 1 - 0 + 1
    BY <2>1, FS_Interval
  <2>3. QED BY <2>2, <1>1
<1>6. rank \in Surjection(S, T)
  BY <1>4, <1>5, FS_Injection
<1>7. \A k \in T : \E e \in S : rank[e] = k
  BY <1>6 DEF Surjection
<1>8. QED BY <1>7 DEF Before

LEMMA NumbersAreOrdered ==
  ASSUME NEW S, S \subseteq Nat
  PROVE  /\ Orders(Less(S), S)
         /\ \A e \in S : Before(Less(S), S, e) = {f \in S : f < e}
<1>1. /\ \A e \in S : <<e, e>> \notin Less(S)
      /\ \A e, f \in S : <<e, f>> \in Less(S) <=> e < f
  BY DEF Less
<1>2. Orders(Less(S), S)
  BY <1>1 DEF Orders
<1>3. \A e \in S : Before(Less(S), S, e) = {f \in S : f < e}
  BY <1>1 DEF Before
<1>4. QED BY <1>2, <1>3

LEMMA NumberRanks ==
  ASSUME NEW S, IsFiniteSet(S), Orders(Less(S), S),
         \A e \in S : Before(Less(S), S, e) = {f \in S : f < e}
  PROVE  \A k \in 0 .. Cardinality(S) - 1 : \E e \in S : Cardinality({f \in S : f < e}) = k
<1>1. \A k \in 0 .. Cardinality(S) - 1 : \E e \in S : Cardinality(Before(Less(S), S, e)) = k
  BY Ranks
<1>2. QED BY <1>1

LEMMA EndpointsAreFinite ==
  ASSUME NEW S \in SUBSET Endpoint
  PROVE  IsFiniteSet(S) /\ Cardinality(S) \in Nat /\ (S # {} => Cardinality(S) > 0)
<1>1. IsFiniteSet(Endpoint)
  BY StrategyAssumption, FS_Interval DEF Endpoint
<1>2. IsFiniteSet(S)
  BY <1>1, FS_Subset
<1>3. Cardinality(S) \in Nat
  BY <1>2, FS_CardinalityType
<1>4. QED BY <1>2, <1>3, FS_EmptySet

\* Nth(S, k) is an element of S while there are more than k.
LEMMA NthIsMember ==
  ASSUME NEW S \in SUBSET Endpoint, NEW k \in 0 .. Cardinality(S) - 1
  PROVE  Nth(S, k) \in S
<1>1. IsFiniteSet(S) /\ S \subseteq Nat
  BY EndpointsAreFinite, StrategyAssumption DEF Endpoint
<1>2. \A j \in 0 .. Cardinality(S) - 1 : \E e \in S : Cardinality({f \in S : f < e}) = j
  BY <1>1, NumbersAreOrdered, NumberRanks
<1>3. \E e \in S : Cardinality({f \in S : f < e}) = k
  BY <1>2
<1>4. QED BY <1>3 DEF Nth

\* A set of numbers that has a largest possible one has a least one.
LEMMA LeastElement ==
  ASSUME NEW N \in Nat, NEW S \in SUBSET (1 .. N), S # {}
  PROVE  \E e \in S : \A f \in S : e <= f
<1>1. IsFiniteSet(S) /\ S \subseteq Nat
  <2>1. IsFiniteSet(1 .. N)
    BY FS_Interval
  <2>2. IsFiniteSet(S)
    BY <2>1, FS_Subset
  <2>3. QED BY <2>2
<1>2. Cardinality(S) \in Nat /\ Cardinality(S) # 0
  BY <1>1, FS_CardinalityType, FS_EmptySet
<1>3. 0 \in 0 .. Cardinality(S) - 1
  BY <1>2
<1>4. \A k \in 0 .. Cardinality(S) - 1 : \E e \in S : Cardinality({f \in S : f < e}) = k
  BY <1>1, NumbersAreOrdered, NumberRanks
<1>5. PICK e \in S : Cardinality({f \in S : f < e}) = 0
  BY <1>3, <1>4
<1>6. {f \in S : f < e} \in SUBSET S
  OBVIOUS
<1>7. IsFiniteSet({f \in S : f < e})
  BY <1>1, <1>6, FS_Subset
<1>8. {f \in S : f < e} = {}
  BY <1>5, <1>7, FS_EmptySet
<1>9. QED BY <1>1, <1>8

\* Endpoints with their numbers of bindings are ordered as selectEndpoint does.
Better(c, e, d, f) == c < d \/ (c = d /\ e < f)

Fewer(S, count) == {p \in S \X S : Better(count[p[1]], p[1], count[p[2]], p[2])}

LEMMA BetterIsStrict ==
  ASSUME NEW c \in Nat, NEW e \in Nat
  PROVE  ~Better(c, e, c, e)
BY DEF Better

LEMMA BetterIsTotal ==
  ASSUME NEW c \in Nat, NEW e \in Nat, NEW d \in Nat, NEW f \in Nat
  PROVE  /\ e < f \/ f < e => Better(c, e, d, f) \/ Better(d, f, c, e)
         /\ ~Better(d, f, c, e) => c < d \/ (c = d /\ e <= f)
<1>1. c < d \/ c = d \/ d < c
  OBVIOUS
<1>2. e < f \/ f < e => Better(c, e, d, f) \/ Better(d, f, c, e)
  BY <1>1 DEF Better
<1>3. ASSUME ~(d < c), ~(d = c /\ f < e)
      PROVE  c < d \/ (c = d /\ e <= f)
  BY <1>1, <1>3
<1>4. QED BY <1>2, <1>3 DEF Better

LEMMA BetterIsTransitive ==
  ASSUME NEW b \in Nat, NEW c \in Nat, NEW d \in Nat,
         NEW e \in Nat, NEW f \in Nat, NEW g \in Nat,
         Better(b, e, c, f), Better(c, f, d, g)
  PROVE  Better(b, e, d, g)
BY DEF Better

LEMMA NumbersDiffer ==
  ASSUME NEW e \in Nat, NEW f \in Nat, e # f
  PROVE  e < f \/ f < e
OBVIOUS

LEMMA FewerIsBetter ==
  ASSUME NEW S, NEW count, NEW e \in S, NEW f \in S
  PROVE  <<e, f>> \in Fewer(S, count) <=> Better(count[e], e, count[f], f)
BY DEF Fewer

LEMMA LeastAssignedIsMember ==
  ASSUME NEW S \in SUBSET Endpoint, S # {}, NEW count \in [Endpoint -> Nat]
  PROVE  LeastAssigned(S, count) \in S
<1>1. IsFiniteSet(S) /\ Cardinality(S) \in Nat /\ Cardinality(S) > 0
  BY EndpointsAreFinite
<1>2. \A e \in S : count[e] \in Nat /\ e \in Nat
  BY StrategyAssumption DEF Endpoint
<1>3. Orders(Fewer(S, count), S)
  <2>1. \A e \in S : <<e, e>> \notin Fewer(S, count)
    BY <1>2, BetterIsStrict, FewerIsBetter, Zenon
  <2>2. \A e, f \in S : e # f =>
          <<e, f>> \in Fewer(S, count) \/ <<f, e>> \in Fewer(S, count)
    BY <1>2, NumbersDiffer, BetterIsTotal, FewerIsBetter, Zenon
  <2>3. ASSUME NEW e \in S, NEW f \in S, NEW g \in S,
               <<e, f>> \in Fewer(S, count), <<f, g>> \in Fewer(S, count)
        PROVE  <<e, g>> \in Fewer(S, count)
    <3>1. Better(count[e], e, count[f], f) /\ Better(count[f], f, count[g], g)
      BY <2>3, FewerIsBetter
    <3>2. Better(count[e], e, count[g], g)
      BY <1>2, <3>1, BetterIsTransitive, Zenon
    <3>3. QED BY <3>2, FewerIsBetter
  <2>4. QED BY <2>1, <2>2, <2>3 DEF Orders
<1>4. \A k \in 0 .. Cardinality(S) - 1 :
        \E e \in S : Cardinality(Before(Fewer(S, count), S, e)) = k
  BY <1>1, <1>3, Ranks
<1>5. PICK e \in S : Cardinality(Before(Fewer(S, count), S, e)) = 0
  BY <1>1, <1>4
<1>6. Before(Fewer(S, count), S, e) \in SUBSET S
  BY DEF Before
<1>7. Before(Fewer(S, count), S, e) = {}
  BY <1>1, <1>5, <1>6, FS_Subset, FS_EmptySet
<1>8. \A f \in S : ~Better(count[f], f, count[e], e)
  BY <1>7, FewerIsBetter DEF Before
<1>9. \A f \in S : count[e] < count[f] \/ (count[e] = count[f] /\ e <= f)
  BY <1>2, <1>8, BetterIsTotal, Zenon
<1>10. QED BY <1>9 DEF LeastAssigned

LEMMA FirstIsMember ==
  ASSUME NEW S \in SUBSET Endpoint, S # {}
  PROVE  First(S) \in S /\ \A f \in S : First(S) <= f
<1>1. \E e \in S : \A f \in S : e <= f
  BY LeastElement, StrategyAssumption DEF Endpoint
<1>2. QED BY <1>1 DEF First

LEMMA AfterCursorIsMember ==
  ASSUME NEW S \in SUBSET Endpoint, S # {}, NEW cursor
  PROVE  AfterCursor(S, cursor) \in S
<1>1. Cardinality(S) \in Nat /\ Cardinality(S) > 0
  BY EndpointsAreFinite
<1>2. {f \in S : f < cursor} \in SUBSET Endpoint
  OBVIOUS
<1>3. Cardinality({f \in S : f < cursor}) \in Nat
  BY <1>2, EndpointsAreFinite
<1>4. (Cardinality({f \in S : f < cursor}) + 1) % Cardinality(S) \in 0 .. Cardinality(S) - 1
  BY <1>1, <1>3
<1>5. 0 \in 0 .. Cardinality(S) - 1
  BY <1>1
<1>6. (IF cursor \in S THEN (Cardinality({f \in S : f < cursor}) + 1) % Cardinality(S) ELSE 0)
        \in 0 .. Cardinality(S) - 1
  BY <1>4, <1>5
<1>7. QED BY <1>6, NthIsMember DEF AfterCursor

-----------------------------------------------------------------------------
(* The strategy chooses candidates.                                        *)

Tally == [count : [Endpoint -> Nat],
          cursors : [SUBSET Endpoint -> Endpoint \cup {NoEndpoint}]]

LEMMA CandidatesType ==
  ASSUME NEW ctx, NEW b \in Binding
  PROVE  Candidates(ctx, b) \in SUBSET Endpoint
BY DEF Candidates

LEMMA SelectEndpointIsMember ==
  ASSUME NEW ctx \in Context, NEW b \in Binding, NEW S \in SUBSET Endpoint, S # {},
         NEW w \in Tally
  PROVE  SelectEndpoint(ctx, b, S, w) \in S
<1>1. Cardinality(S) \in Nat /\ Cardinality(S) > 0
  BY EndpointsAreFinite
<1>2. ctx.hash[b] \in Nat /\ w.count \in [Endpoint -> Nat]
  BY DEF Context, Tally
<1>3. ctx.hash[b] % Cardinality(S) \in 0 .. Cardinality(S) - 1
  BY <1>1, <1>2
<1>4. First(S) \in S /\ LeastAssigned(S, w.count) \in S /\ AfterCursor(S, w.cursors[S]) \in S
  BY <1>2, FirstIsMember, LeastAssignedIsMember, AfterCursorIsMember
<1>5. Nth(S, ctx.hash[b] % Cardinality(S)) \in S
  BY <1>3, NthIsMember
<1>6. ctx.selection \in {"ordered", "least_assigned", "round_robin", "random"}
  BY DEF Context
<1>7. QED BY <1>4, <1>5, <1>6 DEF SelectEndpoint

LEMMA ReleasedType ==
  ASSUME NEW ctx, NEW b, NEW w \in Tally
  PROVE  Released(ctx, b, w) \in Tally
<1> DEFINE count == [e \in Endpoint |->
             IF e \in ctx.applied[b] /\ w.count[e] > 0 THEN w.count[e] - 1 ELSE w.count[e]]
<1>1. \A e \in Endpoint : w.count[e] \in Nat
  BY DEF Tally
<1>2. count \in [Endpoint -> Nat]
  BY <1>1
<1>3. Released(ctx, b, w) = [w EXCEPT !.count = count]
  BY DEF Released
<1> HIDE DEF count
<1>4. QED BY <1>2, <1>3 DEF Tally

LEMMA SelectedIsCandidate ==
  ASSUME NEW ctx \in Context, NEW b \in Binding, NEW w \in Tally, Candidates(ctx, b) # {}
  PROVE  Selected(ctx, b, w) \in Candidates(ctx, b)
<1>1. SelectEndpoint(ctx, b, Candidates(ctx, b), Released(ctx, b, w)) \in Candidates(ctx, b)
  BY CandidatesType, ReleasedType, SelectEndpointIsMember
<1>2. RecoversOriginal(ctx, b) => ctx.original[b] \in Candidates(ctx, b)
  BY DEF RecoversOriginal
<1>3. CurrentHealthy(ctx, b) =>
        First(ctx.applied[b] \cap Candidates(ctx, b)) \in Candidates(ctx, b)
  <2>1. ctx.applied[b] \cap Candidates(ctx, b) \in SUBSET Endpoint
    BY CandidatesType
  <2>2. QED BY <2>1, FirstIsMember DEF CurrentHealthy
<1>4. QED BY <1>1, <1>2, <1>3 DEF Selected

LEMMA AfterBindingType ==
  ASSUME NEW ctx \in Context, NEW b \in Binding, NEW w \in Tally
  PROVE  AfterBinding(ctx, b, w) \in Tally
<1>1. CASE ~Selects(ctx, b)
  BY <1>1 DEF AfterBinding
<1>2. CASE Selects(ctx, b)
  <2> DEFINE e == Selected(ctx, b, w)
             count == [Released(ctx, b, w).count EXCEPT ![e] = @ + 1]
             cursors == IF ctx.selection = "round_robin"
                        THEN [w.cursors EXCEPT ![Candidates(ctx, b)] = e] ELSE w.cursors
  <2>1. e \in Endpoint
    BY <1>2, SelectedIsCandidate, CandidatesType DEF Selects
  <2>2. Released(ctx, b, w).count \in [Endpoint -> Nat]
    BY ReleasedType DEF Tally
  <2>3. w.cursors \in [SUBSET Endpoint -> Endpoint \cup {NoEndpoint}]
    BY DEF Tally
  <2>4. AfterBinding(ctx, b, w) = [count |-> count, cursors |-> cursors]
    BY <1>2 DEF AfterBinding
  <2> HIDE DEF e
  <2>5. count \in [Endpoint -> Nat]
    <3>1. \A f \in Endpoint : Released(ctx, b, w).count[f] + 1 \in Nat
      BY <2>2
    <3>2. QED BY <2>1, <2>2, <3>1
  <2>6. cursors \in [SUBSET Endpoint -> Endpoint \cup {NoEndpoint}]
    BY <2>1, <2>3, CandidatesType
  <2> HIDE DEF count, cursors
  <2>7. QED BY <2>4, <2>5, <2>6 DEF Tally
<1>3. QED BY <1>1, <1>2

\* Working is defined by recursion on the bindings; the tallies before each.
StartTally(ctx) ==
  [count |-> [e \in Endpoint |-> Cardinality({a \in ctx.bound : e \in ctx.applied[a]})],
   cursors |-> ctx.cursors]

TallyAt(ctx, g, b) ==
  IF b = 1 THEN StartTally(ctx) ELSE AfterBinding(ctx, b - 1, g[b - 1])

Tallies(ctx, g, n) == g \in [1 .. n -> Tally] /\ \A b \in 1 .. n : g[b] = TallyAt(ctx, g, b)

LEMMA StartTallyType ==
  ASSUME NEW ctx \in Context
  PROVE  StartTally(ctx) \in Tally
<1>1. IsFiniteSet(Binding)
  BY StrategyAssumption, FS_Interval DEF Binding
<1>2. ctx.bound \in SUBSET Binding /\ ctx.cursors \in [SUBSET Endpoint -> Endpoint \cup {NoEndpoint}]
  BY DEF Context
<1>3. ASSUME NEW e \in Endpoint
      PROVE  Cardinality({a \in ctx.bound : e \in ctx.applied[a]}) \in Nat
  <2>1. {a \in ctx.bound : e \in ctx.applied[a]} \in SUBSET Binding
    BY <1>2
  <2>2. IsFiniteSet({a \in ctx.bound : e \in ctx.applied[a]})
    BY <1>1, <2>1, FS_Subset
  <2>3. QED BY <2>2, FS_CardinalityType
<1>4. [e \in Endpoint |-> Cardinality({a \in ctx.bound : e \in ctx.applied[a]})]
        \in [Endpoint -> Nat]
  BY <1>3
<1>5. QED BY <1>2, <1>4 DEF StartTally, Tally

LEMMA TallyAtType ==
  ASSUME NEW ctx \in Context, NEW g, NEW b \in 1 .. BindingCount + 1,
         b # 1 => g[b - 1] \in Tally
  PROVE  TallyAt(ctx, g, b) \in Tally
<1>1. CASE b = 1
  BY <1>1, StartTallyType DEF TallyAt
<1>2. CASE b # 1
  <2>1. b - 1 \in Binding
    BY <1>2, StrategyAssumption DEF Binding
  <2>2. AfterBinding(ctx, b - 1, g[b - 1]) \in Tally
    BY <1>2, <2>1, AfterBindingType
  <2>3. QED BY <1>2, <2>2 DEF TallyAt
<1>3. QED BY <1>1, <1>2

LEMMA TalliesExist ==
  ASSUME NEW ctx \in Context
  PROVE  \A n \in 1 .. BindingCount + 1 : \E g : Tallies(ctx, g, n)
<1> DEFINE Bad == {n \in 1 .. BindingCount + 1 : ~\E g : Tallies(ctx, g, n)}
<1>1. SUFFICES ASSUME Bad # {} PROVE FALSE
  OBVIOUS
<1>2. BindingCount + 1 \in Nat
  BY StrategyAssumption
<1>3. PICK n \in Bad : \A m \in Bad : n <= m
  <2>1. Bad \in SUBSET (1 .. BindingCount + 1)
    OBVIOUS
  <2> HIDE DEF Bad
  <2>2. QED BY <1>1, <1>2, <2>1, LeastElement
<1>4. n \in 1 .. BindingCount + 1 /\ ~\E g : Tallies(ctx, g, n)
  OBVIOUS
<1>5. CASE n = 1
  <2> DEFINE g == [b \in 1 .. 1 |-> StartTally(ctx)]
  <2>1. g \in [1 .. 1 -> Tally]
    BY StartTallyType
  <2>2. \A b \in 1 .. 1 : g[b] = TallyAt(ctx, g, b)
    BY DEF TallyAt
  <2>3. QED BY <1>4, <1>5, <2>1, <2>2 DEF Tallies
<1>6. CASE n # 1
  <2>1. n - 1 \in 1 .. BindingCount + 1 /\ ~(n <= n - 1)
    BY <1>2, <1>4, <1>6
  <2>2. n - 1 \notin Bad
    BY <1>3, <2>1
  <2>3. PICK h : Tallies(ctx, h, n - 1)
    BY <2>1, <2>2
  <2>4. h \in [1 .. n - 1 -> Tally] /\ \A b \in 1 .. n - 1 : h[b] = TallyAt(ctx, h, b)
    BY <2>3 DEF Tallies
  <2> DEFINE g == [b \in 1 .. n |-> IF b = n THEN TallyAt(ctx, h, n) ELSE h[b]]
  <2>5. h[n - 1] \in Tally
    BY <1>2, <1>4, <1>6, <2>4
  <2>6. TallyAt(ctx, h, n) \in Tally
    BY <1>4, <2>5, TallyAtType
  <2>7. \A b \in 1 .. n : b # n => b \in 1 .. n - 1
    BY <1>4
  <2>8. g \in [1 .. n -> Tally]
    BY <2>4, <2>6, <2>7
  <2>9. ASSUME NEW b \in 1 .. n PROVE g[b] = TallyAt(ctx, g, b)
    <3>1. b # 1 => b - 1 \in 1 .. n /\ b - 1 # n
      BY <1>4
    <3>2. TallyAt(ctx, g, b) = TallyAt(ctx, h, b)
      BY <3>1 DEF TallyAt
    <3>3. QED BY <2>4, <2>7, <3>2
  <2>10. Tallies(ctx, g, n)
    BY <2>8, <2>9 DEF Tallies
  <2>11. QED BY <1>4, <2>10
<1>7. QED BY <1>5, <1>6

LEMMA WorkingType ==
  ASSUME NEW ctx \in Context
  PROVE  \A b \in 1 .. BindingCount + 1 : Working(ctx)[b] \in Tally
<1> DEFINE D == 1 .. BindingCount + 1
           W == Working(ctx)
<1>1. BindingCount + 1 \in D
  BY StrategyAssumption
<1>2. PICK h : Tallies(ctx, h, BindingCount + 1)
  BY <1>1, TalliesExist
<1>3. h = [b \in D |-> TallyAt(ctx, h, b)]
  BY <1>2 DEF Tallies
<1>4. W = [b \in D |-> TallyAt(ctx, W, b)]
  BY <1>3 DEF Working, TallyAt, StartTally
<1> HIDE DEF W
<1> DEFINE Bad == {b \in D : W[b] \notin Tally}
<1>5. SUFFICES ASSUME Bad # {} PROVE FALSE
  BY DEF W
<1>6. PICK b \in Bad : \A c \in Bad : b <= c
  <2>1. Bad \in SUBSET D /\ BindingCount + 1 \in Nat
    BY StrategyAssumption
  <2> HIDE DEF Bad
  <2>2. QED BY <1>5, <2>1, LeastElement
<1>7. b \in D /\ W[b] \notin Tally
  OBVIOUS
<1>8. b # 1 => b - 1 \in D /\ ~(b <= b - 1)
  BY <1>7, StrategyAssumption
<1>9. b # 1 => W[b - 1] \in Tally
  BY <1>6, <1>8
<1>10. TallyAt(ctx, W, b) \in Tally
  BY <1>7, <1>9, TallyAtType
<1>11. QED BY <1>4, <1>7, <1>10

\* A decision that is carried out publishes candidates, at least one.
LEMMA DecisionsChoose ==
  ASSUME NEW ctx \in Context, NEW b \in Binding
  PROVE  LET d == EvaluateStrategy(ctx)[b] IN
         /\ d.desired \in SUBSET Endpoint
         /\ d.reason # "none" => b \in ctx.bound
         /\ d.reason \notin {"none", "no_healthy_endpoint"} =>
              d.desired \subseteq Candidates(ctx, b) /\ d.desired # {}
<1> DEFINE w == Working(ctx)[b]
           d == EvaluateStrategy(ctx)[b]
<1>1. w \in Tally
  BY WorkingType, StrategyAssumption DEF Binding
<1> HIDE DEF w
<1>2. ctx.applied[b] \in SUBSET Endpoint
  BY DEF Context
<1>3. d = CASE b \notin ctx.bound -> NoDecision
            [] b \in ctx.bound /\ ctx.strategy = "healthy_set" -> SetDecision(ctx, b)
            [] OTHER -> SingleDecision(ctx, b, w)
  BY DEF EvaluateStrategy, w
<1> HIDE DEF d
<1>4. CASE b \notin ctx.bound
  BY <1>3, <1>4 DEF NoDecision, d
<1>5. CASE b \in ctx.bound /\ ctx.strategy = "healthy_set"
  <2>1. SetDesired(ctx, b) \subseteq Candidates(ctx, b)
    BY DEF SetDesired
  <2>2. d = SetDecision(ctx, b)
    BY <1>3, <1>5
  <2>3. \/ d = NoHealthyEndpoint(ctx, b)
        \/ d = NoDecision
        \/ d.desired = SetDesired(ctx, b) /\ SetDesired(ctx, b) # {}
    BY <2>2 DEF SetDecision
  <2>4. QED BY <1>2, <1>5, <2>1, <2>3, CandidatesType DEF NoHealthyEndpoint, NoDecision, d
<1>6. CASE b \in ctx.bound /\ ctx.strategy # "healthy_set"
  <2>1. d = SingleDecision(ctx, b, w)
    BY <1>3, <1>6
  <2>2. \/ d = NoHealthyEndpoint(ctx, b)
        \/ d = NoDecision
        \/ d.desired = {Selected(ctx, b, w)} /\ Candidates(ctx, b) # {}
    BY <2>1 DEF SingleDecision
  <2>3. Candidates(ctx, b) # {} => Selected(ctx, b, w) \in Candidates(ctx, b)
    BY <1>1, SelectedIsCandidate
  <2>4. QED BY <1>2, <1>6, <2>2, <2>3, CandidatesType DEF NoHealthyEndpoint, NoDecision, d
<1>7. QED BY <1>4, <1>5, <1>6

LEMMA NextCursorsType ==
  ASSUME NEW ctx \in Context
  PROVE  NextCursors(ctx) \in [SUBSET Endpoint -> Endpoint \cup {NoEndpoint}]
<1>1. Working(ctx)[BindingCount + 1] \in Tally
  BY WorkingType, StrategyAssumption
<1>2. QED BY <1>1 DEF NextCursors, Tally, Context

-----------------------------------------------------------------------------
(* Types.                                                                  *)

LEMMA Numbers ==
  /\ Endpoint \subseteq Nat \ {0} /\ Record \subseteq Nat \ {0} /\ Endpoint \subseteq Record
  /\ NoRecord \notin Record
  /\ \A e \in Endpoint : Versions[e] \in Nat \ {0} /\ 1 .. Versions[e] \subseteq Version
  /\ Version \subseteq Nat \ {0}
  /\ MaxEvents \in Nat
<1>1. EndpointCount \in Nat /\ RecordCount \in Nat /\ MaxEvents \in Nat
      /\ EndpointCount <= RecordCount /\ Versions \in [Endpoint -> Nat \ {0}]
  BY StrategyAssumption, PoolAssumption
<1>2. Endpoint \subseteq Nat \ {0} /\ Record \subseteq Nat \ {0} /\ Endpoint \subseteq Record
  BY <1>1 DEF Endpoint, Record
<1>3. \A e \in Endpoint : Versions[e] \in Nat \ {0} /\ 1 .. Versions[e] \subseteq Version
  BY <1>1 DEF Version
<1>4. Version \subseteq Nat \ {0}
  BY <1>1 DEF Version
<1>5. QED BY <1>1, <1>2, <1>3, <1>4 DEF NoRecord

\* No content is mistaken for its absence.
LEMMA RowsAreNot ==
  /\ NoRow \notin Content
  /\ \A row \in Row : row # NoRow /\ row.content \in Content /\ row.managed \in BOOLEAN
BY PoolAssumption DEF Row

LEMMA VersionType ==
  ASSUME NEW e \in Endpoint, NEW v \in Version \cup {0}, v < Versions[e]
  PROVE  v + 1 \in Version
<1>1. v \in Nat /\ Versions[e] \in Nat
  BY Numbers
<1>2. v + 1 \in 1 .. Versions[e]
  BY <1>1
<1>3. QED BY <1>2, Numbers

LEMMA OlderVersionType ==
  ASSUME NEW v \in Version \cup {0}, NEW u \in 1 .. v
  PROVE  u \in Version
<1>1. v # 0
  OBVIOUS
<1>2. PICK e \in Endpoint : v \in 1 .. Versions[e]
  BY <1>1 DEF Version
<1>3. Versions[e] \in Nat
  BY Numbers
<1>4. u \in 1 .. Versions[e]
  BY <1>2, <1>3
<1>5. QED BY <1>4, Numbers

LEMMA EventType ==
  ASSUME TypeOK, Event
  PROVE  events' \in 0 .. MaxEvents
BY Numbers DEF TypeOK, Event

LEMMA PoolRowType ==
  ASSUME NEW p \in PoolRow
  PROVE  /\ [p EXCEPT !.decision = @ + 1] \in PoolRow
         /\ [p EXCEPT !.decision = @ + 1].decision \in Revision
         /\ [p EXCEPT !.policy = @ + 1] \in PoolRow
         /\ \A setting \in Settings : [p EXCEPT !.setting = setting] \in PoolRow
         /\ \A enabled \in BOOLEAN : [p EXCEPT !.enabled = enabled] \in PoolRow
         /\ \A cursors \in [SUBSET Endpoint -> Endpoint \cup {NoEndpoint}] :
              [p EXCEPT !.cursors = cursors] \in PoolRow
<1>1. p.decision + 1 \in Revision /\ p.decision + 1 \in Nat /\ p.policy + 1 \in Revision
  BY DEF PoolRow, Revision
<1>2. /\ [p EXCEPT !.decision = @ + 1] \in PoolRow
      /\ [p EXCEPT !.decision = @ + 1].decision \in Revision
  BY <1>1 DEF PoolRow
<1>3. [p EXCEPT !.policy = @ + 1] \in PoolRow
  BY <1>1 DEF PoolRow
<1>4. /\ \A setting \in Settings : [p EXCEPT !.setting = setting] \in PoolRow
      /\ \A enabled \in BOOLEAN : [p EXCEPT !.enabled = enabled] \in PoolRow
  BY DEF PoolRow
<1>5. \A cursors \in [SUBSET Endpoint -> Endpoint \cup {NoEndpoint}] :
        [p EXCEPT !.cursors = cursors] \in PoolRow
  BY DEF PoolRow
<1>6. QED BY <1>2, <1>3, <1>4, <1>5

LEMMA BumpType ==
  ASSUME TypeOK
  PROVE  BumpPolicy \in PoolRow
BY PoolRowType DEF BumpPolicy, TypeOK

LEMMA DecideType ==
  ASSUME TypeOK, NEW p \in PoolRow, NEW trigger \in Trigger, NEW force \in BOOLEAN,
         Decide(p, trigger, force)
  PROVE  pool' \in PoolRow /\ intents' \subseteq Intent
<1> DEFINE next == [p EXCEPT !.decision = @ + 1]
<1>1. next \in PoolRow /\ next.decision \in Revision
  BY PoolRowType
<1>2. pool' = next /\ intents' = intents \cup {IntentOf(next, trigger, force)}
  BY DEF Decide
<1> HIDE DEF next
<1>3. next.policy \in Revision
  BY <1>1 DEF PoolRow
<1>4. IntentOf(next, trigger, force) \in Intent
  BY <1>1, <1>3 DEF IntentOf, Intent
<1>5. QED BY <1>1, <1>2, <1>4 DEF TypeOK

LEMMA AskType ==
  ASSUME TypeOK, NEW reconcile \in BOOLEAN, NEW force \in BOOLEAN, Ask(reconcile, force),
         pool' \in PoolRow, endpoint' \in [Endpoint -> EndpointRow],
         binding' \in [Binding -> BindingRow], assigned' \in [Binding -> Assignment]
  PROVE  TypeOK'
<1>1. events' \in 0 .. MaxEvents
  BY EventType DEF Ask
<1>2. request' \in [next : {"idle", "record", "enqueue"}, reconcile : BOOLEAN, force : BOOLEAN]
  BY DEF Ask
<1>3. UNCHANGED <<intents, jobs, ops, doubt, local, remote, sync, account, disturbed, narrowed, torn>>
  BY DEF Ask, plans, zone
<1>4. QED BY <1>1, <1>2, <1>3 DEF TypeOK

LEMMA EndpointRowType ==
  ASSUME TypeOK, NEW e \in Endpoint
  PROVE  /\ endpoint[e] \in EndpointRow
         /\ endpoint[e].version \in Version \cup {0} /\ endpoint[e].version \in Nat
         /\ endpoint[e].version < Versions[e] => endpoint[e].version + 1 \in Version
         /\ {"unknown", "healthy"} \subseteq Reached
<1>1. endpoint[e] \in EndpointRow
  BY DEF TypeOK
<1>2. endpoint[e].version \in Version \cup {0}
  BY <1>1 DEF EndpointRow
<1>3. endpoint[e].version \in Nat
  <2>1. \A v \in Version : v \in Nat
    BY Numbers
  <2>2. 0 \in Nat
    OBVIOUS
  <2>3. QED BY <1>2, <2>1, <2>2, Zenon
<1>4. {"unknown", "healthy"} \subseteq Reached
  BY PoolAssumption
<1>5. QED BY <1>1, <1>2, <1>3, <1>4, VersionType

LEMMA EndpointEdits ==
  ASSUME NEW row \in EndpointRow, NEW health \in Reached
  PROVE  /\ [row EXCEPT !.health = health] \in EndpointRow
         /\ \A lifecycle \in {"absent", "enabled", "disabled"} :
              /\ [row EXCEPT !.lifecycle = lifecycle] \in EndpointRow
              /\ [row EXCEPT !.lifecycle = lifecycle, !.health = health] \in EndpointRow
         /\ \A version \in Version :
              [row EXCEPT !.version = version, !.health = health] \in EndpointRow
BY DEF EndpointRow

LEMMA EndpointType ==
  ASSUME TypeOK, NEW e \in Endpoint, NEW row \in EndpointRow,
         endpoint' = [endpoint EXCEPT ![e] = row]
  PROVE  endpoint' \in [Endpoint -> EndpointRow]
<1>1. endpoint \in [Endpoint -> EndpointRow]
  BY DEF TypeOK
<1>2. QED BY <1>1

\* The parts of an assignment that a request or a plan sets.
LEMMA DesiredType ==
  ASSUME NEW a \in Assignment, NEW S \in SUBSET Endpoint
  PROVE  [a EXCEPT !.desired = S] \in Assignment
BY DEF Assignment

LEMMA UnassignedType == Unassigned \in Assignment
BY DEF Unassigned, Assignment

LEMMA BindingRowType ==
  ASSUME TypeOK, NEW b \in Binding
  PROVE  /\ binding[b] \in BindingRow /\ assigned[b] \in Assignment
         /\ assigned[b].desired \in SUBSET Endpoint /\ assigned[b].applied \in SUBSET Endpoint
         /\ assigned[b].record \in [Endpoint -> Record \cup {NoRecord}]
         /\ local[b] \in [Record -> Row \cup {NoRow}]
         /\ remote[b] \in [Record -> Content \cup {NoRow}]
         /\ doubt[b] \in SUBSET Step
BY DEF TypeOK, Assignment

LEMMA BoundType ==
  ASSUME NEW x \in BindingRow, NEW e \in Endpoint \cup {NoEndpoint}
  PROVE  /\ [x EXCEPT !.original = e] \in BindingRow
         /\ [x EXCEPT !.phase = "bound", !.original = e] \in BindingRow
BY DEF BindingRow

LEMMA EditType ==
  ASSUME TypeOK, Edit
  PROVE  TypeOK'
<1> USE DEF TypeOK
<1>1. ASSUME NEW setting \in Settings, UpdatePool(setting)
      PROVE  TypeOK'
  <2>1. pool' \in PoolRow
    BY <1>1, PoolRowType DEF UpdatePool
  <2>2. QED BY <1>1, <2>1, AskType DEF UpdatePool
<1>2. ASSUME Pause \/ Resume
      PROVE  TypeOK'
  <2>1. pool' \in PoolRow
    BY <1>2, PoolRowType DEF Pause, Resume
  <2>2. QED BY <1>2, <2>1, AskType DEF Pause, Resume
<1>3. ASSUME NEW e \in Endpoint, CreateEndpoint(e)
      PROVE  TypeOK'
  <2>1. endpoint[e].version + 1 \in Version /\ "unknown" \in Reached
    BY <1>3, EndpointRowType DEF CreateEndpoint
  <2>2. endpoint' \in [Endpoint -> EndpointRow]
    BY <1>3, <2>1 DEF CreateEndpoint, EndpointRow
  <2>3. QED BY <1>3, <2>2, AskType DEF CreateEndpoint
<1>4. ASSUME NEW e \in Endpoint, NEW lifecycle \in {"enabled", "disabled"},
             UpdateLifecycle(e, lifecycle)
      PROVE  TypeOK'
  <2>1. endpoint' \in [Endpoint -> EndpointRow]
    <3>1. endpoint' = [endpoint EXCEPT ![e] = [@ EXCEPT !.lifecycle = lifecycle]]
      BY <1>4 DEF UpdateLifecycle
    <3>2. [endpoint[e] EXCEPT !.lifecycle = lifecycle] \in EndpointRow
      BY EndpointRowType, EndpointEdits
    <3>3. QED BY <3>1, <3>2, EndpointType
  <2>2. QED BY <1>4, <2>1, AskType DEF UpdateLifecycle
<1>5. ASSUME NEW e \in Endpoint, NEW force \in BOOLEAN, UpdateAddress(e, force)
      PROVE  TypeOK'
  <2>1. endpoint[e].version + 1 \in Version /\ "unknown" \in Reached
    BY <1>5, EndpointRowType DEF UpdateAddress
  <2>2. endpoint' \in [Endpoint -> EndpointRow]
    <3>1. endpoint' = [endpoint EXCEPT ![e].version = @ + 1, ![e].health = "unknown"]
      BY <1>5 DEF UpdateAddress
    <3>2. endpoint' = [endpoint EXCEPT ![e] =
                         [@ EXCEPT !.version = endpoint[e].version + 1, !.health = "unknown"]]
      BY <3>1 DEF TypeOK
    <3>3. [endpoint[e] EXCEPT !.version = endpoint[e].version + 1, !.health = "unknown"]
            \in EndpointRow
      BY <2>1, EndpointRowType, EndpointEdits
    <3>4. QED BY <3>2, <3>3, EndpointType
  <2>3. QED BY <1>5, <2>2, AskType DEF UpdateAddress
<1>6. ASSUME NEW e \in Endpoint, DeleteEndpoint(e)
      PROVE  TypeOK'
  <2>1. "unknown" \in Reached
    BY PoolAssumption
  <2>2. endpoint' \in [Endpoint -> EndpointRow]
    <3>1. endpoint' = [endpoint EXCEPT ![e].lifecycle = "absent", ![e].health = "unknown"]
      BY <1>6 DEF DeleteEndpoint
    <3>2. endpoint' = [endpoint EXCEPT ![e] =
                         [@ EXCEPT !.lifecycle = "absent", !.health = "unknown"]]
      BY <3>1 DEF TypeOK
    <3>3. [endpoint[e] EXCEPT !.lifecycle = "absent", !.health = "unknown"] \in EndpointRow
      BY <2>1, EndpointRowType, EndpointEdits
    <3>4. QED BY <3>2, <3>3, EndpointType
  <2>3. \A a \in Assignment : [a EXCEPT !.record[e] = NoRecord] \in Assignment
    BY DEF Assignment
  <2>4. assigned' \in [Binding -> Assignment]
    BY <1>6, <2>3 DEF DeleteEndpoint
  <2>5. events' \in 0 .. MaxEvents /\ pool' \in PoolRow
    BY <1>6, EventType, BumpType DEF DeleteEndpoint
  <2>6. QED BY <1>6, <2>2, <2>4, <2>5 DEF DeleteEndpoint, plans, zone, asked
<1>7. ASSUME NEW b \in Binding, NEW e \in Endpoint \cup {NoEndpoint}, CreateBinding(b, e)
      PROVE  TypeOK'
  <2>1. binding' \in [Binding -> BindingRow]
    <3>1. binding' = [binding EXCEPT ![b] = [@ EXCEPT !.phase = "bound", !.original = e]]
      BY <1>7 DEF CreateBinding
    <3>2. QED BY <3>1, BoundType
  <2>2. assigned' \in [Binding -> Assignment]
    <3>1. assigned' = [assigned EXCEPT ![b].desired = {e} \ {NoEndpoint}]
      BY <1>7 DEF CreateBinding
    <3>2. {e} \ {NoEndpoint} \in SUBSET Endpoint
      OBVIOUS
    <3>3. [assigned[b] EXCEPT !.desired = {e} \ {NoEndpoint}] \in Assignment
      BY <3>2, BindingRowType, DesiredType
    <3>4. QED BY <3>1, <3>3 DEF TypeOK
  <2>3. QED BY <1>7, <2>1, <2>2, AskType DEF CreateBinding
<1>8. ASSUME NEW b \in Binding, NEW e \in Endpoint, NEW r \in Record, TakeOver(b, e, r)
      PROVE  TypeOK'
  <2>1. binding' \in [Binding -> BindingRow]
    <3>1. binding' = [binding EXCEPT ![b] = [@ EXCEPT !.phase = "bound", !.original = e]]
      BY <1>8 DEF TakeOver
    <3>2. QED BY <3>1, BoundType
  <2>2. [Unassigned.record EXCEPT ![e] = r] \in [Endpoint -> Record \cup {NoRecord}]
    BY DEF Unassigned
  <2>3. assigned' \in [Binding -> Assignment]
    BY <1>8, <2>2 DEF TakeOver, Assignment
  <2>4. local[b][r] \in Row
    BY <1>8, BindingRowType DEF TakeOver, Rows
  <2>5. [local[b][r] EXCEPT !.managed = TRUE] \in Row
    BY <2>4 DEF Row
  <2>6. local' \in [Binding -> [Record -> Row \cup {NoRow}]]
    BY <1>8, <2>5 DEF TakeOver
  <2>7. events' \in 0 .. MaxEvents
    BY <1>8, EventType DEF TakeOver
  <2>8. QED BY <1>8, <2>1, <2>3, <2>6, <2>7 DEF TakeOver, plans
<1>9. ASSUME NEW b \in Binding, NEW e \in Endpoint, NEW force \in BOOLEAN,
             UpdateBinding(b, e, force)
      PROVE  TypeOK'
  <2>1. binding' \in [Binding -> BindingRow]
    <3>1. binding' = [binding EXCEPT ![b] = [@ EXCEPT !.original = e]]
      BY <1>9 DEF UpdateBinding
    <3>2. QED BY <3>1, BoundType
  <2>2. QED BY <1>9, <2>1, AskType DEF UpdateBinding
<1>10. ASSUME CreateHealthCheck
       PROVE  TypeOK'
  BY <1>10, AskType DEF CreateHealthCheck
<1>11. ASSUME DeleteHealthCheck
       PROVE  TypeOK'
  BY <1>11, EventType, BumpType DEF DeleteHealthCheck, plans, zone, asked
<1>12. ASSUME NEW force \in BOOLEAN, ReconcileRequest(force)
       PROVE  TypeOK'
  BY <1>12, EventType, DecideType DEF ReconcileRequest, plans, zone, asked, Trigger
<1>13. ASSUME NEW setting \in Settings, NEW force \in BOOLEAN,
              NEW lifecycle \in [Endpoint -> {"enabled", "disabled"}],
              NEW version \in [Endpoint -> Version],
              Restore(setting, lifecycle, version, force)
       PROVE  TypeOK'
  <2>1. "unknown" \in Reached
    BY PoolAssumption
  <2>2. endpoint' \in [Endpoint -> EndpointRow]
    BY <1>13, <2>1 DEF Restore, Restored, EndpointRow
  <2>3. [BumpPolicy EXCEPT !.setting = setting, !.enabled = TRUE,
                           !.cursors = [S \in SUBSET Endpoint |-> NoEndpoint]] \in PoolRow
    BY BumpType DEF PoolRow
  <2>4. pool' \in PoolRow /\ intents' \subseteq Intent
    BY <1>13, <2>3, DecideType DEF Restore, Trigger
  <2>5. events' \in 0 .. MaxEvents
    BY <1>13, EventType DEF Restore
  <2>6. QED BY <1>13, <2>2, <2>4, <2>5 DEF Restore, plans, zone, asked
<1> HIDE DEF TypeOK
<1>14. QED
  BY <1>1, <1>2, <1>3, <1>4, <1>5, <1>6, <1>7, <1>8, <1>9, <1>10, <1>11, <1>12, <1>13 DEF Edit

LEMMA AnswerType ==
  ASSUME TypeOK, Answer
  PROVE  TypeOK'
<1>1. ASSUME RecordPolicyChange
      PROVE  TypeOK'
  <2>1. [request EXCEPT !.next = "enqueue"]
          \in [next : {"idle", "record", "enqueue"}, reconcile : BOOLEAN, force : BOOLEAN]
    BY DEF TypeOK
  <2>2. QED BY <1>1, <2>1, BumpType DEF RecordPolicyChange, TypeOK, plans, zone, Idle
<1>2. ASSUME EnqueueReconcile
      PROVE  TypeOK'
  <2>1. pool \in PoolRow /\ request.force \in BOOLEAN /\ "configuration" \in Trigger
    BY DEF TypeOK, Trigger
  <2>2. pool' \in PoolRow /\ intents' \subseteq Intent
    BY <1>2, <2>1, DecideType DEF EnqueueReconcile
  <2>3. QED BY <1>2, <2>2 DEF EnqueueReconcile, TypeOK, plans, zone, Idle
<1>3. ASSUME StopHalfway
      PROVE  TypeOK'
  BY <1>3, EventType DEF StopHalfway, TypeOK, plans, zone, Idle
<1>4. QED BY <1>1, <1>2, <1>3 DEF Answer

LEMMA ObservationType ==
  ASSUME TypeOK, Observation
  PROVE  TypeOK'
<1>0. pool \in PoolRow /\ {"failure", "recovery", "repair"} \subseteq Trigger
  BY DEF TypeOK, Trigger
<1>1. ASSUME NEW e \in Endpoint, NEW health \in Reached, Observe(e, health)
      PROVE  TypeOK'
  <2>1. endpoint' \in [Endpoint -> EndpointRow]
    <3>1. endpoint' = [endpoint EXCEPT ![e].health = health]
      BY <1>1 DEF Observe
    <3>2. [endpoint[e] EXCEPT !.health = health] \in EndpointRow
      BY EndpointRowType, EndpointEdits
    <3>3. QED BY <3>1, <3>2, EndpointType
  <2>2. \/ Decide(pool, "failure", FALSE) \/ Decide(pool, "recovery", FALSE)
        \/ UNCHANGED <<pool, intents>>
    BY <1>1 DEF Observe
  <2>3. pool' \in PoolRow /\ intents' \subseteq Intent
    BY <1>0, <2>2, DecideType DEF TypeOK
  <2>4. events' \in 0 .. MaxEvents
    BY <1>1, EventType DEF Observe
  <2>5. QED BY <1>1, <2>1, <2>3, <2>4 DEF Observe, TypeOK, plans, zone, asked
<1>2. ASSUME NEW e \in Endpoint, Promote(e)
      PROVE  TypeOK'
  <2>1. endpoint[e].version + 1 \in Version /\ "healthy" \in Reached
    BY <1>2, EndpointRowType DEF Promote
  <2>2. endpoint' \in [Endpoint -> EndpointRow]
    <3> DEFINE x == [endpoint[e] EXCEPT !.version = endpoint[e].version + 1, !.health = "healthy"]
    <3>1. endpoint' = [endpoint EXCEPT ![e] = x]
      BY <1>2 DEF Promote
    <3>2. x \in EndpointRow
      BY <2>1, EndpointRowType DEF EndpointRow
    <3> HIDE DEF x
    <3>3. QED BY <3>1, <3>2 DEF TypeOK
  <2>3. pool' \in PoolRow /\ intents' \subseteq Intent
    BY <1>0, <1>2, DecideType DEF Promote
  <2>4. events' \in 0 .. MaxEvents
    BY <1>2, EventType DEF Promote
  <2>5. QED BY <1>2, <2>2, <2>3, <2>4 DEF Promote, TypeOK, plans, zone, asked
<1>3. QED BY <1>1, <1>2 DEF Observation

\* The strategy is asked about a context that it is defined for.
LEMMA ContextType ==
  ASSUME TypeOK, NEW i \in Intent, NEW hash \in Hash
  PROVE  ContextOf(i, hash) \in Context
<1>1. /\ i.trigger \in Trigger
      /\ pool.cursors \in [SUBSET Endpoint -> Endpoint \cup {NoEndpoint}]
      /\ pool.setting \in Settings
  BY DEF Intent, TypeOK, PoolRow
<1>2. /\ pool.setting.strategy \in {"primary_backup", "assignment_pool", "healthy_set"}
      /\ pool.setting.selection \in {"ordered", "least_assigned", "round_robin", "random"}
      /\ pool.setting.recovery \in {"automatic", "delayed", "keep_current", "manual"}
  BY <1>1, PoolAssumption
<1>3. [b \in Binding |-> [e \in Endpoint |->
         IF i.force /\ endpoint[e].lifecycle = "enabled" THEN "healthy" ELSE endpoint[e].health]]
        \in [Binding -> [Endpoint -> Health]]
  <2>1. \A e \in Endpoint : endpoint[e].health \in Health
    BY PoolAssumption DEF TypeOK, EndpointRow
  <2>2. "healthy" \in Health
    BY DEF Health
  <2>3. QED BY <2>1, <2>2
<1>4. /\ [e \in Endpoint |-> endpoint[e].lifecycle = "enabled"] \in [Endpoint -> BOOLEAN]
      /\ [e \in Endpoint |-> e \in Present /\ endpoint[e].version > 0] \in [Endpoint -> BOOLEAN]
  OBVIOUS
<1>5. Bound \in SUBSET Binding
  BY DEF Bound
<1>6. [b \in Binding |-> assigned[b].applied] \in [Binding -> SUBSET Endpoint]
  BY BindingRowType
<1>7. [b \in Binding |-> binding[b].original] \in [Binding -> Endpoint \cup {NoEndpoint}]
  BY DEF TypeOK, BindingRow
<1>8. hash \in [Binding -> Nat]
  BY StrategyAssumption DEF Hash
<1>9. QED BY <1>1, <1>2, <1>3, <1>4, <1>5, <1>6, <1>7, <1>8 DEF ContextOf, Context

\* What is decided for a binding, and whom its steps publish.
LEMMA DecisionsAreEligible ==
  ASSUME TypeOK, NEW i \in Intent, NEW hash \in Hash, NEW b \in Binding
  PROVE  LET ctx == ContextOf(i, hash)
             d == EvaluateStrategy(ctx)[b]
         IN /\ d.desired \in SUBSET Endpoint
            /\ b \in Decided(ctx) => b \in Bound
            /\ b \in Planned(ctx) =>
                 /\ d.desired # {}
                 /\ \A e \in d.desired :
                      /\ endpoint[e].lifecycle = "enabled"
                      /\ endpoint[e].version \in Version
                      /\ i.force \/ HealthyEnough(endpoint[e].health)
<1> DEFINE ctx == ContextOf(i, hash)
           d == EvaluateStrategy(ctx)[b]
<1>1. ctx \in Context
  BY ContextType
<1>2. /\ ctx.bound = Bound
      /\ ctx.enabled = [e \in Endpoint |-> endpoint[e].lifecycle = "enabled"]
      /\ ctx.addressed = [e \in Endpoint |-> e \in Present /\ endpoint[e].version > 0]
      /\ ctx.health = [a \in Binding |-> [e \in Endpoint |->
           IF i.force /\ endpoint[e].lifecycle = "enabled" THEN "healthy" ELSE endpoint[e].health]]
  BY DEF ContextOf
<1> HIDE DEF ctx
<1>3. /\ d.desired \in SUBSET Endpoint
      /\ d.reason # "none" => b \in ctx.bound
      /\ d.reason \notin {"none", "no_healthy_endpoint"} =>
           d.desired \subseteq Candidates(ctx, b) /\ d.desired # {}
  BY <1>1, DecisionsChoose
<1> HIDE DEF d
<1>4. /\ b \in Decided(ctx) <=> d.reason # "none"
      /\ b \in Planned(ctx) <=> d.reason \notin {"none", "no_healthy_endpoint"}
  BY DEF Decided, Planned, d
<1>5. ASSUME NEW e \in Candidates(ctx, b)
      PROVE  /\ endpoint[e].lifecycle = "enabled"
             /\ endpoint[e].version \in Version
             /\ i.force \/ HealthyEnough(endpoint[e].health)
  <2>1. e \in Endpoint /\ ctx.enabled[e] /\ ctx.addressed[e] /\ HealthyEnough(ctx.health[b][e])
    BY DEF Candidates
  <2>2. endpoint[e].lifecycle = "enabled" /\ endpoint[e].version > 0
    BY <1>2, <2>1
  <2>3. endpoint[e].version \in Version
    BY <2>1, <2>2, EndpointRowType
  <2>4. i.force \/ HealthyEnough(endpoint[e].health)
    BY <1>2, <2>1
  <2>5. QED BY <2>2, <2>3, <2>4
<1>6. QED BY <1>2, <1>3, <1>4, <1>5 DEF ctx, d

LEMMA StepTypes ==
  ASSUME TypeOK, NEW b \in Binding, NEW e \in Endpoint
  PROVE  /\ endpoint[e].version \in Version =>
              /\ CreateStep(b, e) \in Step
              /\ \A r \in Record : UpdateStep(b, e, r) \in Step
         /\ \A r \in Rows(b) : DeleteStep(b, e, r) \in Step
<1>1. ASSUME endpoint[e].version \in Version
      PROVE  Published(e) \in Content
  BY <1>1 DEF Published, Content, Address
<1>2. \A r \in Rows(b) : r \in Record /\ local[b][r] \in Row
  BY BindingRowType DEF Rows
<1>3. \A r \in Rows(b) : local[b][r].content \in Content
  BY <1>2, RowsAreNot
<1>4. ASSUME endpoint[e].version \in Version
      PROVE  CreateStep(b, e) \in Step
  BY <1>1, <1>4 DEF CreateStep, Step
<1>5. ASSUME endpoint[e].version \in Version, NEW r \in Record
      PROVE  UpdateStep(b, e, r) \in Step
  BY <1>1, <1>5 DEF UpdateStep, Step
<1>6. ASSUME NEW r \in Rows(b)
      PROVE  DeleteStep(b, e, r) \in Step
  BY <1>2, <1>3, <1>6 DEF DeleteStep, Step
<1>7. QED BY <1>4, <1>5, <1>6

\* The steps for a binding: those of a plan for one endpoint or for a set.
LEMMA PlanSteps ==
  ASSUME TypeOK, NEW b \in Binding, NEW desired \in SUBSET Endpoint,
         \A e \in desired : endpoint[e].version \in Version
  PROVE  /\ \A e \in desired : \A first \in Recorded(b) \cup {NoEndpoint} :
              \A s \in PlanSingle(b, e, first) :
                /\ s \in Step /\ s.binding = b /\ ~s.tried
                /\ s.action # "delete" => s.endpoint = e /\ s.content = Published(e)
         /\ \A s \in PlanSet(b, desired) :
              /\ s \in Step /\ s.binding = b /\ ~s.tried
              /\ s.action # "delete" => s.endpoint \in desired /\ s.content = Published(s.endpoint)
<1>1. Recorded(b) \in SUBSET Endpoint /\ assigned[b].applied \in SUBSET Endpoint
  BY BindingRowType DEF Recorded
<1>2. \A e \in Endpoint : HasRow(b, e) => assigned[b].record[e] \in Record
  BY DEF HasRow, Rows
<1>3. \A e, f \in Endpoint : \A r \in Record :
        /\ CreateStep(b, e).binding = b /\ CreateStep(b, e).endpoint = e
        /\ CreateStep(b, e).content = Published(e) /\ ~CreateStep(b, e).tried
        /\ UpdateStep(b, e, r).binding = b /\ UpdateStep(b, e, r).endpoint = e
        /\ UpdateStep(b, e, r).content = Published(e) /\ ~UpdateStep(b, e, r).tried
        /\ DeleteStep(b, e, r).binding = b /\ DeleteStep(b, e, r).action = "delete"
        /\ ~DeleteStep(b, e, r).tried
  BY DEF CreateStep, UpdateStep, DeleteStep
<1>4. ASSUME NEW e \in desired, NEW first \in Recorded(b) \cup {NoEndpoint},
             NEW s \in PlanSingle(b, e, first)
      PROVE  /\ s \in Step /\ s.binding = b /\ ~s.tried
             /\ s.action # "delete" => s.endpoint = e /\ s.content = Published(e)
  <2>1. \/ first # NoEndpoint /\ HasRow(b, first) /\ s = UpdateStep(b, e, assigned[b].record[first])
        \/ s = CreateStep(b, e)
        \/ \E x \in Recorded(b) : HasRow(b, x) /\ s = DeleteStep(b, x, assigned[b].record[x])
    BY DEF PlanSingle
  <2>2. CASE first # NoEndpoint /\ HasRow(b, first)
                /\ s = UpdateStep(b, e, assigned[b].record[first])
    BY <1>1, <1>2, <1>3, <2>2, StepTypes
  <2>3. CASE s = CreateStep(b, e)
    <3>1. e \in Endpoint /\ CreateStep(b, e) \in Step
      BY StepTypes
    <3>2. CreateStep(b, e).binding = b /\ CreateStep(b, e).endpoint = e
          /\ CreateStep(b, e).content = Published(e) /\ ~CreateStep(b, e).tried
      BY DEF CreateStep
    <3>3. QED BY <2>3, <3>1, <3>2
  <2>4. ASSUME NEW x \in Recorded(b), HasRow(b, x), s = DeleteStep(b, x, assigned[b].record[x])
        PROVE  s \in Step /\ s.binding = b /\ ~s.tried /\ s.action = "delete"
    BY <1>1, <1>2, <1>3, <2>4, StepTypes DEF HasRow
  <2>5. QED BY <2>1, <2>2, <2>3, <2>4
<1>5. ASSUME NEW s \in PlanSet(b, desired)
      PROVE  /\ s \in Step /\ s.binding = b /\ ~s.tried
             /\ s.action # "delete" => s.endpoint \in desired /\ s.content = Published(s.endpoint)
  <2>1. \/ \E e \in desired : HasRow(b, e) /\ s = UpdateStep(b, e, assigned[b].record[e])
        \/ \E e \in desired : s = CreateStep(b, e)
        \/ \E x \in assigned[b].applied : HasRow(b, x) /\ s = DeleteStep(b, x, assigned[b].record[x])
    BY DEF PlanSet
  <2>2. ASSUME NEW e \in desired, HasRow(b, e), s = UpdateStep(b, e, assigned[b].record[e])
        PROVE  s \in Step /\ s.binding = b /\ ~s.tried /\ s.endpoint = e /\ s.content = Published(e)
    BY <1>2, <1>3, <2>2, StepTypes
  <2>3. ASSUME NEW e \in desired, s = CreateStep(b, e)
        PROVE  s \in Step /\ s.binding = b /\ ~s.tried /\ s.endpoint = e /\ s.content = Published(e)
    <3>1. e \in Endpoint /\ CreateStep(b, e) \in Step
      BY StepTypes
    <3>2. CreateStep(b, e).binding = b /\ CreateStep(b, e).endpoint = e
          /\ CreateStep(b, e).content = Published(e) /\ ~CreateStep(b, e).tried
      BY DEF CreateStep
    <3>3. QED BY <2>3, <3>1, <3>2
  <2>4. ASSUME NEW x \in assigned[b].applied, HasRow(b, x),
               s = DeleteStep(b, x, assigned[b].record[x])
        PROVE  s \in Step /\ s.binding = b /\ ~s.tried /\ s.action = "delete"
    BY <1>1, <1>2, <1>3, <2>4, StepTypes DEF HasRow
  <2>5. QED BY <2>1, <2>2, <2>3, <2>4
<1>6. QED BY <1>4, <1>5

\* The steps that a reconcile plans.
PlanOf(i, hash, first) ==
  UNION {StepsFor(ContextOf(i, hash), b, first[b]) : b \in Planned(ContextOf(i, hash))}

LEMMA PlanIsEligible ==
  ASSUME TypeOK, NEW i \in Intent, NEW hash \in Hash, NEW first \in Firsts,
         NEW s \in PlanOf(i, hash, first)
  PROVE  /\ s \in Step /\ ~s.tried /\ s.binding \in Planned(ContextOf(i, hash))
         /\ s.binding \in Bound
         /\ s \in StepsFor(ContextOf(i, hash), s.binding, first[s.binding])
         /\ s.action # "delete" =>
              /\ endpoint[s.endpoint].lifecycle = "enabled"
              /\ s.content = Published(s.endpoint)
              /\ i.force \/ HealthyEnough(endpoint[s.endpoint].health)
<1> DEFINE ctx == ContextOf(i, hash)
<1>1. PICK b \in Planned(ctx) : s \in StepsFor(ctx, b, first[b])
  BY DEF PlanOf
<1> HIDE DEF ctx
<1>2. b \in Binding /\ b \in Decided(ctx)
  BY DEF Planned, Decided
<1> DEFINE desired == EvaluateStrategy(ctx)[b].desired
<1>3. /\ desired \in SUBSET Endpoint /\ b \in Bound
      /\ desired # {}
      /\ \A e \in desired :
           /\ endpoint[e].lifecycle = "enabled"
           /\ endpoint[e].version \in Version
           /\ i.force \/ HealthyEnough(endpoint[e].health)
  BY <1>2, DecisionsAreEligible DEF ctx
<1>4. \/ s \in PlanSet(b, desired)
      \/ s \in PlanSingle(b, CHOOSE e \in desired : TRUE, first[b])
  BY <1>1 DEF StepsFor
<1> HIDE DEF desired
<1>5. (CHOOSE e \in desired : TRUE) \in desired
  BY <1>3
<1>6. first[b] \in Recorded(b) \cup {NoEndpoint}
  BY <1>2 DEF Firsts
<1>7. /\ s \in Step /\ s.binding = b /\ ~s.tried
      /\ s.action # "delete" => s.endpoint \in desired /\ s.content = Published(s.endpoint)
  <2>1. CASE s \in PlanSet(b, desired)
    BY <1>2, <1>3, <2>1, PlanSteps
  <2>2. CASE s \in PlanSingle(b, CHOOSE e \in desired : TRUE, first[b])
    <3>1. PICK e \in desired : s \in PlanSingle(b, e, first[b])
      BY <1>5, <2>2
    <3>2. QED BY <1>2, <1>3, <1>6, <3>1, PlanSteps
  <2>3. QED BY <1>4, <2>1, <2>2
<1>8. QED BY <1>1, <1>3, <1>7 DEF ctx

LEMMA PlannerType ==
  ASSUME TypeOK, Outbox \/ Worker
  PROVE  TypeOK'
<1>1. ASSUME NEW i \in intents, Dispatch(i)
      PROVE  TypeOK'
  BY <1>1 DEF Dispatch, TypeOK, zone, asked
<1>2. ASSUME NEW i \in jobs, Settle(i)
      PROVE  TypeOK'
  BY <1>2 DEF Settle, TypeOK, zone, asked
<1>3. ASSUME NEW i \in jobs, NEW hash \in Hash, ProviderUnavailable(i, hash)
      PROVE  TypeOK'
  BY <1>3 DEF ProviderUnavailable, TypeOK, zone, asked
<1>4. ASSUME NEW i \in jobs, NEW hash \in Hash, NEW first \in Firsts, Reconcile(i, hash, first)
      PROVE  TypeOK'
  <2> DEFINE ctx == ContextOf(i, hash)
             steps == PlanOf(i, hash, first)
             op == [decision |-> i.decision, policy |-> i.policy, force |-> i.force,
                    steps |-> steps, single |-> ctx.strategy # "healthy_set"]
  <2>1. i \in Intent
    BY DEF TypeOK
  <2>2. ctx \in Context
    BY <2>1, ContextType
  <2>3. /\ assigned' = [b \in Binding |-> IF b \in Decided(ctx)
             THEN [assigned[b] EXCEPT !.desired = EvaluateStrategy(ctx)[b].desired]
             ELSE assigned[b]]
        /\ pool' = [pool EXCEPT !.cursors = NextCursors(ctx)]
        /\ ops' \subseteq ops \cup {op}
        /\ intents' \subseteq intents /\ jobs' \subseteq jobs
    BY <1>4 DEF Reconcile, PlanOf
  <2>4. \A b \in Binding : EvaluateStrategy(ctx)[b].desired \in SUBSET Endpoint
    BY <2>1, DecisionsAreEligible
  <2>5. steps \in SUBSET Step
    BY <2>1, PlanIsEligible
  <2>6. NextCursors(ctx) \in [SUBSET Endpoint -> Endpoint \cup {NoEndpoint}]
    BY <2>2, NextCursorsType
  <2> HIDE DEF ctx, steps
  <2>7. assigned' \in [Binding -> Assignment]
    <3>1. \A b \in Binding : \A S \in SUBSET Endpoint :
            [assigned[b] EXCEPT !.desired = S] \in Assignment
      BY BindingRowType, DesiredType
    <3>2. QED BY <2>3, <2>4, <3>1 DEF TypeOK
  <2>8. pool' \in PoolRow
    <3>1. pool \in PoolRow
      BY DEF TypeOK
    <3>2. [pool EXCEPT !.cursors = NextCursors(ctx)] \in PoolRow
      BY <2>6, <3>1, PoolRowType
    <3>3. QED BY <2>3, <3>2
  <2>9. op \in Operation
    BY <2>1, <2>5 DEF Intent, Operation
  <2> HIDE DEF op
  <2>10. narrowed' \subseteq Binding
    BY <1>4 DEF Reconcile, Planned, Decided, TypeOK
  <2>11. QED BY <1>4, <2>3, <2>7, <2>8, <2>9, <2>10 DEF Reconcile, TypeOK, zone, asked
<1>5. QED BY <1>1, <1>2, <1>3, <1>4 DEF Outbox, Worker, Work

LEMMA WithStepsType ==
  ASSUME TypeOK, NEW op \in ops, NEW s \in op.steps, NEW S \in SUBSET Step
  PROVE  WithSteps(op, s, S) \subseteq Operation
<1>1. op \in Operation
  BY DEF TypeOK
<1>2. [op EXCEPT !.steps = (op.steps \ {s}) \cup S] \in Operation
  BY <1>1 DEF Operation
<1>3. QED BY <1>2 DEF WithSteps, TypeOK

LEMMA DoubtedType ==
  ASSUME TypeOK, NEW S \in SUBSET Step
  PROVE  Doubted(S) \in [Binding -> SUBSET Step]
BY DEF Doubted, TypeOK

\* The record of a step that can run, and its row.
LEMMA TargetType ==
  ASSUME TypeOK, NEW s \in Step, NEW r \in Record
  PROVE  /\ Written(s, r) \in [Binding -> [Record -> Content \cup {NoRow}]]
         /\ [s EXCEPT !.tried = TRUE] \in Step
         /\ [content |-> s.content, managed |-> TRUE] \in Row
         /\ \A single \in BOOLEAN : AssignedBy(s, r, single) \in Assignment
<1>1. /\ s.binding \in Binding /\ s.endpoint \in Endpoint /\ s.content \in Content
  BY DEF Step
<1>2. Written(s, r) \in [Binding -> [Record -> Content \cup {NoRow}]]
  BY <1>1 DEF Written, TypeOK
<1>3. [s EXCEPT !.tried = TRUE] \in Step
  BY DEF Step
<1>4. [content |-> s.content, managed |-> TRUE] \in Row
  BY <1>1 DEF Row
<1>5. ASSUME NEW single \in BOOLEAN
      PROVE  AssignedBy(s, r, single) \in Assignment
  <2> DEFINE a == assigned[s.binding]
  <2>1. /\ a \in Assignment /\ a.desired \in SUBSET Endpoint /\ a.applied \in SUBSET Endpoint
        /\ a.record \in [Endpoint -> Record \cup {NoRecord}]
    BY <1>1, BindingRowType
  <2>2. AssignedBy(s, r, single) =
          CASE s.action = "delete" ->
                 [a EXCEPT !.applied = @ \ {s.endpoint}, !.record[s.endpoint] = NoRecord]
            [] s.action # "delete" /\ single ->
                 [desired |-> a.desired \cup {s.endpoint}, applied |-> {s.endpoint},
                  record |-> [Unassigned.record EXCEPT ![s.endpoint] = r]]
            [] OTHER ->
                 [desired |-> a.desired \cup {s.endpoint}, applied |-> a.applied \cup {s.endpoint},
                  record |-> [a.record EXCEPT ![s.endpoint] = r]]
    BY DEF AssignedBy
  <2> HIDE DEF a
  <2>3. /\ [Unassigned.record EXCEPT ![s.endpoint] = r] \in [Endpoint -> Record \cup {NoRecord}]
        /\ [a.record EXCEPT ![s.endpoint] = r] \in [Endpoint -> Record \cup {NoRecord}]
    BY <1>1, <2>1 DEF Unassigned
  <2>4. [a EXCEPT !.applied = @ \ {s.endpoint}, !.record[s.endpoint] = NoRecord] \in Assignment
    BY <1>1, <2>1 DEF Assignment
  <2>5. /\ [desired |-> a.desired \cup {s.endpoint}, applied |-> {s.endpoint},
            record |-> [Unassigned.record EXCEPT ![s.endpoint] = r]] \in Assignment
        /\ [desired |-> a.desired \cup {s.endpoint}, applied |-> a.applied \cup {s.endpoint},
            record |-> [a.record EXCEPT ![s.endpoint] = r]] \in Assignment
    BY <1>1, <2>1, <2>3 DEF Assignment
  <2>6. QED BY <2>2, <2>4, <2>5
<1>6. QED BY <1>2, <1>3, <1>4, <1>5

LEMMA StepType ==
  ASSUME TypeOK, StepNext
  PROVE  TypeOK'
<1>1. PICK op \in ops :
        \/ Supersede(op)
        \/ \E s \in op.steps :
             \/ \E status \in {account, "error"} : FailStep(op, s, status)
             \/ \E r \in Record : \/ RunStep(op, s, r)
                                  \/ \E written \in BOOLEAN : LoseAnswer(op, s, r, written)
  BY DEF StepNext
<1>2. op \in Operation /\ op.steps \in SUBSET Step /\ op.single \in BOOLEAN
  BY DEF TypeOK, Operation
<1>3. CASE Supersede(op)
  <2>1. {s \in op.steps : s.tried} \in SUBSET Step
    BY <1>2
  <2>2. doubt' \in [Binding -> SUBSET Step]
    BY <1>3, <2>1, DoubtedType DEF Supersede
  <2>3. QED BY <1>3, <2>2 DEF Supersede, TypeOK, zone, asked
<1>4. ASSUME NEW s \in op.steps, NEW status \in {account, "error"}, FailStep(op, s, status)
      PROVE  TypeOK'
  <2>1. [s EXCEPT !.tried = TRUE] \in Step /\ s.binding \in Binding
    BY <1>2 DEF Step
  <2>2. {[s EXCEPT !.tried = TRUE]} \in SUBSET Step
    BY <2>1
  <2>3. doubt' \in [Binding -> SUBSET Step]
    BY <1>4, <2>2, DoubtedType DEF FailStep
  <2>4. ops' \subseteq Operation
    BY <1>4, WithStepsType DEF FailStep
  <2>5. events' \in 0 .. MaxEvents
    BY <1>4, EventType DEF FailStep, TypeOK
  <2>6. QED BY <1>4, <2>1, <2>3, <2>4, <2>5 DEF FailStep, TypeOK, zone, asked
<1>5. ASSUME NEW s \in op.steps, NEW r \in Record, RunStep(op, s, r)
      PROVE  TypeOK'
  <2>1. s \in Step /\ s.binding \in Binding
    BY <1>2 DEF Step
  <2>2. remote' \in [Binding -> [Record -> Content \cup {NoRow}]]
    BY <1>5, <2>1, TargetType DEF RunStep
  <2>3. [content |-> s.content, managed |-> TRUE] \in Row
    BY <2>1, TargetType
  <2>4. local' \in [Binding -> [Record -> Row \cup {NoRow}]]
    BY <1>5, <2>1, <2>3 DEF RunStep, TypeOK
  <2>5. AssignedBy(s, r, op.single) \in Assignment
    BY <1>2, <2>1, TargetType
  <2>6. assigned' \in [Binding -> Assignment]
    BY <1>5, <2>1, <2>5 DEF RunStep, TypeOK
  <2>7. ops' \subseteq Operation
    BY <1>5, WithStepsType DEF RunStep
  <2>8. QED BY <1>5, <2>2, <2>4, <2>6, <2>7 DEF RunStep, TypeOK, asked
<1>6. ASSUME NEW s \in op.steps, NEW r \in Record, NEW written \in BOOLEAN,
             LoseAnswer(op, s, r, written)
      PROVE  TypeOK'
  <2>1. s \in Step /\ s.binding \in Binding /\ {[s EXCEPT !.tried = TRUE]} \in SUBSET Step
    BY <1>2 DEF Step
  <2>2. remote' \in [Binding -> [Record -> Content \cup {NoRow}]]
    BY <1>6, <2>1, TargetType DEF LoseAnswer, TypeOK
  <2>3. ops' \subseteq Operation
    BY <1>6, <2>1, WithStepsType DEF LoseAnswer
  <2>4. events' \in 0 .. MaxEvents
    BY <1>6, EventType DEF LoseAnswer
  <2>5. QED BY <1>6, <2>1, <2>2, <2>3, <2>4 DEF LoseAnswer, TypeOK, asked
<1>7. QED BY <1>1, <1>3, <1>4, <1>5, <1>6

LEMMA GoneType ==
  ASSUME TypeOK, NEW b \in Binding, Gone(b)
  PROVE  /\ pool' \in PoolRow /\ binding' \in [Binding -> BindingRow]
         /\ assigned' \in [Binding -> Assignment] /\ doubt' \in [Binding -> SUBSET Step]
<1>1. pool' \in PoolRow
  BY BumpType DEF Gone
<1>2. [phase |-> "absent", original |-> NoEndpoint, doomed |-> {}, stuck |-> FALSE] \in BindingRow
  BY DEF BindingRow
<1>3. binding' \in [Binding -> BindingRow]
  BY <1>2 DEF Gone, Freed, TypeOK
<1>4. assigned' \in [Binding -> Assignment] /\ doubt' \in [Binding -> SUBSET Step]
  BY UnassignedType DEF Gone, TypeOK
<1>5. QED BY <1>1, <1>3, <1>4

LEMMA DoomedType ==
  ASSUME NEW x \in BindingRow, NEW T \in SUBSET Record
  PROVE  /\ [x EXCEPT !.phase = "deleting", !.doomed = T, !.stuck = FALSE] \in BindingRow
         /\ [x EXCEPT !.doomed = T, !.stuck = TRUE] \in BindingRow
         /\ x.doomed \in SUBSET Record
BY DEF BindingRow

LEMMA ErasingType ==
  ASSUME TypeOK, NEW b \in Binding, NEW targets \in SUBSET Record, StartErasing(b, targets)
  PROVE  /\ pool' \in PoolRow /\ binding' \in [Binding -> BindingRow]
         /\ doubt' \in [Binding -> SUBSET Step]
<1> DEFINE x == [binding[b] EXCEPT !.phase = "deleting", !.doomed = targets, !.stuck = FALSE]
<1>1. binding' = [binding EXCEPT ![b] = x]
  BY DEF StartErasing
<1>2. x \in BindingRow
  BY BindingRowType, DoomedType
<1> HIDE DEF x
<1>3. binding' \in [Binding -> BindingRow]
  BY <1>1, <1>2 DEF TypeOK
<1>4. QED BY <1>3 DEF StartErasing, TypeOK

LEMMA DeletionType ==
  ASSUME TypeOK, Deletion
  PROVE  TypeOK'
<1>1. ASSUME NEW b \in Binding, DeleteBinding(b)
      PROVE  TypeOK'
  <2> DEFINE targets == {assigned[b].record[e] : e \in assigned[b].applied} \ {NoRecord}
  <2>1. targets \in SUBSET Record
    BY BindingRowType
  <2>2. \/ StartErasing(b, targets) /\ UNCHANGED assigned
        \/ Gone(b)
    BY <1>1 DEF DeleteBinding
  <2> HIDE DEF targets
  <2>3. /\ pool' \in PoolRow /\ binding' \in [Binding -> BindingRow]
        /\ assigned' \in [Binding -> Assignment] /\ doubt' \in [Binding -> SUBSET Step]
    <3>1. CASE StartErasing(b, targets) /\ UNCHANGED assigned
      BY <2>1, <3>1, ErasingType DEF TypeOK
    <3>2. CASE Gone(b)
      BY <3>2, GoneType
    <3>3. QED BY <2>2, <3>1, <3>2
  <2>4. QED BY <1>1, <2>3 DEF DeleteBinding, TypeOK, zone, asked
<1>2. ASSUME NEW b \in Binding, ReadBack(b)
      PROVE  TypeOK'
  <2> DEFINE there == {r \in Record : remote[b][r] # NoRow}
             absent == Known(b) \ there
             row(r) == CASE r \in there -> [content |-> remote[b][r], managed |-> TRUE]
                         [] r \in absent -> NoRow
                         [] OTHER -> local[b][r]
             erased == [assigned[b] EXCEPT
                          !.applied = {e \in assigned[b].applied : assigned[b].record[e] \notin absent},
                          !.record = [e \in Endpoint |-> IF assigned[b].record[e] \in absent
                                                         THEN NoRecord ELSE assigned[b].record[e]]]
  <2>1. /\ local' = [local EXCEPT ![b] = [r \in Record |-> row(r)]]
        /\ \/ StartErasing(b, there) /\ assigned' = [assigned EXCEPT ![b] = erased]
           \/ Gone(b)
        /\ UNCHANGED <<endpoint, intents, jobs, ops, remote, sync, account, disturbed, asked, events>>
    BY <1>2 DEF ReadBack
  <2>2. ASSUME NEW r \in Record PROVE row(r) \in Row \cup {NoRow}
    <3>1. r \in there => [content |-> remote[b][r], managed |-> TRUE] \in Row
      BY BindingRowType DEF Row
    <3>2. local[b][r] \in Row \cup {NoRow}
      BY BindingRowType
    <3>3. QED BY <3>1, <3>2
  <2>3. there \in SUBSET Record
    OBVIOUS
  <2> HIDE DEF there
  <2>4. erased \in Assignment
    <3>1. /\ {e \in assigned[b].applied : assigned[b].record[e] \notin absent} \in SUBSET Endpoint
          /\ [e \in Endpoint |-> IF assigned[b].record[e] \in absent
                                 THEN NoRecord ELSE assigned[b].record[e]]
               \in [Endpoint -> Record \cup {NoRecord}]
      BY BindingRowType
    <3>2. assigned[b] \in Assignment
      BY BindingRowType
    <3>3. QED BY <3>1, <3>2 DEF Assignment
  <2> HIDE DEF erased, absent, row
  <2>5. [r \in Record |-> row(r)] \in [Record -> Row \cup {NoRow}]
    BY <2>2
  <2>6. local' \in [Binding -> [Record -> Row \cup {NoRow}]]
    BY <2>1, <2>5 DEF TypeOK
  <2>7. /\ pool' \in PoolRow /\ binding' \in [Binding -> BindingRow]
        /\ assigned' \in [Binding -> Assignment] /\ doubt' \in [Binding -> SUBSET Step]
    <3>1. CASE StartErasing(b, there) /\ assigned' = [assigned EXCEPT ![b] = erased]
      BY <2>3, <2>4, <3>1, ErasingType DEF TypeOK
    <3>2. CASE Gone(b)
      BY <3>2, GoneType
    <3>3. QED BY <2>1, <3>1, <3>2
  <2>8. QED BY <2>1, <2>6, <2>7 DEF TypeOK, asked
<1>3. ASSUME NEW b \in Binding, FinishDeletion(b)
      PROVE  TypeOK'
  BY <1>3, GoneType DEF FinishDeletion, TypeOK, zone, asked
<1>4. ASSUME NEW b \in Binding, NEW r \in Record, Erase(b, r)
      PROVE  TypeOK'
  <2> DEFINE gone == {e \in Endpoint : assigned[b].record[e] = r}
             a == [assigned[b] EXCEPT
                     !.applied = assigned[b].applied \ gone,
                     !.record = [e \in Endpoint |-> IF e \in gone THEN NoRecord
                                                    ELSE assigned[b].record[e]]]
             x == [binding[b] EXCEPT !.doomed = @ \ {r}]
  <2>1. /\ assigned' = [assigned EXCEPT ![b] = a]
        /\ binding' = [binding EXCEPT ![b] = x]
        /\ remote' = [remote EXCEPT ![b][r] = NoRow] /\ local' = [local EXCEPT ![b][r] = NoRow]
    BY <1>4 DEF Erase
  <2>2. a \in Assignment
    <3>1. /\ assigned[b].applied \ gone \in SUBSET Endpoint
          /\ [e \in Endpoint |-> IF e \in gone THEN NoRecord ELSE assigned[b].record[e]]
               \in [Endpoint -> Record \cup {NoRecord}]
      BY BindingRowType
    <3>2. assigned[b] \in Assignment
      BY BindingRowType
    <3> HIDE DEF gone
    <3>3. QED BY <3>1, <3>2 DEF Assignment
  <2>3. x \in BindingRow
    <3>1. \A row \in BindingRow : [row EXCEPT !.doomed = @ \ {r}] \in BindingRow
      BY DEF BindingRow
    <3>2. QED BY <3>1, BindingRowType
  <2> HIDE DEF a, x, gone
  <2>4. assigned' \in [Binding -> Assignment] /\ binding' \in [Binding -> BindingRow]
    BY <2>1, <2>2, <2>3 DEF TypeOK
  <2>5. /\ remote' \in [Binding -> [Record -> Content \cup {NoRow}]]
        /\ local' \in [Binding -> [Record -> Row \cup {NoRow}]]
    BY <2>1 DEF TypeOK
  <2>6. QED BY <1>4, <2>4, <2>5 DEF Erase, TypeOK, plans, asked
<1>5. ASSUME NEW b \in Binding, NEW r \in Record, EraseLosesAnswer(b, r)
      PROVE  TypeOK'
  <2>1. remote' \in [Binding -> [Record -> Content \cup {NoRow}]]
    BY <1>5 DEF EraseLosesAnswer, TypeOK
  <2>2. events' \in 0 .. MaxEvents
    BY <1>5, EventType DEF EraseLosesAnswer
  <2>3. QED BY <1>5, <2>1, <2>2 DEF EraseLosesAnswer, TypeOK, plans, asked
<1>6. ASSUME NEW b \in Binding, NEW r \in Record, NEW status \in {account, "error"},
             EraseFails(b, r, status)
      PROVE  TypeOK'
  <2> DEFINE x == [binding[b] EXCEPT !.doomed = binding[b].doomed \ {r}, !.stuck = TRUE]
  <2>1. binding' = [binding EXCEPT ![b] = x]
    BY <1>6 DEF EraseFails
  <2>2. x \in BindingRow
    <3>1. binding[b] \in BindingRow
      BY BindingRowType
    <3>2. binding[b].doomed \ {r} \in SUBSET Record
      BY <3>1, DoomedType
    <3>3. QED BY <3>1, <3>2, DoomedType
  <2> HIDE DEF x
  <2>3. binding' \in [Binding -> BindingRow]
    BY <2>1, <2>2 DEF TypeOK
  <2>4. events' \in 0 .. MaxEvents
    BY <1>6, EventType DEF EraseFails, TypeOK
  <2>5. QED BY <1>6, <2>3, <2>4 DEF EraseFails, TypeOK, plans, zone, asked
<1>7. QED BY <1>1, <1>2, <1>3, <1>4, <1>5, <1>6 DEF Deletion

LEMMA SyncType ==
  ASSUME TypeOK, SyncNext
  PROVE  TypeOK'
<1> DEFINE Sync == [phase : {"idle", "records", "missing"}, todo : SUBSET (Spot \X Content),
                    missing : SUBSET Spot, noted : SUBSET Spot]
<1>0. /\ sync \in Sync /\ pool \in PoolRow /\ "repair" \in Trigger
      /\ \A p \in Spot : p[1] \in Binding /\ p[2] \in Record
  BY DEF TypeOK, Trigger, Spot
<1>1. ASSUME SyncStart PROVE TypeOK'
  <2>1. \A p \in Listed : p \in Spot /\ RemoteOf(p) \in Content
    <3>1. \A p \in Spot : RemoteOf(p) \in Content \cup {NoRow}
      BY <1>0, BindingRowType DEF RemoteOf
    <3>2. QED BY <3>1 DEF Listed
  <2>2. NewsIn(Listed) \subseteq Listed /\ RowsMissing \in SUBSET Spot
    BY DEF NewsIn, RowsMissing
  <2>3. {<<p, RemoteOf(p)>> : p \in NewsIn(Listed)} \in SUBSET (Spot \X Content)
    BY <2>1, <2>2
  <2>4. sync' \in Sync
    BY <1>1, <2>2, <2>3 DEF SyncStart
  <2>5. QED BY <1>1, <2>4 DEF SyncStart, TypeOK, plans, asked
<1>2. ASSUME SyncMissing PROVE TypeOK'
  <2>1. {p \in sync.missing : ~Managed(p)} \in SUBSET Spot
    BY <1>0
  <2>2. sync' \in Sync
    BY <1>0, <1>2, <2>1 DEF SyncMissing
  <2>3. QED BY <1>2, <2>2 DEF SyncMissing, TypeOK, plans, asked
<1>3. ASSUME SyncEnd PROVE TypeOK'
  <2>1. sync' \in Sync
    BY <1>3 DEF SyncEnd, Asleep
  <2>2. local' \in [Binding -> [Record -> Row \cup {NoRow}]]
    BY <1>3 DEF SyncEnd, TypeOK
  <2>3. QED BY <1>3, <2>1, <2>2 DEF SyncEnd, TypeOK, plans, asked
<1>4. ASSUME NEW p \in Spot, SyncLost(p) PROVE TypeOK'
  <2>1. [sync EXCEPT !.noted = @ \cup {p}] \in Sync
    BY <1>0
  <2>2. pool' \in PoolRow /\ intents' \subseteq Intent
    BY <1>0, <1>4, DecideType DEF SyncLost
  <2>3. QED BY <1>4, <2>1, <2>2 DEF SyncLost, TypeOK, plans, asked
<1>5. ASSUME NEW p \in Spot, NEW c \in Content, SyncDrift(p, c) PROVE TypeOK'
  <2>1. [sync EXCEPT !.noted = @ \cup {p}] \in Sync
    BY <1>0
  <2>2. pool' \in PoolRow /\ intents' \subseteq Intent
    BY <1>0, <1>5, DecideType DEF SyncDrift
  <2>3. QED BY <1>5, <2>1, <2>2 DEF SyncDrift, TypeOK, plans, asked
<1>6. ASSUME NEW p \in Spot, NEW c \in Content, SyncRow(p, c) PROVE TypeOK'
  <2>1. [sync EXCEPT !.todo = @ \ {<<p, c>>}, !.noted = @ \ {p}] \in Sync
    BY <1>0
  <2>2. [content |-> c, managed |-> Managed(p)] \in Row
    <3>1. RowOf(p) \in Row \cup {NoRow}
      BY <1>0, BindingRowType DEF RowOf
    <3>2. Managed(p) \in BOOLEAN
      BY DEF Managed
    <3>3. QED BY <3>2 DEF Row
  <2>3. local' \in [Binding -> [Record -> Row \cup {NoRow}]]
    BY <1>0, <1>6, <2>2 DEF SyncRow, TypeOK
  <2>4. QED BY <1>6, <2>1, <2>3 DEF SyncRow, TypeOK, plans, asked
<1>7. QED BY <1>1, <1>2, <1>3, <1>4, <1>5, <1>6 DEF SyncNext

LEMMA WorldType ==
  ASSUME TypeOK, World
  PROVE  TypeOK'
<1>1. ASSUME NEW i \in jobs, LoseJob(i) PROVE TypeOK'
  BY <1>1, EventType DEF LoseJob, TypeOK, zone, asked
<1>2. ASSUME NEW status \in {account, "error"}, SyncFails(status) PROVE TypeOK'
  <2>1. Asleep \in [phase : {"idle", "records", "missing"}, todo : SUBSET (Spot \X Content),
                    missing : SUBSET Spot, noted : SUBSET Spot]
    BY DEF Asleep
  <2>2. QED BY <1>2, <2>1, EventType DEF SyncFails, TypeOK, plans, asked
<1>3. ASSUME NEW status \in {"active", "disabled"}, SetStatus(status) PROVE TypeOK'
  <2>1. events' \in 0 .. MaxEvents
    BY <1>3, EventType DEF SetStatus, TypeOK
  <2>2. QED BY <1>3, <2>1 DEF SetStatus, TypeOK, plans, zone, asked
<1>4. ASSUME NEW b \in Binding, NEW r \in Record, NEW c \in {Foreign, NoRow}, Tamper(b, r, c)
      PROVE  TypeOK'
  <2>1. c \in Content \cup {NoRow}
    BY DEF Content
  <2>2. remote' \in [Binding -> [Record -> Content \cup {NoRow}]]
    BY <1>4, <2>1 DEF Tamper, TypeOK
  <2>3. events' \in 0 .. MaxEvents
    BY <1>4, EventType DEF Tamper
  <2>4. QED BY <1>4, <2>2, <2>3 DEF Tamper, TypeOK, plans, asked
<1>5. QED BY <1>1, <1>2, <1>3, <1>4 DEF World

LEMMA TypeStep ==
  ASSUME TypeOK, [Next]_vars
  PROVE  TypeOK'
<1>1. CASE Next
  BY <1>1, EditType, AnswerType, ObservationType, PlannerType, StepType, DeletionType,
     SyncType, WorldType DEF Next
<1>2. CASE UNCHANGED vars
  BY <1>2 DEF TypeOK, vars
<1>3. QED BY <1>1, <1>2

LEMMA InitType == Init => TypeOK
<1> SUFFICES ASSUME Init PROVE TypeOK
  OBVIOUS
<1>1. PICK begin \in Beginnings :
        LET present == begin.present
            setting == begin.setting
            start == begin.start
            first == IF present = {} THEN NoEndpoint ELSE First(present)
            at == IF setting.strategy = "healthy_set" THEN present ELSE {first} \ {NoEndpoint}
        IN
        /\ pool = [enabled |-> TRUE, setting |-> setting, policy |-> 1, decision |-> 0,
                   cursors |-> Unsaid]
        /\ endpoint = [e \in Endpoint |-> IF e \in present
             THEN [lifecycle |-> "enabled", version |-> 1, health |-> "healthy"]
             ELSE [lifecycle |-> "absent", version |-> 0, health |-> "unknown"]]
        /\ binding = [b \in Binding |->
             [phase |-> IF start[b] = "published" THEN "bound" ELSE "absent",
              original |-> IF start[b] = "published" THEN first ELSE NoEndpoint,
              doomed |-> {}, stuck |-> FALSE]]
        /\ assigned = [b \in Binding |-> IF start[b] # "published" THEN Unassigned ELSE
             [desired |-> at, applied |-> at,
              record |-> [e \in Endpoint |-> IF e \in at THEN e ELSE NoRecord]]]
        /\ remote = [b \in Binding |-> [r \in Record |->
             CASE start[b] = "published" /\ r \in at -> <<r, 1>>
               [] start[b] = "foreign" /\ r = 1 -> Foreign
               [] OTHER -> NoRow]]
        /\ local = [b \in Binding |-> [r \in Record |-> IF remote[b][r] = NoRow THEN NoRow
             ELSE [content |-> remote[b][r], managed |-> start[b] = "published"]]]
        /\ intents = {} /\ jobs = {} /\ ops = {}
        /\ doubt = [b \in Binding |-> {}]
        /\ request = Idle /\ sync = Asleep /\ account = "active"
        /\ disturbed = {} /\ narrowed = {} /\ torn = FALSE /\ events = begin.spent
  BY DEF Init
<1> DEFINE present == begin.present
           setting == begin.setting
           start == begin.start
           first == IF present = {} THEN NoEndpoint ELSE First(present)
           at == IF setting.strategy = "healthy_set" THEN present ELSE {first} \ {NoEndpoint}
<1>2. /\ present \in SUBSET Endpoint /\ setting \in Settings /\ begin.spent \in 0 .. MaxEvents
      /\ {"unknown", "healthy"} \subseteq Reached
  BY PoolAssumption
<1>3. first \in Endpoint \cup {NoEndpoint} /\ at \in SUBSET Endpoint
  BY <1>2, FirstIsMember
<1>4. 1 \in Revision /\ 0 \in Nat /\ Unsaid \in [SUBSET Endpoint -> Endpoint \cup {NoEndpoint}]
  BY DEF Revision, Unsaid
<1>5. pool \in PoolRow
  BY <1>1, <1>2, <1>4 DEF PoolRow
<1>6. \A e \in Endpoint : 1 \in Version
  BY Numbers
<1>7. endpoint \in [Endpoint -> EndpointRow]
  <2>1. endpoint = [e \in Endpoint |-> IF e \in present
             THEN [lifecycle |-> "enabled", version |-> 1, health |-> "healthy"]
             ELSE [lifecycle |-> "absent", version |-> 0, health |-> "unknown"]]
    BY <1>1
  <2>2. QED BY <1>2, <1>6, <2>1 DEF EndpointRow
<1>8. binding \in [Binding -> BindingRow]
  <2>1. \A original \in Endpoint \cup {NoEndpoint} : \A phase \in {"bound", "absent"} :
          [phase |-> phase, original |-> original, doomed |-> {}, stuck |-> FALSE] \in BindingRow
    BY DEF BindingRow
  <2>2. binding = [b \in Binding |->
             [phase |-> IF start[b] = "published" THEN "bound" ELSE "absent",
              original |-> IF start[b] = "published" THEN first ELSE NoEndpoint,
              doomed |-> {}, stuck |-> FALSE]]
    BY <1>1
  <2> HIDE DEF first
  <2>3. QED BY <1>3, <2>1, <2>2
<1> HIDE DEF first
<1>9. assigned \in [Binding -> Assignment]
  <2>1. [e \in Endpoint |-> IF e \in at THEN e ELSE NoRecord] \in [Endpoint -> Record \cup {NoRecord}]
    BY Numbers
  <2>2. assigned = [b \in Binding |-> IF start[b] # "published" THEN Unassigned ELSE
             [desired |-> at, applied |-> at,
              record |-> [e \in Endpoint |-> IF e \in at THEN e ELSE NoRecord]]]
    BY <1>1 DEF first
  <2> HIDE DEF at
  <2>3. [desired |-> at, applied |-> at,
         record |-> [e \in Endpoint |-> IF e \in at THEN e ELSE NoRecord]] \in Assignment
    BY <1>3, <2>1 DEF Assignment
  <2>4. QED BY <2>2, <2>3, UnassignedType
<1>10. remote \in [Binding -> [Record -> Content \cup {NoRow}]]
  <2>1. remote = [b \in Binding |-> [r \in Record |->
             CASE start[b] = "published" /\ r \in at -> <<r, 1>>
               [] start[b] = "foreign" /\ r = 1 -> Foreign
               [] OTHER -> NoRow]]
    BY <1>1 DEF first
  <2>2. \A r \in at : <<r, 1>> \in Content
    BY <1>3, <1>6 DEF Content, Address
  <2>3. Foreign \in Content
    BY DEF Content
  <2> HIDE DEF at
  <2>4. QED BY <2>1, <2>2, <2>3
<1>11. local \in [Binding -> [Record -> Row \cup {NoRow}]]
  <2>1. local = [b \in Binding |-> [r \in Record |-> IF remote[b][r] = NoRow THEN NoRow
             ELSE [content |-> remote[b][r], managed |-> start[b] = "published"]]]
    BY <1>1
  <2>2. \A c \in Content : \A m \in BOOLEAN : [content |-> c, managed |-> m] \in Row
    BY DEF Row
  <2>3. QED BY <1>10, <2>1, <2>2
<1>12. /\ request \in [next : {"idle", "record", "enqueue"}, reconcile : BOOLEAN, force : BOOLEAN]
       /\ sync \in [phase : {"idle", "records", "missing"}, todo : SUBSET (Spot \X Content),
                    missing : SUBSET Spot, noted : SUBSET Spot]
  BY <1>1 DEF Idle, Asleep
<1>13. /\ intents = {} /\ jobs = {} /\ ops = {} /\ doubt = [b \in Binding |-> {}]
       /\ account = "active" /\ disturbed = {} /\ narrowed = {} /\ torn = FALSE /\ events = begin.spent
  BY <1>1
<1>14. QED
  BY <1>2, <1>5, <1>7, <1>8, <1>9, <1>10, <1>11, <1>12, <1>13 DEF TypeOK

\* Every variable has the type that TypeOK says, for any endpoints, bindings,
\* records, settings and beginnings.
THEOREM TypeCorrect == Spec => []TypeOK
<1>1. Init => TypeOK
  BY InitType
<1>2. TypeOK /\ [Next]_vars => TypeOK'
  BY TypeStep
<1>3. QED BY <1>1, <1>2, PTL DEF Spec

-----------------------------------------------------------------------------
(* Plans that are current are eligible.                                    *)

\* No plan or intent is of a revision that is yet to come.
RevisionsGrow ==
  /\ \A op \in ops : op.policy <= pool.policy /\ op.decision <= pool.decision
  /\ \A i \in intents : i.decision <= pool.decision

\* The revisions of the pool after a step.
Grows ==
  /\ pool.policy <= pool'.policy
  /\ pool'.decision \in {pool.decision, pool.decision + 1}
  /\ \/ intents' \subseteq intents
     \/ \E new : /\ intents' \subseteq intents \cup {new}
                 /\ new.decision = pool.decision + 1 /\ pool'.decision = new.decision

Overtakes == pool.policy < pool'.policy \/ pool.decision < pool'.decision

\* What is left of an operation when some of its steps are done or tried.
Descends(op, old) ==
  /\ op.decision = old.decision /\ op.policy = old.policy
  /\ op.force = old.force /\ op.single = old.single
  /\ \A s \in op.steps : s \in old.steps \/ \E t \in old.steps : s = [t EXCEPT !.tried = TRUE]

OpsDiffer == \A op, other \in ops : op.decision = other.decision => op = other

OpsDescend ==
  /\ \A op \in ops' : \E old \in ops : Descends(op, old)
  /\ OpsDiffer => OpsDiffer'

LEMMA SameOpsDescend == ops' \subseteq ops => OpsDescend
BY DEF OpsDescend, OpsDiffer, Descends

LEMMA WithStepsDescend ==
  ASSUME TypeOK, NEW op \in ops, NEW s \in op.steps,
         \/ ops' = WithSteps(op, s, {})
         \/ ops' = WithSteps(op, s, {[s EXCEPT !.tried = TRUE]})
  PROVE  OpsDescend
<1>1. PICK S \in SUBSET {[s EXCEPT !.tried = TRUE]} : ops' = WithSteps(op, s, S)
  OBVIOUS
<1> DEFINE left == (op.steps \ {s}) \cup S
           new == [op EXCEPT !.steps = left]
<1>2. ops' \subseteq (ops \ {op}) \cup {new}
  BY <1>1 DEF WithSteps
<1>3. op \in Operation
  BY DEF TypeOK
<1>4. /\ new.decision = op.decision /\ new.policy = op.policy /\ new.force = op.force
      /\ new.single = op.single /\ new.steps = left
  BY <1>3 DEF Operation
<1>5. Descends(new, op)
  BY <1>4 DEF Descends
<1> HIDE DEF new
<1>6. \A old \in ops : Descends(old, old)
  BY DEF Descends
<1>7. OpsDiffer => OpsDiffer'
  BY <1>2, <1>4 DEF OpsDiffer
<1>8. QED BY <1>2, <1>5, <1>6, <1>7 DEF OpsDescend

LEMMA DecideGrows ==
  ASSUME TypeOK, NEW p \in PoolRow, NEW trigger, NEW force, Decide(p, trigger, force),
         p.decision = pool.decision, pool.policy <= p.policy
  PROVE  Grows /\ Overtakes
<1>1. /\ pool'.decision = p.decision + 1 /\ pool'.policy = p.policy
      /\ intents' = intents \cup {IntentOf(pool', trigger, force)}
  BY DEF Decide, PoolRow
<1>2. pool.decision \in Nat
  BY DEF TypeOK, PoolRow
<1>3. IntentOf(pool', trigger, force).decision = pool'.decision
  BY DEF IntentOf
<1>4. intents' \subseteq intents \cup {IntentOf(pool', trigger, force)}
  BY <1>1
<1>5. QED BY <1>1, <1>2, <1>3, <1>4 DEF Grows, Overtakes

LEMMA DecidePoolGrows ==
  ASSUME TypeOK, NEW trigger, NEW force, Decide(pool, trigger, force)
  PROVE  Grows /\ Overtakes
<1>1. pool \in PoolRow /\ pool.policy <= pool.policy
  BY DEF TypeOK, PoolRow, Revision
<1>2. QED BY <1>1, DecideGrows

LEMMA BumpGrows ==
  ASSUME TypeOK
  PROVE  /\ BumpPolicy.decision = pool.decision /\ BumpPolicy.policy = pool.policy + 1
         /\ pool' = BumpPolicy /\ intents' \subseteq intents => Grows /\ Overtakes
<1>1. pool.decision \in Nat /\ pool.policy \in Nat
  BY DEF TypeOK, PoolRow, Revision
<1>2. BumpPolicy.decision = pool.decision /\ BumpPolicy.policy = pool.policy + 1
  BY DEF BumpPolicy, TypeOK, PoolRow
<1>3. QED BY <1>1, <1>2 DEF Grows, Overtakes

LEMMA StillGrows ==
  ASSUME TypeOK, pool'.decision = pool.decision, pool'.policy = pool.policy,
         intents' \subseteq intents
  PROVE  Grows
<1>1. pool.decision \in Nat /\ pool.policy \in Nat
  BY DEF TypeOK, PoolRow, Revision
<1>2. QED BY <1>1 DEF Grows

\* How a step keeps plans eligible that it does not make.
Keeps == OpsDescend /\ (Overtakes \/ Half' \/ (endpoint' = endpoint /\ ~Half))

\* A health that changes without a decision.
Wavers ==
  /\ UNCHANGED <<pool, ops, binding, assigned, request, torn>>
  /\ \E e \in Endpoint : \E health \in Reached :
       /\ endpoint' = [endpoint EXCEPT ![e].health = health]
       /\ HealthyEnough(endpoint[e].health) => HealthyEnough(health)

LEMMA AskKeeps ==
  ASSUME NEW reconcile, NEW force, Ask(reconcile, force)
  PROVE  Keeps
<1>1. ops' = ops
  BY DEF Ask, plans
<1>2. request'.next = "record"
  BY DEF Ask
<1>3. request' # Idle
  BY <1>2 DEF Idle
<1>4. QED BY <1>1, <1>3, SameOpsDescend DEF Keeps, Half

LEMMA AskGrows ==
  ASSUME TypeOK, NEW reconcile, NEW force, Ask(reconcile, force),
         pool'.decision = pool.decision, pool'.policy = pool.policy
  PROVE  Grows /\ Keeps
<1>1. intents' \subseteq intents
  BY DEF Ask
<1>2. QED BY <1>1, StillGrows, AskKeeps

LEMMA SettingsStay ==
  ASSUME TypeOK
  PROVE  /\ \A setting : /\ [pool EXCEPT !.setting = setting].decision = pool.decision
                         /\ [pool EXCEPT !.setting = setting].policy = pool.policy
         /\ \A enabled : /\ [pool EXCEPT !.enabled = enabled].decision = pool.decision
                         /\ [pool EXCEPT !.enabled = enabled].policy = pool.policy
         /\ \A cursors : /\ [pool EXCEPT !.cursors = cursors].decision = pool.decision
                         /\ [pool EXCEPT !.cursors = cursors].policy = pool.policy
BY DEF TypeOK, PoolRow

LEMMA EditKeeps ==
  ASSUME TypeOK, Edit
  PROVE  Grows /\ Keeps
<1>1. ASSUME NEW setting \in Settings, UpdatePool(setting)
      PROVE  Grows /\ Keeps
  BY <1>1, AskGrows, SettingsStay DEF UpdatePool
<1>2. ASSUME Pause \/ Resume
      PROVE  Grows /\ Keeps
  BY <1>2, AskGrows, SettingsStay DEF Pause, Resume
<1>3. ASSUME NEW e \in Endpoint, NEW lifecycle, NEW force,
             CreateEndpoint(e) \/ UpdateLifecycle(e, lifecycle) \/ UpdateAddress(e, force)
      PROVE  Grows /\ Keeps
  BY <1>3, AskGrows DEF CreateEndpoint, UpdateLifecycle, UpdateAddress
<1>4. ASSUME NEW b \in Binding, NEW e, NEW force, CreateBinding(b, e) \/ UpdateBinding(b, e, force)
      PROVE  Grows /\ Keeps
  BY <1>4, AskGrows DEF CreateBinding, UpdateBinding
<1>5. ASSUME CreateHealthCheck
      PROVE  Grows /\ Keeps
  BY <1>5, AskGrows DEF CreateHealthCheck
<1>6. ASSUME NEW b \in Binding, NEW e \in Endpoint, NEW r \in Record, TakeOver(b, e, r)
      PROVE  Grows /\ Keeps
  <2>1. request'.next = "record" /\ pool' = pool /\ intents' = intents /\ ops' = ops
    BY <1>6 DEF TakeOver, plans
  <2>2. request' # Idle
    BY <2>1 DEF Idle
  <2>3. Grows
    BY <2>1, StillGrows
  <2>4. QED BY <2>1, <2>2, <2>3, SameOpsDescend DEF Keeps, Half
<1>7. ASSUME \/ DeleteHealthCheck
             \/ \E e \in Endpoint : DeleteEndpoint(e)
      PROVE  Grows /\ Keeps
  <2>1. pool' = BumpPolicy /\ intents' = intents /\ ops' = ops
    BY <1>7 DEF DeleteHealthCheck, DeleteEndpoint, plans
  <2>2. QED BY <2>1, BumpGrows, SameOpsDescend DEF Keeps
<1>8. ASSUME NEW force \in BOOLEAN, ReconcileRequest(force)
      PROVE  Grows /\ Keeps
  BY <1>8, DecidePoolGrows, SameOpsDescend DEF ReconcileRequest, plans, Keeps
<1>9. ASSUME NEW setting \in Settings, NEW lifecycle, NEW version, NEW force,
             Restore(setting, lifecycle, version, force)
      PROVE  Grows /\ Keeps
  <2> DEFINE p == [BumpPolicy EXCEPT !.setting = setting, !.enabled = TRUE,
                                     !.cursors = [S \in SUBSET Endpoint |-> NoEndpoint]]
  <2>1. p \in PoolRow /\ p.decision = BumpPolicy.decision /\ p.policy = BumpPolicy.policy
    BY BumpType DEF PoolRow
  <2>2. Decide(p, "configuration", force) /\ ops' = ops
    BY <1>9 DEF Restore, plans
  <2> HIDE DEF p
  <2>3. pool.policy \in Nat
    BY DEF TypeOK, PoolRow, Revision
  <2>4. p.decision = pool.decision /\ pool.policy <= p.policy
    BY <2>1, <2>3, BumpGrows
  <2>5. Grows /\ Overtakes
    BY <2>1, <2>2, <2>4, DecideGrows
  <2>6. QED BY <2>2, <2>5, SameOpsDescend DEF Keeps
<1>10. QED
  BY <1>1, <1>2, <1>3, <1>4, <1>5, <1>6, <1>7, <1>8, <1>9 DEF Edit

LEMMA AnswerKeeps ==
  ASSUME TypeOK, Answer
  PROVE  Grows /\ Keeps
<1>1. ASSUME RecordPolicyChange PROVE Grows /\ Keeps
  BY <1>1, BumpGrows, SameOpsDescend DEF RecordPolicyChange, plans, Keeps
<1>2. ASSUME EnqueueReconcile PROVE Grows /\ Keeps
  BY <1>2, DecidePoolGrows, SameOpsDescend DEF EnqueueReconcile, plans, Keeps
<1>3. ASSUME StopHalfway PROVE Grows /\ Keeps
  BY <1>3, StillGrows, SameOpsDescend DEF StopHalfway, plans, Keeps, Half
<1>4. QED BY <1>1, <1>2, <1>3 DEF Answer

LEMMA ObservationKeeps ==
  ASSUME TypeOK, Observation
  PROVE  Grows /\ (Keeps \/ Wavers)
<1>1. ASSUME NEW e \in Endpoint, NEW health \in Reached, Observe(e, health)
      PROVE  Grows /\ (Keeps \/ Wavers)
  <2>1. ops' = ops
    BY <1>1 DEF Observe, plans
  <2>2. CASE Decide(pool, "failure", FALSE) \/ Decide(pool, "recovery", FALSE)
    BY <2>1, <2>2, DecidePoolGrows, SameOpsDescend DEF Keeps
  <2>3. CASE UNCHANGED <<pool, intents>> /\ health \notin {"healthy", "unhealthy"}
    <3>1. endpoint[e].health = "healthy" \/ endpoint[e].health = "unhealthy"
      BY <1>1, <2>3 DEF Observe, HealthSteps
    <3>2. HealthyEnough(endpoint[e].health) => HealthyEnough(health)
      BY <1>1, <2>3, <3>1 DEF Observe, HealthSteps, HealthyEnough
    <3>3. Wavers
      BY <1>1, <2>3, <3>2 DEF Observe, Wavers, plans, asked
    <3>4. QED BY <2>3, <3>3, StillGrows
  <2>4. QED BY <1>1, <2>2, <2>3 DEF Observe
<1>2. ASSUME NEW e \in Endpoint, Promote(e)
      PROVE  Grows /\ Keeps
  BY <1>2, DecidePoolGrows, SameOpsDescend DEF Promote, plans, Keeps
<1>3. QED BY <1>1, <1>2 DEF Observation

\* Elsewhere no endpoint changes and no request goes on.
LEMMA AsideKeeps ==
  ASSUME TypeOK, UNCHANGED <<endpoint, request, torn>>, OpsDescend
  PROVE  Keeps
BY DEF Keeps, Half

LEMMA DeletionKeeps ==
  ASSUME TypeOK, Deletion
  PROVE  Grows /\ Keeps
<1>1. PICK b \in Binding :
        \/ DeleteBinding(b) \/ ReadBack(b) \/ FinishDeletion(b)
        \/ \E r \in Record : \/ Erase(b, r)
                             \/ EraseLosesAnswer(b, r)
                             \/ \E status \in {account, "error"} : EraseFails(b, r, status)
  BY DEF Deletion
<1>2. UNCHANGED <<endpoint, request, torn, intents, ops>> /\ (pool' = pool \/ pool' = BumpPolicy)
  <2>1. CASE DeleteBinding(b)
    BY <2>1 DEF DeleteBinding, StartErasing, Gone, asked
  <2>2. CASE ReadBack(b)
    BY <2>2 DEF ReadBack, StartErasing, Gone, asked
  <2>3. CASE FinishDeletion(b)
    BY <2>3 DEF FinishDeletion, Gone, asked
  <2>4. ASSUME NEW r \in Record, Erase(b, r) \/ EraseLosesAnswer(b, r)
        PROVE  UNCHANGED <<endpoint, request, torn, intents, ops, pool>>
    BY <2>4 DEF Erase, EraseLosesAnswer, plans, asked
  <2>5. ASSUME NEW r \in Record, NEW status, EraseFails(b, r, status)
        PROVE  UNCHANGED <<endpoint, request, torn, intents, ops, pool>>
    BY <2>5 DEF EraseFails, plans, asked
  <2>6. QED BY <1>1, <2>1, <2>2, <2>3, <2>4, <2>5
<1>3. Grows
  BY <1>2, StillGrows, BumpGrows
<1>4. QED BY <1>2, <1>3, AsideKeeps, SameOpsDescend

LEMMA SyncKeeps ==
  ASSUME TypeOK, SyncNext
  PROVE  Grows /\ Keeps
<1>1. /\ UNCHANGED <<endpoint, request, torn, ops>>
      /\ UNCHANGED <<pool, intents>> \/ Decide(pool, "repair", FALSE)
  BY DEF SyncNext, SyncStart, SyncMissing, SyncEnd, SyncLost, SyncDrift, SyncRow, plans, asked
<1>2. Grows
  BY <1>1, StillGrows, DecidePoolGrows
<1>3. QED BY <1>1, <1>2, AsideKeeps, SameOpsDescend

LEMMA WorldKeeps ==
  ASSUME TypeOK, World
  PROVE  Grows /\ Keeps
<1>1. UNCHANGED <<endpoint, request, torn, ops, pool, intents>>
  <2>1. ASSUME NEW i, LoseJob(i) PROVE UNCHANGED <<endpoint, request, torn, ops, pool, intents>>
    BY <2>1 DEF LoseJob, asked
  <2>2. ASSUME NEW status, SyncFails(status) \/ SetStatus(status)
        PROVE  UNCHANGED <<endpoint, request, torn, ops, pool, intents>>
    BY <2>2 DEF SyncFails, SetStatus, plans, asked
  <2>3. ASSUME NEW b, NEW r, NEW c, Tamper(b, r, c)
        PROVE  UNCHANGED <<endpoint, request, torn, ops, pool, intents>>
    BY <2>3 DEF Tamper, plans, asked
  <2>4. QED BY <2>1, <2>2, <2>3 DEF World
<1>2. QED BY <1>1, StillGrows, AsideKeeps, SameOpsDescend

LEMMA StepKeeps ==
  ASSUME TypeOK, StepNext
  PROVE  Grows /\ Keeps
<1>1. PICK op \in ops :
        \/ Supersede(op)
        \/ \E s \in op.steps :
             \/ \E status \in {account, "error"} : FailStep(op, s, status)
             \/ \E r \in Record : \/ RunStep(op, s, r)
                                  \/ \E written \in BOOLEAN : LoseAnswer(op, s, r, written)
  BY DEF StepNext
<1>2. UNCHANGED <<endpoint, request, torn, pool, intents>> /\ OpsDescend
  <2>1. CASE Supersede(op)
    BY <2>1, SameOpsDescend DEF Supersede, asked
  <2>2. ASSUME NEW s \in op.steps, NEW status, FailStep(op, s, status)
        PROVE  UNCHANGED <<endpoint, request, torn, pool, intents>> /\ OpsDescend
    BY <2>2, WithStepsDescend DEF FailStep, asked
  <2>3. ASSUME NEW s \in op.steps, NEW r \in Record, RunStep(op, s, r)
        PROVE  UNCHANGED <<endpoint, request, torn, pool, intents>> /\ OpsDescend
    BY <2>3, WithStepsDescend DEF RunStep, asked
  <2>4. ASSUME NEW s \in op.steps, NEW r \in Record, NEW written, LoseAnswer(op, s, r, written)
        PROVE  UNCHANGED <<endpoint, request, torn, pool, intents>> /\ OpsDescend
    BY <2>4, WithStepsDescend DEF LoseAnswer, asked
  <2>5. QED BY <1>1, <2>1, <2>2, <2>3, <2>4
<1>3. QED BY <1>2, StillGrows, AsideKeeps

\* The reconcile of an intent.
OpOf(i, hash, first) ==
  [decision |-> i.decision, policy |-> i.policy, force |-> i.force,
   steps |-> PlanOf(i, hash, first),
   single |-> ContextOf(i, hash).strategy # "healthy_set"]

Plans ==
  \E i \in jobs : \E hash \in Hash, first \in Firsts : Reconcile(i, hash, first)

LEMMA PlannerKeeps ==
  ASSUME TypeOK, Outbox \/ Worker
  PROVE  Grows /\ (Keeps \/ Plans)
<1>1. \/ UNCHANGED <<endpoint, request, torn, pool, ops>> /\ intents' \subseteq intents
      \/ Plans
  BY DEF Outbox, Worker, Work, Dispatch, Settle, ProviderUnavailable, Plans, asked
<1>2. CASE UNCHANGED <<endpoint, request, torn, pool, ops>> /\ intents' \subseteq intents
  BY <1>2, StillGrows, AsideKeeps, SameOpsDescend
<1>3. CASE Plans
  <2>1. PICK i \in jobs : \E hash \in Hash, first \in Firsts : Reconcile(i, hash, first)
    BY <1>3 DEF Plans
  <2>2. PICK hash \in Hash, first \in Firsts : Reconcile(i, hash, first)
    BY <2>1
  <2>3. /\ pool' = [pool EXCEPT !.cursors = NextCursors(ContextOf(i, hash))]
        /\ intents' \subseteq intents
    BY <2>2 DEF Reconcile
  <2>4. pool'.decision = pool.decision /\ pool'.policy = pool.policy
    BY <2>3, SettingsStay, Zenon
  <2>5. QED BY <1>3, <2>3, <2>4, StillGrows
<1>4. QED BY <1>1, <1>2, <1>3

LEMMA NextKeeps ==
  ASSUME TypeOK, [Next]_vars
  PROVE  Grows /\ (Keeps \/ Wavers \/ Plans)
<1>1. CASE Next
  BY <1>1, EditKeeps, AnswerKeeps, ObservationKeeps, PlannerKeeps, StepKeeps, DeletionKeeps,
     SyncKeeps, WorldKeeps DEF Next
<1>2. CASE UNCHANGED vars
  BY <1>2, StillGrows, AsideKeeps, SameOpsDescend DEF vars
<1>3. QED BY <1>1, <1>2

\* A step of op that the executor may still run publishes a fit address.
Eligible(op) ==
  \A s \in op.steps : s.action # "delete" =>
    /\ endpoint[s.endpoint].lifecycle = "enabled"
    /\ s.content = Published(s.endpoint)
    /\ op.force \/ HealthyEnough(endpoint[s.endpoint].health)

LEMMA DescendantsAreEligible ==
  ASSUME TypeOK, NEW op, NEW old \in ops, Descends(op, old), Eligible(old)
  PROVE  Eligible(op)
<1>1. \A t \in old.steps : LET s == [t EXCEPT !.tried = TRUE] IN
        s.action = t.action /\ s.endpoint = t.endpoint /\ s.content = t.content
  BY DEF TypeOK, Operation, Step
<1>2. ASSUME NEW s \in op.steps
      PROVE  \E t \in old.steps :
               s.action = t.action /\ s.endpoint = t.endpoint /\ s.content = t.content
  BY <1>1 DEF Descends
<1>3. QED BY <1>2 DEF Eligible, Descends

EligibleInv == TypeOK /\ RevisionsGrow /\ CurrentPlansAreEligible

\* What a reconcile adds to the operations.
LEMMA PlansAre ==
  ASSUME TypeOK, Plans
  PROVE  \E i \in jobs \cap intents : \E hash \in Hash, first \in Firsts :
           /\ Reconcile(i, hash, first)
           /\ i \in Intent /\ Current(i)
           /\ ops' \subseteq ops \cup {OpOf(i, hash, first)}
           /\ intents' = intents \ {i}
           /\ pool' = [pool EXCEPT !.cursors = NextCursors(ContextOf(i, hash))]
           /\ UNCHANGED <<endpoint, binding, doubt, local, remote, sync, account, disturbed,
                          request, torn>>
<1>1. PICK i \in jobs : \E hash \in Hash, first \in Firsts : Reconcile(i, hash, first)
  BY DEF Plans
<1>2. PICK hash \in Hash, first \in Firsts : Reconcile(i, hash, first)
  BY <1>1
<1>3. i \in jobs \cap intents /\ i \in Intent
  BY <1>2 DEF Reconcile, TypeOK
<1>4. /\ Current(i)
      /\ ops' \subseteq ops \cup {OpOf(i, hash, first)}
      /\ intents' = intents \ {i}
      /\ pool' = [pool EXCEPT !.cursors = NextCursors(ContextOf(i, hash))]
      /\ UNCHANGED <<endpoint, binding, doubt, local, remote, sync, account, disturbed, request, torn>>
  BY <1>2 DEF Reconcile, OpOf, PlanOf, zone, asked
<1>5. QED BY <1>2, <1>3, <1>4

LEMMA OpOfIs ==
  ASSUME NEW i, NEW hash, NEW first
  PROVE  LET op == OpOf(i, hash, first) IN
         /\ op.decision = i.decision /\ op.policy = i.policy /\ op.force = i.force
         /\ op.steps = PlanOf(i, hash, first)
         /\ op.single = (ContextOf(i, hash).strategy # "healthy_set")
BY DEF OpOf

LEMMA RevisionsStep ==
  ASSUME TypeOK, RevisionsGrow, [Next]_vars
  PROVE  RevisionsGrow'
<1>1. Grows /\ (OpsDescend \/ Plans)
  <2>1. Wavers => OpsDescend
    BY SameOpsDescend DEF Wavers
  <2>2. QED BY <2>1, NextKeeps DEF Keeps
<1>2. /\ pool.decision \in Nat /\ pool.policy \in Nat
      /\ \A op \in ops : op.decision \in Nat /\ op.policy \in Nat
      /\ \A i \in intents : i.decision \in Nat
  BY DEF TypeOK, PoolRow, Operation, Intent, Revision
<1>3. pool'.decision \in {pool.decision, pool.decision + 1} /\ pool.policy <= pool'.policy
  BY <1>1 DEF Grows
<1>4. pool'.policy \in Nat
  BY TypeStep DEF TypeOK, PoolRow, Revision
<1>5. ASSUME NEW i \in intents' PROVE i.decision <= pool'.decision
  BY <1>1, <1>2, <1>3 DEF Grows, RevisionsGrow
<1>6. ASSUME NEW op \in ops, NEW p, op.policy <= p, NEW d, op.decision <= d,
             p \in Nat, d \in Nat, p <= pool'.policy, d <= pool'.decision
      PROVE  op.policy <= pool'.policy /\ op.decision <= pool'.decision
  BY <1>2, <1>3, <1>4, <1>6
<1>7. ASSUME NEW op \in ops PROVE op.policy <= pool'.policy /\ op.decision <= pool'.decision
  <2>1. op.policy <= pool.policy /\ op.decision <= pool.decision
    BY DEF RevisionsGrow
  <2>2. pool.decision <= pool'.decision
    BY <1>2, <1>3
  <2>3. QED BY <1>2, <1>3, <1>6, <2>1, <2>2
<1>8. CASE OpsDescend
  <2>1. ASSUME NEW op \in ops' PROVE op.policy <= pool'.policy /\ op.decision <= pool'.decision
    BY <1>7, <1>8 DEF OpsDescend, Descends
  <2>2. QED BY <1>5, <2>1 DEF RevisionsGrow
<1>9. CASE Plans
  <2>1. PICK i \in jobs \cap intents, hash \in Hash, first \in Firsts :
          Current(i) /\ ops' \subseteq ops \cup {OpOf(i, hash, first)}
    BY <1>9, PlansAre
  <2>2. i.policy = pool.policy /\ i.decision = pool.decision
    BY <2>1 DEF Current
  <2>3. pool.decision <= pool'.decision
    BY <1>2, <1>3
  <2>4. OpOf(i, hash, first).policy <= pool'.policy /\ OpOf(i, hash, first).decision <= pool'.decision
    BY <1>3, <2>2, <2>3, OpOfIs
  <2>5. ASSUME NEW op \in ops' PROVE op.policy <= pool'.policy /\ op.decision <= pool'.decision
    BY <1>7, <2>1, <2>4
  <2>6. QED BY <1>5, <2>5 DEF RevisionsGrow
<1>10. QED BY <1>1, <1>8, <1>9

\* What is current after a step that does not overtake was so before.
LEMMA StillCurrent ==
  ASSUME TypeOK, RevisionsGrow, Grows, NEW op \in ops,
         pool'.policy = op.policy, pool'.decision = op.decision
  PROVE  Current(op) /\ ~Overtakes
<1>1. /\ pool.decision \in Nat /\ pool.policy \in Nat
      /\ op.decision \in Nat /\ op.policy \in Nat
  BY DEF TypeOK, PoolRow, Operation, Revision
<1>2. op.policy <= pool.policy /\ op.decision <= pool.decision
  BY DEF RevisionsGrow
<1>3. op.policy = pool.policy
  BY <1>1, <1>2 DEF Grows
<1>4. op.decision = pool.decision
  BY <1>1, <1>2 DEF Grows
<1>5. QED BY <1>1, <1>3, <1>4 DEF Current, Overtakes

LEMMA EligibleStep ==
  ASSUME EligibleInv, [Next]_vars
  PROVE  CurrentPlansAreEligible'
<1>1. TypeOK /\ RevisionsGrow /\ Grows
  BY NextKeeps DEF EligibleInv
<1>2. ASSUME ~Half'
      PROVE  \A op \in ops' : Current(op)' => Eligible(op)'
  <2>1. ASSUME Keeps, NEW op \in ops', Current(op)'
        PROVE  Eligible(op)'
    <3>1. PICK old \in ops : Descends(op, old)
      BY <2>1 DEF Keeps, OpsDescend
    <3>2. pool'.policy = old.policy /\ pool'.decision = old.decision
      BY <2>1, <3>1 DEF Current, Descends
    <3>3. Current(old) /\ ~Overtakes
      BY <1>1, <3>2, StillCurrent
    <3>4. endpoint' = endpoint /\ ~Half
      BY <1>2, <2>1, <3>3 DEF Keeps
    <3>5. Eligible(old)
      BY <3>3, <3>4 DEF EligibleInv, CurrentPlansAreEligible, Eligible
    <3>6. Eligible(op)
      BY <1>1, <3>1, <3>5, DescendantsAreEligible
    <3>7. QED BY <3>4, <3>6 DEF Eligible, Published
  <2>2. ASSUME Wavers, NEW op \in ops', Current(op)'
        PROVE  Eligible(op)'
    <3>1. op \in ops /\ Current(op) /\ ~Half
      BY <1>2, <2>2 DEF Wavers, Current, Half
    <3>2. Eligible(op)
      BY <3>1 DEF EligibleInv, CurrentPlansAreEligible, Eligible
    <3>3. op.steps \in SUBSET Step
      BY <1>1, <3>1 DEF TypeOK, Operation
    <3>4. \A s \in op.steps : s.endpoint \in Endpoint
      BY <3>3 DEF Step
    <3>5. PICK e \in Endpoint : \E health \in Reached :
            /\ endpoint' = [endpoint EXCEPT ![e].health = health]
            /\ HealthyEnough(endpoint[e].health) => HealthyEnough(health)
      BY <2>2 DEF Wavers
    <3>6. PICK health \in Reached :
            /\ endpoint' = [endpoint EXCEPT ![e].health = health]
            /\ HealthyEnough(endpoint[e].health) => HealthyEnough(health)
      BY <3>5
    <3>7. \A f \in Endpoint :
            /\ endpoint'[f].lifecycle = endpoint[f].lifecycle
            /\ endpoint'[f].version = endpoint[f].version
            /\ HealthyEnough(endpoint[f].health) => HealthyEnough(endpoint'[f].health)
      BY <1>1, <3>6 DEF TypeOK, EndpointRow
    <3>8. QED BY <3>2, <3>4, <3>7 DEF Eligible, Published
  <2>3. ASSUME Plans, NEW op \in ops', Current(op)'
        PROVE  Eligible(op)'
    <3>1. PICK i \in jobs \cap intents, hash \in Hash, first \in Firsts :
            /\ i \in Intent
            /\ ops' \subseteq ops \cup {OpOf(i, hash, first)}
            /\ UNCHANGED <<endpoint, request, torn>>
      BY <1>1, <2>3, PlansAre
    <3>2. CASE op \in ops
      <4>1. pool'.policy = op.policy /\ pool'.decision = op.decision
        BY <2>3 DEF Current
      <4>2. Current(op) /\ ~Half
        BY <1>1, <1>2, <3>1, <3>2, <4>1, StillCurrent DEF Half
      <4>3. Eligible(op)
        BY <3>2, <4>2 DEF EligibleInv, CurrentPlansAreEligible, Eligible
      <4>4. QED BY <3>1, <4>3 DEF Eligible, Published
    <3>3. CASE op = OpOf(i, hash, first)
      <4>1. op.steps = PlanOf(i, hash, first) /\ op.force = i.force
        BY <3>3, OpOfIs
      <4>2. Eligible(op)
        BY <1>1, <3>1, <4>1, PlanIsEligible DEF Eligible
      <4>3. QED BY <3>1, <4>2 DEF Eligible, Published
    <3>4. QED BY <2>3, <3>1, <3>2, <3>3
  <2>4. QED BY <1>1, <2>1, <2>2, <2>3, NextKeeps
<1>3. QED BY <1>2 DEF CurrentPlansAreEligible, Eligible

LEMMA NoPlansYet == Init => ops = {} /\ intents = {}
BY DEF Init

\* While no edit is half-way, a current plan publishes only current addresses
\* of endpoints in service which are healthy enough, or which a user forced.
THEOREM CurrentPlansAreEligibleAlways == Spec => []CurrentPlansAreEligible
<1>1. Init => EligibleInv
  BY InitType, NoPlansYet DEF EligibleInv, RevisionsGrow, CurrentPlansAreEligible
<1>2. EligibleInv /\ [Next]_vars => EligibleInv'
  <2>1. ASSUME EligibleInv, [Next]_vars PROVE TypeOK' /\ RevisionsGrow'
    BY <2>1, TypeStep, RevisionsStep DEF EligibleInv
  <2>2. QED BY <2>1, EligibleStep DEF EligibleInv
<1>3. EligibleInv => CurrentPlansAreEligible
  BY DEF EligibleInv
<1>4. QED BY <1>1, <1>2, <1>3, PTL DEF Spec

-----------------------------------------------------------------------------
(* Records, assignments and plans.                                         *)

ManagedRow(b, r) == local[b][r] # NoRow /\ local[b][r].managed

\* The assignments of a binding with their records.
Sound(b) ==
  /\ assigned[b].applied = {e \in Endpoint : assigned[b].record[e] # NoRecord}
  /\ binding[b].phase = "absent" => assigned[b].applied = {}
  /\ \A e, f \in assigned[b].applied : assigned[b].record[e] = assigned[b].record[f] => e = f
  /\ \A e \in assigned[b].applied :
       assigned[b].record[e] \in Rows(b) \/ remote[b][assigned[b].record[e]] = NoRow
  /\ binding[b].phase = "bound" /\ b \notin narrowed =>
       \A r \in Record : ManagedRow(b, r) => \E e \in assigned[b].applied : assigned[b].record[e] = r

\* The rows of a binding agree with the provider.
Faithful(b) ==
  /\ \A r \in Record : remote[b][r] = IF local[b][r] = NoRow THEN NoRow ELSE local[b][r].content
  /\ doubt[b] = {}
  /\ binding[b].phase = "bound" => \A r \in Rows(b) : local[b][r].managed
  /\ binding[b].phase = "deleting" /\ b \notin narrowed => Rows(b) \subseteq binding[b].doomed

BindingsAreSound ==
  \A b \in Binding : Sound(b) /\ (b \notin disturbed => Faithful(b))

\* A synchronisation finds something only where there was a disturbance.
SyncIsSound ==
  /\ sync.phase = "idle" => sync.todo = {} /\ sync.missing = {}
  /\ \A x \in sync.todo : x[1][1] \in disturbed
  /\ \A p \in sync.missing : p[1] \in disturbed /\ RemoteOf(p) = NoRow

\* A step for the one record that its name has.
AsOne(op, s) == op.single /\ s.binding \notin narrowed

\* Where a step runs, no other step and no other record is in its way.
Holds(op, s) ==
  /\ \A t \in op.steps :
       t.binding = s.binding /\ (AsOne(op, s) \/ (~op.single /\ t.endpoint = s.endpoint)) => t = s
  /\ AsOne(op, s) =>
       /\ s.action # "delete"
       /\ \A r \in Record : ManagedRow(s.binding, r) => s.action = "update" /\ s.record = r
  /\ ~op.single /\ s.action = "create" =>
       \/ assigned[s.binding].record[s.endpoint] = NoRecord
       \/ ~ManagedRow(s.binding, assigned[s.binding].record[s.endpoint])
  /\ ~op.single /\ s.action # "create" => assigned[s.binding].record[s.endpoint] = s.record

\* The operation publishes a record of the name, or leaves one.
StaysShown(op, b) ==
  \/ \E t \in op.steps : t.binding = b /\ t.action # "delete"
  \/ \E f \in Endpoint : HasRow(b, f) /\ \A t \in op.steps : t.binding = b => t.endpoint # f

Fits(op) ==
  \A s \in op.steps :
    /\ s.binding \in Bound
    /\ s.binding \notin disturbed => ~s.tried
    /\ Current(op) => Holds(op, s)
    /\ Current(op) /\ s.binding \notin disturbed \cup narrowed => StaysShown(op, s.binding)

PlansFit == \A op \in ops : Fits(op)

\* Each decision is planned once.
OnePlan ==
  /\ OpsDiffer
  /\ \A i, j \in intents : i.decision = j.decision => i = j
  /\ \A op \in ops : \A i \in intents : op.decision # i.decision

ZoneInv == TypeOK /\ RevisionsGrow /\ OnePlan /\ BindingsAreSound /\ SyncIsSound /\ PlansFit

LEMMA OnePlanStep ==
  ASSUME TypeOK, RevisionsGrow, OnePlan, [Next]_vars
  PROVE  OnePlan'
<1>1. Grows /\ (OpsDescend \/ Plans)
  <2>1. Wavers => OpsDescend
    BY SameOpsDescend DEF Wavers
  <2>2. QED BY <2>1, NextKeeps DEF Keeps
<1>2. /\ pool.decision \in Nat
      /\ \A i \in intents : i.decision \in Nat /\ i.decision # pool.decision + 1
      /\ \A op \in ops : op.decision \in Nat /\ op.decision # pool.decision + 1
  BY DEF TypeOK, PoolRow, Operation, Intent, Revision, RevisionsGrow
<1>3. \A i, j \in intents' : i.decision = j.decision => i = j
  BY <1>1, <1>2 DEF Grows, OnePlan
<1>4. CASE OpsDescend
  <2>1. \A op \in ops' : \E old \in ops : op.decision = old.decision
    BY <1>4 DEF OpsDescend, Descends
  <2>2. \A op \in ops' : \A i \in intents' : op.decision # i.decision
    BY <1>1, <1>2, <2>1 DEF Grows, OnePlan
  <2>3. QED BY <1>3, <1>4, <2>2 DEF OpsDescend, OnePlan
<1>5. CASE Plans
  <2>1. PICK i \in jobs \cap intents, hash \in Hash, first \in Firsts :
          /\ ops' \subseteq ops \cup {OpOf(i, hash, first)}
          /\ intents' = intents \ {i}
    BY <1>5, PlansAre
  <2>2. OpOf(i, hash, first).decision = i.decision
    BY OpOfIs
  <2>3. OpsDiffer'
    BY <2>1, <2>2 DEF OnePlan, OpsDiffer
  <2>4. \A op \in ops' : \A j \in intents' : op.decision # j.decision
    BY <2>1, <2>2 DEF OnePlan
  <2>5. QED BY <1>3, <2>3, <2>4 DEF OnePlan
<1>6. QED BY <1>1, <1>4, <1>5

\* What a step leaves as it is for a binding.
Untouched(b) ==
  /\ binding'[b].phase = binding[b].phase /\ binding'[b].doomed = binding[b].doomed
  /\ assigned'[b].applied = assigned[b].applied /\ assigned'[b].record = assigned[b].record
  /\ local'[b] = local[b] /\ remote'[b] = remote[b] /\ doubt'[b] = doubt[b]

\* What a step leaves for the steps of a binding.
Steady(b) ==
  /\ binding'[b].phase = binding[b].phase
  /\ assigned'[b].record = assigned[b].record
  /\ \A r \in Record : ManagedRow(b, r)' => ManagedRow(b, r)
  /\ b \notin disturbed' => Rows(b) \subseteq Rows(b)'

StillNarrowed == narrowed \subseteq narrowed'

LEMMA UntouchedIsSteady ==
  ASSUME NEW b \in Binding, Untouched(b)
  PROVE  Steady(b)
BY DEF Untouched, Steady, ManagedRow, Rows

LEMMA UntouchedIsSound ==
  ASSUME NEW b \in Binding, Untouched(b), StillNarrowed, disturbed \subseteq disturbed',
         Sound(b), b \notin disturbed => Faithful(b)
  PROVE  Sound(b)' /\ (b \notin disturbed' => Faithful(b)')
<1>1. Sound(b)'
  BY DEF Untouched, StillNarrowed, Sound, ManagedRow, Rows
<1>2. ASSUME b \notin disturbed' PROVE Faithful(b)'
  BY <1>2 DEF Untouched, StillNarrowed, Faithful, Rows
<1>3. QED BY <1>1, <1>2

LEMMA SteadyHolds ==
  ASSUME TypeOK, NEW op \in Operation, NEW s \in op.steps, Steady(s.binding), StillNarrowed,
         Holds(op, s)
  PROVE  Holds(op, s)'
<1>1. assigned[s.binding].record[s.endpoint] \in Record \cup {NoRecord}
  <2>1. s \in Step
    BY DEF Operation
  <2>2. s.binding \in Binding /\ s.endpoint \in Endpoint
    BY <2>1 DEF Step
  <2>3. QED BY <2>2, BindingRowType
<1>2. assigned'[s.binding].record[s.endpoint] = assigned[s.binding].record[s.endpoint]
  BY DEF Steady
<1>3. \A r \in Record : ManagedRow(s.binding, r)' => ManagedRow(s.binding, r)
  BY DEF Steady
<1>4. \A r \in Record : (~ManagedRow(s.binding, r))' <=> ~(ManagedRow(s.binding, r)')
  OBVIOUS
<1>5. AsOne(op, s)' => AsOne(op, s)
  BY DEF AsOne, StillNarrowed
<1>6. QED BY <1>1, <1>2, <1>3, <1>4, <1>5 DEF Holds

LEMMA SteadyIsShown ==
  ASSUME NEW op, NEW b \in Binding, StaysShown(op, b), Steady(b), b \notin disturbed'
  PROVE  StaysShown(op, b)'
BY DEF StaysShown, Steady, HasRow

LEMMA SteadyFits ==
  ASSUME TypeOK, NEW op \in Operation, Fits(op), disturbed \subseteq disturbed', StillNarrowed,
         Current(op)' => Current(op), \A s \in op.steps : Steady(s.binding)
  PROVE  Fits(op)'
<1>1. ASSUME NEW s \in op.steps PROVE s.binding \in Binding
  <2>1. s \in Step
    BY DEF Operation
  <2>2. QED BY <2>1 DEF Step
<1>2. ASSUME NEW s \in op.steps
      PROVE  /\ s.binding \in Bound'
             /\ s.binding \notin disturbed' => ~s.tried
  BY <1>1 DEF Fits, Steady, Bound
<1>3. ASSUME NEW s \in op.steps, Current(op)'
      PROVE  Holds(op, s)'
  BY <1>3, SteadyHolds DEF Fits
<1>4. ASSUME NEW s \in op.steps, Current(op)', s.binding \notin (disturbed \cup narrowed)'
      PROVE  StaysShown(op, s.binding)'
  BY <1>1, <1>4, SteadyIsShown DEF Fits, StillNarrowed
<1>5. QED BY <1>2, <1>3, <1>4 DEF Fits

LEMMA StillFits ==
  ASSUME TypeOK, RevisionsGrow, Grows, NEW op \in ops, Fits(op), disturbed \subseteq disturbed',
         StillNarrowed, \A s \in op.steps : Steady(s.binding)
  PROVE  Fits(op)'
<1>1. op \in Operation
  BY DEF TypeOK
<1>2. Current(op)' => Current(op)
  <2>1. ASSUME Current(op)'
        PROVE  pool'.policy = op.policy /\ pool'.decision = op.decision
    BY <2>1 DEF Current
  <2>2. QED BY <2>1, StillCurrent
<1>3. QED BY <1>1, <1>2, SteadyFits

\* T are the bindings that the step may have touched.
LEMMA ZoneFrame ==
  ASSUME TypeOK, RevisionsGrow, Grows, BindingsAreSound, PlansFit, StillNarrowed,
         ops' \subseteq ops, disturbed \subseteq disturbed', NEW T \in SUBSET Binding,
         \A c \in Binding \ T : Untouched(c),
         \A c \in T : Sound(c)',
         \A c \in T : c \notin disturbed' => Faithful(c)',
         \A c \in T : Steady(c) \/ \A op \in ops : \A s \in op.steps : s.binding # c
  PROVE  BindingsAreSound' /\ PlansFit'
<1>1. \A c \in Binding : Sound(c)' /\ (c \notin disturbed' => Faithful(c)')
  BY UntouchedIsSound DEF BindingsAreSound
<1>2. BindingsAreSound'
  BY <1>1 DEF BindingsAreSound
<1>3. ASSUME NEW op \in ops'
      PROVE  Fits(op)'
  <2>1. op \in ops /\ Fits(op) /\ op.steps \in SUBSET Step
    BY <1>3 DEF PlansFit, TypeOK, Operation
  <2>2. \A s \in op.steps : s.binding \in Binding
    BY <2>1 DEF Step
  <2>3. \A s \in op.steps : Steady(s.binding)
    BY <2>1, <2>2, UntouchedIsSteady
  <2>4. QED BY <2>1, <2>3, StillFits
<1>4. PlansFit'
  BY <1>3 DEF PlansFit
<1>5. QED BY <1>2, <1>4

LEMMA SyncFrame ==
  ASSUME TypeOK, SyncIsSound, sync' = sync, disturbed \subseteq disturbed',
         \/ sync.phase = "idle"
         \/ \A p \in Spot : RemoteOf(p) = NoRow => RemoteOf(p)' = NoRow
  PROVE  SyncIsSound'
<1>1. sync.missing \in SUBSET Spot
  BY DEF TypeOK
<1>2. CASE sync.phase = "idle"
  BY <1>2 DEF SyncIsSound
<1>3. CASE \A p \in Spot : RemoteOf(p) = NoRow => RemoteOf(p)' = NoRow
  BY <1>1, <1>3 DEF SyncIsSound
<1>4. QED BY <1>2, <1>3

\* A step that touches no binding, no record and no operation.
Aside ==
  /\ \A b \in Binding : Untouched(b)
  /\ ops' \subseteq ops /\ disturbed' = disturbed /\ sync' = sync /\ remote' = remote

LEMMA AsideZone ==
  ASSUME ZoneInv, Grows, StillNarrowed, Aside
  PROVE  BindingsAreSound' /\ SyncIsSound' /\ PlansFit'
<1>1. BindingsAreSound' /\ PlansFit'
  <2> DEFINE T == {}
  <2>1. T \in SUBSET Binding
    OBVIOUS
  <2>2. /\ \A c \in Binding \ T : Untouched(c)
        /\ \A c \in T : Sound(c)'
        /\ \A c \in T : c \notin disturbed' => Faithful(c)'
        /\ \A c \in T : Steady(c) \/ \A op \in ops : \A s \in op.steps : s.binding # c
    BY DEF Aside
  <2> HIDE DEF T
  <2>3. QED BY <2>1, <2>2, ZoneFrame DEF ZoneInv, Aside
<1>2. SyncIsSound'
  <2>1. \A p \in Spot : RemoteOf(p)' = RemoteOf(p)
    BY DEF Aside, RemoteOf
  <2>2. QED BY <2>1, SyncFrame DEF ZoneInv, Aside
<1>3. QED BY <1>1, <1>2

\* A step that touches one binding, of which no operation has a step.
LEMMA LoneZone ==
  ASSUME ZoneInv, Grows, StillNarrowed, NEW b \in Binding,
         ops' \subseteq ops, disturbed \subseteq disturbed', sync' = sync,
         \A c \in Binding \ {b} : Untouched(c),
         Sound(b)', b \notin disturbed' => Faithful(b)',
         Steady(b) \/ \A op \in ops : \A s \in op.steps : s.binding # b,
         \/ sync.phase = "idle"
         \/ \A p \in Spot : RemoteOf(p) = NoRow => RemoteOf(p)' = NoRow
  PROVE  BindingsAreSound' /\ SyncIsSound' /\ PlansFit'
<1>1. BindingsAreSound' /\ PlansFit'
  <2> DEFINE T == {b}
  <2>1. T \in SUBSET Binding
    OBVIOUS
  <2>2. /\ \A c \in Binding \ T : Untouched(c)
        /\ \A c \in T : Sound(c)'
        /\ \A c \in T : c \notin disturbed' => Faithful(c)'
        /\ \A c \in T : Steady(c) \/ \A op \in ops : \A s \in op.steps : s.binding # c
    OBVIOUS
  <2> HIDE DEF T
  <2>3. QED BY <2>1, <2>2, ZoneFrame DEF ZoneInv
<1>2. SyncIsSound'
  BY SyncFrame DEF ZoneInv
<1>3. QED BY <1>1, <1>2

LEMMA OthersUntouched ==
  ASSUME TypeOK, NEW b \in Binding, NEW c \in Binding, c # b,
         \/ binding' = binding
         \/ \E x : binding' = [binding EXCEPT ![b] = x],
         \/ assigned' = assigned
         \/ \E a : assigned' = [assigned EXCEPT ![b] = a],
         local'[c] = local[c], remote'[c] = remote[c], doubt'[c] = doubt[c]
  PROVE  Untouched(c)
BY DEF Untouched, TypeOK

\* Most requests touch no binding.
LEMMA AskAside ==
  ASSUME NEW reconcile, NEW force, Ask(reconcile, force), \A b \in Binding :
           /\ binding'[b].phase = binding[b].phase /\ binding'[b].doomed = binding[b].doomed
           /\ assigned'[b].applied = assigned[b].applied
           /\ assigned'[b].record = assigned[b].record
  PROVE  Aside
BY DEF Ask, Aside, Untouched, plans, zone

LEMMA EditZone ==
  ASSUME ZoneInv, StillNarrowed, Edit
  PROVE  BindingsAreSound' /\ SyncIsSound' /\ PlansFit'
<1>0. TypeOK /\ Grows
  BY EditKeeps DEF ZoneInv
<1>1. ASSUME NEW setting \in Settings, UpdatePool(setting)
      PROVE  Aside
  BY <1>1, AskAside DEF UpdatePool
<1>2. ASSUME Pause \/ Resume
      PROVE  Aside
  BY <1>0, <1>2, AskAside DEF Pause, Resume
<1>3. ASSUME NEW e \in Endpoint, NEW lifecycle, NEW force,
             CreateEndpoint(e) \/ UpdateLifecycle(e, lifecycle) \/ UpdateAddress(e, force)
      PROVE  Aside
  BY <1>0, <1>3, AskAside DEF CreateEndpoint, UpdateLifecycle, UpdateAddress
<1>4. ASSUME NEW b \in Binding, NEW e \in Endpoint, NEW force, UpdateBinding(b, e, force)
      PROVE  Aside
  <2>1. pool' = pool /\ assigned' = assigned /\ binding' = [binding EXCEPT ![b].original = e]
    BY <1>4 DEF UpdateBinding
  <2>2. \A c \in Binding : binding'[c].phase = binding[c].phase /\ binding'[c].doomed = binding[c].doomed
    BY <1>0, <2>1 DEF TypeOK, BindingRow
  <2>3. Aside
    BY <1>4, <2>1, <2>2, AskAside DEF UpdateBinding
  <2>4. QED BY <1>0, <2>1, <2>3
<1>5. ASSUME CreateHealthCheck
      PROVE  Aside
  BY <1>0, <1>5, AskAside DEF CreateHealthCheck
<1>6. ASSUME DeleteHealthCheck \/ \E force \in BOOLEAN : ReconcileRequest(force)
      PROVE  Aside
  BY <1>0, <1>6
     DEF DeleteHealthCheck, ReconcileRequest, Aside, Untouched, plans, zone
<1>7. ASSUME NEW setting \in Settings, NEW lifecycle, NEW version, NEW force,
             Restore(setting, lifecycle, version, force)
      PROVE  Aside
  BY <1>7 DEF Restore, Aside, Untouched, plans, zone
<1>8. ASSUME NEW e \in Endpoint, DeleteEndpoint(e)
      PROVE  Aside
  <2>1. assigned' = [b \in Binding |-> [assigned[b] EXCEPT !.record[e] = NoRecord]]
    BY <1>8 DEF DeleteEndpoint
  <2>2. ASSUME NEW b \in Binding
        PROVE  assigned'[b].applied = assigned[b].applied /\ assigned'[b].record = assigned[b].record
    <3>1. assigned[b].record[e] = NoRecord
      BY <1>8 DEF DeleteEndpoint, ZoneInv, BindingsAreSound, Sound
    <3>2. assigned[b] \in Assignment /\ assigned[b].record \in [Endpoint -> Record \cup {NoRecord}]
      BY <1>0, BindingRowType
    <3>3. [assigned[b].record EXCEPT ![e] = NoRecord] = assigned[b].record
      BY <3>1, <3>2
    <3>4. assigned'[b] = [assigned[b] EXCEPT !.record = [assigned[b].record EXCEPT ![e] = NoRecord]]
      BY <2>1
    <3>5. QED BY <3>2, <3>3, <3>4 DEF Assignment
  <2>3. Aside
    BY <1>8, <2>2 DEF DeleteEndpoint, Aside, Untouched, plans, zone
  <2>5. QED BY <2>3
<1>9. ASSUME NEW b \in Binding, NEW e \in Endpoint \cup {NoEndpoint}, CreateBinding(b, e)
      PROVE  BindingsAreSound' /\ SyncIsSound' /\ PlansFit'
  <2>1. /\ binding' = [binding EXCEPT ![b] = [@ EXCEPT !.phase = "bound", !.original = e]]
        /\ assigned' = [assigned EXCEPT ![b] = [@ EXCEPT !.desired = {e} \ {NoEndpoint}]]
        /\ UNCHANGED <<pool, ops, doubt, local, remote, sync, disturbed>>
        /\ binding[b].phase = "absent" /\ Rows(b) = {}
    BY <1>9 DEF CreateBinding, Ask, plans, zone
  <2>3. \A c \in Binding \ {b} : Untouched(c)
    BY <1>0, <2>1, OthersUntouched
  <2>4. /\ binding'[b].phase = "bound"
        /\ assigned'[b].applied = assigned[b].applied /\ assigned'[b].record = assigned[b].record
    BY <1>0, <2>1 DEF TypeOK, BindingRow, Assignment
  <2>5. Sound(b) /\ (b \notin disturbed => Faithful(b))
    BY DEF ZoneInv, BindingsAreSound
  <2>6. Sound(b)'
    BY <2>1, <2>4, <2>5 DEF Sound, Rows, ManagedRow
  <2>7. ASSUME b \notin disturbed' PROVE Faithful(b)'
    BY <2>1, <2>4, <2>5, <2>7 DEF Faithful, Rows
  <2>8. \A op \in ops : \A s \in op.steps : s.binding # b
    BY <2>1 DEF ZoneInv, PlansFit, Fits, Bound
  <2>9. \A p \in Spot : RemoteOf(p)' = RemoteOf(p)
    BY <2>1 DEF RemoteOf
  <2>10. QED BY <1>0, <2>1, <2>3, <2>6, <2>7, <2>8, <2>9, LoneZone
<1>10. ASSUME NEW b \in Binding, NEW e \in Endpoint, NEW r \in Record, TakeOver(b, e, r)
       PROVE  BindingsAreSound' /\ SyncIsSound' /\ PlansFit'
  <2> DEFINE a == [desired |-> {e}, applied |-> {e}, record |-> [Unassigned.record EXCEPT ![e] = r]]
  <2>1. /\ binding' = [binding EXCEPT ![b] = [@ EXCEPT !.phase = "bound", !.original = e]]
        /\ assigned' = [assigned EXCEPT ![b] = a]
        /\ local' = [local EXCEPT ![b][r].managed = TRUE]
        /\ UNCHANGED <<pool, ops, doubt, remote, sync, disturbed>>
        /\ binding[b].phase = "absent" /\ Rows(b) = {r}
    BY <1>10 DEF TakeOver, plans
  <2>3. \A c \in Binding \ {b} : local'[c] = local[c]
    BY <1>0, <2>1 DEF TypeOK
  <2>4. \A c \in Binding \ {b} : Untouched(c)
    <3> HIDE DEF a
    <3>1. QED BY <1>0, <2>1, <2>3, OthersUntouched
  <2>5. /\ binding'[b].phase = "bound" /\ assigned'[b] = a
    BY <1>0, <2>1 DEF TypeOK, BindingRow
  <2>6. /\ a.applied = {e} /\ a.record[e] = r
        /\ \A f \in Endpoint : f # e => a.record[f] = NoRecord
    BY DEF Unassigned
  <2> HIDE DEF a
  <2>7. local[b] \in [Record -> Row \cup {NoRow}] /\ local[b][r] \in Row
    BY <1>0, <2>1, BindingRowType DEF Rows
  <2>8. /\ local'[b][r] = [local[b][r] EXCEPT !.managed = TRUE]
        /\ \A q \in Record : q # r => local'[b][q] = NoRow
    BY <1>0, <2>1, <2>7 DEF TypeOK, Rows
  <2>9. local'[b][r] \in Row /\ local'[b][r].managed /\ local'[b][r].content = local[b][r].content
    BY <2>7, <2>8 DEF Row
  <2>10. local'[b][r] # NoRow /\ local[b][r] # NoRow /\ NoRecord \notin Record
    BY <2>7, <2>9, RowsAreNot, Numbers
  <2>11. Sound(b)'
    BY <2>5, <2>6, <2>8, <2>10 DEF Sound, Rows, ManagedRow
  <2>12. ASSUME b \notin disturbed' PROVE Faithful(b)'
    <3>1. Faithful(b)
      BY <2>1, <2>12 DEF ZoneInv, BindingsAreSound
    <3>2. \A q \in Record : q # r => local[b][q] = NoRow
      BY <2>1 DEF Rows
    <3>3. QED BY <2>1, <2>5, <2>8, <2>9, <2>10, <3>1, <3>2 DEF Faithful, Rows
  <2>13. \A op \in ops : \A s \in op.steps : s.binding # b
    BY <2>1 DEF ZoneInv, PlansFit, Fits, Bound
  <2>14. \A p \in Spot : RemoteOf(p)' = RemoteOf(p)
    BY <2>1 DEF RemoteOf
  <2>15. QED BY <1>0, <2>1, <2>4, <2>11, <2>12, <2>13, <2>14, LoneZone
<1>11. Aside => BindingsAreSound' /\ SyncIsSound' /\ PlansFit'
  BY <1>0, AsideZone
<1>12. QED
  BY <1>1, <1>2, <1>3, <1>4, <1>5, <1>6, <1>7, <1>8, <1>9, <1>10, <1>11 DEF Edit

LEMMA AnswerZone ==
  ASSUME ZoneInv, StillNarrowed, Answer
  PROVE  BindingsAreSound' /\ SyncIsSound' /\ PlansFit'
<1>1. TypeOK /\ Grows
  BY AnswerKeeps DEF ZoneInv
<1>2. Aside
  BY DEF Answer, RecordPolicyChange, EnqueueReconcile, StopHalfway, Aside, Untouched, plans, zone
<1>4. QED BY <1>1, <1>2, AsideZone

LEMMA ObservationZone ==
  ASSUME ZoneInv, StillNarrowed, Observation
  PROVE  BindingsAreSound' /\ SyncIsSound' /\ PlansFit'
<1>1. TypeOK /\ Grows
  BY ObservationKeeps DEF ZoneInv
<1>2. Aside
  BY DEF Observation, Observe, Promote, Aside, Untouched, plans, zone
<1>4. QED BY <1>1, <1>2, AsideZone

LEMMA WorldZone ==
  ASSUME ZoneInv, StillNarrowed, World
  PROVE  BindingsAreSound' /\ SyncIsSound' /\ PlansFit'
<1>0. TypeOK /\ Grows
  BY WorldKeeps DEF ZoneInv
<1>1. ASSUME NEW i, LoseJob(i) PROVE Aside
  BY <1>0, <1>1 DEF LoseJob, Aside, Untouched, zone
<1>2. ASSUME NEW status, SetStatus(status) PROVE Aside
  BY <1>0, <1>2 DEF SetStatus, Aside, Untouched, plans, zone
<1>3. ASSUME NEW status, SyncFails(status)
      PROVE  BindingsAreSound' /\ SyncIsSound' /\ PlansFit'
  <2>1. /\ UNCHANGED <<pool, binding, assigned, ops, doubt, local, remote, disturbed>>
        /\ sync' = Asleep
    BY <1>3 DEF SyncFails, plans
  <2>2. \A b \in Binding : Untouched(b)
    BY <1>0, <2>1 DEF Untouched
  <2>3. BindingsAreSound' /\ PlansFit'
    <3> DEFINE T == {}
    <3>1. T \in SUBSET Binding
      OBVIOUS
    <3>2. /\ \A c \in Binding \ T : Untouched(c)
          /\ \A c \in T : Sound(c)'
          /\ \A c \in T : c \notin disturbed' => Faithful(c)'
          /\ \A c \in T : Steady(c) \/ \A op \in ops : \A s \in op.steps : s.binding # c
      BY <2>2
    <3> HIDE DEF T
    <3>3. QED BY <1>0, <2>1, <2>2, <3>1, <3>2, ZoneFrame DEF ZoneInv
  <2>4. SyncIsSound'
    BY <2>1 DEF SyncIsSound, Asleep
  <2>5. QED BY <2>3, <2>4
<1>4. ASSUME NEW b \in Binding, NEW r \in Record, NEW c \in {Foreign, NoRow}, Tamper(b, r, c)
      PROVE  BindingsAreSound' /\ SyncIsSound' /\ PlansFit'
  <2>1. /\ UNCHANGED <<pool, binding, assigned, ops, doubt, local, sync>>
        /\ remote' = [remote EXCEPT ![b][r] = c] /\ disturbed' = disturbed \cup {b}
        /\ remote[b][r] # NoRow
    BY <1>4 DEF Tamper, plans
  <2>3. \A d \in Binding : \A q \in Record : d # b \/ q # r => remote'[d][q] = remote[d][q]
    BY <1>0, <2>1 DEF TypeOK
  <2>4. \A d \in Binding \ {b} : remote'[d] = remote[d]
    BY <1>0, <2>1 DEF TypeOK
  <2>5. \A d \in Binding \ {b} : Untouched(d)
    BY <2>1, <2>4 DEF Untouched
  <2>6. Sound(b)
    BY DEF ZoneInv, BindingsAreSound
  <2>7. \A e \in assigned[b].applied : assigned[b].record[e] \in Record
    <3>1. assigned[b].record \in [Endpoint -> Record \cup {NoRecord}]
          /\ assigned[b].applied \in SUBSET Endpoint
      BY <1>0, BindingRowType
    <3>2. QED BY <2>6, <3>1 DEF Sound
  <2>8. Sound(b)'
    BY <2>1, <2>3, <2>6, <2>7 DEF Sound, Rows, ManagedRow, StillNarrowed
  <2>9. Steady(b)
    BY <2>1 DEF Steady, Rows, ManagedRow
  <2>10. \A p \in Spot : RemoteOf(p) = NoRow => RemoteOf(p)' = NoRow
    BY <2>1, <2>3 DEF RemoteOf, Spot
  <2>11. b \in disturbed' /\ disturbed \subseteq disturbed'
    BY <2>1
  <2>12. QED BY <1>0, <2>1, <2>5, <2>8, <2>9, <2>10, <2>11, LoneZone
<1>5. Aside => BindingsAreSound' /\ SyncIsSound' /\ PlansFit'
  BY <1>0, AsideZone
<1>6. QED BY <1>1, <1>2, <1>3, <1>4, <1>5 DEF World

LEMMA SyncOnly ==
  ASSUME ZoneInv, Grows, StillNarrowed, UNCHANGED <<binding, assigned, ops, doubt, local, remote, disturbed>>,
         SyncIsSound'
  PROVE  BindingsAreSound' /\ SyncIsSound' /\ PlansFit'
<1> DEFINE T == {}
<1>1. T \in SUBSET Binding
  OBVIOUS
<1>2. /\ \A c \in Binding \ T : Untouched(c)
      /\ \A c \in T : Sound(c)'
      /\ \A c \in T : c \notin disturbed' => Faithful(c)'
      /\ \A c \in T : Steady(c) \/ \A op \in ops : \A s \in op.steps : s.binding # c
  BY DEF Untouched
<1> HIDE DEF T
<1>3. QED BY <1>1, <1>2, ZoneFrame DEF ZoneInv

LEMMA AssignedRecords ==
  ASSUME TypeOK, NEW b \in Binding, Sound(b)
  PROVE  /\ assigned[b].applied \in SUBSET Endpoint
         /\ assigned[b].record \in [Endpoint -> Record \cup {NoRecord}]
         /\ \A e \in assigned[b].applied : assigned[b].record[e] \in Record
         /\ \A e \in Endpoint : assigned[b].record[e] \in Record => e \in assigned[b].applied
<1>1. /\ assigned[b].record \in [Endpoint -> Record \cup {NoRecord}]
      /\ assigned[b].applied \in SUBSET Endpoint
  BY BindingRowType
<1>2. NoRecord \notin Record
  BY Numbers
<1>3. QED BY <1>1, <1>2 DEF Sound

LEMMA SyncZone ==
  ASSUME ZoneInv, StillNarrowed, SyncNext
  PROVE  BindingsAreSound' /\ SyncIsSound' /\ PlansFit'
<1>0. TypeOK /\ Grows
  BY SyncKeeps DEF ZoneInv
<1>1. ASSUME SyncStart
      PROVE  BindingsAreSound' /\ SyncIsSound' /\ PlansFit'
  <2>1. /\ UNCHANGED <<pool, binding, assigned, ops, doubt, local, remote, disturbed>>
        /\ sync'.phase = "records"
        /\ sync'.todo = {<<p, RemoteOf(p)>> : p \in NewsIn(Listed)}
        /\ sync'.missing = RowsMissing
    BY <1>1 DEF SyncStart, plans
  <2>2. ASSUME NEW p \in Spot, p \in NewsIn(Listed) \/ p \in RowsMissing
        PROVE  p[1] \in disturbed
    <3>1. p[1] \in Binding /\ p[2] \in Record
      BY DEF Spot
    <3>2. p \in Listed => RemoteOf(p) # NoRow
      BY DEF Listed
    <3>3. p \in NewsIn(Listed) => RemoteOf(p) # NoRow /\ (RowOf(p) = NoRow \/ RowOf(p).content # RemoteOf(p))
      BY <3>2 DEF NewsIn
    <3>4. p \in RowsMissing => RemoteOf(p) = NoRow /\ RowOf(p) # NoRow
      BY DEF RowsMissing, Listed
    <3>5. local[p[1]] \in [Record -> Row \cup {NoRow}]
      BY <1>0, <3>1, BindingRowType
    <3>6. RowOf(p) # NoRow => RowOf(p).content # NoRow
      BY <3>1, <3>5, RowsAreNot DEF RowOf
    <3>7. SUFFICES ASSUME p[1] \notin disturbed PROVE FALSE
      OBVIOUS
    <3>8. RemoteOf(p) = IF RowOf(p) = NoRow THEN NoRow ELSE RowOf(p).content
      BY <3>1, <3>7 DEF ZoneInv, BindingsAreSound, Faithful, RemoteOf, RowOf
    <3>9. QED BY <2>2, <3>3, <3>4, <3>6, <3>8
  <2>3. NewsIn(Listed) \subseteq Spot /\ RowsMissing \subseteq Spot
    BY DEF NewsIn, Listed, RowsMissing
  <2>4. ASSUME NEW x \in sync'.todo PROVE x[1][1] \in disturbed'
    <3>1. PICK p \in NewsIn(Listed) : x = <<p, RemoteOf(p)>>
      BY <2>1
    <3>2. QED BY <2>1, <2>2, <2>3, <3>1
  <2>5. ASSUME NEW p \in sync'.missing PROVE p[1] \in disturbed' /\ RemoteOf(p)' = NoRow
    <3>1. p \in RowsMissing
      BY <2>1
    <3>2. RemoteOf(p) = NoRow
      BY <3>1 DEF RowsMissing, Listed
    <3>3. QED BY <2>1, <2>2, <2>3, <3>1, <3>2 DEF RemoteOf
  <2>6. SyncIsSound'
    BY <2>1, <2>4, <2>5 DEF SyncIsSound
  <2>7. QED BY <1>0, <2>1, <2>6, SyncOnly
<1>2. ASSUME \/ SyncMissing
             \/ \E p \in Spot : SyncLost(p)
             \/ \E p \in Spot : \E c \in Content : SyncDrift(p, c)
      PROVE  BindingsAreSound' /\ SyncIsSound' /\ PlansFit'
  <2>1. /\ UNCHANGED <<binding, assigned, ops, doubt, local, remote, disturbed>>
        /\ sync.phase # "idle"
    BY <1>2 DEF SyncMissing, SyncLost, SyncDrift, plans
  <2>2. /\ sync'.phase # "idle"
        /\ sync'.todo = sync.todo /\ sync'.missing = sync.missing
    BY <1>0, <1>2 DEF SyncMissing, SyncLost, SyncDrift, TypeOK
  <2>3. \A p \in Spot : RemoteOf(p)' = RemoteOf(p)
    BY <2>1 DEF RemoteOf
  <2>4. sync.missing \in SUBSET Spot
    BY <1>0 DEF TypeOK
  <2>5. SyncIsSound'
    BY <2>1, <2>2, <2>3, <2>4 DEF SyncIsSound, ZoneInv
  <2>7. QED BY <1>0, <2>1, <2>5, SyncOnly
<1>3. ASSUME NEW p \in Spot, NEW c \in Content, SyncRow(p, c)
      PROVE  BindingsAreSound' /\ SyncIsSound' /\ PlansFit'
  <2> DEFINE b == p[1]
             r == p[2]
             row == [content |-> c, managed |-> Managed(p)]
  <2>1. /\ UNCHANGED <<pool, binding, assigned, ops, doubt, remote, disturbed>>
        /\ local' = [local EXCEPT ![b][r] = row]
        /\ sync' = [sync EXCEPT !.todo = @ \ {<<p, c>>}, !.noted = @ \ {p}]
        /\ <<p, c>> \in sync.todo /\ sync.phase = "records"
    BY <1>3 DEF SyncRow, plans
  <2>2. b \in Binding /\ r \in Record
    BY DEF Spot
  <2>3. b \in disturbed
    BY <2>1 DEF ZoneInv, SyncIsSound
  <2>4. Managed(p) = ManagedRow(b, r)
    BY DEF Managed, ManagedRow, RowOf
  <2>5. row \in Row /\ row.managed = Managed(p)
    BY DEF Row, Managed
  <2> HIDE DEF row, b, r
  <2>6. row # NoRow
    BY <2>5, RowsAreNot
  <2>7. /\ local'[b][r] = row
        /\ \A q \in Record : q # r => local'[b][q] = local[b][q]
        /\ \A d \in Binding \ {b} : local'[d] = local[d]
    BY <1>0, <2>1, <2>2 DEF TypeOK
  <2>8. Rows(b) \subseteq Rows(b)' /\ \A q \in Record : ManagedRow(b, q)' => ManagedRow(b, q)
    BY <2>4, <2>5, <2>6, <2>7 DEF Rows, ManagedRow
  <2>9. Sound(b)
    BY <2>2 DEF ZoneInv, BindingsAreSound
  <2>10. Sound(b)'
    BY <2>1, <2>8, <2>9 DEF Sound, StillNarrowed
  <2>11. Steady(b)
    BY <2>1, <2>8 DEF Steady
  <2>12. \A d \in Binding \ {b} : Untouched(d)
    BY <2>1, <2>7 DEF Untouched
  <2>14. BindingsAreSound' /\ PlansFit'
    <3> DEFINE T == {b}
    <3>1. T \in SUBSET Binding
      BY <2>2
    <3>2. /\ \A d \in Binding \ T : Untouched(d)
          /\ \A d \in T : Sound(d)'
          /\ \A d \in T : d \notin disturbed' => Faithful(d)'
          /\ \A d \in T : Steady(d) \/ \A op \in ops : \A s \in op.steps : s.binding # d
      BY <2>1, <2>3, <2>10, <2>11, <2>12
    <3> HIDE DEF T
    <3>3. QED BY <1>0, <2>1, <3>1, <3>2, ZoneFrame DEF ZoneInv
  <2>15. /\ sync'.phase = "records" /\ sync'.missing = sync.missing
         /\ sync'.todo \subseteq sync.todo
    BY <1>0, <2>1 DEF TypeOK
  <2>16. \A q \in Spot : RemoteOf(q)' = RemoteOf(q)
    BY <2>1 DEF RemoteOf
  <2>17. sync.missing \in SUBSET Spot
    BY <1>0 DEF TypeOK
  <2>18. SyncIsSound'
    BY <2>1, <2>15, <2>16, <2>17 DEF SyncIsSound, ZoneInv
  <2>19. QED BY <2>14, <2>18
<1>4. ASSUME SyncEnd
      PROVE  BindingsAreSound' /\ SyncIsSound' /\ PlansFit'
  <2>1. /\ UNCHANGED <<pool, binding, assigned, ops, doubt, remote, disturbed>>
        /\ local' = [b \in Binding |-> [r \in Record |->
             IF <<b, r>> \in sync.missing THEN NoRow ELSE local[b][r]]]
        /\ sync' = Asleep
    BY <1>4 DEF SyncEnd, plans
  <2>3. \A p \in sync.missing : p[1] \in disturbed /\ RemoteOf(p) = NoRow
    BY DEF ZoneInv, SyncIsSound
  <2>4. ASSUME NEW b \in Binding
        PROVE  /\ \A r \in Record : /\ local'[b][r] \in {local[b][r], NoRow}
                                    /\ local'[b][r] # local[b][r] => remote[b][r] = NoRow
               /\ b \notin disturbed => local'[b] = local[b]
    <3>1. \A r \in Record : local'[b][r] = IF <<b, r>> \in sync.missing THEN NoRow ELSE local[b][r]
      BY <2>1
    <3>2. ASSUME NEW r \in Record, <<b, r>> \in sync.missing
          PROVE  remote[b][r] = NoRow /\ b \in disturbed
      BY <2>3, <3>2 DEF RemoteOf
    <3>3. local[b] \in [Record -> Row \cup {NoRow}]
      BY <1>0, BindingRowType
    <3>4. ASSUME b \notin disturbed PROVE local'[b] = local[b]
      <4>1. local'[b] = [r \in Record |-> IF <<b, r>> \in sync.missing THEN NoRow ELSE local[b][r]]
        BY <2>1
      <4>2. \A r \in Record : <<b, r>> \notin sync.missing
        BY <3>2, <3>4
      <4>3. QED BY <3>3, <4>1, <4>2
    <3>5. QED BY <3>1, <3>2, <3>4
  <2>5. ASSUME NEW b \in Binding
        PROVE  Sound(b)' /\ Steady(b) /\ (b \notin disturbed' => Faithful(b)')
    <3>1. Sound(b) /\ (b \notin disturbed => Faithful(b))
      BY DEF ZoneInv, BindingsAreSound
    <3>2. /\ \A r \in Record : ManagedRow(b, r)' => ManagedRow(b, r)
          /\ \A r \in Record : r \in Rows(b) => r \in Rows(b)' \/ remote'[b][r] = NoRow
      BY <2>1, <2>4 DEF ManagedRow, Rows
    <3>3. \A e \in assigned[b].applied : assigned[b].record[e] \in Record
      BY <1>0, <3>1, AssignedRecords
    <3>4. Sound(b)'
      BY <2>1, <3>1, <3>2, <3>3 DEF Sound, StillNarrowed
    <3>5. Steady(b)
      BY <2>1, <2>4, <3>2 DEF Steady, Rows
    <3>6. b \notin disturbed' => Faithful(b)'
      BY <2>1, <2>4, <3>1 DEF Faithful, Rows, StillNarrowed
    <3>7. QED BY <3>4, <3>5, <3>6
  <2>6. BindingsAreSound' /\ PlansFit'
    <3> DEFINE T == Binding
    <3>1. T \in SUBSET Binding
      OBVIOUS
    <3>2. /\ \A d \in Binding \ T : Untouched(d)
          /\ \A d \in T : Sound(d)'
          /\ \A d \in T : d \notin disturbed' => Faithful(d)'
          /\ \A d \in T : Steady(d) \/ \A op \in ops : \A s \in op.steps : s.binding # d
      BY <2>5
    <3> HIDE DEF T
    <3>3. QED BY <1>0, <2>1, <3>1, <3>2, ZoneFrame DEF ZoneInv
  <2>7. SyncIsSound'
    BY <2>1 DEF SyncIsSound, Asleep
  <2>8. QED BY <2>6, <2>7
<1>5. QED BY <1>1, <1>2, <1>3, <1>4 DEF SyncNext

LEMMA GoneFacts ==
  ASSUME TypeOK, NEW b \in Binding, Gone(b)
  PROVE  /\ binding'[b].phase = "absent"
         /\ assigned'[b].applied = {}
         /\ \A e \in Endpoint : assigned'[b].record[e] = NoRecord
         /\ doubt'[b] = {}
         /\ \A c \in Binding \ {b} : local'[c] = local[c] /\ remote'[c] = remote[c] => Untouched(c)
<1>1. /\ pool' = BumpPolicy
      /\ binding' = [binding EXCEPT ![b] =
           [phase |-> "absent", original |-> NoEndpoint, doomed |-> {}, stuck |-> FALSE]]
      /\ assigned' = [assigned EXCEPT ![b] = Unassigned]
      /\ doubt' = [doubt EXCEPT ![b] = {}]
  BY DEF Gone, Freed
<1>3. binding'[b].phase = "absent" /\ assigned'[b] = Unassigned /\ doubt'[b] = {}
  BY <1>1 DEF TypeOK
<1>4. assigned'[b].applied = {} /\ \A e \in Endpoint : assigned'[b].record[e] = NoRecord
  BY <1>3 DEF Unassigned
<1>5. ASSUME NEW c \in Binding \ {b}, local'[c] = local[c], remote'[c] = remote[c]
      PROVE  Untouched(c)
  <2>1. binding'[c] = binding[c] /\ assigned'[c] = assigned[c] /\ doubt'[c] = doubt[c]
    BY <1>1 DEF TypeOK
  <2>2. QED BY <1>5, <2>1 DEF Untouched
<1>6. QED BY <1>3, <1>4, <1>5

LEMMA GoneIsSound ==
  ASSUME NEW b \in Binding,
         binding'[b].phase = "absent", assigned'[b].applied = {},
         \A e \in Endpoint : assigned'[b].record[e] = NoRecord
  PROVE  Sound(b)'
BY DEF Sound

LEMMA GoneZone ==
  ASSUME ZoneInv, Grows, StillNarrowed, NEW b \in Binding, Gone(b), Quiet(b) \/ binding[b].phase = "deleting",
         UNCHANGED <<ops, remote, sync, disturbed>>,
         \A c \in Binding \ {b} : local'[c] = local[c],
         b \notin disturbed => local'[b] = local[b]
  PROVE  BindingsAreSound' /\ SyncIsSound' /\ PlansFit'
<1>0. TypeOK
  BY DEF ZoneInv
<1>1. /\ binding'[b].phase = "absent"
      /\ assigned'[b].applied = {}
      /\ \A e \in Endpoint : assigned'[b].record[e] = NoRecord
      /\ doubt'[b] = {}
      /\ \A c \in Binding \ {b} : Untouched(c)
  BY <1>0, GoneFacts
<1>2. Sound(b)'
  BY <1>1, GoneIsSound
<1>3. ASSUME b \notin disturbed' PROVE Faithful(b)'
  <2>1. Faithful(b)
    BY <1>3 DEF ZoneInv, BindingsAreSound
  <2>2. local'[b] = local[b]
    BY <1>3
  <2>3. QED BY <1>1, <2>1, <2>2 DEF Faithful
<1>4. \A op \in ops : \A s \in op.steps : s.binding # b
  BY DEF Quiet, ZoneInv, PlansFit, Fits, Bound
<1>5. \A p \in Spot : RemoteOf(p)' = RemoteOf(p)
  BY DEF RemoteOf
<1>6. QED BY <1>1, <1>2, <1>3, <1>4, <1>5, LoneZone

LEMMA ErasingFacts ==
  ASSUME TypeOK, NEW b \in Binding, NEW targets, StartErasing(b, targets)
  PROVE  /\ UNCHANGED doubt
         /\ binding'[b].phase = "deleting" /\ binding'[b].doomed = targets
         /\ \A c \in Binding \ {b} : binding'[c] = binding[c]
<1> DEFINE x == [binding[b] EXCEPT !.phase = "deleting", !.doomed = targets, !.stuck = FALSE]
<1>1. binding' = [binding EXCEPT ![b] = x]
  BY DEF StartErasing
<1>2. x.phase = "deleting" /\ x.doomed = targets
  BY DEF TypeOK, BindingRow
<1> HIDE DEF x
<1>3. /\ binding'[b] = x
      /\ \A c \in Binding \ {b} : binding'[c] = binding[c]
  BY <1>1 DEF TypeOK
<1>4. QED BY <1>2, <1>3 DEF StartErasing

LEMMA DeletionZone ==
  ASSUME ZoneInv, StillNarrowed, Deletion
  PROVE  BindingsAreSound' /\ SyncIsSound' /\ PlansFit'
<1>0. TypeOK /\ Grows
  BY DeletionKeeps DEF ZoneInv
<1>1. ASSUME NEW b \in Binding, DeleteBinding(b)
      PROVE  BindingsAreSound' /\ SyncIsSound' /\ PlansFit'
  <2> DEFINE targets == {assigned[b].record[e] : e \in assigned[b].applied} \ {NoRecord}
  <2>1. /\ Quiet(b)
        /\ UNCHANGED <<ops, local, remote, sync, disturbed>>
        /\ (StartErasing(b, targets) /\ UNCHANGED assigned) \/ Gone(b)
    BY <1>1 DEF DeleteBinding, zone
  <2> HIDE DEF targets
  <2>2. CASE Gone(b)
    BY <1>0, <2>1, <2>2, GoneZone
  <2>3. CASE StartErasing(b, targets) /\ UNCHANGED assigned
    <3>1. /\ UNCHANGED doubt
          /\ binding'[b].phase = "deleting" /\ binding'[b].doomed = targets
          /\ \A c \in Binding \ {b} : binding'[c] = binding[c]
      BY <1>0, <2>3, ErasingFacts
    <3>2. Sound(b) /\ (b \notin disturbed => Faithful(b))
      BY DEF ZoneInv, BindingsAreSound
    <3>3. Sound(b)'
      BY <2>1, <2>3, <3>1, <3>2 DEF Sound, Rows, Quiet
    <3>4. ASSUME b \notin disturbed' PROVE Faithful(b)'
      <4>1. Faithful(b)
        BY <2>1, <3>2, <3>4
      <4>2. binding[b].phase \in {"bound", "deleting"} /\ binding[b].doomed = {}
        BY <1>0, <2>1 DEF Quiet, TypeOK, BindingRow
      <4>3. ASSUME b \notin narrowed', NEW r \in Rows(b) PROVE r \in targets
        <5>0. b \notin narrowed
          BY <4>3 DEF StillNarrowed
        <5>1. r \in Record
          BY DEF Rows
        <5>2. CASE binding[b].phase = "bound"
          <6>1. ManagedRow(b, r)
            BY <4>1, <5>2 DEF Faithful, ManagedRow, Rows
          <6>2. PICK e \in assigned[b].applied : assigned[b].record[e] = r
            BY <3>2, <5>0, <5>1, <5>2, <6>1 DEF Sound
          <6>3. QED BY <5>1, <6>2, Numbers DEF targets
        <5>3. CASE binding[b].phase = "deleting"
          BY <4>1, <4>2, <5>0, <5>3 DEF Faithful
        <5>4. QED BY <4>2, <5>2, <5>3
      <4>4. QED BY <2>1, <3>1, <4>1, <4>3 DEF Faithful, Rows
    <3>5. \A c \in Binding \ {b} : Untouched(c)
      BY <2>1, <2>3, <3>1 DEF Untouched
    <3>6. \A op \in ops : \A s \in op.steps : s.binding # b
      BY <2>1 DEF Quiet
    <3>7. sync.phase = "idle"
      BY <2>1 DEF Quiet
    <3>8. QED BY <1>0, <2>1, <3>1, <3>3, <3>4, <3>5, <3>6, <3>7, LoneZone
  <2>4. QED BY <2>1, <2>2, <2>3
<1>2. ASSUME NEW b \in Binding, ReadBack(b)
      PROVE  BindingsAreSound' /\ SyncIsSound' /\ PlansFit'
  <2> DEFINE there == {r \in Record : remote[b][r] # NoRow}
             absent == Known(b) \ there
             row(r) == CASE r \in there -> [content |-> remote[b][r], managed |-> TRUE]
                         [] r \in absent -> NoRow
                         [] OTHER -> local[b][r]
             erased == [assigned[b] EXCEPT
                          !.applied = {e \in assigned[b].applied : assigned[b].record[e] \notin absent},
                          !.record = [e \in Endpoint |-> IF assigned[b].record[e] \in absent
                                                         THEN NoRecord ELSE assigned[b].record[e]]]
  <2>1. /\ Quiet(b) /\ doubt[b] # {}
        /\ local' = [local EXCEPT ![b] = [r \in Record |-> row(r)]]
        /\ \/ StartErasing(b, there) /\ assigned' = [assigned EXCEPT ![b] = erased]
           \/ Gone(b)
        /\ UNCHANGED <<ops, remote, sync, disturbed>>
    BY <1>2 DEF ReadBack
  <2>2. b \in disturbed
    BY <2>1 DEF ZoneInv, BindingsAreSound, Faithful
  <2>3. absent \subseteq Record
    BY DEF Known, Rows
  <2>4. \A r \in there : row(r) \in Row
    <3>1. \A r \in there : remote[b][r] \in Content
      BY <1>0, BindingRowType
    <3>2. QED BY <3>1 DEF Row
  <2>5. erased \in Assignment
    <3>1. /\ {e \in assigned[b].applied : assigned[b].record[e] \notin absent} \in SUBSET Endpoint
          /\ [e \in Endpoint |-> IF assigned[b].record[e] \in absent
                                 THEN NoRecord ELSE assigned[b].record[e]]
               \in [Endpoint -> Record \cup {NoRecord}]
      BY <1>0, BindingRowType
    <3>2. assigned[b] \in Assignment
      BY <1>0, BindingRowType
    <3> HIDE DEF absent
    <3>3. QED BY <3>1, <3>2 DEF Assignment
  <2>6. /\ erased.applied = {e \in assigned[b].applied : assigned[b].record[e] \notin absent}
        /\ \A e \in Endpoint : erased.record[e] = IF assigned[b].record[e] \in absent
                                                  THEN NoRecord ELSE assigned[b].record[e]
    BY <1>0, BindingRowType DEF Assignment
  <2>7. \A r \in there : row(r) # NoRow
    BY <2>4, RowsAreNot
  <2> HIDE DEF erased, row
  <2>8. /\ \A r \in Record : local'[b][r] = row(r)
        /\ \A c \in Binding \ {b} : local'[c] = local[c]
    BY <1>0, <2>1 DEF TypeOK
  <2>9. CASE Gone(b)
    BY <1>0, <2>1, <2>2, <2>8, <2>9, GoneZone
  <2>10. CASE StartErasing(b, there) /\ assigned' = [assigned EXCEPT ![b] = erased]
    <3>1. /\ UNCHANGED doubt
          /\ binding'[b].phase = "deleting" /\ binding'[b].doomed = there
          /\ \A c \in Binding \ {b} : binding'[c] = binding[c]
      BY <1>0, <2>10, ErasingFacts
    <3>2. assigned'[b] = erased /\ \A c \in Binding \ {b} : assigned'[c] = assigned[c]
      BY <1>0, <2>10 DEF TypeOK
    <3>3. Sound(b) /\ NoRecord \notin Record
      BY Numbers DEF ZoneInv, BindingsAreSound
    <3>4. /\ assigned[b].applied \in SUBSET Endpoint
          /\ \A e \in assigned[b].applied : assigned[b].record[e] \in Record
      BY <1>0, <3>3, AssignedRecords
    <3>5. erased.applied = {e \in Endpoint : erased.record[e] # NoRecord}
      BY <2>3, <2>6, <3>3, <3>4 DEF Sound
    <3>6. \A e \in erased.applied :
            /\ e \in assigned[b].applied /\ erased.record[e] = assigned[b].record[e]
            /\ erased.record[e] \in Record
      BY <2>6, <3>4
    <3>7. \A e \in erased.applied : erased.record[e] \in Rows(b)' \/ remote'[b][erased.record[e]] = NoRow
      <4>1. \A r \in Record : r \in Rows(b)' \/ remote'[b][r] = NoRow
        BY <2>1, <2>7, <2>8 DEF Rows
      <4>2. QED BY <3>6, <4>1
    <3>8. Sound(b)'
      <4>1. \A e, f \in erased.applied : erased.record[e] = erased.record[f] => e = f
        BY <3>3, <3>6 DEF Sound
      <4>2. QED BY <3>1, <3>2, <3>5, <3>7, <4>1 DEF Sound
    <3>9. \A c \in Binding \ {b} : Untouched(c)
      BY <2>1, <2>8, <3>1, <3>2 DEF Untouched
    <3>10. sync.phase = "idle" /\ \A op \in ops : \A s \in op.steps : s.binding # b
      BY <2>1 DEF Quiet
    <3>11. QED BY <1>0, <2>1, <2>2, <3>1, <3>8, <3>9, <3>10, LoneZone
  <2>11. QED BY <2>1, <2>9, <2>10
<1>3. ASSUME NEW b \in Binding, FinishDeletion(b)
      PROVE  BindingsAreSound' /\ SyncIsSound' /\ PlansFit'
  <2>1. /\ binding[b].phase = "deleting" /\ Gone(b)
        /\ UNCHANGED <<ops, local, remote, sync, disturbed>>
    BY <1>3 DEF FinishDeletion, zone
  <2>2. QED BY <1>0, <2>1, GoneZone
<1>4. ASSUME NEW b \in Binding, NEW r \in Record, Erase(b, r)
      PROVE  BindingsAreSound' /\ SyncIsSound' /\ PlansFit'
  <2> DEFINE gone == {e \in Endpoint : assigned[b].record[e] = r}
             a == [assigned[b] EXCEPT
                     !.applied = assigned[b].applied \ gone,
                     !.record = [e \in Endpoint |-> IF e \in gone THEN NoRecord
                                                    ELSE assigned[b].record[e]]]
             x == [binding[b] EXCEPT !.doomed = @ \ {r}]
  <2>1. /\ assigned' = [assigned EXCEPT ![b] = a]
        /\ binding' = [binding EXCEPT ![b] = x]
        /\ remote' = [remote EXCEPT ![b][r] = NoRow] /\ local' = [local EXCEPT ![b][r] = NoRow]
        /\ UNCHANGED <<pool, ops, doubt, sync, disturbed>>
        /\ binding[b].phase = "deleting" /\ sync.phase = "idle"
    BY <1>4 DEF Erase, Erasing, plans
  <2>2. Sound(b) /\ (b \notin disturbed => Faithful(b)) /\ NoRecord \notin Record
    BY Numbers DEF ZoneInv, BindingsAreSound
  <2>3. /\ assigned[b].applied \in SUBSET Endpoint
        /\ \A e \in assigned[b].applied : assigned[b].record[e] \in Record
    BY <1>0, <2>2, AssignedRecords
  <2>4. /\ a.applied = assigned[b].applied \ gone
        /\ \A e \in Endpoint : a.record[e] = IF e \in gone THEN NoRecord ELSE assigned[b].record[e]
    BY <1>0, BindingRowType DEF Assignment
  <2>5. x.phase = "deleting" /\ x.doomed = binding[b].doomed \ {r}
    BY <1>0, <2>1 DEF TypeOK, BindingRow
  <2>6. a.applied = {e \in Endpoint : a.record[e] # NoRecord}
    BY <2>2, <2>4 DEF Sound
  <2>7. \A e \in a.applied : /\ e \in assigned[b].applied /\ a.record[e] = assigned[b].record[e]
                             /\ a.record[e] \in Record /\ a.record[e] # r
    BY <2>3, <2>4
  <2> HIDE DEF a, x, gone
  <2>8. /\ assigned'[b] = a /\ binding'[b] = x
        /\ \A c \in Binding \ {b} : assigned'[c] = assigned[c] /\ binding'[c] = binding[c]
    BY <1>0, <2>1 DEF TypeOK
  <2>9. /\ local'[b][r] = NoRow /\ remote'[b][r] = NoRow
        /\ \A q \in Record \ {r} : local'[b][q] = local[b][q] /\ remote'[b][q] = remote[b][q]
        /\ \A c \in Binding \ {b} : local'[c] = local[c] /\ remote'[c] = remote[c]
    BY <1>0, <2>1 DEF TypeOK
  <2>11. Sound(b)'
    <3>1. \A e, f \in a.applied : a.record[e] = a.record[f] => e = f
      BY <2>2, <2>7 DEF Sound
    <3>2. \A e \in a.applied : a.record[e] \in Rows(b)' \/ remote'[b][a.record[e]] = NoRow
      BY <2>2, <2>7, <2>9 DEF Sound, Rows
    <3>3. QED BY <2>5, <2>6, <2>8, <3>1, <3>2 DEF Sound
  <2>12. ASSUME b \notin disturbed' PROVE Faithful(b)'
    <3>1. Faithful(b)
      BY <2>1, <2>2, <2>12
    <3>2. Rows(b)' \subseteq Rows(b) \ {r}
      BY <2>9 DEF Rows
    <3>3. b \notin narrowed' => Rows(b)' \subseteq x.doomed
      BY <2>1, <2>5, <3>1, <3>2 DEF Faithful, StillNarrowed
    <3>4. \A q \in Record : remote'[b][q] = IF local'[b][q] = NoRow THEN NoRow ELSE local'[b][q].content
      BY <2>9, <3>1 DEF Faithful
    <3>5. QED BY <2>1, <2>5, <2>8, <3>1, <3>3, <3>4 DEF Faithful
  <2>13. \A c \in Binding \ {b} : Untouched(c)
    BY <2>1, <2>8, <2>9 DEF Untouched
  <2>14. \A op \in ops : \A s \in op.steps : s.binding # b
    BY <2>1 DEF ZoneInv, PlansFit, Fits, Bound
  <2>15. QED BY <1>0, <2>1, <2>11, <2>12, <2>13, <2>14, LoneZone
<1>5. ASSUME NEW b \in Binding, NEW r \in Record, EraseLosesAnswer(b, r)
      PROVE  BindingsAreSound' /\ SyncIsSound' /\ PlansFit'
  <2>1. /\ remote' = [remote EXCEPT ![b][r] = NoRow] /\ disturbed' = disturbed \cup {b}
        /\ UNCHANGED <<pool, binding, assigned, ops, doubt, local, sync>>
        /\ sync.phase = "idle"
    BY <1>5 DEF EraseLosesAnswer, Erasing, plans
  <2>2. Sound(b)
    BY DEF ZoneInv, BindingsAreSound
  <2>3. \A e \in assigned[b].applied : assigned[b].record[e] \in Record
    BY <1>0, <2>2, AssignedRecords
  <2>4. /\ \A q \in Record : remote'[b][q] = remote[b][q] \/ remote'[b][q] = NoRow
        /\ \A c \in Binding \ {b} : remote'[c] = remote[c]
    BY <1>0, <2>1 DEF TypeOK
  <2>6. Sound(b)'
    BY <2>1, <2>2, <2>3, <2>4 DEF Sound, Rows, ManagedRow, StillNarrowed
  <2>7. Steady(b)
    BY <2>1 DEF Steady, Rows, ManagedRow
  <2>8. \A c \in Binding \ {b} : Untouched(c)
    BY <2>1, <2>4 DEF Untouched
  <2>9. b \in disturbed' /\ disturbed \subseteq disturbed'
    BY <2>1
  <2>10. QED BY <1>0, <2>1, <2>6, <2>7, <2>8, <2>9, LoneZone
<1>6. ASSUME NEW b \in Binding, NEW r \in Record, NEW status, EraseFails(b, r, status)
      PROVE  BindingsAreSound' /\ SyncIsSound' /\ PlansFit'
  <2> DEFINE x == [binding[b] EXCEPT !.doomed = @ \ {r}, !.stuck = TRUE]
  <2>1. /\ binding' = [binding EXCEPT ![b] = x] /\ disturbed' = disturbed \cup {b}
        /\ UNCHANGED <<pool, assigned, ops, doubt, local, remote, sync>>
        /\ sync.phase = "idle"
    BY <1>6 DEF EraseFails, Erasing, plans, zone
  <2>2. x.phase = binding[b].phase
    BY <1>0 DEF TypeOK, BindingRow
  <2> HIDE DEF x
  <2>3. binding'[b].phase = binding[b].phase /\ \A c \in Binding \ {b} : binding'[c] = binding[c]
    BY <1>0, <2>1, <2>2 DEF TypeOK
  <2>5. Sound(b)
    BY DEF ZoneInv, BindingsAreSound
  <2>6. Sound(b)'
    BY <2>1, <2>3, <2>5 DEF Sound, Rows, ManagedRow, StillNarrowed
  <2>7. Steady(b)
    BY <2>1, <2>3 DEF Steady, Rows, ManagedRow
  <2>8. \A c \in Binding \ {b} : Untouched(c)
    BY <2>1, <2>3 DEF Untouched
  <2>9. b \in disturbed' /\ disturbed \subseteq disturbed'
    BY <2>1
  <2>10. QED BY <1>0, <2>1, <2>6, <2>7, <2>8, <2>9, LoneZone
<1>7. QED BY <1>1, <1>2, <1>3, <1>4, <1>5, <1>6 DEF Deletion

\* A plan for a set of endpoints has one step for each, at its own record.
LEMMA PlanSetHolds ==
  ASSUME TypeOK, NEW b \in Binding, NEW desired \in SUBSET Endpoint
  PROVE  \A s \in PlanSet(b, desired) :
           /\ s.endpoint \in Endpoint
           /\ s.action = "create" => assigned[b].record[s.endpoint] \notin Rows(b)
           /\ s.action # "create" => assigned[b].record[s.endpoint] = s.record
           /\ \A t \in PlanSet(b, desired) : t.endpoint = s.endpoint => t = s
           /\ s.endpoint \in desired <=> s.action # "delete"
<1>1. assigned[b].applied \in SUBSET Endpoint
  BY BindingRowType
<1> DEFINE Of(e) == IF HasRow(b, e) THEN UpdateStep(b, e, assigned[b].record[e]) ELSE CreateStep(b, e)
           Del(x) == DeleteStep(b, x, assigned[b].record[x])
<1>2. \A s \in PlanSet(b, desired) :
        \/ \E e \in desired : s = Of(e)
        \/ \E x \in assigned[b].applied \ desired : s = Del(x)
  BY DEF PlanSet
<1>3. \A e : /\ Of(e).endpoint = e
             /\ HasRow(b, e) => Of(e).action = "update" /\ Of(e).record = assigned[b].record[e]
             /\ ~HasRow(b, e) => Of(e).action = "create"
             /\ Del(e).endpoint = e /\ Del(e).action = "delete" /\ Del(e).record = assigned[b].record[e]
  BY DEF UpdateStep, CreateStep, DeleteStep
<1> HIDE DEF Of, Del
<1>4. ASSUME NEW s \in PlanSet(b, desired)
      PROVE  /\ s.endpoint \in Endpoint
             /\ s.endpoint \in desired => s = Of(s.endpoint) /\ s.action # "delete"
             /\ s.endpoint \notin desired => s = Del(s.endpoint) /\ s.action = "delete"
  BY <1>1, <1>2, <1>3
<1>5. ASSUME NEW s \in PlanSet(b, desired)
      PROVE  /\ s.action = "create" => assigned[b].record[s.endpoint] \notin Rows(b)
             /\ s.action # "create" => assigned[b].record[s.endpoint] = s.record
  BY <1>3, <1>4 DEF HasRow
<1>6. QED BY <1>4, <1>5

\* Where such a plan only deletes, a record of the name is as it should be.
LEMMA PlanSetShows ==
  ASSUME TypeOK, NEW b \in Binding, NEW desired \in SUBSET Endpoint, desired # {}
  PROVE  \/ \E t \in PlanSet(b, desired) : t.action # "delete"
         \/ \E f \in Endpoint : HasRow(b, f) /\ \A t \in PlanSet(b, desired) : t.endpoint # f
<1> DEFINE Of(e) == IF HasRow(b, e) THEN UpdateStep(b, e, assigned[b].record[e]) ELSE CreateStep(b, e)
           Kept(f) == HasRow(b, f) /\ Matches(b, f, f) /\ f \in assigned[b].applied
<1>1. \A e \in {f \in desired : ~Kept(f)} : Of(e) \in PlanSet(b, desired)
  BY DEF PlanSet
<1>2. \A e : Of(e).action # "delete"
  BY DEF UpdateStep, CreateStep
<1>3. CASE \E e \in desired : ~Kept(e)
  BY <1>1, <1>2, <1>3
<1>4. CASE \A e \in desired : Kept(e)
  <2>1. \A t \in PlanSet(b, desired) :
          \E x \in assigned[b].applied \ desired : t = DeleteStep(b, x, assigned[b].record[x])
    BY <1>4 DEF PlanSet
  <2>2. \A t \in PlanSet(b, desired) : t.endpoint \notin desired
    BY <2>1 DEF DeleteStep
  <2>3. PICK f \in desired : TRUE
    OBVIOUS
  <2>4. QED BY <1>4, <2>2, <2>3
<1>5. QED BY <1>3, <1>4

\* A plan for one endpoint is one step, at the one record the pool manages.
LEMMA PlanSingleHolds ==
  ASSUME TypeOK, NEW b \in Bound, Sound(b), b \notin narrowed, \A e, f \in Recorded(b) : e = f,
         NEW e, NEW first, Recorded(b) = {} => first = NoEndpoint, Recorded(b) # {} => first \in Recorded(b)
  PROVE  \A s \in PlanSingle(b, e, first) :
           /\ s.action # "delete"
           /\ \A t \in PlanSingle(b, e, first) : t = s
           /\ \A r \in Record : ManagedRow(b, r) => s.action = "update" /\ s.record = r
<1>0. b \in Binding /\ binding[b].phase = "bound"
  BY DEF Bound
<1>1. /\ assigned[b].applied \in SUBSET Endpoint /\ \A f \in assigned[b].applied : assigned[b].record[f] \in Record
      /\ NoRecord \notin Record /\ NoEndpoint \notin Endpoint
  BY <1>0, AssignedRecords, Numbers DEF NoEndpoint
<1>2. Recorded(b) = assigned[b].applied
  BY <1>1 DEF Recorded
<1>3. \A f \in Recorded(b) : f = first
  OBVIOUS
<1>4. \A s \in PlanSingle(b, e, first) :
        IF first # NoEndpoint /\ HasRow(b, first)
        THEN s = UpdateStep(b, e, assigned[b].record[first]) ELSE s = CreateStep(b, e)
  BY <1>3 DEF PlanSingle
<1>5. \A r : /\ UpdateStep(b, e, r).action = "update" /\ UpdateStep(b, e, r).record = r
             /\ CreateStep(b, e).action = "create"
  BY DEF UpdateStep, CreateStep
<1>6. ASSUME NEW r \in Record, ManagedRow(b, r)
      PROVE  first # NoEndpoint /\ HasRow(b, first) /\ r = assigned[b].record[first]
  <2>1. PICK f \in assigned[b].applied : assigned[b].record[f] = r
    BY <1>0, <1>6 DEF Sound
  <2>2. f = first /\ r \in Rows(b)
    BY <1>2, <1>3, <1>6, <2>1 DEF ManagedRow, Rows
  <2>3. QED BY <1>1, <2>1, <2>2 DEF HasRow
<1>7. QED BY <1>4, <1>5, <1>6

\* What a plan reduces to one record is not looked at from then on.
LEMMA PlanFits ==
  ASSUME ZoneInv, NEW i \in Intent, NEW hash \in Hash, NEW first \in Firsts,
         narrowed' = narrowed \cup {b \in Planned(ContextOf(i, hash)) : Narrows(b)}
  PROVE  \A s \in OpOf(i, hash, first).steps :
           /\ s.binding \in Bound /\ ~s.tried
           /\ s.binding \notin narrowed' =>
                Holds(OpOf(i, hash, first), s) /\ StaysShown(OpOf(i, hash, first), s.binding)
           /\ OpOf(i, hash, first).single \/ Holds(OpOf(i, hash, first), s)
<1> DEFINE ctx == ContextOf(i, hash)
           op == OpOf(i, hash, first)
<1>1. TypeOK
  BY DEF ZoneInv
<1>2. /\ op.steps = PlanOf(i, hash, first)
      /\ op.single = (ctx.strategy # "healthy_set")
  BY OpOfIs
<1>3. ctx.strategy = pool.setting.strategy
  BY DEF ContextOf
<1> HIDE DEF op, ctx
<1>4. ASSUME NEW s \in op.steps
      PROVE  /\ s.binding \in Bound /\ ~s.tried
             /\ s.binding \notin narrowed' => Holds(op, s) /\ StaysShown(op, s.binding)
             /\ op.single \/ Holds(op, s)
  <2> DEFINE b == s.binding
             desired == EvaluateStrategy(ctx)[b].desired
             plan == StepsFor(ctx, b, first[b])
  <2>1. /\ ~s.tried /\ b \in Planned(ctx) /\ b \in Bound /\ b \in Binding
    BY <1>1, <1>2, PlanIsEligible DEF ctx, Bound
  <2>2. \A t \in op.steps : t.binding = b => t \in plan
    BY <1>1, <1>2, PlanIsEligible DEF ctx
  <2>3. \A t \in plan : t \in op.steps
    <3>1. PlanOf(i, hash, first) = UNION {StepsFor(ctx, c, first[c]) : c \in Planned(ctx)}
      BY DEF PlanOf, ctx
    <3>2. QED BY <1>2, <2>1, <3>1
  <2>4. desired \in SUBSET Endpoint /\ desired # {}
    BY <1>1, <2>1, DecisionsAreEligible DEF ctx
  <2>5. Sound(b)
    BY <2>1 DEF ZoneInv, BindingsAreSound
  <2>6. plan = IF ctx.strategy = "healthy_set" THEN PlanSet(b, desired)
               ELSE PlanSingle(b, CHOOSE e \in desired : TRUE, first[b])
    BY DEF StepsFor
  <2> HIDE DEF desired, plan
  <2>7. s \in plan
    BY <2>2
  <2>8. CASE ctx.strategy = "healthy_set"
    <3>1. plan = PlanSet(b, desired) /\ ~op.single
      BY <1>2, <2>6, <2>8
    <3>2. \A u \in plan :
            /\ u.endpoint \in Endpoint
            /\ u.action = "create" => assigned[b].record[u.endpoint] \notin Rows(b)
            /\ u.action # "create" => assigned[b].record[u.endpoint] = u.record
            /\ \A t \in plan : t.endpoint = u.endpoint => t = u
      BY <1>1, <2>1, <2>4, <3>1, PlanSetHolds
    <3>3. \/ \E t \in plan : t.action # "delete"
          \/ \E f \in Endpoint : HasRow(b, f) /\ \A t \in plan : t.endpoint # f
      BY <1>1, <2>1, <2>4, <3>1, PlanSetShows
    <3>4. Holds(op, s)
      <4>1. \A t \in op.steps : t.binding = b /\ t.endpoint = s.endpoint => t = s
        BY <2>2, <2>7, <3>2
      <4>2. s.action = "create" =>
              \/ assigned[b].record[s.endpoint] = NoRecord
              \/ ~ManagedRow(b, assigned[b].record[s.endpoint])
        <5>1. assigned[b].record[s.endpoint] \in Record \cup {NoRecord}
          BY <1>1, <2>1, <2>7, <3>2, BindingRowType
        <5>2. QED BY <2>7, <3>2, <5>1 DEF Rows, ManagedRow
      <4>3. s.action # "create" => assigned[b].record[s.endpoint] = s.record
        BY <2>7, <3>2
      <4>4. QED BY <3>1, <4>1, <4>2, <4>3 DEF Holds, AsOne
    <3>5. StaysShown(op, b)
      <4>1. CASE \E t \in plan : t.action # "delete"
        <5>1. PICK t \in plan : t.action # "delete"
          BY <4>1
        <5>2. t \in op.steps /\ t.binding = b
          <6>1. t \in PlanSet(b, desired) /\ \A e \in desired : endpoint[e].version \in Version
            BY <1>1, <2>1, <3>1, DecisionsAreEligible DEF ctx, desired
          <6>2. QED BY <1>1, <2>1, <2>3, <2>4, <6>1, PlanSteps
        <5>3. QED BY <5>1, <5>2 DEF StaysShown
      <4>2. CASE \E f \in Endpoint : HasRow(b, f) /\ \A t \in plan : t.endpoint # f
        BY <2>2, <4>2 DEF StaysShown
      <4>3. QED BY <3>3, <4>1, <4>2
    <3>6. QED BY <2>1, <3>4, <3>5
  <2>9. CASE ctx.strategy # "healthy_set"
    <3> DEFINE e == CHOOSE f \in desired : TRUE
    <3>1. plan = PlanSingle(b, e, first[b]) /\ op.single
      BY <1>2, <2>6, <2>9
    <3>2. /\ Recorded(b) = {} => first[b] = NoEndpoint
          /\ Recorded(b) # {} => first[b] \in Recorded(b)
      BY <2>1 DEF Firsts
    <3> HIDE DEF e
    <3>3. CASE b \notin narrowed'
      <4>1. b \notin narrowed /\ \A f, g \in Recorded(b) : f = g
        BY <1>3, <2>1, <2>9, <3>3 DEF Narrows, ctx
      <4>2. /\ s.action # "delete"
            /\ \A t \in plan : t = s
            /\ \A r \in Record : ManagedRow(b, r) => s.action = "update" /\ s.record = r
        BY <1>1, <2>1, <2>5, <2>7, <3>1, <3>2, <4>1, PlanSingleHolds
      <4>3. Holds(op, s)
        BY <2>2, <3>1, <4>2 DEF Holds
      <4>4. StaysShown(op, b)
        BY <4>2 DEF StaysShown
      <4>5. QED BY <2>1, <3>1, <4>3, <4>4
    <3>4. CASE b \in narrowed'
      BY <2>1, <3>1, <3>4
    <3>5. QED BY <3>3, <3>4
  <2>10. QED BY <2>8, <2>9
<1>5. QED BY <1>4 DEF op

LEMMA PlannerZone ==
  ASSUME ZoneInv, StillNarrowed, Outbox \/ Worker
  PROVE  BindingsAreSound' /\ SyncIsSound' /\ PlansFit'
<1>0. TypeOK /\ Grows
  BY PlannerKeeps DEF ZoneInv
<1>1. \/ Aside /\ pool' = pool
      \/ Plans
  BY DEF Outbox, Worker, Work, Dispatch, Settle, ProviderUnavailable, Plans, Aside, Untouched, zone
<1>2. CASE Aside /\ pool' = pool
  BY <1>0, <1>2, AsideZone
<1>3. CASE Plans
  <2>1. PICK i \in jobs \cap intents, hash \in Hash, first \in Firsts :
          /\ Reconcile(i, hash, first)
          /\ i \in Intent /\ Current(i)
          /\ ops' \subseteq ops \cup {OpOf(i, hash, first)}
          /\ pool' = [pool EXCEPT !.cursors = NextCursors(ContextOf(i, hash))]
          /\ UNCHANGED <<binding, doubt, local, remote, sync, disturbed>>
    BY <1>0, <1>3, PlansAre
  <2> DEFINE ctx == ContextOf(i, hash)
  <2>0. PICK op : op = OpOf(i, hash, first)
    OBVIOUS
  <2>2. assigned' = [b \in Binding |-> IF b \in Decided(ctx)
             THEN [assigned[b] EXCEPT !.desired = EvaluateStrategy(ctx)[b].desired]
             ELSE assigned[b]]
    BY <2>1 DEF Reconcile
  <2> HIDE DEF ctx
  <2>3. \A b \in Binding : /\ assigned'[b].applied = assigned[b].applied
                           /\ assigned'[b].record = assigned[b].record
    BY <1>0, <2>2, BindingRowType DEF Assignment
  <2>4. \A b \in Binding : Untouched(b)
    BY <2>1, <2>3 DEF Untouched
  <2>6. \A b \in Binding : Sound(b)' /\ (b \notin disturbed' => Faithful(b)')
    BY <2>1, <2>4, UntouchedIsSound DEF ZoneInv, BindingsAreSound
  <2>7. SyncIsSound'
    <3>1. \A p \in Spot : RemoteOf(p)' = RemoteOf(p)
      BY <2>1 DEF RemoteOf
    <3>2. QED BY <1>0, <2>1, <3>1, SyncFrame DEF ZoneInv
  <2>8. \A x \in ops : x.steps \in SUBSET Step
    BY <1>0 DEF TypeOK, Operation
  <2>9. ASSUME NEW x \in ops PROVE Fits(x)'
    <3>1. \A s \in x.steps : Steady(s.binding)
      BY <2>4, <2>8, UntouchedIsSteady DEF Step
    <3>2. Fits(x) /\ RevisionsGrow
      BY DEF ZoneInv, PlansFit
    <3>3. disturbed \subseteq disturbed'
      BY <2>1
    <3>4. QED BY <1>0, <3>1, <3>2, <3>3, StillFits
  <2>10. Fits(op)'
    <3>1. op \in Operation
      <4>1. op.steps \in SUBSET Step
        BY <1>0, <2>0, <2>1, OpOfIs, PlanIsEligible
      <4>2. QED BY <2>0, <2>1, <4>1 DEF OpOf, Intent, Operation
    <3>2. narrowed' = narrowed \cup {b \in Planned(ContextOf(i, hash)) : Narrows(b)}
      BY <2>1 DEF Reconcile
    <3>3. \A s \in op.steps :
            /\ s.binding \in Bound /\ ~s.tried
            /\ s.binding \notin narrowed' => Holds(op, s) /\ StaysShown(op, s.binding)
            /\ op.single \/ Holds(op, s)
      BY <2>0, <2>1, <3>2, PlanFits
    <3>4. \A s \in op.steps : s.binding \in Binding /\ Steady(s.binding)
      BY <2>4, <3>1, UntouchedIsSteady DEF Step, Operation
    <3>5. ASSUME NEW s \in op.steps PROVE Holds(op, s)'
      <4>1. CASE s.binding \notin narrowed' \/ ~op.single
        BY <1>0, <3>1, <3>3, <3>4, <4>1, SteadyHolds
      <4>2. CASE s.binding \in narrowed' /\ op.single
        BY <4>2 DEF Holds, AsOne
      <4>3. QED BY <4>1, <4>2
    <3>6. ASSUME NEW s \in op.steps, s.binding \notin (disturbed \cup narrowed)'
          PROVE  StaysShown(op, s.binding)'
      BY <3>3, <3>4, <3>6, SteadyIsShown
    <3>7. \A s \in op.steps : s.binding \in Bound'
      BY <2>1, <3>3 DEF Bound
    <3>8. QED BY <3>3, <3>5, <3>6, <3>7 DEF Fits
  <2>12. PlansFit'
    BY <2>0, <2>1, <2>9, <2>10 DEF PlansFit
  <2>13. BindingsAreSound'
    BY <2>6 DEF BindingsAreSound
  <2>14. QED BY <2>7, <2>12, <2>13
<1>4. QED BY <1>1, <1>2, <1>3

LEMMA WithStepsAre ==
  ASSUME TypeOK, NEW op \in ops, NEW s \in op.steps, NEW S, ops' = WithSteps(op, s, S)
  PROVE  \E new : /\ ops' \subseteq (ops \ {op}) \cup {new}
                  /\ new.steps = (op.steps \ {s}) \cup S
                  /\ new.single = op.single
                  /\ new.policy = op.policy /\ new.decision = op.decision
<1> DEFINE new == [op EXCEPT !.steps = (op.steps \ {s}) \cup S]
<1>1. ops' \subseteq (ops \ {op}) \cup {new}
  BY DEF WithSteps
<1>2. op \in Operation
  BY DEF TypeOK
<1>3. /\ new.steps = (op.steps \ {s}) \cup S /\ new.single = op.single
      /\ new.policy = op.policy /\ new.decision = op.decision
  BY <1>2 DEF Operation
<1>4. QED BY <1>1, <1>3

\* The operations that are not current when one is.
LEMMA OthersFit ==
  ASSUME OnePlan, NEW op \in ops, Current(op), NEW x \in ops, x # op, Fits(x),
         disturbed \subseteq disturbed', binding' = binding, pool' = pool
  PROVE  Fits(x)'
<1>1. ~Current(x)
  BY DEF Current, OnePlan, OpsDiffer
<1>2. ~Current(x)'
  BY <1>1 DEF Current
<1>3. QED BY <1>2 DEF Fits, Bound

LEMMA WeakenedFits ==
  ASSUME ZoneInv, NEW op \in ops, NEW s \in op.steps, Current(op),
         NEW S \in {{}, {[s EXCEPT !.tried = TRUE]}}, ops' = WithSteps(op, s, S),
         UNCHANGED <<pool, binding, assigned, local, narrowed>>, disturbed' = disturbed \cup {s.binding}
  PROVE  PlansFit'
<1>0. TypeOK /\ OnePlan /\ Fits(op) /\ \A x \in ops : Fits(x)
  BY DEF ZoneInv, PlansFit
<1>1. PICK new : /\ ops' \subseteq (ops \ {op}) \cup {new}
                 /\ new.steps = (op.steps \ {s}) \cup S
                 /\ new.single = op.single
                 /\ new.policy = op.policy /\ new.decision = op.decision
  BY <1>0, WithStepsAre
<1>2. op.steps \in SUBSET Step
  BY <1>0 DEF TypeOK, Operation
<1>3. \A t \in S : /\ t.binding = s.binding /\ t.endpoint = s.endpoint /\ t.action = s.action
                   /\ t.record = s.record /\ t = [s EXCEPT !.tried = TRUE]
  BY <1>2 DEF Step
<1>4. \A t \in new.steps : \E u \in op.steps :
        /\ t.binding = u.binding /\ t.endpoint = u.endpoint /\ t.action = u.action
        /\ t.record = u.record
        /\ (u # s /\ t = u) \/ (u = s /\ t \in S)
  BY <1>1, <1>3
<1>5. ASSUME NEW t \in new.steps PROVE Holds(new, t)
  <2>1. PICK u \in op.steps :
          /\ t.binding = u.binding /\ t.endpoint = u.endpoint /\ t.action = u.action
          /\ t.record = u.record
          /\ (u # s /\ t = u) \/ (u = s /\ t \in S)
    BY <1>4
  <2>2. Holds(op, u)
    BY <1>0 DEF Fits
  <2>3. ASSUME NEW v \in new.steps,
               v.binding = t.binding,
               AsOne(new, t) \/ (~new.single /\ v.endpoint = t.endpoint)
        PROVE  v = t
    <3>1. PICK w \in op.steps :
            /\ v.binding = w.binding /\ v.endpoint = w.endpoint
            /\ (w # s /\ v = w) \/ (w = s /\ v \in S)
      BY <1>4
    <3>2. w = u
      BY <1>1, <2>1, <2>2, <2>3, <3>1 DEF Holds, AsOne
    <3>3. \A y, z \in S : y = z
      BY <1>3
    <3>4. QED BY <2>1, <3>1, <3>2, <3>3
  <2>4. QED BY <1>1, <2>1, <2>2, <2>3 DEF Holds, AsOne
<1>6. ASSUME NEW t \in new.steps, t.binding \notin (disturbed \cup narrowed)'
      PROVE  StaysShown(new, t.binding)
  <2>1. t.binding # s.binding /\ t.binding \notin disturbed \cup narrowed
    BY <1>6
  <2>2. t \in op.steps
    BY <1>1, <1>3, <2>1
  <2>3. StaysShown(op, t.binding)
    BY <1>0, <2>1, <2>2 DEF Fits
  <2>4. \A v : v.binding = t.binding => (v \in new.steps <=> v \in op.steps)
    BY <1>1, <1>3, <2>1
  <2>5. QED BY <2>3, <2>4 DEF StaysShown
<1>7. Fits(new)'
  <2>1. ASSUME NEW t \in new.steps
        PROVE  /\ t.binding \in Bound'
               /\ t.binding \notin disturbed' => ~t.tried
    <3>1. t \in op.steps \/ t.binding = s.binding
      BY <1>1, <1>3
    <3>2. QED BY <1>0, <3>1 DEF Fits, Bound
  <2>2. \A t \in new.steps : Holds(new, t)'
    BY <1>5 DEF Holds, AsOne, ManagedRow
  <2>3. \A t \in new.steps : t.binding \notin (disturbed \cup narrowed)' => StaysShown(new, t.binding)'
    BY <1>6 DEF StaysShown, HasRow, Rows
  <2>4. QED BY <2>1, <2>2, <2>3 DEF Fits
<1>8. \A x \in ops : x # op => Fits(x)'
  BY <1>0, OthersFit
<1>9. QED BY <1>1, <1>7, <1>8 DEF PlansFit, ZoneInv

\* What a step that has run for a binding has done.
Ran(op, s, b, e, r) ==
  /\ Current(op) /\ sync.phase = "idle" /\ binding[b].phase = "bound"
  /\ UNCHANGED <<binding, doubt, pool, sync, disturbed, narrowed>>
  /\ ops' = WithSteps(op, s, {})
  /\ \A c \in Binding \ {b} :
       local'[c] = local[c] /\ remote'[c] = remote[c] /\ assigned'[c] = assigned[c]
  /\ \A q \in Record \ {r} : local'[b][q] = local[b][q] /\ remote'[b][q] = remote[b][q]
  /\ s.action = "delete" => local'[b][r] = NoRow /\ remote'[b][r] = NoRow
  /\ s.action # "delete" =>
       /\ local'[b][r] # NoRow /\ local'[b][r].managed /\ local'[b][r].content = s.content
       /\ remote'[b][r] = s.content
  /\ s.action = "create" => \A f \in Endpoint : assigned[b].record[f] # r
  /\ s.action # "create" => r = s.record
  /\ s.action = "delete" =>
       /\ assigned'[b].applied = assigned[b].applied \ {e}
       /\ \A f \in Endpoint :
            assigned'[b].record[f] = IF f = e THEN NoRecord ELSE assigned[b].record[f]
  /\ s.action # "delete" /\ op.single =>
       /\ assigned'[b].applied = {e}
       /\ \A f \in Endpoint : assigned'[b].record[f] = IF f = e THEN r ELSE NoRecord
  /\ s.action # "delete" /\ ~op.single =>
       /\ assigned'[b].applied = assigned[b].applied \cup {e}
       /\ \A f \in Endpoint :
            assigned'[b].record[f] = IF f = e THEN r ELSE assigned[b].record[f]

\* The record that a create ends with is none of those assigned.
LEMMA CreatedIsNew ==
  ASSUME TypeOK, NEW s \in Step, Sound(s.binding), NEW r \in Target(s), r \in Record,
         s.action = "create", NEW f \in Endpoint
  PROVE  assigned[s.binding].record[f] # r
<1>1. PICK b : b = s.binding
  OBVIOUS
<1>2. b \in Binding /\ s.content \in Content
  BY <1>1 DEF Step
<1>3. SUFFICES ASSUME assigned[b].record[f] = r PROVE FALSE
  BY <1>1
<1>4. f \in assigned[b].applied
  BY <1>1, <1>2, <1>3, AssignedRecords
<1>5. r \in CreatedAs(s)
  BY DEF Target
<1>6. CASE Found(s) # {}
  <2>1. remote[b][r] = s.content /\ r \notin Rows(b)
    BY <1>1, <1>5, <1>6 DEF CreatedAs, Found
  <2>2. remote[b][r] # NoRow
    BY <1>2, <2>1, RowsAreNot
  <2>3. QED BY <1>1, <1>3, <1>4, <2>1, <2>2 DEF Sound
<1>7. CASE Found(s) = {}
  <2>1. r \in Unnamed(b)
    BY <1>1, <1>5, <1>7 DEF CreatedAs, Fresh
  <2>2. QED BY <1>3, <2>1 DEF Unnamed
<1>8. QED BY <1>6, <1>7

LEMMA RunStepIs ==
  ASSUME ZoneInv, NEW op \in ops, NEW s \in op.steps, NEW r \in Record, RunStep(op, s, r)
  PROVE  Ran(op, s, s.binding, s.endpoint, r)
<1>0. TypeOK /\ Fits(op)
  BY DEF ZoneInv, PlansFit
<1>1. PICK b, e : b = s.binding /\ e = s.endpoint
  OBVIOUS
<1>2. s \in Step /\ b \in Binding /\ e \in Endpoint /\ s.content \in Content
  <2>1. s \in Step
    BY <1>0 DEF TypeOK, Operation
  <2>2. QED BY <1>1, <2>1 DEF Step
<1>3. binding[b].phase = "bound" /\ Sound(b)
  BY <1>0, <1>1, <1>2 DEF Fits, Bound, ZoneInv, BindingsAreSound
<1>4. Current(op) /\ sync.phase = "idle" /\ r \in Target(s)
  BY DEF RunStep, MayRun
<1>5. /\ UNCHANGED <<binding, doubt, pool, sync, disturbed, narrowed>>
      /\ ops' = WithSteps(op, s, {})
      /\ remote' = [remote EXCEPT ![b][r] = IF s.action = "delete" THEN NoRow ELSE s.content]
      /\ local' = [local EXCEPT ![b][r] =
           IF s.action = "delete" THEN NoRow ELSE [content |-> s.content, managed |-> TRUE]]
      /\ assigned' = [assigned EXCEPT ![b] = AssignedBy(s, r, op.single)]
  BY <1>1 DEF RunStep, Written, asked
<1>6. [content |-> s.content, managed |-> TRUE] \in Row
  BY <1>2 DEF Row
<1>7. [content |-> s.content, managed |-> TRUE] # NoRow
  BY <1>6, RowsAreNot
<1>8. /\ \A c \in Binding \ {b} :
           local'[c] = local[c] /\ remote'[c] = remote[c] /\ assigned'[c] = assigned[c]
      /\ \A q \in Record \ {r} : local'[b][q] = local[b][q] /\ remote'[b][q] = remote[b][q]
      /\ remote'[b][r] = IF s.action = "delete" THEN NoRow ELSE s.content
      /\ local'[b][r] =
           IF s.action = "delete" THEN NoRow ELSE [content |-> s.content, managed |-> TRUE]
      /\ assigned'[b] = AssignedBy(s, r, op.single)
  BY <1>0, <1>2, <1>5 DEF TypeOK
<1>9. s.action # "create" => r = s.record
  BY <1>4 DEF Target
<1>10. s.action = "create" => \A f \in Endpoint : assigned[b].record[f] # r
  BY <1>1, <1>2, <1>3, <1>4, CreatedIsNew DEF ZoneInv
<1>11. assigned[b] \in Assignment /\ assigned[b].record \in [Endpoint -> Record \cup {NoRecord}]
  BY <1>0, <1>2, BindingRowType
<1>12. s.action = "delete" =>
       /\ assigned'[b].applied = assigned[b].applied \ {e}
       /\ \A f \in Endpoint :
            assigned'[b].record[f] = IF f = e THEN NoRecord ELSE assigned[b].record[f]
  <2>1. s.action = "delete" => assigned'[b] =
          [assigned[b] EXCEPT !.applied = @ \ {e}, !.record[e] = NoRecord]
    BY <1>1, <1>8 DEF AssignedBy
  <2>2. s.action = "delete" =>
          /\ assigned'[b].applied = assigned[b].applied \ {e}
          /\ assigned'[b].record = [assigned[b].record EXCEPT ![e] = NoRecord]
    BY <1>11, <2>1 DEF Assignment
  <2>3. QED BY <1>2, <1>11, <2>2
<1>13. s.action # "delete" /\ op.single =>
       /\ assigned'[b].applied = {e}
       /\ \A f \in Endpoint : assigned'[b].record[f] = IF f = e THEN r ELSE NoRecord
  <2>1. s.action # "delete" /\ op.single => assigned'[b] =
          [desired |-> assigned[b].desired \cup {e}, applied |-> {e},
           record |-> [Unassigned.record EXCEPT ![e] = r]]
    BY <1>1, <1>8 DEF AssignedBy
  <2>2. QED BY <1>2, <2>1 DEF Unassigned
<1>14. s.action # "delete" /\ ~op.single =>
       /\ assigned'[b].applied = assigned[b].applied \cup {e}
       /\ \A f \in Endpoint :
            assigned'[b].record[f] = IF f = e THEN r ELSE assigned[b].record[f]
  <2>1. s.action # "delete" /\ ~op.single => assigned'[b] =
          [desired |-> assigned[b].desired \cup {e}, applied |-> assigned[b].applied \cup {e},
           record |-> [assigned[b].record EXCEPT ![e] = r]]
    BY <1>1, <1>8 DEF AssignedBy
  <2>2. QED BY <1>2, <1>11, <2>1
<1>15. Ran(op, s, b, e, r)
  BY <1>3, <1>4, <1>5, <1>7, <1>8, <1>9, <1>10, <1>12, <1>13, <1>14 DEF Ran
<1>16. QED BY <1>1, <1>15

LEMMA RunIsSound ==
  ASSUME ZoneInv, NEW op \in ops, NEW s \in op.steps, NEW b \in Binding, NEW e \in Endpoint,
         NEW r \in Record, s.binding = b, s.endpoint = e, Ran(op, s, b, e, r)
  PROVE  Sound(b)'
<1>0. TypeOK /\ Sound(b) /\ Holds(op, s) /\ NoRecord \notin Record
  BY Numbers DEF ZoneInv, BindingsAreSound, PlansFit, Fits, Ran
<1>1. /\ assigned[b].applied \in SUBSET Endpoint
      /\ \A f \in assigned[b].applied : assigned[b].record[f] \in Record
      /\ \A f \in Endpoint : assigned[b].record[f] \in Record => f \in assigned[b].applied
  BY <1>0, AssignedRecords
<1>2. \A q \in Record : q = r \/ q \in Rows(b) \/ remote[b][q] = NoRow =>
        q \in Rows(b)' \/ remote'[b][q] = NoRow
  BY DEF Ran, Rows
<1>3. \A q \in Record : ManagedRow(b, q)' => (q = r /\ s.action # "delete") \/ (q # r /\ ManagedRow(b, q))
  BY DEF Ran, ManagedRow
<1>4. binding'[b].phase = "bound" /\ narrowed' = narrowed
  BY DEF Ran
<1>5. AsOne(op, s) <=> op.single /\ b \notin narrowed
  BY DEF AsOne
<1>6. CASE s.action = "delete"
  <2>1. /\ assigned'[b].applied = assigned[b].applied \ {e}
        /\ \A f \in Endpoint :
             assigned'[b].record[f] = IF f = e THEN NoRecord ELSE assigned[b].record[f]
    BY <1>6 DEF Ran
  <2>2. b \notin narrowed => ~op.single /\ r = s.record /\ assigned[b].record[e] = r
    BY <1>0, <1>5, <1>6 DEF Holds, Ran
  <2>3. ASSUME b \notin narrowed, NEW q \in Record, ManagedRow(b, q)'
        PROVE  \E f \in assigned'[b].applied : assigned'[b].record[f] = q
    <3>1. q # r /\ ManagedRow(b, q)
      BY <1>3, <1>6, <2>3
    <3>2. PICK f \in assigned[b].applied : assigned[b].record[f] = q
      BY <1>0, <1>4, <2>3, <3>1 DEF Sound, Ran
    <3>3. QED BY <1>1, <2>1, <2>2, <2>3, <3>1, <3>2
  <2>4. assigned'[b].applied = {f \in Endpoint : assigned'[b].record[f] # NoRecord}
    BY <1>0, <1>1, <2>1 DEF Sound
  <2>5. \A f \in assigned'[b].applied :
          f \in assigned[b].applied /\ assigned'[b].record[f] = assigned[b].record[f]
    BY <1>1, <2>1
  <2>6. \A f \in assigned'[b].applied :
          assigned'[b].record[f] \in Rows(b)' \/ remote'[b][assigned'[b].record[f]] = NoRow
    BY <1>0, <1>1, <1>2, <2>5 DEF Sound
  <2>7. \A f, g \in assigned'[b].applied : assigned'[b].record[f] = assigned'[b].record[g] => f = g
    BY <1>0, <2>5 DEF Sound
  <2>8. QED BY <1>4, <2>3, <2>4, <2>6, <2>7 DEF Sound
<1>7. CASE s.action # "delete" /\ op.single
  <2>1. /\ assigned'[b].applied = {e}
        /\ \A f \in Endpoint : assigned'[b].record[f] = IF f = e THEN r ELSE NoRecord
    BY <1>7 DEF Ran
  <2>2. ASSUME b \notin narrowed, NEW q \in Record, ManagedRow(b, q)'
        PROVE  q = r
    <3>1. SUFFICES ASSUME q # r, ManagedRow(b, q) PROVE FALSE
      BY <1>3, <2>2
    <3>2. s.action = "update" /\ s.record = q
      BY <1>0, <1>5, <1>7, <2>2, <3>1 DEF Holds
    <3>3. QED BY <3>1, <3>2 DEF Ran
  <2>3. r \in Rows(b)' \/ remote'[b][r] = NoRow
    BY <1>2
  <2>4. QED BY <1>0, <1>4, <2>1, <2>2, <2>3 DEF Sound
<1>8. CASE s.action # "delete" /\ ~op.single
  <2>1. /\ assigned'[b].applied = assigned[b].applied \cup {e}
        /\ \A f \in Endpoint :
             assigned'[b].record[f] = IF f = e THEN r ELSE assigned[b].record[f]
    BY <1>8 DEF Ran
  <2>2. \A f \in assigned[b].applied : f # e => assigned[b].record[f] # r
    <3>1. CASE s.action = "create"
      BY <1>1, <3>1 DEF Ran
    <3>2. CASE s.action # "create"
      <4>1. assigned[b].record[e] = r
        BY <1>0, <1>8, <3>2 DEF Holds, Ran
      <4>2. e \in assigned[b].applied
        BY <1>1, <4>1
      <4>3. QED BY <1>0, <4>1, <4>2 DEF Sound
    <3>3. QED BY <3>1, <3>2
  <2>3. ASSUME b \notin narrowed, NEW q \in Record, ManagedRow(b, q)'
        PROVE  \E f \in assigned'[b].applied : assigned'[b].record[f] = q
    <3>1. CASE q = r
      BY <2>1, <3>1
    <3>2. CASE q # r
      <4>1. ManagedRow(b, q)
        BY <1>3, <2>3, <3>2
      <4>2. PICK f \in assigned[b].applied : assigned[b].record[f] = q
        BY <1>0, <1>4, <2>3, <4>1 DEF Sound, Ran
      <4>3. f # e
        <5>1. SUFFICES ASSUME f = e PROVE FALSE
          OBVIOUS
        <5>2. s.action = "create" => q = NoRecord \/ ~ManagedRow(b, q)
          BY <1>0, <1>8, <4>2, <5>1 DEF Holds
        <5>3. s.action # "create" => q = r
          BY <1>0, <1>8, <4>2, <5>1 DEF Holds, Ran
        <5>4. QED BY <1>0, <3>2, <4>1, <5>2, <5>3
      <4>4. QED BY <1>1, <2>1, <4>2, <4>3
    <3>3. QED BY <3>1, <3>2
  <2>4. assigned'[b].applied = {f \in Endpoint : assigned'[b].record[f] # NoRecord}
    BY <1>0, <1>1, <2>1 DEF Sound
  <2>5. \A f \in assigned'[b].applied :
          \/ f = e /\ assigned'[b].record[f] = r
          \/ /\ f # e /\ f \in assigned[b].applied
             /\ assigned'[b].record[f] = assigned[b].record[f] /\ assigned[b].record[f] # r
    BY <1>1, <2>1, <2>2
  <2>6. \A f \in assigned'[b].applied :
          assigned'[b].record[f] \in Rows(b)' \/ remote'[b][assigned'[b].record[f]] = NoRow
    BY <1>0, <1>1, <1>2, <2>5 DEF Sound
  <2>7. \A f, g \in assigned'[b].applied : assigned'[b].record[f] = assigned'[b].record[g] => f = g
    BY <1>0, <2>5 DEF Sound
  <2>8. QED BY <1>4, <2>3, <2>4, <2>6, <2>7 DEF Sound
<1>9. QED BY <1>6, <1>7, <1>8

LEMMA RunIsFaithful ==
  ASSUME ZoneInv, NEW op \in ops, NEW s \in op.steps, NEW b \in Binding, NEW e, NEW r \in Record,
         Ran(op, s, b, e, r), b \notin disturbed
  PROVE  Faithful(b)'
<1>1. Faithful(b)
  BY DEF ZoneInv, BindingsAreSound
<1>2. binding'[b].phase = "bound" /\ binding[b].phase = "bound" /\ doubt' = doubt
  BY DEF Ran
<1>3. /\ \A q \in Record \ {r} : local'[b][q] = local[b][q] /\ remote'[b][q] = remote[b][q]
      /\ s.action = "delete" => local'[b][r] = NoRow /\ remote'[b][r] = NoRow
      /\ s.action # "delete" =>
           /\ local'[b][r] # NoRow /\ local'[b][r].managed /\ local'[b][r].content = s.content
           /\ remote'[b][r] = s.content
  BY DEF Ran
<1>4. \A q \in Record :
        remote'[b][q] = IF local'[b][q] = NoRow THEN NoRow ELSE local'[b][q].content
  BY <1>1, <1>3 DEF Faithful
<1>5. \A q \in Record : local'[b][q] # NoRow => local'[b][q].managed
  BY <1>1, <1>2, <1>3 DEF Faithful, Rows
<1>6. QED BY <1>1, <1>2, <1>4, <1>5 DEF Faithful, Rows

\* What the step has done is not in the way of another step of its binding.
LEMMA RunLeavesHeld ==
  ASSUME ZoneInv, NEW op \in ops, NEW s \in op.steps, NEW b \in Binding, NEW e \in Endpoint,
         NEW r \in Record, s.binding = b, s.endpoint = e, Ran(op, s, b, e, r),
         NEW t \in op.steps, t # s, t.binding = b, ~op.single \/ b \notin narrowed
  PROVE  /\ ~op.single /\ t.endpoint \in Endpoint /\ t.endpoint # e
         /\ assigned'[b].record[t.endpoint] = assigned[b].record[t.endpoint]
         /\ t.action = "create" =>
              \/ assigned[b].record[t.endpoint] = NoRecord
              \/ ~ManagedRow(b, assigned[b].record[t.endpoint])'
<1>0. TypeOK /\ Sound(b) /\ Holds(op, s) /\ Holds(op, t) /\ NoRecord \notin Record
  BY Numbers DEF ZoneInv, BindingsAreSound, PlansFit, Fits, Ran
<1>1. t.endpoint \in Endpoint
  <2>1. t \in Step
    BY <1>0 DEF TypeOK, Operation
  <2>2. QED BY <2>1 DEF Step
<1>2. ~op.single /\ t.endpoint # e
  BY <1>0 DEF Holds, AsOne
<1>3. assigned'[b].record[t.endpoint] = assigned[b].record[t.endpoint]
  BY <1>1, <1>2 DEF Ran
<1>4. ASSUME t.action = "create", NEW q, q = assigned[b].record[t.endpoint], q # NoRecord
      PROVE  ~ManagedRow(b, q)'
  <2>1. /\ assigned[b].applied \in SUBSET Endpoint
        /\ assigned[b].record \in [Endpoint -> Record \cup {NoRecord}]
        /\ \A f \in Endpoint : assigned[b].record[f] \in Record => f \in assigned[b].applied
    BY <1>0, AssignedRecords
  <2>2. q \in Record /\ t.endpoint \in assigned[b].applied
    BY <1>1, <1>4, <2>1
  <2>3. ~ManagedRow(b, q)
    BY <1>0, <1>2, <1>4 DEF Holds
  <2>4. CASE q # r
    BY <2>2, <2>3, <2>4 DEF Ran, ManagedRow
  <2>5. CASE q = r
    <3>1. s.action # "create"
      BY <1>1, <1>4, <2>5 DEF Ran
    <3>2. CASE s.action = "delete"
      BY <2>5, <3>2 DEF Ran, ManagedRow
    <3>3. CASE s.action # "delete"
      <4>1. assigned[b].record[e] = r
        BY <1>0, <1>2, <3>1 DEF Holds, Ran
      <4>2. e \in assigned[b].applied
        BY <2>1, <4>1
      <4>3. \A f, g \in assigned[b].applied :
              assigned[b].record[f] = assigned[b].record[g] => f = g
        BY <1>0 DEF Sound
      <4>4. assigned[b].record[t.endpoint] = assigned[b].record[e]
        BY <1>4, <2>5, <4>1
      <4>5. QED BY <1>2, <2>2, <4>2, <4>3, <4>4
    <3>4. QED BY <3>2, <3>3
  <2>6. QED BY <2>4, <2>5
<1>5. QED BY <1>1, <1>2, <1>3, <1>4

\* After a step its binding still has a record, or a step that publishes one.
LEMMA RunStaysShown ==
  ASSUME ZoneInv, NEW op \in ops, NEW s \in op.steps, NEW b \in Binding, NEW e \in Endpoint,
         NEW r \in Record, s.binding = b, s.endpoint = e, Ran(op, s, b, e, r),
         ~op.single, StaysShown(op, b),
         NEW new, new.steps = op.steps \ {s}
  PROVE  StaysShown(new, b)'
<1>0. TypeOK /\ Sound(b) /\ Holds(op, s) /\ NoRecord \notin Record
  BY Numbers DEF ZoneInv, BindingsAreSound, PlansFit, Fits, Ran
<1>1. /\ assigned[b].applied \in SUBSET Endpoint
      /\ \A f \in Endpoint : assigned[b].record[f] \in Record => f \in assigned[b].applied
  BY <1>0, AssignedRecords
<1>2. CASE \E t \in op.steps : t # s /\ t.binding = b /\ t.action # "delete"
  BY <1>2 DEF StaysShown
<1>3. CASE s.action # "delete"
  <2>1. assigned'[b].record[e] = r /\ r \in Rows(b)'
    BY <1>3 DEF Ran, Rows
  <2>2. \A t \in op.steps : t.binding = b /\ t # s => t.endpoint # e
    BY <1>0 DEF Holds
  <2>3. QED BY <2>1, <2>2 DEF StaysShown, HasRow
<1>4. CASE \E f \in Endpoint : HasRow(b, f) /\ \A t \in op.steps : t.binding = b => t.endpoint # f
  <2>1. PICK f \in Endpoint : HasRow(b, f) /\ \A t \in op.steps : t.binding = b => t.endpoint # f
    BY <1>4
  <2>2. SUFFICES ASSUME s.action = "delete" PROVE HasRow(b, f)'
    BY <1>3, <2>1 DEF StaysShown
  <2>3. f # e /\ assigned[b].record[f] \in Record
    BY <2>1 DEF HasRow, Rows
  <2>4. assigned'[b].record[f] = assigned[b].record[f]
    BY <2>2, <2>3 DEF Ran
  <2>5. assigned[b].record[e] = r
    BY <1>0, <2>2 DEF Holds, Ran
  <2>6. assigned[b].record[f] # r
    BY <1>0, <1>1, <2>3, <2>5 DEF Sound
  <2>7. QED BY <2>1, <2>3, <2>4, <2>6 DEF HasRow, Rows, Ran
<1>5. QED BY <1>2, <1>3, <1>4 DEF StaysShown

LEMMA RunPlansFit ==
  ASSUME ZoneInv, NEW op \in ops, NEW s \in op.steps, NEW b \in Binding, NEW e \in Endpoint,
         NEW r \in Record, s.binding = b, s.endpoint = e, Ran(op, s, b, e, r)
  PROVE  PlansFit'
<1>0. TypeOK /\ OnePlan /\ Fits(op) /\ Current(op) /\ \A x \in ops : Fits(x)
  BY DEF ZoneInv, PlansFit, Ran
<1>1. PICK new : /\ ops' \subseteq (ops \ {op}) \cup {new}
                 /\ new.steps = (op.steps \ {s}) \cup {}
                 /\ new.single = op.single
                 /\ new.policy = op.policy /\ new.decision = op.decision
  BY <1>0, WithStepsAre DEF Ran
<1>2. new.steps = op.steps \ {s}
  BY <1>1
<1>3. ASSUME NEW t \in op.steps
      PROVE  t.binding \in Binding /\ t.endpoint \in Endpoint
  <2>1. t \in Step
    BY <1>0 DEF TypeOK, Operation
  <2>2. QED BY <2>1 DEF Step
<1>4. UNCHANGED <<binding, disturbed, pool, narrowed>>
  BY DEF Ran
<1>5. \A c \in Binding \ {b} :
        /\ \A q \in Record : ManagedRow(c, q)' <=> ManagedRow(c, q)
        /\ Rows(c)' = Rows(c) /\ assigned'[c] = assigned[c]
  BY DEF Ran, ManagedRow, Rows
<1>6. ASSUME NEW t \in new.steps
      PROVE  Holds(new, t)'
  <2>1. t \in op.steps /\ t # s /\ Holds(op, t)
    BY <1>0, <1>2, <1>6 DEF Fits
  <2>2. \A u \in new.steps :
          u.binding = t.binding /\ (AsOne(new, t)' \/ (~new.single /\ u.endpoint = t.endpoint)) => u = t
    BY <1>1, <1>2, <1>4, <2>1 DEF Holds, AsOne
  <2>3. CASE t.binding = b /\ op.single /\ b \in narrowed
    BY <1>1, <1>4, <2>2, <2>3 DEF Holds, AsOne
  <2>4. CASE t.binding = b /\ (~op.single \/ b \notin narrowed)
    <3>1. /\ ~op.single /\ t.endpoint \in Endpoint /\ t.endpoint # e
          /\ assigned'[b].record[t.endpoint] = assigned[b].record[t.endpoint]
          /\ t.action = "create" =>
               \/ assigned[b].record[t.endpoint] = NoRecord
               \/ ~ManagedRow(b, assigned[b].record[t.endpoint])'
      BY <2>1, <2>4, RunLeavesHeld
    <3>2. PICK q : q = assigned[b].record[t.endpoint]
      OBVIOUS
    <3>3. assigned'[b].record[t.endpoint] = q
      BY <3>1, <3>2
    <3>4. t.action = "create" => q = NoRecord \/ ~ManagedRow(b, q)'
      BY <3>1, <3>2
    <3>5. t.action # "create" => q = t.record
      BY <2>1, <2>4, <3>1, <3>2 DEF Holds
    <3>6. QED BY <1>1, <2>2, <2>4, <3>1, <3>3, <3>4, <3>5 DEF Holds, AsOne
  <2>5. CASE t.binding # b
    <3>1. t.binding \in Binding \ {b} /\ t.endpoint \in Endpoint
      BY <1>3, <2>1, <2>5
    <3>2. assigned[t.binding].record[t.endpoint] \in Record \cup {NoRecord}
      BY <1>0, <3>1, BindingRowType
    <3>3. \A q \in Record : ManagedRow(t.binding, q)' <=> ManagedRow(t.binding, q)
      BY <1>5, <3>1
    <3>4. assigned'[t.binding].record[t.endpoint] = assigned[t.binding].record[t.endpoint]
      BY <1>5, <3>1
    <3>5. AsOne(new, t)' => AsOne(op, t)
      BY <1>1, <1>4 DEF AsOne
    <3>6. QED BY <1>1, <2>1, <2>2, <3>2, <3>3, <3>4, <3>5 DEF Holds
  <2>6. QED BY <2>3, <2>4, <2>5
<1>7. ASSUME NEW t \in new.steps, t.binding \notin disturbed \cup narrowed
      PROVE  StaysShown(new, t.binding)'
  <2>1. t \in op.steps /\ t # s /\ StaysShown(op, t.binding)
    BY <1>0, <1>2, <1>7 DEF Fits
  <2>2. CASE t.binding = b
    <3>1. ~op.single
      BY <1>7, <2>1, <2>2, RunLeavesHeld
    <3>2. QED BY <1>2, <2>1, <2>2, <3>1, RunStaysShown
  <2>3. CASE t.binding # b
    <3>1. t.binding \in Binding \ {b}
      BY <1>3, <2>1, <2>3
    <3>2. \A f \in Endpoint : HasRow(t.binding, f)' <=> HasRow(t.binding, f)
      BY <1>5, <3>1 DEF HasRow
    <3>3. QED BY <1>2, <2>1, <2>3, <3>2 DEF StaysShown
  <2>4. QED BY <2>2, <2>3
<1>8. Fits(new)'
  <2>1. ASSUME NEW t \in new.steps
        PROVE  /\ t.binding \in Bound'
               /\ t.binding \notin disturbed' => ~t.tried
    BY <1>0, <1>2, <1>4 DEF Fits, Bound
  <2>2. \A t \in new.steps : t.binding \notin (disturbed \cup narrowed)' => StaysShown(new, t.binding)'
    BY <1>4, <1>7
  <2>3. QED BY <1>6, <2>1, <2>2 DEF Fits
<1>9. \A x \in ops : x # op => Fits(x)'
  BY <1>0, <1>4, OthersFit
<1>10. QED BY <1>1, <1>4, <1>8, <1>9 DEF PlansFit

LEMMA RunZone ==
  ASSUME ZoneInv, NEW op \in ops, NEW s \in op.steps, NEW r \in Record, RunStep(op, s, r)
  PROVE  BindingsAreSound' /\ SyncIsSound' /\ PlansFit'
<1>1. PICK b, e : b = s.binding /\ e = s.endpoint
  OBVIOUS
<1>2. TypeOK /\ Ran(op, s, b, e, r)
  BY <1>1, RunStepIs DEF ZoneInv
<1>3. b \in Binding /\ e \in Endpoint
  <2>1. s \in Step
    BY <1>2 DEF TypeOK, Operation
  <2>2. QED BY <1>1, <2>1 DEF Step
<1>4. Sound(b)' /\ (b \notin disturbed' => Faithful(b)')
  <2>1. Sound(b)'
    BY <1>1, <1>2, <1>3, RunIsSound
  <2>2. b \notin disturbed => Faithful(b)'
    BY <1>2, <1>3, RunIsFaithful
  <2>3. QED BY <1>2, <2>1, <2>2 DEF Ran
<1>5. ASSUME NEW c \in Binding, c # b
      PROVE  Sound(c)' /\ (c \notin disturbed' => Faithful(c)')
  <2>1. Untouched(c) /\ StillNarrowed /\ disturbed \subseteq disturbed'
    BY <1>2, <1>5 DEF Ran, Untouched, StillNarrowed
  <2>2. Sound(c) /\ (c \notin disturbed => Faithful(c))
    BY DEF ZoneInv, BindingsAreSound
  <2>3. QED BY <2>1, <2>2, UntouchedIsSound
<1>6. BindingsAreSound'
  BY <1>4, <1>5 DEF BindingsAreSound
<1>7. SyncIsSound'
  BY <1>2, SyncFrame DEF ZoneInv, Ran
<1>8. PlansFit'
  BY <1>1, <1>2, <1>3, RunPlansFit
<1>9. QED BY <1>6, <1>7, <1>8

\* A step that writes at most the provider, or gives a write up.
LEMMA DoubtZone ==
  ASSUME ZoneInv, NEW op \in ops, NEW s \in op.steps, Current(op), sync.phase = "idle",
         NEW S \in {{}, {[s EXCEPT !.tried = TRUE]}}, ops' = WithSteps(op, s, S),
         UNCHANGED <<pool, binding, assigned, local, sync, narrowed>>,
         disturbed' = disturbed \cup {s.binding},
         \A c \in Binding : c # s.binding => doubt'[c] = doubt[c] /\ remote'[c] = remote[c],
         \A f \in assigned[s.binding].applied :
           remote[s.binding][assigned[s.binding].record[f]] = NoRow =>
             \/ assigned[s.binding].record[f] \in Rows(s.binding)
             \/ remote'[s.binding][assigned[s.binding].record[f]] = NoRow
  PROVE  BindingsAreSound' /\ SyncIsSound' /\ PlansFit'
<1>0. TypeOK
  BY DEF ZoneInv
<1>1. PICK b : b = s.binding
  OBVIOUS
<1>2. b \in Binding
  <2>1. s \in Step
    BY <1>0 DEF TypeOK, Operation
  <2>2. QED BY <1>1, <2>1 DEF Step
<1>3. Sound(b) /\ \A c \in Binding : Sound(c) /\ (c \notin disturbed => Faithful(c))
  BY <1>2 DEF ZoneInv, BindingsAreSound
<1>4. Sound(b)'
  BY <1>1, <1>3 DEF Sound, Rows, ManagedRow
<1>5. ASSUME NEW c \in Binding, c # b
      PROVE  Sound(c)' /\ (c \notin disturbed' => Faithful(c)')
  <2>1. Untouched(c) /\ StillNarrowed /\ disturbed \subseteq disturbed'
    BY <1>1, <1>5 DEF Untouched, StillNarrowed
  <2>2. QED BY <1>3, <2>1, UntouchedIsSound
<1>6. BindingsAreSound'
  BY <1>1, <1>4, <1>5 DEF BindingsAreSound
<1>7. SyncIsSound'
  BY <1>0, SyncFrame DEF ZoneInv
<1>8. PlansFit'
  BY WeakenedFits
<1>9. QED BY <1>6, <1>7, <1>8

LEMMA LoseAnswerZone ==
  ASSUME ZoneInv, NEW op \in ops, NEW s \in op.steps, NEW r \in Record, NEW written,
         LoseAnswer(op, s, r, written)
  PROVE  BindingsAreSound' /\ SyncIsSound' /\ PlansFit'
<1>0. TypeOK
  BY DEF ZoneInv
<1>1. /\ Current(op) /\ sync.phase = "idle" /\ r \in Target(s)
      /\ UNCHANGED <<pool, binding, assigned, local, sync, doubt, narrowed>>
      /\ disturbed' = disturbed \cup {s.binding}
      /\ ops' = WithSteps(op, s, {[s EXCEPT !.tried = TRUE]})
      /\ \/ remote' = remote
         \/ remote' = [remote EXCEPT ![s.binding][r] =
                         IF s.action = "delete" THEN NoRow ELSE s.content]
  BY DEF LoseAnswer, MayRun, Written, asked
<1>2. PICK b : b = s.binding
  OBVIOUS
<1>3. s \in Step /\ b \in Binding
  <2>1. s \in Step
    BY <1>0 DEF TypeOK, Operation
  <2>2. QED BY <1>2, <2>1 DEF Step
<1>4. Sound(b)
  BY <1>3 DEF ZoneInv, BindingsAreSound
<1>5. /\ \A c \in Binding : c # b => remote'[c] = remote[c]
      /\ \A q \in Record : q # r => remote'[b][q] = remote[b][q]
      /\ remote'[b][r] \in {remote[b][r], IF s.action = "delete" THEN NoRow ELSE s.content}
  BY <1>0, <1>1, <1>2, <1>3 DEF TypeOK
<1>6. ASSUME NEW f \in assigned[b].applied, remote[b][assigned[b].record[f]] = NoRow
      PROVE  \/ assigned[b].record[f] \in Rows(b)
             \/ remote'[b][assigned[b].record[f]] = NoRow
  <2>1. f \in Endpoint /\ assigned[b].record[f] \in Record
    BY <1>0, <1>3, <1>4, AssignedRecords
  <2>2. CASE assigned[b].record[f] # r
    BY <1>5, <1>6, <2>1, <2>2
  <2>3. CASE assigned[b].record[f] = r
    <3>1. s.action # "create"
      BY <1>1, <1>2, <1>0, <1>3, <1>4, <2>1, <2>3, CreatedIsNew
    <3>2. s.action # "update"
      BY <1>1, <1>2, <1>6, <2>3 DEF Target
    <3>3. s.action = "delete"
      BY <1>3, <3>1, <3>2 DEF Step
    <3>4. QED BY <1>5, <1>6, <2>3, <3>3
  <2>4. QED BY <2>2, <2>3
<1>7. \A c \in Binding : c # s.binding => doubt'[c] = doubt[c] /\ remote'[c] = remote[c]
  BY <1>1, <1>2, <1>5
<1>8. QED BY <1>1, <1>2, <1>6, <1>7, DoubtZone

LEMMA FailStepZone ==
  ASSUME ZoneInv, NEW op \in ops, NEW s \in op.steps, NEW status, FailStep(op, s, status)
  PROVE  BindingsAreSound' /\ SyncIsSound' /\ PlansFit'
<1>0. TypeOK
  BY DEF ZoneInv
<1>1. /\ Current(op) /\ sync.phase = "idle"
      /\ UNCHANGED <<pool, binding, assigned, local, remote, sync, narrowed>>
      /\ disturbed' = disturbed \cup {s.binding}
      /\ ops' = WithSteps(op, s, {})
      /\ doubt' = Doubted({[s EXCEPT !.tried = TRUE]})
  BY DEF FailStep, MayRun, zone, asked
<1>2. s \in Step
  BY <1>0 DEF TypeOK, Operation
<1>3. [s EXCEPT !.tried = TRUE].binding = s.binding
  BY <1>2 DEF Step
<1>4. \A c \in Binding : c # s.binding => doubt'[c] = doubt[c] /\ remote'[c] = remote[c]
  BY <1>1, <1>3 DEF Doubted
<1>5. \A f \in assigned[s.binding].applied :
        remote[s.binding][assigned[s.binding].record[f]] = NoRow =>
          remote'[s.binding][assigned[s.binding].record[f]] = NoRow
  BY <1>1
<1>6. QED BY <1>1, <1>4, <1>5, DoubtZone

LEMMA SupersedeZone ==
  ASSUME ZoneInv, Grows, NEW op \in ops, Supersede(op)
  PROVE  BindingsAreSound' /\ SyncIsSound' /\ PlansFit'
<1>0. TypeOK /\ Fits(op) /\ \A c \in Binding : Sound(c) /\ (c \notin disturbed => Faithful(c))
  BY DEF ZoneInv, PlansFit, BindingsAreSound
<1>1. /\ UNCHANGED <<pool, binding, assigned, local, remote, sync, disturbed, narrowed>>
      /\ ops' \subseteq ops
      /\ doubt' = Doubted({s \in op.steps : s.tried})
  BY DEF Supersede, zone, asked
<1> DEFINE T == Binding \cap disturbed
<1>2. T \in SUBSET Binding
  OBVIOUS
<1>3. ASSUME NEW c \in Binding \ T
      PROVE  Untouched(c)
  <2>1. \A s \in op.steps : s.binding = c => ~s.tried
    BY <1>0, <1>3 DEF Fits
  <2>2. doubt'[c] = doubt[c]
    BY <1>1, <2>1 DEF Doubted
  <2>3. QED BY <1>1, <2>2 DEF Untouched
<1>4. \A c \in T : Sound(c)' /\ Steady(c)
  BY <1>0, <1>1 DEF Sound, Steady, Rows, ManagedRow
<1>5. \A c \in T : c \in disturbed'
  BY <1>1
<1>6. StillNarrowed /\ disturbed \subseteq disturbed'
  BY <1>1 DEF StillNarrowed
<1> HIDE DEF T
<1>7. BindingsAreSound' /\ PlansFit'
  BY <1>0, <1>1, <1>2, <1>3, <1>4, <1>5, <1>6, ZoneFrame DEF ZoneInv
<1>8. \A p \in Spot : RemoteOf(p) = NoRow => RemoteOf(p)' = NoRow
  BY <1>1 DEF RemoteOf
<1>9. QED BY <1>0, <1>1, <1>6, <1>7, <1>8, SyncFrame DEF ZoneInv

LEMMA StepZone ==
  ASSUME ZoneInv, StillNarrowed, StepNext
  PROVE  BindingsAreSound' /\ SyncIsSound' /\ PlansFit'
<1>1. TypeOK /\ Grows
  BY StepKeeps DEF ZoneInv
<1>2. QED BY <1>1, RunZone, LoseAnswerZone, FailStepZone, SupersedeZone DEF StepNext

\* Only a reconcile narrows, and no step forgets what was narrowed.
LEMMA NarrowedGrows ==
  ASSUME [Next]_vars
  PROVE  StillNarrowed
<1>1. \A x, y : Ask(x, y) => narrowed' = narrowed
  BY DEF Ask
<1>2. Edit => narrowed' = narrowed
  BY <1>1 DEF Edit, UpdatePool, Pause, Resume, CreateEndpoint, UpdateLifecycle, UpdateAddress,
       DeleteEndpoint, CreateBinding, TakeOver, UpdateBinding, CreateHealthCheck,
       DeleteHealthCheck, ReconcileRequest, Restore, asked
<1>3. Answer \/ Observation \/ Outbox => narrowed' = narrowed
  BY DEF Answer, RecordPolicyChange, EnqueueReconcile, StopHalfway, Observation, Observe,
       Promote, Outbox, Dispatch, asked
<1>4. ASSUME NEW i, Work(i) PROVE StillNarrowed
  <2>1. ASSUME NEW hash, NEW first, Reconcile(i, hash, first)
        PROVE  StillNarrowed
    BY <2>1 DEF Reconcile, StillNarrowed
  <2>2. ASSUME NEW hash, ProviderUnavailable(i, hash)
        PROVE  StillNarrowed
    BY <2>2 DEF ProviderUnavailable, asked, StillNarrowed
  <2>3. Settle(i) => StillNarrowed
    BY DEF Settle, asked, StillNarrowed
  <2>4. QED BY <1>4, <2>1, <2>2, <2>3 DEF Work
<1>5. StepNext => narrowed' = narrowed
  BY DEF StepNext, Supersede, FailStep, RunStep, LoseAnswer, asked
<1>6. Deletion => narrowed' = narrowed
  BY DEF Deletion, DeleteBinding, ReadBack, FinishDeletion, Erase, EraseLosesAnswer,
       EraseFails, asked
<1>7. SyncNext => narrowed' = narrowed
  BY DEF SyncNext, SyncStart, SyncMissing, SyncEnd, SyncLost, SyncDrift, SyncRow, asked
<1>8. World => narrowed' = narrowed
  BY DEF World, LoseJob, SyncFails, SetStatus, Tamper, asked
<1>9. QED
  BY <1>2, <1>3, <1>4, <1>5, <1>6, <1>7, <1>8 DEF Next, Worker, vars, StillNarrowed

LEMMA ZoneStep ==
  ASSUME ZoneInv, [Next]_vars
  PROVE  ZoneInv'
<1>0. TypeOK /\ RevisionsGrow /\ OnePlan /\ Grows /\ StillNarrowed
  BY NextKeeps, NarrowedGrows DEF ZoneInv
<1>1. TypeOK' /\ RevisionsGrow' /\ OnePlan'
  BY <1>0, TypeStep, RevisionsStep, OnePlanStep
<1>2. BindingsAreSound' /\ SyncIsSound' /\ PlansFit'
  <2>1. CASE Next
    BY <1>0, <2>1, EditZone, AnswerZone, ObservationZone, PlannerZone, StepZone, DeletionZone,
       SyncZone, WorldZone DEF Next
  <2>2. CASE UNCHANGED vars
    <3>1. Aside
      BY <2>2 DEF vars, Aside, Untouched
    <3>2. QED BY <1>0, <3>1, AsideZone
  <2>3. QED BY <2>1, <2>2
<1>3. QED BY <1>1, <1>2 DEF ZoneInv

LEMMA InitBindings == Init => BindingsAreSound
<1> SUFFICES ASSUME Init PROVE BindingsAreSound
  OBVIOUS
<1>1. PICK begin \in Beginnings :
        LET present == begin.present
            setting == begin.setting
            start == begin.start
            first == IF present = {} THEN NoEndpoint ELSE First(present)
            at == IF setting.strategy = "healthy_set" THEN present ELSE {first} \ {NoEndpoint}
        IN
        /\ pool = [enabled |-> TRUE, setting |-> setting, policy |-> 1, decision |-> 0,
                   cursors |-> Unsaid]
        /\ binding = [b \in Binding |->
             [phase |-> IF start[b] = "published" THEN "bound" ELSE "absent",
              original |-> IF start[b] = "published" THEN first ELSE NoEndpoint,
              doomed |-> {}, stuck |-> FALSE]]
        /\ assigned = [b \in Binding |-> IF start[b] # "published" THEN Unassigned ELSE
             [desired |-> at, applied |-> at,
              record |-> [e \in Endpoint |-> IF e \in at THEN e ELSE NoRecord]]]
        /\ remote = [b \in Binding |-> [r \in Record |->
             CASE start[b] = "published" /\ r \in at -> <<r, 1>>
               [] start[b] = "foreign" /\ r = 1 -> Foreign
               [] OTHER -> NoRow]]
        /\ local = [b \in Binding |-> [r \in Record |-> IF remote[b][r] = NoRow THEN NoRow
             ELSE [content |-> remote[b][r], managed |-> start[b] = "published"]]]
        /\ doubt = [b \in Binding |-> {}]
  BY DEF Init
<1>2. TypeOK /\ NoRecord \notin Record /\ Endpoint \subseteq Record
  BY InitType, Numbers
<1>3. begin.present \in SUBSET Endpoint
  BY PoolAssumption
<1> DEFINE first == IF begin.present = {} THEN NoEndpoint ELSE First(begin.present)
           at == IF begin.setting.strategy = "healthy_set" THEN begin.present
                 ELSE {first} \ {NoEndpoint}
<1>4. at \in SUBSET Endpoint
  BY <1>3, FirstIsMember
<1> HIDE DEF at, first
<1>6. ASSUME NEW b \in Binding PROVE Sound(b) /\ Faithful(b)
  <2>1. PICK published \in BOOLEAN : published <=> begin.start[b] = "published"
    OBVIOUS
  <2>2. local[b] = [r \in Record |-> IF remote[b][r] = NoRow THEN NoRow
                     ELSE [content |-> remote[b][r], managed |-> published]]
    BY <1>1, <2>1
  <2>3. ASSUME NEW r \in Record
        PROVE  /\ local[b][r] = NoRow <=> remote[b][r] = NoRow
               /\ remote[b][r] # NoRow =>
                    local[b][r].content = remote[b][r] /\ local[b][r].managed = published
    <3>1. remote[b][r] \in Content \cup {NoRow}
      BY <1>2 DEF TypeOK
    <3>2. \A c \in Content : [content |-> c, managed |-> published] # NoRow
      BY PoolAssumption
    <3>3. QED BY <2>2, <3>1, <3>2
  <2>4. CASE begin.start[b] = "published"
    <3>1. /\ binding[b].phase = "bound" /\ doubt[b] = {}
          /\ assigned[b].applied = at
          /\ \A e \in Endpoint : assigned[b].record[e] = IF e \in at THEN e ELSE NoRecord
      BY <1>1, <2>4 DEF at, first
    <3>2. \A r \in Record : remote[b][r] # NoRow <=> r \in at
      <4>1. \A r \in at : <<r, 1>> \in Content
        BY <1>4, Numbers DEF Content, Address
      <4>2. \A r \in Record : remote[b][r] = IF r \in at THEN <<r, 1>> ELSE NoRow
        BY <1>1, <2>4 DEF at, first
      <4>3. QED BY <4>1, <4>2, RowsAreNot
    <3>3. \A e \in at : e \in Rows(b)
      BY <1>2, <1>4, <2>3, <3>2 DEF Rows
    <3>4. \A r \in Record : ManagedRow(b, r) => r \in at
      BY <2>3, <3>2 DEF ManagedRow
    <3>5. Sound(b)
      BY <1>2, <1>4, <3>1, <3>3, <3>4 DEF Sound
    <3>6. Faithful(b)
      BY <2>1, <2>3, <2>4, <3>1 DEF Faithful, Rows
    <3>7. QED BY <3>5, <3>6
  <2>5. CASE begin.start[b] # "published"
    <3>1. /\ binding[b].phase = "absent" /\ doubt[b] = {}
          /\ assigned[b].applied = {}
          /\ \A e \in Endpoint : assigned[b].record[e] = NoRecord
      BY <1>1, <2>5 DEF Unassigned
    <3>2. Sound(b)
      BY <3>1 DEF Sound
    <3>3. Faithful(b)
      BY <2>3, <3>1 DEF Faithful
    <3>4. QED BY <3>2, <3>3
  <2>6. QED BY <2>4, <2>5
<1>7. QED BY <1>6 DEF BindingsAreSound

LEMMA InitZone == Init => ZoneInv
<1> SUFFICES ASSUME Init PROVE ZoneInv
  OBVIOUS
<1>1. TypeOK /\ BindingsAreSound /\ ops = {} /\ intents = {}
  BY InitType, InitBindings, NoPlansYet
<1>2. SyncIsSound
  BY DEF Init, Asleep, SyncIsSound
<1>3. QED BY <1>1, <1>2 DEF ZoneInv, RevisionsGrow, OnePlan, OpsDiffer, PlansFit

LEMMA ZoneAlways == Spec => []ZoneInv
<1>1. ZoneInv /\ [Next]_vars => ZoneInv'
  BY ZoneStep
<1>2. QED BY <1>1, InitZone, PTL DEF Spec

\* Every record the pool manages for a name it holds is the record of one of its
\* assignments, whatever settings users switch between: a name is excepted only
\* from the plan on that reduces several records of it to one.
THEOREM ManagedRecordsAreAssignedAlways == Spec => []ManagedRecordsAreAssigned
<1>1. ZoneInv => ManagedRecordsAreAssigned
  <2> SUFFICES ASSUME ZoneInv, NEW b \in Bound \ narrowed, NEW r \in Record, ManagedRow(b, r)
               PROVE  \E e \in Endpoint : assigned[b].record[e] = r
    BY DEF ManagedRecordsAreAssigned, ManagedRow
  <2>1. Sound(b) /\ b \in Binding /\ binding[b].phase = "bound" /\ TypeOK
    BY DEF ZoneInv, BindingsAreSound, Bound
  <2>2. assigned[b].applied \in SUBSET Endpoint
    BY <2>1, AssignedRecords
  <2>3. QED BY <2>1, <2>2 DEF Sound
<1>2. QED BY <1>1, ZoneAlways, PTL

-----------------------------------------------------------------------------
(* The pool keeps the promise of module Publishing.                        *)

\* The state of the promise for a name.
Tenure(b) == CASE binding[b].phase = "absent" -> "free"
               [] binding[b].phase = "bound" -> "held"
               [] OTHER -> "leaving"
Shown(b) == {<<r, remote[b][r]>> : r \in {q \in Record : remote[b][q] # NoRow}}
Left(b, r) == {p \in Shown(b) : p[1] # r}
Ended == disturbed \cup narrowed

\* What a step leaves as it is for the promise.
SamePhases == \A c \in Binding : binding'[c].phase = binding[c].phase
SameRecords == \A c \in Binding : remote'[c] = remote[c]

LEMMA TenureStays ==
  ASSUME SamePhases
  PROVE  [c \in Binding |-> Tenure(c)'] = [c \in Binding |-> Tenure(c)]
<1>1. \A c \in Binding : Tenure(c)' = Tenure(c)
  BY DEF SamePhases, Tenure
<1>2. QED BY <1>1

LEMMA ShownStays ==
  ASSUME SameRecords
  PROVE  [c \in Binding |-> Shown(c)'] = [c \in Binding |-> Shown(c)]
<1>1. \A c \in Binding : Shown(c)' = Shown(c)
  BY DEF SameRecords, Shown
<1>2. QED BY <1>1

LEMMA TenureMoves ==
  ASSUME NEW b \in Binding, \A c \in Binding \ {b} : binding'[c].phase = binding[c].phase
  PROVE  [c \in Binding |-> Tenure(c)'] = [[c \in Binding |-> Tenure(c)] EXCEPT ![b] = Tenure(b)']
<1>1. \A c \in Binding \ {b} : Tenure(c)' = Tenure(c)
  BY DEF Tenure
<1>2. QED BY <1>1

LEMMA ShownMoves ==
  ASSUME NEW b \in Binding, \A c \in Binding \ {b} : remote'[c] = remote[c]
  PROVE  [c \in Binding |-> Shown(c)'] = [[c \in Binding |-> Shown(c)] EXCEPT ![b] = Shown(b)']
<1>1. \A c \in Binding \ {b} : Shown(c)' = Shown(c)
  BY DEF Shown
<1>2. QED BY <1>1

LEMMA PromiseStays ==
  ASSUME SamePhases, SameRecords, Ended' = Ended
  PROVE  UNCHANGED Promise!promise
<1>1. /\ [c \in Binding |-> Tenure(c)'] = [c \in Binding |-> Tenure(c)]
      /\ [c \in Binding |-> Shown(c)'] = [c \in Binding |-> Shown(c)]
  BY TenureStays, ShownStays
<1>2. QED BY <1>1 DEF Promise!promise, Tenure, Shown, Ended

\* The pool takes a name, leaves it, or lets it go.
LEMMA PromiseMoves ==
  ASSUME NEW b \in Binding, \A c \in Binding \ {b} : binding'[c].phase = binding[c].phase,
         SameRecords, Ended' = Ended,
         \/ Tenure(b) = "free" /\ Tenure(b)' = "held"
         \/ Tenure(b) = "held" /\ Tenure(b)' = "leaving"
         \/ /\ Tenure(b) # "free" /\ Tenure(b)' = "free"
            /\ b \in Ended \/ \A r \in Record : remote[b][r] = NoRow
  PROVE  Promise!Next
<1>1. /\ [c \in Binding |-> Tenure(c)'] = [[c \in Binding |-> Tenure(c)] EXCEPT ![b] = Tenure(b)']
      /\ [c \in Binding |-> Shown(c)'] = [c \in Binding |-> Shown(c)]
  BY TenureMoves, ShownStays
<1>2. (\A r \in Record : remote[b][r] = NoRow) => [c \in Binding |-> Shown(c)][b] = {}
  BY DEF Shown
<1>3. [c \in Binding |-> Tenure(c)][b] = Tenure(b)
  OBVIOUS
<1>4. CASE Tenure(b) = "free" /\ Tenure(b)' = "held"
  <2>1. Promise!Hold(b)
    BY <1>1, <1>3, <1>4 DEF Promise!Hold, Tenure, Shown, Ended
  <2>2. QED BY <2>1 DEF Promise!Next
<1>5. CASE Tenure(b) = "held" /\ Tenure(b)' = "leaving"
  <2>1. Promise!Leave(b)
    BY <1>1, <1>3, <1>5 DEF Promise!Leave, Tenure, Shown, Ended
  <2>2. QED BY <2>1 DEF Promise!Next
<1>6. CASE /\ Tenure(b) # "free" /\ Tenure(b)' = "free"
           /\ b \in Ended \/ \A r \in Record : remote[b][r] = NoRow
  <2>1. Promise!Free(b)
    BY <1>1, <1>2, <1>3, <1>6 DEF Promise!Free, Tenure, Shown, Ended
  <2>2. QED BY <2>1 DEF Promise!Next
<1>7. QED BY <1>4, <1>5, <1>6

\* The promise ends for some names, and their records come to any state.
LEMMA PromiseEnds ==
  ASSUME TypeOK', NEW N \in SUBSET Binding, SamePhases,
         \A c \in Binding \ N : remote'[c] = remote[c], Ended' = Ended \cup N
  PROVE  Promise!Next
<1>1. /\ [c \in Binding |-> Tenure(c)'] = [c \in Binding |-> Tenure(c)]
      /\ \A c \in Binding \ N : Shown(c)' = Shown(c)
  BY TenureStays DEF Shown
<1>2. ASSUME NEW c \in Binding PROVE Shown(c)' \in SUBSET (Record \X Content)
  <2>1. \A r \in Record : remote'[c][r] # NoRow => remote'[c][r] \in Content
    BY DEF TypeOK
  <2>2. QED BY <2>1 DEF Shown
<1>3. [c \in Binding |-> Shown(c)'] \in [Binding -> SUBSET (Record \X Content)]
  BY <1>2
<1>4. \A c \in Binding \ N : [d \in Binding |-> Shown(d)'][c] = [d \in Binding |-> Shown(d)][c]
  BY <1>1
<1>5. Promise!Disturb(N)
  BY <1>1, <1>3, <1>4 DEF Promise!Disturb, Promise!Shown, Tenure, Shown, Ended
<1>6. QED BY <1>5 DEF Promise!Next

LEMMA PromiseEndsFor ==
  ASSUME TypeOK', NEW b \in Binding, SamePhases, \A c \in Binding \ {b} : remote'[c] = remote[c],
         Ended' = Ended \cup {b}
  PROVE  Promise!Next
<1> DEFINE N == {b}
<1>1. N \in SUBSET Binding
  OBVIOUS
<1>2. (\A c \in Binding \ N : remote'[c] = remote[c]) /\ Ended' = Ended \cup N
  OBVIOUS
<1> HIDE DEF N
<1>3. QED BY <1>1, <1>2, PromiseEnds

LEMMA RecordsLeft ==
  ASSUME TypeOK, NEW b \in Binding, NEW r \in Record,
         \A q \in Record \ {r} : remote'[b][q] = remote[b][q]
  PROVE  Shown(b)' = Left(b, r) \cup (IF remote'[b][r] = NoRow THEN {} ELSE {<<r, remote'[b][r]>>})
<1>1. Left(b, r) = {<<q, remote[b][q]>> : q \in {p \in Record \ {r} : remote[b][p] # NoRow}}
  BY DEF Left, Shown
<1>2. QED BY <1>1 DEF Shown

LEMMA PromiseShows ==
  ASSUME TypeOK, NEW b \in Binding, NEW r \in Record, SamePhases, Ended' = Ended,
         \A c \in Binding \ {b} : remote'[c] = remote[c],
         \A q \in Record \ {r} : remote'[b][q] = remote[b][q],
         remote'[b][r] \in Content, binding[b].phase = "bound"
  PROVE  Promise!Next
<1>1. PICK content \in Content : content = remote'[b][r]
  OBVIOUS
<1>2. /\ [c \in Binding |-> Tenure(c)'] = [c \in Binding |-> Tenure(c)]
      /\ [c \in Binding |-> Shown(c)'] = [[c \in Binding |-> Shown(c)] EXCEPT ![b] = Shown(b)']
  BY TenureStays, ShownMoves
<1>3. Shown(b)' = Left(b, r) \cup {<<r, content>>}
  BY <1>1, RecordsLeft, RowsAreNot
<1>4. [c \in Binding |-> Tenure(c)][b] = "held"
  BY DEF Tenure
<1>5. Left(b, r) = {p \in [c \in Binding |-> Shown(c)][b] : p[1] # r}
  BY DEF Left
<1>6. Promise!Show(b, r, content)
  BY <1>2, <1>3, <1>4, <1>5 DEF Promise!Show, Promise!Without, Tenure, Shown, Ended
<1>7. QED BY <1>1, <1>6 DEF Promise!Next

LEMMA PromiseHides ==
  ASSUME TypeOK, NEW b \in Binding, NEW r \in Record, SamePhases, Ended' = Ended,
         \A c \in Binding \ {b} : remote'[c] = remote[c],
         \A q \in Record \ {r} : remote'[b][q] = remote[b][q],
         remote'[b][r] = NoRow,
         \/ binding[b].phase = "deleting"
         \/ /\ binding[b].phase = "bound"
            /\ \E q \in Record \ {r} : remote[b][q] # NoRow
  PROVE  Promise!Next
<1>1. /\ [c \in Binding |-> Tenure(c)'] = [c \in Binding |-> Tenure(c)]
      /\ [c \in Binding |-> Shown(c)'] = [[c \in Binding |-> Shown(c)] EXCEPT ![b] = Shown(b)']
  BY TenureStays, ShownMoves
<1>2. Shown(b)' = Left(b, r)
  BY RecordsLeft
<1>3. Left(b, r) = {p \in [c \in Binding |-> Shown(c)][b] : p[1] # r}
  BY DEF Left
<1>4. \/ [c \in Binding |-> Tenure(c)][b] = "leaving"
      \/ [c \in Binding |-> Tenure(c)][b] = "held" /\ Left(b, r) # {}
  <2>1. CASE binding[b].phase = "deleting"
    BY <2>1 DEF Tenure
  <2>2. CASE binding[b].phase = "bound" /\ \E q \in Record \ {r} : remote[b][q] # NoRow
    <3>1. PICK q \in Record \ {r} : remote[b][q] # NoRow
      BY <2>2
    <3>2. <<q, remote[b][q]>> \in Left(b, r)
      BY <3>1 DEF Left, Shown
    <3>3. QED BY <2>2, <3>2 DEF Tenure
  <2>3. QED BY <2>1, <2>2
<1>5. Promise!Hide(b, r)
  BY <1>1, <1>2, <1>3, <1>4 DEF Promise!Hide, Promise!Without, Tenure, Shown, Ended
<1>6. QED BY <1>5 DEF Promise!Next

Kept == Promise!Next \/ UNCHANGED Promise!promise

\* What most requests leave as it is for the promise.
LEMMA EditSpares ==
  ASSUME Edit
  PROVE  /\ remote' = remote /\ Ended' = Ended
         /\ \/ binding' = binding
            \/ \E b \in Binding, e \in Endpoint \cup {NoEndpoint} :
                 CreateBinding(b, e) \/ \E r \in Record : TakeOver(b, e, r)
            \/ \E b \in Binding, e \in Endpoint : binding' = [binding EXCEPT ![b].original = e]
<1> DEFINE Spared == binding' = binding /\ remote' = remote /\ Ended' = Ended
<1>0. \A x, y : Ask(x, y) => (remote' = remote /\ Ended' = Ended)
  BY DEF Ask, zone, Ended
<1>1. ASSUME NEW setting, UpdatePool(setting) PROVE Spared
  BY <1>0, <1>1 DEF UpdatePool
<1>2. Pause \/ Resume \/ CreateHealthCheck => Spared
  BY <1>0 DEF Pause, Resume, CreateHealthCheck
<1>3. ASSUME NEW e, CreateEndpoint(e) \/ \E x : UpdateLifecycle(e, x) \/ UpdateAddress(e, x)
      PROVE  Spared
  BY <1>0, <1>3 DEF CreateEndpoint, UpdateLifecycle, UpdateAddress
<1>4. ASSUME NEW e, DeleteEndpoint(e) PROVE Spared
  BY <1>4 DEF DeleteEndpoint, zone, asked, Ended
<1>5. DeleteHealthCheck => Spared
  BY DEF DeleteHealthCheck, zone, asked, Ended
<1>6. ASSUME NEW force, ReconcileRequest(force) PROVE Spared
  BY <1>6 DEF ReconcileRequest, zone, asked, Ended
<1>7. ASSUME NEW x, NEW l, NEW v, NEW force, Restore(x, l, v, force) PROVE Spared
  BY <1>7 DEF Restore, zone, asked, Ended
<1>8. ASSUME NEW b, NEW e, CreateBinding(b, e) PROVE (remote' = remote /\ Ended' = Ended)
  BY <1>0, <1>8 DEF CreateBinding
<1>9. ASSUME NEW b, NEW e, NEW r, TakeOver(b, e, r) PROVE (remote' = remote /\ Ended' = Ended)
  BY <1>9 DEF TakeOver, Ended
<1>10. ASSUME NEW b, NEW e, NEW force, UpdateBinding(b, e, force)
       PROVE  /\ binding' = [binding EXCEPT ![b].original = e]
              /\ (remote' = remote /\ Ended' = Ended)
  BY <1>0, <1>10 DEF UpdateBinding
<1>11. CASE \/ Pause \/ Resume \/ CreateHealthCheck \/ DeleteHealthCheck
            \/ \E setting \in Settings : UpdatePool(setting)
            \/ \E e \in Endpoint : \/ CreateEndpoint(e)
                 \/ \E lifecycle \in {"enabled", "disabled"} : UpdateLifecycle(e, lifecycle)
                 \/ \E force \in BOOLEAN : UpdateAddress(e, force)
                 \/ DeleteEndpoint(e)
            \/ \E force \in BOOLEAN : ReconcileRequest(force)
            \/ \E setting \in Settings, force \in BOOLEAN,
                  lifecycle \in [Endpoint -> {"enabled", "disabled"}],
                  version \in [Endpoint -> Version] : Restore(setting, lifecycle, version, force)
  <2> HIDE DEF Spared
  <2>1. Spared
    BY <1>1, <1>2, <1>3, <1>4, <1>5, <1>6, <1>7, <1>11
  <2>2. QED BY <2>1 DEF Spared
<1>12. CASE \E b \in Binding : \/ \E e \in Endpoint \cup {NoEndpoint} : CreateBinding(b, e)
                               \/ \E e \in Endpoint, r \in Record : TakeOver(b, e, r)
  BY <1>8, <1>9, <1>12
<1>13. CASE \E b \in Binding : \E e \in Endpoint, force \in BOOLEAN : UpdateBinding(b, e, force)
  BY <1>10, <1>13
<1>14. QED BY <1>11, <1>12, <1>13 DEF Edit

LEMMA EditKept ==
  ASSUME TypeOK, Edit
  PROVE  Kept
<1>1. remote' = remote /\ Ended' = Ended
  BY EditSpares
<1>2. \/ binding' = binding
      \/ \E b \in Binding, e \in Endpoint \cup {NoEndpoint} :
           CreateBinding(b, e) \/ \E r \in Record : TakeOver(b, e, r)
      \/ \E b \in Binding, e \in Endpoint : binding' = [binding EXCEPT ![b].original = e]
  BY EditSpares
<1>3. CASE binding' = binding
  BY <1>1, <1>3, PromiseStays DEF SamePhases, SameRecords, Kept
<1>4. ASSUME NEW b \in Binding, NEW e, binding' = [binding EXCEPT ![b].original = e]
      PROVE  Kept
  <2>1. SamePhases
    BY <1>4 DEF SamePhases, TypeOK, BindingRow
  <2>2. QED BY <1>1, <2>1, PromiseStays DEF SameRecords, Kept
<1>5. ASSUME NEW b \in Binding, NEW e, CreateBinding(b, e) \/ \E r \in Record : TakeOver(b, e, r)
      PROVE  Kept
  <2>1. /\ binding[b].phase = "absent"
        /\ binding' = [binding EXCEPT ![b].phase = "bound", ![b].original = e]
    BY <1>5 DEF CreateBinding, TakeOver
  <2>2. binding[b] \in BindingRow /\ binding \in [Binding -> BindingRow]
    BY DEF TypeOK
  <2>3. binding'[b] = [binding[b] EXCEPT !.phase = "bound", !.original = e]
        /\ \A c \in Binding \ {b} : binding'[c] = binding[c]
    BY <2>1, <2>2
  <2>4. binding'[b].phase = "bound"
    BY <2>2, <2>3 DEF BindingRow
  <2>5. Tenure(b) = "free" /\ Tenure(b)' = "held"
    BY <2>1, <2>4 DEF Tenure
  <2>6. QED BY <1>1, <2>3, <2>5, PromiseMoves DEF SameRecords, Kept
<1>6. QED BY <1>2, <1>3, <1>4, <1>5

LEMMA AsideKept ==
  ASSUME TypeOK', Answer \/ Observation \/ Outbox \/ Worker \/ SyncNext
  PROVE  Kept
<1> DEFINE Spared == binding' = binding /\ remote' = remote /\ Ended' = Ended
<1>1. Spared => Kept
  BY PromiseStays DEF SamePhases, SameRecords, Kept
<1>2. CASE Answer
  <2>1. Spared
    BY <1>2 DEF Answer, RecordPolicyChange, EnqueueReconcile, StopHalfway, zone, Ended
  <2>2. QED BY <1>1, <2>1
<1>3. CASE Observation
  <2>1. Spared
    BY <1>3 DEF Observation, Observe, Promote, zone, asked, Ended
  <2>2. QED BY <1>1, <2>1
<1>4. CASE Outbox
  <2>1. Spared
    BY <1>4 DEF Outbox, Dispatch, zone, asked, Ended
  <2>2. QED BY <1>1, <2>1
<1>5. ASSUME NEW i, Work(i) PROVE Kept
  <2>1. ASSUME NEW hash, NEW first, Reconcile(i, hash, first)
        PROVE  Kept
    <3> DEFINE N == {b \in Planned(ContextOf(i, hash)) : Narrows(b)}
    <3>1. /\ UNCHANGED <<binding, remote, disturbed>>
          /\ narrowed' = narrowed \cup N
      BY <2>1 DEF Reconcile, zone
    <3>2. N \in SUBSET Binding
      BY DEF Planned, Decided
    <3> HIDE DEF N
    <3>3. Ended' = Ended \cup N
      BY <3>1 DEF Ended
    <3>4. QED BY <3>1, <3>2, <3>3, PromiseEnds DEF SamePhases, Kept
  <2>2. ASSUME NEW hash, ProviderUnavailable(i, hash)
        PROVE  Kept
    BY <1>1, <2>2 DEF ProviderUnavailable, zone, asked, Ended
  <2>3. ASSUME Settle(i) PROVE Kept
    BY <1>1, <2>3 DEF Settle, zone, asked, Ended
  <2>4. QED BY <1>5, <2>1, <2>2, <2>3 DEF Work
<1>6. CASE SyncNext
  <2>1. SyncStart \/ SyncMissing \/ SyncEnd => Spared
    BY DEF SyncStart, SyncMissing, SyncEnd, asked, Ended
  <2>2. ASSUME NEW p, SyncLost(p) PROVE Spared
    BY <2>2 DEF SyncLost, asked, Ended
  <2>3. ASSUME NEW p, NEW c, SyncDrift(p, c) PROVE Spared
    BY <2>3 DEF SyncDrift, asked, Ended
  <2>4. ASSUME NEW p, NEW c, SyncRow(p, c) PROVE Spared
    BY <2>4 DEF SyncRow, asked, Ended
  <2>5. QED BY <1>1, <1>6, <2>1, <2>2, <2>3, <2>4 DEF SyncNext
<1>7. QED BY <1>2, <1>3, <1>4, <1>5, <1>6 DEF Worker

LEMMA WorldKept ==
  ASSUME TypeOK, TypeOK', World
  PROVE  Kept
<1>1. \/ binding' = binding /\ remote' = remote /\ Ended' = Ended
      \/ \E b \in Binding, r \in Record, c \in {Foreign, NoRow} : Tamper(b, r, c)
  BY DEF World, LoseJob, SyncFails, SetStatus, zone, asked, Ended
<1>2. ASSUME NEW b \in Binding, NEW r \in Record, NEW c, Tamper(b, r, c)
      PROVE  Kept
  <2>1. /\ binding' = binding /\ Ended' = Ended \cup {b}
        /\ remote' = [remote EXCEPT ![b][r] = c]
    BY <1>2 DEF Tamper, asked, Ended
  <2>2. \A d \in Binding \ {b} : remote'[d] = remote[d]
    BY <2>1 DEF TypeOK
  <2>3. QED BY <2>1, <2>2, PromiseEndsFor DEF SamePhases, Kept
<1>3. QED BY <1>1, <1>2, PromiseStays DEF SamePhases, SameRecords, Kept

\* Before the last record of a name is taken down another one is shown.
LEMMA AnotherStays ==
  ASSUME ZoneInv, NEW op \in ops, NEW s \in Ready(op), NEW b \in Binding, NEW r \in Record,
         s.binding = b, Current(op), s.action = "delete", r = s.record, b \notin Ended
  PROVE  \E q \in Record \ {r} : remote[b][q] # NoRow
<1>0. /\ TypeOK /\ Sound(b) /\ Faithful(b) /\ s \in op.steps
      /\ Holds(op, s) /\ StaysShown(op, b)
  BY DEF ZoneInv, BindingsAreSound, PlansFit, Fits, Ready, Ended
<1>1. s.endpoint \in Endpoint /\ b \in Nat
  <2>1. s \in Step
    BY <1>0 DEF TypeOK, Operation
  <2>2. QED BY <2>1, StrategyAssumption DEF Step, Binding
<1>2. \A t \in op.steps : t.binding = b => t.action = "delete"
  BY <1>1 DEF Ready
<1>3. PICK f \in Endpoint : HasRow(b, f) /\ \A t \in op.steps : t.binding = b => t.endpoint # f
  BY <1>0, <1>2 DEF StaysShown
<1>4. assigned[b].record[s.endpoint] = r
  BY <1>0 DEF Holds, AsOne, Ended
<1>5. f # s.endpoint /\ assigned[b].record[f] \in Record /\ assigned[b].record[f] \in Rows(b)
  BY <1>0, <1>3 DEF HasRow, Rows
<1>6. f \in assigned[b].applied /\ s.endpoint \in assigned[b].applied
  BY <1>0, <1>1, <1>4, <1>5, AssignedRecords
<1>7. assigned[b].record[f] # r
  BY <1>0, <1>4, <1>5, <1>6 DEF Sound
<1>8. remote[b][assigned[b].record[f]] # NoRow
  <2>1. local[b][assigned[b].record[f]] # NoRow
    BY <1>5 DEF Rows
  <2>2. local[b][assigned[b].record[f]] \in Row
    BY <1>0, <1>5, <2>1 DEF TypeOK
  <2>3. QED BY <1>0, <1>5, <2>1, <2>2, RowsAreNot DEF Faithful
<1>9. QED BY <1>5, <1>7, <1>8

LEMMA StepKept ==
  ASSUME ZoneInv, TypeOK', StepNext
  PROVE  Kept
<1>0. TypeOK
  BY DEF ZoneInv
<1>1. ASSUME NEW op \in ops, Supersede(op)
      PROVE  Kept
  BY <1>1, PromiseStays DEF Supersede, zone, asked, Ended, SamePhases, SameRecords, Kept
<1>2. ASSUME NEW op \in ops, NEW s \in op.steps
      PROVE  s \in Step /\ s.binding \in Binding /\ s.content \in Content
  <2>1. s \in Step
    BY <1>0, <1>2 DEF TypeOK, Operation
  <2>2. QED BY <2>1 DEF Step
<1>3. ASSUME NEW op \in ops, NEW s \in op.steps, NEW status, FailStep(op, s, status)
      PROVE  Kept
  <2>1. binding' = binding /\ remote' = remote /\ Ended' = Ended \cup {s.binding}
    BY <1>3 DEF FailStep, zone, asked, Ended
  <2>2. QED BY <1>2, <2>1, PromiseEndsFor DEF SamePhases, Kept
<1>4. ASSUME NEW op \in ops, NEW s \in op.steps, NEW r \in Record, NEW written,
             LoseAnswer(op, s, r, written)
      PROVE  Kept
  <2>1. /\ binding' = binding /\ Ended' = Ended \cup {s.binding}
        /\ \/ remote' = remote
           \/ remote' = [remote EXCEPT ![s.binding][r] =
                           IF s.action = "delete" THEN NoRow ELSE s.content]
    BY <1>4 DEF LoseAnswer, Written, asked, Ended
  <2>2. \A c \in Binding \ {s.binding} : remote'[c] = remote[c]
    BY <1>0, <2>1 DEF TypeOK
  <2>3. QED BY <1>2, <2>1, <2>2, PromiseEndsFor DEF SamePhases, Kept
<1>5. ASSUME NEW op \in ops, NEW s \in op.steps, NEW r \in Record, RunStep(op, s, r)
      PROVE  Kept
  <2>1. PICK b, e : b = s.binding /\ e = s.endpoint
    OBVIOUS
  <2>2. Ran(op, s, b, e, r) /\ s \in Ready(op) /\ b \in Binding /\ s.content \in Content
    BY <1>2, <1>5, <2>1, RunStepIs DEF RunStep, MayRun
  <2>3. /\ SamePhases /\ Ended' = Ended /\ binding[b].phase = "bound" /\ Current(op)
        /\ \A c \in Binding \ {b} : remote'[c] = remote[c]
        /\ \A q \in Record \ {r} : remote'[b][q] = remote[b][q]
        /\ s.action = "delete" => remote'[b][r] = NoRow /\ r = s.record
        /\ s.action # "delete" => remote'[b][r] = s.content
    BY <2>2 DEF Ran, SamePhases, Ended
  <2>4. CASE b \in Ended
    <3>1. Ended' = Ended \cup {b}
      BY <2>3, <2>4
    <3>2. QED BY <2>2, <2>3, <3>1, PromiseEndsFor DEF Kept
  <2>5. CASE s.action # "delete"
    BY <1>0, <2>2, <2>3, <2>5, PromiseShows DEF Kept
  <2>6. CASE b \notin Ended /\ s.action = "delete"
    <3>1. \E q \in Record \ {r} : remote[b][q] # NoRow
      BY <2>1, <2>2, <2>3, <2>6, AnotherStays
    <3>2. QED BY <1>0, <2>2, <2>3, <2>6, <3>1, PromiseHides DEF Kept
  <2>7. QED BY <2>4, <2>5, <2>6
<1>6. QED BY <1>1, <1>3, <1>4, <1>5 DEF StepNext

\* Where no fault was, nothing is left of a name whose rows are gone.
LEMMA NothingIsLeft ==
  ASSUME ZoneInv, NEW b \in Binding, b \notin Ended,
         \/ binding[b].phase = "deleting" /\ binding[b].doomed = {}
         \/ binding[b].phase = "bound" /\ assigned[b].applied = {}
  PROVE  \A r \in Record : remote[b][r] = NoRow
<1>1. Sound(b) /\ Faithful(b) /\ b \notin narrowed
  BY DEF ZoneInv, BindingsAreSound, Ended
<1>2. Rows(b) = {}
  <2>1. CASE binding[b].phase = "deleting" /\ binding[b].doomed = {}
    BY <1>1, <2>1 DEF Faithful
  <2>2. CASE binding[b].phase = "bound" /\ assigned[b].applied = {}
    <3>1. \A r \in Rows(b) : ManagedRow(b, r)
      BY <1>1, <2>2 DEF Faithful, Rows, ManagedRow
    <3>2. QED BY <1>1, <2>2, <3>1 DEF Sound, Rows
  <2>3. QED BY <2>1, <2>2
<1>3. QED BY <1>1, <1>2 DEF Faithful, Rows

LEMMA GoneKept ==
  ASSUME ZoneInv, NEW b \in Binding, Gone(b), remote' = remote, Ended' = Ended,
         binding[b].phase # "absent",
         \/ b \in Ended
         \/ \A r \in Record : remote[b][r] = NoRow
  PROVE  Kept
<1>1. binding'[b].phase = "absent" /\ \A c \in Binding \ {b} : binding'[c] = binding[c]
  BY DEF Gone, Freed, ZoneInv, TypeOK
<1>2. Tenure(b) # "free" /\ Tenure(b)' = "free"
  BY <1>1 DEF Tenure
<1>3. QED BY <1>1, <1>2, PromiseMoves DEF SameRecords, Kept

LEMMA StartErasingKept ==
  ASSUME ZoneInv, NEW b \in Binding, NEW targets, StartErasing(b, targets),
         remote' = remote, Ended' = Ended, binding[b].phase # "absent"
  PROVE  Kept
<1>1. /\ binding'[b].phase = "deleting"
      /\ \A c \in Binding \ {b} : binding'[c] = binding[c]
  BY ErasingFacts DEF ZoneInv
<1>2. binding[b].phase \in {"bound", "deleting"}
  BY DEF ZoneInv, TypeOK, BindingRow
<1>3. CASE binding[b].phase = "deleting"
  <2>1. SamePhases
    BY <1>1, <1>3 DEF SamePhases
  <2>2. QED BY <2>1, PromiseStays DEF SameRecords, Kept
<1>4. CASE binding[b].phase = "bound"
  <2>1. Tenure(b) = "held" /\ Tenure(b)' = "leaving"
    BY <1>1, <1>4 DEF Tenure
  <2>2. QED BY <1>1, <2>1, PromiseMoves DEF SameRecords, Kept
<1>5. QED BY <1>2, <1>3, <1>4

LEMMA DeletionKept ==
  ASSUME ZoneInv, TypeOK', Deletion
  PROVE  Kept
<1>0. TypeOK /\ \A b \in Binding : Sound(b) /\ (b \notin disturbed => Faithful(b))
  BY DEF ZoneInv, BindingsAreSound
<1>1. ASSUME NEW b \in Binding, DeleteBinding(b)
      PROVE  Kept
  <2> DEFINE targets == {assigned[b].record[e] : e \in assigned[b].applied} \ {NoRecord}
  <2>1. /\ Quiet(b) /\ remote' = remote /\ Ended' = Ended
        /\ StartErasing(b, targets) \/ (targets = {} /\ Gone(b))
    BY <1>1 DEF DeleteBinding, zone, asked, Ended
  <2>2. binding[b].phase \in {"bound", "deleting"} /\ binding[b].doomed = {}
    BY <1>0, <2>1 DEF Quiet, TypeOK, BindingRow
  <2>3. targets = {} => assigned[b].applied = {}
    BY <1>0, AssignedRecords, Numbers
  <2> HIDE DEF targets
  <2>4. CASE StartErasing(b, targets)
    BY <2>1, <2>2, <2>4, StartErasingKept
  <2>5. CASE targets = {} /\ Gone(b)
    <3>1. b \in Ended \/ \A r \in Record : remote[b][r] = NoRow
      BY <2>2, <2>3, <2>5, NothingIsLeft
    <3>2. QED BY <2>1, <2>2, <2>5, <3>1, GoneKept
  <2>6. QED BY <2>1, <2>4, <2>5
<1>2. ASSUME NEW b \in Binding, ReadBack(b)
      PROVE  Kept
  <2> DEFINE there == {r \in Record : remote[b][r] # NoRow}
  <2>1. /\ Quiet(b) /\ remote' = remote /\ Ended' = Ended
        /\ doubt[b] # {}
        /\ StartErasing(b, there) \/ Gone(b)
    BY <1>2 DEF ReadBack, asked, Ended
  <2> HIDE DEF there
  <2>2. binding[b].phase # "absent" /\ b \in Ended
    BY <1>0, <2>1 DEF Quiet, Faithful, Ended
  <2>3. QED BY <2>1, <2>2, StartErasingKept, GoneKept
<1>3. ASSUME NEW b \in Binding, FinishDeletion(b)
      PROVE  Kept
  <2>1. /\ binding[b].phase = "deleting" /\ binding[b].doomed = {} /\ Gone(b)
        /\ remote' = remote /\ Ended' = Ended
    BY <1>3 DEF FinishDeletion, zone, asked, Ended
  <2>2. b \in Ended \/ \A r \in Record : remote[b][r] = NoRow
    BY <2>1, NothingIsLeft
  <2>3. QED BY <2>1, <2>2, GoneKept
<1>4. ASSUME NEW b \in Binding, NEW r \in Record,
             remote' = [remote EXCEPT ![b][r] = NoRow]
      PROVE  /\ remote'[b][r] = NoRow
             /\ \A c \in Binding \ {b} : remote'[c] = remote[c]
             /\ \A q \in Record \ {r} : remote'[b][q] = remote[b][q]
  BY <1>0, <1>4 DEF TypeOK
<1>5. ASSUME NEW b \in Binding, NEW r \in Record, Erase(b, r)
      PROVE  Kept
  <2>1. /\ binding[b].phase = "deleting" /\ Ended' = Ended
        /\ remote' = [remote EXCEPT ![b][r] = NoRow]
        /\ binding' = [binding EXCEPT ![b].doomed = @ \ {r}]
    BY <1>5 DEF Erase, Erasing, asked, Ended
  <2>2. SamePhases
    BY <1>0, <2>1 DEF SamePhases, TypeOK, BindingRow
  <2>3. QED BY <1>0, <1>4, <2>1, <2>2, PromiseHides DEF Kept
<1>6. ASSUME NEW b \in Binding, NEW r \in Record, EraseLosesAnswer(b, r)
      PROVE  Kept
  <2>1. /\ binding' = binding /\ Ended' = Ended \cup {b}
        /\ remote' = [remote EXCEPT ![b][r] = NoRow]
    BY <1>6 DEF EraseLosesAnswer, asked, Ended
  <2>2. QED BY <1>4, <2>1, PromiseEndsFor DEF SamePhases, Kept
<1>7. ASSUME NEW b \in Binding, NEW r \in Record, NEW status, EraseFails(b, r, status)
      PROVE  Kept
  <2>1. /\ Ended' = Ended \cup {b} /\ remote' = remote
        /\ binding' = [binding EXCEPT ![b].doomed = @ \ {r}, ![b].stuck = TRUE]
    BY <1>7 DEF EraseFails, zone, asked, Ended
  <2>2. SamePhases
    <3>1. \A c \in Binding : binding[c] \in BindingRow
      BY <1>0 DEF TypeOK
    <3>2. /\ \A c \in Binding \ {b} : binding'[c] = binding[c]
          /\ binding'[b] = [binding[b] EXCEPT !.doomed = @ \ {r}, !.stuck = TRUE]
      BY <1>0, <2>1 DEF TypeOK
    <3>3. binding'[b].phase = binding[b].phase
      BY <3>1, <3>2 DEF BindingRow
    <3>4. QED BY <3>2, <3>3 DEF SamePhases
  <2>3. QED BY <2>1, <2>2, PromiseEndsFor DEF Kept
<1>8. QED BY <1>1, <1>2, <1>3, <1>5, <1>6, <1>7 DEF Deletion

LEMMA InitPromise == Init => Promise!Init
<1> SUFFICES ASSUME Init PROVE Promise!Init
  OBVIOUS
<1>1. TypeOK /\ Ended = {}
  BY InitType DEF Init, Ended
<1>2. \A c \in Binding : Tenure(c) \in {"free", "held", "leaving"}
  BY DEF Tenure
<1>3. ASSUME NEW c \in Binding PROVE Shown(c) \in SUBSET (Record \X Content)
  <2>1. \A r \in Record : remote[c][r] # NoRow => remote[c][r] \in Content
    BY <1>1 DEF TypeOK
  <2>2. QED BY <2>1 DEF Shown
<1>4. /\ [c \in Binding |-> Tenure(c)] \in [Binding -> {"free", "held", "leaving"}]
      /\ [c \in Binding |-> Shown(c)] \in [Binding -> SUBSET (Record \X Content)]
  BY <1>2, <1>3
<1>5. QED BY <1>1, <1>4 DEF Promise!Init, Promise!Tenure, Promise!Shown, Tenure, Shown, Ended

\* The pool implements module Publishing, whatever settings users switch between:
\* it never takes down the last record of a name it holds and leaves nothing of a
\* name it lets go.  For a name the promise ends with a lost answer, a step that
\* fails for good or a record that somebody else edits, and with a plan that
\* reduces several records of it to one.
THEOREM PublishesAlways == Spec => Publishes
<1>1. ZoneInv /\ ZoneInv' /\ [Next]_vars => [Promise!Next]_(Promise!promise)
  <2> SUFFICES ASSUME ZoneInv, ZoneInv', [Next]_vars PROVE Kept
    BY DEF Kept
  <2>1. TypeOK /\ TypeOK'
    BY DEF ZoneInv
  <2>2. CASE Next
    BY <2>1, <2>2, EditKept, AsideKept, StepKept, DeletionKept, WorldKept DEF Next
  <2>3. CASE UNCHANGED vars
    BY <2>3, PromiseStays DEF vars, Ended, SamePhases, SameRecords, Kept
  <2>4. QED BY <2>2, <2>3
<1>2. QED BY <1>1, InitPromise, ZoneAlways, PTL DEF Spec, Publishes, Promise!Spec
=============================================================================
