------------------------ MODULE ModelAdmissionProofs ------------------------
(***************************************************************************)
(* Theorems about ModelAdmission, for every set of processes, threads and  *)
(* editors, every set of budgets and costs, and every number of calls,     *)
(* edits and lost processes; and about RateWindows, for all limits, all    *)
(* processes and all clocks.                                               *)
(***************************************************************************)
EXTENDS ModelAdmission, RateWindows, FiniteSetTheorems, TLAPS

-----------------------------------------------------------------------------
(* Sums over finite sets.                                                    *)

\* A set of naturals that is not empty has a least one.
LEMMA LeastNatural ==
  ASSUME NEW S, S \subseteq Nat, S # {}
  PROVE  \E n \in S : \A m \in S : n <= m
<1> DEFINE initial == {0..n : n \in S}
<1>1. initial \subseteq FiniteSubsetsOf(Nat) /\ initial # {}
  <2>1. ASSUME NEW n \in S
        PROVE  0..n \subseteq Nat /\ IsFiniteSet(0..n)
    BY FS_Interval
  <2>2. QED
    BY <2>1 DEF FiniteSubsetsOf
<1>2. PICK s \in initial : \A t \in initial : ~ (<<t, s>> \in StrictSubsetOrdering(Nat))
  BY <1>1, FS_StrictSubsetOrderingWellFounded, WFMin
<1>3. PICK n \in S : s = 0..n
  BY <1>2
<1>4. ASSUME NEW m \in S, m < n
      PROVE  FALSE
  <2>1. 0..m \subseteq 0..n /\ 0..m # 0..n /\ 0..m \subseteq Nat /\ 0..n \subseteq Nat
    BY <1>4
  <2>2. <<0..m, s>> \in StrictSubsetOrdering(Nat)
    BY <1>3, <2>1 DEF StrictSubsetOrdering
  <2>3. QED
    BY <1>2, <2>2
<1>5. QED
  BY <1>4

Some(s) == CHOOSE x \in s : TRUE

\* sums gives each subset of S the sum of the amounts of its elements.
Sums(sums, amount, S) ==
    sums = [s \in SUBSET S |->
              IF s = {} THEN 0 ELSE amount[Some(s)] + sums[s \ {Some(s)}]]

LEMMA Subsets ==
  ASSUME NEW S, IsFiniteSet(S), NEW s \in SUBSET S
  PROVE  /\ IsFiniteSet(s) /\ Cardinality(s) \in Nat /\ Cardinality(s) <= Cardinality(S)
         /\ s # {} => /\ Some(s) \in s /\ s \ {Some(s)} \in SUBSET S
                      /\ Cardinality(s) # 0
                      /\ Cardinality(s \ {Some(s)}) = Cardinality(s) - 1
<1>1. IsFiniteSet(s) /\ Cardinality(s) \in Nat /\ Cardinality(s) <= Cardinality(S)
  BY FS_Subset, FS_CardinalityType
<1>2. s # {} => Some(s) \in s
  BY DEF Some
<1>3. s # {} => Cardinality(s) # 0
  BY <1>1, FS_EmptySet
<1>4. s # {} => Cardinality(s \ {Some(s)}) = Cardinality(s) - 1
  BY <1>1, <1>2, FS_RemoveElement
<1>5. QED
  BY <1>1, <1>2, <1>3, <1>4

\* There is such a function, built for larger and larger subsets.
LEMMA SumsExist ==
  ASSUME NEW S, IsFiniteSet(S), NEW amount \in [S -> Nat]
  PROVE  \E sums \in [SUBSET S -> Nat] : Sums(sums, amount, S)
<1> DEFINE Value(sums, s) == IF s = {} THEN 0 ELSE amount[Some(s)] + sums[s \ {Some(s)}]
           UpTo(sums, n) == \A s \in SUBSET S : Cardinality(s) <= n => sums[s] = Value(sums, s)
           Missing == {n \in Nat : ~ \E sums \in [SUBSET S -> Nat] : UpTo(sums, n)}
<1>1. Missing = {}
  <2> SUFFICES ASSUME Missing # {} PROVE FALSE
    OBVIOUS
  <2>1. PICK n \in Missing : \A m \in Missing : n <= m
    BY LeastNatural
  <2>2. n # 0
    <3>1. UpTo([s \in SUBSET S |-> 0], 0)
      <4>1. ASSUME NEW s \in SUBSET S, Cardinality(s) <= 0
            PROVE  s = {}
        <5>1. Cardinality(s) \in Nat /\ (s # {} => Cardinality(s) # 0)
          BY Subsets
        <5>2. QED
          BY <4>1, <5>1
      <4>2. QED
        BY <4>1
    <3>2. [s \in SUBSET S |-> 0] \in [SUBSET S -> Nat]
      OBVIOUS
    <3>3. 0 \notin Missing
      BY <3>1, <3>2, ZenonT(40)
    <3> HIDE DEF Missing
    <3>4. QED
      BY <3>3
  <2>3. PICK less \in [SUBSET S -> Nat] : UpTo(less, n - 1)
    <3>1. n \in Nat /\ n - 1 \in Nat
      BY <2>2
    <3> HIDE DEF Missing
    <3>2. n - 1 \notin Missing
      BY <2>1, <3>1
    <3>3. QED
      BY <3>1, <3>2 DEF Missing
  <2> DEFINE more == [s \in SUBSET S |-> IF Cardinality(s) = n THEN Value(less, s) ELSE less[s]]
  <2>4. more \in [SUBSET S -> Nat]
    BY Subsets
  <2>5. \A s \in SUBSET S : Cardinality(s) <= n => more[s] = Value(more, s)
    <3> TAKE s \in SUBSET S
    <3> HAVE Cardinality(s) <= n
    <3>1. CASE s = {}
      BY <2>2, <2>3, <3>1, Subsets, FS_EmptySet
    <3>2. CASE s # {}
      <4>1. /\ s \ {Some(s)} \in SUBSET S
            /\ Cardinality(s \ {Some(s)}) = Cardinality(s) - 1
            /\ Cardinality(s) \in Nat
        BY <3>2, Subsets
      <4>2. more[s \ {Some(s)}] = less[s \ {Some(s)}]
        BY <4>1
      <4>3. more[s] = Value(less, s)
        BY <2>3, <4>1
      <4>4. QED
        BY <3>2, <4>2, <4>3
    <3>3. QED
      BY <3>1, <3>2
  <2>6. QED
    BY <2>1, <2>4, <2>5
<1>2. Cardinality(S) \in Nat
  BY FS_CardinalityType
<1>3. PICK sums \in [SUBSET S -> Nat] : UpTo(sums, Cardinality(S))
  BY <1>1, <1>2
<1>4. \A s \in SUBSET S : sums[s] = Value(sums, s)
  BY <1>3, Subsets
<1>5. QED
  BY <1>4 DEF Sums

LEMMA MinimalSubset ==
  ASSUME NEW S, IsFiniteSet(S), NEW B, B \subseteq SUBSET S, B # {}
  PROVE  \E s \in B : \A t \in B : t \subseteq s => t = s
<1>1. \E s \in B : \A t \in B : ~ (<<t, s>> \in StrictSubsetOrdering(S))
  BY FS_StrictSubsetOrderingWellFounded, FS_FiniteSubsetsOfFinite, WFMin
<1>2. QED
  BY <1>1 DEF StrictSubsetOrdering

\* The sum of a set depends on the amounts of its elements, and on nothing else.
LEMMA SumsAgree ==
  ASSUME NEW S, IsFiniteSet(S), NEW T, IsFiniteSet(T), NEW a, NEW b, NEW f, NEW g,
         Sums(a, f, S), Sums(b, g, T), NEW U, U \subseteq S, U \subseteq T,
         \A x \in U : f[x] = g[x]
  PROVE  a[U] = b[U]
<1> DEFINE Differ == {s \in SUBSET U : a[s] # b[s]}
<1>1. Differ = {}
  <2> SUFFICES ASSUME Differ # {} PROVE FALSE
    OBVIOUS
  <2>1. IsFiniteSet(U)
    BY FS_Subset
  <2>2. Differ \subseteq SUBSET U
    OBVIOUS
  <2> HIDE DEF Differ
  <2>3. PICK s \in Differ : \A t \in Differ : t \subseteq s => t = s
    BY <2>1, <2>2, MinimalSubset
  <2>4. s \in SUBSET U /\ s \in SUBSET S /\ s \in SUBSET T /\ a[s] # b[s]
    BY <2>3 DEF Differ
  <2>5. CASE s = {}
    BY <2>4, <2>5 DEF Sums
  <2>6. CASE s # {}
    <3>1. Some(s) \in s
      BY <2>6 DEF Some
    <3>2. s \ {Some(s)} \in SUBSET U /\ s \ {Some(s)} # s
      BY <2>4, <3>1
    <3>3. a[s \ {Some(s)}] = b[s \ {Some(s)}]
      BY <2>3, <3>2 DEF Differ
    <3>4. f[Some(s)] = g[Some(s)]
      BY <2>4, <3>1
    <3>5. a[s] = f[Some(s)] + a[s \ {Some(s)}] /\ b[s] = g[Some(s)] + b[s \ {Some(s)}]
      BY <2>4, <2>6 DEF Sums
    <3>6. QED
      BY <2>4, <3>3, <3>4, <3>5
  <2>7. QED
    BY <2>5, <2>6
<1>2. QED
  BY <1>1

LEMMA SumsType ==
  ASSUME NEW S, IsFiniteSet(S), NEW amount \in [S -> Nat], NEW sums, Sums(sums, amount, S)
  PROVE  \A s \in SUBSET S : sums[s] \in Nat
<1>1. PICK known \in [SUBSET S -> Nat] : Sums(known, amount, S)
  BY SumsExist
<1>2. ASSUME NEW s \in SUBSET S
      PROVE  sums[s] = known[s]
  BY <1>1, SumsAgree
<1>3. QED
  BY <1>2

\* Any element may be taken first.
LEMMA SumsSplit ==
  ASSUME NEW S, IsFiniteSet(S), NEW amount \in [S -> Nat], NEW sums, Sums(sums, amount, S),
         NEW y \in S
  PROVE  sums[S] = amount[y] + sums[S \ {y}]
<1> DEFINE Wrong == {s \in SUBSET S : \E x \in s : sums[s] # amount[x] + sums[s \ {x}]}
<1>1. Wrong = {}
  <2> SUFFICES ASSUME Wrong # {} PROVE FALSE
    OBVIOUS
  <2>0. Wrong \subseteq SUBSET S
    OBVIOUS
  <2> HIDE DEF Wrong
  <2>1. PICK s \in Wrong : \A t \in Wrong : t \subseteq s => t = s
    BY <2>0, MinimalSubset
  <2>2. PICK x \in s : sums[s] # amount[x] + sums[s \ {x}]
    BY <2>1 DEF Wrong
  <2> DEFINE z == Some(s)
  <2>3. s \in SUBSET S /\ s # {} /\ z \in s /\ x \in S
    BY <2>0, <2>2 DEF Some
  <2>4. sums[s] = amount[z] + sums[s \ {z}]
    BY <2>3 DEF Sums
  <2> HIDE DEF z
  <2>5. x # z
    BY <2>2, <2>4
  <2>6. s \ {z} \notin Wrong /\ s \ {x} \notin Wrong
    BY <2>1, <2>2, <2>3
  <2>7. /\ sums[s \ {z}] = amount[x] + sums[(s \ {z}) \ {x}]
        /\ sums[s \ {x}] = amount[z] + sums[(s \ {x}) \ {z}]
    BY <2>2, <2>3, <2>5, <2>6 DEF Wrong
  <2>8. (s \ {z}) \ {x} = (s \ {x}) \ {z} /\ (s \ {x}) \ {z} \in SUBSET S
    BY <2>3
  <2>9. /\ sums[(s \ {x}) \ {z}] \in Nat /\ amount[x] \in Nat /\ amount[z] \in Nat
    BY <2>3, <2>8, SumsType
  <2>10. \A a, b, c \in Nat : a + (b + c) = b + (a + c)
    OBVIOUS
  <2>11. sums[s] = amount[z] + (amount[x] + sums[(s \ {x}) \ {z}])
    BY <2>4, <2>7, <2>8
  <2>12. amount[x] + sums[s \ {x}] = amount[x] + (amount[z] + sums[(s \ {x}) \ {z}])
    BY <2>7
  <2>13. QED
    BY <2>2, <2>9, <2>10, <2>11, <2>12
<1>2. QED
  BY <1>1

LEMMA SumsWithout ==
  ASSUME NEW S, IsFiniteSet(S), NEW f \in [S -> Nat], NEW many, Sums(many, f, S),
         NEW y \in S, NEW T, T = S \ {y}, IsFiniteSet(T), NEW g, NEW few, Sums(few, g, T),
         \A x \in T : f[x] = g[x]
  PROVE  many[S] = f[y] + few[T]
<1>1. many[S] = f[y] + many[T]
  BY SumsSplit
<1>2. many[T] = few[T]
  BY SumsAgree
<1>3. QED
  BY <1>1, <1>2

-----------------------------------------------------------------------------
(* What a ledger has reserved and what it has spent.                         *)

IdsOf(l) == 1..Len(l)
ReservedOf(l) == {i \in IdsOf(l) : l[i].status = "reserved"}
SettledOf(l) == {i \in IdsOf(l) : l[i].status \in {"completed", "failed"}}
ReservedCostOf(l) == MapThenSumSet(LAMBDA i : l[i].cost, ReservedOf(l))
SettledCostOf(l) == MapThenSumSet(LAMBDA i : l[i].spent, SettledOf(l))

LEMMA OfTheLedger ==
  /\ Ids = IdsOf(ledger) /\ Reserved = ReservedOf(ledger)
  /\ ReservedCost = ReservedCostOf(ledger) /\ ReservedCost' = ReservedCostOf(ledger')
  /\ SettledCost = SettledCostOf(ledger)
<1>1. Ids = IdsOf(ledger) /\ Reserved = ReservedOf(ledger)
  BY DEF Ids, Reserved, IdsOf, ReservedOf
<1>2. ReservedCost = ReservedCostOf(ledger)
  BY DEF ReservedCost, Reserved, Ids, ReservedCostOf, ReservedOf, IdsOf, MapThenSumSet, MapThenFoldSet
<1>3. ReservedCost' = ReservedCostOf(ledger')
  BY DEF ReservedCost, Reserved, Ids, ReservedCostOf, ReservedOf, IdsOf, MapThenSumSet, MapThenFoldSet
<1>4. SettledCost = SettledCostOf(ledger)
  BY DEF SettledCost, Settled, Ids, SettledCostOf, SettledOf, IdsOf, MapThenSumSet, MapThenFoldSet
<1>5. QED
  BY <1>1, <1>2, <1>3, <1>4

LEMMA LedgerFinite ==
  ASSUME NEW l \in Seq(Entry)
  PROVE  /\ Len(l) \in Nat /\ \A i \in IdsOf(l) : l[i] \in Entry
         /\ ReservedOf(l) \subseteq IdsOf(l) /\ SettledOf(l) \subseteq IdsOf(l)
         /\ IsFiniteSet(ReservedOf(l)) /\ IsFiniteSet(SettledOf(l))
<1>1. Len(l) \in Nat /\ \A i \in IdsOf(l) : l[i] \in Entry
  BY DEF IdsOf
<1>2. IsFiniteSet(IdsOf(l))
  BY <1>1, FS_Interval DEF IdsOf
<1>3. ReservedOf(l) \subseteq IdsOf(l) /\ SettledOf(l) \subseteq IdsOf(l)
  BY DEF ReservedOf, SettledOf
<1>4. QED
  BY <1>1, <1>2, <1>3, FS_Subset

CostOf(l) == [i \in ReservedOf(l) |-> l[i].cost]
SpentOf(l) == [i \in SettledOf(l) |-> l[i].spent]

LEMMA CostsSummed ==
  ASSUME NEW l \in Seq(Entry)
  PROVE  \E sums : Sums(sums, CostOf(l), ReservedOf(l)) /\ ReservedCostOf(l) = sums[ReservedOf(l)]
<1> DEFINE S == ReservedOf(l)
           body(sums) == [s \in SUBSET S |->
              IF s = {} THEN 0 ELSE l[Some(s)].cost + sums[s \ {Some(s)}]]
           iter == CHOOSE sums : sums = body(sums)
<1>1. ReservedCostOf(l) = iter[S]
  BY DEF ReservedCostOf, MapThenSumSet, MapThenFoldSet, Some
<1>2. CostOf(l) \in [S -> Nat]
  BY LedgerFinite DEF CostOf, Entry
<1>3. PICK known \in [SUBSET S -> Nat] : Sums(known, CostOf(l), S)
  BY <1>2, LedgerFinite, SumsExist
<1>4. \A sums : Sums(sums, CostOf(l), S) <=> sums = body(sums)
  <2>1. \A s \in SUBSET S : s # {} => CostOf(l)[Some(s)] = l[Some(s)].cost
    BY DEF Some, CostOf
  <2>2. QED
    BY <2>1 DEF Sums
<1> HIDE DEF body
<1>5. iter = body(iter)
  BY <1>3, <1>4
<1>6. QED
  BY <1>1, <1>4, <1>5

LEMMA SpentSummed ==
  ASSUME NEW l \in Seq(Entry)
  PROVE  \E sums : Sums(sums, SpentOf(l), SettledOf(l)) /\ SettledCostOf(l) = sums[SettledOf(l)]
<1> DEFINE S == SettledOf(l)
           body(sums) == [s \in SUBSET S |->
              IF s = {} THEN 0 ELSE l[Some(s)].spent + sums[s \ {Some(s)}]]
           iter == CHOOSE sums : sums = body(sums)
<1>1. SettledCostOf(l) = iter[S]
  BY DEF SettledCostOf, MapThenSumSet, MapThenFoldSet, Some
<1>2. SpentOf(l) \in [S -> Nat]
  BY LedgerFinite DEF SpentOf, Entry
<1>3. PICK known \in [SUBSET S -> Nat] : Sums(known, SpentOf(l), S)
  BY <1>2, LedgerFinite, SumsExist
<1>4. \A sums : Sums(sums, SpentOf(l), S) <=> sums = body(sums)
  <2>1. \A s \in SUBSET S : s # {} => SpentOf(l)[Some(s)] = l[Some(s)].spent
    BY DEF Some, SpentOf
  <2>2. QED
    BY <2>1 DEF Sums
<1> HIDE DEF body
<1>5. iter = body(iter)
  BY <1>3, <1>4
<1>6. QED
  BY <1>1, <1>4, <1>5

LEMMA CostsType ==
  ASSUME NEW l \in Seq(Entry)
  PROVE  ReservedCostOf(l) \in Nat /\ SettledCostOf(l) \in Nat
<1>1. CostOf(l) \in [ReservedOf(l) -> Nat] /\ SpentOf(l) \in [SettledOf(l) -> Nat]
  BY LedgerFinite DEF CostOf, SpentOf, Entry
<1>2. ReservedCostOf(l) \in Nat
  BY <1>1, CostsSummed, LedgerFinite, SumsType
<1>3. SettledCostOf(l) \in Nat
  BY <1>1, SpentSummed, LedgerFinite, SumsType
<1>4. QED
  BY <1>2, <1>3

\* Two ledgers that have the same reservations but for one.
LEMMA OneMore ==
  ASSUME NEW l \in Seq(Entry), NEW m \in Seq(Entry), NEW i \in ReservedOf(m),
         ReservedOf(l) = ReservedOf(m) \ {i},
         \A j \in ReservedOf(l) : l[j].cost = m[j].cost
  PROVE  ReservedCostOf(m) = m[i].cost + ReservedCostOf(l)
<1>1. PICK few : Sums(few, CostOf(l), ReservedOf(l)) /\ ReservedCostOf(l) = few[ReservedOf(l)]
  BY CostsSummed
<1>2. PICK many : Sums(many, CostOf(m), ReservedOf(m)) /\ ReservedCostOf(m) = many[ReservedOf(m)]
  BY CostsSummed
<1> DEFINE S == ReservedOf(m)
           T == ReservedOf(l)
           f == CostOf(m)
           g == CostOf(l)
<1>3. /\ f \in [S -> Nat] /\ f[i] = m[i].cost
      /\ \A j \in T : f[j] = g[j]
  BY LedgerFinite DEF CostOf, Entry
<1>4. IsFiniteSet(S) /\ IsFiniteSet(T) /\ i \in S /\ T = S \ {i}
  BY LedgerFinite
<1>5. Sums(few, g, T) /\ Sums(many, f, S)
  BY <1>1, <1>2
<1> HIDE DEF S, T, f, g
<1>6. many[S] = f[i] + few[T]
  BY <1>3, <1>4, <1>5, SumsWithout
<1>7. QED
  BY <1>1, <1>2, <1>3, <1>6 DEF S, T

\* Two ledgers that have the same reservations.
LEMMA AsMany ==
  ASSUME NEW l \in Seq(Entry), NEW m \in Seq(Entry), ReservedOf(l) = ReservedOf(m),
         \A j \in ReservedOf(l) : l[j].cost = m[j].cost
  PROVE  ReservedCostOf(m) = ReservedCostOf(l)
<1>1. PICK a : Sums(a, CostOf(l), ReservedOf(l)) /\ ReservedCostOf(l) = a[ReservedOf(l)]
  BY CostsSummed
<1>2. PICK b : Sums(b, CostOf(m), ReservedOf(m)) /\ ReservedCostOf(m) = b[ReservedOf(m)]
  BY CostsSummed
<1>3. \A j \in ReservedOf(l) : CostOf(m)[j] = CostOf(l)[j]
  BY DEF CostOf
<1>4. QED
  BY <1>1, <1>2, <1>3, LedgerFinite, SumsAgree

-----------------------------------------------------------------------------
(* The inductive invariant.                                                  *)

\* Entries of the ledger belong to one call each.
OneEntryEach ==
    /\ \A c \in Callers :
         callers[c].pc \in OwnerPoints \union LeasePoints => callers[c].id # 0
    /\ \A c, d \in Callers :
         callers[c].id # 0 /\ callers[c].id = callers[d].id => c = d

\* Until a call settles its reservation, the reservation stands; afterwards it is
\* accounted for.
Accounted(entry) ==
    /\ entry.status \in {"reserved", "completed", "failed"}
    /\ entry.status = "failed" => entry.spent >= entry.cost

EntriesKept ==
    \A c \in Callers :
      /\ callers[c].pc \in OwnerPoints => Own(c).status = "reserved"
      /\ callers[c].pc \in LeasePoints => Accounted(Own(c))

\* The policy row is locked by one call, and its sum covers what is reserved.
RowKept ==
    /\ \A c, d \in Callers :
         callers[c].pc \in RowPoints /\ callers[d].pc \in RowPoints => c = d
    /\ \A c \in Callers : callers[c].pc = "summed" => ReservedCost <= callers[c].sum

Admitted == TypeOK /\ OneEntryEach /\ EntriesKept /\ RowKept /\ OwnSlot /\ NoStrayReservation

LEMMA CallerBecomes ==
  ASSUME TypeOK, NEW c \in Callers, NEW record \in Caller, Step(c, record)
  PROVE  /\ callers' \in [Callers -> Caller] /\ callers'[c] = record
         /\ \A d \in Callers : d # c => callers'[d] = callers[d]
  BY DEF TypeOK, Step

LEMMA NoCallType ==
  /\ NoCall \in Caller /\ NoCall.id = 0 /\ NoCall.pc = "idle"
  /\ \A plan \in Seq(Profiles) : [NoCall EXCEPT !.pc = "candidate", !.plan = plan] \in Caller
<1>1. <<>> \in Seq(Profiles) /\ NoCall.id = 0 /\ NoCall.pc = "idle"
  BY DEF NoCall
<1>2. NoCall \in Caller
  BY <1>1 DEF NoCall, Caller, Points
<1>3. QED
  BY <1>1, <1>2 DEF Caller, Points

\* A caller that moves to another program point keeps the rest.
LEMMA MovedCaller ==
  ASSUME TypeOK, NEW c \in Callers, NEW point \in Points
  PROVE  LET record == [callers[c] EXCEPT !.pc = point] IN
         /\ record \in Caller /\ record.pc = point /\ record.id = callers[c].id
         /\ record.limiter = callers[c].limiter /\ record.sum = callers[c].sum
         /\ record.plan = callers[c].plan
  BY DEF TypeOK, Caller

LEMMA InitAdmitted == Init => Admitted
<1> SUFFICES ASSUME Init PROVE Admitted
  OBVIOUS
<1>1. TypeOK
  <2>1. policy \in Policy /\ edits \in [Editors -> Policy]
    <3>1. PICK b \in Budgets :
            policy = [version |-> 1, budget |-> b, hard |-> TRUE, allowed |-> Profiles]
      BY DEF Init
    <3>2. b \in Nat /\ Profiles \in SUBSET Profiles
      BY CostAssumption
    <3>3. NoPolicy \in Policy
      BY DEF NoPolicy, Policy
    <3>4. QED
      BY <3>1, <3>2, <3>3 DEF Init, Policy
  <2>2. ledger \in Seq(Entry) /\ Len(ledger) = 0
    BY DEF Init
  <2>3. callers \in [Callers -> Caller] /\ \A c \in Callers : callers[c].id = 0
    BY NoCallType DEF Init
  <2>4. QED
    BY <2>1, <2>2, <2>3 DEF Init, TypeOK, Ids
<1>2. OneEntryEach /\ EntriesKept /\ RowKept
  BY NoCallType DEF Init, OneEntryEach, EntriesKept, RowKept, OwnerPoints, LeasePoints, RowPoints
<1>3. OwnSlot
  <2>1. Cardinality(shared) = 0
    BY FS_EmptySet DEF Init
  <2>2. \A c \in Callers : callers[c].pc = "idle"
    BY NoCallType DEF Init
  <2>3. QED
    BY <2>1, <2>2, MaxConcurrentAssumption DEF OwnSlot, LeasePoints
<1>4. NoStrayReservation
  BY DEF Init, NoStrayReservation, Reserved, Ids
<1>5. QED
  BY <1>1, <1>2, <1>3, <1>4 DEF Admitted

\* A call moves and the ledger stays.
LEMMA MovesKeep ==
  ASSUME Admitted, NEW c \in Callers, NEW record \in Caller, Step(c, record),
         record.id \in {0, callers[c].id},
         record.pc \in OwnerPoints \union LeasePoints =>
           record.id # 0 /\ callers[c].pc \in OwnerPoints \union LeasePoints,
         record.pc \in OwnerPoints => callers[c].pc \in OwnerPoints,
         record.pc \in RowPoints => callers[c].pc \in RowPoints \/ ~RowLocked,
         record.pc = "summed" => ReservedCost <= record.sum,
         record.pc \in LeasePoints /\ record.limiter = "redis" => record.id \in shared' \union lapsed,
         FailClosed /\ ~CommitFails /\ callers[c].pc \in OwnerPoints =>
           record.pc \in OwnerPoints /\ record.id = callers[c].id,
         shared' \subseteq Ids, Cardinality(shared') <= MaxConcurrent,
         \A i \in shared : i \notin shared' => i = callers[c].id,
         local' \in [Processes -> SUBSET Ids], asked' \in Nat,
         UNCHANGED <<policy, edits, ledger, lapsed, lost>>
  PROVE  Admitted'
<1>0. /\ TypeOK /\ callers' \in [Callers -> Caller] /\ callers'[c] = record
      /\ \A d \in Callers : d # c => callers'[d] = callers[d]
  BY CallerBecomes DEF Admitted
<1>a. ReservedCost' = ReservedCost
  BY OfTheLedger
<1>1. TypeOK'
  BY <1>0 DEF TypeOK, Ids
<1>2. OneEntryEach'
  BY <1>0 DEF Admitted, OneEntryEach
<1>3. EntriesKept'
  <2>1. record.pc \in LeasePoints /\ callers[c].pc \in OwnerPoints \union LeasePoints
           => Accounted(ledger[callers[c].id])
    BY DEF Admitted, EntriesKept, Accounted, Own
  <2>2. ASSUME NEW d \in Callers
        PROVE  /\ callers'[d].pc \in OwnerPoints => ledger[callers'[d].id].status = "reserved"
               /\ callers'[d].pc \in LeasePoints => Accounted(ledger[callers'[d].id])
    BY <1>0, <2>1 DEF Admitted, EntriesKept, Own
  <2>3. QED
    BY <2>2 DEF EntriesKept, Own, Accounted
<1>4. RowKept'
  BY <1>0, <1>a DEF Admitted, RowKept, RowLocked
<1>5. OwnSlot'
  <2>1. ASSUME NEW d \in Callers, d # c, callers[d].pc \in LeasePoints, callers[d].id \in shared
        PROVE  callers[d].id \in shared'
    BY <2>1 DEF Admitted, OneEntryEach
  <2>2. QED
    BY <1>0, <2>1 DEF Admitted, OwnSlot
<1>6. NoStrayReservation'
  BY <1>0 DEF Admitted, NoStrayReservation, Reserved, Ids
<1>7. QED
  BY <1>1, <1>2, <1>3, <1>4, <1>5, <1>6 DEF Admitted

\* An entry is added to the ledger.
LEMMA EntryAdded ==
  ASSUME TypeOK, NEW status \in {"reserved", "denied"}, NEW cost \in Nat, Entered(status, cost)
  PROVE  LET n == Len(ledger) + 1 IN
         /\ ledger' \in Seq(Entry) /\ Len(ledger') = n /\ n \in Nat /\ n \notin Ids
         /\ Ids' = Ids \union {n}
         /\ \A i \in Ids : ledger'[i] = ledger[i]
         /\ ledger'[n].status = status /\ ledger'[n].version = policy.version
         /\ ReservedCost' = (IF status = "reserved" THEN cost ELSE 0) + ReservedCost
         /\ ReservedCost \in Nat
<1> DEFINE n == Len(ledger) + 1
           entry == [status |-> status, cost |-> cost, spent |-> 0, version |-> policy.version]
<1>1. entry \in Entry /\ ledger \in Seq(Entry) /\ Len(ledger) \in Nat
  BY DEF TypeOK, Policy, Entry
<1>2. ledger' = Append(ledger, entry)
  BY DEF Entered
<1>e. entry.status = status /\ entry.cost = cost /\ entry.version = policy.version
  OBVIOUS
<1> HIDE DEF entry
<1>3. /\ ledger' \in Seq(Entry) /\ Len(ledger') = n /\ n \in Nat /\ n \notin Ids
      /\ Ids' = Ids \union {n} /\ ledger'[n] = entry
      /\ \A i \in Ids : ledger'[i] = ledger[i]
  BY <1>1, <1>2 DEF Ids
<1>4. ReservedCost \in Nat
  BY <1>1, CostsType, OfTheLedger
<1>5. CASE status = "reserved"
  <2>1. /\ n \in ReservedOf(ledger') /\ ReservedOf(ledger) = ReservedOf(ledger') \ {n}
        /\ \A j \in ReservedOf(ledger) : ledger[j].cost = ledger'[j].cost
    BY <1>3, <1>e, <1>5 DEF ReservedOf, IdsOf, Ids
  <2>2. ReservedCostOf(ledger') = ledger'[n].cost + ReservedCostOf(ledger)
    BY <1>1, <1>3, <2>1, OneMore
  <2>3. QED
    BY <1>3, <1>e, <1>4, <1>5, <2>2, OfTheLedger
<1>6. CASE status = "denied"
  <2>1. /\ ReservedOf(ledger) = ReservedOf(ledger')
        /\ \A j \in ReservedOf(ledger) : ledger[j].cost = ledger'[j].cost
    BY <1>3, <1>e, <1>6 DEF ReservedOf, IdsOf, Ids
  <2>2. ReservedCostOf(ledger') = ReservedCostOf(ledger)
    BY <1>1, <1>3, <2>1, AsMany
  <2>3. QED
    BY <1>3, <1>e, <1>4, <1>6, <2>2, OfTheLedger
<1>7. QED
  BY <1>5, <1>6

LEMMA EntersKeep ==
  ASSUME Admitted, NEW c \in Callers, NEW record \in Caller, Step(c, record),
         NEW status \in {"reserved", "denied"}, NEW cost \in Nat, Entered(status, cost),
         callers[c].pc \notin OwnerPoints \union LeasePoints,
         status = "denied" => record.pc = "idle" /\ record.id \in {0, callers[c].id},
         status = "reserved" => callers[c].pc = "summed" /\ record.pc = "admitting"
                                /\ record.id = Len(ledger) + 1,
         asked' \in Nat, UNCHANGED <<policy, edits, shared, local, lapsed, lost>>
  PROVE  Admitted'
<1> DEFINE n == Len(ledger) + 1
<1>0. /\ TypeOK /\ callers' \in [Callers -> Caller] /\ callers'[c] = record
      /\ \A d \in Callers : d # c => callers'[d] = callers[d]
  BY CallerBecomes DEF Admitted
<1>1. /\ ledger' \in Seq(Entry) /\ Len(ledger') = n /\ n \in Nat /\ n \notin Ids
      /\ Ids' = Ids \union {n}
      /\ \A i \in Ids : ledger'[i] = ledger[i]
      /\ ledger'[n].status = status
      /\ ReservedCost' = (IF status = "reserved" THEN cost ELSE 0) + ReservedCost
      /\ ReservedCost \in Nat
  BY <1>0, EntryAdded
<1>2. /\ \A d \in Callers : callers[d].id \in {0} \union Ids
      /\ \A d \in Callers : callers[d].pc \in OwnerPoints \union LeasePoints => callers[d].id \in Ids
  BY <1>0 DEF TypeOK, Ids, Admitted, OneEntryEach
<1> HIDE DEF n
<1>3. 0 \notin Ids /\ n # 0 /\ record.id \in {0, callers[c].id, n}
  BY <1>1 DEF Ids, n
<1>4. TypeOK'
  <2>1. \A d \in Callers : callers'[d].id \in 0..n
    BY <1>0, <1>1, <1>3 DEF TypeOK, n
  <2>2. shared' \subseteq Ids' /\ lapsed' \subseteq Ids' /\ local' \in [Processes -> SUBSET Ids']
    BY <1>0, <1>1 DEF TypeOK
  <2>3. QED
    BY <1>0, <1>1, <2>1, <2>2 DEF TypeOK
<1>5. OneEntryEach'
  <2>1. record.pc \in OwnerPoints \union LeasePoints => record.id # 0
    BY <1>3 DEF OwnerPoints, LeasePoints, n
  <2>2. \A d \in Callers : callers[d].id # n
    BY <1>1, <1>2, <1>3
  <2>3. QED
    BY <1>0, <1>3, <2>1, <2>2 DEF Admitted, OneEntryEach
<1>6. EntriesKept'
  <2>1. ASSUME NEW d \in Callers
        PROVE  /\ callers'[d].pc \in OwnerPoints => ledger'[callers'[d].id].status = "reserved"
               /\ callers'[d].pc \in LeasePoints => Accounted(ledger'[callers'[d].id])
    <3>1. CASE d = c
      BY <1>0, <1>1, <3>1 DEF OwnerPoints, LeasePoints, n
    <3>2. CASE d # c
      BY <1>0, <1>1, <1>2, <3>2 DEF Admitted, EntriesKept, Own
    <3>3. QED
      BY <3>1, <3>2
  <2>2. QED
    BY <2>1 DEF EntriesKept, Own, Accounted
<1>7. RowKept'
  <2>1. record.pc \notin RowPoints
    BY DEF RowPoints
  <2>2. ASSUME NEW d \in Callers, callers'[d].pc = "summed"
        PROVE  ReservedCost' <= callers'[d].sum
    <3>1. d # c /\ callers'[d] = callers[d]
      BY <1>0, <2>1, <2>2 DEF RowPoints
    <3>2. status = "denied"
      BY <2>2, <3>1 DEF Admitted, RowKept, RowPoints
    <3>3. ReservedCost' = ReservedCost
      BY <1>1, <3>2
    <3>4. QED
      BY <2>2, <3>1, <3>3 DEF Admitted, RowKept
  <2>3. QED
    BY <1>0, <2>1, <2>2 DEF Admitted, RowKept
<1>8. OwnSlot'
  BY <1>0 DEF Admitted, OwnSlot, LeasePoints
<1>9. NoStrayReservation'
  <2>1. ASSUME FailClosed, ~CommitFails, lost = 0, NEW i \in Reserved'
        PROVE  \E d \in Callers : callers'[d].id = i /\ callers'[d].pc \in OwnerPoints
    <3>1. i \in Ids' /\ ledger'[i].status = "reserved"
      BY DEF Reserved
    <3>2. CASE i = n
      BY <1>0, <1>1, <3>1, <3>2 DEF OwnerPoints, n
    <3>3. CASE i # n
      <4>1. i \in Reserved
        BY <1>1, <3>1, <3>3 DEF Reserved
      <4>2. QED
        BY <1>0, <2>1, <4>1 DEF Admitted, NoStrayReservation
    <3>4. QED
      BY <3>2, <3>3
  <2>2. QED
    BY <2>1 DEF NoStrayReservation
<1>10. QED
  BY <1>4, <1>5, <1>6, <1>7, <1>8, <1>9 DEF Admitted

\* A reservation is settled.
LEMMA EntrySettled ==
  ASSUME TypeOK, NEW c \in Callers, callers[c].id \in Ids, Own(c).status = "reserved",
         NEW status \in {"completed", "failed", "denied"}, NEW spent \in Nat,
         Settle(c, status, spent)
  PROVE  LET i == callers[c].id IN
         /\ ledger' \in Seq(Entry) /\ Len(ledger') = Len(ledger) /\ Ids' = Ids
         /\ \A j \in Ids : j # i => ledger'[j] = ledger[j]
         /\ ledger'[i].status = status /\ ledger'[i].spent = spent
         /\ ledger'[i].cost = ledger[i].cost /\ ledger[i].cost \in Nat
         /\ Reserved' = Reserved \ {i}
         /\ ReservedCost' <= ReservedCost /\ ReservedCost' \in Nat
<1> DEFINE i == callers[c].id
           entry == [ledger[i] EXCEPT !.status = status, !.spent = spent]
<1>1. ledger \in Seq(Entry) /\ ledger[i] \in Entry /\ i \in Ids
  BY DEF TypeOK, Ids
<1>2. /\ entry \in Entry /\ entry.status = status /\ entry.spent = spent
      /\ entry.cost = ledger[i].cost /\ ledger[i].cost \in Nat
  BY <1>1 DEF Entry
<1>3. ledger' = [ledger EXCEPT ![i] = entry]
  BY DEF Settle
<1> HIDE DEF entry
<1>4. /\ ledger' \in Seq(Entry) /\ Len(ledger') = Len(ledger) /\ Ids' = Ids
      /\ ledger'[i] = entry /\ \A j \in Ids : j # i => ledger'[j] = ledger[j]
  BY <1>1, <1>2, <1>3 DEF Ids
<1>5. i \in Reserved /\ Reserved' = Reserved \ {i}
  BY <1>1, <1>2, <1>4 DEF Reserved, Own
<1>6. \A j \in ReservedOf(ledger') : ledger'[j].cost = ledger[j].cost
  BY <1>2, <1>4 DEF ReservedOf, IdsOf, Ids
<1>7. ReservedOf(ledger') = ReservedOf(ledger) \ {i} /\ i \in ReservedOf(ledger)
  BY <1>5 DEF ReservedOf, Reserved, IdsOf, Ids
<1>8. ReservedCostOf(ledger) = ledger[i].cost + ReservedCostOf(ledger')
  BY <1>1, <1>4, <1>6, <1>7, OneMore
<1>9. ReservedCostOf(ledger') \in Nat
  BY <1>4, CostsType
<1>10. ReservedCost' <= ReservedCost /\ ReservedCost' \in Nat
  BY <1>2, <1>8, <1>9, OfTheLedger
<1>11. QED
  BY <1>2, <1>4, <1>5, <1>10

LEMMA SettlesKeep ==
  ASSUME Admitted, NEW c \in Callers, callers[c].pc \in OwnerPoints,
         NEW record \in Caller, Step(c, record), record.id \in {0, callers[c].id},
         record.pc \notin OwnerPoints, record.pc \notin RowPoints,
         NEW status \in {"completed", "failed", "denied"}, NEW spent \in Nat,
         Settle(c, status, spent),
         record.pc \in LeasePoints =>
           /\ callers[c].pc \in LeasePoints /\ record.limiter = callers[c].limiter
           /\ record.id = callers[c].id /\ status # "denied"
           /\ status = "failed" => spent >= Own(c).cost,
         UNCHANGED <<policy, edits, shared, local, lapsed, asked, lost>>
  PROVE  Admitted'
<1> DEFINE i == callers[c].id
<1>0. /\ TypeOK /\ callers' \in [Callers -> Caller] /\ callers'[c] = record
      /\ \A d \in Callers : d # c => callers'[d] = callers[d]
  BY CallerBecomes DEF Admitted
<1>1. /\ \A d \in Callers : callers[d].id \in {0} \union Ids
      /\ \A d \in Callers : callers[d].pc \in OwnerPoints \union LeasePoints => callers[d].id \in Ids
      /\ \A d \in Callers : d # c /\ callers[d].id \in Ids => callers[d].id # i
      /\ Own(c).status = "reserved"
  BY <1>0 DEF TypeOK, Ids, Admitted, OneEntryEach, EntriesKept
<1>2. /\ ledger' \in Seq(Entry) /\ Len(ledger') = Len(ledger) /\ Ids' = Ids
      /\ \A j \in Ids : j # i => ledger'[j] = ledger[j]
      /\ ledger'[i].status = status /\ ledger'[i].spent = spent
      /\ ledger'[i].cost = ledger[i].cost /\ ledger[i].cost \in Nat
      /\ Reserved' = Reserved \ {i}
      /\ ReservedCost' <= ReservedCost /\ ReservedCost' \in Nat
  BY <1>0, <1>1, EntrySettled
<1>3. ReservedCost \in Nat
  BY <1>0, CostsType, OfTheLedger DEF TypeOK
<1>4. TypeOK'
  BY <1>0, <1>2, SMTT(40) DEF TypeOK
<1>5. OneEntryEach'
  BY <1>0, <1>1 DEF Admitted, OneEntryEach, Ids
<1>6. EntriesKept'
  <2>1. ASSUME NEW d \in Callers
        PROVE  /\ callers'[d].pc \in OwnerPoints => ledger'[callers'[d].id].status = "reserved"
               /\ callers'[d].pc \in LeasePoints => Accounted(ledger'[callers'[d].id])
    <3>1. CASE d = c
      BY <1>0, <1>2, <3>1 DEF Accounted, Own
    <3>2. CASE d # c
      BY <1>0, <1>1, <1>2, <3>2 DEF Admitted, EntriesKept, Own
    <3>3. QED
      BY <3>1, <3>2
  <2>2. QED
    BY <2>1 DEF EntriesKept, Own, Accounted
<1>7. RowKept'
  <2>1. ASSUME NEW d \in Callers, callers'[d].pc = "summed"
        PROVE  ReservedCost' <= callers'[d].sum
    <3>1. d # c /\ callers'[d] = callers[d] /\ callers[d].sum \in Nat
      BY <1>0, <2>1 DEF RowPoints, TypeOK, Caller
    <3>2. QED
      BY <1>2, <1>3, <2>1, <3>1 DEF Admitted, RowKept
  <2>2. QED
    BY <1>0, <2>1 DEF Admitted, RowKept
<1>8. OwnSlot'
  BY <1>0 DEF Admitted, OwnSlot
<1>9. NoStrayReservation'
  BY <1>0, <1>2 DEF Admitted, NoStrayReservation
<1>10. QED
  BY <1>4, <1>5, <1>6, <1>7, <1>8, <1>9 DEF Admitted

-----------------------------------------------------------------------------
(* The steps.                                                                *)

\* What every step of a call starts from.
LEMMA CallFacts ==
  ASSUME Admitted, NEW c \in Callers
  PROVE  /\ TypeOK /\ callers[c] \in Caller /\ callers[c].pc \in Points
         /\ callers[c].sum \in Nat /\ callers[c].spent \in Nat /\ callers[c].plan \in Seq(Profiles)
         /\ callers[c].pc \in OwnerPoints \union LeasePoints => callers[c].id \in Ids
         /\ asked \in Nat /\ shared \subseteq Ids /\ IsFiniteSet(shared)
         /\ Cardinality(shared) <= MaxConcurrent
         /\ local \in [Processes -> SUBSET Ids] /\ Home(c) \in Processes
         /\ ReservedCost \in Nat /\ SettledCost \in Nat
<1>1. TypeOK /\ callers[c] \in Caller /\ callers[c].id \in 0..Len(ledger)
  BY DEF Admitted, TypeOK
<1>2. callers[c].pc \in OwnerPoints \union LeasePoints => callers[c].id \in Ids
  BY <1>1 DEF Admitted, OneEntryEach, Ids
<1>3. IsFiniteSet(shared)
  <2>1. IsFiniteSet(Ids)
    BY <1>1, FS_Interval DEF TypeOK, Ids
  <2>2. shared \in SUBSET Ids
    BY <1>1 DEF TypeOK
  <2>3. QED
    BY <2>1, <2>2, FS_Subset
<1>4. ReservedCost \in Nat /\ SettledCost \in Nat
  BY <1>1, CostsType, OfTheLedger DEF TypeOK
<1>5. QED
  BY <1>1, <1>2, <1>3, <1>4 DEF Caller, TypeOK, Admitted, OwnSlot, Home, Callers

\* A call that ends, or that tries its next candidate.
LEMMA EndsKeep ==
  ASSUME Admitted, NEW c \in Callers,
         Finish(c) \/ \E plan \in Seq(Profiles) :
                        Step(c, [NoCall EXCEPT !.pc = "candidate", !.plan = plan]),
         callers[c].pc \in OwnerPoints => ~ (FailClosed /\ ~CommitFails),
         shared' \subseteq Ids, Cardinality(shared') <= MaxConcurrent,
         \A i \in shared : i \notin shared' => i = callers[c].id,
         local' \in [Processes -> SUBSET Ids], asked' \in Nat,
         UNCHANGED <<policy, edits, ledger, lapsed, lost>>
  PROVE  Admitted'
<1>1. PICK record \in Caller : /\ Step(c, record) /\ record.pc \in {"idle", "candidate"}
                               /\ record.id = 0
  <2>1. \A plan : [NoCall EXCEPT !.pc = "candidate", !.plan = plan].pc = "candidate"
                /\ [NoCall EXCEPT !.pc = "candidate", !.plan = plan].id = 0
    BY DEF NoCall
  <2>2. QED
    BY <2>1, NoCallType DEF Finish
<1>2. /\ record.pc \notin OwnerPoints \union LeasePoints
      /\ record.pc \notin RowPoints /\ record.pc # "summed"
  BY <1>1 DEF OwnerPoints, LeasePoints, RowPoints
<1>3. QED
  BY <1>1, <1>2, MovesKeep

LEMMA AskKeeps == ASSUME Admitted, NEW c \in Callers, Ask(c) PROVE Admitted'
<1>0. /\ callers[c] \in Caller /\ asked' \in Nat /\ callers[c].pc = "idle"
      /\ shared \subseteq Ids /\ Cardinality(shared) <= MaxConcurrent
      /\ local \in [Processes -> SUBSET Ids]
      /\ UNCHANGED <<policy, edits, shared, local, lapsed, lost>>
  <2>1. asked \in Nat /\ asked' = asked + 1 /\ UNCHANGED <<policy, edits, shared, local, lapsed, lost>>
    BY CallFacts DEF Ask
  <2>2. asked' \in Nat
    BY <2>1
  <2>3. QED
    BY <2>1, <2>2, CallFacts DEF Ask
<1>1. CASE "requested" \in policy.allowed
  <2>1. \E plan \in Seq(Profiles) : Step(c, [NoCall EXCEPT !.pc = "candidate", !.plan = plan])
    <3>1. <<"requested", "fallback">> \in Seq(Profiles) /\ <<"requested">> \in Seq(Profiles)
      BY DEF Profiles
    <3>2. QED
      BY <1>1, <3>1 DEF Ask
  <2>2. callers[c].pc \notin OwnerPoints
    BY <1>0 DEF OwnerPoints
  <2>3. UNCHANGED ledger
    BY <1>1 DEF Ask
  <2>4. QED
    BY <1>0, <2>1, <2>2, <2>3, EndsKeep
<1>2. CASE "requested" \notin policy.allowed
  <2>1. Entered("denied", 0) /\ Step(c, callers[c])
    BY <1>2, CallFacts DEF Ask, Step, TypeOK
  <2>2. callers[c].pc \notin OwnerPoints \union LeasePoints
    BY <1>0 DEF OwnerPoints, LeasePoints
  <2>3. QED
    BY <1>0, <2>1, <2>2, EntersKeep
<1>3. QED
  BY <1>1, <1>2

LEMMA ReservingKeeps == ASSUME Admitted, NEW c \in Callers, Reserving(c) PROVE Admitted'
<1>0. /\ callers[c] \in Caller /\ asked \in Nat /\ shared \subseteq Ids
      /\ Cardinality(shared) <= MaxConcurrent /\ local \in [Processes -> SUBSET Ids]
      /\ callers[c].sum \in Nat /\ SettledCost \in Nat /\ ReservedCost \in Nat /\ TypeOK
  BY CallFacts
<1>1. CASE EnterProcess(c)
  <2> DEFINE record == [callers[c] EXCEPT !.pc = "locking"]
  <2>1. /\ record \in Caller /\ record.pc = "locking" /\ record.id = callers[c].id
        /\ Step(c, record)
    BY <1>0, <1>1, MovedCaller DEF EnterProcess, GoTo, Points, QuotaPoints
  <2> HIDE DEF record
  <2>2. callers[c].pc = "candidate" /\ UNCHANGED <<policy, edits, ledger, shared, local, lapsed, asked, lost>>
    BY <1>1 DEF EnterProcess
  <2>3. QED
    BY <1>0, <2>1, <2>2, MovesKeep DEF OwnerPoints, LeasePoints, RowPoints
<1>2. CASE LockPolicy(c)
  <2>0. /\ callers[c].pc = "locking" /\ ~RowLocked
        /\ UNCHANGED <<policy, edits, ledger, shared, local, lapsed, asked, lost>>
    BY <1>2 DEF LockPolicy
  <2>1. CASE Finish(c)
    BY <1>0, <2>0, <2>1, EndsKeep DEF OwnerPoints
  <2>2. CASE Step(c, [callers[c] EXCEPT !.pc = "summing", !.sum = SettledCost])
    <3> DEFINE record == [callers[c] EXCEPT !.pc = "summing", !.sum = SettledCost]
    <3>1. "summing" \in Points
      BY DEF Points, QuotaPoints, RowPoints
    <3>2. /\ record \in Caller /\ record.pc = "summing" /\ record.id = callers[c].id
          /\ Step(c, record)
      BY <1>0, <2>2, <3>1 DEF Caller
    <3> HIDE DEF record
    <3>3. QED
      BY <1>0, <2>0, <3>2, MovesKeep DEF OwnerPoints, LeasePoints
  <2>3. QED
    BY <1>2, <2>1, <2>2 DEF LockPolicy
<1>3. CASE SumReserved(c)
  <2> DEFINE record == [callers[c] EXCEPT !.pc = "summed", !.sum = @ + ReservedCost]
  <2>0. /\ callers[c].pc = "summing"
        /\ UNCHANGED <<policy, edits, ledger, shared, local, lapsed, asked, lost>>
    BY <1>3 DEF SumReserved
  <2>1. "summed" \in Points /\ callers[c].sum + ReservedCost \in Nat
    BY <1>0 DEF Points, QuotaPoints, RowPoints
  <2>2. /\ record \in Caller /\ record.pc = "summed" /\ record.id = callers[c].id
        /\ record.sum = callers[c].sum + ReservedCost /\ Step(c, record)
    BY <1>0, <1>3, <2>1 DEF Caller, SumReserved
  <2>3. ReservedCost <= record.sum
    BY <1>0, <2>2
  <2> HIDE DEF record
  <2>4. QED
    BY <1>0, <2>0, <2>2, <2>3, MovesKeep DEF OwnerPoints, LeasePoints, RowPoints
<1>4. CASE Reserve(c)
  <2>0. /\ callers[c].pc = "summed" /\ callers[c].pc \notin OwnerPoints \union LeasePoints
        /\ UNCHANGED <<policy, edits, shared, local, lapsed, asked, lost>>
    BY <1>4 DEF Reserve, OwnerPoints, LeasePoints
  <2>1. PICK cost \in Costs \ {0} :
          \/ Entered("denied", cost) /\ Finish(c)
          \/ /\ Entered("reserved", cost)
             /\ Step(c, [callers[c] EXCEPT !.pc = "admitting", !.sum = 0, !.id = Len(ledger) + 1])
    BY <1>4 DEF Reserve
  <2>2. cost \in Nat
    BY CostAssumption
  <2>3. CASE Entered("denied", cost) /\ Finish(c)
    BY <1>0, <2>0, <2>2, <2>3, NoCallType, EntersKeep DEF Finish
  <2>4. CASE /\ Entered("reserved", cost)
             /\ Step(c, [callers[c] EXCEPT !.pc = "admitting", !.sum = 0, !.id = Len(ledger) + 1])
    <3> DEFINE record == [callers[c] EXCEPT !.pc = "admitting", !.sum = 0, !.id = Len(ledger) + 1]
    <3>1. "admitting" \in Points /\ Len(ledger) + 1 \in Nat
      BY <1>0 DEF Points, QuotaPoints, TypeOK
    <3>2. /\ record \in Caller /\ record.pc = "admitting" /\ record.id = Len(ledger) + 1
          /\ Step(c, record) /\ Entered("reserved", cost)
      BY <1>0, <2>4, <3>1 DEF Caller
    <3> HIDE DEF record
    <3>3. QED
      BY <1>0, <2>0, <2>2, <3>2, EntersKeep
  <2>5. QED
    BY <2>1, <2>3, <2>4
<1>5. QED
  BY <1>1, <1>2, <1>3, <1>4 DEF Reserving

\* A lease that is taken.
LEMMA LeaseTaken ==
  ASSUME NEW leases, IsFiniteSet(leases), Room(leases), NEW i
  PROVE  Cardinality(leases \union {i}) <= MaxConcurrent
<1>1. /\ Cardinality(leases) \in Nat /\ MaxConcurrent \in Nat
      /\ Cardinality(leases) < MaxConcurrent
  BY FS_CardinalityType, MaxConcurrentAssumption DEF Room
<1>2. Cardinality(leases \union {i}) \in {Cardinality(leases), Cardinality(leases) + 1}
  BY FS_AddElement
<1>3. QED
  BY <1>1, <1>2

LEMMA AdmittingKeeps == ASSUME Admitted, NEW c \in Callers, Admitting(c) PROVE Admitted'
<1>0. /\ callers[c] \in Caller /\ asked \in Nat /\ shared \subseteq Ids /\ IsFiniteSet(shared)
      /\ Cardinality(shared) <= MaxConcurrent /\ local \in [Processes -> SUBSET Ids]
      /\ callers[c].pc \in OwnerPoints => callers[c].id \in Ids
      /\ TypeOK /\ Home(c) \in Processes
  BY CallFacts
<1>p. /\ "admitting" \in OwnerPoints /\ "denying" \in OwnerPoints /\ "calling" \in OwnerPoints
      /\ "denying" \in Points /\ "calling" \in Points /\ 0 \notin Ids
      /\ "denying" \notin RowPoints /\ "calling" \notin RowPoints /\ "denying" \notin LeasePoints
      /\ "admitting" \notin LeasePoints
  BY DEF OwnerPoints, Points, QuotaPoints, LeasePoints, RowPoints, Ids
<1> DEFINE denying == [callers[c] EXCEPT !.pc = "denying"]
<1>d. /\ denying \in Caller /\ denying.pc = "denying" /\ denying.id = callers[c].id
  BY <1>0, <1>p, MovedCaller
<1> HIDE DEF denying
<1>1. CASE Admit(c)
  <2>0. callers[c].pc = "admitting" /\ UNCHANGED <<policy, edits, ledger, local, lapsed, asked, lost>>
    BY <1>1 DEF Admit
  <2>1. CASE Step(c, denying) /\ UNCHANGED shared
    BY <1>0, <1>p, <1>d, <2>0, <2>1, MovesKeep
  <2>2. CASE /\ Room(shared) /\ shared' = shared \union {callers[c].id}
             /\ Step(c, [callers[c] EXCEPT !.pc = "calling", !.limiter = "redis"])
    <3> DEFINE record == [callers[c] EXCEPT !.pc = "calling", !.limiter = "redis"]
    <3>1. /\ record \in Caller /\ record.pc = "calling" /\ record.id = callers[c].id
          /\ Step(c, record)
      BY <1>0, <1>p, <2>2 DEF Caller
    <3> HIDE DEF record
    <3>2. /\ Cardinality(shared') <= MaxConcurrent /\ shared' \subseteq Ids
          /\ callers[c].id \in shared'
      BY <1>0, <1>p, <2>0, <2>2, LeaseTaken
    <3>3. \A i \in shared : i \in shared'
      BY <2>2
    <3>4. QED
      BY <1>0, <1>p, <2>0, <3>1, <3>2, <3>3, MovesKeep
  <2>3. QED
    BY <1>1, <2>1, <2>2 DEF Admit, GoTo, denying
<1>2. CASE AdmitRaises(c)
  <2>0. callers[c].pc = "admitting" /\ UNCHANGED <<policy, edits, ledger, lapsed, asked, lost>>
    BY <1>2 DEF AdmitRaises
  <2>1. /\ Cardinality(shared') <= MaxConcurrent /\ shared' \subseteq Ids
        /\ \A i \in shared : i \in shared'
    <3>1. CASE UNCHANGED shared
      BY <1>0, <3>1
    <3>2. CASE Room(shared) /\ shared' = shared \union {callers[c].id}
      BY <1>0, <1>p, <2>0, <3>2, LeaseTaken
    <3>3. QED
      BY <1>2, <3>1, <3>2 DEF AdmitRaises
  <2>2. CASE Step(c, denying) /\ UNCHANGED local
    BY <1>0, <1>p, <1>d, <2>0, <2>1, <2>2, MovesKeep
  <2>3. CASE /\ ~FailClosed
             /\ local' = [local EXCEPT ![Home(c)] = @ \union {callers[c].id}]
             /\ Step(c, [callers[c] EXCEPT !.pc = "calling", !.limiter = "memory"])
    <3> DEFINE record == [callers[c] EXCEPT !.pc = "calling", !.limiter = "memory"]
    <3>1. /\ record \in Caller /\ record.pc = "calling" /\ record.id = callers[c].id
          /\ record.limiter = "memory" /\ Step(c, record)
      BY <1>0, <1>p, <2>3 DEF Caller
    <3> HIDE DEF record
    <3>2. local' \in [Processes -> SUBSET Ids]
      BY <1>0, <1>p, <2>0, <2>3
    <3>3. QED
      BY <1>0, <1>p, <2>0, <2>1, <2>3, <3>1, <3>2, MovesKeep
  <2>4. CASE ~FailClosed /\ Finish(c) /\ UNCHANGED local
    BY <1>0, <2>0, <2>1, <2>4, EndsKeep
  <2>5. QED
    BY <1>2, <2>2, <2>3, <2>4 DEF AdmitRaises, GoTo, denying
<1>3. CASE Deny(c)
  <2>0. /\ callers[c].pc = "denying" /\ Settle(c, "denied", 0) /\ Step(c, NoCall)
        /\ UNCHANGED <<policy, edits, shared, local, lapsed, asked, lost>>
    BY <1>3 DEF Deny, Finish
  <2>1. /\ NoCall.pc \notin OwnerPoints /\ NoCall.pc \notin RowPoints
        /\ NoCall.pc \notin LeasePoints
    BY NoCallType DEF OwnerPoints, RowPoints, LeasePoints
  <2> DEFINE record == NoCall
  <2>2. record \in Caller /\ Step(c, record) /\ record.id = 0
    BY <2>0, NoCallType
  <2>3. /\ record.pc \notin OwnerPoints /\ record.pc \notin RowPoints
        /\ record.pc \notin LeasePoints
    BY <2>1
  <2> HIDE DEF record
  <2>4. callers[c].pc \in OwnerPoints /\ 0 \in Nat
    BY <1>p, <2>0
  <2>5. QED
    BY <2>0, <2>2, <2>3, <2>4, SettlesKeep
<1>4. QED
  BY <1>1, <1>2, <1>3 DEF Admitting

\* The release of a lease touches no other call's.
LEMMA LeaseReturned ==
  ASSUME Admitted, NEW c \in Callers, shared' \in {shared, shared \ {callers[c].id}}
  PROVE  /\ shared' \subseteq Ids /\ Cardinality(shared') <= MaxConcurrent
         /\ \A i \in shared : i \notin shared' => i = callers[c].id
<1>1. /\ shared \subseteq Ids /\ IsFiniteSet(shared) /\ Cardinality(shared) <= MaxConcurrent
      /\ Cardinality(shared) \in Nat
  BY CallFacts, FS_CardinalityType
<1>2. Cardinality(shared \ {callers[c].id}) <= Cardinality(shared)
  BY <1>1, FS_RemoveElement
<1>3. Cardinality(shared \ {callers[c].id}) \in Nat
  BY <1>1, FS_RemoveElement, FS_CardinalityType
<1>4. QED
  BY <1>1, <1>2, <1>3, MaxConcurrentAssumption

LEMMA SettlingKeeps == ASSUME Admitted, NEW c \in Callers, Settling(c) PROVE Admitted'
<1>0. /\ callers[c] \in Caller /\ asked \in Nat /\ shared \subseteq Ids
      /\ Cardinality(shared) <= MaxConcurrent /\ local \in [Processes -> SUBSET Ids]
      /\ callers[c].pc \in OwnerPoints \union LeasePoints => callers[c].id \in Ids
      /\ callers[c].plan \in Seq(Profiles) /\ callers[c].spent \in Nat /\ TypeOK
      /\ callers[c].pc \in LeasePoints /\ callers[c].limiter = "redis"
           => callers[c].id \in shared \union lapsed
  BY CallFacts DEF Admitted, OwnSlot
<1>p. /\ {"calling", "settling", "failing"} \subseteq OwnerPoints
      /\ {"calling", "settling", "failing", "release", "releaseFailed"} \subseteq LeasePoints
      /\ {"settling", "failing", "release", "releaseFailed"} \subseteq Points
      /\ {"release", "releaseFailed"} \intersect OwnerPoints = {} /\ 0 \notin Ids
      /\ LeasePoints \intersect RowPoints = {} /\ "summed" \notin LeasePoints
  BY DEF OwnerPoints, Points, QuotaPoints, LeasePoints, RowPoints, Ids
\* On to another point with the lease, without touching the ledger.
<1>a. ASSUME NEW point \in Points, point \in LeasePoints, callers[c].pc \in LeasePoints,
             point \in OwnerPoints => callers[c].pc \in OwnerPoints,
             FailClosed /\ ~CommitFails /\ callers[c].pc \in OwnerPoints => point \in OwnerPoints,
             NEW record \in Caller, Step(c, record), record.pc = point, record.id = callers[c].id,
             record.limiter = callers[c].limiter,
             UNCHANGED <<policy, edits, ledger, shared, local, lapsed, asked, lost>>
      PROVE  Admitted'
  BY <1>0, <1>p, <1>a, MovesKeep
<1>1. CASE Call(c)
  <2>0. callers[c].pc = "calling" /\ UNCHANGED <<policy, edits, ledger, shared, local, lapsed, asked, lost>>
    BY <1>1 DEF Call
  <2>1. CASE GoTo(c, "failing")
    BY <1>0, <1>p, <1>a, <2>0, <2>1, MovedCaller, ZenonT(120) DEF GoTo
  <2>2. CASE \E spent \in Costs : Step(c, [callers[c] EXCEPT !.pc = "settling", !.spent = spent])
    <3>1. PICK spent \in Costs : Step(c, [callers[c] EXCEPT !.pc = "settling", !.spent = spent])
      BY <2>2
    <3> DEFINE record == [callers[c] EXCEPT !.pc = "settling", !.spent = spent]
    <3>2. /\ record \in Caller /\ record.pc = "settling" /\ record.id = callers[c].id
          /\ record.limiter = callers[c].limiter
      BY <1>0, <1>p, CostAssumption DEF Caller
    <3>3. Step(c, record)
      BY <3>1
    <3> HIDE DEF record
    <3>4. QED
      BY <1>p, <1>a, <2>0, <3>2, <3>3
  <2>3. QED
    BY <1>1, <2>1, <2>2 DEF Call
<1>2. ASSUME NEW point \in {"release", "releaseFailed"}, GoTo(c, point),
             callers[c].pc \in {"settling", "failing"},
             NEW status \in {"completed", "failed"}, NEW spent \in Nat, Settle(c, status, spent),
             status = "failed" => spent >= Own(c).cost,
             UNCHANGED <<policy, edits, shared, local, lapsed, asked, lost>>
      PROVE  Admitted'
  <2> DEFINE record == [callers[c] EXCEPT !.pc = point]
  <2>1. /\ record \in Caller /\ record.pc = point /\ record.id = callers[c].id
        /\ record.limiter = callers[c].limiter /\ Step(c, record)
    BY <1>0, <1>p, <1>2, MovedCaller DEF GoTo
  <2> HIDE DEF record
  <2>2. /\ point \notin OwnerPoints /\ point \notin RowPoints /\ callers[c].pc \in OwnerPoints
        /\ callers[c].pc \in LeasePoints
    BY <1>p, <1>2
  <2>3. QED
    BY <1>0, <1>2, <2>1, <2>2, SettlesKeep
<1>3. ASSUME GoTo(c, "release"), CommitFails, callers[c].pc \in {"settling", "failing"},
             UNCHANGED <<policy, edits, ledger, shared, local, lapsed, asked, lost>>
      PROVE  Admitted'
  <2> DEFINE record == [callers[c] EXCEPT !.pc = "release"]
  <2>1. /\ record \in Caller /\ record.pc = "release" /\ record.id = callers[c].id
        /\ record.limiter = callers[c].limiter /\ Step(c, record)
    BY <1>0, <1>p, <1>3, MovedCaller DEF GoTo
  <2> HIDE DEF record
  <2>2. QED
    BY <1>p, <1>a, <1>3, <2>1
<1>4. CASE Complete(c)
  BY <1>0, <1>2, <1>3, <1>4 DEF Complete
<1>5. CASE Fail(c)
  <2>0. callers[c].id \in Ids
    BY <1>0, <1>p, <1>5 DEF Fail
  <2>1. Own(c).cost \in Nat /\ Own(c).cost >= Own(c).cost
    <3>1. Own(c) \in Entry
      BY <1>0, <2>0 DEF TypeOK, Own, Ids
    <3>2. QED
      BY <3>1 DEF Entry
  <2>2. QED
    BY <1>2, <1>3, <1>5, <2>1 DEF Fail
<1>6. CASE Release(c) \/ ReleaseRaises(c)
  <2>0. /\ callers[c].pc \in {"release", "releaseFailed"}
        /\ shared' \in {shared, shared \ {callers[c].id}}
        /\ UNCHANGED <<policy, edits, ledger, local, lapsed, asked, lost>>
    BY <1>6 DEF Release, ReleaseRaises
  <2>1. Finish(c) \/ \E plan \in Seq(Profiles) :
                       Step(c, [NoCall EXCEPT !.pc = "candidate", !.plan = plan])
    <3>1. CASE Finish(c)
      BY <3>1
    <3>2. CASE /\ Len(callers[c].plan) > 1
               /\ Step(c, [NoCall EXCEPT !.pc = "candidate", !.plan = Tail(callers[c].plan)])
      <4>1. Tail(callers[c].plan) \in Seq(Profiles)
        BY <1>0, <3>2
      <4>2. QED
        BY <3>2, <4>1
    <3>3. QED
      BY <1>6, <3>1, <3>2 DEF Release, ReleaseRaises, NextCandidate
  <2>2. QED
    BY <1>0, <1>p, <2>0, <2>1, LeaseReturned, EndsKeep
<1>7. QED
  BY <1>1, <1>4, <1>5, <1>6 DEF Settling

\* Administrators touch the policy and nothing else.
LEMMA EditsKeep ==
  ASSUME Admitted, NEW e \in Editors, LoadPolicy(e) \/ StorePolicy(e)
  PROVE  Admitted'
<1>0. TypeOK /\ policy \in Policy /\ edits[e] \in Policy /\ NoPolicy \in Policy
  BY DEF Admitted, TypeOK, NoPolicy, Policy
<1>1. UNCHANGED <<ledger, callers, shared, local, lapsed, asked, lost>>
  BY DEF LoadPolicy, StorePolicy
<1>2. policy' \in Policy /\ edits' \in [Editors -> Policy]
  <2>1. CASE LoadPolicy(e)
    BY <1>0, <2>1 DEF LoadPolicy, TypeOK
  <2>2. CASE StorePolicy(e)
    <3>0. edits[e].version \in Nat
      BY <1>0 DEF Policy
    <3>1. edits' \in [Editors -> Policy] /\ edits[e].version + 1 \in Nat
      <4>1. edits' \in [Editors -> Policy]
        BY <1>0, <2>2 DEF StorePolicy, TypeOK
      <4>2. QED
        BY <3>0, <4>1
    <3>2. ASSUME NEW allowed \in SUBSET Profiles
          PROVE  [policy EXCEPT !.version = edits[e].version + 1,
                    !.allowed = Column(edits[e].allowed, allowed, @)] \in Policy
      BY <1>0, <3>1 DEF Policy, Column
    <3>3. ASSUME NEW budget \in Budgets, NEW hard \in BOOLEAN
          PROVE  [policy EXCEPT !.version = edits[e].version + 1,
                    !.budget = Column(edits[e].budget, budget, @),
                    !.hard = Column(edits[e].hard, hard, @)] \in Policy
      BY <1>0, <3>1, CostAssumption DEF Policy, Column
    <3>4. QED
      BY <2>2, <3>1, <3>2, <3>3 DEF StorePolicy
  <2>3. QED
    BY <2>1, <2>2
<1>3. TypeOK'
  BY <1>0, <1>1, <1>2 DEF TypeOK, Ids
<1>4. ReservedCost' = ReservedCost
  BY <1>1, OfTheLedger
<1>5. OneEntryEach' /\ EntriesKept' /\ RowKept' /\ OwnSlot' /\ NoStrayReservation'
  BY <1>1, <1>4 DEF Admitted, OneEntryEach, EntriesKept, Own, Accounted, RowKept, OwnSlot,
     NoStrayReservation, Reserved, Ids
<1>6. QED
  BY <1>3, <1>5 DEF Admitted

LEMMA LapsesKeep ==
  ASSUME Admitted, NEW i \in Ids, LeaseLapses(i)
  PROVE  Admitted'
<1>0. TypeOK /\ UNCHANGED <<policy, edits, ledger, callers, asked, lost>>
  BY DEF Admitted, LeaseLapses
<1>1. /\ shared' \in {shared, shared \ {i}} /\ lapsed' = lapsed \union {i}
      /\ local' \in [Processes -> SUBSET Ids]
  BY <1>0 DEF LeaseLapses, TypeOK
<1>2. TypeOK'
  BY <1>0, <1>1 DEF TypeOK, Ids
<1>3. ReservedCost' = ReservedCost
  BY <1>0, OfTheLedger
<1>4. OneEntryEach' /\ EntriesKept' /\ RowKept' /\ NoStrayReservation'
  BY <1>0, <1>3 DEF Admitted, OneEntryEach, EntriesKept, Own, Accounted, RowKept,
     NoStrayReservation, Reserved, Ids
<1>5. Cardinality(shared') <= MaxConcurrent
  <2>1. /\ IsFiniteSet(shared) /\ Cardinality(shared) <= MaxConcurrent
        /\ Cardinality(shared) \in Nat
    <3>1. IsFiniteSet(Ids) /\ shared \in SUBSET Ids
      BY <1>0, FS_Interval DEF TypeOK, Ids
    <3>2. QED
      BY <3>1, FS_Subset, FS_CardinalityType DEF Admitted, OwnSlot
  <2>2. Cardinality(shared \ {i}) \in {Cardinality(shared), Cardinality(shared) - 1}
    BY <2>1, FS_RemoveElement
  <2>3. Cardinality(shared \ {i}) <= Cardinality(shared) /\ Cardinality(shared \ {i}) \in Int
    BY <2>1, <2>2
  <2>4. Cardinality(shared \ {i}) <= MaxConcurrent
    BY <2>1, <2>3, MaxConcurrentAssumption
  <2>5. QED
    BY <1>1, <2>1, <2>4
<1>6. OwnSlot'
  BY <1>0, <1>1, <1>5 DEF Admitted, OwnSlot
<1>7. QED
  BY <1>2, <1>4, <1>6 DEF Admitted

\* With a process its calls are lost; what they reserved stays reserved.
LEMMA LossKeeps ==
  ASSUME Admitted, NEW p \in Processes, ProcessLost(p)
  PROVE  Admitted'
<1>0. /\ TypeOK /\ UNCHANGED <<policy, edits, ledger, shared, lapsed, asked>>
      /\ lost' = lost + 1
      /\ callers' = [c \in Callers |-> IF Home(c) = p THEN NoCall ELSE callers[c]]
      /\ local' = [local EXCEPT ![p] = {}]
  BY DEF Admitted, ProcessLost
<1>1. \A c \in Callers : callers'[c] \in {NoCall, callers[c]}
  BY <1>0
<1>2. TypeOK'
  <2>0. callers' \in [Callers -> Caller]
    BY <1>0, NoCallType DEF TypeOK
  <2>1. \A c \in Callers : callers'[c].id \in 0..Len(ledger)
    <3>1. 0 \in 0..Len(ledger)
      <4>1. Len(ledger) \in Nat
        BY <1>0 DEF TypeOK
      <4>2. QED
        BY <4>1
    <3>2. NoCall.id = 0
      BY DEF NoCall
    <3>3. \A c \in Callers : callers[c].id \in 0..Len(ledger)
      BY <1>0 DEF TypeOK
    <3>4. QED
      BY <1>1, <3>1, <3>2, <3>3
  <2>2. local' \in [Processes -> SUBSET Ids] /\ lost' \in Nat /\ lost' # 0
    BY <1>0 DEF TypeOK
  <2>3. QED
    BY <1>0, <2>0, <2>1, <2>2 DEF TypeOK, Ids
<1>3. NoCall.pc \notin OwnerPoints \union LeasePoints \union RowPoints /\ NoCall.pc # "summed"
  BY NoCallType DEF OwnerPoints, LeasePoints, RowPoints
<1>4. OneEntryEach'
  BY <1>1, <1>3, NoCallType DEF Admitted, OneEntryEach
<1>5. EntriesKept'
  BY <1>0, <1>1, <1>3 DEF Admitted, EntriesKept, Own, Accounted
<1>6. RowKept'
  <2>1. ReservedCost' = ReservedCost
    BY <1>0, OfTheLedger
  <2>2. QED
    BY <1>1, <1>3, <2>1 DEF Admitted, RowKept
<1>7. OwnSlot'
  BY <1>0, <1>1, <1>3 DEF Admitted, OwnSlot
<1>8. NoStrayReservation'
  <2>1. lost' # 0
    BY <1>0 DEF TypeOK
  <2>2. QED
    BY <2>1 DEF NoStrayReservation
<1>9. QED
  BY <1>2, <1>4, <1>5, <1>6, <1>7, <1>8 DEF Admitted

LEMMA StepAdmitted == Admitted /\ [Next]_vars => Admitted'
<1> SUFFICES ASSUME Admitted, [Next]_vars PROVE Admitted'
  OBVIOUS
<1>1. CASE UNCHANGED vars
  <2>1. UNCHANGED <<policy, edits, ledger, callers, shared, local, lapsed, asked, lost>>
    BY <1>1 DEF vars
  <2>2. ReservedCost' = ReservedCost
    BY <2>1, OfTheLedger
  <2>3. QED
    BY <2>1, <2>2 DEF Admitted, TypeOK, OneEntryEach, EntriesKept, Own, Accounted, RowKept,
       OwnSlot, NoStrayReservation, Reserved, Ids
<1>2. CASE Next
  BY <1>2, AskKeeps, ReservingKeeps, AdmittingKeeps, SettlingKeeps, EditsKeep, LapsesKeep,
     LossKeeps DEF Next, Working
<1>3. QED
  BY <1>1, <1>2

-----------------------------------------------------------------------------
(* The theorems.                                                             *)

\* The inductive invariant of admission.
THEOREM AdmissionInvariant == Spec => []Admitted
  BY InitAdmitted, StepAdmitted, PTL DEF Spec

\* Leases and reservations are types of their own: at most max_concurrent_calls
\* hold a lease, none loses its own to another, and a reservation is somebody's as
\* long as no process is lost and no commit fails (acquire, reserve, release).
THEOREM Owned == Spec => []ReservationsOwned
<1>1. Admitted => ReservationsOwned
  BY DEF Admitted, ReservationsOwned
<1>2. QED
  BY <1>1, AdmissionInvariant, PTL

\* Whatever is lost or fails, a call that reached the provider stays accounted
\* (settle, fail).
THEOREM Accounting == Spec => []CallsAccounted
<1>1. Admitted => CallsAccounted
  BY DEF Admitted, EntriesKept, Accounted, CallsAccounted
<1>2. QED
  BY <1>1, AdmissionInvariant, PTL

\* Only a reservation makes one: every other step leaves the ledger's length, or
\* records a denial.
LEMMA OthersReserveNothing ==
  ASSUME Admitted, [Next]_vars, \A c \in Callers : ~ Reserve(c), NEW i \in DOMAIN ledger'
  PROVE  ~ NewReservation(i)
<1>1. CASE UNCHANGED ledger
  BY <1>1 DEF NewReservation
<1>2. ASSUME NEW c \in Callers, Ask(c) PROVE ~ NewReservation(i)
  <2>1. CASE Entered("denied", 0)
    <3>1. /\ TypeOK /\ ledger' \in Seq(Entry) /\ Ids' = Ids \union {Len(ledger) + 1}
          /\ ledger'[Len(ledger) + 1].status = "denied"
      BY <2>1, EntryAdded DEF Admitted
    <3>2. DOMAIN ledger = Ids /\ DOMAIN ledger' = Ids'
      BY <3>1 DEF TypeOK, Ids
    <3>3. QED
      BY <3>1, <3>2 DEF NewReservation
  <2>2. QED
    BY <1>1, <1>2, <2>1 DEF Ask
<1>3. ASSUME NEW c \in Callers, NEW status, NEW spent, Settle(c, status, spent)
      PROVE  ~ NewReservation(i)
  BY <1>3 DEF Settle, NewReservation
<1>4. ASSUME NEW c \in Callers, Working(c) PROVE ~ NewReservation(i)
  BY <1>1, <1>3, <1>4 DEF Working, Reserving, EnterProcess, LockPolicy, SumReserved, Admitting,
     Admit, AdmitRaises, Deny, Settling, Call, Complete, Fail, Release, ReleaseRaises
<1>5. QED
  BY <1>1, <1>2, <1>4 DEF Next, LoadPolicy, StorePolicy, LeaseLapses, ProcessLost, vars

\* Reservations of all processes together stay within a hard budget, and each is
\* made under the policy it names (reserve).
THEOREM BudgetKept == Spec => ReservedUnderPolicy
<1> DEFINE Kept(i) ==
      NewReservation(i) =>
        /\ ledger'[i].version = policy.version
        /\ policy.hard /\ policy.budget # 0 => ReservedCost' <= policy.budget
<1>1. ASSUME Admitted, NEW c \in Callers, Reserve(c), NEW i \in DOMAIN ledger'
      PROVE  Kept(i)
  <2>1. PICK cost \in Costs \ {0} :
          IF policy.hard /\ OverBudget(c, cost)
          THEN Entered("denied", cost)
          ELSE Entered("reserved", cost)
    BY <1>1 DEF Reserve
  <2>2. /\ cost \in Nat /\ TypeOK /\ callers[c].sum \in Nat /\ ReservedCost \in Nat
        /\ callers[c].pc = "summed" /\ policy.budget \in Nat
    BY <1>1, CallFacts, CostAssumption DEF Reserve, TypeOK, Policy
  <2>3. DOMAIN ledger = Ids
    BY <2>2 DEF TypeOK, Ids
  <2>4. CASE Entered("denied", cost)
    <3>1. /\ ledger' \in Seq(Entry) /\ Ids' = Ids \union {Len(ledger) + 1}
          /\ ledger'[Len(ledger) + 1].status = "denied"
      BY <2>2, <2>4, EntryAdded
    <3>2. DOMAIN ledger' = Ids'
      BY <3>1 DEF Ids
    <3>3. QED
      BY <2>3, <3>1, <3>2 DEF NewReservation
  <2>5. CASE Entered("reserved", cost) /\ ~ (policy.hard /\ OverBudget(c, cost))
    <3>1. /\ ledger' \in Seq(Entry) /\ Ids' = Ids \union {Len(ledger) + 1}
          /\ ledger'[Len(ledger) + 1].version = policy.version
          /\ ReservedCost' = cost + ReservedCost
      BY <2>2, <2>5, EntryAdded
    <3>2. DOMAIN ledger' = Ids'
      BY <3>1 DEF Ids
    <3>3. ReservedCost <= callers[c].sum
      BY <1>1, <2>2 DEF Admitted, RowKept
    <3>4. policy.hard /\ policy.budget # 0 => ReservedCost' <= policy.budget
      BY <2>2, <2>5, <3>1, <3>3 DEF OverBudget
    <3>5. QED
      BY <2>3, <3>1, <3>2, <3>4 DEF NewReservation
  <2>6. QED
    BY <2>1, <2>4, <2>5
<1>2. ASSUME Admitted, [Next]_vars
      PROVE  [\A i \in DOMAIN ledger' : Kept(i)]_vars
  BY <1>1, <1>2, OthersReserveNothing
<1>3. QED
  BY <1>2, AdmissionInvariant, PTL DEF Spec, ReservedUnderPolicy

-----------------------------------------------------------------------------
(* Numbers.                                                                  *)

\* Clocks a window apart are not in the same window.
LEMMA WindowsApart ==
  ASSUME NEW m \in Nat, NEW n \in Nat, n >= m + WindowLength
  PROVE  m \div WindowLength \in Nat /\ m \div WindowLength # n \div WindowLength
<1> DEFINE W == WindowLength
<1>1. W \in Nat \ {0}
  BY RateAssumption
<1> HIDE DEF W
<1>2. ASSUME NEW k \in Nat
      PROVE  /\ k \div W \in Nat
             /\ W * (k \div W) <= k /\ k < W * (k \div W) + W
  BY <1>1
<1>3. QED
  BY <1>1, <1>2 DEF W

\* The longest that a lease can seem older than it is.
LEMMA SpreadBounds ==
  ASSUME NEW a \in Offsets, NEW b \in Offsets
  PROVE  Spread \in Nat /\ a - b + Patience <= Spread
<1>1. Offsets \subseteq Nat /\ Patience \in Nat /\ Grace \in Nat
  BY RateAssumption
<1>2. \E least \in Offsets : \A o \in Offsets : least <= o
  BY <1>1, LeastNatural
<1>3. Min(Offsets) \in Offsets /\ \A o \in Offsets : Min(Offsets) <= o
  BY <1>2 DEF Min
<1>4. \E most \in Offsets : \A o \in Offsets : most >= o
  <2> DEFINE Short == {Grace + b - o : o \in Offsets}
  <2>1. \A o \in Offsets : Grace + b - o \in Nat
    BY <1>1, RateAssumption
  <2>2. PICK n \in Short : \A m \in Short : n <= m
    <3>1. Short \subseteq Nat /\ Short # {}
      BY <2>1
    <3> HIDE DEF Short
    <3>2. QED
      BY <3>1, LeastNatural
  <2>3. PICK most \in Offsets : n = Grace + b - most
    BY <2>2
  <2>4. \A o \in Offsets : Grace + b - most <= Grace + b - o
    BY <2>2, <2>3
  <2>5. QED
    BY <1>1, <2>4
<1>5. Max(Offsets) \in Offsets /\ \A o \in Offsets : Max(Offsets) >= o
  BY <1>4 DEF Max
<1>6. Spread = Max(Offsets) - Min(Offsets) + Patience
  BY DEF Spread
<1>7. ASSUME NEW hi \in Nat, NEW lo \in Nat, NEW x \in Nat, NEW y \in Nat, NEW p \in Nat,
             x <= hi, lo <= y, lo <= hi
      PROVE  hi - lo + p \in Nat /\ x - y + p <= hi - lo + p
  BY <1>7
<1>8. QED
  BY <1>1, <1>3, <1>5, <1>6, <1>7

-----------------------------------------------------------------------------
(* Rate windows: the inductive invariant.                                    *)

Try == [by : Servers, who : Members, size : Sizes, seen : Nat, since : Nat, busy : Nat,
        at : {"asked", "held", "over", "organization", "principal", "tokens", "concurrency"}]
Tally == [n : Nat, until : Nat]
Lease == [store : Stores, try : Nat, until : Nat]
Keys == Stores \X (Members \cup {"org", "tokens"}) \X Nat

RatesTyped ==
    /\ keeper \in {"redis", "memory"} /\ ahead \in [Servers -> Offsets]
    /\ tick \in 0..LastTick /\ tries \in Seq(Try)
    /\ DOMAIN counters \subseteq Keys /\ counters \in [DOMAIN counters -> Tally]
    /\ places \subseteq Lease /\ IsFiniteSet(places)
    /\ vacated \in [Stores -> Nat]

\* A call that asks read its clock no longer ago than it may wait; one that holds
\* a lease had read it no longer before that.
TimelyTry(try) ==
    /\ try.at = "asked" => /\ try.since <= tick /\ tick <= try.since + Patience
                           /\ try.seen = try.since + ahead[try.by]
    /\ try.at = "held" => /\ try.since <= tick
                          /\ try.seen <= try.since + ahead[try.by]
                          /\ try.since + ahead[try.by] <= try.seen + Patience
Timely == \A i \in DOMAIN tries : TimelyTry(tries[i])

\* What the counter of a key counts, and what it may reach.
AdmittedOf(k, calls, key) ==
    {i \in DOMAIN calls : /\ calls[i].at \in {"held", "over"}
                          /\ key[1] = IF k = "redis" THEN "shared" ELSE calls[i].by
                          /\ key[3] = calls[i].seen \div WindowLength}
SizesOf(calls, set) == MapThenSumSet(LAMBDA i : calls[i].size, set)
DueOf(k, calls, key) ==
    LET admitted == AdmittedOf(k, calls, key) IN
    IF key[2] = "org" THEN Cardinality(admitted)
    ELSE IF key[2] = "tokens" THEN SizesOf(calls, admitted)
    ELSE Cardinality({i \in admitted : calls[i].who = key[2]})
Due(key) == DueOf(keeper, tries, key)
Limit(key) == IF key[2] = "org" THEN PerWindow ELSE IF key[2] = "tokens" THEN PerTokens ELSE PerMember

\* Whatever the clock of a process, it has left the window, and every call that
\* saw it there has its answer.
Over(w) ==
    keeper = "redis" /\ \E seen \in Nat, a \in Offsets :
        seen \div WindowLength = w /\ tick + a >= seen + WindowLength + Grace

\* A counter tells what its window has admitted until the window is over.
CountersTell ==
    \A key \in Keys :
        /\ key \in DOMAIN counters =>
             /\ counters[key].n = Due(key)
             /\ keeper = "memory" => counters[key].until = Never
             /\ keeper = "redis" => \E seen \in Nat, a \in Offsets :
                    /\ seen \div WindowLength = key[3]
                    /\ counters[key].until + a >= seen + WindowLength + Grace
        /\ key \notin DOMAIN counters => Due(key) = 0 \/ Over(key[3])

WindowsBounded == \A key \in Keys : Due(key) <= Limit(key)

RefusedFor(try) ==
    /\ try.at = "organization" => Due(Key(try, "org")) >= PerWindow
    /\ try.at = "principal" => Due(Key(try, try.who)) >= PerMember
    /\ try.at = "tokens" => Due(Key(try, "tokens")) + try.size > PerTokens
    /\ try.at = "concurrency" => try.busy >= Places
Refusals == \A i \in DOMAIN tries : RefusedFor(tries[i])

\* A lease is that of one call that holds it.
LeaseOwned(lease) ==
    /\ lease.try \in Holding /\ lease.store = Store(tries[lease.try].by)
    /\ lease.until = LeaseLength +
         IF keeper = "redis" THEN tries[lease.try].seen
         ELSE tries[lease.try].since + ahead[tries[lease.try].by]
LeasesOwn ==
    /\ \A lease \in places : LeaseOwned(lease)
    /\ \A lease, other \in places : lease.try = other.try => lease = other
    /\ \A store \in Stores : Cardinality(OfStore(store)) <= Places

\* A call keeps its lease for its length, less what clocks differ by, and Redis
\* keeps the leases as long as the last of them.
StillLeased(i) ==
    /\ tick < tries[i].since + LeaseLength - Spread => \E lease \in places : lease.try = i
    /\ keeper = "redis" => vacated["shared"] >= tries[i].since + LeaseLength
Leases ==
    /\ keeper = "memory" => \A store \in Stores : vacated[store] = Never
    /\ \A i \in Holding : StillLeased(i)

RatesHeld ==
    /\ RatesTyped /\ Timely /\ CountersTell /\ WindowsBounded
    /\ Refusals /\ LeasesOwn /\ Leases

-----------------------------------------------------------------------------
(* What the windows have admitted.                                           *)

Sizing(calls, set) == [i \in set |-> calls[i].size]

LEMMA SizesSummed ==
  ASSUME NEW calls \in Seq(Try), NEW S, S \subseteq DOMAIN calls
  PROVE  /\ IsFiniteSet(S) /\ Sizing(calls, S) \in [S -> Nat]
         /\ \E sums : Sums(sums, Sizing(calls, S), S) /\ SizesOf(calls, S) = sums[S]
<1> DEFINE body(sums) == [s \in SUBSET S |->
              IF s = {} THEN 0 ELSE calls[Some(s)].size + sums[s \ {Some(s)}]]
           iter == CHOOSE sums : sums = body(sums)
<1>1. SizesOf(calls, S) = iter[S]
  BY DEF SizesOf, MapThenSumSet, MapThenFoldSet, Some
<1>2. IsFiniteSet(S)
  <2>1. DOMAIN calls = 1..Len(calls) /\ Len(calls) \in Nat
    OBVIOUS
  <2>2. IsFiniteSet(DOMAIN calls)
    BY <2>1, FS_Interval
  <2>3. QED
    BY <2>2, FS_Subset
<1>3. Sizing(calls, S) \in [S -> Nat]
  <2>1. Sizes \subseteq Nat
    BY RateAssumption
  <2>2. \A i \in S : calls[i] \in Try
    OBVIOUS
  <2>3. QED
    BY <2>1, <2>2 DEF Sizing, Try
<1>4. PICK known \in [SUBSET S -> Nat] : Sums(known, Sizing(calls, S), S)
  BY <1>2, <1>3, SumsExist
<1>5. \A sums : Sums(sums, Sizing(calls, S), S) <=> sums = body(sums)
  <2>1. \A s \in SUBSET S : s # {} => Sizing(calls, S)[Some(s)] = calls[Some(s)].size
    BY DEF Some, Sizing
  <2>2. QED
    BY <2>1 DEF Sums
<1> HIDE DEF body
<1>6. iter = body(iter)
  BY <1>4, <1>5
<1>7. QED
  BY <1>1, <1>2, <1>3, <1>5, <1>6

LEMMA SizesType ==
  ASSUME NEW calls \in Seq(Try), NEW S, S \subseteq DOMAIN calls
  PROVE  SizesOf(calls, S) \in Nat
BY SizesSummed, SumsType

LEMMA SizesEmpty ==
  ASSUME NEW calls \in Seq(Try)
  PROVE  SizesOf(calls, {}) = 0
<1>1. PICK sums : Sums(sums, Sizing(calls, {}), {}) /\ SizesOf(calls, {}) = sums[{}]
  BY SizesSummed
<1>2. QED
  BY <1>1 DEF Sums

LEMMA SizesSame ==
  ASSUME NEW few \in Seq(Try), NEW many \in Seq(Try), NEW S, S \subseteq DOMAIN few,
         S \subseteq DOMAIN many, \A j \in S : many[j].size = few[j].size
  PROVE  SizesOf(many, S) = SizesOf(few, S)
<1>1. PICK a : Sums(a, Sizing(few, S), S) /\ SizesOf(few, S) = a[S]
  BY SizesSummed
<1>2. PICK b : Sums(b, Sizing(many, S), S) /\ SizesOf(many, S) = b[S]
  BY SizesSummed
<1>3. IsFiniteSet(S) /\ \A j \in S : Sizing(few, S)[j] = Sizing(many, S)[j]
  BY SizesSummed DEF Sizing
<1>4. QED
  BY <1>1, <1>2, <1>3, SumsAgree

LEMMA SumsWith ==
  ASSUME NEW S, IsFiniteSet(S), NEW y, y \notin S, NEW T, T = S \cup {y},
         NEW f \in [T -> Nat], NEW g \in [S -> Nat], \A x \in S : f[x] = g[x],
         NEW many, Sums(many, f, T), NEW few, Sums(few, g, S)
  PROVE  many[T] = few[S] + f[y]
<1>1. IsFiniteSet(T) /\ y \in T /\ S = T \ {y}
  BY FS_AddElement
<1>2. many[T] = f[y] + few[S]
  BY <1>1, SumsWithout
<1>3. few[S] \in Nat /\ f[y] \in Nat
  BY <1>1, SumsType
<1>4. QED
  BY <1>2, <1>3

LEMMA SizesOneMore ==
  ASSUME NEW few \in Seq(Try), NEW many \in Seq(Try), NEW S, NEW i, i \notin S,
         S \subseteq DOMAIN few, S \cup {i} \subseteq DOMAIN many,
         \A j \in S : many[j].size = few[j].size
  PROVE  SizesOf(many, S \cup {i}) = SizesOf(few, S) + many[i].size
<1>1. PICK T : T = S \cup {i}
  OBVIOUS
<1>2. PICK f, g : f = Sizing(many, T) /\ g = Sizing(few, S)
  OBVIOUS
<1>3. PICK a : Sums(a, g, S) /\ SizesOf(few, S) = a[S]
  BY <1>2, SizesSummed
<1>4. PICK b : Sums(b, f, T) /\ SizesOf(many, T) = b[T]
  BY <1>1, <1>2, SizesSummed
<1>5. /\ f \in [T -> Nat] /\ g \in [S -> Nat] /\ IsFiniteSet(S)
  BY <1>1, <1>2, SizesSummed
<1>6. f[i] = many[i].size /\ \A j \in S : f[j] = g[j]
  BY <1>1, <1>2 DEF Sizing
<1>7. b[T] = a[S] + f[i]
  BY <1>1, <1>3, <1>4, <1>5, <1>6, SumsWith
<1>8. QED
  BY <1>1, <1>3, <1>4, <1>6, <1>7

LEMMA AdmittedFinite ==
  ASSUME NEW calls \in Seq(Try), NEW k, NEW key
  PROVE  /\ AdmittedOf(k, calls, key) \subseteq DOMAIN calls
         /\ IsFiniteSet(AdmittedOf(k, calls, key))
<1>1. AdmittedOf(k, calls, key) \subseteq DOMAIN calls
  BY DEF AdmittedOf
<1>2. QED
  BY <1>1, SizesSummed

LEMMA DueType ==
  ASSUME NEW calls \in Seq(Try), NEW k, NEW key
  PROVE  DueOf(k, calls, key) \in Nat
<1>1. PICK S : S = AdmittedOf(k, calls, key)
  OBVIOUS
<1>2. S \subseteq DOMAIN calls /\ IsFiniteSet(S)
  BY <1>1, AdmittedFinite
<1>3. SizesOf(calls, S) \in Nat
  BY <1>2, SizesType
<1>4. Cardinality(S) \in Nat
  BY <1>2, FS_CardinalityType
<1>5. Cardinality({i \in S : calls[i].who = key[2]}) \in Nat
  BY <1>2, FS_Subset, FS_CardinalityType
<1>6. QED
  BY <1>1, <1>3, <1>4, <1>5 DEF DueOf

LEMMA DueNone ==
  ASSUME NEW calls \in Seq(Try), NEW k, NEW key, AdmittedOf(k, calls, key) = {}
  PROVE  DueOf(k, calls, key) = 0
<1>1. SizesOf(calls, {}) = 0 /\ Cardinality({}) = 0
  BY SizesEmpty, FS_EmptySet
<1>2. {i \in {} : calls[i].who = key[2]} = {}
  OBVIOUS
<1>3. QED
  BY <1>1, <1>2 DEF DueOf

LEMMA DueSame ==
  ASSUME NEW few \in Seq(Try), NEW many \in Seq(Try), NEW k, NEW key,
         AdmittedOf(k, many, key) = AdmittedOf(k, few, key),
         \A j \in AdmittedOf(k, few, key) : many[j].size = few[j].size /\ many[j].who = few[j].who
  PROVE  DueOf(k, many, key) = DueOf(k, few, key)
<1>1. PICK S : S = AdmittedOf(k, few, key) /\ S = AdmittedOf(k, many, key)
  OBVIOUS
<1>2. S \subseteq DOMAIN few /\ S \subseteq DOMAIN many
  BY <1>1, AdmittedFinite
<1>3. SizesOf(many, S) = SizesOf(few, S)
  BY <1>1, <1>2, SizesSame
<1>4. {i \in S : many[i].who = key[2]} = {i \in S : few[i].who = key[2]}
  BY <1>1
<1>5. QED
  BY <1>1, <1>3, <1>4 DEF DueOf

\* What an admitted call adds to the count of a key.
Adds(call, key) ==
    IF key[2] = "org" THEN 1 ELSE IF key[2] = "tokens" THEN call.size
    ELSE IF call.who = key[2] THEN 1 ELSE 0

LEMMA DueMore ==
  ASSUME NEW few \in Seq(Try), NEW many \in Seq(Try), NEW k, NEW key, NEW i,
         i \notin AdmittedOf(k, few, key),
         AdmittedOf(k, many, key) = AdmittedOf(k, few, key) \cup {i},
         \A j \in AdmittedOf(k, few, key) : many[j].size = few[j].size /\ many[j].who = few[j].who
  PROVE  DueOf(k, many, key) = DueOf(k, few, key) + Adds(many[i], key)
<1>1. PICK S : S = AdmittedOf(k, few, key)
  OBVIOUS
<1>2. PICK T : T = S \cup {i} /\ T = AdmittedOf(k, many, key)
  BY <1>1
<1>3. S \subseteq DOMAIN few /\ T \subseteq DOMAIN many /\ IsFiniteSet(S) /\ IsFiniteSet(T)
  BY <1>1, <1>2, AdmittedFinite
<1>4. CASE key[2] = "org"
  <2>1. Cardinality(T) = Cardinality(S) + 1
    BY <1>1, <1>2, <1>3, FS_AddElement
  <2>2. DueOf(k, many, key) = Cardinality(T) /\ DueOf(k, few, key) = Cardinality(S)
    BY <1>1, <1>2, <1>4 DEF DueOf
  <2>3. QED
    BY <1>4, <2>1, <2>2 DEF Adds
<1>5. CASE key[2] = "tokens"
  <2>1. SizesOf(many, T) = SizesOf(few, S) + many[i].size
    BY <1>1, <1>2, <1>3, SizesOneMore
  <2>2. DueOf(k, many, key) = SizesOf(many, T) /\ DueOf(k, few, key) = SizesOf(few, S)
    BY <1>1, <1>2, <1>5 DEF DueOf
  <2>3. QED
    BY <1>5, <2>1, <2>2 DEF Adds
<1>6. CASE key[2] \notin {"org", "tokens"}
  <2>1. PICK A : A = {j \in S : few[j].who = key[2]}
    OBVIOUS
  <2>2. PICK B : B = {j \in T : many[j].who = key[2]}
    OBVIOUS
  <2>3. DueOf(k, many, key) = Cardinality(B) /\ DueOf(k, few, key) = Cardinality(A)
    BY <1>1, <1>2, <1>6, <2>1, <2>2 DEF DueOf
  <2>4. IsFiniteSet(A) /\ Cardinality(A) \in Nat
    BY <1>3, <2>1, FS_Subset, FS_CardinalityType
  <2>5. CASE many[i].who = key[2]
    <3>1. B = A \cup {i} /\ i \notin A
      BY <1>1, <1>2, <2>1, <2>2, <2>5
    <3>2. Cardinality(B) = Cardinality(A) + 1
      BY <2>4, <3>1, FS_AddElement
    <3>3. QED
      BY <1>6, <2>3, <2>5, <3>2 DEF Adds
  <2>6. CASE many[i].who # key[2]
    <3>1. B = A
      BY <1>1, <1>2, <2>1, <2>2, <2>6
    <3>2. QED
      BY <1>6, <2>3, <2>4, <2>6, <3>1 DEF Adds
  <2>7. QED
    BY <2>5, <2>6
<1>7. QED
  BY <1>4, <1>5, <1>6

-----------------------------------------------------------------------------
(* What a state that holds the invariant says.                               *)

LEMMA RateNumbers ==
  /\ Patience \in Nat /\ Grace \in Nat /\ LastTick \in Nat /\ MaxTries \in Nat
  /\ WindowLength \in Nat /\ WindowLength > 0 /\ LeaseLength \in Nat /\ LeaseLength > 0
  /\ PerWindow \in Nat /\ PerMember \in Nat /\ PerTokens \in Nat /\ Places \in Nat
  /\ Sizes \subseteq Nat /\ Offsets \subseteq Nat
  /\ "org" \notin Members /\ "tokens" \notin Members
  /\ Never \in Nat /\ Never > LastTick
<1>1. /\ Patience \in Nat /\ Grace \in Nat /\ LastTick \in Nat /\ MaxTries \in Nat
      /\ WindowLength \in Nat /\ WindowLength > 0 /\ LeaseLength \in Nat /\ LeaseLength > 0
      /\ PerWindow \in Nat /\ PerMember \in Nat /\ PerTokens \in Nat /\ Places \in Nat
  <2>1. {Patience, Grace, MaxTries, LastTick} \subseteq Nat
    BY RateAssumption
  <2>2. {WindowLength, LeaseLength, PerWindow, PerMember, PerTokens, Places} \subseteq Nat \ {0}
    BY RateAssumption
  <2>3. \A n \in Nat \ {0} : n \in Nat /\ n > 0
    OBVIOUS
  <2>4. QED
    BY <2>1, <2>2, <2>3
<1>2. /\ Sizes \subseteq Nat /\ Offsets \subseteq Nat
      /\ "org" \notin Members /\ "tokens" \notin Members
  BY RateAssumption
<1>3. QED
  BY <1>1, <1>2 DEF Never

LEMMA TryType ==
  ASSUME RatesTyped, NEW i \in DOMAIN tries
  PROVE  /\ i \in Nat /\ tries[i] \in Try
         /\ tries[i].by \in Servers /\ tries[i].who \in Members /\ tries[i].size \in Nat
         /\ tries[i].seen \in Nat /\ tries[i].since \in Nat /\ tries[i].busy \in Nat
         /\ ahead[tries[i].by] \in Offsets /\ ahead[tries[i].by] \in Nat
         /\ Store(tries[i].by) \in Stores /\ InWindow(tries[i]) \in Nat
         /\ tick \in Nat /\ tick <= LastTick
<1>1. i \in Nat /\ tries[i] \in Try
  BY DEF RatesTyped
<1>2. /\ tries[i].by \in Servers /\ tries[i].who \in Members /\ tries[i].size \in Nat
      /\ tries[i].seen \in Nat /\ tries[i].since \in Nat /\ tries[i].busy \in Nat
  BY <1>1, RateNumbers DEF Try
<1>3. ahead[tries[i].by] \in Offsets /\ ahead[tries[i].by] \in Nat
  BY <1>2, RateNumbers DEF RatesTyped
<1>4. Store(tries[i].by) \in Stores
  BY <1>2 DEF Store, Stores
<1>5. tries[i].seen + WindowLength \in Nat
  BY <1>2, RateNumbers
<1>6. InWindow(tries[i]) \in Nat
  BY <1>2, <1>5, RateNumbers, WindowsApart DEF InWindow
<1>7. tick \in Nat /\ tick <= LastTick
  BY RateNumbers DEF RatesTyped
<1>8. QED
  BY <1>1, <1>2, <1>3, <1>4, <1>6, <1>7

\* A window in which a call asks is not over: the call has read a clock that is
\* ahead by no less than what a counter outlives its window by.
LEMMA NotOver ==
  ASSUME RatesTyped, Timely, NEW i \in DOMAIN tries, tries[i].at = "asked"
  PROVE  ~ Over(InWindow(tries[i]))
<1> SUFFICES ASSUME Over(InWindow(tries[i])) PROVE FALSE
  OBVIOUS
<1>1. PICK seen \in Nat, a \in Offsets :
        /\ seen \div WindowLength = InWindow(tries[i])
        /\ tick + a >= seen + WindowLength + Grace
  BY DEF Over
<1>2. /\ tick <= tries[i].since + Patience /\ tries[i].seen = tries[i].since + ahead[tries[i].by]
  BY DEF Timely, TimelyTry
<1>3. PICK b \in Offsets : b = ahead[tries[i].by] /\ b \in Nat
  BY TryType
<1>4. a - b + Patience <= Grace /\ a \in Nat
  BY RateAssumption, RateNumbers
<1>5. tries[i].seen >= seen + WindowLength
  BY <1>1, <1>2, <1>3, <1>4, TryType, RateNumbers
<1>6. seen \div WindowLength # tries[i].seen \div WindowLength
  BY <1>5, TryType, WindowsApart
<1>7. QED
  BY <1>1, <1>6 DEF InWindow

\* A call that asks is told what its window has admitted.
LEMMA CountIsDue ==
  ASSUME RatesTyped, Timely, CountersTell, NEW i \in DOMAIN tries, tries[i].at = "asked",
         NEW what \in Members \cup {"org", "tokens"}
  PROVE  Key(tries[i], what) \in Keys /\ Count(Key(tries[i], what)) = Due(Key(tries[i], what))
<1>1. PICK key : key = Key(tries[i], what)
  OBVIOUS
<1>2. key \in Keys /\ key[3] = InWindow(tries[i])
  BY <1>1, TryType DEF Key, Keys
<1>3. ~ Over(key[3])
  BY <1>2, NotOver
<1>4. Count(key) = Due(key)
  BY <1>2, <1>3 DEF CountersTell, Count
<1>5. QED
  BY <1>1, <1>2, <1>4

LEMMA InitRatesHold == InitRates => RatesHeld
<1> SUFFICES ASSUME InitRates PROVE RatesHeld
  OBVIOUS
<1>1. tries = <<>> /\ tries \in Seq(Try) /\ DOMAIN tries = {}
  BY DEF InitRates
<1>2. counters = [k \in {} |-> 0] /\ DOMAIN counters = {} /\ places = {} /\ tick = 0
  BY DEF InitRates, Empty
<1>3. RatesTyped
  <2>1. counters \in [DOMAIN counters -> Tally]
    BY <1>2
  <2>2. vacated \in [Stores -> Nat]
    BY RateNumbers DEF InitRates
  <2>3. 0 \in 0..LastTick
    BY RateNumbers
  <2>4. places \subseteq Lease /\ IsFiniteSet(places)
    BY <1>2, FS_EmptySet
  <2>5. keeper \in {"redis", "memory"} /\ ahead \in [Servers -> Offsets]
    BY DEF InitRates
  <2>6. QED
    BY <1>1, <1>2, <2>1, <2>2, <2>3, <2>4, <2>5 DEF RatesTyped
<1>4. ASSUME NEW key \in Keys
      PROVE  Due(key) = 0
  <2>1. AdmittedOf(keeper, tries, key) = {}
    BY <1>1 DEF AdmittedOf
  <2>2. QED
    BY <1>1, <2>1, DueNone DEF Due
<1>5. CountersTell
  BY <1>2, <1>4 DEF CountersTell
<1>6. WindowsBounded
  BY <1>4, RateNumbers DEF WindowsBounded, Limit
<1>7. Timely /\ Refusals /\ Leases
  BY <1>1 DEF InitRates, Timely, Refusals, Leases, Holding
<1>8. LeasesOwn
  <2>1. \A store \in Stores : OfStore(store) = {}
    BY <1>2 DEF OfStore
  <2>2. QED
    BY <1>2, <2>1, FS_EmptySet, RateNumbers DEF LeasesOwn
<1>9. QED
  BY <1>3, <1>5, <1>6, <1>7, <1>8 DEF RatesHeld

\* A call has one key for all, one for its principal and one for its tokens.
LEMMA KeysOfACall ==
  ASSUME RatesTyped, NEW i \in DOMAIN tries, NEW key \in Keys
  PROVE  /\ key \in DOMAIN Added(tries[i]) <=>
              /\ key[1] = Store(tries[i].by) /\ key[3] = InWindow(tries[i])
              /\ key[2] \in {"org", "tokens", tries[i].who}
         /\ key \in DOMAIN Added(tries[i]) => Added(tries[i])[key] = Adds(tries[i], key)
         /\ key \notin DOMAIN Added(tries[i]) /\ key[1] = Store(tries[i].by)
            /\ key[3] = InWindow(tries[i]) => Adds(tries[i], key) = 0
<1>1. PICK store, what, w : key = <<store, what, w>>
  BY DEF Keys
<1>2. tries[i].who \in Members /\ "org" # tries[i].who /\ "tokens" # tries[i].who
  BY TryType, RateNumbers
<1>3. DOMAIN Added(tries[i]) = {Key(tries[i], "org"), Key(tries[i], tries[i].who), Key(tries[i], "tokens")}
  BY DEF Added
<1>4. key \in DOMAIN Added(tries[i]) <=>
              /\ key[1] = Store(tries[i].by) /\ key[3] = InWindow(tries[i])
              /\ key[2] \in {"org", "tokens", tries[i].who}
  BY <1>1, <1>3 DEF Key
<1>5. key \in DOMAIN Added(tries[i]) =>
        Added(tries[i])[key] = IF key[2] = "tokens" THEN tries[i].size ELSE 1
  BY DEF Added
<1>6. QED
  BY <1>2, <1>4, <1>5 DEF Adds

-----------------------------------------------------------------------------
(* What a step leaves as it was.                                             *)

SameCall(call, other) ==
    /\ call.by = other.by /\ call.who = other.who
    /\ call.size = other.size /\ call.seen = other.seen

\* A step that admits no call changes no count.
LEMMA DueKept ==
  ASSUME RatesTyped, RatesTyped', keeper' = keeper, DOMAIN tries \subseteq DOMAIN tries',
         \A j \in DOMAIN tries :
            /\ SameCall(tries[j], tries'[j])
            /\ tries'[j].at \in {"held", "over"} <=> tries[j].at \in {"held", "over"},
         \A j \in DOMAIN tries' : j \notin DOMAIN tries => tries'[j].at = "asked",
         NEW key \in Keys
  PROVE  Due(key)' = Due(key)
<1>1. tries \in Seq(Try) /\ tries' \in Seq(Try)
  BY DEF RatesTyped
<1>2. AdmittedOf(keeper, tries', key) = AdmittedOf(keeper, tries, key)
  <2>1. ASSUME NEW j
        PROVE  j \in AdmittedOf(keeper, tries', key) <=> j \in AdmittedOf(keeper, tries, key)
    <3>1. CASE j \in DOMAIN tries
      <4>1. /\ j \in DOMAIN tries'
            /\ tries'[j].by = tries[j].by /\ tries'[j].seen = tries[j].seen
            /\ tries'[j].at \in {"held", "over"} <=> tries[j].at \in {"held", "over"}
        BY <3>1 DEF SameCall
      <4>2. QED
        BY <3>1, <4>1 DEF AdmittedOf
    <3>2. CASE j \notin DOMAIN tries
      BY <3>2 DEF AdmittedOf
    <3>3. QED
      BY <3>1, <3>2
  <2>2. QED
    BY <2>1
<1>3. \A j \in AdmittedOf(keeper, tries, key) :
         tries'[j].size = tries[j].size /\ tries'[j].who = tries[j].who
  BY DEF AdmittedOf, SameCall
<1>4. DueOf(keeper, tries', key) = DueOf(keeper, tries, key)
  BY <1>1, <1>2, <1>3, DueSame
<1>5. QED
  BY <1>4 DEF Due

\* A call that is admitted counts for its own keys.
LEMMA DueGrown ==
  ASSUME RatesTyped, RatesTyped', keeper' = keeper, DOMAIN tries' = DOMAIN tries,
         NEW i \in DOMAIN tries, tries[i].at = "asked", tries'[i].at = "held",
         SameCall(tries[i], tries'[i]),
         \A j \in DOMAIN tries : j # i => tries'[j] = tries[j],
         NEW key \in Keys
  PROVE  Due(key)' = Due(key) + IF key \in DOMAIN Added(tries[i]) THEN Added(tries[i])[key] ELSE 0
<1>1. tries \in Seq(Try) /\ tries' \in Seq(Try) /\ Due(key) \in Nat
  BY DueType DEF RatesTyped, Due
<1>2. \A j \in AdmittedOf(keeper, tries, key) :
         tries'[j].size = tries[j].size /\ tries'[j].who = tries[j].who
  BY DEF AdmittedOf, SameCall
<1>3. i \notin AdmittedOf(keeper, tries, key)
  BY DEF AdmittedOf
<1>4. CASE key[1] = Store(tries[i].by) /\ key[3] = InWindow(tries[i])
  <2>1. AdmittedOf(keeper, tries', key) = AdmittedOf(keeper, tries, key) \cup {i}
    BY <1>4 DEF AdmittedOf, SameCall, Store, InWindow
  <2>2. DueOf(keeper, tries', key) = DueOf(keeper, tries, key) + Adds(tries'[i], key)
    BY <1>1, <1>2, <1>3, <2>1, DueMore
  <2>3. Adds(tries'[i], key) = Adds(tries[i], key)
    BY DEF Adds, SameCall
  <2>4. Adds(tries[i], key) = IF key \in DOMAIN Added(tries[i]) THEN Added(tries[i])[key] ELSE 0
    BY <1>4, KeysOfACall
  <2>5. QED
    BY <2>2, <2>3, <2>4 DEF Due
<1>5. CASE ~ (key[1] = Store(tries[i].by) /\ key[3] = InWindow(tries[i]))
  <2>1. AdmittedOf(keeper, tries', key) = AdmittedOf(keeper, tries, key)
    BY <1>5 DEF AdmittedOf, SameCall, Store, InWindow
  <2>2. DueOf(keeper, tries', key) = DueOf(keeper, tries, key)
    BY <1>1, <1>2, <2>1, DueSame
  <2>3. key \notin DOMAIN Added(tries[i])
    BY <1>5, KeysOfACall
  <2>4. QED
    BY <1>1, <2>2, <2>3 DEF Due
<1>6. QED
  BY <1>4, <1>5

LEMMA UncountedKeep ==
  ASSUME RatesTyped, CountersTell, WindowsBounded,
         keeper' = keeper, counters' = counters, tick' = tick,
         \A key \in Keys : Due(key)' = Due(key)
  PROVE  CountersTell' /\ WindowsBounded'
<1>1. ASSUME NEW w
      PROVE  Over(w)' <=> Over(w)
  BY DEF Over
<1>2. ASSUME NEW key \in Keys
      PROVE  /\ (key \in DOMAIN counters)' =>
                  /\ counters[key].n' = Due(key)'
                  /\ keeper' = "memory" => counters[key].until' = Never
                  /\ keeper' = "redis" => \E seen \in Nat, a \in Offsets :
                        /\ seen \div WindowLength = key[3]
                        /\ counters[key].until' + a >= seen + WindowLength + Grace
             /\ (key \notin DOMAIN counters)' => Due(key)' = 0 \/ Over(key[3])'
  BY <1>1 DEF CountersTell
<1>3. CountersTell'
  BY <1>2 DEF CountersTell
<1>4. WindowsBounded'
  BY DEF WindowsBounded, Limit
<1>5. QED
  BY <1>3, <1>4

\* A refusal stays due: a window admits no fewer calls later.
LEMMA RefusalStays ==
  ASSUME RatesTyped, RatesTyped', NEW j \in DOMAIN tries, RefusedFor(tries[j]), tries'[j] = tries[j],
         keeper' = keeper, \A key \in Keys : Due(key)' >= Due(key)
  PROVE  RefusedFor(tries[j])'
<1>1. PICK of : of = [what \in Members \cup {"org", "tokens"} |-> Key(tries[j], what)]
  OBVIOUS
<1>2. ASSUME NEW what \in Members \cup {"org", "tokens"}
      PROVE  /\ of[what] = Key(tries[j], what) /\ of[what] = Key(tries[j], what)'
             /\ of[what] \in Keys
  <2>1. Key(tries[j], what)' = Key(tries[j], what)
    BY DEF Key, Store, InWindow
  <2>2. Key(tries[j], what) \in Keys
    BY TryType DEF Key, Keys
  <2>3. QED
    BY <1>1, <2>1, <2>2
<1>3. ASSUME NEW what \in Members \cup {"org", "tokens"}
      PROVE  /\ Due(of[what])' >= Due(of[what])
             /\ Due(of[what]) = Due(Key(tries[j], what))
             /\ Due(of[what])' = Due(Key(tries[j], what))'
  <2>1. Due(of[what]) = Due(Key(tries[j], what))
    BY <1>2
  <2>2. Due(of[what])' = Due(Key(tries[j], what))'
    BY <1>2 DEF Due
  <2>3. QED
    BY <1>2, <2>1, <2>2
<1>4. ASSUME NEW key \in Keys
      PROVE  Due(key) \in Nat /\ Due(key)' \in Nat
  BY DueType DEF Due, RatesTyped
<1>5. PICK who : who = tries[j].who
  OBVIOUS
<1>6. who \in Members /\ who = tries'[j].who /\ tries[j].size \in Nat /\ tries[j].busy \in Nat
  BY <1>5, TryType
<1>7. tries[j].at = "organization" => Due(Key(tries[j], "org"))' >= PerWindow
  BY <1>2, <1>3, <1>4, RateNumbers DEF RefusedFor
<1>8. tries[j].at = "tokens" => Due(Key(tries[j], "tokens"))' + tries[j].size > PerTokens
  BY <1>2, <1>3, <1>4, <1>6, RateNumbers DEF RefusedFor
<1>9. tries[j].at = "principal" => Due(Key(tries[j], tries[j].who))' >= PerMember
  <2>1. Key(tries[j], tries[j].who)' = of[who] /\ Key(tries[j], tries[j].who) = of[who]
    BY <1>2, <1>5, <1>6 DEF Key
  <2>2. Due(Key(tries[j], tries[j].who))' = Due(of[who])'
    BY <2>1 DEF Due
  <2>3. tries[j].at = "principal" => Due(of[who]) >= PerMember
    BY <2>1 DEF RefusedFor
  <2>4. QED
    BY <1>2, <1>3, <1>4, <1>6, <2>2, <2>3, RateNumbers
<1>10. QED
  BY <1>7, <1>8, <1>9 DEF RefusedFor

LEMMA LeaseStays ==
  ASSUME NEW lease, LeaseOwned(lease), keeper' = keeper, ahead' = ahead,
         lease.try \in DOMAIN tries', tries'[lease.try] = tries[lease.try]
  PROVE  LeaseOwned(lease)'
BY DEF LeaseOwned, Holding, Store

LEMMA FewerLeases ==
  ASSUME RatesTyped, LeasesOwn, places' \subseteq places
  PROVE  /\ places' \subseteq Lease /\ IsFiniteSet(places')
         /\ \A lease, other \in places' : lease.try = other.try => lease = other
         /\ \A store \in Stores : Cardinality(OfStore(store))' <= Places
<1>1. places' \subseteq Lease /\ IsFiniteSet(places')
  BY FS_Subset DEF RatesTyped
<1>2. \A lease, other \in places' : lease.try = other.try => lease = other
  BY DEF LeasesOwn
<1>3. ASSUME NEW store \in Stores
      PROVE  Cardinality(OfStore(store))' <= Places
  <2>1. PICK A : A = OfStore(store)
    OBVIOUS
  <2>2. PICK B : B = OfStore(store)'
    OBVIOUS
  <2>3. B \subseteq A /\ A \subseteq places
    BY <2>1, <2>2 DEF OfStore
  <2>4. IsFiniteSet(A) /\ Cardinality(A) <= Places
    BY <2>1, <2>3, FS_Subset DEF RatesTyped, LeasesOwn
  <2>5. Cardinality(B) <= Cardinality(A) /\ Cardinality(B) \in Nat /\ Cardinality(A) \in Nat
    BY <2>3, <2>4, FS_Subset, FS_CardinalityType
  <2>6. Cardinality(B) <= Places
    BY <2>4, <2>5, RateNumbers
  <2>7. Cardinality(OfStore(store))' = Cardinality(B)
    BY <2>2
  <2>8. QED
    BY <2>6, <2>7
<1>4. QED
  BY <1>1, <1>2, <1>3

\* A lease lapses for a call that asks only when the call that has it began, by
\* any clock, a lease before, less what clocks differ by.
LEMMA LapsedLate ==
  ASSUME RatesTyped, Timely, LeasesOwn, NEW i \in DOMAIN tries, tries[i].at = "asked",
         NEW lease \in Lapsed(tries[i])
  PROVE  ~ (tick < tries[lease.try].since + LeaseLength - Spread)
<1>1. /\ lease \in places /\ lease.store = Store(tries[i].by)
      /\ lease.until <= IF keeper = "redis" THEN tries[i].seen ELSE tick + ahead[tries[i].by]
  BY DEF Lapsed, Clock
<1>2. PICK j \in DOMAIN tries : j = lease.try /\ tries[j].at = "held"
  BY <1>1 DEF LeasesOwn, LeaseOwned, Holding
<1>3. /\ lease.store = Store(tries[j].by)
      /\ lease.until = LeaseLength + IF keeper = "redis" THEN tries[j].seen
                                     ELSE tries[j].since + ahead[tries[j].by]
  BY <1>1, <1>2 DEF LeasesOwn, LeaseOwned
<1>4. /\ tries[i].since <= tick /\ tries[i].seen = tries[i].since + ahead[tries[i].by]
      /\ tries[j].since + ahead[tries[j].by] <= tries[j].seen + Patience
  BY <1>2 DEF Timely, TimelyTry
<1>5. PICK a \in Offsets, b \in Offsets :
        a = ahead[tries[i].by] /\ b = ahead[tries[j].by] /\ a \in Nat /\ b \in Nat
  BY TryType
<1>6. Spread \in Nat /\ a - b + Patience <= Spread
  BY SpreadBounds
<1>7. CASE keeper = "redis"
  <2>1. LeaseLength + tries[j].seen <= tries[i].seen
    BY <1>1, <1>3, <1>7
  <2>2. QED
    BY <1>2, <1>4, <1>5, <1>6, <2>1, TryType, RateNumbers
<1>8. CASE keeper # "redis"
  <2>1. tries[i].by = tries[j].by
    BY <1>1, <1>3, <1>8 DEF Store
  <2>2. LeaseLength + (tries[j].since + a) <= tick + a
    <3>1. lease.until = LeaseLength + (tries[j].since + a)
      BY <1>3, <1>5, <1>8, <2>1
    <3>2. lease.until <= tick + a
      BY <1>1, <1>5, <1>8
    <3>3. QED
      BY <3>1, <3>2
  <2>3. QED
    BY <1>2, <1>5, <1>6, <2>2, TryType, RateNumbers
<1>9. QED
  BY <1>7, <1>8

-----------------------------------------------------------------------------
(* The steps keep the invariant.                                             *)

LEMMA HeldFacts ==
  ASSUME RatesHeld
  PROVE  RatesTyped /\ Timely /\ CountersTell /\ WindowsBounded /\ Refusals /\ LeasesOwn /\ Leases
BY DEF RatesHeld

LEMMA AsksKeep ==
  ASSUME RatesHeld, NEW s \in Servers, NEW m \in Members, NEW size \in Sizes, Asks(s, m, size)
  PROVE  RatesHeld'
<1>0. PICK n : n = Len(tries) + 1
  OBVIOUS
<1>1. PICK call : /\ tries' = Append(tries, call)
                  /\ call = [by |-> s, who |-> m, size |-> size, at |-> "asked",
                             seen |-> tick + ahead[s], since |-> tick, busy |-> 0]
  BY DEF Asks, Clock
<1>2. /\ keeper' = keeper /\ ahead' = ahead /\ tick' = tick /\ counters' = counters
      /\ places' = places /\ vacated' = vacated
  BY DEF Asks
<1>3. tick \in Nat /\ ahead[s] \in Nat /\ tries \in Seq(Try)
  BY RateNumbers DEF RatesHeld, RatesTyped
<1>4. call \in Try
  BY <1>1, <1>3 DEF Try
<1>5. /\ tries' \in Seq(Try) /\ n \in Nat /\ DOMAIN tries = 1..(n - 1) /\ DOMAIN tries' = 1..n
      /\ tries'[n] = call /\ \A j \in DOMAIN tries : j # n /\ tries'[j] = tries[j]
  BY <1>0, <1>1, <1>3, <1>4
<1>6. DOMAIN tries' = DOMAIN tries \cup {n} /\ n \notin DOMAIN tries
  <2>1. 1..n = (1..(n - 1)) \cup {n} /\ n \notin 1..(n - 1)
    BY <1>0, <1>3
  <2>2. QED
    BY <1>5, <2>1
<1>7. RatesTyped'
  BY <1>2, <1>5, HeldFacts DEF RatesTyped
<1>8. Timely'
  <2>1. TimelyTry(call)'
    BY <1>1, <1>2, <1>3, RateNumbers DEF TimelyTry
  <2>2. ASSUME NEW j \in DOMAIN tries
        PROVE  TimelyTry(tries[j])'
    BY <1>2, <1>5, HeldFacts DEF Timely, TimelyTry
  <2>3. QED
    BY <1>5, <1>6, <2>1, <2>2 DEF Timely, TimelyTry
<1>9. ASSUME NEW key \in Keys
      PROVE  Due(key)' = Due(key)
  <2>1. \A j \in DOMAIN tries : SameCall(tries[j], tries'[j]) /\ tries'[j].at = tries[j].at
    BY <1>5 DEF SameCall
  <2>2. \A j \in DOMAIN tries' : j \notin DOMAIN tries => tries'[j].at = "asked"
    BY <1>1, <1>5, <1>6
  <2>3. QED
    BY <1>2, <1>6, <1>7, <2>1, <2>2, DueKept, HeldFacts
<1>10. CountersTell' /\ WindowsBounded'
  BY <1>2, <1>9, UncountedKeep, HeldFacts
<1>11. Refusals'
  <2>1. RefusedFor(tries[n])'
    BY <1>1, <1>5 DEF RefusedFor
  <2>2. ASSUME NEW key \in Keys
        PROVE  Due(key)' >= Due(key)
    BY <1>9, HeldFacts, DueType DEF Due, RatesTyped
  <2>3. ASSUME NEW j \in DOMAIN tries
        PROVE  RefusedFor(tries[j])'
    BY <1>2, <1>5, <1>7, <2>2, RefusalStays, HeldFacts DEF Refusals
  <2>4. QED
    BY <1>5, <1>6, <2>1, <2>3 DEF Refusals
<1>12. Holding' = Holding
  BY <1>1, <1>5, <1>6 DEF Holding
<1>13. LeasesOwn'
  <2>1. ASSUME NEW lease \in places'
        PROVE  LeaseOwned(lease)'
    BY <1>2, <1>5, <1>6, LeaseStays, HeldFacts DEF LeasesOwn, LeaseOwned, Holding
  <2>2. QED
    BY <1>2, <2>1, FewerLeases, HeldFacts DEF LeasesOwn
<1>14. Leases'
  <2>1. ASSUME NEW j \in Holding
        PROVE  StillLeased(j)'
    BY <1>2, <1>5, HeldFacts DEF Leases, StillLeased, Holding, Store
  <2>2. QED
    BY <1>2, <1>12, <2>1, HeldFacts DEF Leases
<1>15. QED
  BY <1>7, <1>8, <1>10, <1>11, <1>13, <1>14 DEF RatesHeld

LEMMA ReleasesKeep ==
  ASSUME RatesHeld, NEW i \in DOMAIN tries, Releases(i)
  PROVE  RatesHeld'
<1>1. PICK call : call = [tries[i] EXCEPT !.at = "over", !.since = 0]
  OBVIOUS
<1>2. /\ keeper' = keeper /\ ahead' = ahead /\ tick' = tick /\ counters' = counters
      /\ vacated' = vacated /\ places' = {lease \in places : lease.try # i}
      /\ tries[i].at = "held" /\ tries \in Seq(Try) /\ tries[i] \in Try
  BY HeldFacts, TryType DEF Releases, RatesTyped
<1>3. call \in Try /\ call.at = "over" /\ SameCall(tries[i], call)
  BY <1>1, <1>2 DEF Try, SameCall
<1>4. tries' = [tries EXCEPT ![i] = call]
  BY <1>1 DEF Releases
<1>5. /\ tries' \in Seq(Try) /\ DOMAIN tries' = DOMAIN tries /\ tries'[i] = call
      /\ \A j \in DOMAIN tries : j # i => tries'[j] = tries[j]
  BY <1>2, <1>3, <1>4
<1>6. RatesTyped'
  BY <1>2, <1>5, FewerLeases, HeldFacts DEF RatesTyped
<1>7. Timely'
  <2>1. ASSUME NEW j \in DOMAIN tries
        PROVE  TimelyTry(tries[j])'
    BY <1>2, <1>3, <1>5, HeldFacts DEF Timely, TimelyTry
  <2>2. QED
    BY <1>5, <2>1 DEF Timely
<1>8. ASSUME NEW key \in Keys
      PROVE  Due(key)' = Due(key)
  <2>1. \A j \in DOMAIN tries :
           /\ SameCall(tries[j], tries'[j])
           /\ tries'[j].at \in {"held", "over"} <=> tries[j].at \in {"held", "over"}
    BY <1>2, <1>3, <1>5 DEF SameCall
  <2>2. QED
    BY <1>2, <1>5, <1>6, <2>1, DueKept, HeldFacts
<1>9. CountersTell' /\ WindowsBounded'
  BY <1>2, <1>8, UncountedKeep, HeldFacts
<1>10. Refusals'
  <2>1. RefusedFor(tries[i])'
    BY <1>3, <1>5 DEF RefusedFor
  <2>2. ASSUME NEW key \in Keys
        PROVE  Due(key)' >= Due(key)
    BY <1>8, HeldFacts, DueType DEF Due, RatesTyped
  <2>3. ASSUME NEW j \in DOMAIN tries, j # i
        PROVE  RefusedFor(tries[j])'
    BY <1>2, <1>5, <1>6, <2>2, <2>3, RefusalStays, HeldFacts DEF Refusals
  <2>4. QED
    BY <1>5, <2>1, <2>3 DEF Refusals
<1>11. Holding' = Holding \ {i}
  BY <1>2, <1>3, <1>5 DEF Holding
<1>12. LeasesOwn'
  <2>1. ASSUME NEW lease \in places'
        PROVE  LeaseOwned(lease)'
    <3>1. lease \in places /\ lease.try # i /\ LeaseOwned(lease)
      BY <1>2, HeldFacts DEF LeasesOwn
    <3>2. lease.try \in DOMAIN tries
      BY <3>1 DEF LeaseOwned, Holding
    <3>3. QED
      BY <1>2, <1>5, <3>1, <3>2, LeaseStays
  <2>2. QED
    BY <1>2, <2>1, FewerLeases, HeldFacts DEF LeasesOwn
<1>13. Leases'
  <2>1. ASSUME NEW j \in Holding, j # i
        PROVE  StillLeased(j)'
    <3>1. StillLeased(j) /\ j \in DOMAIN tries /\ tries'[j] = tries[j]
      BY <1>5, <2>1, HeldFacts DEF Leases, Holding
    <3>2. ASSUME NEW lease \in places, lease.try = j
          PROVE  lease \in places'
      BY <1>2, <2>1, <3>2
    <3>3. QED
      BY <1>2, <3>1, <3>2 DEF StillLeased, Store
  <2>2. QED
    BY <1>2, <1>11, <2>1, HeldFacts DEF Leases
<1>14. QED
  BY <1>6, <1>7, <1>9, <1>10, <1>12, <1>13 DEF RatesHeld

LEMMA PassesKeep ==
  ASSUME RatesHeld, Passes
  PROVE  RatesHeld'
<1>1. /\ keeper' = keeper /\ ahead' = ahead /\ vacated' = vacated /\ tries' = tries
      /\ tick < LastTick /\ tick' = tick + 1
      /\ \A j \in DOMAIN tries : tries[j].at = "asked" => tick' <= tries[j].since + Patience
  BY DEF Passes
<1>2. /\ counters' = [k \in {k \in DOMAIN counters : counters[k].until > tick'} |-> counters[k]]
      /\ places' = {lease \in places : vacated[lease.store] > tick'}
  BY DEF Passes
<1>3. tick \in Nat /\ tick' \in 0..LastTick /\ tick' \in Nat
  BY <1>1, RateNumbers, HeldFacts DEF RatesTyped
<1>4. RatesTyped'
  <2>1. DOMAIN counters' \subseteq Keys /\ counters' \in [DOMAIN counters' -> Tally]
    BY <1>2, HeldFacts DEF RatesTyped
  <2>2. places' \subseteq Lease /\ IsFiniteSet(places')
    BY <1>2, FewerLeases, HeldFacts
  <2>3. QED
    BY <1>1, <1>3, <2>1, <2>2, HeldFacts DEF RatesTyped
<1>5. Timely'
  <2>1. ASSUME NEW j \in DOMAIN tries
        PROVE  TimelyTry(tries[j])'
    <3>1. tries[j].since \in Nat /\ TimelyTry(tries[j])
      BY TryType, HeldFacts DEF Timely
    <3>2. QED
      BY <1>1, <1>3, <3>1 DEF TimelyTry
  <2>2. QED
    BY <1>1, <2>1 DEF Timely
<1>6. ASSUME NEW key
      PROVE  Due(key)' = Due(key)
  BY <1>1 DEF Due
<1>7. CountersTell'
  <2>1. ASSUME NEW key \in Keys, key \in DOMAIN counters'
        PROVE  /\ counters[key].n' = Due(key)'
               /\ keeper' = "memory" => counters[key].until' = Never
               /\ keeper' = "redis" => \E seen \in Nat, a \in Offsets :
                      /\ seen \div WindowLength = key[3]
                      /\ counters[key].until' + a >= seen + WindowLength + Grace
    <3>1. key \in DOMAIN counters /\ counters'[key] = counters[key]
      BY <1>2, <2>1
    <3>2. QED
      BY <1>1, <1>6, <3>1, HeldFacts DEF CountersTell
  <2>2. ASSUME NEW key \in Keys, key \notin DOMAIN counters'
        PROVE  Due(key)' = 0 \/ Over(key[3])'
    <3>1. CASE key \notin DOMAIN counters
      <4>1. Due(key) = 0 \/ Over(key[3])
        BY <3>1, HeldFacts DEF CountersTell
      <4>2. ASSUME Over(key[3])
            PROVE  Over(key[3])'
        <5>1. PICK seen \in Nat, a \in Offsets :
                seen \div WindowLength = key[3] /\ tick + a >= seen + WindowLength + Grace
          BY <4>2 DEF Over
        <5>2. tick' + a >= seen + WindowLength + Grace
          BY <1>1, <1>3, <5>1, RateNumbers
        <5>3. QED
          BY <1>1, <4>2, <5>1, <5>2 DEF Over
      <4>3. QED
        BY <1>6, <4>1, <4>2
    <3>2. CASE key \in DOMAIN counters
      <4>1. counters[key].until <= tick' /\ counters[key].until \in Nat
        <5>1. counters[key].until \in Nat
          BY <3>2, HeldFacts DEF RatesTyped, Tally
        <5>2. ~ (counters[key].until > tick')
          BY <1>2, <2>2, <3>2
        <5>3. QED
          BY <1>3, <5>1, <5>2
      <4>2. keeper = "redis"
        <5>1. keeper = "memory" => counters[key].until = Never
          BY <3>2, HeldFacts DEF CountersTell
        <5>2. tick' <= LastTick
          BY <1>3, RateNumbers
        <5>3. QED
          BY <1>3, <4>1, <5>1, <5>2, RateNumbers, HeldFacts DEF RatesTyped
      <4>3. PICK seen \in Nat, a \in Offsets :
              /\ seen \div WindowLength = key[3]
              /\ counters[key].until + a >= seen + WindowLength + Grace
        BY <3>2, <4>2, HeldFacts DEF CountersTell
      <4>4. tick' + a >= seen + WindowLength + Grace
        <5>1. a \in Nat /\ seen + WindowLength + Grace \in Nat
          BY <4>3, RateNumbers
        <5>2. \A x, y, z, end \in Nat : x <= y /\ x + z >= end => y + z >= end
          OBVIOUS
        <5>3. QED
          BY <1>3, <4>1, <4>3, <5>1, <5>2
      <4>5. QED
        BY <1>1, <4>2, <4>3, <4>4 DEF Over
    <3>3. QED
      BY <3>1, <3>2
  <2>3. QED
    BY <2>1, <2>2 DEF CountersTell
<1>8. WindowsBounded'
  BY <1>6, HeldFacts DEF WindowsBounded, Limit
<1>9. Refusals'
  <2>1. ASSUME NEW key \in Keys
        PROVE  Due(key)' >= Due(key)
    BY <1>6, HeldFacts, DueType DEF Due, RatesTyped
  <2>2. ASSUME NEW j \in DOMAIN tries
        PROVE  RefusedFor(tries[j])'
    BY <1>1, <1>4, <2>1, RefusalStays, HeldFacts DEF Refusals
  <2>3. QED
    BY <1>1, <2>2 DEF Refusals
<1>10. LeasesOwn'
  <2>1. ASSUME NEW lease \in places'
        PROVE  LeaseOwned(lease)'
    BY <1>1, <1>2, LeaseStays, HeldFacts DEF LeasesOwn, LeaseOwned, Holding
  <2>2. QED
    BY <1>2, <2>1, FewerLeases, HeldFacts DEF LeasesOwn
<1>11. Leases'
  <2>1. ASSUME NEW j \in Holding
        PROVE  StillLeased(j)'
    <3>1. StillLeased(j) /\ j \in DOMAIN tries /\ tries[j].since \in Nat
      BY HeldFacts, TryType DEF Leases, Holding
    <3>2. ASSUME tick' < tries[j].since + LeaseLength - Spread
          PROVE  \E lease \in places' : lease.try = j
      <4>1. PICK a \in Offsets : a = ahead[tries[j].by]
        BY <3>1, TryType, HeldFacts
      <4>2. Spread \in Nat
        BY <4>1, SpreadBounds
      <4>3. PICK lease \in places : lease.try = j
        BY <1>1, <1>3, <3>1, <3>2, <4>2, RateNumbers DEF StillLeased
      <4>4. lease.store = Store(tries[j].by)
        BY <4>3, HeldFacts DEF LeasesOwn, LeaseOwned
      <4>5. vacated[lease.store] > tick'
        <5>1. CASE keeper = "redis"
          <6>1. lease.store = "shared" /\ vacated["shared"] >= tries[j].since + LeaseLength
            BY <3>1, <4>4, <5>1 DEF Store, StillLeased
          <6>2. vacated["shared"] \in Nat
            BY HeldFacts DEF RatesTyped, Stores
          <6>3. QED
            BY <1>3, <3>1, <3>2, <4>2, <6>1, <6>2, RateNumbers
        <5>2. CASE keeper = "memory"
          BY <1>3, <3>1, <4>4, <5>2, RateNumbers, TryType, HeldFacts DEF Leases
        <5>3. QED
          BY <5>1, <5>2, HeldFacts DEF RatesTyped
      <4>6. QED
        BY <1>2, <4>3, <4>5
    <3>3. QED
      BY <1>1, <3>1, <3>2 DEF StillLeased, Store
  <2>2. QED
    BY <1>1, <2>1, HeldFacts DEF Leases, Holding
<1>12. QED
  BY <1>4, <1>5, <1>7, <1>8, <1>9, <1>10, <1>11 DEF RatesHeld

LEMMA RefusalSays ==
  ASSUME NEW try, NEW taken, try.size \in Nat, Cardinality(taken) \in Nat,
         Count(Key(try, "org")) \in Nat, Count(Key(try, try.who)) \in Nat,
         Count(Key(try, "tokens")) \in Nat
  PROVE  /\ Refusal(try, taken) \in {"organization", "principal", "tokens", "concurrency", "none"}
         /\ Refusal(try, taken) = "organization" => Count(Key(try, "org")) >= PerWindow
         /\ Refusal(try, taken) = "principal" => Count(Key(try, try.who)) >= PerMember
         /\ Refusal(try, taken) = "tokens" => Count(Key(try, "tokens")) + try.size > PerTokens
         /\ Refusal(try, taken) = "concurrency" => Cardinality(taken) >= Places
         /\ Refusal(try, taken) = "none" =>
              /\ Count(Key(try, "org")) < PerWindow /\ Count(Key(try, try.who)) < PerMember
              /\ Count(Key(try, "tokens")) + try.size <= PerTokens
              /\ Cardinality(taken) < Places
<1>1. PICK org \in Nat, own \in Nat, used \in Nat, room \in Nat, size \in Nat :
        /\ org = Count(Key(try, "org")) /\ own = Count(Key(try, try.who))
        /\ used = Count(Key(try, "tokens")) /\ room = Cardinality(taken) /\ size = try.size
  OBVIOUS
<1>2. CASE org >= PerWindow
  BY <1>1, <1>2, RateNumbers DEF Refusal
<1>3. CASE org < PerWindow /\ own >= PerMember
  BY <1>1, <1>3, RateNumbers DEF Refusal
<1>4. CASE org < PerWindow /\ own < PerMember /\ used + size > PerTokens
  BY <1>1, <1>4, RateNumbers DEF Refusal
<1>5. CASE org < PerWindow /\ own < PerMember /\ used + size <= PerTokens /\ room >= Places
  BY <1>1, <1>5, RateNumbers DEF Refusal
<1>6. CASE org < PerWindow /\ own < PerMember /\ used + size <= PerTokens /\ room < Places
  BY <1>1, <1>6, RateNumbers DEF Refusal
<1>7. QED
  BY <1>2, <1>3, <1>4, <1>5, <1>6, RateNumbers

\* Leases are no more than the calls that hold them.
LEMMA LeasesHolding ==
  ASSUME RatesTyped, LeasesOwn, NEW store, NEW some, some \subseteq OfStore(store),
         NEW held, held = {j \in Holding : Store(tries[j].by) = store}
  PROVE  /\ IsFiniteSet(some) /\ Cardinality(some) \in Nat /\ Cardinality(held) \in Nat
         /\ Cardinality(some) <= Cardinality(held)
<1>1. held \subseteq DOMAIN tries /\ tries \in Seq(Try)
  BY DEF Holding, RatesTyped
<1>2. IsFiniteSet(held)
  BY <1>1, SizesSummed
<1>3. IsFiniteSet(some) /\ some \subseteq places
  BY FS_Subset DEF OfStore, RatesTyped
<1>4. PICK f : f = [lease \in some |-> lease.try]
  OBVIOUS
<1>5. f \in [some -> held]
  BY <1>3, <1>4 DEF LeasesOwn, LeaseOwned, OfStore
<1>6. \A lease, other \in some : f[lease] = f[other] => lease = other
  BY <1>3, <1>4 DEF LeasesOwn
<1>7. f \in Injection(some, held)
  BY <1>5, <1>6 DEF Injection, IsInjective
<1>8. QED
  BY <1>2, <1>3, <1>7, FS_Injection, FS_CardinalityType

\* Whatever the answer, the leases that have lapsed are dropped and the others stay.
LEMMA LapsedGone ==
  ASSUME RatesHeld, NEW i \in DOMAIN tries, tries[i].at = "asked",
         keeper' = keeper, ahead' = ahead, tick' = tick, DOMAIN tries' = DOMAIN tries,
         places \ Lapsed(tries[i]) \subseteq places',
         \A j \in DOMAIN tries : j # i => tries'[j] = tries[j]
  PROVE  /\ \A lease \in places : LeaseOwned(lease)'
         /\ \A j \in Holding :
              tick' < tries'[j].since + LeaseLength - Spread => \E lease \in places' : lease.try = j
<1>1. ASSUME NEW lease \in places
      PROVE  LeaseOwned(lease)'
  <2>1. LeaseOwned(lease) /\ lease.try \in DOMAIN tries /\ lease.try # i
    BY HeldFacts DEF LeasesOwn, LeaseOwned, Holding
  <2>2. QED
    BY <2>1, LeaseStays
<1>2. ASSUME NEW j \in Holding, tick' < tries'[j].since + LeaseLength - Spread
      PROVE  \E lease \in places' : lease.try = j
  <2>1. j \in DOMAIN tries /\ tries'[j] = tries[j] /\ StillLeased(j)
    BY HeldFacts DEF Holding, Leases
  <2>2. PICK lease \in places : lease.try = j
    BY <1>2, <2>1 DEF StillLeased
  <2>3. lease \notin Lapsed(tries[i])
    BY <1>2, <2>1, <2>2, LapsedLate, HeldFacts
  <2>4. QED
    BY <2>2, <2>3
<1>3. QED
  BY <1>1, <1>2

LEMMA RefusedKeeps ==
  ASSUME RatesHeld, NEW i \in DOMAIN tries, Acquires(i),
         NEW refusal, refusal = Refusal(tries[i], OfStore(Store(tries[i].by)) \ Lapsed(tries[i])),
         refusal # "none"
  PROVE  RatesHeld'
<1>1. PICK held : held = {j \in Holding : Store(tries[j].by) = Store(tries[i].by)}
  OBVIOUS
<1>2. PICK taken : taken = OfStore(Store(tries[i].by)) \ Lapsed(tries[i])
  OBVIOUS
<1>3. PICK call : call = [tries[i] EXCEPT !.at = refusal, !.since = 0, !.busy = Cardinality(held)]
  OBVIOUS
<1>4. /\ keeper' = keeper /\ ahead' = ahead /\ tick' = tick /\ counters' = counters
      /\ vacated' = vacated /\ places' = places \ Lapsed(tries[i])
      /\ tries[i].at = "asked" /\ tries \in Seq(Try) /\ tries[i] \in Try
  BY HeldFacts, TryType DEF Acquires, RatesTyped
<1>5. tries' = [tries EXCEPT ![i] = call]
  BY <1>1, <1>3 DEF Acquires
<1>6. /\ Cardinality(taken) \in Nat /\ Cardinality(held) \in Nat
      /\ Cardinality(taken) <= Cardinality(held)
  <2>1. taken \subseteq OfStore(Store(tries[i].by))
    BY <1>2
  <2>2. QED
    BY <1>1, <2>1, LeasesHolding, HeldFacts
<1>7. ASSUME NEW what \in Members \cup {"org", "tokens"}
      PROVE  /\ Key(tries[i], what) \in Keys
             /\ Count(Key(tries[i], what)) = Due(Key(tries[i], what))
             /\ Due(Key(tries[i], what)) \in Nat
  BY <1>4, CountIsDue, HeldFacts, DueType DEF Due, RatesTyped
<1>8. tries[i].who \in Members /\ tries[i].size \in Nat
  BY TryType, HeldFacts
<1>9. /\ refusal \in {"organization", "principal", "tokens", "concurrency"}
      /\ refusal = "organization" => Due(Key(tries[i], "org")) >= PerWindow
      /\ refusal = "principal" => Due(Key(tries[i], tries[i].who)) >= PerMember
      /\ refusal = "tokens" => Due(Key(tries[i], "tokens")) + tries[i].size > PerTokens
      /\ refusal = "concurrency" => Cardinality(taken) >= Places
  BY <1>2, <1>6, <1>7, <1>8, RefusalSays
<1>10. call \in Try /\ call.at = refusal /\ call.busy = Cardinality(held) /\ SameCall(tries[i], call)
  BY <1>3, <1>4, <1>6, <1>9 DEF Try, SameCall
<1>11. /\ tries' \in Seq(Try) /\ DOMAIN tries' = DOMAIN tries /\ tries'[i] = call
       /\ \A j \in DOMAIN tries : j # i => tries'[j] = tries[j]
  BY <1>4, <1>5, <1>10
<1>12. RatesTyped'
  BY <1>4, <1>11, FewerLeases, HeldFacts DEF RatesTyped
<1>13. Timely'
  <2>1. ASSUME NEW j \in DOMAIN tries
        PROVE  TimelyTry(tries[j])'
    BY <1>4, <1>9, <1>10, <1>11, HeldFacts DEF Timely, TimelyTry
  <2>2. QED
    BY <1>11, <2>1 DEF Timely
<1>14. ASSUME NEW key \in Keys
       PROVE  Due(key)' = Due(key)
  <2>1. \A j \in DOMAIN tries :
           /\ SameCall(tries[j], tries'[j])
           /\ tries'[j].at \in {"held", "over"} <=> tries[j].at \in {"held", "over"}
    BY <1>4, <1>9, <1>10, <1>11 DEF SameCall
  <2>2. QED
    BY <1>4, <1>11, <1>12, <2>1, DueKept, HeldFacts
<1>15. CountersTell' /\ WindowsBounded'
  BY <1>4, <1>14, UncountedKeep, HeldFacts
<1>16. Refusals'
  <2>1. ASSUME NEW key \in Keys
        PROVE  Due(key)' >= Due(key)
    BY <1>14, HeldFacts, DueType DEF Due, RatesTyped
  <2>2. ASSUME NEW j \in DOMAIN tries, j # i
        PROVE  RefusedFor(tries[j])'
    BY <1>4, <1>11, <1>12, <2>1, <2>2, RefusalStays, HeldFacts DEF Refusals
  <2>3. RefusedFor(tries[i])'
    <3>1. ASSUME NEW what \in Members \cup {"org", "tokens"}
          PROVE  Due(Key(tries[i], what))' = Due(Key(tries[i], what))
      <4>1. PICK key : key = Key(tries[i], what)
        OBVIOUS
      <4>2. Key(tries[i], what)' = key
        BY <1>4, <1>10, <1>11, <4>1 DEF Key, Store, InWindow, SameCall
      <4>3. Due(Key(tries[i], what))' = Due(key)'
        BY <4>2 DEF Due
      <4>4. QED
        BY <1>7, <1>14, <4>1, <4>3
    <3>2. PICK who : who = tries[i].who /\ who \in Members /\ who = tries'[i].who
      BY <1>8, <1>10, <1>11 DEF SameCall
    <3>3. Due(Key(tries[i], tries[i].who))' = Due(Key(tries[i], tries[i].who))
      <4>1. Due(Key(tries[i], who))' = Due(Key(tries[i], who))
        BY <3>1, <3>2
      <4>2. Key(tries[i], tries[i].who)' = Key(tries[i], who)' /\ Key(tries[i], tries[i].who) = Key(tries[i], who)
        BY <3>2 DEF Key
      <4>3. QED
        BY <4>1, <4>2 DEF Due
    <3>4. /\ Due(Key(tries[i], "org"))' = Due(Key(tries[i], "org"))
          /\ Due(Key(tries[i], "tokens"))' = Due(Key(tries[i], "tokens"))
      BY <3>1
    <3>5. /\ tries'[i].at = refusal /\ tries'[i].busy = Cardinality(held)
          /\ tries'[i].size = tries[i].size
      BY <1>10, <1>11 DEF SameCall
    <3>6. refusal = "concurrency" => Cardinality(held) >= Places
      BY <1>6, <1>9, RateNumbers
    <3>7. QED
      BY <1>9, <3>3, <3>4, <3>5, <3>6 DEF RefusedFor
  <2>4. QED
    BY <1>11, <2>2, <2>3 DEF Refusals
<1>17. Holding' = Holding /\ i \notin Holding
  BY <1>4, <1>9, <1>10, <1>11 DEF Holding
<1>18. /\ \A lease \in places : LeaseOwned(lease)'
       /\ \A j \in Holding :
            tick' < tries'[j].since + LeaseLength - Spread => \E lease \in places' : lease.try = j
  BY <1>4, <1>11, LapsedGone
<1>19. LeasesOwn'
  BY <1>4, <1>18, FewerLeases, HeldFacts DEF LeasesOwn
<1>20. Leases'
  <2>1. ASSUME NEW j \in Holding
        PROVE  StillLeased(j)'
    <3>1. StillLeased(j) /\ tries'[j] = tries[j]
      BY <1>11, <1>17, HeldFacts DEF Holding, Leases
    <3>2. QED
      BY <1>4, <1>18, <3>1 DEF StillLeased, Store
  <2>2. QED
    BY <1>4, <1>17, <2>1, HeldFacts DEF Leases
<1>21. QED
  BY <1>12, <1>13, <1>15, <1>16, <1>19, <1>20 DEF RatesHeld

LEMMA GrantedKeeps ==
  ASSUME RatesHeld, NEW i \in DOMAIN tries, Acquires(i),
         Refusal(tries[i], OfStore(Store(tries[i].by)) \ Lapsed(tries[i])) = "none"
  PROVE  RatesHeld'
<1>1. PICK store \in Stores : store = Store(tries[i].by)
  BY TryType, HeldFacts
<1>2. PICK taken : taken = OfStore(store) \ Lapsed(tries[i])
  OBVIOUS
<1>3. PICK call : call = [tries[i] EXCEPT !.at = "held", !.since = tick]
  OBVIOUS
<1>4. PICK lease : lease = [store |-> store, try |-> i, until |-> LeaseLength +
                     IF keeper = "redis" THEN tries[i].seen ELSE tick + ahead[tries[i].by]]
  OBVIOUS
<1>5. /\ keeper' = keeper /\ ahead' = ahead /\ tick' = tick
      /\ counters' = Counted(tries[i])
      /\ places' = (places \ Lapsed(tries[i])) \cup {lease}
      /\ vacated' = IF keeper = "redis" THEN [vacated EXCEPT !["shared"] = tick + LeaseLength]
                    ELSE vacated
      /\ tries' = [tries EXCEPT ![i] = call]
      /\ tries[i].at = "asked" /\ tries \in Seq(Try) /\ tries[i] \in Try
  BY <1>1, <1>3, <1>4, HeldFacts, TryType DEF Acquires, RatesTyped, Clock
<1>6. /\ tries[i].who \in Members /\ tries[i].size \in Nat /\ tries[i].seen \in Nat
      /\ tries[i].since \in Nat /\ tick \in Nat /\ i \in Nat
      /\ ahead[tries[i].by] \in Offsets /\ ahead[tries[i].by] \in Nat
      /\ keeper \in {"redis", "memory"}
  BY TryType, HeldFacts DEF RatesTyped
<1>7. call \in Try /\ call.at = "held" /\ call.since = tick /\ SameCall(tries[i], call)
  BY <1>3, <1>5, <1>6 DEF Try, SameCall
<1>8. /\ tries' \in Seq(Try) /\ DOMAIN tries' = DOMAIN tries /\ tries'[i] = call
      /\ \A j \in DOMAIN tries : j # i => tries'[j] = tries[j]
  BY <1>5, <1>7
<1>9. ASSUME NEW what \in Members \cup {"org", "tokens"}
      PROVE  /\ Key(tries[i], what) \in Keys
             /\ Count(Key(tries[i], what)) = Due(Key(tries[i], what))
             /\ Due(Key(tries[i], what)) \in Nat
  BY <1>5, CountIsDue, HeldFacts, DueType DEF Due, RatesTyped
<1>10. /\ IsFiniteSet(taken) /\ Cardinality(taken) \in Nat
       /\ taken \subseteq OfStore(store)
  BY <1>2, LeasesHolding, HeldFacts
<1>11. /\ Due(Key(tries[i], "org")) < PerWindow
       /\ Due(Key(tries[i], tries[i].who)) < PerMember
       /\ Due(Key(tries[i], "tokens")) + tries[i].size <= PerTokens
       /\ Cardinality(taken) < Places
  BY <1>1, <1>2, <1>6, <1>9, <1>10, RefusalSays
<1>12. ASSUME NEW key \in DOMAIN Added(tries[i])
       PROVE  /\ key \in Keys /\ Count(key) = Due(key) /\ Due(key) \in Nat
              /\ Added(tries[i])[key] \in Nat /\ Due(key) + Added(tries[i])[key] <= Limit(key)
              /\ key[3] = InWindow(tries[i])
  <2>1. CASE key = Key(tries[i], "org")
    <3>1. key[2] = "org" /\ key[3] = InWindow(tries[i]) /\ Added(tries[i])[key] = 1 /\ Limit(key) = PerWindow
      BY <2>1 DEF Added, Key, Limit
    <3>2. QED
      BY <1>9, <1>11, <2>1, <3>1, RateNumbers
  <2>2. CASE key = Key(tries[i], "tokens")
    <3>1. /\ key[2] = "tokens" /\ key[3] = InWindow(tries[i])
          /\ Added(tries[i])[key] = tries[i].size /\ Limit(key) = PerTokens
      BY <2>2 DEF Added, Key, Limit
    <3>2. QED
      BY <1>6, <1>9, <1>11, <2>2, <3>1, RateNumbers
  <2>3. CASE key = Key(tries[i], tries[i].who)
    <3>1. /\ key[2] = tries[i].who /\ key[3] = InWindow(tries[i])
          /\ Added(tries[i])[key] = 1 /\ Limit(key) = PerMember
      BY <1>6, <2>3, RateNumbers DEF Added, Key, Limit
    <3>2. QED
      BY <1>6, <1>9, <1>11, <2>3, <3>1, RateNumbers
  <2>4. QED
    BY <2>1, <2>2, <2>3 DEF Added
<1>13. /\ DOMAIN counters' = DOMAIN counters \cup DOMAIN Added(tries[i])
       /\ \A key \in DOMAIN counters : key \notin DOMAIN Added(tries[i]) => counters'[key] = counters[key]
       /\ \A key \in DOMAIN Added(tries[i]) :
            /\ counters'[key].n = Count(key) + Added(tries[i])[key]
            /\ key \in DOMAIN counters => counters'[key].until = counters[key].until
            /\ key \notin DOMAIN counters => counters'[key].until = Expiry
            /\ counters'[key] = [n |-> counters'[key].n, until |-> counters'[key].until]
  BY <1>5 DEF Counted
<1>14. Expiry \in Nat
  BY <1>6, RateNumbers DEF Expiry
<1>15. lease \in Lease
  <2>1. LeaseLength + tries[i].seen \in Nat /\ LeaseLength + (tick + ahead[tries[i].by]) \in Nat
    BY <1>6, RateNumbers
  <2>2. QED
    BY <1>4, <1>6, <2>1 DEF Lease
<1>16. RatesTyped'
  <2>1. ASSUME NEW key \in DOMAIN counters'
        PROVE  key \in Keys /\ counters'[key] \in Tally
    <3>1. CASE key \notin DOMAIN Added(tries[i])
      BY <1>13, <3>1, HeldFacts DEF RatesTyped
    <3>2. CASE key \in DOMAIN Added(tries[i])
      <4>1. key \in DOMAIN counters => counters[key].until \in Nat
        BY HeldFacts DEF RatesTyped, Tally
      <4>2. counters'[key].n \in Nat /\ counters'[key].until \in Nat
        BY <1>12, <1>13, <1>14, <3>2, <4>1
      <4>3. QED
        BY <1>12, <1>13, <3>2, <4>2 DEF Tally
    <3>3. QED
      BY <3>1, <3>2
  <2>2. counters' \in [DOMAIN counters' -> Tally]
    <3>1. counters' = [key \in DOMAIN counters' |-> counters'[key]]
      BY <1>5 DEF Counted
    <3>2. QED
      BY <2>1, <3>1
  <2>3. places' \subseteq Lease /\ IsFiniteSet(places')
    <3>1. places \ Lapsed(tries[i]) \subseteq Lease /\ IsFiniteSet(places \ Lapsed(tries[i]))
      BY FS_Subset, HeldFacts DEF RatesTyped
    <3>2. QED
      BY <1>5, <1>15, <3>1, FS_AddElement
  <2>4. vacated' \in [Stores -> Nat]
    <3>1. tick + LeaseLength \in Nat
      BY <1>6, RateNumbers
    <3>2. QED
      BY <1>5, <3>1, HeldFacts DEF RatesTyped
  <2>5. QED
    BY <1>5, <1>8, <2>1, <2>2, <2>3, <2>4, HeldFacts DEF RatesTyped
<1>17. Timely'
  <2>1. TimelyTry(tries[i])'
    <3>1. /\ tries[i].since <= tick /\ tick <= tries[i].since + Patience
          /\ tries[i].seen = tries[i].since + ahead[tries[i].by]
      BY <1>5, HeldFacts DEF Timely, TimelyTry
    <3>2. /\ tries'[i].at = "held" /\ tries'[i].since = tick /\ tries'[i].seen = tries[i].seen
          /\ tries'[i].by = tries[i].by
      BY <1>7, <1>8 DEF SameCall
    <3>3. tries[i].seen <= tick + ahead[tries[i].by] /\ tick + ahead[tries[i].by] <= tries[i].seen + Patience
      BY <1>6, <3>1, RateNumbers
    <3>4. QED
      BY <1>5, <1>6, <3>2, <3>3 DEF TimelyTry
  <2>2. ASSUME NEW j \in DOMAIN tries, j # i
        PROVE  TimelyTry(tries[j])'
    BY <1>5, <1>8, <2>2, HeldFacts DEF Timely, TimelyTry
  <2>3. QED
    BY <1>8, <2>1, <2>2 DEF Timely
<1>18. ASSUME NEW key \in Keys
       PROVE  /\ Due(key)' = Due(key) + IF key \in DOMAIN Added(tries[i]) THEN Added(tries[i])[key] ELSE 0
              /\ Due(key) \in Nat /\ Due(key)' \in Nat
  BY <1>5, <1>7, <1>8, <1>16, DueGrown, HeldFacts, DueType DEF Due, RatesTyped
<1>19. CountersTell'
  <2>1. ASSUME NEW key \in Keys, key \in DOMAIN counters'
        PROVE  /\ counters[key].n' = Due(key)'
               /\ keeper' = "memory" => counters[key].until' = Never
               /\ keeper' = "redis" => \E seen \in Nat, a \in Offsets :
                      /\ seen \div WindowLength = key[3]
                      /\ counters[key].until' + a >= seen + WindowLength + Grace
    <3>1. CASE key \notin DOMAIN Added(tries[i])
      <4>1. key \in DOMAIN counters /\ counters'[key] = counters[key] /\ Due(key)' = Due(key)
        BY <1>13, <1>18, <2>1, <3>1
      <4>2. QED
        BY <1>5, <4>1, HeldFacts DEF CountersTell
    <3>2. CASE key \in DOMAIN Added(tries[i])
      <4>1. counters[key].n' = Due(key)'
        BY <1>12, <1>13, <1>18, <3>2
      <4>2. CASE key \in DOMAIN counters
        <5>1. counters'[key].until = counters[key].until
          BY <1>13, <3>2, <4>2
        <5>2. QED
          BY <1>5, <4>1, <4>2, <5>1, HeldFacts DEF CountersTell
      <4>3. CASE key \notin DOMAIN counters
        <5>1. counters'[key].until = Expiry
          BY <1>13, <3>2, <4>3
        <5>2. keeper = "memory" => counters'[key].until = Never
          BY <5>1 DEF Expiry
        <5>3. ASSUME keeper = "redis"
              PROVE  \E seen \in Nat, a \in Offsets :
                        /\ seen \div WindowLength = key[3]
                        /\ counters'[key].until + a >= seen + WindowLength + Grace
          <6>1. tries[i].seen <= tick + ahead[tries[i].by]
            BY <1>5, <1>6, HeldFacts DEF Timely, TimelyTry
          <6>2. counters'[key].until = tick + WindowLength + Grace
            BY <5>1, <5>3 DEF Expiry
          <6>3. (tick + WindowLength + Grace) + ahead[tries[i].by] >= tries[i].seen + WindowLength + Grace
            BY <1>6, <6>1, RateNumbers
          <6>4. tries[i].seen \div WindowLength = key[3]
            BY <1>12, <3>2 DEF InWindow
          <6>5. QED
            BY <1>6, <6>2, <6>3, <6>4
        <5>4. QED
          BY <1>5, <4>1, <5>2, <5>3
      <4>4. QED
        BY <4>2, <4>3
    <3>3. QED
      BY <3>1, <3>2
  <2>2. ASSUME NEW key \in Keys, key \notin DOMAIN counters'
        PROVE  Due(key)' = 0 \/ Over(key[3])'
    <3>1. key \notin DOMAIN counters /\ Due(key)' = Due(key)
      BY <1>13, <1>18, <2>2
    <3>2. Over(key[3]) => Over(key[3])'
      BY <1>5 DEF Over
    <3>3. QED
      BY <3>1, <3>2, HeldFacts DEF CountersTell
  <2>3. QED
    BY <2>1, <2>2 DEF CountersTell
<1>20. WindowsBounded'
  <2>1. ASSUME NEW key \in Keys
        PROVE  Due(key)' <= Limit(key)
    <3>1. CASE key \in DOMAIN Added(tries[i])
      BY <1>12, <1>18, <3>1
    <3>2. CASE key \notin DOMAIN Added(tries[i])
      BY <1>18, <3>2, HeldFacts DEF WindowsBounded
    <3>3. QED
      BY <3>1, <3>2
  <2>2. QED
    BY <2>1 DEF WindowsBounded, Limit
<1>21. Refusals'
  <2>1. ASSUME NEW key \in Keys
        PROVE  Due(key)' >= Due(key)
    <3>1. CASE key \in DOMAIN Added(tries[i])
      BY <1>12, <1>18, <3>1
    <3>2. CASE key \notin DOMAIN Added(tries[i])
      BY <1>18, <3>2
    <3>3. QED
      BY <3>1, <3>2
  <2>2. ASSUME NEW j \in DOMAIN tries, j # i
        PROVE  RefusedFor(tries[j])'
    BY <1>5, <1>8, <1>16, <2>1, <2>2, RefusalStays, HeldFacts DEF Refusals
  <2>3. RefusedFor(tries[i])'
    BY <1>7, <1>8 DEF RefusedFor
  <2>4. QED
    BY <1>8, <2>2, <2>3 DEF Refusals
<1>22. Holding' = Holding \cup {i} /\ i \notin Holding
  BY <1>5, <1>7, <1>8 DEF Holding
<1>23. /\ \A old \in places : LeaseOwned(old)'
       /\ \A j \in Holding :
            tick' < tries'[j].since + LeaseLength - Spread => \E old \in places' : old.try = j
  BY <1>5, <1>8, LapsedGone
<1>24. LeasesOwn'
  <2>1. LeaseOwned(lease)'
    <3>1. lease.try = i /\ lease.store = Store(tries[i].by)'
      BY <1>1, <1>4, <1>5, <1>7, <1>8 DEF Store, SameCall
    <3>2. lease.until = LeaseLength + IF keeper' = "redis" THEN tries'[i].seen
                                      ELSE tries'[i].since + ahead'[tries'[i].by]
      BY <1>4, <1>5, <1>7, <1>8 DEF SameCall
    <3>3. QED
      BY <1>22, <3>1, <3>2 DEF LeaseOwned
  <2>2. \A old \in places : old.try \in Holding
    BY HeldFacts DEF LeasesOwn, LeaseOwned
  <2>3. \A one, other \in places' : one.try = other.try => one = other
    <3>1. lease.try = i
      BY <1>4
    <3>2. QED
      BY <1>5, <1>22, <2>2, <3>1, HeldFacts DEF LeasesOwn
  <2>4. ASSUME NEW st \in Stores
        PROVE  Cardinality(OfStore(st))' <= Places
    <3>1. PICK B : B = OfStore(st)'
      OBVIOUS
    <3>2. CASE st = store
      <4>1. B = taken \cup {lease}
        <5>1. lease.store = store
          BY <1>4
        <5>2. QED
          BY <1>2, <1>5, <3>1, <3>2, <5>1 DEF OfStore
      <4>2. Cardinality(B) <= Cardinality(taken) + 1 /\ Cardinality(B) \in Nat
        <5>1. Cardinality(B) = IF lease \in taken THEN Cardinality(taken) ELSE Cardinality(taken) + 1
          BY <1>10, <4>1, FS_AddElement
        <5>2. QED
          BY <1>10, <5>1
      <4>3. Cardinality(B) <= Places
        BY <1>10, <1>11, <4>2, RateNumbers
      <4>4. QED
        BY <3>1, <4>3
    <3>3. CASE st # store
      <4>1. PICK A : A = OfStore(st)
        OBVIOUS
      <4>2. B \subseteq A
        <5>1. lease.store = store
          BY <1>4
        <5>2. QED
          BY <1>5, <3>1, <3>3, <4>1, <5>1 DEF OfStore
      <4>3. IsFiniteSet(A) /\ Cardinality(A) <= Places
        BY <4>1, FS_Subset, HeldFacts DEF OfStore, RatesTyped, LeasesOwn
      <4>4. Cardinality(B) <= Cardinality(A) /\ Cardinality(B) \in Nat /\ Cardinality(A) \in Nat
        BY <4>2, <4>3, FS_Subset, FS_CardinalityType
      <4>5. Cardinality(B) <= Places
        BY <4>3, <4>4, RateNumbers
      <4>6. QED
        BY <3>1, <4>5
    <3>4. QED
      BY <3>2, <3>3
  <2>5. QED
    BY <1>5, <1>23, <2>1, <2>3, <2>4 DEF LeasesOwn
<1>25. Leases'
  <2>1. keeper = "redis" => vacated'["shared"] = tick + LeaseLength
    BY <1>5, HeldFacts DEF RatesTyped, Stores
  <2>2. ASSUME NEW j \in Holding
        PROVE  StillLeased(j)'
    <3>1. StillLeased(j) /\ tries'[j] = tries[j] /\ tries[j].since <= tick /\ tries[j].since \in Nat
      BY <1>8, <1>22, HeldFacts, TryType DEF Holding, Leases, Timely, TimelyTry
    <3>2. keeper = "redis" => vacated'["shared"] >= tries[j].since + LeaseLength
      BY <1>6, <2>1, <3>1, RateNumbers
    <3>3. QED
      BY <1>5, <1>23, <3>1, <3>2 DEF StillLeased, Store
  <2>3. StillLeased(i)'
    <3>1. lease.try = i /\ lease \in places'
      BY <1>4, <1>5
    <3>2. tries'[i].since = tick /\ tries'[i].by = tries[i].by
      BY <1>7, <1>8 DEF SameCall
    <3>3. keeper = "redis" => vacated'["shared"] >= tick + LeaseLength
      BY <1>6, <2>1, RateNumbers
    <3>4. QED
      BY <1>5, <3>1, <3>2, <3>3 DEF StillLeased, Store
  <2>4. QED
    BY <1>5, <1>22, <2>2, <2>3, HeldFacts DEF Leases
<1>26. QED
  BY <1>16, <1>17, <1>19, <1>20, <1>21, <1>24, <1>25 DEF RatesHeld

LEMMA StepRatesHeld == RatesHeld /\ [NextRates]_rateVars => RatesHeld'
<1> SUFFICES ASSUME RatesHeld, [NextRates]_rateVars PROVE RatesHeld'
  OBVIOUS
<1>1. ASSUME NEW s \in Servers, NEW m \in Members, NEW size \in Sizes, Asks(s, m, size)
      PROVE  RatesHeld'
  BY <1>1, AsksKeep
<1>2. ASSUME NEW i \in DOMAIN tries, Acquires(i)
      PROVE  RatesHeld'
  <2>1. PICK refusal : refusal = Refusal(tries[i], OfStore(Store(tries[i].by)) \ Lapsed(tries[i]))
    OBVIOUS
  <2>2. CASE refusal = "none"
    BY <1>2, <2>1, <2>2, GrantedKeeps
  <2>3. CASE refusal # "none"
    BY <1>2, <2>1, <2>3, RefusedKeeps
  <2>4. QED
    BY <2>2, <2>3
<1>3. ASSUME NEW i \in DOMAIN tries, Releases(i)
      PROVE  RatesHeld'
  BY <1>3, ReleasesKeep
<1>4. ASSUME Passes
      PROVE  RatesHeld'
  BY <1>4, PassesKeep
<1>5. ASSUME UNCHANGED rateVars
      PROVE  RatesHeld'
  <2>1. /\ keeper' = keeper /\ ahead' = ahead /\ tick' = tick /\ counters' = counters
        /\ places' = places /\ vacated' = vacated /\ tries' = tries
    BY <1>5 DEF rateVars
  <2>2. RatesTyped' /\ Timely' /\ CountersTell' /\ WindowsBounded'
    BY <2>1, HeldFacts DEF RatesTyped, Timely, TimelyTry, CountersTell, WindowsBounded, Due, Over
  <2>3. Refusals'
    BY <2>1, HeldFacts DEF Refusals, RefusedFor, Due, Key, Store, InWindow
  <2>4. LeasesOwn' /\ Leases'
    BY <2>1, HeldFacts DEF LeasesOwn, LeaseOwned, OfStore, Leases, StillLeased, Holding, Store
  <2>5. QED
    BY <2>2, <2>3, <2>4 DEF RatesHeld
<1>6. QED
  BY <1>1, <1>2, <1>3, <1>4, <1>5 DEF NextRates

\* The inductive invariant of the limits holds in every state.
THEOREM RatesInvariant == RatesSpec => []RatesHeld
<1>1. InitRates => RatesHeld
  BY InitRatesHold
<1>2. RatesHeld /\ [NextRates]_rateVars => RatesHeld'
  BY StepRatesHeld
<1>3. QED
  BY <1>1, <1>2, PTL DEF RatesSpec

-----------------------------------------------------------------------------
(* What the invariant says of the limits.                                    *)

LEMMA CallsCounted ==
  ASSUME NEW store, NEW w
  PROVE  /\ Cardinality(CallsOf(store, w)) = Due(<<store, "org", w>>)
         /\ Tokens(CallsOf(store, w)) = Due(<<store, "tokens", w>>)
         /\ \A m \in Members :
              Cardinality({i \in CallsOf(store, w) : tries[i].who = m}) = Due(<<store, m, w>>)
<1>1. ASSUME NEW what
      PROVE  AdmittedOf(keeper, tries, <<store, what, w>>) = CallsOf(store, w)
  BY DEF AdmittedOf, CallsOf, Store, InWindow
<1>2. Cardinality(CallsOf(store, w)) = Due(<<store, "org", w>>)
  BY <1>1 DEF Due, DueOf
<1>3. Tokens(CallsOf(store, w)) = Due(<<store, "tokens", w>>)
  <2>1. PICK calls : calls = CallsOf(store, w)
    OBVIOUS
  <2>2. Tokens(calls) = SizesOf(tries, calls)
    BY DEF Tokens, SizesOf, MapThenSumSet, MapThenFoldSet
  <2>3. QED
    BY <1>1, <2>1, <2>2 DEF Due, DueOf
<1>4. ASSUME NEW m \in Members
      PROVE  Cardinality({i \in CallsOf(store, w) : tries[i].who = m}) = Due(<<store, m, w>>)
  BY <1>1, RateNumbers DEF Due, DueOf
<1>5. QED
  BY <1>2, <1>3, <1>4

LEMMA RatesAreKept == RatesHeld => RatesKept
<1> SUFFICES ASSUME RatesHeld, NEW store \in Stores, NEW w \in Windows
             PROVE  /\ Cardinality(CallsOf(store, w)) <= PerWindow
                    /\ Tokens(CallsOf(store, w)) <= PerTokens
                    /\ \A m \in Members :
                         Cardinality({i \in CallsOf(store, w) : tries[i].who = m}) <= PerMember
  BY DEF RatesKept
<1>1. w \in Nat
  BY TryType, HeldFacts DEF Windows
<1>2. ASSUME NEW what \in Members \cup {"org", "tokens"}
      PROVE  Due(<<store, what, w>>) <= Limit(<<store, what, w>>)
  BY <1>1, HeldFacts DEF WindowsBounded, Keys
<1>3. /\ Due(<<store, "org", w>>) <= PerWindow
      /\ Due(<<store, "tokens", w>>) <= PerTokens
      /\ \A m \in Members : Due(<<store, m, w>>) <= PerMember
  BY <1>2, RateNumbers DEF Limit
<1>4. QED
  BY <1>3, CallsCounted

LEMMA PlacesAreKept == RatesHeld => PlacesKept
<1> SUFFICES ASSUME RatesHeld, NEW store \in Stores,
                    NEW young, young = {i \in Holding : /\ Store(tries[i].by) = store
                                           /\ tick < tries[i].since + LeaseLength - Spread}
             PROVE  Cardinality(young) <= Places
  BY DEF PlacesKept
<1> DEFINE leases == OfStore(store)
<1>1. \A i \in young : \E lease \in places : lease.try = i /\ lease.store = store
  BY HeldFacts DEF Leases, StillLeased, LeasesOwn, LeaseOwned
<1>2. PICK f : f = [i \in young |-> CHOOSE lease \in leases : lease.try = i]
  OBVIOUS
<1>3. \A i \in young : f[i] \in leases /\ f[i].try = i
  BY <1>1, <1>2 DEF OfStore
<1>4. f \in Injection(young, leases)
  BY <1>2, <1>3 DEF Injection, IsInjective
<1>5. IsFiniteSet(leases) /\ Cardinality(leases) <= Places
  <2>1. leases \subseteq places
    BY DEF OfStore
  <2>2. QED
    BY <2>1, FS_Subset, HeldFacts DEF RatesTyped, LeasesOwn
<1>6. /\ Cardinality(young) <= Cardinality(leases)
      /\ Cardinality(young) \in Nat /\ Cardinality(leases) \in Nat
  BY <1>4, <1>5, FS_Injection, FS_CardinalityType
<1>7. QED
  BY <1>5, <1>6, RateNumbers

LEMMA RefusalsAreDue == RatesHeld => RefusedDuly
<1> SUFFICES ASSUME RatesHeld, NEW i \in DOMAIN tries,
                    NEW calls, calls = CallsOf(Store(tries[i].by), InWindow(tries[i]))
             PROVE  CASE tries[i].at = "organization" -> Cardinality(calls) >= PerWindow
                      [] tries[i].at = "principal"    ->
                           Cardinality({j \in calls : tries[j].who = tries[i].who}) >= PerMember
                      [] tries[i].at = "tokens"       -> Tokens(calls) + tries[i].size > PerTokens
                      [] tries[i].at = "concurrency"  -> tries[i].busy >= Places
                      [] OTHER                        -> TRUE
  BY DEF RefusedDuly
<1>1. RefusedFor(tries[i]) /\ tries[i].who \in Members
  BY HeldFacts, TryType DEF Refusals
<1>2. /\ Due(Key(tries[i], "org")) = Cardinality(calls)
      /\ Due(Key(tries[i], "tokens")) = Tokens(calls)
      /\ Due(Key(tries[i], tries[i].who)) = Cardinality({j \in calls : tries[j].who = tries[i].who})
  BY <1>1, CallsCounted DEF Key
<1>3. CASE tries[i].at = "organization"
  BY <1>1, <1>2, <1>3 DEF RefusedFor
<1>4. CASE tries[i].at = "principal"
  BY <1>1, <1>2, <1>4 DEF RefusedFor
<1>5. CASE tries[i].at = "tokens"
  BY <1>1, <1>2, <1>5 DEF RefusedFor
<1>6. CASE tries[i].at = "concurrency"
  BY <1>1, <1>6 DEF RefusedFor
<1>7. CASE tries[i].at \notin {"organization", "principal", "tokens", "concurrency"}
  BY <1>7
<1>8. QED
  BY <1>3, <1>4, <1>5, <1>6, <1>7

\* The limits on model calls are kept, whatever the clocks of the processes differ
\* by within the grace, and no call is refused that a limit leaves room for.
THEOREM LimitsAreKept == RatesSpec => []LimitsKept
<1>1. RatesHeld => LimitsKept
  BY RatesAreKept, PlacesAreKept, RefusalsAreDue DEF LimitsKept
<1>2. QED
  BY <1>1, RatesInvariant, PTL
=============================================================================
