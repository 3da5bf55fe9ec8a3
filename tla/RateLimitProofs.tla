-------------------------- MODULE RateLimitProofs --------------------------
(***************************************************************************)
(* Proofs about RateLimit: when a pass ends, only limited flows are        *)
(* policed, each at its own group's rate, and what Apply reports is so.    *)
(***************************************************************************)
EXTENDS RateLimit, FiniteSetTheorems, WellFoundedInduction, TLAPS

Limit == [rate : Nat, emails : SUBSET Client]
Codes == {"", Failed, LogUnavailable}

\* Every variable has its type.
TypeOK ==
    /\ targets \in [Group -> Target \cup {Unusable, Absent}]
    /\ client \in [Flow -> Client \cup {Nobody}] /\ routes \subseteq Dev /\ logErr \in BOOLEAN
    /\ hook \subseteq Dev /\ DOMAIN filters \subseteq Rule /\ filters \in [DOMAIN filters -> Index]
    /\ rate \in [Index -> Nat] /\ linger \subseteq Index
    /\ on \in BOOLEAN /\ clean \in BOOLEAN /\ applying \in BOOLEAN /\ touched \in BOOLEAN
    /\ limits \in [Group -> Limit] /\ code \in Codes /\ report \in [Group -> Codes]
    /\ books.hooks \subseteq Dev /\ books.actions \in [Group -> 0..MaxUsers]
    /\ books.rates \in [Index -> Nat] /\ books.orphans \subseteq Index
    /\ DOMAIN books.filters \subseteq Rule /\ books.filters \in [DOMAIN books.filters -> Index]
    /\ pc \in {"idle", "remove", "converge", "give_up"}
    /\ faults \in [FaultKind -> Nat]

\* The books are sound in themselves: an index belongs to one group, is in use or being
\* released, and every filter has one.
BooksSound ==
    /\ \A r \in DOMAIN books.filters :
          r.dev \in books.hooks /\ \E g \in Group : books.actions[g] = books.filters[r]
    /\ \A g, h \in Group : books.actions[g] = books.actions[h] /\ books.actions[g] # 0 => g = h
    /\ \A g \in Group : books.actions[g] \notin books.orphans

\* The kernel holds nothing the books do not know, and the rates they know.
KernelKnown ==
    /\ \A r \in DOMAIN filters : r \in DOMAIN books.filters /\ filters[r] = books.filters[r]
    /\ \A g \in Group : books.actions[g] # 0 => rate[books.actions[g]] = books.rates[books.actions[g]]

\* Both hold where the limiter counts as clean, but for the end of a failed batch.
LimitInv ==
    /\ TypeOK
    /\ clean /\ pc # "give_up" => BooksSound /\ KernelKnown
    /\ pc = "converge" => clean
    /\ pc = "give_up" => code = Failed
    /\ pc = "converge" /\ applying /\ ~touched => DOMAIN books.filters \subseteq DOMAIN filters

-----------------------------------------------------------------------------
(* Numbers and finite sets. *)

\* A set of numbers has a least one.
LEMMA Least ==
    ASSUME NEW T, T \subseteq Nat, T # {}
    PROVE  \E n \in T : \A m \in T : n <= m
<1> DEFINE R0 == OpToRel(<, Nat)
<1>1. IsWellFoundedOn(R0, Nat)
  BY NatLessThanWellFounded
<1>2. PICK n \in T : \A m \in T : ~ (<<m, n>> \in R0)
  BY <1>1, WFMin
<1>3. \A m, k \in Nat : m < k => <<m, k>> \in R0
  BY DEF OpToRel
<1> HIDE DEF R0
<1>4. \A m \in T : ~ (m < n)
  BY <1>2, <1>3
<1> QED BY <1>4

Before(S, n) == {x \in S : x < n}

\* How many of a set of numbers come before a number.
LEMMA BeforeIsFinite ==
    ASSUME NEW S, S \subseteq Nat, NEW n \in Nat
    PROVE  IsFiniteSet(Before(S, n)) /\ Cardinality(Before(S, n)) \in Nat
<1>1. \A x \in Before(S, n) : x <= n
  BY DEF Before
<1>2. Before(S, n) \in SUBSET Nat
  BY DEF Before
<1>3. IsFiniteSet(Before(S, n))
  BY <1>1, <1>2, FS_BoundedSetOfNaturals
<1> QED BY <1>3, FS_CardinalityType

\* More come before a greater one.
LEMMA BeforeGrows ==
    ASSUME NEW S, S \subseteq Nat, NEW m \in S, NEW n \in S, m < n
    PROVE  Cardinality(Before(S, m)) < Cardinality(Before(S, n))
<1>1. /\ IsFiniteSet(Before(S, n)) /\ Cardinality(Before(S, n)) \in Nat
      /\ Cardinality(Before(S, m)) \in Nat
  BY BeforeIsFinite
<1>2. Before(S, m) \in SUBSET Before(S, n)
  <2>1. \A x \in S : x < m => x < n
    OBVIOUS
  <2> QED BY <2>1 DEF Before
<1>3. m \in Before(S, n) /\ m \notin Before(S, m)
  BY DEF Before
<1>4. /\ Cardinality(Before(S, m)) <= Cardinality(Before(S, n))
      /\ Cardinality(Before(S, n)) = Cardinality(Before(S, m)) => Before(S, n) = Before(S, m)
  BY <1>1, <1>2, FS_Subset
<1> QED BY <1>1, <1>3, <1>4

\* A finite set of numbers has one that exactly k others come before, for every k less
\* than its size.
LEMMA Nth ==
    ASSUME NEW S, S \subseteq Nat, IsFiniteSet(S), NEW top \in Nat, \A x \in S : x < top,
           NEW k \in Nat, k < Cardinality(S)
    PROVE  \E x \in S : Cardinality(Before(S, x)) = k
<1> DEFINE T == {n \in Nat : Cardinality(Before(S, n)) > k}
<1>1. Before(S, top) = S
  BY DEF Before
<1>2. top \in T
  BY <1>1, BeforeIsFinite
<1>3. PICK n \in T : \A m \in T : n <= m
  BY <1>2, Least
<1>4. n \in Nat /\ Cardinality(Before(S, n)) > k
  BY <1>3
<1>5. n # 0
  <2>1. Before(S, 0) = {}
    <3>1. \A x \in S : ~ (x < 0)
      OBVIOUS
    <3> QED BY <3>1 DEF Before
  <2>2. Cardinality(Before(S, 0)) = 0
    BY <2>1, FS_EmptySet
  <2> QED BY <1>4, <2>2
<1>6. n - 1 \in Nat /\ n - 1 < n
  BY <1>4, <1>5
<1>7. IsFiniteSet(Before(S, n - 1)) /\ Cardinality(Before(S, n - 1)) \in Nat
  BY <1>6, BeforeIsFinite
<1>8. Cardinality(Before(S, n - 1)) <= k
  <2>1. n - 1 \notin T
    BY <1>3, <1>4, <1>6
  <2> QED BY <1>6, <1>7, <2>1
<1>9. CASE n - 1 \notin S
  <2>1. Before(S, n) = Before(S, n - 1)
    <3>1. \A x \in S : x < n <=> x < n - 1
      BY <1>4, <1>6, <1>9
    <3> QED BY <3>1 DEF Before
  <2> QED BY <1>4, <1>7, <1>8, <2>1
<1>10. CASE n - 1 \in S
  <2>1. Before(S, n) = Before(S, n - 1) \cup {n - 1}
    <3>1. \A x \in S : x < n <=> x < n - 1 \/ x = n - 1
      BY <1>4, <1>6
    <3> QED BY <1>10, <3>1 DEF Before
  <2>2. n - 1 \notin Before(S, n - 1)
    BY <1>6 DEF Before
  <2>3. Cardinality(Before(S, n)) = Cardinality(Before(S, n - 1)) + 1
    BY <1>7, <2>1, <2>2, FS_AddElement
  <2>4. Cardinality(Before(S, n - 1)) = k
    BY <1>4, <1>7, <1>8, <2>3
  <2> QED BY <1>10, <2>4
<1> QED BY <1>9, <1>10

-----------------------------------------------------------------------------
(* plan and assign. *)

Named(c) == {g \in Group : c \in limits[g].emails}
Lower(g, h) == limits[g].rate < limits[h].rate \/ (limits[g].rate = limits[h].rate /\ g < h)

\* The owner of a client is a group that names it.
LEMMA OwnerNames ==
    ASSUME TypeOK, NEW c
    PROVE  /\ Named(c) = {} => Owner(c) = 0
           /\ Named(c) # {} => Owner(c) \in Named(c)
           /\ Owner(c) # 0 => Owner(c) \in Limited
<1>1. Group \subseteq Nat \ {0} /\ \A g \in Group : limits[g].rate \in Nat
  BY LimitAssumption DEF TypeOK, Limit
<1>2. Named(c) = {} => Owner(c) = 0
  BY DEF Owner, Named
<1>3. ASSUME Named(c) # {} PROVE Owner(c) \in Named(c)
  <2> DEFINE T == {limits[g].rate : g \in Named(c)}
  <2>1. T \subseteq Nat /\ T # {}
    BY <1>1, <1>3 DEF Named
  <2>2. PICK low \in T : \A m \in T : low <= m
    BY <2>1, Least
  <2> DEFINE U == {g \in Named(c) : limits[g].rate = low}
  <2>3. U \subseteq Nat /\ U # {}
    BY <1>1, <2>2 DEF Named
  <2>4. PICK g \in U : \A h \in U : g <= h
    BY <2>3, Least
  <2>5. g \in Named(c) /\ \A h \in Named(c) \ {g} : Lower(g, h)
    <3> SUFFICES ASSUME NEW h \in Named(c), h # g PROVE Lower(g, h)
      BY <2>4
    <3>1. limits[g].rate = low /\ limits[h].rate \in T /\ low <= limits[h].rate /\ g \in Group /\ h \in Group
      BY <2>2, <2>4 DEF Named
    <3>2. CASE limits[h].rate = low
      <4>1. h \in U /\ g <= h /\ g \in Nat /\ h \in Nat
        BY <1>1, <2>4, <3>1, <3>2
      <4> QED BY <3>1, <3>2, <4>1 DEF Lower
    <3>3. CASE limits[h].rate # low
      <4>1. limits[h].rate \in Nat /\ low \in Nat
        BY <1>1, <3>1
      <4> QED BY <3>1, <3>3, <4>1 DEF Lower
    <3> QED BY <3>2, <3>3
  <2>6. Owner(c) = CHOOSE x \in Named(c) : \A h \in Named(c) \ {x} :
                       \/ limits[x].rate < limits[h].rate
                       \/ limits[x].rate = limits[h].rate /\ x < h
    BY <1>3 DEF Owner, Named
  <2>7. \E x \in Named(c) : \A h \in Named(c) \ {x} :
                       \/ limits[x].rate < limits[h].rate
                       \/ limits[x].rate = limits[h].rate /\ x < h
    BY <2>5 DEF Lower
  <2> QED BY <2>6, <2>7
<1>4. \A g \in Named(c) : g \in Limited
  BY DEF Named, Limited, NoLimit
<1> QED BY <1>2, <1>3, <1>4

index == assign(Busy)
Newcomers == {g \in Reached : books.actions[g] = 0}
Free == Index \ (Busy \cup Range(books.actions))

\* What assign gives a group.
LEMMA Assigned ==
    ASSUME TypeOK
    PROVE  /\ DOMAIN index = Group
           /\ \A g \in Group : g \notin Reached => index[g] = 0
           /\ \A g \in Reached : books.actions[g] # 0 => index[g] = books.actions[g]
           /\ \A g \in Newcomers :
                 \/ index[g] = 0 /\ ~\E i \in Free : Cardinality(Before(Newcomers, g)) = Cardinality(Before(Free, i))
                 \/ /\ index[g] \in Free
                    /\ Cardinality(Before(Newcomers, g)) = Cardinality(Before(Free, index[g]))
<1> DEFINE Takes(g, i) == Cardinality({h \in Newcomers : h < g}) = Cardinality({j \in Free : j < i})
           ix == [g \in Group |-> IF g \notin Reached THEN 0
                     ELSE IF g \notin Newcomers THEN books.actions[g]
                     ELSE IF \E i \in Free : Takes(g, i) THEN CHOOSE i \in Free : Takes(g, i) ELSE 0]
<1>1. index = ix
  BY DEF index, assign, Newcomers, Free
<1>2. Reached \subseteq Group
  BY DEF Reached, Limited
<1>3. ASSUME NEW g \in Newcomers
      PROVE  \/ ix[g] = 0 /\ ~\E i \in Free : Takes(g, i)
             \/ ix[g] \in Free /\ Takes(g, ix[g])
  <2>1. g \in Reached /\ g \in Group
    BY <1>2 DEF Newcomers
  <2>2. ix[g] = IF \E i \in Free : Takes(g, i) THEN CHOOSE i \in Free : Takes(g, i) ELSE 0
    BY <2>1
  <2> HIDE DEF Takes, ix
  <2> QED BY <2>2
<1>4. \A g, i : Takes(g, i) <=> Cardinality(Before(Newcomers, g)) = Cardinality(Before(Free, i))
  BY DEF Before
<1>5. \A g \in Group : g \notin Reached => ix[g] = 0
  OBVIOUS
<1>6. \A g \in Reached : books.actions[g] # 0 => ix[g] = books.actions[g]
  BY <1>2 DEF Newcomers
<1>7. DOMAIN ix = Group
  OBVIOUS
<1> HIDE DEF ix, Takes
<1> QED BY <1>1, <1>3, <1>4, <1>5, <1>6, <1>7

\* The indexes are in their range.
LEMMA IndexType ==
    ASSUME TypeOK
    PROVE  index \in [Group -> 0..MaxUsers] /\ \A g \in Group : index[g] # 0 => index[g] \in Index
<1>1. \A g \in Group : g \in Newcomers \/ g \notin Reached \/ (g \in Reached /\ books.actions[g] # 0)
  BY DEF Newcomers
<1>2. Free \subseteq Index /\ Index \subseteq 0..MaxUsers /\ 0 \in 0..MaxUsers
  BY LimitAssumption DEF Free, Index
<1>3. \A g \in Group : books.actions[g] \in 0..MaxUsers
  BY DEF TypeOK
<1>4. \A g \in Group : index[g] \in 0..MaxUsers
  BY <1>1, <1>2, <1>3, Assigned
<1>5. DOMAIN index = Group
  BY Assigned
<1>6. index = [g \in Group |-> index[g]]
  <2>1. index = [g \in DOMAIN index |-> index[g]]
    BY DEF index, assign
  <2> QED BY <1>5, <2>1
<1>7. \A i \in 0..MaxUsers : i # 0 => i \in Index
  BY LimitAssumption DEF Index
<1> QED BY <1>4, <1>6, <1>7

\* No two groups get one index, and none one that is in use or being released.
LEMMA IndexUnique ==
    ASSUME TypeOK, BooksSound
    PROVE  /\ \A g, h \in Group : index[g] = index[h] /\ index[g] # 0 => g = h
           /\ \A g \in Group : index[g] # 0 => index[g] \notin Busy
           /\ \A g, h \in Group : index[g] # 0 /\ index[g] = books.actions[h] => g = h
<1>0. Group \subseteq Nat /\ Newcomers \subseteq Group /\ DOMAIN books.actions = Group
  BY LimitAssumption DEF Newcomers, Reached, Limited, TypeOK
<1>1. \A g \in Group : index[g] # 0 =>
         \/ g \in Newcomers /\ index[g] \in Free
                /\ Cardinality(Before(Newcomers, g)) = Cardinality(Before(Free, index[g]))
         \/ g \notin Newcomers /\ index[g] = books.actions[g]
  <2>1. \A g \in Group : g \in Newcomers \/ g \notin Reached \/ (g \in Reached /\ books.actions[g] # 0)
    BY DEF Newcomers
  <2> QED BY <2>1, Assigned DEF Newcomers
<1>2. \A g, h \in Newcomers : Cardinality(Before(Newcomers, g)) = Cardinality(Before(Newcomers, h)) => g = h
  <2> SUFFICES ASSUME NEW g \in Newcomers, NEW h \in Newcomers, g # h,
                      Cardinality(Before(Newcomers, g)) = Cardinality(Before(Newcomers, h))
               PROVE  FALSE
    OBVIOUS
  <2>1. Newcomers \subseteq Nat /\ (g < h \/ h < g)
    BY <1>0
  <2>2. Cardinality(Before(Newcomers, g)) \in Nat
    BY <2>1, BeforeIsFinite
  <2>3. g < h => Cardinality(Before(Newcomers, g)) < Cardinality(Before(Newcomers, h))
    BY <2>1, BeforeGrows
  <2>4. h < g => Cardinality(Before(Newcomers, h)) < Cardinality(Before(Newcomers, g))
    BY <2>1, BeforeGrows
  <2> QED BY <2>1, <2>2, <2>3, <2>4
<1>3. \A g \in Group : books.actions[g] \in Range(books.actions)
  BY <1>0 DEF Range
<1>4. \A i \in Free : i \notin Busy /\ i \notin Range(books.actions)
  BY DEF Free
<1>5. \A g \in Group : books.actions[g] \notin Busy
  BY DEF BooksSound, Busy
<1>6. \A g, h \in Group : books.actions[g] = books.actions[h] /\ books.actions[g] # 0 => g = h
  BY DEF BooksSound
<1>7. \A g, h \in Group : index[g] = index[h] /\ index[g] # 0 => g = h
  <2> SUFFICES ASSUME NEW g \in Group, NEW h \in Group, index[g] = index[h], index[g] # 0 PROVE g = h
    OBVIOUS
  <2>1. CASE g \in Newcomers /\ h \in Newcomers
    BY <1>1, <1>2, <2>1
  <2>2. CASE g \notin Newcomers /\ h \notin Newcomers
    BY <1>1, <1>6, <2>2
  <2>3. CASE (g \in Newcomers) # (h \in Newcomers)
    BY <1>1, <1>3, <1>4, <2>3
  <2> QED BY <2>1, <2>2, <2>3
<1>8. \A g \in Group : index[g] # 0 => index[g] \notin Busy
  BY <1>1, <1>4, <1>5
<1>9. \A g, h \in Group : index[g] # 0 /\ index[g] = books.actions[h] => g = h
  BY <1>1, <1>3, <1>4, <1>6
<1> QED BY <1>7, <1>8, <1>9

\* While there is room, every group the plan comes to has an index.
LEMMA RoomForAll ==
    ASSUME TypeOK, Room
    PROVE  \A g \in Reached : index[g] # 0
<1> SUFFICES ASSUME NEW g \in Newcomers PROVE index[g] # 0
  BY Assigned DEF Newcomers
<1>1. Newcomers \subseteq Group /\ Group \subseteq Nat /\ IsFiniteSet(Group)
  BY LimitAssumption DEF Newcomers, Reached, Limited
<1>2. IsFiniteSet(Newcomers)
  BY <1>1, FS_Subset
<1>3. Free \subseteq Nat /\ (\A i \in Free : i < MaxUsers + 1 /\ i # 0) /\ MaxUsers + 1 \in Nat
  BY LimitAssumption DEF Free, Index
<1>4. IsFiniteSet(Free) /\ Cardinality(Free) \in Nat
  <2>1. \A i \in Free : i <= MaxUsers + 1
    BY <1>3
  <2>2. Free \in SUBSET Nat
    BY <1>3
  <2>3. IsFiniteSet(Free)
    BY <1>3, <2>1, <2>2, FS_BoundedSetOfNaturals
  <2> QED BY <2>3, FS_CardinalityType
<1>5. Cardinality(Newcomers) <= Cardinality(Free)
  BY DEF Room, Newcomers, Free
<1> DEFINE k == Cardinality(Before(Newcomers, g))
<1>6. k \in Nat /\ k < Cardinality(Newcomers) /\ Cardinality(Newcomers) \in Nat
  <2>1. k \in Nat /\ Cardinality(Newcomers) \in Nat
    BY <1>1, <1>2, BeforeIsFinite, FS_CardinalityType
  <2>2. Before(Newcomers, g) \in SUBSET Newcomers /\ g \notin Before(Newcomers, g)
    BY <1>1 DEF Before
  <2>3. /\ k <= Cardinality(Newcomers)
        /\ Cardinality(Newcomers) = k => Newcomers = Before(Newcomers, g)
    BY <1>2, <2>2, FS_Subset
  <2> QED BY <2>1, <2>2, <2>3
<1> HIDE DEF k
<1>7. k < Cardinality(Free)
  BY <1>4, <1>5, <1>6
<1>8. PICK i \in Free : Cardinality(Before(Free, i)) = k
  BY <1>3, <1>4, <1>6, <1>7, Nth
<1>9. index[g] \in Free
  BY <1>8, Assigned DEF k
<1> QED BY <1>3, <1>9

-----------------------------------------------------------------------------
(* The batch. *)

batch == Batch(plan)
At(r) == IF r \in DOMAIN plan THEN index[plan[r]] ELSE 0

\* There are finitely many rules.
LEMMA RulesFinite == IsFiniteSet(Rule)
<1> DEFINE f == [p \in Dev \X Flow |-> [dev |-> p[1], flow |-> p[2]]]
<1>1. IsFiniteSet(Dev \X Flow)
  BY LimitAssumption, FS_Product
<1>2. f \in [Dev \X Flow -> Rule]
  BY DEF Rule
<1>3. ASSUME NEW r \in Rule PROVE \E p \in Dev \X Flow : f[p] = r
  <2>1. <<r.dev, r.flow>> \in Dev \X Flow /\ r = [dev |-> r.dev, flow |-> r.flow]
    BY DEF Rule
  <2> QED BY <2>1
<1>4. f \in Surjection(Dev \X Flow, Rule)
  BY <1>2, <1>3 DEF Surjection
<1> QED BY <1>1, <1>4, FS_Surjection

\* A rule that is wanted has a group and a client, and none comes before itself.
LEMMA WantedFacts ==
    ASSUME TypeOK, NEW r \in Wanted
    PROVE  /\ GroupOf(r) \in Limited /\ GroupOf(r) \in Group /\ GroupOf(r) \in Nat
           /\ ~Precedes(r, r)
<1>1. r \in Rule /\ GroupOf(r) # 0 /\ r.flow \in Nat /\ r.dev \in Nat
  BY LimitAssumption DEF Wanted, Rule
<1>2. GroupOf(r) \in Named(client[r.flow]) /\ GroupOf(r) \in Limited
  BY <1>1, OwnerNames DEF GroupOf
<1>3. GroupOf(r) \in Group /\ client[r.flow] \in Nat
  <2>1. GroupOf(r) \in Group /\ client[r.flow] \in limits[GroupOf(r)].emails
    BY <1>2 DEF Named
  <2>2. limits[GroupOf(r)].emails \subseteq Client
    BY <2>1 DEF TypeOK, Limit
  <2> QED BY <2>1, <2>2, LimitAssumption
<1>4. GroupOf(r) \in Nat
  BY <1>3, LimitAssumption
<1>5. ~Precedes(r, r)
  BY <1>1, <1>3, <1>4 DEF Precedes
<1> QED BY <1>2, <1>3, <1>4, <1>5

\* Sets of wanted rules are finite, and counted in order of inclusion.
LEMMA WantedCounts ==
    ASSUME NEW S, NEW T, S \subseteq Wanted, T \subseteq S
    PROVE  /\ Cardinality(S) \in Nat /\ Cardinality(T) \in Nat
           /\ Cardinality(T) <= Cardinality(S)
           /\ T # S => Cardinality(T) < Cardinality(S)
<1>1. S \in SUBSET Rule /\ T \in SUBSET S
  BY DEF Wanted
<1>2. IsFiniteSet(S)
  BY <1>1, RulesFinite, FS_Subset
<1>3. IsFiniteSet(T) /\ Cardinality(T) <= Cardinality(S) /\ (Cardinality(S) = Cardinality(T) => S = T)
  BY <1>1, <1>2, FS_Subset
<1>4. Cardinality(S) \in Nat /\ Cardinality(T) \in Nat
  BY <1>2, <1>3, FS_CardinalityType
<1> QED BY <1>3, <1>4

\* What is planned is wanted, and its group one the plan comes to.
LEMMA PlanFacts ==
    ASSUME TypeOK
    PROVE  /\ DOMAIN plan \subseteq Rule
           /\ \A r \in DOMAIN plan : r \in Wanted /\ plan[r] = GroupOf(r) /\ plan[r] \in Reached /\ plan[r] \in Group
<1> DEFINE First(r) == {s \in Wanted : Precedes(s, r)}
<1>1. DOMAIN plan = {r \in Wanted : Cardinality(First(r)) < MaxFilters}
  BY DEF plan
<1>2. \A r \in DOMAIN plan : plan[r] = GroupOf(r)
  BY DEF plan
<1>3. ASSUME NEW r \in DOMAIN plan PROVE GroupOf(r) \in Reached /\ GroupOf(r) \in Group
  <2> DEFINE Lesser == {s \in Wanted : GroupOf(s) < GroupOf(r)}
  <2>1. First(r) \subseteq Wanted /\ Lesser \subseteq First(r)
    BY DEF Precedes
  <2>2. Cardinality(First(r)) < MaxFilters /\ r \in Wanted
    BY <1>1, <1>3
  <2> HIDE DEF First
  <2>3. Cardinality(Lesser) <= MaxFilters
    <3> HIDE DEF Lesser
    <3>1. Cardinality(First(r)) \in Nat /\ Cardinality(Lesser) \in Nat
          /\ Cardinality(Lesser) <= Cardinality(First(r))
      BY <2>1, WantedCounts
    <3> QED BY <2>2, <3>1, LimitAssumption
  <2> QED BY <2>2, <2>3, WantedFacts DEF Reached
<1>4. Wanted \subseteq Rule
  BY DEF Wanted
<1> HIDE DEF plan
<1> QED BY <1>1, <1>2, <1>3, <1>4

\* While they fit, all the flows of a group are planned.
LEMMA FlowsFit ==
    ASSUME TypeOK, NEW r \in Wanted, Fits(GroupOf(r))
    PROVE  r \in DOMAIN plan
<1> DEFINE first == {s \in Wanted : Precedes(s, r)}
           most == {s \in Wanted : GroupOf(s) <= GroupOf(r)}
<1>1. \A s \in Wanted : GroupOf(s) \in Nat
  BY WantedFacts
<1>2. first \subseteq most /\ most \subseteq Wanted
  BY <1>1 DEF Precedes
<1>3. r \in most /\ r \notin first
  BY <1>1, WantedFacts
<1>4. Cardinality(most) <= MaxFilters
  BY DEF Fits
<1>5. DOMAIN plan = {x \in Wanted : Cardinality({s \in Wanted : Precedes(s, x)}) < MaxFilters}
  BY DEF plan
<1>6. Cardinality(first) < MaxFilters
  <2> HIDE DEF first, most
  <2>1. Cardinality(first) < Cardinality(most) /\ Cardinality(first) \in Nat /\ Cardinality(most) \in Nat
    BY <1>2, <1>3, WantedCounts
  <2> QED BY <1>4, <2>1, LimitAssumption
<1> QED BY <1>5, <1>6

LEMMA BatchFacts ==
    /\ batch.index = index
    /\ batch.devs = {r.dev : r \in {x \in DOMAIN plan : At(x) # 0}}
    /\ batch.changed = {g \in Group : index[g] # 0 /\ (\/ books.actions[g] # index[g]
                                                       \/ books.rates[index[g]] # limits[g].rate)}
    /\ batch.dels = {r \in DOMAIN books.filters : At(r) # books.filters[r]}
    /\ batch.adds = {r \in DOMAIN plan :
                       At(r) # 0 /\ ~(r \in DOMAIN books.filters /\ books.filters[r] = At(r))}
BY DEF batch, Batch, index, At

\* What is added has an index of the batch.
LEMMA AddsFacts ==
    ASSUME TypeOK
    PROVE  /\ batch.adds \subseteq DOMAIN plan /\ batch.adds \subseteq Rule
           /\ \A r \in batch.adds : /\ At(r) = index[plan[r]] /\ index[plan[r]] \in Index
                                    /\ index[plan[r]] # 0 /\ r.dev \in batch.devs /\ plan[r] \in Group
           /\ batch.devs \subseteq Dev
<1>1. batch.adds \subseteq DOMAIN plan /\ DOMAIN plan \subseteq Rule
  BY BatchFacts, PlanFacts
<1>2. \A r \in batch.adds : At(r) = index[plan[r]] /\ index[plan[r]] # 0 /\ r.dev \in batch.devs
  BY <1>1, BatchFacts DEF At
<1>3. \A r \in batch.adds : plan[r] \in Group
  BY <1>1, PlanFacts
<1>4. \A r \in batch.adds : index[plan[r]] \in Index
  BY <1>2, <1>3, IndexType
<1>5. \A r \in Rule : r.dev \in Dev
  BY DEF Rule
<1>6. batch.devs \subseteq Dev
  BY <1>1, <1>5, BatchFacts
<1> QED BY <1>1, <1>2, <1>3, <1>4, <1>6

\* The kernel's filters after any part of the batch.
LEMMA ChangedType ==
    ASSUME TypeOK, NEW deleted, NEW added, added \subseteq batch.adds,
           filters' = Changed(plan, batch, deleted, added)
    PROVE  /\ DOMAIN filters' = (DOMAIN filters \ deleted) \cup added
           /\ \A r \in DOMAIN filters' : filters'[r] = IF r \in added THEN index[plan[r]] ELSE filters[r]
           /\ DOMAIN filters' \subseteq Rule /\ filters' \in [DOMAIN filters' -> Index]
<1> DEFINE D == (DOMAIN filters \ deleted) \cup added
<1>1. filters' = [r \in D |-> IF r \in added THEN index[plan[r]] ELSE filters[r]]
  BY BatchFacts DEF Changed
<1>2. D \subseteq Rule
  BY AddsFacts DEF TypeOK
<1>3. \A r \in D : (IF r \in added THEN index[plan[r]] ELSE filters[r]) \in Index
  BY AddsFacts DEF TypeOK
<1> HIDE DEF D
<1>4. DOMAIN filters' = D /\ filters' \in [D -> Index]
  BY <1>1, <1>3
<1> QED BY <1>1, <1>2, <1>4 DEF D

LEMMA PreparedType ==
    ASSUME TypeOK, NEW devs \in SUBSET batch.devs, NEW groups \in SUBSET batch.changed,
           Prepare(batch, devs, groups)
    PROVE  /\ rate' \in [Index -> Nat] /\ hook' \subseteq Dev
           /\ \A i \in Index : \/ \E g \in groups : index[g] = i /\ rate'[i] = limits[g].rate
                               \/ /\ ~\E g \in groups : index[g] = i
                                  /\ rate'[i] = IF i \in books.orphans \ Busy THEN 0 ELSE rate[i]
<1>1. rate' = [i \in Index |-> IF \E g \in groups : index[g] = i
                               THEN limits[CHOOSE g \in groups : index[g] = i].rate
                               ELSE IF i \in books.orphans \ Busy THEN 0 ELSE rate[i]]
  BY BatchFacts DEF Prepare
<1>2. hook' \subseteq Dev
  BY AddsFacts DEF Prepare, TypeOK
<1>3. groups \subseteq Group
  BY BatchFacts
<1>4. \A g \in Group : limits[g].rate \in Nat
  BY DEF TypeOK, Limit
<1>5. ASSUME NEW i \in Index
      PROVE  \/ \E g \in groups : index[g] = i /\ rate'[i] = limits[g].rate
             \/ /\ ~\E g \in groups : index[g] = i
                /\ rate'[i] = IF i \in books.orphans \ Busy THEN 0 ELSE rate[i]
  <2>1. CASE \E g \in groups : index[g] = i
    <3> DEFINE c == CHOOSE g \in groups : index[g] = i
    <3>1. c \in groups /\ index[c] = i
      BY <2>1
    <3>2. rate'[i] = limits[c].rate
      BY <1>1, <2>1
    <3> HIDE DEF c
    <3> QED BY <3>1, <3>2
  <2>2. CASE ~ \E g \in groups : index[g] = i
    BY <1>1, <2>2
  <2> QED BY <2>1, <2>2
<1>6. \A i \in Index : rate[i] \in Nat
  BY DEF TypeOK
<1>7. \A i \in Index : rate'[i] \in Nat
  BY <1>3, <1>4, <1>5, <1>6
<1>8. rate' \in [Index -> Nat]
  <2>1. rate' = [i \in Index |-> rate'[i]]
    BY <1>1
  <2> QED BY <1>7, <2>1
<1> QED BY <1>2, <1>5, <1>8

\* Each police action in use then has its group's rate: one that is not replaced had it.
LEMMA RatesRight ==
    ASSUME TypeOK, BooksSound, KernelKnown, NEW devs \in SUBSET batch.devs,
           Prepare(batch, devs, batch.changed)
    PROVE  \A g \in Group : index[g] # 0 => rate'[index[g]] = limits[g].rate
<1> SUFFICES ASSUME NEW g \in Group, index[g] # 0 PROVE rate'[index[g]] = limits[g].rate
  OBVIOUS
<1> DEFINE i == index[g]
<1>1. i \in Index
  BY IndexType
<1>2. \/ \E h \in batch.changed : index[h] = i /\ rate'[i] = limits[h].rate
      \/ /\ ~\E h \in batch.changed : index[h] = i
         /\ rate'[i] = IF i \in books.orphans \ Busy THEN 0 ELSE rate[i]
  <2> DEFINE groups == batch.changed
  <2>1. groups \in SUBSET batch.changed /\ Prepare(batch, devs, groups)
    OBVIOUS
  <2> HIDE DEF groups, i
  <2> QED BY <1>1, <2>1, PreparedType DEF groups
<1>3. \A h \in Group : index[h] = i => h = g
  BY IndexUnique
<1>4. batch.changed \subseteq Group
  BY BatchFacts
<1> HIDE DEF i
<1>5. CASE g \in batch.changed
  <2>1. \E h \in batch.changed : index[h] = i
    BY <1>5 DEF i
  <2> QED BY <1>2, <1>3, <1>4, <2>1 DEF i
<1>6. CASE g \notin batch.changed
  <2>1. books.actions[g] = i /\ books.rates[i] = limits[g].rate
    BY <1>6, BatchFacts DEF i
  <2>2. ~ \E h \in batch.changed : index[h] = i
    BY <1>3, <1>4, <1>6
  <2>3. i \notin books.orphans
    BY <2>1 DEF BooksSound
  <2>4. rate[i] = books.rates[i]
    BY <2>1 DEF KernelKnown, i
  <2>5. rate'[i] = rate[i]
    BY <1>2, <2>2, <2>3
  <2> QED BY <2>1, <2>4, <2>5 DEF i
<1> QED BY <1>5, <1>6

\* After the whole batch the kernel polices what the plan says, and only that.
LEMMA FiltersRight ==
    ASSUME TypeOK, BooksSound, KernelKnown, filters' = Changed(plan, batch, batch.dels, batch.adds)
    PROVE  \A r \in DOMAIN filters' : r \in DOMAIN plan /\ index[plan[r]] # 0 /\ filters'[r] = index[plan[r]]
<1> SUFFICES ASSUME NEW r \in DOMAIN filters'
             PROVE  r \in DOMAIN plan /\ index[plan[r]] # 0 /\ filters'[r] = index[plan[r]]
  OBVIOUS
<1>1. /\ r \in (DOMAIN filters \ batch.dels) \cup batch.adds
      /\ filters'[r] = IF r \in batch.adds THEN index[plan[r]] ELSE filters[r]
  <2> DEFINE deleted == batch.dels
             added == batch.adds
  <2>1. added \subseteq batch.adds /\ filters' = Changed(plan, batch, deleted, added)
    OBVIOUS
  <2> HIDE DEF deleted, added
  <2>2. /\ DOMAIN filters' = (DOMAIN filters \ deleted) \cup added
        /\ \A s \in DOMAIN filters' : filters'[s] = IF s \in added THEN index[plan[s]] ELSE filters[s]
    BY <2>1, ChangedType
  <2> QED BY <2>2 DEF deleted, added
<1>2. CASE r \in batch.adds
  BY <1>1, <1>2, AddsFacts
<1>3. CASE r \notin batch.adds
  <2>1. r \in DOMAIN filters /\ r \notin batch.dels /\ filters'[r] = filters[r]
    BY <1>1, <1>3
  <2>2. r \in DOMAIN books.filters /\ filters[r] = books.filters[r]
    BY <2>1 DEF KernelKnown
  <2>3. At(r) = books.filters[r]
    BY <2>1, <2>2, BatchFacts
  <2>4. books.filters[r] # 0
    <3>1. books.filters[r] \in Index
      BY <2>2 DEF TypeOK
    <3> QED BY <3>1, LimitAssumption DEF Index
  <2> QED BY <2>1, <2>2, <2>3, <2>4 DEF At
<1> QED BY <1>2, <1>3

-----------------------------------------------------------------------------
(* The whole batch, recorded in the books. *)

LEMMA OwnerUnchanged ==
    ASSUME limits' = limits
    PROVE  \A c : Owner(c)' = Owner(c)
BY DEF Owner

\* The books after the batch.
LEMMA Recorded ==
    ASSUME TypeOK, Converge
    PROVE  /\ books'.hooks = books.hooks \cup batch.devs /\ books'.actions = index
           /\ DOMAIN books'.filters = (DOMAIN books.filters \ batch.dels) \cup batch.adds
           /\ \A r \in DOMAIN books'.filters :
                 books'.filters[r] = IF r \in batch.adds THEN index[plan[r]] ELSE books.filters[r]
           /\ books'.orphans = Busy \cup {books.actions[g] : g \in
                                  {h \in Group : books.actions[h] \notin {0, index[h]}}}
           /\ DOMAIN books'.rates = Index /\ books'.rates \in [Index -> Nat]
           /\ \A i \in Index :
                 \/ \E g \in Group : index[g] = i /\ books'.rates[i] = limits[g].rate
                 \/ ~ \E g \in Group : index[g] = i
           /\ books'.filters = [r \in DOMAIN books'.filters |-> books'.filters[r]]
<1> DEFINE nr == [i \in Index |->
                    IF \E g \in Group : index[g] = i
                    THEN limits[CHOOSE g \in Group : index[g] = i].rate
                    ELSE IF i \in Range(books.actions) THEN 0 ELSE books.rates[i]]
           nf == [r \in (DOMAIN books.filters \ batch.dels) \cup batch.adds |->
                    IF r \in batch.adds THEN index[plan[r]] ELSE books.filters[r]]
           no == Busy \cup {books.actions[g] : g \in {h \in Group : books.actions[h] \notin {0, index[h]}}}
<1>1. books' = [hooks |-> books.hooks \cup batch.devs, actions |-> index, rates |-> nr,
                filters |-> nf, orphans |-> no]
  <2>1. books' = [hooks |-> books.hooks \cup batch.devs,
                  actions |-> batch.index,
                  rates |-> [i \in Index |->
                              IF \E g \in Group : batch.index[g] = i
                              THEN limits[CHOOSE g \in Group : batch.index[g] = i].rate
                              ELSE IF i \in Range(books.actions) THEN 0 ELSE books.rates[i]],
                  filters |-> [r \in (DOMAIN books.filters \ batch.dels) \cup batch.adds |->
                                IF r \in batch.adds THEN batch.index[plan[r]] ELSE books.filters[r]],
                  orphans |-> Busy \cup {books.actions[g] : g \in
                                {h \in Group : books.actions[h] \notin {0, batch.index[h]}}}]
    BY Zenon DEF Converge, batch
  <2>2. batch.index = index
    BY BatchFacts
  <2> QED BY <2>1, <2>2
<1>2. ASSUME NEW i \in Index
      PROVE  /\ nr[i] \in Nat
             /\ \/ \E g \in Group : index[g] = i /\ nr[i] = limits[g].rate
                \/ ~ \E g \in Group : index[g] = i
  <2>1. CASE \E g \in Group : index[g] = i
    <3> DEFINE c == CHOOSE g \in Group : index[g] = i
    <3>1. c \in Group /\ index[c] = i
      BY <2>1
    <3>2. nr[i] = limits[c].rate
      BY <2>1
    <3> HIDE DEF c
    <3>3. limits[c].rate \in Nat
      BY <3>1 DEF TypeOK, Limit
    <3> QED BY <3>1, <3>2, <3>3
  <2>2. CASE ~ \E g \in Group : index[g] = i
    <3>1. nr[i] = IF i \in Range(books.actions) THEN 0 ELSE books.rates[i]
      BY <2>2
    <3>2. books.rates[i] \in Nat
      BY DEF TypeOK
    <3> QED BY <2>2, <3>1, <3>2
  <2> QED BY <2>1, <2>2
<1>3. nr \in [Index -> Nat]
  BY <1>2
<1>4. /\ DOMAIN nf = (DOMAIN books.filters \ batch.dels) \cup batch.adds
      /\ \A r \in DOMAIN nf : nf[r] = IF r \in batch.adds THEN index[plan[r]] ELSE books.filters[r]
      /\ nf = [r \in DOMAIN nf |-> nf[r]]
  OBVIOUS
<1> HIDE DEF nr, nf, no
<1>5. /\ books'.hooks = books.hooks \cup batch.devs /\ books'.actions = index
      /\ books'.rates = nr /\ books'.filters = nf /\ books'.orphans = no
  BY <1>1
<1> QED BY <1>2, <1>3, <1>4, <1>5 DEF no

LEMMA ConvergeKeeps ==
    ASSUME LimitInv, Converge
    PROVE  LimitInv' /\ Rightful'
<1>1. /\ TypeOK /\ pc = "converge" /\ clean /\ BooksSound /\ KernelKnown
  BY DEF Converge, LimitInv
<1>2. /\ Prepare(batch, batch.devs \ books.hooks, batch.changed)
      /\ filters' = Changed(plan, batch, batch.dels, batch.adds)
      /\ linger' = linger \cup Released(filters')
      /\ Finish(FALSE, IF Limited # {} /\ logErr THEN LogUnavailable ELSE "")
      /\ UNCHANGED <<targets, client, routes, logErr, on, limits, clean, applying, touched, faults>>
  BY DEF Converge, batch, world
<1>3. /\ books'.hooks = books.hooks \cup batch.devs /\ books'.actions = index
      /\ DOMAIN books'.filters = (DOMAIN books.filters \ batch.dels) \cup batch.adds
      /\ \A r \in DOMAIN books'.filters :
            books'.filters[r] = IF r \in batch.adds THEN index[plan[r]] ELSE books.filters[r]
      /\ books'.orphans = Busy \cup {books.actions[g] : g \in
                             {h \in Group : books.actions[h] \notin {0, index[h]}}}
      /\ DOMAIN books'.rates = Index /\ books'.rates \in [Index -> Nat]
      /\ \A i \in Index :
            \/ \E g \in Group : index[g] = i /\ books'.rates[i] = limits[g].rate
            \/ ~ \E g \in Group : index[g] = i
      /\ books'.filters = [r \in DOMAIN books'.filters |-> books'.filters[r]]
  BY <1>1, Recorded
<1>4. /\ index \in [Group -> 0..MaxUsers] /\ \A g \in Group : index[g] # 0 => index[g] \in Index
  BY <1>1, IndexType
<1>5. /\ \A g, h \in Group : index[g] = index[h] /\ index[g] # 0 => g = h
      /\ \A g \in Group : index[g] # 0 => index[g] \notin Busy
      /\ \A g, h \in Group : index[g] # 0 /\ index[g] = books.actions[h] => g = h
  BY <1>1, IndexUnique
<1>6. \A g \in Group : index[g] # 0 => rate'[index[g]] = limits[g].rate
  <2> DEFINE devs == batch.devs \ books.hooks
  <2>1. devs \in SUBSET batch.devs /\ Prepare(batch, devs, batch.changed)
    BY <1>2
  <2> HIDE DEF devs
  <2> QED BY <1>1, <2>1, RatesRight
<1>7. \A r \in DOMAIN filters' : r \in DOMAIN plan /\ index[plan[r]] # 0 /\ filters'[r] = index[plan[r]]
  BY <1>1, <1>2, FiltersRight
<1>8. /\ DOMAIN filters' = (DOMAIN filters \ batch.dels) \cup batch.adds
      /\ \A r \in DOMAIN filters' : filters'[r] = IF r \in batch.adds THEN index[plan[r]] ELSE filters[r]
      /\ DOMAIN filters' \subseteq Rule /\ filters' \in [DOMAIN filters' -> Index]
  <2> DEFINE deleted == batch.dels
             added == batch.adds
  <2>1. added \subseteq batch.adds /\ filters' = Changed(plan, batch, deleted, added)
    BY <1>2
  <2> HIDE DEF deleted, added
  <2> QED BY <1>1, <2>1, ChangedType DEF deleted, added
<1>9. \A r \in DOMAIN filters' : r \in Rule /\ plan[r] = GroupOf(r) /\ plan[r] \in Group
  BY <1>1, <1>7, <1>8, PlanFacts
<1>10. Rightful'
  <2>1. ASSUME NEW r \in DOMAIN filters'
        PROVE  /\ GroupOf(r) # 0
               /\ rate'[filters'[r]] = limits[GroupOf(r)].rate
               /\ \A s \in DOMAIN filters' :
                     (filters'[s] = filters'[r]) <=> (GroupOf(s) = GroupOf(r))
    <3>1. GroupOf(r) # 0
      BY <1>9, LimitAssumption
    <3>2. rate'[filters'[r]] = limits[GroupOf(r)].rate
      BY <1>6, <1>7, <1>9
    <3>3. \A s \in DOMAIN filters' :
             (filters'[s] = filters'[r]) <=> (GroupOf(s) = GroupOf(r))
      BY <1>5, <1>7, <1>9
    <3> QED BY <3>1, <3>2, <3>3
  <2>2. \A c : Owner(c)' = Owner(c)
    BY <1>2, OwnerUnchanged
  <2> HIDE DEF Owner
  <2>3. client' = client /\ limits' = limits
    BY <1>2
  <2>4. \A r : GroupOf(r)' = GroupOf(r)
    BY <2>2, <2>3 DEF GroupOf
  <2> QED BY <2>1, <2>3, <2>4 DEF Rightful
<1>11. BooksSound'
  <2>1. \A r \in DOMAIN books'.filters :
          r.dev \in books'.hooks /\ \E g \in Group : books'.actions[g] = books'.filters[r]
    <3> SUFFICES ASSUME NEW r \in DOMAIN books'.filters
                 PROVE  r.dev \in books'.hooks /\ \E g \in Group : index[g] = books'.filters[r]
      BY <1>3
    <3>1. CASE r \in batch.adds
      BY <1>1, <1>3, <3>1, AddsFacts
    <3>2. CASE r \notin batch.adds
      <4>1. r \in DOMAIN books.filters /\ r \notin batch.dels /\ books'.filters[r] = books.filters[r]
        BY <1>3, <3>2
      <4>2. At(r) = books.filters[r] /\ r.dev \in books.hooks
        BY <1>1, <4>1, BatchFacts DEF BooksSound
      <4>3. books.filters[r] # 0
        <5>1. books.filters[r] \in Index
          BY <1>1, <4>1 DEF TypeOK
        <5> QED BY <5>1, LimitAssumption DEF Index
      <4>4. r \in DOMAIN plan /\ index[plan[r]] = books.filters[r] /\ plan[r] \in Group
        BY <1>1, <4>2, <4>3, PlanFacts DEF At
      <4> QED BY <1>3, <4>1, <4>2, <4>4
    <3> QED BY <3>1, <3>2
  <2>2. \A g \in Group : index[g] \notin books'.orphans
    <3> SUFFICES ASSUME NEW g \in Group, index[g] \in books'.orphans PROVE FALSE
      OBVIOUS
    <3>1. Busy \subseteq Index /\ 0 \notin Index
      BY <1>1, LimitAssumption DEF Busy, TypeOK, Index
    <3>2. CASE index[g] \in Busy
      BY <1>5, <3>1, <3>2
    <3>3. CASE \E h \in Group : books.actions[h] \notin {0, index[h]} /\ index[g] = books.actions[h]
      BY <1>5, <3>3
    <3> QED BY <1>3, <3>2, <3>3
  <2>3. \A g, h \in Group : books'.actions[g] = books'.actions[h] /\ books'.actions[g] # 0 => g = h
    BY <1>3, <1>5
  <2>4. \A g \in Group : books'.actions[g] \notin books'.orphans
    BY <1>3, <2>2
  <2> QED BY <2>1, <2>3, <2>4 DEF BooksSound
<1>12. KernelKnown'
  <2>1. \A r \in DOMAIN filters' : r \in DOMAIN books'.filters /\ filters'[r] = books'.filters[r]
    <3> SUFFICES ASSUME NEW r \in DOMAIN filters'
                 PROVE  r \in DOMAIN books'.filters /\ filters'[r] = books'.filters[r]
      OBVIOUS
    <3>1. CASE r \in batch.adds
      BY <1>3, <1>8, <3>1
    <3>2. CASE r \notin batch.adds
      <4>1. r \in DOMAIN filters /\ r \notin batch.dels /\ filters'[r] = filters[r]
        BY <1>8, <3>2
      <4>2. r \in DOMAIN books.filters /\ filters[r] = books.filters[r]
        BY <1>1, <4>1 DEF KernelKnown
      <4> QED BY <1>3, <3>2, <4>1, <4>2
    <3> QED BY <3>1, <3>2
  <2>2. \A g \in Group : index[g] # 0 => rate'[index[g]] = books'.rates[index[g]]
    <3> SUFFICES ASSUME NEW g \in Group, index[g] # 0 PROVE rate'[index[g]] = books'.rates[index[g]]
      OBVIOUS
    <3>1. PICK h \in Group : index[h] = index[g] /\ books'.rates[index[g]] = limits[h].rate
      BY <1>3, <1>4
    <3>2. h = g
      BY <1>5, <3>1
    <3> QED BY <1>6, <3>1, <3>2
  <2> QED BY <1>3, <2>1, <2>2 DEF KernelKnown
<1>13. TypeOK'
  <2>1. rate' \in [Index -> Nat] /\ hook' \subseteq Dev
    <3> DEFINE devs == batch.devs \ books.hooks
               groups == batch.changed
    <3>1. devs \in SUBSET batch.devs /\ groups \in SUBSET batch.changed /\ Prepare(batch, devs, groups)
      BY <1>2
    <3> HIDE DEF devs, groups
    <3> QED BY <1>1, <3>1, PreparedType
  <2>2. linger' \subseteq Index
    <3>1. Range(filters) \subseteq Index /\ linger \subseteq Index
      BY <1>1 DEF TypeOK, Range
    <3> QED BY <1>2, <3>1 DEF Released
  <2>3. code' \in Codes /\ report' \in [Group -> Codes] /\ pc' = "idle"
    <3>1. Failed \in Codes /\ LogUnavailable \in Codes /\ "" \in Codes
      BY DEF Codes
    <3>2. report \in [Group -> Codes]
      BY <1>1 DEF TypeOK
    <3> QED BY <1>2, <3>1, <3>2 DEF Finish
  <2>4. books'.hooks \subseteq Dev /\ books'.orphans \subseteq Index /\ books'.actions \in [Group -> 0..MaxUsers]
    <3>1. books'.hooks \subseteq Dev
      BY <1>1, <1>3, AddsFacts DEF TypeOK
    <3>2. \A h \in Group : books.actions[h] # 0 => books.actions[h] \in Index
      <4>1. \A i \in 0..MaxUsers : i # 0 => i \in Index
        BY LimitAssumption DEF Index
      <4> QED BY <1>1, <4>1 DEF TypeOK
    <3>3. Busy \subseteq Index
      BY <1>1 DEF Busy, TypeOK
    <3>4. books'.orphans \subseteq Index
      BY <1>3, <3>2, <3>3
    <3> QED BY <1>3, <1>4, <3>1, <3>4
  <2>5. DOMAIN books'.filters \subseteq Rule /\ books'.filters \in [DOMAIN books'.filters -> Index]
    <3>1. DOMAIN books'.filters \subseteq Rule
      BY <1>1, <1>3, AddsFacts DEF TypeOK
    <3>2. \A r \in DOMAIN books'.filters : books'.filters[r] \in Index
      BY <1>1, <1>3, AddsFacts DEF TypeOK
    <3> QED BY <1>3, <3>1, <3>2
  <2> QED BY <1>1, <1>2, <1>3, <1>8, <2>1, <2>2, <2>3, <2>4, <2>5 DEF TypeOK
<1>14. pc' = "idle"
  BY <1>2 DEF Finish
<1> QED BY <1>10, <1>11, <1>12, <1>13, <1>14 DEF LimitInv

-----------------------------------------------------------------------------
(* The other steps. *)

LEMMA FaultType ==
    ASSUME TypeOK, NEW k \in FaultKind, Fault(k)
    PROVE  faults' \in [FaultKind -> Nat] /\ faults'[k] = faults[k] + 1
BY DEF TypeOK, Fault

LEMMA TCType ==
    ASSUME TypeOK, NEW ok, TC(ok)
    PROVE  faults' \in [FaultKind -> Nat]
<1>1. "tc" \in FaultKind
  BY DEF FaultKind
<1> QED BY <1>1, FaultType DEF TC, TypeOK

LEMMA RestrictType ==
    ASSUME TypeOK, NEW rest, rest \subseteq DOMAIN filters, filters' = Restrict(filters, rest)
    PROVE  /\ DOMAIN filters' = rest /\ DOMAIN filters' \subseteq Rule /\ filters' \in [DOMAIN filters' -> Index]
           /\ \A r \in DOMAIN filters' : filters'[r] = filters[r]
<1>1. filters' = [r \in rest |-> filters[r]]
  BY DEF Restrict
<1>2. \A r \in rest : filters[r] \in Index
  BY DEF TypeOK
<1> QED BY <1>1, <1>2 DEF TypeOK

LEMMA ReleasedType ==
    ASSUME TypeOK, NEW new
    PROVE  linger \cup Released(new) \subseteq Index
<1>1. Range(filters) \subseteq Index /\ linger \subseteq Index
  BY DEF TypeOK, Range
<1> QED BY <1>1 DEF Released

\* What a cleanup leaves.
LEMMA CleanedType ==
    ASSUME TypeOK, NEW ok \in BOOLEAN, Cleanup(ok)
    PROVE  /\ DOMAIN filters' \subseteq Rule /\ filters' \in [DOMAIN filters' -> Index]
           /\ rate' \in [Index -> Nat] /\ linger' \subseteq Index /\ hook' \subseteq Dev
           /\ ok => DOMAIN filters' = {}
<1>1. CASE ok
  <2>1. filters' = [r \in {} |-> 0] /\ rate' = [i \in Index |-> 0] /\ linger' = {} /\ hook' = hook \cap Foreign
    BY <1>1 DEF Cleanup, NoRules
  <2> QED BY <2>1 DEF TypeOK
<1>2. CASE ~ok
  <2>1. PICK rest \in SUBSET DOMAIN filters : filters' = Restrict(filters, rest)
    BY <1>2 DEF Cleanup
  <2>2. DOMAIN filters' \subseteq Rule /\ filters' \in [DOMAIN filters' -> Index]
    BY <2>1, RestrictType
  <2>3. linger' \subseteq Index
    BY <1>2, ReleasedType DEF Cleanup
  <2>4. hook' \subseteq Dev
    BY <1>2 DEF Cleanup, TypeOK
  <2>5. rate' \in [Index -> Nat]
    <3>1. PICK gone : rate' = [i \in Index |-> IF i \in gone THEN 0 ELSE rate[i]]
      BY <1>2 DEF Cleanup
    <3>2. \A i \in Index : rate[i] \in Nat
      BY DEF TypeOK
    <3> QED BY <3>1, <3>2
  <2> QED BY <1>2, <2>2, <2>3, <2>4, <2>5
<1> QED BY <1>1, <1>2

\* Empty books know nothing, and are right about an empty kernel.
LEMMA EmptyBooks ==
    ASSUME books' = NewBooks
    PROVE  /\ books'.hooks \subseteq Dev /\ books'.actions \in [Group -> 0..MaxUsers]
           /\ books'.rates \in [Index -> Nat] /\ books'.orphans \subseteq Index
           /\ DOMAIN books'.filters \subseteq Rule /\ books'.filters \in [DOMAIN books'.filters -> Index]
           /\ DOMAIN books'.filters = {}
           /\ BooksSound'
           /\ DOMAIN filters' = {} => KernelKnown'
<1>1. /\ books'.hooks = {} /\ books'.actions = [g \in Group |-> 0] /\ books'.rates = [i \in Index |-> 0]
      /\ books'.filters = [r \in {} |-> 0] /\ books'.orphans = {}
  BY DEF NewBooks, NoRules
<1>2. 0 \in 0..MaxUsers
  BY LimitAssumption
<1>3. BooksSound'
  BY <1>1 DEF BooksSound
<1>4. DOMAIN filters' = {} => KernelKnown'
  BY <1>1 DEF KernelKnown
<1> QED BY <1>1, <1>2, <1>3, <1>4

\* A removal: the limiter counts as clean only when nothing remains.
LEMMA Removed ==
    ASSUME TypeOK, NEW ok \in BOOLEAN, TC(ok), removeAll(ok),
           UNCHANGED <<targets, client, routes, logErr, on, limits, applying, touched>>,
           code' \in Codes, report' \in [Group -> Codes],
           pc' \in {"idle", "converge"}, pc' = "converge" => ok
    PROVE  LimitInv' /\ (clean' => DOMAIN filters' = {}) /\ (clean' <=> ok)
<1>1. Cleanup(ok) /\ clean' = ok /\ books' = NewBooks
  BY DEF removeAll
<1>2. /\ DOMAIN filters' \subseteq Rule /\ filters' \in [DOMAIN filters' -> Index]
      /\ rate' \in [Index -> Nat] /\ linger' \subseteq Index /\ hook' \subseteq Dev
      /\ ok => DOMAIN filters' = {}
  BY <1>1, CleanedType
<1>3. /\ books'.hooks \subseteq Dev /\ books'.actions \in [Group -> 0..MaxUsers]
      /\ books'.rates \in [Index -> Nat] /\ books'.orphans \subseteq Index
      /\ DOMAIN books'.filters \subseteq Rule /\ books'.filters \in [DOMAIN books'.filters -> Index]
      /\ DOMAIN books'.filters = {} /\ BooksSound' /\ (DOMAIN filters' = {} => KernelKnown')
  BY <1>1, EmptyBooks
<1>4. faults' \in [FaultKind -> Nat]
  BY TCType
<1>5. TypeOK'
  BY <1>1, <1>2, <1>3, <1>4 DEF TypeOK
<1> QED BY <1>1, <1>2, <1>3, <1>5 DEF LimitInv

LEMMA FinishType ==
    ASSUME TypeOK, NEW error, NEW newCode \in Codes, Finish(error, newCode)
    PROVE  pc' = "idle" /\ code' \in Codes /\ report' \in [Group -> Codes]
<1>1. Failed \in Codes /\ "" \in Codes /\ report \in [Group -> Codes]
  BY DEF Codes, TypeOK
<1> QED BY <1>1 DEF Finish

LEMMA SyncRemovesKeeps ==
    ASSUME LimitInv, SyncRemoves
    PROVE  LimitInv' /\ (pc' = "idle" => ~clean' /\ (applying => \A g \in Group : report'[g] = Failed))
<1>1. TypeOK
  BY DEF LimitInv
<1>2. PICK ok \in BOOLEAN : /\ TC(ok) /\ removeAll(ok)
                            /\ IF ok THEN pc' = "converge" /\ UNCHANGED <<code, report>>
                                     ELSE Finish(TRUE, Failed)
  BY DEF SyncRemoves
<1>3. UNCHANGED <<targets, client, routes, logErr, on, limits, applying, touched>>
  BY DEF SyncRemoves, world
<1>4. Failed \in Codes
  BY DEF Codes
<1>5. /\ code' \in Codes /\ report' \in [Group -> Codes]
      /\ (ok /\ pc' = "converge") \/ (~ok /\ pc' = "idle" /\ Finish(TRUE, Failed))
  BY <1>1, <1>2, <1>4, FinishType DEF TypeOK
<1>6. LimitInv' /\ (clean' <=> ok)
  BY <1>1, <1>2, <1>3, <1>5, Removed
<1>7. ~ok /\ applying => \A g \in Group : report'[g] = Failed
  BY <1>5 DEF Finish
<1> QED BY <1>5, <1>6, <1>7

LEMMA GiveUpKeeps ==
    ASSUME LimitInv, GiveUp
    PROVE  /\ LimitInv' /\ (clean' => DOMAIN filters' = {})
           /\ applying => \A g \in Group : report'[g] = "" => clean' /\ limits[g] = NoLimit
<1>1. TypeOK /\ code = Failed
  BY DEF LimitInv, GiveUp
<1>2. PICK ok \in BOOLEAN : TC(ok) /\ removeAll(ok) /\ Finish(~ok, code)
  BY DEF GiveUp
<1>3. UNCHANGED <<targets, client, routes, logErr, on, limits, applying, touched>>
  BY DEF GiveUp, world
<1>4. Failed \in Codes
  BY DEF Codes
<1>5. code' \in Codes /\ report' \in [Group -> Codes] /\ pc' = "idle"
  BY <1>1, <1>2, <1>4, FinishType
<1>6. LimitInv' /\ (clean' => DOMAIN filters' = {}) /\ (clean' <=> ok)
  BY <1>1, <1>2, <1>3, <1>5, Removed
<1>7. applying => \A g \in Group : report'[g] = "" => ok /\ limits[g] = NoLimit
  BY <1>1, <1>2 DEF Finish, Failed
<1> QED BY <1>6, <1>7

LEMMA LeftoversKeeps ==
    ASSUME LimitInv, Leftovers
    PROVE  LimitInv'
<1>1. TypeOK /\ ~clean /\ pc # "converge"
  BY DEF LimitInv, Leftovers
<1>2. PICK ok \in BOOLEAN : TC(ok) /\ removeAll(ok)
  BY DEF Leftovers
<1>3. UNCHANGED <<targets, client, routes, logErr, on, limits, code, pc, applying, report, touched>>
  BY DEF Leftovers, world, reports
<1>4. Cleanup(ok) /\ clean' = ok /\ books' = NewBooks
  BY <1>2 DEF removeAll
<1>5. /\ DOMAIN filters' \subseteq Rule /\ filters' \in [DOMAIN filters' -> Index]
      /\ rate' \in [Index -> Nat] /\ linger' \subseteq Index /\ hook' \subseteq Dev
      /\ ok => DOMAIN filters' = {}
  BY <1>1, <1>4, CleanedType
<1>6. /\ books'.hooks \subseteq Dev /\ books'.actions \in [Group -> 0..MaxUsers]
      /\ books'.rates \in [Index -> Nat] /\ books'.orphans \subseteq Index
      /\ DOMAIN books'.filters \subseteq Rule /\ books'.filters \in [DOMAIN books'.filters -> Index]
      /\ DOMAIN books'.filters = {} /\ BooksSound' /\ (DOMAIN filters' = {} => KernelKnown')
  BY <1>4, EmptyBooks
<1>7. faults' \in [FaultKind -> Nat]
  BY <1>1, <1>2, TCType
<1>8. TypeOK'
  BY <1>1, <1>3, <1>4, <1>5, <1>6, <1>7 DEF TypeOK
<1> QED BY <1>1, <1>3, <1>4, <1>5, <1>6, <1>8 DEF LimitInv

\* Another process: it does not count as clean.
LEMMA NewProcessKeeps ==
    ASSUME TypeOK, NewProcess, faults' \in [FaultKind -> Nat],
           DOMAIN filters' \subseteq Rule, filters' \in [DOMAIN filters' -> Index],
           rate' \in [Index -> Nat], linger' \subseteq Index, hook' \subseteq Dev
    PROVE  LimitInv'
<1>1. /\ on' \in BOOLEAN /\ limits' = [g \in Group |-> NoLimit] /\ clean' = FALSE /\ code' = ""
      /\ books' = NewBooks /\ pc' = "idle" /\ applying' = FALSE
      /\ UNCHANGED <<targets, client, routes, logErr, report, touched>>
  BY DEF NewProcess, world, reports
<1>2. /\ books'.hooks \subseteq Dev /\ books'.actions \in [Group -> 0..MaxUsers]
      /\ books'.rates \in [Index -> Nat] /\ books'.orphans \subseteq Index
      /\ DOMAIN books'.filters \subseteq Rule /\ books'.filters \in [DOMAIN books'.filters -> Index]
  BY <1>1, EmptyBooks
<1>3. limits' \in [Group -> Limit] /\ code' \in Codes
  <2>1. NoLimit \in Limit
    BY DEF NoLimit, Limit
  <2> QED BY <1>1, <2>1 DEF Codes
<1>4. TypeOK'
  BY <1>1, <1>2, <1>3 DEF TypeOK
<1> QED BY <1>1, <1>4 DEF LimitInv

LEMMA StopKeeps ==
    ASSUME LimitInv, Stop
    PROVE  LimitInv'
<1>1. TypeOK /\ NewProcess
  BY DEF LimitInv, Stop
<1>2. PICK ok \in BOOLEAN : Cleanup(ok)
  BY DEF Stop
<1>3. faults' \in [FaultKind -> Nat]
  BY <1>1, FaultType DEF Stop, FaultKind
<1> QED BY <1>1, <1>2, <1>3, CleanedType, NewProcessKeeps

LEMMA CrashKeeps ==
    ASSUME LimitInv, Crash
    PROVE  LimitInv' /\ faults'["crash"] # faults["crash"]
<1>1. TypeOK /\ NewProcess /\ UNCHANGED <<hook, filters, rate, linger>> /\ Fault("crash")
  BY DEF LimitInv, Crash, kernel
<1>2. "crash" \in FaultKind
  BY DEF FaultKind
<1>3. faults' \in [FaultKind -> Nat] /\ faults'["crash"] = faults["crash"] + 1
  BY <1>1, <1>2, FaultType
<1>4. faults["crash"] \in Nat
  BY <1>1, <1>2 DEF TypeOK
<1>5. faults'["crash"] # faults["crash"]
  BY <1>3, <1>4
<1>6. /\ DOMAIN filters' \subseteq Rule /\ filters' \in [DOMAIN filters' -> Index]
      /\ rate' \in [Index -> Nat] /\ linger' \subseteq Index /\ hook' \subseteq Dev
  BY <1>1 DEF TypeOK
<1> QED BY <1>1, <1>3, <1>5, <1>6, NewProcessKeeps

\* Filters on one interface are finitely many, as flows are.
LEMMA OnOneDevice ==
    ASSUME NEW D, D \subseteq Rule, NEW d
    PROVE  IsFiniteSet({r \in D : r.dev = d})
<1> DEFINE S == {r \in D : r.dev = d}
           f == [r \in S |-> r.flow]
<1>1. \A r, s \in Rule : r.dev = s.dev /\ r.flow = s.flow => r = s
  BY DEF Rule
<1>2. \A r \in Rule : r.flow \in Flow
  BY DEF Rule
<1>3. f \in Injection(S, Flow)
  BY <1>1, <1>2 DEF Injection, IsInjective
<1>4. IsFiniteSet(Flow)
  BY LimitAssumption
<1> HIDE DEF S, f
<1>5. IsFiniteSet(S)
  BY <1>3, <1>4, FS_Injection
<1> QED BY <1>5 DEF S

\* drifted counts: a kernel that holds no other filters and as many, holds the same.
LEMMA SameCounts ==
    ASSUME TypeOK, BooksSound, KernelKnown, ~Drifted
    PROVE  DOMAIN books.filters \subseteq DOMAIN filters
<1> SUFFICES ASSUME NEW r \in DOMAIN books.filters PROVE r \in DOMAIN filters
  OBVIOUS
<1> DEFINE d == r.dev
           S == {s \in DOMAIN books.filters : s.dev = d}
           T == {s \in DOMAIN filters : s.dev = d}
<1>1. d \in books.hooks
  BY DEF BooksSound
<1>2. Cardinality(T) = Cardinality(S)
  BY <1>1 DEF Drifted
<1>3. T \in SUBSET S
  BY DEF KernelKnown
<1>4. IsFiniteSet(S)
  BY OnOneDevice DEF TypeOK
<1>5. r \in S
  OBVIOUS
<1> HIDE DEF S, T, d
<1>6. S = T
  BY <1>2, <1>3, <1>4, FS_Subset
<1> QED BY <1>5, <1>6 DEF T

LEMMA ApplyKeeps ==
    ASSUME LimitInv, Apply
    PROVE  LimitInv' /\ pc' # "idle"
<1>1. /\ TypeOK /\ pc = "idle"
      /\ limits' = [g \in Group |-> LimitOf(g)]
      /\ pc' = (IF clean' THEN "converge" ELSE "remove") /\ applying' = TRUE /\ touched' = FALSE
      /\ UNCHANGED <<targets, client, routes, logErr, hook, filters, rate, linger, on, code, books, report>>
  BY DEF LimitInv, Apply, world, kernel
<1>2. PICK unreadable \in BOOLEAN : /\ TC(~unreadable)
                                    /\ clean' = (clean /\ ~unreadable /\ ~Drifted)
  BY DEF Apply
<1>3. faults' \in [FaultKind -> Nat]
  BY <1>1, <1>2, TCType
<1>4. limits' \in [Group -> Limit]
  <2>1. \A g \in Group : targets[g] \in Target \cup {Unusable, Absent} /\ limits[g] \in Limit
    BY <1>1 DEF TypeOK
  <2>2. Target \subseteq Limit
    BY LimitAssumption DEF Limit
  <2>3. NoLimit \in Limit
    BY DEF NoLimit, Limit
  <2>4. \A g \in Group : LimitOf(g) \in Limit
    <3> SUFFICES ASSUME NEW g \in Group PROVE LimitOf(g) \in Limit
      OBVIOUS
    <3>1. CASE targets[g] = Absent
      <4>1. Absent # Unusable
        BY LimitAssumption
      <4> QED BY <2>3, <3>1, <4>1 DEF LimitOf
    <3>2. CASE targets[g] = Unusable /\ targets[g] # Absent
      BY <2>1, <3>2 DEF LimitOf
    <3>3. CASE targets[g] # Unusable /\ targets[g] # Absent
      BY <2>1, <2>2, <2>3, <3>3 DEF LimitOf
    <3> QED BY <3>1, <3>2, <3>3
  <2> QED BY <1>1, <2>4
<1>5. clean' => clean /\ ~Drifted
  BY <1>2
<1>6. clean' \in BOOLEAN
  BY <1>2
<1>7. TypeOK'
  BY <1>1, <1>3, <1>4, <1>6 DEF TypeOK
<1>8. clean => BooksSound /\ KernelKnown
  BY <1>1 DEF LimitInv
<1>9. (BooksSound => BooksSound') /\ (KernelKnown => KernelKnown')
  BY <1>1 DEF BooksSound, KernelKnown
<1>10. clean' => DOMAIN books'.filters \subseteq DOMAIN filters'
  BY <1>1, <1>5, <1>8, SameCounts
<1> QED BY <1>1, <1>5, <1>7, <1>8, <1>9, <1>10 DEF LimitInv

LEMMA TickKeeps ==
    ASSUME LimitInv, Tick
    PROVE  LimitInv' /\ pc' # "idle"
<1>1. /\ TypeOK /\ pc = "idle"
      /\ pc' = (IF clean THEN "converge" ELSE "remove") /\ applying' = FALSE /\ touched' = FALSE
      /\ UNCHANGED <<targets, client, routes, logErr, hook, filters, rate, linger, on, limits, clean,
                     code, books, report, faults>>
  BY DEF LimitInv, Tick, world, kernel
<1>2. TypeOK'
  BY <1>1 DEF TypeOK
<1>3. (BooksSound => BooksSound') /\ (KernelKnown => KernelKnown')
  BY <1>1 DEF BooksSound, KernelKnown
<1> QED BY <1>1, <1>2, <1>3 DEF LimitInv

LEMMA WantFailsKeeps ==
    ASSUME LimitInv, WantFails
    PROVE  LimitInv' /\ pc' # "idle"
<1>1. /\ TypeOK /\ pc' = "give_up" /\ code' = Failed
      /\ UNCHANGED <<targets, client, routes, logErr, hook, filters, rate, linger, on, limits, clean,
                     books, applying, report, touched, faults>>
  BY DEF LimitInv, WantFails, world, kernel, reports
<1>2. TypeOK'
  BY <1>1 DEF TypeOK, Codes
<1> QED BY <1>1, <1>2 DEF LimitInv

\* A batch that stops part way: the kernel may hold anything of it until all is removed.
LEMMA ConvergeFailsKeeps ==
    ASSUME LimitInv, ConvergeFails
    PROVE  LimitInv' /\ pc' # "idle"
<1>1. /\ TypeOK /\ pc' = "give_up" /\ code' = Failed /\ linger' = linger \cup Released(filters')
      /\ UNCHANGED <<targets, client, routes, logErr, on, limits, clean, books, applying, report, touched>>
  BY DEF LimitInv, ConvergeFails, world, reports
<1>2. PICK devs \in SUBSET (batch.devs \ books.hooks), groups \in SUBSET batch.changed,
           deleted \in SUBSET Deletable(batch), added \in SUBSET Addable(batch) :
         Prepare(batch, devs, groups) /\ filters' = Changed(plan, batch, deleted, added)
  BY DEF ConvergeFails, batch
<1>3. added \subseteq batch.adds /\ devs \in SUBSET batch.devs
  BY <1>2 DEF Addable
<1>4. DOMAIN filters' \subseteq Rule /\ filters' \in [DOMAIN filters' -> Index]
  BY <1>1, <1>2, <1>3, ChangedType
<1>5. rate' \in [Index -> Nat] /\ hook' \subseteq Dev
  BY <1>1, <1>2, <1>3, PreparedType
<1>6. linger' \subseteq Index
  BY <1>1, ReleasedType
<1>7. faults' \in [FaultKind -> Nat]
  BY <1>1, TCType DEF ConvergeFails
<1>8. TypeOK'
  BY <1>1, <1>4, <1>5, <1>6, <1>7 DEF TypeOK, Codes
<1> QED BY <1>1, <1>8 DEF LimitInv

\* The rest leaves the limiter alone; a change by hand only takes filters away.
LEMMA WorldKeeps ==
    ASSUME LimitInv, CloudSets \/ FlowChanges \/ RouteChanges \/ LogChanges \/ KernelReleases \/ UNCHANGED vars
    PROVE  LimitInv' /\ pc' = pc
<1>0. TypeOK
  BY DEF LimitInv
<1>1. UNCHANGED <<hook, filters, rate, on, limits, clean, code, books, pc, applying, report, touched>>
  BY DEF CloudSets, FlowChanges, RouteChanges, LogChanges, KernelReleases, vars, kernel, process, reports
<1>2. faults' \in [FaultKind -> Nat]
  BY <1>0, FaultType DEF CloudSets, FlowChanges, RouteChanges, LogChanges, KernelReleases, vars, FaultKind, TypeOK
<1>3. targets' \in [Group -> Target \cup {Unusable, Absent}]
  <2>1. targets \in [Group -> Target \cup {Unusable, Absent}]
    BY <1>0 DEF TypeOK
  <2>2. CASE CloudSets
    BY <2>1, <2>2 DEF CloudSets
  <2> QED BY <2>1, <2>2 DEF FlowChanges, RouteChanges, LogChanges, KernelReleases, vars, world
<1>4. client' \in [Flow -> Client \cup {Nobody}]
  <2>1. client \in [Flow -> Client \cup {Nobody}]
    BY <1>0 DEF TypeOK
  <2>2. CASE FlowChanges
    BY <2>1, <2>2 DEF FlowChanges
  <2> QED BY <2>1, <2>2 DEF CloudSets, RouteChanges, LogChanges, KernelReleases, vars, world
<1>5. routes' \subseteq Dev /\ logErr' \in BOOLEAN /\ linger' \subseteq Index
  BY <1>0 DEF TypeOK, CloudSets, FlowChanges, RouteChanges, LogChanges, KernelReleases, vars, world, kernel
<1>6. TypeOK'
  BY <1>0, <1>1, <1>2, <1>3, <1>4, <1>5 DEF TypeOK
<1>7. (BooksSound => BooksSound') /\ (KernelKnown => KernelKnown')
  BY <1>1 DEF BooksSound, KernelKnown
<1> QED BY <1>1, <1>6, <1>7 DEF LimitInv

LEMMA ByHandKeeps ==
    ASSUME LimitInv, ChangedByHand
    PROVE  LimitInv' /\ pc' = pc
<1>0. TypeOK
  BY DEF LimitInv
<1>1. /\ linger' = linger \cup Released(filters') /\ touched' = TRUE
      /\ UNCHANGED <<targets, client, routes, logErr, rate, on, limits, clean, code, books, pc, applying, report>>
  BY DEF ChangedByHand, world, process
<1>2. PICK rest \in SUBSET DOMAIN filters : filters' = Restrict(filters, rest)
  <2>1. CASE \E r \in DOMAIN filters : filters' = Restrict(filters, DOMAIN filters \ {r})
    <3>1. PICK r \in DOMAIN filters : filters' = Restrict(filters, DOMAIN filters \ {r})
      BY <2>1
    <3>2. DOMAIN filters \ {r} \in SUBSET DOMAIN filters
      OBVIOUS
    <3> QED BY <3>1, <3>2
  <2>2. CASE \E d \in hook : filters' = Restrict(filters, {r \in DOMAIN filters : r.dev # d})
    <3>1. PICK d \in hook : filters' = Restrict(filters, {r \in DOMAIN filters : r.dev # d})
      BY <2>2
    <3>2. {r \in DOMAIN filters : r.dev # d} \in SUBSET DOMAIN filters
      OBVIOUS
    <3> QED BY <3>1, <3>2
  <2> QED BY <2>1, <2>2 DEF ChangedByHand
<1>3. /\ DOMAIN filters' = rest /\ DOMAIN filters' \subseteq Rule /\ filters' \in [DOMAIN filters' -> Index]
      /\ \A r \in DOMAIN filters' : filters'[r] = filters[r]
  BY <1>0, <1>2, RestrictType
<1>4. hook' \subseteq Dev
  BY <1>0 DEF TypeOK, ChangedByHand
<1>5. linger' \subseteq Index
  BY <1>0, <1>1, ReleasedType
<1>6. faults' \in [FaultKind -> Nat]
  BY <1>0, FaultType DEF ChangedByHand, FaultKind
<1>7. TypeOK'
  BY <1>0, <1>1, <1>3, <1>4, <1>5, <1>6 DEF TypeOK
<1>8. BooksSound => BooksSound'
  BY <1>1 DEF BooksSound
<1>9. KernelKnown => KernelKnown'
  BY <1>1, <1>2, <1>3 DEF KernelKnown
<1> QED BY <1>1, <1>7, <1>8, <1>9 DEF LimitInv

-----------------------------------------------------------------------------
(* The theorems. *)

LEMMA LimitStart == Init => LimitInv
<1> SUFFICES ASSUME Init PROVE LimitInv
  OBVIOUS
<1>1. PICK left \in SUBSET Rule :
        /\ filters = [r \in left |-> 1] /\ hook = Foreign \cup {r.dev : r \in left}
        /\ rate = [i \in Index |-> IF left # {} /\ i = 1 THEN 1 ELSE 0]
  BY DEF Init
<1>2. 1 \in Index /\ 0 \in 0..MaxUsers
  BY LimitAssumption DEF Index
<1>3. DOMAIN filters \subseteq Rule /\ filters \in [DOMAIN filters -> Index] /\ rate \in [Index -> Nat]
  BY <1>1, <1>2
<1>4. hook \subseteq Dev
  <2>1. \A r \in Rule : r.dev \in Dev
    BY DEF Rule
  <2> QED BY <1>1, <2>1, LimitAssumption
<1>5. /\ books.hooks = {} /\ books.actions = [g \in Group |-> 0] /\ books.rates = [i \in Index |-> 0]
      /\ books.filters = [r \in {} |-> 0] /\ books.orphans = {}
  BY DEF Init, NewBooks, NoRules
<1>6. limits \in [Group -> Limit]
  <2>1. NoLimit \in Limit
    BY DEF NoLimit, Limit
  <2> QED BY <2>1 DEF Init
<1>7. /\ books.hooks \subseteq Dev /\ books.actions \in [Group -> 0..MaxUsers]
      /\ books.rates \in [Index -> Nat] /\ books.orphans \subseteq Index
      /\ DOMAIN books.filters \subseteq Rule /\ books.filters \in [DOMAIN books.filters -> Index]
  BY <1>2, <1>5
<1>8. /\ targets \in [Group -> Target \cup {Unusable, Absent}]
      /\ client \in [Flow -> Client \cup {Nobody}] /\ routes \subseteq Dev /\ logErr \in BOOLEAN
      /\ report \in [Group -> Codes] /\ faults \in [FaultKind -> Nat]
  BY DEF Init, Codes
<1>9. /\ linger \subseteq Index /\ on \in BOOLEAN /\ clean \in BOOLEAN /\ applying \in BOOLEAN
      /\ touched \in BOOLEAN /\ code \in Codes /\ pc = "idle" /\ ~clean
  BY DEF Init, Codes
<1>10. TypeOK
  BY <1>3, <1>4, <1>6, <1>7, <1>8, <1>9 DEF TypeOK
<1> QED BY <1>9, <1>10 DEF LimitInv

\* One step: the invariant is kept, and where a pass ends only limited flows are policed.
LEMMA LimitStep ==
    ASSUME LimitInv, [Next]_vars
    PROVE  LimitInv' /\ (PassEnds /\ clean' => Rightful')
<1>1. CASE Converge
  BY <1>1, ConvergeKeeps
<1>2. CASE SyncRemoves
  BY <1>2, SyncRemovesKeeps DEF PassEnds
<1>3. CASE GiveUp
  <2>1. DOMAIN filters' = {} => Rightful'
    BY DEF Rightful
  <2> QED BY <1>3, <2>1, GiveUpKeeps
<1>4. CASE Apply \/ Tick \/ WantFails \/ ConvergeFails
  BY <1>4, ApplyKeeps, TickKeeps, WantFailsKeeps, ConvergeFailsKeeps DEF PassEnds
<1>5. CASE Leftovers
  BY <1>5, LeftoversKeeps DEF PassEnds, Leftovers
<1>6. CASE Stop
  BY <1>6, StopKeeps DEF PassEnds, Stop
<1>7. CASE Crash
  BY <1>7, CrashKeeps DEF PassEnds
<1>8. CASE CloudSets \/ FlowChanges \/ RouteChanges \/ LogChanges \/ KernelReleases \/ UNCHANGED vars
  BY <1>8, WorldKeeps DEF PassEnds
<1>9. CASE ChangedByHand
  BY <1>9, ByHandKeeps DEF PassEnds
<1> QED BY <1>1, <1>2, <1>3, <1>4, <1>5, <1>6, <1>7, <1>8, <1>9 DEF Next

\* Every variable has its type: indexes stay in the range the module may use, whatever
\* part of a batch ran (maxUsers).
THEOREM TypeCorrect == Spec => []TypeOK
<1>1. LimitInv => TypeOK
  BY DEF LimitInv
<1> QED BY <1>1, LimitStart, LimitStep, PTL DEF Spec

\* When a pass ends and the limiter counts as clean, exactly limited flows are policed, at
\* their own group's rate, for any groups, flows, interfaces and failures (sync, converge).
THEOREM OnlyLimitedPoliced == Spec => PolicesOnlyLimited
<1>1. LimitInv /\ [Next]_vars => [PassEnds /\ clean' => Rightful']_vars
  BY LimitStep
<1> QED BY <1>1, LimitStart, LimitStep, PTL DEF Spec, PolicesOnlyLimited

\* While there is room and they fit, the flows of a limited group are policed after a whole
\* batch of Apply's during which nobody else changed the rules.
LEMMA FlowsCovered ==
    ASSUME LimitInv, Converge, applying, ~touched, Room, NEW r \in Wanted, Fits(GroupOf(r))
    PROVE  r \in DOMAIN filters'
<1>1. TypeOK /\ DOMAIN books.filters \subseteq DOMAIN filters
  BY DEF LimitInv, Converge
<1>2. r \in DOMAIN plan /\ plan[r] \in Reached
  BY <1>1, PlanFacts, FlowsFit
<1>3. At(r) # 0
  BY <1>1, <1>2, RoomForAll DEF At
<1>4. DOMAIN filters' = (DOMAIN filters \ batch.dels) \cup batch.adds
  <2> DEFINE deleted == batch.dels
             added == batch.adds
  <2>1. added \subseteq batch.adds /\ filters' = Changed(plan, batch, deleted, added)
    BY DEF Converge, batch
  <2> HIDE DEF deleted, added
  <2> QED BY <1>1, <2>1, ChangedType DEF deleted, added
<1>5. CASE r \in DOMAIN books.filters /\ books.filters[r] = At(r)
  <2>1. r \notin batch.dels
    BY <1>5, BatchFacts
  <2> QED BY <1>1, <1>4, <1>5, <2>1
<1>6. CASE ~(r \in DOMAIN books.filters /\ books.filters[r] = At(r))
  <2>1. r \in batch.adds
    BY <1>2, <1>3, <1>6, BatchFacts
  <2> QED BY <1>4, <2>1
<1> QED BY <1>5, <1>6

\* One step of Apply's report.
LEMMA ReportStep ==
    ASSUME LimitInv, [Next]_vars, PassEnds, applying, NEW g \in Group, report'[g] = ""
    PROVE  /\ (limits[g] = NoLimit => Rightful')
           /\ ~touched /\ Room /\ Fits(g) =>
                 \A r \in Wanted : GroupOf(r) = g => r \in DOMAIN filters' /\ Rightful'
<1>0. g # 0 /\ TypeOK
  BY LimitAssumption DEF LimitInv
<1>1. CASE Converge
  <2>1. Rightful'
    BY <1>1, ConvergeKeeps
  <2>2. ASSUME ~touched, Room, Fits(g), NEW r \in Wanted, GroupOf(r) = g PROVE r \in DOMAIN filters'
    BY <1>1, <2>2, FlowsCovered
  <2> QED BY <2>1, <2>2
<1>2. CASE SyncRemoves
  BY <1>2, SyncRemovesKeeps DEF PassEnds, Failed
<1>3. CASE GiveUp
  <2>1. DOMAIN filters' = {} /\ limits[g] = NoLimit
    BY <1>3, GiveUpKeeps
  <2>2. Rightful'
    BY <2>1 DEF Rightful
  <2>3. g \notin Limited
    BY <2>1 DEF Limited
  <2>4. \A r \in Wanted : GroupOf(r) # g
    BY <1>0, <2>3, WantedFacts
  <2> QED BY <2>2, <2>4
<1>4. CASE Apply \/ Tick \/ WantFails \/ ConvergeFails
  BY <1>4, ApplyKeeps, TickKeeps, WantFailsKeeps, ConvergeFailsKeeps DEF PassEnds
<1>5. CASE Leftovers \/ Stop
  BY <1>5 DEF PassEnds, Leftovers, Stop
<1>6. CASE Crash
  BY <1>6, CrashKeeps DEF PassEnds
<1>7. CASE CloudSets \/ FlowChanges \/ RouteChanges \/ LogChanges \/ KernelReleases \/ UNCHANGED vars
  BY <1>7, WorldKeeps DEF PassEnds
<1>8. CASE ChangedByHand
  BY <1>8, ByHandKeeps DEF PassEnds
<1> QED BY <1>1, <1>2, <1>3, <1>4, <1>5, <1>6, <1>7, <1>8 DEF Next

\* What Apply confirms is so in the kernel: a release polices nobody without a limit, and a
\* limit covers all the flows of its group while there is an index for every group (maxUsers)
\* and the flows of the group and of those before it are within maxFilters.  Past either
\* bound the code confirms a limit and leaves flows of it unpoliced.
THEOREM ReportsAreTrue == Spec => ReportIsTrue
<1>1. LimitInv /\ [Next]_vars =>
        [PassEnds /\ applying =>
          \A g \in Group : report'[g] = "" =>
            /\ (limits[g] = NoLimit => Rightful')
            /\ ~touched /\ Room /\ Fits(g) =>
                  \A r \in Wanted : GroupOf(r) = g => r \in DOMAIN filters' /\ Rightful']_vars
  BY ReportStep
<1> QED BY <1>1, LimitStart, LimitStep, PTL DEF Spec, ReportIsTrue
============================================================================
