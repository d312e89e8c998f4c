---------------------------- MODULE NetworkProofs ---------------------------
(***************************************************************************)
(* Proofs about a network at its beginning and once it runs: where its     *)
(* nodes are placed, and when it is fit to be used.                        *)
(*                                                                         *)
(* The placement, for any sets of servers, layouts and families.  What is  *)
(* assigned is a placement, and what is refused has none.  That no port is *)
(* shared is not inductive: PortInv adds that every recorded node has the  *)
(* ports of a slot of the set, that an allocator has adopted what it has   *)
(* read, and that what it is about to save goes with what is recorded.     *)
(*                                                                         *)
(* The gate, for any number of nodes, any fork, any budgets and whatever   *)
(* the network does meanwhile: it implements its contract, and lets no     *)
(* network through that has not crossed the fork it was handed over at.    *)
(***************************************************************************)
EXTENDS Placement, Gate, SequenceTheorems, FiniteSetTheorems, WellFoundedInduction, TLAPS

(* The placement.                                                          *)

\* What a request can say of the server: its name, or nothing.
Name == STRING \cup {""}

\* Every set of naturals that is not empty has a least element.
LEMMA Least ==
  ASSUME NEW T, T \subseteq Nat, T # {}
  PROVE  \E m \in T : \A y \in T : m <= y
  <1> DEFINE Below == {ss \in Nat \X Nat : ss[1] < ss[2]}
  <1>1. IsWellFoundedOn(Below, Nat)
    BY NatLessThanWellFounded DEF OpToRel
  <1>2. PICK x \in T : \A y \in T : ~ (<<y, x>> \in Below)
    BY <1>1, WFMin
  <1>3. \A y \in T : ~ (y < x)
    BY <1>2
  <1> QED
    BY <1>3

\* A set of slots has a j-th slot for every j up to its size.
LEMMA NthExists ==
  ASSUME NEW N \in Nat, NEW S \in SUBSET (1..N), NEW j \in 1..Cardinality(S)
  PROVE  Nth(S, j) \in S /\ Cardinality({l \in S : l <= Nth(S, j)}) = j
  <1> DEFINE U(k) == {l \in S : l <= k}
             T == {k \in Nat : Cardinality(U(k)) >= j}
  <1>0. \A l \in S : l \in Nat \ {0} /\ l <= N
    OBVIOUS
  <1>1. IsFiniteSet(S) /\ Cardinality(S) \in Nat
    <2>1. IsFiniteSet(1..N)
      BY FS_Interval
    <2> QED
      BY <2>1, FS_Subset, FS_CardinalityType
  <1>2. \A k \in Nat : IsFiniteSet(U(k)) /\ Cardinality(U(k)) \in Nat
    <2> TAKE k \in Nat
    <2>1. U(k) \subseteq S
      OBVIOUS
    <2> HIDE DEF U
    <2> QED
      BY <1>1, <2>1, FS_Subset, FS_CardinalityType
  <1>3. N \in T
    <2>1. U(N) = S
      BY <1>0
    <2> QED
      BY <1>1, <2>1
  <1>4. PICK m \in T : \A y \in T : m <= y
    <2> HIDE DEF U
    <2> QED
      BY <1>3, Least
  <1>10. m \in Nat /\ Cardinality(U(m)) >= j /\ \A y \in Nat : Cardinality(U(y)) >= j => m <= y
    BY <1>4
  <1> HIDE DEF T
  <1>5. m # 0
    <2>0. \A l \in S : ~ (l <= 0)
      BY <1>0
    <2>1. U(0) = {}
      BY <2>0
    <2>2. Cardinality(U(0)) = 0
      BY <2>1, FS_EmptySet
    <2> HIDE DEF U
    <2> QED
      BY <2>2, <1>10
  <1>6. m - 1 \in Nat /\ Cardinality(U(m - 1)) < j
    <2>1. m - 1 \in Nat
      BY <1>5, <1>10
    <2> HIDE DEF U
    <2> QED
      BY <2>1, <1>2, <1>10
  <1>7. m \in S
    <2> SUFFICES ASSUME m \notin S PROVE FALSE
      OBVIOUS
    <2>1. \A l \in S : l <= m <=> l <= m - 1
      BY <1>0, <1>6, <1>10
    <2>2. U(m) = U(m - 1)
      BY <2>1
    <2> HIDE DEF U
    <2> QED
      BY <2>2, <1>6, <1>2, <1>10
  <1>8. Cardinality(U(m)) = Cardinality(U(m - 1)) + 1
    <2>1. \A l \in S : l <= m <=> l <= m - 1 \/ l = m
      BY <1>0, <1>6, <1>10
    <2>3. ~ (m <= m - 1)
      BY <1>10
    <2>2. U(m) = U(m - 1) \cup {m} /\ m \notin U(m - 1)
      BY <2>1, <2>3, <1>7, Zenon
    <2> HIDE DEF U
    <2> QED
      BY <2>2, <1>2, <1>6, FS_AddElement
  <1>9. Cardinality(U(m)) = j
    <2> HIDE DEF U
    <2> QED
      BY <1>8, <1>6, <1>10, <1>2
  <1> QED
    BY <1>7, <1>9 DEF Nth

LEMMA RankIsPositive ==
  ASSUME NEW reqs \in Seq(Name), NEW i \in DOMAIN reqs
  PROVE  /\ IsFiniteSet({j \in 1..i : reqs[j] = reqs[i]})
         /\ Rank(reqs, i) \in Nat \ {0}
  <1> DEFINE R == {j \in 1..i : reqs[j] = reqs[i]}
  <1>1. i \in Nat \ {0} /\ R \subseteq 1..i /\ {i} \subseteq R
    OBVIOUS
  <1>2. IsFiniteSet(1..i)
    BY <1>1, FS_Interval
  <1>3. IsFiniteSet(R) /\ Cardinality(R) \in Nat
    BY <1>1, <1>2, FS_Subset, FS_CardinalityType
  <1>4. Cardinality({i}) = 1 /\ Cardinality({i}) <= Cardinality(R)
    BY <1>1, <1>3, FS_Subset, FS_Singleton
  <1> QED
    BY <1>3, <1>4 DEF Rank

LEMMA RequestsAreCounted ==
  ASSUME NEW reqs \in Seq(Name)
  PROVE  /\ DOMAIN reqs = 1..Len(reqs) /\ Len(reqs) \in Nat
         /\ IsFiniteSet(DOMAIN reqs) /\ Cardinality(DOMAIN reqs) = Len(reqs)
         /\ Pinned(reqs) \subseteq DOMAIN reqs
         /\ \A i \in DOMAIN reqs : i \in Nat /\ 1..i \subseteq DOMAIN reqs
  <1>1. DOMAIN reqs = 1..Len(reqs) /\ Len(reqs) \in Nat
    OBVIOUS
  <1>2. IsFiniteSet(1..Len(reqs))
        /\ Cardinality(1..Len(reqs)) = IF 1 > Len(reqs) THEN 0 ELSE Len(reqs) - 1 + 1
    BY <1>1, FS_Interval
  <1>3. Cardinality(1..Len(reqs)) = Len(reqs)
    BY <1>1, <1>2
  <1>4. \A i \in 1..Len(reqs) : i \in Nat /\ 1..i \subseteq 1..Len(reqs)
    BY <1>1
  <1> QED
    BY <1>1, <1>2, <1>3, <1>4 DEF Pinned

\* Of two requests for one server, the later is the one of higher rank.
LEMMA RanksDiffer ==
  ASSUME NEW reqs \in Seq(Name), NEW i \in DOMAIN reqs, NEW k \in DOMAIN reqs,
         reqs[i] = reqs[k], i < k
  PROVE  Rank(reqs, i) < Rank(reqs, k)
  <1> DEFINE R(n) == {j \in 1..n : reqs[j] = reqs[n]}
  <1>1. IsFiniteSet(R(i)) /\ IsFiniteSet(R(k)) /\ Cardinality(R(i)) \in Nat
    BY RankIsPositive, FS_CardinalityType
  <1>2. R(i) \cup {k} \subseteq R(k) /\ k \notin R(i)
    OBVIOUS
  <1> HIDE DEF R
  <1>3. Cardinality(R(i) \cup {k}) = Cardinality(R(i)) + 1
    BY <1>1, <1>2, FS_AddElement
  <1>4. Cardinality(R(i) \cup {k}) <= Cardinality(R(k)) /\ Cardinality(R(k)) \in Nat
    BY <1>1, <1>2, FS_Subset, FS_CardinalityType
  <1> QED
    BY <1>1, <1>3, <1>4 DEF Rank, R

-----------------------------------------------------------------------------
(* What Assign hands out.                                                  *)

LEMMA SlotsAreFinite ==
  ASSUME NEW p \in Pool, NEW F \in SUBSET AllSlots(p)
  PROVE  /\ Len(p.hosts) * p.slots \in Nat /\ F \in SUBSET (1 .. Len(p.hosts) * p.slots)
         /\ IsFiniteSet(F) /\ Cardinality(F) \in Nat
  <1>1. Len(p.hosts) \in Nat /\ p.slots \in Nat
    BY DEF Pool
  <1>2. Len(p.hosts) * p.slots \in Nat
    BY <1>1
  <1>3. IsFiniteSet(1 .. Len(p.hosts) * p.slots)
    BY <1>2, FS_Interval
  <1> QED
    BY <1>2, <1>3, FS_Subset, FS_CardinalityType DEF AllSlots

\* The node pinned to a server gets a free slot of it; two pins get two slots.
LEMMA PinsServed ==
  ASSUME NEW p \in Pool, NEW F \in SUBSET AllSlots(p), NEW reqs \in Seq(Name),
         Assignable(p, F, reqs)
  PROVE  LET pin(i) == Nth(On(p, F, reqs[i]), Rank(reqs, i))
         IN /\ \A i \in Pinned(reqs) : pin(i) \in F /\ HostAt(p, pin(i)).name = reqs[i]
            /\ \A i, k \in Pinned(reqs) : i # k => pin(i) # pin(k)
  <1> DEFINE pin(i) == Nth(On(p, F, reqs[i]), Rank(reqs, i))
  <1>1. ASSUME NEW i \in Pinned(reqs)
        PROVE  /\ pin(i) \in On(p, F, reqs[i])
               /\ Cardinality({l \in On(p, F, reqs[i]) : l <= pin(i)}) = Rank(reqs, i)
    <2>1. On(p, F, reqs[i]) \in SUBSET (1 .. Len(p.hosts) * p.slots)
          /\ Len(p.hosts) * p.slots \in Nat /\ Cardinality(On(p, F, reqs[i])) \in Nat
      <3>1. On(p, F, reqs[i]) \in SUBSET AllSlots(p)
        BY DEF On
      <3> QED
        BY <3>1, SlotsAreFinite
    <2>2. Rank(reqs, i) \in 1..Cardinality(On(p, F, reqs[i]))
      <3>1. Rank(reqs, i) \in Nat \ {0}
        BY RankIsPositive DEF Pinned
      <3>2. Rank(reqs, i) <= Cardinality(On(p, F, reqs[i]))
        BY DEF Assignable
      <3> QED
        BY <3>1, <3>2, <2>1
    <2> QED
      BY <2>1, <2>2, NthExists
  <1>2. ASSUME NEW i \in Pinned(reqs), NEW k \in Pinned(reqs), pin(i) = pin(k)
        PROVE  i = k
    <2>1. reqs[i] = reqs[k]
      BY <1>1, <1>2 DEF On
    <2>2. Rank(reqs, i) = Rank(reqs, k)
      <3>1. On(p, F, reqs[i]) = On(p, F, reqs[k])
        BY <2>1
      <3> QED
        BY <3>1, <1>1, <1>2
    <2>3. i \in DOMAIN reqs /\ k \in DOMAIN reqs /\ i \in Nat /\ k \in Nat
      BY RequestsAreCounted
    <2>4. Rank(reqs, i) \in Nat
      BY <2>3, RankIsPositive
    <2>5. ~ (i < k) /\ ~ (k < i)
      <3> SUFFICES ASSUME i < k \/ k < i PROVE FALSE
        OBVIOUS
      <3>1. Rank(reqs, i) < Rank(reqs, k) \/ Rank(reqs, k) < Rank(reqs, i)
        BY <2>1, <2>3, RanksDiffer
      <3> QED
        BY <3>1, <2>2, <2>4
    <2> QED
      BY <2>3, <2>5
  <1> QED
    BY <1>1, <1>2 DEF On

LEMMA EnoughLeft ==
  ASSUME NEW f \in Nat, NEW d \in Nat, NEW p \in Nat, NEW x \in Nat, NEW r \in Nat \ {0},
         f >= d, x <= p, r <= d - p
  PROVE  r \in 1..(f - x)
OBVIOUS

\* What the pins leave is enough for the rest.
LEMMA RestIsEnough ==
  ASSUME NEW p \in Pool, NEW F \in SUBSET AllSlots(p), NEW reqs \in Seq(Name),
         Assignable(p, F, reqs), NEW i \in DOMAIN reqs, reqs[i] = ""
  PROVE  LET pin(j) == Nth(On(p, F, reqs[j]), Rank(reqs, j))
             rest == F \ {pin(j) : j \in Pinned(reqs)}
         IN Rank(reqs, i) \in 1..Cardinality(rest)
  <1> DEFINE pin(j) == Nth(On(p, F, reqs[j]), Rank(reqs, j))
             P == Pinned(reqs)
             Pins == {pin(j) : j \in P}
             D == DOMAIN reqs
             R == {j \in 1..i : reqs[j] = reqs[i]}
             f == [j \in P |-> pin(j)]
  <1>1. Pins \subseteq F
    BY PinsServed
  <1>2. IsFiniteSet(F) /\ Cardinality(F) \in Nat
    BY SlotsAreFinite
  <1>3. D = 1..Len(reqs) /\ Len(reqs) \in Nat /\ P \subseteq D
    BY RequestsAreCounted
  <1>4. IsFiniteSet(D) /\ Cardinality(D) = Len(reqs)
    BY RequestsAreCounted
  <1>5. IsFiniteSet(P) /\ Cardinality(P) \in Nat
    BY <1>3, <1>4, FS_Subset, FS_CardinalityType
  <1>6. Cardinality(Pins) <= Cardinality(P) /\ Cardinality(Pins) \in Nat
    <2>1. f \in Surjection(P, Pins)
      BY DEF Surjection
    <2>2. IsFiniteSet(Pins) /\ Cardinality(Pins) <= Cardinality(P)
      <3> HIDE DEF P, Pins, f
      <3> QED
        BY <2>1, <1>5, FS_Surjection
    <2> HIDE DEF P, Pins, f
    <2> QED
      BY <2>2, FS_CardinalityType
  <1>7. Cardinality(F \ Pins) = Cardinality(F) - Cardinality(Pins)
    <2>1. F \cap Pins = Pins
      BY <1>1
    <2> HIDE DEF Pins
    <2> QED
      BY <2>1, <1>2, FS_Difference
  <1>8. Cardinality(D \ P) = Cardinality(D) - Cardinality(P) /\ IsFiniteSet(D \ P)
    <2>1. D \cap P = P
      BY <1>3
    <2> HIDE DEF P, D
    <2>2. /\ Cardinality(D \ P) = Cardinality(D) - Cardinality(D \cap P)
          /\ IsFiniteSet(D \ P)
      BY <1>4, FS_Difference
    <2> QED
      BY <2>1, <2>2
  <1>9. R \subseteq D \ P
    <2>1. 1..i \subseteq D
      BY RequestsAreCounted
    <2> QED
      BY <2>1 DEF Pinned
  <1>10. Cardinality(R) <= Cardinality(D \ P)
    <2> HIDE DEF R, D, P
    <2> QED
      BY <1>8, <1>9, FS_Subset
  <1>11. Rank(reqs, i) = Cardinality(R) /\ Rank(reqs, i) \in Nat \ {0}
    BY RankIsPositive DEF Rank
  <1>12. Cardinality(F) >= Len(reqs)
    BY DEF Assignable
  <1> HIDE DEF R, D, P, Pins
  <1>13. Rank(reqs, i) \in 1..Cardinality(F \ Pins)
    BY <1>2, <1>3, <1>4, <1>5, <1>6, <1>7, <1>8, <1>10, <1>11, <1>12, EnoughLeft
  <1> QED
    BY <1>13 DEF Pins, P

\* Assign places every node on a free slot of its own, on the server it names.
LEMMA AssignServes ==
  ASSUME NEW p \in Pool, NEW F \in SUBSET AllSlots(p), NEW reqs \in Seq(Name),
         Assignable(p, F, reqs)
  PROVE  Serves(p, Assign(p, F, reqs), F, reqs)
  <1> DEFINE pin(j) == Nth(On(p, F, reqs[j]), Rank(reqs, j))
             rest == F \ {pin(j) : j \in Pinned(reqs)}
             a == Assign(p, F, reqs)
  <1>1. \A i \in DOMAIN reqs : a[i] = IF reqs[i] # "" THEN pin(i) ELSE Nth(rest, Rank(reqs, i))
    BY DEF Assign
  <1>2. ASSUME NEW i \in DOMAIN reqs, reqs[i] = ""
        PROVE  /\ a[i] \in rest
               /\ Cardinality({l \in rest : l <= a[i]}) = Rank(reqs, i)
    <2>1. rest \in SUBSET (1 .. Len(p.hosts) * p.slots) /\ Len(p.hosts) * p.slots \in Nat
      BY SlotsAreFinite
    <2>2. Rank(reqs, i) \in 1..Cardinality(rest)
      BY <1>2, RestIsEnough
    <2>3. a[i] = Nth(rest, Rank(reqs, i))
      BY <1>1, <1>2
    <2> HIDE DEF rest, a
    <2>4. Nth(rest, Rank(reqs, i)) \in rest
          /\ Cardinality({l \in rest : l <= Nth(rest, Rank(reqs, i))}) = Rank(reqs, i)
      BY <2>1, <2>2, NthExists
    <2> QED
      BY <2>3, <2>4
  <1>3. ASSUME NEW i \in DOMAIN reqs, reqs[i] # ""
        PROVE  a[i] = pin(i) /\ i \in Pinned(reqs) /\ a[i] \notin rest
    BY <1>1, <1>3 DEF Pinned
  <1>4. /\ \A i \in Pinned(reqs) : pin(i) \in F /\ HostAt(p, pin(i)).name = reqs[i]
        /\ \A i, k \in Pinned(reqs) : i # k => pin(i) # pin(k)
    BY PinsServed
  <1>5. ASSUME NEW i \in DOMAIN reqs, NEW k \in DOMAIN reqs, i # k
        PROVE  a[i] # a[k]
    <2>1. CASE reqs[i] # "" /\ reqs[k] # ""
      <3> HIDE DEF a, rest, pin
      <3> QED
        BY <1>3, <1>4, <1>5, <2>1
    <2>2. CASE (reqs[i] # "") # (reqs[k] # "")
      <3> HIDE DEF a, rest, pin
      <3> QED
        BY <1>2, <1>3, <2>2
    <2>3. CASE reqs[i] = "" /\ reqs[k] = ""
      <3> SUFFICES ASSUME a[i] = a[k] PROVE FALSE
        OBVIOUS
      <3>1. Rank(reqs, i) = Rank(reqs, k) /\ Rank(reqs, i) \in Nat
        <4>1. Rank(reqs, i) \in Nat
          BY RankIsPositive
        <4> HIDE DEF a, rest
        <4> QED
          BY <1>2, <2>3, <4>1
      <3>2. i < k \/ k < i
        BY <1>5
      <3>3. Rank(reqs, i) < Rank(reqs, k) \/ Rank(reqs, k) < Rank(reqs, i)
        BY <3>2, <2>3, RanksDiffer
      <3> QED
        BY <3>1, <3>3
    <2> QED
      BY <2>1, <2>2, <2>3
  <1>6. \A i \in DOMAIN reqs : a[i] \in F
    <2> TAKE i \in DOMAIN reqs
    <2>1. CASE reqs[i] # ""
      BY <1>3, <1>4, <2>1
    <2>2. CASE reqs[i] = ""
      BY <1>2, <2>2
    <2> QED
      BY <2>1, <2>2
  <1>7. \A i \in DOMAIN reqs : reqs[i] # "" => HostAt(p, a[i]).name = reqs[i]
    BY <1>3, <1>4
  <1> HIDE DEF a
  <1>8. Serves(p, a, F, reqs)
    BY <1>5, <1>6, <1>7 DEF Serves
  <1> QED
    BY <1>8 DEF a

\* Assign refuses only what nobody could place.
LEMMA NoWayToServe ==
  ASSUME NEW p \in Pool, NEW F \in SUBSET AllSlots(p), NEW reqs \in Seq(Name),
         NEW f \in [DOMAIN reqs -> F], Serves(p, f, F, reqs)
  PROVE  Assignable(p, F, reqs)
  <1>1. IsFiniteSet(F) /\ Cardinality(F) \in Nat
    BY SlotsAreFinite
  <1>2. Cardinality(F) >= Len(reqs)
    <2>1. f \in Injection(DOMAIN reqs, F)
      BY DEF Injection, IsInjective, Serves
    <2>2. Cardinality(DOMAIN reqs) = Len(reqs) /\ Len(reqs) \in Nat
      BY RequestsAreCounted
    <2>3. Cardinality(DOMAIN reqs) <= Cardinality(F)
      BY <1>1, <2>1, FS_Injection
    <2> QED
      BY <2>2, <2>3, <1>1
  <1>3. ASSUME NEW i \in Pinned(reqs)
        PROVE  /\ \E k \in AllSlots(p) : HostAt(p, k).name = reqs[i]
               /\ Rank(reqs, i) <= Cardinality(On(p, F, reqs[i]))
    <2> DEFINE R == {j \in 1..i : reqs[j] = reqs[i]}
               O == On(p, F, reqs[i])
               g == [j \in R |-> f[j]]
    <2>1. i \in DOMAIN reqs /\ reqs[i] # "" /\ R \subseteq DOMAIN reqs
      <3>1. i \in DOMAIN reqs /\ reqs[i] # ""
        BY DEF Pinned
      <3>2. 1..i \subseteq DOMAIN reqs
        BY <3>1, RequestsAreCounted
      <3> QED
        BY <3>1, <3>2
    <2>2. f[i] \in AllSlots(p) /\ HostAt(p, f[i]).name = reqs[i]
      BY <2>1 DEF Serves
    <2>3. g \in Injection(R, O)
      <3>1. \A j \in R : f[j] \in O
        BY <2>1 DEF Serves, On
      <3>2. \A j, k \in R : f[j] = f[k] => j = k
        BY <2>1 DEF Serves
      <3> HIDE DEF R, O
      <3> QED
        BY <3>1, <3>2 DEF Injection, IsInjective
    <2>4. IsFiniteSet(O)
      <3>1. O \in SUBSET F
        BY DEF On
      <3> HIDE DEF O
      <3> QED
        BY <3>1, <1>1, FS_Subset
    <2>5. Cardinality(R) <= Cardinality(O)
      <3> HIDE DEF R, O, g
      <3> QED
        BY <2>3, <2>4, FS_Injection
    <2> QED
      BY <2>2, <2>5 DEF Rank
  <1> QED
    BY <1>2, <1>3 DEF Assignable

-----------------------------------------------------------------------------
(* Types.                                                                  *)

Places == {"idle", "locking", "looking", "saving", "releasing"}
Inside == {"looking", "saving", "releasing"}
Locks == {LockName[w] : w \in Workspaces}

\* What an allocator was asked is a request that may be made of this set.
AskedFor(w) ==
  ask[w] \in Requests /\ ask[w].server \in 0..Len(set.hosts)

Tables ==
  /\ DOMAIN rec = Workspaces /\ DOMAIN ask = Workspaces
  /\ DOMAIN taken = Workspaces /\ DOMAIN table = Workspaces

\* Who is between taking the set's lock and releasing it holds it.
LockFits == \A w \in Workspaces : (pc[w] \in Inside) = (holder[LockName[w]] = w)

PlacementTypes ==
  /\ set \in Pools /\ torn \subseteq Workspaces
  /\ pc \in [Workspaces -> Places]
  /\ read \in [Workspaces -> SUBSET Workspaces]
  /\ answer \in [Workspaces -> {"none", "placed", "full", "unfit"}]
  /\ holder \in [Locks -> Workspaces \cup {Nobody}]
  /\ missed \subseteq Workspaces \X Workspaces
  /\ places \in 0..MaxPlaces /\ rewrites \in 0..MaxRewrites
  /\ Tables /\ LockFits
  /\ \A w \in Workspaces : pc[w] # "idle" => AskedFor(w)

LEMMA NobodyIsNoWorkspace == Nobody \notin Workspaces
BY PlacementAssumption DEF Nobody

LEMMA OutcomeType ==
  ASSUME NEW w \in Workspaces
  PROVE  Outcome(w) \in {"placed", "full", "unfit"}
BY DEF Outcome

LEMMA TypesAtFirst == PlacementInit => PlacementTypes
  <1> SUFFICES ASSUME PlacementInit PROVE PlacementTypes
    OBVIOUS
  <1>1. places \in 0..MaxPlaces /\ rewrites \in 0..MaxRewrites
    BY PlacementAssumption DEF PlacementInit
  <1>2. Tables
    BY DEF PlacementInit, Tables
  <1>3. holder \in [Locks -> Workspaces \cup {Nobody}]
    BY DEF PlacementInit, Locks
  <1>4. LockFits
    <2> SUFFICES ASSUME NEW w \in Workspaces
                 PROVE  (pc[w] \in Inside) = (holder[LockName[w]] = w)
      BY DEF LockFits
    <2>1. LockName[w] \in Locks
      BY DEF Locks
    <2>2. holder[LockName[w]] = Nobody /\ pc[w] = "idle"
      BY <2>1 DEF PlacementInit, Locks
    <2> QED
      BY <2>2, NobodyIsNoWorkspace DEF Inside
  <1> QED
    BY <1>1, <1>2, <1>3, <1>4 DEF PlacementInit, PlacementTypes, Places

\* A step of w that leaves every other allocator alone.
LEMMA TypesKept ==
  ASSUME PlacementTypes, PlacementNext
  PROVE  PlacementTypes'
  <1> USE DEF PlacementTypes, Tables
  <1> PICK w \in Workspaces :
        \/ PlaceNodes(w) \/ AcquireSetLock(w) \/ Contended(w)
        \/ \E v \in Workspaces : Look(w, v)
        \/ Allocate(w) \/ Save(w) \/ Release(w) \/ Crash(w)
        \/ Rm(w) \/ Rewrite(w)
    BY DEF PlacementNext
  <1>0. /\ \A u \in Workspaces : LockName[u] \in Locks
        /\ w # Nobody
    BY NobodyIsNoWorkspace DEF Locks
  <1>1. CASE PlaceNodes(w)
    <2>1. PICK r \in Requests : r.server <= Len(set.hosts) /\ ask' = [ask EXCEPT ![w] = r]
      BY <1>1 DEF PlaceNodes
    <2>2. \A u \in Workspaces : pc'[u] # "idle" => AskedFor(u)'
      <3>1. r.server \in 0..Len(set.hosts)
        <4>1. r.server \in Nat /\ set \in Pool
          BY PlacementAssumption DEF PlacementTypes
        <4>2. Len(set.hosts) \in Nat
          BY <4>1 DEF Pool
        <4> QED
          BY <2>1, <4>1, <4>2
      <3>2. /\ set' = set /\ ask'[w] = r
            /\ \A u \in Workspaces \ {w} : ask'[u] = ask[u] /\ pc'[u] = pc[u]
        BY <1>1, <2>1 DEF PlaceNodes, PlacementTypes, Tables
      <3> QED
        BY <2>1, <3>1, <3>2 DEF AskedFor, PlacementTypes
    <2>3. places' \in 0..MaxPlaces
      BY <1>1, PlacementAssumption DEF PlaceNodes
    <2>4. LockFits'
      BY <1>1 DEF PlaceNodes, LockFits, Inside
    <2>5. Tables'
      BY <1>1, <2>1 DEF PlaceNodes
    <2> QED
      BY <1>1, <2>2, <2>3, <2>4, <2>5 DEF PlaceNodes, Places
  <1>2. CASE AcquireSetLock(w)
    <2>1. LockFits'
      <3> SUFFICES ASSUME NEW u \in Workspaces
                   PROVE  (pc'[u] \in Inside) = (holder'[LockName[u]] = u)
        BY DEF LockFits
      <3>1. pc'[u] = (IF u = w THEN "looking" ELSE pc[u])
            /\ holder'[LockName[u]] = IF LockName[u] = LockName[w] THEN w ELSE holder[LockName[u]]
        BY <1>0, <1>2 DEF AcquireSetLock
      <3>2. (pc[u] \in Inside) = (holder[LockName[u]] = u)
        BY DEF LockFits
      <3>3. LockName[u] = LockName[w] => holder[LockName[u]] # u
        BY <1>2, NobodyIsNoWorkspace DEF AcquireSetLock
      <3> QED
        BY <3>1, <3>2, <3>3 DEF Inside
    <2>2. \A u \in Workspaces : pc'[u] # "idle" => AskedFor(u)'
      BY <1>2 DEF AcquireSetLock, AskedFor
    <2> QED
      BY <1>2, <2>1, <2>2 DEF AcquireSetLock, Places
  <1>3. CASE Contended(w)
    <2>1. LockFits'
      BY <1>0, <1>3 DEF Contended, Ends, LockFits, Inside
    <2>2. \A u \in Workspaces : pc'[u] # "idle" => AskedFor(u)'
      BY <1>3 DEF Contended, Ends, AskedFor
    <2> QED
      BY <1>3, <2>1, <2>2 DEF Contended, Ends, Places
  <1>4. ASSUME NEW v \in Workspaces, Look(w, v)
        PROVE  PlacementTypes'
    <2>1. LockFits'
      BY <1>4 DEF Look, LockFits
    <2>2. \A u \in Workspaces : pc'[u] # "idle" => AskedFor(u)'
      BY <1>4 DEF Look, AskedFor
    <2>3. missed' \subseteq Workspaces \X Workspaces /\ DOMAIN taken' = Workspaces
      BY <1>4 DEF Look
    <2> QED
      BY <1>4, <2>1, <2>2, <2>3 DEF Look
  <1>5. CASE Allocate(w)
    <2>1. LockFits'
      BY <1>0, <1>5 DEF Allocate, LockFits, Inside
    <2>2. \A u \in Workspaces : pc'[u] # "idle" => AskedFor(u)'
      BY <1>5 DEF Allocate, AskedFor
    <2>3. DOMAIN table' = Workspaces
      BY <1>5 DEF Allocate
    <2>4. answer' \in [Workspaces -> {"none", "placed", "full", "unfit"}]
      BY <1>5, OutcomeType DEF Allocate
    <2> QED
      BY <1>5, <2>1, <2>2, <2>3, <2>4 DEF Allocate, Places
  <1>6. CASE Save(w)
    <2>1. LockFits'
      BY <1>0, <1>6 DEF Save, LockFits, Inside
    <2>2. \A u \in Workspaces : pc'[u] # "idle" => AskedFor(u)'
      BY <1>6 DEF Save, AskedFor
    <2> QED
      BY <1>6, <2>1, <2>2 DEF Save, Places
  <1>7. CASE Release(w)
    <2>1. LockFits'
      <3> SUFFICES ASSUME NEW u \in Workspaces
                   PROVE  (pc'[u] \in Inside) = (holder'[LockName[u]] = u)
        BY DEF LockFits
      <3>1. pc'[u] = (IF u = w THEN "idle" ELSE pc[u])
            /\ holder'[LockName[u]] = IF LockName[u] = LockName[w] THEN Nobody
                                     ELSE holder[LockName[u]]
        BY <1>0, <1>7 DEF Release, Ends
      <3>2. (pc[u] \in Inside) = (holder[LockName[u]] = u) /\ holder[LockName[w]] = w
        BY <1>7 DEF LockFits, Release, Inside
      <3>3. u # Nobody
        BY NobodyIsNoWorkspace
      <3> QED
        BY <3>1, <3>2, <3>3 DEF Inside
    <2>2. \A u \in Workspaces : pc'[u] # "idle" => AskedFor(u)'
      BY <1>7 DEF Release, Ends, AskedFor
    <2> QED
      BY <1>7, <2>1, <2>2 DEF Release, Ends, Places
  <1>8. CASE Crash(w)
    <2>1. LockFits'
      BY <1>0, <1>8, NobodyIsNoWorkspace DEF Crash, Ends, LockFits, Inside
    <2>2. \A u \in Workspaces : pc'[u] # "idle" => AskedFor(u)'
      BY <1>8 DEF Crash, Ends, AskedFor
    <2> QED
      BY <1>8, <2>1, <2>2 DEF Crash, Ends, Places
  <1>9. CASE Rm(w)
    <2>1. LockFits' /\ \A u \in Workspaces : pc'[u] # "idle" => AskedFor(u)'
      BY <1>9 DEF Rm, LockFits, AskedFor
    <2> QED
      BY <1>9, <2>1 DEF Rm
  <1>10. CASE Rewrite(w)
    <2>1. LockFits' /\ \A u \in Workspaces : pc'[u] # "idle" => AskedFor(u)'
      BY <1>10 DEF Rewrite, LockFits, AskedFor
    <2>2. rewrites' \in 0..MaxRewrites
      BY <1>10, PlacementAssumption DEF Rewrite
    <2> QED
      BY <1>10, <2>1, <2>2 DEF Rewrite
  <1> QED
    BY <1>1, <1>2, <1>3, <1>4, <1>5, <1>6, <1>7, <1>8, <1>9, <1>10

LEMMA TypesInvariant == PlacementSpec => []PlacementTypes
  <1>1. ASSUME PlacementTypes, UNCHANGED placementVars
        PROVE  PlacementTypes'
    BY <1>1 DEF PlacementTypes, Tables, LockFits, AskedFor, placementVars
  <1>2. PlacementTypes /\ [PlacementNext]_placementVars => PlacementTypes'
    BY <1>1, TypesKept
  <1> QED
    BY <1>2, TypesAtFirst, PTL DEF PlacementSpec

\* Every state of a placement is well formed: the allocators that are between the
\* look and the release are exactly the holders of their set's lock
\* (steps_place.go, PlaceNodes; AcquireSetLock).
THEOREM PlacementTypeCorrect == PlacementSpec => []PlacementTypeOK
  <1>1. PlacementTypes => PlacementTypeOK
    BY DEF PlacementTypes, PlacementTypeOK, LockFits, Inside, Places
  <1> QED
    BY <1>1, TypesInvariant, PTL

-----------------------------------------------------------------------------
(* A refusal is right, and so is a placement.                              *)

LEMMA SameRequests ==
  ASSUME NEW n \in Nat
  PROVE  [i \in 1..n |-> ""] \in Seq(Name)
  <1> DEFINE f == [i \in 1..n |-> ""]
  <1>1. f \in [1..n -> Name]
    BY DEF Name
  <1> HIDE DEF f
  <1>2. f \in UNION {[1..m -> Name] : m \in Nat}
    BY <1>1
  <1>3. f \in Seq(Name)
    BY <1>2, SeqDef
  <1> QED
    BY <1>3 DEF f

LEMMA PoolIsAPool ==
  ASSUME PlacementTypes, NEW w \in Workspaces, pc[w] # "idle"
  PROVE  /\ set \in Pool /\ set.hosts # <<>>
         /\ PoolOf(w) \in Pool
         /\ placements(w) \in Seq(Name)
  <1>1. set \in Pool /\ set.hosts # <<>>
    BY PlacementAssumption DEF PlacementTypes
  <1>2. ask[w] \in Requests /\ ask[w].server \in 0..Len(set.hosts)
    BY DEF PlacementTypes, AskedFor
  <1>3. PoolOf(w) \in Pool
    <2>1. CASE ask[w].server = 0
      BY <1>1, <2>1 DEF PoolOf
    <2>2. CASE ask[w].server # 0
      <3> DEFINE H == [name : STRING, addr : STRING]
                 h == set.hosts[ask[w].server]
      <3>1. set.hosts \in Seq(H) /\ Len(set.hosts) \in Nat
        BY <1>1 DEF Pool
      <3>2. ask[w].server \in 1..Len(set.hosts)
        BY <1>2, <2>2, <3>1
      <3> HIDE DEF H
      <3>3. h \in H
        BY <3>1, <3>2
      <3> HIDE DEF h
      <3>4. <<h>> \in Seq(H)
        BY <3>3
      <3> DEFINE hs == <<h>>
      <3> HIDE DEF hs
      <3>5. [set EXCEPT !.hosts = hs] \in Pool
        BY <1>1, <3>4 DEF Pool, H, hs
      <3> QED
        BY <2>2, <3>5 DEF PoolOf, h, hs
    <2> QED
      BY <2>1, <2>2
  <1>4. placements(w) \in Seq(Name)
    <2>1. Len(PoolOf(w).hosts) \in Nat /\ DOMAIN PoolOf(w).hosts = 1..Len(PoolOf(w).hosts)
      BY <1>3 DEF Pool
    <2>2. [i \in DOMAIN PoolOf(w).hosts |-> ""] \in Seq(Name)
      BY <2>1, SameRequests
    <2>3. \/ ask[w].layout.auto = "yes"
          \/ ask[w].layout.auto = "no" /\ ask[w].layout.pins \in Seq(Name)
      <3>1. STRING \subseteq Name
        BY DEF Name
      <3>2. \A s \in Seq(STRING) : s \in Seq(Name)
        BY <3>1, SeqMonotonic
      <3> QED
        BY <1>2, <3>2, PlacementAssumption
    <2> QED
      <3>1. <<>> \in Seq(Name)
        OBVIOUS
      <3>2. CASE ask[w].layout.auto = "yes"
        BY <2>2, <3>1, <3>2 DEF placements
      <3>3. CASE ask[w].layout.auto = "no"
        BY <2>3, <3>3 DEF placements
      <3> QED
        BY <2>3, <3>2, <3>3
  <1> QED
    BY <1>1, <1>3, <1>4

LEMMA StepsAssignWell ==
  ASSUME PlacementTypes, PlacementNext, NEW w \in Workspaces,
         pc[w] = "looking", pc'[w] = "saving"
  PROVE  /\ answer'[w] = "full" =>
               ~\E f \in [DOMAIN placements(w) -> free(w)] :
                   Serves(PoolOf(w), f, free(w), placements(w))
         /\ answer'[w] = "placed" =>
               Serves(PoolOf(w), [i \in DOMAIN placements(w) |-> table'[w][i].slot], free(w),
                      placements(w))
  <1> DEFINE p == PoolOf(w)
             reqs == placements(w)
             F == free(w)
             a == Assign(p, F, reqs)
  <1>1. Allocate(w)
    <2>1. pc \in [Workspaces -> Places]
      BY DEF PlacementTypes
    <2>2. ASSUME NEW u \in Workspaces,
                 \/ PlaceNodes(u) \/ AcquireSetLock(u) \/ Contended(u)
                 \/ \E v \in Workspaces : Look(u, v)
                 \/ Save(u) \/ Release(u) \/ Crash(u) \/ Rm(u) \/ Rewrite(u)
          PROVE  FALSE
      BY <2>1, <2>2 DEF PlaceNodes, AcquireSetLock, Contended, Ends, Look, Save, Release, Crash,
                        Rm, Rewrite
    <2>3. ASSUME NEW u \in Workspaces, Allocate(u)
          PROVE  u = w
      BY <2>1, <2>3 DEF Allocate
    <2> QED
      BY <2>2, <2>3 DEF PlacementNext
  <1>2. p \in Pool /\ reqs \in Seq(Name) /\ F \in SUBSET AllSlots(p)
    BY PoolIsAPool DEF free
  <1>3. answer'[w] = Outcome(w)
    BY <1>1 DEF Allocate, PlacementTypes
  <1>4. ASSUME answer'[w] = "full"
        PROVE  ~\E f \in [DOMAIN reqs -> F] : Serves(p, f, F, reqs)
    <2>1. ~ Assignable(p, F, reqs)
      BY <1>3, <1>4 DEF Outcome
    <2> HIDE DEF p, F, reqs
    <2> QED
      BY <2>1, <1>2, NoWayToServe
  <1>5. ASSUME answer'[w] = "placed"
        PROVE  Serves(p, [i \in DOMAIN reqs |-> table'[w][i].slot], F, reqs)
    <2>1. answer'[w] = "placed" /\ Assignable(p, F, reqs)
      BY <1>3, <1>5 DEF Outcome
    <2>2. Serves(p, a, F, reqs)
      <3> HIDE DEF p, F, reqs
      <3> QED
        BY <2>1, <1>2, AssignServes
    <2>3. DOMAIN a = DOMAIN reqs
      BY DEF Assign
    <2>4. table'[w] = [i \in DOMAIN a |-> Placed(w, a[i])]
      BY <1>1, <2>1 DEF Allocate, PlacementTypes, Tables
    <2>5. \A i \in DOMAIN reqs : table'[w][i].slot = a[i]
      BY <2>3, <2>4 DEF Placed
    <2> HIDE DEF p, F, reqs, a
    <2> QED
      BY <2>2, <2>5 DEF Serves
  <1> QED
    BY <1>4, <1>5

\* A layout is refused for want of room only when there is no way to place it on
\* what is free, and the placement given is one: for every set of servers, every
\* layout and every state of the other networks (inventory.go, Assign).
THEOREM AssignmentComplete == PlacementSpec => AssignIsComplete
  <1>1. PlacementTypes /\ [PlacementNext]_placementVars => [AssignIsComplete!1]_placementVars
    BY StepsAssignWell
  <1> QED
    BY <1>1, TypesInvariant, PTL DEF PlacementSpec, AssignIsComplete

-----------------------------------------------------------------------------
(* The grid and its ports.                                                 *)

LEMMA Division ==
  ASSUME NEW L \in Nat \ {0}, NEW a \in Nat
  PROVE  a % L \in 0..(L - 1) /\ a \div L \in Nat /\ a = L * (a \div L) + (a % L)
  <1>1. a % L \in 0..(L - 1)
    OBVIOUS
  <1>2. a \div L \in Nat
    OBVIOUS
  <1>3. a = L * (a \div L) + (a % L)
    OBVIOUS
  <1> QED
    BY <1>1, <1>2, <1>3

LEMMA QuotientBelow ==
  ASSUME NEW L \in Nat \ {0}, NEW m \in Nat \ {0}, NEW q \in Nat, NEW r \in 0..(L - 1),
         L * q + r < L * m
  PROVE  q < m
  <1> SUFFICES ASSUME q >= m PROVE FALSE
    OBVIOUS
  <1>1. L * q >= L * m
    OBVIOUS
  <1> QED
    BY <1>1

\* A slot is of a host of the pool and an index below its slots, and no two slots
\* are of one host and one index.
LEMMA GridCells ==
  ASSUME NEW p \in Pool, p.hosts # <<>>, NEW k \in AllSlots(p)
  PROVE  /\ Column(p, k) \in DOMAIN p.hosts /\ IndexAt(p, k) \in 1..p.slots
         /\ k = Len(p.hosts) * (IndexAt(p, k) - 1) + Column(p, k)
  <1> DEFINE L == Len(p.hosts)
             m == p.slots
             q == (k - 1) \div L
             r == (k - 1) % L
  <1>1. L \in Nat \ {0} /\ m \in Nat \ {0} /\ DOMAIN p.hosts = 1..L
    BY DEF Pool
  <1>2. k \in 1 .. L * m
    BY DEF AllSlots
  <1> HIDE DEF L, m
  <1>3. k - 1 \in Nat /\ k - 1 < L * m /\ k \in Nat
    <2>1. L * m \in Nat
      BY <1>1
    <2> QED
      BY <1>2, <2>1
  <1>4. r \in 0..(L - 1) /\ q \in Nat /\ k - 1 = L * q + r
    BY <1>1, <1>3, Division
  <1> HIDE DEF q, r
  <1>5. q < m
    BY <1>1, <1>3, <1>4, QuotientBelow
  <1>6. Column(p, k) = r + 1 /\ IndexAt(p, k) = q + 1
    BY DEF Column, IndexAt, L, q, r
  <1>7. r + 1 \in 1..L /\ q + 1 \in 1..m
    BY <1>1, <1>4, <1>5
  <1>8. k = L * ((q + 1) - 1) + (r + 1)
    <2>1. (q + 1) - 1 = q
      BY <1>4
    <2>2. L * q \in Nat
      BY <1>1, <1>4
    <2> QED
      BY <1>3, <1>4, <2>1, <2>2
  <1> QED
    BY <1>1, <1>6, <1>7, <1>8 DEF L, m

\* A node of a family that reserves less takes no port that one that reserves
\* more would not take.
LEMMA SmallerSpan ==
  ASSUME NEW p, NEW i, NEW s \in Nat, NEW t \in Nat, s <= t, NEW x \in Purposes
  PROVE  PlanBands(i, p, s)[x] \in {0, PlanBands(i, p, t)[x]}
  <1>1. (s >= 2 => t >= 2) /\ (s >= 3 => t >= 3)
    OBVIOUS
  <1>2. CASE x = "etcd"
    BY <1>1, <1>2 DEF PlanBands
  <1>3. CASE x = "etcdClient"
    BY <1>1, <1>3 DEF PlanBands
  <1>4. CASE x \in Purposes \ {"etcd", "etcdClient"}
    BY <1>4 DEF PlanBands, Purposes
  <1> QED
    BY <1>2, <1>3, <1>4

\* Two slots of one machine have no port in common, whatever the families of the
\* nodes on them.
LEMMA PortsApart ==
  ASSUME NEW p, NEW i \in 1..p.slots, NEW j \in 1..p.slots, i # j,
         NEW s \in Nat, NEW t \in Nat, ValidatePorts(p, s), ValidatePorts(p, t)
  PROVE  Ports(PlanBands(i, p, s)) \cap Ports(PlanBands(j, p, t)) = {}
  <1> SUFFICES ASSUME NEW x \in Purposes, NEW y \in Purposes,
                      PlanBands(i, p, s)[x] = PlanBands(j, p, t)[y],
                      PlanBands(i, p, s)[x] # 0
               PROVE  FALSE
    BY DEF Ports
  <1>1. CASE s <= t
    <2>1. PlanBands(i, p, s)[x] = PlanBands(i, p, t)[x]
      BY <1>1, SmallerSpan
    <2>2. PlanBands(i, p, t)[x] = PlanBands(j, p, t)[y] /\ PlanBands(i, p, t)[x] # 0
      BY <2>1
    <2> QED
      BY <2>2 DEF ValidatePorts
  <1>2. CASE t <= s
    <2>1. PlanBands(j, p, t)[y] = PlanBands(j, p, s)[y]
      BY <1>2, SmallerSpan
    <2>2. PlanBands(i, p, s)[x] = PlanBands(j, p, s)[y] /\ PlanBands(i, p, s)[x] # 0
      BY <2>1
    <2> QED
      BY <2>2 DEF ValidatePorts
  <1> QED
    BY <1>1, <1>2

-----------------------------------------------------------------------------
(* No port is shared.                                                      *)

\* The node has the ports of a slot of a server of the set, in a plan that was
\* found free of collisions.
Sits(p, n) ==
  \E c \in DOMAIN p.hosts, i \in 1..p.slots, s \in Nat :
    /\ n.addr = p.hosts[c].addr
    /\ n.host = IF p.remote = "yes" THEN p.hosts[c].name ELSE p.hosts[c].addr
    /\ ValidatePorts(p, s) /\ n.ports = PlanBands(i, p, s)

\* A node table whose nodes all sit in the set, and apart.
Seated(p, nodes) ==
  /\ \A i \in DOMAIN nodes : Sits(p, nodes[i])
  /\ \A i, j \in DOMAIN nodes : i # j => ~ Clash(nodes[i], nodes[j])

\* Of two node tables, no two nodes clash on a machine that is one entry of the set.
Compatible(p, a, b) ==
  \A i \in DOMAIN a, j \in DOMAIN b : Clash(a[i], b[j]) => ~ OneEntry(p, a[i].addr)

AllSeated == \A w \in Workspaces : Seated(set, rec[w]) /\ Seated(set, table[w])

RecordsCompatible ==
  \A v, w \in Workspaces : v # w => Strangers(v, w) \/ Compatible(set, rec[v], rec[w])

\* Before the lock is taken nothing has been read; after that, what was read is
\* among the slots taken.
Looked ==
  \A w \in Workspaces :
    /\ pc[w] \in {"idle", "locking"} => read[w] = {}
    /\ pc[w] = "looking" =>
         \A v \in read[w] : Strangers(w, v) \/ Adopt(PoolOf(w), rec[v]) \subseteq taken[w]

\* What is about to be saved goes with what the others have.
ToSave ==
  \A w \in Workspaces : pc[w] = "saving" =>
    \A v \in Workspaces \ {w} : Strangers(w, v) \/ Compatible(set, table[w], rec[v])

PortInv == AllSeated /\ RecordsCompatible /\ Looked /\ ToSave

LEMMA PoolEntries ==
  ASSUME PlacementTypes, NEW w \in Workspaces, pc[w] # "idle", NEW k \in AllSlots(PoolOf(w))
  PROVE  /\ PoolOf(w).hosts # <<>>
         /\ ask[w].server = 0 => PoolOf(w) = set
         /\ ask[w].server # 0 => /\ ask[w].server \in DOMAIN set.hosts
                                /\ PoolOf(w).hosts = <<set.hosts[ask[w].server]>>
                                /\ DOMAIN PoolOf(w).hosts = {1}
         /\ PoolOf(w).slots = set.slots
         /\ Column(PoolOf(w), k) \in DOMAIN PoolOf(w).hosts
         /\ IndexAt(PoolOf(w), k) \in 1..set.slots
         /\ \A i, s : PlanBands(i, PoolOf(w), s) = PlanBands(i, set, s)
         /\ PoolOf(w).p2p = set.p2p
  <1>1. set \in Pool /\ set.hosts # <<>> /\ PoolOf(w) \in Pool
    BY PoolIsAPool
  <1>2. ask[w].server \in 0..Len(set.hosts) /\ DOMAIN set.hosts = 1..Len(set.hosts)
        /\ Len(set.hosts) \in Nat
    BY <1>1 DEF PlacementTypes, AskedFor, Pool
  <1>3. /\ ask[w].server = 0 => PoolOf(w) = set
        /\ ask[w].server # 0 => /\ ask[w].server \in DOMAIN set.hosts
                               /\ PoolOf(w).hosts = <<set.hosts[ask[w].server]>>
                               /\ DOMAIN PoolOf(w).hosts = {1}
    <2>1. CASE ask[w].server = 0
      BY <2>1 DEF PoolOf
    <2>2. CASE ask[w].server # 0
      <3>1. ask[w].server \in DOMAIN set.hosts
        BY <1>2, <2>2
      <3>2. PoolOf(w).hosts = <<set.hosts[ask[w].server]>>
        BY <1>1, <2>2 DEF PoolOf, Pool
      <3>3. DOMAIN PoolOf(w).hosts = {1}
        BY <3>2
      <3> QED
        BY <2>2, <3>1, <3>2, <3>3
    <2> QED
      BY <2>1, <2>2
  <1>4. /\ PoolOf(w).slots = set.slots /\ PoolOf(w).p2p = set.p2p /\ PoolOf(w).rpc = set.rpc
        /\ PoolOf(w).ws = set.ws /\ PoolOf(w).auth = set.auth /\ PoolOf(w).metrics = set.metrics
    BY <1>1 DEF PoolOf, Pool
  <1>5. \A i, s : PlanBands(i, PoolOf(w), s) = PlanBands(i, set, s)
    BY <1>4, Zenon DEF PlanBands
  <1>6. PoolOf(w).hosts # <<>>
    <2>1. CASE ask[w].server = 0
      BY <1>1, <1>3, <2>1
    <2>2. CASE ask[w].server # 0
      <3>1. DOMAIN PoolOf(w).hosts = {1}
        BY <1>3, <2>2
      <3>2. DOMAIN <<>> = {}
        OBVIOUS
      <3> QED
        BY <3>1, <3>2
    <2> QED
      BY <2>1, <2>2
  <1> QED
    BY <1>1, <1>3, <1>4, <1>5, <1>6, GridCells

\* The server of the set that a slot of the pool is on.
Entry(w, k) == IF ask[w].server = 0 THEN Column(PoolOf(w), k) ELSE ask[w].server

LEMMA EntryOfSlot ==
  ASSUME PlacementTypes, NEW w \in Workspaces, pc[w] # "idle", NEW k \in AllSlots(PoolOf(w))
  PROVE  /\ Entry(w, k) \in DOMAIN set.hosts
         /\ HostAt(PoolOf(w), k) = set.hosts[Entry(w, k)]
  <1>1. CASE ask[w].server = 0
    BY <1>1, PoolEntries DEF Entry, HostAt
  <1>2. CASE ask[w].server # 0
    <2>1. /\ ask[w].server \in DOMAIN set.hosts
          /\ PoolOf(w).hosts = <<set.hosts[ask[w].server]>>
          /\ Column(PoolOf(w), k) = 1
      BY <1>2, PoolEntries
    <2> QED
      BY <1>2, <2>1 DEF Entry, HostAt
  <1> QED
    BY <1>1, <1>2

LEMMA PlanIsTheSets ==
  ASSUME PlacementTypes, NEW w \in Workspaces, pc[w] # "idle", NEW k \in AllSlots(PoolOf(w)),
         Validate(PoolOf(w), ask[w].span)
  PROVE  ValidatePorts(set, ask[w].span)
  <1>1. ValidatePorts(PoolOf(w), ask[w].span)
    BY DEF Validate
  <1>2. PoolOf(w).slots = set.slots
        /\ \A i : PlanBands(i, PoolOf(w), ask[w].span) = PlanBands(i, set, ask[w].span)
    BY PoolEntries
  <1> QED
    BY <1>1, <1>2 DEF ValidatePorts

LEMMA PlacedSits ==
  ASSUME PlacementTypes, NEW w \in Workspaces, pc[w] # "idle", NEW k \in AllSlots(PoolOf(w)),
         Validate(PoolOf(w), ask[w].span)
  PROVE  Sits(set, Placed(w, k))
  <1>1. ValidatePorts(set, ask[w].span)
    BY PlanIsTheSets
  <1>2. Entry(w, k) \in DOMAIN set.hosts /\ HostAt(PoolOf(w), k) = set.hosts[Entry(w, k)]
    BY EntryOfSlot
  <1>3. IndexAt(PoolOf(w), k) \in 1..set.slots
        /\ \A i, s : PlanBands(i, PoolOf(w), s) = PlanBands(i, set, s)
    BY PoolEntries
  <1>4. ask[w].span \in Nat
    BY PlacementAssumption DEF PlacementTypes, AskedFor
  <1> QED
    BY <1>1, <1>2, <1>3, <1>4 DEF Sits, Placed

\* What is placed clashes with no node but those that sit in its own slot, and the
\* allocator that reads such a node's record adopts that slot.
LEMMA ClashIsSeen ==
  ASSUME PlacementTypes, NEW w \in Workspaces, pc[w] # "idle",
         NEW k \in AllSlots(PoolOf(w)), Validate(PoolOf(w), ask[w].span),
         NEW n, Sits(set, n), Clash(Placed(w, k), n), OneEntry(set, n.addr)
  PROVE  k \in slotOf(PoolOf(w), n)
  <1> DEFINE p == PoolOf(w)
             j == IndexAt(p, k)
             e == Entry(w, k)
             t == ask[w].span
  <1>1. PICK c \in DOMAIN set.hosts, i \in 1..set.slots, s \in Nat :
          /\ n.addr = set.hosts[c].addr
          /\ n.host = IF set.remote = "yes" THEN set.hosts[c].name ELSE set.hosts[c].addr
          /\ ValidatePorts(set, s) /\ n.ports = PlanBands(i, set, s)
    BY DEF Sits
  <1>2. e \in DOMAIN set.hosts /\ HostAt(p, k) = set.hosts[e]
    BY EntryOfSlot
  <1>3. c = e
    <2>1. Placed(w, k).addr = set.hosts[e].addr
      BY <1>2 DEF Placed
    <2> QED
      BY <1>1, <1>2, <2>1 DEF Clash, OneEntry
  <1>4. j \in 1..set.slots /\ \A x, y : PlanBands(x, p, y) = PlanBands(x, set, y)
    BY PoolEntries
  <1>5. i = j
    <2>1. t \in Nat /\ s \in Nat
      BY PlacementAssumption DEF PlacementTypes, AskedFor
    <2>2. Placed(w, k).ports = PlanBands(j, set, t)
      BY <1>4 DEF Placed
    <2>3. ValidatePorts(set, t)
      BY PlanIsTheSets
    <2>4. Ports(PlanBands(j, set, t)) \cap Ports(PlanBands(i, set, s)) # {}
      BY <1>1, <2>2 DEF Clash
    <2> HIDE DEF j, t
    <2> QED
      BY <1>1, <1>4, <2>1, <2>3, <2>4, PortsApart
  <1>6. n.ports["p2p"] = At(p.p2p, j)
    <2>1. n.ports = PlanBands(j, set, s)
      BY <1>1, <1>5
    <2>2. p.p2p = set.p2p
      BY PoolEntries
    <2> HIDE DEF j, p
    <2> QED
      BY <2>1, <2>2 DEF PlanBands
  <1>7. Column(p, k) \in firstNamed(p, n.host)
    <2>1. n.host \in {set.hosts[c].name, set.hosts[c].addr}
      BY <1>1
    <2>2. Column(p, k) \in named(p, n.host)
      <3>1. Column(p, k) \in DOMAIN p.hosts /\ p.hosts[Column(p, k)] = set.hosts[c]
        BY <1>2, <1>3, PoolEntries DEF HostAt
      <3> QED
        BY <2>1, <3>1 DEF named
    <2>3. \A x \in named(p, n.host) : x = Column(p, k)
      <3>1. CASE ask[w].server = 0
        <4>1. p = set /\ Column(p, k) = c
          BY <1>3, <3>1, PoolEntries DEF Entry
        <4>2. \A x \in DOMAIN set.hosts : x # c => n.host \notin {set.hosts[x].name, set.hosts[x].addr}
            BY <1>1, <2>1 DEF OneEntry
        <4> QED
          BY <4>1, <4>2 DEF named
      <3>2. CASE ask[w].server # 0
        <4>1. DOMAIN p.hosts = {1} /\ Column(p, k) = 1
          BY <3>2, PoolEntries
        <4> QED
          BY <4>1 DEF named
      <3> QED
        BY <3>1, <3>2
    <2>4. Column(p, k) \in Int
      <3>1. p \in Pool /\ Column(p, k) \in DOMAIN p.hosts
        BY PoolIsAPool, PoolEntries
      <3>2. DOMAIN p.hosts = 1..Len(p.hosts)
        BY <3>1 DEF Pool
      <3> QED
        BY <3>1, <3>2
    <2> HIDE DEF p
    <2> QED
      BY <2>2, <2>3, <2>4 DEF firstNamed
  <1> QED
    BY <1>6, <1>7 DEF slotOf

\* Two slots of one placement are apart.
LEMMA PlacedApart ==
  ASSUME PlacementTypes, NEW w \in Workspaces, pc[w] # "idle",
         NEW k \in AllSlots(PoolOf(w)), NEW l \in AllSlots(PoolOf(w)), k # l,
         Validate(PoolOf(w), ask[w].span)
  PROVE  ~ Clash(Placed(w, k), Placed(w, l))
  <1> SUFFICES ASSUME Clash(Placed(w, k), Placed(w, l)) PROVE FALSE
    OBVIOUS
  <1> DEFINE p == PoolOf(w)
             t == ask[w].span
             i == IndexAt(p, k)
             j == IndexAt(p, l)
  <1>1. p \in Pool /\ p.hosts # <<>>
    BY PoolIsAPool, PoolEntries
  <1>2. Column(p, k) = Column(p, l)
    <2>1. Column(p, k) \in DOMAIN p.hosts /\ Column(p, l) \in DOMAIN p.hosts
      BY PoolEntries
    <2>2. p.hosts[Column(p, k)].addr = p.hosts[Column(p, l)].addr
      BY DEF Clash, Placed, HostAt
    <2> QED
      BY <2>1, <2>2 DEF Validate
  <1>3. i # j
    <2>1. /\ k = Len(p.hosts) * (i - 1) + Column(p, k)
          /\ l = Len(p.hosts) * (j - 1) + Column(p, l)
      BY <1>1, GridCells
    <2> HIDE DEF i, j, p
    <2> QED
      BY <1>2, <2>1
  <1>4. /\ i \in 1..set.slots /\ j \in 1..set.slots
        /\ \A x, y : PlanBands(x, p, y) = PlanBands(x, set, y)
    BY PoolEntries
  <1>5. Ports(PlanBands(i, set, t)) \cap Ports(PlanBands(j, set, t)) # {}
    BY <1>4 DEF Clash, Placed
  <1>6. ValidatePorts(set, t) /\ t \in Nat
    BY PlanIsTheSets, PlacementAssumption DEF PlacementTypes, AskedFor
  <1> HIDE DEF i, j, t
  <1> QED
    BY <1>3, <1>4, <1>5, <1>6, PortsApart

LEMMA EmptyTable ==
  /\ DOMAIN <<>> = {}
  /\ \A p : Seated(p, <<>>)
  /\ \A p, a : Compatible(p, a, <<>>) /\ Compatible(p, <<>>, a)
  /\ \A p : Adopt(p, <<>>) = {}
  <1>1. DOMAIN <<>> = {}
    OBVIOUS
  <1> QED
    BY <1>1 DEF Seated, Compatible, Adopt

LEMMA CompatibleIsSymmetric ==
  ASSUME NEW p, NEW a, NEW b, Compatible(p, a, b)
  PROVE  Compatible(p, b, a)
  <1>1. \A m, n : Clash(m, n) => Clash(n, m) /\ m.addr = n.addr
    BY DEF Clash
  <1> QED
    BY <1>1 DEF Compatible

LEMMA PortInvAtFirst == PlacementInit => PortInv
  <1> SUFFICES ASSUME PlacementInit PROVE PortInv
    OBVIOUS
  <1>1. \A w \in Workspaces : rec[w] = <<>> /\ table[w] = <<>> /\ pc[w] = "idle" /\ read[w] = {}
    BY DEF PlacementInit
  <1> QED
    BY <1>1, EmptyTable DEF PortInv, AllSeated, RecordsCompatible, Looked, ToSave

\* Of the allocators that take one lock, at most one is between the look and the
\* release.
LEMMA OneInside ==
  ASSUME PlacementTypes, NEW v \in Workspaces, NEW w \in Workspaces,
         pc[v] \in Inside, pc[w] \in Inside, LockName[v] = LockName[w]
  PROVE  v = w
  <1>1. holder[LockName[v]] = v /\ holder[LockName[w]] = w
    BY DEF PlacementTypes, LockFits
  <1> QED
    BY <1>1

\* Whether two networks are strangers changes only with what was passed over.
LEMMA StillStrangers ==
  ASSUME missed' = missed
  PROVE  \A v, w : Strangers(v, w)' = Strangers(v, w)
BY DEF Strangers

\* A step that keeps every record, and of every allocator what it has done so far or
\* nothing of it.
LEMMA QuietKeepsPorts ==
  ASSUME PlacementTypes, PortInv, UNCHANGED <<set, rec, missed>>,
         \A u \in Workspaces :
           \/ UNCHANGED <<ask[u], read[u], taken[u], table[u]>> /\ pc'[u] = pc[u]
           \/ read'[u] = {} /\ table'[u] \in {table[u], <<>>} /\ pc'[u] # "saving"
  PROVE  PortInv'
  <1>1. AllSeated'
    BY EmptyTable DEF PortInv, AllSeated
  <1>2. RecordsCompatible'
    BY StillStrangers DEF PortInv, RecordsCompatible
  <1>3. Looked'
    BY StillStrangers DEF PortInv, Looked, PoolOf
  <1>4. ToSave'
    BY StillStrangers DEF PortInv, ToSave
  <1> QED
    BY <1>1, <1>2, <1>3, <1>4 DEF PortInv

LEMMA LookKeepsPorts ==
  ASSUME PlacementTypes, PortInv, NEW w \in Workspaces, NEW v \in Workspaces, Look(w, v)
  PROVE  PortInv'
  <1>1. \A x, y : Strangers(x, y) => Strangers(x, y)'
    <2>1. missed \subseteq missed'
      BY DEF Look
    <2> QED
      BY <2>1 DEF Strangers
  <1>2. AllSeated' /\ RecordsCompatible' /\ ToSave'
    BY <1>1 DEF PortInv, Look, AllSeated, RecordsCompatible, ToSave
  <1>3. Looked'
    <2> SUFFICES ASSUME NEW u \in Workspaces
                 PROVE  /\ pc[u] \in {"idle", "locking"} => read'[u] = {}
                        /\ pc[u] = "looking" =>
                             \A x \in read'[u] :
                               Strangers(u, x)' \/ Adopt(PoolOf(u), rec[x]) \subseteq taken'[u]
      BY DEF Look, Looked, PoolOf
    <2>1. CASE u # w
      <3>1. read'[u] = read[u] /\ taken'[u] = taken[u]
        BY <2>1 DEF Look, PlacementTypes, Tables
      <3> QED
        BY <1>1, <3>1 DEF PortInv, Looked
    <2>2. CASE u = w
      <3>1. read'[w] = read[w] \cup {v} /\ taken[w] \subseteq taken'[w] /\ pc[w] = "looking"
        BY DEF Look, PlacementTypes, Tables
      <3>2. Strangers(w, v)' \/ Adopt(PoolOf(w), rec[v]) \subseteq taken'[w]
        BY DEF Look, PlacementTypes, Tables, Strangers
      <3>3. \A x \in read[w] :
              Strangers(w, x) \/ Adopt(PoolOf(w), rec[x]) \subseteq taken[w]
        BY <3>1 DEF PortInv, Looked
      <3>4. \A x \in read'[w] :
              Strangers(w, x)' \/ Adopt(PoolOf(w), rec[x]) \subseteq taken'[w]
        BY <1>1, <3>1, <3>2, <3>3
      <3> QED
        BY <2>2, <3>1, <3>4
    <2> QED
      BY <2>1, <2>2
  <1> QED
    BY <1>2, <1>3 DEF PortInv

\* What Allocate means to save sits apart, and goes with every record it has read.
LEMMA AllocateIsCompatible ==
  ASSUME PlacementTypes, PortInv, NEW w \in Workspaces, Allocate(w)
  PROVE  /\ Seated(set, table'[w])
         /\ \A v \in Workspaces \ {w} : Strangers(w, v) \/ Compatible(set, table'[w], rec[v])
  <1> DEFINE p == PoolOf(w)
             reqs == placements(w)
             a == Assign(p, free(w), reqs)
  <1>1. CASE Outcome(w) # "placed"
    <2>1. table'[w] = rec[w]
      BY <1>1 DEF Allocate, PlacementTypes, Tables
    <2> QED
      BY <2>1 DEF PortInv, AllSeated, RecordsCompatible, Strangers
  <1>2. CASE Outcome(w) = "placed"
    <2>1. pc[w] # "idle" /\ Validate(p, ask[w].span) /\ Assignable(p, free(w), reqs)
      BY <1>2 DEF Outcome, Allocate
    <2>2. p \in Pool /\ reqs \in Seq(Name) /\ free(w) \in SUBSET AllSlots(p)
      BY <2>1, PoolIsAPool DEF free
    <2>3. Serves(p, a, free(w), reqs)
      <3> HIDE DEF p, reqs
      <3> QED
        BY <2>1, <2>2, AssignServes
    <2>4. DOMAIN a = DOMAIN reqs
      BY DEF Assign
    <2>5. table'[w] = [i \in DOMAIN a |-> Placed(w, a[i])]
      BY <1>2 DEF Allocate, PlacementTypes, Tables
    <2> HIDE DEF a
    <2>6. \A i \in DOMAIN a : a[i] \in AllSlots(p) /\ a[i] \notin taken[w]
      BY <2>3, <2>4 DEF Serves, free
    <2>7. \A i, j \in DOMAIN a : i # j => a[i] # a[j]
      BY <2>3, <2>4 DEF Serves
    <2>8. Seated(set, table'[w])
      <3>1. \A i \in DOMAIN a : Sits(set, Placed(w, a[i]))
        BY <2>1, <2>6, PlacedSits
      <3>2. \A i, j \in DOMAIN a : i # j => ~ Clash(Placed(w, a[i]), Placed(w, a[j]))
        BY <2>1, <2>6, <2>7, PlacedApart
      <3> QED
        BY <2>5, <3>1, <3>2 DEF Seated
    <2>9. ASSUME NEW v \in Workspaces \ {w}
          PROVE  Strangers(w, v) \/ Compatible(set, table'[w], rec[v])
      <3> SUFFICES ASSUME ~ Strangers(w, v)
                   PROVE  Compatible(set, table'[w], rec[v])
        OBVIOUS
      <3>1. v \in read[w] /\ pc[w] = "looking"
        BY DEF Allocate, Found, Strangers
      <3>2. Adopt(p, rec[v]) \subseteq taken[w]
        BY <3>1 DEF PortInv, Looked
      <3>3. ASSUME NEW i \in DOMAIN a, NEW j \in DOMAIN rec[v], Clash(Placed(w, a[i]), rec[v][j]),
                   OneEntry(set, Placed(w, a[i]).addr)
            PROVE  FALSE
        <4>1. Sits(set, rec[v][j])
          BY DEF PortInv, AllSeated, Seated
        <4>2. OneEntry(set, rec[v][j].addr)
          BY <3>3 DEF Clash
        <4>3. a[i] \in slotOf(p, rec[v][j])
          BY <2>1, <2>6, <3>3, <4>1, <4>2, ClashIsSeen
        <4>4. a[i] \in Adopt(p, rec[v])
          BY <4>3 DEF Adopt
        <4> QED
          BY <2>6, <3>2, <4>4
      <3> QED
        BY <2>5, <3>3 DEF Compatible
    <2> QED
      BY <2>8, <2>9
  <1> QED
    BY <1>1, <1>2

LEMMA AllocateKeepsPorts ==
  ASSUME PlacementTypes, PortInv, NEW w \in Workspaces, Allocate(w)
  PROVE  PortInv'
  <1>1. /\ Seated(set, table'[w])
        /\ \A v \in Workspaces \ {w} : Strangers(w, v) \/ Compatible(set, table'[w], rec[v])
    BY AllocateIsCompatible
  <1>2. /\ UNCHANGED <<set, rec, missed, ask, read, taken>>
        /\ \A u \in Workspaces \ {w} : table'[u] = table[u] /\ pc'[u] = pc[u]
        /\ pc'[w] = "saving"
    BY DEF Allocate, PlacementTypes, Tables
  <1>3. AllSeated'
    BY <1>1, <1>2 DEF PortInv, AllSeated
  <1>4. RecordsCompatible'
    BY <1>2, StillStrangers DEF PortInv, RecordsCompatible
  <1>5. Looked'
    BY <1>2, StillStrangers DEF PortInv, Looked, PoolOf
  <1>6. ToSave'
    BY <1>1, <1>2, StillStrangers DEF PortInv, ToSave
  <1> QED
    BY <1>3, <1>4, <1>5, <1>6 DEF PortInv

LEMMA SaveKeepsPorts ==
  ASSUME PlacementTypes, PortInv, NEW w \in Workspaces, Save(w)
  PROVE  PortInv'
  <1>1. /\ UNCHANGED <<set, missed, ask, read, taken, table>>
        /\ \A u \in Workspaces \ {w} : rec'[u] = rec[u] /\ pc'[u] = pc[u]
        /\ rec'[w] = table[w] /\ pc'[w] = "releasing" /\ pc[w] = "saving"
    BY DEF Save, PlacementTypes, Tables
  <1>2. \A u \in Workspaces \ {w} : pc[u] \notin Inside \/ Strangers(u, w)
    BY <1>1, OneInside DEF Inside, Strangers
  <1>3. AllSeated'
    BY <1>1 DEF PortInv, AllSeated
  <1>4. RecordsCompatible'
    <2> SUFFICES ASSUME NEW u \in Workspaces, NEW v \in Workspaces, u # v, ~ Strangers(u, v)
                 PROVE  Compatible(set, rec'[u], rec'[v])
      BY <1>1, StillStrangers DEF RecordsCompatible
    <2>1. CASE u = w
      BY <1>1, <2>1 DEF PortInv, ToSave
    <2>2. CASE v = w
      <3>1. Compatible(set, table[w], rec[u])
        BY <1>1, <2>2 DEF PortInv, ToSave, Strangers
      <3> QED
        BY <1>1, <2>2, <3>1, CompatibleIsSymmetric
    <2>3. CASE u # w /\ v # w
      BY <1>1, <2>3 DEF PortInv, RecordsCompatible
    <2> QED
      BY <2>1, <2>2, <2>3
  <1>5. Looked'
    <2> SUFFICES ASSUME NEW u \in Workspaces
                 PROVE  /\ pc'[u] \in {"idle", "locking"} => read[u] = {}
                        /\ pc'[u] = "looking" =>
                             \A v \in read[u] :
                               Strangers(u, v) \/ Adopt(PoolOf(u), rec'[v]) \subseteq taken[u]
      BY <1>1, StillStrangers DEF Looked, PoolOf
    <2>1. CASE u = w
      BY <1>1, <2>1
    <2>2. CASE u # w
      <3>1. pc'[u] = pc[u]
        BY <1>1, <2>2
      <3>2. ASSUME pc[u] = "looking", NEW v \in read[u]
            PROVE  Strangers(u, v) \/ Adopt(PoolOf(u), rec'[v]) \subseteq taken[u]
        <4>1. v \in Workspaces
          BY DEF PlacementTypes
        <4>2. CASE v = w
          BY <1>2, <2>2, <3>2, <4>2 DEF Inside
        <4>3. CASE v # w
          BY <1>1, <3>2, <4>1, <4>3 DEF PortInv, Looked
        <4> QED
          BY <4>2, <4>3
      <3> QED
        BY <3>1, <3>2 DEF PortInv, Looked
    <2> QED
      BY <2>1, <2>2
  <1>6. ToSave'
    <2> SUFFICES ASSUME NEW u \in Workspaces, pc'[u] = "saving", NEW v \in Workspaces \ {u}
                 PROVE  Strangers(u, v) \/ Compatible(set, table[u], rec'[v])
      BY <1>1, StillStrangers DEF ToSave
    <2>1. u # w /\ pc[u] = "saving"
      BY <1>1
    <2>2. CASE v = w
      BY <1>2, <2>1, <2>2 DEF Inside
    <2>3. CASE v # w
      BY <1>1, <2>1, <2>3 DEF PortInv, ToSave
    <2> QED
      BY <2>2, <2>3
  <1> QED
    BY <1>3, <1>4, <1>5, <1>6 DEF PortInv

LEMMA RmKeepsPorts ==
  ASSUME PlacementTypes, PortInv, NEW w \in Workspaces, Rm(w)
  PROVE  PortInv'
  <1>1. /\ UNCHANGED <<set, missed, ask, read, taken, table, pc>>
        /\ \A u \in Workspaces \ {w} : rec'[u] = rec[u]
        /\ rec'[w] = <<>>
    BY DEF Rm, PlacementTypes, Tables
  <1>2. AllSeated'
    BY <1>1, EmptyTable DEF PortInv, AllSeated
  <1>3. RecordsCompatible'
    BY <1>1, EmptyTable, StillStrangers DEF PortInv, RecordsCompatible
  <1>4. Looked'
    <2> SUFFICES ASSUME NEW u \in Workspaces, pc[u] = "looking", NEW v \in read[u],
                        ~ Strangers(u, v)
                 PROVE  Adopt(PoolOf(u), rec'[v]) \subseteq taken[u]
      BY <1>1, StillStrangers DEF PortInv, Looked, PoolOf
    <2>1. v \in Workspaces
      BY DEF PlacementTypes
    <2>2. Adopt(PoolOf(u), rec[v]) \subseteq taken[u]
      BY DEF PortInv, Looked
    <2> QED
      BY <1>1, <2>1, <2>2, EmptyTable
  <1>5. ToSave'
    BY <1>1, EmptyTable, StillStrangers DEF PortInv, ToSave
  <1> QED
    BY <1>2, <1>3, <1>4, <1>5 DEF PortInv

LEMMA StepKeepsPorts ==
  ASSUME PlacementTypes, PortInv, PlacementNext
  PROVE  PortInv'
  <1> PICK w \in Workspaces :
        \/ PlaceNodes(w) \/ AcquireSetLock(w) \/ Contended(w)
        \/ \E v \in Workspaces : Look(w, v)
        \/ Allocate(w) \/ Save(w) \/ Release(w) \/ Crash(w)
        \/ Rm(w) \/ Rewrite(w)
    BY DEF PlacementNext
  <1>1. CASE PlaceNodes(w)
    <2>1. read[w] = {}
      BY <1>1 DEF PlaceNodes, PortInv, Looked
    <2>2. PICK x : ask' = [ask EXCEPT ![w] = x]
      BY <1>1 DEF PlaceNodes
    <2>3. /\ UNCHANGED <<set, rec, missed, read, taken, table>> /\ pc'[w] = "locking"
          /\ \A u \in Workspaces \ {w} : ask'[u] = ask[u] /\ pc'[u] = pc[u]
      BY <1>1, <2>2 DEF PlaceNodes, PlacementTypes, Tables
    <2> QED
      BY <2>1, <2>3, QuietKeepsPorts
  <1>2. CASE AcquireSetLock(w)
    <2>1. read[w] = {}
      BY <1>2 DEF AcquireSetLock, PortInv, Looked
    <2>2. /\ UNCHANGED <<set, rec, missed, read, taken, table, ask>> /\ pc'[w] = "looking"
          /\ \A u \in Workspaces \ {w} : pc'[u] = pc[u]
      BY <1>2 DEF AcquireSetLock, PlacementTypes
    <2> QED
      BY <2>1, <2>2, QuietKeepsPorts
  <1>3. CASE Contended(w) \/ Release(w) \/ Crash(w)
    <2>1. /\ UNCHANGED <<set, rec, missed>>
          /\ read'[w] = {} /\ table'[w] = <<>> /\ pc'[w] = "idle"
          /\ \A u \in Workspaces \ {w} :
               UNCHANGED <<ask[u], read[u], taken[u], table[u]>> /\ pc'[u] = pc[u]
      BY <1>3 DEF Contended, Release, Crash, Ends, PlacementTypes, Tables
    <2> QED
      BY <2>1, QuietKeepsPorts
  <1>4. CASE Rewrite(w)
    <2>1. UNCHANGED <<set, rec, missed, read, taken, table, ask, pc>>
      BY <1>4 DEF Rewrite
    <2> QED
      BY <2>1, QuietKeepsPorts
  <1> QED
    BY <1>1, <1>2, <1>3, <1>4, LookKeepsPorts, AllocateKeepsPorts, SaveKeepsPorts, RmKeepsPorts

\* No two nodes recorded on one machine share a port, however many networks, servers,
\* slots, families and crashes there are, except on a machine that the set has under
\* two names, and except for two networks of which one lies where Discover does not
\* look, that take different locks, or of which one passed over the other's record
\* while it was being saved (steps_place.go, PlaceNodes; observe_discover.go,
\* Inventory; setlock.go, setLockPath).
THEOREM PortsAreNotShared == PlacementSpec => []NoPortShared
  <1>1. PlacementTypes /\ PortInv /\ [PlacementNext]_placementVars => PortInv'
    <2> SUFFICES ASSUME PlacementTypes, PortInv, [PlacementNext]_placementVars
                 PROVE  PortInv'
      OBVIOUS
    <2>1. CASE PlacementNext
      BY <2>1, StepKeepsPorts
    <2>2. CASE UNCHANGED placementVars
      BY <2>2, QuietKeepsPorts DEF placementVars
    <2> QED
      BY <2>1, <2>2
  <1>2. PortInv => NoPortShared
    <2> SUFFICES ASSUME PortInv, NEW v \in Workspaces, NEW w \in Workspaces,
                        NEW i \in DOMAIN rec[v], NEW j \in DOMAIN rec[w],
                        <<v, i>> # <<w, j>>, Clash(rec[v][i], rec[w][j])
                 PROVE  v # w /\ (Strangers(v, w) \/ ~ OneEntry(set, rec[v][i].addr))
      BY DEF NoPortShared
    <2>2. CASE v = w
      BY <2>2 DEF PortInv, AllSeated, Seated
    <2>3. CASE v # w
      BY <2>3 DEF PortInv, RecordsCompatible, Compatible
    <2> QED
      BY <2>2, <2>3
  <1> QED
    BY <1>1, <1>2, PortInvAtFirst, TypesInvariant, PTL DEF PlacementSpec

-----------------------------------------------------------------------------
(* The gate.                                                               *)

Answer == [ok : {"yes", "no"}, height : Nat, peers : {"yes", "no"}, syncing : {"yes", "no"}]

\* How far the round has asked, at each place of the loop: the evidence of one
\* round is dropped before the next begins and before a node is restarted.
Asked ==
    /\ at \in {"round", "sampling", "restarting", "restarted", "waiting"} => seen = NoAnswer
    /\ at = "probing" => \E k \in 0..Count - 1 : DOMAIN seen = 1..k
    /\ at \in {"peers", "syncing"} =>
          \E k \in Nodes : /\ DOMAIN seen = 1..k
                           /\ seen[k].ok = "no" /\ (at = "peers" => seen[k].peers = "no")
    /\ at \in {"comparing", "judging"} => DOMAIN seen = Nodes
    /\ at = "restarting" => todo # {}
    /\ at = "waiting" => waits # 0

\* All that a node has to be, it was seen to be.
FitAsSeen(n) == retired(n) \/ \A a \in Aspects : SeenTo(n, a)

\* An answer is of the past, and a chain only grows.
NotAhead == \A n \in DOMAIN seen : seen[n].height <= height[n]

\* What is left of the reading when the gate has returned.
Grounds ==
    /\ outcome \in {"terminate", "error"} => seen = NoAnswer
    /\ outcome = "ok" => DOMAIN seen = Nodes /\ \A n \in Nodes : FitAsSeen(n)

GateInv == TypeOK /\ Asked /\ NotAhead /\ Grounds

-----------------------------------------------------------------------------
(* Facts about the pieces. *)

LEMMA Numbers == /\ Count \in Nat /\ Count >= 2
                 /\ Nodes = 1..Count
                 /\ \A f \in Forks : /\ f.at \in Nat /\ f.preFork \subseteq Nodes
                                     /\ f.restart \in {"yes", "no"}
                                     /\ f.handedOver \in {"yes", "no"}
BY GateAssumption DEF Nodes

LEMMA NobodyAsked == /\ NoAnswer \in [1..0 -> Answer] /\ DOMAIN NoAnswer = {}
                     /\ \E k \in 0..Count : NoAnswer \in [1..k -> Answer]
<1>1. 1..0 = {}
  OBVIOUS
<1>2. NoAnswer \in [1..0 -> Answer] /\ DOMAIN NoAnswer = {}
  BY <1>1 DEF NoAnswer
<1>3. 0 \in 0..Count
  BY Numbers
<1>. QED  BY <1>2, <1>3

\* The lowest of the nodes to restart exists.
LEMMA FirstIsOne ==
  ASSUME NEW S \in SUBSET Nodes, S # {}
  PROVE  First(S) \in S
<1> DEFINE Less == OpToRel(<, Nat)
<1>1. S \subseteq Nat
  BY Numbers
<1>2. IsWellFoundedOn(Less, Nat)
  BY NatLessThanWellFounded
<1> HIDE DEF Less
<1>3. PICK x \in S : \A y \in S : ~(<<y, x>> \in Less)
  BY <1>1, <1>2, WFMin
<1>4. \A y \in S : x <= y
  <2>1. ASSUME NEW y \in S, y < x  PROVE  FALSE
    BY <1>1, <1>3, <2>1 DEF Less, OpToRel
  <2>. QED  BY <1>1, <2>1
<1>. QED  BY <1>3, <1>4 DEF First

-----------------------------------------------------------------------------
(* Every step keeps GateInv. *)

\* What FitAsSeen says depends on the fork and on the reading only.
LEMMA SameReading ==
  ASSUME UNCHANGED <<fork, seen>>
  PROVE  /\ \A n \in Nodes : FitAsSeen(n)' = FitAsSeen(n)
         /\ Shown' = Shown
<1>1. \A n : retired(n)' = retired(n)
  BY DEF retired
<1>2. \A n, a : SeenTo(n, a)' = SeenTo(n, a)
  BY DEF SeenTo, WantMinHeight, Up
<1>. QED  BY <1>1, <1>2 DEF Shown, FitAsSeen

LEMMA StartsThere == Init => GateInv
<1> SUFFICES ASSUME Init  PROVE GateInv
  OBVIOUS
<1>1. fork.at \in Nat
  BY Numbers DEF Init
<1>2. height \in [Nodes -> Nat]
  BY <1>1 DEF Init
<1>5. proc \in [Nodes -> Processes]
  BY GateAssumption DEF Init, Nodes, Processes
<1>6. given \subseteq Nodes /\ fork \in Forks
  BY DEF Init
<1>3. TypeOK
  <2>1. \E k \in 0..Count : seen \in [1..k -> Answer]
    BY NobodyAsked DEF Init
  <2>2. restarts \in [Nodes -> 0..MaxRestarts] /\ waits \in 0..Waits /\ faults \in 0..MaxFaults
        /\ baseline \in Nat \cup {-1}
    BY GateAssumption DEF Init
  <2>. QED  BY <1>2, <1>5, <1>6, <2>1, <2>2 DEF Init, TypeOK, Answer
<1>4. Asked /\ NotAhead /\ Grounds
  BY NobodyAsked DEF Init, Asked, NotAhead, Grounds
<1>. QED  BY <1>3, <1>4 DEF GateInv

LEMMA EnvironmentKeeps ==
  ASSUME GateInv, Environment, UNCHANGED <<fork, given>>
  PROVE  GateInv'
<1> USE GateAssumption DEF network
<1>1. /\ UNCHANGED <<at, reading, budget, outcome, fork, given>>
      /\ proc' \in [Nodes -> Processes] /\ split' \in {"yes", "no"}
      /\ faults' \in 0..MaxFaults /\ ctx' \in {"live", "expired", "cancelled"}
      /\ height' \in [Nodes -> Nat] /\ \A n \in Nodes : height[n] <= height'[n]
  <2>0. TypeOK
    BY DEF GateInv
  <2>1. ASSUME NEW n \in Nodes, Settle(n)  PROVE <1>1!:
    BY <2>0, <2>1 DEF TypeOK, Settle, Processes, Answering
  <2>2. ASSUME NEW n \in Nodes, Grow(n)  PROVE <1>1!:
    <3>1. UNCHANGED <<at, reading, budget, outcome, fork, given, proc, split, faults, ctx>>
      BY <2>2 DEF Grow
    <3>2. height' \in [Nodes -> Nat] /\ \A m \in Nodes : height[m] <= height'[m]
      BY <2>0, <2>2 DEF TypeOK, Grow
    <3>. QED  BY <2>0, <3>1, <3>2 DEF TypeOK
  <2>3. CASE Disturb
    <3>1. UNCHANGED <<at, reading, budget, outcome, fork, given, height, ctx>>
      BY <2>3 DEF Disturb
    <3>2. faults' \in 0..MaxFaults
      BY <2>0, <2>3 DEF TypeOK, Disturb
    <3>3. proc' \in [Nodes -> Processes] /\ split' \in {"yes", "no"}
      BY <2>0, <2>3 DEF TypeOK, Disturb, Processes
    <3>. QED  BY <2>0, <3>1, <3>2, <3>3 DEF TypeOK
  <2>4. CASE Expire
    BY <2>0, <2>4 DEF TypeOK, Expire
  <2>5. CASE Cancel
    BY <2>0, <2>5 DEF TypeOK, Cancel
  <2>. QED  BY <2>1, <2>2, <2>3, <2>4, <2>5 DEF Environment
<1>3. TypeOK'
  BY <1>1 DEF GateInv, TypeOK, reading, budget
<1>4. DOMAIN seen \subseteq Nodes /\ \A n \in DOMAIN seen : seen[n].height \in Nat
  BY Numbers DEF GateInv, TypeOK
<1>5. NotAhead'
  BY <1>1, <1>4 DEF GateInv, TypeOK, NotAhead, reading
<1>6. Asked'
  BY <1>1 DEF GateInv, Asked, reading, budget
<1>7. Grounds'
  BY <1>1, SameReading DEF GateInv, Grounds, reading
<1>. QED  BY <1>3, <1>5, <1>6, <1>7 DEF GateInv

\* A step that leaves the network and the answers alone.
LEMMA Quiet ==
  ASSUME GateInv, UNCHANGED <<fork, height, seen>>
  PROVE  NotAhead'
BY DEF GateInv, NotAhead

LEMMA BeginRoundKeeps ==
  ASSUME GateInv, BeginRound, UNCHANGED <<fork, given>>
  PROVE  GateInv'
<1>1. /\ UNCHANGED <<fork, given, network, ctx, seen, todo, failed, restarts, waits>>
      /\ at = "round" /\ seen = NoAnswer
  BY DEF GateInv, Asked, BeginRound, reading, budget
<1>2. TypeOK'
  <2>1. Primary \in Nodes
    BY Numbers DEF Primary
  <2>2. pids' \subseteq Nodes /\ baseline' \in Nat \cup {-1}
    BY <2>1 DEF GateInv, TypeOK, BeginRound, reading
  <2>3. /\ at' \in {"sampling", "ended"} /\ UNCHANGED <<producing, forked>>
        /\ outcome' \in {"none", "terminate", "error"}
        /\ (outcome' # "none") = (at' = "ended")
    BY DEF GateInv, TypeOK, BeginRound, finishError, Return, reading
  <2>. QED  BY <1>1, <2>2, <2>3 DEF GateInv, TypeOK, network
<1>3. Asked' /\ Grounds'
  BY <1>1 DEF GateInv, Asked, Grounds, TypeOK, BeginRound, finishError, Return, reading
<1>. QED  BY <1>1, <1>2, <1>3, Quiet DEF GateInv, network

LEMMA SamplingKeeps ==
  ASSUME GateInv, detectProducing, UNCHANGED <<fork, given>>
  PROVE  GateInv'
<1>1. /\ UNCHANGED <<fork, given, network, ctx, pids, forked, seen, budget, outcome>>
      /\ at = "sampling" /\ at' = "probing" /\ seen = NoAnswer
  BY DEF GateInv, Asked, detectProducing
<1>2. TypeOK'
  BY <1>1 DEF GateInv, TypeOK, detectProducing, network, budget
<1>3. 0 \in 0..Count - 1 /\ 1..0 = {}
  BY Numbers
<1>4. Asked'
  BY <1>1, <1>3, NobodyAsked DEF Asked
<1>5. Grounds'
  BY <1>1 DEF GateInv, TypeOK, Grounds
<1>. QED  BY <1>1, <1>2, <1>4, <1>5, Quiet DEF GateInv, network

\* One call to node k: what it adds to what is known is so at that moment, what was
\* known stays, and nobody else's answer changes.
Called(k) ==
    /\ seen \in [1..k - 1 -> Answer] \/ seen \in [1..k -> Answer]
    /\ seen' \in [1..k -> Answer]
    /\ \A m \in 1..k - 1 : seen'[m] = seen[m]
    /\ seen'[k].height <= height[k]
    /\ k \in DOMAIN seen => /\ seen'[k].height = seen[k].height /\ seen[k].ok = "no"
                            /\ seen[k].peers = "yes" => seen'[k].peers = "yes"
    /\ seen'[k].peers = "yes" => \/ k \in DOMAIN seen /\ seen[k].peers = "yes"
                                 \/ proc[k] \in {"syncing", "serving"}
    /\ seen'[k].ok = "yes" /\ seen'[k].syncing = "no" => proc[k] \in {"alone", "serving"}
    /\ \/ at' = After(k)
       \/ at' = "peers" /\ seen'[k].ok = "no" /\ seen'[k].peers = "no"
       \/ at' = "syncing" /\ seen'[k].ok = "no"

Ask == askHeight \/ askPeers \/ askSyncing

\* Telling something of a node that has been asked last, or is asked next.
LEMMA Telling ==
  ASSUME NEW k \in Nodes, NEW j \in {k - 1, k}, seen \in [1..j -> Answer],
         NEW a \in Answer, NEW p, Tell(k, a, p)
  PROVE  /\ seen' \in [1..k -> Answer] /\ seen'[k] = a /\ at' = p
         /\ \A m \in 1..k - 1 : seen'[m] = seen[m]
<1>1. k \in Nat /\ k >= 1 /\ DOMAIN seen = 1..j
  BY Numbers
<1>2. 1..j \cup {k} = 1..k /\ 1..k - 1 \subseteq 1..j
  BY <1>1
<1>3. seen' = [m \in 1..k |-> IF m = k THEN a ELSE seen[m]] /\ at' = p
  BY <1>1, <1>2 DEF Tell
<1>4. \A m \in 1..k : m # k => m \in 1..j
  BY <1>1
<1>5. k \in 1..k /\ \A m \in 1..k - 1 : m \in 1..k /\ m # k
  BY <1>1
<1>. QED  BY <1>3, <1>4, <1>5

\* How many have been asked.
LEMMA Counted ==
  ASSUME NEW k \in Nat, seen \in [1..k -> Answer]
  PROVE  Asking = k
BY FS_Interval DEF Asking

LEMMA HeightIsALook ==
  ASSUME GateInv, askHeight
  PROVE  \E k \in Nodes : Called(k)
<1>1. PICK k \in 0..Count - 1 : DOMAIN seen = 1..k
  BY DEF GateInv, Asked, askHeight
<1>2. PICK j \in 0..Count : seen \in [1..j -> Answer]
  BY DEF GateInv, TypeOK, Answer
<1>3. k \in Nat /\ k + 1 \in Nodes /\ seen \in [1..k -> Answer] /\ (k + 1) - 1 = k
  BY <1>1, <1>2, Numbers
<1>4. Asking = k
  BY <1>3, Counted
<1> DEFINE n == k + 1
<1>5. n \in Nodes /\ n \notin DOMAIN seen /\ seen \in [1..n - 1 -> Answer] /\ height[n] \in Nat
  BY <1>3 DEF GateInv, TypeOK
<1>6. \/ Tell(n, [Blank EXCEPT !.height = height[n]], "peers")
      \/ Tell(n, Blank, After(n))
  BY <1>4 DEF askHeight
<1> HIDE DEF n
<1>7. CASE Tell(n, [Blank EXCEPT !.height = height[n]], "peers")
  <2> DEFINE a == [Blank EXCEPT !.height = height[n]]
  <2>1. a \in Answer /\ a.height = height[n] /\ a.ok = "no" /\ a.peers = "no"
    BY <1>5 DEF Blank, Answer
  <2> HIDE DEF a
  <2>2. Tell(n, a, "peers")
    BY <1>7 DEF a
  <2>3. seen' \in [1..n -> Answer] /\ seen'[n] = a /\ at' = "peers"
        /\ \A m \in 1..n - 1 : seen'[m] = seen[m]
    BY <1>5, <2>1, <2>2, Telling
  <2>. QED  BY <1>5, <2>1, <2>3 DEF Called
<1>8. CASE Tell(n, Blank, After(n))
  <2>1. Blank \in Answer /\ Blank.height = 0 /\ Blank.ok = "no" /\ Blank.peers = "no"
    BY DEF Blank, Answer
  <2>2. seen' \in [1..n -> Answer] /\ seen'[n] = Blank /\ at' = After(n)
        /\ \A m \in 1..n - 1 : seen'[m] = seen[m]
    BY <1>5, <1>8, <2>1, Telling
  <2>. QED  BY <1>5, <2>1, <2>2 DEF Called
<1>. QED  BY <1>6, <1>7, <1>8

\* The node the later calls are about.
LEMMA InHand ==
  ASSUME GateInv, at \in {"peers", "syncing"}
  PROVE  \E k \in Nodes : /\ seen \in [1..k -> Answer] /\ Asking = k /\ k \in 1..k
                           /\ seen[k] \in Answer /\ seen[k].ok = "no"
                           /\ (at = "peers" => seen[k].peers = "no")
                           /\ seen[k].height <= height[k]
<1>1. PICK k \in Nodes : /\ DOMAIN seen = 1..k
                        /\ seen[k].ok = "no" /\ (at = "peers" => seen[k].peers = "no")
  BY DEF GateInv, Asked
<1>2. PICK j \in 0..Count : seen \in [1..j -> Answer]
  BY DEF GateInv, TypeOK, Answer
<1>3. k \in Nat /\ k \in 1..k /\ seen \in [1..k -> Answer]
  BY <1>1, <1>2, Numbers
<1>4. Asking = k
  BY <1>3, Counted
<1>5. seen[k].height <= height[k]
  BY <1>1, <1>3 DEF GateInv, NotAhead
<1>. QED  BY <1>1, <1>3, <1>4, <1>5

LEMMA PeersIsALook ==
  ASSUME GateInv, askPeers
  PROVE  \E k \in Nodes : Called(k)
<1>1. PICK n \in Nodes : /\ seen \in [1..n -> Answer] /\ Asking = n /\ n \in 1..n
                        /\ seen[n] \in Answer /\ seen[n].ok = "no"
                        /\ seen[n].peers = "no" /\ seen[n].height <= height[n]
  BY InHand DEF askPeers
<1> DEFINE v == IF proc[n] = "alone" THEN "no" ELSE "yes"
           a == [seen[n] EXCEPT !.peers = v]
<1>2. Answers(n) => (v = "yes" => proc[n] \in {"syncing", "serving"})
  BY DEF Answers, Answering
<1>3. \/ Answers(n) /\ Tell(n, a, "syncing")
      \/ Tell(n, seen[n], After(n))
  BY <1>1 DEF askPeers
<1>4. v \in {"yes", "no"}
  OBVIOUS
<1> HIDE DEF v
<1>5. a \in Answer /\ a.height = seen[n].height /\ a.ok = "no" /\ a.peers = v
  BY <1>1, <1>4 DEF Answer
<1> HIDE DEF a
<1>6. CASE Answers(n) /\ Tell(n, a, "syncing")
  <2>1. seen' \in [1..n -> Answer] /\ seen'[n] = a /\ at' = "syncing"
        /\ \A m \in 1..n - 1 : seen'[m] = seen[m]
    BY <1>1, <1>5, <1>6, Telling
  <2>. QED  BY <1>1, <1>2, <1>5, <1>6, <2>1 DEF Called
<1>7. CASE Tell(n, seen[n], After(n))
  <2>1. seen' \in [1..n -> Answer] /\ seen'[n] = seen[n] /\ at' = After(n)
        /\ \A m \in 1..n - 1 : seen'[m] = seen[m]
    BY <1>1, <1>7, Telling
  <2>. QED  BY <1>1, <2>1 DEF Called
<1>. QED  BY <1>3, <1>6, <1>7

LEMMA SyncingIsALook ==
  ASSUME GateInv, askSyncing
  PROVE  \E k \in Nodes : Called(k)
<1>1. PICK n \in Nodes : /\ seen \in [1..n -> Answer] /\ Asking = n /\ n \in 1..n
                        /\ seen[n] \in Answer /\ seen[n].ok = "no"
                        /\ seen[n].height <= height[n]
  BY InHand DEF askSyncing
<1> DEFINE v == IF proc[n] = "syncing" THEN "yes" ELSE "no"
           a == [seen[n] EXCEPT !.ok = "yes", !.syncing = v]
<1>2. Answers(n) => (v = "no" => proc[n] \in {"alone", "serving"})
  BY DEF Answers, Answering
<1>3. \/ Answers(n) /\ Tell(n, a, After(n))
      \/ Tell(n, seen[n], After(n))
  BY <1>1 DEF askSyncing
<1>4. v \in {"yes", "no"}
  OBVIOUS
<1> HIDE DEF v
<1>5. a \in Answer /\ a.height = seen[n].height /\ a.peers = seen[n].peers /\ a.syncing = v
  BY <1>1, <1>4 DEF Answer
<1> HIDE DEF a
<1>6. CASE Answers(n) /\ Tell(n, a, After(n))
  <2>1. seen' \in [1..n -> Answer] /\ seen'[n] = a /\ at' = After(n)
        /\ \A m \in 1..n - 1 : seen'[m] = seen[m]
    BY <1>1, <1>5, <1>6, Telling
  <2>. QED  BY <1>1, <1>2, <1>5, <1>6, <2>1 DEF Called
<1>7. CASE Tell(n, seen[n], After(n))
  <2>1. seen' \in [1..n -> Answer] /\ seen'[n] = seen[n] /\ at' = After(n)
        /\ \A m \in 1..n - 1 : seen'[m] = seen[m]
    BY <1>1, <1>7, Telling
  <2>. QED  BY <1>1, <2>1 DEF Called
<1>. QED  BY <1>3, <1>6, <1>7

LEMMA AskIsALook ==
  ASSUME GateInv, Ask
  PROVE  \E k \in Nodes : Called(k)
BY HeightIsALook, PeersIsALook, SyncingIsALook DEF Ask

LEMMA AskKeeps ==
  ASSUME GateInv, Ask, UNCHANGED <<fork, given>>
  PROVE  GateInv'
<1>1. PICK k \in Nodes : Called(k)
  BY AskIsALook
<1>2. UNCHANGED <<fork, given, network, ctx, pids, baseline, producing, forked, budget, outcome>>
  BY DEF Ask, askHeight, askPeers, askSyncing
<1>0. outcome = "none"
  BY DEF Ask, askHeight, askPeers, askSyncing, GateInv, TypeOK
<1>3. k \in 0..Count /\ k \in Nat /\ Count \in Nat /\ (k # Count => k \in 0..Count - 1)
      /\ k \in 1..k /\ \A m \in 1..k : m = k \/ m \in 1..k - 1
  BY Numbers
<1>4. DOMAIN seen' = 1..k /\ seen' \in [1..k -> Answer]
      /\ at' \in {"peers", "syncing", "comparing", "probing"}
  BY <1>1 DEF Called, After
<1>5. TypeOK'
  BY <1>0, <1>2, <1>3, <1>4 DEF GateInv, TypeOK, network, budget, Answer
<1>6. Asked'
  <2>1. CASE at' = After(k)
    BY <2>1, <1>3, <1>4, Numbers DEF Asked, After
  <2>2. CASE at' = "peers" /\ seen'[k].ok = "no" /\ seen'[k].peers = "no"
    BY <2>2, <1>4 DEF Asked
  <2>3. CASE at' = "syncing" /\ seen'[k].ok = "no"
    BY <2>3, <1>4 DEF Asked
  <2>. QED  BY <1>1, <2>1, <2>2, <2>3 DEF Called
<1>7. NotAhead'
  <2>1. ASSUME NEW m \in 1..k - 1  PROVE seen'[m].height <= height[m]
    <3>1. m \in DOMAIN seen /\ seen'[m] = seen[m]
      BY <1>1, <1>3 DEF Called
    <3>. QED  BY <3>1 DEF GateInv, NotAhead
  <2>2. seen'[k].height <= height[k]
    BY <1>1 DEF Called
  <2>. QED  BY <1>2, <1>3, <1>4, <2>1, <2>2 DEF NotAhead, network
<1>8. Grounds'
  BY <1>0, <1>2 DEF Grounds
<1>. QED  BY <1>5, <1>6, <1>7, <1>8 DEF GateInv

LEMMA AgreementKeeps ==
  ASSUME GateInv, checkAgreement, UNCHANGED <<fork, given>>
  PROVE  GateInv'
<1>1. /\ UNCHANGED <<fork, given, network, ctx, pids, baseline, producing, seen, budget, outcome>>
      /\ at = "comparing" /\ at' = "judging" /\ forked' \in {"yes", "no"}
  BY DEF checkAgreement
<1>2. TypeOK'
  BY <1>1 DEF GateInv, TypeOK, network, budget
<1>3. Asked' /\ Grounds'
  BY <1>1 DEF GateInv, Asked, Grounds, TypeOK
<1>. QED  BY <1>1, <1>2, <1>3, Quiet DEF GateInv, network

\* A node that is ready was seen fit.
LEMMA ReadyIsFit ==
  ASSUME TypeOK, NEW n \in Nodes, DOMAIN seen = Nodes, Classify(n) = "ready"
  PROVE  FitAsSeen(n)
<1>1. CASE retired(n)
  BY <1>1 DEF FitAsSeen
<1>2. CASE ~retired(n)
  <2>1. ~lagging(n)
    BY <1>2 DEF Classify
  <2>2. seen[n] \in Answer
    BY DEF TypeOK, Answer
  <2>3. Up(n) /\ seen[n].syncing = "no" /\ seen[n].peers = "yes"
    BY <2>1, <2>2 DEF lagging, Answer
  <2>4. WantMinHeight(n) \in Nat /\ seen[n].height \in Nat
    BY <2>2, Numbers DEF WantMinHeight, TypeOK, Answer
  <2>5. ~(seen[n].height < WantMinHeight(n))
    BY <2>1 DEF lagging
  <2>6. seen[n].height >= WantMinHeight(n)
    BY <2>4, <2>5
  <2>. QED  BY <2>3, <2>6 DEF FitAsSeen, Aspects, SeenTo
<1>. QED  BY <1>1, <1>2

\* The three ways a judgement ends.
LEMMA Judged ==
  ASSUME GateInv, Judge, UNCHANGED <<fork, given>>
  PROVE  \/ /\ at' = "ended" /\ outcome' = "ok" /\ UNCHANGED <<reading, todo>>
            /\ \A n \in Nodes : FitAsSeen(n)
         \/ /\ at' = "ended" /\ outcome' \in {"terminate", "error"} /\ seen' = NoAnswer
            /\ pids' = {} /\ baseline' = -1 /\ producing' = "no" /\ forked' = "no"
            /\ UNCHANGED todo
         \/ /\ outcome = "none" /\ outcome' = "none" /\ seen' = NoAnswer
            /\ pids' = {} /\ baseline' = -1 /\ producing' = "no" /\ forked' = "no"
            /\ \/ at' = "restarting" /\ todo' \in SUBSET Nodes /\ todo' # {}
               \/ at' = "waiting" /\ waits # 0 /\ UNCHANGED todo
<1>1. at = "judging" /\ outcome = "none" /\ DOMAIN seen = Nodes
  BY DEF GateInv, TypeOK, Asked, Judge
<1>2. CASE ctx # "live" /\ finishError /\ UNCHANGED todo
  BY <1>1, <1>2 DEF Judge, finishError, Return
<1>3. CASE Return("terminate") /\ UNCHANGED todo
  BY <1>1, <1>3 DEF Judge, Return
<1>4. CASE Having("ready") = Nodes /\ Return("ok") /\ UNCHANGED todo
  <2>1. \A n \in Nodes : Classify(n) = "ready"
    BY <1>4 DEF Having
  <2>2. \A n \in Nodes : FitAsSeen(n)
    BY <1>1, <2>1, ReadyIsFit DEF GateInv
  <2>. QED  BY <1>4, <2>2 DEF Judge, Return
<1>5. CASE /\ Having("restartable") # {} /\ at' = "restarting"
           /\ todo' = Having("restartable") /\ UNCHANGED outcome
  BY <1>1, <1>5 DEF Judge, Having
<1>6. CASE at' = "waiting" /\ waits # 0 /\ UNCHANGED <<todo, outcome>>
  BY <1>1, <1>6 DEF Judge
<1>. QED  BY <1>2, <1>3, <1>4, <1>5, <1>6 DEF Judge

LEMMA JudgeKeeps ==
  ASSUME GateInv, Judge, UNCHANGED <<fork, given>>
  PROVE  GateInv'
<1>1. UNCHANGED <<fork, given, network, ctx, failed, restarts, waits>> /\ DOMAIN seen = Nodes
  BY DEF Judge, GateInv, Asked
<1>2. CASE /\ at' = "ended" /\ outcome' = "ok" /\ UNCHANGED <<reading, todo>>
           /\ \A n \in Nodes : FitAsSeen(n)
  <2>1. TypeOK'
    BY <1>1, <1>2 DEF GateInv, TypeOK, network, reading
  <2>2. Asked'
    BY <1>2 DEF Asked
  <2>3. UNCHANGED <<fork, seen, height>>
    BY <1>1, <1>2 DEF reading, network
  <2>4. Grounds'
    BY <1>1, <1>2, <2>3, SameReading DEF Grounds
  <2>. QED  BY <2>1, <2>2, <2>3, <2>4, Quiet DEF GateInv
<1>3. CASE /\ at' = "ended" /\ outcome' \in {"terminate", "error"} /\ seen' = NoAnswer
           /\ pids' = {} /\ baseline' = -1 /\ producing' = "no" /\ forked' = "no"
           /\ UNCHANGED todo
  <2>1. TypeOK'
    BY <1>1, <1>3, NobodyAsked DEF GateInv, TypeOK, network, Answer
  <2>2. Asked' /\ NotAhead' /\ Grounds'
    BY <1>3, NobodyAsked DEF Asked, NotAhead, Grounds
  <2>. QED  BY <2>1, <2>2 DEF GateInv
<1>4. CASE /\ outcome = "none" /\ outcome' = "none" /\ seen' = NoAnswer
           /\ pids' = {} /\ baseline' = -1 /\ producing' = "no" /\ forked' = "no"
           /\ \/ at' = "restarting" /\ todo' \in SUBSET Nodes /\ todo' # {}
              \/ at' = "waiting" /\ waits # 0 /\ UNCHANGED todo
  <2>1. TypeOK'
    BY <1>1, <1>4, NobodyAsked DEF GateInv, TypeOK, network, Answer
  <2>2. Asked' /\ NotAhead' /\ Grounds'
    BY <1>1, <1>4, NobodyAsked DEF Asked, NotAhead, Grounds
  <2>. QED  BY <2>1, <2>2 DEF GateInv
<1>. QED  BY <1>2, <1>3, <1>4, Judged

LEMMA RestartKeeps ==
  ASSUME GateInv, RestartNode, UNCHANGED <<fork, given>>
  PROVE  GateInv'
<1>1. /\ UNCHANGED <<fork, given, height, split, faults, ctx, pids, baseline, producing, forked, seen, waits>>
      /\ at = "restarting" /\ outcome = "none" /\ seen = NoAnswer /\ todo # {}
  BY DEF GateInv, TypeOK, Asked, RestartNode, reading
<1>2. First(todo) \in Nodes
  BY <1>1, FirstIsOne DEF GateInv, TypeOK
<1>3. /\ proc' \in [Nodes -> Processes] /\ todo' \subseteq Nodes /\ failed' \in {"yes", "no"}
      /\ restarts' \in [Nodes -> 0..MaxRestarts]
  <2>1. CASE Spent(First(todo))
    BY <2>1 DEF GateInv, TypeOK, RestartNode
  <2>2. CASE ~Spent(First(todo))
    <3> DEFINE n == First(todo)
    <3>1. /\ restarts' = [restarts EXCEPT ![n] = @ + 1] /\ todo' = todo \ {n}
          /\ failed' \in {"yes", "no"}
          /\ \/ proc' = [proc EXCEPT ![n] = "booting"]
             \/ proc' = [proc EXCEPT ![n] = "none"]
             \/ UNCHANGED proc
      BY <2>2 DEF RestartNode
    <3>2. restarts[n] \in 0..MaxRestarts /\ restarts[n] < MaxRestarts /\ MaxRestarts \in Nat
      BY <1>2, <2>2, GateAssumption DEF GateInv, TypeOK, Spent
    <3>5. restarts \in [Nodes -> 0..MaxRestarts] /\ n \in Nodes
      BY <1>2 DEF GateInv, TypeOK
    <3> HIDE DEF n
    <3>6. restarts[n] + 1 \in 0..MaxRestarts
      BY <3>2
    <3>3. restarts' \in [Nodes -> 0..MaxRestarts]
      BY <3>1, <3>5, <3>6
    <3>4. proc' \in [Nodes -> Processes]
      BY <3>1 DEF GateInv, TypeOK, Processes
    <3>. QED  BY <3>1, <3>3, <3>4 DEF GateInv, TypeOK
  <2>. QED  BY <2>1, <2>2
<1>4. /\ at' \in {"ended", "restarted"} /\ outcome' \in {"none", "terminate"}
      /\ (outcome' # "none") = (at' = "ended")
  BY <1>1 DEF RestartNode, Return
<1>5. TypeOK'
  BY <1>1, <1>3, <1>4 DEF GateInv, TypeOK
<1>6. Asked' /\ Grounds'
  BY <1>1, <1>4 DEF Asked, Grounds
<1>. QED  BY <1>1, <1>5, <1>6, Quiet DEF GateInv

LEMMA AfterRestartKeeps ==
  ASSUME GateInv, AfterRestart, UNCHANGED <<fork, given>>
  PROVE  GateInv'
<1>1. /\ UNCHANGED <<fork, given, network, ctx, reading, budget>>
      /\ at = "restarted" /\ outcome = "none" /\ seen = NoAnswer
  BY DEF GateInv, TypeOK, Asked, AfterRestart
<1>2. /\ at' \in {"ended", "round", "restarting"} /\ (at' = "restarting" => todo # {})
      /\ outcome' \in {"none", "terminate", "error"} /\ (outcome' # "none") = (at' = "ended")
  BY <1>1 DEF AfterRestart, finishError, Return
<1>3. TypeOK'
  BY <1>1, <1>2 DEF GateInv, TypeOK, network, reading, budget
<1>4. Asked' /\ Grounds'
  BY <1>1, <1>2 DEF Asked, Grounds, reading, budget
<1>. QED  BY <1>1, <1>3, <1>4, Quiet DEF GateInv, network, reading

LEMMA SleepKeeps ==
  ASSUME GateInv, Sleep, UNCHANGED <<fork, given>>
  PROVE  GateInv'
<1>1. /\ UNCHANGED <<fork, given, network, ctx, reading, todo, failed, restarts>>
      /\ at = "waiting" /\ outcome = "none" /\ seen = NoAnswer /\ waits # 0
  BY DEF GateInv, TypeOK, Asked, Sleep
<1>2. /\ at' \in {"ended", "round"}
      /\ outcome' \in {"none", "terminate", "error"} /\ (outcome' # "none") = (at' = "ended")
  BY <1>1 DEF Sleep, finishError, Return
<1>3. waits' \in 0..Waits
  BY <1>1, GateAssumption DEF GateInv, TypeOK, Asked, Sleep
<1>4. TypeOK'
  BY <1>1, <1>2, <1>3 DEF GateInv, TypeOK, network, reading
<1>5. Asked' /\ Grounds'
  BY <1>1, <1>2 DEF Asked, Grounds, reading
<1>. QED  BY <1>1, <1>4, <1>5, Quiet DEF GateInv, network, reading

LEMMA StutterKeeps ==
  ASSUME GateInv, UNCHANGED vars
  PROVE  GateInv'
<1>1. UNCHANGED <<fork, given, proc, height, split, faults, ctx, at, pids, baseline, producing, forked,
                  seen, todo, failed, restarts, waits, outcome>>
  BY DEF vars, fixed, network, reading, budget
<1>2. TypeOK'
  BY <1>1 DEF GateInv, TypeOK
<1>3. Asked' /\ Grounds'
  BY <1>1, SameReading DEF GateInv, Asked, Grounds
<1>. QED  BY <1>1, <1>2, <1>3, Quiet DEF GateInv

LEMMA StepKeeps == GateInv /\ [Next]_vars => GateInv'
<1> SUFFICES ASSUME GateInv, [Next]_vars  PROVE GateInv'
  OBVIOUS
<1>1. CASE Work /\ UNCHANGED <<fork, given>>
  BY <1>1, BeginRoundKeeps, SamplingKeeps, AskKeeps, AgreementKeeps, JudgeKeeps,
     RestartKeeps, AfterRestartKeeps, SleepKeeps DEF Work, Ask
<1>2. CASE Environment /\ UNCHANGED <<fork, given>>
  BY <1>2, EnvironmentKeeps
<1>3. CASE Ended \/ UNCHANGED vars
  BY <1>3, StutterKeeps DEF Ended
<1>. QED  BY <1>1, <1>2, <1>3 DEF Next, fixed

LEMMA GateInvariant == Spec => []GateInv
BY StartsThere, StepKeeps, PTL DEF Spec

-----------------------------------------------------------------------------
(* The theorems. *)

\* Every variable of the gate keeps its type; in particular no node is restarted
\* more often than the cap and the wait budget never goes below nothing.
THEOREM TypeCorrect == Spec => []TypeOK
BY GateInvariant, PTL DEF GateInv

\* A network handed over at its fork passes only when every successor has executed
\* the fork block (nodegate.go, factsFromReport): what a node answered it still has,
\* because a chain only grows.
THEOREM PassesCrossed == Spec => []OkMeansCrossed
<1>1. GateInv => OkMeansCrossed
  <2> SUFFICES ASSUME GateInv, outcome = "ok", fork.handedOver = "yes", fork.restart = "no",
                      fork.at > 0, NEW n \in Nodes \ fork.preFork
               PROVE  height[n] >= fork.at
    BY DEF OkMeansCrossed
  <2>1. fork.at \in Nat /\ height[n] \in Nat
    BY Numbers DEF GateInv, TypeOK
  <2>2. FitAsSeen(n) /\ n \in DOMAIN seen /\ ~retired(n)
    BY DEF GateInv, Grounds, retired
  <2>3. seen[n].height >= fork.at
    BY <2>2 DEF FitAsSeen, Aspects, SeenTo, WantMinHeight
  <2>4. seen[n].height \in Nat /\ seen[n].height <= height[n]
    BY <2>2 DEF GateInv, NotAhead, TypeOK
  <2>. QED  BY <2>1, <2>3, <2>4
<1>. QED  BY <1>1, GateInvariant, PTL

LEMMA NothingShown == ASSUME seen = NoAnswer PROVE Shown = {}
BY NobodyAsked DEF Shown

\* A call adds evidence only of what is so at that moment: what the node answered,
\* and all of the nodes that the fork block seen there retires.
LEMMA AskSees ==
  ASSUME GateInv, Ask, UNCHANGED <<fork, given>>
  PROVE  Contract!See
<1>1. PICK k \in Nodes : Called(k)
  BY AskIsALook
<1>2. UNCHANGED <<fork, proc, height, restarts, outcome>>
  BY DEF Ask, askHeight, askPeers, askSyncing, network, budget
<1>0. outcome = "none"
  BY DEF Ask, askHeight, askPeers, askSyncing, GateInv, TypeOK
<1>3. k \in Nat /\ 1..k \subseteq Nodes /\ \A m \in 1..k : m = k \/ m \in 1..k - 1
  BY Numbers
<1>4. DOMAIN seen' = 1..k /\ DOMAIN seen \subseteq 1..k
      /\ (\A m \in 1..k - 1 : m \in DOMAIN seen /\ seen'[m] = seen[m])
  <2>1. 1..k - 1 \subseteq 1..k
    BY <1>3
  <2>. QED  BY <1>1, <2>1 DEF Called
<1>5. \A m \in 1..k : seen'[m].height \in Nat /\ seen'[m].height <= height[m]
                      /\ height[m] \in Nat
  <2> SUFFICES ASSUME NEW m \in 1..k
               PROVE  seen'[m].height \in Nat /\ seen'[m].height <= height[m] /\ height[m] \in Nat
    OBVIOUS
  <2>1. seen'[m].height \in Nat /\ height[m] \in Nat
    BY <1>1, <1>3 DEF Called, Answer, GateInv, TypeOK
  <2>2. CASE m = k
    BY <1>1, <2>1, <2>2 DEF Called
  <2>3. CASE m \in 1..k - 1
    BY <1>4, <2>1, <2>3 DEF GateInv, NotAhead
  <2>. QED  BY <1>3, <2>2, <2>3
<1>6. \A n : WantMinHeight(n)' = WantMinHeight(n)
  BY <1>2 DEF WantMinHeight
<1>7. \A n : retired(n) => retired(n)'
  <2> SUFFICES ASSUME NEW n, retired(n)  PROVE retired(n)'
    OBVIOUS
  <2>1. PICK m \in DOMAIN seen : seen[m].height >= fork.at
    BY DEF retired
  <2>2. m \in 1..k /\ seen'[m].height = seen[m].height
    BY <1>1, <1>3, <1>4 DEF Called
  <2>. QED  BY <1>2, <1>4, <2>1, <2>2 DEF retired
<1>8. \A n \in Nodes : retired(n)' => Done(n)
  <2> SUFFICES ASSUME NEW n \in Nodes, retired(n)'  PROVE Done(n)
    OBVIOUS
  <2>1. PICK m \in 1..k : seen'[m].height >= fork.at
    BY <1>2, <1>4 DEF retired
  <2>2. fork.at \in Nat
    BY Numbers DEF GateInv, TypeOK
  <2>3. m \in Nodes /\ height[m] >= fork.at
    BY <1>3, <1>5, <2>1, <2>2
  <2>. QED  BY <1>2, <2>3 DEF retired, Done
<1>9. \A n \in DOMAIN seen, a \in Aspects : SeenTo(n, a) => SeenTo(n, a)'
  <2> SUFFICES ASSUME NEW n \in DOMAIN seen, NEW a \in Aspects, SeenTo(n, a)
               PROVE  SeenTo(n, a)'
    OBVIOUS
  <2>1. CASE n # k
    <3>1. seen'[n] = seen[n]
      BY <1>3, <1>4, <2>1
    <3>. QED  BY <1>6, <3>1 DEF SeenTo, Up
  <2>2. CASE n = k
    <3>1. /\ seen'[n].height = seen[n].height /\ seen[n].ok = "no"
          /\ seen[n].peers = "yes" => seen'[n].peers = "yes"
      BY <1>1, <2>2 DEF Called
    <3>. QED  BY <1>6, <3>1 DEF SeenTo, Up, Aspects
  <2>. QED  BY <2>1, <2>2
<1>10. \A n \in 1..k, a \in Aspects : SeenTo(n, a)' => Is(n, a) \/ (n \in DOMAIN seen /\ SeenTo(n, a))
  <2> SUFFICES ASSUME NEW n \in 1..k, NEW a \in Aspects, SeenTo(n, a)'
               PROVE  Is(n, a) \/ (n \in DOMAIN seen /\ SeenTo(n, a))
    OBVIOUS
  <2>1. CASE n # k
    <3>1. n \in DOMAIN seen /\ seen'[n] = seen[n]
      BY <1>3, <1>4, <2>1
    <3>. QED  BY <1>6, <3>1 DEF SeenTo, Up
  <2>2. CASE n = k /\ a = "height"
    <3>1. seen'[n].height >= WantMinHeight(n) /\ WantMinHeight(n) \in Nat
      BY <1>6, <2>2, Numbers DEF SeenTo, WantMinHeight, GateInv, TypeOK
    <3>2. height[n] >= WantMinHeight(n)
      BY <1>5, <3>1
    <3>. QED  BY <2>2, <3>2 DEF Is
  <2>3. CASE n = k /\ a = "peers"
    <3>1. seen'[n].peers = "yes"
      BY <2>3 DEF SeenTo
    <3>. QED  BY <1>1, <2>3, <3>1 DEF Called, Is, SeenTo
  <2>4. CASE n = k /\ a = "sync"
    <3>1. seen'[n].ok = "yes" /\ seen'[n].syncing = "no"
      BY <2>4 DEF SeenTo, Up
    <3>. QED  BY <1>1, <2>4, <3>1 DEF Called, Is
  <2>. QED  BY <2>1, <2>2, <2>3, <2>4 DEF Aspects
<1>11. Shown \subseteq Shown'
  BY <1>4, <1>7, <1>9 DEF Shown
<1>12. Shown' \ Shown \subseteq Fit
  <2> SUFFICES ASSUME NEW x \in Shown', x \notin Shown  PROVE x \in Fit
    OBVIOUS
  <2>1. x \in (1..k) \X Aspects /\ (retired(x[1])' \/ SeenTo(x[1], x[2])')
    BY <1>4 DEF Shown
  <2>2. x[1] \in 1..k /\ x[2] \in Aspects /\ x \in Nodes \X Aspects /\ x[1] \in Nodes
    BY <1>3, <2>1
  <2>3. CASE retired(x[1])'
    BY <1>8, <2>2, <2>3 DEF Fit
  <2>4. CASE SeenTo(x[1], x[2])'
    <3>1. Is(x[1], x[2]) \/ (x[1] \in DOMAIN seen /\ SeenTo(x[1], x[2]))
      BY <1>10, <2>2, <2>4
    <3>2. x[1] \in DOMAIN seen => x \in (DOMAIN seen) \X Aspects
      BY <2>1
    <3>. QED  BY <2>2, <3>1, <3>2 DEF Fit, Shown
  <2>. QED  BY <2>1, <2>3, <2>4
<1>13. Fit' = Fit
  BY <1>2 DEF Fit, Is, Done, WantMinHeight
<1>. QED  BY <1>0, <1>2, <1>11, <1>12, <1>13 DEF Contract!See

LEMMA JudgeImplements ==
  ASSUME GateInv, Judge, UNCHANGED <<fork, given>>
  PROVE  Contract!Next
<1>1. UNCHANGED <<fork, proc, height, restarts>> /\ outcome = "none" /\ DOMAIN seen = Nodes
  BY DEF Judge, GateInv, TypeOK, Asked, network
<1>2. Fit' = Fit
  BY <1>1 DEF Fit, Is, Done, WantMinHeight
<1>3. CASE /\ outcome' = "ok" /\ UNCHANGED <<reading, todo>> /\ \A n \in Nodes : FitAsSeen(n)
  <2>1. Shown = Nodes \X Aspects
    BY <1>1, <1>3 DEF Shown, FitAsSeen
  <2>2. Shown' = Shown
    BY <1>1, <1>3, SameReading DEF reading
  <2>. QED  BY <1>1, <1>2, <1>3, <2>1, <2>2 DEF Contract!Next, Contract!Finish, Contract!Pairs
<1>4. CASE outcome' \in {"terminate", "error"} /\ seen' = NoAnswer
  <2>1. Shown' = {}
    BY <1>4, NobodyAsked DEF Shown
  <2>. QED  BY <1>1, <1>2, <1>4, <2>1 DEF Contract!Next, Contract!Finish
<1>5. CASE outcome' = "none" /\ seen' = NoAnswer
  <2>1. Shown' = {}
    BY <1>5, NobodyAsked DEF Shown
  <2>. QED  BY <1>1, <1>2, <1>5, <2>1 DEF Contract!Next, Contract!Forget
<1>. QED  BY <1>3, <1>4, <1>5, Judged

LEMMA RestartImplements ==
  ASSUME GateInv, RestartNode, UNCHANGED <<fork, given>>
  PROVE  Contract!Next
<1>1. /\ UNCHANGED <<fork, height, seen>> /\ outcome = "none" /\ seen = NoAnswer /\ todo # {}
  BY DEF GateInv, TypeOK, Asked, RestartNode, reading
<1>2. First(todo) \in Nodes
  BY <1>1, FirstIsOne DEF GateInv, TypeOK
<1>3. Shown = {} /\ Shown' = {}
  BY <1>1, NothingShown, SameReading
<1>4. CASE Spent(First(todo))
  <2>1. UNCHANGED <<proc, restarts>> /\ outcome' = "terminate"
    BY <1>4 DEF RestartNode, Return
  <2>2. Fit' = Fit
    BY <1>1, <2>1 DEF Fit, Is, Done, WantMinHeight
  <2>. QED  BY <1>1, <1>3, <2>1, <2>2 DEF Contract!Next, Contract!Finish
<1>5. CASE ~Spent(First(todo))
  <2>1. /\ restarts' = [restarts EXCEPT ![First(todo)] = @ + 1] /\ UNCHANGED outcome
    BY <1>5 DEF RestartNode
  <2>2. restarts[First(todo)] < MaxRestarts
    BY <1>2, <1>5, GateAssumption DEF GateInv, TypeOK, Spent
  <2>3. Fit' \in SUBSET (Nodes \X Aspects)
    BY DEF Fit
  <2>4. Contract!Restart(First(todo))
    BY <1>1, <1>3, <2>1, <2>2, <2>3 DEF Contract!Restart, Contract!Pairs
  <2>. QED  BY <1>2, <2>4 DEF Contract!Next
<1>. QED  BY <1>4, <1>5

\* A step that leaves the evidence and the restarts alone, and ends nothing, is the
\* network's.
LEMMA NetworkMoves ==
  ASSUME UNCHANGED <<fork, seen, restarts, outcome>>
  PROVE  Contract!Next
<1>1. Shown' = Shown
  BY SameReading
<1>2. Fit' \in SUBSET (Nodes \X Aspects)
  BY DEF Fit
<1>. QED  BY <1>1, <1>2 DEF Contract!Next, Contract!Network, Contract!Pairs

\* And one that gives up before anything was seen.
LEMMA GivesUp ==
  ASSUME UNCHANGED <<fork, proc, height, seen, restarts>>, seen = NoAnswer,
         outcome = "none", outcome' \in {"terminate", "error"}
  PROVE  Contract!Next
<1>1. Shown = {} /\ Shown' = {}
  BY NothingShown, SameReading
<1>2. Fit' = Fit
  BY DEF Fit, Is, Done, WantMinHeight
<1>. QED  BY <1>1, <1>2 DEF Contract!Next, Contract!Finish

\* The gate implements its contract (gate.go, Gate): "ok" rests on looks at every node
\* taken since the last restart, at its height, its peers and its syncing, each true
\* when it was taken, whatever the network does between two calls; no node is
\* restarted past the cap; and it ends once.
THEOREM GateKeepsItsContract == Spec => ImplementsContract
<1>1. Init => Contract!Init
  <2> SUFFICES ASSUME Init  PROVE Contract!Init
    OBVIOUS
  <2>1. Shown = {}
    BY NothingShown DEF Init
  <2>2. Fit \in SUBSET (Nodes \X Aspects)
    BY DEF Fit
  <2>. QED  BY <2>1, <2>2 DEF Init, Contract!Init, Contract!Pairs
<1>2. GateInv /\ [Next]_vars => [Contract!Next]_(Contract!vars)
  <2> SUFFICES ASSUME GateInv, [Next]_vars
               PROVE  Contract!Next \/ UNCHANGED Contract!vars
    OBVIOUS
  <2>1. CASE Environment /\ UNCHANGED <<fork, given>>
    <3>1. UNCHANGED <<fork, seen, restarts, outcome>>
      BY <2>1 DEF Environment, Settle, Grow, Disturb, Expire, Cancel, reading, budget
    <3>. QED  BY <3>1, NetworkMoves
  <2>2. CASE BeginRound /\ UNCHANGED <<fork, given>>
    <3>1. UNCHANGED <<fork, proc, height, seen, restarts>> /\ seen = NoAnswer /\ outcome = "none"
      BY <2>2 DEF GateInv, TypeOK, Asked, BeginRound, network, reading, budget
    <3>2. outcome' = outcome \/ outcome' \in {"terminate", "error"}
      BY <2>2 DEF BeginRound, finishError, Return
    <3>. QED  BY <3>1, <3>2, NetworkMoves, GivesUp
  <2>3. CASE (detectProducing \/ checkAgreement) /\ UNCHANGED <<fork, given>>
    <3>1. UNCHANGED <<fork, seen, restarts, outcome>>
      BY <2>3 DEF detectProducing, checkAgreement, budget
    <3>. QED  BY <3>1, NetworkMoves
  <2>4. CASE Ask /\ UNCHANGED <<fork, given>>
    BY <2>4, AskSees DEF Contract!Next
  <2>5. CASE Judge /\ UNCHANGED <<fork, given>>
    BY <2>5, JudgeImplements
  <2>6. CASE RestartNode /\ UNCHANGED <<fork, given>>
    BY <2>6, RestartImplements
  <2>7. CASE (AfterRestart \/ Sleep) /\ UNCHANGED <<fork, given>>
    <3>1. UNCHANGED <<fork, proc, height, seen, restarts>> /\ seen = NoAnswer /\ outcome = "none"
      BY <2>7 DEF GateInv, TypeOK, Asked, AfterRestart, Sleep, network, reading, budget
    <3>2. outcome' = outcome \/ outcome' \in {"terminate", "error"}
      BY <2>7 DEF AfterRestart, Sleep, finishError, Return
    <3>. QED  BY <3>1, <3>2, NetworkMoves, GivesUp
  <2>8. CASE Ended \/ UNCHANGED vars
    <3>1. UNCHANGED <<fork, seen, restarts, outcome>>
      BY <2>8 DEF Ended, vars, fixed, reading, budget
    <3>. QED  BY <3>1, NetworkMoves
  <2>. QED  BY <2>1, <2>2, <2>3, <2>4, <2>5, <2>6, <2>7, <2>8 DEF Next, Work, Ask, fixed
<1>. QED  BY <1>1, <1>2, GateInvariant, PTL DEF Spec, ImplementsContract, Contract!Spec
=============================================================================
