--------------------- MODULE LocalDeviceCatalogueProofs ---------------------
(***************************************************************************)
(* Proofs about the catalogue of devices and its bounded memories, for any *)
(* finite set of devices and any capacity.  The eviction is a loop; what   *)
(* it keeps is found by looking at a least set for which a claim would     *)
(* fail (Evicts).  The rest is bookkeeping of serials: they are distinct,  *)
(* and later the later a device was seen (MemoryOK, SerialsFollow).        *)
(***************************************************************************)
EXTENDS LocalDeviceCatalogue, FiniteSetTheorems, WellFoundedInduction, TLAPS

\* An entry of a memory.
Entry == [name : Nat, isDefault : BOOLEAN, available : BOOLEAN, lastSeenSerial : Nat]

\* A memory whose entries can be ranked: no two have one serial.
Ranked(known) ==
    /\ IsFiniteSet(DOMAIN known)
    /\ known \in [DOMAIN known -> Entry]
    /\ \A v, w \in DOMAIN known : known[v].lastSeenSerial = known[w].lastSeenSerial => v = w

Below(known, K, u) == {v \in K : EvictedBefore(known[v], known[u])}

-----------------------------------------------------------------------------
(* Finite sets and orders *)

\* Among subsets of a finite set there is one that includes no other.
LEMMA LeastSubset ==
    ASSUME NEW S, IsFiniteSet(S), NEW T, T \subseteq SUBSET S, T # {}
    PROVE  \E X \in T : \A Y \in T : Y \subseteq X => Y = X
  <1>1. T \subseteq FiniteSubsetsOf(S)
    BY FS_FiniteSubsetsOfFinite
  <1>2. IsWellFoundedOn(StrictSubsetOrdering(S), FiniteSubsetsOf(S))
    BY FS_StrictSubsetOrderingWellFounded
  <1>3. PICK X \in T : \A Y \in T : ~(<<Y, X>> \in StrictSubsetOrdering(S))
    BY <1>1, <1>2, WFMin
  <1>4. \A Y \in T : Y \subseteq X => Y = X
    <2>. SUFFICES ASSUME NEW Y \in T, Y \subseteq X, Y # X
                  PROVE  <<Y, X>> \in StrictSubsetOrdering(S)
      BY <1>3
    <2>. QED
      BY DEF StrictSubsetOrdering
  <1>. QED
    BY <1>4

\* The order of eviction is strict, and decides between any two entries.
LEMMA EvictionOrder ==
    ASSUME NEW a \in Entry, NEW b \in Entry, NEW c \in Entry
    PROVE  /\ ~EvictedBefore(a, a)
           /\ EvictedBefore(a, b) /\ EvictedBefore(b, c) => EvictedBefore(a, c)
           /\ a.lastSeenSerial # b.lastSeenSerial => EvictedBefore(a, b) \/ EvictedBefore(b, a)
  BY DEF EvictedBefore, Entry

\* The victim is evicted before every other entry.
LEMMA VictimIsFirst ==
    ASSUME NEW known, Ranked(known), NEW K \in SUBSET DOMAIN known, K # {},
           NEW v, v = Victim(Restrict(known, K))
    PROVE  v \in K /\ \A w \in K \ {v} : EvictedBefore(known[v], known[w])
  <1>. DEFINE T == {Below(known, K, u) : u \in K}
  <1>1. IsFiniteSet(K) /\ \A u \in K : u \in DOMAIN known /\ known[u] \in Entry
    BY FS_Subset DEF Ranked
  <1>2. T \subseteq SUBSET K /\ T # {}
    BY DEF Below
  <1>3. PICK X \in T : \A Y \in T : Y \subseteq X => Y = X
    <2>. HIDE DEF T
    <2>. QED
      BY <1>1, <1>2, LeastSubset
  <1>4. PICK u \in K : X = Below(known, K, u)
    OBVIOUS
  <1>5. X = {}
    <2>1. SUFFICES ASSUME NEW w \in X PROVE FALSE
      OBVIOUS
    <2>2. w \in K /\ EvictedBefore(known[w], known[u])
      BY <1>4 DEF Below
    <2>3. Below(known, K, w) \subseteq X
      <3>1. SUFFICES ASSUME NEW x \in Below(known, K, w) PROVE x \in X
        OBVIOUS
      <3>2. x \in K /\ EvictedBefore(known[x], known[w])
        BY DEF Below
      <3>3. EvictedBefore(known[x], known[u])
        BY <1>1, <2>2, <3>2, EvictionOrder
      <3>. QED
        BY <1>4, <3>2, <3>3 DEF Below
    <2>4. w \notin Below(known, K, w)
      BY <1>1, <2>2, EvictionOrder DEF Below
    <2>. QED
      BY <1>3, <2>2, <2>3, <2>4
  <1>6. \A w \in K \ {u} : EvictedBefore(known[u], known[w])
    <2>1. SUFFICES ASSUME NEW w \in K \ {u} PROVE EvictedBefore(known[u], known[w])
      OBVIOUS
    <2>2. ~EvictedBefore(known[w], known[u])
      BY <1>4, <1>5 DEF Below
    <2>3. known[u].lastSeenSerial # known[w].lastSeenSerial
      BY <1>1 DEF Ranked
    <2>. QED
      BY <1>1, <2>2, <2>3, EvictionOrder
  <1>. DEFINE r == Restrict(known, K)
  <1>7. DOMAIN r = K /\ \A w \in K : r[w] = known[w]
    BY DEF Restrict
  <1>8. \E x \in DOMAIN r : \A w \in DOMAIN r \ {x} : EvictedBefore(r[x], r[w])
    <2>. HIDE DEF r
    <2>1. \A w \in DOMAIN r \ {u} : EvictedBefore(r[u], r[w])
      BY <1>6, <1>7
    <2>. QED
      BY <1>7, <2>1
  <1>9. v \in DOMAIN r /\ \A w \in DOMAIN r \ {v} : EvictedBefore(r[v], r[w])
    <2>. HIDE DEF r
    <2>1. v = Victim(r)
      BY DEF r
    <2>. QED
      BY <1>8, <2>1 DEF Victim
  <1>. HIDE DEF r
  <1>. QED
    BY <1>7, <1>9

-----------------------------------------------------------------------------
(* evictIfNeeded() *)

\* One turn of the loop, for a function that says what the rest of the loop keeps.
Turn(known, capacity, f) ==
    [K \in SUBSET DOMAIN known |->
        IF Cardinality(K) <= capacity THEN K
        ELSE f[K \ {Victim(Restrict(known, K))}]]

\* Those before which enough others go.
Best(known, capacity, K) ==
    {u \in K : Cardinality(K) - capacity <= Cardinality(Below(known, K, u))}

\* What is below an entry after the victim has gone.
LEMMA BelowWithoutVictim ==
    ASSUME NEW known, Ranked(known), NEW K \in SUBSET DOMAIN known, K # {},
           NEW v, v = Victim(Restrict(known, K)), NEW u \in K
    PROVE  /\ IsFiniteSet(Below(known, K, u)) /\ Cardinality(Below(known, K, u)) \in Nat
           /\ u = v => Cardinality(Below(known, K, u)) = 0
           /\ u # v => Cardinality(Below(known, K, u)) = Cardinality(Below(known, K \ {v}, u)) + 1
  <1>1. v \in K /\ \A w \in K \ {v} : EvictedBefore(known[v], known[w])
    BY VictimIsFirst
  <1>2. IsFiniteSet(K) /\ \A w \in K : w \in DOMAIN known /\ known[w] \in Entry
    BY FS_Subset DEF Ranked
  <1>3. IsFiniteSet(Below(known, K, u)) /\ Cardinality(Below(known, K, u)) \in Nat
    BY <1>2, FS_Subset, FS_CardinalityType DEF Below
  <1>4. CASE u = v
    <2>1. ASSUME NEW w \in Below(known, K, v) PROVE FALSE
      <3>1. w \in K /\ EvictedBefore(known[w], known[v])
        BY <2>1 DEF Below
      <3>2. w = v \/ EvictedBefore(known[v], known[w])
        BY <1>1, <3>1
      <3>3. EvictedBefore(known[v], known[v])
        BY <1>1, <1>2, <3>1, <3>2, EvictionOrder
      <3>. QED
        BY <1>1, <1>2, <3>3, EvictionOrder
    <2>2. Below(known, K, u) = {}
      BY <1>4, <2>1
    <2>. QED
      BY <1>3, <1>4, <2>2, FS_EmptySet
  <1>5. CASE u # v
    <2>1. Below(known, K, u) = Below(known, K \ {v}, u) \cup {v}
      BY <1>1, <1>5 DEF Below
    <2>2. v \notin Below(known, K \ {v}, u)
      BY DEF Below
    <2>3. IsFiniteSet(Below(known, K \ {v}, u))
      BY <1>3, <2>1, FS_Subset
    <2>. QED
      BY <1>3, <1>5, <2>1, <2>2, <2>3, FS_AddElement
  <1>. QED
    BY <1>3, <1>4, <1>5

\* The best of a set that is too large are the best of it without the victim.
LEMMA BestTurn ==
    ASSUME NEW known, Ranked(known), NEW capacity \in Nat,
           NEW K \in SUBSET DOMAIN known
    PROVE  /\ Cardinality(K) <= capacity => Best(known, capacity, K) = K
           /\ ~(Cardinality(K) <= capacity) =>
                Best(known, capacity, K)
                   = Best(known, capacity, K \ {Victim(Restrict(known, K))})
  <1>1. IsFiniteSet(K) /\ Cardinality(K) \in Nat
    BY FS_Subset, FS_CardinalityType DEF Ranked
  <1>2. \A u \in K : Cardinality(Below(known, K, u)) \in Nat
    BY <1>1, FS_Subset, FS_CardinalityType DEF Below
  <1>3. CASE Cardinality(K) <= capacity
    <2>1. \A u \in K : Cardinality(K) - capacity <= Cardinality(Below(known, K, u))
      BY <1>1, <1>2, <1>3
    <2>. QED
      BY <1>3, <2>1 DEF Best
  <1>4. CASE ~(Cardinality(K) <= capacity)
    <2>. DEFINE v == Victim(Restrict(known, K))
    <2>1. K # {} /\ Cardinality(K) > capacity
      BY <1>1, <1>4, FS_EmptySet
    <2>2. v \in K
      BY <2>1, VictimIsFirst
    <2>3. Cardinality(K \ {v}) = Cardinality(K) - 1
      BY <1>1, <2>2, FS_RemoveElement
    <2>4. \A u \in K : /\ u = v => Cardinality(Below(known, K, u)) = 0
                       /\ u # v => Cardinality(Below(known, K, u))
                                     = Cardinality(Below(known, K \ {v}, u)) + 1
      BY <2>1, BelowWithoutVictim
    <2>. HIDE DEF v
    <2>5. \A u \in K \ {v} : Cardinality(Below(known, K \ {v}, u)) \in Nat
      <3>1. IsFiniteSet(K \ {v})
        BY <1>1, FS_RemoveElement
      <3>. QED
        BY <3>1, FS_Subset, FS_CardinalityType DEF Below
    <2>6. \A u \in K : u \in Best(known, capacity, K) <=> u \in Best(known, capacity, K \ {v})
      <3>. SUFFICES ASSUME NEW u \in K
                    PROVE  u \in Best(known, capacity, K) <=> u \in Best(known, capacity, K \ {v})
        OBVIOUS
      <3>1. CASE u = v
        <4>1. ~(Cardinality(K) - capacity <= Cardinality(Below(known, K, u)))
          BY <1>1, <2>1, <2>4, <3>1
        <4>. QED
          BY <3>1, <4>1 DEF Best
      <3>2. CASE u # v
        <4>1. Cardinality(Below(known, K, u)) = Cardinality(Below(known, K \ {v}, u)) + 1
          BY <2>4, <3>2
        <4>2. Cardinality(K) - capacity <= Cardinality(Below(known, K, u))
                 <=> Cardinality(K \ {v}) - capacity <= Cardinality(Below(known, K \ {v}, u))
          BY <1>1, <2>3, <2>5, <3>2, <4>1
        <4>. QED
          BY <3>2, <4>2 DEF Best
      <3>. QED
        BY <3>1, <3>2
    <2>7. Best(known, capacity, K) = Best(known, capacity, K \ {v})
      BY <2>6 DEF Best
    <2>. QED
      BY <1>4, <2>7 DEF v
  <1>. QED
    BY <1>3, <1>4

\* The loop has a result: the function it defines exists.
LEMMA EvictExists ==
    ASSUME NEW known, Ranked(known), NEW capacity \in Nat
    PROVE  \E f : f = Turn(known, capacity, f)
  <1>. DEFINE f == [K \in SUBSET DOMAIN known |-> Best(known, capacity, K)]
  <1>1. \A K \in SUBSET DOMAIN known :
           f[K] = IF Cardinality(K) <= capacity THEN K
                  ELSE f[K \ {Victim(Restrict(known, K))}]
    <2>. SUFFICES ASSUME NEW K \in SUBSET DOMAIN known
                  PROVE  f[K] = IF Cardinality(K) <= capacity THEN K
                                ELSE f[K \ {Victim(Restrict(known, K))}]
      OBVIOUS
    <2>1. f[K] = Best(known, capacity, K)
      OBVIOUS
    <2>2. K \ {Victim(Restrict(known, K))} \in SUBSET DOMAIN known
      OBVIOUS
    <2>3. f[K \ {Victim(Restrict(known, K))}]
             = Best(known, capacity, K \ {Victim(Restrict(known, K))})
      BY <2>2
    <2>. HIDE DEF f
    <2>. QED
      BY <2>1, <2>3, BestTurn
  <1>2. f = [K \in SUBSET DOMAIN known |-> f[K]]
    OBVIOUS
  <1>. HIDE DEF f
  <1>3. f = [K \in SUBSET DOMAIN known |->
                IF Cardinality(K) <= capacity THEN K
                ELSE f[K \ {Victim(Restrict(known, K))}]]
    BY <1>1, <1>2
  <1>4. f = Turn(known, capacity, f)
    BY <1>3 DEF Turn
  <1>. QED
    BY <1>4

\* What the loop keeps of a set: no more than the capacity, as much of it as there is, and
\* nothing that is evicted before what goes.
Keeps(known, capacity, K, kept) ==
    /\ kept \subseteq K
    /\ Cardinality(K) <= capacity => kept = K
    /\ Cardinality(K) > capacity => Cardinality(kept) = capacity
    /\ \A v \in K \ kept, u \in kept : EvictedBefore(known[v], known[u])

\* One turn keeps what the next ones keep.
LEMMA TurnKeeps ==
    ASSUME NEW known, Ranked(known), NEW capacity \in Nat,
           NEW K \in SUBSET DOMAIN known, Cardinality(K) > capacity,
           NEW v, v = Victim(Restrict(known, K)),
           NEW kept, Keeps(known, capacity, K \ {v}, kept)
    PROVE  Keeps(known, capacity, K, kept)
  <1>1. IsFiniteSet(K) /\ Cardinality(K) \in Nat
    BY FS_Subset, FS_CardinalityType DEF Ranked
  <1>2. K # {}
    BY <1>1, FS_EmptySet
  <1>3. v \in K /\ \A w \in K \ {v} : EvictedBefore(known[v], known[w])
    BY <1>2, VictimIsFirst
  <1>4. Cardinality(K \ {v}) = Cardinality(K) - 1
    BY <1>1, <1>3, FS_RemoveElement
  <1>5. Cardinality(kept) = capacity
    <2>1. CASE Cardinality(K \ {v}) <= capacity
      <3>1. kept = K \ {v}
        BY <2>1 DEF Keeps
      <3>. QED
        BY <1>1, <1>4, <2>1, <3>1
    <2>2. CASE Cardinality(K \ {v}) > capacity
      BY <2>2 DEF Keeps
    <2>. QED
      BY <1>1, <1>4, <2>1, <2>2
  <1>6. kept \subseteq K /\ v \notin kept
    BY DEF Keeps
  <1>7. \A w \in K \ kept, u \in kept : EvictedBefore(known[w], known[u])
    <2>. SUFFICES ASSUME NEW w \in K \ kept, NEW u \in kept
                  PROVE  EvictedBefore(known[w], known[u])
      OBVIOUS
    <2>1. CASE w = v
      BY <1>3, <1>6, <2>1
    <2>2. CASE w # v
      BY <2>2 DEF Keeps
    <2>. QED
      BY <2>1, <2>2
  <1>. QED
    BY <1>1, <1>5, <1>6, <1>7 DEF Keeps

\* What every solution of the loop's definition keeps of every set.
LEMMA LoopKeeps ==
    ASSUME NEW known, Ranked(known), NEW capacity \in Nat,
           NEW f, f = Turn(known, capacity, f),
           NEW K \in SUBSET DOMAIN known
    PROVE  Keeps(known, capacity, K, f[K])
  <1>. DEFINE T == {L \in SUBSET DOMAIN known : ~Keeps(known, capacity, L, f[L])}
  <1>1. SUFFICES ASSUME T # {} PROVE FALSE
    OBVIOUS
  <1>2. PICK L \in T : \A M \in T : M \subseteq L => M = L
    <2>1. T \subseteq SUBSET DOMAIN known
      OBVIOUS
    <2>. HIDE DEF T
    <2>. QED
      BY <1>1, <2>1, LeastSubset DEF Ranked
  <1>3. L \in SUBSET DOMAIN known /\ ~Keeps(known, capacity, L, f[L])
    OBVIOUS
  <1>4. IsFiniteSet(L) /\ Cardinality(L) \in Nat
    BY <1>3, FS_Subset, FS_CardinalityType DEF Ranked
  <1>. DEFINE v == Victim(Restrict(known, L))
  <1>5. f[L] = IF Cardinality(L) <= capacity THEN L ELSE f[L \ {v}]
    <2>1. Turn(known, capacity, f)[L] = IF Cardinality(L) <= capacity THEN L ELSE f[L \ {v}]
      BY <1>3 DEF Turn
    <2>. QED
      BY <2>1
  <1>6. CASE Cardinality(L) <= capacity
    <2>1. f[L] = L
      BY <1>5, <1>6
    <2>2. Keeps(known, capacity, L, L)
      BY <1>4, <1>6 DEF Keeps
    <2>. QED
      BY <1>3, <2>1, <2>2
  <1>7. CASE ~(Cardinality(L) <= capacity)
    <2>1. Cardinality(L) > capacity
      BY <1>4, <1>7
    <2>2. L # {}
      BY <2>1, <1>4, FS_EmptySet
    <2>3. v \in L
      BY <1>3, <2>2, VictimIsFirst
    <2>4. L \ {v} \notin T
      <3>. HIDE DEF T, v
      <3>. QED
        BY <1>2, <2>3
    <2>5. Keeps(known, capacity, L \ {v}, f[L \ {v}])
      BY <2>4, <1>3
    <2>6. Keeps(known, capacity, L, f[L \ {v}])
      BY <1>3, <2>1, <2>5, TurnKeeps
    <2>. QED
      BY <1>3, <1>5, <1>7, <2>6
  <1>. QED
    BY <1>6, <1>7

\* A memory is cut down to its capacity and no further: what stays is unchanged, and
\* everything that goes is evicted before everything that stays.
LEMMA Evicts ==
    ASSUME NEW m, m \in [capacity : Nat, serial : Nat, known : {m.known}], Ranked(m.known)
    PROVE  /\ evictIfNeeded(m).capacity = m.capacity /\ evictIfNeeded(m).serial = m.serial
           /\ Keeps(m.known, m.capacity, DOMAIN m.known, DOMAIN evictIfNeeded(m).known)
           /\ evictIfNeeded(m).known = [id \in DOMAIN evictIfNeeded(m).known |-> m.known[id]]
  <1>. DEFINE known == m.known
              evict == CHOOSE f : f = [K \in SUBSET DOMAIN known |->
                                          IF Cardinality(K) <= m.capacity THEN K
                                          ELSE f[K \ {Victim(Restrict(known, K))}]]
              kept == evict[DOMAIN known]
  <1>1. evictIfNeeded(m) = [m EXCEPT !.known = Restrict(m.known, kept)]
    BY DEF evictIfNeeded
  <1>2. evict = CHOOSE f : f = Turn(known, m.capacity, f)
    BY DEF Turn
  <1>3. evict = Turn(known, m.capacity, evict)
    <2>1. \E f : f = Turn(known, m.capacity, f)
      BY EvictExists
    <2>. HIDE DEF evict, known
    <2>. QED
      BY <1>2, <2>1
  <1>4. Keeps(known, m.capacity, DOMAIN known, kept)
    <2>. HIDE DEF evict
    <2>1. DOMAIN known \in SUBSET DOMAIN known /\ m.capacity \in Nat /\ Ranked(known)
      OBVIOUS
    <2>. HIDE DEF known
    <2>. QED
      BY <1>3, <2>1, LoopKeeps
  <1>. HIDE DEF evict, kept
  <1>5. /\ evictIfNeeded(m).known = Restrict(m.known, kept)
        /\ evictIfNeeded(m).capacity = m.capacity /\ evictIfNeeded(m).serial = m.serial
    BY <1>1
  <1>6. DOMAIN Restrict(m.known, kept) = kept
    BY DEF Restrict
  <1>7. Restrict(m.known, kept) = [id \in kept |-> m.known[id]]
    BY DEF Restrict
  <1>. QED
    BY <1>4, <1>5, <1>6, <1>7 DEF known

-----------------------------------------------------------------------------
(* updateFromSnapshot() *)

\* A list of devices that are there, each once.
SnapshotOK(s) ==
    /\ IsFiniteSet(s) /\ s \subseteq [id : Nat, name : Nat, isDefault : BOOLEAN]
    /\ \A d, e \in s : d.id = e.id => d = e

\* Its ids are finitely many.
LEMMA IdsFinite ==
    ASSUME NEW s, IsFiniteSet(s)
    PROVE  IsFiniteSet(IdsOf(s))
  <1>. DEFINE f == [d \in s |-> d.id]
  <1>1. f \in Surjection(s, IdsOf(s))
    BY DEF Surjection, IdsOf
  <1>. QED
    BY <1>1, FS_Surjection

\* A memory between two updates.
MemoryOK(m) ==
    /\ m \in [capacity : {Capacity}, serial : Nat, known : {m.known}]
    /\ Ranked(m.known) /\ Cardinality(DOMAIN m.known) <= Capacity
    /\ \A id \in DOMAIN m.known : m.known[id].lastSeenSerial <= m.serial

Before(s, d) == {e \in s : ByNameThenId(e, d)}

\* The sorted list has a place for each of its devices, and no place twice.
LEMMA Places ==
    ASSUME NEW s, SnapshotOK(s), NEW d \in s, NEW e \in s
    PROVE  /\ Cardinality(s) \in Nat
           /\ Cardinality(Before(s, d)) \in Nat /\ Cardinality(Before(s, d)) < Cardinality(s)
           /\ d # e => Cardinality(Before(s, d)) # Cardinality(Before(s, e))
  <1>. USE DEF SnapshotOK
  <1>1. \A c \in s : c.id \in Nat /\ c.name \in Nat
    OBVIOUS
  <1>2. \A c \in s : IsFiniteSet(Before(s, c)) /\ Cardinality(Before(s, c)) \in Nat
    BY FS_Subset, FS_CardinalityType DEF Before
  <1>3. Cardinality(s) \in Nat
    BY FS_CardinalityType
  <1>4. \A c \in s : c \notin Before(s, c)
    BY <1>1 DEF Before, ByNameThenId
  <1>5. \A b, c \in s : ByNameThenId(b, c) => Cardinality(Before(s, b)) < Cardinality(Before(s, c))
    <2>. SUFFICES ASSUME NEW b \in s, NEW c \in s, ByNameThenId(b, c)
                  PROVE  Cardinality(Before(s, b)) < Cardinality(Before(s, c))
      OBVIOUS
    <2>1. \A x \in s : ByNameThenId(x, b) => ByNameThenId(x, c)
      BY <1>1 DEF ByNameThenId
    <2>2. Before(s, b) \subseteq Before(s, c) /\ b \in Before(s, c) /\ b \notin Before(s, b)
      BY <1>4, <2>1 DEF Before
    <2>3. /\ Cardinality(Before(s, b)) <= Cardinality(Before(s, c))
          /\ Cardinality(Before(s, c)) # Cardinality(Before(s, b))
      BY <1>2, <2>2, FS_Subset
    <2>. QED
      BY <1>2, <2>3
  <1>6. d # e => ByNameThenId(d, e) \/ ByNameThenId(e, d)
    BY <1>1 DEF ByNameThenId
  <1>7. Cardinality(Before(s, d)) < Cardinality(s)
    <2>1. Before(s, d) \subseteq s /\ Before(s, d) # s
      BY <1>4 DEF Before
    <2>2. /\ Cardinality(Before(s, d)) <= Cardinality(s)
          /\ Cardinality(s) # Cardinality(Before(s, d))
      BY <2>1, FS_Subset
    <2>. QED
      BY <1>2, <1>3, <2>2
  <1>8. d # e => Cardinality(Before(s, d)) # Cardinality(Before(s, e))
    BY <1>2, <1>5, <1>6
  <1>. QED
    BY <1>2, <1>3, <1>7, <1>8

\* The memory before it is cut down: what is missing is marked, what is there is entered.
Entered(s, id) == CHOOSE d \in s : d.id = id

Marked(m, s) ==
    [m EXCEPT !.serial = m.serial + Cardinality(s),
              !.known = [id \in DOMAIN m.known \cup IdsOf(s) |->
                  IF id \in IdsOf(s) THEN Seen(m, s, Entered(s, id))
                  ELSE [m.known[id] EXCEPT !.available = FALSE, !.isDefault = FALSE]]]

\* What is entered of a device of the snapshot.
LEMMA SeenIs ==
    ASSUME NEW m, m.serial \in Nat, NEW s, SnapshotOK(s), NEW id \in IdsOf(s)
    PROVE  /\ Entered(s, id) \in s /\ Entered(s, id).id = id
           /\ Seen(m, s, Entered(s, id)) \in Entry
           /\ Seen(m, s, Entered(s, id)).available
           /\ Seen(m, s, Entered(s, id)).lastSeenSerial
                 = m.serial + 1 + Cardinality(Before(s, Entered(s, id)))
  <1>1. Entered(s, id) \in s /\ Entered(s, id).id = id
    BY DEF Entered, IdsOf
  <1>. DEFINE d == Entered(s, id)
  <1>2. d.name \in Nat /\ d.isDefault \in BOOLEAN
    BY <1>1 DEF SnapshotOK
  <1>3. Cardinality(Before(s, d)) \in Nat
    BY <1>1, Places
  <1>. HIDE DEF d
  <1>4. Seen(m, s, d) = [name |-> d.name, isDefault |-> d.isDefault, available |-> TRUE,
                         lastSeenSerial |-> m.serial + 1 + Cardinality(Before(s, d))]
    BY DEF Seen, Before
  <1>5. m.serial + 1 + Cardinality(Before(s, d)) \in Nat
    BY <1>3
  <1>. DEFINE place == m.serial + 1 + Cardinality(Before(s, d))
  <1>. HIDE DEF place
  <1>6. Seen(m, s, d) = [name |-> d.name, isDefault |-> d.isDefault, available |-> TRUE,
                         lastSeenSerial |-> place]
    BY <1>4 DEF place
  <1>7. Seen(m, s, d) \in Entry /\ Seen(m, s, d).available /\ Seen(m, s, d).lastSeenSerial = place
    BY <1>2, <1>5, <1>6 DEF Entry, place
  <1>. QED
    BY <1>1, <1>7 DEF d, place

\* The entries of a marked memory: they can be ranked, and those of the snapshot come last.
LEMMA MarkedIs ==
    ASSUME NEW m, MemoryOK(m), NEW s, SnapshotOK(s), NEW n, n = Marked(m, s)
    PROVE  /\ n \in [capacity : {Capacity}, serial : Nat, known : {n.known}]
           /\ n.serial >= m.serial
           /\ DOMAIN n.known = DOMAIN m.known \cup IdsOf(s) /\ Ranked(n.known)
           /\ \A id \in DOMAIN n.known :
                 /\ n.known[id].available <=> id \in IdsOf(s)
                 /\ n.known[id].lastSeenSerial <= n.serial
                 /\ id \in IdsOf(s) => n.known[id].lastSeenSerial > m.serial
                 /\ id \notin IdsOf(s) =>
                      n.known[id].lastSeenSerial = m.known[id].lastSeenSerial
  <1>. DEFINE D == DOMAIN m.known \cup IdsOf(s)
              e(id) == IF id \in IdsOf(s) THEN Seen(m, s, Entered(s, id))
                       ELSE [m.known[id] EXCEPT !.available = FALSE, !.isDefault = FALSE]
              known == [id \in D |-> e(id)]
  <1>1. m.serial \in Nat /\ Cardinality(s) \in Nat
    BY FS_CardinalityType DEF MemoryOK, SnapshotOK
  <1>2. /\ n.known = known /\ n.serial = m.serial + Cardinality(s) /\ n.capacity = Capacity
        /\ n \in [capacity : {Capacity}, serial : Nat, known : {n.known}]
    <2>1. n = [m EXCEPT !.serial = m.serial + Cardinality(s), !.known = known]
      BY DEF Marked
    <2>2. m \in [capacity : {Capacity}, serial : Nat, known : {m.known}]
      BY DEF MemoryOK
    <2>3. m.serial + Cardinality(s) \in Nat
      BY <1>1
    <2>. HIDE DEF known
    <2>. QED
      BY <2>1, <2>2, <2>3
  <1>3. \A id \in D : n.known[id] = e(id)
    BY <1>2
  <1>. HIDE DEF known
  <1>4. DOMAIN n.known = D
    BY <1>2 DEF known
  <1>5. ASSUME NEW id \in IdsOf(s)
        PROVE  /\ n.known[id] \in Entry /\ n.known[id].available
               /\ n.known[id].lastSeenSerial = m.serial + 1 + Cardinality(Before(s, Entered(s, id)))
    <2>1. n.known[id] = Seen(m, s, Entered(s, id))
      BY <1>3
    <2>. QED
      BY <1>1, <2>1, SeenIs
  <1>6. ASSUME NEW id \in D \ IdsOf(s)
        PROVE  /\ n.known[id] \in Entry /\ ~n.known[id].available
               /\ n.known[id].lastSeenSerial = m.known[id].lastSeenSerial
               /\ n.known[id].lastSeenSerial <= m.serial
    <2>1. id \in DOMAIN m.known /\ m.known[id] \in Entry
      BY DEF MemoryOK, Ranked
    <2>2. n.known[id] = [m.known[id] EXCEPT !.available = FALSE, !.isDefault = FALSE]
      BY <1>3
    <2>3. m.known[id].lastSeenSerial <= m.serial
      BY <2>1 DEF MemoryOK
    <2>. QED
      BY <2>1, <2>2, <2>3 DEF Entry
  <1>7. ASSUME NEW id \in IdsOf(s)
        PROVE  /\ n.known[id].lastSeenSerial > m.serial /\ n.known[id].lastSeenSerial <= n.serial
    <2>1. Entered(s, id) \in s
      BY <1>1, SeenIs
    <2>2. /\ Cardinality(Before(s, Entered(s, id))) \in Nat
          /\ Cardinality(Before(s, Entered(s, id))) < Cardinality(s)
      BY <2>1, Places
    <2>. QED
      BY <1>1, <1>2, <1>5, <2>2
  <1>8. IsFiniteSet(D)
    <2>1. IsFiniteSet(IdsOf(s))
      BY IdsFinite DEF SnapshotOK
    <2>. QED
      BY <2>1, FS_Union DEF MemoryOK, Ranked
  <1>9. \A v, w \in D : n.known[v].lastSeenSerial = n.known[w].lastSeenSerial => v = w
    <2>. SUFFICES ASSUME NEW v \in D, NEW w \in D,
                         n.known[v].lastSeenSerial = n.known[w].lastSeenSerial
                  PROVE  v = w
      OBVIOUS
    <2>1. v \in IdsOf(s) <=> w \in IdsOf(s)
      BY <1>1, <1>5, <1>6, <1>7 DEF Entry
    <2>2. CASE v \in IdsOf(s)
      <3>1. /\ Entered(s, v) \in s /\ Entered(s, v).id = v
            /\ Entered(s, w) \in s /\ Entered(s, w).id = w
        BY <1>1, <2>1, <2>2, SeenIs
      <3>2. /\ Cardinality(Before(s, Entered(s, v))) \in Nat
            /\ Cardinality(Before(s, Entered(s, w))) \in Nat
        BY <3>1, Places
      <3>3. Cardinality(Before(s, Entered(s, v))) = Cardinality(Before(s, Entered(s, w)))
        BY <1>1, <1>5, <2>1, <2>2, <3>2
      <3>. QED
        BY <3>1, <3>3, Places
    <2>3. CASE v \notin IdsOf(s)
      BY <1>6, <2>1, <2>3 DEF MemoryOK, Ranked
    <2>. QED
      BY <2>2, <2>3
  <1>10. n.known \in [D -> Entry]
    <2>1. \A id \in D : n.known[id] \in Entry
      BY <1>5, <1>6
    <2>2. n.known = [id \in D |-> n.known[id]]
      BY <1>2 DEF known
    <2>. QED
      BY <2>1, <2>2
  <1>11. Ranked(n.known)
    BY <1>4, <1>8, <1>9, <1>10 DEF Ranked
  <1>12. \A id \in D : n.known[id].lastSeenSerial <= n.serial
    BY <1>1, <1>2, <1>6, <1>7, <1>10 DEF Entry
  <1>. QED
    BY <1>1, <1>2, <1>4, <1>5, <1>6, <1>7, <1>11, <1>12

\* What an update makes of a memory: it stays one, what is forgotten makes room for what was
\* seen later, and nothing is forgotten while there is room.
LEMMA UpdateIs ==
    ASSUME NEW m, MemoryOK(m), NEW s, SnapshotOK(s), NEW n, n = updateFromSnapshot(m, s)
    PROVE  /\ MemoryOK(n) /\ n.serial >= m.serial
           /\ DOMAIN n.known \subseteq DOMAIN m.known \cup IdsOf(s)
           /\ Cardinality(DOMAIN n.known) < Capacity =>
                 DOMAIN n.known = DOMAIN m.known \cup IdsOf(s)
           /\ \A id \in DOMAIN n.known :
                 /\ id \in IdsOf(s) => n.known[id].lastSeenSerial > m.serial
                 /\ id \notin IdsOf(s) => /\ id \in DOMAIN m.known
                                          /\ n.known[id].lastSeenSerial = m.known[id].lastSeenSerial
           /\ \A v \in (DOMAIN m.known \cup IdsOf(s)) \ DOMAIN n.known, u \in DOMAIN n.known :
                 u \in IdsOf(s) \/
                 (v \notin IdsOf(s) /\ m.known[v].lastSeenSerial < m.known[u].lastSeenSerial)
  <1>. DEFINE r == Marked(m, s)
              D == DOMAIN m.known \cup IdsOf(s)
  <1>1. n = evictIfNeeded(r)
    BY DEF updateFromSnapshot, Marked, Entered
  <1>2. /\ r \in [capacity : {Capacity}, serial : Nat, known : {r.known}]
        /\ r.serial >= m.serial /\ DOMAIN r.known = D /\ Ranked(r.known)
        /\ \A id \in DOMAIN r.known :
              /\ r.known[id].available <=> id \in IdsOf(s)
              /\ r.known[id].lastSeenSerial <= r.serial
              /\ id \in IdsOf(s) => r.known[id].lastSeenSerial > m.serial
              /\ id \notin IdsOf(s) => r.known[id].lastSeenSerial = m.known[id].lastSeenSerial
    BY MarkedIs
  <1>. HIDE DEF r
  <1>3. Capacity \in Nat
    BY CatalogueAssumption
  <1>4. r \in [capacity : Nat, serial : Nat, known : {r.known}] /\ r.capacity = Capacity
    BY <1>2, <1>3
  <1>5. /\ n.capacity = Capacity /\ n.serial = r.serial
        /\ Keeps(r.known, Capacity, D, DOMAIN n.known)
        /\ n.known = [id \in DOMAIN n.known |-> r.known[id]]
    BY <1>1, <1>2, <1>4, Evicts
  <1>6. n \in [capacity : {Capacity}, serial : Nat, known : {n.known}]
    BY <1>1, <1>2, <1>5 DEF evictIfNeeded
  <1>7. /\ DOMAIN n.known \subseteq D /\ IsFiniteSet(D) /\ Cardinality(D) \in Nat
        /\ IsFiniteSet(DOMAIN n.known)
    BY <1>2, <1>5, FS_Subset, FS_CardinalityType DEF Ranked, Keeps
  <1>8. \A id \in DOMAIN n.known : n.known[id] = r.known[id]
    BY <1>5
  <1>9. Ranked(n.known)
    <2>1. \A id \in DOMAIN n.known : n.known[id] \in Entry
      BY <1>2, <1>7, <1>8 DEF Ranked
    <2>2. n.known = [id \in DOMAIN n.known |-> n.known[id]]
      BY <1>5
    <2>3. n.known \in [DOMAIN n.known -> Entry]
      BY <2>1, <2>2
    <2>. QED
      BY <1>2, <1>7, <1>8, <2>3 DEF Ranked
  <1>10. /\ Cardinality(DOMAIN n.known) <= Capacity
         /\ Cardinality(DOMAIN n.known) < Capacity => DOMAIN n.known = D
    <2>1. CASE Cardinality(D) <= Capacity
      BY <1>5, <2>1 DEF Keeps
    <2>2. CASE Cardinality(D) > Capacity
      <3>1. Cardinality(DOMAIN n.known) = Capacity
        BY <1>5, <2>2 DEF Keeps
      <3>. QED
        BY <1>3, <3>1
    <2>. QED
      BY <1>3, <1>7, <2>1, <2>2
  <1>11. MemoryOK(n)
    BY <1>2, <1>5, <1>6, <1>7, <1>8, <1>9, <1>10 DEF MemoryOK
  <1>12. \A id \in DOMAIN n.known :
            /\ id \in IdsOf(s) => n.known[id].lastSeenSerial > m.serial
            /\ id \notin IdsOf(s) => /\ id \in DOMAIN m.known
                                     /\ n.known[id].lastSeenSerial = m.known[id].lastSeenSerial
    BY <1>2, <1>7, <1>8
  <1>13. ASSUME NEW v \in D \ DOMAIN n.known, NEW u \in DOMAIN n.known, u \notin IdsOf(s)
         PROVE  v \notin IdsOf(s) /\ m.known[v].lastSeenSerial < m.known[u].lastSeenSerial
    <2>1. EvictedBefore(r.known[v], r.known[u])
      BY <1>5 DEF Keeps
    <2>2. u \in D /\ ~r.known[u].available
      BY <1>2, <1>7, <1>13
    <2>3. r.known[v] \in Entry /\ r.known[u] \in Entry
      BY <1>2, <2>2 DEF Ranked
    <2>4. ~r.known[v].available /\ r.known[v].lastSeenSerial < r.known[u].lastSeenSerial
      BY <2>1, <2>2, <2>3 DEF EvictedBefore, Entry
    <2>. QED
      BY <1>2, <1>13, <2>2, <2>4
  <1>. QED
    BY <1>2, <1>5, <1>7, <1>10, <1>11, <1>12, <1>13

-----------------------------------------------------------------------------
(* The catalogue *)

\* Only what exists is enumerated, and only then is a device seen.
TypeOK ==
    /\ env \in [mode : {"headless", "fake", "real"}, linux : BOOLEAN, rescan : Rescan]
    /\ present \subseteq Devices /\ noticed \subseteq Devices
    /\ DOMAIN memory = Kinds /\ DOMAIN list = Kinds
    /\ refreshes \in Nat /\ seenAt \in [Devices -> 0..refreshes]

\* The memories, and that what a memory lacks was not seen later than what it has.
Memories ==
    /\ \A k \in Kinds : MemoryOK(memory[k])
    /\ \A c, d \in Devices : c.kind = d.kind =>
         /\ c.id \notin Known(c.kind) /\ d.id \in Known(d.kind) => seenAt[c] <= seenAt[d]
         /\ (/\ c.id \in Known(c.kind) /\ d.id \in Known(d.kind)
             /\ seenAt[c] < seenAt[d])
              => memory[c.kind].known[c.id].lastSeenSerial < memory[d.kind].known[d.id].lastSeenSerial

\* What a list has of its memory.
Listed ==
    env.mode = "real" => \A k \in Kinds :
        /\ IdsOf(ListedAvailable(k)) \subseteq Known(k) \/ list[k] = ListedAvailable(k)
        /\ Cardinality(Known(k)) < Capacity => IdsOf(list[k]) \subseteq Known(k)

CatalogueInv == TypeOK /\ Memories /\ Listed /\ ListedOnce

\* A snapshot has devices of its kind, each once, and no twins.
LEMMA SnapshotIs ==
    ASSUME noticed \subseteq Devices, present \subseteq Devices, NEW k \in Kinds
    PROVE  /\ SnapshotOK(Snapshot(k))
           /\ \A d \in Devices : d.id \in IdsOf(Snapshot(k)) => d.kind = k
           /\ \A c, d \in Devices :
                 (/\ c.api # d.api
                  /\ c.id \in IdsOf(Snapshot(k)) /\ d.id \in IdsOf(Snapshot(k))) => c.name # d.name
  <1>. DEFINE qt == {d \in EnumeratedIn(k) : d.api = "qt"}
              dshow == {d \in EnumeratedIn(k) \ qt : \A c \in qt : c.name # d.name}
              here == qt \cup dshow
  <1>1. Snapshot(k) = {Info(d) : d \in here}
    BY DEF Snapshot
  <1>2. here \subseteq Devices /\ \A d \in here : d.kind = k
    BY DEF EnumeratedIn
  <1>3. \A c, d \in here : c.api # d.api => c.name # d.name
    <2>1. \A d \in here : d.api \in {"qt", "dshow"}
      BY <1>2, CatalogueAssumption
    <2>2. \A c, d \in here : c.api = "qt" /\ d.api # "qt" => c.name # d.name
      OBVIOUS
    <2>. HIDE DEF here
    <2>. QED
      BY <2>1, <2>2
  <1>. HIDE DEF here
  <1>4. \A d \in Devices : Info(d).id = d.id /\ Info(d) \in [id : Nat, name : Nat, isDefault : BOOLEAN]
    BY CatalogueAssumption DEF Info
  <1>5. \A d \in Devices : d.id \in IdsOf(Snapshot(k)) => d \in here
    <2>. SUFFICES ASSUME NEW d \in Devices, d.id \in IdsOf(Snapshot(k))
                  PROVE  d \in here
      OBVIOUS
    <2>1. PICK c \in here : d.id = Info(c).id
      BY <1>1 DEF IdsOf
    <2>2. c.id = d.id
      BY <1>2, <1>4, <2>1
    <2>. QED
      BY <1>2, <2>2, CatalogueAssumption
  <1>6. SnapshotOK(Snapshot(k))
    <2>1. IsFiniteSet(Snapshot(k))
      <3>1. IsFiniteSet(here)
        BY <1>2, CatalogueAssumption, FS_Subset
      <3>. DEFINE f == [d \in here |-> Info(d)]
      <3>2. f \in Surjection(here, Snapshot(k))
        BY <1>1 DEF Surjection
      <3>. QED
        BY <3>1, <3>2, FS_Surjection
    <2>2. Snapshot(k) \subseteq [id : Nat, name : Nat, isDefault : BOOLEAN]
      BY <1>1, <1>2, <1>4
    <2>3. \A x, y \in Snapshot(k) : x.id = y.id => x = y
      <3>. SUFFICES ASSUME NEW x \in Snapshot(k), NEW y \in Snapshot(k), x.id = y.id
                    PROVE  x = y
        OBVIOUS
      <3>1. PICK c \in here, d \in here : x = Info(c) /\ y = Info(d)
        BY <1>1
      <3>2. c.id = d.id
        BY <1>2, <1>4, <3>1
      <3>3. c = d
        BY <1>2, <3>2, CatalogueAssumption
      <3>. QED
        BY <3>1, <3>3
    <2>. QED
      BY <2>1, <2>2, <2>3 DEF SnapshotOK
  <1>. QED
    BY <1>2, <1>3, <1>5, <1>6

\* The list of a kind: what is enumerated, and what the memory has besides.
LEMMA ListIs ==
    ASSUME NEW k \in Kinds, SnapshotOK(Snapshot(k)), NEW m, NEW l,
           l = Available(k) \cup Missing(m, IdsOf(Snapshot(k)))
    PROVE  /\ {e \in l : e.available} = Available(k)
           /\ IdsOf(Available(k)) = IdsOf(Snapshot(k))
           /\ IdsOf(l) = IdsOf(Snapshot(k)) \cup DOMAIN m.known
           /\ \A e, f \in l : e.id = f.id => e = f
           /\ DOMAIN m.known \subseteq IdsOf(Snapshot(k)) => l = Available(k)
  <1>. DEFINE ids == IdsOf(Snapshot(k))
              a(i) == [id |-> i.id, name |-> i.name, isDefault |-> i.isDefault, available |-> TRUE]
              b(id) == [id |-> id, name |-> m.known[id].name, isDefault |-> FALSE, available |-> FALSE]
  <1>1. Available(k) = {a(i) : i \in Snapshot(k)}
    BY DEF Available
  <1>2. Missing(m, ids) = {b(id) : id \in DOMAIN m.known \ ids}
    BY DEF Missing
  <1>3. \A i \in Snapshot(k) : a(i).id = i.id /\ a(i).available
    OBVIOUS
  <1>4. \A id \in DOMAIN m.known \ ids : b(id).id = id /\ ~b(id).available
    OBVIOUS
  <1>5. ids = {i.id : i \in Snapshot(k)}
    BY DEF IdsOf
  <1>6. \A i, j \in Snapshot(k) : i.id = j.id => i = j
    BY DEF SnapshotOK
  <1>. HIDE DEF a, b, ids
  <1>7. IdsOf(Available(k)) = ids
    <2>1. IdsOf(Available(k)) \subseteq ids
      BY <1>1, <1>3, <1>5 DEF IdsOf
    <2>2. ids \subseteq IdsOf(Available(k))
      BY <1>1, <1>3, <1>5 DEF IdsOf
    <2>. QED
      BY <2>1, <2>2
  <1>8. {e \in l : e.available} = Available(k)
    BY <1>1, <1>2, <1>3, <1>4 DEF ids
  <1>9. IdsOf(Missing(m, ids)) = DOMAIN m.known \ ids
    <2>1. IdsOf(Missing(m, ids)) \subseteq DOMAIN m.known \ ids
      BY <1>2, <1>4 DEF IdsOf
    <2>2. DOMAIN m.known \ ids \subseteq IdsOf(Missing(m, ids))
      BY <1>2, <1>4 DEF IdsOf
    <2>. QED
      BY <2>1, <2>2
  <1>10. IdsOf(l) = IdsOf(Available(k)) \cup IdsOf(Missing(m, ids))
    BY DEF IdsOf, ids
  <1>11. ASSUME NEW e \in l, NEW f \in l, e.id = f.id
         PROVE  e = f
    <2>1. \A x \in Available(k) : x.id \in ids
      BY <1>7 DEF IdsOf
    <2>2. \A x \in Missing(m, ids) : x.id \notin ids
      BY <1>2, <1>4
    <2>3. CASE e \in Available(k) /\ f \in Available(k)
      BY <1>1, <1>3, <1>6, <1>11, <2>3
    <2>4. CASE e \in Missing(m, ids) /\ f \in Missing(m, ids)
      BY <1>2, <1>4, <1>11, <2>4
    <2>. QED
      BY <1>11, <2>1, <2>2, <2>3, <2>4 DEF ids
  <1>12. DOMAIN m.known \subseteq ids => l = Available(k)
    BY <1>2 DEF ids
  <1>. QED
    BY <1>7, <1>8, <1>9, <1>10, <1>11, <1>12 DEF ids

\* What a refresh of a real run makes of one kind.
LEMMA RefreshOfKind ==
    ASSUME TypeOK, Memories, RefreshReal, NEW k \in Kinds
    PROVE  /\ SnapshotOK(Snapshot(k)) /\ MemoryOK(memory[k]) /\ MemoryOK(memory'[k])
           /\ memory'[k] = updateFromSnapshot(memory[k], Snapshot(k))
           /\ {e \in list'[k] : e.available} = Available(k)
           /\ IdsOf(Available(k)) = IdsOf(Snapshot(k))
           /\ IdsOf(list'[k]) = IdsOf(Snapshot(k)) \cup DOMAIN memory'[k].known
           /\ \A e, f \in list'[k] : e.id = f.id => e = f
           /\ DOMAIN memory'[k].known \subseteq IdsOf(Snapshot(k)) => list'[k] = Available(k)
  <1>1. SnapshotOK(Snapshot(k)) /\ MemoryOK(memory[k])
    BY SnapshotIs DEF TypeOK, Memories
  <1>2. /\ memory'[k] = updateFromSnapshot(memory[k], Snapshot(k))
        /\ list'[k] = Available(k) \cup Missing(memory'[k], IdsOf(Snapshot(k)))
    BY DEF RefreshReal
  <1>3. MemoryOK(memory'[k])
    BY <1>1, <1>2, UpdateIs
  <1>. DEFINE l == list'[k]
              m == memory'[k]
  <1>4. l = Available(k) \cup Missing(m, IdsOf(Snapshot(k)))
    BY <1>2
  <1>. HIDE DEF l, m
  <1>5. /\ {e \in l : e.available} = Available(k)
        /\ IdsOf(Available(k)) = IdsOf(Snapshot(k))
        /\ IdsOf(l) = IdsOf(Snapshot(k)) \cup DOMAIN m.known
        /\ \A e, f \in l : e.id = f.id => e = f
        /\ DOMAIN m.known \subseteq IdsOf(Snapshot(k)) => l = Available(k)
    BY <1>1, <1>4, ListIs
  <1>. QED
    BY <1>1, <1>2, <1>3, <1>5 DEF l, m

\* A refresh of a real run keeps the order in which devices were seen.
LEMMA RealMemories ==
    ASSUME TypeOK, Memories, RefreshReal
    PROVE  /\ refreshes' \in Nat /\ seenAt' \in [Devices -> 0..refreshes']
           /\ Memories'
  <1>. DEFINE ids(k) == IdsOf(Snapshot(k))
  <1>1. refreshes' = refreshes + 1 /\ refreshes \in Nat /\ \A d \in Devices : seenAt[d] \in 0..refreshes
    BY DEF TypeOK, RefreshReal
  <1>2. \A d \in Devices : seenAt'[d] = IF d.id \in ids(d.kind) THEN refreshes' ELSE seenAt[d]
    BY DEF RefreshReal
  <1>3. refreshes' \in Nat /\ seenAt' \in [Devices -> 0..refreshes']
    BY <1>1 DEF RefreshReal
  <1>4. \A k \in Kinds : MemoryOK(memory'[k])
    BY RefreshOfKind
  <1>5. ASSUME NEW c \in Devices, NEW d \in Devices, c.kind = d.kind
        PROVE  /\ c.id \notin Known(c.kind)' /\ d.id \in Known(d.kind)' => seenAt'[c] <= seenAt'[d]
               /\ (/\ c.id \in Known(c.kind)' /\ d.id \in Known(d.kind)'
                   /\ seenAt'[c] < seenAt'[d])
                    => memory'[c.kind].known[c.id].lastSeenSerial
                          < memory'[d.kind].known[d.id].lastSeenSerial
    <2>. DEFINE k == d.kind
                m == memory[k]
                n == memory'[k]
    <2>1. k \in Kinds /\ c.kind = k
      BY <1>5, CatalogueAssumption
    <2>2. /\ SnapshotOK(Snapshot(k)) /\ MemoryOK(m) /\ MemoryOK(n)
          /\ n = updateFromSnapshot(m, Snapshot(k))
      BY <2>1, RefreshOfKind
    <2>3. Known(k) = DOMAIN m.known /\ Known(k)' = DOMAIN n.known
      BY DEF Known
    <2>4. /\ c.id \notin DOMAIN m.known /\ d.id \in DOMAIN m.known => seenAt[c] <= seenAt[d]
          /\ c.id \in DOMAIN m.known /\ d.id \in DOMAIN m.known /\ seenAt[c] < seenAt[d]
               => m.known[c.id].lastSeenSerial < m.known[d.id].lastSeenSerial
          /\ c.id \in DOMAIN m.known /\ d.id \in DOMAIN m.known /\ seenAt[d] < seenAt[c]
               => m.known[d.id].lastSeenSerial < m.known[c.id].lastSeenSerial
      BY <1>5, <2>3 DEF Memories
    <2>5. /\ seenAt'[c] = IF c.id \in ids(k) THEN refreshes' ELSE seenAt[c]
          /\ seenAt'[d] = IF d.id \in ids(k) THEN refreshes' ELSE seenAt[d]
      BY <1>2, <2>1
    <2>. HIDE DEF k, m, n
    <2>6. /\ \A id \in DOMAIN n.known :
              /\ id \in ids(k) => n.known[id].lastSeenSerial > m.serial
              /\ id \notin ids(k) => /\ id \in DOMAIN m.known
                                     /\ n.known[id].lastSeenSerial = m.known[id].lastSeenSerial
          /\ \A v \in (DOMAIN m.known \cup ids(k)) \ DOMAIN n.known, u \in DOMAIN n.known :
              u \in ids(k) \/
              (v \notin ids(k) /\ m.known[v].lastSeenSerial < m.known[u].lastSeenSerial)
      BY <2>2, UpdateIs
    <2>7. \A id \in DOMAIN m.known :
             m.known[id].lastSeenSerial \in Nat /\ m.known[id].lastSeenSerial <= m.serial
      BY <2>2 DEF MemoryOK, Ranked, Entry
    <2>8. \A id \in DOMAIN n.known : n.known[id].lastSeenSerial \in Nat
      BY <2>2 DEF MemoryOK, Ranked, Entry
    <2>9. m.serial \in Nat
      BY <2>2 DEF MemoryOK
    <2>. HIDE DEF ids
    <2>10. ASSUME c.id \notin DOMAIN n.known, d.id \in DOMAIN n.known
           PROVE  seenAt'[c] <= seenAt'[d]
      <3>1. CASE d.id \in ids(k)
        BY <1>1, <2>5, <3>1
      <3>2. CASE d.id \notin ids(k)
        <4>1. d.id \in DOMAIN m.known /\ seenAt'[d] = seenAt[d]
          BY <2>5, <2>6, <2>10, <3>2
        <4>2. c.id \notin ids(k)
          BY <2>6, <2>10, <3>2
        <4>3. seenAt'[c] = seenAt[c]
          BY <2>5, <4>2
        <4>4. CASE c.id \notin DOMAIN m.known
          BY <2>4, <4>1, <4>3, <4>4
        <4>5. CASE c.id \in DOMAIN m.known
          <5>1. m.known[c.id].lastSeenSerial < m.known[d.id].lastSeenSerial
            BY <2>6, <2>10, <3>2, <4>5
          <5>. QED
            BY <1>1, <2>4, <2>7, <4>1, <4>3, <4>5, <5>1
        <4>. QED
          BY <4>4, <4>5
      <3>. QED
        BY <3>1, <3>2
    <2>11. ASSUME c.id \in DOMAIN n.known, d.id \in DOMAIN n.known, seenAt'[c] < seenAt'[d]
           PROVE  n.known[c.id].lastSeenSerial < n.known[d.id].lastSeenSerial
      <3>1. c.id \notin ids(k)
        BY <1>1, <2>5, <2>11
      <3>2. /\ c.id \in DOMAIN m.known
            /\ n.known[c.id].lastSeenSerial = m.known[c.id].lastSeenSerial
        BY <2>6, <2>11, <3>1
      <3>3. CASE d.id \in ids(k)
        BY <2>6, <2>7, <2>8, <2>9, <2>11, <3>2, <3>3
      <3>4. CASE d.id \notin ids(k)
        BY <2>4, <2>5, <2>6, <2>11, <3>1, <3>2, <3>4
      <3>. QED
        BY <3>3, <3>4
    <2>. QED
      BY <1>5, <2>1, <2>3, <2>10, <2>11 DEF k, m, n
  <1>. QED
    BY <1>3, <1>4, <1>5 DEF Memories

\* A refresh of a real run lists each device once; what was listed stays unless the memory
\* is full, and a full memory does without available devices only if it has no others.
LEMMA RealLists ==
    ASSUME CatalogueInv, RefreshReal, UNCHANGED env
    PROVE  /\ Listed' /\ ListedOnce'
           /\ \A k \in Kinds : \/ IdsOf(list[k]) \subseteq IdsOf(list'[k])
                               \/ Cardinality(Known(k)') = Capacity
  <1>. DEFINE ids(k) == IdsOf(Snapshot(k))
  <1>0. TypeOK /\ Memories /\ env.mode = "real"
    BY DEF CatalogueInv, RefreshReal
  <1>1. \A k \in Kinds :
           /\ SnapshotOK(Snapshot(k)) /\ MemoryOK(memory[k]) /\ MemoryOK(memory'[k])
           /\ memory'[k] = updateFromSnapshot(memory[k], Snapshot(k))
           /\ ListedAvailable(k)' = Available(k)
           /\ IdsOf(Available(k)) = ids(k)
           /\ IdsOf(list'[k]) = ids(k) \cup DOMAIN memory'[k].known
           /\ \A e, f \in list'[k] : e.id = f.id => e = f
           /\ DOMAIN memory'[k].known \subseteq ids(k) => list'[k] = Available(k)
    BY <1>0, RefreshOfKind DEF ListedAvailable
  <1>2. \A k \in Kinds : Known(k) = DOMAIN memory[k].known /\ Known(k)' = DOMAIN memory'[k].known
    BY DEF Known
  <1>3. ASSUME NEW k \in Kinds
        PROVE  /\ \/ IdsOf(Available(k)) \subseteq Known(k)'
                  \/ list'[k] = Available(k)
               /\ Cardinality(Known(k)') < Capacity => IdsOf(list'[k]) \subseteq Known(k)'
               /\ \/ IdsOf(list[k]) \subseteq IdsOf(list'[k])
                  \/ Cardinality(Known(k)') = Capacity
    <2>. DEFINE m == memory[k]
                n == memory'[k]
    <2>1. SnapshotOK(Snapshot(k)) /\ MemoryOK(m) /\ n = updateFromSnapshot(m, Snapshot(k))
      BY <1>1
    <2>. HIDE DEF m, n
    <2>2. /\ MemoryOK(n)
          /\ Cardinality(DOMAIN n.known) < Capacity => DOMAIN n.known = DOMAIN m.known \cup ids(k)
          /\ \A v \in (DOMAIN m.known \cup ids(k)) \ DOMAIN n.known, u \in DOMAIN n.known :
                u \in ids(k) \/ v \notin ids(k)
      BY <2>1, UpdateIs
    <2>3. /\ IdsOf(Available(k)) = ids(k) /\ IdsOf(list'[k]) = ids(k) \cup DOMAIN n.known
          /\ DOMAIN n.known \subseteq ids(k) => list'[k] = Available(k)
          /\ Known(k) = DOMAIN m.known /\ Known(k)' = DOMAIN n.known
      BY <1>1, <1>2 DEF m, n
    <2>4. /\ Cardinality(DOMAIN n.known) \in Nat /\ Cardinality(DOMAIN m.known) \in Nat
          /\ Cardinality(DOMAIN n.known) <= Capacity /\ Capacity \in Nat
      BY <2>1, <2>2, FS_CardinalityType, CatalogueAssumption DEF MemoryOK, Ranked
    <2>. HIDE DEF ids
    <2>5. IdsOf(Available(k)) \subseteq Known(k)' \/ list'[k] = Available(k)
      BY <2>2, <2>3
    <2>6. Cardinality(Known(k)') < Capacity => IdsOf(list'[k]) \subseteq Known(k)'
      BY <2>2, <2>3
    <2>7. CASE Cardinality(DOMAIN n.known) < Capacity
      <3>1. DOMAIN m.known \subseteq DOMAIN n.known
        BY <2>2, <2>7
      <3>2. Cardinality(DOMAIN m.known) <= Cardinality(DOMAIN n.known)
        BY <2>2, <3>1, FS_Subset DEF MemoryOK, Ranked
      <3>3. Cardinality(Known(k)) < Capacity
        BY <2>3, <2>4, <2>7, <3>2
      <3>4. IdsOf(list[k]) \subseteq Known(k)
        BY <1>0, <3>3 DEF CatalogueInv, Listed
      <3>. QED
        BY <2>3, <2>5, <2>6, <3>1, <3>4
    <2>8. CASE Cardinality(DOMAIN n.known) = Capacity
      BY <2>3, <2>5, <2>6, <2>8
    <2>. QED
      BY <2>4, <2>7, <2>8
  <1>4. Listed'
    <2>1. \A k \in Kinds : /\ \/ IdsOf(ListedAvailable(k)') \subseteq Known(k)'
                              \/ list'[k] = ListedAvailable(k)'
                           /\ Cardinality(Known(k)') < Capacity => IdsOf(list'[k]) \subseteq Known(k)'
      BY <1>1, <1>3
    <2>2. \A k \in Kinds : IdsOf(ListedAvailable(k))' = IdsOf(ListedAvailable(k)')
      BY DEF IdsOf
    <2>3. \A k \in Kinds : IdsOf(list[k])' = IdsOf(list'[k])
      BY DEF IdsOf
    <2>. QED
      BY <2>1, <2>2, <2>3 DEF Listed
  <1>5. ListedOnce'
    <2>1. "camera" \in Kinds
      BY DEF Kinds
    <2>2. IdsOf(ListedAvailable("camera"))' = ids("camera")
      <3>1. IdsOf(ListedAvailable("camera"))' = IdsOf(ListedAvailable("camera")')
        BY DEF IdsOf
      <3>. QED
        BY <1>1, <2>1, <3>1
    <2>3. \A c, d \in Devices :
             (c.api # d.api /\ c.id \in ids("camera") /\ d.id \in ids("camera")) => c.name # d.name
      BY <1>0, <2>1, SnapshotIs DEF TypeOK
    <2>. HIDE DEF ids
    <2>. QED
      BY <1>1, <2>2, <2>3 DEF ListedOnce
  <1>. QED
    BY <1>3, <1>4, <1>5

\* A cleared memory is one.
LEMMA ClearedIs ==
    ASSUME NEW m, MemoryOK(m)
    PROVE  MemoryOK(clear(m)) /\ DOMAIN clear(m).known = {}
  <1>1. clear(m) = [m EXCEPT !.known = NothingKnown, !.serial = 0]
    BY DEF clear
  <1>2. DOMAIN NothingKnown = {}
    BY DEF NothingKnown
  <1>3. Ranked(NothingKnown)
    <2>1. NothingKnown \in [{} -> Entry]
      BY DEF NothingKnown
    <2>. QED
      BY <1>2, <2>1, FS_EmptySet DEF Ranked
  <1>. HIDE DEF NothingKnown
  <1>4. /\ clear(m) \in [capacity : {Capacity}, serial : Nat, known : {clear(m).known}]
        /\ clear(m).known = NothingKnown
    <2>1. m \in [capacity : {Capacity}, serial : Nat, known : {m.known}]
      BY DEF MemoryOK
    <2>2. clear(m).known = NothingKnown
      BY <1>1, <2>1
    <2>3. clear(m) \in [capacity : {Capacity}, serial : Nat, known : {NothingKnown}]
      <3>1. m = [capacity |-> m.capacity, serial |-> m.serial, known |-> m.known]
        BY <2>1
      <3>2. clear(m) = [capacity |-> m.capacity, serial |-> 0, known |-> NothingKnown]
        BY <1>1, <3>1
      <3>3. m.capacity = Capacity
        BY <2>1
      <3>. QED
        BY <3>2, <3>3
    <2>. QED
      BY <2>2, <2>3
  <1>5. Capacity \in Nat
    BY CatalogueAssumption
  <1>. QED
    BY <1>2, <1>3, <1>4, <1>5, FS_EmptySet DEF MemoryOK

\* Without real devices nothing is remembered, and invented ones are listed once.
LEMMA UnrealRefresh ==
    ASSUME CatalogueInv, RefreshHeadless \/ RefreshFake, UNCHANGED env
    PROVE  /\ DOMAIN memory' = Kinds /\ DOMAIN list' = Kinds
           /\ Memories' /\ Listed' /\ ListedOnce' /\ UNCHANGED <<refreshes, seenAt>>
           /\ env.mode # "real"
  <1>1. /\ memory' = [k \in Kinds |-> clear(memory[k])] /\ UNCHANGED <<refreshes, seenAt>>
        /\ env.mode # "real" /\ env'.mode # "real"
    BY DEF RefreshHeadless, RefreshFake
  <1>2. \A k \in Kinds : MemoryOK(memory'[k]) /\ DOMAIN memory'[k].known = {}
    BY <1>1, ClearedIs DEF CatalogueInv, Memories
  <1>3. Memories'
    <2>1. \A k \in Kinds : Known(k)' = {}
      BY <1>2 DEF Known
    <2>2. \A d \in Devices : d.kind \in Kinds
      BY CatalogueAssumption
    <2>. QED
      BY <1>2, <2>1, <2>2 DEF Memories
  <1>4. /\ DOMAIN list' = Kinds
        /\ \A k \in Kinds : \A e, f \in list'[k] : e.id = f.id => e = f
    <2>1. CASE RefreshHeadless
      BY <2>1 DEF RefreshHeadless
    <2>2. CASE RefreshFake
      <3>1. PICK names \in [Kinds -> generateSubset] : list' = [k \in Kinds |-> Invented(names[k])]
        BY <2>2 DEF RefreshFake
      <3>2. \A N : \A e, f \in Invented(N) : e.id = f.id => e = f
        <4>. TAKE N
        <4>. DEFINE invented(n) == [id |-> n, name |-> n, isDefault |-> \A o \in N : n <= o,
                                    available |-> TRUE]
        <4>1. Invented(N) = {invented(n) : n \in N}
          BY DEF Invented
        <4>2. \A n \in N : invented(n).id = n
          OBVIOUS
        <4>. HIDE DEF invented
        <4>. QED
          BY <4>1, <4>2
      <3>. QED
        BY <3>1, <3>2
    <2>. QED
      BY <2>1, <2>2
  <1>. QED
    BY <1>1, <1>3, <1>4 DEF Listed, ListedOnce

\* Whatever is not a refresh leaves lists and memories alone.
LEMMA QuietStep ==
    ASSUME TypeOK,
           \/ \E k \in Kinds : onInputsChanged(k) \/ DefaultChanges(k)
           \/ onVideoInputsRescanTick
           \/ \E d \in Possible : DeviceChanges(d)
           \/ IntegrationStarts
           \/ \E s \in Screens : ScreenComesOrGoes(s) \/ ScreenChangesGeometry(s)
    PROVE  /\ UNCHANGED <<memory, list, refreshes, seenAt>>
           /\ env'.mode = env.mode /\ TypeOK'
  <1>1. /\ UNCHANGED <<memory, list, refreshes, seenAt>> /\ present' \subseteq Devices
        /\ noticed' \subseteq Devices
        /\ env' \in [mode : {"headless", "fake", "real"}, linux : BOOLEAN, rescan : Rescan]
        /\ env'.mode = env.mode
    <2>0. /\ present \subseteq Devices /\ noticed \subseteq Devices
          /\ env \in [mode : {"headless", "fake", "real"}, linux : BOOLEAN, rescan : Rescan]
      BY DEF TypeOK
    <2>. USE DEF catalogue
    <2>1. ASSUME NEW k \in Kinds, onInputsChanged(k) PROVE <1>1!:
      BY <2>0, <2>1 DEF onInputsChanged, platform
    <2>2. ASSUME NEW k \in Kinds, DefaultChanges(k) PROVE <1>1!:
      BY <2>0, <2>2 DEF DefaultChanges
    <2>3. ASSUME onVideoInputsRescanTick PROVE <1>1!:
      <3>1. UNCHANGED <<env, present, memory, list, refreshes, seenAt>>
        BY <2>3 DEF onVideoInputsRescanTick
      <3>2. noticed' = noticed \/ noticed' = {d \in noticed : d.kind # "camera"} \cup Cameras
        BY <2>3 DEF onVideoInputsRescanTick, Notice
      <3>. QED
        BY <2>0, <3>1, <3>2 DEF Cameras
    <2>4. ASSUME NEW d \in Possible, DeviceChanges(d) PROVE <1>1!:
      <3>1. d \in Devices
        BY DEF Possible
      <3>2. /\ UNCHANGED <<env, memory, list, refreshes, seenAt>>
            /\ present' = IF d \in present THEN present \ {d} ELSE present \cup {d}
        BY <2>4 DEF DeviceChanges
      <3>3. noticed' \subseteq noticed \cup {d}
        BY <2>4 DEF DeviceChanges, Notice
      <3>. QED
        BY <2>0, <3>1, <3>2, <3>3
    <2>5. ASSUME IntegrationStarts PROVE <1>1!:
      <3>1. PICK r \in {"invoked", "noSlot"} : env' = [env EXCEPT !.rescan = r]
        BY <2>5 DEF IntegrationStarts
      <3>2. r \in Rescan
        BY DEF Rescan
      <3>3. /\ env' \in [mode : {"headless", "fake", "real"}, linux : BOOLEAN, rescan : Rescan]
            /\ env'.mode = env.mode
        BY <2>0, <3>1, <3>2
      <3>. QED
        BY <2>0, <2>5, <3>3 DEF IntegrationStarts
    <2>6. ASSUME NEW s \in Screens, ScreenComesOrGoes(s) PROVE <1>1!:
      BY <2>0, <2>6 DEF ScreenComesOrGoes, onScreenAddedOrRemoved
    <2>7. ASSUME NEW s \in Screens, ScreenChangesGeometry(s) PROVE <1>1!:
      BY <2>0, <2>7 DEF ScreenChangesGeometry
    <2>. QED
      BY <2>1, <2>2, <2>3, <2>4, <2>5, <2>6, <2>7
  <1>. QED
    BY <1>1 DEF TypeOK

\* Lists and memories that stay keep what is said of them.
LEMMA QuietKeeps ==
    ASSUME CatalogueInv, UNCHANGED <<memory, list, refreshes, seenAt>>, env'.mode = env.mode,
           TypeOK'
    PROVE  CatalogueInv'
  <1>1. /\ \A k \in Kinds : Known(k)' = Known(k) /\ ListedAvailable(k)' = ListedAvailable(k)
        /\ \A k \in Kinds : /\ IdsOf(list[k])' = IdsOf(list[k])
                            /\ IdsOf(ListedAvailable(k))' = IdsOf(ListedAvailable(k))
    BY DEF Known, ListedAvailable, IdsOf
  <1>2. \A k \in Kinds : MemoryOK(memory[k])' = MemoryOK(memory[k])
    BY DEF MemoryOK, Ranked
  <1>3. \A d \in Devices : d.kind \in Kinds
    BY CatalogueAssumption
  <1>4. Memories'
    BY <1>1, <1>2, <1>3 DEF CatalogueInv, Memories
  <1>5. Listed'
    BY <1>1 DEF CatalogueInv, Listed
  <1>6. ListedOnce'
    <2>1. "camera" \in Kinds
      BY DEF Kinds
    <2>. QED
      BY <1>1, <2>1 DEF CatalogueInv, ListedOnce
  <1>. QED
    BY <1>4, <1>5, <1>6 DEF CatalogueInv

\* Every step keeps the invariant.
LEMMA StepCatalogue ==
    ASSUME CatalogueInv, [Next]_vars
    PROVE  CatalogueInv'
  <1>1. CASE Refresh
    <2>1. UNCHANGED platform /\ (RefreshReal \/ RefreshHeadless \/ RefreshFake)
      BY <1>1 DEF Refresh
    <2>2. UNCHANGED <<env, present, noticed>>
      BY <2>1 DEF platform
    <2>3. CASE RefreshReal
      <3>1. refreshes' \in Nat /\ seenAt' \in [Devices -> 0..refreshes'] /\ Memories'
        BY <2>3, RealMemories DEF CatalogueInv
      <3>2. Listed' /\ ListedOnce'
        BY <2>2, <2>3, RealLists
      <3>3. DOMAIN memory' = Kinds /\ DOMAIN list' = Kinds
        BY <2>3 DEF RefreshReal
      <3>. QED
        BY <2>2, <3>1, <3>2, <3>3 DEF CatalogueInv, TypeOK
    <2>4. CASE RefreshHeadless \/ RefreshFake
      <3>1. /\ DOMAIN memory' = Kinds /\ DOMAIN list' = Kinds
            /\ Memories' /\ Listed' /\ ListedOnce' /\ UNCHANGED <<refreshes, seenAt>>
        BY <2>2, <2>4, UnrealRefresh
      <3>. QED
        BY <2>2, <3>1 DEF CatalogueInv, TypeOK
    <2>. QED
      BY <2>1, <2>3, <2>4
  <1>2. CASE UNCHANGED vars
    <2>1. UNCHANGED <<env, present, noticed, memory, list, refreshes, seenAt>>
      BY <1>2 DEF vars, platform, catalogue
    <2>2. TypeOK'
      BY <2>1 DEF CatalogueInv, TypeOK
    <2>. QED
      BY <2>1, <2>2, QuietKeeps
  <1>3. CASE \/ \E k \in Kinds : onInputsChanged(k) \/ DefaultChanges(k)
             \/ onVideoInputsRescanTick
             \/ \E d \in Possible : DeviceChanges(d)
             \/ IntegrationStarts
             \/ \E s \in Screens : ScreenComesOrGoes(s) \/ ScreenChangesGeometry(s)
    <2>1. /\ UNCHANGED <<memory, list, refreshes, seenAt>>
          /\ env'.mode = env.mode /\ TypeOK'
      BY <1>3, QuietStep DEF CatalogueInv
    <2>. QED
      BY <2>1, QuietKeeps
  <1>. QED
    BY <1>1, <1>2, <1>3 DEF Next

\* The catalogue begins with nothing listed and nothing known.
LEMMA InitCatalogue ==
    ASSUME Init
    PROVE  CatalogueInv
  <1>1. TypeOK
    <2>1. env \in [mode : {"headless", "fake", "real"}, linux : BOOLEAN, rescan : Rescan]
      BY CatalogueAssumption DEF Init
    <2>2. present \subseteq Devices /\ noticed \subseteq Devices
      BY DEF Init, Possible
    <2>. QED
      BY <2>1, <2>2 DEF Init, TypeOK
  <1>2. Capacity \in Nat /\ \A d \in Devices : d.kind \in Kinds
    BY CatalogueAssumption
  <1>3. ASSUME NEW k \in Kinds
        PROVE  MemoryOK(memory[k]) /\ Known(k) = {} /\ list[k] = {}
    <2>1. memory[k] = [capacity |-> Capacity, serial |-> 0, known |-> NothingKnown]
      BY DEF Init, DeviceMemoryCache
    <2>2. DOMAIN NothingKnown = {} /\ NothingKnown \in [{} -> Entry]
      BY DEF NothingKnown
    <2>3. Ranked(NothingKnown)
      BY <2>2, FS_EmptySet DEF Ranked
    <2>. HIDE DEF NothingKnown
    <2>4. /\ memory[k] \in [capacity : {Capacity}, serial : Nat, known : {memory[k].known}]
          /\ memory[k].known = NothingKnown
      BY <2>1
    <2>. QED
      BY <1>2, <2>2, <2>3, <2>4, FS_EmptySet DEF MemoryOK, Known, Init
  <1>4. Memories
    BY <1>2, <1>3 DEF Memories
  <1>5. \A k \in Kinds : IdsOf(list[k]) = {} /\ ListedAvailable(k) = {} /\ IdsOf({}) = {}
    BY <1>3 DEF IdsOf, ListedAvailable
  <1>6. Listed
    BY <1>5 DEF Listed
  <1>7. ListedOnce
    <2>1. "camera" \in Kinds
      BY DEF Kinds
    <2>. QED
      BY <1>3, <1>5, <2>1 DEF ListedOnce
  <1>. QED
    BY <1>1, <1>4, <1>6, <1>7 DEF CatalogueInv

\* Refreshes only ever see devices that exist, and the histories keep their types.
THEOREM TypeCorrect == Spec => []TypeOK
  <1>1. Init => CatalogueInv
    BY InitCatalogue
  <1>2. CatalogueInv /\ [Next]_vars => CatalogueInv'
    BY StepCatalogue
  <1>3. CatalogueInv => TypeOK
    BY DEF CatalogueInv
  <1>. QED
    BY <1>1, <1>2, <1>3, PTL DEF Spec

\* No device is listed twice, in any mode, and no camera as one of Qt and one of DirectShow.
THEOREM DevicesListedOnce == Spec => []ListedOnce
  <1>1. Init => CatalogueInv
    BY InitCatalogue
  <1>2. CatalogueInv /\ [Next]_vars => CatalogueInv'
    BY StepCatalogue
  <1>3. CatalogueInv => ListedOnce
    BY DEF CatalogueInv
  <1>. QED
    BY <1>1, <1>2, <1>3, PTL DEF Spec

\* For any capacity a memory keeps it, forgets an available device only when it knows no
\* missing one, and among the missing forgets those first that were seen last longest ago.
THEOREM MemoriesForgetInOrder == Spec => []ForgetsInOrder
  <1>1. Init => CatalogueInv
    BY InitCatalogue
  <1>2. CatalogueInv /\ [Next]_vars => CatalogueInv'
    BY StepCatalogue
  <1>3. CatalogueInv => ForgetsInOrder
    <2>. SUFFICES ASSUME CatalogueInv PROVE ForgetsInOrder
      OBVIOUS
    <2>1. \A k \in Kinds : Cardinality(Known(k)) <= Capacity
      BY DEF CatalogueInv, Memories, MemoryOK, Known
    <2>2. \A k \in Kinds :
             env.mode = "real" /\ ~(IdsOf(ListedAvailable(k)) \subseteq Known(k))
               => list[k] = ListedAvailable(k)
      BY DEF CatalogueInv, Listed
    <2>3. \A c, d \in Devices :
             (c.kind = d.kind /\ c.id \notin Known(c.kind) /\ d.id \in Known(d.kind))
               => seenAt[c] <= seenAt[d]
      BY DEF CatalogueInv, Memories
    <2>. QED
      BY <2>1, <2>2, <2>3 DEF ForgetsInOrder
  <1>. QED
    BY <1>1, <1>2, <1>3, PTL DEF Spec

\* A device that is listed stays listed, available or missing, until the memory is full: no
\* refresh, whatever signals led to it, takes it from under the user's hands.
THEOREM ListedStay == Spec => ListedDevicesStay
  <1>. DEFINE Stay == env.mode = "real" => \A k \in Kinds :
                         IdsOf(list[k]) \subseteq IdsOf(list'[k]) \/ Cardinality(Known(k)') = Capacity
  <1>1. Init => CatalogueInv
    BY InitCatalogue
  <1>2. CatalogueInv /\ [Next]_vars => CatalogueInv'
    BY StepCatalogue
  <1>3. CatalogueInv /\ [Next]_vars => [Stay]_vars
    <2>. SUFFICES ASSUME CatalogueInv, Next, env.mode = "real" PROVE Stay
      OBVIOUS
    <2>1. CASE Refresh
      <3>1. RefreshReal /\ UNCHANGED env
        BY <2>1 DEF Refresh, RefreshHeadless, RefreshFake, platform
      <3>. QED
        BY <3>1, RealLists
    <2>2. CASE ~Refresh
      <3>1. UNCHANGED list
        BY <2>2, QuietStep DEF Next, CatalogueInv
      <3>. QED
        BY <3>1 DEF IdsOf
    <2>. QED
      BY <2>1, <2>2
  <1>. QED
    BY <1>1, <1>2, <1>3, PTL DEF Spec, ListedDevicesStay

=============================================================================
