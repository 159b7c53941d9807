-------------------------- MODULE DeviceMemoryCache --------------------------
(***************************************************************************)
(* The bounded memory of the devices seen in this run.  A cache is a value *)
(* that its owner updates, so it is a record here and every method an      *)
(* operator from a cache to a cache; LocalDeviceCatalogue owns three.      *)
(*                                                                         *)
(* Ids and names are numbers, ordered as the strings are; two names that   *)
(* differ only in case are one name.  A snapshot, which its caller sorts   *)
(* by name and id, is the set of its entries.                              *)
(***************************************************************************)
EXTENDS Naturals, FiniteSets, Functions

NothingKnown == [id \in {} |-> 0]

\* known: m_knownById; serial: m_serial.
DeviceMemoryCache(capacity) == [capacity |-> capacity, serial |-> 0, known |-> NothingKnown]

clear(m) == [m EXCEPT !.known = NothingKnown, !.serial = 0]

-----------------------------------------------------------------------------
\* Missing devices go before available ones, then the one least recently seen.
EvictedBefore(a, b) ==
    \/ b.available /\ ~a.available
    \/ a.available = b.available /\ a.lastSeenSerial < b.lastSeenSerial

Victim(known) ==
    CHOOSE v \in DOMAIN known :
        \A id \in DOMAIN known \ {v} : EvictedBefore(known[v], known[id])

evictIfNeeded(m) ==
    LET evict[K \in SUBSET DOMAIN m.known] ==
            IF Cardinality(K) <= m.capacity THEN K
            ELSE evict[K \ {Victim(Restrict(m.known, K))}]
    IN [m EXCEPT !.known = Restrict(m.known, evict[DOMAIN m.known])]

-----------------------------------------------------------------------------
ByNameThenId(a, b) == a.name < b.name \/ (a.name = b.name /\ a.id < b.id)

IdsOf(snapshot) == {d.id : d \in snapshot}

\* Fault: a device that is seen again keeps the serial of its first time.
Seen_KeepsSerial(m, snapshot, d) ==
    [name |-> d.name, isDefault |-> d.isDefault, available |-> TRUE,
     lastSeenSerial |-> IF d.id \in DOMAIN m.known THEN m.known[d.id].lastSeenSerial
                        ELSE m.serial + 1 + Cardinality({e \in snapshot : ByNameThenId(e, d)})]

\* What is known of a device of the snapshot: its serial tells its place in it.
Seen(m, snapshot, d) ==
    [name |-> d.name, isDefault |-> d.isDefault, available |-> TRUE,
     lastSeenSerial |-> m.serial + 1 + Cardinality({e \in snapshot : ByNameThenId(e, d)})]

\* Fault: what the snapshot lacks is dropped.
updateFromSnapshot_DropsMissing(m, snapshot) ==
    evictIfNeeded(
        [m EXCEPT !.serial = m.serial + Cardinality(snapshot),
                  !.known = [id \in IdsOf(snapshot) |->
                                Seen(m, snapshot, CHOOSE d \in snapshot : d.id = id)]])

\* Every known device is marked missing, and those of the snapshot available again.
updateFromSnapshot(m, snapshot) ==
    evictIfNeeded(
        [m EXCEPT !.serial = m.serial + Cardinality(snapshot),
                  !.known = [id \in DOMAIN m.known \cup IdsOf(snapshot) |->
                      IF id \in IdsOf(snapshot)
                      THEN Seen(m, snapshot, CHOOSE d \in snapshot : d.id = id)
                      ELSE [m.known[id] EXCEPT !.available = FALSE, !.isDefault = FALSE]]])

\* The entries appendMissingToVariantList() adds to a list that has snapshotIds.
Missing(m, snapshotIds) ==
    {[id |-> id, name |-> m.known[id].name, isDefault |-> FALSE, available |-> FALSE] :
        id \in DOMAIN m.known \ snapshotIds}
=============================================================================
