------------------------- MODULE GroundIngestProofs -------------------------
(* Proofs about GroundIngest, for any set of records and any window.        *)
EXTENDS GroundIngest, FiniteSetTheorems, TLAPS

(* What memory holds, also while the process is down, comes from the store. *)
MemoryIsStored ==
    /\ \A s \in Sources :
         lastSequence[s] # NoSequence =>
            \E r \in store : r.source = s /\ r.seq = lastSequence[s]
    /\ \A k \in Kinds :
         /\ latestByKind[k] # NoRecord =>
              latestByKind[k] \in store /\ latestByKind[k].kind = k
         /\ counters[k] <= Cardinality(OfKind(store, k))

IInv ==
    /\ TypeOK
    /\ IsFiniteSet(store)
    /\ SeenIsDurable
    /\ AcceptedIsDurable
    /\ PublishedAtMostOnce
    /\ MemoryIsStored
    /\ StateMatchesStore

LEMMA RecordFields ==
    \A r \in Records : /\ r.id \in Ids /\ r.source \in Sources /\ r.kind \in Kinds
                       /\ r.seq \in Nat /\ r.time \in Nat
BY RecordsAssumption DEF RecordType

(* Storing one more row adds one to the rows of its kind. *)
LEMMA RowsOfKind ==
    ASSUME NEW S, IsFiniteSet(S), NEW r, r \notin S, NEW k
    PROVE  /\ IsFiniteSet(S \union {r})
           /\ IsFiniteSet(OfKind(S, k))
           /\ Cardinality(OfKind(S, k)) \in Nat
           /\ Cardinality(OfKind(S \union {r}, k))
                = Cardinality(OfKind(S, k)) + (IF r.kind = k THEN 1 ELSE 0)
<1>1. IsFiniteSet(OfKind(S, k)) /\ IsFiniteSet(S \union {r})
  <2>1. OfKind(S, k) \subseteq S
    BY DEF OfKind
  <2>2. QED
    BY <2>1, FS_Subset, FS_AddElement
<1>2. Cardinality(OfKind(S, k)) \in Nat
  BY <1>1, FS_CardinalityType
<1>3. CASE r.kind = k
  <2>1. OfKind(S \union {r}, k) = OfKind(S, k) \union {r} /\ r \notin OfKind(S, k)
    BY <1>3 DEF OfKind
  <2>2. Cardinality(OfKind(S, k) \union {r}) = Cardinality(OfKind(S, k)) + 1
    BY <1>1, <2>1, FS_AddElement
  <2>3. QED
    BY <1>1, <1>2, <1>3, <2>1, <2>2
<1>4. CASE r.kind # k
  <2>1. OfKind(S \union {r}, k) = OfKind(S, k)
    BY <1>4 DEF OfKind
  <2>2. QED
    BY <1>1, <1>2, <1>4, <2>1
<1>5. QED
  BY <1>3, <1>4

LEMMA InitIInv == Init => IInv
<1> SUFFICES ASSUME Init PROVE IInv
  OBVIOUS
<1>1. IsFiniteSet(store) /\ \A k \in Kinds : Cardinality(OfKind(store, k)) = 0
  <2>1. \A k \in Kinds : OfKind(store, k) = {}
    BY DEF Init, OfKind
  <2>2. QED
    BY <2>1, FS_EmptySet DEF Init
<1>2. TypeOK
  BY DEF Init, TypeOK, NoSequence
<1>3. SeenIsDurable /\ AcceptedIsDurable /\ PublishedAtMostOnce
  BY DEF Init, SeenIsDurable, AcceptedIsDurable, PublishedAtMostOnce, StoredIds
<1>4. MemoryIsStored
  BY <1>1 DEF Init, MemoryIsStored
<1>5. StateMatchesStore
  BY <1>1 DEF Init, StateMatchesStore, Known, IsLastSequence, IsLatest
<1>6. QED
  BY <1>1, <1>2, <1>3, <1>4, <1>5 DEF IInv

(* The accepted Ingest: one row, one Publish call, memory brought up to it. *)
LEMMA AcceptIInv ==
    ASSUME IInv, NEW r \in Records, Accept(r) PROVE IInv'
<1> USE RecordFields
<1>1. TypeOK'
  <2>1. seenRecordIDs' \subseteq Ids
    BY DEF IInv, TypeOK, Accept, Remember, LatestIds
  <2>2. lastSequence' \in [Sources -> Nat \union {NoSequence}]
    BY DEF IInv, TypeOK, Accept, Remember
  <2>3. latestByKind' \in [Kinds -> Records \union {NoRecord}]
    BY DEF IInv, TypeOK, Accept, Remember
  <2>4. counters' \in [Kinds -> Nat]
    BY DEF IInv, TypeOK, Accept, Remember
  <2>5. QED
    BY <2>1, <2>2, <2>3, <2>4 DEF IInv, TypeOK, Accept
<1>2. r \notin store /\ store' = store \union {r}
  BY DEF Accept, StoredIds
<1>3. /\ IsFiniteSet(store')
      /\ \A k \in Kinds :
           /\ Cardinality(OfKind(store, k)) \in Nat
           /\ Cardinality(OfKind(store', k))
                = Cardinality(OfKind(store, k)) + (IF r.kind = k THEN 1 ELSE 0)
  <2>1. IsFiniteSet(store)
    BY DEF IInv
  <2>2. QED
    BY <1>2, <2>1, RowsOfKind
<1>4. SeenIsDurable'
  BY <1>2 DEF IInv, SeenIsDurable, StoredIds, Accept, Remember, LatestIds, MemoryIsStored
<1>5. AcceptedIsDurable' /\ PublishedAtMostOnce'
  BY <1>2 DEF IInv, TypeOK, AcceptedIsDurable, PublishedAtMostOnce, StoredIds, Accept
<1>6. MemoryIsStored'
  <2>1. ASSUME NEW s \in Sources, lastSequence'[s] # NoSequence
        PROVE  \E x \in store' : x.source = s /\ x.seq = lastSequence'[s]
    BY <2>1, <1>2 DEF IInv, TypeOK, MemoryIsStored, Accept, Remember
  <2>2. ASSUME NEW k \in Kinds, latestByKind'[k] # NoRecord
        PROVE  latestByKind'[k] \in store' /\ latestByKind'[k].kind = k
    BY <2>2, <1>2 DEF IInv, TypeOK, MemoryIsStored, Accept, Remember
  <2>3. ASSUME NEW k \in Kinds
        PROVE  counters'[k] <= Cardinality(OfKind(store', k))
    <3>1. counters'[k] = counters[k] + (IF r.kind = k THEN 1 ELSE 0) /\ counters[k] \in Nat
      BY DEF IInv, TypeOK, Accept, Remember
    <3>2. counters[k] <= Cardinality(OfKind(store, k))
      BY DEF IInv, MemoryIsStored
    <3>3. QED
      BY <1>3, <3>1, <3>2
  <2>4. QED
    BY <2>1, <2>2, <2>3 DEF MemoryIsStored
<1>7. StateMatchesStore'
  <2>a. Known \subseteq store /\ Known \subseteq Records /\ r \notin Known /\ Known' = Known \union {r}
    BY <1>2 DEF Known, IInv, TypeOK, Accept
  <2>b. \A k \in Kinds :
          /\ Cardinality(OfKind(Known, k)) \in Nat
          /\ Cardinality(OfKind(Known', k))
                = Cardinality(OfKind(Known, k)) + (IF r.kind = k THEN 1 ELSE 0)
    <3>1. IsFiniteSet(Known)
      BY <2>a, FS_Subset DEF IInv
    <3>2. QED
      BY <2>a, <3>1, RowsOfKind
  <2>1. ASSUME NEW s \in Sources PROVE IsLastSequence(Known', s, lastSequence'[s])
    <3>1. IsLastSequence(Known, s, lastSequence[s])
      BY DEF IInv, StateMatchesStore, Accept
    <3>2. QED
      BY <3>1, <2>a DEF IInv, TypeOK, IsLastSequence, Accept, Remember, NoSequence
  <2>2. ASSUME NEW k \in Kinds PROVE IsLatest(Known', k, latestByKind'[k])
    <3>1. IsLatest(Known, k, latestByKind[k]) /\ Known \subseteq Records
      BY <2>a DEF IInv, StateMatchesStore, Accept
    <3>2. \A a, b, c \in Records : Newer(a, b) /\ ~Newer(c, b) => ~Newer(c, a)
      BY DEF Newer
    <3>3. ~Newer(r, r) /\ r # NoRecord
      BY RecordsAssumption DEF Newer
    <3>4. CASE r.kind # k
      BY <3>1, <3>4, <2>a DEF IInv, TypeOK, IsLatest, Accept, Remember
    <3>5. CASE r.kind = k /\ latestByKind[k] = NoRecord
      <4>1. latestByKind'[k] = r /\ \A x \in Known : x.kind # k
        BY <3>5, <3>1, RecordsAssumption DEF IInv, TypeOK, IsLatest, Accept, Remember
      <4>2. QED
        BY <4>1, <3>3, <3>5, <2>a DEF IsLatest
    <3>6. CASE r.kind = k /\ latestByKind[k] # NoRecord /\ Newer(r, latestByKind[k])
      <4>1. latestByKind'[k] = r
        BY <3>6 DEF IInv, TypeOK, Accept, Remember
      <4>2. \A x \in Known : x.kind = k => ~Newer(x, r)
        BY <3>1, <3>2, <3>6 DEF IsLatest
      <4>3. QED
        BY <4>1, <4>2, <3>3, <3>6, <2>a DEF IsLatest
    <3>7. CASE r.kind = k /\ latestByKind[k] # NoRecord /\ ~Newer(r, latestByKind[k])
      BY <3>1, <3>7, <2>a DEF IInv, TypeOK, IsLatest, Accept, Remember
    <3>8. QED
      BY <3>4, <3>5, <3>6, <3>7
  <2>3. ASSUME NEW k \in Kinds
        PROVE  counters'[k] = Cardinality(OfKind(Known', k))
    <3>1. counters'[k] = counters[k] + (IF r.kind = k THEN 1 ELSE 0) /\ counters[k] \in Nat
      BY DEF IInv, TypeOK, Accept, Remember
    <3>2. counters[k] = Cardinality(OfKind(Known, k))
      BY DEF IInv, StateMatchesStore, Accept
    <3>3. QED
      BY <2>b, <3>1, <3>2
  <2>4. QED
    BY <2>1, <2>2, <2>3 DEF StateMatchesStore
<1>8. QED
  BY <1>1, <1>3, <1>4, <1>5, <1>6, <1>7 DEF IInv

(* Dying in Ingest: the store is ahead of memory, never behind it. *)
LEMMA DieInIngestIInv ==
    ASSUME IInv, NEW r \in Records, DieInIngest(r) PROVE IInv'
<1> USE RecordFields
<1>1. r \notin store /\ store' = store \union {r}
  BY DEF DieInIngest, StoredIds
<1>2. /\ IsFiniteSet(store')
      /\ \A k \in Kinds :
           /\ Cardinality(OfKind(store, k)) \in Nat
           /\ Cardinality(OfKind(store', k))
                = Cardinality(OfKind(store, k)) + (IF r.kind = k THEN 1 ELSE 0)
  <2>1. IsFiniteSet(store)
    BY DEF IInv
  <2>2. QED
    BY <1>1, <2>1, RowsOfKind
<1>3. TypeOK' /\ SeenIsDurable'
  <2>1. SeenIsDurable'
    BY <1>1 DEF IInv, SeenIsDurable, StoredIds, DieInIngest, volatileVars
  <2>2. published' \in [Ids -> Nat]
    BY DEF IInv, TypeOK, DieInIngest
  <2>3. QED
    BY <1>1, <2>1, <2>2 DEF IInv, TypeOK, DieInIngest, volatileVars
<1>4. AcceptedIsDurable' /\ PublishedAtMostOnce'
  BY <1>1 DEF IInv, TypeOK, AcceptedIsDurable, PublishedAtMostOnce, StoredIds, DieInIngest
<1>5. MemoryIsStored'
  <2>1. ASSUME NEW k \in Kinds
        PROVE  counters'[k] <= Cardinality(OfKind(store', k))
    <3>1. counters'[k] = counters[k] /\ counters[k] \in Nat
      BY DEF IInv, TypeOK, DieInIngest, volatileVars
    <3>2. counters[k] <= Cardinality(OfKind(store, k))
      BY DEF IInv, MemoryIsStored
    <3>3. QED
      BY <1>2, <3>1, <3>2
  <2>2. QED
    BY <2>1, <1>1 DEF IInv, MemoryIsStored, DieInIngest, volatileVars
<1>6. StateMatchesStore'
  BY DEF DieInIngest, StateMatchesStore
<1>7. QED
  BY <1>2, <1>3, <1>4, <1>5, <1>6 DEF IInv

(* A failed Append changes nothing, or adds a row memory does not know. *)
LEMMA StorageFailureIInv ==
    ASSUME IInv, NEW r \in Records, StorageFailure(r) PROVE IInv'
<1> USE RecordFields
<1>0. CASE store' = store /\ unanswered' = unanswered
  BY <1>0 DEF StorageFailure, volatileVars, IInv, TypeOK, SeenIsDurable, AcceptedIsDurable,
     PublishedAtMostOnce, MemoryIsStored, StateMatchesStore, Known, StoredIds
<1>a. SUFFICES ASSUME r.id \notin StoredIds, store' = store \union {r},
                      unanswered' = unanswered \union {r}
               PROVE  IInv'
  BY <1>0 DEF StorageFailure
<1>1. r \notin store /\ store' = store \union {r}
  BY <1>a DEF StoredIds
<1>2. /\ IsFiniteSet(store')
      /\ \A k \in Kinds :
           /\ Cardinality(OfKind(store, k)) \in Nat
           /\ Cardinality(OfKind(store', k))
                = Cardinality(OfKind(store, k)) + (IF r.kind = k THEN 1 ELSE 0)
  <2>1. IsFiniteSet(store)
    BY DEF IInv
  <2>2. QED
    BY <1>1, <2>1, RowsOfKind
<1>3. TypeOK' /\ SeenIsDurable'
  <2>1. SeenIsDurable'
    BY <1>1 DEF IInv, SeenIsDurable, StoredIds, StorageFailure, volatileVars
  <2>2. published' \in [Ids -> Nat]
    BY DEF IInv, TypeOK, StorageFailure
  <2>3. QED
    BY <1>a, <1>1, <2>1, <2>2 DEF IInv, TypeOK, StorageFailure, volatileVars
<1>4. AcceptedIsDurable' /\ PublishedAtMostOnce'
  BY <1>1 DEF IInv, TypeOK, AcceptedIsDurable, PublishedAtMostOnce, StoredIds, StorageFailure
<1>5. MemoryIsStored'
  <2>1. ASSUME NEW k \in Kinds
        PROVE  counters'[k] <= Cardinality(OfKind(store', k))
    <3>1. counters'[k] = counters[k] /\ counters[k] \in Nat
      BY DEF IInv, TypeOK, StorageFailure, volatileVars
    <3>2. counters[k] <= Cardinality(OfKind(store, k))
      BY DEF IInv, MemoryIsStored
    <3>3. QED
      BY <1>2, <3>1, <3>2
  <2>2. QED
    BY <2>1, <1>1 DEF IInv, MemoryIsStored, StorageFailure, volatileVars
<1>6. StateMatchesStore'
  <2>1. Known' = Known
    BY <1>a, <1>1 DEF Known
  <2>2. QED
    BY <2>1 DEF StorageFailure, volatileVars, IInv, StateMatchesStore
<1>7. QED
  BY <1>2, <1>3, <1>4, <1>5, <1>6 DEF IInv

(* The rebuild establishes everything memory promises. *)
LEMMA RestartIInv ==
    ASSUME IInv, Restart PROVE IInv'
<1> USE RecordFields
<1>1. \A k \in Kinds : IsLatest(store, k, latestByKind'[k])
  BY DEF Restart, IsFirstLatest
<1>2. \A k \in Kinds : Cardinality(OfKind(store, k)) \in Nat
  <2>1. ASSUME NEW k \in Kinds PROVE Cardinality(OfKind(store, k)) \in Nat
    <3>1. OfKind(store, k) \subseteq store /\ IsFiniteSet(store)
      BY DEF OfKind, IInv
    <3>2. QED
      BY <3>1, FS_Subset, FS_CardinalityType
  <2>2. QED
    BY <2>1
<1>3. SeenIsDurable' /\ seenRecordIDs' \subseteq Ids
  BY <1>1 DEF IInv, TypeOK, SeenIsDurable, StoredIds, Restart, LatestIds
<1>4. TypeOK'
  BY <1>2, <1>3 DEF IInv, TypeOK, Restart
<1>5. MemoryIsStored'
  BY <1>1, <1>2 DEF MemoryIsStored, Restart, IsLatest, IsLastSequence
<1>6. StateMatchesStore'
  <2>1. Known' = store
    BY DEF Known, Restart
  <2>2. QED
    BY <1>1, <2>1 DEF StateMatchesStore, Restart
<1>7. AcceptedIsDurable' /\ PublishedAtMostOnce' /\ IsFiniteSet(store')
  BY DEF IInv, AcceptedIsDurable, PublishedAtMostOnce, StoredIds, Restart
<1>8. QED
  BY <1>3, <1>4, <1>5, <1>6, <1>7 DEF IInv

LEMMA NextIInv == IInv /\ [Next]_vars => IInv'
<1> SUFFICES ASSUME IInv, [Next]_vars PROVE IInv'
  OBVIOUS
<1>1. ASSUME NEW r \in Records, Ingest(r) PROVE IInv'
  <2>1. CASE Accept(r)
    BY <2>1, AcceptIInv
  <2>2. CASE StorageFailure(r)
    BY <2>2, StorageFailureIInv
  <2>3. CASE DieInIngest(r)
    BY <2>3, DieInIngestIInv
  <2>4. QED
    BY <1>1, <2>1, <2>2, <2>3 DEF Ingest
<1>2. CASE Die
  BY <1>2 DEF Die, durableVars, volatileVars, IInv, TypeOK, SeenIsDurable,
     AcceptedIsDurable, PublishedAtMostOnce, MemoryIsStored, StateMatchesStore, Known, StoredIds
<1>3. CASE Restart
  BY <1>3, RestartIInv
<1>4. CASE UNCHANGED vars
  BY <1>4 DEF vars, durableVars, volatileVars, IInv, TypeOK, SeenIsDurable,
     AcceptedIsDurable, PublishedAtMostOnce, MemoryIsStored, StateMatchesStore, Known, StoredIds
<1>5. QED
  BY <1>1, <1>2, <1>3, <1>4 DEF Next

(* IInv is an inductive invariant of the ingestion boundary. *)
THEOREM Inductive == Spec => []IInv
<1>1. QED
  BY InitIInv, NextIInv, PTL DEF Spec

(* Type correctness of Service's state. *)
THEOREM TypeCorrect == Spec => []TypeOK
<1>1. IInv => TypeOK
  BY DEF IInv
<1>2. QED
  BY <1>1, Inductive, PTL

(* Whatever the window size and whoever crashes when, an ID the service     *)
(* refuses as a duplicate is the ID of a stored record.                     *)
THEOREM SeenSafe == Spec => []SeenIsDurable
<1>1. IInv => SeenIsDurable
  BY DEF IInv
<1>2. QED
  BY <1>1, Inductive, PTL

(* An accepted record is stored and was handed to Kafka.                    *)
THEOREM DurabilitySafe == Spec => []AcceptedIsDurable
<1>1. IInv => AcceptedIsDurable
  BY DEF IInv
<1>2. QED
  BY <1>1, Inductive, PTL

(* No record ID is handed to Kafka twice.                                   *)
THEOREM PublicationSafe == Spec => []PublishedAtMostOnce
<1>1. IInv => PublishedAtMostOnce
  BY DEF IInv
<1>2. QED
  BY <1>1, Inductive, PTL

(* The state served is the state a rebuild of the store would give. *)
THEOREM StateIsRebuildable == Spec => []StateMatchesStore
<1>1. IInv => StateMatchesStore
  BY DEF IInv
<1>2. QED
  BY <1>1, Inductive, PTL

(* No restart takes the served state back. *)
THEOREM RestartSafe == Spec => RestartKeepsState
<1> DEFINE Keeps ==
      /\ \A s \in Sources : lastSequence'[s] >= lastSequence[s]
      /\ \A k \in Kinds :
           /\ counters'[k] >= counters[k]
           /\ latestByKind[k] # NoRecord =>
                /\ latestByKind'[k] # NoRecord
                /\ ~Newer(latestByKind[k], latestByKind'[k])
<1>1. ASSUME IInv, IInv', Restart PROVE Keeps
  <2> USE RecordFields
  <2>1. ASSUME NEW s \in Sources PROVE lastSequence'[s] >= lastSequence[s]
    <3>1. /\ IsLastSequence(store, s, lastSequence'[s])
          /\ lastSequence[s] \in Nat \union {NoSequence}
          /\ lastSequence'[s] \in Nat \union {NoSequence}
      BY <1>1 DEF Restart, IInv, TypeOK
    <3>2. QED
      BY <3>1, <1>1 DEF IInv, TypeOK, MemoryIsStored, IsLastSequence, NoSequence
  <2>2. ASSUME NEW k \in Kinds PROVE counters'[k] >= counters[k]
    BY <1>1 DEF Restart, IInv, TypeOK, MemoryIsStored
  <2>3. ASSUME NEW k \in Kinds, latestByKind[k] # NoRecord
        PROVE  /\ latestByKind'[k] # NoRecord
               /\ ~Newer(latestByKind[k], latestByKind'[k])
    <3>1. IsLatest(store, k, latestByKind'[k])
      BY <1>1 DEF Restart, IsFirstLatest
    <3>2. latestByKind[k] \in store /\ latestByKind[k].kind = k
      BY <1>1, <2>3 DEF IInv, MemoryIsStored
    <3>3. QED
      BY <3>1, <3>2, <1>1, RecordsAssumption DEF IsLatest, IInv, TypeOK
  <2>4. QED
    BY <2>1, <2>2, <2>3
<1>2. IInv /\ IInv' /\ [Next]_vars => [Restart => Keeps]_vars
  BY <1>1
<1>3. QED
  BY <1>2, Inductive, PTL DEF Spec, RestartKeepsState

(* The IDs of the latest records are at most one per kind. *)
LEMMA LatestIdsBound ==
    ASSUME NEW latest \in [Kinds -> Records \union {NoRecord}]
    PROVE  /\ IsFiniteSet(LatestIds(latest))
           /\ Cardinality(LatestIds(latest)) \in Nat
           /\ Cardinality(LatestIds(latest)) <= Cardinality(Kinds)
           /\ Cardinality(Kinds) \in Nat
<1> DEFINE Kept == {x \in Kinds : latest[x] # NoRecord}
<1> DEFINE IdOf == [k \in Kept |-> latest[k].id]
<1>1. /\ IsFiniteSet(Kept) /\ Cardinality(Kept) <= Cardinality(Kinds)
      /\ Cardinality(Kept) \in Nat /\ Cardinality(Kinds) \in Nat
  BY RecordsAssumption, FS_Subset, FS_CardinalityType
<1>2. IdOf \in Surjection(Kept, LatestIds(latest))
  BY DEF Surjection, LatestIds
<1>3. IsFiniteSet(LatestIds(latest)) /\ Cardinality(LatestIds(latest)) <= Cardinality(Kept)
  BY <1>1, <1>2, FS_Surjection
<1>4. Cardinality(LatestIds(latest)) \in Nat
  BY <1>3, FS_CardinalityType
<1> QED
  BY <1>1, <1>3, <1>4

LEMMA OneMore ==
    ASSUME NEW S, IsFiniteSet(S), NEW x
    PROVE  /\ IsFiniteSet(S \union {x})
           /\ Cardinality(S) \in Nat /\ Cardinality(S \union {x}) \in Nat
           /\ Cardinality(S \union {x}) <= Cardinality(S) + 1
<1>1. /\ IsFiniteSet(S \union {x}) /\ Cardinality(S) \in Nat
      /\ Cardinality(S \union {x}) = IF x \in S THEN Cardinality(S) ELSE Cardinality(S) + 1
  BY FS_AddElement, FS_CardinalityType
<1> QED
  BY <1>1

WInv == IsFiniteSet(seenRecordIDs) /\ WindowBounded

LEMMA NextWInv == IInv /\ IInv' /\ WInv /\ [Next]_vars => WInv'
<1> SUFFICES ASSUME IInv, IInv', WInv, [Next]_vars PROVE WInv'
  OBVIOUS
<1> USE RecordFields
<1>1. latestByKind \in [Kinds -> Records \union {NoRecord}]
      /\ latestByKind' \in [Kinds -> Records \union {NoRecord}]
  BY DEF IInv, TypeOK
<1>2. ASSUME NEW r \in Records, Accept(r) PROVE WInv'
  <2> DEFINE Grown == seenRecordIDs \union {r.id}
  <2> DEFINE Latest == LatestIds(latestByKind)
  <2>1. IsFiniteSet(Grown) /\ Cardinality(Grown) \in Nat
    BY FS_AddElement, FS_CardinalityType DEF WInv
  <2>2. CASE Cardinality(Grown) > MaxRecords
    <3>1. seenRecordIDs' = Latest \union {r.id}
      BY <1>2, <2>2 DEF Accept, Remember
    <3>2. IsFiniteSet(Latest) /\ Cardinality(Latest) \in Nat
          /\ Cardinality(Latest) <= Cardinality(Kinds) /\ Cardinality(Kinds) \in Nat
      BY <1>1, LatestIdsBound
    <3>3. /\ IsFiniteSet(Latest \union {r.id}) /\ Cardinality(Latest \union {r.id}) \in Nat
          /\ Cardinality(Latest \union {r.id}) <= Cardinality(Latest) + 1
      BY <3>2, OneMore
    <3> QED
      BY <3>1, <3>2, <3>3 DEF WInv, WindowBounded
  <2>3. CASE ~(Cardinality(Grown) > MaxRecords)
    <3>1. seenRecordIDs' = Grown
      BY <1>2, <2>3 DEF Accept, Remember
    <3> QED
      BY <2>1, <2>3, <3>1, RecordsAssumption DEF WInv, WindowBounded
  <2> QED
    BY <2>2, <2>3
<1>3. ASSUME Restart PROVE WInv'
  <2>1. IsFiniteSet(StoredIds) /\ Cardinality(StoredIds) \in Nat
    <3> DEFINE IdOf == [r \in store |-> r.id]
    <3>1. IdOf \in Surjection(store, StoredIds)
      BY DEF Surjection, StoredIds
    <3> QED
      BY <3>1, FS_Surjection, FS_CardinalityType DEF IInv
  <2>2. IsFiniteSet(LatestIds(latestByKind'))
        /\ Cardinality(LatestIds(latestByKind')) \in Nat
        /\ Cardinality(LatestIds(latestByKind')) <= Cardinality(Kinds)
        /\ Cardinality(Kinds) \in Nat
    BY <1>1, LatestIdsBound
  <2>3. CASE Cardinality(StoredIds) > MaxRecords
    <3>1. seenRecordIDs' = LatestIds(latestByKind')
      BY <1>3, <2>3 DEF Restart
    <3> QED
      BY <2>2, <3>1 DEF WInv, WindowBounded
  <2>4. CASE ~(Cardinality(StoredIds) > MaxRecords)
    <3>1. seenRecordIDs' = StoredIds
      BY <1>3, <2>4 DEF Restart
    <3> QED
      BY <2>1, <2>4, <3>1, RecordsAssumption DEF WInv, WindowBounded
  <2> QED
    BY <2>3, <2>4
<1>4. ASSUME UNCHANGED seenRecordIDs PROVE WInv'
  BY <1>4 DEF WInv, WindowBounded
<1> QED
  BY <1>2, <1>3, <1>4 DEF Next, Ingest, StorageFailure, DieInIngest, Die, vars, volatileVars

(* The duplicate window never holds more than MaxRecords IDs, or one per    *)
(* kind and the newest, whatever the store has and however often the        *)
(* process restarts.                                                        *)
THEOREM WindowSafe == Spec => []WindowBounded
<1>1. Init => WInv
  <2> SUFFICES ASSUME Init PROVE WInv
    OBVIOUS
  <2>1. seenRecordIDs = {}
    BY DEF Init
  <2> QED
    BY <2>1, FS_EmptySet, RecordsAssumption DEF WInv, WindowBounded
<1>2. WInv => WindowBounded
  BY DEF WInv
<1>3. QED
  BY <1>1, <1>2, NextWInv, Inductive, PTL DEF Spec
(* A row that is stored settles its record: one step of the boundary. *)
LEMMA RowSettles ==
    ASSUME IInv, NEW r \in Records, r.id \notin StoredIds, store' = store \union {r},
           \/ UNCHANGED <<published, acked>>
           \/ /\ published' = [published EXCEPT ![r.id] = @ + 1]
              /\ acked' \in {acked, acked \union {r.id}}
    PROVE  Boundary!Next
<1>1. r.id \in Ids
  BY RecordFields
<1>2. StoredIds' = StoredIds \union {r.id}
  BY DEF StoredIds
<1>3. Boundary!Record(r.id)
  BY <1>2 DEF Boundary!Record
<1>4. QED
  BY <1>1, <1>3 DEF Boundary!Next

LEMMA StepsMap == IInv /\ [Next]_vars => [Boundary!Next]_(Boundary!vars)
<1> SUFFICES ASSUME IInv, [Next]_vars PROVE Boundary!Next \/ UNCHANGED Boundary!vars
  OBVIOUS
<1>0. ASSUME UNCHANGED <<store, published, acked>> PROVE UNCHANGED Boundary!vars
  BY <1>0 DEF Boundary!vars, StoredIds
<1>1. ASSUME NEW r \in Records, Accept(r) PROVE Boundary!Next
  BY <1>1, RowSettles DEF Accept
<1>2. ASSUME NEW r \in Records, StorageFailure(r)
      PROVE  Boundary!Next \/ UNCHANGED Boundary!vars
  <2>1. CASE UNCHANGED <<store, unanswered>>
    BY <1>2, <2>1, <1>0 DEF StorageFailure
  <2>2. CASE r.id \notin StoredIds /\ store' = store \union {r}
    BY <1>2, <2>2, RowSettles DEF StorageFailure
  <2>3. QED
    BY <1>2, <2>1, <2>2 DEF StorageFailure
<1>3. ASSUME NEW r \in Records, DieInIngest(r) PROVE Boundary!Next
  BY <1>3, RowSettles DEF DieInIngest
<1>4. CASE Die
  BY <1>0, <1>4 DEF Die, durableVars
<1>5. CASE Restart
  BY <1>0, <1>5 DEF Restart
<1>6. CASE UNCHANGED vars
  BY <1>0, <1>6 DEF vars, durableVars
<1>7. QED
  BY <1>1, <1>2, <1>3, <1>4, <1>5, <1>6 DEF Next, Ingest

(* The ingestion boundary implements RecordBoundary: whatever fails in a    *)
(* call of Ingest, whenever the process dies and however often callers      *)
(* retry, a record is settled in the step that stores its row.              *)
THEOREM BoundaryImplemented == Spec => ImplementsBoundary
<1>1. Init => Boundary!Init
  BY DEF Init, Boundary!Init, StoredIds
<1>2. QED
  BY <1>1, StepsMap, Inductive, PTL DEF Spec, ImplementsBoundary, Boundary!Spec

(* Hence whoever was told of success has his record stored and handed to    *)
(* Kafka, exactly once.                                                     *)
THEOREM ToldOnce == Spec => []Boundary!ToldIsRecorded
<1>1. IInv => Boundary!ToldIsRecorded
  <2> SUFFICES ASSUME IInv, NEW i \in Ids
               PROVE  /\ i \in acked => i \in StoredIds /\ published[i] = 1
                      /\ published[i] > 0 => i \in StoredIds
                      /\ published[i] <= 1
    BY DEF Boundary!ToldIsRecorded
  <2>1. QED
    BY DEF IInv, AcceptedIsDurable, PublishedAtMostOnce
<1>2. QED
  BY <1>1, Inductive, PTL

(* Nothing is done about a stored record that Kafka missed: no retry, no    *)
(* restart and no later record hands it on or turns the failure its caller  *)
(* was told of into a success.                                              *)
THEOREM NothingMakesUp == Spec => Boundary!NoSecondChance
<1> DEFINE Settled ==
      \A i \in StoredIds : published'[i] = published[i] /\ (i \in acked' => i \in acked)
<1>1. ASSUME Boundary!Next, IInv PROVE Settled
  <2>1. PICK i \in Ids : Boundary!Record(i)
    BY <1>1 DEF Boundary!Next
  <2>2. i \notin StoredIds /\ published \in [Ids -> Nat] /\ acked' \subseteq acked \union {i}
        /\ (published' = published \/ published' = [published EXCEPT ![i] = @ + 1])
    BY <1>1, <2>1 DEF Boundary!Record, IInv, TypeOK
  <2>3. StoredIds \subseteq Ids
    BY <1>1, RecordFields DEF IInv, TypeOK, StoredIds
  <2>4. QED
    BY <2>2, <2>3
<1>2. IInv /\ [Next]_vars => [Settled]_(Boundary!vars)
  BY <1>1, StepsMap
<1>3. QED
  BY <1>2, Inductive, PTL DEF Spec, Boundary!NoSecondChance
=============================================================================
