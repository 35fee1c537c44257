---------------------------- MODULE GroundIngest ----------------------------
(***************************************************************************)
(* The ingestion boundary of the ground data service                       *)
(* (services/ground-data-service/service.go): every record of the system,  *)
(* whoever emits it, goes through Service.Ingest, which refuses record IDs  *)
(* it has seen, appends to the PostgreSQL store, publishes to Kafka and     *)
(* updates the in-memory current state.  The process may die at any point   *)
(* of an Ingest call; newService rebuilds the memory from the store.        *)
(***************************************************************************)
EXTENDS Integers, FiniteSets

CONSTANTS
    Records,     \* the records callers may ingest (several may share an ID)
    Ids,         \* Envelope.RecordID
    Sources,     \* Envelope.SourceNode
    Kinds,       \* Envelope.Kind
    MaxRecords,  \* maxRecords: the size of the duplicate window
    NoRecord     \* a kind with no entry in latestByKind

\* Record IDs are numbered: LoadAll breaks ties by record_id.
RecordType == [id : Ids, source : Sources, kind : Kinds, seq : Nat, time : Nat]

ASSUME RecordsAssumption ==
    /\ Records \subseteq RecordType
    /\ IsFiniteSet(Kinds)
    /\ Ids \subseteq Nat
    /\ NoRecord \notin Records
    /\ MaxRecords \in Nat \ {0}

NoSequence == -1

VARIABLES
    \* durable, or outside the process
    store,         \* rows of ground_records
    published,     \* number of Publish calls made for a record ID
    acked,         \* record IDs some caller was told are accepted
    unanswered,    \* rows stored since the last start by an Append that returned an error
    \* the memory of the process
    up,
    seenRecordIDs,
    lastSequence,
    latestByKind,
    counters

durableVars  == <<store, published, acked, unanswered>>
volatileVars == <<seenRecordIDs, lastSequence, latestByKind, counters>>
vars == <<durableVars, up, volatileVars>>

StoredIds == {r.id : r \in store}

OfKind(rows, k) == {r \in rows : r.kind = k}

-----------------------------------------------------------------------------
(* Order of two records of a kind: mission timestamp, then sequence. *)
Newer(a, b) == \/ a.time > b.time
               \/ a.time = b.time /\ a.seq > b.seq

\* PostgresStore.LoadAll: rows ordered by time, sequence and record ID.
LoadedBefore(a, b) == \/ Newer(b, a)
                      \/ ~Newer(a, b) /\ a.id < b.id

(* What one pass over rows leaves in lastSequence[s] and latestByKind[k].  *)
(* Both loops keep the first row unless a later one is strictly greater.   *)
IsFirstSequence(rows, s, v) ==      \* mutant: the first loaded row stays
    \/ v = NoSequence /\ \A r \in rows : r.source # s
    \/ \E r \in rows : /\ r.source = s /\ r.seq = v
                        /\ \A q \in rows : q.source = s => q = r \/ LoadedBefore(r, q)

IsLastSequence(rows, s, v) ==
    \/ v = NoSequence /\ \A r \in rows : r.source # s
    \/ /\ \E r \in rows : r.source = s /\ r.seq = v
       /\ \A r \in rows : r.source = s => r.seq <= v

IsLatest(rows, k, v) ==
    \/ v = NoRecord /\ \A r \in rows : r.kind # k
    \/ /\ v \in rows /\ v.kind = k
       /\ \A r \in rows : r.kind = k => ~Newer(r, v)

\* In LoadAll's order, the row kept among equally new ones is the first one.
IsFirstLatest(rows, k, v) ==
    /\ IsLatest(rows, k, v)
    /\ v # NoRecord =>
         \A r \in rows : r.kind = k /\ ~Newer(v, r) => r = v \/ LoadedBefore(v, r)

LatestKept(latest) == {k \in Kinds : latest[k] # NoRecord}   \* mutant: the keys, not the IDs

LatestIds(latest) == {latest[k].id : k \in {x \in Kinds : latest[x] # NoRecord}}

-----------------------------------------------------------------------------
Init ==
    /\ store = {} /\ acked = {} /\ unanswered = {}
    /\ published = [i \in Ids |-> 0]
    /\ up = TRUE
    /\ seenRecordIDs = {}
    /\ lastSequence = [s \in Sources |-> NoSequence]
    /\ latestByKind = [k \in Kinds |-> NoRecord]
    /\ counters = [k \in Kinds |-> 0]

(* The in-memory part of an accepted Ingest.  When the window overflows    *)
(* only the IDs of latestByKind, as it was before r, and r's are kept.     *)
RememberLastArrived(r) ==           \* mutant: the last arrival wins
    /\ seenRecordIDs' = seenRecordIDs \union {r.id}
    /\ lastSequence' = [lastSequence EXCEPT ![r.source] = r.seq]
    /\ latestByKind' = [latestByKind EXCEPT ![r.kind] = r]
    /\ counters' = [counters EXCEPT ![r.kind] = @ + 1]

Remember(r) ==
    /\ seenRecordIDs' =
         IF Cardinality(seenRecordIDs \union {r.id}) > MaxRecords
         THEN LatestIds(latestByKind) \union {r.id}
         ELSE seenRecordIDs \union {r.id}
    /\ lastSequence' =
         IF r.seq > lastSequence[r.source]
         THEN [lastSequence EXCEPT ![r.source] = r.seq] ELSE lastSequence
    /\ latestByKind' =
         IF latestByKind[r.kind] = NoRecord \/ Newer(r, latestByKind[r.kind])
         THEN [latestByKind EXCEPT ![r.kind] = r] ELSE latestByKind
    /\ counters' = [counters EXCEPT ![r.kind] = @ + 1]

(* Service.Ingest of a record that is new to the window and that the store  *)
(* takes.  A failed Publish only sets StreamError: the call is accepted all *)
(* the same, so it needs no branch of its own here.                         *)
Accept(r) ==
    /\ up
    /\ r.id \notin seenRecordIDs
    /\ r.id \notin StoredIds               \* PRIMARY KEY (record_id)
    /\ store' = store \union {r}
    /\ published' = [published EXCEPT ![r.id] = @ + 1]
    /\ acked' = acked \union {r.id}
    /\ Remember(r)
    /\ UNCHANGED <<up, unanswered>>

(* Append fails: the row is there already (its ID fell out of the window),  *)
(* the database is unreachable, or its answer to the INSERT is lost and the *)
(* row stays.  The caller is told of a failure, memory does not change.     *)
StorageFailureRemembers(r) ==       \* mutant: the ID is marked before Append
    /\ up
    /\ r.id \notin seenRecordIDs
    /\ Remember(r)
    /\ UNCHANGED <<durableVars, up>>

StorageFailurePublishes(r) ==       \* mutant: Publish does not wait for Append
    /\ up
    /\ r.id \notin seenRecordIDs
    /\ published' = [published EXCEPT ![r.id] = @ + 1]
    /\ UNCHANGED <<store, acked, unanswered, up, volatileVars>>

StorageFailure(r) ==
    /\ up
    /\ r.id \notin seenRecordIDs
    /\ \/ UNCHANGED <<store, unanswered>>
       \/ /\ r.id \notin StoredIds
          /\ store' = store \union {r}
          /\ unanswered' = unanswered \union {r}
    /\ UNCHANGED <<published, acked, up, volatileVars>>

(* The process dies after Append, before or after Publish. *)
DieBeforeAppend(r) ==               \* mutant: Publish comes first
    /\ up
    /\ r.id \notin seenRecordIDs
    /\ published' = [published EXCEPT ![r.id] = @ + 1]
    /\ up' = FALSE
    /\ UNCHANGED <<store, acked, unanswered, volatileVars>>

DieInIngest(r) ==
    /\ up
    /\ r.id \notin seenRecordIDs
    /\ r.id \notin StoredIds
    /\ store' = store \union {r}
    /\ \/ UNCHANGED published
       \/ published' = [published EXCEPT ![r.id] = @ + 1]
    /\ up' = FALSE
    /\ UNCHANGED <<acked, unanswered, volatileVars>>

Die ==
    /\ up
    /\ up' = FALSE
    /\ UNCHANGED <<durableVars, volatileVars>>

(* newService and rebuild: one pass over LoadAll, the window trimmed last. *)
(* Sequence numbers are below 2^63, where the store's int64 keeps them: of  *)
(* a larger one LoadAll makes an error and newService a panic.             *)
Restart ==
    /\ ~up
    /\ up' = TRUE
    /\ lastSequence' \in [Sources -> {NoSequence} \union {r.seq : r \in store}]
    /\ \A s \in Sources : IsLastSequence(store, s, lastSequence'[s])
    /\ latestByKind' \in [Kinds -> {NoRecord} \union store]
    /\ \A k \in Kinds : IsFirstLatest(store, k, latestByKind'[k])
    /\ seenRecordIDs' = IF Cardinality(StoredIds) > MaxRecords
                        THEN LatestIds(latestByKind') ELSE StoredIds
    /\ counters' = [k \in Kinds |-> Cardinality(OfKind(store, k))]
    /\ unanswered' = {}
    /\ UNCHANGED <<store, published, acked>>

Ingest(r) == Accept(r) \/ StorageFailure(r) \/ DieInIngest(r)

Next == (\E r \in Records : Ingest(r)) \/ Die \/ Restart

Spec == Init /\ [][Next]_vars

-----------------------------------------------------------------------------
TypeOK ==
    /\ store \subseteq Records
    /\ acked \subseteq Ids
    /\ unanswered \subseteq store
    /\ published \in [Ids -> Nat]
    /\ up \in BOOLEAN
    /\ seenRecordIDs \subseteq Ids
    /\ lastSequence \in [Sources -> Nat \union {NoSequence}]
    /\ latestByKind \in [Kinds -> Records \union {NoRecord}]
    /\ counters \in [Kinds -> Nat]

(* A caller that is told "duplicate record_id" may drop its copy: the ID is *)
(* durable.  Holds although the window is trimmed, rebuilt after a crash,   *)
(* and although Append may fail.                                            *)
SeenIsDurable == seenRecordIDs \subseteq StoredIds

(* An accepted record survives every crash and was handed to Kafka (so a    *)
(* row that Kafka never saw is one whose caller was not told of success),    *)
(* and everything Kafka was given is stored.                                 *)
AcceptedIsDurable ==
    /\ \A i \in acked : i \in StoredIds /\ published[i] = 1
    /\ \A i \in Ids : published[i] > 0 => i \in StoredIds

(* The duplicate window forgets IDs after MaxRecords records; the store's  *)
(* key still stops a forgotten ID, before Publish: Kafka is never given the *)
(* same record twice by Ingest.                                             *)
PublishedAtMostOnce == \A i \in Ids : published[i] <= 1

(* Store, publisher and answers implement RecordBoundary: what becomes of a *)
(* record is settled where its row is stored, although the window forgets,  *)
(* the process dies inside a call and callers retry.                        *)
Boundary == INSTANCE RecordBoundary WITH recorded <- StoredIds, handed <- published, told <- acked

ImplementsBoundary == Boundary!Spec

(* The current state served by GET /v1/state is what a fresh rebuild of    *)
(* the store would serve: each sequence and latest record is right although *)
(* records arrive out of order, and each counter counts the stored rows.   *)
(* Only rows whose INSERT went unanswered are missing, until the restart.   *)
Known == store \ unanswered

StateMatchesStore ==
    up => /\ \A s \in Sources : IsLastSequence(Known, s, lastSequence[s])
          /\ \A k \in Kinds : /\ IsLatest(Known, k, latestByKind[k])
                              /\ counters[k] = Cardinality(OfKind(Known, k))

(* The window's size: at most MaxRecords IDs, or one per kind and one more. *)
WindowBounded ==
    \/ Cardinality(seenRecordIDs) <= MaxRecords
    \/ Cardinality(seenRecordIDs) <= Cardinality(Kinds) + 1

(* A restart never takes the current state back: the latest record of a    *)
(* kind is as new after it as before, each source's sequence is at least    *)
(* what it was, no counter falls.                                           *)
RestartKeepsState ==
    [][Restart =>
        /\ \A s \in Sources : lastSequence'[s] >= lastSequence[s]
        /\ \A k \in Kinds :
             /\ counters'[k] >= counters[k]
             /\ latestByKind[k] # NoRecord =>
                  /\ latestByKind'[k] # NoRecord
                  /\ ~Newer(latestByKind[k], latestByKind'[k])]_vars
=============================================================================
