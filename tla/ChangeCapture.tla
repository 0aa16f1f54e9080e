---------------------------- MODULE ChangeCapture ----------------------------
(***************************************************************************)
(* Change data capture (cdc/, adapters/kafka_cdc.py) for one source table  *)
(* and one dataset: changes of source rows reach the cdc_event table by a  *)
(* changelog that is polled or by a Kafka topic, are folded into immutable *)
(* CDC data versions (materialize.py), and the rows of several versions    *)
(* are cleaned for an adaptation job (datastore/current_data.py).          *)
(*                                                                         *)
(* A row image is a number: two rows with one image are exact duplicates,  *)
(* and images in Incomplete lack a required column.                        *)
(***************************************************************************)
EXTENDS Integers, Sequences, FiniteSets, FiniteSetsExt, SequencesExt

CONSTANTS Keys,          \* primary keys of the source table
          Images,        \* row images (payload and timestamp)
          Incomplete,    \* images without a value in a required column
          Consumers,     \* processes running the CDC consumer
          Makers,        \* API replicas that may materialize
          Sources,       \* how changes may reach the consumer
          NoBatch,       \* nothing in hand
          MaxChanges,    \* bound: changes of the source table
          BatchSize,     \* CDC_BATCH_SIZE
          MaxFaults      \* bound: connector restarts, failed stores, lost acks

ASSUME CaptureConstants ==
    /\ Images \subseteq Nat \ {0} /\ Incomplete \subseteq Images
    /\ Sources \subseteq {"postgresql", "sqlite", "kafka"}
    /\ MaxChanges \in Nat /\ BatchSize \in Nat \ {0} /\ MaxFaults \in Nat
    /\ NoBatch \notin Seq(Nat)

VARIABLES
    source,    \* CDC_MODE, and for polling the database it runs on
    log,       \* cdc_changelog (by seq) or the topic (by offset)
    offset,    \* cdc_offset.position, or the group's committed offset
    events,    \* the cdc_event table, by id
    fetched,   \* the log positions each consumer's batch is made of
    acking,    \* the position a consumer has stored and not acknowledged
    versions,  \* the CDC data versions, by id
    making,    \* the pending events a materialization has read
    faults

captureVars == <<source, log, offset, events, fetched, acking, versions, making, faults>>

DELETED == 0
NOTHING == 0
Ops == {"put", "delete", "tombstone"}

\* A changelog row or topic message.  `id` stands for event_id, which names the
\* change's place in the source's own log; `tx` is the writing transaction.
Entry == [id : Nat, key : Keys, op : Ops, image : Images \union {DELETED},
          tx : {"open", "done", "undone"}]
EventRow == [id : Nat, key : Keys, image : Images \union {DELETED}, version : Nat]
DataVersion == [name : Nat \X Nat, parent : Nat, deleted : SUBSET Keys,
                rows : UNION {[K -> Images] : K \in SUBSET Keys}]

CaptureTypeOK ==
    /\ source \in Sources
    /\ log \in Seq(Entry)
    /\ offset \in 0 .. Len(log)
    /\ events \in Seq(EventRow)
    /\ fetched \in [Consumers -> Seq(Nat) \union {NoBatch}]
    /\ acking \in [Consumers -> Nat]
    /\ versions \in Seq(DataVersion)
    /\ making \in [Makers -> SUBSET Nat]
    /\ faults \in 0 .. MaxFaults

CaptureInit ==
    /\ source \in Sources
    /\ log = <<>> /\ offset = 0 /\ events = <<>> /\ versions = <<>>
    /\ fetched = [c \in Consumers |-> NoBatch]
    /\ acking = [c \in Consumers |-> 0]
    /\ making = [m \in Makers |-> {}]
    /\ faults = 0

-----------------------------------------------------------------------------
(* The source table and its log. *)

StoredIds == {events[i].id : i \in DOMAIN events}
ChangeIds == {log[n].id : n \in DOMAIN log}

\* The row's image after the changes committed so far, DELETED when there is none.
ImageOf(k) ==
    LET done == {n \in DOMAIN log : log[n].key = k /\ log[n].tx = "done"
                                    /\ log[n].op # "tombstone"}
    IN IF done = {} THEN DELETED
       ELSE log[CHOOSE n \in done : \A o \in done : log[o].id <= log[n].id].image

\* A write of the source table.  The PostgreSQL trigger takes a sequence number
\* before its transaction commits; SQLite has one writer at a time; Debezium
\* sends changes in commit order, and a tombstone after each deletion.
Change(k, image) ==
    LET id == Cardinality(ChangeIds) + 1
        entry == [id |-> id, key |-> k, image |-> image,
                  op |-> IF image = DELETED THEN "delete" ELSE "put",
                  tx |-> IF source = "postgresql" THEN "open" ELSE "done"]
    IN /\ id <= MaxChanges
       /\ ~\E n \in DOMAIN log : log[n].key = k /\ log[n].tx = "open"  \* row lock
       /\ image = DELETED => ImageOf(k) # DELETED
       /\ log' = IF source = "kafka" /\ image = DELETED
                 THEN log \o <<entry, [entry EXCEPT !.op = "tombstone"]>>
                 ELSE Append(log, entry)
       /\ UNCHANGED <<source, offset, events, fetched, acking, versions, making, faults>>

EndTx(n) ==
    /\ log[n].tx = "open"
    /\ \E tx \in {"done", "undone"} : log' = [log EXCEPT ![n].tx = tx]
    /\ UNCHANGED <<source, offset, events, fetched, acking, versions, making, faults>>

\* The connector restarts and sends everything from change n on again: new
\* Kafka offsets, the same WAL positions.
Resend(n) ==
    /\ source = "kafka" /\ faults < MaxFaults
    /\ log' = log \o SubSeq(log, n, Len(log))
    /\ faults' = faults + 1
    /\ UNCHANGED <<source, offset, events, fetched, acking, versions, making>>

-----------------------------------------------------------------------------
(* The consumer. *)

\* The log positions a source returns: the first BatchSize rows visible past the
\* offset, in the log's order.
Visible(from) == {n \in DOMAIN log : n > from /\ log[n].tx = "done"}

NextBatches(from) ==
    {b \in UNION {[1 .. k -> Visible(from)] : k \in 1 .. BatchSize} :
        /\ \A i, j \in DOMAIN b : i < j => b[i] < b[j]
        /\ \A n \in Visible(from) \ Range(b) : Len(b) = BatchSize /\ n > Last(b)}

\* A mutant: the fetch moves the offset (a Kafka client that commits by itself).
FetchCommits(c) ==
    /\ fetched[c] = NoBatch /\ acking[c] = 0
    /\ \E batch \in NextBatches(offset) :
          fetched' = [fetched EXCEPT ![c] = batch] /\ offset' = Last(batch)
    /\ UNCHANGED <<source, log, events, acking, versions, making, faults>>

\* PollingCdcSource.fetch, KafkaCdcSource.fetch.
Fetch(c) ==
    /\ fetched[c] = NoBatch /\ acking[c] = 0
    /\ \E batch \in NextBatches(offset) : fetched' = [fetched EXCEPT ![c] = batch]
    /\ UNCHANGED <<source, log, offset, events, acking, versions, making, faults>>

\* store_events, one event after the other: added are those whose event_id is not
\* in the table, or added before.  What carries no row (from_debezium) is not an
\* event, only an offset.
Known(table, id) == \E e \in DOMAIN table : table[e].id = id

StoredUpTo(batch) ==
    LET stored[i \in 0 .. Len(batch)] ==
          IF i = 0 THEN events
          ELSE LET change == log[batch[i]] IN
               IF change.op = "tombstone" \/ Known(stored[i - 1], change.id) THEN stored[i - 1]
               ELSE Append(stored[i - 1], [id |-> change.id, key |-> change.key,
                                           image |-> change.image, version |-> NOTHING])
    IN stored

\* store_events and the commit.  A polled batch's offset is part of the
\* transaction; a Kafka batch is acknowledged afterwards.
Store(c) ==
    LET batch == fetched[c] IN
    /\ batch # NoBatch
    /\ events' = StoredUpTo(batch)[Len(batch)]
    /\ offset' = IF source = "kafka" THEN offset ELSE Last(batch)
    /\ acking' = [acking EXCEPT ![c] = IF source = "kafka" THEN Last(batch) ELSE 0]
    /\ fetched' = [fetched EXCEPT ![c] = NoBatch]
    /\ UNCHANGED <<source, log, versions, making, faults>>

\* The transaction fails (an event another consumer stored at the same time, a
\* locked or lost database) or the process dies: nothing stored or acknowledged.
StoreFails(c) ==
    /\ fetched[c] # NoBatch /\ faults < MaxFaults
    /\ fetched' = [fetched EXCEPT ![c] = NoBatch]
    /\ faults' = faults + 1
    /\ UNCHANGED <<source, log, offset, events, acking, versions, making>>

\* KafkaCdcSource.ack, or the process dies (or loses its partition) before it.
Ack(c) ==
    /\ acking[c] # 0
    /\ \/ offset' = acking[c] /\ UNCHANGED faults
       \/ faults < MaxFaults /\ faults' = faults + 1 /\ UNCHANGED offset
    /\ acking' = [acking EXCEPT ![c] = 0]
    /\ UNCHANGED <<source, log, events, fetched, versions, making>>

-----------------------------------------------------------------------------
(* Materialization. *)

\* The net change of a set of cdc_event rows: each key's last image.
Net(es) ==
    LET keys == {events[e].key : e \in es}
        last(k) == Max({e \in es : events[e].key = k})
    IN [k \in keys |-> events[last(k)].image]

\* materialize_cdc reads the events no version has yet ...
ReadPending(m) ==
    LET pending == {e \in DOMAIN events : events[e].version = NOTHING} IN
    /\ making[m] = {} /\ pending # {}
    /\ making' = [making EXCEPT ![m] = pending]
    /\ UNCHANGED <<source, log, offset, events, fetched, acking, versions, faults>>

\* The version a fold of the events makes (ingest_version with record keys).
Folded(es) ==
    LET net == Net(es)
        put == {k \in DOMAIN net : net[k] # DELETED}
    IN [name |-> <<Min(es), Max(es)>>, parent |-> Len(versions),
        rows |-> [k \in put |-> net[k]], deleted |-> DOMAIN net \ put]

\* _existing: the versions of that name, and whether one holds other content.
Named(v) == {i \in DOMAIN versions : versions[i].name = v.name}
Conflicting(v) ==
    \E i \in Named(v) : versions[i].rows # v.rows \/ versions[i].deleted # v.deleted

\* ... and writes the version, or finds it written (an idempotent replay), and
\* marks the events with it.  A conflict rolls the transaction back.
Materialize(m) ==
    LET es == making[m]
        v == Folded(es)
        new == Named(v) = {}
        id == IF new THEN Len(versions) + 1 ELSE Min(Named(v))
    IN /\ es # {}
       /\ making' = [making EXCEPT ![m] = {}]
       /\ IF Conflicting(v) THEN UNCHANGED <<versions, events>>
          ELSE /\ versions' = IF new THEN Append(versions, v) ELSE versions
               /\ events' = [e \in DOMAIN events |->
                                IF e \in es THEN [events[e] EXCEPT !.version = id]
                                ELSE events[e]]
       /\ UNCHANGED <<source, log, offset, fetched, acking, faults>>

-----------------------------------------------------------------------------
(* Cleaning (clean_records): the rows of the data versions in vs. *)

RowsOf(vs) == UNION {{[key |-> k, version |-> v, image |-> versions[v].rows[k]]
                       : k \in DOMAIN versions[v].rows} : v \in vs}

\* record_key -> newest of the versions that deleted it.  Only versions with a
\* row among the records are looked at.
DeletedIn(k, rows) ==
    Max({0} \union {v \in {r.version : r \in rows} : k \in versions[v].deleted})

\* A mutant: a row stays if any version after its own does not delete it.
UnsupersededKeeps(rows) ==
    {r \in rows : \A o \in rows : o.key = r.key => o.version <= r.version}

\* Conflicts: the newest version's row.  Deletions: not one deleted later.
Unsuperseded(rows) ==
    {r \in rows : /\ \A o \in rows : o.key = r.key => o.version <= r.version
                  /\ DeletedIn(r.key, rows) <= r.version}

\* Exact duplicates: one row stays, the first by time and id (an arbitrary one
\* here); rows that lack a required value go.
Cleaned(vs) ==
    LET left == Unsuperseded(RowsOf(vs))
    IN {r \in left : /\ r = CHOOSE o \in left : o.image = r.image
                     /\ r.image \notin Incomplete}

-----------------------------------------------------------------------------
(* Properties. *)

\* The offset never passes a committed change that is not in cdc_event, whatever
\* fails or is sent twice: events are stored before the offset moves (consumer.py,
\* store.py).  Not for a polled PostgreSQL table, where a lower
\* sequence number may commit after a higher one was read.
NothingSkipped ==
    source # "postgresql" =>
        \A n \in 1 .. offset : log[n].tx = "done" => log[n].id \in StoredIds

\* A change is stored once, and changes in the order they happened, for batches
\* fetched twice, resent or stored by two consumers (store_events).
\* materialize_cdc folds by cdc_event.id, so this is what makes its fold right.
StoredOnceInOrder ==
    \A i, j \in DOMAIN events : i < j =>
        /\ events[i].id # events[j].id
        /\ source # "postgresql" => events[i].id < events[j].id

\* What cleaning any set of data versions leaves is what replaying the events
\* behind them leaves: conflicts and deletions resolved the right way, nothing
\* else lost (clean_records, materialize_cdc).  For versions with a row each.
CleaningIsReplay ==
    \A vs \in SUBSET DOMAIN versions :
        LET net == Net({e \in DOMAIN events : events[e].version \in vs})
            left == {net[k] : k \in DOMAIN net} \ ({DELETED} \union Incomplete)
        IN (\A v \in vs : DOMAIN versions[v].rows # {}) =>
             /\ {r.image : r \in Cleaned(vs)} = left
             /\ \A r \in Cleaned(vs) : net[r.key] = r.image

\* Every change is stored, once and in order, before the offset passes it
\* (consumer.py run_cdc_once, store.py store_events).
EveryChangeOnce == NothingSkipped /\ StoredOnceInOrder

-----------------------------------------------------------------------------
CaptureNext ==
    \/ \E k \in Keys, i \in Images \union {DELETED} : Change(k, i)
    \/ \E n \in DOMAIN log : EndTx(n)
    \/ \E n \in DOMAIN log : Resend(n)
    \/ \E c \in Consumers : Fetch(c)
    \/ \E c \in Consumers : Store(c)
    \/ \E c \in Consumers : StoreFails(c)
    \/ \E c \in Consumers : Ack(c)
    \/ \E m \in Makers : ReadPending(m)
    \/ \E m \in Makers : Materialize(m)

CaptureSpec == CaptureInit /\ [][CaptureNext]_captureVars
=============================================================================
