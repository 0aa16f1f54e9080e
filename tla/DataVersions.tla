---------------------------- MODULE DataVersions ----------------------------
(***************************************************************************)
(* Data versions of one dataset (datastore/versioning.py, access.py) whose *)
(* rows are stored in the database, in an object the framework does not    *)
(* own, or derived from another version (a training snapshot), read through *)
(* a dataset adapter (adapters/datasets*.py).                              *)
(*                                                                         *)
(* The object behind a URI is a history of contents: others may overwrite  *)
(* it at any time, also between two calls of one operation.  A content     *)
(* stands for the rows and for their hash.                                 *)
(***************************************************************************)
EXTENDS Integers, Sequences, FiniteSets, TLC

CONSTANTS Names,        \* data version names
          Contents,     \* what rows an object or upload can hold
          Shapes,       \* column sets
          ShapeOf,      \* the columns of a content
          Clients,      \* API requests and jobs at work
          Backends,     \* dataset adapters the URI may belong to
          Modes,        \* values of DATASET_VERIFY_ON_READ
          None,
          MaxWrites     \* bound: times the object is overwritten

ASSUME VersionConstants ==
    /\ ShapeOf \in [Contents -> Shapes]
    /\ Modes \subseteq {"off", "fingerprint", "hash"}
    /\ Backends \subseteq {"file", "http", "fsspec", "sql", "rankpi", "s3", "gcs"}
    /\ None \notin Contents \union Names /\ MaxWrites \in Nat

VARIABLES
    store,       \* the adapter, and how it pins and fingerprints what it reads
    verify,      \* DATASET_VERIFY_ON_READ
    object,      \* the object's contents, the newest last
    ended,       \* run.ended_at is set (an object that is a run of rankpi)
    registered,  \* the data_version rows
    op           \* what each client is doing

versionVars == <<store, verify, object, ended, registered, op>>

Now == Len(object)

-----------------------------------------------------------------------------
(* The adapters: is the URI they return pinned to what it names now, and is *)
(* the fingerprint changed by every write, a function of the content, or   *)
(* missing?  A guarded adapter reads a finished object only.               *)

Adapter(pins, mark) == [pins |-> pins, mark |-> mark, guarded |-> FALSE]

\* Size and modification time.
FileDataset == {Adapter(FALSE, "write")}
\* ETag, else Last-Modified and length: the server chooses, and may send neither.
HttpDataset == {Adapter(FALSE, m) : m \in {"write", "content", "none"}}
\* Whatever marks the filesystem's info has.
FsspecDataset == {Adapter(FALSE, m) : m \in {"write", "content", "none"}}
\* The hash of the query's result.
SqlDataset == {Adapter(FALSE, "content")}
\* The same, of a bounded query on runs that have ended.
RankpiDataset == {[Adapter(FALSE, "content") EXCEPT !.guarded = TRUE]}
\* The bucket need not keep versions; the ETag is the content's.
S3Dataset == {Adapter(pins, "content") : pins \in BOOLEAN}
\* Generation and checksum.
GcsDataset == {Adapter(TRUE, "write")}

Adapters == UNION {CASE b = "file" -> FileDataset [] b = "http" -> HttpDataset
                     [] b = "fsspec" -> FsspecDataset [] b = "sql" -> SqlDataset
                     [] b = "rankpi" -> RankpiDataset [] b = "s3" -> S3Dataset
                     [] b = "gcs" -> GcsDataset : b \in Backends}

\* SourceStat.fingerprint of a generation of the object.
Mark(g) == CASE store.mark = "none" -> None
             [] store.mark = "content" -> object[g]
             [] store.mark = "write" -> g

\* A mutant: the pin is forgotten.
OpenedNow(g) == Now

\* The generation `open` reads through a URI pinned when g was current.
Opened(g) == IF store.pins THEN g ELSE Now

\* _guard_runs, before every stat and open.
Readable == store.guarded => ended

Idle == [kind |-> "idle"]

VersionsInit ==
    /\ store \in Adapters
    /\ verify \in Modes
    /\ object \in [{1} -> Contents]
    /\ ended = FALSE
    /\ registered = [n \in Names |-> None]
    /\ op = [c \in Clients |-> Idle]

\* The object's owner overwrites it; nothing is added to a run that has ended.
Overwrite(content) ==
    /\ Now <= MaxWrites /\ content # object[Now] /\ ~ended
    /\ object' = Append(object, content)
    /\ UNCHANGED <<store, verify, ended, registered, op>>

EndRun ==
    /\ store.guarded /\ ~ended
    /\ ended' = TRUE
    /\ UNCHANGED <<store, verify, object, registered, op>>

Ends(c) == op' = [op EXCEPT ![c] = Idle]
Is(c, kind, step) == op[c].kind = kind /\ op[c].step = step

\* _existing: a free name is taken; a name with the same rows is an idempotent
\* replay; other rows under it are a conflict, which changes nothing either.
CreateVersion(n, row) ==
    registered' = IF registered[n] = None THEN [registered EXCEPT ![n] = row] ELSE registered

-----------------------------------------------------------------------------
(* Uploads and registration. *)

\* ingest_version: the rows are copied into data_record.
Ingest(n, content) ==
    /\ CreateVersion(n, [storage |-> "rows", digest |-> content])
    /\ UNCHANGED <<store, verify, object, ended, op>>

\* DataAccess.scan: stat, a first pass for the column types ...
Stat(c, n) ==
    /\ op[c] = Idle /\ Readable
    /\ op' = [op EXCEPT ![c] = [kind |-> "register", step |-> "types", name |-> n,
                                gen |-> Now, mark |-> Mark(Now)]]
    /\ UNCHANGED <<store, verify, object, ended, registered>>

ScanTypes(c) ==
    /\ Is(c, "register", "types")
    /\ op' = [op EXCEPT ![c] = [kind |-> "register", step |-> "rows", name |-> op[c].name,
                                gen |-> op[c].gen, mark |-> op[c].mark,
                                shape |-> ShapeOf[object[Opened(op[c].gen)]]]]
    /\ UNCHANGED <<store, verify, object, ended, registered>>

\* ... a second one for rows and hash, which must have those columns, and the row
\* (create_stored_version).
ScanRows(c) ==
    LET o == op[c]
        g == Opened(o.gen)
        row == [storage |-> "reference", digest |-> object[g], gen |-> o.gen,
                mark |-> o.mark, torn |-> object[g] # object[o.gen]]
    IN /\ Is(c, "register", "rows")
       /\ IF ShapeOf[object[g]] = o.shape THEN CreateVersion(o.name, row)
          ELSE UNCHANGED registered
       /\ Ends(c)
       /\ UNCHANGED <<store, verify, object, ended>>

-----------------------------------------------------------------------------
(* Reading. *)

\* The version whose rows are read in the end: a derived version has a source.
SourceOf(n) == IF registered[n].storage = "derived" THEN registered[n].source ELSE n

Referenced(n) == registered[n] # None /\ registered[SourceOf(n)].storage = "reference"

\* load_records, sample, page (and the load that snapshots training data): for a
\* referenced object _check_unchanged first.  `hashes` is what it returns.
Check(c, n, how) ==
    LET row == registered[SourceOf(n)]
        looks == verify # "off" /\ row.mark # None
        \* the URI that is looked at is the pinned one
        found == IF store.pins THEN row.mark ELSE Mark(Now)
    IN /\ op[c] = Idle /\ Readable /\ Referenced(n)
       /\ looks => found = row.mark
       /\ op' = [op EXCEPT ![c] =
                    [kind |-> how, step |-> "read", name |-> n, gen |-> Now,
                     hashes |-> verify = "hash" \/ (verify # "off" /\ row.mark = None)]]
       /\ UNCHANGED <<store, verify, object, ended, registered>>

\* The object changed since it was registered: DataSourceChangedError.
Changed(c, n) ==
    LET row == registered[SourceOf(n)] IN
    /\ op[c] = Idle /\ Readable /\ Referenced(n)
    /\ verify # "off" /\ row.mark # None /\ ~store.pins /\ Mark(Now) # row.mark
    /\ op' = [op EXCEPT ![c] = [kind |-> "refused", name |-> n, gen |-> Now]]
    /\ UNCHANGED <<store, verify, object, ended, registered>>

\* sample and page stop before the object's end, and the hash is compared at the
\* end.  A derived version is always read whole.
Partial(o) == o.kind \in {"sample", "page"} /\ registered[o.name].storage = "reference"

\* conform: the rows still have the columns recorded for the version.
Conforms(content, row) == ShapeOf[content] = ShapeOf[row.digest]

\* _iter_reference: the rows go to the reader unless a whole read's hash differs.
Read(c) ==
    LET o == op[c]
        row == registered[SourceOf(o.name)]
        g == Opened(row.gen)
        seen == [kind |-> "got", how |-> o.kind, name |-> o.name, content |-> object[g],
                 raced |-> ~store.pins /\ g # o.gen, unhashed |-> o.hashes /\ Partial(o)]
    IN /\ o.kind \in {"load", "sample", "page", "snapshot"} /\ o.step = "read"
       /\ op' = [op EXCEPT ![c] =
                    IF \/ ~Conforms(object[g], row)
                       \/ o.hashes /\ ~Partial(o) /\ object[g] # row.digest
                    THEN [kind |-> "refused", name |-> o.name, gen |-> o.gen] ELSE seen]
       /\ UNCHANGED <<store, verify, object, ended, registered>>

\* snapshot_training_data: the rows read become the derived version's hash.
Snapshot(c, n) ==
    LET o == op[c] IN
    /\ o.kind = "got" /\ o.how = "snapshot"
    /\ CreateVersion(n, [storage |-> "derived", digest |-> o.content,
                         source |-> SourceOf(o.name), raced |-> o.raced])
    /\ Ends(c)
    /\ UNCHANGED <<store, verify, object, ended>>

\* verify: the object is looked at, and then all of it is read and hashed, whatever
\* DATASET_VERIFY_ON_READ says.  `alike`: the fingerprint is the registered one.
VerifyStat(c, n) ==
    LET row == registered[SourceOf(n)]
        derived == registered[n].storage = "derived"
    IN /\ op[c] = Idle /\ Readable /\ Referenced(n)
       /\ op' = [op EXCEPT ![c] =
                    [kind |-> "verify", name |-> n, gen |-> Now,
                     alike |-> derived \/ row.mark = None \/ store.pins \/ Mark(Now) = row.mark]]
       /\ UNCHANGED <<store, verify, object, ended, registered>>

VerifyRows(c) ==
    LET o == op[c]
        row == registered[SourceOf(o.name)]
        content == object[Opened(row.gen)]
    IN /\ o.kind = "verify"
       /\ op' = [op EXCEPT ![c] =
                    IF Conforms(content, row) /\ o.alike /\ content = registered[o.name].digest
                    THEN Idle ELSE [kind |-> "refused", name |-> o.name, gen |-> o.gen]]
       /\ UNCHANGED <<store, verify, object, ended, registered>>

\* The store cannot be reached, or the object or its pinned version is gone: the
\* request or the job's read fails.
Unavailable(c) ==
    /\ op[c].kind \in {"register", "load", "sample", "page", "snapshot", "verify"}
    /\ Ends(c)
    /\ UNCHANGED <<store, verify, object, ended, registered>>

\* The reader is done with what it got, or was refused.
Done(c) == /\ op[c].kind \in {"got", "refused"}
           /\ Ends(c)
           /\ UNCHANGED <<store, verify, object, ended, registered>>

-----------------------------------------------------------------------------
(* Properties. *)

\* Rows that reach a reader are the rows that were registered, and so a training
\* snapshot has the hash of its source's registered rows, but for a named few
\* cases: nothing is verified, the object was overwritten between the check and
\* the read or between the passes of the registration, or a partial read ended
\* before its hash was compared.  With a pinned URI there is no case (access.py
\* _check_unchanged, _iter_reference).
FaithfulReads ==
    /\ \A c \in Clients : op[c].kind = "got" =>
          LET row == registered[SourceOf(op[c].name)] IN
          \/ op[c].content = row.digest
          \/ /\ ~store.pins /\ ~store.guarded
             /\ (verify = "off" \/ op[c].raced \/ op[c].unhashed \/ row.torn)
    /\ \A n \in Names : (registered[n] # None /\ registered[n].storage = "derived") =>
          LET source == registered[registered[n].source] IN
          \/ registered[n].digest = source.digest
          \/ /\ ~store.pins /\ ~store.guarded
             /\ (verify = "off" \/ registered[n].raced \/ source.torn)

\* Nothing is refused, and no verification fails, for a change that did not happen:
\* an object nobody has overwritten since it was registered can be read, and a
\* pinned one always (access.py _check_unchanged, verify).
NoFalseAlarm ==
    \A c \in Clients : op[c].kind = "refused" =>
        /\ ~store.pins
        /\ \/ op[c].gen # registered[SourceOf(op[c].name)].gen
           \/ Now # registered[SourceOf(op[c].name)].gen

\* A reader gets the registered rows or an error, and an error only for a cause
\* (access.py).
ReadsAreRight == FaithfulReads /\ NoFalseAlarm

-----------------------------------------------------------------------------
VersionsNext ==
    \/ EndRun
    \/ \E content \in Contents : Overwrite(content)
    \/ \E n \in Names, content \in Contents : Ingest(n, content)
    \/ \E c \in Clients, n \in Names : Stat(c, n)
    \/ \E c \in Clients : ScanTypes(c)
    \/ \E c \in Clients : ScanRows(c)
    \/ \E c \in Clients, n \in Names, how \in {"load", "sample", "page", "snapshot"} :
            Check(c, n, how)
    \/ \E c \in Clients, n \in Names : Changed(c, n)
    \/ \E c \in Clients : Read(c)
    \/ \E c \in Clients, n \in Names : Snapshot(c, n)
    \/ \E c \in Clients, n \in Names : VerifyStat(c, n)
    \/ \E c \in Clients : VerifyRows(c)
    \/ \E c \in Clients : Unavailable(c)
    \/ \E c \in Clients : Done(c)

VersionsSpec == VersionsInit /\ [][VersionsNext]_versionVars
=============================================================================
