---------------------------- MODULE DataLineage ----------------------------
(***************************************************************************)
(* The transactions that create data versions of one dataset and link them *)
(* to a model (datastore/versioning.py, current_data.py), as requests and  *)
(* jobs run them side by side.  Every statement sees what is committed     *)
(* before it (READ COMMITTED) and the transaction's own inserts; an insert *)
(* waits for another transaction that has inserted the same key, and       *)
(* raises IntegrityError, which nothing here catches, if that one commits. *)
(* A digest is the pair of the rows' hash and of what their keys add to it. *)
(***************************************************************************)
EXTENDS Naturals, Sequences, FiniteSets, SequencesExt

CONSTANTS DlClients,      \* requests and jobs at work
          DlNames,        \* names an upload may choose
          DlHashes,       \* hashes of rows
          DlNone,
          DlMaxRequests   \* bound: transactions that are begun

DlDigests == DlHashes \X {"plain", "keyed"}
DlAllNames == DlNames \cup DlHashes

ASSUME DlAssumption ==
    /\ DlNone \notin DlAllNames /\ DlMaxRequests \in Nat
    /\ DlNone \notin [digest : DlDigests, parent : DlNames \cup {DlNone}]

VARIABLES dlDataset,    \* the dataset row is there
          dlOnboarded,  \* the model is onboarded
          dlRows,       \* name -> the data version of that name
          dlLinks,      \* names linked to the model
          dlAudit,      \* DATA_VERSION_CREATED, the newest last
          dlFrozen,     \* CurrentData rows: the names they point at
          dlTx,         \* client -> its transaction
          dlTold,       \* requests answered 200 or 201
          dlRequests    \* transactions begun

dlVars == <<dlDataset, dlOnboarded, dlRows, dlLinks, dlAudit, dlFrozen, dlTx, dlTold, dlRequests>>
dlTables == <<dlDataset, dlOnboarded, dlRows, dlLinks, dlAudit, dlFrozen>>

\* A frozen evaluation window is named after its rows' hash alone.
DlCurrentName(digest) == digest[1]

DlIdle == [at |-> "idle"]

DlInit ==
    /\ dlDataset = FALSE /\ dlOnboarded \in BOOLEAN
    /\ dlRows = [n \in DlAllNames |-> DlNone]
    /\ dlLinks = {} /\ dlAudit = <<>> /\ dlFrozen = {}
    /\ dlTx = [c \in DlClients |-> DlIdle]
    /\ dlTold = {} /\ dlRequests = 0

DlTo(c, place) == dlTx' = [dlTx EXCEPT ![c].at = place]
DlAfterVersion(c) == IF dlTx[c].link THEN "link" ELSE "commit"

\* session_scope: any error undoes the whole transaction.
DlRollback(c) == dlTx' = [dlTx EXCEPT ![c] = DlIdle]

DlBegin(c, kind, name, digest, parent, link) ==
    /\ dlTx[c] = DlIdle /\ dlRequests < DlMaxRequests /\ dlRequests' = dlRequests + 1
    /\ dlTx' = [dlTx EXCEPT ![c] =
           [at |-> "dataset", kind |-> kind, name |-> name, digest |-> digest,
            parent |-> parent, link |-> link, dataset |-> FALSE, row |-> FALSE, linked |-> FALSE]]
    /\ UNCHANGED <<dlTables, dlTold>>

\* create_version: an upload, or an object that has been scanned.
DlUpload(c) ==
    \E name \in DlNames, digest \in DlHashes \X {"plain"}, parent \in DlNames \cup {DlNone},
       link \in BOOLEAN : DlBegin(c, "upload", name, digest, parent, link)

\* persist_current_data, of rows that come from a data version.
DlPersist(c) ==
    \E digest \in DlDigests :
        /\ \E n \in DlNames : dlRows[n] # DlNone
        /\ DlBegin(c, "current", DlCurrentName(digest), digest, DlNone, FALSE)

\* get_or_create_dataset: the row is looked for, and inserted if it was not there.
DlFindDataset(c) ==
    /\ dlTx[c].at = "dataset"
    /\ DlTo(c, IF dlDataset THEN "version" ELSE "create")
    /\ UNCHANGED <<dlTables, dlTold, dlRequests>>

DlCreateDataset(c) ==
    /\ dlTx[c].at = "create" /\ \A d \in DlClients : dlTx[d] # DlIdle => ~dlTx[d].dataset
    /\ IF dlDataset THEN DlRollback(c)
       ELSE dlTx' = [dlTx EXCEPT ![c] = [@ EXCEPT !.at = "version", !.dataset = TRUE]]
    /\ UNCHANGED <<dlTables, dlTold, dlRequests>>

\* A mutant: the name is enough.
DlConflictingNever(row, digest) == FALSE

\* DataVersionConflictError.
DlConflicting(row, digest) == row.digest # digest

\* _parent_id: the parent has to be there.
DlParentKnown(parent) == parent = DlNone \/ dlRows[parent] # DlNone

\* _existing, then _parent_id for a name that is free.
DlFindVersion(c) ==
    LET t == dlTx[c]
        row == dlRows[t.name]
    IN /\ t.at = "version"
       /\ CASE row = DlNone /\ DlParentKnown(t.parent) -> DlTo(c, "insert")
            [] row = DlNone /\ ~DlParentKnown(t.parent) -> DlRollback(c)
            [] row # DlNone /\ DlConflicting(row, t.digest) -> DlRollback(c)
            [] row # DlNone /\ ~DlConflicting(row, t.digest) -> DlTo(c, DlAfterVersion(c))
       /\ UNCHANGED <<dlTables, dlTold, dlRequests>>

\* ingest_version, create_stored_version: the row, and its records with it.
DlInsertVersion(c) ==
    /\ dlTx[c].at = "insert"
    /\ \A d \in DlClients : dlTx[d] # DlIdle /\ dlTx[d].row => dlTx[d].name # dlTx[c].name
    /\ IF dlRows[dlTx[c].name] # DlNone THEN DlRollback(c)
       ELSE dlTx' = [dlTx EXCEPT ![c] = [@ EXCEPT !.at = DlAfterVersion(c), !.row = TRUE]]
    /\ UNCHANGED <<dlTables, dlTold, dlRequests>>

\* link_model_data: the model has to be onboarded; a link that is there is kept.
DlFindLink(c) ==
    /\ dlTx[c].at = "link"
    /\ IF ~dlOnboarded THEN DlRollback(c)
       ELSE DlTo(c, IF dlTx[c].name \in dlLinks THEN "commit" ELSE "join")
    /\ UNCHANGED <<dlTables, dlTold, dlRequests>>

DlInsertLink(c) ==
    /\ dlTx[c].at = "join"
    /\ \A d \in DlClients : dlTx[d] # DlIdle /\ dlTx[d].linked => dlTx[d].name # dlTx[c].name
    /\ IF dlTx[c].name \in dlLinks THEN DlRollback(c)
       ELSE dlTx' = [dlTx EXCEPT ![c] = [@ EXCEPT !.at = "commit", !.linked = TRUE]]
    /\ UNCHANGED <<dlTables, dlTold, dlRequests>>

\* _audit_created: in the version's transaction.
DlAudited(t) == IF t.row THEN Append(dlAudit, t.name) ELSE dlAudit

DlCommit(c) ==
    LET t == dlTx[c] IN
    /\ t.at = "commit"
    /\ dlDataset' = (dlDataset \/ t.dataset)
    /\ dlRows' = IF t.row THEN [dlRows EXCEPT ![t.name] = [digest |-> t.digest, parent |-> t.parent]]
                 ELSE dlRows
    /\ dlLinks' = IF t.linked THEN dlLinks \cup {t.name} ELSE dlLinks
    /\ dlAudit' = DlAudited(t)
    /\ dlFrozen' = IF t.kind = "current" THEN dlFrozen \cup {t.name} ELSE dlFrozen
    /\ dlTold' = dlTold \cup {[name |-> t.name, digest |-> t.digest, link |-> t.link]}
    /\ dlTx' = [dlTx EXCEPT ![c] = DlIdle]
    /\ UNCHANGED <<dlOnboarded, dlRequests>>

\* The connection is lost, or the process dies.
DlFails(c) ==
    /\ dlTx[c] # DlIdle /\ DlRollback(c)
    /\ UNCHANGED <<dlTables, dlTold, dlRequests>>

DlOnboard ==
    /\ ~dlOnboarded /\ dlOnboarded' = TRUE
    /\ UNCHANGED <<dlDataset, dlRows, dlLinks, dlAudit, dlFrozen, dlTx, dlTold, dlRequests>>

DlNext ==
    \/ DlOnboard
    \/ \E c \in DlClients :
          \/ DlUpload(c) \/ DlPersist(c) \/ DlFindDataset(c) \/ DlCreateDataset(c)
          \/ DlFindVersion(c) \/ DlInsertVersion(c) \/ DlFindLink(c) \/ DlInsertLink(c)
          \/ DlCommit(c) \/ DlFails(c)

DlSpec == DlInit /\ [][DlNext]_dlVars

-----------------------------------------------------------------------------
(* Properties                                                              *)

\* lineage: the version i steps up from n, if there is one.
DlLineage(n) ==
    LET node[i \in 0 .. Len(dlAudit)] ==
          IF i = 0 THEN n
          ELSE IF node[i - 1] = DlNone THEN DlNone ELSE dlRows[node[i - 1]].parent
    IN node

\* What a caller was told stays true: the version of that name has its rows, and
\* the link it asked for is there; a request that failed at its link or its
\* parent has left no version, because every version was audited exactly once; and
\* the lineage of a version ends, each ancestor audited before its descendant
\* (versioning.py _existing, _parent_id, create_stored_version, lineage).
DlAnswersHold ==
    /\ \A t \in dlTold :
          /\ dlRows[t.name] # DlNone /\ dlRows[t.name].digest = t.digest
          /\ t.link => t.name \in dlLinks
    /\ \A n \in DlAllNames :
          Cardinality({i \in DOMAIN dlAudit : dlAudit[i] = n}) = IF dlRows[n] = DlNone THEN 0 ELSE 1
    /\ \A n \in DlAllNames : dlRows[n] # DlNone =>
          LET node == DlLineage(n) IN
          /\ node[Len(dlAudit)] = DlNone
          /\ \A k \in DOMAIN dlAudit : node[k] # DlNone =>
                \E i, j \in DOMAIN dlAudit : dlAudit[i] = node[k] /\ dlAudit[j] = node[k - 1] /\ i < j
    /\ dlLinks \cup dlFrozen \subseteq {n \in DlAllNames : dlRows[n] # DlNone}
=============================================================================
