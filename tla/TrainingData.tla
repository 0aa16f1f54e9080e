---------------------------- MODULE TrainingData ----------------------------
(***************************************************************************)
(* The rows of one adaptation job: the baseline and the drifted version    *)
(* are loaded and cleaned, the newest drifted rows are held out to score   *)
(* on, the leakage checks drop what would let a candidate see them, the    *)
(* rest is trained on, and a snapshot of it becomes the new version's      *)
(* baseline.  A row is [ver, at, key, val]: its data version (1 the        *)
(* baseline, 2 the drifted one), its time, its record key and its values,  *)
(* None without a target.  Rows are named by their position.                *)
(***************************************************************************)
EXTENDS Integers, Sequences, FiniteSets, FiniteSetsExt

CONSTANTS
    RowCount,       \* rows of the two versions together
    RowTimes, RowKeys, RowValues,
    HoldOutMin,     \* VALIDATION_MIN_ROWS; the configured share is held out if that is more
    NoValue

ASSUME TrainingDataConstants ==
    RowCount \in Nat \ {0} /\ HoldOutMin \in Nat \ {0} /\ RowTimes \subseteq Nat

VARIABLES
    rows,       \* the loaded rows, oldest first
    erased,     \* keys the drifted version deleted
    checks,     \* LEAKAGE_CHECKS_ENABLED
    future,     \* LEAKAGE_ALLOW_FUTURE_ROWS
    stage, cleaned, held, train, frozen

rowVars == <<rows, erased, checks, future, stage, cleaned, held, train, frozen>>

Positions == 1 .. RowCount

RowsInit ==
    /\ rows \in [Positions -> [ver : {1, 2}, at : RowTimes, key : RowKeys \union {NoValue},
                               val : RowValues \union {NoValue}]]
    /\ \A i, j \in Positions : i < j => rows[i].at <= rows[j].at
    /\ erased \in SUBSET RowKeys /\ checks \in BOOLEAN /\ future \in BOOLEAN
    /\ stage = "load" /\ cleaned = {} /\ held = {} /\ train = {} /\ frozen = {}

\* Row i outranks row j of the same key: a newer version, then a newer time, then a higher id.
Outranks(i, j) ==
    \/ rows[i].ver > rows[j].ver
    \/ rows[i].ver = rows[j].ver /\ rows[i].at > rows[j].at
    \/ rows[i].ver = rows[j].ver /\ rows[i].at = rows[j].at /\ i > j

\* A keyed row survives as the newest of its key, unless a newer version deleted the key.
Current(i) ==
    rows[i].key # NoValue =>
        /\ \A j \in Positions : j # i /\ rows[j].key = rows[i].key => Outranks(i, j)
        /\ rows[i].key \in erased => rows[i].ver = 2

\* Of the rows with the same time and values the first that is current is kept.
FirstOfItsKind(i) ==
    ~ \E j \in 1 .. i - 1 : Current(j) /\ rows[j].at = rows[i].at /\ rows[j].val = rows[i].val

\* clean_records; with nothing left the job is an error.
CleanRecords ==
    /\ stage = "load"
    /\ cleaned' = {i \in Positions : Current(i) /\ FirstOfItsKind(i) /\ rows[i].val # NoValue}
    /\ stage' = IF cleaned' = {} THEN "error" ELSE "split"
    /\ UNCHANGED <<rows, erased, checks, future, held, train, frozen>>

\* A share of the pool rounded up, at least the minimum, but always one row less than there are.
HoldOutSize(n, share) == Max({0, Min({Max({share, HoldOutMin}), n - 1})})

\* The pool is the drifted version's rows; the newest of it are held out.  A fraction between 0
\* and 1 of n rows, rounded up, is any of 1 .. n.
HoldOut(share) ==
    LET pool == {i \in cleaned : rows[i].ver = 2}
        n == HoldOutSize(Cardinality(pool), share)
    IN
    /\ stage = "split" /\ share \in Min({1, Cardinality(pool)}) .. Cardinality(pool)
    /\ held' = {i \in pool : Cardinality({j \in pool : j > i}) < n}
    /\ stage' = "check"
    /\ UNCHANGED <<rows, erased, checks, future, cleaned, train, frozen>>

CopyKept(i) == FALSE

\* The row has the values of a held-out one.
Copy(i) == \E j \in held : rows[j].val = rows[i].val

\* The row is newer than the oldest held-out one.
Later(i) == held # {} /\ \E j \in held : rows[i].at > rows[j].at

\* What is left of the rows that are not held out: no copies of held-out ones and none later.
Safe(i) == ~Copy(i) /\ (future \/ ~Later(i))

\* check_leakage; a feature that gives the target away, or nothing left to train on, is an error.
\* With the checks off the rows go through, and only having none is an error.
CheckLeakage(targetLeaks) ==
    /\ stage = "check"
    /\ train' = {i \in cleaned \ held : checks => Safe(i)}
    /\ stage' = IF (checks /\ targetLeaks) \/ train' = {} THEN "error" ELSE "train"
    /\ UNCHANGED <<rows, erased, checks, future, cleaned, held, frozen>>

\* The row ids the snapshot leaves out: the cleaned rows that were not trained on.
Excluded == cleaned \ train

\* snapshot_training_data: every row of the two versions but the excluded ones.
FreezeTraining ==
    /\ stage = "train"
    /\ frozen' = Positions \ Excluded
    /\ stage' = "frozen"
    /\ UNCHANGED <<rows, erased, checks, future, cleaned, held, train>>

RowsNext ==
    \/ CleanRecords \/ FreezeTraining
    \/ \E share \in 0 .. RowCount : HoldOut(share)
    \/ \E t \in BOOLEAN : CheckLeakage(t)

RowsSpec == RowsInit /\ [][RowsNext]_rowVars

-----------------------------------------------------------------------------
\* A candidate is never scored on what it has learned: no held-out row is trained on and, unless
\* the checks are off, no row with the values of one and, for a time series, no row newer than the
\* oldest of them; every held-out row is among the newest of the drifted data.
NothingHeldOutIsLearned ==
    stage \in {"train", "frozen"} =>
        \A i \in train, j \in held :
            /\ i # j
            /\ checks => rows[i].val # rows[j].val /\ (future \/ rows[i].at <= rows[j].at)
            /\ rows[i].ver = 2 => i < j

\* The snapshot that the next drift is measured against holds every row the version was trained
\* on and none it was scored on; the only others are rows that cleaning had dropped.
BaselineKeepsHoldOutOut ==
    stage = "frozen" =>
        train \subseteq frozen /\ held \intersect frozen = {} /\ frozen \ train \subseteq Positions \ cleaned

\* Held-out rows are in neither what a version learned nor its baseline.
HoldOutIsKept == NothingHeldOutIsLearned /\ BaselineKeepsHoldOutOut
=============================================================================
