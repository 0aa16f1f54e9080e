----------------------------- MODULE DataProofs -----------------------------
(***************************************************************************)
(* Safety of the data, for any names, contents, adapters, changes and       *)
(* number of clients: reads of objects the framework does not own, the      *)
(* transactions that create and link versions, and change data capture.    *)
(***************************************************************************)
EXTENDS ChangeCapture, DataVersions, DataLineage, FiniteSetTheorems, SequenceTheorems,
        WellFoundedInduction, TLAPS

-----------------------------------------------------------------------------
(* Loops, by the least number a claim fails for. *)

\* The least of a set of naturals.
LEMMA LeastNat ==
  ASSUME NEW T, T \subseteq Nat, T # {}
  PROVE  \E x \in T : \A y \in T : x <= y
<1>1. PICK x \in T : \A y \in T : ~(<<y, x>> \in OpToRel(<, Nat))
  BY WFMin, NatLessThanWellFounded, Zenon
<1>2. \A y \in T : ~(y < x)
  BY <1>1 DEF OpToRel
<1> QED
  BY <1>2

\* Induction up to n.
LEMMA UpTo ==
  ASSUME NEW n \in Nat, NEW S, 0 \in S, \A i \in 1 .. n : i - 1 \in S => i \in S
  PROVE  \A i \in 0 .. n : i \in S
<1> DEFINE Bad == {i \in 0 .. n : i \notin S}
<1> SUFFICES ASSUME Bad # {} PROVE FALSE
  OBVIOUS
<1>1. PICK i \in Bad : \A j \in Bad : i <= j
  <2>1. Bad \subseteq Nat
    OBVIOUS
  <2> QED
    BY <2>1, LeastNat
<1>2. i \in 1 .. n /\ i - 1 \in 0 .. n
  OBVIOUS
<1>3. i - 1 \in S
  BY <1>1, <1>2
<1> QED
  BY <1>2, <1>3

\* A loop of m steps from a, in S: what each step makes of what it finds.
IsLoop(f, m, S, a, F) ==
    /\ f \in [0 .. m -> S] /\ f[0] = a
    /\ \A i \in 1 .. m : f[i] = F[<<i, f[i - 1]>>]

\* There is one.
LEMMA Loop ==
  ASSUME NEW m \in Nat, NEW S, NEW a \in S, NEW F,
         \A i \in 1 .. m : \A x \in S : F[<<i, x>>] \in S
  PROVE  \E f : IsLoop(f, m, S, a, F)
<1> DEFINE Steps(k, f) == /\ f \in [0 .. k -> S] /\ f[0] = a
                          /\ \A i \in 1 .. k : f[i] = F[<<i, f[i - 1]>>]
<1> DEFINE T == {k \in 0 .. m : \E f : Steps(k, f)}
<1>1. 0 \in T
  <2>1. PICK f : f = [i \in 0 .. 0 |-> a]
    OBVIOUS
  <2>2. Steps(0, f)
    BY <2>1
  <2>3. \E g : Steps(0, g)
    BY <2>2
  <2> QED
    BY <2>3
<1>2. ASSUME NEW k \in 1 .. m, k - 1 \in T PROVE k \in T
  <2>1. PICK f : Steps(k - 1, f)
    BY <1>2
  <2>2. /\ k \in Nat /\ k - 1 \in 0 .. k - 1 /\ f[k - 1] \in S
        /\ F[<<k, f[k - 1]>>] \in S
    BY <2>1
  <2>3. PICK x \in S : x = F[<<k, f[k - 1]>>]
    BY <2>2
  <2>4. PICK g : g = [i \in 0 .. k |-> IF i = k THEN x ELSE f[i]]
    OBVIOUS
  <2>5. \A i \in 0 .. k - 1 : g[i] = f[i] /\ f[i] \in S
    BY <2>1, <2>2, <2>4
  <2>6. g[k] = x
    BY <2>2, <2>4
  <2>7. \A i \in 1 .. k : g[i] = F[<<i, g[i - 1]>>]
    <3>1. ASSUME NEW i \in 1 .. k - 1 PROVE g[i] = F[<<i, g[i - 1]>>]
      <4>1. i \in 0 .. k - 1 /\ i - 1 \in 0 .. k - 1
        BY <2>2
      <4>2. g[i] = f[i] /\ g[i - 1] = f[i - 1]
        BY <2>5, <4>1
      <4>3. f[i] = F[<<i, f[i - 1]>>]
        BY <2>1
      <4> QED
        BY <4>2, <4>3
    <3>2. g[k] = F[<<k, g[k - 1]>>]
      BY <2>2, <2>3, <2>5, <2>6
    <3>3. \A i \in 1 .. k : i = k \/ i \in 1 .. k - 1
      BY <2>2
    <3> QED
      BY <3>1, <3>2, <3>3
  <2>8. g \in [0 .. k -> S]
    BY <2>1, <2>2, <2>3, <2>4, <2>5
  <2>9. g[0] = a
    BY <2>1, <2>2, <2>5
  <2> QED
    BY <2>7, <2>8, <2>9
<1>3. \A k \in 0 .. m : k \in T
  <2> HIDE DEF T
  <2> QED
    BY <1>1, <1>2, UpTo
<1>4. m \in T
  BY <1>3
<1> QED
  BY <1>4 DEF IsLoop

-----------------------------------------------------------------------------
(***************************************************************************)
(* DataVersions: ReadsAreRight.  Contents of the object are never removed   *)
(* from its history, so everything an operation knows about a generation    *)
(* stays true; what may change is whether that generation is the latest.    *)
(***************************************************************************)

DvState == <<store, verify, object, ended>>

DvTypes ==
    /\ store.pins \in BOOLEAN /\ store.mark \in {"none", "content", "write"}
    /\ store.guarded \in BOOLEAN
    /\ verify \in Modes
    /\ object \in Seq(Contents) /\ Now >= 1
    /\ ended \in BOOLEAN
    /\ registered = [n \in Names |-> registered[n]]
    /\ op = [c \in Clients |-> op[c]]

\* A registered reference: its digest is the content of its generation, unless
\* the object was overwritten between the passes that read it.
DvReference(row) ==
    /\ row.gen \in 1..Now /\ row.mark = Mark(row.gen)
    /\ row.torn => ~store.pins /\ Now > row.gen
    /\ ~row.torn => row.digest = object[row.gen]
    /\ store.guarded => ended /\ row.gen = Now

\* The object is not what it was when the row was registered.
DvMoved(row) == ~store.pins /\ ~store.guarded /\ Now > row.gen

\* Why other rows than the registered ones may have been read.
DvMissed(row, cause) == DvMoved(row) /\ (verify = "off" \/ cause \/ row.torn)

DvIsReference(n) == n \in Names /\ registered[n] # None /\ registered[n].storage = "reference"

DvRowOk(row) ==
    /\ row.storage = "reference" => DvReference(row)
    /\ row.storage = "derived" =>
          /\ DvIsReference(row.source)
          /\ \/ row.digest = registered[row.source].digest
             \/ DvMissed(registered[row.source], row.raced)

DvRows == \A n \in Names : registered[n] # None => DvRowOk(registered[n])

DvReads(n) == n \in Names /\ registered[n] # None /\ DvIsReference(SourceOf(n))

DvRegisters(o) ==
    o.kind = "register" =>
        /\ o.name \in Names
        /\ o.gen \in 1..Now /\ o.mark = Mark(o.gen)
        /\ store.guarded => ended /\ o.gen = Now

DvReading(o) ==
    o.kind \in {"load", "sample", "page", "snapshot"} =>
        /\ DvReads(o.name)
        /\ o.gen \in 1..Now
        /\ (~o.hashes /\ verify # "off") =>
              LET row == registered[SourceOf(o.name)] IN
              row.mark # None /\ (store.pins \/ Mark(o.gen) = row.mark)

DvGot(o) ==
    o.kind = "got" =>
        /\ DvReads(o.name)
        /\ LET row == registered[SourceOf(o.name)] IN
           o.content = row.digest \/ DvMissed(row, o.raced \/ o.unhashed)
        /\ o.how = "snapshot" => ~o.unhashed

DvRefused(o) ==
    o.kind = "refused" => DvReads(o.name) /\ DvMoved(registered[SourceOf(o.name)])

DvVerifies(o) ==
    o.kind = "verify" =>
        /\ DvReads(o.name)
        /\ LET row == registered[SourceOf(o.name)] IN
           /\ o.gen \in 1..Now /\ row.gen <= o.gen
           /\ ~o.alike => ~store.pins /\ Mark(o.gen) # row.mark

DvOpOk(o) == DvRegisters(o) /\ DvReading(o) /\ DvGot(o) /\ DvRefused(o) /\ DvVerifies(o)

DvOps == \A c \in Clients : DvOpOk(op[c])

DvInv == DvTypes /\ DvRows /\ DvOps

\* The adapters pin and fingerprint in one of these ways.
LEMMA DvAdapters == \A a \in Adapters : /\ a.pins \in BOOLEAN
                                        /\ a.mark \in {"none", "content", "write"}
                                        /\ a.guarded \in BOOLEAN
<1> TAKE a \in Adapters
<1> DEFINE Of(b) == CASE b = "file" -> FileDataset [] b = "http" -> HttpDataset
                      [] b = "fsspec" -> FsspecDataset [] b = "sql" -> SqlDataset
                      [] b = "rankpi" -> RankpiDataset [] b = "s3" -> S3Dataset
                      [] b = "gcs" -> GcsDataset
<1>1. Adapters = UNION {Of(b) : b \in Backends}
  BY DEF Adapters
<1>2. /\ Of("file") = FileDataset /\ Of("http") = HttpDataset /\ Of("fsspec") = FsspecDataset
      /\ Of("sql") = SqlDataset /\ Of("rankpi") = RankpiDataset
      /\ Of("s3") = S3Dataset /\ Of("gcs") = GcsDataset
  OBVIOUS
<1> HIDE DEF Of
<1>3. PICK b \in Backends : a \in Of(b)
  BY <1>1
<1>4. b \in {"file", "http", "fsspec", "sql", "rankpi", "s3", "gcs"}
  BY VersionConstants
<1> DEFINE Right == /\ a.pins \in BOOLEAN /\ a.mark \in {"none", "content", "write"}
                    /\ a.guarded \in BOOLEAN
<1>5. ASSUME NEW pins \in BOOLEAN, NEW mark \in {"none", "content", "write"},
             a = Adapter(pins, mark)
      PROVE  Right
  BY <1>5 DEF Adapter
<1>6. CASE a \in FileDataset \/ a \in SqlDataset \/ a \in GcsDataset
  BY <1>6, <1>5 DEF FileDataset, SqlDataset, GcsDataset
<1>7. CASE a \in HttpDataset \/ a \in FsspecDataset
  <2>1. PICK m \in {"write", "content", "none"} : a = Adapter(FALSE, m)
    BY <1>7 DEF HttpDataset, FsspecDataset
  <2> QED
    BY <2>1, <1>5
<1>8. CASE a \in RankpiDataset
  BY <1>8 DEF RankpiDataset, Adapter
<1>9. CASE a \in S3Dataset
  <2>1. PICK pins \in BOOLEAN : a = Adapter(pins, "content")
    BY <1>9 DEF S3Dataset
  <2> QED
    BY <2>1, <1>5
<1> QED
  BY <1>2, <1>3, <1>4, <1>6, <1>7, <1>8, <1>9

\* Nothing is registered and nobody is at work at first.
LEMMA DvInitial == VersionsInit => DvInv
<1> SUFFICES ASSUME VersionsInit PROVE DvInv
  OBVIOUS
<1>1. object \in Seq(Contents) /\ Len(object) = 1
  <2>1. object \in [1..1 -> Contents]
    BY DEF VersionsInit
  <2>2. object \in Seq(Contents)
    BY <2>1, SeqDef
  <2> QED
    BY <2>1, <2>2, LenProperties
<1>2. DvTypes
  <2>1. /\ store.pins \in BOOLEAN /\ store.mark \in {"none", "content", "write"}
        /\ store.guarded \in BOOLEAN
    BY DvAdapters DEF VersionsInit
  <2>2. verify \in Modes /\ ended \in BOOLEAN
    BY DEF VersionsInit
  <2>3. object \in Seq(Contents) /\ Now >= 1
    BY <1>1 DEF Now
  <2>4. registered = [n \in Names |-> registered[n]] /\ op = [c \in Clients |-> op[c]]
    BY DEF VersionsInit
  <2> QED
    BY <2>1, <2>2, <2>3, <2>4 DEF DvTypes
<1>3. DvRows
  BY DEF VersionsInit, DvRows
<1>4. DvOps
  BY DEF VersionsInit, DvOps, DvOpOk, DvRegisters, DvReading, DvGot, DvRefused, DvVerifies, Idle
<1> QED
  BY <1>2, <1>3, <1>4 DEF DvInv

-----------------------------------------------------------------------------
(* The three kinds of step. *)

\* A step that moves one client only: what the client is doing now is right.
LEMMA DvSameState ==
    ASSUME DvInv, registered' = registered, UNCHANGED DvState,
           op' = [c \in Clients |-> op'[c]],
           \A c \in Clients : op'[c] = op[c] \/ DvOpOk(op'[c])
    PROVE  DvInv'
<1>1. DvTypes'
  BY DEF DvInv, DvTypes, DvState, Now
<1>2. DvRows'
  BY DEF DvInv, DvRows, DvRowOk, DvReference, DvIsReference, DvMissed, DvMoved, DvState, Now, Mark
<1>3. DvOps'
  <2> SUFFICES ASSUME NEW c \in Clients PROVE DvOpOk(op[c])'
    BY DEF DvOps
  <2>1. PICK o : o = op'[c]
    OBVIOUS
  <2>2. DvOpOk(o)
    BY <2>1 DEF DvInv, DvOps
  <2>3. DvOpOk(o)'
    BY <2>2 DEF DvOpOk, DvRegisters, DvReading, DvGot, DvRefused, DvVerifies, DvReads,
       DvIsReference, DvMissed, DvMoved, SourceOf, DvState, Now, Mark
  <2> QED
    BY <2>1, <2>3 DEF DvOpOk, DvRegisters, DvReading, DvGot, DvRefused, DvVerifies
<1> QED
  BY <1>1, <1>2, <1>3 DEF DvInv

LEMMA DvOneClient ==
    ASSUME DvInv, NEW c \in Clients, NEW o,
           op' = [op EXCEPT ![c] = o], registered' = registered, UNCHANGED DvState,
           DvOpOk(o)
    PROVE  DvInv'
<1>1. /\ op' = [d \in Clients |-> op'[d]]
      /\ \A d \in Clients : op'[d] = op[d] \/ op'[d] = o
  BY DEF DvInv, DvTypes
<1> QED
  BY <1>1, DvSameState

\* A client that has ended is right.
LEMMA DvIdleOk == DvOpOk(Idle)
  BY DEF DvOpOk, DvRegisters, DvReading, DvGot, DvRefused, DvVerifies, Idle

LEMMA DvEnds ==
    ASSUME DvInv, NEW c \in Clients, Ends(c), registered' = registered, UNCHANGED DvState
    PROVE  DvInv'
  BY DvOneClient, DvIdleOk DEF Ends

\* A step that registers a row, of a client that ends or of none.
LEMMA DvOneRow ==
    ASSUME DvInv, NEW n \in Names, NEW row, CreateVersion(n, row), UNCHANGED DvState,
           DvRowOk(row),
           op' = op \/ \E c \in Clients : Ends(c)
    PROVE  DvInv'
<1>0. /\ op' = [d \in Clients |-> op'[d]]
      /\ \A d \in Clients : op'[d] = op[d] \/ op'[d] = Idle
  BY DEF DvInv, DvTypes, Ends
<1>1. CASE registered[n] # None
  <2>1. registered' = registered
    BY <1>1 DEF CreateVersion
  <2> QED
    BY <2>1, <1>0, DvSameState, DvIdleOk
<1>2. CASE registered[n] = None
  <2>1. registered' = [registered EXCEPT ![n] = row]
    BY <1>2 DEF CreateVersion
  <2>2. /\ registered'[n] = row
        /\ \A m \in Names : m # n => registered'[m] = registered[m]
    BY <2>1 DEF DvInv, DvTypes
  <2>3. \A m : DvIsReference(m) => DvIsReference(m)' /\ registered'[m] = registered[m]
    BY <2>2, <1>2 DEF DvIsReference
  <2>4. DvTypes'
    BY <1>0, <2>1 DEF DvInv, DvTypes, DvState, Now
  <2>5. ASSUME NEW r, DvRowOk(r)
        PROVE  DvRowOk(r)'
    <3>1. DvReference(r) => DvReference(r)'
      BY DEF DvReference, DvState, Now, Mark
    <3>2. ASSUME NEW x, NEW y PROVE DvMissed(x, y) => DvMissed(x, y)'
      BY DEF DvMissed, DvMoved, DvState, Now
    <3> QED
      BY <2>5, <2>3, <3>1, <3>2 DEF DvRowOk
  <2>6. DvRows'
    BY <2>2, <2>5 DEF DvInv, DvRows
  <2>7. ASSUME NEW m, DvReads(m)
        PROVE  DvReads(m)' /\ SourceOf(m)' = SourceOf(m) /\ registered'[m] = registered[m]
               /\ registered'[SourceOf(m)] = registered[SourceOf(m)]
    BY <2>7, <2>2, <2>3, <1>2 DEF DvReads, SourceOf
  <2>8. ASSUME NEW o, DvOpOk(o)
        PROVE  DvOpOk(o)'
    BY <2>8, <2>7 DEF DvOpOk, DvRegisters, DvReading, DvGot, DvRefused, DvVerifies, DvMissed, DvMoved,
       DvState, Now, Mark
  <2>9. DvOps'
    <3> SUFFICES ASSUME NEW d \in Clients PROVE DvOpOk(op[d])'
      BY DEF DvOps
    <3>1. PICK o : o = op'[d]
      OBVIOUS
    <3>2. DvOpOk(o)'
      BY <1>0, <2>8, <3>1, DvIdleOk DEF DvInv, DvOps
    <3> QED
      BY <3>1, <3>2 DEF DvOpOk, DvRegisters, DvReading, DvGot, DvRefused, DvVerifies
  <2> QED
    BY <2>4, <2>6, <2>9 DEF DvInv
<1> QED
  BY <1>1, <1>2

\* A step of the object's owner: nothing is added to a run that has ended.
LEMMA DvOwner ==
    ASSUME DvInv, store' = store, verify' = verify, registered' = registered, op' = op,
           ended' \in BOOLEAN, ended => ended',
           \/ object' = object
           \/ ~ended /\ \E content \in Contents : object' = Append(object, content)
    PROVE  DvInv'
<1>1. /\ object' \in Seq(Contents) /\ Now' >= Now
      /\ \A g \in 1..Now : g \in 1..Now' /\ object'[g] = object[g]
      /\ Now' = Now \/ ~ended
  BY DEF DvInv, DvTypes, Now
<1>2. /\ Now \in Nat /\ Now' \in Nat
  BY <1>1 DEF DvInv, DvTypes, Now
<1>3. DvTypes'
  BY <1>1, <1>2 DEF DvInv, DvTypes
<1>4. \A g \in 1..Now : Mark(g)' = Mark(g)
  BY <1>1 DEF Mark
<1>5. ASSUME NEW r, DvReference(r)
      PROVE  DvReference(r)'
  BY <1>1, <1>2, <1>4, <1>5 DEF DvReference
<1>6. ASSUME NEW r, r.gen \in 1..Now, DvMoved(r)
      PROVE  DvMoved(r)'
  BY <1>1, <1>2, <1>6 DEF DvMoved
<1>7. \A n : DvIsReference(n) <=> DvIsReference(n)'
  BY DEF DvIsReference
<1>8. \A n : DvIsReference(n) => registered[n].gen \in 1..Now
  BY DEF DvInv, DvRows, DvRowOk, DvReference, DvIsReference
<1>9. DvRows'
  <2> SUFFICES ASSUME NEW n \in Names, registered[n] # None PROVE DvRowOk(registered[n])'
    BY DEF DvRows
  <2>1. DvRowOk(registered[n])
    BY DEF DvInv, DvRows
  <2>2. ASSUME registered[n].storage = "derived",
               DvMissed(registered[registered[n].source], registered[n].raced)
        PROVE  DvMissed(registered[registered[n].source], registered[n].raced)'
    BY <2>1, <2>2, <1>6, <1>8 DEF DvMissed, DvRowOk
  <2> QED
    BY <2>1, <2>2, <1>5, <1>7 DEF DvRowOk
<1>10. ASSUME NEW n, DvReads(n)
       PROVE  /\ DvReads(n)' /\ SourceOf(n)' = SourceOf(n)
              /\ registered[SourceOf(n)].gen \in 1..Now
              /\ DvMoved(registered[SourceOf(n)]) => DvMoved(registered[SourceOf(n)])'
              /\ \A x : DvMissed(registered[SourceOf(n)], x) => DvMissed(registered[SourceOf(n)], x)'
  <2>1. DvReads(n)' /\ SourceOf(n)' = SourceOf(n)
    BY <1>10, <1>7 DEF DvReads, SourceOf
  <2>2. registered[SourceOf(n)].gen \in 1..Now
    BY <1>10, <1>8 DEF DvReads
  <2>3. DvMoved(registered[SourceOf(n)]) => DvMoved(registered[SourceOf(n)])'
    BY <2>1, <2>2, <1>6
  <2> QED
    BY <2>1, <2>2, <2>3 DEF DvMissed
<1>11. ASSUME NEW c \in Clients
       PROVE  DvOpOk(op[c])'
  <2> DEFINE o == op[c]
  <2>1. DvOpOk(o)
    BY DEF DvInv, DvOps
  <2>2. DvRegisters(o)'
    BY <2>1, <1>1, <1>2, <1>4 DEF DvOpOk, DvRegisters
  <2>3. DvReading(o)'
    BY <2>1, <1>1, <1>4, <1>10 DEF DvOpOk, DvReading
  <2>4. DvGot(o)'
    BY <2>1, <1>10 DEF DvOpOk, DvGot
  <2>5. DvRefused(o)'
    BY <2>1, <1>10 DEF DvOpOk, DvRefused
  <2>6. DvVerifies(o)'
    BY <2>1, <1>1, <1>4, <1>10 DEF DvOpOk, DvVerifies
  <2> QED
    BY <2>2, <2>3, <2>4, <2>5, <2>6 DEF DvOpOk
<1>12. DvOps'
  BY <1>11 DEF DvOps
<1> QED
  BY <1>3, <1>9, <1>12 DEF DvInv

-----------------------------------------------------------------------------
(* The steps. *)

LEMMA DvTypesOf ==
    ASSUME DvInv
    PROVE  /\ object \in Seq(Contents) /\ Now \in Nat /\ Now \in 1..Now
           /\ store.pins \in BOOLEAN /\ store.guarded \in BOOLEAN
           /\ op = [c \in Clients |-> op[c]]
           /\ \A c \in Clients : DvOpOk(op[c])
  BY DEF DvInv, DvTypes, DvOps, Now

\* The row that is read, and what is known of it.
LEMMA DvRowRead ==
    ASSUME DvInv, NEW n, DvReads(n)
    PROVE  /\ DvIsReference(SourceOf(n))
           /\ DvReference(registered[SourceOf(n)])
           /\ \/ registered[n].digest = registered[SourceOf(n)].digest
              \/ DvMoved(registered[SourceOf(n)])
<1>1. DvIsReference(SourceOf(n)) /\ DvReference(registered[SourceOf(n)])
  BY DEF DvInv, DvRows, DvRowOk, DvReads, DvIsReference
<1>2. CASE registered[n].storage = "derived"
  BY <1>1, <1>2 DEF DvInv, DvRows, DvRowOk, DvReads, SourceOf, DvMissed
<1>3. CASE registered[n].storage # "derived"
  BY <1>1, <1>3 DEF SourceOf
<1> QED
  BY <1>1, <1>2, <1>3

LEMMA DvReferenced ==
    ASSUME DvInv, NEW n \in Names, Referenced(n)
    PROVE  DvReads(n)
<1>1. CASE registered[n].storage = "derived"
  BY <1>1 DEF DvInv, DvRows, DvRowOk, DvReads, Referenced, SourceOf
<1>2. CASE registered[n].storage # "derived"
  BY <1>2 DEF DvReads, DvIsReference, Referenced, SourceOf
<1> QED
  BY <1>1, <1>2

\* Rows read through the registered URI are the registered ones, or the object moved.
LEMMA DvContent ==
    ASSUME DvInv, NEW row, DvReference(row),
           object[Opened(row.gen)] # row.digest
    PROVE  DvMoved(row) /\ (row.torn \/ Opened(row.gen) = Now)
<1>1. /\ row.gen \in 1..Now /\ Now \in Nat
      /\ row.torn => ~store.pins /\ Now > row.gen
      /\ ~row.torn => row.digest = object[row.gen]
      /\ store.guarded => ended /\ row.gen = Now
  BY DvTypesOf DEF DvReference
<1>2. ~store.pins /\ Opened(row.gen) = Now
  BY <1>1 DEF Opened
<1>3. Now # row.gen
  BY <1>1, <1>2
<1> QED
  BY <1>1, <1>2, <1>3 DEF DvMoved

\* Another mark means another generation.
LEMMA DvMarks ==
    ASSUME DvInv, NEW row, DvReference(row), NEW g \in 1..Now, row.gen <= g, ~store.pins,
           Mark(g) # row.mark
    PROVE  DvMoved(row)
<1>1. /\ row.gen \in 1..Now /\ Now \in Nat /\ row.mark = Mark(row.gen)
      /\ store.guarded => ended /\ row.gen = Now
  BY DvTypesOf DEF DvReference
<1>2. g # row.gen
  BY <1>1
<1>3. Now > row.gen
  BY <1>1, <1>2
<1> QED
  BY <1>1, <1>3 DEF DvMoved

\* An upload has its rows in the database.
LEMMA DvIngest ==
    ASSUME DvInv, NEW n \in Names, NEW content \in Contents, Ingest(n, content)
    PROVE  DvInv'
<1>1. PICK row : row = [storage |-> "rows", digest |-> content]
  OBVIOUS
<1>2. DvRowOk(row)
  BY <1>1 DEF DvRowOk
<1>3. CreateVersion(n, row) /\ UNCHANGED DvState /\ op' = op
  BY <1>1 DEF Ingest, DvState
<1> QED
  BY <1>2, <1>3, DvOneRow

\* A registration knows the generation it looked at.
LEMMA DvStat ==
    ASSUME DvInv, NEW c \in Clients, NEW n \in Names, Stat(c, n)
    PROVE  DvInv'
<1>1. PICK o : o = [kind |-> "register", step |-> "types", name |-> n, gen |-> Now,
                    mark |-> Mark(Now)]
  OBVIOUS
<1>2. DvRegisters(o)
  BY <1>1, DvTypesOf DEF DvRegisters, Stat, Readable
<1>3. DvOpOk(o)
  BY <1>1, <1>2 DEF DvOpOk, DvReading, DvGot, DvRefused, DvVerifies
<1>4. op' = [op EXCEPT ![c] = o] /\ registered' = registered /\ UNCHANGED DvState
  BY <1>1 DEF Stat, DvState
<1> QED
  BY <1>3, <1>4, DvOneClient

LEMMA DvScanTypes ==
    ASSUME DvInv, NEW c \in Clients, ScanTypes(c)
    PROVE  DvInv'
<1>1. PICK o : o = [kind |-> "register", step |-> "rows", name |-> op[c].name,
                    gen |-> op[c].gen, mark |-> op[c].mark,
                    shape |-> ShapeOf[object[Opened(op[c].gen)]]]
  OBVIOUS
<1>2. /\ o.kind = "register" /\ o.gen = op[c].gen /\ o.mark = op[c].mark
      /\ o.name = op[c].name
      /\ op[c].kind = "register"
  BY <1>1 DEF ScanTypes, Is
<1>3. DvRegisters(o)
  BY <1>2, DvTypesOf DEF DvRegisters, DvOpOk
<1>4. DvOpOk(o)
  BY <1>2, <1>3 DEF DvOpOk, DvReading, DvGot, DvRefused, DvVerifies
<1>5. op' = [op EXCEPT ![c] = o] /\ registered' = registered /\ UNCHANGED DvState
  BY <1>1 DEF ScanTypes, DvState
<1> QED
  BY <1>4, <1>5, DvOneClient

\* A registered reference is what was there at its generation, or the object was
\* overwritten between two passes and the row is marked so.
LEMMA DvScanRows ==
    ASSUME DvInv, NEW c \in Clients, ScanRows(c)
    PROVE  DvInv'
<1>1. PICK g : g = Opened(op[c].gen)
  OBVIOUS
<1>2. PICK o : o = op[c]
  OBVIOUS
<1>3. PICK torn \in BOOLEAN : torn <=> object[g] # object[o.gen]
  OBVIOUS
<1>4. PICK row : row = [storage |-> "reference", digest |-> object[g], gen |-> o.gen,
                        mark |-> o.mark, torn |-> object[g] # object[o.gen]]
  OBVIOUS
<1>5. /\ o.name \in Names /\ o.gen \in 1..Now /\ o.mark = Mark(o.gen)
      /\ store.guarded => ended /\ o.gen = Now
  BY <1>2, DvTypesOf DEF ScanRows, Is, DvOpOk, DvRegisters
<1>6. /\ row.storage = "reference" /\ row.digest = object[g] /\ row.gen = o.gen
      /\ row.mark = o.mark
  BY <1>4
<1>7. row.torn = (object[g] # object[o.gen])
  BY <1>4
<1>8. row.torn => ~store.pins /\ Now > row.gen
  <2>1. CASE row.torn
    <3>1. g # o.gen
      BY <1>7, <2>1
    <3>2. ~store.pins /\ g = Now
      BY <1>1, <1>2, <3>1 DEF Opened
    <3> QED
      BY <1>5, <1>6, <3>1, <3>2, DvTypesOf
  <2> QED
    BY <2>1
<1>9. ~row.torn => row.digest = object[row.gen]
  BY <1>6, <1>7
<1>10. DvRowOk(row)
  BY <1>5, <1>6, <1>8, <1>9 DEF DvRowOk, DvReference
<1>11. Ends(c) /\ UNCHANGED DvState
  BY DEF ScanRows, DvState
<1>12. CreateVersion(o.name, row) \/ registered' = registered
  BY <1>1, <1>2, <1>4 DEF ScanRows
<1> QED
  BY <1>5, <1>10, <1>11, <1>12, DvOneRow, DvEnds

\* A check that passes: without the hash of the rows to come, the object still has
\* the registered mark.
LEMMA DvCheck ==
    ASSUME DvInv, NEW c \in Clients, NEW n \in Names,
           NEW how \in {"load", "sample", "page", "snapshot"}, Check(c, n, how)
    PROVE  DvInv'
<1>1. PICK row : row = registered[SourceOf(n)]
  OBVIOUS
<1>2. PICK hashes \in BOOLEAN : hashes <=> (verify = "hash" \/ (verify # "off" /\ row.mark = None))
  OBVIOUS
<1>3. PICK o : o = [kind |-> how, step |-> "read", name |-> n, gen |-> Now,
                    hashes |-> verify = "hash" \/ (verify # "off" /\ row.mark = None)]
  OBVIOUS
<1>4. o.kind = how /\ o.name = n /\ o.gen = Now
  BY <1>3
<1>5. o.hashes = (verify = "hash" \/ (verify # "off" /\ row.mark = None))
  BY <1>3
<1>6. DvReads(n)
  BY DvReferenced DEF Check
<1>7. (~o.hashes /\ verify # "off") => row.mark # None /\ (store.pins \/ Mark(Now) = row.mark)
  <2>1. (verify # "off" /\ row.mark # None) => (IF store.pins THEN row.mark ELSE Mark(Now)) = row.mark
    BY <1>1 DEF Check
  <2> QED
    BY <1>5, <2>1
<1>8. DvReading(o)
  BY <1>1, <1>4, <1>6, <1>7, DvTypesOf DEF DvReading
<1>9. DvOpOk(o)
  BY <1>4, <1>8 DEF DvOpOk, DvRegisters, DvGot, DvRefused, DvVerifies
<1>10. op' = [op EXCEPT ![c] = o] /\ registered' = registered /\ UNCHANGED DvState
  BY <1>1, <1>3 DEF Check, DvState
<1> QED
  BY <1>9, <1>10, DvOneClient

\* Another mark than the registered one: the object was overwritten.
LEMMA DvChangedOk ==
    ASSUME DvInv, NEW c \in Clients, NEW n \in Names, Changed(c, n)
    PROVE  DvInv'
<1>1. PICK row : row = registered[SourceOf(n)]
  OBVIOUS
<1>2. PICK o : o = [kind |-> "refused", name |-> n, gen |-> Now]
  OBVIOUS
<1>3. DvReads(n) /\ DvReference(row)
  BY <1>1, DvReferenced, DvRowRead DEF Changed
<1>4. ~store.pins /\ Mark(Now) # row.mark
  BY <1>1 DEF Changed
<1>5. row.gen <= Now
  BY <1>3, DvTypesOf DEF DvReference
<1>6. DvMoved(row)
  BY <1>3, <1>4, <1>5, DvMarks, DvTypesOf
<1>7. DvOpOk(o)
  BY <1>1, <1>2, <1>3, <1>6 DEF DvOpOk, DvRegisters, DvReading, DvGot, DvRefused, DvVerifies
<1>8. op' = [op EXCEPT ![c] = o] /\ registered' = registered /\ UNCHANGED DvState
  BY <1>2 DEF Changed, DvState
<1> QED
  BY <1>7, <1>8, DvOneClient

\* A read hands out the registered rows or knows why not, and refuses only rows
\* that are not the registered ones.
LEMMA DvRead ==
    ASSUME DvInv, NEW c \in Clients, Read(c)
    PROVE  DvInv'
<1>1. PICK o : o = op[c]
  OBVIOUS
<1>2. PICK row : row = registered[SourceOf(o.name)]
  OBVIOUS
<1>3. PICK g : g = Opened(row.gen)
  OBVIOUS
<1>4. PICK seen : seen = [kind |-> "got", how |-> o.kind, name |-> o.name, content |-> object[g],
                          raced |-> ~store.pins /\ g # o.gen,
                          unhashed |-> o.hashes /\ Partial(o)]
  OBVIOUS
<1>5. PICK no : no = [kind |-> "refused", name |-> o.name, gen |-> o.gen]
  OBVIOUS
<1>6. PICK next : next = IF \/ ~Conforms(object[g], row)
                            \/ o.hashes /\ ~Partial(o) /\ object[g] # row.digest
                         THEN no ELSE seen
  OBVIOUS
<1>7. /\ op' = [op EXCEPT ![c] = next] /\ registered' = registered /\ UNCHANGED DvState
      /\ o.kind \in {"load", "sample", "page", "snapshot"}
  BY <1>1, <1>2, <1>3, <1>4, <1>5, <1>6 DEF Read, DvState
<1>8. /\ DvReads(o.name) /\ o.gen \in 1..Now
      /\ (~o.hashes /\ verify # "off") => row.mark # None /\ (store.pins \/ Mark(o.gen) = row.mark)
  BY <1>1, <1>2, <1>7, DvTypesOf DEF DvOpOk, DvReading
<1>9. DvReference(row)
  BY <1>2, <1>8, DvRowRead
<1>10. object[g] # row.digest => DvMoved(row) /\ (row.torn \/ g = Now)
  BY <1>3, <1>9, DvContent
<1>11. CASE next = no
  <2>1. object[g] # row.digest
    <3>1. CASE ~Conforms(object[g], row)
      BY <3>1 DEF Conforms
    <3>2. CASE Conforms(object[g], row)
      <4>1. next.kind = "refused"
        BY <1>5, <1>11
      <4>2. seen.kind = "got"
        BY <1>4
      <4> QED
        BY <1>6, <3>2, <4>1, <4>2
    <3> QED
      BY <3>1, <3>2
  <2>2. next.kind = "refused" /\ next.name = o.name
    BY <1>5, <1>11
  <2>3. DvOpOk(next)
    BY <1>2, <1>8, <1>10, <2>1, <2>2 DEF DvOpOk, DvRegisters, DvReading, DvGot, DvRefused, DvVerifies
  <2> QED
    BY <1>7, <2>3, DvOneClient
<1>12. CASE next = seen /\ ~(o.hashes /\ ~Partial(o) /\ object[g] # row.digest)
  <2>1. /\ next.kind = "got" /\ next.how = o.kind /\ next.name = o.name
        /\ next.content = object[g]
    BY <1>4, <1>12
  <2>2. /\ next.raced = (~store.pins /\ g # o.gen)
        /\ next.unhashed = (o.hashes /\ Partial(o))
    BY <1>4, <1>12
  <2>3. next.how = "snapshot" => ~next.unhashed
    BY <2>1, <2>2 DEF Partial
  <2>4. ASSUME object[g] # row.digest, verify # "off", ~(next.raced \/ next.unhashed)
        PROVE  row.torn
    <3>1. DvMoved(row) /\ ~store.pins
      BY <1>10, <2>4 DEF DvMoved
    <3>2. g = o.gen
      BY <2>2, <2>4, <3>1
    <3>3. ~o.hashes
      BY <1>12, <2>2, <2>4
    <3>4. row.mark # None /\ Mark(o.gen) = row.mark
      BY <1>8, <2>4, <3>1, <3>3
    <3>5. row.mark = Mark(row.gen) /\ row.gen \in 1..Now /\ Now > row.gen /\ Now \in Nat
      BY <1>9, <3>1, DvTypesOf DEF DvReference, DvMoved
    <3>6. ~row.torn => object[g] = row.digest
      <4> SUFFICES ASSUME ~row.torn PROVE object[g] = row.digest
        OBVIOUS
      <4>1. row.digest = object[row.gen] /\ g = Now
        BY <1>9, <1>10, <2>4 DEF DvReference
      <4>2. CASE store.mark = "none"
        BY <3>4, <4>2 DEF Mark
      <4>3. CASE store.mark = "content"
        BY <3>2, <3>4, <3>5, <4>1, <4>3 DEF Mark
      <4>4. CASE store.mark = "write"
        BY <3>2, <3>4, <3>5, <4>1, <4>4 DEF Mark
      <4> QED
        BY <4>2, <4>3, <4>4 DEF DvInv, DvTypes
    <3> QED
      BY <2>4, <3>6
  <2>5. next.content = row.digest \/ DvMissed(row, next.raced \/ next.unhashed)
    BY <1>10, <2>1, <2>4 DEF DvMissed
  <2>6. DvGot(next)
    BY <1>2, <1>8, <2>1, <2>3, <2>5 DEF DvGot
  <2>7. DvOpOk(next)
    BY <2>1, <2>6 DEF DvOpOk, DvRegisters, DvReading, DvRefused, DvVerifies
  <2> QED
    BY <1>7, <2>7, DvOneClient
<1> QED
  BY <1>6, <1>11, <1>12

\* A snapshot's hash is that of the rows its reader got.
LEMMA DvSnapshot ==
    ASSUME DvInv, NEW c \in Clients, NEW n \in Names, Snapshot(c, n)
    PROVE  DvInv'
<1>1. PICK o : o = op[c]
  OBVIOUS
<1>2. PICK row : row = [storage |-> "derived", digest |-> o.content,
                        source |-> SourceOf(o.name), raced |-> o.raced]
  OBVIOUS
<1>3. /\ row.storage = "derived" /\ row.digest = o.content /\ row.source = SourceOf(o.name)
      /\ row.raced = o.raced
  BY <1>2
<1>4. /\ DvReads(o.name) /\ ~o.unhashed
      /\ \/ o.content = registered[SourceOf(o.name)].digest
         \/ DvMissed(registered[SourceOf(o.name)], o.raced \/ o.unhashed)
  BY <1>1, DvTypesOf DEF Snapshot, DvOpOk, DvGot
<1>5. DvRowOk(row)
  BY <1>3, <1>4 DEF DvRowOk, DvReads, DvMissed
<1>6. CreateVersion(n, row) /\ Ends(c) /\ UNCHANGED DvState
  BY <1>1, <1>2 DEF Snapshot, DvState
<1> QED
  BY <1>5, <1>6, DvOneRow

\* The look of a verification: another mark means another generation.
LEMMA DvVerifyStat ==
    ASSUME DvInv, NEW c \in Clients, NEW n \in Names, VerifyStat(c, n)
    PROVE  DvInv'
<1>1. PICK row : row = registered[SourceOf(n)]
  OBVIOUS
<1>2. PICK o : o = [kind |-> "verify", name |-> n, gen |-> Now,
                    alike |-> registered[n].storage = "derived" \/ row.mark = None \/ store.pins
                              \/ Mark(Now) = row.mark]
  OBVIOUS
<1>3. o.kind = "verify" /\ o.name = n /\ o.gen = Now
  BY <1>2
<1>4. o.alike = (registered[n].storage = "derived" \/ row.mark = None \/ store.pins
                 \/ Mark(Now) = row.mark)
  BY <1>2
<1>5. DvReads(n) /\ DvReference(row)
  BY <1>1, DvReferenced, DvRowRead DEF VerifyStat
<1>6. row.gen <= Now
  BY <1>5, DvTypesOf DEF DvReference
<1>7. ~o.alike => ~store.pins /\ Mark(Now) # row.mark
  BY <1>4
<1>8. DvVerifies(o)
  BY <1>1, <1>3, <1>5, <1>6, <1>7, DvTypesOf DEF DvVerifies
<1>9. DvOpOk(o)
  BY <1>3, <1>8 DEF DvOpOk, DvRegisters, DvReading, DvGot, DvRefused
<1>10. op' = [op EXCEPT ![c] = o] /\ registered' = registered /\ UNCHANGED DvState
  BY <1>1, <1>2 DEF VerifyStat, DvState
<1> QED
  BY <1>9, <1>10, DvOneClient

\* A verification fails only for an object that moved.
LEMMA DvVerifyRows ==
    ASSUME DvInv, NEW c \in Clients, VerifyRows(c)
    PROVE  DvInv'
<1>1. PICK o : o = op[c]
  OBVIOUS
<1>2. PICK row : row = registered[SourceOf(o.name)]
  OBVIOUS
<1>3. PICK content : content = object[Opened(row.gen)]
  OBVIOUS
<1>4. PICK no : no = [kind |-> "refused", name |-> o.name, gen |-> o.gen]
  OBVIOUS
<1>5. PICK next : next = IF Conforms(content, row) /\ o.alike /\ content = registered[o.name].digest
                         THEN Idle ELSE no
  OBVIOUS
<1>6. /\ op' = [op EXCEPT ![c] = next] /\ registered' = registered /\ UNCHANGED DvState
      /\ o.kind = "verify"
  BY <1>1, <1>2, <1>3, <1>4, <1>5 DEF VerifyRows, DvState
<1>7. /\ DvReads(o.name) /\ o.gen \in 1..Now /\ row.gen <= o.gen
      /\ ~o.alike => ~store.pins /\ Mark(o.gen) # row.mark
  BY <1>1, <1>2, <1>6, DvTypesOf DEF DvOpOk, DvVerifies
<1>8. /\ DvReference(row)
      /\ registered[o.name].digest = row.digest \/ DvMoved(row)
  BY <1>2, <1>7, DvRowRead
<1>9. content # row.digest => DvMoved(row)
  BY <1>3, <1>8, DvContent
<1>10. ASSUME ~(Conforms(content, row) /\ o.alike /\ content = registered[o.name].digest)
       PROVE  DvMoved(row)
  <2>1. CASE content # row.digest
    BY <1>9, <2>1
  <2>2. CASE content = row.digest /\ o.alike
    BY <1>8, <1>10, <2>2 DEF Conforms
  <2>3. CASE ~o.alike
    BY <1>7, <1>8, <2>3, DvMarks
  <2> QED
    BY <2>1, <2>2, <2>3
<1>11. CASE next = Idle
  BY <1>6, <1>11, DvOneClient, DvIdleOk
<1>12. CASE next = no /\ DvMoved(row)
  <2>1. next.kind = "refused" /\ next.name = o.name
    BY <1>4, <1>12
  <2>2. DvOpOk(next)
    BY <1>2, <1>7, <1>12, <2>1 DEF DvOpOk, DvRegisters, DvReading, DvGot, DvRefused, DvVerifies
  <2> QED
    BY <1>6, <2>2, DvOneClient
<1> QED
  BY <1>5, <1>10, <1>11, <1>12

\* Every step keeps the invariant.
LEMMA DvStep == DvInv /\ [VersionsNext]_versionVars => DvInv'
<1> SUFFICES ASSUME DvInv, [VersionsNext]_versionVars PROVE DvInv'
  OBVIOUS
<1>1. CASE EndRun
  <2>1. /\ store' = store /\ verify' = verify /\ registered' = registered /\ op' = op
        /\ object' = object /\ ended' = TRUE
    BY <1>1 DEF EndRun
  <2> QED
    BY <2>1, DvOwner
<1>2. ASSUME NEW content \in Contents, Overwrite(content) PROVE DvInv'
  <2>1. /\ store' = store /\ verify' = verify /\ registered' = registered /\ op' = op
        /\ object' = Append(object, content) /\ ended' = ended /\ ~ended
    BY <1>2 DEF Overwrite
  <2>2. ended' \in BOOLEAN
    BY <2>1 DEF DvInv, DvTypes
  <2> QED
    BY <2>1, <2>2, DvOwner
<1>3. ASSUME NEW c \in Clients, Unavailable(c) \/ Done(c) PROVE DvInv'
  BY <1>3, DvEnds DEF Unavailable, Done, DvState
<1>4. CASE UNCHANGED versionVars
  <2>1. registered' = registered /\ op' = op /\ UNCHANGED DvState
    BY <1>4 DEF versionVars, DvState
  <2> QED
    BY <2>1, DvSameState, DvTypesOf
<1> QED
  BY <1>1, <1>2, <1>3, <1>4, DvIngest, DvStat, DvScanTypes, DvScanRows, DvCheck, DvChangedOk,
     DvRead, DvSnapshot, DvVerifyStat, DvVerifyRows DEF VersionsNext

\* What the invariant says of readers and of refusals.
LEMMA DvAnswers == DvInv => ReadsAreRight
<1> SUFFICES ASSUME DvInv PROVE ReadsAreRight
  OBVIOUS
<1>1. ASSUME NEW c \in Clients, op[c].kind = "got"
      PROVE  LET row == registered[SourceOf(op[c].name)] IN
             \/ op[c].content = row.digest
             \/ /\ ~store.pins /\ ~store.guarded
                /\ (verify = "off" \/ op[c].raced \/ op[c].unhashed \/ row.torn)
  BY <1>1, DvTypesOf DEF DvOpOk, DvGot, DvMissed, DvMoved
<1>2. ASSUME NEW n \in Names, registered[n] # None, registered[n].storage = "derived"
      PROVE  LET origin == registered[registered[n].source] IN
             \/ registered[n].digest = origin.digest
             \/ /\ ~store.pins /\ ~store.guarded
                /\ (verify = "off" \/ registered[n].raced \/ origin.torn)
  BY <1>2 DEF DvInv, DvRows, DvRowOk, DvMissed, DvMoved
<1>3. FaithfulReads
  BY <1>1, <1>2 DEF FaithfulReads
<1>4. ASSUME NEW c \in Clients, op[c].kind = "refused"
      PROVE  /\ ~store.pins
             /\ Now # registered[SourceOf(op[c].name)].gen
  <2>1. DvReads(op[c].name) /\ DvMoved(registered[SourceOf(op[c].name)])
    BY <1>4, DvTypesOf DEF DvOpOk, DvRefused
  <2>2. registered[SourceOf(op[c].name)].gen \in 1..Now
    BY <2>1, DvRowRead DEF DvReference
  <2> QED
    BY <2>1, <2>2, DvTypesOf DEF DvMoved
<1>5. NoFalseAlarm
  BY <1>4 DEF NoFalseAlarm
<1> QED
  BY <1>3, <1>5 DEF ReadsAreRight

\* Whatever the adapter, the mode of verification and the object's owner do, and
\* however many requests read and register at once: a reader gets the registered
\* rows but for the named cases, and an error only when the object was overwritten
\* (access.py _check_unchanged, _iter_reference, verify).
THEOREM DvAlwaysRight == VersionsSpec => []ReadsAreRight
<1>1. VersionsSpec => []DvInv
  BY DvInitial, DvStep, PTL DEF VersionsSpec
<1> QED
  BY <1>1, DvAnswers, PTL

-----------------------------------------------------------------------------
(***************************************************************************)
(* DataLineage: DlAnswersHold.  Committed rows only grow, and the inserts   *)
(* of two transactions that are under way are never of one name.            *)
(***************************************************************************)

DlAfter == {"link", "join", "commit"}

DlKnown(n) == dlRows[n] # DlNone

DlOpen == [at : {"dataset", "create", "version", "insert"} \cup DlAfter,
           kind : {"upload", "current"}, name : DlAllNames, digest : DlDigests,
           parent : DlNames \cup {DlNone}, link : BOOLEAN, dataset : BOOLEAN, row : BOOLEAN,
           linked : BOOLEAN]

\* What a transaction has found out is still so.
DlTxOk(t) ==
    t.at # "idle" =>
        /\ t \in DlOpen
        /\ t.row => t.at \in DlAfter
        /\ t.row => dlRows[t.name] = DlNone
        /\ t.row \/ t.at = "insert" => DlParentKnown(t.parent)
        /\ t.at \in DlAfter /\ ~t.row => DlKnown(t.name) /\ dlRows[t.name].digest = t.digest
        /\ t.linked => t.at = "commit"
        /\ t.link => t.at # "commit" \/ t.linked \/ t.name \in dlLinks

DlTxs ==
    /\ dlTx = [c \in DlClients |-> dlTx[c]]
    /\ \A c \in DlClients : DlTxOk(dlTx[c])
    /\ \A c, d \in DlClients :
          c # d /\ dlTx[c].at # "idle" /\ dlTx[d].at # "idle" /\ dlTx[c].row /\ dlTx[d].row
            => dlTx[c].name # dlTx[d].name

\* The rows that are committed were audited, each once and after its parent.
DlHistory ==
    /\ dlRows = [n \in DlAllNames |-> dlRows[n]]
    /\ dlAudit \in Seq(DlAllNames)
    /\ \A i, j \in 1..Len(dlAudit) : dlAudit[i] = dlAudit[j] => i = j
    /\ \A n \in DlAllNames : DlKnown(n) <=> \E i \in 1..Len(dlAudit) : dlAudit[i] = n
    /\ \A n \in DlAllNames : DlKnown(n) /\ dlRows[n].parent # DlNone =>
          \E i, j \in 1..Len(dlAudit) : dlAudit[i] = dlRows[n].parent /\ dlAudit[j] = n /\ i < j

DlPromises ==
    /\ \A t \in dlTold : /\ t.name \in DlAllNames /\ DlKnown(t.name)
                         /\ dlRows[t.name].digest = t.digest
                         /\ t.link => t.name \in dlLinks
    /\ dlLinks \cup dlFrozen \subseteq {n \in DlAllNames : DlKnown(n)}

DlInv == DlTxs /\ DlHistory /\ DlPromises

\* A row is something.
LEMMA DlRowIs ==
    ASSUME NEW t \in DlOpen
    PROVE  [digest |-> t.digest, parent |-> t.parent] # DlNone
  BY DlAssumption DEF DlOpen

\* Nothing is there at first.
LEMMA DlInitial == DlInit => DlInv
<1> SUFFICES ASSUME DlInit PROVE DlInv
  OBVIOUS
<1>1. \A c \in DlClients : dlTx[c].at = "idle"
  BY DEF DlInit, DlIdle
<1>2. DlTxs
  <2>1. dlTx = [c \in DlClients |-> dlTx[c]]
    BY DEF DlInit
  <2>2. \A c \in DlClients : DlTxOk(dlTx[c])
    BY <1>1 DEF DlTxOk
  <2> QED
    BY <1>1, <2>1, <2>2 DEF DlTxs
<1>3. DlHistory
  <2>1. dlRows = [n \in DlAllNames |-> dlRows[n]]
    BY DEF DlInit
  <2>2. dlAudit \in Seq(DlAllNames) /\ Len(dlAudit) = 0
    BY DEF DlInit
  <2>3. \A n \in DlAllNames : ~DlKnown(n)
    BY DEF DlInit, DlKnown
  <2> QED
    BY <2>1, <2>2, <2>3 DEF DlHistory
<1>4. DlPromises
  BY DEF DlInit, DlPromises
<1> QED
  BY <1>2, <1>3, <1>4 DEF DlInv

\* A step of one transaction before its commit.
LEMMA DlOneTx ==
    ASSUME DlInv, NEW c \in DlClients, NEW t,
           dlTx' = [dlTx EXCEPT ![c] = t], UNCHANGED <<dlRows, dlLinks, dlAudit, dlFrozen, dlTold>>,
           DlTxOk(t),
           t.at # "idle" /\ t.row =>
               \A d \in DlClients \ {c} : dlTx[d].at # "idle" /\ dlTx[d].row => dlTx[d].name # t.name
    PROVE  DlInv'
<1>1. /\ dlTx = [d \in DlClients |-> dlTx[d]]
      /\ \A d \in DlClients : DlTxOk(dlTx[d])
  BY DEF DlInv, DlTxs
<1>2. /\ dlTx' = [d \in DlClients |-> dlTx'[d]]
      /\ dlTx'[c] = t /\ \A d \in DlClients \ {c} : dlTx'[d] = dlTx[d]
  BY <1>1
<1>3. ASSUME NEW d \in DlClients
      PROVE  DlTxOk(dlTx[d])'
  <2>1. PICK u : u = dlTx'[d]
    OBVIOUS
  <2>2. DlTxOk(u)
    BY <1>1, <1>2, <2>1
  <2>3. DlTxOk(u)'
    BY <2>2 DEF DlTxOk, DlParentKnown, DlKnown
  <2> QED
    BY <2>1, <2>3 DEF DlTxOk
<1>4. ASSUME NEW d \in DlClients, NEW e \in DlClients, d # e,
             dlTx'[d].at # "idle", dlTx'[e].at # "idle", dlTx'[d].row, dlTx'[e].row
      PROVE  dlTx'[d].name # dlTx'[e].name
  BY <1>2, <1>4 DEF DlInv, DlTxs
<1>5. DlTxs'
  BY <1>2, <1>3, <1>4 DEF DlTxs
<1>6. DlHistory' /\ DlPromises'
  BY DEF DlInv, DlHistory, DlPromises, DlKnown
<1> QED
  BY <1>5, <1>6 DEF DlInv

\* A transaction that is rolled back leaves nothing.
LEMMA DlUndone ==
    ASSUME DlInv, NEW c \in DlClients, DlRollback(c),
           UNCHANGED <<dlRows, dlLinks, dlAudit, dlFrozen, dlTold>>
    PROVE  DlInv'
<1>1. DlIdle.at = "idle"
  BY DEF DlIdle
<1>2. DlTxOk(DlIdle)
  BY <1>1 DEF DlTxOk
<1> QED
  BY <1>1, <1>2, DlOneTx DEF DlRollback

\* What a transaction that moves on keeps.
LEMMA DlMovedOn ==
    ASSUME DlInv, NEW c \in DlClients, dlTx[c].at # "idle", NEW place
    PROVE  /\ dlTx[c] \in DlOpen /\ DlTxOk(dlTx[c])
           /\ DlTo(c, place) => dlTx' = [dlTx EXCEPT ![c] = [dlTx[c] EXCEPT !.at = place]]
           /\ \A u : u = [dlTx[c] EXCEPT !.at = place] =>
                 /\ u.at = place /\ u.kind = dlTx[c].kind /\ u.name = dlTx[c].name
                 /\ u.digest = dlTx[c].digest /\ u.parent = dlTx[c].parent
                 /\ u.link = dlTx[c].link /\ u.row = dlTx[c].row /\ u.linked = dlTx[c].linked
                 /\ place \in {"dataset", "create", "version", "insert"} \cup DlAfter => u \in DlOpen
<1>1. dlTx[c] \in DlOpen /\ DlTxOk(dlTx[c]) /\ dlTx = [d \in DlClients |-> dlTx[d]]
  BY DEF DlInv, DlTxs, DlTxOk
<1>2. DlTo(c, place) => dlTx' = [dlTx EXCEPT ![c] = [dlTx[c] EXCEPT !.at = place]]
  BY <1>1 DEF DlTo
<1> QED
  BY <1>1, <1>2 DEF DlOpen

\* A transaction that moves on with what it has found out.
LEMMA DlAdvance ==
    ASSUME DlInv, NEW c \in DlClients, dlTx[c].at # "idle",
           NEW place \in {"dataset", "create", "version", "insert"} \cup DlAfter,
           DlTo(c, place), UNCHANGED <<dlRows, dlLinks, dlAudit, dlFrozen, dlTold>>,
           dlTx[c].row => place \in DlAfter,
           place = "insert" => DlParentKnown(dlTx[c].parent),
           place \in DlAfter /\ ~dlTx[c].row =>
               DlKnown(dlTx[c].name) /\ dlRows[dlTx[c].name].digest = dlTx[c].digest,
           dlTx[c].linked => place = "commit",
           dlTx[c].link /\ place = "commit" => dlTx[c].linked \/ dlTx[c].name \in dlLinks
    PROVE  DlInv'
<1>1. PICK u : u = [dlTx[c] EXCEPT !.at = place]
  OBVIOUS
<1>2. /\ DlTxOk(dlTx[c]) /\ dlTx' = [dlTx EXCEPT ![c] = u]
      /\ u.at = place /\ u.name = dlTx[c].name
      /\ u.digest = dlTx[c].digest /\ u.parent = dlTx[c].parent
      /\ u.link = dlTx[c].link /\ u.row = dlTx[c].row /\ u.linked = dlTx[c].linked
      /\ u \in DlOpen
  BY <1>1, DlMovedOn
<1>3. DlTxOk(u)
  BY <1>2 DEF DlTxOk
<1>4. u.at # "idle" /\ u.row =>
          \A d \in DlClients \ {c} : dlTx[d].at # "idle" /\ dlTx[d].row => dlTx[d].name # u.name
  BY <1>2 DEF DlInv, DlTxs
<1> QED
  BY <1>2, <1>3, <1>4, DlOneTx

\* A transaction begins with nothing.
LEMMA DlBegun ==
    ASSUME DlInv, NEW c \in DlClients, DlUpload(c) \/ DlPersist(c)
    PROVE  DlInv'
<1>1. \E kind \in {"upload", "current"}, name \in DlAllNames, digest \in DlDigests,
        parent \in DlNames \cup {DlNone}, link \in BOOLEAN : DlBegin(c, kind, name, digest, parent, link)
  BY DEF DlUpload, DlPersist, DlAllNames, DlDigests, DlCurrentName
<1>2. PICK kind \in {"upload", "current"}, name \in DlAllNames, digest \in DlDigests,
        parent \in DlNames \cup {DlNone}, link \in BOOLEAN : DlBegin(c, kind, name, digest, parent, link)
  BY <1>1
<1>3. PICK t : t = [at |-> "dataset", kind |-> kind, name |-> name, digest |-> digest,
            parent |-> parent, link |-> link, dataset |-> FALSE, row |-> FALSE, linked |-> FALSE]
  OBVIOUS
<1>4. /\ t \in DlOpen /\ t.at = "dataset" /\ ~t.row /\ ~t.linked
  BY <1>3 DEF DlOpen
<1>5. DlTxOk(t)
  BY <1>4 DEF DlTxOk, DlAfter
<1>6. dlTx' = [dlTx EXCEPT ![c] = t] /\ UNCHANGED <<dlRows, dlLinks, dlAudit, dlFrozen, dlTold>>
  BY <1>2, <1>3 DEF DlBegin, dlTables
<1> QED
  BY <1>4, <1>5, <1>6, DlOneTx

\* The dataset row.
LEMMA DlOfDataset ==
    ASSUME DlInv, NEW c \in DlClients, DlFindDataset(c) \/ DlCreateDataset(c)
    PROVE  DlInv'
<1>1. dlTx[c].at \in {"dataset", "create"} /\ UNCHANGED <<dlRows, dlLinks, dlAudit, dlFrozen, dlTold>>
  BY DEF DlFindDataset, DlCreateDataset, dlTables
<1>2. /\ DlTxOk(dlTx[c]) /\ dlTx[c] \in DlOpen /\ ~dlTx[c].row /\ ~dlTx[c].linked
  BY <1>1, DlMovedOn DEF DlTxOk, DlAfter
<1>3. CASE DlFindDataset(c)
  <2>1. PICK place \in {"version", "create"} : DlTo(c, place)
    BY <1>3 DEF DlFindDataset
  <2> QED
    BY <1>1, <1>2, <2>1, DlAdvance DEF DlAfter
<1>4. CASE DlCreateDataset(c)
  <2>1. CASE DlRollback(c)
    BY <1>1, <2>1, DlUndone
  <2>2. CASE ~DlRollback(c)
    <3>1. PICK t : t = [dlTx[c] EXCEPT !.at = "version", !.dataset = TRUE]
      OBVIOUS
    <3>2. dlTx' = [dlTx EXCEPT ![c] = t]
      BY <1>4, <2>2, <3>1 DEF DlCreateDataset
    <3>3. t \in DlOpen /\ t.at = "version" /\ t.row = dlTx[c].row /\ t.linked = dlTx[c].linked
      BY <1>2, <3>1 DEF DlOpen
    <3>4. DlTxOk(t)
      BY <1>2, <3>3 DEF DlTxOk, DlAfter
    <3> QED
      BY <1>1, <1>2, <3>2, <3>3, <3>4, DlOneTx
  <2> QED
    BY <2>1, <2>2
<1> QED
  BY <1>3, <1>4

\* The version is there with its digest, or free and its parent there.
LEMMA DlOfFind ==
    ASSUME DlInv, NEW c \in DlClients, DlFindVersion(c)
    PROVE  DlInv'
<1>1. dlTx[c].at = "version" /\ UNCHANGED <<dlRows, dlLinks, dlAudit, dlFrozen, dlTold>>
  BY DEF DlFindVersion, dlTables
<1>2. DlTxOk(dlTx[c]) /\ dlTx[c] \in DlOpen /\ ~dlTx[c].row /\ ~dlTx[c].linked
  BY <1>1, DlMovedOn DEF DlTxOk, DlAfter
<1>3. CASE ~DlKnown(dlTx[c].name) /\ DlParentKnown(dlTx[c].parent)
  <2>1. DlTo(c, "insert")
    BY <1>3 DEF DlFindVersion, DlKnown
  <2> QED
    BY <1>1, <1>2, <1>3, <2>1, DlAdvance DEF DlAfter
<1>4. CASE DlKnown(dlTx[c].name) /\ ~DlConflicting(dlRows[dlTx[c].name], dlTx[c].digest)
  <2>1. PICK place : place = DlAfterVersion(c)
    OBVIOUS
  <2>2. DlTo(c, place)
    BY <1>4, <2>1 DEF DlFindVersion, DlKnown
  <2>3. place \in {"link", "commit"} /\ (dlTx[c].link => place = "link")
    BY <2>1 DEF DlAfterVersion
  <2>4. dlRows[dlTx[c].name].digest = dlTx[c].digest
    BY <1>4 DEF DlConflicting
  <2> QED
    BY <1>1, <1>2, <1>4, <2>2, <2>3, <2>4, DlAdvance DEF DlAfter
<1>5. CASE \/ ~DlKnown(dlTx[c].name) /\ ~DlParentKnown(dlTx[c].parent)
           \/ DlKnown(dlTx[c].name) /\ DlConflicting(dlRows[dlTx[c].name], dlTx[c].digest)
  <2>1. DlRollback(c)
    BY <1>5 DEF DlFindVersion, DlKnown
  <2> QED
    BY <1>1, <2>1, DlUndone
<1> QED
  BY <1>3, <1>4, <1>5

\* The row is inserted while nobody else has inserted one of that name.
LEMMA DlOfInsert ==
    ASSUME DlInv, NEW c \in DlClients, DlInsertVersion(c)
    PROVE  DlInv'
<1>1. dlTx[c].at = "insert" /\ UNCHANGED <<dlRows, dlLinks, dlAudit, dlFrozen, dlTold>>
  BY DEF DlInsertVersion, dlTables
<1>2. /\ DlTxOk(dlTx[c]) /\ dlTx[c] \in DlOpen /\ ~dlTx[c].row /\ ~dlTx[c].linked
      /\ DlParentKnown(dlTx[c].parent)
  BY <1>1, DlMovedOn DEF DlTxOk, DlAfter
<1>3. CASE dlRows[dlTx[c].name] # DlNone
  BY <1>1, <1>3, DlUndone DEF DlInsertVersion
<1>4. CASE dlRows[dlTx[c].name] = DlNone
  <2>1. PICK place : place = DlAfterVersion(c)
    OBVIOUS
  <2>2. place \in {"link", "commit"} /\ (dlTx[c].link => place = "link")
    BY <2>1 DEF DlAfterVersion
  <2>3. PICK t : t = [dlTx[c] EXCEPT !.at = place, !.row = TRUE]
    OBVIOUS
  <2>4. dlTx' = [dlTx EXCEPT ![c] = t]
    BY <1>4, <2>1, <2>3 DEF DlInsertVersion
  <2>5. /\ t \in DlOpen /\ t.at = place /\ t.name = dlTx[c].name /\ t.parent = dlTx[c].parent
        /\ t.link = dlTx[c].link /\ t.linked = dlTx[c].linked /\ t.row
    BY <1>2, <2>2, <2>3 DEF DlOpen, DlAfter
  <2>6. DlTxOk(t)
    BY <1>2, <1>4, <2>2, <2>5 DEF DlTxOk, DlAfter
  <2>7. \A d \in DlClients \ {c} : dlTx[d].at # "idle" /\ dlTx[d].row => dlTx[d].name # t.name
    <3>1. ASSUME NEW d \in DlClients, dlTx[d].at # "idle" PROVE dlTx[d] # DlIdle
      BY <3>1 DEF DlIdle
    <3> QED
      BY <2>5, <3>1 DEF DlInsertVersion
  <2> QED
    BY <1>1, <2>4, <2>6, <2>7, DlOneTx
<1> QED
  BY <1>3, <1>4

\* The link.
LEMMA DlOfLink ==
    ASSUME DlInv, NEW c \in DlClients, DlFindLink(c) \/ DlInsertLink(c)
    PROVE  DlInv'
<1>1. dlTx[c].at \in {"link", "join"} /\ UNCHANGED <<dlRows, dlLinks, dlAudit, dlFrozen, dlTold>>
  BY DEF DlFindLink, DlInsertLink, dlTables
<1>2. /\ DlTxOk(dlTx[c]) /\ dlTx[c] \in DlOpen /\ ~dlTx[c].linked
      /\ ~dlTx[c].row => DlKnown(dlTx[c].name) /\ dlRows[dlTx[c].name].digest = dlTx[c].digest
  BY <1>1, DlMovedOn DEF DlTxOk, DlAfter
<1>3. CASE DlRollback(c)
  BY <1>1, <1>3, DlUndone
<1>4. CASE DlFindLink(c) /\ ~DlRollback(c)
  <2>1. PICK place : place = IF dlTx[c].name \in dlLinks THEN "commit" ELSE "join"
    OBVIOUS
  <2>2. DlTo(c, place)
    BY <1>4, <2>1 DEF DlFindLink
  <2>3. place \in {"commit", "join"} /\ (place = "commit" => dlTx[c].name \in dlLinks)
    BY <2>1
  <2> QED
    BY <1>1, <1>2, <2>2, <2>3, DlAdvance DEF DlAfter
<1>5. CASE DlInsertLink(c) /\ ~DlRollback(c)
  <2>1. PICK t : t = [dlTx[c] EXCEPT !.at = "commit", !.linked = TRUE]
    OBVIOUS
  <2>2. dlTx' = [dlTx EXCEPT ![c] = t]
    BY <1>5, <2>1 DEF DlInsertLink
  <2>3. /\ t \in DlOpen /\ t.at = "commit" /\ t.name = dlTx[c].name /\ t.parent = dlTx[c].parent
        /\ t.digest = dlTx[c].digest /\ t.link = dlTx[c].link /\ t.linked /\ t.row = dlTx[c].row
    BY <1>2, <2>1 DEF DlOpen, DlAfter
  <2>4. DlTxOk(t)
    BY <1>1, <1>2, <2>3 DEF DlTxOk, DlAfter
  <2>5. t.row => \A d \in DlClients \ {c} : dlTx[d].at # "idle" /\ dlTx[d].row => dlTx[d].name # t.name
    BY <1>1, <2>3 DEF DlInv, DlTxs
  <2> QED
    BY <1>1, <2>2, <2>4, <2>5, DlOneTx
<1> QED
  BY <1>3, <1>4, <1>5

\* A commit makes the transaction's row, link and answer part of the tables.
LEMMA DlCommitted ==
    ASSUME DlInv, NEW c \in DlClients, DlCommit(c)
    PROVE  DlInv'
<1>1. PICK t : t = dlTx[c]
  OBVIOUS
<1>2. /\ t.at = "commit" /\ DlTxOk(t) /\ t \in DlOpen
  BY <1>1, DlMovedOn DEF DlCommit
<1>3. PICK row : row = [digest |-> t.digest, parent |-> t.parent]
  OBVIOUS
<1>4. row # DlNone /\ row.digest = t.digest /\ row.parent = t.parent
  BY <1>2, <1>3, DlRowIs
<1>5. /\ dlRows' = IF t.row THEN [dlRows EXCEPT ![t.name] = row] ELSE dlRows
      /\ dlLinks' = IF t.linked THEN dlLinks \cup {t.name} ELSE dlLinks
      /\ dlAudit' = IF t.row THEN Append(dlAudit, t.name) ELSE dlAudit
      /\ dlFrozen' = IF t.kind = "current" THEN dlFrozen \cup {t.name} ELSE dlFrozen
      /\ dlTold' = dlTold \cup {[name |-> t.name, digest |-> t.digest, link |-> t.link]}
      /\ dlTx' = [dlTx EXCEPT ![c] = DlIdle]
  BY <1>1, <1>3 DEF DlCommit, DlAudited
<1>6. /\ t.name \in DlAllNames
      /\ t.row => dlRows[t.name] = DlNone /\ DlParentKnown(t.parent)
      /\ ~t.row => DlKnown(t.name) /\ dlRows[t.name].digest = t.digest
      /\ t.link => t.linked \/ t.name \in dlLinks
  BY <1>2 DEF DlTxOk, DlAfter, DlOpen
<1>7. dlRows = [n \in DlAllNames |-> dlRows[n]]
  BY DEF DlInv, DlHistory
<1>8. /\ dlRows' = [n \in DlAllNames |-> dlRows'[n]]
      /\ t.row => dlRows'[t.name] = row
      /\ \A n \in DlAllNames : n # t.name => dlRows'[n] = dlRows[n]
      /\ ~t.row => dlRows' = dlRows
  BY <1>5, <1>6, <1>7
<1>9. \A n \in DlAllNames : DlKnown(n) => DlKnown(n)' /\ dlRows'[n] = dlRows[n]
  BY <1>6, <1>8 DEF DlKnown
<1>10. \A n \in DlAllNames : DlKnown(n)' => DlKnown(n) \/ (t.row /\ n = t.name)
  BY <1>8 DEF DlKnown
<1>11. DlKnown(t.name)' /\ dlRows'[t.name].digest = t.digest
  BY <1>4, <1>6, <1>8 DEF DlKnown
<1>12. DlTxs'
  <2>1. /\ dlTx = [d \in DlClients |-> dlTx[d]]
        /\ \A d \in DlClients : DlTxOk(dlTx[d])
    BY DEF DlInv, DlTxs
  <2>2. /\ dlTx' = [d \in DlClients |-> dlTx'[d]]
        /\ dlTx'[c] = DlIdle /\ \A d \in DlClients \ {c} : dlTx'[d] = dlTx[d]
    BY <1>5, <2>1
  <2>3. DlIdle.at = "idle"
    BY DEF DlIdle
  <2>4. ASSUME NEW d \in DlClients
        PROVE  DlTxOk(dlTx[d])'
    <3>1. CASE d = c
      BY <2>2, <2>3, <3>1 DEF DlTxOk
    <3>2. CASE d # c
      <4>1. PICK u : u = dlTx[d]
        OBVIOUS
      <4>2. DlTxOk(u) /\ u = dlTx'[d]
        BY <2>1, <2>2, <3>2, <4>1
      <4>3. u.at # "idle" /\ u.row /\ t.row => u.name # t.name
        BY <1>1, <1>2, <3>2, <4>1 DEF DlInv, DlTxs
      <4>4. ASSUME u.at # "idle"
            PROVE  /\ u \in DlOpen
                   /\ u.row => u.at \in DlAfter
                   /\ u.row => dlRows'[u.name] = DlNone
                   /\ u.row \/ u.at = "insert" => DlParentKnown(u.parent)'
                   /\ u.at \in DlAfter /\ ~u.row => DlKnown(u.name)' /\ dlRows'[u.name].digest = u.digest
                   /\ u.linked => u.at = "commit"
                   /\ u.link => u.at # "commit" \/ u.linked \/ u.name \in dlLinks'
        <5>1. u \in DlOpen /\ u.name \in DlAllNames /\ (u.parent \in DlAllNames \/ u.parent = DlNone)
          BY <4>2, <4>4 DEF DlTxOk, DlOpen, DlAllNames
        <5>2. u.row => dlRows'[u.name] = DlNone
          BY <1>8, <4>2, <4>3, <4>4, <5>1 DEF DlTxOk
        <5>3. u.row \/ u.at = "insert" => DlParentKnown(u.parent)'
          BY <1>9, <4>2, <4>4, <5>1 DEF DlTxOk, DlParentKnown, DlKnown
        <5>4. u.at \in DlAfter /\ ~u.row => DlKnown(u.name)' /\ dlRows'[u.name].digest = u.digest
          BY <1>9, <4>2, <4>4, <5>1 DEF DlTxOk
        <5>5. u.link => u.at # "commit" \/ u.linked \/ u.name \in dlLinks'
          BY <1>5, <4>2, <4>4 DEF DlTxOk
        <5> QED
          BY <4>2, <4>4, <5>1, <5>2, <5>3, <5>4, <5>5 DEF DlTxOk
      <4> QED
        BY <4>2, <4>4 DEF DlTxOk
    <3> QED
      BY <3>1, <3>2
  <2>5. ASSUME NEW d \in DlClients, NEW e \in DlClients, d # e,
               dlTx'[d].at # "idle", dlTx'[e].at # "idle", dlTx'[d].row, dlTx'[e].row
        PROVE  dlTx'[d].name # dlTx'[e].name
    BY <2>2, <2>3, <2>5 DEF DlInv, DlTxs
  <2> QED
    BY <2>2, <2>4, <2>5 DEF DlTxs
<1>13. DlHistory'
  <2>1. /\ dlAudit \in Seq(DlAllNames)
        /\ \A i, j \in 1..Len(dlAudit) : dlAudit[i] = dlAudit[j] => i = j
        /\ \A n \in DlAllNames : DlKnown(n) <=> \E i \in 1..Len(dlAudit) : dlAudit[i] = n
        /\ \A n \in DlAllNames : DlKnown(n) /\ dlRows[n].parent # DlNone =>
              \E i, j \in 1..Len(dlAudit) : dlAudit[i] = dlRows[n].parent /\ dlAudit[j] = n /\ i < j
    BY DEF DlInv, DlHistory
  <2>2. CASE ~t.row
    BY <1>5, <1>8, <2>2 DEF DlInv, DlHistory, DlKnown
  <2>3. CASE t.row
    <3>1. PICK l \in Nat : l = Len(dlAudit)
      BY <2>1
    <3>2. /\ dlAudit' \in Seq(DlAllNames) /\ Len(dlAudit') = l + 1
          /\ dlAudit'[l + 1] = t.name
          /\ \A i \in 1..l : dlAudit'[i] = dlAudit[i]
      BY <1>5, <1>6, <2>1, <2>3, <3>1
    <3>3. \A i \in 1..l : dlAudit[i] # t.name
      BY <1>6, <2>1, <2>3, <3>1 DEF DlKnown
    <3>4. \A i, j \in 1..Len(dlAudit') : dlAudit'[i] = dlAudit'[j] => i = j
      <4>1. ASSUME NEW i \in 1..(l + 1), NEW j \in 1..(l + 1), dlAudit'[i] = dlAudit'[j]
            PROVE  i = j
        <5>1. CASE i \in 1..l /\ j \in 1..l
          BY <2>1, <3>1, <3>2, <4>1, <5>1
        <5>2. CASE i = l + 1 /\ j \in 1..l
          BY <3>2, <3>3, <4>1, <5>2
        <5>3. CASE i \in 1..l /\ j = l + 1
          BY <3>2, <3>3, <4>1, <5>3
        <5> QED
          BY <3>1, <5>1, <5>2, <5>3
      <4> QED
        BY <3>2, <4>1
    <3>5. ASSUME NEW n \in DlAllNames
          PROVE  DlKnown(n)' <=> \E i \in 1..Len(dlAudit') : dlAudit'[i] = n
      <4>1. CASE n = t.name
        <5>1. l + 1 \in 1..Len(dlAudit')
          BY <3>2
        <5> QED
          BY <1>11, <3>2, <4>1, <5>1
      <4>2. CASE n # t.name
        <5>1. DlKnown(n)' <=> DlKnown(n)
          BY <1>9, <1>10, <4>2
        <5>2. ASSUME NEW i \in 1..(l + 1), dlAudit'[i] = n PROVE i \in 1..l /\ dlAudit[i] = n
          <6>1. i # l + 1
            BY <3>2, <4>2, <5>2
          <6> QED
            BY <3>2, <5>2, <6>1
        <5>3. (\E i \in 1..Len(dlAudit') : dlAudit'[i] = n) <=> \E i \in 1..l : dlAudit[i] = n
          BY <3>2, <5>2
        <5> QED
          BY <2>1, <3>1, <5>1, <5>3
      <4> QED
        BY <4>1, <4>2
    <3>6. ASSUME NEW n \in DlAllNames, DlKnown(n)', dlRows'[n].parent # DlNone
          PROVE  \E i, j \in 1..Len(dlAudit') :
                     dlAudit'[i] = dlRows'[n].parent /\ dlAudit'[j] = n /\ i < j
      <4>1. CASE n = t.name
        <5>1. dlRows'[n].parent = t.parent /\ DlParentKnown(t.parent)
          BY <1>4, <1>6, <1>8, <2>3, <4>1
        <5>2. t.parent \in DlAllNames /\ DlKnown(t.parent)
          BY <1>2, <3>6, <5>1 DEF DlParentKnown, DlOpen, DlAllNames, DlKnown
        <5>3. PICK i \in 1..l : dlAudit[i] = t.parent
          BY <2>1, <3>1, <5>2
        <5>4. /\ i \in 1..Len(dlAudit') /\ l + 1 \in 1..Len(dlAudit') /\ i < l + 1
              /\ dlAudit'[i] = t.parent
          BY <3>2, <5>3
        <5> QED
          BY <3>2, <4>1, <5>1, <5>4
      <4>2. CASE n # t.name
        <5>1. DlKnown(n) /\ dlRows'[n] = dlRows[n]
          BY <1>8, <1>10, <3>6, <4>2
        <5>2. PICK i \in 1..l, j \in 1..l : dlAudit[i] = dlRows[n].parent /\ dlAudit[j] = n /\ i < j
          BY <2>1, <3>1, <3>6, <5>1
        <5>3. /\ i \in 1..Len(dlAudit') /\ j \in 1..Len(dlAudit')
              /\ dlAudit'[i] = dlAudit[i] /\ dlAudit'[j] = dlAudit[j]
          BY <3>2, <5>2
        <5> QED
          BY <5>1, <5>2, <5>3
      <4> QED
        BY <4>1, <4>2
    <3> QED
      BY <1>8, <3>2, <3>4, <3>5, <3>6 DEF DlHistory
  <2> QED
    BY <2>2, <2>3
<1>14. DlPromises'
  <2>1. ASSUME NEW u \in dlTold'
        PROVE  /\ u.name \in DlAllNames /\ DlKnown(u.name)' /\ dlRows'[u.name].digest = u.digest
               /\ u.link => u.name \in dlLinks'
    <3>1. CASE u \in dlTold
      <4>1. /\ u.name \in DlAllNames /\ DlKnown(u.name) /\ dlRows[u.name].digest = u.digest
            /\ u.link => u.name \in dlLinks
        BY <3>1 DEF DlInv, DlPromises
      <4> QED
        BY <1>5, <1>9, <4>1
    <3>2. CASE u = [name |-> t.name, digest |-> t.digest, link |-> t.link]
      <4>1. u.name = t.name /\ u.digest = t.digest /\ u.link = t.link
        BY <3>2
      <4>2. t.link => t.name \in dlLinks'
        BY <1>5, <1>6
      <4> QED
        BY <1>6, <1>11, <4>1, <4>2
    <3> QED
      BY <1>5, <2>1, <3>1, <3>2
  <2>2. dlLinks' \cup dlFrozen' \subseteq {n \in DlAllNames : DlKnown(n)'}
    <3>1. dlLinks' \cup dlFrozen' \subseteq dlLinks \cup dlFrozen \cup {t.name}
      BY <1>5
    <3>2. \A n \in dlLinks \cup dlFrozen : n \in DlAllNames /\ DlKnown(n)
      BY DEF DlInv, DlPromises
    <3> QED
      BY <1>6, <1>9, <1>11, <3>1, <3>2
  <2> QED
    BY <2>1, <2>2 DEF DlPromises
<1> QED
  BY <1>12, <1>13, <1>14 DEF DlInv

\* Every step keeps the invariant.
LEMMA DlStep == DlInv /\ [DlNext]_dlVars => DlInv'
<1> SUFFICES ASSUME DlInv, [DlNext]_dlVars PROVE DlInv'
  OBVIOUS
<1>1. CASE DlOnboard \/ UNCHANGED dlVars
  <2>1. UNCHANGED <<dlRows, dlLinks, dlAudit, dlFrozen, dlTold, dlTx>>
    BY <1>1 DEF DlOnboard, dlVars
  <2> QED
    BY <2>1 DEF DlInv, DlTxs, DlTxOk, DlParentKnown, DlHistory, DlPromises, DlKnown
<1>2. ASSUME NEW c \in DlClients, DlFails(c) PROVE DlInv'
  BY <1>2, DlUndone DEF DlFails, dlTables
<1> QED
  BY <1>1, <1>2, DlBegun, DlOfDataset, DlOfFind, DlOfInsert, DlOfLink, DlCommitted DEF DlNext

\* The lineage of a version: a parent, if any, at every step, all of them there.
LEMMA DlLineageSteps ==
    ASSUME DlInv, NEW n \in DlAllNames, DlKnown(n)
    PROVE  /\ DlLineage(n)[0] = n
           /\ \A i \in 0 .. Len(dlAudit) :
                 DlLineage(n)[i] # DlNone => DlLineage(n)[i] \in DlAllNames /\ DlKnown(DlLineage(n)[i])
           /\ \A i \in 1 .. Len(dlAudit) :
                 DlLineage(n)[i] = IF DlLineage(n)[i - 1] = DlNone THEN DlNone
                                   ELSE dlRows[DlLineage(n)[i - 1]].parent
<1> DEFINE S == {x \in DlAllNames : DlKnown(x)} \cup {DlNone}
           m == Len(dlAudit)
           F == [p \in (1 .. m) \X S |-> IF p[2] = DlNone THEN DlNone ELSE dlRows[p[2]].parent]
           IsLineage(f) == f = [i \in 0 .. m |->
                                  IF i = 0 THEN n
                                  ELSE IF f[i - 1] = DlNone THEN DlNone ELSE dlRows[f[i - 1]].parent]
<1>1. m \in Nat
  BY DEF DlInv, DlHistory
<1>2. ASSUME NEW x \in S, x # DlNone PROVE dlRows[x].parent \in S
  <2>1. CASE dlRows[x].parent # DlNone
    <3>1. PICK i \in 1..Len(dlAudit) : dlAudit[i] = dlRows[x].parent
      BY <1>2, <2>1 DEF DlInv, DlHistory
    <3>2. dlAudit[i] \in DlAllNames
      BY DEF DlInv, DlHistory
    <3> QED
      BY <3>1, <3>2 DEF DlInv, DlHistory
  <2> QED
    BY <2>1
<1>3. \A i \in 1 .. m : \A x \in S : F[<<i, x>>] \in S
  BY <1>2
<1>4. PICK f : IsLoop(f, m, S, n, F)
  <2>1. n \in S
    OBVIOUS
  <2> HIDE DEF F, S
  <2> QED
    BY <1>1, <1>3, <2>1, Loop
<1>5. \A i \in 1 .. m : f[i] = IF f[i - 1] = DlNone THEN DlNone ELSE dlRows[f[i - 1]].parent
  <2>1. \A i \in 1 .. m : f[i - 1] \in S
    BY <1>1, <1>4 DEF IsLoop
  <2>2. \A i \in 1 .. m, x \in S : F[<<i, x>>] = IF x = DlNone THEN DlNone ELSE dlRows[x].parent
    OBVIOUS
  <2> HIDE DEF F, S
  <2> QED
    BY <1>4, <2>1, <2>2 DEF IsLoop
<1>6. IsLineage(f)
  <2>1. f = [i \in 0 .. m |-> f[i]] /\ f[0] = n
    BY <1>4 DEF IsLoop
  <2>2. \A i \in 0 .. m : i = 0 \/ i \in 1 .. m
    BY <1>1
  <2>3. \A i \in 0 .. m : f[i] = IF i = 0 THEN n
                                 ELSE IF f[i - 1] = DlNone THEN DlNone ELSE dlRows[f[i - 1]].parent
    BY <2>1, <1>5, <2>2
  <2> QED
    BY <2>1, <2>3
<1>7. DlLineage(n) = CHOOSE g : IsLineage(g)
  BY DEF DlLineage
<1>8. IsLineage(DlLineage(n))
  <2> HIDE DEF IsLineage
  <2> QED
    BY <1>6, <1>7
<1>9. PICK g : g = DlLineage(n)
  OBVIOUS
<1>10. \A i \in 1 .. m : g[i] = IF g[i - 1] = DlNone THEN DlNone ELSE dlRows[g[i - 1]].parent
  BY <1>1, <1>8, <1>9
<1>11. g[0] = n
  BY <1>1, <1>8, <1>9
<1>12. \A i \in 0 .. m : g[i] \in S
  <2> DEFINE T == {i \in 0 .. m : g[i] \in S}
  <2>1. 0 \in T
    BY <1>1, <1>11
  <2>2. ASSUME NEW i \in 1 .. m, i - 1 \in T PROVE i \in T
    <3>1. g[i - 1] \in S
      BY <2>2
    <3>2. g[i] \in S
      BY <1>2, <1>10, <3>1
    <3> QED
      BY <1>1, <3>2
  <2>3. \A i \in 0 .. m : i \in T
    <3> HIDE DEF T
    <3> QED
      BY <1>1, <2>1, <2>2, UpTo
  <2> QED
    BY <2>3
<1> QED
  BY <1>9, <1>10, <1>11, <1>12

\* It ends: each step goes to a version audited earlier.
LEMMA DlLineageEnds ==
    ASSUME DlInv, NEW n \in DlAllNames, DlKnown(n)
    PROVE  /\ DlLineage(n)[Len(dlAudit)] = DlNone
           /\ \A k \in 1 .. Len(dlAudit) : DlLineage(n)[k] # DlNone =>
                 \E i, j \in 1 .. Len(dlAudit) :
                     dlAudit[i] = DlLineage(n)[k] /\ dlAudit[j] = DlLineage(n)[k - 1] /\ i < j
<1>1. PICK g, m : g = DlLineage(n) /\ m = Len(dlAudit)
  OBVIOUS
<1>2. m \in Nat
  BY <1>1 DEF DlInv, DlHistory
<1>3. /\ g[0] = n
      /\ \A i \in 0 .. m : g[i] # DlNone => g[i] \in DlAllNames /\ DlKnown(g[i])
      /\ \A i \in 1 .. m : g[i] = IF g[i - 1] = DlNone THEN DlNone ELSE dlRows[g[i - 1]].parent
  BY <1>1, DlLineageSteps
<1>4. \A x \in DlAllNames : DlKnown(x) => \E i \in 1 .. m : dlAudit[i] = x
  BY <1>1 DEF DlInv, DlHistory
<1>5. \A i, j \in 1 .. m : dlAudit[i] = dlAudit[j] => i = j
  BY <1>1 DEF DlInv, DlHistory
<1>6. ASSUME NEW k \in 1 .. m, g[k] # DlNone
      PROVE  \E i, j \in 1 .. m : dlAudit[i] = g[k] /\ dlAudit[j] = g[k - 1] /\ i < j
  <2>1. g[k - 1] # DlNone /\ g[k] = dlRows[g[k - 1]].parent /\ k - 1 \in 0 .. m
    <3>1. k - 1 \in 0 .. m
      BY <1>2
    <3>2. g[k] = IF g[k - 1] = DlNone THEN DlNone ELSE dlRows[g[k - 1]].parent
      BY <1>3
    <3> QED
      BY <1>6, <3>1, <3>2
  <2>2. g[k - 1] \in DlAllNames /\ DlKnown(g[k - 1])
    BY <1>3, <2>1
  <2>3. \A x \in DlAllNames : DlKnown(x) /\ dlRows[x].parent # DlNone =>
           \E i, j \in 1 .. m : dlAudit[i] = dlRows[x].parent /\ dlAudit[j] = x /\ i < j
    BY <1>1 DEF DlInv, DlHistory
  <2>4. PICK x \in DlAllNames : x = g[k - 1]
    BY <2>2
  <2>5. PICK i \in 1 .. m, j \in 1 .. m : dlAudit[i] = dlRows[x].parent /\ dlAudit[j] = x /\ i < j
    BY <1>6, <2>1, <2>2, <2>3, <2>4
  <2> QED
    BY <2>1, <2>4, <2>5
<1>7. g[m] = DlNone
  <2> DEFINE T == {k \in 0 .. m : g[k] # DlNone => \E i \in 1 .. m - k : dlAudit[i] = g[k]}
  <2>1. 0 \in T
    BY <1>2, <1>3, <1>4
  <2>2. ASSUME NEW k \in 1 .. m, k - 1 \in T PROVE k \in T
    <3>1. ASSUME g[k] # DlNone PROVE \E i \in 1 .. m - k : dlAudit[i] = g[k]
      <4>1. PICK i \in 1 .. m, j \in 1 .. m : dlAudit[i] = g[k] /\ dlAudit[j] = g[k - 1] /\ i < j
        BY <1>6, <3>1
      <4>2. g[k - 1] # DlNone
        BY <1>3, <3>1
      <4>3. PICK o \in 1 .. m - (k - 1) : dlAudit[o] = g[k - 1]
        BY <2>2, <4>2
      <4>4. o = j
        BY <1>2, <1>5, <4>1, <4>3
      <4>5. i \in 1 .. m - k
        BY <1>2, <4>1, <4>3, <4>4
      <4> QED
        BY <4>1, <4>5
    <3> QED
      BY <1>2, <3>1
  <2>3. \A k \in 0 .. m : k \in T
    <3> HIDE DEF T
    <3> QED
      BY <1>2, <2>1, <2>2, UpTo
  <2>4. g[m] # DlNone => \E i \in 1 .. m - m : dlAudit[i] = g[m]
    BY <1>2, <2>3
  <2> QED
    BY <1>2, <2>4
<1> QED
  BY <1>1, <1>6, <1>7

\* What the invariant says of the answers.
LEMMA DlAnswers == DlInv => DlAnswersHold
<1> SUFFICES ASSUME DlInv PROVE DlAnswersHold
  OBVIOUS
<1>1. DOMAIN dlAudit = 1..Len(dlAudit)
  BY DEF DlInv, DlHistory
<1>2. ASSUME NEW n \in DlAllNames
      PROVE  Cardinality({i \in DOMAIN dlAudit : dlAudit[i] = n}) = IF dlRows[n] = DlNone THEN 0 ELSE 1
  <2>1. CASE dlRows[n] = DlNone
    <3>1. {i \in DOMAIN dlAudit : dlAudit[i] = n} = {}
      BY <1>1, <2>1 DEF DlInv, DlHistory, DlKnown
    <3> QED
      BY <2>1, <3>1, FS_EmptySet
  <2>2. CASE dlRows[n] # DlNone
    <3>1. PICK k \in DOMAIN dlAudit : dlAudit[k] = n
      BY <1>1, <2>2 DEF DlInv, DlHistory, DlKnown
    <3>2. {i \in DOMAIN dlAudit : dlAudit[i] = n} = {k}
      BY <1>1, <3>1 DEF DlInv, DlHistory
    <3> QED
      BY <2>2, <3>2, FS_Singleton
  <2> QED
    BY <2>1, <2>2
<1>3. ASSUME NEW n \in DlAllNames, dlRows[n] # DlNone
      PROVE  /\ DlLineage(n)[Len(dlAudit)] = DlNone
             /\ \A k \in DOMAIN dlAudit : DlLineage(n)[k] # DlNone =>
                   \E i, j \in DOMAIN dlAudit :
                       dlAudit[i] = DlLineage(n)[k] /\ dlAudit[j] = DlLineage(n)[k - 1] /\ i < j
  BY <1>1, <1>3, DlLineageEnds DEF DlKnown
<1>4. \A t \in dlTold : /\ dlRows[t.name] # DlNone /\ dlRows[t.name].digest = t.digest
                        /\ t.link => t.name \in dlLinks
  BY DEF DlInv, DlPromises, DlKnown
<1>5. dlLinks \cup dlFrozen \subseteq {n \in DlAllNames : dlRows[n] # DlNone}
  BY DEF DlInv, DlPromises, DlKnown
<1> QED
  BY <1>2, <1>3, <1>4, <1>5 DEF DlAnswersHold

\* For any number of transactions side by side, committing and failing anywhere: what a
\* caller was told of a version or a link stays true, every version was audited once, and
\* its lineage ends (versioning.py _existing, create_stored_version, link_model_data, lineage).
THEOREM DlAlwaysHold == DlSpec => []DlAnswersHold
<1>1. DlSpec => []DlInv
  BY DlInitial, DlStep, PTL DEF DlSpec
<1> QED
  BY <1>1, DlAnswers, PTL

-----------------------------------------------------------------------------
(***************************************************************************)
(* ChangeCapture: EveryChangeOnce.  Every place of the log is preceded by   *)
(* all earlier changes, whatever is sent again, and a batch continues where *)
(* everything is stored; so, but for a polled PostgreSQL table, the table   *)
(* of events is at any time a prefix of the changes.                       *)
(***************************************************************************)

\* All changes before the one at place n of the log have a place before n.
CcPlace(n) ==
    /\ \A i \in 1 .. log[n].id - 1 : \E m \in 1 .. n - 1 : log[m].id = i
    /\ log[n].op = "tombstone" => \E m \in 1 .. n - 1 : log[m].id = log[n].id
    /\ log[n].id >= 1
    /\ source # "postgresql" => log[n].tx = "done"

CcLog ==
    /\ \E k \in Nat : ChangeIds = 1 .. k
    /\ \A n \in 1 .. Len(log) : CcPlace(n)

CcEvents ==
    /\ \A i, j \in 1 .. Len(events) : events[i].id = events[j].id => i = j
    /\ source # "postgresql" => \A i \in 1 .. Len(events) : events[i].id = i

\* Every change up to place n is stored.
CcPassed(n) == \A m \in 1 .. n : log[m].id \in StoredIds

\* A batch: the places after one up to which everything is stored.
CcRun(b) ==
    \E from \in Nat : /\ \A i \in 1 .. Len(b) : b[i] = from + i
                      /\ CcPassed(from)

CcConsumer(c) ==
    /\ acking[c] \in 0 .. Len(log)
    /\ fetched[c] # NoBatch =>
          /\ fetched[c] \in Seq(1 .. Len(log)) /\ Len(fetched[c]) >= 1
          /\ source # "postgresql" => CcRun(fetched[c])
    /\ source # "postgresql" => CcPassed(acking[c])

CcInv ==
    /\ CaptureTypeOK
    /\ \A m \in Makers : making[m] \subseteq DOMAIN events
    /\ CcLog /\ CcEvents
    /\ \A c \in Consumers : CcConsumer(c)
    /\ source # "postgresql" => CcPassed(offset)

\* Least and greatest of a set of places.
LEMMA CcMinMax ==
  ASSUME NEW n \in Nat, NEW S, S \subseteq 1 .. n, S # {}
  PROVE  /\ Min(S) \in S
         /\ Max(S) \in S
<1>0. S \subseteq Nat
  OBVIOUS
<1>1. \E x \in S : \A y \in S : x <= y
  BY <1>0, LeastNat
<1>2. \E x \in S : \A y \in S : x >= y
  <2> DEFINE T == {n - x : x \in S}
  <2>1. T \subseteq Nat /\ T # {}
    <3>1. \A x \in S : n - x \in Nat
      OBVIOUS
    <3> QED
      BY <3>1
  <2>2. PICK t \in T : \A u \in T : t <= u
    BY <2>1, LeastNat
  <2>3. PICK x \in S : t = n - x
    BY <2>2
  <2>4. ASSUME NEW y \in S PROVE x >= y
    <3>1. n - y \in T
      OBVIOUS
    <3> QED
      BY <2>2, <2>3, <3>1
  <2> QED
    BY <2>4
<1> QED
  BY <1>1, <1>2 DEF Min, Max

-----------------------------------------------------------------------------
(* The log. *)

\* What is known of the constants and variables.
LEMMA CcTypes ==
    ASSUME CaptureTypeOK
    PROVE  /\ log \in Seq(Entry) /\ Len(log) \in Nat /\ DOMAIN log = 1 .. Len(log)
           /\ events \in Seq(EventRow) /\ Len(events) \in Nat /\ DOMAIN events = 1 .. Len(events)
           /\ \A n \in 1 .. Len(log) : log[n] \in Entry /\ log[n].id \in Nat
           /\ \A e \in 1 .. Len(events) : events[e] \in EventRow /\ events[e].id \in Nat
           /\ offset \in 0 .. Len(log)
<1>1. log \in Seq(Entry) /\ events \in Seq(EventRow) /\ offset \in 0 .. Len(log)
  BY DEF CaptureTypeOK
<1>2. \A n \in 1 .. Len(log) : log[n] \in Entry
  BY <1>1
<1>3. \A e \in 1 .. Len(events) : events[e] \in EventRow
  BY <1>1
<1> QED
  BY <1>1, <1>2, <1>3 DEF Entry, EventRow

\* A log that was continued, or whose transactions ended.
LEMMA CcLonger ==
    ASSUME CcInv, log' \in Seq(Entry), Len(log') >= Len(log),
           \A n \in 1 .. Len(log) : log'[n].id = log[n].id,
           CcLog',
           UNCHANGED <<source, offset, events, fetched, acking, versions, making>>,
           faults' \in 0 .. MaxFaults
    PROVE  CcInv'
<1>1. /\ Len(log) \in Nat /\ Len(log') \in Nat /\ offset \in 0 .. Len(log)
      /\ 1 .. Len(log) \subseteq 1 .. Len(log')
  BY CcTypes DEF CcInv
<1>2. CaptureTypeOK'
  BY <1>1 DEF CcInv, CaptureTypeOK
<1>3. \A n \in 0 .. Len(log) : CcPassed(n) => CcPassed(n)'
  BY <1>1 DEF CcPassed, StoredIds
<1>4. ASSUME NEW b \in Seq(1 .. Len(log)), Len(b) >= 1, CcRun(b)
      PROVE  CcRun(b)' /\ b \in Seq(1 .. Len(log'))
  <2>1. PICK from \in Nat : /\ \A i \in 1 .. Len(b) : b[i] = from + i
                            /\ CcPassed(from)
    BY <1>4 DEF CcRun
  <2>2. b[1] \in 1 .. Len(log)
    BY <1>4
  <2>3. from \in 0 .. Len(log)
    BY <1>1, <1>4, <2>1, <2>2
  <2>4. CcPassed(from)'
    BY <1>3, <2>1, <2>3
  <2> QED
    BY <1>1, <2>1, <2>4, SeqMonotonic DEF CcRun
<1>5. ASSUME NEW c \in Consumers
      PROVE  CcConsumer(c)'
  <2>1. PICK b, a : b = fetched[c] /\ a = acking[c]
    OBVIOUS
  <2>2. /\ a \in 0 .. Len(log)
        /\ b # NoBatch => /\ b \in Seq(1 .. Len(log)) /\ Len(b) >= 1
                          /\ source # "postgresql" => CcRun(b)
        /\ source # "postgresql" => CcPassed(a)
    BY <2>1 DEF CcInv, CcConsumer
  <2>3. a \in 0 .. Len(log') /\ (source # "postgresql" => CcPassed(a)')
    BY <1>1, <1>3, <2>2
  <2>4. b # NoBatch => /\ b \in Seq(1 .. Len(log')) /\ Len(b) >= 1
                       /\ source # "postgresql" => CcRun(b)'
    BY <1>1, <1>4, <2>2, SeqMonotonic
  <2>5. fetched'[c] = b /\ acking'[c] = a /\ source' = source
    BY <2>1
  <2>6. CcRun(b)' => CcRun(fetched[c])'
    BY <2>5 DEF CcRun
  <2>7. CcPassed(a)' => CcPassed(acking[c])'
    BY <2>5 DEF CcPassed
  <2> QED
    BY <2>3, <2>4, <2>5, <2>6, <2>7 DEF CcConsumer
<1>6. source # "postgresql" => CcPassed(offset)'
  <2>1. PICK o \in 0 .. Len(log) : o = offset
    BY <1>1
  <2>2. source # "postgresql" => CcPassed(o)'
    BY <1>3, <2>1 DEF CcInv
  <2> QED
    BY <2>1, <2>2 DEF CcPassed
<1>7. CcEvents' /\ \A m \in Makers : making'[m] \subseteq DOMAIN events'
  BY DEF CcInv, CcEvents
<1> QED
  BY <1>2, <1>5, <1>6, <1>7 DEF CcInv

\* Entries appended whose earlier changes have places.
LEMMA CcAppended ==
    ASSUME CcInv, log' \in Seq(Entry), Len(log') >= Len(log), source' = source,
           \A n \in 1 .. Len(log) : log'[n] = log[n],
           \A n \in Len(log) + 1 .. Len(log') :
               /\ log'[n].id >= 1
               /\ \A i \in 1 .. log'[n].id - 1 : \E m \in 1 .. Len(log) : log[m].id = i
               /\ log'[n].op = "tombstone" => \E m \in 1 .. n - 1 : log'[m].id = log'[n].id
               /\ source # "postgresql" => log'[n].tx = "done"
    PROVE  \A n \in 1 .. Len(log') : CcPlace(n)'
<1>1. Len(log) \in Nat /\ Len(log') \in Nat
  BY CcTypes DEF CcInv
<1>2. \A m \in 1 .. Len(log) : m \in 1 .. Len(log') /\ log'[m].id = log[m].id
  BY <1>1
<1> SUFFICES ASSUME NEW n \in 1 .. Len(log') PROVE CcPlace(n)'
  OBVIOUS
<1>3. CASE n \in 1 .. Len(log)
  <2>1. CcPlace(n)
    BY <1>3 DEF CcInv, CcLog
  <2>2. \A m \in 1 .. n - 1 : log'[m].id = log[m].id
    BY <1>1, <1>2, <1>3
  <2> QED
    BY <1>3, <2>1, <2>2 DEF CcPlace
<1>4. CASE n \in Len(log) + 1 .. Len(log')
  <2>1. \A m \in 1 .. Len(log) : m \in 1 .. n - 1 /\ log'[m].id = log[m].id
    BY <1>1, <1>2, <1>4
  <2>2. \A i \in 1 .. log'[n].id - 1 : \E m \in 1 .. n - 1 : log'[m].id = i
    BY <1>4, <2>1
  <2> QED
    BY <1>4, <2>2 DEF CcPlace
<1> QED
  BY <1>1, <1>3, <1>4


\* A change of the source table comes after all others.
LEMMA CcChange ==
    ASSUME CcInv, NEW k \in Keys, NEW image \in Images \union {DELETED}, Change(k, image)
    PROVE  CcInv'
<1>1. /\ log \in Seq(Entry) /\ Len(log) \in Nat /\ DOMAIN log = 1 .. Len(log)
      /\ \A n \in 1 .. Len(log) : log[n] \in Entry /\ log[n].id \in Nat
  BY CcTypes DEF CcInv
<1>2. PICK top \in Nat : ChangeIds = 1 .. top
  BY DEF CcInv, CcLog
<1>3. Cardinality(ChangeIds) + 1 = top + 1
  <2>1. 1 \in Int /\ top \in Int
    BY <1>2
  <2>2. Cardinality(1 .. top) = IF 1 > top THEN 0 ELSE top - 1 + 1
    BY <2>1, FS_Interval
  <2> QED
    BY <1>2, <2>2
<1>4. \A i \in 1 .. top : \E m \in 1 .. Len(log) : log[m].id = i
  BY <1>1, <1>2 DEF ChangeIds
<1>5. PICK entry : entry = [id |-> top + 1, key |-> k, image |-> image,
                            op |-> IF image = DELETED THEN "delete" ELSE "put",
                            tx |-> IF source = "postgresql" THEN "open" ELSE "done"]
  OBVIOUS
<1>6. PICK tomb : tomb = [entry EXCEPT !.op = "tombstone"]
  OBVIOUS
<1>7. log' = IF source = "kafka" /\ image = DELETED THEN log \o <<entry, tomb>> ELSE Append(log, entry)
  BY <1>3, <1>5, <1>6 DEF Change
<1>8. /\ entry \in Entry /\ entry.id = top + 1 /\ entry.op # "tombstone"
      /\ source # "postgresql" => entry.tx = "done"
  BY <1>5 DEF Entry, Ops
<1>9. /\ tomb \in Entry /\ tomb.id = top + 1 /\ tomb.tx = entry.tx
  BY <1>6, <1>8 DEF Entry, Ops
<1>10. /\ log' \in Seq(Entry) /\ Len(log') > Len(log) /\ Len(log') \in Nat
       /\ \A n \in 1 .. Len(log) : log'[n] = log[n]
       /\ log'[Len(log) + 1] = entry
       /\ \A n \in Len(log) + 1 .. Len(log') :
             n = Len(log) + 1 \/ (n = Len(log) + 2 /\ log'[n] = tomb /\ source = "kafka")
  <2>1. CASE source = "kafka" /\ image = DELETED
    <3>1. log' = log \o <<entry, tomb>>
      BY <1>7, <2>1
    <3>2. PICK two : two = <<entry, tomb>>
      OBVIOUS
    <3>3. two \in Seq(Entry) /\ Len(two) = 2 /\ two[1] = entry /\ two[2] = tomb
      BY <1>8, <1>9, <3>2
    <3>4. /\ log' \in Seq(Entry) /\ Len(log') = Len(log) + 2
          /\ \A n \in 1 .. Len(log) : log'[n] = log[n]
          /\ \A n \in Len(log) + 1 .. Len(log) + 2 : log'[n] = two[n - Len(log)]
      BY <1>1, <3>1, <3>2, <3>3
    <3>5. log'[Len(log) + 1] = entry /\ log'[Len(log) + 2] = tomb
      BY <1>1, <3>3, <3>4
    <3> QED
      BY <1>1, <2>1, <3>4, <3>5
  <2>2. CASE ~(source = "kafka" /\ image = DELETED)
    <3>1. log' = Append(log, entry)
      BY <1>7, <2>2
    <3>2. /\ log' \in Seq(Entry) /\ Len(log') = Len(log) + 1
          /\ \A n \in 1 .. Len(log) : log'[n] = log[n]
          /\ log'[Len(log) + 1] = entry
      BY <1>1, <1>8, <3>1
    <3> QED
      BY <1>1, <3>2
  <2> QED
    BY <2>1, <2>2
<1>11. \A n \in Len(log) + 1 .. Len(log') : log'[n].id = top + 1
  BY <1>8, <1>9, <1>10
<1>12. ChangeIds' = 1 .. top + 1
  <2>1. DOMAIN log' = 1 .. Len(log')
    BY <1>10
  <2>2. ChangeIds' = {log'[n].id : n \in 1 .. Len(log')}
    BY <2>1 DEF ChangeIds
  <2>3. ASSUME NEW i \in 1 .. top + 1 PROVE \E n \in 1 .. Len(log') : log'[n].id = i
    <3>1. CASE i \in 1 .. top
      <4>1. PICK m \in 1 .. Len(log) : log[m].id = i
        BY <1>4, <3>1
      <4>2. m \in 1 .. Len(log') /\ log'[m].id = i
        BY <1>1, <1>10, <4>1
      <4> QED
        BY <4>2
    <3>2. CASE i = top + 1
      <4>1. Len(log) + 1 \in Len(log) + 1 .. Len(log') /\ Len(log) + 1 \in 1 .. Len(log')
        BY <1>1, <1>10
      <4>2. log'[Len(log) + 1].id = i
        BY <1>11, <3>2, <4>1
      <4> QED
        BY <4>1, <4>2
    <3> QED
      BY <3>1, <3>2
  <2>4. ASSUME NEW n \in 1 .. Len(log') PROVE log'[n].id \in 1 .. top + 1
    <3>1. CASE n \in 1 .. Len(log)
      <4>1. log'[n].id = log[n].id /\ log[n].id \in ChangeIds
        BY <1>1, <1>10, <3>1 DEF ChangeIds
      <4> QED
        BY <1>2, <4>1
    <3>2. CASE n \in Len(log) + 1 .. Len(log')
      BY <1>11, <3>2
    <3> QED
      BY <1>1, <1>10, <3>1, <3>2
  <2> QED
    BY <2>2, <2>3, <2>4
<1>13. \A n \in 1 .. Len(log') : CcPlace(n)'
  <2>1. ASSUME NEW n \in Len(log) + 1 .. Len(log')
        PROVE  /\ log'[n].id >= 1
               /\ \A i \in 1 .. log'[n].id - 1 : \E m \in 1 .. Len(log) : log[m].id = i
               /\ log'[n].op = "tombstone" => \E m \in 1 .. n - 1 : log'[m].id = log'[n].id
               /\ source # "postgresql" => log'[n].tx = "done"
    <3>1. CASE n = Len(log) + 1
      <4>1. log'[n] = entry /\ log'[n].id = top + 1
        BY <1>10, <1>11, <3>1
      <4>2. log'[n].id >= 1 /\ \A i \in 1 .. log'[n].id - 1 : \E m \in 1 .. Len(log) : log[m].id = i
        BY <1>4, <4>1
      <4>3. log'[n].op # "tombstone" /\ (source # "postgresql" => log'[n].tx = "done")
        BY <1>8, <4>1
      <4> QED
        BY <4>2, <4>3
    <3>2. CASE n = Len(log) + 2 /\ log'[n] = tomb /\ source = "kafka"
      <4>1. Len(log) + 1 \in 1 .. n - 1 /\ Len(log) + 1 \in Len(log) + 1 .. Len(log')
        BY <1>1, <1>10, <3>2
      <4>2. log'[n].id = top + 1 /\ log'[Len(log) + 1].id = top + 1
        BY <1>11, <4>1
      <4>3. log'[n].id >= 1 /\ \A i \in 1 .. log'[n].id - 1 : \E m \in 1 .. Len(log) : log[m].id = i
        BY <1>4, <4>2
      <4>4. source # "postgresql" => log'[n].tx = "done"
        BY <1>8, <1>9, <3>2
      <4> QED
        BY <4>1, <4>2, <4>3, <4>4
    <3> QED
      BY <1>10, <3>1, <3>2
  <2>2. source' = source
    BY DEF Change
  <2> QED
    BY <1>1, <1>10, <2>1, <2>2, CcAppended
<1>14. CcLog'
  BY <1>12, <1>13 DEF CcLog
<1>15. faults' \in 0 .. MaxFaults /\ UNCHANGED <<source, offset, events, fetched, acking, versions, making>>
  BY DEF Change, CcInv, CaptureTypeOK
<1> QED
  BY <1>10, <1>14, <1>15, CcLonger

\* What the connector sends again are earlier entries.
LEMMA CcResend ==
    ASSUME CcInv, NEW n \in DOMAIN log, Resend(n)
    PROVE  CcInv'
<1>1. /\ log \in Seq(Entry) /\ Len(log) \in Nat /\ DOMAIN log = 1 .. Len(log)
      /\ \A m \in 1 .. Len(log) : log[m] \in Entry /\ log[m].id \in Nat
  BY CcTypes DEF CcInv
<1>2. PICK again : again = SubSeq(log, n, Len(log))
  OBVIOUS
<1>3. /\ again \in Seq(Entry) /\ Len(again) \in Nat
      /\ \A i \in 1 .. Len(again) : again[i] = log[n + i - 1] /\ n + i - 1 \in 1 .. Len(log)
  BY <1>1, <1>2
<1>4. /\ log' \in Seq(Entry) /\ Len(log') = Len(log) + Len(again)
      /\ \A m \in 1 .. Len(log) : log'[m] = log[m]
      /\ \A m \in Len(log) + 1 .. Len(log') : m - Len(log) \in 1 .. Len(again) /\ log'[m] = again[m - Len(log)]
  <2>1. log' = log \o again
    BY <1>2 DEF Resend
  <2>2. /\ Len(log') = Len(log) + Len(again) /\ log' \in Seq(Entry)
        /\ \A i \in 1 .. Len(log) + Len(again) :
              log'[i] = IF i <= Len(log) THEN log[i] ELSE again[i - Len(log)]
    BY <1>1, <1>3, <2>1, ConcatProperties
  <2> QED
    BY <1>1, <1>3, <2>2
<1>5. \A m \in Len(log) + 1 .. Len(log') : \E o \in 1 .. Len(log) : log'[m] = log[o]
  BY <1>3, <1>4
<1>6. ChangeIds' = ChangeIds
  <2>1. DOMAIN log' = 1 .. Len(log') /\ 1 .. Len(log) \subseteq 1 .. Len(log')
    BY <1>1, <1>3, <1>4
  <2>2. ASSUME NEW m \in 1 .. Len(log') PROVE \E o \in 1 .. Len(log) : log'[m] = log[o]
    <3>1. CASE m \in 1 .. Len(log)
      BY <1>4, <3>1
    <3>2. CASE m \in Len(log) + 1 .. Len(log')
      BY <1>5, <3>2
    <3> QED
      BY <1>1, <1>3, <1>4, <3>1, <3>2
  <2>3. ChangeIds' = {log'[m].id : m \in 1 .. Len(log')} /\ ChangeIds = {log[m].id : m \in 1 .. Len(log)}
    BY <1>1, <2>1 DEF ChangeIds
  <2>4. ASSUME NEW m \in 1 .. Len(log') PROVE log'[m].id \in ChangeIds
    BY <2>2, <2>3
  <2>5. ASSUME NEW m \in 1 .. Len(log) PROVE log[m].id \in ChangeIds'
    BY <1>4, <2>1, <2>3
  <2> QED
    BY <2>3, <2>4, <2>5
<1>7. source' = source
  BY DEF Resend
<1>8. \A m \in 1 .. Len(log') : CcPlace(m)'
  <2>1. ASSUME NEW m \in Len(log) + 1 .. Len(log')
        PROVE  /\ log'[m].id >= 1
               /\ \A i \in 1 .. log'[m].id - 1 : \E o \in 1 .. Len(log) : log[o].id = i
               /\ log'[m].op = "tombstone" => \E o \in 1 .. m - 1 : log'[o].id = log'[m].id
               /\ source # "postgresql" => log'[m].tx = "done"
    <3>1. PICK o \in 1 .. Len(log) : log'[m] = log[o]
      BY <1>5
    <3>2. CcPlace(o)
      BY DEF CcInv, CcLog
    <3>3. o \in 1 .. m - 1 /\ log'[o] = log[o]
      BY <1>1, <1>3, <1>4
    <3>4. \A i \in 1 .. log[o].id - 1 : \E p \in 1 .. Len(log) : log[p].id = i
      <4>1. 1 .. o - 1 \subseteq 1 .. Len(log)
        BY <1>1
      <4> QED
        BY <3>2, <4>1 DEF CcPlace
    <3> QED
      BY <3>1, <3>2, <3>3, <3>4 DEF CcPlace
  <2>2. Len(log') >= Len(log)
    BY <1>1, <1>3, <1>4
  <2> QED
    BY <1>4, <1>7, <2>1, <2>2, CcAppended
<1>9. CcLog'
  BY <1>6, <1>8 DEF CcInv, CcLog
<1>10. faults' \in 0 .. MaxFaults /\ UNCHANGED <<source, offset, events, fetched, acking, versions, making>>
  BY CaptureConstants DEF Resend, CcInv, CaptureTypeOK
<1>11. Len(log') >= Len(log)
  BY <1>1, <1>3, <1>4
<1> QED
  BY <1>4, <1>9, <1>10, <1>11, CcLonger

\* A transaction ends.
LEMMA CcEndTx ==
    ASSUME CcInv, NEW n \in DOMAIN log, EndTx(n)
    PROVE  CcInv'
<1>1. /\ log \in Seq(Entry) /\ Len(log) \in Nat /\ DOMAIN log = 1 .. Len(log)
      /\ \A m \in 1 .. Len(log) : log[m] \in Entry /\ log[m].id \in Nat
  BY CcTypes DEF CcInv
<1>2. PICK tx \in {"done", "undone"} : log' = [log EXCEPT ![n].tx = tx]
  BY DEF EndTx
<1>3. PICK e : e = [log[n] EXCEPT !.tx = tx]
  OBVIOUS
<1>4. e \in Entry /\ e.id = log[n].id /\ e.op = log[n].op
  BY <1>1, <1>3 DEF Entry
<1>5. log' = [log EXCEPT ![n] = e]
  BY <1>1, <1>2, <1>3
<1>6. log' \in Seq(Entry) /\ Len(log') = Len(log) /\ DOMAIN log' = DOMAIN log
  <2>1. [log EXCEPT ![n] = e] \in Seq(Entry)
    BY <1>1, <1>4, ExceptSeq
  <2>2. Len([log EXCEPT ![n] = e]) = Len(log)
    BY <1>1, <1>4, ExceptSeq
  <2> QED
    BY <1>1, <1>5, <2>1, <2>2
<1>7. \A m \in 1 .. Len(log) : log'[m].id = log[m].id /\ log'[m].op = log[m].op
  BY <1>1, <1>4, <1>5
<1>8. source = "postgresql"
  <2>1. log[n].tx = "open" /\ CcPlace(n)
    BY <1>1 DEF EndTx, CcInv, CcLog
  <2> QED
    BY <2>1 DEF CcPlace
<1>9. source' = source
  BY DEF EndTx
<1>10. ChangeIds' = ChangeIds
  BY <1>1, <1>6, <1>7 DEF ChangeIds
<1>11. ASSUME NEW m \in 1 .. Len(log) PROVE CcPlace(m)'
  <2>1. CcPlace(m)
    BY DEF CcInv, CcLog
  <2>2. \A o \in 1 .. m - 1 : log'[o].id = log[o].id
    BY <1>1, <1>7
  <2> QED
    BY <1>7, <1>8, <1>9, <2>1, <2>2 DEF CcPlace
<1>12. CcLog'
  BY <1>6, <1>10, <1>11 DEF CcInv, CcLog
<1>13. faults' \in 0 .. MaxFaults /\ UNCHANGED <<source, offset, events, fetched, acking, versions, making>>
  BY DEF EndTx, CcInv, CaptureTypeOK
<1>14. Len(log') >= Len(log)
  BY <1>1, <1>6
<1> QED
  BY <1>6, <1>7, <1>12, <1>13, <1>14, CcLonger


-----------------------------------------------------------------------------
(* The consumer. *)

\* A batch whose acknowledgement, storing or loss leaves the rest as it is.
LEMMA CcWithConsumer ==
    ASSUME CcInv, NEW c \in Consumers, NEW b, NEW a \in 0 .. Len(log), NEW o \in 0 .. Len(log),
           fetched' = [fetched EXCEPT ![c] = b], acking' = [acking EXCEPT ![c] = a], offset' = o,
           faults' \in 0 .. MaxFaults, UNCHANGED <<source, log, versions, making>>,
           events' \in Seq(EventRow), CcEvents', DOMAIN events \subseteq DOMAIN events',
           StoredIds \subseteq StoredIds',
           b # NoBatch => /\ b \in Seq(1 .. Len(log)) /\ Len(b) >= 1
                          /\ source # "postgresql" => CcRun(b),
           source # "postgresql" => CcPassed(a)' /\ CcPassed(o)'
    PROVE  CcInv'
<1>1. \A n : CcPassed(n) => CcPassed(n)'
  BY DEF CcPassed
<1>2. \A x : CcRun(x) => CcRun(x)'
  BY <1>1 DEF CcRun
<1>3. CaptureTypeOK'
  <2>1. Len(log) \in Nat
    BY CcTypes DEF CcInv
  <2>2. b \in Seq(Nat) \union {NoBatch}
    <3>1. 1 .. Len(log) \subseteq Nat
      OBVIOUS
    <3> QED
      BY <3>1, SeqMonotonic
  <2>3. fetched' \in [Consumers -> Seq(Nat) \union {NoBatch}]
    BY <2>2 DEF CcInv, CaptureTypeOK
  <2>4. acking' \in [Consumers -> Nat]
    BY <2>1 DEF CcInv, CaptureTypeOK
  <2> QED
    BY <2>3, <2>4 DEF CcInv, CaptureTypeOK
<1>4. ASSUME NEW d \in Consumers PROVE CcConsumer(d)'
  <2>1. PICK x, y : x = fetched'[d] /\ y = acking'[d]
    OBVIOUS
  <2>2. /\ y \in 0 .. Len(log)
        /\ x # NoBatch => /\ x \in Seq(1 .. Len(log)) /\ Len(x) >= 1
                          /\ source # "postgresql" => CcRun(x)
        /\ source # "postgresql" => CcPassed(y)'
    <3>1. CASE d = c
      <4>1. x = b /\ y = a
        BY <2>1, <3>1 DEF CcInv, CaptureTypeOK
      <4> QED
        BY <4>1
    <3>2. CASE d # c
      <4>1. x = fetched[d] /\ y = acking[d]
        BY <2>1, <3>2 DEF CcInv, CaptureTypeOK
      <4> QED
        BY <1>1, <4>1 DEF CcInv, CcConsumer
    <3> QED
      BY <3>1, <3>2
  <2>3. CcRun(x)' => CcRun(fetched[d])'
    BY <2>1 DEF CcRun
  <2>4. CcPassed(y)' => CcPassed(acking[d])'
    BY <2>1 DEF CcPassed
  <2> QED
    BY <1>2, <2>1, <2>2, <2>3, <2>4 DEF CcConsumer
<1>5. CcLog'
  <2>1. \A n : CcPlace(n) => CcPlace(n)'
    BY DEF CcPlace
  <2>2. ChangeIds' = ChangeIds
    BY DEF ChangeIds
  <2> QED
    BY <2>1, <2>2 DEF CcInv, CcLog
<1>6. source # "postgresql" => CcPassed(offset)'
  <2>1. CcPassed(o)' => CcPassed(offset)'
    BY DEF CcPassed
  <2> QED
    BY <2>1
<1>7. \A m \in Makers : making'[m] \subseteq DOMAIN events'
  BY DEF CcInv
<1> QED
  BY <1>3, <1>4, <1>5, <1>6, <1>7 DEF CcInv

\* What is fetched follows the offset without a gap, unless some of it is not yet visible.
LEMMA CcFetch ==
    ASSUME CcInv, NEW c \in Consumers, Fetch(c)
    PROVE  CcInv'
<1>1. PICK b \in NextBatches(offset) : fetched' = [fetched EXCEPT ![c] = b]
  BY DEF Fetch
<1>2. PICK from : from = offset
  OBVIOUS
<1>3. /\ Len(log) \in Nat /\ DOMAIN log = 1 .. Len(log) /\ from \in 0 .. Len(log)
  BY <1>2, CcTypes DEF CcInv
<1>4. PICK k \in 1 .. BatchSize : b \in [1 .. k -> Visible(from)]
  BY <1>1, <1>2 DEF NextBatches
<1>5. k \in Nat /\ k >= 1 /\ DOMAIN b = 1 .. k /\ \A i \in 1 .. k : b[i] \in Visible(from)
  BY <1>4, CaptureConstants
<1>6. Visible(from) \subseteq {n \in 1 .. Len(log) : n > from}
  BY <1>3 DEF Visible
<1>7. b \in Seq(1 .. Len(log)) /\ Len(b) = k
  <2>1. b \in [1 .. k -> 1 .. Len(log)]
    BY <1>4, <1>6
  <2>2. b \in Seq(1 .. Len(log))
    BY <1>5, <2>1, SeqDef
  <2> QED
    BY <1>5, <2>2
<1>8. /\ \A i, j \in 1 .. k : i < j => b[i] < b[j]
      /\ \A n \in Visible(from) \ Range(b) : n > b[k]
  <2>1. Last(b) = b[k]
    BY <1>7 DEF Last
  <2> QED
    BY <1>1, <1>2, <1>5, <2>1 DEF NextBatches
<1>9. ASSUME source # "postgresql" PROVE CcRun(b)
  <2>1. \A n \in from + 1 .. Len(log) : n \in Visible(from)
    BY <1>3, <1>9 DEF Visible, CcInv, CcLog, CcPlace
  <2> DEFINE T == {i \in 0 .. k : i >= 1 => b[i] = from + i}
  <2>2. 0 \in T
    BY <1>5
  <2>3. ASSUME NEW i \in 1 .. k, i - 1 \in T PROVE i \in T
    <3>1. b[i] \in 1 .. Len(log) /\ b[i] > from /\ b[k] \in 1 .. Len(log)
      BY <1>5, <1>6
    <3>2. b[i] >= from + i
      <4>1. CASE i = 1
        BY <1>3, <3>1, <4>1
      <4>2. CASE i > 1
        <5>1. b[i - 1] = from + (i - 1) /\ i - 1 \in 1 .. k
          BY <1>5, <2>3, <4>2
        <5>2. b[i - 1] < b[i]
          BY <1>5, <1>8, <5>1
        <5> QED
          BY <1>3, <1>5, <3>1, <5>1, <5>2
      <4> QED
        BY <1>5, <4>1, <4>2
    <3>3. ASSUME b[i] > from + i PROVE FALSE
      <4>1. from + i \in from + 1 .. Len(log)
        BY <1>3, <1>5, <3>1, <3>3
      <4>2. b[i] <= b[k]
        BY <1>5, <1>8, <3>1
      <4>3. from + i <= b[k]
        BY <1>3, <1>5, <3>1, <3>3, <4>2
      <4>4. from + i \in Range(b)
        BY <1>8, <2>1, <3>1, <4>1, <4>3
      <4>5. PICK j \in 1 .. k : b[j] = from + i
        BY <1>5, <4>4 DEF Range
      <4>6. j < i
        <5>1. ~(i < j)
          <6>1. i < j => b[i] < b[j]
            BY <1>8
          <6> QED
            BY <1>3, <1>5, <3>1, <3>3, <4>5, <6>1
        <5>2. i # j
          BY <1>3, <1>5, <3>1, <3>3, <4>5
        <5> QED
          BY <1>5, <5>1, <5>2
      <4>7. b[i - 1] = from + (i - 1) /\ i - 1 \in 1 .. k
        BY <1>5, <2>3, <4>6
      <4>8. b[j] <= b[i - 1]
        BY <1>3, <1>5, <1>8, <4>5, <4>6, <4>7
      <4> QED
        BY <1>3, <1>5, <4>5, <4>7, <4>8
    <3> QED
      BY <1>3, <1>5, <3>1, <3>2, <3>3
  <2>4. \A i \in 0 .. k : i \in T
    <3> HIDE DEF T
    <3> QED
      BY <1>5, <2>2, <2>3, UpTo
  <2>5. \A i \in 1 .. k : b[i] = from + i
    BY <1>5, <2>4
  <2>6. CcPassed(from)
    BY <1>2, <1>9 DEF CcInv
  <2> QED
    BY <1>3, <1>7, <2>5, <2>6 DEF CcRun
<1>10. UNCHANGED <<source, log, offset, events, acking, versions, making, faults>>
  BY DEF Fetch
<1>11. PICK a : a = acking[c]
  OBVIOUS
<1>12. /\ a \in 0 .. Len(log) /\ acking' = [acking EXCEPT ![c] = a]
       /\ source # "postgresql" => CcPassed(a)
  <2>1. a \in 0 .. Len(log) /\ (source # "postgresql" => CcPassed(a))
    <3>1. CcPassed(acking[c]) => CcPassed(a)
      BY <1>11
    <3> QED
      BY <1>11, <3>1 DEF CcInv, CcConsumer
  <2> QED
    BY <1>10, <1>11, <2>1 DEF CcInv, CaptureTypeOK
<1>13. /\ events' \in Seq(EventRow) /\ faults' \in 0 .. MaxFaults
       /\ DOMAIN events \subseteq DOMAIN events' /\ StoredIds \subseteq StoredIds'
  BY <1>10 DEF CcInv, CaptureTypeOK, StoredIds
<1>14. CcEvents'
  BY <1>10 DEF CcInv, CcEvents
<1>15. source # "postgresql" => CcPassed(a)' /\ CcPassed(from)'
  BY <1>2, <1>10, <1>12 DEF CcInv, CcPassed, StoredIds
<1>16. b # NoBatch => /\ b \in Seq(1 .. Len(log)) /\ Len(b) >= 1
                      /\ source # "postgresql" => CcRun(b)
  BY <1>5, <1>7, <1>9
<1> QED
  BY <1>1, <1>2, <1>3, <1>10, <1>12, <1>13, <1>14, <1>15, <1>16, CcWithConsumer


\* A table of events in the making.
CcTable(t) ==
    /\ t \in Seq(EventRow)
    /\ \A i, j \in 1 .. Len(t) : t[i].id = t[j].id => i = j
    /\ source # "postgresql" => \A i \in 1 .. Len(t) : t[i].id = i

CcHas(t, m) == \A n \in 1 .. m : Known(t, log[n].id)

\* A table continued with events that are in no version.
CcGrows(t, u) ==
    /\ Len(u) >= Len(t) /\ \A j \in 1 .. Len(t) : u[j] = t[j]
    /\ \A j \in 1 .. Len(u) : j > Len(t) => u[j].version = NOTHING

\* The event of place n: there already, no event, or the next one.
CcRow(n) == [id |-> log[n].id, key |-> log[n].key, image |-> log[n].image, version |-> NOTHING]

CcStored(t, n) ==
    IF log[n].op = "tombstone" \/ Known(t, log[n].id) THEN t ELSE Append(t, CcRow(n))

LEMMA CcStoreOne ==
    ASSUME CcInv, NEW t, CcTable(t), NEW n \in 1 .. Len(log),
           source # "postgresql" => CcHas(t, n - 1)
    PROVE  /\ CcTable(CcStored(t, n)) /\ CcGrows(t, CcStored(t, n))
           /\ source # "postgresql" => CcHas(CcStored(t, n), n)
<1>1. /\ log[n] \in Entry /\ log[n].id \in Nat /\ Len(log) \in Nat
      /\ t \in Seq(EventRow) /\ Len(t) \in Nat /\ DOMAIN t = 1 .. Len(t)
      /\ \A i \in 1 .. Len(t) : t[i] \in EventRow /\ t[i].id \in Nat
  <2>1. t \in Seq(EventRow)
    BY DEF CcTable
  <2>2. \A i \in 1 .. Len(t) : t[i] \in EventRow
    BY <2>1
  <2> QED
    BY <2>1, <2>2, CcTypes DEF CcInv, EventRow
<1>2. PICK row : row = CcRow(n)
  OBVIOUS
<1>3. row \in EventRow /\ row.id = log[n].id
  BY <1>1, <1>2 DEF CcRow, EventRow, Entry, NOTHING
<1>4. PICK u : u = CcStored(t, n)
  OBVIOUS
<1>5. ASSUME source # "postgresql", NEW i \in 1 .. log[n].id - 1
      PROVE  i \in 1 .. Len(t)
  <2>1. PICK m \in 1 .. n - 1 : log[m].id = i
    BY DEF CcInv, CcLog, CcPlace
  <2>2. Known(t, i)
    BY <1>5, <2>1 DEF CcHas
  <2>3. PICK e \in 1 .. Len(t) : t[e].id = i
    BY <1>1, <2>2 DEF Known
  <2> QED
    BY <1>5, <2>3 DEF CcTable
<1>6. ASSUME NEW m \in 1 .. n, n # m PROVE m \in 1 .. n - 1
  BY <1>1, <1>6
<1>7. CASE log[n].op = "tombstone" \/ Known(t, log[n].id)
  <2>1. u = t
    BY <1>4, <1>7 DEF CcStored
  <2>2. ASSUME source # "postgresql" PROVE CcHas(t, n)
    <3>1. Known(t, log[n].id)
      <4>1. CASE log[n].op = "tombstone"
        <5>1. PICK m \in 1 .. n - 1 : log[m].id = log[n].id
          BY <4>1 DEF CcInv, CcLog, CcPlace
        <5> QED
          BY <2>2, <5>1 DEF CcHas
      <4> QED
        BY <1>7, <4>1
    <3>2. ASSUME NEW m \in 1 .. n PROVE Known(t, log[m].id)
      <4>1. CASE m = n
        BY <3>1, <4>1
      <4>2. CASE m # n
        BY <1>6, <2>2, <4>2 DEF CcHas
      <4> QED
        BY <4>1, <4>2
    <3> QED
      BY <3>2 DEF CcHas
  <2>3. CcGrows(t, t)
    BY <1>1 DEF CcGrows
  <2> QED
    BY <1>4, <2>1, <2>2, <2>3
<1>8. CASE ~(log[n].op = "tombstone" \/ Known(t, log[n].id))
  <2>1. u = Append(t, row)
    BY <1>2, <1>4, <1>8 DEF CcStored
  <2>2. /\ u \in Seq(EventRow) /\ Len(u) = Len(t) + 1 /\ u[Len(t) + 1] = row
        /\ \A j \in 1 .. Len(t) : u[j] = t[j]
        /\ DOMAIN u = 1 .. Len(t) + 1
    BY <1>1, <1>3, <2>1
  <2>3. \A j \in 1 .. Len(t) : t[j].id # log[n].id
    BY <1>1, <1>8 DEF Known
  <2>4. ASSUME NEW i \in 1 .. Len(u), NEW j \in 1 .. Len(u), u[i].id = u[j].id PROVE i = j
    <3>1. \A x \in 1 .. Len(u) : x \in 1 .. Len(t) \/ x = Len(t) + 1
      BY <1>1, <2>2
    <3>2. CASE i \in 1 .. Len(t) /\ j \in 1 .. Len(t)
      <4>1. t[i].id = t[j].id
        BY <2>2, <2>4, <3>2
      <4> QED
        BY <3>2, <4>1 DEF CcTable
    <3>3. CASE i \in 1 .. Len(t) /\ j = Len(t) + 1
      BY <1>3, <2>2, <2>3, <2>4, <3>3
    <3>4. CASE i = Len(t) + 1 /\ j \in 1 .. Len(t)
      BY <1>3, <2>2, <2>3, <2>4, <3>4
    <3> QED
      BY <3>1, <3>2, <3>3, <3>4
  <2>5. ASSUME source # "postgresql", NEW i \in 1 .. Len(u) PROVE u[i].id = i
    <3>1. CASE i \in 1 .. Len(t)
      <4>1. u[i] = t[i] /\ t[i].id = i
        BY <2>2, <2>5, <3>1 DEF CcTable
      <4> QED
        BY <4>1
    <3>2. CASE i = Len(t) + 1
      <4>1. log[n].id >= 1
        BY DEF CcInv, CcLog, CcPlace
      <4>2. log[n].id \notin 1 .. Len(t)
        BY <2>3, <2>5 DEF CcTable
      <4>3. ~(Len(t) + 1 < log[n].id)
        <5>1. Len(t) + 1 < log[n].id => Len(t) + 1 \in 1 .. log[n].id - 1
          BY <1>1
        <5>2. Len(t) + 1 \notin 1 .. Len(t)
          BY <1>1
        <5> QED
          BY <1>5, <2>5, <5>1, <5>2
      <4>4. log[n].id = Len(t) + 1
        BY <1>1, <4>1, <4>2, <4>3
      <4> QED
        BY <1>3, <2>2, <3>2, <4>4
    <3> QED
      BY <1>1, <2>2, <3>1, <3>2
  <2>6. ASSUME source # "postgresql", NEW m \in 1 .. n PROVE Known(u, log[m].id)
    <3>1. CASE m = n
      <4>1. Len(t) + 1 \in DOMAIN u /\ u[Len(t) + 1].id = log[m].id
        BY <1>1, <1>3, <2>2, <3>1
      <4> QED
        BY <4>1 DEF Known
    <3>2. CASE m # n
      <4>1. Known(t, log[m].id)
        BY <1>6, <2>6, <3>2 DEF CcHas
      <4>2. PICK e \in 1 .. Len(t) : t[e].id = log[m].id
        BY <1>1, <4>1 DEF Known
      <4>3. e \in DOMAIN u /\ u[e].id = log[m].id
        BY <1>1, <2>2, <4>2
      <4> QED
        BY <4>3 DEF Known
    <3> QED
      BY <3>1, <3>2
  <2>7. CcTable(u) /\ CcGrows(t, u)
    <3>1. row.version = NOTHING
      BY <1>2 DEF CcRow
    <3>2. \A j \in 1 .. Len(u) : j > Len(t) => u[j].version = NOTHING
      BY <1>1, <2>2, <3>1
    <3> QED
      BY <1>1, <2>2, <2>4, <2>5, <3>2 DEF CcTable, CcGrows
  <2>8. source # "postgresql" => CcHas(u, n)
    BY <2>6 DEF CcHas
  <2> QED
    BY <1>4, <2>7, <2>8
<1> QED
  BY <1>7, <1>8

\* Storing a batch: a longer table, and everything up to the batch's end is in it.
LEMMA CcStoring ==
    ASSUME CcInv, NEW b \in Seq(1 .. Len(log)),
           NEW from, source # "postgresql" => /\ from \in Nat /\ CcPassed(from)
                                              /\ \A i \in 1 .. Len(b) : b[i] = from + i
    PROVE  LET t == StoredUpTo(b)[Len(b)] IN
           /\ CcTable(t) /\ CcGrows(events, t)
           /\ source # "postgresql" => CcHas(t, from + Len(b))
<1> DEFINE S == Seq(EventRow)
           m == Len(b)
           F == [p \in (1 .. m) \X S |-> CcStored(p[2], b[p[1]])]
           IsStored(f) == f = [i \in 0 .. m |-> IF i = 0 THEN events ELSE CcStored(f[i - 1], b[i])]
<1>1. m \in Nat /\ events \in S /\ Len(log) \in Nat /\ \A i \in 1 .. m : b[i] \in 1 .. Len(log)
  BY CcTypes DEF CcInv
<1>2. ASSUME NEW i \in 1 .. m, NEW t \in S PROVE CcStored(t, b[i]) \in S
  <2>1. log[b[i]] \in Entry
    BY <1>1, CcTypes DEF CcInv
  <2>2. CcRow(b[i]) \in EventRow
    BY <2>1 DEF CcRow, EventRow, Entry, NOTHING
  <2> QED
    BY <2>2 DEF CcStored
<1>3. \A i \in 1 .. m : \A t \in S : F[<<i, t>>] \in S /\ F[<<i, t>>] = CcStored(t, b[i])
  BY <1>2
<1>4. PICK f : IsLoop(f, m, S, events, F)
  <2> HIDE DEF F, S
  <2> QED
    BY <1>1, <1>3, Loop
<1>5. /\ f = [i \in 0 .. m |-> f[i]] /\ f[0] = events
      /\ \A i \in 1 .. m : f[i] = CcStored(f[i - 1], b[i])
  <2> HIDE DEF F, S
  <2>1. \A i \in 1 .. m : f[i - 1] \in S
    <3>1. f \in [0 .. m -> S]
      BY <1>4 DEF IsLoop
    <3>2. \A i \in 1 .. m : i - 1 \in 0 .. m
      BY <1>1
    <3> QED
      BY <3>1, <3>2
  <2> QED
    BY <1>3, <1>4, <2>1 DEF IsLoop
<1>6. IsStored(f)
  <2>1. \A i \in 0 .. m : i = 0 \/ i \in 1 .. m
    BY <1>1
  <2>2. \A i \in 0 .. m : f[i] = IF i = 0 THEN events ELSE CcStored(f[i - 1], b[i])
    BY <1>5, <2>1
  <2> QED
    BY <1>5, <2>2
<1>7. StoredUpTo(b) = CHOOSE g : IsStored(g)
  BY DEF StoredUpTo, CcStored, CcRow
<1>8. IsStored(StoredUpTo(b))
  <2> HIDE DEF IsStored
  <2> QED
    BY <1>6, <1>7
<1>9. PICK g : g = StoredUpTo(b)
  OBVIOUS
<1>10. g[0] = events /\ \A i \in 1 .. m : g[i] = CcStored(g[i - 1], b[i])
  <2>1. g = [i \in 0 .. m |-> IF i = 0 THEN events ELSE CcStored(g[i - 1], b[i])]
    BY <1>8, <1>9
  <2>2. \A i \in 0 .. m : g[i] = IF i = 0 THEN events ELSE CcStored(g[i - 1], b[i])
    <3> HIDE DEF m
    <3> QED
      BY <2>1, Zenon
  <2>3. 0 \in 0 .. m /\ \A i \in 1 .. m : i \in 0 .. m /\ i # 0
    BY <1>1
  <2> QED
    BY <2>2, <2>3
<1> DEFINE T == {i \in 0 .. m : /\ CcTable(g[i]) /\ CcGrows(events, g[i])
                                /\ source # "postgresql" => CcHas(g[i], from + i)}
<1>11. 0 \in T
  <2>1. CcTable(events) /\ CcGrows(events, events)
    BY <1>1 DEF CcTable, CcGrows, CcInv, CcEvents
  <2>2. source # "postgresql" => CcHas(events, from)
    BY DEF CcHas, CcPassed, Known, StoredIds
  <2>3. source # "postgresql" => from + 0 = from
    OBVIOUS
  <2> QED
    BY <1>1, <1>10, <2>1, <2>2, <2>3
<1>12. ASSUME NEW i \in 1 .. m, i - 1 \in T PROVE i \in T
  <2>1. PICK t : t = g[i - 1]
    OBVIOUS
  <2>2. /\ CcTable(t) /\ CcGrows(events, t)
        /\ source # "postgresql" => CcHas(t, from + (i - 1))
    BY <1>12, <2>1
  <2>3. g[i] = CcStored(t, b[i])
    BY <1>10, <2>1
  <2>4. source # "postgresql" => b[i] - 1 = from + (i - 1) /\ b[i] = from + i
    BY <1>1
  <2>5. source # "postgresql" => CcHas(t, b[i] - 1)
    BY <2>2, <2>4
  <2>6. /\ CcTable(g[i]) /\ CcGrows(t, g[i])
        /\ source # "postgresql" => CcHas(g[i], b[i])
    BY <1>1, <2>2, <2>3, <2>5, CcStoreOne
  <2>7. CcGrows(events, g[i])
    <3>1. PICK u : u = g[i]
      OBVIOUS
    <3>2. u \in Seq(EventRow) /\ t \in Seq(EventRow) /\ events \in Seq(EventRow)
      BY <1>1, <2>2, <2>6, <3>1 DEF CcTable
    <3>3. CcGrows(t, u) /\ CcGrows(events, t)
      BY <2>2, <2>6, <3>1
    <3>4. CcGrows(events, u)
      <4>1. /\ Len(u) \in Nat /\ Len(t) \in Nat /\ Len(events) \in Nat
            /\ Len(u) >= Len(t) /\ Len(t) >= Len(events)
        BY <3>2, <3>3 DEF CcGrows
      <4>2. \A j \in 1 .. Len(events) : u[j] = events[j]
        BY <3>3, <4>1 DEF CcGrows
      <4>3. ASSUME NEW j \in 1 .. Len(u), j > Len(events) PROVE u[j].version = NOTHING
        <5>1. j \in 1 .. Len(t) => u[j] = t[j] /\ t[j].version = NOTHING
          BY <3>3, <4>3 DEF CcGrows
        <5>2. j \notin 1 .. Len(t) => u[j].version = NOTHING
          BY <3>3, <4>1, <4>3 DEF CcGrows
        <5> QED
          BY <5>1, <5>2
      <4> QED
        BY <4>1, <4>2, <4>3 DEF CcGrows
    <3> QED
      BY <3>1, <3>4
  <2>8. source # "postgresql" => CcHas(g[i], from + i)
    BY <2>4, <2>6
  <2> QED
    BY <1>1, <2>6, <2>7, <2>8
<1>13. \A i \in 0 .. m : i \in T
  <2> HIDE DEF T
  <2> QED
    BY <1>1, <1>11, <1>12, UpTo
<1>14. m \in T
  BY <1>1, <1>13
<1> QED
  BY <1>9, <1>14


\* What has grown still holds what was stored.
LEMMA CcGrown ==
    ASSUME CcInv, CcTable(events'), CcGrows(events, events'), source' = source
    PROVE  /\ events' \in Seq(EventRow) /\ CcEvents'
           /\ DOMAIN events \subseteq DOMAIN events' /\ StoredIds \subseteq StoredIds'
<1>1. /\ events' \in Seq(EventRow) /\ Len(events) \in Nat /\ Len(events') \in Nat
      /\ DOMAIN events = 1 .. Len(events) /\ DOMAIN events' = 1 .. Len(events')
  BY CcTypes DEF CcInv, CcTable
<1>2. DOMAIN events \subseteq DOMAIN events'
  BY <1>1 DEF CcGrows
<1>3. \A e \in DOMAIN events : events'[e] = events[e]
  BY <1>1 DEF CcGrows
<1>4. StoredIds \subseteq StoredIds'
  BY <1>2, <1>3 DEF StoredIds
<1> QED
  BY <1>1, <1>2, <1>4 DEF CcTable, CcEvents

\* A batch is stored: the offset, or what is to be acknowledged, moves to its end.
LEMMA CcStore ==
    ASSUME CcInv, NEW c \in Consumers, Store(c)
    PROVE  CcInv'
<1>1. PICK b : b = fetched[c]
  OBVIOUS
<1>2. /\ b \in Seq(1 .. Len(log)) /\ Len(b) \in Nat /\ Len(b) >= 1
      /\ source # "postgresql" => CcRun(b)
  <2>1. CcRun(fetched[c]) => CcRun(b)
    BY <1>1 DEF CcRun
  <2> QED
    BY <1>1, <2>1 DEF Store, CcInv, CcConsumer
<1>3. PICK from : source # "postgresql" => /\ from \in Nat /\ CcPassed(from)
                                           /\ \A i \in 1 .. Len(b) : b[i] = from + i
  BY <1>2 DEF CcRun
<1>4. PICK k : k = Len(b)
  OBVIOUS
<1>5. /\ Last(b) = b[k] /\ b[k] \in 1 .. Len(log) /\ Len(log) \in Nat
      /\ source # "postgresql" => b[k] = from + k
  <2>1. k \in 1 .. Len(b)
    BY <1>2, <1>4
  <2> QED
    BY <1>2, <1>3, <1>4, <2>1, CcTypes DEF Last, CcInv
<1>6. events' = StoredUpTo(b)[k]
  BY <1>1, <1>4 DEF Store
<1>7. /\ CcTable(StoredUpTo(b)[k]) /\ CcGrows(events, StoredUpTo(b)[k])
      /\ source # "postgresql" => CcHas(StoredUpTo(b)[k], from + k)
  BY <1>2, <1>3, <1>4, CcStoring
<1>8. UNCHANGED <<source, log, versions, making, faults>>
  BY DEF Store
<1>9. /\ events' \in Seq(EventRow) /\ CcEvents'
      /\ DOMAIN events \subseteq DOMAIN events' /\ StoredIds \subseteq StoredIds'
  BY <1>6, <1>7, <1>8, CcGrown
<1>10. source # "postgresql" => CcPassed(b[k])'
  <2>1. source # "postgresql" => CcHas(events', b[k])
    BY <1>5, <1>6, <1>7
  <2>2. ASSUME source # "postgresql", NEW n \in 1 .. b[k] PROVE log'[n].id \in StoredIds'
    <3>1. Known(events', log[n].id)
      BY <2>1, <2>2 DEF CcHas
    <3> QED
      BY <1>8, <3>1 DEF Known, StoredIds
  <2> QED
    BY <2>2 DEF CcPassed
<1>11. PICK o : o = IF source = "kafka" THEN offset ELSE b[k]
  OBVIOUS
<1>12. PICK a : a = IF source = "kafka" THEN b[k] ELSE 0
  OBVIOUS
<1>13. /\ o \in 0 .. Len(log) /\ offset' = o
       /\ source # "postgresql" => CcPassed(o)'
  <2>1. offset \in 0 .. Len(log) /\ offset' = o
    BY <1>1, <1>5, <1>11, CcTypes DEF Store, CcInv
  <2>2. source # "postgresql" => \A n \in 1 .. offset : log[n].id \in StoredIds'
    BY <1>9 DEF CcInv, CcPassed
  <2>3. CASE source = "kafka"
    BY <1>8, <1>11, <2>1, <2>2, <2>3 DEF CcPassed
  <2>4. CASE source # "kafka"
    BY <1>5, <1>10, <1>11, <2>1, <2>4
  <2> QED
    BY <2>3, <2>4
<1>14. /\ a \in 0 .. Len(log) /\ acking' = [acking EXCEPT ![c] = a]
       /\ source # "postgresql" => CcPassed(a)'
  <2>1. a \in 0 .. Len(log) /\ acking' = [acking EXCEPT ![c] = a]
    BY <1>1, <1>5, <1>12 DEF Store
  <2>2. CASE source = "kafka"
    BY <1>10, <1>12, <2>1, <2>2
  <2>3. CASE source # "kafka"
    <3>1. \A n \in 1 .. a : FALSE
      BY <1>12, <2>3
    <3> QED
      BY <2>1, <3>1 DEF CcPassed
  <2> QED
    BY <2>2, <2>3
<1>15. fetched' = [fetched EXCEPT ![c] = NoBatch] /\ faults' \in 0 .. MaxFaults
  BY DEF Store, CcInv, CaptureTypeOK
<1> QED
  BY <1>8, <1>9, <1>13, <1>14, <1>15, CcWithConsumer

\* A batch is lost.
LEMMA CcStoreFails ==
    ASSUME CcInv, NEW c \in Consumers, StoreFails(c)
    PROVE  CcInv'
<1>1. PICK a, o : a = acking[c] /\ o = offset
  OBVIOUS
<1>2. UNCHANGED <<source, log, offset, events, acking, versions, making>>
  BY DEF StoreFails
<1>3. /\ a \in 0 .. Len(log) /\ o \in 0 .. Len(log)
      /\ source # "postgresql" => CcPassed(a) /\ CcPassed(o)
  <2>1. CcPassed(acking[c]) => CcPassed(a)
    BY <1>1 DEF CcPassed
  <2>2. CcPassed(offset) => CcPassed(o)
    BY <1>1 DEF CcPassed
  <2> QED
    BY <1>1, <2>1, <2>2, CcTypes DEF CcInv, CcConsumer
<1>4. source # "postgresql" => CcPassed(a)' /\ CcPassed(o)'
  BY <1>2, <1>3 DEF CcPassed, StoredIds
<1>5. /\ events' \in Seq(EventRow) /\ CcEvents'
      /\ DOMAIN events \subseteq DOMAIN events' /\ StoredIds \subseteq StoredIds'
  BY <1>2, CcTypes DEF CcInv, CcEvents, StoredIds
<1>6. faults' \in 0 .. MaxFaults /\ fetched' = [fetched EXCEPT ![c] = NoBatch]
  BY CaptureConstants DEF StoreFails, CcInv, CaptureTypeOK
<1>7. acking' = [acking EXCEPT ![c] = a] /\ offset' = o
  BY <1>1, <1>2 DEF CcInv, CaptureTypeOK
<1> QED
  BY <1>2, <1>3, <1>4, <1>5, <1>6, <1>7, CcWithConsumer

\* The acknowledgement: the offset moves to where everything is stored, or is lost.
LEMMA CcAck ==
    ASSUME CcInv, NEW c \in Consumers, Ack(c)
    PROVE  CcInv'
<1>1. PICK b, o : b = fetched[c] /\ o = offset'
  OBVIOUS
<1>2. UNCHANGED <<source, log, events, fetched, versions, making>> /\ acking' = [acking EXCEPT ![c] = 0]
  BY DEF Ack
<1>3. /\ o \in 0 .. Len(log) /\ offset' = o
      /\ source # "postgresql" => CcPassed(o)
  <2>1. CASE o = acking[c]
    <3>1. CcPassed(acking[c]) => CcPassed(o)
      BY <2>1 DEF CcPassed
    <3> QED
      BY <1>1, <2>1, <3>1 DEF CcInv, CcConsumer
  <2>2. CASE o = offset
    <3>1. CcPassed(offset) => CcPassed(o)
      BY <2>2 DEF CcPassed
    <3> QED
      BY <1>1, <2>2, <3>1, CcTypes DEF CcInv
  <2> QED
    BY <1>1, <2>1, <2>2 DEF Ack
<1>4. PICK a : a = 0
  OBVIOUS
<1>5. a \in 0 .. Len(log) /\ acking' = [acking EXCEPT ![c] = a] /\ CcPassed(a)'
  <2>1. \A n \in 1 .. a : FALSE
    BY <1>4
  <2> QED
    BY <1>2, <1>4, <2>1, CcTypes DEF CcPassed, CcInv
<1>6. source # "postgresql" => CcPassed(a)' /\ CcPassed(o)'
  BY <1>2, <1>3, <1>5 DEF CcPassed, StoredIds
<1>7. /\ events' \in Seq(EventRow) /\ CcEvents'
      /\ DOMAIN events \subseteq DOMAIN events' /\ StoredIds \subseteq StoredIds'
  BY <1>2, CcTypes DEF CcInv, CcEvents, StoredIds
<1>8. faults' \in 0 .. MaxFaults
  BY CaptureConstants DEF Ack, CcInv, CaptureTypeOK
<1>9. fetched' = [fetched EXCEPT ![c] = b]
  BY <1>1, <1>2 DEF CcInv, CaptureTypeOK
<1>10. b # NoBatch => /\ b \in Seq(1 .. Len(log)) /\ Len(b) >= 1
                      /\ source # "postgresql" => CcRun(b)
  <2>1. CcRun(fetched[c]) => CcRun(b)
    BY <1>1 DEF CcRun
  <2> QED
    BY <1>1, <2>1 DEF CcInv, CcConsumer
<1> QED
  BY <1>2, <1>3, <1>5, <1>6, <1>7, <1>8, <1>9, <1>10, CcWithConsumer


-----------------------------------------------------------------------------
(* Materialization, and the whole. *)

\* Only the versions of events change.
LEMMA CcMarked ==
    ASSUME CcInv, UNCHANGED <<source, log, offset, fetched, acking, faults>>,
           events' \in Seq(EventRow), Len(events') = Len(events),
           \A e \in 1 .. Len(events) : events'[e].id = events[e].id,
           versions' \in Seq(DataVersion),
           making' \in [Makers -> SUBSET Nat],
           \A m \in Makers : making'[m] \subseteq DOMAIN events
    PROVE  CcInv'
<1>1. /\ Len(events) \in Nat /\ DOMAIN events = 1 .. Len(events) /\ DOMAIN events' = 1 .. Len(events)
  BY CcTypes DEF CcInv
<1>2. StoredIds' = StoredIds
  BY <1>1 DEF StoredIds
<1>3. CaptureTypeOK'
  BY DEF CcInv, CaptureTypeOK
<1>4. CcLog'
  <2>1. \A n : CcPlace(n) => CcPlace(n)'
    BY DEF CcPlace
  <2>2. ChangeIds' = ChangeIds
    BY DEF ChangeIds
  <2> QED
    BY <2>1, <2>2 DEF CcInv, CcLog
<1>5. CcEvents'
  BY <1>1 DEF CcInv, CcEvents
<1>6. \A n : CcPassed(n) => CcPassed(n)'
  BY <1>2 DEF CcPassed
<1>7. \A b : CcRun(b) => CcRun(b)'
  BY <1>6 DEF CcRun
<1>8. ASSUME NEW c \in Consumers PROVE CcConsumer(c)'
  <2>1. PICK b, a : b = fetched[c] /\ a = acking[c]
    OBVIOUS
  <2>2. CcRun(fetched[c]) => CcRun(b)
    BY <2>1 DEF CcRun
  <2>3. CcRun(b)' => CcRun(fetched[c])'
    BY <2>1 DEF CcRun
  <2>4. CcPassed(acking[c]) => CcPassed(a)
    BY <2>1 DEF CcPassed
  <2>5. CcPassed(a)' => CcPassed(acking[c])'
    BY <2>1 DEF CcPassed
  <2> QED
    BY <1>6, <1>7, <2>1, <2>2, <2>3, <2>4, <2>5 DEF CcInv, CcConsumer
<1>9. source # "postgresql" => CcPassed(offset)'
  <2>1. PICK o : o = offset
    OBVIOUS
  <2>2. CcPassed(offset) => CcPassed(o)
    BY <2>1 DEF CcPassed
  <2>3. CcPassed(o)' => CcPassed(offset)'
    BY <2>1 DEF CcPassed
  <2> QED
    BY <1>6, <2>2, <2>3 DEF CcInv
<1> QED
  BY <1>1, <1>3, <1>4, <1>5, <1>8, <1>9 DEF CcInv

LEMMA CcReadPending ==
    ASSUME CcInv, NEW m \in Makers, ReadPending(m)
    PROVE  CcInv'
<1>1. /\ events \in Seq(EventRow) /\ Len(events) \in Nat /\ DOMAIN events = 1 .. Len(events)
  BY CcTypes DEF CcInv
<1>2. PICK p : p = {e \in DOMAIN events : events[e].version = NOTHING}
  OBVIOUS
<1>3. making' = [making EXCEPT ![m] = p] /\ p \subseteq DOMAIN events
  BY <1>2 DEF ReadPending
<1>4. making' \in [Makers -> SUBSET Nat] /\ \A n \in Makers : making'[n] \subseteq DOMAIN events
  BY <1>1, <1>3 DEF CcInv, CaptureTypeOK
<1>5. versions' \in Seq(DataVersion) /\ UNCHANGED <<source, log, offset, events, fetched, acking, faults>>
  BY DEF ReadPending, CcInv, CaptureTypeOK
<1> QED
  BY <1>1, <1>4, <1>5, CcMarked

\* What a fold makes is a data version.
LEMMA CcFolded ==
    ASSUME CcInv, NEW es, es \subseteq DOMAIN events, es # {}
    PROVE  Folded(es) \in DataVersion
<1>1. /\ Len(events) \in Nat /\ DOMAIN events = 1 .. Len(events)
      /\ \A e \in 1 .. Len(events) : events[e] \in EventRow
  BY CcTypes DEF CcInv
<1>2. Min(es) \in Nat /\ Max(es) \in Nat
  BY <1>1, CcMinMax
<1>3. PICK keys : keys = {events[e].key : e \in es}
  OBVIOUS
<1>4. keys \subseteq Keys
  BY <1>1, <1>3 DEF EventRow
<1>5. ASSUME NEW k \in keys
      PROVE  events[Max({e \in es : events[e].key = k})].image \in Images \union {DELETED}
  <2>1. PICK T : T = {e \in es : events[e].key = k}
    OBVIOUS
  <2>2. T \subseteq 1 .. Len(events) /\ T # {}
    BY <1>1, <1>3, <2>1
  <2>3. Max(T) \in 1 .. Len(events)
    BY <1>1, <2>2, CcMinMax
  <2> QED
    BY <1>1, <2>1, <2>3 DEF EventRow
<1>6. PICK net : net = Net(es)
  OBVIOUS
<1>7. /\ net = [k \in keys |-> events[Max({e \in es : events[e].key = k})].image]
  BY <1>3, <1>6 DEF Net
<1>8. DOMAIN net = keys /\ \A k \in keys : net[k] \in Images \union {DELETED}
  BY <1>5, <1>7
<1>9. PICK put : put = {k \in DOMAIN net : net[k] # DELETED}
  OBVIOUS
<1>10. [k \in put |-> net[k]] \in [put -> Images] /\ put \subseteq Keys
  BY <1>4, <1>8, <1>9
<1>11. Folded(es) = [name |-> <<Min(es), Max(es)>>, parent |-> Len(versions),
                     rows |-> [k \in put |-> net[k]], deleted |-> DOMAIN net \ put]
  BY <1>6, <1>9 DEF Folded
<1>12. Len(versions) \in Nat
  BY DEF CcInv, CaptureTypeOK
<1>13. [k \in put |-> net[k]] \in UNION {[K -> Images] : K \in SUBSET Keys}
  BY <1>10
<1>14. DOMAIN net \ put \in SUBSET Keys
  BY <1>4, <1>8
<1>15. <<Min(es), Max(es)>> \in Nat \X Nat
  BY <1>2
<1> QED
  BY <1>11, <1>12, <1>13, <1>14, <1>15 DEF DataVersion

LEMMA CcMaterialize ==
    ASSUME CcInv, NEW m \in Makers, Materialize(m)
    PROVE  CcInv'
<1>1. /\ events \in Seq(EventRow) /\ Len(events) \in Nat /\ DOMAIN events = 1 .. Len(events)
      /\ \A e \in 1 .. Len(events) : events[e] \in EventRow
  BY CcTypes DEF CcInv
<1>2. PICK es : es = making[m]
  OBVIOUS
<1>3. es \subseteq DOMAIN events /\ es # {}
  BY <1>2 DEF CcInv, Materialize
<1>4. PICK v : v = Folded(es)
  OBVIOUS
<1>5. v \in DataVersion
  BY <1>3, <1>4, CcFolded
<1>6. UNCHANGED <<source, log, offset, fetched, acking, faults>>
  BY DEF Materialize
<1>7. /\ making' \in [Makers -> SUBSET Nat]
      /\ \A n \in Makers : making'[n] \subseteq DOMAIN events
  <2>1. making' = [making EXCEPT ![m] = {}]
    BY DEF Materialize
  <2> QED
    BY <2>1 DEF CcInv, CaptureTypeOK
<1>8. versions \in Seq(DataVersion) /\ Len(versions) \in Nat /\ DOMAIN versions = 1 .. Len(versions)
  BY DEF CcInv, CaptureTypeOK
<1>9. PICK id : id = IF Named(v) = {} THEN Len(versions) + 1 ELSE Min(Named(v))
  OBVIOUS
<1>10. id \in Nat
  <2>1. CASE Named(v) = {}
    BY <1>8, <1>9, <2>1
  <2>2. CASE Named(v) # {}
    <3>1. Named(v) \subseteq 1 .. Len(versions)
      BY <1>8 DEF Named
    <3>2. Min(Named(v)) \in 1 .. Len(versions)
      BY <1>8, <2>2, <3>1, CcMinMax
    <3> QED
      BY <1>8, <1>9, <2>2, <3>2
  <2> QED
    BY <2>1, <2>2
<1>11. CASE UNCHANGED <<versions, events>>
  BY <1>1, <1>6, <1>7, <1>8, <1>11, CcMarked
<1>12. CASE /\ versions' = IF Named(v) = {} THEN Append(versions, v) ELSE versions
            /\ events' = [e \in DOMAIN events |->
                             IF e \in es THEN [events[e] EXCEPT !.version = id] ELSE events[e]]
  <2>1. versions' \in Seq(DataVersion)
    <3>1. Append(versions, v) \in Seq(DataVersion)
      BY <1>5, <1>8
    <3> QED
      BY <1>8, <1>12, <3>1
  <2>2. ASSUME NEW e \in 1 .. Len(events)
        PROVE  events'[e] \in EventRow /\ events'[e].id = events[e].id
    <3>1. CASE e \in es
      <4>1. events'[e] = [events[e] EXCEPT !.version = id]
        BY <1>1, <1>12, <3>1
      <4>2. PICK r : r = events[e]
        OBVIOUS
      <4>3. r \in EventRow
        BY <1>1, <4>2
      <4>4. [r EXCEPT !.version = id] \in EventRow /\ [r EXCEPT !.version = id].id = r.id
        BY <1>10, <4>3 DEF EventRow
      <4> QED
        BY <4>1, <4>2, <4>4
    <3>2. CASE e \notin es
      BY <1>1, <1>12, <3>2
    <3> QED
      BY <3>1, <3>2
  <2>3. DOMAIN events' = 1 .. Len(events) /\ events' = [e \in 1 .. Len(events) |-> events'[e]]
    BY <1>1, <1>12
  <2>4. events' \in [1 .. Len(events) -> EventRow]
    BY <2>2, <2>3
  <2>5. events' \in Seq(EventRow)
    BY <1>1, <2>4, SeqDef
  <2>6. Len(events') = Len(events)
    BY <1>1, <2>3, <2>5
  <2> QED
    BY <1>6, <1>7, <2>1, <2>2, <2>5, <2>6, CcMarked
<1> QED
  <2>1. \/ UNCHANGED <<versions, events>>
        \/ /\ versions' = IF Named(v) = {} THEN Append(versions, v) ELSE versions
           /\ events' = [e \in DOMAIN events |->
                            IF e \in es THEN [events[e] EXCEPT !.version = id] ELSE events[e]]
    BY <1>2, <1>4, <1>9 DEF Materialize
  <2> QED
    BY <1>11, <1>12, <2>1

LEMMA CcInitial == CaptureInit => CcInv
<1> SUFFICES ASSUME CaptureInit PROVE CcInv
  OBVIOUS
<1>1. Len(log) = 0 /\ log \in Seq(Entry) /\ DOMAIN log = {} /\ offset = 0
  BY DEF CaptureInit
<1>2. Len(events) = 0 /\ events \in Seq(EventRow) /\ DOMAIN events = {}
  BY DEF CaptureInit
<1>3. CaptureTypeOK
  BY <1>1, <1>2, CaptureConstants DEF CaptureInit, CaptureTypeOK
<1>4. CcLog
  <2>1. ChangeIds = 1 .. 0
    BY <1>1 DEF ChangeIds
  <2> QED
    BY <1>1, <2>1 DEF CcLog
<1>5. CcEvents
  BY <1>2 DEF CcEvents
<1>6. CcPassed(0) /\ CcPassed(offset)
  BY <1>1 DEF CcPassed
<1>7. \A c \in Consumers : CcConsumer(c)
  BY <1>1, <1>6 DEF CcConsumer, CaptureInit
<1>8. \A m \in Makers : making[m] \subseteq DOMAIN events
  BY DEF CaptureInit
<1> QED
  BY <1>3, <1>4, <1>5, <1>6, <1>7, <1>8 DEF CcInv

LEMMA CcStep == CcInv /\ [CaptureNext]_captureVars => CcInv'
<1> SUFFICES ASSUME CcInv, [CaptureNext]_captureVars PROVE CcInv'
  OBVIOUS
<1>1. CASE UNCHANGED captureVars
  <2>1. /\ events' \in Seq(EventRow) /\ Len(events') = Len(events)
        /\ \A e \in 1 .. Len(events) : events'[e].id = events[e].id
        /\ UNCHANGED <<source, log, offset, fetched, acking, faults, versions, making, events>>
    BY <1>1, CcTypes DEF captureVars, CcInv
  <2>2. /\ versions' \in Seq(DataVersion) /\ making' \in [Makers -> SUBSET Nat]
        /\ \A m \in Makers : making'[m] \subseteq DOMAIN events
    BY <2>1 DEF CcInv, CaptureTypeOK
  <2> QED
    BY <2>1, <2>2, CcMarked
<1> QED
  BY <1>1, CcChange, CcEndTx, CcResend, CcFetch, CcStore, CcStoreFails, CcAck,
     CcReadPending, CcMaterialize DEF CaptureNext

\* What the invariant says of the table of events.
LEMMA CcAnswers == CcInv => EveryChangeOnce
<1> SUFFICES ASSUME CcInv PROVE EveryChangeOnce
  OBVIOUS
<1>1. /\ Len(events) \in Nat /\ DOMAIN events = 1 .. Len(events) /\ offset \in 0 .. Len(log)
  BY CcTypes DEF CcInv
<1>2. NothingSkipped
  BY DEF NothingSkipped, CcInv, CcPassed
<1>3. ASSUME NEW i \in DOMAIN events, NEW j \in DOMAIN events, i < j
      PROVE  /\ events[i].id # events[j].id
             /\ source # "postgresql" => events[i].id < events[j].id
  <2>1. events[i].id = events[j].id => i = j
    BY <1>1 DEF CcInv, CcEvents
  <2>2. source # "postgresql" => events[i].id = i /\ events[j].id = j
    BY <1>1 DEF CcInv, CcEvents
  <2> QED
    BY <1>1, <1>3, <2>1, <2>2
<1> QED
  BY <1>2, <1>3 DEF EveryChangeOnce, StoredOnceInOrder

\* For any number of consumers, keys, changes and faults: every change is stored once and
\* in order before the offset passes it, whatever is fetched twice, sent again or lost
\* between fetch, commit and acknowledgement (consumer.py run_cdc_once, store.py
\* store_events, kafka_cdc.py ack).
THEOREM CcAlwaysOnce == CaptureSpec => []EveryChangeOnce
<1>1. CaptureSpec => []CcInv
  BY CcInitial, CcStep, PTL DEF CaptureSpec
<1> QED
  BY <1>1, CcAnswers, PTL

-----------------------------------------------------------------------------
(***************************************************************************)
(* ChangeCapture: CleaningIsReplay, for one materialiser.  Each version     *)
(* folds the pending events that precede all others, so versions cut the   *)
(* table of events in order, and the version that has the newest event of  *)
(* a key is the newest version that says anything of that key.             *)
(***************************************************************************)

\* One process materializes.  Two that read the same pending events would fold them twice.
OneMaker == \A m, n \in Makers : m = n

\* The newest event of its key in a version.
RpLast(e, v) ==
    /\ events[e].version = v
    /\ \A f \in DOMAIN events : f > e /\ events[f].key = events[e].key => events[f].version # v

\* A version holds, of each key, what its newest event says.
RpVersion(v) ==
    /\ versions[v].name[2] \in DOMAIN events /\ events[versions[v].name[2]].version = v
    /\ \A e \in DOMAIN events : RpLast(e, v) =>
          IF events[e].image = DELETED
          THEN events[e].key \in versions[v].deleted /\ events[e].key \notin DOMAIN versions[v].rows
          ELSE /\ events[e].key \in DOMAIN versions[v].rows
               /\ versions[v].rows[events[e].key] = events[e].image
               /\ events[e].key \notin versions[v].deleted
    /\ \A k \in DOMAIN versions[v].rows \union versions[v].deleted :
          \E e \in DOMAIN events : RpLast(e, v) /\ events[e].key = k

\* Versions in the order of their events, what is pending last; a materialization has read
\* the oldest of what is pending.
RpInv ==
    /\ \A i, j \in DOMAIN events : i < j /\ events[j].version # NOTHING =>
          events[i].version # NOTHING /\ events[i].version <= events[j].version
    /\ \A i \in DOMAIN events : events[i].version <= Len(versions)
    /\ \A m \in Makers : \A j \in making[m] :
          /\ events[j].version = NOTHING
          /\ \A i \in DOMAIN events : i < j /\ events[i].version = NOTHING => i \in making[m]
    /\ \A v \in DOMAIN versions : RpVersion(v)

\* The greatest of a set of places.
LEMMA RpMax ==
    ASSUME NEW n \in Nat, NEW S, S \subseteq 0 .. n, S # {}
    PROVE  Max(S) \in S /\ \A y \in S : Max(S) >= y
<1>0. \A x \in S : x \in Nat
  OBVIOUS
<1>1. \E x \in S : \A y \in S : x >= y
  <2> DEFINE T == {n - x : x \in S}
  <2>1. T \subseteq Nat /\ T # {}
    <3>1. \A x \in S : n - x \in Nat
      OBVIOUS
    <3> QED
      BY <3>1
  <2>2. PICK t \in T : \A u \in T : t <= u
    BY <2>1, LeastNat
  <2>3. PICK x \in S : t = n - x
    BY <2>2
  <2>4. ASSUME NEW y \in S PROVE x >= y
    <3>1. n - y \in T
      OBVIOUS
    <3>2. n - x <= n - y
      BY <2>2, <2>3, <3>1
    <3>3. x \in Nat /\ y \in Nat
      BY <1>0
    <3> QED
      BY <3>2, <3>3
  <2> QED
    BY <2>4
<1> QED
  BY <1>1 DEF Max

LEMMA RpTypes ==
    ASSUME CcInv
    PROVE  /\ Len(events) \in Nat /\ DOMAIN events = 1 .. Len(events)
           /\ \A e \in DOMAIN events : /\ events[e].version \in Nat
                                       /\ events[e].image \in Images \union {DELETED}
           /\ Len(versions) \in Nat /\ DOMAIN versions = 1 .. Len(versions)
           /\ versions \in Seq(DataVersion)
           /\ \A m \in Makers : making[m] \subseteq DOMAIN events
<1>1. /\ Len(events) \in Nat /\ DOMAIN events = 1 .. Len(events)
      /\ \A e \in 1 .. Len(events) : events[e] \in EventRow
  BY CcTypes DEF CcInv
<1>2. versions \in Seq(DataVersion) /\ Len(versions) \in Nat /\ DOMAIN versions = 1 .. Len(versions)
  BY DEF CcInv, CaptureTypeOK
<1> QED
  BY <1>1, <1>2 DEF CcInv, EventRow

-----------------------------------------------------------------------------
(* What the invariant says of cleaning. *)

\* The events of a key in some versions, and what is so of the newest of them.
RpEvents(vs, k) == {x \in DOMAIN events : events[x].version \in vs /\ events[x].key = k}

RpIsNewest(vs, k, e) ==
    /\ e \in DOMAIN events /\ events[e].key = k /\ events[e].version \in vs
    /\ RpLast(e, events[e].version)
    /\ \A v \in vs : k \in DOMAIN versions[v].rows \union versions[v].deleted =>
          v <= events[e].version

LEMMA RpNewest ==
    ASSUME CcInv, RpInv, NEW vs \in SUBSET DOMAIN versions, NEW k, RpEvents(vs, k) # {}
    PROVE  RpIsNewest(vs, k, Max(RpEvents(vs, k)))
<1>0. PICK T, e : T = RpEvents(vs, k) /\ e = Max(T)
  OBVIOUS
<1>1. /\ Len(events) \in Nat /\ DOMAIN events = 1 .. Len(events)
      /\ \A f \in DOMAIN events : events[f].version \in Nat
      /\ Len(versions) \in Nat /\ DOMAIN versions = 1 .. Len(versions)
  BY RpTypes
<1>2. T \subseteq 0 .. Len(events) /\ T # {}
  BY <1>0, <1>1 DEF RpEvents
<1>3. e \in T /\ \A f \in T : e >= f
  BY <1>0, <1>1, <1>2, RpMax
<1>4. e \in DOMAIN events /\ events[e].key = k /\ events[e].version \in vs
  BY <1>0, <1>3 DEF RpEvents
<1>5. RpLast(e, events[e].version)
  <2> SUFFICES ASSUME NEW f \in DOMAIN events, f > e, events[f].key = events[e].key,
                      events[f].version = events[e].version
               PROVE  FALSE
    BY DEF RpLast
  <2>1. f \in T
    BY <1>0, <1>4 DEF RpEvents
  <2>2. e >= f
    BY <1>3, <2>1
  <2>3. e \in Nat /\ f \in Nat
    BY <1>1, <1>4
  <2> QED
    BY <2>2, <2>3
<1>6. ASSUME NEW v \in vs, k \in DOMAIN versions[v].rows \union versions[v].deleted
      PROVE  v <= events[e].version
  <2>1. PICK f \in DOMAIN events : RpLast(f, v) /\ events[f].key = k
    BY <1>6 DEF RpInv, RpVersion
  <2>2. events[f].version = v
    BY <2>1 DEF RpLast
  <2>3. f \in T
    BY <1>0, <2>1, <2>2 DEF RpEvents
  <2>4. f = e \/ f < e
    <3>1. e >= f
      BY <1>3, <2>3
    <3>2. e \in Nat /\ f \in Nat
      BY <1>1, <1>4
    <3> QED
      BY <3>1, <3>2
  <2>5. events[e].version # NOTHING
    BY <1>1, <1>4 DEF NOTHING
  <2> QED
    BY <1>1, <1>4, <2>2, <2>4, <2>5 DEF RpInv
<1> QED
  BY <1>0, <1>4, <1>5, <1>6 DEF RpIsNewest

\* What is left of the rows of some versions: of each key, what its newest event says.
LEMMA RpLeft ==
    ASSUME CcInv, RpInv, NEW vs \in SUBSET DOMAIN versions,
           \A v \in vs : DOMAIN versions[v].rows # {},
           NEW net, net = Net({e \in DOMAIN events : events[e].version \in vs}),
           NEW left, left = Unsuperseded(RowsOf(vs))
    PROVE  /\ \A r \in left : r.key \in DOMAIN net /\ r.image = net[r.key] /\ r.image # DELETED
           /\ \A k \in DOMAIN net : net[k] # DELETED => \E r \in left : r.key = k /\ r.image = net[k]
<1>1. /\ Len(events) \in Nat /\ DOMAIN events = 1 .. Len(events)
      /\ \A f \in DOMAIN events : events[f].version \in Nat
      /\ Len(versions) \in Nat /\ DOMAIN versions = 1 .. Len(versions)
      /\ versions \in Seq(DataVersion)
  BY RpTypes
<1>2. PICK S : S = {e \in DOMAIN events : events[e].version \in vs}
  OBVIOUS
<1>3. PICK newest : newest = [k \in {events[e].key : e \in S} |-> Max({e \in S : events[e].key = k})]
  OBVIOUS
<1>4. /\ DOMAIN net = {events[e].key : e \in S}
      /\ \A k \in DOMAIN net : net[k] = events[newest[k]].image
  <2>1. net = [k \in {events[e].key : e \in S} |-> events[Max({e \in S : events[e].key = k})].image]
    BY <1>2 DEF Net
  <2> QED
    BY <1>3, <2>1
<1>5. ASSUME NEW k \in DOMAIN net PROVE RpIsNewest(vs, k, newest[k])
  <2>1. RpEvents(vs, k) = {e \in S : events[e].key = k} /\ RpEvents(vs, k) # {}
    BY <1>2, <1>4 DEF RpEvents
  <2>2. newest[k] = Max(RpEvents(vs, k))
    BY <1>3, <1>4, <2>1
  <2>3. RpIsNewest(vs, k, Max(RpEvents(vs, k)))
    BY <2>1, RpNewest
  <2> QED
    BY <2>2, <2>3
<1>6. PICK rows : rows = RowsOf(vs)
  OBVIOUS
<1>7. /\ \A v \in vs : \A k \in DOMAIN versions[v].rows :
            [key |-> k, version |-> v, image |-> versions[v].rows[k]] \in rows
      /\ \A r \in rows : /\ r.version \in vs /\ r.key \in DOMAIN versions[r.version].rows
                         /\ r.image = versions[r.version].rows[r.key]
  BY <1>6 DEF RowsOf
<1>8. {r.version : r \in rows} = vs
  <2>1. ASSUME NEW v \in vs PROVE v \in {r.version : r \in rows}
    <3>1. PICK k : k \in DOMAIN versions[v].rows
      OBVIOUS
    <3>2. PICK r \in rows : r.version = v
      BY <1>7, <3>1
    <3> QED
      BY <3>2
  <2> QED
    BY <1>7, <2>1
<1>9. ASSUME NEW k
      PROVE  /\ DeletedIn(k, rows) \in Nat
             /\ DeletedIn(k, rows) = 0 \/ /\ DeletedIn(k, rows) \in vs
                                          /\ k \in versions[DeletedIn(k, rows)].deleted
             /\ \A v \in vs : k \in versions[v].deleted => v <= DeletedIn(k, rows)
  <2>1. PICK D : D = {0} \union {v \in vs : k \in versions[v].deleted}
    OBVIOUS
  <2>2. PICK d : d = Max(D)
    OBVIOUS
  <2>3. D \subseteq 0 .. Len(versions) /\ D # {}
    BY <1>1, <2>1
  <2>4. d \in D /\ \A v \in D : d >= v
    BY <1>1, <2>2, <2>3, RpMax
  <2>5. DeletedIn(k, rows) = d
    BY <1>8, <2>1, <2>2 DEF DeletedIn
  <2> QED
    BY <1>1, <2>1, <2>3, <2>4, <2>5
<1>10. ASSUME NEW r \in left
       PROVE  r.key \in DOMAIN net /\ r.image = net[r.key] /\ r.image # DELETED
  <2>1. /\ r \in rows /\ DeletedIn(r.key, rows) <= r.version
        /\ \A o \in rows : o.key = r.key => o.version <= r.version
    BY <1>6 DEF Unsuperseded
  <2>2. PICK k, v : k = r.key /\ v = r.version
    OBVIOUS
  <2>3. v \in vs /\ k \in DOMAIN versions[v].rows /\ r.image = versions[v].rows[k]
    BY <1>7, <2>1, <2>2
  <2>4. PICK f \in DOMAIN events : RpLast(f, v) /\ events[f].key = k
    BY <2>3 DEF RpInv, RpVersion
  <2>5. k \in DOMAIN net
    BY <1>2, <1>4, <2>3, <2>4 DEF RpLast
  <2>6. PICK e, w : e = newest[k] /\ w = events[e].version
    OBVIOUS
  <2>7. /\ e \in DOMAIN events /\ events[e].key = k /\ w \in vs /\ RpLast(e, w) /\ v <= w
    BY <1>5, <2>3, <2>5, <2>6 DEF RpIsNewest
  <2>8. /\ events[e].image = DELETED => k \in versions[w].deleted /\ k \notin DOMAIN versions[w].rows
        /\ events[e].image # DELETED =>
             k \in DOMAIN versions[w].rows /\ versions[w].rows[k] = events[e].image
    BY <2>7 DEF RpInv, RpVersion
  <2>9. events[e].image # DELETED
    <3> SUFFICES ASSUME events[e].image = DELETED PROVE FALSE
      OBVIOUS
    <3>1. w <= DeletedIn(k, rows) /\ w # v
      BY <1>9, <2>3, <2>7, <2>8
    <3> QED
      BY <1>1, <1>9, <2>1, <2>2, <2>3, <2>7, <3>1
  <2>10. w = v
    <3>1. [key |-> k, version |-> w, image |-> versions[w].rows[k]] \in rows
      BY <1>7, <2>7, <2>8, <2>9
    <3>2. w <= v
      BY <2>1, <2>2, <3>1
    <3> QED
      BY <1>1, <2>3, <2>7, <3>2
  <2> QED
    BY <1>4, <2>2, <2>3, <2>5, <2>6, <2>8, <2>9, <2>10
<1>11. ASSUME NEW k \in DOMAIN net, net[k] # DELETED
       PROVE  \E r \in left : r.key = k /\ r.image = net[k]
  <2>1. PICK e, w : e = newest[k] /\ w = events[e].version
    OBVIOUS
  <2>2. /\ e \in DOMAIN events /\ events[e].key = k /\ w \in vs /\ RpLast(e, w)
        /\ \A v \in vs : k \in DOMAIN versions[v].rows \union versions[v].deleted => v <= w
    BY <1>5, <2>1 DEF RpIsNewest
  <2>3. k \in DOMAIN versions[w].rows /\ versions[w].rows[k] = net[k]
    BY <1>4, <1>11, <2>1, <2>2 DEF RpInv, RpVersion
  <2>4. PICK r : r = [key |-> k, version |-> w, image |-> versions[w].rows[k]]
    OBVIOUS
  <2>5. r \in rows /\ r.key = k /\ r.version = w /\ r.image = net[k]
    BY <1>7, <2>2, <2>3, <2>4
  <2>6. \A o \in rows : o.key = k => o.version <= w
    BY <1>7, <2>2
  <2>7. DeletedIn(k, rows) <= w
    <3>1. w \in Nat /\ w >= 0
      BY <1>1, <2>2
    <3> QED
      BY <1>9, <2>2, <3>1
  <2>8. r \in left
    BY <1>6, <2>5, <2>6, <2>7 DEF Unsuperseded
  <2> QED
    BY <2>5, <2>8
<1> QED
  BY <1>10, <1>11

LEMMA RpCleans == CcInv /\ RpInv => CleaningIsReplay
<1> SUFFICES ASSUME CcInv, RpInv, NEW vs \in SUBSET DOMAIN versions,
                    \A v \in vs : DOMAIN versions[v].rows # {},
                    NEW net, net = Net({e \in DOMAIN events : events[e].version \in vs})
             PROVE  /\ {r.image : r \in Cleaned(vs)}
                         = {net[k] : k \in DOMAIN net} \ ({DELETED} \union Incomplete)
                    /\ \A r \in Cleaned(vs) : net[r.key] = r.image
  BY DEF CleaningIsReplay
<1>1. PICK left : left = Unsuperseded(RowsOf(vs))
  OBVIOUS
<1>2. /\ \A r \in left : r.key \in DOMAIN net /\ r.image = net[r.key] /\ r.image # DELETED
      /\ \A k \in DOMAIN net : net[k] # DELETED => \E r \in left : r.key = k /\ r.image = net[k]
  BY <1>1, RpLeft
<1>3. PICK cleaned : cleaned = Cleaned(vs)
  OBVIOUS
<1>4. cleaned = {r \in left : r = (CHOOSE o \in left : o.image = r.image) /\ r.image \notin Incomplete}
  BY <1>1, <1>3 DEF Cleaned
<1>5. \A r \in cleaned : r \in left /\ r.image \notin Incomplete
  BY <1>4
<1>6. ASSUME NEW k \in DOMAIN net, net[k] # DELETED, net[k] \notin Incomplete
      PROVE  \E r \in cleaned : r.image = net[k]
  <2>1. \E r \in left : r.image = net[k]
    BY <1>2, <1>6
  <2>2. PICK r : r = CHOOSE o \in left : o.image = net[k]
    OBVIOUS
  <2>3. r \in left /\ r.image = net[k]
    BY <2>1, <2>2
  <2>4. r = CHOOSE o \in left : o.image = r.image
    BY <2>2, <2>3
  <2>5. r \in cleaned
    BY <1>4, <1>6, <2>3, <2>4
  <2> QED
    BY <2>3, <2>5
<1>7. {r.image : r \in cleaned} \subseteq {net[k] : k \in DOMAIN net} \ ({DELETED} \union Incomplete)
  <2> SUFFICES ASSUME NEW r \in cleaned
               PROVE  r.image \in {net[k] : k \in DOMAIN net} \ ({DELETED} \union Incomplete)
    OBVIOUS
  <2>1. r \in left /\ r.image \notin Incomplete
    BY <1>5
  <2>2. r.key \in DOMAIN net /\ r.image = net[r.key] /\ r.image # DELETED
    BY <1>2, <2>1
  <2>3. r.image \in {net[k] : k \in DOMAIN net}
    BY <2>2
  <2> QED
    BY <2>1, <2>2, <2>3
<1>8. {net[k] : k \in DOMAIN net} \ ({DELETED} \union Incomplete) \subseteq {r.image : r \in cleaned}
  BY <1>6
<1> QED
  BY <1>2, <1>3, <1>5, <1>7, <1>8

-----------------------------------------------------------------------------
(* The steps. *)

LEMMA RpInitial == CaptureInit => RpInv
<1> SUFFICES ASSUME CaptureInit PROVE RpInv
  OBVIOUS
<1>1. /\ DOMAIN events = {} /\ DOMAIN versions = {}
      /\ \A m \in Makers : making[m] = {}
  BY DEF CaptureInit
<1> QED
  BY <1>1 DEF RpInv

\* The table of events goes on, and no version changes.
LEMMA RpGrown ==
    ASSUME CcInv, RpInv, CcInv', CcGrows(events, events'), UNCHANGED <<versions, making>>
    PROVE  RpInv'
<1>1. /\ Len(events) \in Nat /\ DOMAIN events = 1 .. Len(events)
      /\ \A e \in DOMAIN events : events[e].version \in Nat
      /\ Len(versions) \in Nat /\ DOMAIN versions = 1 .. Len(versions)
      /\ \A m \in Makers : making[m] \subseteq DOMAIN events
  BY RpTypes
<1>2. Len(events') \in Nat /\ DOMAIN events' = 1 .. Len(events')
  BY CcTypes DEF CcInv
<1>3. /\ DOMAIN events \subseteq DOMAIN events' /\ \A e \in DOMAIN events : events'[e] = events[e]
      /\ \A e \in DOMAIN events' : e \notin DOMAIN events =>
            events'[e].version = NOTHING /\ \A f \in DOMAIN events : f < e
  BY <1>1, <1>2 DEF CcGrows
<1>4. ASSUME NEW i \in DOMAIN events', NEW j \in DOMAIN events', i < j
      PROVE  j \in DOMAIN events => i \in DOMAIN events
  BY <1>1, <1>2, <1>4
<1>5. ASSUME NEW v \in DOMAIN versions PROVE RpVersion(v)'
  <2>1. v # NOTHING /\ RpVersion(v)
    BY <1>1 DEF NOTHING, RpInv
  <2>2. ASSUME NEW e \in DOMAIN events', RpLast(e, v)'
        PROVE  e \in DOMAIN events /\ RpLast(e, v)
    <3>1. events'[e].version = v
      BY <2>2 DEF RpLast
    <3>2. e \in DOMAIN events
      BY <1>3, <2>1, <3>1
    <3>3. ASSUME NEW f \in DOMAIN events, f > e, events[f].key = events[e].key
          PROVE  events[f].version # v
      <4>1. f \in DOMAIN events' /\ events'[f] = events[f] /\ events'[e] = events[e]
        BY <1>3, <3>2
      <4> QED
        BY <2>2, <3>3, <4>1 DEF RpLast
    <3> QED
      BY <1>3, <3>1, <3>2, <3>3 DEF RpLast
  <2>3. ASSUME NEW e \in DOMAIN events, RpLast(e, v) PROVE RpLast(e, v)'
    <3>1. ASSUME NEW f \in DOMAIN events', f > e, events'[f].key = events'[e].key
          PROVE  events'[f].version # v
      <4>1. CASE f \in DOMAIN events
        BY <1>3, <2>3, <3>1, <4>1 DEF RpLast
      <4>2. CASE f \notin DOMAIN events
        BY <1>3, <2>1, <4>2
      <4> QED
        BY <4>1, <4>2
    <3> QED
      BY <1>3, <2>3, <3>1 DEF RpLast
  <2>4. PICK w : w = versions[v] /\ w = versions'[v]
    OBVIOUS
  <2>5. w.name[2] \in DOMAIN events' /\ events'[w.name[2]].version = v
    BY <1>3, <2>1, <2>4 DEF RpVersion
  <2>6. ASSUME NEW e \in DOMAIN events', RpLast(e, v)'
        PROVE  IF events'[e].image = DELETED
               THEN events'[e].key \in w.deleted /\ events'[e].key \notin DOMAIN w.rows
               ELSE /\ events'[e].key \in DOMAIN w.rows /\ w.rows[events'[e].key] = events'[e].image
                    /\ events'[e].key \notin w.deleted
    <3>1. e \in DOMAIN events /\ RpLast(e, v)
      BY <2>2, <2>6
    <3>2. events'[e] = events[e]
      BY <1>3, <3>1
    <3> QED
      BY <2>1, <2>4, <3>1, <3>2 DEF RpVersion
  <2>7. ASSUME NEW k \in DOMAIN w.rows \union w.deleted
        PROVE  \E e \in DOMAIN events' : RpLast(e, v)' /\ events'[e].key = k
    <3>1. PICK e \in DOMAIN events : RpLast(e, v) /\ events[e].key = k
      BY <2>1, <2>4, <2>7 DEF RpVersion
    <3>2. e \in DOMAIN events' /\ events'[e] = events[e] /\ RpLast(e, v)'
      BY <1>3, <2>3, <3>1
    <3> QED
      BY <3>1, <3>2
  <2> QED
    BY <2>4, <2>5, <2>6, <2>7 DEF RpVersion
<1>6. \A i, j \in DOMAIN events' : i < j /\ events'[j].version # NOTHING =>
         events'[i].version # NOTHING /\ events'[i].version <= events'[j].version
  BY <1>3, <1>4 DEF RpInv
<1>7. \A i \in DOMAIN events' : events'[i].version <= Len(versions)
  BY <1>1, <1>3 DEF RpInv, NOTHING
<1>8. ASSUME NEW m \in Makers, NEW j \in making[m]
      PROVE  /\ events'[j].version = NOTHING
             /\ \A i \in DOMAIN events' : i < j /\ events'[i].version = NOTHING => i \in making[m]
  <2>1. j \in DOMAIN events /\ j \in DOMAIN events'
    BY <1>1, <1>3
  <2>2. \A i \in DOMAIN events' : i < j => i \in DOMAIN events /\ events'[i] = events[i]
    BY <1>3, <1>4, <2>1
  <2> QED
    BY <1>3, <2>1, <2>2 DEF RpInv
<1> QED
  BY <1>5, <1>6, <1>7, <1>8 DEF RpInv

\* A batch is stored.
LEMMA RpStore ==
    ASSUME CcInv, RpInv, CcInv', NEW c \in Consumers, Store(c)
    PROVE  RpInv'
<1>1. PICK b : b = fetched[c]
  OBVIOUS
<1>2. b \in Seq(1 .. Len(log)) /\ (source # "postgresql" => CcRun(b))
  <2>1. CcRun(fetched[c]) => CcRun(b)
    BY <1>1 DEF CcRun
  <2> QED
    BY <1>1, <2>1 DEF Store, CcInv, CcConsumer
<1>3. PICK from : source # "postgresql" => /\ from \in Nat /\ CcPassed(from)
                                           /\ \A i \in 1 .. Len(b) : b[i] = from + i
  BY <1>2 DEF CcRun
<1>4. CcGrows(events, StoredUpTo(b)[Len(b)])
  BY <1>2, <1>3, CcStoring
<1>5. events' = StoredUpTo(b)[Len(b)] /\ UNCHANGED <<versions, making>>
  BY <1>1 DEF Store
<1> QED
  BY <1>4, <1>5, RpGrown

\* A step that leaves the events alone.
LEMMA RpAside ==
    ASSUME CcInv, RpInv, CcInv', UNCHANGED <<events, versions, making>>
    PROVE  RpInv'
<1>1. Len(events) \in Nat
  BY RpTypes
<1>2. CcGrows(events, events')
  BY <1>1 DEF CcGrows
<1> QED
  BY <1>2, RpGrown

LEMMA RpReadPending ==
    ASSUME CcInv, RpInv, NEW m \in Makers, ReadPending(m)
    PROVE  RpInv'
<1>1. PICK pending : pending = {e \in DOMAIN events : events[e].version = NOTHING}
  OBVIOUS
<1>2. making' = [making EXCEPT ![m] = pending] /\ UNCHANGED <<events, versions>>
  BY <1>1 DEF ReadPending
<1>3. ASSUME NEW n \in Makers, NEW j \in making'[n]
      PROVE  /\ events[j].version = NOTHING
             /\ \A i \in DOMAIN events : i < j /\ events[i].version = NOTHING => i \in making'[n]
  <2>1. CASE n = m
    <3>1. making'[n] = pending
      BY <1>2, <2>1 DEF CcInv, CaptureTypeOK
    <3> QED
      BY <1>1, <3>1
  <2>2. CASE n # m
    <3>1. making'[n] = making[n]
      BY <1>2, <2>2 DEF CcInv, CaptureTypeOK
    <3> QED
      BY <3>1 DEF RpInv
  <2> QED
    BY <2>1, <2>2
<1>4. \A v \in DOMAIN versions : RpVersion(v)'
  <2>1. \A e, v : RpLast(e, v)' <=> RpLast(e, v)
    BY <1>2 DEF RpLast
  <2> QED
    BY <1>2, <2>1 DEF RpInv, RpVersion
<1> QED
  BY <1>2, <1>3, <1>4 DEF RpInv

\* The events of a version are those that were pending, and it is the newest.
LEMMA RpMaterialize ==
    ASSUME CcInv, RpInv, OneMaker, NEW m \in Makers, Materialize(m)
    PROVE  RpInv'
<1>1. /\ Len(events) \in Nat /\ DOMAIN events = 1 .. Len(events)
      /\ \A e \in DOMAIN events : events[e].version \in Nat
      /\ Len(versions) \in Nat /\ DOMAIN versions = 1 .. Len(versions)
      /\ versions \in Seq(DataVersion)
  BY RpTypes
<1>2. PICK es : es = making[m]
  OBVIOUS
<1>3. /\ es \subseteq DOMAIN events /\ es # {}
      /\ \A j \in es : events[j].version = NOTHING
      /\ \A j \in es : \A i \in DOMAIN events : i < j /\ events[i].version = NOTHING => i \in es
  BY <1>2 DEF CcInv, RpInv, Materialize
<1>4. PICK new : new = Folded(es)
  OBVIOUS
<1>5. PICK id : id = Len(versions) + 1
  OBVIOUS
<1>6. PICK net : net = Net(es)
  OBVIOUS
<1>7. /\ new.name[2] = Max(es) /\ Max(es) \in es
      /\ DOMAIN new.rows = {k \in DOMAIN net : net[k] # DELETED}
      /\ \A k \in DOMAIN new.rows : new.rows[k] = net[k]
      /\ new.deleted = {k \in DOMAIN net : net[k] = DELETED}
  <2>1. Max(es) \in es
    BY <1>1, <1>3, CcMinMax
  <2> QED
    BY <1>4, <1>6, <2>1 DEF Folded
<1>8. Named(new) = {}
  <2> SUFFICES ASSUME NEW i \in DOMAIN versions, versions[i].name = new.name PROVE FALSE
    BY DEF Named
  <2>1. events[Max(es)].version = i
    BY <1>7 DEF RpInv, RpVersion
  <2> QED
    BY <1>1, <1>3, <1>7, <2>1 DEF NOTHING
<1>9. /\ versions' = Append(versions, new)
      /\ events' = [e \in DOMAIN events |->
                       IF e \in es THEN [events[e] EXCEPT !.version = id] ELSE events[e]]
      /\ making' = [making EXCEPT ![m] = {}]
  <2>1. ~Conflicting(new)
    BY <1>8 DEF Conflicting
  <2> QED
    BY <1>2, <1>4, <1>5, <1>8, <2>1 DEF Materialize
<1>10. /\ DOMAIN events' = DOMAIN events
       /\ \A e \in DOMAIN events : events'[e].key = events[e].key /\ events'[e].image = events[e].image
       /\ \A e \in es : events'[e].version = id
       /\ \A e \in DOMAIN events : e \notin es => events'[e].version = events[e].version
  <2>1. \A e \in DOMAIN events : events[e] \in EventRow
    BY <1>1, CcTypes DEF CcInv
  <2>2. ASSUME NEW e \in es
        PROVE  /\ events'[e].key = events[e].key /\ events'[e].image = events[e].image
               /\ events'[e].version = id
    <3>1. PICK r : r = events[e]
      OBVIOUS
    <3>2. r \in EventRow /\ events'[e] = [r EXCEPT !.version = id]
      BY <1>3, <1>9, <2>1, <3>1
    <3> QED
      BY <3>1, <3>2 DEF EventRow
  <2>3. \A e \in DOMAIN events : e \notin es => events'[e] = events[e]
    BY <1>9
  <2> QED
    BY <1>9, <2>2, <2>3
<1>11. /\ DOMAIN versions' = 1 .. id /\ Len(versions') = id /\ versions'[id] = new
       /\ \A v \in DOMAIN versions : versions'[v] = versions[v]
  <2>1. new \in DataVersion
    BY <1>3, <1>4, CcFolded
  <2> QED
    BY <1>1, <1>5, <1>9, <2>1
<1>12. \A e \in DOMAIN events : events[e].version # id /\ events[e].version <= Len(versions)
  BY <1>1, <1>5 DEF RpInv
<1>13. id \in Nat /\ id > Len(versions) /\ id # NOTHING
  BY <1>1, <1>5 DEF NOTHING
<1>14. ASSUME NEW i \in DOMAIN events, NEW j \in DOMAIN events, i < j, events'[j].version # NOTHING
       PROVE  events'[i].version # NOTHING /\ events'[i].version <= events'[j].version
  <2>1. CASE i \in es
    <3>1. events'[i].version = id /\ events[i].version = NOTHING
      BY <1>3, <1>10, <2>1
    <3>2. j \in es
      BY <1>10, <1>14, <3>1 DEF RpInv
    <3> QED
      BY <1>10, <1>13, <3>1, <3>2
  <2>2. CASE i \notin es
    <3>1. events'[i].version = events[i].version
      BY <1>10, <2>2
    <3>2. CASE j \in es
      <4>1. events[i].version # NOTHING
        BY <1>3, <1>14, <2>2, <3>2
      <4> QED
        BY <1>1, <1>10, <1>12, <1>13, <3>1, <3>2, <4>1
    <3>3. CASE j \notin es
      <4>1. events'[j].version = events[j].version
        BY <1>10, <3>3
      <4> QED
        BY <1>14, <3>1, <4>1 DEF RpInv
    <3> QED
      BY <3>2, <3>3
  <2> QED
    BY <2>1, <2>2
<1>15. \A i \in DOMAIN events : events'[i].version <= id
  <2>1. ASSUME NEW i \in DOMAIN events PROVE events'[i].version <= id
    <3>1. events[i].version \in Nat /\ events[i].version <= Len(versions)
      BY <1>1, <1>12
    <3> QED
      BY <1>1, <1>10, <1>13, <3>1
  <2> QED
    BY <2>1
<1>16. \A n \in Makers : making'[n] = {}
  BY <1>9 DEF OneMaker, CcInv, CaptureTypeOK
<1>17. ASSUME NEW v \in DOMAIN versions PROVE RpVersion(v)'
  <2>1. v # NOTHING /\ v # id /\ RpVersion(v)
    BY <1>1, <1>5 DEF NOTHING, RpInv
  <2>2. \A e \in DOMAIN events : events'[e].version = v <=> events[e].version = v
    BY <1>3, <1>10, <2>1
  <2>3. \A e \in DOMAIN events : RpLast(e, v)' <=> RpLast(e, v)
    BY <1>10, <2>2 DEF RpLast
  <2>4. PICK w : w = versions[v] /\ w = versions'[v]
    BY <1>11
  <2>5. w.name[2] \in DOMAIN events' /\ events'[w.name[2]].version = v
    BY <1>10, <2>1, <2>2, <2>4 DEF RpVersion
  <2>6. ASSUME NEW e \in DOMAIN events', RpLast(e, v)'
        PROVE  IF events'[e].image = DELETED
               THEN events'[e].key \in w.deleted /\ events'[e].key \notin DOMAIN w.rows
               ELSE /\ events'[e].key \in DOMAIN w.rows /\ w.rows[events'[e].key] = events'[e].image
                    /\ events'[e].key \notin w.deleted
    <3>1. e \in DOMAIN events /\ RpLast(e, v)
      BY <1>10, <2>3, <2>6
    <3>2. events'[e].key = events[e].key /\ events'[e].image = events[e].image
      BY <1>10, <3>1
    <3> QED
      BY <2>1, <2>4, <3>1, <3>2 DEF RpVersion
  <2>7. ASSUME NEW k \in DOMAIN w.rows \union w.deleted
        PROVE  \E e \in DOMAIN events' : RpLast(e, v)' /\ events'[e].key = k
    <3>1. PICK e \in DOMAIN events : RpLast(e, v) /\ events[e].key = k
      BY <2>1, <2>4, <2>7 DEF RpVersion
    <3>2. e \in DOMAIN events' /\ events'[e].key = k /\ RpLast(e, v)'
      BY <1>10, <2>3, <3>1
    <3> QED
      BY <3>2
  <2> QED
    BY <2>4, <2>5, <2>6, <2>7 DEF RpVersion
<1>18. RpVersion(id)'
  <2>1. PICK newest : newest = [k \in {events[e].key : e \in es} |-> Max({e \in es : events[e].key = k})]
    OBVIOUS
  <2>2. /\ DOMAIN net = {events[e].key : e \in es}
        /\ \A k \in DOMAIN net : net[k] = events[newest[k]].image
    <3>1. net = [k \in {events[e].key : e \in es} |-> events[Max({e \in es : events[e].key = k})].image]
      BY <1>6 DEF Net
    <3> QED
      BY <2>1, <3>1
  <2>3. ASSUME NEW k \in DOMAIN net
        PROVE  /\ newest[k] \in es /\ events[newest[k]].key = k
               /\ \A f \in es : events[f].key = k => newest[k] >= f
    <3>1. PICK T, e : T = {f \in es : events[f].key = k} /\ e = Max(T)
      OBVIOUS
    <3>2. T \subseteq 0 .. Len(events) /\ T # {}
      BY <1>1, <1>3, <2>2, <3>1
    <3>3. e \in T /\ \A f \in T : e >= f
      BY <1>1, <3>1, <3>2, RpMax
    <3>4. newest[k] = e
      BY <2>1, <2>2, <3>1
    <3> QED
      BY <3>1, <3>3, <3>4
  <2>4. \A e \in DOMAIN events : events'[e].version = id <=> e \in es
    BY <1>10, <1>12
  <2>5. ASSUME NEW e \in DOMAIN events, RpLast(e, id)'
        PROVE  events[e].key \in DOMAIN net /\ e = newest[events[e].key]
    <3>1. e \in es
      BY <2>4, <2>5 DEF RpLast
    <3>2. PICK k, x : k = events[e].key /\ x = newest[k]
      OBVIOUS
    <3>3. k \in DOMAIN net
      BY <2>2, <3>1, <3>2
    <3>4. x \in es /\ events[x].key = k /\ x >= e
      BY <2>3, <3>1, <3>2, <3>3
    <3>5. ~(x > e)
      BY <1>3, <1>10, <2>4, <2>5, <3>2, <3>4 DEF RpLast
    <3>6. x = e
      BY <1>1, <1>3, <3>1, <3>4, <3>5
    <3> QED
      BY <3>2, <3>3, <3>6
  <2>6. ASSUME NEW k \in DOMAIN net PROVE RpLast(newest[k], id)'
    <3>1. PICK x : x = newest[k]
      OBVIOUS
    <3>2. x \in es /\ events[x].key = k /\ \A f \in es : events[f].key = k => x >= f
      BY <2>3, <3>1
    <3>3. ASSUME NEW f \in DOMAIN events, f > x, events[f].key = k PROVE f \notin es
      BY <1>1, <1>3, <3>2, <3>3
    <3>4. RpLast(x, id)'
      BY <1>3, <1>10, <2>4, <3>2, <3>3 DEF RpLast
    <3>5. RpLast(x, id)' => RpLast(newest[k], id)'
      BY <3>1 DEF RpLast
    <3> QED
      BY <3>4, <3>5
  <2>7. new.name[2] \in DOMAIN events' /\ events'[new.name[2]].version = id
    BY <1>3, <1>7, <1>10
  <2>8. ASSUME NEW e \in DOMAIN events', RpLast(e, id)'
        PROVE  IF events'[e].image = DELETED
               THEN events'[e].key \in new.deleted /\ events'[e].key \notin DOMAIN new.rows
               ELSE /\ events'[e].key \in DOMAIN new.rows
                    /\ new.rows[events'[e].key] = events'[e].image
                    /\ events'[e].key \notin new.deleted
    <3>1. PICK k, i : k = events[e].key /\ i = events[e].image
      OBVIOUS
    <3>2. e \in DOMAIN events /\ events'[e].key = k /\ events'[e].image = i
      BY <1>10, <3>1
    <3>3. k \in DOMAIN net /\ e = newest[k]
      BY <2>5, <2>8, <3>1, <3>2
    <3>4. net[k] = i
      BY <2>2, <3>1, <3>3
    <3> QED
      BY <1>7, <3>2, <3>3, <3>4
  <2>9. ASSUME NEW k \in DOMAIN new.rows \union new.deleted
        PROVE  \E e \in DOMAIN events' : RpLast(e, id)' /\ events'[e].key = k
    <3>1. k \in DOMAIN net
      BY <1>7, <2>9
    <3>2. newest[k] \in DOMAIN events' /\ events'[newest[k]].key = k /\ RpLast(newest[k], id)'
      BY <1>3, <1>10, <2>3, <2>6, <3>1
    <3> QED
      BY <3>2
  <2> QED
    BY <1>11, <2>7, <2>8, <2>9 DEF RpVersion
<1>19. \A v \in DOMAIN versions' : RpVersion(v)'
  <2>1. \A v \in DOMAIN versions' : v = id \/ v \in DOMAIN versions
    BY <1>1, <1>5, <1>11
  <2> QED
    BY <1>17, <1>18, <2>1
<1> QED
  BY <1>10, <1>11, <1>14, <1>15, <1>16, <1>19 DEF RpInv

LEMMA RpStep == OneMaker /\ CcInv /\ CcInv' /\ RpInv /\ [CaptureNext]_captureVars => RpInv'
<1> SUFFICES ASSUME OneMaker, CcInv, CcInv', RpInv, [CaptureNext]_captureVars PROVE RpInv'
  OBVIOUS
<1>1. CASE UNCHANGED captureVars
  BY <1>1, RpAside DEF captureVars
<1>2. CASE \E k \in Keys, i \in Images \union {DELETED} : Change(k, i)
  BY <1>2, RpAside DEF Change
<1>3. CASE \E n \in DOMAIN log : EndTx(n) \/ Resend(n)
  BY <1>3, RpAside DEF EndTx, Resend
<1>4. CASE \E c \in Consumers : Fetch(c) \/ StoreFails(c) \/ Ack(c)
  BY <1>4, RpAside DEF Fetch, StoreFails, Ack
<1> QED
  BY <1>1, <1>2, <1>3, <1>4, RpStore, RpReadPending, RpMaterialize DEF CaptureNext

\* For any number of keys, changes, consumers and faults, and one materializer: whatever
\* versions are chosen, and however the changes were cut into versions, deleted or put back,
\* cleaning their rows leaves what replaying their events leaves (materialize.py
\* materialize_cdc, current_data.py clean_records).
THEOREM CcCleansRight == OneMaker => (CaptureSpec => []CleaningIsReplay)
<1> SUFFICES ASSUME OneMaker PROVE CaptureSpec => []CleaningIsReplay
  OBVIOUS
<1>1. CaptureSpec => [](CcInv /\ RpInv)
  <2>1. CaptureInit => CcInv /\ RpInv
    BY CcInitial, RpInitial
  <2>2. CcInv /\ RpInv /\ [CaptureNext]_captureVars => (CcInv /\ RpInv)'
    BY CcStep, RpStep
  <2> QED
    BY <2>1, <2>2, PTL DEF CaptureSpec
<1> QED
  BY <1>1, RpCleans, PTL
=============================================================================
