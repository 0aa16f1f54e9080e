------------------------------- MODULE MCData -------------------------------
(***************************************************************************)
(* Small instances of ChangeCapture, DataVersions and DataLineage.  They   *)
(* share no state here: a CDC version is a data version stored as rows,    *)
(* the hazards of DataVersions are those of rows stored elsewhere, and     *)
(* those of DataLineage are transactions that create and link versions.  A *)
(* behaviour is about one of them and the others stay where they start.    *)
(***************************************************************************)
EXTENDS ChangeCapture, DataVersions, DataLineage

VARIABLE part

OneShapeEach == [c \in Contents |-> IF c = "c" THEN "other" ELSE "columns"]

Symmetry == Permutations(Keys) \union Permutations(Consumers) \union Permutations(Names)
                \union Permutations(Clients)

OneStore == store = CHOOSE a \in Adapters : TRUE
OneRest == OneStore /\ verify = "off" /\ object = <<"a">>

Init ==
    /\ CaptureInit /\ VersionsInit /\ DlInit
    /\ \/ part = "capture" /\ OneRest /\ ~dlOnboarded
       \/ part = "versions" /\ source = "sqlite" /\ ~dlOnboarded
       \/ part = "lineage" /\ source = "sqlite" /\ OneRest

Next ==
    \/ part = "capture" /\ CaptureNext /\ UNCHANGED <<versionVars, dlVars, part>>
    \/ part = "versions" /\ VersionsNext /\ UNCHANGED <<captureVars, dlVars, part>>
    \/ part = "lineage" /\ DlNext /\ UNCHANGED <<captureVars, versionVars, part>>

Spec == Init /\ [][Next]_<<captureVars, versionVars, dlVars, part>>
=============================================================================
