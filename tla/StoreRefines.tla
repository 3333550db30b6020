---------------------------- MODULE StoreRefines ----------------------------
(***************************************************************************)
(* The model store implements Shelf: a name's model is what its manifest   *)
(* file says, a blob is kept when its file has the right content, and a    *)
(* name is claimed by the task that writes it.                             *)
(***************************************************************************)
EXTENDS ModelStore

\* How far a task that writes a name is.
Stage(s) ==
    IF s.at \in {"fetch_manifest", "read"} THEN "asked"
    ELSE IF s.at = "release" THEN "over" ELSE "brings"

Claim(s) ==
    [kind |-> s.kind, key |-> s.key, from |-> s.from, model |-> s.manifest, stage |-> Stage(s)]

ClaimsOn(n) == {Claim(ops[o]) : o \in Writers(n)}
Claims == [n \in Name |-> ClaimsOn(n)]

Whole == {b \in Blob : blobs[b] = "good"}

Shelf == INSTANCE Shelf WITH models <- manifests, kept <- Whole, claims <- Claims

\* Every step of a pull, create, copy or delete, each a run of file operations that others
\* interleave with and a crash may cut short, is a step of Shelf or none: to all others a
\* model comes, is replaced and goes at once, and whole.
OnShelf == Shelf!Spec
=============================================================================
