------------------------------- MODULE Shelf --------------------------------
(***************************************************************************)
(* What the rest of the daemon relies on from its model store, whatever    *)
(* files it writes to keep it: a name has one model or none, which changes *)
(* at once, by the pull or create that claimed the name or, while nobody   *)
(* has, by a copy or a delete; a model is on the shelf only with all its   *)
(* blobs, and no blob goes while a model needs it.                         *)
(*                                                                         *)
(* ModelStore implements this (StoreRefines).                              *)
(***************************************************************************)
CONSTANTS
    Name, Manifest, Blob, None, BlobsOf, Offers, Derived,
    Pulls, Pinned, Creates, Copies, Deletes, MayCrash, Installed

VARIABLES
    models,     \* the model of each name
    kept,       \* the blobs that can be read, with the content they are named for
    claims      \* what is brought for each name: nothing, or one claim

vars == <<models, kept, claims>>

Needs(b) == \E n \in Name : models[n] # None /\ b \in BlobsOf[models[n]]

Init ==
    /\ models = Installed
    /\ kept = {b \in Blob : Needs(b)}
    /\ claims = [n \in Name |-> {}]

-----------------------------------------------------------------------------
\* Whoever asks first claims the name.
Asks(n, kind, key, from) ==
    /\ claims[n] = {}
    /\ claims' = [claims EXCEPT ![n] = {[kind |-> kind, key |-> key, from |-> from,
                                         model |-> None, stage |-> "asked"]}]
    /\ UNCHANGED <<models, kept>>

AsksPull(n, k) == (k # "tag" => <<n, k>> \in Pinned) /\ Asks(n, "pull", k, None)
AsksCreate(n, f) == Asks(n, "create", "tag", f)

\* From here on it is m that is brought for n.
Brings(n, c, m) ==
    /\ c.stage = "asked"
    /\ claims' = [claims EXCEPT ![n] = {[c EXCEPT !.model = m, !.stage = "brings"]}]
    /\ UNCHANGED <<models, kept>>

\* What the tag of the registry holds, or the digest asked for and no other.
BringsOffer(n, c) ==
    c.kind = "pull" /\ \E m \in Offers[n] : c.key \in {"tag", m} /\ Brings(n, c, m)

\* What a create makes of the model its FROM has now.
BringsDerived(n, c) ==
    c.kind = "create" /\ models[c.from] # None /\ Brings(n, c, Derived[models[c.from]])

\* The model comes, or replaces the one there was: at once, and whole.
Publishes(n, c) ==
    /\ c.stage = "brings" /\ BlobsOf[c.model] \subseteq kept
    /\ models' = [models EXCEPT ![n] = c.model]
    /\ claims' = [claims EXCEPT ![n] = {[c EXCEPT !.stage = "over"]}]
    /\ UNCHANGED kept

GivesUp(n, c) ==
    /\ c.stage # "over"
    /\ claims' = [claims EXCEPT ![n] = {[c EXCEPT !.stage = "over"]}]
    /\ UNCHANGED <<models, kept>>

Leaves(n, c) ==
    /\ c.stage = "over"
    /\ claims' = [claims EXCEPT ![n] = {}]
    /\ UNCHANGED <<models, kept>>

CopiesTo(f, n) ==
    /\ claims[n] = {} /\ models[f] # None
    /\ models' = [models EXCEPT ![n] = models[f]]
    /\ UNCHANGED <<kept, claims>>

Removes(n) ==
    /\ claims[n] = {} /\ models[n] # None
    /\ models' = [models EXCEPT ![n] = None]
    /\ UNCHANGED <<kept, claims>>

Keeps(b) == b \notin kept /\ kept' = kept \cup {b} /\ UNCHANGED <<models, claims>>
Drops(b) == b \in kept /\ ~Needs(b) /\ kept' = kept \ {b} /\ UNCHANGED <<models, claims>>

\* The daemon dies: whoever was bringing something is gone, all else is there.
Dies ==
    /\ MayCrash
    /\ claims' = [n \in Name |-> {}]
    /\ UNCHANGED <<models, kept>>

Next ==
    \/ Dies
    \/ \E n \in Name : \E c \in claims[n] :
          GivesUp(n, c) \/ Leaves(n, c) \/ BringsOffer(n, c) \/ BringsDerived(n, c) \/ Publishes(n, c)
    \/ \E b \in Blob : Keeps(b) \/ Drops(b)
    \/ \E n \in Deletes : Removes(n)
    \/ \E c \in Copies : CopiesTo(c[1], c[2])
    \/ \E c \in Creates : AsksCreate(c[1], c[2])
    \/ \E n \in Pulls, k \in Manifest \cup {"tag"} : AsksPull(n, k)

Spec == Init /\ [][Next]_vars
=============================================================================
