---------------------------- MODULE LlamaContext ----------------------------
(***************************************************************************)
(* The llama.cpp context of a loaded GGUF model, and the requests that run *)
(* in it one after another.                                                *)
(*                                                                         *)
(* llama.cpp's numbers depend on how a prompt is split into decode calls,  *)
(* so every question has a plan: the ends of its passes.  A cache cell is  *)
(* a token at a position and the pass that computed it; the logits are the *)
(* cells the last pass saw.  The N_BATCH calls of one pass are one step,   *)
(* which may fail after any of its tokens.                                 *)
(***************************************************************************)
EXTENDS Integers, Sequences, FiniteSets, FiniteSetsExt

CONSTANTS
    Token,      \* tokens, and the positions of an image
    Request,    \* encoded requests
    NCtx,       \* llama.n_ctx
    Capacity,   \* of one sequence of a jev-style model: n_ctx, or a share of it
    Unknown     \* no prefix, no logits

\* How a request is evaluated.  prefix and cold: text, with a shared prefix or without;
\* d1 and winnow: with images; jev: in blocks, in a second sequence.
Kind == {"prefix", "cold", "d1", "winnow", "jev"}

\* reference: the prompt of the state alone.  head: the positions of the images.
\* blocks: where the passes over the reference, or over the rest of a row, end.
RequestType ==
    [kind : Kind, reference : Seq(Token), head : Nat, blocks : Seq(Nat),
     rows : Seq([ids : Seq(Token) \ {<<>>}, single : BOOLEAN, blocks : Seq(Nat)])]

VARIABLES
    kinds,      \* the kinds of request the loaded model's layout takes
    cache,      \* the cells of sequences 0 and 1
    prefix,     \* Context::prefix
    logits,     \* what the last pass with an output saw
    poisoned,   \* the context's mutex
    work        \* the request being evaluated: the row, and its passes done

llamaVars == <<kinds, cache, prefix, logits, poisoned, work>>

-----------------------------------------------------------------------------
Smaller(a, b) == IF a < b THEN a ELSE b

\* The lengths at which two prompts agree.
Agreements(s, t) == {k \in 0..Len(s) : k <= Len(t) /\ \A j \in 1..k : s[j] = t[j]}

\* A question's split point: what it shares with the reference, less than all of it.
split_point_whole(ids, reference) == Max(Agreements(ids, reference))
split_point(ids, reference) == Smaller(Max(Agreements(ids, reference)), Len(ids) - 1)

\* What every question of an image request shares with the reference.
Shared(r) == Max({k \in 0..Len(r.reference) :
                    \A i \in 1..Len(r.rows) : k \in Agreements(r.rows[i].ids, r.reference)})

\* The ends of the passes of a row, the shared ones first.
Plan(r, i) ==
    LET ids == r.rows[i].ids
        n   == Len(ids)
        p   == IF r.kind = "prefix" THEN split_point(ids, r.reference) ELSE 0
    IN IF r.kind = "jev" THEN r.blocks \o r.rows[i].blocks
       ELSE IF r.kind = "winnow" THEN <<r.head, Shared(r), n>>
       ELSE IF r.kind = "d1" THEN <<r.head, n>>
       ELSE IF p = 0 THEN <<n>> ELSE <<p, n>>

\* How many of them a request runs once, before its rows; they are row 0.
Common(r) == IF r.kind = "winnow" THEN 2
             ELSE IF r.kind = "jev" THEN Len(r.blocks) ELSE 0

PlanOf(r, i) == IF i = 0
                THEN IF r.kind = "jev" THEN r.blocks ELSE <<r.head, Shared(r)>>
                ELSE Plan(r, i)
IdsOf(r, i) == IF i = 0 THEN r.reference ELSE r.rows[i].ids
SeqOf(r, i) == IF r.kind = "jev" /\ i > 0 THEN 1 ELSE 0

Begins(ends, j) == IF j = 1 THEN 1 ELSE ends[j - 1] + 1

Cells(ids, from, to) ==
    {[pos |-> k, tok |-> ids[k], from |-> from, to |-> to] : k \in from..to}

\* What passes 1..m of a row leave in a cache that held nothing else.
Planned(r, i, m) ==
    UNION {Cells(IdsOf(r, i), Begins(PlanOf(r, i), j), PlanOf(r, i)[j]) : j \in 1..m}

UpTo(cells, p) == {c \in cells : c.pos <= p}

\* What validation, the renderers and mtmd give: a row at least, rows that begin with the
\* images or the reference, and blocks that follow one another.
RequestOK(r) ==
    /\ r \in RequestType
    /\ r.rows # <<>>
    /\ r.kind = "jev" => \A j \in 1..Len(r.blocks) : r.blocks[j] <= Len(r.reference)
    /\ r.kind \in {"d1", "winnow"} => r.head \in 1..Len(r.reference)
    /\ \A i \in 1..Len(r.rows) :
          LET row == r.rows[i] IN
          /\ r.kind = "d1" => r.head < Len(row.ids)
          /\ r.kind = "winnow" =>
                /\ r.head \in Agreements(row.ids, r.reference)
                /\ Len(row.ids) \notin Agreements(row.ids, r.reference)
          /\ r.kind = "jev" =>
                /\ Len(r.reference) \in Agreements(row.ids, r.reference)
                /\ row.blocks # <<>>
                /\ \A j \in 1..Len(Plan(r, i)) :
                      Plan(r, i)[j] \in Begins(Plan(r, i), j)..Len(row.ids)

ASSUME LlamaAssumption ==
    /\ NCtx \in Nat /\ Capacity \in Nat /\ Capacity <= NCtx
    /\ Unknown \notin Seq(Token)
    /\ \A r \in Request : RequestOK(r)

TooLongAfterPrefix(r, i) ==
    IF r.kind = "jev" THEN Len(r.rows[i].ids) - Len(r.reference) > Capacity
                      ELSE Len(r.rows[i].ids) >= NCtx
TooLong(r, i) == IF r.kind = "jev" THEN Len(r.rows[i].ids) > Capacity
                                   ELSE Len(r.rows[i].ids) >= NCtx
-----------------------------------------------------------------------------
Idle == [at |-> "idle"]
Busy == [at : {"start", "passes"}, req : Request, row : Nat, done : Nat]
Cell == [pos : Nat, tok : Token, from : Nat, to : Nat]

LlamaTypeOK ==
    /\ kinds \subseteq Kind
    /\ cache \in [{0, 1} -> SUBSET Cell]
    /\ prefix \in Seq(Token) \cup {Unknown}
    /\ logits = Unknown \/ logits \subseteq Cell
    /\ poisoned \in BOOLEAN
    /\ work = Idle \/ work \in Busy

\* The kinds each layout takes, text and images; no model is loaded at first.
LayoutKinds == {{"prefix"}, {"prefix", "winnow"}, {"cold"}, {"cold", "d1"}, {"jev"}}

LlamaInit ==
    /\ kinds = {}
    /\ cache = [s \in {0, 1} |-> {}]
    /\ prefix = Unknown
    /\ logits = Unknown
    /\ poisoned = FALSE
    /\ work = Idle

Cleared == cache' = [s \in {0, 1} |-> {}] /\ prefix' = Unknown
CacheKept == UNCHANGED <<cache, prefix>>

Text(r)   == r.kind \in {"prefix", "cold"}
Images(r) == r.kind \in {"d1", "winnow"}

\* Checked before the context is touched: rows that do not fit, which an image request
\* of d1 finds row by row, and the poisoned mutex, which only a jev-style request minds.
Refused(r) ==
    \/ r.kind # "d1" /\ \E i \in 1..Len(r.rows) : TooLong(r, i)
    \/ r.kind = "jev" /\ poisoned

Refuse(r) == work = Idle /\ r.kind \in kinds /\ Refused(r) /\ UNCHANGED llamaVars

Accepts(r) == work = Idle /\ r.kind \in kinds /\ ~Refused(r)
At(r, where, row) == work' = [at |-> where, req |-> r, row |-> row, done |-> 0]

BeginRows(r) ==
    /\ Accepts(r) /\ r.kind \in {"prefix", "cold", "d1"}
    /\ CacheKept /\ At(r, "start", 1)
    /\ UNCHANGED <<kinds, logits, poisoned>>

BeginShared(r) ==
    /\ Accepts(r) /\ r.kind \in {"winnow", "jev"}
    /\ Cleared /\ At(r, "passes", 0)
    /\ UNCHANGED <<kinds, logits, poisoned>>

HasRow == work.at = "start" /\ work.row \in 1..Len(work.req.rows)

Passes(done) == work' = [work EXCEPT !.at = "passes", !.done = done]
NextRow == work' = [work EXCEPT !.at = "start", !.row = @ + 1, !.done = 0]

\* Cut the first sequence back to its first p positions.
CutTo(p) == cache' = [cache EXCEPT ![0] = UpTo(@, p)] /\ UNCHANGED prefix

\* The context holds the first pass of the row already.
HoldsPrefix(r, i) ==
    Len(Plan(r, i)) = 2 /\ prefix = SubSeq(r.rows[i].ids, 1, Plan(r, i)[1])

\* The context's content as each kind of row needs it for its own passes.  A text row
\* with one candidate needs none.
StartText ==
    /\ HasRow /\ Text(work.req)
    /\ LET r == work.req  i == work.row IN
          \/ r.rows[i].single /\ CacheKept /\ NextRow
          \/ ~r.rows[i].single /\ HoldsPrefix(r, i) /\ CutTo(Plan(r, i)[1]) /\ Passes(1)
          \/ ~r.rows[i].single /\ ~HoldsPrefix(r, i) /\ Cleared /\ Passes(0)
    /\ UNCHANGED <<kinds, logits, poisoned>>

StartD1 ==
    /\ HasRow /\ work.req.kind = "d1" /\ ~TooLong(work.req, work.row)
    /\ Cleared /\ Passes(0)
    /\ UNCHANGED <<kinds, logits, poisoned>>

StartWinnow ==
    /\ HasRow /\ work.req.kind = "winnow"
    /\ CutTo(Shared(work.req)) /\ Passes(2)
    /\ UNCHANGED <<kinds, logits, poisoned>>

StartJev ==
    /\ HasRow /\ work.req.kind = "jev"
    /\ cache' = [cache EXCEPT ![1] = cache[0]] /\ Passes(Common(work.req))
    /\ UNCHANGED <<kinds, prefix, logits, poisoned>>

\* A pass has an output at its end when the row's answer is read there.
Outputs(r, i, m) == i > 0 /\ (r.kind = "jev" \/ m = Len(PlanOf(r, i)))

InPass == work.at = "passes" /\ work.done < Len(PlanOf(work.req, work.row))

Pass ==
    /\ InPass
    /\ LET r == work.req  i == work.row  m == work.done + 1
           ends == PlanOf(r, i)  s == SeqOf(r, i)
           new  == Cells(IdsOf(r, i), Begins(ends, m), ends[m])
       IN /\ cache' = [cache EXCEPT ![s] = @ \cup new]
          /\ logits' = IF new = {} THEN logits
                       ELSE IF Outputs(r, i, m) THEN cache[s] \cup new ELSE Unknown
          /\ prefix' = IF Text(r) /\ m < Len(ends) THEN SubSeq(IdsOf(r, i), 1, ends[m])
                       ELSE prefix
          /\ Passes(m)
    /\ UNCHANGED <<kinds, poisoned>>

\* What an error leaves: text forgets the prefix, an image request clears the context,
\* a jev-style request leaves it to the next one.
Fails(cells) ==
    /\ IF Images(work.req) THEN Cleared
       ELSE cache' = cells /\ prefix' = Unknown
    /\ work' = Idle
    /\ UNCHANGED <<kinds, poisoned>>

\* llama_decode fails after some tokens of the pass.
PassFails ==
    /\ InPass
    /\ LET r == work.req  i == work.row  ends == PlanOf(r, i)  s == SeqOf(r, i)
           new == Cells(IdsOf(r, i), Begins(ends, work.done + 1), ends[work.done + 1])
       IN /\ new # {}
          /\ \E c \in new : Fails([cache EXCEPT ![s] = @ \cup UpTo(new, c.pos - 1)])
    /\ logits' = Unknown

\* The cache cannot be cut back, or the images of a d1 question do not fit.
StartFails ==
    /\ HasRow
    /\ LET r == work.req  i == work.row IN
          \/ Text(r) /\ ~r.rows[i].single /\ HoldsPrefix(r, i)
          \/ r.kind = "winnow"
          \/ r.kind = "d1" /\ TooLong(r, i)
    /\ Fails(cache) /\ UNCHANGED logits

\* The answer is read from the logits, and a jev-style row's sequence removed.
RowDone ==
    /\ work.at = "passes" /\ work.done = Len(PlanOf(work.req, work.row))
    /\ cache' = [cache EXCEPT ![1] = {}]
    /\ NextRow
    /\ UNCHANGED <<kinds, prefix, logits, poisoned>>

\* There are no logits at the pass's end, or the scores of a jev-style row are not numbers.
AnswerFails ==
    /\ work.at = "passes" /\ work.row > 0 /\ work.done = Len(PlanOf(work.req, work.row))
    /\ \E cells \in {cache, [cache EXCEPT ![1] = {}]} : Fails(cells)
    /\ UNCHANGED logits

Finish ==
    /\ work.at = "start" /\ work.row > Len(work.req.rows)
    /\ IF Images(work.req) THEN Cleared ELSE CacheKept
    /\ work' = Idle
    /\ UNCHANGED <<kinds, logits, poisoned>>

\* A panic ends the job where it is, and poisons the mutex.
Panics ==
    /\ work # Idle
    /\ work' = Idle /\ poisoned' = TRUE
    /\ UNCHANGED <<kinds, cache, prefix, logits>>

\* The model is loaded, with a context of its own.
LlamaLoaded == kinds = {} /\ kinds' \in LayoutKinds
               /\ UNCHANGED <<cache, prefix, logits, poisoned, work>>

LlamaNext ==
    \/ \E r \in Request : Refuse(r) \/ BeginRows(r) \/ BeginShared(r)
    \/ StartText \/ StartD1 \/ StartWinnow \/ StartJev
    \/ Pass \/ PassFails \/ StartFails \/ RowDone \/ AnswerFails \/ Finish \/ Panics

LlamaSpec == LlamaInit /\ [][LlamaLoaded \/ LlamaNext]_llamaVars
-----------------------------------------------------------------------------
\* llama/mod.rs, 10: every question is evaluated with one fixed plan, so its numbers
\* never depend on what ran before it: the logits an answer is read from are those of
\* exactly the row's own passes, whatever the context held, kept or failed at before.
FixedPlan ==
    work.at = "passes" /\ work.row > 0 =>
        LET r == work.req  i == work.row  m == work.done IN
        m = Len(Plan(r, i)) \/ (r.kind = "jev" /\ m > Common(r)) => logits = Planned(r, i, m)

\* llama/mod.rs, 201: the prefix the context says it holds is what its cache begins
\* with, each token computed in one cold pass, after failures and panics too.
PrefixTrue ==
    prefix # Unknown => UpTo(cache[0], Len(prefix)) = Cells(prefix, 1, Len(prefix))

\* A request that passed the check of its length never finds the context full, though
\* its rows share a prefix, a copy of it or the context's earlier content.
NeverFull == Cardinality(cache[0] \cup cache[1]) <= NCtx
=============================================================================
