--------------------------- MODULE ClmProjections ---------------------------
(***************************************************************************)
(* How an ONNX model of layout clm-v1 comes by the projections of a        *)
(* request's texts: from its cache, or from the graph, in batches sorted   *)
(* by length.                                                              *)
(*                                                                         *)
(* A projection is the text it is of.  A graph run is one step, which may  *)
(* fail or panic; requests come one after another, on the model thread.    *)
(***************************************************************************)
EXTENDS Integers, Sequences, FiniteSets, FiniteSetsExt, Functions

CONSTANTS
    Key,            \* texts, each with the head it goes through
    Tokens,         \* the length of each
    Asked,          \* the texts of a request, in order, with repetitions
    MaxText,        \* clm.max_text_tokens
    MaxRows,        \* MAX_ROWS
    TokenBudget,    \* TOKEN_BUDGET
    CacheEntries,   \* CACHE_ENTRIES
    Empty           \* no projection yet

ASSUME ClmAssumption ==
    /\ Tokens \in [Key -> Nat \ {0}] /\ Asked \subseteq Seq(Key)
    /\ MaxText \in Nat /\ CacheEntries \in Nat /\ Empty \notin Key
    /\ MaxRows \in Nat \ {0} /\ TokenBudget \in Nat /\ 2 * MaxRows <= TokenBudget

VARIABLES
    map,        \* Cache::map: the projection of each text it keeps
    order,      \* Cache::order
    panicked,   \* a mutex of the model is poisoned
    call        \* the request

clmVars == <<map, order, panicked, call>>

-----------------------------------------------------------------------------
\* The members of S one after another, as the pairs of less order them.
Arranged(S, less) ==
    {f \in [1..Cardinality(S) -> S] :
        /\ \A x \in S : \E k \in DOMAIN f : f[k] = x
        /\ \A j, k \in DOMAIN f : j < k => <<f[j], f[k]>> \in less}

\* The texts to project: not in the cache, and no text twice.
Missing(texts) ==
    {k \in DOMAIN texts : texts[k] \notin DOMAIN map /\ \A j \in 1..(k - 1) : texts[j] # texts[k]}
InOrder(S) == {e \in S \X S : e[1] < e[2]}

\* The rows of the graph, shortest first, and of one length in order.
Length(texts, todo, k) == Tokens[texts[todo[k]]]
Shorter(texts, todo) ==
    {e \in (DOMAIN todo) \X (DOMAIN todo) :
        \/ Length(texts, todo, e[1]) < Length(texts, todo, e[2])
        \/ Length(texts, todo, e[1]) = Length(texts, todo, e[2]) /\ e[1] < e[2]}

\* The batch of a run begins at row `next` and goes on while one more row fits.
RowLength(r) == Length(call.texts, call.todo, call.sorted[r])
Longest(last) == Max({RowLength(r) : r \in call.next..last})
Overflows(last) ==
    LET rows == last - call.next + 1 IN
    rows > 1 /\ (rows * Longest(last) > TokenBudget \/ rows > MaxRows)
BatchEnd == Max({last \in call.next..Len(call.todo) : \A r \in call.next..last : ~Overflows(r)})
-----------------------------------------------------------------------------
NoCall == [at |-> "none"]
Calls == [at : {"runs", "puts", "answers"}, texts : Asked,
          out : UNION {[S -> Key \cup {Empty}] : S \in SUBSET Key},
          todo : Seq(Nat), sorted : Seq(Nat), z : Seq(Key \cup {Empty}), next : Nat]

ClmTypeOK ==
    /\ map \in UNION {[S -> Key \cup {Empty}] : S \in SUBSET Key}
    /\ order \in Seq(Key)
    /\ panicked \in BOOLEAN
    /\ call = NoCall \/ call \in Calls

ClmInit == map = <<>> /\ order = <<>> /\ panicked = FALSE /\ call = NoCall

TooLongText(texts) == \E k \in Missing(texts) : Tokens[texts[k]] > MaxText

\* What the cache has is read at once, and the texts that are left are encoded.
Project(texts) ==
    /\ call = NoCall /\ ~panicked /\ ~TooLongText(texts)
    /\ LET kept == {texts[k] : k \in DOMAIN texts} \cap DOMAIN map IN
       \E todo \in Arranged(Missing(texts), InOrder(Missing(texts))) :
       \E sorted \in Arranged(DOMAIN todo, Shorter(texts, todo)) :
          call' = [at |-> "runs", texts |-> texts, out |-> Restrict(map, kept),
                   todo |-> todo, sorted |-> sorted,
                   z |-> [k \in DOMAIN todo |-> Empty], next |-> 1]
    /\ UNCHANGED <<map, order, panicked>>

\* A text that is too long, or a poisoned mutex, on which every later request panics.
Turned(texts) ==
    call = NoCall /\ (panicked \/ TooLongText(texts)) /\ UNCHANGED clmVars

\* The projections of the run's rows go where their texts are in todo.
RunWorks ==
    /\ call.at = "runs" /\ call.next <= Len(call.todo)
    /\ LET rowsOf(k) == {r \in call.next..BatchEnd : call.sorted[r] = k}
           given(r)  == call.texts[call.todo[call.sorted[r]]]
       IN call' = [call EXCEPT !.next = BatchEnd + 1,
                     !.z = [k \in DOMAIN @ |-> IF rowsOf(k) = {} THEN @[k]
                                               ELSE given(CHOOSE r \in rowsOf(k) : TRUE)]]
    /\ UNCHANGED <<map, order, panicked>>

RunFails ==
    /\ call.at = "runs" /\ call.next <= Len(call.todo)
    /\ call' = NoCall /\ UNCHANGED <<map, order, panicked>>

RunPanics ==
    /\ call.at = "runs"
    /\ call' = NoCall /\ panicked' = TRUE /\ UNCHANGED <<map, order>>

RunsDone ==
    /\ call.at = "runs" /\ call.next > Len(call.todo)
    /\ call' = [call EXCEPT !.at = "puts", !.next = 1]
    /\ UNCHANGED <<map, order, panicked>>

\* Cache::put, oldest out first.
Put ==
    /\ call.at = "puts" /\ call.next <= Len(call.todo)
    /\ LET key == call.texts[call.todo[call.next]]
           z   == call.z[call.next]
           set(f)  == [k \in DOMAIN f \cup {key} |-> IF k = key THEN z ELSE f[k]]
           queue   == Append(order, key)
       IN /\ IF key \in DOMAIN map THEN map' = set(map) /\ UNCHANGED order
             ELSE IF Len(queue) > CacheEntries
             THEN /\ map' = Restrict(set(map), (DOMAIN map \cup {key}) \ {Head(queue)})
                  /\ order' = Tail(queue)
             ELSE map' = set(map) /\ order' = queue
          /\ call' = [call EXCEPT !.next = @ + 1, !.out = set(@)]
    /\ UNCHANGED panicked

\* What the request's logits are computed from: what was read and what was run, not the
\* cache, which may have let go of some.
GivenByCache == map
Given == call.out

Answer ==
    /\ call.at = "puts" /\ call.next > Len(call.todo)
    /\ call' = [call EXCEPT !.at = "answers", !.out = Given]
    /\ UNCHANGED <<map, order, panicked>>

Answered == call.at = "answers" /\ call' = NoCall /\ UNCHANGED <<map, order, panicked>>

ClmNext ==
    \/ \E texts \in Asked : Project(texts) \/ Turned(texts)
    \/ RunWorks \/ RunFails \/ RunPanics \/ RunsDone \/ Put \/ Answer \/ Answered

ClmSpec == ClmInit /\ [][ClmNext]_clmVars
-----------------------------------------------------------------------------
\* clm.rs, 9: an answer's numbers are those of the request's own texts, each of them,
\* though others were cached, evicted by this request too, repeated, or left by a run
\* that failed half-way.
ProjectionTrue ==
    call.at = "answers" =>
        \A k \in DOMAIN call.texts :
            call.texts[k] \in DOMAIN call.out /\ call.out[call.texts[k]] = call.texts[k]

\* clm.rs, 57: the cache keeps CACHE_ENTRIES projections at most, each listed once.
CacheBounded ==
    /\ Len(order) <= CacheEntries
    /\ DOMAIN map = {order[k] : k \in DOMAIN order}
    /\ \A j, k \in DOMAIN order : order[j] = order[k] => j = k

\* engine.rs, 87: a run's padded rows stay in the budget, or the run is one row; a row is
\* padded to two tokens at least.
RunFits ==
    call.at = "runs" /\ call.next <= Len(call.todo) =>
        LET rows == BatchEnd - call.next + 1 IN
        rows = 1 \/ (rows <= MaxRows /\ rows * Max({2, Longest(BatchEnd)}) <= TokenBudget)
=============================================================================
