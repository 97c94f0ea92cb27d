--------------------------- MODULE KnowledgeQuestion ---------------------------
(***************************************************************************)
(* One question to a knowledge base: RAGChatService over search_knowledge, *)
(* the ContextBuilder, the token budget and the gateway's own check of the *)
(* request, while the versions of a document are indexed, replaced and its *)
(* file deleted.  The newest version is cut by Chunking.                   *)
(*                                                                         *)
(* DocumentIndexing implements PublishedVersions, whose step publishes     *)
(* here.  Points lie in Qdrant before a version is published and stay      *)
(* there when another one replaces it or the file goes.  The call of the   *)
(* provider that follows is ChatRequest.                                   *)
(***************************************************************************)
EXTENDS Chunking

CONSTANTS
    MaxVersion,
    MaxChunks,      \* bound: chunks of a version
    OldChunks,      \* chunks of a version cut earlier
    TopK,           \* KNOWLEDGE_RETRIEVAL_TOP_K
    Multiplier,     \* KNOWLEDGE_RETRIEVAL_CANDIDATE_MULTIPLIER
    Sizes,          \* tokens of a chunk's text for the chat model
    Queries,        \* tokens of a question
    Outputs,        \* output limits asked for
    MaxOutput,      \* max_output_tokens of the model
    Window,         \* context_window_tokens
    Prompt,         \* tokens of the system prompt with an empty context
    Margin,         \* RAG_TOKEN_SAFETY_MARGIN_TOKENS
    Label,          \* tokens of the source label around a chunk
    Separator,      \* tokens of the break between two chunks
    Widths          \* UTF-8 bytes of a token

ASSUME QuestionAssumption ==
    /\ MaxVersion \in Nat \ {0} /\ MaxChunks \in Nat \ {0}
    /\ OldChunks \subseteq 1..MaxChunks
    /\ TopK \in Nat \ {0} /\ Multiplier \in Nat \ {0}
    /\ Sizes \subseteq Nat \ {0} /\ Queries \subseteq Nat \ {0} /\ Outputs \subseteq Nat
    /\ MaxOutput \in Nat \ {0} /\ Window \in Nat /\ MaxOutput < Window
    /\ Prompt \in Nat \ {0} /\ Margin \in Nat /\ Label \in Nat /\ Separator \in Nat
    /\ Widths \subseteq Nat \ {0}

VARIABLES
    served,     \* versions indexed, all their points in Qdrant
    active,     \* active_version_id, 0 for none
    chunks,     \* how many chunks a version has
    points,     \* how many of them are in Qdrant, in order
    ready,      \* the file is READY and not deleted
    stage,      \* where the question is
    query,      \* its tokens, its output limit and the width of its text
    asked,      \* history: active and ready when the question came, and the
                \* version whose chunks MySQL let through, 0 for none
    found,      \* history: everything above the score threshold, best first
    hits,       \* the result of search_knowledge
    size,       \* tokens of each hit's text
    citations,  \* the chunks in the context
    tried       \* hits the builder has looked at

Published == INSTANCE PublishedVersions

world    == <<served, active, chunks, points, ready>>
question == <<stage, query, asked, found, hits, size, citations, tried>>
vars     == <<chunker, world, question>>

Versions == 1..MaxVersion
Chunks   == Versions \X (1..MaxChunks)
VersionOf(c) == c[1]

Stages == {"idle", "search", "backfill", "build", "check", "accepted",
           "rejected", "refused", "failed"}

\* The elements of s that are in S, in their order.
Kept(s, S) ==
    LET kept[i \in 0..Len(s)] ==
          IF i = 0 THEN <<>>
          ELSE IF s[i] \in S THEN Append(kept[i - 1], s[i]) ELSE kept[i - 1]
    IN  kept[Len(s)]

NoQuery == [tokens |-> 0, output |-> 0, width |-> 1]

TypeOK ==
    /\ ChunkingTypeOK
    /\ served \subseteq Versions
    /\ active \in 0..MaxVersion
    /\ chunks \in [Versions -> 0..MaxChunks]
    /\ points \in [Versions -> 0..MaxChunks]
    /\ ready \in BOOLEAN
    /\ stage \in Stages
    /\ query \in [tokens : Queries \cup {0}, output : Outputs \cup {0}, width : Widths \cup {1}]
    /\ asked \in [active : 0..MaxVersion, ready : BOOLEAN, read : 0..MaxVersion]
    /\ found \in Seq(Chunks)
    /\ hits \in Seq(Chunks) /\ Len(hits) <= TopK
    /\ DOMAIN size \subseteq Chunks
    /\ citations \in Seq(Chunks)
    /\ tried \in 0..Len(hits)

Init ==
    /\ ChunkingInit
    /\ Published!Init
    /\ chunks = [v \in Versions |-> 0]
    /\ points = [v \in Versions |-> 0]
    /\ ready = TRUE
    /\ stage = "idle"
    /\ query = NoQuery
    /\ asked = [active |-> 0, ready |-> TRUE, read |-> 0]
    /\ found = <<>>
    /\ hits = <<>>
    /\ size = <<>>
    /\ citations = <<>>
    /\ tried = 0

-----------------------------------------------------------------------------
(* The index *)

Cut == ChunkingNext /\ UNCHANGED <<world, question>>

\* The drafts become the chunks of the newest version; older versions were cut
\* before.  The chunker keeps nothing.
StoreChunks ==
    /\ phase = "done"
    /\ Len(drafts) <= MaxChunks
    /\ chunks' \in {f \in [Versions -> OldChunks \cup {Len(drafts)}] :
                      \A v \in Versions : IF v = MaxVersion THEN f[v] = Len(drafts)
                                                              ELSE f[v] \in OldChunks}
    /\ phase' = "stored"
    /\ tokens' = [n \in 1..MaxChars |-> 1]
    /\ gap' = 0 /\ limit' = 1 /\ overlap' = 0
    /\ units' = <<>> /\ next' = 1 /\ drafts' = <<>>
    /\ UNCHANGED <<rest, cutting, current, served, active, points, ready, question>>

Upsert(v) ==
    /\ v \notin served
    /\ points[v] < chunks[v]
    /\ points' = [points EXCEPT ![v] = @ + 1]
    /\ UNCHANGED <<chunker, served, active, chunks, ready, question>>

\* A failed attempt is cleaned up.
Discard(v) ==
    /\ v \notin served
    /\ points[v] > 0
    /\ points' = [points EXCEPT ![v] = 0]
    /\ UNCHANGED <<chunker, served, active, chunks, ready, question>>

Publish(v) ==
    /\ chunks[v] > 0 /\ points[v] = chunks[v]
    /\ Published!Publish(v)
    /\ UNCHANGED <<chunker, chunks, points, ready, question>>

DeleteFile ==
    /\ ready
    /\ ready' = FALSE
    /\ UNCHANGED <<chunker, served, active, chunks, points, question>>

-----------------------------------------------------------------------------
(* The question *)

Go(st) == stage' = st /\ UNCHANGED <<chunker, world>>

Available(q) == Window - (Prompt + q.tokens) - q.output - Margin

\* The base prompt is rendered, the budget computed and the owner checked.
Ask(q) ==
    /\ stage = "idle"
    /\ chunks # [v \in Versions |-> 0]
    /\ query' = q
    /\ asked' = [active |-> active, ready |-> ready, read |-> 0]
    /\ IF q.output > 0 /\ q.output <= MaxOutput /\ Available(q) > 0
       THEN Go("search")
       ELSE Go("rejected")
    /\ UNCHANGED <<found, hits, size, citations, tried>>

\* An error of the database, the embedding provider, Qdrant or the prompt.
Break ==
    /\ stage \in {"search", "backfill", "check"}
    /\ Go("failed")
    /\ UNCHANGED <<query, asked, found, hits, size, citations, tried>>

InQdrant == {c \in Chunks : c[2] <= points[c[1]]}

\* The question is embedded, then Qdrant answers with some of its points in some
\* order; nothing of MySQL is held.
Search ==
    /\ stage = "search"
    /\ found' \in UNION {SetToSeqs(S) : S \in SUBSET InQdrant}
    /\ Go("backfill")
    /\ UNCHANGED <<query, asked, hits, size, citations, tried>>

\* Mutant: only as many candidates are fetched as hits are wanted.
CandidatesTopK == SubSeq(found, 1, Min({Len(found), TopK}))

Candidates == SubSeq(found, 1, Min({Len(found), TopK * Multiplier}))

\* Mutant: any indexed version will do.
ServedChunks == {c \in Chunks : ready /\ VersionOf(c) \in served}

\* list_active_chunks_by_ids
ActiveChunks == {c \in Chunks : ready /\ VersionOf(c) = active}

\* The history of that read.
Reads == asked' = [asked EXCEPT !.read = IF ready THEN active ELSE 0]

\* Mutant: the result is not cut at top_k.
BackfillAll ==
    /\ stage = "backfill"
    /\ hits' = Kept(Candidates, ActiveChunks)
    /\ size' \in [ToSet(hits') -> Sizes]
    /\ Reads
    /\ Go("build")
    /\ UNCHANGED <<query, found, citations, tried>>

\* MySQL is read once; the order is Qdrant's.
Backfill ==
    /\ stage = "backfill"
    /\ LET valid == Kept(Candidates, ActiveChunks) IN
       hits' = SubSeq(valid, 1, Min({Len(valid), TopK}))
    /\ size' \in [ToSet(hits') -> Sizes]
    /\ Reads
    /\ Go("build")
    /\ UNCHANGED <<query, found, citations, tried>>

\* Tokens of the joined, labelled texts.
Tokens(cs) ==
    Total([i \in 1..Len(cs) |-> size[cs[i]] + Label])
        + (IF cs = <<>> THEN 0 ELSE Separator * (Len(cs) - 1))

\* Mutant: a fragment is counted without the break before it.
ConsiderApart ==
    /\ stage = "build"
    /\ tried < Len(hits)
    /\ tried' = tried + 1
    /\ LET hit == hits[tried + 1] IN
       citations' = IF Tokens(citations) + Tokens(<<hit>>) > Available(query)
                    THEN citations ELSE Append(citations, hit)
    /\ UNCHANGED <<chunker, world, stage, query, asked, found, hits, size>>

\* ContextBuilder.build: a hit that does not fit is skipped, the next is tried.
Consider ==
    /\ stage = "build"
    /\ tried < Len(hits)
    /\ tried' = tried + 1
    /\ LET longer == Append(citations, hits[tried + 1]) IN
       citations' = IF Tokens(longer) > Available(query) THEN citations ELSE longer
    /\ UNCHANGED <<chunker, world, stage, query, asked, found, hits, size>>

BuildDone ==
    /\ stage = "build"
    /\ tried = Len(hits)
    /\ Go("check")
    /\ UNCHANGED <<query, asked, found, hits, size, citations, tried>>

\* _estimate_input_tokens_conservatively: bytes, four for each message with its
\* role (system, user) and two for the reply.
Estimate == 2 + (4 + 6) + (4 + 4) + query.width * (Prompt + Tokens(citations) + query.tokens)

\* _prepare_provider_call
Check ==
    /\ stage = "check"
    /\ IF Estimate + query.output > Window THEN Go("refused") ELSE Go("accepted")
    /\ UNCHANGED <<query, asked, found, hits, size, citations, tried>>

-----------------------------------------------------------------------------

Index ==
    \/ Cut
    \/ StoreChunks
    \/ \E v \in Versions : Upsert(v) \/ Discard(v) \/ Publish(v)
    \/ DeleteFile

Question ==
    \/ \E t \in Queries, o \in Outputs, w \in Widths :
          Ask([tokens |-> t, output |-> o, width |-> w])
    \/ Break
    \/ Search
    \/ Backfill
    \/ Consider
    \/ BuildDone
    \/ Check

Next == Index \/ Question

Spec == Init /\ [][Next]_vars

-----------------------------------------------------------------------------
(* Properties *)

\* No answer cites a version older than the one that was active when the
\* question came, two versions of a document, or a file that was gone by then,
\* whatever Qdrant still holds (ADR-0031).
NeverStale ==
    \A i \in 1..Len(hits) :
        /\ asked.ready
        /\ VersionOf(hits[i]) >= asked.active
        /\ VersionOf(hits[i]) = VersionOf(hits[1])

\* Stale points do not push a current chunk out of the result as long as there
\* are at most as many of them as candidates fetched beyond top_k: the result is
\* what was found of the version MySQL names.  In particular it is empty only if
\* nothing was found of it, as when it was published after Qdrant had answered.
NoHoles ==
    stage = "build" =>
        LET mine == Kept(found, {c \in Chunks : VersionOf(c) = asked.read}) IN
        Len(found) - Len(mine) <= TopK * (Multiplier - 1) =>
            hits = SubSeq(mine, 1, Min({Len(mine), TopK}))

\* What the provider gets fits the model's window with the output limit and the
\* margin, and a hit was left out only if it did not fit (ContextBuilder, ADR-0032).
ContextFits ==
    stage \in {"check", "accepted"} =>
        /\ Prompt + Tokens(citations) + query.tokens + query.output + Margin <= Window
        /\ \A i \in 1..Len(hits) : hits[i] \notin ToSet(citations) =>
              Tokens(Append(Kept(SubSeq(hits, 1, i - 1), ToSet(citations)), hits[i]))
                  > Available(query)

\* Expected by budget.py:76 and ADR-0032:44: a context built within the budget is
\* not refused by the gateway for its length.
NotRefused == stage # "refused"
================================================================================
