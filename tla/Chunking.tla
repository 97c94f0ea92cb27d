-------------------------------- MODULE Chunking --------------------------------
(***************************************************************************)
(* StructureAwareChunker.chunk: a document becomes units, units become     *)
(* chunks of at most limit tokens that repeat the end of the chunk before. *)
(*                                                                         *)
(* A text is its number of characters.  tokens is the tokenizer, any       *)
(* function of the length of a text without breaks, monotone or not, and a *)
(* break between two units adds gap tokens.  BPE counts depend on the words*)
(* too; that texts of one length count alike is an abstraction, of which   *)
(* neither the chunker nor the proofs make use.  Blanks dropped at a cut and*)
(* the source locators are left out.                                       *)
(***************************************************************************)
EXTENDS Integers, Sequences, SequencesExt, FiniteSetsExt

CONSTANTS
    MaxChars,   \* bound: characters of a document
    MaxCount,   \* bound: tokens of a text without breaks
    MaxLimit,   \* bound: the configured max_tokens
    MaxGap      \* bound: tokens of a break

ASSUME ChunkingAssumption ==
    MaxChars \in Nat \ {0} /\ MaxCount \in Nat \ {0} /\ MaxLimit \in Nat \ {0} /\ MaxGap \in Nat

\* The sum of a sequence: a function of the index, about which one can reason by
\* induction, where a fold of the library is out of the provers' reach.
Total(s) ==
    LET total[i \in 0..Len(s)] == IF i = 0 THEN 0 ELSE total[i - 1] + s[i] IN total[Len(s)]

\* A document is the lengths of its sentences.
Documents ==
    {d \in UNION {[1..n -> 1..MaxChars] : n \in 1..MaxChars} : Total(d) <= MaxChars}

VARIABLES
    tokens,     \* the token counter
    gap,        \* what a break adds to it
    limit,      \* max_tokens
    overlap,    \* overlap_tokens
    rest,       \* sentences still to be turned into units
    cutting,    \* the first of them is the remainder of a longer one
    units,      \* lengths of the units
    next,       \* the unit the loop is at
    current,    \* current_units, by number
    drafts,     \* the chunks, each the numbers of its units
    phase       \* "split", "pack", then "done" and "stored", or "failed"

config  == <<tokens, gap, limit, overlap>>
chunker == <<config, rest, cutting, units, next, current, drafts, phase>>

ChunkingTypeOK ==
    /\ tokens \in [1..MaxChars -> 1..MaxCount]
    /\ gap \in 0..MaxGap
    /\ limit \in 1..MaxLimit
    /\ overlap \in 0..(limit - 1)
    /\ rest \in Seq(1..MaxChars)
    /\ cutting \in BOOLEAN
    /\ units \in Seq(1..MaxChars)
    /\ next \in 1..(Len(units) + 1)
    /\ current \in Seq(1..Len(units))
    /\ drafts \in Seq(Seq(1..Len(units)))
    /\ phase \in {"split", "pack", "done", "failed", "stored"}

ChunkingInit ==
    /\ tokens \in [1..MaxChars -> 1..MaxCount]
    /\ gap \in 0..MaxGap
    /\ limit \in 1..MaxLimit
    /\ overlap \in 0..(limit - 1)
    /\ rest \in Documents
    /\ cutting = FALSE
    /\ units = <<>>
    /\ next = 1
    /\ current = <<>>
    /\ drafts = <<>>
    /\ phase = "split"

-----------------------------------------------------------------------------
(* Helpers *)

\* Tokens of the units us, joined by breaks.
Count(us) == tokens[Total([i \in 1..Len(us) |-> units[us[i]]])] + gap * (Len(us) - 1)

\* _longest_fitting_prefix: it stops at the first prefix that is too long.
FittingPrefix(n) == Max({0} \cup {k \in 1..n : \A i \in 1..k : tokens[i] <= limit})

LastUnits(us, k) == SubSeq(us, Len(us) - k + 1, Len(us))

\* Mutants of Overlap: the next unit is not counted, or units are taken from the
\* front.
OverlapUncounted(us, u) ==
    LastUnits(us, Max({0} \cup {k \in 1..Len(us) : \A i \in 1..k : Count(LastUnits(us, i)) <= overlap}))

OverlapFromFront(us, u) ==
    SubSeq(us, 1, Max({0} \cup {k \in 1..Len(us) : \A i \in 1..k :
        Count(SubSeq(us, 1, i)) <= overlap /\ Count(Append(SubSeq(us, 1, i), u)) <= limit}))

\* The units at the end of us that the chunk beginning with u repeats.
Overlap(us, u) ==
    LastUnits(us, Max({0} \cup {k \in 1..Len(us) : \A i \in 1..k :
        Count(LastUnits(us, i)) <= overlap /\ Count(Append(LastUnits(us, i), u)) <= limit}))

-----------------------------------------------------------------------------
(* _units_for_block *)

KeepSentence ==
    /\ phase = "split"
    /\ rest # <<>>
    /\ ~cutting
    /\ tokens[Head(rest)] <= limit
    /\ units' = Append(units, Head(rest))
    /\ rest' = Tail(rest)
    /\ UNCHANGED <<config, cutting, next, current, drafts, phase>>

\* _split_oversized_unit: a piece of a sentence that is too long.
CutSentence ==
    /\ phase = "split"
    /\ rest # <<>>
    /\ cutting \/ tokens[Head(rest)] > limit
    /\ LET n == Head(rest)
           k == FittingPrefix(n) IN
       /\ k > 0
       /\ units' = Append(units, k)
       /\ rest' = IF k = n THEN Tail(rest) ELSE <<n - k>> \o Tail(rest)
       /\ cutting' = (k < n)
    /\ UNCHANGED <<config, next, current, drafts, phase>>

\* One character has more tokens than a chunk may have.
CutFails ==
    /\ phase = "split"
    /\ rest # <<>>
    /\ cutting \/ tokens[Head(rest)] > limit
    /\ FittingPrefix(Head(rest)) = 0
    /\ phase' = "failed"
    /\ UNCHANGED <<config, rest, cutting, units, next, current, drafts>>

SplitDone ==
    /\ phase = "split"
    /\ rest = <<>>
    /\ phase' = "pack"
    /\ UNCHANGED <<config, rest, cutting, units, next, current, drafts>>

-----------------------------------------------------------------------------
(* chunk *)

AddUnit ==
    /\ phase = "pack"
    /\ next <= Len(units)
    /\ next' = next + 1
    /\ IF current # <<>> /\ Count(Append(current, next)) > limit
       THEN /\ drafts' = Append(drafts, current)
            /\ current' = Append(Overlap(current, next), next)
       ELSE /\ current' = Append(current, next)
            /\ UNCHANGED drafts
    /\ UNCHANGED <<config, rest, cutting, units, phase>>

Finish ==
    /\ phase = "pack"
    /\ next = Len(units) + 1
    /\ drafts' = Append(drafts, current)
    /\ current' = <<>>
    /\ phase' = "done"
    /\ UNCHANGED <<config, rest, cutting, units, next>>

ChunkingNext ==
    \/ KeepSentence \/ CutSentence \/ CutFails \/ SplitDone
    \/ AddUnit \/ Finish

ChunkingSpec == ChunkingInit /\ [][ChunkingNext]_chunker

-----------------------------------------------------------------------------
(* Properties *)

\* No chunk exceeds the limit, although it starts with repeated units and the
\* counts of its parts do not add up to its own (chunk, _overlap_for_next_chunk).
ChunksFit == \A k \in 1..Len(drafts) : Count(drafts[k]) <= limit

\* The units a to b.
Run(a, b) == [i \in 1..(b - a + 1) |-> a + i - 1]

\* right goes on where left ends, or repeats some of its end.
Follows(left, right) ==
    LET shared == Last(left) - right[1] + 1 IN
    /\ left[1] <= right[1]
    /\ Last(left) < Last(right)
    /\ shared >= 0
    /\ shared > 0 => Count(LastUnits(left, shared)) <= overlap

\* The chunks go through the document without a gap, each with at least one unit
\* its predecessor has not, and what two neighbours share is within the overlap.
ChunksCover ==
    /\ \A k \in 1..Len(drafts) : \E a, b \in 1..Len(units) : a <= b /\ drafts[k] = Run(a, b)
    /\ \A k \in 1..(Len(drafts) - 1) : Follows(drafts[k], drafts[k + 1])
    /\ phase = "done" => drafts[1][1] = 1 /\ Last(Last(drafts)) = Len(units)
================================================================================
