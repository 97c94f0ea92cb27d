--------------------------- MODULE PublishedVersions ---------------------------
(***************************************************************************)
(* What the indexing of a document promises its readers (ADR-0030): a      *)
(* version, once served, is served for good, and the active version is the *)
(* newest one served, whatever the order in which versions are finished.   *)
(***************************************************************************)
EXTENDS Integers

CONSTANT MaxVersion    \* a natural number

Versions == 1..MaxVersion

VARIABLES
    served,   \* versions that are indexed with all their vectors
    active    \* the version retrieval answers from, 0 for none

vars == <<served, active>>

Init == served = {} /\ active = 0

Publish(v) ==
    /\ v \notin served
    /\ served' = served \cup {v}
    /\ active' = IF v > active THEN v ELSE active

Next == \E v \in Versions : Publish(v)

Spec == Init /\ [][Next]_vars
================================================================================
