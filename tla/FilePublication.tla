---------------------------- MODULE FilePublication ----------------------------
(***************************************************************************)
(* What the file service promises about one file (ADR-0023): it is visible *)
(* only while its object is stored, once withdrawn it never comes back, and *)
(* a file that was visible never ends as a failed upload.                   *)
(***************************************************************************)

VARIABLES
    phase,    \* "new", then "visible" and "withdrawn", or "failed"
    object    \* the object is stored

vars == <<phase, object>>

Init == phase = "new" /\ object = FALSE

Store   == phase = "new" /\ object' = TRUE /\ UNCHANGED phase
Publish == phase = "new" /\ object /\ phase' = "visible" /\ UNCHANGED object
Fail    == phase = "new" /\ phase' = "failed" /\ UNCHANGED object

Withdraw == phase = "visible" /\ phase' = "withdrawn" /\ UNCHANGED object
Remove   == phase # "visible" /\ object' = FALSE /\ UNCHANGED phase

Next == Store \/ Publish \/ Fail \/ Withdraw \/ Remove

Spec == Init /\ [][Next]_vars
================================================================================
