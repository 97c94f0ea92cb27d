--------------------------- MODULE RefreshTokenChain ---------------------------
(***************************************************************************)
(* What ADR-0017 and ADR-0018 promise about refresh tokens: a session has  *)
(* one token, exchanging it spends it and hands out a token never seen     *)
(* before, and a session that has ended stays ended.                       *)
(***************************************************************************)

CONSTANTS Sessions, Tokens, NoToken

VARIABLES
    phase,    \* "unborn", "live" or "ended", per session
    bearer,   \* the sessions a token was issued for, per token
    current,  \* the token a live session accepts
    spent     \* tokens that were exchanged

vars == <<phase, bearer, current, spent>>

Init ==
    /\ phase = [s \in Sessions |-> "unborn"]
    /\ bearer = [t \in Tokens |-> {}]
    /\ current = [s \in Sessions |-> NoToken]
    /\ spent = {}

\* A token never issued before becomes the one session s accepts.
Issue(s, t) ==
    /\ bearer[t] = {}
    /\ bearer' = [bearer EXCEPT ![t] = {s}]
    /\ current' = [current EXCEPT ![s] = t]

Open(s, t) ==
    /\ phase[s] = "unborn"
    /\ phase' = [phase EXCEPT ![s] = "live"]
    /\ Issue(s, t)
    /\ UNCHANGED spent

Exchange(s, t) ==
    /\ phase[s] = "live"
    /\ Issue(s, t)
    /\ spent' = spent \cup {current[s]}
    /\ UNCHANGED phase

\* Sessions end by logout, revocation, replay or time, several at once.
End(S) ==
    /\ \A s \in S : phase[s] = "live"
    /\ phase' = [s \in Sessions |-> IF s \in S THEN "ended" ELSE phase[s]]
    /\ current' = [s \in Sessions |-> IF s \in S THEN NoToken ELSE current[s]]
    /\ UNCHANGED <<bearer, spent>>

Next ==
    \/ \E s \in Sessions, t \in Tokens : Open(s, t) \/ Exchange(s, t)
    \/ \E S \in SUBSET Sessions : End(S)

Spec == Init /\ [][Next]_vars
================================================================================
