------------------------------ MODULE AuthSessions ------------------------------
(***************************************************************************)
(* Login, refresh, logout, listing and revocation: AuthService over the    *)
(* session hashes and the per-user index in Redis, and the attempt counter *)
(* of LoginRateLimiter.                                                    *)
(*                                                                         *)
(* A step is one round trip to Redis (a command, a MULTI or a Lua script)  *)
(* with the code up to it.  Times are the seconds left, and Tick lets one  *)
(* pass: a refresh token whose exp lies k seconds ahead has life k, and is *)
(* refused from -1 on.  A session's expires_at is always the exp of its    *)
(* current token and its refresh_token_hash names that token, so both are  *)
(* the life of current[s].  MySQL's answers (unknown user, wrong password, *)
(* inactive user) are the choice to go on or to Leave.                     *)
(***************************************************************************)
EXTENDS Integers

CONSTANTS
    Users,
    Calls,          \* concurrent requests
    MaxSessions,    \* bound: logins that succeed
    MaxTokens,      \* bound: refresh tokens issued
    SessionTtl,     \* SESSION_TTL_DAYS
    AbsoluteMax,    \* SESSION_ABSOLUTE_MAX_DAYS
    MaxAttempts,    \* LOGIN_RATE_LIMIT_MAX_ATTEMPTS
    Window          \* LOGIN_RATE_LIMIT_WINDOW_SECONDS

Nobody == "nobody"      \* the subject of a session not yet created

ASSUME AuthAssumption ==
    /\ Nobody \notin Users
    /\ MaxSessions \in Nat /\ MaxTokens \in Nat
    /\ SessionTtl \in Nat \ {0} /\ AbsoluteMax \in Nat /\ SessionTtl <= AbsoluteMax
    /\ MaxAttempts \in Nat \ {0} /\ Window \in Nat \ {0}

\* Session ids and tokens are random; the model numbers them in the order
\* of their creation.
Sessions == 1..MaxSessions
Tokens   == 1..MaxTokens
Modes    == {"absolute", "sliding"}     \* SESSION_EXPIRATION_MODE
Lives    == -1..AbsoluteMax

NoSid   == 0
NoToken == 0

Stages == {"idle", "login", "create", "rotate",
           "revoke", "revoke_all", "swept", "list", "fetch"}

VARIABLES
    mode,       \* the configured expiration mode
    ttl,        \* seconds Redis keeps the session's hash; 0: there is none
    current,    \* refresh_token_hash
    absolute,   \* absolute_expires_at
    subject,    \* user_id of a session, also the sub of its tokens
    index,      \* the sorted set of session ids of each user
    sid,        \* the session a refresh token was issued for
    life,       \* exp of each refresh token
    spent,      \* history: tokens that were exchanged for another
    attempts,   \* the login counter of each user
    window,     \* seconds until that counter expires; 0: it has no expiry
    locked,     \* history: seconds for which no login was possible
    stage,      \* where each request is
    work        \* what it holds in local variables

hash    == <<ttl, current, absolute, subject>>
tokens  == <<sid, life, spent>>
limiter == <<attempts, window, locked>>
vars    == <<mode, hash, index, tokens, limiter, stage, work>>

\* user or token presented, target session, exp and limit about to be written,
\* ids still to be read and ids found missing
NoWork == [user |-> Nobody, token |-> NoToken, target |-> NoSid, life |-> 0, limit |-> 0,
           keep |-> 0, ids |-> {}, stale |-> {}]

Works == [user : Users \cup {Nobody}, token : Tokens \cup {NoToken}, target : Sessions \cup {NoSid},
          life : Lives, limit : Lives, keep : 0..AbsoluteMax,
          ids : SUBSET Sessions, stale : SUBSET Sessions]

TypeOK ==
    /\ mode \in Modes
    /\ ttl \in [Sessions -> 0..AbsoluteMax]
    /\ current \in [Sessions -> Tokens \cup {NoToken}]
    /\ absolute \in [Sessions -> Lives]
    /\ subject \in [Sessions -> Users \cup {Nobody}]
    /\ index \in [Users -> SUBSET Sessions]
    /\ sid \in [Tokens -> Sessions \cup {NoSid}]
    /\ life \in [Tokens -> Lives]
    /\ spent \subseteq Tokens
    /\ attempts \in [Users -> 0..MaxAttempts]
    /\ window \in [Users -> 0..Window]
    /\ locked \in [Users -> Nat]
    /\ stage \in [Calls -> Stages]
    /\ work \in [Calls -> Works]

Init ==
    /\ mode \in Modes
    /\ ttl = [s \in Sessions |-> 0]
    /\ current = [s \in Sessions |-> NoToken]
    /\ absolute = [s \in Sessions |-> -1]
    /\ subject = [s \in Sessions |-> Nobody]
    /\ index = [u \in Users |-> {}]
    /\ sid = [t \in Tokens |-> NoSid]
    /\ life = [t \in Tokens |-> -1]
    /\ spent = {}
    /\ attempts = [u \in Users |-> 0]
    /\ window = [u \in Users |-> 0]
    /\ locked = [u \in Users |-> 0]
    /\ stage = [c \in Calls |-> "idle"]
    /\ work = [c \in Calls |-> NoWork]

-----------------------------------------------------------------------------
(* Helpers *)

Live(s) == ttl[s] > 0

Lesser(a, b) == IF a <= b THEN a ELSE b

FreshSession(s) == subject[s] = Nobody /\ \A r \in 1..(s - 1) : subject[r] # Nobody
FreshToken(t)   == sid[t] = NoSid /\ \A r \in 1..(t - 1) : sid[r] # NoSid

\* The signature holds and exp has not passed (decode_refresh_token).
Accepted(t) == sid[t] # NoSid /\ life[t] >= 0

\* The access token handed out with refresh token t: it names the same session
\* and expires no later.  An earlier exp only ends the call (Leave).
AccessAccepted(t) == Accepted(t)

\* user_id of the hash of s is u.
Owned(s, u) == Live(s) /\ subject[s] = u

Goes(c, st, w) ==
    /\ stage' = [stage EXCEPT ![c] = st]
    /\ work' = [work EXCEPT ![c] = w]

Ends(c) == Goes(c, "idle", NoWork)

\* Where the hashes of S go, f takes the value none.
Without(S, f, none) == [s \in Sessions |-> IF s \in S THEN none ELSE f[s]]

\* DEL of the hashes of S.
DeleteHashes(S) ==
    /\ ttl' = Without(S, ttl, 0)
    /\ current' = Without(S, current, NoToken)
    /\ absolute' = Without(S, absolute, -1)
    /\ UNCHANGED subject

\* Mutant: the whole index is deleted with one session.
DeleteSessionAndIndex(s) ==
    /\ DeleteHashes({s})
    /\ index' = [index EXCEPT ![subject[s]] = {}]

\* DEL of the hash of s and ZREM of its id.
DeleteSession(s) ==
    /\ DeleteHashes({s})
    /\ index' = [index EXCEPT ![subject[s]] = @ \ {s}]

\* The refresh token t, unseen so far, is handed out for session s.
IssueToken(t, s, exp) ==
    /\ FreshToken(t)
    /\ sid' = [sid EXCEPT ![t] = s]
    /\ life' = [life EXCEPT ![t] = exp]
    /\ current' = [current EXCEPT ![s] = t]

\* An error of Redis or MySQL, a rejected user, or the end of the process.
Leave(c) ==
    /\ stage[c] # "idle"
    /\ Ends(c)
    /\ UNCHANGED <<mode, hash, index, tokens, limiter>>

-----------------------------------------------------------------------------
(* login *)

\* Mutant: EXPIRE without NX, so that every attempt renews the window.
ReserveAttemptRenews(c, u) ==
    /\ stage[c] = "idle"
    /\ attempts' = [attempts EXCEPT ![u] = Lesser(@ + 1, MaxAttempts)]
    /\ window' = [window EXCEPT ![u] = Window]
    /\ IF attempts[u] + 1 <= MaxAttempts
       THEN Goes(c, "login", [NoWork EXCEPT !.user = u])
       ELSE UNCHANGED <<stage, work>>
    /\ UNCHANGED <<mode, hash, index, tokens, locked>>

\* INCR and EXPIRE NX in one MULTI; the request is admitted by its own count.
\* Counts from the limit on are alike: the next attempt is refused.
ReserveAttempt(c, u) ==
    /\ stage[c] = "idle"
    /\ attempts' = [attempts EXCEPT ![u] = Lesser(@ + 1, MaxAttempts)]
    /\ window' = [window EXCEPT ![u] = IF @ = 0 THEN Window ELSE @]
    /\ IF attempts[u] + 1 <= MaxAttempts
       THEN Goes(c, "login", [NoWork EXCEPT !.user = u])
       ELSE UNCHANGED <<stage, work>>
    /\ UNCHANGED <<mode, hash, index, tokens, locked>>

InitialLimit == IF mode = "sliding" THEN AbsoluteMax ELSE SessionTtl

\* The password was right: the counter is deleted, then created_at is taken.
ResetAttempts(c) ==
    /\ stage[c] = "login"
    /\ attempts' = [attempts EXCEPT ![work[c].user] = 0]
    /\ window' = [window EXCEPT ![work[c].user] = 0]
    /\ locked' = [locked EXCEPT ![work[c].user] = 0]
    /\ Goes(c, "create", [work[c] EXCEPT !.life = SessionTtl, !.limit = InitialLimit])
    /\ UNCHANGED <<mode, hash, index, tokens>>

CreateSession(c, s, t) ==
    /\ stage[c] = "create"
    /\ FreshSession(s)
    /\ subject' = [subject EXCEPT ![s] = work[c].user]
    /\ IssueToken(t, s, work[c].life)
    /\ absolute' = [absolute EXCEPT ![s] = work[c].limit]
    /\ ttl' = [ttl EXCEPT ![s] = SessionTtl]
    /\ index' = [index EXCEPT ![work[c].user] = @ \cup {s}]
    /\ Ends(c)
    /\ UNCHANGED <<mode, spent, limiter>>

-----------------------------------------------------------------------------
(* refresh *)

\* Mutant: the limit is extended instead of kept.
RotatedLifeExtends(s) ==
    IF mode = "absolute" THEN life[current[s]] ELSE SessionTtl + absolute[s]

RotatedLife(s) ==
    IF mode = "absolute" THEN life[current[s]] ELSE Lesser(SessionTtl, absolute[s])

\* The record is read, then rotated_at is taken: keep is the ttl_seconds that
\* will be set however late the script runs.
BeginRefresh(c, t) ==
    /\ stage[c] = "idle"
    /\ Accepted(t)
    /\ Live(sid[t])
    /\ RotatedLife(sid[t]) > 0
    /\ Goes(c, "rotate", [NoWork EXCEPT !.token = t, !.life = RotatedLife(sid[t]),
                                        !.keep = RotatedLife(sid[t])])
    /\ UNCHANGED <<mode, hash, index, tokens, limiter>>

\* Mutants of Rotate: the hash is not compared, or EXPIRE is forgotten.
RotateUncompared(c, t) ==
    LET s == sid[work[c].token] IN
    /\ stage[c] = "rotate"
    /\ Live(s)
    /\ IssueToken(t, s, work[c].life)
    /\ spent' = spent \cup {work[c].token}
    /\ ttl' = [ttl EXCEPT ![s] = work[c].keep]
    /\ index' = [index EXCEPT ![subject[s]] = @ \cup {s}]
    /\ Ends(c)
    /\ UNCHANGED <<mode, absolute, subject, limiter>>

RotateWithoutExpire(c, t) ==
    LET s == sid[work[c].token] IN
    /\ stage[c] = "rotate"
    /\ Live(s)
    /\ current[s] = work[c].token
    /\ IssueToken(t, s, work[c].life)
    /\ spent' = spent \cup {work[c].token}
    /\ index' = [index EXCEPT ![subject[s]] = @ \cup {s}]
    /\ Ends(c)
    /\ UNCHANGED <<mode, ttl, absolute, subject, limiter>>

\* _ROTATE_SESSION_SCRIPT
Rotate(c, t) ==
    LET s == sid[work[c].token] IN
    /\ stage[c] = "rotate"
    /\ Live(s)
    /\ current[s] = work[c].token
    /\ IssueToken(t, s, work[c].life)
    /\ spent' = spent \cup {work[c].token}
    /\ ttl' = [ttl EXCEPT ![s] = work[c].keep]
    /\ index' = [index EXCEPT ![subject[s]] = @ \cup {s}]
    /\ Ends(c)
    /\ UNCHANGED <<mode, absolute, subject, limiter>>

\* A token that is no longer the session's ends the session.
RotateReplay(c) ==
    LET s == sid[work[c].token] IN
    /\ stage[c] = "rotate"
    /\ Live(s)
    /\ current[s] # work[c].token
    /\ DeleteSession(s)
    /\ Ends(c)
    /\ UNCHANGED <<mode, tokens, limiter>>

RotateMissing(c) ==
    /\ stage[c] = "rotate"
    /\ ~Live(sid[work[c].token])
    /\ Ends(c)
    /\ UNCHANGED <<mode, hash, index, tokens, limiter>>

-----------------------------------------------------------------------------
(* logout *)

\* _DELETE_SESSION_IF_MATCHES_SCRIPT; without a match nothing changes.
Logout(t) ==
    /\ Accepted(t)
    /\ Live(sid[t])
    /\ current[sid[t]] = t
    /\ DeleteSession(sid[t])
    /\ UNCHANGED <<mode, tokens, limiter, stage, work>>

-----------------------------------------------------------------------------
(* list_sessions, revoke_session, revoke_all_sessions *)

\* _require_current_session with the access token of t.  The target of
\* revoke_all is the current session.
BeginManage(c, t, op, target) ==
    /\ stage[c] = "idle"
    /\ op \in {"list", "revoke", "revoke_all"}
    /\ op = "list" => target = NoSid
    /\ op = "revoke" => target # NoSid
    /\ op = "revoke_all" => target = sid[t]
    /\ AccessAccepted(t)
    /\ Live(sid[t])
    /\ Goes(c, op, [NoWork EXCEPT !.user = subject[sid[t]], !.target = target])
    /\ UNCHANGED <<mode, hash, index, tokens, limiter>>

\* _REVOKE_SESSION_SCRIPT: the target must be a session of the same user.
Revoke(c) ==
    LET s == work[c].target IN
    /\ stage[c] = "revoke"
    /\ Owned(s, work[c].user)
    /\ DeleteSession(s)
    /\ Ends(c)
    /\ UNCHANGED <<mode, tokens, limiter>>

\* Mutant: the current session is spared.
RevokeAllOthers(c) ==
    LET u == work[c].user
        s == work[c].target IN
    /\ stage[c] = "revoke_all"
    /\ Owned(s, u)
    /\ DeleteHashes({r \in index[u] \ {s} : subject[r] = u})
    /\ index' = [index EXCEPT ![u] = {}]
    /\ Goes(c, "swept", NoWork)
    /\ UNCHANGED <<mode, tokens, limiter>>

\* _REVOKE_ALL_SESSIONS_SCRIPT: the sessions the index names, the current one,
\* and the index itself.
RevokeAll(c) ==
    LET u == work[c].user
        s == work[c].target IN
    /\ stage[c] = "revoke_all"
    /\ Owned(s, u)
    /\ DeleteHashes({s} \cup {r \in index[u] : subject[r] = u})
    /\ index' = [index EXCEPT ![u] = {}]
    /\ Goes(c, "swept", NoWork)
    /\ UNCHANGED <<mode, tokens, limiter>>

\* ZREVRANGE
ListIds(c) ==
    /\ stage[c] = "list"
    /\ Goes(c, "fetch", [work[c] EXCEPT !.ids = index[work[c].user]])
    /\ UNCHANGED <<mode, hash, index, tokens, limiter>>

\* One HGETALL of the pipeline, which is no transaction.
FetchRecord(c, s) ==
    /\ stage[c] = "fetch"
    /\ s \in work[c].ids
    /\ Goes(c, "fetch", [work[c] EXCEPT !.ids = @ \ {s},
                                        !.stale = IF Live(s) THEN @ ELSE @ \cup {s}])
    /\ UNCHANGED <<mode, hash, index, tokens, limiter>>

Prune(c) ==
    /\ stage[c] = "fetch"
    /\ work[c].ids = {}
    /\ index' = [index EXCEPT ![work[c].user] = @ \ work[c].stale]
    /\ Ends(c)
    /\ UNCHANGED <<mode, hash, tokens, limiter>>

-----------------------------------------------------------------------------
(* Time *)

Aged(n) == IF n > -1 THEN n - 1 ELSE -1

\* A second passes.  Redis drops a hash whose time is up but not its index
\* entry, and a counter whose window is over.
Tick ==
    /\ LET due == {s \in Sessions : ttl[s] <= 1} IN
       /\ ttl' = Without(due, [s \in Sessions |-> ttl[s] - 1], 0)
       /\ current' = Without(due, current, NoToken)
       /\ absolute' = Without(due, [s \in Sessions |-> Aged(absolute[s])], -1)
    /\ life' = [t \in Tokens |-> Aged(life[t])]
    /\ window' = [u \in Users |-> IF window[u] > 0 THEN window[u] - 1 ELSE 0]
    /\ attempts' = [u \in Users |-> IF window[u] = 1 THEN 0 ELSE attempts[u]]
    /\ locked' = [u \in Users |-> IF attempts'[u] = MaxAttempts THEN locked[u] + 1 ELSE 0]
    /\ work' = [c \in Calls |-> IF stage[c] \in {"create", "rotate"}
                 THEN [work[c] EXCEPT !.life = Aged(@), !.limit = Aged(@)]
                 ELSE work[c]]
    /\ UNCHANGED <<mode, subject, index, sid, spent, stage>>

-----------------------------------------------------------------------------

Login(c) ==
    \/ \E u \in Users : ReserveAttempt(c, u)
    \/ ResetAttempts(c)
    \/ \E s \in Sessions, t \in Tokens : CreateSession(c, s, t)

Refresh(c) ==
    \/ \E t \in Tokens : BeginRefresh(c, t) \/ Rotate(c, t)
    \/ RotateReplay(c)
    \/ RotateMissing(c)

Manage(c) ==
    \/ \E t \in Tokens, op \in Stages, s \in Sessions \cup {NoSid} : BeginManage(c, t, op, s)
    \/ Revoke(c)
    \/ RevokeAll(c)
    \/ ListIds(c)
    \/ \E s \in Sessions : FetchRecord(c, s)
    \/ Prune(c)

Next ==
    \/ \E c \in Calls : Login(c) \/ Refresh(c) \/ Manage(c) \/ Leave(c)
    \/ \E t \in Tokens : Logout(t)
    \/ Tick

Spec == Init /\ [][Next]_vars

-----------------------------------------------------------------------------
(* Properties *)

\* The index of a user names every session of the user: a listing shows it and
\* "log out everywhere" finds it, although expiry leaves entries behind that a
\* concurrent listing removes (list_for_user, revoke_all).
IndexComplete == \A s \in Sessions : Live(s) => s \in index[subject[s]]

\* Redis keeps a session as long as its current token can be exchanged, and no
\* token outlives the limit fixed at the login, whichever mode is configured
\* and however late a script runs (calculate_rotated_session_expiration).
TokenBacked ==
    \A s \in Sessions : Live(s) =>
        /\ life[current[s]] <= ttl[s]
        /\ life[current[s]] <= absolute[s]

\* When "log out everywhere" has succeeded, no session of the user is left.
RevokeAllSweeps ==
    [][\A c \in Calls : stage[c] = "revoke_all" /\ stage'[c] = "swept" =>
          \A s \in Sessions : subject[s] = work[c].user => ~Live(s)']_vars

\* However often a login is attempted meanwhile, an account that is locked opens
\* again within one window (reserve_attempt sets the counter's expiry once).
LockoutEnds == \A u \in Users : locked[u] < Window

Phase(s) ==
    IF subject[s] = Nobody THEN "unborn" ELSE IF Live(s) THEN "live" ELSE "ended"

Chain == INSTANCE RefreshTokenChain WITH
    phase <- [s \in Sessions |-> Phase(s)],
    bearer <- [t \in Tokens |-> {sid[t]} \ {NoSid}]

\* Concurrent refreshes, replays, revocations and expiry keep to the chain of
\* ADR-0017: every token is exchanged at most once, and no late script revives
\* a session that has ended.
ChainSpec == Chain!Spec
================================================================================
